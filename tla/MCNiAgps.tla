------------------------------ MODULE MCNiAgps ------------------------------
(***************************************************************************)
(* Instances for TLC of two parts of the engine that share nothing: the    *)
(* requests of the network (LocEngNi) and the data connections of assisted *)
(* GPS (LocEngAgps).  part names the one of this behaviour, the other      *)
(* keeps its first state.  Of the two requests, which are alike, p1 comes  *)
(* first.                                                                  *)
(***************************************************************************)
EXTENDS LocEngNi, MCLocEngAgps

CONSTANTS p1, p2

NiRequests == {p1, p2}

VARIABLE part

partVars == <<part, niVars, vars>>

PartInit ==
    /\ part \in {"ni", "agps"}
    /\ NiInit
    /\ Init
    /\ part # "agps" => setting = With({"agnss", "wifi"}, {c1, c2}, {"wifi"}, 0, 3)

PartNext ==
    \/ part = "ni" /\ NiNext /\ (New(p1) => New(p2))' /\ UNCHANGED <<part, vars>>
    \/ part = "agps" /\ Next /\ UNCHANGED <<part, niVars>>

(* The fairness of each part, while the behaviour is the part's. *)
PartFairness ==
    /\ WF_niVars(part = "ni" /\ NiMsgTask)
    /\ \A i \in Ids : WF_niVars(part = "ni" /\ NiThread(i))
    /\ WF_vars(part = "agps" /\ MsgTask)
    /\ \A m \in Nifs \ {"ds"} : WF_vars(part = "agps" /\ (answer(m) \/ answerNameless(m)))

PartSpec == PartInit /\ [][PartNext]_partVars /\ PartFairness
=============================================================================
