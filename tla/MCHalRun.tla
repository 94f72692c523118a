------------------------------ MODULE MCHalRun ------------------------------
(***************************************************************************)
(* MCHal with the adapters a1, a2 and a3, which are alike: they come in    *)
(* this order.                                                             *)
(***************************************************************************)
EXTENDS MCHal

CONSTANTS a1, a2, a3

RunAdapters == {a1, a2, a3}

Came(a) == a \in Api!Present \cup removed

InOrder == (Came(a2) => Came(a1)) /\ (Came(a3) => Came(a2))

RunSpec == HalInit /\ [][HalNext /\ InOrder']_halVars
=============================================================================
