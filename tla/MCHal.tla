-------------------------------- MODULE MCHal --------------------------------
(***************************************************************************)
(* Instances for TLC of four parts of the HAL that share nothing here: the *)
(* settings of the framework (LocHal), its sessions (LocEng), the adapters *)
(* of the modem's API (LocApi) and the NMEA sentences (Nmea).  part names  *)
(* the one of this behaviour, the others keep their first state.           *)
(***************************************************************************)
EXTENDS LocHal, MCLocEng

CONSTANTS Adapters, Events, mExcludedMask, MAX_ADAPTERS, Limits, NULL, MaxSvs, MaxReports

ASSUME ArrayHasSlots == MAX_ADAPTERS \in Nat \ {0}
ASSUME NullIsNoAdapter == NULL \notin Adapters
ASSUME ReportsNat == MaxReports \in Nat /\ MaxSvs \in Nat

VARIABLES part,
          mLocAdapters, mEvtMask, client, removed, opens, asking, registered, delivery, left,
          view, gps_used_mask, glo_used_mask, dop, usedFrom, sentences, reports

Api == INSTANCE LocApi
Sentences == INSTANCE Nmea

apiVars == <<mLocAdapters, mEvtMask, client, removed, opens, asking, registered, delivery, left>>
nmeaVars == <<view, gps_used_mask, glo_used_mask, dop, usedFrom, sentences, reports>>
halVars == <<part, vars, locEngVars, apiVars, nmeaVars>>

HalInit ==
  /\ part \in {"settings", "sessions", "adapters", "nmea"}
  /\ Init /\ (part # "settings" => target = "msm")
  /\ EngInit
     /\ (part # "sessions" => ~intermediateFix /\ remaining = CHOOSE l \in EngLimits : TRUE)
  /\ Api!Init /\ (part # "adapters" => left = CHOOSE l \in Limits : TRUE)
  /\ Sentences!Init /\ (part # "nmea" => view = <<>>)

HalNext ==
  \/ part = "settings" /\ Next /\ UNCHANGED <<part, locEngVars, apiVars, nmeaVars>>
  \/ part = "sessions" /\ EngNext /\ UNCHANGED <<part, vars, apiVars, nmeaVars>>
  \/ part = "adapters" /\ Api!Next /\ UNCHANGED <<part, vars, locEngVars, nmeaVars>>
  \/ part = "nmea" /\ Sentences!Next /\ UNCHANGED <<part, vars, locEngVars, apiVars>>

HalSpec == HalInit /\ [][HalNext]_halVars

-----------------------------------------------------------------------------
CallsAndRestarts == {[calls |-> 3, restarts |-> 1]}
AdapterLimits == {[sends |-> 1, restarts |-> 0, changes |-> 2],
                  [sends |-> 0, restarts |-> 1, changes |-> 2],
                  [sends |-> 0, restarts |-> 0, changes |-> 3]}

Symmetry == Permutations(Data)

(* The modem reports the events that the adapters want (LocApiBase.cpp).   *)
MasksMeet == Api!TypeOK /\ Api!MasksMeet

(* A report reaches the adapters that stay and are not moved, a request    *)
(* one that takes it.                                                      *)
ReportsReachAll == Api!ReportsReachAll

(* "loop through adapters, and deliver to all adapters" (LocApiBase.cpp).  *)
DeliveredToAll == Api!DeliveredToAll

(* A position is sent with the precision of the satellites it names, and   *)
(* a satellite report lists all in view, once (loc_eng_nmea.cpp).          *)
SentencesAgree == Sentences!TypeOK /\ Sentences!DopMatchesSats /\ Sentences!GsvComplete
=============================================================================
