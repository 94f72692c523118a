--------------------------- MODULE LocEng_proofs ---------------------------
(***************************************************************************)
(* What the location engine promises when all is handled, for any kinds of *)
(* aiding data, any positions and any number of calls, positions, crashes  *)
(* and requests of the network.  The promises speak of a quiet system; the *)
(* inductive invariant says what must be on its way until the system is.   *)
(* So it is made of a few predicates on the queue: it has a message of a   *)
(* set, one is the last of its kind, one is followed by another.  The      *)
(* lemmas say what a message that is sent and one that is handled do to    *)
(* them.                                                                   *)
(***************************************************************************)
EXTENDS LocEng, TLAPS

(* The queue has a message of the set. *)
Has(q, W) == \E i \in 1..Len(q) : q[i] \in W

(* The last message of the queue that is in Calls is in W. *)
LastIn(q, W, Calls) ==
    \E i \in 1..Len(q) : q[i] \in W /\ \A j \in 1..Len(q) : j > i => q[j] \notin Calls

(* A message of V is followed by one of W. *)
InTurn(q, V, W) == \E i, j \in 1..Len(q) : i < j /\ q[i] \in V /\ q[j] \in W

(* Every message of V is followed by one of W. *)
Followed(q, V, W) ==
    \A i \in 1..Len(q) : q[i] \in V => \E j \in 1..Len(q) : i < j /\ q[j] \in W

-----------------------------------------------------------------------------
(* What a queue is after a message is appended. *)
LEMMA Appended ==
    ASSUME NEW S, NEW q \in Seq(S), NEW m \in S, NEW r, r = Append(q, m)
    PROVE  /\ r \in Seq(S) /\ Len(q) \in Nat /\ Len(r) = Len(q) + 1
           /\ \A i \in 1..Len(q) : r[i] = q[i]
           /\ r[Len(r)] = m
OBVIOUS

(* What a queue is without its first message. *)
LEMMA Taken ==
    ASSUME NEW S, NEW q \in Seq(S), q # <<>>, NEW r, r = Tail(q)
    PROVE  /\ r \in Seq(S) /\ Len(q) \in Nat \ {0} /\ Len(r) = Len(q) - 1
           /\ Head(q) = q[1] /\ q[1] \in S
           /\ \A i \in 1..Len(r) : r[i] = q[i + 1] /\ i + 1 \in 1..Len(q)
           /\ \A i \in 1..Len(q) : i # 1 => i - 1 \in 1..Len(r) /\ r[i - 1] = q[i]
OBVIOUS

(* What a new message adds to what a queue has. *)
LEMMA AppendHas ==
    ASSUME NEW S, NEW q \in Seq(S), NEW m \in S, NEW r, r = Append(q, m), NEW V, NEW W
    PROVE  /\ Has(r, W) <=> Has(q, W) \/ m \in W
           /\ InTurn(q, V, W) => InTurn(r, V, W)
           /\ Has(q, V) /\ m \in W => InTurn(r, V, W)
           /\ m \notin V /\ Followed(q, V, W) => Followed(r, V, W)
           /\ m \notin V /\ m \in W => Followed(r, V, W)
           /\ m \in W => LastIn(r, W, V)
           /\ m \notin V /\ LastIn(q, W, V) => LastIn(r, W, V)
<1>0. /\ Len(q) \in Nat /\ Len(r) = Len(q) + 1
      /\ \A i \in 1..Len(q) : r[i] = q[i] /\ i \in 1..Len(r) /\ i < Len(r)
      /\ r[Len(r)] = m /\ Len(r) \in 1..Len(r)
      /\ \A i \in 1..Len(r) : i = Len(r) \/ i \in 1..Len(q)
  BY Appended
<1>1. Has(r, W) <=> Has(q, W) \/ m \in W
  BY <1>0 DEF Has
<1>2. InTurn(q, V, W) => InTurn(r, V, W)
  BY <1>0 DEF InTurn
<1>3. Has(q, V) /\ m \in W => InTurn(r, V, W)
  BY <1>0 DEF Has, InTurn
<1>4. m \notin V /\ Followed(q, V, W) => Followed(r, V, W)
  BY <1>0 DEF Followed
<1>5. m \notin V /\ m \in W => Followed(r, V, W)
  BY <1>0 DEF Followed
<1>6. m \in W => LastIn(r, W, V)
  <2>1. \A j \in 1..Len(r) : ~(j > Len(r))
    BY <1>0
  <2> QED
    BY <1>0, <2>1 DEF LastIn
<1>7. m \notin V /\ LastIn(q, W, V) => LastIn(r, W, V)
  BY <1>0 DEF LastIn
<1> QED
  BY <1>1, <1>2, <1>3, <1>4, <1>5, <1>6, <1>7

(* An appended message is there. *)
LEMMA AppendAdds ==
    ASSUME NEW S, NEW q \in Seq(S), NEW W, NEW m \in S, m \in W
    PROVE  Has(Append(q, m), W)
BY AppendHas

(* What taking the first message leaves of what a queue has. *)
LEMMA TakeHas ==
    ASSUME NEW S, NEW q \in Seq(S), q # <<>>, NEW r, r = Tail(q), NEW V, NEW W
    PROVE  /\ Has(q, W) <=> Has(r, W) \/ Head(q) \in W
           /\ InTurn(q, V, W) => InTurn(r, V, W) \/ (Head(q) \in V /\ Has(r, W))
           /\ Followed(q, V, W) => Followed(r, V, W) /\ (Head(q) \in V => Has(r, W))
           /\ LastIn(q, W, V) => LastIn(r, W, V) \/ (Head(q) \in W /\ ~Has(r, V))
<1>0. /\ Len(q) \in Nat \ {0} /\ Len(r) = Len(q) - 1 /\ Head(q) = q[1] /\ 1 \in 1..Len(q)
      /\ \A i \in 1..Len(r) : r[i] = q[i + 1] /\ i + 1 \in 1..Len(q)
      /\ \A i \in 1..Len(q) : i # 1 => i - 1 \in 1..Len(r) /\ r[i - 1] = q[i]
  BY Taken
<1>1. Has(q, W) <=> Has(r, W) \/ Head(q) \in W
  BY <1>0 DEF Has
<1>2. ASSUME InTurn(q, V, W) PROVE InTurn(r, V, W) \/ (Head(q) \in V /\ Has(r, W))
  <2>1. PICK i \in 1..Len(q), j \in 1..Len(q) : i < j /\ q[i] \in V /\ q[j] \in W
    BY <1>2 DEF InTurn
  <2>2. j - 1 \in 1..Len(r) /\ r[j - 1] \in W
    BY <1>0, <2>1
  <2>3. CASE i = 1
    BY <1>0, <2>1, <2>2, <2>3 DEF Has
  <2>4. CASE i # 1
    <3>1. i - 1 \in 1..Len(r) /\ r[i - 1] \in V /\ i - 1 < j - 1
      BY <1>0, <2>1, <2>4
    <3> QED
      BY <2>2, <3>1 DEF InTurn
  <2> QED
    BY <2>3, <2>4
<1>3. ASSUME Followed(q, V, W) PROVE Followed(r, V, W) /\ (Head(q) \in V => Has(r, W))
  <2>1. ASSUME NEW i \in 1..Len(r), r[i] \in V
        PROVE  \E j \in 1..Len(r) : i < j /\ r[j] \in W
    <3>1. PICK j \in 1..Len(q) : i + 1 < j /\ q[j] \in W
      BY <1>0, <1>3, <2>1 DEF Followed
    <3>2. j - 1 \in 1..Len(r) /\ i < j - 1 /\ r[j - 1] \in W
      BY <1>0, <3>1
    <3> QED
      BY <3>2
  <2>2. ASSUME Head(q) \in V PROVE Has(r, W)
    <3>1. PICK j \in 1..Len(q) : 1 < j /\ q[j] \in W
      BY <1>0, <1>3, <2>2 DEF Followed
    <3> QED
      BY <1>0, <3>1 DEF Has
  <2> QED
    BY <2>1, <2>2 DEF Followed
<1>4. ASSUME LastIn(q, W, V) PROVE LastIn(r, W, V) \/ (Head(q) \in W /\ ~Has(r, V))
  <2>1. PICK i \in 1..Len(q) : q[i] \in W /\ \A j \in 1..Len(q) : j > i => q[j] \notin V
    BY <1>4 DEF LastIn
  <2>2. CASE i = 1
    <3>1. ASSUME NEW j \in 1..Len(r) PROVE r[j] \notin V
      <4>1. j + 1 \in 1..Len(q) /\ j + 1 > i /\ r[j] = q[j + 1]
        BY <1>0, <2>2
      <4> QED
        BY <2>1, <4>1
    <3> QED
      BY <1>0, <2>1, <2>2, <3>1 DEF Has
  <2>3. CASE i # 1
    <3>1. i - 1 \in 1..Len(r) /\ r[i - 1] \in W
      BY <1>0, <2>1, <2>3
    <3>2. ASSUME NEW j \in 1..Len(r), j > i - 1 PROVE r[j] \notin V
      <4>1. j + 1 \in 1..Len(q) /\ j + 1 > i /\ r[j] = q[j + 1]
        BY <1>0, <3>2
      <4> QED
        BY <2>1, <4>1
    <3> QED
      BY <3>1, <3>2 DEF LastIn
  <2> QED
    BY <2>2, <2>3
<1> QED
  BY <1>1, <1>2, <1>3, <1>4

(* Two messages in turn are two messages. *)
LEMMA InTurnHas ==
    ASSUME NEW q, NEW V, NEW W, InTurn(q, V, W)
    PROVE  Has(q, V) /\ Has(q, W)
BY DEF InTurn, Has

(* What handling the first message leaves: the handler may append one.     *)
LEMMA HandledHas ==
    ASSUME NEW S, NEW q \in Seq(S), q # <<>>, NEW m \in S, NEW r,
           r = Tail(q) \/ r = Append(Tail(q), m), NEW V, m \notin V, NEW W
    PROVE  /\ Has(q, W) => Has(r, W) \/ Head(q) \in W
           /\ Has(r, V) => Has(q, V)
           /\ InTurn(q, V, W) => InTurn(r, V, W) \/ (Head(q) \in V /\ Has(r, W))
           /\ Followed(q, V, W) => Followed(r, V, W) /\ (Head(q) \in V => Has(r, W))
           /\ LastIn(q, W, V) => LastIn(r, W, V) \/ (Head(q) \in W /\ ~Has(r, V))
<1>1. PICK t : t = Tail(q)
  OBVIOUS
<1>2. t \in Seq(S)
  BY <1>1, Taken
<1>3. /\ Has(q, W) <=> Has(t, W) \/ Head(q) \in W
      /\ InTurn(q, V, W) => InTurn(t, V, W) \/ (Head(q) \in V /\ Has(t, W))
      /\ Followed(q, V, W) => Followed(t, V, W) /\ (Head(q) \in V => Has(t, W))
      /\ LastIn(q, W, V) => LastIn(t, W, V) \/ (Head(q) \in W /\ ~Has(t, V))
  BY <1>1, TakeHas
<1>4. Has(q, V) <=> Has(t, V) \/ Head(q) \in V
  BY <1>1, TakeHas
<1>5. CASE r = t
  BY <1>3, <1>4, <1>5
<1>6. CASE r = Append(t, m)
  <2>1. /\ Has(r, W) <=> Has(t, W) \/ m \in W
        /\ InTurn(t, V, W) => InTurn(r, V, W)
        /\ m \notin V /\ Followed(t, V, W) => Followed(r, V, W)
        /\ m \notin V /\ LastIn(t, W, V) => LastIn(r, W, V)
    BY <1>2, <1>6, AppendHas
  <2>2. Has(r, V) <=> Has(t, V) \/ m \in V
    BY <1>2, <1>6, AppendHas
  <2> QED
    BY <1>3, <1>4, <2>1, <2>2
<1> QED
  BY <1>1, <1>5, <1>6

-----------------------------------------------------------------------------
Kind(whats) == {m \in Queued : m.what \in whats}
Says(statuses) == {m \in Queued : m.what = "ReportStatus" /\ m.arg \in statuses}

Opens == Kind({"LocOpen"})
Ups == Kind({"LocEngUp"})
Downs == Kind({"LocEngDown"})
Configures == Kind({"LocEngUp", "LocEngInit", "Config"})
Starts == Kind({"StartFix"})
Stops == Kind({"StopFix"})
Wishes == Kind({"StartFix", "StopFix"})

(* The messages by their kind. *)
LEMMA Kinds ==
    \A m \in Queued :
        /\ m \in Opens <=> m.what = "LocOpen"
        /\ m \in Ups <=> m.what = "LocEngUp"
        /\ m \in Downs <=> m.what = "LocEngDown"
        /\ m \in Configures <=> m.what \in {"LocEngUp", "LocEngInit", "Config"}
        /\ m \in Starts <=> m.what = "StartFix"
        /\ m \in Stops <=> m.what = "StopFix"
        /\ m \in Wishes <=> m.what \in {"StartFix", "StopFix"}
BY DEF Kind, Opens, Ups, Downs, Configures, Starts, Stops, Wishes

(* The messages the program sends are of the queue's type. *)
LEMMA Sendable ==
    /\ \A w \in {"LocOpen", "LocEngInit", "Config", "StartFix", "StopFix", "RequestNi",
                 "LocEngDown", "LocEngUp"} : Message(w, {}) \in Queued
    /\ \A r \in Recurrences : Message("PositionMode", r) \in Queued
    /\ \A d \in SUBSET Data : Message("DelAidData", d) \in Queued
    /\ \A f \in Fixes : Message("ReportPosition", f) \in Queued
    /\ \A s \in Statuses : Message("ReportStatus", s) \in Queued
    /\ \A w, a : Message(w, a).what = w /\ Message(w, a).arg = a
BY DEF Queued, Message

(* What a queued message carries. *)
LEMMA Carried ==
    \A m \in Queued :
        /\ m.what = "PositionMode" => m.arg \in Recurrences
        /\ m.what = "DelAidData" => m.arg \in SUBSET Data
        /\ m.what = "ReportPosition" => m.arg \in Fixes
        /\ m.what = "ReportStatus" => m.arg \in Statuses
BY DEF Queued

-----------------------------------------------------------------------------
ModemStates ==
    [at : {"down", "up", "open"}, running : BOOLEAN, finished : BOOLEAN,
     configured : BOOLEAN, criteria : FixCriteria, network : BOOLEAN,
     told : [session : BOOLEAN, engine : BOOLEAN], rising : BOOLEAN]

Owed == [all : SUBSET Data, last : SUBSET Data]

(* The calls of the framework after the first. *)
Calls ==
    \/ loc_eng_start \/ loc_eng_stop \/ loc_eng_set_position_mode
    \/ loc_eng_delete_aiding_data \/ loc_eng_cleanup

(* A call leaves the engine alone and sends at most one message, none of   *)
(* which is a report.                                                      *)
LEMMA Calling ==
    ASSUME TypeOK, Calls
    PROVE  /\ UNCHANGED <<created, intermediateFix, mNavigating, mFixCriteria,
                          mute_session_state, engine_status, aiding_data_for_deletion,
                          gpsModem, outcome, crashed>>
           /\ created /\ remaining' \in EngBounds /\ wish' \in {"yes", "no", "unknown"}
           /\ owed' \in Owed
           /\ \/ queue' = queue
              \/ \E m \in Queued :
                   /\ m.what \in {"StartFix", "StopFix", "PositionMode", "DelAidData"}
                   /\ queue' = Append(queue, m)
<1>1. Call
  BY DEF Calls, loc_eng_start, loc_eng_stop, loc_eng_set_position_mode,
         loc_eng_delete_aiding_data, loc_eng_cleanup
<1>2. remaining' \in EngBounds
  BY <1>1 DEF Call, TypeOK, EngBounds
<1>3. wish' \in {"yes", "no", "unknown"}
  BY DEF Calls, loc_eng_start, loc_eng_stop, loc_eng_set_position_mode,
         loc_eng_delete_aiding_data, loc_eng_cleanup, TypeOK
<1>a. owed' \in Owed
  <2>0. owed \in Owed
    BY DEF TypeOK, Owed
  <2>1. CASE loc_eng_delete_aiding_data
    <3>1. PICK data \in SUBSET Data : owed' = [all |-> owed.all \cup data, last |-> data]
      BY <2>1 DEF loc_eng_delete_aiding_data
    <3> QED
      BY <2>0, <3>1 DEF Owed
  <2>2. CASE ~loc_eng_delete_aiding_data
    BY <2>0, <2>2 DEF Calls, loc_eng_start, loc_eng_stop, loc_eng_set_position_mode,
                      loc_eng_cleanup
  <2> QED
    BY <2>1, <2>2
<1>4. \/ queue' = queue
      \/ \E m \in Queued :
           /\ m.what \in {"StartFix", "StopFix", "PositionMode", "DelAidData"}
           /\ queue' = Append(queue, m)
  <2>1. CASE loc_eng_start \/ loc_eng_stop \/ loc_eng_cleanup
    BY <2>1, Sendable DEF loc_eng_start, loc_eng_stop, loc_eng_cleanup
  <2>2. CASE loc_eng_set_position_mode
    BY <2>2, Sendable DEF loc_eng_set_position_mode
  <2>3. CASE loc_eng_delete_aiding_data
    <3>1. PICK data \in SUBSET Data : queue' = Append(queue, Message("DelAidData", data))
      BY <2>3 DEF loc_eng_delete_aiding_data
    <3> QED
      BY <3>1, Sendable
  <2> QED
    BY <2>1, <2>2, <2>3 DEF Calls
<1> QED
  BY <1>1, <1>2, <1>3, <1>a, <1>4 DEF Call, engVars

(* A handler takes the first message and sends itself at most one. *)
LEMMA Handling ==
    ASSUME TypeOK, MsgTask
    PROVE  /\ UNCHANGED <<created, intermediateFix, wish, crashed, remaining>>
           /\ queue # <<>> /\ Head(queue) \in Queued
           /\ queue' = Tail(queue) \/ queue' = Append(Tail(queue), Message("Config", {}))
           /\ queue' \in Seq(Queued)
<1>1. queue # <<>> /\ UNCHANGED <<created, intermediateFix, wish, crashed, remaining>>
  BY DEF MsgTask, LocOpen, LocEngInit, Config, StartFix, StopFix, PositionMode, ReportPosition,
         ReportStatus, DelAidData, RequestNi, LocEngDown, LocEngUp, Handle
<1>2. queue' = Tail(queue) \/ queue' = Append(Tail(queue), Message("Config", {}))
  BY DEF MsgTask, LocOpen, LocEngInit, Config, StartFix, StopFix, PositionMode, ReportPosition,
         ReportStatus, DelAidData, RequestNi, LocEngDown, LocEngUp, Handled
<1>3. queue \in Seq(Queued) /\ Message("Config", {}) \in Queued
  BY Sendable DEF TypeOK
<1> QED
  BY <1>1, <1>2, <1>3

(* What the modem sends comes last. *)
LEMMA Sending ==
    ASSUME TypeOK, NEW m \in Queued, Sends(<<m>>)
    PROVE  queue' = Append(queue, m) /\ queue \in Seq(Queued) /\ created
<1>1. queue \in Seq(Queued) /\ queue' = queue \o <<m>>
  BY DEF TypeOK, Sends
<1>2. queue \o <<m>> = Append(queue, m)
  BY <1>1
<1> QED
  BY <1>1, <1>2 DEF Sends

(* The modem leaves the engine's state alone and sends at most one message, *)
(* never a wish of the framework.                                          *)
LEMMA Reporting ==
    ASSUME TypeOK, Modem
    PROVE  /\ UNCHANGED <<created, intermediateFix, mNavigating, mFixCriteria,
                          mute_session_state, engine_status, aiding_data_for_deletion,
                          wish, outcome, owed>>
           /\ created /\ remaining' \in EngBounds /\ crashed' \in BOOLEAN
           /\ gpsModem' \in ModemStates
           /\ \/ queue' = queue
              \/ \E m \in Queued :
                   /\ m.what \in {"ReportPosition", "ReportStatus", "RequestNi",
                                  "LocEngDown", "LocOpen", "LocEngUp"}
                   /\ queue' = Append(queue, m)
<1>0. /\ gpsModem \in ModemStates /\ queue \in Seq(Queued) /\ remaining \in EngBounds
      /\ crashed \in BOOLEAN /\ Active \in BOOLEAN
  BY DEF TypeOK, ModemStates, Active
<1>1. /\ UNCHANGED <<created, intermediateFix, mNavigating, mFixCriteria,
                     mute_session_state, engine_status, aiding_data_for_deletion,
                     wish, outcome, owed>>
      /\ created
  <2>1. \E messages : Sends(messages)
    BY Zenon DEF Modem, fix, tellSession, tellEngine, networkSession, networkDone, engineCrash,
                 engineBack, recovered
  <2> QED
    BY <2>1 DEF Sends, engVars
<1>2. remaining' \in EngBounds /\ crashed' \in BOOLEAN
  <2>1. CASE fix \/ networkSession \/ engineCrash
    <3>1. CASE fix
      BY <1>0, <3>1 DEF fix, EngBounds
    <3>2. CASE networkSession
      BY <1>0, <3>2 DEF networkSession, EngBounds
    <3>3. CASE engineCrash
      BY <1>0, <3>3 DEF engineCrash, EngBounds
    <3> QED
      BY <2>1, <3>1, <3>2, <3>3
  <2>2. CASE tellSession \/ tellEngine \/ networkDone \/ engineBack \/ recovered
    BY <1>0, <2>2 DEF tellSession, tellEngine, networkDone, engineBack, recovered
  <2> QED
    BY <2>1, <2>2 DEF Modem
<1>3. gpsModem' \in ModemStates
  <2>1. CASE fix
    BY <1>0, <2>1 DEF fix, ModemStates
  <2>2. CASE tellSession
    BY <1>0, <2>2 DEF tellSession, ModemStates
  <2>3. CASE tellEngine
    BY <1>0, <2>3 DEF tellEngine, ModemStates
  <2>4. CASE networkSession \/ networkDone
    BY <1>0, <2>4 DEF networkSession, networkDone, ModemStates
  <2>5. CASE engineCrash
    BY <1>0, <2>5 DEF engineCrash, ModemStates
  <2>6. CASE engineBack \/ recovered
    BY <1>0, <2>6 DEF engineBack, recovered, ModemStates
  <2> QED
    BY <2>1, <2>2, <2>3, <2>4, <2>5, <2>6 DEF Modem
<1>4. \/ queue' = queue
      \/ \E m \in Queued :
           /\ m.what \in {"ReportPosition", "ReportStatus", "RequestNi",
                          "LocEngDown", "LocOpen", "LocEngUp"}
           /\ queue' = Append(queue, m)
  <2>1. \/ Sends(<<>>)
        \/ \E m \in Queued :
             /\ m.what \in {"ReportPosition", "ReportStatus", "RequestNi",
                            "LocEngDown", "LocOpen", "LocEngUp"}
             /\ Sends(<<m>>)
    <3>1. CASE fix
      BY <3>1, Sendable DEF fix
    <3>2. CASE tellSession
      BY <3>2, Sendable, SMTT(30) DEF tellSession, Statuses, Begins
    <3>3. CASE tellEngine
      BY <3>3, Sendable, SMTT(30) DEF tellEngine, Statuses, Begins
    <3>4. CASE networkSession \/ networkDone
      BY <3>4, Sendable, ZenonT(60) DEF networkSession, networkDone
    <3>5. CASE engineCrash
      BY <3>5, Sendable DEF engineCrash
    <3>6. CASE engineBack \/ recovered
      BY <3>6, Sendable DEF engineBack, recovered
    <3> QED
      BY <3>1, <3>2, <3>3, <3>4, <3>5, <3>6 DEF Modem
  <2>2. queue \o <<>> = queue /\ \A m \in Queued : queue \o <<m>> = Append(queue, m)
    BY <1>0
  <2> QED
    BY <2>1, <2>2 DEF Sends
<1> QED
  BY <1>1, <1>2, <1>3, <1>4

-----------------------------------------------------------------------------
(* The types, and what there is before the engine is. *)
Types ==
    /\ TypeOK
    /\ ~created =>
         queue = <<>> /\ gpsModem.at = "up" /\ ~gpsModem.rising /\ ~mNavigating /\ ~crashed

(* The session follows the last wish that is on its way or, when none is, *)
(* the last that was handled.                                              *)
Session ==
    /\ mNavigating => outcome # "ended"
    /\ gpsModem.running => mNavigating \/ outcome = "ended"
    /\ wish = "yes" => \/ LastIn(queue, Starts, Wishes)
                       \/ ~Has(queue, Wishes) /\ (mNavigating \/ outcome = "ended")
    /\ wish = "no" => \/ LastIn(queue, Stops, Wishes)
                      \/ ~Has(queue, Wishes) /\ ~mNavigating

(* A modem that is not configured has the message on its way that does it: *)
(* behind the one that opens it, when it is not open.                      *)
Configuring ==
    /\ gpsModem.at = "open" /\ ~gpsModem.configured => gpsModem.rising \/ Has(queue, Configures)
    /\ created /\ gpsModem.at = "up" =>
         /\ Has(queue, Opens)
         /\ gpsModem.rising \/ InTurn(queue, Opens, Configures)

(* The engine is to hear that the modem is up again, when it can open it. *)
Restarting ==
    \/ gpsModem.at = "down"
    \/ gpsModem.rising
    \/ gpsModem.at = "open" /\ Has(queue, Ups)
    \/ gpsModem.at = "up" /\ InTurn(queue, Opens, Ups)

(* A session the modem does not run is to be restarted; before the first   *)
(* crash there is none until the modem is open.                            *)
Restored ==
    /\ mNavigating => gpsModem.running \/ gpsModem.finished \/ outcome = "offline" \/ Restarting
    /\ crashed /\ gpsModem.at = "up" => Restarting
    /\ ~crashed => /\ gpsModem.at # "down" /\ ~gpsModem.rising
                   /\ gpsModem.at = "up" => ~mNavigating
                   /\ gpsModem.at = "up" /\ created => Head(queue).what = "LocOpen"

(* What ends a mute. *)
Unmutes == Says(Ends) \cup Downs

(* When the modem has told that it is off, the end of the mute is on its   *)
(* way, behind whatever could begin one.                                   *)
Muting ==
    gpsModem.told.session \/ gpsModem.told.engine
    \/ /\ Followed(queue, Says(Begins), Unmutes)
       /\ mute_session_state = "in_session" => Has(queue, Unmutes)

(* What turns the engine's status on, and off. *)
TurnsOn == Says({"ENGINE_ON"})
TurnsOff == Says({"ENGINE_OFF"}) \cup Downs

(* The same of the engine's own status; data that waits, waits for it. *)
Deleting ==
    /\ \/ gpsModem.told.engine
       \/ /\ Followed(queue, TurnsOn, TurnsOff)
          /\ engine_status = "ENGINE_ON" => Has(queue, TurnsOff)
    /\ ~crashed => /\ ~Has(queue, Downs)
                   /\ aiding_data_for_deletion # {} => engine_status = "ENGINE_ON"

(* The requests to delete data, and those that ask for d. *)
Deletes == Kind({"DelAidData"})
DeletesOf(d) == {m \in Deletes : d \in m.arg}

(* What the last request asked for is asked for by the last on its way or, *)
(* when none is, waits for the engine to go off.                           *)
Owing ==
    ~crashed =>
      \A d \in owed.last :
        \/ LastIn(queue, DeletesOf(d), Deletes)
        \/ d \in aiding_data_for_deletion /\ ~Has(queue, Deletes)

(* The inductive invariant. *)
IInv == Types /\ Session /\ Configuring /\ Restored /\ Muting /\ Deleting /\ Owing

-----------------------------------------------------------------------------
(* The handlers keep the types of the engine's state and of the modem's. *)
LEMMA HandledTypes ==
    ASSUME TypeOK, MsgTask
    PROVE  /\ mNavigating' \in BOOLEAN
           /\ mFixCriteria' \in FixCriteria
           /\ mute_session_state' \in {"none", "wait", "in_session"}
           /\ engine_status' \in {"none", "ENGINE_ON", "ENGINE_OFF"}
           /\ aiding_data_for_deletion' \in SUBSET Data
           /\ owed' \in Owed
           /\ outcome' \in {"fine", "offline", "ended"}
           /\ gpsModem' \in ModemStates
<1>0. /\ mNavigating \in BOOLEAN /\ mFixCriteria \in FixCriteria
      /\ mute_session_state \in {"none", "wait", "in_session"}
      /\ engine_status \in {"none", "ENGINE_ON", "ENGINE_OFF"}
      /\ aiding_data_for_deletion \in SUBSET Data /\ owed \in Owed
      /\ outcome \in {"fine", "offline", "ended"} /\ gpsModem \in ModemStates
  BY DEF TypeOK, ModemStates, Owed
<1>a. Head(queue) \in Queued
  BY Handling
<1>d. \A data : Without(data) \in Owed
  BY <1>0 DEF Without, Owed
<1>b. Criteria(FALSE) \in FixCriteria
  BY <1>0 DEF Criteria, FixCriteria, Modes
<1>c. ASSUME NEW c \in FixCriteria, NEW result \in Results, startFix(c, result)
      PROVE  /\ mNavigating' \in BOOLEAN /\ mFixCriteria' \in FixCriteria
             /\ outcome' \in {"fine", "offline", "ended"} /\ gpsModem' \in ModemStates
  <2>1. gpsModem' \in ModemStates
    BY <1>0, <1>c DEF startFix, ModemStates
  <2>2. outcome' \in {"fine", "offline", "ended"}
    BY <1>c DEF startFix
  <2> QED
    BY <1>c, <2>1, <2>2 DEF startFix
<1>1. CASE LocOpen \/ LocEngInit \/ Config
  BY <1>0, <1>1, ZenonT(60) DEF LocOpen, LocEngInit, Config, engVars, ModemStates
<1>2. CASE StartFix
  BY <1>0, <1>2, <1>c DEF StartFix
<1>3. CASE StopFix
  <2>1. gpsModem' \in ModemStates
    BY <1>0, <1>3 DEF StopFix, ModemStates
  <2> QED
    BY <1>0, <1>3, <1>b, <2>1 DEF StopFix
<1>4. CASE PositionMode
  <2>1. mFixCriteria' \in FixCriteria
    BY <1>4, <1>a, Carried DEF PositionMode, Handle, FixCriteria, Modes
  <2>2. gpsModem' \in ModemStates
    BY <1>0, <1>4, <2>1 DEF PositionMode, ModemStates
  <2> QED
    BY <1>0, <1>4, <2>1, <2>2 DEF PositionMode
<1>5. CASE ReportPosition
  <2>1. gpsModem' \in ModemStates
    BY <1>0, <1>5 DEF ReportPosition, ModemStates
  <2> QED
    BY <1>0, <1>5, <1>b, <2>1 DEF ReportPosition
<1>6. CASE ReportStatus
  BY <1>0, <1>6, <1>d DEF ReportStatus, report_status, update_aiding_data_for_deletion, StillToDelete
<1>7. CASE DelAidData
  BY <1>0, <1>7, <1>a, <1>d, Carried
  DEF DelAidData, Handle, update_aiding_data_for_deletion, StillToDelete
<1>8. CASE RequestNi \/ LocEngDown
  BY <1>0, <1>8 DEF RequestNi, LocEngDown, report_status
<1>9. CASE LocEngUp
  BY <1>0, <1>9, <1>b, <1>c DEF LocEngUp
<1> QED
  BY <1>1, <1>2, <1>3, <1>4, <1>5, <1>6, <1>7, <1>8, <1>9 DEF MsgTask

(* Types is inductive. *)
LEMMA TypesInv == Types /\ [EngNext]_locEngVars => Types'
<1> SUFFICES ASSUME Types, [EngNext]_locEngVars PROVE Types'
  OBVIOUS
<1>0. TypeOK
  BY DEF Types
<1>1. CASE loc_eng_init
  <2>1. Message("LocOpen", {}) \in Queued /\ Message("LocEngInit", {}) \in Queued
    BY Sendable
  <2>2. queue' \in Seq(Queued)
    BY <1>1, <2>1 DEF loc_eng_init
  <2> QED
    BY <1>0, <1>1, <2>2 DEF loc_eng_init, Types, TypeOK, engVars
<1>2. CASE Calls
  <2>1. queue' \in Seq(Queued)
    BY <1>0, <1>2, Calling DEF TypeOK
  <2> QED
    BY <1>0, <1>2, <2>1, Calling DEF Types, TypeOK, Owed
<1>3. CASE MsgTask
  BY <1>0, <1>3, Handling, HandledTypes DEF Types, TypeOK, ModemStates, Owed
<1>4. CASE Modem
  <2>1. queue' \in Seq(Queued)
    BY <1>0, <1>4, Reporting DEF TypeOK
  <2> QED
    BY <1>0, <1>4, <2>1, Reporting DEF Types, TypeOK, ModemStates
<1>5. CASE UNCHANGED locEngVars
  BY <1>5 DEF Types, TypeOK, locEngVars, engVars
<1> QED
  BY <1>1, <1>2, <1>3, <1>4, <1>5 DEF EngNext, EngFramework, Calls

-----------------------------------------------------------------------------
(* The queue the engine begins with, and the empty one. *)
LEMMA FirstQueue ==
    ASSUME NEW a, NEW b, NEW q, q = <<a, b>>, NEW V, NEW W
    PROVE  /\ Has(q, W) <=> a \in W \/ b \in W
           /\ a \in V /\ b \in W => InTurn(q, V, W)
           /\ a \notin V /\ b \notin V => Followed(q, V, W)
           /\ ~Has(<<>>, W) /\ ~LastIn(<<>>, W, V) /\ Followed(<<>>, V, W)
<1>1. Len(q) = 2 /\ q[1] = a /\ q[2] = b /\ 1..2 = {1, 2} /\ Len(<<>>) = 0 /\ 1..0 = {}
  OBVIOUS
<1> QED
  BY <1>1 DEF Has, InTurn, Followed, LastIn

(* A message that is no wish leaves the last wish the last. *)
LEMMA NoWish ==
    ASSUME TypeOK,
           \/ queue' = queue
           \/ \E m \in Queued : m \notin Wishes /\ queue' = Append(queue, m)
    PROVE  /\ Has(queue', Wishes) => Has(queue, Wishes)
           /\ LastIn(queue, Starts, Wishes) => LastIn(queue', Starts, Wishes)
           /\ LastIn(queue, Stops, Wishes) => LastIn(queue', Stops, Wishes)
<1>1. CASE queue' = queue
  BY <1>1
<1>2. ASSUME NEW m \in Queued, m \notin Wishes, queue' = Append(queue, m)
      PROVE  /\ Has(queue', Wishes) => Has(queue, Wishes)
             /\ LastIn(queue, Starts, Wishes) => LastIn(queue', Starts, Wishes)
             /\ LastIn(queue, Stops, Wishes) => LastIn(queue', Stops, Wishes)
  <2>0. queue \in Seq(Queued)
    BY DEF TypeOK
  <2>1. Has(queue', Wishes) <=> Has(queue, Wishes) \/ m \in Wishes
    BY <1>2, <2>0, AppendHas
  <2>2. m \notin Wishes /\ LastIn(queue, Starts, Wishes) => LastIn(queue', Starts, Wishes)
    BY <1>2, <2>0, AppendHas
  <2>3. m \notin Wishes /\ LastIn(queue, Stops, Wishes) => LastIn(queue', Stops, Wishes)
    BY <1>2, <2>0, AppendHas
  <2> QED
    BY <1>2, <2>1, <2>2, <2>3
<1> QED
  BY <1>1, <1>2

(* A wish of the framework is the last one. *)
LEMMA NewWish ==
    ASSUME TypeOK, NEW m \in Queued, queue' = Append(queue, m)
    PROVE  /\ m \in Starts => LastIn(queue', Starts, Wishes)
           /\ m \in Stops => LastIn(queue', Stops, Wishes)
<1>0. queue \in Seq(Queued)
  BY DEF TypeOK
<1>1. m \in Starts => LastIn(queue', Starts, Wishes)
  BY <1>0, AppendHas
<1>2. m \in Stops => LastIn(queue', Stops, Wishes)
  BY <1>0, AppendHas
<1> QED
  BY <1>1, <1>2

(* A handled message was the last wish, or the last wish is still to come. *)
LEMMA WishHandled ==
    ASSUME TypeOK, MsgTask
    PROVE  /\ Has(queue', Wishes) => Has(queue, Wishes)
           /\ LastIn(queue, Starts, Wishes) =>
                \/ LastIn(queue', Starts, Wishes)
                \/ Head(queue).what = "StartFix" /\ ~Has(queue', Wishes)
           /\ LastIn(queue, Stops, Wishes) =>
                \/ LastIn(queue', Stops, Wishes)
                \/ Head(queue).what = "StopFix" /\ ~Has(queue', Wishes)
           /\ Head(queue).what \in {"StartFix", "StopFix"} => Has(queue, Wishes)
<1>0. /\ queue \in Seq(Queued) /\ queue # <<>> /\ Head(queue) \in Queued
      /\ queue' = Tail(queue) \/ queue' = Append(Tail(queue), Message("Config", {}))
  BY Handling DEF TypeOK
<1>a. Message("Config", {}) \in Queued /\ Message("Config", {}) \notin Wishes
  BY Sendable, Kinds
<1>1. /\ LastIn(queue, Starts, Wishes) =>
           LastIn(queue', Starts, Wishes) \/ (Head(queue) \in Starts /\ ~Has(queue', Wishes))
      /\ Has(queue', Wishes) => Has(queue, Wishes)
  BY <1>0, <1>a, HandledHas
<1>2. LastIn(queue, Stops, Wishes) =>
        LastIn(queue', Stops, Wishes) \/ (Head(queue) \in Stops /\ ~Has(queue', Wishes))
  BY <1>0, <1>a, HandledHas
<1>3. Has(queue, Wishes) <=> Has(Tail(queue), Wishes) \/ Head(queue) \in Wishes
  BY <1>0, TakeHas
<1> QED
  BY <1>0, <1>1, <1>2, <1>3, Kinds

(* Session is inductive. *)
LEMMA SessionInv == Types /\ Session /\ [EngNext]_locEngVars => Session'
<1> SUFFICES ASSUME Types, Session, [EngNext]_locEngVars PROVE Session'
  OBVIOUS
<1>0. TypeOK /\ gpsModem \in ModemStates
  BY DEF Types, TypeOK, ModemStates
<1>1. CASE loc_eng_init
  <2>1. ~LastIn(queue, Starts, Wishes) /\ ~LastIn(queue, Stops, Wishes)
    BY <1>1, FirstQueue DEF Types, loc_eng_init
  <2>2. Message("LocOpen", {}) \notin Wishes /\ Message("LocEngInit", {}) \notin Wishes
    BY Sendable, Kinds
  <2>3. ~Has(queue', Wishes)
    BY <1>1, <2>2, FirstQueue DEF loc_eng_init
  <2> QED
    BY <1>1, <2>1, <2>3 DEF loc_eng_init, Session, engVars
<1>2. CASE Calls
  <2>0. UNCHANGED <<mNavigating, gpsModem, outcome>>
    BY <1>0, <1>2, Calling
  <2>1. CASE loc_eng_start
    <3>1. LastIn(queue', Starts, Wishes) /\ wish' = "yes"
      BY <1>0, <2>1, NewWish, Sendable, Kinds DEF loc_eng_start
    <3> QED
      BY <2>0, <3>1 DEF Session
  <2>2. CASE loc_eng_stop
    <3>1. LastIn(queue', Stops, Wishes) /\ wish' = "no"
      BY <1>0, <2>2, NewWish, Sendable, Kinds DEF loc_eng_stop
    <3> QED
      BY <2>0, <3>1 DEF Session
  <2>3. CASE loc_eng_set_position_mode \/ loc_eng_delete_aiding_data
    <3>1. \E m \in Queued : m.what \in {"PositionMode", "DelAidData"}
                            /\ queue' = Append(queue, m)
      <4>1. CASE loc_eng_set_position_mode
        BY <4>1, Sendable DEF loc_eng_set_position_mode
      <4>2. CASE loc_eng_delete_aiding_data
        <5>1. PICK data \in SUBSET Data : queue' = Append(queue, Message("DelAidData", data))
          BY <4>2 DEF loc_eng_delete_aiding_data
        <5> QED
          BY <5>1, Sendable
      <4> QED
        BY <2>3, <4>1, <4>2
    <3>2. \E m \in Queued : m \notin Wishes /\ queue' = Append(queue, m)
      BY <3>1, Kinds
    <3>3. UNCHANGED wish
      BY <2>3 DEF loc_eng_set_position_mode, loc_eng_delete_aiding_data
    <3> QED
      BY <1>0, <2>0, <3>2, <3>3, NoWish DEF Session
  <2>4. CASE loc_eng_cleanup
    <3>1. CASE mNavigating
      <4>1. LastIn(queue', Stops, Wishes) /\ wish' = "no"
        BY <1>0, <2>4, <3>1, NewWish, Sendable, Kinds DEF loc_eng_cleanup
      <4> QED
        BY <2>0, <4>1 DEF Session
    <3>2. CASE ~mNavigating
      <4>1. queue' = queue /\ wish' # "yes" /\ (wish' = "no" => wish = "no")
        BY <2>4, <3>2 DEF loc_eng_cleanup
      <4> QED
        BY <2>0, <4>1 DEF Session
    <3> QED
      BY <3>1, <3>2
  <2> QED
    BY <1>2, <2>1, <2>2, <2>3, <2>4 DEF Calls
<1>3. CASE MsgTask
  <2>0. /\ UNCHANGED wish
        /\ Has(queue', Wishes) => Has(queue, Wishes)
        /\ LastIn(queue, Starts, Wishes) =>
             \/ LastIn(queue', Starts, Wishes)
             \/ Head(queue).what = "StartFix" /\ ~Has(queue', Wishes)
        /\ LastIn(queue, Stops, Wishes) =>
             \/ LastIn(queue', Stops, Wishes)
             \/ Head(queue).what = "StopFix" /\ ~Has(queue', Wishes)
        /\ Head(queue).what \in {"StartFix", "StopFix"} => Has(queue, Wishes)
    BY <1>0, <1>3, Handling, WishHandled
  <2>a. ASSUME NEW c, NEW result \in Results, startFix(c, result)
        PROVE  /\ mNavigating' => outcome' # "ended"
               /\ mNavigating' \/ outcome' = "ended"
    BY <2>a DEF startFix, Results, Accepted
  <2>1. CASE StartFix
    <3>1. Head(queue).what = "StartFix"
      BY <2>1 DEF StartFix, Handle
    <3>2. CASE mNavigating
      BY <2>0, <2>1, <3>1, <3>2 DEF StartFix, Session
    <3>3. CASE ~mNavigating
      <4>1. /\ mNavigating' => outcome' # "ended"
            /\ mNavigating' \/ outcome' = "ended"
        BY <2>1, <2>a, <3>3 DEF StartFix
      <4> QED
        BY <2>0, <3>1, <4>1 DEF Session
    <3> QED
      BY <3>2, <3>3
  <2>2. CASE StopFix
    <3>1. Head(queue).what = "StopFix" /\ ~mNavigating' /\ outcome' = outcome
      BY <1>0, <2>2 DEF StopFix, Handle
    <3>2. gpsModem'.running => gpsModem.running /\ ~mNavigating
      BY <1>0, <2>2 DEF StopFix, ModemStates
    <3> QED
      BY <2>0, <3>1, <3>2 DEF Session
  <2>3. CASE LocEngUp
    <3>1. Head(queue).what = "LocEngUp"
      BY <2>3 DEF LocEngUp, Handle
    <3>2. CASE mNavigating
      <4>1. /\ mNavigating' => outcome' # "ended"
            /\ mNavigating' \/ outcome' = "ended"
        BY <2>3, <2>a, <3>2 DEF LocEngUp
      <4> QED
        BY <2>0, <3>1, <3>2, <4>1 DEF Session
    <3>3. CASE ~mNavigating
      BY <2>0, <2>3, <3>1, <3>3 DEF LocEngUp, Session
    <3> QED
      BY <3>2, <3>3
  <2>4. CASE ReportPosition
    <3>1. Head(queue).what = "ReportPosition"
      BY <2>4 DEF ReportPosition, Handle
    <3>2. gpsModem'.running => gpsModem.running
      BY <1>0, <2>4 DEF ReportPosition, ModemStates
    <3>3. \/ UNCHANGED <<mNavigating, outcome>>
          \/ ~mNavigating' /\ outcome' = IF mNavigating THEN "ended" ELSE outcome
      BY <2>4 DEF ReportPosition
    <3> QED
      BY <2>0, <3>1, <3>2, <3>3 DEF Session
  <2>5. CASE \/ LocOpen \/ LocEngInit \/ Config \/ PositionMode \/ ReportStatus \/ DelAidData
             \/ RequestNi \/ LocEngDown
    <3>1. Head(queue).what \notin {"StartFix", "StopFix"}
      BY <2>5 DEF LocOpen, LocEngInit, Config, PositionMode, ReportStatus, DelAidData, RequestNi,
                  LocEngDown, Handle
    <3>2. UNCHANGED <<mNavigating, outcome>>
      BY <2>5 DEF LocOpen, LocEngInit, Config, PositionMode, ReportStatus, DelAidData, RequestNi,
                  LocEngDown, engVars
    <3>3. gpsModem'.running = gpsModem.running
      BY <1>0, <2>5 DEF LocOpen, LocEngInit, Config, PositionMode, ReportStatus, DelAidData,
                        RequestNi, LocEngDown, ModemStates
    <3> QED
      BY <2>0, <3>1, <3>2, <3>3 DEF Session
  <2> QED
    BY <1>3, <2>1, <2>2, <2>3, <2>4, <2>5 DEF MsgTask
<1>4. CASE Modem
  <2>1. UNCHANGED <<mNavigating, wish, outcome>>
    BY <1>0, <1>4, Reporting
  <2>2. gpsModem'.running => gpsModem.running
    BY <1>0, <1>4 DEF Modem, fix, tellSession, tellEngine, networkSession, networkDone, engineCrash,
                      engineBack, recovered, ModemStates
  <2>3. \/ queue' = queue
        \/ \E m \in Queued : m \notin Wishes /\ queue' = Append(queue, m)
    BY <1>0, <1>4, Reporting, Kinds
  <2> QED
    BY <1>0, <2>1, <2>2, <2>3, NoWish DEF Session
<1>5. CASE UNCHANGED locEngVars
  BY <1>5 DEF Session, locEngVars, engVars
<1> QED
  BY <1>1, <1>2, <1>3, <1>4, <1>5 DEF EngNext, EngFramework, Calls

-----------------------------------------------------------------------------
(* A message that is sent takes nothing away. *)
LEMMA SentKeeps ==
    ASSUME TypeOK,
           queue' = queue \/ \E m \in Queued : queue' = Append(queue, m)
    PROVE  /\ Has(queue, Opens) => Has(queue', Opens)
           /\ Has(queue, Ups) => Has(queue', Ups)
           /\ Has(queue, Configures) => Has(queue', Configures)
           /\ InTurn(queue, Opens, Ups) => InTurn(queue', Opens, Ups)
           /\ InTurn(queue, Opens, Configures) => InTurn(queue', Opens, Configures)
           /\ queue # <<>> => Head(queue') = Head(queue)
<1>1. CASE queue' = queue
  BY <1>1
<1>2. ASSUME NEW m \in Queued, queue' = Append(queue, m)
      PROVE  /\ Has(queue, Opens) => Has(queue', Opens)
             /\ Has(queue, Ups) => Has(queue', Ups)
             /\ Has(queue, Configures) => Has(queue', Configures)
             /\ InTurn(queue, Opens, Ups) => InTurn(queue', Opens, Ups)
             /\ InTurn(queue, Opens, Configures) => InTurn(queue', Opens, Configures)
             /\ queue # <<>> => Head(queue') = Head(queue)
  <2>0. queue \in Seq(Queued)
    BY DEF TypeOK
  <2>1. /\ Has(queue', Ups) <=> Has(queue, Ups) \/ m \in Ups
        /\ InTurn(queue, Opens, Ups) => InTurn(queue', Opens, Ups)
    BY <1>2, <2>0, AppendHas, ZenonT(60)
  <2>2. /\ Has(queue', Configures) <=> Has(queue, Configures) \/ m \in Configures
        /\ InTurn(queue, Opens, Configures) => InTurn(queue', Opens, Configures)
    BY <1>2, <2>0, AppendHas, ZenonT(60)
  <2>3. Has(queue', Opens) <=> Has(queue, Opens) \/ m \in Opens
    BY <1>2, <2>0, AppendHas
  <2>4. queue # <<>> => Head(queue') = Head(queue)
    BY <1>2, <2>0
  <2> QED
    BY <2>1, <2>2, <2>3, <2>4
<1> QED
  BY <1>1, <1>2

(* What a handler leaves of the messages that bring the modem back. *)
LEMMA BringsBack ==
    ASSUME TypeOK, MsgTask
    PROVE  /\ Has(queue, Opens) => Has(queue', Opens) \/ Head(queue).what = "LocOpen"
           /\ Has(queue, Ups) => Has(queue', Ups) \/ Head(queue).what = "LocEngUp"
           /\ Has(queue, Configures) =>
                \/ Has(queue', Configures)
                \/ Head(queue).what \in {"LocEngUp", "LocEngInit", "Config"}
           /\ InTurn(queue, Opens, Ups) =>
                /\ Has(queue', Ups) \/ Head(queue).what = "LocEngUp"
                /\ InTurn(queue', Opens, Ups) \/ (Head(queue).what = "LocOpen" /\ Has(queue', Ups))
           /\ InTurn(queue, Opens, Configures) =>
                \/ InTurn(queue', Opens, Configures)
                \/ Head(queue).what = "LocOpen" /\ Has(queue', Configures)
<1>0. /\ queue \in Seq(Queued) /\ queue # <<>> /\ Head(queue) \in Queued
      /\ queue' = Tail(queue) \/ queue' = Append(Tail(queue), Message("Config", {}))
  BY Handling DEF TypeOK
<1>a. Message("Config", {}) \in Queued /\ Message("Config", {}) \notin Opens
  BY Sendable, Kinds
<1>1. Has(queue, Opens) => Has(queue', Opens) \/ Head(queue) \in Opens
  BY <1>0, <1>a, HandledHas
<1>2. /\ Has(queue, Ups) => Has(queue', Ups) \/ Head(queue) \in Ups
      /\ InTurn(queue, Opens, Ups) =>
           InTurn(queue', Opens, Ups) \/ (Head(queue) \in Opens /\ Has(queue', Ups))
  BY <1>0, <1>a, HandledHas
<1>3. /\ Has(queue, Configures) => Has(queue', Configures) \/ Head(queue) \in Configures
      /\ InTurn(queue, Opens, Configures) =>
           InTurn(queue', Opens, Configures) \/ (Head(queue) \in Opens /\ Has(queue', Configures))
  BY <1>0, <1>a, HandledHas
<1>4. InTurn(queue, Opens, Ups) => Has(queue, Ups)
  BY InTurnHas
<1> QED
  BY <1>0, <1>1, <1>2, <1>3, <1>4, Kinds

(* A handler that appends a message to configure the engine has done so. *)
LEMMA WillConfigure ==
    ASSUME TypeOK, LocEngInit \/ LocEngUp
    PROVE  Has(queue', Configures)
<1>0. MsgTask
  BY DEF MsgTask
<1>1. queue' = Append(Tail(queue), Message("Config", {}))
  BY DEF LocEngInit, LocEngUp
<1>2. queue \in Seq(Queued) /\ queue # <<>>
  BY <1>0, Handling DEF TypeOK
<1>3. Tail(queue) \in Seq(Queued)
  BY <1>2
<1>4. Message("Config", {}) \in Queued /\ Message("Config", {}) \in Configures
  BY Sendable, Kinds
<1> QED
  BY <1>1, <1>3, <1>4, AppendHas, ZenonT(60)

(* What the handlers do to the modem's way back. *)
LEMMA HandledModem ==
    ASSUME TypeOK, MsgTask
    PROVE  /\ gpsModem'.rising = gpsModem.rising /\ gpsModem'.told = gpsModem.told
           /\ LocOpen /\ gpsModem.at = "up" => gpsModem'.at = "open"
           /\ ~(LocOpen /\ gpsModem.at = "up") => gpsModem'.at = gpsModem.at
           /\ Config => gpsModem'.configured = (gpsModem.at = "open")
           /\ ~Config => gpsModem'.configured = gpsModem.configured
<1>0. gpsModem \in ModemStates
  BY DEF TypeOK, ModemStates
<1>1. CASE LocOpen
  <2>1. ~Config
    BY <1>1 DEF LocOpen, Config, Handle
  <2> QED
    BY <1>0, <1>1, <2>1 DEF LocOpen, ModemStates
<1>2. CASE Config
  <2>1. ~LocOpen
    BY <1>2 DEF LocOpen, Config, Handle
  <2> QED
    BY <1>0, <1>2, <2>1 DEF Config, ModemStates
<1>3. ASSUME NEW c, NEW result, startFix(c, result)
      PROVE  /\ gpsModem'.rising = gpsModem.rising /\ gpsModem'.told = gpsModem.told
             /\ gpsModem'.at = gpsModem.at /\ gpsModem'.configured = gpsModem.configured
  BY <1>0, <1>3 DEF startFix, ModemStates
<1>4. CASE ~LocOpen /\ ~Config
  <2>1. /\ gpsModem'.rising = gpsModem.rising /\ gpsModem'.told = gpsModem.told
        /\ gpsModem'.at = gpsModem.at /\ gpsModem'.configured = gpsModem.configured
    <3>1. CASE StartFix
      BY <1>3, <3>1 DEF StartFix
    <3>2. CASE LocEngUp
      BY <1>3, <3>2 DEF LocEngUp
    <3>3. CASE StopFix
      BY <1>0, <3>3 DEF StopFix, ModemStates
    <3>4. CASE PositionMode
      BY <1>0, <3>4 DEF PositionMode, ModemStates
    <3>5. CASE ReportPosition
      BY <1>0, <3>5 DEF ReportPosition, ModemStates
    <3>6. CASE LocEngInit \/ ReportStatus \/ DelAidData \/ RequestNi \/ LocEngDown
      BY <3>6 DEF LocEngInit, ReportStatus, DelAidData, RequestNi, LocEngDown
    <3> QED
      BY <1>4, <3>1, <3>2, <3>3, <3>4, <3>5, <3>6 DEF MsgTask
  <2> QED
    BY <1>4, <2>1
<1> QED
  BY <1>1, <1>2, <1>4

(* Configuring is inductive. *)
LEMMA ConfiguringInv == Types /\ Configuring /\ [EngNext]_locEngVars => Configuring'
<1> SUFFICES ASSUME Types, Configuring, [EngNext]_locEngVars PROVE Configuring'
  OBVIOUS
<1>0. TypeOK /\ gpsModem \in ModemStates
  BY DEF Types, TypeOK, ModemStates
<1>1. CASE loc_eng_init
  <2>2. Message("LocOpen", {}) \in Opens /\ Message("LocEngInit", {}) \in Configures
    BY Sendable, Kinds
  <2>3. /\ Has(queue', Configures) /\ Has(queue', Opens) /\ InTurn(queue', Opens, Configures)
    BY <1>1, <2>2, FirstQueue DEF loc_eng_init
  <2> QED
    BY <1>1, <2>3 DEF Configuring
<1>2. CASE Calls
  BY <1>0, <1>2, Calling, SentKeeps DEF Configuring
<1>3. CASE MsgTask
  <2>1. CASE LocOpen /\ gpsModem.at = "up"
    <3>1. Head(queue).what = "LocOpen"
      BY <2>1 DEF LocOpen, Handle
    <3>2. gpsModem'.at = "open" /\ gpsModem'.rising = gpsModem.rising /\ created
      BY <1>0, <1>3, <2>1, HandledModem, Handling DEF Types
    <3>3. gpsModem.rising \/ InTurn(queue, Opens, Configures)
      BY <2>1, <3>2 DEF Configuring
    <3>4. InTurn(queue', Opens, Configures) => Has(queue', Configures)
      BY InTurnHas
    <3>5. gpsModem.rising \/ Has(queue', Configures)
      BY <1>0, <1>3, <3>3, <3>4, BringsBack
    <3> QED
      BY <3>2, <3>5 DEF Configuring
  <2>2. CASE LocEngInit \/ LocEngUp
    <3>1. Has(queue', Configures)
      BY <1>0, <2>2, WillConfigure
    <3>2. Head(queue).what # "LocOpen"
      BY <2>2 DEF LocEngInit, LocEngUp, Handle
    <3>3. gpsModem'.at = gpsModem.at /\ gpsModem'.rising = gpsModem.rising /\ created' = created
      BY <1>0, <1>3, <3>2, HandledModem, Handling DEF LocOpen, Handle
    <3> QED
      BY <1>0, <1>3, <3>1, <3>2, <3>3, BringsBack DEF Configuring
  <2>3. CASE ~(LocOpen /\ gpsModem.at = "up") /\ ~LocEngInit /\ ~LocEngUp
    <3>1. gpsModem'.at = gpsModem.at /\ gpsModem'.rising = gpsModem.rising /\ created' = created
      BY <1>0, <1>3, <2>3, HandledModem, Handling
    <3>2. Head(queue).what \in {"LocEngUp", "LocEngInit", "Config"} => Config
      BY <1>3, <2>3 DEF MsgTask, LocOpen, LocEngInit, Config, StartFix, StopFix, PositionMode,
           ReportPosition, ReportStatus, DelAidData, RequestNi, LocEngDown, LocEngUp, Handle
    <3>3. Head(queue).what = "LocOpen" => LocOpen
      BY <1>3 DEF MsgTask, LocOpen, LocEngInit, Config, StartFix, StopFix, PositionMode,
           ReportPosition, ReportStatus, DelAidData, RequestNi, LocEngDown, LocEngUp, Handle
    <3>4. gpsModem'.configured = (gpsModem.at = "open") \/ (gpsModem'.configured = gpsModem.configured /\ ~Config)
      BY <1>0, <1>3, HandledModem
    <3> QED
      BY <1>0, <1>3, <2>3, <3>1, <3>2, <3>3, <3>4, BringsBack DEF Configuring
  <2> QED
    BY <2>1, <2>2, <2>3
<1>4. CASE Modem
  <2>0. /\ created' = created
        /\ Has(queue, Opens) => Has(queue', Opens)
        /\ Has(queue, Configures) => Has(queue', Configures)
        /\ InTurn(queue, Opens, Configures) => InTurn(queue', Opens, Configures)
    BY <1>0, <1>4, Reporting, SentKeeps
  <2>1. CASE fix \/ tellSession \/ tellEngine \/ networkSession \/ networkDone
    <3>1. /\ gpsModem'.at = gpsModem.at /\ gpsModem'.rising = gpsModem.rising
          /\ gpsModem'.configured = gpsModem.configured
      BY <1>0, <2>1 DEF fix, tellSession, tellEngine, networkSession, networkDone, ModemStates
    <3> QED
      BY <2>0, <3>1 DEF Configuring
  <2>2. CASE engineCrash
    <3>1. gpsModem'.at = "down"
      BY <1>0, <2>2 DEF engineCrash, ModemStates
    <3> QED
      BY <3>1 DEF Configuring
  <2>3. CASE engineBack
    <3>1. gpsModem'.at = "up" /\ gpsModem'.rising
      BY <1>0, <2>3 DEF engineBack, ModemStates
    <3>2. Message("LocOpen", {}) \in Queued /\ Message("LocOpen", {}) \in Opens
      BY Sendable, Kinds
    <3>3. queue' = Append(queue, Message("LocOpen", {})) /\ queue \in Seq(Queued)
      BY <1>0, <2>3, <3>2, Sending DEF engineBack
    <3>4. Has(queue', Opens)
      BY <3>2, <3>3, AppendAdds
    <3> QED
      BY <3>1, <3>4 DEF Configuring
  <2>4. CASE recovered
    <3>1. gpsModem'.at = gpsModem.at /\ created
      BY <1>0, <2>4 DEF recovered, ModemStates, Sends
    <3>2. Message("LocEngUp", {}) \in Queued /\ Message("LocEngUp", {}) \in Configures
      BY Sendable, Kinds
    <3>3. queue' = Append(queue, Message("LocEngUp", {})) /\ queue \in Seq(Queued)
      BY <1>0, <2>4, <3>2, Sending DEF recovered
    <3>4. Has(queue', Configures)
      BY <3>2, <3>3, AppendAdds
    <3>5. Has(queue, Opens) => InTurn(queue', Opens, Configures)
      BY <3>2, <3>3, AppendHas
    <3> QED
      BY <2>0, <3>1, <3>4, <3>5 DEF Configuring
  <2> QED
    BY <1>4, <2>1, <2>2, <2>3, <2>4 DEF Modem
<1>5. CASE UNCHANGED locEngVars
  BY <1>5 DEF Configuring, locEngVars, engVars
<1> QED
  BY <1>1, <1>2, <1>3, <1>4, <1>5 DEF EngNext, EngFramework, Calls

-----------------------------------------------------------------------------
(* The restart stays on its way until the engine hears of an open modem. *)
LEMMA StillRestarting ==
    ASSUME TypeOK, Restarting, MsgTask, ~(LocEngUp /\ gpsModem.at = "open")
    PROVE  Restarting'
<1>1. gpsModem'.rising = gpsModem.rising
  BY HandledModem
<1>2. CASE gpsModem.rising
  BY <1>1, <1>2 DEF Restarting
<1>3. CASE LocOpen /\ gpsModem.at = "up" /\ InTurn(queue, Opens, Ups)
  <2>1. gpsModem'.at = "open" /\ Head(queue).what = "LocOpen"
    BY <1>3, HandledModem DEF LocOpen, Handle
  <2>2. Has(queue', Ups)
    BY <1>3, <2>1, BringsBack
  <2> QED
    BY <2>1, <2>2 DEF Restarting
<1>4. CASE ~gpsModem.rising /\ ~(LocOpen /\ gpsModem.at = "up")
  <2>1. gpsModem'.at = gpsModem.at
    BY <1>4, HandledModem
  <2>2. /\ Head(queue).what = "LocOpen" => LocOpen
        /\ Head(queue).what = "LocEngUp" => LocEngUp
    BY DEF MsgTask, LocOpen, LocEngInit, Config, StartFix, StopFix, PositionMode,
           ReportPosition, ReportStatus, DelAidData, RequestNi, LocEngDown, LocEngUp, Handle
  <2> QED
    BY <1>4, <2>1, <2>2, BringsBack DEF Restarting
<1> QED
  BY <1>2, <1>3, <1>4 DEF Restarting

(* Restored is inductive. *)
LEMMA RestoredInv == Types /\ Configuring /\ Restored /\ [EngNext]_locEngVars => Restored'
<1> SUFFICES ASSUME Types, Configuring, Restored, [EngNext]_locEngVars PROVE Restored'
  OBVIOUS
<1>0. TypeOK /\ gpsModem \in ModemStates
  BY DEF Types, TypeOK, ModemStates
<1>a. created /\ gpsModem.at = "up" => queue # <<>>
  <2>1. Len(<<>>) = 0 /\ 1..0 = {}
    OBVIOUS
  <2> QED
    BY <2>1 DEF Configuring, Has
<1>1. CASE loc_eng_init
  <2>1. queue' = <<Message("LocOpen", {}), Message("LocEngInit", {})>>
    BY <1>1 DEF loc_eng_init
  <2>2. Head(queue').what = "LocOpen"
    BY <2>1, Sendable
  <2> QED
    BY <1>1, <2>2 DEF loc_eng_init, engVars, Restored, Types
<1>2. CASE Calls
  <2>1. /\ UNCHANGED <<created, mNavigating, gpsModem, outcome, crashed>> /\ created
        /\ Has(queue, Ups) => Has(queue', Ups)
        /\ InTurn(queue, Opens, Ups) => InTurn(queue', Opens, Ups)
        /\ queue # <<>> => Head(queue') = Head(queue)
    BY <1>0, <1>2, Calling, SentKeeps
  <2> QED
    BY <1>a, <2>1 DEF Restored, Restarting
<1>3. CASE MsgTask
  <2>0. /\ created /\ created' = created /\ crashed' = crashed
        /\ gpsModem'.rising = gpsModem.rising
        /\ ~(LocOpen /\ gpsModem.at = "up") => gpsModem'.at = gpsModem.at
        /\ LocOpen /\ gpsModem.at = "up" => gpsModem'.at = "open"
    BY <1>0, <1>3, Handling, HandledModem DEF Types
  <2>1. gpsModem.at = "up" /\ ~LocOpen => crashed /\ Restarting
    <3>1. Head(queue).what = "LocOpen" => LocOpen
      BY <1>3 DEF MsgTask, LocOpen, LocEngInit, Config, StartFix, StopFix, PositionMode,
           ReportPosition, ReportStatus, DelAidData, RequestNi, LocEngDown, LocEngUp, Handle
    <3> QED
      BY <2>0, <3>1 DEF Restored
  <2>2. gpsModem.at # "open" /\ ~LocOpen => Restarting'
    <3>1. gpsModem.at \in {"down", "up", "open"}
      BY <1>0 DEF ModemStates
    <3>2. gpsModem.at # "open" /\ ~LocOpen => Restarting
      BY <2>1, <3>1 DEF Restarting
    <3> QED
      BY <1>0, <1>3, <3>2, StillRestarting
  <2>3. mNavigating' =>
          gpsModem'.running \/ gpsModem'.finished \/ outcome' = "offline" \/ Restarting'
    <3>1. ASSUME NEW c, NEW result \in Results, startFix(c, result), ~LocOpen
          PROVE  mNavigating' =>
                   gpsModem'.running \/ gpsModem'.finished \/ outcome' = "offline" \/ Restarting'
      <4>1. CASE gpsModem.at # "open"
        BY <2>2, <3>1, <4>1
      <4>2. CASE result = "success"
        BY <1>0, <3>1, <4>2 DEF startFix, ModemStates
      <4>3. CASE result \in {"phone_offline", "internal"}
        BY <3>1, <4>3 DEF startFix
      <4>4. CASE result = "failure"
        BY <3>1, <4>4 DEF startFix, Accepted
      <4> QED
        BY <3>1, <4>1, <4>2, <4>3, <4>4 DEF Results
    <3>2. CASE StartFix /\ ~mNavigating
      <4>1. ~LocOpen
        BY <3>2 DEF StartFix, LocOpen, Handle
      <4> QED
        BY <3>1, <3>2, <4>1 DEF StartFix
    <3>3. CASE LocEngUp /\ mNavigating
      <4>1. ~LocOpen
        BY <3>3 DEF LocEngUp, LocOpen, Handle
      <4> QED
        BY <3>1, <3>3, <4>1 DEF LocEngUp
    <3>4. CASE LocEngUp /\ ~mNavigating
      BY <3>4 DEF LocEngUp
    <3>5. CASE StopFix
      BY <3>5 DEF StopFix
    <3>6. CASE ~LocEngUp /\ mNavigating' /\ mNavigating
               /\ UNCHANGED <<gpsModem.running, gpsModem.finished, outcome>>
      <4>1. Restarting => Restarting'
        BY <1>0, <1>3, <3>6, StillRestarting
      <4> QED
        BY <3>6, <4>1 DEF Restored
    <3>7. CASE StartFix /\ mNavigating
      <4>1. ~LocEngUp
        BY <3>7 DEF StartFix, LocEngUp, Handle
      <4> QED
        BY <3>6, <3>7, <4>1 DEF StartFix
    <3>8. CASE ReportPosition
      <4>1. ~LocEngUp
        BY <3>8 DEF ReportPosition, LocEngUp, Handle
      <4>2. ~mNavigating' \/ UNCHANGED <<mNavigating, gpsModem, outcome>>
        BY <3>8 DEF ReportPosition
      <4> QED
        BY <3>6, <4>1, <4>2
    <3>9. CASE \/ LocOpen \/ LocEngInit \/ Config \/ PositionMode \/ ReportStatus \/ DelAidData
               \/ RequestNi \/ LocEngDown
      <4>1. ~LocEngUp
        BY <3>9 DEF LocOpen, LocEngInit, Config, PositionMode, ReportStatus, DelAidData,
                    RequestNi, LocEngDown, LocEngUp, Handle
      <4>2. UNCHANGED <<mNavigating, outcome>>
        BY <3>9 DEF LocOpen, LocEngInit, Config, PositionMode, ReportStatus, DelAidData,
                    RequestNi, LocEngDown, engVars
      <4>3. gpsModem'.running = gpsModem.running /\ gpsModem'.finished = gpsModem.finished
        BY <1>0, <3>9 DEF LocOpen, LocEngInit, Config, PositionMode, ReportStatus, DelAidData,
                          RequestNi, LocEngDown, ModemStates
      <4> QED
        BY <3>6, <4>1, <4>2, <4>3
    <3> QED
      BY <1>3, <3>2, <3>3, <3>4, <3>5, <3>7, <3>8, <3>9 DEF MsgTask
  <2>4. crashed' /\ gpsModem'.at = "up" => Restarting'
    BY <2>0, <2>2
  <2>5. ~crashed' => gpsModem'.at \notin {"down", "up"} /\ ~gpsModem'.rising
    BY <1>0, <2>0, <2>1 DEF Restored
  <2> QED
    BY <2>3, <2>4, <2>5 DEF Restored
<1>4. CASE Modem
  <2>0. /\ created /\ UNCHANGED <<created, mNavigating, outcome>>
        /\ Has(queue, Ups) => Has(queue', Ups)
        /\ InTurn(queue, Opens, Ups) => InTurn(queue', Opens, Ups)
        /\ queue # <<>> => Head(queue') = Head(queue)
    BY <1>0, <1>4, Reporting, SentKeeps
  <2>1. CASE fix \/ tellSession \/ tellEngine \/ networkSession \/ networkDone
    <3>1. /\ gpsModem'.at = gpsModem.at /\ gpsModem'.rising = gpsModem.rising
          /\ gpsModem.running \/ gpsModem.finished => gpsModem'.running \/ gpsModem'.finished
          /\ crashed' = crashed
      BY <1>0, <2>1 DEF fix, tellSession, tellEngine, networkSession, networkDone, ModemStates
    <3> QED
      BY <1>a, <2>0, <3>1 DEF Restored, Restarting
  <2>2. CASE engineCrash
    <3>1. gpsModem'.at = "down" /\ crashed'
      BY <1>0, <2>2 DEF engineCrash, ModemStates
    <3> QED
      BY <3>1 DEF Restored, Restarting
  <2>3. CASE engineBack
    <3>1. gpsModem'.rising /\ crashed' /\ crashed
      BY <1>0, <2>3 DEF engineBack, ModemStates, Restored
    <3> QED
      BY <3>1 DEF Restored, Restarting
  <2>4. CASE recovered
    <3>1. gpsModem'.at = gpsModem.at /\ crashed' /\ gpsModem.at \in {"down", "up", "open"}
          /\ gpsModem.rising
      BY <1>0, <2>4 DEF recovered, ModemStates, Restored
    <3>2. Message("LocEngUp", {}) \in Queued /\ Message("LocEngUp", {}) \in Ups
      BY Sendable, Kinds
    <3>3. queue' = Append(queue, Message("LocEngUp", {})) /\ queue \in Seq(Queued)
      BY <1>0, <2>4, <3>2, Sending DEF recovered
    <3>4. Has(queue', Ups)
      BY <3>2, <3>3, AppendAdds
    <3>5. Has(queue, Opens) => InTurn(queue', Opens, Ups)
      BY <3>2, <3>3, AppendHas
    <3>6. Restarting'
      BY <2>0, <3>1, <3>4, <3>5 DEF Configuring, Restarting
    <3> QED
      BY <3>1, <3>6 DEF Restored
  <2> QED
    BY <1>4, <2>1, <2>2, <2>3, <2>4 DEF Modem
<1>5. CASE UNCHANGED locEngVars
  BY <1>5 DEF Restored, Restarting, locEngVars, engVars
<1> QED
  BY <1>1, <1>2, <1>3, <1>4, <1>5 DEF EngNext, EngFramework, Calls

-----------------------------------------------------------------------------
(* The reports by what they do. *)
LEMMA Reports ==
    \A m \in Queued :
        /\ m \in Says(Begins) <=> m.what = "ReportStatus" /\ m.arg \in {"SESSION_BEGIN", "ENGINE_ON"}
        /\ m \in Unmutes <=> \/ m.what = "ReportStatus" /\ m.arg \in {"SESSION_END", "ENGINE_OFF"}
                             \/ m.what = "LocEngDown"
        /\ m \in TurnsOn <=> m.what = "ReportStatus" /\ m.arg = "ENGINE_ON"
        /\ m \in TurnsOff <=> \/ m.what = "ReportStatus" /\ m.arg = "ENGINE_OFF"
                              \/ m.what = "LocEngDown"
        /\ m \in Downs <=> m.what = "LocEngDown"
BY Kinds DEF Says, Unmutes, TurnsOn, TurnsOff, Begins, Ends

(* What the message that is sent must be for an end to stay on its way. *)
LEMMA SentReport ==
    ASSUME TypeOK, NEW m \in Queued, queue' = Append(queue, m)
    PROVE  /\ m \notin Says(Begins) /\ Followed(queue, Says(Begins), Unmutes) =>
                Followed(queue', Says(Begins), Unmutes)
           /\ m \notin TurnsOn /\ Followed(queue, TurnsOn, TurnsOff) =>
                Followed(queue', TurnsOn, TurnsOff)
           /\ m \in Unmutes =>
                Has(queue', Unmutes) /\ Followed(queue', Says(Begins), Unmutes)
           /\ m \in TurnsOff => Has(queue', TurnsOff) /\ Followed(queue', TurnsOn, TurnsOff)
           /\ Has(queue, Unmutes) => Has(queue', Unmutes)
           /\ Has(queue, TurnsOff) => Has(queue', TurnsOff)
           /\ Has(queue', Downs) => Has(queue, Downs) \/ m.what = "LocEngDown"
<1>0. queue \in Seq(Queued)
  BY DEF TypeOK
<1>1. /\ Has(queue', Unmutes) <=> Has(queue, Unmutes) \/ m \in Unmutes
      /\ m \notin Says(Begins) /\ Followed(queue, Says(Begins), Unmutes) =>
           Followed(queue', Says(Begins), Unmutes)
      /\ m \notin Says(Begins) /\ m \in Unmutes => Followed(queue', Says(Begins), Unmutes)
  BY <1>0, AppendHas
<1>2. /\ Has(queue', TurnsOff) <=> Has(queue, TurnsOff) \/ m \in TurnsOff
      /\ m \notin TurnsOn /\ Followed(queue, TurnsOn, TurnsOff) =>
           Followed(queue', TurnsOn, TurnsOff)
      /\ m \notin TurnsOn /\ m \in TurnsOff => Followed(queue', TurnsOn, TurnsOff)
  BY <1>0, AppendHas
<1>3. /\ Has(queue', Downs) <=> Has(queue, Downs) \/ m \in Downs
      /\ InTurn(queue, Opens, Downs) => InTurn(queue', Opens, Downs)
  BY <1>0, AppendHas, ZenonT(60)
<1>4. /\ m \in Unmutes => m \notin Says(Begins)
      /\ m \in TurnsOff => m \notin TurnsOn
  BY Reports
<1> QED
  BY <1>1, <1>2, <1>3, <1>4, Reports

(* What handling a report leaves of the ends on their way. *)
LEMMA HandledReport ==
    ASSUME TypeOK, MsgTask
    PROVE  /\ Followed(queue, Says(Begins), Unmutes) =>
                /\ Followed(queue', Says(Begins), Unmutes)
                /\ Head(queue) \in Says(Begins) => Has(queue', Unmutes)
           /\ Followed(queue, TurnsOn, TurnsOff) =>
                /\ Followed(queue', TurnsOn, TurnsOff)
                /\ Head(queue) \in TurnsOn => Has(queue', TurnsOff)
           /\ Has(queue, Unmutes) => Has(queue', Unmutes) \/ Head(queue) \in Unmutes
           /\ Has(queue, TurnsOff) => Has(queue', TurnsOff) \/ Head(queue) \in TurnsOff
           /\ Has(queue', Downs) => Has(queue, Downs)
           /\ Head(queue) \in Downs => Has(queue, Downs)
<1>0. /\ queue \in Seq(Queued) /\ queue # <<>> /\ Head(queue) \in Queued
      /\ queue' = Tail(queue) \/ queue' = Append(Tail(queue), Message("Config", {}))
  BY Handling DEF TypeOK
<1>a. /\ Message("Config", {}) \in Queued /\ Message("Config", {}) \notin Says(Begins)
      /\ Message("Config", {}) \notin TurnsOn /\ Message("Config", {}) \notin Downs
  BY Sendable, Reports
<1>1. /\ Has(queue, Unmutes) => Has(queue', Unmutes) \/ Head(queue) \in Unmutes
      /\ Followed(queue, Says(Begins), Unmutes) =>
           /\ Followed(queue', Says(Begins), Unmutes)
           /\ Head(queue) \in Says(Begins) => Has(queue', Unmutes)
  BY <1>0, <1>a, HandledHas
<1>2. /\ Has(queue, TurnsOff) => Has(queue', TurnsOff) \/ Head(queue) \in TurnsOff
      /\ Followed(queue, TurnsOn, TurnsOff) =>
           /\ Followed(queue', TurnsOn, TurnsOff)
           /\ Head(queue) \in TurnsOn => Has(queue', TurnsOff)
  BY <1>0, <1>a, HandledHas
<1>3. /\ Has(queue', Downs) => Has(queue, Downs)
      /\ InTurn(queue, Downs, Opens) =>
           InTurn(queue', Downs, Opens) \/ (Head(queue) \in Downs /\ Has(queue', Opens))
  BY <1>0, <1>a, HandledHas
<1>4. /\ Has(queue, Downs) <=> Has(Tail(queue), Downs) \/ Head(queue) \in Downs
      /\ InTurn(queue, Opens, Downs) =>
           InTurn(Tail(queue), Opens, Downs) \/ (Head(queue) \in Opens /\ Has(Tail(queue), Downs))
  BY <1>0, TakeHas
<1> QED
  BY <1>1, <1>2, <1>3, <1>4

(* What the handlers do to the mute, the engine's status and the data. *)
LEMMA HandledStatus ==
    ASSUME TypeOK, MsgTask
    PROVE  /\ mute_session_state' = "in_session" =>
                \/ Head(queue) \in Says(Begins)
                \/ mute_session_state = "in_session" /\ Head(queue) \notin Unmutes
           /\ engine_status' = "ENGINE_ON" =>
                \/ Head(queue) \in TurnsOn
                \/ engine_status = "ENGINE_ON" /\ Head(queue) \notin TurnsOff
           /\ \/ Head(queue) \in Downs
              \/ UNCHANGED <<engine_status, aiding_data_for_deletion>>
              \/ aiding_data_for_deletion' # {} => engine_status' = "ENGINE_ON"
<1>0. Head(queue) \in Queued
  BY Handling
<1>1. CASE ReportStatus
  <2>1. Head(queue).what = "ReportStatus" /\ Head(queue).arg \in Statuses
    BY <1>0, <1>1, Carried DEF ReportStatus, Handle
  <2>2. /\ report_status(Head(queue).arg)
        /\ aiding_data_for_deletion' = StillToDelete(engine_status', aiding_data_for_deletion)
    BY <1>1 DEF ReportStatus, update_aiding_data_for_deletion
  <2> QED
    BY <1>0, <2>1, <2>2, Reports DEF report_status, StillToDelete, Statuses, Begins, Ends
<1>2. CASE LocEngDown
  <2>1. Head(queue).what = "LocEngDown" /\ report_status("ENGINE_OFF")
    BY <1>2 DEF LocEngDown, Handle
  <2> QED
    BY <1>0, <2>1, Reports DEF report_status, Begins, Ends
<1>3. CASE DelAidData
  <2>1. Head(queue).what = "DelAidData" /\ UNCHANGED <<mute_session_state, engine_status>>
        /\ aiding_data_for_deletion' = StillToDelete(engine_status, Head(queue).arg)
    BY <1>3 DEF DelAidData, Handle, update_aiding_data_for_deletion
  <2> QED
    BY <1>0, <2>1, Reports DEF StillToDelete
<1>4. CASE RequestNi
  <2>1. Head(queue).what = "RequestNi" /\ UNCHANGED <<aiding_data_for_deletion, engine_status>>
        /\ mute_session_state' = "wait"
    BY <1>4 DEF RequestNi, Handle
  <2> QED
    BY <1>0, <2>1, Reports
<1>5. CASE \/ LocOpen \/ LocEngInit \/ Config \/ StartFix \/ StopFix \/ PositionMode
           \/ ReportPosition \/ LocEngUp
  <2>1. Head(queue).what \notin {"ReportStatus", "LocEngDown"}
    BY <1>5 DEF LocOpen, LocEngInit, Config, StartFix, StopFix, PositionMode, ReportPosition,
                LocEngUp, Handle
  <2>2. UNCHANGED <<mute_session_state, engine_status, aiding_data_for_deletion>>
    BY <1>5 DEF LocOpen, LocEngInit, Config, StartFix, StopFix, PositionMode, ReportPosition,
                LocEngUp, engVars
  <2> QED
    BY <1>0, <2>1, <2>2, Reports
<1> QED
  BY <1>1, <1>2, <1>3, <1>4, <1>5 DEF MsgTask

(* The steps of the modem that tell nothing send no report of a status. *)
LEMMA TellsNothing ==
    ASSUME TypeOK, fix \/ networkSession \/ networkDone \/ engineBack \/ recovered
    PROVE  /\ gpsModem'.told = gpsModem.told /\ crashed' = crashed
           /\ \/ queue' = queue
              \/ \E m \in Queued : /\ queue' = Append(queue, m)
                                   /\ m.what \notin {"ReportStatus", "LocEngDown"}
<1>0. gpsModem \in ModemStates
  BY DEF TypeOK, ModemStates
<1>1. gpsModem'.told = gpsModem.told /\ crashed' = crashed
  BY <1>0 DEF fix, networkSession, networkDone, engineBack, recovered, ModemStates
<1>2. CASE fix
  <2>1. PICK f \in Fixes : Sends(<<Message("ReportPosition", f)>>)
    BY <1>2 DEF fix
  <2>2. queue' = Append(queue, Message("ReportPosition", f))
    BY <2>1, Sending, Sendable
  <2> QED
    BY <1>1, <2>2, Sendable
<1>3. CASE networkSession
  <2>1. queue' = Append(queue, Message("RequestNi", {}))
    BY <1>3, Sending, Sendable DEF networkSession
  <2> QED
    BY <1>1, <2>1, Sendable
<1>4. CASE networkDone
  <2>1. queue' = queue \o <<>> /\ queue \in Seq(Queued)
    BY <1>4 DEF networkDone, Sends, TypeOK
  <2> QED
    BY <1>1, <2>1
<1>5. CASE engineBack
  <2>1. queue' = Append(queue, Message("LocOpen", {}))
    BY <1>5, Sending, Sendable DEF engineBack
  <2> QED
    BY <1>1, <2>1, Sendable
<1>6. CASE recovered
  <2>1. queue' = Append(queue, Message("LocEngUp", {}))
    BY <1>6, Sending, Sendable DEF recovered
  <2> QED
    BY <1>1, <2>1, Sendable
<1> QED
  BY <1>2, <1>3, <1>4, <1>5, <1>6

(* What the modem tells of its session. *)
LEMMA TellsSession ==
    ASSUME TypeOK, tellSession
    PROVE  /\ gpsModem'.told.session = Active /\ gpsModem'.told.engine = gpsModem.told.engine
           /\ crashed' = crashed
           /\ \E m \in Queued :
                /\ queue' = Append(queue, m) /\ m.what = "ReportStatus"
                /\ m.arg \in {"SESSION_BEGIN", "SESSION_END"}
                /\ ~Active => m.arg = "SESSION_END"
<1>0. gpsModem \in ModemStates /\ Active \in BOOLEAN
  BY DEF TypeOK, ModemStates, Active
<1>1. gpsModem'.told.session = Active /\ gpsModem'.told.engine = gpsModem.told.engine
  BY <1>0 DEF tellSession, ModemStates
<1>2. PICK s \in {"SESSION_BEGIN", "SESSION_END"} :
        /\ Sends(<<Message("ReportStatus", s)>>)
        /\ ~Active => s = "SESSION_END"
  BY DEF tellSession
<1>3. Message("ReportStatus", s) \in Queued
  BY Sendable DEF Statuses, Begins
<1>4. queue' = Append(queue, Message("ReportStatus", s))
  BY <1>2, <1>3, Sending
<1> QED
  BY <1>1, <1>2, <1>3, <1>4, Sendable DEF tellSession

(* What the modem tells of its engine. *)
LEMMA TellsEngine ==
    ASSUME TypeOK, tellEngine
    PROVE  /\ gpsModem'.told.engine = Active /\ gpsModem'.told.session = gpsModem.told.session
           /\ crashed' = crashed
           /\ \E m \in Queued :
                /\ queue' = Append(queue, m) /\ m.what = "ReportStatus"
                /\ ~Active => m.arg = "ENGINE_OFF"
<1>0. gpsModem \in ModemStates /\ Active \in BOOLEAN
  BY DEF TypeOK, ModemStates, Active
<1>1. gpsModem'.told.engine = Active /\ gpsModem'.told.session = gpsModem.told.session
  BY <1>0 DEF tellEngine, ModemStates
<1>2. PICK s \in {"ENGINE_ON", "ENGINE_OFF"} :
        /\ Sends(<<Message("ReportStatus", s)>>)
        /\ ~Active => s = "ENGINE_OFF"
  BY DEF tellEngine
<1>3. Message("ReportStatus", s) \in Queued
  BY Sendable DEF Statuses, Begins
<1>4. queue' = Append(queue, Message("ReportStatus", s))
  BY <1>2, <1>3, Sending
<1> QED
  BY <1>1, <1>2, <1>3, <1>4, Sendable DEF tellEngine

(* A crash is told as such. *)
LEMMA TellsCrash ==
    ASSUME TypeOK, engineCrash
    PROVE  /\ crashed'
           /\ \E m \in Queued : queue' = Append(queue, m) /\ m.what = "LocEngDown"
<1>1. queue' = Append(queue, Message("LocEngDown", {}))
  BY Sending, Sendable DEF engineCrash
<1> QED
  BY <1>1, Sendable DEF engineCrash

(* Muting is inductive. *)
LEMMA MutingInv == Types /\ Muting /\ [EngNext]_locEngVars => Muting'
<1> SUFFICES ASSUME Types, Muting, [EngNext]_locEngVars PROVE Muting'
  OBVIOUS
<1>0. TypeOK
  BY DEF Types
<1>1. CASE loc_eng_init
  <2>1. /\ Message("LocOpen", {}) \notin Says(Begins)
        /\ Message("LocEngInit", {}) \notin Says(Begins)
    BY Sendable, Reports
  <2>2. Followed(queue', Says(Begins), Unmutes)
    BY <1>1, <2>1, FirstQueue DEF loc_eng_init
  <2>3. ~Has(queue, Unmutes)
    BY <1>1, FirstQueue DEF loc_eng_init, Types
  <2> QED
    BY <1>1, <2>2, <2>3 DEF loc_eng_init, engVars, Muting
<1>2. CASE Calls
  <2>1. /\ UNCHANGED <<mute_session_state, gpsModem>>
        /\ \/ queue' = queue
           \/ \E m \in Queued : m \notin Says(Begins) /\ queue' = Append(queue, m)
    BY <1>0, <1>2, Calling, Reports
  <2> QED
    BY <1>0, <2>1, SentReport DEF Muting
<1>3. CASE MsgTask
  BY <1>0, <1>3, HandledModem, HandledReport, HandledStatus DEF Muting
<1>4. CASE Modem
  <2>0. mute_session_state' = mute_session_state
    BY <1>0, <1>4, Reporting
  <2>1. CASE fix \/ networkSession \/ networkDone \/ engineBack \/ recovered
    <3>1. /\ gpsModem'.told = gpsModem.told
          /\ \/ queue' = queue
             \/ \E m \in Queued : m \notin Says(Begins) /\ queue' = Append(queue, m)
      BY <1>0, <2>1, TellsNothing, Reports
    <3> QED
      BY <1>0, <2>0, <3>1, SentReport DEF Muting
  <2>2. CASE tellSession
    <3>1. CASE Active
      BY <1>0, <2>2, <3>1, TellsSession DEF Muting
    <3>2. CASE ~Active
      <4>1. \E m \in Queued : m \in Unmutes /\ queue' = Append(queue, m)
        BY <1>0, <2>2, <3>2, TellsSession, Reports
      <4> QED
        BY <1>0, <4>1, SentReport DEF Muting
    <3> QED
      BY <3>1, <3>2
  <2>3. CASE tellEngine
    <3>1. CASE Active
      BY <1>0, <2>3, <3>1, TellsEngine DEF Muting
    <3>2. CASE ~Active
      <4>1. \E m \in Queued : m \in Unmutes /\ queue' = Append(queue, m)
        BY <1>0, <2>3, <3>2, TellsEngine, Reports
      <4> QED
        BY <1>0, <4>1, SentReport DEF Muting
    <3> QED
      BY <3>1, <3>2
  <2>4. CASE engineCrash
    <3>1. \E m \in Queued : m \in Unmutes /\ queue' = Append(queue, m)
      BY <1>0, <2>4, TellsCrash, Reports
    <3> QED
      BY <1>0, <3>1, SentReport DEF Muting
  <2> QED
    BY <1>4, <2>1, <2>2, <2>3, <2>4 DEF Modem
<1>5. CASE UNCHANGED locEngVars
  BY <1>5 DEF Muting, locEngVars, engVars
<1> QED
  BY <1>1, <1>2, <1>3, <1>4, <1>5 DEF EngNext, EngFramework, Calls

(* Deleting is inductive. *)
LEMMA DeletingInv == Types /\ Deleting /\ [EngNext]_locEngVars => Deleting'
<1> SUFFICES ASSUME Types, Deleting, [EngNext]_locEngVars PROVE Deleting'
  OBVIOUS
<1>0. TypeOK
  BY DEF Types
<1>1. CASE loc_eng_init
  <2>1. \A m \in {Message("LocOpen", {}), Message("LocEngInit", {})} :
          m \notin TurnsOn /\ m \notin Downs
    BY Sendable, Reports
  <2>2. Followed(queue', TurnsOn, TurnsOff)
    BY <1>1, <2>1, FirstQueue DEF loc_eng_init
  <2>3. ~Has(queue', Downs)
    BY <1>1, <2>1, FirstQueue DEF loc_eng_init
  <2>4. ~Has(queue, TurnsOff)
    BY <1>1, FirstQueue DEF loc_eng_init, Types
  <2> QED
    BY <1>1, <2>2, <2>3, <2>4 DEF loc_eng_init, engVars, Deleting
<1>2. CASE Calls
  <2>1. /\ UNCHANGED <<engine_status, aiding_data_for_deletion, gpsModem, crashed>>
        /\ \/ queue' = queue
           \/ \E m \in Queued : /\ m \notin TurnsOn /\ m.what # "LocEngDown"
                                /\ queue' = Append(queue, m)
    BY <1>0, <1>2, Calling, Reports
  <2> QED
    BY <1>0, <2>1, SentReport DEF Deleting
<1>3. CASE MsgTask
  <2>1. gpsModem'.told = gpsModem.told /\ crashed' = crashed
    BY <1>0, <1>3, HandledModem, Handling
  <2>2. \/ gpsModem'.told.engine
        \/ /\ Followed(queue', TurnsOn, TurnsOff)
           /\ engine_status' = "ENGINE_ON" => Has(queue', TurnsOff)
    BY <1>0, <1>3, <2>1, HandledReport, HandledStatus DEF Deleting
  <2>3. ~crashed' => /\ ~Has(queue', Downs)
                     /\ aiding_data_for_deletion' # {} => engine_status' = "ENGINE_ON"
    BY <1>0, <1>3, <2>1, HandledReport, HandledStatus DEF Deleting
  <2> QED
    BY <2>2, <2>3 DEF Deleting
<1>4. CASE Modem
  <2>0. UNCHANGED <<engine_status, aiding_data_for_deletion>>
    BY <1>0, <1>4, Reporting
  <2>1. CASE fix \/ networkSession \/ networkDone \/ engineBack \/ recovered
    <3>1. /\ gpsModem'.told = gpsModem.told /\ crashed' = crashed
          /\ \/ queue' = queue
             \/ \E m \in Queued : /\ m \notin TurnsOn /\ m.what # "LocEngDown"
                                  /\ queue' = Append(queue, m)
      BY <1>0, <2>1, TellsNothing, Reports
    <3> QED
      BY <1>0, <2>0, <3>1, SentReport DEF Deleting
  <2>2. CASE tellSession
    <3>1. /\ gpsModem'.told.engine = gpsModem.told.engine /\ crashed' = crashed
          /\ \E m \in Queued : /\ m \notin TurnsOn /\ m.what # "LocEngDown"
                               /\ queue' = Append(queue, m)
      BY <1>0, <2>2, TellsSession, Reports
    <3> QED
      BY <1>0, <2>0, <3>1, SentReport DEF Deleting
  <2>3. CASE tellEngine
    <3>1. /\ crashed' = crashed /\ gpsModem'.told.engine = Active
          /\ \E m \in Queued : /\ Active \/ m \in TurnsOff
                               /\ m.what # "LocEngDown" /\ queue' = Append(queue, m)
      BY <1>0, <2>3, TellsEngine, Reports
    <3> QED
      BY <1>0, <2>0, <3>1, SentReport DEF Deleting
  <2>4. CASE engineCrash
    <3>1. crashed' /\ \E m \in Queued : m \in TurnsOff /\ queue' = Append(queue, m)
      BY <1>0, <2>4, TellsCrash, Reports
    <3> QED
      BY <1>0, <3>1, SentReport DEF Deleting
  <2> QED
    BY <1>4, <2>1, <2>2, <2>3, <2>4 DEF Modem
<1>5. CASE UNCHANGED locEngVars
  BY <1>5 DEF Deleting, locEngVars, engVars
<1> QED
  BY <1>1, <1>2, <1>3, <1>4, <1>5 DEF EngNext, EngFramework, Calls

(* What the message that is sent is to the requests, and what the one that *)
(* is handled was.                                                         *)
LEMMA DeletesSent ==
    ASSUME TypeOK, NEW m \in Queued, queue' = Append(queue, m), NEW d
    PROVE  /\ m \notin Deletes =>
                /\ LastIn(queue, DeletesOf(d), Deletes) => LastIn(queue', DeletesOf(d), Deletes)
                /\ Has(queue', Deletes) => Has(queue, Deletes)
           /\ m \in DeletesOf(d) => LastIn(queue', DeletesOf(d), Deletes)
<1>0. queue \in Seq(Queued)
  BY DEF TypeOK
<1>1. /\ m \notin Deletes /\ LastIn(queue, DeletesOf(d), Deletes) =>
           LastIn(queue', DeletesOf(d), Deletes)
      /\ m \in DeletesOf(d) => LastIn(queue', DeletesOf(d), Deletes)
  BY <1>0, AppendHas
<1>2. Has(queue', Deletes) <=> Has(queue, Deletes) \/ m \in Deletes
  BY <1>0, AppendHas
<1> QED
  BY <1>1, <1>2

LEMMA DeletesHandled ==
    ASSUME TypeOK, MsgTask, NEW d
    PROVE  /\ LastIn(queue, DeletesOf(d), Deletes) =>
                \/ LastIn(queue', DeletesOf(d), Deletes)
                \/ /\ Head(queue).what = "DelAidData" /\ d \in Head(queue).arg
                   /\ ~Has(queue', Deletes)
           /\ Has(queue', Deletes) => Has(queue, Deletes)
           /\ Head(queue).what = "DelAidData" => Has(queue, Deletes)
<1>0. /\ queue \in Seq(Queued) /\ queue # <<>> /\ Head(queue) \in Queued
      /\ queue' = Tail(queue) \/ queue' = Append(Tail(queue), Message("Config", {}))
  BY Handling DEF TypeOK
<1>a. Message("Config", {}) \in Queued /\ Message("Config", {}) \notin Deletes
  BY Sendable DEF Deletes, Kind
<1>1. /\ LastIn(queue, DeletesOf(d), Deletes) =>
           \/ LastIn(queue', DeletesOf(d), Deletes)
           \/ Head(queue) \in DeletesOf(d) /\ ~Has(queue', Deletes)
      /\ Has(queue', Deletes) => Has(queue, Deletes)
  BY <1>0, <1>a, HandledHas
<1>2. Has(queue, Deletes) <=> Has(Tail(queue), Deletes) \/ Head(queue) \in Deletes
  BY <1>0, TakeHas
<1>3. /\ Head(queue) \in Deletes <=> Head(queue).what = "DelAidData"
      /\ Head(queue) \in DeletesOf(d) => Head(queue) \in Deletes /\ d \in Head(queue).arg
  BY <1>0 DEF Deletes, DeletesOf, Kind
<1> QED
  BY <1>1, <1>2, <1>3

(* Owing is inductive: before the first crash the modem is open when a     *)
(* request is handled.                                                     *)
LEMMA OwingInv == Types /\ Restored /\ Owing /\ [EngNext]_locEngVars => Owing'
<1> SUFFICES ASSUME Types, Restored, Owing, [EngNext]_locEngVars, ~crashed', NEW d \in owed'.last
             PROVE  \/ LastIn(queue', DeletesOf(d), Deletes)
                    \/ d \in aiding_data_for_deletion' /\ ~Has(queue', Deletes)
  BY DEF Owing
<1>0. TypeOK /\ gpsModem \in ModemStates /\ owed \in Owed
  BY DEF Types, TypeOK, ModemStates, Owed
<1>1. CASE loc_eng_init
  <2>1. /\ d \in owed.last /\ ~crashed
        /\ UNCHANGED aiding_data_for_deletion
    BY <1>1 DEF loc_eng_init, engVars
  <2>2. ~LastIn(queue, DeletesOf(d), Deletes)
    BY <1>1, FirstQueue DEF Types, loc_eng_init
  <2>3. Message("LocOpen", {}) \notin Deletes /\ Message("LocEngInit", {}) \notin Deletes
    BY Sendable DEF Deletes, Kind
  <2>4. ~Has(queue', Deletes)
    BY <1>1, <2>3, FirstQueue DEF loc_eng_init
  <2> QED
    BY <2>1, <2>2, <2>4 DEF Owing
<1>2. CASE Calls
  <2>0. ~crashed /\ UNCHANGED aiding_data_for_deletion
    BY <1>0, <1>2, Calling
  <2>1. CASE loc_eng_delete_aiding_data
    <3>1. PICK data \in SUBSET Data : /\ queue' = Append(queue, Message("DelAidData", data))
                                      /\ owed' = [all |-> owed.all \cup data, last |-> data]
      BY <2>1 DEF loc_eng_delete_aiding_data
    <3>2. Message("DelAidData", data) \in Queued /\ Message("DelAidData", data) \in DeletesOf(d)
      BY <3>1, Sendable DEF DeletesOf, Deletes, Kind
    <3> QED
      BY <1>0, <3>1, <3>2, DeletesSent
  <2>2. CASE ~loc_eng_delete_aiding_data
    <3>1. UNCHANGED owed
      BY <1>2, <2>2 DEF Calls, loc_eng_start, loc_eng_stop, loc_eng_set_position_mode,
                        loc_eng_cleanup
    <3>2. \/ queue' = queue
          \/ \E m \in Queued : m \notin Deletes /\ queue' = Append(queue, m)
      <4>1. CASE loc_eng_start \/ loc_eng_stop \/ loc_eng_cleanup
        BY <4>1, Sendable DEF loc_eng_start, loc_eng_stop, loc_eng_cleanup, Deletes, Kind
      <4>2. CASE loc_eng_set_position_mode
        BY <4>2, Sendable DEF loc_eng_set_position_mode, Deletes, Kind
      <4> QED
        BY <1>2, <2>2, <4>1, <4>2 DEF Calls
    <3> QED
      BY <1>0, <2>0, <3>1, <3>2, DeletesSent DEF Owing
  <2> QED
    BY <2>1, <2>2
<1>3. CASE MsgTask
  <2>0. /\ ~crashed /\ queue # <<>> /\ Head(queue) \in Queued
    BY <1>0, <1>3, Handling
  <2>a. /\ LastIn(queue, DeletesOf(d), Deletes) =>
             \/ LastIn(queue', DeletesOf(d), Deletes)
             \/ /\ Head(queue).what = "DelAidData" /\ d \in Head(queue).arg
                /\ ~Has(queue', Deletes)
        /\ Has(queue', Deletes) => Has(queue, Deletes)
        /\ Head(queue).what = "DelAidData" => Has(queue, Deletes)
    BY <1>0, <1>3, DeletesHandled
  <2>b. Head(queue).what # "LocOpen" => gpsModem.at = "open"
    BY <1>0, <2>0 DEF Restored, Types, ModemStates
  <2>c. ASSUME NEW status, NEW data, update_aiding_data_for_deletion(status, data),
               Head(queue).what # "LocOpen"
        PROVE  d \in owed.last /\ (d \in data => d \in aiding_data_for_deletion')
    <3>1. owed' = [all |-> owed.all \ (data \ StillToDelete(status, data)),
                   last |-> owed.last \ (data \ StillToDelete(status, data))]
      BY <2>b, <2>c DEF update_aiding_data_for_deletion, Without
    <3>2. owed'.last = owed.last \ (data \ StillToDelete(status, data))
      BY <3>1
    <3>3. d \in owed.last /\ d \notin data \ StillToDelete(status, data)
      BY <3>2
    <3> QED
      BY <2>c, <3>3 DEF update_aiding_data_for_deletion
  <2>1. CASE ReportStatus
    <3>1. /\ Head(queue).what = "ReportStatus"
          /\ update_aiding_data_for_deletion(engine_status', aiding_data_for_deletion)
      BY <2>1 DEF ReportStatus, Handle
    <3>2. /\ d \in owed.last
          /\ d \in aiding_data_for_deletion => d \in aiding_data_for_deletion'
      BY <2>c, <3>1
    <3> QED
      BY <2>0, <2>a, <3>1, <3>2 DEF Owing
  <2>2. CASE DelAidData
    <3>1. /\ Head(queue).what = "DelAidData"
          /\ update_aiding_data_for_deletion(engine_status, Head(queue).arg)
      BY <2>2 DEF DelAidData, Handle
    <3>2. d \in owed.last /\ (d \in Head(queue).arg => d \in aiding_data_for_deletion')
      BY <2>c, <3>1
    <3> QED
      BY <2>0, <2>a, <3>1, <3>2 DEF Owing
  <2>3. CASE \/ LocOpen \/ LocEngInit \/ Config \/ StartFix \/ StopFix \/ PositionMode
             \/ ReportPosition \/ RequestNi \/ LocEngDown \/ LocEngUp
    <3>1. Head(queue).what # "DelAidData"
      BY <2>3 DEF LocOpen, LocEngInit, Config, StartFix, StopFix, PositionMode, ReportPosition,
                  RequestNi, LocEngDown, LocEngUp, Handle
    <3>2. UNCHANGED <<aiding_data_for_deletion, owed>>
      BY <2>3 DEF LocOpen, LocEngInit, Config, StartFix, StopFix, PositionMode, ReportPosition,
                  RequestNi, LocEngDown, LocEngUp, engVars
    <3> QED
      BY <2>0, <2>a, <3>1, <3>2 DEF Owing
  <2> QED
    BY <1>3, <2>1, <2>2, <2>3 DEF MsgTask
<1>4. CASE Modem
  <2>1. UNCHANGED <<aiding_data_for_deletion, owed>>
    BY <1>0, <1>4, Reporting
  <2>2. ~crashed
    BY <1>4 DEF Modem, fix, tellSession, tellEngine, networkSession, networkDone, engineCrash,
                engineBack, recovered
  <2>3. \/ queue' = queue
        \/ \E m \in Queued : m \notin Deletes /\ queue' = Append(queue, m)
    BY <1>0, <1>4, Reporting DEF Deletes, Kind
  <2> QED
    BY <1>0, <2>1, <2>2, <2>3, DeletesSent DEF Owing
<1>5. CASE UNCHANGED locEngVars
  BY <1>5 DEF Owing, locEngVars, engVars
<1> QED
  BY <1>1, <1>2, <1>3, <1>4, <1>5 DEF EngNext, EngFramework, Calls

-----------------------------------------------------------------------------
(* The invariant holds at first. *)
LEMMA InitInv == EngInit => IInv
<1> SUFFICES ASSUME EngInit PROVE IInv
  OBVIOUS
<1>1. /\ ~Has(queue, Wishes) /\ ~Has(queue, Unmutes) /\ ~Has(queue, Downs)
      /\ Followed(queue, Says(Begins), Unmutes) /\ Followed(queue, TurnsOn, TurnsOff)
  BY FirstQueue DEF EngInit
<1>2. TypeOK
  <2>1. mFixCriteria \in FixCriteria /\ remaining \in EngBounds /\ queue \in Seq(Queued)
    BY LimitsNat DEF EngInit, FixCriteria, Modes, Recurrences
  <2>2. gpsModem \in ModemStates
    BY <2>1 DEF EngInit, ModemStates
  <2> QED
    BY <2>1, <2>2 DEF EngInit, TypeOK, ModemStates
<1> QED
  BY <1>1, <1>2 DEF EngInit, IInv, Types, Session, Configuring, Restored, Muting, Deleting, Owing

(* The inductive invariant holds in every state. *)
THEOREM Invariance == EngSpec => []IInv
<1>1. IInv /\ [EngNext]_locEngVars => IInv'
  BY TypesInv, SessionInv, ConfiguringInv, RestoredInv, MutingInv, DeletingInv, OwingInv DEF IInv
<1> QED
  BY InitInv, <1>1, PTL DEF EngSpec

(* When all is handled nothing is on its way. *)
LEMMA NothingOnItsWay ==
    ASSUME Settled, NEW V, NEW W
    PROVE  ~Has(queue, W) /\ ~LastIn(queue, W, V) /\ ~InTurn(queue, V, W)
<1>1. ~Has(<<>>, W) /\ ~LastIn(<<>>, W, V)
  BY FirstQueue
<1> QED
  BY <1>1, InTurnHas DEF Settled

(* SessionIsWished, for any calls, positions and crashes: when the task    *)
(* has handled every message, the engine is in a session exactly if the    *)
(* framework wants one that has not ended.                                 *)
THEOREM SessionAsWished == EngSpec => []SessionIsWished
<1>1. IInv => SessionIsWished
  <2> SUFFICES ASSUME IInv, Settled, wish # "unknown"
               PROVE  mNavigating <=> wish = "yes" /\ outcome # "ended"
    BY DEF IInv, Types, SessionIsWished
  <2>1. ~LastIn(queue, Starts, Wishes) /\ ~LastIn(queue, Stops, Wishes)
    BY NothingOnItsWay
  <2> QED
    BY <2>1 DEF IInv, Session, Types, TypeOK
<1> QED
  BY <1>1, Invariance, PTL

(* ModemIsRestored, for any number of crashes, also while an earlier       *)
(* restart is on its way: in the end the modem is configured, and runs     *)
(* what the engine believes it runs.                                       *)
THEOREM RestoredAfterCrashes == EngSpec => []ModemIsRestored
<1>1. IInv => ModemIsRestored
  <2> SUFFICES ASSUME IInv, Settled
               PROVE  /\ gpsModem.configured
                      /\ mNavigating => gpsModem.running \/ gpsModem.finished \/ outcome = "offline"
                      /\ gpsModem.running => mNavigating \/ outcome = "ended"
    BY DEF ModemIsRestored
  <2>1. /\ ~Has(queue, Configures) /\ ~Has(queue, Ups)
        /\ gpsModem.at = "open" /\ ~gpsModem.rising
    BY NothingOnItsWay DEF Settled
  <2> QED
    BY <2>1 DEF IInv, Session, Configuring, Restored, Restarting
<1> QED
  BY <1>1, Invariance, PTL

(* MuteEndsWhenIdle: whatever reports, requests of the network and crashes *)
(* come, no mute is on when the modem runs neither the framework's session *)
(* nor the network's.                                                      *)
THEOREM MutesEnd == EngSpec => []MuteEndsWhenIdle
<1>1. IInv => MuteEndsWhenIdle
  <2> SUFFICES ASSUME IInv, Settled, mute_session_state = "in_session" PROVE Active
    BY DEF MuteEndsWhenIdle
  <2>1. ~Has(queue, Unmutes) /\ gpsModem.told = [session |-> Active, engine |-> Active]
    BY NothingOnItsWay DEF Settled
  <2> QED
    BY <2>1 DEF IInv, Muting
<1> QED
  BY <1>1, Invariance, PTL

(* DeletionsDone, for any kinds of data: as long as the modem does not     *)
(* crash, the last request to delete aiding data is carried out by the     *)
(* time the engine is off, and no data waits then.                         *)
THEOREM NothingLeftToDelete == EngSpec => []DeletionsDone
<1>1. IInv => DeletionsDone
  <2> SUFFICES ASSUME IInv, Settled, ~crashed, ~Active
               PROVE  aiding_data_for_deletion = {} /\ owed.last = {}
    BY DEF DeletionsDone
  <2>1. ~Has(queue, TurnsOff) /\ gpsModem.told = [session |-> Active, engine |-> Active]
    BY NothingOnItsWay DEF Settled
  <2>2. aiding_data_for_deletion = {}
    BY <2>1 DEF IInv, Deleting
  <2>3. \A d : ~LastIn(queue, DeletesOf(d), Deletes)
    BY NothingOnItsWay
  <2> QED
    BY <2>2, <2>3 DEF IInv, Owing
<1> QED
  BY <1>1, Invariance, PTL
=============================================================================
