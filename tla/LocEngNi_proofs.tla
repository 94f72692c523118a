-------------------------- MODULE LocEngNi_proofs --------------------------
(***************************************************************************)
(* Proofs about LocEngNi.  What the threads, the message task and a        *)
(* restart do to each other's requests rests on where a request can be: in *)
(* one session, in the hands of one thread, in one message, or answered,   *)
(* and in a session together with a thread only while that thread holds    *)
(* the session's lock.  A restart does not respect the lock, so that a     *)
(* request it frees can be freed again; who else frees a request is one.   *)
(***************************************************************************)
EXTENDS LocEngNi, FiniteSetTheorems, SequenceTheorems, TLAPS

TaskStates == [at : {"idle", "number", "spawn", "reset", "free", "forget", "wake"}, s : Sessions,
               p : Requests \cup {NoRequest}]
ThreadStates == [at : {"unborn", "wait", "taking", "closing", "clear", "send", "gone"},
                 s : Sessions, p : Requests \cup {NoRequest}, resp : Responses, of : Ids \cup {0}]
Informs == [p : Requests \cup {NoRequest}, resp : Responses \ {"IGNORE"}, of : Ids \cup {0}]

(* The type invariant, but for the bound on how often a request is freed   *)
(* and with the outbox as a sequence.                                      *)
Types ==
    /\ rawRequest \in [Sessions -> Requests \cup {NoRequest}]
    /\ reqID \in [Sessions -> Ids \cup {0}]
    /\ respRecvd \in [Sessions -> BOOLEAN]
    /\ resp \in [Sessions -> Responses]
    /\ task \in TaskStates
    /\ thread \in [Ids -> ThreadStates]
    /\ user \in [at : {"idle", "ignore", "answer"}, s : Sessions, id : Ids \cup {0},
                 resp : Responses]
    /\ outbox \in Seq(Informs)
    /\ informed \subseteq Informs
    /\ niRestarts \in 0..MaxRestarts
    /\ idOf \in [Requests -> Ids \cup {0}]
    /\ unanswered \subseteq Ids
    /\ respOf \in [Sessions -> Ids \cup {0}]
    /\ frees \in [Requests -> Nat]
    /\ dead \subseteq Requests
    /\ refusals \subseteq [s : Sessions, busy : SUBSET Sessions]
    /\ \A i \in Ids : thread[i].at = "send" => thread[i].resp # "IGNORE"

Numbered == {p \in Requests : idOf[p] # 0}

(* The counter counts the requests that have an id. *)
Numbers ==
    /\ reqIDCounter = Cardinality(Numbered)
    /\ \A p \in Requests : idOf[p] <= reqIDCounter
    /\ task.at \in {"number", "spawn"} => task.p \in Requests
    /\ task.at = "number" => idOf[task.p] = 0
    /\ task.at = "spawn" => idOf[task.p] # 0

(* Threads are born in the order of their ids. *)
Births ==
    /\ \A i \in Ids : i > reqIDCounter => thread[i].at = "unborn"
    /\ task.at = "spawn" =>
         /\ idOf[task.p] = reqIDCounter
         /\ \A i \in Ids : i = reqIDCounter => thread[i].at = "unborn"

(* Until a request has its id, an emergency in progress is that request. *)
Emergencies ==
    /\ EmergencyIsLater
    /\ task.at = "number" =>
         /\ rawRequest["sessionEs"] # NoRequest =>
              task.s = "sessionEs" /\ rawRequest["sessionEs"] = task.p
         /\ task.s = "sessionEs" => rawRequest["session"] # task.p

(* A request that was accepted. *)
Known(p) == idOf[p] # 0 \/ (task.at = "number" /\ task.p = p)

Holds(i) == thread[i].at \in {"taking", "closing"}
Takes(i, p) == thread[i].at \in {"closing", "send"} /\ thread[i].p = p
Sends(k, p) == k \in 1..Len(outbox) /\ outbox[k].p = p

(* tLock excludes. *)
Locks == \A i, j \in Ids : Holds(i) /\ Holds(j) /\ thread[i].s = thread[j].s => i = j

Places ==
    /\ \A p \in Requests, s \in Sessions : rawRequest[s] = p => Known(p)
    /\ \A p \in Requests : rawRequest["session"] = p => rawRequest["sessionEs"] # p
    /\ \A p \in Requests, i \in Ids : Takes(i, p) =>
         /\ Known(p)
         /\ \A j \in Ids : Takes(j, p) => i = j
         /\ \A k \in Nat : ~Sends(k, p)
         /\ \A m \in informed : m.p # p
         /\ \A s \in Sessions : rawRequest[s] = p => thread[i].at = "closing" /\ thread[i].s = s
    /\ \A p \in Requests, k \in Nat : Sends(k, p) =>
         /\ Known(p)
         /\ \A l \in Nat : Sends(l, p) => k = l
         /\ \A m \in informed : m.p # p
         /\ \A s \in Sessions : rawRequest[s] # p
    /\ \A m \in informed : m.p \in Requests =>
         /\ Known(m.p)
         /\ \A n \in informed : m.p = n.p => m = n
         /\ \A s \in Sessions : rawRequest[s] # m.p

(* What a restart freed is in a session only until it is forgotten. *)
Deads ==
    \A p \in dead :
        /\ Known(p)
        /\ \A s \in Sessions : rawRequest[s] = p => task.at = "forget" /\ task.s = s

(* Somebody other than a restart is still to free the request. *)
Open(p) ==
    \/ \E s \in Sessions : rawRequest[s] = p /\ \A i \in Ids : ~Takes(i, p)
    \/ \E i \in Ids : Takes(i, p) /\ thread[i].resp # "IGNORE"
    \/ \E k \in Nat : Sends(k, p)

(* A restart frees a request once, and whoever else lets go of it once. *)
Rest(p) == IF p \in dead THEN 1 ELSE 0

Frees ==
    \A p \in Requests :
        frees[p] <= Rest(p) + 1 /\ (Open(p) => frees[p] <= Rest(p))

(* Before the first restart no request is lost on its way. *)
Nulls ==
    niRestarts = 0 =>
        /\ task.at \notin {"reset", "free", "forget", "wake"}
        /\ \A i \in Ids :
              /\ thread[i].at = "taking" => rawRequest[thread[i].s] # NoRequest
              /\ thread[i].at \in {"closing", "send"} => thread[i].p # NoRequest
        /\ \A k \in Nat : ~Sends(k, NoRequest)
        /\ \A m \in informed : m.p # NoRequest

IInv == Types /\ Numbers /\ Births /\ Locks /\ Emergencies /\ Places /\ Deads /\ Frees /\ Nulls

-----------------------------------------------------------------------------
(* A step is one of these, or changes nothing ... *)
Step ==
    \/ \E s \in Sessions, p \in Requests : refuseRequest(s, p) \/ acceptRequest(s, p)
    \/ numberRequest \/ spawnThread
    \/ \E i \in Ids, r \in Responses, of \in Ids \cup {0} :
         thread[i].at = "wait" /\ takeAnswer(i, r, of)
    \/ \E i \in Ids : readRequest(i) \/ closeSession(i) \/ clearId(i)
    \/ informNiResponse \/ engineRestart \/ resetLook \/ resetFree \/ resetForget \/ resetWake
    \/ \E i \in Ids, r \in Answers : respond(i, r)
    \/ ignoreNormal \/ giveAnswer
    \/ UNCHANGED niVars

(* ... since a thread takes the user's answer or none. *)
LEMMA StepCases == Types /\ [NiNext]_niVars => Step
<1> USE DEF ThreadStates
<1> SUFFICES ASSUME Types, [NiNext]_niVars PROVE Step
  OBVIOUS
<1>1. ASSUME NEW i \in Ids, answered(i) PROVE Step
  <2>1. thread[i].s \in Sessions
    BY DEF Types
  <2>2. resp[thread[i].s] \in Responses /\ respOf[thread[i].s] \in Ids \cup {0}
    BY <2>1 DEF Types
  <2> QED BY <1>1, <2>2 DEF answered, Step
<1>2. ASSUME NEW i \in Ids, timedOut(i) PROVE Step
  <2>1. "NORESP" \in Responses /\ 0 \in Ids \cup {0}
    BY DEF Responses
  <2> QED BY <1>2, <2>1 DEF timedOut, Step
<1> QED
  BY <1>1, <1>2 DEF NiNext, Modem, NiMsgTask, Framework, NiThread, Step

(* Nobody has asked for anything yet. *)
LEMMA InitInv == NiInit => IInv
<1> USE DEF ThreadStates, TaskStates
<1> SUFFICES ASSUME NiInit PROVE IInv
  OBVIOUS
<1>1. <<>> \in Seq(Informs) /\ Len(<<>>) = 0
  BY EmptySeq
<1>2. Types
  BY <1>1, RestartsNat, RequestsFinite DEF NiInit, Types, Idle, NoAnswer, Unborn, Sessions, Responses, Answers
<1>3. Numbers
  <2>1. Numbered = {} /\ Cardinality({}) = 0
    BY FS_EmptySet DEF NiInit, Numbered
  <2> QED BY <2>1 DEF NiInit, Numbers, Idle
<1>4. Emergencies
  BY DEF NiInit, Emergencies, EmergencyIsLater, Idle, Sessions
<1>5. Places /\ Locks
  BY <1>1, RequestsFinite DEF NiInit, Places, Sessions, Takes, Sends, Unborn, Locks, Holds
<1>6. Frees
  BY <1>1, RequestsFinite DEF NiInit, Frees, Rest, Open, Sessions, Takes, Sends, Unborn
<1>7. Births /\ Deads
  BY DEF NiInit, Births, Deads, Idle, Unborn
<1>8. Nulls
  BY <1>1 DEF NiInit, Nulls, Idle, Unborn, Sends
<1> QED
  BY <1>2, <1>3, <1>4, <1>5, <1>6, <1>7, <1>8 DEF IInv

(* What is left of a record when only the place in the code changes. *)
ThreadAt(t, a) == [at |-> a, s |-> t.s, p |-> t.p, resp |-> t.resp, of |-> t.of]
TaskAt(a) == [at |-> a, s |-> task.s, p |-> task.p]

(* The steps of a thread that keep all but its place, or but the request. *)
LEMMA ThreadMoves ==
    ASSUME Types, NEW i \in Ids
    PROVE  /\ readRequest(i) =>
                thread' = [thread EXCEPT ![i] = [at |-> "closing", s |-> thread[i].s,
                             p |-> rawRequest[thread[i].s], resp |-> thread[i].resp,
                             of |-> thread[i].of]]
           /\ closeSession(i) => thread' = [thread EXCEPT ![i] =
                ThreadAt(thread[i], IF thread[i].resp = "IGNORE" THEN "clear" ELSE "send")]
           /\ clearId(i) => thread' = [thread EXCEPT ![i] = ThreadAt(thread[i], "gone")]
<1>1. ASSUME NEW t \in ThreadStates, NEW a
      PROVE  [t EXCEPT !.at = a] = ThreadAt(t, a)
  BY DEF ThreadStates, ThreadAt
<1>3. thread[i] \in ThreadStates
  BY DEF Types
<1>4. closeSession(i) => thread' = [thread EXCEPT ![i] =
                ThreadAt(thread[i], IF thread[i].resp = "IGNORE" THEN "clear" ELSE "send")]
  BY <1>1, <1>3 DEF closeSession
<1>5. clearId(i) => thread' = [thread EXCEPT ![i] = ThreadAt(thread[i], "gone")]
  BY <1>1, <1>3 DEF clearId
<1>6. ASSUME readRequest(i)
      PROVE  thread' = [thread EXCEPT ![i] = [at |-> "closing", s |-> thread[i].s,
                             p |-> rawRequest[thread[i].s], resp |-> thread[i].resp,
                             of |-> thread[i].of]]
  BY <1>6 DEF readRequest
<1> QED
  BY <1>4, <1>5, <1>6

(* Only one thread moves at a time. *)
LEMMA OneMoves ==
    ASSUME Types, NEW i \in Ids, NEW t \in ThreadStates, thread' = [thread EXCEPT ![i] = t]
    PROVE  /\ thread' \in [Ids -> ThreadStates]
           /\ thread'[i] = t /\ \A j \in Ids : j # i => thread'[j] = thread[j]
<1>1. thread \in [Ids -> ThreadStates]
  BY DEF Types
<1> QED BY <1>1

(* The steps of the message task that keep all but its place. *)
LEMMA TaskMoves ==
    ASSUME Types
    PROVE  /\ numberRequest => task' = TaskAt("spawn")
           /\ resetLook /\ rawRequest[task.s] # NoRequest => task' = TaskAt("free")
           /\ resetFree => task' = TaskAt("forget")
           /\ resetForget => task' = TaskAt("wake")
<1>1. ASSUME NEW t \in TaskStates, NEW a
      PROVE  [t EXCEPT !.at = a] = [at |-> a, s |-> t.s, p |-> t.p]
  BY DEF TaskStates
<1>2. task \in TaskStates
  BY DEF Types
<1> QED
  BY <1>1, <1>2 DEF numberRequest, resetLook, resetFree, resetForget, TaskAt

-----------------------------------------------------------------------------
(* There is an id left for a request that has none. *)
LEMMA IdLeft ==
    ASSUME Types, Numbers, task.at = "number"
    PROVE  reqIDCounter \in Nat /\ reqIDCounter + 1 \in Ids
<1>1. task.p \in Requests /\ task.p \notin Numbered
  BY DEF Numbers, Numbered
<1>2. IsFiniteSet(Numbered) /\ Cardinality(Numbered) \in Nat
  BY RequestsFinite, FS_Subset, FS_CardinalityType DEF Numbered
<1>3. /\ Cardinality(Numbered \cup {task.p}) = Cardinality(Numbered) + 1
      /\ IsFiniteSet(Numbered \cup {task.p})
  BY <1>1, <1>2, FS_AddElement
<1>4. Cardinality(Numbered \cup {task.p}) <= Cardinality(Requests)
  <2>1. Numbered \cup {task.p} \subseteq Requests
    BY <1>1 DEF Numbered
  <2> QED BY <2>1, RequestsFinite, FS_Subset
<1>5. Cardinality(Requests) \in Nat
  BY RequestsFinite, FS_CardinalityType
<1> QED
  BY <1>2, <1>3, <1>4, <1>5 DEF Numbers, Ids

(* The types are kept. *)
LEMMA TypesStep == ASSUME IInv, Step PROVE Types'
<1> USE DEF Sessions, Idle, NoAnswer, ThreadStates, TaskStates
<1>0. Types /\ Numbers /\ Births
  BY DEF IInv
<1>1. ASSUME NEW s \in Sessions, NEW p \in Requests, refuseRequest(s, p) PROVE Types'
  <2>1. frees' \in [Requests -> Nat]
    BY <1>0, <1>1 DEF Types, refuseRequest, Free
  <2>2. refusals' \subseteq [s : Sessions, busy : SUBSET Sessions]
    BY <1>0, <1>1 DEF Types, refuseRequest
  <2> QED BY <1>0, <1>1, <2>1, <2>2 DEF Types, refuseRequest, sessionVars
<1>2. ASSUME NEW s \in Sessions, NEW p \in Requests, acceptRequest(s, p) PROVE Types'
  BY <1>0, <1>2 DEF Types, acceptRequest
<1>3. CASE numberRequest
  <2>1. task.s \in Sessions /\ task.p \in Requests /\ reqIDCounter + 1 \in Ids
    BY <1>0, <1>3, IdLeft DEF Types, Numbers, numberRequest
  <2> QED BY <1>0, <1>3, <2>1 DEF Types, numberRequest
<1>4. CASE spawnThread
  <2>1. task.s \in Sessions /\ task.p \in Requests /\ idOf[task.p] \in Ids
    BY <1>0, <1>4 DEF Types, Numbers, spawnThread
  <2>2. thread' \in [Ids -> ThreadStates] /\ \A j \in Ids : thread'[j].at = "send" => thread'[j].resp # "IGNORE"
    <3>1. PICK a \in {"wait", "gone"} : thread' = [thread EXCEPT ![idOf[task.p]] =
                       [at |-> a, s |-> task.s, p |-> NoRequest, resp |-> "unset", of |-> 0]]
      BY <1>4 DEF spawnThread
    <3> PICK t : t = [at |-> a, s |-> task.s, p |-> NoRequest, resp |-> "unset", of |-> 0]
      OBVIOUS
    <3>2. t \in ThreadStates /\ t.at # "send"
      BY <2>1 DEF Responses
    <3>3. /\ thread' \in [Ids -> ThreadStates] /\ thread'[idOf[task.p]] = t
          /\ \A j \in Ids : j # idOf[task.p] => thread'[j] = thread[j]
      BY <1>0, <2>1, <3>1, <3>2, OneMoves
    <3> QED BY <1>0, <3>2, <3>3 DEF Types
  <2> QED BY <1>0, <1>4, <2>1, <2>2 DEF Types, spawnThread, sessionVars
<1>5. ASSUME NEW i \in Ids, NEW r \in Responses, NEW of \in Ids \cup {0}, takeAnswer(i, r, of)
      PROVE  Types'
  <2>1. thread[i].s \in Sessions /\ rawRequest[thread[i].s] \in Requests \cup {NoRequest}
    BY <1>0 DEF Types
  <2>2. thread' \in [Ids -> ThreadStates] /\ \A j \in Ids : thread'[j].at = "send" => thread'[j].resp # "IGNORE"
    <3> PICK a \in {"clear", "taking"} :
          a = IF rawRequest[thread[i].s] = NoRequest THEN "clear" ELSE "taking"
      OBVIOUS
    <3> PICK t : t = [at |-> a, s |-> thread[i].s, p |-> NoRequest, resp |-> r, of |-> of]
      OBVIOUS
    <3>1. t \in ThreadStates /\ t.at # "send" /\ thread' = [thread EXCEPT ![i] = t]
      BY <1>5, <2>1 DEF takeAnswer
    <3>2. /\ thread' \in [Ids -> ThreadStates] /\ thread'[i] = t
          /\ \A j \in Ids : j # i => thread'[j] = thread[j]
      BY <1>0, <3>1, OneMoves
    <3> QED BY <1>0, <3>1, <3>2 DEF Types
  <2> QED BY <1>0, <1>5, <2>1, <2>2 DEF Types, takeAnswer
<1>17. ASSUME NEW i \in Ids, readRequest(i) PROVE Types'
  <2>1. /\ thread[i].s \in Sessions /\ rawRequest[thread[i].s] \in Requests \cup {NoRequest}
        /\ thread[i].resp \in Responses /\ thread[i].of \in Ids \cup {0}
    BY <1>0 DEF Types
  <2>2. thread' \in [Ids -> ThreadStates] /\ \A j \in Ids : thread'[j].at = "send" => thread'[j].resp # "IGNORE"
    <3> PICK t : t = [at |-> "closing", s |-> thread[i].s, p |-> rawRequest[thread[i].s],
                      resp |-> thread[i].resp, of |-> thread[i].of]
      OBVIOUS
    <3>1. t \in ThreadStates /\ t.at # "send"
      BY <2>1
    <3>2. thread' = [thread EXCEPT ![i] = t]
      BY <1>0, <1>17, ThreadMoves
    <3>3. /\ thread' \in [Ids -> ThreadStates] /\ thread'[i] = t
          /\ \A j \in Ids : j # i => thread'[j] = thread[j]
      BY <1>0, <3>1, <3>2, OneMoves
    <3> QED BY <1>0, <3>1, <3>3 DEF Types
  <2>3. frees' \in [Requests -> Nat]
    <3>1. CASE thread[i].resp = "IGNORE"
      <4> PICK p : p = rawRequest[thread[i].s]
        OBVIOUS
      <4>1. Free(p)
        BY <1>17, <3>1 DEF readRequest
      <4> QED BY <1>0, <4>1 DEF Types, Free
    <3>2. CASE thread[i].resp # "IGNORE"
      BY <1>0, <1>17, <3>2 DEF readRequest, Types
    <3> QED BY <3>1, <3>2
  <2> QED BY <1>0, <1>17, <2>2, <2>3 DEF Types, readRequest, sessionVars
<1>6. ASSUME NEW i \in Ids, closeSession(i) PROVE Types'
  <2>1. thread[i].s \in Sessions /\ thread[i].p \in Requests \cup {NoRequest}
        /\ thread[i].resp \in Responses /\ thread[i].of \in Ids \cup {0}
    BY <1>0 DEF Types
  <2>2. thread' \in [Ids -> ThreadStates] /\ \A j \in Ids : thread'[j].at = "send" => thread'[j].resp # "IGNORE"
    <3> PICK a \in {"clear", "send"} : a = IF thread[i].resp = "IGNORE" THEN "clear" ELSE "send"
      OBVIOUS
    <3> PICK t : t = ThreadAt(thread[i], a)
      OBVIOUS
    <3>1. t \in ThreadStates /\ (t.at = "send" => t.resp # "IGNORE")
      BY <2>1 DEF ThreadAt
    <3>2. thread' = [thread EXCEPT ![i] = t]
      BY <1>0, <1>6, ThreadMoves
    <3>3. /\ thread' \in [Ids -> ThreadStates] /\ thread'[i] = t
          /\ \A j \in Ids : j # i => thread'[j] = thread[j]
      BY <1>0, <3>1, <3>2, OneMoves
    <3> QED BY <1>0, <3>1, <3>3 DEF Types
  <2>3. rawRequest' \in [Sessions -> Requests \cup {NoRequest}]
    BY <1>0, <1>6, <2>1 DEF Types, closeSession
  <2> QED BY <1>0, <1>6, <2>2, <2>3 DEF Types, closeSession
<1>7. ASSUME NEW i \in Ids, clearId(i) PROVE Types'
  <2>1. thread[i].s \in Sessions /\ thread[i].p \in Requests \cup {NoRequest}
        /\ thread[i].resp \in Responses /\ thread[i].of \in Ids \cup {0}
    BY <1>0 DEF Types
  <2>2. thread' \in [Ids -> ThreadStates] /\ \A j \in Ids : thread'[j].at = "send" => thread'[j].resp # "IGNORE"
    <3> PICK t : t = ThreadAt(thread[i], "gone")
      OBVIOUS
    <3>1. t \in ThreadStates /\ t.at # "send"
      BY <2>1 DEF ThreadAt
    <3>2. thread' = [thread EXCEPT ![i] = t]
      BY <1>0, <1>7, ThreadMoves
    <3>3. /\ thread' \in [Ids -> ThreadStates] /\ thread'[i] = t
          /\ \A j \in Ids : j # i => thread'[j] = thread[j]
      BY <1>0, <3>1, <3>2, OneMoves
    <3> QED BY <1>0, <3>1, <3>3 DEF Types
  <2>3. outbox' \in Seq(Informs)
    <3>1. CASE thread[i].at = "send"
      <4>1. [p |-> thread[i].p, resp |-> thread[i].resp, of |-> thread[i].of] \in Informs
        BY <1>0, <2>1, <3>1 DEF Informs, Types
      <4>2. outbox' = Append(outbox, [p |-> thread[i].p, resp |-> thread[i].resp, of |-> thread[i].of])
        BY <1>7, <3>1 DEF clearId
      <4>3. outbox \in Seq(Informs)
        BY <1>0 DEF Types
      <4> QED BY <4>1, <4>2, <4>3, AppendProperties
    <3>2. CASE thread[i].at # "send"
      BY <1>0, <1>7, <3>2 DEF clearId, Types
    <3> QED BY <3>1, <3>2
  <2>4. reqID' \in [Sessions -> Ids \cup {0}]
    BY <1>0, <1>7, <2>1 DEF Types, clearId
  <2> QED BY <1>0, <1>7, <2>2, <2>3, <2>4 DEF Types, clearId
<1>8. CASE informNiResponse
  <2>1. outbox' \in Seq(Informs) /\ Head(outbox) \in Informs
    BY <1>0, <1>8, HeadTailProperties DEF Types, informNiResponse
  <2>2. informed' \subseteq Informs /\ frees' \in [Requests -> Nat]
    BY <1>0, <1>8, <2>1 DEF Types, informNiResponse, Free
  <2> QED BY <1>0, <1>8, <2>1, <2>2 DEF Types, informNiResponse, sessionVars
<1>9. CASE engineRestart
  BY <1>0, <1>9, RestartsNat DEF Types, engineRestart, sessionVars
<1>18. CASE resetLook
  <2>1. task' \in TaskStates
    BY <1>0, <1>18 DEF Types, resetLook, AfterReset
  <2> QED BY <1>0, <1>18, <2>1 DEF Types, resetLook, sessionVars
<1>10. CASE resetFree
  <2>1. task.s \in Sessions /\ rawRequest[task.s] \in Requests \cup {NoRequest}
    BY <1>0 DEF Types
  <2>2. task' \in TaskStates
    BY <1>0, <1>10 DEF Types, resetFree
  <2>3. frees' \in [Requests -> Nat] /\ dead' \subseteq Requests
    BY <1>0, <1>10, <2>1 DEF Types, resetFree, Free
  <2> QED BY <1>0, <1>10, <2>2, <2>3 DEF Types, resetFree, sessionVars
<1>11. CASE resetForget
  <2>1. task.s \in Sessions
    BY <1>0 DEF Types
  <2> QED BY <1>0, <1>11, <2>1 DEF Types, resetForget
<1>12. CASE resetWake
  BY <1>0, <1>12 DEF Types, resetWake, AfterReset
<1>13. ASSUME NEW id \in Ids, NEW r \in Answers, respond(id, r) PROVE Types'
  <2>1. user' \in [at : {"idle", "ignore", "answer"}, s : Sessions, id : Ids \cup {0},
                   resp : Responses]
    BY <1>0, <1>13 DEF Types, respond, Responses
  <2> QED BY <1>0, <1>13, <2>1 DEF Types, respond, sessionVars
<1>14. CASE ignoreNormal
  BY <1>0, <1>14 DEF Types, ignoreNormal, Responses
<1>15. CASE giveAnswer
  BY <1>0, <1>15 DEF Types, giveAnswer, Responses
<1>16. CASE UNCHANGED niVars
  BY <1>0, <1>16 DEF Types, niVars, sessionVars
<1> QED
  BY <1>1, <1>2, <1>3, <1>4, <1>5, <1>6, <1>17, <1>7, <1>8, <1>9, <1>10, <1>18, <1>11, <1>12,
     <1>13, <1>14, <1>15, <1>16 DEF Step

(* Every id that is given out is new. *)
LEMMA NumbersStep == ASSUME IInv, Step, Types' PROVE Numbers'
<1> USE DEF TaskStates
<1>0. Types /\ Numbers
  BY DEF IInv
<1>1. ASSUME UNCHANGED <<reqIDCounter, idOf>>,
             task'.at \in {"number", "spawn"} => task' = task
      PROVE  Numbers'
  <2>1. Numbered' = Numbered
    BY <1>1 DEF Numbered
  <2> QED BY <1>0, <1>1, <2>1 DEF Numbers
<1>2. ASSUME NEW s \in Sessions, NEW p \in Requests, acceptRequest(s, p) PROVE Numbers'
  <2>1. Numbered' = Numbered
    BY <1>2 DEF Numbered, acceptRequest
  <2> QED BY <1>0, <1>2, <2>1 DEF Numbers, acceptRequest, New
<1>3. CASE numberRequest
  <2>1. /\ task.p \in Requests /\ idOf[task.p] = 0 /\ task'.p = task.p /\ task'.at = "spawn"
        /\ reqIDCounter \in Nat /\ reqIDCounter' = reqIDCounter + 1
        /\ idOf' = [idOf EXCEPT ![task.p] = reqIDCounter + 1]
    BY <1>0, <1>3, IdLeft DEF Types, Numbers, numberRequest
  <2>2. idOf \in [Requests -> Nat]
    BY <1>0 DEF Types, Ids
  <2>3. Numbered' = Numbered \cup {task.p} /\ task.p \notin Numbered
    BY <2>1, <2>2 DEF Numbered
  <2>4. IsFiniteSet(Numbered)
    BY RequestsFinite, FS_Subset DEF Numbered
  <2>5. reqIDCounter' = Cardinality(Numbered')
    BY <1>0, <2>1, <2>3, <2>4, FS_AddElement DEF Numbers
  <2>6. \A p \in Requests : idOf'[p] <= reqIDCounter'
    BY <1>0, <2>1, <2>2 DEF Numbers
  <2> QED BY <2>1, <2>2, <2>5, <2>6 DEF Numbers
<1>4. CASE spawnThread
  BY <1>1, <1>4 DEF spawnThread, sessionVars, Idle
<1>5. CASE resetLook \/ resetFree
  <2>1. task'.at \in {"idle", "reset", "free", "forget"}
    BY <1>0, <1>5 DEF Types, resetLook, resetFree, AfterReset, Idle
  <2> QED BY <1>1, <1>5, <2>1 DEF resetLook, resetFree
<1>6. CASE resetForget \/ resetWake \/ engineRestart
  <2>1. task'.at \in {"idle", "reset", "wake"}
    BY <1>0, <1>6 DEF Types, resetForget, resetWake, engineRestart, AfterReset, Idle
  <2> QED BY <1>1, <1>6, <2>1 DEF resetForget, resetWake, engineRestart
<1>7. CASE UNCHANGED task /\ UNCHANGED <<reqIDCounter, idOf>>
  BY <1>1, <1>7
<1> QED
  BY <1>2, <1>3, <1>4, <1>5, <1>6, <1>7 DEF Step, refuseRequest, takeAnswer, readRequest, closeSession,
     clearId, informNiResponse, respond, ignoreNormal, giveAnswer, niVars

(* A thread that does something was born. *)
LEMMA BirthsStep == ASSUME IInv, Step PROVE Births'
<1> USE DEF TaskStates
<1>0. Types /\ Numbers /\ Births /\ reqIDCounter \in Nat
  <2>1. Numbered \subseteq Requests
    BY DEF Numbered
  <2> QED BY <2>1, RequestsFinite, FS_Subset, FS_CardinalityType DEF IInv, Numbers
<1>1. ASSUME UNCHANGED <<reqIDCounter, idOf>>, task'.at = "spawn" => task' = task,
             \A i \in Ids : thread[i].at = "unborn" => thread'[i] = thread[i]
      PROVE  Births'
  BY <1>0, <1>1 DEF Births
<1>2. ASSUME NEW i \in Ids, NEW t \in ThreadStates, thread' = [thread EXCEPT ![i] = t],
             thread[i].at # "unborn", UNCHANGED <<reqIDCounter, idOf, task>>
      PROVE  Births'
  BY <1>0, <1>1, <1>2, OneMoves
<1>3. CASE numberRequest
  <2>1. /\ reqIDCounter + 1 \in Ids /\ thread' = thread /\ reqIDCounter' = reqIDCounter + 1
        /\ idOf'[task.p] = reqIDCounter + 1 /\ task'.p = task.p
    BY <1>0, <1>3, IdLeft, TaskMoves DEF Types, Numbers, numberRequest, TaskAt
  <2>2. \A i \in Ids : i \in Nat
    BY DEF Ids
  <2> QED BY <1>0, <2>1, <2>2 DEF Births
<1>4. CASE spawnThread
  <2>1. /\ idOf[task.p] = reqIDCounter /\ idOf[task.p] \in Ids /\ task'.at = "idle"
        /\ reqIDCounter' = reqIDCounter
    BY <1>0, <1>4 DEF spawnThread, Births, Numbers, Types, Idle
  <2>2. PICK a \in {"wait", "gone"} : thread' = [thread EXCEPT ![idOf[task.p]] =
                     [at |-> a, s |-> task.s, p |-> NoRequest, resp |-> "unset", of |-> 0]]
    BY <1>4 DEF spawnThread
  <2>3. \A i \in Ids : i > reqIDCounter => thread'[i] = thread[i]
    BY <1>0, <2>1, <2>2 DEF Types
  <2> QED BY <1>0, <2>1, <2>3 DEF Births
<1>5. ASSUME NEW i \in Ids, NEW r \in Responses, NEW of \in Ids \cup {0},
             thread[i].at = "wait", takeAnswer(i, r, of)
      PROVE  Births'
  <2>1. \A j \in Ids : j # i => thread'[j] = thread[j]
    BY <1>0, <1>5 DEF takeAnswer, Types
  <2> QED BY <1>1, <1>5, <2>1 DEF takeAnswer
<1>6. ASSUME NEW i \in Ids, readRequest(i) PROVE Births'
  <2>1. \A j \in Ids : j # i => thread'[j] = thread[j]
    BY <1>0, <1>6 DEF readRequest, Types
  <2> QED BY <1>1, <1>6, <2>1 DEF readRequest
<1>7. ASSUME NEW i \in Ids, closeSession(i) \/ clearId(i) PROVE Births'
  <2>1. \A j \in Ids : j # i => thread'[j] = thread[j]
    BY <1>0, <1>7 DEF closeSession, clearId, Types
  <2> QED BY <1>1, <1>7, <2>1 DEF closeSession, clearId
<1>8. CASE resetLook \/ resetFree \/ resetForget \/ resetWake \/ engineRestart
  <2>1. task'.at # "spawn" /\ UNCHANGED <<reqIDCounter, idOf, thread>>
    BY <1>0, <1>8, TaskMoves DEF resetLook, resetFree, resetForget, resetWake, engineRestart,
       AfterReset, Idle, TaskAt
  <2> QED BY <1>1, <2>1
<1>9. ASSUME NEW q \in Sessions, NEW p \in Requests, acceptRequest(q, p) PROVE Births'
  BY <1>1, <1>9 DEF acceptRequest
<1>10. CASE UNCHANGED <<task, reqIDCounter, idOf, thread>>
  BY <1>1, <1>10
<1> QED
  BY <1>3, <1>4, <1>5, <1>6, <1>7, <1>8, <1>9, <1>10 DEF Step, refuseRequest, informNiResponse,
     respond, ignoreNormal, giveAnswer, niVars, sessionVars

(* A thread takes a session's lock when no other has it. *)
LEMMA LocksStep == ASSUME IInv, Step PROVE Locks'
<1> USE DEF TaskStates
<1>0. Types /\ Locks
  BY DEF IInv
<1>1. ASSUME \A i \in Ids : Holds(i)' => Holds(i) /\ thread'[i].s = thread[i].s
      PROVE  Locks'
  BY <1>0, <1>1 DEF Locks
<1>2. CASE spawnThread
  <2>1. idOf[task.p] \in Ids
    BY <1>2 DEF IInv, Types, Numbers, spawnThread
  <2>2. PICK a \in {"wait", "gone"} : thread' = [thread EXCEPT ![idOf[task.p]] =
                     [at |-> a, s |-> task.s, p |-> NoRequest, resp |-> "unset", of |-> 0]]
    BY <1>2 DEF spawnThread
  <2>3. \A i \in Ids : Holds(i)' => thread'[i] = thread[i]
    BY <1>0, <2>1, <2>2 DEF Types, Holds
  <2> QED BY <1>1, <2>3 DEF Holds
<1>3. ASSUME NEW i \in Ids, NEW r \in Responses, NEW of \in Ids \cup {0},
             thread[i].at = "wait", takeAnswer(i, r, of)
      PROVE  Locks'
  <2>1. ~Locked(thread[i].s) /\ thread'[i].s = thread[i].s
        /\ \A j \in Ids : j # i => thread'[j] = thread[j]
    BY <1>0, <1>3 DEF takeAnswer, Types
  <2>2. \A j \in Ids : j # i /\ Holds(j)' => thread'[j].s # thread'[i].s
    BY <2>1 DEF Locked, Holds
  <2> QED BY <1>0, <2>1, <2>2 DEF Locks, Holds
<1>4. ASSUME NEW i \in Ids, readRequest(i) PROVE Locks'
  <2>1. thread[i].at = "taking" /\ thread'[i].s = thread[i].s
        /\ \A j \in Ids : j # i => thread'[j] = thread[j]
    BY <1>0, <1>4 DEF readRequest, Types
  <2> QED BY <1>1, <2>1 DEF Holds
<1>5. ASSUME NEW i \in Ids, closeSession(i) PROVE Locks'
  <2>1. thread'[i].at \in {"clear", "send"} /\ \A j \in Ids : j # i => thread'[j] = thread[j]
    BY <1>0, <1>5 DEF closeSession, Types, ThreadStates
  <2> QED BY <1>1, <2>1 DEF Holds
<1>6. ASSUME NEW i \in Ids, clearId(i) PROVE Locks'
  <2>1. thread'[i].at = "gone" /\ \A j \in Ids : j # i => thread'[j] = thread[j]
    BY <1>0, <1>6 DEF clearId, Types, ThreadStates
  <2> QED BY <1>1, <2>1 DEF Holds
<1>7. CASE thread' = thread
  BY <1>1, <1>7 DEF Holds
<1> QED
  BY <1>2, <1>3, <1>4, <1>5, <1>6, <1>7 DEF Step, refuseRequest, acceptRequest, numberRequest,
     informNiResponse, engineRestart, resetLook, resetFree, resetForget, resetWake, respond,
     ignoreNormal, giveAnswer, niVars, sessionVars

(* No request is in a session while a later emergency is in progress that  *)
(* has no id yet, and none is accepted during an emergency.                *)
LEMMA EmergenciesStep == ASSUME IInv, Step, Types' PROVE Emergencies'
<1> USE DEF TaskStates
<1>0. Types /\ Numbers /\ Emergencies
  BY DEF IInv
<1>1. ASSUME UNCHANGED <<idOf, refusals>>, task'.at = "number" => task' = task,
             \A s \in Sessions : rawRequest'[s] \in {rawRequest[s], NoRequest}
      PROVE  Emergencies'
  <2>1. /\ rawRequest'["session"] \in {rawRequest["session"], NoRequest}
        /\ rawRequest'["sessionEs"] \in {rawRequest["sessionEs"], NoRequest}
    BY <1>1 DEF Sessions
  <2>2. task.at = "number" => task.p # NoRequest
    BY <1>0, RequestsFinite DEF Numbers
  <2>3. EmergencyIsLater'
    BY <1>0, <1>1, <2>1 DEF Emergencies, EmergencyIsLater
  <2> QED BY <1>0, <1>1, <2>1, <2>2, <2>3 DEF Emergencies
<1>2. ASSUME NEW s \in Sessions, NEW p \in Requests, acceptRequest(s, p) PROVE Emergencies'
  <2>1. /\ rawRequest["sessionEs"] = NoRequest /\ \A x \in Sessions : rawRequest[x] # p
        /\ idOf[p] = 0 /\ idOf' = idOf /\ p # NoRequest /\ refusals' = refusals
        /\ task' = [at |-> "number", s |-> s, p |-> p]
        /\ rawRequest' = [rawRequest EXCEPT ![s] = p]
    BY <1>2, RequestsFinite DEF acceptRequest, New, Busy
  <2>2. rawRequest'[s] = p /\ \A x \in Sessions : x # s => rawRequest'[x] = rawRequest[x]
    BY <1>0, <2>1 DEF Types
  <2>3. CASE s = "session"
    BY <1>0, <2>1, <2>2, <2>3 DEF Emergencies, EmergencyIsLater, Sessions
  <2>4. CASE s = "sessionEs"
    BY <1>0, <2>1, <2>2, <2>4 DEF Emergencies, EmergencyIsLater, Sessions
  <2> QED BY <2>3, <2>4 DEF Sessions
<1>3. CASE numberRequest
  <2>1. /\ task.p \in Requests /\ rawRequest' = rawRequest /\ task'.at = "spawn"
        /\ idOf' = [idOf EXCEPT ![task.p] = reqIDCounter + 1] /\ task.at = "number"
        /\ refusals' = refusals
    BY <1>0, <1>3, TaskMoves DEF Numbers, numberRequest, TaskAt
  <2>2. idOf \in [Requests -> Nat] /\ reqIDCounter \in Nat
    BY <1>0, <1>3, IdLeft DEF Types, Ids, numberRequest
  <2>3. ASSUME rawRequest["session"] # NoRequest, rawRequest["sessionEs"] # NoRequest
        PROVE  idOf'[rawRequest["sessionEs"]] > idOf'[rawRequest["session"]]
    <3>1. task.s = "sessionEs" /\ rawRequest["sessionEs"] = task.p /\ rawRequest["session"] # task.p
      BY <1>0, <2>1, <2>3 DEF Emergencies
    <3>2. rawRequest["session"] \in Requests
      BY <1>0, <2>3 DEF Types, Sessions
    <3>3. idOf[rawRequest["session"]] <= reqIDCounter
      BY <1>0, <3>2 DEF Numbers
    <3> QED BY <2>1, <2>2, <3>1, <3>2, <3>3
  <2> QED BY <1>0, <2>1, <2>3 DEF Emergencies, EmergencyIsLater
<1>4. CASE spawnThread
  BY <1>1, <1>4 DEF spawnThread, sessionVars, Idle
<1>5. CASE resetLook \/ resetFree
  BY <1>0, <1>1, <1>5, TaskMoves DEF resetLook, resetFree, sessionVars, TaskAt, AfterReset, Idle
<1>6. CASE resetForget
  <2>1. task'.at = "wake" /\ task.s \in Sessions
    BY <1>0, <1>6, TaskMoves DEF TaskAt, Types
  <2> QED BY <1>0, <1>1, <1>6, <2>1 DEF resetForget, Types
<1>7. CASE resetWake \/ engineRestart
  BY <1>1, <1>7 DEF resetWake, engineRestart, sessionVars, AfterReset, Idle
<1>8. ASSUME NEW i \in Ids, closeSession(i) PROVE Emergencies'
  <2>1. thread[i].s \in Sessions
    BY <1>0 DEF Types, ThreadStates
  <2>2. \A s \in Sessions : rawRequest'[s] \in {rawRequest[s], NoRequest}
    BY <1>0, <1>8, <2>1 DEF closeSession, Types
  <2> QED BY <1>1, <1>8, <2>2 DEF closeSession
<1>9. CASE UNCHANGED <<idOf, task, rawRequest, refusals>>
  BY <1>1, <1>9
<1>10. ASSUME NEW s \in Sessions, NEW p \in Requests, refuseRequest(s, p) PROVE Emergencies'
  <2>1. /\ UNCHANGED <<rawRequest, task, idOf>> /\ Busy(s)
        /\ refusals' = refusals \cup {[s |-> s, busy |-> {t \in Sessions : rawRequest[t] # NoRequest}]}
    BY <1>10 DEF refuseRequest, sessionVars
  <2>2. s = "sessionEs" => "sessionEs" \in {t \in Sessions : rawRequest[t] # NoRequest}
    BY <2>1 DEF Busy, Sessions
  <2> QED BY <1>0, <2>1, <2>2 DEF Emergencies, EmergencyIsLater
<1> QED
  BY <1>2, <1>3, <1>4, <1>5, <1>6, <1>7, <1>8, <1>9, <1>10 DEF Step, takeAnswer, readRequest, clearId,
     informNiResponse, respond, ignoreNormal, giveAnswer, niVars, sessionVars

-----------------------------------------------------------------------------
(* What was accepted stays accepted. *)
LEMMA KnownStays == ASSUME IInv, Step, NEW p \in Requests, Known(p) PROVE Known(p)'
<1>0. Types /\ Numbers
  BY DEF IInv
<1>1. CASE numberRequest
  <2>1. /\ reqIDCounter \in Nat /\ idOf \in [Requests -> Nat] /\ task.p \in Requests
        /\ idOf' = [idOf EXCEPT ![task.p] = reqIDCounter + 1]
    BY <1>0, <1>1, IdLeft DEF Types, Ids, Numbers, numberRequest
  <2> QED BY <2>1 DEF Known
<1>2. CASE idOf' = idOf /\ (task.at = "number" => task' = task)
  BY <1>2 DEF Known
<1> QED
  BY <1>1, <1>2 DEF Step, refuseRequest, acceptRequest, spawnThread, takeAnswer, readRequest,
     closeSession, clearId, informNiResponse, engineRestart, resetLook, resetFree, resetForget, resetWake, respond, ignoreNormal,
     giveAnswer, niVars, sessionVars

(* A request that is new is nowhere. *)
LEMMA NewIsNowhere ==
    ASSUME Places, NEW p \in Requests, ~Known(p)
    PROVE  /\ \A s \in Sessions : rawRequest[s] # p
           /\ \A i \in Ids : ~Takes(i, p)
           /\ \A k \in Nat : ~Sends(k, p)
           /\ \A m \in informed : m.p # p
  BY DEF Places

(* The places are kept by steps that take no request anywhere. *)
LEMMA Shrinks ==
    ASSUME Places, \A p \in Requests : Known(p) => Known(p)',
           UNCHANGED <<outbox, informed>>,
           \A s \in Sessions : rawRequest'[s] \in {rawRequest[s], NoRequest},
           \A i \in Ids, p \in Requests : Takes(i, p)' =>
             /\ Takes(i, p)
             /\ \A s \in Sessions :
                  rawRequest'[s] = p => thread'[i].at = "closing" /\ thread'[i].s = s
    PROVE  Places'
<1>0. /\ NoRequest \notin Requests
      /\ \A k, p : Sends(k, p)' <=> Sends(k, p)
  BY RequestsFinite DEF Sends
<1>1. \A p \in Requests, s \in Sessions : rawRequest'[s] = p => rawRequest[s] = p
  BY <1>0
<1>2. /\ \A p \in Requests, s \in Sessions : rawRequest'[s] = p => Known(p)'
      /\ \A p \in Requests : rawRequest'["session"] = p => rawRequest'["sessionEs"] # p
  BY <1>1 DEF Places, Sessions
<1>3. \A p \in Requests, i \in Ids : Takes(i, p)' =>
         /\ Known(p)'
         /\ \A j \in Ids : Takes(j, p)' => i = j
         /\ \A k \in Nat : ~Sends(k, p)'
         /\ \A m \in informed' : m.p # p
         /\ \A s \in Sessions : rawRequest'[s] = p => thread'[i].at = "closing" /\ thread'[i].s = s
  BY <1>0 DEF Places
<1>4. \A p \in Requests, k \in Nat : Sends(k, p)' =>
         /\ Known(p)'
         /\ \A l \in Nat : Sends(l, p)' => k = l
         /\ \A m \in informed' : m.p # p
         /\ \A s \in Sessions : rawRequest'[s] # p
  BY <1>0, <1>1 DEF Places
<1>5. \A m \in informed' : m.p \in Requests =>
         /\ Known(m.p)'
         /\ \A n \in informed' : m.p = n.p => m = n
         /\ \A s \in Sessions : rawRequest'[s] # m.p
  BY <1>0, <1>1 DEF Places
<1> QED
  BY <1>2, <1>3, <1>4, <1>5 DEF Places

(* A request that is accepted is new, so that it is only in its session. *)
LEMMA AcceptPlaces ==
    ASSUME IInv, NEW s \in Sessions, NEW p \in Requests, acceptRequest(s, p),
           \A q \in Requests : Known(q) => Known(q)'
    PROVE  Places'
<1>0. Types /\ Places
  BY DEF IInv
<1>1. /\ task.at = "idle" /\ idOf[p] = 0 /\ idOf' = idOf
      /\ task' = [at |-> "number", s |-> s, p |-> p]
      /\ rawRequest' = [rawRequest EXCEPT ![s] = p]
      /\ thread' = thread /\ outbox' = outbox /\ informed' = informed
  BY DEF acceptRequest, New
<1>2. ~Known(p) /\ Known(p)'
  BY <1>1 DEF Known
<1>3. rawRequest'[s] = p /\ \A x \in Sessions : x # s => rawRequest'[x] = rawRequest[x]
  BY <1>0, <1>1 DEF Types
<1>4. /\ \A k, q : Sends(k, q)' <=> Sends(k, q)
      /\ \A i, q : Takes(i, q)' <=> Takes(i, q)
  BY <1>0, <1>1 DEF Sends, Takes, Types
<1>5. /\ \A x \in Sessions : rawRequest[x] # p
      /\ \A i \in Ids : ~Takes(i, p)
      /\ \A k \in Nat : ~Sends(k, p)
      /\ \A m \in informed : m.p # p
  BY <1>0, <1>2, NewIsNowhere
<1>6. /\ \A q \in Requests, x \in Sessions : rawRequest'[x] = q => Known(q)'
      /\ \A q \in Requests : rawRequest'["session"] = q => rawRequest'["sessionEs"] # q
  BY <1>0, <1>2, <1>3, <1>5 DEF Places, Sessions
<1>7. \A q \in Requests, i \in Ids : Takes(i, q)' =>
         /\ Known(q)'
         /\ \A j \in Ids : Takes(j, q)' => i = j
         /\ \A k \in Nat : ~Sends(k, q)'
         /\ \A m \in informed' : m.p # q
         /\ \A x \in Sessions : rawRequest'[x] = q => thread'[i].at = "closing" /\ thread'[i].s = x
  BY <1>0, <1>1, <1>3, <1>4, <1>5 DEF Places
<1>8. \A q \in Requests, k \in Nat : Sends(k, q)' =>
         /\ Known(q)'
         /\ \A l \in Nat : Sends(l, q)' => k = l
         /\ \A m \in informed' : m.p # q
         /\ \A x \in Sessions : rawRequest'[x] # q
  BY <1>0, <1>1, <1>3, <1>4, <1>5 DEF Places
<1>9. \A m \in informed' : m.p \in Requests =>
         /\ Known(m.p)'
         /\ \A n \in informed' : m.p = n.p => m = n
         /\ \A x \in Sessions : rawRequest'[x] # m.p
  BY <1>0, <1>1, <1>3, <1>4, <1>5 DEF Places
<1> QED
  BY <1>6, <1>7, <1>8, <1>9 DEF Places

(* A thread takes the request of its session: no other has it, because it  *)
(* would hold the lock of that session.                                    *)
LEMMA ReadMoves ==
    ASSUME IInv, NEW i \in Ids, readRequest(i)
    PROVE  /\ thread[i].at = "taking" /\ thread[i].s \in Sessions
           /\ rawRequest[thread[i].s] \in Requests \cup {NoRequest}
           /\ thread'[i].at = "closing" /\ thread'[i].s = thread[i].s
           /\ thread'[i].p = rawRequest[thread[i].s] /\ thread'[i].resp = thread[i].resp
           /\ \A j \in Ids : j # i => thread'[j] = thread[j]
           /\ \A j \in Ids : ~Takes(j, rawRequest[thread[i].s]) \/ rawRequest[thread[i].s] = NoRequest
<1> DEFINE s == thread[i].s
           t == [at |-> "closing", s |-> s, p |-> rawRequest[s], resp |-> thread[i].resp,
                 of |-> thread[i].of]
<1>0. Types /\ Places /\ Locks
  BY DEF IInv
<1>1. thread[i].at = "taking" /\ thread' = [thread EXCEPT ![i] = t]
  BY DEF readRequest
<1>2. s \in Sessions /\ rawRequest[s] \in Requests \cup {NoRequest}
  BY <1>0 DEF Types, ThreadStates
<1>3. t \in ThreadStates
  BY <1>0, <1>2 DEF ThreadStates, Types
<1>4. thread'[i] = t /\ \A j \in Ids : j # i => thread'[j] = thread[j]
  BY <1>0, <1>1, <1>3, OneMoves
<1>5. ASSUME NEW j \in Ids, Takes(j, rawRequest[s]), rawRequest[s] \in Requests PROVE FALSE
  <2>1. thread[j].at = "closing" /\ thread[j].s = s
    BY <1>0, <1>2, <1>5 DEF Places
  <2>2. i = j
    BY <1>0, <1>1, <2>1 DEF Locks, Holds
  <2> QED BY <1>1, <2>1, <2>2
<1> QED
  BY <1>1, <1>2, <1>4, <1>5

LEMMA ReadPlaces ==
    ASSUME IInv, NEW i \in Ids, readRequest(i)
    PROVE  Places'
<1> DEFINE s == thread[i].s
<1>0. Types /\ Places
  BY DEF IInv
<1>1. UNCHANGED <<rawRequest, outbox, informed, idOf, task>>
  BY DEF readRequest, sessionVars
<1>2. s \in Sessions /\ rawRequest[s] \in Requests \cup {NoRequest}
  BY ReadMoves
<1>4. /\ thread[i].at = "taking"
      /\ thread'[i].at = "closing" /\ thread'[i].s = s /\ thread'[i].p = rawRequest[s]
      /\ \A j \in Ids : j # i => thread'[j] = thread[j]
  BY ReadMoves
<1>5. /\ \A q \in Requests : Takes(i, q)' <=> q = rawRequest[s]
      /\ \A j \in Ids, q \in Requests : j # i => (Takes(j, q)' <=> Takes(j, q))
      /\ \A q \in Requests : ~Takes(i, q)
  BY <1>4 DEF Takes
<1>6. /\ \A k, q : Sends(k, q)' <=> Sends(k, q)
      /\ \A q : Known(q)' <=> Known(q)
  BY <1>0, <1>1 DEF Sends, Known
<1>7. ASSUME NEW j \in Ids, NEW q \in Requests, Takes(j, q), q = rawRequest[s] PROVE FALSE
  BY <1>7, ReadMoves, RequestsFinite
<1>8. ASSUME NEW q \in Requests, NEW j \in Ids, Takes(j, q)'
      PROVE  /\ Known(q)'
             /\ \A k \in Nat : ~Sends(k, q)'
             /\ \A m \in informed' : m.p # q
             /\ \A x \in Sessions : rawRequest'[x] = q => thread'[j].at = "closing" /\ thread'[j].s = x
  <2>1. CASE j = i
    <3>1. rawRequest[s] = q /\ thread'[j].at = "closing" /\ thread'[j].s = s
      BY <1>4, <1>5, <1>8, <2>1
    <3>2. \A x \in Sessions : rawRequest[x] = q => x = s
      BY <1>0, <1>2, <3>1 DEF Places, Sessions
    <3>3. Known(q) /\ (\A k \in Nat : ~Sends(k, q)) /\ \A m \in informed : m.p # q
      BY <1>0, <1>2, <3>1 DEF Places
    <3> QED BY <1>1, <1>6, <3>1, <3>2, <3>3
  <2>2. CASE j # i
    BY <1>0, <1>1, <1>4, <1>5, <1>6, <1>8, <2>2 DEF Places
  <2> QED BY <2>1, <2>2
<1>9. ASSUME NEW q \in Requests, NEW j \in Ids, NEW l \in Ids, Takes(j, q)', Takes(l, q)'
      PROVE  j = l
  BY <1>0, <1>5, <1>7, <1>9 DEF Places
<1> HIDE DEF s
<1>10. /\ \A q \in Requests, x \in Sessions : rawRequest'[x] = q => Known(q)'
       /\ \A q \in Requests : rawRequest'["session"] = q => rawRequest'["sessionEs"] # q
       /\ \A q \in Requests, k \in Nat : Sends(k, q)' =>
            /\ Known(q)'
            /\ \A l \in Nat : Sends(l, q)' => k = l
            /\ \A m \in informed' : m.p # q
            /\ \A x \in Sessions : rawRequest'[x] # q
       /\ \A m \in informed' : m.p \in Requests =>
            /\ Known(m.p)'
            /\ \A n \in informed' : m.p = n.p => m = n
            /\ \A x \in Sessions : rawRequest'[x] # m.p
  BY <1>0, <1>1, <1>6 DEF Places
<1> QED
  BY <1>8, <1>9, <1>10 DEF Places

(* What the end of a thread does to the outbox. *)
LEMMA ClearSends ==
    ASSUME Types, NEW i \in Ids, clearId(i), thread[i].at = "send"
    PROVE  \A k \in Nat : \A q : Sends(k, q)' <=>
             Sends(k, q) \/ (k = Len(outbox) + 1 /\ q = thread[i].p)
<1> DEFINE m == [p |-> thread[i].p, resp |-> thread[i].resp, of |-> thread[i].of]
<1>1. outbox' = Append(outbox, m)
  BY DEF clearId
<1>2. m \in Informs
  BY DEF Types, ThreadStates, Informs
<1>3. outbox \in Seq(Informs)
  BY DEF Types
<1>4. Len(outbox) \in Nat
  BY <1>3, LenProperties
<1>5. /\ Len(outbox') = Len(outbox) + 1 /\ outbox'[Len(outbox) + 1] = m
      /\ \A k \in 1..Len(outbox) : outbox'[k] = outbox[k]
  BY <1>1, <1>2, <1>3, AppendProperties
<1>6. m.p = thread[i].p
  OBVIOUS
<1> HIDE DEF m
<1>7. ASSUME NEW k \in Nat, NEW q
      PROVE  Sends(k, q)' <=> Sends(k, q) \/ (k = Len(outbox) + 1 /\ q = thread[i].p)
  BY <1>4, <1>5, <1>6 DEF Sends
<1> QED
  BY <1>7

(* What the message task does to it. *)
LEMMA InformSends ==
    ASSUME Types, informNiResponse
    PROVE  /\ Head(outbox) \in Informs /\ Sends(1, Head(outbox).p)
           /\ \A k \in Nat : \A q : Sends(k, q)' => k + 1 \in Nat /\ Sends(k + 1, q) /\ k + 1 # 1
<1>1. outbox \in Seq(Informs) /\ outbox # <<>> /\ outbox' = Tail(outbox)
  BY DEF Types, informNiResponse
<1>2. Len(outbox) \in Nat
  BY <1>1, LenProperties
<1>3. /\ Head(outbox) \in Informs /\ Len(outbox') = Len(outbox) - 1
      /\ \A k \in 1..Len(outbox') : outbox'[k] = outbox[k + 1]
  BY <1>1, HeadTailProperties
<1>4. Len(outbox) > 0
  BY <1>1, <1>2, EmptySeq
<1>5. Head(outbox) = outbox[1]
  BY <1>1
<1>6. ASSUME NEW k \in Nat, NEW q, Sends(k, q)' PROVE Sends(k + 1, q) /\ k + 1 # 1
  BY <1>2, <1>3, <1>6 DEF Sends
<1> QED
  BY <1>2, <1>3, <1>4, <1>5, <1>6 DEF Sends

(* A request goes from its thread into one message, or ends.               *)
LEMMA ClearPlaces ==
    ASSUME IInv, NEW i \in Ids, clearId(i)
    PROVE  Places'
<1>0. Types /\ Places
  BY DEF IInv
<1>1. /\ thread[i].at \in {"clear", "send"}
      /\ thread' = [thread EXCEPT ![i] = ThreadAt(thread[i], "gone")]
      /\ UNCHANGED <<rawRequest, informed, idOf, task>>
  BY <1>0, ThreadMoves DEF clearId
<1>2. ThreadAt(thread[i], "gone") \in ThreadStates
  BY <1>0 DEF Types, ThreadStates, ThreadAt
<1>3. thread'[i].at = "gone" /\ \A j \in Ids : j # i => thread'[j] = thread[j]
  BY <1>0, <1>1, <1>2, OneMoves DEF ThreadAt
<1>4. /\ \A q \in Requests : ~Takes(i, q)'
      /\ \A j \in Ids, q \in Requests : j # i => (Takes(j, q)' <=> Takes(j, q))
      /\ \A q : Known(q)' <=> Known(q)
  BY <1>0, <1>1, <1>3 DEF Takes, Known
<1>5. CASE thread[i].p \in Requests /\ thread[i].at = "send"
  <2> DEFINE p == thread[i].p
  <2>1. /\ Takes(i, p) /\ Known(p) /\ \A j \in Ids : Takes(j, p) => i = j
        /\ \A k \in Nat : ~Sends(k, p)
        /\ \A m \in informed : m.p # p
        /\ \A s \in Sessions : rawRequest[s] # p
    BY <1>0, <1>1, <1>5 DEF Places, Takes
  <2>2. \A k \in Nat, q \in Requests : Sends(k, q)' <=> Sends(k, q) \/ (k = Len(outbox) + 1 /\ q = p)
    BY <1>0, <1>5, ClearSends
  <2> HIDE DEF p
  <2>3. \A q \in Requests, j \in Ids : Takes(j, q)' =>
         /\ Known(q)'
         /\ \A l \in Ids : Takes(l, q)' => j = l
         /\ \A k \in Nat : ~Sends(k, q)'
         /\ \A m \in informed' : m.p # q
         /\ \A s \in Sessions : rawRequest'[s] = q => thread'[j].at = "closing" /\ thread'[j].s = s
    BY <1>0, <1>1, <1>3, <1>4, <2>1, <2>2 DEF Places
  <2>4. ASSUME NEW q \in Requests, NEW k \in Nat, Sends(k, q)'
        PROVE  /\ Known(q)'
               /\ \A l \in Nat : Sends(l, q)' => k = l
               /\ \A m \in informed' : m.p # q
               /\ \A s \in Sessions : rawRequest'[s] # q
    <3>1. CASE q = p
      BY <1>1, <1>4, <2>1, <2>2, <2>4, <3>1
    <3>2. CASE q # p
      <4>1. Sends(k, q) /\ \A l \in Nat : Sends(l, q)' => Sends(l, q)
        BY <2>2, <2>4, <3>2
      <4> QED BY <1>0, <1>1, <1>4, <4>1 DEF Places
    <3> QED BY <3>1, <3>2
  <2>5. /\ \A q \in Requests, s \in Sessions : rawRequest'[s] = q => Known(q)'
        /\ \A q \in Requests : rawRequest'["session"] = q => rawRequest'["sessionEs"] # q
        /\ \A m \in informed' : m.p \in Requests =>
             /\ Known(m.p)'
             /\ \A n \in informed' : m.p = n.p => m = n
             /\ \A s \in Sessions : rawRequest'[s] # m.p
    BY <1>0, <1>1, <1>4 DEF Places
  <2> QED BY <2>3, <2>4, <2>5 DEF Places
<1>6. CASE ~ (thread[i].p \in Requests /\ thread[i].at = "send")
  <2>1. \A k \in Nat, q \in Requests : Sends(k, q)' <=> Sends(k, q)
    <3>1. CASE thread[i].at = "send"
      BY <1>0, <1>6, <3>1, ClearSends
    <3>2. CASE thread[i].at # "send"
      BY <3>2 DEF clearId, Sends
    <3> QED BY <3>1, <3>2
  <2>2. \A j \in Ids, q \in Requests : Takes(j, q)' =>
          Takes(j, q) /\ thread'[j] = thread[j]
    BY <1>3, <1>4
  <2> QED BY <1>0, <1>1, <1>4, <2>1, <2>2 DEF Places
<1> QED
  BY <1>5, <1>6

(* The first message becomes an answer, the first for its request.         *)
LEMMA InformPlaces ==
    ASSUME IInv, informNiResponse
    PROVE  Places'
<1> PICK h : h = Head(outbox)
  OBVIOUS
<1>0. Types /\ Places
  BY DEF IInv
<1>1. UNCHANGED <<rawRequest, thread, idOf, task>> /\ informed' = informed \cup {h}
  BY DEF informNiResponse, sessionVars
<1>2. /\ h.p \in Requests \cup {NoRequest} /\ Sends(1, h.p)
      /\ \A k \in Nat : \A q : Sends(k, q)' => k + 1 \in Nat /\ Sends(k + 1, q) /\ k + 1 # 1
  BY <1>0, InformSends DEF Informs
<1>3. /\ \A q : Known(q)' <=> Known(q)
      /\ \A j, q : Takes(j, q)' <=> Takes(j, q)
  BY <1>0, <1>1 DEF Takes, Known
<1>4. h.p \in Requests =>
        /\ Known(h.p) /\ \A k \in Nat : Sends(k, h.p) => k = 1
        /\ \A m \in informed : m.p # h.p
        /\ \A s \in Sessions : rawRequest[s] # h.p
        /\ \A i \in Ids : ~Takes(i, h.p)
  BY <1>0, <1>2 DEF Places
<1>5. ASSUME NEW k \in Nat, Sends(k, h.p)', h.p \in Requests PROVE FALSE
  <2>1. k + 1 \in Nat /\ Sends(k + 1, h.p) /\ k + 1 # 1
    BY <1>2, <1>5
  <2> QED BY <1>4, <1>5, <2>1
<1>6. \A q \in Requests, j \in Ids : Takes(j, q)' =>
         /\ Known(q)'
         /\ \A l \in Ids : Takes(l, q)' => j = l
         /\ \A k \in Nat : ~Sends(k, q)'
         /\ \A m \in informed' : m.p # q
         /\ \A s \in Sessions : rawRequest'[s] = q => thread'[j].at = "closing" /\ thread'[j].s = s
  BY <1>0, <1>1, <1>2, <1>3, <1>4 DEF Places
<1>7. ASSUME NEW q \in Requests, NEW k \in Nat, Sends(k, q)'
      PROVE  /\ Known(q)'
             /\ \A l \in Nat : Sends(l, q)' => k = l
             /\ \A m \in informed' : m.p # q
             /\ \A s \in Sessions : rawRequest'[s] # q
  <2>1. Sends(k + 1, q) /\ k + 1 \in Nat /\ q # h.p
    <3>1. k + 1 \in Nat /\ Sends(k + 1, q)
      BY <1>2, <1>7
    <3>2. q # h.p
      BY <1>5, <1>7
    <3> QED BY <3>1, <3>2
  <2>2. ASSUME NEW l \in Nat, Sends(l, q)' PROVE k = l
    <3>1. Sends(l + 1, q) /\ l + 1 \in Nat
      BY <1>2, <2>2
    <3>2. k + 1 = l + 1
      BY <1>0, <2>1, <3>1 DEF Places
    <3> QED BY <3>2
  <2> QED BY <1>0, <1>1, <1>3, <2>1, <2>2 DEF Places
<1>8. \A m \in informed' : m.p \in Requests =>
         /\ Known(m.p)'
         /\ \A n \in informed' : m.p = n.p => m = n
         /\ \A s \in Sessions : rawRequest'[s] # m.p
  BY <1>0, <1>1, <1>2, <1>3, <1>4 DEF Places
<1>9. /\ \A q \in Requests, s \in Sessions : rawRequest'[s] = q => Known(q)'
      /\ \A q \in Requests : rawRequest'["session"] = q => rawRequest'["sessionEs"] # q
  BY <1>0, <1>1, <1>3 DEF Places
<1> QED
  BY <1>6, <1>7, <1>8, <1>9 DEF Places

(* What closing a session does. *)
LEMMA CloseMoves ==
    ASSUME IInv, NEW i \in Ids, closeSession(i)
    PROVE  /\ thread[i].at = "closing" /\ thread[i].s \in Sessions
           /\ thread[i].p \in Requests \cup {NoRequest}
           /\ thread'[i].p = thread[i].p /\ thread'[i].resp = thread[i].resp
           /\ thread'[i].at = IF thread[i].resp = "IGNORE" THEN "clear" ELSE "send"
           /\ \A j \in Ids : j # i => thread'[j] = thread[j]
           /\ rawRequest'[thread[i].s] = NoRequest
           /\ \A s \in Sessions : s # thread[i].s => rawRequest'[s] = rawRequest[s]
           /\ UNCHANGED <<outbox, informed, task, frees, dead>>
<1> PICK a \in {"clear", "send"} : a = IF thread[i].resp = "IGNORE" THEN "clear" ELSE "send"
  OBVIOUS
<1>0. Types
  BY DEF IInv
<1>1. thread' = [thread EXCEPT ![i] = ThreadAt(thread[i], a)]
  BY <1>0, ThreadMoves
<1>2. /\ thread[i].s \in Sessions /\ thread[i].p \in Requests \cup {NoRequest}
      /\ ThreadAt(thread[i], a) \in ThreadStates
  BY <1>0 DEF Types, ThreadStates, ThreadAt
<1>3. /\ thread'[i] = ThreadAt(thread[i], a)
      /\ \A j \in Ids : j # i => thread'[j] = thread[j]
  BY <1>0, <1>1, <1>2, OneMoves
<1>4. /\ rawRequest'[thread[i].s] = NoRequest
      /\ \A s \in Sessions : s # thread[i].s => rawRequest'[s] = rawRequest[s]
      /\ UNCHANGED <<outbox, informed, task, frees, dead>> /\ thread[i].at = "closing"
  BY <1>0, <1>2 DEF closeSession, Types
<1> QED
  BY <1>2, <1>3, <1>4 DEF ThreadAt

(* No step puts a request into two places. *)
LEMMA PlacesStep == ASSUME IInv, Step PROVE Places'
<1>0. /\ Types /\ Places
      /\ \A p \in Requests : Known(p) => Known(p)'
  BY KnownStays DEF IInv
<1>1. ASSUME UNCHANGED <<outbox, informed, thread>>,
             \A s \in Sessions : rawRequest'[s] \in {rawRequest[s], NoRequest}
      PROVE  Places'
  <2>1. \A p \in Requests, s \in Sessions : rawRequest'[s] = p => rawRequest[s] = p
    BY <1>1, RequestsFinite
  <2>2. ASSUME NEW i \in Ids, NEW p \in Requests, Takes(i, p)'
        PROVE  /\ Takes(i, p)
               /\ \A s \in Sessions : rawRequest'[s] = p => thread'[i].at = "closing" /\ thread'[i].s = s
    BY <1>0, <1>1, <2>1, <2>2 DEF Places, Takes
  <2> QED BY <1>0, <1>1, <2>2, Shrinks
<1>2. ASSUME UNCHANGED <<outbox, informed, rawRequest>>,
             \A i \in Ids, p \in Requests : Takes(i, p)' => Takes(i, p) /\ thread'[i] = thread[i]
      PROVE  Places'
  <2>1. ASSUME NEW i \in Ids, NEW p \in Requests, Takes(i, p)'
        PROVE  /\ Takes(i, p)
               /\ \A s \in Sessions : rawRequest'[s] = p => thread'[i].at = "closing" /\ thread'[i].s = s
    BY <1>0, <1>2, <2>1 DEF Places
  <2> QED BY <1>0, <1>2, <2>1, Shrinks
<1>3. CASE spawnThread
  <2>1. UNCHANGED <<outbox, informed, rawRequest>>
    BY <1>3 DEF spawnThread, sessionVars
  <2>2. idOf[task.p] \in Ids
    BY <1>3 DEF IInv, Types, Numbers, spawnThread, TaskStates
  <2>3. PICK a \in {"wait", "gone"} : thread' = [thread EXCEPT ![idOf[task.p]] =
                     [at |-> a, s |-> task.s, p |-> NoRequest, resp |-> "unset", of |-> 0]]
    BY <1>3 DEF spawnThread
  <2>4. \A i \in Ids, p \in Requests : Takes(i, p)' => thread'[i] = thread[i]
    BY <1>0, <2>2, <2>3 DEF Types, Takes
  <2> QED BY <1>2, <2>1, <2>4 DEF Takes
<1>4. ASSUME NEW i \in Ids, NEW r \in Responses, NEW of \in Ids \cup {0},
             thread[i].at = "wait", takeAnswer(i, r, of)
      PROVE  Places'
  <2>1. UNCHANGED <<outbox, informed, rawRequest>>
    BY <1>4 DEF takeAnswer
  <2>2. thread'[i].at \in {"clear", "taking"} /\ \A j \in Ids : j # i => thread'[j] = thread[j]
    BY <1>0, <1>4 DEF takeAnswer, Types
  <2> QED BY <1>2, <2>1, <2>2 DEF Takes
<1>5. ASSUME NEW i \in Ids, closeSession(i) PROVE Places'
  <2>1. \A p \in Requests, s \in Sessions : rawRequest'[s] = p => rawRequest[s] = p /\ s # thread[i].s
    BY <1>5, CloseMoves, RequestsFinite
  <2>2. ASSUME NEW j \in Ids, NEW p \in Requests, Takes(j, p)'
        PROVE  /\ Takes(j, p)
               /\ \A s \in Sessions : rawRequest'[s] = p => thread'[j].at = "closing" /\ thread'[j].s = s
    <3>1. CASE j = i
      <4>1. Takes(i, p)
        BY <1>5, <2>2, <3>1, CloseMoves DEF Takes
      <4>2. \A s \in Sessions : rawRequest[s] = p => s = thread[i].s
        BY <1>0, <4>1 DEF Places
      <4> QED BY <2>1, <3>1, <4>1, <4>2
    <3>2. CASE j # i
      <4>1. Takes(j, p) /\ thread'[j] = thread[j]
        BY <1>5, <2>2, <3>2, CloseMoves DEF Takes
      <4> QED BY <1>0, <2>1, <4>1 DEF Places
    <3> QED BY <3>1, <3>2
  <2>3. UNCHANGED <<outbox, informed>> /\ \A s \in Sessions : rawRequest'[s] \in {rawRequest[s], NoRequest}
    BY <1>5, CloseMoves
  <2> QED BY <1>0, <2>2, <2>3, Shrinks
<1>6. CASE resetForget
  BY <1>0, <1>1, <1>6 DEF resetForget, Types
<1>7. CASE UNCHANGED <<outbox, informed, thread, rawRequest>>
  BY <1>1, <1>7
<1> QED
  BY <1>0, <1>3, <1>4, <1>5, <1>6, <1>7, AcceptPlaces, ReadPlaces, ClearPlaces, InformPlaces
     DEF Step, refuseRequest, numberRequest, engineRestart, resetLook, resetFree, resetWake, respond,
         ignoreNormal, giveAnswer, niVars, sessionVars

-----------------------------------------------------------------------------
(* A restart's request is forgotten before the session is used again.      *)
LEMMA DeadsStep == ASSUME IInv, Step PROVE Deads'
<1> USE DEF TaskStates
<1>0. /\ Types /\ Places /\ Deads
      /\ \A p \in Requests : Known(p) => Known(p)'
  BY KnownStays DEF IInv
<1>1. ASSUME dead' = dead, task.at = "forget" => task' = task,
             \A p \in Requests, s \in Sessions : rawRequest'[s] = p => rawRequest[s] = p
      PROVE  Deads'
  BY <1>0, <1>1 DEF Deads, Types
<1>2. ASSUME NEW s \in Sessions, NEW p \in Requests, acceptRequest(s, p) PROVE Deads'
  <2>1. /\ idOf[p] = 0 /\ task.at = "idle" /\ dead' = dead /\ rawRequest' = [rawRequest EXCEPT ![s] = p]
    BY <1>2 DEF acceptRequest, New
  <2>2. ~Known(p)
    BY <2>1 DEF Known
  <2>3. \A q \in Requests, x \in Sessions : rawRequest'[x] = q => q = p \/ rawRequest[x] = q
    BY <1>0, <2>1 DEF Types
  <2> QED BY <1>0, <2>1, <2>2, <2>3 DEF Deads, Types
<1>3. ASSUME NEW i \in Ids, closeSession(i) PROVE Deads'
  <2>1. /\ \A p \in Requests, s \in Sessions : rawRequest'[s] = p => rawRequest[s] = p
        /\ UNCHANGED <<dead, task>>
    BY <1>3, CloseMoves, RequestsFinite
  <2> QED BY <1>1, <2>1
<1>4. CASE resetFree
  <2>1. /\ task.at = "free" /\ task'.at = "forget" /\ task'.s = task.s /\ rawRequest' = rawRequest
        /\ dead' = dead \cup ({rawRequest[task.s]} \ {NoRequest})
        /\ task.s \in Sessions /\ rawRequest[task.s] \in Requests \cup {NoRequest}
    BY <1>0, <1>4, TaskMoves DEF resetFree, TaskAt, Types, sessionVars
  <2>2. ASSUME NEW p \in dead' PROVE Known(p)' /\ \A s \in Sessions : rawRequest[s] = p => task.s = s
    <3>1. CASE p \in dead
      BY <1>0, <2>1, <3>1 DEF Deads, Types
    <3>2. CASE p \notin dead
      <4>1. p = rawRequest[task.s] /\ p \in Requests
        BY <2>1, <2>2, <3>2
      <4> QED BY <1>0, <2>1, <4>1 DEF Places, Sessions
    <3> QED BY <3>1, <3>2
  <2> QED BY <2>1, <2>2 DEF Deads
<1>5. CASE resetForget
  <2>1. /\ task.at = "forget" /\ dead' = dead /\ task.s \in Sessions
        /\ rawRequest' = [rawRequest EXCEPT ![task.s] = NoRequest]
    BY <1>0, <1>5 DEF resetForget, Types
  <2>2. \A p \in dead, s \in Sessions : rawRequest'[s] # p
    BY <1>0, <2>1, RequestsFinite DEF Deads, Types
  <2> QED BY <1>0, <2>1, <2>2 DEF Deads, Types
<1>6. CASE UNCHANGED <<dead, rawRequest>> /\ (task.at = "forget" => task' = task)
  BY <1>1, <1>6
<1> QED
  BY <1>2, <1>3, <1>4, <1>5, <1>6 DEF Step, refuseRequest, numberRequest, spawnThread, takeAnswer,
     readRequest, clearId, informNiResponse, engineRestart, resetLook, resetWake, respond,
     ignoreNormal, giveAnswer, niVars, sessionVars

-----------------------------------------------------------------------------
(* The bounds are kept by steps that free nothing and open nothing ...     *)
LEMMA FreesKept ==
    ASSUME Frees, frees' = frees, dead' = dead, \A p \in Requests : Open(p)' => Open(p)
    PROVE  Frees'
<1>1. \A p : Rest(p)' = Rest(p)
  BY DEF Rest
<1> QED
  BY <1>1 DEF Frees

(* ... and by one that frees what nobody else will free after it.          *)
LEMMA OneFreed ==
    ASSUME Types, Frees, NEW p \in Requests, Free(p), dead' = dead, frees[p] <= Rest(p), ~Open(p)',
           \A q \in Requests : q # p /\ Open(q)' => Open(q)
    PROVE  Frees'
<1>1. \A q : Rest(q)' = Rest(q) /\ Rest(q) \in {0, 1}
  BY DEF Rest
<1>2. frees'[p] = frees[p] + 1 /\ frees[p] \in Nat /\ \A q \in Requests : q # p => frees'[q] = frees[q]
  BY DEF Types, Free
<1>3. frees'[p] <= Rest(p) + 1
  BY <1>1, <1>2
<1>4. \A q \in Requests : q # p => frees'[q] <= Rest(q) + 1 /\ (Open(q)' => frees'[q] <= Rest(q))
  BY <1>2 DEF Frees
<1> QED
  BY <1>1, <1>3, <1>4 DEF Frees

(* Nothing opens while the threads and messages keep what they have and    *)
(* the sessions take nothing new.                                          *)
LEMMA OpenKept ==
    ASSUME NEW p \in Requests, Open(p)',
           \A s \in Sessions : rawRequest'[s] = p => rawRequest[s] = p,
           \A i \in Ids : Takes(i, p)' <=> Takes(i, p),
           \A i \in Ids : Takes(i, p) => thread'[i].resp = thread[i].resp,
           \A k \in Nat : Sends(k, p)' => \E l \in Nat : Sends(l, p)
    PROVE  Open(p)
  BY DEF Open

(* A request that is refused is nowhere and stays there.                   *)
LEMMA RefuseFrees ==
    ASSUME IInv, NEW s \in Sessions, NEW p \in Requests, refuseRequest(s, p)
    PROVE  Frees'
<1>0. Types /\ Places /\ Frees
  BY DEF IInv
<1>1. /\ UNCHANGED <<rawRequest, thread, outbox, task, dead>> /\ Free(p) /\ frees[p] = 0
      /\ idOf[p] = 0 /\ task.at = "idle"
  BY DEF refuseRequest, sessionVars, New
<1>2. /\ \A x \in Sessions : rawRequest[x] # p
      /\ \A i \in Ids : ~Takes(i, p)
      /\ \A k \in Nat : ~Sends(k, p)
  BY <1>0, <1>1, NewIsNowhere DEF Known
<1>4. /\ \A k, q : Sends(k, q)' <=> Sends(k, q)
      /\ \A i, q : Takes(i, q)' <=> Takes(i, q)
  BY <1>1 DEF Sends, Takes
<1>5. \A q \in Requests : Open(q)' => Open(q)
  BY <1>1, <1>4, OpenKept
<1>6. ~Open(p)' /\ frees[p] <= Rest(p)
  BY <1>1, <1>2, <1>4 DEF Open, Rest
<1> QED
  BY <1>0, <1>1, <1>5, <1>6, OneFreed

(* A thread that reads a request is to free it, through a message, or      *)
(* frees it, to be ignored, for the last time.                             *)
LEMMA ReadFrees ==
    ASSUME IInv, NEW i \in Ids, readRequest(i)
    PROVE  Frees'
<1> PICK p : p = rawRequest[thread[i].s]
  OBVIOUS
<1>0. Types /\ Places /\ Frees
  BY DEF IInv
<1>1. UNCHANGED <<rawRequest, outbox, task, dead>>
  BY DEF readRequest, sessionVars
<1>2. /\ thread[i].s \in Sessions /\ p \in Requests \cup {NoRequest}
      /\ thread[i].at = "taking" /\ thread'[i].at = "closing" /\ thread'[i].p = p
      /\ thread'[i].resp = thread[i].resp
      /\ \A j \in Ids : j # i => thread'[j] = thread[j]
      /\ \A j \in Ids : p \in Requests => ~Takes(j, p)
  BY ReadMoves, RequestsFinite
<1>3. /\ \A q \in Requests, j \in Ids : q # p => (Takes(j, q)' <=> Takes(j, q))
      /\ \A q \in Requests, j \in Ids : Takes(j, q) => thread'[j].resp = thread[j].resp
      /\ \A j \in Ids : j # i => (Takes(j, p)' <=> Takes(j, p))
      /\ Takes(i, p)'
      /\ \A k, q : Sends(k, q)' <=> Sends(k, q)
  BY <1>1, <1>2 DEF Takes, Sends
<1>4. \A q \in Requests : q # p /\ Open(q)' => Open(q)
  BY <1>1, <1>3, OpenKept
<1>5. p \in Requests => Open(p) /\ frees[p] <= Rest(p)
  BY <1>0, <1>2 DEF Open, Frees
<1>6. CASE thread[i].resp = "IGNORE" /\ p \in Requests
  <2>1. Free(p)
    BY <1>6 DEF readRequest
  <2>2. ~Open(p)'
    <3>1. \A j \in Ids : Takes(j, p)' => thread'[j].resp = "IGNORE"
      BY <1>2, <1>3, <1>6
    <3>2. \A k \in Nat : ~Sends(k, p)'
      BY <1>0, <1>2, <1>3, <1>6 DEF Places
    <3> QED BY <1>3, <3>1, <3>2 DEF Open
  <2> QED BY <1>0, <1>1, <1>4, <1>5, <1>6, <2>1, <2>2, OneFreed
<1>7. CASE ~ (thread[i].resp = "IGNORE" /\ p \in Requests)
  <2>1. frees' = frees
    <3>1. CASE thread[i].resp = "IGNORE"
      <4>1. Free(p) /\ \A q \in Requests : q # p
        BY <1>2, <1>7, <3>1, RequestsFinite DEF readRequest
      <4> QED BY <1>0, <4>1 DEF Free, Types
    <3>2. CASE thread[i].resp # "IGNORE"
      BY <3>2 DEF readRequest
    <3> QED BY <3>1, <3>2
  <2> QED BY <1>0, <1>1, <1>4, <1>5, <2>1, FreesKept
<1> QED
  BY <1>6, <1>7

(* A thread that ignores its request takes it out of the session.          *)
LEMMA CloseFrees ==
    ASSUME IInv, NEW i \in Ids, closeSession(i)
    PROVE  Frees'
<1> PICK p : p = thread[i].p
  OBVIOUS
<1>0. Types /\ Places /\ Frees
  BY DEF IInv
<1>1. /\ thread[i].at = "closing" /\ thread[i].s \in Sessions
      /\ p \in Requests \cup {NoRequest}
      /\ thread'[i].p = p /\ thread'[i].resp = thread[i].resp
      /\ thread'[i].at = IF thread[i].resp = "IGNORE" THEN "clear" ELSE "send"
      /\ \A j \in Ids : j # i => thread'[j] = thread[j]
      /\ UNCHANGED <<outbox, task, frees, dead>>
  BY CloseMoves
<1>2. \A q \in Requests, s \in Sessions : rawRequest'[s] = q => rawRequest[s] = q /\ s # thread[i].s
  BY CloseMoves, RequestsFinite
<1>3. /\ \A k, q : Sends(k, q)' <=> Sends(k, q)
      /\ \A j \in Ids, q \in Requests : Takes(j, q) => thread'[j].resp = thread[j].resp
      /\ \A j \in Ids, q \in Requests : j # i => (Takes(j, q)' <=> Takes(j, q))
      /\ \A q \in Requests : q # p => ~Takes(i, q) /\ ~Takes(i, q)'
      /\ Takes(i, p)
      /\ thread[i].resp # "IGNORE" => Takes(i, p)'
      /\ thread[i].resp = "IGNORE" => ~Takes(i, p)'
  BY <1>1 DEF Sends, Takes
<1>4. \A q \in Requests : q # p /\ Open(q)' => Open(q)
  BY <1>2, <1>3, OpenKept
<1>5. ASSUME p \in Requests, Open(p)' PROVE Open(p)
  <2>1. CASE thread[i].resp # "IGNORE"
    BY <1>3, <2>1 DEF Open
  <2>2. CASE thread[i].resp = "IGNORE"
    <3>1. \A s \in Sessions : rawRequest'[s] # p
      BY <1>0, <1>2, <1>3, <1>5 DEF Places
    <3>2. \A j \in Ids : Takes(j, p) => j = i
      BY <1>0, <1>3, <1>5 DEF Places
    <3>3. \A j \in Ids : ~Takes(j, p)'
      BY <1>3, <1>5, <2>2, <3>2
    <3> QED BY <1>3, <1>5, <3>1, <3>3 DEF Open
  <2> QED BY <2>1, <2>2
<1> QED
  BY <1>0, <1>1, <1>4, <1>5, FreesKept

(* The request goes from the thread to a message. *)
LEMMA ClearFrees ==
    ASSUME IInv, NEW i \in Ids, clearId(i)
    PROVE  Frees'
<1> PICK p : p = thread[i].p
  OBVIOUS
<1>0. Types /\ Frees
  BY DEF IInv
<1>1. UNCHANGED <<rawRequest, task, frees, dead>> /\ thread[i].at \in {"clear", "send"}
  BY DEF clearId
<1>2. thread' = [thread EXCEPT ![i] = ThreadAt(thread[i], "gone")]
  BY <1>0, ThreadMoves
<1>3. ThreadAt(thread[i], "gone") \in ThreadStates
  BY <1>0 DEF Types, ThreadStates, ThreadAt
<1>4. thread'[i].at = "gone" /\ \A j \in Ids : j # i => thread'[j] = thread[j]
  BY <1>0, <1>2, <1>3, OneMoves DEF ThreadAt
<1>5. /\ \A j \in Ids, q \in Requests : Takes(j, q) => j = i \/ thread'[j].resp = thread[j].resp
      /\ \A j \in Ids, q \in Requests : j # i => (Takes(j, q)' <=> Takes(j, q))
      /\ \A q : ~Takes(i, q)' /\ (Takes(i, q) <=> thread[i].at = "send" /\ q = p)
  BY <1>1, <1>4 DEF Takes
<1>6. \A k \in Nat : \A q : Sends(k, q)' => Sends(k, q) \/ (thread[i].at = "send" /\ q = p)
  <2>1. CASE thread[i].at = "send"
    BY <1>0, <2>1, ClearSends
  <2>2. CASE thread[i].at # "send"
    BY <2>2 DEF clearId, Sends
  <2> QED BY <2>1, <2>2
<1>7. ASSUME NEW q \in Requests, Open(q)' PROVE Open(q)
  <2>1. CASE thread[i].at = "send" /\ q = p
    <3>1. Takes(i, q) /\ thread[i].resp # "IGNORE"
      BY <1>0, <1>5, <2>1 DEF Types
    <3> QED BY <3>1 DEF Open
  <2>2. CASE ~ (thread[i].at = "send" /\ q = p)
    <3>1. /\ \A j \in Ids : Takes(j, q)' <=> Takes(j, q)
          /\ \A j \in Ids : Takes(j, q) => thread'[j].resp = thread[j].resp
          /\ \A k \in Nat : Sends(k, q)' => Sends(k, q)
      BY <1>5, <1>6, <2>2
    <3> QED BY <1>1, <1>7, <3>1, OpenKept
  <2> QED BY <2>1, <2>2
<1> QED
  BY <1>0, <1>1, <1>7, FreesKept

(* The message that carries a request frees it for the last time.          *)
LEMMA InformFrees ==
    ASSUME IInv, informNiResponse
    PROVE  Frees'
<1> PICK p : p = Head(outbox).p
  OBVIOUS
<1>0. Types /\ Places /\ Frees
  BY DEF IInv
<1>1. UNCHANGED <<rawRequest, thread, task, dead>> /\ Free(p)
  BY DEF informNiResponse, sessionVars
<1>2. /\ p \in Requests \cup {NoRequest} /\ Sends(1, p)
      /\ \A k \in Nat : \A q : Sends(k, q)' => k + 1 \in Nat /\ Sends(k + 1, q) /\ k + 1 # 1
  BY <1>0, InformSends DEF Informs
<1>3. /\ \A j, q : Takes(j, q)' <=> Takes(j, q)
      /\ \A j : thread'[j].resp = thread[j].resp
  BY <1>1 DEF Takes
<1>4. \A q \in Requests : Open(q)' => Open(q)
  BY <1>1, <1>2, <1>3, OpenKept
<1>5. CASE p \in Requests
  <2>1. /\ \A k \in Nat : Sends(k, p) => k = 1
        /\ \A s \in Sessions : rawRequest[s] # p
        /\ \A i \in Ids : ~Takes(i, p)
    BY <1>0, <1>2, <1>5 DEF Places
  <2>2. ASSUME NEW k \in Nat, Sends(k, p)' PROVE FALSE
    <3>1. k + 1 \in Nat /\ Sends(k + 1, p) /\ k + 1 # 1
      BY <1>2, <2>2
    <3> QED BY <2>1, <3>1
  <2>3. ~Open(p)'
    BY <1>1, <1>3, <2>1, <2>2 DEF Open
  <2>4. frees[p] <= Rest(p)
    BY <1>0, <1>2, <1>5 DEF Open, Frees
  <2> QED BY <1>0, <1>1, <1>4, <1>5, <2>3, <2>4, OneFreed
<1>6. CASE p \notin Requests
  <2>1. frees' = frees
    <3>1. \A q \in Requests : q # p
      BY <1>6
    <3> QED BY <1>0, <1>1, <3>1 DEF Free, Types
  <2> QED BY <1>0, <1>1, <1>4, <2>1, FreesKept
<1> QED
  BY <1>5, <1>6

(* A restart frees the request of a session once, before it forgets it.    *)
LEMMA ResetFrees ==
    ASSUME IInv, resetFree
    PROVE  Frees'
<1> PICK p : p = rawRequest[task.s]
  OBVIOUS
<1>0. Types /\ Deads /\ Frees
  BY DEF IInv
<1>1. /\ UNCHANGED <<rawRequest, thread, outbox>> /\ task.at = "free"
      /\ Free(p) /\ dead' = dead \cup ({p} \ {NoRequest})
  BY DEF resetFree, sessionVars
<1>2. task.s \in Sessions /\ p \in Requests \cup {NoRequest}
  BY <1>0 DEF Types, TaskStates
<1>3. /\ \A k, q : Sends(k, q)' <=> Sends(k, q)
      /\ \A i, q : Takes(i, q)' <=> Takes(i, q)
      /\ \A j : thread'[j].resp = thread[j].resp
  BY <1>1 DEF Sends, Takes
<1>4. \A q \in Requests : Open(q)' => Open(q)
  BY <1>1, <1>3, OpenKept
<1>5. p \notin dead
  BY <1>0, <1>1, <1>2 DEF Deads
<1>6. ASSUME NEW q \in Requests PROVE frees'[q] <= Rest(q)' + 1 /\ (Open(q)' => frees'[q] <= Rest(q)')
  <2>1. CASE q = p
    <3>1. q \in dead' /\ q \notin dead
      BY <1>1, <1>5, <1>6, <2>1, RequestsFinite
    <3>2. Rest(q) = 0 /\ Rest(q)' = 1
      BY <3>1 DEF Rest
    <3>3. frees'[q] = frees[q] + 1 /\ frees[q] \in Nat
      BY <1>0, <1>1, <1>6, <2>1 DEF Free, Types
    <3>4. frees[q] <= Rest(q) + 1 /\ (Open(q) => frees[q] <= Rest(q))
      BY <1>0, <1>6 DEF Frees
    <3> QED BY <1>4, <1>6, <3>2, <3>3, <3>4
  <2>2. CASE q # p
    <3>1. Rest(q)' = Rest(q)
      BY <1>1, <2>2 DEF Rest
    <3>2. frees'[q] = frees[q]
      BY <1>0, <1>1, <1>6, <2>2 DEF Free, Types
    <3>3. frees[q] <= Rest(q) + 1 /\ (Open(q) => frees[q] <= Rest(q))
      BY <1>0, <1>6 DEF Frees
    <3> QED BY <1>4, <1>6, <3>1, <3>2, <3>3
  <2> QED BY <2>1, <2>2
<1> QED
  BY <1>6 DEF Frees

(* No step frees a request a second time, but a restart. *)
LEMMA FreesStep == ASSUME IInv, Step PROVE Frees'
<1>0. Types /\ Places /\ Frees
  BY DEF IInv
<1>1. ASSUME UNCHANGED <<frees, dead, outbox, thread>>,
             \A p \in Requests, s \in Sessions : rawRequest'[s] = p => rawRequest[s] = p
      PROVE  Frees'
  <2>1. /\ \A k, q : Sends(k, q)' <=> Sends(k, q)
        /\ \A i, q : Takes(i, q)' <=> Takes(i, q)
        /\ \A i : thread'[i].resp = thread[i].resp
    BY <1>1 DEF Sends, Takes
  <2>2. \A p \in Requests : Open(p)' => Open(p)
    BY <1>1, <2>1, OpenKept
  <2> QED BY <1>0, <1>1, <2>2, FreesKept
<1>2. ASSUME UNCHANGED <<frees, dead, outbox, rawRequest>>,
             \A i \in Ids, p \in Requests : Takes(i, p)' <=> Takes(i, p),
             \A i \in Ids, p \in Requests : Takes(i, p) => thread'[i] = thread[i]
      PROVE  Frees'
  <2>1. \A k, q : Sends(k, q)' <=> Sends(k, q)
    BY <1>2 DEF Sends
  <2>2. \A p \in Requests : Open(p)' => Open(p)
    BY <1>2, <2>1, OpenKept
  <2> QED BY <1>0, <1>2, <2>2, FreesKept
<1>3. ASSUME NEW s \in Sessions, NEW p \in Requests, acceptRequest(s, p) PROVE Frees'
  <2>1. /\ UNCHANGED <<frees, dead, outbox, thread>> /\ frees[p] = 0
        /\ rawRequest' = [rawRequest EXCEPT ![s] = p]
    BY <1>3 DEF acceptRequest, New
  <2>2. \A q \in Requests, x \in Sessions : rawRequest'[x] = q => q = p \/ rawRequest[x] = q
    BY <1>0, <2>1 DEF Types
  <2>3. /\ \A k, q : Sends(k, q)' <=> Sends(k, q)
        /\ \A i, q : Takes(i, q)' <=> Takes(i, q)
        /\ \A i : thread'[i].resp = thread[i].resp
    BY <2>1 DEF Sends, Takes
  <2>4. ASSUME NEW q \in Requests, q # p, Open(q)' PROVE Open(q)
    <3>1. \A x \in Sessions : rawRequest'[x] = q => rawRequest[x] = q
      BY <2>2, <2>4
    <3> QED BY <2>3, <2>4, <3>1, OpenKept
  <2>5. \A q : Rest(q)' = Rest(q) /\ Rest(q) \in {0, 1}
    BY <2>1 DEF Rest
  <2>6. ASSUME NEW q \in Requests PROVE frees'[q] <= Rest(q)' + 1 /\ (Open(q)' => frees'[q] <= Rest(q)')
    <3>1. CASE q = p
      BY <2>1, <2>5, <3>1
    <3>2. CASE q # p
      BY <1>0, <2>1, <2>4, <2>5, <2>6, <3>2 DEF Frees
    <3> QED BY <3>1, <3>2
  <2> QED BY <2>6 DEF Frees
<1>4. CASE spawnThread
  <2>1. UNCHANGED <<outbox, rawRequest, frees, dead>> /\ task.at = "spawn"
    BY <1>4 DEF spawnThread, sessionVars
  <2>2. idOf[task.p] \in Ids /\ thread[idOf[task.p]].at = "unborn"
    BY <1>4 DEF IInv, Types, Numbers, Births, spawnThread, TaskStates
  <2>3. PICK a \in {"wait", "gone"} : thread' = [thread EXCEPT ![idOf[task.p]] =
                     [at |-> a, s |-> task.s, p |-> NoRequest, resp |-> "unset", of |-> 0]]
    BY <1>4 DEF spawnThread
  <2>4. thread'[idOf[task.p]].at = a /\ \A i \in Ids : i # idOf[task.p] => thread'[i] = thread[i]
    BY <1>0, <2>2, <2>3 DEF Types
  <2>5. \A i \in Ids, p \in Requests :
           (Takes(i, p)' <=> Takes(i, p)) /\ (Takes(i, p) => thread'[i] = thread[i])
    BY <2>2, <2>4 DEF Takes
  <2> QED BY <1>2, <2>1, <2>5
<1>5. ASSUME NEW i \in Ids, NEW r \in Responses, NEW of \in Ids \cup {0},
             thread[i].at = "wait", takeAnswer(i, r, of)
      PROVE  Frees'
  <2>1. UNCHANGED <<outbox, rawRequest, frees, dead>>
    BY <1>5 DEF takeAnswer
  <2>2. thread'[i].at \in {"clear", "taking"} /\ \A j \in Ids : j # i => thread'[j] = thread[j]
    BY <1>0, <1>5 DEF takeAnswer, Types
  <2>3. \A j \in Ids, p \in Requests :
           (Takes(j, p)' <=> Takes(j, p)) /\ (Takes(j, p) => thread'[j] = thread[j])
    BY <1>5, <2>2 DEF Takes
  <2> QED BY <1>2, <2>1, <2>3
<1>6. CASE resetForget
  <2>1. /\ UNCHANGED <<frees, dead, outbox, thread>>
        /\ rawRequest' = [rawRequest EXCEPT ![task.s] = NoRequest]
    BY <1>0, <1>6 DEF resetForget, Types, TaskStates
  <2>2. \A p \in Requests, s \in Sessions : rawRequest'[s] = p => rawRequest[s] = p
    BY <1>0, <2>1, RequestsFinite DEF Types
  <2> QED BY <1>1, <2>1, <2>2
<1>7. CASE UNCHANGED <<frees, dead, outbox, thread, rawRequest>>
  BY <1>1, <1>7
<1> QED
  BY <1>3, <1>4, <1>5, <1>6, <1>7, RefuseFrees, ReadFrees, CloseFrees, ClearFrees, InformFrees,
     ResetFrees DEF Step, numberRequest, engineRestart, resetLook, resetWake, respond, ignoreNormal,
     giveAnswer, niVars, sessionVars

(* Only a restart takes a request away from the thread that looked at it.  *)
LEMMA NullsStep == ASSUME IInv, Step, Types' PROVE Nulls'
<1> USE DEF TaskStates
<1>0. Types /\ Numbers /\ Locks /\ Nulls /\ niRestarts \in Nat /\ niRestarts' \in Nat
  BY RestartsNat DEF IInv, Types
<1> SUFFICES ASSUME niRestarts' = 0 PROVE Nulls'
  BY DEF Nulls
<1>1. niRestarts = 0
  <2>1. ASSUME niRestarts' # niRestarts PROVE engineRestart
    BY <2>1 DEF Step, refuseRequest, acceptRequest, numberRequest, spawnThread, takeAnswer, readRequest,
       closeSession, clearId, informNiResponse, resetLook, resetFree, resetForget, resetWake,
       respond, ignoreNormal, giveAnswer, niVars, sessionVars
  <2>2. engineRestart => niRestarts' = niRestarts + 1
    BY DEF engineRestart
  <2> QED BY <1>0, <2>1, <2>2
<1>2. /\ task.at \notin {"reset", "free", "forget", "wake"}
      /\ \A i \in Ids :
            /\ thread[i].at = "taking" => rawRequest[thread[i].s] # NoRequest
            /\ thread[i].at \in {"closing", "send"} => thread[i].p # NoRequest
      /\ \A k \in Nat : ~Sends(k, NoRequest)
      /\ \A m \in informed : m.p # NoRequest
  BY <1>0, <1>1 DEF Nulls
<1>3. ~engineRestart
  BY <1>1 DEF engineRestart
<1>4. ASSUME task'.at \in {"idle", "number", "spawn"} \/ task' = task, UNCHANGED <<outbox, informed, thread>>,
             \A s \in Sessions : rawRequest'[s] = NoRequest => rawRequest[s] = NoRequest
      PROVE  Nulls'
  <2>1. /\ \A k : Sends(k, NoRequest)' <=> Sends(k, NoRequest)
        /\ \A i \in Ids : thread[i].s \in Sessions
    BY <1>0, <1>4 DEF Sends, Types, ThreadStates
  <2> QED BY <1>2, <1>4, <2>1 DEF Nulls
<1>5. ASSUME NEW s \in Sessions, NEW p \in Requests, acceptRequest(s, p) PROVE Nulls'
  <2>1. \A x \in Sessions : rawRequest'[x] = NoRequest => rawRequest[x] = NoRequest
    BY <1>0, <1>5, RequestsFinite DEF acceptRequest, Types
  <2> QED BY <1>4, <1>5, <2>1 DEF acceptRequest
<1>6. CASE numberRequest
  <2>1. task'.at = "spawn"
    BY <1>0, <1>6, TaskMoves DEF TaskAt
  <2> QED BY <1>4, <1>6, <2>1 DEF numberRequest
<1>7. ASSUME UNCHANGED <<outbox, informed, rawRequest>>, task' = task \/ task'.at = "idle",
             NEW i \in Ids, \A j \in Ids : j # i => thread'[j] = thread[j],
             thread'[i].at = "taking" => rawRequest[thread'[i].s] # NoRequest,
             thread'[i].at \in {"closing", "send"} => thread'[i].p # NoRequest
      PROVE  Nulls'
  <2>1. \A k : Sends(k, NoRequest)' <=> Sends(k, NoRequest)
    BY <1>7 DEF Sends
  <2> QED BY <1>2, <1>7, <2>1 DEF Nulls
<1>8. CASE spawnThread
  <2>1. idOf[task.p] \in Ids /\ task'.at = "idle" /\ UNCHANGED <<outbox, informed, rawRequest>>
    BY <1>0, <1>8 DEF Types, Numbers, spawnThread, sessionVars, Idle
  <2>2. PICK a \in {"wait", "gone"} : thread' = [thread EXCEPT ![idOf[task.p]] =
                     [at |-> a, s |-> task.s, p |-> NoRequest, resp |-> "unset", of |-> 0]]
    BY <1>8 DEF spawnThread
  <2>3. thread'[idOf[task.p]].at = a /\ \A j \in Ids : j # idOf[task.p] => thread'[j] = thread[j]
    BY <1>0, <2>1, <2>2 DEF Types
  <2> QED BY <1>7, <2>1, <2>3
<1>9. ASSUME NEW i \in Ids, NEW r \in Responses, NEW of \in Ids \cup {0},
             thread[i].at = "wait", takeAnswer(i, r, of)
      PROVE  Nulls'
  <2>1. /\ thread'[i].at = IF rawRequest[thread[i].s] = NoRequest THEN "clear" ELSE "taking"
        /\ thread'[i].s = thread[i].s
        /\ \A j \in Ids : j # i => thread'[j] = thread[j]
        /\ UNCHANGED <<outbox, informed, rawRequest, task>>
    BY <1>0, <1>9 DEF takeAnswer, Types
  <2> QED BY <1>7, <2>1
<1>10. ASSUME NEW i \in Ids, readRequest(i) PROVE Nulls'
  <2>1. /\ thread'[i].at = "closing" /\ thread'[i].p = rawRequest[thread[i].s] /\ thread[i].at = "taking"
        /\ \A j \in Ids : j # i => thread'[j] = thread[j]
    BY <1>10, ReadMoves
  <2>2. UNCHANGED <<outbox, informed, rawRequest, task>>
    BY <1>10 DEF readRequest, sessionVars
  <2> QED BY <1>2, <1>7, <2>1, <2>2
<1>11. ASSUME NEW i \in Ids, closeSession(i) PROVE Nulls'
  <2>1. /\ thread[i].at = "closing" /\ thread[i].s \in Sessions
        /\ thread'[i].p = thread[i].p /\ thread'[i].at \in {"clear", "send"}
        /\ \A j \in Ids : j # i => thread'[j] = thread[j]
        /\ \A s \in Sessions : s # thread[i].s => rawRequest'[s] = rawRequest[s]
        /\ UNCHANGED <<outbox, informed, task>>
    BY <1>11, CloseMoves
  <2>2. \A j \in Ids : thread'[j].at = "taking" =>
          thread[j].at = "taking" /\ thread'[j] = thread[j] /\ thread[j].s \in Sessions /\ thread[j].s # thread[i].s
    BY <1>0, <2>1 DEF Locks, Holds, Types, ThreadStates
  <2>3. \A k : Sends(k, NoRequest)' <=> Sends(k, NoRequest)
    BY <2>1 DEF Sends
  <2>4. \A j \in Ids : thread'[j].at \in {"closing", "send"} => thread'[j].p # NoRequest
    BY <1>2, <2>1
  <2>5. \A j \in Ids : thread'[j].at = "taking" => rawRequest'[thread'[j].s] # NoRequest
    BY <1>2, <2>1, <2>2
  <2> QED BY <1>2, <2>1, <2>3, <2>4, <2>5 DEF Nulls
<1>12. ASSUME NEW i \in Ids, clearId(i) PROVE Nulls'
  <2>1. UNCHANGED <<rawRequest, task, informed>> /\ thread[i].at \in {"clear", "send"}
    BY <1>12 DEF clearId
  <2>2. thread'[i].at = "gone" /\ \A j \in Ids : j # i => thread'[j] = thread[j]
    <3>1. thread' = [thread EXCEPT ![i] = ThreadAt(thread[i], "gone")]
      BY <1>0, <1>12, ThreadMoves
    <3>2. ThreadAt(thread[i], "gone") \in ThreadStates
      BY <1>0 DEF Types, ThreadStates, ThreadAt
    <3> QED BY <1>0, <3>1, <3>2, OneMoves DEF ThreadAt
  <2>3. ASSUME NEW k \in Nat, Sends(k, NoRequest)' PROVE FALSE
    <3>1. CASE thread[i].at = "send"
      <4>1. Sends(k, NoRequest) \/ NoRequest = thread[i].p
        BY <1>0, <1>12, <2>3, <3>1, ClearSends
      <4> QED BY <1>2, <3>1, <4>1
    <3>2. CASE thread[i].at # "send"
      <4>1. outbox' = outbox
        BY <1>12, <3>2 DEF clearId
      <4> QED BY <1>2, <2>3, <4>1 DEF Sends
    <3> QED BY <3>1, <3>2
  <2>4. \A j \in Ids :
          /\ thread'[j].at = "taking" => rawRequest'[thread'[j].s] # NoRequest
          /\ thread'[j].at \in {"closing", "send"} => thread'[j].p # NoRequest
    BY <1>2, <2>1, <2>2
  <2> QED BY <1>2, <2>1, <2>3, <2>4 DEF Nulls
<1>13. CASE informNiResponse
  <2>1. /\ UNCHANGED <<rawRequest, thread, task>> /\ informed' = informed \cup {Head(outbox)}
    BY <1>13 DEF informNiResponse, sessionVars
  <2>2. /\ Sends(1, Head(outbox).p)
        /\ \A k \in Nat : Sends(k, NoRequest)' => k + 1 \in Nat /\ Sends(k + 1, NoRequest)
    BY <1>0, <1>13, InformSends
  <2>3. Head(outbox).p # NoRequest
    BY <1>2, <2>2
  <2>4. \A k \in Nat : ~Sends(k, NoRequest)'
    BY <1>2, <2>2
  <2> QED BY <1>2, <2>1, <2>3, <2>4 DEF Nulls
<1>14. CASE UNCHANGED <<task, outbox, informed, thread, rawRequest>>
  BY <1>4, <1>14
<1> QED
  BY <1>2, <1>3, <1>5, <1>6, <1>8, <1>9, <1>10, <1>11, <1>12, <1>13, <1>14 DEF Step, refuseRequest,
     resetLook, resetFree, resetForget, resetWake, respond, ignoreNormal, giveAnswer, niVars, sessionVars

-----------------------------------------------------------------------------
(* The invariant holds in every state. *)
THEOREM Invariant == NiSpec => []IInv
<1>1. IInv /\ [NiNext]_niVars => IInv'
  <2> SUFFICES ASSUME IInv, [NiNext]_niVars PROVE IInv'
    OBVIOUS
  <2>1. Step
    BY StepCases DEF IInv
  <2>2. Types'
    BY <2>1, TypesStep
  <2> QED BY <2>1, <2>2, NumbersStep, BirthsStep, LocksStep, EmergenciesStep, PlacesStep, DeadsStep,
             FreesStep, NullsStep DEF IInv
<1> QED
  BY <1>1, InitInv, PTL DEF NiSpec

(* An emergency is refused only for another emergency, and nothing is      *)
(* accepted during one (loc_eng_ni_request_handler).                       *)
THEOREM EmergencyTheorem == NiSpec => []EmergencyIsLater
<1>1. IInv => EmergencyIsLater
  BY DEF IInv, Emergencies
<1> QED
  BY <1>1, Invariant, PTL

(* A set of at most one element counts one at most. *)
LEMMA AtMostOne ==
    ASSUME NEW S, \A x, y \in S : x = y
    PROVE  /\ Cardinality(S) \in {0, 1}
           /\ S = {} => Cardinality(S) = 0
<1>1. S = {} \/ \E x : S = {x}
  OBVIOUS
<1> QED
  BY <1>1, FS_EmptySet, FS_Singleton

(* The type invariant follows. *)
LEMMA TypeFollows == IInv => NiTypeOK
<1> SUFFICES ASSUME IInv PROVE NiTypeOK
  OBVIOUS
<1>0. Types /\ Numbers /\ Frees
  BY DEF IInv
<1>1. reqIDCounter \in 0..Cardinality(Requests)
  <2>1. Numbered \subseteq Requests
    BY DEF Numbered
  <2>2. Cardinality(Numbered) <= Cardinality(Requests) /\ IsFiniteSet(Numbered)
    BY <2>1, RequestsFinite, FS_Subset
  <2>3. Cardinality(Numbered) \in Nat /\ Cardinality(Requests) \in Nat
    BY <2>2, RequestsFinite, FS_CardinalityType
  <2> QED BY <1>0, <2>2, <2>3 DEF Numbers
<1>2. frees \in [Requests -> 0..2]
  BY <1>0 DEF Types, Frees, Rest
<1>3. InOutbox \cup informed \subseteq Informs
  <2>1. outbox \in Seq(Informs) /\ informed \subseteq Informs
    BY <1>0 DEF Types
  <2>2. \A k \in DOMAIN outbox : outbox[k] \in Informs
    BY <2>1
  <2> QED BY <2>1, <2>2 DEF InOutbox
<1> QED
  BY <1>0, <1>1, <1>2, <1>3 DEF Types, NiTypeOK, Informs, TaskStates, ThreadStates

(* The modem gets at most one answer to a request, whatever threads and    *)
(* restarts do to its session, and unless a restart interferes the request *)
(* is freed once and never missing (ni_thread_proc,                        *)
(* LocEngInformNiResponse).                                                *)
THEOREM AnsweredOnceTheorem == NiSpec => []AnsweredOnce
<1>1. IInv => AnsweredOnce
  <2> SUFFICES ASSUME IInv PROVE AnsweredOnce
    OBVIOUS
  <2>0. Types /\ Places /\ Frees /\ Nulls /\ NiTypeOK
    BY TypeFollows DEF IInv
  <2>2. ASSUME NEW m \in InOutbox \cup informed, m.p = NoRequest PROVE niRestarts > 0
    <3>1. outbox \in Seq(Informs) /\ niRestarts \in Nat
      BY <2>0, RestartsNat DEF Types
    <3>2. DOMAIN outbox = 1..Len(outbox) /\ Len(outbox) \in Nat
      BY <3>1, LenProperties
    <3>3. m \in informed \/ \E k \in Nat : Sends(k, m.p)
      BY <2>2, <3>2 DEF InOutbox, Sends
    <3> QED BY <2>0, <2>2, <3>1, <3>3 DEF Nulls
  <2>3. \A p \in Requests : p \notin dead => frees[p] <= 1
    BY <2>0 DEF Frees, Rest
  <2>1. ASSUME NEW p \in Requests
        PROVE  LET Done == {m \in informed : m.p = p}
               IN  /\ Cardinality(Taken(p)) + Cardinality(Sent(p)) + Cardinality(Done) <= 1
                   /\ Sent(p) \cup Done # {} => \A s \in Sessions : rawRequest[s] # p
    <3> DEFINE Done == {m \in informed : m.p = p}
    <3>1. outbox \in Seq(Informs)
      BY <2>0 DEF Types
    <3>2. DOMAIN outbox = 1..Len(outbox) /\ Len(outbox) \in Nat
      BY <3>1, LenProperties
    <3>3. /\ \A i \in Taken(p) : i \in Ids /\ Takes(i, p)
          /\ \A k \in Sent(p) : k \in Nat /\ Sends(k, p)
      BY <3>2 DEF Taken, Takes, Sent, Sends
    <3>4. /\ \A x, y \in Taken(p) : x = y
          /\ \A x, y \in Sent(p) : x = y
          /\ \A x, y \in Done : x = y
      BY <2>0, <3>3 DEF Places
    <3>5. /\ Taken(p) # {} => Sent(p) = {} /\ Done = {}
          /\ Sent(p) # {} => Done = {}
          /\ Sent(p) \cup Done # {} => \A s \in Sessions : rawRequest[s] # p
      BY <2>0, <3>3 DEF Places
    <3> HIDE DEF Done
    <3>6. /\ Cardinality(Taken(p)) \in {0, 1} /\ (Taken(p) = {} => Cardinality(Taken(p)) = 0)
          /\ Cardinality(Sent(p)) \in {0, 1} /\ (Sent(p) = {} => Cardinality(Sent(p)) = 0)
          /\ Cardinality(Done) \in {0, 1} /\ (Done = {} => Cardinality(Done) = 0)
      BY <3>4, AtMostOne
    <3>7. Cardinality(Taken(p)) + Cardinality(Sent(p)) + Cardinality(Done) <= 1
      BY <3>5, <3>6
    <3> QED BY <3>5, <3>7 DEF Done
  <2> QED BY <2>0, <2>1, <2>2, <2>3 DEF AnsweredOnce
<1> QED
  BY <1>1, Invariant, PTL
=============================================================================
