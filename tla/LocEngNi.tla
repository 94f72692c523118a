------------------------------ MODULE LocEngNi ------------------------------
(***************************************************************************)
(* Network initiated requests (loc_eng_ni.cpp): the network asks, through  *)
(* the modem, for a position; the user allows or denies it; the answer     *)
(* goes back.  Two sessions, one for emergencies.  Who works on them:      *)
(*   - the message task accepts requests, sends answers to the modem and   *)
(*     clears the sessions when the modem restarts;                        *)
(*   - a detached thread per request waits for the answer or a timeout;    *)
(*   - the framework delivers the user's answers (loc_eng_ni_respond).     *)
(* tLock protects resp and respRecvd only; rawRequest and reqID are read   *)
(* and written without it as well, so each such access is a step: the      *)
(* thread looks at rawRequest, reads it again and clears it, while the     *)
(* message task frees and clears it.  A thread in pthread_cond_timedwait   *)
(* may look at respRecvd at any time (spurious wake-ups are allowed),      *)
(* which makes the signals redundant.                                      *)
(***************************************************************************)
EXTENDS Naturals, FiniteSets, Sequences

CONSTANTS Requests,    \* the passThrough objects of the requests
          MaxRestarts, \* bound: how often the modem restarts
          NoRequest

ASSUME RequestsFinite == IsFiniteSet(Requests) /\ NoRequest \notin Requests
ASSUME RestartsNat == MaxRestarts \in Nat

VARIABLES rawRequest,   \* per session: the request in progress
          reqID,        \* per session: its notification id
          respRecvd,    \* per session: an answer has come
          resp,         \* per session: the answer
          reqIDCounter,
          task,         \* what the message task is in the middle of
          thread,       \* per notification id: the thread that waits
          user,         \* loc_eng_ni_respond in progress
          outbox,       \* the queue of LocEngInformNiResponse messages
          niRestarts,
          idOf,         \* history: the id a request was given, 0 before
          unanswered,   \* history: the ids the user has not answered yet
          respOf,       \* history, per session: the id resp is an answer to
          informed,     \* history: the answers given to the modem
          frees,        \* history: how often a request was freed
          dead,         \* history: the requests a restart freed
          refusals      \* history: what was refused, and what was in progress

sessionVars == <<rawRequest, reqID, respRecvd, resp, respOf>>
niVars == <<sessionVars, reqIDCounter, task, thread, user, outbox, niRestarts, idOf,
          unanswered, informed, frees, dead, refusals>>

Sessions == {"session", "sessionEs"}
Ids == 1..Cardinality(Requests)
Answers == {"ACCEPT", "DENY"}  \* what a user can say, once per notification
Responses == Answers \cup {"NORESP", "IGNORE", "unset"}

Idle == [at |-> "idle", s |-> "session", p |-> NoRequest]
NoAnswer == [at |-> "idle", s |-> "session", id |-> 0, resp |-> "unset"]
Unborn == [at |-> "unborn", s |-> "session", p |-> NoRequest, resp |-> "unset", of |-> 0]

NiInit ==
    /\ rawRequest = [s \in Sessions |-> NoRequest]
    /\ reqID = [s \in Sessions |-> 0]
    /\ respRecvd = [s \in Sessions |-> FALSE]
    /\ resp = [s \in Sessions |-> "unset"]
    /\ reqIDCounter = 0
    /\ task = Idle
    /\ thread = [i \in Ids |-> Unborn]
    /\ user = NoAnswer
    /\ outbox = <<>>
    /\ niRestarts = 0
    /\ idOf = [p \in Requests |-> 0]
    /\ unanswered = {}
    /\ respOf = [s \in Sessions |-> 0]
    /\ informed = {}
    /\ frees = [p \in Requests |-> 0]
    /\ dead = {}
    /\ refusals = {}

(* free(p), which does nothing if p is NULL. *)
Free(p) == frees' = [q \in Requests |-> IF q = p THEN frees[q] + 1 ELSE frees[q]]

(* A request the network has not made yet. *)
New(p) == idOf[p] = 0 /\ frees[p] = 0 /\ \A s \in Sessions : rawRequest[s] # p

(* tLock is held across steps only by a thread that takes its answer. *)
Locked(s) == \E i \in Ids : thread[i].at \in {"taking", "closing"} /\ thread[i].s = s

-----------------------------------------------------------------------------
(* loc_eng_ni_request_handler: a session that is busy refuses the request, *)
(* an emergency in progress refuses all (mutant: only its own) ...         *)
Busy_sameSession(s) == rawRequest[s] # NoRequest

Busy(s) == rawRequest[s] # NoRequest \/ rawRequest["sessionEs"] # NoRequest

refuseRequest(s, p) ==
    /\ task.at = "idle"
    /\ New(p)
    /\ Busy(s)
    /\ Free(p)
    /\ refusals' = refusals \cup {[s |-> s, busy |-> {t \in Sessions : rawRequest[t] # NoRequest}]}
    /\ UNCHANGED <<sessionVars, reqIDCounter, task, thread, user, outbox, niRestarts>>
    /\ UNCHANGED <<idOf, unanswered, informed, dead>>

acceptRequest(s, p) ==
    /\ task.at = "idle"
    /\ New(p)
    /\ ~Busy(s)
    /\ rawRequest' = [rawRequest EXCEPT ![s] = p]
    /\ task' = [at |-> "number", s |-> s, p |-> p]
    /\ UNCHANGED <<reqID, respRecvd, resp, respOf, reqIDCounter, thread, user, outbox>>
    /\ UNCHANGED <<niRestarts, idOf, unanswered, informed, frees, dead, refusals>>

(* ... a request that is accepted gets the next id ... *)
numberRequest ==
    /\ task.at = "number"
    /\ reqIDCounter' = reqIDCounter + 1
    /\ reqID' = [reqID EXCEPT ![task.s] = reqIDCounter + 1]
    /\ idOf' = [idOf EXCEPT ![task.p] = reqIDCounter + 1]
    /\ task' = [task EXCEPT !.at = "spawn"]
    /\ UNCHANGED <<rawRequest, respRecvd, resp, respOf, thread, user, outbox, niRestarts>>
    /\ UNCHANGED <<unanswered, informed, frees, dead, refusals>>

(* ... and a thread, and the framework is notified.  Nothing but the log   *)
(* changes if the thread cannot be created.                                *)
spawnThread ==
    /\ task.at = "spawn"
    /\ \E place \in {"wait", "gone"} :
          thread' = [thread EXCEPT ![idOf[task.p]] =
                       [at |-> place, s |-> task.s, p |-> NoRequest, resp |-> "unset", of |-> 0]]
    /\ unanswered' = unanswered \cup {idOf[task.p]}
    /\ task' = Idle
    /\ UNCHANGED <<sessionVars, reqIDCounter, user, outbox, niRestarts, idOf, informed>>
    /\ UNCHANGED <<frees, dead, refusals>>

-----------------------------------------------------------------------------
(* ni_thread_proc, under tLock: an answer, or the timeout, which wins over *)
(* an answer that arrives with it.  A session without a request is left at *)
(* once ...                                                                *)
takeAnswer(i, r, of) ==
    LET s == thread[i].s
    IN  /\ ~Locked(s)
        /\ resp' = [resp EXCEPT ![s] = r]
        /\ respOf' = [respOf EXCEPT ![s] = of]
        /\ respRecvd' = [respRecvd EXCEPT ![s] = FALSE]
        /\ thread' = [thread EXCEPT ![i] =
                         [at |-> IF rawRequest[s] = NoRequest THEN "clear" ELSE "taking",
                          s |-> s, p |-> NoRequest, resp |-> r, of |-> of]]
        /\ UNCHANGED <<rawRequest, reqID, reqIDCounter, task, user, outbox, niRestarts>>
        /\ UNCHANGED <<idOf, unanswered, informed, frees, dead, refusals>>

answered(i) ==
    /\ thread[i].at = "wait"
    /\ respRecvd[thread[i].s]
    /\ takeAnswer(i, resp[thread[i].s], respOf[thread[i].s])

timedOut(i) ==
    /\ thread[i].at = "wait"
    /\ takeAnswer(i, "NORESP", 0)

(* ... the request is read again, to be put into the message or freed if   *)
(* it is to be ignored ...                                                 *)
readRequest(i) ==
    LET t == thread[i]
    IN  /\ t.at = "taking"
        /\ thread' = [thread EXCEPT ![i] = [at |-> "closing", s |-> t.s, p |-> rawRequest[t.s],
                                            resp |-> t.resp, of |-> t.of]]
        /\ IF t.resp = "IGNORE" THEN Free(rawRequest[t.s]) ELSE UNCHANGED frees
        /\ UNCHANGED <<sessionVars, reqIDCounter, task, user, outbox>>
        /\ UNCHANGED <<niRestarts, idOf, unanswered, informed, dead, refusals>>

(* Mutant: the thread leaves the request in the session. *)
closeSession_keepsRequest(i) ==
    LET t == thread[i]
    IN  /\ t.at = "closing"
        /\ thread' = [thread EXCEPT ![i].at = IF t.resp = "IGNORE" THEN "clear" ELSE "send"]
        /\ UNCHANGED <<sessionVars, reqIDCounter, task, user, outbox>>
        /\ UNCHANGED <<niRestarts, idOf, unanswered, informed, frees, dead, refusals>>

(* ... the session is free again, tLock is released ...                    *)
closeSession(i) ==
    LET t == thread[i]
    IN  /\ t.at = "closing"
        /\ rawRequest' = [rawRequest EXCEPT ![t.s] = NoRequest]
        /\ thread' = [thread EXCEPT ![i].at = IF t.resp = "IGNORE" THEN "clear" ELSE "send"]
        /\ UNCHANGED <<reqID, respRecvd, resp, respOf, reqIDCounter, task, user, outbox>>
        /\ UNCHANGED <<niRestarts, idOf, unanswered, informed, frees, dead, refusals>>

(* ... then the id goes, whosever it is by now, and the message is sent to *)
(* the message task.                                                       *)
clearId(i) ==
    LET t == thread[i]
    IN  /\ t.at \in {"clear", "send"}
        /\ reqID' = [reqID EXCEPT ![t.s] = 0]
        /\ outbox' = IF t.at = "send"
                     THEN Append(outbox, [p |-> t.p, resp |-> t.resp, of |-> t.of])
                     ELSE outbox
        /\ thread' = [thread EXCEPT ![i].at = "gone"]
        /\ UNCHANGED <<rawRequest, respRecvd, resp, respOf, reqIDCounter, task, user>>
        /\ UNCHANGED <<niRestarts, idOf, unanswered, informed, frees, dead, refusals>>

(* Mutant: the message does not own its payload. *)
informNiResponse_leaks ==
    /\ task.at = "idle"
    /\ outbox # <<>>
    /\ outbox' = Tail(outbox)
    /\ informed' = informed \cup {Head(outbox)}
    /\ UNCHANGED <<sessionVars, reqIDCounter, task, thread, user, niRestarts, idOf, unanswered>>
    /\ UNCHANGED <<frees, dead, refusals>>

(* LocEngInformNiResponse: the modem is informed, the request freed. *)
informNiResponse ==
    /\ task.at = "idle"
    /\ outbox # <<>>
    /\ outbox' = Tail(outbox)
    /\ informed' = informed \cup {Head(outbox)}
    /\ Free(Head(outbox).p)
    /\ UNCHANGED <<sessionVars, reqIDCounter, task, thread, user, niRestarts, idOf, unanswered>>
    /\ UNCHANGED <<dead, refusals>>

-----------------------------------------------------------------------------
(* loc_eng_ni_reset_on_engine_restart, first for the emergency session:    *)
(* without the lock the request is looked for ...                          *)
engineRestart ==
    /\ task.at = "idle"
    /\ niRestarts < MaxRestarts
    /\ niRestarts' = niRestarts + 1
    /\ task' = [at |-> "reset", s |-> "sessionEs", p |-> NoRequest]
    /\ UNCHANGED <<sessionVars, reqIDCounter, thread, user, outbox, idOf, unanswered>>
    /\ UNCHANGED <<informed, frees, dead, refusals>>

AfterReset(s) ==
    IF s = "sessionEs" THEN [at |-> "reset", s |-> "session", p |-> NoRequest] ELSE Idle

resetLook ==
    /\ task.at = "reset"
    /\ task' = IF rawRequest[task.s] = NoRequest THEN AfterReset(task.s)
               ELSE [task EXCEPT !.at = "free"]
    /\ UNCHANGED <<sessionVars, reqIDCounter, thread, user, outbox, niRestarts, idOf>>
    /\ UNCHANGED <<unanswered, informed, frees, dead, refusals>>

(* ... freed ...                                                           *)
resetFree ==
    /\ task.at = "free"
    /\ task' = [task EXCEPT !.at = "forget"]
    /\ Free(rawRequest[task.s])
    /\ dead' = dead \cup ({rawRequest[task.s]} \ {NoRequest})
    /\ UNCHANGED <<sessionVars, reqIDCounter, thread, user, outbox, niRestarts, idOf>>
    /\ UNCHANGED <<unanswered, informed, refusals>>

(* ... and forgotten, and under the lock the thread is told to leave. *)
resetForget ==
    /\ task.at = "forget"
    /\ rawRequest' = [rawRequest EXCEPT ![task.s] = NoRequest]
    /\ task' = [task EXCEPT !.at = "wake"]
    /\ UNCHANGED <<reqID, respRecvd, resp, respOf, reqIDCounter, thread, user, outbox>>
    /\ UNCHANGED <<niRestarts, idOf, unanswered, informed, frees, dead, refusals>>

resetWake ==
    /\ task.at = "wake"
    /\ ~Locked(task.s)
    /\ respRecvd' = [respRecvd EXCEPT ![task.s] = TRUE]
    /\ task' = AfterReset(task.s)
    /\ UNCHANGED <<rawRequest, reqID, resp, respOf, reqIDCounter, thread, user, outbox>>
    /\ UNCHANGED <<niRestarts, idOf, unanswered, informed, frees, dead, refusals>>

-----------------------------------------------------------------------------
(* loc_eng_ni_respond: the session is chosen by the id, without a lock ... *)
respond(id, r) ==
    /\ user.at = "idle"
    /\ id \in unanswered
    /\ unanswered' = unanswered \ {id}
    /\ \/ /\ reqID["sessionEs"] = id /\ rawRequest["sessionEs"] # NoRequest
          /\ user' = [at |-> IF r = "ACCEPT" /\ rawRequest["session"] # NoRequest
                             THEN "ignore" ELSE "answer",
                      s |-> "sessionEs", id |-> id, resp |-> r]
       \/ /\ ~ (reqID["sessionEs"] = id /\ rawRequest["sessionEs"] # NoRequest)
          /\ reqID["session"] = id /\ rawRequest["session"] # NoRequest
          /\ user' = [at |-> "answer", s |-> "session", id |-> id, resp |-> r]
       \/ /\ \A s \in Sessions : ~ (reqID[s] = id /\ rawRequest[s] # NoRequest)
          /\ UNCHANGED user
    /\ UNCHANGED <<sessionVars, reqIDCounter, task, thread, outbox, niRestarts, idOf>>
    /\ UNCHANGED <<informed, frees, dead, refusals>>

(* ... a normal request is ignored for an emergency that is accepted ...   *)
ignoreNormal ==
    /\ user.at = "ignore"
    /\ ~Locked("session")
    /\ resp' = [resp EXCEPT !["session"] = "IGNORE"]
    /\ respOf' = [respOf EXCEPT !["session"] = 0]
    /\ respRecvd' = [respRecvd EXCEPT !["session"] = TRUE]
    /\ user' = [user EXCEPT !.at = "answer"]
    /\ UNCHANGED <<rawRequest, reqID, reqIDCounter, task, thread, outbox, niRestarts>>
    /\ UNCHANGED <<idOf, unanswered, informed, frees, dead, refusals>>

(* ... and the answer is put into the session, without another look at the *)
(* id. *)
giveAnswer ==
    /\ user.at = "answer"
    /\ ~Locked(user.s)
    /\ resp' = [resp EXCEPT ![user.s] = user.resp]
    /\ respOf' = [respOf EXCEPT ![user.s] = user.id]
    /\ respRecvd' = [respRecvd EXCEPT ![user.s] = TRUE]
    /\ user' = NoAnswer
    /\ UNCHANGED <<rawRequest, reqID, reqIDCounter, task, thread, outbox, niRestarts>>
    /\ UNCHANGED <<idOf, unanswered, informed, frees, dead, refusals>>

NiMsgTask ==
    \/ numberRequest \/ spawnThread
    \/ resetLook \/ resetFree \/ resetForget \/ resetWake
    \/ informNiResponse

Modem ==
    \/ engineRestart
    \/ \E s \in Sessions, p \in Requests : acceptRequest(s, p) \/ refuseRequest(s, p)

NiThread(i) ==
    answered(i) \/ timedOut(i) \/ readRequest(i) \/ closeSession(i) \/ clearId(i)

Framework == (\E i \in Ids, r \in Answers : respond(i, r)) \/ ignoreNormal \/ giveAnswer

NiNext == Modem \/ NiMsgTask \/ Framework \/ \E i \in Ids : NiThread(i)

NiSpec == NiInit /\ [][NiNext]_niVars

(* Threads run and timeouts come; neither modem nor user have to act. *)
NiFairSpec == NiSpec /\ WF_niVars(NiMsgTask) /\ \A i \in Ids : WF_niVars(NiThread(i))
-----------------------------------------------------------------------------
InOutbox == {outbox[k] : k \in DOMAIN outbox}

(* The type invariant.  A request is freed at most twice. *)
NiTypeOK ==
    /\ rawRequest \in [Sessions -> Requests \cup {NoRequest}]
    /\ reqID \in [Sessions -> Ids \cup {0}]
    /\ respRecvd \in [Sessions -> BOOLEAN]
    /\ resp \in [Sessions -> Responses]
    /\ reqIDCounter \in 0..Cardinality(Requests)
    /\ task \in [at : {"idle", "number", "spawn", "reset", "free", "forget", "wake"},
                 s : Sessions, p : Requests \cup {NoRequest}]
    /\ thread \in [Ids -> [at : {"unborn", "wait", "taking", "closing", "clear", "send", "gone"},
                           s : Sessions, p : Requests \cup {NoRequest}, resp : Responses,
                           of : Ids \cup {0}]]
    /\ user \in [at : {"idle", "ignore", "answer"}, s : Sessions, id : Ids \cup {0},
                 resp : Responses]
    /\ InOutbox \cup informed \subseteq [p : Requests \cup {NoRequest},
                                         resp : Responses \ {"IGNORE"}, of : Ids \cup {0}]
    /\ niRestarts \in 0..MaxRestarts
    /\ idOf \in [Requests -> Ids \cup {0}]
    /\ unanswered \subseteq Ids
    /\ respOf \in [Sessions -> Ids \cup {0}]
    /\ frees \in [Requests -> 0..2]
    /\ dead \subseteq Requests
    /\ refusals \subseteq [s : Sessions, busy : SUBSET Sessions]

Taken(p) == {i \in Ids : thread[i].at \in {"closing", "send"} /\ thread[i].p = p}
Sent(p) == {k \in DOMAIN outbox : outbox[k].p = p}

(* The modem gets at most one answer to a request, even when a restart and *)
(* a new request put two threads on one session: whoever takes a request   *)
(* takes it away from the other.  Every request is freed once, a second    *)
(* time only if a restart freed it, and unless the modem restarted no      *)
(* answer goes out without its request.                                    *)
AnsweredOnce ==
    /\ NiTypeOK
    /\ \A p \in Requests :
          LET Done == {m \in informed : m.p = p}
          IN  /\ Cardinality(Taken(p)) + Cardinality(Sent(p)) + Cardinality(Done) <= 1
              /\ Sent(p) \cup Done # {} => \A s \in Sessions : rawRequest[s] # p
              /\ p \notin dead => frees[p] <= 1
    /\ (\E m \in InOutbox \cup informed : m.p = NoRequest) => niRestarts > 0

(* An emergency is refused only for another emergency, never for a normal  *)
(* request, and nothing is accepted during one: while both sessions have a *)
(* request in progress the emergency is the later one.                     *)
EmergencyIsLater ==
    /\ \A r \in refusals : r.s = "sessionEs" => "sessionEs" \in r.busy
    /\ rawRequest["session"] # NoRequest /\ rawRequest["sessionEs"] # NoRequest =>
          LET id == idOf[rawRequest["sessionEs"]]
          IN  id = 0 \/ id > idOf[rawRequest["session"]]

Awaited(p) ==
    \E s \in Sessions :
        rawRequest[s] = p /\ \E i \in Ids : thread[i].at = "wait" /\ thread[i].s = s

(* While a thread waits on it no session is occupied for ever, whatever    *)
(* the user, the timeouts and restarts do and whosever thread it is.  (A   *)
(* thread that could not be created waits on nothing: line 177.)           *)
SessionsEnd == \A p \in Requests : Awaited(p) ~> \A s \in Sessions : rawRequest[s] # p

(* ... and its request is freed: by the message to the modem, because it   *)
(* is ignored, or by a restart. *)
RequestsFreed == \A p \in Requests : Awaited(p) ~> frees[p] > 0

(* "ID to check against response": an answer of the user goes to the modem *)
(* only for the request the user was asked about.                          *)
AnswerIsForRequest ==
    \A m \in informed : m.p # NoRequest /\ m.resp \in Answers => m.of = idOf[m.p]

(* "We need the thread to exit without calling sending data.  We made sure *)
(* that rawRequest is NULL" at a restart, and "mPayload actually won't be  *)
(* NULL here": a message has its request, and the request is not freed.    *)
PayloadIsLive ==
    \A m \in InOutbox : m.p # NoRequest /\ m.p \notin dead
=============================================================================
