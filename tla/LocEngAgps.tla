----------------------------- MODULE LocEngAgps -----------------------------
(***************************************************************************)
(* The AGPS state machines at work (loc_eng_agps.cpp, loc_eng.cpp).  The   *)
(* message task hands them one message at a time: requests and releases of *)
(* the modem (by handle) and of the wifi senders, answers of the framework *)
(* that provides agnss, internet and wifi, which all go to the agnss       *)
(* machine (loc.cpp), events of the data service that makes the emergency  *)
(* call of the ds machine, and the modem's restart.                        *)
(* A data call that cannot be made now is tried again by a timer, and      *)
(* replaced by agnss when there is no hope.                                *)
(***************************************************************************)
EXTENDS AgpsStateMachine

CONSTANTS Clients,    \* handles of the modem; those that want wifi, senders
          MaxRetries, \* MAX_START_DATA_CALL_RETRIES
          Settings,   \* what an instance is made of
          NULL

Nifs == {"agnss", "internet", "wifi", "ds"}

(* The NIFs that were made, the clients there are and the NIFs they ask    *)
(* for.  Bounds: how often the modem restarts, and the load at which       *)
(* clients wait.                                                           *)
ASSUME SettingsType ==
    \A s \in Settings :
        /\ s.nifs \cup s.wants \subseteq Nifs /\ s.clients \subseteq Clients
        /\ s.restarts \in Nat /\ s.load \in Nat
ASSUME RetriesNat == MaxRetries \in Nat

VARIABLES setting,
          sm,       \* per NIF: state and subscribers
          mRetries, \* of the ds machine
          timers,   \* how many retry timers run
          queue,    \* the messages to the task
          asked,    \* per NIF: the framework's unanswered requests
          up,       \* per NIF: the framework has it up
          nameless, \* history: it opened a NIF without the name of an APN
          call,     \* the data service's emergency call
          client,   \* per client: what it believes
          restarts

dsVars == <<mRetries, timers, call>>
vars == <<setting, sm, dsVars, queue, asked, up, nameless, client, restarts>>

Statuses == {"GRANTED", "DENIED", "RELEASED"}

Message(what, id, nif) == [what |-> what, id |-> id, nif |-> nif]
InQueue == {queue[i] : i \in DOMAIN queue}

Init ==
    /\ setting \in Settings
    /\ sm = [m \in Nifs |-> Fresh]
    /\ mRetries = 0
    /\ timers = 0
    /\ queue = <<>>
    /\ asked = [m \in Nifs |-> <<>>]
    /\ up = [m \in Nifs |-> FALSE]
    /\ nameless = FALSE
    /\ call = "down"
    /\ client = [c \in Clients |-> [at |-> "idle", nif |-> "agnss"]]
    /\ restarts = 0

(* The machine for a type; emergencies may have to do with agnss. *)
getAgpsStateMachine(nif) ==
    IF nif = "ds" /\ "ds" \notin setting.nifs THEN "agnss" ELSE nif

-----------------------------------------------------------------------------
(* notifyRsrcStatus: which notifications tell the client that its          *)
(* connection is closed, and that it failed.                               *)
Closes(m, status) ==
    (status = "UNSUBSCRIBE" /\ m # "wifi") \/ (status = "RELEASED" /\ m # "ds")

Fails(m, status) == status = "DENIED" /\ m # "ds"

(* What a client makes of it. *)
Hears(at, m, status) ==
    CASE status = "GRANTED" /\ at = "requested" -> "open"
      [] Fails(m, status) /\ at \in {"requested", "releasing"} -> "idle"
      [] Closes(m, status) /\ at \in {"open", "releasing"} -> "idle"
      [] OTHER -> at

notifyRsrcStatus(m, notes) ==
    client' = [c \in Clients |->
        IF \E i \in DOMAIN notes : notes[i].ID = c
        THEN LET i == CHOOSE j \in DOMAIN notes : notes[j].ID = c
             IN  [client[c] EXCEPT !.at = Hears(@, m, notes[i].status)]
        ELSE client[c]]

(* A ds subscriber that is denied is to have agnss. *)
Denied(notes) == {i \in DOMAIN notes : notes[i].status = "DENIED"}
Fallback(notes) ==
    LET denied == Keep(notes, Denied(notes))
    IN  [i \in DOMAIN denied |-> Message("request", denied[i].ID, "agnss")]

(* What openAndStartDataCall can return. *)
DataCallReturns ==
    IF call = "down" THEN {"SUCCESS", "ENGINE_BUSY", "UNSUPPORTED"} ELSE {"ENGINE_BUSY"}

(* DSStateMachine::sendRsrcRequest for a new call: it is busy and will be  *)
(* tried again, or it is hopeless and the newest subscriber falls back.    *)
dsRequest(step, ret, retries) ==
    LET newest == Head(Active(step.mSubscribers)).ID
        hopeless == \/ ret = "UNSUPPORTED"
                    \/ ret = "ENGINE_BUSY" /\ retries + 1 > MaxRetries
        instead == IF hopeless THEN <<Message("request", newest, "agnss")>> ELSE <<>>
    IN  /\ call' = IF ret = "SUCCESS" THEN "starting" ELSE call
        /\ mRetries' = IF hopeless THEN 0
                       ELSE IF ret = "ENGINE_BUSY" THEN retries + 1 ELSE retries
        /\ timers' = IF ret = "ENGINE_BUSY" /\ ~hopeless THEN timers + 1 ELSE timers
        /\ queue' = Tail(queue) \o Fallback(step.notes) \o instead

(* The message at the head of the queue makes machine m take a step.       *)
Take(m, next, ret) ==
    /\ UNCHANGED <<setting, up, nameless, restarts>>
    /\ \E step \in {next} :
        /\ sm' = [sm EXCEPT ![m] = [mStatePtr |-> step.mStatePtr,
                                    mSubscribers |-> step.mSubscribers]]
        /\ notifyRsrcStatus(m, step.notes)
        /\ IF m # "ds"
           THEN /\ asked' = IF step.send = "nothing" THEN asked
                            ELSE [asked EXCEPT ![m] = Append(@, step.send)]
                /\ queue' = Tail(queue)
                /\ UNCHANGED dsVars
           ELSE LET retries == IF Denied(step.notes) = {} THEN mRetries ELSE 0
                IN  /\ UNCHANGED asked
                    /\ IF step.send = "REQUEST"
                       THEN dsRequest(step, ret, retries)
                       ELSE /\ mRetries' = retries
                            /\ queue' = Tail(queue) \o Fallback(step.notes)
                            /\ call' = IF step.send = "RELEASE" /\ call # "down"
                                       THEN "stopping" ELSE call
                            /\ UNCHANGED timers

-----------------------------------------------------------------------------
(* LocEngRequestATL, LocEngRequestSuplEs and LocEngReqRelWifi. *)
Request ==
    /\ queue # <<>> /\ Head(queue).what = "request"
    /\ LET id == Head(queue).id
           m == getAgpsStateMachine(Head(queue).nif)
       IN  IF m \in setting.nifs
           THEN \E ret \in IF m = "ds" THEN DataCallReturns ELSE {"SUCCESS"} :
                  Take(m, subscribeRsrc(m, sm[m], id, ret = "SUCCESS"), ret)
           ELSE /\ client' = [client EXCEPT ![id].at = Hears(@, m, "DENIED")]
                /\ queue' = Tail(queue)
                /\ UNCHANGED <<setting, sm, dsVars, asked, up, nameless, restarts>>

(* The machine a handle is released from: the first that knows it. *)
Subscribed(id) == {m \in setting.nifs : id \in IDs(sm[m].mSubscribers)}
FirstOf(ms) ==
    IF "agnss" \in ms THEN "agnss" ELSE IF "internet" \in ms THEN "internet" ELSE "ds"

(* LocEngReleaseATL and, for wifi, LocEngReqRelWifi. *)
Release ==
    /\ queue # <<>> /\ Head(queue).what = "release"
    /\ LET id == Head(queue).id
           m == IF Head(queue).nif = "wifi" THEN "wifi" ELSE FirstOf(Subscribed(id))
       IN  IF m \in Subscribed(id)
           THEN Take(m, onUnsubscribe(m, sm[m], id), "SUCCESS")
           ELSE /\ client' = [client EXCEPT ![id].at = IF @ = "releasing" THEN "idle" ELSE @]
                /\ queue' = Tail(queue)
                /\ UNCHANGED <<setting, sm, dsVars, asked, up, nameless, restarts>>

(* LocEngAtlOpenSuccess, LocEngAtlClosed, LocEngAtlOpenFailed, and for the *)
(* data call LocEngSuplEsOpened and LocEngSuplEsClosed.  The message of an *)
(* answer names a machine that is NULL when agnss was not made: what       *)
(* follows is undefined, and the behaviour ends there.                     *)
RsrcEvent ==
    /\ queue # <<>> /\ Head(queue).what \in Statuses
    /\ Head(queue).nif \in setting.nifs
    /\ LET m == Head(queue).nif
           step == CASE Head(queue).what = "GRANTED" -> onGranted(sm[m])
                     [] Head(queue).what = "DENIED" -> onDenied(m, sm[m])
                     [] OTHER -> IF m = "ds" THEN onDsReleased(sm[m]) ELSE onReleased(m, sm[m])
       IN  \E ret \in IF m = "ds" /\ step.send = "REQUEST" THEN DataCallReturns ELSE {"SUCCESS"} :
             Take(m, step, ret)

(* Mutant: only agnss loses its subscribers. *)
Dropped_agnss == {"agnss"}

(* The machines that lose their subscribers when the modem is up again. *)
Dropped == {"agnss", "internet"}

(* loc_eng_handle_engine_up *)
EngineUp ==
    /\ queue # <<>> /\ Head(queue).what = "engineUp"
    /\ sm' = [m \in Nifs |-> IF m \in Dropped THEN [sm[m] EXCEPT !.mSubscribers = <<>>] ELSE sm[m]]
    /\ queue' = Tail(queue)
    /\ UNCHANGED <<setting, dsVars, asked, up, nameless, client, restarts>>

MsgTask == Request \/ Release \/ RsrcEvent \/ EngineUp

(* DSStateMachine::retryCallback, for the newest active subscriber. *)
retryCallback ==
    /\ timers > 0
    /\ timers' = timers - 1
    /\ LET subscribers == sm["ds"].mSubscribers
       IN  queue' = IF ActiveAt(subscribers) = {} THEN queue
                    ELSE Append(queue, Message("request", Head(Active(subscribers)).ID, "ds"))
    /\ UNCHANGED <<setting, sm, mRetries, call, asked, up, nameless, client, restarts>>

-----------------------------------------------------------------------------
(* The clients: each asks for one NIF at a time and may change its mind.   *)
(* A handle is used again only when no message about it is on its way.     *)
HasRoom ==
    /\ Len(queue) + timers < setting.load
    /\ \A m \in Nifs : Len(asked[m]) < setting.load

ask(c, nif) ==
    /\ HasRoom
    /\ client[c].at = "idle" /\ \A msg \in InQueue : msg.id # c
    /\ client' = [client EXCEPT ![c] = [at |-> "requested", nif |-> nif]]
    /\ queue' = Append(queue, Message("request", c, nif))
    /\ UNCHANGED <<setting, sm, dsVars, asked, up, nameless, restarts>>

giveBack(c) ==
    /\ HasRoom
    /\ client[c].at \in {"requested", "open"}
    /\ client' = [client EXCEPT ![c].at = "releasing"]
    /\ queue' = Append(queue, Message("release", c, client[c].nif))
    /\ UNCHANGED <<setting, sm, dsVars, asked, up, nameless, restarts>>

(* The modem restarts; it does not use the handles again that were in use. *)
restart ==
    /\ restarts < setting.restarts
    /\ restarts' = restarts + 1
    /\ client' = [c \in Clients |->
         IF client[c].at # "idle" /\ client[c].nif # "wifi" THEN [client[c] EXCEPT !.at = "lost"]
         ELSE client[c]]
    /\ queue' = Append(queue, Message("engineUp", NULL, NULL))
    /\ UNCHANGED <<setting, sm, dsVars, asked, up, nameless>>

(* loc_agps_open, loc_agps_closed and loc_agps_open_failed: the framework  *)
(* does not say which NIF it speaks of, and all are taken for agnss.       *)
LocAgps(status) ==
    queue' = Append(queue, Message(status, NULL, getAgpsStateMachine("agnss")))

(* The framework answers the requests for a NIF in order ...               *)
answer(m) ==
    /\ asked[m] # <<>>
    /\ asked' = [asked EXCEPT ![m] = Tail(@)]
    /\ \E status \in IF Head(asked[m]) = "REQUEST" THEN {"GRANTED", "DENIED"} ELSE {"RELEASED"} :
         /\ up' = [up EXCEPT ![m] = status = "GRANTED"]
         /\ LocAgps(status)
    /\ UNCHANGED <<setting, sm, dsVars, nameless, client, restarts>>

(* ... an answer without the name of an APN is dropped ...                 *)
answerNameless(m) ==
    /\ asked[m] # <<>> /\ Head(asked[m]) = "REQUEST"
    /\ asked' = [asked EXCEPT ![m] = Tail(@)]
    /\ up' = [up EXCEPT ![m] = TRUE]
    /\ nameless' = TRUE
    /\ UNCHANGED <<setting, sm, dsVars, queue, client, restarts>>

(* ... and it can lose a NIF that is up.                                   *)
lose(m) ==
    /\ up[m]
    /\ up' = [up EXCEPT ![m] = FALSE]
    /\ LocAgps("RELEASED")
    /\ UNCHANGED <<setting, sm, dsVars, asked, nameless, client, restarts>>

(* The data service: a call opens or fails, drops, and stops when it is    *)
(* told to. *)
CallChanges(from, to, status) ==
    /\ call = from
    /\ call' = to
    /\ queue' = Append(queue, Message(status, NULL, "ds"))
    /\ UNCHANGED <<setting, sm, mRetries, timers, asked, up, nameless, client, restarts>>

callStarts == CallChanges("starting", "up", "GRANTED") \/ CallChanges("starting", "down", "RELEASED")
callDrops == CallChanges("up", "down", "RELEASED")
callStops == CallChanges("stopping", "down", "RELEASED")

Next ==
    \/ MsgTask \/ retryCallback \/ restart
    \/ \E c \in setting.clients : giveBack(c) \/ \E nif \in setting.wants : ask(c, nif)
    \/ \E m \in Nifs : answer(m) \/ answerNameless(m) \/ lose(m)
    \/ callStarts \/ callDrops \/ callStops

Spec == Init /\ [][Next]_vars

(* The task runs and the framework answers, with a name or without. *)
FairSpec ==
    Spec /\ WF_vars(MsgTask) /\ \A m \in Nifs \ {"ds"} : WF_vars(answer(m) \/ answerNameless(m))
-----------------------------------------------------------------------------
(* The type invariant. *)
TypeOK ==
    /\ setting \in Settings
    /\ \A m \in Nifs :
         /\ sm[m].mStatePtr \in States
         /\ IDs(sm[m].mSubscribers) \subseteq Clients
         /\ \A i, j \in DOMAIN sm[m].mSubscribers :
              sm[m].mSubscribers[i].ID = sm[m].mSubscribers[j].ID => i = j
    /\ mRetries \in 0..MaxRetries
    /\ timers \in Nat
    /\ InQueue \subseteq [what : {"request", "release", "engineUp"} \cup Statuses,
                          id : Clients \cup {NULL}, nif : Nifs \cup {NULL}]
    /\ up \in [Nifs -> BOOLEAN] /\ nameless \in BOOLEAN
    /\ call \in {"down", "starting", "up", "stopping"}
    /\ client \in [Clients -> [at : {"idle", "requested", "open", "releasing", "lost"}, nif : Nifs]]
    /\ restarts \in 0..setting.restarts

(* "Error: %s subscriber list not empty!!!" is never logged but for ds:    *)
(* the machine that has no NIF has no subscribers, one that has or expects *)
(* the NIF has somebody who wants it, unless the modem restarted, and one  *)
(* that gives it back has somebody who waits for that.  Nobody is on a     *)
(* list twice.                                                             *)
SubscribersMatchState ==
    /\ TypeOK
    /\ \A m \in Nifs \ {"ds"} :
        LET s == sm[m]
        IN  /\ s.mStatePtr = "Released" => s.mSubscribers = <<>>
            /\ s.mStatePtr \in {"Pending", "Acquired"} /\ ActiveAt(s.mSubscribers) = {}
                 => restarts > 0
            /\ s.mStatePtr = "Releasing" => InactiveAt(s.mSubscribers) # {}

ClientsOf(m) == {c \in setting.clients : getAgpsStateMachine(client[c].nif) = m}

(* What a client believes and what its machine knows agree, or a message   *)
(* of the client is on its way; a handle that was in use when the modem    *)
(* restarted does not keep a NIF up (the ds machine can break all this).   *)
ViewsAgree ==
    "ds" \notin setting.nifs =>
      \A m \in setting.nifs : \A c \in ClientsOf(m) :
        LET s == sm[m]
            active == \E i \in ActiveAt(s.mSubscribers) : s.mSubscribers[i].ID = c
            Queued(what) == \E msg \in InQueue : msg.what = what /\ msg.id = c
        IN  /\ client[c].at = "open" => active /\ s.mStatePtr = "Acquired"
            /\ client[c].at = "requested" =>
                 Queued("request") \/ (active /\ s.mStatePtr \in {"Pending", "Releasing"})
            /\ client[c].at = "releasing" =>
                 Queued("release")
                   \/ \E i \in InactiveAt(s.mSubscribers) : s.mSubscribers[i].ID = c
            /\ client[c].at = "idle" => ~active \/ Queued("release")
            /\ client[c].at = "lost" => ~active \/ Message("engineUp", NULL, NULL) \in InQueue

(* The emergency call is not left on: while it is made or up the ds        *)
(* machine expects or has it, or an event that ends that is on its way.    *)
DataCallOwned ==
    call \in {"starting", "up"} => sm["ds"].mStatePtr \in {"Pending", "Acquired"}

(* "tell the client it is unsubscribed": a client that has given back its  *)
(* emergency connection is not a subscriber any more.                      *)
UnsubscribedIsOff ==
    \A c \in Clients :
        client[c].at = "idle" /\ (\A msg \in InQueue : msg.id # c)
            => \A i \in ActiveAt(sm["ds"].mSubscribers) : sm["ds"].mSubscribers[i].ID # c

OnlyAgnss == "agnss" \in setting.nifs /\ "ds" \notin setting.nifs

(* Every request for agnss is answered, whichever request the framework    *)
(* answers and whatever machine its answers are taken for, unless it opens *)
(* a NIF without a name; and whoever gives agnss or internet back is done. *)
(* (Wifi is never closed: AnswersInform.  The ds machine can keep a client *)
(* waiting, and without agnss an answer is undefined.)                     *)
RequestsAnswered ==
    \A c \in Clients :
        LET Waits ==
              /\ OnlyAgnss
              /\ \/ client[c].at = "requested" /\ getAgpsStateMachine(client[c].nif) = "agnss"
                 \/ client[c].at = "releasing" /\ client[c].nif # "wifi"
        IN  Waits ~> ~Waits \/ nameless

(* "It should inform ARM 9 about the data open result": a client that      *)
(* waits for a NIF hears of the framework's answer.                        *)
AnswersInform ==
    \A c \in Clients :
        client[c].at = "requested" /\ OnlyAgnss ~> client[c].at # "requested" \/ nameless
=============================================================================
