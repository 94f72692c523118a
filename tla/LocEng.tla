-------------------------------- MODULE LocEng --------------------------------
(***************************************************************************)
(* The location engine (loc_eng.cpp, LocEngAdapter.cpp).  Calls of the     *)
(* framework and reports of the modem become messages that one task        *)
(* handles in order: it starts and stops the session in the modem, reports *)
(* positions, ends single-shot sessions, mutes one session of the network, *)
(* keeps the deletion of aiding data until the engine is off, and restarts *)
(* a session whose modem crashed.                                          *)
(***************************************************************************)
EXTENDS Naturals, Sequences

CONSTANTS Data,  \* kinds of aiding data
          Fixes, \* the positions the modem reports
          EngLimits \* bounds: how often calls, positions, crashes and requests of
                 \* the network come, and the length of queue at which they wait

Recurrences == {"periodic", "single"}
Modes == {"invalid", "standalone"}
FixCriteria == [mode : Modes, recurrence : Recurrences]

ASSUME FixesType ==
    Fixes \subseteq [status : {"success", "intermediate", "failure"},
                     satellite : BOOLEAN, inaccurate : BOOLEAN]
EngBounds == [calls : Nat, fixes : Nat, crashes : Nat, requests : Nat, room : Nat]
ASSUME LimitsNat == EngLimits \subseteq EngBounds

VARIABLES created,          \* loc_eng_data.adapter is there
          queue,            \* the messages to the task
          intermediateFix,  \* intermediate positions are accepted
          mNavigating, mFixCriteria,      \* of the adapter
          mute_session_state, engine_status,
          aiding_data_for_deletion,
          gpsModem,
          wish,    \* what the framework asked for last
          outcome, \* what became of the session
          crashed, \* the modem crashed before
          owed,    \* data asked to be deleted and not yet deleted: of all the
                   \* requests, and of the last
          remaining     \* of the limits

engVars == <<mNavigating, mFixCriteria, mute_session_state, engine_status,
             aiding_data_for_deletion>>
locEngVars == <<created, queue, intermediateFix, engVars, gpsModem, wish, outcome, crashed, owed, remaining>>

Message(what, arg) == [what |-> what, arg |-> arg]

EngInit ==
    /\ created = FALSE
    /\ queue = <<>>
    /\ intermediateFix \in BOOLEAN
    /\ mNavigating = FALSE
    /\ mFixCriteria = [mode |-> "invalid", recurrence |-> "periodic"]
    /\ mute_session_state = "none"
    /\ engine_status = "none"
    /\ aiding_data_for_deletion = {}
    /\ gpsModem = [at |-> "up", running |-> FALSE, finished |-> FALSE, configured |-> FALSE,
                criteria |-> mFixCriteria, network |-> FALSE,
                told |-> [session |-> FALSE, engine |-> FALSE], rising |-> FALSE]
    /\ wish = "no"
    /\ outcome = "fine"
    /\ crashed = FALSE
    /\ owed = [all |-> {}, last |-> {}]
    /\ remaining \in EngLimits

-----------------------------------------------------------------------------
(* The framework's calls. *)
HasRoom == Len(queue) < remaining.room

Call ==
    /\ created /\ HasRoom /\ remaining.calls > 0
    /\ remaining' = [remaining EXCEPT !.calls = @ - 1]
    /\ UNCHANGED <<created, intermediateFix, engVars, gpsModem, outcome, crashed>>

loc_eng_init ==
    /\ ~created
    /\ created' = TRUE
    /\ queue' = <<Message("LocOpen", {}), Message("LocEngInit", {})>>
    /\ UNCHANGED <<intermediateFix, engVars, gpsModem, wish, outcome, crashed, owed, remaining>>

loc_eng_start ==
    /\ Call
    /\ queue' = Append(queue, Message("StartFix", {}))
    /\ wish' = "yes"
    /\ UNCHANGED owed

loc_eng_stop ==
    /\ Call
    /\ queue' = Append(queue, Message("StopFix", {}))
    /\ wish' = "no"
    /\ UNCHANGED owed

loc_eng_set_position_mode ==
    /\ Call
    /\ \E r \in Recurrences :
         queue' = Append(queue, Message("PositionMode", r))
    /\ UNCHANGED <<wish, owed>>

loc_eng_delete_aiding_data ==
    /\ Call
    /\ \E data \in (SUBSET Data) \ {{}} :
         /\ queue' = Append(queue, Message("DelAidData", data))
         /\ owed' = [all |-> owed.all \cup data, last |-> data]
    /\ UNCHANGED wish

(* Reads the session's flag on the caller's thread; a start that is still *)
(* on its way is not stopped. *)
loc_eng_cleanup ==
    /\ Call
    /\ IF mNavigating
       THEN /\ queue' = Append(queue, Message("StopFix", {}))
            /\ wish' = "no"
       ELSE /\ UNCHANGED queue
            /\ wish' = IF wish = "yes" THEN "unknown" ELSE wish
    /\ UNCHANGED owed

-----------------------------------------------------------------------------
(* The message task. *)
Handle(what) ==
    /\ queue # <<>> /\ Head(queue).what = what
    /\ UNCHANGED <<created, intermediateFix, wish, crashed, remaining>>

Handled == queue' = Tail(queue)

(* LocEngAdapter::setInSession, as the criteria it leaves. *)
Criteria(inSession) ==
    IF inSession THEN mFixCriteria ELSE [mFixCriteria EXCEPT !.mode = "invalid"]

(* Mutant: a start that meets a dead engine is forgotten. *)
Accepted_success == {"success"}

(* What startFix may return for the session to be on. *)
Accepted == {"success", "engine_down", "phone_offline", "internal"}

(* loc_eng_start_handler out of a session. *)
startFix(criteria, result) ==
    /\ gpsModem' = IF result = "success"
                THEN [gpsModem EXCEPT !.running = TRUE, !.finished = FALSE, !.criteria = criteria]
                ELSE gpsModem
    /\ mNavigating' = (result \in Accepted)
    /\ mFixCriteria' = criteria
    /\ outcome' = CASE result \in {"phone_offline", "internal"} -> "offline"
                    [] result = "failure" -> "ended"
                    [] OTHER -> "fine"

Results == IF gpsModem.at = "open" THEN {"success", "phone_offline", "internal", "failure"}
           ELSE {"engine_down"}

StartFix ==
    /\ Handle("StartFix") /\ Handled
    /\ IF mNavigating
       THEN UNCHANGED <<mNavigating, mFixCriteria, gpsModem, outcome>>
       ELSE \E result \in Results : startFix(mFixCriteria, result)
    /\ UNCHANGED <<mute_session_state, engine_status, aiding_data_for_deletion, owed>>

StopFix ==
    /\ Handle("StopFix") /\ Handled
    /\ IF mNavigating
       THEN /\ gpsModem' = [gpsModem EXCEPT !.running = FALSE, !.finished = FALSE]
            /\ mNavigating' = FALSE
            /\ mFixCriteria' = Criteria(FALSE)
       ELSE UNCHANGED <<mNavigating, mFixCriteria, gpsModem>>
    /\ UNCHANGED <<mute_session_state, engine_status, aiding_data_for_deletion, outcome, owed>>

PositionMode ==
    /\ Handle("PositionMode") /\ Handled
    /\ mFixCriteria' = [mode |-> "standalone", recurrence |-> Head(queue).arg]
    /\ gpsModem' = IF gpsModem.at = "open" THEN [gpsModem EXCEPT !.criteria = mFixCriteria'] ELSE gpsModem
    /\ UNCHANGED <<mNavigating, mute_session_state, engine_status,
                   aiding_data_for_deletion, outcome, owed>>

(* LocEngReportPosition: a failure, a final position of the satellites, or *)
(* any that is accurate enough when intermediate ones are accepted.        *)
Reportable(fix) ==
    \/ fix.status = "failure"
    \/ fix.status = "success" /\ fix.satellite
    \/ intermediateFix /\ ~fix.inaccurate

ReportPosition ==
    /\ Handle("ReportPosition") /\ Handled
    /\ LET fix == Head(queue).arg
           ends == /\ mute_session_state # "in_session"
                   /\ Reportable(fix)
                   /\ mFixCriteria.recurrence = "single"
       IN  IF ends
           THEN /\ gpsModem' = IF fix.status = "intermediate"
                            THEN [gpsModem EXCEPT !.running = FALSE] ELSE gpsModem
                /\ mNavigating' = FALSE
                /\ mFixCriteria' = Criteria(FALSE)
                /\ outcome' = IF mNavigating THEN "ended" ELSE outcome
           ELSE UNCHANGED <<gpsModem, mNavigating, mFixCriteria, outcome>>
    /\ UNCHANGED <<mute_session_state, engine_status, aiding_data_for_deletion, owed>>

Begins == {"SESSION_BEGIN", "ENGINE_ON"}

(* Mutant: an engine that is off does not end the mute. *)
Ends_session == {"SESSION_END"}

Ends == {"SESSION_END", "ENGINE_OFF"}

(* Mutant: every status is taken for the engine's. *)
report_status_all(status) ==
    /\ mute_session_state' =
         CASE status \in Begins /\ mute_session_state = "wait" -> "in_session"
           [] status \in Ends /\ mute_session_state = "in_session" -> "none"
           [] OTHER -> mute_session_state
    /\ engine_status' = status

(* loc_eng_report_status: the mute and the engine's status after a report. *)
report_status(status) ==
    /\ mute_session_state' =
         CASE status \in Begins /\ mute_session_state = "wait" -> "in_session"
           [] status \in Ends /\ mute_session_state = "in_session" -> "none"
           [] OTHER -> mute_session_state
    /\ engine_status' = IF status \in {"ENGINE_ON", "ENGINE_OFF"} THEN status ELSE engine_status

(* Mutant: only an engine known to be off lets the data be deleted. *)
StillToDelete_off(status, data) == IF status = "ENGINE_OFF" THEN {} ELSE data

(* update_aiding_data_for_deletion: what stays to be deleted. *)
StillToDelete(status, data) == IF status = "ENGINE_ON" THEN data ELSE {}

(* What is owed when the modem was told to delete the data; one that is    *)
(* not open deletes nothing.                                               *)
Without(data) ==
    IF gpsModem.at = "open" THEN [all |-> owed.all \ data, last |-> owed.last \ data] ELSE owed

(* The data is deleted now or waits. *)
update_aiding_data_for_deletion(status, data) ==
    /\ aiding_data_for_deletion' = StillToDelete(status, data)
    /\ owed' = Without(data \ StillToDelete(status, data))

ReportStatus ==
    /\ Handle("ReportStatus") /\ Handled
    /\ report_status(Head(queue).arg)
    /\ update_aiding_data_for_deletion(engine_status', aiding_data_for_deletion)
    /\ UNCHANGED <<mNavigating, mFixCriteria, gpsModem, outcome>>

(* LocEngDelAidData: the new request takes the place of the old one. *)
DelAidData ==
    /\ Handle("DelAidData") /\ Handled
    /\ update_aiding_data_for_deletion(engine_status, Head(queue).arg)
    /\ UNCHANGED <<mNavigating, mFixCriteria, mute_session_state, engine_status, gpsModem, outcome>>

(* loc_eng_ni_request_handler, when the request overrides privacy. *)
RequestNi ==
    /\ Handle("RequestNi") /\ Handled
    /\ mute_session_state' = "wait"
    /\ UNCHANGED <<mNavigating, mFixCriteria, engine_status, aiding_data_for_deletion,
                   gpsModem, outcome, owed>>

(* The messages loc_eng_reinit sends, as one. *)
LocEngInit ==
    /\ Handle("LocEngInit")
    /\ queue' = Append(Tail(queue), Message("Config", {}))
    /\ UNCHANGED <<engVars, gpsModem, outcome, owed>>

Config ==
    /\ Handle("Config") /\ Handled
    /\ gpsModem' = [gpsModem EXCEPT !.configured = (gpsModem.at = "open")]
    /\ UNCHANGED <<engVars, outcome, owed>>

(* LocOpenMsg and, after a restart, LocSsrMsg. *)
LocOpen ==
    /\ Handle("LocOpen") /\ Handled
    /\ gpsModem' = IF gpsModem.at = "up" THEN [gpsModem EXCEPT !.at = "open"] ELSE gpsModem
    /\ UNCHANGED <<engVars, outcome, owed>>

(* loc_eng_handle_engine_down; the deletion waits for another report. *)
LocEngDown ==
    /\ Handle("LocEngDown") /\ Handled
    /\ report_status("ENGINE_OFF")
    /\ UNCHANGED <<mNavigating, mFixCriteria, aiding_data_for_deletion, gpsModem, outcome, owed>>

(* Mutant: the session is taken to run still. *)
LocEngUp_running ==
    /\ Handle("LocEngUp")
    /\ queue' = Append(Tail(queue), Message("Config", {}))
    /\ UNCHANGED <<engVars, gpsModem, outcome, owed>>

(* loc_eng_handle_engine_up: the engine is configured again, and a session *)
(* is turned off and started again.                                        *)
LocEngUp ==
    /\ Handle("LocEngUp")
    /\ queue' = Append(Tail(queue), Message("Config", {}))
    /\ IF mNavigating
       THEN \E result \in Results : startFix(Criteria(FALSE), result)
       ELSE UNCHANGED <<mNavigating, mFixCriteria, gpsModem, outcome>>
    /\ UNCHANGED <<mute_session_state, engine_status, aiding_data_for_deletion, owed>>

MsgTask ==
    \/ LocOpen \/ LocEngInit \/ Config \/ StartFix \/ StopFix \/ PositionMode
    \/ ReportPosition \/ ReportStatus \/ DelAidData \/ RequestNi
    \/ LocEngDown \/ LocEngUp

-----------------------------------------------------------------------------
(* The modem, as the engine sees it, and LocApiBase, which hands its       *)
(* reports to the engine.  A session runs for the framework or for the     *)
(* network; a single-shot one ends with its final position.                *)
Sends(messages) ==
    /\ created
    /\ queue' = queue \o messages
    /\ UNCHANGED <<created, intermediateFix, engVars, wish, outcome, owed>>

Active == gpsModem.running \/ gpsModem.network

fix ==
    /\ gpsModem.running /\ HasRoom /\ remaining.fixes > 0
    /\ remaining' = [remaining EXCEPT !.fixes = @ - 1]
    /\ \E f \in Fixes :
         /\ Sends(<<Message("ReportPosition", f)>>)
         /\ gpsModem' = IF gpsModem.criteria.recurrence = "single" /\ f.status # "intermediate"
                     THEN [gpsModem EXCEPT !.running = FALSE, !.finished = TRUE]
                     ELSE gpsModem
    /\ UNCHANGED crashed

tellSession ==
    /\ gpsModem.at = "open" /\ gpsModem.told.session # Active
    /\ gpsModem' = [gpsModem EXCEPT !.told.session = Active]
    /\ Sends(<<Message("ReportStatus", IF Active THEN "SESSION_BEGIN" ELSE "SESSION_END")>>)
    /\ UNCHANGED <<crashed, remaining>>

tellEngine ==
    /\ gpsModem.at = "open" /\ gpsModem.told.engine # Active
    /\ gpsModem' = [gpsModem EXCEPT !.told.engine = Active]
    /\ Sends(<<Message("ReportStatus", IF Active THEN "ENGINE_ON" ELSE "ENGINE_OFF")>>)
    /\ UNCHANGED <<crashed, remaining>>

(* The network asks for a session the user must not hear of. *)
networkSession ==
    /\ gpsModem.at = "open" /\ ~gpsModem.network /\ HasRoom /\ remaining.requests > 0
    /\ remaining' = [remaining EXCEPT !.requests = @ - 1]
    /\ gpsModem' = [gpsModem EXCEPT !.network = TRUE]
    /\ Sends(<<Message("RequestNi", {})>>)
    /\ UNCHANGED crashed

networkDone ==
    /\ gpsModem.network
    /\ gpsModem' = [gpsModem EXCEPT !.network = FALSE]
    /\ Sends(<<>>)
    /\ UNCHANGED <<crashed, remaining>>

(* A crash: handleEngineDownEvent. *)
engineCrash ==
    /\ gpsModem.at # "down" /\ ~gpsModem.rising /\ HasRoom /\ remaining.crashes > 0
    /\ remaining' = [remaining EXCEPT !.crashes = @ - 1]
    /\ crashed' = TRUE
    /\ gpsModem' = [gpsModem EXCEPT !.at = "down", !.running = FALSE, !.finished = FALSE,
                              !.configured = FALSE, !.network = FALSE,
                              !.told = [session |-> FALSE, engine |-> FALSE]]
    /\ Sends(<<Message("LocEngDown", {})>>)

(* handleEngineUpEvent sends LocSsrMsg; then it tells the adapters. *)
engineBack ==
    /\ gpsModem.at = "down"
    /\ gpsModem' = [gpsModem EXCEPT !.at = "up", !.rising = TRUE]
    /\ Sends(<<Message("LocOpen", {})>>)
    /\ UNCHANGED <<crashed, remaining>>

recovered ==
    /\ gpsModem.rising
    /\ gpsModem' = [gpsModem EXCEPT !.rising = FALSE]
    /\ Sends(<<Message("LocEngUp", {})>>)
    /\ UNCHANGED <<crashed, remaining>>

Modem ==
    \/ fix \/ tellSession \/ tellEngine \/ networkSession \/ networkDone
    \/ engineCrash \/ engineBack \/ recovered

EngFramework ==
    \/ loc_eng_init \/ loc_eng_start \/ loc_eng_stop \/ loc_eng_set_position_mode
    \/ loc_eng_delete_aiding_data \/ loc_eng_cleanup

EngNext == EngFramework \/ MsgTask \/ Modem

EngSpec == EngInit /\ [][EngNext]_locEngVars

-----------------------------------------------------------------------------
Statuses == Begins \cup {"SESSION_END", "ENGINE_OFF"}

Queued == UNION {
    [what : {"LocOpen", "LocEngInit", "Config", "StartFix", "StopFix", "RequestNi",
             "LocEngDown", "LocEngUp"}, arg : {{}}],
    [what : {"PositionMode"}, arg : Recurrences],
    [what : {"DelAidData"}, arg : SUBSET Data],
    [what : {"ReportPosition"}, arg : Fixes],
    [what : {"ReportStatus"}, arg : Statuses]}

(* The type invariant; only the engine's own statuses are kept. *)
TypeOK ==
    /\ created \in BOOLEAN
    /\ queue \in Seq(Queued)
    /\ intermediateFix \in BOOLEAN
    /\ mNavigating \in BOOLEAN
    /\ mFixCriteria \in FixCriteria
    /\ mute_session_state \in {"none", "wait", "in_session"}
    /\ engine_status \in {"none", "ENGINE_ON", "ENGINE_OFF"}
    /\ aiding_data_for_deletion \in SUBSET Data
    /\ gpsModem \in [at : {"down", "up", "open"}, running : BOOLEAN, finished : BOOLEAN,
                  configured : BOOLEAN, criteria : FixCriteria, network : BOOLEAN,
                  told : [session : BOOLEAN, engine : BOOLEAN], rising : BOOLEAN]
    /\ wish \in {"yes", "no", "unknown"}
    /\ outcome \in {"fine", "offline", "ended"}
    /\ crashed \in BOOLEAN
    /\ owed \in [all : SUBSET Data, last : SUBSET Data]
    /\ remaining \in EngBounds

(* Nothing is on its way, and the modem is up and has told all. *)
Settled ==
    /\ queue = <<>> /\ gpsModem.at = "open" /\ ~gpsModem.rising
    /\ gpsModem.told = [session |-> Active, engine |-> Active]

(* However calls, positions and restarts cross, when all is handled there  *)
(* is a session exactly if the framework wants one, unless a single-shot   *)
(* position or a refusal of the modem has ended it.                        *)
SessionIsWished ==
    TypeOK /\ (Settled /\ wish # "unknown" => (mNavigating <=> wish = "yes" /\ outcome # "ended"))

(* After any number of crashes the modem is configured again and runs what *)
(* the engine believes it runs: a session that was on is started again,    *)
(* one that was stopped while the modem was down is not.                   *)
ModemIsRestored ==
    Settled =>
        /\ gpsModem.configured
        /\ mNavigating => gpsModem.running \/ gpsModem.finished \/ outcome = "offline"
        /\ gpsModem.running => mNavigating \/ outcome = "ended"

(* When the modem runs no session, be it that one has ended or that the    *)
(* modem has crashed, no mute is on that would hide the user's positions.  *)
(* While a session runs one may: the modem's statuses do not say whose     *)
(* session has ended, so one for the network can outlast it.               *)
MuteEndsWhenIdle == Settled /\ mute_session_state = "in_session" => Active

(* The last request to delete aiding data, whatever statuses it crosses,   *)
(* is carried out by the time the engine is off, and nothing is left to be *)
(* deleted then.  This is so as long as the modem does not crash.          *)
DeletionsDone ==
    Settled /\ ~crashed /\ ~Active => aiding_data_for_deletion = {} /\ owed.last = {}

(* What loc_eng_delete_aiding_data promises: whatever data is asked to be  *)
(* deleted, it is deleted when the engine is turned off.                   *)
EveryDeletionDone == Settled /\ ~Active => owed.all = {}
=============================================================================
