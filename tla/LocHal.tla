------------------------------- MODULE LocHal -------------------------------
(***************************************************************************)
(* What the framework sets through the entry points of loc.cpp, and how it *)
(* reaches the modem: directly, as a message to the message task, or only  *)
(* from loc_eng_reinit, which sends everything again when the engine is    *)
(* made and whenever the modem comes up.  The framework's thread and the   *)
(* message task share loc_eng_data, agpsStatus, gps_conf and mPowerVote    *)
(* without a lock; each step here is between two accesses of theirs.       *)
(* SUPL_VER stands for itself and the other values that are handled alike, *)
(* measure for GPS_CAPABILITY_MEASUREMENTS of CAPABILITIES, host for the   *)
(* SUPL server and, alike, the C2K server.  The modem forgets all of it    *)
(* when it restarts.  Sessions are the matter of LocEng, subscribers that  *)
(* of LocEngAgps, the order of LocSsrMsg that of LocApi.                   *)
(***************************************************************************)
EXTENDS Naturals, Sequences

CONSTANTS
  Hosts,    \* the servers the framework chooses from
  LongHosts,\* those whose name is cut when it is copied to the buffer
  Bounds    \* how many calls and restarts there are, [calls, restarts]

ASSUME LongHostsAreHosts == LongHosts \subseteq Hosts

VARIABLES
  target,   \* what loc_get_target says
  adapter, agps,      \* is loc_eng_data.adapter, agps_status_cb there
  host,     \* supl_host_buf, or "unset" for supl_host_set = 0
  agpsStatus, conf,   \* the globals of loc_eng.cpp
  mPowerVote,         \* its on / off bit
  fw,       \* the framework's call: how far, and its argument
  mQ,       \* the messages to the task
  reinit,   \* the message task in loc_eng_reinit and its callers
  modem,    \* external
  told,     \* what set_capabilities_cb was told last
  answer,   \* what gnssConstellationConfig answered last
  lost,     \* history: what the modem missed in a way the code does not mend
  last,     \* history: the server and the lock the framework set last
  bounds    \* the calls and restarts that are left

vars == <<target, adapter, agps, host, agpsStatus, conf, mPowerVote, fw, mQ, reinit, modem,
          told, answer, lost, last, bounds>>

Forgotten == [server |-> "unset", data |-> "unset", ver |-> "unset", power |-> "unset",
              lock |-> "unset"]
At(place, value) == [at |-> place, value |-> value]
Msg(name, value) == [name |-> name, value |-> value]
Idle == At("idle", "")
Running == [at |-> "idle", value |-> "", up |-> FALSE]

Init ==
  /\ target \in {"msm", "qca1530"}
  /\ adapter = FALSE /\ agps = FALSE /\ host = "unset"
  /\ agpsStatus = "off" /\ conf = [SUPL_VER |-> "v1", measure |-> FALSE] /\ mPowerVote = "off"
  /\ fw = Idle /\ mQ = <<>> /\ reinit = Running
  /\ modem = [up |-> TRUE, has |-> Forgotten]
  /\ told = "none" /\ answer = "none" /\ lost = {}
  /\ last = [server |-> "unset", lock |-> "unset"]
  /\ bounds \in Bounds

\* The state by who writes it.
engine == <<adapter, agps, host>>
globals == <<agpsStatus, conf, mPowerVote>>
others == <<target, told, answer, last>>

\* A value reaches a modem that is up.
Has(setting, value) ==
  modem' = IF modem.up THEN [modem EXCEPT !.has[setting] = value] ELSE modem

\* The modem is sent a new value: for good, unless the task is about to send the old one.
SentNow(setting, value) ==
  lost' = IF reinit.at = setting /\ reinit.value # value THEN lost \cup {setting}
          ELSE lost \ {setting}

\* strlcpy to the buffer of 101 characters.
Kept(h) == IF h \in LongHosts THEN "cut" ELSE h

\* loc_eng_set_server: a message with the URL, unless it is too long, or with the address,
\* unless the name is not resolved.
setServer(h) ==
  \/ mQ' = Append(mQ, Msg("server", h))
     /\ IF h = host THEN SentNow("server", h) ELSE lost' = lost \cup {"server"}
  \/ lost' = lost \cup {"server"} /\ UNCHANGED mQ

-----------------------------------------------------------------------------
\* The framework's calls.  Every one of them is a call that is left.
Enter == fw.at = "idle" /\ bounds.calls > 0 /\ bounds' = [bounds EXCEPT !.calls = @ - 1]

\* setGpsLockMsg; a restart of the modem loses what it was.
setLock(value) == last' = [last EXCEPT !.lock = value] /\ lost' = lost \ {"lock"}

\* memset of loc_eng_data.
Cleared == host' = "unset" /\ agps' = FALSE

\* loc_init: loc_eng_init only once, then the messages, and then the vote.
loc_init ==
  /\ Enter /\ fw' = At("vote", "on")
  /\ IF adapter THEN mQ' = Append(mQ, Msg("lock", "none")) /\ UNCHANGED engine
     ELSE adapter' = TRUE /\ Cleared /\ mQ' = Append(Append(mQ, Msg("Init", "")), Msg("lock", "none"))
  /\ setLock("none")
  /\ UNCHANGED <<globals, reinit, modem, target, told, answer>>

\* loc_cleanup: the vote, then the lock of the configuration; loc_eng_cleanup keeps the rest.
loc_cleanup ==
  /\ adapter /\ Enter /\ fw' = At("vote", "off")
  /\ UNCHANGED <<engine, globals, mQ, reinit, modem, lost, others>>

\* setPowerVote: the bit, then what requestPowerVote does with it.
setPowerVote ==
  /\ fw.at = "vote" /\ mPowerVote' = fw.value /\ fw' = At("ask", fw.value)
  /\ UNCHANGED <<engine, agpsStatus, conf, mQ, reinit, modem, lost, bounds, others>>

PowerVoteRight == target = "qca1530"

requestPowerVote ==
  /\ fw.at = "ask" /\ fw' = IF fw.value = "on" THEN Idle ELSE At("lock", "")
  /\ IF PowerVoteRight THEN Has("power", fw.value) /\ SentNow("power", fw.value)
     ELSE UNCHANGED <<modem, lost>>
  /\ UNCHANGED <<engine, globals, mQ, reinit, bounds, others>>

\* The end of loc_cleanup.
lockAgain ==
  /\ fw.at = "lock" /\ fw' = Idle
  /\ mQ' = Append(mQ, Msg("lock", "conf")) /\ setLock("conf")
  /\ UNCHANGED <<engine, globals, reinit, modem, bounds, target, told, answer>>

\* loc_agps_init, once: with MSA or MSB, which the qca1530 has not, loc_eng_agps_reinit.
loc_agps_init ==
  /\ adapter /\ ~agps /\ Enter
  /\ agps' = TRUE
  /\ IF ~PowerVoteRight /\ host # "unset"
     THEN setServer(host)
     ELSE UNCHANGED <<mQ, lost>>
  /\ UNCHANGED <<fw, adapter, host, globals, reinit, modem, others>>

\* loc_agps_set_server: loc_eng_set_server_proxy fills the buffer, then sends it.
loc_eng_set_server_proxy(h) ==
  /\ Enter
  /\ host' = Kept(h) /\ last' = [last EXCEPT !.server = h] /\ fw' = At("server", h)
  /\ UNCHANGED <<adapter, agps, globals, mQ, reinit, modem, lost, target, told, answer>>

loc_agps_set_server == \E h \in Hosts : loc_eng_set_server_proxy(h)

\* loc_agps_ril_update_network_availability: the status, then, with an apn, the message.
update_network_availability ==
  /\ Enter
  /\ \E s \in {"on", "off"}, apn \in BOOLEAN :
       agpsStatus' = s /\ fw' = IF adapter THEN At(IF apn THEN "data" ELSE "noApn", s) ELSE Idle
  /\ UNCHANGED <<engine, conf, mPowerVote, mQ, reinit, modem, lost, others>>

\* Without an apn nothing is sent: the modem keeps what it had.
noApn ==
  /\ fw.at = "noApn" /\ fw' = Idle
  /\ lost' = lost \cup {"data"}
  /\ UNCHANGED <<engine, globals, mQ, reinit, modem, bounds, others>>

\* loc_configuration_update copies gps_conf, overwrites it from the text, sends what
\* changed, and puts the copy back, but for a few values.  The text here has no others.
loc_configuration_update ==
  /\ Enter /\ fw' = At("copied", conf) /\ lost' = lost \cup {"measure"}
  /\ UNCHANGED <<engine, globals, mQ, reinit, modem, others>>

UPDATE_CONF ==
  /\ fw.at = "copied"
  /\ \E v \in {"v1", "v2"} : conf' = [conf EXCEPT !.SUPL_VER = v]
  /\ fw' = At(IF adapter /\ conf'.SUPL_VER # fw.value.SUPL_VER THEN "ver" ELSE "restore", fw.value)
  /\ UNCHANGED <<engine, agpsStatus, mPowerVote, mQ, reinit, modem, lost, bounds, others>>

restoreConf ==
  /\ fw.at = "restore" /\ fw' = Idle
  /\ conf' = [fw.value EXCEPT !.SUPL_VER = conf.SUPL_VER]
  /\ UNCHANGED <<engine, agpsStatus, mPowerVote, mQ, reinit, modem, lost, bounds, others>>

\* The messages of set_server, of the network's status and of the version.
sendNow(name, value) ==
  mQ' = Append(mQ, Msg(name, value)) /\ SentNow(name, value)

loc_eng_set_server ==
  /\ fw.at = "server" /\ fw' = Idle
  /\ IF adapter THEN setServer(fw.value) ELSE UNCHANGED <<mQ, lost>>
  /\ UNCHANGED <<engine, globals, reinit, modem, bounds, others>>

sendData ==
  /\ fw.at = "data" /\ fw' = Idle
  /\ sendNow("data", fw.value)
  /\ UNCHANGED <<engine, globals, reinit, modem, bounds, others>>

sendSuplVer ==
  /\ fw.at = "ver" /\ fw' = At("restore", fw.value)
  /\ sendNow("ver", conf.SUPL_VER)
  /\ UNCHANGED <<engine, globals, reinit, modem, bounds, others>>

-----------------------------------------------------------------------------
\* The message task: a message that carries a value gives it to the modem.
procSetting(name) ==
  /\ reinit.at = "idle" /\ mQ # <<>> /\ Head(mQ).name = name
  /\ Has(name, Head(mQ).value) /\ mQ' = Tail(mQ)
  /\ lost' = IF name = "lock" /\ ~modem.up THEN lost \cup {"lock"} ELSE lost
  /\ UNCHANGED <<engine, globals, fw, reinit, bounds, others>>

LocEngSetServerUrl == procSetting("server")
LocEngEnableData == procSetting("data")
LocEngSuplVer == procSetting("ver")
LocEngGpsLock == procSetting("lock")

\* LocEngGnssConstellationConfig: a modem that is up may support measurements.
procConstellation ==
  /\ reinit.at = "idle" /\ mQ # <<>> /\ Head(mQ).name = "constellation" /\ mQ' = Tail(mQ)
  /\ \/ modem.up /\ answer' = "yes" /\ conf' = [conf EXCEPT !.measure = TRUE]
     \/ answer' = (IF answer = "yes" THEN "yes" ELSE "no") /\ UNCHANGED conf
  /\ UNCHANGED <<engine, agpsStatus, mPowerVote, fw, reinit, modem, lost, bounds, target, told, last>>

\* LocEngSetCapabilities.
procSetCapabilities ==
  /\ reinit.at = "idle" /\ mQ # <<>> /\ Head(mQ).name = "SetCapabilities" /\ mQ' = Tail(mQ)
  /\ told' = IF conf.measure THEN "yes" ELSE "no"
  /\ UNCHANGED <<engine, globals, fw, reinit, modem, lost, bounds, target, answer, last>>

\* Mutant: an engine that is up is not initialised again.
procInit_once ==
  /\ reinit.at = "idle" /\ mQ # <<>> /\ Head(mQ).name \in {"Init", "Up"}
  /\ reinit' = [at |-> IF Head(mQ).name = "Up" THEN "vote" ELSE "constellation", value |-> "",
                up |-> Head(mQ).name = "Up"]
  /\ mQ' = Tail(mQ)
  /\ UNCHANGED <<engine, globals, fw, modem, lost, bounds, others>>

\* Mutant: the framework is told at once.
procInit_toldFirst ==
  /\ reinit.at = "idle" /\ mQ # <<>> /\ Head(mQ).name \in {"Init", "Up"}
  /\ reinit' = [at |-> "constellation", value |-> "", up |-> Head(mQ).name = "Up"]
  /\ mQ' = Append(Tail(mQ), Msg("SetCapabilities", ""))
  /\ UNCHANGED <<engine, globals, fw, modem, lost, bounds, others>>

\* LocEngInit and LocEngUp: loc_eng_reinit first.
procInit ==
  /\ reinit.at = "idle" /\ mQ # <<>> /\ Head(mQ).name \in {"Init", "Up"}
  /\ reinit' = [at |-> "constellation", value |-> "", up |-> Head(mQ).name = "Up"]
  /\ mQ' = Tail(mQ)
  /\ UNCHANGED <<engine, globals, fw, modem, lost, bounds, others>>

\* A value is read (reinit.at names it from then on) and then sent.  Reading the next
\* one is part of the step that sends the one before: nothing can come between that
\* could not come before both.
Read(setting, value) ==
  /\ reinit' = [reinit EXCEPT !.at = setting, !.value = value]
  /\ lost' = lost \ {setting}

\* loc_eng_reinit, and its last lines in LocEngInit::proc.
loc_eng_reinit ==
  /\ \/ reinit.at = "constellation" /\ mQ' = Append(mQ, Msg("constellation", ""))
        /\ Read("ver", conf.SUPL_VER) /\ UNCHANGED modem
     \/ reinit.at = "ver" /\ mQ' = Append(mQ, Msg("ver", reinit.value))
        /\ Read("data", agpsStatus) /\ UNCHANGED modem
     \/ reinit.at = "data" /\ mQ' = Append(mQ, Msg("data", reinit.value))
        /\ reinit' = [reinit EXCEPT !.at = IF reinit.up THEN "vote" ELSE "lock"]
        /\ UNCHANGED <<modem, lost>>
     \/ reinit.at = "lock" /\ Has("lock", "MO") /\ mQ' = Append(mQ, Msg("SetCapabilities", ""))
        /\ reinit' = Running /\ UNCHANGED lost
  /\ UNCHANGED <<engine, globals, fw, bounds, others>>

\* Mutant: the vote is not repeated.
voteAgain_none ==
  /\ reinit.at = "vote" /\ reinit' = [reinit EXCEPT !.at = "agps"]
  /\ UNCHANGED <<engine, globals, fw, mQ, modem, lost, bounds, others>>

\* loc_eng_handle_engine_up: requestPowerVote,
voteAgain ==
  /\ \/ reinit.at = "vote" /\ PowerVoteRight /\ Read("power", mPowerVote) /\ UNCHANGED modem
     \/ reinit.at = "vote" /\ ~PowerVoteRight /\ reinit' = [reinit EXCEPT !.at = "agps"]
        /\ UNCHANGED <<modem, lost>>
     \/ reinit.at = "power" /\ Has("power", reinit.value)
        /\ reinit' = [reinit EXCEPT !.at = "agps"] /\ UNCHANGED lost
  /\ UNCHANGED <<engine, globals, fw, mQ, bounds, others>>

\* then, once there is agps, loc_eng_agps_reinit with a server that was set.
loc_eng_agps_reinit ==
  /\ \/ reinit.at = "agps" /\ ~(agps /\ host # "unset") /\ reinit' = Running
        /\ lost' = (IF host = "unset" THEN lost ELSE lost \cup {"server"}) /\ UNCHANGED mQ
     \/ reinit.at = "agps" /\ agps /\ host # "unset" /\ Read("server", host) /\ UNCHANGED mQ
     \/ reinit.at = "server" /\ reinit' = Running
        /\ \/ mQ' = Append(mQ, Msg("server", reinit.value)) /\ UNCHANGED lost
           \/ lost' = lost \cup {"server"} /\ UNCHANGED mQ
  /\ UNCHANGED <<engine, globals, fw, modem, bounds, others>>

-----------------------------------------------------------------------------
\* The modem restarts, and loc_eng_handle_engine_up is called when it is back.
crash ==
  /\ modem.up /\ bounds.restarts > 0 /\ bounds' = [bounds EXCEPT !.restarts = @ - 1]
  /\ modem' = [up |-> FALSE, has |-> Forgotten] /\ lost' = lost \cup {"lock"}
  /\ UNCHANGED <<engine, globals, fw, mQ, reinit, others>>

recover ==
  /\ ~modem.up /\ modem' = [modem EXCEPT !.up = TRUE]
  /\ mQ' = IF adapter THEN Append(mQ, Msg("Up", "")) ELSE mQ
  /\ UNCHANGED <<engine, globals, fw, reinit, lost, bounds, others>>

Framework ==
  \/ loc_init \/ loc_cleanup \/ setPowerVote \/ requestPowerVote \/ lockAgain
  \/ loc_agps_init
  \/ loc_agps_set_server \/ update_network_availability \/ noApn
  \/ loc_configuration_update \/ UPDATE_CONF \/ restoreConf
  \/ loc_eng_set_server \/ sendData \/ sendSuplVer
Task ==
  \/ LocEngSetServerUrl \/ LocEngEnableData \/ LocEngSuplVer \/ LocEngGpsLock
  \/ procConstellation \/ procSetCapabilities \/ procInit
  \/ loc_eng_reinit \/ voteAgain \/ loc_eng_agps_reinit

Next == Framework \/ Task \/ crash \/ recover

Spec == Init /\ [][Next]_vars

-----------------------------------------------------------------------------
Quiet == adapter /\ fw.at = "idle" /\ mQ = <<>> /\ reinit.at = "idle" /\ modem.up

\* When all is quiet the modem has what the framework set last, although a restart made
\* it forget and messages with older values were on their way; but for a call that comes
\* between the task's reading the old value and its sending it.  The vote is the modem's
\* where this engine has the right to vote.  The server is the name in the buffer: one that
\* loc_eng_set_server did not send is in lost, and one that was cut, until a restart sends
\* the rest of it.  The lock is sent once and lost when the modem restarts.
SettingsReachModem ==
  Quiet =>
    /\ "data" \notin lost => modem.has.data = agpsStatus
    /\ "ver" \notin lost => modem.has.ver = conf.SUPL_VER
    /\ "server" \notin lost /\ agps /\ host # "unset" => modem.has.server = host
    /\ "power" \notin lost /\ PowerVoteRight => modem.has.power = mPowerVote
    /\ "lock" \notin lost => modem.has.lock = last.lock

\* The framework is told of the capabilities when the modem has answered, and then of
\* what it answered, unless it updates the configuration.
CapabilitiesAnswered ==
  [][told' # told => answer # "none" /\ ("measure" \notin lost => told' = answer)]_vars

\* A server that is set before the engine is made is set when it is.
ServerBeforeInit ==
  Quiet /\ agps /\ "server" \notin lost /\ last.server # "unset" =>
    modem.has.server = Kept(last.server)
=============================================================================
