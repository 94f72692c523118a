------------------------------- MODULE DmnConn -------------------------------
(***************************************************************************)
(* The connection to the location daemons, loc_eng_dmn_conn*: a thread     *)
(* reads a named pipe into which daemons write requests and releases of a  *)
(* network interface, and sends them to the message task as messages.      *)
(* Each daemon has a pipe for its answers.  thelper is the thread with its *)
(* two flags, condition variable and mutex; loc_eng_agps_init launches it  *)
(* once.  unblock and join have their calls under #if 0 in loc_eng_cleanup *)
(* and are modelled as their header offers them.                           *)
(* A message is written in one piece (it is smaller than PIPE_BUF) and     *)
(* read in two.  Reads can fail, pthread_cond_wait can return for nothing. *)
(* What the message task does with a message before it answers is the      *)
(* matter of LocEngAgps; here it answers each.                             *)
(***************************************************************************)
EXTENDS Naturals, Sequences

CONSTANTS
  Daemons,      \* the senders that have a pipe
  MaxWritten,   \* the number of messages the daemons write
  Capacity      \* the number of answers a pipe holds

VARIABLES
  launcher,      \* where loc_eng_dmn_conn_launch_thelper is, or its result
  thread_ready, thread_exit,   \* as in the code
  server,        \* where thelper_main is
  pipe,          \* the messages in the server's pipe, the one being read first
  buffer,        \* the message that was read
  answers,       \* the answers in each daemon's pipe
  owner,         \* where the caller of unblock and join is
  task,          \* the messages sent to the message task and not yet handled
  written, forwarded, answered,  \* histories: in the pipe, to the task, back
  failed         \* has a read failed

vars == <<launcher, thread_ready, thread_exit, server, pipe, buffer, answers, owner, task,
          written, forwarded, answered, failed>>

Message == [ctrl_type : {"IF_REQUEST", "IF_RELEASE"}, type : {"WIFI", "invalid"},
            sender : Daemons \cup {"MODEM"}]
UNBLOCK == [ctrl_type |-> "UNBLOCK"]

Init ==
  /\ launcher = "call" /\ thread_ready = 0 /\ thread_exit = 0
  /\ server = "none" /\ pipe = <<>> /\ buffer = UNBLOCK
  /\ answers = [d \in Daemons |-> <<>>] /\ owner = "idle"
  /\ task = <<>> /\ written = <<>> /\ forwarded = <<>>
  /\ answered = [d \in Daemons |-> <<>>] /\ failed = FALSE

\* The parts of the state the three sides leave alone.
pipes == <<pipe, buffer, answers, task, written, forwarded, answered, failed>>

-----------------------------------------------------------------------------
\* loc_eng_dmn_conn_launch_thelper: the thread is created, or pthread_create says it
\* cannot be.  (With a create_thread_cb the code has no such answer and waits; the
\* callback is taken to succeed.)
createThread ==
  /\ launcher = "call"
  /\ \/ launcher' = "created" /\ server' = "init"
     \/ launcher' = "failed" /\ UNCHANGED server
  /\ UNCHANGED <<thread_ready, thread_exit, owner, pipes>>

Result == IF thread_exit = 1 THEN "failed" ELSE "launched"

\* Mutant: the wait is for the signal alone.
thelper_signal_wait_unchecked ==
  /\ launcher = "created" /\ launcher' = "waiting"
  /\ UNCHANGED <<thread_ready, thread_exit, server, owner, pipes>>

\* A single look at the flags, then a single wait.
thelper_signal_wait ==
  /\ launcher = "created"
  /\ launcher' = IF thread_ready = 0 /\ thread_exit = 0 THEN "waiting" ELSE Result
  /\ UNCHANGED <<thread_ready, thread_exit, server, owner, pipes>>

wakeUp ==
  /\ launcher = "woken" /\ launcher' = Result
  /\ UNCHANGED <<thread_ready, thread_exit, server, owner, pipes>>

spuriousWakeUp ==
  /\ launcher = "waiting" /\ launcher' = "woken"
  /\ UNCHANGED <<thread_ready, thread_exit, server, owner, pipes>>

\* loc_api_server_proc_init made the pipes: the flag and the signal.
thelper_signal_ready ==
  /\ server = "init"
  /\ thread_ready' = 1
  /\ launcher' = IF launcher = "waiting" THEN "woken" ELSE launcher
  /\ server' = "header"
  /\ UNCHANGED <<thread_exit, owner, pipes>>

-----------------------------------------------------------------------------
\* The loop of thelper_main: on while thread_exit is 0, else the pipes go.
Again == server' = IF thread_exit = 0 THEN "header" ELSE "post"

readHeader ==
  /\ server = "header" /\ pipe # <<>>
  /\ server' = "body"
  /\ UNCHANGED <<launcher, thread_ready, thread_exit, owner, pipes>>

readBody ==
  /\ server = "body"
  /\ buffer' = Head(pipe) /\ pipe' = Tail(pipe) /\ server' = "handle"
  /\ UNCHANGED <<launcher, thread_ready, thread_exit, owner, answers, task, written,
                 forwarded, answered, failed>>

\* loc_eng_dmn_conn_glue_msgrcv gives up; its caller returns -1 to the loop.
readFails ==
  /\ server \in {"header", "body"}
  /\ failed' = TRUE /\ thread_exit' = 1 /\ server' = "post"
  /\ UNCHANGED <<launcher, thread_ready, owner, pipe, buffer, answers, task, written,
                 forwarded, answered>>

\* Mutant: the sender of a request is not looked at.
if_request_handler_unchecked(m) == m.type # "invalid"

\* The two handlers send a message of a known type and sender, and no other.
if_request_handler(m) == m.type # "invalid" /\ m.sender \in Daemons

if_release_handler(m) == m.type # "invalid" /\ m.sender \in Daemons

Sent(m) ==
  \/ m.ctrl_type = "IF_REQUEST" /\ if_request_handler(m)
  \/ m.ctrl_type = "IF_RELEASE" /\ if_release_handler(m)

loc_api_server_proc ==
  /\ server = "handle" /\ Again
  /\ task' = IF Sent(buffer) THEN Append(task, buffer) ELSE task
  /\ forwarded' = IF Sent(buffer) THEN Append(forwarded, buffer) ELSE forwarded
  /\ UNCHANGED <<launcher, thread_ready, thread_exit, owner, pipe, buffer, answers,
                 written, answered, failed>>

loc_api_server_proc_post ==
  /\ server = "post" /\ server' = "ended"
  /\ pipe' = <<>> /\ answers' = [d \in Daemons |-> <<>>]
  /\ UNCHANGED <<launcher, thread_ready, thread_exit, owner, buffer, task, written,
                 forwarded, answered, failed>>

-----------------------------------------------------------------------------
Open == server \notin {"none", "init", "ended"}

\* A daemon writes a message, or reads an answer from its pipe.
write(d) ==
  /\ Open /\ Len(written) < MaxWritten
  /\ \E m \in {n \in Message : n.sender = d} :
       pipe' = Append(pipe, m) /\ written' = Append(written, m)
  /\ UNCHANGED <<launcher, thread_ready, thread_exit, server, buffer, answers, owner, task,
                 forwarded, answered, failed>>

read(d) ==
  /\ answers[d] # <<>>
  /\ answers' = [answers EXCEPT ![d] = Tail(@)]
  /\ UNCHANGED <<launcher, thread_ready, thread_exit, server, pipe, buffer, owner, task,
                 written, forwarded, answered, failed>>

\* Mutant: two daemons' pipes are mixed up.
PipeOf_mixed(d) == CHOOSE e \in Daemons : Daemons # {d} => e # d

PipeOf(d) == d

\* loc_eng_dmn_conn_loc_api_server_data_conn: an answer is written when the pipe has
\* room, and the task waits for that.  After the server's end the ids of the pipes are
\* still there, but what is written to them goes nowhere.
data_conn ==
  /\ task # <<>>
  /\ LET m == Head(task)
         d == PipeOf(m.sender)
     IN  /\ Open => Len(answers[d]) < Capacity
         /\ task' = Tail(task)
         /\ answered' = IF Open THEN [answered EXCEPT ![d] = Append(@, m)] ELSE answered
         /\ answers' = IF Open THEN [answers EXCEPT ![d] = Append(@, m.ctrl_type)] ELSE answers
  /\ UNCHANGED <<launcher, thread_ready, thread_exit, server, pipe, buffer, owner,
                 written, forwarded, failed>>

-----------------------------------------------------------------------------
Post(m) == pipe' = IF Open THEN Append(pipe, m) ELSE pipe

\* unblock: the flag, then a message that makes the server look at it.
unblockFlag ==
  /\ owner = "idle" /\ launcher = "launched"
  /\ thread_exit' = 1 /\ owner' = "flagged"
  /\ UNCHANGED <<launcher, thread_ready, server, pipes>>

\* Mutant: unblock only sets the flag.
unblockMessage_none ==
  /\ owner = "flagged" /\ owner' = "unblocked"
  /\ UNCHANGED <<launcher, thread_ready, thread_exit, server, pipes>>

unblockMessage ==
  /\ owner = "flagged"
  /\ Post(UNBLOCK) /\ owner' = "unblocked"
  /\ UNCHANGED <<launcher, thread_ready, thread_exit, server, buffer, answers, task,
                 written, forwarded, answered, failed>>

join ==
  /\ owner = "unblocked" /\ server = "ended"
  /\ owner' = "joined"
  /\ UNCHANGED <<launcher, thread_ready, thread_exit, server, pipes>>

Server == thelper_signal_ready \/ readHeader \/ readBody \/ loc_api_server_proc
          \/ loc_api_server_proc_post
Launch == createThread \/ thelper_signal_wait \/ wakeUp
Owner == unblockMessage \/ join

Next ==
  \/ Launch \/ spuriousWakeUp \/ Server \/ readFails \/ data_conn
  \/ unblockFlag \/ Owner
  \/ \E d \in Daemons \cup {"MODEM"} : write(d)
  \/ \E d \in Daemons : read(d)

Fairness == WF_vars(Launch) /\ WF_vars(Server) /\ WF_vars(Owner)

Spec == Init /\ [][Next]_vars /\ Fairness

-----------------------------------------------------------------------------
\* The members have their types, and the body that is read has a header.
TypeOK ==
  /\ launcher \in {"call", "created", "waiting", "woken", "launched", "failed"}
  /\ thread_ready \in {0, 1} /\ thread_exit \in {0, 1}
  /\ server \in {"none", "init", "header", "body", "handle", "post", "ended"}
  /\ owner \in {"idle", "flagged", "unblocked", "joined"}
  /\ server = "body" => pipe # <<>>
  /\ \A d \in Daemons : Len(answers[d]) <= Capacity

\* The members of S in a sequence, in its order.
Picked(s, S) ==
  LET picked[n \in 0..Len(s)] ==
        IF n = 0 THEN <<>>
        ELSE IF s[n] \in S THEN Append(picked[n - 1], s[n]) ELSE picked[n - 1]
  IN picked[Len(s)]

\* The messages with a type that exists from a daemon with a pipe, and those of one.
Good == {m \in Message : m.type = "WIFI" /\ m.sender # "MODEM"}
From(d) == {m \in Message : m.sender = d}

\* What was sent to the message task is what daemons with a pipe wrote with a type
\* that exists, in order, none lost and none twice up to where the server has read.
ForwardedInOrder ==
  LET unread == Len(Picked(pipe, Message))
                + (IF server = "handle" /\ buffer # UNBLOCK THEN 1 ELSE 0)
  IN  server \notin {"post", "ended"} =>
        forwarded = Picked(SubSeq(written, 1, Len(written) - unread), Good)

\* Each daemon is answered for the messages it sent and for no other's, in order.
AnswersRouted ==
  LET done == SubSeq(forwarded, 1, Len(forwarded) - Len(task))
  IN  Open => \A d \in Daemons : answered[d] = Picked(done, From(d))

\* The launch returns whatever comes first, the signal or the wait for it.
LaunchReturns == launcher = "created" ~> launcher \in {"launched", "failed"}

\* A server with its pipes that is unblocked ends, wherever it is in its loop, and can be
\* joined.  (After a wake-up for nothing the launch is over before the pipes are made; a
\* message of unblock that comes before them is lost.)
UnblockEnds == owner = "flagged" /\ Open ~> owner = "joined"
=============================================================================
