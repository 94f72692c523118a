------------------------------ MODULE MCThreads ------------------------------
(***************************************************************************)
(* Instances for TLC of the threads of the HAL: the senders and receivers  *)
(* of a message queue, a LocThread with any run(), a message task, the     *)
(* thread that reads the daemons' pipe, and the threads that ask for a     *)
(* context.                                                                *)
(* They share nothing here: thread names the one of this behaviour, the    *)
(* others keep their first state.  (The message task is a LocThread: both  *)
(* use the same variables.)                                                *)
(***************************************************************************)
EXTENDS MsgQ, MsgTask

CONSTANTS Daemons, MaxWritten, Capacity, Clients, MaxRestarts

(* The daemons with a pipe are named apart from the modem, which has none, *)
(* and a pipe holds a number of answers.                                   *)
ASSUME DaemonsHavePipes == "MODEM" \notin Daemons /\ Capacity \in Nat

VARIABLES thread,
          launcher, thread_ready, thread_exit, server, pipe, buffer, answers, caller, task,
          written, forwarded, answered, failed,
          platform, at, asks, mGetLocContextMutex, mMsgTask, contexts, mInjectContext, made,
          queue, features, ups, restarts

(* Where the LBS library has an API; where v02, or RPC, is left; and where there is none. *)
Platform(mpq, lbs, v02, rpc) == [mpq |-> mpq, lbs |-> lbs, v02 |-> v02, rpc |-> rpc]
AllPlatforms == {Platform(FALSE, "api", "none", "none"), Platform(FALSE, "empty", "api", "api"),
                 Platform(FALSE, "empty", "none", "api"), Platform(FALSE, "none", "empty", "api"),
                 Platform(TRUE, "api", "api", "api")}

Dmn == INSTANCE DmnConn WITH owner <- caller
Contexts == INSTANCE LocDualContext WITH Platforms <- AllPlatforms

dmnVars == <<launcher, thread_ready, thread_exit, server, pipe, buffer, answers, caller, task,
             written, forwarded, answered, failed>>
ctxVars == <<platform, at, asks, mGetLocContextMutex, mMsgTask, contexts, mInjectContext, made,
             queue, features, ups, restarts>>
allVars == <<thread, queueVars, vars, dmnVars, ctxVars>>

AllInit ==
    /\ thread \in {"queue", "any", "task", "server", "context"}
    /\ QueueInit
    /\ TaskInit
    /\ Dmn!Init
    /\ Contexts!Init
    /\ thread # "context" =>
         platform = Platform(TRUE, "api", "api", "api") /\ asks = [c \in Clients |-> "fg"]

AllNext ==
    \/ thread = "queue" /\ QueueNext /\ UNCHANGED <<thread, vars, dmnVars, ctxVars>>
    \/ thread = "any" /\ Next /\ UNCHANGED <<thread, queueVars, mvars, dmnVars, ctxVars>>
    \/ thread = "task" /\ TaskNext /\ UNCHANGED <<thread, queueVars, dmnVars, ctxVars>>
    \/ thread = "server" /\ Dmn!Next /\ UNCHANGED <<thread, queueVars, vars, ctxVars>>
    \/ thread = "context" /\ Contexts!Next /\ UNCHANGED <<thread, queueVars, vars, dmnVars>>

(* The fairness of each part, while the behaviour is the part's. *)
AllFairness ==
    /\ \A r \in Receivers :
         /\ WF_queueVars(thread = "queue" /\ RcvEnter(r))
         /\ WF_queueVars(thread = "queue" /\ RcvWake(r))
    /\ WF_tvars(thread = "any" /\ ThreadMain)
    /\ WF_tvars(thread = "any" /\ \E again \in BOOLEAN : RunReturns(again))
    /\ WF_tvars(thread = "any" /\ CheckCreated)
    /\ WF_tvars(thread = "any" /\ Join)
    /\ \A t \in Threads : WF_tvars(thread = "any" /\ destroy(t))
    /\ WF_vars(thread = "task" /\ Worker)
    /\ WF_vars(thread = "task" /\ Destroying)
    /\ WF_dmnVars(thread = "server" /\ Dmn!Launch)
    /\ WF_dmnVars(thread = "server" /\ Dmn!Server)
    /\ WF_dmnVars(thread = "server" /\ Dmn!Owner)

AllSpec == AllInit /\ [][AllNext]_allVars /\ AllFairness
-----------------------------------------------------------------------------
(* The server sends on what the daemons write, in order and complete, and  *)
(* each daemon gets its answers (loc_eng_dmn_conn_handler.cpp).            *)
DaemonsServed == Dmn!TypeOK /\ Dmn!ForwardedInOrder /\ Dmn!AnswersRouted

(* The server's thread: the launch returns whatever comes first, the       *)
(* signal or the wait for it, and a server that is unblocked, wherever it  *)
(* is, ends and can be joined.                                             *)
ServerProgress == Dmn!LaunchReturns /\ Dmn!UnblockEnds

(* Clients that ask at once share each context and one message task, and   *)
(* no restart of the modem loses its features (LocDualContext.cpp).        *)
ContextsShared == Contexts!ContextsShared
=============================================================================
