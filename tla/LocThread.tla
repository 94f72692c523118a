----------------------------- MODULE LocThread ------------------------------
(***************************************************************************)
(* The life of one LocThreadDelegate (gps/utils/LocThread.cpp): the client *)
(* thread that constructs, stops or abandons it and the worker it spawns   *)
(* share it, and whichever of the two lets go last deletes it.             *)
(*                                                                         *)
(* mRunnable and mRefCount are read and written without the mutex except   *)
(* for the decrement, so every access is a step of its own.  The runnable  *)
(* is the client's; what run() returns is open.                            *)
(***************************************************************************)
EXTENDS Naturals

VARIABLES mRunnable,  \* the pointer: "runnable" or "NULL"
          mJoinable,  \* "joinable" or "detached"
          mRefCount,
          pc,         \* where the client and the worker are
          delegate,   \* the LocThreadDelegate: "none", "live" or "freed"
          runnable,   \* the LocRunnable: "live" or "deleted"
          joinable,   \* the argument of LocThread::start
          result,     \* what LocThread::start returned
          late        \* history: calls of run() that ended after a stop

tvars == <<mRunnable, mJoinable, mRefCount, pc, delegate, runnable, joinable,
           result, late>>

Threads == {"client", "worker"}

isRunning == mRunnable # "NULL"

Goto(t, there) == pc' = [pc EXCEPT ![t] = there]

Init ==
    /\ mRunnable = "NULL"
    /\ mJoinable = "detached"
    /\ mRefCount = 0
    /\ pc = [t \in Threads |-> IF t = "client" THEN "start" ELSE "unborn"]
    /\ delegate = "none"
    /\ runnable = "live"
    /\ joinable \in {"joinable", "detached"}
    /\ result = "none"
    /\ late = 0

-----------------------------------------------------------------------------
(* Mutant: a failed pthread_create leaves the count at two. *)
Construct_twoReferences ==
    /\ pc["client"] = "start"
    /\ delegate' = "live"
    /\ \/ /\ mRunnable' = "runnable"
          /\ mJoinable' = joinable
          /\ pc' = [pc EXCEPT !["client"] = "created", !["worker"] = "entry"]
       \/ /\ mRunnable' = "NULL"
          /\ mJoinable' = "detached"
          /\ Goto("client", "created")
    /\ mRefCount' = 2
    /\ UNCHANGED <<runnable, joinable, result, late>>

(* The constructor: pthread_create spawns the worker, or fails and the     *)
(* members are set back.                                                   *)
Construct ==
    /\ pc["client"] = "start"
    /\ delegate' = "live"
    /\ \/ /\ mRunnable' = "runnable"
          /\ mJoinable' = joinable
          /\ mRefCount' = 2
          /\ pc' = [pc EXCEPT !["client"] = "created", !["worker"] = "entry"]
       \/ /\ mRunnable' = "NULL"
          /\ mJoinable' = "detached"
          /\ mRefCount' = 1
          /\ Goto("client", "created")
    /\ UNCHANGED <<runnable, joinable, result, late>>

(* LocThreadDelegate::create takes a delegate that is not running for one  *)
(* that could not be created.                                              *)
CheckCreated ==
    /\ pc["client"] = "created"
    /\ \/ /\ isRunning
          /\ result' = "true"
          /\ Goto("client", "holding")
       \/ /\ ~isRunning
          /\ result' = "false"
          /\ Goto("client", "count")
    /\ UNCHANGED <<mRunnable, mJoinable, mRefCount, delegate, runnable, joinable, late>>

(* Mutant: the runnable is left in place and the worker goes on. *)
Stop_keepsRunnable ==
    /\ pc["client"] = "holding"
    /\ Goto("client", "stopping")
    /\ UNCHANGED <<mRunnable, mJoinable, mRefCount, delegate, runnable, joinable,
                   result, late>>

(* LocThread::stop and LocThreadDelegate::stop up to the join. *)
Stop ==
    /\ pc["client"] = "holding"
    /\ mRunnable' = "NULL"
    /\ Goto("client", "stopping")
    /\ UNCHANGED <<mJoinable, mRefCount, delegate, runnable, joinable, result, late>>

(* ~LocThread says bye(): stop a joinable thread, leave a detached one. *)
Bye ==
    \/ mJoinable = "joinable" /\ Stop
    \/ /\ mJoinable = "detached"
       /\ pc["client"] = "holding"
       /\ Goto("client", "count")
       /\ UNCHANGED <<mRunnable, mJoinable, mRefCount, delegate, runnable, joinable,
                      result, late>>

(* Mutant: nobody waits for the worker. *)
Join_detached ==
    /\ pc["client"] = "stopping"
    /\ mJoinable' = "detached"
    /\ Goto("client", "count")
    /\ UNCHANGED <<mRunnable, mRefCount, delegate, runnable, joinable, result, late>>

(* pthread_join, of a joinable thread, returns when the worker has exited. *)
Join ==
    /\ pc["client"] = "stopping"
    /\ mJoinable = "joinable" => pc["worker"] = "gone"
    /\ mJoinable' = "detached"
    /\ Goto("client", "count")
    /\ UNCHANGED <<mRunnable, mRefCount, delegate, runnable, joinable, result, late>>

-----------------------------------------------------------------------------
(* threadMain: the only look at the runnable the worker keeps. *)
ReadRunnable ==
    /\ pc["worker"] = "entry"
    /\ Goto("worker", IF isRunning THEN "loop" ELSE "count")
    /\ UNCHANGED <<mRunnable, mJoinable, mRefCount, delegate, runnable, joinable,
                   result, late>>

(* Mutant: the loop goes by what run() returned only. *)
Loop_unchecked ==
    /\ pc["worker"] = "loop"
    /\ Goto("worker", "run")
    /\ UNCHANGED <<mRunnable, mJoinable, mRefCount, delegate, runnable, joinable,
                   result, late>>

(* The loop condition looks at mRunnable before it calls run(). *)
Loop ==
    /\ pc["worker"] = "loop"
    /\ Goto("worker", IF isRunning THEN "run" ELSE "leave")
    /\ UNCHANGED <<mRunnable, mJoinable, mRefCount, delegate, runnable, joinable,
                   result, late>>

RunReturns(again) ==
    /\ pc["worker"] = "run"
    /\ late' = IF isRunning THEN late ELSE late + 1
    /\ Goto("worker", IF again THEN "loop" ELSE "leave")
    /\ UNCHANGED <<mRunnable, mJoinable, mRefCount, delegate, runnable, joinable, result>>

(* The worker's way out NULLs mRunnable ... *)
ClearRunnable ==
    /\ pc["worker"] = "leave"
    /\ mRunnable' = "NULL"
    /\ Goto("worker", "delete runnable")
    /\ UNCHANGED <<mJoinable, mRefCount, delegate, runnable, joinable, result, late>>

(* ... and deletes the runnable. *)
DeleteRunnable ==
    /\ pc["worker"] = "delete runnable"
    /\ runnable' = "deleted"
    /\ Goto("worker", "count")
    /\ UNCHANGED <<mRunnable, mJoinable, mRefCount, delegate, joinable, result, late>>

-----------------------------------------------------------------------------
(* LocThreadDelegate::destroy, by either thread: a look at the count ... *)
CheckCount(t) ==
    /\ pc[t] = "count"
    /\ Goto(t, IF mRefCount > 0 THEN "decrement" ELSE "gone")
    /\ UNCHANGED <<mRunnable, mJoinable, mRefCount, delegate, runnable, joinable,
                   result, late>>

(* ... the critical section ... *)
Decrement(t) ==
    /\ pc[t] = "decrement"
    /\ mRefCount' = mRefCount - 1
    /\ Goto(t, IF mRefCount = 1 THEN "delete" ELSE "gone")
    /\ UNCHANGED <<mRunnable, mJoinable, delegate, runnable, joinable, result, late>>

(* ... and the deletion by the last one out. *)
Delete(t) ==
    /\ pc[t] = "delete"
    /\ delegate' = "freed"
    /\ Goto(t, "gone")
    /\ UNCHANGED <<mRunnable, mJoinable, mRefCount, runnable, joinable, result, late>>

destroy(t) == CheckCount(t) \/ Decrement(t) \/ Delete(t)

StartThread == Construct \/ CheckCreated
ThreadMain == ReadRunnable \/ Loop \/ ClearRunnable \/ DeleteRunnable

Next ==
    \/ StartThread
    \/ Stop
    \/ Bye
    \/ Join
    \/ ThreadMain
    \/ \E again \in BOOLEAN : RunReturns(again)
    \/ \E t \in Threads : destroy(t)

Spec == Init /\ [][Next]_tvars

(* Both threads are scheduled and run() returns; a client that has begun   *)
(* to leave goes on, but none is obliged to start or to stop a thread.     *)
Fairness ==
    /\ WF_tvars(ThreadMain)
    /\ WF_tvars(\E again \in BOOLEAN : RunReturns(again))
    /\ WF_tvars(CheckCreated)
    /\ WF_tvars(Join)
    /\ \A t \in Threads : WF_tvars(destroy(t))

FairSpec == Spec /\ Fairness
-----------------------------------------------------------------------------
ClientPlace == {"start", "created", "holding", "stopping", "count", "decrement",
                "delete", "gone"}
WorkerPlace == {"unborn", "entry", "loop", "run", "leave", "delete runnable",
                "count", "decrement", "delete", "gone"}

(* The type invariant. *)
TypeOK ==
    /\ mRunnable \in {"runnable", "NULL"}
    /\ mJoinable \in {"joinable", "detached"}
    /\ mRefCount \in 0..2
    /\ pc \in [Threads -> ClientPlace \cup WorkerPlace]
    /\ pc["client"] \in ClientPlace
    /\ pc["worker"] \in WorkerPlace
    /\ delegate \in {"none", "live", "freed"}
    /\ runnable \in {"live", "deleted"}
    /\ joinable \in {"joinable", "detached"}
    /\ result \in {"none", "true", "false"}
    /\ late \in Nat

(* A thread that has not passed the end of destroy() still looks at the    *)
(* delegate. *)
Uses(t) == pc[t] \notin {"start", "unborn", "gone"}

(* The delegate lives exactly as long as one of the two threads uses it:   *)
(* in whatever order they leave, the unlocked look at mRefCount, the       *)
(* worker's mRunnable and the client's mThandle are never read from a      *)
(* deleted object, and somebody deletes it.                                *)
DelegateLifetime == (delegate = "live") <=> (\E t \in Threads : Uses(t))

(* stop() and ~LocThread of a joinable thread that was started return      *)
(* after the worker is through with the runnable and with everything else. *)
JoinedWhenGone ==
    joinable = "joinable" /\ result = "true" /\ pc["client"] = "gone" => pc["worker"] = "gone"

(* A stopped worker finishes the run() it is in, or is about to enter, and *)
(* never enters another.                                                   *)
OneRunAfterStop == late <= 1

(* The thread is safe to start, stop and delete: its delegate outlives its *)
(* users, a join ends it, and a stop keeps it from run().                  *)
ThreadSafe == DelegateLifetime /\ JoinedWhenGone /\ OneRunAfterStop

(* A client that stops its thread gets out of stop(), and the delegate is  *)
(* deleted once the worker has followed.                                   *)
StopReturns == pc["client"] = "stopping" ~> pc["client"] = "gone" /\ delegate = "freed"
=============================================================================
