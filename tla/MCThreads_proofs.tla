-------------------------- MODULE MCThreads_proofs --------------------------
(***************************************************************************)
(* Theorems about the threads of the HAL: a LocThread with any run(), the  *)
(* message task that is one, the threads that ask for a context, and the   *)
(* thread that reads the daemons' pipe.                                    *)
(***************************************************************************)
EXTENDS MCThreads, TLAPS, SequenceTheorems, NaturalsInduction, WellFoundedInduction

-----------------------------------------------------------------------------
(* LocThread.  Both memory properties rest on one fact: the count is the   *)
(* number of threads that have not decremented it yet, and the thread that *)
(* takes it to zero is the only one that can delete.                       *)

(* The threads that have a reference to give back. *)
Holds(t) == pc[t] \notin {"start", "unborn", "delete", "gone"}

Counted ==
    /\ (mRefCount = 2) <=> (Holds("client") /\ Holds("worker"))
    /\ (mRefCount = 0) <=> ~(Holds("client") \/ Holds("worker"))
    /\ pc["client"] = "delete" => ~Holds("worker")
    /\ pc["worker"] = "delete" => ~Holds("client")
    /\ pc["client"] = "delete" => pc["worker"] # "delete"

Alive ==
    /\ (pc["client"] = "start") <=> (delegate = "none")
    /\ pc["client"] = "start" => pc["worker"] = "unborn"
    /\ (delegate = "live") <=> (Uses("client") \/ Uses("worker"))

Joined ==
    /\ (result = "none") <=> (pc["client"] \in {"start", "created"})
    /\ pc["client"] = "created" /\ isRunning => mJoinable = joinable
    /\ pc["client"] \in {"holding", "stopping"} => mJoinable = joinable
    /\ pc["client"] \in {"holding", "stopping"} => result = "true"
    /\ joinable = "joinable" /\ result = "true" /\ pc["client"] \in {"count", "decrement", "delete", "gone"}
         => pc["worker"] = "gone"

(* A stopped worker has one run() left while it is in the loop's body and  *)
(* none once it is back at the condition.                                  *)
Late ==
    /\ late \in {0, 1}
    /\ pc["worker"] \in {"unborn", "entry"} => late = 0
    /\ pc["client"] # "start" /\ isRunning => late = 0
    /\ pc["worker"] = "run" => late = 0

IInv == TypeOK /\ Counted /\ Alive /\ Joined /\ Late

(* The invariant holds when the client has not constructed anything. *)
LEMMA InitInv == Init => IInv
  BY DEF Init, IInv, TypeOK, Counted, Alive, Joined, Late, Holds, Uses, Threads,
         ClientPlace, WorkerPlace, isRunning

(* Every step keeps the variables well typed; the count stays in its range *)
(* because a thread that decrements it still holds a reference.            *)
LEMMA StepType == IInv /\ [Next]_tvars => TypeOK'
<1> SUFFICES ASSUME IInv, [Next]_tvars PROVE TypeOK'
  OBVIOUS
<1>0. TypeOK
  BY DEF IInv
<1>1. CASE Construct
  <2>1. /\ pc' \in [Threads -> ClientPlace \cup WorkerPlace]
        /\ pc'["client"] \in ClientPlace
        /\ pc'["worker"] \in WorkerPlace
    BY <1>0, <1>1, ZenonT(60) DEF TypeOK, Construct, Goto, Threads, ClientPlace, WorkerPlace
  <2>2. mRefCount' \in 0..2
    BY <1>1 DEF Construct
  <2> QED
    BY <1>0, <1>1, <2>1, <2>2 DEF TypeOK, Construct
<1>2. CASE CheckCreated
  BY <1>0, <1>2, ZenonT(60) DEF TypeOK, CheckCreated, Threads, ClientPlace, WorkerPlace, Goto
<1>3. CASE Stop
  BY <1>0, <1>3 DEF TypeOK, Stop, Threads, ClientPlace, WorkerPlace, Goto
<1>4. CASE Bye
  BY <1>0, <1>4, ZenonT(60) DEF TypeOK, Bye, Stop, Threads, ClientPlace, WorkerPlace, Goto
<1>5. CASE Join
  BY <1>0, <1>5 DEF TypeOK, Join, Threads, ClientPlace, WorkerPlace, Goto
<1>6. CASE ReadRunnable
  BY <1>0, <1>6 DEF TypeOK, ReadRunnable, Threads, ClientPlace, WorkerPlace, Goto
<1>7. CASE Loop
  BY <1>0, <1>7 DEF TypeOK, Loop, Threads, ClientPlace, WorkerPlace, Goto
<1>8. ASSUME NEW again \in BOOLEAN, RunReturns(again) PROVE TypeOK'
  <2>1. /\ pc' \in [Threads -> ClientPlace \cup WorkerPlace]
        /\ pc'["client"] \in ClientPlace
        /\ pc'["worker"] \in WorkerPlace
    BY <1>0, <1>8 DEF TypeOK, RunReturns, Goto, Threads, ClientPlace, WorkerPlace
  <2>2. late' \in Nat
    BY <1>0, <1>8 DEF TypeOK, RunReturns
  <2> QED
    BY <1>0, <1>8, <2>1, <2>2 DEF TypeOK, RunReturns
<1>9. CASE ClearRunnable
  BY <1>0, <1>9 DEF TypeOK, ClearRunnable, Threads, ClientPlace, WorkerPlace, Goto
<1>10. CASE DeleteRunnable
  BY <1>0, <1>10 DEF TypeOK, DeleteRunnable, Threads, ClientPlace, WorkerPlace, Goto
<1>11. ASSUME NEW t \in Threads, CheckCount(t) PROVE TypeOK'
  BY <1>0, <1>11, ZenonT(60) DEF TypeOK, CheckCount, Threads, ClientPlace, WorkerPlace, Goto
<1>12. ASSUME NEW t \in Threads, Decrement(t) PROVE TypeOK'
  <2>1. /\ pc' \in [Threads -> ClientPlace \cup WorkerPlace]
        /\ pc'["client"] \in ClientPlace
        /\ pc'["worker"] \in WorkerPlace
    BY <1>0, <1>12 DEF TypeOK, Decrement, Goto, Threads, ClientPlace, WorkerPlace
  <2>2. mRefCount # 0
    BY <1>12 DEF IInv, Counted, Holds, Decrement, Threads
  <2>3. mRefCount' \in 0..2
    BY <1>0, <1>12, <2>2 DEF TypeOK, Decrement
  <2> QED
    BY <1>0, <1>12, <2>1, <2>3 DEF TypeOK, Decrement
<1>13. ASSUME NEW t \in Threads, Delete(t) PROVE TypeOK'
  BY <1>0, <1>13 DEF TypeOK, Delete, Threads, ClientPlace, WorkerPlace, Goto
<1>14. CASE UNCHANGED tvars
  BY <1>0, <1>14, SMTT(30) DEF TypeOK, tvars
<1> QED
  BY <1>1, <1>2, <1>3, <1>4, <1>5, <1>6, <1>7, <1>8, <1>9, <1>10, <1>11, <1>12,
     <1>13, <1>14 DEF Next, StartThread, ThreadMain, destroy

(* Every step of either thread keeps the invariant. *)
LEMMA StepInv == IInv /\ [Next]_tvars => IInv'
<1> SUFFICES ASSUME IInv, [Next]_tvars PROVE Counted' /\ Alive' /\ Joined' /\ Late'
  BY StepType DEF IInv
<1> USE DEF IInv, TypeOK, Counted, Alive, Joined, Late, Holds, Uses, Threads, Goto,
            isRunning
<1>1. CASE Construct
  BY <1>1 DEF Construct
<1>2. CASE CheckCreated
  BY <1>2 DEF CheckCreated
<1>3. CASE Stop
  BY <1>3 DEF Stop
<1>4. CASE Bye
  BY <1>4 DEF Bye, Stop
<1>5. CASE Join
  BY <1>5 DEF Join
<1>6. CASE ReadRunnable
  BY <1>6 DEF ReadRunnable
<1>7. CASE Loop
  BY <1>7 DEF Loop
<1>8. ASSUME NEW again \in BOOLEAN, RunReturns(again) PROVE Counted' /\ Alive' /\ Joined' /\ Late'
  BY <1>8 DEF RunReturns
<1>9. CASE ClearRunnable
  BY <1>9 DEF ClearRunnable
<1>10. CASE DeleteRunnable
  BY <1>10 DEF DeleteRunnable
<1>11. ASSUME NEW t \in Threads, CheckCount(t) PROVE Counted' /\ Alive' /\ Joined' /\ Late'
  BY <1>11 DEF CheckCount
<1>12. ASSUME NEW t \in Threads, Decrement(t) PROVE Counted' /\ Alive' /\ Joined' /\ Late'
  BY <1>12 DEF Decrement
<1>13. ASSUME NEW t \in Threads, Delete(t) PROVE Counted' /\ Alive' /\ Joined' /\ Late'
  BY <1>13 DEF Delete
<1>14. CASE UNCHANGED tvars
  BY <1>14 DEF tvars
<1> QED
  BY <1>1, <1>2, <1>3, <1>4, <1>5, <1>6, <1>7, <1>8, <1>9, <1>10, <1>11, <1>12,
     <1>13, <1>14 DEF Next, StartThread, ThreadMain, destroy

(* The invariant holds in every state. *)
THEOREM Invariant == Spec => []IInv
  BY InitInv, StepInv, PTL DEF Spec

(* Every state is well typed. *)
THEOREM TypeCorrect == Spec => []TypeOK
<1>1. IInv => TypeOK
  BY DEF IInv
<1> QED
  BY Invariant, <1>1, PTL

(* The delegate is alive while one of the threads uses it, and no longer. *)
THEOREM DelegateLifetimeTheorem == Spec => []DelegateLifetime
<1>1. IInv => DelegateLifetime
  BY DEF IInv, Alive, DelegateLifetime, Threads
<1> QED
  BY Invariant, <1>1, PTL

(* A joinable thread has exited when stop() returns. *)
THEOREM JoinedTheorem == Spec => []JoinedWhenGone
<1>1. IInv => JoinedWhenGone
  BY DEF IInv, Joined, JoinedWhenGone
<1> QED
  BY Invariant, <1>1, PTL

(* After a stop at most one run() is finished. *)
THEOREM OneRunTheorem == Spec => []OneRunAfterStop
<1>1. IInv => OneRunAfterStop
  BY DEF IInv, Late, OneRunAfterStop
<1> QED
  BY Invariant, <1>1, PTL

(* The delegate's lifetime, the join and the last run() together. *)
THEOREM ThreadSafeTheorem == Spec => []ThreadSafe
<1>1. DelegateLifetime /\ JoinedWhenGone /\ OneRunAfterStop => ThreadSafe
  BY DEF ThreadSafe
<1> QED
  BY DelegateLifetimeTheorem, JoinedTheorem, OneRunTheorem, <1>1, PTL

-----------------------------------------------------------------------------
(* MsgTask, on top of the invariant of its LocThread.  The order of the    *)
(* messages rests on where they are: what was accepted is, place by place, *)
(* what was handled, then the message run() has, then the queue, until the *)
(* task is deleted and the queue with it.                                  *)

(* The task's own variables have their types. *)
Types ==
    /\ mQ \in Seq(TaskMessages)
    /\ mQUnblocked \in BOOLEAN
    /\ step \in {"receive", "waiting", "handle", "delete"}
    /\ msg \in TaskMessages \cup {NULL}
    /\ owner \in {"constructing", "using", "unblocked", "deleting thread", "done",
                  "undefined"}
    /\ sentMsgs \in Seq(TaskMessages)
    /\ handled \in Seq(TaskMessages)
    /\ deleted \in [TaskMessages -> {0, 1}]

(* Until destroy() the worker cannot leave, so that start() fails only     *)
(* when there never was a worker, and nobody deletes the task.             *)
Control ==
    /\ mQUnblocked <=> owner \notin {"constructing", "using"}
    /\ pc["client"] \in {"start", "created"} => owner = "constructing"
    /\ step # "receive" => pc["worker"] = "run"
    /\ ~mQUnblocked => pc["worker"] \in {"unborn", "entry", "loop", "run"}
    /\ ~mQUnblocked => pc["client"] \notin {"stopping"}
    /\ ~mQUnblocked /\ pc["worker"] # "unborn" => isRunning
    /\ result = "false" => pc["worker"] = "unborn"
    /\ runnable = "deleted" =>
         mQUnblocked /\ pc["worker"] \notin {"entry", "loop", "run", "leave", "delete runnable"}

(* How many messages run() has that are not handled yet. *)
Now == IF step = "handle" THEN 1 ELSE 0

(* Where the accepted messages are. *)
InTurn ==
    /\ Len(handled) + Now + Len(mQ) <= Len(sentMsgs)
    /\ runnable = "live" => Len(handled) + Now + Len(mQ) = Len(sentMsgs)
    /\ \A i \in 1..Len(handled) : handled[i] = sentMsgs[i]
    /\ step = "handle" => msg = sentMsgs[Len(handled) + 1]
    /\ \A i \in 1..Len(mQ) : mQ[i] = sentMsgs[Len(handled) + Now + i]

Distinct == \A i, j \in 1..Len(sentMsgs) : sentMsgs[i] = sentMsgs[j] => i = j

(* The messages that are gone: all but the one handled last, while run()   *)
(* still has it. *)
Over == Len(handled) - (IF step = "delete" THEN 1 ELSE 0)

Deletions ==
    /\ step = "delete" => Len(handled) > 0 /\ msg = handled[Len(handled)]
    /\ \A m \in TaskMessages : deleted[m] = 1 <=>
         \/ runnable = "deleted" /\ \E i \in 1..Len(sentMsgs) : sentMsgs[i] = m
         \/ \E i \in 1..Over : handled[i] = m

TaskInv == IInv /\ Types /\ Control /\ InTurn /\ Distinct /\ Deletions

-----------------------------------------------------------------------------
(* What a sequence's functions return, in the form the steps need. *)
LEMMA RangeIs == ASSUME NEW S, NEW s \in Seq(S), NEW m
                 PROVE m \in Range(s) <=> \E i \in 1..Len(s) : s[i] = m
  BY LenProperties DEF Range

(* Lengths are numbers. *)
LEMMA Lengths ==
    Types => Len(handled) \in Nat /\ Len(mQ) \in Nat /\ Len(sentMsgs) \in Nat
  BY LenProperties DEF Types

(* In a live task every accepted message is somewhere. *)
LEMMA Everywhere ==
    TaskInv /\ runnable = "live" => Len(handled) + Now + Len(mQ) = Len(sentMsgs)
  BY DEF TaskInv, InTurn

(* Nothing has been sent when the task is constructed. *)
LEMMA TaskInitInv == TaskInit => TaskInv
<1> SUFFICES ASSUME TaskInit PROVE TaskInv
  OBVIOUS
<1>1. Init
  BY DEF TaskInit
<1>2. IInv
  BY <1>1, InitInv
<1>3. <<>> \in Seq(TaskMessages) /\ Len(<<>>) = 0
  BY EmptySeq
<1>4. Types
  BY <1>3 DEF TaskInit, Types
<1>5. Control
  BY <1>1, <1>2 DEF TaskInit, Control, Init, Threads
<1>6. InTurn /\ Distinct
  BY <1>1, <1>3 DEF TaskInit, InTurn, Distinct, Now, Init
<1>7. Deletions
  BY <1>1, <1>3 DEF TaskInit, Deletions, Over, Init
<1> QED
  BY <1>2, <1>4, <1>5, <1>6, <1>7 DEF TaskInv

(* A step of the task is one of its thread, or leaves the thread alone but *)
(* for the runnable, which its invariant only gives a type.                *)
LEMMA ThreadStep == TaskInv /\ [TaskNext]_vars => IInv'
<1> SUFFICES ASSUME TaskInv, [TaskNext]_vars PROVE IInv'
  OBVIOUS
<1>1. IInv
  BY DEF TaskInv
<1>2. CASE [Next]_tvars
  BY <1>1, <1>2, StepInv
<1>3. CASE destroyTakeThread
  <2>1. /\ UNCHANGED <<mRunnable, mJoinable, mRefCount, pc, delegate, joinable, result, late>>
        /\ runnable' \in {"live", "deleted"}
    BY <1>1, <1>3 DEF destroyTakeThread, IInv, TypeOK
  <2>2. TypeOK'
    BY <1>1, <2>1 DEF IInv, TypeOK
  <2>3. Counted' /\ Alive' /\ Joined' /\ Late'
    BY <1>1, <2>1 DEF IInv, Counted, Alive, Joined, Late, Holds, Uses, isRunning
  <2> QED
    BY <2>2, <2>3 DEF IInv
<1>4. CASE ~destroyTakeThread /\ TaskNext
  <2>1. CASE StartTask
    BY <1>2, <2>1 DEF StartTask, Next, Threads
  <2>2. ASSUME NEW m \in TaskMessages, sendMsg(m) PROVE IInv'
    BY <1>2, <2>2 DEF sendMsg
  <2>3. CASE Receive \/ Wait \/ Handle
    BY <1>2, <2>3 DEF Receive, Wait, Handle
  <2>4. CASE ReceiveFails \/ DeleteMsg
    BY <1>2, <2>4 DEF ReceiveFails, DeleteMsg, Next
  <2>5. CASE TaskMain \/ (destroy("worker") /\ UNCHANGED mvars)
    BY <1>2, <2>5 DEF TaskMain, Next, ThreadMain, Threads
  <2>6. CASE destroyUnblock
    BY <1>2, <2>6 DEF destroyUnblock
  <2>7. CASE destroyThread
    BY <1>2, <2>7 DEF destroyThread, Next, Threads
  <2> QED
    BY <1>4, <2>1, <2>2, <2>3, <2>4, <2>5, <2>6, <2>7 DEF TaskNext
<1> QED
  BY <1>2, <1>3, <1>4 DEF vars

(* The worker stays and nobody deletes the task until destroy(). *)
LEMMA ControlStep == TaskInv /\ [TaskNext]_vars => Control'
<1> SUFFICES ASSUME TaskInv, [TaskNext]_vars PROVE Control'
  OBVIOUS
<1> USE DEF Control, isRunning, Goto, Threads
<1>0. Control /\ Types /\ TypeOK /\ Alive /\ Joined
  BY DEF TaskInv, IInv
<1>1. CASE StartTask
  <2>1. CASE Construct
    BY <1>0, <1>1, <2>1 DEF StartTask, Construct, TypeOK, Alive, Joined
  <2>2. CASE CheckCreated
    BY <1>0, <1>1, <2>2 DEF StartTask, CheckCreated, TypeOK, Alive
  <2>3. CASE result = "false" /\ destroy("client")
    BY <1>0, <1>1, <2>3 DEF StartTask, destroy, CheckCount, Decrement, Delete, TypeOK, Joined
  <2> QED
    BY <1>1, <2>1, <2>2, <2>3 DEF StartTask, StartThread
<1>2. ASSUME NEW m \in TaskMessages, sendMsg(m) PROVE Control'
  BY <1>0, <1>2 DEF sendMsg, tvars
<1>3. CASE Receive \/ Wait \/ Handle
  <2>1. UNCHANGED <<tvars, mQUnblocked, owner>> /\ pc["worker"] = "run"
    BY <1>3 DEF Receive, Wait, Handle
  <2> QED
    BY <1>0, <2>1 DEF tvars
<1>4. CASE ReceiveFails \/ DeleteMsg
  <2>1. /\ pc["worker"] = "run" /\ step' = "receive" /\ UNCHANGED <<mQUnblocked, owner>>
        /\ \/ mQUnblocked /\ RunReturns(FALSE)
           \/ RunReturns(TRUE)
    BY <1>4 DEF ReceiveFails, DeleteMsg, RunReturns
  <2> QED
    BY <1>0, <2>1 DEF RunReturns, TypeOK
<1>5. CASE TaskMain
  <2>1. CASE ReadRunnable
    BY <1>0, <1>5, <2>1 DEF TaskMain, ReadRunnable, mvars, TypeOK
  <2>2. CASE Loop
    BY <1>0, <1>5, <2>2 DEF TaskMain, Loop, mvars, TypeOK
  <2>3. CASE ClearRunnable
    BY <1>0, <1>5, <2>3 DEF TaskMain, ClearRunnable, mvars, TypeOK
  <2>4. CASE DeleteRunnable /\ UNCHANGED <<mQUnblocked, step, msg, owner, sentMsgs, handled>>
    BY <1>0, <1>5, <2>4 DEF DeleteRunnable, TypeOK
  <2> QED
    BY <1>5, <2>1, <2>2, <2>3, <2>4 DEF TaskMain
<1>6. CASE destroy("worker") /\ UNCHANGED mvars
  BY <1>0, <1>6 DEF destroy, CheckCount, Decrement, Delete, mvars, TypeOK
<1>7. CASE destroyUnblock
  BY <1>0, <1>7 DEF destroyUnblock, tvars
<1>8. CASE destroyTakeThread
  BY <1>0, <1>8 DEF destroyTakeThread
<1>9. CASE destroyThread
  BY <1>0, <1>9, ZenonT(60) DEF destroyThread, Bye, Stop, Join, destroy, CheckCount, Decrement, Delete,
                    TypeOK, Types
<1>10. CASE UNCHANGED vars
  BY <1>0, <1>10 DEF vars, tvars, mvars
<1> QED
  BY <1>1, <1>2, <1>3, <1>4, <1>5, <1>6, <1>7, <1>8, <1>9, <1>10 DEF TaskNext
-----------------------------------------------------------------------------
(* What the flush does to a task that is alive and has no message in hand. *)
LEMMA FlushStep ==
    ASSUME TaskInv, Flush, runnable = "live", step = "receive", runnable' = "deleted",
           UNCHANGED <<step, msg, sentMsgs, handled>>
    PROVE  /\ mQ' \in Seq(TaskMessages) /\ deleted' \in [TaskMessages -> {0, 1}]
           /\ InTurn' /\ Distinct' /\ Deletions'
<1> USE DEF TaskInv
<1>1. mQ' = <<>> /\ <<>> \in Seq(TaskMessages) /\ Len(<<>>) = 0
  BY EmptySeq DEF Flush
<1>2. /\ Len(handled) \in Nat /\ Len(mQ) \in Nat /\ Len(sentMsgs) \in Nat
      /\ Len(handled) + Len(mQ) = Len(sentMsgs)
  BY Lengths, Everywhere DEF Now
<1>3. InTurn' /\ Distinct'
  <2>1. \A i \in 1..Len(handled) : handled[i] = sentMsgs[i]
    BY DEF InTurn
  <2>2. Len(mQ') = 0 /\ step' = "receive" /\ runnable' = "deleted"
    BY <1>1
  <2>3. InTurn'
    BY <1>2, <2>1, <2>2 DEF InTurn, Now
  <2> QED BY <2>3 DEF Distinct
<1>4. ASSUME NEW m \in TaskMessages
      PROVE  /\ deleted'[m] \in {0, 1}
             /\ deleted'[m] = 1 <=> \E i \in 1..Len(sentMsgs) : sentMsgs[i] = m
  <2>1. deleted[m] = 1 <=> \E i \in 1..Len(handled) : handled[i] = m
    BY <1>2 DEF Deletions, Over
  <2>2. Contains(mQ, m) <=> \E i \in 1..Len(mQ) : sentMsgs[Len(handled) + i] = m
    BY <1>2 DEF Contains, InTurn, Now
  <2>3. \A i \in 1..Len(handled) : handled[i] = sentMsgs[i]
    BY DEF InTurn
  <2>4. deleted'[m] = deleted[m] + IF Contains(mQ, m) THEN 1 ELSE 0
    BY DEF Flush
  <2>5. deleted[m] \in {0, 1}
    BY DEF Types
  <2>6. ~(deleted[m] = 1 /\ Contains(mQ, m))
    BY <1>2, <2>1, <2>2, <2>3 DEF Distinct
  <2>7. (\E i \in 1..Len(sentMsgs) : sentMsgs[i] = m) <=> (deleted[m] = 1 \/ Contains(mQ, m))
    <3>1. ASSUME NEW i \in 1..Len(sentMsgs), sentMsgs[i] = m
          PROVE  deleted[m] = 1 \/ Contains(mQ, m)
      <4>1. CASE i \in 1..Len(handled)
        BY <3>1, <4>1, <2>1, <2>3
      <4>2. CASE i \notin 1..Len(handled)
        <5>1. i - Len(handled) \in 1..Len(mQ) /\ Len(handled) + (i - Len(handled)) = i
          BY <1>2, <4>2
        <5> QED BY <5>1, <3>1, <2>2
      <4> QED BY <4>1, <4>2
    <3>2. ASSUME deleted[m] = 1 PROVE \E i \in 1..Len(sentMsgs) : sentMsgs[i] = m
      BY <1>2, <3>2, <2>1, <2>3
    <3>3. ASSUME Contains(mQ, m) PROVE \E i \in 1..Len(sentMsgs) : sentMsgs[i] = m
      <4>1. PICK i \in 1..Len(mQ) : sentMsgs[Len(handled) + i] = m
        BY <3>3, <2>2
      <4>2. Len(handled) + i \in 1..Len(sentMsgs)
        BY <1>2
      <4> QED BY <4>1, <4>2
    <3> QED BY <3>1, <3>2, <3>3
  <2> QED BY <2>4, <2>5, <2>6, <2>7
<1>5. deleted' \in [TaskMessages -> {0, 1}]
  BY <1>4 DEF Flush
<1>6. Deletions'
  BY <1>4, <1>1, <1>2 DEF Deletions, InTurn, Over
<1> QED
  BY <1>1, <1>3, <1>5, <1>6
(* What the facts about messages are about. *)
messages == <<mQ, msg, sentMsgs, handled, deleted>>

(* They hold on as long as none of that is changed. *)
LEMMA NothingMoves ==
    ASSUME TaskInv, UNCHANGED messages, UNCHANGED runnable,
           step' = step \/ {step, step'} \subseteq {"receive", "waiting"}
    PROVE  /\ mQ' \in Seq(TaskMessages) /\ deleted' \in [TaskMessages -> {0, 1}]
           /\ InTurn' /\ Distinct' /\ Deletions'
<1>1. Now' = Now /\ Over' = Over /\ (step = "handle" <=> step' = "handle")
        /\ (step = "delete" <=> step' = "delete")
  BY DEF Now, Over, messages
<1> QED
  BY <1>1, ZenonT(60) DEF TaskInv, Types, InTurn, Distinct, Deletions, messages

(* A message that is sent goes behind all others. *)
LEMMA SendStep ==
    ASSUME TaskInv, NEW m \in TaskMessages, sendMsg(m)
    PROVE  Types' /\ InTurn' /\ Distinct' /\ Deletions'
<1> USE DEF TaskInv, sendMsg
<1>1. /\ mQ' = Append(mQ, m) /\ sentMsgs' = Append(sentMsgs, m)
      /\ UNCHANGED <<mQUnblocked, step, msg, owner, handled, deleted, runnable>>
  BY DEF tvars
<1>2. /\ mQ' \in Seq(TaskMessages) /\ sentMsgs' \in Seq(TaskMessages)
      /\ Len(mQ') = Len(mQ) + 1 /\ Len(sentMsgs') = Len(sentMsgs) + 1
      /\ \A i \in 1..Len(mQ) : mQ'[i] = mQ[i]
      /\ \A i \in 1..Len(sentMsgs) : sentMsgs'[i] = sentMsgs[i]
      /\ mQ'[Len(mQ) + 1] = m /\ sentMsgs'[Len(sentMsgs) + 1] = m
  BY <1>1, AppendProperties, LenProperties DEF Types
<1>3. runnable = "live"
  BY DEF Control, IInv, TypeOK
<1>4. /\ Len(handled) \in Nat /\ Len(mQ) \in Nat /\ Len(sentMsgs) \in Nat /\ Now \in {0, 1}
      /\ Len(handled) + Now + Len(mQ) = Len(sentMsgs)
  BY <1>3, Lengths, Everywhere DEF Now
<1>5. Now' = Now /\ Over' = Over
  BY <1>1 DEF Now, Over
<1>6. Types'
  BY <1>1, <1>2 DEF Types
<1>7. InTurn'
  <2>1. ASSUME NEW i \in 1..Len(mQ') PROVE mQ'[i] = sentMsgs'[Len(handled) + Now + i]
    <3>1. CASE i \in 1..Len(mQ)
      <4> DEFINE j == Len(handled) + Now + i
      <4>1. j \in 1..Len(sentMsgs)
        BY <3>1, <1>4
      <4>2. mQ[i] = sentMsgs[j]
        BY <3>1 DEF InTurn
      <4> HIDE DEF j
      <4>3. mQ'[i] = mQ[i]
        BY <3>1, <1>2
      <4>4. sentMsgs'[j] = sentMsgs[j]
        BY <4>1, <1>2
      <4> QED BY <4>2, <4>3, <4>4 DEF j
    <3>2. CASE i = Len(mQ) + 1
      BY <3>2, <1>2, <1>4
    <3>3. i \in 1..Len(mQ) \/ i = Len(mQ) + 1
      <4>1. i \in 1..(Len(mQ) + 1)
        BY <1>2, <2>1
      <4> QED BY <4>1, <1>4
    <3> QED BY <3>1, <3>2, <3>3
  <2>2. \A i \in 1..Len(handled) : handled[i] = sentMsgs'[i]
    BY <1>2, <1>4 DEF InTurn
  <2>3. step = "handle" => msg = sentMsgs'[Len(handled) + 1]
    BY <1>2, <1>4 DEF InTurn, Now
  <2>4. Len(handled) + Now + Len(mQ') = Len(sentMsgs')
    BY <1>2, <1>4
  <2>5. Len(handled) + Now + Len(mQ') <= Len(sentMsgs')
    BY <2>4, <1>2, <1>4
  <2>6. /\ handled' = handled /\ Now' = Now /\ step' = step /\ msg' = msg
    BY <1>1, <1>5
  <2> HIDE DEF sendMsg, TaskInv
  <2> QED BY <2>1, <2>2, <2>3, <2>4, <2>5, <2>6, Zenon DEF InTurn
<1>8. \A i \in 1..Len(sentMsgs) : sentMsgs[i] # m
  BY RangeIs DEF Types
<1>9. Distinct'
  BY <1>2, <1>4, <1>8 DEF Distinct
<1>10. Deletions'
  BY <1>1, <1>3, <1>5 DEF Deletions
<1> QED
  BY <1>6, <1>7, <1>9, <1>10

(* The oldest message of the queue is the next one. *)
LEMMA ReceiveStep ==
    ASSUME TaskInv, Receive
    PROVE  Types' /\ InTurn' /\ Distinct' /\ Deletions'
<1> USE DEF TaskInv, Receive
<1>1. /\ Len(mQ) \in Nat \ {0}
      /\ mQ' \in Seq(TaskMessages) /\ Len(mQ') = Len(mQ) - 1
      /\ msg' = mQ[1] /\ msg' \in TaskMessages
      /\ \A i \in 1..Len(mQ') : mQ'[i] = mQ[i + 1]
  <2>1. mQ \in Seq(TaskMessages) /\ mQ # <<>> /\ msg' = Head(mQ) /\ mQ' = Tail(mQ)
    BY DEF Types
  <2>2. mQ[1] \in TaskMessages /\ Len(mQ) \in Nat \ {0}
    BY <2>1, EmptySeq, LenProperties, ElementOfSeq
  <2> QED BY <2>1, <2>2, HeadTailProperties
<1>2. /\ UNCHANGED <<mQUnblocked, owner, sentMsgs, handled, deleted, runnable>>
      /\ step' = "handle" /\ step \in {"receive", "waiting"}
  BY DEF tvars
<1>3. Now = 0 /\ Now' = 1 /\ Over' = Over
  BY <1>2 DEF Now, Over
<1>4. Len(handled) \in Nat /\ Len(sentMsgs) \in Nat
  BY LenProperties DEF Types
<1>5. Types'
  BY <1>1, <1>2 DEF Types
<1>6. InTurn'
  <2>1. msg' = sentMsgs[Len(handled) + 1]
    BY <1>1, <1>3, <1>4 DEF InTurn
  <2>2. \A i \in 1..Len(mQ') : mQ'[i] = sentMsgs[Len(handled) + 1 + i]
    BY <1>1, <1>3, <1>4 DEF InTurn
  <2> QED BY <1>1, <1>2, <1>3, <1>4, <2>1, <2>2 DEF InTurn
<1>7. Distinct' /\ Deletions'
  BY <1>2, <1>3 DEF Distinct, Deletions
<1> QED
  BY <1>5, <1>6, <1>7

(* The message in hand is handled. *)
LEMMA HandleStep ==
    ASSUME TaskInv, Handle
    PROVE  Types' /\ InTurn' /\ Distinct' /\ Deletions'
<1> USE DEF TaskInv, Handle
<1>1. /\ UNCHANGED <<mQ, mQUnblocked, msg, owner, sentMsgs, deleted, runnable>>
      /\ step = "handle" /\ step' = "delete"
  BY DEF tvars
<1>2. runnable = "live"
  BY DEF Control, IInv, TypeOK
<1>3. /\ Len(handled) \in Nat /\ Len(mQ) \in Nat /\ Len(sentMsgs) \in Nat
      /\ Len(handled) + 1 + Len(mQ) = Len(sentMsgs) /\ msg = sentMsgs[Len(handled) + 1]
      /\ Len(handled) + 1 \in 1..Len(sentMsgs)
  <2>1. Len(handled) + 1 + Len(mQ) = Len(sentMsgs)
    BY <1>1, <1>2, Everywhere DEF Now
  <2>2. msg = sentMsgs[Len(handled) + 1]
    BY <1>1 DEF InTurn
  <2> QED BY <2>1, <2>2, Lengths
<1>4. msg \in TaskMessages
  <2>1. sentMsgs \in Seq(TaskMessages)
    BY DEF Types
  <2> QED BY <1>3, <2>1, ElementOfSeq
<1>5. /\ handled' \in Seq(TaskMessages) /\ Len(handled') = Len(handled) + 1
      /\ \A i \in 1..Len(handled) : handled'[i] = handled[i]
      /\ handled'[Len(handled) + 1] = msg
  <2>1. handled \in Seq(TaskMessages) /\ handled' = Append(handled, msg)
    BY DEF Types
  <2> QED BY <1>4, <2>1, AppendProperties
<1>6. Types'
  BY <1>1, <1>5 DEF Types
<1>7. Now = 1 /\ Now' = 0 /\ Over = Len(handled) /\ Over' = Len(handled)
  BY <1>1, <1>3, <1>5 DEF Now, Over
<1>8. InTurn'
  BY <1>1, <1>3, <1>5, <1>7 DEF InTurn
<1>9. Distinct' /\ Deletions'
  BY <1>1, <1>2, <1>3, <1>5, <1>7 DEF Distinct, Deletions
<1> QED
  BY <1>6, <1>8, <1>9

(* The message that was handled is deleted, for the first time. *)
LEMMA DeleteStep ==
    ASSUME TaskInv, DeleteMsg
    PROVE  Types' /\ InTurn' /\ Distinct' /\ Deletions'
<1> USE DEF TaskInv, DeleteMsg
<1>1. /\ UNCHANGED <<mQ, mQUnblocked, owner, sentMsgs, handled, runnable>>
      /\ step = "delete" /\ step' = "receive" /\ msg' = NULL
      /\ deleted' = [deleted EXCEPT ![msg] = @ + 1]
  BY DEF RunReturns
<1>2. runnable = "live"
  BY DEF Control, IInv, TypeOK, RunReturns
<1>3. /\ Len(handled) \in Nat \ {0} /\ Len(sentMsgs) \in Nat /\ Len(handled) <= Len(sentMsgs)
      /\ Len(mQ) \in Nat /\ msg = handled[Len(handled)]
  <2>1. Len(handled) > 0 /\ msg = handled[Len(handled)]
    BY <1>1 DEF Deletions
  <2>2. Len(handled) + Now + Len(mQ) = Len(sentMsgs) /\ Now = 0
    BY <1>1, <1>2, Everywhere DEF Now
  <2> QED BY <2>1, <2>2, Lengths
<1>4. msg \in TaskMessages
  <2>1. handled \in Seq(TaskMessages)
    BY DEF Types
  <2> QED BY <1>3, <2>1, ElementOfSeq
<1>5. Over = Len(handled) - 1 /\ Over' = Len(handled) /\ Now = 0 /\ Now' = 0
  BY <1>1, <1>3 DEF Over, Now
<1>6. \A i \in 1..Over : handled[i] # msg
  BY <1>3, <1>5, SMTT(30) DEF InTurn, Distinct
<1>7. deleted[msg] = 0
  BY <1>1, <1>2, <1>4, <1>6 DEF Deletions, Types
<1>8. deleted \in [TaskMessages -> {0, 1}] /\ deleted' \in [TaskMessages -> {0, 1}]
      /\ deleted'[msg] = 1 /\ \A m \in TaskMessages \ {msg} : deleted'[m] = deleted[m]
  <2>1. deleted \in [TaskMessages -> {0, 1}]
    BY DEF Types
  <2> QED BY <1>1, <1>4, <1>7, <2>1
<1>9. Types'
  BY <1>1, <1>8 DEF Types
<1>10. InTurn' /\ Distinct'
  BY <1>1, <1>5 DEF InTurn, Distinct
<1>11. Deletions'
  <2>1. ASSUME NEW m \in TaskMessages
        PROVE  deleted'[m] = 1 <=> \E i \in 1..Len(handled) : handled[i] = m
    <3>1. CASE m = msg
      BY <3>1, <1>3, <1>8
    <3>2. CASE m # msg
      <4>1. deleted[m] = 1 <=> \E i \in 1..(Len(handled) - 1) : handled[i] = m
        BY <1>2, <1>5 DEF Deletions
      <4>2. handled[Len(handled)] # m
        BY <3>2, <1>3
      <4>3. \A i \in 1..Len(handled) : i = Len(handled) \/ i \in 1..(Len(handled) - 1)
        BY <1>3
      <4>4. \A i \in 1..(Len(handled) - 1) : i \in 1..Len(handled)
        BY <1>3
      <4> QED BY <3>2, <1>8, <4>1, <4>2, <4>3, <4>4
    <3> QED BY <3>1, <3>2
  <2> QED BY <1>1, <1>2, <1>5, <2>1 DEF Deletions
<1> QED
  BY <1>10, <1>11, <1>9

-----------------------------------------------------------------------------
(* Every step keeps the facts about messages. *)
LEMMA MessagesStep ==
    TaskInv /\ [TaskNext]_vars => Types' /\ InTurn' /\ Distinct' /\ Deletions'
<1> SUFFICES ASSUME TaskInv, [TaskNext]_vars PROVE Types' /\ InTurn' /\ Distinct' /\ Deletions'
  OBVIOUS
<1> USE DEF TaskInv
<1>1. CASE StartTask
  <2>1. UNCHANGED messages /\ UNCHANGED <<runnable, step, mQUnblocked>> /\ owner' \in {owner, "using"}
    BY <1>1 DEF StartTask, StartThread, Construct, CheckCreated, destroy, CheckCount, Decrement,
                Delete, messages
  <2> QED BY <2>1, NothingMoves DEF Types, messages
<1>2. ASSUME NEW m \in TaskMessages, sendMsg(m) PROVE Types' /\ InTurn' /\ Distinct' /\ Deletions'
  BY <1>2, SendStep
<1>3. CASE Receive
  BY <1>3, ReceiveStep
<1>4. CASE Wait
  <2>1. /\ UNCHANGED messages /\ UNCHANGED <<runnable, mQUnblocked, owner>>
        /\ step = "receive" /\ step' = "waiting"
    BY <1>4 DEF Wait, messages, tvars
  <2> QED BY <2>1, NothingMoves DEF Types, messages
<1>5. CASE ReceiveFails
  <2>1. /\ UNCHANGED messages /\ UNCHANGED <<runnable, mQUnblocked, owner>>
        /\ step \in {"receive", "waiting"} /\ step' = "receive"
    BY <1>5 DEF ReceiveFails, RunReturns, messages
  <2> QED BY <2>1, NothingMoves DEF Types, messages
<1>6. CASE Handle
  BY <1>6, HandleStep
<1>7. CASE DeleteMsg
  BY <1>7, DeleteStep
<1>8. CASE TaskMain
  <2>1. CASE ReadRunnable \/ Loop \/ ClearRunnable
    <3>1. CASE UNCHANGED mvars
      <4>1. UNCHANGED messages /\ UNCHANGED <<runnable, step, mQUnblocked, owner>>
        BY <2>1, <3>1 DEF ReadRunnable, Loop, ClearRunnable, messages, mvars
      <4> QED BY <4>1, NothingMoves DEF Types, messages
    <3>2. CASE DeleteRunnable
      BY <2>1, <3>2 DEF ReadRunnable, Loop, ClearRunnable, DeleteRunnable
    <3> QED BY <1>8, <3>1, <3>2 DEF TaskMain
  <2>2. CASE DeleteRunnable /\ Flush /\ UNCHANGED <<mQUnblocked, step, msg, owner, sentMsgs, handled>>
    <3>1. /\ runnable = "live" /\ step = "receive" /\ runnable' = "deleted"
      BY <2>2 DEF DeleteRunnable, Control, IInv, TypeOK
    <3> QED BY <2>2, <3>1, FlushStep DEF Types
  <2> QED BY <1>8, <2>1, <2>2 DEF TaskMain
<1>9. CASE destroy("worker") /\ UNCHANGED mvars
  <2>1. UNCHANGED messages /\ UNCHANGED <<runnable, step, mQUnblocked, owner>>
    BY <1>9 DEF destroy, CheckCount, Decrement, Delete, messages, mvars
  <2> QED BY <2>1, NothingMoves DEF Types, messages
<1>10. CASE destroyUnblock
  <2>1. /\ UNCHANGED messages /\ UNCHANGED <<runnable, step>>
        /\ mQUnblocked' = TRUE /\ owner' = "unblocked"
    BY <1>10 DEF destroyUnblock, messages, tvars
  <2> QED BY <2>1, NothingMoves DEF Types, messages
<1>11. CASE destroyTakeThread
  <2>1. UNCHANGED <<mQUnblocked, step, msg, sentMsgs, handled>> /\ owner' \in {"undefined", "deleting thread", "done"}
    BY <1>11 DEF destroyTakeThread
  <2>2. CASE UNCHANGED <<runnable, mQ, deleted>>
    <3>1. UNCHANGED messages /\ UNCHANGED runnable
      BY <2>1, <2>2 DEF messages
    <3> QED BY <2>1, <3>1, NothingMoves DEF Types, messages
  <2>3. CASE runnable = "live" /\ result = "false" /\ runnable' = "deleted" /\ Flush
    <3>1. step = "receive"
      BY <2>3 DEF Control
    <3> QED BY <2>1, <2>3, <3>1, FlushStep DEF Types
  <2> QED BY <1>11, <2>2, <2>3 DEF destroyTakeThread
<1>12. CASE destroyThread
  <2>1. UNCHANGED messages /\ UNCHANGED <<runnable, step, mQUnblocked>> /\ owner' \in {owner, "done"}
    BY <1>12 DEF destroyThread, Bye, Stop, Join, destroy, CheckCount, Decrement, Delete, messages
  <2> QED BY <2>1, NothingMoves DEF Types, messages
<1>13. CASE UNCHANGED vars
  <2>1. UNCHANGED messages /\ UNCHANGED <<runnable, step, mQUnblocked, owner>>
    BY <1>13 DEF vars, mvars, tvars, messages
  <2> QED BY <2>1, NothingMoves DEF Types, messages
<1> QED
  BY <1>1, <1>2, <1>3, <1>4, <1>5, <1>6, <1>7, <1>8, <1>9, <1>10, <1>11, <1>12, <1>13 DEF TaskNext

(* The invariant holds in every state. *)
THEOREM TaskInvariant == TaskSpec => []TaskInv
<1>1. TaskInv /\ [TaskNext]_vars => TaskInv'
  BY ThreadStep, ControlStep, MessagesStep DEF TaskInv
<1> QED
  BY TaskInitInv, <1>1, PTL DEF TaskSpec

(* What was handled is a prefix of what was sent. *)
LEMMA PrefixFollows == TaskInv => HandledInOrder
<1> SUFFICES ASSUME TaskInv PROVE HandledInOrder
  OBVIOUS
<1>1. /\ handled \in Seq(TaskMessages) /\ sentMsgs \in Seq(TaskMessages)
      /\ Len(handled) \in Nat /\ Len(sentMsgs) \in Nat /\ Len(handled) <= Len(sentMsgs)
      /\ \A i \in 1..Len(handled) : handled[i] = sentMsgs[i]
  <2>1. Types /\ InTurn
    BY DEF TaskInv
  <2>2. Now \in {0, 1} /\ Len(handled) + Now + Len(mQ) <= Len(sentMsgs)
    BY <2>1 DEF InTurn, Now
  <2>3. handled \in Seq(TaskMessages) /\ sentMsgs \in Seq(TaskMessages)
    BY <2>1 DEF Types
  <2>4. \A i \in 1..Len(handled) : handled[i] = sentMsgs[i]
    BY <2>1 DEF InTurn
  <2> QED BY <2>1, <2>2, <2>3, <2>4, Lengths
<1>2. SubSeq(handled, 1, Len(handled)) = SubSeq(sentMsgs, 1, Len(handled))
  <2>1. /\ SubSeq(handled, 1, Len(handled)) \in Seq(TaskMessages)
        /\ SubSeq(sentMsgs, 1, Len(handled)) \in Seq(TaskMessages)
        /\ Len(SubSeq(handled, 1, Len(handled))) = Len(handled)
        /\ Len(SubSeq(sentMsgs, 1, Len(handled))) = Len(handled)
        /\ \A i \in 1..Len(handled) : SubSeq(handled, 1, Len(handled))[i] = handled[i]
        /\ \A i \in 1..Len(handled) : SubSeq(sentMsgs, 1, Len(handled))[i] = sentMsgs[i]
    BY <1>1
  <2> QED BY <2>1, <1>1, SeqEqual
<1> QED
  BY <1>1, <1>2 DEF HandledInOrder, IsPrefix

(* Messages are handled in the order in which they were sent, by whatever  *)
(* threads, and each is deleted exactly once, after its handler or with    *)
(* the task (MsgTask.cpp). *)
THEOREM MessagesSafeTheorem == TaskSpec => []MessagesSafe
<1>1. TaskInv => TaskTypeOK
  BY DEF TaskInv, IInv, Types, TaskTypeOK
<1>2. TaskInv => MessagesDeleted
  <2> SUFFICES ASSUME TaskInv PROVE MessagesDeleted
    OBVIOUS
  <2>1. ASSUME NEW m \in TaskMessages, deleted[m] = 1, runnable # "deleted" PROVE m \in Range(handled)
    <3>1. Len(handled) \in Nat /\ (step = "delete" => Len(handled) > 0)
      BY LenProperties DEF TaskInv, Types, Deletions
    <3>2. \E i \in 1..Len(handled) : handled[i] = m
      BY <2>1, <3>1 DEF TaskInv, Deletions, Over
    <3> QED BY <3>2, RangeIs DEF TaskInv, Types
  <2>2. ASSUME runnable = "deleted", NEW m \in Range(sentMsgs) PROVE deleted[m] = 1
    <3>1. \E i \in 1..Len(sentMsgs) : sentMsgs[i] = m
      BY RangeIs DEF TaskInv, Types
    <3>2. m \in TaskMessages
      BY <3>1, ElementOfSeq DEF TaskInv, Types
    <3> QED BY <2>2, <3>1, <3>2 DEF TaskInv, Deletions
  <2> QED BY <2>1, <2>2 DEF MessagesDeleted
<1> QED
  BY TaskInvariant, <1>1, <1>2, PrefixFollows, PTL DEF MessagesSafe

-----------------------------------------------------------------------------
(* The contexts.  One client at most is between lock and unlock, so that   *)
(* what it has seen stays true until it has made its context; and the      *)
(* features are there, or somebody who is to inject them is on the way.    *)
Inside == {"look", "getMsgTask", "new", "inject", "injecting", "unlock"}
Has(k) == contexts[k] # Contexts!NoContext

(* The places of the clients and the mutex. *)
Locked ==
    /\ at \in [Clients -> Inside \cup {"call", "send", "returned"}]
    /\ asks \in [Clients -> Contexts!Kinds]
    /\ \A c \in Clients : at[c] \in Inside => c \in mGetLocContextMutex
    /\ \A c, d \in mGetLocContextMutex : c = d

(* A context that is there was made once and has the task that was made. *)
Once ==
    /\ contexts \in [Contexts!Kinds -> [task : {0, 1}, api : {Contexts!createLocApi, "none"},
                                        proxy : {Contexts!getLBSProxy, "none"}]]
    /\ made \in [Contexts!Kinds -> {0, 1}]
    /\ mMsgTask \in {0, 1}
    /\ \A k \in Contexts!Kinds :
         /\ made[k] = 1 <=> Has(k)
         /\ Has(k) => mMsgTask = 1 /\ contexts[k].task = 1
                      /\ contexts[k].api = Contexts!createLocApi
                      /\ contexts[k].proxy = Contexts!getLBSProxy

(* What a client knows of the context it asks for. *)
Known ==
    \A c \in Clients :
        /\ at[c] \in {"getMsgTask", "new"} => ~Has(asks[c])
        /\ at[c] = "new" => mMsgTask = 1
        /\ at[c] \in {"inject", "injecting", "unlock", "send", "returned"} => Has(asks[c])
        /\ at[c] = "injecting" => mInjectContext = asks[c]

(* The first messages: one of each client that returned, none of others. *)
Firsts == {1} \X Clients
SentOnce(q, c) == \E i \in 1..Len(q) : \A j \in 1..Len(q) : q[j] = <<1, c>> <=> j = i
NotSent(q, c) == \A j \in 1..Len(q) : q[j] # <<1, c>>

Sent ==
    /\ queue \in Seq(Firsts)
    /\ \A c \in Clients : IF at[c] = "returned" THEN SentOnce(queue, c) ELSE NotSent(queue, c)

(* The features are there, or whoever injects them is still to come. *)
Injected ==
    /\ mInjectContext \in Contexts!Kinds \cup {"NULL"}
    /\ mInjectContext # "NULL" =>
         /\ Has(mInjectContext)
         /\ platform.lbs # "none" /\ Contexts!createLocApi # "dummy" =>
              \/ features \/ mInjectContext \in ups
              \/ \E c \in Clients : at[c] = "injecting"

ContextsInv == Locked /\ Once /\ Known /\ Sent /\ Injected

(* Nobody has asked for anything. *)
LEMMA ContextsInit == Contexts!Init => ContextsInv
<1> SUFFICES ASSUME Contexts!Init PROVE ContextsInv
  OBVIOUS
<1>1. Locked
  BY DEF Contexts!Init, Locked, Inside
<1>2. Once
  BY DEF Contexts!Init, Once, Has, Contexts!NoContext
<1>3. Known /\ Sent /\ Injected
  BY DEF Contexts!Init, Known, Sent, NotSent, Injected
<1> QED
  BY <1>1, <1>2, <1>3 DEF ContextsInv

(* A client's step to another place. *)
LEMMA Goes ==
    ASSUME ContextsInv, NEW c \in Clients, NEW from, NEW to, Contexts!go(c, from, to)
    PROVE  /\ at[c] = from
           /\ at'[c] = to
           /\ \A d \in Clients : d # c => at'[d] = at[d]
           /\ to \in Inside \cup {"call", "send", "returned"} =>
                at' \in [Clients -> Inside \cup {"call", "send", "returned"}]
  BY DEF Contexts!go, ContextsInv, Locked

(* One client at most is inside. *)
LEMMA Alone ==
    ASSUME ContextsInv, NEW c \in Clients, NEW d \in Clients, at[c] \in Inside, at[d] \in Inside
    PROVE  c = d
  BY DEF ContextsInv, Locked

(* The steps of a client and of the modem keep all this. *)
LEMMA LockStep ==
    ASSUME ContextsInv, NEW c \in Clients, Contexts!lock(c)
    PROVE  ContextsInv'
<1>1. at[c] = "call" /\ at'[c] = "look" /\ (\A d \in Clients : d # c => at'[d] = at[d])
      /\ at' \in [Clients -> Inside \cup {"call", "send", "returned"}]
  BY Goes DEF Contexts!lock, Inside
<1>2. UNCHANGED <<platform, asks, mMsgTask, contexts, mInjectContext, made, queue, features, ups>>
      /\ mGetLocContextMutex = {} /\ mGetLocContextMutex' = {c}
  BY DEF Contexts!lock
<1>3. Locked'
  BY <1>1, <1>2 DEF ContextsInv, Locked
<1>4. Once'
  BY <1>2 DEF ContextsInv, Once, Has, Contexts!createLocApi, Contexts!getLBSProxy
<1>5. Known'
  BY <1>1, <1>2 DEF ContextsInv, Known, Has
<1>6. Sent'
  BY <1>1, <1>2 DEF ContextsInv, Sent
<1>7. Injected'
  BY <1>1, <1>2 DEF ContextsInv, Injected, Has, Contexts!createLocApi
<1> QED
  BY <1>3, <1>4, <1>5, <1>6, <1>7 DEF ContextsInv

LEMMA LookStep ==
    ASSUME ContextsInv, NEW c \in Clients, Contexts!look(c)
    PROVE  ContextsInv'
<1>0. at[c] = "look" /\ c \in mGetLocContextMutex
  BY Goes DEF Contexts!look, ContextsInv, Locked, Inside, Contexts!go
<1>1. at'[c] = (IF Has(asks[c]) THEN "inject" ELSE "getMsgTask")
      /\ (\A d \in Clients : d # c => at'[d] = at[d])
      /\ at' \in [Clients -> Inside \cup {"call", "send", "returned"}]
  BY DEF Contexts!look, Contexts!go, Has, ContextsInv, Locked, Inside
<1>2. UNCHANGED <<platform, asks, mGetLocContextMutex, mMsgTask, contexts, mInjectContext, made,
                  queue, features, ups>>
  BY DEF Contexts!look
<1>3. Locked'
  BY <1>0, <1>1, <1>2 DEF ContextsInv, Locked
<1>4. Once'
  BY <1>2 DEF ContextsInv, Once, Has, Contexts!createLocApi, Contexts!getLBSProxy
<1>5. Known'
  BY <1>1, <1>2 DEF ContextsInv, Known, Has
<1>6. Sent'
  BY <1>0, <1>1, <1>2 DEF ContextsInv, Sent
<1>7. Injected'
  BY <1>0, <1>1, <1>2 DEF ContextsInv, Injected, Has, Contexts!createLocApi
<1> QED
  BY <1>3, <1>4, <1>5, <1>6, <1>7 DEF ContextsInv

LEMMA TaskStep ==
    ASSUME ContextsInv, NEW c \in Clients, Contexts!getMsgTask(c)
    PROVE  ContextsInv'
<1>1. at[c] = "getMsgTask" /\ at'[c] = "new" /\ (\A d \in Clients : d # c => at'[d] = at[d])
      /\ at' \in [Clients -> Inside \cup {"call", "send", "returned"}]
  BY Goes DEF Contexts!getMsgTask, Inside
<1>2. UNCHANGED <<platform, asks, mGetLocContextMutex, contexts, mInjectContext, made, queue,
                  features, ups>>
      /\ mMsgTask' = 1
  BY DEF Contexts!getMsgTask, ContextsInv, Once
<1>3. Locked'
  BY <1>1, <1>2 DEF ContextsInv, Locked, Inside
<1>4. Once'
  BY <1>2 DEF ContextsInv, Once, Has, Contexts!createLocApi, Contexts!getLBSProxy
<1>5. Known'
  BY <1>1, <1>2 DEF ContextsInv, Known, Has
<1>6. Sent'
  BY <1>1, <1>2 DEF ContextsInv, Sent
<1>7. Injected'
  BY <1>1, <1>2 DEF ContextsInv, Injected, Has, Contexts!createLocApi
<1> QED
  BY <1>3, <1>4, <1>5, <1>6, <1>7 DEF ContextsInv

(* The client is alone inside: no other has seen that there is none. *)
LEMMA NewStep ==
    ASSUME ContextsInv, NEW c \in Clients, Contexts!newContext(c)
    PROVE  ContextsInv'
<1>1. at[c] = "new" /\ at'[c] = "inject" /\ (\A d \in Clients : d # c => at'[d] = at[d])
      /\ at' \in [Clients -> Inside \cup {"call", "send", "returned"}]
  BY Goes DEF Contexts!newContext, Inside
<1>2. UNCHANGED <<platform, asks, mGetLocContextMutex, mMsgTask, mInjectContext, queue, features,
                  ups>>
  BY DEF Contexts!newContext
<1>a. asks[c] \in Contexts!Kinds /\ ~Has(asks[c]) /\ mMsgTask = 1 /\ made[asks[c]] = 0
  BY <1>1 DEF ContextsInv, Locked, Known, Once
<1>b. /\ contexts' = [contexts EXCEPT ![asks[c]] =
                        [task |-> 1, api |-> Contexts!createLocApi, proxy |-> Contexts!getLBSProxy]]
      /\ made' = [made EXCEPT ![asks[c]] = 1]
  BY <1>a DEF Contexts!newContext, ContextsInv, Once
<1>c. /\ contexts'[asks[c]] = [task |-> 1, api |-> Contexts!createLocApi,
                               proxy |-> Contexts!getLBSProxy]
      /\ made'[asks[c]] = 1
      /\ \A k \in Contexts!Kinds : k # asks[c] => contexts'[k] = contexts[k] /\ made'[k] = made[k]
  BY <1>a, <1>b DEF ContextsInv, Once
<1>d. Has(asks[c])' /\ (\A k \in Contexts!Kinds : k # asks[c] => (Has(k)' <=> Has(k)))
  BY <1>2, <1>c DEF Has, Contexts!NoContext
<1>e. Contexts!createLocApi' = Contexts!createLocApi /\ Contexts!getLBSProxy' = Contexts!getLBSProxy
  BY <1>2 DEF Contexts!createLocApi, Contexts!getLBSProxy
<1>3. Locked'
  BY <1>1, <1>2 DEF ContextsInv, Locked, Inside
<1>4. Once'
  <2>1. /\ contexts' \in [Contexts!Kinds -> [task : {0, 1}, api : {Contexts!createLocApi, "none"},
                                             proxy : {Contexts!getLBSProxy, "none"}]]
        /\ made' \in [Contexts!Kinds -> {0, 1}]
    BY <1>a, <1>b DEF ContextsInv, Once
  <2>2. ASSUME NEW k \in Contexts!Kinds
        PROVE  /\ made'[k] = 1 <=> Has(k)'
               /\ Has(k)' => mMsgTask' = 1 /\ contexts'[k].task = 1
                             /\ contexts'[k].api = Contexts!createLocApi
                             /\ contexts'[k].proxy = Contexts!getLBSProxy
    <3>1. CASE k = asks[c]
      BY <1>2, <1>a, <1>c, <1>d, <3>1
    <3>2. CASE k # asks[c]
      BY <1>2, <1>c, <1>d, <3>2 DEF ContextsInv, Once
    <3> QED
      BY <3>1, <3>2
  <2> QED
    BY <1>2, <1>e, <2>1, <2>2 DEF ContextsInv, Once, Contexts!Kinds
<1>5. Known'
  <2>1. ASSUME NEW d \in Clients, d # c, at[d] \in {"getMsgTask", "new"} PROVE FALSE
    BY <1>1, <2>1, Alone DEF Inside
  <2>2. \A d \in Clients : asks[d] \in Contexts!Kinds
    BY DEF ContextsInv, Locked
  <2> QED
    BY <1>1, <1>2, <1>d, <2>1, <2>2 DEF ContextsInv, Known
<1>6. Sent'
  BY <1>1, <1>2 DEF ContextsInv, Sent
<1>7. Injected'
  <2>1. mInjectContext # "NULL" => mInjectContext \in Contexts!Kinds /\ Has(mInjectContext)
    BY DEF ContextsInv, Injected
  <2>2. \A k \in Contexts!Kinds : Has(k) => contexts'[k] # Contexts!NoContext
    BY <1>a, <1>c DEF Has
  <2>3. mInjectContext' # "NULL" => contexts'[mInjectContext'] # Contexts!NoContext
    BY <1>2, <2>1, <2>2
  <2> QED
    BY <1>1, <1>2, <1>e, <2>1, <2>3 DEF ContextsInv, Injected, Has
<1> QED
  BY <1>3, <1>4, <1>5, <1>6, <1>7 DEF ContextsInv

(* Whoever takes the injection has a context and injects in the next step. *)
LEMMA TakeInjectStep ==
    ASSUME ContextsInv, NEW c \in Clients, Contexts!takeInject(c)
    PROVE  ContextsInv'
<1>0. at[c] = "inject" /\ c \in mGetLocContextMutex /\ Has(asks[c]) /\ asks[c] \in Contexts!Kinds
  BY DEF Contexts!takeInject, Contexts!go, ContextsInv, Locked, Known, Inside
<1>1. at'[c] = (IF mInjectContext = "NULL" THEN "injecting" ELSE "unlock")
      /\ (\A d \in Clients : d # c => at'[d] = at[d])
      /\ at' \in [Clients -> Inside \cup {"call", "send", "returned"}]
  BY DEF Contexts!takeInject, Contexts!go, ContextsInv, Locked, Inside
<1>2. UNCHANGED <<platform, asks, mGetLocContextMutex, mMsgTask, contexts, made, queue, features,
                  ups>>
      /\ mInjectContext' = IF mInjectContext = "NULL" THEN asks[c] ELSE mInjectContext
  BY DEF Contexts!takeInject
<1>3. Locked'
  BY <1>0, <1>1, <1>2 DEF ContextsInv, Locked
<1>4. Once'
  BY <1>2 DEF ContextsInv, Once, Has, Contexts!createLocApi, Contexts!getLBSProxy
<1>5. Known'
  <2>1. ASSUME NEW d \in Clients, d # c PROVE at[d] # "injecting"
    BY <1>0, <2>1, Alone DEF Inside
  <2> QED
    BY <1>0, <1>1, <1>2, <2>1 DEF ContextsInv, Known, Has
<1>6. Sent'
  BY <1>0, <1>1, <1>2 DEF ContextsInv, Sent
<1>7. Injected'
  <2>1. CASE mInjectContext = "NULL"
    BY <1>0, <1>1, <1>2, <2>1 DEF Injected, Has
  <2>2. CASE mInjectContext # "NULL"
    BY <1>0, <1>1, <1>2, <2>2 DEF ContextsInv, Injected, Has, Contexts!createLocApi
  <2> QED
    BY <2>1, <2>2
<1> QED
  BY <1>3, <1>4, <1>5, <1>6, <1>7 DEF ContextsInv

LEMMA InjectStep ==
    ASSUME ContextsInv, NEW c \in Clients, Contexts!inject(c)
    PROVE  ContextsInv'
<1>1. at[c] = "injecting" /\ at'[c] = "unlock" /\ (\A d \in Clients : d # c => at'[d] = at[d])
      /\ at' \in [Clients -> Inside \cup {"call", "send", "returned"}]
  BY Goes DEF Contexts!inject, Inside
<1>2. UNCHANGED <<platform, asks, mGetLocContextMutex, mMsgTask, contexts, mInjectContext, made,
                  queue, ups>>
  BY DEF Contexts!inject
<1>3. Locked'
  BY <1>1, <1>2 DEF ContextsInv, Locked, Inside
<1>4. Once'
  BY <1>2 DEF ContextsInv, Once, Has, Contexts!createLocApi, Contexts!getLBSProxy
<1>5. Known'
  BY <1>1, <1>2 DEF ContextsInv, Known, Has
<1>6. Sent'
  BY <1>1, <1>2 DEF ContextsInv, Sent
<1>7. Injected'
  <2>1. mInjectContext = asks[c] /\ Has(asks[c]) /\ asks[c] \in Contexts!Kinds
    BY <1>1 DEF ContextsInv, Known, Locked
  <2>2. contexts[asks[c]].proxy = Contexts!getLBSProxy
    BY <2>1 DEF ContextsInv, Once
  <2>3. platform.lbs # "none" => features'
    BY <1>2, <2>1, <2>2 DEF Contexts!inject, Contexts!injectFeatureConfig, Contexts!getLBSProxy
  <2> QED
    BY <1>2, <2>1, <2>3 DEF ContextsInv, Injected, Has
<1> QED
  BY <1>3, <1>4, <1>5, <1>6, <1>7 DEF ContextsInv

LEMMA UnlockStep ==
    ASSUME ContextsInv, NEW c \in Clients, Contexts!unlock(c)
    PROVE  ContextsInv'
<1>1. at[c] = "unlock" /\ at'[c] = "send" /\ (\A d \in Clients : d # c => at'[d] = at[d])
      /\ at' \in [Clients -> Inside \cup {"call", "send", "returned"}]
  BY Goes DEF Contexts!unlock, Inside
<1>2. UNCHANGED <<platform, asks, mMsgTask, contexts, mInjectContext, made, queue, features, ups>>
      /\ mGetLocContextMutex' = mGetLocContextMutex \ {c}
  BY DEF Contexts!unlock
<1>3. Locked'
  BY <1>1, <1>2 DEF ContextsInv, Locked, Inside
<1>4. Once'
  BY <1>2 DEF ContextsInv, Once, Has, Contexts!createLocApi, Contexts!getLBSProxy
<1>5. Known'
  BY <1>1, <1>2 DEF ContextsInv, Known, Has
<1>6. Sent'
  BY <1>1, <1>2 DEF ContextsInv, Sent
<1>7. Injected'
  BY <1>1, <1>2 DEF ContextsInv, Injected, Has, Contexts!createLocApi
<1> QED
  BY <1>3, <1>4, <1>5, <1>6, <1>7 DEF ContextsInv

(* What a client's first message adds to the queue. *)
LEMMA Mailed ==
    ASSUME NEW q \in Seq(Firsts), NEW c \in Clients, NEW m, m = <<1, c>>,
           NEW r, r = Append(q, m), NEW d \in Clients
    PROVE  /\ d # c /\ SentOnce(q, d) => SentOnce(r, d)
           /\ d # c /\ NotSent(q, d) => NotSent(r, d)
           /\ d = c /\ NotSent(q, d) => SentOnce(r, d)
<1>1. /\ Len(q) \in Nat /\ Len(r) = Len(q) + 1
      /\ r[Len(r)] = <<1, c>> /\ Len(r) \in 1..Len(r)
      /\ \A i \in 1..Len(q) : r[i] = q[i] /\ i # Len(r)
      /\ \A i \in 1..Len(r) : i = Len(r) \/ i \in 1..Len(q)
      /\ \A i \in 1..Len(q) : i \in 1..Len(r)
  OBVIOUS
<1>2. d # c => r[Len(r)] # <<1, d>>
  BY <1>1
<1>3. ASSUME d # c, SentOnce(q, d) PROVE SentOnce(r, d)
  <2>1. PICK i \in 1..Len(q) : \A j \in 1..Len(q) : q[j] = <<1, d>> <=> j = i
    BY <1>3 DEF SentOnce
  <2>2. ASSUME NEW j \in 1..Len(r) PROVE r[j] = <<1, d>> <=> j = i
    BY <1>1, <1>2, <1>3, <2>1
  <2> QED
    BY <1>1, <2>1, <2>2, ZenonT(60) DEF SentOnce
<1>4. d # c /\ NotSent(q, d) => NotSent(r, d)
  BY <1>1, <1>2 DEF NotSent
<1>5. ASSUME NotSent(q, c) PROVE SentOnce(r, c)
  <2>1. ASSUME NEW j \in 1..Len(r) PROVE r[j] = <<1, c>> <=> j = Len(r)
    BY <1>1, <1>5 DEF NotSent
  <2> QED
    BY <1>1, <2>1 DEF SentOnce
<1> QED
  BY <1>3, <1>4, <1>5

LEMMA SendFirstStep ==
    ASSUME ContextsInv, NEW c \in Clients, Contexts!sendFirst(c)
    PROVE  ContextsInv'
<1>1. at[c] = "send" /\ at'[c] = "returned" /\ (\A d \in Clients : d # c => at'[d] = at[d])
      /\ at' \in [Clients -> Inside \cup {"call", "send", "returned"}]
  BY Goes DEF Contexts!sendFirst, Inside
<1>2. UNCHANGED <<platform, asks, mGetLocContextMutex, mMsgTask, contexts, mInjectContext, made,
                  features, ups>>
  BY DEF Contexts!sendFirst
<1>a. queue' = Append(queue, <<1, c>>)
  BY <1>1 DEF Contexts!sendFirst, ContextsInv, Known, Once, Locked
<1>3. Locked'
  BY <1>1, <1>2 DEF ContextsInv, Locked, Inside
<1>4. Once'
  BY <1>2 DEF ContextsInv, Once, Has, Contexts!createLocApi, Contexts!getLBSProxy
<1>5. Known'
  BY <1>1, <1>2 DEF ContextsInv, Known, Has
<1>6. Sent'
  <2>1. queue' \in Seq(Firsts)
    BY <1>a DEF ContextsInv, Sent, Firsts
  <2>2. \A d \in Clients :
          /\ d # c /\ SentOnce(queue, d) => SentOnce(queue', d)
          /\ d # c /\ NotSent(queue, d) => NotSent(queue', d)
          /\ d = c /\ NotSent(queue, d) => SentOnce(queue', d)
    <3>1. PICK q \in Seq(Firsts) : q = queue
      BY DEF ContextsInv, Sent
    <3>2. PICK r : r = queue'
      OBVIOUS
    <3>m. PICK m : m = <<1, c>>
      OBVIOUS
    <3>3. \A d \in Clients :
            /\ d # c /\ SentOnce(q, d) => SentOnce(r, d)
            /\ d # c /\ NotSent(q, d) => NotSent(r, d)
            /\ d = c /\ NotSent(q, d) => SentOnce(r, d)
      <4>1. r = Append(q, m)
        BY <1>a, <3>1, <3>2, <3>m
      <4>2. ASSUME NEW d \in Clients
            PROVE  /\ d # c /\ SentOnce(q, d) => SentOnce(r, d)
                   /\ d # c /\ NotSent(q, d) => NotSent(r, d)
                   /\ d = c /\ NotSent(q, d) => SentOnce(r, d)
        BY <3>m, <4>1, Mailed
      <4> QED
        BY <4>2
    <3> QED
      BY <3>1, <3>2, <3>3
  <2>3. NotSent(queue, c)
    BY <1>1 DEF ContextsInv, Sent
  <2>4. \A d \in Clients : d # c =>
          IF at'[d] = "returned" THEN SentOnce(queue', d) ELSE NotSent(queue', d)
    BY <1>1, <2>2 DEF ContextsInv, Sent
  <2> QED
    BY <1>1, <2>1, <2>2, <2>3, <2>4 DEF Sent
<1>7. Injected'
  BY <1>1, <1>2 DEF ContextsInv, Injected, Has, Contexts!createLocApi
<1> QED
  BY <1>3, <1>4, <1>5, <1>6, <1>7 DEF ContextsInv

(* A modem that restarts tells every context that is there. *)
LEMMA RestartStep ==
    ASSUME ContextsInv, Contexts!modemRestarts
    PROVE  ContextsInv'
<1>2. UNCHANGED <<platform, at, asks, mGetLocContextMutex, mMsgTask, contexts, mInjectContext, made,
                  queue>>
  BY DEF Contexts!modemRestarts
<1>3. Locked'
  BY <1>2 DEF ContextsInv, Locked
<1>5. Known'
  BY <1>2 DEF ContextsInv, Known, Has
<1>6. Sent'
  BY <1>2 DEF ContextsInv, Sent
<1>4. Once'
  BY <1>2 DEF ContextsInv, Once, Has, Contexts!createLocApi, Contexts!getLBSProxy
<1>7. Injected'
  <2>1. mInjectContext # "NULL" => mInjectContext \in Contexts!Kinds /\ Has(mInjectContext)
    BY DEF ContextsInv, Injected
  <2>2. mInjectContext # "NULL" /\ Contexts!createLocApi # "dummy" => mInjectContext \in ups'
    BY <2>1 DEF ContextsInv, Once, Contexts!modemRestarts, Has
  <2> QED
    BY <1>2, <2>1, <2>2 DEF ContextsInv, Injected, Has, Contexts!createLocApi
<1> QED
  BY <1>3, <1>4, <1>5, <1>6, <1>7 DEF ContextsInv

LEMMA EngineUpStep ==
    ASSUME ContextsInv, NEW k \in Contexts!Kinds, Contexts!handleEngineUpEvent(k)
    PROVE  ContextsInv'
<1>2. UNCHANGED <<platform, at, asks, mGetLocContextMutex, mMsgTask, contexts, mInjectContext, made,
                  queue>>
  BY DEF Contexts!handleEngineUpEvent
<1>3. Locked'
  BY <1>2 DEF ContextsInv, Locked
<1>5. Known'
  BY <1>2 DEF ContextsInv, Known, Has
<1>6. Sent'
  BY <1>2 DEF ContextsInv, Sent
<1>4. Once'
  BY <1>2 DEF ContextsInv, Once, Has, Contexts!createLocApi, Contexts!getLBSProxy
<1>7. Injected'
  <2>1. CASE mInjectContext = k
    <3>1. Has(k) /\ contexts[k].proxy = Contexts!getLBSProxy
      BY <2>1 DEF ContextsInv, Injected, Once, Contexts!Kinds
    <3>2. platform.lbs # "none" => features'
      BY <1>2, <2>1, <3>1
         DEF Contexts!handleEngineUpEvent, Contexts!injectFeatureConfig, Contexts!getLBSProxy
    <3> QED
      BY <1>2, <2>1, <3>1, <3>2 DEF Injected, Has
  <2>2. CASE mInjectContext # k
    <3>1. features' = features /\ ups' = ups \ {k}
      BY <1>2, <2>2 DEF Contexts!handleEngineUpEvent, Contexts!injectFeatureConfig
    <3> QED
      BY <1>2, <2>2, <3>1 DEF ContextsInv, Injected, Has, Contexts!createLocApi
  <2> QED
    BY <2>1, <2>2
<1> QED
  BY <1>3, <1>4, <1>5, <1>6, <1>7 DEF ContextsInv

(* Every step keeps the invariant. *)
LEMMA ContextsStep == ContextsInv /\ [Contexts!Next]_ctxVars => ContextsInv'
<1> SUFFICES ASSUME ContextsInv, [Contexts!Next]_ctxVars PROVE ContextsInv'
  OBVIOUS
<1>1. ASSUME NEW c \in Clients, Contexts!getLocContext(c) PROVE ContextsInv'
  BY <1>1, LockStep, LookStep, TaskStep, NewStep, TakeInjectStep, InjectStep, UnlockStep,
     SendFirstStep DEF Contexts!getLocContext
<1>2. CASE UNCHANGED ctxVars
  <2>1. UNCHANGED <<platform, at, asks, mGetLocContextMutex, mMsgTask, contexts, mInjectContext,
                    made, queue, features, ups>>
    BY <1>2 DEF ctxVars
  <2>2. Locked'
    BY <2>1 DEF ContextsInv, Locked
  <2>5. Known'
    BY <2>1 DEF ContextsInv, Known, Has
  <2>6. Sent'
    BY <2>1 DEF ContextsInv, Sent
  <2>3. Once'
    BY <2>1 DEF ContextsInv, Once, Has, Contexts!createLocApi, Contexts!getLBSProxy
  <2>4. Injected'
    BY <2>1 DEF ContextsInv, Injected, Has, Contexts!createLocApi
  <2> QED
    BY <2>2, <2>3, <2>4, <2>5, <2>6 DEF ContextsInv
<1> QED
  BY <1>1, <1>2, RestartStep, EngineUpStep DEF Contexts!Next

(* The inductive invariant of the contexts holds in every behaviour. *)
THEOREM ContextsInvariance == AllSpec => []ContextsInv
<1>1. AllInit => ContextsInv
  BY ContextsInit DEF AllInit
<1>2. ContextsInv /\ [AllNext]_allVars => ContextsInv'
  BY ContextsStep DEF AllNext, allVars
<1> QED
  BY <1>1, <1>2, PTL DEF AllSpec

(* Clients that ask at once share each context and one message task, and   *)
(* no restart of the modem loses its features (LocDualContext.cpp), for    *)
(* any number of clients and restarts.                                     *)
THEOREM ContextsSharedTheorem == AllSpec => []ContextsShared
<1>1. ASSUME ContextsInv PROVE Contexts!Shared
  <2>1. mMsgTask <= 1 /\ \A k \in Contexts!Kinds : made[k] <= 1
    BY <1>1 DEF ContextsInv, Once
  <2>2. \A k \in Contexts!Kinds : contexts[k] # Contexts!NoContext => contexts[k].task = 1
    BY <1>1 DEF ContextsInv, Once, Has
  <2>3. DOMAIN queue = 1..Len(queue)
    BY <1>1 DEF ContextsInv, Sent
  <2>4. \A c \in Clients : at[c] = "returned" =>
          \E i \in DOMAIN queue : \A j \in DOMAIN queue : queue[j] = <<1, c>> <=> j = i
    <3>1. \A c \in Clients : at[c] = "returned" => SentOnce(queue, c)
      BY <1>1 DEF ContextsInv, Sent
    <3>2. ASSUME NEW c, SentOnce(queue, c)
          PROVE  \E i \in DOMAIN queue : \A j \in DOMAIN queue : queue[j] = <<1, c>> <=> j = i
      <4>1. PICK i \in 1..Len(queue) : \A j \in 1..Len(queue) : queue[j] = <<1, c>> <=> j = i
        BY <3>2 DEF SentOnce
      <4>2. i \in DOMAIN queue /\ \A j \in DOMAIN queue : queue[j] = <<1, c>> <=> j = i
        BY <2>3, <4>1
      <4> QED
        BY <4>2
    <3> QED
      BY <3>1, <3>2
  <2> QED
    BY <2>1, <2>2, <2>4 DEF Contexts!Shared
<1>2. ASSUME ContextsInv PROVE Contexts!FeaturesInjected
  <2> SUFFICES ASSUME mInjectContext # "NULL", ups = {},
                      \A c \in Clients : at[c] # "injecting", platform.lbs # "none",
                      contexts[mInjectContext].api # "dummy"
               PROVE  features
    BY DEF Contexts!FeaturesInjected
  <2>1. contexts[mInjectContext].api = Contexts!createLocApi
    BY <1>2 DEF ContextsInv, Once, Injected
  <2> QED
    BY <1>2, <2>1 DEF ContextsInv, Injected
<1> QED
  BY <1>1, <1>2, ContextsInvariance, PTL DEF ContextsShared, Contexts!ContextsShared
-----------------------------------------------------------------------------
(* The connection to the daemons.  First what Picked picks.                *)

(* A set of numbers that is not empty has a least one.                     *)
LEMMA LeastOf ==
    ASSUME NEW T \in SUBSET Nat, T # {}
    PROVE  \E m \in T : \A j \in T : m <= j
<1>1. \E m \in T : \A j \in T : ~(<<j, m>> \in OpToRel(<, Nat))
  BY NatLessThanWellFounded, WFMin
<1>2. \A j, m \in Nat : ~(<<j, m>> \in OpToRel(<, Nat)) => m <= j
  BY DEF OpToRel
<1> QED BY <1>1, <1>2

(* The function that Picked builds a sequence with, up to a place.         *)
PickedUpTo(s, S, n, f) ==
  f = [k \in 0..n |-> IF k = 0 THEN <<>>
                      ELSE IF s[k] \in S THEN Append(f[k - 1], s[k]) ELSE f[k - 1]]

(* There is such a function for every sequence and place.                  *)
LEMMA PickedExists ==
    ASSUME NEW s, NEW S, NEW len \in Nat
    PROVE  \E f : PickedUpTo(s, S, len, f)
<1> DEFINE T == {n \in Nat : ~\E f : PickedUpTo(s, S, n, f)}
<1>1. ASSUME T # {} PROVE FALSE
  <2>1. PICK n \in T : \A j \in T : n <= j
    BY <1>1, LeastOf
  <2>2. n \in Nat /\ ~\E f : PickedUpTo(s, S, n, f)
    BY <2>1
  <2>3. n # 0
    <3>1. PickedUpTo(s, S, 0, [k \in 0..0 |-> <<>>])
      BY DEF PickedUpTo
    <3> QED BY <2>2, <3>1
  <2>4. n - 1 \in Nat /\ n - 1 \notin T
    BY <2>1, <2>2, <2>3
  <2>5. PICK f : PickedUpTo(s, S, n - 1, f)
    BY <2>4
  <2> DEFINE g == [k \in 0..n |-> IF k = n
                                  THEN IF s[n] \in S THEN Append(f[n - 1], s[n]) ELSE f[n - 1]
                                  ELSE f[k]]
  <2>6. \A k \in 0..(n - 1) : g[k] = f[k]
    BY <2>2, <2>3
  <2>7. ASSUME NEW k \in 0..n
        PROVE  g[k] = IF k = 0 THEN <<>>
                      ELSE IF s[k] \in S THEN Append(g[k - 1], s[k]) ELSE g[k - 1]
    <3>1. CASE k = n
      BY <2>2, <2>3, <2>6, <3>1
    <3>2. CASE k # n
      <4>1. k \in 0..(n - 1) /\ (k # 0 => k - 1 \in 0..(n - 1))
        BY <2>2, <3>2
      <4>2. f[k] = IF k = 0 THEN <<>>
                   ELSE IF s[k] \in S THEN Append(f[k - 1], s[k]) ELSE f[k - 1]
        BY <2>5, <4>1 DEF PickedUpTo
      <4> QED BY <2>6, <4>1, <4>2
    <3> QED BY <3>1, <3>2
  <2>8. PickedUpTo(s, S, n, g)
    <3> HIDE DEF g
    <3>1. g = [k \in 0..n |-> g[k]]
      BY DEF g
    <3> QED BY <2>7, <3>1 DEF PickedUpTo
  <2> QED BY <2>2, <2>8
<1> QED BY <1>1

(* Picked is the value of that function at the sequence's end.             *)
LEMMA PickedIs ==
    ASSUME NEW s, NEW S, Len(s) \in Nat
    PROVE  \E f : PickedUpTo(s, S, Len(s), f) /\ Dmn!Picked(s, S) = f[Len(s)]
<1>1. \E f : PickedUpTo(s, S, Len(s), f)
  BY PickedExists
<1>2. PickedUpTo(s, S, Len(s), CHOOSE f : PickedUpTo(s, S, Len(s), f))
  BY <1>1
<1>3. Dmn!Picked(s, S) = (CHOOSE f : PickedUpTo(s, S, Len(s), f))[Len(s)]
  BY DEF Dmn!Picked, PickedUpTo
<1> QED BY <1>2, <1>3

(* Two of these functions agree as far as their sequences do.              *)
LEMMA PickedSame ==
    ASSUME NEW s, NEW t, NEW S, NEW n \in Nat, NEW m \in Nat, n <= m,
           \A k \in 1..n : s[k] = t[k],
           NEW f, PickedUpTo(s, S, n, f), NEW g, PickedUpTo(t, S, m, g)
    PROVE  f[n] = g[n]
<1> DEFINE T == {k \in 0..n : f[k] # g[k]}
<1>1. ASSUME T # {} PROVE FALSE
  <2>1. PICK k \in T : \A j \in T : k <= j
    <3>1. T \in SUBSET Nat
      OBVIOUS
    <3> HIDE DEF T
    <3> QED BY <1>1, <3>1, LeastOf
  <2>2. /\ f[k] = IF k = 0 THEN <<>>
                  ELSE IF s[k] \in S THEN Append(f[k - 1], s[k]) ELSE f[k - 1]
        /\ g[k] = IF k = 0 THEN <<>>
                  ELSE IF t[k] \in S THEN Append(g[k - 1], t[k]) ELSE g[k - 1]
    <3>1. k \in 0..n /\ k \in 0..m
      OBVIOUS
    <3> QED BY <3>1 DEF PickedUpTo
  <2>3. k # 0
    BY <2>2
  <2>4. k - 1 \in 0..n /\ k - 1 \notin T /\ k \in 1..n
    BY <2>1, <2>3
  <2> QED BY <2>2, <2>3, <2>4
<1> QED BY <1>1

(* Nothing is picked from the empty sequence ...                           *)
LEMMA PickedEmpty == ASSUME NEW S PROVE Dmn!Picked(<<>>, S) = <<>>
<1>1. Len(<<>>) = 0
  OBVIOUS
<1>2. PICK f : PickedUpTo(<<>>, S, 0, f) /\ Dmn!Picked(<<>>, S) = f[0]
  BY <1>1, PickedIs
<1> QED BY <1>2 DEF PickedUpTo

(* ... and one element more is picked if it is in the set.                 *)
LEMMA PickedAppend ==
    ASSUME NEW U, NEW s \in Seq(U), NEW x \in U, NEW S
    PROVE  Dmn!Picked(Append(s, x), S)
             = IF x \in S THEN Append(Dmn!Picked(s, S), x) ELSE Dmn!Picked(s, S)
<1>1. PICK t : t = Append(s, x)
  OBVIOUS
<1>2. /\ Len(s) \in Nat /\ Len(t) = Len(s) + 1 /\ t[Len(t)] = x
      /\ \A k \in 1..Len(s) : s[k] = t[k]
  BY <1>1, AppendProperties
<1>3. PICK f : PickedUpTo(s, S, Len(s), f) /\ Dmn!Picked(s, S) = f[Len(s)]
  BY <1>2, PickedIs
<1>4. PICK g : PickedUpTo(t, S, Len(t), g) /\ Dmn!Picked(t, S) = g[Len(t)]
  BY <1>2, PickedIs
<1>5. f[Len(s)] = g[Len(s)]
  BY <1>2, <1>3, <1>4, PickedSame
<1>6. g[Len(t)] = IF x \in S THEN Append(g[Len(s)], x) ELSE g[Len(s)]
  <2>1. Len(t) \in 0..Len(t) /\ Len(t) # 0 /\ Len(t) - 1 = Len(s)
    BY <1>2
  <2> QED BY <1>2, <1>4, <2>1 DEF PickedUpTo
<1> QED BY <1>1, <1>3, <1>4, <1>5, <1>6

(* What is picked is a sequence over the set.                              *)
LEMMA PickedSeq ==
    ASSUME NEW U, NEW s \in Seq(U), NEW S
    PROVE  Dmn!Picked(s, S) \in Seq(U \cap S)
<1>1. PICK f : PickedUpTo(s, S, Len(s), f) /\ Dmn!Picked(s, S) = f[Len(s)]
  BY PickedIs, LenProperties
<1> DEFINE T == {k \in 0..Len(s) : f[k] \notin Seq(U \cap S)}
<1>2. ASSUME T # {} PROVE FALSE
  <2>1. PICK k \in T : \A j \in T : k <= j
    <3>1. T \in SUBSET Nat
      OBVIOUS
    <3> HIDE DEF T
    <3> QED BY <1>2, <3>1, LeastOf
  <2>2. f[k] = IF k = 0 THEN <<>>
               ELSE IF s[k] \in S THEN Append(f[k - 1], s[k]) ELSE f[k - 1]
    BY <1>1 DEF PickedUpTo
  <2>3. k # 0
    <3>1. <<>> \in Seq(U \cap S) /\ f[k] \notin Seq(U \cap S)
      BY <2>1
    <3> QED BY <2>2, <3>1
  <2>4. k - 1 \in 0..Len(s) /\ k - 1 \notin T /\ k \in 1..Len(s)
    BY <2>1, <2>3
  <2>5. s[k] \in U /\ f[k - 1] \in Seq(U \cap S)
    BY <2>4, ElementOfSeq
  <2>6. f[k] \in Seq(U \cap S)
    BY <2>2, <2>3, <2>5
  <2> QED BY <2>1, <2>6
<1>3. Len(s) \in 0..Len(s)
  BY LenProperties
<1> QED BY <1>1, <1>2, <1>3

(* An element can be appended to two sequences in a row or to the second.  *)
Glued(p, o, x) == Append(p \o o, x) = p \o Append(o, x)

LEMMA AppendConcat ==
    ASSUME NEW V, NEW p \in Seq(V), NEW o \in Seq(V), NEW x \in V
    PROVE  Glued(p, o, x)
<1>1. PICK y : y = <<x>>
  OBVIOUS
<1>2. y \in Seq(V)
  BY <1>1
<1>3. p \o o \in Seq(V)
  BY ConcatProperties
<1>4. Append(p \o o, x) = (p \o o) \o y /\ Append(o, x) = o \o y
  BY <1>1, <1>3, AppendIsConcat
<1> QED BY <1>2, <1>4, ConcatAssociative, SMTT(30) DEF Glued

(* Picking from two sequences in a row is picking from each.               *)
LEMMA PickedConcat ==
    ASSUME NEW U, NEW s \in Seq(U), NEW t \in Seq(U), NEW S
    PROVE  Dmn!Picked(s \o t, S) = Dmn!Picked(s, S) \o Dmn!Picked(t, S)
<1> DEFINE T == {n \in Nat : \E r \in Seq(U) : Len(r) = n
                   /\ Dmn!Picked(s \o r, S) # Dmn!Picked(s, S) \o Dmn!Picked(r, S)}
<1>1. ASSUME T # {} PROVE FALSE
  <2>1. PICK n \in T : \A j \in T : n <= j
    BY <1>1, LeastOf
  <2>2. PICK r \in Seq(U) : /\ Len(r) = n
          /\ Dmn!Picked(s \o r, S) # Dmn!Picked(s, S) \o Dmn!Picked(r, S)
    BY <2>1
  <2>3. PICK p : p = Dmn!Picked(s, S)
    OBVIOUS
  <2>4. p \in Seq(U \cap S)
    BY <2>3, PickedSeq
  <2>5. r # <<>>
    <3>1. s \o <<>> = s /\ p \o <<>> = p
      BY <2>4, ConcatEmptySeq
    <3> QED BY <2>2, <2>3, <3>1, PickedEmpty
  <2>6. PICK q \in Seq(U), x \in U : r = Append(q, x)
    BY <2>5, SequenceEmptyOrAppend
  <2>7. Len(q) \in Nat /\ Len(q) < n
    BY <2>2, <2>6, AppendProperties, LenProperties
  <2>8. Dmn!Picked(s \o q, S) = p \o Dmn!Picked(q, S)
    BY <2>1, <2>3, <2>7, SMTT(30)
  <2>9. s \o r = Append(s \o q, x) /\ s \o q \in Seq(U)
    BY <2>6, SMTT(30)
  <2>10. PICK o : o = Dmn!Picked(q, S)
    OBVIOUS
  <2>11. o \in Seq(U \cap S)
    BY <2>10, PickedSeq
  <2>12. /\ Dmn!Picked(s \o r, S) = IF x \in S THEN Append(p \o o, x) ELSE p \o o
         /\ Dmn!Picked(r, S) = IF x \in S THEN Append(o, x) ELSE o
    <3>1. PICK w \in Seq(U) : w = s \o q
      BY <2>9
    <3>2. Dmn!Picked(Append(w, x), S)
            = IF x \in S THEN Append(Dmn!Picked(w, S), x) ELSE Dmn!Picked(w, S)
      BY PickedAppend, SMTT(30)
    <3>3. Dmn!Picked(Append(q, x), S)
            = IF x \in S THEN Append(Dmn!Picked(q, S), x) ELSE Dmn!Picked(q, S)
      BY PickedAppend, SMTT(30)
    <3> QED BY <2>6, <2>8, <2>9, <2>10, <3>1, <3>2, <3>3
  <2>13. x \in S => Append(p \o o, x) = p \o Append(o, x)
    <3>1. x \in S => x \in U \cap S
      BY <2>6
    <3>2. x \in S => Glued(p, o, x)
      BY <2>4, <2>11, <3>1, AppendConcat
    <3> QED BY <3>2 DEF Glued
  <2> QED BY <2>2, <2>3, <2>12, <2>13
<1> QED BY <1>1, LenProperties
(* Sequences can be put together from either end; named so that the        *)
(* provers see the equation where it is needed and nowhere else.           *)
Concatenated(p, o, q) == p \o (o \o q) = (p \o o) \o q

LEMMA Associated ==
    ASSUME NEW V, NEW p \in Seq(V), NEW o \in Seq(V), NEW q \in Seq(V)
    PROVE  Concatenated(p, o, q)
  BY ConcatAssociative, SMTT(30) DEF Concatenated

(* What is picked from a sequence of one element.                          *)
LEMMA PickedOne ==
    ASSUME NEW U, NEW x \in U, NEW S
    PROVE  Dmn!Picked(<<x>>, S) = IF x \in S THEN <<x>> ELSE <<>>
<1>1. <<>> \in Seq(U) /\ Append(<<>>, x) = <<x>>
  OBVIOUS
<1>2. Dmn!Picked(Append(<<>>, x), S)
        = IF x \in S THEN Append(Dmn!Picked(<<>>, S), x) ELSE Dmn!Picked(<<>>, S)
  BY <1>1, PickedAppend
<1> QED BY <1>1, <1>2, PickedEmpty

(* What may be in the server's pipe, and the message it holds in its hand. *)
Posted == Dmn!Message \cup {Dmn!UNBLOCK}
Hand(where, m) == IF where = "handle" /\ m # Dmn!UNBLOCK THEN <<m>> ELSE <<>>

(* What is in the pipe is a daemon's message or the one of unblock, and    *)
(* the handlers send on exactly the good ones.                             *)
LEMMA MessageOrUnblock ==
    ASSUME NEW m \in Posted
    PROVE  /\ m \in Dmn!Message <=> m # Dmn!UNBLOCK
           /\ Dmn!Sent(m) <=> m \in Dmn!Good
           /\ Hand("handle", m) = Dmn!Picked(<<m>>, Dmn!Message)
           /\ Hand("handle", m) \in Seq(Dmn!Message)
<1>1. Dmn!UNBLOCK \notin Dmn!Message
  <2>1. Dmn!UNBLOCK.ctrl_type = "UNBLOCK"
    BY DEF Dmn!UNBLOCK
  <2>2. \A n \in Dmn!Message : n.ctrl_type # "UNBLOCK"
    BY DEF Dmn!Message
  <2> QED BY <2>1, <2>2
<1>2. m \in Dmn!Message <=> m # Dmn!UNBLOCK
  BY <1>1 DEF Posted
<1>3. Dmn!Sent(m) <=> m \in Dmn!Good
  <2>1. CASE m = Dmn!UNBLOCK
    BY <1>1, <2>1 DEF Dmn!Sent, Dmn!Good, Dmn!UNBLOCK
  <2>2. CASE m \in Dmn!Message
    <3>1. /\ m.ctrl_type \in {"IF_REQUEST", "IF_RELEASE"} /\ m.type \in {"WIFI", "invalid"}
          /\ m.sender \in Daemons \cup {"MODEM"}
      BY <2>2 DEF Dmn!Message
    <3>2. m \in Dmn!Good <=> m.type = "WIFI" /\ m.sender # "MODEM"
      BY <2>2 DEF Dmn!Good
    <3> QED BY <3>1, <3>2, DaemonsHavePipes
            DEF Dmn!Sent, Dmn!if_request_handler, Dmn!if_release_handler
  <2> QED BY <1>2, <2>1, <2>2
<1>4. Hand("handle", m) = Dmn!Picked(<<m>>, Dmn!Message)
  <2>1. Dmn!Picked(<<m>>, Dmn!Message) = IF m \in Dmn!Message THEN <<m>> ELSE <<>>
    BY PickedOne
  <2> QED BY <1>2, <2>1 DEF Hand
<1>5. Hand("handle", m) \in Seq(Dmn!Message)
  BY <1>2 DEF Hand
<1> QED BY <1>2, <1>3, <1>4, <1>5

(* What was written is what has been handled, the message in hand and what *)
(* is still in the pipe; the good ones of the first part were sent on.     *)
Splits(w, h, pi, f) ==
  \E r \in Seq(Dmn!Message) :
    /\ w = r \o (h \o Dmn!Picked(pi, Dmn!Message))
    /\ f = Dmn!Picked(r, Dmn!Good)

(* What is picked from the server's pipe are messages.                     *)
LEMMA PickedMessages ==
    ASSUME NEW pi \in Seq(Posted)
    PROVE  Dmn!Picked(pi, Dmn!Message) \in Seq(Dmn!Message)
<1>1. Dmn!Picked(pi, Dmn!Message) \in Seq(Posted \cap Dmn!Message)
  BY PickedSeq
<1>2. Posted \cap Dmn!Message = Dmn!Message
  BY DEF Posted
<1> QED BY <1>1, <1>2

(* It holds before anything is written, and when a message is written, put *)
(* in the pipe by unblock, read and handled.                               *)
LEMMA SplitsEmpty == Splits(<<>>, <<>>, <<>>, <<>>)
<1>1. <<>> \in Seq(Dmn!Message) /\ <<>> = <<>> \o (<<>> \o <<>>)
  OBVIOUS
<1> QED BY <1>1, PickedEmpty DEF Splits

LEMMA SplitsWrite ==
    ASSUME NEW w, NEW h \in Seq(Dmn!Message), NEW pi \in Seq(Posted), NEW f,
           NEW m \in Dmn!Message, Splits(w, h, pi, f)
    PROVE  Splits(Append(w, m), h, Append(pi, m), f)
<1>1. PICK r \in Seq(Dmn!Message) : /\ w = r \o (h \o Dmn!Picked(pi, Dmn!Message))
                                    /\ f = Dmn!Picked(r, Dmn!Good)
  BY DEF Splits
<1>2. PICK p : p = Dmn!Picked(pi, Dmn!Message)
  OBVIOUS
<1>3. p \in Seq(Dmn!Message)
  BY <1>2, PickedMessages
<1>4. Dmn!Picked(Append(pi, m), Dmn!Message) = Append(p, m)
  <2>1. m \in Posted
    BY DEF Posted
  <2>2. Dmn!Picked(Append(pi, m), Dmn!Message)
          = IF m \in Dmn!Message THEN Append(Dmn!Picked(pi, Dmn!Message), m)
            ELSE Dmn!Picked(pi, Dmn!Message)
    BY <2>1, PickedAppend
  <2> QED BY <1>2, <2>2
<1>5. PICK o : o = h \o p
  OBVIOUS
<1>6. o \in Seq(Dmn!Message)
  BY <1>3, <1>5, ConcatProperties
<1>7. Glued(h, p, m) /\ Glued(r, o, m)
  BY <1>3, <1>6, AppendConcat
<1>8. Append(w, m) = r \o (h \o Append(p, m))
  BY <1>1, <1>2, <1>5, <1>7 DEF Glued
<1> QED BY <1>1, <1>4, <1>8 DEF Splits

LEMMA SplitsUnblock ==
    ASSUME NEW w, NEW h, NEW pi \in Seq(Posted), NEW f, Splits(w, h, pi, f)
    PROVE  Splits(w, h, Append(pi, Dmn!UNBLOCK), f)
<1>1. Dmn!UNBLOCK \in Posted
  BY DEF Posted
<1>2. Dmn!UNBLOCK \notin Dmn!Message
  BY <1>1, MessageOrUnblock
<1>3. Dmn!Picked(Append(pi, Dmn!UNBLOCK), Dmn!Message)
        = IF Dmn!UNBLOCK \in Dmn!Message
          THEN Append(Dmn!Picked(pi, Dmn!Message), Dmn!UNBLOCK)
          ELSE Dmn!Picked(pi, Dmn!Message)
  BY <1>1, PickedAppend
<1> QED BY <1>2, <1>3 DEF Splits

LEMMA SplitsRead ==
    ASSUME NEW w, NEW pi \in Seq(Posted), NEW f, pi # <<>>, Splits(w, <<>>, pi, f)
    PROVE  Splits(w, Hand("handle", Head(pi)), Tail(pi), f)
<1>1. PICK r \in Seq(Dmn!Message) : /\ w = r \o (<<>> \o Dmn!Picked(pi, Dmn!Message))
                                    /\ f = Dmn!Picked(r, Dmn!Good)
  BY DEF Splits
<1>2. PICK x, q : x = Head(pi) /\ q = Tail(pi)
  OBVIOUS
<1>3. x \in Posted /\ q \in Seq(Posted) /\ pi = <<x>> \o q
  BY <1>2, HeadTailProperties
<1>4. PICK one : one = <<x>>
  OBVIOUS
<1>5. one \in Seq(Posted)
  BY <1>3, <1>4
<1>6. Dmn!Picked(one \o q, Dmn!Message)
        = Dmn!Picked(one, Dmn!Message) \o Dmn!Picked(q, Dmn!Message)
  BY <1>3, <1>5, PickedConcat
<1>7. Dmn!Picked(one, Dmn!Message) = Hand("handle", x)
  BY <1>3, <1>4, MessageOrUnblock
<1>8. <<>> \o Dmn!Picked(pi, Dmn!Message) = Dmn!Picked(pi, Dmn!Message)
  BY PickedMessages, ConcatEmptySeq
<1> QED BY <1>1, <1>2, <1>3, <1>4, <1>6, <1>7, <1>8 DEF Splits

LEMMA SplitsHandle ==
    ASSUME NEW w, NEW m \in Posted, NEW pi \in Seq(Posted), NEW f,
           Splits(w, Hand("handle", m), pi, f)
    PROVE  Splits(w, <<>>, pi, IF m \in Dmn!Good THEN Append(f, m) ELSE f)
<1>1. PICK h : h = Hand("handle", m)
  OBVIOUS
<1>2. PICK r \in Seq(Dmn!Message) : /\ w = r \o (h \o Dmn!Picked(pi, Dmn!Message))
                                    /\ f = Dmn!Picked(r, Dmn!Good)
  BY <1>1 DEF Splits
<1>3. PICK p : p = Dmn!Picked(pi, Dmn!Message)
  OBVIOUS
<1>4. p \in Seq(Dmn!Message) /\ h \in Seq(Dmn!Message)
  BY <1>1, <1>3, PickedMessages, MessageOrUnblock
<1>5. PICK t : t = r \o h
  OBVIOUS
<1>6. t \in Seq(Dmn!Message)
  BY <1>4, <1>5, ConcatProperties
<1>7. w = t \o (<<>> \o p)
  <2>1. r \o (h \o p) = (r \o h) \o p
    BY <1>4, Associated, SMTT(30) DEF Concatenated
  <2>2. <<>> \o p = p
    BY <1>4, ConcatEmptySeq
  <2> QED BY <1>2, <1>3, <1>5, <2>1, <2>2
<1>8. Dmn!Picked(t, Dmn!Good) = IF m \in Dmn!Good THEN Append(f, m) ELSE f
  <2>1. CASE m = Dmn!UNBLOCK
    <3>1. h = <<>> /\ m \notin Dmn!Good
      BY <1>1, <2>1, MessageOrUnblock DEF Hand, Dmn!Good
    <3>2. r \o <<>> = r
      BY ConcatEmptySeq
    <3> QED BY <1>2, <1>5, <3>1, <3>2
  <2>2. CASE m # Dmn!UNBLOCK
    <3>1. h = <<m>> /\ m \in Dmn!Message
      BY <1>1, <2>2, MessageOrUnblock DEF Hand
    <3>2. t = Append(r, m)
      BY <1>5, <3>1, AppendIsConcat
    <3>3. Dmn!Picked(Append(r, m), Dmn!Good)
            = IF m \in Dmn!Good THEN Append(Dmn!Picked(r, Dmn!Good), m)
              ELSE Dmn!Picked(r, Dmn!Good)
      BY <3>1, PickedAppend
    <3> QED BY <1>2, <3>2, <3>3
  <2> QED BY <2>1, <2>2
<1>9. w = t \o (<<>> \o Dmn!Picked(pi, Dmn!Message))
  BY <1>3, <1>7
<1>10. PICK g : g = IF m \in Dmn!Good THEN Append(f, m) ELSE f
  OBVIOUS
<1>11. Splits(w, <<>>, pi, g)
  BY <1>6, <1>8, <1>9, <1>10 DEF Splits
<1> QED BY <1>10, <1>11
(* What was sent on is what was answered and what the message task has     *)
(* still to handle; each daemon got the answers to its part of the first.  *)
Routed(f, t, open, a) ==
  \E done \in Seq(Dmn!Good) :
    /\ f = done \o t
    /\ open => \A d \in Daemons : a[d] = Dmn!Picked(done, Dmn!From(d))

(* It holds before anything is sent on, and when a message is sent on and  *)
(* when one is answered.                                                   *)
LEMMA RoutedEmpty ==
    ASSUME NEW open, NEW a, \A d \in Daemons : a[d] = <<>>
    PROVE  Routed(<<>>, <<>>, open, a)
<1>1. <<>> \in Seq(Dmn!Good) /\ <<>> = <<>> \o <<>>
  OBVIOUS
<1>2. \A d \in Daemons : a[d] = Dmn!Picked(<<>>, Dmn!From(d))
  BY PickedEmpty
<1> QED BY <1>1, <1>2 DEF Routed

LEMMA RoutedSend ==
    ASSUME NEW f, NEW t \in Seq(Dmn!Good), NEW open, NEW a, NEW m \in Dmn!Good,
           Routed(f, t, open, a)
    PROVE  Routed(Append(f, m), Append(t, m), open, a)
<1>1. PICK done \in Seq(Dmn!Good) :
        /\ f = done \o t
        /\ open => \A d \in Daemons : a[d] = Dmn!Picked(done, Dmn!From(d))
  BY DEF Routed
<1>2. Glued(done, t, m)
  BY AppendConcat
<1>3. Append(f, m) = done \o Append(t, m)
  BY <1>1, <1>2 DEF Glued
<1> QED BY <1>1, <1>3 DEF Routed

LEMMA RoutedAnswer ==
    ASSUME NEW f, NEW t \in Seq(Dmn!Good), t # <<>>, NEW open \in BOOLEAN,
           NEW a \in [Daemons -> Seq(Dmn!Message)], Routed(f, t, open, a)
    PROVE  Routed(f, Tail(t), open,
                  IF open THEN [a EXCEPT ![Head(t).sender] = Append(@, Head(t))] ELSE a)
<1>1. PICK done \in Seq(Dmn!Good) :
        /\ f = done \o t
        /\ open => \A d \in Daemons : a[d] = Dmn!Picked(done, Dmn!From(d))
  BY DEF Routed
<1>2. PICK x, q : x = Head(t) /\ q = Tail(t)
  OBVIOUS
<1>3. x \in Dmn!Good /\ q \in Seq(Dmn!Good) /\ t = <<x>> \o q
  BY <1>2, HeadTailProperties
<1>4. x \in Dmn!Message /\ x.sender \in Daemons
  BY <1>3 DEF Dmn!Good, Dmn!Message
<1>5. PICK one : one = <<x>>
  OBVIOUS
<1>6. one \in Seq(Dmn!Good)
  BY <1>3, <1>5
<1>7. PICK more : more = done \o one
  OBVIOUS
<1>8. more \in Seq(Dmn!Good) /\ more = Append(done, x)
  <2>1. more \in Seq(Dmn!Good)
    BY <1>6, <1>7, ConcatProperties
  <2>2. Append(done, x) = done \o <<x>>
    BY <1>3, AppendIsConcat
  <2> QED BY <1>5, <1>7, <2>1, <2>2
<1>9. f = more \o q
  <2>1. Concatenated(done, one, q)
    BY <1>3, <1>6, Associated
  <2> QED BY <1>1, <1>3, <1>5, <1>7, <2>1 DEF Concatenated
<1>10. PICK b : b = IF open THEN [a EXCEPT ![x.sender] = Append(@, x)] ELSE a
  OBVIOUS
<1>11. ASSUME open, NEW d \in Daemons PROVE b[d] = Dmn!Picked(more, Dmn!From(d))
  <2>1. Dmn!Picked(Append(done, x), Dmn!From(d))
          = IF x \in Dmn!From(d) THEN Append(Dmn!Picked(done, Dmn!From(d)), x)
            ELSE Dmn!Picked(done, Dmn!From(d))
    BY <1>3, PickedAppend
  <2>2. x \in Dmn!From(d) <=> x.sender = d
    BY <1>4 DEF Dmn!From
  <2>3. b[d] = IF x.sender = d THEN Append(a[d], x) ELSE a[d]
    BY <1>10, <1>11
  <2> QED BY <1>1, <1>8, <1>11, <2>1, <2>2, <2>3
<1>12. Routed(f, q, open, b)
  BY <1>8, <1>9, <1>11 DEF Routed
<1> QED BY <1>2, <1>10, <1>12

(* The inductive invariant of the connection.                              *)
DmnControl ==
    /\ launcher \in {"call", "created", "waiting", "woken", "launched", "failed"}
    /\ thread_ready \in {0, 1} /\ thread_exit \in {0, 1}
    /\ server \in {"none", "init", "header", "body", "handle", "post", "ended"}
    /\ caller \in {"idle", "flagged", "unblocked", "joined"}
    /\ launcher = "call" => server = "none"
    /\ server = "body" => pipe # <<>>

DmnContents ==
    /\ pipe \in Seq(Posted) /\ buffer \in Posted
    /\ task \in Seq(Dmn!Good)
    /\ answers \in [Daemons -> Seq({"IF_REQUEST", "IF_RELEASE"})]
    /\ \A d \in Daemons : Len(answers[d]) <= Capacity
    /\ written \in Seq(Dmn!Message) /\ forwarded \in Seq(Dmn!Good)
    /\ answered \in [Daemons -> Seq(Dmn!Message)]

Unopened ==
    server \in {"none", "init"} =>
      /\ pipe = <<>> /\ task = <<>> /\ written = <<>> /\ forwarded = <<>>
      /\ \A d \in Daemons : answered[d] = <<>>

Forwarding ==
    server \notin {"post", "ended"} => Splits(written, Hand(server, buffer), pipe, forwarded)

Answering == Routed(forwarded, task, Dmn!Open, answered)

DmnInv == DmnControl /\ DmnContents /\ Unopened /\ Forwarding /\ Answering

(* The invariant holds before the thread is launched; the lemmas after it  *)
(* show that each of its parts is kept by every step.                      *)
LEMMA DmnInit == Dmn!Init => DmnInv
<1> SUFFICES ASSUME Dmn!Init PROVE DmnInv
  OBVIOUS
<1> USE DEF Dmn!Init
<1>1. DmnControl
  BY DEF DmnControl
<1>2. DmnContents
  BY DaemonsHavePipes DEF DmnContents, Posted
<1>3. Unopened
  BY DEF Unopened
<1>4. Forwarding
  <2>1. Hand(server, buffer) = <<>>
    BY DEF Hand
  <2> QED BY <2>1, SplitsEmpty DEF Forwarding
<1>5. Answering
  <2>1. \A d \in Daemons : answered[d] = <<>>
    OBVIOUS
  <2> QED BY <2>1, RoutedEmpty DEF Answering
<1> QED BY <1>1, <1>2, <1>3, <1>4, <1>5 DEF DmnInv
(* No action but these changes the pipe, what was written, handled or sent. *)
Quiet ==
    \/ Dmn!createThread \/ Dmn!thelper_signal_wait \/ Dmn!wakeUp \/ Dmn!spuriousWakeUp
    \/ Dmn!thelper_signal_ready \/ Dmn!readHeader \/ Dmn!unblockFlag \/ Dmn!join
    \/ \E d \in Daemons : Dmn!read(d)
    \/ UNCHANGED dmnVars

(* Every step is quiet or one of the others.                               *)
LEMMA DmnSteps ==
    ASSUME Dmn!Next \/ UNCHANGED dmnVars
    PROVE  \/ Quiet \/ Dmn!readBody \/ Dmn!readFails \/ Dmn!loc_api_server_proc
           \/ Dmn!loc_api_server_proc_post \/ Dmn!data_conn \/ Dmn!unblockMessage
           \/ \E d \in Daemons \cup {"MODEM"} : Dmn!write(d)
  BY DEF Dmn!Next, Dmn!Launch, Dmn!Server, Dmn!Owner, Quiet

(* What a quiet step does: it leaves the data alone, but for an answer that *)
(* is read, opens the connection at most, and hands nothing over.          *)
LEMMA QuietStep ==
    ASSUME DmnInv, Quiet
    PROVE  /\ UNCHANGED <<pipe, buffer, task, written, forwarded, answered>>
           /\ DmnControl'
           /\ server' = server \/ (server = "none" /\ server' = "init")
              \/ (server = "init" /\ server' = "header")
              \/ (server = "header" /\ server' = "body")
<1> USE DEF DmnInv, DmnControl, Dmn!pipes
<1>1. CASE Dmn!createThread
  BY <1>1 DEF Dmn!createThread
<1>2. CASE Dmn!thelper_signal_wait \/ Dmn!wakeUp
  BY <1>2 DEF Dmn!thelper_signal_wait, Dmn!wakeUp, Dmn!Result
<1>3. CASE Dmn!spuriousWakeUp
  BY <1>3 DEF Dmn!spuriousWakeUp
<1>4. CASE Dmn!thelper_signal_ready
  BY <1>4 DEF Dmn!thelper_signal_ready
<1>5. CASE Dmn!readHeader
  BY <1>5 DEF Dmn!readHeader
<1>6. CASE Dmn!unblockFlag \/ Dmn!join
  BY <1>6 DEF Dmn!unblockFlag, Dmn!join
<1>7. CASE \E d \in Daemons : Dmn!read(d)
  BY <1>7 DEF Dmn!read
<1>8. CASE UNCHANGED dmnVars
  BY <1>8 DEF dmnVars
<1> QED BY <1>1, <1>2, <1>3, <1>4, <1>5, <1>6, <1>7, <1>8 DEF Quiet

LEMMA DmnControlStep == ASSUME DmnInv, Dmn!Next \/ UNCHANGED dmnVars PROVE DmnControl'
<1> USE DEF DmnInv, DmnControl
<1>1. CASE Quiet
  BY <1>1, QuietStep
<1>2. CASE Dmn!readBody
  BY <1>2 DEF Dmn!readBody
<1>3. CASE Dmn!readFails
  BY <1>3 DEF Dmn!readFails
<1>4. CASE Dmn!loc_api_server_proc
  BY <1>4 DEF Dmn!loc_api_server_proc, Dmn!Again
<1>5. CASE Dmn!loc_api_server_proc_post
  BY <1>5 DEF Dmn!loc_api_server_proc_post
<1>6. CASE Dmn!data_conn
  BY <1>6 DEF Dmn!data_conn
<1>7. CASE Dmn!unblockMessage
  <2>1. pipe # <<>> => pipe' # <<>>
    <3>1. Append(pipe, Dmn!UNBLOCK) # <<>>
      <4>1. pipe \in Seq(Posted) /\ Dmn!UNBLOCK \in Posted
        BY DEF DmnContents, Posted
      <4> QED BY <4>1, AppendProperties
    <3> QED BY <1>7, <3>1 DEF Dmn!unblockMessage, Dmn!Post
  <2> QED BY <1>7, <2>1 DEF Dmn!unblockMessage
<1>8. CASE \E d \in Daemons \cup {"MODEM"} : Dmn!write(d)
  <2>1. PICK m \in Dmn!Message : pipe' = Append(pipe, m)
    BY <1>8 DEF Dmn!write
  <2>2. pipe' # <<>>
    <3>1. pipe \in Seq(Posted) /\ m \in Posted
      BY DEF DmnContents, Posted
    <3> QED BY <2>1, <3>1, AppendProperties
  <2> QED BY <1>8, <2>2 DEF Dmn!write
<1> QED BY <1>1, <1>2, <1>3, <1>4, <1>5, <1>6, <1>7, <1>8, DmnSteps

(* The message task answers a message of a daemon with a pipe that has room. *)
LEMMA DataConn ==
    ASSUME DmnInv, Dmn!data_conn
    PROVE  /\ task # <<>> /\ task' = Tail(task)
           /\ Head(task) \in Dmn!Good /\ Head(task).sender \in Daemons
           /\ Head(task).ctrl_type \in {"IF_REQUEST", "IF_RELEASE"}
           /\ Dmn!Open => Len(answers[Head(task).sender]) < Capacity
           /\ answered' = IF Dmn!Open
                          THEN [answered EXCEPT ![Head(task).sender] = Append(@, Head(task))]
                          ELSE answered
           /\ answers' = IF Dmn!Open
                         THEN [answers EXCEPT ![Head(task).sender]
                                 = Append(@, Head(task).ctrl_type)]
                         ELSE answers
           /\ UNCHANGED <<launcher, thread_ready, thread_exit, server, pipe, buffer, caller,
                          written, forwarded>>
<1>1. task # <<>> /\ task \in Seq(Dmn!Good)
  BY DEF Dmn!data_conn, DmnInv, DmnContents
<1>2. Head(task) \in Dmn!Good
  BY <1>1, HeadTailProperties
<1>3. /\ Head(task).sender \in Daemons
      /\ Head(task).ctrl_type \in {"IF_REQUEST", "IF_RELEASE"}
  BY <1>2 DEF Dmn!Good, Dmn!Message
<1> QED BY <1>1, <1>2, <1>3 DEF Dmn!data_conn, Dmn!PipeOf
LEMMA ContentsStep == ASSUME DmnInv, Dmn!Next \/ UNCHANGED dmnVars PROVE DmnContents'
<1>0. DmnContents /\ DmnControl
  BY DEF DmnInv
<1>1. CASE Quiet
  <2>1. /\ answers' \in [Daemons -> Seq({"IF_REQUEST", "IF_RELEASE"})]
        /\ \A d \in Daemons : Len(answers'[d]) <= Capacity
    <3>1. CASE UNCHANGED answers
      BY <1>0, <3>1 DEF DmnContents
    <3>2. CASE \E d \in Daemons : Dmn!read(d)
      <4>1. PICK d \in Daemons : answers[d] # <<>>
                                 /\ answers' = [answers EXCEPT ![d] = Tail(answers[d])]
        BY <3>2 DEF Dmn!read
      <4>2. PICK a, b : a = answers[d] /\ b = Tail(a)
        OBVIOUS
      <4>3. a \in Seq({"IF_REQUEST", "IF_RELEASE"}) /\ a # <<>> /\ Len(a) <= Capacity
        BY <1>0, <4>1, <4>2 DEF DmnContents
      <4>4. b \in Seq({"IF_REQUEST", "IF_RELEASE"}) /\ Len(b) <= Capacity
        BY <4>2, <4>3, HeadTailProperties, LenProperties, DaemonsHavePipes
      <4> QED BY <1>0, <4>1, <4>2, <4>4 DEF DmnContents
    <3> QED BY <1>1, <3>1, <3>2 DEF Quiet, Dmn!createThread, Dmn!thelper_signal_wait,
              Dmn!wakeUp, Dmn!spuriousWakeUp, Dmn!thelper_signal_ready, Dmn!readHeader,
              Dmn!unblockFlag, Dmn!join, Dmn!pipes, dmnVars
  <2> QED BY <1>0, <1>1, <2>1, QuietStep DEF DmnContents
<1>2. CASE Dmn!readBody
  <2>1. pipe \in Seq(Posted) /\ pipe # <<>>
    BY <1>0, <1>2 DEF DmnContents, DmnControl, Dmn!readBody
  <2>2. Head(pipe) \in Posted /\ Tail(pipe) \in Seq(Posted)
    BY <2>1, HeadTailProperties
  <2> QED BY <1>0, <1>2, <2>2 DEF DmnContents, Dmn!readBody
<1>3. CASE Dmn!readFails
  BY <1>0, <1>3 DEF DmnContents, Dmn!readFails
<1>4. CASE Dmn!loc_api_server_proc
  <2>1. Dmn!Sent(buffer) => buffer \in Dmn!Good
    BY <1>0, MessageOrUnblock DEF DmnContents
  <2>2. task' \in Seq(Dmn!Good) /\ forwarded' \in Seq(Dmn!Good)
    BY <1>0, <1>4, <2>1, AppendProperties DEF DmnContents, Dmn!loc_api_server_proc
  <2> QED BY <1>0, <1>4, <2>2 DEF DmnContents, Dmn!loc_api_server_proc
<1>5. CASE Dmn!loc_api_server_proc_post
  <2>1. /\ answers' \in [Daemons -> Seq({"IF_REQUEST", "IF_RELEASE"})]
        /\ \A d \in Daemons : Len(answers'[d]) <= Capacity
    BY <1>5, DaemonsHavePipes DEF Dmn!loc_api_server_proc_post
  <2>2. pipe' \in Seq(Posted)
    BY <1>5 DEF Dmn!loc_api_server_proc_post
  <2> QED BY <1>0, <1>5, <2>1, <2>2 DEF DmnContents, Dmn!loc_api_server_proc_post
<1>6. CASE Dmn!data_conn
  <2>0. task # <<>> /\ task' = Tail(task) /\ task \in Seq(Dmn!Good)
    BY <1>0, <1>6, DataConn DEF DmnContents
  <2>1. task' \in Seq(Dmn!Good)
    BY <2>0, HeadTailProperties
  <2>2. PICK d, k, m : d = Head(task).sender /\ k = Head(task).ctrl_type /\ m = Head(task)
    OBVIOUS
  <2>3. /\ d \in Daemons /\ k \in {"IF_REQUEST", "IF_RELEASE"} /\ m \in Dmn!Message
        /\ Dmn!Open => Len(answers[d]) < Capacity
        /\ answered' = IF Dmn!Open THEN [answered EXCEPT ![d] = Append(@, m)] ELSE answered
        /\ answers' = IF Dmn!Open THEN [answers EXCEPT ![d] = Append(@, k)] ELSE answers
        /\ UNCHANGED <<pipe, buffer, written, forwarded>>
    BY <1>6, <2>2, DataConn DEF Dmn!Good
  <2>4. PICK a, b, c, e : a = answers[d] /\ b = Append(a, k) /\ c = answered[d] /\ e = Append(c, m)
    OBVIOUS
  <2>5. a \in Seq({"IF_REQUEST", "IF_RELEASE"}) /\ c \in Seq(Dmn!Message)
    BY <1>0, <2>3, <2>4 DEF DmnContents
  <2>6. /\ b \in Seq({"IF_REQUEST", "IF_RELEASE"}) /\ e \in Seq(Dmn!Message)
        /\ Dmn!Open => Len(b) <= Capacity
    BY <2>3, <2>4, <2>5, AppendProperties, LenProperties, DaemonsHavePipes
  <2>7. /\ answered' = IF Dmn!Open THEN [answered EXCEPT ![d] = e] ELSE answered
        /\ answers' = IF Dmn!Open THEN [answers EXCEPT ![d] = b] ELSE answers
    BY <2>3, <2>4
  <2>8. /\ answers' \in [Daemons -> Seq({"IF_REQUEST", "IF_RELEASE"})]
        /\ \A i \in Daemons : Len(answers'[i]) <= Capacity
        /\ answered' \in [Daemons -> Seq(Dmn!Message)]
    BY <1>0, <2>3, <2>6, <2>7 DEF DmnContents
  <2> QED BY <1>0, <2>1, <2>3, <2>8 DEF DmnContents
<1>7. CASE Dmn!unblockMessage
  <2>1. pipe' \in Seq(Posted)
    BY <1>0, <1>7, AppendProperties DEF DmnContents, Dmn!unblockMessage, Dmn!Post, Posted
  <2> QED BY <1>0, <1>7, <2>1 DEF DmnContents, Dmn!unblockMessage
<1>8. CASE \E d \in Daemons \cup {"MODEM"} : Dmn!write(d)
  <2>1. PICK m \in Dmn!Message : pipe' = Append(pipe, m) /\ written' = Append(written, m)
    BY <1>8 DEF Dmn!write
  <2>2. m \in Posted
    BY DEF Posted
  <2>3. pipe' \in Seq(Posted) /\ written' \in Seq(Dmn!Message)
    BY <1>0, <2>1, <2>2, AppendProperties DEF DmnContents
  <2> QED BY <1>0, <1>8, <2>3 DEF DmnContents, Dmn!write
<1> QED BY <1>1, <1>2, <1>3, <1>4, <1>5, <1>6, <1>7, <1>8, DmnSteps

LEMMA UnopenedStep == ASSUME DmnInv, Dmn!Next \/ UNCHANGED dmnVars PROVE Unopened'
<1>0. Unopened /\ (server = "none" => server \in {"none", "init"})
  BY DEF DmnInv
<1>1. CASE Quiet
  BY <1>0, <1>1, QuietStep DEF Unopened
<1>2. CASE Dmn!readBody \/ Dmn!readFails \/ Dmn!loc_api_server_proc
           \/ Dmn!loc_api_server_proc_post
  BY <1>2 DEF Unopened, Dmn!readBody, Dmn!readFails, Dmn!loc_api_server_proc, Dmn!Again,
              Dmn!loc_api_server_proc_post
<1>3. CASE Dmn!data_conn
  BY <1>0, <1>3 DEF Unopened, Dmn!data_conn
<1>4. CASE Dmn!unblockMessage
  BY <1>0, <1>4 DEF Unopened, Dmn!unblockMessage, Dmn!Post, Dmn!Open
<1>5. CASE \E d \in Daemons \cup {"MODEM"} : Dmn!write(d)
  BY <1>5 DEF Unopened, Dmn!write, Dmn!Open
<1> QED BY <1>1, <1>2, <1>3, <1>4, <1>5, DmnSteps

LEMMA ForwardingStep == ASSUME DmnInv, Dmn!Next \/ UNCHANGED dmnVars PROVE Forwarding'
<1>0. /\ pipe \in Seq(Posted) /\ buffer \in Posted /\ Hand(server, buffer) \in Seq(Dmn!Message)
      /\ server \notin {"post", "ended"} => Splits(written, Hand(server, buffer), pipe, forwarded)
  <2>1. pipe \in Seq(Posted) /\ buffer \in Posted
    BY DEF DmnInv, DmnContents
  <2>2. Hand("handle", buffer) \in Seq(Dmn!Message)
    BY <2>1, MessageOrUnblock
  <2>3. Hand(server, buffer) \in Seq(Dmn!Message)
    BY <2>2 DEF Hand
  <2> QED BY <2>1, <2>3 DEF DmnInv, Forwarding
<1>1. CASE Quiet
  <2>1. Hand(server', buffer') = Hand(server, buffer)
    BY <1>1, QuietStep DEF Hand
  <2>2. server' \notin {"post", "ended"} => server \notin {"post", "ended"}
    BY <1>1, QuietStep
  <2> QED BY <1>0, <1>1, <2>1, <2>2, QuietStep DEF Forwarding
<1>2. CASE Dmn!readBody
  <2>1. pipe # <<>> /\ Hand(server, buffer) = <<>> /\ server = "body"
    BY <1>2 DEF Dmn!readBody, DmnInv, DmnControl, Hand
  <2>2. Splits(written, Hand("handle", Head(pipe)), Tail(pipe), forwarded)
    BY <1>0, <2>1, SplitsRead
  <2> QED BY <1>2, <2>2 DEF Forwarding, Dmn!readBody
<1>3. CASE Dmn!readFails \/ Dmn!loc_api_server_proc_post
  BY <1>3 DEF Forwarding, Dmn!readFails, Dmn!loc_api_server_proc_post
<1>4. CASE Dmn!loc_api_server_proc
  <2>1. Splits(written, Hand("handle", buffer), pipe, forwarded)
    BY <1>0, <1>4 DEF Dmn!loc_api_server_proc
  <2>2. PICK f : f = IF buffer \in Dmn!Good THEN Append(forwarded, buffer) ELSE forwarded
    OBVIOUS
  <2>3. Splits(written, <<>>, pipe, f)
    BY <1>0, <2>1, <2>2, SplitsHandle
  <2>4. Dmn!Sent(buffer) <=> buffer \in Dmn!Good
    BY <1>0, MessageOrUnblock
  <2>5. forwarded' = f
    BY <1>4, <2>2, <2>4 DEF Dmn!loc_api_server_proc
  <2>6. Hand(server', buffer') = <<>>
    BY <1>4 DEF Dmn!loc_api_server_proc, Dmn!Again, Hand
  <2> QED BY <1>4, <2>3, <2>5, <2>6 DEF Forwarding, Dmn!loc_api_server_proc
<1>5. CASE Dmn!data_conn
  BY <1>0, <1>5, DataConn DEF Forwarding
<1>6. CASE Dmn!unblockMessage
  <2>1. ASSUME server \notin {"post", "ended"}
        PROVE  Splits(written, Hand(server, buffer), Append(pipe, Dmn!UNBLOCK), forwarded)
    BY <1>0, <2>1, SplitsUnblock
  <2> QED BY <1>0, <1>6, <2>1 DEF Forwarding, Dmn!unblockMessage, Dmn!Post
<1>7. CASE \E d \in Daemons \cup {"MODEM"} : Dmn!write(d)
  <2>1. PICK m \in Dmn!Message : /\ pipe' = Append(pipe, m) /\ written' = Append(written, m)
                                 /\ UNCHANGED <<server, buffer, forwarded>>
    BY <1>7 DEF Dmn!write
  <2>2. ASSUME server \notin {"post", "ended"}
        PROVE  Splits(Append(written, m), Hand(server, buffer), Append(pipe, m), forwarded)
    BY <1>0, <2>2, SplitsWrite
  <2> QED BY <2>1, <2>2 DEF Forwarding
<1> QED BY <1>1, <1>2, <1>3, <1>4, <1>5, <1>6, <1>7, DmnSteps

LEMMA AnsweringStep == ASSUME DmnInv, Dmn!Next \/ UNCHANGED dmnVars PROVE Answering'
<1>0. Routed(forwarded, task, Dmn!Open, answered) /\ task \in Seq(Dmn!Good)
  BY DEF DmnInv, Answering, DmnContents
<1>1. ASSUME UNCHANGED <<task, forwarded, answered>>, Dmn!Open' => Dmn!Open PROVE Answering'
  <2>1. Routed(forwarded, task, Dmn!Open', answered)
    BY <1>0, <1>1 DEF Routed
  <2> QED BY <1>1, <2>1 DEF Answering
<1>2. CASE Quiet
  <2>1. CASE server = "init"
    <3>1. /\ forwarded' = <<>> /\ task' = <<>>
          /\ \A d \in Daemons : answered'[d] = <<>>
      BY <1>2, <2>1, QuietStep DEF DmnInv, Unopened
    <3>2. Routed(<<>>, <<>>, Dmn!Open', answered')
      BY <3>1, RoutedEmpty
    <3> QED BY <3>1, <3>2 DEF Answering
  <2>2. CASE server # "init"
    <3>1. Dmn!Open' => Dmn!Open
      BY <1>2, <2>2, QuietStep DEF Dmn!Open
    <3> QED BY <1>1, <1>2, <3>1, QuietStep
  <2> QED BY <2>1, <2>2
<1>3. CASE Dmn!readBody \/ Dmn!readFails \/ Dmn!loc_api_server_proc_post \/ Dmn!unblockMessage
           \/ \E d \in Daemons \cup {"MODEM"} : Dmn!write(d)
  <2>1. UNCHANGED <<task, forwarded, answered>> /\ (Dmn!Open' => Dmn!Open)
    BY <1>3 DEF Dmn!readBody, Dmn!readFails, Dmn!loc_api_server_proc_post,
                Dmn!unblockMessage, Dmn!write, Dmn!Open
  <2> QED BY <1>1, <2>1
<1>4. CASE Dmn!loc_api_server_proc
  <2>1. Dmn!Sent(buffer) => buffer \in Dmn!Good
    BY MessageOrUnblock DEF DmnInv, DmnContents
  <2>2. Dmn!Open' = Dmn!Open /\ answered' = answered
    BY <1>4 DEF Dmn!loc_api_server_proc, Dmn!Again, Dmn!Open
  <2>3. CASE Dmn!Sent(buffer)
    <3>1. Routed(Append(forwarded, buffer), Append(task, buffer), Dmn!Open, answered)
      BY <1>0, <2>1, <2>3, RoutedSend
    <3> QED BY <1>4, <2>2, <2>3, <3>1 DEF Answering, Dmn!loc_api_server_proc
  <2>4. CASE ~Dmn!Sent(buffer)
    BY <1>1, <1>4, <2>2, <2>4 DEF Dmn!loc_api_server_proc
  <2> QED BY <2>3, <2>4
<1>5. CASE Dmn!data_conn
  <2>1. PICK a : a = IF Dmn!Open
                     THEN [answered EXCEPT ![Head(task).sender] = Append(@, Head(task))]
                     ELSE answered
    OBVIOUS
  <2>2. task # <<>> /\ answered \in [Daemons -> Seq(Dmn!Message)] /\ Dmn!Open \in BOOLEAN
    BY <1>5, DataConn DEF DmnInv, DmnContents, Dmn!Open
  <2>3. Routed(forwarded, Tail(task), Dmn!Open, a)
    BY <1>0, <2>1, <2>2, RoutedAnswer
  <2>4. /\ task' = Tail(task) /\ answered' = a /\ forwarded' = forwarded
        /\ Dmn!Open' = Dmn!Open
    BY <1>5, <2>1, DataConn DEF Dmn!Open
  <2> QED BY <2>3, <2>4 DEF Answering
<1> QED BY <1>2, <1>3, <1>4, <1>5, DmnSteps
(* The inductive invariant of the connection holds in every behaviour.     *)
THEOREM DaemonsInvariance == AllSpec => []DmnInv
<1>1. AllInit => DmnInv
  BY DmnInit DEF AllInit
<1>2. DmnInv /\ [AllNext]_allVars => DmnInv'
  <2> SUFFICES ASSUME DmnInv, [AllNext]_allVars PROVE DmnInv'
    OBVIOUS
  <2>1. Dmn!Next \/ UNCHANGED dmnVars
    BY DEF AllNext, allVars
  <2> QED
    BY <2>1, DmnControlStep, ContentsStep, UnopenedStep, ForwardingStep, AnsweringStep DEF DmnInv
<1> QED
  BY <1>1, <1>2, PTL DEF AllSpec

(* A sequence without its second part is its first.                        *)
LEMMA PrefixIs ==
    ASSUME NEW U, NEW r \in Seq(U), NEW q \in Seq(U), NEW w, w = r \o q, NEW n,
           n = Len(w) - Len(q)
    PROVE  SubSeq(w, 1, n) = r
<1>1. n = Len(r) /\ Len(r) \in Nat /\ w \in Seq(U)
  BY ConcatProperties, LenProperties
<1>2. SubSeq(w, 1, n) = [i \in 1..n |-> w[i]]
  BY <1>1
<1>3. \A i \in 1..n : w[i] = r[i]
  BY <1>1, ConcatProperties
<1>4. r = [i \in 1..n |-> r[i]]
  BY <1>1, LenProperties
<1> QED BY <1>2, <1>3, <1>4

(* The server sends on what the daemons write, in order, complete and      *)
(* nothing else, and each daemon gets the answers to its own messages      *)
(* (loc_eng_dmn_conn_handler.cpp), for any daemons, messages and size of   *)
(* the pipes.                                                              *)
THEOREM DaemonsServedTheorem == AllSpec => []DaemonsServed
<1>1. ASSUME DmnInv PROVE Dmn!TypeOK
  BY <1>1 DEF DmnInv, DmnControl, DmnContents, Dmn!TypeOK
<1>2. ASSUME DmnInv PROVE Dmn!ForwardedInOrder
  <2> SUFFICES ASSUME server \notin {"post", "ended"}
               PROVE  LET unread == Len(Dmn!Picked(pipe, Dmn!Message))
                            + (IF server = "handle" /\ buffer # Dmn!UNBLOCK THEN 1 ELSE 0)
                      IN  forwarded = Dmn!Picked(SubSeq(written, 1, Len(written) - unread), Dmn!Good)
    BY DEF Dmn!ForwardedInOrder
  <2>1. PICK h : h = Hand(server, buffer)
    OBVIOUS
  <2>2. PICK p : p = Dmn!Picked(pipe, Dmn!Message)
    OBVIOUS
  <2>3. PICK r \in Seq(Dmn!Message) : written = r \o (h \o p) /\ forwarded = Dmn!Picked(r, Dmn!Good)
    BY <1>2, <2>1, <2>2 DEF DmnInv, Forwarding, Splits
  <2>4. /\ h \in Seq(Dmn!Message) /\ p \in Seq(Dmn!Message)
        /\ Len(h) = IF server = "handle" /\ buffer # Dmn!UNBLOCK THEN 1 ELSE 0
    <3>1. buffer \in Posted /\ pipe \in Seq(Posted)
      BY <1>2 DEF DmnInv, DmnContents
    <3>2. p \in Seq(Dmn!Message)
      BY <2>2, <3>1, PickedMessages
    <3>3. h = IF server = "handle" /\ buffer # Dmn!UNBLOCK THEN <<buffer>> ELSE <<>>
      BY <2>1 DEF Hand
    <3>4. buffer # Dmn!UNBLOCK => buffer \in Dmn!Message
      BY <3>1, MessageOrUnblock
    <3> QED BY <3>2, <3>3, <3>4
  <2>5. PICK q : q = h \o p
    OBVIOUS
  <2>6. q \in Seq(Dmn!Message) /\ Len(q) = Len(h) + Len(p) /\ Len(h) \in Nat /\ Len(p) \in Nat
    BY <2>4, <2>5, ConcatProperties, LenProperties
  <2>7. PICK n : n = Len(written)
                     - (Len(p) + (IF server = "handle" /\ buffer # Dmn!UNBLOCK THEN 1 ELSE 0))
    OBVIOUS
  <2>8. n = Len(written) - Len(q)
    BY <2>4, <2>6, <2>7
  <2>9. SubSeq(written, 1, n) = r
    BY <2>3, <2>5, <2>6, <2>8, PrefixIs
  <2> QED BY <2>2, <2>3, <2>7, <2>9
<1>3. ASSUME DmnInv PROVE Dmn!AnswersRouted
  <2>1. PICK done \in Seq(Dmn!Good) :
          /\ forwarded = done \o task
          /\ Dmn!Open => \A d \in Daemons : answered[d] = Dmn!Picked(done, Dmn!From(d))
    BY <1>3 DEF DmnInv, Answering, Routed
  <2>2. task \in Seq(Dmn!Good)
    BY <1>3 DEF DmnInv, DmnContents
  <2>3. PICK n : n = Len(forwarded) - Len(task)
    OBVIOUS
  <2>4. SubSeq(forwarded, 1, n) = done
    BY <2>1, <2>2, <2>3, PrefixIs
  <2> QED BY <2>1, <2>3, <2>4 DEF Dmn!AnswersRouted
<1> QED
  BY <1>1, <1>2, <1>3, DaemonsInvariance, PTL DEF DaemonsServed
=============================================================================
