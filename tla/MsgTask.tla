------------------------------ MODULE MsgTask -------------------------------
(***************************************************************************)
(* The message task (gps/utils/MsgTask.cpp): a message queue whose only    *)
(* receiver is the worker of a LocThread, with the MsgTask object itself   *)
(* as the thread's runnable.  Every thread of the GPS HAL sends to it; its *)
(* handlers run one at a time.                                             *)
(*                                                                         *)
(* The thread is LocThread, with run() replaced by the receive, the        *)
(* handler and the deletion of the message; the queue is the channel that  *)
(* MsgQ implements.  destroy() runs in the thread that owns the task.      *)
(***************************************************************************)
EXTENDS LocThread, Sequences, SequencesExt

CONSTANTS TaskMessages, \* the LocMsg objects, each sent at most once
          NULL

ASSUME NullIsNoMessage == NULL \notin TaskMessages

VARIABLES mQ,       \* the contents of the queue, oldest first
          mQUnblocked, \* it was unblocked
          step,      \* where run() is: "receive", "waiting", "handle", "delete"
          msg,       \* run()'s local variable
          owner,     \* where the owner is in destroy()
          sentMsgs,  \* history: what sendMsg put in the queue, in order
          handled,   \* history: the messages whose proc() ran, in order
          deleted    \* how many times a message object was deleted

mvars == <<mQ, mQUnblocked, step, msg, owner, sentMsgs, handled, deleted>>
vars == <<tvars, mvars>>

TaskInit ==
    /\ Init
    /\ mQ = <<>>
    /\ mQUnblocked = FALSE
    /\ step = "receive"
    /\ msg = NULL
    /\ owner = "constructing"
    /\ sentMsgs = <<>>
    /\ handled = <<>>
    /\ deleted = [m \in TaskMessages |-> 0]

-----------------------------------------------------------------------------
(* The constructor starts the thread and forgets it if that fails. *)
StartTask ==
    /\ owner = "constructing"
    /\ \/ StartThread
       \/ result = "false" /\ destroy("client")
    /\ owner' = IF pc'["client"] \in {"holding", "gone"} THEN "using" ELSE owner
    /\ UNCHANGED <<mQ, mQUnblocked, step, msg, sentMsgs, handled, deleted>>

(* Mutant: the newest message is handled first. *)
sendMsg_front(m) ==
    /\ owner = "using"
    /\ m \notin Range(sentMsgs)
    /\ mQ' = <<m>> \o mQ
    /\ sentMsgs' = Append(sentMsgs, m)
    /\ UNCHANGED <<mQUnblocked, step, msg, owner, handled, deleted, tvars>>

(* sendMsg, by any thread, a handler included.  Once destroy() unblocked   *)
(* the queue it refuses the message; sendMsg does not look at the result   *)
(* and the object is nobody's any more, which changes nothing here.        *)
sendMsg(m) ==
    /\ owner = "using"
    /\ m \notin Range(sentMsgs)
    /\ mQ' = Append(mQ, m)
    /\ sentMsgs' = Append(sentMsgs, m)
    /\ UNCHANGED <<mQUnblocked, step, msg, owner, handled, deleted, tvars>>

-----------------------------------------------------------------------------
(* Mutant: a message does not wake a receiver that sleeps. *)
Receive_awakeOnly ==
    /\ pc["worker"] = "run"
    /\ step = "receive" /\ ~mQUnblocked
    /\ mQ # <<>>
    /\ msg' = Head(mQ)
    /\ mQ' = Tail(mQ)
    /\ step' = "handle"
    /\ UNCHANGED <<mQUnblocked, owner, sentMsgs, handled, deleted, tvars>>

(* run(): msg_q_rcv hands out the oldest message ... *)
Receive ==
    /\ pc["worker"] = "run"
    /\ \/ step = "receive" /\ ~mQUnblocked
       \/ step = "waiting"
    /\ mQ # <<>>
    /\ msg' = Head(mQ)
    /\ mQ' = Tail(mQ)
    /\ step' = "handle"
    /\ UNCHANGED <<mQUnblocked, owner, sentMsgs, handled, deleted, tvars>>

(* ... or sleeps until there is one ... *)
Wait ==
    /\ pc["worker"] = "run"
    /\ step = "receive"
    /\ ~mQUnblocked
    /\ mQ = <<>>
    /\ step' = "waiting"
    /\ UNCHANGED <<mQ, mQUnblocked, msg, owner, sentMsgs, handled, deleted, tvars>>

(* ... or fails, which ends the loop: at once if the queue was unblocked   *)
(* before the call, when the queue is empty if the call was waiting.       *)
ReceiveFails ==
    /\ mQUnblocked
    /\ \/ step = "receive"
       \/ step = "waiting" /\ mQ = <<>>
    /\ RunReturns(FALSE)
    /\ step' = "receive"
    /\ UNCHANGED <<mQ, mQUnblocked, msg, owner, sentMsgs, handled, deleted>>

Handle ==
    /\ pc["worker"] = "run"
    /\ step = "handle"
    /\ handled' = Append(handled, msg)
    /\ step' = "delete"
    /\ UNCHANGED <<mQ, mQUnblocked, msg, owner, sentMsgs, deleted, tvars>>

(* Mutant: the message is left for its sender to delete. *)
DeleteMsg_leaks ==
    /\ step = "delete"
    /\ RunReturns(TRUE)
    /\ msg' = NULL
    /\ step' = "receive"
    /\ UNCHANGED <<mQ, mQUnblocked, owner, sentMsgs, handled, deleted>>

DeleteMsg ==
    /\ step = "delete"
    /\ RunReturns(TRUE)
    /\ deleted' = [deleted EXCEPT ![msg] = @ + 1]
    /\ msg' = NULL
    /\ step' = "receive"
    /\ UNCHANGED <<mQ, mQUnblocked, owner, sentMsgs, handled>>

(* Mutant: the flush deletes what was handled as well. *)
Flush_everything ==
    /\ deleted' = [m \in TaskMessages |->
                     deleted[m] + IF Contains(sentMsgs, m) THEN 1 ELSE 0]
    /\ mQ' = <<>>

(* ~MsgTask: the flush deletes what is left in the queue. *)
Flush ==
    /\ deleted' = [m \in TaskMessages |->
                     deleted[m] + IF Contains(mQ, m) THEN 1 ELSE 0]
    /\ mQ' = <<>>

(* threadMain, whose deletion of the runnable runs ~MsgTask. *)
TaskMain ==
    \/ /\ ReadRunnable \/ Loop \/ ClearRunnable
       /\ UNCHANGED mvars
    \/ /\ DeleteRunnable
       /\ Flush
       /\ UNCHANGED <<mQUnblocked, step, msg, owner, sentMsgs, handled>>

-----------------------------------------------------------------------------
(* Mutant: destroy() does not unblock the queue. *)
destroy_blocked ==
    /\ owner = "using"
    /\ owner' = "unblocked"
    /\ UNCHANGED <<mQUnblocked, mQ, step, msg, sentMsgs, handled, deleted, tvars>>

(* destroy() unblocks the queue ... *)
destroyUnblock ==
    /\ owner = "using"
    /\ mQUnblocked' = TRUE
    /\ owner' = "unblocked"
    /\ UNCHANGED <<mQ, step, msg, sentMsgs, handled, deleted, tvars>>

(* ... takes mThread out of the object, or deletes the object if there is  *)
(* no thread.  The worker, which the unblock sent home, may have deleted   *)
(* it by then: the read is undefined and the model follows it no further.  *)
destroyTakeThread ==
    /\ owner = "unblocked"
    /\ \/ /\ runnable = "deleted"
          /\ owner' = "undefined"
          /\ UNCHANGED <<runnable, mQ, deleted>>
       \/ /\ runnable = "live"
          /\ result = "true"
          /\ owner' = "deleting thread"
          /\ UNCHANGED <<runnable, mQ, deleted>>
       \/ /\ runnable = "live"
          /\ result = "false"
          /\ owner' = "done"
          /\ runnable' = "deleted"
          /\ Flush
    /\ UNCHANGED <<mRunnable, mJoinable, mRefCount, pc, delegate, joinable, result, late>>
    /\ UNCHANGED <<mQUnblocked, step, msg, sentMsgs, handled>>

(* ... and deletes the LocThread: bye(), a join and the delegate's end. *)
destroyThread ==
    /\ owner = "deleting thread"
    /\ \/ Bye
       \/ Join
       \/ destroy("client")
    /\ owner' = IF pc'["client"] = "gone" THEN "done" ELSE owner
    /\ UNCHANGED <<mQ, mQUnblocked, step, msg, sentMsgs, handled, deleted>>

TaskNext ==
    \/ StartTask
    \/ \E m \in TaskMessages : sendMsg(m)
    \/ Receive
    \/ Wait
    \/ ReceiveFails
    \/ Handle
    \/ DeleteMsg
    \/ TaskMain
    \/ destroy("worker") /\ UNCHANGED mvars
    \/ destroyUnblock
    \/ destroyTakeThread
    \/ destroyThread

Worker ==
    \/ Receive \/ Wait \/ ReceiveFails \/ Handle \/ DeleteMsg
    \/ TaskMain
    \/ destroy("worker") /\ UNCHANGED mvars

Destroying == destroyTakeThread \/ destroyThread

(* The worker is scheduled and handlers return; an owner that has begun to *)
(* destroy the task goes on.                                               *)
TaskSpec == TaskInit /\ [][TaskNext]_vars
TaskFairSpec == TaskSpec /\ WF_vars(Worker) /\ WF_vars(Destroying)
-----------------------------------------------------------------------------
(* The type invariant; no message is deleted twice. *)
TaskTypeOK ==
    /\ TypeOK
    /\ mQ \in Seq(TaskMessages)
    /\ mQUnblocked \in BOOLEAN
    /\ step \in {"receive", "waiting", "handle", "delete"}
    /\ msg \in TaskMessages \cup {NULL}
    /\ owner \in {"constructing", "using", "unblocked", "deleting thread", "done",
                  "undefined"}
    /\ sentMsgs \in Seq(TaskMessages)
    /\ handled \in Seq(TaskMessages)
    /\ deleted \in [TaskMessages -> {0, 1}]

(* Handlers run in the order of the sendMsg calls, whatever threads those  *)
(* came from, and destroy() cuts the sequence short but never makes a hole *)
(* in it.                                                                  *)
HandledInOrder == IsPrefix(handled, sentMsgs)

(* Accepted messages are the task's: each one is deleted after its handler *)
(* has run or with the task, and none outlives the task.                   *)
MessagesDeleted ==
    /\ \A m \in TaskMessages : deleted[m] = 1 => m \in Range(handled) \/ runnable = "deleted"
    /\ runnable = "deleted" => \A m \in Range(sentMsgs) : deleted[m] = 1

(* A message is handled in its turn or not at all, and deleted once. *)
MessagesSafe == TaskTypeOK /\ HandledInOrder /\ MessagesDeleted

(* destroy() returns: the worker it joins is never left sleeping in        *)
(* msg_q_rcv.                                                              *)
DestroyReturns == owner = "unblocked" ~> owner \in {"done", "undefined"}

(* A task that has a worker and is not destroyed handles every message. *)
EveryMessageHandled ==
    \A m \in TaskMessages :
        m \in Range(sentMsgs) ~>
            m \in Range(handled) \/ result = "false" \/ mQUnblocked
=============================================================================
