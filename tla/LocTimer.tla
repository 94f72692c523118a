------------------------------ MODULE LocTimer ------------------------------
(***************************************************************************)
(* The timer service of gps/utils/LocTimer.cpp, for one container (the     *)
(* timers, or the alarms).  Three kinds of threads work on it:             *)
(*   - clients start, stop and delete LocTimers, under the timer's lock;   *)
(*   - the poll thread waits for the container's timerfd and turns its     *)
(*     expiry into a message;                                              *)
(*   - the message task owns the heap: it handles the push, remove and     *)
(*     expire messages, and it alone arms the timerfd and deletes the      *)
(*     LocTimerDelegates.                                                  *)
(* timerfd and epoll are the kernel's: the descriptor is readable from the *)
(* time it is armed for until it is set again, and epoll reports it while  *)
(* it is in the interest list.  The heap is the PriorityQueue that LocHeap *)
(* implements, the message queue a sequence.                               *)
(***************************************************************************)
EXTENDS Integers, Sequences, SequencesExt

CONSTANTS Timers,    \* the LocTimer objects of the clients
          Delegates, \* the LocTimerDelegates that can be created
          Delays,    \* the timeouts clients ask for
          MaxTime,   \* bound: no timer is due later
          Nil

ASSUME DelaysNat == Delays \subseteq Nat /\ MaxTime \in Nat
ASSUME NullIsNoDelegate == Nil \notin Delegates \cup Timers \cup Nat

VARIABLES now,
          timer,       \* a LocTimer object: "live" or "deleted"
          mTimer,      \* LocTimer::mTimer
          mClient,     \* LocTimerDelegate::mClient
          mFutureTime, \* LocTimerDelegate::mFutureTime
          delegate,    \* a LocTimerDelegate: "unborn", "live" or "deleted"
          heap,        \* the delegates in the container's heap ...
          top,         \* ... and the one on top
          polled,      \* the timerfd is in the epoll set
          armed,       \* the time the timerfd is set to, NULL when disarmed
          queue,       \* the messages of the message task
          poll,        \* where the poll thread is in expire()
          task,        \* where the message task is in a handler
          taskNow,     \* MsgTimerExpire's now
          cur,         \* the delegate it works on
          client,      \* LocTimerDelegate::expire's copy of mClient
          cancelled,   \* history: delegates a client's stop() stopped
          calls        \* history: callbacks made for a delegate

clientVars == <<timer, mTimer, mClient, mFutureTime, cancelled>>
kernelVars == <<polled, armed>>
taskVars == <<task, taskNow, cur, client>>
timerVars == <<now, clientVars, delegate, heap, top, kernelVars, queue, poll, taskVars, calls>>

(* A delegate that is due earlier ranks higher. *)
TimerHeap == INSTANCE PriorityQueue WITH
    Datas <- Delegates,
    NULL <- Nil,
    contents <- heap,
    rank <- [d \in Delegates |-> 0 - mFutureTime[d]]

Message == [type : {"push", "remove"}, d : Delegates] \cup [type : {"expire"}, d : {Nil}]

Post(type, d) == queue' = Append(queue, [type |-> type, d |-> d])

TimerInit ==
    /\ now = 0
    /\ timer = [t \in Timers |-> "live"]
    /\ mTimer = [t \in Timers |-> Nil]
    /\ mClient = [d \in Delegates |-> Nil]
    /\ mFutureTime = [d \in Delegates |-> 0]
    /\ delegate = [d \in Delegates |-> "unborn"]
    /\ heap = {}
    /\ top = Nil
    /\ polled = FALSE
    /\ armed = Nil
    /\ queue = <<>>
    /\ poll = "wait"
    /\ task = "idle"
    /\ taskNow = 0
    /\ cur = Nil
    /\ client = Nil
    /\ cancelled = {}
    /\ calls = [d \in Delegates |-> 0]

Tick ==
    /\ now < MaxTime
    /\ now' = now + 1
    /\ UNCHANGED <<clientVars, delegate, heap, top, kernelVars, queue, poll, taskVars, calls>>

-----------------------------------------------------------------------------
(* LocTimer::start with a timer that is not running: the new delegate puts *)
(* itself in the container. *)
start(t, delay) ==
    /\ timer[t] = "live"
    /\ mTimer[t] = Nil
    /\ now + delay <= MaxTime
    /\ \E d \in Delegates :
         /\ delegate[d] = "unborn"
         /\ delegate' = [delegate EXCEPT ![d] = "live"]
         /\ mTimer' = [mTimer EXCEPT ![t] = d]
         /\ mClient' = [mClient EXCEPT ![d] = t]
         /\ mFutureTime' = [mFutureTime EXCEPT ![d] = now + delay]
         /\ Post("push", d)
    /\ UNCHANGED <<now, timer, cancelled, heap, top, kernelVars, poll, taskVars, calls>>

(* Mutant: mTimer keeps pointing at the delegate. *)
stopLocked_keepsTimer(t) ==
    /\ mClient' = [mClient EXCEPT ![mTimer[t]] = Nil]
    /\ Post("remove", mTimer[t])
    /\ UNCHANGED mTimer

(* The critical section of LocTimer::stop with a timer that is running:    *)
(* the delegate forgets its client and asks to be removed.                 *)
stopLocked(t) ==
    /\ mTimer' = [mTimer EXCEPT ![t] = Nil]
    /\ mClient' = [mClient EXCEPT ![mTimer[t]] = Nil]
    /\ Post("remove", mTimer[t])

(* LocTimer::stop by a client. *)
stop(t) ==
    /\ timer[t] = "live"
    /\ mTimer[t] # Nil
    /\ stopLocked(t)
    /\ cancelled' = cancelled \cup {mTimer[t]}
    /\ UNCHANGED <<now, timer, mFutureTime, delegate, heap, top, kernelVars, poll>>
    /\ UNCHANGED <<taskVars, calls>>

(* ~LocTimer, after its stop(): the object goes. *)
deleteTimer(t) ==
    /\ timer[t] = "live"
    /\ mTimer[t] = Nil
    /\ timer' = [timer EXCEPT ![t] = "deleted"]
    /\ UNCHANGED <<now, mTimer, mClient, mFutureTime, cancelled, delegate, heap, top>>
    /\ UNCHANGED <<kernelVars, queue, poll, taskVars, calls>>

-----------------------------------------------------------------------------
(* The poll thread: epoll_wait reports the descriptor ... *)
pollWakes ==
    /\ poll = "wait"
    /\ polled
    /\ armed # Nil
    /\ armed <= now
    /\ poll' = "disarm"
    /\ UNCHANGED <<now, clientVars, delegate, heap, top, kernelVars, queue, taskVars, calls>>

(* ... and LocTimerContainer::expire disarms it, takes it out of the epoll *)
(* set and posts the message, all without a lock.                          *)
pollDisarms ==
    /\ poll = "disarm"
    /\ armed' = Nil
    /\ poll' = "remove"
    /\ UNCHANGED <<now, clientVars, delegate, heap, top, polled, queue, taskVars, calls>>

pollRemoves ==
    /\ poll = "remove"
    /\ polled' = FALSE
    /\ poll' = "post"
    /\ UNCHANGED <<now, clientVars, delegate, heap, top, armed, queue, taskVars, calls>>

pollPosts ==
    /\ poll = "post"
    /\ Post("expire", Nil)
    /\ poll' = "wait"
    /\ UNCHANGED <<now, clientVars, delegate, heap, top, kernelVars, taskVars, calls>>

-----------------------------------------------------------------------------
(* Mutant: only a top that displaces another one is armed. *)
updateSoonestTime_notFirst(priorTop, curTop) ==
    \/ /\ curTop = priorTop \/ (priorTop = Nil /\ curTop # Nil)
       /\ task' = "idle"
       /\ UNCHANGED polled
    \/ /\ curTop # priorTop /\ curTop = Nil
       /\ polled' = FALSE
       /\ task' = "disarm"
    \/ /\ curTop # priorTop /\ curTop # Nil /\ priorTop # Nil
       /\ IF mFutureTime[curTop] < mFutureTime[priorTop]
          THEN polled' = TRUE /\ task' = "arm"
          ELSE task' = "idle" /\ UNCHANGED polled

(* updateSoonestTime up to timerfd_settime: the descriptor is polled       *)
(* before it is armed, and not polled any more before it is disarmed.      *)
updateSoonestTime(priorTop, curTop) ==
    \/ /\ curTop = priorTop
       /\ task' = "idle"
       /\ UNCHANGED polled
    \/ /\ curTop # priorTop /\ curTop = Nil
       /\ polled' = FALSE
       /\ task' = "disarm"
    \/ /\ curTop # priorTop /\ curTop # Nil
       /\ IF priorTop = Nil \/ mFutureTime[curTop] < mFutureTime[priorTop]
          THEN polled' = TRUE /\ task' = "arm"
          ELSE task' = "idle" /\ UNCHANGED polled

(* Mutant: the time is taken for a delay (no TFD_TIMER_ABSTIME). *)
setTime_relative ==
    /\ task \in {"arm", "disarm"}
    /\ armed' = IF task = "arm" THEN now + mFutureTime[top] ELSE Nil
    /\ task' = "idle"
    /\ UNCHANGED <<now, clientVars, delegate, heap, top, polled, queue, poll>>
    /\ UNCHANGED <<taskNow, cur, client, calls>>

(* timerfd_settime, and the end of the handler. *)
setTime ==
    /\ task \in {"arm", "disarm"}
    /\ armed' = IF task = "arm" THEN mFutureTime[top] ELSE Nil
    /\ task' = "idle"
    /\ UNCHANGED <<now, clientVars, delegate, heap, top, polled, queue, poll>>
    /\ UNCHANGED <<taskNow, cur, client, calls>>

(* The message task takes the next message. *)
receive(type) ==
    /\ task = "idle"
    /\ queue # <<>>
    /\ Head(queue).type = type
    /\ queue' = Tail(queue)

MsgTimerPush ==
    /\ receive("push")
    /\ TimerHeap!Push(Head(queue).d)
    /\ updateSoonestTime(top, top')
    /\ UNCHANGED <<now, clientVars, delegate, armed, poll, taskNow, cur, client, calls>>

(* MsgTimerRemove: the kernel is told of the new top if the top was        *)
(* removed, and the delegate is deleted whether it was in the heap or not. *)
MsgTimerRemove ==
    /\ receive("remove")
    /\ TimerHeap!Remove(Head(queue).d)
    /\ LET d == Head(queue).d
           removed == IF d \in heap THEN d ELSE Nil
       IN  /\ IF top = removed THEN updateSoonestTime(Nil, top')
              ELSE UNCHANGED <<task, polled>>
           /\ delegate' = [delegate EXCEPT ![d] = "deleted"]
    /\ UNCHANGED <<now, clientVars, armed, poll, taskNow, cur, client, calls>>

(* MsgTimerExpire pops the top, whatever its time ... *)
MsgTimerExpire ==
    /\ receive("expire")
    /\ taskNow' = now
    /\ \/ /\ heap # {}
          /\ TimerHeap!Pop
          /\ cur' = top
          /\ task' = "expire"
       \/ /\ heap = {}
          /\ UNCHANGED <<heap, top, cur, task>>
    /\ UNCHANGED <<now, clientVars, delegate, kernelVars, poll, client, calls>>

(* ... and LocTimerDelegate::expire copies mClient without the lock ...    *)
readClient ==
    /\ task = "expire"
    /\ client' = mClient[cur]
    /\ task' = IF client' = Nil THEN "next" ELSE "stop"
    /\ UNCHANGED <<now, clientVars, delegate, heap, top, kernelVars, queue, poll>>
    /\ UNCHANGED <<taskNow, cur, calls>>

(* Mutant: the callback is made whatever stop() returns. *)
stopClient_unchecked ==
    /\ task = "stop"
    /\ timer[client] = "live"
    /\ IF mTimer[client] # Nil
       THEN stopLocked(client) /\ cur' = mTimer[client]
       ELSE UNCHANGED <<mTimer, mClient, queue, cur>>
    /\ task' = "callback"
    /\ UNCHANGED <<now, timer, mFutureTime, cancelled, delegate, heap, top, kernelVars>>
    /\ UNCHANGED <<poll, taskNow, client, calls>>

(* ... calls the client's stop(), which may find the client deleted, not   *)
(* running, or running with another delegate than the one that expired ... *)
stopClient ==
    /\ task = "stop"
    /\ \/ /\ timer[client] = "deleted"
          /\ task' = "undefined"
          /\ UNCHANGED <<mTimer, mClient, queue, cur>>
       \/ /\ timer[client] = "live" /\ mTimer[client] = Nil
          /\ task' = "next"
          /\ UNCHANGED <<mTimer, mClient, queue, cur>>
       \/ /\ timer[client] = "live" /\ mTimer[client] # Nil
          /\ stopLocked(client)
          /\ cur' = mTimer[client]
          /\ task' = "callback"
    /\ UNCHANGED <<now, timer, mFutureTime, cancelled, delegate, heap, top, kernelVars>>
    /\ UNCHANGED <<poll, taskNow, client, calls>>

(* ... and its callback, if it was running. *)
timeOutCallback ==
    /\ task = "callback"
    /\ \/ /\ timer[client] = "deleted"
          /\ task' = "undefined"
          /\ UNCHANGED calls
       \/ /\ timer[client] = "live"
          /\ calls' = [calls EXCEPT ![cur] = @ + 1]
          /\ task' = "next"
    /\ UNCHANGED <<now, clientVars, delegate, heap, top, kernelVars, queue, poll>>
    /\ UNCHANGED <<taskNow, cur, client>>

(* popIfOutRanks: go on with the next delegate that is due, or have the    *)
(* kernel told of the top that is left.                                    *)
nextDue ==
    /\ task = "next"
    /\ \/ /\ heap # {} /\ mFutureTime[top] <= taskNow
          /\ TimerHeap!Pop
          /\ cur' = top
          /\ task' = "expire"
          /\ UNCHANGED polled
       \/ /\ heap # {} => mFutureTime[top] > taskNow
          /\ updateSoonestTime(Nil, top)
          /\ cur' = Nil
          /\ UNCHANGED <<heap, top>>
    /\ client' = Nil
    /\ UNCHANGED <<now, clientVars, delegate, armed, queue, poll, taskNow, calls>>

Client == \E t \in Timers :
            stop(t) \/ deleteTimer(t) \/ \E delay \in Delays : start(t, delay)

PollTask == pollWakes \/ pollDisarms \/ pollRemoves \/ pollPosts

MsgTask ==
    \/ MsgTimerPush \/ MsgTimerRemove \/ MsgTimerExpire
    \/ readClient \/ stopClient \/ timeOutCallback \/ nextDue \/ setTime

TimerNext == Tick \/ Client \/ PollTask \/ MsgTask

TimerSpec == TimerInit /\ [][TimerNext]_timerVars

(* Time passes and both threads of the service run. *)
TimerFairSpec == TimerSpec /\ WF_timerVars(Tick) /\ WF_timerVars(PollTask) /\ WF_timerVars(MsgTask)
-----------------------------------------------------------------------------
(* The type invariant. *)
TimerTypeOK ==
    /\ now \in 0..MaxTime
    /\ timer \in [Timers -> {"live", "deleted"}]
    /\ mTimer \in [Timers -> Delegates \cup {Nil}]
    /\ mClient \in [Delegates -> Timers \cup {Nil}]
    /\ mFutureTime \in [Delegates -> 0..MaxTime]
    /\ delegate \in [Delegates -> {"unborn", "live", "deleted"}]
    /\ heap \subseteq Delegates
    /\ top \in Delegates \cup {Nil}
    /\ polled \in BOOLEAN
    /\ armed \in 0..MaxTime \cup {Nil}
    /\ queue \in Seq(Message)
    /\ poll \in {"wait", "disarm", "remove", "post"}
    /\ task \in {"idle", "arm", "disarm", "expire", "stop", "callback", "next", "undefined"}
    /\ taskNow \in 0..MaxTime
    /\ cur \in Delegates \cup {Nil}
    /\ client \in Timers \cup {Nil}
    /\ cancelled \subseteq Delegates
    /\ calls \in [Delegates -> 0..1]

Posted(type, d) == {i \in 1..Len(queue) : queue[i] = [type |-> type, d |-> d]}

(* Delegates are deleted once and not before everybody has let go of them: *)
(* the client, the heap, the handler and the messages; and a delegate that *)
(* nobody will ask to remove again is one that its client still runs.      *)
DelegatesSafe ==
    /\ TimerTypeOK
    /\ \A d \in heap : delegate[d] = "live"
    /\ \A t \in Timers : mTimer[t] # Nil =>
         delegate[mTimer[t]] = "live" /\ mClient[mTimer[t]] = t
    /\ task = "expire" => delegate[cur] = "live"
    /\ \A i \in 1..Len(queue) : queue[i].d # Nil => delegate[queue[i].d] = "live"
    /\ \A d \in Delegates : delegate[d] = "live" =>
         \/ mClient[d] # Nil /\ mTimer[mClient[d]] = d /\ Posted("remove", d) = {}
         \/ mClient[d] = Nil /\ \E i \in Posted("remove", d) :
              Posted("remove", d) = {i} /\ \A j \in Posted("push", d) : j < i

(* While there is a timer in the heap, the kernel will wake the poll       *)
(* thread in time for the top one, or the poll thread or the message task  *)
(* is about to look at the heap again.  The poll thread disarms the        *)
(* descriptor without a lock, so it can undo what the message task has     *)
(* just set; the message it posts afterwards makes up for that.            *)
SoonestIsArmed ==
    heap # {} =>
      \/ polled /\ armed # Nil /\ armed <= mFutureTime[top]
      \/ poll # "wait"
      \/ Posted("expire", Nil) # {}
      \/ task # "idle"

(* A client whose stop() returned true never gets that start's callback,   *)
(* although the message task may have popped the delegate already.         *)
StopCancels == \A d \in cancelled : calls[d] = 0

(* A timer that is started calls back, is stopped, or loses its client to  *)
(* a deletion.                                                             *)
EveryTimerFires ==
    \A d \in Delegates :
        delegate[d] = "live" ~>
            calls[d] = 1 \/ d \in cancelled \/ task = "undefined"

(* LocTimer.cpp, of destroyLocked(): the client handle is NULLed "so that  *)
(* expire() won't call the callback on the dead handle any more".          *)
NoDeadClient == task # "undefined"
=============================================================================
