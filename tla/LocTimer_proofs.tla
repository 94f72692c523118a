-------------------------- MODULE LocTimer_proofs --------------------------
(***************************************************************************)
(* Proofs about LocTimer.  Two facts carry them.  A delegate that lives    *)
(* has a client that points back at it and no message to remove it, or no  *)
(* client and one such message, the last that names it; hence nobody has a *)
(* delegate any more when it is deleted.  And the message task polls the   *)
(* descriptor before it arms it, while the poll thread posts a message     *)
(* after each time it has undone that.                                     *)
(***************************************************************************)
EXTENDS LocTimer, TLAPS

(* The messages of a queue about a delegate. *)
Says(q, i, type, d) == q[i].type = type /\ q[i].d = d
Silent(q, d) == \A i \in 1..Len(q) : q[i].d # d
NoPush(q, d) == \A i \in 1..Len(q) : ~Says(q, i, "push", d)
NoRemove(q, d) == \A i \in 1..Len(q) : ~Says(q, i, "remove", d)
OnePush(q, d) ==
    \A i, j \in 1..Len(q) : Says(q, i, "push", d) /\ Says(q, j, "push", d) => i = j

(* It is asked to be removed once, and nothing is said of it after that. *)
LastRemove(q, d) ==
    \E i \in 1..Len(q) :
        /\ Says(q, i, "remove", d)
        /\ \A j \in 1..Len(q) : Says(q, j, "remove", d) => j = i
        /\ \A j \in 1..Len(q) : Says(q, j, "push", d) => j < i

(* What the first queue says of a delegate, the second does. *)
SaysNoMore(q, r, d) ==
    /\ Silent(q, d) => Silent(r, d)
    /\ NoPush(q, d) => NoPush(r, d)
    /\ NoRemove(q, d) => NoRemove(r, d)
    /\ OnePush(q, d) => OnePush(r, d)
    /\ LastRemove(q, d) => LastRemove(r, d)

Tasks == {"idle", "arm", "disarm", "expire", "stop", "callback", "next", "undefined"}

(* The type invariant, but for the number of calls. *)
Types ==
    /\ now \in 0..MaxTime
    /\ timer \in [Timers -> {"live", "deleted"}]
    /\ mTimer \in [Timers -> Delegates \cup {Nil}]
    /\ mClient \in [Delegates -> Timers \cup {Nil}]
    /\ mFutureTime \in [Delegates -> 0..MaxTime]
    /\ delegate \in [Delegates -> {"unborn", "live", "deleted"}]
    /\ heap \subseteq Delegates
    /\ top \in Delegates \cup {Nil}
    /\ polled \in BOOLEAN
    /\ armed \in 0..MaxTime \cup {Nil}
    /\ queue \in Seq(Message)
    /\ poll \in {"wait", "disarm", "remove", "post"}
    /\ task \in Tasks
    /\ taskNow \in 0..MaxTime
    /\ cur \in Delegates \cup {Nil}
    /\ client \in Timers \cup {Nil}
    /\ cancelled \subseteq Delegates
    /\ calls \in [Delegates -> 0..1]

(* The top is in the heap, and no other timer of the heap is due before it. *)
TopIsSoonest ==
    /\ heap = {} => top = Nil
    /\ heap # {} => top \in heap
    /\ \A d \in heap : mFutureTime[top] <= mFutureTime[d]

(* What the message task works on. *)
Working ==
    /\ task = "arm" => heap # {}
    /\ task = "disarm" => heap = {}
    /\ task = "expire" => cur \in Delegates /\ delegate[cur] = "live"
    /\ task = "stop" => client \in Timers
    /\ task = "callback" =>
         /\ client \in Timers /\ cur \in Delegates
         /\ mClient[cur] = Nil /\ delegate[cur] = "live"
         /\ calls[cur] = 0 /\ cur \notin cancelled

(* Who has a delegate at each time of its life: its client and no message *)
(* to remove it, or one such message; the heap only after its push.        *)
Keeps(d) ==
    /\ OnePush(queue, d)
    /\ d \in heap => NoPush(queue, d)
    /\ mClient[d] # Nil => delegate[d] = "live" /\ mTimer[mClient[d]] = d
    /\ delegate[d] # "live" => Silent(queue, d)
    /\ delegate[d] = "live" /\ mClient[d] # Nil => NoRemove(queue, d)
    /\ delegate[d] = "live" /\ mClient[d] = Nil => LastRemove(queue, d)

Held ==
    /\ \A d \in heap : delegate[d] = "live"
    /\ \A t \in Timers : mTimer[t] # Nil => mClient[mTimer[t]] = t
    /\ \A d \in Delegates : Keeps(d)

(* A delegate calls back, or is cancelled, when it has lost its client. *)
Over ==
    \A d \in Delegates :
        /\ calls[d] = 1 => mClient[d] = Nil /\ delegate[d] # "unborn" /\ d \notin cancelled
        /\ d \in cancelled => mClient[d] = Nil /\ delegate[d] # "unborn"

(* An expiry is on its way, or what the message task polls stays polled. *)
Expiring == poll # "wait" \/ \E i \in 1..Len(queue) : queue[i].type = "expire"
Watched ==
    /\ task = "arm" => polled \/ Expiring
    /\ heap # {} =>
         \/ polled /\ armed # Nil /\ armed <= mFutureTime[top]
         \/ Expiring
         \/ task # "idle"

IInv == Types /\ TopIsSoonest /\ Working /\ Held /\ Over /\ Watched

-----------------------------------------------------------------------------
(* A message names a delegate if and only if it is no expiry. *)
LEMMA MessageType ==
    ASSUME NEW m \in Message
    PROVE  /\ m.type \in {"push", "remove", "expire"}
           /\ m.type = "expire" => m.d = Nil
           /\ m.type # "expire" => m.d \in Delegates
BY DEF Message

(* What a queue is after a message is posted. *)
LEMMA PostQueue ==
    ASSUME NEW q \in Seq(Message), NEW type, NEW d,
           [type |-> type, d |-> d] \in Message,
           NEW r, r = Append(q, [type |-> type, d |-> d])
    PROVE  /\ r \in Seq(Message)
           /\ Len(r) = Len(q) + 1
           /\ Len(q) \in Nat
           /\ \A i \in 1..Len(q) : r[i] = q[i]
           /\ r[Len(r)].type = type /\ r[Len(r)].d = d
OBVIOUS

(* What a queue is after its first message is taken. *)
LEMMA TakeQueue ==
    ASSUME NEW q \in Seq(Message), q # <<>>, NEW r, r = Tail(q)
    PROVE  /\ r \in Seq(Message)
           /\ Len(q) \in Nat \ {0}
           /\ Len(r) = Len(q) - 1
           /\ Head(q) = q[1] /\ q[1] \in Message
           /\ \A i \in 1..Len(r) : r[i] = q[i + 1] /\ i + 1 \in 1..Len(q)
           /\ \A i \in 1..Len(q) : i # 1 => i - 1 \in 1..Len(r) /\ r[i - 1] = q[i]
OBVIOUS

(* A message about nobody, or about another delegate, changes nothing for  *)
(* this one. *)
LEMMA PostOther ==
    ASSUME NEW q \in Seq(Message), NEW m \in Message, NEW r, r = Append(q, m),
           NEW d, m.d # d
    PROVE  SaysNoMore(q, r, d)
<1>1. /\ Len(r) = Len(q) + 1 /\ Len(q) \in Nat
      /\ \A i \in 1..Len(q) : r[i] = q[i]
      /\ r[Len(r)].d = m.d
  OBVIOUS
<1>2. \A i \in 1..Len(r) : r[i].d = d => i \in 1..Len(q) /\ r[i] = q[i]
  BY <1>1
<1>3. \A i \in 1..Len(q) : i \in 1..Len(r) /\ r[i] = q[i]
  BY <1>1
<1>4. Silent(q, d) => Silent(r, d)
  BY <1>2 DEF Silent
<1>5. NoPush(q, d) => NoPush(r, d)
  BY <1>2 DEF NoPush, Says
<1>6. NoRemove(q, d) => NoRemove(r, d)
  BY <1>2 DEF NoRemove, Says
<1>7. OnePush(q, d) => OnePush(r, d)
  BY <1>2 DEF OnePush, Says
<1>8. LastRemove(q, d) => LastRemove(r, d)
  BY <1>2, <1>3 DEF LastRemove, Says
<1> QED
  BY <1>4, <1>5, <1>6, <1>7, <1>8 DEF SaysNoMore

(* The first message about a delegate is its push. *)
LEMMA PostPush ==
    ASSUME NEW q \in Seq(Message), NEW d \in Delegates, Silent(q, d),
           NEW r, r = Append(q, [type |-> "push", d |-> d])
    PROVE  OnePush(r, d) /\ NoRemove(r, d)
<1>1. [type |-> "push", d |-> d] \in Message
  BY DEF Message
<1>2. /\ Len(r) = Len(q) + 1 /\ Len(q) \in Nat
      /\ \A i \in 1..Len(q) : r[i] = q[i]
      /\ r[Len(r)].type = "push"
  BY <1>1, PostQueue
<1>3. \A i \in 1..Len(r) : r[i].d = d => i = Len(r)
  BY <1>2 DEF Silent
<1> QED
  BY <1>2, <1>3 DEF OnePush, NoRemove, Says

(* The request to remove a delegate is the last message about it. *)
LEMMA PostRemove ==
    ASSUME NEW q \in Seq(Message), NEW d \in Delegates, NoRemove(q, d),
           NEW r, r = Append(q, [type |-> "remove", d |-> d])
    PROVE  /\ LastRemove(r, d)
           /\ OnePush(q, d) => OnePush(r, d)
           /\ NoPush(q, d) => NoPush(r, d)
<1>1. [type |-> "remove", d |-> d] \in Message
  BY DEF Message
<1>2. /\ Len(r) = Len(q) + 1 /\ Len(q) \in Nat
      /\ \A i \in 1..Len(q) : r[i] = q[i]
      /\ r[Len(r)].type = "remove" /\ r[Len(r)].d = d
  BY <1>1, PostQueue
<1>3. \A i \in 1..Len(r) : Says(r, i, "remove", d) => i = Len(r)
  BY <1>2 DEF NoRemove, Says
<1>4. \A i \in 1..Len(r) : Says(r, i, "push", d) =>
        i < Len(r) /\ i \in 1..Len(q) /\ Says(q, i, "push", d)
  BY <1>2 DEF Says
<1>5. LastRemove(r, d)
  <2>1. Len(r) \in 1..Len(r) /\ Says(r, Len(r), "remove", d)
    BY <1>2 DEF Says
  <2> QED
    BY <2>1, <1>3, <1>4 DEF LastRemove
<1>6. OnePush(q, d) => OnePush(r, d)
  BY <1>4 DEF OnePush
<1>7. NoPush(q, d) => NoPush(r, d)
  BY <1>4 DEF NoPush
<1> QED
  BY <1>5, <1>6, <1>7

(* Taking a message makes no new ones. *)
LEMMA TakeAny ==
    ASSUME NEW q \in Seq(Message), q # <<>>, NEW r, r = Tail(q), NEW d
    PROVE  /\ Silent(q, d) => Silent(r, d)
           /\ NoPush(q, d) => NoPush(r, d)
           /\ NoRemove(q, d) => NoRemove(r, d)
           /\ OnePush(q, d) => OnePush(r, d)
           /\ LastRemove(q, d) /\ ~Says(q, 1, "remove", d) => LastRemove(r, d)
<1>1. /\ Len(q) \in Nat \ {0} /\ Len(r) = Len(q) - 1
      /\ \A i \in 1..Len(r) : r[i] = q[i + 1] /\ i + 1 \in 1..Len(q)
      /\ \A i \in 1..Len(q) : i # 1 => i - 1 \in 1..Len(r) /\ r[i - 1] = q[i]
  BY TakeQueue
<1>2. Silent(q, d) => Silent(r, d)
  BY <1>1 DEF Silent
<1>3. NoPush(q, d) => NoPush(r, d)
  BY <1>1 DEF NoPush, Says
<1>4. NoRemove(q, d) => NoRemove(r, d)
  BY <1>1 DEF NoRemove, Says
<1>5. OnePush(q, d) => OnePush(r, d)
  <2> SUFFICES ASSUME OnePush(q, d), NEW i \in 1..Len(r), NEW j \in 1..Len(r),
                      Says(r, i, "push", d), Says(r, j, "push", d)
               PROVE  i = j
    BY DEF OnePush
  <2>1. Says(q, i + 1, "push", d) /\ Says(q, j + 1, "push", d)
    BY <1>1 DEF Says
  <2>2. i + 1 \in 1..Len(q) /\ j + 1 \in 1..Len(q)
    BY <1>1
  <2>3. i + 1 = j + 1
    BY <2>1, <2>2 DEF OnePush
  <2> QED
    BY <2>3
<1>6. ASSUME LastRemove(q, d), ~Says(q, 1, "remove", d) PROVE LastRemove(r, d)
  <2>1. PICK i \in 1..Len(q) :
          /\ Says(q, i, "remove", d)
          /\ \A j \in 1..Len(q) : Says(q, j, "remove", d) => j = i
          /\ \A j \in 1..Len(q) : Says(q, j, "push", d) => j < i
    BY <1>6 DEF LastRemove
  <2>2. i - 1 \in 1..Len(r) /\ Says(r, i - 1, "remove", d)
    BY <2>1, <1>6, <1>1 DEF Says
  <2>3. ASSUME NEW j \in 1..Len(r)
        PROVE  /\ Says(r, j, "remove", d) => j = i - 1
               /\ Says(r, j, "push", d) => j < i - 1
    <3>1. j + 1 \in 1..Len(q) /\ r[j] = q[j + 1]
      BY <1>1
    <3>2. Says(r, j, "remove", d) => j + 1 = i
      BY <3>1, <2>1 DEF Says
    <3>3. Says(r, j, "push", d) => j + 1 < i
      BY <3>1, <2>1 DEF Says
    <3> QED
      BY <3>2, <3>3
  <2> QED
    BY <2>2, <2>3 DEF LastRemove
<1> QED
  BY <1>2, <1>3, <1>4, <1>5, <1>6

(* Its push was the only one. *)
LEMMA TakePush ==
    ASSUME NEW q \in Seq(Message), q # <<>>, NEW r, r = Tail(q), NEW d,
           OnePush(q, d), Says(q, 1, "push", d)
    PROVE  NoPush(r, d)
<1>1. /\ Len(q) \in Nat \ {0}
      /\ \A i \in 1..Len(r) : r[i] = q[i + 1] /\ i + 1 \in 1..Len(q)
  BY TakeQueue
<1> SUFFICES ASSUME NEW i \in 1..Len(r), Says(r, i, "push", d) PROVE FALSE
  BY DEF NoPush
<1>2. Says(q, i + 1, "push", d) /\ i + 1 \in 1..Len(q)
  BY <1>1 DEF Says
<1>3. i + 1 = 1
  BY <1>1, <1>2 DEF OnePush
<1>4. Len(r) \in Nat
  BY TakeQueue
<1> QED
  BY <1>3, <1>4

(* Nothing is said of a delegate after the request to remove it. *)
LEMMA TakeRemove ==
    ASSUME NEW q \in Seq(Message), q # <<>>, NEW r, r = Tail(q), NEW d \in Delegates,
           LastRemove(q, d), Says(q, 1, "remove", d)
    PROVE  Silent(r, d)
<1>1. /\ Len(q) \in Nat \ {0} /\ Len(r) = Len(q) - 1
      /\ \A i \in 1..Len(r) : r[i] = q[i + 1] /\ i + 1 \in 1..Len(q)
  BY TakeQueue
<1>2. PICK k \in 1..Len(q) :
        /\ \A j \in 1..Len(q) : Says(q, j, "remove", d) => j = k
        /\ \A j \in 1..Len(q) : Says(q, j, "push", d) => j < k
  BY DEF LastRemove
<1>3. k = 1
  BY <1>1, <1>2
<1> SUFFICES ASSUME NEW i \in 1..Len(r), r[i].d = d PROVE FALSE
  BY DEF Silent
<1>4. i + 1 \in 1..Len(q) /\ q[i + 1].d = d
  BY <1>1
<1>5. q[i + 1] \in Message
  BY <1>4
<1>6. q[i + 1].type \in {"push", "remove"}
  BY <1>4, <1>5, MessageType, NullIsNoDelegate
<1>7. Says(q, i + 1, "push", d) \/ Says(q, i + 1, "remove", d)
  BY <1>4, <1>6 DEF Says
<1>8. i + 1 <= 1
  BY <1>2, <1>3, <1>4, <1>7
<1> QED
  BY <1>1, <1>8

-----------------------------------------------------------------------------
(* What the heap's operations do to the top. *)
LEMMA HeapPush ==
    ASSUME Types, TopIsSoonest, NEW d \in Delegates, TimerHeap!Push(d), mFutureTime' = mFutureTime
    PROVE  /\ d \notin heap /\ heap' = heap \cup {d} /\ top' \in heap'
           /\ \A e \in heap' : mFutureTime'[top'] <= mFutureTime'[e]
           /\ heap # {} /\ top' # top => mFutureTime[top'] < mFutureTime[top]
<1> DEFINE rank == [e \in Delegates |-> 0 - mFutureTime[e]]
<1>1. /\ d \notin heap /\ heap' = heap \cup {d}
      /\ top' = IF heap = {} THEN d ELSE IF rank[d] > rank[top] THEN d ELSE top
  BY DEF TimerHeap!Push
<1>2. heap # {} => top \in heap /\ \A e \in heap : mFutureTime[top] <= mFutureTime[e]
  BY DEF TopIsSoonest
<1>3. \A e \in Delegates : mFutureTime[e] \in Nat /\ rank[e] = 0 - mFutureTime[e]
  BY DelaysNat DEF Types
<1>4. heap \subseteq Delegates
  BY DEF Types
<1> HIDE DEF rank
<1>5. CASE heap = {}
  BY <1>1, <1>3, <1>5
<1>6. CASE heap # {} /\ rank[d] > rank[top]
  <2>1. top' = d /\ mFutureTime[d] < mFutureTime[top]
    BY <1>1, <1>2, <1>3, <1>4, <1>6
  <2> QED
    BY <2>1, <1>1, <1>2, <1>3, <1>4, <1>6
<1>7. CASE heap # {} /\ ~(rank[d] > rank[top])
  <2>1. top' = top /\ mFutureTime[top] <= mFutureTime[d]
    BY <1>1, <1>2, <1>3, <1>4, <1>7
  <2> QED
    BY <2>1, <1>1, <1>2, <1>3, <1>4, <1>7
<1> QED
  BY <1>5, <1>6, <1>7

(* The one that succeeds a popped top is due no later than the others. *)
LEMMA HeapPop ==
    ASSUME Types, TopIsSoonest, TimerHeap!Pop, mFutureTime' = mFutureTime
    PROVE  /\ top \in heap /\ heap' = heap \ {top}
           /\ TopIsSoonest'
<1> DEFINE rank == [e \in Delegates |-> 0 - mFutureTime[e]]
<1>1. /\ heap # {} /\ heap' = heap \ {top}
      /\ heap' = {} => top' = Nil
      /\ heap' # {} => top' \in heap' /\ \A e \in heap' : rank[top'] >= rank[e]
  BY DEF TimerHeap!Pop, TimerHeap!TopOf, TimerHeap!Highest
<1>2. top \in heap
  BY <1>1 DEF TopIsSoonest
<1>3. \A e \in Delegates : mFutureTime[e] \in Nat /\ rank[e] = 0 - mFutureTime[e]
  BY DelaysNat DEF Types
<1>4. heap' \subseteq Delegates
  BY <1>1 DEF Types
<1> HIDE DEF rank
<1>5. \A e \in heap' : mFutureTime'[top'] <= mFutureTime'[e]
  BY <1>1, <1>3, <1>4
<1> QED
  BY <1>1, <1>2, <1>5 DEF TopIsSoonest

(* Removing leaves the top where it is unless it is the one removed. *)
LEMMA HeapRemove ==
    ASSUME Types, TopIsSoonest, NEW d \in Delegates, TimerHeap!Remove(d), mFutureTime' = mFutureTime
    PROVE  /\ heap' = heap \ {d}
           /\ TopIsSoonest'
           /\ d # top => top' = top
<1>1. CASE d = top /\ TimerHeap!Pop
  BY <1>1, HeapPop
<1>2. CASE d # top /\ heap' = heap \ {d} /\ UNCHANGED top
  <2>1. heap' # {} => top \in heap'
    BY <1>2 DEF TopIsSoonest
  <2>2. heap' = {} => top = Nil
    BY <1>2, <2>1, NullIsNoDelegate DEF TopIsSoonest
  <2> QED
    BY <1>2, <2>1, <2>2 DEF TopIsSoonest
<1> QED
  BY <1>1, <1>2 DEF TimerHeap!Remove

(* updateSoonestTime arms the descriptor only for a top, and polls it then. *)
LEMMA Update ==
    ASSUME NEW priorTop, NEW curTop, polled \in BOOLEAN, updateSoonestTime(priorTop, curTop)
    PROVE  /\ task' \in {"idle", "arm", "disarm"} /\ polled' \in BOOLEAN
           /\ task' = "arm" => curTop # Nil /\ polled'
           /\ task' = "disarm" => curTop = Nil
           /\ task' = "idle" => polled' = polled
           /\ task' = "idle" /\ curTop # Nil /\ curTop # priorTop =>
                priorTop # Nil /\ ~(mFutureTime[curTop] < mFutureTime[priorTop])
BY DEF updateSoonestTime

(* What the message task takes from the queue. *)
LEMMA Received ==
    ASSUME Types, NEW type \in {"push", "remove", "expire"}, receive(type)
    PROVE  /\ queue' \in Seq(Message) /\ Head(queue) = queue[1]
           /\ queue # <<>> /\ queue' = Tail(queue) /\ task = "idle"
           /\ queue[1].type = type
           /\ type # "expire" => queue[1].d \in Delegates
           /\ type = "expire" => queue[1].d = Nil
<1>1. queue \in Seq(Message) /\ queue # <<>> /\ queue' = Tail(queue) /\ Head(queue).type = type
  BY DEF Types, receive
<1>2. Head(queue) = queue[1] /\ queue[1] \in Message /\ queue' \in Seq(Message)
  BY <1>1, TakeQueue
<1> QED
  BY <1>1, <1>2, MessageType DEF receive

(* Every step keeps the variables well typed; that a delegate calls back   *)
(* at most once is what Working says of the callback.                      *)
LEMMA StepTypes == IInv /\ [TimerNext]_timerVars => Types'
<1> SUFFICES ASSUME IInv, [TimerNext]_timerVars PROVE Types'
  OBVIOUS
<1> USE DEF Tasks
<1>0. Types /\ Working /\ TopIsSoonest /\ Over
  BY DEF IInv
<1>1. CASE Tick
  <2>1. now' \in 0..MaxTime
    BY <1>0, <1>1, DelaysNat DEF Types, Tick
  <2> QED
    BY <1>0, <1>1, <2>1 DEF Types, Tick, clientVars, kernelVars, taskVars
<1>2. ASSUME NEW t \in Timers, NEW delay \in Delays, start(t, delay) PROVE Types'
  <2>1. PICK d \in Delegates :
          /\ delegate' = [delegate EXCEPT ![d] = "live"]
          /\ mTimer' = [mTimer EXCEPT ![t] = d]
          /\ mClient' = [mClient EXCEPT ![d] = t]
          /\ mFutureTime' = [mFutureTime EXCEPT ![d] = now + delay]
          /\ Post("push", d)
    BY <1>2 DEF start
  <2>2. [type |-> "push", d |-> d] \in Message
    BY DEF Message
  <2>3. queue' \in Seq(Message)
    BY <1>0, <2>1, <2>2 DEF Types, Post
  <2>4. now + delay \in 0..MaxTime
    BY <1>0, <1>2, DelaysNat DEF Types, start
  <2>5. /\ delegate' \in [Delegates -> {"unborn", "live", "deleted"}]
        /\ mTimer' \in [Timers -> Delegates \cup {Nil}]
        /\ mClient' \in [Delegates -> Timers \cup {Nil}]
        /\ mFutureTime' \in [Delegates -> 0..MaxTime]
    BY <1>0, <2>1, <2>4 DEF Types
  <2> QED
    BY <1>0, <1>2, <2>3, <2>5 DEF Types, start, kernelVars, taskVars
<1>3. ASSUME NEW t \in Timers, mTimer[t] # Nil, stopLocked(t)
      PROVE  /\ mTimer' \in [Timers -> Delegates \cup {Nil}]
             /\ mClient' \in [Delegates -> Timers \cup {Nil}]
             /\ queue' \in Seq(Message)
             /\ mTimer[t] \in Delegates
  <2>1. mTimer[t] \in Delegates
    BY <1>0, <1>3 DEF Types
  <2>2. [type |-> "remove", d |-> mTimer[t]] \in Message
    BY <2>1 DEF Message
  <2>3. queue' \in Seq(Message)
    BY <1>0, <1>3, <2>2 DEF Types, Post, stopLocked
  <2> QED
    BY <1>0, <1>3, <2>1, <2>3 DEF Types, stopLocked
<1>4. ASSUME NEW t \in Timers, stop(t) PROVE Types'
  <2>1. cancelled' \subseteq Delegates
    BY <1>0, <1>3, <1>4 DEF Types, stop
  <2> QED
    BY <1>0, <1>3, <1>4, <2>1 DEF Types, stop, kernelVars, taskVars
<1>5. ASSUME NEW t \in Timers, deleteTimer(t) PROVE Types'
  BY <1>0, <1>5 DEF Types, deleteTimer, kernelVars, taskVars
<1>6. CASE pollWakes
  BY <1>0, <1>6 DEF Types, pollWakes, clientVars, kernelVars, taskVars
<1>7. CASE pollDisarms
  BY <1>0, <1>7 DEF Types, pollDisarms, clientVars, taskVars
<1>8. CASE pollRemoves
  BY <1>0, <1>8 DEF Types, pollRemoves, clientVars, taskVars
<1>9. CASE pollPosts
  <2>1. [type |-> "expire", d |-> Nil] \in Message
    BY DEF Message
  <2>2. queue' \in Seq(Message)
    BY <1>0, <1>9, <2>1 DEF Types, pollPosts, Post
  <2> QED
    BY <1>0, <1>9, <2>2 DEF Types, pollPosts, clientVars, kernelVars, taskVars
<1>10. CASE MsgTimerPush
  <2>1. queue' \in Seq(Message) /\ Head(queue).d \in Delegates
    BY <1>0, <1>10, Received DEF MsgTimerPush
  <2>2. heap' \subseteq Delegates /\ top' \in Delegates
    BY <1>0, <1>10, <2>1, HeapPush DEF MsgTimerPush, clientVars, Types
  <2>3. task' \in {"idle", "arm", "disarm"} /\ polled' \in BOOLEAN
    BY <1>0, <1>10, Update DEF MsgTimerPush, Types
  <2> QED
    BY <1>0, <1>10, <2>1, <2>2, <2>3 DEF Types, MsgTimerPush, clientVars
<1>11. CASE MsgTimerRemove
  <2>1. queue' \in Seq(Message) /\ Head(queue).d \in Delegates
    BY <1>0, <1>11, Received DEF MsgTimerRemove
  <2>2. heap' \subseteq Delegates /\ TopIsSoonest'
    BY <1>0, <1>11, <2>1, HeapRemove DEF MsgTimerRemove, clientVars, Types
  <2>3. top' \in Delegates \cup {Nil}
    BY <2>2 DEF TopIsSoonest
  <2>4. task' \in Tasks /\ polled' \in BOOLEAN
    BY <1>0, <1>11, Update DEF MsgTimerRemove, Types
  <2>5. delegate' \in [Delegates -> {"unborn", "live", "deleted"}]
    BY <1>0, <1>11, <2>1 DEF MsgTimerRemove, Types
  <2> QED
    BY <1>0, <1>11, <2>1, <2>2, <2>3, <2>4, <2>5 DEF Types, MsgTimerRemove, clientVars
<1>12. TimerHeap!Pop /\ mFutureTime' = mFutureTime =>
         heap' \subseteq Delegates /\ top' \in Delegates \cup {Nil} /\ top \in Delegates
  BY <1>0, HeapPop DEF Types, TopIsSoonest
<1>13. CASE MsgTimerExpire
  <2>1. queue' \in Seq(Message)
    BY <1>0, <1>13, Received DEF MsgTimerExpire
  <2>2. heap' \subseteq Delegates /\ top' \in Delegates \cup {Nil}
        /\ cur' \in Delegates \cup {Nil} /\ task' \in Tasks
    BY <1>0, <1>12, <1>13 DEF MsgTimerExpire, clientVars, Types
  <2> QED
    BY <1>0, <1>13, <2>1, <2>2 DEF Types, MsgTimerExpire, clientVars, kernelVars
<1>14. CASE readClient
  BY <1>0, <1>14 DEF Types, Working, readClient, clientVars, kernelVars
<1>15. CASE stopClient
  <2>1. client \in Timers
    BY <1>0, <1>15 DEF Working, stopClient
  <2>2. /\ mTimer' \in [Timers -> Delegates \cup {Nil}]
        /\ mClient' \in [Delegates -> Timers \cup {Nil}]
        /\ queue' \in Seq(Message)
        /\ cur' \in Delegates \cup {Nil}
        /\ task' \in Tasks
    BY <1>0, <1>3, <1>15, <2>1 DEF Types, stopClient
  <2> QED
    BY <1>0, <1>15, <2>2 DEF Types, stopClient, kernelVars
<1>16. CASE timeOutCallback
  <2>1. cur \in Delegates /\ calls[cur] = 0
    BY <1>0, <1>16 DEF Working, timeOutCallback
  <2>2. calls' \in [Delegates -> 0..1]
    <3>1. calls \in [Delegates -> 0..1]
      BY <1>0 DEF Types
    <3>2. calls' = calls \/ calls' = [calls EXCEPT ![cur] = @ + 1]
      BY <1>16 DEF timeOutCallback
    <3>3. [calls EXCEPT ![cur] = @ + 1] = [calls EXCEPT ![cur] = 1]
      BY <2>1, <3>1
    <3> QED
      BY <2>1, <3>1, <3>2, <3>3
  <2> QED
    BY <1>0, <1>16, <2>2 DEF Types, timeOutCallback, clientVars, kernelVars
<1>17. CASE nextDue
  <2>1. /\ heap' \subseteq Delegates /\ top' \in Delegates \cup {Nil}
        /\ cur' \in Delegates \cup {Nil} /\ task' \in Tasks /\ polled' \in BOOLEAN
    BY <1>0, <1>12, <1>17, Update DEF nextDue, clientVars, Types
  <2> QED
    BY <1>0, <1>17, <2>1 DEF Types, nextDue, clientVars
<1>18. CASE setTime
  <2>1. armed' \in 0..MaxTime \cup {Nil}
    BY <1>0, <1>18 DEF Types, Working, TopIsSoonest, setTime
  <2> QED
    BY <1>0, <1>18, <2>1 DEF Types, setTime, clientVars
<1>19. CASE UNCHANGED timerVars
  BY <1>0, <1>19 DEF Types, timerVars, clientVars, kernelVars, taskVars
<1> QED
  BY <1>1, <1>2, <1>4, <1>5, <1>6, <1>7, <1>8, <1>9, <1>10, <1>11, <1>13, <1>14, <1>15,
     <1>16, <1>17, <1>18, <1>19 DEF TimerNext, Client, PollTask, MsgTask

(* A timer that is started is not in the heap yet. *)
LEMMA StepTop == IInv /\ [TimerNext]_timerVars => TopIsSoonest'
<1> SUFFICES ASSUME IInv, [TimerNext]_timerVars PROVE TopIsSoonest'
  OBVIOUS
<1>0. Types /\ TopIsSoonest /\ Held
  BY DEF IInv
<1>1. CASE UNCHANGED <<heap, top, mFutureTime>>
  BY <1>0, <1>1 DEF TopIsSoonest
<1>2. ASSUME NEW t \in Timers, NEW delay \in Delays, start(t, delay) PROVE TopIsSoonest'
  <2>1. PICK d \in Delegates :
          /\ delegate[d] = "unborn"
          /\ mFutureTime' = [mFutureTime EXCEPT ![d] = now + delay]
    BY <1>2 DEF start
  <2>2. d \notin heap
    BY <1>0, <2>1 DEF Held
  <2>3. \A e \in heap : mFutureTime'[e] = mFutureTime[e]
    BY <1>0, <2>1, <2>2 DEF Types
  <2>4. heap' = heap /\ top' = top
    BY <1>2 DEF start
  <2> QED
    BY <1>0, <2>3, <2>4 DEF TopIsSoonest
<1>3. CASE MsgTimerPush
  <2>1. Head(queue).d \in Delegates
    BY <1>0, <1>3, Received DEF MsgTimerPush
  <2>2. heap' # {} /\ top' \in heap' /\ \A e \in heap' : mFutureTime'[top'] <= mFutureTime'[e]
    BY <1>0, <1>3, <2>1, HeapPush DEF MsgTimerPush, clientVars
  <2> QED
    BY <2>2 DEF TopIsSoonest
<1>4. CASE MsgTimerRemove
  <2>1. Head(queue).d \in Delegates
    BY <1>0, <1>4, Received DEF MsgTimerRemove
  <2> QED
    BY <1>0, <1>4, <2>1, HeapRemove DEF MsgTimerRemove, clientVars
<1>5. CASE TimerHeap!Pop /\ mFutureTime' = mFutureTime
  BY <1>0, <1>5, HeapPop
<1>6. CASE MsgTimerExpire
  BY <1>1, <1>5, <1>6 DEF MsgTimerExpire, clientVars
<1>7. CASE nextDue
  BY <1>1, <1>5, <1>7 DEF nextDue, clientVars
<1> QED
  BY <1>1, <1>2, <1>3, <1>4, <1>6, <1>7 DEF TimerNext, Client, PollTask, MsgTask, Tick, stop, deleteTimer, pollWakes, pollDisarms,
     pollRemoves, pollPosts, readClient, stopClient, timeOutCallback, setTime,
     timerVars, clientVars

(* The message task works on delegates that live, and calls back only for  *)
(* one that its client neither stopped nor was called for. *)
LEMMA StepWorking == IInv /\ [TimerNext]_timerVars => Working'
<1> SUFFICES ASSUME IInv, [TimerNext]_timerVars PROVE Working'
  OBVIOUS
<1>0. Types /\ TopIsSoonest /\ Working /\ Held /\ Over /\ TopIsSoonest'
  BY StepTop DEF IInv
<1>1. ASSUME NEW t \in Timers, NEW delay \in Delays, start(t, delay) PROVE Working'
  <2>1. PICK d \in Delegates :
          /\ delegate[d] = "unborn"
          /\ delegate' = [delegate EXCEPT ![d] = "live"]
          /\ mClient' = [mClient EXCEPT ![d] = t]
    BY <1>1 DEF start
  <2>2. \A e \in Delegates : delegate[e] = "live" =>
          delegate'[e] = "live" /\ mClient'[e] = mClient[e]
    BY <1>0, <2>1 DEF Types
  <2> QED
    BY <1>0, <1>1, <2>2 DEF Working, start, taskVars
<1>2. ASSUME NEW t \in Timers, stop(t) PROVE Working'
  <2>1. mTimer[t] \in Delegates /\ mClient[mTimer[t]] = t /\ t # Nil
    BY <1>0, <1>2, NullIsNoDelegate DEF Types, Held, stop
  <2>2. mClient' = [mClient EXCEPT ![mTimer[t]] = Nil]
        /\ cancelled' = cancelled \cup {mTimer[t]}
    BY <1>2 DEF stop, stopLocked
  <2>3. \A e \in Delegates : mClient[e] = Nil =>
          mClient'[e] = Nil /\ (e \notin cancelled => e \notin cancelled')
    BY <1>0, <2>1, <2>2 DEF Types
  <2> QED
    BY <1>0, <1>2, <2>3 DEF Working, stop, taskVars
<1>3. CASE UNCHANGED <<heap, taskVars, delegate, mClient, calls, cancelled>>
  BY <1>0, <1>3 DEF Working, taskVars
<1>4. CASE task' \in {"idle", "arm", "disarm"} /\ (task' = "arm" => top' # Nil)
           /\ (task' = "disarm" => top' = Nil)
  <2>1. heap' \subseteq Delegates
    BY StepTypes DEF Types
  <2>2. (top' = Nil) <=> (heap' = {})
    BY <1>0, <2>1, NullIsNoDelegate DEF TopIsSoonest
  <2> QED
    BY <1>4, <2>2 DEF Working
<1>5. CASE MsgTimerPush
  BY <1>0, <1>4, <1>5, Update DEF MsgTimerPush, Types
<1>6. CASE MsgTimerRemove
  <2>1. task = "idle"
    BY <1>6 DEF MsgTimerRemove, receive
  <2>2. updateSoonestTime(Nil, top') \/ task' = task
    BY <1>6 DEF MsgTimerRemove
  <2> QED
    BY <1>0, <1>4, <2>1, <2>2, Update DEF Types
<1>7. ASSUME TimerHeap!Pop, cur' = top, task' = "expire", delegate' = delegate, mFutureTime' = mFutureTime
      PROVE  Working'
  <2>1. top \in heap
    BY <1>0, <1>7, HeapPop
  <2>2. top \in Delegates /\ delegate[top] = "live"
    BY <1>0, <2>1 DEF Types, Held
  <2> QED
    BY <1>7, <2>2 DEF Working
<1>8. CASE MsgTimerExpire
  BY <1>4, <1>7, <1>8 DEF MsgTimerExpire, clientVars, receive
<1>9. CASE nextDue
  BY <1>0, <1>4, <1>7, <1>9, Update DEF nextDue, clientVars, Types
<1>10. CASE readClient
  <2>1. cur \in Delegates /\ client' = mClient[cur]
    BY <1>0, <1>10 DEF Working, readClient
  <2> QED
    BY <1>0, <1>10, <2>1 DEF Working, Types, readClient
<1>11. CASE stopClient
  <2>1. client \in Timers /\ client' = client
    BY <1>0, <1>11 DEF Working, stopClient
  <2>2. CASE task' # "callback"
    BY <1>11, <2>2 DEF Working, stopClient
  <2>3. CASE task' = "callback"
    <3>1. mTimer[client] # Nil /\ stopLocked(client) /\ cur' = mTimer[client]
          /\ delegate' = delegate /\ calls' = calls /\ cancelled' = cancelled
      BY <1>11, <2>3 DEF stopClient
    <3>2. cur' \in Delegates /\ mClient[cur'] = client /\ client # Nil
      BY <1>0, <2>1, <3>1, NullIsNoDelegate DEF Types, Held
    <3>3. mClient'[cur'] = Nil
      BY <1>0, <3>1, <3>2 DEF Types, stopLocked
    <3>4. delegate[cur'] = "live" /\ calls[cur'] = 0 /\ cur' \notin cancelled
      BY <1>0, <3>2 DEF Types, Held, Keeps, Over
    <3> QED
      BY <2>1, <2>3, <3>1, <3>2, <3>3, <3>4 DEF Working
  <2> QED
    BY <2>2, <2>3
<1>12. CASE timeOutCallback
  BY <1>12 DEF Working, timeOutCallback
<1>13. CASE setTime
  BY <1>13 DEF Working, setTime
<1> QED
  BY <1>1, <1>2, <1>3, <1>5, <1>6, <1>8, <1>9, <1>10, <1>11, <1>12, <1>13
     DEF TimerNext, Client, PollTask, MsgTask, Tick, deleteTimer, pollWakes, pollDisarms,
         pollRemoves, pollPosts, timerVars, clientVars

-----------------------------------------------------------------------------
(* The critical section of stop() hands the delegate over from its client  *)
(* to the one message that removes it. *)
LEMMA StopHeld ==
    ASSUME Types, Held, NEW t \in Timers, mTimer[t] # Nil, stopLocked(t),
           heap' = heap, delegate' = delegate
    PROVE  Held'
<1>0. PICK d \in Delegates : d = mTimer[t]
  BY DEF Types
<1>1. mClient[d] = t /\ t # Nil
  BY <1>0, NullIsNoDelegate DEF Held
<1>2. /\ mTimer' = [mTimer EXCEPT ![t] = Nil]
      /\ mClient' = [mClient EXCEPT ![d] = Nil]
      /\ queue' = Append(queue, [type |-> "remove", d |-> d])
  BY <1>0 DEF stopLocked, Post
<1>3. queue \in Seq(Message) /\ [type |-> "remove", d |-> d] \in Message
  BY DEF Types, Message
<1>4. mClient'[d] = Nil /\ \A e \in Delegates : e # d => mClient'[e] = mClient[e]
  BY <1>2 DEF Types
<1>5. mTimer'[t] = Nil /\ \A u \in Timers : u # t => mTimer'[u] = mTimer[u]
  BY <1>2 DEF Types
<1>6. Keeps(d)
  BY DEF Held
<1>7. Keeps(d)'
  <2>1. delegate[d] = "live" /\ NoRemove(queue, d)
    BY <1>1, <1>6 DEF Keeps
  <2>2. LastRemove(queue', d) /\ OnePush(queue', d) /\ (d \in heap => NoPush(queue', d))
    BY <1>2, <1>3, <1>6, <2>1, PostRemove DEF Keeps
  <2> QED
    BY <1>4, <2>1, <2>2 DEF Keeps
<1>8. ASSUME NEW e \in Delegates, e # d PROVE Keeps(e)'
  <2>1. Keeps(e)
    BY DEF Held
  <2>2. mClient[e] # Nil => mClient[e] \in Timers /\ mTimer'[mClient[e]] = mTimer[mClient[e]]
    BY <1>0, <1>5, <1>8, <2>1 DEF Keeps, Types
  <2>3. SaysNoMore(queue, queue', e)
    <3>1. [type |-> "remove", d |-> d].d # e
      BY <1>8
    <3> QED
      BY <1>2, <1>3, <3>1, PostOther
  <2> QED
    BY <1>4, <1>8, <2>1, <2>2, <2>3 DEF Keeps, SaysNoMore
<1>9. ASSUME NEW u \in Timers, mTimer'[u] # Nil PROVE mClient'[mTimer'[u]] = u
  <2>1. u # t /\ mTimer'[u] = mTimer[u]
    BY <1>5, <1>9
  <2>2. mClient[mTimer[u]] = u /\ mTimer[u] \in Delegates
    BY <1>9, <2>1 DEF Held, Types
  <2> QED
    BY <1>1, <1>4, <2>1, <2>2
<1>10. \A e \in Delegates : Keeps(e)'
  BY <1>7, <1>8
<1> QED
  BY <1>9, <1>10 DEF Held

(* Every step leaves each delegate with somebody who will let go of it. *)
LEMMA StepHeld == IInv /\ [TimerNext]_timerVars => Held'
<1> SUFFICES ASSUME IInv, [TimerNext]_timerVars PROVE Held'
  OBVIOUS
<1>0. Types /\ TopIsSoonest /\ Held /\ Working
  BY DEF IInv
<1>1. CASE UNCHANGED <<mTimer, mClient, delegate, queue>> /\ heap' \subseteq heap
  <2>1. \A d \in Delegates : Keeps(d)'
    BY <1>0, <1>1 DEF Held, Keeps
  <2> QED
    BY <1>0, <1>1, <2>1 DEF Held
<1>2. ASSUME NEW t \in Timers, NEW delay \in Delays, start(t, delay) PROVE Held'
  <2>1. PICK d \in Delegates :
          /\ delegate[d] = "unborn"
          /\ delegate' = [delegate EXCEPT ![d] = "live"]
          /\ mTimer' = [mTimer EXCEPT ![t] = d]
          /\ mClient' = [mClient EXCEPT ![d] = t]
          /\ queue' = Append(queue, [type |-> "push", d |-> d])
    BY <1>2 DEF start, Post
  <2>2. t # Nil /\ mTimer[t] = Nil /\ heap' = heap
    BY <1>2, NullIsNoDelegate DEF start
  <2>3. queue \in Seq(Message) /\ [type |-> "push", d |-> d] \in Message
    BY <1>0 DEF Types, Message
  <2>4. Keeps(d) /\ d \notin heap
    BY <1>0, <2>1 DEF Held
  <2>5. delegate'[d] = "live" /\ mClient'[d] = t /\ mTimer'[t] = d
    BY <1>0, <2>1 DEF Types
  <2>6. Keeps(d)'
    <3>1. OnePush(queue', d) /\ NoRemove(queue', d)
      BY <2>1, <2>3, <2>4, PostPush DEF Keeps
    <3> QED
      BY <3>1, <2>2, <2>4, <2>5 DEF Keeps
  <2>7. ASSUME NEW e \in Delegates, e # d
        PROVE  Keeps(e)' /\ delegate'[e] = delegate[e] /\ mClient'[e] = mClient[e]
    <3>1. Keeps(e) /\ delegate'[e] = delegate[e] /\ mClient'[e] = mClient[e]
      BY <1>0, <2>1, <2>7 DEF Held, Types
    <3>2. mClient[e] # Nil => mTimer'[mClient[e]] = mTimer[mClient[e]]
      BY <1>0, <2>1, <2>2, <2>7, <3>1, NullIsNoDelegate DEF Keeps, Types
    <3>3. SaysNoMore(queue, queue', e)
      <4>1. [type |-> "push", d |-> d].d # e
        BY <2>7
      <4> QED
        BY <2>1, <2>3, <4>1, PostOther
    <3> QED
      BY <2>2, <3>1, <3>2, <3>3 DEF Keeps, SaysNoMore
  <2>8. ASSUME NEW u \in Timers, mTimer'[u] # Nil PROVE mClient'[mTimer'[u]] = u
    <3>1. CASE u = t
      BY <2>5, <3>1
    <3>2. CASE u # t
      <4>1. mTimer'[u] = mTimer[u] /\ mTimer[u] \in Delegates /\ mClient[mTimer[u]] = u
        BY <1>0, <2>1, <2>8, <3>2 DEF Types, Held
      <4>2. mTimer[u] # d
        BY <2>1, <2>4, <4>1, NullIsNoDelegate DEF Keeps
      <4> QED
        BY <2>7, <4>1, <4>2
    <3> QED
      BY <3>1, <3>2
  <2>9. \A e \in heap' : delegate'[e] = "live"
    BY <1>0, <2>2, <2>4, <2>7 DEF Held, Types
  <2> QED
    BY <2>6, <2>7, <2>8, <2>9 DEF Held
<1>3. ASSUME NEW t \in Timers, stop(t) PROVE Held'
  BY <1>0, <1>3, StopHeld DEF stop
<1>4. CASE pollPosts
  <2>1. queue' = Append(queue, [type |-> "expire", d |-> Nil])
    BY <1>4 DEF pollPosts, Post
  <2>2. queue \in Seq(Message) /\ [type |-> "expire", d |-> Nil] \in Message
    BY <1>0 DEF Types, Message
  <2>3. UNCHANGED <<mTimer, mClient, delegate, heap>>
    BY <1>4 DEF pollPosts, clientVars
  <2>4. \A d \in Delegates : [type |-> "expire", d |-> Nil].d # d
    BY NullIsNoDelegate
  <2>5. \A d \in Delegates : SaysNoMore(queue, queue', d)
    BY <2>1, <2>2, <2>4, PostOther
  <2>6. \A d \in Delegates : Keeps(d)'
    BY <1>0, <2>3, <2>5 DEF Held, Keeps, SaysNoMore
  <2> QED
    BY <1>0, <2>3, <2>6 DEF Held
<1>5. ASSUME NEW type \in {"push", "remove", "expire"}, receive(type)
      PROVE  /\ queue \in Seq(Message) /\ queue # <<>> /\ queue' = Tail(queue)
             /\ Head(queue) = queue[1] /\ queue[1].type = type
             /\ type # "expire" => queue[1].d \in Delegates
             /\ Len(queue) \in Nat \ {0}
  BY <1>0, <1>5, Received, TakeQueue DEF Types
<1>6. CASE MsgTimerPush
  <2>1. PICK d \in Delegates : d = queue[1].d
    BY <1>5, <1>6 DEF MsgTimerPush
  <2>2. TimerHeap!Push(d) /\ UNCHANGED <<mTimer, mClient, delegate, mFutureTime>>
    BY <1>5, <1>6, <2>1 DEF MsgTimerPush, clientVars
  <2>3. heap' = heap \cup {d}
    BY <1>0, <2>2, HeapPush
  <2>4. Says(queue, 1, "push", d) /\ 1 \in 1..Len(queue)
    BY <1>5, <1>6, <2>1 DEF MsgTimerPush, Says
  <2>5. Keeps(d)
    BY <1>0 DEF Held
  <2>6. delegate[d] = "live"
    BY <2>4, <2>5 DEF Keeps, Silent, Says
  <2>7. \A e \in Delegates : ~Says(queue, 1, "remove", e)
    BY <2>4 DEF Says
  <2>8. NoPush(queue', d)
    BY <1>5, <1>6, <2>4, <2>5, TakePush DEF MsgTimerPush, Keeps
  <2>9. \A e \in Delegates : Keeps(e)'
    BY <1>0, <1>5, <1>6, <2>2, <2>3, <2>7, <2>8, TakeAny DEF MsgTimerPush, Held, Keeps
  <2> QED
    BY <1>0, <2>2, <2>3, <2>6, <2>9 DEF Held
<1>7. CASE MsgTimerRemove
  <2>1. PICK d \in Delegates : d = queue[1].d
    BY <1>5, <1>7 DEF MsgTimerRemove
  <2>2. TimerHeap!Remove(d) /\ UNCHANGED <<mTimer, mClient, mFutureTime>>
        /\ delegate' = [delegate EXCEPT ![d] = "deleted"]
    BY <1>5, <1>7, <2>1 DEF MsgTimerRemove, clientVars
  <2>3. heap' = heap \ {d}
    BY <1>0, <2>2, HeapRemove
  <2>4. Says(queue, 1, "remove", d) /\ 1 \in 1..Len(queue)
    BY <1>5, <1>7, <2>1 DEF MsgTimerRemove, Says
  <2>5. Keeps(d)
    BY <1>0 DEF Held
  <2>6. mClient[d] = Nil /\ LastRemove(queue, d)
    BY <2>4, <2>5 DEF Keeps, Silent, Says, NoRemove
  <2>7. Keeps(d)'
    <3>1. Silent(queue', d) /\ OnePush(queue', d)
      BY <1>5, <1>7, <2>4, <2>5, <2>6, TakeRemove, TakeAny DEF MsgTimerRemove, Keeps
    <3>2. delegate'[d] = "deleted"
      BY <1>0, <2>2 DEF Types
    <3> QED
      BY <2>2, <2>3, <2>6, <3>1, <3>2 DEF Keeps
  <2>8. ASSUME NEW e \in Delegates, e # d PROVE Keeps(e)' /\ delegate'[e] = delegate[e]
    <3>1. delegate'[e] = delegate[e] /\ Keeps(e)
      BY <1>0, <2>2, <2>8 DEF Types, Held
    <3>2. ~Says(queue, 1, "remove", e)
      BY <2>1, <2>8 DEF Says
    <3> QED
      BY <1>5, <1>7, <2>2, <2>3, <3>1, <3>2, TakeAny DEF MsgTimerRemove, Keeps
  <2>9. \A e \in heap' : delegate'[e] = "live"
    BY <1>0, <2>3, <2>8 DEF Held, Types
  <2> QED
    BY <1>0, <2>2, <2>7, <2>8, <2>9 DEF Held
<1>8. CASE MsgTimerExpire
  <2>1. UNCHANGED <<mTimer, mClient, delegate, mFutureTime>>
    BY <1>8 DEF MsgTimerExpire, clientVars
  <2>2. heap' \subseteq heap
    BY <1>0, <1>8, <2>1, HeapPop DEF MsgTimerExpire
  <2>3. \A e \in Delegates : ~Says(queue, 1, "remove", e)
    BY <1>5, <1>8 DEF MsgTimerExpire, Says
  <2>4. \A e \in Delegates : Keeps(e)'
    BY <1>0, <1>5, <1>8, <2>1, <2>2, <2>3, TakeAny DEF MsgTimerExpire, Held, Keeps
  <2> QED
    BY <1>0, <2>1, <2>2, <2>4 DEF Held
<1>9. CASE stopClient
  <2>1. client \in Timers
    BY <1>0, <1>9 DEF Working, stopClient
  <2> QED
    BY <1>0, <1>1, <1>9, <2>1, StopHeld DEF stopClient
<1>10. CASE nextDue
  <2>1. heap' \subseteq heap
    BY <1>0, <1>10, HeapPop DEF nextDue, clientVars
  <2> QED
    BY <1>1, <1>10, <2>1 DEF nextDue, clientVars
<1> QED
  BY <1>1, <1>2, <1>3, <1>4, <1>6, <1>7, <1>8, <1>9, <1>10
     DEF TimerNext, Client, PollTask, MsgTask, Tick, deleteTimer, pollWakes, pollDisarms,
         pollRemoves, readClient, timeOutCallback, setTime, timerVars, clientVars

-----------------------------------------------------------------------------
(* A delegate is called for, or cancelled, once its client is off, and     *)
(* never both. *)
LEMMA StepOver == IInv /\ [TimerNext]_timerVars => Over'
<1> SUFFICES ASSUME IInv, [TimerNext]_timerVars PROVE Over'
  OBVIOUS
<1>0. Types /\ Held /\ Working /\ Over
  BY DEF IInv
<1>1. CASE UNCHANGED <<mClient, cancelled, delegate, calls>>
  BY <1>0, <1>1 DEF Over
<1>2. ASSUME NEW t \in Timers, NEW delay \in Delays, start(t, delay) PROVE Over'
  <2>1. PICK d \in Delegates :
          /\ delegate[d] = "unborn"
          /\ delegate' = [delegate EXCEPT ![d] = "live"]
          /\ mClient' = [mClient EXCEPT ![d] = t]
    BY <1>2 DEF start
  <2>2. calls[d] # 1 /\ d \notin cancelled
    BY <1>0, <2>1 DEF Over
  <2>3. UNCHANGED <<calls, cancelled>>
    BY <1>2 DEF start
  <2>4. \A e \in Delegates : e # d => mClient'[e] = mClient[e] /\ delegate'[e] = delegate[e]
    BY <1>0, <2>1 DEF Types
  <2> QED
    BY <1>0, <2>2, <2>3, <2>4 DEF Over
<1>3. ASSUME NEW t \in Timers, mTimer[t] # Nil, stopLocked(t)
      PROVE  /\ mTimer[t] \in Delegates /\ mClient'[mTimer[t]] = Nil
             /\ calls[mTimer[t]] # 1 /\ delegate[mTimer[t]] = "live"
             /\ \A e \in Delegates : e # mTimer[t] => mClient'[e] = mClient[e]
  <2>1. mTimer[t] \in Delegates /\ mClient[mTimer[t]] = t /\ t # Nil
    BY <1>0, <1>3, NullIsNoDelegate DEF Types, Held
  <2>2. mClient' = [mClient EXCEPT ![mTimer[t]] = Nil]
    BY <1>3 DEF stopLocked
  <2> QED
    BY <1>0, <2>1, <2>2 DEF Types, Held, Keeps, Over
<1>4. ASSUME NEW t \in Timers, stop(t) PROVE Over'
  <2>1. stopLocked(t) /\ mTimer[t] # Nil /\ cancelled' = cancelled \cup {mTimer[t]}
        /\ UNCHANGED <<delegate, calls>>
    BY <1>4 DEF stop
  <2> QED
    BY <1>0, <1>3, <2>1 DEF Over
<1>5. CASE MsgTimerRemove
  <2>1. PICK d \in Delegates : d = Head(queue).d
    BY <1>0, <1>5, Received DEF MsgTimerRemove
  <2>2. delegate' = [delegate EXCEPT ![d] = "deleted"] /\ UNCHANGED <<mClient, cancelled, calls>>
    BY <1>5, <2>1 DEF MsgTimerRemove, clientVars
  <2>3. \A e \in Delegates : delegate[e] # "unborn" => delegate'[e] # "unborn"
    BY <1>0, <2>2 DEF Types
  <2> QED
    BY <1>0, <2>2, <2>3 DEF Over
<1>6. CASE stopClient
  <2>1. client \in Timers
    BY <1>0, <1>6 DEF Working, stopClient
  <2>2. CASE UNCHANGED mClient
    BY <1>1, <1>6, <2>2 DEF stopClient
  <2>3. CASE mTimer[client] # Nil /\ stopLocked(client)
    <3>1. UNCHANGED <<delegate, calls, cancelled>>
      BY <1>6 DEF stopClient
    <3> QED
      BY <1>0, <1>3, <2>1, <2>3, <3>1 DEF Over
  <2> QED
    BY <1>6, <2>2, <2>3 DEF stopClient
<1>7. CASE timeOutCallback
  <2>1. /\ cur \in Delegates /\ mClient[cur] = Nil /\ delegate[cur] = "live"
        /\ cur \notin cancelled
    BY <1>0, <1>7 DEF Working, timeOutCallback
  <2>2. UNCHANGED <<mClient, delegate, cancelled>>
    BY <1>7 DEF timeOutCallback, clientVars
  <2>3. \A e \in Delegates : e # cur => calls'[e] = calls[e]
    BY <1>0, <1>7, <2>1 DEF Types, timeOutCallback
  <2> QED
    BY <1>0, <2>1, <2>2, <2>3 DEF Over
<1> QED
  BY <1>1, <1>2, <1>4, <1>5, <1>6, <1>7
     DEF TimerNext, Client, PollTask, MsgTask, Tick, deleteTimer, pollWakes, pollDisarms,
         pollRemoves, pollPosts, MsgTimerPush, MsgTimerExpire, readClient, nextDue, setTime,
         timerVars, clientVars

(* Other messages do not make up for an expiry, nor do they take it away.  *)
LEMMA StillExpiring ==
    ASSUME Types, poll' = poll,
           \/ queue' = queue
           \/ \E type, d : Post(type, d)
           \/ \E type \in {"push", "remove"} : receive(type)
    PROVE  Expiring => Expiring'
<1>1. CASE queue' = queue
  BY <1>1 DEF Expiring
<1>2. ASSUME NEW type, NEW d, Post(type, d) PROVE Expiring => Expiring'
  <2>1. /\ Len(queue') = Len(queue) + 1 /\ Len(queue) \in Nat
        /\ \A i \in 1..Len(queue) : queue'[i] = queue[i]
    BY <1>2 DEF Types, Post
  <2> QED
    BY <2>1 DEF Expiring
<1>3. ASSUME NEW type \in {"push", "remove"}, receive(type) PROVE Expiring => Expiring'
  <2>1. queue \in Seq(Message) /\ queue # <<>> /\ queue' = Tail(queue) /\ queue[1].type # "expire"
    BY <1>3, Received DEF Types
  <2>2. \A i \in 1..Len(queue) : i # 1 => i - 1 \in 1..Len(queue') /\ queue'[i - 1] = queue[i]
    BY <2>1, TakeQueue
  <2> QED
    BY <2>1, <2>2 DEF Expiring
<1> QED
  BY <1>1, <1>2, <1>3

(* The two threads, whose steps on the descriptor mix in any order, leave  *)
(* it polled and armed, or one of them has still to look. *)
LEMMA StepWatched == IInv /\ [TimerNext]_timerVars => Watched'
<1> SUFFICES ASSUME IInv, [TimerNext]_timerVars PROVE Watched'
  OBVIOUS
<1>0. Types /\ TopIsSoonest /\ Held /\ Working /\ Watched /\ TopIsSoonest' /\ Types'
  BY StepTop, StepTypes DEF IInv
<1>1. CASE UNCHANGED <<heap, top, mFutureTime, polled, armed, task>> /\ (Expiring => Expiring')
  BY <1>0, <1>1 DEF Watched
<1>2. ASSUME NEW t \in Timers, NEW delay \in Delays, start(t, delay) PROVE Watched'
  <2>1. PICK d \in Delegates :
          /\ delegate[d] = "unborn"
          /\ mFutureTime' = [mFutureTime EXCEPT ![d] = now + delay]
          /\ Post("push", d)
    BY <1>2 DEF start
  <2>2. UNCHANGED <<heap, top, polled, armed, task, poll>>
    BY <1>2 DEF start, kernelVars, taskVars
  <2>3. Expiring => Expiring'
    BY <1>0, <2>1, <2>2, StillExpiring
  <2>4. heap # {} => mFutureTime'[top] = mFutureTime[top]
    BY <1>0, <2>1 DEF TopIsSoonest, Held, Types
  <2> QED
    BY <1>0, <2>2, <2>3, <2>4 DEF Watched
<1>3. ASSUME NEW t \in Timers, stop(t) PROVE Watched'
  <2>1. Post("remove", mTimer[t]) /\ UNCHANGED <<heap, top, mFutureTime, polled, armed, task, poll>>
    BY <1>3 DEF stop, stopLocked, kernelVars, taskVars
  <2> QED
    BY <1>0, <1>1, <2>1, StillExpiring
<1>4. CASE Tick \/ \E t \in Timers : deleteTimer(t)
  BY <1>1, <1>4 DEF Tick, deleteTimer, Expiring, clientVars, kernelVars, taskVars
<1>5. CASE pollWakes \/ pollDisarms \/ pollRemoves
  BY <1>5 DEF Watched, Expiring, pollWakes, pollDisarms, pollRemoves
<1>6. CASE pollPosts
  <2>1. queue \in Seq(Message) /\ queue' = Append(queue, [type |-> "expire", d |-> Nil])
    BY <1>0, <1>6 DEF Types, pollPosts, Post
  <2>2. Len(queue') \in 1..Len(queue') /\ queue'[Len(queue')].type = "expire"
    BY <2>1
  <2> QED
    BY <2>2 DEF Watched, Expiring
<1>7. (top = Nil <=> heap = {}) /\ (top' = Nil <=> heap' = {})
  BY <1>0, NullIsNoDelegate DEF TopIsSoonest, Types
<1>8. CASE MsgTimerPush
  <2>1. PICK d \in Delegates : d = Head(queue).d
    BY <1>0, <1>8, Received DEF MsgTimerPush
  <2>2. /\ TimerHeap!Push(d) /\ UNCHANGED <<mFutureTime, armed, poll>>
        /\ updateSoonestTime(top, top') /\ task = "idle"
    BY <1>8, <2>1 DEF MsgTimerPush, clientVars, receive
  <2>3. top' \in heap' /\ (heap # {} /\ top' # top => mFutureTime[top'] < mFutureTime[top])
    BY <1>0, <2>2, HeapPush
  <2>4. Expiring => Expiring'
    BY <1>0, <1>8, <2>2, StillExpiring DEF MsgTimerPush
  <2>5. CASE task' # "idle"
    BY <1>0, <2>2, <2>5, Update DEF Watched, Types
  <2>6. CASE task' = "idle"
    <3>1. heap # {} /\ top' = top /\ polled' = polled
      BY <1>0, <1>7, <2>2, <2>3, <2>6, Update DEF Types
    <3> QED
      BY <1>0, <2>2, <2>4, <2>6, <3>1 DEF Watched
  <2> QED
    BY <2>5, <2>6
<1>9. CASE updateSoonestTime(Nil, top')
  BY <1>0, <1>7, <1>9, Update DEF Watched, Types
<1>10. CASE MsgTimerRemove
  <2>1. PICK d \in Delegates : d = Head(queue).d
    BY <1>0, <1>10, Received DEF MsgTimerRemove
  <2>2. /\ TimerHeap!Remove(d) /\ UNCHANGED <<mFutureTime, armed, poll>>
        /\ \/ updateSoonestTime(Nil, top')
           \/ top # (IF d \in heap THEN d ELSE Nil) /\ UNCHANGED <<task, polled>>
    BY <1>10, <2>1 DEF MsgTimerRemove, clientVars
  <2>3. CASE top # (IF d \in heap THEN d ELSE Nil) /\ UNCHANGED <<task, polled>>
    <3>1. d # top /\ heap # {}
      BY <1>0, <1>7, <2>3, NullIsNoDelegate DEF TopIsSoonest
    <3>2. top' = top
      BY <1>0, <2>2, <3>1, HeapRemove
    <3>3. Expiring => Expiring'
      BY <1>0, <1>10, <2>2, StillExpiring DEF MsgTimerRemove
    <3>4. task = "idle"
      BY <1>10 DEF MsgTimerRemove, receive
    <3> QED
      BY <1>0, <2>2, <2>3, <3>1, <3>2, <3>3, <3>4 DEF Watched
  <2> QED
    BY <1>9, <2>2, <2>3
<1>11. CASE MsgTimerExpire
  BY <1>11 DEF Watched, MsgTimerExpire, receive
<1>12. CASE readClient \/ stopClient \/ timeOutCallback
  BY <1>12 DEF Watched, readClient, stopClient, timeOutCallback
<1>13. CASE nextDue
  BY <1>9, <1>13 DEF Watched, nextDue
<1>14. CASE setTime
  <2>1. UNCHANGED <<heap, top, mFutureTime, polled, queue, poll>> /\ task' = "idle"
        /\ (task = "arm" \/ (task = "disarm" /\ heap = {}))
    BY <1>0, <1>14 DEF setTime, Working, clientVars
  <2>2. CASE task = "arm"
    <3>1. armed' = mFutureTime[top]
      BY <1>14, <2>2 DEF setTime
    <3>2. mFutureTime[top] \in Nat
      BY <1>0, <2>2, DelaysNat DEF Types, TopIsSoonest, Working
    <3>3. armed' # Nil /\ armed' <= mFutureTime'[top']
      BY <2>1, <3>1, <3>2, NullIsNoDelegate
    <3> QED
      BY <1>0, <2>1, <2>2, <3>3 DEF Watched, Expiring
  <2> QED
    BY <2>1, <2>2 DEF Watched
<1>15. CASE UNCHANGED timerVars
  BY <1>1, <1>15 DEF Expiring, timerVars, clientVars, kernelVars, taskVars
<1> QED
  BY <1>2, <1>3, <1>4, <1>5, <1>6, <1>8, <1>10, <1>11, <1>12, <1>13, <1>14, <1>15
     DEF TimerNext, Client, PollTask, MsgTask

-----------------------------------------------------------------------------
(* The invariant holds when no timer was started. *)
LEMMA InitInv == TimerInit => IInv
<1> SUFFICES ASSUME TimerInit PROVE IInv
  OBVIOUS
<1> USE DelaysNat, NullIsNoDelegate DEF TimerInit
<1>1. Types
  <2>1. 0 \in 0..MaxTime
    OBVIOUS
  <2>2. queue \in Seq(Message)
    OBVIOUS
  <2>3. /\ mFutureTime \in [Delegates -> 0..MaxTime]
        /\ calls \in [Delegates -> 0..1]
    BY <2>1
  <2> QED
    BY <2>1, <2>2, <2>3 DEF Types, Tasks
<1>2. TopIsSoonest /\ Working /\ Watched /\ Over
  BY DEF TopIsSoonest, Working, Watched, Over
<1>3. Held
  <2>1. \A d \in Delegates : Keeps(d)
    BY DEF Keeps, OnePush, NoPush, Silent
  <2> QED
    BY <2>1 DEF Held
<1> QED
  BY <1>1, <1>2, <1>3 DEF IInv

(* Every step of the clients and of both threads keeps the invariant. *)
LEMMA Invariance == TimerSpec => []IInv
<1>1. IInv /\ [TimerNext]_timerVars => IInv'
  BY StepTypes, StepTop, StepWorking, StepHeld, StepOver, StepWatched DEF IInv
<1> QED
  BY <1>1, InitInv, PTL DEF TimerSpec

(* LocTimer.cpp: a LocTimerDelegate is deleted once, by the message task,  *)
(* when its client, the heap, the handler and the queue have let go of it; *)
(* and one that lives is still run by its client or is asked to be removed *)
(* exactly once, by the last message about it. *)
THEOREM TimersSafe == TimerSpec => []DelegatesSafe
<1>1. IInv => DelegatesSafe
  <2> SUFFICES ASSUME IInv PROVE DelegatesSafe
    OBVIOUS
  <2>0. Types /\ Held /\ Working
    BY DEF IInv
  <2>1. TimerTypeOK
    BY <2>0 DEF Types, TimerTypeOK, Tasks
  <2>2. \A d \in Delegates : Keeps(d)
    BY <2>0 DEF Held
  <2>3. ASSUME NEW t \in Timers, mTimer[t] # Nil
        PROVE  delegate[mTimer[t]] = "live" /\ mClient[mTimer[t]] = t
    <3>1. mTimer[t] \in Delegates /\ mClient[mTimer[t]] = t /\ t # Nil
      BY <2>0, <2>3, NullIsNoDelegate DEF Types, Held
    <3> QED
      BY <2>2, <3>1 DEF Keeps
  <2>4. ASSUME NEW i \in 1..Len(queue), queue[i].d # Nil PROVE delegate[queue[i].d] = "live"
    <3>1. queue[i] \in Message
      BY <2>0 DEF Types
    <3>2. queue[i].d \in Delegates
      BY <2>4, <3>1, MessageType
    <3> QED
      BY <2>2, <3>2 DEF Keeps, Silent
  <2>5. \A type, d : \A i : i \in Posted(type, d) =>
          i \in 1..Len(queue) /\ Says(queue, i, type, d)
    BY DEF Posted, Says
  <2>6. ASSUME NEW type, NEW d, NEW i \in 1..Len(queue), Says(queue, i, type, d)
        PROVE  i \in Posted(type, d)
    <3>1. queue[i] \in Message
      BY <2>0 DEF Types
    <3>2. queue[i] = [type |-> type, d |-> d]
      BY <2>6, <3>1 DEF Says, Message
    <3> QED
      BY <3>2 DEF Posted
  <2>7. ASSUME NEW d \in Delegates, delegate[d] = "live"
        PROVE  \/ mClient[d] # Nil /\ mTimer[mClient[d]] = d /\ Posted("remove", d) = {}
               \/ mClient[d] = Nil /\ \E i \in Posted("remove", d) :
                    Posted("remove", d) = {i} /\ \A j \in Posted("push", d) : j < i
    <3>1. CASE mClient[d] # Nil
      BY <2>2, <2>5, <2>7, <3>1 DEF Keeps, NoRemove
    <3>2. CASE mClient[d] = Nil
      <4>1. PICK i \in 1..Len(queue) :
              /\ Says(queue, i, "remove", d)
              /\ \A j \in 1..Len(queue) : Says(queue, j, "remove", d) => j = i
              /\ \A j \in 1..Len(queue) : Says(queue, j, "push", d) => j < i
        BY <2>2, <2>7, <3>2 DEF Keeps, LastRemove
      <4>2. i \in Posted("remove", d) /\ \A j \in Posted("remove", d) : j = i
        BY <2>5, <2>6, <4>1
      <4>3. Posted("remove", d) = {i} /\ \A j \in Posted("push", d) : j < i
        BY <2>5, <4>1, <4>2
      <4> QED
        BY <3>2, <4>2, <4>3
    <3> QED
      BY <3>1, <3>2
  <2> QED
    BY <2>0, <2>1, <2>3, <2>4, <2>7 DEF DelegatesSafe, Held, Working
<1> QED
  BY <1>1, Invariance, PTL

(* updateSoonestTime and expire() race for the descriptor without a lock;  *)
(* no timer in the heap is forgotten by both. *)
THEOREM NoTimerForgotten == TimerSpec => []SoonestIsArmed
<1>1. IInv => SoonestIsArmed
  <2> SUFFICES ASSUME IInv, heap # {}
               PROVE  \/ polled /\ armed # Nil /\ armed <= mFutureTime[top]
                      \/ poll # "wait"
                      \/ Posted("expire", Nil) # {}
                      \/ task # "idle"
    BY DEF SoonestIsArmed
  <2>1. CASE \E i \in 1..Len(queue) : queue[i].type = "expire"
    <3>1. PICK i \in 1..Len(queue) : queue[i].type = "expire"
      BY <2>1
    <3>2. queue[i] \in Message
      BY DEF IInv, Types
    <3>3. queue[i] = [type |-> "expire", d |-> Nil]
      BY <3>1, <3>2 DEF Message
    <3> QED
      BY <3>3 DEF Posted
  <2> QED
    BY <2>1 DEF IInv, Watched, Expiring
<1> QED
  BY <1>1, Invariance, PTL

(* LocTimer::stop: whoever stopped a timer gets no callback for that start *)
(* any more, even if the timer has expired and is being handled. *)
THEOREM StoppedStaysSilent == TimerSpec => []StopCancels
<1>1. IInv => StopCancels
  BY DEF IInv, Types, Over, StopCancels
<1> QED
  BY <1>1, Invariance, PTL

(* LocHeap's promise, as the timers use it: what updateSoonestTime arms the *)
(* descriptor for is the time of a timer that is due first. *)
THEOREM SoonestOnTop == TimerSpec => []TopIsSoonest
<1>1. IInv => TopIsSoonest
  BY DEF IInv
<1> QED
  BY <1>1, Invariance, PTL
=============================================================================
