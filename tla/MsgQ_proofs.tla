---------------------------- MODULE MsgQ_proofs -----------------------------
(***************************************************************************)
(* Proofs about the message queue, for any messages and any finite set of  *)
(* receivers.                                                              *)
(***************************************************************************)
EXTENDS MsgQ, SequenceTheorems, FiniteSetTheorems, TLAPS

(* The order of msg_q_snd is the order of msg_q_rcv: what left the queue,   *)
(* followed by what is in it, is exactly what was accepted, in that order. *)
Fifo == accepted = gone \o msg_list

(* Moving the head of t to the end of s does not change s \o t. *)
LEMMA MoveHead ==
    ASSUME NEW S, NEW s \in Seq(S), NEW t \in Seq(S), t # <<>>
    PROVE  Append(s, Head(t)) \o Tail(t) = s \o t
<1>1. /\ Head(t) \in S
      /\ Tail(t) \in Seq(S)
      /\ t = <<Head(t)>> \o Tail(t)
  <2>1. Head(t) \in S /\ Tail(t) \in Seq(S)
    BY HeadTailProperties
  <2>2. /\ <<Head(t)>> \in Seq(S)
        /\ Len(<<Head(t)>>) = 1
        /\ <<Head(t)>>[1] = t[1]
    BY <2>1
  <2>3. Len(<<Head(t)>> \o Tail(t)) = Len(t)
    BY <2>1, <2>2, ConcatProperties, HeadTailProperties, LenProperties
  <2>4. \A i \in 1..Len(t) : (<<Head(t)>> \o Tail(t))[i] = t[i]
    BY <2>1, <2>2, ConcatProperties, HeadTailProperties, LenProperties
  <2>5. <<Head(t)>> \o Tail(t) \in Seq(S)
    BY <2>1, <2>2, ConcatProperties
  <2>6. <<Head(t)>> \o Tail(t) = t
    BY <2>3, <2>4, <2>5, SeqEqual
  <2> QED BY <2>1, <2>6
<1>2. Append(s, Head(t)) = s \o <<Head(t)>>
  BY <1>1, AppendIsConcat
<1>3. <<Head(t)>> \in Seq(S)
  BY <1>1
<1>4. (s \o <<Head(t)>>) \o Tail(t) = s \o (<<Head(t)>> \o Tail(t))
  BY <1>1, <1>3, ConcatAssociative
<1> QED BY <1>1, <1>2, <1>4

(* What Append and Tail do to the set of elements. *)
LEMMA ContentsAppend ==
    ASSUME NEW S, NEW s \in Seq(S), NEW e \in S
    PROVE  Contents(Append(s, e)) = Contents(s) \cup {e}
BY AppendProperties, LenProperties DEF Contents

LEMMA ContentsTail ==
    ASSUME NEW S, NEW s \in Seq(S), s # <<>>
    PROVE  Contents(s) = {Head(s)} \cup Contents(Tail(s))
<1>1. Len(s) \in Nat \ {0} /\ Len(Tail(s)) = Len(s) - 1
  BY EmptySeq, HeadTailProperties
<1>2. Head(s) = s[1]
  OBVIOUS
<1>3. \A i \in 1..Len(Tail(s)) : Tail(s)[i] = s[i + 1]
  BY HeadTailProperties
<1>4. ASSUME NEW x \in Contents(s)
      PROVE  x \in {Head(s)} \cup Contents(Tail(s))
  <2>1. PICK i \in 1..Len(s) : x = s[i]
    BY <1>4 DEF Contents
  <2>2. CASE i = 1
    BY <2>1, <2>2, <1>2
  <2>3. CASE i # 1
    <3>1. i - 1 \in 1..Len(Tail(s)) /\ Tail(s)[i - 1] = s[i]
      BY <2>3, <1>1, <1>3
    <3> QED BY <3>1, <2>1 DEF Contents
  <2> QED BY <2>2, <2>3
<1>5. ASSUME NEW x \in {Head(s)} \cup Contents(Tail(s))
      PROVE  x \in Contents(s)
  <2>1. CASE x = Head(s)
    BY <2>1, <1>1, <1>2 DEF Contents
  <2>2. CASE x \in Contents(Tail(s))
    <3>1. PICK i \in 1..Len(Tail(s)) : x = Tail(s)[i]
      BY <2>2 DEF Contents
    <3>2. i + 1 \in 1..Len(s) /\ s[i + 1] = x
      BY <3>1, <1>1, <1>3
    <3> QED BY <3>2 DEF Contents
  <2> QED BY <2>1, <2>2, <1>5
<1> QED BY <1>4, <1>5

-----------------------------------------------------------------------------
(* msg_q keeps its types: every step of every caller leaves a queue of     *)
(* messages, a flag and a program counter per receiver.                    *)
THEOREM TypeCorrect == QueueSpec => []QueueTypeOK
<1>1. QueueInit => QueueTypeOK
  BY EmptySeq DEF QueueInit, QueueTypeOK
<1>2. QueueTypeOK /\ [QueueNext]_queueVars => QueueTypeOK'
  <2> SUFFICES ASSUME QueueTypeOK, [QueueNext]_queueVars
               PROVE  QueueTypeOK'
    OBVIOUS
  <2> USE DEF QueueTypeOK
  <2>1. ASSUME NEW m \in Messages, Snd(m)
        PROVE  QueueTypeOK'
    <3>1. Append(msg_list, m) \in Seq(Messages) /\ Append(accepted, m) \in Seq(Messages)
      BY AppendProperties
    <3>2. Signal => receiver' \in [Receivers -> {"idle", "waiting", "woken"}]
      BY DEF Signal
    <3> QED BY <2>1, <3>1, <3>2 DEF Snd
  <2>2. ASSUME NEW r \in Receivers, TakeFirst(r)
        PROVE  /\ msg_list' \in Seq(Messages)
               /\ gone' \in Seq(Messages)
               /\ delivered' \subseteq Messages
               /\ receiver' \in [Receivers -> {"idle", "waiting", "woken"}]
    BY <2>2, HeadTailProperties, AppendProperties DEF TakeFirst
  <2>3. ASSUME NEW r \in Receivers, RcvEnter(r)
        PROVE  QueueTypeOK'
    BY <2>3, <2>2 DEF RcvEnter, Sleep
  <2>4. ASSUME NEW r \in Receivers, RcvWake(r)
        PROVE  QueueTypeOK'
    BY <2>4, <2>2 DEF RcvWake, Sleep
  <2>5. ASSUME NEW r \in Receivers, SpuriousWake(r)
        PROVE  QueueTypeOK'
    BY <2>5 DEF SpuriousWake
  <2>6. CASE FlushAll
    BY <2>6, ConcatProperties, ElementOfSeq DEF FlushAll, Contents
  <2>7. CASE Unblock
    BY <2>7 DEF Unblock, Broadcast
  <2>8. CASE UNCHANGED queueVars
    BY <2>8 DEF queueVars
  <2> QED BY <2>1, <2>3, <2>4, <2>5, <2>6, <2>7, <2>8 DEF QueueNext
<1> QED BY <1>1, <1>2, PTL DEF QueueSpec

(* The FIFO order survives one step. *)
LEMMA FifoStep ==
    QueueTypeOK /\ Fifo /\ [QueueNext]_queueVars => Fifo'
<1> SUFFICES ASSUME QueueTypeOK, Fifo, [QueueNext]_queueVars
             PROVE  Fifo'
  OBVIOUS
<1> USE DEF QueueTypeOK, Fifo
<1>1. ASSUME NEW m \in Messages, Snd(m)
      PROVE  Fifo'
  <2>1. gone \o msg_list \in Seq(Messages) /\ <<m>> \in Seq(Messages)
    BY ConcatProperties
  <2>2. Append(gone \o msg_list, m) = (gone \o msg_list) \o <<m>>
    BY <2>1, AppendIsConcat
  <2>3. Append(msg_list, m) = msg_list \o <<m>>
    BY AppendIsConcat
  <2>4. Append(gone \o msg_list, m) = gone \o Append(msg_list, m)
    BY <2>1, <2>2, <2>3, ConcatAssociative
  <2> QED BY <1>1, <2>4 DEF Snd
<1>2. ASSUME NEW r \in Receivers, TakeFirst(r), UNCHANGED accepted
      PROVE  Fifo'
  BY <1>2, MoveHead DEF TakeFirst
<1>3. ASSUME NEW r \in Receivers, RcvEnter(r)
      PROVE  Fifo'
  BY <1>3, <1>2 DEF RcvEnter, Sleep
<1>4. ASSUME NEW r \in Receivers, RcvWake(r)
      PROVE  Fifo'
  BY <1>4, <1>2 DEF RcvWake, Sleep
<1>5. ASSUME NEW r \in Receivers, SpuriousWake(r)
      PROVE  Fifo'
  BY <1>5 DEF SpuriousWake
<1>6. CASE FlushAll
  <2>1. gone \o msg_list \in Seq(Messages)
    BY ConcatProperties
  <2> QED BY <1>6, <2>1, ConcatEmptySeq DEF FlushAll
<1>7. CASE Unblock
  BY <1>7 DEF Unblock
<1>8. CASE UNCHANGED queueVars
  BY <1>8 DEF queueVars
<1> QED BY <1>1, <1>3, <1>4, <1>5, <1>6, <1>7, <1>8 DEF QueueNext

(* Messages leave the queue in the order msg_q_snd accepted them, none is  *)
(* lost and none appears from nowhere, whatever threads send, receive,     *)
(* flush and unblock, and however often a receiver wakes up for nothing.   *)
THEOREM FifoTheorem == QueueSpec => []Fifo
<1>1. QueueInit => Fifo
  <2>1. <<>> \in Seq(Messages)
    BY EmptySeq
  <2>2. \A s \in Seq(Messages) : s = s \o <<>>
    BY ConcatEmptySeq
  <2>3. <<>> = <<>> \o <<>>
    BY <2>1, <2>2, Zenon
  <2> QED BY <2>3, Zenon DEF QueueInit, Fifo
<1> QED BY <1>1, FifoStep, TypeCorrect, PTL DEF QueueSpec

-----------------------------------------------------------------------------
(* OneOwner is not inductive: that a received message is not still in the  *)
(* queue rests on its not having been there twice.                         *)
Distinct == \A i, j \in 1..Len(msg_list) : msg_list[i] = msg_list[j] => i = j

OwnerInv == QueueTypeOK /\ OneOwner /\ Distinct

(* What linked_list_remove does to the ownership of the messages. *)
LEMMA RemoveKeepsOwner ==
    ASSUME OwnerInv, NEW r \in Receivers, TakeFirst(r),
           UNCHANGED <<accepted, freed, refused>>
    PROVE  OneOwner' /\ Distinct'
<1> USE DEF OwnerInv, QueueTypeOK, TakeFirst
<1>1. /\ Len(msg_list) \in Nat \ {0}
      /\ Len(msg_list') = Len(msg_list) - 1
      /\ Head(msg_list) = msg_list[1]
      /\ \A i \in 1..Len(msg_list') : msg_list'[i] = msg_list[i + 1]
  BY EmptySeq, HeadTailProperties
<1>2. Contents(msg_list) = {Head(msg_list)} \cup Contents(msg_list')
  BY ContentsTail
<1>3. Head(msg_list) \notin Contents(msg_list')
  BY <1>1 DEF Contents, Distinct
<1>4. OneOwner'
  BY <1>2, <1>3 DEF OneOwner
<1>5. Distinct'
  BY <1>1 DEF Distinct
<1> QED BY <1>4, <1>5

LEMMA OwnerStep == OwnerInv /\ [QueueNext]_queueVars => OneOwner' /\ Distinct'
<1> SUFFICES ASSUME OwnerInv, [QueueNext]_queueVars
             PROVE  OneOwner' /\ Distinct'
  OBVIOUS
<1> USE DEF OwnerInv, QueueTypeOK
<1>1. ASSUME NEW m \in Messages, Snd(m)
      PROVE  OneOwner' /\ Distinct'
  <2>1. CASE unblocked
    BY <1>1, <2>1 DEF Snd, OneOwner, Distinct
  <2>2. CASE ~unblocked
    <3>1. /\ msg_list' = Append(msg_list, m)
          /\ accepted' = Append(accepted, m)
          /\ m \notin Contents(accepted) \cup refused
          /\ UNCHANGED <<delivered, freed, refused>>
      BY <1>1, <2>2 DEF Snd
    <3>2. /\ Contents(msg_list') = Contents(msg_list) \cup {m}
          /\ Contents(accepted') = Contents(accepted) \cup {m}
      BY <3>1, ContentsAppend
    <3>3. m \notin Contents(msg_list)
      BY <3>1 DEF OneOwner
    <3>4. OneOwner'
      BY <3>1, <3>2, <3>3 DEF OneOwner
    <3>5. Distinct'
      BY <3>1, <3>3, AppendProperties, LenProperties DEF Distinct, Contents
    <3> QED BY <3>4, <3>5
  <2> QED BY <2>1, <2>2
<1>2. ASSUME NEW r \in Receivers, RcvEnter(r)
      PROVE  OneOwner' /\ Distinct'
  BY <1>2, RemoveKeepsOwner DEF RcvEnter, Sleep, OneOwner, Distinct
<1>3. ASSUME NEW r \in Receivers, RcvWake(r)
      PROVE  OneOwner' /\ Distinct'
  BY <1>3, RemoveKeepsOwner DEF RcvWake, Sleep, OneOwner, Distinct
<1>4. ASSUME NEW r \in Receivers, SpuriousWake(r)
      PROVE  OneOwner' /\ Distinct'
  BY <1>4 DEF SpuriousWake, OneOwner, Distinct
<1>5. CASE FlushAll
  <2>1. Contents(<<>>) = {}
    BY EmptySeq DEF Contents
  <2> QED BY <1>5, <2>1, EmptySeq DEF FlushAll, OneOwner, Distinct
<1>6. CASE Unblock
  BY <1>6 DEF Unblock, OneOwner, Distinct
<1>7. CASE UNCHANGED queueVars
  BY <1>7 DEF queueVars, OneOwner, Distinct
<1> QED BY <1>1, <1>2, <1>3, <1>4, <1>5, <1>6, <1>7 DEF QueueNext

(* No message is handed out and deallocated, handed out twice or kept by   *)
(* the queue after it was handed out, and none the queue turned away is    *)
(* ever delivered.                                                         *)
THEOREM OneOwnerTheorem == QueueSpec => []OneOwner
<1>1. QueueInit => OneOwner /\ Distinct
  BY EmptySeq DEF QueueInit, OneOwner, Distinct, Contents
<1> QED BY <1>1, OwnerStep, TypeCorrect, PTL DEF QueueSpec, OwnerInv

-----------------------------------------------------------------------------
(* Waking a sleeper, and a woken receiver that stops being one. *)
LEMMA WokenFinite == IsFiniteSet(Woken) /\ Cardinality(Woken) \in Nat
BY ReceiversFinite, FS_Subset, FS_CardinalityType DEF Woken

LEMMA WakeOne ==
    ASSUME QueueTypeOK, NEW r \in Receivers, receiver[r] # "woken",
           receiver' = [receiver EXCEPT ![r] = "woken"]
    PROVE  Cardinality(Woken') = Cardinality(Woken) + 1
<1>1. Woken' = Woken \cup {r} /\ r \notin Woken
  BY DEF Woken, QueueTypeOK
<1> QED BY <1>1, WokenFinite, FS_AddElement

LEMMA LeaveOne ==
    ASSUME QueueTypeOK, NEW r \in Receivers, NEW p \in {"idle", "waiting"},
           receiver' = [receiver EXCEPT ![r] = p]
    PROVE  Cardinality(Woken') =
             IF receiver[r] = "woken" THEN Cardinality(Woken) - 1 ELSE Cardinality(Woken)
<1>1. Woken' = Woken \ {r} /\ (r \in Woken <=> receiver[r] = "woken")
  BY DEF Woken, QueueTypeOK
<1> QED BY <1>1, WokenFinite, FS_RemoveElement

LEMMA WakeupStep == QueueTypeOK /\ NoLostWakeup /\ [QueueNext]_queueVars => NoLostWakeup'
<1> SUFFICES ASSUME QueueTypeOK, NoLostWakeup, [QueueNext]_queueVars
             PROVE  NoLostWakeup'
  OBVIOUS
<1>0. /\ Cardinality(Woken) \in Nat
      /\ Len(msg_list) \in Nat
      /\ msg_list # <<>> => Len(Tail(msg_list)) = Len(msg_list) - 1
  BY WokenFinite, LenProperties, HeadTailProperties DEF QueueTypeOK
<1>1. ASSUME NEW m \in Messages, Snd(m)
      PROVE  NoLostWakeup'
  <2>1. CASE unblocked
    BY <1>1, <2>1 DEF Snd, NoLostWakeup, Waiting, Woken
  <2>2. CASE ~unblocked /\ Waiting = {}
    BY <1>1, <2>2 DEF Snd, Signal, NoLostWakeup, Waiting, Woken
  <2>3. CASE ~unblocked /\ Waiting # {}
    <3>1. PICK r \in Waiting : receiver' = [receiver EXCEPT ![r] = "woken"]
      BY <1>1, <2>3 DEF Snd, Signal
    <3>2. Cardinality(Woken') = Cardinality(Woken) + 1
      BY <3>1, WakeOne DEF Waiting
    <3>3. Len(msg_list') = Len(msg_list) + 1 /\ ~unblocked'
      BY <1>1, <2>3, AppendProperties DEF Snd, QueueTypeOK
    <3>4. Len(msg_list) <= Cardinality(Woken)
      BY <2>3 DEF NoLostWakeup
    <3> QED BY <1>0, <3>2, <3>3, <3>4 DEF NoLostWakeup
  <2> QED BY <2>1, <2>2, <2>3
<1>2. ASSUME NEW r \in Receivers, TakeFirst(r), receiver[r] \in {"idle", "woken"},
             UNCHANGED unblocked
      PROVE  NoLostWakeup'
  <2>1. Cardinality(Woken') \in {Cardinality(Woken), Cardinality(Woken) - 1}
    BY <1>2, LeaveOne DEF TakeFirst
  <2>2. Len(msg_list') = Len(msg_list) - 1
    BY <1>0, <1>2 DEF TakeFirst
  <2>3. Waiting' = Waiting
    BY <1>2 DEF TakeFirst, Waiting, QueueTypeOK
  <2> QED BY <1>0, <1>2, <2>1, <2>2, <2>3 DEF NoLostWakeup
<1>3. ASSUME NEW r \in Receivers, Sleep(r), msg_list = <<>>, ~unblocked,
             UNCHANGED unblocked
      PROVE  NoLostWakeup'
  <2>1. Len(msg_list') = 0
    BY <1>3, EmptySeq DEF Sleep
  <2>2. Cardinality(Woken') \in Nat
    <3>1. receiver' = [receiver EXCEPT ![r] = "waiting"]
      BY <1>3 DEF Sleep
    <3>2. Woken' \subseteq Woken
      BY <3>1 DEF Woken, QueueTypeOK
    <3> QED BY <3>2, WokenFinite, FS_Subset, FS_CardinalityType
  <2> QED BY <1>3, <2>1, <2>2 DEF NoLostWakeup
<1>4. ASSUME NEW r \in Receivers, RcvEnter(r)
      PROVE  NoLostWakeup'
  <2>1. CASE unblocked
    BY <1>4, <2>1 DEF RcvEnter, NoLostWakeup, Waiting, Woken
  <2>2. CASE ~unblocked
    BY <1>2, <1>3, <1>4, <2>2 DEF RcvEnter
  <2> QED BY <2>1, <2>2
<1>5. ASSUME NEW r \in Receivers, RcvWake(r)
      PROVE  NoLostWakeup'
  <2>1. CASE /\ msg_list = <<>>
             /\ unblocked
             /\ receiver' = [receiver EXCEPT ![r] = "idle"]
             /\ UNCHANGED <<msg_list, unblocked>>
    BY <2>1 DEF NoLostWakeup, Waiting, QueueTypeOK
  <2> QED BY <1>2, <1>3, <1>5, <2>1 DEF RcvWake
<1>6. ASSUME NEW r \in Receivers, SpuriousWake(r)
      PROVE  NoLostWakeup'
  <2>1. Cardinality(Woken') = Cardinality(Woken) + 1
    BY <1>6, WakeOne DEF SpuriousWake
  <2>2. Waiting # {} /\ UNCHANGED <<msg_list, unblocked>>
    BY <1>6 DEF SpuriousWake, Waiting
  <2> QED BY <1>0, <2>1, <2>2 DEF NoLostWakeup
<1>7. CASE FlushAll
  <2>1. Len(msg_list') = 0 /\ UNCHANGED <<receiver, unblocked>>
    BY <1>7, EmptySeq DEF FlushAll
  <2> QED BY <1>0, <2>1 DEF NoLostWakeup, Waiting, Woken
<1>8. CASE Unblock
  <2>1. CASE unblocked
    BY <1>8, <2>1 DEF Unblock, NoLostWakeup, Waiting, Woken
  <2>2. CASE ~unblocked
    BY <1>8, <2>2 DEF Unblock, Broadcast, NoLostWakeup, Waiting, QueueTypeOK
  <2> QED BY <2>1, <2>2
<1>9. CASE UNCHANGED queueVars
  BY <1>9 DEF queueVars, NoLostWakeup, Waiting, Woken
<1> QED BY <1>1, <1>4, <1>5, <1>6, <1>7, <1>8, <1>9 DEF QueueNext

(* A receiver never sleeps through a message, nor through msg_q_unblock:   *)
(* one pthread_cond_signal per message and one broadcast are enough for    *)
(* any number of receivers.                                                *)
THEOREM NoLostWakeupTheorem == QueueSpec => []NoLostWakeup
<1>1. QueueInit => NoLostWakeup
  BY DEF QueueInit, NoLostWakeup, Waiting
<1> QED BY <1>1, WakeupStep, TypeCorrect, PTL DEF QueueSpec

-----------------------------------------------------------------------------
(* The set of receivers inside msg_q_rcv, which the channel calls inside. *)
Inside == {r \in Receivers : receiver[r] # "idle"}

(* Where the channel's next message is. *)
LEMMA HeadIsNext ==
    ASSUME QueueTypeOK, Fifo
    PROVE  /\ Len(gone) \in Nat
           /\ Len(accepted) = Len(gone) + Len(msg_list)
           /\ (msg_list = <<>>) <=> (Len(gone) = Len(accepted))
           /\ msg_list # <<>> => /\ Len(gone) < Len(accepted)
                                 /\ accepted[Len(gone) + 1] = Head(msg_list)
<1> USE DEF QueueTypeOK, Fifo
<1>1. Len(gone) \in Nat /\ Len(msg_list) \in Nat
  BY LenProperties
<1>2. (msg_list = <<>>) <=> (Len(msg_list) = 0)
  BY EmptySeq
<1>3. Len(accepted) = Len(gone) + Len(msg_list)
  BY ConcatProperties
<1>4. ASSUME msg_list # <<>>
      PROVE  accepted[Len(gone) + 1] = Head(msg_list)
  <2>1. Len(gone) + 1 \in 1..(Len(gone) + Len(msg_list))
    BY <1>1, <1>2, <1>4
  <2>2. accepted[Len(gone) + 1] = msg_list[1]
    BY <2>1, <1>1, ConcatProperties
  <2> QED BY <2>2
<1> QED BY <1>1, <1>2, <1>3, <1>4

(* A delivery is the channel's Take. *)
LEMMA RemoveIsTake ==
    ASSUME QueueTypeOK, Fifo, NEW r \in Receivers, TakeFirst(r),
           unblocked => receiver[r] # "idle", UNCHANGED <<accepted, unblocked>>
    PROVE  Channel!Take(r)
<1>1. /\ Len(gone') = Len(gone) + 1
      /\ delivered' = delivered \cup {accepted[Len(gone) + 1]}
      /\ Len(gone) < Len(accepted)
  BY HeadIsNext, HeadTailProperties, AppendProperties DEF TakeFirst, QueueTypeOK
<1>2. Inside' = Inside \ {r}
  BY DEF TakeFirst, Inside, QueueTypeOK
<1>3. unblocked => r \in Inside
  BY DEF Inside
<1> QED BY <1>1, <1>2, <1>3 DEF Channel!Take, Inside

LEMMA ChannelStep ==
    QueueTypeOK /\ Fifo /\ [QueueNext]_queueVars => [Channel!Next]_(Channel!vars)
<1> SUFFICES ASSUME QueueTypeOK, Fifo, [QueueNext]_queueVars
             PROVE  [Channel!Next]_(Channel!vars)
  OBVIOUS
<1> USE DEF QueueTypeOK
<1>1. ASSUME NEW m \in Messages, Snd(m)
      PROVE  [Channel!Next]_(Channel!vars)
  <2>0. Inside' = Inside
    BY <1>1 DEF Snd, Signal, Waiting, Inside
  <2>1. CASE unblocked
    BY <1>1, <2>0, <2>1 DEF Snd, Channel!vars, Inside
  <2>2. CASE ~unblocked
    BY <1>1, <2>0, <2>2 DEF Snd, Contents, Channel!Next, Channel!Put, Inside
  <2> QED BY <2>1, <2>2
<1>2. ASSUME NEW r \in Receivers, Sleep(r), msg_list = <<>>, ~unblocked,
             UNCHANGED <<accepted, unblocked>>
      PROVE  Channel!Enter(r)
  <2>1. Inside' = Inside \cup {r}
    BY <1>2 DEF Sleep, Inside
  <2> QED BY <1>2, <2>1, HeadIsNext DEF Sleep, Channel!Enter, Inside
<1>3. ASSUME NEW r \in Receivers, RcvEnter(r)
      PROVE  [Channel!Next]_(Channel!vars)
  <2>1. CASE unblocked
    BY <1>3, <2>1 DEF RcvEnter, Channel!vars, Inside
  <2>2. CASE ~unblocked
    BY <1>2, <1>3, <2>2, RemoveIsTake DEF RcvEnter, Channel!Next
  <2> QED BY <2>1, <2>2
<1>4. ASSUME NEW r \in Receivers, RcvWake(r)
      PROVE  [Channel!Next]_(Channel!vars)
  <2>1. ASSUME msg_list = <<>>, unblocked, receiver' = [receiver EXCEPT ![r] = "idle"],
               UNCHANGED <<msg_list, gone, delivered, unblocked, accepted>>
        PROVE  Channel!GiveUp(r)
    <3>1. Inside' = Inside \ {r}
      BY <2>1 DEF Inside
    <3> QED BY <2>1, <3>1, HeadIsNext DEF Channel!GiveUp, Inside
  <2> QED BY <1>2, <1>4, <2>1, RemoveIsTake DEF RcvWake, Channel!Next
<1>5. ASSUME NEW r \in Receivers, SpuriousWake(r)
      PROVE  [Channel!Next]_(Channel!vars)
  <2>1. Inside' = Inside
    BY <1>5 DEF SpuriousWake, Inside
  <2> QED BY <1>5, <2>1 DEF SpuriousWake, Channel!vars, Inside
<1>6. CASE FlushAll
  <2>1. Len(gone') = Len(accepted)
    BY <1>6, HeadIsNext, ConcatProperties DEF FlushAll
  <2> QED BY <1>6, <2>1 DEF FlushAll, Channel!Next, Channel!Drop, Inside
<1>7. CASE Unblock
  <2>1. Inside' = Inside
    BY <1>7 DEF Unblock, Broadcast, Inside
  <2>2. CASE unblocked
    BY <1>7, <2>1, <2>2 DEF Unblock, Channel!vars, Inside
  <2>3. CASE ~unblocked
    BY <1>7, <2>1, <2>3 DEF Unblock, Channel!Next, Channel!Close, Inside
  <2> QED BY <2>2, <2>3
<1>8. CASE UNCHANGED queueVars
  BY <1>8 DEF queueVars, Channel!vars
<1> QED BY <1>1, <1>3, <1>4, <1>5, <1>6, <1>7, <1>8 DEF QueueNext

(* The queue implements the closable FIFO channel: every behaviour of the  *)
(* mutex, the condition variable and the list is one of MsgChannel.        *)
THEOREM Refinement == QueueSpec => ImplementsChannel
<1>1. QueueInit => Channel!Init
  BY EmptySeq DEF QueueInit, Channel!Init
<1> QED BY <1>1, ChannelStep, TypeCorrect, FifoTheorem, PTL
        DEF QueueSpec, ImplementsChannel, Channel!Spec
=============================================================================
