-------------------------------- MODULE MsgQ --------------------------------
(***************************************************************************)
(* The message queue of gps/utils/msg_q.c, the channel every thread of the *)
(* GPS HAL uses to hand work to the message task.                          *)
(*                                                                         *)
(* Every operation is one critical section of list_mutex, so it is one     *)
(* action; msg_q_rcv, which sleeps on list_cond in the middle of its       *)
(* critical section, is RcvEnter followed by RcvWake.  The condition       *)
(* variable is POSIX's: a signal wakes one sleeper if there is one, a      *)
(* broadcast wakes all, a sleeper may wake for no reason (SpuriousWake),   *)
(* and a thread that was woken competes for the mutex again.               *)
(*                                                                         *)
(* msg_list holds the messages from p_tail to p_head: linked_list_add puts *)
(* its element at the head, linked_list_remove takes the tail.             *)
(***************************************************************************)
EXTENDS Naturals, Sequences, FiniteSets

CONSTANTS Messages,  \* the message objects, each sent at most once
          Receivers  \* the threads that call msg_q_rcv

ASSUME ReceiversFinite == IsFiniteSet(Receivers)

VARIABLES msg_list,  \* the queue, oldest message first
          unblocked, \* p_msg_q->unblocked
          receiver,        \* where a receiver is in msg_q_rcv
          accepted,  \* history: the messages msg_q_snd took, oldest first
          gone,      \* history: the messages that left the queue, in order
          delivered, \* the messages msg_q_rcv returned
          freed,     \* the messages a flush deallocated
          refused    \* the messages msg_q_snd turned away

queueVars == <<msg_list, unblocked, receiver, accepted, gone, delivered, freed, refused>>

Contents(s) == {s[i] : i \in 1..Len(s)}

Waiting == {r \in Receivers : receiver[r] = "waiting"} \* asleep in pthread_cond_wait
Woken == {r \in Receivers : receiver[r] = "woken"}     \* about to lock list_mutex again

QueueInit ==
    /\ msg_list = <<>>
    /\ unblocked = FALSE
    /\ receiver = [r \in Receivers |-> "idle"]
    /\ accepted = <<>>
    /\ gone = <<>>
    /\ delivered = {}
    /\ freed = {}
    /\ refused = {}

-----------------------------------------------------------------------------
(* Mutant: the signal is forgotten. *)
Signal_lost == UNCHANGED receiver

(* pthread_cond_signal and pthread_cond_broadcast on list_cond. *)
Signal ==
    \/ Waiting = {} /\ UNCHANGED receiver
    \/ \E r \in Waiting : receiver' = [receiver EXCEPT ![r] = "woken"]

(* Mutant: pthread_cond_signal in the place of pthread_cond_broadcast. *)
Broadcast_wakesOne == Signal

Broadcast ==
    receiver' = [r \in Receivers |-> IF receiver[r] = "waiting" THEN "woken" ELSE receiver[r]]

(* Mutant: an unblocked queue takes messages. *)
Snd_neverRefuses(m) ==
    /\ m \notin Contents(accepted) \cup refused
    /\ msg_list' = Append(msg_list, m)
    /\ accepted' = Append(accepted, m)
    /\ Signal
    /\ UNCHANGED <<refused, unblocked, gone, delivered, freed>>

(* msg_q_snd: a queue that was unblocked returns UNAVAILABLE_RESOURCE and   *)
(* does not keep the message, an open one adds it and signals.             *)
Snd(m) ==
    /\ m \notin Contents(accepted) \cup refused
    /\ \/ /\ unblocked
          /\ refused' = refused \cup {m}
          /\ UNCHANGED <<msg_list, receiver, accepted>>
       \/ /\ ~unblocked
          /\ msg_list' = Append(msg_list, m)
          /\ accepted' = Append(accepted, m)
          /\ Signal
          /\ UNCHANGED refused
    /\ UNCHANGED <<unblocked, gone, delivered, freed>>

(* linked_list_remove on a list that is not empty, and the return. *)
TakeFirst(r) ==
    /\ msg_list # <<>>
    /\ msg_list' = Tail(msg_list)
    /\ gone' = Append(gone, Head(msg_list))
    /\ delivered' = delivered \cup {Head(msg_list)}
    /\ receiver' = [receiver EXCEPT ![r] = "idle"]

Sleep(r) ==
    /\ receiver' = [receiver EXCEPT ![r] = "waiting"]
    /\ UNCHANGED <<msg_list, gone, delivered>>

(* msg_q_rcv up to its first pthread_cond_wait: an unblocked queue returns *)
(* UNAVAILABLE_RESOURCE at once, even when messages are still in it.       *)
RcvEnter(r) ==
    /\ receiver[r] = "idle"
    /\ \/ unblocked /\ UNCHANGED <<msg_list, gone, delivered, receiver>>
       \/ ~unblocked /\ msg_list = <<>> /\ Sleep(r)
       \/ ~unblocked /\ TakeFirst(r)
    /\ UNCHANGED <<unblocked, accepted, freed, refused>>

(* The wait loop goes round when list_cond woke the receiver: it leaves    *)
(* with the oldest message, with UNAVAILABLE_RESOURCE if the queue was     *)
(* unblocked and is empty, and sleeps again otherwise.                     *)
RcvWake(r) ==
    /\ receiver[r] = "woken"
    /\ \/ msg_list = <<>> /\ ~unblocked /\ Sleep(r)
       \/ /\ msg_list = <<>>
          /\ unblocked
          /\ receiver' = [receiver EXCEPT ![r] = "idle"]
          /\ UNCHANGED <<msg_list, gone, delivered>>
       \/ TakeFirst(r)
    /\ UNCHANGED <<unblocked, accepted, freed, refused>>

(* pthread_cond_wait may return although nobody signalled. *)
SpuriousWake(r) ==
    /\ receiver[r] = "waiting"
    /\ receiver' = [receiver EXCEPT ![r] = "woken"]
    /\ UNCHANGED <<msg_list, unblocked, accepted, gone, delivered, freed, refused>>

(* Mutant: the messages are deallocated and stay in the list. *)
FlushAll_keepsList ==
    /\ freed' = freed \cup Contents(msg_list)
    /\ UNCHANGED <<msg_list, gone, unblocked, receiver, accepted, delivered, refused>>

(* msg_q_flush: every message left in the list is deallocated. *)
FlushAll ==
    /\ freed' = freed \cup Contents(msg_list)
    /\ gone' = gone \o msg_list
    /\ msg_list' = <<>>
    /\ UNCHANGED <<unblocked, receiver, accepted, delivered, refused>>

(* msg_q_unblock: the first call sets the flag and wakes every sleeper, a  *)
(* later one returns UNAVAILABLE_RESOURCE.                                 *)
Unblock ==
    /\ \/ unblocked /\ UNCHANGED <<unblocked, receiver>>
       \/ ~unblocked /\ unblocked' = TRUE /\ Broadcast
    /\ UNCHANGED <<msg_list, accepted, gone, delivered, freed, refused>>

QueueNext ==
    \/ \E m \in Messages : Snd(m)
    \/ \E r \in Receivers : RcvEnter(r) \/ RcvWake(r) \/ SpuriousWake(r)
    \/ FlushAll
    \/ Unblock

(* A receiver is a thread that calls msg_q_rcv in a loop and is scheduled; *)
(* senders, flush and unblock are under no obligation.                     *)
QueueFairness == \A r \in Receivers : WF_queueVars(RcvEnter(r)) /\ WF_queueVars(RcvWake(r))

QueueSpec == QueueInit /\ [][QueueNext]_queueVars

QueueFairSpec == QueueSpec /\ QueueFairness
-----------------------------------------------------------------------------
(* The type invariant. *)
QueueTypeOK ==
    /\ msg_list \in Seq(Messages)
    /\ unblocked \in BOOLEAN
    /\ receiver \in [Receivers -> {"idle", "waiting", "woken"}]
    /\ accepted \in Seq(Messages)
    /\ gone \in Seq(Messages)
    /\ delivered \subseteq Messages
    /\ freed \subseteq Messages
    /\ refused \subseteq Messages

(* Every message object has one owner: whoever received it, the flush that *)
(* deallocated it, the queue that still holds it, or the sender whose call *)
(* was turned away; none is deallocated while a receiver uses it.          *)
OneOwner ==
    /\ Contents(accepted) = Contents(msg_list) \cup delivered \cup freed
    /\ delivered \cap freed = {}
    /\ Contents(msg_list) \cap (delivered \cup freed) = {}
    /\ refused \cap Contents(accepted) = {}

(* No lost wake-up: while receivers sleep on list_cond there is a receiver *)
(* on its way to the list for every message in it, and after msg_q_unblock *)
(* nobody sleeps.  It is what makes one pthread_cond_signal per msg_q_snd  *)
(* enough although a receiver that never slept may steal the message.      *)
NoLostWakeup ==
    /\ Waiting # {} => Len(msg_list) <= Cardinality(Woken)
    /\ unblocked => Waiting = {}

(* Every accepted message is eventually received or deallocated, unless    *)
(* the queue is unblocked for good.                                        *)
EveryMessageLeaves ==
    \A m \in Messages :
        m \in Contents(accepted) ~> (m \in Contents(gone) \/ unblocked)

(* After msg_q_unblock every receiver gets out of msg_q_rcv and stays out. *)
UnblockReleasesReceivers ==
    unblocked ~> [](\A r \in Receivers : receiver[r] = "idle")

(* Nothing and nobody stays in the queue. *)
Progress == EveryMessageLeaves /\ UnblockReleasesReceivers

(* The queue implements the closable channel. *)
Channel == INSTANCE MsgChannel WITH
    out <- Len(gone),
    inside <- {r \in Receivers : receiver[r] # "idle"},
    closed <- unblocked

ImplementsChannel == Channel!Spec
=============================================================================
