----------------------------- MODULE MsgChannel -----------------------------
(***************************************************************************)
(* What msg_q promises its users: a closable FIFO channel.  A message is   *)
(* accepted or refused when it is sent; accepted messages leave the        *)
(* channel in the order they were accepted, each one once, either          *)
(* delivered to a receiver or dropped by a flush; and once the channel is  *)
(* closed nothing is accepted any more and only receivers that were        *)
(* already inside a receive can still be handed a message.                 *)
(***************************************************************************)
EXTENDS Naturals, Sequences

CONSTANTS Messages,  \* the message objects
          Receivers  \* the threads that receive

VARIABLES accepted,  \* every message accepted so far, oldest first
          out,       \* how many of them have left the channel
          delivered, \* the set of messages handed to a receiver
          inside,    \* the receivers that are inside a receive
          closed     \* TRUE once the channel is closed

vars == <<accepted, out, delivered, inside, closed>>

Init ==
    /\ accepted = <<>>
    /\ out = 0
    /\ delivered = {}
    /\ inside = {}
    /\ closed = FALSE

Put(m) ==
    /\ ~closed
    /\ \A i \in 1..Len(accepted) : accepted[i] # m
    /\ accepted' = Append(accepted, m)
    /\ UNCHANGED <<out, delivered, inside, closed>>

(* A receiver starts a receive on an open channel and finds it empty. *)
Enter(r) ==
    /\ ~closed
    /\ out = Len(accepted)
    /\ inside' = inside \cup {r}
    /\ UNCHANGED <<accepted, out, delivered, closed>>

(* The oldest message goes to a receiver. *)
Take(r) ==
    /\ closed => r \in inside
    /\ out < Len(accepted)
    /\ out' = out + 1
    /\ delivered' = delivered \cup {accepted[out + 1]}
    /\ inside' = inside \ {r}
    /\ UNCHANGED <<accepted, closed>>

(* A receiver is sent away empty handed, which only a closed channel does. *)
GiveUp(r) ==
    /\ closed
    /\ out = Len(accepted)
    /\ inside' = inside \ {r}
    /\ UNCHANGED <<accepted, out, delivered, closed>>

Drop ==
    /\ out' = Len(accepted)
    /\ UNCHANGED <<accepted, delivered, inside, closed>>

Close ==
    /\ closed' = TRUE
    /\ UNCHANGED <<accepted, out, delivered, inside>>

Next ==
    \/ \E m \in Messages : Put(m)
    \/ \E r \in Receivers : Enter(r) \/ Take(r) \/ GiveUp(r)
    \/ Drop
    \/ Close

Spec == Init /\ [][Next]_vars
=============================================================================
