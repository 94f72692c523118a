-------------------------- MODULE AgpsStateMachine --------------------------
(***************************************************************************)
(* The state machine of loc_eng_agps.cpp: it shares one network interface  *)
(* (NIF) among subscribers.  A machine is a record of its state and its    *)
(* subscribers, newest first; an event maps it to the next one, to the     *)
(* notifications it gives to subscribers and to what it asks of whoever    *)
(* provides the NIF.  Four NIFs: agnss and internet, whose subscribers are *)
(* ATL handles of the modem, wifi, and ds for emergency calls, which is a  *)
(* DSStateMachine.  BIT subscribers behave as ATL ones.                    *)
(*                                                                         *)
(* A removed subscriber is the receiver its notification still points to   *)
(* while the rest of the list is searched; it is taken to keep its ID,     *)
(* which no other subscriber of the list has.                              *)
(***************************************************************************)
EXTENDS Naturals, Sequences

States == {"Released", "Pending", "Acquired", "Releasing"}

(* waitForCloseComplete(): an unsubscribed subscriber stays, inactive, on  *)
(* the list until the NIF is closed. *)
waitForCloseComplete(m) == m \in {"wifi", "ds"}

mEnforceSingleSubscriber(m) == m = "wifi"

Fresh == [mStatePtr |-> "Released", mSubscribers |-> <<>>]

IDs(subscribers) == {subscribers[i].ID : i \in DOMAIN subscribers}

(* What a list has at some of its places, in the list's order. *)
Keep(list, places) ==
    LET kept[n \in 0..Len(list)] ==
            IF n = 0 THEN <<>>
            ELSE IF n \in places THEN Append(kept[n - 1], list[n]) ELSE kept[n - 1]
    IN  kept[Len(list)]

ActiveAt(subscribers) == {i \in DOMAIN subscribers : ~subscribers[i].mIsInactive}
InactiveAt(subscribers) == {i \in DOMAIN subscribers : subscribers[i].mIsInactive}
Active(subscribers) == Keep(subscribers, ActiveAt(subscribers))
Inactive(subscribers) == Keep(subscribers, InactiveAt(subscribers))

(* What notifySubscribers says to each of the subscribers given (mutant: a *)
(* search ends at the first it finds, and is not repeated).                *)
Note(id, status) == [ID |-> id, status |-> status]
Notes_first(subscribers, status) ==
    [i \in DOMAIN subscribers \cap {1} |-> Note(subscribers[i].ID, status)]

Notes(subscribers, status) ==
    [i \in DOMAIN subscribers |-> Note(subscribers[i].ID, status)]

(* Mutant: the same subscriber twice. *)
addSubscriber_again(subscribers, id) ==
    <<[ID |-> id, mIsInactive |-> FALSE]>> \o subscribers

addSubscriber(subscribers, id) ==
    IF id \in IDs(subscribers) THEN subscribers
    ELSE <<[ID |-> id, mIsInactive |-> FALSE]>> \o subscribers

(* sendRsrcRequest asks for the NIF only for an active subscriber and      *)
(* gives it back only without one; that of DSStateMachine always does.     *)
sendRsrcRequest(m, subscribers, action) ==
    IF m = "ds" \/ (ActiveAt(subscribers) = {}) = (action = "RELEASE")
    THEN action ELSE "nothing"

Step(state, subscribers, notes, send) ==
    [mStatePtr |-> state, mSubscribers |-> subscribers, notes |-> notes, send |-> send]

Ignore(sm) == Step(sm.mStatePtr, sm.mSubscribers, <<>>, "nothing")

-----------------------------------------------------------------------------
(* RSRC_SUBSCRIBE.  sent: sendRsrcRequest returned 0, as it always does    *)
(* but in DSStateMachine. *)
onSubscribe(m, sm, id, sent) ==
    LET added == addSubscriber(sm.mSubscribers, id)
    IN  CASE sm.mStatePtr = "Released" ->
               Step(IF sent THEN "Pending" ELSE "Released", added, <<>>,
                    sendRsrcRequest(m, added, "REQUEST"))
          [] sm.mStatePtr = "Acquired" ->
               Step("Acquired", added, <<Note(id, "GRANTED")>>, "nothing")
          [] OTHER -> Step(sm.mStatePtr, added, <<>>, "nothing")

(* subscribeRsrc: some machines serve one subscriber only. *)
subscribeRsrc(m, sm, id, sent) ==
    IF mEnforceSingleSubscriber(m) /\ sm.mSubscribers # <<>>
    THEN Step(sm.mStatePtr, sm.mSubscribers, <<Note(id, "DENIED")>>, "nothing")
    ELSE onSubscribe(m, sm, id, sent)

(* Who is left after the subscriber was made inactive or was removed. *)
Without(m, subscribers, id) ==
    IF waitForCloseComplete(m)
    THEN [i \in DOMAIN subscribers |->
            [subscribers[i] EXCEPT !.mIsInactive = @ \/ subscribers[i].ID = id]]
    ELSE Keep(subscribers, {i \in DOMAIN subscribers : subscribers[i].ID # id})

(* Mutant: the NIF is kept as long as somebody is on the list. *)
onUnsubscribe_keeps(m, sm, id) ==
    LET left == Without(m, sm.mSubscribers, id)
        note == <<Note(id, "UNSUBSCRIBE")>>
    IN  IF sm.mStatePtr = "Released" THEN Step("Released", sm.mSubscribers, note, "nothing")
        ELSE IF left # <<>> THEN Step(sm.mStatePtr, left, note, "nothing")
        ELSE Step("Released", left, note, sendRsrcRequest(m, left, "RELEASE"))

(* RSRC_UNSUBSCRIBE of a subscriber that is on the list. *)
onUnsubscribe(m, sm, id) ==
    LET left == Without(m, sm.mSubscribers, id)
        note == <<Note(id, "UNSUBSCRIBE")>>
        last == IF left = <<>> THEN "Released"
                ELSE IF ActiveAt(left) = {} THEN "Releasing" ELSE sm.mStatePtr
    IN  IF sm.mStatePtr = "Released" THEN Step("Released", sm.mSubscribers, note, "nothing")
        ELSE IF last = sm.mStatePtr \/ sm.mStatePtr = "Releasing"
        THEN Step(last, left, note, "nothing")
        ELSE Step(last, left, note, sendRsrcRequest(m, left, "RELEASE"))

onGranted(sm) ==
    IF sm.mStatePtr = "Pending"
    THEN Step("Acquired", sm.mSubscribers, Notes(Active(sm.mSubscribers), "GRANTED"), "nothing")
    ELSE Ignore(sm)

(* The inactive subscribers leave; those that came in the meantime want    *)
(* the NIF again. *)
afterReleasing(m, sm, status) ==
    LET left == Active(sm.mSubscribers)
        notes == Notes(Inactive(sm.mSubscribers), status)
    IN  IF left = <<>> THEN Step("Released", left, notes, "nothing")
        ELSE Step("Pending", left, notes, sendRsrcRequest(m, left, "REQUEST"))

onReleased(m, sm) ==
    CASE sm.mStatePtr = "Acquired" ->
           Step("Released", <<>>, Notes(sm.mSubscribers, "RELEASED"), "nothing")
      [] sm.mStatePtr = "Releasing" -> afterReleasing(m, sm, "RELEASED")
      [] OTHER -> Ignore(sm)

onDenied(m, sm) ==
    CASE sm.mStatePtr = "Pending" ->
           Step("Released", <<>>, Notes(sm.mSubscribers, "DENIED"), "nothing")
      [] sm.mStatePtr = "Releasing" -> afterReleasing(m, sm, "DENIED")
      [] OTHER -> Ignore(sm)

(* Mutant: the RELEASED that was taken is seen as a DENIED as well. *)
onDsReleased_both(sm) ==
    LET first == onReleased("ds", sm)
        second == onDenied("ds", first)
    IN  [second EXCEPT !.notes = first.notes \o @, !.send = first.send]

(* DSStateMachine takes a RELEASED that changes nothing for a DENIED. *)
onDsReleased(sm) ==
    IF onReleased("ds", sm).mStatePtr # sm.mStatePtr
    THEN onReleased("ds", sm) ELSE onDenied("ds", sm)

=============================================================================
