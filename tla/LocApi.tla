------------------------------- MODULE LocApi -------------------------------
(***************************************************************************)
(* LocApiBase of src/gps/core: the array of adapters, the mask of events   *)
(* the modem is asked for, and the delivery of what the modem reports.     *)
(* Three threads use the array without a lock: a client adds and removes   *)
(* adapters (their constructor and destructor), the message task handles   *)
(* LocOpenMsg and LocSsrMsg, and the modem's thread delivers.  open and    *)
(* close are a subclass's, outside the repository: they register the       *)
(* events of a mask, or none.  One thread adds and removes; an adapter     *)
(* that is gone is not added again.  The loops through the array read a    *)
(* pointer to look whether there is one, and again to call the adapter.    *)
(* When it is NULL by then the behaviour is undefined, and ends here.      *)
(***************************************************************************)
EXTENDS Naturals, Sequences

CONSTANTS
  Adapters,       \* the LocAdapterBase objects
  Events,         \* the bits of the masks
  mExcludedMask,  \* those the modem is not asked for (of a background context)
  MAX_ADAPTERS,   \* the length of the array
  Limits,         \* how many reports and restarts of the modem, and new adapters and masks
  NULL

VARIABLES
  mLocAdapters,   \* the array
  mEvtMask,       \* the mask of each adapter
  client,         \* the client's place in removeAdapter: the index, and how far
  removed,        \* the adapters that are gone
  opens,          \* the messages LocOpenMsg ("open") and LocSsrMsg ("ssr")
  asking,         \* getEvtMask of the message task
  registered,     \* the events the modem reports, whether it is there, and whether its
                  \* end is still to be told
  delivery,       \* the report the modem's thread delivers
  left            \* how many reports, restarts and changes are still to come

array == <<mLocAdapters, mEvtMask, client, removed>>
task == <<opens, asking>>
vars == <<array, task, registered, delivery, left>>

Slots == 1..MAX_ADAPTERS
Present == {mLocAdapters[i] : i \in Slots} \ {NULL}
Idle == [at |-> "idle", i |-> 0]
NoDelivery == [kind |-> "none", at |-> "look", i |-> 0, takers |-> {}, heard |-> {}, due |-> {},
               moved |-> {}]

Init ==
  /\ mLocAdapters = [i \in Slots |-> NULL]
  /\ mEvtMask = [a \in Adapters |-> {}]
  /\ client = Idle /\ removed = {} /\ opens = <<>>
  /\ asking = [at |-> "idle", i |-> 0, mask |-> {}]
  /\ registered = [up |-> TRUE, mask |-> {}, ended |-> FALSE]
  /\ delivery = NoDelivery
  /\ left \in Limits

-----------------------------------------------------------------------------
\* The client: LocAdapterBase's constructor takes a mask and the first free slot, if any.
\* In a full array nothing happens, and nobody is told.
addAdapter(a) ==
  /\ client = Idle /\ a \notin Present \cup removed
  /\ left.changes > 0 /\ left' = [left EXCEPT !.changes = @ - 1]
  /\ \E mask \in SUBSET Events \ {{}} : mEvtMask' = [mEvtMask EXCEPT ![a] = mask]
  /\ LET free == {i \in Slots : mLocAdapters[i] = NULL}
     IN  IF free = {} THEN UNCHANGED <<mLocAdapters, opens>>
         ELSE /\ mLocAdapters' = [mLocAdapters EXCEPT ![CHOOSE i \in free : \A j \in free : i <= j] = a]
              /\ opens' = Append(opens, "open")
  /\ UNCHANGED <<client, removed, asking, registered, delivery>>

\* removeAdapter takes the pointer out of the array (the adapter is deleted behind it),
removeAdapter(a) ==
  /\ client = Idle /\ a \in Present
  /\ \E i \in Slots :
       /\ mLocAdapters[i] = a
       /\ mLocAdapters' = [mLocAdapters EXCEPT ![i] = NULL]
       /\ client' = [at |-> "fill", i |-> i]
  /\ removed' = removed \cup {a}
  /\ mEvtMask' = [mEvtMask EXCEPT ![a] = {}]
  /\ UNCHANGED <<task, registered, delivery, left>>

\* The last pointer after slot j, or j if there is none.
Last(j) == CHOOSE i \in j..MAX_ADAPTERS :
             /\ \A k \in (j + 1)..i : mLocAdapters[k] # NULL
             /\ i < MAX_ADAPTERS => mLocAdapters[i + 1] = NULL

\* Mutant: the pointers that follow stay where they are.
fillHole_none ==
  /\ client.at = "fill"
  /\ client' = [at |-> "tell", i |-> Last(client.i)]
  /\ UNCHANGED <<mLocAdapters, mEvtMask, removed, task, registered,
                 delivery, left>>

\* moves the last pointer into the hole,
fillHole ==
  /\ client.at = "fill"
  /\ LET i == Last(client.i)
     IN  /\ mLocAdapters' = [mLocAdapters EXCEPT ![client.i] = mLocAdapters[i], ![i] = NULL]
         /\ client' = [at |-> "tell", i |-> i]
         /\ delivery' = IF delivery.kind = "none" THEN delivery
                        ELSE [delivery EXCEPT !.moved = @ \cup ({mLocAdapters[i]} \ {NULL})]
  /\ UNCHANGED <<mEvtMask, removed, task, registered, left>>

\* Mutant: the modem is not asked again.
tellRemoved_onlyEmpty ==
  /\ client.at = "tell" /\ client' = Idle
  /\ registered' = IF client.i = 1 THEN [registered EXCEPT !.mask = {}] ELSE registered
  /\ UNCHANGED <<mLocAdapters, mEvtMask, removed, task, delivery, left>>

\* and closes, here and now, when that was slot 0 of the code; else asks for the new mask.
tellRemoved ==
  /\ client.at = "tell" /\ client' = Idle
  /\ IF client.i = 1
     THEN registered' = [registered EXCEPT !.mask = {}] /\ UNCHANGED opens
     ELSE opens' = Append(opens, "open") /\ UNCHANGED registered
  /\ UNCHANGED <<mLocAdapters, mEvtMask, removed, asking, delivery, left>>

\* updateEvtMask of an adapter: its mask, then the message.
updateEvtMask(a) ==
  /\ client = Idle /\ a \in Present /\ left.changes > 0 /\ left' = [left EXCEPT !.changes = @ - 1]
  /\ \E e \in Events :
       mEvtMask' = [mEvtMask EXCEPT ![a] = IF e \in @ THEN @ \ {e} ELSE @ \cup {e}]
  /\ opens' = Append(opens, "open")
  /\ UNCHANGED <<mLocAdapters, client, removed, asking, registered, delivery>>

-----------------------------------------------------------------------------
\* The message task: LocSsrMsg closes first; both open with the mask of getEvtMask, which
\* goes through the array up to the first NULL.
procOpenMsg ==
  /\ asking.at = "idle" /\ opens # <<>>
  /\ asking' = [at |-> "loop", i |-> 1, mask |-> {}]
  /\ registered' = IF Head(opens) = "ssr" THEN [registered EXCEPT !.mask = {}] ELSE registered
  /\ opens' = Tail(opens)
  /\ UNCHANGED <<array, delivery, left>>

nextMask ==
  /\ asking.at = "loop" /\ asking.i \in Slots /\ mLocAdapters[asking.i] # NULL
  /\ asking' = [asking EXCEPT !.at = "call"]
  /\ UNCHANGED <<array, opens, registered, delivery, left>>

getEvtMask ==
  /\ asking.at = "call"
  /\ asking' = IF mLocAdapters[asking.i] = NULL THEN [asking EXCEPT !.at = "undefined"]
               ELSE [at |-> "loop", i |-> asking.i + 1,
                     mask |-> asking.mask \cup mEvtMask[mLocAdapters[asking.i]]]
  /\ UNCHANGED <<array, opens, registered, delivery, left>>

\* What getEvtMask returns.
Wanted(mask) == mask \ mExcludedMask

open ==
  /\ asking.at = "loop" /\ (asking.i \in Slots => mLocAdapters[asking.i] = NULL)
  /\ registered' = IF registered.up THEN [registered EXCEPT !.mask = Wanted(asking.mask)]
                   ELSE registered
  /\ asking' = [at |-> "idle", i |-> 0, mask |-> {}]
  /\ UNCHANGED <<array, opens, delivery, left>>

-----------------------------------------------------------------------------
\* The modem's thread: a report goes to all adapters, a request to the first that takes it
\* (returns true).
Start(kind, takers) ==
  delivery' = [kind |-> kind, at |-> "look", i |-> 1, takers |-> takers, heard |-> {},
               due |-> Present, moved |-> {}]

send ==
  /\ delivery.kind = "none" /\ left.sends > 0 /\ registered.up
  /\ \/ Start("report", {})
     \/ \E takers \in SUBSET Present : Start("request", takers)
  /\ left' = [left EXCEPT !.sends = @ - 1]
  /\ UNCHANGED <<array, task, registered>>

\* TO_ALL_ADAPTERS and TO_1ST_HANDLING_ADAPTER: on to the next pointer, unless there is
\* none, or the last one took the request.
Goes ==
  /\ delivery.i \in Slots /\ mLocAdapters[delivery.i] # NULL
  /\ delivery.heard \cap delivery.takers = {}

look ==
  /\ delivery.kind # "none" /\ delivery.at = "look" /\ Goes
  /\ delivery' = [delivery EXCEPT !.at = "call"]
  /\ UNCHANGED <<array, task, registered, left>>

deliver ==
  /\ delivery.at = "call"
  /\ delivery' = IF mLocAdapters[delivery.i] = NULL THEN [delivery EXCEPT !.at = "undefined"]
                 ELSE [delivery EXCEPT !.at = "look", !.i = @ + 1,
                                       !.heard = @ \cup {mLocAdapters[delivery.i]}]
  /\ UNCHANGED <<array, task, registered, left>>

Ended == delivery.kind # "none" /\ delivery.at = "look" /\ ~Goes

delivered ==
  /\ Ended /\ delivery' = NoDelivery
  /\ UNCHANGED <<array, task, registered, left>>

\* The modem goes down, which everyone is told, and up: handleEngineUpEvent sends
\* LocSsrMsg, then tells everyone.
crash ==
  /\ registered.up /\ left.restarts > 0
  /\ registered' = [up |-> FALSE, mask |-> {}, ended |-> TRUE]
  /\ left' = [left EXCEPT !.restarts = @ - 1]
  /\ UNCHANGED <<array, task, delivery>>

handleEngineDownEvent ==
  /\ registered.ended /\ delivery.kind = "none"
  /\ registered' = [registered EXCEPT !.ended = FALSE] /\ Start("report", {})
  /\ UNCHANGED <<array, task, left>>

handleEngineUpEvent ==
  /\ ~registered.up /\ ~registered.ended /\ delivery.kind = "none"
  /\ registered' = [registered EXCEPT !.up = TRUE]
  /\ opens' = Append(opens, "ssr") /\ Start("report", {})
  /\ UNCHANGED <<array, asking, left>>

Client ==
  \/ \E a \in Adapters : addAdapter(a) \/ removeAdapter(a) \/ updateEvtMask(a)
  \/ fillHole \/ tellRemoved

Task == procOpenMsg \/ nextMask \/ getEvtMask \/ open

Modem ==
  \/ send \/ look \/ deliver \/ delivered
  \/ crash \/ handleEngineDownEvent \/ handleEngineUpEvent

Undefined == asking.at = "undefined" \/ delivery.at = "undefined"

Next == ~Undefined /\ (Client \/ Task \/ Modem)

Spec == Init /\ [][Next]_vars

-----------------------------------------------------------------------------
\* The members have their types, and no adapter is twice in the array.
TypeOK ==
  /\ mLocAdapters \in [Slots -> Adapters \cup {NULL}]
  /\ \A i, j \in Slots : mLocAdapters[i] = mLocAdapters[j] /\ i # j => mLocAdapters[i] = NULL
  /\ mEvtMask \in [Adapters -> SUBSET Events] /\ registered.mask \subseteq Events
  /\ client.at \in {"idle", "fill", "tell"} /\ asking.at \in {"idle", "loop", "call", "undefined"}
  /\ delivery.heard \cup delivery.due \subseteq Adapters

\* While there are adapters, and when nothing is under way, the modem reports the events
\* some adapter wants and that are not excluded, and no other, whatever adapters came and
\* went while a mask was put together.  (The last one closes on its own thread: an open that
\* is under way then asks for its events again, and they are reported to nobody.)
MasksMeet ==
  Present # {} /\ client = Idle /\ asking.at = "idle" /\ opens = <<>> /\ registered.up =>
    registered.mask = (UNION {mEvtMask[a] : a \in Present}) \ mExcludedMask

\* A request reaches adapters until one takes it, and only that one.  A report ends when it
\* has reached every adapter that was there when it began and still is, but one that a removal
\* has moved to another slot; or at the hole a removal has made and not yet filled.
ReportsReachAll ==
  /\ \A a, b \in delivery.heard \cap delivery.takers : a = b
  /\ Ended /\ delivery.heard \cap delivery.takers = {} =>
       \/ delivery.due \subseteq delivery.heard \cup removed \cup delivery.moved
       \/ client = [at |-> "fill", i |-> delivery.i]

\* What the loops say of themselves: a report is delivered to all adapters.
DeliveredToAll ==
  Ended /\ delivery.kind = "report" => delivery.due \subseteq delivery.heard \cup removed
=============================================================================
