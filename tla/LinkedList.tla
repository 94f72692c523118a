----------------------------- MODULE LinkedList -----------------------------
(***************************************************************************)
(* The doubly linked list of gps/utils/linked_list.c, pointer by pointer.  *)
(* It holds the messages of a msg_q and the subscribers of an AGPS state   *)
(* machine.  A list is used by one thread at a time (its owner's mutex, or *)
(* the message task), so add and remove are single actions; the loops of   *)
(* linked_list_search and linked_list_flush are one action per iteration,  *)
(* so that what holds inside them can be stated.                           *)
(*                                                                         *)
(* order is a history variable: the elements that are in the list, from    *)
(* p_head to p_tail, as an observer who never looks at a pointer would     *)
(* record them.  WellLinked says that the pointers agree with it.          *)
(***************************************************************************)
EXTENDS Naturals, Sequences

CONSTANTS Elements, \* the list_element cells malloc can return
          Datas,    \* the objects a client puts in the list
          NULL,
          Stale     \* in data_p: the call returned without writing it

ASSUME NullIsNoObject == NULL \notin Elements \cup Datas

VARIABLES p_head, p_tail, next, prev, \* the pointers
          data_ptr,     \* the object an element holds
          dealloc_func, \* TRUE if the element has a deallocation function
          allocated,    \* the elements malloc returned and free did not get
          deallocated,  \* the objects the list deallocated
          pc,           \* "idle", or the loop the list is in
          tmp,          \* the search's cursor
          query,        \* the arguments of the search
          data_p,       \* the last call's output, NULL if it has none
          order         \* history: the elements in the list, head first

cells == <<p_head, p_tail, next, prev, data_ptr, dealloc_func, allocated, order>>
vars == <<cells, deallocated, pc, tmp, query, data_p>>

Pointer == Elements \cup {NULL}

(* equal() is the caller's: match is the set of objects it accepts.  out   *)
(* says that the caller passed a data_p, rm is rm_if_found.                *)
Query == [match : SUBSET Datas, out : BOOLEAN, rm : BOOLEAN]

NoQuery == [match |-> {}, out |-> FALSE, rm |-> FALSE]

Content == {data_ptr[order[i]] : i \in 1..Len(order)}

Init ==
    /\ p_head = NULL
    /\ p_tail = NULL
    /\ next = [e \in Elements |-> NULL]
    /\ prev = [e \in Elements |-> NULL]
    /\ data_ptr = [e \in Elements |-> NULL]
    /\ dealloc_func = [e \in Elements |-> FALSE]
    /\ allocated = {}
    /\ deallocated = {}
    /\ pc = "idle"
    /\ tmp = NULL
    /\ query = NoQuery
    /\ data_p = NULL
    /\ order = <<>>

-----------------------------------------------------------------------------
(* The object of an element, as the output parameter and the deallocation  *)
(* function get it. *)
ObjectOf(e) == data_ptr[e]

(* Mutant: the cell is cleared and never given back. *)
free_leaks(e) ==
    /\ UNCHANGED allocated
    /\ data_ptr' = [data_ptr EXCEPT ![e] = NULL]
    /\ dealloc_func' = [dealloc_func EXCEPT ![e] = FALSE]

(* free(): what a freed cell holds is undefined and MemorySafe says that   *)
(* it is never looked at; it is reset here, as calloc would.               *)
free(e) ==
    /\ allocated' = allocated \ {e}
    /\ data_ptr' = [data_ptr EXCEPT ![e] = NULL]
    /\ dealloc_func' = [dealloc_func EXCEPT ![e] = FALSE]

(* linked_list_add: a new element becomes the head.  A client adds objects *)
(* that are alive and not in the list already.                             *)
linked_list_add(e, d, f) ==
    /\ pc = "idle"
    /\ e \notin allocated
    /\ d \notin Content \cup deallocated
    /\ allocated' = allocated \cup {e}
    /\ data_ptr' = [data_ptr EXCEPT ![e] = d]
    /\ dealloc_func' = [dealloc_func EXCEPT ![e] = f]
    /\ p_head' = e
    /\ next' = [next EXCEPT ![e] = p_head]
    /\ IF p_head # NULL
       THEN prev' = [prev EXCEPT ![p_head] = e, ![e] = NULL] /\ UNCHANGED p_tail
       ELSE prev' = [prev EXCEPT ![e] = NULL] /\ p_tail' = e
    /\ order' = <<e>> \o order
    /\ UNCHANGED <<deallocated, pc, tmp, query, data_p>>

(* linked_list_remove: the tail's object is handed to the caller. *)
linked_list_remove ==
    /\ pc = "idle"
    /\ p_tail # NULL
    /\ p_tail' = prev[p_tail]
    /\ IF prev[p_tail] # NULL
       THEN next' = [next EXCEPT ![prev[p_tail]] = NULL] /\ UNCHANGED p_head
       ELSE p_head' = NULL /\ UNCHANGED next
    /\ prev' = [prev EXCEPT ![p_tail] = NULL]
    /\ data_p' = ObjectOf(p_tail)
    /\ free(p_tail)
    /\ order' = SubSeq(order, 1, Len(order) - 1)
    /\ UNCHANGED <<deallocated, pc, tmp, query>>

(* linked_list_search up to its loop.  An empty list is left at once, with *)
(* the caller's *data_p as it was.                                         *)
linked_list_search(q) ==
    /\ pc = "idle"
    /\ \/ /\ p_tail = NULL
          /\ data_p' = IF q.out THEN Stale ELSE NULL
          /\ UNCHANGED <<pc, tmp, query>>
       \/ /\ p_tail # NULL
          /\ query' = q
          /\ tmp' = p_head
          /\ data_p' = NULL
          /\ pc' = "search"
    /\ UNCHANGED <<cells, deallocated>>

(* Mutant: the loop advances twice past an element that does not match. *)
SearchNext_skips ==
    /\ pc = "search"
    /\ tmp # NULL
    /\ data_ptr[tmp] \notin query.match
    /\ tmp' = IF next[tmp] = NULL THEN NULL ELSE next[next[tmp]]
    /\ UNCHANGED <<cells, deallocated, pc, query, data_p>>

(* The body of the search loop: the element does not match. *)
SearchNext ==
    /\ pc = "search"
    /\ tmp # NULL
    /\ data_ptr[tmp] \notin query.match
    /\ tmp' = next[tmp]
    /\ UNCHANGED <<cells, deallocated, pc, query, data_p>>

(* Where e is in the list. *)
Position(e) == CHOOSE i \in 1..Len(order) : order[i] = e

Without(s, k) == SubSeq(s, 1, k - 1) \o SubSeq(s, k + 1, Len(s))

(* Take the element at the cursor out of the chain of next pointers ... *)
UnlinkForward ==
    /\ p_head' = IF prev[tmp] = NULL THEN next[tmp] ELSE p_head
    /\ next' = [e \in Elements |->
                  IF e = tmp THEN NULL
                  ELSE IF e = prev[tmp] THEN next[tmp] ELSE next[e]]

(* Mutant: the removal of the last element leaves p_tail behind. *)
UnlinkBackward_keepsTail ==
    /\ UNCHANGED p_tail
    /\ prev' = [e \in Elements |->
                  IF e = tmp THEN NULL
                  ELSE IF e = next[tmp] THEN prev[tmp] ELSE prev[e]]

(* ... and out of the chain of prev pointers, and free it. *)
UnlinkBackward ==
    /\ p_tail' = IF next[tmp] = NULL THEN prev[tmp] ELSE p_tail
    /\ prev' = [e \in Elements |->
                  IF e = tmp THEN NULL
                  ELSE IF e = next[tmp] THEN prev[tmp] ELSE prev[e]]

Unlink ==
    /\ UnlinkForward
    /\ UnlinkBackward
    /\ free(tmp)
    /\ order' = Without(order, Position(tmp))

(* The element matches: it is copied out, and removed if the caller asked  *)
(* for that; a removed object nobody gets a pointer to is deallocated.     *)
SearchFound ==
    /\ pc = "search"
    /\ tmp # NULL
    /\ data_ptr[tmp] \in query.match
    /\ data_p' = IF query.out THEN ObjectOf(tmp) ELSE data_p
    /\ IF query.rm THEN Unlink ELSE UNCHANGED cells
    /\ deallocated' = IF query.rm /\ ~query.out /\ dealloc_func[tmp]
                      THEN deallocated \cup {ObjectOf(tmp)}
                      ELSE deallocated
    /\ tmp' = NULL
    /\ pc' = "idle"
    /\ query' = NoQuery

(* The cursor ran off the tail. *)
SearchMissed ==
    /\ pc = "search"
    /\ tmp = NULL
    /\ pc' = "idle"
    /\ query' = NoQuery
    /\ UNCHANGED <<cells, deallocated, tmp, data_p>>

linked_list_flush ==
    /\ pc = "idle"
    /\ pc' = "flush"
    /\ UNCHANGED <<cells, deallocated, tmp, query, data_p>>

(* One iteration of the flush loop frees the head. *)
FlushHead ==
    /\ pc = "flush"
    /\ p_head # NULL
    /\ deallocated' = IF dealloc_func[p_head]
                      THEN deallocated \cup {ObjectOf(p_head)}
                      ELSE deallocated
    /\ free(p_head)
    /\ p_head' = next[p_head]
    /\ next' = [next EXCEPT ![p_head] = NULL]
    /\ prev' = [prev EXCEPT ![p_head] = NULL]
    /\ order' = Tail(order)
    /\ UNCHANGED <<p_tail, pc, tmp, query, data_p>>

FlushDone ==
    /\ pc = "flush"
    /\ p_head = NULL
    /\ p_tail' = NULL
    /\ pc' = "idle"
    /\ UNCHANGED <<p_head, next, prev, data_ptr, dealloc_func, allocated, order>>
    /\ UNCHANGED <<deallocated, tmp, query, data_p>>

Next ==
    \/ \E e \in Elements, d \in Datas, f \in BOOLEAN : linked_list_add(e, d, f)
    \/ linked_list_remove
    \/ \E q \in Query : linked_list_search(q)
    \/ SearchNext
    \/ SearchFound
    \/ SearchMissed
    \/ linked_list_flush
    \/ FlushHead
    \/ FlushDone

Spec == Init /\ [][Next]_vars
-----------------------------------------------------------------------------
(* The type invariant. *)
TypeOK ==
    /\ p_head \in Pointer
    /\ p_tail \in Pointer
    /\ next \in [Elements -> Pointer]
    /\ prev \in [Elements -> Pointer]
    /\ data_ptr \in [Elements -> Datas \cup {NULL}]
    /\ dealloc_func \in [Elements -> BOOLEAN]
    /\ allocated \subseteq Elements
    /\ deallocated \subseteq Datas
    /\ pc \in {"idle", "search", "flush"}
    /\ tmp \in Pointer
    /\ query \in Query
    /\ data_p \in Datas \cup {NULL, Stale}
    /\ order \in Seq(Elements)

(* Following next from p_head visits the elements of the list in order and *)
(* ends in NULL. *)
ForwardLinked ==
    /\ p_head = IF order = <<>> THEN NULL ELSE order[1]
    /\ \A i \in 1..Len(order) :
         next[order[i]] = IF i = Len(order) THEN NULL ELSE order[i + 1]

(* Following prev from p_tail visits them backwards. *)
BackwardLinked ==
    /\ p_tail = IF order = <<>> THEN NULL ELSE order[Len(order)]
    /\ \A i \in 1..Len(order) :
         prev[order[i]] = IF i = 1 THEN NULL ELSE order[i - 1]

(* The pointers represent the list: forwards at all times, backwards       *)
(* whenever no flush is half way.  linked_list_remove follows prev and     *)
(* linked_list_search repairs both chains, so an update missing in one of  *)
(* the two directions shows only when the other kind of call comes next.   *)
WellLinked ==
    /\ ForwardLinked
    /\ pc # "flush" => BackwardLinked

(* Memory: the list owns exactly the cells that were allocated and not     *)
(* freed, no cell is in it twice, no object is in it once deallocated,     *)
(* and the search's cursor never points at a freed cell.                   *)
MemorySafe ==
    /\ allocated = {order[i] : i \in 1..Len(order)}
    /\ \A i, j \in 1..Len(order) : order[i] = order[j] => i = j
    /\ Content \cap deallocated = {}
    /\ pc = "search" /\ tmp # NULL => tmp \in allocated

SearchOutcome ==
    pc = "search" /\ pc' = "idle" =>
      LET hits == {i \in 1..Len(order) : data_ptr[order[i]] \in query.match}
      IN  \/ hits = {} /\ order' = order
          \/ \E i \in hits :
               /\ \A j \in hits : i <= j
               /\ query.out => data_p' = data_ptr[order[i]]
               /\ order' = IF query.rm THEN Without(order, i) ELSE order

(* A search that ends has found the most recently added match, copied that *)
(* one out and removed that one, or has gone through the whole list and    *)
(* left it alone.                                                          *)
SearchFindsNewest == [][SearchOutcome]_vars

(* The chains are a list, and what is not in it is not reached. *)
ListSafe == WellLinked /\ MemorySafe
=============================================================================
