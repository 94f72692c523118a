--------------------------- MODULE PriorityQueue ----------------------------
(***************************************************************************)
(* What LocHeap promises: a set of ranked objects, of which the top is     *)
(* always one of the highest ranked.  An equally ranked newcomer does not  *)
(* displace the top, and removing an object that is not the top leaves the *)
(* top where it is; who succeeds a top that is popped is open among equals.*)
(* An object is removed by identity, as LocHeap.cpp does: one that is not  *)
(* in the queue is not found.  LocHeap.h says otherwise, that remove finds *)
(* a node that ranks the same as its argument.                             *)
(***************************************************************************)
EXTENDS Integers

CONSTANTS Datas, \* the objects
          NULL

VARIABLES contents, \* the objects in the queue
          top,      \* the one peek() returns, NULL if there is none
          rank      \* how an object ranks; it does not change

vars == <<contents, top, rank>>

Highest(S) == {d \in S : \A e \in S : rank[d] >= rank[e]}

TopOf(S) == IF S = {} THEN {NULL} ELSE Highest(S)

Init ==
    /\ contents = {}
    /\ top = NULL
    /\ rank \in [Datas -> Int]

Push(d) ==
    /\ d \notin contents
    /\ contents' = contents \cup {d}
    /\ top' = IF contents = {} THEN d ELSE IF rank[d] > rank[top] THEN d ELSE top

Pop ==
    /\ contents # {}
    /\ contents' = contents \ {top}
    /\ top' \in TopOf(contents')

\* Of an object that is not in the queue, nothing, whatever ranks the same.
Remove(d) ==
    \/ d = top /\ Pop
    \/ d # top /\ contents' = contents \ {d} /\ UNCHANGED top

Next == (Pop \/ \E d \in Datas : Push(d) \/ Remove(d)) /\ UNCHANGED rank

Spec == Init /\ [][Next]_vars
=============================================================================
