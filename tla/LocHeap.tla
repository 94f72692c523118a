------------------------------ MODULE LocHeap -------------------------------
(***************************************************************************)
(* The heap of gps/utils/LocHeap.cpp that keeps the timers.  It is sorted  *)
(* from parent to child only, grows into the smaller subtree and is left   *)
(* unbalanced by pop and remove.                                           *)
(* A node is the place where it is: the sides that lead to it from the     *)
(* top, <<>>.  Links never change but for the one node that comes or goes, *)
(* so a recursive method of LocHeapNode is what it does along one way      *)
(* down: push to the node that is new, pop to the one it cuts off.         *)
(***************************************************************************)
EXTENDS Integers, Sequences, FiniteSets

CONSTANTS Datas, \* the LocRankable objects
          Ranks, \* the ranks they can have
          NULL

VARIABLES mData, mSize, \* of each node in the tree
          rank,         \* what ranks() compares
          returned,     \* what the last pop or remove returned
          inside        \* history: the objects pushed and not taken out again

vars == <<mData, mSize, rank, returned, inside>>

outRanks(d, e) == rank[d] > rank[e]

Sides == {"mLeft", "mRight"}
nodes == DOMAIN mData

Child(p, side) == Append(p, side)

\* The n-th node below the top on the way to p, and whether q is such a one.
At(p, n) == SubSeq(p, 1, n)
Above(q, p) == \E n \in 0..Len(p) - 1 : q = At(p, n)
Under(top, p) == p = top \/ Above(top, p)

SizeOf(p) == IF p \in nodes THEN mSize[p] ELSE 0

Init ==
    /\ mData = <<>> /\ mSize = <<>>
    /\ rank \in [Datas -> Ranks]
    /\ returned = NULL
    /\ inside = {}

-----------------------------------------------------------------------------
(* The subtree of p that push descends into. *)
SideToGrow(p) ==
    IF Child(p, "mLeft") \notin nodes THEN "mLeft"
    ELSE IF Child(p, "mRight") \notin nodes THEN "mRight"
    ELSE IF mSize[Child(p, "mLeft")] <= mSize[Child(p, "mRight")] THEN "mLeft" ELSE "mRight"

(* Where the new node is put. *)
Free == ({<<>>} \cup {Child(p, s) : p \in nodes, s \in Sides}) \ nodes
NewNode == CHOOSE p \in Free : \A n \in 1..Len(p) : p[n] = SideToGrow(At(p, n - 1))

(* What is left at a node that d comes to, and what goes on down.          *)
Higher(d, e) == IF outRanks(d, e) THEN d ELSE e
Lower(d, e) == IF outRanks(d, e) THEN e ELSE d

(* The data that comes to the n-th node on the way to the new one.         *)
Carried(new, d) ==
    LET carried[n \in 0..Len(new)] ==
          IF n = 0 THEN d ELSE Lower(carried[n - 1], mData[At(new, n - 1)])
    IN  carried

(* LocHeapNode::push *)
push(d) ==
    LET new     == NewNode
        carried == Carried(new, d)
    IN  /\ mData' = [p \in nodes \cup {new} |->
                       IF p = new THEN carried[Len(p)]
                       ELSE IF Above(p, new) THEN Higher(carried[Len(p)], mData[p]) ELSE mData[p]]
        /\ mSize' = [p \in nodes \cup {new} |->
                       IF p = new THEN 1 ELSE IF Above(p, new) THEN mSize[p] + 1 ELSE mSize[p]]

(* Mutant: the right child replaces the top whenever there is one. *)
SideToPop_right(p) == IF Child(p, "mRight") \in nodes THEN "mRight" ELSE "mLeft"

(* The subtree whose top replaces p. *)
SideToPop(p) ==
    IF Child(p, "mLeft") \notin nodes THEN "mRight"
    ELSE IF Child(p, "mRight") \notin nodes THEN "mLeft"
    ELSE IF outRanks(mData[Child(p, "mLeft")], mData[Child(p, "mRight")]) THEN "mLeft" ELSE "mRight"

(* The leaf to which the data of top is swapped down and which is cut off. *)
CutOff(top) ==
    CHOOSE p \in nodes :
        /\ Under(top, p) /\ \A s \in Sides : Child(p, s) \notin nodes
        /\ \A n \in Len(top) + 1..Len(p) : p[n] = SideToPop(At(p, n - 1))

(* Mutant: the ancestors of a removed node keep their size. *)
Shrinks_forgotten(p, top, gone) == Above(p, gone) /\ ~Above(p, top)

(* Whose size goes down: pop counts from top on, remove above it. *)
Shrinks(p, top, gone) == Above(p, gone)

(* LocHeapNode::pop: the data on the way moves up by one.                  *)
pop(top) ==
    LET gone == CutOff(top)
    IN  /\ mData' = [p \in nodes \ {gone} |->
                       IF Under(top, p) /\ Above(p, gone) THEN mData[At(gone, Len(p) + 1)] ELSE mData[p]]
        /\ mSize' = [p \in nodes \ {gone} |->
                       IF Shrinks(p, top, gone) THEN mSize[p] - 1 ELSE mSize[p]]

(* LocHeapNode::remove looks for d, by address, in the subtrees that can   *)
(* hold it: d does not rank above their ancestors.  It is there once.  (The *)
(* header promises a node that ranks the same, LocHeap.h:84; an argument   *)
(* that is not in the heap finds nothing, whatever its rank.)              *)
Found(d) ==
    {p \in nodes : /\ mData[p] = d
                   /\ \A q \in nodes : Above(q, p) => mData[q] # d /\ ~outRanks(d, mData[q])}

(* LocHeap::push, pop and remove.  A client pushes an object that is not   *)
(* in the heap; it may remove one that is not there any more.              *)
Push(d) ==
    /\ d \notin inside
    /\ push(d)
    /\ inside' = inside \cup {d}
    /\ UNCHANGED <<rank, returned>>

Pop ==
    /\ IF nodes = {}
       THEN returned' = NULL /\ UNCHANGED <<mData, mSize>>
       ELSE returned' = mData[<<>>] /\ pop(<<>>)
    /\ inside' = inside \ {returned'}
    /\ UNCHANGED rank

Remove(d) ==
    /\ \/ Found(d) = {} /\ returned' = NULL /\ UNCHANGED <<mData, mSize>>
       \/ \E p \in Found(d) : pop(p) /\ returned' = d
    /\ inside' = inside \ {returned'}
    /\ UNCHANGED rank

Next == Pop \/ \E d \in Datas : Push(d) \/ Remove(d)

Spec == Init /\ [][Next]_vars
-----------------------------------------------------------------------------
(* The type invariant.  A node hangs on another, up to the top.            *)
TypeOK ==
    /\ nodes \subseteq Seq(Sides) /\ \A p \in nodes : \A n \in 0..Len(p) : At(p, n) \in nodes
    /\ mData \in [nodes -> Datas] /\ mSize \in [nodes -> Nat]
    /\ rank \in [Datas -> Ranks]
    /\ returned \in Datas \cup {NULL}
    /\ inside \subseteq Datas /\ IsFiniteSet(inside)

(* LocHeapNode::checkNodes: no child outranks its parent and every mSize   *)
(* counts the nodes of its subtree.                                        *)
checkNodes ==
    \A p \in nodes :
        /\ mSize[p] = 1 + SizeOf(Child(p, "mLeft")) + SizeOf(Child(p, "mRight"))
        /\ \A s \in Sides : Child(p, s) \in nodes => ~outRanks(mData[Child(p, s)], mData[p])

(* The tree is a heap with correct sizes after any sequence of pushes,     *)
(* pops and removals, balanced or not.                                     *)
WellFormed == TypeOK /\ checkNodes

(* The heap holds what its clients put in and did not take out: a swap on  *)
(* the way down neither loses an object nor duplicates one, and remove     *)
(* finds its object although it prunes the search by rank.                 *)
NothingLost ==
    /\ {mData[p] : p \in nodes} = inside
    /\ \A p, q \in nodes : mData[p] = mData[q] => p = q
    /\ SizeOf(<<>>) = Cardinality(inside)

(* To its users the heap is a priority queue. *)
Queue == INSTANCE PriorityQueue WITH
    contents <- inside,
    top <- IF nodes = {} THEN NULL ELSE mData[<<>>]

ImplementsQueue == Queue!Spec
=============================================================================
