--------------------------- MODULE LocEngAgps_proofs ---------------------------
(***************************************************************************)
(* What the AGPS machines, their clients, the framework, the data service  *)
(* and the modem keep between them, for any clients, any settings, any     *)
(* number of retries and any load.  A list of subscribers is seen as two   *)
(* sets: who is on it and who wants the NIF; the first lemmas say what the *)
(* operations on lists and the events of a machine do to these.  The queue *)
(* is seen through a few predicates: which messages of a client it has and *)
(* in which order.  The inductive invariant has three parts:               *)
(*   Base    types, each machine's state against its two sets, and that a  *)
(*           modem that did not restart has not said that it is up again;  *)
(*   Called  the ds machine's state against the data service's call and    *)
(*           the events of it that are still in the queue;                 *)
(*   Viewed  where there is no ds machine, what each client believes       *)
(*           against its machine and the client's messages.                *)
(***************************************************************************)
EXTENDS LocEngAgps, TLAPS, NaturalsInduction, WellFoundedInduction

-----------------------------------------------------------------------------
(* A set of numbers that is not empty has a least one. *)
LEMMA LeastOf ==
    ASSUME NEW T \in SUBSET Nat, T # {}
    PROVE  \E m \in T : \A j \in T : m <= j
<1>1. \E m \in T : \A j \in T : ~(<<j, m>> \in OpToRel(<, Nat))
  BY NatLessThanWellFounded, WFMin
<1>2. \A j, m \in Nat : ~(<<j, m>> \in OpToRel(<, Nat)) => m <= j
  BY DEF OpToRel
<1> QED
  BY <1>1, <1>2

(* The function that Keep builds a list with, up to a place. *)
Kept(list, places, n, f) ==
    f = [k \in 0..n |->
           IF k = 0 THEN <<>>
           ELSE IF k \in places THEN Append(f[k - 1], list[k]) ELSE f[k - 1]]

(* There is such a function: a shortest list without one would have one    *)
(* that the next shorter list has, longer by a place. *)
LEMMA KeptExists ==
    ASSUME NEW list, NEW places, NEW len \in Nat
    PROVE  \E f : Kept(list, places, len, f)
<1> DEFINE T == {n \in Nat : ~\E f : Kept(list, places, n, f)}
<1>1. ASSUME T # {} PROVE FALSE
  <2>1. PICK n \in T : \A j \in T : n <= j
    BY <1>1, LeastOf
  <2>2. n \in Nat /\ ~\E f : Kept(list, places, n, f)
    BY <2>1
  <2>3. n # 0
    <3>1. Kept(list, places, 0, [k \in 0..0 |-> <<>>])
      BY DEF Kept
    <3> QED
      BY <2>2, <3>1
  <2>4. n - 1 \in Nat /\ n - 1 \notin T
    BY <2>1, <2>2, <2>3
  <2>5. PICK f : Kept(list, places, n - 1, f)
    BY <2>4
  <2> DEFINE g == [k \in 0..n |->
                     IF k = n
                     THEN IF n \in places THEN Append(f[n - 1], list[n]) ELSE f[n - 1]
                     ELSE f[k]]
  <2>6. \A k \in 0..(n - 1) : g[k] = f[k]
    BY <2>2, <2>3
  <2>7. ASSUME NEW k \in 0..n
        PROVE  g[k] = IF k = 0 THEN <<>>
                      ELSE IF k \in places THEN Append(g[k - 1], list[k]) ELSE g[k - 1]
    <3>1. CASE k = n
      BY <2>2, <2>3, <2>6, <3>1
    <3>2. CASE k # n
      <4>1. k \in 0..(n - 1) /\ (k # 0 => k - 1 \in 0..(n - 1))
        BY <2>2, <3>2
      <4>2. f[k] = IF k = 0 THEN <<>>
                   ELSE IF k \in places THEN Append(f[k - 1], list[k]) ELSE f[k - 1]
        BY <2>5, <4>1 DEF Kept
      <4> QED
        BY <2>6, <4>1, <4>2
    <3> QED
      BY <3>1, <3>2
  <2>8. Kept(list, places, n, g)
    <3> HIDE DEF g
    <3>1. g = [k \in 0..n |-> g[k]]
      BY DEF g
    <3> QED
      BY <2>7, <3>1 DEF Kept
  <2> QED
    BY <2>2, <2>8
<1> QED
  BY <1>1

(* What Keep keeps: the places given, in their order, and no others. *)
KeepsUpTo(list, places, n, S, kept) ==
    /\ kept \in Seq(S)
    /\ \A j \in 1..Len(kept) : \E i \in places : i <= n /\ kept[j] = list[i]
    /\ \A i \in places : i <= n => \E j \in 1..Len(kept) : kept[j] = list[i]
    /\ \A j, k \in 1..Len(kept) : j < k =>
         \E a, b \in places : a < b /\ b <= n /\ kept[j] = list[a] /\ kept[k] = list[b]

(* A place more. *)
LEMMA KeepsOneMore ==
    ASSUME NEW S, NEW list \in Seq(S), NEW places \in SUBSET (1..Len(list)),
           NEW n \in 1..Len(list), NEW s, KeepsUpTo(list, places, n - 1, S, s),
           NEW t, t = IF n \in places THEN Append(s, list[n]) ELSE s
    PROVE  KeepsUpTo(list, places, n, S, t)
<1>0. /\ Len(list) \in Nat /\ n \in Nat /\ list[n] \in S /\ s \in Seq(S)
      /\ \A i \in places : i \in Nat /\ (i <= n <=> i <= n - 1 \/ i = n)
  BY DEF KeepsUpTo
<1>1. CASE n \notin places
  <2>1. t = s /\ \A i \in places : i <= n <=> i <= n - 1
    BY <1>0, <1>1
  <2> QED
    BY <1>0, <2>1 DEF KeepsUpTo
<1>2. CASE n \in places
  <2>1. /\ t \in Seq(S) /\ Len(s) \in Nat /\ Len(t) = Len(s) + 1
        /\ t[Len(t)] = list[n]
        /\ \A j \in 1..Len(s) : t[j] = s[j] /\ j \in 1..Len(t)
        /\ \A j \in 1..Len(t) : j = Len(t) \/ j \in 1..Len(s)
        /\ Len(t) \in 1..Len(t)
    BY <1>0, <1>2
  <2>2. \A j \in 1..Len(t) : \E i \in places : i <= n /\ t[j] = list[i]
    <3>1. ASSUME NEW j \in 1..Len(s) PROVE \E i \in places : i <= n /\ t[j] = list[i]
      <4>1. PICK i \in places : i <= n - 1 /\ s[j] = list[i]
        BY DEF KeepsUpTo
      <4> QED
        BY <1>0, <2>1, <4>1
    <3>2. \E i \in places : i <= n /\ t[Len(t)] = list[i]
      BY <1>0, <1>2, <2>1
    <3> QED
      BY <2>1, <3>1, <3>2
  <2>3. ASSUME NEW i \in places, i <= n PROVE \E j \in 1..Len(t) : t[j] = list[i]
    <3>1. CASE i = n
      BY <2>1, <3>1
    <3>2. CASE i # n
      <4>1. PICK j \in 1..Len(s) : s[j] = list[i]
        BY <1>0, <2>3, <3>2 DEF KeepsUpTo
      <4> QED
        BY <2>1, <4>1
    <3> QED
      BY <3>1, <3>2
  <2>4. ASSUME NEW j \in 1..Len(t), NEW k \in 1..Len(t), j < k
        PROVE  \E a, b \in places : a < b /\ b <= n /\ t[j] = list[a] /\ t[k] = list[b]
    <3>1. j \in 1..Len(s)
      BY <2>1, <2>4
    <3>2. CASE k = Len(t)
      <4>1. PICK a \in places : a <= n - 1 /\ s[j] = list[a]
        BY <3>1 DEF KeepsUpTo
      <4>2. a < n /\ n <= n /\ t[j] = list[a] /\ t[k] = list[n]
        BY <1>0, <2>1, <3>1, <3>2, <4>1
      <4> QED
        BY <1>2, <4>2
    <3>3. CASE k # Len(t)
      <4>1. k \in 1..Len(s)
        BY <2>1, <3>3
      <4>2. PICK a \in places, b \in places :
              a < b /\ b <= n - 1 /\ s[j] = list[a] /\ s[k] = list[b]
        BY <2>4, <3>1, <4>1 DEF KeepsUpTo
      <4> QED
        BY <1>0, <2>1, <3>1, <4>1, <4>2
    <3> QED
      BY <3>2, <3>3
  <2> QED
    BY <2>1, <2>2, <2>3, <2>4 DEF KeepsUpTo
<1> QED
  BY <1>1, <1>2

(* What Keep keeps of a list, and that it leaves the order alone. *)
LEMMA KeepIs ==
    ASSUME NEW S, NEW list \in Seq(S), NEW places \in SUBSET (1..Len(list))
    PROVE  KeepsUpTo(list, places, Len(list), S, Keep(list, places))
<1>0. Len(list) \in Nat
  OBVIOUS
<1>1. PICK f : Kept(list, places, Len(list), f) /\ Keep(list, places) = f[Len(list)]
  <2>1. \E f : Kept(list, places, Len(list), f)
    BY <1>0, KeptExists
  <2>2. Kept(list, places, Len(list), CHOOSE f : Kept(list, places, Len(list), f))
    BY <2>1
  <2>3. Keep(list, places) = (CHOOSE f : Kept(list, places, Len(list), f))[Len(list)]
    BY DEF Keep, Kept
  <2> QED
    BY <2>2, <2>3
<1> DEFINE T == {n \in 0..Len(list) : ~KeepsUpTo(list, places, n, S, f[n])}
<1>2. ASSUME T # {} PROVE FALSE
  <2>0. T \in SUBSET Nat
    BY <1>0
  <2>1. PICK n \in T : \A j \in T : n <= j
    <3> HIDE DEF T
    <3> QED
      BY <1>2, <2>0, LeastOf
  <2>2. n \in 0..Len(list) /\ ~KeepsUpTo(list, places, n, S, f[n])
    BY <2>1
  <2>3. CASE n = 0
    <3>1. f[n] = <<>>
      BY <1>0, <1>1, <2>3 DEF Kept
    <3>2. \A i \in places : ~(i <= n)
      BY <2>3
    <3> QED
      BY <2>2, <3>1, <3>2 DEF KeepsUpTo
  <2>4. CASE n # 0
    <3>1. n \in 1..Len(list) /\ n - 1 \in 0..Len(list) /\ n - 1 \notin T
      BY <1>0, <2>1, <2>2, <2>4
    <3>2. KeepsUpTo(list, places, n - 1, S, f[n - 1])
      BY <3>1
    <3>3. f[n] = IF n \in places THEN Append(f[n - 1], list[n]) ELSE f[n - 1]
      BY <1>1, <2>2, <2>4 DEF Kept
    <3> QED
      BY <2>2, <3>1, <3>2, <3>3, KeepsOneMore
  <2> QED
    BY <2>3, <2>4
<1>3. Len(list) \notin T /\ Len(list) \in 0..Len(list)
  BY <1>0, <1>2
<1> QED
  BY <1>1, <1>3

-----------------------------------------------------------------------------
(* Lists of subscribers: who is on a list, and who of them wants the NIF.  *)
Subscriber == [ID : Clients, mIsInactive : BOOLEAN]
NoTwice(list) == \A i, j \in 1..Len(list) : list[i].ID = list[j].ID => i = j
Lists == {list \in Seq(Subscriber) : NoTwice(list)}
ActiveIDs(list) == {list[i].ID : i \in ActiveAt(list)}

(* What a machine's list is made of. *)
LEMMA ListFacts ==
    ASSUME NEW list \in Lists
    PROVE  /\ list \in Seq(Subscriber) /\ NoTwice(list)
           /\ Len(list) \in Nat /\ DOMAIN list = 1..Len(list)
           /\ \A i \in 1..Len(list) :
                list[i] \in Subscriber /\ list[i].ID \in Clients /\ list[i].mIsInactive \in BOOLEAN
           /\ ActiveAt(list) \in SUBSET (1..Len(list))
           /\ InactiveAt(list) \in SUBSET (1..Len(list))
           /\ ActiveIDs(list) \subseteq IDs(list) /\ IDs(list) \subseteq Clients
<1>1. list \in Seq(Subscriber) /\ NoTwice(list)
  BY DEF Lists
<1>2. Len(list) \in Nat /\ DOMAIN list = 1..Len(list)
  BY <1>1
<1>3. \A i \in 1..Len(list) : list[i] \in Subscriber
  BY <1>1
<1>4. \A i \in 1..Len(list) : list[i].ID \in Clients /\ list[i].mIsInactive \in BOOLEAN
  BY <1>3 DEF Subscriber
<1>5. /\ ActiveAt(list) \in SUBSET (1..Len(list))
      /\ InactiveAt(list) \in SUBSET (1..Len(list))
  BY <1>2 DEF ActiveAt, InactiveAt
<1>6. ActiveIDs(list) \subseteq IDs(list) /\ IDs(list) \subseteq Clients
  BY <1>2, <1>4, <1>5 DEF ActiveIDs, IDs
<1> QED
  BY <1>1, <1>2, <1>3, <1>4, <1>5, <1>6

(* Nobody is both active and inactive. *)
LEMMA InactiveIDs ==
    ASSUME NEW list \in Lists
    PROVE  {list[i].ID : i \in InactiveAt(list)} = IDs(list) \ ActiveIDs(list)
<1>0. /\ NoTwice(list) /\ DOMAIN list = 1..Len(list)
      /\ ActiveAt(list) \in SUBSET (1..Len(list))
      /\ InactiveAt(list) \in SUBSET (1..Len(list))
      /\ \A i \in 1..Len(list) : i \in InactiveAt(list) <=> i \notin ActiveAt(list)
  BY ListFacts DEF ActiveAt, InactiveAt
<1>1. ASSUME NEW i \in InactiveAt(list) PROVE list[i].ID \in IDs(list) \ ActiveIDs(list)
  BY <1>0 DEF IDs, ActiveIDs, NoTwice
<1>2. ASSUME NEW c \in IDs(list) \ ActiveIDs(list)
      PROVE  \E i \in InactiveAt(list) : c = list[i].ID
  BY <1>0 DEF IDs, ActiveIDs
<1> QED
  BY <1>1, <1>2

(* The empty list, and one without active or inactive subscribers. *)
LEMMA EmptyIs ==
    ASSUME NEW list \in Lists
    PROVE  /\ list = <<>> <=> IDs(list) = {}
           /\ ActiveAt(list) = {} <=> ActiveIDs(list) = {}
           /\ InactiveAt(list) = {} <=> IDs(list) = ActiveIDs(list)
<1>0. /\ Len(list) \in Nat /\ DOMAIN list = 1..Len(list) /\ list \in Seq(Subscriber)
      /\ ActiveIDs(list) \subseteq IDs(list)
  BY ListFacts
<1>1. list = <<>> <=> DOMAIN list = {}
  <2>1. list = <<>> <=> Len(list) = 0
    BY <1>0
  <2> QED
    BY <1>0, <2>1
<1>2. DOMAIN list = {} <=> IDs(list) = {}
  BY DEF IDs
<1>3. ActiveAt(list) = {} <=> ActiveIDs(list) = {}
  BY DEF ActiveIDs
<1>4. InactiveAt(list) = {} <=> {list[i].ID : i \in InactiveAt(list)} = {}
  OBVIOUS
<1>5. InactiveAt(list) = {} <=> IDs(list) \ ActiveIDs(list) = {}
  BY <1>4, InactiveIDs
<1> QED
  BY <1>0, <1>1, <1>2, <1>3, <1>5

(* The empty list. *)
LEMMA NoneIs == <<>> \in Lists /\ IDs(<<>>) = {} /\ ActiveIDs(<<>>) = {}
<1>1. <<>> \in Lists
  BY DEF Lists, NoTwice
<1> QED
  BY <1>1, EmptyIs, ListFacts

(* What is kept of a list is a list of those at the places. *)
LEMMA KeepIDs ==
    ASSUME NEW list \in Lists, NEW places \in SUBSET (1..Len(list)),
           NEW kept, kept = Keep(list, places)
    PROVE  /\ kept \in Lists
           /\ IDs(kept) = {list[i].ID : i \in places}
           /\ ActiveIDs(kept) = {list[i].ID : i \in places \cap ActiveAt(list)}
<1>f. /\ list \in Seq(Subscriber) /\ NoTwice(list) /\ Len(list) \in Nat
      /\ DOMAIN list = 1..Len(list)
  BY ListFacts
<1>0. /\ list \in Seq(Subscriber) /\ NoTwice(list) /\ Len(list) \in Nat
      /\ DOMAIN list = 1..Len(list) /\ \A i \in places : i \in 1..Len(list) /\ i <= Len(list)
  BY <1>f
<1>1. KeepsUpTo(list, places, Len(list), Subscriber, kept)
  BY <1>0, KeepIs
<1>2. kept \in Seq(Subscriber) /\ DOMAIN kept = 1..Len(kept) /\ Len(kept) \in Nat
  BY <1>1 DEF KeepsUpTo
<1>3. ASSUME NEW j \in 1..Len(kept), NEW k \in 1..Len(kept), kept[j].ID = kept[k].ID, j # k
      PROVE  FALSE
  <2>1. ASSUME NEW a \in 1..Len(kept), NEW b \in 1..Len(kept), a < b PROVE kept[a].ID # kept[b].ID
    <3>1. PICK x \in places, y \in places :
            x < y /\ y <= Len(list) /\ kept[a] = list[x] /\ kept[b] = list[y]
      BY <1>1, <2>1 DEF KeepsUpTo
    <3> QED
      BY <1>0, <3>1 DEF NoTwice
  <2>2. j < k \/ k < j
    BY <1>2, <1>3
  <2> QED
    BY <1>3, <2>1, <2>2
<1>4. kept \in Lists
  BY <1>2, <1>3 DEF Lists, NoTwice
<1>5. /\ \A j \in 1..Len(kept) : \E i \in places : kept[j] = list[i]
      /\ \A i \in places : \E j \in 1..Len(kept) : kept[j] = list[i]
  BY <1>0, <1>1 DEF KeepsUpTo
<1>6. IDs(kept) = {list[i].ID : i \in places}
  <2>1. IDs(kept) = {kept[j].ID : j \in 1..Len(kept)}
    BY <1>2 DEF IDs
  <2>2. \A j \in 1..Len(kept) : \E i \in places : kept[j].ID = list[i].ID
    BY <1>5
  <2>3. \A i \in places : \E j \in 1..Len(kept) : list[i].ID = kept[j].ID
    BY <1>5
  <2>4. PICK there : there = {list[i].ID : i \in places}
    OBVIOUS
  <2>5. {kept[j].ID : j \in 1..Len(kept)} \subseteq there
    BY <2>2, <2>4
  <2>6. there \subseteq {kept[j].ID : j \in 1..Len(kept)}
    BY <2>3, <2>4
  <2> QED
    BY <2>1, <2>4, <2>5, <2>6
<1>7. ActiveIDs(kept) = {list[i].ID : i \in places \cap ActiveAt(list)}
  <2>1. \A i \in places : i \in ActiveAt(list) <=> ~list[i].mIsInactive
    BY <1>0 DEF ActiveAt
  <2>2. \A j \in 1..Len(kept) : j \in ActiveAt(kept) <=> ~kept[j].mIsInactive
    BY <1>2 DEF ActiveAt
  <2>3. ActiveAt(kept) \subseteq 1..Len(kept)
    BY <1>2 DEF ActiveAt
  <2>4. ASSUME NEW j \in ActiveAt(kept)
        PROVE  \E i \in places \cap ActiveAt(list) : kept[j].ID = list[i].ID
    BY <1>5, <2>1, <2>2, <2>3
  <2>5. ASSUME NEW i \in places \cap ActiveAt(list)
        PROVE  \E j \in ActiveAt(kept) : list[i].ID = kept[j].ID
    BY <1>5, <2>1, <2>2
  <2>6. PICK there : there = {list[i].ID : i \in places \cap ActiveAt(list)}
    OBVIOUS
  <2>7. \A x : x \in there <=> \E i \in places \cap ActiveAt(list) : x = list[i].ID
    BY <2>6
  <2>8. \A x : x \in ActiveIDs(kept) <=> \E j \in ActiveAt(kept) : x = kept[j].ID
    BY DEF ActiveIDs
  <2>9. \A x \in ActiveIDs(kept) : x \in there
    BY <2>4, <2>7, <2>8
  <2>10. \A x \in there : x \in ActiveIDs(kept)
    BY <2>5, <2>7, <2>8
  <2> QED
    BY <2>6, <2>9, <2>10
<1> QED
  BY <1>4, <1>6, <1>7

(* The active subscribers are a list of their own. *)
LEMMA ActiveIs ==
    ASSUME NEW list \in Lists
    PROVE  /\ Active(list) \in Lists
           /\ IDs(Active(list)) = ActiveIDs(list) /\ ActiveIDs(Active(list)) = ActiveIDs(list)
<1>1. PICK places : places = ActiveAt(list)
  OBVIOUS
<1>2. places \in SUBSET (1..Len(list)) /\ places \cap ActiveAt(list) = places
  BY <1>1, ListFacts
<1>3. PICK kept : kept = Keep(list, places)
  OBVIOUS
<1>4. /\ kept \in Lists /\ IDs(kept) = {list[i].ID : i \in places}
      /\ ActiveIDs(kept) = {list[i].ID : i \in places}
  BY <1>2, <1>3, KeepIDs
<1>5. ActiveIDs(list) = {list[i].ID : i \in places} /\ Active(list) = kept
  BY <1>1, <1>3 DEF ActiveIDs, Active
<1> QED
  BY <1>4, <1>5

(* So are the inactive ones. *)
LEMMA InactiveIs ==
    ASSUME NEW list \in Lists
    PROVE  /\ Inactive(list) \in Lists
           /\ IDs(Inactive(list)) = IDs(list) \ ActiveIDs(list)
<1>1. InactiveAt(list) \in SUBSET (1..Len(list))
  BY ListFacts
<1> QED
  BY <1>1, KeepIDs, InactiveIDs DEF Inactive

(* The first of a list that is not empty is on it. *)
LEMMA HeadIs ==
    ASSUME NEW list \in Lists, ActiveIDs(list) # {}
    PROVE  Head(Active(list)).ID \in Clients
<1>1. PICK kept : kept = Active(list)
  OBVIOUS
<1>2. kept \in Lists /\ kept # <<>>
  BY <1>1, ActiveIs, EmptyIs
<1>3. kept \in Seq(Subscriber) /\ Len(kept) \in Nat /\ Len(kept) # 0
  BY <1>2, ListFacts
<1>4. Head(kept) = kept[1] /\ 1 \in 1..Len(kept)
  BY <1>3
<1> QED
  BY <1>1, <1>2, <1>4, ListFacts

(* Who is on a list after the subscriber was made inactive or was removed. *)
LEMMA WithoutIs ==
    ASSUME NEW m, NEW list \in Lists, NEW c, NEW left, left = Without(m, list, c)
    PROVE  /\ left \in Lists
           /\ IDs(left) = IF waitForCloseComplete(m) THEN IDs(list) ELSE IDs(list) \ {c}
           /\ ActiveIDs(left) = ActiveIDs(list) \ {c}
<1>0. /\ list \in Seq(Subscriber) /\ NoTwice(list) /\ Len(list) \in Nat
      /\ DOMAIN list = 1..Len(list)
      /\ \A i \in 1..Len(list) :
           list[i] \in Subscriber /\ list[i].ID \in Clients /\ list[i].mIsInactive \in BOOLEAN
  BY ListFacts
<1>1. CASE waitForCloseComplete(m)
  <2>1. left = [i \in 1..Len(list) |->
                  [list[i] EXCEPT !.mIsInactive = list[i].mIsInactive \/ list[i].ID = c]]
    BY <1>0, <1>1 DEF Without
  <2>2. ASSUME NEW i \in 1..Len(list)
        PROVE  /\ left[i] \in Subscriber /\ left[i].ID = list[i].ID
               /\ ~left[i].mIsInactive <=> ~list[i].mIsInactive /\ list[i].ID # c
    BY <1>0, <2>1, ZenonT(60) DEF Subscriber
  <2>3. left \in Seq(Subscriber) /\ Len(left) = Len(list) /\ DOMAIN left = 1..Len(list)
    <3>1. left \in [1..Len(list) -> Subscriber]
      <4>1. DOMAIN left = 1..Len(list) /\ left = [i \in 1..Len(list) |-> left[i]]
        BY <2>1
      <4> HIDE DEF Subscriber
      <4> QED
        BY <2>2, <4>1
    <3> QED
      BY <1>0, <3>1
  <2>4. left \in Lists
    BY <1>0, <2>2, <2>3 DEF Lists, NoTwice
  <2>5. IDs(left) = IDs(list)
    BY <1>0, <2>2, <2>3 DEF IDs
  <2>6. ActiveIDs(left) = ActiveIDs(list) \ {c}
    <3>1. \A i \in 1..Len(list) :
            i \in ActiveAt(left) <=> i \in ActiveAt(list) /\ list[i].ID # c
      BY <1>0, <2>2, <2>3 DEF ActiveAt
    <3>2. ActiveAt(left) \subseteq 1..Len(list) /\ ActiveAt(list) \subseteq 1..Len(list)
      BY <1>0, <2>3 DEF ActiveAt
    <3>3. ASSUME NEW i \in ActiveAt(left) PROVE left[i].ID \in ActiveIDs(list) \ {c}
      BY <2>2, <3>1, <3>2 DEF ActiveIDs
    <3>4. ASSUME NEW i \in ActiveAt(list), list[i].ID # c
          PROVE  \E j \in ActiveAt(left) : list[i].ID = left[j].ID
      BY <2>2, <3>1, <3>2, <3>4
    <3> QED
      BY <3>3, <3>4 DEF ActiveIDs
  <2> QED
    BY <1>1, <2>4, <2>5, <2>6
<1>2. CASE ~waitForCloseComplete(m)
  <2> DEFINE places == {i \in DOMAIN list : list[i].ID # c}
  <2>1. left = Keep(list, places) /\ places \in SUBSET (1..Len(list))
    BY <1>0, <1>2 DEF Without
  <2>2. /\ left \in Lists
        /\ IDs(left) = {list[i].ID : i \in places}
        /\ ActiveIDs(left) = {list[i].ID : i \in places \cap ActiveAt(list)}
    <3> HIDE DEF places
    <3> QED
      BY <2>1, KeepIDs
  <2>3. {list[i].ID : i \in places} = IDs(list) \ {c}
    BY DEF IDs
  <2>4. {list[i].ID : i \in places \cap ActiveAt(list)} = ActiveIDs(list) \ {c}
    BY DEF ActiveIDs, ActiveAt
  <2> QED
    BY <1>2, <2>2, <2>3, <2>4
<1> QED
  BY <1>1, <1>2

(* Who is on a list with the subscriber. *)
Added(list, more, c) ==
    /\ more \in Lists /\ IDs(more) = IDs(list) \cup {c}
    /\ ActiveIDs(more) = IF c \in IDs(list) THEN ActiveIDs(list) ELSE ActiveIDs(list) \cup {c}

(* A subscriber is added once. *)
LEMMA AddIs ==
    ASSUME NEW list \in Lists, NEW c \in Clients
    PROVE  Added(list, addSubscriber(list, c), c)
<1>0. /\ list \in Seq(Subscriber) /\ NoTwice(list) /\ Len(list) \in Nat
      /\ DOMAIN list = 1..Len(list)
      /\ \A i \in 1..Len(list) : list[i].ID \in Clients /\ list[i].mIsInactive \in BOOLEAN
  BY ListFacts
<1>1. CASE c \in IDs(list)
  BY <1>1 DEF addSubscriber, Added
<1>2. CASE c \notin IDs(list)
  <2>1. PICK s : s = [ID |-> c, mIsInactive |-> FALSE]
    OBVIOUS
  <2>2. s \in Subscriber /\ s.ID = c /\ ~s.mIsInactive
    BY <2>1 DEF Subscriber
  <2>3. PICK more : more = <<s>> \o list
    OBVIOUS
  <2>4. /\ more \in Seq(Subscriber) /\ Len(more) = Len(list) + 1 /\ DOMAIN more = 1..Len(more)
        /\ more[1] = s /\ 1 \in 1..Len(more)
        /\ \A i \in 1..Len(list) : i + 1 \in 1..Len(more) /\ more[i + 1] = list[i]
        /\ \A i \in 1..Len(more) : i # 1 => i - 1 \in 1..Len(list) /\ more[i] = list[i - 1]
    BY <1>0, <2>2, <2>3
  <2>5. \A i \in 1..Len(list) : list[i].ID # c
    BY <1>0, <1>2 DEF IDs
  <2>6. more \in Lists
    <3>1. ASSUME NEW i \in 1..Len(more), NEW j \in 1..Len(more), more[i].ID = more[j].ID
          PROVE  i = j
      <4>1. CASE i = 1 \/ j = 1
        BY <2>2, <2>4, <2>5, <3>1, <4>1
      <4>2. CASE i # 1 /\ j # 1
        <5>1. i - 1 \in 1..Len(list) /\ j - 1 \in 1..Len(list)
              /\ list[i - 1].ID = list[j - 1].ID
          BY <2>4, <3>1, <4>2
        <5>2. i - 1 = j - 1
          BY <1>0, <5>1 DEF NoTwice
        <5> QED
          BY <1>0, <5>2
      <4> QED
        BY <4>1, <4>2
    <3> QED
      BY <2>4, <3>1 DEF Lists, NoTwice
  <2>7. IDs(more) = IDs(list) \cup {c}
    <3>0. IDs(more) = {more[i].ID : i \in 1..Len(more)}
      BY <2>4 DEF IDs
    <3>1. ASSUME NEW i \in 1..Len(more) PROVE more[i].ID \in IDs(list) \cup {c}
      BY <1>0, <2>2, <2>4 DEF IDs
    <3>2. ASSUME NEW d \in IDs(list) \cup {c} PROVE \E i \in 1..Len(more) : d = more[i].ID
      BY <1>0, <2>2, <2>4 DEF IDs
    <3> QED
      BY <3>0, <3>1, <3>2
  <2>8. ActiveIDs(more) = ActiveIDs(list) \cup {c}
    <3>1. /\ ActiveAt(more) \subseteq 1..Len(more) /\ ActiveAt(list) \subseteq 1..Len(list)
          /\ \A i \in 1..Len(list) : i \in ActiveAt(list) <=> ~list[i].mIsInactive
          /\ \A i \in 1..Len(more) : i \in ActiveAt(more) <=> ~more[i].mIsInactive
      BY <1>0, <2>4 DEF ActiveAt
    <3>2. ASSUME NEW i \in ActiveAt(more) PROVE more[i].ID \in ActiveIDs(list) \cup {c}
      <4>1. CASE i = 1
        BY <2>2, <2>4, <4>1
      <4>2. CASE i # 1
        <5>1. i - 1 \in ActiveAt(list) /\ more[i] = list[i - 1]
          BY <2>4, <3>1, <4>2
        <5> QED
          BY <5>1 DEF ActiveIDs
      <4> QED
        BY <4>1, <4>2
    <3>3. ASSUME NEW d \in ActiveIDs(list) \cup {c} PROVE \E i \in ActiveAt(more) : d = more[i].ID
      <4>1. CASE d = c
        BY <2>2, <2>4, <3>1, <4>1
      <4>2. CASE d # c
        <5>1. PICK i \in ActiveAt(list) : d = list[i].ID
          BY <3>3, <4>2 DEF ActiveIDs
        <5>2. i + 1 \in ActiveAt(more) /\ more[i + 1].ID = d
          BY <2>4, <3>1, <5>1
        <5> QED
          BY <5>2
      <4> QED
        BY <4>1, <4>2
    <3> QED
      BY <3>2, <3>3 DEF ActiveIDs
  <2>9. addSubscriber(list, c) = more
    BY <1>2, <2>1, <2>3 DEF addSubscriber
  <2> QED
    BY <1>2, <2>6, <2>7, <2>8, <2>9 DEF Added
<1> QED
  BY <1>1, <1>2

-----------------------------------------------------------------------------
(* The notifications of a step: who is told, and what. *)
Told(told, status) == [ID : told, status : {status}]
Tells(notes, told, status) ==
    /\ notes \in Seq(Told(told, status))
    /\ \A c \in told : \E i \in 1..Len(notes) : notes[i].ID = c

(* A note to each of a list tells those on it. *)
LEMMA NotesIs ==
    ASSUME NEW list \in Lists, NEW status
    PROVE  Tells(Notes(list, status), IDs(list), status)
<1>0. DOMAIN list = 1..Len(list) /\ Len(list) \in Nat
  BY ListFacts
<1>1. PICK told : told = IDs(list)
  OBVIOUS
<1>2. PICK notes : notes = Notes(list, status)
  OBVIOUS
<1>3. notes = [i \in 1..Len(list) |-> [ID |-> list[i].ID, status |-> status]]
  BY <1>0, <1>2 DEF Notes, Note
<1>4. \A i \in 1..Len(list) : list[i].ID \in told
  BY <1>0, <1>1 DEF IDs
<1>5. notes \in Seq(Told(told, status)) /\ Len(notes) = Len(list)
  <2>1. notes \in [1..Len(list) -> Told(told, status)]
    BY <1>3, <1>4 DEF Told
  <2> QED
    BY <1>0, <2>1
<1>6. ASSUME NEW c \in told PROVE \E i \in 1..Len(notes) : notes[i].ID = c
  <2>1. PICK i \in 1..Len(list) : list[i].ID = c
    BY <1>0, <1>1 DEF IDs
  <2> QED
    BY <1>3, <1>5, <2>1
<1> QED
  BY <1>1, <1>2, <1>5, <1>6 DEF Tells

(* A note to one tells that one. *)
LEMMA NotesOfOne ==
    ASSUME NEW c, NEW status
    PROVE  Tells(<<Note(c, status)>>, {c}, status) /\ Tells(<<>>, {}, status)
<1>1. PICK note : note = Note(c, status)
  OBVIOUS
<1>2. note \in Told({c}, status) /\ note.ID = c
  BY <1>1 DEF Note, Told
<1> QED
  BY <1>1, <1>2 DEF Tells

(* Who of them asks for agnss instead asks with a request of its own. *)
LEMMA FallbackIs ==
    ASSUME NEW notes, NEW told \in SUBSET Clients, NEW status, Tells(notes, told, status)
    PROVE  Fallback(notes) \in Seq([what : {"request"}, id : Clients, nif : {"agnss"}])
<1>1. PICK S : S = Told(told, status)
  OBVIOUS
<1>2. notes \in Seq(S) /\ DOMAIN notes = 1..Len(notes)
  BY <1>1 DEF Tells
<1>3. PICK denied : denied = Keep(notes, Denied(notes))
  OBVIOUS
<1>4. Denied(notes) \in SUBSET (1..Len(notes))
  BY <1>2 DEF Denied
<1>5. denied \in Seq(S)
  BY <1>2, <1>3, <1>4, KeepIs DEF KeepsUpTo
<1>6. DOMAIN denied = 1..Len(denied) /\ Len(denied) \in Nat
      /\ \A i \in 1..Len(denied) : denied[i].ID \in Clients
  <2>1. /\ DOMAIN denied = 1..Len(denied) /\ Len(denied) \in Nat
        /\ \A i \in 1..Len(denied) : denied[i] \in S
    BY <1>5
  <2>2. \A note \in S : note.ID \in Clients
    BY <1>1 DEF Told
  <2> QED
    BY <2>1, <2>2
<1>7. Fallback(notes) = [i \in 1..Len(denied) |-> Message("request", denied[i].ID, "agnss")]
  BY <1>3, <1>6 DEF Fallback
<1>8. \A i \in 1..Len(denied) :
        Message("request", denied[i].ID, "agnss")
          \in [what : {"request"}, id : Clients, nif : {"agnss"}]
  BY <1>6 DEF Message
<1> QED
  BY <1>6, <1>7, <1>8

-----------------------------------------------------------------------------
(* The machines.  A machine without a NIF has no subscribers, that of the  *)
(* emergency calls no inactive ones; one that gives it back has one that   *)
(* waits for that; only those that wait for that are inactive.  Unless the *)
(* modem restarted, who has or expects the NIF has somebody who wants it.  *)
Machines == [mStatePtr : States, mSubscribers : Lists]
Members(s) == IDs(s.mSubscribers)
Wanting(s) == ActiveIDs(s.mSubscribers)

Matched(m, s, started) ==
    /\ s.mStatePtr = "Released" => Members(s) = IF m = "ds" THEN Wanting(s) ELSE {}
    /\ s.mStatePtr = "Releasing" /\ m # "ds" => Members(s) # Wanting(s)
    /\ ~waitForCloseComplete(m) => Members(s) = Wanting(s)
    /\ s.mStatePtr \in {"Pending", "Acquired"} /\ m # "ds" /\ started = 0 => Wanting(s) # {}

(* A step is to a machine, tells some subscribers one thing and asks for   *)
(* the NIF only for somebody who wants it. *)
Sends == {"nothing", "REQUEST", "RELEASE"}
Stepped(step, told, status) ==
    /\ step.mStatePtr \in States /\ step.mSubscribers \in Lists
    /\ told \in SUBSET Clients /\ status \in Statuses \cup {"UNSUBSCRIBE"}
    /\ Tells(step.notes, told, status)
    /\ step.send \in Sends /\ (step.send = "REQUEST" => Wanting(step) # {})

Same(s, step) == step.mStatePtr = s.mStatePtr /\ step.mSubscribers = s.mSubscribers

(* Ignoring an event is a step. *)
LEMMA Ignoring ==
    ASSUME NEW s \in Machines, NEW step, step = Ignore(s)
    PROVE  Same(s, step) /\ step.send = "nothing" /\ Stepped(step, {}, "GRANTED")
<1>1. step.mStatePtr = s.mStatePtr /\ step.mSubscribers = s.mSubscribers
      /\ step.notes = <<>> /\ step.send = "nothing"
  BY DEF Ignore, Step
<1>2. s.mStatePtr \in States /\ s.mSubscribers \in Lists
  BY DEF Machines
<1> QED
  BY <1>1, <1>2, NotesOfOne DEF Same, Stepped, Statuses, Sends

Joins(m, s, c, sent, step) ==
    \/ /\ m = "wifi" /\ Members(s) # {} /\ Same(s, step) /\ step.send = "nothing"
       /\ Stepped(step, {c}, "DENIED")
    \/ /\ s.mStatePtr = "Released" /\ step.mStatePtr = IF sent THEN "Pending" ELSE "Released"
       /\ step.send = "REQUEST" /\ Stepped(step, {}, "GRANTED")
       /\ Added(s.mSubscribers, step.mSubscribers, c) /\ Wanting(step) = Wanting(s) \cup {c}
    \/ /\ s.mStatePtr = "Acquired" /\ step.mStatePtr = "Acquired"
       /\ step.send = "nothing" /\ Stepped(step, {c}, "GRANTED")
       /\ Added(s.mSubscribers, step.mSubscribers, c) /\ (m = "wifi" => Members(s) = {})
    \/ /\ s.mStatePtr \in {"Pending", "Releasing"} /\ step.mStatePtr = s.mStatePtr
       /\ step.send = "nothing" /\ Stepped(step, {}, "GRANTED")
       /\ Added(s.mSubscribers, step.mSubscribers, c) /\ (m = "wifi" => Members(s) = {})

(* onSubscribe and subscribeRsrc join the subscriber to the machine. *)
LEMMA Subscribing ==
    ASSUME NEW m, NEW s \in Machines, NEW c \in Clients, NEW sent \in BOOLEAN, NEW started,
           Matched(m, s, started), m # "ds" => sent,
           NEW step, step = subscribeRsrc(m, s, c, sent)
    PROVE  Joins(m, s, c, sent, step) /\ Matched(m, step, started)
<1>0. s.mStatePtr \in States /\ s.mSubscribers \in Lists
  BY DEF Machines
<1>1. CASE mEnforceSingleSubscriber(m) /\ s.mSubscribers # <<>>
  <2>1. /\ Same(s, step) /\ step.send = "nothing" /\ step.notes = <<Note(c, "DENIED")>>
    BY <1>1 DEF subscribeRsrc, Step, Same
  <2>2. m = "wifi" /\ Members(s) # {}
    BY <1>0, <1>1, EmptyIs DEF mEnforceSingleSubscriber, Members
  <2>3. Stepped(step, {c}, "DENIED")
    BY <1>0, <2>1, NotesOfOne DEF Stepped, Same, Statuses, Sends
  <2>4. Matched(m, step, started)
    BY <2>1 DEF Matched, Same, Members, Wanting
  <2> QED
    BY <2>1, <2>2, <2>3, <2>4 DEF Joins
<1>2. CASE ~(mEnforceSingleSubscriber(m) /\ s.mSubscribers # <<>>)
  <2>1. step = onSubscribe(m, s, c, sent)
    BY <1>2 DEF subscribeRsrc
  <2>2. m = "wifi" => Members(s) = {}
    BY <1>0, <1>2, EmptyIs DEF mEnforceSingleSubscriber, Members
  <2>3. PICK more : more = addSubscriber(s.mSubscribers, c)
    OBVIOUS
  <2>4. Added(s.mSubscribers, more, c)
    BY <1>0, <2>3, AddIs
  <2>5. more \in Lists /\ ActiveIDs(s.mSubscribers) \subseteq IDs(s.mSubscribers)
    BY <1>0, <2>4, ListFacts DEF Added
  <2>6. CASE s.mStatePtr = "Released"
    <3>1. /\ step.mStatePtr = IF sent THEN "Pending" ELSE "Released"
          /\ step.mSubscribers = more /\ step.notes = <<>>
          /\ step.send = sendRsrcRequest(m, more, "REQUEST")
      BY <2>1, <2>3, <2>6 DEF onSubscribe, Step
    <3>2. Wanting(step) = Wanting(s) \cup {c} /\ Members(step) = Members(s) \cup {c}
      BY <2>4, <2>6, <3>1 DEF Added, Matched, Members, Wanting
    <3>3. step.send = "REQUEST"
      <4>1. ActiveAt(more) # {}
        BY <2>5, <3>1, <3>2, EmptyIs DEF Wanting
      <4> QED
        BY <3>1, <4>1 DEF sendRsrcRequest
    <3>4. Stepped(step, {}, "GRANTED")
      BY <2>5, <3>1, <3>2, <3>3, NotesOfOne DEF Stepped, Statuses, Sends, States
    <3>5. Matched(m, step, started)
      BY <2>6, <3>1, <3>2 DEF Matched
    <3> QED
      BY <2>4, <2>6, <3>1, <3>2, <3>3, <3>4, <3>5 DEF Joins
  <2>7. CASE s.mStatePtr = "Acquired"
    <3>1. /\ step.mStatePtr = "Acquired" /\ step.mSubscribers = more
          /\ step.notes = <<Note(c, "GRANTED")>> /\ step.send = "nothing"
      BY <2>1, <2>3, <2>7 DEF onSubscribe, Step
    <3>2. Stepped(step, {c}, "GRANTED")
      BY <2>5, <3>1, NotesOfOne DEF Stepped, Statuses, Sends, States
    <3>3. Matched(m, step, started)
      BY <2>4, <2>5, <2>7, <3>1 DEF Matched, Added, Members, Wanting
    <3> QED
      BY <2>2, <2>4, <2>7, <3>1, <3>2, <3>3 DEF Joins
  <2>8. CASE s.mStatePtr \in {"Pending", "Releasing"}
    <3>1. /\ step.mStatePtr = s.mStatePtr /\ step.mSubscribers = more
          /\ step.notes = <<>> /\ step.send = "nothing"
      BY <2>1, <2>3, <2>8 DEF onSubscribe, Step
    <3>2. Stepped(step, {}, "GRANTED")
      BY <1>0, <2>5, <3>1, NotesOfOne DEF Stepped, Statuses, Sends
    <3>3. Matched(m, step, started)
      BY <2>2, <2>4, <2>5, <2>8, <3>1 DEF Matched, Added, Members, Wanting, waitForCloseComplete
    <3> QED
      BY <2>2, <2>4, <2>8, <3>1, <3>2, <3>3 DEF Joins
  <2> QED
    BY <1>0, <2>6, <2>7, <2>8 DEF States
<1> QED
  BY <1>1, <1>2

Leaves(m, s, c, step) ==
    /\ Stepped(step, {c}, "UNSUBSCRIBE")
    /\ \/ m = "ds" /\ s.mStatePtr = "Released" /\ Same(s, step) /\ step.send = "nothing"
       \/ /\ s.mStatePtr # "Released"
          /\ Members(step) = IF waitForCloseComplete(m) THEN Members(s) ELSE Members(s) \ {c}
          /\ Wanting(step) = Wanting(s) \ {c}
          /\ step.mStatePtr = IF Members(step) = {} THEN "Released"
                              ELSE IF Wanting(step) = {} THEN "Releasing" ELSE s.mStatePtr
          /\ step.send = IF step.mStatePtr = s.mStatePtr \/ s.mStatePtr = "Releasing"
                         THEN "nothing" ELSE "RELEASE"

(* onUnsubscribe makes the subscriber leave. *)
LEMMA Unsubscribing ==
    ASSUME NEW m, NEW s \in Machines, NEW c \in Clients, c \in Members(s), NEW started,
           Matched(m, s, started), NEW step, step = onUnsubscribe(m, s, c)
    PROVE  Leaves(m, s, c, step) /\ Matched(m, step, started)
<1>0. s.mStatePtr \in States /\ s.mSubscribers \in Lists
  BY DEF Machines
<1>l. PICK list : list = s.mSubscribers
  OBVIOUS
<1>1. PICK left : left = Without(m, list, c)
  OBVIOUS
<1>2. /\ left \in Lists
      /\ IDs(left) = IF waitForCloseComplete(m) THEN Members(s) ELSE Members(s) \ {c}
      /\ ActiveIDs(left) = Wanting(s) \ {c}
  <2>1. /\ left \in Lists
        /\ IDs(left) = IF waitForCloseComplete(m) THEN IDs(list) ELSE IDs(list) \ {c}
        /\ ActiveIDs(left) = ActiveIDs(list) \ {c}
    <3>1. list \in Lists
      BY <1>0, <1>l
    <3> QED
      BY <1>1, <3>1, WithoutIs
  <2> QED
    BY <1>l, <2>1 DEF Members, Wanting
<1>3. step.notes = <<Note(c, "UNSUBSCRIBE")>>
  BY DEF onUnsubscribe, Step
<1>4. CASE s.mStatePtr = "Released"
  <2>1. Same(s, step) /\ step.send = "nothing"
    BY <1>4 DEF onUnsubscribe, Step, Same
  <2>2. m = "ds"
    BY <1>4 DEF Matched
  <2>3. Stepped(step, {c}, "UNSUBSCRIBE")
    BY <1>0, <1>3, <2>1, NotesOfOne DEF Stepped, Same, Sends
  <2>4. Matched(m, step, started)
    BY <2>1 DEF Matched, Same, Members, Wanting
  <2> QED
    BY <1>4, <2>1, <2>2, <2>3, <2>4 DEF Leaves
<1>5. CASE s.mStatePtr # "Released"
  <2>1. PICK last : last = IF left = <<>> THEN "Released"
                           ELSE IF ActiveAt(left) = {} THEN "Releasing" ELSE s.mStatePtr
    OBVIOUS
  <2>2. /\ step.mStatePtr = last /\ step.mSubscribers = left
        /\ step.send = IF last = s.mStatePtr \/ s.mStatePtr = "Releasing" THEN "nothing"
                       ELSE sendRsrcRequest(m, left, "RELEASE")
    BY <1>l, <1>1, <1>5, <2>1 DEF onUnsubscribe, Step
  <2>3. /\ left = <<>> <=> Members(step) = {}
        /\ ActiveAt(left) = {} <=> Wanting(step) = {}
        /\ Wanting(step) \subseteq Members(step)
    BY <1>2, <2>2, EmptyIs, ListFacts DEF Members, Wanting
  <2>4. last # s.mStatePtr => sendRsrcRequest(m, left, "RELEASE") = "RELEASE"
    <3>1. last # s.mStatePtr => ActiveAt(left) = {}
      BY <2>1, <2>3
    <3> QED
      BY <3>1 DEF sendRsrcRequest
  <2>5. Stepped(step, {c}, "UNSUBSCRIBE")
    <3>1. last \in States
      BY <1>0, <2>1 DEF States
    <3> QED
      BY <1>2, <1>3, <2>2, <2>4, <3>1, NotesOfOne DEF Stepped, Sends
  <2>6. /\ Members(step) = IF waitForCloseComplete(m) THEN Members(s) ELSE Members(s) \ {c}
        /\ Wanting(step) = Wanting(s) \ {c}
    BY <1>2, <2>2 DEF Members, Wanting
  <2>7. step.mStatePtr = IF Members(step) = {} THEN "Released"
                         ELSE IF Wanting(step) = {} THEN "Releasing" ELSE s.mStatePtr
    BY <2>1, <2>2, <2>3
  <2>8. Matched(m, step, started)
    <3>1. step.mStatePtr = "Released" => Members(step) = {} /\ Wanting(step) = {}
      BY <1>5, <2>3, <2>7
    <3>2. step.mStatePtr = "Releasing" /\ m # "ds" => Members(step) # Wanting(step)
      BY <2>3, <2>6, <2>7 DEF Matched
    <3>3. ~waitForCloseComplete(m) => Members(step) = Wanting(step)
      BY <2>6 DEF Matched
    <3>4. step.mStatePtr \in {"Pending", "Acquired"} => Wanting(step) # {}
      BY <2>7
    <3> QED
      BY <3>1, <3>2, <3>3, <3>4 DEF Matched
  <2>9. step.send = IF step.mStatePtr = s.mStatePtr \/ s.mStatePtr = "Releasing"
                    THEN "nothing" ELSE "RELEASE"
    BY <2>2, <2>4
  <2> QED
    BY <1>5, <2>5, <2>6, <2>7, <2>8, <2>9 DEF Leaves
<1> QED
  BY <1>4, <1>5

(* What an answer of the provider of a NIF does to the machine. *)
Gets(s, step) ==
    /\ step.mSubscribers = s.mSubscribers /\ step.send = "nothing"
    /\ \/ /\ s.mStatePtr = "Pending" /\ step.mStatePtr = "Acquired"
          /\ Stepped(step, Wanting(s), "GRANTED")
       \/ /\ s.mStatePtr # "Pending" /\ step.mStatePtr = s.mStatePtr
          /\ Stepped(step, {}, "GRANTED")

(* onGranted gives the NIF to those that want it. *)
LEMMA Getting ==
    ASSUME NEW m, NEW s \in Machines, NEW started, Matched(m, s, started),
           NEW step, step = onGranted(s)
    PROVE  Gets(s, step) /\ Matched(m, step, started)
<1>0. s.mStatePtr \in States /\ s.mSubscribers \in Lists
  BY DEF Machines
<1>1. CASE s.mStatePtr = "Pending"
  <2>1. /\ step.mStatePtr = "Acquired" /\ step.mSubscribers = s.mSubscribers
        /\ step.notes = Notes(Active(s.mSubscribers), "GRANTED") /\ step.send = "nothing"
    BY <1>1 DEF onGranted, Step
  <2>2. Tells(step.notes, Wanting(s), "GRANTED")
    <3>1. PICK list : list = Active(s.mSubscribers)
      OBVIOUS
    <3>2. list \in Lists /\ IDs(list) = Wanting(s)
      BY <1>0, <3>1, ActiveIs DEF Wanting
    <3> QED
      BY <2>1, <3>1, <3>2, NotesIs
  <2>3. Wanting(s) \subseteq Clients
    BY <1>0, ListFacts DEF Wanting
  <2>4. Stepped(step, Wanting(s), "GRANTED")
    BY <1>0, <2>1, <2>2, <2>3 DEF Stepped, States, Statuses, Sends
  <2>5. Matched(m, step, started)
    BY <1>1, <2>1 DEF Matched, Members, Wanting
  <2> QED
    BY <1>1, <2>1, <2>4, <2>5 DEF Gets
<1>2. CASE s.mStatePtr # "Pending"
  <2>1. step = Ignore(s)
    BY <1>2 DEF onGranted
  <2>2. Same(s, step) /\ step.send = "nothing" /\ Stepped(step, {}, "GRANTED")
    BY <2>1, Ignoring
  <2> QED
    BY <1>2, <2>2 DEF Gets, Same, Matched, Members, Wanting
<1> QED
  BY <1>1, <1>2

Loses(s, step, status, from) ==
    \/ /\ s.mStatePtr = from /\ step.mStatePtr = "Released" /\ step.send = "nothing"
       /\ Members(step) = {} /\ Wanting(step) = {} /\ Stepped(step, Members(s), status)
    \/ /\ s.mStatePtr = "Releasing"
       /\ step.mStatePtr = IF Wanting(s) = {} THEN "Released" ELSE "Pending"
       /\ step.send = IF Wanting(s) = {} THEN "nothing" ELSE "REQUEST"
       /\ Members(step) = Wanting(s) /\ Wanting(step) = Wanting(s)
       /\ Stepped(step, Members(s) \ Wanting(s), status)
    \/ /\ s.mStatePtr \notin {from, "Releasing"} /\ Same(s, step) /\ step.send = "nothing"
       /\ Stepped(step, {}, "GRANTED")

(* afterReleasing lets go of those that do not want the NIF. *)
LEMMA AfterReleasing ==
    ASSUME NEW m, NEW s \in Machines, NEW started, s.mStatePtr = "Releasing",
           NEW status \in Statuses, NEW step, step = afterReleasing(m, s, status), NEW from
    PROVE  Loses(s, step, status, from) /\ Matched(m, step, started)
<1>0. s.mSubscribers \in Lists
  BY DEF Machines
<1>1. PICK left : left = Active(s.mSubscribers)
  OBVIOUS
<1>2. left \in Lists /\ IDs(left) = Wanting(s) /\ ActiveIDs(left) = Wanting(s)
  BY <1>0, <1>1, ActiveIs DEF Wanting
<1>3. /\ left = <<>> <=> Wanting(s) = {}
      /\ ActiveAt(left) = {} <=> Wanting(s) = {}
  BY <1>2, EmptyIs
<1>4. /\ step.mSubscribers = left /\ step.notes = Notes(Inactive(s.mSubscribers), status)
      /\ step.mStatePtr = IF left = <<>> THEN "Released" ELSE "Pending"
      /\ step.send = IF left = <<>> THEN "nothing" ELSE sendRsrcRequest(m, left, "REQUEST")
  BY <1>1 DEF afterReleasing, Step
<1>5. left # <<>> => sendRsrcRequest(m, left, "REQUEST") = "REQUEST"
  BY <1>3 DEF sendRsrcRequest
<1>6. Tells(step.notes, Members(s) \ Wanting(s), status)
  <2>1. PICK list : list = Inactive(s.mSubscribers)
    OBVIOUS
  <2>2. list \in Lists /\ IDs(list) = Members(s) \ Wanting(s)
    BY <1>0, <2>1, InactiveIs DEF Wanting, Members
  <2> QED
    BY <1>4, <2>1, <2>2, NotesIs
<1>7. Members(step) = Wanting(s) /\ Wanting(step) = Wanting(s)
  BY <1>2, <1>4 DEF Members, Wanting
<1>8. Members(s) \ Wanting(s) \in SUBSET Clients
  BY <1>0, ListFacts DEF Members
<1>9. Stepped(step, Members(s) \ Wanting(s), status)
  BY <1>2, <1>3, <1>4, <1>5, <1>6, <1>7, <1>8 DEF Stepped, States, Sends
<1>10. Matched(m, step, started)
  BY <1>3, <1>4, <1>7 DEF Matched
<1> QED
  BY <1>3, <1>4, <1>5, <1>7, <1>9, <1>10 DEF Loses

(* Everybody on the list is told that the NIF is gone. *)
LEMMA Closing ==
    ASSUME NEW m, NEW s \in Machines, NEW started, NEW from \in States, s.mStatePtr = from,
           from # "Releasing", NEW status \in Statuses,
           NEW step, step = Step("Released", <<>>, Notes(s.mSubscribers, status), "nothing")
    PROVE  Loses(s, step, status, from) /\ Matched(m, step, started)
<1>0. s.mSubscribers \in Lists
  BY DEF Machines
<1>1. /\ step.mStatePtr = "Released" /\ step.mSubscribers = <<>> /\ step.send = "nothing"
      /\ step.notes = Notes(s.mSubscribers, status)
  BY DEF Step
<1>2. Members(step) = {} /\ Wanting(step) = {} /\ step.mSubscribers \in Lists
  BY <1>1, NoneIs DEF Members, Wanting
<1>3. Tells(step.notes, Members(s), status)
  BY <1>0, <1>1, NotesIs DEF Members
<1>4. Members(s) \in SUBSET Clients
  BY <1>0, ListFacts DEF Members
<1>5. Stepped(step, Members(s), status)
  BY <1>1, <1>2, <1>3, <1>4 DEF Stepped, States, Sends
<1>6. Matched(m, step, started)
  BY <1>1, <1>2 DEF Matched
<1> QED
  BY <1>1, <1>2, <1>5, <1>6 DEF Loses

(* onReleased and onDenied take the NIF away. *)
LEMMA Losing ==
    ASSUME NEW m, NEW s \in Machines, NEW started, Matched(m, s, started), NEW step
    PROVE  /\ step = onReleased(m, s) =>
                Loses(s, step, "RELEASED", "Acquired") /\ Matched(m, step, started)
           /\ step = onDenied(m, s) =>
                Loses(s, step, "DENIED", "Pending") /\ Matched(m, step, started)
<1>0. s.mStatePtr \in States
  BY DEF Machines
<1>1. ASSUME step = Ignore(s), NEW from, NEW status, s.mStatePtr \notin {from, "Releasing"}
      PROVE  Loses(s, step, status, from) /\ Matched(m, step, started)
  <2>1. Same(s, step) /\ step.send = "nothing" /\ Stepped(step, {}, "GRANTED")
    BY <1>1, Ignoring
  <2> QED
    BY <1>1, <2>1 DEF Loses, Same, Matched, Members, Wanting
<1>2. ASSUME step = onReleased(m, s)
      PROVE  Loses(s, step, "RELEASED", "Acquired") /\ Matched(m, step, started)
  <2>1. CASE s.mStatePtr = "Acquired"
    <3>1. step = Step("Released", <<>>, Notes(s.mSubscribers, "RELEASED"), "nothing")
      BY <1>2, <2>1 DEF onReleased
    <3> QED
      BY <1>0, <2>1, <3>1, Closing DEF Statuses
  <2>2. CASE s.mStatePtr = "Releasing"
    <3>1. step = afterReleasing(m, s, "RELEASED")
      BY <1>2, <2>2 DEF onReleased
    <3> QED
      BY <2>2, <3>1, AfterReleasing DEF Statuses
  <2>3. CASE s.mStatePtr \notin {"Acquired", "Releasing"}
    <3>1. step = Ignore(s)
      BY <1>2, <2>3 DEF onReleased
    <3> QED
      BY <1>1, <2>3, <3>1
  <2> QED
    BY <2>1, <2>2, <2>3
<1>3. ASSUME step = onDenied(m, s)
      PROVE  Loses(s, step, "DENIED", "Pending") /\ Matched(m, step, started)
  <2>1. CASE s.mStatePtr = "Pending"
    <3>1. step = Step("Released", <<>>, Notes(s.mSubscribers, "DENIED"), "nothing")
      BY <1>3, <2>1 DEF onDenied
    <3> QED
      BY <1>0, <2>1, <3>1, Closing DEF Statuses
  <2>2. CASE s.mStatePtr = "Releasing"
    <3>1. step = afterReleasing(m, s, "DENIED")
      BY <1>3, <2>2 DEF onDenied
    <3> QED
      BY <2>2, <3>1, AfterReleasing DEF Statuses
  <2>3. CASE s.mStatePtr \notin {"Pending", "Releasing"}
    <3>1. step = Ignore(s)
      BY <1>3, <2>3 DEF onDenied
    <3> QED
      BY <1>1, <2>3, <3>1
  <2> QED
    BY <2>1, <2>2, <2>3
<1> QED
  BY <1>2, <1>3

(* The ds machine that waits for the NIF takes a RELEASED for a DENIED. *)
LEMMA DsLosing ==
    ASSUME NEW s \in Machines, NEW started, Matched("ds", s, started),
           NEW step, step = onDsReleased(s)
    PROVE  /\ Loses(s, step, "RELEASED", "Acquired") \/ Loses(s, step, "DENIED", "Pending")
           /\ s.mStatePtr = "Pending" => Loses(s, step, "DENIED", "Pending")
           /\ s.mStatePtr # "Pending" => Loses(s, step, "RELEASED", "Acquired")
           /\ Matched("ds", step, started)
<1>0. s.mStatePtr \in States
  BY DEF Machines
<1>1. PICK first : first = onReleased("ds", s)
  OBVIOUS
<1>2. Loses(s, first, "RELEASED", "Acquired") /\ Matched("ds", first, started)
  BY <1>1, Losing
<1>3. CASE first.mStatePtr # s.mStatePtr
  <2>1. step = first
    BY <1>1, <1>3 DEF onDsReleased
  <2>2. s.mStatePtr # "Pending"
    BY <1>2, <1>3 DEF Loses, Same
  <2> QED
    BY <1>2, <2>1, <2>2
<1>4. CASE first.mStatePtr = s.mStatePtr
  <2>1. step = onDenied("ds", s)
    BY <1>1, <1>4 DEF onDsReleased
  <2>2. Loses(s, step, "DENIED", "Pending") /\ Matched("ds", step, started)
    BY <2>1, Losing
  <2>3. s.mStatePtr \notin {"Acquired", "Releasing"}
    BY <1>2, <1>4 DEF Loses
  <2>4. s.mStatePtr # "Pending" => Loses(s, step, "RELEASED", "Acquired")
    BY <2>2, <2>3 DEF Loses
  <2> QED
    BY <2>2, <2>4
<1> QED
  BY <1>3, <1>4

-----------------------------------------------------------------------------
(* Of the messages in A and in B the queue has none, or one and no other,  *)
(* or one of A and behind it one of B. *)
Neither(q, A, B) == \A i \in 1..Len(q) : q[i] \notin A \cup B
Only(q, A, B) ==
    \E i \in 1..Len(q) : q[i] \in A /\ \A j \in 1..Len(q) : q[j] \in A \cup B => j = i
InTurn(q, A, B) ==
    \E i, j \in 1..Len(q) :
        /\ i < j /\ q[i] \in A /\ q[j] \in B
        /\ \A k \in 1..Len(q) : q[k] \in A \cup B => k = i \/ k = j

(* The queue has a message of W, and every message of V is followed by one. *)
Has(q, W) == \E i \in 1..Len(q) : q[i] \in W
Followed(q, V, W) ==
    \A i \in 1..Len(q) : q[i] \in V => \E j \in 1..Len(q) : i < j /\ q[j] \in W

(* The first message and the others. *)
LEMMA Taken ==
    ASSUME NEW S, NEW q \in Seq(S), q # <<>>, NEW r, r = Tail(q)
    PROVE  /\ r \in Seq(S) /\ Len(q) \in Nat \ {0} /\ Len(r) = Len(q) - 1
           /\ Head(q) = q[1] /\ q[1] \in S /\ 1 \in 1..Len(q)
           /\ \A i \in 1..Len(r) : r[i] = q[i + 1] /\ i + 1 \in 1..Len(q)
           /\ \A i \in 1..Len(q) : i # 1 => i - 1 \in 1..Len(r) /\ r[i - 1] = q[i]
OBVIOUS

(* The last message and the others. *)
LEMMA Appended ==
    ASSUME NEW S, NEW q \in Seq(S), NEW m \in S, NEW r, r = Append(q, m)
    PROVE  /\ r \in Seq(S) /\ Len(q) \in Nat /\ Len(r) = Len(q) + 1
           /\ \A i \in 1..Len(q) : r[i] = q[i] /\ i \in 1..Len(r) /\ i < Len(r)
           /\ \A i \in 1..Len(r) : i \notin 1..Len(q) => i = Len(r)
           /\ r[Len(r)] = m /\ Len(r) \in 1..Len(r)
OBVIOUS

(* Messages that are in neither set change nothing. *)
LEMMA LongerKeeps ==
    ASSUME NEW q, NEW r, NEW A, NEW B, Len(q) \in Nat, Len(r) \in Nat, Len(q) <= Len(r),
           \A i \in 1..Len(q) : r[i] = q[i],
           \A i \in 1..Len(r) : i \notin 1..Len(q) => r[i] \notin A \cup B
    PROVE  /\ Neither(q, A, B) => Neither(r, A, B)
           /\ Only(q, A, B) => Only(r, A, B)
           /\ InTurn(q, A, B) => InTurn(r, A, B)
<1>0. \A i \in 1..Len(q) : i \in 1..Len(r)
  OBVIOUS
<1>1. Neither(q, A, B) => Neither(r, A, B)
  BY DEF Neither
<1>2. Only(q, A, B) => Only(r, A, B)
  BY <1>0 DEF Only
<1>3. InTurn(q, A, B) => InTurn(r, A, B)
  BY <1>0 DEF InTurn
<1> QED
  BY <1>1, <1>2, <1>3

(* A message of neither kind changes nothing for the two. *)
LEMMA AppendKeeps ==
    ASSUME NEW S, NEW q \in Seq(S), NEW m \in S, NEW r, r = Append(q, m),
           NEW A, NEW B, m \notin A \cup B
    PROVE  /\ Neither(q, A, B) => Neither(r, A, B)
           /\ Only(q, A, B) => Only(r, A, B)
           /\ InTurn(q, A, B) => InTurn(r, A, B)
<1>1. /\ Len(q) \in Nat /\ Len(r) = Len(q) + 1 /\ \A i \in 1..Len(q) : r[i] = q[i]
      /\ \A i \in 1..Len(r) : i \notin 1..Len(q) => r[i] \notin A \cup B
  BY Appended
<1>2. Len(r) \in Nat /\ Len(q) <= Len(r)
  BY <1>1
<1> QED
  BY <1>1, <1>2, LongerKeeps

(* Nor do several. *)
LEMMA ConcatKeeps ==
    ASSUME NEW S, NEW q \in Seq(S), NEW t \in Seq(S), NEW r, r = q \o t,
           NEW A, NEW B, \A i \in 1..Len(t) : t[i] \notin A \cup B
    PROVE  /\ r \in Seq(S)
           /\ Neither(q, A, B) => Neither(r, A, B)
           /\ Only(q, A, B) => Only(r, A, B)
           /\ InTurn(q, A, B) => InTurn(r, A, B)
<1>1. /\ Len(q) \in Nat /\ Len(t) \in Nat /\ Len(r) = Len(q) + Len(t) /\ r \in Seq(S)
      /\ \A i \in 1..Len(q) : r[i] = q[i]
  OBVIOUS
<1>2. ASSUME NEW i \in 1..Len(r), i \notin 1..Len(q) PROVE r[i] \notin A \cup B
  <2>1. i - Len(q) \in 1..Len(t) /\ r[i] = t[i - Len(q)]
    BY <1>1, <1>2
  <2> QED
    BY <2>1
<1>3. Len(r) \in Nat /\ Len(q) <= Len(r)
  BY <1>1
<1> QED
  BY <1>1, <1>2, <1>3, LongerKeeps

(* What a message of one of the sets adds. *)
LEMMA AppendAdds ==
    ASSUME NEW S, NEW q \in Seq(S), NEW m \in S, NEW r, r = Append(q, m), NEW A, NEW B
    PROVE  /\ m \in A /\ Neither(q, A, B) => Only(r, A, B)
           /\ m \in B /\ Neither(q, A, B) => Only(r, B, A)
           /\ m \in B /\ Only(q, A, B) => InTurn(r, A, B)
<1>0. /\ Len(q) \in Nat /\ Len(r) = Len(q) + 1
      /\ \A i \in 1..Len(q) : r[i] = q[i] /\ i \in 1..Len(r) /\ i < Len(r)
      /\ \A i \in 1..Len(r) : i \notin 1..Len(q) => i = Len(r)
      /\ r[Len(r)] = m /\ Len(r) \in 1..Len(r)
  BY Appended
<1>1. ASSUME Neither(q, A, B), NEW i \in 1..Len(r), r[i] \in A \cup B PROVE i = Len(r)
  BY <1>0, <1>1 DEF Neither
<1>2. m \in A /\ Neither(q, A, B) => Only(r, A, B)
  BY <1>0, <1>1 DEF Only
<1>3. m \in B /\ Neither(q, A, B) => Only(r, B, A)
  BY <1>0, <1>1 DEF Only
<1>4. ASSUME m \in B, Only(q, A, B) PROVE InTurn(r, A, B)
  <2>1. PICK i \in 1..Len(q) : q[i] \in A /\ \A j \in 1..Len(q) : q[j] \in A \cup B => j = i
    BY <1>4 DEF Only
  <2>2. \A k \in 1..Len(r) : r[k] \in A \cup B => k = i \/ k = Len(r)
    BY <1>0, <2>1
  <2> QED
    BY <1>0, <1>4, <2>1, <2>2 DEF InTurn
<1> QED
  BY <1>2, <1>3, <1>4

(* What is left when the first message, of neither set, is taken. *)
LEMMA TakeKeeps ==
    ASSUME NEW S, NEW q \in Seq(S), q # <<>>, NEW r, r = Tail(q),
           NEW A, NEW B, Head(q) \notin A \cup B
    PROVE  /\ Neither(q, A, B) => Neither(r, A, B)
           /\ Only(q, A, B) => Only(r, A, B)
           /\ InTurn(q, A, B) => InTurn(r, A, B)
<1>0. /\ Len(q) \in Nat \ {0} /\ Len(r) = Len(q) - 1 /\ q[1] \notin A \cup B
      /\ \A i \in 1..Len(r) : r[i] = q[i + 1] /\ i + 1 \in 1..Len(q)
      /\ \A i \in 1..Len(q) : i # 1 => i - 1 \in 1..Len(r) /\ r[i - 1] = q[i]
  BY Taken
<1>1. Neither(q, A, B) => Neither(r, A, B)
  BY <1>0 DEF Neither
<1>2. ASSUME Only(q, A, B) PROVE Only(r, A, B)
  <2>1. PICK i \in 1..Len(q) : q[i] \in A /\ \A j \in 1..Len(q) : q[j] \in A \cup B => j = i
    BY <1>2 DEF Only
  <2>2. i - 1 \in 1..Len(r) /\ r[i - 1] \in A
    BY <1>0, <2>1
  <2>3. \A j \in 1..Len(r) : r[j] \in A \cup B => j = i - 1
    BY <1>0, <2>1
  <2> QED
    BY <2>2, <2>3 DEF Only
<1>3. ASSUME InTurn(q, A, B) PROVE InTurn(r, A, B)
  <2>1. PICK i \in 1..Len(q), j \in 1..Len(q) :
          /\ i < j /\ q[i] \in A /\ q[j] \in B
          /\ \A k \in 1..Len(q) : q[k] \in A \cup B => k = i \/ k = j
    BY <1>3 DEF InTurn
  <2>2. /\ i - 1 \in 1..Len(r) /\ r[i - 1] \in A
        /\ j - 1 \in 1..Len(r) /\ r[j - 1] \in B /\ i - 1 < j - 1
    BY <1>0, <2>1
  <2>3. \A k \in 1..Len(r) : r[k] \in A \cup B => k = i - 1 \/ k = j - 1
    BY <1>0, <2>1
  <2> QED
    BY <2>2, <2>3 DEF InTurn
<1> QED
  BY <1>1, <1>2, <1>3

(* What is left when the first message is one of A, or one of B. *)
LEMMA TakeFirst ==
    ASSUME NEW S, NEW q \in Seq(S), q # <<>>, NEW r, r = Tail(q),
           NEW A, NEW B, A \cap B = {}, Head(q) \in A
    PROVE  /\ ~Neither(q, A, B) /\ ~Neither(q, B, A) /\ ~Only(q, B, A) /\ ~InTurn(q, B, A)
           /\ Only(q, A, B) => Neither(r, A, B)
           /\ InTurn(q, A, B) => Only(r, B, A)
<1>0. /\ Len(q) \in Nat \ {0} /\ Len(r) = Len(q) - 1 /\ q[1] \in A /\ 1 \in 1..Len(q)
      /\ \A i \in 1..Len(r) : r[i] = q[i + 1] /\ i + 1 \in 1..Len(q)
      /\ \A i \in 1..Len(q) : i # 1 => i - 1 \in 1..Len(r) /\ r[i - 1] = q[i]
  BY Taken
<1>1. ~Neither(q, A, B) /\ ~Neither(q, B, A)
  BY <1>0 DEF Neither
<1>2. ~Only(q, B, A)
  BY <1>0 DEF Only
<1>3. ~InTurn(q, B, A)
  BY <1>0 DEF InTurn
<1>4. ASSUME Only(q, A, B) PROVE Neither(r, A, B)
  <2>1. \A j \in 1..Len(q) : q[j] \in A \cup B => j = 1
    BY <1>0, <1>4 DEF Only
  <2>2. ASSUME NEW j \in 1..Len(r) PROVE r[j] \notin A \cup B
    <3>1. j + 1 \in 1..Len(q) /\ j + 1 # 1 /\ r[j] = q[j + 1]
      BY <1>0
    <3> QED
      BY <2>1, <3>1
  <2> QED
    BY <2>2 DEF Neither
<1>5. ASSUME InTurn(q, A, B) PROVE Only(r, B, A)
  <2>1. PICK i \in 1..Len(q), j \in 1..Len(q) :
          /\ i < j /\ q[i] \in A /\ q[j] \in B
          /\ \A k \in 1..Len(q) : q[k] \in A \cup B => k = i \/ k = j
    BY <1>5 DEF InTurn
  <2>2. i = 1 /\ j # 1
    BY <1>0, <2>1
  <2>3. j - 1 \in 1..Len(r) /\ r[j - 1] \in B
    BY <1>0, <2>1, <2>2
  <2>4. ASSUME NEW k \in 1..Len(r), r[k] \in B \cup A PROVE k = j - 1
    <3>1. k + 1 \in 1..Len(q) /\ k + 1 # 1 /\ q[k + 1] \in A \cup B
      BY <1>0, <2>4
    <3>2. k + 1 = j
      BY <2>1, <2>2, <3>1
    <3> QED
      BY <1>0, <3>2
  <2> QED
    BY <2>3, <2>4 DEF Only
<1> QED
  BY <1>1, <1>2, <1>3, <1>4, <1>5

(* The same of a message and of what follows another. *)
LEMMA AppendHas ==
    ASSUME NEW S, NEW q \in Seq(S), NEW m \in S, NEW r, r = Append(q, m), NEW V, NEW W
    PROVE  /\ Has(r, W) <=> Has(q, W) \/ m \in W
           /\ m \notin V /\ Followed(q, V, W) => Followed(r, V, W)
           /\ m \notin V /\ m \in W => Followed(r, V, W)
<1>0. /\ Len(q) \in Nat /\ Len(r) = Len(q) + 1
      /\ \A i \in 1..Len(q) : r[i] = q[i] /\ i \in 1..Len(r) /\ i < Len(r)
      /\ \A i \in 1..Len(r) : i \notin 1..Len(q) => i = Len(r)
      /\ r[Len(r)] = m /\ Len(r) \in 1..Len(r)
  BY Appended
<1>1. Has(r, W) <=> Has(q, W) \/ m \in W
  BY <1>0 DEF Has
<1>2. m \notin V /\ Followed(q, V, W) => Followed(r, V, W)
  BY <1>0 DEF Followed
<1>3. m \notin V /\ m \in W => Followed(r, V, W)
  BY <1>0 DEF Followed
<1> QED
  BY <1>1, <1>2, <1>3

(* What a message that is taken leaves followed. *)
LEMMA TakeHas ==
    ASSUME NEW S, NEW q \in Seq(S), q # <<>>, NEW r, r = Tail(q), NEW V, NEW W
    PROVE  /\ Has(q, W) <=> Has(r, W) \/ Head(q) \in W
           /\ Followed(q, V, W) => Followed(r, V, W) /\ (Head(q) \in V => Has(r, W))
<1>0. /\ Len(q) \in Nat \ {0} /\ Len(r) = Len(q) - 1 /\ Head(q) = q[1] /\ 1 \in 1..Len(q)
      /\ \A i \in 1..Len(r) : r[i] = q[i + 1] /\ i + 1 \in 1..Len(q)
      /\ \A i \in 1..Len(q) : i # 1 => i - 1 \in 1..Len(r) /\ r[i - 1] = q[i]
  BY Taken
<1>1. Has(q, W) <=> Has(r, W) \/ Head(q) \in W
  BY <1>0 DEF Has
<1>2. ASSUME Followed(q, V, W) PROVE Followed(r, V, W) /\ (Head(q) \in V => Has(r, W))
  <2>1. ASSUME NEW i \in 1..Len(r), r[i] \in V
        PROVE  \E j \in 1..Len(r) : i < j /\ r[j] \in W
    <3>1. PICK j \in 1..Len(q) : i + 1 < j /\ q[j] \in W
      BY <1>0, <1>2, <2>1 DEF Followed
    <3>2. j - 1 \in 1..Len(r) /\ i < j - 1 /\ r[j - 1] \in W
      BY <1>0, <3>1
    <3> QED
      BY <3>2
  <2>2. ASSUME Head(q) \in V PROVE Has(r, W)
    <3>1. PICK j \in 1..Len(q) : 1 < j /\ q[j] \in W
      BY <1>0, <1>2, <2>2 DEF Followed
    <3> QED
      BY <1>0, <3>1 DEF Has
  <2> QED
    BY <2>1, <2>2 DEF Followed
<1> QED
  BY <1>1, <1>2

-----------------------------------------------------------------------------
(* The messages: of a client, of the providers of NIFs, of the modem.  The *)
(* data service denies nothing. *)
Asks(c) == {Message("request", c, nif) : nif \in Nifs}
Gives(c) == {Message("release", c, nif) : nif \in Nifs}
OfClients == [what : {"request", "release"}, id : Clients, nif : Nifs]
OfNifs == {msg \in [what : Statuses, id : {NULL}, nif : Nifs] :
             msg.nif = "ds" => msg.what # "DENIED"}
Ups == {Message("engineUp", NULL, NULL)}
Messages == OfClients \cup OfNifs \cup Ups
Starts == {Message("GRANTED", NULL, "ds")}
Ends == {Message("RELEASED", NULL, "ds")}

(* The requests that denied or hopeless emergency subscribers fall back to. *)
Fallbacks == [what : {"request"}, id : Clients, nif : {"agnss"}]

(* The messages by what they say. *)
LEMMA MessageFacts ==
    /\ \A msg \in Messages :
         /\ msg.what \in {"request", "release", "engineUp"} \cup Statuses
         /\ msg.what \in {"request", "release"} => msg \in OfClients
         /\ msg.what \in Statuses => msg \in OfNifs
         /\ msg.what = "engineUp" => msg \in Ups
    /\ \A msg \in OfClients :
         /\ msg.what \in {"request", "release"} /\ msg.id \in Clients /\ msg.nif \in Nifs
         /\ msg = Message(msg.what, msg.id, msg.nif)
    /\ \A msg \in OfNifs :
         /\ msg.what \in Statuses /\ msg.nif \in Nifs
         /\ msg = Message(msg.what, NULL, msg.nif)
         /\ msg.nif = "ds" => msg.what # "DENIED"
    /\ \A msg \in Ups : msg.what = "engineUp"
    /\ \A c \in Clients, nif \in Nifs :
         /\ Message("request", c, nif) \in OfClients
         /\ Message("release", c, nif) \in OfClients
    /\ \A status \in Statuses, nif \in Nifs :
         nif # "ds" \/ status # "DENIED" => Message(status, NULL, nif) \in OfNifs
    /\ Fallbacks \subseteq Messages
BY DEF Messages, OfClients, OfNifs, Ups, Statuses, Message, Fallbacks, Nifs

(* The kinds of messages are apart. *)
LEMMA MessageKinds ==
    /\ \A msg \in OfClients :
         /\ msg \notin Starts \cup Ends /\ msg \notin Ups
         /\ \A c : msg \in Asks(c) <=> msg.what = "request" /\ msg.id = c
         /\ \A c : msg \in Gives(c) <=> msg.what = "release" /\ msg.id = c
    /\ \A msg \in OfNifs :
         /\ msg \notin Ups
         /\ \A c : msg \notin Asks(c) \cup Gives(c)
         /\ msg \in Starts <=> msg.what = "GRANTED" /\ msg.nif = "ds"
         /\ msg \in Ends <=> msg.what = "RELEASED" /\ msg.nif = "ds"
    /\ \A msg \in Ups : msg \notin Starts \cup Ends /\ \A c : msg \notin Asks(c) \cup Gives(c)
    /\ \A c : Asks(c) \cap Gives(c) = {}
    /\ Starts \cap Ends = {}
BY DEF OfClients, OfNifs, Ups, Statuses, Message, Nifs, Starts, Ends, Asks, Gives

ClientStates == [at : {"idle", "requested", "open", "releasing", "lost"}, nif : Nifs]

Types ==
    /\ setting \in Settings
    /\ sm \in [Nifs -> Machines]
    /\ mRetries \in 0..MaxRetries
    /\ timers \in Nat
    /\ queue \in Seq(Messages)
    /\ asked \in [Nifs -> Seq({"REQUEST", "RELEASE"})] /\ asked["ds"] = <<>>
    /\ up \in [Nifs -> BOOLEAN] /\ ~up["ds"]
    /\ call \in {"down", "starting", "up", "stopping"}
    /\ client \in [Clients -> ClientStates]
    /\ restarts \in 0..setting.restarts

(* A sequence over a set is one over a larger set. *)
LEMMA WiderSeq ==
    ASSUME NEW A, NEW B, A \subseteq B, NEW t \in Seq(A)
    PROVE  t \in Seq(B)
OBVIOUS

(* What a client hears is of its type. *)
LEMMA HearsType ==
    ASSUME NEW at \in {"idle", "requested", "open", "releasing", "lost"}, NEW m, NEW status
    PROVE  Hears(at, m, status) \in {"idle", "requested", "open", "releasing", "lost"}
BY DEF Hears

Heard(told, m, status) ==
    \A c \in Clients :
        client'[c] = IF c \in told THEN [client[c] EXCEPT !.at = Hears(client[c].at, m, status)]
                     ELSE client[c]

(* What a client hears leaves it a client. *)
LEMMA Hearing ==
    ASSUME client \in [Clients -> ClientStates], NEW m, NEW notes, NEW status,
           NEW told \in SUBSET Clients, Tells(notes, told, status), notifyRsrcStatus(m, notes)
    PROVE  Heard(told, m, status) /\ client' \in [Clients -> ClientStates]
<1>0. /\ DOMAIN notes = 1..Len(notes)
      /\ \A i \in 1..Len(notes) : notes[i] \in Told(told, status)
  BY DEF Tells
<1>1. \A i \in 1..Len(notes) : notes[i].ID \in told /\ notes[i].status = status
  BY <1>0 DEF Told
<1>2. ASSUME NEW c \in Clients
      PROVE  client'[c] = IF c \in told
                          THEN [client[c] EXCEPT !.at = Hears(client[c].at, m, status)]
                          ELSE client[c]
  <2>1. (\E i \in DOMAIN notes : notes[i].ID = c) <=> c \in told
    BY <1>0, <1>1 DEF Tells
  <2>2. CASE c \in told
    <3>1. PICK i : i = CHOOSE j \in DOMAIN notes : notes[j].ID = c
      OBVIOUS
    <3>2. i \in DOMAIN notes /\ notes[i].ID = c
      BY <2>1, <2>2, <3>1
    <3>3. notes[i].status = status
      BY <1>0, <1>1, <3>2
    <3>4. client'[c] = [client[c] EXCEPT !.at = Hears(client[c].at, m, notes[i].status)]
      BY <2>1, <2>2, <3>1 DEF notifyRsrcStatus
    <3> QED
      BY <2>2, <3>3, <3>4
  <2>3. CASE c \notin told
    BY <2>1, <2>3 DEF notifyRsrcStatus
  <2> QED
    BY <2>2, <2>3
<1>3. ASSUME NEW c \in Clients PROVE client'[c] \in ClientStates
  <2>1. PICK cl : cl = client[c]
    OBVIOUS
  <2>2. cl \in ClientStates
    BY <2>1
  <2>3. Hears(cl.at, m, status) \in {"idle", "requested", "open", "releasing", "lost"}
    BY <2>2, HearsType DEF ClientStates
  <2>4. [cl EXCEPT !.at = Hears(cl.at, m, status)] \in ClientStates
    BY <2>2, <2>3 DEF ClientStates
  <2> QED
    BY <1>2, <2>1, <2>2, <2>4
<1>4. client' = [c \in Clients |-> client'[c]]
  BY DEF notifyRsrcStatus
<1> QED
  BY <1>2, <1>3, <1>4 DEF Heard

(* What the service's call is after the ds machine's step. *)
CallAfter(step, ret) ==
    IF step.send = "REQUEST" THEN IF ret = "SUCCESS" THEN "starting" ELSE call
    ELSE IF step.send = "RELEASE" /\ call # "down" THEN "stopping" ELSE call

(* Take, in terms of the machine's step, who is told and what. *)
LEMMA Taking ==
    ASSUME Types, queue # <<>>, NEW m \in Nifs, NEW step, NEW told, NEW status,
           Stepped(step, told, status), NEW ret, Take(m, step, ret)
    PROVE  /\ UNCHANGED <<setting, up, restarts>>
           /\ \A n \in Nifs : n # m => sm'[n] = sm[n]
           /\ Same(step, sm'[m])
           /\ Heard(told, m, status)
           /\ \E t \in Seq(Fallbacks) : queue' = Tail(queue) \o t
           /\ m # "ds" => queue' = Tail(queue) /\ UNCHANGED dsVars
           /\ m = "ds" => call' = CallAfter(step, ret)
           /\ Types'
<1>0. /\ step.mStatePtr \in States /\ step.mSubscribers \in Lists
      /\ told \in SUBSET Clients /\ Tells(step.notes, told, status)
      /\ step.send \in Sends /\ (step.send = "REQUEST" => Wanting(step) # {})
  BY DEF Stepped
<1>1. /\ UNCHANGED <<setting, up, restarts>>
      /\ sm' = [sm EXCEPT ![m] = [mStatePtr |-> step.mStatePtr,
                                  mSubscribers |-> step.mSubscribers]]
      /\ notifyRsrcStatus(m, step.notes)
  BY DEF Take
<1>2. sm \in [Nifs -> Machines] /\ client \in [Clients -> ClientStates]
  BY DEF Types
<1>3. /\ \A n \in Nifs : n # m => sm'[n] = sm[n]
      /\ Same(step, sm'[m])
      /\ sm' \in [Nifs -> Machines]
  <2>1. PICK s : s = [mStatePtr |-> step.mStatePtr, mSubscribers |-> step.mSubscribers]
    OBVIOUS
  <2>2. s \in Machines /\ Same(step, s)
    BY <1>0, <2>1 DEF Machines, Same
  <2> QED
    BY <1>1, <1>2, <2>1, <2>2
<1>4. Heard(told, m, status) /\ client' \in [Clients -> ClientStates]
  BY <1>0, <1>1, <1>2, Hearing
<1>5. Fallback(step.notes) \in Seq(Fallbacks)
  BY <1>0, FallbackIs DEF Fallbacks
<1>6. /\ Tail(queue) \in Seq(Messages) /\ Tail(queue) \o <<>> = Tail(queue)
      /\ <<>> \in Seq(Fallbacks)
  BY DEF Types
<1>7. CASE m # "ds"
  <2>1. /\ asked' = IF step.send = "nothing" THEN asked
                    ELSE [asked EXCEPT ![m] = Append(asked[m], step.send)]
        /\ queue' = Tail(queue) /\ UNCHANGED dsVars
    BY <1>7 DEF Take
  <2>2. asked' \in [Nifs -> Seq({"REQUEST", "RELEASE"})] /\ asked'["ds"] = <<>>
    <3>1. CASE step.send = "nothing"
      BY <2>1, <3>1 DEF Types
    <3>2. CASE step.send # "nothing"
      <4>1. step.send \in {"REQUEST", "RELEASE"}
        BY <1>0, <3>2 DEF Sends
      <4>2. PICK a : a = Append(asked[m], step.send)
        OBVIOUS
      <4>3. a \in Seq({"REQUEST", "RELEASE"})
        BY <4>1, <4>2 DEF Types
      <4> QED
        BY <1>7, <2>1, <3>2, <4>2, <4>3 DEF Types
    <3> QED
      BY <3>1, <3>2
  <2>3. Types'
    BY <1>1, <1>3, <1>4, <1>6, <2>1, <2>2 DEF Types, dsVars
  <2> QED
    BY <1>1, <1>3, <1>4, <1>6, <1>7, <2>1, <2>3
<1>8. CASE m = "ds"
  <2>1. PICK retries : retries = IF Denied(step.notes) = {} THEN mRetries ELSE 0
    OBVIOUS
  <2>2. retries \in 0..MaxRetries /\ MaxRetries \in Nat
    BY <2>1, RetriesNat DEF Types
  <2>3. /\ UNCHANGED asked
        /\ IF step.send = "REQUEST"
           THEN dsRequest(step, ret, retries)
           ELSE /\ mRetries' = retries
                /\ queue' = Tail(queue) \o Fallback(step.notes)
                /\ call' = IF step.send = "RELEASE" /\ call # "down" THEN "stopping" ELSE call
                /\ UNCHANGED timers
    BY <1>8, <2>1 DEF Take
  <2>4. /\ mRetries' \in 0..MaxRetries /\ timers' \in Nat
        /\ \E t \in Seq(Fallbacks) : queue' = Tail(queue) \o t
        /\ call' = CallAfter(step, ret)
    <3>1. CASE step.send # "REQUEST"
      BY <1>5, <2>2, <2>3, <3>1 DEF CallAfter, Types
    <3>2. CASE step.send = "REQUEST"
      <4>1. PICK newest : newest = Head(Active(step.mSubscribers)).ID
        OBVIOUS
      <4>2. newest \in Clients
        BY <1>0, <3>2, <4>1, HeadIs DEF Wanting
      <4>3. PICK hopeless : hopeless = (\/ ret = "UNSUPPORTED"
                                        \/ ret = "ENGINE_BUSY" /\ retries + 1 > MaxRetries)
        OBVIOUS
      <4>4. PICK instead :
              instead = IF hopeless THEN <<Message("request", newest, "agnss")>> ELSE <<>>
        OBVIOUS
      <4>5. /\ call' = IF ret = "SUCCESS" THEN "starting" ELSE call
            /\ mRetries' = IF hopeless THEN 0
                           ELSE IF ret = "ENGINE_BUSY" THEN retries + 1 ELSE retries
            /\ timers' = IF ret = "ENGINE_BUSY" /\ ~hopeless THEN timers + 1 ELSE timers
            /\ queue' = Tail(queue) \o Fallback(step.notes) \o instead
        BY <2>3, <3>2, <4>1, <4>3, <4>4 DEF dsRequest
      <4>6. mRetries' \in 0..MaxRetries
        BY <2>2, <4>3, <4>5
      <4>7. timers' \in Nat
        BY <4>5 DEF Types
      <4>8. instead \in Seq(Fallbacks)
        <5>1. Message("request", newest, "agnss") \in Fallbacks
          BY <4>2 DEF Fallbacks, Message
        <5> QED
          BY <4>4, <5>1
      <4>9. PICK t, f : t = f \o instead /\ f = Fallback(step.notes)
        OBVIOUS
      <4>10. t \in Seq(Fallbacks) /\ queue' = Tail(queue) \o t
        <5>1. t \in Seq(Fallbacks)
          BY <1>5, <4>8, <4>9
        <5>2. Fallbacks \subseteq Messages
          BY MessageFacts
        <5>3. f \in Seq(Messages) /\ instead \in Seq(Messages)
          BY <1>5, <4>8, <4>9, <5>2, WiderSeq
        <5>4. PICK q : q = Tail(queue)
          OBVIOUS
        <5>5. q \in Seq(Messages) /\ (q \o f) \o instead = q \o (f \o instead)
          BY <1>6, <5>3, <5>4
        <5> QED
          BY <4>5, <4>9, <5>1, <5>4, <5>5
      <4> QED
        BY <3>2, <4>5, <4>6, <4>7, <4>10 DEF CallAfter
    <3> QED
      BY <3>1, <3>2
  <2>5. queue' \in Seq(Messages)
    <3>1. PICK t \in Seq(Fallbacks) : queue' = Tail(queue) \o t
      BY <2>4
    <3>2. t \in Seq(Messages)
      BY MessageFacts, WiderSeq
    <3> QED
      BY <1>6, <3>1, <3>2
  <2>6. call' \in {"down", "starting", "up", "stopping"}
    BY <2>4 DEF CallAfter, Types
  <2>7. Types'
    BY <1>1, <1>3, <1>4, <2>3, <2>4, <2>5, <2>6 DEF Types
  <2> QED
    BY <1>1, <1>3, <1>4, <1>8, <2>4, <2>7
<1> QED
  BY <1>7, <1>8

-----------------------------------------------------------------------------
(* The steps of the task, with what their messages make of the machines.   *)
Machined == \A m \in Nifs : Matched(m, sm[m], restarts)

(* Each NIF has a machine. *)
LEMMA Sm ==
    ASSUME Types
    PROVE  \A m \in Nifs : sm[m] \in Machines
BY DEF Types

(* The message at the head. *)
LEMMA First ==
    ASSUME Types, queue # <<>>
    PROVE  /\ Head(queue) \in Messages /\ Tail(queue) \in Seq(Messages)
           /\ Len(Tail(queue)) \in Nat
BY DEF Types

(* One client hears of it. *)
LEMMA HearingOne ==
    ASSUME Types, NEW c \in Clients, NEW m, NEW status,
           client' = [client EXCEPT ![c].at = Hears(client[c].at, m, status)]
    PROVE  Heard({c}, m, status) /\ client' \in [Clients -> ClientStates]
<1>1. PICK cl : cl = client[c]
  OBVIOUS
<1>2. cl \in ClientStates /\ client \in [Clients -> ClientStates]
  BY <1>1 DEF Types
<1>3. PICK new : new = [cl EXCEPT !.at = Hears(cl.at, m, status)]
  OBVIOUS
<1>4. client' = [client EXCEPT ![c] = new]
  BY <1>1, <1>3
<1>5. new \in ClientStates
  <2>1. Hears(cl.at, m, status) \in {"idle", "requested", "open", "releasing", "lost"}
    BY <1>2, HearsType DEF ClientStates
  <2> QED
    BY <1>2, <1>3, <2>1 DEF ClientStates
<1>6. Heard({c}, m, status)
  BY <1>1, <1>2, <1>3, <1>4 DEF Heard
<1> QED
  BY <1>2, <1>4, <1>5, <1>6

Returns(m) == IF m = "ds" THEN DataCallReturns ELSE {"SUCCESS"}

Requests(c, nif, m) ==
    /\ queue # <<>> /\ Head(queue) = Message("request", c, nif) /\ m = getAgpsStateMachine(nif)
    /\ \/ m \in setting.nifs
          /\ \E ret \in Returns(m) : \E step :
               /\ Joins(m, sm[m], c, ret = "SUCCESS", step)
               /\ Matched(m, step, restarts) /\ Take(m, step, ret)
       \/ /\ m \notin setting.nifs /\ Heard({c}, m, "DENIED") /\ queue' = Tail(queue)
          /\ UNCHANGED <<setting, sm, dsVars, asked, up, restarts>> /\ Types'

(* The task takes a request. *)
LEMMA Requesting ==
    ASSUME Types, Machined, Request
    PROVE  \E c \in Clients, nif, m \in Nifs : Requests(c, nif, m)
<1>1. queue # <<>> /\ Head(queue).what = "request"
  BY DEF Request
<1>2. Head(queue) \in OfClients
  BY <1>1, First, MessageFacts
<1>3. PICK c \in Clients, nif \in Nifs : Head(queue) = Message("request", c, nif)
  BY <1>1, <1>2, MessageFacts
<1>4. Head(queue).id = c /\ Head(queue).nif = nif
  BY <1>3 DEF Message
<1>5. PICK m : m = getAgpsStateMachine(nif)
  OBVIOUS
<1>6. m \in Nifs
  BY <1>5 DEF getAgpsStateMachine, Nifs
<1>7. CASE m \in setting.nifs
  <2>1. PICK ret \in Returns(m) :
          Take(m, subscribeRsrc(m, sm[m], c, ret = "SUCCESS"), ret)
    BY <1>4, <1>5, <1>7 DEF Request, Returns
  <2>2. PICK step, sent, s :
          /\ step = subscribeRsrc(m, s, c, sent) /\ sent = (ret = "SUCCESS") /\ s = sm[m]
    OBVIOUS
  <2>3. sent \in BOOLEAN /\ (m # "ds" => sent) /\ s \in Machines /\ Matched(m, s, restarts)
    BY <1>6, <2>2, Sm DEF Returns, Machined
  <2>4. Joins(m, s, c, sent, step) /\ Matched(m, step, restarts)
    BY <2>2, <2>3, Subscribing
  <2> QED
    BY <1>1, <1>3, <1>5, <1>6, <1>7, <2>1, <2>2, <2>4 DEF Requests
<1>8. CASE m \notin setting.nifs
  <2>1. /\ client' = [client EXCEPT ![c].at = Hears(client[c].at, m, "DENIED")]
        /\ queue' = Tail(queue)
        /\ UNCHANGED <<setting, sm, dsVars, asked, up, restarts>>
    BY <1>4, <1>5, <1>8 DEF Request
  <2>2. Heard({c}, m, "DENIED") /\ client' \in [Clients -> ClientStates]
    BY <2>1, HearingOne
  <2>3. Types'
    BY <1>1, <2>1, <2>2, First DEF Types, dsVars
  <2> QED
    BY <1>1, <1>3, <1>5, <1>6, <1>8, <2>1, <2>2, <2>3 DEF Requests
<1> QED
  BY <1>7, <1>8

Releases(c, nif, m) ==
    /\ queue # <<>> /\ Head(queue) = Message("release", c, nif)
    /\ m = IF nif = "wifi" THEN "wifi" ELSE FirstOf(Subscribed(c))
    /\ \/ m \in Subscribed(c)
          /\ \E step : /\ Leaves(m, sm[m], c, step)
                       /\ Matched(m, step, restarts) /\ Take(m, step, "SUCCESS")
       \/ /\ m \notin Subscribed(c) /\ queue' = Tail(queue)
          /\ \A d \in Clients : client'[d] = IF d = c /\ client[d].at = "releasing"
                                             THEN [client[d] EXCEPT !.at = "idle"] ELSE client[d]
          /\ UNCHANGED <<setting, sm, dsVars, asked, up, restarts>> /\ Types'

(* The task takes a release. *)
LEMMA Releasing ==
    ASSUME Types, Machined, Release
    PROVE  \E c \in Clients, nif \in Nifs, m \in Nifs : Releases(c, nif, m)
<1>1. queue # <<>> /\ Head(queue).what = "release"
  BY DEF Release
<1>2. Head(queue) \in OfClients
  BY <1>1, First, MessageFacts
<1>3. PICK c \in Clients, nif \in Nifs : Head(queue) = Message("release", c, nif)
  BY <1>1, <1>2, MessageFacts
<1>4. Head(queue).id = c /\ Head(queue).nif = nif
  BY <1>3 DEF Message
<1>5. PICK m : m = IF nif = "wifi" THEN "wifi" ELSE FirstOf(Subscribed(c))
  OBVIOUS
<1>6. m \in Nifs
  BY <1>5 DEF FirstOf, Nifs
<1>7. CASE m \in Subscribed(c)
  <2>1. PICK step, s : step = onUnsubscribe(m, s, c) /\ s = sm[m]
    OBVIOUS
  <2>2. Take(m, step, "SUCCESS")
    BY <1>4, <1>5, <1>7, <2>1 DEF Release
  <2>3. s \in Machines /\ Matched(m, s, restarts) /\ c \in Members(s)
    BY <1>6, <1>7, <2>1, Sm DEF Machined, Subscribed, Members
  <2>4. Leaves(m, s, c, step) /\ Matched(m, step, restarts)
    BY <2>1, <2>3, Unsubscribing
  <2> QED
    BY <1>1, <1>3, <1>5, <1>6, <1>7, <2>1, <2>2, <2>4 DEF Releases
<1>8. CASE m \notin Subscribed(c)
  <2>1. /\ client' = [client EXCEPT ![c].at = IF client[c].at = "releasing" THEN "idle"
                                              ELSE client[c].at]
        /\ queue' = Tail(queue)
        /\ UNCHANGED <<setting, sm, dsVars, asked, up, restarts>>
    BY <1>4, <1>5, <1>8 DEF Release
  <2>2. PICK cl : cl = client[c]
    OBVIOUS
  <2>3. cl \in ClientStates /\ client \in [Clients -> ClientStates]
    BY <2>2 DEF Types
  <2>4. PICK new : new = [cl EXCEPT !.at = IF cl.at = "releasing" THEN "idle" ELSE cl.at]
    OBVIOUS
  <2>5. client' = [client EXCEPT ![c] = new]
    BY <2>1, <2>2, <2>4
  <2>6. /\ new \in ClientStates
        /\ new = IF cl.at = "releasing" THEN [cl EXCEPT !.at = "idle"] ELSE cl
    <3>1. CASE cl.at = "releasing"
      BY <2>3, <2>4, <3>1 DEF ClientStates
    <3>2. CASE cl.at # "releasing"
      BY <2>3, <2>4, <3>2 DEF ClientStates
    <3> QED
      BY <3>1, <3>2
  <2>7. client' \in [Clients -> ClientStates]
    BY <2>3, <2>5, <2>6
  <2>8. \A d \in Clients : client'[d] = IF d = c /\ client[d].at = "releasing"
                                        THEN [client[d] EXCEPT !.at = "idle"] ELSE client[d]
    <3>1. client'[c] = new
      BY <2>3, <2>5
    <3>2. \A d \in Clients : d # c => client'[d] = client[d]
      BY <2>3, <2>5
    <3> QED
      BY <2>2, <2>6, <3>1, <3>2
  <2>9. Types'
    BY <1>1, <2>1, <2>7, First DEF Types, dsVars
  <2> QED
    BY <1>1, <1>3, <1>5, <1>6, <1>8, <2>1, <2>8, <2>9 DEF Releases
<1> QED
  BY <1>7, <1>8

DsLoses(s, step) ==
    /\ s.mStatePtr = "Pending" => Loses(s, step, "DENIED", "Pending")
    /\ s.mStatePtr # "Pending" => Loses(s, step, "RELEASED", "Acquired")

Answers(m, what) ==
    /\ queue # <<>> /\ Head(queue) = Message(what, NULL, m) /\ Head(queue) \in OfNifs
    /\ \E step : \E ret \in IF m = "ds" /\ step.send = "REQUEST" THEN DataCallReturns
                            ELSE {"SUCCESS"} :
         /\ Take(m, step, ret) /\ Matched(m, step, restarts)
         /\ \/ what = "GRANTED" /\ Gets(sm[m], step)
            \/ what = "DENIED" /\ m # "ds" /\ Loses(sm[m], step, "DENIED", "Pending")
            \/ what = "RELEASED" /\ m # "ds" /\ Loses(sm[m], step, "RELEASED", "Acquired")
            \/ what = "RELEASED" /\ m = "ds" /\ DsLoses(sm[m], step)

(* The task takes a word about a NIF. *)
LEMMA Answering ==
    ASSUME Types, Machined, RsrcEvent
    PROVE  \E m \in Nifs, what \in Statuses : Answers(m, what)
<1>1. queue # <<>> /\ Head(queue).what \in Statuses
  BY DEF RsrcEvent
<1>2. Head(queue) \in OfNifs
  BY <1>1, First, MessageFacts
<1>3. PICK m \in Nifs, what \in Statuses : Head(queue) = Message(what, NULL, m)
  BY <1>1, <1>2, MessageFacts
<1>4. Head(queue).what = what /\ Head(queue).nif = m /\ (m = "ds" => what # "DENIED")
  BY <1>2, <1>3, MessageFacts DEF Message
<1>5. PICK s : s = sm[m]
  OBVIOUS
<1>6. s \in Machines /\ Matched(m, s, restarts)
  BY <1>5, Sm DEF Machined
<1>7. PICK step :
        step = CASE what = "GRANTED" -> onGranted(s)
                 [] what = "DENIED" -> onDenied(m, s)
                 [] OTHER -> IF m = "ds" THEN onDsReleased(s) ELSE onReleased(m, s)
  OBVIOUS
<1>8. PICK ret \in IF m = "ds" /\ step.send = "REQUEST" THEN DataCallReturns ELSE {"SUCCESS"} :
        Take(m, step, ret)
  BY <1>4, <1>5, <1>7 DEF RsrcEvent
<1>9. CASE what = "GRANTED"
  <2>1. step = onGranted(s)
    BY <1>7, <1>9
  <2>2. Gets(s, step) /\ Matched(m, step, restarts)
    BY <1>6, <2>1, Getting
  <2> QED
    BY <1>1, <1>2, <1>3, <1>5, <1>8, <1>9, <2>2 DEF Answers
<1>10. CASE what = "DENIED"
  <2>1. step = onDenied(m, s) /\ m # "ds"
    BY <1>4, <1>7, <1>10
  <2>2. Loses(s, step, "DENIED", "Pending") /\ Matched(m, step, restarts)
    BY <1>6, <2>1, Losing
  <2> QED
    BY <1>1, <1>2, <1>3, <1>5, <1>8, <1>10, <2>1, <2>2 DEF Answers
<1>11. CASE what = "RELEASED" /\ m # "ds"
  <2>1. step = onReleased(m, s)
    BY <1>7, <1>11
  <2>2. Loses(s, step, "RELEASED", "Acquired") /\ Matched(m, step, restarts)
    BY <1>6, <2>1, Losing
  <2> QED
    BY <1>1, <1>2, <1>3, <1>5, <1>8, <1>11, <2>2 DEF Answers
<1>12. CASE what = "RELEASED" /\ m = "ds"
  <2>1. step = onDsReleased(s) /\ Matched("ds", s, restarts)
    BY <1>6, <1>7, <1>12
  <2>2. DsLoses(s, step) /\ Matched("ds", step, restarts)
    BY <1>6, <2>1, DsLosing DEF DsLoses
  <2> QED
    BY <1>1, <1>2, <1>3, <1>5, <1>8, <1>12, <2>2 DEF Answers
<1> QED
  BY <1>9, <1>10, <1>11, <1>12 DEF Statuses

(* Every step of a machine tells somebody something, or nobody. *)
LEMMA AllStepped ==
    ASSUME NEW m, NEW s, NEW c, NEW sent, NEW step, NEW status, NEW from,
           \/ Joins(m, s, c, sent, step) \/ Leaves(m, s, c, step) \/ Gets(s, step)
           \/ Loses(s, step, status, from) \/ DsLoses(s, step)
    PROVE  \E told, said : Stepped(step, told, said)
BY DEF Joins, Leaves, Gets, Loses, DsLoses

-----------------------------------------------------------------------------
(* What holds whatever the ds machine does: the types, and that every      *)
(* machine's state matches its subscribers; the modem is only up again     *)
(* after a restart. *)
Restarted == restarts = 0 => Neither(queue, Ups, {})
Base == Types /\ Machined /\ Restarted

(* A queue that has none of some messages has none when one is taken, *)
LEMMA TailNeither ==
    ASSUME Types, queue # <<>>, NEW A, NEW B, Neither(queue, A, B),
           NEW r, r = Tail(queue)
    PROVE  Neither(r, A, B)
<1>1. queue \in Seq(Messages)
  BY DEF Types
<1>2. Head(queue) \notin A \cup B
  BY <1>1, Taken DEF Neither
<1> QED
  BY <1>1, <1>2, TakeKeeps

(* and none when another one comes. *)
LEMMA AppendNeither ==
    ASSUME Types, NEW A, NEW B, NEW msg \in Messages, msg \notin A \cup B, Neither(queue, A, B),
           queue' = Append(queue, msg)
    PROVE  Neither(queue', A, B)
<1>1. queue \in Seq(Messages)
  BY DEF Types
<1> QED
  BY <1>1, AppendKeeps

(* The queue after a machine's step: messages that are neither at the head *)
(* nor a fallback are as they were. *)
LEMMA TakenQueue ==
    ASSUME Types, queue # <<>>, NEW t \in Seq(Fallbacks), queue' = Tail(queue) \o t,
           NEW A, NEW B, Fallbacks \cap (A \cup B) = {}, NEW r, r = Tail(queue)
    PROVE  /\ Neither(r, A, B) => Neither(queue', A, B)
           /\ Only(r, A, B) => Only(queue', A, B)
           /\ InTurn(r, A, B) => InTurn(queue', A, B)
<1>2. r \in Seq(Messages) /\ t \in Seq(Messages)
  BY First, MessageFacts, WiderSeq
<1>3. \A i \in 1..Len(t) : t[i] \notin A \cup B
  <2>1. \A i \in 1..Len(t) : t[i] \in Fallbacks
    OBVIOUS
  <2> QED
    BY <2>1
<1>4. queue' = r \o t
  OBVIOUS
<1> QED
  BY <1>2, <1>3, <1>4, ConcatKeeps, ZenonT(60)

(* The requests for agnss instead of ds are no news of the call or the modem. *)
LEMMA FallbackKinds ==
    /\ Fallbacks \cap (Ups \cup {}) = {}
    /\ Fallbacks \cap (Starts \cup Ends) = {}
<1>1. ASSUME NEW msg \in Fallbacks PROVE msg.what = "request" /\ msg \in Messages
  BY <1>1, MessageFacts DEF Fallbacks
<1>2. \A msg \in Fallbacks : msg \in OfClients
  BY <1>1, MessageFacts
<1> QED
  BY <1>2, MessageKinds

(* The base invariant when a machine takes a step, *)
LEMMA BaseTake ==
    ASSUME Base, queue # <<>>, NEW m \in Nifs, NEW step, NEW told, NEW said,
           Stepped(step, told, said), NEW ret, Take(m, step, ret), Matched(m, step, restarts)
    PROVE  Base'
<1>0. Types /\ Machined /\ Restarted
  BY DEF Base
<1>1. /\ UNCHANGED <<setting, up, restarts>> /\ \A n \in Nifs : n # m => sm'[n] = sm[n]
      /\ Same(step, sm'[m]) /\ \E t \in Seq(Fallbacks) : queue' = Tail(queue) \o t
      /\ Types'
  BY <1>0, Taking
<1>2. ASSUME NEW n \in Nifs PROVE Matched(n, sm'[n], restarts')
  <2>1. CASE n = m
    BY <1>1, <2>1 DEF Matched, Same, Members, Wanting
  <2>2. CASE n # m
    BY <1>0, <1>1, <2>2 DEF Machined
  <2> QED
    BY <2>1, <2>2
<1>3. Restarted'
  <2>1. SUFFICES ASSUME restarts' = 0 PROVE Neither(queue', Ups, {})
    BY DEF Restarted
  <2>2. PICK r : r = Tail(queue)
    OBVIOUS
  <2>3. Neither(queue, Ups, {})
    BY <1>0, <1>1, <2>1 DEF Restarted
  <2>4. Neither(r, Ups, {})
    BY <1>0, <2>2, <2>3, TailNeither
  <2>5. PICK t \in Seq(Fallbacks) : queue' = Tail(queue) \o t
    BY <1>1
  <2> QED
    BY <1>0, <2>2, <2>4, <2>5, TakenQueue, FallbackKinds
<1> QED
  BY <1>1, <1>2, <1>3 DEF Base, Machined

(* A step that leaves the machines alone, and takes a message. *)
LEMMA BaseTail ==
    ASSUME Base, queue # <<>>, queue' = Tail(queue), UNCHANGED <<sm, restarts>>, Types'
    PROVE  Base'
<1>1. restarts = 0 => Neither(queue', Ups, {})
  <2>1. PICK r : r = Tail(queue)
    OBVIOUS
  <2> QED
    BY <2>1, TailNeither DEF Base, Restarted
<1> QED
  BY <1>1 DEF Base, Restarted, Machined

(* One that sends a message other than that the modem is up. *)
LEMMA BaseAppend ==
    ASSUME Base, NEW msg \in Messages, msg \notin Ups, queue' = Append(queue, msg),
           UNCHANGED <<sm, restarts>>, Types'
    PROVE  Base'
<1>1. restarts = 0 => Neither(queue', Ups, {})
  BY AppendNeither DEF Base, Restarted
<1> QED
  BY <1>1 DEF Base, Restarted, Machined

(* when the modem is up again, *)
LEMMA BaseEngineUp ==
    ASSUME Base, EngineUp
    PROVE  /\ Base' /\ queue # <<>> /\ Head(queue) \in Ups /\ queue' = Tail(queue)
           /\ UNCHANGED <<setting, dsVars, asked, up, client, restarts>>
           /\ \A m \in Nifs : sm'[m] = IF m \in Dropped THEN [sm[m] EXCEPT !.mSubscribers = <<>>]
                                       ELSE sm[m]
<1>0. Types /\ Machined /\ Restarted
  BY DEF Base
<1>1. /\ queue # <<>> /\ Head(queue).what = "engineUp" /\ queue' = Tail(queue)
      /\ UNCHANGED <<setting, dsVars, asked, up, client, restarts>>
      /\ sm' = [m \in Nifs |-> IF m \in Dropped THEN [sm[m] EXCEPT !.mSubscribers = <<>>]
                               ELSE sm[m]]
  BY DEF EngineUp
<1>2. Head(queue) \in Ups
  BY <1>0, <1>1, First, MessageFacts
<1>3. restarts # 0
  <2>1. Head(queue) = queue[1] /\ 1 \in 1..Len(queue)
    BY <1>0, <1>1, Taken DEF Types
  <2> QED
    BY <1>0, <1>2, <2>1 DEF Restarted, Neither
<1>4. ASSUME NEW m \in Nifs PROVE sm'[m] \in Machines /\ Matched(m, sm'[m], restarts)
  <2>1. CASE m \in Dropped
    <3>1. PICK s : s = sm[m]
      OBVIOUS
    <3>2. s \in Machines /\ Matched(m, s, restarts)
      BY <1>0, <3>1, Sm DEF Machined
    <3>3. PICK new : new = [s EXCEPT !.mSubscribers = <<>>]
      OBVIOUS
    <3>4. new \in Machines /\ new.mStatePtr = s.mStatePtr /\ new.mSubscribers = <<>>
      BY <3>2, <3>3, NoneIs DEF Machines
    <3>5. Members(new) = {} /\ Wanting(new) = {}
      BY <3>4, NoneIs DEF Members, Wanting
    <3>6. m \in {"agnss", "internet"} /\ s.mStatePtr # "Releasing"
      BY <2>1, <3>2 DEF Dropped, Matched, waitForCloseComplete
    <3>7. Matched(m, new, restarts)
      BY <1>3, <3>4, <3>5, <3>6 DEF Matched
    <3> QED
      BY <1>1, <2>1, <3>1, <3>3, <3>4, <3>7
  <2>2. CASE m \notin Dropped
    BY <1>0, <1>1, <2>2, Sm DEF Machined
  <2> QED
    BY <2>1, <2>2
<1>5. sm' \in [Nifs -> Machines]
  BY <1>1, <1>4
<1>6. Types'
  BY <1>0, <1>1, <1>5, First DEF Types, dsVars
<1>7. Machined' /\ Restarted'
  BY <1>1, <1>3, <1>4 DEF Machined, Restarted
<1> QED
  BY <1>1, <1>2, <1>6, <1>7 DEF Base

(* and so for all that the task does. *)
LEMMA BaseMsgTask ==
    ASSUME Base, MsgTask
    PROVE  Base'
<1>0. Types /\ Machined
  BY DEF Base
<1>1. CASE Request
  <2>1. PICK c \in Clients, nif \in Nifs, m \in Nifs : Requests(c, nif, m)
    BY <1>0, <1>1, Requesting
  <2>2. CASE m \in setting.nifs
    <3>1. PICK ret, step :
            /\ Joins(m, sm[m], c, ret = "SUCCESS", step)
            /\ Matched(m, step, restarts) /\ Take(m, step, ret)
      BY <2>1, <2>2 DEF Requests
    <3>2. PICK told, said : Stepped(step, told, said)
      BY <3>1, AllStepped
    <3> QED
      BY <2>1, <3>1, <3>2, BaseTake DEF Requests
  <2>3. CASE m \notin setting.nifs
    <3>1. /\ queue # <<>> /\ queue' = Tail(queue) /\ Types'
          /\ UNCHANGED <<setting, sm, dsVars, asked, up, restarts>>
      BY <2>1, <2>3 DEF Requests
    <3> QED
      BY <3>1, BaseTail
  <2> QED
    BY <2>2, <2>3
<1>2. CASE Release
  <2>1. PICK c \in Clients, nif \in Nifs, m \in Nifs : Releases(c, nif, m)
    BY <1>0, <1>2, Releasing
  <2>2. CASE m \in Subscribed(c)
    <3>1. PICK step : /\ Leaves(m, sm[m], c, step)
                      /\ Matched(m, step, restarts) /\ Take(m, step, "SUCCESS")
      BY <2>1, <2>2 DEF Releases
    <3>2. PICK told, said : Stepped(step, told, said)
      BY <3>1, AllStepped
    <3> QED
      BY <2>1, <3>1, <3>2, BaseTake DEF Releases
  <2>3. CASE m \notin Subscribed(c)
    <3>1. /\ queue # <<>> /\ queue' = Tail(queue) /\ Types'
          /\ UNCHANGED <<setting, sm, dsVars, asked, up, restarts>>
      BY <2>1, <2>3 DEF Releases
    <3> QED
      BY <3>1, BaseTail
  <2> QED
    BY <2>2, <2>3
<1>3. CASE RsrcEvent
  <2>1. PICK m \in Nifs, what \in Statuses : Answers(m, what)
    BY <1>0, <1>3, Answering
  <2>2. PICK step, ret :
          /\ Take(m, step, ret) /\ Matched(m, step, restarts)
          /\ \/ what = "GRANTED" /\ Gets(sm[m], step)
             \/ what = "DENIED" /\ m # "ds" /\ Loses(sm[m], step, "DENIED", "Pending")
             \/ what = "RELEASED" /\ m # "ds" /\ Loses(sm[m], step, "RELEASED", "Acquired")
             \/ what = "RELEASED" /\ m = "ds" /\ DsLoses(sm[m], step)
    BY <2>1 DEF Answers
  <2>3. PICK told, said : Stepped(step, told, said)
    BY <2>2, AllStepped
  <2> QED
    BY <2>1, <2>2, <2>3, BaseTake DEF Answers
<1>4. CASE EngineUp
  BY <1>4, BaseEngineUp
<1> QED
  BY <1>1, <1>2, <1>3, <1>4 DEF MsgTask

(* The retry timer sends a request for ds, or nothing. *)
LEMMA Retrying ==
    ASSUME Base, retryCallback
    PROVE  /\ timers > 0 /\ Base'
           /\ UNCHANGED <<setting, sm, mRetries, call, asked, up, client, restarts>>
           /\ \/ queue' = queue
              \/ \E c \in Clients : queue' = Append(queue, Message("request", c, "ds"))
<1>0. Types
  BY DEF Base
<1>1. /\ timers > 0 /\ timers' = timers - 1
      /\ UNCHANGED <<setting, sm, mRetries, call, asked, up, client, restarts>>
  BY DEF retryCallback
<1>2. timers' \in Nat
  BY <1>0, <1>1 DEF Types
<1>3. PICK list : list = sm["ds"].mSubscribers
  OBVIOUS
<1>4. list \in Lists
  BY <1>0, <1>3, Sm DEF Nifs, Machines
<1>5. CASE queue' = queue
  BY <1>1, <1>2, <1>5 DEF Base, Types, Machined, Restarted
<1>6. CASE queue' # queue
  <2>1. ActiveIDs(list) # {}
    BY <1>3, <1>4, <1>6, EmptyIs DEF retryCallback
  <2>2. PICK c \in Clients : c = Head(Active(list)).ID
    BY <1>4, <2>1, HeadIs
  <2>3. queue' = Append(queue, Message("request", c, "ds"))
    BY <1>3, <1>6, <2>2 DEF retryCallback
  <2>4. PICK msg : msg = Message("request", c, "ds")
    OBVIOUS
  <2>5. msg \in OfClients
    BY <2>4, MessageFacts DEF Nifs
  <2>6. msg \in Messages /\ msg \notin Ups
    BY <2>5, MessageKinds DEF Messages
  <2>7. Types'
    BY <1>0, <1>1, <1>2, <2>3, <2>4, <2>6 DEF Types
  <2> QED
    BY <1>1, <2>3, <2>4, <2>6, <2>7, BaseAppend
<1> QED
  BY <1>5, <1>6

(* What a client does: it sends one message. *)
LEMMA Asking ==
    ASSUME Base, NEW c \in setting.clients, NEW nif \in setting.wants, ask(c, nif)
    PROVE  /\ Base' /\ c \in Clients /\ nif \in Nifs
           /\ client[c].at = "idle" /\ Neither(queue, Asks(c), Gives(c))
           /\ queue' = Append(queue, Message("request", c, nif))
           /\ client'[c].at = "requested" /\ client'[c].nif = nif
           /\ \A d \in Clients : d # c => client'[d] = client[d]
           /\ UNCHANGED <<setting, sm, dsVars, asked, up, restarts>>
<1>0. Types
  BY DEF Base
<1>1. c \in Clients /\ nif \in Nifs
  BY <1>0, SettingsType DEF Types
<1>2. /\ client[c].at = "idle" /\ \A msg \in InQueue : msg.id # c
      /\ client' = [client EXCEPT ![c] = [at |-> "requested", nif |-> nif]]
      /\ queue' = Append(queue, Message("request", c, nif))
      /\ UNCHANGED <<setting, sm, dsVars, asked, up, restarts>>
  BY DEF ask
<1>3. Neither(queue, Asks(c), Gives(c))
  <2>1. ASSUME NEW i \in 1..Len(queue) PROVE queue[i] \notin Asks(c) \cup Gives(c)
    <3>1. queue[i] \in InQueue
      BY <1>0, <2>1 DEF InQueue, Types
    <3> QED
      BY <1>2, <3>1 DEF Asks, Gives, Message
  <2> QED
    BY <2>1 DEF Neither
<1>4. PICK new : new = [at |-> "requested", nif |-> nif]
  OBVIOUS
<1>5. new \in ClientStates /\ new.at = "requested" /\ new.nif = nif
  BY <1>1, <1>4 DEF ClientStates
<1>6. client' \in [Clients -> ClientStates] /\ client'[c] = new
      /\ \A d \in Clients : d # c => client'[d] = client[d]
  BY <1>0, <1>1, <1>2, <1>4, <1>5 DEF Types
<1>7. PICK msg : msg = Message("request", c, nif)
  OBVIOUS
<1>8. msg \in OfClients
  BY <1>1, <1>7, MessageFacts
<1>9. msg \in Messages /\ msg \notin Ups
  BY <1>8, MessageKinds DEF Messages
<1>10. Types'
  BY <1>0, <1>2, <1>6, <1>7, <1>9 DEF Types, dsVars
<1>11. Base'
  BY <1>2, <1>7, <1>9, <1>10, BaseAppend
<1> QED
  BY <1>1, <1>2, <1>3, <1>5, <1>6, <1>11

(* A client gives back what it asked for. *)
LEMMA Giving ==
    ASSUME Base, NEW c \in setting.clients, giveBack(c)
    PROVE  /\ Base' /\ c \in Clients
           /\ client[c].at \in {"requested", "open"}
           /\ queue' = Append(queue, Message("release", c, client[c].nif))
           /\ client'[c].at = "releasing" /\ client'[c].nif = client[c].nif
           /\ \A d \in Clients : d # c => client'[d] = client[d]
           /\ UNCHANGED <<setting, sm, dsVars, asked, up, restarts>>
<1>0. Types
  BY DEF Base
<1>1. c \in Clients
  BY <1>0, SettingsType DEF Types
<1>2. /\ client[c].at \in {"requested", "open"}
      /\ client' = [client EXCEPT ![c].at = "releasing"]
      /\ queue' = Append(queue, Message("release", c, client[c].nif))
      /\ UNCHANGED <<setting, sm, dsVars, asked, up, restarts>>
  BY DEF giveBack
<1>3. PICK cl : cl = client[c]
  OBVIOUS
<1>4. cl \in ClientStates /\ client \in [Clients -> ClientStates]
  BY <1>0, <1>1, <1>3 DEF Types
<1>5. PICK new : new = [cl EXCEPT !.at = "releasing"]
  OBVIOUS
<1>6. new \in ClientStates /\ new.at = "releasing" /\ new.nif = cl.nif /\ cl.nif \in Nifs
  BY <1>4, <1>5 DEF ClientStates
<1>7. client' = [client EXCEPT ![c] = new]
  BY <1>2, <1>3, <1>5
<1>8. client' \in [Clients -> ClientStates] /\ client'[c] = new
      /\ \A d \in Clients : d # c => client'[d] = client[d]
  BY <1>1, <1>4, <1>6, <1>7
<1>9. PICK msg : msg = Message("release", c, cl.nif)
  OBVIOUS
<1>10. msg \in OfClients
  BY <1>1, <1>6, <1>9, MessageFacts
<1>11. msg \in Messages /\ msg \notin Ups
  BY <1>10, MessageKinds DEF Messages
<1>12. Types'
  BY <1>0, <1>2, <1>3, <1>8, <1>9, <1>11 DEF Types, dsVars
<1>13. Base'
  BY <1>2, <1>3, <1>9, <1>11, <1>12, BaseAppend
<1> QED
  BY <1>1, <1>2, <1>3, <1>6, <1>8, <1>13

(* The modem restarts: its clients are lost and engineUp is sent. *)
LEMMA Restarting ==
    ASSUME Base, restart
    PROVE  /\ Base'
           /\ \A c \in Clients :
                /\ client'[c].nif = client[c].nif
                /\ client'[c].at = IF client[c].at # "idle" /\ client[c].nif # "wifi" THEN "lost"
                                   ELSE client[c].at
           /\ queue' = Append(queue, Message("engineUp", NULL, NULL))
           /\ UNCHANGED <<setting, sm, dsVars, asked, up>>
<1>0. Types
  BY DEF Base
<1>1. /\ restarts < setting.restarts /\ restarts' = restarts + 1
      /\ client' = [c \in Clients |->
           IF client[c].at # "idle" /\ client[c].nif # "wifi" THEN [client[c] EXCEPT !.at = "lost"]
           ELSE client[c]]
      /\ queue' = Append(queue, Message("engineUp", NULL, NULL))
      /\ UNCHANGED <<setting, sm, dsVars, asked, up>>
  BY DEF restart
<1>2. ASSUME NEW c \in Clients
      PROVE  /\ client'[c] \in ClientStates /\ client'[c].nif = client[c].nif
             /\ client'[c].at = IF client[c].at # "idle" /\ client[c].nif # "wifi" THEN "lost"
                                ELSE client[c].at
  <2>1. PICK cl : cl = client[c]
    OBVIOUS
  <2>2. cl \in ClientStates
    BY <1>0, <2>1 DEF Types
  <2>3. client'[c] = IF cl.at # "idle" /\ cl.nif # "wifi" THEN [cl EXCEPT !.at = "lost"] ELSE cl
    BY <1>1, <2>1
  <2>4. [cl EXCEPT !.at = "lost"] \in ClientStates
        /\ [cl EXCEPT !.at = "lost"].nif = cl.nif /\ [cl EXCEPT !.at = "lost"].at = "lost"
    BY <2>2 DEF ClientStates
  <2> QED
    BY <2>1, <2>2, <2>3, <2>4
<1>3. client' \in [Clients -> ClientStates]
  <2>1. client' = [c \in Clients |-> client'[c]]
    BY <1>1
  <2> QED
    BY <1>2, <2>1
<1>4. /\ setting.restarts \in Nat /\ restarts \in Nat /\ restarts' \in 0..setting.restarts
      /\ restarts' # 0
  BY <1>0, <1>1, SettingsType DEF Types
<1>5. queue' \in Seq(Messages)
  <2>1. Message("engineUp", NULL, NULL) \in Messages
    BY DEF Messages, Ups
  <2> QED
    BY <1>0, <1>1, <2>1 DEF Types
<1>6. Types'
  BY <1>0, <1>1, <1>3, <1>4, <1>5 DEF Types, dsVars
<1>7. Machined'
  <2>1. \A m \in Nifs : Matched(m, sm[m], restarts)
    BY <1>0 DEF Base, Machined
  <2>2. ASSUME NEW m \in Nifs PROVE Matched(m, sm'[m], restarts')
    BY <1>1, <1>4, <2>1 DEF Matched
  <2> QED
    BY <2>2 DEF Machined
<1> QED
  BY <1>1, <1>2, <1>4, <1>6, <1>7 DEF Base, Restarted

(* What an answer of the framework is taken for. *)
LEMMA LocAgpsSends ==
    ASSUME NEW status, LocAgps(status)
    PROVE  queue' = Append(queue, Message(status, NULL, "agnss"))
BY DEF LocAgps, getAgpsStateMachine

(* The framework sends one message when it answers or loses a NIF ...      *)
LEMMA Providing ==
    ASSUME Base, NEW m \in Nifs, answer(m) \/ lose(m)
    PROVE  /\ Base' /\ UNCHANGED <<setting, sm, dsVars, client, restarts>>
           /\ \E status \in Statuses : queue' = Append(queue, Message(status, NULL, "agnss"))
<1>0. Types
  BY DEF Base
<1>1. m # "ds" /\ UNCHANGED <<setting, sm, dsVars, client, restarts>>
  BY <1>0 DEF answer, lose, Types
<1>2. PICK status \in Statuses : LocAgps(status)
  BY DEF answer, lose, Statuses
<1>3. PICK msg : msg = Message(status, NULL, "agnss")
  OBVIOUS
<1>4. msg \in OfNifs
  BY <1>3, MessageFacts DEF Nifs
<1>5. msg \in Messages /\ msg \notin Ups
  BY <1>4, MessageKinds DEF Messages
<1>6. up' \in [Nifs -> BOOLEAN] /\ ~up'["ds"]
  BY <1>0, <1>1, ZenonT(60) DEF answer, lose, Types, Nifs
<1>7. asked' \in [Nifs -> Seq({"REQUEST", "RELEASE"})] /\ asked'["ds"] = <<>>
  <2>1. CASE answer(m)
    <3>1. asked[m] \in Seq({"REQUEST", "RELEASE"}) /\ asked[m] # <<>>
      BY <1>0, <2>1 DEF answer, Types
    <3>2. PICK a : a = Tail(asked[m])
      OBVIOUS
    <3>3. a \in Seq({"REQUEST", "RELEASE"})
      BY <3>1, <3>2
    <3>4. asked' = [asked EXCEPT ![m] = a]
      BY <2>1, <3>2 DEF answer
    <3> QED
      BY <1>0, <1>1, <3>3, <3>4 DEF Types
  <2>2. CASE lose(m)
    BY <1>0, <2>2 DEF lose, Types
  <2> QED
    BY <2>1, <2>2
<1>8. queue' = Append(queue, msg)
  BY <1>2, <1>3, LocAgpsSends
<1>9. Types'
  BY <1>0, <1>1, <1>5, <1>6, <1>7, <1>8 DEF Types, dsVars
<1>10. Base'
  BY <1>1, <1>5, <1>8, <1>9, BaseAppend
<1> QED
  BY <1>1, <1>3, <1>8, <1>10

(* ... but none for an answer without a name. *)
LEMMA Nameless ==
    ASSUME Base, NEW m \in Nifs, answerNameless(m)
    PROVE  Base' /\ UNCHANGED <<setting, sm, dsVars, queue, client, restarts>>
<1>0. Types
  BY DEF Base
<1>1. m # "ds" /\ UNCHANGED <<setting, sm, dsVars, queue, client, restarts>>
  BY <1>0 DEF answerNameless, Types
<1>2. up' \in [Nifs -> BOOLEAN] /\ ~up'["ds"]
  BY <1>0, <1>1, ZenonT(60) DEF answerNameless, Types, Nifs
<1>3. asked' \in [Nifs -> Seq({"REQUEST", "RELEASE"})] /\ asked'["ds"] = <<>>
  <2>1. asked[m] \in Seq({"REQUEST", "RELEASE"}) /\ asked[m] # <<>>
    BY <1>0 DEF answerNameless, Types
  <2>2. PICK a : a = Tail(asked[m])
    OBVIOUS
  <2>3. a \in Seq({"REQUEST", "RELEASE"})
    BY <2>1, <2>2
  <2>4. asked' = [asked EXCEPT ![m] = a]
    BY <2>2 DEF answerNameless
  <2> QED
    BY <1>0, <1>1, <2>3, <2>4 DEF Types
<1>4. Types'
  BY <1>0, <1>1, <1>2, <1>3 DEF Types, dsVars
<1>5. Base'
  BY <1>1, <1>4 DEF Base, Machined, Restarted
<1> QED
  BY <1>1, <1>5

(* The data service's call changes. *)
LEMMA Calling ==
    ASSUME Base, NEW from, NEW to \in {"down", "starting", "up", "stopping"},
           NEW status \in {"GRANTED", "RELEASED"}, CallChanges(from, to, status)
    PROVE  /\ Base' /\ call = from /\ call' = to
           /\ UNCHANGED <<setting, sm, mRetries, timers, asked, up, client, restarts>>
           /\ queue' = Append(queue, Message(status, NULL, "ds"))
<1>0. Types
  BY DEF Base
<1>1. /\ call = from /\ call' = to
      /\ UNCHANGED <<setting, sm, mRetries, timers, asked, up, client, restarts>>
      /\ queue' = Append(queue, Message(status, NULL, "ds"))
  BY DEF CallChanges
<1>2. PICK msg : msg = Message(status, NULL, "ds")
  OBVIOUS
<1>3. msg \in OfNifs
  BY <1>2, MessageFacts DEF Nifs, Statuses
<1>4. msg \in Messages /\ msg \notin Ups
  BY <1>3, MessageKinds DEF Messages
<1>5. Types'
  BY <1>0, <1>1, <1>2, <1>4 DEF Types
<1>6. Base'
  BY <1>1, <1>2, <1>4, <1>5, BaseAppend
<1> QED
  BY <1>1, <1>6

Calls == callStarts \/ callDrops \/ callStops

(* How it can change. *)
LEMMA CallsAre ==
    ASSUME Base, Calls
    PROVE  \E from, to \in {"down", "starting", "up", "stopping"},
              status \in {"GRANTED", "RELEASED"} :
             /\ CallChanges(from, to, status)
             /\ \/ from = "starting" /\ to = "up" /\ status = "GRANTED"
                \/ from \in {"starting", "up", "stopping"} /\ to = "down" /\ status = "RELEASED"
<1>1. CASE CallChanges("starting", "up", "GRANTED")
  BY <1>1
<1>2. CASE \E from \in {"starting", "up", "stopping"} : CallChanges(from, "down", "RELEASED")
  BY <1>2
<1> QED
  BY <1>1, <1>2 DEF Calls, callStarts, callDrops, callStops

(* The base invariant at the start, *)
LEMMA BaseInit == Init => Base
<1> SUFFICES ASSUME Init PROVE Base
  OBVIOUS
<1>1. Fresh \in Machines /\ Members(Fresh) = {} /\ Wanting(Fresh) = {}
      /\ Fresh.mStatePtr = "Released"
  BY NoneIs DEF Fresh, Machines, States, Members, Wanting
<1>2. \A m \in Nifs : sm[m] = Fresh
  BY DEF Init
<1>3. Types
  <2>1. [at |-> "idle", nif |-> "agnss"] \in ClientStates
    BY DEF ClientStates, Nifs
  <2>2. setting \in Settings /\ 0 \in 0..setting.restarts /\ 0 \in 0..MaxRetries
    BY SettingsType, RetriesNat DEF Init
  <2>3. "ds" \in Nifs
    BY DEF Nifs
  <2> QED
    BY <1>1, <2>1, <2>2, <2>3 DEF Init, Types
<1>4. Machined
  BY <1>1, <1>2 DEF Machined, Matched
<1>5. Restarted
  BY DEF Init, Restarted, Neither
<1> QED
  BY <1>3, <1>4, <1>5 DEF Base

(* and in every step. *)
LEMMA BaseNext == Base /\ [Next]_vars => Base'
<1> SUFFICES ASSUME Base, [Next]_vars PROVE Base'
  OBVIOUS
<1>1. CASE MsgTask
  BY <1>1, BaseMsgTask
<1>2. CASE retryCallback
  BY <1>2, Retrying
<1>3. CASE restart
  BY <1>3, Restarting
<1>4. CASE \E c \in setting.clients : giveBack(c)
  BY <1>4, Giving
<1>5. CASE \E c \in setting.clients : \E nif \in setting.wants : ask(c, nif)
  BY <1>5, Asking
<1>6. CASE \E m \in Nifs : answer(m) \/ answerNameless(m) \/ lose(m)
  BY <1>6, Providing, Nameless
<1>7. CASE Calls
  <2>1. PICK from, to, status : /\ to \in {"down", "starting", "up", "stopping"}
                                /\ status \in {"GRANTED", "RELEASED"}
                                /\ CallChanges(from, to, status)
    BY <1>7, CallsAre
  <2> QED
    BY <2>1, Calling
<1>8. CASE UNCHANGED vars
  BY <1>8 DEF vars, dsVars, Base, Types, Machined, Restarted
<1> QED
  BY <1>1, <1>2, <1>3, <1>4, <1>5, <1>6, <1>7, <1>8 DEF Next, Calls

-----------------------------------------------------------------------------
(* The state of the ds machine, the data service's call and its events.    *)
CallFits(made, state, q) ==
    \/ made = "starting" /\ state = "Pending" /\ Neither(q, Starts, Ends)
    \/ made = "up" /\ state = "Pending" /\ Only(q, Starts, Ends)
    \/ made = "up" /\ state = "Acquired" /\ Neither(q, Starts, Ends)
    \/ made = "stopping" /\ state = "Releasing" /\ Neither(q, Starts, Ends)
    \/ made = "stopping" /\ state = "Releasing" /\ Only(q, Starts, Ends)
    \/ made = "down" /\ state # "Acquired" /\ Neither(q, Starts, Ends)
    \/ made = "down" /\ state # "Released" /\ Only(q, Ends, Starts)
    \/ made = "down" /\ state \in {"Pending", "Releasing"} /\ InTurn(q, Starts, Ends)

Called == CallFits(call, sm["ds"].mStatePtr, queue)

(* As far as the call goes, a queue is as good as the one before. *)
AsGood(q, r) ==
    /\ Neither(q, Starts, Ends) => Neither(r, Starts, Ends)
    /\ Only(q, Starts, Ends) => Only(r, Starts, Ends)
    /\ Only(q, Ends, Starts) => Only(r, Ends, Starts)
    /\ InTurn(q, Starts, Ends) => InTurn(r, Starts, Ends)

(* The call fits a queue that is as good as the one before. *)
LEMMA CallKept ==
    ASSUME NEW made, NEW state, NEW q, NEW r, CallFits(made, state, q), AsGood(q, r)
    PROVE  CallFits(made, state, r)
BY DEF CallFits, AsGood

(* A message that is not about the call is taken, requests may come. *)
LEMMA TakenAsGood ==
    ASSUME Types, queue # <<>>, NEW t \in Seq(Fallbacks), queue' = Tail(queue) \o t
    PROVE  /\ AsGood(Tail(queue), queue')
           /\ Head(queue) \notin Starts \cup Ends => AsGood(queue, queue')
<1>1. PICK r : r = Tail(queue)
  OBVIOUS
<1>2. Fallbacks \cap (Starts \cup Ends) = {} /\ Fallbacks \cap (Ends \cup Starts) = {}
  BY FallbackKinds
<1>3. AsGood(r, queue')
  BY <1>1, <1>2, TakenQueue DEF AsGood
<1>4. ASSUME Head(queue) \notin Starts \cup Ends PROVE AsGood(queue, r)
  <2>1. queue \in Seq(Messages) /\ Head(queue) \notin Ends \cup Starts
    BY <1>4 DEF Types
  <2> QED
    BY <1>1, <1>4, <2>1, TakeKeeps DEF AsGood
<1> QED
  BY <1>1, <1>3, <1>4 DEF AsGood

(* A message that is not about the call is taken. *)
LEMMA TailAsGood ==
    ASSUME Types, queue # <<>>, queue' = Tail(queue), Head(queue) \notin Starts \cup Ends
    PROVE  AsGood(queue, queue')
<1>1. queue \in Seq(Messages) /\ Head(queue) \notin Ends \cup Starts
  BY DEF Types
<1> QED
  BY <1>1, TakeKeeps DEF AsGood

(* A message that is not about the call comes. *)
LEMMA AppendAsGood ==
    ASSUME Types, NEW msg \in Messages, msg \notin Starts \cup Ends, queue' = Append(queue, msg)
    PROVE  AsGood(queue, queue')
<1>1. queue \in Seq(Messages) /\ msg \notin Ends \cup Starts
  BY DEF Types
<1> QED
  BY <1>1, AppendKeeps DEF AsGood

(* The ds machine's steps when it is told that the call is made or ended.  *)
LEMMA CallStarts ==
    ASSUME Types, queue # <<>>, Head(queue) \in Starts, NEW r, r = Tail(queue), NEW made, NEW state,
           CallFits(made, state, queue)
    PROVE  CallFits(made, IF state = "Pending" THEN "Acquired" ELSE state, r)
<1>1. queue \in Seq(Messages) /\ Starts \cap Ends = {}
  BY MessageKinds DEF Types
<1>2. /\ ~Neither(queue, Starts, Ends) /\ ~Only(queue, Ends, Starts)
      /\ Only(queue, Starts, Ends) => Neither(r, Starts, Ends)
      /\ InTurn(queue, Starts, Ends) => Only(r, Ends, Starts)
  BY <1>1, TakeFirst
<1> QED
  BY <1>2 DEF CallFits

(* The first message says that the call has ended: so it is down. *)
LEMMA CallEnds ==
    ASSUME Types, queue # <<>>, Head(queue) \in Ends, NEW r, r = Tail(queue), NEW made, NEW state,
           CallFits(made, state, queue)
    PROVE  made = "down" /\ state # "Released" /\ Neither(r, Starts, Ends)
<1>1. queue \in Seq(Messages) /\ Ends \cap Starts = {}
  BY MessageKinds DEF Types
<1>2. /\ ~Neither(queue, Starts, Ends) /\ ~Only(queue, Starts, Ends)
      /\ ~InTurn(queue, Starts, Ends)
      /\ Only(queue, Ends, Starts) => Neither(r, Ends, Starts)
  BY <1>1, TakeFirst
<1>3. Neither(r, Ends, Starts) => Neither(r, Starts, Ends)
  BY DEF Neither
<1> QED
  BY <1>2, <1>3 DEF CallFits

(* The call fits whatever the task does, *)
LEMMA CallOfTask ==
    ASSUME Base, Called, MsgTask
    PROVE  Called'
<1>0. Types /\ Machined
  BY DEF Base
<1>d. "ds" \in Nifs
  BY DEF Nifs
<1>o. ASSUME queue # <<>>, NEW m \in Nifs, m # "ds", NEW step, NEW told, NEW said,
             Stepped(step, told, said), NEW ret, Take(m, step, ret),
             Head(queue) \notin Starts \cup Ends
      PROVE  Called'
  <2>1. sm'["ds"] = sm["ds"] /\ queue' = Tail(queue) /\ call' = call
    BY <1>0, <1>d, <1>o, Taking DEF dsVars
  <2>2. AsGood(queue, queue')
    BY <1>0, <1>o, <2>1, TailAsGood
  <2> QED
    BY <2>1, <2>2, CallKept DEF Called
<1>i. ASSUME queue # <<>>, queue' = Tail(queue), UNCHANGED <<sm, call>>,
             Head(queue) \notin Starts \cup Ends
      PROVE  Called'
  <2>1. AsGood(queue, queue')
    BY <1>0, <1>i, TailAsGood
  <2> QED
    BY <1>i, <2>1, CallKept DEF Called
<1>s. ASSUME queue # <<>>, NEW step, NEW told, NEW said,
             Stepped(step, told, said), NEW ret, Take("ds", step, ret)
      PROVE  /\ sm'["ds"].mStatePtr = step.mStatePtr /\ call' = CallAfter(step, ret)
             /\ AsGood(Tail(queue), queue')
             /\ Head(queue) \notin Starts \cup Ends => CallFits(call, sm["ds"].mStatePtr, queue')
  <2>1. /\ Same(step, sm'["ds"]) /\ call' = CallAfter(step, ret)
        /\ \E t \in Seq(Fallbacks) : queue' = Tail(queue) \o t
    BY <1>0, <1>d, <1>s, Taking
  <2>2. PICK t \in Seq(Fallbacks) : queue' = Tail(queue) \o t
    BY <2>1
  <2>3. /\ AsGood(Tail(queue), queue')
        /\ Head(queue) \notin Starts \cup Ends => AsGood(queue, queue')
    BY <1>0, <1>s, <2>2, TakenAsGood
  <2> QED
    BY <2>1, <2>3, CallKept DEF Called, Same
<1>1. CASE Request
  <2>1. PICK c \in Clients, nif \in Nifs, m \in Nifs : Requests(c, nif, m)
    BY <1>0, <1>1, Requesting
  <2>2. queue # <<>> /\ Head(queue) \notin Starts \cup Ends
    BY <2>1, MessageFacts, MessageKinds DEF Requests
  <2>3. CASE m \notin setting.nifs
    BY <1>i, <2>1, <2>2, <2>3 DEF Requests, dsVars
  <2>4. CASE m \in setting.nifs
    <3>1. PICK ret, step : /\ ret \in Returns(m)
                           /\ Joins(m, sm[m], c, ret = "SUCCESS", step) /\ Take(m, step, ret)
      BY <2>1, <2>4 DEF Requests
    <3>2. PICK told, said : Stepped(step, told, said)
      BY <3>1, AllStepped
    <3>3. CASE m # "ds"
      BY <1>o, <2>2, <3>1, <3>2, <3>3
    <3>4. CASE m = "ds"
      <4>1. /\ sm'["ds"].mStatePtr = step.mStatePtr /\ call' = CallAfter(step, ret)
            /\ CallFits(call, sm["ds"].mStatePtr, queue')
        BY <1>s, <2>2, <3>1, <3>2, <3>4
      <4>2. \/ step.mStatePtr = sm["ds"].mStatePtr /\ step.send = "nothing"
            \/ /\ sm["ds"].mStatePtr = "Released" /\ step.send = "REQUEST"
               /\ step.mStatePtr = IF ret = "SUCCESS" THEN "Pending" ELSE "Released"
        BY <3>1, <3>4 DEF Joins, Same
      <4> QED
        BY <4>1, <4>2 DEF Called, CallFits, CallAfter
    <3> QED
      BY <3>3, <3>4
  <2> QED
    BY <2>3, <2>4
<1>2. CASE Release
  <2>1. PICK c \in Clients, nif \in Nifs, m \in Nifs : Releases(c, nif, m)
    BY <1>0, <1>2, Releasing
  <2>2. queue # <<>> /\ Head(queue) \notin Starts \cup Ends
    BY <2>1, MessageFacts, MessageKinds DEF Releases
  <2>3. CASE m \notin Subscribed(c)
    BY <1>i, <2>1, <2>2, <2>3 DEF Releases, dsVars
  <2>4. CASE m \in Subscribed(c)
    <3>1. PICK step : Leaves(m, sm[m], c, step) /\ Take(m, step, "SUCCESS")
      BY <2>1, <2>4 DEF Releases
    <3>2. PICK told, said : Stepped(step, told, said)
      BY <3>1, AllStepped
    <3>3. CASE m # "ds"
      BY <1>o, <2>2, <3>1, <3>2, <3>3
    <3>4. CASE m = "ds"
      <4>1. /\ sm'["ds"].mStatePtr = step.mStatePtr /\ call' = CallAfter(step, "SUCCESS")
            /\ CallFits(call, sm["ds"].mStatePtr, queue')
        BY <1>s, <2>2, <3>1, <3>2, <3>4
      <4>2. Subscribed(c) \subseteq Nifs /\ c \in Members(sm["ds"])
        BY <1>0, <2>4, <3>4, SettingsType DEF Types, Subscribed, Members
      <4>3. \/ step.mStatePtr = sm["ds"].mStatePtr /\ step.send = "nothing"
            \/ /\ sm["ds"].mStatePtr \in {"Pending", "Acquired"} /\ step.send = "RELEASE"
               /\ step.mStatePtr = "Releasing"
        <5>1. waitForCloseComplete("ds")
          BY DEF waitForCloseComplete
        <5>2. sm["ds"].mStatePtr \in States
          BY <1>0, <1>d, Sm DEF Machines
        <5> QED
          BY <3>1, <3>4, <4>2, <5>1, <5>2 DEF Leaves, Same, States
      <4> QED
        BY <4>1, <4>3 DEF Called, CallFits, CallAfter
    <3> QED
      BY <3>3, <3>4
  <2> QED
    BY <2>3, <2>4
<1>3. CASE RsrcEvent
  <2>1. PICK m \in Nifs, what \in Statuses : Answers(m, what)
    BY <1>0, <1>3, Answering
  <2>2. queue # <<>> /\ Head(queue) = Message(what, NULL, m) /\ Head(queue) \in OfNifs
    BY <2>1 DEF Answers
  <2>3. PICK step, ret :
          /\ Take(m, step, ret) /\ Matched(m, step, restarts)
          /\ ret \in IF m = "ds" /\ step.send = "REQUEST" THEN DataCallReturns ELSE {"SUCCESS"}
          /\ \/ what = "GRANTED" /\ Gets(sm[m], step)
             \/ what = "DENIED" /\ m # "ds" /\ Loses(sm[m], step, "DENIED", "Pending")
             \/ what = "RELEASED" /\ m # "ds" /\ Loses(sm[m], step, "RELEASED", "Acquired")
             \/ what = "RELEASED" /\ m = "ds" /\ DsLoses(sm[m], step)
    BY <2>1 DEF Answers
  <2>4. PICK told, said : Stepped(step, told, said)
    BY <2>3, AllStepped
  <2>5. CASE m # "ds"
    <3>1. Head(queue).nif = m
      BY <2>2 DEF Message
    <3>2. Head(queue) \notin Starts \cup Ends
      BY <2>2, <2>5, <3>1, MessageKinds
    <3> QED
      BY <1>o, <2>2, <2>3, <2>4, <2>5, <3>2
  <2>6. CASE m = "ds"
    <3>1. /\ sm'["ds"].mStatePtr = step.mStatePtr /\ call' = CallAfter(step, ret)
          /\ AsGood(Tail(queue), queue')
      BY <1>s, <2>2, <2>3, <2>4, <2>6
    <3>2. PICK r : r = Tail(queue)
      OBVIOUS
    <3>3. CASE what = "GRANTED"
      <4>1. Head(queue) \in Starts
        BY <2>2, <2>6, <3>3 DEF Starts
      <4>2. CallFits(call, IF sm["ds"].mStatePtr = "Pending" THEN "Acquired"
                           ELSE sm["ds"].mStatePtr, r)
        BY <1>0, <2>2, <3>2, <4>1, CallStarts DEF Called
      <4>3. /\ step.mStatePtr = IF sm["ds"].mStatePtr = "Pending" THEN "Acquired"
                                ELSE sm["ds"].mStatePtr
            /\ step.send = "nothing"
        BY <2>3, <2>6, <3>3 DEF Gets
      <4>4. CallFits(call, step.mStatePtr, r)
        BY <4>2, <4>3
      <4> QED
        BY <3>1, <3>2, <4>3, <4>4, CallKept DEF Called, CallAfter
    <3>4. CASE what = "RELEASED"
      <4>1. Head(queue) \in Ends
        BY <2>2, <2>6, <3>4 DEF Ends
      <4>2. call = "down" /\ sm["ds"].mStatePtr # "Released" /\ Neither(r, Starts, Ends)
        BY <1>0, <2>2, <3>2, <4>1, CallEnds DEF Called
      <4>3. Neither(queue', Starts, Ends)
        BY <3>1, <3>2, <4>2 DEF AsGood
      <4>4. DsLoses(sm["ds"], step)
        BY <2>3, <2>6, <3>4
      <4>5. \/ step.mStatePtr = "Released" /\ step.send = "nothing"
            \/ step.mStatePtr = "Pending" /\ step.send = "REQUEST"
        BY <4>2, <4>4, <1>0, <1>d, Sm DEF DsLoses, Loses, Same, Machines, States
      <4> QED
        BY <3>1, <4>2, <4>3, <4>5 DEF Called, CallFits, CallAfter
    <3> QED
      BY <2>2, <2>6, <3>3, <3>4, MessageFacts DEF Statuses, Message
  <2> QED
    BY <2>5, <2>6
<1>4. CASE EngineUp
  <2>1. /\ queue # <<>> /\ Head(queue) \in Ups /\ queue' = Tail(queue) /\ call' = call
        /\ sm'["ds"] = sm["ds"]
    BY <1>4, <1>d, BaseEngineUp DEF dsVars, Dropped
  <2>2. AsGood(queue, queue')
    BY <1>0, <2>1, MessageKinds, TailAsGood
  <2> QED
    BY <2>1, <2>2, CallKept DEF Called
<1> QED
  BY <1>1, <1>2, <1>3, <1>4 DEF MsgTask

(* and in every step. *)
LEMMA CalledNext == Base /\ Called /\ [Next]_vars => Called'
<1> SUFFICES ASSUME Base, Called, [Next]_vars PROVE Called'
  OBVIOUS
<1>0. Types
  BY DEF Base
<1>a. ASSUME NEW msg \in Messages, msg \notin Starts \cup Ends, queue' = Append(queue, msg),
             UNCHANGED <<sm, call>>
      PROVE  Called'
  <2>1. AsGood(queue, queue')
    BY <1>0, <1>a, AppendAsGood
  <2> QED
    BY <1>a, <2>1, CallKept DEF Called
<1>c. ASSUME NEW msg \in OfClients PROVE msg \in Messages /\ msg \notin Starts \cup Ends
  BY MessageKinds DEF Messages
<1>1. CASE MsgTask
  BY <1>1, CallOfTask
<1>2. CASE retryCallback
  <2>1. CASE queue' = queue
    BY <1>2, <2>1, Retrying DEF Called
  <2>2. CASE queue' # queue
    <3>1. PICK c \in Clients : queue' = Append(queue, Message("request", c, "ds"))
      BY <1>2, <2>2, Retrying
    <3>2. PICK msg : msg = Message("request", c, "ds")
      OBVIOUS
    <3>3. msg \in OfClients
      BY <3>2, MessageFacts DEF Nifs
    <3> QED
      BY <1>2, <1>a, <1>c, <3>1, <3>2, <3>3, Retrying
  <2> QED
    BY <2>1, <2>2
<1>3. CASE restart
  <2>1. PICK msg : msg = Message("engineUp", NULL, NULL)
    OBVIOUS
  <2>2. msg \in Messages /\ msg \notin Starts \cup Ends
    BY <2>1, MessageKinds DEF Messages, Ups
  <2> QED
    BY <1>3, <1>a, <2>1, <2>2, Restarting DEF dsVars
<1>4. CASE \E c \in setting.clients : giveBack(c)
  <2>1. PICK c \in setting.clients : giveBack(c)
    BY <1>4
  <2>2. PICK msg : msg = Message("release", c, client[c].nif)
    OBVIOUS
  <2>3. msg \in OfClients
    <3>1. c \in Clients /\ client[c] \in ClientStates
      BY <1>0, <2>1, Giving DEF Types
    <3> QED
      BY <2>2, <3>1, MessageFacts DEF ClientStates
  <2> QED
    BY <1>a, <1>c, <2>1, <2>2, <2>3, Giving DEF dsVars
<1>5. CASE \E c \in setting.clients : \E nif \in setting.wants : ask(c, nif)
  <2>1. PICK c \in setting.clients, nif \in setting.wants : ask(c, nif)
    BY <1>5
  <2>2. PICK msg : msg = Message("request", c, nif)
    OBVIOUS
  <2>3. msg \in OfClients
    BY <2>1, <2>2, Asking, MessageFacts
  <2> QED
    BY <1>a, <1>c, <2>1, <2>2, <2>3, Asking DEF dsVars
<1>6. CASE \E m \in Nifs : answer(m) \/ lose(m)
  <2>1. PICK m \in Nifs : answer(m) \/ lose(m)
    BY <1>6
  <2>2. PICK status \in Statuses : queue' = Append(queue, Message(status, NULL, "agnss"))
    BY <2>1, Providing
  <2>3. PICK msg : msg = Message(status, NULL, "agnss")
    OBVIOUS
  <2>4. msg \in OfNifs /\ msg.nif # "ds"
    BY <2>3, MessageFacts DEF Message, Nifs
  <2>5. msg \in Messages /\ msg \notin Starts \cup Ends
    BY <2>4, MessageKinds DEF Messages
  <2> QED
    BY <1>a, <2>1, <2>2, <2>3, <2>5, Providing DEF dsVars
<1>9. CASE \E m \in Nifs : answerNameless(m)
  BY <1>9, Nameless DEF Called, dsVars
<1>7. CASE Calls
  <2>1. PICK from, to, status :
          /\ to \in {"down", "starting", "up", "stopping"}
          /\ status \in {"GRANTED", "RELEASED"} /\ CallChanges(from, to, status)
          /\ \/ from = "starting" /\ to = "up" /\ status = "GRANTED"
             \/ from \in {"starting", "up", "stopping"} /\ to = "down" /\ status = "RELEASED"
    BY <1>7, CallsAre
  <2>2. /\ call = from /\ call' = to /\ sm' = sm
        /\ queue' = Append(queue, Message(status, NULL, "ds"))
    BY <2>1, Calling
  <2>3. PICK msg, r : msg = Message(status, NULL, "ds") /\ r = queue'
    OBVIOUS
  <2>4. msg \in OfNifs /\ queue \in Seq(Messages)
    BY <1>0, <2>1, <2>3, MessageFacts DEF Types, Statuses, Nifs
  <2>5. msg \in Messages /\ r = Append(queue, msg)
    BY <2>2, <2>3, <2>4 DEF Messages
  <2>6. /\ status = "GRANTED" => msg \in Starts
        /\ status = "RELEASED" => msg \in Ends
    BY <2>3 DEF Starts, Ends
  <2>7. /\ msg \in Starts /\ Neither(queue, Starts, Ends) => Only(r, Starts, Ends)
        /\ msg \in Ends /\ Neither(queue, Starts, Ends) => Only(r, Ends, Starts)
        /\ msg \in Ends /\ Only(queue, Starts, Ends) => InTurn(r, Starts, Ends)
    BY <2>4, <2>5, AppendAdds
  <2>8. CallFits(to, sm["ds"].mStatePtr, r)
    BY <2>1, <2>2, <2>6, <2>7 DEF Called, CallFits
  <2> QED
    BY <2>2, <2>3, <2>8 DEF Called
<1>8. CASE UNCHANGED vars
  BY <1>8 DEF vars, dsVars, Called
<1> QED
  BY <1>1, <1>2, <1>3, <1>4, <1>5, <1>6, <1>7, <1>8, <1>9 DEF Next, Calls

-----------------------------------------------------------------------------
(* Without the ds machine: what a client believes, what its machine knows, *)
(* and which of its messages are on their way. *)
Server(nif) == IF nif = "ds" THEN "agnss" ELSE nif

(* All messages of the client are about the same NIF. *)
Named(q, c, nif) == \A i \in 1..Len(q) : q[i] \in Asks(c) \cup Gives(c) => q[i].nif = nif

(* A client without a message that is not asked for anything is on no list *)
(* and may have a release on its way that was overtaken.  One that waits   *)
(* is on the list or will be, one that has the NIF is on the list of a     *)
(* machine that has it, one that gives it back is on the list as long as   *)
(* its release is on its way or, inactive, as long as the NIF is closing.  *)
(* Messages of a client that was lost and its subscription precede the     *)
(* modem's return, those of a new one do not. *)
Seen(c, at, nif, s, q) ==
    /\ Named(q, c, nif)
    /\ at = "idle" =>
         /\ c \notin Members(s)
         /\ Neither(q, Asks(c), Gives(c)) \/ Only(q, Gives(c), Asks(c))
    /\ at = "requested" =>
         \/ c \notin Members(s) /\ Only(q, Asks(c), Gives(c))
         \/ /\ c \in Wanting(s) /\ s.mStatePtr \in {"Pending", "Releasing"}
            /\ Neither(q, Asks(c), Gives(c))
    /\ at = "open" =>
         c \in Wanting(s) /\ s.mStatePtr = "Acquired" /\ Neither(q, Asks(c), Gives(c))
    /\ at = "releasing" =>
         \/ c \notin Members(s) /\ InTurn(q, Asks(c), Gives(c))
         \/ c \in Wanting(s) /\ Only(q, Gives(c), Asks(c))
         \/ c \in Members(s) /\ c \notin Wanting(s) /\ Neither(q, Asks(c), Gives(c))
    /\ at = "lost" =>
         /\ nif # "wifi"
         /\ Followed(q, Asks(c) \cup Gives(c), Ups)
         /\ c \in Members(s) => Has(q, Ups)
    /\ at \in {"requested", "open", "releasing"} /\ nif # "wifi" => Followed(q, Ups, Asks(c))

(* A queue shows the client as much as the one before. *)
Quiet(c, q, r) ==
    /\ \A nif : Named(q, c, nif) => Named(r, c, nif)
    /\ Neither(q, Asks(c), Gives(c)) => Neither(r, Asks(c), Gives(c))
    /\ Only(q, Asks(c), Gives(c)) => Only(r, Asks(c), Gives(c))
    /\ Only(q, Gives(c), Asks(c)) => Only(r, Gives(c), Asks(c))
    /\ InTurn(q, Asks(c), Gives(c)) => InTurn(r, Asks(c), Gives(c))
    /\ Followed(q, Asks(c) \cup Gives(c), Ups) => Followed(r, Asks(c) \cup Gives(c), Ups)
    /\ Followed(q, Ups, Asks(c)) => Followed(r, Ups, Asks(c))
    /\ Has(q, Ups) => Has(r, Ups)

(* A client's messages name its NIF when one is taken, *)
LEMMA NamedTail ==
    ASSUME NEW S, NEW q \in Seq(S), q # <<>>, NEW r, r = Tail(q), NEW c, NEW nif, Named(q, c, nif)
    PROVE  Named(r, c, nif)
<1>1. \A i \in 1..Len(r) : r[i] = q[i + 1] /\ i + 1 \in 1..Len(q)
  BY Taken
<1> QED
  BY <1>1 DEF Named

(* and when one with its NIF comes. *)
LEMMA NamedAppend ==
    ASSUME NEW S, NEW q \in Seq(S), NEW msg \in S, NEW r, r = Append(q, msg), NEW c, NEW nif,
           Named(q, c, nif), msg \in Asks(c) \cup Gives(c) => msg.nif = nif
    PROVE  Named(r, c, nif)
<1>1. /\ \A i \in 1..Len(q) : r[i] = q[i]
      /\ \A i \in 1..Len(r) : i \notin 1..Len(q) => i = Len(r)
      /\ r[Len(r)] = msg
  BY Appended
<1> QED
  BY <1>1 DEF Named

(* A client does not mind that a message which is not its own is taken, *)
LEMMA QuietTail ==
    ASSUME NEW S, NEW q \in Seq(S), q # <<>>, NEW r, r = Tail(q), NEW c,
           Head(q) \notin Asks(c) \cup Gives(c), Head(q) \notin Ups
    PROVE  Quiet(c, q, r)
<1>1. \A nif : Named(q, c, nif) => Named(r, c, nif)
  BY NamedTail
<1>2. /\ Neither(q, Asks(c), Gives(c)) => Neither(r, Asks(c), Gives(c))
      /\ Only(q, Asks(c), Gives(c)) => Only(r, Asks(c), Gives(c))
      /\ InTurn(q, Asks(c), Gives(c)) => InTurn(r, Asks(c), Gives(c))
  BY TakeKeeps
<1>3. Only(q, Gives(c), Asks(c)) => Only(r, Gives(c), Asks(c))
  <2>1. Head(q) \notin Gives(c) \cup Asks(c)
    OBVIOUS
  <2> QED
    BY <2>1, TakeKeeps
<1>4. Followed(q, Asks(c) \cup Gives(c), Ups) => Followed(r, Asks(c) \cup Gives(c), Ups)
  BY TakeHas
<1>5. Followed(q, Ups, Asks(c)) => Followed(r, Ups, Asks(c))
  BY TakeHas
<1>6. Has(q, Ups) => Has(r, Ups)
  BY TakeHas
<1> QED
  BY <1>1, <1>2, <1>3, <1>4, <1>5, <1>6 DEF Quiet

(* nor that one comes. *)
LEMMA QuietAppend ==
    ASSUME NEW S, NEW q \in Seq(S), NEW msg \in S, NEW r, r = Append(q, msg), NEW c,
           msg \notin Asks(c) \cup Gives(c), msg \notin Ups
    PROVE  Quiet(c, q, r)
<1>1. \A nif : Named(q, c, nif) => Named(r, c, nif)
  BY NamedAppend
<1>2. /\ Neither(q, Asks(c), Gives(c)) => Neither(r, Asks(c), Gives(c))
      /\ Only(q, Asks(c), Gives(c)) => Only(r, Asks(c), Gives(c))
      /\ InTurn(q, Asks(c), Gives(c)) => InTurn(r, Asks(c), Gives(c))
  BY AppendKeeps
<1>3. Only(q, Gives(c), Asks(c)) => Only(r, Gives(c), Asks(c))
  <2>1. msg \notin Gives(c) \cup Asks(c)
    OBVIOUS
  <2> QED
    BY <2>1, AppendKeeps
<1>4. Followed(q, Asks(c) \cup Gives(c), Ups) => Followed(r, Asks(c) \cup Gives(c), Ups)
  BY AppendHas
<1>5. Followed(q, Ups, Asks(c)) => Followed(r, Ups, Asks(c))
  BY AppendHas
<1>6. Has(q, Ups) => Has(r, Ups)
  BY AppendHas
<1> QED
  BY <1>1, <1>2, <1>3, <1>4, <1>5, <1>6 DEF Quiet

(* The machine is as it was for a client that was not told anything. *)
Alike(c, s, new) ==
    /\ c \in Members(new) <=> c \in Members(s)
    /\ c \in Wanting(new) <=> c \in Wanting(s)
    /\ c \in Wanting(s) /\ s.mStatePtr \in {"Pending", "Releasing"} =>
         new.mStatePtr \in {"Pending", "Releasing"}
    /\ c \in Wanting(s) /\ s.mStatePtr = "Acquired" => new.mStatePtr = "Acquired"

(* A client that is left alone by a machine's step sees it as before. *)
LEMMA SeenKept ==
    ASSUME NEW c, NEW at, NEW nif, NEW s, NEW new, NEW q, NEW r,
           Seen(c, at, nif, s, q), Quiet(c, q, r), Alike(c, s, new)
    PROVE  Seen(c, at, nif, new, r)
BY DEF Seen, Quiet, Alike

(* The clients on the list of a machine that gets or loses the NIF. *)
LEMMA SeenGranted ==
    ASSUME NEW c, NEW at, NEW nif, NEW m, NEW s, NEW new, NEW q, NEW r,
           Seen(c, at, nif, s, q), Quiet(c, q, r),
           s.mStatePtr = "Pending", new.mStatePtr = "Acquired",
           c \in Members(new) <=> c \in Members(s), c \in Wanting(new) <=> c \in Wanting(s),
           c \in Wanting(s) => c \in Members(s)
    PROVE  Seen(c, IF c \in Wanting(s) THEN Hears(at, m, "GRANTED") ELSE at, nif, new, r)
<1>1. CASE at = "requested"
  BY <1>1 DEF Seen, Quiet, Hears, Fails, Closes
<1>2. CASE at # "requested"
  <2>1. Hears(at, m, "GRANTED") = at
    BY <1>2 DEF Hears, Fails, Closes
  <2> QED
    BY <1>2, <2>1 DEF Seen, Quiet
<1> QED
  BY <1>1, <1>2

(* The machine loses its NIF and tells all its subscribers. *)
LEMMA SeenLost ==
    ASSUME NEW c, NEW at, NEW nif, NEW m, m # "ds", NEW s, NEW new, NEW q, NEW r, NEW status,
           Seen(c, at, nif, s, q), Quiet(c, q, r),
           \/ status = "RELEASED" /\ s.mStatePtr = "Acquired"
           \/ status = "DENIED" /\ s.mStatePtr = "Pending",
           c \notin Members(new), c \notin Wanting(new),
           c \in Wanting(s) => c \in Members(s)
    PROVE  Seen(c, IF c \in Members(s) THEN Hears(at, m, status) ELSE at, nif, new, r)
<1>1. CASE c \notin Members(s)
  BY <1>1 DEF Seen, Quiet
<1>2. CASE c \in Members(s) /\ at \in {"requested", "open", "releasing"}
  <2>1. Hears(at, m, status) = "idle"
    BY <1>2 DEF Seen, Hears, Fails, Closes
  <2> QED
    BY <1>2, <2>1 DEF Seen, Quiet
<1>3. CASE c \in Members(s) /\ at \notin {"requested", "open", "releasing"}
  <2>1. Hears(at, m, status) = at
    BY <1>3 DEF Hears, Fails, Closes
  <2> QED
    BY <1>3, <2>1 DEF Seen, Quiet
<1> QED
  BY <1>1, <1>2, <1>3

(* The NIF is closed: those that do not want it are told. *)
LEMMA SeenClosed ==
    ASSUME NEW c, NEW at, NEW nif, NEW m, m # "ds", NEW s, NEW new, NEW q, NEW r, NEW status,
           Seen(c, at, nif, s, q), Quiet(c, q, r), status \in {"RELEASED", "DENIED"},
           s.mStatePtr = "Releasing", c \in Wanting(s) => new.mStatePtr = "Pending",
           c \in Members(new) <=> c \in Wanting(s), c \in Wanting(new) <=> c \in Wanting(s),
           c \in Wanting(s) => c \in Members(s)
    PROVE  Seen(c, IF c \in Members(s) \ Wanting(s) THEN Hears(at, m, status) ELSE at, nif, new, r)
<1>1. CASE c \notin Members(s) \ Wanting(s)
  BY <1>1 DEF Seen, Quiet
<1>2. CASE c \in Members(s) \ Wanting(s) /\ at = "releasing"
  <2>1. Hears(at, m, status) = "idle"
    BY <1>2 DEF Hears, Fails, Closes
  <2> QED
    BY <1>2, <2>1 DEF Seen, Quiet
<1>3. CASE c \in Members(s) \ Wanting(s) /\ at # "releasing"
  <2>1. at \notin {"requested", "open", "idle"}
    BY <1>3 DEF Seen
  <2>2. Hears(at, m, status) = at
    BY <1>3, <2>1 DEF Hears, Fails, Closes
  <2> QED
    BY <1>3, <2>1, <2>2 DEF Seen, Quiet
<1> QED
  BY <1>1, <1>2, <1>3

(* The client whose request is handled. *)
LEMMA AskTaken ==
    ASSUME NEW S, NEW q \in Seq(S), q # <<>>, NEW r, r = Tail(q), NEW c,
           Head(q) \in Asks(c), Head(q) \notin Ups
    PROVE  /\ ~Neither(q, Asks(c), Gives(c)) /\ ~Only(q, Gives(c), Asks(c))
           /\ Only(q, Asks(c), Gives(c)) => Neither(r, Asks(c), Gives(c))
           /\ InTurn(q, Asks(c), Gives(c)) => Only(r, Gives(c), Asks(c))
           /\ Followed(q, Asks(c) \cup Gives(c), Ups) =>
                Followed(r, Asks(c) \cup Gives(c), Ups) /\ Has(r, Ups)
           /\ Followed(q, Ups, Asks(c)) => Followed(r, Ups, Asks(c))
           /\ Has(q, Ups) => Has(r, Ups)
           /\ \A nif : Named(q, c, nif) => Named(r, c, nif)
<1>1. Asks(c) \cap Gives(c) = {}
  BY MessageKinds
<1>2. /\ ~Neither(q, Asks(c), Gives(c)) /\ ~Only(q, Gives(c), Asks(c))
      /\ Only(q, Asks(c), Gives(c)) => Neither(r, Asks(c), Gives(c))
      /\ InTurn(q, Asks(c), Gives(c)) => Only(r, Gives(c), Asks(c))
  BY <1>1, TakeFirst
<1>3. Followed(q, Asks(c) \cup Gives(c), Ups) =>
        Followed(r, Asks(c) \cup Gives(c), Ups) /\ Has(r, Ups)
  <2>1. Head(q) \in Asks(c) \cup Gives(c)
    OBVIOUS
  <2> QED
    BY <2>1, TakeHas
<1>4. Followed(q, Ups, Asks(c)) => Followed(r, Ups, Asks(c))
  BY TakeHas
<1>5. Has(q, Ups) => Has(r, Ups)
  BY TakeHas
<1>6. \A nif : Named(q, c, nif) => Named(r, c, nif)
  BY NamedTail
<1> QED
  BY <1>2, <1>3, <1>4, <1>5, <1>6

(* A client is denied at once. *)
LEMMA SeenDenied ==
    ASSUME NEW c, NEW at, NEW nif, NEW m, m # "ds", NEW s, NEW new,
           NEW S, NEW q \in Seq(S), q # <<>>, NEW r, r = Tail(q),
           Head(q) \in Asks(c), Head(q) \notin Ups,
           Seen(c, at, nif, s, q), c \in Members(new) <=> c \in Members(s)
    PROVE  Seen(c, Hears(at, m, "DENIED"), nif, new, r)
<1>1. /\ ~Neither(q, Asks(c), Gives(c)) /\ ~Only(q, Gives(c), Asks(c))
      /\ Only(q, Asks(c), Gives(c)) => Neither(r, Asks(c), Gives(c))
      /\ InTurn(q, Asks(c), Gives(c)) => Only(r, Gives(c), Asks(c))
      /\ Followed(q, Asks(c) \cup Gives(c), Ups) =>
           Followed(r, Asks(c) \cup Gives(c), Ups) /\ Has(r, Ups)
      /\ \A n : Named(q, c, n) => Named(r, c, n)
  BY AskTaken
<1>2. CASE at \in {"requested", "releasing"}
  <2>1. Hears(at, m, "DENIED") = "idle"
    BY <1>2 DEF Hears, Fails, Closes
  <2> QED
    BY <1>1, <1>2, <2>1 DEF Seen
<1>3. CASE at \notin {"requested", "releasing"}
  <2>1. Hears(at, m, "DENIED") = at
    BY <1>3 DEF Hears, Fails, Closes
  <2> QED
    BY <1>1, <1>3, <2>1 DEF Seen
<1> QED
  BY <1>2, <1>3

(* A client's request is taken and it is on the list. *)
LEMMA SeenAdded ==
    ASSUME NEW c, NEW at, NEW heard, NEW nif, NEW m, NEW s, NEW new,
           NEW S, NEW q \in Seq(S), q # <<>>, NEW r, r = Tail(q),
           Head(q) \in Asks(c), Head(q) \notin Ups, Seen(c, at, nif, s, q),
           c \in Members(s) \/ c \in Wanting(new),
           c \in Wanting(s) => c \in Members(s),
           \/ new.mStatePtr \in {"Pending", "Releasing"} /\ heard = at
           \/ new.mStatePtr = "Acquired" /\ heard = Hears(at, m, "GRANTED")
    PROVE  Seen(c, heard, nif, new, r)
<1>1. /\ ~Neither(q, Asks(c), Gives(c)) /\ ~Only(q, Gives(c), Asks(c))
      /\ Only(q, Asks(c), Gives(c)) => Neither(r, Asks(c), Gives(c))
      /\ InTurn(q, Asks(c), Gives(c)) => Only(r, Gives(c), Asks(c))
      /\ Followed(q, Asks(c) \cup Gives(c), Ups) =>
           Followed(r, Asks(c) \cup Gives(c), Ups) /\ Has(r, Ups)
      /\ Followed(q, Ups, Asks(c)) => Followed(r, Ups, Asks(c))
      /\ \A n : Named(q, c, n) => Named(r, c, n)
  BY AskTaken
<1>2. CASE at = "requested"
  <2>1. Hears(at, m, "GRANTED") = "open"
    BY <1>2 DEF Hears, Fails, Closes
  <2> QED
    BY <1>1, <1>2, <2>1 DEF Seen
<1>3. CASE at # "requested"
  <2>1. Hears(at, m, "GRANTED") = at
    BY <1>3 DEF Hears, Fails, Closes
  <2>2. heard = at
    BY <2>1
  <2> QED
    BY <1>1, <1>3, <2>2 DEF Seen
<1> QED
  BY <1>2, <1>3

(* The client whose release is handled. *)
LEMMA GiveTaken ==
    ASSUME NEW S, NEW q \in Seq(S), q # <<>>, NEW r, r = Tail(q), NEW c,
           Head(q) \in Gives(c), Head(q) \notin Ups
    PROVE  /\ ~Neither(q, Asks(c), Gives(c)) /\ ~Only(q, Asks(c), Gives(c))
           /\ ~InTurn(q, Asks(c), Gives(c))
           /\ Only(q, Gives(c), Asks(c)) => Neither(r, Asks(c), Gives(c))
           /\ Followed(q, Asks(c) \cup Gives(c), Ups) => Followed(r, Asks(c) \cup Gives(c), Ups)
           /\ Followed(q, Ups, Asks(c)) => Followed(r, Ups, Asks(c))
           /\ Has(q, Ups) => Has(r, Ups)
           /\ \A nif : Named(q, c, nif) => Named(r, c, nif)
<1>1. Gives(c) \cap Asks(c) = {}
  BY MessageKinds
<1>2. /\ ~Neither(q, Asks(c), Gives(c)) /\ ~Only(q, Asks(c), Gives(c))
      /\ ~InTurn(q, Asks(c), Gives(c))
      /\ Only(q, Gives(c), Asks(c)) => Neither(r, Gives(c), Asks(c))
  BY <1>1, TakeFirst
<1>3. Neither(r, Gives(c), Asks(c)) => Neither(r, Asks(c), Gives(c))
  BY DEF Neither
<1>4. Followed(q, Asks(c) \cup Gives(c), Ups) => Followed(r, Asks(c) \cup Gives(c), Ups)
  BY TakeHas
<1>5. Followed(q, Ups, Asks(c)) => Followed(r, Ups, Asks(c))
  BY TakeHas
<1>6. Has(q, Ups) => Has(r, Ups)
  BY TakeHas
<1>7. \A nif : Named(q, c, nif) => Named(r, c, nif)
  BY NamedTail
<1> QED
  BY <1>2, <1>3, <1>4, <1>5, <1>6, <1>7

(* A client's release is taken and it does not want the NIF any more. *)
LEMMA SeenLeft ==
    ASSUME NEW c, NEW at, NEW nif, NEW m, m # "ds", nif = "wifi" <=> m = "wifi",
           NEW s, NEW new, NEW S, NEW q \in Seq(S), q # <<>>, NEW r, r = Tail(q),
           Head(q) \in Gives(c), Head(q) \notin Ups, Seen(c, at, nif, s, q),
           c \in Members(s), c \in Members(new) <=> m = "wifi", c \notin Wanting(new)
    PROVE  Seen(c, Hears(at, m, "UNSUBSCRIBE"), nif, new, r)
<1>1. /\ ~Neither(q, Asks(c), Gives(c)) /\ ~Only(q, Asks(c), Gives(c))
      /\ ~InTurn(q, Asks(c), Gives(c))
      /\ Only(q, Gives(c), Asks(c)) => Neither(r, Asks(c), Gives(c))
      /\ Followed(q, Asks(c) \cup Gives(c), Ups) => Followed(r, Asks(c) \cup Gives(c), Ups)
      /\ Followed(q, Ups, Asks(c)) => Followed(r, Ups, Asks(c))
      /\ Has(q, Ups) => Has(r, Ups)
      /\ \A n : Named(q, c, n) => Named(r, c, n)
  BY GiveTaken
<1>2. at \notin {"idle", "requested", "open"}
  BY <1>1 DEF Seen
<1>3. Hears(at, m, "UNSUBSCRIBE") = IF at = "releasing" /\ m # "wifi" THEN "idle" ELSE at
  BY <1>2 DEF Hears, Fails, Closes
<1>4. CASE at = "releasing"
  BY <1>1, <1>3, <1>4 DEF Seen
<1>5. CASE at # "releasing"
  BY <1>1, <1>2, <1>3, <1>5 DEF Seen
<1> QED
  BY <1>4, <1>5

(* A release of a client that is on no list: the client did not wait for it. *)
LEMMA SeenUnknown ==
    ASSUME NEW c, NEW at, NEW nif, NEW s, NEW S, NEW q \in Seq(S), q # <<>>, NEW r, r = Tail(q),
           Head(q) \in Gives(c), Head(q) \notin Ups, Seen(c, at, nif, s, q),
           c \notin Members(s), c \in Wanting(s) => c \in Members(s)
    PROVE  at # "releasing" /\ Seen(c, at, nif, s, r)
<1>1. /\ ~Neither(q, Asks(c), Gives(c)) /\ ~Only(q, Asks(c), Gives(c))
      /\ ~InTurn(q, Asks(c), Gives(c))
      /\ Only(q, Gives(c), Asks(c)) => Neither(r, Asks(c), Gives(c))
      /\ Followed(q, Asks(c) \cup Gives(c), Ups) => Followed(r, Asks(c) \cup Gives(c), Ups)
      /\ Followed(q, Ups, Asks(c)) => Followed(r, Ups, Asks(c))
      /\ \A n : Named(q, c, n) => Named(r, c, n)
  BY GiveTaken
<1> QED
  BY <1>1 DEF Seen

(* The modem is up again: who was on the list of its machine is lost. *)
LEMMA SeenUp ==
    ASSUME NEW c, NEW at, NEW nif, NEW s, NEW new,
           NEW S, NEW q \in Seq(S), q # <<>>, NEW r, r = Tail(q),
           Head(q) \in Ups, Head(q) \notin Asks(c) \cup Gives(c), Seen(c, at, nif, s, q),
           IF nif = "wifi" THEN new = s ELSE Members(new) = {} /\ Wanting(new) = {},
           c \in Wanting(s) => c \in Members(s)
    PROVE  Seen(c, at, nif, new, r)
<1>1. /\ Neither(q, Asks(c), Gives(c)) => Neither(r, Asks(c), Gives(c))
      /\ Only(q, Asks(c), Gives(c)) => Only(r, Asks(c), Gives(c))
      /\ InTurn(q, Asks(c), Gives(c)) => InTurn(r, Asks(c), Gives(c))
  BY TakeKeeps
<1>2. Only(q, Gives(c), Asks(c)) => Only(r, Gives(c), Asks(c))
  <2>1. Head(q) \notin Gives(c) \cup Asks(c)
    OBVIOUS
  <2> QED
    BY <2>1, TakeKeeps
<1>3. Followed(q, Asks(c) \cup Gives(c), Ups) => Followed(r, Asks(c) \cup Gives(c), Ups)
  BY TakeHas
<1>4. Followed(q, Ups, Asks(c)) => Followed(r, Ups, Asks(c)) /\ Has(r, Asks(c))
  BY TakeHas
<1>5. Has(r, Asks(c)) => ~Neither(r, Asks(c), Gives(c)) /\ ~Only(r, Gives(c), Asks(c))
  <2>1. Asks(c) \cap Gives(c) = {}
    BY MessageKinds
  <2> QED
    BY <2>1 DEF Has, Neither, Only
<1>6. Named(r, c, nif)
  BY NamedTail DEF Seen
<1>7. CASE nif = "wifi"
  BY <1>1, <1>2, <1>6, <1>7 DEF Seen
<1>8. CASE nif # "wifi"
  BY <1>1, <1>2, <1>3, <1>4, <1>5, <1>6, <1>8 DEF Seen
<1> QED
  BY <1>7, <1>8

(* What a client does. *)
LEMMA SeenAsking ==
    ASSUME NEW c, NEW nif, NEW s, NEW S, NEW q \in Seq(S), NEW msg \in S, NEW r, r = Append(q, msg),
           msg \in Asks(c), msg.nif = nif, msg \notin Ups,
           Neither(q, Asks(c), Gives(c)), c \notin Members(s)
    PROVE  Seen(c, "requested", nif, s, r)
<1>1. Only(r, Asks(c), Gives(c))
  BY AppendAdds
<1>2. Followed(r, Ups, Asks(c))
  BY AppendHas
<1>3. Named(q, c, nif)
  BY DEF Neither, Named
<1>4. Named(r, c, nif)
  BY <1>3, NamedAppend
<1> QED
  BY <1>1, <1>2, <1>4 DEF Seen

(* A client gives back. *)
LEMMA SeenGiving ==
    ASSUME NEW c, NEW at \in {"requested", "open"}, NEW nif, NEW s,
           NEW S, NEW q \in Seq(S), NEW msg \in S, NEW r, r = Append(q, msg),
           msg \in Gives(c), msg.nif = nif, msg \notin Ups, Seen(c, at, nif, s, q)
    PROVE  Seen(c, "releasing", nif, s, r)
<1>1. /\ Neither(q, Asks(c), Gives(c)) => Only(r, Gives(c), Asks(c))
      /\ Only(q, Asks(c), Gives(c)) => InTurn(r, Asks(c), Gives(c))
  BY AppendAdds
<1>2. Followed(q, Ups, Asks(c)) => Followed(r, Ups, Asks(c))
  BY AppendHas
<1>3. Named(r, c, nif)
  BY NamedAppend DEF Seen
<1> QED
  BY <1>1, <1>2, <1>3 DEF Seen

(* The modem restarts. *)
LEMMA SeenRestarting ==
    ASSUME NEW c, NEW at \in {"idle", "requested", "open", "releasing", "lost"}, NEW nif, NEW s,
           NEW S, NEW q \in Seq(S), NEW msg \in S, NEW r, r = Append(q, msg),
           msg \in Ups, msg \notin Asks(c) \cup Gives(c), Seen(c, at, nif, s, q)
    PROVE  Seen(c, IF at # "idle" /\ nif # "wifi" THEN "lost" ELSE at, nif, s, r)
<1>1. /\ Neither(q, Asks(c), Gives(c)) => Neither(r, Asks(c), Gives(c))
      /\ Only(q, Asks(c), Gives(c)) => Only(r, Asks(c), Gives(c))
      /\ InTurn(q, Asks(c), Gives(c)) => InTurn(r, Asks(c), Gives(c))
  BY AppendKeeps
<1>2. Only(q, Gives(c), Asks(c)) => Only(r, Gives(c), Asks(c))
  <2>1. msg \notin Gives(c) \cup Asks(c)
    OBVIOUS
  <2> QED
    BY <2>1, AppendKeeps
<1>3. Followed(r, Asks(c) \cup Gives(c), Ups)
  BY AppendHas
<1>4. Has(r, Ups)
  BY AppendHas
<1>5. Named(r, c, nif)
  BY NamedAppend DEF Seen
<1> QED
  BY <1>1, <1>2, <1>3, <1>4, <1>5 DEF Seen

-----------------------------------------------------------------------------
(* Without the ds machine nothing happens to it, and what its clients      *)
(* believe, what the machines know and what is on its way agree.           *)
NoEmergencies == timers = 0 /\ call = "down" /\ Neither(queue, Starts, Ends)

(* A client is on no list but that of its machine. *)
Placed(c) ==
    \A n \in Nifs : c \in Members(sm[n]) => n = Server(client[c].nif) /\ n \in setting.nifs

View(c) ==
    Placed(c) /\ Seen(c, client[c].at, client[c].nif, sm[Server(client[c].nif)], queue)

Views == NoEmergencies /\ \A c \in Clients : View(c)
Viewed == "ds" \notin setting.nifs => Views

(* Who wants the NIF is on the list. *)
LEMMA WantingAreMembers ==
    ASSUME Types
    PROVE  \A m \in Nifs : Wanting(sm[m]) \subseteq Members(sm[m])
BY Sm, ListFacts DEF Machines, Wanting, Members

(* A client's machine, where there is none for ds. *)
LEMMA ServerIs ==
    ASSUME Types, NEW c \in Clients
    PROVE  /\ client[c].nif \in Nifs /\ Server(client[c].nif) \in Nifs
           /\ Server(client[c].nif) # "ds"
           /\ Server(client[c].nif) = "wifi" <=> client[c].nif = "wifi"
<1>1. client[c].nif \in Nifs
  BY DEF Types, ClientStates
<1> QED
  BY <1>1 DEF Server, Nifs

(* The machine a client is seen from is as good as another like it. *)
LEMMA SeenSame ==
    ASSUME NEW c, NEW at, NEW nif, NEW s, NEW new, NEW q, Same(s, new), Seen(c, at, nif, s, q)
    PROVE  Seen(c, at, nif, new, q)
BY DEF Same, Seen, Members, Wanting

(* A machine that does nothing is as it was. *)
LEMMA AlikeSelf ==
    ASSUME NEW c, NEW s
    PROVE  Alike(c, s, s)
BY DEF Alike

(* A step that leaves a client and the machines alone. *)
LEMMA ViewQuiet ==
    ASSUME Types, NEW c \in Clients, View(c), UNCHANGED <<setting, sm>>,
           client'[c] = client[c], Quiet(c, queue, queue')
    PROVE  View(c)'
<1>1. PICK s : s = sm[Server(client[c].nif)]
  OBVIOUS
<1>2. Seen(c, client[c].at, client[c].nif, s, queue')
  BY <1>1, SeenKept, AlikeSelf DEF View
<1> QED
  BY <1>1, <1>2 DEF View, Placed

(* A machine's step, seen by all: by clients of other machines, which are  *)
(* not told anything, and by its own. *)
LEMMA ViewTake ==
    ASSUME Types, Views, queue # <<>>, NEW m \in Nifs, m # "ds",
           NEW step, \A c \in Clients : c \in Members(step) => m \in setting.nifs,
           NEW told, NEW said, Stepped(step, told, said), NEW ret, Take(m, step, ret),
           Head(queue) \notin Ups, Head(queue) \notin Starts \cup Ends,
           \A c \in Clients : Server(client[c].nif) # m =>
             c \notin told /\ c \notin Members(step) /\ Head(queue) \notin Asks(c) \cup Gives(c),
           NEW r, r = Tail(queue),
           \A c \in Clients : Server(client[c].nif) = m =>
             Seen(c, IF c \in told THEN Hears(client[c].at, m, said) ELSE client[c].at,
                  client[c].nif, step, r)
    PROVE  Views'
<1>1. /\ UNCHANGED <<setting, up, restarts>>
      /\ \A n \in Nifs : n # m => sm'[n] = sm[n]
      /\ Same(step, sm'[m]) /\ Heard(told, m, said)
      /\ queue' = r /\ UNCHANGED dsVars
  BY Taking
<1>2. queue \in Seq(Messages)
  BY DEF Types
<1>3. NoEmergencies'
  BY <1>1, TailNeither DEF Views, NoEmergencies, dsVars
<1>4. ASSUME NEW c \in Clients PROVE View(c)'
  <2>1. PICK cl : cl = client[c]
    OBVIOUS
  <2>2. cl \in ClientStates
    BY <2>1 DEF Types
  <2>3. client'[c] = IF c \in told THEN [cl EXCEPT !.at = Hears(cl.at, m, said)] ELSE cl
    BY <1>1, <2>1 DEF Heard
  <2>4. /\ client'[c].nif = cl.nif
        /\ client'[c].at = IF c \in told THEN Hears(cl.at, m, said) ELSE cl.at
    BY <2>2, <2>3 DEF ClientStates
  <2>5. Placed(c) /\ Seen(c, cl.at, cl.nif, sm[Server(cl.nif)], queue)
    BY <2>1 DEF Views, View
  <2>6. Members(sm'[m]) = Members(step)
    BY <1>1 DEF Same, Members
  <2>7. Placed(c)'
    <3>1. ASSUME NEW n \in Nifs, c \in Members(sm'[n])
          PROVE  n = Server(cl.nif) /\ n \in setting.nifs
      <4>1. CASE n = m
        BY <2>1, <2>6, <3>1, <4>1
      <4>2. CASE n # m
        BY <1>1, <2>1, <2>5, <3>1, <4>2 DEF Placed
      <4> QED
        BY <4>1, <4>2
    <3> QED
      BY <1>1, <2>4, <3>1 DEF Placed
  <2>8. CASE Server(cl.nif) = m
    <3>1. Seen(c, client'[c].at, cl.nif, step, r)
      BY <2>1, <2>4, <2>8
    <3>2. Seen(c, client'[c].at, cl.nif, sm'[m], r)
      BY <1>1, <3>1, SeenSame
    <3> QED
      BY <1>1, <2>4, <2>7, <2>8, <3>2 DEF View
  <2>9. CASE Server(cl.nif) # m
    <3>1. c \notin told /\ Head(queue) \notin Asks(c) \cup Gives(c)
      BY <2>1, <2>9
    <3>2. Quiet(c, queue, r)
      BY <1>2, <3>1, QuietTail
    <3>3. PICK s : s = sm[Server(cl.nif)]
      OBVIOUS
    <3>4. Seen(c, cl.at, cl.nif, s, r)
      BY <2>5, <3>2, <3>3, SeenKept, AlikeSelf
    <3>5. sm'[Server(cl.nif)] = s
      BY <1>1, <2>1, <2>9, <3>3, ServerIs
    <3> QED
      BY <1>1, <2>4, <2>7, <3>1, <3>4, <3>5 DEF View
  <2> QED
    BY <2>8, <2>9
<1> QED
  BY <1>3, <1>4 DEF Views

(* The message of a client. *)
LEMMA OwnMessage ==
    ASSUME Types, queue # <<>>, NEW c \in Clients, NEW nif \in Nifs, View(c),
           \/ Head(queue) = Message("request", c, nif)
           \/ Head(queue) = Message("release", c, nif)
    PROVE  /\ nif = client[c].nif
           /\ Head(queue) = Message("request", c, nif) => Head(queue) \in Asks(c)
           /\ Head(queue) = Message("release", c, nif) => Head(queue) \in Gives(c)
           /\ Head(queue) \notin Ups /\ Head(queue) \notin Starts \cup Ends
           /\ \A d : d # c => Head(queue) \notin Asks(d) \cup Gives(d)
<1>1. Head(queue) \in OfClients /\ Head(queue).id = c /\ Head(queue).nif = nif
  <2>1. /\ Message("request", c, nif) \in OfClients /\ Message("release", c, nif) \in OfClients
    BY MessageFacts
  <2>2. \A what : Message(what, c, nif).id = c /\ Message(what, c, nif).nif = nif
    BY DEF Message
  <2> QED
    BY <2>1, <2>2
<1>2. /\ Head(queue) = Message("request", c, nif) => Head(queue) \in Asks(c)
      /\ Head(queue) = Message("release", c, nif) => Head(queue) \in Gives(c)
  BY DEF Asks, Gives
<1>3. Head(queue) = queue[1] /\ 1 \in 1..Len(queue)
  BY Taken DEF Types
<1>4. nif = client[c].nif
  BY <1>1, <1>2, <1>3 DEF View, Seen, Named
<1> QED
  BY <1>1, <1>2, <1>4, MessageKinds

(* The views agree when the task takes a request, *)
LEMMA ViewRequest ==
    ASSUME Base, Views, "ds" \notin setting.nifs, Request
    PROVE  Views'
<1>0. Types /\ Machined
  BY DEF Base
<1>1. PICK c \in Clients, nif \in Nifs, m \in Nifs : Requests(c, nif, m)
  BY <1>0, Requesting
<1>2. queue # <<>> /\ Head(queue) = Message("request", c, nif) /\ View(c)
      /\ queue \in Seq(Messages)
  BY <1>0, <1>1 DEF Requests, Views, Types
<1>3. /\ nif = client[c].nif /\ Head(queue) \in Asks(c)
      /\ Head(queue) \notin Ups /\ Head(queue) \notin Starts \cup Ends
      /\ \A d : d # c => Head(queue) \notin Asks(d) \cup Gives(d)
  BY <1>0, <1>2, OwnMessage
<1>4. m = Server(client[c].nif) /\ m # "ds"
  <2>1. m = Server(nif)
    BY <1>1 DEF Requests, getAgpsStateMachine, Server
  <2> QED
    BY <1>0, <1>3, <2>1, ServerIs
<1>5. PICK r : r = Tail(queue)
  OBVIOUS
<1>6. PICK s : s = sm[m]
  OBVIOUS
<1>7. s \in Machines /\ Matched(m, s, restarts) /\ Wanting(s) \subseteq Members(s)
  BY <1>0, <1>6, Sm, WantingAreMembers DEF Machined
<1>8. Seen(c, client[c].at, client[c].nif, s, queue)
  BY <1>2, <1>4, <1>6 DEF View
<1>9. CASE m \in setting.nifs
  <2>1. PICK ret, step : /\ ret \in Returns(m) /\ Joins(m, s, c, ret = "SUCCESS", step)
                         /\ Take(m, step, ret)
    BY <1>1, <1>6, <1>9 DEF Requests
  <2>2. ret = "SUCCESS"
    BY <1>4, <2>1 DEF Returns
  <2>3. ASSUME NEW told, NEW said, Stepped(step, told, said), told \subseteq {c},
               Members(step) \subseteq Members(s) \cup {c},
               \A d \in Clients : d # c => Alike(d, s, step),
               Seen(c, IF c \in told THEN Hears(client[c].at, m, said) ELSE client[c].at,
                    client[c].nif, step, r)
        PROVE  Views'
    <3>1. ASSUME NEW d \in Clients, Server(client[d].nif) # m
          PROVE  d \notin told /\ d \notin Members(step)
                 /\ Head(queue) \notin Asks(d) \cup Gives(d)
      <4>1. d # c /\ Placed(d)
        BY <1>4, <3>1 DEF Views, View
      <4> QED
        BY <1>3, <1>6, <2>3, <3>1, <4>1 DEF Placed
    <3>2. ASSUME NEW d \in Clients, Server(client[d].nif) = m
          PROVE  Seen(d, IF d \in told THEN Hears(client[d].at, m, said) ELSE client[d].at,
                      client[d].nif, step, r)
      <4>1. CASE d = c
        BY <2>3, <4>1
      <4>2. CASE d # c
        <5>1. Seen(d, client[d].at, client[d].nif, s, queue)
          BY <1>6, <3>2 DEF Views, View
        <5>2. Quiet(d, queue, r)
          BY <1>2, <1>3, <1>5, <4>2, QuietTail
        <5>3. Seen(d, client[d].at, client[d].nif, step, r)
          BY <2>3, <4>2, <5>1, <5>2, SeenKept
        <5> QED
          BY <2>3, <4>2, <5>3
      <4> QED
        BY <4>1, <4>2
    <3> QED
      BY <1>0, <1>2, <1>3, <1>4, <1>5, <1>9, <2>1, <2>3, <3>1, <3>2, ViewTake
  <2>4. CASE /\ Same(s, step) /\ Stepped(step, {c}, "DENIED")
    <3>1. Members(step) = Members(s) /\ Wanting(step) = Wanting(s) /\ step.mStatePtr = s.mStatePtr
      BY <2>4 DEF Same, Members, Wanting
    <3>2. \A d \in Clients : Alike(d, s, step)
      BY <3>1 DEF Alike
    <3>3. Seen(c, Hears(client[c].at, m, "DENIED"), client[c].nif, step, r)
      BY <1>2, <1>3, <1>4, <1>5, <1>8, <3>1, SeenDenied
    <3> QED
      BY <2>3, <2>4, <3>1, <3>2, <3>3
  <2>5. CASE /\ s.mStatePtr = "Released" /\ step.mStatePtr = "Pending"
             /\ Stepped(step, {}, "GRANTED")
             /\ Added(s.mSubscribers, step.mSubscribers, c) /\ Wanting(step) = Wanting(s) \cup {c}
    <3>1. Members(s) = {} /\ Wanting(s) = {}
      BY <1>4, <1>7, <2>5 DEF Matched
    <3>2. Members(step) = {c} /\ Wanting(step) = {c}
      BY <2>5, <3>1 DEF Added, Members, Wanting
    <3>3. \A d \in Clients : d # c => Alike(d, s, step)
      BY <3>1, <3>2 DEF Alike
    <3>4. PICK at : at = client[c].at
      OBVIOUS
    <3>5. Seen(c, at, client[c].nif, step, r)
      BY <1>2, <1>3, <1>5, <1>7, <1>8, <2>5, <3>2, <3>4, SeenAdded
    <3> QED
      BY <2>3, <2>5, <3>1, <3>2, <3>3, <3>4, <3>5
  <2>6. CASE /\ s.mStatePtr = "Acquired" /\ step.mStatePtr = "Acquired"
             /\ Stepped(step, {c}, "GRANTED")
             /\ Added(s.mSubscribers, step.mSubscribers, c)
    <3>1. /\ Members(step) = Members(s) \cup {c}
          /\ Wanting(step) = IF c \in Members(s) THEN Wanting(s) ELSE Wanting(s) \cup {c}
      BY <2>6 DEF Added, Members, Wanting
    <3>2. \A d \in Clients : d # c => Alike(d, s, step)
      BY <2>6, <3>1 DEF Alike
    <3>3. PICK at, heard : at = client[c].at /\ heard = Hears(at, m, "GRANTED")
      OBVIOUS
    <3>4. Seen(c, heard, client[c].nif, step, r)
      <4>1. Seen(c, at, client[c].nif, s, queue)
        BY <1>8, <3>3
      <4>2. c \in Members(s) \/ c \in Wanting(step)
        BY <3>1
      <4>3. step.mStatePtr = "Acquired"
        BY <2>6
      <4> QED
        BY <1>2, <1>3, <1>5, <1>7, <3>3, <4>1, <4>2, <4>3, SeenAdded
    <3> QED
      BY <2>3, <2>6, <3>1, <3>2, <3>3, <3>4
  <2>7. CASE /\ s.mStatePtr \in {"Pending", "Releasing"} /\ step.mStatePtr = s.mStatePtr
             /\ Stepped(step, {}, "GRANTED")
             /\ Added(s.mSubscribers, step.mSubscribers, c)
    <3>1. /\ Members(step) = Members(s) \cup {c}
          /\ Wanting(step) = IF c \in Members(s) THEN Wanting(s) ELSE Wanting(s) \cup {c}
      BY <2>7 DEF Added, Members, Wanting
    <3>2. \A d \in Clients : d # c => Alike(d, s, step)
      BY <2>7, <3>1 DEF Alike
    <3>3. PICK at : at = client[c].at
      OBVIOUS
    <3>4. Seen(c, at, client[c].nif, step, r)
      BY <1>2, <1>3, <1>5, <1>7, <1>8, <2>7, <3>1, <3>3, SeenAdded
    <3> QED
      BY <2>3, <2>7, <3>1, <3>2, <3>3, <3>4
  <2> QED
    BY <2>1, <2>2, <2>4, <2>5, <2>6, <2>7 DEF Joins
<1>10. CASE m \notin setting.nifs
  <2>1. /\ Heard({c}, m, "DENIED") /\ queue' = r
        /\ UNCHANGED <<setting, sm, dsVars, asked, up, restarts>>
    BY <1>1, <1>5, <1>10 DEF Requests
  <2>2. ASSUME NEW d \in Clients PROVE View(d)'
    <3>1. CASE d # c
      <4>1. Quiet(d, queue, queue')
        BY <1>2, <1>3, <1>5, <2>1, <3>1, QuietTail
      <4>2. client'[d] = client[d]
        BY <2>1, <3>1 DEF Heard
      <4> QED
        BY <1>0, <2>1, <4>1, <4>2, ViewQuiet DEF Views
    <3>2. CASE d = c
      <4>1. PICK cl : cl = client[c]
        OBVIOUS
      <4>2. client'[c] = [cl EXCEPT !.at = Hears(cl.at, m, "DENIED")] /\ cl \in ClientStates
        BY <1>0, <2>1, <4>1 DEF Heard, Types
      <4>3. client'[c].nif = cl.nif /\ client'[c].at = Hears(cl.at, m, "DENIED")
        BY <4>2 DEF ClientStates
      <4>4. Seen(c, Hears(cl.at, m, "DENIED"), cl.nif, s, r)
        BY <1>2, <1>3, <1>4, <1>5, <1>8, <4>1, SeenDenied
      <4> QED
        BY <1>2, <1>4, <1>6, <2>1, <3>2, <4>1, <4>3, <4>4 DEF View, Placed
    <3> QED
      BY <3>1, <3>2
  <2>3. NoEmergencies'
    BY <1>0, <1>2, <1>5, <2>1, TailNeither DEF Views, NoEmergencies, dsVars
  <2> QED
    BY <2>2, <2>3 DEF Views
<1> QED
  BY <1>9, <1>10

(* a release, *)
LEMMA ViewRelease ==
    ASSUME Base, Views, "ds" \notin setting.nifs, Release
    PROVE  Views'
<1>0. Types /\ Machined /\ setting.nifs \subseteq Nifs
  BY SettingsType DEF Base, Types
<1>1. PICK c \in Clients, nif \in Nifs, m \in Nifs : Releases(c, nif, m)
  BY <1>0, Releasing
<1>2. queue # <<>> /\ Head(queue) = Message("release", c, nif) /\ View(c)
      /\ queue \in Seq(Messages)
  BY <1>0, <1>1 DEF Releases, Views, Types
<1>3. /\ nif = client[c].nif /\ Head(queue) \in Gives(c)
      /\ Head(queue) \notin Ups /\ Head(queue) \notin Starts \cup Ends
      /\ \A d : d # c => Head(queue) \notin Asks(d) \cup Gives(d)
  BY <1>0, <1>2, OwnMessage
<1>4. PICK r : r = Tail(queue)
  OBVIOUS
<1>5. CASE m \in Subscribed(c)
  <2>1. m \in setting.nifs /\ c \in Members(sm[m])
    BY <1>5 DEF Subscribed, Members
  <2>2. m = Server(client[c].nif) /\ m # "ds" /\ (nif = "wifi" <=> m = "wifi")
    BY <1>0, <1>2, <1>3, <2>1, ServerIs DEF View, Placed
  <2>3. PICK s : s = sm[m]
    OBVIOUS
  <2>4. s \in Machines /\ Matched(m, s, restarts) /\ Wanting(s) \subseteq Members(s)
    BY <1>0, <2>3, Sm, WantingAreMembers DEF Machined
  <2>5. PICK step : Leaves(m, s, c, step) /\ Take(m, step, "SUCCESS")
    BY <1>1, <1>5, <2>3 DEF Releases
  <2>6. /\ Stepped(step, {c}, "UNSUBSCRIBE")
        /\ Members(step) = IF m = "wifi" THEN Members(s) ELSE Members(s) \ {c}
        /\ Wanting(step) = Wanting(s) \ {c}
        /\ step.mStatePtr = IF Members(step) = {} THEN "Released"
                            ELSE IF Wanting(step) = {} THEN "Releasing" ELSE s.mStatePtr
    BY <2>2, <2>5 DEF Leaves, waitForCloseComplete
  <2>7. Seen(c, client[c].at, client[c].nif, s, queue)
    BY <1>2, <2>2, <2>3 DEF View
  <2>8. Seen(c, Hears(client[c].at, m, "UNSUBSCRIBE"), client[c].nif, step, r)
    <3>1. PICK at : at = client[c].at
      OBVIOUS
    <3>2. Seen(c, at, client[c].nif, s, queue) /\ (client[c].nif = "wifi" <=> m = "wifi")
      BY <1>3, <2>2, <2>7, <3>1
    <3>3. c \in Members(s) /\ (c \in Members(step) <=> m = "wifi") /\ c \notin Wanting(step)
      BY <2>1, <2>3, <2>6
    <3>4. Seen(c, Hears(at, m, "UNSUBSCRIBE"), client[c].nif, step, r)
      BY <1>2, <1>3, <1>4, <2>2, <3>2, <3>3, SeenLeft
    <3> QED
      BY <3>1, <3>4
  <2>9. ASSUME NEW d \in Clients, d # c PROVE Alike(d, s, step)
    <3>1. (d \in Members(step) <=> d \in Members(s)) /\ (d \in Wanting(step) <=> d \in Wanting(s))
      BY <2>6, <2>9
    <3>2. d \in Wanting(s) => step.mStatePtr = s.mStatePtr
      BY <2>4, <2>6, <3>1
    <3> QED
      BY <3>1, <3>2 DEF Alike
  <2>10. ASSUME NEW d \in Clients, Server(client[d].nif) # m
         PROVE  d \notin {c} /\ d \notin Members(step) /\ Head(queue) \notin Asks(d) \cup Gives(d)
    <3>1. d # c /\ Placed(d)
      BY <2>2, <2>10 DEF Views, View
    <3> QED
      BY <1>3, <2>3, <2>6, <2>10, <3>1 DEF Placed
  <2>11. ASSUME NEW d \in Clients, Server(client[d].nif) = m
         PROVE  Seen(d, IF d \in {c} THEN Hears(client[d].at, m, "UNSUBSCRIBE") ELSE client[d].at,
                     client[d].nif, step, r)
    <3>1. CASE d = c
      BY <2>8, <3>1
    <3>2. CASE d # c
      <4>1. Seen(d, client[d].at, client[d].nif, s, queue)
        BY <2>3, <2>11 DEF Views, View
      <4>2. Quiet(d, queue, r)
        BY <1>2, <1>3, <1>4, <3>2, QuietTail
      <4>3. Seen(d, client[d].at, client[d].nif, step, r)
        BY <2>9, <3>2, <4>1, <4>2, SeenKept
      <4> QED
        BY <3>2, <4>3
    <3> QED
      BY <3>1, <3>2
  <2>12. Stepped(step, {c}, "UNSUBSCRIBE")
         /\ \A d \in Clients : d \in Members(step) => m \in setting.nifs
    BY <2>1, <2>6
  <2>13. m \in Nifs /\ m # "ds"
    BY <1>1, <2>2
  <2>14. PICK told, said : told = {c} /\ said = "UNSUBSCRIBE"
    OBVIOUS
  <2>15. \A d \in Clients : Server(client[d].nif) # m =>
           d \notin told /\ d \notin Members(step) /\ Head(queue) \notin Asks(d) \cup Gives(d)
    BY <2>10, <2>14
  <2>16. \A d \in Clients : Server(client[d].nif) = m =>
           Seen(d, IF d \in told THEN Hears(client[d].at, m, said) ELSE client[d].at,
                client[d].nif, step, r)
    BY <2>11, <2>14
  <2> QED
    BY <1>0, <1>2, <1>3, <1>4, <2>5, <2>12, <2>13, <2>14, <2>15, <2>16, ViewTake
<1>6. CASE m \notin Subscribed(c)
  <2>1. /\ queue' = r /\ UNCHANGED <<setting, sm, dsVars, asked, up, restarts>>
        /\ \A d \in Clients : client'[d] = IF d = c /\ client[d].at = "releasing"
                                           THEN [client[d] EXCEPT !.at = "idle"] ELSE client[d]
    BY <1>1, <1>4, <1>6 DEF Releases
  <2>2. PICK v : v = Server(client[c].nif)
    OBVIOUS
  <2>3. v \in Nifs /\ v # "ds" /\ (v = "wifi" <=> nif = "wifi")
    BY <1>0, <1>3, <2>2, ServerIs
  <2>4. c \notin Members(sm[v])
    <3>1. SUFFICES ASSUME c \in Members(sm[v]) PROVE FALSE
      OBVIOUS
    <3>2. v \in setting.nifs
      BY <1>2, <2>2, <2>3, <3>1 DEF View, Placed
    <3>3. v \in Subscribed(c)
      BY <3>1, <3>2 DEF Subscribed, Members
    <3>4. \A n \in Subscribed(c) : n = v
      BY <1>0, <1>2, <2>2 DEF View, Placed, Subscribed, Members
    <3>5. CASE nif = "wifi"
      BY <1>1, <1>6, <2>3, <3>3, <3>5 DEF Releases
    <3>6. CASE nif # "wifi"
      <4>1. v \in {"agnss", "internet"}
        BY <2>3, <3>6 DEF Nifs
      <4>2. FirstOf(Subscribed(c)) = v
        BY <3>3, <3>4, <4>1 DEF FirstOf
      <4> QED
        BY <1>1, <1>6, <3>3, <3>6, <4>2 DEF Releases
    <3> QED
      BY <3>5, <3>6
  <2>5. PICK at, s : at = client[c].at /\ s = sm[v]
    OBVIOUS
  <2>6. Seen(c, at, client[c].nif, s, queue)
    BY <1>2, <2>2, <2>5 DEF View
  <2>7. at # "releasing" /\ Seen(c, at, client[c].nif, s, r)
    <3>1. c \notin Members(s) /\ Wanting(s) \subseteq Members(s)
      BY <1>0, <2>3, <2>4, <2>5, WantingAreMembers
    <3> QED
      BY <1>2, <1>3, <1>4, <2>6, <3>1, SeenUnknown
  <2>8. \A d \in Clients : client'[d] = client[d]
    BY <2>1, <2>5, <2>7
  <2>9. ASSUME NEW d \in Clients PROVE View(d)'
    <3>1. CASE d # c
      <4>1. Quiet(d, queue, queue')
        BY <1>2, <1>3, <1>4, <2>1, <3>1, QuietTail
      <4> QED
        BY <1>0, <2>1, <2>8, <4>1, ViewQuiet DEF Views
    <3>2. CASE d = c
      BY <1>2, <2>1, <2>2, <2>5, <2>7, <2>8, <3>2 DEF View, Placed
    <3> QED
      BY <3>1, <3>2
  <2>10. NoEmergencies'
    BY <1>0, <1>2, <1>4, <2>1, TailNeither DEF Views, NoEmergencies, dsVars
  <2> QED
    BY <2>9, <2>10 DEF Views
<1> QED
  BY <1>5, <1>6

(* a word about a NIF, *)
LEMMA ViewAnswer ==
    ASSUME Base, Views, "ds" \notin setting.nifs, RsrcEvent
    PROVE  Views'
<1>0. Types /\ Machined
  BY DEF Base
<1>1. PICK m \in Nifs, what \in Statuses : Answers(m, what)
  BY <1>0, Answering
<1>2. queue # <<>> /\ Head(queue) = Message(what, NULL, m) /\ Head(queue) \in OfNifs
      /\ queue \in Seq(Messages)
  BY <1>0, <1>1 DEF Answers, Types
<1>3. Head(queue) \notin Starts \cup Ends
  <2>1. Head(queue) = queue[1] /\ 1 \in 1..Len(queue)
    BY <1>2, Taken
  <2> QED
    BY <2>1 DEF Views, NoEmergencies, Neither
<1>4. m # "ds"
  <2>1. Head(queue).what = what /\ Head(queue).nif = m
    BY <1>2 DEF Message
  <2> QED
    BY <1>2, <1>3, <2>1, MessageFacts, MessageKinds DEF Statuses
<1>5. Head(queue) \notin Ups /\ \A d : Head(queue) \notin Asks(d) \cup Gives(d)
  BY <1>2, MessageKinds
<1>6. PICK r : r = Tail(queue)
  OBVIOUS
<1>7. PICK s : s = sm[m]
  OBVIOUS
<1>8. s \in Machines /\ Wanting(s) \subseteq Members(s)
  BY <1>0, <1>7, Sm, WantingAreMembers
<1>9. PICK step, ret :
        /\ Take(m, step, ret)
        /\ \/ what = "GRANTED" /\ Gets(s, step)
           \/ what = "DENIED" /\ Loses(s, step, "DENIED", "Pending")
           \/ what = "RELEASED" /\ Loses(s, step, "RELEASED", "Acquired")
  BY <1>1, <1>4, <1>7 DEF Answers
<1>10. \A d \in Clients : Quiet(d, queue, r)
  BY <1>2, <1>5, <1>6, QuietTail
<1>11. \A d \in Clients :
         Server(client[d].nif) = m => Seen(d, client[d].at, client[d].nif, s, queue)
  BY <1>7 DEF Views, View
<1>12. \A d \in Clients : d \in Members(s) => m = Server(client[d].nif) /\ m \in setting.nifs
  BY <1>7 DEF Views, View, Placed
<1>13. ASSUME NEW told, NEW said, Stepped(step, told, said), told \subseteq Members(s),
              Members(step) \subseteq Members(s),
              \A d \in Clients : Server(client[d].nif) = m =>
                Seen(d, IF d \in told THEN Hears(client[d].at, m, said) ELSE client[d].at,
                     client[d].nif, step, r)
       PROVE  Views'
  <2>1. \A d \in Clients : Server(client[d].nif) # m =>
          d \notin told /\ d \notin Members(step) /\ Head(queue) \notin Asks(d) \cup Gives(d)
    BY <1>5, <1>12, <1>13
  <2>2. \A d \in Clients : d \in Members(step) => m \in setting.nifs
    BY <1>12, <1>13
  <2> QED
    BY <1>0, <1>2, <1>3, <1>4, <1>5, <1>6, <1>9, <1>13, <2>1, <2>2, ViewTake
<1>14. ASSUME Same(s, step), Stepped(step, {}, "GRANTED") PROVE Views'
  <2>1. \A d \in Clients : Alike(d, s, step)
    BY <1>14 DEF Same, Alike, Members, Wanting
  <2>2. ASSUME NEW d \in Clients, Server(client[d].nif) = m
        PROVE  Seen(d, client[d].at, client[d].nif, step, r)
    BY <1>10, <1>11, <2>1, <2>2, SeenKept
  <2>3. Members(step) = Members(s)
    BY <1>14 DEF Same, Members
  <2> QED
    BY <1>13, <1>14, <2>2, <2>3
<1>15. CASE what = "GRANTED"
  <2>1. Gets(s, step)
    BY <1>9, <1>15
  <2>2. Members(step) = Members(s) /\ Wanting(step) = Wanting(s)
    BY <2>1 DEF Gets, Members, Wanting
  <2>3. CASE s.mStatePtr = "Pending"
    <3>1. step.mStatePtr = "Acquired" /\ Stepped(step, Wanting(s), "GRANTED")
      BY <2>1, <2>3 DEF Gets
    <3>2. ASSUME NEW d \in Clients, Server(client[d].nif) = m
          PROVE  Seen(d, IF d \in Wanting(s) THEN Hears(client[d].at, m, "GRANTED")
                         ELSE client[d].at, client[d].nif, step, r)
      <4>1. Seen(d, client[d].at, client[d].nif, s, queue) /\ Quiet(d, queue, r)
        BY <1>10, <1>11, <3>2
      <4>2. PICK at, nif : at = client[d].at /\ nif = client[d].nif
        OBVIOUS
      <4>3. Seen(d, IF d \in Wanting(s) THEN Hears(at, m, "GRANTED") ELSE at, nif, step, r)
        BY <1>8, <2>2, <2>3, <3>1, <4>1, <4>2, SeenGranted
      <4> QED
        BY <4>2, <4>3
    <3> QED
      BY <1>8, <1>13, <2>2, <3>1, <3>2
  <2>4. CASE s.mStatePtr # "Pending"
    BY <1>14, <2>1, <2>4 DEF Gets, Same
  <2> QED
    BY <2>3, <2>4
<1>16. CASE what \in {"DENIED", "RELEASED"}
  <2>1. PICK from : /\ Loses(s, step, what, from)
                    /\ from = IF what = "DENIED" THEN "Pending" ELSE "Acquired"
    BY <1>9, <1>16
  <2>2. CASE s.mStatePtr = from
    <3>1. /\ step.mStatePtr = "Released" /\ Members(step) = {} /\ Wanting(step) = {}
          /\ Stepped(step, Members(s), what)
      BY <1>16, <2>1, <2>2 DEF Loses
    <3>2. ASSUME NEW d \in Clients, Server(client[d].nif) = m
          PROVE  Seen(d, IF d \in Members(s) THEN Hears(client[d].at, m, what)
                         ELSE client[d].at, client[d].nif, step, r)
      <4>1. Seen(d, client[d].at, client[d].nif, s, queue) /\ Quiet(d, queue, r)
        BY <1>10, <1>11, <3>2
      <4>2. PICK at, nif : at = client[d].at /\ nif = client[d].nif
        OBVIOUS
      <4>3. \/ what = "RELEASED" /\ s.mStatePtr = "Acquired"
            \/ what = "DENIED" /\ s.mStatePtr = "Pending"
        BY <1>16, <2>1, <2>2
      <4>4. Seen(d, IF d \in Members(s) THEN Hears(at, m, what) ELSE at, nif, step, r)
        BY <1>4, <1>8, <3>1, <4>1, <4>2, <4>3, SeenLost
      <4> QED
        BY <4>2, <4>4
    <3> QED
      BY <1>13, <3>1, <3>2
  <2>3. CASE s.mStatePtr = "Releasing"
    <3>1. /\ step.mStatePtr = IF Wanting(s) = {} THEN "Released" ELSE "Pending"
          /\ Members(step) = Wanting(s) /\ Wanting(step) = Wanting(s)
          /\ Stepped(step, Members(s) \ Wanting(s), what)
      BY <2>1, <2>3, <1>16 DEF Loses
    <3>2. ASSUME NEW d \in Clients, Server(client[d].nif) = m
          PROVE  Seen(d, IF d \in Members(s) \ Wanting(s) THEN Hears(client[d].at, m, what)
                         ELSE client[d].at, client[d].nif, step, r)
      <4>1. Seen(d, client[d].at, client[d].nif, s, queue) /\ Quiet(d, queue, r)
        BY <1>10, <1>11, <3>2
      <4>2. PICK at, nif : at = client[d].at /\ nif = client[d].nif
        OBVIOUS
      <4>3. /\ d \in Wanting(s) => step.mStatePtr = "Pending"
            /\ d \in Members(step) <=> d \in Wanting(s)
            /\ d \in Wanting(step) <=> d \in Wanting(s)
            /\ d \in Wanting(s) => d \in Members(s)
        BY <1>8, <3>1
      <4>4. Seen(d, IF d \in Members(s) \ Wanting(s) THEN Hears(at, m, what) ELSE at,
                 nif, step, r)
        BY <1>4, <1>16, <2>3, <4>1, <4>2, <4>3, SeenClosed
      <4> QED
        BY <4>2, <4>4
    <3> QED
      BY <1>8, <1>13, <3>1, <3>2
  <2>4. CASE s.mStatePtr \notin {from, "Releasing"}
    BY <1>14, <2>1, <2>4 DEF Loses
  <2> QED
    BY <2>2, <2>3, <2>4
<1> QED
  BY <1>15, <1>16 DEF Statuses

(* or the news that the modem is up; *)
LEMMA ViewEngineUp ==
    ASSUME Base, Views, EngineUp
    PROVE  Views'
<1>0. Types
  BY DEF Base
<1>1. /\ queue # <<>> /\ Head(queue) \in Ups /\ queue' = Tail(queue) /\ queue \in Seq(Messages)
      /\ UNCHANGED <<setting, dsVars, asked, up, client, restarts>>
      /\ \A m \in Nifs : sm'[m] = IF m \in Dropped THEN [sm[m] EXCEPT !.mSubscribers = <<>>]
                                  ELSE sm[m]
  BY <1>0, BaseEngineUp DEF Types
<1>2. ASSUME NEW m \in Nifs
      PROVE  IF m \in Dropped THEN Members(sm'[m]) = {} /\ Wanting(sm'[m]) = {}
             ELSE sm'[m] = sm[m]
  <2>1. CASE m \in Dropped
    <3>1. PICK s : s = sm[m]
      OBVIOUS
    <3>2. s \in Machines
      BY <1>0, <3>1, Sm
    <3>3. sm'[m].mSubscribers = <<>>
      BY <1>1, <2>1, <3>1, <3>2 DEF Machines
    <3> QED
      BY <2>1, <3>3, NoneIs DEF Members, Wanting
  <2>2. CASE m \notin Dropped
    BY <1>1, <2>2
  <2> QED
    BY <2>1, <2>2
<1>3. ASSUME NEW c \in Clients PROVE View(c)'
  <2>1. PICK at, nif, v : at = client[c].at /\ nif = client[c].nif /\ v = Server(nif)
    OBVIOUS
  <2>2. nif \in Nifs /\ v \in Nifs /\ v # "ds" /\ (v = "wifi" <=> nif = "wifi")
    BY <1>0, <2>1, ServerIs
  <2>3. PICK s, new : s = sm[v] /\ new = sm'[v]
    OBVIOUS
  <2>4. Placed(c) /\ Seen(c, at, nif, s, queue)
    BY <2>1, <2>3 DEF Views, View
  <2>5. IF nif = "wifi" THEN new = s ELSE Members(new) = {} /\ Wanting(new) = {}
    <3>1. v \in Dropped <=> nif # "wifi"
      BY <2>2 DEF Dropped, Nifs
    <3> QED
      BY <1>2, <2>2, <2>3, <3>1
  <2>6. c \in Wanting(s) => c \in Members(s)
    BY <1>0, <2>2, <2>3, WantingAreMembers
  <2>7. Head(queue) \notin Asks(c) \cup Gives(c)
    BY <1>1, MessageKinds
  <2>8. PICK r : r = Tail(queue)
    OBVIOUS
  <2>9. Seen(c, at, nif, new, r)
    BY <1>1, <2>4, <2>5, <2>6, <2>7, <2>8, SeenUp
  <2>10. Placed(c)'
    BY <1>1, <1>2, <2>4 DEF Placed
  <2> QED
    BY <1>1, <2>1, <2>3, <2>8, <2>9, <2>10 DEF View
<1>4. NoEmergencies'
  <2>1. PICK r : r = Tail(queue)
    OBVIOUS
  <2>2. Neither(r, Starts, Ends)
    BY <1>0, <1>1, <2>1, TailNeither DEF Views, NoEmergencies
  <2> QED
    BY <1>1, <2>1, <2>2 DEF Views, NoEmergencies, dsVars
<1> QED
  BY <1>3, <1>4 DEF Views

(* when a client asks, *)
LEMMA ViewAsking ==
    ASSUME Base, Views, NEW c \in setting.clients, NEW nif \in setting.wants, ask(c, nif)
    PROVE  Views'
<1>0. Types
  BY DEF Base
<1>1. /\ c \in Clients /\ nif \in Nifs
      /\ client[c].at = "idle" /\ Neither(queue, Asks(c), Gives(c))
      /\ queue' = Append(queue, Message("request", c, nif))
      /\ client'[c].at = "requested" /\ client'[c].nif = nif
      /\ \A d \in Clients : d # c => client'[d] = client[d]
      /\ UNCHANGED <<setting, sm, dsVars, asked, up, restarts>>
  BY Asking
<1>2. PICK msg : msg = Message("request", c, nif)
  OBVIOUS
<1>3. msg \in OfClients /\ msg \in Messages /\ msg.what = "request" /\ msg.id = c
      /\ msg.nif = nif /\ queue \in Seq(Messages)
  BY <1>0, <1>1, <1>2, MessageFacts DEF Messages, Message, Types
<1>4. /\ msg \notin Starts \cup Ends /\ msg \notin Ups /\ msg \in Asks(c)
      /\ \A d : d # c => msg \notin Asks(d) \cup Gives(d)
  BY <1>3, MessageKinds
<1>5. ASSUME NEW d \in Clients PROVE View(d)'
  <2>1. CASE d # c
    <3>1. Quiet(d, queue, queue')
      BY <1>1, <1>2, <1>3, <1>4, <2>1, QuietAppend
    <3> QED
      BY <1>0, <1>1, <2>1, <3>1, ViewQuiet DEF Views
  <2>2. CASE d = c
    <3>1. \A n \in Nifs : c \notin Members(sm[n])
      <4>1. Placed(c) /\ c \notin Members(sm[Server(client[c].nif)])
        BY <1>1 DEF Views, View, Seen
      <4> QED
        BY <4>1 DEF Placed
    <3>2. Server(nif) \in Nifs
      BY <1>1 DEF Server, Nifs
    <3>3. PICK s, r : s = sm[Server(nif)] /\ r = queue'
      OBVIOUS
    <3>4. c \notin Members(s)
      BY <3>1, <3>2, <3>3
    <3>5. Seen(c, "requested", nif, s, r)
      BY <1>1, <1>2, <1>3, <1>4, <3>3, <3>4, SeenAsking
    <3>6. Placed(c)'
      BY <1>1, <3>1 DEF Placed
    <3> QED
      BY <1>1, <2>2, <3>3, <3>5, <3>6 DEF View
  <2> QED
    BY <2>1, <2>2
<1>6. NoEmergencies'
  BY <1>0, <1>1, <1>2, <1>3, <1>4, AppendNeither DEF Views, NoEmergencies, dsVars
<1> QED
  BY <1>5, <1>6 DEF Views

(* when it gives back, *)
LEMMA ViewGiving ==
    ASSUME Base, Views, NEW c \in setting.clients, giveBack(c)
    PROVE  Views'
<1>0. Types
  BY DEF Base
<1>1. /\ c \in Clients
      /\ client[c].at \in {"requested", "open"}
      /\ queue' = Append(queue, Message("release", c, client[c].nif))
      /\ client'[c].at = "releasing" /\ client'[c].nif = client[c].nif
      /\ \A d \in Clients : d # c => client'[d] = client[d]
      /\ UNCHANGED <<setting, sm, dsVars, asked, up, restarts>>
  BY Giving
<1>2. PICK at, nif, s : at = client[c].at /\ nif = client[c].nif /\ s = sm[Server(nif)]
  OBVIOUS
<1>3. PICK msg : msg = Message("release", c, nif)
  OBVIOUS
<1>4. msg \in OfClients /\ msg \in Messages /\ msg.what = "release" /\ msg.id = c
      /\ msg.nif = nif /\ queue \in Seq(Messages)
  <2>1. nif \in Nifs
    BY <1>0, <1>1, <1>2, ServerIs
  <2> QED
    BY <1>0, <1>1, <1>3, <2>1, MessageFacts DEF Messages, Message, Types
<1>5. /\ msg \notin Starts \cup Ends /\ msg \notin Ups /\ msg \in Gives(c)
      /\ \A d : d # c => msg \notin Asks(d) \cup Gives(d)
  BY <1>4, MessageKinds
<1>6. queue' = Append(queue, msg)
  BY <1>1, <1>2, <1>3
<1>7. ASSUME NEW d \in Clients PROVE View(d)'
  <2>1. CASE d # c
    <3>1. Quiet(d, queue, queue')
      BY <1>4, <1>5, <1>6, <2>1, QuietAppend
    <3> QED
      BY <1>0, <1>1, <2>1, <3>1, ViewQuiet DEF Views
  <2>2. CASE d = c
    <3>1. Placed(c) /\ Seen(c, at, nif, s, queue)
      BY <1>1, <1>2 DEF Views, View
    <3>2. PICK r : r = queue'
      OBVIOUS
    <3>3. Seen(c, "releasing", nif, s, r)
      BY <1>1, <1>2, <1>4, <1>5, <1>6, <3>1, <3>2, SeenGiving, ZenonT(60)
    <3> QED
      BY <1>1, <1>2, <2>2, <3>1, <3>2, <3>3 DEF View, Placed
  <2> QED
    BY <2>1, <2>2
<1>8. NoEmergencies'
  BY <1>0, <1>1, <1>4, <1>5, <1>6, AppendNeither DEF Views, NoEmergencies, dsVars
<1> QED
  BY <1>7, <1>8 DEF Views

(* when the modem restarts, *)
LEMMA ViewRestarting ==
    ASSUME Base, Views, restart
    PROVE  Views'
<1>0. Types
  BY DEF Base
<1>1. /\ \A c \in Clients :
           /\ client'[c].nif = client[c].nif
           /\ client'[c].at = IF client[c].at # "idle" /\ client[c].nif # "wifi" THEN "lost"
                              ELSE client[c].at
      /\ queue' = Append(queue, Message("engineUp", NULL, NULL))
      /\ UNCHANGED <<setting, sm, dsVars, asked, up>>
  BY Restarting
<1>2. PICK msg : msg = Message("engineUp", NULL, NULL)
  OBVIOUS
<1>3. msg \in Ups /\ msg \in Messages /\ queue \in Seq(Messages)
  BY <1>0, <1>2 DEF Ups, Messages, Types
<1>4. msg \notin Starts \cup Ends /\ \A c : msg \notin Asks(c) \cup Gives(c)
  BY <1>3, MessageKinds
<1>5. ASSUME NEW c \in Clients PROVE View(c)'
  <2>1. PICK at, nif, s, r : at = client[c].at /\ nif = client[c].nif /\ s = sm[Server(nif)]
                             /\ r = queue'
    OBVIOUS
  <2>2. Placed(c) /\ Seen(c, at, nif, s, queue)
    BY <2>1 DEF Views, View
  <2>3. at \in {"idle", "requested", "open", "releasing", "lost"}
    BY <1>0, <2>1 DEF Types, ClientStates
  <2>4. Seen(c, IF at # "idle" /\ nif # "wifi" THEN "lost" ELSE at, nif, s, r)
    <3>1. r = Append(queue, msg) /\ msg \notin Asks(c) \cup Gives(c)
      BY <1>1, <1>2, <1>4, <2>1
    <3> QED
      BY <1>3, <2>2, <2>3, <3>1, SeenRestarting
  <2>5. client'[c].nif = nif /\ client'[c].at = IF at # "idle" /\ nif # "wifi" THEN "lost" ELSE at
    BY <1>1, <2>1
  <2>6. Placed(c)'
    BY <1>1, <2>1, <2>2, <2>5 DEF Placed
  <2> QED
    BY <1>1, <2>1, <2>4, <2>5, <2>6 DEF View
<1>6. NoEmergencies'
  BY <1>0, <1>1, <1>2, <1>3, <1>4, AppendNeither DEF Views, NoEmergencies, dsVars
<1> QED
  BY <1>5, <1>6 DEF Views

(* when the framework answers or loses a NIF; *)
LEMMA ViewProviding ==
    ASSUME Base, Views, NEW m \in Nifs, answer(m) \/ lose(m)
    PROVE  Views'
<1>0. Types
  BY DEF Base
<1>1. UNCHANGED <<setting, sm, dsVars, client, restarts>>
  BY Providing
<1>2. PICK status \in Statuses : queue' = Append(queue, Message(status, NULL, "agnss"))
  BY Providing
<1>3. PICK msg : msg = Message(status, NULL, "agnss")
  OBVIOUS
<1>4. msg \in OfNifs /\ msg \in Messages /\ msg.nif = "agnss" /\ queue \in Seq(Messages)
  BY <1>0, <1>1, <1>3, MessageFacts DEF Messages, Message, Types, Nifs
<1>5. msg \notin Starts \cup Ends /\ msg \notin Ups /\ \A c : msg \notin Asks(c) \cup Gives(c)
  BY <1>1, <1>4, MessageKinds
<1>6. ASSUME NEW c \in Clients PROVE View(c)'
  <2>1. Quiet(c, queue, queue')
    BY <1>2, <1>3, <1>4, <1>5, QuietAppend
  <2> QED
    BY <1>0, <1>1, <2>1, ViewQuiet DEF Views
<1>7. NoEmergencies'
  BY <1>0, <1>1, <1>2, <1>3, <1>4, <1>5, AppendNeither DEF Views, NoEmergencies, dsVars
<1> QED
  BY <1>6, <1>7 DEF Views

(* at the start, *)
LEMMA ViewedInit == Init => Viewed
<1> SUFFICES ASSUME Init, "ds" \notin setting.nifs PROVE Views
  BY DEF Viewed
<1>1. timers = 0 /\ call = "down" /\ queue = <<>> /\ \A m \in Nifs : sm[m] = Fresh
  BY DEF Init
<1>2. \A m \in Nifs : Members(sm[m]) = {}
  BY <1>1, NoneIs DEF Fresh, Members
<1>3. NoEmergencies
  BY <1>1 DEF NoEmergencies, Neither
<1>4. ASSUME NEW c \in Clients PROVE View(c)
  <2>1. client[c].at = "idle" /\ client[c].nif = "agnss"
    BY DEF Init
  <2>2. Server("agnss") = "agnss" /\ "agnss" \in Nifs
    BY DEF Server, Nifs
  <2>3. Neither(queue, Asks(c), Gives(c)) /\ Named(queue, c, "agnss")
    BY <1>1 DEF Neither, Named
  <2>4. c \notin Members(sm["agnss"]) /\ Placed(c)
    BY <1>2, <2>2 DEF Placed
  <2> QED
    BY <2>1, <2>2, <2>3, <2>4 DEF View, Seen
<1> QED
  BY <1>3, <1>4 DEF Views

(* and so in every step. *)
LEMMA ViewedNext == Base /\ Viewed /\ [Next]_vars => Viewed'
<1> SUFFICES ASSUME Base, Viewed, [Next]_vars, "ds" \notin setting'.nifs PROVE Views'
  BY DEF Viewed
<1>0. Types
  BY SMTT(30) DEF Base
<1>1. setting' = setting
  BY DEF Next, vars, MsgTask, Request, Release, RsrcEvent, EngineUp, Take, retryCallback,
         restart, giveBack, ask, answer, answerNameless, lose, callStarts, callDrops, callStops, CallChanges
<1>2. Views /\ "ds" \notin setting.nifs
  BY <1>1 DEF Viewed
<1>3. CASE MsgTask
  BY <1>2, <1>3, ViewRequest, ViewRelease, ViewAnswer, ViewEngineUp DEF MsgTask
<1>4. CASE retryCallback
  <2>1. timers > 0 /\ timers = 0
    BY <1>2, <1>4, Retrying DEF Views, NoEmergencies
  <2> QED
    BY <2>1
<1>5. CASE restart
  BY <1>2, <1>5, ViewRestarting
<1>6. CASE \E c \in setting.clients : giveBack(c)
  BY <1>2, <1>6, ViewGiving
<1>7. CASE \E c \in setting.clients : \E nif \in setting.wants : ask(c, nif)
  BY <1>2, <1>7, ViewAsking
<1>8. CASE \E m \in Nifs : answer(m) \/ lose(m)
  BY <1>2, <1>8, ViewProviding
<1>11. CASE \E m \in Nifs : answerNameless(m)
  <2>1. UNCHANGED <<setting, sm, timers, call, queue, client>>
    BY <1>11, Nameless DEF dsVars
  <2> QED
    BY <1>2, <2>1 DEF Views, NoEmergencies, View, Placed
<1>9. CASE Calls
  BY <1>2, <1>9 DEF Calls, callStarts, callDrops, callStops, CallChanges, Views, NoEmergencies
<1>10. CASE UNCHANGED vars
  <2>1. UNCHANGED <<setting, sm, timers, call, queue, client>>
    BY <1>10 DEF vars, dsVars
  <2> QED
    BY <1>2, <2>1 DEF Views, NoEmergencies, View, Placed
<1> QED
  BY <1>3, <1>4, <1>5, <1>6, <1>7, <1>8, <1>9, <1>10, <1>11 DEF Next, Calls

-----------------------------------------------------------------------------
(* What the runs check, for all clients, settings and numbers of retries.  *)
IInv == Base /\ Called /\ Viewed /\ nameless \in BOOLEAN

(* Whether an answer came without a name is known. *)
LEMMA NamelessNext == nameless \in BOOLEAN /\ [Next]_vars => nameless' \in BOOLEAN
BY DEF Next, vars, MsgTask, Request, Release, RsrcEvent, EngineUp, Take, retryCallback,
       restart, giveBack, ask, answer, answerNameless, lose, callStarts, callDrops, callStops,
       CallChanges

(* The data service makes no call at the start. *)
LEMMA CalledInit == Init => Called
<1> SUFFICES ASSUME Init PROVE Called
  OBVIOUS
<1>1. call = "down" /\ queue = <<>> /\ sm["ds"] = Fresh
  BY DEF Init, Nifs
<1>2. sm["ds"].mStatePtr # "Acquired" /\ Neither(queue, Starts, Ends)
  BY <1>1 DEF Fresh, Neither
<1> QED
  BY <1>1, <1>2 DEF Called, CallFits

(* The invariant of the task, the providers, the data service and the      *)
(* clients together. *)
THEOREM AgpsInvariance == Spec => []IInv
<1>1. Init => IInv
  BY BaseInit, CalledInit, ViewedInit DEF IInv, Init
<1>2. IInv /\ [Next]_vars => IInv'
  BY BaseNext, CalledNext, ViewedNext, NamelessNext DEF IInv
<1> QED
  BY <1>1, <1>2, PTL DEF Spec

(* The types of the proof are those of the runs. *)
LEMMA TypesSuffice == Types /\ nameless \in BOOLEAN => TypeOK
<1> SUFFICES ASSUME Types, nameless \in BOOLEAN PROVE TypeOK
  OBVIOUS
<1>1. ASSUME NEW m \in Nifs
      PROVE  /\ sm[m].mStatePtr \in States
             /\ IDs(sm[m].mSubscribers) \subseteq Clients
             /\ \A i, j \in DOMAIN sm[m].mSubscribers :
                  sm[m].mSubscribers[i].ID = sm[m].mSubscribers[j].ID => i = j
  <2>1. PICK list : list = sm[m].mSubscribers
    OBVIOUS
  <2>2. sm[m].mStatePtr \in States /\ list \in Lists
    BY <2>1, Sm DEF Machines
  <2>3. IDs(list) \subseteq Clients /\ \A i, j \in DOMAIN list : list[i].ID = list[j].ID => i = j
    BY <2>2, ListFacts DEF NoTwice
  <2> QED
    BY <2>1, <2>2, <2>3
<1>2. InQueue \subseteq [what : {"request", "release", "engineUp"} \cup Statuses,
                         id : Clients \cup {NULL}, nif : Nifs \cup {NULL}]
  <2>1. InQueue \subseteq Messages
    BY DEF InQueue, Types
  <2>2. Messages \subseteq [what : {"request", "release", "engineUp"} \cup Statuses,
                            id : Clients \cup {NULL}, nif : Nifs \cup {NULL}]
    BY DEF Messages, OfClients, OfNifs, Ups, Message
  <2> QED
    BY <2>1, <2>2
<1>3. /\ setting \in Settings /\ mRetries \in 0..MaxRetries /\ timers \in Nat
      /\ call \in {"down", "starting", "up", "stopping"} /\ restarts \in 0..setting.restarts
      /\ client \in [Clients -> [at : {"idle", "requested", "open", "releasing", "lost"},
                                 nif : Nifs]]
      /\ up \in [Nifs -> BOOLEAN]
  BY DEF Types, ClientStates
<1> QED
  BY <1>1, <1>2, <1>3 DEF TypeOK

(* SubscribersMatchState: of agnss, internet and wifi, a machine without   *)
(* its NIF has no subscribers, one that expects or has it is wanted by     *)
(* somebody, unless the modem restarted, and one that gives it back has    *)
(* somebody who waits for that (the states of loc_eng_agps.cpp). *)
THEOREM SubscribersMatchStateHolds == Spec => []SubscribersMatchState
<1>1. IInv => SubscribersMatchState
  <2> SUFFICES ASSUME IInv PROVE SubscribersMatchState
    OBVIOUS
  <2>1. Types /\ Machined /\ nameless \in BOOLEAN
    BY DEF IInv, Base
  <2>2. ASSUME NEW m \in Nifs \ {"ds"}
        PROVE  /\ sm[m].mStatePtr = "Released" => sm[m].mSubscribers = <<>>
               /\ sm[m].mStatePtr \in {"Pending", "Acquired"} /\ ActiveAt(sm[m].mSubscribers) = {}
                    => restarts > 0
               /\ sm[m].mStatePtr = "Releasing" => InactiveAt(sm[m].mSubscribers) # {}
    <3>1. PICK s, list : s = sm[m] /\ list = s.mSubscribers
      OBVIOUS
    <3>2. s \in Machines /\ Matched(m, s, restarts)
      BY <2>1, <3>1, Sm DEF Machined
    <3>3. list \in Lists /\ Members(s) = IDs(list) /\ Wanting(s) = ActiveIDs(list)
      BY <3>1, <3>2 DEF Machines, Members, Wanting
    <3>4. s.mStatePtr = "Released" => list = <<>>
      BY <3>2, <3>3, EmptyIs DEF Matched
    <3>5. s.mStatePtr = "Releasing" => InactiveAt(list) # {}
      BY <3>2, <3>3, EmptyIs DEF Matched
    <3>6. s.mStatePtr \in {"Pending", "Acquired"} /\ ActiveAt(list) = {} => restarts > 0
      <4>1. restarts \in Nat
        BY <2>1, SettingsType DEF Types
      <4>2. s.mStatePtr \in {"Pending", "Acquired"} /\ ActiveAt(list) = {} => restarts # 0
        BY <3>2, <3>3, EmptyIs DEF Matched
      <4> QED
        BY <4>1, <4>2
    <3> QED
      BY <3>1, <3>4, <3>5, <3>6
  <2> QED
    BY <2>1, <2>2, TypesSuffice DEF SubscribersMatchState
<1> QED
  BY <1>1, AgpsInvariance, PTL

(* DataCallOwned: while the data service makes the emergency call or has   *)
(* it up, the ds machine expects it or has it. *)
THEOREM DataCallOwnedHolds == Spec => []DataCallOwned
<1>1. IInv => DataCallOwned
  BY DEF IInv, Called, CallFits, DataCallOwned
<1> QED
  BY <1>1, AgpsInvariance, PTL

(* What the task's queue has of a client. *)
LEMMA QueueShows ==
    ASSUME Types, NEW c
    PROVE  /\ Only(queue, Asks(c), Gives(c)) \/ InTurn(queue, Asks(c), Gives(c))
                => \E msg \in InQueue : msg.what = "request" /\ msg.id = c
           /\ Only(queue, Gives(c), Asks(c)) \/ InTurn(queue, Asks(c), Gives(c))
                => \E msg \in InQueue : msg.what = "release" /\ msg.id = c
           /\ Has(queue, Ups) => Message("engineUp", NULL, NULL) \in InQueue
<1>1. \A i \in 1..Len(queue) : queue[i] \in InQueue
  BY DEF InQueue, Types
<1>2. /\ \A msg \in Asks(c) : msg.what = "request" /\ msg.id = c
      /\ \A msg \in Gives(c) : msg.what = "release" /\ msg.id = c
  BY DEF Asks, Gives, Message
<1>3. Has(queue, Ups) => Message("engineUp", NULL, NULL) \in InQueue
  BY <1>1 DEF Has, Ups
<1>4. Only(queue, Asks(c), Gives(c)) \/ InTurn(queue, Asks(c), Gives(c))
        => \E i \in 1..Len(queue) : queue[i] \in Asks(c)
  BY DEF Only, InTurn
<1>5. Only(queue, Gives(c), Asks(c)) \/ InTurn(queue, Asks(c), Gives(c))
        => \E i \in 1..Len(queue) : queue[i] \in Gives(c)
  BY DEF Only, InTurn
<1> QED
  BY <1>1, <1>2, <1>3, <1>4, <1>5

(* Who is where on a list. *)
LEMMA WhoIsWhere ==
    ASSUME NEW list \in Lists, NEW c
    PROVE  /\ (\E i \in ActiveAt(list) : list[i].ID = c) <=> c \in ActiveIDs(list)
           /\ (\E i \in InactiveAt(list) : list[i].ID = c) <=> c \in IDs(list) \ ActiveIDs(list)
<1>1. (\E i \in ActiveAt(list) : list[i].ID = c) <=> c \in ActiveIDs(list)
  BY DEF ActiveIDs
<1>2. PICK off : off = {list[i].ID : i \in InactiveAt(list)}
  OBVIOUS
<1>3. (\E i \in InactiveAt(list) : list[i].ID = c) <=> c \in off
  BY <1>2
<1>4. off = IDs(list) \ ActiveIDs(list)
  BY <1>2, InactiveIDs
<1> QED
  BY <1>1, <1>3, <1>4

(* ViewsAgree: where there is no ds machine, a client that is open is      *)
(* among those that want a NIF that is there, one that waits is waited     *)
(* for, one that is done is not on the list, or its message is on its way, *)
(* and a handle of before a restart keeps nothing up. *)
THEOREM ViewsAgreeHolds == Spec => []ViewsAgree
<1>1. IInv => ViewsAgree
  <2> SUFFICES ASSUME IInv, "ds" \notin setting.nifs,
                      NEW m \in setting.nifs, NEW c \in ClientsOf(m)
               PROVE  LET s == sm[m]
                          active == \E i \in ActiveAt(s.mSubscribers) : s.mSubscribers[i].ID = c
                          Queued(what) == \E msg \in InQueue : msg.what = what /\ msg.id = c
                      IN  /\ client[c].at = "open" => active /\ s.mStatePtr = "Acquired"
                          /\ client[c].at = "requested" =>
                               \/ Queued("request")
                               \/ active /\ s.mStatePtr \in {"Pending", "Releasing"}
                          /\ client[c].at = "releasing" =>
                               Queued("release")
                                 \/ \E i \in InactiveAt(s.mSubscribers) :
                                      s.mSubscribers[i].ID = c
                          /\ client[c].at = "idle" => ~active \/ Queued("release")
                          /\ client[c].at = "lost" =>
                               ~active \/ Message("engineUp", NULL, NULL) \in InQueue
    BY DEF ViewsAgree
  <2>1. Types /\ Views
    BY DEF IInv, Base, Viewed
  <2>2. c \in Clients /\ m \in Nifs /\ Server(client[c].nif) = m
    BY <2>1, SettingsType DEF ClientsOf, getAgpsStateMachine, Server, Types
  <2>3. PICK s, list, at : s = sm[m] /\ list = s.mSubscribers /\ at = client[c].at
    OBVIOUS
  <2>4. list \in Lists /\ Members(s) = IDs(list) /\ Wanting(s) = ActiveIDs(list)
        /\ Wanting(s) \subseteq Members(s)
    BY <2>1, <2>2, <2>3, Sm, WantingAreMembers DEF Machines, Members, Wanting
  <2>5. Seen(c, at, client[c].nif, s, queue)
    BY <2>1, <2>2, <2>3 DEF Views, View
  <2>6. /\ (\E i \in ActiveAt(list) : list[i].ID = c) <=> c \in Wanting(s)
        /\ (\E i \in InactiveAt(list) : list[i].ID = c) <=> c \in Members(s) \ Wanting(s)
    BY <2>4, WhoIsWhere
  <2>7. at = "open" => c \in Wanting(s) /\ s.mStatePtr = "Acquired"
    BY <2>5 DEF Seen
  <2>8. at = "requested" =>
          \/ \E msg \in InQueue : msg.what = "request" /\ msg.id = c
          \/ c \in Wanting(s) /\ s.mStatePtr \in {"Pending", "Releasing"}
    BY <2>1, <2>5, QueueShows DEF Seen
  <2>9. at = "releasing" =>
          \/ \E msg \in InQueue : msg.what = "release" /\ msg.id = c
          \/ c \in Members(s) \ Wanting(s)
    BY <2>1, <2>5, QueueShows DEF Seen
  <2>10. at = "idle" => c \notin Wanting(s)
    BY <2>4, <2>5 DEF Seen
  <2>11. at = "lost" => c \notin Wanting(s) \/ Message("engineUp", NULL, NULL) \in InQueue
    BY <2>1, <2>4, <2>5, QueueShows DEF Seen
  <2> QED
    BY <2>3, <2>6, <2>7, <2>8, <2>9, <2>10, <2>11
<1> QED
  BY <1>1, AgpsInvariance, PTL
=============================================================================
