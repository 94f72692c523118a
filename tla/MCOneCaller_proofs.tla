------------------------- MODULE MCOneCaller_proofs -------------------------
(***************************************************************************)
(* Proofs about the components that one caller uses at a time: the pointer *)
(* list, for any cells and any objects; the address tool, for any number   *)
(* of boots and whatever fails; the camera wrapper, for any number of      *)
(* opens; the configuration, for any files and any updates; and the heap,  *)
(* for any objects and any ranks.                                          *)
(***************************************************************************)
EXTENDS MCOneCaller, SequenceTheorems, FiniteSetTheorems, NaturalsInduction,
        WellFoundedInduction, TLAPS

(* What each of the four changes does to the sequence of elements. *)
LEMMA PushProperties ==
    ASSUME NEW S, NEW s \in Seq(S), NEW e \in S
    PROVE  /\ <<e>> \o s \in Seq(S)
           /\ Len(<<e>> \o s) = Len(s) + 1
           /\ (<<e>> \o s)[1] = e
           /\ \A i \in 1..Len(s) : (<<e>> \o s)[i + 1] = s[i]
<1>1. <<e>> \in Seq(S) /\ Len(<<e>>) = 1 /\ <<e>>[1] = e
  OBVIOUS
<1> QED BY <1>1, ConcatProperties, LenProperties

LEMMA FrontProperties ==
    ASSUME NEW S, NEW s \in Seq(S), s # <<>>
    PROVE  /\ SubSeq(s, 1, Len(s) - 1) \in Seq(S)
           /\ Len(SubSeq(s, 1, Len(s) - 1)) = Len(s) - 1
           /\ \A i \in 1..(Len(s) - 1) : SubSeq(s, 1, Len(s) - 1)[i] = s[i]
<1> DEFINE k == Len(s)
<1>1. k \in Nat /\ k # 0 /\ \A i \in 1..k : s[i] \in S
  BY EmptySeq, ElementOfSeq
<1> HIDE DEF k
<1>2. \A i \in 1..(k - 1) : s[i] \in S
  BY <1>1
<1>3. /\ SubSeq(s, 1, k - 1) \in Seq(S)
      /\ Len(SubSeq(s, 1, k - 1)) = k - 1
      /\ \A i \in 1..(k - 1) : SubSeq(s, 1, k - 1)[i] = s[i]
  BY <1>1, <1>2, SubSeqProperties
<1> QED BY <1>3 DEF k

LEMMA WithoutProperties ==
    ASSUME NEW S, NEW s \in Seq(S), NEW k \in 1..Len(s)
    PROVE  /\ Without(s, k) \in Seq(S)
           /\ Len(Without(s, k)) = Len(s) - 1
           /\ \A i \in 1..(Len(s) - 1) :
                Without(s, k)[i] = IF i < k THEN s[i] ELSE s[i + 1]
<1> DEFINE l == SubSeq(s, 1, k - 1)
           r == SubSeq(s, k + 1, Len(s))
<1>0. Len(s) \in Nat /\ k \in Nat /\ \A i \in 1..Len(s) : s[i] \in S
  BY LenProperties, ElementOfSeq
<1>1. /\ l \in Seq(S)
      /\ Len(l) = k - 1
      /\ \A i \in 1..(k - 1) : l[i] = s[i]
  <2>1. \A i \in 1..(k - 1) : s[i] \in S
    BY <1>0
  <2> QED BY <1>0, <2>1, SubSeqProperties
<1>2. /\ r \in Seq(S)
      /\ Len(r) = Len(s) - k
      /\ \A i \in 1..(Len(s) - k) : r[i] = s[k + i]
  <2>1. \A i \in (k + 1)..Len(s) : s[i] \in S
    BY <1>0
  <2> QED BY <1>0, <2>1, SubSeqProperties
<1> HIDE DEF l, r
<1>3. /\ l \o r \in Seq(S)
      /\ Len(l \o r) = Len(s) - 1
      /\ \A i \in 1..(Len(s) - 1) : (l \o r)[i] = IF i <= k - 1 THEN l[i] ELSE r[i - (k - 1)]
  BY <1>0, <1>1, <1>2, ConcatProperties
<1>4. ASSUME NEW i \in 1..(Len(s) - 1)
      PROVE  (l \o r)[i] = IF i < k THEN s[i] ELSE s[i + 1]
  <2>1. CASE i < k
    BY <1>0, <1>1, <1>3, <2>1
  <2>2. CASE ~(i < k)
    <3>1. i - (k - 1) \in 1..(Len(s) - k) /\ k + (i - (k - 1)) = i + 1
      BY <1>0, <2>2
    <3> QED BY <1>0, <1>2, <1>3, <2>2, <3>1
  <2> QED BY <2>1, <2>2
<1> QED BY <1>3, <1>4 DEF Without, l, r

-----------------------------------------------------------------------------
(* The objects in the list are different and alive, which the pointers     *)
(* alone do not say.                                                       *)
Objects ==
    /\ \A i \in 1..Len(order) : data_ptr[order[i]] \in Datas
    /\ \A i, j \in 1..Len(order) :
         data_ptr[order[i]] = data_ptr[order[j]] => i = j

(* How far a search has come: no match among the elements it passed. *)
Progress ==
    /\ pc # "search" => tmp = NULL
    /\ pc = "search" =>
         \E k \in 1..(Len(order) + 1) :
           /\ tmp = IF k = Len(order) + 1 THEN NULL ELSE order[k]
           /\ \A i \in 1..(k - 1) : data_ptr[order[i]] \notin query.match

IInv == TypeOK /\ WellLinked /\ MemorySafe /\ Objects /\ Progress

LEMMA InitIInv == Init => IInv
<1> SUFFICES ASSUME Init PROVE IInv
  OBVIOUS
<1>1. order = <<>> /\ Len(order) = 0 /\ order \in Seq(Elements)
  BY EmptySeq DEF Init
<1>2. TypeOK
  BY <1>1 DEF Init, TypeOK, Pointer, Query, NoQuery
<1> QED BY <1>1, <1>2 DEF Init, IInv, WellLinked, ForwardLinked, BackwardLinked,
           MemorySafe, Content, Objects, Progress

(* What the invariant says of the list as a sequence. *)
LEMMA ListFacts ==
    ASSUME IInv
    PROVE  /\ Len(order) \in Nat
           /\ (order = <<>>) <=> (Len(order) = 0)
           /\ \A i \in 1..Len(order) : order[i] \in Elements /\ order[i] # NULL
           /\ allocated = {order[i] : i \in 1..Len(order)}
           /\ \A i, j \in 1..Len(order) : order[i] = order[j] => i = j
BY EmptySeq, LenProperties, ElementOfSeq, NullIsNoObject DEF IInv, TypeOK, MemorySafe

LEMMA AddStep ==
    ASSUME IInv, NEW e \in Elements, NEW d \in Datas, NEW f \in BOOLEAN,
           linked_list_add(e, d, f)
    PROVE  IInv'
<1> DEFINE n == Len(order)
<1>0. /\ n \in Nat
      /\ (order = <<>>) <=> (n = 0)
      /\ \A i \in 1..n : order[i] \in Elements /\ order[i] # NULL /\ order[i] # e
      /\ allocated = {order[i] : i \in 1..n}
      /\ \A i, j \in 1..n : order[i] = order[j] => i = j
      /\ e # NULL
  BY ListFacts, NullIsNoObject DEF linked_list_add
<1>1. /\ order' \in Seq(Elements)
      /\ Len(order') = n + 1
      /\ order'[1] = e
      /\ \A i \in 1..n : order'[i + 1] = order[i]
  BY PushProperties DEF linked_list_add, IInv, TypeOK
<1>2. /\ \A i \in 2..(n + 1) : i - 1 \in 1..n /\ order'[i] = order[i - 1]
      /\ order' # <<>>
      /\ \A i \in 1..(n + 1) : i = 1 \/ i \in 2..(n + 1)
  BY <1>0, <1>1, EmptySeq
<1>3. /\ p_head = IF n = 0 THEN NULL ELSE order[1]
      /\ p_tail = IF n = 0 THEN NULL ELSE order[n]
      /\ \A i \in 1..n : next[order[i]] = IF i = n THEN NULL ELSE order[i + 1]
      /\ \A i \in 1..n : prev[order[i]] = IF i = 1 THEN NULL ELSE order[i - 1]
      /\ p_head \in Pointer /\ p_tail \in Pointer
      /\ next \in [Elements -> Pointer]
      /\ prev \in [Elements -> Pointer]
  BY <1>0 DEF linked_list_add, IInv, TypeOK, WellLinked, ForwardLinked, BackwardLinked
<1>4. /\ pc = "idle" /\ pc' = "idle" /\ UNCHANGED <<deallocated, tmp, query, data_p>>
      /\ allocated' = allocated \cup {e}
      /\ p_head' = e
      /\ next' = [next EXCEPT ![e] = p_head]
      /\ data_ptr' = [data_ptr EXCEPT ![e] = d]
      /\ dealloc_func' = [dealloc_func EXCEPT ![e] = f]
      /\ d \notin deallocated
      /\ \A i \in 1..n : data_ptr[order[i]] # d
  BY DEF linked_list_add, Content
<1>5. /\ prev' \in [Elements -> Pointer]
      /\ prev'[e] = NULL
      /\ \A i \in 1..n : prev'[order[i]] = IF i = 1 THEN e ELSE prev[order[i]]
      /\ p_tail' = IF n = 0 THEN e ELSE p_tail
  <2>1. CASE n = 0
    BY <1>0, <1>3, <2>1 DEF linked_list_add, Pointer
  <2>2. CASE n # 0
    <3>1. p_head = order[1] /\ p_head # NULL /\ p_head \in Elements /\ p_head # e
      BY <1>0, <1>3, <2>2
    <3>2. prev' = [prev EXCEPT ![p_head] = e, ![e] = NULL] /\ p_tail' = p_tail
      BY <3>1 DEF linked_list_add
    <3>3. \A i \in 1..n : order[i] = p_head <=> i = 1
      BY <1>0, <3>1, <2>2
    <3> QED BY <1>0, <1>3, <2>2, <3>1, <3>2, <3>3 DEF Pointer
  <2> QED BY <2>1, <2>2
<1>6. TypeOK'
  BY <1>1, <1>3, <1>4, <1>5 DEF IInv, TypeOK, Pointer
<1>7. ForwardLinked'
  <2>1. next'[e] = p_head /\ \A i \in 1..n : next'[order[i]] = next[order[i]]
    BY <1>0, <1>3, <1>4
  <2>2. p_head' = order'[1]
    BY <1>1, <1>4
  <2>3. next'[order'[1]] = IF 1 = n + 1 THEN NULL ELSE order'[2]
    BY <1>0, <1>1, <1>2, <1>3, <2>1
  <2>4. ASSUME NEW j \in 2..(n + 1)
        PROVE  next'[order'[j]] = IF j = n + 1 THEN NULL ELSE order'[j + 1]
    <3>1. j - 1 \in 1..n /\ order'[j] = order[j - 1]
      BY <1>2
    <3>2. next'[order'[j]] = IF j - 1 = n THEN NULL ELSE order[(j - 1) + 1]
      BY <1>3, <2>1, <3>1
    <3>3. j # n + 1 => order'[j + 1] = order[j]
      BY <1>0, <1>1, <3>1
    <3> QED BY <1>0, <3>1, <3>2, <3>3
  <2> QED BY <1>1, <1>2, <2>2, <2>3, <2>4 DEF ForwardLinked
<1>8. BackwardLinked'
  <2>1. p_tail' = order'[n + 1]
    BY <1>0, <1>1, <1>3, <1>5
  <2>2. ASSUME NEW j \in 2..(n + 1)
        PROVE  prev'[order'[j]] = order'[j - 1]
    <3>1. j - 1 \in 1..n /\ order'[j] = order[j - 1]
      BY <1>2
    <3>2. prev'[order'[j]] = IF j - 1 = 1 THEN e ELSE order[(j - 1) - 1]
      BY <1>3, <1>5, <3>1
    <3>3. j - 1 # 1 => /\ (j - 1) - 1 \in 1..n
                       /\ ((j - 1) - 1) + 1 = j - 1
      BY <1>0, <3>1
    <3>4. j - 1 # 1 => order'[j - 1] = order[(j - 1) - 1]
      BY <1>1, <3>3
    <3> QED BY <1>1, <3>2, <3>4
  <2> QED BY <1>0, <1>1, <1>2, <1>5, <2>1, <2>2 DEF BackwardLinked
<1>9. /\ data_ptr'[e] = d
      /\ \A i \in 1..n : data_ptr'[order[i]] = data_ptr[order[i]]
  BY <1>0, <1>4 DEF IInv, TypeOK
<1>10. Objects'
  <2>1. /\ data_ptr'[order'[1]] = d
        /\ \A i \in 2..(n + 1) : data_ptr'[order'[i]] = data_ptr[order[i - 1]]
    BY <1>1, <1>2, <1>9
  <2>2. /\ \A i \in 1..n : data_ptr[order[i]] \in Datas
        /\ \A i, j \in 1..n : data_ptr[order[i]] = data_ptr[order[j]] => i = j
    BY DEF IInv, Objects
  <2>3. ASSUME NEW i \in 1..(n + 1)
        PROVE  data_ptr'[order'[i]] \in Datas
    BY <1>2, <2>1, <2>2
  <2>4. ASSUME NEW i \in 1..(n + 1), NEW j \in 1..(n + 1),
               data_ptr'[order'[i]] = data_ptr'[order'[j]]
        PROVE  i = j
    <3>1. CASE i = 1 /\ j = 1
      BY <3>1
    <3>2. CASE i # 1 /\ j # 1
      <4>1. i - 1 \in 1..n /\ j - 1 \in 1..n
        BY <1>0, <3>2
      <4>2. data_ptr[order[i - 1]] = data_ptr[order[j - 1]]
        BY <1>2, <2>1, <2>4, <3>2
      <4>3. i - 1 = j - 1
        BY <2>2, <4>1, <4>2
      <4> QED BY <4>3
    <3>3. CASE (i = 1) # (j = 1)
      BY <1>2, <1>4, <2>1, <2>4, <3>3
    <3> QED BY <3>1, <3>2, <3>3
  <2> QED BY <1>1, <2>3, <2>4 DEF Objects
<1>11. MemorySafe'
  <2>1. allocated' = {order'[i] : i \in 1..Len(order')}
    <3>1. \A i \in 1..n : i + 1 \in 1..(n + 1)
      BY <1>0
    <3>2. \A x \in allocated : \E i \in 1..(n + 1) : x = order'[i]
      BY <1>0, <1>1, <3>1
    <3>3. 1 \in 1..(n + 1)
      BY <1>0
    <3>4. \A i \in 1..(n + 1) : order'[i] \in allocated \cup {e}
      BY <1>0, <1>1, <1>2
    <3> QED BY <1>1, <1>4, <3>2, <3>3, <3>4
  <2>2. ASSUME NEW i \in 1..(n + 1), NEW j \in 1..(n + 1), order'[i] = order'[j]
        PROVE  i = j
    <3>1. data_ptr'[order'[i]] = data_ptr'[order'[j]]
      BY <2>2
    <3> QED BY <1>1, <1>10, <3>1 DEF Objects
  <2>3. Content' \cap deallocated' = {}
    <3>1. \A i \in 1..n : data_ptr[order[i]] \notin deallocated
      BY DEF Content, IInv, MemorySafe
    <3>2. \A i \in 1..(n + 1) : data_ptr'[order'[i]] \notin deallocated
      BY <1>1, <1>2, <1>4, <1>9, <3>1
    <3> QED BY <1>1, <1>4, <3>2 DEF Content
  <2> QED BY <1>1, <1>4, <2>1, <2>2, <2>3 DEF MemorySafe
<1>12. Progress'
  BY <1>4 DEF IInv, Progress
<1> QED BY <1>6, <1>7, <1>8, <1>10, <1>11, <1>12 DEF IInv, WellLinked

(* Taking the element at position k out of the sequence, as remove, a      *)
(* search with rm_if_found and a flush all do, keeps the objects and the   *)
(* memory right, whatever becomes of the removed object.                   *)
LEMMA ShrinkStep ==
    ASSUME IInv, NEW k \in 1..Len(order),
           order' \in Seq(Elements),
           Len(order') = Len(order) - 1,
           \A i \in 1..(Len(order) - 1) :
             order'[i] = IF i < k THEN order[i] ELSE order[i + 1],
           free(order[k]),
           deallocated' \subseteq deallocated \cup {data_ptr[order[k]]},
           pc' = "search" => tmp' = NULL
    PROVE  Objects' /\ MemorySafe'
<1> DEFINE n == Len(order)
           at(i) == IF i < k THEN i ELSE i + 1
<1>0. /\ n \in Nat
      /\ \A i \in 1..n : order[i] \in Elements
      /\ allocated = {order[i] : i \in 1..n}
      /\ \A i, j \in 1..n : order[i] = order[j] => i = j
  BY ListFacts
<1>1. /\ \A i \in 1..n : data_ptr[order[i]] \in Datas
      /\ \A i, j \in 1..n : data_ptr[order[i]] = data_ptr[order[j]] => i = j
      /\ \A i \in 1..n : data_ptr[order[i]] \notin deallocated
  BY DEF IInv, Objects, MemorySafe, Content
<1>2. /\ \A i \in 1..(n - 1) : at(i) \in 1..n /\ at(i) # k /\ order'[i] = order[at(i)]
      /\ \A i, j \in 1..(n - 1) : at(i) = at(j) => i = j
      /\ \A j \in 1..n : j # k => \E i \in 1..(n - 1) : at(i) = j
  <2>1. ASSUME NEW i \in 1..(n - 1)
        PROVE  at(i) \in 1..n /\ at(i) # k /\ order'[i] = order[at(i)]
    BY <1>0
  <2>2. ASSUME NEW i \in 1..(n - 1), NEW j \in 1..(n - 1), at(i) = at(j)
        PROVE  i = j
    BY <1>0, <2>2
  <2>3. ASSUME NEW j \in 1..n, j # k
        PROVE  \E i \in 1..(n - 1) : at(i) = j
    <3>1. CASE j < k
      <4>1. j \in 1..(n - 1) /\ at(j) = j
        BY <1>0, <3>1
      <4> QED BY <4>1
    <3>2. CASE j > k
      <4>1. j - 1 \in 1..(n - 1) /\ at(j - 1) = j
        BY <1>0, <3>2
      <4> QED BY <4>1
    <3> QED BY <1>0, <2>3, <3>1, <3>2
  <2> QED BY <2>1, <2>2, <2>3
<1> HIDE DEF at
<1>3. \A i \in 1..n : i # k => data_ptr'[order[i]] = data_ptr[order[i]]
  BY <1>0 DEF free, IInv, TypeOK
<1>4. \A i \in 1..(n - 1) : data_ptr'[order'[i]] = data_ptr[order[at(i)]]
  BY <1>2, <1>3
<1>5. Objects'
  <2>1. \A i \in 1..(n - 1) : data_ptr'[order'[i]] \in Datas
    BY <1>1, <1>2, <1>4
  <2>2. ASSUME NEW i \in 1..(n - 1), NEW j \in 1..(n - 1),
               data_ptr'[order'[i]] = data_ptr'[order'[j]]
        PROVE  i = j
    <3>1. at(i) \in 1..n /\ at(j) \in 1..n
      BY <1>2
    <3>2. data_ptr[order[at(i)]] = data_ptr[order[at(j)]]
      BY <1>4, <2>2
    <3>3. at(i) = at(j)
      BY <1>1, <3>1, <3>2
    <3> QED BY <1>2, <3>3
  <2> QED BY <2>1, <2>2 DEF Objects
<1>6. allocated' = {order'[i] : i \in 1..Len(order')}
  <2>1. allocated' = allocated \ {order[k]}
    BY DEF free
  <2>2. ASSUME NEW x \in allocated'
        PROVE  \E i \in 1..(n - 1) : x = order'[i]
    <3>1. PICK j \in 1..n : x = order[j]
      BY <1>0, <2>1
    <3>2. PICK i \in 1..(n - 1) : at(i) = j
      BY <1>2, <2>1, <3>1
    <3> QED BY <1>2, <3>1, <3>2
  <2>3. ASSUME NEW i \in 1..(n - 1)
        PROVE  order'[i] \in allocated'
    <3>1. at(i) \in 1..n /\ at(i) # k /\ order'[i] = order[at(i)]
      BY <1>2
    <3>2. order[at(i)] # order[k]
      BY <1>0, <3>1
    <3> QED BY <1>0, <2>1, <3>1, <3>2
  <2> QED BY <2>2, <2>3
<1>7. ASSUME NEW i \in 1..(n - 1), NEW j \in 1..(n - 1), order'[i] = order'[j]
      PROVE  i = j
  <2>1. at(i) \in 1..n /\ at(j) \in 1..n /\ order[at(i)] = order[at(j)]
    BY <1>2, <1>7
  <2>2. at(i) = at(j)
    BY <1>0, <2>1
  <2> QED BY <1>2, <2>2
<1>8. Content' \cap deallocated' = {}
  <2>1. ASSUME NEW i \in 1..(n - 1)
        PROVE  data_ptr'[order'[i]] \notin deallocated'
    <3>1. at(i) \in 1..n /\ at(i) # k
      BY <1>2
    <3>2. data_ptr[order[at(i)]] # data_ptr[order[k]]
      BY <1>1, <3>1
    <3> QED BY <1>1, <1>4, <3>1, <3>2
  <2> QED BY <2>1 DEF Content
<1> QED BY <1>5, <1>6, <1>7, <1>8 DEF MemorySafe

LEMMA RemoveStep ==
    ASSUME IInv, linked_list_remove
    PROVE  IInv'
<1> DEFINE n == Len(order)
<1>0. /\ n \in Nat
      /\ (order = <<>>) <=> (n = 0)
      /\ \A i \in 1..n : order[i] \in Elements /\ order[i] # NULL
      /\ \A i, j \in 1..n : order[i] = order[j] => i = j
  BY ListFacts
<1>1. /\ pc = "idle" /\ pc' = "idle" /\ UNCHANGED <<deallocated, tmp, query>>
      /\ n # 0
      /\ p_tail = order[n]
      /\ \A i \in 1..n : next[order[i]] = IF i = n THEN NULL ELSE order[i + 1]
      /\ \A i \in 1..n : prev[order[i]] = IF i = 1 THEN NULL ELSE order[i - 1]
      /\ p_head = order[1]
  BY <1>0 DEF linked_list_remove, IInv, WellLinked, ForwardLinked, BackwardLinked
<1>2. /\ order' \in Seq(Elements)
      /\ Len(order') = n - 1
      /\ \A i \in 1..(n - 1) : order'[i] = order[i]
  BY <1>0, <1>1, FrontProperties DEF linked_list_remove, IInv, TypeOK
<1>3. (order' = <<>>) <=> (n = 1)
  BY <1>0, <1>2, EmptySeq
<1>4. p_tail \in Elements /\ n \in 1..n
  BY <1>0, <1>1
<1>5. Objects' /\ MemorySafe'
  <2>1. \A i \in 1..(n - 1) : i < n
    BY <1>0
  <2> QED BY <1>0, <1>1, <1>2, <1>4, <2>1, ShrinkStep DEF linked_list_remove
<1>6. TypeOK'
  <2>1. data_ptr[p_tail] \in Datas
    BY <1>1, <1>4 DEF IInv, Objects
  <2> QED BY <1>1, <1>2, <1>4, <2>1 DEF linked_list_remove, ObjectOf, free, IInv, TypeOK, Pointer
<1>7. ForwardLinked'
  <2>1. CASE n = 1
    BY <1>0, <1>1, <1>2, <1>3, <2>1 DEF linked_list_remove, ForwardLinked
  <2>2. CASE n # 1
    <3>0. n - 1 \in 1..n
      <4>1. n \in Nat /\ n # 0
        BY <1>0, <1>1
      <4> QED BY <2>2, <4>1
    <3>1. prev[p_tail] # NULL /\ prev[p_tail] = order[n - 1]
      <4>1. order[n - 1] # NULL
        BY <1>0, <3>0
      <4>2. prev[order[n]] = IF n = 1 THEN NULL ELSE order[n - 1]
        BY <1>1, <1>4
      <4> QED BY <1>1, <2>2, <4>1, <4>2
    <3>2. /\ next' = [next EXCEPT ![order[n - 1]] = NULL]
          /\ p_head' = p_head
      BY <3>1 DEF linked_list_remove
    <3>3. ASSUME NEW i \in 1..(n - 1)
          PROVE  next'[order'[i]] = IF i = n - 1 THEN NULL ELSE order'[i + 1]
      <4>1. order[i] \in Elements /\ (order[i] = order[n - 1] <=> i = n - 1)
        BY <1>0, <3>0
      <4> QED BY <1>0, <1>1, <1>2, <3>2, <4>1, SMTT(30) DEF IInv, TypeOK
    <3> QED BY <1>0, <1>1, <1>2, <1>3, <2>2, <3>2, <3>3 DEF ForwardLinked
  <2> QED BY <2>1, <2>2
<1>8. BackwardLinked'
  <2>1. \A i \in 1..(n - 1) : order[i] # p_tail
    BY <1>0, <1>1
  <2>2. \A i \in 1..(n - 1) : prev'[order[i]] = prev[order[i]]
    BY <1>0, <2>1 DEF linked_list_remove, IInv, TypeOK
  <2>3. p_tail' = IF n = 1 THEN NULL ELSE order[n - 1]
    BY <1>0, <1>1, <1>4 DEF linked_list_remove
  <2>4. \A i \in 1..(n - 1) : prev'[order'[i]] = IF i = 1 THEN NULL ELSE order'[i - 1]
    BY <1>0, <1>1, <1>2, <2>2
  <2> QED BY <1>0, <1>2, <1>3, <2>3, <2>4 DEF BackwardLinked
<1>9. Progress'
  BY <1>1 DEF IInv, Progress
<1> QED BY <1>1, <1>5, <1>6, <1>7, <1>8, <1>9 DEF IInv, WellLinked

-----------------------------------------------------------------------------
(* The cells do not change: only the cursor and the flow of control move. *)
LEMMA SameCells ==
    ASSUME IInv, UNCHANGED cells, pc = "flush" => pc' = "flush"
    PROVE  WellLinked' /\ Objects'
BY DEF cells, IInv, WellLinked, ForwardLinked, BackwardLinked, Objects

(* The cursor is at some position of the list. *)
LEMMA CursorPosition ==
    ASSUME IInv, pc = "search", tmp # NULL
    PROVE  \E k \in 1..Len(order) :
             /\ tmp = order[k]
             /\ \A i \in 1..(k - 1) : data_ptr[order[i]] \notin query.match
<1>1. Len(order) \in Nat
  BY ListFacts
<1>2. PICK k \in 1..(Len(order) + 1) :
        /\ tmp = IF k = Len(order) + 1 THEN NULL ELSE order[k]
        /\ \A i \in 1..(k - 1) : data_ptr[order[i]] \notin query.match
  BY DEF IInv, Progress
<1>3. k \in 1..Len(order)
  BY <1>1, <1>2
<1> QED BY <1>2, <1>3

LEMMA SearchStep ==
    ASSUME IInv, NEW q \in Query, linked_list_search(q)
    PROVE  IInv'
<1>1. WellLinked' /\ Objects'
  BY SameCells DEF linked_list_search
<1>2. UNCHANGED cells /\ UNCHANGED deallocated /\ pc = "idle" /\ query' \in Query
  BY DEF linked_list_search, IInv, TypeOK
<1>3. TypeOK'
  BY <1>2 DEF linked_list_search, cells, IInv, TypeOK
<1>4. CASE p_tail = NULL
  <2>1. UNCHANGED <<pc, tmp>>
    BY <1>4 DEF linked_list_search
  <2> QED BY <1>1, <1>2, <1>3, <2>1 DEF cells, IInv, MemorySafe, Content, Progress
<1>5. CASE p_tail # NULL
  <2>1. tmp' = p_head /\ pc' = "search"
    BY <1>5 DEF linked_list_search
  <2>2. Len(order) \in Nat /\ order # <<>> /\ Len(order) # 0
    BY <1>2, <1>5, ListFacts DEF IInv, WellLinked, BackwardLinked
  <2>3. 1 \in 1..Len(order) /\ p_head = order[1]
    BY <2>2 DEF IInv, WellLinked, ForwardLinked
  <2>4. MemorySafe'
    BY <1>2, <2>1, <2>3 DEF cells, IInv, MemorySafe, Content
  <2>5. Progress'
    <3>1. 1 \in 1..(Len(order) + 1) /\ 1 # Len(order) + 1
      BY <2>2
    <3>2. \A i \in 1..(1 - 1) : data_ptr'[order'[i]] \notin query'.match
      OBVIOUS
    <3> QED BY <1>2, <2>1, <2>3, <3>1, <3>2 DEF cells, Progress
  <2> QED BY <1>1, <1>3, <2>4, <2>5 DEF IInv
<1> QED BY <1>4, <1>5

LEMMA SearchNextStep ==
    ASSUME IInv, SearchNext
    PROVE  IInv'
<1>1. WellLinked' /\ Objects'
  BY SameCells DEF SearchNext
<1>2. /\ UNCHANGED <<cells, deallocated, pc, query, data_p>>
      /\ pc = "search" /\ tmp # NULL /\ tmp' = next[tmp]
      /\ data_ptr[tmp] \notin query.match
  BY DEF SearchNext
<1>3. PICK k \in 1..Len(order) :
        /\ tmp = order[k]
        /\ \A i \in 1..(k - 1) : data_ptr[order[i]] \notin query.match
  BY <1>2, CursorPosition
<1>4. /\ Len(order) \in Nat
      /\ tmp \in Elements
      /\ tmp' = IF k = Len(order) THEN NULL ELSE order[k + 1]
      /\ \A i \in 1..Len(order) : order[i] \in allocated
  BY <1>2, <1>3, ListFacts DEF IInv, WellLinked, ForwardLinked
<1>5. TypeOK'
  BY <1>2, <1>4, ZenonT(60) DEF cells, IInv, TypeOK
<1>6. MemorySafe'
  <2>1. tmp' # NULL => tmp' \in allocated
    BY <1>3, <1>4
  <2> QED BY <1>2, <2>1 DEF cells, IInv, MemorySafe, Content
<1>7. Progress'
  <2>1. k + 1 \in 1..(Len(order) + 1) /\ (k = Len(order) <=> k + 1 = Len(order) + 1)
    BY <1>4
  <2>2. ASSUME NEW i \in 1..((k + 1) - 1)
        PROVE  data_ptr[order[i]] \notin query.match
    <3>1. i = k \/ i \in 1..(k - 1)
      BY <1>4
    <3> QED BY <1>2, <1>3, <3>1
  <2> QED BY <1>2, <1>4, <2>1, <2>2 DEF cells, Progress
<1> QED BY <1>1, <1>5, <1>6, <1>7 DEF IInv

(* Unlink takes one position out of both chains. *)
LEMMA UnlinkStep ==
    ASSUME IInv, pc = "search", NEW k \in 1..Len(order), tmp = order[k], Unlink
    PROVE  /\ order' = Without(order, k)
           /\ ForwardLinked' /\ BackwardLinked'
           /\ p_head' \in Pointer /\ p_tail' \in Pointer
           /\ next' \in [Elements -> Pointer] /\ prev' \in [Elements -> Pointer]
<1> DEFINE n == Len(order)
<1>0. /\ n \in Nat
      /\ \A i \in 1..n : order[i] \in Elements /\ order[i] # NULL
      /\ \A i, j \in 1..n : order[i] = order[j] => i = j
  BY ListFacts
<1>1. /\ order # <<>>
      /\ p_head = order[1]
      /\ p_tail = order[n]
      /\ \A i \in 1..n : next[order[i]] = IF i = n THEN NULL ELSE order[i + 1]
      /\ \A i \in 1..n : prev[order[i]] = IF i = 1 THEN NULL ELSE order[i - 1]
      /\ order \in Seq(Elements)
      /\ next \in [Elements -> Pointer] /\ prev \in [Elements -> Pointer]
      /\ p_head \in Pointer /\ p_tail \in Pointer
  BY <1>0, ListFacts DEF IInv, TypeOK, WellLinked, ForwardLinked, BackwardLinked
<1>2. Position(tmp) = k
  BY <1>0 DEF Position
<1>3. /\ order' = Without(order, k)
      /\ Len(order') = n - 1
      /\ \A i \in 1..(n - 1) : order'[i] = IF i < k THEN order[i] ELSE order[i + 1]
      /\ order' \in Seq(Elements)
  <2>1. order' = Without(order, k)
    BY <1>2 DEF Unlink
  <2>2. /\ Without(order, k) \in Seq(Elements)
        /\ Len(Without(order, k)) = n - 1
        /\ \A i \in 1..(n - 1) :
             Without(order, k)[i] = IF i < k THEN order[i] ELSE order[i + 1]
    BY <1>1, WithoutProperties
  <2> QED BY <2>1, <2>2
<1>4. (order' = <<>>) <=> (n = 1)
  BY <1>0, <1>3, EmptySeq
<1>5. /\ next[tmp] = IF k = n THEN NULL ELSE order[k + 1]
      /\ prev[tmp] = IF k = 1 THEN NULL ELSE order[k - 1]
      /\ tmp \in Elements
      /\ k # n => k + 1 \in 1..n /\ order[k + 1] \in Elements /\ order[k + 1] # NULL
      /\ k # 1 => k - 1 \in 1..n /\ order[k - 1] \in Elements /\ order[k - 1] # NULL
  BY <1>0, <1>1
<1>6. /\ next' = [e \in Elements |->
                   IF e = tmp THEN NULL
                   ELSE IF e = prev[tmp] THEN next[tmp] ELSE next[e]]
      /\ prev' = [e \in Elements |->
                   IF e = tmp THEN NULL
                   ELSE IF e = next[tmp] THEN prev[tmp] ELSE prev[e]]
      /\ p_head' = IF k = 1 THEN next[tmp] ELSE p_head
      /\ p_tail' = IF k = n THEN prev[tmp] ELSE p_tail
  BY <1>5 DEF Unlink, UnlinkForward, UnlinkBackward
<1>7. \A j \in 1..n :
        /\ order[j] = tmp <=> j = k
        /\ order[j] = prev[tmp] <=> (k # 1 /\ j = k - 1)
        /\ order[j] = next[tmp] <=> (k # n /\ j = k + 1)
  BY <1>0, <1>5
<1>8. /\ p_head' \in Pointer /\ p_tail' \in Pointer
      /\ next' \in [Elements -> Pointer] /\ prev' \in [Elements -> Pointer]
  BY <1>1, <1>5, <1>6 DEF Pointer
<1>9. ForwardLinked'
  <2>1. p_head' = IF n = 1 THEN NULL ELSE order'[1]
    BY <1>0, <1>1, <1>3, <1>5, <1>6
  <2>2. ASSUME NEW i \in 1..(n - 1)
        PROVE  next'[order'[i]] = IF i = n - 1 THEN NULL ELSE order'[i + 1]
    <3>1. CASE i < k - 1
      <4>1. i \in 1..n /\ i # k /\ i # k - 1 /\ i # n /\ i # n - 1 /\ i + 1 < k
        BY <1>0, <3>1
      <4>2. next'[order[i]] = order[i + 1]
        BY <1>0, <1>1, <1>6, <1>7, <4>1
      <4>3. i + 1 \in 1..(n - 1)
        BY <1>0, <4>1
      <4> QED BY <1>3, <4>1, <4>2, <4>3
    <3>2. CASE i = k - 1
      <4>1. i \in 1..n /\ i < k /\ k # 1
        BY <1>0, <3>2
      <4>2. next'[order[i]] = next[tmp]
        BY <1>0, <1>6, <1>7, <3>2, <4>1
      <4>3. (i = n - 1) <=> (k = n)
        BY <1>0, <3>2
      <4>4. k # n => /\ i + 1 \in 1..(n - 1)
                     /\ order'[i + 1] = order[k + 1]
        BY <1>0, <1>3, <3>2
      <4> QED BY <1>3, <1>5, <4>1, <4>2, <4>3, <4>4
    <3>3. CASE i >= k
      <4>1. i + 1 \in 1..n /\ ~(i < k) /\ i + 1 # k /\ i + 1 # k - 1
        BY <1>0, <3>3
      <4>2. next'[order[i + 1]] = IF i + 1 = n THEN NULL ELSE order[(i + 1) + 1]
        BY <1>0, <1>1, <1>6, <1>7, <4>1
      <4>3. (i + 1 = n) <=> (i = n - 1)
        BY <1>0
      <4>4. i # n - 1 => /\ i + 1 \in 1..(n - 1)
                         /\ order'[i + 1] = order[(i + 1) + 1]
        BY <1>0, <1>3, <3>3
      <4> QED BY <1>3, <4>1, <4>2, <4>3, <4>4
    <3> QED BY <1>0, <3>1, <3>2, <3>3
  <2> QED BY <1>3, <1>4, <2>1, <2>2 DEF ForwardLinked
<1>10. BackwardLinked'
  <2>1. p_tail' = IF n = 1 THEN NULL ELSE order'[n - 1]
    <3>1. CASE n = 1
      BY <1>0, <1>5, <1>6, <3>1
    <3>2. CASE n # 1
      <4>0. n \in Nat /\ k \in 1..n
        BY <1>0
      <4>1. n - 1 \in 1..(n - 1) /\ (n - 1) + 1 = n /\ ((n - 1 < k) <=> (k = n))
        <5> HIDE DEF n
        <5> QED BY <3>2, <4>0
      <4>2. order'[n - 1] = IF k = n THEN order[n - 1] ELSE order[n]
        BY <1>3, <4>1
      <4>3. p_tail' = IF k = n THEN order[k - 1] ELSE order[n]
        BY <1>1, <1>5, <1>6, <3>2
      <4> QED BY <3>2, <4>2, <4>3
    <3> QED BY <3>1, <3>2
  <2>2. ASSUME NEW i \in 1..(n - 1)
        PROVE  prev'[order'[i]] = IF i = 1 THEN NULL ELSE order'[i - 1]
    <3>1. CASE i < k
      <4>1. i \in 1..n /\ i # k /\ i # k + 1
        BY <1>0, <3>1
      <4>2. prev'[order[i]] = IF i = 1 THEN NULL ELSE order[i - 1]
        BY <1>0, <1>1, <1>6, <1>7, <4>1
      <4>3. i # 1 => i - 1 \in 1..(n - 1) /\ order'[i - 1] = order[i - 1]
        BY <1>0, <1>3, <3>1
      <4> QED BY <1>3, <3>1, <4>2, <4>3
    <3>2. CASE i = k
      <4>1. i + 1 \in 1..n /\ k # n /\ order'[i] = order[k + 1]
        BY <1>0, <1>3, <3>2
      <4>2. prev'[order[k + 1]] = prev[tmp]
        BY <1>0, <1>6, <1>7, <3>2, <4>1
      <4>3. k # 1 => k - 1 \in 1..(n - 1) /\ order'[k - 1] = order[k - 1]
        BY <1>0, <1>3
      <4> QED BY <1>5, <3>2, <4>1, <4>2, <4>3
    <3>3. CASE i > k
      <4>1. /\ i + 1 \in 1..n /\ i + 1 # k /\ i + 1 # k + 1 /\ i # 1
            /\ order'[i] = order[i + 1]
        BY <1>0, <1>3, <3>3
      <4>2. prev'[order[i + 1]] = order[(i + 1) - 1]
        BY <1>0, <1>1, <1>6, <1>7, <4>1
      <4>3. i - 1 \in 1..(n - 1) /\ ~(i - 1 < k)
        BY <1>0, <3>3
      <4>4. order'[i - 1] = order[(i - 1) + 1]
        BY <1>3, <4>3
      <4>5. (i + 1) - 1 = i /\ (i - 1) + 1 = i
        BY <1>0
      <4> QED BY <4>1, <4>2, <4>4, <4>5
    <3> QED BY <1>0, <3>1, <3>2, <3>3
  <2> QED BY <1>3, <1>4, <2>1, <2>2 DEF BackwardLinked
<1> QED BY <1>3, <1>8, <1>9, <1>10

LEMMA SearchFoundStep ==
    ASSUME IInv, SearchFound
    PROVE  IInv'
<1>1. /\ pc = "search" /\ tmp # NULL /\ data_ptr[tmp] \in query.match
      /\ tmp' = NULL /\ pc' = "idle" /\ query' = NoQuery
      /\ data_p' \in {data_ptr[tmp], data_p}
      /\ IF query.rm THEN Unlink ELSE UNCHANGED cells
      /\ deallocated' \in {deallocated, deallocated \cup {data_ptr[tmp]}}
      /\ ~query.rm => deallocated' = deallocated
  BY DEF SearchFound, ObjectOf
<1>2. PICK k \in 1..Len(order) : tmp = order[k]
  BY <1>1, CursorPosition
<1>3. data_ptr[tmp] \in Datas /\ NoQuery \in Query
  BY <1>2 DEF IInv, Objects, NoQuery, Query
<1>4. Progress'
  BY <1>1 DEF Progress
<1>5. CASE ~query.rm
  <2>1. UNCHANGED cells /\ UNCHANGED deallocated
    BY <1>1, <1>5
  <2>2. WellLinked' /\ Objects'
    BY <1>1, <2>1, SameCells
  <2>3. TypeOK'
    BY <1>1, <1>3, <2>1 DEF cells, IInv, TypeOK, Pointer
  <2>4. MemorySafe'
    BY <1>1, <2>1 DEF cells, IInv, MemorySafe, Content
  <2> QED BY <1>4, <2>2, <2>3, <2>4 DEF IInv
<1>6. CASE query.rm
  <2>1. Unlink
    BY <1>1, <1>6
  <2>2. /\ order' = Without(order, k)
        /\ ForwardLinked' /\ BackwardLinked'
        /\ p_head' \in Pointer /\ p_tail' \in Pointer
        /\ next' \in [Elements -> Pointer] /\ prev' \in [Elements -> Pointer]
    BY <1>1, <1>2, <2>1, UnlinkStep
  <2>3. /\ order' \in Seq(Elements)
        /\ Len(order') = Len(order) - 1
        /\ \A i \in 1..(Len(order) - 1) :
             order'[i] = IF i < k THEN order[i] ELSE order[i + 1]
    BY <2>2, WithoutProperties DEF IInv, TypeOK
  <2>4. Objects' /\ MemorySafe'
    BY <1>1, <1>2, <2>1, <2>3, ShrinkStep DEF Unlink
  <2>5. TypeOK'
    BY <1>1, <1>3, <2>1, <2>2, <2>3 DEF Unlink, free, IInv, TypeOK, Pointer
  <2> QED BY <1>1, <1>4, <2>2, <2>4, <2>5 DEF IInv, WellLinked
<1> QED BY <1>5, <1>6

LEMMA FlushHeadStep ==
    ASSUME IInv, FlushHead
    PROVE  IInv'
<1> DEFINE n == Len(order)
<1>0. /\ n \in Nat
      /\ (order = <<>>) <=> (n = 0)
      /\ \A i \in 1..n : order[i] \in Elements /\ order[i] # NULL
      /\ \A i, j \in 1..n : order[i] = order[j] => i = j
  BY ListFacts
<1>1. /\ pc = "flush" /\ pc' = "flush" /\ UNCHANGED <<p_tail, tmp, query, data_p>>
      /\ n # 0 /\ order # <<>>
      /\ p_head = order[1]
      /\ \A i \in 1..n : next[order[i]] = IF i = n THEN NULL ELSE order[i + 1]
      /\ free(p_head) /\ p_head' = next[p_head]
      /\ next' = [next EXCEPT ![p_head] = NULL]
      /\ prev' = [prev EXCEPT ![p_head] = NULL]
      /\ deallocated' \in {deallocated, deallocated \cup {data_ptr[p_head]}}
  BY <1>0 DEF FlushHead, ObjectOf, IInv, WellLinked, ForwardLinked
<1>2. /\ 1 \in 1..n
      /\ p_head \in Elements
      /\ data_ptr[p_head] \in Datas
  <2>1. 1 \in 1..n
    BY <1>0, <1>1
  <2> QED BY <1>0, <1>1, <2>1 DEF IInv, Objects
<1>3. /\ order' \in Seq(Elements)
      /\ Len(order') = n - 1
      /\ \A i \in 1..(n - 1) : order'[i] = order[i + 1]
  BY <1>1, HeadTailProperties DEF FlushHead, IInv, TypeOK
<1>4. (order' = <<>>) <=> (n = 1)
  BY <1>0, <1>3, EmptySeq
<1>5. Objects' /\ MemorySafe'
  <2>1. \A i \in 1..(n - 1) : order'[i] = IF i < 1 THEN order[i] ELSE order[i + 1]
    BY <1>3
  <2> QED BY <1>1, <1>2, <1>3, <2>1, ShrinkStep
<1>6. TypeOK'
  BY <1>1, <1>2, <1>3 DEF free, IInv, TypeOK, Pointer
<1>7. ForwardLinked'
  <2>1. p_head' = IF n = 1 THEN NULL ELSE order[2]
    <3>1. next[order[1]] = IF 1 = n THEN NULL ELSE order[1 + 1]
      BY <1>1, <1>2
    <3>2. 1 + 1 = 2
      OBVIOUS
    <3> QED BY <1>1, <3>1, <3>2
  <2>2. n # 1 => order'[1] = order[2]
    BY <1>0, <1>1, <1>3
  <2>3. ASSUME NEW i \in 1..(n - 1)
        PROVE  next'[order'[i]] = IF i = n - 1 THEN NULL ELSE order'[i + 1]
    <3>1. /\ i + 1 \in 1..n /\ i + 1 # 1 /\ order'[i] = order[i + 1]
          /\ i + 1 = n <=> i = n - 1
          /\ i # n - 1 => i + 1 \in 1..(n - 1)
      BY <1>0, <1>3
    <3>2. order[i + 1] \in Elements /\ order[i + 1] # p_head
      BY <1>0, <1>1, <1>2, <3>1
    <3>3. next'[order[i + 1]] = IF i + 1 = n THEN NULL ELSE order[(i + 1) + 1]
      BY <1>1, <3>1, <3>2 DEF IInv, TypeOK
    <3> QED BY <1>3, <3>1, <3>3
  <2> QED BY <1>0, <1>3, <1>4, <2>1, <2>2, <2>3 DEF ForwardLinked
<1>8. Progress'
  BY <1>1 DEF IInv, Progress
<1> QED BY <1>1, <1>5, <1>6, <1>7, <1>8 DEF IInv, WellLinked

LEMMA NextIInv == IInv /\ [Next]_vars => IInv'
<1> SUFFICES ASSUME IInv, [Next]_vars PROVE IInv'
  OBVIOUS
<1>1. ASSUME NEW e \in Elements, NEW d \in Datas, NEW f \in BOOLEAN, linked_list_add(e, d, f)
      PROVE  IInv'
  BY <1>1, AddStep
<1>2. CASE linked_list_remove
  BY <1>2, RemoveStep
<1>3. ASSUME NEW q \in Query, linked_list_search(q)
      PROVE  IInv'
  BY <1>3, SearchStep
<1>4. CASE SearchNext
  BY <1>4, SearchNextStep
<1>5. CASE SearchFound
  BY <1>5, SearchFoundStep
<1>6. CASE SearchMissed
  <2>1. WellLinked' /\ Objects'
    BY <1>6, SameCells DEF SearchMissed
  <2>2. TypeOK' /\ MemorySafe' /\ Progress'
    BY <1>6 DEF SearchMissed, cells, IInv, TypeOK, MemorySafe, Content, Progress,
       NoQuery, Query
  <2> QED BY <2>1, <2>2 DEF IInv
<1>7. CASE linked_list_flush
  <2>1. WellLinked' /\ Objects'
    BY <1>7, SameCells DEF linked_list_flush
  <2>2. TypeOK' /\ MemorySafe' /\ Progress'
    BY <1>7 DEF linked_list_flush, cells, IInv, TypeOK, MemorySafe, Content, Progress
  <2> QED BY <2>1, <2>2 DEF IInv
<1>8. CASE FlushHead
  BY <1>8, FlushHeadStep
<1>9. CASE FlushDone
  <2>1. /\ order = <<>>
        /\ UNCHANGED <<p_head, next, prev, data_ptr, dealloc_func, allocated, order>>
        /\ UNCHANGED <<deallocated, tmp, query, data_p>>
        /\ p_tail' = NULL /\ pc' = "idle" /\ pc = "flush"
    BY <1>9, ListFacts DEF FlushDone, IInv, WellLinked, ForwardLinked
  <2>2. Len(order) = 0
    BY <2>1, ListFacts
  <2>3. TypeOK' /\ Progress'
    BY <2>1 DEF IInv, TypeOK, Pointer, Progress
  <2>4. WellLinked' /\ Objects'
    BY <2>1, <2>2 DEF IInv, WellLinked, ForwardLinked, BackwardLinked, Objects
  <2>5. MemorySafe'
    BY <2>1 DEF IInv, MemorySafe, Content
  <2> QED BY <2>3, <2>4, <2>5 DEF IInv
<1>10. CASE UNCHANGED vars
  <2>1. UNCHANGED cells /\ UNCHANGED <<deallocated, pc, tmp, query, data_p>>
    BY <1>10 DEF vars
  <2>2. WellLinked' /\ Objects'
    BY <2>1, SameCells
  <2>3. TypeOK' /\ MemorySafe' /\ Progress'
    BY <2>1 DEF cells, IInv, TypeOK, MemorySafe, Content, Progress
  <2> QED BY <2>2, <2>3 DEF IInv
<1> QED BY <1>1, <1>2, <1>3, <1>4, <1>5, <1>6, <1>7, <1>8, <1>9, <1>10 DEF Next

(* The inductive invariant of the list. *)
LEMMA Invariance == Spec => []IInv
BY InitIInv, NextIInv, PTL DEF Spec

(* Types of the list's variables. *)
THEOREM TypeCorrect == Spec => []TypeOK
<1>1. IInv => TypeOK
  BY DEF IInv
<1> QED BY <1>1, Invariance, PTL

(* The next and prev pointers always represent the list that adds, removes *)
(* and searches describe, in both directions, for any number of elements.  *)
THEOREM WellLinkedTheorem == Spec => []WellLinked
<1>1. IInv => WellLinked
  BY DEF IInv
<1> QED BY <1>1, Invariance, PTL

(* No element leaks, is used after it was freed or is in the list twice,   *)
(* and no object stays in the list after it was deallocated.               *)
THEOREM MemorySafeTheorem == Spec => []MemorySafe
<1>1. IInv => MemorySafe
  BY DEF IInv
<1> QED BY <1>1, Invariance, PTL

LEMMA SearchResult ==
    ASSUME IInv, [Next]_vars, pc = "search", pc' = "idle"
    PROVE  LET hits == {i \in 1..Len(order) : data_ptr[order[i]] \in query.match}
           IN  \/ hits = {} /\ order' = order
               \/ \E i \in hits :
                    /\ \A j \in hits : i <= j
                    /\ query.out => data_p' = data_ptr[order[i]]
                    /\ order' = IF query.rm THEN Without(order, i) ELSE order
<1> DEFINE hits == {i \in 1..Len(order) : data_ptr[order[i]] \in query.match}
<1>0. Len(order) \in Nat
  BY ListFacts
<1>1. SearchFound \/ SearchMissed
  BY DEF Next, linked_list_add, linked_list_remove, linked_list_search, SearchNext,
     linked_list_flush, FlushHead, FlushDone, vars
<1>2. CASE SearchFound
  <2>1. tmp # NULL /\ data_ptr[tmp] \in query.match
    BY <1>2 DEF SearchFound
  <2>2. PICK k \in 1..Len(order) :
          /\ tmp = order[k]
          /\ \A i \in 1..(k - 1) : data_ptr[order[i]] \notin query.match
    BY <2>1, CursorPosition
  <2>3. k \in hits
    BY <2>1, <2>2
  <2>4. ASSUME NEW j \in hits
        PROVE  k <= j
    <3>1. j \in 1..Len(order) /\ j \notin 1..(k - 1)
      BY <2>2
    <3> QED BY <1>0, <3>1
  <2>5. query.out => data_p' = data_ptr[order[k]]
    BY <1>2, <2>2 DEF SearchFound, ObjectOf
  <2>6. CASE query.rm
    <3>1. Unlink
      BY <1>2, <2>6 DEF SearchFound
    <3>2. order' = Without(order, k)
      BY <2>2, <3>1, UnlinkStep
    <3> QED BY <2>3, <2>4, <2>5, <2>6, <3>2
  <2>7. CASE ~query.rm
    <3>1. order' = order
      BY <1>2, <2>7 DEF SearchFound, cells
    <3> QED BY <2>3, <2>4, <2>5, <2>7, <3>1
  <2> QED BY <2>6, <2>7
<1>3. CASE SearchMissed
  <2>1. tmp = NULL /\ order' = order
    BY <1>3 DEF SearchMissed, cells
  <2>2. PICK k \in 1..(Len(order) + 1) :
          /\ tmp = IF k = Len(order) + 1 THEN NULL ELSE order[k]
          /\ \A i \in 1..(k - 1) : data_ptr[order[i]] \notin query.match
    BY DEF IInv, Progress
  <2>3. k = Len(order) + 1
    <3>1. k # Len(order) + 1 => k \in 1..Len(order)
      BY <1>0
    <3> QED BY <2>1, <2>2, <3>1, ListFacts
  <2>4. \A i \in 1..Len(order) : i \in 1..(k - 1)
    BY <1>0, <2>3
  <2>5. hits = {}
    BY <2>2, <2>4
  <2> QED BY <2>1, <2>5
<1> QED BY <1>1, <1>2, <1>3

(* A search of any list returns, and removes if asked to, the most recent  *)
(* match, or has looked at every element when it returns none.             *)
THEOREM SearchTheorem == Spec => SearchFindsNewest
<1>1. IInv /\ [Next]_vars => SearchOutcome
  BY SearchResult DEF SearchOutcome
<1>2. IInv /\ UNCHANGED vars => SearchOutcome
  BY DEF vars, SearchOutcome
<1> QED BY <1>1, <1>2, Invariance, PTL DEF Spec, SearchFindsNewest

(* Both chains are one list that reaches nothing freed. *)
THEOREM ListSafeTheorem == Spec => []ListSafe
<1>1. IInv => ListSafe
  BY DEF IInv, ListSafe
<1> QED BY <1>1, Invariance, PTL

-----------------------------------------------------------------------------
(* The address tool, over any number of boots, failing calls, crashes and  *)
(* resets.                                                                 *)
Contents == Mac!Addrs \cup {"absent", "corrupt"}

MacTypes ==
  /\ misc \in {"zero", Factory}
  /\ datamisc \in Contents /\ persist \in Contents
  /\ unsynced \subseteq {"datamisc", "persist"}
  /\ place \in {"off", "checkData", "checkPersist", "create", "write", "open", "copy", "done"}
  /\ ok \in BOOLEAN /\ lost \in BOOLEAN
  /\ published \in Mac!Addrs \cup {"none"}

(* Until persist's address is lost, it is the one that was published, and  *)
(* so is the radio's; a new one is written only when there is none.        *)
Kept ==
  /\ datamisc \in Mac!Addrs => published # "none"
  /\ ~lost /\ published # "none" => persist = published
  /\ ~lost /\ datamisc \in Mac!Addrs => datamisc = published
  /\ place = "write" => published = "none" \/ lost

(* What a run that has not failed yet is sure of. *)
Sure ==
  /\ place \in {"open", "copy"} /\ ok => persist \in Mac!Addrs
  /\ place = "done" /\ ok => datamisc \in Mac!Addrs

MacInv == MacTypes /\ Kept /\ Sure

LEMMA NoMarks == /\ "absent" \notin Mac!Addrs /\ "corrupt" \notin Mac!Addrs
                 /\ "zero" \notin Mac!Addrs /\ "none" \notin Mac!Addrs
                 /\ Factory \in Mac!Addrs /\ Random \subseteq Mac!Addrs
BY AddressesAreAddresses DEF Mac!Addrs

(* What a check can find. *)
LEMMA Checked ==
    ASSUME NEW f \in Contents, NEW r \in Mac!checkAddr(f)
    PROVE  /\ r.valid \in BOOLEAN /\ r.ok \in BOOLEAN /\ r.file \in Contents
           /\ r.valid => f \in Mac!Addrs /\ r.file = f /\ r.ok
           /\ ~r.valid /\ r.ok => f \notin Mac!Addrs /\ r.file = "absent"
           /\ r.file \in {f, "absent"}
<1>1. \/ r = [valid |-> f \in Mac!Addrs, file |-> IF f \in Mac!Addrs THEN f ELSE "absent",
               ok |-> TRUE]
      \/ \E g \in {"absent", f} : r = [valid |-> FALSE, file |-> g, ok |-> FALSE]
  BY DEF Mac!checkAddr
<1>2. CASE r = [valid |-> f \in Mac!Addrs, file |-> IF f \in Mac!Addrs THEN f ELSE "absent",
                ok |-> TRUE]
  <2>1. CASE f \in Mac!Addrs
    <3>1. r.valid /\ r.file = f /\ r.ok
      BY <1>2, <2>1
    <3> QED BY <2>1, <3>1
  <2>2. CASE f \notin Mac!Addrs
    <3>1. (f \in Mac!Addrs) = FALSE
      BY <2>2
    <3>2. r = [valid |-> FALSE, file |-> "absent", ok |-> TRUE]
      BY <1>2, <2>2, <3>1, Zenon
    <3> QED BY <2>2, <3>2 DEF Contents
  <2> QED BY <2>1, <2>2
<1>3. CASE \E g \in {"absent", f} : r = [valid |-> FALSE, file |-> g, ok |-> FALSE]
  <2>1. PICK g \in {"absent", f} : r = [valid |-> FALSE, file |-> g, ok |-> FALSE]
    BY <1>3
  <2> QED BY <2>1 DEF Contents
<1> QED BY <1>1, <1>2, <1>3

LEMMA MacInit == Mac!Init => MacInv
BY NoMarks DEF Mac!Init, MacInv, MacTypes, Kept, Sure, Contents

(* A file is published when it is the first that a run leaves. *)
LEMMA Published ==
    ASSUME NEW f \in Contents, Mac!Done(f), published \in Mac!Addrs \cup {"none"}
    PROVE  /\ place' = "done" /\ published' \in Mac!Addrs \cup {"none"}
           /\ published # "none" => published' = published
           /\ f \in Mac!Addrs => published' # "none"
           /\ published = "none" => published' = IF f \in Mac!Addrs THEN f ELSE "none"
BY NoMarks DEF Mac!Done

LEMMA MacCheckData == MacInv /\ Mac!checkData => MacInv'
<1> SUFFICES ASSUME MacInv, Mac!checkData PROVE MacInv'
  OBVIOUS
<1>1. PICK r \in Mac!checkAddr(datamisc) :
        /\ datamisc' = r.file /\ ok' = r.ok
        /\ IF r.valid THEN Mac!Done(r.file) ELSE place' = "checkPersist" /\ UNCHANGED published
  BY DEF Mac!checkData
<1>2. UNCHANGED <<misc, persist, unsynced, lost, boots>>
  BY DEF Mac!checkData
<1>3. /\ r.valid \in BOOLEAN /\ r.ok \in BOOLEAN /\ r.file \in Contents
      /\ r.valid => datamisc \in Mac!Addrs /\ r.file = datamisc /\ r.ok
      /\ r.file \in {datamisc, "absent"}
  BY Checked DEF MacInv, MacTypes
<1>4. CASE r.valid
  BY <1>1, <1>2, <1>3, <1>4, Published, NoMarks DEF MacInv, MacTypes, Kept, Sure
<1>5. CASE ~r.valid
  BY <1>1, <1>2, <1>3, <1>5, NoMarks DEF MacInv, MacTypes, Kept, Sure
<1> QED
  BY <1>3, <1>4, <1>5

LEMMA MacCheckPersist == MacInv /\ Mac!checkPersist => MacInv'
<1> SUFFICES ASSUME MacInv, Mac!checkPersist PROVE MacInv'
  OBVIOUS
<1>1. PICK r \in Mac!checkAddr(persist) :
        /\ persist' = r.file /\ Mac!Lost(r.file)
        /\ ok' = (ok /\ r.ok)
        /\ place' = IF r.valid THEN "open" ELSE "create"
  BY DEF Mac!checkPersist
<1>2. UNCHANGED <<misc, datamisc, unsynced, published, boots>>
  BY DEF Mac!checkPersist
<1>3. /\ r.valid \in BOOLEAN /\ r.ok \in BOOLEAN /\ r.file \in Contents
      /\ r.valid => persist \in Mac!Addrs /\ r.file = persist
      /\ r.file \in {persist, "absent"}
  BY Checked DEF MacInv, MacTypes
<1>4. lost' = (lost \/ (published # "none" /\ persist \in Mac!Addrs /\ r.file # persist))
  BY <1>1 DEF Mac!Lost
<1>5. MacTypes'
  BY <1>1, <1>2, <1>3, <1>4 DEF MacInv, MacTypes
<1>6. Kept'
  BY <1>1, <1>2, <1>3, <1>4, NoMarks DEF MacInv, MacTypes, Kept
<1>7. Sure'
  BY <1>1, <1>2, <1>3 DEF MacInv, MacTypes, Sure
<1> QED
  BY <1>5, <1>6, <1>7 DEF MacInv

LEMMA MacWrite == MacInv /\ (Mac!create \/ Mac!writeAddr) => MacInv'
<1> SUFFICES ASSUME MacInv, Mac!create \/ Mac!writeAddr PROVE MacInv'
  OBVIOUS
<1>1. CASE Mac!create
  BY <1>1, NoMarks DEF MacInv, MacTypes, Kept, Sure, Mac!create, Contents
<1>2. CASE Mac!writeAddr
  <2>1. /\ place = "write" /\ place' = "open"
        /\ UNCHANGED <<misc, datamisc, unsynced, published, lost, boots>>
        /\ persist' \in Contents
        /\ ok' \in BOOLEAN /\ (ok' => persist' \in Mac!Addrs)
    BY <1>2, NoMarks DEF MacInv, MacTypes, Mac!writeAddr, Contents
  <2> QED
    BY <2>1, NoMarks DEF MacInv, MacTypes, Kept, Sure
<1> QED
  BY <1>1, <1>2

LEMMA MacCopy == MacInv /\ (Mac!openBoth \/ Mac!copyAddr) => MacInv'
<1> SUFFICES ASSUME MacInv, Mac!openBoth \/ Mac!copyAddr PROVE MacInv'
  OBVIOUS
<1>1. CASE Mac!openBoth
  <2>0. place = "open" /\ UNCHANGED <<misc, persist, lost, boots>>
    BY <1>1 DEF Mac!openBoth
  <2>1. CASE /\ persist # "absent" /\ datamisc = "absent"
             /\ datamisc' = "corrupt" /\ unsynced' = unsynced \cup {"datamisc"}
             /\ place' = "copy" /\ UNCHANGED <<ok, published>>
    BY <2>0, <2>1, NoMarks DEF MacInv, MacTypes, Kept, Sure, Contents
  <2>2. CASE ok' = FALSE /\ Mac!Done(datamisc) /\ UNCHANGED <<datamisc, unsynced>>
    BY <2>0, <2>2, Published, NoMarks DEF MacInv, MacTypes, Kept, Sure
  <2> QED
    BY <1>1, <2>1, <2>2 DEF Mac!openBoth
<1>2. CASE Mac!copyAddr
  <2>1. /\ place = "copy" /\ Mac!Done(datamisc')
        /\ UNCHANGED <<misc, persist, unsynced, lost, boots>>
        /\ \/ datamisc' = persist /\ UNCHANGED ok
           \/ datamisc' \in {"absent", "corrupt"} /\ ok' = FALSE
    BY <1>2 DEF Mac!copyAddr
  <2>2. datamisc' \in Contents /\ persist \in Contents
        /\ published \in Mac!Addrs \cup {"none"}
    BY <2>1 DEF MacInv, MacTypes, Contents
  <2>3. PICK f : f = datamisc'
    OBVIOUS
  <2>4. /\ place' = "done" /\ published' \in Mac!Addrs \cup {"none"}
        /\ published # "none" => published' = published
        /\ f \in Mac!Addrs => published' # "none"
        /\ published = "none" => published' = IF f \in Mac!Addrs THEN f ELSE "none"
    <3>1. Mac!Done(f)
      BY <2>1, <2>3
    <3> QED
      BY <2>2, <2>3, <3>1, Published
  <2>5. f \in Mac!Addrs => f = persist
    BY <2>1, <2>3, NoMarks
  <2>6. MacTypes'
    BY <2>1, <2>2, <2>4 DEF MacInv, MacTypes
  <2>7. Kept'
    BY <2>1, <2>2, <2>3, <2>4, <2>5, NoMarks DEF MacInv, MacTypes, Kept
  <2>8. Sure'
    BY <2>1, <2>4, NoMarks DEF MacInv, Sure
  <2> QED
    BY <2>6, <2>7, <2>8 DEF MacInv
<1> QED
  BY <1>1, <1>2

LEMMA MacCrash == MacInv /\ (Mac!crash \/ Mac!shutdown \/ Mac!reset \/ Mac!boot) => MacInv'
<1> SUFFICES ASSUME MacInv, Mac!crash \/ Mac!shutdown \/ Mac!reset \/ Mac!boot PROVE MacInv'
  OBVIOUS
<1>1. CASE Mac!crash
  <2>1. /\ place' = "off" /\ unsynced' = {} /\ UNCHANGED <<misc, ok, published, boots>>
        /\ datamisc' \in {datamisc, "corrupt", "absent"}
        /\ persist' \in {persist, "corrupt", "absent"}
        /\ lost' = (lost \/ (published # "none" /\ persist \in Mac!Addrs /\ persist' # persist))
    BY <1>1 DEF Mac!crash, Mac!Remains, Mac!Lost
  <2> QED
    BY <2>1, NoMarks DEF MacInv, MacTypes, Kept, Sure, Contents
<1>2. CASE Mac!shutdown
  BY <1>2 DEF MacInv, MacTypes, Kept, Sure, Mac!shutdown
<1>3. CASE Mac!reset
  BY <1>3, NoMarks DEF MacInv, MacTypes, Kept, Sure, Mac!reset, Contents
<1>4. CASE Mac!boot
  BY <1>4 DEF MacInv, MacTypes, Kept, Sure, Mac!boot
<1> QED
  BY <1>1, <1>2, <1>3, <1>4

(* The inductive invariant of the address tool. *)
THEOREM AddressInvariance == Mac!Spec => []MacInv
<1>1. MacInv /\ [Mac!Next]_(Mac!vars) => MacInv'
  <2> SUFFICES ASSUME MacInv, [Mac!Next]_(Mac!vars) PROVE MacInv'
    OBVIOUS
  <2>1. CASE UNCHANGED Mac!vars
    BY <2>1 DEF Mac!vars, MacInv, MacTypes, Kept, Sure
  <2> QED
    BY <2>1, MacCheckData, MacCheckPersist, MacWrite, MacCopy, MacCrash DEF Mac!Next
<1> QED
  BY <1>1, MacInit, PTL DEF Mac!Spec

(* AddressSafe: whatever fails and however often the phone crashes or is   *)
(* reset, a run in which nothing failed leaves a valid address, and it is  *)
(* the one that the first run left, unless persist lost it (getmac.c).     *)
THEOREM AddressSafeTheorem == Mac!Spec => []AddressSafe
<1>1. MacInv => AddressSafe
  BY NoMarks DEF MacInv, MacTypes, Kept, Sure, Contents, AddressSafe, Mac!AddressSafe, Mac!TypeOK,
                 Mac!Repaired, Mac!AddressKept
<1> QED
  BY <1>1, AddressInvariance, PTL
-----------------------------------------------------------------------------
(* The camera wrapper.                                                     *)

Isos == Camera!iso_values[0]

(* The parameters of the vendor and of the application.                    *)
Params ==
  [zsl : {"on", "off"}, mode : {"0", "1"}, iso : {"auto", "ISO50", "ISO2700"},
   lgIso : {"auto", "50", "2700"}, hint : {"on", "off"}, is4k : BOOLEAN,
   lge : {"0", "1"}, format : {"yuv420sp", "nv12-venus"}, scene : {"auto", "hdr"},
   hdr : {"0", "1"}, snaps : {1, 3}]

Vendors == [params : Params, preview : {"off", "0", "1"}, moving : BOOLEAN]
States == [v : Vendors, running : BOOLEAN]

Mode(p) == IF p.zsl = "on" THEN "1" ELSE "0"

CameraTypes ==
  /\ gVendorModule \in BOOLEAN /\ device \in {0, 1, 2}
  /\ vendor \in Vendors
  /\ zslState \in BOOLEAN /\ previewRunning \in BOOLEAN /\ activeFocusMove \in BOOLEAN
  /\ focusing \in BOOLEAN /\ drifted \in BOOLEAN

(* The vendor's parameters are ones the wrapper wrote.                     *)
VendorKept ==
  vendor.params.iso = "auto" /\ vendor.params.mode = Mode(vendor.params)

(* While the flags have been right, they are, and the preview has its mode. *)
InMode ==
  device # 2 /\ ~drifted =>
    /\ zslState = (vendor.params.zsl = "on")
    /\ vendor.preview # "off" => previewRunning
    /\ vendor.preview \in {"off", vendor.params.mode}

(* The ISO mode is kept under the vendor's key.                            *)
IsoAsked ==
  device # 2 /\ asked # "none" =>
    /\ device \in {0, 1} /\ Camera!FromLge[vendor.params.lgIso] = asked

CameraInv == CameraTypes /\ VendorKept /\ InMode /\ IsoAsked

(* The two tables are inverses of each other.                              *)
LEMMA IsoTables ==
  /\ Isos = {"auto", "ISO50", "ISO2700"}
  /\ \A id \in {0, 1} : Camera!iso_values[id] \subseteq Isos
  /\ DOMAIN Camera!FromLge = {"auto", "50", "2700"}
  /\ \A m \in Isos : /\ Camera!ToLge[m] \in {"auto", "50", "2700"}
                     /\ Camera!FromLge[Camera!ToLge[m]] = m
  /\ \A l \in {"auto", "50", "2700"} : /\ Camera!FromLge[l] \in Isos
                                       /\ Camera!ToLge[Camera!FromLge[l]] = l
<1>1. /\ Isos = {"auto", "ISO50", "ISO2700"}
      /\ \A id \in {0, 1} : Camera!iso_values[id] \subseteq Isos
  BY DEF Isos, Camera!iso_values, Camera!Cameras
<1>2. Camera!iso_values[0] = {"auto", "ISO50", "ISO2700"}
  BY <1>1 DEF Isos
<1>3. /\ Camera!ToLge["auto"] = "auto" /\ Camera!ToLge["ISO50"] = "50"
      /\ Camera!ToLge["ISO2700"] = "2700"
  BY <1>2 DEF Camera!ToLge
<1>4. /\ DOMAIN Camera!FromLge = {"auto", "50", "2700"}
      /\ Camera!FromLge["auto"] = "auto" /\ Camera!FromLge["50"] = "ISO50"
      /\ Camera!FromLge["2700"] = "ISO2700"
  BY DEF Camera!FromLge
<1> QED BY <1>1, <1>3, <1>4

(* What the application reads, and what the vendor is given.               *)
LEMMA ReadsBack ==
    ASSUME NEW id \in {0, 1}, NEW p \in Params
    PROVE  /\ Camera!camera_fixup_getparams(id, p) \in Params
           /\ Camera!camera_fixup_getparams(id, p).iso = Camera!FromLge[p.lgIso]
           /\ Camera!camera_fixup_getparams(id, p).zsl = p.zsl
<1> DEFINE iso == Camera!FromLge[p.lgIso]
           format == IF id = 0 /\ p.is4k THEN "yuv420sp" ELSE p.format
           snaps == IF p.hint = "off" /\ p.zsl = "off" THEN 1 ELSE p.snaps
<1>1. /\ p.lgIso \in {"auto", "50", "2700"}
      /\ p.format \in {"yuv420sp", "nv12-venus"} /\ p.snaps \in {1, 3}
  BY DEF Params
<1>2. /\ iso \in {"auto", "ISO50", "ISO2700"}
      /\ format \in {"yuv420sp", "nv12-venus"} /\ snaps \in {1, 3}
  BY <1>1, IsoTables
<1>3. Camera!camera_fixup_getparams(id, p)
        = [p EXCEPT !.iso = iso, !.format = format, !.snaps = snaps]
  BY DEF Camera!camera_fixup_getparams
<1> HIDE DEF iso, format, snaps
<1>4. [p EXCEPT !.iso = iso, !.format = format, !.snaps = snaps] \in Params
  <2>1. PICK q1 : q1 = [p EXCEPT !.iso = iso]
    OBVIOUS
  <2>2. q1 \in Params
    BY <1>2, <2>1 DEF Params
  <2>3. PICK q2 : q2 = [q1 EXCEPT !.format = format]
    OBVIOUS
  <2>4. q2 \in Params
    BY <2>2, <1>2, <2>3 DEF Params
  <2>5. PICK q3 : q3 = [q2 EXCEPT !.snaps = snaps]
    OBVIOUS
  <2>6. q3 \in Params
    BY <2>4, <1>2, <2>5 DEF Params
  <2> QED BY <2>1, <2>3, <2>5, <2>6
<1>5. /\ [p EXCEPT !.iso = iso, !.format = format, !.snaps = snaps].iso = iso
      /\ [p EXCEPT !.iso = iso, !.format = format, !.snaps = snaps].zsl = p.zsl
  BY DEF Params
<1> QED BY <1>3, <1>4, <1>5 DEF iso

LEMMA Writes ==
    ASSUME NEW id \in {0, 1}, NEW p \in Params
    PROVE  /\ Camera!camera_fixup_setparams(id, p) \in Params
           /\ Camera!camera_fixup_setparams(id, p).iso = "auto"
           /\ Camera!camera_fixup_setparams(id, p).lgIso = Camera!ToLge[p.iso]
           /\ Camera!camera_fixup_setparams(id, p).zsl = p.zsl
           /\ Camera!camera_fixup_setparams(id, p).mode = Mode(p)
<1> DEFINE lge == IF id = 0 /\ p.is4k THEN "1" ELSE "0"
           hdr == IF p.hint = "off" /\ p.scene = "hdr" THEN "1" ELSE "0"
           lgIso == Camera!ToLge[p.iso]
           mode == IF p.zsl = "on" THEN "1" ELSE "0"
           new == [p EXCEPT !.lge = lge, !.hdr = hdr, !.iso = "auto", !.lgIso = lgIso,
                            !.mode = mode]
<1>1. p.iso \in {"auto", "ISO50", "ISO2700"}
  BY DEF Params
<1>2. /\ lge \in {"0", "1"} /\ hdr \in {"0", "1"} /\ mode \in {"0", "1"}
      /\ lgIso \in {"auto", "50", "2700"}
  BY <1>1, IsoTables
<1>3. Camera!camera_fixup_setparams(id, p) = new
  BY DEF Camera!camera_fixup_setparams
<1>4. mode = Mode(p)
  BY DEF Mode
<1> HIDE DEF lge, hdr, lgIso, mode
<1>5. new \in Params
  <2>1. PICK q1 : q1 = [p EXCEPT !.lge = lge]
    OBVIOUS
  <2>2. q1 \in Params
    BY <1>2, <2>1 DEF Params
  <2>3. PICK q2 : q2 = [q1 EXCEPT !.hdr = hdr]
    OBVIOUS
  <2>4. q2 \in Params
    BY <2>2, <1>2, <2>3 DEF Params
  <2>5. PICK q3 : q3 = [q2 EXCEPT !.iso = "auto"]
    OBVIOUS
  <2>6. q3 \in Params
    BY <2>4, <1>2, <2>5 DEF Params
  <2>7. PICK q4 : q4 = [q3 EXCEPT !.lgIso = lgIso]
    OBVIOUS
  <2>8. q4 \in Params
    BY <2>6, <1>2, <2>7 DEF Params
  <2>9. PICK q5 : q5 = [q4 EXCEPT !.mode = mode]
    OBVIOUS
  <2>10. q5 \in Params
    BY <2>8, <1>2, <2>9 DEF Params
  <2> QED BY <2>1, <2>3, <2>5, <2>7, <2>9, <2>10
<1>7. /\ new.iso = "auto" /\ new.lgIso = lgIso /\ new.mode = mode
      /\ new.zsl = p.zsl
  BY DEF Params
<1> HIDE DEF new
<1>6. lgIso = Camera!ToLge[p.iso]
  BY DEF lgIso
<1> QED BY <1>3, <1>4, <1>5, <1>6, <1>7

(* What the calls of the preview leave.                                    *)
LEMMA Starts ==
    ASSUME NEW s \in States, NEW t \in Camera!start_preview(s)
    PROVE  /\ t \in States /\ t.v.params = s.v.params
           /\ t.v.preview \in {s.v.preview, s.v.params.mode}
           /\ s.v.preview # "off" => t.v.preview = s.v.preview
           /\ s.v.preview = "off" /\ t.v.preview # "off" => t.running
<1>1. s.v \in Vendors /\ s.v.params \in Params /\ s.v.params.mode \in {"0", "1"}
  BY DEF States, Vendors, Params
<1>2. CASE t = [v |-> Camera!Started(s.v), running |-> TRUE]
  <2>1. Camera!Started(s.v) \in Vendors
    BY <1>1 DEF Camera!Started, Vendors
  <2> QED BY <1>1, <1>2, <2>1 DEF Camera!Started, Vendors, States
<1>3. CASE t = [v |-> s.v, running |-> FALSE]
  BY <1>1, <1>3 DEF States
<1> QED BY <1>2, <1>3 DEF Camera!start_preview

LEMMA Stops ==
    ASSUME NEW s \in States
    PROVE  /\ Camera!stop_preview(s) \in States
           /\ Camera!stop_preview(s).v.params = s.v.params
           /\ Camera!stop_preview(s).v.preview = "off"
BY DEF Camera!stop_preview, Camera!Stopped, States, Vendors

(* What setting parameters leaves: the new ones or the old ones, and a     *)
(* preview that was restarted when zsl was flipped.                        *)
LEMMA Sets ==
    ASSUME NEW s \in States, NEW id \in {0, 1}, NEW p \in Params,
           NEW t \in Camera!set_parameters(s, id, p)
    PROVE  /\ t \in States
           /\ t.v.params \in {s.v.params, Camera!camera_fixup_setparams(id, p)}
           /\ IF Camera!Flips(p)
              THEN /\ t.v.preview \in {"off", t.v.params.mode}
                   /\ t.v.preview # "off" => t.running
              ELSE t.v.preview = s.v.preview /\ t.running = s.running
<1> DEFINE new == Camera!camera_fixup_setparams(id, p)
<1>1. new \in Params
  BY Writes
<1> HIDE DEF new
<1>2. ASSUME NEW u \in States, NEW w \in {[u EXCEPT !.v.params = new], u}
      PROVE  /\ w \in States /\ w.v.params \in {u.v.params, new}
             /\ w.v.preview = u.v.preview
             /\ w.running = u.running
  BY <1>1, <1>2 DEF States, Vendors
<1>3. CASE Camera!Flips(p)
  <2>1. PICK w \in {[Camera!stop_preview(s) EXCEPT !.v.params = new], Camera!stop_preview(s)} :
          t \in Camera!start_preview(w)
    BY <1>3 DEF Camera!set_parameters, new
  <2>2. PICK u \in States : u = Camera!stop_preview(s)
    BY Stops
  <2>3. w \in {[u EXCEPT !.v.params = new], u}
    BY <2>1, <2>2
  <2>4. /\ w \in States /\ w.v.params \in {u.v.params, new}
        /\ w.v.preview = u.v.preview
    BY <1>2, <2>3
  <2>5. /\ t \in States /\ t.v.params = w.v.params
        /\ t.v.preview \in {w.v.preview, w.v.params.mode}
        /\ w.v.preview = "off" /\ t.v.preview # "off" => t.running
    BY <2>1, <2>4, Starts
  <2>6. u.v.params = s.v.params /\ u.v.preview = "off"
    BY <2>2, Stops
  <2> QED BY <1>3, <2>4, <2>5, <2>6 DEF new
<1>4. CASE ~Camera!Flips(p)
  <2>1. t \in {[s EXCEPT !.v.params = new], s}
    BY <1>4 DEF Camera!set_parameters, new
  <2>2. /\ t \in States /\ t.v.params \in {s.v.params, new}
        /\ t.v.preview = s.v.preview
        /\ t.running = s.running
    BY <1>2, <2>1
  <2> QED BY <1>4, <2>2 DEF new
<1> QED BY <1>3, <1>4

LEMMA CameraInit == Camera!Init => CameraInv
<1> SUFFICES ASSUME Camera!Init PROVE CameraInv
  OBVIOUS
<1>1. Camera!Default \in Params /\ Camera!Default.iso = "auto" /\ Camera!Default.mode = "0"
      /\ Camera!Default.zsl = "off"
  BY DEF Camera!Default, Params
<1>2. vendor \in Vendors /\ vendor.params = Camera!Default /\ vendor.preview = "off"
  BY <1>1 DEF Camera!Init, Vendors
<1>3. device = 2 /\ zslState = FALSE /\ gVendorModule = FALSE /\ previewRunning = FALSE
      /\ activeFocusMove = FALSE /\ focusing = FALSE /\ drifted = FALSE
  BY DEF Camera!Init, Camera!None
<1> QED
  BY <1>1, <1>2, <1>3 DEF CameraInv, CameraTypes, VendorKept, InMode, IsoAsked, Mode

LEMMA CameraOpens ==
    CameraInv /\ (\E id \in Camera!Cameras : Camera!camera_device_open(id)) => CameraInv'
<1> SUFFICES ASSUME CameraInv, NEW id \in {0, 1}, Camera!camera_device_open(id)
             PROVE  CameraInv'
  BY DEF Camera!Cameras
<1>1. Camera!Default \in Params /\ Camera!Default.iso = "auto" /\ Camera!Default.mode = "0"
      /\ Camera!Default.zsl = "off"
  BY DEF Camera!Default, Params
<1>2. vendor' \in Vendors /\ vendor'.params = Camera!Default /\ vendor'.preview = "off"
  BY <1>1 DEF Camera!camera_device_open, Vendors
<1>3. /\ device' = id /\ drifted' = zslState /\ asked' = "none"
      /\ gVendorModule' = gVendorModule /\ zslState' = zslState
      /\ previewRunning' = previewRunning /\ activeFocusMove' = activeFocusMove
      /\ focusing' = focusing
  BY DEF Camera!camera_device_open
<1>4. CameraTypes'
  BY <1>2, <1>3 DEF CameraInv, CameraTypes
<1>5. VendorKept'
  BY <1>1, <1>2 DEF VendorKept, Mode
<1>6. InMode' /\ IsoAsked'
  BY <1>1, <1>2, <1>3 DEF InMode, IsoAsked, CameraInv, CameraTypes
<1> QED BY <1>4, <1>5, <1>6 DEF CameraInv

(* The calls that do not touch the parameters or the preview.              *)
LEMMA CameraQuiet ==
    ASSUME CameraInv,
           UNCHANGED <<zslState, previewRunning, asked, drifted>>,
           device' \in {device, 2}, gVendorModule' \in BOOLEAN,
           activeFocusMove' \in BOOLEAN, focusing' \in BOOLEAN,
           vendor' \in Vendors, vendor'.params = vendor.params,
           vendor'.preview = vendor.preview
    PROVE  CameraInv'
<1>1. CameraTypes'
  BY DEF CameraInv, CameraTypes
<1>2. VendorKept' /\ InMode' /\ IsoAsked'
  BY DEF CameraInv, CameraTypes, VendorKept, InMode, IsoAsked, Mode
<1> QED BY <1>1, <1>2 DEF CameraInv

LEMMA CameraQuietSteps ==
    CameraInv /\ (\/ Camera!check_vendor_module \/ Camera!camera_device_close
                  \/ Camera!notify_intercept \/ Camera!camera_auto_focus
                  \/ Camera!autoFocusReturns \/ Camera!camera_cancel_auto_focus
                  \/ UNCHANGED cameraVars) => CameraInv'
<1> SUFFICES ASSUME CameraInv,
                    \/ Camera!check_vendor_module \/ Camera!camera_device_close
                    \/ Camera!notify_intercept \/ Camera!camera_auto_focus
                    \/ Camera!autoFocusReturns \/ Camera!camera_cancel_auto_focus
                    \/ UNCHANGED cameraVars
             PROVE  CameraInv'
  OBVIOUS
<1>1. /\ vendor \in Vendors /\ gVendorModule \in BOOLEAN
      /\ activeFocusMove \in BOOLEAN /\ focusing \in BOOLEAN
  BY DEF CameraInv, CameraTypes
<1>2. ASSUME NEW m \in BOOLEAN
      PROVE  /\ [vendor EXCEPT !.moving = m] \in Vendors
             /\ [vendor EXCEPT !.moving = m].params = vendor.params
             /\ [vendor EXCEPT !.moving = m].preview = vendor.preview
  BY <1>1, <1>2 DEF Vendors
<1>3. CASE Camera!check_vendor_module
  BY <1>1, <1>3, CameraQuiet DEF Camera!check_vendor_module
<1>4. CASE Camera!camera_device_close
  BY <1>1, <1>4, CameraQuiet DEF Camera!camera_device_close, Camera!None
<1>5. CASE Camera!notify_intercept
  <2>1. activeFocusMove' \in BOOLEAN /\ vendor' = [vendor EXCEPT !.moving = activeFocusMove']
    BY <1>5 DEF Camera!notify_intercept
  <2>2. /\ vendor' \in Vendors /\ vendor'.params = vendor.params
        /\ vendor'.preview = vendor.preview
    BY <1>2, <2>1
  <2> QED BY <1>1, <1>5, <2>1, <2>2, CameraQuiet DEF Camera!notify_intercept
<1>6. CASE Camera!camera_auto_focus
  <2>1. vendor' \in {[vendor EXCEPT !.moving = FALSE], vendor}
    BY <1>6 DEF Camera!camera_auto_focus
  <2>2. /\ vendor' \in Vendors /\ vendor'.params = vendor.params
        /\ vendor'.preview = vendor.preview
    BY <1>1, <1>2, <2>1
  <2> QED BY <1>1, <1>6, <2>2, CameraQuiet DEF Camera!camera_auto_focus
<1>7. CASE Camera!autoFocusReturns
  BY <1>1, <1>7, CameraQuiet DEF Camera!autoFocusReturns
<1>8. CASE Camera!camera_cancel_auto_focus
  <2>1. /\ vendor' \in Vendors /\ vendor'.params = vendor.params
        /\ vendor'.preview = vendor.preview
    BY <1>2, <1>8 DEF Camera!camera_cancel_auto_focus
  <2> QED BY <1>1, <1>8, <2>1, CameraQuiet DEF Camera!camera_cancel_auto_focus
<1>9. CASE UNCHANGED cameraVars
  BY <1>1, <1>9, CameraQuiet DEF cameraVars
<1> QED BY <1>3, <1>4, <1>5, <1>6, <1>7, <1>8, <1>9

LEMMA StateIsOne ==
    CameraInv => /\ Camera!State \in States
                 /\ Camera!State.v = vendor /\ Camera!State.running = previewRunning
BY DEF CameraInv, CameraTypes, Camera!State, States

(* Starting and stopping the preview: the parameters stay, and a preview   *)
(* that was not there has their mode.                                      *)
LEMMA CameraPreview ==
    ASSUME CameraInv, Camera!Called, NEW t \in States,
           t.v.params = vendor.params,
           t.v.preview \in {"off", vendor.preview, vendor.params.mode},
           vendor' = t.v, previewRunning' = t.running, Camera!Drift,
           UNCHANGED <<gVendorModule, device, zslState, activeFocusMove, focusing, asked>>
    PROVE  CameraInv'
<1>1. /\ drifted' \in BOOLEAN
      /\ ~drifted' => ~drifted /\ (vendor'.preview # "off" => previewRunning')
  BY DEF Camera!Drift, CameraInv, CameraTypes
<1>2. CameraTypes'
  BY <1>1 DEF CameraInv, CameraTypes, States
<1>3. VendorKept' /\ InMode' /\ IsoAsked'
  BY <1>1 DEF CameraInv, VendorKept, InMode, IsoAsked, Mode
<1> QED BY <1>2, <1>3 DEF CameraInv

LEMMA CameraStarts == CameraInv /\ Camera!camera_start_preview => CameraInv'
<1> SUFFICES ASSUME CameraInv, Camera!camera_start_preview PROVE CameraInv'
  OBVIOUS
<1>1. PICK s : s = Camera!State
  OBVIOUS
<1>2. s \in States /\ s.v = vendor /\ s.running = previewRunning
  BY <1>1, StateIsOne
<1>3. PICK t \in Camera!start_preview(s) : vendor' = t.v /\ previewRunning' = t.running
  BY <1>1 DEF Camera!camera_start_preview, Camera!Become
<1>4. /\ t \in States /\ t.v.params = vendor.params
      /\ t.v.preview \in {vendor.preview, vendor.params.mode}
  BY <1>2, <1>3, Starts
<1> QED BY <1>3, <1>4, CameraPreview DEF Camera!camera_start_preview

LEMMA CameraStops == CameraInv /\ Camera!camera_stop_preview => CameraInv'
<1> SUFFICES ASSUME CameraInv, Camera!camera_stop_preview PROVE CameraInv'
  OBVIOUS
<1>1. PICK s : s = Camera!State
  OBVIOUS
<1>2. s \in States /\ s.v = vendor /\ s.running = previewRunning
  BY <1>1, StateIsOne
<1>3. PICK t : t = Camera!stop_preview(s)
  OBVIOUS
<1>4. vendor' = t.v /\ previewRunning' = t.running
  BY <1>1, <1>3 DEF Camera!camera_stop_preview, Camera!Become
<1>5. t \in States /\ t.v.params = vendor.params /\ t.v.preview = "off"
  BY <1>2, <1>3, Stops
<1>6. /\ CameraTypes' /\ drifted' = drifted /\ device' = device /\ asked' = asked
      /\ zslState' = zslState
  BY <1>4, <1>5 DEF Camera!camera_stop_preview, CameraInv, CameraTypes, States
<1>7. VendorKept' /\ InMode' /\ IsoAsked'
  BY <1>4, <1>5, <1>6 DEF CameraInv, VendorKept, InMode, IsoAsked, Mode
<1> QED BY <1>6, <1>7 DEF CameraInv

LEMMA CameraStopsRecording == CameraInv /\ Camera!camera_stop_recording => CameraInv'
<1> SUFFICES ASSUME CameraInv, Camera!camera_stop_recording PROVE CameraInv'
  OBVIOUS
<1>1. PICK s : s = [v |-> Camera!Stopped(vendor), running |-> previewRunning]
  OBVIOUS
<1>2. s \in States /\ s.v.params = vendor.params /\ s.v.preview = "off"
  BY <1>1 DEF Camera!Stopped, States, Vendors, CameraInv, CameraTypes
<1>3. PICK u \in Camera!start_preview(s) : vendor' = u.v
  BY <1>1 DEF Camera!camera_stop_recording
<1>4. /\ u \in States /\ u.v.params = vendor.params
      /\ u.v.preview \in {"off", vendor.params.mode}
  BY <1>2, <1>3, Starts
<1>5. PICK t : t = [v |-> u.v, running |-> previewRunning]
  OBVIOUS
<1>6. t \in States /\ t.v = u.v /\ t.running = previewRunning
  BY <1>4, <1>5 DEF States, CameraInv, CameraTypes
<1>7. Camera!Called /\ Camera!Drift
  BY DEF Camera!camera_stop_recording
<1>8. UNCHANGED <<gVendorModule, device, zslState, previewRunning, activeFocusMove, focusing,
                  asked>>
  BY DEF Camera!camera_stop_recording
<1> QED BY <1>3, <1>4, <1>6, <1>7, <1>8, CameraPreview

(* Setting parameters p that the application or a recording made of those  *)
(* it read: they take the vendor's place or the vendor keeps its own, and  *)
(* the preview follows.                                                    *)
LEMMA CameraSets ==
    ASSUME CameraInv, device \in {0, 1}, NEW p \in Params,
           NEW t \in Camera!set_parameters(Camera!State, device, p),
           vendor' = t.v, previewRunning' = t.running,
           Camera!Zsl(p), Camera!Drift,
           UNCHANGED <<gVendorModule, device, activeFocusMove, focusing>>,
           asked' # "none" =>
             Camera!FromLge[t.v.params.lgIso] = asked'
    PROVE  CameraInv'
<1>1. PICK s : s = Camera!State
  OBVIOUS
<1>2. s \in States /\ s.v = vendor /\ s.running = previewRunning
  BY <1>1, StateIsOne
<1>3. PICK new : new = Camera!camera_fixup_setparams(device, p)
  OBVIOUS
<1>4. /\ new \in Params /\ new.iso = "auto" /\ new.lgIso = Camera!ToLge[p.iso]
      /\ new.zsl = p.zsl /\ new.mode = Mode(p)
  BY <1>3, Writes
<1>5. /\ t \in States
      /\ t.v.params \in {vendor.params, new}
      /\ IF Camera!Flips(p)
         THEN /\ t.v.preview \in {"off", t.v.params.mode}
              /\ t.v.preview # "off" => t.running
         ELSE t.v.preview = vendor.preview /\ t.running = previewRunning
  BY <1>1, <1>2, <1>3, Sets
<1>6. /\ vendor' \in Vendors /\ vendor'.params = t.v.params
      /\ vendor'.preview = t.v.preview
  BY <1>5 DEF States, Vendors
<1>7. /\ zslState' = (p.zsl = "on")
      /\ drifted' \in BOOLEAN
      /\ ~drifted' => /\ ~drifted /\ zslState' = (vendor'.params.zsl = "on")
                      /\ vendor'.preview # "off" => previewRunning'
  BY DEF Camera!Zsl, Camera!Drift, CameraInv, CameraTypes
<1>8. t.running \in BOOLEAN
  BY <1>5 DEF States
<1>9. CameraTypes'
  BY <1>6, <1>7, <1>8 DEF CameraInv, CameraTypes
<1>10. t.v.params.iso = "auto" /\ t.v.params.mode = Mode(t.v.params)
  BY <1>4, <1>5 DEF CameraInv, VendorKept, Mode
<1>12. VendorKept'
  <2>1. Mode(vendor'.params) = Mode(t.v.params)
    BY <1>6
  <2> QED BY <1>6, <1>10 DEF VendorKept, Mode
<1>13. InMode'
  <2> SUFFICES ASSUME ~drifted'
               PROVE  /\ zslState' = (vendor'.params.zsl = "on")
                      /\ vendor'.preview # "off" => previewRunning'
                      /\ vendor'.preview \in {"off", vendor'.params.mode}
    BY DEF InMode
  <2>1. /\ ~drifted /\ zslState' = (t.v.params.zsl = "on")
        /\ vendor'.preview # "off" => previewRunning'
    BY <1>6, <1>7
  <2>2. zslState = (vendor.params.zsl = "on") /\ vendor.preview \in {"off", vendor.params.mode}
    BY <2>1 DEF CameraInv, InMode
  <2>3. CASE Camera!Flips(p)
    BY <1>5, <1>6, <2>1, <2>3
  <2>4. CASE ~Camera!Flips(p) /\ vendor.preview = "off"
    BY <1>5, <1>6, <2>1, <2>4
  <2>5. CASE ~Camera!Flips(p) /\ vendor.preview # "off"
    <3>1. previewRunning
      BY <2>1, <2>5 DEF CameraInv, InMode
    <3>2. zslState = (p.zsl = "on")
      BY <2>5, <3>1 DEF Camera!Flips
    <3>3. (vendor.params.zsl = "on") = (t.v.params.zsl = "on")
      BY <1>7, <2>1, <2>2, <3>2
    <3>4. t.v.params.mode = vendor.params.mode
      BY <1>10, <3>3 DEF CameraInv, VendorKept, Mode
    <3> QED BY <1>5, <1>6, <2>1, <2>2, <2>5, <3>4
  <2> QED BY <2>3, <2>4, <2>5
<1>14. IsoAsked'
  BY <1>6 DEF IsoAsked
<1> QED BY <1>9, <1>12, <1>13, <1>14 DEF CameraInv

LEMMA CalledIsOpen == CameraInv /\ Camera!Called => device \in {0, 1}
BY DEF CameraInv, CameraTypes, Camera!Called, Camera!None

LEMMA CameraSetsParameters == CameraInv /\ Camera!camera_set_parameters => CameraInv'
<1> SUFFICES ASSUME CameraInv, Camera!camera_set_parameters PROVE CameraInv'
  OBVIOUS
<1>1. device \in {0, 1}
  BY CalledIsOpen DEF Camera!camera_set_parameters
<1>2. PICK zsl \in Camera!OnOff, iso \in Camera!iso_values[device], hint \in Camera!OnOff,
           big \in BOOLEAN, scene \in {"auto", "hdr"} :
        LET p == [Camera!camera_get_parameters EXCEPT !.zsl = zsl, !.iso = iso,
                                    !.hint = hint, !.is4k = big, !.scene = scene]
        IN  /\ \E s \in Camera!set_parameters(Camera!State, device, p) :
                 /\ Camera!Become(s)
                 /\ asked' = IF s.v.params = Camera!camera_fixup_setparams(device, p)
                             THEN iso ELSE asked
            /\ Camera!Zsl(p) /\ Camera!Drift
  BY DEF Camera!camera_set_parameters
<1>3. PICK g : g = Camera!camera_get_parameters
  OBVIOUS
<1>4. g \in Params
  BY <1>1, <1>3, ReadsBack DEF Camera!camera_get_parameters, CameraInv, CameraTypes, Vendors
<1>5. PICK p : p = [g EXCEPT !.zsl = zsl, !.iso = iso, !.hint = hint, !.is4k = big,
                             !.scene = scene]
  OBVIOUS
<1>6. iso \in Isos /\ iso \in {"auto", "ISO50", "ISO2700"}
  BY <1>1, IsoTables
<1>7. p \in Params
  <2>1. PICK q1 : q1 = [g EXCEPT !.zsl = zsl]
    OBVIOUS
  <2>2. q1 \in Params
    BY <1>4, <2>1 DEF Params, Camera!OnOff
  <2>3. PICK q2 : q2 = [q1 EXCEPT !.iso = iso]
    OBVIOUS
  <2>4. q2 \in Params
    BY <1>6, <2>2, <2>3 DEF Params
  <2>5. PICK q3 : q3 = [q2 EXCEPT !.hint = hint]
    OBVIOUS
  <2>6. q3 \in Params
    BY <2>4, <2>5 DEF Params, Camera!OnOff
  <2>7. PICK q4 : q4 = [q3 EXCEPT !.is4k = big]
    OBVIOUS
  <2>8. q4 \in Params
    BY <2>6, <2>7 DEF Params
  <2>9. PICK q5 : q5 = [q4 EXCEPT !.scene = scene]
    OBVIOUS
  <2>10. q5 \in Params
    BY <2>8, <2>9 DEF Params
  <2> QED BY <1>5, <2>1, <2>3, <2>5, <2>7, <2>9, <2>10
<1>8. p.iso = iso
  BY <1>4, <1>5 DEF Params
<1>9. PICK t \in Camera!set_parameters(Camera!State, device, p) :
        /\ Camera!Become(t)
        /\ asked' = IF t.v.params = Camera!camera_fixup_setparams(device, p)
                    THEN iso ELSE asked
  BY <1>2, <1>3, <1>5
<1>10. Camera!Zsl(p) /\ Camera!Drift
  BY <1>2, <1>3, <1>5
<1>11. /\ t \in States
       /\ t.v.params \in {vendor.params, Camera!camera_fixup_setparams(device, p)}
  BY <1>1, <1>7, Sets, StateIsOne
<1>12. asked' # "none" => Camera!FromLge[t.v.params.lgIso] = asked'
  <2>1. CASE t.v.params = Camera!camera_fixup_setparams(device, p)
    <3>1. t.v.params.lgIso = Camera!ToLge[iso]
      BY <1>1, <1>7, <1>8, <2>1, Writes
    <3> QED BY <1>6, <1>9, <2>1, <3>1, IsoTables
  <2>2. CASE t.v.params # Camera!camera_fixup_setparams(device, p)
    <3>1. t.v.params = vendor.params /\ asked' = asked
      BY <1>9, <1>11, <2>2
    <3> QED BY <1>1, <3>1 DEF CameraInv, IsoAsked
  <2> QED BY <2>1, <2>2
<1>13. vendor' = t.v /\ previewRunning' = t.running
  BY <1>9 DEF Camera!Become
<1>14. UNCHANGED <<gVendorModule, device, activeFocusMove, focusing>>
  BY DEF Camera!camera_set_parameters
<1> QED BY <1>1, <1>7, <1>9, <1>10, <1>12, <1>13, <1>14, CameraSets

LEMMA CameraRecords == CameraInv /\ Camera!camera_start_recording => CameraInv'
<1> SUFFICES ASSUME CameraInv, Camera!camera_start_recording PROVE CameraInv'
  OBVIOUS
<1>1. device \in {0, 1}
  BY CalledIsOpen DEF Camera!camera_start_recording
<1>2. PICK p : p = Camera!Recorded
  OBVIOUS
<1>3. PICK l : l = vendor.params.lgIso
  OBVIOUS
<1>4. l \in {"auto", "50", "2700"} /\ vendor.params \in Params
  BY <1>3 DEF CameraInv, CameraTypes, Vendors, Params
<1>5. p \in Params /\ p.iso = Camera!FromLge[l]
  <2>1. PICK g : g = Camera!camera_get_parameters
    OBVIOUS
  <2>2. g \in Params /\ g.iso = Camera!FromLge[l]
    BY <1>1, <1>3, <1>4, <2>1, ReadsBack DEF Camera!camera_get_parameters
  <2>3. p \in {g, [g EXCEPT !.format = "nv12-venus"]}
    BY <1>2, <2>1 DEF Camera!Recorded
  <2>4. /\ [g EXCEPT !.format = "nv12-venus"] \in Params
        /\ [g EXCEPT !.format = "nv12-venus"].iso = g.iso
    BY <2>2 DEF Params
  <2> QED BY <2>2, <2>3, <2>4
<1>6. PICK t \in Camera!set_parameters(Camera!State, device, p) : Camera!Become(t)
  BY <1>2 DEF Camera!camera_start_recording
<1>7. Camera!Zsl(p) /\ Camera!Drift
  BY <1>2 DEF Camera!camera_start_recording
<1>8. /\ t \in States
      /\ t.v.params \in {vendor.params, Camera!camera_fixup_setparams(device, p)}
  BY <1>1, <1>5, Sets, StateIsOne
<1>11. vendor' = t.v /\ previewRunning' = t.running
  BY <1>6 DEF Camera!Become
<1>12. Camera!FromLge[t.v.params.lgIso] = Camera!FromLge[l]
  <2>1. CASE t.v.params = Camera!camera_fixup_setparams(device, p)
    <3>1. t.v.params.lgIso = Camera!ToLge[Camera!FromLge[l]]
      BY <1>1, <1>5, <2>1, Writes
    <3> QED BY <1>4, <3>1, IsoTables
  <2>2. CASE t.v.params = vendor.params
    BY <1>3, <2>2
  <2> QED BY <1>8, <2>1, <2>2
<1>13. asked' # "none" => Camera!FromLge[t.v.params.lgIso] = asked'
  BY <1>1, <1>3, <1>12 DEF CameraInv, IsoAsked, Camera!camera_start_recording
<1>14. UNCHANGED <<gVendorModule, device, activeFocusMove, focusing>>
  BY DEF Camera!camera_start_recording
<1> QED BY <1>1, <1>5, <1>6, <1>7, <1>11, <1>13, <1>14, CameraSets

(* The wrapper's flags and the vendor's camera stay as CameraInv says,     *)
(* whatever the vendor refuses (CameraWrapper.cpp).                        *)
THEOREM CameraInvariance == Camera!Spec => []CameraInv
<1>1. CameraInv /\ [Camera!Next]_cameraVars => CameraInv'
  BY CameraOpens, CameraQuietSteps, CameraStarts, CameraStops, CameraStopsRecording,
     CameraSetsParameters, CameraRecords DEF Camera!Next
<1> QED
  BY <1>1, CameraInit, PTL DEF Camera!Spec, Camera!vars, cameraVars

(* The preview runs in the mode of the vendor's parameters unless a flag   *)
(* was wrong since the open, and the application reads back the ISO mode   *)
(* it set, whatever keys the vendor keeps it under and however often a     *)
(* recording sets the parameters again (CameraWrapper.cpp).                *)
THEOREM VendorAgreesTheorem == Camera!Spec => []VendorAgrees
<1>1. ASSUME CameraInv PROVE VendorAgrees
  <2>1. Camera!TypeOK
    BY <1>1, IsoTables
       DEF CameraInv, CameraTypes, VendorKept, Vendors, Params, Camera!TypeOK,
           Camera!Cameras, Camera!None
  <2>2. Camera!PreviewInMode
    BY <1>1 DEF CameraInv, InMode, Camera!PreviewInMode, Camera!None
  <2>3. Camera!IsoKept
    <3> SUFFICES ASSUME device # 2, asked # "none"
                 PROVE  Camera!camera_get_parameters.iso = asked
      BY DEF Camera!IsoKept, Camera!None
    <3>1. device \in {0, 1} /\ Camera!FromLge[vendor.params.lgIso] = asked
      BY <1>1 DEF CameraInv, IsoAsked
    <3>2. vendor.params \in Params
      BY <1>1 DEF CameraInv, CameraTypes, Vendors
    <3> QED BY <3>1, <3>2, ReadsBack DEF Camera!camera_get_parameters
  <2> QED BY <2>1, <2>2, <2>3 DEF VendorAgrees, Camera!VendorAgrees
<1> QED BY <1>1, CameraInvariance, PTL
-----------------------------------------------------------------------------
(* The configuration.                                                      *)

TextLines == [name : STRING, text : {"1", "0x7", "NULL"}]

LEMMA LeastOf ==
    ASSUME NEW T \in SUBSET Nat, T # {}
    PROVE  \E m \in T : \A j \in T : m <= j
<1>1. \E m \in T : \A j \in T : ~(<<j, m>> \in OpToRel(<, Nat))
  BY NatLessThanWellFounded, WFMin
<1>2. \A j, m \in Nat : ~(<<j, m>> \in OpToRel(<, Nat)) => m <= j
  BY DEF OpToRel
<1> QED BY <1>1, <1>2

(* What the loop of FillConf computes: a reader after each line.           *)
FillStep(r, line, table) ==
  IF r.num_params = 0 THEN r ELSE Cfg!loc_fill_conf_item(r, line, table)

Start(c, records) == [c |-> c, set |-> {}, num_params |-> records]

Filled(c, lines, table, records, len, f) ==
  f = [k \in 0..len |-> IF k = 0 THEN Start(c, records)
                        ELSE FillStep(f[k - 1], lines[k], table)]

LEMMA FilledExists ==
    ASSUME NEW c, NEW lines, NEW table, NEW records, NEW len \in Nat
    PROVE  \E f : Filled(c, lines, table, records, len, f)
<1> DEFINE T == {n \in Nat : ~\E f : Filled(c, lines, table, records, n, f)}
<1>1. ASSUME T # {} PROVE FALSE
  <2>1. PICK n \in T : \A j \in T : n <= j
    BY <1>1, LeastOf
  <2>2. n \in Nat /\ ~\E f : Filled(c, lines, table, records, n, f)
    BY <2>1
  <2>3. n # 0
    <3>1. Filled(c, lines, table, records, 0, [k \in 0..0 |-> Start(c, records)])
      BY DEF Filled
    <3> QED BY <2>2, <3>1
  <2>4. n - 1 \in Nat /\ n - 1 \notin T
    BY <2>1, <2>2, <2>3
  <2>5. PICK f : Filled(c, lines, table, records, n - 1, f)
    BY <2>4
  <2> DEFINE g == [k \in 0..n |-> IF k = n THEN FillStep(f[n - 1], lines[n], table)
                                  ELSE f[k]]
  <2>6. \A k \in 0..(n - 1) : g[k] = f[k]
    BY <2>2, <2>3
  <2>7. ASSUME NEW k \in 0..n
        PROVE  g[k] = IF k = 0 THEN Start(c, records)
                      ELSE FillStep(g[k - 1], lines[k], table)
    <3>1. CASE k = n
      BY <2>2, <2>3, <2>6, <3>1
    <3>2. CASE k # n
      <4>1. k \in 0..(n - 1) /\ (k # 0 => k - 1 \in 0..(n - 1))
        BY <2>2, <3>2
      <4>2. f[k] = IF k = 0 THEN Start(c, records)
                   ELSE FillStep(f[k - 1], lines[k], table)
        BY <2>5, <4>1 DEF Filled
      <4> QED BY <2>6, <4>1, <4>2
    <3> QED BY <3>1, <3>2
  <2>8. Filled(c, lines, table, records, n, g)
    <3> HIDE DEF g
    <3>1. g = [k \in 0..n |-> g[k]]
      BY DEF g
    <3> QED BY <2>7, <3>1 DEF Filled
  <2> QED BY <2>2, <2>8
<1> QED BY <1>1

LEMMA FillConfIs ==
    ASSUME NEW c, NEW lines, Len(lines) \in Nat, NEW table, NEW records
    PROVE  \E f : /\ Filled(c, lines, table, records, Len(lines), f)
                  /\ Cfg!FillConf(c, lines, table, records) = f[Len(lines)]
<1> DEFINE Is(f) == f = [k \in 0..Len(lines) |->
                 IF k = 0 THEN [c |-> c, set |-> {}, num_params |-> records]
                 ELSE IF f[k - 1].num_params = 0 THEN f[k - 1]
                 ELSE Cfg!loc_fill_conf_item(f[k - 1], lines[k], table)]
<1>1. \A f : Is(f) <=> Filled(c, lines, table, records, Len(lines), f)
  BY DEF Filled, FillStep, Start
<1>2. PICK f : f = CHOOSE g : Is(g)
  BY SMTT(30)
<1>3. Is(f)
  BY <1>1, <1>2, FilledExists, ZenonT(60)
<1>4. Cfg!FillConf(c, lines, table, records) = f[Len(lines)]
  BY <1>2 DEF Cfg!FillConf
<1> QED BY <1>1, <1>3, <1>4

(* What the texts name.                                                    *)
NamedUpTo(lines, table, k) == {n \in DOMAIN table : \E i \in 1..k : lines[i].name = n}

(* A text that gives no name of a table twice.                             *)
Once(lines, table) ==
  \A i, j \in 1..Len(lines) :
    lines[i].name \in DOMAIN table /\ lines[i].name = lines[j].name => i = j

LEMMA SameCardinality == \A S : Cfg!Cardinality(S) = Cardinality(S)
BY DEF Cfg!Cardinality, Cardinality

LEMMA OnceIs ==
    ASSUME NEW lines \in Seq(TextLines), NEW table, ~Cfg!Repeats(lines, table)
    PROVE  Once(lines, table)
<1> SUFFICES ASSUME NEW i \in 1..Len(lines), NEW j \in 1..Len(lines),
                    lines[i].name \in DOMAIN table, lines[i].name = lines[j].name, i # j
             PROVE  FALSE
  BY DEF Once
<1>1. PICK n \in DOMAIN table : n = lines[i].name
  OBVIOUS
<1>2. PICK S : S = Cfg!LinesFor(lines, n)
  OBVIOUS
<1>3. S \subseteq 1..Len(lines) /\ {i, j} \subseteq S
  BY <1>1, <1>2 DEF Cfg!LinesFor
<1>4. IsFiniteSet(S)
  <2>1. IsFiniteSet(1..Len(lines))
    BY FS_Interval
  <2> QED BY <1>3, <2>1, FS_Subset
<1>5. Cardinality({i, j}) = 2
  <2>1. IsFiniteSet({i}) /\ Cardinality({i}) = 1
    BY FS_Singleton
  <2>2. Cardinality({i} \cup {j}) = Cardinality({i}) + 1
    <3>1. j \notin {i}
      OBVIOUS
    <3> QED BY <2>1, <3>1, FS_AddElement
  <2>3. {i} \cup {j} = {i, j}
    OBVIOUS
  <2>4. PICK c1, c2 : c1 = Cardinality({i}) /\ c2 = Cardinality({i} \cup {j})
    OBVIOUS
  <2>5. c1 = 1 /\ c2 = c1 + 1
    BY <2>1, <2>2, <2>4, Zenon
  <2>6. c2 = 2
    BY <2>5
  <2> QED BY <2>3, <2>4, <2>6, Zenon
<1>6. Cardinality({i, j}) <= Cardinality(S) /\ Cardinality(S) \in Nat
  <2>1. {i, j} \in SUBSET S
    BY <1>3
  <2>2. Cardinality(S) \in Nat
    BY <1>4, FS_CardinalityType
  <2>3. Cardinality({i, j}) <= Cardinality(S)
    BY <1>4, <2>1, FS_Subset
  <2> QED BY <2>2, <2>3
<1>7. ~(Cardinality(S) > 1)
  BY <1>1, <1>2, SameCardinality DEF Cfg!Repeats
<1> QED BY <1>5, <1>6, <1>7

(* What the reader r holds after k lines of a text.                        *)
ReadUpTo(c, lines, table, records, k, r) ==
  /\ r.set = NamedUpTo(lines, table, k)
  /\ r.num_params \in Nat /\ r.num_params = records - Cardinality(r.set)
  /\ r.c = [n \in DOMAIN c |-> r.c[n]]
  /\ \A n \in DOMAIN c : n \notin r.set => r.c[n] = c[n]
  /\ \A n \in DOMAIN c, i \in 1..k :
       n \in DOMAIN table /\ lines[i].name = n => r.c[n] = Cfg!Stored(table[n], lines[i].text)

(* One more line: unless all records are filled, it is taken when it names *)
(* one of the table, and then it is the first to do so.  When all are      *)
(* filled, there is none left that the text names.                         *)
LEMMA ReadsOneMore ==
    ASSUME NEW c, NEW lines \in Seq(TextLines), NEW table, IsFiniteSet(DOMAIN table),
           Once(lines, table), NEW records \in Nat,
           Cardinality(NamedUpTo(lines, table, Len(lines))) <= records,
           NEW k \in 1..Len(lines), NEW r,
           ReadUpTo(c, lines, table, records, k - 1, r)
    PROVE  ReadUpTo(c, lines, table, records, k, FillStep(r, lines[k], table))
<1>0. Len(lines) \in Nat /\ k \in Nat /\ k - 1 \in Nat /\ 1..k = (1..(k - 1)) \cup {k}
  OBVIOUS
<1> DEFINE name == lines[k].name
           all == NamedUpTo(lines, table, Len(lines))
<1>1. /\ IsFiniteSet(r.set) /\ Cardinality(r.set) \in Nat
      /\ IsFiniteSet(all) /\ Cardinality(all) \in Nat /\ r.set \subseteq all
  <2>1. r.set \subseteq DOMAIN table /\ all \subseteq DOMAIN table
    BY DEF ReadUpTo, NamedUpTo
  <2>2. r.set \subseteq all
    BY <1>0 DEF ReadUpTo, NamedUpTo
  <2> QED BY <2>1, <2>2, FS_Subset, FS_CardinalityType
<1>2. name \notin r.set
  BY <1>0 DEF ReadUpTo, NamedUpTo, Once
<1>3. CASE name \notin DOMAIN table
  <2>1. FillStep(r, lines[k], table) = r
    BY <1>3 DEF FillStep, Cfg!loc_fill_conf_item
  <2>2. NamedUpTo(lines, table, k) = NamedUpTo(lines, table, k - 1)
    BY <1>0, <1>3 DEF NamedUpTo
  <2>3. ASSUME NEW n \in DOMAIN c, NEW i \in 1..k, n \in DOMAIN table, lines[i].name = n
        PROVE  r.c[n] = Cfg!Stored(table[n], lines[i].text)
    <3>1. i \in 1..(k - 1)
      BY <1>0, <1>3, <2>3
    <3> QED BY <2>3, <3>1 DEF ReadUpTo
  <2> QED BY <2>1, <2>2, <2>3 DEF ReadUpTo
<1>4. CASE name \in DOMAIN table
  <2>1. name \in all /\ r.set # all
    BY <1>0, <1>2, <1>4 DEF NamedUpTo
  <2>2. Cardinality(r.set) < Cardinality(all)
    BY <1>1, <2>1, FS_Subset
  <2>3. r.num_params # 0
    BY <1>1, <2>2 DEF ReadUpTo
  <2>4. PICK v : v = Cfg!Stored(table[name], lines[k].text)
    OBVIOUS
  <2>5. PICK t : t = FillStep(r, lines[k], table)
    OBVIOUS
  <2>6. t = [c |-> [r.c EXCEPT ![name] = v], set |-> r.set \cup {name},
             num_params |-> r.num_params - 1]
    BY <1>4, <2>3, <2>4, <2>5 DEF FillStep, Cfg!loc_fill_conf_item
  <2>7. /\ t.c = [r.c EXCEPT ![name] = v] /\ t.set = r.set \cup {name}
        /\ t.num_params = r.num_params - 1
    BY <2>6
  <2>8. t.set = NamedUpTo(lines, table, k)
    BY <1>0, <1>4, <2>7 DEF ReadUpTo, NamedUpTo
  <2>9. Cardinality(t.set) = Cardinality(r.set) + 1
    BY <1>1, <1>2, <2>7, FS_AddElement
  <2>10. t.num_params \in Nat /\ t.num_params = records - Cardinality(t.set)
    BY <1>1, <2>3, <2>7, <2>9 DEF ReadUpTo
  <2>11. /\ DOMAIN r.c = DOMAIN c
         /\ \A n \in DOMAIN c : t.c[n] = IF n = name THEN v ELSE r.c[n]
         /\ t.c = [n \in DOMAIN c |-> t.c[n]]
    <3>1. PICK rc : rc = r.c
      OBVIOUS
    <3>2. PICK tc : tc = t.c
      OBVIOUS
    <3>3. rc = [n \in DOMAIN c |-> rc[n]]
      BY <3>1 DEF ReadUpTo
    <3>4. tc = [rc EXCEPT ![name] = v]
      BY <2>7, <3>1, <3>2
    <3>5. tc = [n \in DOMAIN c |-> IF n = name THEN v ELSE rc[n]]
      BY <3>3, <3>4
    <3> QED BY <3>1, <3>2, <3>3, <3>5
  <2>12. \A n \in DOMAIN c : n \notin t.set => t.c[n] = c[n]
    BY <2>7, <2>11 DEF ReadUpTo
  <2>13. ASSUME NEW n \in DOMAIN c, NEW i \in 1..k, n \in DOMAIN table, lines[i].name = n
         PROVE  t.c[n] = Cfg!Stored(table[n], lines[i].text)
    <3>1. CASE n = name
      <4>1. i = k
        BY <1>0, <2>13, <3>1 DEF Once
      <4> QED BY <2>4, <2>11, <3>1, <4>1
    <3>2. CASE n # name
      <4>1. i \in 1..(k - 1)
        BY <1>0, <2>13, <3>2
      <4> QED BY <2>11, <2>13, <3>2, <4>1 DEF ReadUpTo
    <3> QED BY <3>1, <3>2
  <2> QED BY <2>5, <2>8, <2>10, <2>11, <2>12, <2>13 DEF ReadUpTo
<1> QED BY <1>3, <1>4

(* So it is after all lines.                                               *)
LEMMA ReadsAll ==
    ASSUME NEW c, c = [n \in DOMAIN c |-> c[n]], NEW lines \in Seq(TextLines),
           NEW table, IsFiniteSet(DOMAIN table),
           Once(lines, table), NEW records \in Nat,
           Cardinality(NamedUpTo(lines, table, Len(lines))) <= records
    PROVE  ReadUpTo(c, lines, table, records, Len(lines),
                    Cfg!FillConf(c, lines, table, records))
<1>0. Len(lines) \in Nat
  OBVIOUS
<1>1. PICK f : /\ Filled(c, lines, table, records, Len(lines), f)
               /\ Cfg!FillConf(c, lines, table, records) = f[Len(lines)]
  BY <1>0, FillConfIs
<1> DEFINE T == {k \in 0..Len(lines) : ~ReadUpTo(c, lines, table, records, k, f[k])}
<1>2. f[0] = Start(c, records) /\ \A k \in 1..Len(lines) : f[k] = FillStep(f[k - 1], lines[k], table)
  BY <1>0, <1>1 DEF Filled
<1>3. ReadUpTo(c, lines, table, records, 0, f[0])
  <2>1. NamedUpTo(lines, table, 0) = {}
    BY DEF NamedUpTo
  <2>2. f[0].c = c /\ f[0].set = {} /\ f[0].num_params = records
    BY <1>2 DEF Start
  <2>3. f[0].num_params = records - Cardinality(f[0].set)
    BY <2>2, FS_EmptySet
  <2> QED BY <2>1, <2>2, <2>3 DEF ReadUpTo
<1>4. ASSUME T # {} PROVE FALSE
  <2>1. PICK k \in T : \A j \in T : k <= j
    <3>1. T \in SUBSET Nat
      BY <1>0
    <3> HIDE DEF T
    <3> QED BY <1>4, <3>1, LeastOf
  <2>2. k \in 1..Len(lines) /\ k - 1 \in 0..Len(lines) /\ k - 1 \notin T
    BY <1>0, <1>3, <2>1
  <2>3. ReadUpTo(c, lines, table, records, k, FillStep(f[k - 1], lines[k], table))
    BY <2>2, ReadsOneMore
  <2> QED BY <1>2, <2>1, <2>2, <2>3
<1> QED BY <1>0, <1>1, <1>4

(* The tables, and what a value can be: a text that is read for a number   *)
(* gives a natural number, whatever the texts are.                         *)
Tables == {Cfg!gps_conf_table, Cfg!sap_conf_table, Cfg!loc_param_table}
Names == {"SUPL_VER", "CAPABILITIES", "INTERMEDIATE_POS", "XTRA_SERVER_1",
          "GYRO_BIAS_RANDOM_WALK", "SENSOR_USAGE", "DEBUG_LEVEL"}
Values(c) == c = [n \in Names |-> c[n]] /\ c["CAPABILITIES"] \in Nat
Reader(r) == r = [c |-> r.c, set |-> r.set, num_params |-> r.num_params]

LEMMA TablesAre ==
    ASSUME NEW table \in Tables
    PROVE  /\ DOMAIN table \subseteq Names /\ IsFiniteSet(DOMAIN table)
           /\ "CAPABILITIES" \in DOMAIN table => table["CAPABILITIES"] = "n"
<1>1. /\ DOMAIN table \subseteq Names
      /\ "CAPABILITIES" \in DOMAIN table => table["CAPABILITIES"] = "n"
  <2>1. CASE table = Cfg!gps_conf_table
    BY <2>1 DEF Cfg!gps_conf_table, Names
  <2>2. CASE table = Cfg!sap_conf_table
    BY <2>2 DEF Cfg!sap_conf_table, Names
  <2>3. CASE table = Cfg!loc_param_table
    BY <2>3 DEF Cfg!loc_param_table, Names
  <2> QED BY <2>1, <2>2, <2>3 DEF Tables
<1>2. IsFiniteSet(Names)
  <2> DEFINE A == {"SUPL_VER"} \cup {"CAPABILITIES"}
             B == A \cup {"INTERMEDIATE_POS"}
             C == B \cup {"XTRA_SERVER_1"}
             D == C \cup {"GYRO_BIAS_RANDOM_WALK"}
             E == D \cup {"SENSOR_USAGE"}
             F == E \cup {"DEBUG_LEVEL"}
  <2>1. Names = F
    BY DEF Names
  <2>2. IsFiniteSet(A)
    BY FS_Singleton, FS_AddElement
  <2> HIDE DEF A
  <2>3. IsFiniteSet(B)
    BY <2>2, FS_AddElement
  <2> HIDE DEF B
  <2>4. IsFiniteSet(C)
    BY <2>3, FS_AddElement
  <2> HIDE DEF C
  <2>5. IsFiniteSet(D)
    BY <2>4, FS_AddElement
  <2> HIDE DEF D
  <2>6. IsFiniteSet(E)
    BY <2>5, FS_AddElement
  <2> HIDE DEF E
  <2>7. IsFiniteSet(F)
    BY <2>6, FS_AddElement
  <2> QED BY <2>1, <2>7
<1> QED BY <1>1, <1>2, FS_Subset

LEMMA StepTyped ==
    ASSUME NEW r, Reader(r), Values(r.c), NEW line \in TextLines, NEW table \in Tables
    PROVE  /\ Reader(FillStep(r, line, table)) /\ Values(FillStep(r, line, table).c)
<1> DEFINE name == line.name
           v == Cfg!Stored(table[name], line.text)
<1>1. CASE r.num_params = 0 \/ name \notin DOMAIN table
  BY <1>1 DEF FillStep, Cfg!loc_fill_conf_item
<1>2. CASE r.num_params # 0 /\ name \in DOMAIN table
  <2>1. PICK t : t = FillStep(r, line, table)
    OBVIOUS
  <2>2. t = [c |-> [r.c EXCEPT ![name] = v], set |-> r.set \cup {name},
             num_params |-> r.num_params - 1]
    BY <1>2, <2>1 DEF FillStep, Cfg!loc_fill_conf_item
  <2>3. name = "CAPABILITIES" => v \in Nat
    <3> SUFFICES ASSUME name = "CAPABILITIES" PROVE v \in Nat
      OBVIOUS
    <3>1. table[name] = "n"
      BY <1>2, TablesAre
    <3>2. line.text \in {"1", "0x7", "NULL"}
      BY DEF TextLines
    <3>3. Cfg!Number(line.text) \in Nat
      BY <3>2 DEF Cfg!Number
    <3> QED BY <3>1, <3>3 DEF Cfg!Stored
  <2>4. PICK rc : rc = r.c
    OBVIOUS
  <2>5. PICK tc : tc = [rc EXCEPT ![name] = v]
    OBVIOUS
  <2> HIDE DEF v
  <2>6. rc = [n \in Names |-> rc[n]] /\ rc["CAPABILITIES"] \in Nat
    BY <2>4 DEF Values
  <2>7. tc = [n \in Names |-> IF n = name THEN v ELSE rc[n]]
    BY <2>5, <2>6
  <2>8. "CAPABILITIES" \in Names
    BY DEF Names
  <2>9. Values(tc)
    BY <2>3, <2>6, <2>7, <2>8 DEF Values
  <2>10. Reader(t) /\ t.c = tc
    BY <2>2, <2>4, <2>5 DEF Reader
  <2> QED BY <2>1, <2>9, <2>10
<1> QED BY <1>1, <1>2

LEMMA FillTyped ==
    ASSUME NEW c, Values(c), NEW lines \in Seq(TextLines), NEW table \in Tables, NEW records
    PROVE  /\ Reader(Cfg!FillConf(c, lines, table, records))
           /\ Values(Cfg!FillConf(c, lines, table, records).c)
<1>0. Len(lines) \in Nat
  OBVIOUS
<1>1. PICK f : /\ Filled(c, lines, table, records, Len(lines), f)
               /\ Cfg!FillConf(c, lines, table, records) = f[Len(lines)]
  BY <1>0, FillConfIs
<1>2. f[0] = Start(c, records) /\ \A k \in 1..Len(lines) : f[k] = FillStep(f[k - 1], lines[k], table)
  BY <1>0, <1>1 DEF Filled
<1> DEFINE T == {k \in 0..Len(lines) : ~(Reader(f[k]) /\ Values(f[k].c))}
<1>3. Reader(f[0]) /\ Values(f[0].c)
  <2>1. PICK s : s = f[0]
    OBVIOUS
  <2>2. s = [c |-> c, set |-> {}, num_params |-> records]
    BY <1>2, <2>1 DEF Start
  <2>3. Reader(s) /\ s.c = c
    BY <2>2 DEF Reader
  <2> QED BY <2>1, <2>3
<1>4. ASSUME T # {} PROVE FALSE
  <2>1. PICK k \in T : \A j \in T : k <= j
    <3>1. T \in SUBSET Nat
      BY <1>0
    <3> HIDE DEF T
    <3> QED BY <1>4, <3>1, LeastOf
  <2>2. k \in 1..Len(lines) /\ k - 1 \in 0..Len(lines) /\ k - 1 \notin T
    BY <1>0, <1>3, <2>1
  <2>3. lines[k] \in TextLines
    BY <2>2
  <2>4. Reader(FillStep(f[k - 1], lines[k], table)) /\ Values(FillStep(f[k - 1], lines[k], table).c)
    BY <2>2, <2>3, StepTyped
  <2> QED BY <1>2, <2>1, <2>2, <2>4
<1> QED BY <1>0, <1>1, <1>4

(* A text that the reader need not cut gives each name its last value.     *)
LEMMA ReadsLast ==
    ASSUME NEW c, Values(c), NEW lines \in Seq(TextLines), NEW table \in Tables,
           ~Cfg!Repeats(lines, table), NEW records \in Nat,
           Cardinality(NamedUpTo(lines, table, Len(lines))) <= records
    PROVE  /\ Cfg!FillConf(c, lines, table, records).c = Cfg!LastValue(c, lines, table)
           /\ Cfg!FillConf(c, lines, table, records).set
                = {n \in DOMAIN table : Cfg!LinesFor(lines, n) # {}}
<1>0. DOMAIN c = Names /\ c = [n \in DOMAIN c |-> c[n]] /\ Len(lines) \in Nat
  BY DEF Values
<1>1. Once(lines, table)
  BY OnceIs
<1>2. PICK r : r = Cfg!FillConf(c, lines, table, records)
  OBVIOUS
<1>3. ReadUpTo(c, lines, table, records, Len(lines), r)
  BY <1>0, <1>1, <1>2, ReadsAll, TablesAre
<1>4. \A n : Cfg!LinesFor(lines, n) = {i \in 1..Len(lines) : lines[i].name = n}
  <2>1. DOMAIN lines = 1..Len(lines)
    OBVIOUS
  <2> QED BY <2>1 DEF Cfg!LinesFor
<1>5. r.set = {n \in DOMAIN table : Cfg!LinesFor(lines, n) # {}}
  <2>1. r.set = {n \in DOMAIN table : \E i \in 1..Len(lines) : lines[i].name = n}
    BY <1>3 DEF ReadUpTo, NamedUpTo
  <2>2. \A n : Cfg!LinesFor(lines, n) # {} <=> \E i \in 1..Len(lines) : lines[i].name = n
    BY <1>4
  <2> QED BY <2>1, <2>2
<1>6. PICK rc : rc = r.c
  OBVIOUS
<1>7. rc = [n \in Names |-> rc[n]]
  BY <1>0, <1>3, <1>6 DEF ReadUpTo
<1>8. ASSUME NEW n \in Names
      PROVE  rc[n] = IF n \in DOMAIN table /\ Cfg!LinesFor(lines, n) # {}
                     THEN Cfg!Stored(table[n], lines[CHOOSE i \in Cfg!LinesFor(lines, n) :
                                     \A j \in Cfg!LinesFor(lines, n) : j <= i].text)
                     ELSE c[n]
  <2>1. CASE n \in DOMAIN table /\ Cfg!LinesFor(lines, n) # {}
    <3>1. PICK i \in 1..Len(lines) : lines[i].name = n
      BY <1>4, <2>1
    <3>2. Cfg!LinesFor(lines, n) = {i}
      BY <1>1, <1>4, <2>1, <3>1 DEF Once
    <3>3. (CHOOSE k \in Cfg!LinesFor(lines, n) : \A j \in Cfg!LinesFor(lines, n) : j <= k) = i
      BY <3>2
    <3>4. rc[n] = Cfg!Stored(table[n], lines[i].text)
      BY <1>0, <1>3, <1>6, <2>1, <3>1 DEF ReadUpTo
    <3> QED BY <2>1, <3>3, <3>4
  <2>2. CASE ~(n \in DOMAIN table /\ Cfg!LinesFor(lines, n) # {})
    <3>1. n \notin r.set
      BY <1>5, <2>2
    <3>2. rc[n] = c[n]
      BY <1>0, <1>3, <1>6, <3>1 DEF ReadUpTo
    <3> QED BY <2>2, <3>2
  <2> QED BY <2>1, <2>2
<1>9. rc = Cfg!LastValue(c, lines, table)
  BY <1>0, <1>7, <1>8 DEF Cfg!LastValue
<1> QED BY <1>2, <1>5, <1>6, <1>9

(* A file is read with a record for each name of the table ...             *)
LEMMA ReadsFile ==
    ASSUME NEW c, Values(c), NEW lines \in Seq(TextLines), NEW table \in Tables
    PROVE  /\ Reader(Cfg!loc_read_conf_r(c, lines, table))
           /\ Values(Cfg!loc_read_conf_r(c, lines, table).c)
           /\ ~Cfg!Repeats(lines, table) =>
                /\ Cfg!loc_read_conf_r(c, lines, table).c = Cfg!LastValue(c, lines, table)
                /\ Cfg!loc_read_conf_r(c, lines, table).set
                     = {n \in DOMAIN table : Cfg!LinesFor(lines, n) # {}}
<1>1. PICK records : records = Cfg!Records(table)
  OBVIOUS
<1>2. Cfg!loc_read_conf_r(c, lines, table) = Cfg!FillConf(c, lines, table, records)
  BY <1>1 DEF Cfg!loc_read_conf_r
<1>3. /\ Cardinality(NamedUpTo(lines, table, Len(lines))) <= records
      /\ records \in Nat
  <2>1. records = Cardinality(DOMAIN table) /\ IsFiniteSet(DOMAIN table)
    BY <1>1, SameCardinality, TablesAre DEF Cfg!Records
  <2>2. NamedUpTo(lines, table, Len(lines)) \in SUBSET DOMAIN table
    BY DEF NamedUpTo
  <2> QED BY <2>1, <2>2, FS_Subset, FS_CardinalityType
<1> QED BY <1>2, <1>3, FillTyped, ReadsLast

(* ... an update with one less, which is enough unless it names them all.  *)
LEMMA ReadsUpdate ==
    ASSUME NEW c, Values(c), NEW lines \in Seq(TextLines)
    PROVE  /\ Values(Cfg!loc_update_conf(c, lines, Cfg!gps_conf_table).c)
           /\ ~Cfg!Repeats(lines, Cfg!gps_conf_table) /\ ~Cfg!NamesAll(lines, Cfg!gps_conf_table) =>
                Cfg!loc_update_conf(c, lines, Cfg!gps_conf_table).c
                  = Cfg!LastValue(c, lines, Cfg!gps_conf_table)
<1>1. PICK table : table = Cfg!gps_conf_table
  OBVIOUS
<1>2. table \in Tables
  BY <1>1 DEF Tables
<1>3. PICK records : records = Cardinality(DOMAIN table) - 1
  OBVIOUS
<1>4. Cfg!loc_update_conf(c, lines, table) = Cfg!FillConf(c, lines, table, records)
  BY <1>3, SameCardinality DEF Cfg!loc_update_conf, Cfg!Records
<1>5. IsFiniteSet(DOMAIN table) /\ Cardinality(DOMAIN table) \in Nat
  BY <1>2, TablesAre, FS_CardinalityType
<1>6. ASSUME ~Cfg!NamesAll(lines, table)
      PROVE  /\ records \in Nat
             /\ Cardinality(NamedUpTo(lines, table, Len(lines))) <= records
  <2>1. PICK n \in DOMAIN table : Cfg!LinesFor(lines, n) = {}
    BY <1>6 DEF Cfg!NamesAll
  <2>2. PICK N : N = NamedUpTo(lines, table, Len(lines))
    OBVIOUS
  <2>3. n \notin N /\ N \in SUBSET DOMAIN table
    <3>1. DOMAIN lines = 1..Len(lines)
      OBVIOUS
    <3> QED BY <2>1, <2>2, <3>1 DEF NamedUpTo, Cfg!LinesFor
  <2>4. /\ Cardinality(N) <= Cardinality(DOMAIN table)
        /\ Cardinality(N) # Cardinality(DOMAIN table)
        /\ IsFiniteSet(N)
    BY <1>5, <2>1, <2>3, FS_Subset
  <2>5. Cardinality(N) \in Nat
    BY <2>4, FS_CardinalityType
  <2> QED BY <1>3, <1>5, <2>2, <2>4, <2>5
<1> QED BY <1>1, <1>2, <1>4, <1>6, FillTyped, ReadsLast

(* A file is read for its own table and then for that of the log.          *)
LEMMA ReadsConf ==
    ASSUME NEW c, Values(c), NEW lines \in Seq(TextLines), NEW table \in Tables
    PROVE  /\ Values(Cfg!loc_read_conf(c, lines, table).c)
           /\ ~Cfg!Repeats(lines, table) /\ ~Cfg!Repeats(lines, Cfg!loc_param_table) =>
                /\ Cfg!loc_read_conf(c, lines, table).c
                     = Cfg!LastValue(Cfg!LastValue(c, lines, table), lines, Cfg!loc_param_table)
                /\ Cfg!loc_read_conf(c, lines, table).set
                     = {n \in DOMAIN table : Cfg!LinesFor(lines, n) # {}}
<1>1. PICK first : first = Cfg!loc_read_conf_r(c, lines, table)
  OBVIOUS
<1>2. Reader(first) /\ Values(first.c)
  BY <1>1, ReadsFile
<1>3. PICK then : then = Cfg!loc_read_conf_r(first.c, lines, Cfg!loc_param_table)
  OBVIOUS
<1>4. /\ Values(then.c)
      /\ ~Cfg!Repeats(lines, Cfg!loc_param_table) =>
           then.c = Cfg!LastValue(first.c, lines, Cfg!loc_param_table)
  BY <1>2, <1>3, ReadsFile DEF Tables
<1>5. PICK r : r = Cfg!loc_read_conf(c, lines, table)
  OBVIOUS
<1>6. r.c = then.c /\ r.set = first.set
  <2>1. r = [first EXCEPT !.c = then.c]
    BY <1>1, <1>3, <1>5 DEF Cfg!loc_read_conf
  <2> QED BY <1>2, <2>1 DEF Reader
<1> QED BY <1>1, <1>4, <1>5, <1>6, ReadsFile

(* An engine without assistance shows none.                                *)
LEMMA Unassisted ==
    ASSUME NEW c, Values(c)
    PROVE  /\ Values(Cfg!NoAssistance(c))
           /\ Cfg!Standalone => Cfg!NoAssistance(c)["CAPABILITIES"] % 8 < 2
           /\ (Cfg!Standalone => c["CAPABILITIES"] % 8 < 2) => Cfg!NoAssistance(c) = c
<1> DEFINE n == c["CAPABILITIES"]
           m == 8 * (n \div 8) + (n % 2)
<1>1. n \in Nat /\ c = [k \in Names |-> c[k]] /\ "CAPABILITIES" \in Names
  BY DEF Values, Names
<1>2. m \in Nat /\ m % 8 < 2 /\ (n % 8 < 2 => m = n)
  BY <1>1
<1>3. CASE ~Cfg!Standalone
  BY <1>3 DEF Cfg!NoAssistance
<1>4. CASE Cfg!Standalone
  <2>1. Cfg!NoAssistance(c) = [c EXCEPT !["CAPABILITIES"] = m]
    BY <1>4 DEF Cfg!NoAssistance
  <2> HIDE DEF m, n
  <2>2. [c EXCEPT !["CAPABILITIES"] = m] = [k \in Names |-> IF k = "CAPABILITIES" THEN m ELSE c[k]]
    BY <1>1
  <2>3. Values([k \in Names |-> IF k = "CAPABILITIES" THEN m ELSE c[k]])
    BY <1>1, <1>2 DEF Values
  <2>4. [k \in Names |-> IF k = "CAPABILITIES" THEN m ELSE c[k]]["CAPABILITIES"] = m
    BY <1>1
  <2>5. m = n => [k \in Names |-> IF k = "CAPABILITIES" THEN m ELSE c[k]] = c
    BY <1>1 DEF n
  <2> QED BY <1>2, <1>4, <2>1, <2>2, <2>3, <2>4, <2>5 DEF n
<1> QED BY <1>3, <1>4

CfgInv ==
  /\ Values(conf)
  /\ files \in [gps : GpsFiles, sap : SapFiles]
  /\ ConfigFollowsTexts

LEMMA CfgInit == Cfg!Init => CfgInv
<1> SUFFICES ASSUME Cfg!Init PROVE CfgInv
  OBVIOUS
<1>1. Values(conf)
  <2>1. PICK c : c = Cfg!InMemory
    OBVIOUS
  <2>2. c = [n \in Names |-> c[n]] /\ c["CAPABILITIES"] = 0
    BY <2>1 DEF Cfg!InMemory, Names
  <2>3. Values(c)
    BY <2>2 DEF Values
  <2> QED BY <2>1, <2>3 DEF Cfg!Init
<1> QED BY <1>1 DEF Cfg!Init, CfgInv, ConfigFollowsTexts, Cfg!ConfigFollowsTexts

LEMMA ValuesExcept ==
    ASSUME NEW c, Values(c), NEW n \in Names, NEW v, n = "CAPABILITIES" => v \in Nat
    PROVE  Values([c EXCEPT ![n] = v])
<1>1. c = [k \in Names |-> c[k]] /\ c["CAPABILITIES"] \in Nat /\ "CAPABILITIES" \in Names
  BY DEF Values, Names
<1>2. [c EXCEPT ![n] = v] = [k \in Names |-> IF k = n THEN v ELSE c[k]]
  BY <1>1
<1> QED BY <1>1, <1>2 DEF Values

LEMMA Defaults ==
    ASSUME NEW c, Values(c)
    PROVE  Values(Cfg!loc_default_parameters(c))
<1>1. PICK c1 : c1 = [c EXCEPT !["SUPL_VER"] = Cfg!SUPL_VER_DEFAULT]
  OBVIOUS
<1>2. PICK c2 : c2 = [c1 EXCEPT !["CAPABILITIES"] = 7]
  OBVIOUS
<1>3. PICK c3 : c3 = [c2 EXCEPT !["INTERMEDIATE_POS"] = 0]
  OBVIOUS
<1>4. PICK c4 : c4 = [c3 EXCEPT !["GYRO_BIAS_RANDOM_WALK"] = 0]
  OBVIOUS
<1>5. PICK c5 : c5 = [c4 EXCEPT !["SENSOR_USAGE"] = 0]
  OBVIOUS
<1>6. Cfg!loc_default_parameters(c) = c5
  BY <1>1, <1>2, <1>3, <1>4, <1>5 DEF Cfg!loc_default_parameters
<1>7. Values(c1)
  BY <1>1, ValuesExcept DEF Names
<1>8. Values(c2)
  BY <1>2, <1>7, ValuesExcept DEF Names
<1>9. Values(c3)
  BY <1>3, <1>8, ValuesExcept DEF Names
<1>10. Values(c4)
  BY <1>4, <1>9, ValuesExcept DEF Names
<1>11. Values(c5)
  BY <1>5, <1>10, ValuesExcept DEF Names
<1> QED BY <1>6, <1>11

(* The first call reads the files, a later one finds them read.            *)
LEMMA CfgReads == CfgInv /\ Cfg!get_gps_interface => CfgInv'
<1> SUFFICES ASSUME CfgInv, Cfg!get_gps_interface PROVE CfgInv'
  OBVIOUS
<1>1. PICK read : read = Cfg!loc_eng_read_config
  OBVIOUS
<1>2. /\ conf' = Cfg!NoAssistance(read.c) /\ param_set' = read.set
      /\ configAlreadyRead' = TRUE /\ files' = files /\ board' = board
  BY <1>1 DEF Cfg!get_gps_interface
<1>3. Cfg!Standalone' = Cfg!Standalone
  BY <1>2 DEF Cfg!Standalone, Cfg!loc_get_target
<1>4. Values(conf) /\ files \in [gps : GpsFiles, sap : SapFiles]
  BY DEF CfgInv
<1>5. PICK gpsFile, sapFile : gpsFile = files.gps /\ sapFile = files.sap
  OBVIOUS
<1>6. gpsFile \in Seq(TextLines) /\ sapFile \in Seq(TextLines)
  BY <1>4, <1>5, TextsAreTexts DEF TextLines
<1>7. CASE configAlreadyRead
  <2>1. read.c = conf /\ read.set = param_set
    BY <1>1, <1>7 DEF Cfg!loc_eng_read_config
  <2>2. expected' = expected /\ cut' = cut
    BY <1>7 DEF Cfg!get_gps_interface
  <2>3. conf' = conf
    <3>1. Cfg!Standalone => conf["CAPABILITIES"] % 8 < 2
      BY <1>7 DEF CfgInv, ConfigFollowsTexts, Cfg!ConfigFollowsTexts
    <3> QED BY <1>2, <1>4, <2>1, <3>1, Unassisted
  <2>4. ConfigFollowsTexts'
    BY <1>2, <1>3, <1>7, <2>1, <2>2, <2>3
       DEF CfgInv, ConfigFollowsTexts, Cfg!ConfigFollowsTexts, Cfg!LinesFor
  <2> QED BY <1>2, <1>4, <2>3, <2>4 DEF CfgInv
<1>8. CASE ~configAlreadyRead
  <2>1. PICK d : d = Cfg!loc_default_parameters(conf)
    OBVIOUS
  <2>2. PICK gps : gps = Cfg!loc_read_conf(d, gpsFile, Cfg!gps_conf_table)
    OBVIOUS
  <2>3. PICK sap : sap = Cfg!loc_read_conf(gps.c, sapFile, Cfg!sap_conf_table)
    OBVIOUS
  <2>4. read.c = sap.c /\ read.set = sap.set \cap Cfg!HasBit
    BY <1>1, <1>5, <1>8, <2>1, <2>2, <2>3 DEF Cfg!loc_eng_read_config
  <2>5. Values(d)
    BY <1>4, <2>1, Defaults
  <2>6. /\ Values(gps.c)
        /\ ~Cfg!Repeats(gpsFile, Cfg!gps_conf_table) /\ ~Cfg!Repeats(gpsFile, Cfg!loc_param_table) =>
             gps.c = Cfg!LastValue(Cfg!LastValue(d, gpsFile, Cfg!gps_conf_table),
                                   gpsFile, Cfg!loc_param_table)
    BY <1>6, <2>2, <2>5, ReadsConf DEF Tables
  <2>7. /\ Values(sap.c)
        /\ ~Cfg!Repeats(sapFile, Cfg!sap_conf_table) /\ ~Cfg!Repeats(sapFile, Cfg!loc_param_table) =>
             /\ sap.c = Cfg!LastValue(Cfg!LastValue(gps.c, sapFile, Cfg!sap_conf_table),
                                      sapFile, Cfg!loc_param_table)
             /\ sap.set = {n \in DOMAIN Cfg!sap_conf_table : Cfg!LinesFor(sapFile, n) # {}}
    <3>1. PICK b : b = gps.c
      OBVIOUS
    <3>2. PICK table : table = Cfg!sap_conf_table
      OBVIOUS
    <3>3. Values(b) /\ table \in Tables
      BY <2>6, <3>1, <3>2 DEF Tables
    <3>4. sap = Cfg!loc_read_conf(b, sapFile, table)
      BY <2>3, <3>1, <3>2
    <3>5. /\ Values(sap.c)
          /\ ~Cfg!Repeats(sapFile, table) /\ ~Cfg!Repeats(sapFile, Cfg!loc_param_table) =>
               /\ sap.c = Cfg!LastValue(Cfg!LastValue(b, sapFile, table),
                                        sapFile, Cfg!loc_param_table)
               /\ sap.set = {n \in DOMAIN table : Cfg!LinesFor(sapFile, n) # {}}
      BY <1>6, <3>3, <3>4, ReadsConf
    <3> QED BY <3>1, <3>2, <3>5
  <2>8. /\ Values(conf')
        /\ Cfg!Standalone => conf'["CAPABILITIES"] % 8 < 2
    BY <1>2, <2>4, <2>7, Unassisted
  <2>9. ASSUME ~cut' PROVE conf' = expected' /\ read.set = {n \in Cfg!HasBit : Cfg!LinesFor(sapFile, n) # {}}
    <3>1. /\ ~Cfg!Repeats(gpsFile, Cfg!gps_conf_table) /\ ~Cfg!Repeats(sapFile, Cfg!sap_conf_table)
          /\ ~Cfg!Repeats(gpsFile, Cfg!loc_param_table) /\ ~Cfg!Repeats(sapFile, Cfg!loc_param_table)
      BY <1>5, <1>8, <2>9 DEF Cfg!get_gps_interface
    <3>2. expected' = Cfg!NoAssistance(
             Cfg!LastValue(Cfg!LastValue(
               Cfg!LastValue(Cfg!LastValue(d, gpsFile, Cfg!gps_conf_table), gpsFile, Cfg!loc_param_table),
               sapFile, Cfg!sap_conf_table), sapFile, Cfg!loc_param_table))
      BY <1>5, <1>8, <2>1 DEF Cfg!get_gps_interface
    <3>3. conf' = expected'
      BY <1>2, <2>4, <2>6, <2>7, <3>1, <3>2
    <3>4. Cfg!HasBit \subseteq DOMAIN Cfg!sap_conf_table
      BY DEF Cfg!HasBit, Cfg!sap_conf_table
    <3> QED BY <2>4, <2>7, <3>1, <3>3, <3>4
  <2>10. ConfigFollowsTexts'
    <3>1. Cfg!LinesFor(files.sap, "GYRO_BIAS_RANDOM_WALK")' = Cfg!LinesFor(sapFile, "GYRO_BIAS_RANDOM_WALK")
      BY <1>2, <1>5 DEF Cfg!LinesFor
    <3>2. \A n \in Cfg!HasBit : Cfg!LinesFor(files'.sap, n) = Cfg!LinesFor(sapFile, n)
      BY <1>2, <1>5 DEF Cfg!LinesFor
    <3>3. {n \in Cfg!HasBit : Cfg!LinesFor(sapFile, n) # {}}
            = {n \in Cfg!HasBit : Cfg!LinesFor(files'.sap, n) # {}}
      BY <3>2
    <3> QED BY <1>2, <1>3, <2>8, <2>9, <3>3 DEF ConfigFollowsTexts, Cfg!ConfigFollowsTexts
  <2> QED BY <1>2, <1>4, <2>8, <2>10 DEF CfgInv
<1> QED BY <1>7, <1>8

(* An update changes what it may and leaves the rest.                      *)
LEMMA CfgUpdates == CfgInv /\ Cfg!loc_configuration_update => CfgInv'
<1> SUFFICES ASSUME CfgInv, Cfg!loc_configuration_update PROVE CfgInv'
  OBVIOUS
<1>1. PICK lines \in UpdateTexts :
        /\ conf' = Cfg!NoAssistance(Cfg!loc_eng_configuration_update(lines))
        /\ expected' = [n \in DOMAIN conf |->
                          IF n \in Cfg!Updatable
                          THEN Cfg!LastValue(expected, lines, Cfg!gps_conf_table)[n]
                          ELSE expected[n]]
        /\ cut' = (cut \/ Cfg!Repeats(lines, Cfg!gps_conf_table)
                       \/ Cfg!NamesAll(lines, Cfg!gps_conf_table))
  BY DEF Cfg!loc_configuration_update
<1>2. /\ configAlreadyRead /\ configAlreadyRead' /\ files' = files /\ board' = board
      /\ param_set' = param_set
  BY DEF Cfg!loc_configuration_update
<1>3. Cfg!Standalone' = Cfg!Standalone
  BY <1>2 DEF Cfg!Standalone, Cfg!loc_get_target
<1>4. Values(conf) /\ files \in [gps : GpsFiles, sap : SapFiles]
  BY DEF CfgInv
<1>5. lines \in Seq(TextLines)
  BY TextsAreTexts DEF TextLines
<1>6. PICK new : new = Cfg!loc_update_conf(conf, lines, Cfg!gps_conf_table).c
  OBVIOUS
<1>7. /\ Values(new)
      /\ ~cut' => new = Cfg!LastValue(conf, lines, Cfg!gps_conf_table)
  BY <1>1, <1>4, <1>5, <1>6, ReadsUpdate
<1>8. PICK c : c = Cfg!loc_eng_configuration_update(lines)
  OBVIOUS
<1>9. DOMAIN conf = Names /\ "CAPABILITIES" \in Names /\ "CAPABILITIES" \notin Cfg!Updatable
  BY <1>4 DEF Values, Names, Cfg!Updatable
<1>10. c = [n \in Names |-> IF n \in Cfg!Updatable THEN new[n] ELSE conf[n]]
  BY <1>6, <1>8, <1>9 DEF Cfg!loc_eng_configuration_update
<1>11. c["CAPABILITIES"] = conf["CAPABILITIES"] /\ Values(c)
  <2>1. c["CAPABILITIES"] = conf["CAPABILITIES"] /\ c = [n \in Names |-> c[n]]
    BY <1>9, <1>10
  <2> QED BY <1>4, <2>1 DEF Values
<1>12. Cfg!Standalone => conf["CAPABILITIES"] % 8 < 2
  BY <1>2 DEF CfgInv, ConfigFollowsTexts, Cfg!ConfigFollowsTexts
<1>13. conf' = c
  BY <1>1, <1>8, <1>11, <1>12, Unassisted
<1>14. ASSUME ~cut' PROVE conf' = expected'
  <2>1. conf = expected
    BY <1>1, <1>2, <1>14 DEF CfgInv, ConfigFollowsTexts, Cfg!ConfigFollowsTexts
  <2>2. new = Cfg!LastValue(expected, lines, Cfg!gps_conf_table)
    BY <1>7, <1>14, <2>1
  <2>3. expected' = [n \in Names |-> IF n \in Cfg!Updatable THEN new[n] ELSE conf[n]]
    BY <1>1, <1>9, <2>1, <2>2
  <2> QED BY <1>10, <1>13, <2>3
<1>15. ConfigFollowsTexts'
  <2>1. ~cut' => ~cut
    BY <1>1
  <2>2. ~cut => param_set = {n \in Cfg!HasBit : Cfg!LinesFor(files.sap, n) # {}}
    BY <1>2 DEF CfgInv, ConfigFollowsTexts, Cfg!ConfigFollowsTexts
  <2>3. \A n \in Cfg!HasBit : Cfg!LinesFor(files'.sap, n) = Cfg!LinesFor(files.sap, n)
    BY <1>2
  <2>4. Cfg!Standalone => conf'["CAPABILITIES"] % 8 < 2
    BY <1>11, <1>12, <1>13
  <2>5. ~cut' => param_set' = {n \in Cfg!HasBit : Cfg!LinesFor(files'.sap, n) # {}}
    BY <1>2, <2>1, <2>2, <2>3
  <2> QED BY <1>2, <1>3, <1>14, <2>4, <2>5 DEF ConfigFollowsTexts, Cfg!ConfigFollowsTexts
<1> QED BY <1>2, <1>4, <1>11, <1>13, <1>15 DEF CfgInv

(* The values stay numbers where they must be, the files stay, and each    *)
(* value is the last one that the texts gave (loc_cfg.cpp).                *)
THEOREM ConfigInvariance == Cfg!Spec => []CfgInv
<1>1. CfgInv /\ UNCHANGED cfgVars => CfgInv'
  <2> SUFFICES ASSUME CfgInv, UNCHANGED cfgVars PROVE CfgInv'
    OBVIOUS
  <2>1. /\ board' = board /\ files' = files /\ configAlreadyRead' = configAlreadyRead
        /\ conf' = conf /\ param_set' = param_set /\ expected' = expected /\ cut' = cut
    BY DEF cfgVars
  <2> QED BY <2>1 DEF CfgInv, ConfigFollowsTexts, Cfg!ConfigFollowsTexts,
                      Cfg!Standalone, Cfg!loc_get_target, Cfg!LinesFor
<1>2. CfgInv /\ [Cfg!Next]_cfgVars => CfgInv'
  BY <1>1, CfgReads, CfgUpdates DEF Cfg!Next
<1> QED BY <1>2, CfgInit, PTL DEF Cfg!Spec, Cfg!vars, cfgVars

(* Each value is the one that the texts gave last, whatever was updated    *)
(* since the files were read and however often the interface was asked     *)
(* for; the validity bits tell what the file gave; and a target without    *)
(* assistance never shows it (loc_cfg.cpp, loc_eng.cpp, loc.cpp).          *)
THEOREM ConfigFollowsTextsTheorem == Cfg!Spec => []ConfigFollowsTexts
<1>1. CfgInv => ConfigFollowsTexts
  BY DEF CfgInv
<1> QED BY <1>1, ConfigInvariance, PTL

-----------------------------------------------------------------------------
(* The heap.  The places of a tree are ordered by Above, each has the      *)
(* places on the way to it above it and two children.                      *)
Places == Seq(Heap!Sides)

LEMMA AtIs ==
    ASSUME NEW p \in Places, NEW n \in 0..Len(p)
    PROVE  /\ Len(p) \in Nat /\ Heap!At(p, n) \in Places /\ Len(Heap!At(p, n)) = n
           /\ \A i \in 1..n : Heap!At(p, n)[i] = p[i]
<1>1. PICK len : len = Len(p)
  OBVIOUS
<1>2. len \in Nat /\ \A i \in 1..len : p[i] \in Heap!Sides
  BY <1>1, LenProperties, ElementOfSeq DEF Places
<1>3. n \in 0..len /\ n \in Int /\ 1 \in Int /\ \A i \in 1..n : p[i] \in Heap!Sides
  BY <1>1, <1>2
<1>4. PICK a : a = Heap!At(p, n)
  OBVIOUS
<1>5. /\ a \in Places /\ Len(a) = IF 1 <= n THEN n - 1 + 1 ELSE 0
      /\ \A i \in 1..n - 1 + 1 : a[i] = p[1 + i - 1]
  BY <1>3, <1>4, SubSeqProperties DEF Heap!At, Places
<1>6. Len(a) = n
  BY <1>2, <1>3, <1>5
<1>7. \A i \in 1..n : i \in 1..n - 1 + 1 /\ 1 + i - 1 = i
  BY <1>3
<1>8. \A i \in 1..n : a[i] = p[i]
  BY <1>5, <1>7
<1> QED BY <1>1, <1>2, <1>4, <1>5, <1>6, <1>8

LEMMA SamePlace ==
    ASSUME NEW p \in Places, NEW q \in Places, Len(p) = Len(q),
           \A i \in 1..Len(p) : p[i] = q[i]
    PROVE  p = q
BY SeqEqual DEF Places

LEMMA AtAll == ASSUME NEW p \in Places PROVE Heap!At(p, Len(p)) = p /\ Heap!At(p, 0) = <<>>
<1>1. Len(p) \in Nat /\ Len(p) \in 0..Len(p) /\ 0 \in Int /\ 1 \in Int
  BY LenProperties DEF Places
<1>2. Heap!At(p, Len(p)) = p
  BY SubSeqFull DEF Places, Heap!At
<1>3. Heap!At(p, 0) = <<>>
  BY SubSeqEmpty, <1>1 DEF Heap!At
<1> QED BY <1>2, <1>3

LEMMA AtAt ==
    ASSUME NEW p \in Places, NEW n \in 0..Len(p), NEW m \in 0..n
    PROVE  Heap!At(Heap!At(p, n), m) = Heap!At(p, m)
<1>1. PICK len, a : len = Len(p) /\ a = Heap!At(p, n)
  OBVIOUS
<1>2. len \in Nat /\ a \in Places /\ Len(a) = n /\ \A i \in 1..n : a[i] = p[i]
  BY <1>1, AtIs
<1>3. m \in 0..len /\ m \in 0..Len(a)
  BY <1>1, <1>2
<1>4. PICK b, c : b = Heap!At(a, m) /\ c = Heap!At(p, m)
  OBVIOUS
<1>5. b \in Places /\ Len(b) = m /\ \A i \in 1..m : b[i] = a[i]
  BY <1>2, <1>3, <1>4, AtIs
<1>6. c \in Places /\ Len(c) = m /\ \A i \in 1..m : c[i] = p[i]
  BY <1>1, <1>3, <1>4, AtIs
<1>7. \A i \in 1..m : i \in 1..n
  BY <1>1, <1>2
<1>8. \A i \in 1..m : b[i] = c[i]
  BY <1>2, <1>5, <1>6, <1>7
<1>9. b = c
  BY <1>5, <1>6, <1>8, SamePlace
<1> QED BY <1>1, <1>4, <1>9

LEMMA ChildIs ==
    ASSUME NEW p \in Places, NEW s \in Heap!Sides
    PROVE  /\ Len(p) \in Nat /\ Heap!Child(p, s) \in Places /\ Len(Heap!Child(p, s)) = Len(p) + 1
           /\ Heap!Child(p, s)[Len(p) + 1] = s
           /\ \A i \in 1..Len(p) : Heap!Child(p, s)[i] = p[i]
           /\ \A n \in 0..Len(p) : Heap!At(Heap!Child(p, s), n) = Heap!At(p, n)
           /\ Heap!At(Heap!Child(p, s), Len(p)) = p
<1>1. PICK c, len : c = Heap!Child(p, s) /\ len = Len(p)
  OBVIOUS
<1>2. /\ len \in Nat /\ c \in Places /\ Len(c) = len + 1 /\ c[len + 1] = s
      /\ \A i \in 1..len : c[i] = p[i]
  BY <1>1, LenProperties, AppendProperties DEF Heap!Child, Places
<1>3. ASSUME NEW n \in 0..len PROVE Heap!At(c, n) = Heap!At(p, n)
  <2>1. PICK a, b : a = Heap!At(c, n) /\ b = Heap!At(p, n)
    OBVIOUS
  <2>2. n \in 0..Len(c) /\ n \in 0..Len(p)
    BY <1>1, <1>2
  <2>3. a \in Places /\ Len(a) = n /\ \A i \in 1..n : a[i] = c[i]
    BY <1>2, <2>1, <2>2, AtIs
  <2>4. b \in Places /\ Len(b) = n /\ \A i \in 1..n : b[i] = p[i]
    BY <2>1, <2>2, AtIs
  <2>5. \A i \in 1..n : i \in 1..len
    BY <1>2
  <2>6. a = b
    BY <1>2, <2>3, <2>4, <2>5, SamePlace
  <2> QED BY <2>1, <2>6
<1>4. Heap!At(c, len) = p
  BY <1>1, <1>2, <1>3, AtAll
<1> QED BY <1>1, <1>2, <1>3, <1>4

LEMMA SameChild ==
    ASSUME NEW p \in Places, NEW q \in Places, NEW s \in Heap!Sides, NEW r \in Heap!Sides,
           Heap!Child(p, s) = Heap!Child(q, r)
    PROVE  p = q /\ s = r
BY AppendInjective DEF Heap!Child, Places

(* The next place on a way is a child.                                     *)
LEMMA NextPlace ==
    ASSUME NEW p \in Places, NEW n \in 0..Len(p) - 1
    PROVE  /\ p[n + 1] \in Heap!Sides
           /\ Heap!At(p, n + 1) = Heap!Child(Heap!At(p, n), p[n + 1])
<1>1. PICK a, b, s, len : /\ a = Heap!At(p, n) /\ b = Heap!At(p, n + 1) /\ s = p[n + 1]
                          /\ len = Len(p)
  OBVIOUS
<1>2. len \in Nat
  BY <1>1, LenProperties DEF Places
<1>3. n \in 0..len /\ n + 1 \in 0..len /\ n + 1 \in 1..len /\ n \in Nat
  BY <1>1, <1>2
<1>4. s \in Heap!Sides
  BY <1>1, <1>3, ElementOfSeq DEF Places
<1>5. a \in Places /\ Len(a) = n /\ \A i \in 1..n : a[i] = p[i]
  BY <1>1, <1>3, AtIs
<1>6. b \in Places /\ Len(b) = n + 1 /\ \A i \in 1..n + 1 : b[i] = p[i]
  BY <1>1, <1>3, AtIs
<1>7. PICK c : c = Heap!Child(a, s)
  OBVIOUS
<1>8. c \in Places /\ Len(c) = n + 1 /\ c[n + 1] = s /\ \A i \in 1..n : c[i] = a[i]
  BY <1>4, <1>5, <1>7, ChildIs
<1>9. \A i \in 1..n + 1 : b[i] = c[i]
  <2>1. \A i \in 1..n + 1 : i = n + 1 \/ i \in 1..n
    BY <1>3
  <2> QED BY <1>1, <1>5, <1>6, <1>8, <2>1
<1>10. b = c
  BY <1>6, <1>8, <1>9, SamePlace
<1> QED BY <1>1, <1>4, <1>7, <1>10

LEMMA UnderIs ==
    ASSUME NEW p \in Places, NEW q \in Places
    PROVE  /\ Heap!Above(q, p) <=> Len(q) < Len(p) /\ q = Heap!At(p, Len(q))
           /\ Heap!Under(q, p) <=> Len(q) <= Len(p) /\ q = Heap!At(p, Len(q))
<1>1. Len(p) \in Nat /\ Len(q) \in Nat
  BY LenProperties DEF Places
<1>2. ASSUME NEW n \in 0..Len(p) - 1, q = Heap!At(p, n) PROVE Len(q) = n
  <2>1. n \in 0..Len(p)
    BY <1>1
  <2>2. Len(Heap!At(p, n)) = n
    BY <2>1, AtIs
  <2> QED BY <1>2, <2>2
<1>3. Heap!Above(q, p) <=> Len(q) < Len(p) /\ q = Heap!At(p, Len(q))
  <2>1. Len(q) < Len(p) => Len(q) \in 0..Len(p) - 1
    BY <1>1
  <2>2. \A n \in 0..Len(p) - 1 : n < Len(p)
    BY <1>1
  <2> QED BY <1>2, <2>1, <2>2 DEF Heap!Above
<1>4. Heap!Under(q, p) <=> Len(q) <= Len(p) /\ q = Heap!At(p, Len(q))
  <2>1. q = p => Len(q) = Len(p) /\ q = Heap!At(p, Len(q))
    BY AtAll
  <2>2. Len(q) = Len(p) /\ q = Heap!At(p, Len(q)) => q = p
    BY AtAll
  <2> QED BY <1>1, <1>3, <2>1, <2>2 DEF Heap!Under
<1> QED BY <1>3, <1>4

(* Of the children of p one is on the way to what is below p.              *)
LEMMA Branch ==
    ASSUME NEW p \in Places, NEW g \in Places, NEW s \in Heap!Sides
    PROVE  Heap!Under(Heap!Child(p, s), g) <=> Heap!Above(p, g) /\ s = g[Len(p) + 1]
<1>1. PICK c, k, len : c = Heap!Child(p, s) /\ k = Len(p) /\ len = Len(g)
  OBVIOUS
<1>2. /\ k \in Nat /\ len \in Nat /\ c \in Places /\ Len(c) = k + 1 /\ c[k + 1] = s
      /\ Heap!At(c, k) = p
  BY <1>1, ChildIs, LenProperties DEF Places
<1>3. ASSUME Heap!Under(c, g) PROVE Heap!Above(p, g) /\ s = g[k + 1]
  <2>1. k + 1 <= len /\ c = Heap!At(g, k + 1)
    BY <1>1, <1>2, <1>3, UnderIs
  <2>2. k + 1 \in 0..Len(g) /\ k \in 0..k + 1 /\ k + 1 \in 1..k + 1 /\ k < Len(g)
    BY <1>1, <1>2, <2>1
  <2>3. Heap!At(Heap!At(g, k + 1), k) = Heap!At(g, k)
    BY <2>2, AtAt
  <2>4. p = Heap!At(g, k)
    BY <1>2, <2>1, <2>3
  <2>5. c[k + 1] = g[k + 1]
    BY <2>1, <2>2, AtIs
  <2> QED BY <1>1, <1>2, <2>2, <2>4, <2>5, UnderIs
<1>4. ASSUME Heap!Above(p, g), s = g[k + 1] PROVE Heap!Under(c, g)
  <2>1. k < len /\ p = Heap!At(g, k)
    BY <1>1, <1>4, UnderIs
  <2>2. k \in 0..Len(g) - 1 /\ k + 1 <= Len(g)
    BY <1>1, <1>2, <2>1
  <2>3. Heap!At(g, k + 1) = Heap!Child(Heap!At(g, k), g[k + 1])
    BY <2>2, NextPlace
  <2>4. c = Heap!At(g, k + 1)
    BY <1>1, <1>4, <2>1, <2>3
  <2> QED BY <1>2, <2>2, <2>4, UnderIs
<1> QED BY <1>1, <1>3, <1>4

(* Above orders places, and a tree is closed under it.                     *)
Shaped(D) == D \subseteq Places /\ \A p \in D : \A n \in 0..Len(p) : Heap!At(p, n) \in D

LEMMA ShapedUp ==
    ASSUME NEW D, Shaped(D), NEW p \in Places, NEW q \in Places, Heap!Under(q, p), p \in D
    PROVE  q \in D
<1>1. Len(q) \in 0..Len(p) /\ q = Heap!At(p, Len(q))
  BY UnderIs, LenProperties DEF Places
<1> QED BY <1>1 DEF Shaped

LEMMA ParentIn ==
    ASSUME NEW D, Shaped(D), NEW p \in Places, NEW s \in Heap!Sides, Heap!Child(p, s) \in D
    PROVE  p \in D
<1>1. Heap!At(Heap!Child(p, s), Len(p)) = p /\ Len(p) \in 0..Len(Heap!Child(p, s))
  BY ChildIs
<1> QED BY <1>1 DEF Shaped

(* Every place but the top is a child.                                     *)
LEMMA TopOrChild ==
    ASSUME NEW p \in Places
    PROVE  p = <<>> \/ \E q \in Places, s \in Heap!Sides : p = Heap!Child(q, s)
BY SequenceEmptyOrAppend DEF Places, Heap!Child

LEMMA TopIs == <<>> \in Places /\ Len(<<>>) = 0
BY EmptySeq DEF Places

-----------------------------------------------------------------------------
(* The sizes, when a node comes or a leaf goes.                            *)
SizeIn(D, size, p) == IF p \in D THEN size[p] ELSE 0

Sized(D, size) ==
  /\ size \in [D -> Nat]
  /\ \A p \in D : size[p] = 1 + SizeIn(D, size, Heap!Child(p, "mLeft"))
                              + SizeIn(D, size, Heap!Child(p, "mRight"))

LEMMA SidesAre ==
    ASSUME NEW p \in Places
    PROVE  /\ "mLeft" \in Heap!Sides /\ "mRight" \in Heap!Sides
           /\ Heap!Child(p, "mLeft") \in Places /\ Heap!Child(p, "mRight") \in Places
           /\ Heap!Sides = {"mLeft", "mRight"}
<1>1. "mLeft" \in Heap!Sides /\ "mRight" \in Heap!Sides /\ Heap!Sides = {"mLeft", "mRight"}
  BY DEF Heap!Sides
<1> QED BY <1>1, ChildIs

(* Whether p has gained or lost a node among its children or below.        *)
Counts(p, g) == IF Heap!Above(p, g) THEN 1 ELSE 0
Holds1(p, g) == IF Heap!Under(p, g) THEN 1 ELSE 0

LEMMA OneSide ==
    ASSUME NEW p \in Places, NEW g \in Places
    PROVE  Counts(p, g) = Holds1(Heap!Child(p, "mLeft"), g) + Holds1(Heap!Child(p, "mRight"), g)
<1>1. PICK l, r : l = Heap!Child(p, "mLeft") /\ r = Heap!Child(p, "mRight")
  OBVIOUS
<1>2. /\ Heap!Under(l, g) <=> Heap!Above(p, g) /\ "mLeft" = g[Len(p) + 1]
      /\ Heap!Under(r, g) <=> Heap!Above(p, g) /\ "mRight" = g[Len(p) + 1]
  BY <1>1, Branch, SidesAre
<1>3. Heap!Above(p, g) => g[Len(p) + 1] \in {"mLeft", "mRight"}
  <2> SUFFICES ASSUME Heap!Above(p, g) PROVE g[Len(p) + 1] \in {"mLeft", "mRight"}
    OBVIOUS
  <2>1. Len(p) \in 0..Len(g) - 1
    BY UnderIs, LenProperties DEF Places
  <2> QED BY <2>1, NextPlace, SidesAre
<1>4. Counts(p, g) = Holds1(l, g) + Holds1(r, g)
  <2>1. CASE ~Heap!Above(p, g)
    BY <1>2, <2>1 DEF Counts, Holds1
  <2>2. CASE Heap!Above(p, g) /\ g[Len(p) + 1] = "mLeft"
    <3>1. Heap!Under(l, g) /\ ~Heap!Under(r, g)
      BY <1>2, <2>2
    <3> QED BY <2>2, <3>1 DEF Counts, Holds1
  <2>3. CASE Heap!Above(p, g) /\ g[Len(p) + 1] = "mRight"
    <3>1. ~Heap!Under(l, g) /\ Heap!Under(r, g)
      BY <1>2, <2>3
    <3> QED BY <2>3, <3>1 DEF Counts, Holds1
  <2> QED BY <1>3, <2>1, <2>2, <2>3
<1> QED BY <1>1, <1>4

(* A node that comes hangs on the tree.                                   *)
WayIn(D, new) == \A n \in 0..Len(new) - 1 : Heap!At(new, n) \in D

LEMMA Grown ==
    ASSUME NEW D, NEW size, Shaped(D), Sized(D, size), NEW new \in Places, new \notin D,
           WayIn(D, new),
           NEW E, E = D \cup {new}, NEW grown,
           grown = [p \in E |-> IF p = new THEN 1
                                ELSE IF Heap!Above(p, new) THEN size[p] + 1 ELSE size[p]]
    PROVE  Shaped(E) /\ Sized(E, grown)
<1>1. D \in SUBSET Places /\ E \in SUBSET Places
  BY DEF Shaped
<1>2. \A q \in Places : Heap!Above(q, new) => q \in D
  BY UnderIs, LenProperties DEF Heap!Above, WayIn
<1>3. Shaped(E)
  <2> SUFFICES ASSUME NEW p \in E, NEW n \in 0..Len(p) PROVE Heap!At(p, n) \in E
    BY <1>1 DEF Shaped
  <2>1. CASE p \in D
    BY <2>1 DEF Shaped
  <2>2. CASE p = new
    <3>1. Len(new) \in Nat
      BY LenProperties DEF Places
    <3>2. n \in 0..Len(new) - 1 \/ n = Len(new)
      BY <2>2, <3>1
    <3> QED BY <2>2, <3>2, AtAll DEF WayIn
  <2> QED BY <2>1, <2>2
<1>4. \A p \in D : size[p] \in Nat
  BY DEF Sized
<1>5. ASSUME NEW c \in Places
      PROVE  SizeIn(E, grown, c) = SizeIn(D, size, c) + Holds1(c, new) /\ SizeIn(D, size, c) \in Nat
  <2>1. Heap!Under(c, new) <=> c = new \/ Heap!Above(c, new)
    BY DEF Heap!Under
  <2>2. CASE c = new
    <3>1. grown[c] = 1 /\ c \in E /\ c \notin D
      BY <2>2
    <3> QED BY <2>1, <2>2, <3>1 DEF SizeIn, Holds1
  <2>3. CASE c # new /\ c \in D
    <3>1. grown[c] = (IF Heap!Above(c, new) THEN size[c] + 1 ELSE size[c]) /\ c \in E
      BY <2>3
    <3> QED BY <1>4, <2>1, <2>3, <3>1 DEF SizeIn, Holds1
  <2>4. CASE c # new /\ c \notin D
    <3>1. c \notin E /\ ~Heap!Above(c, new)
      BY <1>2, <2>4
    <3> QED BY <2>1, <2>4, <3>1 DEF SizeIn, Holds1
  <2> QED BY <2>2, <2>3, <2>4
<1>6. \A p \in D : grown[p] = size[p] + Counts(p, new)
  <2> TAKE p \in D
  <2>1. p # new /\ p \in E
    OBVIOUS
  <2>2. grown[p] = IF Heap!Above(p, new) THEN size[p] + 1 ELSE size[p]
    BY <2>1
  <2> QED BY <1>4, <2>2 DEF Counts
<1>7. grown \in [E -> Nat]
  BY <1>4
<1>8. ASSUME NEW p \in E
      PROVE  grown[p] = 1 + SizeIn(E, grown, Heap!Child(p, "mLeft"))
                          + SizeIn(E, grown, Heap!Child(p, "mRight"))
  <2>1. PICK l, r : l = Heap!Child(p, "mLeft") /\ r = Heap!Child(p, "mRight")
    OBVIOUS
  <2>2. l \in Places /\ r \in Places /\ p \in Places
    BY <1>1, <2>1, SidesAre
  <2>3. /\ SizeIn(E, grown, l) = SizeIn(D, size, l) + Holds1(l, new) /\ SizeIn(D, size, l) \in Nat
        /\ SizeIn(E, grown, r) = SizeIn(D, size, r) + Holds1(r, new) /\ SizeIn(D, size, r) \in Nat
    BY <1>5, <2>2
  <2>4. Counts(p, new) = Holds1(l, new) + Holds1(r, new)
        /\ Holds1(l, new) \in Nat /\ Holds1(r, new) \in Nat
    BY <2>1, <2>2, OneSide DEF Holds1
  <2>5. CASE p \in D
    <3>1. size[p] = 1 + SizeIn(D, size, l) + SizeIn(D, size, r)
      BY <2>1, <2>5 DEF Sized
    <3>2. grown[p] = size[p] + Counts(p, new)
      BY <1>6, <2>5
    <3> QED BY <2>1, <2>3, <2>4, <3>1, <3>2
  <2>6. CASE p = new
    <3>1. l \notin D /\ r \notin D
      BY <2>1, <2>2, <2>6, ParentIn, SidesAre
    <3>2. Counts(p, new) = 0
      <4>1. ~Heap!Above(p, new)
        BY <2>2, <2>6, UnderIs, LenProperties DEF Places
      <4> QED BY <4>1 DEF Counts
    <3>3. SizeIn(D, size, l) = 0 /\ SizeIn(D, size, r) = 0
      BY <3>1 DEF SizeIn
    <3>4. grown[p] = 1
      BY <2>6
    <3>5. Holds1(l, new) = 0 /\ Holds1(r, new) = 0
      BY <2>4, <3>2
    <3>6. SizeIn(E, grown, l) = 0 /\ SizeIn(E, grown, r) = 0
      BY <2>3, <3>3, <3>5
    <3> QED BY <2>1, <3>4, <3>6
  <2> QED BY <2>5, <2>6
<1> QED BY <1>3, <1>7, <1>8 DEF Sized

LEMMA Cut ==
    ASSUME NEW D, NEW size, Shaped(D), Sized(D, size), NEW gone \in D,
           \A s \in Heap!Sides : Heap!Child(gone, s) \notin D,
           NEW E, E = D \ {gone}, NEW less,
           less = [p \in E |-> IF Heap!Above(p, gone) THEN size[p] - 1 ELSE size[p]]
    PROVE  Shaped(E) /\ Sized(E, less)
<1>1. D \in SUBSET Places /\ E \in SUBSET Places /\ gone \in Places
  BY DEF Shaped
<1>2. \A q \in Places : Heap!Above(q, gone) => q \in D
  BY <1>1, ShapedUp DEF Heap!Under
<1>3. \A q \in Places : Heap!Above(gone, q) => q \notin D
  <2> SUFFICES ASSUME NEW q \in Places, Heap!Above(gone, q), q \in D PROVE FALSE
    OBVIOUS
  <2>1. PICK k : k = Len(gone)
    OBVIOUS
  <2>2. k \in 0..Len(q) - 1 /\ gone = Heap!At(q, k) /\ k + 1 \in 0..Len(q)
    BY <1>1, <2>1, UnderIs, LenProperties DEF Places
  <2>3. q[k + 1] \in Heap!Sides /\ Heap!At(q, k + 1) = Heap!Child(gone, q[k + 1])
    BY <2>2, NextPlace
  <2>4. Heap!At(q, k + 1) \in D
    BY <2>2 DEF Shaped
  <2> QED BY <2>3, <2>4
<1>4. Shaped(E)
  <2> SUFFICES ASSUME NEW p \in E, NEW n \in 0..Len(p) PROVE Heap!At(p, n) \in E
    BY <1>1 DEF Shaped
  <2>1. Heap!At(p, n) \in D
    BY DEF Shaped
  <2>2. Heap!At(p, n) = gone => gone = p \/ Heap!Above(gone, p)
    <3>1. n = Len(p) \/ n \in 0..Len(p) - 1
      BY <1>1, LenProperties DEF Places
    <3> QED BY <1>1, <3>1, AtAll DEF Heap!Above
  <2> QED BY <1>1, <1>3, <2>1, <2>2
<1>5. \A p \in D : size[p] \in Nat /\ SizeIn(D, size, Heap!Child(p, "mLeft")) \in Nat
                   /\ SizeIn(D, size, Heap!Child(p, "mRight")) \in Nat
  BY DEF Sized, SizeIn
<1>6. \A p \in Places : SizeIn(D, size, p) \in Nat
  BY DEF Sized, SizeIn
<1>7. size[gone] = 1
  <2>1. Heap!Child(gone, "mLeft") \notin D /\ Heap!Child(gone, "mRight") \notin D
    BY <1>1, SidesAre
  <2> QED BY <2>1 DEF Sized, SizeIn
<1>8. ASSUME NEW c \in Places
      PROVE  SizeIn(E, less, c) = SizeIn(D, size, c) - Holds1(c, gone)
  <2>1. Heap!Under(c, gone) <=> c = gone \/ Heap!Above(c, gone)
    BY DEF Heap!Under
  <2>2. CASE c = gone
    <3>1. c \notin E
      BY <2>2
    <3> QED BY <1>7, <2>1, <2>2, <3>1 DEF SizeIn, Holds1
  <2>3. CASE c # gone /\ c \in D
    <3>1. less[c] = (IF Heap!Above(c, gone) THEN size[c] - 1 ELSE size[c]) /\ c \in E
      BY <2>3
    <3> QED BY <1>5, <2>1, <2>3, <3>1 DEF SizeIn, Holds1
  <2>4. CASE c \notin D
    <3>1. c \notin E /\ ~Heap!Above(c, gone) /\ c # gone
      BY <1>2, <2>4
    <3> QED BY <2>1, <2>4, <3>1 DEF SizeIn, Holds1
  <2> QED BY <2>2, <2>3, <2>4
<1>9. ASSUME NEW p \in E
      PROVE  /\ less[p] \in Nat
             /\ less[p] = 1 + SizeIn(E, less, Heap!Child(p, "mLeft"))
                            + SizeIn(E, less, Heap!Child(p, "mRight"))
  <2>1. PICK l, r : l = Heap!Child(p, "mLeft") /\ r = Heap!Child(p, "mRight")
    OBVIOUS
  <2>2. l \in Places /\ r \in Places /\ p \in Places /\ p \in D
    BY <1>1, <2>1, SidesAre
  <2>3. /\ SizeIn(E, less, l) = SizeIn(D, size, l) - Holds1(l, gone) /\ SizeIn(D, size, l) \in Nat
        /\ SizeIn(E, less, r) = SizeIn(D, size, r) - Holds1(r, gone) /\ SizeIn(D, size, r) \in Nat
    BY <1>6, <1>8, <2>2
  <2>4. Counts(p, gone) = Holds1(l, gone) + Holds1(r, gone)
        /\ Holds1(l, gone) \in Nat /\ Holds1(r, gone) \in Nat
    BY <1>1, <2>1, <2>2, OneSide DEF Holds1
  <2>5. size[p] = 1 + SizeIn(D, size, l) + SizeIn(D, size, r)
    BY <2>1, <2>2 DEF Sized
  <2>6. less[p] = size[p] - Counts(p, gone)
    <3>1. less[p] = IF Heap!Above(p, gone) THEN size[p] - 1 ELSE size[p]
      OBVIOUS
    <3> QED BY <1>5, <2>2, <3>1 DEF Counts
  <2>7. SizeIn(E, less, l) \in Nat /\ SizeIn(E, less, r) \in Nat
    <3>1. \A c \in Places : Heap!Under(c, gone) => c \in D
      BY <1>1, <1>2 DEF Heap!Under
    <3>2. \A c \in D : size[c] >= 1
      BY <1>5 DEF Sized
    <3>3. \A c \in Places : Holds1(c, gone) <= SizeIn(D, size, c)
      BY <1>6, <3>1, <3>2 DEF Holds1, SizeIn
    <3> QED BY <2>2, <2>3, <2>4, <3>3
  <2> QED BY <2>1, <2>3, <2>4, <2>5, <2>6, <2>7
<1>10. less \in [E -> Nat]
  BY <1>9
<1> QED BY <1>4, <1>9, <1>10 DEF Sized

-----------------------------------------------------------------------------
(* HeapSafe, as a fact about the tree D that holds the objects in.         *)
Sorted(D, data, ranks) ==
  \A p \in D : \A s \in Heap!Sides :
    Heap!Child(p, s) \in D => ranks[data[Heap!Child(p, s)]] <= ranks[data[p]]

Holding(D, data, in) ==
  /\ data \in [D -> Ranked]
  /\ \A d : d \in in <=> \E p \in D : data[p] = d
  /\ \A p, q \in D : data[p] = data[q] => p = q

HeapState(D, data, size, ranks, in) ==
  /\ Shaped(D) /\ Sized(D, size) /\ ranks \in [Ranked -> Ranks] /\ Sorted(D, data, ranks)
  /\ Holding(D, data, in) /\ IsFiniteSet(in) /\ SizeIn(D, size, <<>>) = Cardinality(in)

LEMMA RanksAre == ASSUME NEW ranks \in [Ranked -> Ranks] PROVE \A d \in Ranked : ranks[d] \in Int
BY RanksAreNumbers

LEMMA HeapCardinality ==
    \A S : Heap!Cardinality(S) = Cardinality(S) /\ (Heap!IsFiniteSet(S) <=> IsFiniteSet(S))
BY DEF Heap!Cardinality, Cardinality, Heap!IsFiniteSet, IsFiniteSet

LEMMA HeapSafeIs ==
    HeapSafe <=> /\ HeapState(DOMAIN mData, mData, mSize, rank, inside)
                 /\ returned \in Ranked \cup {NULL}
<1>1. ASSUME rank \in [Ranked -> Ranks], mData \in [DOMAIN mData -> Ranked]
      PROVE  Sorted(DOMAIN mData, mData, rank) <=>
               \A p \in DOMAIN mData : \A s \in Heap!Sides : Heap!Child(p, s) \in DOMAIN mData =>
                 ~Heap!outRanks(mData[Heap!Child(p, s)], mData[p])
  <2>1. \A p \in DOMAIN mData : rank[mData[p]] \in Int
    BY <1>1, RanksAre
  <2>2. \A p, q \in DOMAIN mData :
          rank[mData[q]] <= rank[mData[p]] <=> ~Heap!outRanks(mData[q], mData[p])
    BY <2>1 DEF Heap!outRanks
  <2> QED BY <2>2 DEF Sorted
<1>2. Sized(DOMAIN mData, mSize) <=>
        /\ mSize \in [DOMAIN mData -> Nat]
        /\ \A p \in DOMAIN mData : mSize[p] = 1 + Heap!SizeOf(Heap!Child(p, "mLeft"))
                                                + Heap!SizeOf(Heap!Child(p, "mRight"))
  BY DEF Sized, SizeIn, Heap!SizeOf, Heap!nodes
<1>3. Shaped(DOMAIN mData) <=>
        /\ DOMAIN mData \subseteq Seq(Heap!Sides)
        /\ \A p \in DOMAIN mData : \A n \in 0..Len(p) : Heap!At(p, n) \in DOMAIN mData
  BY DEF Shaped, Places
<1>4. Heap!checkNodes <=>
        /\ \A p \in DOMAIN mData : mSize[p] = 1 + Heap!SizeOf(Heap!Child(p, "mLeft"))
                                                + Heap!SizeOf(Heap!Child(p, "mRight"))
        /\ \A p \in DOMAIN mData : \A s \in Heap!Sides : Heap!Child(p, s) \in DOMAIN mData =>
             ~Heap!outRanks(mData[Heap!Child(p, s)], mData[p])
  BY DEF Heap!checkNodes, Heap!nodes
<1>5. mData \in [DOMAIN mData -> Ranked] =>
        (Holding(DOMAIN mData, mData, inside) <=>
           /\ {mData[p] : p \in DOMAIN mData} = inside /\ inside \subseteq Ranked
           /\ \A p, q \in DOMAIN mData : mData[p] = mData[q] => p = q)
  BY DEF Holding
<1>6. Heap!SizeOf(<<>>) = SizeIn(DOMAIN mData, mSize, <<>>)
  BY DEF SizeIn, Heap!SizeOf, Heap!nodes
<1>7. Heap!TypeOK <=>
        /\ Shaped(DOMAIN mData)
        /\ mData \in [DOMAIN mData -> Ranked] /\ mSize \in [DOMAIN mData -> Nat]
        /\ rank \in [Ranked -> Ranks] /\ returned \in Ranked \cup {NULL}
        /\ inside \subseteq Ranked /\ IsFiniteSet(inside)
  BY <1>3, HeapCardinality DEF Heap!TypeOK, Heap!nodes
<1>8. Heap!NothingLost <=>
        /\ {mData[p] : p \in DOMAIN mData} = inside
        /\ \A p, q \in DOMAIN mData : mData[p] = mData[q] => p = q
        /\ SizeIn(DOMAIN mData, mSize, <<>>) = Cardinality(inside)
  BY <1>6, HeapCardinality DEF Heap!NothingLost, Heap!nodes
<1>9. Holding(DOMAIN mData, mData, inside) => mData \in [DOMAIN mData -> Ranked]
  BY DEF Holding
<1>10. HeapSafe <=> Heap!TypeOK /\ Heap!checkNodes /\ Heap!NothingLost
  BY DEF HeapSafe, Heap!WellFormed
<1>11. HeapState(DOMAIN mData, mData, mSize, rank, inside) <=>
         /\ Shaped(DOMAIN mData) /\ Sized(DOMAIN mData, mSize) /\ rank \in [Ranked -> Ranks]
         /\ Sorted(DOMAIN mData, mData, rank)
         /\ Holding(DOMAIN mData, mData, inside)
         /\ IsFiniteSet(inside) /\ SizeIn(DOMAIN mData, mSize, <<>>) = Cardinality(inside)
  BY DEF HeapState
<1> QED BY <1>1, <1>2, <1>4, <1>5, <1>7, <1>8, <1>9, <1>10, <1>11

(* No object ranks higher than those above it.                             *)
LEMMA HighestAbove ==
    ASSUME NEW D, NEW data \in [D -> Ranked], NEW ranks \in [Ranked -> Ranks],
           Shaped(D), Sorted(D, data, ranks), NEW p \in D, NEW n \in 0..Len(p)
    PROVE  Heap!At(p, n) \in D /\ ranks[data[p]] <= ranks[data[Heap!At(p, n)]]
<1>1. PICK len : len = Len(p)
  OBVIOUS
<1>2. len \in Nat /\ p \in Places
  BY <1>1, LenProperties DEF Places, Shaped
<1>3. \A q \in D : ranks[data[q]] \in Int
  BY RanksAre
<1>4. \A m \in 0..len : Heap!At(p, m) \in D
  BY <1>1 DEF Shaped
<1> DEFINE T == {k \in 0..len : ~(ranks[data[p]] <= ranks[data[Heap!At(p, len - k)]])}
<1>5. ASSUME T # {} PROVE FALSE
  <2>1. PICK k \in T : \A j \in T : k <= j
    <3>1. T \in SUBSET Nat
      BY <1>2
    <3> HIDE DEF T
    <3> QED BY <1>5, <3>1, LeastOf
  <2>2. k # 0
    <3>1. Heap!At(p, len) = p /\ len - 0 = len
      BY <1>1, <1>2, AtAll
    <3> QED BY <1>3, <2>1, <3>1
  <2>3. k - 1 \in 0..len /\ k - 1 \notin T
    <3>1. k \in 0..len
      OBVIOUS
    <3>2. k - 1 \in 0..len /\ ~(k <= k - 1)
      BY <1>2, <2>2, <3>1
    <3> HIDE DEF T
    <3> QED BY <2>1, <3>2
  <2>4. PICK m : m = len - k
    OBVIOUS
  <2>5. m \in 0..len - 1 /\ len - (k - 1) = m + 1 /\ m \in 0..len /\ m + 1 \in 0..len
    BY <1>2, <2>1, <2>2, <2>4
  <2>6. PICK a, b : a = Heap!At(p, m) /\ b = Heap!At(p, m + 1)
    OBVIOUS
  <2>7. a \in D /\ b \in D
    BY <1>4, <2>5, <2>6
  <2>8. ranks[data[p]] <= ranks[data[b]]
    BY <2>3, <2>5, <2>6
  <2>9. ranks[data[b]] <= ranks[data[a]]
    <3>1. p[m + 1] \in Heap!Sides /\ b = Heap!Child(a, p[m + 1])
      BY <1>1, <1>2, <2>5, <2>6, NextPlace
    <3> QED BY <2>7, <3>1 DEF Sorted
  <2>10. ~(ranks[data[p]] <= ranks[data[a]])
    BY <2>1, <2>4, <2>6
  <2>11. ranks[data[p]] \in Int /\ ranks[data[a]] \in Int /\ ranks[data[b]] \in Int
    BY <1>3, <2>7
  <2> QED BY <2>8, <2>9, <2>10, <2>11
<1>6. len - n \in 0..len /\ len - (len - n) = n
  BY <1>1, <1>2
<1>7. ranks[data[p]] <= ranks[data[Heap!At(p, n)]]
  <2>1. PICK k : k = len - n
    OBVIOUS
  <2>2. k \notin T
    <3> HIDE DEF T
    <3> QED BY <1>5
  <2>3. ranks[data[p]] <= ranks[data[Heap!At(p, len - k)]]
    BY <1>6, <2>1, <2>2
  <2> QED BY <1>6, <2>1, <2>3
<1> QED BY <1>1, <1>4, <1>7

(* A child has fewer nodes than its parent.                                *)
LEMMA Fewer ==
    ASSUME NEW D, NEW size, Shaped(D), Sized(D, size), NEW p \in D, NEW s \in Heap!Sides,
           Heap!Child(p, s) \in D
    PROVE  size[p] \in Nat /\ size[Heap!Child(p, s)] \in Nat /\ size[Heap!Child(p, s)] < size[p]
<1>1. p \in Places
  BY DEF Shaped
<1>2. PICK l, r : l = Heap!Child(p, "mLeft") /\ r = Heap!Child(p, "mRight")
  OBVIOUS
<1>3. \A c : SizeIn(D, size, c) \in Nat
  BY DEF Sized, SizeIn
<1>4. size[p] \in Nat /\ size[p] = 1 + SizeIn(D, size, l) + SizeIn(D, size, r)
  BY <1>2 DEF Sized
<1>5. SizeIn(D, size, l) < size[p] /\ SizeIn(D, size, r) < size[p]
  BY <1>3, <1>4
<1>6. s = "mLeft" \/ s = "mRight"
  BY <1>1, SidesAre
<1>7. PICK c : c = Heap!Child(p, s)
  OBVIOUS
<1>8. c = l \/ c = r
  BY <1>2, <1>6, <1>7
<1>9. SizeIn(D, size, c) < size[p] /\ size[c] = SizeIn(D, size, c)
  BY <1>5, <1>7, <1>8 DEF SizeIn
<1> QED BY <1>3, <1>4, <1>7, <1>9

(* The way that push goes ends where the tree has no node.                 *)
GrowsTo(p) == \A n \in 1..Len(p) : p[n] = Heap!SideToGrow(Heap!At(p, n - 1))

LEMMA NewNodeIs ==
    ASSUME HeapSafe
    PROVE  /\ Heap!NewNode \in Places /\ Heap!NewNode \notin DOMAIN mData
           /\ \A n \in 0..Len(Heap!NewNode) - 1 : Heap!At(Heap!NewNode, n) \in DOMAIN mData
<1>1. PICK D : D = DOMAIN mData
  OBVIOUS
<1>2. Shaped(D) /\ Sized(D, mSize) /\ D \subseteq Places
  BY <1>1, HeapSafeIs DEF HeapState, Shaped
<1>3. Heap!Free = ({<<>>} \cup {Heap!Child(p, s) : p \in D, s \in Heap!Sides}) \ D
  BY <1>1 DEF Heap!Free, Heap!nodes
<1>4. \E p \in Heap!Free : GrowsTo(p)
  <2>0. GrowsTo(<<>>)
    BY TopIs DEF GrowsTo
  <2>1. CASE D = {}
    BY <1>3, <2>0, <2>1
  <2>2. CASE D # {}
    <3>1. <<>> \in D
      <4>1. PICK p \in D : TRUE
        BY <2>2
      <4>2. Heap!At(p, 0) = <<>> /\ 0 \in 0..Len(p)
        BY <1>2, AtAll, LenProperties DEF Places
      <4> QED BY <1>2, <4>1, <4>2 DEF Shaped
    <3> DEFINE T == {k \in Nat : \E p \in D : GrowsTo(p) /\ mSize[p] = k}
    <3>2. mSize[<<>>] \in T
      BY <1>2, <2>0, <3>1 DEF Sized
    <3>3. PICK k \in T : \A j \in T : k <= j
      <4>1. T \in SUBSET Nat /\ T # {}
        BY <3>2
      <4> HIDE DEF T
      <4> QED BY <4>1, LeastOf
    <3>4. PICK p \in D : GrowsTo(p) /\ mSize[p] = k
      BY <3>3
    <3>5. PICK s, c, len : s = Heap!SideToGrow(p) /\ c = Heap!Child(p, s) /\ len = Len(p)
      OBVIOUS
    <3>6. s \in Heap!Sides /\ p \in Places
      BY <1>2, <3>5 DEF Heap!SideToGrow, Heap!Sides
    <3>7. /\ len \in Nat /\ c \in Places /\ Len(c) = len + 1 /\ c[len + 1] = s
          /\ \A i \in 1..len : c[i] = p[i]
          /\ \A n \in 0..len : Heap!At(c, n) = Heap!At(p, n)
          /\ Heap!At(c, len) = p
      BY <3>5, <3>6, ChildIs
    <3>8. GrowsTo(c)
      <4> SUFFICES ASSUME NEW n \in 1..len + 1 PROVE c[n] = Heap!SideToGrow(Heap!At(c, n - 1))
        BY <3>7 DEF GrowsTo
      <4>1. CASE n = len + 1
        <5>1. n - 1 = len
          BY <3>7, <4>1
        <5> QED BY <3>5, <3>7, <4>1, <5>1
      <4>2. CASE n # len + 1
        <5>1. n \in 1..len /\ n - 1 \in 0..len
          BY <3>7, <4>2
        <5>2. c[n] = p[n] /\ Heap!At(c, n - 1) = Heap!At(p, n - 1)
          BY <3>7, <5>1
        <5>3. p[n] = Heap!SideToGrow(Heap!At(p, n - 1))
          BY <3>4, <3>5, <5>1 DEF GrowsTo
        <5> QED BY <5>2, <5>3
      <4> QED BY <4>1, <4>2
    <3>9. c \notin D
      <4> SUFFICES ASSUME c \in D PROVE FALSE
        OBVIOUS
      <4>1. mSize[c] \in Nat /\ mSize[p] \in Nat /\ mSize[c] < mSize[p]
        BY <1>2, <3>5, <3>6, Fewer
      <4>2. mSize[c] \in T
        BY <3>8, <4>1
      <4>3. mSize[p] <= mSize[c]
        BY <3>3, <3>4, <4>2
      <4> QED BY <4>1, <4>3
    <3>10. c \in Heap!Free
      BY <1>3, <3>5, <3>6, <3>9
    <3> QED BY <3>8, <3>10
  <2> QED BY <2>1, <2>2
<1>5. PICK new : new = Heap!NewNode
  OBVIOUS
<1>6. new \in Heap!Free
  <2>1. Heap!NewNode = CHOOSE p \in Heap!Free : GrowsTo(p)
    BY DEF Heap!NewNode, GrowsTo
  <2> QED BY <1>4, <1>5, <2>1
<1>7. CASE new = <<>>
  <2>1. \A n \in 0..Len(new) - 1 : FALSE
    BY <1>7, TopIs
  <2> QED BY <1>1, <1>3, <1>5, <1>6, <1>7, <2>1, TopIs
<1>8. CASE new # <<>>
  <2>1. PICK q \in D, s \in Heap!Sides : new = Heap!Child(q, s)
    BY <1>3, <1>6, <1>8
  <2>2. q \in Places
    BY <1>2
  <2>3. /\ Len(q) \in Nat /\ new \in Places /\ Len(new) = Len(q) + 1
        /\ \A n \in 0..Len(q) : Heap!At(new, n) = Heap!At(q, n)
    BY <2>1, <2>2, ChildIs
  <2>4. \A n \in 0..Len(new) - 1 : n \in 0..Len(q)
    BY <2>3
  <2>5. \A n \in 0..Len(q) : Heap!At(q, n) \in D
    BY <1>2 DEF Shaped
  <2>6. \A n \in 0..Len(new) - 1 : Heap!At(new, n) \in D
    BY <2>3, <2>4, <2>5
  <2> QED BY <1>1, <1>3, <1>5, <1>6, <2>3, <2>6
<1> QED BY <1>7, <1>8

(* The way that pop goes ends at a leaf.                                   *)
PopsTo(top, p) ==
  Heap!Under(top, p) /\ \A n \in Len(top) + 1..Len(p) : p[n] = Heap!SideToPop(Heap!At(p, n - 1))

LEMMA CutOffIs ==
    ASSUME HeapSafe, NEW top \in DOMAIN mData
    PROVE  /\ Heap!CutOff(top) \in DOMAIN mData /\ PopsTo(top, Heap!CutOff(top))
           /\ \A s \in Heap!Sides : Heap!Child(Heap!CutOff(top), s) \notin DOMAIN mData
<1>1. PICK D : D = DOMAIN mData
  OBVIOUS
<1>2. Shaped(D) /\ Sized(D, mSize) /\ D \subseteq Places /\ top \in Places /\ top \in D
  BY <1>1, HeapSafeIs DEF HeapState, Shaped
<1>3. Len(top) \in Nat
  BY <1>2, LenProperties DEF Places
<1> DEFINE T == {k \in Nat : \E p \in D : PopsTo(top, p) /\ mSize[p] = k}
<1>4. mSize[top] \in T
  <2>1. \A n \in Len(top) + 1..Len(top) : FALSE
    BY <1>3
  <2>2. PopsTo(top, top)
    BY <2>1 DEF PopsTo, Heap!Under
  <2> QED BY <1>2, <2>2 DEF Sized
<1>5. PICK k \in T : \A j \in T : k <= j
  <2>1. T \in SUBSET Nat /\ T # {}
    BY <1>4
  <2> HIDE DEF T
  <2> QED BY <2>1, LeastOf
<1>6. PICK p \in D : PopsTo(top, p) /\ mSize[p] = k
  BY <1>5
<1>7. \A s \in Heap!Sides : Heap!Child(p, s) \notin D
  <2> SUFFICES ASSUME NEW r \in Heap!Sides, Heap!Child(p, r) \in D PROVE FALSE
    OBVIOUS
  <2>1. PICK s, c, len : s = Heap!SideToPop(p) /\ c = Heap!Child(p, s) /\ len = Len(p)
    OBVIOUS
  <2>2. p \in Places
    BY <1>2
  <2>3. s \in Heap!Sides /\ c \in D
    <3>1. r = "mLeft" \/ r = "mRight"
      BY <2>2, SidesAre
    <3>2. s \in Heap!Sides
      BY <2>1 DEF Heap!SideToPop, Heap!Sides
    <3>3. Heap!Child(p, "mLeft") \notin D => s = "mRight" /\ Heap!Child(p, "mRight") \in D
      BY <1>1, <2>1, <3>1 DEF Heap!SideToPop, Heap!nodes
    <3>4. Heap!Child(p, "mLeft") \in D /\ Heap!Child(p, "mRight") \notin D => s = "mLeft"
      BY <1>1, <2>1 DEF Heap!SideToPop, Heap!nodes
    <3>5. s = "mLeft" \/ s = "mRight"
      BY <2>2, <3>2, SidesAre
    <3> QED BY <2>1, <3>2, <3>3, <3>4, <3>5
  <2>4. /\ len \in Nat /\ c \in Places /\ Len(c) = len + 1 /\ c[len + 1] = s
        /\ \A i \in 1..len : c[i] = p[i]
        /\ \A n \in 0..len : Heap!At(c, n) = Heap!At(p, n)
        /\ Heap!At(c, len) = p
    BY <2>1, <2>2, <2>3, ChildIs
  <2>5. Len(top) <= len /\ top = Heap!At(p, Len(top)) /\ Len(top) \in 0..len
    BY <1>2, <1>3, <1>6, <2>1, <2>2, <2>4, UnderIs DEF PopsTo
  <2>6. Heap!Under(top, c)
    <3>1. Len(top) <= Len(c) /\ top = Heap!At(c, Len(top))
      BY <1>3, <2>4, <2>5
    <3> QED BY <1>2, <2>4, <3>1, UnderIs
  <2>7. PopsTo(top, c)
    <3> SUFFICES ASSUME NEW n \in Len(top) + 1..len + 1
                 PROVE  c[n] = Heap!SideToPop(Heap!At(c, n - 1))
      BY <2>4, <2>6 DEF PopsTo
    <3>1. CASE n = len + 1
      <4>1. n - 1 = len
        BY <2>4, <3>1
      <4> QED BY <2>1, <2>4, <3>1, <4>1
    <3>2. CASE n # len + 1
      <4>1. n \in Len(top) + 1..len /\ n \in 1..len /\ n - 1 \in 0..len
        BY <1>3, <2>4, <3>2
      <4>2. c[n] = p[n] /\ Heap!At(c, n - 1) = Heap!At(p, n - 1)
        BY <2>4, <4>1
      <4>3. p[n] = Heap!SideToPop(Heap!At(p, n - 1))
        BY <1>6, <2>1, <4>1 DEF PopsTo
      <4> QED BY <4>2, <4>3
    <3> QED BY <3>1, <3>2
  <2>8. mSize[c] \in Nat /\ mSize[p] \in Nat /\ mSize[c] < mSize[p]
    BY <1>2, <2>1, <2>3, Fewer
  <2>9. mSize[c] \in T
    BY <2>3, <2>7, <2>8
  <2>10. mSize[p] <= mSize[c]
    BY <1>5, <1>6, <2>9
  <2> QED BY <2>8, <2>10
<1>8. PICK gone : gone = Heap!CutOff(top)
  OBVIOUS
<1>9. gone = CHOOSE q \in D : PopsTo(top, q) /\ \A s \in Heap!Sides : Heap!Child(q, s) \notin D
  <2>1. \A q : PopsTo(top, q) /\ (\A s \in Heap!Sides : Heap!Child(q, s) \notin D) <=>
          /\ Heap!Under(top, q) /\ \A s \in Heap!Sides : Heap!Child(q, s) \notin D
          /\ \A n \in Len(top) + 1..Len(q) : q[n] = Heap!SideToPop(Heap!At(q, n - 1))
    BY DEF PopsTo
  <2> QED BY <1>1, <1>8, <2>1 DEF Heap!CutOff, Heap!nodes
<1>10. gone \in D /\ PopsTo(top, gone) /\ \A s \in Heap!Sides : Heap!Child(gone, s) \notin D
  BY <1>6, <1>7, <1>9
<1> QED BY <1>1, <1>8, <1>10

-----------------------------------------------------------------------------
(* The objects that push carries down.  Of the one that comes to the n-th  *)
(* node and of the node's own, one stays and the other goes on: in the end *)
(* the way holds the old objects and the new one, each of them once.       *)
Passed(n, old, d, carried, stays) ==
  /\ carried[n] = d \/ \E j \in 0..n - 1 : carried[n] = old[j]
  /\ carried[n] = d \/ \E i \in 0..n - 1 : stays[i] = d
  /\ \A i \in 0..n - 1 : carried[n] # stays[i]
  /\ \A i \in 0..n - 1 : stays[i] = d \/ \E j \in 0..n - 1 : stays[i] = old[j]
  /\ \A j \in 0..n - 1 : carried[n] = old[j] \/ \E i \in 0..n - 1 : stays[i] = old[j]
  /\ \A i, j \in 0..n - 1 : stays[i] = stays[j] => i = j

LEMMA PassedOn ==
    ASSUME NEW n \in Nat, NEW old, NEW d, NEW carried, NEW stays,
           \A i, j \in 0..n : old[i] = old[j] => i = j, \A i \in 0..n : old[i] # d,
           \/ stays[n] = carried[n] /\ carried[n + 1] = old[n]
           \/ stays[n] = old[n] /\ carried[n + 1] = carried[n],
           Passed(n, old, d, carried, stays)
    PROVE  Passed(n + 1, old, d, carried, stays)
<1>1. PICK K, M : K = 0..n - 1 /\ M = 0..n + 1 - 1
  OBVIOUS
<1>2. M = K \cup {n} /\ n \notin K /\ n \in M /\ M = 0..n
  BY <1>1
<1>3. /\ \A i, j \in M : old[i] = old[j] => i = j
      /\ \A i \in M : old[i] # d
  BY <1>2
<1>4. PICK c, e, w, o : c = carried[n] /\ e = carried[n + 1] /\ w = stays[n] /\ o = old[n]
  OBVIOUS
<1>5. (w = c /\ e = o) \/ (w = o /\ e = c)
  BY <1>4
<1>6. /\ c = d \/ \E j \in K : c = old[j]
      /\ c = d \/ \E i \in K : stays[i] = d
      /\ \A i \in K : c # stays[i]
      /\ \A i \in K : stays[i] = d \/ \E j \in K : stays[i] = old[j]
      /\ \A j \in K : c = old[j] \/ \E i \in K : stays[i] = old[j]
      /\ \A i, j \in K : stays[i] = stays[j] => i = j
  BY <1>1, <1>4 DEF Passed
<1>7. o # d /\ c # o /\ \A i \in K : stays[i] # o
  BY <1>2, <1>3, <1>4, <1>6
<1>8. e = d \/ \E j \in M : e = old[j]
  BY <1>2, <1>4, <1>5, <1>6
<1>9. e = d \/ \E i \in M : stays[i] = d
  BY <1>2, <1>4, <1>5, <1>6
<1>10. \A i \in M : e # stays[i]
  BY <1>2, <1>4, <1>5, <1>6, <1>7
<1>11. \A i \in M : stays[i] = d \/ \E j \in M : stays[i] = old[j]
  BY <1>2, <1>4, <1>5, <1>6
<1>12. \A j \in M : e = old[j] \/ \E i \in M : stays[i] = old[j]
  BY <1>2, <1>4, <1>5, <1>6
<1>13. \A i, j \in M : stays[i] = stays[j] => i = j
  BY <1>2, <1>4, <1>5, <1>6, <1>7
<1> QED BY <1>1, <1>4, <1>8, <1>9, <1>10, <1>11, <1>12, <1>13 DEF Passed

LEMMA PassedDown ==
    ASSUME NEW len \in Nat, NEW old, NEW d, NEW carried, NEW stays,
           \A i, j \in 0..len - 1 : old[i] = old[j] => i = j, \A i \in 0..len - 1 : old[i] # d,
           carried[0] = d,
           \A n \in 0..len - 1 : \/ stays[n] = carried[n] /\ carried[n + 1] = old[n]
                                 \/ stays[n] = old[n] /\ carried[n + 1] = carried[n]
    PROVE  \A n \in 0..len : Passed(n, old, d, carried, stays)
<1> DEFINE T == {n \in 0..len : ~Passed(n, old, d, carried, stays)}
<1> SUFFICES ASSUME T # {} PROVE FALSE
  OBVIOUS
<1>1. T \in SUBSET Nat
  OBVIOUS
<1>2. PICK n \in T : \A j \in T : n <= j
  <2> HIDE DEF T
  <2> QED BY <1>1, LeastOf
<1>3. n \in 0..len /\ ~Passed(n, old, d, carried, stays)
  OBVIOUS
<1>4. n # 0
  <2>1. 0..0 - 1 = {}
    OBVIOUS
  <2>2. Passed(0, old, d, carried, stays)
    BY <2>1 DEF Passed
  <2> QED BY <1>3, <2>2
<1>5. PICK m : m = n - 1
  OBVIOUS
<1>6. m \in Nat /\ m \in 0..len /\ m \in 0..len - 1 /\ m + 1 = n /\ ~(n <= m)
      /\ \A i \in 0..m : i \in 0..len - 1
  BY <1>3, <1>4, <1>5
<1>7. m \notin T
  <2> HIDE DEF T
  <2> QED BY <1>2, <1>6
<1>8. Passed(m, old, d, carried, stays)
  BY <1>6, <1>7
<1>9. Passed(m + 1, old, d, carried, stays)
  <2>1. /\ \A i, j \in 0..m : old[i] = old[j] => i = j
        /\ \A i \in 0..m : old[i] # d
        /\ \/ stays[m] = carried[m] /\ carried[m + 1] = old[m]
           \/ stays[m] = old[m] /\ carried[m + 1] = carried[m]
    BY <1>6
  <2> QED BY <1>6, <1>8, <2>1, PassedOn
<1> QED BY <1>3, <1>6, <1>9

Carries(data, new, d, len, f) ==
  f = [n \in 0..len |-> IF n = 0 THEN d ELSE Heap!Lower(f[n - 1], data[Heap!At(new, n - 1)])]

LEMMA CarriedExists ==
    ASSUME NEW data, NEW new, NEW d, NEW len \in Nat
    PROVE  \E f : Carries(data, new, d, len, f)
<1> DEFINE T == {n \in Nat : ~\E f : Carries(data, new, d, n, f)}
<1>1. ASSUME T # {} PROVE FALSE
  <2>1. PICK n \in T : \A j \in T : n <= j
    BY <1>1, LeastOf
  <2>2. n \in Nat /\ ~\E f : Carries(data, new, d, n, f)
    BY <2>1
  <2>3. n # 0
    <3>1. Carries(data, new, d, 0, [k \in 0..0 |-> d])
      BY DEF Carries
    <3> QED BY <2>2, <3>1
  <2>4. n - 1 \in Nat /\ n - 1 \notin T
    BY <2>1, <2>2, <2>3
  <2>5. PICK f : Carries(data, new, d, n - 1, f)
    BY <2>4
  <2> DEFINE StepOf(g, k) == IF k = 0 THEN d ELSE Heap!Lower(g[k - 1], data[Heap!At(new, k - 1)])
             h == [k \in 0..n |-> IF k = n THEN StepOf(f, n) ELSE f[k]]
  <2>6. \A k \in 0..(n - 1) : h[k] = f[k]
    BY <2>2, <2>3
  <2>7. ASSUME NEW k \in 0..n PROVE h[k] = StepOf(h, k)
    <3>1. CASE k = n
      <4>1. h[n - 1] = f[n - 1] /\ h[n] = StepOf(f, n)
        BY <2>2, <2>3, <2>6
      <4> QED BY <3>1, <4>1
    <3>2. CASE k # n
      <4>1. k \in 0..(n - 1) /\ (k # 0 => k - 1 \in 0..(n - 1))
        BY <2>2, <3>2
      <4>2. f[k] = StepOf(f, k)
        BY <2>5, <4>1 DEF Carries
      <4>3. k # 0 => h[k - 1] = f[k - 1]
        BY <2>6, <4>1
      <4> QED BY <2>6, <4>1, <4>2, <4>3
    <3> QED BY <3>1, <3>2
  <2>8. Carries(data, new, d, n, h)
    <3>1. h = [k \in 0..n |-> h[k]]
      OBVIOUS
    <3>2. h = [k \in 0..n |-> StepOf(h, k)]
      <4> HIDE DEF h, StepOf
      <4> QED BY <2>7, <3>1
    <3> QED BY <3>2 DEF Carries
  <2> QED BY <2>2, <2>8
<1> QED BY <1>1

LEMMA CarriedIs ==
    ASSUME NEW new, NEW d, Len(new) \in Nat
    PROVE  /\ Heap!Carried(new, d)[0] = d
           /\ \A n \in 0..Len(new) - 1 :
                Heap!Carried(new, d)[n + 1] = Heap!Lower(Heap!Carried(new, d)[n], mData[Heap!At(new, n)])
<1> DEFINE Is(f) == f = [n \in 0..Len(new) |->
                 IF n = 0 THEN d ELSE Heap!Lower(f[n - 1], mData[Heap!At(new, n - 1)])]
<1>1. \A f : Is(f) <=> Carries(mData, new, d, Len(new), f)
  BY DEF Carries
<1>2. PICK f : f = CHOOSE g : Is(g)
  BY SMTT(30)
<1>3. Is(f)
  BY <1>1, <1>2, CarriedExists, ZenonT(60)
<1>4. Heap!Carried(new, d) = f
  BY <1>2 DEF Heap!Carried
<1>5. f[0] = d
  BY <1>3
<1>6. ASSUME NEW n \in 0..Len(new) - 1
      PROVE  f[n + 1] = Heap!Lower(f[n], mData[Heap!At(new, n)])
  <2>1. n + 1 \in 0..Len(new) /\ n + 1 # 0 /\ n + 1 - 1 = n
    OBVIOUS
  <2> QED BY <1>3, <2>1
<1> QED BY <1>4, <1>5, <1>6

LEMMA HigherIs ==
    ASSUME rank \in [Ranked -> Ranks], NEW d \in Ranked, NEW e \in Ranked
    PROVE  /\ \/ Heap!Higher(d, e) = d /\ Heap!Lower(d, e) = e
              \/ Heap!Higher(d, e) = e /\ Heap!Lower(d, e) = d
           /\ rank[d] <= rank[Heap!Higher(d, e)] /\ rank[e] <= rank[Heap!Higher(d, e)]
           /\ Heap!Higher(d, e) \in Ranked /\ Heap!Lower(d, e) \in Ranked
<1>1. rank[d] \in Int /\ rank[e] \in Int
  BY RanksAre
<1> QED BY <1>1 DEF Heap!Higher, Heap!Lower, Heap!outRanks

(* A place on the way to new and what is left of it.                       *)
LEMMA WayTo ==
    ASSUME NEW new \in Places, NEW p \in Places
    PROVE  /\ Len(new) \in Nat /\ Len(p) \in Nat
           /\ Heap!Above(p, new) => Len(p) \in 0..Len(new) - 1 /\ Heap!At(new, Len(p)) = p
           /\ \A n \in 0..Len(new) - 1 : /\ Heap!At(new, n) \in Places /\ Len(Heap!At(new, n)) = n
                                         /\ Heap!Above(Heap!At(new, n), new)
           /\ ~Heap!Above(new, new)
<1>1. Len(new) \in Nat /\ Len(p) \in Nat
  BY LenProperties DEF Places
<1>2. Heap!Above(p, new) => Len(p) \in 0..Len(new) - 1 /\ Heap!At(new, Len(p)) = p
  BY <1>1, UnderIs
<1>3. ASSUME NEW n \in 0..Len(new) - 1
      PROVE  /\ Heap!At(new, n) \in Places /\ Len(Heap!At(new, n)) = n
             /\ Heap!Above(Heap!At(new, n), new)
  <2>1. n \in 0..Len(new)
    BY <1>1
  <2> QED BY <2>1, AtIs DEF Heap!Above
<1>4. ~Heap!Above(new, new)
  BY <1>1, UnderIs
<1> QED BY <1>1, <1>2, <1>3, <1>4

(* What comes to each node on the way to new.                              *)
CarriedDown(data, d, new, carried) ==
  /\ carried[0] = d
  /\ \A n \in 0..Len(new) - 1 : carried[n + 1] = Heap!Lower(carried[n], data[Heap!At(new, n)])

(* What push moves: data is that of the tree D, moved that of D with new.  *)
PushMoves(D, data, d, new, carried, moved) ==
  moved = [p \in D \cup {new} |->
             IF p = new THEN carried[Len(p)]
             ELSE IF Heap!Above(p, new) THEN Heap!Higher(carried[Len(p)], data[p]) ELSE data[p]]

Moved(D, data, new, carried, moved) ==
  /\ \A n \in 0..Len(new) : carried[n] \in Ranked
  /\ moved \in [D \cup {new} -> Ranked]
  /\ moved[new] = carried[Len(new)]
  /\ \A p \in D : Heap!Above(p, new) =>
       /\ moved[p] = Heap!Higher(carried[Len(p)], data[p])
       /\ rank[data[p]] <= rank[moved[p]]
       /\ rank[carried[Len(p) + 1]] <= rank[moved[p]]
  /\ \A p \in D : ~Heap!Above(p, new) => moved[p] = data[p]

LEMMA MovesOnWay ==
    ASSUME NEW D, NEW data \in [D -> Ranked], rank \in [Ranked -> Ranks], NEW d \in Ranked,
           Shaped(D), NEW new \in Places, new \notin D, WayIn(D, new),
           NEW carried, CarriedDown(data, d, new, carried),
           NEW moved, PushMoves(D, data, d, new, carried, moved)
    PROVE  Moved(D, data, new, carried, moved)
<1>1. PICK len : len = Len(new)
  OBVIOUS
<1>2. /\ len \in Nat /\ carried[0] = d
      /\ \A n \in 0..len - 1 : carried[n + 1] = Heap!Lower(carried[n], data[Heap!At(new, n)])
      /\ \A n \in 0..len - 1 : Heap!At(new, n) \in D
  BY <1>1, WayTo DEF CarriedDown, WayIn
<1>3. \A n \in 0..len - 1 : data[Heap!At(new, n)] \in Ranked
  BY <1>2
<1>4. \A n \in 0..len - 1 : carried[n] \in Ranked => carried[n + 1] \in Ranked
  BY <1>2, <1>3, HigherIs
<1>5. \A n \in 0..len : carried[n] \in Ranked
  <2> DEFINE T == {n \in 0..len : carried[n] \notin Ranked}
  <2>1. ASSUME T # {} PROVE FALSE
    <3>1. T \in SUBSET Nat
      OBVIOUS
    <3>2. PICK n \in T : \A j \in T : n <= j
      <4> HIDE DEF T
      <4> QED BY <2>1, <3>1, LeastOf
    <3>3. n \in 0..len /\ carried[n] \notin Ranked /\ n # 0
      <4>1. n \in 0..len /\ carried[n] \notin Ranked
        OBVIOUS
      <4> QED BY <1>2, <4>1
    <3>4. n - 1 \in 0..len /\ n - 1 \in 0..len - 1 /\ ~(n <= n - 1) /\ n - 1 + 1 = n
      BY <1>2, <3>3
    <3>5. n - 1 \notin T
      <4> HIDE DEF T
      <4> QED BY <3>2, <3>4
    <3>6. carried[n - 1] \in Ranked
      BY <3>4, <3>5
    <3>7. carried[n - 1 + 1] \in Ranked
      BY <1>4, <3>4, <3>6
    <3> QED BY <3>3, <3>4, <3>7
  <2> QED BY <2>1
<1>6. \A p \in D : p \in Places /\ p # new
  BY DEF Shaped
<1>7. /\ moved[new] = carried[len]
      /\ \A p \in D : Heap!Above(p, new) => moved[p] = Heap!Higher(carried[Len(p)], data[p])
      /\ \A p \in D : ~Heap!Above(p, new) => moved[p] = data[p]
  BY <1>1, <1>6 DEF PushMoves
<1>8. ASSUME NEW p \in D, Heap!Above(p, new)
      PROVE  /\ moved[p] \in Ranked
             /\ rank[data[p]] <= rank[moved[p]]
             /\ rank[carried[Len(p) + 1]] <= rank[moved[p]]
  <2>1. PICK n : n = Len(p)
    OBVIOUS
  <2>2. n \in 0..len - 1 /\ n \in 0..len /\ Heap!At(new, n) = p
    BY <1>1, <1>2, <1>6, <1>8, <2>1, WayTo
  <2>3. PICK c, e : c = carried[n] /\ e = data[p]
    OBVIOUS
  <2>4. c \in Ranked /\ e \in Ranked
    BY <1>5, <2>2, <2>3
  <2>5. moved[p] = Heap!Higher(c, e) /\ carried[n + 1] = Heap!Lower(c, e)
    BY <1>2, <1>7, <1>8, <2>1, <2>2, <2>3
  <2> QED BY <2>1, <2>3, <2>4, <2>5, HigherIs
<1>9. \A p \in D \cup {new} : moved[p] \in Ranked
  BY <1>2, <1>5, <1>7, <1>8
<1>10. moved \in [D \cup {new} -> Ranked]
  BY <1>9 DEF PushMoves
<1> QED BY <1>1, <1>5, <1>7, <1>8, <1>10 DEF Moved

LEMMA PushSorts ==
    ASSUME NEW D, NEW data \in [D -> Ranked], rank \in [Ranked -> Ranks], NEW d \in Ranked,
           Shaped(D), Sorted(D, data, rank), NEW new \in Places, new \notin D, WayIn(D, new),
           NEW carried, CarriedDown(data, d, new, carried),
           NEW moved, PushMoves(D, data, d, new, carried, moved)
    PROVE  Sorted(D \cup {new}, moved, rank)
<1>1. /\ \A n \in 0..Len(new) : carried[n] \in Ranked
      /\ moved \in [D \cup {new} -> Ranked]
      /\ moved[new] = carried[Len(new)]
      /\ \A p \in D : Heap!Above(p, new) =>
           /\ moved[p] = Heap!Higher(carried[Len(p)], data[p])
           /\ rank[data[p]] <= rank[moved[p]]
           /\ rank[carried[Len(p) + 1]] <= rank[moved[p]]
      /\ \A p \in D : ~Heap!Above(p, new) => moved[p] = data[p]
  <2>1. Moved(D, data, new, carried, moved)
    BY MovesOnWay
  <2> QED BY <2>1 DEF Moved
<1>2. \A p \in D : p \in Places
  BY DEF Shaped
<1> SUFFICES ASSUME NEW p \in D \cup {new}, NEW s \in Heap!Sides,
                    Heap!Child(p, s) \in D \cup {new}
             PROVE  rank[moved[Heap!Child(p, s)]] <= rank[moved[p]]
  BY DEF Sorted
<1>3. PICK c, k, len : c = Heap!Child(p, s) /\ k = Len(p) /\ len = Len(new)
  OBVIOUS
<1>4. p \in Places
  BY <1>2
<1>5. /\ k \in Nat /\ len \in Nat /\ c \in Places /\ Len(c) = k + 1 /\ c \in D \cup {new}
  BY <1>3, <1>4, ChildIs, WayTo
<1>6. p \in D
  <2>1. CASE c \in D
    BY <1>3, <1>4, <2>1, ParentIn
  <2>2. CASE c = new
    <3>1. Heap!At(c, k) = p
      BY <1>3, <1>4, ChildIs
    <3>2. len = k + 1
      BY <1>3, <1>5, <2>2
    <3>3. k \in 0..len - 1
      BY <1>5, <3>2
    <3> QED BY <1>3, <2>2, <3>1, <3>3 DEF WayIn
  <2> QED BY <1>5, <2>1, <2>2
<1>7. c \in D => rank[data[c]] <= rank[data[p]]
  BY <1>3, <1>6 DEF Sorted
<1>8. \A q \in D : rank[data[q]] \in Int
  BY RanksAre
<1>9. rank[moved[p]] \in Int /\ rank[moved[c]] \in Int
  BY <1>1, <1>5, RanksAre
<1>10. Heap!Under(c, new) => Heap!Above(p, new)
  BY <1>3, <1>4, Branch
<1>11. CASE ~Heap!Under(c, new)
  <2>1. c \in D /\ ~Heap!Above(c, new)
    BY <1>5, <1>11 DEF Heap!Under
  <2>2. moved[c] = data[c]
    BY <1>1, <2>1
  <2>3. rank[data[p]] <= rank[moved[p]]
    <3>1. rank[data[p]] <= rank[data[p]]
      BY <1>6, <1>8
    <3> QED BY <1>1, <1>6, <3>1
  <2> QED BY <1>3, <1>6, <1>7, <1>8, <1>9, <2>1, <2>2, <2>3
<1>12. CASE Heap!Under(c, new)
  <2>1. Heap!Above(p, new)
    BY <1>10, <1>12
  <2>2. rank[data[p]] <= rank[moved[p]] /\ rank[carried[k + 1]] <= rank[moved[p]]
    BY <1>1, <1>3, <1>6, <2>1
  <2>3. CASE c = new
    <3>1. moved[c] = carried[k + 1]
      BY <1>1, <1>5, <2>3
    <3> QED BY <1>3, <2>2, <3>1
  <2>4. CASE c # new
    <3>1. c \in D /\ Heap!Above(c, new)
      BY <1>5, <1>12, <2>4 DEF Heap!Under
    <3>2. moved[c] = Heap!Higher(carried[k + 1], data[c])
      BY <1>1, <1>5, <3>1
    <3>3. k + 1 \in 0..len
      BY <1>3, <1>5, <3>1, WayTo
    <3>4. carried[k + 1] \in Ranked /\ data[c] \in Ranked
      BY <1>1, <1>3, <3>1, <3>3
    <3>5. moved[c] = carried[k + 1] \/ moved[c] = data[c]
      BY <3>2, <3>4, HigherIs
    <3>6. CASE moved[c] = carried[k + 1]
      BY <1>3, <2>2, <3>6
    <3>7. CASE moved[c] = data[c]
      BY <1>3, <1>6, <1>7, <1>8, <1>9, <2>2, <3>1, <3>7
    <3> QED BY <3>5, <3>6, <3>7
  <2> QED BY <2>3, <2>4
<1> QED BY <1>11, <1>12

LEMMA PushHolds ==
    ASSUME NEW D, NEW data \in [D -> Ranked], rank \in [Ranked -> Ranks], NEW d \in Ranked,
           Shaped(D), NEW new \in Places, new \notin D, WayIn(D, new),
           NEW carried, CarriedDown(data, d, new, carried),
           NEW moved, PushMoves(D, data, d, new, carried, moved),
           NEW in, Holding(D, data, in), d \notin in
    PROVE  Holding(D \cup {new}, moved, in \cup {d})
<1>1. /\ \A n \in 0..Len(new) : carried[n] \in Ranked
      /\ moved \in [D \cup {new} -> Ranked]
      /\ moved[new] = carried[Len(new)]
      /\ \A p \in D : Heap!Above(p, new) => moved[p] = Heap!Higher(carried[Len(p)], data[p])
      /\ \A p \in D : ~Heap!Above(p, new) => moved[p] = data[p]
  <2>1. Moved(D, data, new, carried, moved)
    BY MovesOnWay
  <2> QED BY <2>1 DEF Moved
<1>2. \A p \in D : p \in Places
  BY DEF Shaped
<1>3. /\ \A e : e \in in <=> \E p \in D : data[p] = e
      /\ \A p, q \in D : data[p] = data[q] => p = q
      /\ \A p \in D : data[p] # d
  BY DEF Holding
<1>4. PICK len, way, old, stays :
        /\ len = Len(new)
        /\ way = [n \in 0..len |-> Heap!At(new, n)]
        /\ old = [n \in 0..len - 1 |-> data[Heap!At(new, n)]]
        /\ stays = [n \in 0..len |-> moved[Heap!At(new, n)]]
  OBVIOUS
<1>5. len \in Nat /\ carried[0] = d /\ way[len] = new /\ stays[len] = carried[len]
  <2>1. len \in Nat /\ Heap!At(new, len) = new
    BY <1>4, AtAll, WayTo
  <2> QED BY <1>1, <1>4, <2>1 DEF CarriedDown
<1>6. ASSUME NEW n \in 0..len - 1
      PROVE  /\ way[n] \in D /\ Heap!Above(way[n], new) /\ Len(way[n]) = n
             /\ old[n] = data[way[n]] /\ stays[n] = moved[way[n]]
             /\ \/ stays[n] = carried[n] /\ carried[n + 1] = old[n]
                \/ stays[n] = old[n] /\ carried[n + 1] = carried[n]
  <2>1. PICK p : p = Heap!At(new, n)
    OBVIOUS
  <2>2. n \in 0..Len(new) - 1 /\ n \in 0..len
    BY <1>4, <1>5
  <2>3. way[n] = p /\ old[n] = data[p] /\ stays[n] = moved[p]
    BY <1>4, <2>1, <2>2
  <2>4. p \in D /\ Heap!Above(p, new) /\ Len(p) = n
    BY <2>1, <2>2, WayTo DEF WayIn
  <2>5. moved[p] = Heap!Higher(carried[n], data[p])
        /\ carried[n + 1] = Heap!Lower(carried[n], data[p])
    BY <1>1, <2>1, <2>2, <2>4 DEF CarriedDown
  <2>6. carried[n] \in Ranked /\ data[p] \in Ranked
    BY <1>1, <1>4, <2>2, <2>4
  <2>7. \/ moved[p] = carried[n] /\ carried[n + 1] = data[p]
        \/ moved[p] = data[p] /\ carried[n + 1] = carried[n]
    BY <2>5, <2>6, HigherIs
  <2> QED BY <2>3, <2>4, <2>7
<1>7. \A p \in D : Heap!Above(p, new) => \E n \in 0..len - 1 : way[n] = p
  <2> SUFFICES ASSUME NEW p \in D, Heap!Above(p, new) PROVE \E n \in 0..len - 1 : way[n] = p
    OBVIOUS
  <2>1. Len(p) \in 0..len - 1 /\ Heap!At(new, Len(p)) = p
    BY <1>2, <1>4, WayTo
  <2>2. Len(p) \in 0..len
    BY <1>5, <2>1
  <2> QED BY <1>4, <2>1, <2>2
<1>8. \A i, j \in 0..len - 1 : old[i] = old[j] => i = j
  BY <1>3, <1>6
<1>9. \A i \in 0..len - 1 : old[i] # d
  BY <1>3, <1>6
<1>10. Passed(len, old, d, carried, stays)
  <2>1. \A n \in 0..len : Passed(n, old, d, carried, stays)
    BY <1>5, <1>6, <1>8, <1>9, PassedDown
  <2> QED BY <1>5, <2>1
<1>11. PICK K : K = 0..len - 1
  OBVIOUS
<1>12. PICK c : c = carried[len]
  OBVIOUS
<1>13. /\ c = d \/ \E j \in K : c = old[j]
       /\ c = d \/ \E i \in K : stays[i] = d
       /\ \A i \in K : c # stays[i]
       /\ \A i \in K : stays[i] = d \/ \E j \in K : stays[i] = old[j]
       /\ \A j \in K : c = old[j] \/ \E i \in K : stays[i] = old[j]
       /\ \A i, j \in K : stays[i] = stays[j] => i = j
  BY <1>10, <1>11, <1>12 DEF Passed
<1>14. PICK W : W = {p \in D : Heap!Above(p, new)}
  OBVIOUS
<1>15. /\ \A n \in K : way[n] \in W /\ old[n] = data[way[n]] /\ stays[n] = moved[way[n]]
       /\ \A p \in W : p \in D /\ \E n \in K : way[n] = p
       /\ \A p \in D : p \notin W => moved[p] = data[p]
       /\ moved[new] = c
  <2>1. \A n \in K : way[n] \in W /\ old[n] = data[way[n]] /\ stays[n] = moved[way[n]]
    BY <1>6, <1>11, <1>14
  <2>2. \A p \in W : p \in D /\ \E n \in K : way[n] = p
    BY <1>7, <1>11, <1>14
  <2>3. \A p \in D : p \notin W => moved[p] = data[p]
    BY <1>1, <1>14
  <2>4. moved[new] = c
    BY <1>1, <1>4, <1>12
  <2> QED BY <2>1, <2>2, <2>3, <2>4
<1>16. \A p \in W : moved[p] = d \/ \E q \in W : moved[p] = data[q]
  BY <1>13, <1>15
<1>17. c = d \/ \E q \in W : c = data[q]
  BY <1>13, <1>15
<1>18. \A q \in W : c = data[q] \/ \E p \in W : moved[p] = data[q]
  BY <1>13, <1>15
<1>19. c = d \/ \E p \in W : moved[p] = d
  BY <1>13, <1>15
<1>20. \A p, q \in W : moved[p] = moved[q] => p = q
  BY <1>13, <1>15
<1>21. \A p \in W : moved[p] # c
  BY <1>13, <1>15
<1> DEFINE E == D \cup {new}
<1>22. \A p \in D : p \notin W => /\ moved[p] # d
                                  /\ \A q \in W : moved[p] # data[q]
  BY <1>3, <1>15
<1>23. ASSUME NEW e PROVE e \in in \cup {d} <=> \E p \in E : moved[p] = e
  <2>1. ASSUME e \in in PROVE \E p \in E : moved[p] = e
    <3>1. PICK p \in D : data[p] = e
      BY <1>3, <2>1
    <3> QED BY <1>15, <1>18, <3>1
  <2>2. \E p \in E : moved[p] = d
    BY <1>15, <1>19
  <2>3. ASSUME NEW p \in E PROVE moved[p] \in in \cup {d}
    <3>1. CASE p = new
      BY <1>3, <1>15, <1>17, <3>1
    <3>2. CASE p \in W
      BY <1>3, <1>15, <1>16, <3>2
    <3>3. CASE p \in D /\ p \notin W
      BY <1>3, <1>15, <3>3
    <3> QED BY <3>1, <3>2, <3>3
  <2> QED BY <2>1, <2>2, <2>3
<1>24. ASSUME NEW p \in E, NEW q \in E, moved[p] = moved[q] PROVE p = q
  <2>1. CASE p = new
    BY <1>15, <1>17, <1>21, <1>22, <1>24, <2>1
  <2>2. CASE q = new
    BY <1>15, <1>17, <1>21, <1>22, <1>24, <2>2
  <2>3. CASE p \in W /\ q \in W
    BY <1>20, <1>24, <2>3
  <2>4. CASE p \in W /\ q \in D /\ q \notin W
    BY <1>16, <1>22, <1>24, <2>4
  <2>5. CASE q \in W /\ p \in D /\ p \notin W
    BY <1>16, <1>22, <1>24, <2>5
  <2>6. CASE p \in D /\ p \notin W /\ q \in D /\ q \notin W
    BY <1>3, <1>15, <1>24, <2>6
  <2> QED BY <2>1, <2>2, <2>3, <2>4, <2>5, <2>6
<1> QED BY <1>1, <1>23, <1>24 DEF Holding

HeapNow ==
  HeapState(DOMAIN mData, mData, mSize, rank, inside) /\ returned \in Ranked \cup {NULL}

LEMMA HeapSafeNow == HeapSafe <=> HeapNow
BY HeapSafeIs DEF HeapNow

LEMMA HeapSafeNext == HeapSafe' <=> HeapNow'
<1>1. HeapSafe <=> HeapNow
  BY HeapSafeNow
<1> QED BY <1>1, PTL

LEMMA PushKeeps ==
    ASSUME HeapSafe, NEW d \in Ranked, Heap!Push(d)
    PROVE  HeapSafe'
<1>1. PICK D, new, carried, E, moved, grown :
        /\ D = DOMAIN mData /\ new = Heap!NewNode /\ carried = Heap!Carried(new, d)
        /\ E = D \cup {new} /\ moved = mData' /\ grown = mSize'
  OBVIOUS
<1>2. /\ d \notin inside /\ inside' = inside \cup {d} /\ rank' = rank /\ returned' = returned
  BY DEF Heap!Push
<1>3. /\ Shaped(D) /\ Sized(D, mSize) /\ rank \in [Ranked -> Ranks] /\ Sorted(D, mData, rank)
      /\ Holding(D, mData, inside) /\ IsFiniteSet(inside)
      /\ SizeIn(D, mSize, <<>>) = Cardinality(inside) /\ returned \in Ranked \cup {NULL}
      /\ mData \in [D -> Ranked]
  BY <1>1, HeapSafeIs DEF HeapState, Holding
<1>4. new \in Places /\ new \notin D /\ WayIn(D, new)
  BY <1>1, NewNodeIs DEF WayIn
<1>5. Len(new) \in Nat
  BY <1>4, LenProperties DEF Places
<1>6. CarriedDown(mData, d, new, carried)
  BY <1>1, <1>5, CarriedIs DEF CarriedDown
<1>7. /\ PushMoves(D, mData, d, new, carried, moved)
      /\ grown = [p \in E |-> IF p = new THEN 1
                              ELSE IF Heap!Above(p, new) THEN mSize[p] + 1 ELSE mSize[p]]
  <2>1. Heap!push(d)
    BY DEF Heap!Push
  <2> QED BY <1>1, <2>1 DEF Heap!push, PushMoves, Heap!nodes
<1>8. DOMAIN mData' = E /\ mData' = moved /\ mSize' = grown
  BY <1>1, <1>7 DEF PushMoves
<1>9. Shaped(E) /\ Sized(E, grown)
  BY <1>1, <1>3, <1>4, <1>7, Grown
<1>10. Sorted(E, moved, rank)
  BY <1>1, <1>3, <1>4, <1>6, <1>7, PushSorts
<1>11. Holding(E, moved, inside \cup {d})
  BY <1>1, <1>2, <1>3, <1>4, <1>6, <1>7, PushHolds
<1>12. /\ IsFiniteSet(inside \cup {d})
       /\ Cardinality(inside) \in Nat
       /\ Cardinality(inside \cup {d}) = Cardinality(inside) + 1
  BY <1>2, <1>3, FS_AddElement, FS_CardinalityType
<1>13. SizeIn(E, grown, <<>>) = SizeIn(D, mSize, <<>>) + 1
  <2>1. CASE new = <<>>
    <3>1. <<>> \in E /\ <<>> \notin D /\ grown[<<>>] = 1
      BY <1>1, <1>4, <1>7, <2>1
    <3> QED BY <3>1 DEF SizeIn
  <2>2. CASE new # <<>>
    <3>1. Len(new) # 0
      BY <1>4, <2>2, SamePlace, TopIs
    <3>2. Heap!At(new, 0) = <<>> /\ 0 \in 0..Len(new) - 1
      BY <1>4, <1>5, <3>1, AtAll
    <3>3. <<>> \in D /\ Heap!Above(<<>>, new)
      BY <1>4, <3>2 DEF WayIn, Heap!Above
    <3>4. <<>> \in E /\ grown[<<>>] = mSize[<<>>] + 1
      BY <1>1, <1>7, <2>2, <3>3
    <3> QED BY <3>3, <3>4 DEF SizeIn
  <2> QED BY <2>1, <2>2
<1>14. HeapState(E, moved, grown, rank, inside \cup {d})
  BY <1>3, <1>9, <1>10, <1>11, <1>12, <1>13 DEF HeapState
<1>15. HeapNow'
  BY <1>2, <1>3, <1>8, <1>14 DEF HeapNow
<1> QED BY <1>15, HeapSafeNext

-----------------------------------------------------------------------------
(* The way that pop empties: the object of each node on it comes from the  *)
(* next one, which is the child that ranks higher.                         *)
OnWay(top, gone, p) == Heap!Under(top, p) /\ Heap!Above(p, gone)

LEMMA OnWayIs ==
    ASSUME NEW top \in Places, NEW gone \in Places, Heap!Under(top, gone), NEW p \in Places
    PROVE  /\ Len(top) \in Nat /\ Len(gone) \in Nat /\ Len(p) \in Nat /\ Len(top) <= Len(gone)
           /\ OnWay(top, gone, p) <=> /\ Len(p) \in Len(top)..Len(gone) - 1
                                      /\ p = Heap!At(gone, Len(p))
<1>1. PICK t, g, k : t = Len(top) /\ g = Len(gone) /\ k = Len(p)
  OBVIOUS
<1>2. t \in Nat /\ g \in Nat /\ k \in Nat
  BY <1>1, LenProperties DEF Places
<1>3. t <= g /\ top = Heap!At(gone, t)
  BY <1>1, UnderIs
<1>4. Heap!Above(p, gone) <=> k < g /\ p = Heap!At(gone, k)
  BY <1>1, UnderIs
<1>5. Heap!Under(top, p) <=> t <= k /\ top = Heap!At(p, t)
  BY <1>1, UnderIs
<1>6. ASSUME t <= k, k < g, p = Heap!At(gone, k) PROVE top = Heap!At(p, t)
  <2>1. k \in 0..Len(gone) /\ t \in 0..k
    BY <1>1, <1>2, <1>6
  <2> QED BY <1>3, <1>6, <2>1, AtAt
<1>7. k \in t..g - 1 <=> t <= k /\ k < g
  BY <1>2
<1> QED BY <1>1, <1>2, <1>3, <1>4, <1>5, <1>6, <1>7 DEF OnWay

NextOn(gone, p) == Heap!At(gone, Len(p) + 1)

LEMMA NextOnIs ==
    ASSUME NEW top \in Places, NEW gone \in Places, PopsTo(top, gone), NEW p \in Places,
           OnWay(top, gone, p)
    PROVE  /\ NextOn(gone, p) \in Places /\ Len(NextOn(gone, p)) = Len(p) + 1
           /\ gone[Len(p) + 1] \in Heap!Sides
           /\ NextOn(gone, p) = Heap!Child(p, gone[Len(p) + 1])
           /\ gone[Len(p) + 1] = Heap!SideToPop(p)
           /\ Len(p) + 1 \in 0..Len(gone)
<1>1. PICK t, g, k : t = Len(top) /\ g = Len(gone) /\ k = Len(p)
  OBVIOUS
<1>2. Heap!Under(top, gone) /\ \A n \in t + 1..g : gone[n] = Heap!SideToPop(Heap!At(gone, n - 1))
  BY <1>1 DEF PopsTo
<1>3. /\ t \in Nat /\ g \in Nat /\ k \in Nat
      /\ k \in t..g - 1 /\ p = Heap!At(gone, k)
  BY <1>1, <1>2, OnWayIs
<1>4. k \in 0..g - 1 /\ k + 1 \in 0..g /\ k + 1 \in t + 1..g /\ k + 1 - 1 = k
  BY <1>3
<1>5. gone[k + 1] \in Heap!Sides /\ Heap!At(gone, k + 1) = Heap!Child(p, gone[k + 1])
  BY <1>1, <1>3, <1>4, NextPlace
<1>6. gone[k + 1] = Heap!SideToPop(p)
  BY <1>2, <1>3, <1>4
<1>7. Heap!At(gone, k + 1) \in Places /\ Len(Heap!At(gone, k + 1)) = k + 1
  BY <1>1, <1>4, AtIs
<1> QED BY <1>1, <1>4, <1>5, <1>6, <1>7 DEF NextOn

PopMoves(D, data, top, gone, moved) ==
  moved = [p \in D \ {gone} |-> IF OnWay(top, gone, p) THEN data[NextOn(gone, p)] ELSE data[p]]

LEMMA PopSorts ==
    ASSUME HeapSafe, NEW D, D = DOMAIN mData, NEW top \in D, NEW gone \in D, PopsTo(top, gone),
           NEW moved, PopMoves(D, mData, top, gone, moved)
    PROVE  Sorted(D \ {gone}, moved, rank)
<1>1. /\ Shaped(D) /\ rank \in [Ranked -> Ranks] /\ Sorted(D, mData, rank)
      /\ mData \in [D -> Ranked] /\ D \subseteq Places
  BY HeapSafeIs DEF HeapState, Holding, Shaped
<1>2. top \in Places /\ gone \in Places /\ Heap!Under(top, gone)
  BY <1>1 DEF PopsTo
<1>3. \A q \in D : rank[mData[q]] \in Int
  BY <1>1, RanksAre
<1>4. ASSUME NEW p \in D, OnWay(top, gone, p)
      PROVE  NextOn(gone, p) \in D /\ rank[mData[NextOn(gone, p)]] <= rank[mData[p]]
  <2>1. /\ gone[Len(p) + 1] \in Heap!Sides /\ Len(p) + 1 \in 0..Len(gone)
        /\ NextOn(gone, p) = Heap!Child(p, gone[Len(p) + 1])
    BY <1>1, <1>2, <1>4, NextOnIs
  <2>2. NextOn(gone, p) \in D
    BY <1>1, <2>1 DEF NextOn, Shaped
  <2> QED BY <1>1, <2>1, <2>2 DEF Sorted
<1> SUFFICES ASSUME NEW p \in D \ {gone}, NEW s \in Heap!Sides, Heap!Child(p, s) \in D \ {gone}
             PROVE  rank[moved[Heap!Child(p, s)]] <= rank[moved[p]]
  BY DEF Sorted
<1>5. PICK c : c = Heap!Child(p, s)
  OBVIOUS
<1>6. p \in Places /\ c \in Places /\ c \in D /\ c # gone /\ rank[mData[c]] <= rank[mData[p]]
  BY <1>1, <1>5 DEF Sorted
<1>7. /\ moved[p] = IF OnWay(top, gone, p) THEN mData[NextOn(gone, p)] ELSE mData[p]
      /\ moved[c] = IF OnWay(top, gone, c) THEN mData[NextOn(gone, c)] ELSE mData[c]
  BY <1>6 DEF PopMoves
<1>8. rank[moved[c]] <= rank[mData[c]]
  BY <1>3, <1>4, <1>6, <1>7
<1>9. CASE ~OnWay(top, gone, p)
  <2>1. /\ rank[mData[c]] \in Int /\ rank[mData[p]] \in Int
        /\ OnWay(top, gone, c) => rank[mData[NextOn(gone, c)]] \in Int
    BY <1>3, <1>4, <1>6
  <2> QED BY <1>5, <1>6, <1>7, <1>8, <1>9, <2>1
<1>10. CASE OnWay(top, gone, p)
  <2>1. PICK r, n : r = gone[Len(p) + 1] /\ n = NextOn(gone, p)
    OBVIOUS
  <2>2. r \in Heap!Sides /\ n = Heap!Child(p, r) /\ r = Heap!SideToPop(p) /\ n \in D
        /\ moved[p] = mData[n]
    BY <1>2, <1>4, <1>6, <1>7, <1>10, <2>1, NextOnIs
  <2>3. CASE s = r
    BY <1>5, <1>8, <2>2, <2>3
  <2>4. CASE s # r
    <3>1. ~Heap!Under(c, gone)
      BY <1>2, <1>5, <1>6, <2>1, <2>4, Branch
    <3>2. moved[c] = mData[c]
      BY <1>7, <3>1 DEF OnWay, Heap!Under
    <3>3. PICK x, y : x = Heap!Child(p, "mLeft") /\ y = Heap!Child(p, "mRight")
      OBVIOUS
    <3>4. (s = "mLeft" /\ r = "mRight") \/ (s = "mRight" /\ r = "mLeft")
      BY <1>6, <2>2, <2>4, SidesAre
    <3>5. x \in D /\ y \in D
      BY <1>5, <1>6, <2>2, <3>3, <3>4
    <3>6. r = IF rank[mData[x]] > rank[mData[y]] THEN "mLeft" ELSE "mRight"
      BY <2>2, <3>3, <3>5 DEF Heap!SideToPop, Heap!outRanks, Heap!nodes
    <3>7. rank[mData[c]] <= rank[mData[n]]
      <4>1. rank[mData[x]] \in Int /\ rank[mData[y]] \in Int
        BY <1>3, <3>5
      <4>2. CASE s = "mLeft" /\ r = "mRight"
        <5>1. ~(rank[mData[x]] > rank[mData[y]]) /\ c = x /\ n = y
          BY <1>5, <2>2, <3>3, <3>6, <4>2
        <5> QED BY <4>1, <5>1
      <4>3. CASE s = "mRight" /\ r = "mLeft"
        <5>1. rank[mData[x]] > rank[mData[y]] /\ c = y /\ n = x
          BY <1>5, <2>2, <3>3, <3>6, <4>3
        <5> QED BY <4>1, <5>1
      <4> QED BY <3>4, <4>2, <4>3
    <3> QED BY <1>5, <2>2, <3>2, <3>7
  <2> QED BY <2>3, <2>4
<1> QED BY <1>9, <1>10

LEMMA PopHolds ==
    ASSUME NEW D, Shaped(D), NEW data, NEW in, Holding(D, data, in), NEW top \in D,
           NEW gone \in D, PopsTo(top, gone),
           NEW moved, PopMoves(D, data, top, gone, moved)
    PROVE  Holding(D \ {gone}, moved, in \ {data[top]})
<1>1. /\ D \subseteq Places /\ data \in [D -> Ranked]
      /\ \A e : e \in in <=> \E p \in D : data[p] = e
      /\ \A p, q \in D : data[p] = data[q] => p = q
  BY DEF Shaped, Holding
<1>2. top \in Places /\ gone \in Places /\ Heap!Under(top, gone)
  BY <1>1 DEF PopsTo
<1>3. PICK t, g : t = Len(top) /\ g = Len(gone)
  OBVIOUS
<1>4. t \in Nat /\ g \in Nat /\ t <= g /\ top = Heap!At(gone, t) /\ gone = Heap!At(gone, g)
  BY <1>2, <1>3, OnWayIs, UnderIs, AtAll
<1>5. \A n \in 0..g : Heap!At(gone, n) \in D /\ Len(Heap!At(gone, n)) = n
  BY <1>2, <1>3, AtIs DEF Shaped
<1>6. \A p \in D : /\ Len(p) \in Nat
                   /\ OnWay(top, gone, p) <=> Len(p) \in t..g - 1 /\ p = Heap!At(gone, Len(p))
  BY <1>1, <1>2, <1>3, OnWayIs
<1> DEFINE E == D \ {gone}
           From(p) == IF OnWay(top, gone, p) THEN NextOn(gone, p) ELSE p
<1>7. ASSUME NEW p \in E
      PROVE  /\ From(p) \in D /\ From(p) # top
             /\ OnWay(top, gone, p) => /\ Len(From(p)) = Len(p) + 1 /\ Len(p) + 1 \in t + 1..g
                                       /\ From(p) = Heap!At(gone, Len(p) + 1)
  <2>1. CASE OnWay(top, gone, p)
    <3>1. PICK k : k = Len(p)
      OBVIOUS
    <3>2. k \in t..g - 1 /\ From(p) = Heap!At(gone, k + 1)
      BY <1>6, <2>1, <3>1 DEF NextOn
    <3>3. k + 1 \in 0..g /\ k + 1 \in t + 1..g /\ k + 1 # t
      BY <1>4, <3>2
    <3>4. From(p) \in D /\ Len(From(p)) = k + 1
      BY <1>5, <3>2, <3>3
    <3> QED BY <1>3, <3>1, <3>2, <3>3, <3>4
  <2>2. CASE ~OnWay(top, gone, p)
    <3>1. From(p) = p /\ p \in D /\ p # gone
      BY <2>2
    <3>2. p # top
      <4> SUFFICES ASSUME p = top PROVE FALSE
        OBVIOUS
      <4>1. ~(t \in t..g - 1)
        BY <1>3, <1>4, <1>6, <2>2
      <4>2. t = g
        BY <1>4, <4>1
      <4> QED BY <1>4, <3>1, <4>2
    <3> QED BY <2>2, <3>1, <3>2
  <2> QED BY <2>1, <2>2
<1>8. ASSUME NEW p \in E, NEW q \in E, OnWay(top, gone, p), ~OnWay(top, gone, q)
      PROVE  From(p) # From(q)
  <2> SUFFICES ASSUME From(p) = From(q) PROVE FALSE
    OBVIOUS
  <2>1. PICK k : k = Len(p) + 1
    OBVIOUS
  <2>2. k \in t + 1..g /\ q = Heap!At(gone, k) /\ Len(q) = k /\ q # gone
    BY <1>7, <1>8, <2>1
  <2>3. k # g
    BY <1>4, <2>2
  <2>4. k \in t..g - 1
    BY <1>4, <2>2, <2>3
  <2> QED BY <1>6, <1>8, <2>2, <2>4
<1>9. ASSUME NEW p \in E, NEW q \in E, From(p) = From(q) PROVE p = q
  <2>1. CASE OnWay(top, gone, p) /\ OnWay(top, gone, q)
    <3>1. Len(p) + 1 = Len(q) + 1 /\ Len(p) \in Nat /\ Len(q) \in Nat
      BY <1>6, <1>7, <1>9, <2>1
    <3>2. Len(p) = Len(q)
      BY <3>1
    <3> QED BY <1>6, <2>1, <3>2
  <2>2. CASE ~OnWay(top, gone, p) /\ ~OnWay(top, gone, q)
    BY <1>9, <2>2
  <2> QED BY <1>8, <1>9, <2>1, <2>2
<1>10. ASSUME NEW q \in D, q # top PROVE \E p \in E : From(p) = q
  <2>1. PICK k : k = Len(q)
    OBVIOUS
  <2>2. CASE k \in t..g /\ q = Heap!At(gone, k)
    <3>1. k # t
      BY <1>4, <1>10, <2>2
    <3>2. PICK m : m = k - 1
      OBVIOUS
    <3>3. m \in 0..g /\ m \in t..g - 1 /\ m + 1 = k /\ m # g
      BY <1>4, <2>2, <3>1, <3>2
    <3>4. PICK p : p = Heap!At(gone, m)
      OBVIOUS
    <3>5. p \in D /\ Len(p) = m
      BY <1>5, <3>3, <3>4
    <3>6. p # gone
      BY <1>3, <3>3, <3>5
    <3>7. OnWay(top, gone, p)
      BY <1>6, <3>3, <3>4, <3>5
    <3>8. From(p) = q
      BY <2>2, <3>3, <3>5, <3>7 DEF NextOn
    <3> QED BY <3>5, <3>6, <3>8
  <2>3. CASE ~(k \in t..g /\ q = Heap!At(gone, k))
    <3>1. q # gone
      BY <1>3, <1>4, <2>1, <2>3
    <3>2. \A m \in t..g - 1 : m \in t..g
      BY <1>4
    <3>3. ~OnWay(top, gone, q)
      BY <1>6, <2>1, <2>3, <3>2
    <3> QED BY <3>1, <3>3
  <2> QED BY <2>2, <2>3
<1>11. moved = [p \in E |-> data[From(p)]]
  BY DEF PopMoves
<1> HIDE DEF From
<1>12. \A p \in E : moved[p] = data[From(p)] /\ From(p) \in D /\ From(p) # top
  BY <1>7, <1>11
<1>13. moved \in [E -> Ranked]
  BY <1>1, <1>11, <1>12
<1>14. ASSUME NEW e PROVE e \in in \ {data[top]} <=> \E p \in E : moved[p] = e
  BY <1>1, <1>10, <1>12
<1>15. \A p, q \in E : moved[p] = moved[q] => p = q
  BY <1>1, <1>9, <1>12
<1> QED BY <1>13, <1>14, <1>15 DEF Holding

LEMMA PopKeeps ==
    ASSUME HeapSafe, NEW top \in DOMAIN mData, Heap!pop(top), returned' = mData[top],
           inside' = inside \ {returned'}, rank' = rank
    PROVE  HeapSafe'
<1>1. PICK D, gone, E, moved, less, out :
        /\ D = DOMAIN mData /\ gone = Heap!CutOff(top)
        /\ E = D \ {gone} /\ moved = mData' /\ less = mSize' /\ out = mData[top]
  OBVIOUS
<1>2. /\ Shaped(D) /\ Sized(D, mSize) /\ rank \in [Ranked -> Ranks] /\ Sorted(D, mData, rank)
      /\ Holding(D, mData, inside) /\ IsFiniteSet(inside)
      /\ SizeIn(D, mSize, <<>>) = Cardinality(inside)
      /\ mData \in [D -> Ranked] /\ D \subseteq Places
  BY <1>1, HeapSafeIs DEF HeapState, Holding, Shaped
<1>3. /\ top \in D /\ gone \in D /\ PopsTo(top, gone)
      /\ \A s \in Heap!Sides : Heap!Child(gone, s) \notin D
  BY <1>1, CutOffIs
<1>4. /\ PopMoves(D, mData, top, gone, moved)
      /\ less = [p \in E |-> IF Heap!Above(p, gone) THEN mSize[p] - 1 ELSE mSize[p]]
  BY <1>1 DEF Heap!pop, PopMoves, OnWay, NextOn, Heap!nodes, Heap!Shrinks
<1>5. DOMAIN mData' = E /\ mData' = moved /\ mSize' = less
  BY <1>1, <1>4 DEF PopMoves
<1>6. Shaped(E) /\ Sized(E, less)
  BY <1>1, <1>2, <1>3, <1>4, Cut
<1>7. Sorted(E, moved, rank)
  BY <1>1, <1>3, <1>4, PopSorts
<1>8. Holding(E, moved, inside \ {out})
  BY <1>1, <1>2, <1>3, <1>4, PopHolds
<1>9. out \in inside /\ out \in Ranked
  BY <1>1, <1>2, <1>3 DEF Holding
<1>10. /\ IsFiniteSet(inside \ {out})
       /\ Cardinality(inside) \in Nat
       /\ Cardinality(inside \ {out}) = Cardinality(inside) - 1
  BY <1>2, <1>9, FS_RemoveElement, FS_CardinalityType
<1>11. SizeIn(E, less, <<>>) = SizeIn(D, mSize, <<>>) - 1
  <2>1. gone \in Places
    BY <1>2, <1>3
  <2>2. <<>> \in D
    <3>1. Heap!At(gone, 0) = <<>> /\ 0 \in 0..Len(gone)
      BY <2>1, AtAll, LenProperties DEF Places
    <3> QED BY <1>2, <1>3, <3>1 DEF Shaped
  <2>3. CASE gone = <<>>
    <3>1. Heap!Child(gone, "mLeft") \notin D /\ Heap!Child(gone, "mRight") \notin D
      BY <1>3, <2>1, SidesAre
    <3>2. mSize[gone] = 1
      BY <1>2, <1>3, <3>1 DEF Sized, SizeIn
    <3>3. <<>> \notin E
      BY <1>1, <2>3
    <3> QED BY <2>2, <2>3, <3>2, <3>3 DEF SizeIn
  <2>4. CASE gone # <<>>
    <3>1. Len(gone) # 0
      BY <2>1, <2>4, SamePlace, TopIs
    <3>2. 0 \in 0..Len(gone) - 1 /\ Heap!At(gone, 0) = <<>>
      BY <2>1, <3>1, AtAll, LenProperties DEF Places
    <3>3. Heap!Above(<<>>, gone)
      BY <3>2 DEF Heap!Above
    <3>4. <<>> \in E /\ less[<<>>] = mSize[<<>>] - 1
      BY <1>1, <1>4, <2>2, <2>4, <3>3
    <3> QED BY <2>2, <3>4 DEF SizeIn
  <2> QED BY <2>3, <2>4
<1>12. HeapState(E, moved, less, rank, inside \ {out})
  BY <1>2, <1>6, <1>7, <1>8, <1>10, <1>11 DEF HeapState
<1>13. HeapNow'
  BY <1>1, <1>5, <1>9, <1>12 DEF HeapNow
<1> QED BY <1>13, HeapSafeNext

(* The heap is as it was when there was nothing to take out.               *)
LEMMA NothingKeeps ==
    ASSUME HeapSafe, UNCHANGED <<mData, mSize, rank>>, returned' = NULL,
           inside' = inside \ {returned'}
    PROVE  HeapSafe' /\ inside' = inside
<1>1. inside' = inside
  <2>1. inside \subseteq Ranked
    BY HeapSafeIs DEF HeapState, Holding
  <2> QED BY <2>1, RanksAreNumbers
<1>2. HeapNow
  BY HeapSafeNow
<1>3. HeapNow'
  BY <1>1, <1>2 DEF HeapNow
<1> QED BY <1>1, <1>3, HeapSafeNext

LEMMA HeapStep == HeapSafe /\ [Heap!Next]_heapVars => HeapSafe'
<1> SUFFICES ASSUME HeapSafe, [Heap!Next]_heapVars PROVE HeapSafe'
  OBVIOUS
<1>1. CASE UNCHANGED heapVars
  <2>1. HeapNow
    BY HeapSafeNow
  <2>2. HeapNow'
    BY <1>1, <2>1 DEF HeapNow, heapVars
  <2> QED BY <2>2, HeapSafeNext
<1>2. CASE Heap!Pop
  <2>1. CASE DOMAIN mData = {}
    BY <1>2, <2>1, NothingKeeps DEF Heap!Pop, Heap!nodes
  <2>2. CASE DOMAIN mData # {}
    <3>1. /\ returned' = mData[<<>>] /\ Heap!pop(<<>>)
          /\ inside' = inside \ {returned'} /\ rank' = rank
      BY <1>2, <2>2 DEF Heap!Pop, Heap!nodes
    <3>2. <<>> \in DOMAIN mData
      <4>1. Shaped(DOMAIN mData)
        BY HeapSafeIs DEF HeapState
      <4>2. PICK p \in DOMAIN mData : TRUE
        BY <2>2
      <4>3. Heap!At(p, 0) = <<>> /\ 0 \in 0..Len(p)
        BY <4>1, AtAll, LenProperties DEF Places, Shaped
      <4> QED BY <4>1, <4>2, <4>3 DEF Shaped
    <3> QED BY <3>1, <3>2, PopKeeps
  <2> QED BY <2>1, <2>2
<1>3. ASSUME NEW d \in Ranked, Heap!Push(d) PROVE HeapSafe'
  BY <1>3, PushKeeps
<1>4. ASSUME NEW d \in Ranked, Heap!Remove(d) PROVE HeapSafe'
  <2>1. inside' = inside \ {returned'} /\ rank' = rank
    BY <1>4 DEF Heap!Remove
  <2>2. CASE returned' = NULL /\ UNCHANGED <<mData, mSize>>
    BY <2>1, <2>2, NothingKeeps
  <2>3. ASSUME NEW p \in Heap!Found(d), Heap!pop(p), returned' = d PROVE HeapSafe'
    <3>1. p \in DOMAIN mData /\ mData[p] = d
      BY DEF Heap!Found, Heap!nodes
    <3> QED BY <2>1, <2>3, <3>1, PopKeeps
  <2> QED BY <1>4, <2>2, <2>3 DEF Heap!Remove
<1> QED BY <1>1, <1>2, <1>3, <1>4 DEF Heap!Next

LEMMA HeapInit == Heap!Init => HeapSafe
<1> SUFFICES ASSUME Heap!Init PROVE HeapSafe
  OBVIOUS
<1>1. /\ mData = <<>> /\ mSize = <<>> /\ rank \in [Ranked -> Ranks] /\ returned = NULL
      /\ inside = {}
  BY DEF Heap!Init
<1>2. DOMAIN mData = {} /\ mData \in [{} -> Ranked] /\ mSize \in [{} -> Nat]
  BY <1>1
<1>3. Shaped({}) /\ Sized({}, mSize) /\ Sorted({}, mData, rank)
  BY <1>2 DEF Shaped, Sized, Sorted
<1>4. Holding({}, mData, inside)
  BY <1>1, <1>2 DEF Holding
<1>5. IsFiniteSet(inside) /\ SizeIn({}, mSize, <<>>) = Cardinality(inside)
  BY <1>1, FS_EmptySet DEF SizeIn
<1> QED BY <1>1, <1>2, <1>3, <1>4, <1>5, HeapSafeIs DEF HeapState

(* After any sequence of pushes, pops and removals, found or not, the tree *)
(* is a heap with correct sizes that holds what was put in and not taken   *)
(* out, each once (LocHeap.cpp).  HeapSafe is inductive as it stands.      *)
THEOREM HeapSafeTheorem == Heap!Spec => []HeapSafe
<1>1. Heap!Init => HeapSafe
  BY HeapInit
<1>2. HeapSafe /\ [Heap!Next]_(Heap!vars) => HeapSafe'
  BY HeapStep DEF Heap!vars, heapVars
<1> QED BY <1>1, <1>2, PTL DEF Heap!Spec

-----------------------------------------------------------------------------
(* The heap as a priority queue.                                           *)
PeekedAt(D, data) == IF D = {} THEN NULL ELSE data[<<>>]
peeked == PeekedAt(DOMAIN mData, mData)

LEMMA TopIn == ASSUME NEW D, Shaped(D) PROVE D = {} \/ <<>> \in D
<1> SUFFICES ASSUME NEW p \in D PROVE <<>> \in D
  OBVIOUS
<1>1. Heap!At(p, 0) = <<>> /\ 0 \in 0..Len(p)
  BY AtAll, LenProperties DEF Places, Shaped
<1> QED BY <1>1 DEF Shaped

PeekedFirst == peeked \in Heap!Queue!TopOf(inside)

LEMMA PeekedIs == HeapSafe => PeekedFirst
<1> SUFFICES ASSUME HeapSafe PROVE peeked \in Heap!Queue!TopOf(inside)
  BY DEF PeekedFirst
<1>1. PICK D : D = DOMAIN mData
  OBVIOUS
<1>2. /\ Shaped(D) /\ rank \in [Ranked -> Ranks] /\ Sorted(D, mData, rank)
      /\ mData \in [D -> Ranked] /\ D \subseteq Places
      /\ \A d : d \in inside <=> \E p \in D : mData[p] = d
  BY <1>1, HeapSafeIs DEF HeapState, Holding, Shaped
<1>3. CASE D = {}
  <2>1. inside = {} /\ peeked = NULL
    BY <1>1, <1>2, <1>3 DEF peeked, PeekedAt
  <2> QED BY <2>1 DEF Heap!Queue!TopOf
<1>4. CASE D # {}
  <2>1. <<>> \in D /\ peeked = mData[<<>>] /\ peeked \in inside
    BY <1>1, <1>2, <1>4, TopIn DEF peeked, PeekedAt
  <2>2. ASSUME NEW e \in inside PROVE rank[peeked] >= rank[e]
    <3>1. PICK p \in D : mData[p] = e
      BY <1>2
    <3>2. Heap!At(p, 0) = <<>> /\ 0 \in 0..Len(p)
      BY <1>2, AtAll, LenProperties DEF Places
    <3>3. rank[mData[p]] <= rank[mData[<<>>]]
      BY <1>2, <3>2, HighestAbove
    <3>4. rank[peeked] \in Int /\ rank[e] \in Int
      BY <1>2, <2>1, <3>1, RanksAre
    <3> QED BY <2>1, <3>1, <3>3, <3>4
  <2> QED BY <2>1, <2>2 DEF Heap!Queue!TopOf, Heap!Queue!Highest
<1> QED BY <1>3, <1>4

LEMMA PeekedNext == HeapSafe' => PeekedFirst'
<1>1. HeapSafe => PeekedFirst
  BY PeekedIs
<1> QED BY <1>1, PTL

(* push puts an object on top that outranks the top, and no other.         *)
LEMMA PushPeeks ==
    ASSUME HeapSafe, NEW d \in Ranked, Heap!Push(d)
    PROVE  Heap!Queue!Push(d) /\ rank' = rank
<1>1. PICK D, new, carried : /\ D = DOMAIN mData /\ new = Heap!NewNode
                             /\ carried = Heap!Carried(new, d)
  OBVIOUS
<1>2. /\ d \notin inside /\ inside' = inside \cup {d} /\ rank' = rank
  BY DEF Heap!Push
<1>3. /\ Shaped(D) /\ \A e : e \in inside <=> \E p \in D : mData[p] = e
  BY <1>1, HeapSafeIs DEF HeapState, Holding
<1>4. new \in Places /\ new \notin D /\ WayIn(D, new) /\ Len(new) \in Nat
  BY <1>1, NewNodeIs, LenProperties DEF WayIn, Places
<1>5. carried[0] = d
  BY <1>1, <1>4, CarriedIs
<1>6. PushMoves(D, mData, d, new, carried, mData')
  BY <1>1 DEF Heap!Push, Heap!push, PushMoves, Heap!nodes
<1>7. DOMAIN mData' = D \cup {new}
  BY <1>6 DEF PushMoves
<1>8. Len(<<>>) = 0
  BY TopIs
<1>9. CASE D = {}
  <2>1. new = <<>>
    <3> SUFFICES ASSUME new # <<>> PROVE FALSE
      OBVIOUS
    <3>1. Len(new) # 0
      BY <1>4, SamePlace, TopIs
    <3>2. 0 \in 0..Len(new) - 1
      BY <1>4, <3>1
    <3> QED BY <1>4, <1>9, <3>2 DEF WayIn
  <2>2. mData'[<<>>] = d
    BY <1>5, <1>6, <1>8, <2>1 DEF PushMoves
  <2>3. peeked' = d
    BY <1>7, <2>2 DEF peeked, PeekedAt
  <2>4. inside = {}
    BY <1>3, <1>9
  <2> QED BY <1>2, <2>3, <2>4 DEF Heap!Queue!Push, peeked, PeekedAt, Heap!nodes
<1>10. CASE D # {}
  <2>1. <<>> \in D /\ new # <<>>
    BY <1>3, <1>4, <1>10, TopIn
  <2>2. Heap!Above(<<>>, new)
    <3>1. Len(new) # 0
      BY <1>4, <2>1, SamePlace, TopIs
    <3>2. 0 \in 0..Len(new) - 1 /\ Heap!At(new, 0) = <<>>
      BY <1>4, <3>1, AtAll
    <3> QED BY <3>2 DEF Heap!Above
  <2>3. mData'[<<>>] = Heap!Higher(d, mData[<<>>])
    BY <1>5, <1>6, <1>8, <2>1, <2>2 DEF PushMoves
  <2>4. peeked' = Heap!Higher(d, peeked) /\ peeked = mData[<<>>]
    BY <1>1, <1>7, <1>10, <2>3 DEF peeked, PeekedAt
  <2>5. inside # {}
    BY <1>3, <2>1
  <2>6. peeked' = IF inside = {} THEN d ELSE IF rank[d] > rank[peeked] THEN d ELSE peeked
    BY <2>4, <2>5 DEF Heap!Higher, Heap!outRanks
  <2> QED BY <1>2, <2>6 DEF Heap!Queue!Push, peeked, PeekedAt, Heap!nodes
<1> QED BY <1>9, <1>10

QueueVars == <<inside, peeked, rank>>

(* A pop gives the top, and one of the highest ranked comes after it.      *)
LEMMA PopPeeks ==
    ASSUME HeapSafe, HeapSafe', DOMAIN mData # {}, inside' = inside \ {mData[<<>>]},
           rank' = rank
    PROVE  Heap!Queue!Pop
<1>1. peeked = mData[<<>>]
  BY DEF peeked, PeekedAt
<1>2. inside # {}
  <2>1. Shaped(DOMAIN mData) /\ \A p \in DOMAIN mData : mData[p] \in inside
    BY HeapSafeIs DEF HeapState, Holding
  <2> QED BY <2>1
<1>3. PeekedFirst'
  BY PeekedNext
<1>4. peeked' \in Heap!Queue!TopOf(inside')
  BY <1>3 DEF PeekedFirst, Heap!Queue!TopOf, Heap!Queue!Highest
<1> QED BY <1>1, <1>2, <1>4 DEF Heap!Queue!Pop, peeked, PeekedAt, Heap!nodes

(* remove finds what is in the heap: no object above it ranks lower.       *)
LEMMA FoundIs ==
    ASSUME HeapSafe, NEW d \in Ranked, Heap!Found(d) = {}
    PROVE  d \notin inside
<1> SUFFICES ASSUME d \in inside PROVE FALSE
  OBVIOUS
<1>1. PICK D : D = DOMAIN mData
  OBVIOUS
<1>2. /\ Shaped(D) /\ rank \in [Ranked -> Ranks] /\ Sorted(D, mData, rank)
      /\ mData \in [D -> Ranked] /\ D \subseteq Places
      /\ \A e : e \in inside <=> \E p \in D : mData[p] = e
      /\ \A p, q \in D : mData[p] = mData[q] => p = q
  BY <1>1, HeapSafeIs DEF HeapState, Holding, Shaped
<1>3. PICK p \in D : mData[p] = d
  BY <1>2
<1>4. ASSUME NEW q \in D, Heap!Above(q, p) PROVE mData[q] # d /\ ~Heap!outRanks(d, mData[q])
  <2>1. q \in Places /\ p \in Places
    BY <1>2
  <2>2. Len(q) \in 0..Len(p) - 1 /\ Heap!At(p, Len(q)) = q /\ q # p /\ Len(p) \in Nat
    BY <1>4, <2>1, WayTo
  <2>3. Len(q) \in 0..Len(p)
    BY <2>2
  <2>4. rank[mData[p]] <= rank[mData[q]]
    BY <1>2, <2>2, <2>3, HighestAbove
  <2>5. rank[mData[p]] \in Int /\ rank[mData[q]] \in Int
    BY <1>2, RanksAre
  <2> QED BY <1>2, <1>3, <2>2, <2>4, <2>5 DEF Heap!outRanks
<1>5. p \in Heap!Found(d)
  BY <1>1, <1>3, <1>4 DEF Heap!Found, Heap!nodes
<1> QED BY <1>5

LEMMA RemovePeeks ==
    ASSUME HeapSafe, HeapSafe', NEW d \in Ranked, Heap!Remove(d)
    PROVE  Heap!Queue!Remove(d) /\ rank' = rank
<1>1. PICK D : D = DOMAIN mData
  OBVIOUS
<1>2. /\ Shaped(D) /\ mData \in [D -> Ranked] /\ D \subseteq Places
      /\ \A e : e \in inside <=> \E p \in D : mData[p] = e
      /\ \A p, q \in D : mData[p] = mData[q] => p = q
  BY <1>1, HeapSafeIs DEF HeapState, Holding, Shaped
<1>3. inside' = inside \ {returned'} /\ rank' = rank
  BY DEF Heap!Remove
<1>4. peeked \in inside \/ peeked = NULL
  BY <1>1, <1>2, TopIn DEF peeked, PeekedAt
<1>5. CASE Heap!Found(d) = {} /\ returned' = NULL /\ UNCHANGED <<mData, mSize>>
  <2>1. inside' = inside
    BY <1>3, <1>5, NothingKeeps
  <2>2. d \notin inside /\ d # NULL
    BY <1>5, FoundIs, RanksAreNumbers
  <2>3. d # peeked /\ inside' = inside \ {d} /\ peeked' = peeked
    BY <1>4, <1>5, <2>1, <2>2 DEF peeked
  <2> QED BY <1>3, <2>3 DEF Heap!Queue!Remove, peeked, PeekedAt, Heap!nodes
<1>6. ASSUME NEW p \in Heap!Found(d), Heap!pop(p), returned' = d
      PROVE  Heap!Queue!Remove(d) /\ rank' = rank
  <2>1. p \in D /\ mData[p] = d /\ <<>> \in D /\ p \in Places
    BY <1>1, <1>2, TopIn DEF Heap!Found, Heap!nodes
  <2>2. peeked = mData[<<>>]
    BY <1>1, <2>1 DEF peeked, PeekedAt
  <2>3. CASE p = <<>>
    <3>1. Heap!Queue!Pop
      BY <1>1, <1>3, <1>6, <2>1, <2>3, PopPeeks
    <3> QED BY <1>3, <2>1, <2>2, <2>3, <3>1
         DEF Heap!Queue!Remove, peeked, PeekedAt, Heap!nodes
  <2>4. CASE p # <<>>
    <3>1. d # peeked
      BY <1>2, <2>1, <2>2, <2>4
    <3>2. PICK gone : gone = Heap!CutOff(p)
      OBVIOUS
    <3>3. gone \in D /\ Heap!Under(p, gone)
      BY <1>1, <2>1, <3>2, CutOffIs DEF PopsTo
    <3>4. Len(p) # 0 /\ Len(p) \in Nat /\ Len(<<>>) = 0
      BY <2>1, <2>4, SamePlace, TopIs, LenProperties DEF Places
    <3>5. ~Heap!Under(p, <<>>)
      BY <2>1, <3>4, TopIs, UnderIs
    <3>6. gone # <<>>
      BY <3>3, <3>5
    <3>7. PopMoves(D, mData, p, gone, mData')
      BY <1>1, <1>6, <3>2 DEF Heap!pop, PopMoves, OnWay, NextOn, Heap!nodes
    <3>8. mData'[<<>>] = mData[<<>>] /\ DOMAIN mData' = D \ {gone} /\ <<>> \in D \ {gone}
      BY <2>1, <3>5, <3>6, <3>7 DEF PopMoves, OnWay
    <3>9. peeked' = peeked
      BY <2>2, <3>8 DEF peeked, PeekedAt
    <3> QED BY <1>3, <1>6, <3>1, <3>9 DEF Heap!Queue!Remove, peeked, PeekedAt, Heap!nodes
  <2> QED BY <2>3, <2>4
<1> QED BY <1>5, <1>6 DEF Heap!Remove

LEMMA QueueStep ==
    HeapSafe /\ HeapSafe' /\ [Heap!Next]_(Heap!vars) => [Heap!Queue!Next]_(Heap!Queue!vars)
<1> SUFFICES ASSUME HeapSafe, HeapSafe', [Heap!Next]_(Heap!vars), ~UNCHANGED QueueVars
             PROVE  Heap!Queue!Next
  BY DEF QueueVars, Heap!Queue!vars, peeked, PeekedAt, Heap!nodes
<1>1. CASE UNCHANGED Heap!vars
  BY <1>1 DEF Heap!vars, QueueVars, peeked
<1>2. CASE Heap!Pop
  <2>1. CASE DOMAIN mData = {}
    <3>1. returned' = NULL /\ UNCHANGED <<mData, mSize, rank>> /\ inside' = inside \ {returned'}
      BY <1>2, <2>1 DEF Heap!Pop, Heap!nodes
    <3>2. inside' = inside
      BY <3>1, NothingKeeps
    <3> QED BY <3>1, <3>2 DEF QueueVars, peeked
  <2>2. CASE DOMAIN mData # {}
    <3>1. inside' = inside \ {mData[<<>>]} /\ rank' = rank
      BY <1>2, <2>2 DEF Heap!Pop, Heap!nodes
    <3> QED BY <2>2, <3>1, PopPeeks DEF Heap!Queue!Next
  <2> QED BY <2>1, <2>2
<1>3. ASSUME NEW d \in Ranked, Heap!Push(d) PROVE Heap!Queue!Next
  BY <1>3, PushPeeks DEF Heap!Queue!Next
<1>4. ASSUME NEW d \in Ranked, Heap!Remove(d) PROVE Heap!Queue!Next
  BY <1>4, RemovePeeks DEF Heap!Queue!Next
<1> QED BY <1>1, <1>2, <1>3, <1>4 DEF Heap!Next

LEMMA QueueInit == Heap!Init => Heap!Queue!Init
<1> SUFFICES ASSUME Heap!Init PROVE Heap!Queue!Init
  OBVIOUS
<1>1. inside = {} /\ DOMAIN mData = {} /\ rank \in [Ranked -> Ranks]
  BY DEF Heap!Init
<1>2. rank \in [Ranked -> Int]
  BY <1>1, RanksAreNumbers
<1> QED BY <1>1, <1>2 DEF Heap!Queue!Init, Heap!nodes

(* To its users the heap is a priority queue: what peek and pop give is    *)
(* one of the highest ranked, an equal newcomer does not displace the top  *)
(* and remove takes out what it is asked for and nothing else.             *)
THEOREM HeapRefines == Heap!Spec => HeapImplementsQueue
<1>1. Heap!Init => Heap!Queue!Init
  BY QueueInit
<1>2. HeapSafe /\ HeapSafe' /\ [Heap!Next]_(Heap!vars) => [Heap!Queue!Next]_(Heap!Queue!vars)
  BY QueueStep
<1>3. Heap!Spec => []HeapSafe
  BY HeapSafeTheorem
<1> QED BY <1>1, <1>2, <1>3, PTL
     DEF Heap!Spec, HeapImplementsQueue, Heap!ImplementsQueue, Heap!Queue!Spec
=============================================================================
