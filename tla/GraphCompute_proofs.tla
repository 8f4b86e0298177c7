------------------------ MODULE GraphCompute_proofs ------------------------
(***************************************************************************)
(* Proofs about GraphCompute, for any graph, any sizes and any number of   *)
(* threads.  In order: the free blocks of an allocation and what taking    *)
(* and giving back cells does to them; that an allocation stays sound when *)
(* a node is placed and its sources lose a reader; that the graph stays    *)
(* well-formed and its nodes come after their sources; that no node is     *)
(* placed over a tensor that is still needed; the meeting of the threads;  *)
(* from these, that every source is intact when it is read; and last, that *)
(* every cell of the buffer is free or is some tensor's to give back.      *)
(***************************************************************************)
EXTENDS GraphCompute, FiniteSetTheorems, FunctionTheorems, NaturalsInduction,
        SequenceTheorems, TLAPS

-----------------------------------------------------------------------------
(* Numbers and sequences.                                                  *)

(* A set of natural numbers that is not empty has a least element. *)
LEMMA LeastOf ==
    ASSUME NEW S \in SUBSET Nat, S # {}
    PROVE  \E x \in S : \A y \in S : x <= y
<1> DEFINE Less == {ss \in Nat \X Nat : ss[1] < ss[2]}
<1>1. IsWellFoundedOn(Less, Nat)
  BY NatLessThanWellFounded DEF OpToRel
<1>2. \A x, y \in Nat : <<y, x>> \notin Less => x <= y
  OBVIOUS
<1> HIDE DEF Less
<1>3. PICK x \in S : \A y \in S : <<y, x>> \notin Less
  BY <1>1, WFMin
<1> QED
  BY <1>2, <1>3

(* A set of natural numbers below a bound has a greatest element. *)
LEMMA GreatestOf ==
    ASSUME NEW n \in Nat, NEW S \in SUBSET (0..n), S # {}
    PROVE  \E x \in S : \A y \in S : y <= x
<1> DEFINE T == {j \in 0..n : n - j \in S}
<1>1. T \in SUBSET Nat /\ T # {}
  <2>1. PICK y \in S : TRUE
    OBVIOUS
  <2>2. n - y \in T
    BY <2>1
  <2>3. T \in SUBSET Nat
    OBVIOUS
  <2> QED
    BY <2>2, <2>3
<1>2. PICK j \in T : \A k \in T : j <= k
  <2> HIDE DEF T
  <2> QED
    BY <1>1, LeastOf
<1>3. \A y \in S : n - y \in T
  OBVIOUS
<1> QED
  BY <1>2, <1>3

(* Induction over the first natural numbers, for the sets of this proof.   *)
LEMMA UpTo ==
    ASSUME NEW n \in Nat, NEW S, 0 \in S, \A j \in 1..n : j - 1 \in S => j \in S
    PROVE  \A j \in 0..n : j \in S
<1> SUFFICES ASSUME {j \in 0..n : j \notin S} # {} PROVE FALSE
  OBVIOUS
<1> DEFINE Bad == {j \in 0..n : j \notin S}
<1>1. PICK j \in Bad : \A k \in Bad : j <= k
  <2>1. Bad \in SUBSET Nat /\ Bad # {}
    OBVIOUS
  <2> HIDE DEF Bad
  <2> QED
    BY <2>1, LeastOf
<1>2. j \in 1..n /\ j - 1 \in 0..n
  BY <1>1
<1>3. j - 1 \in S
  BY <1>1, <1>2
<1> QED
  BY <1>1, <1>2, <1>3

(* What RemoveAt and InsertAt leave where. *)
LEMMA Removed ==
    ASSUME NEW S, NEW s \in Seq(S), NEW i \in 1..Len(s)
    PROVE  /\ RemoveAt(s, i) \in Seq(S) /\ Len(RemoveAt(s, i)) = Len(s) - 1
           /\ \A j \in 1..(Len(s) - 1) : RemoveAt(s, i)[j] = IF j < i THEN s[j] ELSE s[j + 1]
<1> DEFINE l == SubSeq(s, 1, i - 1)
           r == SubSeq(s, i + 1, Len(s))
<1>0. Len(s) \in Nat /\ \A j \in 1..Len(s) : s[j] \in S
  BY LenProperties, ElementOfSeq
<1>1. l \in Seq(S) /\ Len(l) = i - 1 /\ \A j \in 1..(i - 1) : l[j] = s[j]
  <2>1. i - 1 \in Int /\ 1 \in Int /\ \A j \in 1..(i - 1) : s[j] \in S
    BY <1>0
  <2> QED
    BY <2>1, SubSeqProperties
<1>2. r \in Seq(S) /\ Len(r) = Len(s) - i /\ \A j \in 1..(Len(s) - i) : r[j] = s[i + j]
  <2>1. i + 1 \in Int /\ Len(s) \in Int /\ \A j \in (i + 1)..Len(s) : s[j] \in S
    BY <1>0
  <2>2. /\ r \in Seq(S) /\ Len(r) = IF i + 1 <= Len(s) THEN Len(s) - (i + 1) + 1 ELSE 0
        /\ \A j \in 1..(Len(s) - (i + 1) + 1) : r[j] = s[(i + 1) + j - 1]
    BY <2>1, SubSeqProperties DEF r
  <2> QED
    BY <1>0, <2>2
<1> HIDE DEF l, r
<1>3. /\ l \o r \in Seq(S) /\ Len(l \o r) = Len(l) + Len(r)
      /\ \A j \in 1..(Len(l) + Len(r)) : (l \o r)[j] = IF j <= Len(l) THEN l[j] ELSE r[j - Len(l)]
  BY <1>1, <1>2, ConcatProperties
<1>4. RemoveAt(s, i) = l \o r
  BY DEF RemoveAt, l, r
<1>5. ASSUME NEW j \in 1..(Len(s) - 1)
      PROVE  (l \o r)[j] = IF j < i THEN s[j] ELSE s[j + 1]
  <2>1. CASE j < i
    BY <1>0, <1>1, <1>2, <1>3, <2>1
  <2>2. CASE ~(j < i)
    <3>1. j - Len(l) \in 1..(Len(s) - i) /\ (l \o r)[j] = r[j - Len(l)]
      BY <1>0, <1>1, <1>2, <1>3, <2>2
    <3>2. i + (j - Len(l)) = j + 1
      BY <1>1
    <3>3. r[j - Len(l)] = s[i + (j - Len(l))]
      BY <1>2, <3>1
    <3>4. ~(j < i)
      BY <2>2, <1>0
    <3>5. s[i + (j - Len(l))] = s[j + 1]
      BY ONLY <3>2
    <3>6. (l \o r)[j] = s[j + 1]
      BY <3>1, <3>3, <3>5, Zenon
    <3> QED
      BY <3>4, <3>6, Zenon
  <2> QED
    BY <2>1, <2>2
<1> QED
  BY <1>0, <1>1, <1>2, <1>3, <1>4, <1>5

(* What InsertAt of the community modules does, element by element. *)
LEMMA Inserted ==
    ASSUME NEW S, NEW s \in Seq(S), NEW e \in S, NEW i \in 1..(Len(s) + 1)
    PROVE  /\ InsertAt(s, i, e) \in Seq(S) /\ Len(InsertAt(s, i, e)) = Len(s) + 1
           /\ \A j \in 1..(Len(s) + 1) :
                InsertAt(s, i, e)[j] = IF j < i THEN s[j] ELSE IF j = i THEN e ELSE s[j - 1]
<1> DEFINE l == SubSeq(s, 1, i - 1)
           r == SubSeq(s, i, Len(s))
           x == <<e>>
           m == l \o x
<1>0. Len(s) \in Nat /\ \A j \in 1..Len(s) : s[j] \in S
  BY LenProperties, ElementOfSeq
<1>1. l \in Seq(S) /\ Len(l) = i - 1 /\ \A j \in 1..(i - 1) : l[j] = s[j]
  <2>1. i - 1 \in Int /\ 1 \in Int /\ \A j \in 1..(i - 1) : s[j] \in S
    BY <1>0
  <2> QED
    BY <2>1, SubSeqProperties
<1>2. r \in Seq(S) /\ Len(r) = Len(s) - i + 1 /\ \A j \in 1..(Len(s) - i + 1) : r[j] = s[i + j - 1]
  <2>1. i \in Int /\ Len(s) \in Int /\ \A j \in i..Len(s) : s[j] \in S
    BY <1>0
  <2>2. /\ r \in Seq(S) /\ Len(r) = IF i <= Len(s) THEN Len(s) - i + 1 ELSE 0
        /\ \A j \in 1..(Len(s) - i + 1) : r[j] = s[i + j - 1]
    BY <2>1, SubSeqProperties DEF r
  <2> QED
    BY <1>0, <2>2
<1>3. x \in Seq(S) /\ Len(x) = 1 /\ x[1] = e
  OBVIOUS
<1> HIDE DEF l, r, x
<1>4. /\ m \in Seq(S) /\ Len(m) = i
      /\ \A j \in 1..i : m[j] = IF j < i THEN s[j] ELSE e
  <2>1. /\ m \in Seq(S) /\ Len(m) = Len(l) + Len(x)
        /\ \A j \in 1..(Len(l) + Len(x)) : m[j] = IF j <= Len(l) THEN l[j] ELSE x[j - Len(l)]
    BY <1>1, <1>3, ConcatProperties
  <2> QED
    BY <1>1, <1>3, <2>1
<1> HIDE DEF m
<1>5. /\ m \o r \in Seq(S) /\ Len(m \o r) = Len(m) + Len(r)
      /\ \A j \in 1..(Len(m) + Len(r)) : (m \o r)[j] = IF j <= Len(m) THEN m[j] ELSE r[j - Len(m)]
  BY <1>2, <1>4, ConcatProperties
<1>6. InsertAt(s, i, e) = m \o r
  BY DEF InsertAt, l, r, m, x
<1> QED
  BY <1>0, <1>2, <1>4, <1>5, <1>6

(* The other shape of a list: one element replaced. *)
LEMMA Replaced ==
    ASSUME NEW S, NEW s \in Seq(S), NEW e \in S, NEW i \in 1..Len(s)
    PROVE  /\ ReplaceAt(s, i, e) \in Seq(S) /\ Len(ReplaceAt(s, i, e)) = Len(s)
           /\ \A j \in 1..Len(s) : ReplaceAt(s, i, e)[j] = IF j = i THEN e ELSE s[j]
BY ExceptSeq DEF ReplaceAt

-----------------------------------------------------------------------------
(* The list of free blocks.                                                *)

Block == [addr : Nat, size : Nat \ {0}]

\* In the order of the addresses, with a gap after each, inside the buffer.
Sorted(free, sz) ==
    /\ free \in Seq(Block)
    /\ \A i, j \in 1..Len(free) : i < j => End(free[i]) < free[j].addr
    /\ \A i \in 1..Len(free) : End(free[i]) <= sz

\* No free block has a cell from lo up to and without hi.
Clear(free, lo, hi) ==
    \A i \in 1..Len(free) : hi <= free[i].addr \/ End(free[i]) <= lo

(* The arithmetic of a block, *)
LEMMA BlockFacts ==
    \A x \in Block : /\ x.addr \in Nat /\ x.size \in Nat /\ x.size > 0
                     /\ End(x) = x.addr + x.size /\ End(x) \in Nat
BY DEF Block, End

(* and of the blocks of a list. *)
LEMMA BlocksOf ==
    ASSUME NEW free \in Seq(Block)
    PROVE  /\ Len(free) \in Nat
           /\ \A i \in 1..Len(free) :
                /\ free[i] \in Block
                /\ free[i].addr \in Nat /\ free[i].size \in Nat /\ free[i].size > 0
                /\ End(free[i]) = free[i].addr + free[i].size /\ End(free[i]) \in Nat
<1>1. Len(free) \in Nat /\ \A i \in 1..Len(free) : free[i] \in Block
  BY LenProperties, ElementOfSeq
<1> QED
  BY <1>1, BlockFacts

(* An empty buffer is one block, or none. *)
LEMMA ResetSorted ==
    ASSUME NEW sz \in Nat
    PROVE  Sorted(ResetBlocks(sz), sz)
<1>1. CASE sz = 0
  BY <1>1 DEF ResetBlocks, Sorted
<1>2. CASE sz # 0
  <2> DEFINE x == <<[addr |-> 0, size |-> sz]>>
  <2>1. x \in Seq(Block) /\ Len(x) = 1 /\ x[1] = [addr |-> 0, size |-> sz]
    BY <1>2 DEF Block
  <2>2. ResetBlocks(sz) = x
    BY <1>2 DEF ResetBlocks
  <2>3. x[1].addr = 0 /\ x[1].size = sz
    BY <2>1
  <2> HIDE DEF x
  <2>4. End(x[1]) = sz
    BY <2>3 DEF End
  <2>5. \A i \in 1..Len(x) : End(x[i]) <= sz
    <3>1. \A i \in 1..Len(x) : i = 1
      BY <2>1
    <3> QED
      BY <2>4, <3>1
  <2>6. \A i, j \in 1..Len(x) : ~(i < j)
    BY <2>1
  <2> QED
    BY <2>1, <2>2, <2>4, <2>5, <2>6 DEF Sorted
<1> QED
  BY <1>1, <1>2

(* The block that fits best exists where one fits. *)
LEMMA BestFitIn ==
    ASSUME NEW free \in Seq(Block), NEW n \in Nat
    PROVE  /\ BestFit(free, n) \in 0..Len(free)
           /\ BestFit(free, n) # 0 => free[BestFit(free, n)].size >= n
<1> DEFINE fits == {i \in 1..(Len(free) - 1) : free[i].size >= n}
           Best(i) == \A j \in fits : \/ free[i].size < free[j].size
                                      \/ free[i].size = free[j].size /\ i >= j
<1>0. Len(free) \in Nat /\ \A i \in 1..Len(free) : free[i].size \in Nat
  BY BlocksOf
<1>1. CASE fits # {}
  <2> DEFINE Sizs == {free[i].size : i \in fits}
  <2>1. Sizs \in SUBSET Nat /\ Sizs # {}
    <3>1. \A i \in fits : free[i].size \in Nat
      BY <1>0
    <3> QED
      BY <1>1, <3>1
  <2>2. PICK s \in Sizs : \A r \in Sizs : s <= r
    <3> HIDE DEF Sizs
    <3> QED
      BY <2>1, LeastOf
  <2> DEFINE Least == {i \in fits : free[i].size = s}
  <2>3. Least \in SUBSET (0..Len(free)) /\ Least # {}
    BY <1>0, <2>2
  <2>4. PICK i \in Least : \A j \in Least : j <= i
    <3> HIDE DEF Least
    <3> QED
      BY <1>0, <2>3, GreatestOf
  <2>5. i \in fits /\ Best(i)
    <3>1. ASSUME NEW j \in fits PROVE free[i].size < free[j].size \/ (free[i].size = free[j].size /\ i >= j)
      <4>1. s <= free[j].size /\ free[i].size = s /\ s \in Nat /\ free[j].size \in Nat
        BY <1>0, <2>1, <2>2, <2>4
      <4>2. CASE free[j].size = s
        BY <2>3, <2>4, <4>1, <4>2
      <4>3. CASE free[j].size # s
        BY <4>1, <4>3
      <4> QED
        BY <4>2, <4>3
    <3> QED
      BY <2>4, <3>1
  <2> HIDE DEF Best
  <2>6. (CHOOSE x \in fits : Best(x)) \in fits
    BY <2>5
  <2>7. BestFit(free, n) = CHOOSE x \in fits : Best(x)
    BY <1>1 DEF BestFit, Best
  <2> QED
    BY <1>0, <2>6, <2>7
<1>2. CASE fits = {}
  <2>1. BestFit(free, n) = IF Len(free) > 0 /\ free[Len(free)].size >= n THEN Len(free) ELSE 0
    BY <1>2 DEF BestFit
  <2> QED
    BY <1>0, <2>1
<1> QED
  BY <1>1, <1>2

(* The start of a block is taken out of the list, the block when all of it *)
(* is.                                                                     *)
Rest(block, n) == [addr |-> block.addr + n, size |-> block.size - n]

(* A tensor taken from the front of a block that is large enough: the      *)
(* blocks left are in order, free of the tensor, and of whatever they were *)
(* free of before.                                                         *)
LEMMA TakenFrom ==
    ASSUME NEW sz \in Nat, NEW free, Sorted(free, sz), NEW n \in Nat \ {0},
           NEW i \in 1..Len(free), free[i].size >= n,
           NEW left, left = IF Rest(free[i], n).size = 0 THEN RemoveAt(free, i)
                            ELSE ReplaceAt(free, i, Rest(free[i], n))
    PROVE  /\ Sorted(left, sz)
           /\ free[i].addr \in Nat /\ free[i].addr + n <= sz
           /\ Clear(left, free[i].addr, free[i].addr + n)
           /\ \A lo, hi \in Nat : Clear(free, lo, hi) => Clear(left, lo, hi)
           /\ \A lo, hi \in Nat : lo < hi /\ Clear(free, lo, hi) =>
                 hi <= free[i].addr \/ free[i].addr + n <= lo
<1> DEFINE x == free[i].addr
<1>0. free \in Seq(Block) /\ Len(free) \in Nat
      /\ \A j \in 1..Len(free) : free[j] \in Block /\ free[j].addr \in Nat /\ free[j].size \in Nat \ {0}
                                 /\ End(free[j]) = free[j].addr + free[j].size
  BY BlocksOf DEF Sorted
<1>1. x \in Nat /\ x + n <= sz /\ x + n <= End(free[i])
  BY <1>0 DEF Sorted
<1>2. \A lo, hi \in Nat : lo < hi /\ Clear(free, lo, hi) => hi <= x \/ x + n <= lo
  BY <1>0, <1>1 DEF Clear
<1>5. ASSUME NEW k \in 1..Len(free), k # i
      PROVE  x + n <= free[k].addr \/ End(free[k]) <= x
  <2>1. CASE k < i
    <3>1. End(free[k]) < x
      BY <2>1 DEF Sorted
    <3>2. End(free[k]) = free[k].addr + free[k].size
          /\ free[k].addr \in Nat /\ free[k].size \in Nat
      BY <1>0
    <3>3. End(free[k]) \in Nat
      BY <3>2
    <3> HIDE DEF x
    <3> QED
      BY <1>1, <3>1, <3>3
  <2>2. CASE i < k
    <3>1. End(free[i]) < free[k].addr
      BY <2>2 DEF Sorted
    <3> QED
      BY <1>0, <1>1, <3>1
  <2> QED
    BY <1>5, <2>1, <2>2
<1>3. CASE free[i].size = n
  <2>1. left = RemoveAt(free, i)
    BY <1>0, <1>3 DEF Rest
  <2>2. /\ left \in Seq(Block) /\ Len(left) = Len(free) - 1
        /\ \A j \in 1..(Len(free) - 1) : left[j] = IF j < i THEN free[j] ELSE free[j + 1]
    BY <1>0, <2>1, Removed
  <2>3. ASSUME NEW j \in 1..Len(left), NEW k \in 1..Len(left), j < k
        PROVE  End(left[j]) < left[k].addr
    <3>1. PICK u, v \in 1..Len(free) : u < v /\ left[j] = free[u] /\ left[k] = free[v]
      <4> DEFINE At(y) == IF y < i THEN y ELSE y + 1
      <4>1. At(j) \in 1..Len(free) /\ At(k) \in 1..Len(free) /\ At(j) < At(k)
        BY <1>0, <2>2, <2>3
      <4>2. left[j] = free[At(j)] /\ left[k] = free[At(k)]
        BY <2>2
      <4> QED
        BY <4>1, <4>2
    <3> QED
      BY <3>1 DEF Sorted
  <2>4. \A j \in 1..Len(left) : \E k \in 1..Len(free) : left[j] = free[k] /\ k # i
    <3> SUFFICES ASSUME NEW j \in 1..Len(left)
                 PROVE  \E k \in 1..Len(free) : left[j] = free[k] /\ k # i
      OBVIOUS
    <3>0. i \in Nat /\ j \in Nat /\ j \in 1..(Len(free) - 1)
      BY <1>0, <2>2
    <3>1. CASE j < i
      <4>1. j \in 1..Len(free) /\ j # i
        BY <1>0, <3>0, <3>1
      <4>2. left[j] = free[j]
        BY <2>2, <3>0, <3>1
      <4> QED
        BY <4>1, <4>2
    <3>2. CASE ~(j < i)
      <4>1. j + 1 \in 1..Len(free) /\ j + 1 # i
        BY <1>0, <3>0, <3>2
      <4>2. left[j] = free[j + 1]
        BY <2>2, <3>0, <3>2
      <4> QED
        BY <4>1, <4>2
    <3> QED
      BY <3>1, <3>2
  <2>5. \A j \in 1..Len(left) : End(left[j]) <= sz
    BY <2>4 DEF Sorted
  <2>6. Clear(left, x, x + n)
    BY <1>5, <2>4 DEF Clear
  <2>7. \A lo, hi \in Nat : Clear(free, lo, hi) => Clear(left, lo, hi)
    BY <2>4 DEF Clear
  <2> QED
    BY <1>1, <1>2, <2>2, <2>3, <2>5, <2>6, <2>7 DEF Sorted
<1>4. CASE free[i].size # n
  <2> DEFINE e == Rest(free[i], n)
  <2>1. left = ReplaceAt(free, i, e) /\ e \in Block /\ e.addr = x + n /\ End(e) = End(free[i])
    <3>1. x + n \in Nat /\ free[i].size - n \in Nat \ {0}
      BY <1>0, <1>4
    <3>2. e = [addr |-> x + n, size |-> free[i].size - n]
      BY DEF Rest
    <3>3. e.addr = x + n /\ e.size = free[i].size - n /\ e \in Block
      BY <3>1, <3>2 DEF Block
    <3>4. left = ReplaceAt(free, i, e)
      BY <1>0, <1>4, <3>3
    <3>5. End(e) = End(free[i])
      BY <1>0, <3>3 DEF End
    <3> QED
      BY <3>3, <3>4, <3>5
  <2> HIDE DEF e
  <2>2. /\ left \in Seq(Block) /\ Len(left) = Len(free)
        /\ \A j \in 1..Len(free) : left[j] = IF j = i THEN e ELSE free[j]
    BY <1>0, <2>1, Replaced
  <2>3. ASSUME NEW j \in 1..Len(left), NEW k \in 1..Len(left), j < k
        PROVE  End(left[j]) < left[k].addr
    <3>1. End(free[j]) < free[k].addr
      BY <2>2, <2>3 DEF Sorted
    <3>2. CASE j = i
      BY <2>1, <2>2, <2>3, <3>1, <3>2
    <3>3. CASE k = i
      <4>1. left[j] = free[j] /\ left[k] = e /\ free[k].addr = x
        BY <2>2, <2>3, <3>3
      <4>2. left[k].addr = x + n
        BY <2>1, <4>1
      <4>3. End(free[j]) < x
        BY <3>1, <4>1
      <4>4. End(free[j]) \in Nat
        <5>1. j \in 1..Len(free)
          BY <2>2
        <5>2. free[j].addr \in Nat /\ free[j].size \in Nat
              /\ End(free[j]) = free[j].addr + free[j].size
          BY <1>0, <5>1
        <5> QED
          BY <5>2
      <4>5. End(left[j]) = End(free[j])
        BY <4>1
      <4> HIDE DEF x
      <4> QED
        BY <1>1, <4>2, <4>3, <4>4, <4>5
    <3>4. CASE j # i /\ k # i
      BY <2>2, <3>1, <3>4
    <3> QED
      BY <3>2, <3>3, <3>4
  <2>4. ASSUME NEW j \in 1..Len(left)
        PROVE  End(left[j]) <= sz /\ (x + n <= left[j].addr \/ End(left[j]) <= x)
    <3>1. CASE j = i
      <4>1. left[j] = e /\ End(free[i]) <= sz
        BY <2>2, <3>1 DEF Sorted
      <4> QED
        BY <1>0, <1>1, <2>1, <4>1
    <3>2. CASE j # i
      <4>1. left[j] = free[j] /\ End(free[j]) <= sz
        BY <2>2, <3>2 DEF Sorted
      <4> QED
        BY <1>5, <2>2, <3>2, <4>1
    <3> QED
      BY <3>1, <3>2
  <2>5. Clear(left, x, x + n)
    BY <2>4 DEF Clear
  <2>6. ASSUME NEW lo \in Nat, NEW hi \in Nat, Clear(free, lo, hi) PROVE Clear(left, lo, hi)
    <3>1. \A k \in 1..Len(free) : hi <= free[k].addr \/ End(free[k]) <= lo
      BY <2>6 DEF Clear
    <3>2. hi <= e.addr \/ End(e) <= lo
      BY <1>0, <1>1, <2>1, <3>1
    <3> QED
      BY <2>2, <3>1, <3>2 DEF Clear
  <2> QED
    BY <1>1, <1>2, <2>2, <2>3, <2>4, <2>5, <2>6 DEF Sorted
<1> QED
  BY <1>3, <1>4

(* A block replaced, removed or inserted where the order allows it. *)
LEMMA SortedReplace ==
    ASSUME NEW sz \in Nat, NEW free, Sorted(free, sz), NEW i \in 1..Len(free), NEW e \in Block,
           End(e) <= sz,
           \A k \in 1..Len(free) : k < i => End(free[k]) < e.addr,
           \A k \in 1..Len(free) : i < k => End(e) < free[k].addr
    PROVE  /\ Sorted(ReplaceAt(free, i, e), sz)
           /\ Len(ReplaceAt(free, i, e)) = Len(free)
           /\ \A k \in 1..Len(free) : ReplaceAt(free, i, e)[k] = IF k = i THEN e ELSE free[k]
           /\ \A lo, hi : Clear(free, lo, hi) /\ (hi <= e.addr \/ End(e) <= lo) =>
                 Clear(ReplaceAt(free, i, e), lo, hi)
<1> DEFINE left == ReplaceAt(free, i, e)
<1>0. free \in Seq(Block)
  BY DEF Sorted
<1>1. /\ left \in Seq(Block) /\ Len(left) = Len(free)
      /\ \A k \in 1..Len(free) : left[k] = IF k = i THEN e ELSE free[k]
  BY <1>0, Replaced
<1> HIDE DEF left
<1>2. ASSUME NEW j \in 1..Len(left), NEW k \in 1..Len(left), j < k
      PROVE  End(left[j]) < left[k].addr
  <2>1. End(free[j]) < free[k].addr
    BY <1>1, <1>2 DEF Sorted
  <2>2. CASE j = i
    BY <1>1, <1>2, <2>2
  <2>3. CASE k = i
    BY <1>1, <1>2, <2>3
  <2>4. CASE j # i /\ k # i
    BY <1>1, <2>1, <2>4
  <2> QED
    BY <2>2, <2>3, <2>4
<1>3. \A j \in 1..Len(left) : End(left[j]) <= sz
  BY <1>1 DEF Sorted
<1>4. \A lo, hi : Clear(free, lo, hi) /\ (hi <= e.addr \/ End(e) <= lo) => Clear(left, lo, hi)
  BY <1>1 DEF Clear
<1>5. Sorted(left, sz)
  BY <1>1, <1>2, <1>3 DEF Sorted
<1> QED
  BY <1>1, <1>4, <1>5 DEF left

(* A sorted list stays sorted when a block is removed, *)
LEMMA SortedRemove ==
    ASSUME NEW sz \in Nat, NEW free, Sorted(free, sz), NEW i \in 1..Len(free)
    PROVE  /\ Sorted(RemoveAt(free, i), sz)
           /\ \A lo, hi : (\A k \in 1..Len(free) : k # i => hi <= free[k].addr \/ End(free[k]) <= lo) =>
                 Clear(RemoveAt(free, i), lo, hi)
<1> DEFINE left == RemoveAt(free, i)
           At(y) == IF y < i THEN y ELSE y + 1
<1>0. free \in Seq(Block) /\ Len(free) \in Nat
  BY BlocksOf DEF Sorted
<1>1. /\ left \in Seq(Block) /\ Len(left) = Len(free) - 1
      /\ \A j \in 1..(Len(free) - 1) : left[j] = IF j < i THEN free[j] ELSE free[j + 1]
  BY <1>0, Removed
<1> HIDE DEF left
<1>2. \A j \in 1..Len(left) : At(j) \in 1..Len(free) /\ At(j) # i /\ left[j] = free[At(j)]
  BY <1>0, <1>1
<1>3. \A j, k \in 1..Len(left) : j < k => At(j) < At(k)
  BY <1>0, <1>1
<1> HIDE DEF At
<1>4. Sorted(left, sz)
  BY <1>1, <1>2, <1>3 DEF Sorted
<1>5. ASSUME NEW lo, NEW hi, \A k \in 1..Len(free) : k # i => hi <= free[k].addr \/ End(free[k]) <= lo
      PROVE  Clear(left, lo, hi)
  BY <1>2, <1>5 DEF Clear
<1> QED
  BY <1>4, <1>5 DEF left

(* or inserted where it touches none of its neighbours. *)
LEMMA SortedInsert ==
    ASSUME NEW sz \in Nat, NEW free, Sorted(free, sz), NEW i \in 1..(Len(free) + 1),
           NEW e \in Block, End(e) <= sz,
           \A k \in 1..Len(free) : k < i => End(free[k]) < e.addr,
           \A k \in 1..Len(free) : i <= k => End(e) < free[k].addr
    PROVE  /\ Sorted(InsertAt(free, i, e), sz)
           /\ \A lo, hi : Clear(free, lo, hi) /\ (hi <= e.addr \/ End(e) <= lo) =>
                 Clear(InsertAt(free, i, e), lo, hi)
<1> DEFINE left == InsertAt(free, i, e)
           At(y) == IF y < i THEN y ELSE y - 1
<1>0. free \in Seq(Block) /\ Len(free) \in Nat
  BY BlocksOf DEF Sorted
<1>1. /\ left \in Seq(Block) /\ Len(left) = Len(free) + 1
      /\ \A j \in 1..(Len(free) + 1) :
            left[j] = IF j < i THEN free[j] ELSE IF j = i THEN e ELSE free[j - 1]
  BY <1>0, Inserted
<1> HIDE DEF left
<1>2. /\ left[i] = e
      /\ \A j \in 1..Len(left) : j # i => At(j) \in 1..Len(free) /\ left[j] = free[At(j)]
  BY <1>0, <1>1
<1>3. /\ \A j, k \in 1..Len(left) : j < k /\ j # i /\ k # i => At(j) < At(k)
      /\ \A j \in 1..Len(left) : (j < i => At(j) < i) /\ (i < j => i <= At(j))
  BY <1>0, <1>1
<1> HIDE DEF At
<1>4. ASSUME NEW j \in 1..Len(left), NEW k \in 1..Len(left), j < k
      PROVE  End(left[j]) < left[k].addr
  <2>1. CASE j = i
    BY <1>2, <1>3, <1>4, <2>1
  <2>2. CASE k = i
    BY <1>2, <1>3, <1>4, <2>2
  <2>3. CASE j # i /\ k # i
    BY <1>2, <1>3, <1>4, <2>3 DEF Sorted
  <2> QED
    BY <2>1, <2>2, <2>3
<1>5. ASSUME NEW j \in 1..Len(left) PROVE End(left[j]) <= sz
  BY <1>2 DEF Sorted
<1>6. ASSUME NEW lo, NEW hi, Clear(free, lo, hi), hi <= e.addr \/ End(e) <= lo
      PROVE  Clear(left, lo, hi)
  BY <1>2, <1>6 DEF Clear
<1>7. Sorted(left, sz)
  BY <1>1, <1>4, <1>5 DEF Sorted
<1> QED
  BY <1>6, <1>7 DEF left

(* The blocks below an address are the first ones. *)
LEMMA BelowFirst ==
    ASSUME NEW sz \in Nat, NEW free, Sorted(free, sz), NEW x \in Nat
    PROVE  LET n == Cardinality({i \in DOMAIN free : free[i].addr < x})
           IN  n \in 0..Len(free) /\ \A i \in 1..Len(free) : i <= n <=> free[i].addr < x
<1> DEFINE T == {i \in DOMAIN free : free[i].addr < x}
           N == {j \in 1..(Len(free) + 1) : j \notin T}
<1>0. free \in Seq(Block) /\ Len(free) \in Nat /\ DOMAIN free = 1..Len(free)
      /\ \A i \in 1..Len(free) : free[i].addr \in Nat /\ free[i].size > 0 /\ free[i].size \in Nat
                                 /\ End(free[i]) = free[i].addr + free[i].size
  BY BlocksOf, LenProperties DEF Sorted
<1>1. N \in SUBSET Nat /\ Len(free) + 1 \in N
  BY <1>0
<1>2. PICK m \in N : \A j \in N : m <= j
  <2> HIDE DEF N
  <2> QED
    BY <1>1, LeastOf
<1>3. \A i \in 1..Len(free) : i < m => i \in T
  BY <1>0, <1>2
<1>4. ASSUME NEW i \in 1..Len(free), i \in T PROVE i < m
  <2>1. CASE m < i
    <3>1. m \in 1..Len(free) /\ ~(free[m].addr < x)
      BY <1>0, <1>2, <2>1
    <3>2. End(free[m]) < free[i].addr
      BY <2>1, <3>1 DEF Sorted
    <3> QED
      BY <1>0, <1>4, <3>1, <3>2
  <2>2. m # i
    BY <1>2, <1>4
  <2> QED
    BY <1>0, <1>2, <2>1, <2>2
<1>5. T = 1..(m - 1)
  BY <1>0, <1>2, <1>3, <1>4
<1>6. Cardinality(T) = m - 1
  <2>1. m - 1 \in Int /\ 1 \in Int /\ m - 1 >= 0
    BY <1>0, <1>2
  <2>2. Cardinality(1..(m - 1)) = IF 1 > m - 1 THEN 0 ELSE (m - 1) - 1 + 1
    BY <2>1, FS_Interval
  <2>3. Cardinality(1..(m - 1)) = m - 1
    BY <2>1, <2>2
  <2> QED
    BY <1>5, <2>3
<1>7. m - 1 \in 0..Len(free)
  BY <1>0, <1>2
<1>8. ASSUME NEW i \in 1..Len(free) PROVE i <= m - 1 <=> free[i].addr < x
  <2>1. i \in T <=> free[i].addr < x
    BY <1>0
  <2>2. i <= m - 1 <=> i < m
    BY <1>7
  <2> QED
    BY <1>3, <1>4, <2>1, <2>2
<1> HIDE DEF N
<1> QED
  BY <1>6, <1>7, <1>8

(* Giving a block back: the list stays sorted, and what it did not hold and *)
(* is not in the block it does not hold afterwards.                        *)
LEMMA GiveBackFacts ==
    ASSUME NEW sz \in Nat, NEW free, Sorted(free, sz), NEW block \in Block, End(block) <= sz,
           Clear(free, block.addr, End(block))
    PROVE  /\ Sorted(GiveBack(free, block), sz)
           /\ \A lo, hi \in Nat :
                lo < hi /\ Clear(free, lo, hi) /\ (hi <= block.addr \/ End(block) <= lo) =>
                   Clear(GiveBack(free, block), lo, hi)
<1> DEFINE before == {i \in DOMAIN free : End(free[i]) = block.addr}
           after  == {i \in DOMAIN free : free[i].addr = End(block)}
           below  == Cardinality({i \in DOMAIN free : free[i].addr < block.addr})
           Apart(lo, hi) == lo < hi /\ Clear(free, lo, hi) /\ (hi <= block.addr \/ End(block) <= lo)
<1>0. /\ free \in Seq(Block) /\ Len(free) \in Nat /\ DOMAIN free = 1..Len(free)
      /\ \A i \in 1..Len(free) : /\ free[i] \in Block
                                 /\ free[i].addr \in Nat /\ free[i].size > 0 /\ free[i].size \in Nat
                                 /\ End(free[i]) = free[i].addr + free[i].size /\ End(free[i]) \in Nat
  BY BlocksOf, LenProperties DEF Sorted
<1>1. /\ block.addr \in Nat /\ block.size \in Nat /\ block.size > 0
      /\ End(block) = block.addr + block.size /\ End(block) \in Nat
  BY BlockFacts
<1>2. \A k \in 1..Len(free) : End(block) <= free[k].addr \/ End(free[k]) <= block.addr
  BY DEF Clear
<1>3. \A j, k \in 1..Len(free) : j < k => End(free[j]) < free[k].addr
  BY DEF Sorted
<1>4. \A k \in 1..Len(free) : End(free[k]) <= sz
  BY DEF Sorted
<1>8. /\ \A k \in 1..Len(free) : /\ free[k].addr \in Nat /\ End(free[k]) \in Nat
                                 /\ free[k].addr < End(free[k])
      /\ block.addr \in Nat /\ End(block) \in Nat /\ block.addr < End(block)
  BY <1>0, <1>1
<1>5. CASE before # {}
  <2> DEFINE i == CHOOSE x \in before : TRUE
             grown == [free[i] EXCEPT !.size = @ + block.size]
             wide == ReplaceAt(free, i, grown)
  <2>1. i \in 1..Len(free) /\ End(free[i]) = block.addr
    BY <1>0, <1>5
  <2>2. grown = [addr |-> free[i].addr, size |-> free[i].size + block.size]
    <3>1. \A x \in Block : [x EXCEPT !.size = @ + block.size]
                           = [addr |-> x.addr, size |-> x.size + block.size]
      BY DEF Block
    <3> HIDE DEF i
    <3> QED
      BY <1>0, <2>1, <3>1
  <2> HIDE DEF i
  <2>3. grown.addr = free[i].addr /\ grown.size = free[i].size + block.size /\ grown \in Block
    BY <1>0, <1>1, <2>1, <2>2 DEF Block
  <2>4. End(grown) = End(block)
    <3> HIDE DEF grown
    <3> QED
      BY <1>0, <1>1, <2>1, <2>3 DEF End
  <2> HIDE DEF grown
  <2>5. \A k \in 1..Len(free) : k < i => End(free[k]) < grown.addr
    BY <1>3, <2>1, <2>3
  <2>6. ASSUME NEW k \in 1..Len(free), i < k PROVE End(block) <= free[k].addr
    <3>1. block.addr < free[k].addr
      BY <1>3, <2>1, <2>6
    <3> QED
      BY <1>2, <1>8, <3>1
  <2>7. ASSUME NEW lo \in Nat, NEW hi \in Nat, Apart(lo, hi)
        PROVE  hi <= grown.addr \/ End(block) <= lo
    <3>1. hi <= free[i].addr \/ End(free[i]) <= lo
      BY <2>1, <2>7 DEF Clear
    <3> QED
      BY <1>0, <1>1, <2>1, <2>3, <2>7, <3>1
  <2>8. CASE after = {}
    <3>1. \A k \in 1..Len(free) : i < k => End(grown) < free[k].addr
      BY <1>0, <1>1, <2>4, <2>6, <2>8
    <3>2. /\ Sorted(wide, sz)
          /\ \A lo, hi : Clear(free, lo, hi) /\ (hi <= grown.addr \/ End(grown) <= lo) => Clear(wide, lo, hi)
      BY <2>1, <2>3, <2>4, <2>5, <3>1, SortedReplace
    <3>3. GiveBack(free, block) = wide
      BY <1>5, <2>8 DEF GiveBack, i, grown
    <3> HIDE DEF wide
    <3> QED
      BY <2>4, <2>7, <3>2, <3>3
  <2>9. CASE after # {}
    <3> DEFINE m == [addr |-> free[i].addr, size |-> End(free[i + 1]) - free[i].addr]
               joined == ReplaceAt(free, i, m)
    <3>1. i + 1 \in 1..Len(free) /\ free[i + 1].addr = End(block)
      <4>1. PICK k \in 1..Len(free) : free[k].addr = End(block)
        BY <1>0, <2>9
      <4>2. i < k
        <5>1. CASE k < i
          <6>1. End(free[k]) < free[i].addr
            BY <1>3, <2>1, <4>1, <5>1
          <6> QED
            BY <1>8, <2>1, <4>1, <6>1
        <5>2. k # i
          BY <1>0, <1>1, <2>1, <4>1
        <5> QED
          BY <2>1, <5>1, <5>2
      <4>3. CASE i + 1 < k
        <5>1. i + 1 \in 1..Len(free) /\ i < i + 1
          BY <2>1, <4>3, <1>0
        <5>2. End(free[i + 1]) < free[k].addr /\ End(block) <= free[i + 1].addr
          BY <1>3, <2>6, <4>3, <5>1
        <5> QED
          BY <1>0, <1>1, <4>1, <5>1, <5>2
      <4> QED
        BY <2>1, <4>1, <4>2, <4>3
    <3>2. End(free[i + 1]) - free[i].addr \in Nat /\ End(free[i + 1]) - free[i].addr > 0
      <4>1. /\ free[i].addr < End(free[i]) /\ End(free[i]) < End(block)
            /\ End(block) < End(free[i + 1])
        BY <1>8, <2>1, <3>1
      <4> QED
        BY <1>8, <2>1, <3>1, <4>1
    <3>3. m \in Block /\ m.addr = free[i].addr /\ m.size = End(free[i + 1]) - free[i].addr
      BY <1>0, <2>1, <3>2 DEF Block
    <3> HIDE DEF m
    <3>4. End(m) = End(free[i + 1])
      BY <1>0, <2>1, <3>1, <3>3 DEF End
    <3>5. GiveBack(free, block) = RemoveAt(joined, i + 1)
      BY <1>5, <2>9 DEF GiveBack, i, m
    <3> DEFINE less == RemoveAt(free, i + 1)
    <3>6. ASSUME NEW j \in 1..Len(free), j # i + 1 PROVE i < j => End(m) < free[j].addr
      <4> SUFFICES ASSUME i < j PROVE End(m) < free[j].addr
        OBVIOUS
      <4>1. i + 1 < j
        BY <2>1, <3>6
      <4> QED
        BY <1>3, <3>1, <3>4, <4>1
    <3>7. Sorted(less, sz) /\ Len(less) = Len(free) - 1 /\ i \in 1..Len(less)
          /\ \A j \in 1..Len(less) : less[j] = IF j < i + 1 THEN free[j] ELSE free[j + 1]
      <4>1. Sorted(less, sz)
        BY <3>1, SortedRemove
      <4>2. Len(less) = Len(free) - 1
            /\ \A j \in 1..(Len(free) - 1) : less[j] = IF j < i + 1 THEN free[j] ELSE free[j + 1]
        BY <1>0, <3>1, Removed
      <4>3. i \in 1..(Len(free) - 1)
        BY <1>0, <2>1, <3>1
      <4> QED
        BY <4>1, <4>2, <4>3
    <3> HIDE DEF less
    <3>8. RemoveAt(joined, i + 1) = ReplaceAt(less, i, m)
      <4>1. /\ joined \in Seq(Block) /\ Len(joined) = Len(free)
            /\ \A j \in 1..Len(free) : joined[j] = IF j = i THEN m ELSE free[j]
        BY <1>0, <2>1, <3>3, Replaced
      <4> HIDE DEF joined
      <4>2. /\ RemoveAt(joined, i + 1) \in Seq(Block) /\ Len(RemoveAt(joined, i + 1)) = Len(free) - 1
            /\ \A j \in 1..(Len(free) - 1) :
                  RemoveAt(joined, i + 1)[j] = IF j < i + 1 THEN joined[j] ELSE joined[j + 1]
        BY <3>1, <4>1, Removed
      <4>3. less \in Seq(Block)
        BY <3>7 DEF Sorted
      <4>4. /\ ReplaceAt(less, i, m) \in Seq(Block) /\ Len(ReplaceAt(less, i, m)) = Len(less)
            /\ \A j \in 1..Len(less) : ReplaceAt(less, i, m)[j] = IF j = i THEN m ELSE less[j]
        <5>1. m \in Block /\ i \in 1..Len(less)
          BY <3>3, <3>7
        <5> QED
          BY <4>3, <5>1, Replaced
      <4>5. ASSUME NEW j \in 1..Len(less)
            PROVE  RemoveAt(joined, i + 1)[j] = ReplaceAt(less, i, m)[j]
        <5>1. CASE j < i + 1
          BY <1>0, <2>1, <3>7, <4>1, <4>2, <4>4, <5>1
        <5>2. CASE ~(j < i + 1)
          <6>1. j + 1 \in 1..Len(free) /\ j + 1 # i /\ j # i
            BY <1>0, <2>1, <3>7, <5>2
          <6>2. RemoveAt(joined, i + 1)[j] = joined[j + 1] /\ joined[j + 1] = free[j + 1]
            BY <1>0, <3>7, <4>1, <4>2, <5>2, <6>1
          <6> QED
            BY <3>7, <4>4, <5>2, <6>1, <6>2
        <5> QED
          BY <5>1, <5>2
      <4>6. Len(RemoveAt(joined, i + 1)) = Len(ReplaceAt(less, i, m))
            /\ \A j \in 1..Len(RemoveAt(joined, i + 1)) :
                  RemoveAt(joined, i + 1)[j] = ReplaceAt(less, i, m)[j]
        BY <3>7, <4>2, <4>4, <4>5
      <4> HIDE DEF joined
      <4> QED
        BY <4>2, <4>4, <4>6, SeqEqual
    <3>9. /\ \A j \in 1..Len(less) : j < i => End(less[j]) < m.addr
          /\ \A j \in 1..Len(less) : i < j => End(m) < less[j].addr
      <4>1. ASSUME NEW j \in 1..Len(less), j < i PROVE End(less[j]) < m.addr
        BY <1>0, <1>3, <2>1, <3>3, <3>7, <4>1
      <4>2. ASSUME NEW j \in 1..Len(less), i < j PROVE End(m) < less[j].addr
        <5>1. j + 1 \in 1..Len(free) /\ j + 1 # i + 1 /\ i < j + 1 /\ less[j] = free[j + 1]
          BY <1>0, <2>1, <3>7, <4>2
        <5> QED
          BY <3>6, <5>1
      <4> QED
        BY <4>1, <4>2
    <3>10. /\ Sorted(ReplaceAt(less, i, m), sz)
           /\ \A lo, hi : Clear(less, lo, hi) /\ (hi <= m.addr \/ End(m) <= lo) =>
                 Clear(ReplaceAt(less, i, m), lo, hi)
      <4>1. End(m) <= sz
        BY <1>4, <3>1, <3>4
      <4> QED
        BY <3>3, <3>7, <3>9, <4>1, SortedReplace
    <3>11. ASSUME NEW lo \in Nat, NEW hi \in Nat, Apart(lo, hi)
           PROVE  Clear(less, lo, hi) /\ (hi <= m.addr \/ End(m) <= lo)
      <4>1. Clear(less, lo, hi)
        <5>1. \A k \in 1..Len(free) : k # i + 1 => hi <= free[k].addr \/ End(free[k]) <= lo
          BY <3>11 DEF Clear
        <5> QED
          BY <3>1, <5>1, SortedRemove DEF less
      <4>2. hi <= free[i].addr \/ End(block) <= lo
        BY <2>3, <2>7, <3>11
      <4>3. hi <= free[i + 1].addr \/ End(free[i + 1]) <= lo
        BY <3>1, <3>11 DEF Clear
      <4>4. hi <= m.addr \/ End(m) <= lo
        BY <1>0, <1>1, <2>1, <3>1, <3>3, <3>4, <3>11, <4>2, <4>3
      <4> QED
        BY <4>1, <4>4
    <3> HIDE DEF joined
    <3> QED
      BY <3>5, <3>8, <3>10, <3>11
  <2> QED
    BY <2>8, <2>9
<1>6. CASE before = {} /\ after # {}
  <2> DEFINE i == CHOOSE x \in after : TRUE
             grown == [addr |-> block.addr, size |-> free[i].size + block.size]
             wide == ReplaceAt(free, i, grown)
  <2>1. i \in 1..Len(free) /\ free[i].addr = End(block)
    BY <1>0, <1>6
  <2> HIDE DEF i
  <2>2. grown.addr = block.addr /\ grown.size = free[i].size + block.size /\ grown \in Block
    BY <1>0, <1>1, <2>1 DEF Block
  <2> HIDE DEF grown
  <2>3. End(grown) = End(free[i])
    BY <1>0, <1>1, <2>1, <2>2 DEF End
  <2>4. ASSUME NEW k \in 1..Len(free), k < i PROVE End(free[k]) < grown.addr
    <3>1. End(free[k]) < End(block)
      BY <1>3, <2>1, <2>4
    <3>2. End(free[k]) <= block.addr /\ End(free[k]) # block.addr
      BY <1>0, <1>1, <1>2, <1>6, <3>1
    <3> QED
      BY <1>0, <1>1, <2>2, <3>2
  <2>5. \A k \in 1..Len(free) : i < k => End(grown) < free[k].addr
    BY <1>3, <2>1, <2>3
  <2>6. /\ Sorted(wide, sz)
        /\ \A lo, hi : Clear(free, lo, hi) /\ (hi <= grown.addr \/ End(grown) <= lo) => Clear(wide, lo, hi)
    <3>1. End(grown) <= sz
      BY <1>4, <2>1, <2>3
    <3> QED
      BY <2>1, <2>2, <2>4, <2>5, <3>1, SortedReplace
  <2>7. ASSUME NEW lo \in Nat, NEW hi \in Nat, Apart(lo, hi)
        PROVE  hi <= grown.addr \/ End(grown) <= lo
    <3>1. hi <= free[i].addr \/ End(free[i]) <= lo
      BY <2>1, <2>7 DEF Clear
    <3> QED
      BY <1>0, <1>1, <2>1, <2>2, <2>3, <2>7, <3>1
  <2>8. GiveBack(free, block) = wide
    BY <1>6 DEF GiveBack, i, grown
  <2> HIDE DEF wide
  <2> QED
    BY <2>6, <2>7, <2>8
<1>7. CASE before = {} /\ after = {}
  <2>1. below \in 0..Len(free) /\ \A i \in 1..Len(free) : i <= below <=> free[i].addr < block.addr
    BY <1>1, BelowFirst
  <2>2. GiveBack(free, block) = InsertAt(free, below + 1, block)
    BY <1>7 DEF GiveBack
  <2> HIDE DEF below
  <2>3. ASSUME NEW k \in 1..Len(free), k < below + 1 PROVE End(free[k]) < block.addr
    <3>1. free[k].addr < block.addr
      BY <1>0, <2>1, <2>3
    <3>2. End(free[k]) # block.addr
      BY <1>0, <1>7
    <3> QED
      BY <1>2, <1>8, <3>1, <3>2
  <2>4. ASSUME NEW k \in 1..Len(free), below + 1 <= k PROVE End(block) < free[k].addr
    <3>1. ~(free[k].addr < block.addr)
      BY <1>0, <2>1, <2>4
    <3>2. End(block) <= free[k].addr /\ free[k].addr # End(block)
      <4>1. free[k].addr # End(block)
        BY <1>0, <1>7
      <4> QED
        BY <1>2, <1>8, <3>1, <4>1
    <3> QED
      BY <1>0, <1>1, <3>2
  <2>5. below + 1 \in 1..(Len(free) + 1)
    BY <1>0, <2>1
  <2> QED
    BY <2>2, <2>3, <2>4, <2>5, SortedInsert
<1> QED
  BY <1>5, <1>6, <1>7

(***************************************************************************)
(* The invariant of an allocation.  P is the set of the tensors that have  *)
(* their memory, sz the size of the buffer.                                *)
(***************************************************************************)
Ops == {"none", "matmul", "add", "scale", "view", "copy"}

Tensor == [op : Ops, src : Seq(Nat), size : Nat \ {0}, view : Nat, offs : Nat]

Allocation(ts) ==
    [free : Seq(Block), data : [DOMAIN ts -> Int], view : [DOMAIN ts -> Int],
     children : [DOMAIN ts -> Int], views : [DOMAIN ts -> Int],
     max : Nat, failed : BOOLEAN]

\* A view lies inside what it is a view of, which is no view itself.
Shape(ts) ==
    /\ ts \in Seq(Tensor)
    /\ Cache \in DOMAIN ts /\ ts[Cache].view = NoTensor
    /\ \A t \in DOMAIN ts :
          LET b == ts[t].view
          IN  /\ b = NoTensor => ts[t].offs = 0
              /\ b # NoTensor => /\ b \in DOMAIN ts /\ b < t /\ ts[b].view = NoTensor
                                 /\ ts[t].offs + ts[t].size <= ts[b].size

\* The tensor's memory is in this buffer.
Own(ts, t) == t # Cache /\ ts[t].view # Cache

\* Somebody still reads or views t; the active views of b; t or what is
\* viewed through it is still read.
Active(al, t) == al.children[t] > 0 \/ al.views[t] > 0
Users(ts, al, b) == {t \in DOMAIN ts : al.view[t] = b /\ Active(al, t)}
Held(ts, al, t) == al.children[t] > 0 \/ \E q \in DOMAIN ts : al.view[q] = t /\ al.children[q] > 0

\* Some tensor computed in place lies in b.
Taken(ts, al, b) == \E t \in DOMAIN ts : ts[t].view = NoTensor /\ al.view[t] = b

Overlap(ts, al, t, u) ==
    /\ al.data[t] < al.data[u] + ts[u].size
    /\ al.data[u] < al.data[t] + ts[t].size

\* One is a view of the other, or both are views of a third; an in-place
\* operation on a view adds a second level.
Related(al, t, u) ==
    \/ al.view[t] = u \/ al.view[u] = t
    \/ al.view[t] # NoTensor /\ al.view[t] = al.view[u]
    \/ al.view[t] # NoTensor /\ al.view[al.view[t]] = u
    \/ al.view[u] # NoTensor /\ al.view[al.view[u]] = t

\* No view is forgotten in the counts.
Viewed(ts, al) ==
    \A t \in DOMAIN ts : al.children[t] >= 0 /\ al.views[t] >= Cardinality(Users(ts, al, t))

\* What a tensor is a view of by now.
Based(ts, al, P) ==
    \A t \in DOMAIN ts :
       LET b == al.view[t]
       IN  /\ ts[t].view # NoTensor \/ t \notin P => b = ts[t].view
           /\ b # NoTensor => /\ b \in DOMAIN ts /\ b # t /\ ts[b].view = NoTensor
                              /\ t \in P => b \in P

\* Where it lies.
Lies(ts, al, P, sz) ==
    \A t \in DOMAIN ts :
       /\ t \notin P => al.data[t] = Null
       /\ t \in P /\ ~Own(ts, t) => al.data[t] = Foreign
       /\ t \in P /\ Own(ts, t) =>
            /\ al.data[t] \in Nat /\ al.data[t] + ts[t].size <= sz
            /\ LET b == al.view[t]
               IN  b # NoTensor => /\ Own(ts, b) /\ al.data[b] <= al.data[t]
                                   /\ al.data[t] + ts[t].size <= al.data[b] + ts[b].size

\* What is held is not free,
HeldNotFree(ts, al, P) ==
    \A t \in P : Own(ts, t) /\ Held(ts, al, t) =>
       Clear(al.free, al.data[t], al.data[t] + ts[t].size)

\* and shares cells only with what it is related to.
Nested(ts, al, P) ==
    \A t, u \in P : t # u /\ Own(ts, t) /\ Own(ts, u) /\ Held(ts, al, t) /\ Held(ts, al, u)
                    /\ Overlap(ts, al, t, u) => Related(al, t, u)

\* What was taken over has one user, the one that took it.
TakenAlone(ts, al) ==
    \A b \in DOMAIN ts : Taken(ts, al, b) =>
       al.children[b] = 0 /\ \A t, u \in Users(ts, al, b) : t = u

Sound(ts, al, P, sz) ==
    /\ al \in Allocation(ts)
    /\ Sorted(al.free, sz)
    /\ Viewed(ts, al)
    /\ Based(ts, al, P)
    /\ Lies(ts, al, P, sz)
    /\ HeldNotFree(ts, al, P)
    /\ Nested(ts, al, P)
    /\ TakenAlone(ts, al)

(* What the fields of the tensors of a graph are. *)
LEMMA SizesOf ==
    ASSUME NEW ts, Shape(ts)
    PROVE  /\ DOMAIN ts = 1..Len(ts) /\ Len(ts) \in Nat /\ 0 \notin DOMAIN ts
           /\ \A t \in DOMAIN ts : ts[t] \in Tensor /\ ts[t].size \in Nat /\ ts[t].size > 0
                                   /\ ts[t].offs \in Nat /\ ts[t].view \in Nat
<1>1. DOMAIN ts = 1..Len(ts) /\ Len(ts) \in Nat
  BY LenProperties DEF Shape
<1>2. \A t \in DOMAIN ts : ts[t] \in Tensor
  BY <1>1, ElementOfSeq DEF Shape
<1> QED
  BY <1>1, <1>2 DEF Tensor

(* A tensor has finitely many views and takers. *)
LEMMA UsersFinite ==
    ASSUME NEW ts, Shape(ts), NEW al, NEW b
    PROVE  IsFiniteSet(Users(ts, al, b)) /\ Cardinality(Users(ts, al, b)) \in Nat
<1>1. IsFiniteSet(DOMAIN ts)
  BY SizesOf, FS_Interval
<1>2. Users(ts, al, b) \subseteq DOMAIN ts
  BY DEF Users
<1> QED
  BY <1>1, <1>2, FS_Subset, FS_CardinalityType

(* A stretch without free blocks has none in a part of it. *)
LEMMA ClearWithin ==
    ASSUME NEW free \in Seq(Block), NEW lo \in Int, NEW hi \in Int, NEW from \in Int, NEW to \in Int,
           lo <= from, to <= hi, Clear(free, lo, hi)
    PROVE  Clear(free, from, to)
BY BlocksOf DEF Clear

(* Who is active counts among the views of its base; what is held is active. *)
LEMMA ActiveCounts ==
    ASSUME NEW ts, Shape(ts), NEW al \in Allocation(ts), Viewed(ts, al)
    PROVE  /\ \A t \in DOMAIN ts : al.views[t] \in Nat /\ al.children[t] \in Nat
           /\ \A t, b \in DOMAIN ts : al.view[t] = b /\ Active(al, t) => al.views[b] > 0
           /\ \A t \in DOMAIN ts : Held(ts, al, t) => Active(al, t)
           /\ \A t, u, b \in DOMAIN ts :
                 al.view[t] = b /\ Active(al, t) /\ al.view[u] = b /\ Active(al, u)
                 /\ al.views[b] <= 1 => t = u
<1>1. \A b : IsFiniteSet(Users(ts, al, b)) /\ Cardinality(Users(ts, al, b)) \in Nat
  BY UsersFinite
<1>2. \A t \in DOMAIN ts : al.views[t] \in Int /\ al.children[t] \in Int
  BY DEF Allocation
<1>3. \A t \in DOMAIN ts : al.views[t] \in Nat /\ al.children[t] \in Nat
  BY <1>1, <1>2 DEF Viewed
<1>4. ASSUME NEW t \in DOMAIN ts, NEW b \in DOMAIN ts, al.view[t] = b, Active(al, t)
      PROVE  al.views[b] > 0
  <2>1. Users(ts, al, b) # {}
    BY <1>4 DEF Users
  <2>2. Cardinality(Users(ts, al, b)) # 0
    BY <1>1, <2>1, FS_EmptySet
  <2> QED
    BY <1>1, <1>3, <2>2 DEF Viewed
<1>5. \A t \in DOMAIN ts : Held(ts, al, t) => Active(al, t)
  BY <1>4 DEF Held, Active
<1>6. ASSUME NEW t \in DOMAIN ts, NEW u \in DOMAIN ts, NEW b \in DOMAIN ts,
             al.view[t] = b, Active(al, t), al.view[u] = b, Active(al, u), al.views[b] <= 1, t # u
      PROVE  FALSE
  <2>1. {t, u} \subseteq Users(ts, al, b)
    BY <1>6 DEF Users
  <2>2. Cardinality({t, u}) = 2 /\ IsFiniteSet({t, u})
    <3>1. IsFiniteSet({t}) /\ Cardinality({t}) = 1
      BY FS_Singleton
    <3>2. {t, u} = {t} \cup {u} /\ u \notin {t}
      BY <1>6
    <3>3. /\ Cardinality({t} \cup {u}) = Cardinality({t}) + 1
          /\ IsFiniteSet({t} \cup {u})
      BY <3>1, <3>2, FS_AddElement
    <3> QED
      BY <3>1, <3>2, <3>3
  <2>3. Cardinality({t, u}) <= Cardinality(Users(ts, al, b))
    BY <1>1, <2>1, FS_Subset
  <2> QED
    BY <1>1, <1>3, <1>6, <2>2, <2>3 DEF Viewed
<1>7. \A t, u, b \in DOMAIN ts :
         al.view[t] = b /\ Active(al, t) /\ al.view[u] = b /\ Active(al, u)
         /\ al.views[b] <= 1 => t = u
  BY <1>6
<1>8. \A t, b \in DOMAIN ts : al.view[t] = b /\ Active(al, t) => al.views[b] > 0
  BY <1>4
<1> QED
  BY <1>3, <1>5, <1>7, <1>8

(***************************************************************************)
(* One reader less.                                                        *)
(***************************************************************************)
\* al2 is al with some readers and views less.
Fewer(ts, al, al2) ==
    /\ al2 \in Allocation(ts) /\ Viewed(ts, al2)
    /\ al2.data = al.data /\ al2.view = al.view
    /\ \A t \in DOMAIN ts : al2.children[t] <= al.children[t] /\ al2.views[t] <= al.views[t]

(* With fewer readers and views no tensor becomes held, *)
LEMMA FewerActive ==
    ASSUME NEW ts, Shape(ts), NEW al \in Allocation(ts), Viewed(ts, al), NEW al2, Fewer(ts, al, al2)
    PROVE  /\ \A t \in DOMAIN ts : Active(al2, t) => Active(al, t)
           /\ \A t \in DOMAIN ts : Held(ts, al2, t) => Held(ts, al, t)
<1>1. \A t \in DOMAIN ts : /\ al.children[t] \in Nat /\ al.views[t] \in Nat
                           /\ al2.children[t] \in Nat /\ al2.views[t] \in Nat
  BY ActiveCounts DEF Fewer
<1>2. \A t \in DOMAIN ts : al2.children[t] > 0 => al.children[t] > 0
  BY <1>1 DEF Fewer
<1>3. \A t \in DOMAIN ts : al2.views[t] > 0 => al.views[t] > 0
  BY <1>1 DEF Fewer
<1> QED
  BY <1>2, <1>3 DEF Active, Held, Fewer

(* so that all that remains to be shown are the free blocks. *)
LEMMA FewerSound ==
    ASSUME NEW ts, Shape(ts), NEW P \in SUBSET DOMAIN ts, NEW sz \in Nat,
           NEW al, Sound(ts, al, P, sz), NEW al2, Fewer(ts, al, al2),
           Sorted(al2.free, sz), HeldNotFree(ts, al2, P)
    PROVE  Sound(ts, al2, P, sz)
<1>1. /\ \A t \in DOMAIN ts : Active(al2, t) => Active(al, t)
      /\ \A t \in DOMAIN ts : Held(ts, al2, t) => Held(ts, al, t)
  BY FewerActive DEF Sound
<1>2. Based(ts, al2, P)
  BY DEF Sound, Based, Fewer
<1>3. Lies(ts, al2, P, sz)
  BY DEF Sound, Lies, Fewer
<1>4. Nested(ts, al2, P)
  BY <1>1 DEF Sound, Nested, Fewer, Overlap, Related
<1>5. TakenAlone(ts, al2)
  <2> SUFFICES ASSUME NEW b \in DOMAIN ts, Taken(ts, al2, b)
               PROVE  al2.children[b] = 0 /\ \A t, u \in Users(ts, al2, b) : t = u
    BY DEF TakenAlone
  <2>1. Taken(ts, al, b)
    BY DEF Taken, Fewer
  <2>2. al.children[b] = 0 /\ \A t, u \in Users(ts, al, b) : t = u
    BY <2>1 DEF Sound, TakenAlone
  <2>3. Users(ts, al2, b) \subseteq Users(ts, al, b)
    BY <1>1 DEF Users, Fewer
  <2>4. al2.children[b] >= 0 /\ al2.children[b] <= al.children[b] /\ al2.children[b] \in Int
    BY DEF Fewer, Viewed, Allocation
  <2> QED
    BY <2>2, <2>3, <2>4
<1> QED
  BY <1>2, <1>3, <1>4, <1>5 DEF Sound, Fewer

(* Memory that nobody reads and nobody views any more is nobody else's. *)
LEMMA FreedAlone ==
    ASSUME NEW ts, Shape(ts), NEW P \in SUBSET DOMAIN ts, NEW sz \in Nat,
           NEW al, Sound(ts, al, P, sz), NEW al2, Fewer(ts, al, al2),
           NEW f \in P, ts[f].view = NoTensor, Own(ts, f), Held(ts, al, f), ~Active(al2, f),
           NEW t \in P, Own(ts, t), Held(ts, al2, t)
    PROVE  t # f /\ ~Overlap(ts, al, t, f)
<1> DEFINE Base(x) == al.view[x]
<1>1. /\ \A x \in DOMAIN ts : Active(al2, x) => Active(al, x)
      /\ \A x \in DOMAIN ts : Held(ts, al2, x) => Held(ts, al, x)
  BY FewerActive DEF Sound
<1>2. /\ \A x, b \in DOMAIN ts : Base(x) = b /\ Active(al, x) => al.views[b] > 0
      /\ \A x \in DOMAIN ts : Held(ts, al, x) => Active(al, x)
  BY ActiveCounts DEF Sound
<1>3. /\ \A x, b \in DOMAIN ts : Base(x) = b /\ Active(al2, x) => Active(al2, b)
      /\ \A x \in DOMAIN ts : Held(ts, al2, x) => Active(al2, x)
  BY ActiveCounts DEF Fewer, Active
<1>4. /\ \A x \in DOMAIN ts : Base(x) # NoTensor => Base(x) \in DOMAIN ts /\ ts[Base(x)].view = NoTensor
  BY DEF Sound, Based
<1>5. Active(al2, t) /\ Active(al, t) /\ Active(al, f)
  BY <1>1, <1>2, <1>3
<1>6. t # f
  BY <1>5
<1>7. \A x, y, b \in DOMAIN ts : Taken(ts, al, b) /\ Base(x) = b /\ Active(al, x)
                                 /\ Base(y) = b /\ Active(al, y) => x = y
  BY DEF Sound, TakenAlone, Users
<1>8. \A b \in DOMAIN ts : Taken(ts, al, b) => ~(al2.children[b] > 0)
  <2>1. \A b \in DOMAIN ts : al2.children[b] \in Int /\ al.children[b] \in Int
    BY DEF Sound, Fewer, Allocation
  <2> QED
    BY <2>1 DEF Sound, TakenAlone, Fewer
<1>9. \A x \in DOMAIN ts : al2.children[x] > 0 => Active(al, x) /\ Active(al2, x)
  BY <1>1 DEF Active
<1>10. 0 \notin DOMAIN ts
  BY LenProperties DEF Shape
<1>11. ASSUME Related(al, t, f) PROVE FALSE
  <2>1. CASE Base(t) = f
    BY <1>3, <1>5, <2>1
  <2>2. CASE Base(f) = t
    <3>1. Taken(ts, al, t)
      BY <2>2 DEF Taken
    <3>2. PICK q \in DOMAIN ts : Base(q) = t /\ al2.children[q] > 0
      BY <1>8, <3>1 DEF Held, Fewer
    <3>3. q = f
      BY <1>5, <1>7, <1>9, <2>2, <3>1, <3>2
    <3> QED
      BY <1>9, <3>2, <3>3
  <2>3. CASE Base(t) # NoTensor /\ Base(t) = Base(f)
    <3>1. Taken(ts, al, Base(t)) /\ Base(t) \in DOMAIN ts
      BY <1>4, <2>3 DEF Taken
    <3> QED
      BY <1>5, <1>6, <1>7, <2>3, <3>1
  <2>4. CASE Base(t) # NoTensor /\ Base(Base(t)) = f
    BY <1>3, <1>4, <1>5, <2>4
  <2>5. CASE Base(f) # NoTensor /\ Base(Base(f)) = t
    <3> DEFINE c == Base(f)
    <3>1. c \in DOMAIN ts /\ ts[c].view = NoTensor /\ Taken(ts, al, c)
      BY <1>4, <2>5 DEF Taken
    <3>2. Taken(ts, al, t)
      BY <2>5, <3>1 DEF Taken
    <3>3. PICK q \in DOMAIN ts : Base(q) = t /\ al2.children[q] > 0
      BY <1>8, <3>2 DEF Held, Fewer
    <3>4. Active(al, c)
      BY <1>2, <1>5, <3>1 DEF Active
    <3>5. q = c
      BY <1>7, <1>9, <2>5, <3>1, <3>2, <3>3, <3>4
    <3> QED
      BY <1>8, <3>1, <3>3, <3>5
  <2> QED
    BY <1>11, <2>1, <2>2, <2>3, <2>4, <2>5 DEF Related
<1> QED
  BY <1>1, <1>6, <1>11 DEF Sound, Nested

(* Freeing a tensor gives back its cells and changes nothing else. *)
LEMMA FreeTensorIs ==
    ASSUME NEW ts, NEW al \in Allocation(ts), NEW f \in DOMAIN ts
    PROVE  LET r == FreeTensor(ts, al, f)
           IN  /\ r.data = al.data /\ r.view = al.view /\ r.children = al.children
               /\ r.views = al.views /\ r.max = al.max /\ r.failed = al.failed
               /\ r.free = IF al.data[f] >= 0
                           THEN GiveBack(al.free, [addr |-> al.data[f], size |-> ts[f].size])
                           ELSE al.free
               /\ r.free \in Seq(Block) => r \in Allocation(ts)
<1> DEFINE r == FreeTensor(ts, al, f)
           g == GiveBack(al.free, [addr |-> al.data[f], size |-> ts[f].size])
<1> HIDE DEF g
<1>1. r = IF al.data[f] >= 0 THEN [al EXCEPT !.free = g] ELSE al
  BY DEF FreeTensor, IsOwn, g
<1> HIDE DEF r
<1>2. CASE al.data[f] >= 0
  <2>1. r = [al EXCEPT !.free = g]
    BY <1>1, <1>2
  <2>2. /\ r.data = al.data /\ r.view = al.view /\ r.children = al.children
        /\ r.views = al.views /\ r.max = al.max /\ r.failed = al.failed /\ r.free = g
        /\ g \in Seq(Block) => r \in Allocation(ts)
    BY <2>1 DEF Allocation
  <2> QED
    BY <1>2, <2>2 DEF r, g
<1>3. CASE ~(al.data[f] >= 0)
  BY <1>1, <1>3 DEF r, g
<1> QED
  BY <1>2, <1>3

\* What dropping one reader of p does: f is the tensor whose memory may go.
DropEffect(ts, al, p, base, f, r) ==
    /\ r.data = al.data /\ r.view = al.view /\ r.max = al.max /\ r.failed = al.failed
    /\ r.children = [al.children EXCEPT ![p] = @ - 1]
    /\ r.views = IF r.children[p] = 0 /\ al.views[p] = 0 /\ base # NoTensor
                 THEN [al.views EXCEPT ![base] = @ - 1] ELSE al.views
    /\ r.free = IF /\ r.children[p] = 0 /\ al.views[p] = 0
                   /\ r.children[f] = 0 /\ r.views[f] = 0 /\ al.data[f] >= 0
                THEN GiveBack(al.free, [addr |-> al.data[f], size |-> ts[f].size])
                ELSE al.free
    /\ r.free \in Seq(Block) => r \in Allocation(ts)

(* One reader less: what DropReader does, in one operator. *)
LEMMA DropIs ==
    ASSUME NEW ts, NEW al \in Allocation(ts), NEW p \in DOMAIN ts,
           NEW base, base = al.view[p], base # NoTensor => base \in DOMAIN ts /\ base # p,
           NEW f, f = IF base = NoTensor THEN p ELSE base,
           NEW r, r = DropReader(ts, al, p)
    PROVE  DropEffect(ts, al, p, base, f, r)
<1> DEFINE c == [al EXCEPT !.children[p] = @ - 1]
           d == [c EXCEPT !.views[base] = @ - 1]
           Idle(s, t) == s.children[t] = 0 /\ s.views[t] = 0
<1>1. /\ c \in Allocation(ts) /\ c.data = al.data /\ c.view = al.view /\ c.max = al.max
      /\ c.failed = al.failed /\ c.free = al.free /\ c.views = al.views
      /\ c.children = [al.children EXCEPT ![p] = @ - 1]
  <2> DEFINE less == [al.children EXCEPT ![p] = @ - 1]
  <2>1. less \in [DOMAIN ts -> Int]
    BY DEF Allocation
  <2>2. c = [al EXCEPT !.children = less]
    BY DEF Allocation
  <2> HIDE DEF less, c
  <2>3. /\ c \in Allocation(ts) /\ c.data = al.data /\ c.view = al.view /\ c.max = al.max
        /\ c.failed = al.failed /\ c.free = al.free /\ c.views = al.views
        /\ c.children = less
    BY <2>1, <2>2 DEF Allocation
  <2> QED
    BY <2>3 DEF less
<1>2. /\ d.data = al.data /\ d.view = al.view /\ d.max = al.max
      /\ d.failed = al.failed /\ d.free = al.free /\ d.views = [al.views EXCEPT ![base] = @ - 1]
      /\ d.children = [al.children EXCEPT ![p] = @ - 1]
      /\ base # NoTensor => d \in Allocation(ts)
  <2> DEFINE less == [c.views EXCEPT ![base] = @ - 1]
  <2> HIDE DEF c
  <2>1. less \in [DOMAIN ts -> Int] \/ base = NoTensor
    BY <1>1 DEF Allocation
  <2>2. d = [c EXCEPT !.views = less]
    BY <1>1 DEF Allocation
  <2>3. less = [al.views EXCEPT ![base] = @ - 1]
    BY <1>1
  <2> HIDE DEF less, d
  <2>4. /\ d.data = c.data /\ d.view = c.view /\ d.max = c.max /\ d.failed = c.failed
        /\ d.free = c.free /\ d.views = less /\ d.children = c.children
        /\ base # NoTensor => d \in Allocation(ts)
    BY <1>1, <2>1, <2>2 DEF Allocation
  <2> QED
    BY <1>1, <2>3, <2>4
<1>3. r = IF ~Idle(c, p) THEN c
          ELSE IF base = NoTensor THEN FreeTensor(ts, c, p)
          ELSE IF Idle(d, base) THEN FreeTensor(ts, d, base)
          ELSE d
  BY <1>1 DEF DropReader
<1> HIDE DEF c, d
<1>4. Idle(c, p) <=> c.children[p] = 0 /\ al.views[p] = 0
  BY <1>1
<1>5. CASE ~Idle(c, p)
  BY <1>1, <1>3, <1>4, <1>5 DEF Allocation, DropEffect
<1>6. CASE Idle(c, p) /\ base = NoTensor
  <2>1. r = FreeTensor(ts, c, p) /\ f = p
    BY <1>3, <1>6
  <2>2. /\ r.data = c.data /\ r.view = c.view /\ r.children = c.children
        /\ r.views = c.views /\ r.max = c.max /\ r.failed = c.failed
        /\ r.free = IF c.data[p] >= 0
                    THEN GiveBack(c.free, [addr |-> c.data[p], size |-> ts[p].size])
                    ELSE c.free
        /\ r.free \in Seq(Block) => r \in Allocation(ts)
    BY <1>1, <2>1, FreeTensorIs
  <2> HIDE DEF Idle
  <2>3. c.children[p] = 0 /\ c.views[p] = 0
    BY <1>6 DEF Idle
  <2> QED
    BY <1>1, <1>6, <2>1, <2>2, <2>3 DEF DropEffect
<1>7. CASE Idle(c, p) /\ base # NoTensor /\ Idle(d, base)
  <2>1. r = FreeTensor(ts, d, base) /\ f = base
    BY <1>3, <1>7
  <2>2. /\ r.data = d.data /\ r.view = d.view /\ r.children = d.children
        /\ r.views = d.views /\ r.max = d.max /\ r.failed = d.failed
        /\ r.free = IF d.data[base] >= 0
                    THEN GiveBack(d.free, [addr |-> d.data[base], size |-> ts[base].size])
                    ELSE d.free
        /\ r.free \in Seq(Block) => r \in Allocation(ts)
    BY <1>2, <1>7, <2>1, FreeTensorIs
  <2>3. c.children[p] = 0 /\ c.views[p] = 0 /\ d.children[base] = 0 /\ d.views[base] = 0
    BY <1>7
  <2> QED
    BY <1>1, <1>2, <1>7, <2>1, <2>2, <2>3 DEF DropEffect
<1>8. CASE Idle(c, p) /\ base # NoTensor /\ ~Idle(d, base)
  <2>1. r = d /\ f = base
    BY <1>3, <1>8
  <2>3. c.children[p] = 0 /\ c.views[p] = 0 /\ ~(d.children[base] = 0 /\ d.views[base] = 0)
    BY <1>8
  <2> QED
    BY <1>1, <1>2, <1>8, <2>1, <2>3, ZenonT(60) DEF DropEffect
<1> QED
  BY <1>5, <1>6, <1>7, <1>8

\* One reader of p less, and nothing else that a reader could tell.
OneLess(al, r, p) ==
    /\ r.data = al.data /\ r.view = al.view /\ r.max = al.max /\ r.failed = al.failed
    /\ r.children = [al.children EXCEPT ![p] = @ - 1]

(* The tensor given back when its last reader and last view are gone is *)
(* one that nobody holds: the allocation stays sound.                   *)
LEMMA DropSound ==
    ASSUME NEW ts, Shape(ts), NEW P \in SUBSET DOMAIN ts, NEW sz \in Nat,
           NEW al, Sound(ts, al, P, sz), NEW p \in P, al.children[p] > 0,
           NEW r, r = DropReader(ts, al, p)
    PROVE  Sound(ts, r, P, sz) /\ OneLess(al, r, p)
<1> DEFINE base == al.view[p]
           f == IF base = NoTensor THEN p ELSE base
           gone == r.children[p] = 0 /\ al.views[p] = 0
           block == [addr |-> al.data[f], size |-> ts[f].size]
           freed == gone /\ r.children[f] = 0 /\ r.views[f] = 0 /\ al.data[f] >= 0
<1>0. /\ al \in Allocation(ts) /\ Viewed(ts, al) /\ p \in DOMAIN ts
      /\ DOMAIN ts = 1..Len(ts) /\ Len(ts) \in Nat
  BY LenProperties DEF Sound, Shape
<1>1. base # NoTensor => base \in DOMAIN ts /\ base # p /\ base \in P /\ ts[base].view = NoTensor
  BY DEF Sound, Based
<1>2. /\ r.data = al.data /\ r.view = al.view /\ r.max = al.max /\ r.failed = al.failed
      /\ r.children = [al.children EXCEPT ![p] = @ - 1]
      /\ r.views = IF gone /\ base # NoTensor
                   THEN [al.views EXCEPT ![base] = @ - 1] ELSE al.views
      /\ r.free = IF freed THEN GiveBack(al.free, block) ELSE al.free
      /\ r.free \in Seq(Block) => r \in Allocation(ts)
  <2>1. base = al.view[p] /\ f = IF base = NoTensor THEN p ELSE base
    OBVIOUS
  <2> HIDE DEF base, f
  <2> QED
    <3>1. DropEffect(ts, al, p, base, f, r)
      BY <1>0, <1>1, <2>1, DropIs
    <3> QED
      BY <3>1 DEF DropEffect
<1>3. \A t \in DOMAIN ts : /\ al.children[t] \in Nat /\ al.views[t] \in Nat
                           /\ al.view[t] \in Int /\ al.data[t] \in Int
  BY <1>0, ActiveCounts DEF Allocation
<1>4. /\ \A t, b \in DOMAIN ts : al.view[t] = b /\ Active(al, t) => al.views[b] > 0
      /\ \A t \in DOMAIN ts : Held(ts, al, t) => Active(al, t)
  BY <1>0, ActiveCounts
<1>5. Active(al, p) /\ (base # NoTensor => al.views[base] > 0)
  BY <1>1, <1>4 DEF Active
<1>6. /\ al.children \in [DOMAIN ts -> Int] /\ al.views \in [DOMAIN ts -> Int]
  BY <1>0 DEF Allocation
<1>7. /\ \A t \in DOMAIN ts : r.children[t] = IF t = p THEN al.children[p] - 1 ELSE al.children[t]
      /\ \A t \in DOMAIN ts : r.views[t] = IF gone /\ base # NoTensor /\ t = base
                                           THEN al.views[base] - 1 ELSE al.views[t]
      /\ r.children \in [DOMAIN ts -> Int] /\ r.views \in [DOMAIN ts -> Int]
  <2> HIDE DEF base, f, block, gone, freed
  <2>1. /\ \A t \in DOMAIN ts : r.children[t] = IF t = p THEN al.children[p] - 1 ELSE al.children[t]
        /\ r.children \in [DOMAIN ts -> Int]
    BY <1>0, <1>2, <1>6
  <2>2. CASE gone /\ base # NoTensor
    BY <1>0, <1>1, <1>2, <1>6, <2>1, <2>2, SMTT(30)
  <2>3. CASE ~(gone /\ base # NoTensor)
    BY <1>0, <1>1, <1>2, <1>6, <2>1, <2>3
  <2> QED
    BY <2>2, <2>3
<1> HIDE DEF base, f, block
<1>8. \A t \in DOMAIN ts : /\ r.children[t] \in Nat /\ r.children[t] <= al.children[t]
                           /\ r.views[t] \in Nat /\ r.views[t] <= al.views[t]
  BY <1>1, <1>3, <1>5, <1>7
<1>9. \A t \in DOMAIN ts : Active(r, t) => Active(al, t)
  BY <1>3, <1>8 DEF Active
<1>10. Viewed(ts, r)
  <2> SUFFICES ASSUME NEW t \in DOMAIN ts
               PROVE  r.views[t] >= Cardinality(Users(ts, r, t))
    BY <1>8 DEF Viewed
  <2>1. Users(ts, r, t) \subseteq Users(ts, al, t) /\ Users(ts, al, t) \subseteq DOMAIN ts
    BY <1>2, <1>9 DEF Users
  <2>2. IsFiniteSet(Users(ts, al, t)) /\ IsFiniteSet(Users(ts, r, t))
    BY UsersFinite
  <2>3. /\ Cardinality(Users(ts, al, t)) \in Nat /\ Cardinality(Users(ts, r, t)) \in Nat
        /\ Cardinality(Users(ts, r, t)) <= Cardinality(Users(ts, al, t))
    BY <2>1, <2>2, FS_Subset, FS_CardinalityType
  <2>4. al.views[t] >= Cardinality(Users(ts, al, t))
    BY <1>0 DEF Viewed
  <2>5. CASE ~(gone /\ base # NoTensor /\ t = base)
    BY <1>3, <1>7, <2>3, <2>4, <2>5
  <2>6. CASE gone /\ base # NoTensor /\ t = base
    <3>1. p \in Users(ts, al, t)
      BY <1>0, <1>5, <2>6 DEF Users, base
    <3>2. r.views[p] = 0 /\ r.children[p] = 0
      BY <1>0, <1>1, <1>7, <2>6
    <3>3. p \notin Users(ts, r, t)
      BY <3>2 DEF Users, Active
    <3>4. Users(ts, r, t) \subseteq Users(ts, al, t) \ {p}
      BY <2>1, <3>3
    <3>5. /\ Cardinality(Users(ts, al, t) \ {p}) = Cardinality(Users(ts, al, t)) - 1
          /\ IsFiniteSet(Users(ts, al, t) \ {p})
      BY <2>2, <3>1, FS_RemoveElement
    <3>6. Cardinality(Users(ts, r, t)) <= Cardinality(Users(ts, al, t)) - 1
      BY <3>4, <3>5, FS_Subset
    <3> QED
      BY <1>3, <1>7, <2>3, <2>4, <2>6, <3>6
  <2> QED
    BY <2>5, <2>6
<1>11. CASE ~freed
  <2>1. r.free = al.free
    BY <1>2, <1>11
  <2>2. r \in Allocation(ts)
    BY <1>0, <1>2, <2>1 DEF Allocation
  <2>3. Fewer(ts, al, r)
    BY <1>2, <1>8, <1>10, <2>2 DEF Fewer
  <2>4. \A t \in DOMAIN ts : Held(ts, r, t) => Held(ts, al, t)
    BY <1>0, <2>3, FewerActive
  <2>5. HeldNotFree(ts, r, P)
    BY <1>2, <2>1, <2>4 DEF Sound, HeldNotFree
  <2>6. Sorted(r.free, sz)
    BY <2>1 DEF Sound
  <2> QED
    BY <1>2, <2>3, <2>5, <2>6, FewerSound DEF OneLess
<1>12. CASE freed
  <2>1. f \in P /\ f \in DOMAIN ts /\ ts[f].view = NoTensor /\ Held(ts, al, f)
    <3>1. CASE base = NoTensor
      <4>1. f = p /\ ts[p].view = NoTensor
        BY <1>0, <3>1 DEF f, base, Sound, Based
      <4> QED
        BY <1>0, <4>1 DEF Held
    <3>2. CASE base # NoTensor
      <4>1. f = base
        BY <3>2 DEF f
      <4>2. al.view[p] = f /\ al.children[p] > 0
        BY <4>1 DEF base
      <4> QED
        BY <1>0, <1>1, <3>2, <4>1, <4>2 DEF Held
    <3> QED
      BY <3>1, <3>2
  <2>2. Own(ts, f) /\ al.data[f] \in Nat /\ al.data[f] + ts[f].size <= sz
    <3>1. al.data[f] >= 0
      BY <1>12
    <3>2. Own(ts, f)
      BY <2>1, <3>1 DEF Sound, Lies, Foreign
    <3> QED
      BY <2>1, <3>2 DEF Sound, Lies
  <2>3. ts[f].size \in Nat \ {0} /\ \A t \in DOMAIN ts : ts[t].size \in Nat \ {0}
    BY <2>1, SizesOf
  <2>4. /\ block \in Block /\ block.addr = al.data[f] /\ End(block) = al.data[f] + ts[f].size
    BY <2>2, <2>3 DEF block, Block, End
  <2>5. Clear(al.free, block.addr, End(block))
    BY <2>1, <2>2, <2>4 DEF Sound, HeldNotFree
  <2>6. /\ Sorted(GiveBack(al.free, block), sz)
        /\ \A lo, hi \in Nat :
             lo < hi /\ Clear(al.free, lo, hi) /\ (hi <= block.addr \/ End(block) <= lo) =>
                Clear(GiveBack(al.free, block), lo, hi)
    BY <2>2, <2>4, <2>5, GiveBackFacts DEF Sound
  <2>7. r.free = GiveBack(al.free, block) /\ r \in Allocation(ts)
    BY <1>2, <1>12, <2>6 DEF Sorted
  <2>8. Fewer(ts, al, r)
    BY <1>2, <1>8, <1>10, <2>7 DEF Fewer
  <2>9. ~Active(r, f)
    BY <1>12 DEF Active
  <2>10. \A t \in DOMAIN ts : Held(ts, r, t) => Held(ts, al, t)
    BY <1>0, <2>8, FewerActive
  <2>11. HeldNotFree(ts, r, P)
    <3> SUFFICES ASSUME NEW t \in P, Own(ts, t), Held(ts, r, t)
                 PROVE  Clear(r.free, r.data[t], r.data[t] + ts[t].size)
      BY DEF HeldNotFree
    <3>1. t # f /\ ~Overlap(ts, al, t, f)
      BY <2>1, <2>2, <2>8, <2>9, FreedAlone
    <3>2. Clear(al.free, al.data[t], al.data[t] + ts[t].size)
      BY <2>10 DEF Sound, HeldNotFree
    <3>3. al.data[t] \in Nat /\ ts[t].size \in Nat \ {0}
      BY <2>3 DEF Sound, Lies
    <3> DEFINE lo == al.data[t]
               hi == al.data[t] + ts[t].size
    <3>4. lo \in Nat /\ hi \in Nat /\ lo < hi /\ (hi <= block.addr \/ End(block) <= lo)
      BY <2>2, <2>3, <2>4, <3>1, <3>3 DEF Overlap
    <3>5. Clear(r.free, lo, hi)
      BY <2>6, <2>7, <3>2, <3>4
    <3> QED
      BY <1>2, <3>5
  <2>12. Sorted(r.free, sz)
    BY <2>6, <2>7
  <2> QED
    BY <1>2, <2>8, <2>11, <2>12, FewerSound DEF OneLess
<1> QED
  BY <1>2, <1>11, <1>12 DEF OneLess

(***************************************************************************)
(* A node gets its memory: from its source, from its base, or a new block. *)
(***************************************************************************)
\* Node n may take over the memory of its source p, which o owns.
TakesOver(ts, al, n, p, o) ==
    /\ al.data[p] >= 0 /\ al.children[p] = 1 /\ al.views[p] = 0
    /\ ts[n].size = ts[p].size
    /\ al.view[p] # NoTensor =>
         /\ al.views[al.view[p]] = 1 /\ al.children[al.view[p]] = 0
         /\ al.data[al.view[p]] = al.data[p]
    /\ o = IF al.view[p] = NoTensor THEN p ELSE al.view[p]

\* It has, and p counts as read once more or no more.
TakenBy(ts, al, al2, n, o) ==
    /\ al2 \in Allocation(ts) /\ al2.free = al.free /\ al2.failed = al.failed
    /\ al2.data = [al.data EXCEPT ![n] = al.data[o]]
    /\ al2.view = [al.view EXCEPT ![n] = o]
    /\ al2.children = al.children
    /\ al2.views = [al.views EXCEPT ![o] = @ + 1]

Took(ts, al, al2, n, p, o) ==
    /\ al2 \in Allocation(ts) /\ al2.free = al.free /\ al2.failed = al.failed
    /\ al2.data = [al.data EXCEPT ![n] = al.data[o]]
    /\ al2.view = [al.view EXCEPT ![n] = o]
    /\ al2.children = [al.children EXCEPT ![p] = 0]
    /\ al2.views = [al.views EXCEPT ![o] = 1]

(* Node n has taken over the memory of p, and its reader is gone. *)
LEMMA TakeSound ==
    ASSUME NEW ts, Shape(ts), NEW P \in SUBSET DOMAIN ts, Cache \in P, NEW sz \in Nat,
           NEW al, Sound(ts, al, P, sz),
           NEW n \in DOMAIN ts, n \notin P, ts[n].view = NoTensor,
           NEW p \in P, NEW o, TakesOver(ts, al, n, p, o), NEW al2, Took(ts, al, al2, n, p, o)
    PROVE  /\ Sound(ts, al2, P \cup {n}, sz)
           /\ Users(ts, al2, o) \subseteq {n}
           /\ \A u \in P : Own(ts, u) /\ Held(ts, al2, u) /\ Overlap(ts, al2, n, u) =>
                 Related(al2, n, u)
           /\ al.data[o] = al.data[p]
<1> USE DEF TakesOver, Took
<1> DEFINE Base(t) == al.view[t]
           Q == P \cup {n}
<1>0. /\ al \in Allocation(ts) /\ Viewed(ts, al)
      /\ DOMAIN ts = 1..Len(ts) /\ Len(ts) \in Nat /\ 0 \notin DOMAIN ts
      /\ \A t \in DOMAIN ts : ts[t].size \in Nat /\ ts[t].size > 0
      /\ p \in DOMAIN ts /\ p # n
  BY SizesOf DEF Sound
<1>1. /\ \A t \in DOMAIN ts : /\ al.children[t] \in Nat /\ al.views[t] \in Nat
                              /\ al.view[t] \in Int /\ al.data[t] \in Int
      /\ \A t, b \in DOMAIN ts : Base(t) = b /\ Active(al, t) => al.views[b] > 0
      /\ \A t \in DOMAIN ts : Held(ts, al, t) => Active(al, t)
      /\ \A t, u, b \in DOMAIN ts :
            Base(t) = b /\ Active(al, t) /\ Base(u) = b /\ Active(al, u) /\ al.views[b] <= 1 => t = u
  <2>1. \A t \in DOMAIN ts : al.view[t] \in Int /\ al.data[t] \in Int
    BY <1>0, ZenonT(60) DEF Allocation
  <2> QED
    BY <1>0, <2>1, ActiveCounts
<1>2. /\ \A t \in DOMAIN ts : Base(t) # NoTensor =>
            /\ Base(t) \in DOMAIN ts /\ Base(t) # t /\ ts[Base(t)].view = NoTensor
            /\ t \in P => Base(t) \in P /\ Base(t) # n
      /\ \A t \in DOMAIN ts : ts[t].view # NoTensor \/ t \notin P => Base(t) = ts[t].view
      /\ Base(n) = NoTensor
  BY DEF Sound, Based
<1>3. /\ o \in P /\ o \in DOMAIN ts /\ o # n /\ ts[o].view = NoTensor /\ o # NoTensor
      /\ al.data[o] = al.data[p] /\ al.children[o] \in {0, 1} /\ (o # p => al.children[o] = 0)
      /\ Base(p) # NoTensor => Base(p) = o /\ o # p /\ al.views[o] = 1
      /\ Base(p) = NoTensor => o = p
  BY <1>0, <1>2 DEF NoTensor
<1>4. Own(ts, p) /\ Own(ts, o) /\ Own(ts, n)
  <2>1. Own(ts, p)
    BY <1>0 DEF Sound, Lies, Foreign
  <2>2. o # p => Own(ts, o)
    BY <1>0, <1>2, <1>3, <2>1 DEF Sound, Lies
  <2>3. Own(ts, n)
    BY DEF Own, NoTensor, Cache
  <2> QED
    BY <2>1, <2>2, <2>3
<1>5. /\ al.data[p] \in Nat /\ al.data[p] + ts[p].size <= sz
      /\ al.data[o] + ts[o].size <= sz /\ al.data[p] + ts[p].size <= al.data[o] + ts[o].size
  <2>1. al.data[p] \in Nat /\ al.data[p] + ts[p].size <= sz /\ al.data[o] + ts[o].size <= sz
    BY <1>0, <1>3, <1>4 DEF Sound, Lies
  <2>2. CASE o = p
    BY <1>0, <2>1, <2>2
  <2>3. CASE o # p
    BY <1>0, <1>2, <1>3, <1>4, <2>1, <2>3 DEF Sound, Lies
  <2> QED
    BY <2>2, <2>3
<1>6. /\ \A t \in DOMAIN ts : al2.data[t] = IF t = n THEN al.data[o] ELSE al.data[t]
      /\ \A t \in DOMAIN ts : al2.view[t] = IF t = n THEN o ELSE Base(t)
      /\ \A t \in DOMAIN ts : al2.children[t] = IF t = p THEN 0 ELSE al.children[t]
      /\ \A t \in DOMAIN ts : al2.views[t] = IF t = o THEN 1 ELSE al.views[t]
  BY <1>0, <1>3 DEF Allocation
<1> HIDE DEF Base
<1>7. Active(al, p) /\ Active(al, o)
  BY <1>1, <1>3 DEF Active, Base
<1>8. \A t \in DOMAIN ts : Active(al2, t) => Active(al, t)
  BY <1>1, <1>6, <1>7 DEF Active
<1>9. Users(ts, al2, o) \subseteq {n}
  <2> SUFFICES ASSUME NEW t \in DOMAIN ts, al2.view[t] = o, Active(al2, t), t # n
               PROVE  FALSE
    BY DEF Users
  <2>1. Base(t) = o /\ Active(al, t)
    BY <1>6, <1>8
  <2>2. CASE o = p
    BY <1>0, <1>1, <2>1, <2>2
  <2>3. CASE o # p
    <3>1. Base(p) = o /\ al.views[o] = 1
      BY <1>3, <2>3
    <3>2. t = p
      BY <1>0, <1>1, <1>3, <1>7, <2>1, <3>1
    <3>3. al2.children[p] = 0 /\ al2.views[p] = 0
      BY <1>0, <1>6, <2>3
    <3> QED
      BY <2>1, <3>2, <3>3 DEF Active
  <2> QED
    BY <2>2, <2>3
<1>10. \A b \in DOMAIN ts : b # o => Users(ts, al2, b) \subseteq Users(ts, al, b)
  BY <1>2, <1>6, <1>8 DEF Users, Base
<1>11. Viewed(ts, al2)
  <2> SUFFICES ASSUME NEW t \in DOMAIN ts
               PROVE  al2.children[t] >= 0 /\ al2.views[t] >= Cardinality(Users(ts, al2, t))
    BY DEF Viewed
  <2>1. al2.children[t] >= 0
    BY <1>1, <1>6
  <2>2. CASE t = o
    <3>1. IsFiniteSet({n}) /\ Cardinality({n}) = 1
      BY FS_Singleton
    <3>2. Cardinality(Users(ts, al2, o)) <= 1
      BY <1>9, <3>1, FS_Subset
    <3> QED
      BY <1>6, <2>1, <2>2, <3>2
  <2>3. CASE t # o
    <3>1. Users(ts, al2, t) \subseteq Users(ts, al, t) /\ IsFiniteSet(Users(ts, al, t))
      BY <1>10, <2>3, UsersFinite
    <3>2. /\ Cardinality(Users(ts, al2, t)) <= Cardinality(Users(ts, al, t))
          /\ Cardinality(Users(ts, al2, t)) \in Nat /\ Cardinality(Users(ts, al, t)) \in Nat
      BY <3>1, FS_Subset, FS_CardinalityType
    <3>3. al.views[t] >= Cardinality(Users(ts, al, t)) /\ al2.views[t] = al.views[t]
      BY <1>0, <1>6, <2>3 DEF Viewed
    <3> QED
      BY <1>1, <2>1, <3>2, <3>3
  <2> QED
    BY <2>2, <2>3
<1>12. Based(ts, al2, Q)
  BY <1>0, <1>2, <1>3, <1>6 DEF Based, Base
<1>13. Lies(ts, al2, Q, sz)
  <2> SUFFICES ASSUME NEW t \in DOMAIN ts
               PROVE  /\ t \notin Q => al2.data[t] = Null
                      /\ t \in Q /\ ~Own(ts, t) => al2.data[t] = Foreign
                      /\ t \in Q /\ Own(ts, t) =>
                           /\ al2.data[t] \in Nat /\ al2.data[t] + ts[t].size <= sz
                           /\ al2.view[t] # NoTensor =>
                                /\ Own(ts, al2.view[t]) /\ al2.data[al2.view[t]] <= al2.data[t]
                                /\ al2.data[t] + ts[t].size
                                     <= al2.data[al2.view[t]] + ts[al2.view[t]].size
    BY DEF Lies
  <2>1. CASE t = n
    BY <1>0, <1>3, <1>4, <1>5, <1>6, <2>1
  <2>2. CASE t # n
    BY <1>2, <1>6, <2>2 DEF Sound, Lies, Base
  <2> QED
    BY <2>1, <2>2
<1>14. /\ \A t \in DOMAIN ts : t # n /\ Held(ts, al2, t) => Held(ts, al, t)
       /\ Held(ts, al, o)
  <2>1. Held(ts, al, o)
    BY <1>0, <1>3 DEF Held, Base
  <2>2. ASSUME NEW t \in DOMAIN ts, t # n, Held(ts, al2, t) PROVE Held(ts, al, t)
    <3>1. CASE al2.children[t] > 0
      BY <1>6, <3>1 DEF Held
    <3>2. ASSUME NEW q \in DOMAIN ts, al2.view[q] = t, al2.children[q] > 0
          PROVE  Held(ts, al, t)
      <4>1. CASE q = n
        BY <1>6, <2>1, <3>2, <4>1
      <4>2. CASE q # n
        BY <1>6, <3>2, <4>2 DEF Held, Base
      <4> QED
        BY <4>1, <4>2
    <3> QED
      BY <2>2, <3>1, <3>2 DEF Held
  <2> QED
    BY <2>1, <2>2
<1>15. HeldNotFree(ts, al2, Q)
  <2> SUFFICES ASSUME NEW t \in Q, Own(ts, t), Held(ts, al2, t)
               PROVE  Clear(al2.free, al2.data[t], al2.data[t] + ts[t].size)
    BY DEF HeldNotFree
  <2>1. CASE t = n
    <3>1. Clear(al.free, al.data[o], al.data[o] + ts[o].size)
      BY <1>3, <1>4, <1>14 DEF Sound, HeldNotFree
    <3>2. al.free \in Seq(Block)
      BY DEF Sound, Sorted
    <3>3. Clear(al.free, al.data[p], al.data[p] + ts[p].size)
      <4>1. /\ al.data[o] \in Int /\ al.data[p] \in Int /\ ts[o].size \in Nat /\ ts[p].size \in Nat
            /\ al.data[o] <= al.data[p]
        BY <1>0, <1>1, <1>3
      <4> QED
        BY <1>5, <3>1, <3>2, <4>1, ClearWithin
    <3> QED
      BY <1>3, <1>6, <2>1, <3>3
  <2>2. CASE t # n
    BY <1>6, <1>14, <2>2 DEF Sound, HeldNotFree
  <2> QED
    BY <2>1, <2>2
<1>16. ASSUME NEW u \in P, Own(ts, u), Held(ts, al2, u), Overlap(ts, al2, n, u), ~Related(al2, n, u)
       PROVE  FALSE
  <2>1. u # n /\ u \in DOMAIN ts /\ Held(ts, al, u) /\ Active(al, u)
    BY <1>1, <1>14, <1>16
  <2>2. u # o
    BY <1>6, <1>16 DEF Related
  <2>3. u # p
    <3> SUFFICES ASSUME u = p PROVE FALSE
      OBVIOUS
    <3>1. PICK q \in DOMAIN ts : al2.view[q] = p /\ al2.children[q] > 0
      BY <1>0, <1>6, <1>16 DEF Held
    <3>2. q # n
      BY <1>6, <2>2, <3>1
    <3>3. Base(q) = p /\ Active(al, q)
      BY <1>6, <3>1, <3>2 DEF Active
    <3> QED
      BY <1>0, <1>1, <3>3
  <2>4. Overlap(ts, al, p, u)
    BY <1>0, <1>3, <1>6, <1>16, <2>1 DEF Overlap
  <2>5. Held(ts, al, p)
    BY <1>0 DEF Held
  <2>6. Related(al, p, u)
    BY <1>4, <1>16, <2>1, <2>3, <2>4, <2>5 DEF Sound, Nested
  <2>7. Base(u) # p
    BY <1>0, <1>1, <2>1
  <2>8. Base(p) # u
    BY <1>0, <1>3, <2>1, <2>2 DEF NoTensor
  <2>9. ~(Base(p) # NoTensor /\ Base(p) = Base(u))
    BY <1>0, <1>1, <1>3, <1>7, <2>1, <2>3
  <2>10. ~(Base(u) # NoTensor /\ Base(Base(u)) = p)
    <3> SUFFICES ASSUME Base(u) # NoTensor, Base(Base(u)) = p PROVE FALSE
      OBVIOUS
    <3>1. Base(u) \in DOMAIN ts /\ Active(al, Base(u))
      BY <1>1, <1>2, <2>1 DEF Active
    <3> QED
      BY <1>0, <1>1, <3>1
  <2>11. Base(p) # NoTensor /\ Base(Base(p)) = u
    BY <2>6, <2>7, <2>8, <2>9, <2>10 DEF Related, Base
  <2>12. al2.view[n] = o /\ al2.view[o] = u
    BY <1>3, <1>6, <2>11
  <2> QED
    BY <1>3, <1>16, <2>12 DEF Related
<1>17. Nested(ts, al2, Q)
  <2> SUFFICES ASSUME NEW t \in Q, NEW u \in Q, t # u, Own(ts, t), Own(ts, u),
                      Held(ts, al2, t), Held(ts, al2, u), Overlap(ts, al2, t, u)
               PROVE  Related(al2, t, u)
    BY DEF Nested
  <2>1. CASE t = n
    BY <1>16, <2>1
  <2>2. CASE u = n
    <3>1. Overlap(ts, al2, n, t) /\ t \in P
      BY <2>2 DEF Overlap
    <3>2. Related(al2, n, t)
      BY <1>16, <3>1
    <3> QED
      BY <2>2, <3>2 DEF Related
  <2>3. CASE t # n /\ u # n
    <3>1. t \in P /\ u \in P /\ Held(ts, al, t) /\ Held(ts, al, u) /\ Overlap(ts, al, t, u)
      BY <1>6, <1>14, <2>3 DEF Overlap
    <3>2. Related(al, t, u)
      BY <3>1 DEF Sound, Nested
    <3>3. al2.view[t] = Base(t) /\ al2.view[u] = Base(u)
      BY <1>6, <2>3
    <3>4. /\ Base(t) # NoTensor => al2.view[Base(t)] = Base(Base(t))
          /\ Base(u) # NoTensor => al2.view[Base(u)] = Base(Base(u))
      BY <1>2, <1>6, <3>1
    <3> QED
      BY <3>2, <3>3, <3>4 DEF Related, Base
  <2> QED
    BY <2>1, <2>2, <2>3
<1>18. TakenAlone(ts, al2)
  <2> SUFFICES ASSUME NEW b \in DOMAIN ts, Taken(ts, al2, b)
               PROVE  al2.children[b] = 0 /\ \A t, u \in Users(ts, al2, b) : t = u
    BY DEF TakenAlone
  <2>1. CASE b = o
    BY <1>3, <1>6, <1>9, <2>1
  <2>2. CASE b # o
    <3>1. Taken(ts, al, b)
      BY <1>6, <2>2 DEF Taken, Base
    <3>2. al.children[b] = 0 /\ \A t, u \in Users(ts, al, b) : t = u
      BY <3>1 DEF Sound, TakenAlone
    <3> QED
      BY <1>6, <1>10, <2>2, <3>2
  <2> QED
    BY <2>1, <2>2
<1>19. Sorted(al2.free, sz)
  BY DEF Sound
<1>20. Sound(ts, al2, Q, sz)
  BY <1>11, <1>12, <1>13, <1>15, <1>17, <1>18, <1>19 DEF Sound
<1> QED
  BY <1>3, <1>9, <1>16, <1>20

(* A node that takes over the cells of its source keeps the allocation *)
(* sound.                                                              *)
LEMMA TakeKeeps ==
    ASSUME NEW ts, Shape(ts), NEW P \in SUBSET DOMAIN ts, Cache \in P, NEW sz \in Nat,
           NEW al, Sound(ts, al, P, sz),
           NEW n \in DOMAIN ts, n \notin P, ts[n].view = NoTensor,
           NEW p \in P, NEW o, TakesOver(ts, al, n, p, o), NEW al2, Took(ts, al, al2, n, p, o)
    PROVE  Sound(ts, al2, P \cup {n}, sz)
BY TakeSound

\* Tensor n has got the cells from x on, which were free.
GotCells(ts, al, r, n, sz, x) ==
    /\ r.failed = al.failed
    /\ r.data = [al.data EXCEPT ![n] = x]
    /\ x + ts[n].size <= sz
    /\ Sorted(r.free, sz)
    /\ Clear(r.free, x, x + ts[n].size)
    /\ \A lo, hi \in Nat : Clear(al.free, lo, hi) => Clear(r.free, lo, hi)
    /\ \A lo, hi \in Nat : lo < hi /\ Clear(al.free, lo, hi) => hi <= x \/ x + ts[n].size <= lo

Talloced(ts, al, r, n, sz) ==
    /\ r \in Allocation(ts)
    /\ r.view = al.view /\ r.children = al.children /\ r.views = al.views
    /\ \/ r.failed = TRUE /\ r.data = al.data /\ r.free = al.free
       \/ \E x \in Nat : GotCells(ts, al, r, n, sz, x)

(* What ggml_tallocr_alloc does: it fails, or n gets cells that were free. *)
LEMMA TallocIs ==
    ASSUME NEW ts, Shape(ts), NEW sz \in Nat, NEW al \in Allocation(ts), Sorted(al.free, sz),
           NEW n \in DOMAIN ts, NEW r, r = TallocAlloc(ts, al, n)
    PROVE  Talloced(ts, al, r, n, sz)
<1> DEFINE k == ts[n].size
           i == BestFit(al.free, k)
           block == al.free[i]
           rest == [addr |-> block.addr + k, size |-> block.size - k]
           left == IF rest.size = 0 THEN RemoveAt(al.free, i) ELSE ReplaceAt(al.free, i, rest)
           m == IF block.addr + k > al.max THEN block.addr + k ELSE al.max
<1>1. k \in Nat \ {0} /\ al.free \in Seq(Block)
  BY SizesOf DEF Sorted
<1>2. i \in 0..Len(al.free) /\ (i # 0 => block.size >= k)
  BY <1>1, BestFitIn
<1>3. r = IF i = 0 THEN [al EXCEPT !.failed = TRUE]
          ELSE [al EXCEPT !.free = left, !.data[n] = block.addr, !.max = m]
  BY DEF TallocAlloc
<1> HIDE DEF i
<1>4. CASE i = 0
  <2> HIDE DEF k, block, rest, left, m
  <2>1. r = [al EXCEPT !.failed = TRUE]
    BY <1>3, <1>4
  <2> QED
    BY <2>1 DEF Allocation, Talloced
<1>5. CASE i # 0
  <2>1. i \in 1..Len(al.free)
    BY <1>1, <1>2, <1>5, LenProperties
  <2>2. rest = Rest(block, k)
    BY DEF Rest
  <2>3. /\ Sorted(left, sz)
        /\ block.addr \in Nat /\ block.addr + k <= sz
        /\ Clear(left, block.addr, block.addr + k)
        /\ \A lo, hi \in Nat : Clear(al.free, lo, hi) => Clear(left, lo, hi)
        /\ \A lo, hi \in Nat : lo < hi /\ Clear(al.free, lo, hi) =>
              hi <= block.addr \/ block.addr + k <= lo
    <3>1. left = IF Rest(al.free[i], k).size = 0 THEN RemoveAt(al.free, i)
                 ELSE ReplaceAt(al.free, i, Rest(al.free[i], k))
      BY DEF Rest
    <3>2. al.free[i].size >= k
      BY <1>2, <1>5
    <3> HIDE DEF k, left
    <3> QED
      BY <1>1, <2>1, <3>1, <3>2, TakenFrom, SMTT(30)
  <2> HIDE DEF left
  <2>4. m \in Nat
    BY <1>1, <2>3 DEF Allocation
  <2> HIDE DEF k, block, rest, m
  <2>5. left \in Seq(Block)
    BY <2>3 DEF Sorted
  <2>6. r = [al EXCEPT !.free = left, !.data[n] = block.addr, !.max = m]
    BY <1>3, <1>5
  <2>7. /\ r \in Allocation(ts)
        /\ r.view = al.view /\ r.children = al.children /\ r.views = al.views
        /\ r.failed = al.failed /\ r.free = left /\ r.data = [al.data EXCEPT ![n] = block.addr]
    <3> DEFINE placed == [al.data EXCEPT ![n] = block.addr]
    <3>1. placed \in [DOMAIN ts -> Int]
      BY <2>3 DEF Allocation
    <3>2. r = [al EXCEPT !.free = left, !.data = placed, !.max = m]
      BY <2>6 DEF Allocation
    <3> HIDE DEF placed
    <3>3. /\ r \in Allocation(ts)
          /\ r.view = al.view /\ r.children = al.children /\ r.views = al.views
          /\ r.failed = al.failed /\ r.free = left /\ r.data = placed
      BY <2>4, <2>5, <3>1, <3>2 DEF Allocation
    <3> QED
      BY <3>3 DEF placed
  <2> QED
    BY <2>3, <2>7 DEF k, GotCells, Talloced
<1> QED
  BY <1>4, <1>5

(* Node n has got cells that were free. *)
LEMMA RootSound ==
    ASSUME NEW ts, Shape(ts), NEW P \in SUBSET DOMAIN ts, NEW sz \in Nat,
           NEW al, Sound(ts, al, P, sz),
           NEW n \in DOMAIN ts, n \notin P, ts[n].view = NoTensor, n # Cache,
           NEW x \in Nat, NEW al2 \in Allocation(ts), GotCells(ts, al, al2, n, sz, x),
           al2.view = al.view, al2.children = al.children, al2.views = al.views
    PROVE  Sound(ts, al2, P \cup {n}, sz)
<1> USE DEF GotCells
<1> DEFINE Q == P \cup {n}
<1>0. /\ al \in Allocation(ts)
      /\ DOMAIN ts = 1..Len(ts) /\ Len(ts) \in Nat /\ 0 \notin DOMAIN ts
      /\ \A t \in DOMAIN ts : ts[t].size \in Nat /\ ts[t].size > 0
  BY SizesOf DEF Sound
<1>1. \A t \in DOMAIN ts : al2.data[t] = IF t = n THEN x ELSE al.data[t]
  BY <1>0 DEF Allocation
<1>2. /\ \A t \in DOMAIN ts : Active(al2, t) <=> Active(al, t)
      /\ \A t \in DOMAIN ts : Held(ts, al2, t) <=> Held(ts, al, t)
  BY DEF Active, Held
<1>3. \A b : Users(ts, al2, b) = Users(ts, al, b)
  BY <1>2 DEF Users
<1>4. Viewed(ts, al2)
  BY <1>3 DEF Sound, Viewed
<1>5. Based(ts, al2, Q)
  BY DEF Sound, Based
<1>6. al.view[n] = NoTensor
  BY DEF Sound, Based
<1>7. \A t \in P : al.view[t] # NoTensor => al.view[t] \in P /\ al.view[t] # n
  BY DEF Sound, Based
<1>8. Lies(ts, al2, Q, sz)
  <2> SUFFICES ASSUME NEW t \in DOMAIN ts
               PROVE  /\ t \notin Q => al2.data[t] = Null
                      /\ t \in Q /\ ~Own(ts, t) => al2.data[t] = Foreign
                      /\ t \in Q /\ Own(ts, t) =>
                           /\ al2.data[t] \in Nat /\ al2.data[t] + ts[t].size <= sz
                           /\ al2.view[t] # NoTensor =>
                                /\ Own(ts, al2.view[t]) /\ al2.data[al2.view[t]] <= al2.data[t]
                                /\ al2.data[t] + ts[t].size
                                     <= al2.data[al2.view[t]] + ts[al2.view[t]].size
    BY DEF Lies
  <2>1. CASE t = n
    BY <1>1, <1>6, <2>1 DEF Own, NoTensor, Cache
  <2>2. CASE t # n
    BY <1>1, <1>7, <2>2 DEF Sound, Lies, Based
  <2> QED
    BY <2>1, <2>2
<1>9. \A t \in P : Own(ts, t) /\ Held(ts, al2, t) =>
         /\ al.data[t] \in Nat /\ al.data[t] + ts[t].size \in Nat
         /\ al.data[t] < al.data[t] + ts[t].size
         /\ Clear(al.free, al.data[t], al.data[t] + ts[t].size)
  <2>1. \A t \in P : Own(ts, t) => al.data[t] \in Nat
    BY DEF Sound, Lies
  <2> QED
    BY <1>0, <1>2, <2>1 DEF Sound, HeldNotFree
<1>10. HeldNotFree(ts, al2, Q)
  BY <1>1, <1>9 DEF HeldNotFree
<1>11. \A t \in P : Own(ts, t) /\ Held(ts, al2, t) =>
          ~Overlap(ts, al2, t, n) /\ ~Overlap(ts, al2, n, t)
  BY <1>0, <1>1, <1>9 DEF Overlap
<1>12. Nested(ts, al2, Q)
  <2> SUFFICES ASSUME NEW t \in P, NEW u \in P, t # u, Own(ts, t), Own(ts, u),
                      Held(ts, al2, t), Held(ts, al2, u), Overlap(ts, al2, t, u)
               PROVE  Related(al2, t, u)
    BY <1>11 DEF Nested
  <2>1. Overlap(ts, al, t, u)
    BY <1>1 DEF Overlap
  <2> QED
    BY <1>2, <2>1 DEF Sound, Nested, Related
<1>13. TakenAlone(ts, al2)
  <2>1. \A b \in DOMAIN ts : Taken(ts, al2, b) => Taken(ts, al, b)
    BY DEF Taken
  <2> QED
    BY <1>3, <2>1 DEF Sound, TakenAlone
<1> QED
  BY <1>4, <1>5, <1>8, <1>10, <1>12, <1>13 DEF Sound

(* Node n is a view and lies in its base. *)
LEMMA ViewSound ==
    ASSUME NEW ts, Shape(ts), NEW P \in SUBSET DOMAIN ts, NEW sz \in Nat,
           NEW al, Sound(ts, al, P, sz),
           NEW n \in DOMAIN ts, n \notin P, NEW b \in P, ts[n].view = b,
           NEW al2 \in Allocation(ts), al2.free = al.free,
           al2.data = [al.data EXCEPT ![n] = IF al.data[b] = Foreign THEN Foreign
                                             ELSE al.data[b] + ts[n].offs],
           al2.view = al.view, al2.children = al.children, al2.views = al.views
    PROVE  Sound(ts, al2, P \cup {n}, sz)
<1> DEFINE Q == P \cup {n}
           Base(t) == al.view[t]
<1>0. /\ al \in Allocation(ts) /\ Viewed(ts, al)
      /\ DOMAIN ts = 1..Len(ts) /\ Len(ts) \in Nat /\ 0 \notin DOMAIN ts
      /\ \A t \in DOMAIN ts : ts[t].size \in Nat /\ ts[t].size > 0 /\ ts[t].offs \in Nat
  BY SizesOf DEF Sound
<1>1. \A t \in DOMAIN ts : al2.data[t] = IF t # n THEN al.data[t]
                                         ELSE IF al.data[b] = Foreign THEN Foreign
                                         ELSE al.data[b] + ts[n].offs
  BY <1>0 DEF Allocation
<1>2. /\ \A t \in DOMAIN ts : Active(al2, t) <=> Active(al, t)
      /\ \A t \in DOMAIN ts : Held(ts, al2, t) <=> Held(ts, al, t)
  BY DEF Active, Held
<1>3. \A c : Users(ts, al2, c) = Users(ts, al, c)
  BY <1>2 DEF Users
<1>4. Viewed(ts, al2)
  BY <1>3 DEF Sound, Viewed
<1>5. Based(ts, al2, Q)
  BY DEF Sound, Based
<1>6. /\ b \in DOMAIN ts /\ b # NoTensor /\ b # n /\ ts[b].view = NoTensor
      /\ ts[n].offs + ts[n].size <= ts[b].size
  BY <1>0 DEF Shape, NoTensor
<1>7. /\ Base(n) = b
      /\ \A t \in DOMAIN ts : Base(t) # NoTensor =>
           /\ Base(t) \in DOMAIN ts /\ ts[Base(t)].view = NoTensor /\ Base(t) # n
           /\ t \in P => Base(t) \in P
  BY <1>6 DEF Sound, Based
<1>8. Own(ts, n) <=> Own(ts, b)
  <2>1. n # Cache
    BY <1>6 DEF Shape
  <2>2. ts[b].view # Cache
    BY <1>6 DEF NoTensor, Cache
  <2> QED
    BY <2>1, <2>2 DEF Own
<1>9. /\ Own(ts, b) => /\ al.data[b] \in Nat /\ al2.data[n] = al.data[b] + ts[n].offs
                       /\ al.data[b] + ts[b].size <= sz
      /\ ~Own(ts, b) => al2.data[n] = Foreign
  BY <1>1, <1>6 DEF Sound, Lies, Foreign
<1>10. Lies(ts, al2, Q, sz)
  <2> SUFFICES ASSUME NEW t \in DOMAIN ts
               PROVE  /\ t \notin Q => al2.data[t] = Null
                      /\ t \in Q /\ ~Own(ts, t) => al2.data[t] = Foreign
                      /\ t \in Q /\ Own(ts, t) =>
                           /\ al2.data[t] \in Nat /\ al2.data[t] + ts[t].size <= sz
                           /\ al2.view[t] # NoTensor =>
                                /\ Own(ts, al2.view[t]) /\ al2.data[al2.view[t]] <= al2.data[t]
                                /\ al2.data[t] + ts[t].size
                                     <= al2.data[al2.view[t]] + ts[al2.view[t]].size
    BY DEF Lies
  <2>1. CASE t = n
    <3>1. al2.data[b] = al.data[b]
      BY <1>1, <1>6
    <3>2. ts[n].offs \in Nat /\ ts[n].size \in Nat /\ ts[b].size \in Nat
      BY <1>0, <1>6
    <3> QED
      BY <1>6, <1>7, <1>8, <1>9, <2>1, <3>1, <3>2
  <2>2. CASE t # n
    BY <1>1, <1>7, <2>2 DEF Sound, Lies
  <2> QED
    BY <2>1, <2>2
<1>11. Held(ts, al, n) => al.children[n] > 0 /\ Held(ts, al, b)
  <2>1. \A q \in DOMAIN ts : Base(q) # n
    BY <1>0, <1>7 DEF NoTensor
  <2> QED
    BY <1>7, <2>1 DEF Held
<1>12. HeldNotFree(ts, al2, Q)
  <2> SUFFICES ASSUME NEW t \in Q, Own(ts, t), Held(ts, al2, t)
               PROVE  Clear(al2.free, al2.data[t], al2.data[t] + ts[t].size)
    BY DEF HeldNotFree
  <2>1. CASE t = n
    <3>1. Clear(al.free, al.data[b], al.data[b] + ts[b].size)
      BY <1>2, <1>8, <1>11, <2>1 DEF Sound, HeldNotFree
    <3>2. al.free \in Seq(Block)
      BY DEF Sound, Sorted
    <3> QED
      <4> DEFINE lo == al.data[b]
                 hi == al.data[b] + ts[b].size
                 from == al2.data[n]
                 to == al2.data[n] + ts[n].size
      <4>1. /\ al2.data[n] = al.data[b] + ts[n].offs /\ al.data[b] \in Nat
            /\ ts[n].offs \in Nat /\ ts[n].size \in Nat /\ ts[b].size \in Nat
        BY <1>0, <1>6, <1>8, <1>9, <2>1
      <4>2. lo \in Int /\ hi \in Int /\ from \in Int /\ to \in Int /\ lo <= from /\ to <= hi
        BY <1>6, <4>1
      <4> HIDE DEF lo, hi, from, to
      <4>3. Clear(al.free, from, to)
        BY <3>1, <3>2, <4>2, ClearWithin DEF lo, hi
      <4> QED
        BY <2>1, <4>3 DEF from, to
  <2>2. CASE t # n
    BY <1>1, <1>2, <2>2 DEF Sound, HeldNotFree
  <2> QED
    BY <2>1, <2>2
<1> HIDE DEF Base
<1>13. ASSUME NEW u \in P, Own(ts, u), Own(ts, n), Held(ts, al2, u), Held(ts, al2, n),
              Overlap(ts, al2, n, u), ~Related(al, n, u)
       PROVE  FALSE
  <2>1. u # n /\ u \in DOMAIN ts /\ Held(ts, al, u) /\ Held(ts, al, b) /\ al.children[n] > 0
    BY <1>2, <1>11, <1>13
  <2>2. /\ \A t, c \in DOMAIN ts : Base(t) = c /\ Active(al, t) => al.views[c] > 0
        /\ Active(al, u) /\ Active(al, b) /\ Active(al, n)
    BY <1>0, <1>6, <2>1, ActiveCounts DEF Active, Base
  <2>3. /\ \A c \in DOMAIN ts : Taken(ts, al, c) => al.children[c] = 0
        /\ \A t, v, c \in DOMAIN ts : /\ Taken(ts, al, c) /\ Base(t) = c /\ Active(al, t)
                                      /\ Base(v) = c /\ Active(al, v)
                                      => t = v
    BY DEF Sound, TakenAlone, Users, Base
  <2>4. u # b
    BY <1>7, <1>13 DEF Related, Base
  <2>5. Overlap(ts, al, b, u)
    <3>1. al2.data[u] = al.data[u] /\ al.data[u] \in Nat
      BY <1>1, <1>13, <2>1 DEF Sound, Lies
    <3>2. al2.data[n] = al.data[b] + ts[n].offs /\ al.data[b] \in Nat
      BY <1>8, <1>9, <1>13
    <3>3. /\ al.data[b] + ts[n].offs < al.data[u] + ts[u].size
          /\ al.data[u] < al.data[b] + ts[n].offs + ts[n].size
      BY <1>13, <3>1, <3>2 DEF Overlap
    <3>4. /\ ts[n].offs \in Nat /\ ts[n].size \in Nat /\ ts[b].size \in Nat /\ ts[u].size \in Nat
          /\ ts[n].offs + ts[n].size <= ts[b].size
      BY <1>0, <1>6, <2>1
    <3> QED
      BY <3>1, <3>2, <3>3, <3>4 DEF Overlap
  <2>6. Related(al, b, u)
    BY <1>8, <1>13, <2>1, <2>4, <2>5 DEF Sound, Nested
  <2>7. Base(u) # b
    BY <1>6, <1>7, <1>13 DEF Related, Base
  <2>8. Base(b) # u
    BY <1>0, <1>6, <1>7, <1>13, <2>1 DEF Related, Base, NoTensor
  <2>9. ~(Base(b) # NoTensor /\ Base(b) = Base(u))
    <3> SUFFICES ASSUME Base(b) # NoTensor, Base(b) = Base(u) PROVE FALSE
      OBVIOUS
    <3>1. Base(b) \in DOMAIN ts /\ Taken(ts, al, Base(b))
      BY <1>6, <1>7 DEF Taken, Base
    <3> QED
      BY <1>6, <2>1, <2>2, <2>3, <2>4, <3>1
  <2>10. ~(Base(u) # NoTensor /\ Base(Base(u)) = b)
    <3> SUFFICES ASSUME Base(u) # NoTensor, Base(Base(u)) = b PROVE FALSE
      OBVIOUS
    <3>1. Base(u) \in DOMAIN ts /\ ts[Base(u)].view = NoTensor /\ Base(u) # n
      BY <1>7, <2>1
    <3>2. Taken(ts, al, b)
      BY <3>1 DEF Taken, Base
    <3>3. Active(al, Base(u))
      BY <2>1, <2>2, <3>1 DEF Active
    <3> QED
      BY <1>6, <1>7, <2>2, <2>3, <3>1, <3>2, <3>3
  <2>11. Base(b) # NoTensor /\ Base(Base(b)) = u
    BY <2>6, <2>7, <2>8, <2>9, <2>10 DEF Related, Base
  <2> DEFINE c == Base(b)
  <2>12. c \in DOMAIN ts /\ ts[c].view = NoTensor /\ Taken(ts, al, c) /\ Taken(ts, al, u)
    <3>1. c \in DOMAIN ts /\ ts[c].view = NoTensor
      BY <1>6, <1>7, <2>11
    <3> QED
      BY <1>6, <2>11, <3>1 DEF Taken, Base
  <2>13. al.children[u] = 0 /\ al.children[c] = 0
    BY <2>1, <2>3, <2>12
  <2>14. PICK q \in DOMAIN ts : Base(q) = u /\ al.children[q] > 0
    BY <2>1, <2>13 DEF Held, Base
  <2>15. Active(al, c) /\ Active(al, q)
    BY <1>6, <2>2, <2>12, <2>14 DEF Active
  <2> QED
    BY <2>1, <2>3, <2>11, <2>12, <2>13, <2>14, <2>15
<1>14. Nested(ts, al2, Q)
  <2> SUFFICES ASSUME NEW t \in Q, NEW u \in Q, t # u, Own(ts, t), Own(ts, u),
                      Held(ts, al2, t), Held(ts, al2, u), Overlap(ts, al2, t, u)
               PROVE  Related(al, t, u)
    BY DEF Nested, Related
  <2>1. CASE t = n
    BY <1>13, <2>1
  <2>2. CASE u = n
    <3>1. Overlap(ts, al2, n, t) /\ t \in P
      BY <2>2 DEF Overlap
    <3>2. Related(al, n, t)
      BY <1>13, <2>2, <3>1
    <3> QED
      BY <2>2, <3>2 DEF Related
  <2>3. CASE t # n /\ u # n
    <3>1. t \in P /\ u \in P /\ Held(ts, al, t) /\ Held(ts, al, u) /\ Overlap(ts, al, t, u)
      BY <1>1, <1>2, <2>3 DEF Overlap
    <3> QED
      BY <3>1 DEF Sound, Nested
  <2> QED
    BY <2>1, <2>2, <2>3
<1>15. TakenAlone(ts, al2)
  <2>1. \A c \in DOMAIN ts : Taken(ts, al2, c) => Taken(ts, al, c)
    BY DEF Taken
  <2> QED
    BY <1>3, <2>1 DEF Sound, TakenAlone
<1>16. Sorted(al2.free, sz)
  BY DEF Sound
<1> QED
  BY <1>4, <1>5, <1>10, <1>12, <1>14, <1>15, <1>16 DEF Sound

(* The last reader of p drops it: nothing is given back, n owns the memory. *)
LEMMA TakeDropped ==
    ASSUME NEW ts, NEW x \in Allocation(ts), NEW n \in DOMAIN ts, NEW p \in DOMAIN ts, p # n,
           x.view[p] # NoTensor => x.view[p] \in DOMAIN ts /\ x.view[p] # p /\ x.view[p] # n,
           x.free \in Seq(Block),
           NEW o, TakesOver(ts, x, n, p, o), NEW s, TakenBy(ts, x, s, n, o)
    PROVE  Took(ts, x, DropReader(ts, s, p), n, p, o)
<1> DEFINE base == x.view[p]
           r == DropReader(ts, s, p)
<1>1. /\ o \in DOMAIN ts /\ o # n /\ (base = NoTensor => o = p) /\ (base # NoTensor => o = base)
  BY DEF TakesOver
<1>2. /\ x.children \in [DOMAIN ts -> Int] /\ x.views \in [DOMAIN ts -> Int]
      /\ x.view \in [DOMAIN ts -> Int]
  BY DEF Allocation
<1>3. /\ s \in Allocation(ts) /\ s.view[p] = base /\ s.free = x.free
      /\ s.children = x.children /\ s.views = [x.views EXCEPT ![o] = @ + 1]
      /\ s.data = [x.data EXCEPT ![n] = x.data[o]] /\ s.view = [x.view EXCEPT ![n] = o]
      /\ s.failed = x.failed
  BY <1>2 DEF TakenBy
<1>4. DropEffect(ts, s, p, base, o, r)
  <2>1. o = IF base = NoTensor THEN p ELSE base
    BY <1>1
  <2> HIDE DEF base, r
  <2>2. base = s.view[p] /\ r = DropReader(ts, s, p)
    BY <1>3 DEF r
  <2>3. base # NoTensor => base \in DOMAIN ts /\ base # p
    BY DEF base
  <2> QED
    BY <1>3, <2>1, <2>2, <2>3, DropIs
<1> HIDE DEF r
<1>5. /\ r.children = [x.children EXCEPT ![p] = @ - 1] /\ r.children[p] = 0
      /\ r.children = [x.children EXCEPT ![p] = 0]
  BY <1>2, <1>3, <1>4, SMTT(30) DEF DropEffect, TakesOver
<1>6. r.views = [x.views EXCEPT ![o] = 1] /\ r.free = x.free
  <2>1. CASE base = NoTensor
    <3>1. o = p /\ x.views[p] = 0
      BY <1>1, <2>1 DEF TakesOver
    <3>2. s.views[p] = 1 /\ s.views = [x.views EXCEPT ![o] = 1]
      BY <1>2, <1>3, <3>1
    <3>3. ~(r.children[p] = 0 /\ s.views[p] = 0)
      BY <3>2
    <3>4. r.views = s.views /\ r.free = s.free
      BY <1>4, <3>3 DEF DropEffect
    <3> QED
      BY <1>3, <3>2, <3>4
  <2>2. CASE base # NoTensor
    <3>1. o = base /\ x.views[p] = 0 /\ x.views[o] = 1 /\ o # p
      BY <1>1, <2>2 DEF TakesOver
    <3>2. s.views[p] = 0 /\ s.views[o] = 2 /\ s.views \in [DOMAIN ts -> Int]
      BY <1>1, <1>2, <1>3, <3>1
    <3>3. r.views = [s.views EXCEPT ![o] = @ - 1]
      BY <1>4, <1>5, <2>2, <3>1, <3>2 DEF DropEffect
    <3>4. r.views = [x.views EXCEPT ![o] = 1] /\ r.views[o] = 1
      BY <1>1, <1>2, <1>3, <3>1, <3>2, <3>3
    <3>5. r.free = s.free
      BY <1>4, <3>4 DEF DropEffect
    <3> QED
      BY <1>3, <3>4, <3>5
  <2> QED
    BY <2>1, <2>2
<1>7. r \in Allocation(ts) /\ r.data = s.data /\ r.view = s.view /\ r.failed = s.failed
  BY <1>4, <1>6 DEF DropEffect
<1> QED
  BY <1>3, <1>5, <1>6, <1>7 DEF Took, r

(* Taking over the memory of p and dropping another source commute. *)
LEMMA TakeCommutes ==
    ASSUME NEW ts, Shape(ts), NEW P \in SUBSET DOMAIN ts, NEW sz \in Nat,
           NEW al, Sound(ts, al, P, sz),
           NEW n \in DOMAIN ts, n \notin P,
           NEW p \in P, NEW o, TakesOver(ts, al, n, p, o),
           NEW q \in P, q # p, al.children[q] > 0,
           NEW s, TakenBy(ts, al, s, n, o),
           NEW r, r = DropReader(ts, al, q)
    PROVE  /\ TakesOver(ts, r, n, p, o)
           /\ TakenBy(ts, r, DropReader(ts, s, q), n, o)
<1> DEFINE base == al.view[q]
           f == IF base = NoTensor THEN q ELSE base
           d == DropReader(ts, s, q)
<1>0. /\ al \in Allocation(ts) /\ Viewed(ts, al) /\ p \in DOMAIN ts /\ q \in DOMAIN ts
      /\ 0 \notin DOMAIN ts /\ al.free \in Seq(Block)
  BY SizesOf DEF Sound, Sorted
<1>1. /\ al.children \in [DOMAIN ts -> Int] /\ al.views \in [DOMAIN ts -> Int]
      /\ al.view \in [DOMAIN ts -> Int] /\ al.data \in [DOMAIN ts -> Int]
  BY <1>0 DEF Allocation
<1>2. /\ base # NoTensor => base \in DOMAIN ts /\ base # q /\ base \in P /\ base # n
      /\ al.view[p] # NoTensor => al.view[p] \in DOMAIN ts /\ al.view[p] # p
                                  /\ al.view[p] \in P /\ al.view[p] # n
  BY <1>0 DEF Sound, Based
<1>3. /\ o \in DOMAIN ts /\ o # n /\ o \in P
      /\ al.children[o] = 0 \/ o = p
      /\ al.view[p] # NoTensor => o = al.view[p] /\ al.views[o] = 1 /\ al.children[o] = 0
                                  /\ al.data[o] = al.data[p]
      /\ al.view[p] = NoTensor => o = p
      /\ al.views[p] = 0 /\ al.children[p] = 1 /\ al.data[p] >= 0
  BY <1>0, <1>2 DEF TakesOver
<1>4. /\ \A t, b \in DOMAIN ts : al.view[t] = b /\ Active(al, t) => al.views[b] > 0
      /\ \A t, u, b \in DOMAIN ts :
            al.view[t] = b /\ Active(al, t) /\ al.view[u] = b /\ Active(al, u)
            /\ al.views[b] <= 1 => t = u
  BY <1>0, ActiveCounts
<1>5. Active(al, p) /\ Active(al, q)
  BY <1>3 DEF Active
<1>6. q # o /\ base # o /\ base # p
  <2>1. q # o
    BY <1>3
  <2>2. base # p
    BY <1>0, <1>3, <1>4, <1>5
  <2>3. ASSUME base = o PROVE FALSE
    <3>1. CASE al.view[p] = NoTensor
      BY <1>3, <2>2, <2>3, <3>1
    <3>2. CASE al.view[p] # NoTensor
      BY <1>0, <1>3, <1>4, <1>5, <2>3, <3>2
    <3> QED
      BY <3>1, <3>2
  <2> QED
    BY <2>1, <2>2, <2>3
<1>7. f \in DOMAIN ts /\ f # o /\ f # n /\ f # p
  BY <1>0, <1>2, <1>6
<1>8. DropEffect(ts, al, q, base, f, r)
  <2>1. base = al.view[q] /\ f = IF base = NoTensor THEN q ELSE base
    OBVIOUS
  <2> HIDE DEF base, f
  <2> QED
    BY <1>0, <1>2, <2>1, DropIs
<1>9. /\ s \in Allocation(ts) /\ s.view[q] = base /\ s.free = al.free
      /\ s.children = al.children /\ s.views = [al.views EXCEPT ![o] = @ + 1]
      /\ s.data = [al.data EXCEPT ![n] = al.data[o]] /\ s.view = [al.view EXCEPT ![n] = o]
      /\ s.failed = al.failed
  BY <1>0, <1>1 DEF TakenBy
<1>10. DropEffect(ts, s, q, base, f, d)
  <2>1. base = s.view[q] /\ f = IF base = NoTensor THEN q ELSE base
    BY <1>9
  <2> HIDE DEF base, f, d
  <2>2. d = DropReader(ts, s, q)
    BY DEF d
  <2> QED
    BY <1>0, <1>2, <1>9, <2>1, <2>2, DropIs
<1>11. Sound(ts, r, P, sz)
  BY DropSound
<1>12. r \in Allocation(ts) /\ r.free \in Seq(Block)
  BY <1>11 DEF Sound, Sorted
<1> DEFINE block == [addr |-> al.data[f], size |-> ts[f].size]
           gone == r.children[q] = 0 /\ al.views[q] = 0
<1> HIDE DEF base, f, d, block
<1>13. /\ r.data = al.data /\ r.view = al.view /\ r.failed = al.failed
       /\ r.children = [al.children EXCEPT ![q] = @ - 1]
       /\ r.views = IF gone /\ base # NoTensor THEN [al.views EXCEPT ![base] = @ - 1] ELSE al.views
       /\ r.free = IF gone /\ r.children[f] = 0 /\ r.views[f] = 0 /\ al.data[f] >= 0
                   THEN GiveBack(al.free, block) ELSE al.free
  BY <1>8 DEF DropEffect, block
<1>14. /\ s.views[q] = al.views[q] /\ s.data[f] = al.data[f]
  BY <1>0, <1>1, <1>6, <1>7, <1>9
<1>15. /\ d.data = s.data /\ d.view = s.view /\ d.failed = s.failed
       /\ d.children = r.children
       /\ d.views = IF gone /\ base # NoTensor THEN [s.views EXCEPT ![base] = @ - 1] ELSE s.views
       /\ d.free = IF gone /\ r.children[f] = 0 /\ d.views[f] = 0 /\ al.data[f] >= 0
                   THEN GiveBack(al.free, block) ELSE al.free
       /\ d.free \in Seq(Block) => d \in Allocation(ts)
  <2>1. /\ d.data = s.data /\ d.view = s.view /\ d.failed = s.failed
        /\ d.children = [s.children EXCEPT ![q] = @ - 1]
        /\ d.views = IF d.children[q] = 0 /\ s.views[q] = 0 /\ base # NoTensor
                     THEN [s.views EXCEPT ![base] = @ - 1] ELSE s.views
        /\ d.free = IF /\ d.children[q] = 0 /\ s.views[q] = 0
                       /\ d.children[f] = 0 /\ d.views[f] = 0 /\ s.data[f] >= 0
                    THEN GiveBack(s.free, [addr |-> s.data[f], size |-> ts[f].size])
                    ELSE s.free
        /\ d.free \in Seq(Block) => d \in Allocation(ts)
    BY <1>10 DEF DropEffect
  <2>2. d.children = r.children
    BY <1>9, <1>13, <2>1
  <2> QED
    BY <1>9, <1>14, <2>1, <2>2 DEF block
<1>16. d.views = [r.views EXCEPT ![o] = @ + 1] /\ d.views[f] = r.views[f]
  <2>1. CASE gone /\ base # NoTensor
    <3>1. d.views = [s.views EXCEPT ![base] = @ - 1] /\ r.views = [al.views EXCEPT ![base] = @ - 1]
      BY <1>13, <1>15, <2>1
    <3> HIDE DEF gone
    <3> QED
      BY <1>1, <1>2, <1>3, <1>6, <1>7, <1>9, <2>1, <3>1
  <2>2. CASE ~(gone /\ base # NoTensor)
    <3>1. d.views = s.views /\ r.views = al.views
      BY <1>13, <1>15, <2>2
    <3> HIDE DEF gone
    <3> QED
      BY <1>1, <1>3, <1>7, <1>9, <3>1
  <2> QED
    BY <2>1, <2>2
<1>17. d.free = r.free
  BY <1>13, <1>15, <1>16
<1>18. TakenBy(ts, r, d, n, o)
  BY <1>9, <1>12, <1>13, <1>15, <1>16, <1>17 DEF TakenBy
<1>19. TakesOver(ts, r, n, p, o)
  <2>1. r.children[p] = 1 /\ (o # p => r.children[o] = 0)
    BY <1>0, <1>1, <1>3, <1>6, <1>13
  <2>2. r.views[p] = al.views[p] /\ r.views[o] = al.views[o]
    BY <1>0, <1>1, <1>2, <1>3, <1>6, <1>13
  <2> QED
    BY <1>2, <1>3, <1>13, <2>1, <2>2 DEF TakesOver
<1> QED
  BY <1>18, <1>19 DEF d

(***************************************************************************)
(* One round of the loop: a node is placed and its sources are dropped.    *)
(***************************************************************************)
\* How often a list of at most two names t.
Times(src, t) == (IF Len(src) >= 1 /\ src[1] = t THEN 1 ELSE 0)
                 + (IF Len(src) >= 2 /\ src[2] = t THEN 1 ELSE 0)

\* Everything node n needs is placed and still counted.
Ready(ts, al, P, n) ==
    LET src == ts[n].src
    IN  /\ n \in DOMAIN ts /\ n \notin P
        /\ Len(src) \in {0, 1, 2} /\ \A k \in 1..Len(src) : src[k] \in P
        /\ ts[n].view # NoTensor => ts[n].view \in P
        /\ CanInplace(ts[n].op) => ts[n].view = NoTensor
        /\ \A t \in DOMAIN ts : al.children[t] >= Times(src, t)
        /\ al.failed = FALSE

DropBoth(ts, al, src) ==
    IF Len(src) = 0 THEN al
    ELSE IF Len(src) = 1 THEN DropReader(ts, al, src[1])
    ELSE DropReader(ts, DropReader(ts, al, src[1]), src[2])

(* Placing a node is giving it memory and dropping a reader of each *)
(* source.                                                          *)
LEMMA PlaceNodeIs ==
    ASSUME NEW ts, Shape(ts), NEW P \in SUBSET DOMAIN ts, NEW sz \in Nat,
           NEW al, Sound(ts, al, P, sz), NEW n, Ready(ts, al, P, n),
           NEW placed, placed = AllocateNode(ts, al, n)
    PROVE  PlaceNode(ts, al, n) = IF placed.failed THEN placed ELSE DropBoth(ts, placed, ts[n].src)
<1> DEFINE src == ts[n].src
<1>1. \A t \in P : al.data[t] # Null
  BY DEF Sound, Lies, Null, Foreign
<1>2. \A t \in P : AllocateNode(ts, al, t) = al
  BY <1>1 DEF AllocateNode
<1>3. \A k \in 1..Len(src) : AllocateNode(ts, al, src[k]) = al
  BY <1>2 DEF Ready
<1>4. Len(src) \in {0, 1, 2}
  BY DEF Ready
<1>5. CASE Len(src) = 0
  BY <1>5 DEF PlaceNode, InTurn, DropBoth
<1>6. CASE Len(src) = 1
  <2>1. AllocateNode(ts, al, src[1]) = al
    BY <1>3, <1>6
  <2> QED
    BY <1>6, <2>1 DEF PlaceNode, InTurn, DropBoth
<1>7. CASE Len(src) = 2
  <2>1. AllocateNode(ts, al, src[1]) = al /\ AllocateNode(ts, al, src[2]) = al
    BY <1>3, <1>7
  <2> QED
    BY <1>7, <2>1 DEF PlaceNode, InTurn, DropBoth
<1> QED
  BY <1>4, <1>5, <1>6, <1>7

\* Nothing but readers is gone.
Dropped(ts, al, r, src) ==
    /\ r.data = al.data /\ r.view = al.view /\ r.failed = al.failed
    /\ \A t \in DOMAIN ts : r.children[t] = al.children[t] - Times(src, t)

(* Dropping the readers of all sources keeps the allocation sound. *)
LEMMA DropBothSound ==
    ASSUME NEW ts, Shape(ts), NEW P \in SUBSET DOMAIN ts, NEW sz \in Nat,
           NEW al, Sound(ts, al, P, sz), NEW src, Len(src) \in {0, 1, 2},
           \A k \in 1..Len(src) : src[k] \in P,
           \A t \in DOMAIN ts : al.children[t] >= Times(src, t)
    PROVE  /\ Sound(ts, DropBoth(ts, al, src), P, sz)
           /\ Dropped(ts, al, DropBoth(ts, al, src), src)
<1>1. \A t \in DOMAIN ts : al.children[t] \in Int
  BY DEF Sound, Allocation
<1>2. al.children \in [DOMAIN ts -> Int]
  BY DEF Sound, Allocation
<1>3. CASE Len(src) = 0
  BY <1>1, <1>3 DEF DropBoth, Dropped, Times
<1>4. CASE Len(src) = 1
  <2> DEFINE p == src[1]
             r == DropReader(ts, al, p)
  <2>1. p \in P /\ p \in DOMAIN ts /\ Times(src, p) = 1 /\ \A t \in DOMAIN ts : t # p => Times(src, t) = 0
    BY <1>4 DEF Times
  <2>2. al.children[p] > 0
    BY <1>1, <2>1
  <2>3. /\ Sound(ts, r, P, sz) /\ r.data = al.data /\ r.view = al.view /\ r.failed = al.failed
        /\ r.children = [al.children EXCEPT ![p] = @ - 1]
    <3>1. Sound(ts, r, P, sz) /\ OneLess(al, r, p)
      BY <2>1, <2>2, DropSound
    <3> QED
      BY <3>1 DEF OneLess
  <2>4. DropBoth(ts, al, src) = r
    BY <1>4 DEF DropBoth
  <2> HIDE DEF p, r
  <2> QED
    BY <1>1, <1>2, <2>1, <2>3, <2>4 DEF Dropped
<1>5. CASE Len(src) = 2
  <2> DEFINE p == src[1]
             q == src[2]
             r == DropReader(ts, al, p)
             d == DropReader(ts, r, q)
  <2>1. /\ p \in P /\ p \in DOMAIN ts /\ q \in P /\ q \in DOMAIN ts
        /\ \A t \in DOMAIN ts : Times(src, t) = (IF p = t THEN 1 ELSE 0) + (IF q = t THEN 1 ELSE 0)
    BY <1>5 DEF Times
  <2>2. DropBoth(ts, al, src) = d
    BY <1>5 DEF DropBoth
  <2> HIDE DEF p, q
  <2>3. al.children[p] > 0 /\ al.children[q] > 0 /\ (p = q => al.children[p] > 1)
    BY <1>1, <2>1
  <2>4. /\ Sound(ts, r, P, sz) /\ r.data = al.data /\ r.view = al.view /\ r.failed = al.failed
        /\ r.children = [al.children EXCEPT ![p] = @ - 1]
    <3>1. Sound(ts, r, P, sz) /\ OneLess(al, r, p)
      BY <2>1, <2>3, DropSound
    <3> QED
      BY <3>1 DEF OneLess
  <2> HIDE DEF r
  <2>5. r.children[q] > 0
    BY <1>1, <1>2, <2>1, <2>3, <2>4
  <2>6. /\ Sound(ts, d, P, sz) /\ d.data = r.data /\ d.view = r.view /\ d.failed = r.failed
        /\ d.children = [r.children EXCEPT ![q] = @ - 1]
    <3>1. Sound(ts, d, P, sz) /\ OneLess(r, d, q)
      BY <2>1, <2>4, <2>5, DropSound
    <3> QED
      BY <3>1 DEF OneLess
  <2> HIDE DEF d
  <2>7. \A t \in DOMAIN ts : d.children[t] = al.children[t] - Times(src, t)
    BY <1>1, <1>2, <2>1, <2>4, <2>6
  <2> QED
    BY <2>2, <2>4, <2>6, <2>7 DEF Dropped
<1> QED
  BY <1>3, <1>4, <1>5

\* A tensor whose value somebody still reads, by itself or through a view.
Wanted(ts, al, v) ==
    /\ ts[v].view = NoTensor /\ Own(ts, v)
    /\ al.children[v] > 0 \/ \E s \in DOMAIN ts : ts[s].view = v /\ al.children[s] > 0

\* What node n will write is not what others still read, nor what it reads
\* itself, unless it overwrites it in place.
Harmless(ts, al, P, n) ==
    /\ \A v \in P : Wanted(ts, al, v) => ~Overlap(ts, al, v, n)
    /\ \A k \in 1..Len(ts[n].src) :
          LET s == ts[n].src[k]
          IN  Own(ts, s) => \/ ~Overlap(ts, al, s, n)
                            \/ /\ CanInplace(ts[n].op) /\ al.data[s] = al.data[n]
                               /\ ts[s].size = ts[n].size

\* The outcome of placing n.
Placed(ts, al, r, P, n, sz) ==
    /\ Sound(ts, r, P \cup {n}, sz)
    /\ r.failed = FALSE
    /\ \A t \in DOMAIN ts : r.children[t] = al.children[t] - Times(ts[n].src, t)
    /\ \A t \in DOMAIN ts : t # n => r.data[t] = al.data[t]
    /\ ts[n].view = NoTensor => Harmless(ts, r, P, n)

(* What has readers left holds its cells. *)
LEMMA WantedHeld ==
    ASSUME NEW ts, Shape(ts), NEW P \in SUBSET DOMAIN ts, NEW sz \in Nat,
           NEW al, Sound(ts, al, P, sz), NEW v \in DOMAIN ts, Wanted(ts, al, v)
    PROVE  Held(ts, al, v)
<1>1. CASE al.children[v] > 0
  BY <1>1 DEF Held
<1>2. ASSUME NEW s \in DOMAIN ts, ts[s].view = v, al.children[s] > 0 PROVE Held(ts, al, v)
  <2>1. v # NoTensor
    BY SizesOf DEF NoTensor
  <2>2. al.view[s] = v
    BY <1>2, <2>1 DEF Sound, Based
  <2> QED
    BY <1>2, <2>2 DEF Held
<1> QED
  BY <1>1, <1>2 DEF Wanted

(* A view gets an address in its base and nothing else. *)
LEMMA ViewLaid ==
    ASSUME NEW ts, Shape(ts), NEW P \in SUBSET DOMAIN ts, NEW sz \in Nat,
           NEW al, Sound(ts, al, P, sz), NEW n, Ready(ts, al, P, n), ts[n].view # NoTensor,
           NEW s, s = AllocateNode(ts, al, n)
    PROVE  /\ s \in Allocation(ts) /\ s.free = al.free /\ s.view = al.view
           /\ s.children = al.children /\ s.views = al.views /\ s.failed = FALSE
           /\ \A t \in DOMAIN ts : t # n => s.data[t] = al.data[t]
           /\ Sound(ts, s, P \cup {n}, sz)
<1> DEFINE b == ts[n].view
           lies == [al.data EXCEPT ![n] = IF al.data[b] = Foreign THEN Foreign
                                          ELSE al.data[b] + ts[n].offs]
<1>1. n \in DOMAIN ts /\ n \notin P /\ b \in P /\ al \in Allocation(ts) /\ al.failed = FALSE
  BY DEF Ready, Sound
<1>2. al.data[n] = Null /\ al.view[n] = b
  BY <1>1 DEF Sound, Lies, Based
<1>3. s = [al EXCEPT !.data = lies]
  <2>1. s = InitView(ts, al, n)
    BY <1>1, <1>2 DEF AllocateNode
  <2> QED
    BY <1>1, <1>2, <2>1 DEF InitView, Allocation
<1>4. lies \in [DOMAIN ts -> Int]
  <2>1. ts[n].offs \in Int /\ al.data[b] \in Int /\ al.data \in [DOMAIN ts -> Int]
    BY <1>1, SizesOf, SMTT(30) DEF Allocation
  <2> DEFINE x == IF al.data[b] = Foreign THEN Foreign ELSE al.data[b] + ts[n].offs
  <2>2. x \in Int
    BY <2>1 DEF Foreign
  <2> HIDE DEF x
  <2>3. [al.data EXCEPT ![n] = x] \in [DOMAIN ts -> Int]
    BY <2>1, <2>2
  <2> QED
    BY <2>3 DEF x
<1> HIDE DEF lies
<1>5. /\ s \in Allocation(ts) /\ s.free = al.free /\ s.data = lies /\ s.view = al.view
      /\ s.children = al.children /\ s.views = al.views /\ s.failed = FALSE
  BY <1>1, <1>3, <1>4 DEF Allocation
<1>6. Sound(ts, s, P \cup {n}, sz)
  <2>1. s.data = [al.data EXCEPT ![n] = IF al.data[b] = Foreign THEN Foreign
                                        ELSE al.data[b] + ts[n].offs]
    BY <1>5 DEF lies
  <2> HIDE DEF b
  <2>2. ts[n].view = b
    BY DEF b
  <2> QED
    BY <1>1, <1>5, <2>1, <2>2, ViewSound
<1>7. \A t \in DOMAIN ts : t # n => s.data[t] = al.data[t]
  BY <1>1, <1>5 DEF lies, Allocation
<1> QED
  BY <1>5, <1>6, <1>7

(* A view is placed. *)
LEMMA PlaceView ==
    ASSUME NEW ts, Shape(ts), NEW P \in SUBSET DOMAIN ts, NEW sz \in Nat,
           NEW al, Sound(ts, al, P, sz), NEW n, Ready(ts, al, P, n), ts[n].view # NoTensor
    PROVE  Placed(ts, al, PlaceNode(ts, al, n), P, n, sz)
<1> DEFINE s == AllocateNode(ts, al, n)
           src == ts[n].src
           r == DropBoth(ts, s, src)
<1>1. n \in DOMAIN ts /\ n \notin P /\ P \in SUBSET DOMAIN ts
  BY DEF Ready
<1>2. /\ s \in Allocation(ts) /\ s.free = al.free /\ s.view = al.view
      /\ s.children = al.children /\ s.views = al.views /\ s.failed = FALSE
      /\ \A t \in DOMAIN ts : t # n => s.data[t] = al.data[t]
      /\ Sound(ts, s, P \cup {n}, sz)
  BY <1>1, ViewLaid
<1> HIDE DEF s
<1>3. /\ Sound(ts, r, P \cup {n}, sz) /\ Dropped(ts, s, r, src)
  <2>1. /\ Len(src) \in {0, 1, 2} /\ \A k \in 1..Len(src) : src[k] \in P \cup {n}
        /\ \A t \in DOMAIN ts : s.children[t] >= Times(src, t)
        /\ P \cup {n} \in SUBSET DOMAIN ts
    BY <1>1, <1>2 DEF Ready
  <2> HIDE DEF src
  <2> QED
    BY <1>2, <2>1, DropBothSound, SMTT(30)
<1>4. PlaceNode(ts, al, n) = r
  BY <1>2, PlaceNodeIs DEF s
<1>5. \A t \in DOMAIN ts : t # n => r.data[t] = al.data[t]
  BY <1>2, <1>3 DEF Dropped
<1> QED
  BY <1>2, <1>3, <1>4, <1>5 DEF Placed, Dropped

\* There was no room: the program ends at the assertion.
Stuck(ts, al, r, P, sz) ==
    /\ Sound(ts, r, P, sz) /\ r.failed = TRUE
    /\ r.children = al.children /\ r.data = al.data

(* An allocation that failed keeps what it had. *)
LEMMA StuckSound ==
    ASSUME NEW ts, NEW P \in SUBSET DOMAIN ts, NEW sz \in Nat,
           NEW al, Sound(ts, al, P, sz), NEW r \in Allocation(ts), r.failed = TRUE,
           r.data = al.data, r.free = al.free, r.view = al.view,
           r.children = al.children, r.views = al.views
    PROVE  Stuck(ts, al, r, P, sz)
<1>1. \A b : Users(ts, r, b) = Users(ts, al, b)
  BY DEF Users, Active
<1>2. Viewed(ts, r)
  BY <1>1 DEF Sound, Viewed
<1>3. Based(ts, r, P) /\ Lies(ts, r, P, sz)
  BY DEF Sound, Based, Lies
<1>4. \A t \in DOMAIN ts : Held(ts, r, t) <=> Held(ts, al, t)
  BY DEF Held
<1>5. HeldNotFree(ts, r, P)
  BY <1>4 DEF Sound, HeldNotFree
<1>6. Nested(ts, r, P)
  BY <1>4 DEF Sound, Nested, Overlap, Related
<1>7. TakenAlone(ts, r)
  BY <1>1 DEF Sound, TakenAlone, Taken
<1> QED
  BY <1>2, <1>3, <1>5, <1>6, <1>7 DEF Sound, Stuck

(* A node gets a block of its own, or the program ends. *)
LEMMA PlaceRoot ==
    ASSUME NEW ts, Shape(ts), NEW P \in SUBSET DOMAIN ts, Cache \in P, NEW sz \in Nat,
           NEW al, Sound(ts, al, P, sz), NEW n, Ready(ts, al, P, n), ts[n].view = NoTensor,
           ReusedParent(ts, al, n) = NoTensor
    PROVE  \/ Placed(ts, al, PlaceNode(ts, al, n), P, n, sz)
           \/ Stuck(ts, al, PlaceNode(ts, al, n), P, sz)
<1> DEFINE s == AllocateNode(ts, al, n)
           src == ts[n].src
           r == DropBoth(ts, s, src)
<1>1. n \in DOMAIN ts /\ n \notin P /\ al \in Allocation(ts) /\ al.failed = FALSE /\ n # Cache
  BY DEF Ready, Sound
<1>2. al.data[n] = Null /\ al.view[n] = NoTensor
  BY <1>1 DEF Sound, Lies, Based
<1>3. s = TallocAlloc(ts, al, n)
  BY <1>1, <1>2 DEF AllocateNode
<1> HIDE DEF s
<1>4. PlaceNode(ts, al, n) = IF s.failed THEN s ELSE r
  BY PlaceNodeIs DEF s
<1>5. Sorted(al.free, sz)
  BY DEF Sound
<1>6. /\ s \in Allocation(ts)
      /\ s.view = al.view /\ s.children = al.children /\ s.views = al.views
      /\ \/ s.failed = TRUE /\ s.data = al.data /\ s.free = al.free
         \/ \E x \in Nat : GotCells(ts, al, s, n, sz, x)
  <2>1. Talloced(ts, al, s, n, sz)
    BY <1>1, <1>3, <1>5, TallocIs
  <2> QED
    BY <2>1 DEF Talloced
<1>7. CASE s.failed = TRUE /\ s.data = al.data /\ s.free = al.free
  BY <1>4, <1>6, <1>7, StuckSound
<1>8. ASSUME NEW x \in Nat,
             GotCells(ts, al, s, n, sz, x)
      PROVE  Placed(ts, al, r, P, n, sz)
  <2> DEFINE Q == P \cup {n}
  <2>1. Sound(ts, s, Q, sz)
    BY <1>1, <1>6, <1>8, RootSound
  <2>2. /\ Sound(ts, r, Q, sz) /\ Dropped(ts, s, r, src)
    <3>1. /\ Len(src) \in {0, 1, 2} /\ \A k \in 1..Len(src) : src[k] \in Q
          /\ \A t \in DOMAIN ts : s.children[t] >= Times(src, t)
          /\ Q \in SUBSET DOMAIN ts
      BY <1>1, <1>6 DEF Ready
    <3>2. r = DropBoth(ts, s, src)
      OBVIOUS
    <3> HIDE DEF src, Q, r
    <3>3. Sound(ts, DropBoth(ts, s, src), Q, sz) /\ Dropped(ts, s, DropBoth(ts, s, src), src)
      BY <2>1, <3>1, DropBothSound, SMTT(30)
    <3> QED
      BY <3>2, <3>3
  <2>3. \A t \in DOMAIN ts : r.data[t] = IF t = n THEN x ELSE al.data[t]
    BY <1>1, <1>8, <2>2 DEF Dropped, Allocation, GotCells
  <2>4. \A t \in DOMAIN ts : r.children[t] = al.children[t] - Times(src, t)
    BY <1>6, <2>2 DEF Dropped
  <2>5. \A t \in DOMAIN ts : Times(src, t) \in Nat /\ al.children[t] \in Int
    BY SMTT(30) DEF Times, Sound, Allocation
  <2> HIDE DEF r
  <2>6. \A t \in P : Own(ts, t) /\ Held(ts, al, t) => ~Overlap(ts, r, t, n)
    <3> SUFFICES ASSUME NEW t \in P, Own(ts, t), Held(ts, al, t) PROVE ~Overlap(ts, r, t, n)
      OBVIOUS
    <3>1. al.data[t] \in Nat /\ Clear(al.free, al.data[t], al.data[t] + ts[t].size)
      BY DEF Sound, Lies, HeldNotFree
    <3>2. ts[t].size \in Nat /\ ts[t].size > 0 /\ ts[n].size \in Nat
      BY <1>1, SizesOf
    <3>3. al.data[t] + ts[t].size <= x \/ x + ts[n].size <= al.data[t]
      <4> DEFINE lo == al.data[t]
                 hi == al.data[t] + ts[t].size
      <4>1. lo \in Nat /\ hi \in Nat /\ lo < hi /\ Clear(al.free, lo, hi)
        BY <3>1, <3>2
      <4> QED
        BY <1>8, <4>1 DEF GotCells
    <3>4. r.data[t] = al.data[t] /\ r.data[n] = x
      BY <1>1, <2>3
    <3> QED
      BY <3>1, <3>2, <3>3, <3>4 DEF Overlap
  <2>7. \A v \in P : Wanted(ts, r, v) => ~Overlap(ts, r, v, n)
    <3> SUFFICES ASSUME NEW v \in P, Wanted(ts, r, v) PROVE ~Overlap(ts, r, v, n)
      OBVIOUS
    <3>1. Wanted(ts, al, v)
      BY <2>4, <2>5 DEF Wanted
    <3> QED
      BY <2>6, <3>1, WantedHeld DEF Wanted
  <2>8. \A k \in 1..Len(src) : Own(ts, src[k]) => ~Overlap(ts, r, src[k], n)
    <3> SUFFICES ASSUME NEW k \in 1..Len(src), Own(ts, src[k]) PROVE ~Overlap(ts, r, src[k], n)
      OBVIOUS
    <3>1. src[k] \in P /\ src[k] \in DOMAIN ts /\ Len(src) \in {0, 1, 2}
      BY DEF Ready
    <3>2. Times(src, src[k]) >= 1
      BY <3>1 DEF Times
    <3>3. al.children[src[k]] > 0
      BY <2>5, <3>1, <3>2 DEF Ready
    <3> QED
      BY <2>6, <3>1, <3>3 DEF Held
  <2> QED
    BY <1>1, <1>8, <2>2, <2>3, <2>4, <2>7, <2>8 DEF Placed, Harmless, Dropped, GotCells
<1>9. CASE ~(s.failed = TRUE /\ s.data = al.data /\ s.free = al.free)
  <2>1. PICK x \in Nat : GotCells(ts, al, s, n, sz, x)
    BY <1>6, <1>9
  <2>2. s.failed = FALSE
    BY <1>1, <2>1 DEF GotCells
  <2> QED
    BY <1>4, <1>8, <2>1, <2>2
<1> QED
  BY <1>7, <1>9

(* A node takes over the memory of a source. *)
LEMMA ReusedIs ==
    ASSUME NEW ts, NEW al, NEW n, ReusedParent(ts, al, n) # NoTensor, Len(ts[n].src) \in {0, 1, 2},
           ts[n].src \in Seq(Nat)
    PROVE  /\ CanInplace(ts[n].op)
           /\ \E k \in 1..Len(ts[n].src) : /\ ReusedParent(ts, al, n) = ts[n].src[k]
                                           /\ Reusable(ts, al, n, ts[n].src[k])
<1> DEFINE src == ts[n].src
           candidates == {k \in DOMAIN src : Reusable(ts, al, n, src[k])}
           First(k) == \A j \in candidates : k <= j
<1>1. /\ CanInplace(ts[n].op) /\ candidates # {}
      /\ ReusedParent(ts, al, n) = src[CHOOSE k \in candidates : First(k)]
  BY DEF ReusedParent
<1>2. DOMAIN src = 1..Len(src)
  BY LenProperties
<1>3. \E k \in candidates : First(k)
  <2>1. candidates \in SUBSET Nat
    BY <1>2
  <2> HIDE DEF candidates
  <2> QED
    BY <1>1, <2>1, LeastOf
<1>4. (CHOOSE k \in candidates : First(k)) \in candidates
  <2> HIDE DEF candidates, First
  <2> QED
    BY <1>3
<1> QED
  BY <1>1, <1>2, <1>4

(* What is still read through its base is not where n has been put. *)
LEMMA TookApart ==
    ASSUME NEW ts, Shape(ts), NEW P \in SUBSET DOMAIN ts, Cache \in P, NEW sz \in Nat,
           NEW al, Sound(ts, al, P, sz),
           NEW n \in DOMAIN ts, n \notin P, ts[n].view = NoTensor,
           NEW p \in P, NEW o, TakesOver(ts, al, n, p, o), NEW al2, Took(ts, al, al2, n, p, o),
           NEW v \in P, Wanted(ts, al2, v)
    PROVE  ~Overlap(ts, al2, v, n)
<1> DEFINE Base(t) == al2.view[t]
           Q == P \cup {n}
<1>0. /\ Sound(ts, al2, Q, sz)
      /\ Users(ts, al2, o) \subseteq {n}
      /\ \A u \in P : Own(ts, u) /\ Held(ts, al2, u) /\ Overlap(ts, al2, n, u) => Related(al2, n, u)
  BY TakeSound
<1>1. Q \in SUBSET DOMAIN ts /\ v \in DOMAIN ts /\ 0 \notin DOMAIN ts
  BY SizesOf
<1>2. Held(ts, al2, v) /\ Own(ts, v) /\ ts[v].view = NoTensor
  BY <1>0, <1>1, WantedHeld DEF Wanted
<1>3. /\ \A t, b \in DOMAIN ts : Base(t) = b /\ Active(al2, t) => al2.views[b] > 0
      /\ \A t \in DOMAIN ts : Held(ts, al2, t) => Active(al2, t)
  BY <1>0, ActiveCounts DEF Sound
<1>4. Active(al2, v)
  BY <1>1, <1>2, <1>3
<1>5. o \in P /\ o \in DOMAIN ts /\ ts[o].view = NoTensor /\ o # n
  <2>1. p \in DOMAIN ts /\ al \in Allocation(ts) /\ Based(ts, al, P)
    BY DEF Sound
  <2> QED
    BY <2>1 DEF TakesOver, Based
<1>6. /\ Base(n) = o /\ al2.children[o] = 0 /\ al2.views[o] = 1
  <2>1. /\ al.view \in [DOMAIN ts -> Int] /\ al.children \in [DOMAIN ts -> Int]
        /\ al.views \in [DOMAIN ts -> Int]
    BY DEF Sound, Allocation
  <2>2. al.children[o] = 0 \/ o = p
    BY DEF TakesOver
  <2> QED
    BY <1>5, <2>1, <2>2 DEF Took
<1>7. \A t \in P : Base(t) # n
  BY <1>0, <1>1 DEF Sound, Based, NoTensor, Took
<1>8. \A t \in DOMAIN ts : Base(t) # NoTensor => Base(t) \in DOMAIN ts /\ ts[Base(t)].view = NoTensor
  BY <1>0 DEF Sound, Based
<1>9. v # o
  <2> SUFFICES ASSUME v = o PROVE FALSE
    OBVIOUS
  <2>1. PICK t \in DOMAIN ts : ts[t].view = o /\ al2.children[t] > 0
    BY <1>6 DEF Wanted
  <2>2. Base(t) = o
    BY <1>0, <1>1, <1>5, <2>1 DEF Sound, Based, NoTensor
  <2>3. t = n
    BY <1>0, <2>1, <2>2 DEF Users, Active
  <2> QED
    BY <1>1, <1>5, <2>1, <2>3 DEF NoTensor
<1>10. SUFFICES ASSUME Overlap(ts, al2, n, v) PROVE FALSE
  BY DEF Overlap
<1>11. Related(al2, n, v)
  BY <1>0, <1>2, <1>10
<1>12. ~(Base(n) # NoTensor /\ Base(n) = Base(v))
  <2> SUFFICES ASSUME Base(v) = o PROVE FALSE
    BY <1>6
  <2> QED
    BY <1>0, <1>1, <1>4 DEF Users
<1>13. ~(Base(v) # NoTensor /\ Base(Base(v)) = n)
  <2> SUFFICES ASSUME Base(v) # NoTensor, Base(Base(v)) = n PROVE FALSE
    OBVIOUS
  <2>1. Base(v) \in P
    BY <1>0, <1>1, <1>7 DEF Sound, Based
  <2> QED
    BY <1>7, <2>1
<1>14. Base(o) = v
  BY <1>6, <1>7, <1>9, <1>11, <1>12, <1>13 DEF Related
<1>15. Taken(ts, al2, v)
  BY <1>5, <1>14 DEF Taken
<1>16. al2.children[v] = 0 /\ \A t, u \in Users(ts, al2, v) : t = u
  BY <1>0, <1>1, <1>15 DEF Sound, TakenAlone
<1>17. PICK t \in DOMAIN ts : ts[t].view = v /\ al2.children[t] > 0
  BY <1>16 DEF Wanted
<1>18. Base(t) = v
  BY <1>0, <1>1, <1>17 DEF Sound, Based, NoTensor
<1>19. t \in Users(ts, al2, v) /\ o \in Users(ts, al2, v)
  BY <1>5, <1>6, <1>14, <1>17, <1>18 DEF Users, Active
<1>20. t = o
  BY <1>16, <1>19
<1> QED
  BY <1>1, <1>5, <1>17, <1>20 DEF NoTensor

(* The source that is taken over shares no cell with another one. *)
LEMMA TakenApart ==
    ASSUME NEW ts, Shape(ts), NEW P \in SUBSET DOMAIN ts, NEW sz \in Nat,
           NEW al, Sound(ts, al, P, sz),
           NEW n, NEW p \in P, NEW o, TakesOver(ts, al, n, p, o), Own(ts, p),
           NEW q \in P, q # p, al.children[q] > 0, Own(ts, q)
    PROVE  ~Overlap(ts, al, q, p)
<1> DEFINE Base(t) == al.view[t]
<1>0. p \in DOMAIN ts /\ q \in DOMAIN ts /\ 0 \notin DOMAIN ts
  BY SizesOf
<1>1. /\ \A t, b \in DOMAIN ts : Base(t) = b /\ Active(al, t) => al.views[b] > 0
      /\ \A t, u, b \in DOMAIN ts :
            Base(t) = b /\ Active(al, t) /\ Base(u) = b /\ Active(al, u)
            /\ al.views[b] <= 1 => t = u
  BY ActiveCounts DEF Sound
<1>2. Active(al, p) /\ Active(al, q) /\ Held(ts, al, p) /\ Held(ts, al, q)
  BY <1>0 DEF Active, Held, TakesOver
<1>3. /\ \A t \in DOMAIN ts : Base(t) # NoTensor => Base(t) \in DOMAIN ts /\ ts[Base(t)].view = NoTensor
  BY DEF Sound, Based
<1>4. SUFFICES ASSUME Related(al, q, p) PROVE FALSE
  BY <1>2 DEF Sound, Nested
<1>5. al.views[p] = 0 /\ (Base(p) # NoTensor => al.views[Base(p)] = 1 /\ al.children[Base(p)] = 0)
  BY DEF TakesOver
<1>6. CASE Base(q) = p
  BY <1>0, <1>1, <1>2, <1>5, <1>6
<1>7. CASE Base(p) = q
  BY <1>0, <1>5, <1>7 DEF NoTensor
<1>8. CASE Base(q) # NoTensor /\ Base(q) = Base(p)
  BY <1>0, <1>1, <1>2, <1>3, <1>5, <1>8
<1>9. CASE Base(q) # NoTensor /\ Base(Base(q)) = p
  <2>1. Base(q) \in DOMAIN ts /\ Active(al, Base(q))
    BY <1>0, <1>1, <1>2, <1>3, <1>9 DEF Active
  <2> QED
    BY <1>0, <1>1, <1>5, <1>9, <2>1
<1>10. CASE Base(p) # NoTensor /\ Base(Base(p)) = q
  <2>1. Taken(ts, al, q)
    BY <1>0, <1>3, <1>10 DEF Taken
  <2> QED
    BY <1>0, <2>1 DEF Sound, TakenAlone
<1> QED
  BY <1>4, <1>6, <1>7, <1>8, <1>9, <1>10 DEF Related

\* After n took over p: sound, counted, and away from what is still read.
TakeDone(ts, al, r, P, n, p, o, sz) ==
    /\ Sound(ts, r, P \cup {n}, sz) /\ r.failed = FALSE
    /\ \A t \in DOMAIN ts : r.children[t] = al.children[t] - Times(ts[n].src, t)
    /\ r.data = [al.data EXCEPT ![n] = al.data[p]]
    /\ \A v \in P : Wanted(ts, r, v) => ~Overlap(ts, r, v, n)

(* A takeover and the drops after it, whatever source was taken over: no *)
(* other tensor that is still wanted overlaps the node.                  *)
LEMMA TakeBoth ==
    ASSUME NEW ts, Shape(ts), NEW P \in SUBSET DOMAIN ts, Cache \in P, NEW sz \in Nat,
           NEW al, Sound(ts, al, P, sz), NEW n, Ready(ts, al, P, n), ts[n].view = NoTensor,
           NEW k \in 1..Len(ts[n].src), NEW p, p = ts[n].src[k], NEW o, TakesOver(ts, al, n, p, o),
           NEW s, TakenBy(ts, al, s, n, o)
    PROVE  TakeDone(ts, al, DropBoth(ts, s, ts[n].src), P, n, p, o, sz)
<1> DEFINE src == ts[n].src
           Q == P \cup {n}
<1>0. /\ n \in DOMAIN ts /\ n \notin P /\ al.failed = FALSE
      /\ Len(src) \in {1, 2} /\ \A j \in 1..Len(src) : src[j] \in P
      /\ p \in P /\ p \in DOMAIN ts /\ p # n
      /\ \A t \in DOMAIN ts : al.children[t] >= Times(src, t)
      /\ al \in Allocation(ts) /\ Q \in SUBSET DOMAIN ts
  BY DEF Ready, Sound
<1>1. /\ al.children \in [DOMAIN ts -> Int] /\ al.data \in [DOMAIN ts -> Int]
      /\ al.children[p] = 1
  BY <1>0 DEF Allocation, TakesOver
<1>2. ASSUME NEW y, Sound(ts, y, P, sz), TakesOver(ts, y, n, p, o), NEW z, TakenBy(ts, y, z, n, o)
      PROVE  /\ Took(ts, y, DropReader(ts, z, p), n, p, o)
             /\ Sound(ts, DropReader(ts, z, p), Q, sz)
             /\ y.data[o] = y.data[p]
             /\ \A v \in P : Wanted(ts, DropReader(ts, z, p), v) =>
                   ~Overlap(ts, DropReader(ts, z, p), v, n)
  <2> DEFINE m == DropReader(ts, z, p)
  <2>1. /\ y \in Allocation(ts) /\ y.free \in Seq(Block)
        /\ y.view[p] # NoTensor => y.view[p] \in DOMAIN ts /\ y.view[p] # p /\ y.view[p] # n
    BY <1>0, <1>2 DEF Sound, Sorted, Based
  <2>2. Took(ts, y, m, n, p, o)
    BY <1>0, <1>2, <2>1, TakeDropped
  <2> HIDE DEF m
  <2>3. Sound(ts, m, Q, sz) /\ y.data[o] = y.data[p]
    <3>1. Sound(ts, m, P \cup {n}, sz)
      BY <1>0, <1>2, <2>2, TakeKeeps
    <3>2. y.data[o] = y.data[p]
      BY <1>2 DEF TakesOver
    <3> QED
      BY <3>1, <3>2
  <2>4. \A v \in P : Wanted(ts, m, v) => ~Overlap(ts, m, v, n)
    BY <1>0, <1>2, <2>2, TookApart
  <2> QED
    BY <2>2, <2>3, <2>4 DEF m
<1>3. CASE Len(src) = 1
  <2> DEFINE m == DropReader(ts, s, p)
  <2>1. src[1] = p /\ DropBoth(ts, s, src) = m
    BY <1>3 DEF DropBoth
  <2>2. /\ Took(ts, al, m, n, p, o) /\ Sound(ts, m, Q, sz) /\ al.data[o] = al.data[p]
        /\ \A v \in P : Wanted(ts, m, v) => ~Overlap(ts, m, v, n)
    BY <1>2
  <2>3. \A t \in DOMAIN ts : Times(src, t) = IF t = p THEN 1 ELSE 0
    BY <1>3, <2>1 DEF Times
  <2> HIDE DEF m
  <2>4. \A t \in DOMAIN ts : m.children[t] = al.children[t] - Times(src, t)
    BY <1>0, <1>1, <2>2, <2>3 DEF Took
  <2> QED
    BY <1>0, <2>1, <2>2, <2>4 DEF TakeDone, Took
<1>4. CASE Len(src) = 2
  <2> DEFINE q == IF src[1] = p THEN src[2] ELSE src[1]
  <2>1. /\ \A t \in DOMAIN ts : Times(src, t) = (IF src[1] = t THEN 1 ELSE 0) + (IF src[2] = t THEN 1 ELSE 0)
        /\ src[1] = p \/ src[2] = p
        /\ src[1] \in P /\ src[2] \in P /\ q \in P /\ q \in DOMAIN ts
    BY <1>0, <1>4 DEF Times
  <2>2. q # p
    BY <1>0, <1>1, <2>1
  <2>3. \A t \in DOMAIN ts : Times(src, t) = (IF p = t THEN 1 ELSE 0) + (IF q = t THEN 1 ELSE 0)
    BY <2>1, <2>2, SMTT(30)
  <2>4. DropBoth(ts, s, src) = DropReader(ts, DropReader(ts, s, src[1]), src[2])
    BY <1>4 DEF DropBoth
  <2>5. al.children[q] > 0
    <3> HIDE DEF q, src
    <3>1. Times(src, q) = 1
      BY <2>1, <2>2, <2>3
    <3> QED
      BY <1>0, <1>1, <2>1, <3>1
  <2>6. CASE src[1] = p
    <3> DEFINE m == DropReader(ts, s, p)
               r == DropReader(ts, m, q)
    <3>1. DropBoth(ts, s, src) = r
      BY <2>4, <2>6
    <3>2. /\ Took(ts, al, m, n, p, o) /\ Sound(ts, m, Q, sz) /\ al.data[o] = al.data[p]
          /\ \A v \in P : Wanted(ts, m, v) => ~Overlap(ts, m, v, n)
      BY <1>2
    <3> HIDE DEF m, q
    <3>3. m.children[q] = al.children[q] /\ m.children \in [DOMAIN ts -> Int]
      BY <1>0, <1>1, <2>1, <2>2, <3>2, SMTT(30) DEF Took
    <3>4. Sound(ts, r, Q, sz) /\ OneLess(m, r, q)
      <4>1. q \in Q /\ m.children[q] > 0
        BY <2>1, <2>5, <3>3
      <4> QED
        BY <1>0, <3>2, <4>1, DropSound
    <3> HIDE DEF r
    <3>5. ASSUME NEW t \in DOMAIN ts
          PROVE  r.children[t] = al.children[t] - Times(src, t)
      <4>1. m.children = [al.children EXCEPT ![p] = 0]
        BY <3>2 DEF Took
      <4>2. r.children = [m.children EXCEPT ![q] = @ - 1]
        BY <3>4 DEF OneLess
      <4>3. Times(src, t) = (IF p = t THEN 1 ELSE 0) + (IF q = t THEN 1 ELSE 0)
        BY <2>3 DEF q
      <4> HIDE DEF src
      <4>4. /\ t = p => m.children[t] = 0
            /\ t # p => m.children[t] = al.children[t]
            /\ t = q => r.children[t] = m.children[t] - 1
            /\ t # q => r.children[t] = m.children[t]
        BY <1>0, <1>1, <2>1, <3>3, <4>1, <4>2
      <4>5. m.children[t] \in Int /\ al.children[t] \in Int
        BY <1>1, <3>3
      <4>6. q # p
        BY <2>2 DEF q
      <4> QED
        BY <1>1, <4>3, <4>4, <4>5, <4>6
    <3>6. \A t \in DOMAIN ts : r.children[t] <= m.children[t] /\ r.children[t] \in Int
      BY <2>1, <3>3, <3>4, SMTT(30) DEF OneLess
    <3>7. \A v \in P : Wanted(ts, r, v) => Wanted(ts, m, v)
      BY <3>3, <3>6 DEF Wanted
    <3>8. \A v \in P : Wanted(ts, r, v) => ~Overlap(ts, r, v, n)
      BY <3>2, <3>4, <3>7 DEF OneLess, Overlap
    <3> QED
      BY <1>0, <3>1, <3>2, <3>4, <3>5, <3>8 DEF TakeDone, Took, OneLess
  <2>7. CASE src[1] # p
    <3> DEFINE y == DropReader(ts, al, q)
               z == DropReader(ts, s, q)
               r == DropReader(ts, z, p)
    <3>1. DropBoth(ts, s, src) = r
      BY <2>1, <2>4, <2>7
    <3>0. q \in P /\ q \in DOMAIN ts /\ q # p /\ al.children[q] > 0
      BY <2>1, <2>2, <2>5
    <3> HIDE DEF q
    <3>2. Sound(ts, y, P, sz) /\ OneLess(al, y, q)
      BY <2>1, <2>5, DropSound
    <3>3. TakesOver(ts, y, n, p, o) /\ TakenBy(ts, y, z, n, o)
      <4> HIDE DEF y, z
      <4>1. y = DropReader(ts, al, q) /\ z = DropReader(ts, s, q)
        BY DEF y, z
      <4> QED
        BY <1>0, <2>1, <2>2, <2>5, <4>1, TakeCommutes, ZenonT(60)
    <3> HIDE DEF y, z
    <3>4. /\ Took(ts, y, r, n, p, o) /\ Sound(ts, r, Q, sz) /\ y.data[o] = y.data[p]
          /\ \A v \in P : Wanted(ts, r, v) => ~Overlap(ts, r, v, n)
      BY <1>2, <3>2, <3>3
    <3> HIDE DEF r
    <3>5. ASSUME NEW t \in DOMAIN ts
          PROVE  r.children[t] = al.children[t] - Times(src, t)
      <4>1. y.children = [al.children EXCEPT ![q] = @ - 1]
        BY <3>2 DEF OneLess
      <4>2. r.children = [y.children EXCEPT ![p] = 0]
        BY <3>4 DEF Took
      <4>3. Times(src, t) = (IF p = t THEN 1 ELSE 0) + (IF q = t THEN 1 ELSE 0)
        BY <2>3 DEF q
      <4> HIDE DEF src
      <4>4. /\ t = q => y.children[t] = al.children[t] - 1
            /\ t # q => y.children[t] = al.children[t]
            /\ DOMAIN y.children = DOMAIN ts
        BY <1>0, <1>1, <2>1, <4>1
      <4>5. /\ t = p => r.children[t] = 0
            /\ t # p => r.children[t] = y.children[t]
        BY <1>0, <4>2, <4>4
      <4>6. q # p /\ al.children[t] \in Int
        BY <1>1, <2>2 DEF q
      <4>7. CASE t = p
        <5>1. al.children[t] = 1
          BY <1>1, <4>7
        <5> QED
          BY <4>3, <4>5, <4>6, <4>7, <5>1
      <4>8. CASE t = q
        BY <4>3, <4>4, <4>5, <4>6, <4>8
      <4>9. CASE t # p /\ t # q
        BY <4>3, <4>4, <4>5, <4>6, <4>9
      <4> QED
        BY <4>7, <4>8, <4>9
    <3> QED
      BY <1>0, <3>1, <3>2, <3>4, <3>5 DEF TakeDone, Took, OneLess
  <2> QED
    BY <2>6, <2>7
<1> QED
  BY <1>0, <1>3, <1>4

(* The source that is taken over is the last one's to read, and n gets its *)
(* cells.                                                                  *)
LEMMA TakenIs ==
    ASSUME NEW ts, Shape(ts), NEW P \in SUBSET DOMAIN ts, Cache \in P, NEW sz \in Nat,
           NEW al, Sound(ts, al, P, sz), NEW n, Ready(ts, al, P, n), ts[n].view = NoTensor,
           ReusedParent(ts, al, n) # NoTensor
    PROVE  /\ CanInplace(ts[n].op) /\ AllocateNode(ts, al, n).failed = FALSE
           /\ \E k, o : /\ k \in 1..Len(ts[n].src) /\ TakesOver(ts, al, n, ts[n].src[k], o)
                        /\ TakenBy(ts, al, AllocateNode(ts, al, n), n, o)
<1> DEFINE src == ts[n].src
           s == AllocateNode(ts, al, n)
           p == ReusedParent(ts, al, n)
           o == IF al.view[p] = NoTensor THEN p ELSE al.view[p]
           lies == [al.data EXCEPT ![n] = al.data[o]]
           based == [al.view EXCEPT ![n] = o]
           more == [al.views EXCEPT ![o] = @ + 1]
<1>1. /\ n \in DOMAIN ts /\ n \notin P /\ al \in Allocation(ts) /\ al.failed = FALSE /\ n # Cache
      /\ Len(src) \in {0, 1, 2} /\ \A j \in 1..Len(src) : src[j] \in P
      /\ al.children \in [DOMAIN ts -> Int] /\ al.data \in [DOMAIN ts -> Int]
      /\ al.view \in [DOMAIN ts -> Int] /\ al.views \in [DOMAIN ts -> Int]
  BY DEF Ready, Sound, Allocation
<1>2. al.data[n] = Null /\ al.view[n] = NoTensor /\ ts[n].offs = 0
  BY <1>1 DEF Sound, Lies, Based, Shape
<1>3. CanInplace(ts[n].op) /\ \E k \in 1..Len(src) : p = src[k] /\ Reusable(ts, al, n, p)
  <2>1. ts[n].src \in Seq(Nat)
    BY <1>1, SizesOf DEF Tensor
  <2> HIDE DEF p
  <2>2. CanInplace(ts[n].op) /\ \E k \in 1..Len(src) : p = src[k] /\ Reusable(ts, al, n, src[k])
    BY <1>1, <2>1, ReusedIs DEF p
  <2> QED
    BY <2>2
<1>4. PICK k \in 1..Len(src) : p = src[k] /\ Reusable(ts, al, n, p)
  BY <1>3
<1>5. p \in P /\ p \in DOMAIN ts
  BY <1>1, <1>4
<1>6. s = InitView(ts, [al EXCEPT !.view[n] = o, !.views[o] = @ + 1], n)
  BY <1>1, <1>2 DEF AllocateNode
<1> HIDE DEF p
<1>7. TakesOver(ts, al, n, p, o)
  BY <1>4 DEF Reusable, TakesOver, IsOwn
<1>8. o \in DOMAIN ts /\ al.data[o] = al.data[p] /\ al.data[o] # Foreign
  BY <1>1, <1>5, <1>7 DEF TakesOver, Sound, Based, Foreign
<1> HIDE DEF o
<1>9. s = [al EXCEPT !.view = based, !.views = more, !.data = lies]
  <2> DEFINE x == [al EXCEPT !.view[n] = o, !.views[o] = @ + 1]
  <2>1. x = [al EXCEPT !.view = based, !.views = more]
    BY <1>1 DEF Allocation
  <2>2. x.view = based /\ x.views = more /\ x.data = al.data
    BY <1>1, <2>1 DEF Allocation
  <2>3. x.view[n] = o
    BY <1>1, <2>2
  <2> HIDE DEF x, based, more
  <2>4. InitView(ts, x, n) = [x EXCEPT !.data = lies]
    <3>1. InitView(ts, x, n) = [x EXCEPT !.data[n] = al.data[o] + 0]
      BY <1>2, <1>8, <2>2, <2>3 DEF InitView
    <3>2. al.data[o] + 0 = al.data[o]
      BY <1>1, <1>8
    <3> QED
      BY <2>2, <3>1, <3>2
  <2>5. s = InitView(ts, x, n)
    BY <1>6 DEF x
  <2> HIDE DEF lies, s
  <2>6. s = [[al EXCEPT !.view = based, !.views = more] EXCEPT !.data = lies]
    BY <2>1, <2>4, <2>5
  <2> QED
    BY <1>1, <2>6 DEF Allocation
<1>10. based \in [DOMAIN ts -> Int] /\ more \in [DOMAIN ts -> Int] /\ lies \in [DOMAIN ts -> Int]
  <2>0. DOMAIN ts \subseteq Int
    BY SizesOf
  <2>1. o \in Int /\ al.data[o] \in Int /\ al.views[o] + 1 \in Int
    BY <1>1, <1>8, <2>0, SMTT(30)
  <2>2. based \in [DOMAIN ts -> Int]
    BY <1>1, <2>1
  <2>3. more \in [DOMAIN ts -> Int]
    BY <1>1, <2>1
  <2>4. lies \in [DOMAIN ts -> Int]
    BY <1>1, <2>1
  <2> QED
    BY <2>2, <2>3, <2>4
<1>11. TakenBy(ts, al, s, n, o)
  <2> HIDE DEF based, more, lies, s
  <2>1. /\ s \in Allocation(ts) /\ s.free = al.free /\ s.failed = al.failed /\ s.data = lies
        /\ s.view = based /\ s.children = al.children /\ s.views = more
    BY <1>1, <1>9, <1>10 DEF Allocation
  <2> QED
    BY <2>1 DEF TakenBy, based, more, lies
<1> HIDE DEF s
<1>12. s.failed = FALSE
  BY <1>1, <1>11 DEF TakenBy
<1> QED
  BY <1>3, <1>4, <1>7, <1>11, <1>12 DEF s

(* A node takes over the memory of a source. *)
LEMMA PlaceTaken ==
    ASSUME NEW ts, Shape(ts), NEW P \in SUBSET DOMAIN ts, Cache \in P, NEW sz \in Nat,
           NEW al, Sound(ts, al, P, sz), NEW n, Ready(ts, al, P, n), ts[n].view = NoTensor,
           ReusedParent(ts, al, n) # NoTensor
    PROVE  Placed(ts, al, PlaceNode(ts, al, n), P, n, sz)
<1> DEFINE src == ts[n].src
           s == AllocateNode(ts, al, n)
           r == DropBoth(ts, s, src)
<1>1. /\ n \in DOMAIN ts /\ n \notin P
      /\ Len(src) \in {0, 1, 2} /\ \A j \in 1..Len(src) : src[j] \in P
      /\ al.children \in [DOMAIN ts -> Int] /\ al.data \in [DOMAIN ts -> Int]
  BY DEF Ready, Sound, Allocation
<1>2. CanInplace(ts[n].op) /\ s.failed = FALSE
  BY TakenIs
<1>3. PICK k, o : k \in 1..Len(src) /\ TakesOver(ts, al, n, src[k], o) /\ TakenBy(ts, al, s, n, o)
  BY TakenIs
<1> DEFINE p == src[k]
<1>4. p \in P /\ p \in DOMAIN ts
  BY <1>1, <1>3
<1>5. TakesOver(ts, al, n, p, o)
  BY <1>3
<1>6. TakeDone(ts, al, r, P, n, p, o, sz)
  <2> HIDE DEF s
  <2> QED
    BY <1>3, TakeBoth
<1>7. PlaceNode(ts, al, n) = r
  <2> HIDE DEF s
  <2> QED
    BY <1>2, PlaceNodeIs DEF s
<1> HIDE DEF s, r, p
<1>8. ts[n].size = ts[p].size /\ Own(ts, p)
  <2>1. al.data[p] >= 0
    BY <1>5 DEF TakesOver
  <2> QED
    BY <1>4, <1>5, <2>1 DEF TakesOver, Sound, Lies, Foreign
<1>9. /\ \A t \in DOMAIN ts : t # n => r.data[t] = al.data[t]
       /\ r.data[n] = al.data[p]
  BY <1>1, <1>6 DEF TakeDone
<1>10. ASSUME NEW j \in 1..Len(src), Own(ts, src[j])
       PROVE  \/ ~Overlap(ts, r, src[j], n)
              \/ CanInplace(ts[n].op) /\ r.data[src[j]] = r.data[n] /\ ts[src[j]].size = ts[n].size
  <2>1. src[j] \in P /\ src[j] \in DOMAIN ts /\ src[j] # n
    BY <1>1
  <2>2. CASE src[j] = p
    <3> HIDE DEF src
    <3> QED
      BY <1>2, <1>8, <1>9, <2>1, <2>2
  <2>3. CASE src[j] # p
    <3>1. Times(src, src[j]) >= 1
      <4>0. Len(src) \in {0, 1, 2}
        BY <1>1
      <4>1. j = 1 \/ (j = 2 /\ Len(src) >= 2)
        <5> SUFFICES ASSUME NEW L \in {0, 1, 2}, j \in 1..L
                     PROVE  j = 1 \/ (j = 2 /\ L >= 2)
          BY <4>0
        <5> QED
          OBVIOUS
      <4>2. Len(src) >= 1
        BY <1>1
      <4> HIDE DEF src
      <4>3. /\ Len(src) >= 1 /\ src[1] = src[j] => Times(src, src[j]) >= 1
            /\ Len(src) >= 2 /\ src[2] = src[j] => Times(src, src[j]) >= 1
        BY DEF Times
      <4>4. CASE j = 1
        BY <4>2, <4>3, <4>4
      <4>5. CASE j = 2 /\ Len(src) >= 2
        BY <4>3, <4>5
      <4> QED
        BY <4>1, <4>4, <4>5
    <3>2. al.children[src[j]] > 0
      <4>1. al.children[src[j]] \in Int /\ Times(src, src[j]) \in Int
        BY <1>1, <2>1 DEF Times
      <4> QED
        BY <2>1, <3>1, <4>1 DEF Ready
    <3>3. ~Overlap(ts, al, src[j], p)
      BY <1>4, <1>5, <1>8, <1>10, <2>1, <2>3, <3>2, TakenApart
    <3> QED
      BY <1>8, <1>9, <2>1, <3>3 DEF Overlap
  <2> QED
    BY <2>2, <2>3
<1>11. Harmless(ts, r, P, n)
  BY <1>6, <1>10 DEF Harmless, TakeDone
<1> QED
  BY <1>6, <1>7, <1>9, <1>11 DEF Placed, TakeDone

(* One round of the loop over the nodes. *)
LEMMA PlaceSound ==
    ASSUME NEW ts, Shape(ts), NEW P \in SUBSET DOMAIN ts, Cache \in P, NEW sz \in Nat,
           NEW al, Sound(ts, al, P, sz), NEW n, Ready(ts, al, P, n)
    PROVE  \/ Placed(ts, al, PlaceNode(ts, al, n), P, n, sz)
           \/ Stuck(ts, al, PlaceNode(ts, al, n), P, sz)
BY PlaceView, PlaceRoot, PlaceTaken

-----------------------------------------------------------------------------
(***************************************************************************)
(* The graph as it is built, and the order of its nodes.                   *)
(***************************************************************************)
SourcesOK(ts, t) ==
    LET src == ts[t].src
    IN  /\ Len(src) \in {0, 1, 2}
        /\ \A k \in 1..Len(src) : src[k] \in 1..(t - 1) /\ ts[src[k]].op # "copy"
        /\ ts[t].op = "none" => Len(src) = 0
        /\ ts[t].op = "matmul" => Len(src) \in {1, 2}
        /\ ts[t].op = "add" => /\ Len(src) = 2 /\ ts[t].size = ts[src[1]].size
                               /\ ts[src[2]].size \in {1, ts[t].size}
        /\ ts[t].op = "scale" => Len(src) = 1 /\ ts[t].size = ts[src[1]].size
        /\ ts[t].op = "copy" => /\ Len(src) = 2 /\ src[1] # Cache /\ src[2] = Cache
                                /\ ts[src[1]].size = ts[t].size
        /\ ts[t].op = "view" => Len(src) = 1
        /\ ts[t].op \in {"matmul", "add", "scale"} => \A k \in 1..Len(src) : src[k] # Cache

BaseOK(ts, t) ==
    LET b == ts[t].view
    IN  /\ b # NoTensor <=> ts[t].op \in {"view", "copy"}
        /\ b = NoTensor => ts[t].offs = 0
        /\ b # NoTensor => /\ b \in 1..(t - 1) /\ ts[b].view = NoTensor
                           /\ ts[t].offs + ts[t].size <= ts[b].size
        /\ ts[t].op = "copy" => b = Cache /\ ts[t].size = 1
        /\ ts[t].op = "view" => b = ts[t].src[1] \/ b = ts[ts[t].src[1]].view
        /\ ts[t].op = "view" /\ b = Cache => \E c \in 1..(t - 1) : ts[c].op = "copy"

GraphOK(ts) ==
    /\ ts \in Seq(Tensor) /\ Len(ts) >= 2
    /\ ts[Input] = Leaf(InputSize) /\ ts[Cache] = Leaf(1)
    /\ \A t \in DOMAIN ts : /\ ts[t].op \in Ops
                            /\ ts[t].op = "none" <=> t \in {Input, Cache}
                            /\ SourcesOK(ts, t) /\ BaseOK(ts, t)
    /\ \A t, u \in DOMAIN ts : ts[t].op = "copy" /\ ts[u].op = "copy" => t = u

(* What a well-formed graph says of each tensor, *)
LEMMA GraphDomain ==
    ASSUME NEW ts, GraphOK(ts)
    PROVE  /\ DOMAIN ts = 1..Len(ts) /\ Len(ts) \in Nat
           /\ Input \in DOMAIN ts /\ Cache \in DOMAIN ts
           /\ ts[Cache].view = NoTensor /\ ts[Input].view = NoTensor
           /\ \A t \in DOMAIN ts : ts[t] \in Tensor /\ SourcesOK(ts, t) /\ BaseOK(ts, t)
<1>1. DOMAIN ts = 1..Len(ts) /\ Len(ts) \in Nat
  BY LenProperties DEF GraphOK
<1>2. \A t \in DOMAIN ts : ts[t] \in Tensor
  BY <1>1, ElementOfSeq DEF GraphOK
<1> QED
  BY <1>1, <1>2 DEF GraphOK, Input, Cache, Leaf, NoTensor

(* and that the allocator can place it. *)
LEMMA GraphShape ==
    ASSUME NEW ts, GraphOK(ts)
    PROVE  Shape(ts)
<1>1. \A t \in DOMAIN ts : BaseOK(ts, t) /\ t \in Nat /\ t <= Len(ts)
  BY GraphDomain
<1>2. ASSUME NEW t \in DOMAIN ts
      PROVE  LET b == ts[t].view
             IN  /\ b = NoTensor => ts[t].offs = 0
                 /\ b # NoTensor => /\ b \in DOMAIN ts /\ b < t /\ ts[b].view = NoTensor
                                    /\ ts[t].offs + ts[t].size <= ts[b].size
  BY <1>1, GraphDomain DEF BaseOK
<1> QED
  BY <1>2, GraphDomain DEF Shape, GraphOK

-----------------------------------------------------------------------------
(* ggml_visit_parents, as the recursive function it is.                    *)
VisitState(ts) == [seen : SUBSET DOMAIN ts, nodes : Seq(DOMAIN ts)]

Above(ts, f, t, v) ==
    LET src == ts[t].src
        w == [v EXCEPT !.seen = @ \cup {t}]
    IN  IF Len(src) = 0 THEN w
        ELSE IF Len(src) = 1 THEN f[src[1]][w]
        ELSE f[src[2]][f[src[1]][w]]

VisitBody(ts, f, t) ==
    [v \in VisitState(ts) |->
        IF t \in v.seen THEN v
        ELSE IF ts[t].op = "none" THEN Above(ts, f, t, v)
        ELSE [Above(ts, f, t, v) EXCEPT !.nodes = Append(@, t)]]

(* A visit calls itself only for sources. *)
LEMMA VisitsSources ==
    ASSUME NEW ts, NEW t, NEW f, NEW g, Len(ts[t].src) \in {0, 1, 2},
           \A k \in 1..Len(ts[t].src) : f[ts[t].src[k]] = g[ts[t].src[k]]
    PROVE  VisitBody(ts, f, t) = VisitBody(ts, g, t)
<1>1. \A v : Above(ts, f, t, v) = Above(ts, g, t, v)
  <2>1. CASE Len(ts[t].src) = 0
    BY <2>1 DEF Above
  <2>2. CASE Len(ts[t].src) = 1
    BY <2>2 DEF Above
  <2>3. CASE Len(ts[t].src) = 2
    BY <2>3 DEF Above
  <2> QED
    BY <2>1, <2>2, <2>3
<1> QED
  BY <1>1 DEF VisitBody

(* The function that VisitParents chooses exists: it is defined from the *)
(* tensors before.                                                       *)
LEMMA VisitExists ==
    ASSUME NEW ts, GraphOK(ts)
    PROVE  \E f : f = [t \in DOMAIN ts |-> VisitBody(ts, f, t)]
<1> DEFINE n == Len(ts)
           S == {k \in 0..n : \E f : f = [t \in 1..k |-> VisitBody(ts, f, t)]}
<1>1. n \in Nat /\ DOMAIN ts = 1..n
  BY GraphDomain
<1>2. 0 \in S
  <2> SUFFICES ASSUME NEW k, k = 0 PROVE k \in S
    OBVIOUS
  <2> DEFINE D == 1..k
             f == [t \in D |-> 0]
  <2>1. f = [t \in D |-> VisitBody(ts, f, t)]
    <3>1. D = {}
      OBVIOUS
    <3> HIDE DEF D
    <3>2. f = [t \in D |-> f[t]] /\ \A t \in D : f[t] = VisitBody(ts, f, t)
      BY <3>1
    <3> HIDE DEF f
    <3> QED
      BY <3>2
  <2> HIDE DEF f
  <2>2. \E h : h = [t \in 1..k |-> VisitBody(ts, h, t)]
    BY <2>1, Zenon
  <2>3. k \in 0..n
    BY <1>1
  <2> QED
    BY <2>2, <2>3, Zenon
<1>3. ASSUME NEW k \in 1..n, k - 1 \in S
      PROVE  k \in S
  <2>1. PICK f : f = [t \in 1..(k - 1) |-> VisitBody(ts, f, t)]
    BY <1>3
  <2> DEFINE g == [t \in 1..k |-> IF t = k THEN VisitBody(ts, f, t) ELSE f[t]]
  <2>2. \A t \in 1..(k - 1) : g[t] = f[t]
    BY <1>1
  <2>3. ASSUME NEW t \in 1..k
        PROVE  g[t] = VisitBody(ts, g, t)
    <3>1. /\ Len(ts[t].src) \in {0, 1, 2}
          /\ \A j \in 1..Len(ts[t].src) : ts[t].src[j] \in 1..(t - 1)
      BY <1>1, GraphDomain, SMTT(30) DEF SourcesOK
    <3>2. \A j \in 1..Len(ts[t].src) : ts[t].src[j] \in 1..(k - 1)
      BY <1>1, <3>1
    <3> HIDE DEF g
    <3>3. VisitBody(ts, f, t) = VisitBody(ts, g, t)
      BY <2>2, <3>1, <3>2, VisitsSources
    <3>4. g[t] = VisitBody(ts, f, t)
      <4>1. CASE t = k
        BY <4>1 DEF g
      <4>2. CASE t # k
        <5>1. t \in 1..(k - 1)
          BY <1>1, <4>2
        <5>2. f[t] = VisitBody(ts, f, t)
          BY <2>1, <5>1
        <5> QED
          BY <2>2, <5>1, <5>2
      <4> QED
        BY <4>1, <4>2
    <3> QED
      BY <3>3, <3>4
  <2>4. g = [t \in 1..k |-> VisitBody(ts, g, t)]
    <3>1. DOMAIN g = 1..k /\ g = [t \in 1..k |-> g[t]]
      OBVIOUS
    <3> HIDE DEF g
    <3> QED
      BY <2>3, <3>1
  <2> HIDE DEF g
  <2> QED
    BY <1>1, <2>4
<1>4. \A k \in 1..n : k - 1 \in S => k \in S
  BY <1>3
<1> HIDE DEF S
<1>5. \A k \in 0..n : k \in S
  BY <1>1, <1>2, <1>4, UpTo
<1>6. n \in S
  BY <1>1, <1>5
<1> QED
  BY <1>1, <1>6 DEF S

(* So VisitParents is what its definition says. *)
LEMMA VisitIs ==
    ASSUME NEW ts, GraphOK(ts)
    PROVE  \A t \in DOMAIN ts : VisitParents(ts)[t] = VisitBody(ts, VisitParents(ts), t)
<1> DEFINE visit == CHOOSE f : f = [t \in DOMAIN ts |-> VisitBody(ts, f, t)]
<1>1. visit = [t \in DOMAIN ts |-> VisitBody(ts, visit, t)]
  BY VisitExists
<1>2. VisitParents(ts) = visit
  BY DEF VisitParents, VisitBody, Above, InTurn, VisitState
<1> HIDE DEF visit
<1> QED
  BY <1>1, <1>2

(* The nodes seen up to t are all in the list, each once and after its     *)
(* sources.                                                                *)
At(v, u) == \E i \in 1..Len(v.nodes) : v.nodes[i] = u

InOrder(ts, t, v) ==
    /\ v \in VisitState(ts)
    /\ \A i \in 1..Len(v.nodes) : v.nodes[i] \in v.seen /\ ts[v.nodes[i]].op # "none"
    /\ \A i, j \in 1..Len(v.nodes) : v.nodes[i] = v.nodes[j] => i = j
    /\ \A i \in 1..Len(v.nodes) : \A k \in 1..Len(ts[v.nodes[i]].src) :
          LET s == ts[v.nodes[i]].src[k]
          IN  ts[s].op # "none" => \E j \in 1..(i - 1) : v.nodes[j] = s
    /\ \A u \in v.seen : u <= t /\ ts[u].op # "none" => At(v, u)

\* The visit that leads from v to w has appended what it saw first.
Grown(ts, t, v, w) ==
    /\ v.seen \subseteq w.seen
    /\ \A u \in w.seen \ v.seen : u <= t /\ (ts[u].op # "none" => At(w, u))
    /\ Len(v.nodes) <= Len(w.nodes)
    /\ \A i \in 1..Len(v.nodes) : w.nodes[i] = v.nodes[i]
    /\ \A i \in (Len(v.nodes) + 1)..Len(w.nodes) : w.nodes[i] \notin v.seen

Visits(ts, s) ==
    \A v : InOrder(ts, s, v) =>
       LET w == VisitParents(ts)[s][v]
       IN  InOrder(ts, s, w) /\ Grown(ts, s, v, w) /\ s \in w.seen

(* The parts of a state of the visit. *)
LEMMA StateIs ==
    ASSUME NEW ts, NEW v \in VisitState(ts)
    PROVE  /\ v.seen \in SUBSET DOMAIN ts /\ v.nodes \in Seq(DOMAIN ts) /\ Len(v.nodes) \in Nat
           /\ DOMAIN v.nodes = 1..Len(v.nodes)
           /\ \A i \in 1..Len(v.nodes) : v.nodes[i] \in DOMAIN ts
<1>1. v.seen \in SUBSET DOMAIN ts /\ v.nodes \in Seq(DOMAIN ts)
  BY DEF VisitState
<1> QED
  BY <1>1, LenProperties, ElementOfSeq

(* A visit forgets no node, *)
LEMMA GrownAt ==
    ASSUME NEW ts, NEW t, NEW v \in VisitState(ts), NEW w \in VisitState(ts), Grown(ts, t, v, w),
           NEW u, At(v, u)
    PROVE  At(w, u)
BY StateIs DEF Grown, At

(* stays in order when more tensors may be in it, *)
LEMMA GrownOrder ==
    ASSUME NEW ts, DOMAIN ts \subseteq Nat, NEW t \in Nat, NEW r \in Nat, t <= r, NEW v, NEW w,
           InOrder(ts, r, v), InOrder(ts, t, w), Grown(ts, t, v, w)
    PROVE  InOrder(ts, r, w) /\ Grown(ts, r, v, w)
<1>1. v \in VisitState(ts) /\ w \in VisitState(ts)
  BY DEF InOrder
<1>2. \A u \in w.seen : u \in Nat
  BY <1>1, StateIs
<1>3. \A u \in w.seen : u <= r /\ ts[u].op # "none" => At(w, u)
  <2>1. \A u : At(v, u) => At(w, u)
    BY <1>1, GrownAt
  <2> QED
    BY <2>1 DEF InOrder, Grown
<1>4. InOrder(ts, r, w)
  BY <1>3 DEF InOrder
<1>5. \A u \in w.seen \ v.seen : u <= r
  BY <1>2 DEF Grown
<1> QED
  BY <1>4, <1>5 DEF Grown

(* and two visits are one. *)
LEMMA GrownTwice ==
    ASSUME NEW ts, DOMAIN ts \subseteq Nat, NEW t \in Nat,
           NEW v \in VisitState(ts), NEW w \in VisitState(ts), NEW x \in VisitState(ts),
           Grown(ts, t, v, w), Grown(ts, t, w, x)
    PROVE  Grown(ts, t, v, x)
<1>1. \A u : At(w, u) => At(x, u)
  BY GrownAt
<1>2. \A u \in x.seen \ v.seen : u <= t /\ (ts[u].op # "none" => At(x, u))
  BY <1>1 DEF Grown
<1>3. Len(v.nodes) \in Nat /\ Len(w.nodes) \in Nat /\ Len(x.nodes) \in Nat
  BY StateIs
<1>4. Len(v.nodes) <= Len(w.nodes) /\ Len(w.nodes) <= Len(x.nodes)
  BY DEF Grown
<1>5. \A i \in 1..Len(v.nodes) : x.nodes[i] = v.nodes[i]
  BY <1>3, <1>4 DEF Grown
<1>6. ASSUME NEW i \in (Len(v.nodes) + 1)..Len(x.nodes)
      PROVE  x.nodes[i] \notin v.seen
  <2>1. CASE i <= Len(w.nodes)
    <3>1. i \in (Len(v.nodes) + 1)..Len(w.nodes) /\ i \in 1..Len(w.nodes)
      BY <1>3, <2>1
    <3> QED
      BY <3>1 DEF Grown
  <2>2. CASE i > Len(w.nodes)
    <3>1. i \in (Len(w.nodes) + 1)..Len(x.nodes)
      BY <1>3, <2>2
    <3> QED
      BY <3>1 DEF Grown
  <2> QED
    BY <1>3, <2>1, <2>2
<1>7. v.seen \subseteq x.seen
  BY DEF Grown
<1> QED
  BY <1>2, <1>3, <1>4, <1>5, <1>6, <1>7 DEF Grown

(* One source is visited. *)
LEMMA VisitOne ==
    ASSUME NEW ts, DOMAIN ts \subseteq Nat, NEW s \in Nat, NEW r \in Nat, s <= r, Visits(ts, s),
           NEW v, InOrder(ts, r, v)
    PROVE  LET w == VisitParents(ts)[s][v]
           IN  InOrder(ts, r, w) /\ Grown(ts, r, v, w) /\ s \in w.seen
<1> DEFINE w == VisitParents(ts)[s][v]
<1>1. v \in VisitState(ts)
  BY DEF InOrder
<1>2. \A u \in v.seen : u \in Nat
  BY <1>1, StateIs
<1>3. InOrder(ts, s, v)
  BY <1>2 DEF InOrder
<1>4. InOrder(ts, s, w) /\ Grown(ts, s, v, w) /\ s \in w.seen
  BY <1>3 DEF Visits
<1> HIDE DEF w
<1>5. InOrder(ts, r, w) /\ Grown(ts, r, v, w)
  BY <1>4, GrownOrder
<1> QED
  BY <1>4, <1>5 DEF w

(* The sources of t are visited. *)
LEMMA AboveVisits ==
    ASSUME NEW ts, GraphOK(ts), NEW t \in DOMAIN ts, \A s \in 1..(t - 1) : Visits(ts, s),
           NEW v, InOrder(ts, t, v), t \notin v.seen
    PROVE  LET w == [v EXCEPT !.seen = @ \cup {t}]
               x == Above(ts, VisitParents(ts), t, v)
           IN  /\ InOrder(ts, t - 1, w) /\ InOrder(ts, t - 1, x) /\ Grown(ts, t - 1, w, x)
               /\ \A k \in 1..Len(ts[t].src) : ts[t].src[k] \in x.seen
<1> DEFINE visit == VisitParents(ts)
           src == ts[t].src
           w == [v EXCEPT !.seen = @ \cup {t}]
           x == Above(ts, visit, t, v)
           r == t - 1
<1>1. /\ DOMAIN ts \subseteq Nat /\ t \in Nat /\ r \in Nat /\ t \notin 1..r /\ ~(t <= r)
      /\ Len(src) \in {0, 1, 2} /\ \A k \in 1..Len(src) : src[k] \in 1..r
  BY GraphDomain DEF SourcesOK
<1>2. /\ v \in VisitState(ts) /\ w \in VisitState(ts) /\ w.seen = v.seen \cup {t} /\ w.nodes = v.nodes
  BY DEF InOrder, VisitState
<1>3. InOrder(ts, r, w)
  <2>1. \A u \in w.seen : u <= r /\ ts[u].op # "none" => At(w, u)
    <3>1. \A u \in v.seen : u \in Nat
      BY <1>1, <1>2, StateIs
    <3> QED
      BY <1>1, <1>2, <3>1 DEF InOrder, At
  <2> HIDE DEF w, r
  <2> QED
    BY <1>2, <2>1 DEF InOrder
<1>4. \A s \in 1..r : s \in Nat /\ s <= r /\ Visits(ts, s)
  BY <1>1
<1> HIDE DEF w, r, x, visit
<1>5. Grown(ts, r, w, w)
  BY <1>2, StateIs DEF Grown
<1>6. ASSUME NEW s \in 1..r, NEW y, InOrder(ts, r, y)
      PROVE  InOrder(ts, r, visit[s][y]) /\ Grown(ts, r, y, visit[s][y]) /\ s \in visit[s][y].seen
  BY <1>1, <1>4, <1>6, VisitOne DEF visit
<1>7. CASE Len(src) = 0
  <2>1. x = w
    BY <1>7 DEF x, w, Above
  <2> QED
    BY <1>3, <1>5, <1>7, <2>1 DEF x, w, r, visit
<1>8. CASE Len(src) = 1
  <2>1. x = visit[src[1]][w] /\ src[1] \in 1..r
    BY <1>1, <1>8 DEF x, w, Above
  <2>2. InOrder(ts, r, x) /\ Grown(ts, r, w, x) /\ src[1] \in x.seen
    BY <1>3, <1>6, <2>1
  <2>3. \A k \in 1..Len(src) : src[k] \in x.seen
    BY <1>8, <2>2
  <2> QED
    BY <1>3, <2>2, <2>3 DEF x, w, r, visit
<1>9. CASE Len(src) = 2
  <2> DEFINE y == visit[src[1]][w]
  <2>1. x = visit[src[2]][y] /\ src[1] \in 1..r /\ src[2] \in 1..r
    BY <1>1, <1>9 DEF x, w, Above
  <2>2. InOrder(ts, r, y) /\ Grown(ts, r, w, y) /\ src[1] \in y.seen
    BY <1>3, <1>6, <2>1
  <2> HIDE DEF y
  <2>3. InOrder(ts, r, x) /\ Grown(ts, r, y, x) /\ src[2] \in x.seen
    BY <1>6, <2>1, <2>2
  <2>4. Grown(ts, r, w, x)
    <3>1. y \in VisitState(ts) /\ x \in VisitState(ts)
      BY <2>2, <2>3 DEF InOrder
    <3> QED
      BY <1>1, <1>2, <2>2, <2>3, <3>1, GrownTwice
  <2>5. src[1] \in x.seen
    BY <2>2, <2>3 DEF Grown
  <2>6. \A k \in 1..Len(src) : src[k] \in x.seen
    BY <1>9, <2>3, <2>5
  <2> QED
    BY <1>3, <2>3, <2>4, <2>6 DEF x, w, r, visit
<1> QED
  BY <1>1, <1>7, <1>8, <1>9

(* Then t itself. *)
LEMMA VisitLast ==
    ASSUME NEW ts, GraphOK(ts), NEW t \in DOMAIN ts, NEW v, InOrder(ts, t, v), t \notin v.seen,
           NEW w, w = [v EXCEPT !.seen = @ \cup {t}], NEW x,
           InOrder(ts, t - 1, w), InOrder(ts, t - 1, x), Grown(ts, t - 1, w, x),
           \A k \in 1..Len(ts[t].src) : ts[t].src[k] \in x.seen, ts[t].op # "none",
           NEW y, y = [x EXCEPT !.nodes = Append(@, t)]
    PROVE  InOrder(ts, t, y) /\ Grown(ts, t, v, y) /\ t \in y.seen
<1> DEFINE r == t - 1
           m == Len(x.nodes)
<1>1. /\ DOMAIN ts \subseteq Nat /\ t \in Nat /\ r \in Nat
      /\ Len(ts[t].src) \in {0, 1, 2} /\ \A k \in 1..Len(ts[t].src) : ts[t].src[k] \in 1..r
      /\ \A u \in Nat : u <= t /\ u # t => u <= r
      /\ \A u \in Nat : u <= r => u <= t
  BY GraphDomain DEF SourcesOK
<1>2. v \in VisitState(ts) /\ w \in VisitState(ts) /\ x \in VisitState(ts)
  BY DEF InOrder
<1>3. w.seen = v.seen \cup {t} /\ w.nodes = v.nodes
  BY <1>2 DEF VisitState
<1>4. /\ x.seen \in SUBSET DOMAIN ts /\ x.nodes \in Seq(DOMAIN ts) /\ m \in Nat
      /\ v.seen \in SUBSET DOMAIN ts /\ Len(v.nodes) \in Nat
      /\ \A i \in 1..m : x.nodes[i] \in DOMAIN ts
  BY <1>2, StateIs
<1>5. y.seen = x.seen /\ y.nodes = Append(x.nodes, t) /\ y \in VisitState(ts)
  <2>1. Append(x.nodes, t) \in Seq(DOMAIN ts)
    BY <1>4, AppendProperties
  <2> QED
    BY <1>2, <2>1 DEF VisitState
<1>6. /\ Len(y.nodes) = m + 1 /\ y.nodes[m + 1] = t
      /\ \A i \in 1..m : y.nodes[i] = x.nodes[i]
  BY <1>4, <1>5, AppendProperties
<1>7. t \in x.seen
  BY <1>3 DEF Grown
<1>8. \A i \in 1..m : x.nodes[i] # t
  <2> SUFFICES ASSUME NEW i \in 1..m, x.nodes[i] = t PROVE FALSE
    OBVIOUS
  <2>1. CASE i <= Len(w.nodes)
    <3>1. i \in 1..Len(v.nodes) /\ v.nodes[i] = t
      BY <1>3, <1>4, <2>1 DEF Grown
    <3> QED
      BY <3>1, SMTT(30) DEF InOrder
  <2>2. CASE ~(i <= Len(w.nodes))
    <3>1. i \in (Len(w.nodes) + 1)..m
      BY <1>3, <1>4, <2>2
    <3> QED
      BY <1>3, <3>1 DEF Grown
  <2> QED
    BY <2>1, <2>2
<1>9. \A u : At(x, u) => At(y, u)
  BY <1>4, <1>6 DEF At
<1>10. At(y, t)
  BY <1>4, <1>6 DEF At
<1> HIDE DEF r, m
<1>11. \A u \in y.seen : u <= t /\ ts[u].op # "none" => At(y, u)
  <2>1. \A u \in x.seen : u <= r /\ ts[u].op # "none" => At(x, u)
    BY DEF InOrder, r
  <2> QED
    BY <1>1, <1>4, <1>5, <1>9, <1>10, <2>1
<1>12. \A i \in 1..Len(y.nodes) : y.nodes[i] \in y.seen /\ ts[y.nodes[i]].op # "none"
  <2>1. \A i \in 1..m : x.nodes[i] \in x.seen /\ ts[x.nodes[i]].op # "none"
    BY DEF InOrder, m
  <2>2. \A i \in 1..(m + 1) : i \in 1..m \/ i = m + 1
    BY <1>4 DEF m
  <2> QED
    BY <1>5, <1>6, <1>7, <2>1, <2>2
<1>13. \A i, j \in 1..Len(y.nodes) : y.nodes[i] = y.nodes[j] => i = j
  <2>1. \A i, j \in 1..m : x.nodes[i] = x.nodes[j] => i = j
    BY DEF InOrder, m
  <2>2. \A i \in 1..(m + 1) : i \in 1..m \/ i = m + 1
    BY <1>4 DEF m
  <2> QED
    BY <1>6, <1>8, <2>1, <2>2
<1>14. ASSUME NEW i \in 1..Len(y.nodes), NEW k \in 1..Len(ts[y.nodes[i]].src),
              ts[ts[y.nodes[i]].src[k]].op # "none"
       PROVE  \E j \in 1..(i - 1) : y.nodes[j] = ts[y.nodes[i]].src[k]
  <2>1. CASE i \in 1..m
    <3>1. y.nodes[i] = x.nodes[i]
      BY <1>6, <2>1
    <3>2. PICK j \in 1..(i - 1) : x.nodes[j] = ts[x.nodes[i]].src[k]
      <4>1. \A l \in 1..m : \A q \in 1..Len(ts[x.nodes[l]].src) :
               ts[ts[x.nodes[l]].src[q]].op # "none"
                  => \E j \in 1..(l - 1) : x.nodes[j] = ts[x.nodes[l]].src[q]
        BY DEF InOrder, m
      <4>2. k \in 1..Len(ts[x.nodes[i]].src) /\ ts[ts[x.nodes[i]].src[k]].op # "none"
        BY <1>14, <3>1
      <4> QED
        BY <2>1, <4>1, <4>2
    <3>3. j \in 1..m
      BY <1>4, <2>1 DEF m
    <3> QED
      BY <1>6, <3>1, <3>2, <3>3
  <2>2. CASE i = m + 1
    <3>1. y.nodes[i] = t
      BY <1>6, <2>2
    <3>2. ts[t].src[k] \in x.seen /\ ts[t].src[k] \in 1..r
      BY <1>1, <1>14, <3>1
    <3>3. At(x, ts[t].src[k])
      <4>1. ts[t].src[k] <= r
        BY <1>1, <3>2
      <4> QED
        <5>1. \A u \in x.seen : u <= r /\ ts[u].op # "none" => At(x, u)
          BY DEF InOrder, r
        <5>2. ts[ts[t].src[k]].op # "none"
          BY <1>14, <3>1
        <5> QED
          BY <3>2, <4>1, <5>1, <5>2
    <3>4. PICK j \in 1..m : x.nodes[j] = ts[t].src[k]
      BY <3>3 DEF At, m
    <3>5. j \in 1..(i - 1)
      BY <1>4, <2>2 DEF m
    <3> QED
      BY <1>6, <3>1, <3>4, <3>5
  <2> QED
    BY <1>4, <1>6, <2>1, <2>2 DEF m
<1>15. InOrder(ts, t, y)
  BY <1>5, <1>11, <1>12, <1>13, <1>14 DEF InOrder
<1>16. \A u \in y.seen \ v.seen : u <= t /\ (ts[u].op # "none" => At(y, u))
  <2>1. \A u \in x.seen \ w.seen : u <= r /\ (ts[u].op # "none" => At(x, u))
    BY DEF Grown, r
  <2>2. \A u \in y.seen : u \in Nat
    BY <1>1, <1>4, <1>5
  <2>3. ASSUME NEW u \in y.seen \ v.seen
        PROVE  u <= t /\ (ts[u].op # "none" => At(y, u))
    <3>1. CASE u = t
      BY <1>1, <1>10, <3>1
    <3>2. CASE u # t
      <4>1. u \in x.seen \ w.seen
        BY <1>3, <1>5, <3>2
      <4> QED
        BY <1>1, <1>9, <2>1, <2>2, <4>1
    <3> QED
      BY <3>1, <3>2
  <2> QED
    BY <2>3
<1>17. /\ v.seen \subseteq y.seen
       /\ Len(v.nodes) <= m /\ Len(v.nodes) <= Len(y.nodes)
       /\ \A i \in 1..Len(v.nodes) : y.nodes[i] = v.nodes[i]
  <2>1. /\ v.seen \subseteq x.seen /\ Len(v.nodes) <= m
        /\ \A i \in 1..Len(v.nodes) : x.nodes[i] = v.nodes[i]
    BY <1>3 DEF Grown, m
  <2>2. m \in Nat
    BY <1>4 DEF m
  <2> QED
    BY <1>4, <1>5, <1>6, <2>1, <2>2
<1>18. \A i \in (Len(v.nodes) + 1)..Len(y.nodes) : y.nodes[i] \notin v.seen
  <2>1. \A i \in (Len(v.nodes) + 1)..m : x.nodes[i] \notin v.seen
    BY <1>3 DEF Grown, m
  <2>2. m \in Nat
    BY <1>4 DEF m
  <2>3. \A i \in (Len(v.nodes) + 1)..(m + 1) : i = m + 1 \/ (i \in 1..m /\ i \in (Len(v.nodes) + 1)..m)
    BY <1>4, <2>2
  <2> QED
    BY <1>6, <2>1, <2>3
<1> QED
  BY <1>5, <1>7, <1>15, <1>16, <1>17, <1>18 DEF Grown

(* A visit of a tensor keeps the order when those of the tensors before *)
(* do;                                                                  *)
LEMMA VisitStep ==
    ASSUME NEW ts, GraphOK(ts), NEW t \in DOMAIN ts, \A s \in 1..(t - 1) : Visits(ts, s)
    PROVE  Visits(ts, t)
<1> SUFFICES ASSUME NEW v, InOrder(ts, t, v)
             PROVE  LET y == VisitParents(ts)[t][v]
                    IN  InOrder(ts, t, y) /\ Grown(ts, t, v, y) /\ t \in y.seen
  BY DEF Visits
<1> DEFINE visit == VisitParents(ts)
           y == visit[t][v]
           w == [v EXCEPT !.seen = @ \cup {t}]
           x == Above(ts, visit, t, v)
<1>1. v \in VisitState(ts)
  BY DEF InOrder
<1>2. y = IF t \in v.seen THEN v
          ELSE IF ts[t].op = "none" THEN x ELSE [x EXCEPT !.nodes = Append(@, t)]
  <2> HIDE DEF x
  <2>1. visit[t] = VisitBody(ts, visit, t)
    BY VisitIs
  <2> HIDE DEF visit
  <2> QED
    BY <1>1, <2>1 DEF VisitBody, x
<1>3. CASE t \in v.seen
  <2>1. y = v
    BY <1>2, <1>3
  <2>2. Grown(ts, t, v, v)
    BY <1>1, StateIs DEF Grown
  <2> HIDE DEF y
  <2> QED
    BY <1>3, <2>1, <2>2 DEF y, visit
<1>4. CASE t \notin v.seen
  <2>1. /\ InOrder(ts, t - 1, w) /\ InOrder(ts, t - 1, x) /\ Grown(ts, t - 1, w, x)
        /\ \A k \in 1..Len(ts[t].src) : ts[t].src[k] \in x.seen
    BY <1>4, AboveVisits
  <2> HIDE DEF x
  <2>2. CASE ts[t].op # "none"
    <3>1. y = [x EXCEPT !.nodes = Append(@, t)]
      BY <1>2, <1>4, <2>2
    <3> HIDE DEF y, w
    <3>2. w = [v EXCEPT !.seen = @ \cup {t}]
      BY DEF w
    <3>3. InOrder(ts, t, y) /\ Grown(ts, t, v, y) /\ t \in y.seen
      BY <1>4, <2>1, <2>2, <3>1, <3>2, VisitLast
    <3> QED
      BY <3>3 DEF y, visit
  <2>3. CASE ts[t].op = "none"
    <3>1. y = x
      BY <1>2, <1>4, <2>3
    <3>2. w.seen = v.seen \cup {t} /\ w.nodes = v.nodes
      BY <1>1 DEF VisitState
    <3> HIDE DEF y, w
    <3>3. x \in VisitState(ts) /\ \A u \in x.seen : u \in Nat
      <4>1. x \in VisitState(ts)
        BY <2>1 DEF InOrder
      <4> QED
        BY <4>1, StateIs, GraphDomain
    <3>4. t \in Nat
      BY GraphDomain
    <3>5. \A u \in x.seen : u <= t /\ ts[u].op # "none" => At(x, u)
      <4>1. \A u \in x.seen : u <= t - 1 /\ ts[u].op # "none" => At(x, u)
        BY <2>1 DEF InOrder
      <4>2. \A u \in x.seen : u <= t => u = t \/ u <= t - 1
        BY <3>3, <3>4
      <4> QED
        BY <2>3, <4>1, <4>2
    <3>6. InOrder(ts, t, x)
      BY <2>1, <3>5 DEF InOrder
    <3>7. \A u \in x.seen \ v.seen : u <= t /\ (ts[u].op # "none" => At(x, u))
      <4>1. \A u \in x.seen \ w.seen : u <= t - 1 /\ (ts[u].op # "none" => At(x, u))
        BY <2>1 DEF Grown
      <4>2. \A u \in x.seen : u <= t - 1 => u <= t
        BY <3>3, <3>4
      <4>3. t <= t
        BY <3>4
      <4> QED
        BY <2>3, <3>2, <4>1, <4>2, <4>3
    <3>8. Grown(ts, t, v, x) /\ t \in x.seen
      BY <2>1, <3>2, <3>7 DEF Grown
    <3> QED
      BY <3>1, <3>6, <3>8 DEF y, visit
  <2> QED
    BY <2>2, <2>3
<1> QED
  BY <1>3, <1>4

(* so all of them do. *)
LEMMA VisitAll ==
    ASSUME NEW ts, GraphOK(ts)
    PROVE  \A t \in DOMAIN ts : Visits(ts, t)
<1> DEFINE n == Len(ts)
           S == {k \in 0..n : \A t \in 1..k : Visits(ts, t)}
<1>1. n \in Nat /\ DOMAIN ts = 1..n
  BY GraphDomain
<1> HIDE DEF n
<1>2. 0 \in S
  BY <1>1
<1>3. ASSUME NEW k \in 1..n, k - 1 \in S
      PROVE  k \in S
  <2>1. \A s \in 1..(k - 1) : Visits(ts, s)
    BY <1>3
  <2>2. Visits(ts, k)
    BY <1>1, <2>1, VisitStep
  <2>3. \A t \in 1..k : t \in 1..(k - 1) \/ t = k
    BY <1>1
  <2> QED
    BY <1>1, <2>1, <2>2, <2>3
<1>4. \A k \in 1..n : k - 1 \in S => k \in S
  BY <1>3
<1> HIDE DEF S
<1>5. \A k \in 0..n : k \in S
  BY <1>1, <1>2, <1>4, UpTo
<1>6. n \in S
  BY <1>1, <1>5
<1> QED
  BY <1>1, <1>6 DEF S

(***************************************************************************)
(* The list of nodes: every one after its sources, and what views the      *)
(* cache after the copy into it.                                           *)
(***************************************************************************)
ResultsOK(ts, rs) ==
    \/ rs = <<>> /\ \A t \in DOMAIN ts : ts[t].op # "copy"
    \/ \E c \in DOMAIN ts : ts[c].op = "copy" /\ rs = <<c>>

OrderOK(ts, ns) ==
    /\ ns \in Seq(DOMAIN ts)
    /\ \A i \in 1..Len(ns) : ts[ns[i]].op # "none"
    /\ \A i, j \in 1..Len(ns) : ns[i] = ns[j] => i = j
    /\ \A i \in 1..Len(ns) : \A k \in 1..Len(ts[ns[i]].src) :
          LET s == ts[ns[i]].src[k]
          IN  ts[s].op # "none" => \E j \in 1..(i - 1) : ns[j] = s
    /\ \A i \in 1..Len(ns) : ts[ns[i]].op = "view" /\ ts[ns[i]].view = Cache =>
          \E j \in 1..(i - 1) : ts[ns[j]].op = "copy"

(* A list of nodes in the order of a visit is an order to compute them in. *)
LEMMA InOrderList ==
    ASSUME NEW ts, GraphOK(ts), NEW v, InOrder(ts, Len(ts), v),
           \A i \in 1..Len(v.nodes) : ts[v.nodes[i]].op = "view" /\ ts[v.nodes[i]].view = Cache =>
              \E j \in 1..(i - 1) : ts[v.nodes[j]].op = "copy"
    PROVE  OrderOK(ts, v.nodes)
BY StateIs DEF InOrder, OrderOK

(* The nodes of the built graph are in an order to compute them in: every *)
(* source, and the copy into the cache for what reads it, comes first.    *)
LEMMA BuildOrder ==
    ASSUME NEW ts, GraphOK(ts), NEW rs, ResultsOK(ts, rs)
    PROVE  OrderOK(ts, BuildForward(ts, Append(rs, Len(ts))))
<1> DEFINE n == Len(ts)
           visit == VisitParents(ts)
           start == [seen |-> {}, nodes |-> <<>>]
           list == BuildForward(ts, Append(rs, n))
<1>1. n \in DOMAIN ts /\ n \in Nat /\ DOMAIN ts = 1..n /\ DOMAIN ts \subseteq Nat
  BY GraphDomain DEF Input
<1>2. InOrder(ts, n, start)
  <2>1. start \in VisitState(ts)
    BY DEF VisitState
  <2> QED
    BY <2>1 DEF InOrder
<1> HIDE DEF start, visit
<1>3. ASSUME NEW s \in DOMAIN ts, NEW v, InOrder(ts, n, v)
      PROVE  InOrder(ts, n, visit[s][v]) /\ Grown(ts, n, v, visit[s][v])
  <2>1. s \in Nat /\ s <= n /\ Visits(ts, s)
    BY <1>1, VisitAll
  <2> QED
    BY <1>1, <1>3, <2>1, VisitOne DEF visit
<1>4. CASE rs = <<>> /\ \A t \in DOMAIN ts : ts[t].op # "copy"
  <2> DEFINE v == visit[n][start]
  <2>1. list = v.nodes
    <3>1. Append(rs, n) = <<n>>
      BY <1>4
    <3> QED
      BY <3>1 DEF BuildForward, InTurn, visit, start
  <2>2. InOrder(ts, n, v)
    BY <1>1, <1>2, <1>3
  <2> HIDE DEF v
  <2>3. \A t \in DOMAIN ts : ~(ts[t].op = "view" /\ ts[t].view = Cache)
    <3> SUFFICES ASSUME NEW t \in DOMAIN ts, ts[t].op = "view", ts[t].view = Cache PROVE FALSE
      OBVIOUS
    <3>1. BaseOK(ts, t)
      BY GraphDomain
    <3>2. PICK d \in 1..(t - 1) : ts[d].op = "copy"
      BY <3>1 DEF BaseOK
    <3>3. d \in DOMAIN ts
      BY <1>1, <3>2
    <3> QED
      BY <1>4, <3>2, <3>3
  <2>4. \A i \in 1..Len(v.nodes) : v.nodes[i] \in DOMAIN ts
    BY <2>2, StateIs DEF InOrder
  <2>5. OrderOK(ts, v.nodes)
    BY <2>2, <2>3, <2>4, InOrderList
  <2> QED
    BY <2>1, <2>5
<1>5. CASE \E c \in DOMAIN ts : ts[c].op = "copy" /\ rs = <<c>>
  <2>1. PICK c \in DOMAIN ts : ts[c].op = "copy" /\ rs = <<c>>
    BY <1>5
  <2> DEFINE u == visit[c][start]
             v == visit[n][u]
  <2>2. list = v.nodes
    <3> DEFINE R == Append(rs, n)
    <3>1. Len(R) = 2 /\ R[1] = c /\ R[2] = n
      BY <2>1
    <3> HIDE DEF R
    <3>2. BuildForward(ts, R) = v.nodes
      BY <3>1 DEF BuildForward, InTurn, visit, start
    <3> QED
      BY <3>2 DEF R
  <2>3. InOrder(ts, c, start) /\ start.seen = {} /\ Len(start.nodes) = 0
    BY <1>1, <1>2 DEF InOrder, start
  <2>4. InOrder(ts, c, u) /\ Grown(ts, c, start, u) /\ c \in u.seen
    BY <2>3, VisitAll DEF Visits, visit
  <2>5. InOrder(ts, n, u)
    BY <1>2, <1>3
  <2> HIDE DEF u
  <2>6. InOrder(ts, n, v) /\ Grown(ts, n, u, v)
    BY <1>1, <1>3, <2>5
  <2> HIDE DEF v
  <2>7. u \in VisitState(ts) /\ v \in VisitState(ts)
    BY <2>5, <2>6 DEF InOrder
  <2>8. Len(u.nodes) \in Nat /\ Len(v.nodes) \in Nat /\ c \in Nat
    BY <1>1, <2>7, StateIs
  <2>9. PICK j \in 1..Len(u.nodes) : u.nodes[j] = c
    <3>1. At(u, c)
      BY <2>1, <2>3, <2>4 DEF Grown
    <3> QED
      BY <3>1 DEF At
  <2>10. ASSUME NEW i \in 1..Len(v.nodes), ts[v.nodes[i]].op = "view", ts[v.nodes[i]].view = Cache
         PROVE  \E k \in 1..(i - 1) : ts[v.nodes[k]].op = "copy"
    <3>1. v.nodes[i] \in DOMAIN ts
      BY <2>7, StateIs
    <3>2. PICK d \in 1..(v.nodes[i] - 1) : ts[d].op = "copy"
      BY <2>10, <3>1, GraphDomain DEF BaseOK
    <3>3. d \in DOMAIN ts
      BY <1>1, <3>1, <3>2
    <3>4. d = c
      BY <2>1, <3>2, <3>3 DEF GraphOK
    <3>5. ~(v.nodes[i] <= c)
      BY <1>1, <3>1, <3>2, <3>4
    <3>6. ~(i <= Len(u.nodes))
      <4> SUFFICES ASSUME i \in 1..Len(u.nodes) PROVE FALSE
        BY <2>8
      <4>1. v.nodes[i] = u.nodes[i]
        BY <2>6 DEF Grown
      <4>2. u.nodes[i] \in u.seen
        BY <2>5 DEF InOrder
      <4>3. u.nodes[i] <= c
        BY <2>3, <2>4, <4>2 DEF Grown
      <4> QED
        BY <3>5, <4>1, <4>3
    <3>7. j \in 1..(i - 1)
      BY <2>8, <2>9, <3>6
    <3>8. v.nodes[j] = c
      BY <2>6, <2>9 DEF Grown
    <3> QED
      BY <2>1, <3>7, <3>8
  <2> QED
    BY <2>2, <2>6, <2>10, InOrderList
<1> QED
  BY <1>4, <1>5 DEF ResultsOK

(***************************************************************************)
(* The operations of the builder keep the graph sound.                     *)
(***************************************************************************)
LEMMA Longer ==
    ASSUME NEW ts, GraphOK(ts), NEW e \in Tensor, NEW n, n = Len(ts) + 1
    PROVE  LET ts2 == Append(ts, e)
           IN  /\ ts2 \in Seq(Tensor) /\ Len(ts2) = n /\ DOMAIN ts2 = 1..n /\ n \in Nat /\ n > 2
               /\ DOMAIN ts = 1..(n - 1) /\ DOMAIN ts2 = DOMAIN ts \cup {n} /\ n \notin DOMAIN ts
               /\ ts2[n] = e /\ \A t \in DOMAIN ts : ts2[t] = ts[t]
<1> DEFINE ts2 == Append(ts, e)
<1>1. ts \in Seq(Tensor) /\ Len(ts) \in Nat /\ DOMAIN ts = 1..Len(ts) /\ Len(ts) >= 2
  BY GraphDomain DEF GraphOK
<1>2. /\ ts2 \in Seq(Tensor) /\ Len(ts2) = n /\ DOMAIN ts2 = 1..n
      /\ ts2[n] = e /\ \A t \in 1..Len(ts) : ts2[t] = ts[t]
  BY <1>1, AppendProperties, LenProperties
<1> QED
  BY <1>1, <1>2

(* A tensor whose sources and base are in order is added to a well-formed *)
(* graph.                                                                 *)
LEMMA Extended ==
    ASSUME NEW ts, GraphOK(ts), NEW e \in Tensor, NEW n, n = Len(ts) + 1,
           NEW ts2, ts2 = Append(ts, e),
           e.op \in Ops, e.op # "none", SourcesOK(ts2, n), BaseOK(ts2, n),
           e.op = "copy" => \A t \in DOMAIN ts : ts[t].op # "copy"
    PROVE  GraphOK(ts2)
<1>1. /\ ts2 \in Seq(Tensor) /\ Len(ts2) = n /\ DOMAIN ts2 = 1..n /\ n \in Nat /\ n > 2
      /\ DOMAIN ts = 1..(n - 1) /\ DOMAIN ts2 = DOMAIN ts \cup {n} /\ n \notin DOMAIN ts
      /\ ts2[n] = e /\ \A t \in DOMAIN ts : ts2[t] = ts[t]
  BY Longer
<1>2. ASSUME NEW t \in DOMAIN ts
      PROVE  ts2[t].op = ts[t].op /\ SourcesOK(ts2, t) /\ BaseOK(ts2, t)
  <2>1. ts2[t] = ts[t] /\ SourcesOK(ts, t) /\ BaseOK(ts, t) /\ t \in 1..(n - 1)
    BY <1>1, GraphDomain
  <2>2. \A s \in 1..(t - 1) : s \in DOMAIN ts /\ ts2[s] = ts[s]
    BY <1>1, <2>1
  <2>3. /\ Len(ts[t].src) \in {0, 1, 2}
        /\ \A k \in 1..Len(ts[t].src) : ts[t].src[k] \in 1..(t - 1)
    BY <2>1 DEF SourcesOK
  <2>4. \A k \in 1..Len(ts[t].src) : ts2[ts[t].src[k]] = ts[ts[t].src[k]]
    BY <2>2, <2>3
  <2>5. SourcesOK(ts2, t)
    <3>1. Len(ts[t].src) = 1 => 1 \in 1..Len(ts[t].src)
      OBVIOUS
    <3>2. Len(ts[t].src) = 2 => 1 \in 1..Len(ts[t].src) /\ 2 \in 1..Len(ts[t].src)
      OBVIOUS
    <3> QED
      BY <2>1, <2>4, <3>1, <3>2 DEF SourcesOK
  <2>6. BaseOK(ts2, t)
    <3>1. ts[t].view # NoTensor => ts2[ts[t].view] = ts[ts[t].view]
      BY <2>1, <2>2 DEF BaseOK
    <3>2. ts[t].op = "view" => ts2[ts[t].src[1]] = ts[ts[t].src[1]]
      BY <2>1, <2>4 DEF SourcesOK
    <3> QED
      BY <2>1, <2>2, <3>1, <3>2, ZenonT(60) DEF BaseOK
  <2> QED
    BY <2>1, <2>5, <2>6
<1>3. /\ Input \in DOMAIN ts /\ Cache \in DOMAIN ts /\ n \notin {Input, Cache}
  BY <1>1, GraphDomain DEF Input, Cache
<1>4. ts2[Input] = Leaf(InputSize) /\ ts2[Cache] = Leaf(1)
  BY <1>1, <1>3 DEF GraphOK
<1>5. \A t \in DOMAIN ts2 : /\ ts2[t].op \in Ops
                            /\ ts2[t].op = "none" <=> t \in {Input, Cache}
                            /\ SourcesOK(ts2, t) /\ BaseOK(ts2, t)
  <2>1. \A t \in DOMAIN ts : ts[t].op \in Ops /\ (ts[t].op = "none" <=> t \in {Input, Cache})
    BY DEF GraphOK
  <2> QED
    BY <1>1, <1>2, <1>3, <2>1
<1>6. \A t, u \in DOMAIN ts2 : ts2[t].op = "copy" /\ ts2[u].op = "copy" => t = u
  BY <1>1, <1>2 DEF GraphOK
<1> QED
  BY <1>1, <1>4, <1>5, <1>6 DEF GraphOK

\* A new tensor for operation op.
Makes(ts, ts2, op) ==
    GraphOK(ts2) /\ \E e \in Tensor : ts2 = Append(ts, e) /\ e.op = op

\* What the operations but a copy and a view make: a tensor of its own.
LEMMA OwnTensor ==
    ASSUME NEW ts, GraphOK(ts), NEW op \in {"matmul", "add", "scale"}, NEW src, NEW n \in Nat \ {0},
           src \in Seq(Nat), Len(src) \in {1, 2},
           \A k \in 1..Len(src) : src[k] \in DOMAIN ts /\ src[k] # Cache /\ ts[src[k]].op # "copy",
           op = "add" => Len(src) = 2 /\ n = ts[src[1]].size /\ ts[src[2]].size \in {1, n},
           op = "scale" => Len(src) = 1 /\ n = ts[src[1]].size
    PROVE  Makes(ts, NewTensor(ts, op, src, n, NoTensor, 0), op)
<1> DEFINE e == [op |-> op, src |-> src, size |-> n, view |-> NoTensor, offs |-> 0]
           m == Len(ts) + 1
           ts2 == Append(ts, e)
<1>1. NewTensor(ts, op, src, n, NoTensor, 0) = ts2
  BY DEF NewTensor
<1>2. e \in Tensor
  BY DEF Tensor, NoTensor, Ops
<1>3. e.op = op /\ e.src = src /\ e.size = n /\ e.view = NoTensor /\ e.offs = 0
  OBVIOUS
<1> HIDE DEF e
<1>4. /\ DOMAIN ts = 1..(m - 1) /\ ts2[m] = e /\ \A t \in DOMAIN ts : ts2[t] = ts[t]
  BY <1>2, Longer
<1> HIDE DEF ts2
<1>5. SourcesOK(ts2, m)
  <2>1. \A k \in 1..Len(src) : src[k] \in 1..(m - 1) /\ ts2[src[k]] = ts[src[k]]
    BY <1>4
  <2>2. 1 \in 1..Len(src) /\ (Len(src) = 2 => 2 \in 1..Len(src))
    OBVIOUS
  <2>3. ts2[m].op = op /\ ts2[m].src = src /\ ts2[m].size = n
    BY <1>3, <1>4
  <2> HIDE DEF m
  <2> QED
    BY <2>1, <2>2, <2>3 DEF SourcesOK
<1>6. BaseOK(ts2, m)
  BY <1>3, <1>4 DEF BaseOK
<1> HIDE DEF m
<1>7. GraphOK(ts2)
  <2>1. m = Len(ts) + 1
    BY DEF m
  <2>2. ts2 = Append(ts, e)
    BY DEF ts2
  <2>3. e.op \in Ops /\ e.op # "none" /\ e.op # "copy"
    BY <1>3 DEF Ops
  <2> QED
    BY <1>2, <1>5, <1>6, <2>1, <2>2, <2>3, Extended
<1> QED
  BY <1>1, <1>2, <1>3, <1>7 DEF Makes, ts2

(* A view of a tensor is one, *)
LEMMA ViewTensor ==
    ASSUME NEW ts, GraphOK(ts), NEW x \in DOMAIN ts, NEW n \in Nat \ {0}, NEW offs \in Nat,
           ts[x].op # "copy", n + offs <= ts[x].size,
           x = Cache => \E c \in DOMAIN ts : ts[c].op = "copy"
    PROVE  Makes(ts, NewTensor(ts, "view", <<x>>, n, x, offs), "view")
<1> DEFINE chained == ts[x].view # NoTensor
           base == IF chained THEN ts[x].view ELSE x
           from == IF chained THEN offs + ts[x].offs ELSE offs
           src == <<x>>
           e == [op |-> "view", src |-> src, size |-> n, view |-> base, offs |-> from]
           m == Len(ts) + 1
           ts2 == Append(ts, e)
<1>0. /\ DOMAIN ts = 1..Len(ts) /\ Len(ts) \in Nat /\ x \in Nat /\ x # NoTensor
      /\ ts[x] \in Tensor /\ BaseOK(ts, x)
  BY GraphDomain DEF NoTensor
<1>1. NewTensor(ts, "view", src, n, x, offs) = ts2
  BY <1>0 DEF NewTensor
<1>2. /\ base \in DOMAIN ts /\ ts[base].view = NoTensor /\ from \in Nat
      /\ base # NoTensor /\ base \in Nat /\ from + n <= ts[base].size
      /\ base = x \/ base = ts[x].view
  <2>1. CASE chained
    <3>1. /\ ts[x].view \in 1..(x - 1) /\ ts[ts[x].view].view = NoTensor
          /\ ts[x].offs + ts[x].size <= ts[ts[x].view].size
      BY <1>0, <2>1 DEF BaseOK
    <3>2. ts[x].view \in DOMAIN ts
      BY <1>0, <3>1
    <3>3. /\ ts[x].offs \in Nat /\ ts[x].size \in Nat /\ ts[ts[x].view].size \in Nat
      BY <1>0, <3>2, GraphDomain DEF Tensor
    <3>4. base = ts[x].view /\ from = offs + ts[x].offs
      BY <2>1
    <3> HIDE DEF base, from
    <3> QED
      BY <1>0, <3>1, <3>2, <3>3, <3>4, SMTT(30) DEF NoTensor
  <2>2. CASE ~chained
    <3>1. base = x /\ from = offs /\ ts[x].size \in Nat
      BY <1>0, <2>2 DEF Tensor
    <3> QED
      BY <1>0, <2>2, <3>1
  <2> QED
    BY <2>1, <2>2
<1>3. base = Cache => \E c \in DOMAIN ts : ts[c].op = "copy"
  <2>1. CASE chained /\ ts[x].view = Cache
    <3>1. ts[x].op = "view"
      BY <1>0, <2>1 DEF BaseOK
    <3>2. PICK c \in 1..(x - 1) : ts[c].op = "copy"
      BY <1>0, <2>1, <3>1 DEF BaseOK
    <3> QED
      BY <1>0, <3>2
  <2> QED
    BY <2>1
<1>4. src \in Seq(Nat) /\ Len(src) = 1 /\ src[1] = x
  BY <1>0
<1> HIDE DEF src, base, from
<1>5. e \in Tensor
  BY <1>2, <1>4 DEF Tensor, Ops
<1>6. e.op = "view" /\ e.src = src /\ e.size = n /\ e.view = base /\ e.offs = from
  OBVIOUS
<1> HIDE DEF e
<1>7. /\ DOMAIN ts = 1..(m - 1) /\ ts2[m] = e /\ \A t \in DOMAIN ts : ts2[t] = ts[t]
  BY <1>5, Longer
<1> HIDE DEF ts2
<1>8. SourcesOK(ts2, m)
  <2>1. ts2[m].op = "view" /\ ts2[m].src = src
    BY <1>6, <1>7
  <2>2. \A k \in 1..Len(src) : src[k] \in 1..(m - 1) /\ ts2[src[k]].op # "copy"
    BY <1>4, <1>7
  <2> HIDE DEF m
  <2> QED
    BY <1>4, <2>1, <2>2 DEF SourcesOK
<1>9. BaseOK(ts2, m)
  <2>1. ts2[m].op = "view" /\ ts2[m].src = src /\ ts2[m].view = base /\ ts2[m].offs = from /\ ts2[m].size = n
    BY <1>6, <1>7
  <2>2. base \in 1..(m - 1) /\ ts2[base] = ts[base] /\ ts2[x] = ts[x]
    BY <1>2, <1>7
  <2>3. base = Cache => \E c \in 1..(m - 1) : ts2[c].op = "copy"
    BY <1>3, <1>7
  <2> HIDE DEF m
  <2> QED
    BY <1>2, <1>4, <2>1, <2>2, <2>3 DEF BaseOK
<1> HIDE DEF m
<1>10. GraphOK(ts2)
  <2>1. m = Len(ts) + 1
    BY DEF m
  <2>2. ts2 = Append(ts, e)
    BY DEF ts2
  <2>3. e.op \in Ops /\ e.op # "none" /\ e.op # "copy"
    BY <1>6 DEF Ops
  <2> QED
    BY <1>5, <1>8, <1>9, <2>1, <2>2, <2>3, Extended
<1>11. Makes(ts, ts2, e.op)
  BY <1>5, <1>10 DEF Makes, ts2
<1> QED
  BY <1>1, <1>6, <1>11 DEF src

(* and the one copy into the cache. *)
LEMMA CopyTensor ==
    ASSUME NEW ts, GraphOK(ts), NEW x \in DOMAIN ts, x # Cache,
           \A t \in DOMAIN ts : ts[t].op # "copy", ts[x].size = ts[Cache].size
    PROVE  Makes(ts, NewTensor(ts, "copy", <<x, Cache>>, ts[Cache].size, Cache, 0), "copy")
<1> DEFINE src == <<x, Cache>>
           e == [op |-> "copy", src |-> src, size |-> 1, view |-> Cache, offs |-> 0]
           m == Len(ts) + 1
           ts2 == Append(ts, e)
<1>0. /\ DOMAIN ts = 1..Len(ts) /\ Len(ts) \in Nat /\ x \in Nat
      /\ Cache \in DOMAIN ts /\ ts[Cache].view = NoTensor /\ ts[Cache].size = 1
      /\ Cache # NoTensor /\ Cache \in Nat
  BY GraphDomain DEF NoTensor, Cache, GraphOK, Leaf
<1>1. NewTensor(ts, "copy", src, ts[Cache].size, Cache, 0) = ts2
  BY <1>0 DEF NewTensor
<1>4. src \in Seq(Nat) /\ Len(src) = 2 /\ src[1] = x /\ src[2] = Cache
  BY <1>0
<1> HIDE DEF src
<1>5. e \in Tensor
  BY <1>0, <1>4 DEF Tensor, Ops
<1>6. e.op = "copy" /\ e.src = src /\ e.size = 1 /\ e.view = Cache /\ e.offs = 0
  OBVIOUS
<1> HIDE DEF e
<1>7. /\ DOMAIN ts = 1..(m - 1) /\ ts2[m] = e /\ \A t \in DOMAIN ts : ts2[t] = ts[t]
  BY <1>5, Longer
<1> HIDE DEF ts2
<1>8. SourcesOK(ts2, m)
  <2>1. ts2[m].op = "copy" /\ ts2[m].src = src /\ ts2[m].size = 1
    BY <1>6, <1>7
  <2>2. \A k \in 1..Len(src) : src[k] \in 1..(m - 1) /\ ts2[src[k]].op # "copy"
    BY <1>0, <1>4, <1>7
  <2>3. ts2[x].size = 1
    BY <1>0, <1>7
  <2> HIDE DEF m
  <2> QED
    BY <1>4, <2>1, <2>2, <2>3 DEF SourcesOK
<1>9. BaseOK(ts2, m)
  <2>1. ts2[m].op = "copy" /\ ts2[m].view = Cache /\ ts2[m].offs = 0 /\ ts2[m].size = 1
    BY <1>6, <1>7
  <2>2. Cache \in 1..(m - 1) /\ ts2[Cache] = ts[Cache]
    BY <1>0, <1>7
  <2> HIDE DEF m
  <2> QED
    BY <1>0, <2>1, <2>2 DEF BaseOK
<1> HIDE DEF m
<1>10. GraphOK(ts2)
  <2>1. m = Len(ts) + 1
    BY DEF m
  <2>2. ts2 = Append(ts, e)
    BY DEF ts2
  <2>3. e.op \in Ops /\ e.op # "none"
    BY <1>6 DEF Ops
  <2> QED
    BY <1>5, <1>8, <1>9, <2>1, <2>2, <2>3, Extended
<1>11. Makes(ts, ts2, e.op)
  BY <1>5, <1>10 DEF Makes, ts2
<1> QED
  BY <1>1, <1>6, <1>11 DEF src

(* The results stay results when a tensor is added, *)
LEMMA ResultsKept ==
    ASSUME NEW ts, GraphOK(ts), NEW rs, ResultsOK(ts, rs), NEW op, op # "copy", NEW ts2, Makes(ts, ts2, op)
    PROVE  ResultsOK(ts2, rs)
<1>1. PICK e \in Tensor : ts2 = Append(ts, e) /\ e.op = op
  BY DEF Makes
<1>2. /\ DOMAIN ts2 = DOMAIN ts \cup {Len(ts) + 1} /\ ts2[Len(ts) + 1] = e
      /\ \A t \in DOMAIN ts : ts2[t] = ts[t]
  BY <1>1, Longer
<1>3. \A t \in DOMAIN ts2 : ts2[t].op = "copy" => t \in DOMAIN ts /\ ts[t].op = "copy"
  BY <1>1, <1>2
<1> QED
  BY <1>2, <1>3 DEF ResultsOK

(* and when the copy is one of them. *)
LEMMA ResultsCopied ==
    ASSUME NEW ts, GraphOK(ts), NEW rs, ResultsOK(ts, rs), \A t \in DOMAIN ts : ts[t].op # "copy",
           NEW ts2, Makes(ts, ts2, "copy")
    PROVE  ResultsOK(ts2, Append(rs, Len(ts) + 1))
<1>1. PICK e \in Tensor : ts2 = Append(ts, e) /\ e.op = "copy"
  BY DEF Makes
<1>2. DOMAIN ts2 = DOMAIN ts \cup {Len(ts) + 1} /\ ts2[Len(ts) + 1] = e
  BY <1>1, Longer
<1>3. rs = <<>>
  BY DEF ResultsOK
<1>4. Append(rs, Len(ts) + 1) = <<Len(ts) + 1>>
  BY <1>3
<1> QED
  BY <1>1, <1>2, <1>4 DEF ResultsOK

\* The builder added a tensor.
Added == /\ phase = "build" /\ GraphOK(tensors') /\ ResultsOK(tensors', results')
         /\ UNCHANGED <<phase, placing, threads, contents>>

(* Every step of the construction leaves a well-formed graph. *)
LEMMA BuildStepAdds ==
    ASSUME GraphAssumption, GraphOK(tensors), ResultsOK(tensors, results), BuildStep
    PROVE  Added
<1>0. /\ DOMAIN tensors \subseteq Nat
      /\ \A t \in DOMAIN tensors : tensors[t].size \in Nat \ {0}
  BY GraphDomain DEF Tensor
<1>1. \A n \in Sizes : n \in Nat \ {0}
  BY DEF GraphAssumption
<1>2. \A x \in Readable : x \in DOMAIN tensors /\ x # Cache /\ tensors[x].op # "copy" /\ x \in Nat
  BY <1>0 DEF Readable, Copied
<1>3. ASSUME NEW op, op # "copy", NEW src, NEW n, NEW view, NEW offs, Make(op, src, n, view, offs),
             UNCHANGED results, Makes(tensors, NewTensor(tensors, op, src, n, view, offs), op)
      PROVE  Added
  <2>1. Makes(tensors, tensors', op)
    BY <1>3 DEF Make
  <2>2. ResultsOK(tensors', results)
    BY <1>3, <2>1, ResultsKept
  <2> QED
    BY <1>3, <2>1, <2>2 DEF Make, Makes, Added
<1>4. ASSUME NEW x \in Readable, NEW n \in Sizes, MatMul(<<x>>, n)
      PROVE  Added
  <2> DEFINE src == <<x>>
  <2>0. src \in Seq(Nat) /\ Len(src) = 1 /\ src[1] = x
    BY <1>2
  <2> HIDE DEF src
  <2>2. \A k \in 1..Len(src) : src[k] \in Readable
    <3>1. \A k \in 1..1 : k = 1
      OBVIOUS
    <3> QED
      BY <2>0, <3>1
  <2>3. Makes(tensors, NewTensor(tensors, "matmul", src, n, NoTensor, 0), "matmul")
    BY <1>0, <1>1, <1>2, <2>0, <2>2, OwnTensor
  <2>1. Makes(tensors, NewTensor(tensors, "matmul", <<x>>, n, NoTensor, 0), "matmul")
    BY <2>3 DEF src
  <2> QED
    BY <1>3, <1>4, <2>1 DEF MatMul
<1>5. ASSUME NEW x \in Readable, NEW y \in Readable, NEW n \in Sizes, MatMul(<<x, y>>, n)
      PROVE  Added
  <2> DEFINE src == <<x, y>>
  <2>0. src \in Seq(Nat) /\ Len(src) = 2 /\ src[1] = x /\ src[2] = y
    BY <1>2
  <2> HIDE DEF src
  <2>2. \A k \in 1..Len(src) : src[k] \in Readable
    <3>1. \A k \in 1..2 : k = 1 \/ k = 2
      OBVIOUS
    <3> QED
      BY <2>0, <3>1
  <2>3. Makes(tensors, NewTensor(tensors, "matmul", src, n, NoTensor, 0), "matmul")
    BY <1>0, <1>1, <1>2, <2>0, <2>2, OwnTensor
  <2>1. Makes(tensors, NewTensor(tensors, "matmul", <<x, y>>, n, NoTensor, 0), "matmul")
    BY <2>3 DEF src
  <2> QED
    BY <1>3, <1>5, <2>1 DEF MatMul
<1>6. ASSUME NEW x \in Readable, NEW y \in Readable, Add(x, y)
      PROVE  Added
  <2> DEFINE src == <<x, y>>
  <2>0. src \in Seq(Nat) /\ Len(src) = 2 /\ src[1] = x /\ src[2] = y
    BY <1>2
  <2> HIDE DEF src
  <2>2. \A k \in 1..Len(src) : src[k] \in Readable
    <3>1. \A k \in 1..2 : k = 1 \/ k = 2
      OBVIOUS
    <3> QED
      BY <2>0, <3>1
  <2>3. Makes(tensors, NewTensor(tensors, "add", src, tensors[x].size, NoTensor, 0), "add")
    BY <1>0, <1>1, <1>2, <2>0, <2>2, OwnTensor, <1>6 DEF Add
  <2>1. Makes(tensors, NewTensor(tensors, "add", <<x, y>>, tensors[x].size, NoTensor, 0), "add")
    BY <2>3 DEF src
  <2> QED
    BY <1>3, <1>6, <2>1 DEF Add
<1>7. ASSUME NEW x \in Readable, Scale(x)
      PROVE  Added
  <2> DEFINE src == <<x>>
  <2>0. src \in Seq(Nat) /\ Len(src) = 1 /\ src[1] = x
    BY <1>2
  <2> HIDE DEF src
  <2>2. \A k \in 1..Len(src) : src[k] \in Readable
    <3>1. \A k \in 1..1 : k = 1
      OBVIOUS
    <3> QED
      BY <2>0, <3>1
  <2>3. Makes(tensors, NewTensor(tensors, "scale", src, tensors[x].size, NoTensor, 0), "scale")
    BY <1>0, <1>1, <1>2, <2>0, <2>2, OwnTensor
  <2>1. Makes(tensors, NewTensor(tensors, "scale", <<x>>, tensors[x].size, NoTensor, 0), "scale")
    BY <2>3 DEF src
  <2> QED
    BY <1>3, <1>7, <2>1 DEF Scale
<1>8. ASSUME NEW x \in DOMAIN tensors, tensors[x].op # "copy", NEW n \in Nat \ {0}, NEW offs \in Nat,
             View(x, n, offs)
      PROVE  Added
  <2>1. x = Cache => \E c \in DOMAIN tensors : tensors[c].op = "copy"
    BY <1>8 DEF View, Copied
  <2>2. Makes(tensors, NewTensor(tensors, "view", <<x>>, n, x, offs), "view")
    BY <1>8, <2>1, ViewTensor DEF View
  <2> QED
    BY <1>3, <1>8, <2>2 DEF View
<1>9. ASSUME NEW x \in Readable, Copy(x)
      PROVE  Added
  <2>1. \A t \in DOMAIN tensors : tensors[t].op # "copy"
    BY <1>9 DEF Copy, Copied
  <2>2. Makes(tensors, NewTensor(tensors, "copy", <<x, Cache>>, tensors[Cache].size, Cache, 0), "copy")
    BY <1>2, <1>9, <2>1, CopyTensor DEF Copy
  <2>3. Makes(tensors, tensors', "copy")
    BY <1>9, <2>2 DEF Copy, Make
  <2>4. ResultsOK(tensors', results')
    BY <1>9, <2>1, <2>3, ResultsCopied DEF Copy
  <2> QED
    BY <1>9, <2>3, <2>4 DEF Copy, Make, Makes, Added
<1>10. CASE View(Cache, 1, 0)
  <2>1. Cache \in DOMAIN tensors /\ tensors[Cache].op # "copy"
    BY GraphDomain DEF GraphOK, Leaf
  <2> QED
    BY <1>8, <1>10, <2>1
<1>11. ASSUME NEW x \in Readable, NEW n \in Sizes, NEW offs \in 0..1, View(x, n, offs)
       PROVE  Added
  <2>1. x \in DOMAIN tensors /\ tensors[x].op # "copy"
    BY <1>2
  <2>2. n \in Nat \ {0}
    BY <1>1
  <2>3. offs \in Nat
    OBVIOUS
  <2> QED
    BY <1>8, <1>11, <2>1, <2>2, <2>3
<1>12. CASE \E x \in Readable :
               \/ \E n \in Sizes : MatMul(<<x>>, n)
               \/ \E y \in Readable, n \in Sizes : MatMul(<<x, y>>, n)
               \/ \E y \in Readable : Add(x, y)
               \/ Scale(x)
               \/ \E n \in Sizes, offs \in 0..1 : View(x, n, offs)
               \/ Copy(x)
  <2>1. PICK x \in Readable :
               \/ \E n \in Sizes : MatMul(<<x>>, n)
               \/ \E y \in Readable, n \in Sizes : MatMul(<<x, y>>, n)
               \/ \E y \in Readable : Add(x, y)
               \/ Scale(x)
               \/ \E n \in Sizes, offs \in 0..1 : View(x, n, offs)
               \/ Copy(x)
    BY <1>12
  <2>2. CASE \E n \in Sizes : MatMul(<<x>>, n)
    BY <1>4, <2>2
  <2>3. CASE \E y \in Readable, n \in Sizes : MatMul(<<x, y>>, n)
    BY <1>5, <2>3
  <2>4. CASE \E y \in Readable : Add(x, y)
    BY <1>6, <2>4
  <2>5. CASE Scale(x)
    BY <1>7, <2>5
  <2>6. CASE \E n \in Sizes, offs \in 0..1 : View(x, n, offs)
    BY <1>11, <2>6
  <2>7. CASE Copy(x)
    BY <1>9, <2>7
  <2> QED
    BY <2>1, <2>2, <2>3, <2>4, <2>5, <2>6, <2>7
<1> QED
  BY <1>10, <1>12 DEF BuildStep

-----------------------------------------------------------------------------
(***************************************************************************)
(* Placing all nodes.  The tensors that have their memory after m nodes:   *)
(***************************************************************************)
Before(ns, m) == {Input, Cache} \cup {ns[i] : i \in 1..m}

Counted(ts, ns, al, m) ==
    \A t \in DOMAIN ts : al.children[t] = Cardinality(Uses(ts, ns, m + 1, t))

PlaceInv(ts, ns, al, m, sz) ==
    /\ Sound(ts, al, Before(ns, m), sz)
    /\ Counted(ts, ns, al, m)
    /\ al.failed = FALSE

(* The nodes of a graph are tensors of it. *)
LEMMA OrderIs ==
    ASSUME NEW ts, NEW ns, OrderOK(ts, ns)
    PROVE  /\ Len(ns) \in Nat /\ DOMAIN ns = 1..Len(ns)
           /\ \A i \in 1..Len(ns) : ns[i] \in DOMAIN ts /\ ts[ns[i]].op # "none"
<1>1. ns \in Seq(DOMAIN ts)
  BY DEF OrderOK
<1> QED
  BY <1>1, LenProperties, ElementOfSeq DEF OrderOK

(* There are finitely many uses of a tensor. *)
LEMMA UsesFinite ==
    ASSUME NEW ts, NEW ns, Len(ns) \in Nat, NEW i \in Nat, NEW t
    PROVE  IsFiniteSet(Uses(ts, ns, i, t)) /\ Cardinality(Uses(ts, ns, i, t)) \in Nat
<1>0. \A x, y \in Int : IsFiniteSet(x..y)
  BY FS_Interval
<1>1. IsFiniteSet(i..Len(ns)) /\ IsFiniteSet(1..2)
  <2>1. 1 \in Int /\ 2 \in Int /\ i \in Int /\ Len(ns) \in Int
    OBVIOUS
  <2> QED
    BY <1>0, <2>1, Zenon
<1>2. IsFiniteSet((i..Len(ns)) \X (1..2))
  BY <1>1, FS_Product
<1>3. Uses(ts, ns, i, t) \in SUBSET ((i..Len(ns)) \X (1..2))
  BY DEF Uses
<1> QED
  BY <1>2, <1>3, FS_Subset, FS_CardinalityType

(* The uses from i on are those of node i and the later ones. *)
LEMMA UsesStep ==
    ASSUME NEW ts, NEW ns, Len(ns) \in Nat, NEW i \in 1..Len(ns), NEW t,
           Len(ts[ns[i]].src) \in {0, 1, 2}
    PROVE  Cardinality(Uses(ts, ns, i, t)) =
             Cardinality(Uses(ts, ns, i + 1, t)) + Times(ts[ns[i]].src, t)
<1> DEFINE src == ts[ns[i]].src
           U == Uses(ts, ns, i, t)
           V == Uses(ts, ns, i + 1, t)
           first == Len(src) >= 1 /\ src[1] = t
           second == Len(src) >= 2 /\ src[2] = t
           x == <<i, 1>>
           y == <<i, 2>>
           W == IF first THEN V \cup {x} ELSE V
<1>1. IsFiniteSet(V) /\ Cardinality(V) \in Nat
  BY UsesFinite
<1>2. x \notin V /\ y \notin V /\ x # y
  BY DEF Uses
<1>3. \A u \in V : u \in U
  BY DEF Uses
<1>4. \A u \in U : u \in V \/ (u = x /\ first) \/ (u = y /\ second)
  BY DEF Uses
<1>5. (first => x \in U) /\ (second => y \in U)
  BY DEF Uses
<1>6. Times(src, t) = (IF first THEN 1 ELSE 0) + (IF second THEN 1 ELSE 0)
  BY DEF Times
<1> HIDE DEF U, V, x, y, first, second, src
<1>7. IsFiniteSet(W) /\ Cardinality(W) = Cardinality(V) + (IF first THEN 1 ELSE 0) /\ y \notin W
  <2>1. CASE first
    <3>1. IsFiniteSet(V \cup {x}) /\ Cardinality(V \cup {x}) = Cardinality(V) + 1
      BY <1>1, <1>2, FS_AddElement
    <3> QED
      BY <1>2, <2>1, <3>1
  <2>2. CASE ~first
    BY <1>1, <1>2, <2>2
  <2> QED
    BY <2>1, <2>2
<1>8. U = IF second THEN W \cup {y} ELSE W
  BY <1>3, <1>4, <1>5
<1>9. Cardinality(W) \in Nat
  BY <1>7, FS_CardinalityType
<1> HIDE DEF W
<1>10. Cardinality(U) = Cardinality(W) + (IF second THEN 1 ELSE 0)
  <2>1. CASE second
    <3>1. Cardinality(W \cup {y}) = Cardinality(W) + 1
      BY <1>7, FS_AddElement
    <3> QED
      BY <1>8, <2>1, <3>1
  <2>2. CASE ~second
    BY <1>8, <1>9, <2>2
  <2> QED
    BY <2>1, <2>2
<1>11. Cardinality(U) = Cardinality(V) + Times(src, t)
  BY <1>1, <1>6, <1>7, <1>9, <1>10
<1> QED
  BY <1>11 DEF U, V, src

(* What node m + 1 needs is there. *)
LEMMA NextReady ==
    ASSUME NEW ts, GraphOK(ts), NEW ns, OrderOK(ts, ns), NEW m \in Nat, m < Len(ns), NEW sz \in Nat,
           NEW al, PlaceInv(ts, ns, al, m, sz)
    PROVE  Ready(ts, al, Before(ns, m), ns[m + 1])
<1> DEFINE n == ns[m + 1]
           P == Before(ns, m)
           src == ts[n].src
<1>2. Len(ns) \in Nat /\ m + 1 \in 1..Len(ns) /\ n \in DOMAIN ts /\ ts[n].op # "none"
  <2>1. Len(ns) \in Nat
    BY OrderIs
  <2>2. m + 1 \in 1..Len(ns)
    BY <2>1
  <2> QED
    BY <2>1, <2>2, OrderIs
<1>3. SourcesOK(ts, n) /\ BaseOK(ts, n) /\ n \notin {Input, Cache}
  BY <1>2, GraphDomain DEF GraphOK
<1>4. n \notin P
  <2>1. \A i \in 1..m : i \in 1..Len(ns) /\ i # m + 1
    BY <1>2
  <2>2. \A i \in 1..m : ns[i] # n
    BY <1>2, <2>1 DEF OrderOK
  <2> QED
    BY <1>3, <2>2 DEF Before
<1>5. Len(src) \in {0, 1, 2}
  BY <1>3 DEF SourcesOK
<1>6. ASSUME NEW k \in 1..Len(src)
      PROVE  src[k] \in P /\ src[k] \in DOMAIN ts
  <2>1. src[k] \in 1..(n - 1)
    BY <1>3 DEF SourcesOK
  <2>2. src[k] \in DOMAIN ts
    BY <1>2, <2>1, GraphDomain
  <2>3. CASE ts[src[k]].op = "none"
    BY <2>2, <2>3 DEF GraphOK, Before
  <2>4. CASE ts[src[k]].op # "none"
    <3>1. \A i \in 1..Len(ns) : \A l \in 1..Len(ts[ns[i]].src) :
             ts[ts[ns[i]].src[l]].op # "none" => \E j \in 1..(i - 1) : ns[j] = ts[ns[i]].src[l]
      BY DEF OrderOK
    <3>2. \A l \in 1..Len(src) :
              ts[src[l]].op # "none" => \E j \in 1..(m + 1 - 1) : ns[j] = src[l]
      BY <1>2, <3>1
    <3>3. PICK j \in 1..(m + 1 - 1) : ns[j] = src[k]
      BY <1>6, <2>4, <3>2
    <3>4. j \in 1..m
      BY <3>3
    <3> QED
      BY <2>2, <3>3, <3>4 DEF Before
  <2> QED
    BY <2>3, <2>4
<1>7. ts[n].view # NoTensor => ts[n].view \in P
  <2> SUFFICES ASSUME ts[n].view # NoTensor PROVE ts[n].view \in P
    OBVIOUS
  <2>1. ts[n].op \in {"view", "copy"}
    BY <1>3 DEF BaseOK
  <2>2. CASE ts[n].op = "copy"
    BY <1>3, <2>2 DEF BaseOK, Before
  <2>3. CASE ts[n].op = "view"
    <3>1. Len(src) = 1 /\ (ts[n].view = src[1] \/ ts[n].view = ts[src[1]].view)
      BY <1>3, <2>3 DEF BaseOK, SourcesOK
    <3>2. src[1] \in P /\ src[1] \in DOMAIN ts
      BY <1>6, <3>1
    <3>3. CASE ts[n].view = ts[src[1]].view
      <4>1. al.view[src[1]] = ts[src[1]].view
        BY <3>2, <3>3 DEF PlaceInv, Sound, Based
      <4> QED
        BY <3>2, <3>3, <4>1 DEF PlaceInv, Sound, Based
    <3> QED
      BY <3>1, <3>2, <3>3
  <2> QED
    BY <2>1, <2>2, <2>3
<1>8. CanInplace(ts[n].op) => ts[n].view = NoTensor
  BY <1>3 DEF BaseOK, CanInplace
<1>9. \A t \in DOMAIN ts : al.children[t] >= Times(src, t)
  <2> TAKE t \in DOMAIN ts
  <2>1. al.children[t] = Cardinality(Uses(ts, ns, m + 1, t))
    BY DEF PlaceInv, Counted
  <2>2. Cardinality(Uses(ts, ns, m + 1, t)) = Cardinality(Uses(ts, ns, m + 1 + 1, t)) + Times(src, t)
    BY <1>2, <1>5, UsesStep
  <2>3. Cardinality(Uses(ts, ns, m + 1 + 1, t)) \in Nat
    BY <1>2, UsesFinite
  <2>4. Times(src, t) \in Nat
    BY DEF Times
  <2> QED
    BY <2>1, <2>2, <2>3, <2>4
<1>10. al.failed = FALSE
  BY DEF PlaceInv
<1> QED
  BY <1>2, <1>4, <1>5, <1>6, <1>7, <1>8, <1>9, <1>10 DEF Ready

(* What comes before a node is in the graph. *)
LEMMA BeforeIn ==
    ASSUME NEW ts, GraphOK(ts), NEW ns, OrderOK(ts, ns), NEW m \in Nat, m <= Len(ns)
    PROVE  Before(ns, m) \in SUBSET DOMAIN ts /\ Cache \in Before(ns, m)
<1>1. \A i \in 1..m : i \in 1..Len(ns)
  BY OrderIs
<1> QED
  BY <1>1, OrderIs, GraphDomain DEF Before

(* The next node is placed and the counts are again those of the uses *)
(* left, or the buffer is too small.                                  *)
LEMMA NextPlaced ==
    ASSUME NEW ts, GraphOK(ts), NEW ns, OrderOK(ts, ns), NEW m \in Nat, m < Len(ns), NEW sz \in Nat,
           NEW al, PlaceInv(ts, ns, al, m, sz)
    PROVE  \/ /\ PlaceInv(ts, ns, PlaceNode(ts, al, ns[m + 1]), m + 1, sz)
              /\ Placed(ts, al, PlaceNode(ts, al, ns[m + 1]), Before(ns, m), ns[m + 1], sz)
           \/ Stuck(ts, al, PlaceNode(ts, al, ns[m + 1]), Before(ns, m), sz)
<1> DEFINE n == ns[m + 1]
           P == Before(ns, m)
           r == PlaceNode(ts, al, n)
<1>1. Len(ns) \in Nat /\ m + 1 \in 1..Len(ns) /\ m <= Len(ns)
  BY OrderIs
<1>2. P \in SUBSET DOMAIN ts /\ Cache \in P /\ Shape(ts)
  BY <1>1, BeforeIn, GraphShape
<1>3. Ready(ts, al, P, n) /\ Sound(ts, al, P, sz)
  BY NextReady DEF PlaceInv
<1> HIDE DEF P, n
<1>4. Placed(ts, al, r, P, n, sz) \/ Stuck(ts, al, r, P, sz)
  BY <1>2, <1>3, PlaceSound
<1> HIDE DEF r
<1>5. ASSUME Placed(ts, al, r, P, n, sz)
      PROVE  PlaceInv(ts, ns, r, m + 1, sz)
  <2>1. Before(ns, m + 1) = P \cup {n}
    <3>1. 1..(m + 1) = 1..m \cup {m + 1}
      OBVIOUS
    <3> QED
      BY <3>1 DEF Before, P, n
  <2>2. Sound(ts, r, Before(ns, m + 1), sz) /\ r.failed = FALSE
    BY <1>5, <2>1 DEF Placed
  <2>3. ASSUME NEW t \in DOMAIN ts
        PROVE  r.children[t] = Cardinality(Uses(ts, ns, m + 1 + 1, t))
    <3>1. al.children[t] = Cardinality(Uses(ts, ns, m + 1, t))
      BY DEF PlaceInv, Counted
    <3>2. Len(ts[n].src) \in {0, 1, 2}
      BY <1>3 DEF Ready
    <3>3. Cardinality(Uses(ts, ns, m + 1, t)) = Cardinality(Uses(ts, ns, m + 1 + 1, t)) + Times(ts[n].src, t)
      BY <1>1, <3>2, UsesStep DEF n
    <3>4. Cardinality(Uses(ts, ns, m + 1 + 1, t)) \in Nat
      BY <1>1, UsesFinite
    <3>5. Times(ts[n].src, t) \in Nat
      BY DEF Times
    <3>6. r.children[t] = al.children[t] - Times(ts[n].src, t)
      BY <1>5 DEF Placed
    <3> QED
      BY <3>1, <3>3, <3>4, <3>5, <3>6
  <2> QED
    BY <2>2, <2>3 DEF PlaceInv, Counted
<1> QED
  BY <1>4, <1>5 DEF P, n, r

(* Before anything is placed the counts cover every view that is read. *)
LEMMA ViewsCover ==
    ASSUME NEW ts, GraphOK(ts), NEW ns, OrderOK(ts, ns), NEW al,
           \A t \in DOMAIN ts : al.view[t] = ts[t].view,
           \A t \in DOMAIN ts : al.children[t] = Cardinality(Uses(ts, ns, 1, t)),
           \A t \in DOMAIN ts : al.views[t] = Cardinality(ViewsOf(ts, ns, t)),
           NEW b \in DOMAIN ts
    PROVE  Cardinality(ViewsOf(ts, ns, b)) >= Cardinality(Users(ts, al, b))
<1> DEFINE V == ViewsOf(ts, ns, b)
           U == Users(ts, al, b)
           I == {i \in V : ns[i] \in U}
           f == [i \in I |-> ns[i]]
<1>1. Len(ns) \in Nat /\ DOMAIN ns = 1..Len(ns) /\ b # NoTensor
  BY OrderIs, GraphDomain DEF NoTensor
<1>2. \A t : IsFiniteSet(ViewsOf(ts, ns, t))
  <2>1. IsFiniteSet(1..Len(ns))
    BY <1>1, FS_Interval
  <2> QED
    BY <1>1, <2>1, FS_Subset DEF ViewsOf
<1>3. ASSUME NEW u \in U
      PROVE  \E j \in V : ns[j] = u
  <2>1. u \in DOMAIN ts /\ ts[u].view = b /\ Active(al, u)
    BY DEF Users
  <2>2. al.views[u] = 0
    <3>1. \A i \in DOMAIN ns : ts[ns[i]].view # u
      <4> SUFFICES ASSUME NEW i \in DOMAIN ns, ts[ns[i]].view = u PROVE FALSE
        OBVIOUS
      <4>1. ns[i] \in DOMAIN ts /\ u # NoTensor
        BY <1>1, <2>1, OrderIs, GraphDomain DEF NoTensor
      <4>2. BaseOK(ts, ns[i])
        BY <4>1, GraphDomain
      <4>3. ts[u].view = NoTensor
        BY <4>1, <4>2 DEF BaseOK
      <4> QED
        BY <1>1, <2>1, <4>3
    <3>2. ViewsOf(ts, ns, u) = {}
      BY <3>1 DEF ViewsOf
    <3> QED
      BY <2>1, <3>2, FS_EmptySet
  <2>3. Uses(ts, ns, 1, u) # {}
    <3> SUFFICES ASSUME Uses(ts, ns, 1, u) = {} PROVE FALSE
      OBVIOUS
    <3>1. al.children[u] = 0
      BY <2>1, FS_EmptySet
    <3> QED
      BY <2>1, <2>2, <3>1 DEF Active
  <2>4. PICK i \in 1..Len(ns) : \E k \in 1..Len(ts[ns[i]].src) : ts[ns[i]].src[k] = u
    <3>1. PICK p \in Uses(ts, ns, 1, u) : TRUE
      BY <2>3
    <3>2. /\ p[1] \in 1..Len(ns) /\ p[2] \in 1..2 /\ p[2] <= Len(ts[ns[p[1]]].src)
          /\ ts[ns[p[1]]].src[p[2]] = u
      BY <3>1 DEF Uses
    <3>3. ns[p[1]] \in DOMAIN ts
      BY <3>2, OrderIs
    <3>4. SourcesOK(ts, ns[p[1]])
      BY <3>3, GraphDomain
    <3>5. Len(ts[ns[p[1]]].src) \in Nat
      BY <3>4, SMTT(30) DEF SourcesOK
    <3>6. p[2] \in 1..Len(ts[ns[p[1]]].src)
      BY <3>2, <3>5
    <3> QED
      BY <3>2, <3>6
  <2>5. ts[u].op # "none"
    <3>1. u \notin {Input, Cache}
      BY <1>1, <2>1, GraphDomain
    <3> QED
      BY <2>1, <3>1 DEF GraphOK
  <2>6. PICK j \in 1..(i - 1) : ns[j] = u
    BY <2>4, <2>5 DEF OrderOK
  <2>7. j \in DOMAIN ns
    BY <1>1, <2>4, <2>6
  <2> QED
    BY <2>1, <2>6, <2>7 DEF ViewsOf
<1>4. IsFiniteSet(V) /\ IsFiniteSet(I) /\ Cardinality(I) <= Cardinality(V)
  <2>1. IsFiniteSet(V) /\ I \in SUBSET V
    BY <1>2
  <2> HIDE DEF V, I
  <2> QED
    BY <2>1, FS_Subset
<1>5. f \in Surjection(I, U)
  <2>1. \A i \in I : f[i] \in U
    OBVIOUS
  <2>2. \A u \in U : \E i \in I : f[i] = u
    BY <1>3
  <2>3. f \in [I -> U]
    OBVIOUS
  <2> HIDE DEF f, I, U, V
  <2> QED
    BY <2>2, <2>3 DEF Surjection
<1> HIDE DEF f, I, U, V
<1>6. Cardinality(U) <= Cardinality(I) /\ IsFiniteSet(U)
  BY <1>4, <1>5, FS_Surjection
<1>7. Cardinality(U) \in Nat /\ Cardinality(I) \in Nat /\ Cardinality(V) \in Nat
  BY <1>4, <1>6, FS_CardinalityType
<1>8. Cardinality(V) >= Cardinality(U)
  BY <1>4, <1>6, <1>7
<1> QED
  BY <1>8 DEF U, V

(* The first pass of ggml_tallocr_alloc_graph counts the uses and the *)
(* views.                                                             *)
LEMMA CountsAre ==
    ASSUME NEW ts, GraphOK(ts), NEW ns, OrderOK(ts, ns), NEW al \in Allocation(ts),
           NEW s, s = CountReaders(ts, al, ns)
    PROVE  /\ s \in Allocation(ts)
           /\ s.free = al.free /\ s.data = al.data /\ s.view = al.view /\ s.failed = al.failed
           /\ s.children = [t \in DOMAIN ts |-> Cardinality(Uses(ts, ns, 1, t))]
           /\ s.views = [t \in DOMAIN ts |-> Cardinality(ViewsOf(ts, ns, t))]
<1> DEFINE c == [t \in DOMAIN ts |-> Cardinality(Uses(ts, ns, 1, t))]
           v == [t \in DOMAIN ts |-> Cardinality(ViewsOf(ts, ns, t))]
<1>1. Len(ns) \in Nat /\ DOMAIN ns = 1..Len(ns)
  BY OrderIs
<1>2. c \in [DOMAIN ts -> Int]
  <2>1. \A t : Cardinality(Uses(ts, ns, 1, t)) \in Int
    BY <1>1, UsesFinite
  <2> QED
    BY <2>1
<1>3. v \in [DOMAIN ts -> Int]
  <2>1. IsFiniteSet(DOMAIN ns)
    BY <1>1, FS_Interval
  <2>2. \A t : ViewsOf(ts, ns, t) \in SUBSET DOMAIN ns
    BY DEF ViewsOf
  <2>3. \A t : Cardinality(ViewsOf(ts, ns, t)) \in Int
    BY <2>1, <2>2, FS_Subset, FS_CardinalityType
  <2> QED
    BY <2>3
<1>4. s = [al EXCEPT !.children = c, !.views = v]
  BY DEF CountReaders
<1> HIDE DEF c, v
<1>5. /\ s \in Allocation(ts)
      /\ s.free = al.free /\ s.data = al.data /\ s.view = al.view /\ s.failed = al.failed
      /\ s.children = c /\ s.views = v
  BY <1>2, <1>3, <1>4 DEF Allocation
<1> QED
  BY <1>5 DEF c, v

(* An allocation starts sound, with one free block. *)
LEMMA StartSound ==
    ASSUME NEW ts, GraphOK(ts), NEW ns, OrderOK(ts, ns), NEW sz \in Nat
    PROVE  LET al == StartAllocation(ts, sz)
               s == CountReaders(ts, al, ns)
           IN  /\ al \in Allocation(ts) /\ Sorted(al.free, sz) /\ al.failed = FALSE
               /\ Sound(ts, s, {Cache}, sz)
<1> DEFINE al == StartAllocation(ts, sz)
           s == CountReaders(ts, al, ns)
           lies == [t \in DOMAIN ts |-> IF t = Cache THEN Foreign ELSE Null]
           based == [t \in DOMAIN ts |-> ts[t].view]
           zeros == [t \in DOMAIN ts |-> 0]
<1>0. Shape(ts)
  BY GraphShape
<1>1. Sorted(ResetBlocks(sz), sz)
  BY ResetSorted
<1>2. lies \in [DOMAIN ts -> Int] /\ based \in [DOMAIN ts -> Int] /\ zeros \in [DOMAIN ts -> Int]
  BY <1>0, SizesOf DEF Foreign, Null
<1>3. al = [free |-> ResetBlocks(sz), data |-> lies, view |-> based, children |-> zeros,
            views |-> zeros, max |-> 0, failed |-> FALSE]
  BY DEF StartAllocation
<1> HIDE DEF lies, based, zeros, al
<1>4. /\ al \in Allocation(ts) /\ al.free = ResetBlocks(sz) /\ al.data = lies /\ al.view = based
      /\ al.failed = FALSE
  BY <1>1, <1>2, <1>3 DEF Allocation, Sorted
<1>5. /\ s \in Allocation(ts)
      /\ s.free = al.free /\ s.data = al.data /\ s.view = al.view /\ s.failed = al.failed
      /\ s.children = [t \in DOMAIN ts |-> Cardinality(Uses(ts, ns, 1, t))]
      /\ s.views = [t \in DOMAIN ts |-> Cardinality(ViewsOf(ts, ns, t))]
  BY <1>4, CountsAre
<1> HIDE DEF s
<1>6. /\ \A t \in DOMAIN ts : s.view[t] = ts[t].view
      /\ \A t \in DOMAIN ts : s.data[t] = IF t = Cache THEN Foreign ELSE Null
      /\ \A t \in DOMAIN ts : s.children[t] = Cardinality(Uses(ts, ns, 1, t))
      /\ \A t \in DOMAIN ts : s.views[t] = Cardinality(ViewsOf(ts, ns, t))
  BY <1>4, <1>5 DEF lies, based
<1>7. Viewed(ts, s)
  <2>1. \A t \in DOMAIN ts : s.children[t] >= 0
    <3>1. Len(ns) \in Nat
      BY OrderIs
    <3> QED
      BY <1>6, <3>1, UsesFinite
  <2>2. \A t \in DOMAIN ts : s.views[t] >= Cardinality(Users(ts, s, t))
    BY <1>6, ViewsCover
  <2> QED
    BY <2>1, <2>2 DEF Viewed
<1>8. Based(ts, s, {Cache})
  BY <1>0, <1>6, SizesOf DEF Based, Shape
<1>9. Lies(ts, s, {Cache}, sz)
  BY <1>6 DEF Lies, Own
<1>10. HeldNotFree(ts, s, {Cache}) /\ Nested(ts, s, {Cache})
  BY DEF HeldNotFree, Nested, Own
<1>11. TakenAlone(ts, s)
  <2>1. \A b \in DOMAIN ts : ~Taken(ts, s, b)
    BY <1>0, <1>6, SizesOf DEF Taken, NoTensor
  <2> QED
    BY <2>1 DEF TakenAlone
<1>12. Sound(ts, s, {Cache}, sz)
  BY <1>1, <1>4, <1>5, <1>7, <1>8, <1>9, <1>10, <1>11 DEF Sound
<1> QED
  BY <1>1, <1>4, <1>12 DEF al, s

(* The input gets its memory, or the program ends. *)
LEMMA BeginSound ==
    ASSUME NEW ts, GraphOK(ts), NEW ns, OrderOK(ts, ns), NEW sz \in Nat
    PROVE  \/ PlaceInv(ts, ns, BeginGraph(ts, ns, sz), 0, sz)
           \/ Sound(ts, BeginGraph(ts, ns, sz), {Cache}, sz) /\ BeginGraph(ts, ns, sz).failed = TRUE
<1> DEFINE al == StartAllocation(ts, sz)
           s == CountReaders(ts, al, ns)
           r == TallocAlloc(ts, al, Input)
           g == CountReaders(ts, r, ns)
<1>1. /\ al \in Allocation(ts) /\ Sorted(al.free, sz) /\ al.failed = FALSE
      /\ Sound(ts, s, {Cache}, sz)
  BY StartSound
<1>2. /\ Input \in DOMAIN ts /\ Cache \in DOMAIN ts /\ Shape(ts) /\ Input # Cache
      /\ ts[Input].view = NoTensor
  BY GraphDomain, GraphShape DEF Input, Cache
<1> HIDE DEF al
<1>3. Talloced(ts, al, r, Input, sz)
  BY <1>1, <1>2, TallocIs
<1> HIDE DEF r
<1>4. /\ s \in Allocation(ts)
      /\ s.free = al.free /\ s.data = al.data /\ s.view = al.view /\ s.failed = al.failed
      /\ s.children = [t \in DOMAIN ts |-> Cardinality(Uses(ts, ns, 1, t))]
      /\ s.views = [t \in DOMAIN ts |-> Cardinality(ViewsOf(ts, ns, t))]
  BY <1>1, CountsAre
<1>5. /\ g \in Allocation(ts)
      /\ g.free = r.free /\ g.data = r.data /\ g.view = r.view /\ g.failed = r.failed
      /\ g.children = [t \in DOMAIN ts |-> Cardinality(Uses(ts, ns, 1, t))]
      /\ g.views = [t \in DOMAIN ts |-> Cardinality(ViewsOf(ts, ns, t))]
  BY <1>3, CountsAre DEF Talloced
<1>6. BeginGraph(ts, ns, sz) = g
  BY DEF BeginGraph, al, r
<1> HIDE DEF s, g
<1>7. g.view = s.view /\ g.children = s.children /\ g.views = s.views
  BY <1>3, <1>4, <1>5 DEF Talloced
<1>8. CASE r.failed = TRUE /\ r.data = al.data /\ r.free = al.free
  <2>1. {Cache} \in SUBSET DOMAIN ts
    BY <1>2
  <2>2. g.failed = TRUE /\ g.data = s.data /\ g.free = s.free
    BY <1>4, <1>5, <1>8
  <2>3. Stuck(ts, s, g, {Cache}, sz)
    BY <1>1, <1>5, <1>7, <2>1, <2>2, StuckSound
  <2> QED
    BY <1>6, <2>3 DEF Stuck
<1>9. CASE \E x \in Nat : GotCells(ts, al, r, Input, sz, x)
  <2>1. PICK x \in Nat : GotCells(ts, al, r, Input, sz, x)
    BY <1>9
  <2>2. GotCells(ts, s, g, Input, sz, x)
    BY <1>4, <1>5, <2>1 DEF GotCells
  <2>3. {Cache} \in SUBSET DOMAIN ts /\ Input \notin {Cache}
    BY <1>2
  <2>4. Sound(ts, g, {Cache} \cup {Input}, sz)
    BY <1>1, <1>2, <1>5, <1>7, <2>2, <2>3, RootSound
  <2>5. Before(ns, 0) = {Cache} \cup {Input}
    BY DEF Before
  <2>6. g.failed = FALSE
    BY <1>1, <1>5, <2>1 DEF GotCells
  <2>7. Counted(ts, ns, g, 0)
    BY <1>5 DEF Counted
  <2> QED
    BY <1>6, <2>4, <2>5, <2>6, <2>7 DEF PlaceInv
<1> QED
  BY <1>3, <1>8, <1>9 DEF Talloced

(***************************************************************************)
(* The run that measures the buffer goes through the same states.          *)
(***************************************************************************)
Reached(ts, ns, al, i, sz) ==
    \/ PlaceInv(ts, ns, al, i, sz)
    \/ al \in Allocation(ts) /\ al.failed = TRUE

MeasureBody(ts, ns, huge, f, i) ==
    IF i = 0 THEN BeginGraph(ts, ns, huge) ELSE PlaceNode(ts, f[i - 1], ns[i])

(* After a failure nothing more is placed. *)
LEMMA FailedStays ==
    ASSUME NEW ts, NEW al, al.failed = TRUE, NEW n
    PROVE  PlaceNode(ts, al, n) = al
<1>1. \A t : AllocateNode(ts, al, t) = al
  BY DEF AllocateNode
<1> QED
  BY <1>1 DEF PlaceNode, InTurn

(* One more node is placed, or the failure stays. *)
LEMMA ReachedNext ==
    ASSUME NEW ts, GraphOK(ts), NEW ns, OrderOK(ts, ns), NEW i \in 1..Len(ns), NEW sz \in Nat,
           NEW al, Reached(ts, ns, al, i - 1, sz)
    PROVE  Reached(ts, ns, PlaceNode(ts, al, ns[i]), i, sz)
<1>1. Len(ns) \in Nat
  BY OrderIs
<1>2. CASE PlaceInv(ts, ns, al, i - 1, sz)
  <2> DEFINE m == i - 1
  <2>1. m \in Nat /\ m < Len(ns) /\ m + 1 = i
    BY <1>1
  <2>2. PlaceInv(ts, ns, al, m, sz)
    BY <1>2
  <2> HIDE DEF m
  <2>3. \/ PlaceInv(ts, ns, PlaceNode(ts, al, ns[m + 1]), m + 1, sz)
        \/ Stuck(ts, al, PlaceNode(ts, al, ns[m + 1]), Before(ns, m), sz)
    BY <2>1, <2>2, NextPlaced
  <2> QED
    BY <2>1, <2>3 DEF Reached, Stuck, Sound
<1>3. CASE al \in Allocation(ts) /\ al.failed = TRUE
  BY <1>3, FailedStays DEF Reached
<1> QED
  BY <1>2, <1>3 DEF Reached

(* The function that Measured chooses exists. *)
LEMMA MeasureExists ==
    ASSUME NEW ts, NEW ns, Len(ns) \in Nat, NEW huge
    PROVE  \E f : f = [i \in 0..Len(ns) |-> MeasureBody(ts, ns, huge, f, i)]
<1> DEFINE n == Len(ns)
           S == {k \in 0..n : \E f : f = [i \in 0..k |-> MeasureBody(ts, ns, huge, f, i)]}
<1>1. 0 \in S
  <2> SUFFICES ASSUME NEW k, k = 0 PROVE k \in S
    OBVIOUS
  <2> DEFINE f == [i \in 0..k |-> BeginGraph(ts, ns, huge)]
  <2>1. f = [i \in 0..k |-> MeasureBody(ts, ns, huge, f, i)]
    <3>1. f = [i \in 0..k |-> f[i]]
      OBVIOUS
    <3>2. \A i \in 0..k : f[i] = MeasureBody(ts, ns, huge, f, i)
      BY DEF MeasureBody
    <3> HIDE DEF f
    <3> QED
      BY <3>1, <3>2
  <2> HIDE DEF f
  <2>2. \E h : h = [i \in 0..k |-> MeasureBody(ts, ns, huge, h, i)]
    BY <2>1, Zenon
  <2>3. k \in 0..n
    OBVIOUS
  <2> QED
    BY <2>2, <2>3, Zenon
<1>2. ASSUME NEW k \in 1..n, k - 1 \in S
      PROVE  k \in S
  <2>1. PICK f : f = [i \in 0..(k - 1) |-> MeasureBody(ts, ns, huge, f, i)]
    BY <1>2
  <2> DEFINE g == [i \in 0..k |-> IF i = k THEN MeasureBody(ts, ns, huge, f, i) ELSE f[i]]
  <2>2. \A i \in 0..(k - 1) : g[i] = f[i] /\ i \in 0..k
    OBVIOUS
  <2>3. DOMAIN g = 0..k /\ g = [i \in 0..k |-> g[i]] /\ g[k] = MeasureBody(ts, ns, huge, f, k)
    OBVIOUS
  <2> HIDE DEF g
  <2>4. ASSUME NEW i \in 0..k
        PROVE  g[i] = MeasureBody(ts, ns, huge, g, i)
    <3>1. i # 0 => i - 1 \in 0..(k - 1)
      OBVIOUS
    <3>2. MeasureBody(ts, ns, huge, f, i) = MeasureBody(ts, ns, huge, g, i)
      BY <2>2, <3>1 DEF MeasureBody
    <3>3. g[i] = MeasureBody(ts, ns, huge, f, i)
      <4>1. CASE i = k
        BY <2>3, <4>1
      <4>2. CASE i # k
        <5>1. i \in 0..(k - 1)
          BY <4>2
        <5>2. f[i] = MeasureBody(ts, ns, huge, f, i)
          BY <2>1, <5>1
        <5> QED
          BY <2>2, <5>1, <5>2
      <4> QED
        BY <4>1, <4>2
    <3> QED
      BY <3>2, <3>3
  <2>5. g = [i \in 0..k |-> MeasureBody(ts, ns, huge, g, i)]
    BY <2>3, <2>4
  <2>6. \E h : h = [i \in 0..k |-> MeasureBody(ts, ns, huge, h, i)]
    BY <2>5, Zenon
  <2> QED
    BY <2>6
<1>3. \A k \in 1..n : k - 1 \in S => k \in S
  BY <1>2
<1> HIDE DEF S
<1>4. \A k \in 0..n : k \in S
  BY <1>1, <1>3, UpTo
<1>5. n \in S
  BY <1>4
<1> QED
  BY <1>5 DEF S

(* The measured size is a size. *)
LEMMA MeasuredSize ==
    ASSUME NEW ts, GraphOK(ts), NEW ns, OrderOK(ts, ns), NEW huge \in Nat
    PROVE  Measured(ts, ns, huge) \in Nat
<1> DEFINE n == Len(ns)
           placed == CHOOSE f : f = [i \in 0..n |-> MeasureBody(ts, ns, huge, f, i)]
           S == {k \in 0..n : Reached(ts, ns, placed[k], k, huge)}
<1>1. n \in Nat
  BY OrderIs
<1>2. placed = [i \in 0..n |-> MeasureBody(ts, ns, huge, placed, i)]
  BY <1>1, MeasureExists
<1>3. Measured(ts, ns, huge) = placed[n].max
  BY DEF Measured, MeasureBody
<1> HIDE DEF placed
<1>4. 0 \in S
  <2>1. 0 \in 0..n
    BY <1>1
  <2>2. placed[0] = BeginGraph(ts, ns, huge)
    BY <1>2, <2>1 DEF MeasureBody
  <2>3. Reached(ts, ns, placed[0], 0, huge)
    BY <2>2, BeginSound DEF Reached, Sound
  <2> QED
    BY <2>1, <2>3
<1>5. ASSUME NEW k \in 1..n, k - 1 \in S
      PROVE  k \in S
  <2>1. k \in 0..n /\ k # 0
    BY <1>1
  <2>2. placed[k] = PlaceNode(ts, placed[k - 1], ns[k])
    BY <1>2, <2>1 DEF MeasureBody
  <2>3. Reached(ts, ns, placed[k - 1], k - 1, huge)
    BY <1>5
  <2>4. Reached(ts, ns, placed[k], k, huge)
    BY <2>2, <2>3, ReachedNext
  <2> QED
    BY <2>1, <2>4
<1>6. \A k \in 1..n : k - 1 \in S => k \in S
  BY <1>5
<1> HIDE DEF S
<1>7. \A k \in 0..n : k \in S
  BY <1>1, <1>4, <1>6, UpTo
<1>8. Reached(ts, ns, placed[n], n, huge)
  BY <1>1, <1>7 DEF S
<1>9. placed[n] \in Allocation(ts)
  BY <1>8 DEF Reached, PlaceInv, Sound
<1> QED
  BY <1>3, <1>9 DEF Allocation

-----------------------------------------------------------------------------
(***************************************************************************)
(* Where the nodes lie once they are placed.                               *)
(***************************************************************************)
\* The value of v, a tensor with memory of its own in the buffer, is read by
\* node i or a later one, by itself or through a view.
Needed(ts, ns, i, v) ==
    /\ v \in DOMAIN ts /\ ts[v].view = NoTensor /\ Own(ts, v)
    /\ \E s \in DOMAIN ts : (s = v \/ ts[s].view = v) /\ Uses(ts, ns, i, s) # {}

\* What node j writes is not what later nodes read, nor what it reads itself,
\* unless it overwrites it in place.
ApartAt(ts, ns, al, j) ==
    LET n == ns[j]
    IN  /\ \A v \in Before(ns, j - 1) : Needed(ts, ns, j + 1, v) => ~Overlap(ts, al, v, n)
        /\ \A k \in 1..Len(ts[n].src) :
              LET s == ts[n].src[k]
              IN  Own(ts, s) => \/ ~Overlap(ts, al, s, n)
                                \/ /\ CanInplace(ts[n].op) /\ al.data[s] = al.data[n]
                                   /\ ts[s].size = ts[n].size

\* What a view lies in comes before it.
Apart(ts, ns, al, m) ==
    \A j \in 1..m : /\ ts[ns[j]].view # NoTensor => ts[ns[j]].view \in Before(ns, j - 1)
                    /\ ts[ns[j]].view = NoTensor => ApartAt(ts, ns, al, j)

(* The sources of a node come before it. *)
LEMMA SourceBefore ==
    ASSUME NEW ts, GraphOK(ts), NEW ns, OrderOK(ts, ns), NEW j \in 1..Len(ns),
           NEW k \in 1..Len(ts[ns[j]].src)
    PROVE  /\ ts[ns[j]].src[k] \in Before(ns, j - 1) /\ ts[ns[j]].src[k] \in DOMAIN ts
           /\ Uses(ts, ns, j, ts[ns[j]].src[k]) # {}
<1> DEFINE n == ns[j]
           s == ts[n].src[k]
<1>1. n \in DOMAIN ts /\ Len(ns) \in Nat
  BY OrderIs
<1>2. SourcesOK(ts, n)
  BY <1>1, GraphDomain
<1>3. s \in 1..(n - 1)
  BY <1>2 DEF SourcesOK
<1>4. s \in DOMAIN ts
  BY <1>1, <1>3, GraphDomain
<1>5. s \in Before(ns, j - 1)
  <2>1. CASE ts[s].op = "none"
    BY <1>4, <2>1 DEF GraphOK, Before
  <2>2. CASE ts[s].op # "none"
    <3>1. PICK i \in 1..(j - 1) : ns[i] = s
      BY <2>2 DEF OrderOK
    <3> QED
      BY <3>1 DEF Before
  <2> QED
    BY <2>1, <2>2
<1>6. <<j, k>> \in Uses(ts, ns, j, s)
  <2>1. Len(ts[n].src) \in {0, 1, 2}
    BY <1>2 DEF SourcesOK
  <2>2. k \in 1..2 /\ k <= Len(ts[n].src)
    <3>1. \A l \in {0, 1, 2} : \A x \in 1..l : x \in 1..2 /\ x <= l
      OBVIOUS
    <3> QED
      BY <2>1, <3>1
  <2>3. j \in j..Len(ns)
    BY <1>1
  <2> QED
    BY <2>2, <2>3 DEF Uses
<1> QED
  BY <1>4, <1>5, <1>6

(* A use from position i on is a source of a later node. *)
LEMMA UseIs ==
    ASSUME NEW ts, GraphOK(ts), NEW ns, OrderOK(ts, ns), NEW i \in Nat, NEW t, Uses(ts, ns, i + 1, t) # {}
    PROVE  Uses(ts, ns, i, t) # {}
<1>1. PICK p \in Uses(ts, ns, i + 1, t) : TRUE
  OBVIOUS
<1>2. Len(ns) \in Nat
  BY OrderIs
<1>3. p \in Uses(ts, ns, i, t)
  BY <1>1, <1>2 DEF Uses
<1> QED
  BY <1>3

(* Who is needed from position m + 1 on is wanted after m nodes. *)
LEMMA NeededWanted ==
    ASSUME NEW ts, GraphOK(ts), NEW ns, OrderOK(ts, ns), NEW m \in Nat, NEW al, Counted(ts, ns, al, m),
           NEW v, Needed(ts, ns, m + 1, v)
    PROVE  Wanted(ts, al, v)
<1>1. PICK s \in DOMAIN ts : (s = v \/ ts[s].view = v) /\ Uses(ts, ns, m + 1, s) # {}
  BY DEF Needed
<1>2. Len(ns) \in Nat
  BY OrderIs
<1>3. /\ IsFiniteSet(Uses(ts, ns, m + 1, s))
      /\ Cardinality(Uses(ts, ns, m + 1, s)) \in Nat
  BY <1>2, UsesFinite
<1>4. Cardinality(Uses(ts, ns, m + 1, s)) # 0
  BY <1>1, <1>3, FS_EmptySet
<1>5. al.children[s] > 0
  BY <1>3, <1>4 DEF Counted
<1> QED
  BY <1>1, <1>5 DEF Wanted, Needed

(* Placing the next node keeps the earlier ones apart. *)
LEMMA NextApart ==
    ASSUME NEW ts, GraphOK(ts), NEW ns, OrderOK(ts, ns), NEW m \in Nat, m < Len(ns), NEW sz \in Nat,
           NEW al, PlaceInv(ts, ns, al, m, sz), Apart(ts, ns, al, m),
           NEW r, PlaceInv(ts, ns, r, m + 1, sz), Placed(ts, al, r, Before(ns, m), ns[m + 1], sz)
    PROVE  Apart(ts, ns, r, m + 1)
<1> DEFINE new == ns[m + 1]
<1>1. Len(ns) \in Nat /\ m + 1 \in 1..Len(ns)
  BY OrderIs
<1>2. new \in DOMAIN ts /\ ts[new].op # "none" /\ new \notin {Input, Cache}
  <2>1. new \in DOMAIN ts /\ ts[new].op # "none"
    BY <1>1, OrderIs
  <2> QED
    BY <2>1 DEF GraphOK
<1>3. ASSUME NEW j \in 1..m
      PROVE  /\ j \in 1..Len(ns) /\ ns[j] # new
             /\ \A v \in Before(ns, j - 1) : v # new
  <2>1. j \in 1..Len(ns) /\ j # m + 1
    BY <1>1
  <2>2. \A i \in 1..j : i \in 1..Len(ns) /\ i # m + 1
    BY <1>1
  <2>3. \A i \in 1..j : ns[i] # new
    BY <1>1, <2>2 DEF OrderOK
  <2>4. j \in 1..j /\ \A i \in 1..(j - 1) : i \in 1..j
    OBVIOUS
  <2> QED
    BY <1>2, <2>1, <2>3, <2>4 DEF Before
<1>4. \A t \in DOMAIN ts : t # new => r.data[t] = al.data[t]
  BY DEF Placed
<1>5. ASSUME NEW j \in 1..m, ts[ns[j]].view = NoTensor
      PROVE  ApartAt(ts, ns, r, j)
  <2> DEFINE n == ns[j]
  <2>1. ApartAt(ts, ns, al, j)
    BY <1>5 DEF Apart
  <2>2. n \in DOMAIN ts /\ n # new /\ r.data[n] = al.data[n] /\ j \in 1..Len(ns)
    BY <1>3, <1>4, OrderIs
  <2>3. ASSUME NEW v \in Before(ns, j - 1), v \in DOMAIN ts
        PROVE  r.data[v] = al.data[v]
    BY <1>3, <1>4, <2>3
  <2>4. \A v \in Before(ns, j - 1) : Needed(ts, ns, j + 1, v) => ~Overlap(ts, r, v, n)
    BY <2>1, <2>2, <2>3 DEF ApartAt, Needed, Overlap
  <2>5. ASSUME NEW k \in 1..Len(ts[n].src)
        PROVE  r.data[ts[n].src[k]] = al.data[ts[n].src[k]]
    BY <2>2, <2>3, SourceBefore
  <2> QED
    BY <2>1, <2>2, <2>4, <2>5 DEF ApartAt, Overlap
<1>6. ASSUME ts[new].view = NoTensor
      PROVE  ApartAt(ts, ns, r, m + 1)
  <2>1. Harmless(ts, r, Before(ns, m), new)
    BY <1>6 DEF Placed
  <2>2. Counted(ts, ns, r, m + 1)
    BY DEF PlaceInv
  <2>3. \A v : Needed(ts, ns, m + 1 + 1, v) => Wanted(ts, r, v)
    BY <2>2, NeededWanted
  <2>4. (m + 1) - 1 = m
    OBVIOUS
  <2> QED
    BY <2>1, <2>3, <2>4 DEF ApartAt, Harmless
<1>7. ts[new].view # NoTensor => ts[new].view \in Before(ns, m)
  BY NextReady DEF Ready
<1>8. /\ \A j \in 1..(m + 1) : j \in 1..m \/ j = m + 1
      /\ (m + 1) - 1 = m
  OBVIOUS
<1> QED
  BY <1>5, <1>6, <1>7, <1>8 DEF Apart

(* The input lies at the beginning of the buffer. *)
LEMMA InputFirst ==
    ASSUME NEW ts, GraphOK(ts), NEW ns, OrderOK(ts, ns), NEW sz \in Nat,
           BeginGraph(ts, ns, sz).failed = FALSE
    PROVE  BeginGraph(ts, ns, sz).data[Input] = 0
<1> DEFINE al == StartAllocation(ts, sz)
           k == ts[Input].size
           i == BestFit(al.free, k)
           r == TallocAlloc(ts, al, Input)
<1>1. al \in Allocation(ts) /\ Sorted(al.free, sz) /\ al.failed = FALSE
  BY StartSound
<1>2. al.free = ResetBlocks(sz)
  BY DEF StartAllocation
<1>3. k \in Nat \ {0} /\ Input \in DOMAIN ts
  BY GraphDomain DEF Tensor
<1>4. i \in 0..Len(al.free)
  BY <1>1, <1>3, BestFitIn DEF Sorted
<1>5. r.data = BeginGraph(ts, ns, sz).data /\ r.failed = BeginGraph(ts, ns, sz).failed
  <2> DEFINE g == CountReaders(ts, r, ns)
  <2>1. BeginGraph(ts, ns, sz) = g
    BY DEF BeginGraph
  <2> HIDE DEF al, r
  <2>2. Talloced(ts, al, r, Input, sz)
    BY <1>1, <1>3, GraphShape, TallocIs DEF r
  <2>3. r \in Allocation(ts)
    BY <2>2 DEF Talloced
  <2> HIDE DEF g
  <2>4. g = CountReaders(ts, r, ns)
    BY DEF g
  <2>5. /\ g \in Allocation(ts)
        /\ g.free = r.free /\ g.data = r.data /\ g.view = r.view /\ g.failed = r.failed
        /\ g.children = [t \in DOMAIN ts |-> Cardinality(Uses(ts, ns, 1, t))]
        /\ g.views = [t \in DOMAIN ts |-> Cardinality(ViewsOf(ts, ns, t))]
    BY <2>3, <2>4, CountsAre
  <2> QED
    BY <2>1, <2>5
<1> HIDE DEF al, k, i
<1>6. i # 0
  <2> SUFFICES ASSUME i = 0 PROVE FALSE
    OBVIOUS
  <2>1. r = [al EXCEPT !.failed = TRUE]
    BY DEF TallocAlloc, al, k, i
  <2> QED
    BY <1>1, <1>5, <2>1 DEF Allocation
<1>7. i = 1 /\ al.free[i].addr = 0
  <2>1. CASE sz = 0
    <3>1. al.free = <<>> /\ Len(<<>>) = 0
      BY <1>2, <2>1 DEF ResetBlocks
    <3>2. Len(al.free) = 0
      BY <3>1
    <3> QED
      BY <1>4, <1>6, <3>2
  <2>2. CASE sz # 0
    <3> DEFINE x == [addr |-> 0, size |-> sz]
               one == <<x>>
    <3>1. al.free = one
      BY <1>2, <2>2 DEF ResetBlocks
    <3>2. Len(one) = 1 /\ one[1] = x /\ x.addr = 0
      OBVIOUS
    <3> HIDE DEF one, x
    <3>3. Len(al.free) = 1 /\ al.free[1].addr = 0
      BY <3>1, <3>2
    <3> QED
      BY <1>4, <1>6, <3>3
  <2> QED
    BY <2>1, <2>2
<1>8. r.data = [al.data EXCEPT ![Input] = al.free[i].addr]
  <2> DEFINE block == al.free[i]
             rest == [addr |-> block.addr + k, size |-> block.size - k]
             left == IF rest.size = 0 THEN RemoveAt(al.free, i) ELSE ReplaceAt(al.free, i, rest)
             m == IF block.addr + k > al.max THEN block.addr + k ELSE al.max
  <2>1. r = IF i = 0 THEN [al EXCEPT !.failed = TRUE]
            ELSE [al EXCEPT !.free = left, !.data[Input] = block.addr, !.max = m]
    BY DEF TallocAlloc, al, k, i
  <2> HIDE DEF block, rest, left, m
  <2>2. r = [al EXCEPT !.free = left, !.data[Input] = block.addr, !.max = m]
    BY <1>6, <2>1
  <2>3. r.data = [al.data EXCEPT ![Input] = block.addr]
    BY <1>1, <2>2 DEF Allocation
  <2> QED
    BY <2>3 DEF block
<1>9. r.data[Input] = al.free[i].addr
  BY <1>1, <1>3, <1>8 DEF Allocation
<1> QED
  BY <1>5, <1>7, <1>9

-----------------------------------------------------------------------------
(***************************************************************************)
(* The graph and its allocation in every reachable state.                  *)
(***************************************************************************)
\* The nodes before position next lie where they should; or there was no room.
Laid ==
    /\ PlaceInv(tensors, nodes, a, next - 1, size)
    /\ Apart(tensors, nodes, a, next - 1)
    /\ a.data[Input] = 0

NoRoom ==
    /\ phase = "place" /\ a.failed = TRUE
    /\ \E P \in SUBSET DOMAIN tensors : Sound(tensors, a, P, size)

GraphInv ==
    /\ phase \in {"build", "place", "compute"}
    /\ GraphOK(tensors)
    /\ phase = "build" => ResultsOK(tensors, results) /\ nodes = <<>> /\ next = 1
    /\ phase # "build" => /\ OrderOK(tensors, nodes) /\ size \in Nat
                          /\ next \in 1..(Len(nodes) + 1)
                          /\ Laid \/ NoRoom
    /\ phase = "compute" => next = Len(nodes) + 1

(* The graph begins with its two leaves. *)
LEMMA InitGraph ==
    ASSUME GraphAssumption, Init
    PROVE  GraphInv
<1> DEFINE x == Leaf(InputSize)
           y == Leaf(1)
           ts == <<x, y>>
<1>1. x \in Tensor /\ y \in Tensor
  <2>1. \A n \in Nat \ {0} : Leaf(n) \in Tensor
    BY DEF Leaf, Tensor, Ops, NoTensor
  <2> QED
    BY <2>1 DEF GraphAssumption
<1>2. \A n : /\ Leaf(n).op = "none" /\ Len(Leaf(n).src) = 0 /\ Leaf(n).view = NoTensor
             /\ Leaf(n).offs = 0
  BY DEF Leaf
<1> HIDE DEF x, y
<1>3. ts \in Seq(Tensor) /\ Len(ts) = 2 /\ ts[1] = x /\ ts[2] = y
  BY <1>1
<1>4. DOMAIN ts = {1, 2}
  <2>1. DOMAIN ts = 1..2
    BY <1>3
  <2> QED
    BY <2>1
<1> HIDE DEF ts
<1>5. ASSUME NEW t \in DOMAIN ts
      PROVE  /\ ts[t].op = "none" /\ Len(ts[t].src) = 0 /\ ts[t].view = NoTensor /\ ts[t].offs = 0
  BY <1>2, <1>3, <1>4 DEF x, y
<1>6. \A t \in DOMAIN ts : SourcesOK(ts, t) /\ BaseOK(ts, t)
  BY <1>5 DEF SourcesOK, BaseOK
<1>7. GraphOK(ts)
  BY <1>3, <1>4, <1>5, <1>6 DEF GraphOK, Input, Cache, x, y, Ops
<1>8. tensors = ts
  BY DEF Init, ts, x, y
<1>9. ResultsOK(tensors, results)
  BY <1>5, <1>8 DEF Init, ResultsOK
<1> QED
  BY <1>7, <1>8, <1>9 DEF Init, GraphInv

(* The construction keeps the invariant, *)
LEMMA BuildStepGraph ==
    ASSUME GraphAssumption, GraphInv, BuildStep
    PROVE  GraphInv'
<1>1. phase = "build"
  BY DEF BuildStep, MatMul, Add, Scale, View, Copy, Make
<1>2. Added
  BY <1>1, BuildStepAdds DEF GraphInv
<1> QED
  BY <1>1, <1>2 DEF Added, GraphInv, placing

(* The graph is ordered and measured, and the input gets its memory. *)
LEMMA BuildGraph ==
    ASSUME GraphInv, Build
    PROVE  GraphInv'
<1> DEFINE ns == BuildForward(tensors, Append(results, Len(tensors)))
           sz == Measured(tensors, ns, Huge)
           al == BeginGraph(tensors, ns, sz)
<1>1. /\ phase = "build" /\ phase' = "place" /\ tensors' = tensors /\ next' = next
      /\ nodes' = ns /\ size' = sz
  BY DEF Build, building
<1>2. a' = al
  BY <1>1 DEF Build
<1>3. GraphOK(tensors) /\ ResultsOK(tensors, results) /\ next = 1
  BY <1>1 DEF GraphInv
<1>4. OrderOK(tensors, ns)
  BY <1>3, BuildOrder
<1> HIDE DEF ns
<1>5. sz \in Nat
  BY <1>3, <1>4, MeasuredSize DEF Huge
<1> HIDE DEF sz
<1>6. Len(ns) \in Nat
  BY <1>3, <1>4, OrderIs
<1>7. \/ PlaceInv(tensors, ns, al, 0, sz)
      \/ Sound(tensors, al, {Cache}, sz) /\ al.failed = TRUE
  BY <1>3, <1>4, <1>5, BeginSound
<1>8. CASE PlaceInv(tensors, ns, al, 0, sz)
  <2>1. al.data[Input] = 0
    <3>1. al.failed = FALSE
      BY <1>8 DEF PlaceInv
    <3> QED
      BY <1>3, <1>4, <1>5, <3>1, InputFirst
  <2> HIDE DEF al
  <2>2. Apart(tensors, ns, al, 0)
    BY DEF Apart
  <2>3. Laid'
    <3>1. next' - 1 = 0
      BY <1>1, <1>3
    <3> QED
      BY <1>1, <1>2, <1>8, <2>1, <2>2, <3>1 DEF Laid
  <2> QED
    BY <1>1, <1>3, <1>4, <1>5, <1>6, <2>3 DEF GraphInv
<1>9. CASE Sound(tensors, al, {Cache}, sz) /\ al.failed = TRUE
  <2>1. {Cache} \in SUBSET DOMAIN tensors
    BY <1>3, GraphDomain
  <2> HIDE DEF al
  <2>2. \E P \in SUBSET DOMAIN tensors : Sound(tensors, al, P, sz)
    BY <1>9, <2>1
  <2>3. NoRoom'
    BY <1>1, <1>2, <1>9, <2>2 DEF NoRoom
  <2> QED
    BY <1>1, <1>3, <1>4, <1>5, <1>6, <2>3 DEF GraphInv
<1> QED
  BY <1>7, <1>8, <1>9

(* The next node gets its memory, or there is no room for it. *)
LEMMA PlaceGraph ==
    ASSUME GraphInv, Place
    PROVE  GraphInv'
<1> DEFINE m == next - 1
           r == PlaceNode(tensors, a, nodes[next])
<1>1. /\ phase = "place" /\ phase' = "place" /\ tensors' = tensors /\ nodes' = nodes
      /\ size' = size /\ next' = next + 1 /\ a' = r /\ ~a.failed /\ next <= Len(nodes)
  BY DEF Place, building
<1>2. /\ GraphOK(tensors) /\ OrderOK(tensors, nodes) /\ size \in Nat
      /\ next \in 1..(Len(nodes) + 1) /\ Laid
  BY <1>1 DEF GraphInv, NoRoom
<1>3. Len(nodes) \in Nat
  BY <1>2, OrderIs
<1>4. m \in Nat /\ m < Len(nodes) /\ next = m + 1 /\ next' - 1 = m + 1
  BY <1>1, <1>2, <1>3
<1>5. PlaceInv(tensors, nodes, a, m, size) /\ Apart(tensors, nodes, a, m) /\ a.data[Input] = 0
  BY <1>2 DEF Laid
<1> HIDE DEF m
<1>6. r = PlaceNode(tensors, a, nodes[m + 1])
  BY <1>4
<1> HIDE DEF r
<1>7. \/ /\ PlaceInv(tensors, nodes, r, m + 1, size)
         /\ Placed(tensors, a, r, Before(nodes, m), nodes[m + 1], size)
      \/ Stuck(tensors, a, r, Before(nodes, m), size)
  BY <1>2, <1>4, <1>5, <1>6, NextPlaced
<1>8. next' \in 1..(Len(nodes) + 1)
  BY <1>1, <1>2, <1>3
<1>9. CASE /\ PlaceInv(tensors, nodes, r, m + 1, size)
           /\ Placed(tensors, a, r, Before(nodes, m), nodes[m + 1], size)
  <2>1. Apart(tensors, nodes, r, m + 1)
    BY <1>2, <1>4, <1>5, <1>9, NextApart
  <2>2. r.data[Input] = 0
    <3>1. nodes[m + 1] # Input /\ Input \in DOMAIN tensors
      <4>1. m + 1 \in 1..Len(nodes)
        BY <1>3, <1>4
      <4>2. nodes[m + 1] \in DOMAIN tensors /\ tensors[nodes[m + 1]].op # "none"
        BY <1>2, <4>1, OrderIs
      <4> QED
        BY <1>2, <4>2, GraphDomain DEF GraphOK
    <3> QED
      BY <1>5, <1>9, <3>1 DEF Placed
  <2>3. Laid'
    BY <1>1, <1>4, <1>9, <2>1, <2>2 DEF Laid
  <2> QED
    BY <1>1, <1>2, <1>8, <2>3 DEF GraphInv
<1>10. CASE Stuck(tensors, a, r, Before(nodes, m), size)
  <2>1. Before(nodes, m) \in SUBSET DOMAIN tensors
    BY <1>2, <1>3, <1>4, BeforeIn
  <2>2. NoRoom'
    BY <1>1, <1>10, <2>1 DEF NoRoom, Stuck
  <2> QED
    BY <1>1, <1>2, <1>8, <2>2 DEF GraphInv
<1> QED
  BY <1>7, <1>9, <1>10

(* so does the start of the computation; *)
LEMMA StartGraph ==
    ASSUME GraphInv, Start
    PROVE  GraphInv'
<1>1. /\ phase = "place" /\ phase' = "compute" /\ next > Len(nodes) /\ ~a.failed
      /\ UNCHANGED <<tensors, results, nodes, size, a, next>>
  BY DEF Start, building, placing
<1>2. /\ GraphOK(tensors) /\ OrderOK(tensors, nodes) /\ size \in Nat
      /\ next \in 1..(Len(nodes) + 1) /\ Laid
  BY <1>1 DEF GraphInv, NoRoom
<1>3. Len(nodes) \in Nat
  BY <1>2, OrderIs
<1>4. next = Len(nodes) + 1
  BY <1>1, <1>2, <1>3
<1>5. Laid'
  BY <1>1, <1>2 DEF Laid
<1> QED
  BY <1>1, <1>2, <1>4, <1>5 DEF GraphInv

(* What leaves the graph and its allocation alone keeps the invariant. *)
LEMMA SameGraph ==
    ASSUME GraphInv, UNCHANGED <<phase, building, placing>>
    PROVE  GraphInv'
<1>1. UNCHANGED <<phase, tensors, results, nodes, size, a, next>>
  BY DEF building, placing
<1>2. (Laid <=> Laid') /\ (NoRoom <=> NoRoom')
  BY <1>1 DEF Laid, NoRoom
<1> QED
  BY <1>1, <1>2 DEF GraphInv

(* the threads do not touch the graph; *)
LEMMA ThreadSame ==
    ASSUME NEW i \in Thread, ThreadStep(i)
    PROVE  UNCHANGED <<phase, building, placing>>
BY DEF ThreadStep, Arrive, Scan, InitNode, ComputeInline, ResetActive, PublishNode, Spin, Compute

(* hence every step keeps it. *)
LEMMA StepGraph ==
    ASSUME GraphAssumption, GraphInv, [Next]_vars
    PROVE  GraphInv'
<1>1. CASE UNCHANGED vars
  <2>1. UNCHANGED <<phase, building, placing>>
    BY <1>1 DEF vars, building, placing
  <2> QED
    BY <2>1, SameGraph
<1>2. ASSUME NEW i \in Thread, ThreadStep(i)
      PROVE  GraphInv'
  BY <1>2, ThreadSame, SameGraph
<1> QED
  BY <1>1, <1>2, BuildStepGraph, BuildGraph, PlaceGraph, StartGraph DEF Next

(* The graph and its allocation keep their invariant. *)
THEOREM GraphKept == Spec => []GraphInv
<1>1. Init => GraphInv
  BY InitGraph, GraphAssumption
<1>2. GraphInv /\ [Next]_vars => GraphInv'
  BY StepGraph, GraphAssumption
<1> QED
  BY <1>1, <1>2, PTL DEF Spec

(* The allocation is sound for the tensors that have their memory. *)
LEMMA GraphSound ==
    ASSUME GraphInv, phase # "build"
    PROVE  \E P \in SUBSET DOMAIN tensors : Sound(tensors, a, P, size)
<1>1. /\ GraphOK(tensors) /\ OrderOK(tensors, nodes) /\ size \in Nat
      /\ next \in 1..(Len(nodes) + 1) /\ (Laid \/ NoRoom)
  BY DEF GraphInv
<1>2. CASE Laid
  <2> DEFINE m == next - 1
  <2>1. m \in Nat /\ m <= Len(nodes)
    BY <1>1, OrderIs
  <2>2. PlaceInv(tensors, nodes, a, m, size)
    BY <1>2 DEF Laid
  <2> HIDE DEF m
  <2> QED
    BY <1>1, <2>1, <2>2, BeforeIn DEF PlaceInv
<1>3. CASE NoRoom
  BY <1>3 DEF NoRoom
<1> QED
  BY <1>1, <1>2, <1>3

(* The invariant is stronger than the property of the free blocks. *)
LEMMA GraphFree ==
    ASSUME GraphInv
    PROVE  FreeBlocksSound
<1> SUFFICES ASSUME phase = "place"
             PROVE  /\ \A j \in 1..(Len(a.free) - 1) : End(a.free[j]) < a.free[j + 1].addr
                    /\ \A t \in DOMAIN tensors, j \in DOMAIN a.free :
                          a.data[t] >= 0 /\ a.children[t] > 0 =>
                             Cells(t) \cap (a.free[j].addr..(End(a.free[j]) - 1)) = {}
  BY DEF FreeBlocksSound
<1>1. PICK P \in SUBSET DOMAIN tensors : Sound(tensors, a, P, size)
  BY GraphSound
<1>2. Sorted(a.free, size) /\ size \in Nat
  BY <1>1 DEF Sound, GraphInv
<1>3. Len(a.free) \in Nat /\ DOMAIN a.free = 1..Len(a.free)
  BY <1>2, LenProperties DEF Sorted
<1>4. \A j \in 1..(Len(a.free) - 1) : End(a.free[j]) < a.free[j + 1].addr
  <2> TAKE j \in 1..(Len(a.free) - 1)
  <2>1. j \in 1..Len(a.free) /\ j + 1 \in 1..Len(a.free) /\ j < j + 1
    BY <1>3
  <2> QED
    BY <1>2, <2>1 DEF Sorted
<1>5. ASSUME NEW t \in DOMAIN tensors, NEW j \in DOMAIN a.free, a.data[t] >= 0, a.children[t] > 0
      PROVE  Cells(t) \cap (a.free[j].addr..(End(a.free[j]) - 1)) = {}
  <2>1. t \in P /\ Own(tensors, t)
    BY <1>1, <1>5 DEF Sound, Lies, Null, Foreign
  <2>2. Held(tensors, a, t)
    BY <1>5 DEF Held
  <2>3. Clear(a.free, a.data[t], a.data[t] + tensors[t].size)
    BY <1>1, <2>1, <2>2 DEF Sound, HeldNotFree
  <2>4. a.data[t] \in Nat /\ tensors[t].size \in Nat
    BY <1>1, <2>1, GraphShape, SizesOf DEF Sound, Lies, GraphInv
  <2>5. a.free[j].addr \in Nat /\ End(a.free[j]) \in Nat
    BY <1>2, <1>3, BlocksOf DEF Sorted
  <2>6. \/ a.data[t] + tensors[t].size <= a.free[j].addr
        \/ End(a.free[j]) <= a.data[t]
    BY <1>3, <2>3 DEF Clear
  <2>7. Cells(t) = a.data[t]..(a.data[t] + tensors[t].size - 1)
    BY <1>5 DEF Cells, Foreign
  <2> QED
    BY <2>4, <2>5, <2>6, <2>7
<1> QED
  BY <1>4, <1>5

(* The free blocks are in order and apart, and none holds a tensor that   *)
(* still has readers: what ggml_tallocr_alloc takes and                   *)
(* ggml_tallocr_free_tensor gives back fits together for every graph.     *)
THEOREM FreeBlocks == Spec => []FreeBlocksSound
BY GraphKept, GraphFree, PTL

-----------------------------------------------------------------------------
(***************************************************************************)
(* The shares of the threads: each row is in one share and in no other.    *)
(***************************************************************************)
LEMMA RowsEnough ==
    ASSUME NEW n \in Nat \ {0}, NEW nth \in Nat \ {0}
    PROVE  /\ (n + nth - 1) \div nth \in Nat \ {0}
           /\ ((n + nth - 1) \div nth) * nth >= n
<1> DEFINE rows == (n + nth - 1) \div nth
           rest == (n + nth - 1) % nth
<1>1. rows \in Int /\ rest \in 0..(nth - 1) /\ n + nth - 1 = nth * rows + rest
  OBVIOUS
<1> HIDE DEF rows, rest
<1>2. nth * rows >= n
  BY <1>1
<1>3. rows > 0
  <2> SUFFICES ASSUME rows <= 0 PROVE FALSE
    BY <1>1
  <2>1. nth * rows <= 0
    BY <1>1
  <2> QED
    BY <1>1, <1>2, <2>1
<1>4. rows * nth = nth * rows
  BY <1>1
<1> QED
  BY <1>1, <1>2, <1>3, <1>4 DEF rows

(* A share is made of rows of the tensor, *)
LEMMA ShareIn ==
    ASSUME NEW n \in Nat, NEW ith, NEW nth, NEW r \in Share(n, ith, nth)
    PROVE  r \in Nat /\ r < n
BY DEF Share

(* every row is in one, *)
LEMMA ShareCovers ==
    ASSUME NEW n \in Nat \ {0}, NEW nth \in Nat \ {0}, NEW r \in 0..(n - 1)
    PROVE  \E ith \in 0..(nth - 1) : r \in Share(n, ith, nth)
<1> DEFINE rows == (n + nth - 1) \div nth
           i == r \div rows
           rest == r % rows
<1>1. rows \in Nat \ {0} /\ rows * nth >= n
  BY RowsEnough
<1>2. Share(n, i, nth) = {x \in 0..(n - 1) : rows * i <= x /\ x < rows * (i + 1)}
  BY DEF Share
<1> HIDE DEF rows
<1>3. i \in Int /\ rest \in 0..(rows - 1) /\ r = rows * i + rest
  BY <1>1
<1> HIDE DEF i, rest
<1>4. rows * (i + 1) = rows * i + rows
  BY <1>1, <1>3
<1>5. i >= 0
  <2> SUFFICES ASSUME i + 1 <= 0 PROVE FALSE
    BY <1>3
  <2>1. rows * (i + 1) <= 0
    BY <1>1, <1>3
  <2> QED
    BY <1>1, <1>3, <1>4, <2>1
<1>6. i < nth
  <2> SUFFICES ASSUME i >= nth PROVE FALSE
    BY <1>3
  <2>1. rows * i >= rows * nth
    BY <1>1, <1>3
  <2> QED
    BY <1>1, <1>3, <2>1
<1>7. r \in Share(n, i, nth)
  BY <1>1, <1>2, <1>3, <1>4
<1> QED
  BY <1>3, <1>5, <1>6, <1>7

(* and in no other. *)
LEMMA ShareApart ==
    ASSUME NEW n \in Nat \ {0}, NEW nth \in Nat \ {0}, NEW i \in Int, NEW j \in Int,
           NEW r \in Share(n, i, nth), r \in Share(n, j, nth)
    PROVE  i = j
<1> DEFINE rows == (n + nth - 1) \div nth
<1>1. rows \in Nat \ {0}
  BY RowsEnough
<1>2. /\ r \in Nat /\ rows * i <= r /\ r < rows * (i + 1)
      /\ rows * j <= r /\ r < rows * (j + 1)
  BY DEF Share
<1> HIDE DEF rows
<1>3. \A x, y \in Int : x + 1 <= y => rows * (x + 1) <= rows * y
  BY <1>1
<1>4. rows * (i + 1) \in Int /\ rows * (j + 1) \in Int /\ rows * i \in Int /\ rows * j \in Int
  BY <1>1
<1>5. ~(i + 1 <= j)
  BY <1>2, <1>3, <1>4
<1>6. ~(j + 1 <= i)
  BY <1>2, <1>3, <1>4
<1> QED
  BY <1>5, <1>6

(* One thread alone takes everything. *)
LEMMA ShareWhole ==
    ASSUME NEW n \in Nat \ {0}, NEW r \in 0..(n - 1)
    PROVE  r \in Share(n, 0, 1)
<1>1. 1 \in Nat \ {0} /\ \A x \in 0..(1 - 1) : x = 0
  OBVIOUS
<1> QED
  BY <1>1, ShareCovers

-----------------------------------------------------------------------------
(***************************************************************************)
(* What the nodes write and read in memory, once all of them are placed.   *)
(***************************************************************************)
CellsOf(ts, al, t) ==
    IF al.data[t] = Foreign THEN {Foreign} ELSE al.data[t]..(al.data[t] + ts[t].size - 1)

SharedCells(ts, al, t, n, ith, nth) ==
    IF al.data[t] = Foreign THEN (IF Share(n, ith, nth) = {} THEN {} ELSE {Foreign})
    ELSE IF ts[t].size = n THEN {al.data[t] + r : r \in Share(n, ith, nth)}
    ELSE IF Share(n, ith, nth) = {} THEN {} ELSE CellsOf(ts, al, t)

Written(ts, al, t, ith, nth) ==
    IF ts[t].op = "view" THEN {} ELSE SharedCells(ts, al, t, ts[t].size, ith, nth)

LaidOut(ts, ns, al, sz) ==
    /\ GraphOK(ts) /\ OrderOK(ts, ns) /\ sz \in Nat
    /\ Sound(ts, al, Before(ns, Len(ns)), sz)
    /\ Apart(ts, ns, al, Len(ns))

\* The value of v is there when node q is computed, and kept for it or a later
\* node.
Alive(ts, ns, q, v) ==
    /\ v \in Before(ns, q - 1) \ {Cache}
    /\ ts[v].op = "copy" \/ Needed(ts, ns, q, v)

(* A tensor in the buffer has its cells in it; the others are the cache's. *)
LEMMA CellsAre ==
    ASSUME NEW ts, NEW ns, NEW al, NEW sz, LaidOut(ts, ns, al, sz), NEW t \in Before(ns, Len(ns))
    PROVE  /\ t \in DOMAIN ts /\ ts[t].size \in Nat \ {0}
           /\ Own(ts, t) => /\ al.data[t] \in Nat /\ al.data[t] + ts[t].size <= sz
                            /\ al.data[t] # Foreign
                            /\ CellsOf(ts, al, t) = al.data[t]..(al.data[t] + ts[t].size - 1)
           /\ ~Own(ts, t) => al.data[t] = Foreign /\ CellsOf(ts, al, t) = {Foreign}
           /\ CellsOf(ts, al, t) \subseteq 0..(sz - 1) \cup {Foreign}
<1>0. Len(ns) \in Nat /\ Len(ns) <= Len(ns)
  BY OrderIs DEF LaidOut
<1>1. t \in DOMAIN ts
  BY <1>0, BeforeIn DEF LaidOut
<1>2. ts[t].size \in Nat \ {0}
  BY <1>1, GraphDomain DEF LaidOut, Tensor
<1>3. Lies(ts, al, Before(ns, Len(ns)), sz) /\ sz \in Nat
  BY DEF LaidOut, Sound
<1>4. CASE Own(ts, t)
  <2>1. al.data[t] \in Nat /\ al.data[t] + ts[t].size <= sz
    BY <1>1, <1>3, <1>4 DEF Lies
  <2>2. al.data[t] # Foreign
    BY <2>1 DEF Foreign
  <2>3. CellsOf(ts, al, t) = al.data[t]..(al.data[t] + ts[t].size - 1)
    BY <2>2 DEF CellsOf
  <2>4. CellsOf(ts, al, t) \subseteq 0..(sz - 1)
    BY <1>2, <1>3, <2>1, <2>3
  <2> QED
    BY <1>1, <1>2, <1>4, <2>1, <2>2, <2>3, <2>4
<1>5. CASE ~Own(ts, t)
  <2>1. al.data[t] = Foreign
    BY <1>1, <1>3, <1>5 DEF Lies
  <2>2. CellsOf(ts, al, t) = {Foreign}
    BY <2>1 DEF CellsOf
  <2> QED
    BY <1>1, <1>2, <1>5, <2>1, <2>2
<1> QED
  BY <1>4, <1>5

(* Two tensors with a cell of the buffer in common overlap. *)
LEMMA CommonCell ==
    ASSUME NEW ts, NEW ns, NEW al, NEW sz, LaidOut(ts, ns, al, sz),
           NEW t \in Before(ns, Len(ns)), NEW u \in Before(ns, Len(ns)),
           NEW c, c \in CellsOf(ts, al, t), c \in CellsOf(ts, al, u), Own(ts, t)
    PROVE  Own(ts, u) /\ Overlap(ts, al, t, u)
<1>1. /\ al.data[t] \in Nat /\ ts[t].size \in Nat \ {0}
      /\ CellsOf(ts, al, t) = al.data[t]..(al.data[t] + ts[t].size - 1)
  BY CellsAre
<1>2. c \in Nat /\ al.data[t] <= c /\ c < al.data[t] + ts[t].size
  BY <1>1
<1>3. Own(ts, u)
  <2> SUFFICES ASSUME ~Own(ts, u) PROVE FALSE
    OBVIOUS
  <2>1. CellsOf(ts, al, u) = {Foreign}
    BY CellsAre
  <2> QED
    BY <1>2, <2>1 DEF Foreign
<1>4. /\ al.data[u] \in Nat /\ ts[u].size \in Nat \ {0}
      /\ CellsOf(ts, al, u) = al.data[u]..(al.data[u] + ts[u].size - 1)
  BY <1>3, CellsAre
<1>5. al.data[u] <= c /\ c < al.data[u] + ts[u].size
  BY <1>4
<1>6. /\ al.data[t] \in Nat /\ ts[t].size \in Nat /\ al.data[u] \in Nat /\ ts[u].size \in Nat
      /\ c \in Nat
  BY <1>1, <1>2, <1>4
<1>7. Overlap(ts, al, t, u)
  BY <1>2, <1>5, <1>6 DEF Overlap
<1> QED
  BY <1>3, <1>7

(* The nodes have their memory, and what comes before one of them too. *)
LEMMA NodesIn ==
    ASSUME NEW ts, NEW ns, NEW al, NEW sz, LaidOut(ts, ns, al, sz), NEW q \in 1..Len(ns)
    PROVE  /\ ns[q] \in Before(ns, Len(ns)) /\ ns[q] \in DOMAIN ts /\ ts[ns[q]].op # "none"
           /\ \A v \in Before(ns, q - 1) : v \in Before(ns, Len(ns)) /\ v # ns[q]
           /\ SourcesOK(ts, ns[q]) /\ BaseOK(ts, ns[q])
           /\ ts[ns[q]].op # "view" /\ Own(ts, ns[q]) => ts[ns[q]].view = NoTensor
           /\ ~Own(ts, ns[q]) => ts[ns[q]].op \in {"view", "copy"}
           /\ ts[ns[q]].op = "copy" => ~Own(ts, ns[q])
<1> DEFINE n == ns[q]
<1>1. Len(ns) \in Nat /\ n \in DOMAIN ts /\ ts[n].op # "none" /\ GraphOK(ts)
  BY OrderIs DEF LaidOut
<1>2. n \in Before(ns, Len(ns))
  BY DEF Before
<1>3. n \notin {Input, Cache}
  BY <1>1 DEF GraphOK
<1>4. ASSUME NEW v \in Before(ns, q - 1)
      PROVE  v \in Before(ns, Len(ns)) /\ v # n
  <2>1. \A i \in 1..(q - 1) : i \in 1..Len(ns) /\ i # q
    BY <1>1
  <2>2. \A i \in 1..(q - 1) : ns[i] # n
    BY <2>1 DEF LaidOut, OrderOK
  <2> QED
    BY <1>3, <2>1, <2>2 DEF Before
<1>5. SourcesOK(ts, n) /\ BaseOK(ts, n)
  BY <1>1, GraphDomain
<1>6. ts[n].op # "view" /\ Own(ts, n) => ts[n].view = NoTensor
  BY <1>5 DEF BaseOK, Own
<1>7. ~Own(ts, n) => ts[n].op \in {"view", "copy"}
  BY <1>3, <1>5 DEF BaseOK, Own, NoTensor, Cache
<1>8. ts[n].op = "copy" => ~Own(ts, n)
  BY <1>5 DEF BaseOK, Own
<1> QED
  BY <1>1, <1>2, <1>4, <1>5, <1>6, <1>7, <1>8

(* A node writes cells of its own, *)
LEMMA WrittenIn ==
    ASSUME NEW ts, NEW ns, NEW al, NEW sz, LaidOut(ts, ns, al, sz), NEW q \in 1..Len(ns),
           NEW ith, NEW nth, NEW c \in Written(ts, al, ns[q], ith, nth)
    PROVE  c \in CellsOf(ts, al, ns[q]) /\ ts[ns[q]].op # "view"
<1> DEFINE n == ns[q]
           k == ts[n].size
<1>1. n \in Before(ns, Len(ns))
  BY NodesIn
<1>2. ts[n].op # "view" /\ c \in SharedCells(ts, al, n, k, ith, nth)
  BY DEF Written
<1>3. k \in Nat
  BY <1>1, CellsAre
<1>4. CASE Own(ts, n)
  <2>1. /\ al.data[n] \in Nat /\ al.data[n] # Foreign
        /\ CellsOf(ts, al, n) = al.data[n]..(al.data[n] + ts[n].size - 1)
    BY <1>1, <1>4, CellsAre
  <2>2. c \in {al.data[n] + r : r \in Share(k, ith, nth)}
    BY <1>2, <2>1 DEF SharedCells
  <2>3. PICK r \in Share(k, ith, nth) : c = al.data[n] + r
    BY <2>2
  <2>4. r \in Nat /\ r < k
    BY <1>3, ShareIn
  <2> QED
    BY <1>2, <1>3, <2>1, <2>3, <2>4
<1>5. CASE ~Own(ts, n)
  <2>1. al.data[n] = Foreign /\ CellsOf(ts, al, n) = {Foreign}
    BY <1>1, <1>5, CellsAre
  <2> QED
    BY <1>2, <2>1 DEF SharedCells
<1> QED
  BY <1>4, <1>5

(* all of them, *)
LEMMA WrittenAll ==
    ASSUME NEW ts, NEW ns, NEW al, NEW sz, LaidOut(ts, ns, al, sz), NEW q \in 1..Len(ns),
           ts[ns[q]].op # "view", NEW nth \in Nat \ {0}, NEW c \in CellsOf(ts, al, ns[q])
    PROVE  \E ith \in 0..(nth - 1) : c \in Written(ts, al, ns[q], ith, nth)
<1> DEFINE n == ns[q]
           k == ts[n].size
<1>1. n \in Before(ns, Len(ns))
  BY NodesIn
<1>2. k \in Nat \ {0}
  BY <1>1, CellsAre
<1>3. CASE Own(ts, n)
  <2>1. /\ al.data[n] \in Nat /\ al.data[n] # Foreign
        /\ CellsOf(ts, al, n) = al.data[n]..(al.data[n] + ts[n].size - 1)
    BY <1>1, <1>3, CellsAre
  <2> DEFINE r == c - al.data[n]
  <2>2. r \in 0..(k - 1) /\ c = al.data[n] + r
    BY <1>2, <2>1, SMTT(30)
  <2>3. PICK i \in 0..(nth - 1) : r \in Share(k, i, nth)
    BY <1>2, <2>2, ShareCovers
  <2>4. c \in Written(ts, al, n, i, nth)
    BY <2>1, <2>2, <2>3 DEF Written, SharedCells
  <2> QED
    BY <2>4
<1>4. CASE ~Own(ts, n)
  <2>1. al.data[n] = Foreign /\ CellsOf(ts, al, n) = {Foreign}
    BY <1>1, <1>4, CellsAre
  <2>2. 0 \in 0..(k - 1)
    BY <1>2
  <2>3. PICK i \in 0..(nth - 1) : 0 \in Share(k, i, nth)
    BY <1>2, <2>2, ShareCovers
  <2>4. c \in Written(ts, al, n, i, nth)
    BY <2>1, <2>3 DEF Written, SharedCells
  <2> QED
    BY <2>4
<1> QED
  BY <1>3, <1>4

(* and nothing that is still needed after it. *)
LEMMA WrittenApart ==
    ASSUME NEW ts, NEW ns, NEW al, NEW sz, LaidOut(ts, ns, al, sz), NEW q \in 1..Len(ns),
           NEW v, Alive(ts, ns, q, v), Alive(ts, ns, q + 1, v),
           NEW ith, NEW nth, NEW c \in Written(ts, al, ns[q], ith, nth)
    PROVE  c \notin CellsOf(ts, al, v)
<1> DEFINE n == ns[q]
<1> SUFFICES ASSUME c \in CellsOf(ts, al, v) PROVE FALSE
  OBVIOUS
<1>1. c \in CellsOf(ts, al, n) /\ ts[n].op # "view"
  BY WrittenIn
<1>2. /\ n \in Before(ns, Len(ns)) /\ v \in Before(ns, Len(ns)) /\ v # n
      /\ v \in Before(ns, q - 1) /\ n \in DOMAIN ts /\ GraphOK(ts)
  BY NodesIn DEF Alive, LaidOut
<1>3. v \in DOMAIN ts
  BY <1>2, CellsAre
<1>4. CASE ts[v].op = "copy"
  <2>1. ~Own(ts, v)
    <3>1. BaseOK(ts, v)
      BY <1>2, <1>3, GraphDomain
    <3> QED
      BY <1>4, <3>1 DEF BaseOK, Own
  <2>2. ~Own(ts, n)
    BY <1>1, <1>2, <2>1, CommonCell
  <2>3. ts[n].op = "copy"
    BY <1>1, <2>2, NodesIn
  <2> QED
    BY <1>2, <1>3, <1>4, <2>3 DEF GraphOK
<1>5. CASE Needed(ts, ns, q + 1, v)
  <2>1. Own(ts, v)
    BY <1>5 DEF Needed
  <2>2. Own(ts, n) /\ Overlap(ts, al, v, n)
    BY <1>1, <1>2, <2>1, CommonCell
  <2>3. ts[n].view = NoTensor
    BY <1>1, <2>2, NodesIn
  <2>4. ApartAt(ts, ns, al, q)
    BY <2>3 DEF LaidOut, Apart
  <2> QED
    BY <1>2, <1>5, <2>2, <2>4 DEF ApartAt
<1> QED
  BY <1>4, <1>5 DEF Alive

-----------------------------------------------------------------------------
(***************************************************************************)
(* What memory holds while node q is computed by nth threads and those in  *)
(* D are done: what is still needed, but for the cells they overwrote.     *)
(***************************************************************************)
Intact(ts, ns, al, mem, q, D, nth) ==
    /\ \A v : Alive(ts, ns, q, v) =>
          \A c \in CellsOf(ts, al, v) :
             mem[c] = v \/ \E i \in D : c \in Written(ts, al, ns[q], i, nth)
    /\ \A i \in D : \A c \in Written(ts, al, ns[q], i, nth) : mem[c] = ns[q]

\* The nodes before q are computed and nobody is at node q yet.
Whole(ts, ns, al, mem, q) ==
    \A v : Alive(ts, ns, q, v) => \A c \in CellsOf(ts, al, v) : mem[c] = v

(* When the nodes before q are computed, all that q needs is intact. *)
LEMMA WholeIntact ==
    ASSUME NEW ts, NEW ns, NEW al, NEW mem, NEW q, Whole(ts, ns, al, mem, q), NEW nth
    PROVE  Intact(ts, ns, al, mem, q, {}, nth)
BY DEF Whole, Intact

(* A thread does its share. *)
LEMMA ShareDone ==
    ASSUME NEW ts, NEW ns, NEW al, NEW sz, LaidOut(ts, ns, al, sz), NEW q \in 1..Len(ns),
           NEW mem, DOMAIN mem = 0..(sz - 1) \cup {Foreign},
           NEW D, NEW nth, Intact(ts, ns, al, mem, q, D, nth), NEW ith,
           NEW mem2, mem2 = [c \in DOMAIN mem |->
                               IF c \in Written(ts, al, ns[q], ith, nth) THEN ns[q] ELSE mem[c]]
    PROVE  Intact(ts, ns, al, mem2, q, D \cup {ith}, nth)
<1> DEFINE n == ns[q]
           W(i) == Written(ts, al, n, i, nth)
<1>1. \A v : Alive(ts, ns, q, v) => CellsOf(ts, al, v) \subseteq DOMAIN mem
  <2> SUFFICES ASSUME NEW v, Alive(ts, ns, q, v) PROVE CellsOf(ts, al, v) \subseteq DOMAIN mem
    OBVIOUS
  <2>1. v \in Before(ns, Len(ns))
    BY NodesIn DEF Alive
  <2> QED
    BY <2>1, CellsAre
<1>2. \A i : W(i) \subseteq DOMAIN mem
  <2> SUFFICES ASSUME NEW i, NEW c \in W(i) PROVE c \in DOMAIN mem
    OBVIOUS
  <2>1. c \in CellsOf(ts, al, n) /\ n \in Before(ns, Len(ns))
    BY WrittenIn, NodesIn
  <2> QED
    BY <2>1, CellsAre
<1>3. \A c \in DOMAIN mem : mem2[c] = IF c \in W(ith) THEN n ELSE mem[c]
  OBVIOUS
<1>4. /\ \A v : Alive(ts, ns, q, v) =>
            \A c \in CellsOf(ts, al, v) : mem[c] = v \/ \E i \in D : c \in W(i)
      /\ \A i \in D : \A c \in W(i) : mem[c] = n
  BY DEF Intact
<1> HIDE DEF W, n
<1>5. ASSUME NEW v, Alive(ts, ns, q, v), NEW c \in CellsOf(ts, al, v)
      PROVE  mem2[c] = v \/ \E i \in D \cup {ith} : c \in W(i)
  <2>1. c \in DOMAIN mem
    BY <1>1, <1>5
  <2>2. CASE c \in W(ith)
    BY <2>2
  <2>3. CASE c \notin W(ith)
    BY <1>3, <1>4, <1>5, <2>1, <2>3
  <2> QED
    BY <2>2, <2>3
<1>6. ASSUME NEW i \in D \cup {ith}, NEW c \in W(i)
      PROVE  mem2[c] = n
  BY <1>2, <1>3, <1>4
<1> QED
  BY <1>5, <1>6 DEF Intact, W, n

(* All of them have done theirs: the node is computed. *)
LEMMA NodeDone ==
    ASSUME NEW ts, NEW ns, NEW al, NEW sz, LaidOut(ts, ns, al, sz), NEW q \in 1..Len(ns),
           NEW mem, NEW nth \in Nat \ {0}, Intact(ts, ns, al, mem, q, 0..(nth - 1), nth)
    PROVE  Whole(ts, ns, al, mem, q + 1)
<1> DEFINE n == ns[q]
           D == 0..(nth - 1)
<1>1. GraphOK(ts) /\ OrderOK(ts, ns) /\ n \in DOMAIN ts /\ BaseOK(ts, n)
  BY NodesIn DEF LaidOut
<1> SUFFICES ASSUME NEW v, Alive(ts, ns, q + 1, v), NEW c \in CellsOf(ts, al, v)
             PROVE  mem[c] = v
  BY DEF Whole
<1>2. CASE v = n
  <2>1. ts[n].op # "view"
    BY <1>1, <1>2 DEF Alive, Needed, BaseOK
  <2>2. \E i \in D : c \in Written(ts, al, n, i, nth)
    BY <1>2, <2>1, WrittenAll
  <2> QED
    BY <1>2, <2>2 DEF Intact
<1>3. CASE v # n
  <2>1. Alive(ts, ns, q, v)
    <3>1. v \in Before(ns, q) /\ v # Cache
      <4>1. (q + 1) - 1 = q
        OBVIOUS
      <4> QED
        BY <4>1 DEF Alive
    <3>2. v \in Before(ns, q - 1)
      <4>1. \A i \in 1..q : i \in 1..(q - 1) \/ i = q
        OBVIOUS
      <4> QED
        BY <1>3, <3>1, <4>1 DEF Before
    <3>3. ts[v].op = "copy" \/ Needed(ts, ns, q + 1, v)
      BY DEF Alive
    <3>4. Needed(ts, ns, q + 1, v) => Needed(ts, ns, q, v)
      BY <1>1, UseIs DEF Needed
    <3> QED
      BY <3>1, <3>2, <3>3, <3>4 DEF Alive
  <2>2. mem[c] = v \/ \E i \in D : c \in Written(ts, al, n, i, nth)
    BY <2>1 DEF Intact
  <2>3. \A i : c \notin Written(ts, al, n, i, nth)
    BY <2>1, WrittenApart
  <2> QED
    BY <2>2, <2>3
<1> QED
  BY <1>2, <1>3

-----------------------------------------------------------------------------
(***************************************************************************)
(* The sources of a node are there when it is computed.                    *)
(***************************************************************************)
CopiesOf(ts) == {t \in DOMAIN ts : ts[t].op = "copy"}

ValueOf(ts, s) ==
    LET base == IF ts[s].view = NoTensor THEN s ELSE ts[s].view
    IN  IF base = Cache THEN CHOOSE c \in CopiesOf(ts) : TRUE ELSE base

\* Source k of n is read; the second one of a copy only names where it goes.
ReadBy(ts, n, k) ==
    /\ k \in 1..Len(ts[n].src)
    /\ ts[n].op \in {"matmul", "add", "scale"} \/ (ts[n].op = "copy" /\ k = 1)

(* A source that is a view of the cache comes after the copy. *)
LEMMA CopyBefore ==
    ASSUME NEW ts, NEW ns, NEW al, NEW sz, LaidOut(ts, ns, al, sz), NEW q \in 1..Len(ns),
           NEW s \in Before(ns, q - 1), s \in DOMAIN ts, ts[s].op # "copy", ts[s].view = Cache
    PROVE  \E i \in 1..(q - 1) : ns[i] \in CopiesOf(ts) /\ CopiesOf(ts) = {ns[i]}
<1>1. GraphOK(ts) /\ OrderOK(ts, ns) /\ Len(ns) \in Nat
  BY OrderIs DEF LaidOut
<1>2. s \notin {Input, Cache} /\ ts[s].op = "view"
  <2>1. BaseOK(ts, s)
    BY <1>1, GraphDomain
  <2>2. ts[Input].view # Cache /\ ts[Cache].view # Cache
    BY <1>1, GraphDomain DEF NoTensor, Cache
  <2> QED
    BY <2>1, <2>2 DEF BaseOK, NoTensor, Cache
<1>3. PICK j \in 1..(q - 1) : ns[j] = s
  BY <1>2 DEF Before
<1>4. j \in 1..Len(ns)
  BY <1>1, <1>3
<1>5. PICK i \in 1..(j - 1) : ts[ns[i]].op = "copy"
  BY <1>1, <1>2, <1>3, <1>4 DEF OrderOK
<1>6. i \in 1..(q - 1) /\ i \in 1..Len(ns)
  BY <1>3, <1>4, <1>5
<1>7. ns[i] \in DOMAIN ts
  BY <1>1, <1>6, OrderIs
<1>8. ns[i] \in CopiesOf(ts) /\ CopiesOf(ts) = {ns[i]}
  BY <1>1, <1>5, <1>7 DEF CopiesOf, GraphOK
<1> QED
  BY <1>6, <1>8

(* A tensor that lies in another one has its cells among the cells of that *)
(* one.                                                                    *)
LEMMA CellsInside ==
    ASSUME NEW ts, NEW ns, NEW al, NEW sz, LaidOut(ts, ns, al, sz),
           NEW t \in Before(ns, Len(ns)), NEW u \in Before(ns, Len(ns)), Own(ts, t), Own(ts, u),
           al.data[u] <= al.data[t], al.data[t] + ts[t].size <= al.data[u] + ts[u].size
    PROVE  CellsOf(ts, al, t) \subseteq CellsOf(ts, al, u)
<1>0. /\ al.data[t] \in Nat /\ ts[t].size \in Nat /\ al.data[u] \in Nat /\ ts[u].size \in Nat
      /\ CellsOf(ts, al, t) = al.data[t]..(al.data[t] + ts[t].size - 1)
      /\ CellsOf(ts, al, u) = al.data[u]..(al.data[u] + ts[u].size - 1)
  BY CellsAre
<1>1. PICK x \in Nat, m \in Nat : /\ al.data[t] = x /\ ts[t].size = m
                                 /\ CellsOf(ts, al, t) = x..(x + m - 1)
  BY <1>0, Zenon
<1>2. PICK y \in Nat, l \in Nat : /\ al.data[u] = y /\ ts[u].size = l
                                 /\ CellsOf(ts, al, u) = y..(y + l - 1)
  BY <1>0, Zenon
<1>3. y <= x /\ x + m <= y + l
  BY <1>1, <1>2
<1>4. x..(x + m - 1) \subseteq y..(y + l - 1)
  BY <1>3
<1> QED
  BY <1>1, <1>2, <1>4

(* A source that is read comes before the node, its value is alive there *)
(* and its cells are cells of that value.                                *)
LEMMA SourceAlive ==
    ASSUME NEW ts, NEW ns, NEW al, NEW sz, LaidOut(ts, ns, al, sz), NEW q \in 1..Len(ns),
           NEW k, ReadBy(ts, ns[q], k), NEW s, s = ts[ns[q]].src[k]
    PROVE  /\ s \in Before(ns, q - 1) /\ s \in Before(ns, Len(ns)) /\ s \in DOMAIN ts
           /\ s # Cache /\ ts[s].op # "copy"
           /\ Alive(ts, ns, q, ValueOf(ts, s))
           /\ CellsOf(ts, al, s) \subseteq CellsOf(ts, al, ValueOf(ts, s))
<1> DEFINE n == ns[q]
           b == ts[s].view
<1>1. GraphOK(ts) /\ OrderOK(ts, ns) /\ Len(ns) \in Nat
  BY OrderIs DEF LaidOut
<1>2. k \in 1..Len(ts[n].src)
  BY DEF ReadBy
<1>3. s \in Before(ns, q - 1) /\ s \in DOMAIN ts /\ Uses(ts, ns, q, s) # {}
  BY <1>1, <1>2, SourceBefore
<1>4. s # Cache /\ ts[s].op # "copy"
  <2>1. SourcesOK(ts, n)
    BY NodesIn
  <2> QED
    BY <1>2, <2>1 DEF SourcesOK, ReadBy
<1>5. s \in Before(ns, Len(ns))
  BY <1>3, NodesIn
<1>6. CASE b = NoTensor
  <2>1. ValueOf(ts, s) = s
    BY <1>4, <1>6 DEF ValueOf
  <2>2. Needed(ts, ns, q, s)
    BY <1>3, <1>4, <1>6 DEF Needed, Own, NoTensor, Cache
  <2> QED
    BY <1>3, <1>4, <1>5, <2>1, <2>2 DEF Alive
<1>7. CASE b = Cache
  <2>1. PICK i \in 1..(q - 1) : ns[i] \in CopiesOf(ts) /\ CopiesOf(ts) = {ns[i]}
    BY <1>3, <1>4, <1>7, CopyBefore
  <2>2. ValueOf(ts, s) = ns[i]
    BY <1>7, <2>1 DEF ValueOf, NoTensor, Cache
  <2>3. ts[ns[i]].op = "copy" /\ ns[i] \in DOMAIN ts
    BY <2>1 DEF CopiesOf
  <2>4. i \in 1..Len(ns)
    BY <1>1, <2>1
  <2>5. ns[i] # Cache
    BY <1>1, <2>3, <2>4, OrderIs DEF GraphOK
  <2>6. Alive(ts, ns, q, ns[i])
    BY <2>1, <2>3, <2>5 DEF Alive, Before
  <2>7. ns[i] \in Before(ns, Len(ns)) /\ ~Own(ts, ns[i])
    BY <2>3, <2>4, NodesIn
  <2>8. ~Own(ts, s)
    BY <1>7 DEF Own
  <2>9. CellsOf(ts, al, s) = {Foreign} /\ CellsOf(ts, al, ns[i]) = {Foreign}
    BY <1>5, <2>7, <2>8, CellsAre
  <2> QED
    BY <1>3, <1>4, <1>5, <2>2, <2>6, <2>9
<1>8. CASE b # NoTensor /\ b # Cache
  <2>1. ValueOf(ts, s) = b
    BY <1>8 DEF ValueOf
  <2>2. s # Input
    BY <1>1, <1>8, GraphDomain
  <2>3. PICK j \in 1..(q - 1) : ns[j] = s
    BY <1>3, <1>4, <2>2 DEF Before
  <2>4. j \in 1..Len(ns) /\ j - 1 <= q - 1 /\ \A i \in 1..(j - 1) : i \in 1..(q - 1)
    BY <1>1, <2>3
  <2>5. b \in Before(ns, j - 1)
    BY <1>8, <2>3, <2>4 DEF LaidOut, Apart
  <2>6. b \in Before(ns, q - 1)
    BY <2>4, <2>5 DEF Before
  <2>7. BaseOK(ts, s) /\ b \in DOMAIN ts /\ ts[b].view = NoTensor
    <3>1. BaseOK(ts, s)
      BY <1>1, <1>3, GraphDomain
    <3>2. b \in Before(ns, Len(ns))
      BY <2>6, NodesIn
    <3> QED
      BY <1>8, <3>1, <3>2, CellsAre DEF BaseOK
  <2>8. Own(ts, b) /\ Own(ts, s)
    BY <1>4, <1>8, <2>7 DEF Own, NoTensor, Cache
  <2>9. Needed(ts, ns, q, b)
    BY <1>3, <2>7, <2>8 DEF Needed
  <2>10. Alive(ts, ns, q, b)
    BY <1>8, <2>6, <2>9 DEF Alive
  <2>11. /\ al.data[b] <= al.data[s]
         /\ al.data[s] + ts[s].size <= al.data[b] + ts[b].size
    <3>1. al.view[s] = b
      BY <1>3, <1>8 DEF LaidOut, Sound, Based
    <3> QED
      BY <1>3, <1>5, <1>8, <2>8, <3>1 DEF LaidOut, Sound, Lies
  <2>12. b \in Before(ns, Len(ns))
    BY <2>6, NodesIn
  <2> HIDE DEF b
  <2>13. CellsOf(ts, al, s) \subseteq CellsOf(ts, al, b)
    BY <1>5, <2>8, <2>11, <2>12, CellsInside
  <2> QED
    BY <1>3, <1>4, <1>5, <2>1, <2>10, <2>13
<1> QED
  BY <1>6, <1>7, <1>8

(* The share of a source lies in it. *)
LEMMA SharedIn ==
    ASSUME NEW ts, NEW ns, NEW al, NEW sz, LaidOut(ts, ns, al, sz), NEW t \in Before(ns, Len(ns)),
           NEW n \in Nat, NEW ith, NEW nth, NEW c \in SharedCells(ts, al, t, n, ith, nth)
    PROVE  c \in CellsOf(ts, al, t)
<1>1. CASE ~Own(ts, t)
  <2>1. al.data[t] = Foreign /\ CellsOf(ts, al, t) = {Foreign}
    BY <1>1, CellsAre
  <2> QED
    BY <2>1 DEF SharedCells
<1>2. CASE Own(ts, t) /\ ts[t].size = n
  <2>1. /\ al.data[t] \in Nat /\ al.data[t] # Foreign
        /\ CellsOf(ts, al, t) = al.data[t]..(al.data[t] + ts[t].size - 1)
    BY <1>2, CellsAre
  <2>2. c \in {al.data[t] + r : r \in Share(n, ith, nth)}
    BY <1>2, <2>1 DEF SharedCells
  <2>3. PICK r \in Share(n, ith, nth) : c = al.data[t] + r
    BY <2>2
  <2>4. r \in Nat /\ r < n
    BY ShareIn
  <2> QED
    BY <1>2, <2>1, <2>3, <2>4
<1>3. CASE Own(ts, t) /\ ts[t].size # n
  <2>1. al.data[t] # Foreign
    BY <1>3, CellsAre
  <2> QED
    BY <1>3, <2>1 DEF SharedCells
<1> QED
  BY <1>1, <1>2, <1>3

(* A thread that is not done finds the sources of its share intact, and    *)
(* those of a matrix product as a whole.                                   *)
LEMMA SourceSafe ==
    ASSUME NEW ts, NEW ns, NEW al, NEW sz, LaidOut(ts, ns, al, sz), NEW q \in 1..Len(ns),
           NEW mem, NEW D \in SUBSET Int, NEW nth \in Nat \ {0}, Intact(ts, ns, al, mem, q, D, nth),
           NEW ith \in Int, ith \notin D,
           NEW k, ReadBy(ts, ns[q], k), NEW s, s = ts[ns[q]].src[k],
           NEW c, \/ c \in SharedCells(ts, al, s, ts[ns[q]].size, ith, nth)
                  \/ ts[ns[q]].op = "matmul" /\ c \in CellsOf(ts, al, s)
    PROVE  mem[c] = ValueOf(ts, s)
<1> DEFINE n == ns[q]
           v == ValueOf(ts, s)
<1>1. /\ s \in Before(ns, q - 1) /\ s \in Before(ns, Len(ns)) /\ s \in DOMAIN ts
      /\ s # Cache /\ ts[s].op # "copy" /\ Alive(ts, ns, q, v)
      /\ CellsOf(ts, al, s) \subseteq CellsOf(ts, al, v)
  BY SourceAlive
<1>2. /\ n \in Before(ns, Len(ns)) /\ n \in DOMAIN ts /\ GraphOK(ts)
      /\ ts[n].size \in Nat \ {0} /\ n # s
  BY <1>1, NodesIn, CellsAre DEF LaidOut
<1>3. c \in CellsOf(ts, al, s)
  BY <1>1, <1>2, SharedIn
<1>4. mem[c] = v \/ \E i \in D : c \in Written(ts, al, n, i, nth)
  BY <1>1, <1>3 DEF Intact
<1> HIDE DEF v
<1>5. ASSUME NEW i \in D, c \in Written(ts, al, n, i, nth)
      PROVE  FALSE
  <2>1. c \in CellsOf(ts, al, n) /\ ts[n].op # "view"
    BY <1>5, WrittenIn
  <2>2. CASE Own(ts, s)
    <3>1. Own(ts, n) /\ Overlap(ts, al, s, n)
      BY <1>1, <1>2, <1>3, <2>1, <2>2, CommonCell
    <3>2. ts[n].view = NoTensor
      BY <2>1, <3>1, NodesIn
    <3>3. ApartAt(ts, ns, al, q)
      BY <3>2 DEF LaidOut, Apart
    <3>4. CanInplace(ts[n].op) /\ al.data[s] = al.data[n] /\ ts[s].size = ts[n].size
      BY <2>2, <3>1, <3>3 DEF ApartAt, ReadBy
    <3>5. al.data[n] \in Nat /\ al.data[n] # Foreign
      BY <1>2, <3>1, CellsAre
    <3>6. c \in {al.data[n] + r : r \in Share(ts[n].size, ith, nth)}
      BY <3>4, <3>5 DEF SharedCells, CanInplace
    <3>7. c \in {al.data[n] + r : r \in Share(ts[n].size, i, nth)}
      BY <1>5, <2>1, <3>5 DEF Written, SharedCells
    <3>8. PICK r \in Share(ts[n].size, ith, nth) : c = al.data[n] + r
      BY <3>6
    <3>9. PICK r2 \in Share(ts[n].size, i, nth) : c = al.data[n] + r2
      BY <3>7
    <3>10. r \in Nat /\ r2 \in Nat
      BY <1>2, ShareIn
    <3>11. r = r2
      BY <3>5, <3>8, <3>9, <3>10, SMTT(30)
    <3>12. i \in Int
      OBVIOUS
    <3>13. ith = i
      BY <1>2, <3>8, <3>9, <3>11, <3>12, ShareApart
    <3> QED
      BY <3>13
  <2>3. CASE ~Own(ts, s)
    <3>1. ~Own(ts, n)
      BY <1>1, <1>2, <1>3, <2>1, <2>3, CommonCell
    <3>2. ts[n].op = "copy"
      BY <2>1, <3>1, NodesIn
    <3>3. ts[s].view = Cache
      BY <1>1, <2>3 DEF Own
    <3>4. PICK j \in 1..(q - 1) : ns[j] \in CopiesOf(ts) /\ CopiesOf(ts) = {ns[j]}
      BY <1>1, <3>3, CopyBefore
    <3>5. ns[j] # n
      <4>1. ns[j] \in Before(ns, q - 1)
        BY <3>4 DEF Before
      <4> QED
        BY <4>1, NodesIn
    <3> QED
      BY <1>2, <3>2, <3>4, <3>5 DEF CopiesOf
  <2> QED
    BY <2>2, <2>3
<1> QED
  BY <1>4, <1>5 DEF v

-----------------------------------------------------------------------------
(***************************************************************************)
(* The threads.  One that is done with the published node waits; the last  *)
(* one to arrive is alone until it publishes the next node.                *)
(***************************************************************************)
Waiting(i) == pc[i] = "spin" /\ at[i] = node_n
Busy(i) == pc[i] \in {"scan", "init", "inline", "reset", "publish"}
Apace == {i \in Thread : ~Waiting(i)}

\* Position q is the end or a node all threads share.
Parallel(q) == q \in 1..Len(nodes) => NTasks(nodes[q]) = NThreads /\ NThreads # 1

\* The work buffer holds what node q needs.
Filled(q) == q \in 1..Len(nodes) /\ HasInit(nodes[q]) => wdata = nodes[q]

Idle == phase # "compute" => /\ \A i \in Thread : pc[i] = "arrive" /\ at[i] = 0
                             /\ node_n = 0 /\ n_active = NThreads /\ wdata = NoTensor

ThreadTypes ==
    /\ n_active \in Int
    /\ pc \in [Thread -> {"arrive", "scan", "init", "inline", "reset", "publish",
                          "spin", "compute", "exit"}]
    /\ at \in [Thread -> Nat]
    /\ phase = "compute" => /\ node_n \in 0..(Len(nodes) + 1)
                            /\ \A i \in Thread : at[i] \in 0..(Len(nodes) + 1)
                            /\ wdata \in {nodes[q] : q \in 1..Len(nodes)} \cup {NoTensor}

\* Who shares a node knows it.
Together ==
    /\ Parallel(node_n)
    /\ \A i \in Thread :
          /\ pc[i] \in {"arrive", "compute", "exit"} => at[i] = node_n
          /\ pc[i] = "compute" => node_n \in 1..Len(nodes)
          /\ pc[i] \in {"arrive", "spin"} => at[i] <= Len(nodes)
          /\ pc[i] = "spin" => at[i] <= node_n
          /\ pc[i] = "exit" => node_n = Len(nodes) + 1

\* The one that goes on does so alone.
Alone ==
    \A i \in Thread : Busy(i) =>
       /\ \A j \in Thread \ {i} : Waiting(j)
       /\ n_active = IF pc[i] = "publish" THEN NThreads ELSE 0
       /\ node_n <= at[i]
       /\ pc[i] = "scan" => at[i] <= Len(nodes)
       /\ pc[i] # "scan" => node_n < at[i]
       /\ pc[i] \in {"init", "inline"} => at[i] <= Len(nodes)
       /\ pc[i] = "init" => HasInit(nodes[at[i]])
       /\ pc[i] \in {"reset", "publish"} => Parallel(at[i])
       /\ pc[i] \in {"inline", "reset", "publish"} => Filled(at[i])

Shared ==
    (\A i \in Thread : ~Busy(i)) => /\ n_active = Cardinality(Apace)
                                    /\ Filled(node_n)

ThreadInv ==
    /\ ThreadTypes
    /\ Idle
    /\ phase = "compute" => Together /\ Alone /\ Shared

(* The threads can be counted. *)
LEMMA ThreadsFinite ==
    ASSUME GraphAssumption
    PROVE  /\ IsFiniteSet(Thread) /\ Cardinality(Thread) = NThreads
           /\ \A S \in SUBSET Thread : IsFiniteSet(S) /\ Cardinality(S) \in 0..NThreads
           /\ NThreads \in Nat \ {0} /\ Thread \subseteq Nat
<1>1. NThreads \in Nat \ {0}
  BY DEF GraphAssumption
<1>2. IsFiniteSet(Thread) /\ Cardinality(Thread) = NThreads
  <2>1. 0 \in Int /\ NThreads - 1 \in Int
    BY <1>1
  <2>2. /\ IsFiniteSet(0..(NThreads - 1))
        /\ Cardinality(0..(NThreads - 1)) = IF 0 > NThreads - 1 THEN 0 ELSE (NThreads - 1) - 0 + 1
    BY <2>1, FS_Interval
  <2> QED
    BY <1>1, <2>2 DEF Thread
<1>3. \A S \in SUBSET Thread : IsFiniteSet(S) /\ Cardinality(S) <= Cardinality(Thread)
  BY <1>2, FS_Subset
<1>4. \A S \in SUBSET Thread : Cardinality(S) \in Nat
  BY <1>3, FS_CardinalityType
<1>5. \A S \in SUBSET Thread : IsFiniteSet(S) /\ Cardinality(S) \in 0..NThreads
  BY <1>1, <1>2, <1>3, <1>4
<1> QED
  BY <1>1, <1>2, <1>5 DEF Thread

(* At first nobody computes. *)
LEMMA InitThreads ==
    ASSUME GraphAssumption, Init
    PROVE  ThreadInv
BY DEF Init, ThreadInv, ThreadTypes, Idle, GraphAssumption, Thread

(* Until the computation starts the threads are as they were. *)
LEMMA IdleStays ==
    ASSUME ThreadInv, phase # "compute", phase' # "compute", UNCHANGED <<threads, wdata>>
    PROVE  ThreadInv'
BY DEF ThreadInv, ThreadTypes, Idle, threads

(* When the computation starts all threads are to arrive. *)
LEMMA StartThreads ==
    ASSUME GraphAssumption, GraphInv, ThreadInv, Start
    PROVE  ThreadInv'
<1>1. /\ phase = "place" /\ phase' = "compute"
      /\ UNCHANGED <<tensors, nodes, n_active, node_n, pc, at, wdata>>
  BY DEF Start, building, placing, threads
<1>2. Len(nodes) \in Nat
  BY <1>1, OrderIs DEF GraphInv
<1>3. /\ \A i \in Thread : pc[i] = "arrive" /\ at[i] = 0
      /\ node_n = 0 /\ n_active = NThreads /\ wdata = NoTensor
  BY <1>1 DEF ThreadInv, Idle
<1>4. ThreadTypes'
  BY <1>1, <1>2, <1>3 DEF ThreadInv, ThreadTypes
<1>5. Together'
  BY <1>1, <1>2, <1>3 DEF Together, Parallel
<1>6. Alone'
  BY <1>1, <1>3 DEF Alone, Busy
<1>7. Shared'
  <2>1. Apace' = Thread
    BY <1>1, <1>3 DEF Apace, Waiting
  <2>2. n_active' = Cardinality(Apace')
    BY <1>1, <1>3, <2>1, ThreadsFinite
  <2>3. Filled(node_n)'
    BY <1>1, <1>3 DEF Filled
  <2> QED
    BY <2>2, <2>3 DEF Shared
<1> QED
  BY <1>1, <1>4, <1>5, <1>6, <1>7 DEF ThreadInv, Idle

(* Nobody goes on alone while a thread is neither waiting nor going on. *)
LEMMA Quiet ==
    ASSUME ThreadInv, phase = "compute", NEW i \in Thread, ~Waiting(i), ~Busy(i)
    PROVE  /\ \A j \in Thread : ~Busy(j)
           /\ n_active = Cardinality(Apace) /\ Filled(node_n) /\ i \in Apace
<1>1. \A j \in Thread : ~Busy(j)
  BY DEF ThreadInv, Alone
<1> QED
  BY <1>1 DEF ThreadInv, Shared, Apace

(* A step of a thread leaves the graph alone, and only happens in a computation. *)
LEMMA ThreadFrame ==
    ASSUME GraphInv, ThreadInv, NEW i \in Thread, ThreadStep(i)
    PROVE  /\ phase = "compute" /\ phase' = "compute" /\ Len(nodes) \in Nat
           /\ UNCHANGED <<tensors, results, nodes, size, a, next>>
<1>1. UNCHANGED <<phase, building, placing>>
  BY ThreadSame
<1>2. phase = "compute"
  <2>1. CASE pc[i] = "arrive"
    BY <2>1 DEF ThreadStep, Arrive, Scan, InitNode, ComputeInline, ResetActive, PublishNode, Spin, Compute
  <2>2. CASE pc[i] # "arrive"
    BY <2>2 DEF ThreadInv, Idle
  <2> QED
    BY <2>1, <2>2
<1> QED
  BY <1>1, <1>2, OrderIs DEF GraphInv, building, placing

(* The last one to arrive finds all others waiting. *)
LEMMA ArriveThreads ==
    ASSUME GraphAssumption, GraphInv, ThreadInv, NEW i \in Thread, Arrive(i)
    PROVE  ThreadInv'
<1>1. /\ phase = "compute" /\ phase' = "compute" /\ Len(nodes) \in Nat
      /\ UNCHANGED <<tensors, nodes>>
  BY ThreadFrame DEF ThreadStep
<1>2. /\ pc[i] = "arrive" /\ n_active' = n_active - 1
      /\ pc' = [pc EXCEPT ![i] = IF n_active = 1 THEN "scan" ELSE "spin"]
      /\ UNCHANGED <<node_n, at, wdata>>
  BY DEF Arrive, Move, contents
<1>3. ~Waiting(i) /\ ~Busy(i)
  BY <1>2 DEF Waiting, Busy
<1>4. /\ \A j \in Thread : ~Busy(j)
      /\ n_active = Cardinality(Apace) /\ Filled(node_n) /\ i \in Apace
  BY <1>1, <1>3, Quiet
<1>5. ThreadTypes /\ Together
  BY <1>1 DEF ThreadInv
<1>6. /\ IsFiniteSet(Apace) /\ Cardinality(Apace) \in Nat
      /\ Cardinality(Apace \ {i}) = Cardinality(Apace) - 1 /\ IsFiniteSet(Apace \ {i})
  <2>1. IsFiniteSet(Apace)
    BY ThreadsFinite DEF Apace
  <2> QED
    BY <1>4, <2>1, FS_CardinalityType, FS_RemoveElement
<1>7. /\ \A j \in Thread \ {i} : pc'[j] = pc[j]
      /\ pc'[i] = IF n_active = 1 THEN "scan" ELSE "spin"
  BY <1>2, <1>5 DEF ThreadTypes
<1>8. ThreadTypes'
  BY <1>1, <1>2, <1>5 DEF ThreadTypes
<1>9. Together'
  <2>1. Parallel(node_n)'
    BY <1>1, <1>2, <1>5 DEF Together, Parallel, NTasks
  <2>2. node_n <= node_n
    BY <1>1, <1>5 DEF ThreadTypes
  <2> QED
    BY <1>1, <1>2, <1>5, <1>7, <2>1, <2>2 DEF Together
<1>10. CASE n_active = 1
  <2>1. Apace \ {i} = {}
    BY <1>4, <1>6, <1>10, FS_EmptySet
  <2>2. \A j \in Thread \ {i} : Waiting(j)
    BY <2>1 DEF Apace
  <2>3. \A j \in Thread \ {i} : Waiting(j)' /\ ~Busy(j)'
    BY <1>2, <1>4, <1>7, <2>2 DEF Waiting, Busy
  <2>4. pc'[i] = "scan" /\ at'[i] = node_n' /\ at'[i] <= Len(nodes') /\ n_active' = 0 /\ node_n' \in Int
    BY <1>1, <1>2, <1>5, <1>7, <1>10 DEF Together, ThreadTypes
  <2>5. Alone'
    BY <2>3, <2>4 DEF Alone
  <2>6. Shared'
    BY <2>4 DEF Shared, Busy
  <2> QED
    BY <1>1, <1>8, <1>9, <2>5, <2>6 DEF ThreadInv, Idle
<1>11. CASE n_active # 1
  <2>1. \A j \in Thread : ~Busy(j)'
    BY <1>4, <1>7, <1>11 DEF Busy
  <2>2. Alone'
    BY <2>1 DEF Alone
  <2>3. Waiting(i)'
    BY <1>2, <1>5, <1>7, <1>11 DEF Waiting, Together
  <2>4. \A j \in Thread \ {i} : Waiting(j)' <=> Waiting(j)
    BY <1>2, <1>7 DEF Waiting
  <2>5. Apace' = Apace \ {i}
    BY <2>3, <2>4 DEF Apace
  <2>6. n_active' = Cardinality(Apace')
    BY <1>2, <1>4, <1>6, <2>5
  <2>7. Filled(node_n)'
    BY <1>1, <1>2, <1>4 DEF Filled, HasInit
  <2>8. Shared'
    BY <2>6, <2>7 DEF Shared
  <2> QED
    BY <1>1, <1>8, <1>9, <2>2, <2>8 DEF ThreadInv, Idle
<1> QED
  BY <1>10, <1>11

(* The one that goes on alone goes on: what the others need stays. *)
GoesOn(i, l) ==
    /\ phase = "compute" /\ phase' = "compute" /\ Len(nodes) \in Nat
    /\ UNCHANGED <<tensors, nodes, node_n>>
    /\ Busy(i) /\ l \in {"scan", "init", "inline", "reset", "publish"}
    /\ pc' = [pc EXCEPT ![i] = l]
    /\ \A j \in Thread \ {i} : at'[j] = at[j]

(* While one goes on alone the others keep waiting. *)
LEMMA AloneStays ==
    ASSUME ThreadInv, NEW i \in Thread, NEW l, GoesOn(i, l)
    PROVE  /\ pc'[i] = l /\ Busy(i)'
           /\ \A j \in Thread \ {i} : Waiting(j)' /\ ~Busy(j)'
           /\ pc' \in [Thread -> {"arrive", "scan", "init", "inline", "reset", "publish",
                                  "spin", "compute", "exit"}]
           /\ Together' /\ Shared' /\ Idle'
<1>1. \A j \in Thread \ {i} : Waiting(j)
  BY DEF ThreadInv, Alone, GoesOn
<1>2. /\ \A j \in Thread \ {i} : pc'[j] = pc[j]
      /\ pc'[i] = l
      /\ pc' \in [Thread -> {"arrive", "scan", "init", "inline", "reset", "publish",
                             "spin", "compute", "exit"}]
  BY DEF ThreadInv, ThreadTypes, GoesOn
<1>3. Busy(i)'
  BY <1>2 DEF Busy, GoesOn
<1>4. \A j \in Thread \ {i} : Waiting(j)' /\ ~Busy(j)'
  BY <1>1, <1>2 DEF Waiting, Busy, GoesOn
<1>5. Together'
  <2>1. Parallel(node_n)'
    BY DEF ThreadInv, Together, Parallel, NTasks, GoesOn
  <2> QED
    BY <1>2, <2>1 DEF ThreadInv, Together, GoesOn
<1>6. Shared'
  BY <1>3 DEF Shared
<1>7. Idle'
  BY DEF Idle, GoesOn
<1> QED
  BY <1>2, <1>3, <1>4, <1>5, <1>6, <1>7

(* It looks for the next node, *)
LEMMA ScanThreads ==
    ASSUME GraphAssumption, GraphInv, ThreadInv, NEW i \in Thread, Scan(i)
    PROVE  ThreadInv'
<1> DEFINE q == at[i] + 1
           l == IF q > Len(nodes) THEN "reset"
                ELSE IF HasInit(nodes[q]) THEN "init"
                ELSE IF NTasks(nodes[q]) = 1 THEN "inline" ELSE "reset"
<1>1. /\ phase = "compute" /\ phase' = "compute" /\ Len(nodes) \in Nat
      /\ UNCHANGED <<tensors, nodes>>
  BY ThreadFrame DEF ThreadStep
<1>2. /\ pc[i] = "scan" /\ at' = [at EXCEPT ![i] = @ + 1]
      /\ UNCHANGED <<node_n, n_active, wdata>>
  BY DEF Scan, contents
<1>3. ThreadTypes /\ Together /\ Alone
  BY <1>1 DEF ThreadInv
<1>4. at'[i] = q /\ \A j \in Thread \ {i} : at'[j] = at[j]
  BY <1>2, <1>3 DEF ThreadTypes
<1>5. pc' = [pc EXCEPT ![i] = l]
  BY <1>4 DEF Scan, Move
<1>6. Busy(i)
  BY <1>2 DEF Busy
<1>7. /\ at[i] \in Nat /\ node_n \in Nat /\ node_n <= at[i] /\ at[i] <= Len(nodes)
      /\ n_active = 0
  BY <1>1, <1>2, <1>3, <1>6 DEF Alone, ThreadTypes
<1>8. q \in 1..(Len(nodes) + 1) /\ node_n < q
  BY <1>1, <1>7
<1> HIDE DEF q
<1>9. GoesOn(i, l)
  BY <1>1, <1>2, <1>4, <1>5, <1>6 DEF GoesOn
<1>10. /\ pc'[i] = l
       /\ \A j \in Thread \ {i} : Waiting(j)' /\ ~Busy(j)'
       /\ pc' \in [Thread -> {"arrive", "scan", "init", "inline", "reset", "publish",
                              "spin", "compute", "exit"}]
       /\ Together' /\ Shared' /\ Idle'
  BY <1>9, AloneStays
<1>11. ThreadTypes'
  <2>1. at' \in [Thread -> Nat]
    BY <1>2, <1>3 DEF ThreadTypes
  <2>2. \A j \in Thread : at'[j] \in 0..(Len(nodes) + 1)
    BY <1>1, <1>3, <1>4, <1>8 DEF ThreadTypes
  <2> QED
    BY <1>1, <1>2, <1>3, <1>10, <2>1, <2>2 DEF ThreadTypes
<1>12. l = "init" => q <= Len(nodes) /\ HasInit(nodes[q])
  BY <1>1, <1>8
<1>13. l = "inline" => q <= Len(nodes) /\ ~HasInit(nodes[q])
  BY <1>1, <1>8
<1>14. l = "reset" => q > Len(nodes) \/ (NTasks(nodes[q]) # 1 /\ ~HasInit(nodes[q]))
  OBVIOUS
<1>15. l \in {"init", "inline", "reset"}
  OBVIOUS
<1>16. \A t : NTasks(t) # 1 => NTasks(t) = NThreads /\ NThreads # 1
  BY DEF NTasks
<1>17. \A t : (HasInit(t)' <=> HasInit(t)) /\ NTasks(t)' = NTasks(t)
  BY <1>1 DEF HasInit, NTasks
<1> HIDE DEF l
<1>18. Alone'
  <2> SUFFICES ASSUME NEW j \in Thread, Busy(j)'
               PROVE  /\ \A k \in Thread \ {j} : Waiting(k)'
                      /\ n_active' = IF pc'[j] = "publish" THEN NThreads ELSE 0
                      /\ node_n' <= at'[j]
                      /\ pc'[j] = "scan" => at'[j] <= Len(nodes')
                      /\ pc'[j] # "scan" => node_n' < at'[j]
                      /\ pc'[j] \in {"init", "inline"} => at'[j] <= Len(nodes')
                      /\ pc'[j] = "init" => HasInit(nodes[at[j]])'
                      /\ pc'[j] \in {"reset", "publish"} => Parallel(at[j])'
                      /\ pc'[j] \in {"inline", "reset", "publish"} => Filled(at[j])'
    BY DEF Alone
  <2>1. j = i
    BY <1>10
  <2>2. pc'[j] = l /\ at'[j] = q
    BY <1>4, <1>10, <2>1
  <2>3. l = "init" => HasInit(nodes[at[j]])'
    BY <1>1, <1>12, <2>2 DEF HasInit
  <2>4. l = "reset" => Parallel(at[j])'
    BY <1>1, <1>8, <1>14, <1>16, <2>2 DEF Parallel, NTasks
  <2>5. l \in {"inline", "reset"} => Filled(at[j])'
    BY <1>1, <1>8, <1>13, <1>14, <2>2 DEF Filled, HasInit
  <2> QED
    BY <1>1, <1>2, <1>7, <1>8, <1>10, <1>12, <1>13, <1>15, <2>1, <2>2, <2>3, <2>4, <2>5
<1> QED
  BY <1>1, <1>10, <1>11, <1>18 DEF ThreadInv

(* fills the work buffer for it, *)
LEMMA InitNodeThreads ==
    ASSUME GraphAssumption, GraphInv, ThreadInv, NEW i \in Thread, InitNode(i)
    PROVE  ThreadInv'
<1> DEFINE q == at[i]
           l == IF NTasks(nodes[q]) = 1 THEN "inline" ELSE "reset"
<1>1. /\ phase = "compute" /\ phase' = "compute" /\ Len(nodes) \in Nat
      /\ UNCHANGED <<tensors, nodes>>
  BY ThreadFrame DEF ThreadStep
<1>2. /\ pc[i] = "init" /\ wdata' = nodes[q] /\ pc' = [pc EXCEPT ![i] = l]
      /\ UNCHANGED <<node_n, n_active, at>>
  BY DEF InitNode, Move, Node
<1>3. ThreadTypes /\ Alone
  BY <1>1 DEF ThreadInv
<1>4. Busy(i)
  BY <1>2 DEF Busy
<1>5. /\ q \in Nat /\ node_n \in Nat /\ node_n < q /\ q <= Len(nodes) /\ n_active = 0
  BY <1>1, <1>2, <1>3, <1>4 DEF Alone, ThreadTypes
<1>6. q \in 1..Len(nodes)
  BY <1>1, <1>5
<1>7. GoesOn(i, l)
  BY <1>1, <1>2, <1>4 DEF GoesOn
<1>8. /\ pc'[i] = l
      /\ \A j \in Thread \ {i} : Waiting(j)' /\ ~Busy(j)'
      /\ pc' \in [Thread -> {"arrive", "scan", "init", "inline", "reset", "publish",
                             "spin", "compute", "exit"}]
      /\ Together' /\ Shared' /\ Idle'
  BY <1>7, AloneStays
<1>9. ThreadTypes'
  BY <1>1, <1>2, <1>3, <1>6, <1>8 DEF ThreadTypes
<1>10. l \in {"inline", "reset"}
  OBVIOUS
<1>11. l = "reset" => NTasks(nodes[q]) = NThreads /\ NThreads # 1
  BY DEF NTasks
<1> HIDE DEF l
<1>12. l = "reset" => Parallel(at[i])'
  BY <1>1, <1>2, <1>11 DEF Parallel, NTasks
<1>13. Filled(at[i])'
  BY <1>1, <1>2 DEF Filled
<1>14. Alone'
  <2> SUFFICES ASSUME NEW j \in Thread, Busy(j)'
               PROVE  /\ \A k \in Thread \ {j} : Waiting(k)'
                      /\ n_active' = IF pc'[j] = "publish" THEN NThreads ELSE 0
                      /\ node_n' <= at'[j]
                      /\ pc'[j] = "scan" => at'[j] <= Len(nodes')
                      /\ pc'[j] # "scan" => node_n' < at'[j]
                      /\ pc'[j] \in {"init", "inline"} => at'[j] <= Len(nodes')
                      /\ pc'[j] = "init" => HasInit(nodes[at[j]])'
                      /\ pc'[j] \in {"reset", "publish"} => Parallel(at[j])'
                      /\ pc'[j] \in {"inline", "reset", "publish"} => Filled(at[j])'
    BY DEF Alone
  <2>1. j = i
    BY <1>8
  <2> QED
    BY <1>1, <1>2, <1>5, <1>8, <1>10, <1>12, <1>13, <2>1
<1> QED
  BY <1>1, <1>8, <1>9, <1>14 DEF ThreadInv

(* computes a node for one task itself, *)
LEMMA InlineThreads ==
    ASSUME GraphAssumption, GraphInv, ThreadInv, NEW i \in Thread, ComputeInline(i)
    PROVE  ThreadInv'
<1>1. /\ phase = "compute" /\ phase' = "compute" /\ Len(nodes) \in Nat
      /\ UNCHANGED <<tensors, nodes>>
  BY ThreadFrame DEF ThreadStep
<1>2. /\ pc[i] = "inline" /\ pc' = [pc EXCEPT ![i] = "scan"]
      /\ UNCHANGED <<node_n, n_active, at, wdata>>
  BY DEF ComputeInline, Move
<1>3. ThreadTypes /\ Alone
  BY <1>1 DEF ThreadInv
<1>4. Busy(i)
  BY <1>2 DEF Busy
<1>5. /\ at[i] \in Nat /\ node_n \in Nat /\ node_n < at[i] /\ at[i] <= Len(nodes) /\ n_active = 0
  BY <1>1, <1>2, <1>3, <1>4 DEF Alone, ThreadTypes
<1>6. GoesOn(i, "scan")
  BY <1>1, <1>2, <1>4 DEF GoesOn
<1>7. /\ pc'[i] = "scan"
      /\ \A j \in Thread \ {i} : Waiting(j)' /\ ~Busy(j)'
      /\ pc' \in [Thread -> {"arrive", "scan", "init", "inline", "reset", "publish",
                             "spin", "compute", "exit"}]
      /\ Together' /\ Shared' /\ Idle'
  BY <1>6, AloneStays
<1>8. ThreadTypes'
  BY <1>1, <1>2, <1>3, <1>7 DEF ThreadTypes
<1>9. Alone'
  <2> SUFFICES ASSUME NEW j \in Thread, Busy(j)'
               PROVE  /\ \A k \in Thread \ {j} : Waiting(k)'
                      /\ n_active' = 0 /\ pc'[j] = "scan"
                      /\ node_n' <= at'[j] /\ at'[j] <= Len(nodes')
    BY DEF Alone
  <2>1. j = i
    BY <1>7
  <2> QED
    BY <1>1, <1>2, <1>5, <1>7, <2>1
<1> QED
  BY <1>1, <1>7, <1>8, <1>9 DEF ThreadInv

(* and resets the counter for the threads it will wake. *)
LEMMA ResetThreads ==
    ASSUME GraphAssumption, GraphInv, ThreadInv, NEW i \in Thread, ResetActive(i)
    PROVE  ThreadInv'
<1>1. /\ phase = "compute" /\ phase' = "compute" /\ Len(nodes) \in Nat
      /\ UNCHANGED <<tensors, nodes>>
  BY ThreadFrame DEF ThreadStep
<1>2. /\ pc[i] = "reset" /\ pc' = [pc EXCEPT ![i] = "publish"] /\ n_active' = NThreads
      /\ UNCHANGED <<node_n, at, wdata>>
  BY DEF ResetActive, Move, contents
<1>3. ThreadTypes /\ Alone
  BY <1>1 DEF ThreadInv
<1>4. Busy(i)
  BY <1>2 DEF Busy
<1>5. /\ at[i] \in Nat /\ node_n \in Nat /\ node_n < at[i]
      /\ Parallel(at[i]) /\ Filled(at[i])
  BY <1>1, <1>2, <1>3, <1>4 DEF Alone, ThreadTypes
<1>6. GoesOn(i, "publish")
  BY <1>1, <1>2, <1>4 DEF GoesOn
<1>7. /\ pc'[i] = "publish"
      /\ \A j \in Thread \ {i} : Waiting(j)' /\ ~Busy(j)'
      /\ pc' \in [Thread -> {"arrive", "scan", "init", "inline", "reset", "publish",
                             "spin", "compute", "exit"}]
      /\ Together' /\ Shared' /\ Idle'
  BY <1>6, AloneStays
<1>8. ThreadTypes'
  BY <1>1, <1>2, <1>3, <1>7 DEF ThreadTypes, GraphAssumption
<1>9. Parallel(at[i])' /\ Filled(at[i])'
  BY <1>1, <1>2, <1>5 DEF Parallel, Filled, NTasks, HasInit
<1>10. Alone'
  <2> SUFFICES ASSUME NEW j \in Thread, Busy(j)'
               PROVE  /\ \A k \in Thread \ {j} : Waiting(k)'
                      /\ n_active' = NThreads /\ pc'[j] = "publish"
                      /\ node_n' <= at'[j] /\ node_n' < at'[j]
                      /\ Parallel(at[j])' /\ Filled(at[j])'
    BY DEF Alone
  <2>1. j = i
    BY <1>7
  <2> QED
    BY <1>1, <1>2, <1>5, <1>7, <1>9, <2>1
<1> QED
  BY <1>1, <1>7, <1>8, <1>10 DEF ThreadInv

(* The node is published: everybody leaves. *)
LEMMA PublishThreads ==
    ASSUME GraphAssumption, GraphInv, ThreadInv, NEW i \in Thread, PublishNode(i)
    PROVE  ThreadInv'
<1> DEFINE q == at[i]
           l == IF q > Len(nodes) THEN "exit" ELSE "compute"
<1>1. /\ phase = "compute" /\ phase' = "compute" /\ Len(nodes) \in Nat
      /\ UNCHANGED <<tensors, nodes>>
  BY ThreadFrame DEF ThreadStep
<1>2. /\ pc[i] = "publish" /\ pc' = [pc EXCEPT ![i] = l] /\ node_n' = q
      /\ UNCHANGED <<n_active, at, wdata>>
  BY DEF PublishNode, Enter, Move, contents
<1>3. ThreadTypes /\ Together /\ Alone
  BY <1>1 DEF ThreadInv
<1>4. Busy(i)
  BY <1>2 DEF Busy
<1>5. /\ q \in 0..(Len(nodes) + 1) /\ node_n \in Nat /\ node_n < q
      /\ Parallel(q) /\ Filled(q) /\ n_active = NThreads
  BY <1>1, <1>2, <1>3, <1>4 DEF Alone, ThreadTypes
<1>6. \A j \in Thread \ {i} : Waiting(j)
  BY <1>3, <1>4 DEF Alone
<1>7. pc'[i] = l /\ \A j \in Thread \ {i} : pc'[j] = pc[j]
  BY <1>2, <1>3 DEF ThreadTypes
<1>8. ThreadTypes'
  BY <1>1, <1>2, <1>3, <1>5 DEF ThreadTypes
<1>9. \A j \in Thread : ~Busy(j)' /\ ~Waiting(j)'
  BY <1>2, <1>5, <1>6, <1>7 DEF Busy, Waiting
<1>10. Parallel(node_n)' /\ Filled(node_n)'
  BY <1>1, <1>2, <1>5 DEF Parallel, Filled, NTasks, HasInit
<1>11. Together'
  <2> SUFFICES ASSUME NEW j \in Thread
               PROVE  /\ pc'[j] \in {"arrive", "compute", "exit"} => at'[j] = node_n'
                      /\ pc'[j] = "compute" => node_n' \in 1..Len(nodes')
                      /\ pc'[j] \in {"arrive", "spin"} => at'[j] <= Len(nodes')
                      /\ pc'[j] = "spin" => at'[j] <= node_n'
                      /\ pc'[j] = "exit" => node_n' = Len(nodes') + 1
    BY <1>10 DEF Together
  <2>1. CASE j = i
    <3>1. l = "compute" => q \in 1..Len(nodes)
      BY <1>1, <1>5
    <3>2. l = "exit" => q = Len(nodes) + 1
      BY <1>1, <1>5
    <3> QED
      BY <1>1, <1>2, <1>7, <2>1, <3>1, <3>2
  <2>2. CASE j # i
    <3>1. pc'[j] = "spin" /\ at'[j] <= Len(nodes) /\ at'[j] <= node_n'
      BY <1>2, <1>3, <1>5, <1>6, <1>7, <2>2 DEF Waiting, Together
    <3> QED
      BY <1>1, <3>1
  <2> QED
    BY <2>1, <2>2
<1>12. Alone'
  BY <1>9 DEF Alone
<1>13. Shared'
  <2>1. Apace' = Thread
    BY <1>9 DEF Apace
  <2>2. n_active' = Cardinality(Apace')
    BY <1>2, <1>5, <2>1, ThreadsFinite
  <2> QED
    BY <1>10, <2>2 DEF Shared
<1> QED
  BY <1>1, <1>8, <1>11, <1>12, <1>13 DEF ThreadInv, Idle

(* A thread that waited sees the node. *)
LEMMA SpinThreads ==
    ASSUME GraphAssumption, GraphInv, ThreadInv, NEW i \in Thread, Spin(i)
    PROVE  ThreadInv'
<1> DEFINE l == IF node_n > Len(nodes) THEN "exit" ELSE "compute"
<1>1. /\ phase = "compute" /\ phase' = "compute" /\ Len(nodes) \in Nat
      /\ UNCHANGED <<tensors, nodes>>
  BY ThreadFrame DEF ThreadStep
<1>2. /\ pc[i] = "spin" /\ node_n # at[i] /\ at' = [at EXCEPT ![i] = node_n]
      /\ pc' = [pc EXCEPT ![i] = l]
      /\ UNCHANGED <<n_active, node_n, wdata>>
  BY DEF Spin, Enter, Move, contents
<1>3. ThreadTypes /\ Together
  BY <1>1 DEF ThreadInv
<1>4. ~Waiting(i) /\ ~Busy(i)
  BY <1>2 DEF Waiting, Busy
<1>5. /\ \A j \in Thread : ~Busy(j)
      /\ n_active = Cardinality(Apace) /\ Filled(node_n) /\ i \in Apace
  BY <1>1, <1>4, Quiet
<1>6. node_n \in 1..(Len(nodes) + 1)
  <2>1. at[i] \in Nat /\ node_n \in 0..(Len(nodes) + 1) /\ at[i] <= node_n
    BY <1>1, <1>2, <1>3 DEF ThreadTypes, Together
  <2> QED
    BY <1>1, <1>2, <2>1
<1>7. /\ pc'[i] = l /\ at'[i] = node_n
      /\ \A j \in Thread \ {i} : pc'[j] = pc[j] /\ at'[j] = at[j]
  BY <1>2, <1>3 DEF ThreadTypes
<1>8. ThreadTypes'
  <2>1. at' \in [Thread -> Nat]
    BY <1>1, <1>2, <1>3, <1>6 DEF ThreadTypes
  <2>2. \A j \in Thread : at'[j] \in 0..(Len(nodes) + 1)
    BY <1>1, <1>3, <1>6, <1>7 DEF ThreadTypes
  <2> QED
    BY <1>1, <1>2, <1>3, <2>1, <2>2 DEF ThreadTypes
<1>9. \A j \in Thread : ~Busy(j)'
  BY <1>5, <1>7 DEF Busy
<1>10. ~Waiting(i)'
  BY <1>7 DEF Waiting
<1>11. \A j \in Thread \ {i} : Waiting(j)' <=> Waiting(j)
  BY <1>2, <1>7 DEF Waiting
<1>12. Together'
  <2>1. Parallel(node_n)'
    BY <1>1, <1>2, <1>3 DEF Together, Parallel, NTasks
  <2>2. l = "compute" => node_n \in 1..Len(nodes)
    BY <1>1, <1>6
  <2>3. l = "exit" => node_n = Len(nodes) + 1
    BY <1>1, <1>6
  <2>4. l \in {"exit", "compute"}
    OBVIOUS
  <2> HIDE DEF l
  <2> QED
    BY <1>1, <1>2, <1>3, <1>7, <2>1, <2>2, <2>3, <2>4 DEF Together
<1>13. Alone'
  BY <1>9 DEF Alone
<1>14. Shared'
  <2>1. Apace' = Apace
    BY <1>5, <1>10, <1>11 DEF Apace
  <2>2. Filled(node_n)'
    BY <1>1, <1>2, <1>5 DEF Filled, HasInit
  <2> QED
    BY <1>2, <1>5, <2>1, <2>2 DEF Shared
<1> QED
  BY <1>1, <1>8, <1>12, <1>13, <1>14 DEF ThreadInv, Idle

(* A thread that did its share has not arrived yet. *)
LEMMA ComputeThreads ==
    ASSUME GraphAssumption, GraphInv, ThreadInv, NEW i \in Thread, Compute(i)
    PROVE  ThreadInv'
<1>1. /\ phase = "compute" /\ phase' = "compute" /\ Len(nodes) \in Nat
      /\ UNCHANGED <<tensors, nodes>>
  BY ThreadFrame DEF ThreadStep
<1>2. /\ pc[i] = "compute" /\ pc' = [pc EXCEPT ![i] = "arrive"]
      /\ UNCHANGED <<n_active, node_n, at, wdata>>
  BY DEF Compute, Move
<1>3. ThreadTypes /\ Together
  BY <1>1 DEF ThreadInv
<1>4. ~Waiting(i) /\ ~Busy(i)
  BY <1>2 DEF Waiting, Busy
<1>5. /\ \A j \in Thread : ~Busy(j)
      /\ n_active = Cardinality(Apace) /\ Filled(node_n) /\ i \in Apace
  BY <1>1, <1>4, Quiet
<1>6. pc'[i] = "arrive" /\ \A j \in Thread \ {i} : pc'[j] = pc[j]
  BY <1>2, <1>3 DEF ThreadTypes
<1>7. ThreadTypes'
  BY <1>1, <1>2, <1>3 DEF ThreadTypes
<1>8. \A j \in Thread : ~Busy(j)'
  BY <1>5, <1>6 DEF Busy
<1>9. \A j \in Thread : Waiting(j)' <=> Waiting(j)
  BY <1>2, <1>4, <1>6 DEF Waiting
<1>10. Together'
  <2>1. Parallel(node_n)'
    BY <1>1, <1>2, <1>3 DEF Together, Parallel, NTasks
  <2>2. at[i] = node_n /\ node_n \in 1..Len(nodes)
    BY <1>2, <1>3 DEF Together
  <2>3. at'[i] <= Len(nodes')
    BY <1>1, <1>2, <2>2
  <2> QED
    BY <1>1, <1>2, <1>3, <1>6, <2>1, <2>2, <2>3 DEF Together
<1>11. Alone'
  BY <1>8 DEF Alone
<1>12. Shared'
  <2>1. Apace' = Apace
    BY <1>9 DEF Apace
  <2>2. Filled(node_n)'
    BY <1>1, <1>2, <1>5 DEF Filled, HasInit
  <2> QED
    BY <1>2, <1>5, <2>1, <2>2 DEF Shared
<1> QED
  BY <1>1, <1>7, <1>10, <1>11, <1>12 DEF ThreadInv, Idle

(* Every step keeps the invariant of the threads. *)
LEMMA StepThreads ==
    ASSUME GraphAssumption, GraphInv, ThreadInv, [Next]_vars
    PROVE  ThreadInv'
<1>1. CASE UNCHANGED vars
  BY <1>1 DEF vars, ThreadInv, ThreadTypes, Idle, Together, Alone, Shared, Parallel, Filled,
              Waiting, Busy, Apace, NTasks, HasInit
<1>2. CASE BuildStep
  <2>1. phase = "build" /\ phase' = "build" /\ UNCHANGED <<threads, wdata>>
    BY <1>2, BuildStepAdds DEF GraphInv, Added, BuildStep, MatMul, Add, Scale, View, Copy, Make, contents
  <2> QED
    BY <2>1, IdleStays
<1>3. CASE Build
  <2>1. phase = "build" /\ phase' = "place" /\ UNCHANGED <<threads, wdata>>
    BY <1>3 DEF Build, contents
  <2> QED
    BY <2>1, IdleStays
<1>4. CASE Place
  <2>1. phase = "place" /\ phase' = "place" /\ UNCHANGED <<threads, wdata>>
    BY <1>4 DEF Place, contents
  <2> QED
    BY <2>1, IdleStays
<1>5. ASSUME NEW i \in Thread, ThreadStep(i)
      PROVE  ThreadInv'
  BY <1>5, ArriveThreads, ScanThreads, InitNodeThreads, InlineThreads, ResetThreads, PublishThreads,
     SpinThreads, ComputeThreads DEF ThreadStep
<1> QED
  BY <1>1, <1>2, <1>3, <1>4, <1>5, StartThreads DEF Next

(* The threads meet after every node they share. *)
THEOREM ThreadsKept == Spec => [](GraphInv /\ ThreadInv)
<1>1. Init => GraphInv /\ ThreadInv
  BY InitGraph, InitThreads, GraphAssumption
<1>2. GraphInv /\ ThreadInv /\ [Next]_vars => (GraphInv /\ ThreadInv)'
  BY StepGraph, StepThreads, GraphAssumption
<1> QED
  BY <1>1, <1>2, PTL DEF Spec

(* The invariants say more than the types. *)
LEMMA TypesFollow ==
    ASSUME GraphAssumption, GraphInv, ThreadInv
    PROVE  TypeOK
<1>1. GraphOK(tensors) /\ phase \in {"build", "place", "compute"}
  BY DEF GraphInv
<1>2. ASSUME NEW t \in DOMAIN tensors
      PROVE  /\ tensors[t].op \in {"none", "matmul", "add", "scale", "view", "copy"}
             /\ tensors[t].view \in 0..(t - 1)
             /\ tensors[t].view # NoTensor => tensors[tensors[t].view].view = NoTensor
  <2>1. tensors[t].op \in Ops
    BY <1>1 DEF GraphOK
  <2>2. BaseOK(tensors, t) /\ t \in Nat \ {0}
    BY <1>1, GraphDomain
  <2> QED
    BY <2>1, <2>2 DEF BaseOK, Ops, NoTensor
<1>3. /\ Len(nodes) \in Nat /\ DOMAIN nodes = 1..Len(nodes)
      /\ \A q \in 1..Len(nodes) : nodes[q] \in DOMAIN tensors
      /\ next \in 1..(Len(nodes) + 1)
  <2>1. CASE phase = "build"
    <3>1. nodes = <<>> /\ next = 1
      BY <2>1 DEF GraphInv
    <3>2. Len(<<>>) = 0 /\ DOMAIN <<>> = 1..0
      OBVIOUS
    <3> QED
      BY <3>1, <3>2
  <2>2. CASE phase # "build"
    BY <1>1, <2>2, OrderIs DEF GraphInv
  <2> QED
    BY <2>1, <2>2
<1>4. ToSet(nodes) = {nodes[q] : q \in 1..Len(nodes)}
  BY <1>3 DEF ToSet
<1>5. ASSUME NEW t \in DOMAIN tensors, phase # "build"
      PROVE  a.children[t] >= 0 /\ a.views[t] >= 0
  <2>1. PICK P \in SUBSET DOMAIN tensors : Sound(tensors, a, P, size)
    BY <1>5, GraphSound
  <2>2. a \in Allocation(tensors) /\ Viewed(tensors, a)
    BY <2>1 DEF Sound
  <2>3. a.views[t] \in Nat /\ a.children[t] \in Nat
    BY <1>1, <2>2, GraphShape, ActiveCounts
  <2> QED
    BY <2>3
<1>6. NThreads \in Nat \ {0} /\ 0 \in Thread
  BY DEF GraphAssumption, Thread
<1>7. n_active \in 0..NThreads
  <2>1. CASE phase # "compute"
    BY <1>6, <2>1 DEF ThreadInv, Idle
  <2>2. CASE phase = "compute" /\ \E i \in Thread : Busy(i)
    BY <1>6, <2>2 DEF ThreadInv, Alone
  <2>3. CASE phase = "compute" /\ \A i \in Thread : ~Busy(i)
    <3>1. n_active = Cardinality(Apace)
      BY <2>3 DEF ThreadInv, Shared
    <3>2. Apace \in SUBSET Thread
      BY DEF Apace
    <3> QED
      BY <3>1, <3>2, ThreadsFinite
  <2> QED
    BY <2>1, <2>2, <2>3
<1>8. /\ node_n \in 0..(Len(nodes) + 1)
      /\ \A i \in Thread : at[i] \in 0..(Len(nodes) + 1)
      /\ wdata \in ToSet(nodes) \cup {NoTensor}
  <2>1. CASE phase # "compute"
    BY <1>3, <2>1 DEF ThreadInv, Idle
  <2>2. CASE phase = "compute"
    BY <1>4, <2>2 DEF ThreadInv, ThreadTypes
  <2> QED
    BY <2>1, <2>2
<1>9. at \in [Thread -> 0..(Len(nodes) + 1)]
  BY <1>8 DEF ThreadInv, ThreadTypes
<1>10. pc \in [Thread -> {"arrive", "scan", "init", "inline", "reset", "publish",
                          "spin", "compute", "exit"}]
  BY DEF ThreadInv, ThreadTypes
<1>11. ToSet(nodes) \subseteq DOMAIN tensors
  BY <1>3, <1>4
<1>12. \A t \in DOMAIN tensors : phase # "build" => a.children[t] >= 0 /\ a.views[t] >= 0
  BY <1>5
<1> QED
  BY <1>1, <1>2, <1>3, <1>7, <1>8, <1>9, <1>10, <1>11, <1>12 DEF TypeOK

(* Every variable keeps its type, the graph is well-formed, no count of    *)
(* readers or views goes below zero and n_active stays within the threads. *)
THEOREM TypeCorrect == Spec => []TypeOK
<1>1. GraphInv /\ ThreadInv => TypeOK
  BY TypesFollow, GraphAssumption
<1> QED
  BY <1>1, ThreadsKept, PTL

-----------------------------------------------------------------------------
(***************************************************************************)
(* Memory while the threads compute.                                       *)
(***************************************************************************)
Done == {i \in Thread : pc[i] = "arrive" \/ Waiting(i)}

\* The nodes before this one are computed when thread i goes on alone.
Reach(i) == IF pc[i] = "scan" THEN at[i] + 1 ELSE at[i]

MemoryInv ==
    phase = "compute" =>
       /\ DOMAIN memory = 0..(size - 1) \cup {Foreign}
       /\ \A i \in Thread : Busy(i) => Whole(tensors, nodes, a, memory, Reach(i))
       /\ (\A i \in Thread : ~Busy(i)) =>
             /\ node_n = 0 => Whole(tensors, nodes, a, memory, 1)
             /\ node_n \in 1..Len(nodes) =>
                   Intact(tensors, nodes, a, memory, node_n, Done, NThreads)

(* All nodes are placed: in a computation, and when it starts. *)
LEMMA LaidAll ==
    ASSUME GraphInv, phase # "build", ~a.failed, next > Len(nodes)
    PROVE  /\ LaidOut(tensors, nodes, a, size) /\ a.data[Input] = 0
           /\ Len(nodes) \in Nat
<1>1. /\ GraphOK(tensors) /\ OrderOK(tensors, nodes) /\ size \in Nat /\ Laid
      /\ next \in 1..(Len(nodes) + 1)
  BY DEF GraphInv, NoRoom
<1>2. Len(nodes) \in Nat
  BY <1>1, OrderIs
<1>3. next - 1 = Len(nodes)
  BY <1>1, <1>2
<1> QED
  BY <1>1, <1>2, <1>3 DEF Laid, PlaceInv, LaidOut

(* In a computation all nodes are placed. *)
LEMMA LaidCompute ==
    ASSUME GraphInv, phase = "compute"
    PROVE  /\ LaidOut(tensors, nodes, a, size) /\ a.data[Input] = 0
           /\ Len(nodes) \in Nat
<1>1. Laid /\ next = Len(nodes) + 1 /\ OrderOK(tensors, nodes)
  BY DEF GraphInv, NoRoom
<1>2. ~a.failed
  BY <1>1 DEF Laid, PlaceInv
<1>3. next > Len(nodes)
  BY <1>1, OrderIs
<1> QED
  BY <1>2, <1>3, LaidAll

(* At the start the input is there. *)
LEMMA StartMemory ==
    ASSUME GraphAssumption, GraphInv, ThreadInv, Start
    PROVE  MemoryInv'
<1> DEFINE cells == (0..(size - 1)) \cup {Foreign}
<1>1. /\ phase = "place" /\ phase' = "compute" /\ UNCHANGED <<tensors, nodes, size, a, pc, at, node_n>>
      /\ memory' = [c \in cells |-> CASE c = Foreign -> Cache
                                      [] c \in 0..(InputSize - 1) -> Input
                                      [] OTHER -> NoTensor]
  BY DEF Start, building, placing, threads
<1>4. LaidOut(tensors, nodes, a, size) /\ a.data[Input] = 0 /\ Len(nodes) \in Nat
  BY <1>1, LaidAll DEF Start
<1>5. \A i \in Thread : pc[i] = "arrive" /\ node_n = 0
  BY <1>1 DEF ThreadInv, Idle
<1>6. \A i \in Thread : ~Busy(i)'
  BY <1>1, <1>5 DEF Busy
<1>7. Whole(tensors, nodes, a, memory', 1)
  <2> SUFFICES ASSUME NEW v, Alive(tensors, nodes, 1, v), NEW c \in CellsOf(tensors, a, v)
               PROVE  memory'[c] = v
    BY DEF Whole
  <2>1. v = Input
    BY DEF Alive, Before
  <2>2. Input \in Before(nodes, Len(nodes)) /\ Own(tensors, Input) /\ tensors[Input].size = InputSize
    <3>1. GraphOK(tensors)
      BY <1>4 DEF LaidOut
    <3>2. tensors[Input].view = NoTensor /\ tensors[Input].size = InputSize
      BY <3>1 DEF GraphOK, Leaf
    <3> QED
      BY <3>2 DEF Before, Own, Input, Cache, NoTensor
  <2>3. CellsOf(tensors, a, Input) = 0..(0 + InputSize - 1) /\ CellsOf(tensors, a, Input) \subseteq cells
    BY <1>4, <2>2, CellsAre
  <2>4. c \in 0..(InputSize - 1) /\ c \in cells /\ c # Foreign
    BY <2>1, <2>3 DEF GraphAssumption, Foreign
  <2>5. memory'[c] = CASE c = Foreign -> Cache
                       [] c \in 0..(InputSize - 1) -> Input
                       [] OTHER -> NoTensor
    BY <1>1, <2>4
  <2> QED
    BY <2>1, <2>4, <2>5
<1>8. DOMAIN memory' = cells
  BY <1>1
<1>9. node_n' = 0
  BY <1>1 DEF ThreadInv, Idle
<1>10. Whole(tensors', nodes', a', memory', 1)
  BY <1>1, <1>7
<1> QED
  BY <1>1, <1>6, <1>8, <1>9, <1>10 DEF MemoryInv

(* What a task writes, in terms of the graph and the allocation. *)
LEMMA WritesAre ==
    \A t, ith, nth : Writes(t, ith, nth) = Written(tensors, a, t, ith, nth)
<1>1. \A t, n, ith, nth : ShareOf(t, n, ith, nth) = SharedCells(tensors, a, t, n, ith, nth)
  BY DEF ShareOf, SharedCells, Cells, CellsOf
<1> QED
  BY <1>1 DEF Writes, Written

\* A thread that goes on alone reached q, and nobody else wrote.
Moved(i, q) ==
    /\ phase = "compute" /\ phase' = "compute"
    /\ UNCHANGED <<tensors, nodes, size, a>>
    /\ DOMAIN memory' = DOMAIN memory
    /\ Busy(i)' /\ (\A j \in Thread \ {i} : ~Busy(j)')
    /\ Reach(i)' = q /\ Whole(tensors, nodes, a, memory', q)

(* Such a step keeps the invariant of the memory. *)
LEMMA MovedMemory ==
    ASSUME MemoryInv, NEW i \in Thread, NEW q, Moved(i, q)
    PROVE  MemoryInv'
<1>1. DOMAIN memory' = 0..(size' - 1) \cup {Foreign}
  BY DEF MemoryInv, Moved
<1>2. \A j \in Thread : Busy(j)' => Whole(tensors', nodes', a', memory', Reach(j)')
  BY DEF Moved
<1> QED
  BY <1>1, <1>2 DEF MemoryInv, Moved

(* The steps of the one that goes on alone. *)
LEMMA AloneMemory ==
    ASSUME GraphAssumption, GraphInv, ThreadInv, MemoryInv, NEW i \in Thread,
           Scan(i) \/ InitNode(i) \/ ComputeInline(i) \/ ResetActive(i)
    PROVE  MemoryInv'
<1>1. /\ phase = "compute" /\ phase' = "compute" /\ Len(nodes) \in Nat
      /\ UNCHANGED <<tensors, nodes, size, a>>
  BY ThreadFrame DEF ThreadStep
<1>2. Busy(i) /\ UNCHANGED node_n
  BY DEF Busy, Scan, InitNode, ComputeInline, ResetActive
<1>3. ThreadTypes /\ Alone /\ \A j \in Thread \ {i} : Waiting(j)
  BY <1>1, <1>2 DEF ThreadInv, Alone
<1>4. Whole(tensors, nodes, a, memory, Reach(i))
  BY <1>1, <1>2 DEF MemoryInv
<1>5. at[i] \in Nat
  BY <1>3 DEF ThreadTypes
<1>6. \A l : pc' = [pc EXCEPT ![i] = l] =>
         pc'[i] = l /\ \A j \in Thread \ {i} : pc'[j] = pc[j] /\ ~Busy(j)'
  BY <1>3 DEF ThreadTypes, Waiting, Busy
<1>7. CASE Scan(i)
  <2>1. pc[i] = "scan" /\ at' = [at EXCEPT ![i] = @ + 1] /\ memory' = memory
    BY <1>7 DEF Scan, contents
  <2>2. at'[i] = at[i] + 1
    BY <1>3, <2>1 DEF ThreadTypes
  <2>3. PICK l \in {"init", "inline", "reset"} : pc' = [pc EXCEPT ![i] = l]
    BY <1>7 DEF Scan, Move
  <2>4. pc'[i] = l /\ \A j \in Thread \ {i} : ~Busy(j)'
    BY <1>6, <2>3
  <2>5. Reach(i)' = at[i] + 1 /\ Busy(i)'
    BY <2>2, <2>4 DEF Reach, Busy
  <2>6. Reach(i) = at[i] + 1
    BY <2>1 DEF Reach
  <2>7. Moved(i, at[i] + 1)
    BY <1>1, <1>4, <2>1, <2>4, <2>5, <2>6 DEF Moved
  <2> QED
    BY <2>7, MovedMemory
<1>8. CASE InitNode(i) \/ ResetActive(i)
  <2>1. pc[i] \in {"init", "reset"} /\ at' = at /\ memory' = memory
    BY <1>8 DEF InitNode, ResetActive, contents
  <2>2. PICK l \in {"inline", "reset", "publish"} : pc' = [pc EXCEPT ![i] = l]
    BY <1>8 DEF InitNode, ResetActive, Move
  <2>3. pc'[i] = l /\ \A j \in Thread \ {i} : ~Busy(j)'
    BY <1>6, <2>2
  <2>4. Reach(i)' = at[i] /\ Busy(i)' /\ Reach(i) = at[i]
    BY <2>1, <2>3 DEF Reach, Busy
  <2>5. Moved(i, at[i])
    BY <1>1, <1>4, <2>1, <2>3, <2>4 DEF Moved
  <2> QED
    BY <2>5, MovedMemory
<1>9. CASE ComputeInline(i)
  <2> DEFINE q == at[i]
  <2>1. /\ pc[i] = "inline" /\ at' = at /\ pc' = [pc EXCEPT ![i] = "scan"]
        /\ memory' = [c \in DOMAIN memory |->
                        IF c \in Writes(nodes[q], 0, 1) THEN nodes[q] ELSE memory[c]]
    BY <1>9 DEF ComputeInline, Write, Move, Node
  <2>2. q \in 1..Len(nodes)
    <3>1. q <= Len(nodes) /\ node_n < q /\ node_n \in Nat
      BY <1>1, <1>2, <1>3, <2>1 DEF Alone, ThreadTypes
    <3> QED
      BY <1>1, <1>5, <3>1
  <2>3. LaidOut(tensors, nodes, a, size)
    BY <1>1, LaidCompute
  <2>4. Whole(tensors, nodes, a, memory, q)
    BY <1>4, <2>1 DEF Reach
  <2>5. DOMAIN memory = 0..(size - 1) \cup {Foreign}
    BY <1>1 DEF MemoryInv
  <2> HIDE DEF q
  <2>6. memory' = [c \in DOMAIN memory |->
                     IF c \in Written(tensors, a, nodes[q], 0, 1) THEN nodes[q] ELSE memory[c]]
    BY <2>1, WritesAre
  <2>7. Intact(tensors, nodes, a, memory, q, {}, 1)
    BY <2>4, WholeIntact
  <2>8. Intact(tensors, nodes, a, memory', q, {} \cup {0}, 1)
    <3>1. 1 \in Nat \ {0}
      OBVIOUS
    <3> QED
      BY <2>2, <2>3, <2>5, <2>6, <2>7, <3>1, ShareDone
  <2>9. Whole(tensors, nodes, a, memory', q + 1)
    <3>1. {} \cup {0} = 0..(1 - 1) /\ 1 \in Nat \ {0}
      OBVIOUS
    <3>2. Intact(tensors, nodes, a, memory', q, 0..(1 - 1), 1)
      BY <2>8, <3>1
    <3> QED
      BY <2>2, <2>3, <3>1, <3>2, NodeDone
  <2>10. pc'[i] = "scan" /\ \A j \in Thread \ {i} : ~Busy(j)'
    BY <1>6, <2>1
  <2>11. Reach(i)' = q + 1 /\ Busy(i)' /\ DOMAIN memory' = DOMAIN memory
    BY <2>1, <2>10 DEF Reach, Busy, q
  <2>12. Moved(i, q + 1)
    BY <1>1, <2>9, <2>10, <2>11 DEF Moved
  <2> QED
    BY <2>12, MovedMemory
<1> QED
  BY <1>7, <1>8, <1>9

(* Everybody is done with the node when the last one arrives. *)
LEMMA ArriveMemory ==
    ASSUME GraphAssumption, GraphInv, ThreadInv, MemoryInv, NEW i \in Thread, Arrive(i)
    PROVE  MemoryInv'
<1>1. /\ phase = "compute" /\ phase' = "compute" /\ Len(nodes) \in Nat
      /\ UNCHANGED <<tensors, nodes, size, a>>
  BY ThreadFrame DEF ThreadStep
<1>2. /\ pc[i] = "arrive"
      /\ pc' = [pc EXCEPT ![i] = IF n_active = 1 THEN "scan" ELSE "spin"]
      /\ UNCHANGED <<node_n, at, memory>>
  BY DEF Arrive, Move, contents
<1>3. ~Waiting(i) /\ ~Busy(i)
  BY <1>2 DEF Waiting, Busy
<1>4. /\ \A j \in Thread : ~Busy(j)
      /\ n_active = Cardinality(Apace) /\ i \in Apace
  BY <1>1, <1>3, Quiet
<1>5. ThreadTypes /\ Together
  BY <1>1 DEF ThreadInv
<1>6. /\ \A j \in Thread \ {i} : pc'[j] = pc[j]
      /\ pc'[i] = IF n_active = 1 THEN "scan" ELSE "spin"
  BY <1>2, <1>5 DEF ThreadTypes
<1>7. at[i] = node_n /\ node_n \in 0..Len(nodes)
  <2>1. at[i] = node_n /\ at[i] <= Len(nodes) /\ at[i] \in Nat
    BY <1>2, <1>5 DEF Together, ThreadTypes
  <2> QED
    BY <1>1, <2>1
<1>8. /\ DOMAIN memory = 0..(size - 1) \cup {Foreign}
      /\ node_n = 0 => Whole(tensors, nodes, a, memory, 1)
      /\ node_n \in 1..Len(nodes) => Intact(tensors, nodes, a, memory, node_n, Done, NThreads)
  BY <1>1, <1>4 DEF MemoryInv
<1>9. CASE n_active = 1
  <2>1. Apace \ {i} = {}
    <3>1. IsFiniteSet(Apace)
      BY ThreadsFinite DEF Apace
    <3>2. Cardinality(Apace \ {i}) = Cardinality(Apace) - 1 /\ IsFiniteSet(Apace \ {i})
      BY <1>4, <3>1, FS_RemoveElement
    <3>3. Cardinality(Apace \ {i}) = 0
      BY <1>4, <1>9, <3>2
    <3> QED
      BY <3>2, <3>3, FS_EmptySet
  <2>2. Done = Thread
    BY <1>2, <2>1 DEF Done, Apace
  <2>3. Whole(tensors, nodes, a, memory, node_n + 1)
    <3>1. CASE node_n = 0
      <4>1. node_n + 1 = 1
        BY <3>1
      <4> QED
        BY <1>8, <3>1, <4>1
    <3>2. CASE node_n \in 1..Len(nodes)
      <4>1. Intact(tensors, nodes, a, memory, node_n, 0..(NThreads - 1), NThreads)
        BY <1>8, <2>2, <3>2 DEF Thread
      <4>2. NThreads \in Nat \ {0} /\ LaidOut(tensors, nodes, a, size)
        BY <1>1, ThreadsFinite, LaidCompute
      <4> QED
        BY <3>2, <4>1, <4>2, NodeDone
    <3> QED
      BY <1>7, <3>1, <3>2
  <2>4. pc'[i] = "scan" /\ \A j \in Thread \ {i} : ~Busy(j)'
    BY <1>4, <1>6, <1>9 DEF Busy
  <2>5. Busy(i)' /\ Reach(i)' = node_n + 1
    BY <1>2, <1>7, <2>4 DEF Busy, Reach
  <2>6. Moved(i, node_n + 1)
    BY <1>1, <1>2, <2>3, <2>4, <2>5 DEF Moved
  <2> QED
    BY <2>6, MovedMemory
<1>10. CASE n_active # 1
  <2>1. \A j \in Thread : ~Busy(j)'
    BY <1>4, <1>6, <1>10 DEF Busy
  <2>2. Waiting(i)' /\ \A j \in Thread \ {i} : Waiting(j)' <=> Waiting(j)
    BY <1>2, <1>6, <1>7, <1>10 DEF Waiting
  <2>3. Done' = Done
    <3>1. \A j \in Thread : (pc'[j] = "arrive" \/ Waiting(j)') <=> (pc[j] = "arrive" \/ Waiting(j))
      BY <1>2, <1>6, <2>2
    <3> QED
      BY <3>1 DEF Done
  <2> QED
    BY <1>1, <1>2, <1>8, <2>1, <2>3 DEF MemoryInv
<1> QED
  BY <1>9, <1>10

(* Nobody has begun with a node when it is published. *)
LEMMA PublishMemory ==
    ASSUME GraphAssumption, GraphInv, ThreadInv, MemoryInv, NEW i \in Thread, PublishNode(i)
    PROVE  MemoryInv'
<1> DEFINE q == at[i]
           l == IF q > Len(nodes) THEN "exit" ELSE "compute"
<1>1. /\ phase = "compute" /\ phase' = "compute" /\ Len(nodes) \in Nat
      /\ UNCHANGED <<tensors, nodes, size, a>>
  BY ThreadFrame DEF ThreadStep
<1>2. /\ pc[i] = "publish" /\ pc' = [pc EXCEPT ![i] = l] /\ node_n' = q
      /\ UNCHANGED <<at, memory>>
  BY DEF PublishNode, Enter, Move, contents
<1>3. ThreadTypes /\ Alone
  BY <1>1 DEF ThreadInv
<1>4. Busy(i)
  BY <1>2 DEF Busy
<1>5. node_n \in Nat /\ node_n < q /\ q \in Nat
  BY <1>1, <1>2, <1>3, <1>4 DEF Alone, ThreadTypes
<1>6. \A j \in Thread \ {i} : Waiting(j)
  BY <1>3, <1>4 DEF Alone
<1>7. pc'[i] = l /\ \A j \in Thread \ {i} : pc'[j] = pc[j]
  BY <1>2, <1>3 DEF ThreadTypes
<1>8. \A j \in Thread : ~Busy(j)' /\ ~Waiting(j)' /\ pc'[j] # "arrive"
  BY <1>2, <1>5, <1>6, <1>7 DEF Busy, Waiting
<1>9. Done' = {}
  BY <1>8 DEF Done
<1>10. Whole(tensors, nodes, a, memory, q)
  BY <1>1, <1>2, <1>4 DEF MemoryInv, Reach
<1>11. Intact(tensors, nodes, a, memory, q, {}, NThreads)
  BY <1>10, WholeIntact
<1>12. DOMAIN memory' = 0..(size' - 1) \cup {Foreign}
  BY <1>1, <1>2 DEF MemoryInv
<1>13. node_n' # 0
  BY <1>2, <1>5
<1>14. Intact(tensors', nodes', a', memory', node_n', Done', NThreads)
  BY <1>1, <1>2, <1>9, <1>11
<1> QED
  BY <1>8, <1>12, <1>13, <1>14 DEF MemoryInv

(* A thread that leaves the loop finds the node as published. *)
LEMMA SpinMemory ==
    ASSUME GraphAssumption, GraphInv, ThreadInv, MemoryInv, NEW i \in Thread, Spin(i)
    PROVE  MemoryInv'
<1> DEFINE l == IF node_n > Len(nodes) THEN "exit" ELSE "compute"
<1>1. /\ phase = "compute" /\ phase' = "compute" /\ Len(nodes) \in Nat
      /\ UNCHANGED <<tensors, nodes, size, a>>
  BY ThreadFrame DEF ThreadStep
<1>2. /\ pc[i] = "spin" /\ node_n # at[i] /\ at' = [at EXCEPT ![i] = node_n]
      /\ pc' = [pc EXCEPT ![i] = l]
      /\ UNCHANGED <<node_n, memory>>
  BY DEF Spin, Enter, Move, contents
<1>3. ~Waiting(i) /\ ~Busy(i)
  BY <1>2 DEF Waiting, Busy
<1>4. \A j \in Thread : ~Busy(j)
  BY <1>1, <1>3, Quiet
<1>5. /\ pc'[i] = l /\ at'[i] = node_n
      /\ \A j \in Thread \ {i} : pc'[j] = pc[j] /\ at'[j] = at[j]
  BY <1>1, <1>2 DEF ThreadInv, ThreadTypes
<1>6. \A j \in Thread : ~Busy(j)'
  BY <1>4, <1>5 DEF Busy
<1>7. Done' = Done
  <2>1. \A j \in Thread : (pc'[j] = "arrive" \/ Waiting(j)') <=> (pc[j] = "arrive" \/ Waiting(j))
    BY <1>2, <1>5 DEF Waiting
  <2> QED
    BY <2>1 DEF Done
<1> QED
  BY <1>1, <1>2, <1>4, <1>6, <1>7 DEF MemoryInv

(* A thread at the published node does its share: what the others at the *)
(* same node still read stays.                                           *)
LEMMA ComputeMemory ==
    ASSUME GraphAssumption, GraphInv, ThreadInv, MemoryInv, NEW i \in Thread, Compute(i)
    PROVE  MemoryInv'
<1>1. /\ phase = "compute" /\ phase' = "compute" /\ Len(nodes) \in Nat
      /\ UNCHANGED <<tensors, nodes, size, a>>
  BY ThreadFrame DEF ThreadStep
<1>2. ThreadTypes /\ Together
  BY <1>1 DEF ThreadInv
<1>3. /\ pc[i] = "compute" /\ at[i] = node_n /\ node_n \in 1..Len(nodes)
      /\ NTasks(nodes[node_n]) = NThreads
  BY <1>2 DEF Compute, Together, Parallel
<1>4. /\ pc' = [pc EXCEPT ![i] = "arrive"]
      /\ memory' = [c \in DOMAIN memory |->
                      IF c \in Writes(nodes[node_n], i, NThreads) THEN nodes[node_n] ELSE memory[c]]
      /\ UNCHANGED <<node_n, at>>
  BY <1>3 DEF Compute, Write, Move, Node
<1>5. ~Waiting(i) /\ ~Busy(i)
  BY <1>3 DEF Waiting, Busy
<1>6. \A j \in Thread : ~Busy(j)
  BY <1>1, <1>5, Quiet
<1>7. pc'[i] = "arrive" /\ \A j \in Thread \ {i} : pc'[j] = pc[j]
  BY <1>2, <1>4 DEF ThreadTypes
<1>8. \A j \in Thread : ~Busy(j)'
  BY <1>6, <1>7 DEF Busy
<1>9. Done' = Done \cup {i}
  <2>1. \A j \in Thread \ {i} : (pc'[j] = "arrive" \/ Waiting(j)') <=> (pc[j] = "arrive" \/ Waiting(j))
    BY <1>4, <1>7 DEF Waiting
  <2> QED
    BY <1>7, <2>1 DEF Done
<1>10. /\ DOMAIN memory = 0..(size - 1) \cup {Foreign}
       /\ Intact(tensors, nodes, a, memory, node_n, Done, NThreads)
  BY <1>1, <1>3, <1>6 DEF MemoryInv
<1>11. memory' = [c \in DOMAIN memory |->
                    IF c \in Written(tensors, a, nodes[node_n], i, NThreads) THEN nodes[node_n]
                    ELSE memory[c]]
  BY <1>4, WritesAre
<1>12. LaidOut(tensors, nodes, a, size)
  BY <1>1, LaidCompute
<1>13. Intact(tensors, nodes, a, memory', node_n, Done \cup {i}, NThreads)
  BY <1>3, <1>10, <1>11, <1>12, ShareDone, ZenonT(60)
<1>14. DOMAIN memory' = 0..(size' - 1) \cup {Foreign}
  BY <1>1, <1>4, <1>10
<1>15. node_n' # 0
  BY <1>3, <1>4
<1>16. Intact(tensors', nodes', a', memory', node_n', Done', NThreads)
  BY <1>1, <1>4, <1>9, <1>13
<1> QED
  BY <1>8, <1>14, <1>15, <1>16 DEF MemoryInv

(* Every step keeps the invariant of the memory. *)
LEMMA StepMemory ==
    ASSUME GraphAssumption, GraphInv, ThreadInv, MemoryInv, [Next]_vars
    PROVE  MemoryInv'
<1>1. CASE UNCHANGED vars
  BY <1>1 DEF vars, MemoryInv, Busy, Waiting, Reach, Done
<1>2. CASE BuildStep \/ Build \/ Place
  <2>1. phase' # "compute"
    BY <1>2 DEF BuildStep, MatMul, Add, Scale, View, Copy, Make, Build, Place
  <2> QED
    BY <2>1 DEF MemoryInv
<1>3. ASSUME NEW i \in Thread, ThreadStep(i)
      PROVE  MemoryInv'
  BY <1>3, ArriveMemory, AloneMemory, PublishMemory, SpinMemory, ComputeMemory DEF ThreadStep
<1> QED
  BY <1>1, <1>2, <1>3, StartMemory DEF Next

-----------------------------------------------------------------------------
(* Before the computation nothing is said of the memory. *)
LEMMA InitMemory ==
    ASSUME Init
    PROVE  MemoryInv
BY DEF Init, MemoryInv

(* While the threads compute, every value that a node still to be computed *)
(* reads is in the cells of its tensor, but for what the threads at the    *)
(* published node have written over their own shares.                      *)
THEOREM MemoryKept == Spec => [](GraphInv /\ ThreadInv /\ MemoryInv)
<1>1. Init => GraphInv /\ ThreadInv /\ MemoryInv
  BY InitGraph, InitThreads, InitMemory, GraphAssumption
<1>2. GraphInv /\ ThreadInv /\ MemoryInv /\ [Next]_vars => (GraphInv /\ ThreadInv /\ MemoryInv)'
  BY StepGraph, StepThreads, StepMemory, GraphAssumption
<1> QED
  BY <1>1, <1>2, PTL DEF Spec

(* The value a source has to have, and the cells of its share. *)
LEMMA ValuesAre ==
    /\ \A s : Value(s) = ValueOf(tensors, s) /\ Cells(s) = CellsOf(tensors, a, s)
    /\ \A s, n, ith, nth : ShareOf(s, n, ith, nth) = SharedCells(tensors, a, s, n, ith, nth)
<1>1. \A s : Cells(s) = CellsOf(tensors, a, s)
  BY DEF Cells, CellsOf
<1>2. Copied = CopiesOf(tensors)
  BY DEF Copied, CopiesOf
<1>3. \A s : Value(s) = ValueOf(tensors, s)
  BY <1>2 DEF Value, ValueOf
<1>4. \A s, n, ith, nth : ShareOf(s, n, ith, nth) = SharedCells(tensors, a, s, n, ith, nth)
  BY <1>1 DEF ShareOf, SharedCells
<1> QED
  BY <1>1, <1>3, <1>4

(* A thread that is not done with node q finds the sources of its share. *)
LEMMA SourcesThere ==
    ASSUME LaidOut(tensors, nodes, a, size), NEW q \in 1..Len(nodes),
           NEW D \in SUBSET Int, NEW nth \in Nat \ {0},
           Intact(tensors, nodes, a, memory, q, D, nth), NEW ith \in Int, ith \notin D
    PROVE  SourcesIntact(nodes[q], ith, nth)
<1> DEFINE t == nodes[q]
           src == tensors[t].src
<1>1. /\ t \in DOMAIN tensors /\ tensors[t].op # "none" /\ SourcesOK(tensors, t)
      /\ tensors[t].op \in Ops
  BY NodesIn DEF LaidOut, GraphOK
<1>2. ASSUME NEW k, ReadBy(tensors, t, k),
             NEW c \in ShareOf(src[k], tensors[t].size, ith, nth)
      PROVE  memory[c] = Value(src[k])
  <2>1. c \in SharedCells(tensors, a, src[k], tensors[t].size, ith, nth)
    BY <1>2, ValuesAre
  <2>2. memory[c] = ValueOf(tensors, src[k])
    BY <1>2, <2>1, SourceSafe
  <2> QED
    BY <2>2, ValuesAre
<1>3. ASSUME tensors[t].op = "matmul", NEW k, ReadBy(tensors, t, k), NEW c \in Cells(src[k])
      PROVE  memory[c] = Value(src[k])
  <2>1. c \in CellsOf(tensors, a, src[k])
    BY <1>3, ValuesAre
  <2>2. \/ c \in SharedCells(tensors, a, src[k], tensors[t].size, ith, nth)
        \/ tensors[t].op = "matmul" /\ c \in CellsOf(tensors, a, src[k])
    BY <1>3, <2>1
  <2>3. ReadBy(tensors, t, k) /\ src[k] = tensors[t].src[k]
    BY <1>3
  <2>4. memory[c] = ValueOf(tensors, src[k])
    BY <2>2, <2>3, SourceSafe
  <2> QED
    BY <2>4, ValuesAre
<1>4. CASE tensors[t].op = "matmul"
  <2>0. 1 \in 1..Len(src)
    <3>1. Len(src) \in {1, 2}
      BY <1>1, <1>4 DEF SourcesOK
    <3>2. \A l \in {1, 2} : 1 \in 1..l
      OBVIOUS
    <3> QED
      BY <3>1, <3>2
  <2>1. ReadBy(tensors, t, 1)
    BY <1>4, <2>0 DEF ReadBy
  <2>2. \A c \in Cells(src[1]) : memory[c] = Value(src[1])
    BY <1>3, <1>4, <2>1
  <2> QED
    BY <1>4, <2>2 DEF SourcesIntact
<1>5. CASE tensors[t].op = "add"
  <2>1. \A k \in 1..2 : ReadBy(tensors, t, k)
    BY <1>1, <1>5 DEF SourcesOK, ReadBy
  <2>2. \A k \in 1..2 : \A c \in ShareOf(src[k], tensors[t].size, ith, nth) :
           memory[c] = Value(src[k])
    BY <1>2, <2>1
  <2> QED
    BY <1>5, <2>2 DEF SourcesIntact
<1>6. CASE tensors[t].op \in {"scale", "copy"}
  <2>1. ReadBy(tensors, t, 1)
    BY <1>1, <1>6 DEF SourcesOK, ReadBy
  <2>2. \A c \in ShareOf(src[1], tensors[t].size, ith, nth) : memory[c] = Value(src[1])
    BY <1>2, <2>1
  <2> QED
    BY <1>6, <2>2 DEF SourcesIntact
<1>7. CASE tensors[t].op = "view"
  BY <1>7 DEF SourcesIntact
<1> QED
  BY <1>1, <1>4, <1>5, <1>6, <1>7 DEF Ops

(* All its sources are there when the invariant holds. *)
LEMMA SourcesFollow ==
    ASSUME GraphAssumption, GraphInv, ThreadInv, MemoryInv
    PROVE  SourcesReadIntact
<1> SUFFICES ASSUME NEW i \in Thread
             PROVE  /\ pc[i] = "compute" /\ i < NTasks(Node(i)) =>
                          /\ SourcesIntact(Node(i), i, NTasks(Node(i)))
                          /\ HasInit(Node(i)) => wdata = Node(i)
                    /\ pc[i] = "inline" =>
                          /\ SourcesIntact(Node(i), 0, 1)
                          /\ HasInit(Node(i)) => wdata = Node(i)
                    /\ pc[i] = "init" =>
                          \A c \in Cells(tensors[Node(i)].src[2]) :
                             memory[c] = Value(tensors[Node(i)].src[2])
  BY DEF SourcesReadIntact
<1>1. NThreads \in Nat \ {0} /\ Thread \subseteq Int /\ i \in Int
  <2>1. NThreads \in Nat \ {0} /\ Thread \subseteq Nat
    BY ThreadsFinite
  <2> QED
    BY <2>1
<1>2. CASE pc[i] = "compute"
  <2>1. phase = "compute"
    BY <1>2 DEF ThreadInv, Idle
  <2>2. LaidOut(tensors, nodes, a, size)
    BY <2>1, LaidCompute
  <2>3. /\ at[i] = node_n /\ node_n \in 1..Len(nodes) /\ Node(i) = nodes[node_n]
        /\ NTasks(Node(i)) = NThreads
    BY <1>2, <2>1 DEF ThreadInv, Together, Parallel, Node
  <2>4. (\A j \in Thread : ~Busy(j)) /\ Filled(node_n)
    <3>1. ~Waiting(i) /\ ~Busy(i)
      BY <1>2 DEF Waiting, Busy
    <3> QED
      BY <2>1, <3>1, Quiet
  <2>5. Intact(tensors, nodes, a, memory, node_n, Done, NThreads)
    BY <2>1, <2>3, <2>4 DEF MemoryInv
  <2>6. Done \in SUBSET Int /\ i \notin Done
    BY <1>1, <1>2 DEF Done, Waiting
  <2>7. SourcesIntact(nodes[node_n], i, NThreads)
    BY <1>1, <2>2, <2>3, <2>5, <2>6, SourcesThere
  <2>8. HasInit(Node(i)) => wdata = Node(i)
    BY <2>3, <2>4 DEF Filled
  <2> QED
    BY <1>2, <2>3, <2>7, <2>8
<1>3. CASE pc[i] \in {"inline", "init"}
  <2>1. phase = "compute" /\ Busy(i)
    BY <1>3 DEF ThreadInv, Idle, Busy
  <2>2. LaidOut(tensors, nodes, a, size) /\ Len(nodes) \in Nat
    BY <2>1, LaidCompute
  <2>3. at[i] \in 1..Len(nodes)
    <3>1. at[i] \in Nat /\ node_n \in Nat /\ node_n < at[i] /\ at[i] <= Len(nodes)
      BY <1>3, <2>1, <2>2 DEF ThreadInv, ThreadTypes, Alone
    <3> QED
      BY <2>2, <3>1
  <2>4. /\ pc[i] = "init" => HasInit(Node(i))
        /\ pc[i] = "inline" /\ HasInit(Node(i)) => wdata = Node(i)
    BY <2>1, <2>3 DEF ThreadInv, Alone, Filled, Node
  <2>5. Whole(tensors, nodes, a, memory, at[i])
    BY <1>3, <2>1 DEF MemoryInv, Reach
  <2>6. Intact(tensors, nodes, a, memory, at[i], {}, 1)
    BY <2>5, WholeIntact
  <2>7. 1 \in Nat \ {0} /\ 0 \in Int /\ {} \in SUBSET Int
    OBVIOUS
  <2>8. CASE pc[i] = "inline"
    <3>1. SourcesIntact(nodes[at[i]], 0, 1)
      BY <2>2, <2>3, <2>6, <2>7, SourcesThere
    <3> QED
      BY <2>4, <2>8, <3>1 DEF Node
  <2>9. CASE pc[i] = "init"
    <3> DEFINE n == nodes[at[i]]
               s == tensors[n].src[2]
    <3>1. tensors[n].op = "matmul" /\ Len(tensors[n].src) > 1
      BY <2>4, <2>9 DEF HasInit, Node
    <3>2. 2 \in 1..Len(tensors[n].src)
      <4>1. SourcesOK(tensors, n)
        BY <2>2, <2>3, NodesIn
      <4>2. Len(tensors[n].src) \in {1, 2}
        BY <3>1, <4>1 DEF SourcesOK
      <4>3. \A l \in {1, 2} : l > 1 => 2 \in 1..l
        OBVIOUS
      <4> QED
        BY <3>1, <4>2, <4>3
    <3>3. ReadBy(tensors, n, 2)
      BY <3>1, <3>2 DEF ReadBy
    <3>4. ASSUME NEW c \in Cells(s) PROVE memory[c] = Value(s)
      <4>1. \/ c \in SharedCells(tensors, a, s, tensors[n].size, 0, 1)
            \/ tensors[n].op = "matmul" /\ c \in CellsOf(tensors, a, s)
        BY <3>1, <3>4, ValuesAre
      <4>2. memory[c] = ValueOf(tensors, s)
        BY <2>2, <2>3, <2>6, <2>7, <3>3, <4>1, SourceSafe
      <4> QED
        BY <4>2, ValuesAre
    <3> QED
      BY <2>9, <3>4 DEF Node
  <2> QED
    BY <1>3, <2>8, <2>9
<1> QED
  BY <1>2, <1>3

(* No thread ever reads a source, or the shared work buffer, that something *)
(* else was written over or that is not computed yet, whatever the graph,   *)
(* the sizes and the number of threads.                                     *)
THEOREM SourcesStayIntact == Spec => []SourcesReadIntact
<1>1. GraphInv /\ ThreadInv /\ MemoryInv => SourcesReadIntact
  BY SourcesFollow, GraphAssumption
<1> QED
  BY <1>1, MemoryKept, PTL

-----------------------------------------------------------------------------
(***************************************************************************)
(* Nothing is lost: every cell of the buffer is free, or lies in a tensor  *)
(* that is still to give it back or that nobody reads.                     *)
(***************************************************************************)
InFree(free, c) == \E j \in 1..Len(free) : free[j].addr <= c /\ c < End(free[j])

\* Cell c is one of tensor t's.
Spans(ts, al, t, c) == al.data[t] <= c /\ c < al.data[t] + ts[t].size

NodesOf(ns) == {ns[i] : i \in 1..Len(ns)}

Reads(ts, ns, t) ==
    \E i \in 1..Len(ns) : \E k \in 1..Len(ts[ns[i]].src) : ts[ns[i]].src[k] = t

\* A tensor computed in place has taken over all of t, and gives it back.
Wholly(ts, al, t) ==
    \E u \in DOMAIN ts : ts[u].view = NoTensor /\ al.view[u] = t /\ ts[u].size = ts[t].size

\* t will give its cells back, or is a result nobody reads.
Keeps(ts, ns, al, t) == \/ ~Reads(ts, ns, t)
                        \/ Active(al, t) /\ ~Wholly(ts, al, t)

Holder(ts, ns, al, t, c) ==
    ts[t].view = NoTensor /\ Own(ts, t) /\ Spans(ts, al, t, c) /\ Keeps(ts, ns, al, t)

\* The last view of u frees u itself and forgets what u is a view of.
Detached(ts, ns, al, u) ==
    ts[u].view = NoTensor /\ al.view[u] # NoTensor /\ \E v \in NodesOf(ns) : ts[v].view = u

\* The views that b's count may still stand for.
Viewers(ts, ns, al, b) ==
    {u \in NodesOf(ns) : /\ al.view[u] = b
                         /\ Active(al, u) \/ ~Reads(ts, ns, u) \/ Detached(ts, ns, al, u)}

Covered(ts, ns, al, P, sz) ==
    \A c \in 0..(sz - 1) : InFree(al.free, c) \/ \E t \in P : Holder(ts, ns, al, t, c)

\* No count is too high, but for views that nobody reads or that were forgotten,
NoneExtra(ts, ns, al) ==
    \A b \in DOMAIN ts : al.views[b] <= Cardinality(Viewers(ts, ns, al, b))

\* what was taken over counts one view,
OneTaker(ts, al) == \A b \in DOMAIN ts : Taken(ts, al, b) => al.views[b] <= 1

\* a second level of views begins at a tensor that had views of its own,
SecondLevel(ts, ns, al) ==
    \A u \in NodesOf(ns) :
       LET b == al.view[u]
       IN  b # NoTensor /\ al.view[b] # NoTensor => \E v \in NodesOf(ns) : ts[v].view = b

\* and only nodes take over anything.
NodesTake(ts, ns, al) == \A t \in DOMAIN ts \ NodesOf(ns) : al.view[t] = ts[t].view

Full(ts, ns, al, P, sz) ==
    /\ Covered(ts, ns, al, P, sz)
    /\ NoneExtra(ts, ns, al)
    /\ OneTaker(ts, al)
    /\ SecondLevel(ts, ns, al)
    /\ NodesTake(ts, ns, al)

(* What is given back is free, and what was free still is. *)
LEMMA GiveBackCovers ==
    ASSUME NEW sz \in Nat, NEW free, Sorted(free, sz), NEW block \in Block,
           Clear(free, block.addr, End(block)), NEW c \in Nat,
           InFree(free, c) \/ (block.addr <= c /\ c < End(block))
    PROVE  InFree(GiveBack(free, block), c)
<1> DEFINE before == {i \in DOMAIN free : End(free[i]) = block.addr}
           after  == {i \in DOMAIN free : free[i].addr = End(block)}
           below  == Cardinality({i \in DOMAIN free : free[i].addr < block.addr})
           Inside(x) == x.addr <= c /\ c < End(x)
<1>0. /\ free \in Seq(Block) /\ Len(free) \in Nat /\ DOMAIN free = 1..Len(free)
      /\ \A i \in 1..Len(free) : /\ free[i] \in Block
                                 /\ free[i].addr \in Nat /\ free[i].size > 0 /\ free[i].size \in Nat
                                 /\ End(free[i]) = free[i].addr + free[i].size /\ End(free[i]) \in Nat
  BY BlocksOf, LenProperties DEF Sorted
<1>1. /\ block.addr \in Nat /\ block.size \in Nat /\ block.size > 0
      /\ End(block) = block.addr + block.size /\ End(block) \in Nat
  BY BlockFacts
<1>2. \A k \in 1..Len(free) : End(block) <= free[k].addr \/ End(free[k]) <= block.addr
  BY DEF Clear
<1>3. \A j, k \in 1..Len(free) : j < k => End(free[j]) < free[k].addr
  BY DEF Sorted
<1>4. (\E j \in 1..Len(free) : Inside(free[j])) \/ Inside(block)
  BY DEF InFree
<1>5. \A s, j : j \in 1..Len(s) /\ Inside(s[j]) => InFree(s, c)
  BY DEF InFree
<1>9. /\ \A k \in 1..Len(free) : /\ free[k].addr \in Nat /\ End(free[k]) \in Nat
                                 /\ free[k].addr < End(free[k])
      /\ block.addr \in Nat /\ End(block) \in Nat /\ block.addr < End(block)
  <2>1. \A x, y \in Nat : y > 0 => x < x + y
    OBVIOUS
  <2> QED
    BY <1>0, <1>1, <2>1
<1> HIDE DEF Inside
<1>6. CASE before # {}
  <2> DEFINE i == CHOOSE x \in before : TRUE
             grown == [free[i] EXCEPT !.size = @ + block.size]
  <2>1. i \in 1..Len(free) /\ End(free[i]) = block.addr
    BY <1>0, <1>6
  <2>2. grown = [addr |-> free[i].addr, size |-> free[i].size + block.size]
    <3>1. \A x \in Block : [x EXCEPT !.size = @ + block.size]
                           = [addr |-> x.addr, size |-> x.size + block.size]
      BY DEF Block
    <3> HIDE DEF i
    <3> QED
      BY <1>0, <2>1, <3>1
  <2> HIDE DEF i
  <2>3. grown.addr = free[i].addr /\ grown.size = free[i].size + block.size /\ grown \in Block
    BY <1>0, <1>1, <2>1, <2>2 DEF Block
  <2>4. CASE after = {}
    <3> DEFINE wide == ReplaceAt(free, i, grown)
    <3>1. GiveBack(free, block) = wide
      BY <1>6, <2>4 DEF GiveBack, i, grown
    <3> HIDE DEF grown
    <3>2. Inside(free[i]) \/ Inside(block) => Inside(grown)
      <4>1. End(grown) = End(block)
        BY <1>0, <1>1, <2>1, <2>3 DEF End
      <4> QED
        BY <1>9, <2>1, <2>3, <4>1 DEF Inside
    <3>3. /\ Len(wide) = Len(free)
          /\ \A j \in 1..Len(free) : wide[j] = IF j = i THEN grown ELSE free[j]
      BY ONLY <1>0, <2>1, <2>3, Replaced DEF wide
    <3> HIDE DEF wide
    <3>4. \E j \in 1..Len(wide) : Inside(wide[j])
      BY <1>4, <2>1, <3>2, <3>3
    <3> QED
      BY <1>5, <3>1, <3>4
  <2>5. CASE after # {}
    <3> DEFINE m == [addr |-> free[i].addr, size |-> End(free[i + 1]) - free[i].addr]
               joined == ReplaceAt(free, i, m)
               left == RemoveAt(joined, i + 1)
    <3>1. i + 1 \in 1..Len(free) /\ free[i + 1].addr = End(block)
      <4>1. PICK k \in 1..Len(free) : free[k].addr = End(block)
        BY <1>0, <2>5
      <4>2. i < k
        <5>1. CASE k < i
          <6>1. End(free[k]) < free[i].addr
            BY <1>3, <2>1, <4>1, <5>1
          <6> QED
            BY <1>9, <2>1, <4>1, <6>1
        <5>2. k # i
          BY <1>9, <2>1, <4>1
        <5>3. \A x, z \in 1..Len(free) : x < z \/ x = z \/ z < x
          BY <1>0
        <5> QED
          BY <2>1, <5>1, <5>2, <5>3
      <4>3. CASE i + 1 < k
        <5>1. i + 1 \in 1..Len(free) /\ i < i + 1
          BY <2>1, <4>3, <1>0
        <5>2. End(free[i + 1]) < free[k].addr /\ End(free[i]) < free[i + 1].addr
          BY <1>3, <2>1, <4>1, <4>3, <5>1
        <5>3. End(block) <= free[i + 1].addr \/ End(free[i + 1]) <= block.addr
          BY <1>2, <5>1
        <5>4. End(block) <= free[i + 1].addr
          BY <1>9, <2>1, <5>1, <5>2, <5>3
        <5> QED
          BY <1>9, <4>1, <5>1, <5>2, <5>4
      <4> QED
        BY <2>1, <4>1, <4>2, <4>3
    <3>2. m \in Block /\ m.addr = free[i].addr /\ m.size = End(free[i + 1]) - free[i].addr
      <4>1. /\ free[i].addr < End(free[i]) /\ End(free[i]) < End(block)
            /\ End(block) < End(free[i + 1])
        BY <1>9, <2>1, <3>1
      <4>2. End(free[i + 1]) - free[i].addr \in Nat \ {0}
        BY <1>9, <2>1, <3>1, <4>1
      <4> QED
        BY <1>0, <2>1, <4>2 DEF Block
    <3>3. GiveBack(free, block) = left
      BY <1>6, <2>5 DEF GiveBack, i, m
    <3> HIDE DEF m, grown
    <3>4. Inside(free[i]) \/ Inside(block) \/ Inside(free[i + 1]) => Inside(m)
      <4>1. End(m) = m.addr + m.size /\ m.addr + m.size = End(free[i + 1])
        BY <1>9, <2>1, <3>1, <3>2 DEF End
      <4>2. free[i].addr < End(free[i]) /\ End(free[i]) < End(block) /\ End(block) < End(free[i + 1])
        BY <1>9, <2>1, <3>1
      <4> QED
        BY <1>9, <2>1, <3>1, <3>2, <4>1, <4>2 DEF Inside
    <3>5. /\ joined \in Seq(Block) /\ Len(joined) = Len(free)
          /\ \A j \in 1..Len(free) : joined[j] = IF j = i THEN m ELSE free[j]
      BY <1>0, <2>1, <3>2, Replaced
    <3> HIDE DEF joined
    <3>6. /\ Len(left) = Len(free) - 1
          /\ \A j \in 1..(Len(free) - 1) : left[j] = IF j < i + 1 THEN joined[j] ELSE joined[j + 1]
      <4>1. joined \in Seq(Block) /\ i + 1 \in 1..Len(joined)
        BY <3>1, <3>5
      <4>2. /\ Len(left) = Len(joined) - 1
            /\ \A j \in 1..(Len(joined) - 1) :
                  left[j] = IF j < i + 1 THEN joined[j] ELSE joined[j + 1]
        BY <4>1, Removed, Zenon
      <4> HIDE DEF left
      <4> QED
        BY <3>5, <4>2
    <3> HIDE DEF left
    <3>7. i \in 1..Len(left) /\ left[i] = m
      BY <1>0, <2>1, <3>1, <3>5, <3>6
    <3>8. ASSUME NEW j \in 1..Len(free), j # i, j # i + 1
          PROVE  \E k \in 1..Len(left) : left[k] = free[j]
      <4>1. CASE j < i
        <5>1. j \in 1..Len(left) /\ left[j] = joined[j] /\ joined[j] = free[j]
          BY <1>0, <2>1, <3>1, <3>5, <3>6, <4>1
        <5> QED
          BY <5>1
      <4>2. CASE i + 1 < j
        <5>1. j - 1 \in 1..Len(left) /\ ~(j - 1 < i + 1) /\ (j - 1) + 1 = j
          BY <1>0, <2>1, <3>1, <3>6, <4>2
        <5>2. left[j - 1] = joined[j] /\ joined[j] = free[j]
          BY <3>5, <3>6, <3>8, <5>1
        <5> QED
          BY <5>1, <5>2
      <4>3. j < i \/ i + 1 < j
        BY <1>0, <2>1, <3>8
      <4> QED
        BY <4>1, <4>2, <4>3
    <3>9. \E k \in 1..Len(left) : Inside(left[k])
      BY <1>4, <3>4, <3>7, <3>8
    <3> QED
      BY <1>5, <3>3, <3>9
  <2> QED
    BY <2>4, <2>5
<1>7. CASE before = {} /\ after # {}
  <2> DEFINE i == CHOOSE x \in after : TRUE
             grown == [addr |-> block.addr, size |-> free[i].size + block.size]
             wide == ReplaceAt(free, i, grown)
  <2>1. i \in 1..Len(free) /\ free[i].addr = End(block)
    BY <1>0, <1>7
  <2>2. GiveBack(free, block) = wide
    BY <1>7 DEF GiveBack
  <2> HIDE DEF i
  <2>3. grown.addr = block.addr /\ grown.size = free[i].size + block.size /\ grown \in Block
    BY <1>0, <1>1, <2>1 DEF Block
  <2> HIDE DEF grown
  <2>4. Inside(free[i]) \/ Inside(block) => Inside(grown)
    <3>1. End(grown) = End(free[i])
      BY <1>0, <1>1, <2>1, <2>3 DEF End
    <3> QED
      BY <1>9, <2>1, <2>3, <3>1 DEF Inside
  <2>5. /\ Len(wide) = Len(free)
        /\ \A j \in 1..Len(free) : wide[j] = IF j = i THEN grown ELSE free[j]
    BY <1>0, <2>1, <2>3, Replaced
  <2> HIDE DEF wide
  <2>6. \E j \in 1..Len(wide) : Inside(wide[j])
    BY <1>4, <2>1, <2>4, <2>5
  <2> QED
    BY <1>5, <2>2, <2>6
<1>8. CASE before = {} /\ after = {}
  <2> DEFINE wide == InsertAt(free, below + 1, block)
  <2>1. below \in 0..Len(free)
    BY <1>1, BelowFirst
  <2>2. GiveBack(free, block) = wide
    BY <1>8 DEF GiveBack
  <2> HIDE DEF below
  <2>3. below + 1 \in 1..(Len(free) + 1)
    BY <1>0, <2>1
  <2>4. /\ Len(wide) = Len(free) + 1
        /\ \A j \in 1..(Len(free) + 1) :
             wide[j] = IF j < below + 1 THEN free[j] ELSE IF j = below + 1 THEN block ELSE free[j - 1]
    <3>1. free \in Seq(Block) /\ block \in Block
      BY <1>0
    <3> QED
      BY ONLY <2>3, <3>1, Inserted DEF wide
  <2> HIDE DEF wide
  <2>5. below + 1 \in 1..Len(wide) /\ wide[below + 1] = block
    BY <1>0, <2>3, <2>4
  <2>6. ASSUME NEW j \in 1..Len(free)
        PROVE  \E k \in 1..Len(wide) : wide[k] = free[j]
    <3>1. CASE j < below + 1
      <4>1. j \in 1..Len(wide) /\ wide[j] = free[j]
        BY <1>0, <2>1, <2>4, <3>1
      <4> QED
        BY <4>1
    <3>2. CASE ~(j < below + 1)
      <4>1. j + 1 \in 1..Len(wide) /\ ~(j + 1 < below + 1) /\ j + 1 # below + 1 /\ (j + 1) - 1 = j
        BY <1>0, <2>1, <2>4, <3>2
      <4>2. wide[j + 1] = free[j]
        BY <2>4, <4>1
      <4> QED
        BY <4>1, <4>2
    <3> QED
      BY <3>1, <3>2
  <2>7. \E k \in 1..Len(wide) : Inside(wide[k])
    BY <1>4, <2>5, <2>6
  <2> QED
    BY <1>5, <2>2, <2>7
<1> QED
  BY <1>6, <1>7, <1>8

(* What is taken from the front of a block is all that is no longer free. *)
LEMMA TakenCovers ==
    ASSUME NEW free \in Seq(Block), NEW n \in Nat \ {0},
           NEW i \in 1..Len(free), free[i].size >= n,
           NEW left, left = IF Rest(free[i], n).size = 0 THEN RemoveAt(free, i)
                            ELSE ReplaceAt(free, i, Rest(free[i], n)),
           NEW c \in Nat, InFree(free, c)
    PROVE  InFree(left, c) \/ (free[i].addr <= c /\ c < free[i].addr + n)
<1> DEFINE e == Rest(free[i], n)
<1>0. /\ Len(free) \in Nat
      /\ \A j \in 1..Len(free) : /\ free[j] \in Block /\ free[j].addr \in Nat
                                 /\ free[j].size \in Nat \ {0} /\ End(free[j]) = free[j].addr + free[j].size
  BY BlocksOf
<1>1. e.addr = free[i].addr + n /\ e.size = free[i].size - n
  BY DEF Rest
<1> HIDE DEF e
<1>2. PICK j \in 1..Len(free) : free[j].addr <= c /\ c < End(free[j])
  BY DEF InFree
<1>3. CASE e.size = 0
  <2>1. left = RemoveAt(free, i)
    BY <1>3 DEF e
  <2>2. /\ Len(left) = Len(free) - 1
        /\ \A k \in 1..(Len(free) - 1) : left[k] = IF k < i THEN free[k] ELSE free[k + 1]
    <3>1. /\ Len(RemoveAt(free, i)) = Len(free) - 1
          /\ \A k \in 1..(Len(free) - 1) :
                RemoveAt(free, i)[k] = IF k < i THEN free[k] ELSE free[k + 1]
      <4>1. free \in Seq(Block) /\ i \in 1..Len(free)
        BY <1>0
      <4> QED
        BY ONLY <4>1, Removed
    <3> QED
      BY <2>1, <3>1
  <2>3. CASE j = i
    BY <1>0, <1>1, <1>2, <1>3, <2>3
  <2>4. CASE j < i
    <3>1. j \in 1..Len(left) /\ left[j] = free[j]
      <4>1. \A x, y \in 1..Len(free) : x < y => x \in 1..(Len(free) - 1)
        BY <1>0
      <4>2. j \in 1..(Len(free) - 1)
        BY <2>4, <4>1
      <4> QED
        BY <2>2, <2>4, <4>2
    <3> QED
      BY <1>2, <3>1 DEF InFree
  <2>5. CASE i < j
    <3>1. j - 1 \in 1..Len(left) /\ ~(j - 1 < i) /\ (j - 1) + 1 = j
      BY <1>0, <2>2, <2>5
    <3>2. left[j - 1] = free[j]
      BY <2>2, <3>1
    <3> QED
      BY <1>2, <3>1, <3>2 DEF InFree
  <2> QED
    BY <2>3, <2>4, <2>5
<1>4. CASE e.size # 0
  <2>1. left = ReplaceAt(free, i, e)
    BY <1>4 DEF e
  <2>2. e \in Block
    <3>1. free[i].addr + n \in Nat /\ free[i].size - n \in Nat \ {0}
      BY <1>0, <1>1, <1>4
    <3> QED
      BY <3>1 DEF e, Rest, Block
  <2>3. /\ Len(left) = Len(free)
        /\ \A k \in 1..Len(free) : left[k] = IF k = i THEN e ELSE free[k]
    <3>1. /\ Len(ReplaceAt(free, i, e)) = Len(free)
          /\ \A k \in 1..Len(free) : ReplaceAt(free, i, e)[k] = IF k = i THEN e ELSE free[k]
      <4>1. free \in Seq(Block) /\ i \in 1..Len(free)
        BY <1>0
      <4> HIDE DEF e
      <4> QED
        BY ONLY <2>2, <4>1, Replaced
    <3> QED
      BY <2>1, <3>1
  <2>4. CASE j = i
    <3>1. CASE c < free[i].addr + n
      BY <1>2, <2>4, <3>1
    <3>2. CASE ~(c < free[i].addr + n)
      <4>1. e.addr <= c /\ c < End(e)
        BY <1>0, <1>1, <1>2, <2>4, <3>2 DEF End
      <4> QED
        BY <2>3, <4>1 DEF InFree
    <3> QED
      BY <3>1, <3>2
  <2>5. CASE j # i
    <3>1. j \in 1..Len(left) /\ left[j] = free[j]
      BY <2>3, <2>5
    <3> QED
      BY <1>2, <3>1 DEF InFree
  <2> QED
    BY <2>4, <2>5
<1> QED
  BY <1>3, <1>4


(* The cells a tensor gets are all that is no longer free. *)
LEMMA TallocCovers ==
    ASSUME NEW ts, Shape(ts), NEW al \in Allocation(ts),
           NEW n \in DOMAIN ts, NEW r, r = TallocAlloc(ts, al, n), r.failed = FALSE,
           NEW c \in Nat, InFree(al.free, c)
    PROVE  InFree(r.free, c) \/ Spans(ts, r, n, c)
<1> DEFINE k == ts[n].size
           i == BestFit(al.free, k)
           block == al.free[i]
           rest == [addr |-> block.addr + k, size |-> block.size - k]
           left == IF rest.size = 0 THEN RemoveAt(al.free, i) ELSE ReplaceAt(al.free, i, rest)
           m == IF block.addr + k > al.max THEN block.addr + k ELSE al.max
           placed == [al.data EXCEPT ![n] = block.addr]
<1>1. k \in Nat \ {0} /\ al.free \in Seq(Block)
  BY SizesOf DEF Allocation
<1>2. i \in 0..Len(al.free) /\ (i # 0 => block.size >= k)
  BY <1>1, BestFitIn
<1>3. r = IF i = 0 THEN [al EXCEPT !.failed = TRUE]
          ELSE [al EXCEPT !.free = left, !.data[n] = block.addr, !.max = m]
  BY DEF TallocAlloc
<1> HIDE DEF i
<1>4. i # 0
  <2> SUFFICES ASSUME i = 0 PROVE FALSE
    OBVIOUS
  <2> HIDE DEF k, block, rest, left, m
  <2>1. r = [al EXCEPT !.failed = TRUE]
    BY <1>3
  <2> QED
    BY <2>1 DEF Allocation
<1>5. i \in 1..Len(al.free) /\ block.size >= k
  BY <1>1, <1>2, <1>4, LenProperties
<1>6. InFree(left, c) \/ (block.addr <= c /\ c < block.addr + k)
  <2>1. left = IF Rest(al.free[i], k).size = 0 THEN RemoveAt(al.free, i)
               ELSE ReplaceAt(al.free, i, Rest(al.free[i], k))
    BY DEF Rest
  <2> HIDE DEF k, left
  <2> QED
    BY <1>1, <1>5, <2>1, TakenCovers, SMTT(30)
<1>7. r.free = left /\ r.data[n] = block.addr
  <2> HIDE DEF k, block, rest, left, m
  <2>1. r = [al EXCEPT !.free = left, !.data[n] = block.addr, !.max = m]
    BY <1>3, <1>4
  <2>2. r.free = left /\ r.data = [al.data EXCEPT ![n] = block.addr]
    BY <2>1 DEF Allocation
  <2> QED
    BY <2>2 DEF Allocation
<1> QED
  BY <1>6, <1>7 DEF Spans

\* A graph, its nodes, and the tensors that have their memory.
Setting(ts, ns, P) ==
    /\ Shape(ts) /\ P \in SUBSET DOMAIN ts /\ Cache \in P
    /\ Len(ns) \in Nat /\ NodesOf(ns) \subseteq DOMAIN ts
    /\ \A t \in P : t \in NodesOf(ns) \/ ts[t].view = NoTensor

\* One reader of p less, seen from the counts: g says that it was the last
\* use of p.
LessBy(ts, al, r, p, b, g) ==
    /\ g <=> al.children[p] = 1 /\ al.views[p] = 0
    /\ r.data = al.data /\ r.view = al.view
    /\ \A t \in DOMAIN ts : r.children[t] = IF t = p THEN al.children[p] - 1 ELSE al.children[t]
    /\ \A t \in DOMAIN ts : r.views[t] = IF g /\ b # NoTensor /\ t = b
                                         THEN al.views[b] - 1 ELSE al.views[t]
    /\ \A t \in DOMAIN ts : /\ al.children[t] \in Nat /\ al.views[t] \in Nat
                            /\ r.children[t] \in Nat /\ r.views[t] \in Nat

(* What one reader less does to the counts, *)
LEMMA DropCounts ==
    ASSUME NEW ts, Shape(ts), NEW P \in SUBSET DOMAIN ts, NEW sz \in Nat,
           NEW al, Sound(ts, al, P, sz), NEW p \in P, al.children[p] > 0,
           NEW r, r = DropReader(ts, al, p)
    PROVE  LessBy(ts, al, r, p, al.view[p], al.children[p] = 1 /\ al.views[p] = 0)
<1> DEFINE base == al.view[p]
           f == IF base = NoTensor THEN p ELSE base
           g == al.children[p] = 1 /\ al.views[p] = 0
<1>0. al \in Allocation(ts) /\ Viewed(ts, al) /\ p \in DOMAIN ts
  BY DEF Sound
<1>1. base # NoTensor => base \in DOMAIN ts /\ base # p
  BY DEF Sound, Based
<1>2. DropEffect(ts, al, p, base, f, r)
  <2>1. base = al.view[p] /\ f = IF base = NoTensor THEN p ELSE base
    OBVIOUS
  <2> HIDE DEF base, f
  <2> QED
    BY <1>0, <1>1, <2>1, DropIs
<1>3. Sound(ts, r, P, sz)
  BY DropSound
<1>4. \A t \in DOMAIN ts : /\ al.children[t] \in Nat /\ al.views[t] \in Nat
                           /\ r.children[t] \in Nat /\ r.views[t] \in Nat
  BY <1>0, <1>3, ActiveCounts DEF Sound
<1>5. al.children \in [DOMAIN ts -> Int] /\ al.views \in [DOMAIN ts -> Int]
  BY <1>0 DEF Allocation
<1> HIDE DEF base, f, g
<1>6. /\ r.data = al.data /\ r.view = al.view
      /\ r.children = [al.children EXCEPT ![p] = @ - 1]
      /\ r.views = IF r.children[p] = 0 /\ al.views[p] = 0 /\ base # NoTensor
                   THEN [al.views EXCEPT ![base] = @ - 1] ELSE al.views
  BY <1>2 DEF DropEffect
<1>7. \A t \in DOMAIN ts : r.children[t] = IF t = p THEN al.children[p] - 1 ELSE al.children[t]
  BY <1>0, <1>5, <1>6
<1>8. g <=> r.children[p] = 0 /\ al.views[p] = 0
  BY <1>0, <1>4, <1>7 DEF g
<1>9. \A t \in DOMAIN ts : r.views[t] = IF g /\ base # NoTensor /\ t = base
                                        THEN al.views[base] - 1 ELSE al.views[t]
  <2>1. CASE g /\ base # NoTensor
    <3>1. r.views = [al.views EXCEPT ![base] = @ - 1]
      BY <1>6, <1>8, <2>1
    <3> QED
      BY <1>1, <1>5, <2>1, <3>1
  <2>2. CASE ~(g /\ base # NoTensor)
    <3>1. r.views = al.views
      BY <1>6, <1>8, <2>2
    <3> QED
      BY <2>2, <3>1
  <2> QED
    BY <2>1, <2>2
<1> QED
  BY <1>4, <1>6, <1>7, <1>9 DEF LessBy, base, g

(* and to the free blocks: whose last reader and view are gone is free. *)
LEMMA DropFrees ==
    ASSUME NEW ts, Shape(ts), NEW P \in SUBSET DOMAIN ts, NEW sz \in Nat,
           NEW al, Sound(ts, al, P, sz), NEW p \in P, al.children[p] > 0,
           NEW r, r = DropReader(ts, al, p),
           NEW f, f = IF al.view[p] = NoTensor THEN p ELSE al.view[p],
           NEW c \in Nat,
           \/ InFree(al.free, c)
           \/ /\ al.children[p] = 1 /\ al.views[p] = 0 /\ ~Active(r, f)
              /\ Own(ts, f) /\ Spans(ts, al, f, c)
    PROVE  InFree(r.free, c)
<1> DEFINE base == al.view[p]
           block == [addr |-> al.data[f], size |-> ts[f].size]
           freed == /\ r.children[p] = 0 /\ al.views[p] = 0
                    /\ r.children[f] = 0 /\ r.views[f] = 0 /\ al.data[f] >= 0
<1>0. /\ al \in Allocation(ts) /\ Viewed(ts, al) /\ p \in DOMAIN ts
  BY DEF Sound
<1>1. base # NoTensor => base \in DOMAIN ts /\ base # p /\ base \in P /\ ts[base].view = NoTensor
  BY DEF Sound, Based
<1>2. DropEffect(ts, al, p, base, f, r)
  <2>1. base = al.view[p] /\ f = IF base = NoTensor THEN p ELSE base
    OBVIOUS
  <2> HIDE DEF base
  <2> QED
    BY <1>0, <1>1, <2>1, DropIs
<1>3. LessBy(ts, al, r, p, base, al.children[p] = 1 /\ al.views[p] = 0)
  BY DropCounts
<1>4. r.free = IF freed THEN GiveBack(al.free, block) ELSE al.free
  BY <1>2 DEF DropEffect
<1>5. f \in P /\ f \in DOMAIN ts
  BY <1>0, <1>1
<1> HIDE DEF base
<1>6. /\ r.children[p] = al.children[p] - 1 /\ al.children[p] \in Nat
      /\ r.children[f] \in Nat /\ r.views[f] \in Nat
  BY <1>0, <1>3, <1>5 DEF LessBy
<1>7. CASE ~freed
  <2>1. InFree(al.free, c)
    <3> SUFFICES ASSUME /\ al.children[p] = 1 /\ al.views[p] = 0 /\ ~Active(r, f)
                        /\ Own(ts, f)
                 PROVE  FALSE
      OBVIOUS
    <3>1. al.data[f] >= 0
      BY <1>5 DEF Sound, Lies
    <3>2. r.children[p] = 0 /\ r.children[f] = 0 /\ r.views[f] = 0
      BY <1>6 DEF Active
    <3> QED
      BY <1>7, <3>1, <3>2
  <2> QED
    BY <1>4, <1>7, <2>1
<1>8. CASE freed
  <2>1. ts[f].view = NoTensor /\ Held(ts, al, f)
    <3>1. CASE base = NoTensor
      <4>1. f = p /\ ts[p].view = NoTensor
        BY <1>0, <3>1 DEF base, Sound, Based
      <4> QED
        BY <1>0, <4>1 DEF Held
    <3>2. CASE base # NoTensor
      <4>1. f = base
        BY <3>2 DEF base
      <4>2. al.view[p] = f /\ al.children[p] > 0
        BY <4>1 DEF base
      <4> QED
        BY <1>0, <1>1, <3>2, <4>1, <4>2 DEF Held
    <3> QED
      BY <3>1, <3>2
  <2>2. Own(ts, f) /\ al.data[f] \in Nat /\ al.data[f] + ts[f].size <= sz
    <3>1. al.data[f] >= 0
      BY <1>8
    <3>2. Own(ts, f)
      BY <1>5, <2>1, <3>1 DEF Sound, Lies, Foreign
    <3> QED
      BY <1>5, <2>1, <3>2 DEF Sound, Lies
  <2>3. ts[f].size \in Nat \ {0}
    BY <1>5, SizesOf
  <2>4. /\ block \in Block /\ block.addr = al.data[f] /\ End(block) = al.data[f] + ts[f].size
    BY <2>2, <2>3 DEF Block, End
  <2>5. Clear(al.free, block.addr, End(block))
    BY <1>5, <2>1, <2>2, <2>4 DEF Sound, HeldNotFree
  <2>6. InFree(al.free, c) \/ (block.addr <= c /\ c < End(block))
    BY <2>4 DEF Spans
  <2>7. Sorted(al.free, sz)
    BY DEF Sound
  <2> HIDE DEF block
  <2>8. InFree(GiveBack(al.free, block), c)
    BY <2>4, <2>5, <2>6, <2>7, GiveBackCovers
  <2> QED
    BY <1>4, <1>8, <2>8
<1> QED
  BY <1>7, <1>8


(* A set that loses at most one element loses at most one. *)
LEMMA AlmostAll ==
    ASSUME NEW S, NEW T, IsFiniteSet(T), NEW x, S \subseteq T \cup {x}
    PROVE  /\ Cardinality(S) <= Cardinality(T) + 1
           /\ Cardinality(S) \in Nat /\ Cardinality(T) \in Nat
<1>0. Cardinality(T) \in Nat
  BY FS_CardinalityType
<1>1. IsFiniteSet(T \cup {x}) /\ Cardinality(T \cup {x}) <= Cardinality(T) + 1
  <2>1. CASE x \in T
    <3>1. T \cup {x} = T
      BY <2>1
    <3>2. Cardinality(T) <= Cardinality(T) + 1
      BY <1>0
    <3> QED
      BY <3>1, <3>2
  <2>2. CASE x \notin T
    <3>1. IsFiniteSet(T \cup {x}) /\ Cardinality(T \cup {x}) = Cardinality(T) + 1
      BY <2>2, FS_AddElement
    <3> QED
      BY <1>0, <3>1
  <2> QED
    BY <2>1, <2>2
<1>2. IsFiniteSet(S) /\ Cardinality(S) <= Cardinality(T \cup {x})
  BY <1>1, FS_Subset
<1>3. Cardinality(S) \in Nat /\ Cardinality(T \cup {x}) \in Nat
  BY <1>1, <1>2, FS_CardinalityType
<1> QED
  BY <1>0, <1>1, <1>2, <1>3

(* There are finitely many nodes, and views among them. *)
LEMMA ViewersFinite ==
    ASSUME NEW ts, NEW ns, Len(ns) \in Nat, NEW al, NEW b
    PROVE  /\ IsFiniteSet(NodesOf(ns))
           /\ IsFiniteSet(Viewers(ts, ns, al, b)) /\ Cardinality(Viewers(ts, ns, al, b)) \in Nat
<1> DEFINE I == 1..Len(ns)
           f == [i \in I |-> ns[i]]
           N == NodesOf(ns)
<1>1. IsFiniteSet(I)
  BY FS_Interval
<1>2. f \in Surjection(I, N)
  <2>1. f \in [I -> N] /\ \A u \in N : \E i \in I : f[i] = u
    BY DEF NodesOf
  <2> HIDE DEF f, I, N
  <2> QED
    BY <2>1 DEF Surjection
<1> HIDE DEF f, I
<1>3. IsFiniteSet(N)
  <2> HIDE DEF N
  <2> QED
    BY <1>1, <1>2, FS_Surjection
<1>4. Viewers(ts, ns, al, b) \subseteq N
  BY DEF Viewers
<1> QED
  BY <1>3, <1>4, FS_Subset, FS_CardinalityType

(* One reader less loses no cell. *)
LEMMA DropFull ==
    ASSUME NEW ts, NEW ns, NEW P, Setting(ts, ns, P), NEW sz \in Nat,
           NEW al, Sound(ts, al, P, sz), Full(ts, ns, al, P, sz),
           NEW p \in P, al.children[p] > 0, Reads(ts, ns, p),
           NEW r, r = DropReader(ts, al, p)
    PROVE  Full(ts, ns, r, P, sz)
<1> DEFINE base == al.view[p]
           f == IF base = NoTensor THEN p ELSE base
           g == al.children[p] = 1 /\ al.views[p] = 0
           N == NodesOf(ns)
<1>0. /\ Shape(ts) /\ P \in SUBSET DOMAIN ts /\ Len(ns) \in Nat /\ N \subseteq DOMAIN ts
      /\ p \in DOMAIN ts /\ 0 \notin DOMAIN ts
      /\ \A t \in DOMAIN ts : ts[t].size \in Nat /\ ts[t].size > 0
      /\ al \in Allocation(ts) /\ Viewed(ts, al)
  BY SizesOf DEF Setting, Sound
<1>1. base # NoTensor => /\ base \in DOMAIN ts /\ base # p /\ base \in P
                         /\ ts[base].view = NoTensor /\ p \in N
  <2>1. base # NoTensor => base \in DOMAIN ts /\ base # p /\ base \in P /\ ts[base].view = NoTensor
    BY <1>0 DEF Sound, Based
  <2>2. base # NoTensor => p \in N
    BY <1>0 DEF Setting, Full, NodesTake
  <2> QED
    BY <2>1, <2>2
<1>2. LessBy(ts, al, r, p, base, g)
  BY <1>0, DropCounts
<1>3. \A c \in Nat : \/ InFree(al.free, c)
                     \/ g /\ ~Active(r, f) /\ Own(ts, f) /\ Spans(ts, al, f, c)
                     => InFree(r.free, c)
  <2> SUFFICES ASSUME NEW c \in Nat,
                      \/ InFree(al.free, c)
                      \/ g /\ ~Active(r, f) /\ Own(ts, f) /\ Spans(ts, al, f, c)
               PROVE  InFree(r.free, c)
    OBVIOUS
  <2>1. f = IF al.view[p] = NoTensor THEN p ELSE al.view[p]
    OBVIOUS
  <2> HIDE DEF f
  <2> QED
    BY <1>0, <2>1, DropFrees
<1> HIDE DEF base, g, N
<1>4. \A t \in DOMAIN ts : /\ r.view[t] = al.view[t] /\ r.data[t] = al.data[t]
                           /\ r.views[t] <= al.views[t]
  BY <1>2 DEF LessBy
<1>5. \A t \in DOMAIN ts : Active(al, t) /\ ~Active(r, t) => g /\ t \in {p, base}
  <2> SUFFICES ASSUME NEW t \in DOMAIN ts, Active(al, t), ~Active(r, t)
               PROVE  g /\ t \in {p, base}
    OBVIOUS
  <2>1. CASE t = p
    <3>1. r.views[p] = 0 /\ r.children[p] = 0 /\ r.children[p] = al.children[p] - 1
      BY <1>0, <1>2, <2>1 DEF LessBy, Active
    <3>2. r.views[p] = al.views[p]
      BY <1>0, <1>1, <1>2 DEF LessBy
    <3> QED
      BY <1>0, <1>2, <2>1, <3>1, <3>2 DEF LessBy
  <2>2. CASE t # p
    <3>1. r.children[t] = al.children[t]
      BY <1>2, <2>2 DEF LessBy
    <3>2. r.views[t] # al.views[t]
      BY <3>1 DEF Active
    <3> QED
      BY <1>2, <3>2 DEF LessBy
  <2> QED
    BY <2>1, <2>2
<1>6. \A t \in DOMAIN ts : Wholly(ts, r, t) <=> Wholly(ts, al, t)
  BY <1>4 DEF Wholly
<1>7. Covered(ts, ns, r, P, sz)
  <2> SUFFICES ASSUME NEW c \in 0..(sz - 1)
               PROVE  InFree(r.free, c) \/ \E t \in P : Holder(ts, ns, r, t, c)
    BY DEF Covered
  <2>1. c \in Nat
    OBVIOUS
  <2>2. CASE InFree(al.free, c)
    BY <1>3, <2>1, <2>2
  <2>3. ASSUME NEW t \in P, Holder(ts, ns, al, t, c)
        PROVE  InFree(r.free, c) \/ Holder(ts, ns, r, t, c)
    <3>1. t \in DOMAIN ts /\ ts[t].view = NoTensor /\ Own(ts, t) /\ Spans(ts, al, t, c)
      BY <1>0, <2>3 DEF Holder
    <3>2. Spans(ts, r, t, c)
      BY <1>4, <3>1 DEF Spans
    <3>3. CASE ~Reads(ts, ns, t) \/ Active(r, t)
      BY <1>6, <2>3, <3>1, <3>2, <3>3 DEF Holder, Keeps
    <3>4. CASE Reads(ts, ns, t) /\ ~Active(r, t)
      <4>1. Active(al, t) /\ g /\ t \in {p, base}
        BY <1>5, <2>3, <3>1, <3>4 DEF Holder, Keeps
      <4>2. CASE t = f
        BY <1>3, <2>1, <3>1, <3>4, <4>1, <4>2
      <4>3. CASE t # f
        <5>1. t = p /\ base # NoTensor /\ f = base
          BY <1>0, <4>1, <4>3 DEF NoTensor
        <5>2. Taken(ts, al, base)
          BY <1>0, <3>1, <5>1 DEF Taken, base
        <5>3. al.views[base] <= 1 /\ al.children[base] = 0
          BY <1>1, <5>1, <5>2 DEF Full, OneTaker, Sound, TakenAlone
        <5>4. r.views[base] = 0 /\ r.children[base] = 0
          BY <1>1, <1>2, <4>1, <5>1, <5>3 DEF LessBy
        <5>5. ~Active(r, base)
          BY <5>4 DEF Active
        <5>6. Own(ts, base) /\ al.data[base] <= al.data[p]
              /\ al.data[p] + ts[p].size <= al.data[base] + ts[base].size
              /\ al.data[p] \in Nat
          BY <1>0, <3>1, <5>1 DEF Sound, Lies, base
        <5>7. al.data[base] \in Int /\ ts[p].size \in Nat /\ ts[base].size \in Nat
          BY <1>0, <1>1, <5>1 DEF Allocation
        <5>8. Spans(ts, al, base, c)
          BY <2>1, <3>1, <5>1, <5>6, <5>7 DEF Spans
        <5> QED
          BY <1>3, <2>1, <4>1, <5>1, <5>5, <5>6, <5>8
      <4> QED
        BY <4>2, <4>3
    <3> QED
      BY <3>3, <3>4
  <2> QED
    BY <2>2, <2>3 DEF Full, Covered
<1>8. ASSUME NEW b \in DOMAIN ts, NEW u \in Viewers(ts, ns, al, b), u \notin Viewers(ts, ns, r, b)
      PROVE  u = p /\ g /\ b = base
  <2>1. u \in N /\ u \in DOMAIN ts /\ al.view[u] = b /\ r.view[u] = b
    BY <1>0, <1>4 DEF Viewers, N
  <2>2. Active(al, u) /\ ~Active(r, u) /\ Reads(ts, ns, u) /\ ~Detached(ts, ns, al, u)
    BY <1>8, <2>1, <1>4 DEF Viewers, Detached, N
  <2>3. g /\ u \in {p, base}
    BY <1>5, <2>1, <2>2
  <2>4. CASE u = base
    <3>1. base # NoTensor /\ al.view[base] # NoTensor
      BY <1>0, <2>1, <2>4 DEF NoTensor
    <3>2. p \in N /\ ts[base].view = NoTensor
      BY <1>1, <3>1
    <3>3. \E v \in N : ts[v].view = base
      BY <3>1, <3>2 DEF Full, SecondLevel, base, N
    <3> QED
      BY <2>2, <2>4, <3>1, <3>2, <3>3 DEF Detached, N
  <2>5. CASE u = p
    BY <2>1, <2>3, <2>5 DEF base
  <2> QED
    BY <2>3, <2>4, <2>5
<1>9. NoneExtra(ts, ns, r)
  <2> SUFFICES ASSUME NEW b \in DOMAIN ts
               PROVE  r.views[b] <= Cardinality(Viewers(ts, ns, r, b))
    BY DEF NoneExtra
  <2> DEFINE S == Viewers(ts, ns, al, b)
             T == Viewers(ts, ns, r, b)
  <2>1. IsFiniteSet(S) /\ IsFiniteSet(T) /\ Cardinality(S) \in Nat /\ Cardinality(T) \in Nat
    BY <1>0, ViewersFinite
  <2>2. al.views[b] <= Cardinality(S) /\ al.views[b] \in Nat /\ r.views[b] \in Nat
    BY <1>2 DEF Full, NoneExtra, LessBy
  <2>3. CASE g /\ b = base
    <3>1. S \subseteq T \cup {p}
      BY <1>8
    <3> HIDE DEF S, T
    <3>2. Cardinality(S) <= Cardinality(T) + 1
      BY <2>1, <3>1, AlmostAll
    <3>3. r.views[b] = al.views[b] - 1
      BY <1>0, <1>2, <2>3 DEF LessBy, NoTensor
    <3>4. r.views[b] <= Cardinality(T)
      BY <2>1, <2>2, <3>2, <3>3
    <3> QED
      BY <3>4 DEF T
  <2>4. CASE ~(g /\ b = base)
    <3>1. S \subseteq T
      BY <1>8, <2>4
    <3> HIDE DEF S, T
    <3>2. Cardinality(S) <= Cardinality(T)
      BY <2>1, <3>1, FS_Subset
    <3>3. r.views[b] = al.views[b]
      BY <1>2, <2>4 DEF LessBy
    <3>4. r.views[b] <= Cardinality(T)
      BY <2>1, <2>2, <3>2, <3>3
    <3> QED
      BY <3>4 DEF T
  <2> QED
    BY <2>3, <2>4
<1>10. OneTaker(ts, r)
  <2> SUFFICES ASSUME NEW b \in DOMAIN ts, Taken(ts, r, b) PROVE r.views[b] <= 1
    BY DEF OneTaker
  <2>1. Taken(ts, al, b)
    BY <1>4 DEF Taken
  <2>2. al.views[b] <= 1 /\ r.views[b] <= al.views[b] /\ al.views[b] \in Nat /\ r.views[b] \in Nat
    BY <1>2, <1>4, <2>1 DEF Full, OneTaker, LessBy
  <2> QED
    BY <2>2
<1>11. SecondLevel(ts, ns, r) /\ NodesTake(ts, ns, r)
  BY <1>2 DEF Full, SecondLevel, NodesTake, LessBy
<1> QED
  BY <1>7, <1>9, <1>10, <1>11 DEF Full


(* Node n has taken over the memory of p, and its reader is gone: what p or *)
(* its base held, n holds.                                                 *)
LEMMA TakeFull ==
    ASSUME NEW ts, NEW ns, NEW P, Setting(ts, ns, P), NEW sz \in Nat,
           NEW al, Sound(ts, al, P, sz), Full(ts, ns, al, P, sz),
           NEW n \in NodesOf(ns), n \notin P, ts[n].view = NoTensor, n # Cache,
           al.children[n] > 0 \/ ~Reads(ts, ns, n),
           NEW p \in P, Reads(ts, ns, p),
           NEW o, TakesOver(ts, al, n, p, o), NEW al2, Took(ts, al, al2, n, p, o)
    PROVE  Full(ts, ns, al2, P \cup {n}, sz)
<1> DEFINE Base(t) == al.view[t]
           Q == P \cup {n}
           N == NodesOf(ns)
<1>0. /\ Shape(ts) /\ P \in SUBSET DOMAIN ts /\ Len(ns) \in Nat /\ N \subseteq DOMAIN ts
      /\ p \in DOMAIN ts /\ n \in DOMAIN ts /\ p # n /\ 0 \notin DOMAIN ts
      /\ \A t \in DOMAIN ts : ts[t].size \in Nat /\ ts[t].size > 0
      /\ al \in Allocation(ts) /\ Viewed(ts, al)
  BY SizesOf DEF Setting, Sound
<1>1. /\ \A t \in DOMAIN ts : /\ al.children[t] \in Nat /\ al.views[t] \in Nat
                              /\ al.view[t] \in Int /\ al.data[t] \in Int
      /\ \A t, b \in DOMAIN ts : Base(t) = b /\ Active(al, t) => al.views[b] > 0
  <2>1. \A t \in DOMAIN ts : al.view[t] \in Int /\ al.data[t] \in Int
    BY <1>0, ZenonT(60) DEF Allocation
  <2> QED
    BY <1>0, <2>1, ActiveCounts
<1>2. /\ \A t \in DOMAIN ts : Base(t) # NoTensor =>
            /\ Base(t) \in DOMAIN ts /\ Base(t) # t /\ ts[Base(t)].view = NoTensor
            /\ t \in P => Base(t) \in P /\ Base(t) # n
      /\ \A t \in DOMAIN ts : ts[t].view # NoTensor \/ t \notin P => Base(t) = ts[t].view
      /\ Base(n) = NoTensor
  BY <1>0 DEF Sound, Based
<1>3. /\ al.children[p] = 1 /\ al.views[p] = 0 /\ ts[n].size = ts[p].size
      /\ Base(p) = NoTensor => o = p
      /\ Base(p) # NoTensor => o = Base(p) /\ o # p /\ p \in N
      /\ o \in P /\ o \in DOMAIN ts /\ o # n
      /\ al.data[o] = al.data[p]
  <2>1. Base(p) # NoTensor => p \in N
    BY <1>0 DEF Setting, Full, NodesTake
  <2> QED
    BY <1>0, <1>2, <2>1 DEF TakesOver
<1>4. /\ \A t \in DOMAIN ts : al2.view[t] = IF t = n THEN o ELSE Base(t)
      /\ \A t \in DOMAIN ts : al2.data[t] = IF t = n THEN al.data[o] ELSE al.data[t]
      /\ \A t \in DOMAIN ts : al2.children[t] = IF t = p THEN 0 ELSE al.children[t]
      /\ \A t \in DOMAIN ts : al2.views[t] = IF t = o THEN 1 ELSE al.views[t]
      /\ al2.free = al.free
  BY <1>0 DEF Took, Allocation
<1> HIDE DEF Base, N, Q
<1>5. /\ Active(al2, o)
      /\ \A t \in DOMAIN ts : Active(al, t) /\ ~Active(al2, t) => t = p /\ p # o
  <2>1. Active(al2, o)
    BY <1>3, <1>4 DEF Active
  <2>2. ASSUME NEW t \in DOMAIN ts, Active(al, t), ~Active(al2, t) PROVE t = p /\ p # o
    <3>1. t # o
      BY <2>1, <2>2
    <3>2. al2.views[t] = al.views[t]
      BY <1>4, <3>1
    <3>3. t = p
      BY <1>4, <2>2, <3>2 DEF Active
    <3> QED
      BY <3>1, <3>3
  <2> QED
    BY <2>1, <2>2
<1>6. Keeps(ts, ns, al2, n) /\ Own(ts, n)
  <2>1. CASE ~Reads(ts, ns, n)
    BY <2>1 DEF Keeps, Own, Cache, NoTensor
  <2>2. CASE al.children[n] > 0
    <3>1. Active(al2, n)
      BY <1>0, <1>4, <2>2 DEF Active
    <3>2. ~Wholly(ts, al2, n)
      <4> SUFFICES ASSUME NEW u \in DOMAIN ts, ts[u].view = NoTensor, al2.view[u] = n PROVE FALSE
        BY DEF Wholly
      <4>1. u # n /\ Base(u) = n
        BY <1>3, <1>4
      <4>2. u \notin P
        BY <1>0, <1>2, <4>1 DEF NoTensor
      <4> QED
        BY <1>0, <1>2, <4>1, <4>2 DEF NoTensor
    <3> QED
      BY <3>1, <3>2 DEF Keeps, Own, Cache, NoTensor
  <2> QED
    BY <2>1, <2>2
<1>7. \A c : Spans(ts, al, p, c) => Holder(ts, ns, al2, n, c)
  <2> SUFFICES ASSUME NEW c, Spans(ts, al, p, c) PROVE Holder(ts, ns, al2, n, c)
    OBVIOUS
  <2>1. al2.data[n] = al.data[p] /\ ts[n].size = ts[p].size
    BY <1>0, <1>3, <1>4
  <2>2. Spans(ts, al2, n, c)
    BY <2>1 DEF Spans
  <2> QED
    BY <1>6, <2>2 DEF Holder
<1>8. Covered(ts, ns, al2, Q, sz)
  <2> SUFFICES ASSUME NEW c \in 0..(sz - 1)
               PROVE  InFree(al2.free, c) \/ \E t \in Q : Holder(ts, ns, al2, t, c)
    BY DEF Covered
  <2>1. CASE InFree(al.free, c)
    BY <1>4, <2>1
  <2>2. ASSUME NEW t \in P, Holder(ts, ns, al, t, c)
        PROVE  \E u \in Q : Holder(ts, ns, al2, u, c)
    <3>1. t \in DOMAIN ts /\ t # n /\ ts[t].view = NoTensor /\ Own(ts, t) /\ Spans(ts, al, t, c)
      BY <1>0, <2>2 DEF Holder
    <3>2. Spans(ts, al2, t, c)
      BY <1>4, <3>1 DEF Spans
    <3>3. CASE Keeps(ts, ns, al2, t)
      BY <3>1, <3>2, <3>3 DEF Holder, Q
    <3>4. CASE ~Keeps(ts, ns, al2, t)
      <4>1. Active(al, t) /\ ~Wholly(ts, al, t) /\ (~Active(al2, t) \/ Wholly(ts, al2, t))
        BY <2>2, <3>4 DEF Holder, Keeps
      <4>2. CASE ~Active(al2, t)
        <5>1. t = p
          BY <1>5, <3>1, <4>1, <4>2
        <5> QED
          BY <1>7, <3>1, <5>1 DEF Q
      <4>3. CASE Wholly(ts, al2, t)
        <5>1. PICK u \in DOMAIN ts : ts[u].view = NoTensor /\ al2.view[u] = t /\ ts[u].size = ts[t].size
          BY <4>3 DEF Wholly
        <5>2. u = n
          <6> SUFFICES ASSUME u # n PROVE FALSE
            OBVIOUS
          <6>1. al.view[u] = t
            BY <1>4, <5>1 DEF Base
          <6> QED
            BY <4>1, <5>1, <6>1 DEF Wholly
        <5>3. t = o /\ ts[p].size = ts[t].size
          BY <1>0, <1>3, <1>4, <5>1, <5>2
        <5>4. Spans(ts, al, p, c)
          BY <1>3, <3>1, <5>3 DEF Spans
        <5> QED
          BY <1>7, <5>4 DEF Q
      <4> QED
        BY <4>1, <4>2, <4>3
    <3> QED
      BY <3>3, <3>4
  <2> QED
    BY <2>1, <2>2 DEF Full, Covered
<1>9. NoneExtra(ts, ns, al2)
  <2> SUFFICES ASSUME NEW b \in DOMAIN ts
               PROVE  al2.views[b] <= Cardinality(Viewers(ts, ns, al2, b))
    BY DEF NoneExtra
  <2> DEFINE S == Viewers(ts, ns, al, b)
             T == Viewers(ts, ns, al2, b)
  <2>1. IsFiniteSet(S) /\ IsFiniteSet(T) /\ Cardinality(S) \in Nat /\ Cardinality(T) \in Nat
    BY <1>0, ViewersFinite
  <2>2. CASE b = o
    <3>1. n \in T
      <4>1. Active(al2, n) \/ ~Reads(ts, ns, n)
        BY <1>6 DEF Keeps
      <4> QED
        BY <1>0, <1>4, <2>2, <4>1 DEF Viewers
    <3> HIDE DEF T
    <3>2. Cardinality(T) # 0
      BY <2>1, <3>1, FS_EmptySet
    <3>3. al2.views[b] = 1
      BY <1>4, <2>2
    <3>4. al2.views[b] <= Cardinality(T)
      BY <2>1, <3>2, <3>3
    <3> QED
      BY <3>4 DEF T
  <2>3. CASE b # o
    <3>1. ASSUME NEW u \in S
          PROVE  u \in T
      <4>1. u \in NodesOf(ns) /\ u \in DOMAIN ts /\ al.view[u] = b
        BY <1>0 DEF Viewers, N
      <4>2. u # n
        BY <1>0, <1>2, <4>1 DEF Base, NoTensor
      <4>3. al2.view[u] = b
        BY <1>4, <4>1, <4>2 DEF Base
      <4>4. CASE Active(al, u)
        <5>1. Active(al2, u)
          <6> SUFFICES ASSUME ~Active(al2, u) PROVE FALSE
            OBVIOUS
          <6>1. u = p /\ p # o
            BY <1>5, <4>1, <4>4
          <6> QED
            BY <1>3, <2>3, <4>1, <6>1 DEF Base
        <5> QED
          BY <4>1, <4>3, <5>1 DEF Viewers
      <4>5. CASE ~Reads(ts, ns, u)
        BY <4>1, <4>3, <4>5 DEF Viewers
      <4>6. CASE Detached(ts, ns, al, u)
        <5>1. Detached(ts, ns, al2, u)
          BY <4>1, <4>3, <4>6 DEF Detached
        <5> QED
          BY <4>1, <4>3, <5>1 DEF Viewers
      <4> QED
        BY <4>4, <4>5, <4>6 DEF Viewers
    <3>2. S \subseteq T
      BY <3>1
    <3> HIDE DEF S, T
    <3>3. Cardinality(S) <= Cardinality(T)
      BY <2>1, <3>2, FS_Subset
    <3>4. al2.views[b] = al.views[b] /\ al.views[b] \in Nat
      BY <1>1, <1>4, <2>3
    <3>5. al.views[b] <= Cardinality(S)
      BY DEF Full, NoneExtra, S
    <3>6. al2.views[b] <= Cardinality(T)
      BY <2>1, <3>3, <3>4, <3>5
    <3> QED
      BY <3>6 DEF T
  <2> QED
    BY <2>2, <2>3
<1>10. OneTaker(ts, al2)
  <2> SUFFICES ASSUME NEW b \in DOMAIN ts, Taken(ts, al2, b), b # o PROVE al2.views[b] <= 1
    <3>1. al2.views[o] <= 1
      BY <1>3, <1>4
    <3> QED
      BY <3>1 DEF OneTaker
  <2>1. PICK u \in DOMAIN ts : ts[u].view = NoTensor /\ al2.view[u] = b
    BY DEF Taken
  <2>2. u # n
    BY <1>0, <1>4, <2>1
  <2>3. al.view[u] = b
    BY <1>4, <2>1, <2>2 DEF Base
  <2>4. Taken(ts, al, b)
    BY <2>1, <2>3 DEF Taken
  <2> QED
    BY <1>4, <2>4 DEF Full, OneTaker
<1>11. SecondLevel(ts, ns, al2)
  <2> SUFFICES ASSUME NEW u \in N, al2.view[u] # NoTensor, al2.view[al2.view[u]] # NoTensor
               PROVE  \E v \in N : ts[v].view = al2.view[u]
    BY DEF SecondLevel, N
  <2>0. u \in DOMAIN ts
    BY <1>0
  <2>1. CASE u = n
    <3>1. al2.view[u] = o /\ al2.view[o] = Base(o) /\ Base(o) # NoTensor
      BY <1>3, <1>4, <2>0, <2>1
    <3>2. o = Base(p) /\ p \in N
      BY <1>3, <3>1
    <3>3. \E v \in N : ts[v].view = o
      BY <1>0, <3>1, <3>2 DEF Full, SecondLevel, N, Base, NoTensor
    <3> QED
      BY <3>1, <3>3
  <2>2. CASE u # n
    <3>1. al2.view[u] = Base(u) /\ Base(u) # NoTensor /\ Base(u) \in DOMAIN ts
      BY <1>2, <1>4, <2>0, <2>2
    <3>2. CASE Base(u) = n
      <4>1. u \notin P
        BY <1>2, <2>0, <3>1, <3>2
      <4>2. ts[u].view = n
        BY <1>2, <2>0, <3>2, <4>1
      <4> QED
        BY <3>1, <3>2, <4>2
    <3>3. CASE Base(u) # n
      <4>1. al2.view[Base(u)] = al.view[Base(u)]
        BY <1>4, <3>1, <3>3 DEF Base
      <4> QED
        BY <3>1, <4>1 DEF Full, SecondLevel, N, Base
    <3> QED
      BY <3>2, <3>3
  <2> QED
    BY <2>1, <2>2
<1>12. NodesTake(ts, ns, al2)
  BY <1>4 DEF Full, NodesTake, Base
<1> QED
  BY <1>8, <1>9, <1>10, <1>11, <1>12 DEF Full, Q

\* Only the free blocks and the address of n differ.
Laying(ts, al, al2, n) ==
    /\ al2.view = al.view /\ al2.children = al.children /\ al2.views = al.views
    /\ \A t \in DOMAIN ts : t # n => al2.data[t] = al.data[t]

(* A node that only gets its address loses no cell, if it holds what is no *)
(* longer free.                                                            *)
LEMMA LayFull ==
    ASSUME NEW ts, NEW ns, NEW P, Setting(ts, ns, P), NEW sz \in Nat,
           NEW al, Sound(ts, al, P, sz), Full(ts, ns, al, P, sz),
           NEW n \in DOMAIN ts, n \notin P,
           NEW al2, Laying(ts, al, al2, n),
           \A c \in Nat : InFree(al.free, c) =>
              InFree(al2.free, c) \/ Holder(ts, ns, al2, n, c)
    PROVE  Full(ts, ns, al2, P \cup {n}, sz)
<1>0. P \in SUBSET DOMAIN ts
  BY DEF Setting
<1>1. /\ \A t : Active(al2, t) <=> Active(al, t)
      /\ \A t : Wholly(ts, al2, t) <=> Wholly(ts, al, t)
      /\ \A t : Detached(ts, ns, al2, t) <=> Detached(ts, ns, al, t)
  BY DEF Laying, Active, Wholly, Detached
<1>2. \A b : Viewers(ts, ns, al2, b) = Viewers(ts, ns, al, b)
  BY <1>1 DEF Laying, Viewers
<1>3. ASSUME NEW t \in P, NEW c, Holder(ts, ns, al, t, c)
      PROVE  Holder(ts, ns, al2, t, c)
  <2>1. al2.data[t] = al.data[t]
    BY <1>0 DEF Laying
  <2> QED
    BY <1>1, <1>3, <2>1 DEF Holder, Keeps, Spans
<1>4. Covered(ts, ns, al2, P \cup {n}, sz)
  <2> SUFFICES ASSUME NEW c \in 0..(sz - 1)
               PROVE  InFree(al2.free, c) \/ \E t \in P \cup {n} : Holder(ts, ns, al2, t, c)
    BY DEF Covered
  <2>1. c \in Nat
    OBVIOUS
  <2>2. InFree(al.free, c) \/ \E t \in P : Holder(ts, ns, al, t, c)
    BY DEF Full, Covered
  <2> QED
    BY <1>3, <2>1, <2>2
<1>5. NoneExtra(ts, ns, al2)
  BY <1>2 DEF Full, NoneExtra, Laying
<1>6. OneTaker(ts, al2) /\ SecondLevel(ts, ns, al2) /\ NodesTake(ts, ns, al2)
  BY DEF Full, OneTaker, SecondLevel, NodesTake, Laying, Taken
<1> QED
  BY <1>4, <1>5, <1>6 DEF Full

(* A tensor with cells of its own holds them from the start. *)
LEMMA RootHolds ==
    ASSUME NEW ts, NEW ns, NEW P, Setting(ts, ns, P), NEW sz \in Nat,
           NEW al, Sound(ts, al, P, sz),
           NEW n \in DOMAIN ts, n \notin P, ts[n].view = NoTensor, n # Cache,
           al.children[n] > 0 \/ ~Reads(ts, ns, n),
           NEW al2, Laying(ts, al, al2, n), NEW c, Spans(ts, al2, n, c)
    PROVE  Holder(ts, ns, al2, n, c)
<1>1. Own(ts, n) /\ 0 \notin DOMAIN ts
  BY SizesOf DEF Own, Cache, NoTensor, Setting
<1>2. ~Wholly(ts, al2, n)
  <2> SUFFICES ASSUME NEW u \in DOMAIN ts, ts[u].view = NoTensor, al.view[u] = n PROVE FALSE
    BY DEF Wholly, Laying
  <2>1. u \notin P
    BY <1>1 DEF Sound, Based, NoTensor
  <2> QED
    BY <1>1, <2>1 DEF Sound, Based, NoTensor
<1>3. Keeps(ts, ns, al2, n)
  BY <1>2 DEF Keeps, Active, Laying
<1> QED
  BY <1>1, <1>3 DEF Holder


(* Dropping the readers of all sources loses no cell. *)
LEMMA DropBothFull ==
    ASSUME NEW ts, NEW ns, NEW P, Setting(ts, ns, P), NEW sz \in Nat,
           NEW al, Sound(ts, al, P, sz), Full(ts, ns, al, P, sz),
           NEW src, Len(src) \in {0, 1, 2},
           \A k \in 1..Len(src) : src[k] \in P /\ Reads(ts, ns, src[k]),
           \A t \in DOMAIN ts : al.children[t] >= Times(src, t)
    PROVE  Full(ts, ns, DropBoth(ts, al, src), P, sz)
<1>0. Shape(ts) /\ P \in SUBSET DOMAIN ts
  BY DEF Setting
<1>1. \A t \in DOMAIN ts : al.children[t] \in Int
  BY DEF Sound, Allocation
<1>2. al.children \in [DOMAIN ts -> Int]
  BY DEF Sound, Allocation
<1>3. CASE Len(src) = 0
  BY <1>3 DEF DropBoth
<1>4. CASE Len(src) = 1
  <2> DEFINE p == src[1]
  <2>1. p \in P /\ p \in DOMAIN ts /\ Times(src, p) = 1 /\ Reads(ts, ns, p)
    BY <1>0, <1>4 DEF Times
  <2>2. al.children[p] > 0
    BY <1>1, <2>1
  <2>3. DropBoth(ts, al, src) = DropReader(ts, al, p)
    BY <1>4 DEF DropBoth
  <2> HIDE DEF p
  <2> QED
    BY <2>1, <2>2, <2>3, DropFull
<1>5. CASE Len(src) = 2
  <2> DEFINE p == src[1]
             q == src[2]
             r == DropReader(ts, al, p)
             d == DropReader(ts, r, q)
  <2>1. /\ p \in P /\ p \in DOMAIN ts /\ q \in P /\ q \in DOMAIN ts
        /\ Reads(ts, ns, p) /\ Reads(ts, ns, q)
        /\ \A t \in DOMAIN ts : Times(src, t) = (IF p = t THEN 1 ELSE 0) + (IF q = t THEN 1 ELSE 0)
    BY <1>0, <1>5 DEF Times
  <2>2. DropBoth(ts, al, src) = d
    BY <1>5 DEF DropBoth
  <2> HIDE DEF p, q
  <2>3. al.children[p] > 0 /\ al.children[q] > 0 /\ (p = q => al.children[p] > 1)
    BY <1>1, <2>1
  <2>4. /\ Sound(ts, r, P, sz) /\ r.children = [al.children EXCEPT ![p] = @ - 1]
    <3>1. Sound(ts, r, P, sz) /\ OneLess(al, r, p)
      BY <1>0, <2>1, <2>3, DropSound
    <3> QED
      BY <3>1 DEF OneLess
  <2>5. Full(ts, ns, r, P, sz)
    BY <2>1, <2>3, DropFull
  <2> HIDE DEF r
  <2>6. r.children[q] > 0
    BY <1>1, <1>2, <2>1, <2>3, <2>4
  <2> QED
    BY <2>1, <2>2, <2>4, <2>5, <2>6, DropFull
<1> QED
  BY <1>3, <1>4, <1>5

\* Node n is placed next, and its sources count as read.
Coming(ts, ns, al, P, n) ==
    /\ Setting(ts, ns, P) /\ Ready(ts, al, P, n) /\ n \in NodesOf(ns)
    /\ \A k \in 1..Len(ts[n].src) : Reads(ts, ns, ts[n].src[k])
    /\ al.children[n] > 0 \/ ~Reads(ts, ns, n)

(* With a node more the setting is the same. *)
LEMMA SettingGrows ==
    ASSUME NEW ts, NEW ns, NEW P, Setting(ts, ns, P), NEW n \in NodesOf(ns)
    PROVE  Setting(ts, ns, P \cup {n})
BY DEF Setting

(* Placing a view loses no cell, *)
LEMMA PlaceViewFull ==
    ASSUME NEW ts, NEW ns, NEW P, NEW sz \in Nat,
           NEW al, Sound(ts, al, P, sz), Full(ts, ns, al, P, sz),
           NEW n, Coming(ts, ns, al, P, n), ts[n].view # NoTensor
    PROVE  Full(ts, ns, PlaceNode(ts, al, n), P \cup {n}, sz)
<1> DEFINE s == AllocateNode(ts, al, n)
           src == ts[n].src
           Q == P \cup {n}
<1>1. /\ Shape(ts) /\ P \in SUBSET DOMAIN ts /\ n \in DOMAIN ts /\ n \notin P
      /\ Setting(ts, ns, P) /\ Setting(ts, ns, Q) /\ Ready(ts, al, P, n) /\ n \in NodesOf(ns)
  BY SettingGrows DEF Coming, Setting, Ready
<1>2. /\ s \in Allocation(ts) /\ s.free = al.free /\ s.view = al.view
      /\ s.children = al.children /\ s.views = al.views /\ s.failed = FALSE
      /\ \A t \in DOMAIN ts : t # n => s.data[t] = al.data[t]
      /\ Sound(ts, s, Q, sz)
  BY <1>1, ViewLaid
<1>3. PlaceNode(ts, al, n) = DropBoth(ts, s, src)
  <2>1. PlaceNode(ts, al, n) = IF s.failed THEN s ELSE DropBoth(ts, s, ts[n].src)
    BY <1>1, PlaceNodeIs
  <2> QED
    BY <1>2, <2>1
<1> HIDE DEF s
<1>4. Laying(ts, al, s, n)
  BY <1>2 DEF Laying
<1>5. Full(ts, ns, s, Q, sz)
  BY <1>1, <1>2, <1>4, LayFull
<1>6. /\ Len(src) \in {0, 1, 2} /\ \A k \in 1..Len(src) : src[k] \in Q /\ Reads(ts, ns, src[k])
      /\ \A t \in DOMAIN ts : s.children[t] >= Times(src, t)
  BY <1>1, <1>2 DEF Coming, Ready
<1> HIDE DEF src, Q
<1>7. Full(ts, ns, DropBoth(ts, s, src), Q, sz)
  BY <1>1, <1>2, <1>5, <1>6, DropBothFull
<1> QED
  BY <1>3, <1>7 DEF Q

(* nor does placing a tensor with cells of its own, *)
LEMMA PlaceRootFull ==
    ASSUME NEW ts, NEW ns, NEW P, NEW sz \in Nat,
           NEW al, Sound(ts, al, P, sz), Full(ts, ns, al, P, sz),
           NEW n, Coming(ts, ns, al, P, n), ts[n].view = NoTensor,
           ReusedParent(ts, al, n) = NoTensor, PlaceNode(ts, al, n).failed = FALSE
    PROVE  Full(ts, ns, PlaceNode(ts, al, n), P \cup {n}, sz)
<1> DEFINE s == AllocateNode(ts, al, n)
           src == ts[n].src
           Q == P \cup {n}
<1>1. /\ Shape(ts) /\ P \in SUBSET DOMAIN ts /\ n \in DOMAIN ts /\ n \notin P /\ n # Cache
      /\ Setting(ts, ns, P) /\ Setting(ts, ns, Q) /\ Ready(ts, al, P, n) /\ n \in NodesOf(ns)
      /\ al \in Allocation(ts) /\ al.failed = FALSE /\ Sorted(al.free, sz)
  BY SettingGrows DEF Coming, Setting, Ready, Sound
<1>2. s = TallocAlloc(ts, al, n)
  <2>1. al.data[n] = Null /\ al.view[n] = NoTensor
    BY <1>1 DEF Sound, Lies, Based
  <2> QED
    BY <1>1, <2>1 DEF AllocateNode
<1>3. PlaceNode(ts, al, n) = IF s.failed THEN s ELSE DropBoth(ts, s, src)
  BY <1>1, PlaceNodeIs
<1> HIDE DEF s
<1>4. Talloced(ts, al, s, n, sz)
  BY <1>1, <1>2, TallocIs
<1>5. s.failed = FALSE
  <2>1. s.failed \in BOOLEAN
    BY <1>4 DEF Talloced, Allocation
  <2> QED
    BY <1>3, <2>1
<1>6. PICK x \in Nat : GotCells(ts, al, s, n, sz, x)
  BY <1>4, <1>5 DEF Talloced
<1>7. /\ s \in Allocation(ts) /\ s.view = al.view /\ s.children = al.children
      /\ s.views = al.views /\ Laying(ts, al, s, n)
  <2>1. s.data = [al.data EXCEPT ![n] = x] /\ al.data \in [DOMAIN ts -> Int]
    BY <1>1, <1>6 DEF GotCells, Allocation
  <2>2. \A t \in DOMAIN ts : t # n => s.data[t] = al.data[t]
    BY <2>1
  <2> QED
    BY <1>4, <2>2 DEF Talloced, Laying
<1>8. Sound(ts, s, Q, sz)
  BY <1>1, <1>6, <1>7, RootSound
<1>9. Full(ts, ns, s, Q, sz)
  <2>1. ASSUME NEW c \in Nat, InFree(al.free, c)
        PROVE  InFree(s.free, c) \/ Holder(ts, ns, s, n, c)
    <3>1. InFree(s.free, c) \/ Spans(ts, s, n, c)
      BY <1>1, <1>2, <1>5, <2>1, TallocCovers
    <3>2. Spans(ts, s, n, c) => Holder(ts, ns, s, n, c)
      BY <1>1, <1>7, RootHolds DEF Coming
    <3> QED
      BY <3>1, <3>2
  <2> QED
    BY <1>1, <1>7, <2>1, LayFull
<1>10. /\ Len(src) \in {0, 1, 2} /\ \A k \in 1..Len(src) : src[k] \in Q /\ Reads(ts, ns, src[k])
       /\ \A t \in DOMAIN ts : s.children[t] >= Times(src, t)
  BY <1>1, <1>7 DEF Coming, Ready
<1> HIDE DEF src, Q
<1>11. Full(ts, ns, DropBoth(ts, s, src), Q, sz)
  BY <1>1, <1>8, <1>9, <1>10, DropBothFull
<1> QED
  BY <1>3, <1>5, <1>11 DEF Q

(* nor does taking over the cells of a source, whatever source it is. *)
LEMMA TakeBothFull ==
    ASSUME NEW ts, NEW ns, NEW P, NEW sz \in Nat,
           NEW al, Sound(ts, al, P, sz), Full(ts, ns, al, P, sz),
           NEW n, Coming(ts, ns, al, P, n), ts[n].view = NoTensor,
           NEW k \in 1..Len(ts[n].src), NEW p, p = ts[n].src[k], NEW o, TakesOver(ts, al, n, p, o),
           NEW s, TakenBy(ts, al, s, n, o)
    PROVE  Full(ts, ns, DropBoth(ts, s, ts[n].src), P \cup {n}, sz)
<1> DEFINE src == ts[n].src
           Q == P \cup {n}
<1>0. /\ Shape(ts) /\ P \in SUBSET DOMAIN ts /\ Cache \in P
      /\ n \in DOMAIN ts /\ n \notin P /\ n # Cache
      /\ Setting(ts, ns, P) /\ Setting(ts, ns, Q) /\ Ready(ts, al, P, n) /\ n \in NodesOf(ns)
      /\ Len(src) \in {1, 2} /\ \A j \in 1..Len(src) : src[j] \in P /\ Reads(ts, ns, src[j])
      /\ p \in P /\ p \in DOMAIN ts /\ p # n /\ Reads(ts, ns, p)
      /\ \A t \in DOMAIN ts : al.children[t] >= Times(src, t)
      /\ al.children[n] > 0 \/ ~Reads(ts, ns, n)
      /\ al \in Allocation(ts)
  BY SettingGrows DEF Coming, Setting, Ready, Sound
<1>1. al.children \in [DOMAIN ts -> Int] /\ al.children[p] = 1
  BY <1>0 DEF Allocation, TakesOver
<1>2. ASSUME NEW y, Sound(ts, y, P, sz), Full(ts, ns, y, P, sz), TakesOver(ts, y, n, p, o),
             y.children[n] > 0 \/ ~Reads(ts, ns, n), NEW z, TakenBy(ts, y, z, n, o)
      PROVE  /\ Took(ts, y, DropReader(ts, z, p), n, p, o)
             /\ Sound(ts, DropReader(ts, z, p), Q, sz)
             /\ Full(ts, ns, DropReader(ts, z, p), Q, sz)
  <2> DEFINE m == DropReader(ts, z, p)
  <2>1. /\ y \in Allocation(ts) /\ y.free \in Seq(Block)
        /\ y.view[p] # NoTensor => y.view[p] \in DOMAIN ts /\ y.view[p] # p /\ y.view[p] # n
    BY <1>0, <1>2 DEF Sound, Sorted, Based
  <2>2. Took(ts, y, m, n, p, o)
    BY <1>0, <1>2, <2>1, TakeDropped
  <2> HIDE DEF m
  <2>3. Sound(ts, m, P \cup {n}, sz)
    BY <1>0, <1>2, <2>2, TakeKeeps
  <2>4. Full(ts, ns, m, P \cup {n}, sz)
    BY <1>0, <1>2, <2>2, TakeFull
  <2> QED
    BY <2>2, <2>3, <2>4 DEF m
<1>3. CASE Len(src) = 1
  <2>1. src[1] = p /\ DropBoth(ts, s, src) = DropReader(ts, s, p)
    BY <1>3 DEF DropBoth
  <2> QED
    BY <1>0, <1>2, <2>1
<1>4. CASE Len(src) = 2
  <2> DEFINE q == IF src[1] = p THEN src[2] ELSE src[1]
  <2>1. /\ \A t \in DOMAIN ts : Times(src, t) = (IF src[1] = t THEN 1 ELSE 0) + (IF src[2] = t THEN 1 ELSE 0)
        /\ src[1] = p \/ src[2] = p
        /\ src[1] \in P /\ src[2] \in P /\ q \in P /\ q \in DOMAIN ts /\ Reads(ts, ns, q)
    BY <1>0, <1>4 DEF Times
  <2>2. q # p
    BY <1>0, <1>1, <2>1
  <2>3. \A t \in DOMAIN ts : Times(src, t) = (IF p = t THEN 1 ELSE 0) + (IF q = t THEN 1 ELSE 0)
    BY <2>1, <2>2, SMTT(30)
  <2>4. DropBoth(ts, s, src) = DropReader(ts, DropReader(ts, s, src[1]), src[2])
    BY <1>4 DEF DropBoth
  <2>5. al.children[q] > 0
    <3> HIDE DEF q, src
    <3>1. Times(src, q) = 1
      BY <2>1, <2>2, <2>3
    <3> QED
      BY <1>0, <1>1, <2>1, <3>1
  <2>6. CASE src[1] = p
    <3> DEFINE m == DropReader(ts, s, p)
               r == DropReader(ts, m, q)
    <3>1. DropBoth(ts, s, src) = r
      BY <2>4, <2>6
    <3>2. Took(ts, al, m, n, p, o) /\ Sound(ts, m, Q, sz) /\ Full(ts, ns, m, Q, sz)
      BY <1>0, <1>2
    <3>3. q \in Q /\ q \in DOMAIN ts /\ Reads(ts, ns, q) /\ q # p /\ al.children[q] > 0
      BY <2>1, <2>2, <2>5
    <3> HIDE DEF m, q, Q, src
    <3>4. m.children[q] > 0
      BY <1>0, <1>1, <3>2, <3>3, SMTT(30) DEF Took
    <3>5. Full(ts, ns, r, Q, sz)
      BY <1>0, <3>2, <3>3, <3>4, DropFull
    <3> HIDE DEF r
    <3> QED
      BY <3>1, <3>5 DEF Q, src
  <2>7. CASE src[1] # p
    <3> DEFINE y == DropReader(ts, al, q)
               z == DropReader(ts, s, q)
               r == DropReader(ts, z, p)
    <3>1. DropBoth(ts, s, src) = r
      BY <2>1, <2>4, <2>7
    <3>0. q \in P /\ q \in DOMAIN ts /\ q # p /\ al.children[q] > 0 /\ Reads(ts, ns, q)
      BY <2>1, <2>2, <2>5
    <3> HIDE DEF q
    <3>2. Sound(ts, y, P, sz) /\ OneLess(al, y, q)
      BY <1>0, <3>0, DropSound
    <3>3. Full(ts, ns, y, P, sz)
      BY <1>0, <3>0, DropFull
    <3>4. TakesOver(ts, y, n, p, o) /\ TakenBy(ts, y, z, n, o)
      <4> HIDE DEF y, z
      <4>1. y = DropReader(ts, al, q) /\ z = DropReader(ts, s, q)
        BY DEF y, z
      <4> QED
        BY <1>0, <3>0, <4>1, TakeCommutes, ZenonT(60)
    <3> HIDE DEF y, z
    <3>5. y.children[n] > 0 \/ ~Reads(ts, ns, n)
      <4>1. q # n
        BY <1>0, <3>0
      <4>2. y.children[n] = al.children[n]
        BY <1>0, <1>1, <3>2, <4>1 DEF OneLess
      <4> QED
        BY <1>0, <4>2
    <3>6. Full(ts, ns, r, Q, sz)
      BY <1>2, <3>2, <3>3, <3>4, <3>5
    <3> HIDE DEF r
    <3> QED
      BY <3>1, <3>6
  <2> QED
    BY <2>6, <2>7
<1> QED
  BY <1>0, <1>3, <1>4

(* So placing a node loses no cell. *)
LEMMA PlaceFull ==
    ASSUME NEW ts, NEW ns, NEW P, NEW sz \in Nat,
           NEW al, Sound(ts, al, P, sz), Full(ts, ns, al, P, sz),
           NEW n, Coming(ts, ns, al, P, n), PlaceNode(ts, al, n).failed = FALSE
    PROVE  Full(ts, ns, PlaceNode(ts, al, n), P \cup {n}, sz)
<1>1. CASE ts[n].view # NoTensor
  BY <1>1, PlaceViewFull
<1>2. CASE ts[n].view = NoTensor /\ ReusedParent(ts, al, n) = NoTensor
  BY <1>2, PlaceRootFull
<1>3. CASE ts[n].view = NoTensor /\ ReusedParent(ts, al, n) # NoTensor
  <2> DEFINE s == AllocateNode(ts, al, n)
  <2>1. Shape(ts) /\ P \in SUBSET DOMAIN ts /\ Cache \in P /\ Ready(ts, al, P, n)
    BY DEF Coming, Setting
  <2>2. PlaceNode(ts, al, n) = IF s.failed THEN s ELSE DropBoth(ts, s, ts[n].src)
    BY <2>1, PlaceNodeIs
  <2>3. /\ s.failed = FALSE
        /\ \E k, o : /\ k \in 1..Len(ts[n].src) /\ TakesOver(ts, al, n, ts[n].src[k], o)
                     /\ TakenBy(ts, al, s, n, o)
    BY <1>3, <2>1, TakenIs
  <2> HIDE DEF s
  <2>4. PICK k, o : /\ k \in 1..Len(ts[n].src) /\ TakesOver(ts, al, n, ts[n].src[k], o)
                    /\ TakenBy(ts, al, s, n, o)
    BY <2>3
  <2>5. Full(ts, ns, DropBoth(ts, s, ts[n].src), P \cup {n}, sz)
    BY <1>3, <2>4, TakeBothFull
  <2> QED
    BY <2>2, <2>3, <2>5
<1> QED
  BY <1>1, <1>2, <1>3


(***************************************************************************)
(* No cell is lost while the whole graph is placed.                        *)
(***************************************************************************)
(* A tensor that is read from node i on has readers in the count. *)
LEMMA ReadCounted ==
    ASSUME NEW ts, GraphOK(ts), NEW ns, OrderOK(ts, ns), NEW i \in Nat, NEW t,
           NEW j \in 1..Len(ns), i <= j, NEW k \in 1..Len(ts[ns[j]].src), ts[ns[j]].src[k] = t
    PROVE  Cardinality(Uses(ts, ns, i, t)) > 0
<1>1. Len(ns) \in Nat /\ ns[j] \in DOMAIN ts
  BY OrderIs
<1>2. Len(ts[ns[j]].src) \in {0, 1, 2}
  BY <1>1, GraphDomain DEF SourcesOK
<1>3. k \in 1..2 /\ k <= Len(ts[ns[j]].src)
  BY <1>2
<1>4. j \in i..Len(ns)
  BY <1>1
<1>5. <<j, k>> \in Uses(ts, ns, i, t)
  BY <1>3, <1>4 DEF Uses
<1>6. IsFiniteSet(Uses(ts, ns, i, t)) /\ Cardinality(Uses(ts, ns, i, t)) \in Nat
  BY <1>1, UsesFinite
<1>7. Cardinality(Uses(ts, ns, i, t)) # 0
  BY <1>5, <1>6, FS_EmptySet
<1> QED
  BY <1>6, <1>7

(* The tensors placed before a node are in the graph. *)
LEMMA SettingAt ==
    ASSUME NEW ts, GraphOK(ts), NEW ns, OrderOK(ts, ns), NEW m \in Nat, m <= Len(ns)
    PROVE  Setting(ts, ns, Before(ns, m))
<1>1. Before(ns, m) \in SUBSET DOMAIN ts /\ Cache \in Before(ns, m)
  BY BeforeIn
<1>2. Len(ns) \in Nat /\ \A i \in 1..Len(ns) : ns[i] \in DOMAIN ts
  BY OrderIs
<1>3. \A i \in 1..m : i \in 1..Len(ns)
  BY <1>2
<1>4. ASSUME NEW t \in Before(ns, m)
      PROVE  t \in NodesOf(ns) \/ ts[t].view = NoTensor
  BY <1>3, GraphDomain DEF Before, NodesOf
<1> QED
  BY <1>1, <1>2, <1>4, GraphShape DEF Setting, NodesOf

(* The next node comes with its sources read and its readers to come. *)
LEMMA ComingNext ==
    ASSUME NEW ts, GraphOK(ts), NEW ns, OrderOK(ts, ns), NEW m \in Nat, m < Len(ns), NEW sz \in Nat,
           NEW al, PlaceInv(ts, ns, al, m, sz)
    PROVE  Coming(ts, ns, al, Before(ns, m), ns[m + 1])
<1> DEFINE n == ns[m + 1]
<1>1. /\ Len(ns) \in Nat /\ m + 1 \in 1..Len(ns) /\ m <= Len(ns)
      /\ n \in DOMAIN ts /\ ts[n].op # "none"
  <2>1. Len(ns) \in Nat
    BY OrderIs
  <2>2. m + 1 \in 1..Len(ns) /\ m <= Len(ns)
    BY <2>1
  <2> QED
    BY <2>1, <2>2, OrderIs
<1>2. Setting(ts, ns, Before(ns, m)) /\ Ready(ts, al, Before(ns, m), n)
  BY <1>1, SettingAt, NextReady
<1>3. n \in NodesOf(ns) /\ \A k \in 1..Len(ts[n].src) : Reads(ts, ns, ts[n].src[k])
  BY <1>1 DEF NodesOf, Reads
<1>4. ASSUME Reads(ts, ns, n)
      PROVE  al.children[n] > 0
  <2>1. PICK i \in 1..Len(ns) : \E k \in 1..Len(ts[ns[i]].src) : ts[ns[i]].src[k] = n
    BY <1>4 DEF Reads
  <2>2. PICK k \in 1..Len(ts[ns[i]].src) : ts[ns[i]].src[k] = n
    BY <2>1
  <2> HIDE DEF n
  <2>3. PICK j \in 1..(i - 1) : ns[j] = n
    BY <1>1, <2>2 DEF OrderOK
  <2>4. j \in 1..Len(ns)
    BY <1>1, <2>1, <2>3
  <2>5. j = m + 1
    <3>1. ns[j] = ns[m + 1]
      BY <2>3 DEF n
    <3> QED
      BY <1>1, <2>4, <3>1 DEF OrderOK
  <2>6. m + 1 <= i /\ m + 1 \in Nat
    BY <2>1, <2>3, <2>5
  <2>7. Cardinality(Uses(ts, ns, m + 1, n)) > 0
    BY <2>2, <2>6, ReadCounted
  <2> QED
    BY <1>1, <2>7 DEF PlaceInv, Counted
<1> QED
  BY <1>2, <1>3, <1>4 DEF Coming

(* The next node is placed and no cell is lost. *)
LEMMA NextFull ==
    ASSUME NEW ts, GraphOK(ts), NEW ns, OrderOK(ts, ns), NEW m \in Nat, m < Len(ns), NEW sz \in Nat,
           NEW al, PlaceInv(ts, ns, al, m, sz), Full(ts, ns, al, Before(ns, m), sz),
           PlaceNode(ts, al, ns[m + 1]).failed = FALSE
    PROVE  Full(ts, ns, PlaceNode(ts, al, ns[m + 1]), Before(ns, m + 1), sz)
<1> DEFINE n == ns[m + 1]
           P == Before(ns, m)
<1>1. Coming(ts, ns, al, P, n) /\ Sound(ts, al, P, sz)
  BY ComingNext DEF PlaceInv
<1>2. Before(ns, m + 1) = P \cup {n}
  <2>1. 1..(m + 1) = 1..m \cup {m + 1}
    OBVIOUS
  <2> QED
    BY <2>1 DEF Before
<1> HIDE DEF n, P
<1>3. Full(ts, ns, al, P, sz) /\ PlaceNode(ts, al, n).failed = FALSE
  BY DEF n, P
<1>4. Full(ts, ns, PlaceNode(ts, al, n), P \cup {n}, sz)
  BY <1>1, <1>3, PlaceFull
<1> QED
  BY <1>2, <1>4 DEF n

(* An allocation starts with every cell free and no view counted twice. *)
LEMMA StartFull ==
    ASSUME NEW ts, GraphOK(ts), NEW ns, OrderOK(ts, ns), NEW sz \in Nat, NEW s,
           s.free = ResetBlocks(sz),
           \A t \in DOMAIN ts : s.view[t] = ts[t].view,
           \A t \in DOMAIN ts : s.children[t] = Cardinality(Uses(ts, ns, 1, t)),
           \A t \in DOMAIN ts : s.views[t] = Cardinality(ViewsOf(ts, ns, t))
    PROVE  Full(ts, ns, s, {Cache}, sz)
<1>0. /\ Shape(ts) /\ 0 \notin DOMAIN ts
      /\ Len(ns) \in Nat /\ DOMAIN ns = 1..Len(ns) /\ \A i \in 1..Len(ns) : ns[i] \in DOMAIN ts
  BY GraphShape, SizesOf, OrderIs
<1>1. Covered(ts, ns, s, {Cache}, sz)
  <2> SUFFICES ASSUME NEW c \in 0..(sz - 1) PROVE InFree(s.free, c)
    BY DEF Covered
  <2> DEFINE x == [addr |-> 0, size |-> sz]
             one == <<x>>
  <2>1. sz # 0 /\ s.free = one
    BY DEF ResetBlocks
  <2>2. Len(one) = 1 /\ one[1] = x /\ x.addr = 0 /\ x.size = sz
    OBVIOUS
  <2> HIDE DEF one, x
  <2>3. 1 \in 1..Len(one) /\ one[1].addr <= c /\ c < End(one[1])
    BY <2>2 DEF End
  <2> QED
    BY <2>1, <2>3 DEF InFree
<1>2. NoneExtra(ts, ns, s)
  <2> SUFFICES ASSUME NEW b \in DOMAIN ts
               PROVE  Cardinality(ViewsOf(ts, ns, b)) <= Cardinality(Viewers(ts, ns, s, b))
    BY DEF NoneExtra
  <2> DEFINE I == ViewsOf(ts, ns, b)
             V == Viewers(ts, ns, s, b)
             f == [i \in I |-> ns[i]]
  <2>1. ASSUME NEW i \in I PROVE ns[i] \in V
    <3>1. i \in 1..Len(ns) /\ ts[ns[i]].view = b /\ ns[i] \in DOMAIN ts
      BY <1>0 DEF ViewsOf
    <3>2. ASSUME Reads(ts, ns, ns[i]) PROVE s.children[ns[i]] > 0
      <4>1. PICK j \in 1..Len(ns) : \E k \in 1..Len(ts[ns[j]].src) : ts[ns[j]].src[k] = ns[i]
        BY <3>2 DEF Reads
      <4>2. PICK k \in 1..Len(ts[ns[j]].src) : ts[ns[j]].src[k] = ns[i]
        BY <4>1
      <4>3. Cardinality(Uses(ts, ns, 1, ns[i])) > 0
        <5>1. 1 \in Nat /\ 1 <= j
          BY <1>0
        <5> QED
          BY <4>2, <5>1, ReadCounted
      <4> QED
        BY <3>1, <4>3
    <3> QED
      BY <3>1, <3>2 DEF Viewers, NodesOf, Active
  <2>2. f \in Injection(I, V)
    <3>1. f \in [I -> V]
      BY <2>1
    <3>2. \A i, j \in I : f[i] = f[j] => i = j
      <4>1. \A i, j \in 1..Len(ns) : ns[i] = ns[j] => i = j
        BY DEF OrderOK
      <4>2. I \subseteq 1..Len(ns)
        BY <1>0 DEF ViewsOf
      <4> QED
        BY <4>1, <4>2
    <3> HIDE DEF f, I, V
    <3> QED
      BY <3>1, <3>2 DEF Injection, IsInjective
  <2>3. IsFiniteSet(V)
    BY <1>0, ViewersFinite
  <2> HIDE DEF f, I, V
  <2>4. Cardinality(I) <= Cardinality(V)
    BY <2>2, <2>3, FS_Injection
  <2> QED
    BY <2>4 DEF I, V
<1>3. OneTaker(ts, s)
  <2>1. \A b \in DOMAIN ts : ~Taken(ts, s, b)
    BY <1>0 DEF Taken, NoTensor
  <2> QED
    BY <2>1 DEF OneTaker
<1>4. SecondLevel(ts, ns, s)
  <2> SUFFICES ASSUME NEW u \in NodesOf(ns), s.view[u] # NoTensor, s.view[s.view[u]] # NoTensor
               PROVE  FALSE
    BY DEF SecondLevel
  <2>1. u \in DOMAIN ts
    BY <1>0 DEF NodesOf
  <2>2. ts[u].view \in DOMAIN ts /\ ts[ts[u].view].view = NoTensor
    BY <1>0, <2>1 DEF Shape
  <2> QED
    BY <2>1, <2>2
<1>5. NodesTake(ts, ns, s)
  BY DEF NodesTake
<1> QED
  BY <1>1, <1>2, <1>3, <1>4, <1>5 DEF Full

(* With the input in its place nothing is lost either. *)
LEMMA BeginFull ==
    ASSUME NEW ts, GraphOK(ts), NEW ns, OrderOK(ts, ns), NEW sz \in Nat,
           BeginGraph(ts, ns, sz).failed = FALSE
    PROVE  Full(ts, ns, BeginGraph(ts, ns, sz), Before(ns, 0), sz)
<1> DEFINE al == StartAllocation(ts, sz)
           s == CountReaders(ts, al, ns)
           r == TallocAlloc(ts, al, Input)
           g == CountReaders(ts, r, ns)
           P == {Cache}
<1>1. /\ al \in Allocation(ts) /\ Sorted(al.free, sz) /\ al.failed = FALSE
      /\ Sound(ts, s, P, sz)
  BY StartSound
<1>2. /\ Input \in DOMAIN ts /\ Cache \in DOMAIN ts /\ Shape(ts) /\ Input # Cache
      /\ ts[Input].view = NoTensor /\ ts[Cache].view = NoTensor /\ Input \notin P
  BY GraphDomain, GraphShape DEF Input, Cache
<1>3. al.free = ResetBlocks(sz) /\ \A t \in DOMAIN ts : al.view[t] = ts[t].view
  BY DEF StartAllocation
<1> HIDE DEF al
<1>4. Talloced(ts, al, r, Input, sz)
  BY <1>1, <1>2, TallocIs
<1>5. /\ s \in Allocation(ts)
      /\ s.free = al.free /\ s.data = al.data /\ s.view = al.view /\ s.failed = al.failed
      /\ s.children = [t \in DOMAIN ts |-> Cardinality(Uses(ts, ns, 1, t))]
      /\ s.views = [t \in DOMAIN ts |-> Cardinality(ViewsOf(ts, ns, t))]
  BY <1>1, CountsAre
<1>6. /\ g \in Allocation(ts)
      /\ g.free = r.free /\ g.data = r.data /\ g.view = r.view /\ g.failed = r.failed
      /\ g.children = [t \in DOMAIN ts |-> Cardinality(Uses(ts, ns, 1, t))]
      /\ g.views = [t \in DOMAIN ts |-> Cardinality(ViewsOf(ts, ns, t))]
  <2> HIDE DEF r
  <2> QED
    BY <1>4, CountsAre DEF Talloced
<1>7. BeginGraph(ts, ns, sz) = g
  BY DEF BeginGraph, al
<1>8. r.failed = FALSE
  BY <1>6, <1>7
<1>9. \A c \in Nat : InFree(al.free, c) => InFree(r.free, c) \/ Spans(ts, r, Input, c)
  BY <1>1, <1>2, <1>8, TallocCovers
<1> HIDE DEF s, g, r
<1>10. Laying(ts, s, g, Input)
  <2>1. PICK x \in Nat : GotCells(ts, al, r, Input, sz, x)
    BY <1>4, <1>8 DEF Talloced
  <2>2. r.data = [al.data EXCEPT ![Input] = x] /\ al.data \in [DOMAIN ts -> Int]
    BY <1>1, <2>1 DEF GotCells, Allocation
  <2>3. \A t \in DOMAIN ts : t # Input => r.data[t] = al.data[t]
    BY <2>2
  <2> QED
    BY <1>4, <1>5, <1>6, <2>3 DEF Talloced, Laying
<1>11. Setting(ts, ns, P)
  <2>1. Setting(ts, ns, Before(ns, 0))
    <3>1. Len(ns) \in Nat
      BY OrderIs
    <3> QED
      BY <3>1, SettingAt
  <2> QED
    BY <1>2, <2>1 DEF Setting
<1>12. Full(ts, ns, s, P, sz)
  BY <1>3, <1>5, StartFull
<1>13. s.children[Input] > 0 \/ ~Reads(ts, ns, Input)
  <2> SUFFICES ASSUME Reads(ts, ns, Input) PROVE Cardinality(Uses(ts, ns, 1, Input)) > 0
    BY <1>2, <1>5
  <2>1. PICK j \in 1..Len(ns) : \E k \in 1..Len(ts[ns[j]].src) : ts[ns[j]].src[k] = Input
    BY DEF Reads
  <2>2. PICK k \in 1..Len(ts[ns[j]].src) : ts[ns[j]].src[k] = Input
    BY <2>1
  <2>3. 1 \in Nat /\ 1 <= j
    BY OrderIs
  <2> QED
    BY <2>2, <2>3, ReadCounted
<1>14. ASSUME NEW c \in Nat, InFree(s.free, c)
       PROVE  InFree(g.free, c) \/ Holder(ts, ns, g, Input, c)
  <2>1. InFree(g.free, c) \/ Spans(ts, g, Input, c)
    BY <1>5, <1>6, <1>9, <1>14 DEF Spans
  <2> HIDE DEF P
  <2>2. Spans(ts, g, Input, c) => Holder(ts, ns, g, Input, c)
    BY <1>1, <1>2, <1>10, <1>11, <1>13, RootHolds
  <2> QED
    BY <2>1, <2>2
<1>15. Full(ts, ns, g, P \cup {Input}, sz)
  <2> HIDE DEF P
  <2> QED
    BY <1>1, <1>2, <1>10, <1>11, <1>12, <1>14, LayFull
<1>16. Before(ns, 0) = P \cup {Input}
  BY DEF Before
<1> QED
  BY <1>7, <1>15, <1>16


\* While the graph is placed and there is room for it, no cell is lost.
LeakInv ==
    phase = "place" =>
       /\ Len(nodes) >= 1
       /\ ~a.failed => Full(tensors, nodes, a, Before(nodes, next - 1), size)

(* The input in its place, the rest of the buffer is free; *)
LEMMA BuildLeak ==
    ASSUME GraphInv, Build
    PROVE  LeakInv'
<1> DEFINE ns == BuildForward(tensors, Append(results, Len(tensors)))
           sz == Measured(tensors, ns, Huge)
           al == BeginGraph(tensors, ns, sz)
<1>1. /\ phase = "build" /\ phase' = "place" /\ tensors' = tensors /\ next' = next
      /\ nodes' = ns /\ size' = sz /\ Len(tensors) > 2 /\ Len(ns) = Len(tensors) - 2
  BY DEF Build, building
<1>2. a' = al
  BY <1>1 DEF Build
<1>3. GraphOK(tensors) /\ ResultsOK(tensors, results) /\ next = 1
  BY <1>1 DEF GraphInv
<1>4. OrderOK(tensors, ns)
  BY <1>3, BuildOrder
<1> HIDE DEF ns
<1>5. sz \in Nat
  BY <1>3, <1>4, MeasuredSize DEF Huge
<1> HIDE DEF sz
<1>6. al.failed = FALSE \/ al.failed = TRUE
  BY <1>3, <1>4, <1>5, BeginSound DEF PlaceInv
<1>7. al.failed = FALSE => Full(tensors, ns, al, Before(ns, 0), sz)
  BY <1>3, <1>4, <1>5, BeginFull
<1> HIDE DEF al
<1>8. Len(ns) >= 1
  <2>1. Len(tensors) \in Nat
    BY <1>3, GraphDomain
  <2> QED
    BY <1>1, <2>1
<1>9. next' - 1 = 0
  BY <1>1, <1>3
<1> QED
  BY <1>1, <1>2, <1>6, <1>7, <1>8, <1>9 DEF LeakInv

(* every node that is placed keeps it so. *)
LEMMA PlaceLeak ==
    ASSUME GraphInv, LeakInv, Place
    PROVE  LeakInv'
<1> DEFINE m == next - 1
           r == PlaceNode(tensors, a, nodes[next])
<1>1. /\ phase = "place" /\ phase' = "place" /\ tensors' = tensors /\ nodes' = nodes
      /\ size' = size /\ next' = next + 1 /\ a' = r /\ ~a.failed /\ next <= Len(nodes)
  BY DEF Place, building
<1>2. /\ GraphOK(tensors) /\ OrderOK(tensors, nodes) /\ size \in Nat
      /\ next \in 1..(Len(nodes) + 1) /\ Laid
  BY <1>1 DEF GraphInv, NoRoom
<1>3. Len(nodes) \in Nat
  BY <1>2, OrderIs
<1>4. m \in Nat /\ m < Len(nodes) /\ next = m + 1 /\ next' - 1 = m + 1
  BY <1>1, <1>2, <1>3
<1>5. /\ PlaceInv(tensors, nodes, a, m, size) /\ Full(tensors, nodes, a, Before(nodes, m), size)
      /\ Len(nodes) >= 1
  BY <1>1, <1>2 DEF Laid, LeakInv
<1> HIDE DEF m
<1>6. r = PlaceNode(tensors, a, nodes[m + 1])
  BY <1>4
<1> HIDE DEF r
<1>7. r.failed = FALSE \/ r.failed = TRUE
  BY <1>2, <1>4, <1>5, <1>6, NextPlaced DEF Placed, Stuck
<1>8. r.failed = FALSE => Full(tensors, nodes, r, Before(nodes, m + 1), size)
  BY <1>2, <1>4, <1>5, <1>6, NextFull
<1> QED
  BY <1>1, <1>4, <1>5, <1>7, <1>8 DEF LeakInv

(* The other steps leave the allocation alone, or are no part of placing. *)
LEMMA StepLeak ==
    ASSUME GraphInv, LeakInv, [Next]_vars
    PROVE  LeakInv'
<1>1. ASSUME UNCHANGED <<phase, building, placing>>
      PROVE  LeakInv'
  BY <1>1 DEF LeakInv, building, placing
<1>2. CASE UNCHANGED vars
  <2>1. UNCHANGED <<phase, building, placing>>
    BY <1>2 DEF vars, building, placing
  <2> QED
    BY <1>1, <2>1
<1>3. CASE BuildStep
  <2>1. phase' = "build"
    BY <1>3 DEF BuildStep, MatMul, Add, Scale, View, Copy, Make
  <2> QED
    BY <2>1 DEF LeakInv
<1>4. CASE Start
  BY <1>4 DEF Start, LeakInv
<1>5. ASSUME NEW i \in Thread, ThreadStep(i)
      PROVE  LeakInv'
  BY <1>1, <1>5, ThreadSame
<1> QED
  BY <1>2, <1>3, <1>4, <1>5, BuildLeak, PlaceLeak DEF Next

(* So no cell is ever lost. *)
THEOREM LeakKept == Spec => [](GraphInv /\ LeakInv)
<1>1. Init => GraphInv /\ LeakInv
  BY InitGraph, GraphAssumption DEF Init, LeakInv
<1>2. GraphInv /\ LeakInv /\ [Next]_vars => GraphInv' /\ LeakInv'
  BY StepGraph, StepLeak, GraphAssumption
<1> QED
  BY <1>1, <1>2, PTL DEF Spec

(* The first node reads the input: it has nothing else to read. *)
LEMMA InputRead ==
    ASSUME NEW ts, GraphOK(ts), NEW ns, OrderOK(ts, ns), Len(ns) >= 1
    PROVE  Reads(ts, ns, Input)
<1> DEFINE n == ns[1]
           src == ts[n].src
<1>1. 1 \in 1..Len(ns) /\ n \in DOMAIN ts /\ ts[n].op # "none"
  <2>1. 1 \in 1..Len(ns)
    BY OrderIs
  <2> QED
    BY <2>1, OrderIs
<1>2. SourcesOK(ts, n) /\ BaseOK(ts, n) /\ ts[n].op \in Ops /\ ts[Cache].view = NoTensor
  BY <1>1, GraphDomain DEF GraphOK
<1>3. \A k \in 1..Len(src) : src[k] \in {Input, Cache}
  <2> SUFFICES ASSUME NEW k \in 1..Len(src) PROVE src[k] \in {Input, Cache}
    OBVIOUS
  <2>1. src[k] \in 1..(n - 1)
    BY <1>2 DEF SourcesOK
  <2>2. src[k] \in DOMAIN ts
    BY <1>1, <2>1, GraphDomain
  <2>3. ts[src[k]].op = "none"
    <3> SUFFICES ASSUME ts[src[k]].op # "none" PROVE FALSE
      OBVIOUS
    <3>1. \A i \in 1..Len(ns) : \A l \in 1..Len(ts[ns[i]].src) :
             ts[ts[ns[i]].src[l]].op # "none" => \E j \in 1..(i - 1) : ns[j] = ts[ns[i]].src[l]
      BY DEF OrderOK
    <3>2. \A l \in 1..Len(src) :
             ts[src[l]].op # "none" => \E j \in 1..(1 - 1) : ns[j] = src[l]
      BY <1>1, <3>1
    <3> QED
      BY <3>2
  <2> QED
    BY <2>2, <2>3 DEF GraphOK
<1>4. ~(ts[n].op = "view" /\ ts[n].view = Cache)
  <2> SUFFICES ASSUME ts[n].op = "view", ts[n].view = Cache PROVE FALSE
    OBVIOUS
  <2>1. \A i \in 1..Len(ns) : ts[ns[i]].op = "view" /\ ts[ns[i]].view = Cache =>
           \E j \in 1..(i - 1) : ts[ns[j]].op = "copy"
    BY DEF OrderOK
  <2>2. \E j \in 1..(1 - 1) : ts[ns[j]].op = "copy"
    BY <1>1, <2>1
  <2> QED
    BY <2>2
<1>5. 1 \in 1..Len(src) /\ src[1] # Cache
  <2> HIDE DEF n
  <2>1. ts[n].op \in {"matmul", "add", "scale", "copy", "view"}
    BY <1>1, <1>2 DEF Ops
  <2>2. CASE ts[n].op = "view"
    <3>1. Len(src) = 1 /\ ts[n].view # NoTensor
          /\ (ts[n].view = src[1] \/ ts[n].view = ts[src[1]].view)
      BY <1>2, <2>2 DEF SourcesOK, BaseOK
    <3>2. src[1] # Cache
      BY <1>2, <1>4, <2>2, <3>1
    <3> QED
      BY <3>1, <3>2
  <2>3. CASE ts[n].op # "view"
    <3>1. Len(src) \in {1, 2} /\ src[1] # Cache
      <4>1. Len(src) \in {1, 2}
        <5>1. /\ ts[n].op = "matmul" => Len(src) \in {1, 2}
              /\ ts[n].op \in {"add", "copy"} => Len(src) = 2
              /\ ts[n].op = "scale" => Len(src) = 1
          BY <1>2 DEF SourcesOK
        <5>2. ts[n].op = "matmul" \/ ts[n].op \in {"add", "copy"} \/ ts[n].op = "scale"
          BY <2>1, <2>3
        <5> HIDE DEF src
        <5>3. CASE ts[n].op = "matmul"
          BY <5>1, <5>3
        <5>4. CASE ts[n].op \in {"add", "copy"}
          <6>1. Len(src) = 2
            BY ONLY <5>1, <5>4
          <6> QED
            BY <6>1
        <5>5. CASE ts[n].op = "scale"
          <6>1. Len(src) = 1
            BY ONLY <5>1, <5>5
          <6> QED
            BY <6>1
        <5> QED
          BY <5>2, <5>3, <5>4, <5>5
      <4>2. 1 \in 1..Len(src)
        <5>1. \A l \in {1, 2} : 1 \in 1..l
          OBVIOUS
        <5> QED
          BY <4>1, <5>1, Zenon
      <4>3. CASE ts[n].op = "copy"
        BY <1>2, <4>1, <4>3 DEF SourcesOK
      <4>4. CASE ts[n].op \in {"matmul", "add", "scale"}
        <5>1. \A k \in 1..Len(src) : src[k] # Cache
          BY <1>2, <4>4 DEF SourcesOK
        <5> QED
          BY <4>1, <4>2, <5>1
      <4> QED
        BY <2>1, <2>3, <4>3, <4>4
    <3> QED
      BY <3>1
  <2> QED
    BY <2>2, <2>3
<1>6. src[1] = Input
  BY <1>3, <1>5
<1> QED
  BY <1>1, <1>5, <1>6 DEF Reads


(* What was given back by the last view, or is read by no one, is kept: the *)
(* exceptions that the property names.                                      *)
LEMMA HolderKept ==
    ASSUME GraphInv, LeakInv, phase = "place", next > Len(nodes), ~a.failed,
           NEW t \in Before(nodes, Len(nodes)), NEW c, Holder(tensors, nodes, a, t, c)
    PROVE  t \in Kept /\ Own(tensors, t)
<1> DEFINE P == Before(nodes, Len(nodes))
           N == NodesOf(nodes)
<1>1. /\ GraphOK(tensors) /\ OrderOK(tensors, nodes) /\ size \in Nat
      /\ next \in 1..(Len(nodes) + 1) /\ Laid /\ Len(nodes) >= 1
  BY DEF GraphInv, NoRoom, LeakInv
<1>2. Len(nodes) \in Nat /\ DOMAIN nodes = 1..Len(nodes)
      /\ \A i \in 1..Len(nodes) : nodes[i] \in DOMAIN tensors /\ tensors[nodes[i]].op # "none"
  BY <1>1, OrderIs
<1>3. next - 1 = Len(nodes)
  BY <1>1, <1>2
<1>4. /\ Sound(tensors, a, P, size) /\ Counted(tensors, nodes, a, Len(nodes))
      /\ Full(tensors, nodes, a, P, size) /\ Setting(tensors, nodes, P)
  <2>1. PlaceInv(tensors, nodes, a, next - 1, size)
    BY <1>1 DEF Laid
  <2>2. Full(tensors, nodes, a, Before(nodes, next - 1), size)
    BY DEF LeakInv
  <2>3. Setting(tensors, nodes, P)
    BY <1>1, <1>2, SettingAt
  <2> QED
    BY <1>3, <2>1, <2>2, <2>3 DEF PlaceInv
<1>5. ToSet(nodes) = N
  BY <1>2 DEF ToSet, NodesOf
<1>6. \A u \in N : ~Reads(tensors, nodes, u) => u \in Unread
  <2> SUFFICES ASSUME NEW u \in N, ~Reads(tensors, nodes, u)
               PROVE  \A n \in N : ~Contains(tensors[n].src, u)
    BY <1>5 DEF Unread
  <2> QED
    BY DEF NodesOf, Reads, Contains
<1>7. /\ P \in SUBSET DOMAIN tensors /\ N \subseteq P /\ Shape(tensors) /\ 0 \notin DOMAIN tensors
      /\ \A u \in DOMAIN tensors : tensors[u].size \in Nat
      /\ \A u \in N : u \in DOMAIN tensors /\ tensors[u].op # "none"
  BY <1>2, <1>4, SizesOf DEF Setting, NodesOf, Before
<1>8. \A u \in DOMAIN tensors : a.children[u] = 0
  <2> SUFFICES ASSUME NEW u \in DOMAIN tensors PROVE a.children[u] = 0
    OBVIOUS
  <2>1. Uses(tensors, nodes, Len(nodes) + 1, u) = {}
    BY <1>2 DEF Uses
  <2> QED
    BY <1>4, <2>1, FS_EmptySet DEF Counted
<1>9. \A b \in DOMAIN tensors : a.views[b] > 0 => Viewers(tensors, nodes, a, b) # {}
  <2> SUFFICES ASSUME NEW b \in DOMAIN tensors, a.views[b] > 0, Viewers(tensors, nodes, a, b) = {}
               PROVE  FALSE
    OBVIOUS
  <2>1. a.views[b] <= 0
    BY <1>4, FS_EmptySet DEF Full, NoneExtra
  <2>2. a.views[b] \in Int
    BY <1>4 DEF Sound, Allocation
  <2> QED
    BY <2>1, <2>2
<1>10. t \in DOMAIN tensors /\ tensors[t].view = NoTensor /\ Own(tensors, t)
       /\ Keeps(tensors, nodes, a, t)
  BY <1>7 DEF Holder
<1>11. CASE ~Reads(tensors, nodes, t)
  <2>1. t # Input /\ t # Cache
    BY <1>1, <1>10, <1>11, InputRead DEF Own
  <2>2. t \in N
    BY <2>1 DEF Before, NodesOf
  <2> QED
    BY <1>6, <1>10, <1>11, <2>2 DEF Kept
<1>12. CASE Active(a, t) /\ ~Wholly(tensors, a, t)
  <2>1. a.views[t] > 0
    BY <1>8, <1>10, <1>12 DEF Active
  <2>2. PICK u \in Viewers(tensors, nodes, a, t) : TRUE
    BY <1>9, <1>10, <2>1
  <2>3. /\ u \in N /\ a.view[u] = t /\ t # NoTensor /\ u \in DOMAIN tensors
        /\ \/ Active(a, u) \/ ~Reads(tensors, nodes, u) \/ Detached(tensors, nodes, a, u)
    BY <1>7, <1>10, <2>2 DEF Viewers, NoTensor
  <2>4. CASE ~Reads(tensors, nodes, u)
    <3>1. u \in Unread
      BY <1>6, <2>3, <2>4
    <3>2. t \in Bases(Unread)
      BY <2>3, <3>1 DEF Bases
    <3> QED
      BY <1>10, <3>2 DEF Kept
  <2>5. ASSUME Detached(tensors, nodes, a, u)
        PROVE  t \in Kept
    <3>1. tensors[u].view = NoTensor /\ \E v \in N : tensors[v].view = u
      BY <2>5 DEF Detached
    <3>2. u # Cache
      BY <1>1, <1>7, <2>3 DEF GraphOK
    <3>3. Own(tensors, u)
      BY <3>1, <3>2 DEF Own, NoTensor, Cache
    <3>4. /\ a.data[u] \in Nat /\ a.data[t] <= a.data[u]
          /\ a.data[u] + tensors[u].size <= a.data[t] + tensors[t].size
      BY <1>4, <1>7, <2>3, <3>3 DEF Sound, Lies
    <3>5. a.data[t] \in Nat
      BY <1>4, <1>10 DEF Sound, Lies
    <3>6. tensors[u].size # tensors[t].size
      BY <1>12, <2>3, <3>1 DEF Wholly
    <3>7. tensors[u].size < tensors[t].size
      BY <1>7, <1>10, <2>3, <3>4, <3>5, <3>6
    <3>8. u \in PartTaken
      BY <1>5, <2>3, <3>1, <3>7 DEF PartTaken
    <3>9. t \in Bases(PartTaken)
      BY <2>3, <3>8 DEF Bases
    <3> QED
      BY <3>9 DEF Kept
  <2>6. CASE Active(a, u)
    <3>1. a.views[u] > 0
      BY <1>8, <2>3, <2>6 DEF Active
    <3>2. PICK w \in Viewers(tensors, nodes, a, u) : TRUE
      BY <1>9, <2>3, <3>1
    <3>3. w \in N /\ a.view[w] = u /\ w \in DOMAIN tensors /\ u # NoTensor
      BY <1>7, <2>3, <3>2 DEF Viewers, NoTensor
    <3>4. \E v \in N : tensors[v].view = u
      BY <1>4, <2>3, <3>3 DEF Full, SecondLevel
    <3>5. tensors[u].view = NoTensor
      BY <1>4, <3>3 DEF Sound, Based
    <3>6. Detached(tensors, nodes, a, u)
      BY <2>3, <3>4, <3>5 DEF Detached
    <3> QED
      BY <1>10, <2>5, <3>6
  <2> QED
    BY <1>10, <2>3, <2>4, <2>5, <2>6
<1> QED
  BY <1>10, <1>11, <1>12 DEF Keeps

(* What is kept has its memory. *)
LEMMA KeptPlaced ==
    ASSUME NEW P, Sound(tensors, a, P, size), P \in SUBSET DOMAIN tensors,
           ToSet(nodes) \subseteq P
    PROVE  Kept \subseteq P
<1>1. \A T : T \subseteq P => Bases(T) \subseteq P
  BY DEF Bases, Sound, Based
<1>2. Unread \subseteq P /\ PartTaken \subseteq P
  BY DEF Unread, PartTaken
<1>3. Bases(Unread) \subseteq P /\ Bases(PartTaken) \subseteq P
  BY <1>1, <1>2
<1>4. Bases(Bases(Unread)) \subseteq P
  BY <1>1, <1>3
<1> QED
  BY <1>2, <1>3, <1>4 DEF Kept

(* When every node is placed the buffer is free but for what is kept. *)
LEMMA LeakFollows ==
    ASSUME GraphInv, LeakInv
    PROVE  NothingLeaked
<1> DEFINE Free == UNION {a.free[j].addr..(End(a.free[j]) - 1) : j \in DOMAIN a.free}
           Used == (UNION {Cells(t) : t \in Kept}) \ {Foreign}
           P == Before(nodes, Len(nodes))
<1> SUFFICES ASSUME phase = "place", next > Len(nodes), ~a.failed
             PROVE  0..(size - 1) = Free \cup Used
  BY DEF NothingLeaked
<1>1. /\ GraphOK(tensors) /\ OrderOK(tensors, nodes) /\ size \in Nat
      /\ next \in 1..(Len(nodes) + 1) /\ Laid
  BY DEF GraphInv, NoRoom
<1>2. Len(nodes) \in Nat /\ DOMAIN nodes = 1..Len(nodes)
  BY <1>1, OrderIs
<1>3. next - 1 = Len(nodes)
  BY <1>1, <1>2
<1>4. Sound(tensors, a, P, size) /\ Covered(tensors, nodes, a, P, size)
  <2>1. PlaceInv(tensors, nodes, a, next - 1, size)
    BY <1>1 DEF Laid
  <2>2. Full(tensors, nodes, a, Before(nodes, next - 1), size)
    BY DEF LeakInv
  <2> QED
    BY <1>3, <2>1, <2>2 DEF PlaceInv, Full
<1>5. /\ P \in SUBSET DOMAIN tensors /\ ToSet(nodes) \subseteq P
      /\ \A t \in DOMAIN tensors : tensors[t].size \in Nat
  <2>1. P \in SUBSET DOMAIN tensors
    BY <1>1, <1>2, BeforeIn
  <2>2. ToSet(nodes) \subseteq P
    BY <1>2 DEF ToSet, Before
  <2> QED
    BY <1>1, <2>1, <2>2, GraphShape, SizesOf
<1>6. /\ DOMAIN a.free = 1..Len(a.free)
      /\ \A j \in 1..Len(a.free) : /\ a.free[j].addr \in Nat /\ End(a.free[j]) \in Nat
                                   /\ End(a.free[j]) <= size
  <2>1. Sorted(a.free, size)
    BY <1>4 DEF Sound
  <2> QED
    BY <2>1, BlocksOf, LenProperties DEF Sorted
<1>7. ASSUME NEW c \in 0..(size - 1)
      PROVE  c \in Free \cup Used
  <2>0. c \in Nat
    OBVIOUS
  <2>1. CASE InFree(a.free, c)
    <3>1. PICK j \in 1..Len(a.free) : a.free[j].addr <= c /\ c < End(a.free[j])
      BY <2>1 DEF InFree
    <3>2. c \in a.free[j].addr..(End(a.free[j]) - 1) /\ j \in DOMAIN a.free
      BY <1>6, <2>0, <3>1
    <3> QED
      BY <3>2
  <2>2. CASE \E t \in P : Holder(tensors, nodes, a, t, c)
    <3>1. PICK t \in P : Holder(tensors, nodes, a, t, c)
      BY <2>2
    <3>2. t \in Kept /\ Own(tensors, t) /\ t \in DOMAIN tensors
      BY <1>5, <3>1, HolderKept
    <3>3. a.data[t] \in Nat /\ tensors[t].size \in Nat
      BY <1>4, <1>5, <3>1, <3>2 DEF Sound, Lies
    <3>4. a.data[t] <= c /\ c < a.data[t] + tensors[t].size
      BY <3>1 DEF Holder, Spans
    <3>5. c \in a.data[t]..(a.data[t] + tensors[t].size - 1) /\ c # Foreign
      BY <2>0, <3>3, <3>4 DEF Foreign
    <3>6. Cells(t) = a.data[t]..(a.data[t] + tensors[t].size - 1)
      BY <3>3 DEF Cells, Foreign
    <3> QED
      BY <3>2, <3>5, <3>6
  <2> QED
    BY <1>4, <2>1, <2>2 DEF Covered
<1>8. ASSUME NEW c \in Free
      PROVE  c \in 0..(size - 1)
  <2>1. PICK j \in 1..Len(a.free) : c \in a.free[j].addr..(End(a.free[j]) - 1)
    BY <1>6
  <2>2. a.free[j].addr \in Nat /\ End(a.free[j]) \in Nat /\ End(a.free[j]) <= size
    BY <1>6
  <2> QED
    BY <1>1, <2>1, <2>2
<1>9. ASSUME NEW c \in Used
      PROVE  c \in 0..(size - 1)
  <2>1. PICK t \in Kept : c \in Cells(t)
    OBVIOUS
  <2>2. c # Foreign
    OBVIOUS
  <2>3. t \in P /\ t \in DOMAIN tensors
    BY <1>4, <1>5, KeptPlaced
  <2>4. a.data[t] # Foreign /\ c \in a.data[t]..(a.data[t] + tensors[t].size - 1)
    BY <2>1, <2>2 DEF Cells
  <2>5. a.data[t] \in Nat /\ a.data[t] + tensors[t].size <= size /\ tensors[t].size \in Nat
    BY <1>4, <1>5, <2>3, <2>4 DEF Sound, Lies
  <2> QED
    BY <1>1, <2>4, <2>5
<1> HIDE DEF Free, Used
<1> QED
  BY <1>7, <1>8, <1>9

(* Once the whole graph is placed, every cell of the buffer is free or      *)
(* belongs to a tensor the property names: ggml_tallocr_alloc and           *)
(* ggml_tallocr_free_tensor lose no memory, whatever the graph, and neither *)
(* do the counts of children and views in ggml_tallocr_alloc_graph_impl.    *)
THEOREM NothingIsLeaked == Spec => []NothingLeaked
<1>1. GraphInv /\ LeakInv => NothingLeaked
  BY LeakFollows
<1> QED
  BY <1>1, LeakKept, PTL

=============================================================================
