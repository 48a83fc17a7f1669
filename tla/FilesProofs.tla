---------------------------- MODULE FilesProofs ----------------------------
(***************************************************************************)
(* Proofs about the two kinds of file that are rewritten from another       *)
(* copy: the mirrored logs, whatever oracle.mirror and oracle.decisions do  *)
(* (MirrorSync), and the transaction history of a book (History).  The two  *)
(* share no state; each has its own specification.                          *)
(*                                                                          *)
(* What is said here holds for any shared history, any rows, and, where a   *)
(* theorem does not say otherwise, under every fault.                       *)
(***************************************************************************)
EXTENDS MirrorSync, History, DataProofs, SequenceTheorems

-----------------------------------------------------------------------------
(* Picking rows out of a file.                                             *)

\* Nth(S, j) is a member of S with j members up to it.
LEMMA NthIsJth ==
  ASSUME NEW N \in Nat, NEW S \in SUBSET (1 .. N), NEW j \in 1 .. Cardinality(S)
  PROVE  Nth(S, j) \in S /\ Cardinality({h \in S : h <= Nth(S, j)}) = j
<1> DEFINE Upto(i) == {h \in S : h <= i}
           Count(i) == Cardinality(Upto(i))
<1>1. IsFiniteSet(S) /\ \A i \in Nat : IsFiniteSet(Upto(i)) /\ Count(i) \in Nat
  <2>1. IsFiniteSet(1 .. N)
    BY FS_Interval
  <2>2. IsFiniteSet(S)
    BY <2>1, FS_Subset
  <2>3. ASSUME NEW i \in Nat PROVE IsFiniteSet(Upto(i))
    BY <2>2, FS_Subset
  <2>. QED
    BY <2>2, <2>3, FS_CardinalityType
<1>2. Cardinality(S) \in Nat
  BY <1>1, FS_CardinalityType
<1>3. Count(N) = Cardinality(S) /\ Count(0) = 0
  <2>1. \A h \in S : h <= N /\ ~(h <= 0)
    OBVIOUS
  <2>2. Upto(N) = S /\ Upto(0) = {}
    BY <2>1, Zenon
  <2>. QED
    BY <2>2, FS_EmptySet
<1>4. ASSUME NEW i \in Nat \ {0}
      PROVE  Count(i) = IF i \in S THEN Count(i - 1) + 1 ELSE Count(i - 1)
  <2>1. \A h \in S : h <= i <=> h <= i - 1 \/ h = i
    OBVIOUS
  <2>2. ~(i <= i - 1) /\ i <= i /\ i - 1 \in Nat
    OBVIOUS
  <2>3. CASE i \in S
    <3>1. Upto(i) = Upto(i - 1) \cup {i} /\ i \notin Upto(i - 1)
      BY <2>1, <2>2, <2>3, Zenon
    <3>. QED
      BY <3>1, <2>2, <2>3, <1>1, FS_AddElement
  <2>4. CASE i \notin S
    <3>1. Upto(i) = Upto(i - 1)
      BY <2>1, <2>4, Zenon
    <3>. QED
      BY <3>1, <2>4
  <2>. QED
    BY <2>3, <2>4
<1>5. \A i \in Nat : Count(i) \in Nat
  BY <1>1
<1> HIDE DEF Count
<1>6. PICK i \in Nat : Count(i) >= j /\ \A y \in Nat : Count(y) >= j => i <= y
  <2> DEFINE Many == {y \in Nat : Count(y) >= j}
  <2>1. N \in Many
    BY <1>2, <1>3
  <2>2. PICK i \in Many : \A y \in Many : i <= y
    BY <2>1, LeastExists
  <2>. QED
    BY <2>2
<1>7. i # 0
  BY <1>2, <1>3, <1>6
<1>8. Count(i - 1) < j
  <2>1. i - 1 \in Nat /\ ~(i <= i - 1)
    BY <1>7
  <2>. QED
    BY <2>1, <1>2, <1>5, <1>6
<1>9. i \in S /\ Count(i) = j
  <2>1. i - 1 \in Nat /\ Count(i - 1) \in Nat /\ Count(i) \in Nat
    BY <1>5, <1>7
  <2>. QED
    BY <2>1, <1>2, <1>4, <1>6, <1>7, <1>8
<1>. QED
  BY <1>9 DEF Nth, Count

\* Members are counted in their order.
LEMMA CountsGrow ==
  ASSUME NEW N \in Nat, NEW S \in SUBSET (1 .. N), NEW i \in S, NEW k \in S, i < k
  PROVE  Cardinality({h \in S : h <= i}) < Cardinality({h \in S : h <= k})
<1> DEFINE Upto(n) == {h \in S : h <= n}
<1>1. IsFiniteSet(1 .. N)
  BY FS_Interval
<1>2. IsFiniteSet(S)
  BY <1>1, FS_Subset
<1>3. IsFiniteSet(Upto(i)) /\ IsFiniteSet(Upto(k))
  BY <1>2, FS_Subset
<1>4. Upto(i) \subseteq Upto(k) /\ Upto(i) # Upto(k)
  <2>1. (\A h \in S : h <= i => h <= k) /\ k <= k /\ ~(k <= i)
    <3>1. (\A h \in S : h \in Int) /\ i \in Int /\ k \in Int
      OBVIOUS
    <3>. QED
      BY <3>1
  <2>2. k \in Upto(k) /\ k \notin Upto(i)
    BY <2>1, Zenon
  <2>3. Upto(i) \subseteq Upto(k)
    BY <2>1, Zenon
  <2>. QED
    BY <2>2, <2>3, Zenon
<1>5. Cardinality(Upto(i)) \in Nat /\ Cardinality(Upto(k)) \in Nat
  BY <1>3, FS_CardinalityType
<1>6. /\ Cardinality(Upto(i)) <= Cardinality(Upto(k))
      /\ Cardinality(Upto(k)) = Cardinality(Upto(i)) => Upto(k) = Upto(i)
  BY <1>3, <1>4, FS_Subset
<1>. QED
  BY <1>4, <1>5, <1>6

\* Nth lists S, each member once, in order.
LEMMA NthLists ==
  ASSUME NEW N \in Nat, NEW S \in SUBSET (1 .. N)
  PROVE  /\ Cardinality(S) \in Nat
         /\ \A j \in 1 .. Cardinality(S) : Nth(S, j) \in S
         /\ \A j, k \in 1 .. Cardinality(S) : j < k => Nth(S, j) < Nth(S, k)
         /\ \A i \in S : \E j \in 1 .. Cardinality(S) : Nth(S, j) = i
<1> DEFINE Upto(n) == {h \in S : h <= n}
<1>1. IsFiniteSet(1 .. N)
  BY FS_Interval
<1>2. IsFiniteSet(S)
  BY <1>1, FS_Subset
<1>3. Cardinality(S) \in Nat
  BY <1>2, FS_CardinalityType
<1>4. \A j \in 1 .. Cardinality(S) : Nth(S, j) \in S /\ Cardinality(Upto(Nth(S, j))) = j
  BY NthIsJth
<1>5. \A i, k \in S : i < k => Cardinality(Upto(i)) < Cardinality(Upto(k))
  BY CountsGrow
<1>6. \A i \in S : i \in Nat
  OBVIOUS
<1>7. ASSUME NEW j \in 1 .. Cardinality(S), NEW k \in 1 .. Cardinality(S), j < k
      PROVE  Nth(S, j) < Nth(S, k)
  <2>1. Nth(S, j) \in S /\ Nth(S, k) \in S
    BY <1>4
  <2>2. Nth(S, j) \in Nat /\ Nth(S, k) \in Nat
    BY <1>6, <2>1, Zenon
  <2>3. Cardinality(Upto(Nth(S, j))) = j /\ Cardinality(Upto(Nth(S, k))) = k
    BY <1>4
  <2>4. Nth(S, k) < Nth(S, j) => k < j
    BY <1>5, <2>1, <2>3
  <2>5. Nth(S, k) = Nth(S, j) => k = j
    BY <2>3
  <2>6. j \in Nat /\ k \in Nat
    BY <1>3
  <2>. QED
    BY <1>7, <2>2, <2>4, <2>5, <2>6
<1>8. ASSUME NEW i \in S
      PROVE  \E j \in 1 .. Cardinality(S) : Nth(S, j) = i
  <2>1. IsFiniteSet(Upto(i)) /\ Cardinality(Upto(i)) <= Cardinality(S)
    BY <1>2, FS_Subset
  <2>2. Cardinality(Upto(i)) \in Nat /\ Cardinality(Upto(i)) # 0
    <3>1. i \in Upto(i)
      OBVIOUS
    <3>. QED
      BY <3>1, <2>1, FS_CardinalityType, FS_EmptySet
  <2>3. Cardinality(Upto(i)) \in 1 .. Cardinality(S)
    BY <1>3, <2>1, <2>2
  <2> DEFINE k == Nth(S, Cardinality(Upto(i)))
  <2>4. k \in S /\ Cardinality(Upto(k)) = Cardinality(Upto(i))
    BY <1>4, <2>3
  <2>5. ~(k < i) /\ ~(i < k)
    <3>1. k < i => Cardinality(Upto(k)) < Cardinality(Upto(i))
      BY <1>5, <2>4
    <3>2. i < k => Cardinality(Upto(i)) < Cardinality(Upto(k))
      BY <1>5, <2>4
    <3>. QED
      BY <3>1, <3>2, <2>2, <2>4
  <2>6. k = i
    <3>1. k \in Nat /\ i \in Nat
      BY <1>6, <2>4, Zenon
    <3>. QED
      BY <3>1, <2>5
  <2>. QED
    BY <2>3, <2>6
<1>. QED
  BY <1>3, <1>4, <1>7, <1>8

-----------------------------------------------------------------------------
(* merge_lines.                                                            *)

\* What stands at each place of a merged file.
LEMMA MergedRows ==
  ASSUME NEW own \in Seq(Row), NEW held \in Seq(Row)
  PROVE  LET added == Unseen(own, held) IN
         /\ added \in SUBSET (1 .. Len(held))
         /\ Cardinality(added) \in Nat
         /\ merge_lines(own, held) \in Seq(Row)
         /\ Len(merge_lines(own, held)) = Len(own) + Cardinality(added)
         /\ \A i \in 1 .. Len(own) : merge_lines(own, held)[i] = own[i]
         /\ \A j \in 1 .. Cardinality(added) :
              merge_lines(own, held)[Len(own) + j] = held[Nth(added, j)]
<1> DEFINE added == Unseen(own, held)
<1>1. Len(held) \in Nat /\ Len(own) \in Nat /\ DOMAIN held = 1 .. Len(held)
  OBVIOUS
<1>2. added \in SUBSET (1 .. Len(held))
  BY <1>1 DEF Unseen
<1>3. /\ Cardinality(added) \in Nat
      /\ \A j \in 1 .. Cardinality(added) : Nth(added, j) \in added
  BY <1>1, <1>2, NthLists
<1> DEFINE more == Picked(held, added)
<1>4. \A j \in 1 .. Cardinality(added) : held[Nth(added, j)] \in Row
  <2>1. \A i \in 1 .. Len(held) : held[i] \in Row
    OBVIOUS
  <2>. QED
    BY <2>1, <1>2, <1>3
<1>5. more \in [1 .. Cardinality(added) -> Row]
  BY <1>4 DEF Picked
<1>6. more \in Seq(Row) /\ Len(more) = Cardinality(added)
  BY <1>3, <1>5
<1>7. \A j \in 1 .. Cardinality(added) : more[j] = held[Nth(added, j)]
  BY DEF Picked
<1>8. merge_lines(own, held) = own \o more
  BY DEF merge_lines
<1> HIDE DEF more
<1>9. /\ own \o more \in Seq(Row)
      /\ Len(own \o more) = Len(own) + Len(more)
      /\ \A i \in 1 .. Len(own) + Len(more) :
           (own \o more)[i] = IF i <= Len(own) THEN own[i] ELSE more[i - Len(own)]
  BY <1>6, ConcatProperties
<1>10. \A i \in 1 .. Len(own) : (own \o more)[i] = own[i]
  BY <1>1, <1>3, <1>6, <1>9
<1>11. ASSUME NEW j \in 1 .. Cardinality(added)
       PROVE  (own \o more)[Len(own) + j] = held[Nth(added, j)]
  <2>1. Len(own) + j \in 1 .. Len(own) + Len(more) /\ ~(Len(own) + j <= Len(own))
    BY <1>1, <1>3, <1>6
  <2>2. (Len(own) + j) - Len(own) = j
    BY <1>1, <1>3
  <2>3. (own \o more)[Len(own) + j] = more[j]
    BY <1>9, <2>1, <2>2
  <2>. QED
    BY <2>3, <1>7
<1>. QED
  BY <1>2, <1>3, <1>6, <1>8, <1>9, <1>10, <1>11

\* A place of a merged file is a place of the own file or one after it.
LEMMA PlaceSplits ==
  ASSUME NEW k \in Nat, NEW n \in Nat, NEW i \in 1 .. k + n
  PROVE  i \in 1 .. k \/ \E j \in 1 .. n : i = k + j
<1>1. CASE i <= k
  BY <1>1
<1>2. CASE k < i
  <2>1. i - k \in 1 .. n /\ i = k + (i - k)
    BY <1>2
  <2>. QED
    BY <2>1
<1>. QED
  BY <1>1, <1>2

\* IsPrefix, place by place.
LEMMA PrefixByPlace ==
  ASSUME NEW s \in Seq(Row), NEW t \in Seq(Row)
  PROVE  IsPrefix(s, t) <=> Len(s) <= Len(t) /\ \A i \in 1 .. Len(s) : s[i] = t[i]
<1>1. Len(s) \in Nat /\ Len(t) \in Nat
  OBVIOUS
<1>2. SubSeq(s, 1, Len(s)) = s
  BY SubSeqFull
<1>3. ASSUME Len(s) <= Len(t)
      PROVE  SubSeq(t, 1, Len(s)) = s <=> \A i \in 1 .. Len(s) : s[i] = t[i]
  <2>1. \A i \in 1 .. Len(s) : t[i] \in Row
    BY <1>1, <1>3
  <2>2. /\ SubSeq(t, 1, Len(s)) \in Seq(Row)
        /\ Len(SubSeq(t, 1, Len(s))) = Len(s)
        /\ \A i \in 1 .. Len(s) : SubSeq(t, 1, Len(s))[i] = t[i]
    BY <1>1, <1>3, <2>1
  <2>. QED
    BY <2>2, SeqEqual
<1>. QED
  BY <1>2, <1>3 DEF IsPrefix

\* The local file is kept verbatim.
LEMMA MergeExtends ==
  ASSUME NEW own \in Seq(Row), NEW held \in Seq(Row)
  PROVE  merge_lines(own, held) \in Seq(Row) /\ IsPrefix(own, merge_lines(own, held))
<1> DEFINE added == Unseen(own, held)
<1>1. /\ Cardinality(added) \in Nat
      /\ merge_lines(own, held) \in Seq(Row)
      /\ Len(merge_lines(own, held)) = Len(own) + Cardinality(added)
      /\ \A i \in 1 .. Len(own) : merge_lines(own, held)[i] = own[i]
  BY MergedRows
<1> HIDE DEF added
<1>2. Len(own) \in Nat
  OBVIOUS
<1>. QED
  BY <1>1, <1>2, PrefixByPlace

\* Every row of a merged file was in one of the two.
LEMMA MergeInvents ==
  ASSUME NEW own \in Seq(Row), NEW held \in Seq(Row),
         NEW i \in 1 .. Len(merge_lines(own, held))
  PROVE  \/ \E k \in 1 .. Len(own) : merge_lines(own, held)[i] = own[k]
         \/ \E k \in 1 .. Len(held) : merge_lines(own, held)[i] = held[k]
<1> DEFINE added == Unseen(own, held)
           merged == merge_lines(own, held)
<1>1. /\ added \in SUBSET (1 .. Len(held))
      /\ Cardinality(added) \in Nat
      /\ Len(merged) = Len(own) + Cardinality(added)
      /\ \A k \in 1 .. Len(own) : merged[k] = own[k]
      /\ \A j \in 1 .. Cardinality(added) : merged[Len(own) + j] = held[Nth(added, j)]
  BY MergedRows
<1>2. Len(own) \in Nat /\ Len(held) \in Nat
  OBVIOUS
<1>3. \A j \in 1 .. Cardinality(added) : Nth(added, j) \in 1 .. Len(held)
  BY <1>1, <1>2, NthLists
<1> HIDE DEF added, merged
<1>4. i \in 1 .. Len(own) \/ \E j \in 1 .. Cardinality(added) : i = Len(own) + j
  <2>1. i \in 1 .. Len(own) + Cardinality(added)
    BY <1>1 DEF merged
  <2>2. Len(own) \in Nat /\ Cardinality(added) \in Nat
    BY <1>1, <1>2
  <2>. QED
    BY <2>1, <2>2, PlaceSplits
<1>5. CASE i \in 1 .. Len(own)
  BY <1>1, <1>5 DEF merged
<1>6. CASE \E j \in 1 .. Cardinality(added) : i = Len(own) + j
  BY <1>1, <1>3, <1>6 DEF merged
<1>. QED
  BY <1>4, <1>5, <1>6

\* A merge makes no row two, whatever the mirror held twice.
LEMMA MergeInjective ==
  ASSUME NEW own \in Seq(Row), NEW held \in Seq(Row), IsInjective(own)
  PROVE  IsInjective(merge_lines(own, held))
<1> DEFINE added == Unseen(own, held)
           merged == merge_lines(own, held)
<1>1. /\ added \in SUBSET (1 .. Len(held))
      /\ Cardinality(added) \in Nat
      /\ merged \in Seq(Row)
      /\ Len(merged) = Len(own) + Cardinality(added)
      /\ \A k \in 1 .. Len(own) : merged[k] = own[k]
      /\ \A j \in 1 .. Cardinality(added) : merged[Len(own) + j] = held[Nth(added, j)]
  BY MergedRows
<1>2. Len(own) \in Nat /\ Len(held) \in Nat /\ DOMAIN own = 1 .. Len(own)
  OBVIOUS
<1>3. /\ \A j \in 1 .. Cardinality(added) : Nth(added, j) \in added
      /\ \A j, k \in 1 .. Cardinality(added) : j < k => Nth(added, j) < Nth(added, k)
  BY <1>1, <1>2, NthLists
<1>4. \A i \in added : held[i] \notin Range(own)
  BY DEF Unseen
<1>5. ASSUME NEW i \in added, NEW k \in added, i < k
      PROVE  held[i] # held[k]
  <2>1. \A h \in 1 .. k - 1 : held[h] # held[k]
    BY DEF Unseen
  <2>2. i \in 1 .. Len(held) /\ k \in 1 .. Len(held)
    BY <1>1
  <2>3. i \in 1 .. k - 1
    BY <1>2, <1>5, <2>2
  <2>. QED
    BY <2>1, <2>3
<1>6. DOMAIN merged = 1 .. Len(merged)
  BY <1>1
<1> HIDE DEF added, merged
<1>7. ASSUME NEW i \in 1 .. Len(merged), NEW k \in 1 .. Len(merged), i < k
      PROVE  merged[i] # merged[k]
  <2>0. /\ i \in 1 .. Len(own) + Cardinality(added) /\ k \in 1 .. Len(own) + Cardinality(added)
        /\ Len(own) \in Nat /\ Cardinality(added) \in Nat
    BY <1>1, <1>2
  <2>1. i \in 1 .. Len(own) \/ \E j \in 1 .. Cardinality(added) : i = Len(own) + j
    BY <2>0, PlaceSplits
  <2>2. k \in 1 .. Len(own) \/ \E j \in 1 .. Cardinality(added) : k = Len(own) + j
    BY <2>0, PlaceSplits
  <2>3. CASE i \in 1 .. Len(own) /\ k \in 1 .. Len(own)
    <3>1. i # k
      BY <1>7
    <3>. QED
      BY <1>1, <1>2, <2>3, <3>1 DEF IsInjective
  <2>4. ASSUME i \in 1 .. Len(own), NEW j \in 1 .. Cardinality(added), k = Len(own) + j
        PROVE  merged[i] # merged[k]
    <3>1. merged[i] \in Range(own)
      BY <1>1, <1>2, <2>4 DEF Range
    <3>2. merged[k] \notin Range(own)
      BY <1>1, <1>3, <1>4, <2>4
    <3>. QED
      BY <3>1, <3>2
  <2>5. ASSUME k \in 1 .. Len(own), NEW j \in 1 .. Cardinality(added), i = Len(own) + j
        PROVE  FALSE
    BY <1>1, <1>2, <1>7, <2>5
  <2>6. ASSUME NEW j \in 1 .. Cardinality(added), i = Len(own) + j,
               NEW l \in 1 .. Cardinality(added), k = Len(own) + l
        PROVE  merged[i] # merged[k]
    <3>1. j < l
      BY <1>1, <1>2, <1>7, <2>6
    <3>2. Nth(added, j) < Nth(added, l)
      BY <1>3, <3>1
    <3>3. held[Nth(added, j)] # held[Nth(added, l)]
      BY <1>3, <1>5, <3>2
    <3>. QED
      BY <1>1, <2>6, <3>3
  <2>. QED
    BY <2>1, <2>2, <2>3, <2>4, <2>5, <2>6
<1>8. ASSUME NEW i \in 1 .. Len(merged), NEW k \in 1 .. Len(merged), merged[i] = merged[k]
      PROVE  i = k
  <2>1. ~(i < k) /\ ~(k < i)
    BY <1>7, <1>8
  <2>. QED
    BY <2>1, <1>1
<1>. QED
  BY <1>6, <1>8 DEF IsInjective, merged

\* Each machine's rows stand in the order they were entered, without a gap.
Ordered(file) ==
  \A i \in DOMAIN file : \A n \in 1 .. file[i].n - 1 :
    \E h \in 1 .. i - 1 : file[h] = [by |-> file[i].by, n |-> n]

\* A merge of two such files is one: what is appended keeps its order, and
\* what it follows is there or before it.
LEMMA MergeOrdered ==
  ASSUME NEW own \in Seq(Row), NEW held \in Seq(Row), Ordered(own), Ordered(held)
  PROVE  Ordered(merge_lines(own, held))
<1> DEFINE added == Unseen(own, held)
           merged == merge_lines(own, held)
<1>1. /\ added \in SUBSET (1 .. Len(held))
      /\ Cardinality(added) \in Nat
      /\ merged \in Seq(Row)
      /\ Len(merged) = Len(own) + Cardinality(added)
      /\ \A k \in 1 .. Len(own) : merged[k] = own[k]
      /\ \A j \in 1 .. Cardinality(added) : merged[Len(own) + j] = held[Nth(added, j)]
  BY MergedRows
<1>2. /\ Len(own) \in Nat /\ DOMAIN own = 1 .. Len(own)
      /\ Len(held) \in Nat /\ DOMAIN held = 1 .. Len(held)
      /\ DOMAIN merged = 1 .. Len(merged)
  BY <1>1
<1>3. /\ \A j \in 1 .. Cardinality(added) : Nth(added, j) \in added
      /\ \A j, k \in 1 .. Cardinality(added) : j < k => Nth(added, j) < Nth(added, k)
      /\ \A i \in added : \E j \in 1 .. Cardinality(added) : Nth(added, j) = i
  BY <1>1, <1>2, NthLists
<1>4. ASSUME NEW f \in 1 .. Len(held), held[f] \notin Range(own),
             \A h \in 1 .. f - 1 : held[h] # held[f]
      PROVE  f \in added
  BY <1>2, <1>4 DEF Unseen
<1> HIDE DEF added, merged
<1>5. ASSUME NEW i \in 1 .. Len(own), NEW n \in 1 .. merged[i].n - 1
      PROVE  \E h \in 1 .. i - 1 : merged[h] = [by |-> merged[i].by, n |-> n]
  <2>1. merged[i] = own[i]
    BY <1>1
  <2>2. PICK h \in 1 .. i - 1 : own[h] = [by |-> own[i].by, n |-> n]
    BY <1>2, <2>1 DEF Ordered
  <2>3. h \in 1 .. Len(own)
    BY <1>2
  <2>. QED
    BY <1>1, <2>1, <2>2, <2>3
<1>6. ASSUME NEW j \in 1 .. Cardinality(added), NEW n \in 1 .. merged[Len(own) + j].n - 1
      PROVE  \E h \in 1 .. (Len(own) + j) - 1 :
               merged[h] = [by |-> merged[Len(own) + j].by, n |-> n]
  <2> DEFINE k == Nth(added, j)
             r == [by |-> held[k].by, n |-> n]
  <2>1. k \in 1 .. Len(held) /\ merged[Len(own) + j] = held[k]
    BY <1>1, <1>3
  <2>2. PICK h \in 1 .. k - 1 : held[h] = r
    BY <1>2, <2>1 DEF Ordered
  <2> HIDE DEF r
  <2>3. ASSUME r \in Range(own)
        PROVE  \E p \in 1 .. (Len(own) + j) - 1 : merged[p] = r
    <3>1. PICK p \in 1 .. Len(own) : own[p] = r
      BY <1>2, <2>3 DEF Range
    <3>2. p \in 1 .. (Len(own) + j) - 1
      BY <1>1, <1>2
    <3>. QED
      BY <1>1, <3>1, <3>2
  <2>4. ASSUME r \notin Range(own)
        PROVE  \E p \in 1 .. (Len(own) + j) - 1 : merged[p] = r
    <3> DEFINE Holders == {x \in 1 .. Len(held) : held[x] = r}
    <3>1. h \in Holders /\ h < k /\ Holders \in SUBSET Nat
      <4>1. h \in 1 .. Len(held) /\ h < k
        BY <1>2, <2>1
      <4>. QED
        BY <4>1, <2>2
    <3>2. PICK f \in Holders : \A y \in Holders : f <= y
      BY <3>1, LeastExists
    <3>3. f \in 1 .. Len(held) /\ held[f] = r
      BY <3>2
    <3>4. \A y \in 1 .. f - 1 : held[y] # held[f]
      <4>1. SUFFICES ASSUME NEW y \in 1 .. f - 1, held[y] = r PROVE FALSE
        BY <3>3
      <4>2. y \in 1 .. Len(held) /\ y < f
        BY <1>2, <3>3
      <4>3. f <= y
        BY <3>2, <4>1, <4>2
      <4>. QED
        BY <4>2, <4>3, <3>3
    <3>5. f < k
      <4>1. f <= h
        BY <3>1, <3>2
      <4>2. f \in Nat /\ h \in Nat /\ k \in Nat
        BY <2>1, <3>1, <3>3
      <4>. QED
        BY <4>1, <4>2, <3>1
    <3>6. PICK l \in 1 .. Cardinality(added) : Nth(added, l) = f
      <4>1. f \in added
        BY <1>4, <2>4, <3>3, <3>4
      <4>. QED
        BY <1>3, <4>1
    <3>7. l < j
      <4>1. j < l => k < f
        BY <1>3, <3>6
      <4>2. j = l => k = f
        BY <3>6
      <4>3. f \in Nat /\ k \in Nat /\ j \in Nat /\ l \in Nat
        BY <1>1, <2>1, <3>3
      <4> HIDE DEF k
      <4>. QED
        BY <4>1, <4>2, <4>3, <3>5
    <3>8. Len(own) + l \in 1 .. (Len(own) + j) - 1
      BY <1>1, <1>2, <3>7
    <3>9. merged[Len(own) + l] = r
      BY <1>1, <3>3, <3>6
    <3>. QED
      BY <3>8, <3>9
  <2>. QED
    BY <2>1, <2>3, <2>4 DEF r
<1>7. ASSUME NEW i \in 1 .. Len(merged)
      PROVE  \A n \in 1 .. merged[i].n - 1 :
               \E h \in 1 .. i - 1 : merged[h] = [by |-> merged[i].by, n |-> n]
  <2>1. i \in 1 .. Len(own) + Cardinality(added)
    BY <1>1
  <2>2. Len(own) \in Nat /\ Cardinality(added) \in Nat
    BY <1>1, <1>2
  <2>3. i \in 1 .. Len(own) \/ \E j \in 1 .. Cardinality(added) : i = Len(own) + j
    BY <2>1, <2>2, PlaceSplits
  <2>. QED
    BY <2>3, <1>5, <1>6
<1>. QED
  BY <1>2, <1>7 DEF Ordered, merged

-----------------------------------------------------------------------------
(* Types.                                                                  *)

LEMMA PastIsTyped ==
  ASSUME NEW k \in 0 .. Shared
  PROVE  /\ Past(k) \in Seq(Row)
         /\ Len(Past(k)) = k
         /\ \A i \in 1 .. k : Past(k)[i] = [by |-> "laptop", n |-> i]
<1>1. k \in Nat /\ \A i \in 1 .. k : i \in 1 .. MaxRows
  BY ConstantsAssumption
<1>2. \A i \in 1 .. k : [by |-> "laptop", n |-> i] \in Row
  BY <1>1 DEF Row, Machines
<1>3. Past(k) \in [1 .. k -> Row]
  BY <1>2 DEF Past
<1>. QED
  BY <1>1, <1>3 DEF Past

LEMMA NextRowIsTyped ==
  ASSUME TypeOK, NEW m \in Machines, entered[m] < MaxRows
  PROVE  NextRow(m) \in Row /\ entered[m] + 1 \in 0 .. MaxRows
BY ConstantsAssumption DEF TypeOK, NextRow, Row

LEMMA SyncTypes ==
  ASSUME TypeOK, NEW m \in Machines
  PROVE  /\ local[m] \in Seq(Row)
         /\ sync[m].held \in Seq(Row) /\ sync[m].merged \in Seq(Row)
         /\ sync[m].at \in {"idle", "fetched", "read", "merged"}
         /\ merge_lines(local[m], sync[m].held) \in Seq(Row)
<1>1. /\ local[m] \in Seq(Row)
      /\ sync[m].held \in Seq(Row) /\ sync[m].merged \in Seq(Row)
      /\ sync[m].at \in {"idle", "fetched", "read", "merged"}
  BY DEF TypeOK
<1>. QED
  BY <1>1, MergeExtends

LEMMA TypeInit == Init => TypeOK
<1> SUFFICES ASSUME Init PROVE TypeOK
  OBVIOUS
<1>1. \A k \in 0 .. Shared : Past(k) \in Seq(Row)
  BY PastIsTyped
<1>2. /\ local \in [Machines -> Seq(Row)]
      /\ remote \in Seq(Row) /\ vault \in Seq(Row)
  BY <1>1 DEF Init
<1>3. entered \in [Machines -> 0 .. MaxRows]
  BY ConstantsAssumption DEF Init
<1>4. sync \in [Machines -> [at : {"idle", "fetched", "read", "merged"},
                              held : Seq(Row), merged : Seq(Row)]]
  BY DEF Init, NoSync
<1>. QED
  BY <1>2, <1>3, <1>4 DEF Init, TypeOK, NoSession

LEMMA ReconcileType ==
  ASSUME TypeOK, NEW m \in Machines, ReconcileStep(m)
  PROVE  TypeOK'
<1>. USE DEF TypeOK
<1>0. <<>> \in Seq(Row)
  OBVIOUS
<1>1. CASE Fetch(m)
  <2>1. PICK body \in Seq(Row) : Fetched(m, body)
    BY <1>0, <1>1 DEF Fetch
  <2>2. sync' \in [Machines -> [at : {"idle", "fetched", "read", "merged"},
                                held : Seq(Row), merged : Seq(Row)]]
    BY <1>0, <2>1 DEF Fetched
  <2>. QED
    BY <2>1, <2>2 DEF Fetched
<1>2. CASE ReadLocal(m)
  <2>1. merge_lines(local[m], sync[m].held) \in Seq(Row)
    BY SyncTypes
  <2>2. PICK at \in {"read", "merged"}, merged \in Seq(Row) :
          sync' = [sync EXCEPT ![m] = [at |-> at, held |-> sync[m].held, merged |-> merged]]
    BY <1>0, <1>2, <2>1 DEF ReadLocal
  <2>3. sync' \in [Machines -> [at : {"idle", "fetched", "read", "merged"},
                                held : Seq(Row), merged : Seq(Row)]]
    BY <2>2
  <2>. QED
    BY <1>2, <2>3 DEF ReadLocal
<1>3. CASE WriteLocal(m)
  <2>1. local' \in [Machines -> Seq(Row)]
    BY <1>3 DEF WriteLocal
  <2>2. sync' \in [Machines -> [at : {"idle", "fetched", "read", "merged"},
                                held : Seq(Row), merged : Seq(Row)]]
    BY <1>0, <1>3 DEF WriteLocal
  <2>. QED
    BY <1>3, <2>1, <2>2 DEF WriteLocal
<1>4. CASE Upload(m) \/ UploadFails(m)
  <2>0. NoSync \in [at : {"idle", "fetched", "read", "merged"},
                    held : Seq(Row), merged : Seq(Row)]
    BY <1>0 DEF NoSync
  <2>1. sync' \in [Machines -> [at : {"idle", "fetched", "read", "merged"},
                                held : Seq(Row), merged : Seq(Row)]]
    BY <1>4, <2>0 DEF Upload, UploadFails, EndSync
  <2>2. remote' \in Seq(Row)
    BY <1>4 DEF Upload, UploadFails
  <2>3. working' \in BOOLEAN
    BY <1>4 DEF Upload, UploadFails, EndSync
  <2>. QED
    BY <1>4, <2>1, <2>2, <2>3 DEF Upload, UploadFails, EndSync
<1>. QED
  BY <1>1, <1>2, <1>3, <1>4 DEF ReconcileStep

LEMMA EnterType ==
  ASSUME TypeOK, NEW m \in Machines, Enter(m)
  PROVE  entered' \in [Machines -> 0 .. MaxRows] /\ local' \in [Machines -> Seq(Row)]
<1>1. NextRow(m) \in Row /\ entered[m] + 1 \in 0 .. MaxRows
  BY NextRowIsTyped DEF Enter
<1>2. Append(local[m], NextRow(m)) \in Seq(Row)
  BY <1>1 DEF TypeOK
<1>. QED
  BY <1>1, <1>2 DEF Enter, TypeOK

LEMMA TypeStep == TypeOK /\ [Next]_vars => TypeOK'
<1> SUFFICES ASSUME TypeOK, [Next]_vars PROVE TypeOK'
  OBVIOUS
<1>1. CASE \E m \in Machines : ReconcileStep(m)
  BY <1>1, ReconcileType
<1>2. CASE PullFails \/ BackupFails
  BY <1>2 DEF PullFails, BackupFails, TypeOK
<1>3. CASE RecordOnDroplet
  BY <1>3, EnterType DEF RecordOnDroplet, TypeOK, Machines
<1>4. CASE Backup
  BY <1>4 DEF Backup, TypeOK, Machines
<1>5. CASE OpenSession
  <2>1. local' \in [Machines -> Seq(Row)] /\ vault' \in Seq(Row)
    BY <1>5 DEF OpenSession, TypeOK, Machines
  <2>2. session' \in [open : BOOLEAN, mirroring : BOOLEAN]
    BY <1>5 DEF OpenSession, IsPrefix
  <2>. QED
    BY <1>5, <2>1, <2>2 DEF OpenSession, TypeOK
<1>6. CASE Decide
  <2>1. entered' \in [Machines -> 0 .. MaxRows] /\ local' \in [Machines -> Seq(Row)]
    BY <1>6, EnterType DEF Decide, Machines
  <2>2. NextRow("laptop") \in Row
    BY <1>6, NextRowIsTyped DEF Decide, Enter, Machines
  <2>3. vault' \in Seq(Row)
    BY <1>6, <2>2 DEF Decide, TypeOK
  <2>. QED
    BY <1>6, <2>1, <2>3 DEF Decide, TypeOK
<1>7. CASE DieMidDecision
  BY <1>7, EnterType DEF DieMidDecision, NoSession, TypeOK, Machines
<1>8. CASE CloseSession
  BY <1>8 DEF CloseSession, NoSession, TypeOK
<1>9. CASE UNCHANGED vars
  BY <1>9 DEF vars, TypeOK
<1>. QED
  BY <1>1, <1>2, <1>3, <1>4, <1>5, <1>6, <1>7, <1>8, <1>9 DEF Next

-----------------------------------------------------------------------------
(* Where files come from.                                                  *)

Files == Copies \cup {sync[m].held : m \in Machines} \cup {sync[m].merged : m \in Machines}

\* A decision, or a row of the droplet's, is appended to a file.
Entered(file) ==
  \E m \in Machines :
    /\ Enter(m)
    /\ \/ file = Append(local[m], NextRow(m))
       \/ /\ m = "laptop" /\ session.open /\ session.mirroring
          /\ file = Append(vault, NextRow("laptop"))

\* Every file there is was there before, is empty, or is a merge or an append.
Derived(file) ==
  \/ file \in Files \cup {<<>>}
  \/ \E m \in Machines : file = merge_lines(local[m], sync[m].held)
  \/ Entered(file)

LEMMA FilesAreTyped == TypeOK => \A file \in Files : file \in Seq(Row)
BY DEF TypeOK, Files, Copies

LEMMA ReconcileDerives ==
  ASSUME TypeOK, NEW m \in Machines, ReconcileStep(m)
  PROVE  /\ \A k \in Machines : /\ Derived(local'[k])
                               /\ Derived(sync'[k].held) /\ Derived(sync'[k].merged)
         /\ Derived(remote') /\ Derived(vault')
<1> DEFINE Sources == Files \cup {<<>>} \cup {merge_lines(local[k], sync[k].held) : k \in Machines}
<1>1. /\ \A k \in Machines : /\ local[k] \in Sources
                            /\ sync[k].held \in Sources /\ sync[k].merged \in Sources
                            /\ merge_lines(local[k], sync[k].held) \in Sources
      /\ remote \in Sources /\ vault \in Sources /\ <<>> \in Sources
  BY DEF Files, Copies
<1>2. \A file \in Sources : Derived(file)
  BY DEF Derived
<1> HIDE DEF Sources
<1>3. /\ \A k \in Machines : /\ local'[k] \in Sources
                            /\ sync'[k].held \in Sources /\ sync'[k].merged \in Sources
      /\ remote' \in Sources /\ vault' \in Sources
  <2>. USE DEF TypeOK
  <2>1. CASE Fetch(m)
    BY <1>1, <2>1 DEF Fetch, Fetched
  <2>2. CASE ReadLocal(m)
    BY <1>1, <2>2 DEF ReadLocal
  <2>3. CASE WriteLocal(m)
    BY <1>1, <2>3 DEF WriteLocal
  <2>4. CASE Upload(m) \/ UploadFails(m)
    BY <1>1, <2>4 DEF Upload, UploadFails, EndSync, NoSync
  <2>. QED
    BY <2>1, <2>2, <2>3, <2>4 DEF ReconcileStep
<1>. QED
  BY <1>2, <1>3

LEMMA FileStep ==
  ASSUME TypeOK, [Next]_vars
  PROVE  \A file \in Files' : Derived(file)
<1>1. /\ \A k \in Machines : /\ Derived(local[k])
                            /\ Derived(sync[k].held) /\ Derived(sync[k].merged)
      /\ Derived(remote) /\ Derived(vault) /\ Derived(<<>>)
  BY DEF Derived, Files, Copies
<1>2. /\ \A k \in Machines : /\ Derived(local'[k])
                            /\ Derived(sync'[k].held) /\ Derived(sync'[k].merged)
      /\ Derived(remote') /\ Derived(vault')
  <2>1. CASE \E m \in Machines : ReconcileStep(m)
    BY <2>1, ReconcileDerives
  <2>2. CASE PullFails \/ BackupFails \/ CloseSession \/ UNCHANGED vars
    BY <1>1, <2>2 DEF PullFails, BackupFails, CloseSession, vars
  <2>3. ASSUME NEW m \in Machines, Enter(m), UNCHANGED <<remote, sync>>, Derived(vault')
        PROVE  <1>2!:
    <3>1. Derived(Append(local[m], NextRow(m)))
      BY <2>3 DEF Derived, Entered
    <3>2. \A k \in Machines : Derived(local'[k])
      BY <1>1, <2>3, <3>1 DEF Enter, TypeOK
    <3>. QED
      BY <1>1, <2>3, <3>2
  <2>4. CASE RecordOnDroplet
    BY <1>1, <2>3, <2>4 DEF RecordOnDroplet, Machines
  <2>5. CASE DieMidDecision
    BY <1>1, <2>3, <2>5 DEF DieMidDecision, Machines
  <2>6. CASE Decide
    <3>1. Derived(vault')
      <4>1. CASE vault' = vault
        BY <1>1, <4>1
      <4>2. CASE session.mirroring /\ vault' = Append(vault, NextRow("laptop"))
        BY <2>6, <4>2 DEF Decide, Derived, Entered, Machines
      <4>. QED
        BY <2>6, <4>1, <4>2 DEF Decide
    <3>. QED
      BY <2>3, <2>6, <3>1 DEF Decide, Machines
  <2>7. CASE Backup
    BY <1>1, <2>7 DEF Backup, Machines
  <2>8. CASE OpenSession
    BY <1>1, <2>8 DEF OpenSession, TypeOK, Machines
  <2>. QED
    BY <2>1, <2>2, <2>4, <2>5, <2>6, <2>7, <2>8 DEF Next
<1>. QED
  BY <1>2, Zenon DEF Files, Copies

-----------------------------------------------------------------------------
(* NoRowTwice.                                                             *)

\* No row stands in the file twice, and none that is still to be entered.
Sound(file) ==
  /\ IsInjective(file)
  /\ \A i \in DOMAIN file : file[i].n <= entered[file[i].by]

SoundInv == TypeOK /\ \A file \in Files : Sound(file)

LEMMA EnteredGrows ==
  ASSUME TypeOK, [Next]_vars
  PROVE  \A m \in Machines : entered[m] <= entered'[m]
<1>1. CASE entered' = entered
  BY <1>1 DEF TypeOK
<1>2. ASSUME NEW m \in Machines, Enter(m)
      PROVE  \A k \in Machines : entered[k] <= entered'[k]
  BY <1>2 DEF Enter, TypeOK
<1>3. entered' = entered \/ \E m \in Machines : Enter(m)
  BY DEF Next, vars, ReconcileStep, Fetch, Fetched, ReadLocal, WriteLocal, Upload, UploadFails,
         EndSync, PullFails, RecordOnDroplet, Backup, BackupFails, OpenSession, Decide,
         DieMidDecision, CloseSession, Machines
<1>. QED
  BY <1>1, <1>2, <1>3

\* A row entered now was in no sound file before.
LEMMA AppendIsSound ==
  ASSUME TypeOK, NEW m \in Machines, Enter(m), NEW file \in Seq(Row), Sound(file),
         \A k \in Machines : entered[k] <= entered'[k]
  PROVE  LET longer == Append(file, NextRow(m)) IN
         /\ IsInjective(longer)
         /\ \A i \in DOMAIN longer : longer[i].n <= entered'[longer[i].by]
<1> DEFINE longer == Append(file, NextRow(m))
<1>1. NextRow(m) \in Row /\ NextRow(m).by = m /\ NextRow(m).n = entered[m] + 1
  BY NextRowIsTyped DEF Enter, NextRow
<1>2. /\ longer \in Seq(Row) /\ Len(longer) = Len(file) + 1 /\ Len(file) \in Nat
      /\ \A i \in 1 .. Len(file) : longer[i] = file[i]
      /\ longer[Len(file) + 1] = NextRow(m)
      /\ DOMAIN file = 1 .. Len(file) /\ DOMAIN longer = 1 .. Len(longer)
  BY <1>1, AppendProperties
<1>3. /\ \A k \in Machines : entered[k] \in Nat /\ entered'[k] \in Nat
      /\ entered'[m] = entered[m] + 1
  BY EnterType, ConstantsAssumption DEF Enter, TypeOK
<1>4. \A i \in 1 .. Len(file) : file[i] \in Row /\ file[i].n <= entered[file[i].by]
  BY <1>2 DEF Sound
<1>5. \A i \in 1 .. Len(file) : file[i] # NextRow(m)
  BY <1>1, <1>3, <1>4
<1> HIDE DEF longer
<1>6. \A i \in 1 .. Len(longer) : i \in 1 .. Len(file) \/ i = Len(file) + 1
  BY <1>2
<1>7. \A i \in 1 .. Len(longer) : longer[i].n <= entered'[longer[i].by]
  <2>1. ASSUME NEW i \in 1 .. Len(file) PROVE longer[i].n <= entered'[longer[i].by]
    <3>1. longer[i].by \in Machines /\ longer[i].n \in Nat /\ longer[i] = file[i]
      BY <1>2, <1>4, ConstantsAssumption DEF Row
    <3>. QED
      BY <3>1, <1>3, <1>4
  <2>2. longer[Len(file) + 1].n <= entered'[longer[Len(file) + 1].by]
    BY <1>1, <1>2, <1>3
  <2>. QED
    BY <1>6, <2>1, <2>2
<1>8. IsInjective(longer)
  <2>1. \A i, k \in 1 .. Len(file) : file[i] = file[k] => i = k
    BY <1>2 DEF Sound, IsInjective
  <2>2. SUFFICES ASSUME NEW i \in 1 .. Len(longer), NEW k \in 1 .. Len(longer),
                        longer[i] = longer[k]
                 PROVE  i = k
    BY <1>2 DEF IsInjective
  <2>3. CASE i \in 1 .. Len(file) /\ k \in 1 .. Len(file)
    BY <1>2, <2>1, <2>2, <2>3
  <2>4. ~(i \in 1 .. Len(file) /\ k = Len(file) + 1)
    BY <1>2, <1>5, <2>2
  <2>5. ~(k \in 1 .. Len(file) /\ i = Len(file) + 1)
    BY <1>2, <1>5, <2>2
  <2>. QED
    BY <1>6, <2>3, <2>4, <2>5
<1>. QED
  BY <1>2, <1>7, <1>8 DEF longer

LEMMA SoundStep == SoundInv /\ [Next]_vars => SoundInv'
<1> SUFFICES ASSUME SoundInv, [Next]_vars PROVE SoundInv'
  OBVIOUS
<1>1. TypeOK /\ TypeOK' /\ \A file \in Files : Sound(file) /\ file \in Seq(Row)
  BY TypeStep, FilesAreTyped DEF SoundInv
<1>2. \A m \in Machines : entered[m] <= entered'[m]
  BY <1>1, EnteredGrows
<1>3. ASSUME NEW file \in Seq(Row), IsInjective(file),
             \A i \in DOMAIN file : file[i].n <= entered[file[i].by]
      PROVE  /\ IsInjective(file)
             /\ \A i \in DOMAIN file : file[i].n <= entered'[file[i].by]
  <2>1. SUFFICES ASSUME NEW i \in DOMAIN file PROVE file[i].n <= entered'[file[i].by]
    BY <1>3
  <2>2. file[i] \in Row
    OBVIOUS
  <2>3. file[i].by \in Machines /\ file[i].n \in Nat
    BY <2>2, ConstantsAssumption DEF Row
  <2>4. entered[file[i].by] \in Nat /\ entered'[file[i].by] \in Nat
    BY <1>1, <2>3, ConstantsAssumption DEF TypeOK
  <2>. QED
    BY <1>2, <1>3, <2>3, <2>4
<1>4. ASSUME NEW file \in Files', Derived(file)
      PROVE  /\ IsInjective(file)
             /\ \A i \in DOMAIN file : file[i].n <= entered'[file[i].by]
  <2>1. CASE file \in Files
    BY <1>1, <1>3, <2>1 DEF Sound
  <2>2. CASE file = <<>>
    BY <2>2 DEF IsInjective
  <2>3. ASSUME NEW m \in Machines, file = merge_lines(local[m], sync[m].held)
        PROVE  /\ IsInjective(file)
               /\ \A i \in DOMAIN file : file[i].n <= entered[file[i].by]
    <3>1. local[m] \in Files /\ sync[m].held \in Files
      BY DEF Files, Copies
    <3> DEFINE own == local[m]
               held == sync[m].held
    <3>2. own \in Seq(Row) /\ held \in Seq(Row) /\ Sound(own) /\ Sound(held)
      BY <3>1, <1>1
    <3> HIDE DEF own, held
    <3>3. file = merge_lines(own, held)
      BY <2>3 DEF own, held
    <3>4. IsInjective(file)
      BY <3>2, <3>3, MergeInjective DEF Sound
    <3>5. file \in Seq(Row) /\ DOMAIN file = 1 .. Len(file)
      BY <3>2, <3>3, MergeExtends
    <3>6. ASSUME NEW i \in 1 .. Len(file) PROVE file[i].n <= entered[file[i].by]
      <4>1. \/ \E k \in 1 .. Len(own) : file[i] = own[k]
            \/ \E k \in 1 .. Len(held) : file[i] = held[k]
        BY <3>2, <3>3, MergeInvents
      <4>2. DOMAIN own = 1 .. Len(own) /\ DOMAIN held = 1 .. Len(held)
        BY <3>2
      <4>. QED
        BY <3>2, <4>1, <4>2 DEF Sound
    <3>. QED
      BY <3>4, <3>5, <3>6
  <2>4. CASE \E m \in Machines : file = merge_lines(local[m], sync[m].held)
    <3>1. PICK m \in Machines : file = merge_lines(local[m], sync[m].held)
      BY <2>4
    <3>2. file \in Seq(Row)
      BY <1>1, <3>1, SyncTypes
    <3>. QED
      BY <1>3, <2>3, <3>1, <3>2
  <2>5. CASE Entered(file)
    <3>1. PICK m \in Machines :
             /\ Enter(m)
             /\ file = Append(local[m], NextRow(m)) \/ file = Append(vault, NextRow(m))
      BY <2>5 DEF Entered
    <3>2. local[m] \in Files /\ vault \in Files
      BY DEF Files, Copies
    <3>3. /\ local[m] \in Seq(Row) /\ Sound(local[m])
          /\ vault \in Seq(Row) /\ Sound(vault)
      BY <1>1, <3>2
    <3>4. PICK old \in Seq(Row) : Sound(old) /\ file = Append(old, NextRow(m))
      BY <3>1, <3>3
    <3>5. /\ IsInjective(Append(old, NextRow(m)))
          /\ \A i \in DOMAIN Append(old, NextRow(m)) :
               Append(old, NextRow(m))[i].n <= entered'[Append(old, NextRow(m))[i].by]
      BY <1>1, <1>2, <3>1, <3>4, AppendIsSound
    <3>. QED
      BY <3>4, <3>5
  <2>. QED
    BY <1>4, <2>1, <2>2, <2>4, <2>5 DEF Derived
<1>5. \A file \in Files' : Derived(file)
  BY <1>1, FileStep
<1>. QED
  BY <1>1, <1>4, <1>5 DEF SoundInv, Sound

LEMMA SoundInit == Init => SoundInv
<1> SUFFICES ASSUME Init PROVE SoundInv
  OBVIOUS
<1>1. ASSUME NEW k \in 0 .. Shared PROVE Sound(Past(k))
  <2>1. Past(k) \in Seq(Row) /\ Len(Past(k)) = k /\ DOMAIN Past(k) = 1 .. k
    BY PastIsTyped
  <2>2. \A i \in 1 .. k : Past(k)[i] = [by |-> "laptop", n |-> i]
    BY PastIsTyped
  <2>3. entered["laptop"] = Shared
    BY DEF Init, Machines
  <2>4. \A i \in 1 .. k : i <= Shared
    BY ConstantsAssumption
  <2> HIDE DEF Past
  <2>. QED
    BY <2>1, <2>2, <2>3, <2>4 DEF Sound, IsInjective
<1>2. Sound(<<>>)
  BY DEF Sound, IsInjective
<1>3. /\ \A m \in Machines : /\ Sound(local[m])
                            /\ Sound(sync[m].held) /\ Sound(sync[m].merged)
      /\ Sound(remote) /\ Sound(vault)
  <2> HIDE DEF Sound
  <2>. QED
    BY <1>1, <1>2 DEF Init, NoSync
<1>. QED
  BY <1>3, TypeInit DEF SoundInv, Files, Copies

(***************************************************************************)
(* NoRowTwice, for any history and bound and under every fault: no race,   *)
(* clobber, lost disk or vault turns one event into two rows of a file.    *)
(***************************************************************************)
THEOREM NoEventIsDoubled == Spec => []NoRowTwice
<1>1. SoundInv => NoRowTwice
  BY DEF SoundInv, Sound, Files, NoRowTwice
<1>. QED
  BY <1>1, SoundInit, SoundStep, PTL DEF Spec

-----------------------------------------------------------------------------
(* LocalOnlyGrows.                                                         *)

\* While a machine reconciles, nothing else on it writes the file.
OneWriter ==
  /\ ~Idle("laptop") => ~session.open
  /\ ~Idle("droplet") => ~working

\* What a reconcile is about to write still begins with what is on the disk.
ReadIsCurrent ==
  \A m \in Machines : sync[m].at = "read" => IsPrefix(local[m], sync[m].merged)

WriterInv == TypeOK /\ OneWriter /\ ReadIsCurrent

LEMMA PrefixOfSelf ==
  ASSUME NEW s \in Seq(Row)
  PROVE  IsPrefix(s, s)
<1>1. Len(s) \in Nat
  OBVIOUS
<1>. QED
  BY <1>1, PrefixByPlace

LEMMA PrefixOfAppend ==
  ASSUME NEW s \in Seq(Row), NEW row \in Row
  PROVE  IsPrefix(s, Append(s, row))
<1>1. /\ Append(s, row) \in Seq(Row) /\ Len(Append(s, row)) = Len(s) + 1 /\ Len(s) \in Nat
      /\ \A i \in 1 .. Len(s) : Append(s, row)[i] = s[i]
  BY AppendProperties
<1>2. Len(s) <= Len(Append(s, row))
  BY <1>1
<1>. QED
  BY <1>1, <1>2, PrefixByPlace

\* What each step does to the file on each disk.
LEMMA LocalSteps ==
  ASSUME TypeOK, [Next]_vars
  PROVE  \A m \in Machines :
           \/ local'[m] = local[m]
           \/ /\ local'[m] = Append(local[m], NextRow(m)) /\ NextRow(m) \in Row
              /\ m = "laptop" => session.open
              /\ m = "droplet" => working
           \/ /\ m = "laptop" /\ ("overlap" \in Faults \/ Idle("laptop"))
              /\ local'[m] = vault /\ IsPrefix(local[m], vault)
           \/ sync[m].at = "read" /\ WriteLocal(m) /\ local'[m] = sync[m].merged
<1>1. CASE local' = local
  BY <1>1
<1>2. ASSUME NEW m \in Machines, WriteLocal(m)
      PROVE  \A k \in Machines : \/ k = m /\ local'[k] = sync[k].merged
                                 \/ local'[k] = local[k]
  BY <1>2 DEF WriteLocal, TypeOK
<1>3. ASSUME NEW m \in Machines, Enter(m)
      PROVE  /\ NextRow(m) \in Row /\ local'[m] = Append(local[m], NextRow(m))
             /\ \A k \in Machines \ {m} : local'[k] = local[k]
  BY <1>3, NextRowIsTyped DEF Enter, TypeOK
<1>4. CASE \E m \in Machines : WriteLocal(m)
  BY <1>2, <1>4 DEF WriteLocal
<1>5. CASE RecordOnDroplet
  BY <1>3, <1>5 DEF RecordOnDroplet, Machines
<1>6. CASE Decide \/ DieMidDecision
  BY <1>3, <1>6 DEF Decide, DieMidDecision, Machines
<1>7. CASE OpenSession
  BY <1>7 DEF OpenSession, TypeOK, Machines
<1>8. \/ local' = local \/ (\E m \in Machines : WriteLocal(m))
      \/ RecordOnDroplet \/ Decide \/ DieMidDecision \/ OpenSession
  BY DEF Next, vars, ReconcileStep, Fetch, Fetched, ReadLocal, Upload, UploadFails,
         EndSync, PullFails, Backup, BackupFails, CloseSession
<1>. QED
  BY <1>1, <1>4, <1>5, <1>6, <1>7, <1>8

LEMMA GrowthStep ==
  WriterInv /\ [Next]_vars => \A m \in Machines : IsPrefix(local[m], local'[m])
<1> SUFFICES ASSUME WriterInv, [Next]_vars, NEW m \in Machines
             PROVE  IsPrefix(local[m], local'[m])
  OBVIOUS
<1>1. TypeOK /\ local[m] \in Seq(Row)
  BY DEF WriterInv, TypeOK
<1>2. \/ local'[m] = local[m]
      \/ local'[m] = Append(local[m], NextRow(m)) /\ NextRow(m) \in Row
      \/ local'[m] = vault /\ IsPrefix(local[m], vault)
      \/ local'[m] = sync[m].merged /\ sync[m].at = "read"
  BY <1>1, LocalSteps
<1>. QED
  BY <1>1, <1>2, PrefixOfSelf, PrefixOfAppend DEF WriterInv, ReadIsCurrent

LEMMA OneWriterStep ==
  ASSUME "overlap" \notin Faults, TypeOK, OneWriter, [Next]_vars
  PROVE  OneWriter'
<1>. USE DEF OneWriter, Idle
<1>1. ASSUME NEW m \in Machines, ReconcileStep(m) PROVE OneWriter'
  <2>1. CASE Fetch(m)
    <3>1. PICK body : Fetched(m, body)
      BY <2>1 DEF Fetch
    <3>. QED
      BY <3>1 DEF Fetched, MayStart, TypeOK, Machines
  <2>2. CASE ReadLocal(m)
    BY <2>2 DEF ReadLocal, TypeOK, Machines
  <2>3. CASE WriteLocal(m)
    BY <2>3 DEF WriteLocal, TypeOK, Machines
  <2>4. CASE EndSync(m)
    <3>1. sync'[m].at = "idle" /\ \A k \in Machines \ {m} : sync'[k] = sync[k]
      BY <2>4 DEF EndSync, NoSync, TypeOK
    <3>2. session' = session /\ (m = "laptop" => working' = working)
      BY <2>4, Zenon DEF EndSync, TypeOK
    <3>. QED
      BY <3>1, <3>2 DEF Machines
  <2>. QED
    BY <1>1, <2>1, <2>2, <2>3, <2>4 DEF ReconcileStep, Upload, UploadFails
<1>2. CASE PullFails
  BY <1>2 DEF PullFails, MayStart
<1>3. CASE Backup \/ BackupFails
  BY <1>3 DEF Backup, BackupFails
<1>4. CASE RecordOnDroplet \/ Decide
  <2>1. UNCHANGED <<sync, session, working>>
    BY <1>4, Zenon DEF RecordOnDroplet, Decide
  <2>. QED
    BY <2>1
<1>5. CASE OpenSession
  BY <1>5 DEF OpenSession
<1>6. CASE DieMidDecision \/ CloseSession
  BY <1>6 DEF DieMidDecision, CloseSession, NoSession
<1>7. CASE UNCHANGED vars
  BY <1>7 DEF vars
<1>. QED
  BY <1>1, <1>2, <1>3, <1>4, <1>5, <1>6, <1>7 DEF Next

LEMMA ReadStep ==
  ASSUME "overlap" \notin Faults, WriterInv, [Next]_vars
  PROVE  ReadIsCurrent'
<1>1. TypeOK /\ OneWriter /\ ReadIsCurrent
  BY DEF WriterInv
<1> SUFFICES ASSUME NEW m \in Machines, (sync[m].at = "read")'
             PROVE  IsPrefix(local'[m], sync'[m].merged)
  BY DEF ReadIsCurrent
<1>2. CASE ReadLocal(m)
  <2>1. /\ local' = local
        /\ sync'[m].merged = merge_lines(local[m], sync[m].held)
    BY <1>1, <1>2 DEF ReadLocal, TypeOK
  <2>2. local[m] \in Seq(Row) /\ sync[m].held \in Seq(Row)
    BY <1>1 DEF TypeOK
  <2>. QED
    BY <2>1, <2>2, MergeExtends
<1>3. CASE ~ReadLocal(m)
  <2>1. sync'[m] = sync[m]
    <3>1. ASSUME NEW k \in Machines, ReconcileStep(k) PROVE sync'[m] = sync[m]
      BY <1>1, <1>3, <3>1 DEF ReconcileStep, Fetch, Fetched, ReadLocal, WriteLocal, Upload,
         UploadFails, EndSync, NoSync, TypeOK
    <3>2. sync' = sync \/ \E k \in Machines : ReconcileStep(k)
      BY DEF Next, vars, PullFails, RecordOnDroplet, Backup, BackupFails, OpenSession, Decide,
             DieMidDecision, CloseSession
    <3>. QED
      BY <3>1, <3>2
  <2>2. sync[m].at = "read" /\ IsPrefix(local[m], sync[m].merged) /\ ~Idle(m)
    BY <2>1, <1>1 DEF ReadIsCurrent, Idle
  <2>3. ~WriteLocal(m)
    BY <1>1, <2>1, <2>2 DEF WriteLocal, TypeOK
  <2>4. /\ m = "laptop" => ~session.open
        /\ m = "droplet" => ~working
        /\ m = "laptop" \/ m = "droplet"
    BY <1>1, <2>2 DEF OneWriter, Machines
  <2>5. local'[m] = local[m]
    BY <1>1, <2>2, <2>3, <2>4, LocalSteps
  <2>. QED
    BY <2>1, <2>2, <2>5
<1>. QED
  BY <1>2, <1>3

(***************************************************************************)
(* LocalOnlyGrows, for any history and bound and under every fault but a   *)
(* pull inside an open session: a reconcile drops no row from a disk.      *)
(***************************************************************************)
THEOREM DisksOnlyGrow ==
  ASSUME "overlap" \notin Faults
  PROVE  Spec => LocalOnlyGrows
<1>1. Init => WriterInv
  BY TypeInit DEF Init, NoSync, NoSession, WriterInv, OneWriter, ReadIsCurrent, Idle, Machines
<1>2. WriterInv /\ [Next]_vars => WriterInv'
  BY TypeStep, OneWriterStep, ReadStep DEF WriterInv
<1>3. WriterInv /\ [Next]_vars => [\A m \in Machines : IsPrefix(local[m], local'[m])]_vars
  BY GrowthStep
<1>. QED
  BY <1>1, <1>2, <1>3, PTL DEF Spec, LocalOnlyGrows

-----------------------------------------------------------------------------
(* OwnOrderKept, VaultFollows and NeverLatched.                            *)

\* A machine's own file holds every row the machine ever entered.
Complete(m) == \A n \in 1 .. entered[m] : [by |-> m, n |-> n] \in Range(local[m])

\* While a session is open its two copies are equal and both written.
VaultInStep == session.open => session.mirroring /\ vault = local["laptop"]

OrderInv ==
  /\ WriterInv
  /\ \A file \in Files : Ordered(file)
  /\ \A m \in Machines : Complete(m)
  /\ VaultFollows
  /\ VaultInStep

LEMMA PrefixFacts ==
  ASSUME NEW s \in Seq(Row), NEW t \in Seq(Row), NEW u \in Seq(Row), IsPrefix(s, t)
  PROVE  /\ IsPrefix(t, u) => IsPrefix(s, u)
         /\ IsPrefix(t, s) => s = t
         /\ Range(s) \subseteq Range(t)
<1>1. /\ Len(s) \in Nat /\ Len(t) \in Nat /\ Len(u) \in Nat
      /\ DOMAIN s = 1 .. Len(s) /\ DOMAIN t = 1 .. Len(t)
  OBVIOUS
<1>2. Len(s) <= Len(t) /\ \A i \in 1 .. Len(s) : i \in 1 .. Len(t) /\ s[i] = t[i]
  BY <1>1, PrefixByPlace
<1>3. ASSUME IsPrefix(t, u) PROVE IsPrefix(s, u)
  <2>1. Len(t) <= Len(u) /\ \A i \in 1 .. Len(t) : t[i] = u[i]
    BY <1>3, PrefixByPlace
  <2>2. Len(s) <= Len(u) /\ \A i \in 1 .. Len(s) : s[i] = u[i]
    BY <1>1, <1>2, <2>1
  <2>. QED
    BY <2>2, PrefixByPlace
<1>4. ASSUME IsPrefix(t, s) PROVE s = t
  <2>1. Len(t) <= Len(s)
    BY <1>4, PrefixByPlace
  <2>2. Len(s) = Len(t)
    <3>1. Len(s) <= Len(t)
      BY <1>2
    <3>2. \A a, b \in Nat : a <= b /\ b <= a => a = b
      OBVIOUS
    <3>. QED
      BY <1>1, <2>1, <3>1, <3>2, Zenon
  <2>. QED
    BY <1>2, <2>2, SeqEqual
<1>5. Range(s) \subseteq Range(t)
  BY <1>1, <1>2 DEF Range
<1>. QED
  BY <1>3, <1>4, <1>5

\* A row may be appended once all its machine's earlier rows are there.
LEMMA AppendOrdered ==
  ASSUME NEW file \in Seq(Row), Ordered(file), NEW row \in Row,
         \A n \in 1 .. row.n - 1 : [by |-> row.by, n |-> n] \in Range(file)
  PROVE  Ordered(Append(file, row))
<1> DEFINE longer == Append(file, row)
<1>1. /\ longer \in Seq(Row) /\ Len(longer) = Len(file) + 1 /\ Len(file) \in Nat
      /\ \A i \in 1 .. Len(file) : longer[i] = file[i]
      /\ longer[Len(file) + 1] = row
      /\ DOMAIN file = 1 .. Len(file) /\ DOMAIN longer = 1 .. Len(longer)
  BY AppendProperties
<1> HIDE DEF longer
<1>2. ASSUME NEW i \in 1 .. Len(file), NEW n \in 1 .. longer[i].n - 1
      PROVE  \E h \in 1 .. i - 1 : longer[h] = [by |-> longer[i].by, n |-> n]
  <2>1. PICK h \in 1 .. i - 1 : file[h] = [by |-> file[i].by, n |-> n]
    BY <1>1 DEF Ordered
  <2>2. h \in 1 .. Len(file)
    BY <1>1
  <2>. QED
    BY <1>1, <2>1, <2>2
<1>3. ASSUME NEW n \in 1 .. longer[Len(file) + 1].n - 1
      PROVE  \E h \in 1 .. (Len(file) + 1) - 1 :
               longer[h] = [by |-> longer[Len(file) + 1].by, n |-> n]
  <2>1. [by |-> row.by, n |-> n] \in Range(file)
    BY <1>1
  <2>2. PICK h \in 1 .. Len(file) : file[h] = [by |-> row.by, n |-> n]
    BY <1>1, <2>1 DEF Range
  <2>3. h \in 1 .. (Len(file) + 1) - 1
    BY <1>1
  <2>. QED
    BY <1>1, <2>2, <2>3
<1>4. \A i \in DOMAIN longer : i \in 1 .. Len(file) \/ i = Len(file) + 1
  BY <1>1
<1>. QED
  BY <1>2, <1>3, <1>4 DEF Ordered, longer

LEMMA OrderedStep ==
  ASSUME OrderInv, [Next]_vars
  PROVE  \A file \in Files' : Ordered(file)
<1>1. /\ TypeOK /\ VaultInStep
      /\ \A m \in Machines : Complete(m)
      /\ \A file \in Files : Ordered(file) /\ file \in Seq(Row)
  BY FilesAreTyped DEF OrderInv, WriterInv
<1>2. ASSUME NEW m \in Machines, Enter(m)
      PROVE  Ordered(Append(local[m], NextRow(m)))
  <2>1. local[m] \in Seq(Row) /\ Ordered(local[m])
    BY <1>1 DEF Files, Copies
  <2>2. NextRow(m) \in Row /\ NextRow(m).by = m /\ NextRow(m).n = entered[m] + 1
    BY <1>1, <1>2, NextRowIsTyped DEF Enter, NextRow
  <2>3. (entered[m] + 1) - 1 = entered[m]
    BY <1>1, ConstantsAssumption DEF TypeOK
  <2>4. \A n \in 1 .. NextRow(m).n - 1 : [by |-> NextRow(m).by, n |-> n] \in Range(local[m])
    BY <1>1, <2>2, <2>3 DEF Complete
  <2>. QED
    BY <2>1, <2>2, <2>4, AppendOrdered
<1>3. ASSUME NEW file, Derived(file)
      PROVE  Ordered(file)
  <2>1. CASE file \in Files
    BY <1>1, <2>1
  <2>2. CASE file = <<>>
    BY <2>2 DEF Ordered
  <2>3. CASE \E m \in Machines : file = merge_lines(local[m], sync[m].held)
    <3>1. PICK m \in Machines : file = merge_lines(local[m], sync[m].held)
      BY <2>3
    <3>2. local[m] \in Files /\ sync[m].held \in Files
      BY DEF Files, Copies
    <3>3. /\ local[m] \in Seq(Row) /\ Ordered(local[m])
          /\ sync[m].held \in Seq(Row) /\ Ordered(sync[m].held)
      BY <1>1, <3>2
    <3>. QED
      BY <3>1, <3>3, MergeOrdered
  <2>4. CASE Entered(file)
    <3>1. PICK m \in Machines : Enter(m) /\ file = Append(local[m], NextRow(m))
      BY <1>1, <2>4 DEF Entered, VaultInStep
    <3>. QED
      BY <3>1, <1>2
  <2>. QED
    BY <1>3, <2>1, <2>2, <2>3, <2>4 DEF Derived
<1>. QED
  BY <1>1, <1>3, FileStep

LEMMA CompleteStep ==
  ASSUME WriterInv, [Next]_vars, NEW m \in Machines, Complete(m)
  PROVE  Complete(m)'
<1>1. TypeOK /\ TypeOK' /\ IsPrefix(local[m], local'[m])
  BY TypeStep, GrowthStep DEF WriterInv
<1>2. /\ local[m] \in Seq(Row) /\ local'[m] \in Seq(Row)
      /\ entered[m] \in Nat
  BY <1>1, ConstantsAssumption DEF TypeOK
<1>3. Range(local[m]) \subseteq Range(local'[m])
  BY <1>1, <1>2, PrefixFacts
<1>4. CASE entered'[m] = entered[m]
  BY <1>3, <1>4 DEF Complete
<1>5. CASE Enter(m)
  <2>1. /\ entered'[m] = entered[m] + 1 /\ NextRow(m) \in Row
        /\ local'[m] = Append(local[m], NextRow(m))
    BY <1>1, <1>5, NextRowIsTyped DEF Enter, TypeOK
  <2>2. NextRow(m) \in Range(local'[m])
    <3>1. /\ Len(local'[m]) = Len(local[m]) + 1 /\ Len(local[m]) \in Nat
          /\ local'[m][Len(local[m]) + 1] = NextRow(m)
      BY <1>2, <2>1, AppendProperties
    <3>2. Len(local[m]) + 1 \in DOMAIN local'[m]
      BY <1>2, <3>1
    <3>. QED
      BY <3>1, <3>2 DEF Range
  <2>3. ASSUME NEW n \in 1 .. entered'[m]
        PROVE  [by |-> m, n |-> n] \in Range(local'[m])
    <3>1. CASE n = entered[m] + 1
      BY <2>2, <3>1 DEF NextRow
    <3>2. CASE n # entered[m] + 1
      <4>1. n \in 1 .. entered[m]
        BY <1>2, <2>1, <3>2
      <4>. QED
        BY <1>3, <4>1 DEF Complete
    <3>. QED
      BY <3>1, <3>2
  <2>. QED
    BY <2>3 DEF Complete
<1>6. entered'[m] = entered[m] \/ Enter(m)
  <2>1. ASSUME NEW k \in Machines, k # m, Enter(k) PROVE entered'[m] = entered[m]
    BY <1>1, <2>1 DEF Enter, TypeOK
  <2>2. entered' = entered \/ \E k \in Machines : Enter(k)
    BY DEF Next, vars, ReconcileStep, Fetch, Fetched, ReadLocal, WriteLocal, Upload,
           UploadFails, EndSync, PullFails, RecordOnDroplet, Backup, BackupFails, OpenSession,
           Decide, DieMidDecision, CloseSession, Machines
  <2>. QED
    BY <2>1, <2>2
<1>. QED
  BY <1>4, <1>5, <1>6

LEMMA VaultStep ==
  ASSUME "overlap" \notin Faults, "vaultless" \notin Faults, OrderInv, [Next]_vars
  PROVE  VaultFollows' /\ VaultInStep'
<1> DEFINE laptop == local["laptop"]
<1>1. /\ TypeOK /\ OneWriter /\ VaultInStep /\ "laptop" \in Machines
      /\ IsPrefix(vault, laptop)
  BY DEF OrderInv, WriterInv, VaultFollows, Machines
<1>2. TypeOK' /\ IsPrefix(laptop, local'["laptop"])
  BY <1>1, TypeStep, GrowthStep DEF OrderInv
<1>3. /\ vault \in Seq(Row) /\ laptop \in Seq(Row)
      /\ vault' \in Seq(Row) /\ local'["laptop"] \in Seq(Row)
  BY <1>1, <1>2 DEF TypeOK
<1>4. CASE OpenSession
  <2>1. vault' = laptop /\ session'.mirroring
    BY <1>1, <1>4 DEF OpenSession
  <2>2. local'["laptop"] = laptop
    <3>1. IsPrefix(laptop, vault) => vault = laptop
      BY <1>1, <1>3, PrefixFacts
    <3>. QED
      BY <1>1, <1>4, <3>1 DEF OpenSession, TypeOK
  <2>. QED
    BY <1>3, <2>1, <2>2, PrefixOfSelf DEF VaultFollows, VaultInStep
<1>5. CASE Decide
  <2>1. session.open /\ session' = session
    BY <1>5 DEF Decide
  <2>2. vault' = Append(vault, NextRow("laptop"))
    BY <1>1, <1>5, <2>1 DEF Decide, VaultInStep
  <2>3. local'["laptop"] = Append(laptop, NextRow("laptop"))
    BY <1>1, <1>5 DEF Decide, Enter, TypeOK
  <2>4. vault' = local'["laptop"] /\ session'.mirroring
    BY <1>1, <2>1, <2>2, <2>3 DEF VaultInStep
  <2>. QED
    BY <1>3, <2>4, PrefixOfSelf DEF VaultFollows, VaultInStep
<1>6. CASE ~OpenSession /\ ~Decide
  <2>1. vault' = vault
    BY <1>6 DEF Next, vars, ReconcileStep, Fetch, Fetched, ReadLocal, WriteLocal, Upload,
         UploadFails, EndSync, PullFails, RecordOnDroplet, Backup, BackupFails,
         DieMidDecision, CloseSession
  <2>2. VaultFollows'
    BY <1>1, <1>2, <1>3, <2>1, PrefixFacts DEF VaultFollows
  <2>3. ASSUME session'.open
        PROVE  session' = session /\ local'["laptop"] = laptop
    <3>1. session' = session \/ DieMidDecision \/ CloseSession
      BY <1>6 DEF Next, vars, ReconcileStep, Fetch, Fetched, ReadLocal, WriteLocal, Upload,
         UploadFails, EndSync, PullFails, RecordOnDroplet, Backup, BackupFails
    <3>2. session' = session /\ ~DieMidDecision
      BY <2>3, <3>1 DEF DieMidDecision, CloseSession, NoSession
    <3>3. sync["laptop"].at = "idle"
      BY <1>1, <2>3, <3>2 DEF OneWriter, Idle
    <3>4. ~WriteLocal("laptop")
      BY <3>3 DEF WriteLocal
    <3>5. CASE \E m \in Machines : WriteLocal(m)
      BY <1>1, <3>4, <3>5 DEF WriteLocal, TypeOK
    <3>6. CASE RecordOnDroplet
      BY <1>1, <3>6 DEF RecordOnDroplet, Enter, TypeOK, Machines
    <3>7. local' = local \/ RecordOnDroplet \/ \E m \in Machines : WriteLocal(m)
      BY <1>6, <3>2 DEF Next, vars, ReconcileStep, Fetch, Fetched, ReadLocal, Upload,
         UploadFails, EndSync, PullFails, Backup, BackupFails, CloseSession
    <3>. QED
      BY <3>2, <3>5, <3>6, <3>7
  <2>4. VaultInStep'
    BY <1>1, <2>1, <2>3 DEF VaultInStep
  <2>. QED
    BY <2>2, <2>4
<1>. QED
  BY <1>4, <1>5, <1>6

LEMMA OrderInit ==
  ASSUME "loss" \notin Faults, Init
  PROVE  OrderInv
<1>1. ASSUME NEW k \in 0 .. Shared
      PROVE  /\ Ordered(Past(k)) /\ Past(k) \in Seq(Row) /\ IsPrefix(Past(k), Past(Shared))
             /\ \A n \in 1 .. k : [by |-> "laptop", n |-> n] \in Range(Past(k))
  <2>1. /\ Past(k) \in Seq(Row) /\ Len(Past(k)) = k /\ DOMAIN Past(k) = 1 .. k
        /\ \A i \in 1 .. k : Past(k)[i] = [by |-> "laptop", n |-> i]
    BY PastIsTyped
  <2>2. Shared \in 0 .. Shared /\ \A i \in 1 .. k : i \in 1 .. Shared
    BY ConstantsAssumption
  <2>3. /\ Past(Shared) \in Seq(Row) /\ Len(Past(Shared)) = Shared
        /\ \A i \in 1 .. Shared : Past(Shared)[i] = [by |-> "laptop", n |-> i]
    BY <2>2, PastIsTyped
  <2> HIDE DEF Past
  <2>4. Ordered(Past(k))
    BY <2>1 DEF Ordered
  <2>5. Len(Past(k)) <= Len(Past(Shared))
    BY <2>1, <2>3, ConstantsAssumption
  <2>6. \A i \in 1 .. Len(Past(k)) : Past(k)[i] = Past(Shared)[i]
    BY <2>1, <2>2, <2>3
  <2>7. IsPrefix(Past(k), Past(Shared))
    BY <2>1, <2>3, <2>5, <2>6, PrefixByPlace
  <2>8. \A n \in 1 .. k : [by |-> "laptop", n |-> n] \in Range(Past(k))
    BY <2>1 DEF Range
  <2>. QED
    BY <2>1, <2>4, <2>7, <2>8
<1>2. /\ local["laptop"] = Past(Shared) /\ entered["laptop"] = Shared
      /\ entered["droplet"] = 0 /\ Shared \in 0 .. Shared
      /\ \E k \in 0 .. Shared : local["droplet"] = Past(k)
      /\ \E k \in 0 .. Shared : remote = Past(k)
      /\ \E k \in 0 .. Shared : vault = Past(k)
      /\ \A m \in Machines : sync[m] = NoSync
      /\ session = NoSession
  BY ConstantsAssumption DEF Init, Machines
<1>3. WriterInv
  BY TypeInit DEF Init, NoSync, NoSession, WriterInv, OneWriter, ReadIsCurrent, Idle, Machines
<1>4. \A file \in Files : Ordered(file)
  <2>1. Ordered(<<>>)
    BY DEF Ordered
  <2>2. \A m \in Machines : sync[m].held = <<>> /\ sync[m].merged = <<>>
    BY <1>2 DEF NoSync
  <2>3. \A m \in Machines : Ordered(local[m])
    BY <1>1, <1>2 DEF Machines
  <2>4. Ordered(remote) /\ Ordered(vault)
    BY <1>1, <1>2
  <2>. QED
    BY <2>1, <2>2, <2>3, <2>4, Zenon DEF Files, Copies
<1>5. \A m \in Machines : Complete(m)
  BY <1>1, <1>2 DEF Complete, Machines
<1>6. VaultFollows /\ VaultInStep
  BY <1>1, <1>2 DEF VaultFollows, VaultInStep, NoSession
<1>. QED
  BY <1>3, <1>4, <1>5, <1>6 DEF OrderInv

LEMMA OrderStep ==
  ASSUME "overlap" \notin Faults, "vaultless" \notin Faults, OrderInv, [Next]_vars
  PROVE  OrderInv'
<1>1. WriterInv'
  BY TypeStep, OneWriterStep, ReadStep DEF OrderInv, WriterInv
<1>2. \A m \in Machines : Complete(m)'
  BY CompleteStep DEF OrderInv
<1>3. \A file \in Files' : Ordered(file)
  BY OrderedStep
<1>. QED
  BY <1>1, <1>2, <1>3, VaultStep DEF OrderInv, Ordered

(***************************************************************************)
(* OwnOrderKept, for any history and bound, while no disk is lost, no      *)
(* append to the vault fails and no pull runs inside a session: races,     *)
(* clobbers, outages, unread mirrors and crashes reorder no machine's rows *)
(* in any copy.                                                            *)
(***************************************************************************)
THEOREM OrderIsKept ==
  ASSUME Faults \cap {"loss", "overlap", "vaultless"} = {}
  PROVE  Spec => []OwnOrderKept
<1>1. Init => OrderInv
  BY OrderInit
<1>2. OrderInv /\ [Next]_vars => OrderInv'
  BY OrderStep
<1>3. OrderInv => OwnOrderKept
  BY DEF OrderInv, OwnOrderKept, Ordered, Files
<1>. QED
  BY <1>1, <1>2, <1>3, PTL DEF Spec

(***************************************************************************)
(* VaultFollows, and with it NeverLatched, under the same assumptions: it  *)
(* takes a lost disk, a failed append or a pull inside a session to leave  *)
(* the vault copy beside the file and so switch mirroring off.             *)
(***************************************************************************)
THEOREM VaultStaysBehind ==
  ASSUME Faults \cap {"loss", "overlap", "vaultless"} = {}
  PROVE  Spec => [](VaultFollows /\ NeverLatched)
<1>1. Init => OrderInv
  BY OrderInit
<1>2. OrderInv /\ [Next]_vars => OrderInv'
  BY OrderStep
<1>3. OrderInv => VaultFollows /\ NeverLatched
  BY DEF OrderInv, VaultInStep, NeverLatched
<1>. QED
  BY <1>1, <1>2, <1>3, PTL DEF Spec

-----------------------------------------------------------------------------
(* The transaction history.                                                 *)

\* No row is dated after today.
Dates == {n \in Int : n <= today}

ShapeInv ==
  /\ today \in Nat
  /\ feed \in [Rows -> Dates]
  /\ \/ cache = NoDocument \/ cache = Torn
     \/ /\ cache \in [kind : {"document"}, rows : [Rows -> Dates], reaches : Int]
        /\ cache.reaches <= today - HistoryFloor
  /\ \/ pull = NoPull
     \/ pull \in [kind : {"reading", "read"}, start : Int, end : Int, offset : Nat,
                  read : [Rows -> Dates], disturbed : BOOLEAN]

\* A pull in progress asks for the window that the file, which nobody touches
\* meanwhile, makes it ask for.
PullOfFile ==
  pull # NoPull => /\ cache # Torn
                   /\ pull.start = WindowStart /\ pull.end = today

\* A row whose date at the broker moved back behind the one on file is still no
\* older than the margin of any window that will be asked for.
MovedWithinMargin ==
  \A r \in Rows : Known(r) /\ feed[r] # Absent =>
    \/ OnFile[r] <= feed[r]
    \/ \A q \in Rows : Known(q) => OnFile[q] - Resettle <= feed[r]

\* And one that moved since it was read is recent.
ReadIsRecent ==
  pull # NoPull =>
    \A r \in Rows : pull.read[r] # Absent /\ feed[r] # Absent =>
      feed[r] = pull.read[r] \/ feed[r] >= today - Resettle

\* As long as nothing disturbs it, a pull has read all of its window up to its
\* offset, and, when it is over, all of its window, or nothing.
WalkIsWhole ==
  pull # NoPull /\ ~pull.disturbed =>
    /\ pull.kind = "reading" /\ pull.offset = 0 => pull.read = NoRow
    /\ pull.kind = "reading" =>
         \A r \in Window \cap Ours : Place(r) <= pull.offset => pull.read[r] # Absent
    /\ pull.kind = "read" =>
         \/ \A r \in Window \cap Ours : pull.read[r] # Absent
         \/ pull.read = NoRow

HistoryInv == ShapeInv /\ PullOfFile /\ MovedWithinMargin /\ ReadIsRecent /\ WalkIsWhole

-----------------------------------------------------------------------------
(* Pages.                                                                   *)

\* No two rows of a window stand at one place, and none beyond its size.
LEMMA PlacesDiffer ==
  ASSUME ShapeInv, pull # NoPull
  PROVE  /\ IsFiniteSet(Window) /\ Cardinality(Window) \in Nat
         /\ \A r \in Window : Place(r) \in 1 .. Cardinality(Window)
         /\ \A q, r \in Window : Place(q) = Place(r) => q = r
<1>1. /\ IsFiniteSet(Rows) /\ Rows \subseteq Int
      /\ \A r \in Rows : feed[r] \in Int
  BY HistoryConstants DEF ShapeInv, Dates
<1>2. Window \in SUBSET Rows
  BY DEF Window, Dated
<1>3. IsFiniteSet(Window) /\ Cardinality(Window) \in Nat
  BY <1>1, <1>2, FS_Subset, FS_CardinalityType
<1>4. \A r \in Window : UpToRow(r) \in SUBSET Window /\ r \in UpToRow(r)
  BY <1>1, <1>2 DEF UpToRow
<1>5. ASSUME NEW r \in Window PROVE Place(r) \in 1 .. Cardinality(Window)
  <2>1. IsFiniteSet(UpToRow(r)) /\ Cardinality(UpToRow(r)) <= Cardinality(Window)
    BY <1>3, <1>4, FS_Subset
  <2>2. Cardinality(UpToRow(r)) \in Nat /\ Cardinality(UpToRow(r)) # 0
    BY <1>4, <2>1, FS_CardinalityType, FS_EmptySet
  <2>. QED
    BY <1>3, <2>1, <2>2 DEF Place
<1>6. ASSUME NEW q \in Window, NEW r \in Window,
             feed[q] > feed[r] \/ (feed[q] = feed[r] /\ q <= r), Place(q) = Place(r)
      PROVE  q = r
  <2>1. UpToRow(q) \subseteq UpToRow(r)
    <3>1. ASSUME NEW x \in UpToRow(q)
          PROVE  x \in Window /\ (feed[x] > feed[r] \/ (feed[x] = feed[r] /\ x <= r))
      <4>1. x \in Window /\ (feed[x] > feed[q] \/ (feed[x] = feed[q] /\ x <= q))
        BY DEF UpToRow
      <4>2. /\ feed[x] \in Int /\ feed[q] \in Int /\ feed[r] \in Int
            /\ x \in Int /\ q \in Int /\ r \in Int
        BY <1>1, <1>2, <4>1
      <4>. QED
        BY <1>6, <4>1, <4>2
    <3>. QED
      BY <3>1 DEF UpToRow
  <2>2. UpToRow(q) = UpToRow(r)
    <3>1. IsFiniteSet(UpToRow(r))
      BY <1>3, <1>4, FS_Subset
    <3>. QED
      BY <1>6, <2>1, <3>1, FS_Subset DEF Place
  <2>3. r \in UpToRow(q)
    BY <1>4, <2>2
  <2>. QED
    BY <1>1, <1>2, <1>6, <2>3 DEF UpToRow
<1>7. \A q, r \in Window : \/ feed[q] > feed[r] \/ (feed[q] = feed[r] /\ q <= r)
                           \/ feed[r] > feed[q] \/ (feed[r] = feed[q] /\ r <= q)
  BY <1>1, <1>2
<1>. QED
  BY <1>3, <1>5, <1>6, <1>7

\* So many numbers follow a number.
LEMMA Stretch ==
  ASSUME NEW a \in Nat, NEW n \in Nat
  PROVE  IsFiniteSet((a + 1) .. (a + n)) /\ Cardinality((a + 1) .. (a + n)) = n
<1> DEFINE first == a + 1
           last == a + n
<1>1. first \in Int /\ last \in Int /\ (first > last <=> n = 0) /\ last - first + 1 = n
  OBVIOUS
<1> HIDE DEF first, last
<1>2. /\ IsFiniteSet(first .. last)
      /\ Cardinality(first .. last) = IF first > last THEN 0 ELSE last - first + 1
  BY <1>1, FS_Interval
<1>3. IsFiniteSet(first .. last) /\ Cardinality(first .. last) = n
  BY <1>1, <1>2
<1>. QED
  BY <1>3 DEF first, last

\* A page has no more rows than it may, and one without rows is past the end.
LEMMA PagesFill ==
  ASSUME ShapeInv, pull # NoPull
  PROVE  /\ IsFiniteSet(Raw) /\ Cardinality(Raw) \in 0 .. PageSize
         /\ Raw = {} => \A r \in Window : Place(r) <= pull.offset
<1> DEFINE size == Cardinality(Window)
           places == [r \in Window |-> Place(r)]
           page == [r \in Raw |-> Place(r)]
           ours == (pull.offset + 1) .. (pull.offset + PageSize)
<1>1. /\ IsFiniteSet(Window) /\ size \in Nat
      /\ \A r \in Window : Place(r) \in 1 .. size
      /\ \A q, r \in Window : Place(q) = Place(r) => q = r
  BY PlacesDiffer
<1>2. pull.offset \in Nat /\ PageSize \in Nat /\ PageSize # 0
  BY HistoryConstants DEF ShapeInv
<1>3. Raw \subseteq Window /\ \A r \in Raw : Place(r) \in ours
  BY DEF Raw
<1>4. page \in Injection(Raw, ours)
  <2> HIDE DEF ours
  <2>. QED
    BY <1>1, <1>3 DEF Injection, IsInjective
<1>5. IsFiniteSet(ours) /\ Cardinality(ours) = PageSize
  BY <1>2, Stretch
<1>6. IsFiniteSet(Raw) /\ Cardinality(Raw) <= PageSize /\ Cardinality(Raw) \in Nat
  <2> HIDE DEF ours, page
  <2>. QED
    BY <1>4, <1>5, FS_Injection, FS_CardinalityType
<1>7. ASSUME Raw = {}, pull.offset < size PROVE FALSE
  <2>1. places \in Injection(Window, 1 .. size)
    <3> HIDE DEF size
    <3>. QED
      BY <1>1 DEF Injection, IsInjective
  <2>2. IsFiniteSet(1 .. size) /\ Cardinality(1 .. size) = size
    BY <1>1, FS_Interval
  <2>3. places \in Surjection(Window, 1 .. size)
    <3> HIDE DEF places
    <3>. QED
      BY <2>1, <2>2, FS_Injection
  <2>4. PICK r \in Window : Place(r) = pull.offset + 1
    <3>1. pull.offset + 1 \in 1 .. size
      BY <1>1, <1>2, <1>7
    <3> HIDE DEF size
    <3>. QED
      BY <2>3, <3>1 DEF Surjection
  <2>5. r \in Raw
    BY <1>2, <2>4 DEF Raw
  <2>. QED
    BY <1>7, <2>5
<1>8. Raw = {} => \A r \in Window : Place(r) <= pull.offset
  <2> HIDE DEF size
  <2>. QED
    BY <1>1, <1>2, <1>7
<1>. QED
  BY <1>2, <1>6, <1>8

-----------------------------------------------------------------------------
(* The window.                                                              *)

\* The newest row on file is one of them and none is newer.
LEMMA NewestIsNewest ==
  ASSUME ShapeInv, cache.kind = "document"
  PROVE  /\ Newest \in Dates
         /\ \A q \in Rows : Known(q) => OnFile[q] <= Newest
         /\ (\E q \in Rows : Known(q)) => \E q \in Rows : Known(q) /\ Newest = OnFile[q]
<1> DEFINE dates == {cache.rows[r] : r \in Rows} \ {Absent}
           ages == {today - d : d \in dates}
<1>1. /\ today \in Nat /\ OnFile = cache.rows
      /\ \A r \in Rows : cache.rows[r] \in Int /\ cache.rows[r] <= today
  BY DEF ShapeInv, OnFile, NoDocument, Torn, Dates
<1>2. \A d \in dates : d \in Int /\ d <= today
  BY <1>1
<1>3. Newest = IF dates = {} THEN today ELSE Max(dates)
  BY DEF Newest
<1>4. CASE dates = {}
  BY <1>1, <1>3, <1>4 DEF Known, Dates
<1>5. CASE dates # {}
  <2>1. ages \in SUBSET Nat /\ ages # {}
    BY <1>1, <1>2, <1>5
  <2>2. PICK a \in ages : \A b \in ages : a <= b
    <3> HIDE DEF ages
    <3>. QED
      BY <2>1, LeastExists
  <2>3. \E d \in dates : \A e \in dates : d >= e
    <3>1. PICK d \in dates : a = today - d
      BY <2>2
    <3>2. \A e \in dates : today - d <= today - e
      BY <2>2, <3>1
    <3> HIDE DEF dates
    <3>. QED
      BY <1>1, <1>2, <3>1, <3>2
  <2>4. Max(dates) \in dates /\ \A e \in dates : Max(dates) >= e
    <3> HIDE DEF dates
    <3>. QED
      BY <2>3 DEF Max
  <2>5. Newest \in dates /\ \A e \in dates : e <= Newest
    <3> HIDE DEF dates
    <3>. QED
      BY <1>2, <1>3, <1>5, <2>4
  <2>6. \A q \in Rows : Known(q) => OnFile[q] \in dates
    BY <1>1 DEF Known
  <2>7. PICK q \in Rows : Newest = cache.rows[q] /\ cache.rows[q] # Absent
    BY <2>5
  <2>. QED
    BY <1>1, <1>2, <2>5, <2>6, <2>7 DEF Known, Dates
<1>. QED
  BY <1>4, <1>5

\* A file that exists has been reached back in once, so its window is short.
LEMMA WindowOf ==
  ASSUME ShapeInv, cache # Torn
  PROVE  /\ WindowStart \in Int
         /\ cache = NoDocument => WindowStart = today - HistoryFloor /\ OnFile = NoRow
         /\ cache # NoDocument => /\ cache.kind = "document" /\ OnFile = cache.rows
                                  /\ WindowStart = Newest - Resettle
<1>1. today \in Nat /\ HistoryFloor \in Nat /\ Resettle \in Nat
  BY HistoryConstants DEF ShapeInv
<1>2. CASE cache = NoDocument
  BY <1>1, <1>2 DEF WindowStart, NoDocument, OnFile
<1>3. CASE cache # NoDocument
  <2>1. cache.kind = "document" /\ cache.reaches <= today - HistoryFloor
    BY <1>3 DEF ShapeInv
  <2>2. Newest \in Int
    BY <2>1, NewestIsNewest DEF Dates
  <2>. QED
    BY <1>1, <1>3, <2>1, <2>2 DEF WindowStart, OnFile
<1>. QED
  BY <1>2, <1>3

-----------------------------------------------------------------------------
(* What a step leaves true.                                                 *)

\* There is nothing on file and no pull at first.
LEMMA HistoryStart == HistoryInit => HistoryInv
<1>1. SUFFICES ASSUME HistoryInit PROVE HistoryInv
  OBVIOUS
<1>2. FirstDay \in Nat /\ today = FirstDay /\ cache = NoDocument /\ pull = NoPull
  BY <1>1, HistoryConstants DEF HistoryInit
<1>3. feed \in [Rows -> Dates]
  <2>1. feed \in [Rows -> 1 .. FirstDay \cup {Absent}]
    BY <1>1 DEF HistoryInit
  <2>2. \A n \in 1 .. FirstDay \cup {Absent} : n \in Dates
    BY <1>2 DEF Absent, Dates
  <2>. QED
    BY <2>1, <2>2
<1>4. \A r \in Rows : ~Known(r)
  BY <1>2 DEF Known, OnFile, NoDocument, NoRow
<1>. QED
  BY <1>2, <1>3, <1>4 DEF HistoryInv, ShapeInv, PullOfFile, MovedWithinMargin, ReadIsRecent, WalkIsWhole

\* The broker posts a row of the last days, or takes one back.
LEMMA EditKeeps ==
  ASSUME HistoryInv, NEW r \in Rows, NEW date \in Dates,
         date = Absent \/ date >= today - Resettle, Edit(r, date)
  PROVE  HistoryInv'
<1>1. /\ feed' = [feed EXCEPT ![r] = date] /\ pull' = Disturbed
      /\ UNCHANGED <<today, cache>>
  BY DEF Edit
<1>2. /\ OnFile' = OnFile /\ WindowStart' = WindowStart /\ Dates' = Dates
      /\ \A q \in Rows : Known(q)' <=> Known(q)
  BY <1>1 DEF OnFile, WindowStart, Newest, Dates, Known
<1>3. /\ today \in Nat /\ Resettle \in Nat
      /\ \A q \in Rows : Known(q) => OnFile[q] \in Int /\ OnFile[q] <= today
  BY HistoryConstants DEF HistoryInv, ShapeInv, Known, OnFile, NoDocument, Torn, NoRow, Dates
<1>4. /\ feed' \in [Rows -> Dates] /\ feed'[r] = date
      /\ \A q \in Rows : q # r => feed'[q] = feed[q]
  BY <1>1 DEF HistoryInv, ShapeInv
<1>5. /\ pull = NoPull => pull' = NoPull
      /\ pull # NoPull => /\ pull' # NoPull /\ pull'.disturbed
                          /\ pull'.kind = pull.kind /\ pull'.start = pull.start /\ pull'.end = pull.end
                          /\ pull'.read = pull.read
                          /\ pull' \in [kind : {"reading", "read"}, start : Int, end : Int, offset : Nat,
                                        read : [Rows -> Dates], disturbed : BOOLEAN]
  BY <1>1 DEF Disturbed, HistoryInv, ShapeInv, NoPull
<1>6. ShapeInv'
  BY <1>1, <1>2, <1>4, <1>5 DEF HistoryInv, ShapeInv
<1>7. PullOfFile'
  BY <1>1, <1>2, <1>5 DEF HistoryInv, PullOfFile
<1>8. MovedWithinMargin'
  <2>1. date # Absent => \A q \in Rows : Known(q) => OnFile[q] - Resettle <= date
    <3>1. date \in Int
      BY DEF Dates
    <3>. QED
      BY <1>3, <3>1
  <2>. QED
    BY <1>2, <1>4, <2>1 DEF HistoryInv, MovedWithinMargin
<1>9. ReadIsRecent'
  BY <1>1, <1>4, <1>5 DEF HistoryInv, ReadIsRecent
<1>10. WalkIsWhole'
  BY <1>5 DEF WalkIsWhole
<1>. QED
  BY <1>6, <1>7, <1>8, <1>9, <1>10 DEF HistoryInv

\* A day later every row is a day older, and the reach of the file too.
LEMMA DayKeeps ==
  ASSUME HistoryInv, DayTurns
  PROVE  HistoryInv'
<1>1. today' = today + 1 /\ pull = NoPull /\ UNCHANGED <<feed, cache, pull>> /\ today \in Nat
  BY DEF DayTurns, HistoryInv, ShapeInv
<1>2. Dates \subseteq Dates'
  BY <1>1 DEF Dates
<1>3. ShapeInv'
  <2>1. feed' \in [Rows -> Dates']
    BY <1>1, <1>2 DEF HistoryInv, ShapeInv
  <2>2. CASE cache = NoDocument \/ cache = Torn
    BY <1>1, <2>1, <2>2 DEF ShapeInv
  <2>3. CASE ~(cache = NoDocument \/ cache = Torn)
    <3>1. /\ cache \in [kind : {"document"}, rows : [Rows -> Dates], reaches : Int]
          /\ cache.reaches <= today - HistoryFloor
      BY <2>3 DEF HistoryInv, ShapeInv
    <3>2. cache.reaches \in Int /\ cache.reaches <= today' - HistoryFloor
      BY <1>1, <3>1, HistoryConstants
    <3>3. cache \in [kind : {"document"}, rows : [Rows -> Dates'], reaches : Int]
      BY <1>2, <3>1
    <3>. QED
      BY <1>1, <2>1, <3>2, <3>3 DEF ShapeInv
  <2>. QED
    BY <2>2, <2>3
<1>4. MovedWithinMargin'
  BY <1>1 DEF HistoryInv, MovedWithinMargin, Known, OnFile
<1>. QED
  BY <1>1, <1>3, <1>4 DEF HistoryInv, PullOfFile, ReadIsRecent, WalkIsWhole

\* A pull begins with the window its file asks for, and nothing read.
LEMMA OpenKeeps ==
  ASSUME HistoryInv, OpenPull
  PROVE  HistoryInv'
<1>1. /\ pull' = [kind |-> "reading", start |-> WindowStart, end |-> today, offset |-> 0,
                  read |-> NoRow, disturbed |-> FALSE]
      /\ cache # Torn /\ UNCHANGED <<today, feed, cache>>
  BY DEF OpenPull
<1>2. WindowStart \in Int /\ today \in Nat /\ NoRow \in [Rows -> Dates]
  BY <1>1, WindowOf DEF HistoryInv, ShapeInv, NoRow, Absent, Dates
<1>3. OnFile' = OnFile /\ WindowStart' = WindowStart /\ Dates' = Dates /\ pull' # NoPull
  BY <1>1 DEF OnFile, WindowStart, Newest, Dates, NoPull
<1>4. ShapeInv'
  BY <1>1, <1>2, <1>3 DEF HistoryInv, ShapeInv
<1>5. MovedWithinMargin'
  BY <1>1, <1>3 DEF HistoryInv, MovedWithinMargin, Known
<1>6. \A r \in Rows : pull'.read[r] = Absent
  BY <1>1 DEF NoRow
<1>7. WalkIsWhole'
  <2>1. \A r \in (Window \cap Ours)' : ~(Place(r)' <= pull'.offset)
    <3>1. SUFFICES ASSUME NEW r \in Window' PROVE Place(r)' \in Nat /\ Place(r)' # 0
      BY <1>1
    <3>2. IsFiniteSet(Rows) /\ Rows \subseteq Int /\ r \in Rows /\ feed'[r] \in Int
      BY <1>4, HistoryConstants DEF ShapeInv, Window, Dated, Dates
    <3>3. UpToRow(r)' \in SUBSET Rows /\ r \in UpToRow(r)'
      BY <3>2 DEF UpToRow, Window, Dated
    <3>4. IsFiniteSet(UpToRow(r)')
      BY <3>2, <3>3, FS_Subset
    <3>. QED
      BY <3>3, <3>4, FS_CardinalityType, FS_EmptySet DEF Place
  <2>. QED
    BY <1>1, <2>1 DEF WalkIsWhole, NoRow
<1>. QED
  BY <1>1, <1>3, <1>4, <1>5, <1>6, <1>7 DEF HistoryInv, PullOfFile, ReadIsRecent

\* A page: the next rows of the window; none of them, at its beginning; or any
\* of them and a walk that is disturbed.
LEMMA PageKeeps ==
  ASSUME HistoryInv, NEW raw \in SUBSET Window, NEW total \in Nat, NEW short \in BOOLEAN,
         Page(raw, total, short),
         \/ raw = Raw /\ total = Cardinality(Window)
         \/ raw = {} /\ pull.offset = 0
         \/ short
  PROVE  HistoryInv'
<1> DEFINE offset == pull.offset + Cardinality(raw)
           read == [r \in Rows |-> IF r \in raw \cap Ours THEN feed[r] ELSE pull.read[r]]
           over == offset >= total \/ raw = {}
<1>1. /\ pull.kind = "reading"
      /\ pull' = [pull EXCEPT !.offset = offset, !.disturbed = @ \/ short, !.read = read,
                              !.kind = IF over THEN "read" ELSE "reading"]
      /\ UNCHANGED <<today, feed, cache>>
  BY DEF Page
<1>2. /\ pull # NoPull /\ ShapeInv
      /\ pull \in [kind : {"reading", "read"}, start : Int, end : Int, offset : Nat,
                   read : [Rows -> Dates], disturbed : BOOLEAN]
  BY <1>1 DEF HistoryInv, ShapeInv, NoPull
<1>3. IsFiniteSet(raw) /\ Cardinality(raw) \in Nat /\ raw \subseteq Rows
  <2>1. raw \in SUBSET Rows /\ IsFiniteSet(Rows)
    BY HistoryConstants DEF Window, Dated
  <2>. QED
    BY <2>1, FS_Subset, FS_CardinalityType
<1>4. offset \in Nat /\ read \in [Rows -> Dates]
  BY <1>2, <1>3 DEF ShapeInv
<1>5. /\ pull' # NoPull
      /\ pull'.start = pull.start /\ pull'.end = pull.end /\ pull'.offset = offset /\ pull'.read = read
      /\ pull'.disturbed = (pull.disturbed \/ short)
      /\ pull'.kind = IF over THEN "read" ELSE "reading"
      /\ pull' \in [kind : {"reading", "read"}, start : Int, end : Int, offset : Nat,
                    read : [Rows -> Dates], disturbed : BOOLEAN]
  <2> HIDE DEF offset, read, over
  <2>1. /\ pull'.start = pull.start /\ pull'.end = pull.end /\ pull'.offset = offset /\ pull'.read = read
        /\ pull'.disturbed = (pull.disturbed \/ short)
        /\ pull'.kind = IF over THEN "read" ELSE "reading"
        /\ pull' \in [kind : {"reading", "read"}, start : Int, end : Int, offset : Nat,
                      read : [Rows -> Dates], disturbed : BOOLEAN]
    BY <1>1, <1>2, <1>4
  <2>. QED
    BY <2>1 DEF NoPull
<1>6. /\ OnFile' = OnFile /\ WindowStart' = WindowStart /\ Dates' = Dates
      /\ \A q \in Rows : Known(q)' <=> Known(q)
  BY <1>1 DEF OnFile, WindowStart, Newest, Dates, Known
<1>7. /\ Window' = Window /\ \A r \in Window : Place(r)' = Place(r)
  BY <1>1, <1>5 DEF Window, Dated, Place, UpToRow
<1>8. ShapeInv'
  BY <1>1, <1>2, <1>5, <1>6 DEF ShapeInv
<1>9. PullOfFile'
  BY <1>1, <1>2, <1>5, <1>6 DEF HistoryInv, PullOfFile
<1>10. MovedWithinMargin'
  BY <1>1, <1>6 DEF HistoryInv, MovedWithinMargin
<1>11. ReadIsRecent'
  <2>1. \A r \in Rows : read[r] = feed[r] \/ read[r] = pull.read[r]
    OBVIOUS
  <2> HIDE DEF read
  <2>. QED
    BY <1>1, <1>2, <1>5, <2>1 DEF HistoryInv, ReadIsRecent
<1>12. WalkIsWhole'
  <2>1. SUFFICES ASSUME ~pull.disturbed, ~short PROVE WalkIsWhole'
    BY <1>5 DEF WalkIsWhole
  <2>2. /\ pull.offset = 0 => pull.read = NoRow
        /\ \A r \in Window \cap Ours : Place(r) <= pull.offset => pull.read[r] # Absent
    BY <1>1, <1>2, <2>1 DEF HistoryInv, WalkIsWhole
  <2>3. offset = 0 => raw = {} /\ pull.offset = 0
    <3>1. pull.offset \in Nat
      BY <1>2
    <3>. QED
      BY <1>3, <3>1, FS_EmptySet
  <2>4. raw = {} => read = pull.read
    BY <1>2
  <2>5. \A r \in Window \cap Ours : r \in raw \/ pull.read[r] # Absent => read[r] # Absent
    BY DEF Window, Dated
  <2>6. CASE raw = {} /\ pull.offset = 0
    <3>1. pull'.kind = "read" /\ pull'.read = NoRow
      BY <1>5, <2>2, <2>4, <2>6
    <3>. QED
      BY <3>1 DEF WalkIsWhole
  <2>7. CASE raw = Raw /\ total = Cardinality(Window)
    <3>1. /\ Cardinality(raw) <= PageSize /\ PageSize \in Nat /\ pull.offset \in Nat
          /\ raw = {} => \A r \in Window : Place(r) <= pull.offset
          /\ \A r \in Window : Place(r) \in 1 .. total
      BY <1>2, <2>7, PagesFill, PlacesDiffer, HistoryConstants
    <3>2. ASSUME NEW r \in Window \cap Ours, Place(r) <= offset PROVE read[r] # Absent
      <4>1. CASE Place(r) <= pull.offset
        BY <2>2, <2>5, <4>1
      <4>2. CASE ~(Place(r) <= pull.offset)
        <5>1. Place(r) \in (pull.offset + 1) .. (pull.offset + PageSize)
          BY <1>3, <3>1, <3>2, <4>2
        <5>2. r \in raw
          BY <2>7, <5>1 DEF Raw
        <5>. QED
          BY <2>5, <5>2
      <4>. QED
        BY <4>1, <4>2
    <3>3. over => \A r \in Window : Place(r) <= offset
      <4>1. CASE offset >= total
        BY <1>4, <3>1, <4>1
      <4>2. CASE raw = {}
        BY <1>3, <3>1, <4>2
      <4>. QED
        BY <4>1, <4>2
    <3>4. offset = 0 => read = NoRow
      BY <2>2, <2>3, <2>4
    <3> HIDE DEF offset, read, over
    <3>. QED
      BY <1>5, <1>7, <3>2, <3>3, <3>4 DEF WalkIsWhole, Ours
  <2>. QED
    BY <2>1, <2>6, <2>7
<1>. QED
  BY <1>8, <1>9, <1>10, <1>11, <1>12 DEF HistoryInv

\* Whole, blank and short pages are all such pages.
LEMMA PagesKeep ==
  ASSUME HistoryInv, ReadPage \/ BlankPage \/ ShortPage
  PROVE  HistoryInv'
<1>1. pull.kind = "reading" /\ pull # NoPull /\ ShapeInv
  <2>1. NoPull.kind = "none"
    BY DEF NoPull
  <2>2. pull.kind = "reading"
    BY DEF ReadPage, BlankPage, ShortPage
  <2>. QED
    BY <2>1, <2>2 DEF HistoryInv
<1>2. /\ Raw \in SUBSET Window /\ {} \in SUBSET Window
      /\ Cardinality(Window) \in Nat /\ Cardinality(Raw) \in Nat
  BY <1>1, PlacesDiffer, PagesFill, HistoryConstants DEF Raw
<1>3. CASE ReadPage
  BY <1>2, <1>3, PageKeeps DEF ReadPage
<1>4. CASE BlankPage
  <2>1. Page({}, 0, FALSE) /\ pull.offset = 0 /\ 0 \in Nat /\ FALSE \in BOOLEAN
    BY <1>4 DEF BlankPage
  <2>. QED
    BY <1>2, <2>1, PageKeeps
<1>5. CASE ShortPage
  <2>1. Page({}, Cardinality(Window), TRUE) \/ Page(Raw, Cardinality(Raw), TRUE)
    BY <1>5 DEF ShortPage
  <2>. QED
    BY <1>2, <2>1, PageKeeps
<1>. QED
  BY <1>3, <1>4, <1>5

\* What is committed of a pull agrees with the broker as far as what was read did.
LEMMA CommitKeeps ==
  ASSUME HistoryInv, Commit
  PROVE  HistoryInv'
<1>1. /\ pull' = NoPull /\ UNCHANGED <<today, feed>> /\ pull.kind = "read"
      /\ cache' = IF Hiccup THEN cache ELSE Replaced
  BY DEF Commit
<1>2. NoPull.kind = "none"
  BY DEF NoPull
<1>3. /\ pull # NoPull /\ ShapeInv /\ today \in Nat
      /\ pull \in [kind : {"reading", "read"}, start : Int, end : Int, offset : Nat,
                   read : [Rows -> Dates], disturbed : BOOLEAN]
  BY <1>1, <1>2 DEF HistoryInv, ShapeInv
<1>4. cache # Torn /\ pull.start = WindowStart /\ pull.end = today
  BY <1>3 DEF HistoryInv, PullOfFile
<1>5. /\ WindowStart \in Int
      /\ cache = NoDocument => WindowStart = today - HistoryFloor /\ OnFile = NoRow
      /\ cache # NoDocument => /\ cache.kind = "document" /\ OnFile = cache.rows
                               /\ WindowStart = Newest - Resettle
  BY <1>3, <1>4, WindowOf
<1>6. Dates' = Dates /\ Resettle \in Nat /\ HistoryFloor \in Nat
  BY <1>1, HistoryConstants DEF Dates
<1>7. OnFile \in [Rows -> Dates]
  BY <1>3, <1>4, <1>5 DEF ShapeInv, NoRow, Absent, Dates
<1>8. CASE Hiccup
  <2>1. cache' = cache
    BY <1>1, <1>8
  <2>2. OnFile' = OnFile /\ \A r \in Rows : Known(r)' <=> Known(r)
    BY <2>1 DEF OnFile, Known
  <2>3. ShapeInv'
    BY <1>1, <1>3, <1>6, <2>1 DEF ShapeInv
  <2>4. MovedWithinMargin'
    BY <1>1, <2>2 DEF HistoryInv, MovedWithinMargin
  <2>. QED
    BY <1>1, <2>3, <2>4 DEF HistoryInv, PullOfFile, ReadIsRecent, WalkIsWhole
<1>9. CASE ~Hiccup
  <2> DEFINE rows == [r \in Rows |-> IF pull.read[r] # Absent THEN pull.read[r]
                                     ELSE IF OnFile[r] \in pull.start .. pull.end THEN Absent ELSE OnFile[r]]
             reaches == IF cache.kind = "document" THEN Min({pull.start, cache.reaches}) ELSE pull.start
  <2>1. cache' = [kind |-> "document", rows |-> rows, reaches |-> reaches]
    BY <1>1, <1>9 DEF Replaced
  <2>2. rows \in [Rows -> Dates]
    <3>1. Absent \in Dates
      BY <1>3 DEF Absent, Dates
    <3>. QED
      BY <1>3, <1>7, <3>1
  <2>3. reaches \in Int /\ reaches <= today - HistoryFloor
    <3>1. CASE cache = NoDocument
      <4>1. NoDocument.kind # "document"
        BY DEF NoDocument
      <4>. QED
        BY <1>3, <1>4, <1>5, <1>6, <3>1, <4>1
    <3>2. CASE cache # NoDocument
      <4>1. cache.kind = "document" /\ cache.reaches \in Int /\ cache.reaches <= today - HistoryFloor
        BY <1>3, <1>4, <1>5, <3>2 DEF ShapeInv
      <4>2. reaches = IF pull.start < cache.reaches THEN pull.start ELSE cache.reaches
        BY <1>3, <4>1, MaxOfTwo
      <4> HIDE DEF reaches
      <4>. QED
        BY <1>3, <1>6, <4>1, <4>2
    <3>. QED
      BY <3>1, <3>2
  <2>4. /\ OnFile' = rows
        /\ \A r \in Rows : Known(r)' <=> rows[r] # Absent
    BY <2>1 DEF OnFile, Known
  <2>5. ShapeInv'
    <3> HIDE DEF rows, reaches
    <3>. QED
      BY <1>1, <1>3, <1>6, <2>1, <2>2, <2>3 DEF ShapeInv
  <2>6. ASSUME NEW r \in Rows, rows[r] # Absent, feed[r] # Absent
        PROVE  \/ rows[r] <= feed[r]
               \/ \A q \in Rows : rows[q] # Absent => rows[q] - Resettle <= feed[r]
    <3>1. feed[r] \in Int /\ \A q \in Rows : rows[q] \in Int /\ rows[q] <= today
      BY <1>3, <2>2 DEF ShapeInv, Dates
    <3>2. CASE pull.read[r] # Absent
      <4>1. rows[r] = pull.read[r]
        BY <3>2
      <4>2. feed[r] = pull.read[r] \/ feed[r] >= today - Resettle
        BY <1>3, <2>6, <3>2 DEF HistoryInv, ReadIsRecent
      <4> HIDE DEF rows
      <4>. QED
        BY <1>3, <1>6, <3>1, <4>1, <4>2
    <3>3. CASE pull.read[r] = Absent
      <4>1. rows[r] = OnFile[r] /\ OnFile[r] # Absent /\ ~(OnFile[r] \in pull.start .. pull.end)
        BY <2>6, <3>3
      <4>2. Known(r) /\ cache # NoDocument
        BY <1>5, <4>1 DEF Known, NoRow
      <4>3. OnFile[r] < Newest - Resettle /\ Newest \in Int
        <5>1. OnFile[r] \in Int /\ OnFile[r] <= today /\ pull.start = Newest - Resettle /\ pull.end = today
          BY <1>4, <1>5, <1>7, <4>2 DEF Dates
        <5>2. Newest \in Int
          BY <1>3, <1>5, <4>2, NewestIsNewest DEF Dates
        <5>. QED
          BY <1>3, <1>6, <4>1, <5>1, <5>2
      <4>4. PICK q \in Rows : Known(q) /\ Newest = OnFile[q]
        BY <1>3, <1>5, <4>2, NewestIsNewest
      <4>5. OnFile[r] <= feed[r] \/ OnFile[q] - Resettle <= feed[r]
        BY <2>6, <4>2, <4>4 DEF HistoryInv, MovedWithinMargin
      <4>6. OnFile[r] \in Int
        BY <1>7 DEF Dates
      <4> HIDE DEF rows
      <4>. QED
        BY <1>6, <3>1, <4>1, <4>3, <4>4, <4>5, <4>6
    <3>. QED
      BY <3>2, <3>3
  <2>7. MovedWithinMargin'
    <3> HIDE DEF rows
    <3>. QED
      BY <1>1, <2>4, <2>6 DEF MovedWithinMargin
  <2>. QED
    BY <1>1, <2>5, <2>7 DEF HistoryInv, PullOfFile, ReadIsRecent, WalkIsWhole
<1>. QED
  BY <1>8, <1>9

\* Nothing is on file of a file that is torn or gone.
LEMMA LossKeeps ==
  ASSUME HistoryInv, PageFails \/ KilledWriting \/ Deletes
  PROVE  HistoryInv'
<1>1. /\ UNCHANGED <<today, feed>>
      /\ \/ pull' = NoPull /\ cache' \in {cache, Torn}
         \/ cache = Torn /\ cache' = NoDocument /\ pull' = pull
  BY DEF PageFails, KilledWriting, Deletes
<1>2. pull' = NoPull
  BY <1>1 DEF HistoryInv, PullOfFile
<1>3. Dates' = Dates
  BY <1>1 DEF Dates
<1>4. ShapeInv'
  BY <1>1, <1>2, <1>3 DEF HistoryInv, ShapeInv
<1>5. MovedWithinMargin'
  <2>1. CASE cache' = cache
    BY <1>1, <2>1 DEF HistoryInv, MovedWithinMargin, Known, OnFile
  <2>2. CASE cache' # cache
    <3>1. cache' = Torn \/ cache' = NoDocument
      BY <1>1, <2>2
    <3>2. \A r \in Rows : ~Known(r)'
      BY <3>1 DEF Known, OnFile, NoRow, Torn, NoDocument
    <3>. QED
      BY <3>2 DEF MovedWithinMargin
  <2>. QED
    BY <2>1, <2>2
<1>. QED
  BY <1>2, <1>4, <1>5 DEF HistoryInv, PullOfFile, ReadIsRecent, WalkIsWhole

\* Every step of the broker, the calendar, the program and the operator.
LEMMA HistoryStep == HistoryInv /\ [HistoryNext]_historyVars => HistoryInv'
<1>1. SUFFICES ASSUME HistoryInv, [HistoryNext]_historyVars PROVE HistoryInv'
  OBVIOUS
<1>2. CASE Posts
  <2>1. PICK r \in Rows, date \in (today - Resettle) .. today : Edit(r, date)
    BY <1>2 DEF Posts
  <2>2. date \in Dates /\ date >= today - Resettle
    BY <1>1, HistoryConstants DEF HistoryInv, ShapeInv, Dates
  <2>. QED
    BY <1>1, <2>1, <2>2, EditKeeps
<1>3. CASE TakesBack
  <2>1. PICK r \in Rows : Edit(r, Absent)
    BY <1>3 DEF TakesBack
  <2>2. Absent \in Dates
    BY <1>1 DEF HistoryInv, ShapeInv, Absent, Dates
  <2>. QED
    BY <1>1, <2>1, <2>2, EditKeeps
<1>4. CASE DayTurns
  BY <1>1, <1>4, DayKeeps
<1>5. CASE OpenPull
  BY <1>1, <1>5, OpenKeeps
<1>6. CASE ReadPage \/ BlankPage \/ ShortPage
  BY <1>1, <1>6, PagesKeep
<1>7. CASE Commit
  BY <1>1, <1>7, CommitKeeps
<1>8. CASE PageFails \/ KilledWriting \/ Deletes
  BY <1>1, <1>8, LossKeeps
<1>9. CASE UNCHANGED historyVars
  <2>1. UNCHANGED <<today, feed, cache, pull>>
    BY <1>9 DEF historyVars
  <2>2. /\ OnFile' = OnFile /\ WindowStart' = WindowStart /\ Dates' = Dates
        /\ \A q \in Rows : (Known(q)' <=> Known(q)) /\ Place(q)' = Place(q)
        /\ Window' = Window
    BY <2>1 DEF OnFile, WindowStart, Newest, Dates, Known, Window, Dated, Place, UpToRow
  <2>3. ShapeInv'
    BY <1>1, <2>1, <2>2 DEF HistoryInv, ShapeInv
  <2>4. PullOfFile' /\ MovedWithinMargin' /\ ReadIsRecent'
    BY <1>1, <2>1, <2>2 DEF HistoryInv, PullOfFile, MovedWithinMargin, ReadIsRecent
  <2>5. WalkIsWhole'
    BY <1>1, <2>1, <2>2 DEF HistoryInv, WalkIsWhole, Ours, Window, Dated
  <2>. QED
    BY <2>3, <2>4, <2>5 DEF HistoryInv
<1>. QED
  BY <1>1, <1>2, <1>3, <1>4, <1>5, <1>6, <1>7, <1>8, <1>9 DEF HistoryNext

\* So it always holds.
LEMMA HistoryAlways == HistorySpec => []HistoryInv
BY HistoryStart, HistoryStep, PTL DEF HistorySpec

\* A row that is on file and still stands at the broker is dropped from the file
\* by no pull that read its window as it stands (_sync_transactions).
THEOREM StandingRowsStay == HistorySpec => NothingStandingIsDropped
<1> DEFINE Stays == \A r \in Ours :
       (Known(r) /\ feed[r] # Absent /\ cache'.kind = "document" /\ cache'.rows[r] = Absent)
         => pull.disturbed
<1>1. ASSUME HistoryInv, [HistoryNext]_historyVars PROVE Stays
  <2>1. SUFFICES ASSUME NEW r \in Ours, Known(r), feed[r] # Absent,
                        cache'.kind = "document", cache'.rows[r] = Absent
                 PROVE  pull.disturbed
    OBVIOUS
  <2>2. cache.kind = "document" /\ cache.rows[r] # Absent /\ OnFile = cache.rows /\ r \in Rows
    BY <2>1 DEF Known, OnFile, NoRow, Ours
  <2>3. cache' # cache
    BY <2>1, <2>2
  <2>4. Commit /\ ~Hiccup
    <3>1. NoDocument.kind # "document" /\ Torn.kind # "document"
      BY DEF NoDocument, Torn
    <3>2. cache' # Torn /\ cache # Torn
      BY <2>1, <2>2, <3>1
    <3>. QED
      BY <1>1, <2>3, <3>2 DEF HistoryNext, historyVars, Posts, TakesBack, Edit, DayTurns, OpenPull, ReadPage,
         BlankPage, ShortPage, Page, PageFails, Commit, KilledWriting, Deletes
  <2>5. /\ pull.read[r] = Absent /\ OnFile[r] \in pull.start .. pull.end
        /\ pull.kind = "read" /\ pull # NoPull
    <3>1. cache' = Replaced /\ pull.kind = "read"
      BY <2>4 DEF Commit
    <3>2. NoPull.kind = "none"
      BY DEF NoPull
    <3>. QED
      BY <2>1, <2>2, <3>1, <3>2 DEF Replaced
  <2>6. /\ cache # Torn /\ cache # NoDocument /\ pull.start = WindowStart /\ pull.end = today
        /\ today \in Nat /\ feed[r] \in Int /\ feed[r] <= today /\ OnFile[r] \in Int
        /\ Resettle \in Nat
    <3>1. NoDocument.kind # "document" /\ Torn.kind # "document"
      BY DEF NoDocument, Torn
    <3>2. cache # Torn /\ cache # NoDocument
      BY <2>2, <3>1
    <3>. QED
      BY <1>1, <2>2, <2>5, <3>2, HistoryConstants DEF HistoryInv, ShapeInv, PullOfFile, Dates
  <2>7. pull.start = Newest - Resettle
    BY <1>1, <2>6, WindowOf DEF HistoryInv
  <2>8. PICK q \in Rows : Known(q) /\ Newest = OnFile[q]
    BY <1>1, <2>1, <2>2, NewestIsNewest DEF HistoryInv
  <2>9. OnFile[r] <= feed[r] \/ OnFile[q] - Resettle <= feed[r]
    BY <1>1, <2>1, <2>2, <2>8 DEF HistoryInv, MovedWithinMargin
  <2>10. feed[r] \in pull.start .. pull.end
    <3>1. pull.start \in Int /\ OnFile[q] \in Int
      BY <1>1, <2>2, <2>5, <2>6 DEF HistoryInv, ShapeInv, Dates
    <3>. QED
      BY <2>5, <2>6, <2>7, <2>8, <2>9, <3>1
  <2>11. r \in Window \cap Ours
    BY <2>1, <2>2, <2>10 DEF Window, Dated
  <2>12. pull.read # NoRow
    <3>1. r \in Dated(OnFile, pull.start, pull.end)
      BY <2>1, <2>2, <2>5 DEF Dated, Known
    <3>. QED
      BY <2>4, <3>1 DEF Hiccup
  <2>. QED
    BY <1>1, <2>5, <2>11, <2>12 DEF HistoryInv, WalkIsWhole
<1>. QED
  BY <1>1, HistoryAlways, PTL DEF HistorySpec, NothingStandingIsDropped
=============================================================================
