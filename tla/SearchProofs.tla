------------------------------ MODULE SearchProofs ------------------------------
(***************************************************************************)
(* Proofs about Search: what a search of three queries of three states     *)
(* promises of every ticket that was left alone meanwhile, for any number  *)
(* of tickets, comments and ranks, any limits and any interleaving with    *)
(* the operations of the store.  The sort and the cut that produce the     *)
(* results are proved to do what they are for on lists of any length.      *)
(***************************************************************************)
EXTENDS Search, TicketStoreProofs

-------------------------------------------------------------------------------
(* Lists *)

Distinct(list) == \A i, j \in DOMAIN list : list[i] = list[j] => i = j

\* The best rank comes first.
InOrder(list) ==
  \A i, j \in DOMAIN list : i <= j => hits[list[i]].rank <= hits[list[j]].rank

\* Keys of hits, with ranks that can be compared.
RankedKeys == {k \in DOMAIN hits : hits[k].rank \in Int}

\* The positions from the first to some last one are as many as the last one says.
LEMMA PrefixLength ==
  ASSUME NEW n \in Nat, NEW S \in SUBSET (1..n), \A i \in S : 1..i \subseteq S
  PROVE  Cardinality(S) \in 0..n /\ S = 1..Cardinality(S)
<1>1. CASE S = {}
  BY <1>1, FS_EmptySet
<1>2. CASE S # {}
  <2>1. PICK m \in S : \A i \in S : i <= m
    BY <1>2, GreatestUpTo
  <2>2. S = 1..m
    <3>1. 1..m \subseteq S
      BY <2>1
    <3>2. \A i \in S : i \in 1..m
      BY <2>1
    <3>3. QED
      BY <3>1, <3>2
  <2>3. Cardinality(1..m) = m
    BY <2>1, FS_Interval
  <2>4. QED
    BY <2>1, <2>2, <2>3
<1>3. QED
  BY <1>1, <1>2

\* A list without repetitions is as long as its set is large.
LEMMA DistinctLength ==
  ASSUME NEW K, NEW list \in Seq(K), Distinct(list)
  PROVE  IsFiniteSet(ToSet(list)) /\ Cardinality(ToSet(list)) = Len(list)
<1> DEFINE n == Len(list)
<1>1. n \in Nat /\ DOMAIN list = 1..n /\ list \in [1..n -> K]
  BY LenProperties
<1>2. IsFiniteSet(1..n) /\ Cardinality(1..n) = n
  BY <1>1, FS_Interval
<1>3. list \in Bijection(1..n, ToSet(list))
  <2>1. list \in [1..n -> ToSet(list)] /\ \A t \in ToSet(list) : \E i \in 1..n : list[i] = t
    BY <1>1 DEF ToSet
  <2>2. \A i, j \in 1..n : list[i] = list[j] => i = j
    BY <1>1 DEF Distinct
  <2>3. QED
    BY <2>1, <2>2 DEF Bijection, Injection, Surjection, IsInjective
<1>4. ExistsBijection(1..n, ToSet(list))
  BY <1>3 DEF ExistsBijection
<1>5. QED
  BY <1>2, <1>4, FS_Bijection

\* The orders a query can return its rows in.
LEMMA RowOrders ==
  ASSUME NEW S, IsFiniteSet(S), NEW rows \in SetToSeqs(S)
  PROVE  rows \in Seq(S) /\ Distinct(rows) /\ ToSet(rows) = S
<1> DEFINE n == Cardinality(S)
<1>1. n \in Nat
  BY FS_CardinalityType
<1>2. rows \in [1..n -> S] /\ \A i, j \in 1..n : i # j => rows[i] # rows[j]
  BY DEF SetToSeqs
<1>3. rows \in Injection(1..n, S)
  BY <1>2 DEF Injection, IsInjective
<1>4. IsFiniteSet(1..n) /\ Cardinality(1..n) = n
  BY <1>1, FS_Interval
<1>5. rows \in Surjection(1..n, S)
  BY <1>3, <1>4, FS_Injection
<1>6. ToSet(rows) = S
  BY <1>2, <1>5 DEF ToSet, Surjection
<1>7. rows \in Seq(S) /\ Distinct(rows)
  BY <1>1, <1>2 DEF Distinct
<1>8. QED
  BY <1>6, <1>7

\* The first n of a list, or all.
LEMMA CutFacts ==
  ASSUME NEW K, NEW list \in Seq(K), NEW n \in Nat
  PROVE  /\ Cut(list, n) \in Seq(K)
         /\ Len(Cut(list, n)) \in Nat /\ Len(list) \in Nat
         /\ Len(Cut(list, n)) <= n /\ Len(Cut(list, n)) <= Len(list)
         /\ Len(list) <= n => Len(Cut(list, n)) = Len(list)
         /\ Len(list) > n => Len(Cut(list, n)) = n
         /\ \A i \in 1..Len(Cut(list, n)) : Cut(list, n)[i] = list[i]
<1> DEFINE m == IF Len(list) <= n THEN Len(list) ELSE n
<1>1. Len(list) \in Nat /\ DOMAIN list = 1..Len(list) /\ \A i \in 1..Len(list) : list[i] \in K
  BY LenProperties
<1>2. m \in Nat /\ m <= Len(list) /\ m <= n
  BY <1>1
<1>0. (Len(list) <= n => m = Len(list)) /\ (~(Len(list) <= n) => m = n)
  OBVIOUS
<1>3. Cut(list, n) = SubSeq(list, 1, m)
  BY DEF Cut
<1>4. \A i \in 1..m : list[i] \in K
  BY <1>1, <1>2
<1> HIDE DEF m
<1>5. /\ SubSeq(list, 1, m) \in Seq(K)
      /\ Len(SubSeq(list, 1, m)) = IF 1 <= m THEN m - 1 + 1 ELSE 0
      /\ \A i \in 1..(m - 1 + 1) : SubSeq(list, 1, m)[i] = list[1 + i - 1]
  BY <1>2, <1>4, SubSeqProperties
<1>6. m - 1 + 1 = m /\ \A i \in 1..m : 1 + i - 1 = i
  BY <1>2
<1> DEFINE cut == Cut(list, n)
<1>7. cut \in Seq(K) /\ Len(cut) = m /\ \A i \in 1..m : cut[i] = list[i]
  <2> DEFINE part == SubSeq(list, 1, m)
  <2>1. part \in Seq(K) /\ Len(part) = m /\ \A i \in 1..m : part[i] = list[i]
    <3> HIDE DEF part
    <3>1. Len(part) = m
      BY <1>2, <1>5 DEF part
    <3>2. ASSUME NEW i \in 1..m PROVE part[i] = list[i]
      BY <1>2, <1>5, <1>6 DEF part
    <3>3. QED
      BY <1>5, <3>1, <3>2 DEF part
  <2>2. QED
    BY <1>3, <2>1
<1> HIDE DEF cut
<1>8. /\ Len(list) <= n => m = Len(list)
      /\ Len(list) > n => m = n
  BY <1>0, <1>1
<1>9. /\ cut \in Seq(K)
      /\ Len(cut) \in Nat /\ Len(list) \in Nat
      /\ Len(cut) <= n /\ Len(cut) <= Len(list)
      /\ Len(list) <= n => Len(cut) = Len(list)
      /\ Len(list) > n => Len(cut) = n
      /\ \A i \in 1..Len(cut) : cut[i] = list[i]
  BY <1>1, <1>2, <1>7, <1>8
<1>10. QED
  BY <1>9 DEF cut

-------------------------------------------------------------------------------
(* The sort *)

\* Inserting a row where its rank belongs keeps the list in order.
LEMMA InsertionSorts ==
  ASSUME NEW list \in Seq(RankedKeys), Distinct(list), InOrder(list),
         NEW k \in RankedKeys, k \notin ToSet(list)
  PROVE  LET longer == InsertByRank(list, k)
         IN  /\ longer \in Seq(RankedKeys) /\ Distinct(longer) /\ InOrder(longer)
             /\ ToSet(longer) = ToSet(list) \cup {k}
<1> DEFINE n == Len(list)
           smaller == {i \in DOMAIN list : hits[list[i]].rank <= hits[k].rank}
           m == Cardinality(smaller)
           longer == InsertByRank(list, k)
<1>1. /\ n \in Nat /\ DOMAIN list = 1..n
      /\ \A i \in 1..n : list[i] \in RankedKeys /\ hits[list[i]].rank \in Int
      /\ hits[k].rank \in Int
  BY LenProperties DEF RankedKeys
<1>2. m \in 0..n /\ smaller = 1..m
  <2>1. smaller \in SUBSET (1..n)
    BY <1>1
  <2>2. ASSUME NEW i \in smaller, NEW j \in 1..i PROVE j \in smaller
    BY <1>1, <2>2 DEF InOrder
  <2> HIDE DEF smaller
  <2>3. QED
    BY <1>1, <2>1, <2>2, PrefixLength
<1>3. /\ \A i \in 1..m : hits[list[i]].rank <= hits[k].rank
      /\ \A i \in (m + 1)..n : hits[k].rank < hits[list[i]].rank
  <2>1. \A i \in 1..n : i \in smaller <=> hits[list[i]].rank <= hits[k].rank
    BY <1>1
  <2> HIDE DEF smaller, m
  <2>2. ASSUME NEW i \in 1..m PROVE hits[list[i]].rank <= hits[k].rank
    BY <1>1, <1>2, <2>1
  <2>3. ASSUME NEW i \in (m + 1)..n PROVE hits[k].rank < hits[list[i]].rank
    <3>1. i \in 1..n /\ i \notin 1..m
      BY <1>1, <1>2
    <3>2. ~(hits[list[i]].rank <= hits[k].rank)
      BY <1>2, <2>1, <3>1
    <3>3. hits[list[i]].rank \in Int /\ hits[k].rank \in Int
      BY <1>1, <3>1
    <3>4. QED
      BY <3>2, <3>3
  <2>4. QED
    BY <2>2, <2>3
<1> HIDE DEF smaller
<1>4. longer = SubSeq(list, 1, m) \o <<k>> \o SubSeq(list, m + 1, n)
  <2> DEFINE at == m + 1
  <2>1. longer = InsertAt(list, at, k)
    BY DEF InsertByRank, smaller
  <2> HIDE DEF m, longer
  <2>2. at - 1 = m
    BY <1>1, <1>2
  <2> HIDE DEF at
  <2>3. InsertAt(list, at, k) = SubSeq(list, 1, at - 1) \o <<k>> \o SubSeq(list, at, Len(list))
    BY DEF InsertAt
  <2>4. QED
    BY <2>1, <2>2, <2>3 DEF at
<1> HIDE DEF m, longer
<1>0. n \in Nat /\ m \in Nat /\ m <= n
  BY <1>1, <1>2
<1>5. /\ longer \in Seq(RankedKeys) /\ Len(longer) = n + 1
      /\ \A i \in 1..(n + 1) :
           longer[i] = IF i <= m THEN list[i] ELSE IF i = m + 1 THEN k ELSE list[i - 1]
  <2> DEFINE left == SubSeq(list, 1, m)
             right == SubSeq(list, m + 1, n)
             middle == <<k>>
  <2>1. /\ left \in Seq(RankedKeys) /\ Len(left) = m
        /\ \A i \in 1..m : left[i] = list[i]
    <3>1. \A i \in 1..m : list[i] \in RankedKeys
      BY <1>1, <1>2
    <3>2. /\ left \in Seq(RankedKeys)
          /\ Len(left) = IF 1 <= m THEN m - 1 + 1 ELSE 0
          /\ \A i \in 1..(m - 1 + 1) : left[i] = list[1 + i - 1]
      BY <1>2, <3>1, SubSeqProperties
    <3> HIDE DEF left
    <3>3. QED
      BY <1>2, <3>2
  <2>2. /\ right \in Seq(RankedKeys) /\ Len(right) = n - m
        /\ \A i \in 1..(n - m) : right[i] = list[m + i]
    <3>1. \A i \in (m + 1)..n : list[i] \in RankedKeys
      BY <1>1, <1>2
    <3>2. /\ right \in Seq(RankedKeys)
          /\ Len(right) = IF m + 1 <= n THEN n - (m + 1) + 1 ELSE 0
          /\ \A i \in 1..(n - (m + 1) + 1) : right[i] = list[m + 1 + i - 1]
      BY <1>1, <1>2, <3>1, SubSeqProperties
    <3> HIDE DEF right
    <3>3. n - (m + 1) + 1 = n - m /\ (m + 1 <= n <=> n - m # 0)
      BY <1>0
    <3>4. Len(right) = n - m
      BY <1>0, <3>2, <3>3
    <3>5. ASSUME NEW i \in 1..(n - m) PROVE right[i] = list[m + i]
      <4>1. m + 1 + i - 1 = m + i
        BY <1>1, <1>2
      <4>2. QED
        BY <3>2, <3>3, <4>1
    <3>6. QED
      BY <3>2, <3>4, <3>5
  <2>3. middle \in Seq(RankedKeys) /\ Len(middle) = 1 /\ middle[1] = k
    OBVIOUS
  <2> HIDE DEF left, right, middle
  <2> DEFINE front == left \o middle
  <2>4. /\ front \in Seq(RankedKeys) /\ Len(front) = m + 1
        /\ \A i \in 1..(m + 1) : front[i] = IF i <= m THEN left[i] ELSE middle[i - m]
    <3>1. left \in Seq(RankedKeys) /\ middle \in Seq(RankedKeys)
      BY <2>1, <2>3
    <3>2. /\ front \in Seq(RankedKeys) /\ Len(front) = Len(left) + Len(middle)
          /\ \A i \in 1..(Len(left) + Len(middle)) :
               front[i] = IF i <= Len(left) THEN left[i] ELSE middle[i - Len(left)]
      BY <3>1, ConcatProperties
    <3> HIDE DEF front
    <3>3. Len(left) = m /\ Len(middle) = 1
      BY <2>1, <2>3
    <3>4. QED
      BY <3>2, <3>3
  <2>5. \A i \in 1..(m + 1) : front[i] = IF i <= m THEN list[i] ELSE k
    BY <1>2, <2>1, <2>3, <2>4
  <2> HIDE DEF front
  <2>6. /\ front \o right \in Seq(RankedKeys) /\ Len(front \o right) = (m + 1) + (n - m)
        /\ \A i \in 1..((m + 1) + (n - m)) :
             (front \o right)[i] = IF i <= m + 1 THEN front[i] ELSE right[i - (m + 1)]
    <3>1. front \in Seq(RankedKeys) /\ Len(front) = m + 1
      BY <2>4
    <3>2. right \in Seq(RankedKeys) /\ Len(right) = n - m
      BY <2>2
    <3> DEFINE joined == front \o right
    <3>3. /\ joined \in Seq(RankedKeys) /\ Len(joined) = Len(front) + Len(right)
          /\ \A i \in 1..(Len(front) + Len(right)) :
               joined[i] = IF i <= Len(front) THEN front[i] ELSE right[i - Len(front)]
      BY <3>1, <3>2, ConcatProperties
    <3> HIDE DEF joined
    <3>4. QED
      BY <3>1, <3>2, <3>3 DEF joined
  <2>7. longer = front \o right
    BY <1>4 DEF front, left, middle, right
  <2>8. (m + 1) + (n - m) = n + 1
    BY <1>1, <1>2
  <2>9. ASSUME NEW i \in 1..(n + 1)
        PROVE  (front \o right)[i]
                 = IF i <= m THEN list[i] ELSE IF i = m + 1 THEN k ELSE list[i - 1]
    <3> i \in 1..((m + 1) + (n - m))
      BY <2>8
    <3>1. CASE i <= m + 1
      <4>1. i \in 1..(m + 1) /\ (front \o right)[i] = front[i]
        BY <1>1, <1>2, <2>6, <3>1
      <4>2. i <= m \/ i = m + 1
        BY <1>0, <3>1
      <4>3. QED
        BY <1>1, <1>2, <2>5, <4>1, <4>2
    <3>2. CASE ~(i <= m + 1)
      <4>1. i - (m + 1) \in 1..(n - m) /\ m + (i - (m + 1)) = i - 1
        BY <1>1, <1>2, <3>2
      <4>2. right[i - (m + 1)] = list[i - 1]
        BY <2>2, <4>1
      <4>3. (front \o right)[i] = right[i - (m + 1)]
        BY <2>6, <3>2
      <4>4. ~(i <= m) /\ i # m + 1
        BY <1>1, <1>2, <3>2
      <4>5. QED
        BY <4>2, <4>3, <4>4
    <3>3. QED
      BY <3>1, <3>2
  <2>10. QED
    BY <2>6, <2>7, <2>8, <2>9
<1>6. DOMAIN longer = 1..(n + 1)
  BY <1>5, LenProperties
<1>7. Distinct(longer)
  <2>1. \A i \in 1..n : list[i] # k
    BY <1>1 DEF ToSet
  <2>2. \A i, j \in 1..n : list[i] = list[j] => i = j
    BY <1>1 DEF Distinct
  <2> DEFINE old(i) == IF i <= m THEN i ELSE i - 1
  <2>3. ASSUME NEW i \in 1..(n + 1), i # m + 1
        PROVE  old(i) \in 1..n /\ longer[i] = list[old(i)]
    BY <1>0, <1>5, <2>3
  <2>4. longer[m + 1] = k
    BY <1>0, <1>5
  <2>5. ASSUME NEW i \in 1..(n + 1), NEW j \in 1..(n + 1), i # m + 1, j # m + 1, old(i) = old(j)
        PROVE  i = j
    BY <1>0, <2>5
  <2> HIDE DEF old
  <2>6. ASSUME NEW i \in 1..(n + 1), NEW j \in 1..(n + 1), longer[i] = longer[j]
        PROVE  i = j
    <3>1. CASE i = m + 1 \/ j = m + 1
      BY <2>1, <2>3, <2>4, <2>6, <3>1
    <3>2. CASE i # m + 1 /\ j # m + 1
      <4>1. old(i) \in 1..n /\ old(j) \in 1..n /\ list[old(i)] = list[old(j)]
        BY <2>3, <2>6, <3>2
      <4>2. QED
        BY <2>2, <2>5, <3>2, <4>1
    <3>3. QED
      BY <3>1, <3>2
  <2>7. QED
    BY <1>6, <2>6 DEF Distinct
<1>8. InOrder(longer)
  <2>1. \A i, j \in 1..n : i <= j => hits[list[i]].rank <= hits[list[j]].rank
    BY <1>1 DEF InOrder
  <2> SUFFICES ASSUME NEW i \in 1..(n + 1), NEW j \in 1..(n + 1), i <= j
               PROVE  hits[longer[i]].rank <= hits[longer[j]].rank
    BY <1>6 DEF InOrder
  <2>2. CASE i <= m /\ j <= m
    BY <1>1, <1>2, <1>5, <2>1, <2>2
  <2>3. CASE i <= m /\ j = m + 1
    <3>1. longer[i] = list[i] /\ longer[j] = k
      BY <1>0, <1>5, <2>3
    <3>2. QED
      BY <1>3, <2>3, <3>1
  <2>4. CASE i <= m /\ j > m + 1
    BY <1>1, <1>2, <1>5, <2>1, <2>4
  <2>5. CASE i = m + 1 /\ j = m + 1
    BY <1>1, <1>2, <1>5, <2>5
  <2>6. CASE i = m + 1 /\ j > m + 1
    <3>1. j - 1 \in (m + 1)..n
      BY <1>1, <1>2, <2>6
    <3>2. hits[k].rank < hits[list[j - 1]].rank
      BY <1>3, <3>1
    <3>3. longer[i] = k /\ longer[j] = list[j - 1]
      BY <1>1, <1>2, <1>5, <2>6
    <3>4. hits[k].rank \in Int /\ hits[list[j - 1]].rank \in Int
      BY <1>1, <1>2, <3>1
    <3>5. QED
      BY <3>2, <3>3, <3>4
  <2>7. CASE i > m + 1 /\ j > m + 1
    <3>1. i - 1 \in 1..n /\ j - 1 \in 1..n /\ i - 1 <= j - 1
      BY <1>1, <1>2, <2>7
    <3>2. longer[i] = list[i - 1] /\ longer[j] = list[j - 1]
      BY <1>1, <1>2, <1>5, <2>7
    <3>3. QED
      BY <2>1, <3>1, <3>2
  <2>8. QED
    BY <1>1, <1>2, <2>2, <2>3, <2>4, <2>5, <2>6, <2>7
<1>9. ToSet(longer) = ToSet(list) \cup {k}
  <2>1. ASSUME NEW i \in 1..(n + 1) PROVE longer[i] \in ToSet(list) \cup {k}
    <3>1. CASE i <= m
      <4>1. i \in 1..n /\ longer[i] = list[i]
        BY <1>1, <1>2, <1>5, <3>1
      <4>2. QED
        BY <1>1, <4>1 DEF ToSet
    <3>2. CASE i = m + 1
      BY <1>1, <1>2, <1>5, <3>2
    <3>3. CASE i > m + 1
      <4>1. i - 1 \in 1..n /\ longer[i] = list[i - 1]
        BY <1>1, <1>2, <1>5, <3>3
      <4>2. QED
        BY <1>1, <4>1 DEF ToSet
    <3>4. QED
      BY <1>1, <1>2, <3>1, <3>2, <3>3
  <2>2. k \in ToSet(longer)
    <3>1. m + 1 \in 1..(n + 1) /\ longer[m + 1] = k
      BY <1>1, <1>2, <1>5
    <3>2. QED
      BY <1>6, <3>1 DEF ToSet
  <2>3. ASSUME NEW i \in 1..n PROVE list[i] \in ToSet(longer)
    <3>1. CASE i <= m
      <4>1. i \in 1..(n + 1) /\ longer[i] = list[i]
        BY <1>1, <1>2, <1>5, <3>1
      <4>2. QED
        BY <1>6, <4>1 DEF ToSet
    <3>2. CASE i > m
      <4>1. i + 1 \in 1..(n + 1) /\ longer[i + 1] = list[i]
        BY <1>1, <1>2, <1>5, <3>2
      <4>2. QED
        BY <1>6, <4>1 DEF ToSet
    <3>3. QED
      BY <1>1, <1>2, <3>1, <3>2
  <2>4. QED
    BY <1>1, <1>6, <2>1, <2>2, <2>3 DEF ToSet
<1>10. QED
  BY <1>5, <1>7, <1>8, <1>9 DEF longer

-------------------------------------------------------------------------------
(* All rows *)

\* The lists that inserting the first rows one after the other leads through.
InsertedAfter(rows, chain, n) ==
  chain = [i \in 0..n |-> IF i = 0 THEN <<>> ELSE InsertByRank(chain[i - 1], rows[i])]

LEMMA ChainExists ==
  ASSUME NEW rows, NEW n \in Nat
  PROVE  \E chain : InsertedAfter(rows, chain, n)
<1> DEFINE Bad == {m \in Nat : ~\E chain : InsertedAfter(rows, chain, m)}
<1> SUFFICES ASSUME Bad # {} PROVE FALSE
  OBVIOUS
<1>1. PICK m \in Bad : \A other \in Bad : m <= other
  <2>1. Bad \in SUBSET Nat
    OBVIOUS
  <2> HIDE DEF Bad
  <2>2. QED
    BY <2>1, LeastNat
<1>2. CASE m = 0
  <2> DEFINE chain == [i \in 0..0 |-> <<>>]
  <2>1. chain = [i \in 0..m |-> IF i = 0 THEN <<>> ELSE InsertByRank(chain[i - 1], rows[i])]
    BY <1>2
  <2>2. QED
    BY <2>1 DEF InsertedAfter
<1>3. CASE m # 0
  <2>1. m - 1 \in Nat /\ m - 1 \notin Bad
    BY <1>1, <1>3
  <2>2. PICK short : InsertedAfter(rows, short, m - 1)
    BY <2>1
  <2> DEFINE long == [i \in 0..m |-> IF i = m THEN InsertByRank(short[m - 1], rows[m]) ELSE short[i]]
             next == [i \in 0..m |-> IF i = 0 THEN <<>> ELSE InsertByRank(long[i - 1], rows[i])]
  <2>3. ASSUME NEW i \in 0..m PROVE long[i] = next[i]
    <3>1. CASE i = m
      <4>1. m - 1 \in 0..m /\ m - 1 # m
        BY <2>1
      <4>2. long[m - 1] = short[m - 1]
        BY <4>1
      <4>3. QED
        BY <1>3, <3>1, <4>2
    <3>2. CASE i # m /\ i = 0
      <4>1. i \in 0..(m - 1)
        BY <2>1, <3>2
      <4>2. short[i] = <<>>
        BY <2>2, <3>2, <4>1 DEF InsertedAfter
      <4>3. QED
        BY <3>2, <4>2
    <3>3. CASE i # m /\ i # 0
      <4>1. i \in 0..(m - 1) /\ i - 1 \in 0..m /\ i - 1 # m
        BY <2>1, <3>3
      <4>2. short[i] = InsertByRank(short[i - 1], rows[i])
        BY <2>2, <3>3, <4>1 DEF InsertedAfter
      <4>3. long[i - 1] = short[i - 1]
        BY <4>1
      <4>4. QED
        BY <3>3, <4>2, <4>3
    <3>4. QED
      BY <3>1, <3>2, <3>3
  <2>4. long = next
    <3>1. DOMAIN long = 0..m /\ DOMAIN next = 0..m
      OBVIOUS
    <3>2. long = [i \in 0..m |-> long[i]] /\ next = [i \in 0..m |-> next[i]]
      OBVIOUS
    <3> HIDE DEF long, next
    <3>3. QED
      BY <2>3, <3>2
  <2>5. InsertedAfter(rows, long, m)
    BY <2>4 DEF InsertedAfter
  <2>6. QED
    BY <1>1, <2>5
<1>4. QED
  BY <1>2, <1>3

\* Each of them holds the rows so far, in order.
LEMMA ChainSorts ==
  ASSUME NEW rows \in Seq(RankedKeys), Distinct(rows),
         NEW chain, InsertedAfter(rows, chain, Len(rows)), NEW n \in 0..Len(rows)
  PROVE  /\ chain[n] \in Seq(RankedKeys) /\ Distinct(chain[n]) /\ InOrder(chain[n])
         /\ ToSet(chain[n]) = {rows[i] : i \in 1..n}
<1> DEFINE Good(list, m) == /\ list \in Seq(RankedKeys) /\ Distinct(list) /\ InOrder(list)
                            /\ ToSet(list) = {rows[i] : i \in 1..m}
           Bad == {m \in 0..Len(rows) : ~Good(chain[m], m)}
<1>0. /\ Len(rows) \in Nat /\ DOMAIN rows = 1..Len(rows)
      /\ \A i \in 1..Len(rows) : rows[i] \in RankedKeys
  BY LenProperties
<1> SUFFICES ASSUME Bad # {} PROVE FALSE
  OBVIOUS
<1>1. PICK m \in Bad : \A other \in Bad : m <= other
  <2>1. Bad \in SUBSET Nat
    BY <1>0
  <2> HIDE DEF Bad
  <2>2. QED
    BY <2>1, LeastNat
<1>2. CASE m = 0
  <2>1. chain[m] = <<>>
    BY <1>0, <1>2 DEF InsertedAfter
  <2>2. <<>> \in Seq(RankedKeys) /\ DOMAIN <<>> = {} /\ ToSet(<<>>) = {}
    BY EmptySeq, LenProperties DEF ToSet
  <2>3. Good(<<>>, 0)
    BY <2>2 DEF Distinct, InOrder
  <2>4. QED
    BY <1>1, <1>2, <2>1, <2>3
<1>3. CASE m # 0
  <2>1. /\ m \in 1..Len(rows) /\ m - 1 \in 0..Len(rows) /\ m - 1 < m
        /\ \A i \in 1..m : i \in 1..Len(rows)
    BY <1>0, <1>3
  <2>2. m - 1 \notin Bad
    <3>1. ~(m <= m - 1)
      BY <1>0, <2>1
    <3> HIDE DEF Bad
    <3>2. QED
      BY <1>1, <3>1
  <2>3. Good(chain[m - 1], m - 1)
    BY <2>1, <2>2
  <2>4. chain[m] = InsertByRank(chain[m - 1], rows[m])
    BY <1>0, <1>3, <2>1 DEF InsertedAfter
  <2>5. rows[m] \in RankedKeys /\ rows[m] \notin ToSet(chain[m - 1])
    <3>1. \A i \in 1..(m - 1) : rows[i] # rows[m]
      BY <1>0, <2>1 DEF Distinct
    <3>2. QED
      BY <1>0, <2>1, <2>3, <3>1
  <2> DEFINE before == chain[m - 1]
             after == InsertByRank(before, rows[m])
  <2>6. /\ after \in Seq(RankedKeys) /\ Distinct(after) /\ InOrder(after)
        /\ ToSet(after) = ToSet(before) \cup {rows[m]}
    BY <2>3, <2>5, InsertionSorts
  <2>7. {rows[i] : i \in 1..(m - 1)} \cup {rows[m]} = {rows[i] : i \in 1..m}
    <3>1. \A i : i \in 1..m <=> i \in 1..(m - 1) \/ i = m
      BY <1>0, <2>1
    <3>2. QED
      BY <3>1
  <2>8. Good(after, m)
    BY <2>3, <2>6, <2>7
  <2>9. QED
    BY <1>1, <2>4, <2>8
<1>4. QED
  BY <1>2, <1>3

\* The sort: the same rows, the best rank first.
LEMMA SortedFacts ==
  ASSUME NEW rows \in Seq(RankedKeys), Distinct(rows)
  PROVE  /\ Sorted(rows) \in Seq(RankedKeys) /\ Distinct(Sorted(rows)) /\ InOrder(Sorted(rows))
         /\ ToSet(Sorted(rows)) = ToSet(rows)
<1> DEFINE chain == CHOOSE f : InsertedAfter(rows, f, Len(rows))
<1>1. Len(rows) \in Nat /\ DOMAIN rows = 1..Len(rows)
  BY LenProperties
<1>2. InsertedAfter(rows, chain, Len(rows))
  BY <1>1, ChainExists
<1>3. Sorted(rows) = chain[Len(rows)]
  BY DEF Sorted, InsertedAfter
<1>4. Len(rows) \in 0..Len(rows)
  BY <1>1
<1> HIDE DEF chain
<1>5. /\ chain[Len(rows)] \in Seq(RankedKeys) /\ Distinct(chain[Len(rows)])
      /\ InOrder(chain[Len(rows)])
      /\ ToSet(chain[Len(rows)]) = {rows[i] : i \in 1..Len(rows)}
  BY <1>2, <1>4, ChainSorts
<1>6. ToSet(rows) = {rows[i] : i \in 1..Len(rows)}
  BY <1>1 DEF ToSet
<1>7. QED
  BY <1>3, <1>5, <1>6

-------------------------------------------------------------------------------
(* The cut *)

Precedes(list, first, second) ==
  \E i, j \in DOMAIN list : i <= j /\ list[i] = first /\ list[j] = second

\* Of a list without repetitions the cut keeps the first: what it leaves out comes
\* after everything it keeps, and it leaves out nothing unless it is full.
LEMMA CutKeepsFirst ==
  ASSUME NEW K, NEW list \in Seq(K), Distinct(list), NEW n \in Nat
  PROVE  /\ Cut(list, n) \in Seq(K) /\ Distinct(Cut(list, n))
         /\ Len(Cut(list, n)) \in 0..n
         /\ ToSet(Cut(list, n)) \subseteq ToSet(list)
         /\ \A k \in ToSet(list) \ ToSet(Cut(list, n)) :
              /\ Len(Cut(list, n)) = n
              /\ \A other \in ToSet(Cut(list, n)) : Precedes(list, other, k)
<1> DEFINE cut == Cut(list, n)
           m == Len(cut)
<1>1. /\ cut \in Seq(K) /\ m \in Nat /\ Len(list) \in Nat /\ m <= n /\ m <= Len(list)
      /\ Len(list) <= n => m = Len(list)
      /\ Len(list) > n => m = n
      /\ \A i \in 1..m : cut[i] = list[i]
  BY CutFacts
<1>2. DOMAIN list = 1..Len(list)
  BY LenProperties
<1>3. DOMAIN cut = 1..m
  BY <1>1, LenProperties
<1> HIDE DEF cut, m
<1>4. \A i \in 1..m : i \in 1..Len(list)
  BY <1>1
<1>5. Distinct(cut)
  BY <1>1, <1>2, <1>3, <1>4 DEF Distinct
<1>6. ToSet(cut) = {list[i] : i \in 1..m} /\ ToSet(list) = {list[i] : i \in 1..Len(list)}
  BY <1>1, <1>2, <1>3 DEF ToSet
<1>7. ToSet(cut) \subseteq ToSet(list)
  BY <1>4, <1>6
<1>8. ASSUME NEW k \in ToSet(list) \ ToSet(cut)
      PROVE  m = n /\ \A other \in ToSet(cut) : Precedes(list, other, k)
  <2>1. PICK j \in 1..Len(list) : list[j] = k
    BY <1>6
  <2>2. j \notin 1..m
    BY <1>6, <2>1
  <2>3. m < j /\ m # Len(list)
    BY <1>1, <2>1, <2>2
  <2>4. m = n
    BY <1>1, <2>3
  <2>5. ASSUME NEW other \in ToSet(cut)
        PROVE  Precedes(list, other, k)
    <3>1. PICK i \in 1..m : list[i] = other
      BY <1>6
    <3>2. i \in 1..Len(list) /\ i <= j
      BY <1>1, <2>3, <3>1
    <3>3. QED
      BY <1>2, <2>1, <3>1, <3>2 DEF Precedes
  <2>6. QED
    BY <2>4, <2>5
<1>9. m \in 0..n
  BY <1>1
<1>10. QED
  BY <1>1, <1>5, <1>7, <1>8, <1>9 DEF cut, m

\* The best rows: what is left out ranks no better than what is kept.
LEMMA BestFacts ==
  ASSUME NEW rows \in Seq(RankedKeys), Distinct(rows), NEW n \in Nat
  PROVE  /\ Best(rows, n) \in Seq(RankedKeys) /\ Distinct(Best(rows, n))
         /\ Len(Best(rows, n)) \in 0..n
         /\ ToSet(Best(rows, n)) \subseteq ToSet(rows)
         /\ \A k \in ToSet(rows) \ ToSet(Best(rows, n)) :
              /\ Len(Best(rows, n)) = n
              /\ \A other \in ToSet(Best(rows, n)) : hits[other].rank <= hits[k].rank
<1>1. PICK sorted \in Seq(RankedKeys) :
        sorted = Sorted(rows) /\ Distinct(sorted) /\ InOrder(sorted) /\ ToSet(sorted) = ToSet(rows)
  BY SortedFacts
<1> DEFINE best == Cut(sorted, n)
<1>2. /\ best \in Seq(RankedKeys) /\ Distinct(best) /\ Len(best) \in 0..n
      /\ ToSet(best) \subseteq ToSet(sorted)
  BY <1>1, CutKeepsFirst
<1>3. ASSUME NEW k \in ToSet(rows) \ ToSet(best)
      PROVE  Len(best) = n /\ \A other \in ToSet(best) : hits[other].rank <= hits[k].rank
  <2>1. k \in ToSet(sorted) \ ToSet(best)
    BY <1>1
  <2>2. Len(best) = n
    BY <1>1, <2>1, CutKeepsFirst
  <2>3. ASSUME NEW other \in ToSet(best) PROVE hits[other].rank <= hits[k].rank
    <3>1. Precedes(sorted, other, k)
      BY <1>1, <2>1, CutKeepsFirst
    <3>2. PICK i, j \in DOMAIN sorted : i <= j /\ sorted[i] = other /\ sorted[j] = k
      BY <3>1 DEF Precedes
    <3>3. QED
      BY <1>1, <3>2 DEF InOrder
  <2>4. QED
    BY <2>2, <2>3
<1>4. best = Best(rows, n)
  BY <1>1 DEF best, Best
<1>5. QED
  BY <1>1, <1>2, <1>3, <1>4

-------------------------------------------------------------------------------
(* Ranks *)

\* Of finitely many numbers one is the least.
LEMMA LeastRank ==
  ASSUME NEW S \in SUBSET Int, IsFiniteSet(S), S # {}
  PROVE  Min(S) \in S /\ \A r \in S : Min(S) <= r
<1> DEFINE n == Cardinality(S)
<1>1. n \in Nat /\ n # 0
  BY FS_CardinalityType, FS_EmptySet
<1>2. PICK f \in Bijection(1..n, S) : TRUE
  BY FS_CardinalityType DEF ExistsBijection
<1>3. f \in [1..n -> S] /\ \A r \in S : \E i \in 1..n : f[i] = r
  BY <1>2 DEF Bijection, Injection, Surjection
<1> HIDE DEF n
<1>4. \A j \in 1..n : f[j] \in Int
  BY <1>3
<1> DEFINE LeastOf(i, m) == i \in 1..m /\ \A j \in 1..m : f[i] <= f[j]
           Bad == {m \in 1..n : ~\E i : LeastOf(i, m)}
<1>5. Bad \in SUBSET Nat /\ \A m \in 1..n : m \notin Bad => \E i : LeastOf(i, m)
  OBVIOUS
<1>6. \A m \in Bad : m \in 1..n /\ ~\E i : LeastOf(i, m)
  OBVIOUS
<1> HIDE DEF Bad
<1>7. ASSUME NEW m \in 1..n, NEW i, LeastOf(i, m - 1), m - 1 \in 1..n
      PROVE  \E least : LeastOf(least, m)
  <2>1. i \in 1..m /\ i \in 1..n /\ m \in 1..m /\ \A j \in 1..m : j \in 1..(m - 1) \/ j = m
    BY <1>1, <1>7
  <2>2. f[i] \in Int /\ f[m] \in Int
    BY <1>4, <2>1
  <2>3. CASE f[i] <= f[m]
    BY <1>7, <2>1, <2>3
  <2>4. CASE f[m] < f[i]
    <3>1. ASSUME NEW j \in 1..m PROVE f[m] <= f[j]
      <4>1. CASE j = m
        BY <2>2, <4>1
      <4>2. CASE j \in 1..(m - 1)
        <5>1. f[i] <= f[j] /\ f[j] \in Int
          BY <1>1, <1>4, <1>7, <4>2
        <5>2. QED
          BY <2>2, <2>4, <5>1
      <4>3. QED
        BY <2>1, <4>1, <4>2
    <3>2. QED
      BY <2>1, <3>1
  <2>5. QED
    BY <2>2, <2>3, <2>4
<1>8. \E i \in 1..n : \A j \in 1..n : f[i] <= f[j]
  <2>1. SUFFICES Bad = {}
    <3>1. n \in 1..n
      BY <1>1
    <3>2. QED
      BY <1>5, <2>1, <3>1
  <2>2. SUFFICES ASSUME Bad # {} PROVE FALSE
    OBVIOUS
  <2>3. PICK m \in Bad : \A other \in Bad : m <= other
    BY <1>5, <2>2, LeastNat
  <2>4. CASE m = 1
    <3>1. f[1] \in Int /\ m \in 1..n
      BY <1>4, <1>6, <2>4
    <3>2. LeastOf(1, m)
      BY <2>4, <3>1
    <3>3. QED
      BY <1>6, <3>2
  <2>5. CASE m # 1
    <3>1. m \in 1..n /\ m - 1 \in 1..n /\ ~(m <= m - 1)
      BY <1>1, <1>6, <2>5
    <3>2. \E i : LeastOf(i, m - 1)
      BY <1>5, <2>3, <3>1
    <3> HIDE DEF LeastOf
    <3>3. QED
      BY <1>6, <1>7, <3>1, <3>2
  <2>6. QED
    BY <2>4, <2>5
<1>9. \E x \in S : \A y \in S : x <= y
  <2>1. PICK i \in 1..n : \A j \in 1..n : f[i] <= f[j]
    BY <1>8
  <2>2. f[i] \in S
    BY <1>3, <2>1
  <2>3. ASSUME NEW y \in S PROVE f[i] <= y
    <3>1. PICK j \in 1..n : f[j] = y
      BY <1>3
    <3>2. QED
      BY <2>1, <3>1
  <2>4. QED
    BY <2>2, <2>3
<1>10. QED
  BY <1>9 DEF Min

-------------------------------------------------------------------------------
(* The invariant *)

\* Results come with the last query, and hits with a search that has a query; a
\* search with a query goes on to the rows of its hits only.
QueriesInOrder ==
  /\ step # "complete" => results = <<>>
  /\ ~params.query => DOMAIN hits = {}
  /\ step \in {"titles", "comments"} => params.query
  /\ step = "rows" /\ params.query => DOMAIN hits # {}

\* What the title index said of a ticket that nobody touched is still so.
TitlesSeen ==
  /\ step = "comments" =>
       \A k \in DOMAIN tickets \ touched : k \in DOMAIN hits <=> TitleMatches(k)
  /\ step \in {"rows", "complete"} /\ params.query =>
       \A k \in DOMAIN tickets \ touched : (k \in DOMAIN hits /\ hits[k].title) <=> TitleMatches(k)

\* The comment index saw all comments there were at the start, and the comments it
\* gave hits for are still there.
BodiesSeen ==
  step \in {"rows", "complete"} /\ params.query =>
    /\ \A k \in Discussed : k \in DOMAIN hits /\ hits[k].body
    /\ \A k \in DOMAIN hits : hits[k].body =>
         \E i \in DOMAIN comments \cap MatchingComments : comments[i].ticket = k

\* What is listed passed the filters, and has hits if there is a query.
ListedPass ==
  Complete => /\ \A k \in Listed \ touched : PassesFilters(k)
              /\ params.query => Listed \subseteq DOMAIN hits

SearchInv ==
  /\ IInv
  /\ SearchTypeOK
  /\ QueriesInOrder
  /\ TitlesSeen
  /\ BodiesSeen
  /\ ListedPass
  /\ SettledMatchesFound

LEMMA ParamsFacts ==
  ASSUME params \in Params \cup {NoParams}
  PROVE  params.query \in BOOLEAN /\ EffectiveLimit(params.limit) \in 1..MaxLimit
<1>1. params.query \in BOOLEAN /\ params.limit \in Int
  <2>1. CASE params \in Params
    BY <2>1, SearchConstants DEF Params
  <2>2. CASE params = NoParams
    BY <2>2 DEF NoParams
  <2>3. QED
    BY <2>1, <2>2
<1>2. QED
  BY <1>1, SearchConstants DEF EffectiveLimit

LEMMA SearchInitEstablishes == SearchInit => SearchInv
<1> SUFFICES ASSUME SearchInit PROVE SearchInv
  OBVIOUS
<1>1. IInv
  BY InitEstablishes DEF SearchInit
<1>2. comments = <<>> /\ tickets = [k \in {} |-> {}] /\ Len(comments) = 0
  BY DEF SearchInit, Init
<1>3. /\ step = "idle" /\ params = NoParams /\ hits = NoHits /\ results = <<>>
      /\ commentsThen = 0 /\ touched = {}
  BY DEF SearchInit
<1>4. DOMAIN hits = {} /\ ~params.query
  BY <1>3 DEF NoHits, NoParams
<1>5. Listed = {} /\ Len(results) = 0 /\ Cardinality(Listed) = 0
  BY <1>3, FS_EmptySet DEF Listed, ToSet
<1>6. SearchTypeOK
  <2>1. hits \in [DOMAIN hits -> [title : BOOLEAN, body : BOOLEAN, rank : Ranks]]
    BY <1>3 DEF NoHits
  <2>2. 0 <= MaxLimit /\ commentsThen \in 0..Len(comments)
    BY <1>2, <1>3, SearchConstants
  <2>3. QED
    BY <1>3, <1>4, <1>5, <2>1, <2>2 DEF SearchTypeOK
<1>7. QED
  BY <1>1, <1>3, <1>4, <1>6 DEF SearchInv, QueriesInOrder, TitlesSeen, BodiesSeen, ListedPass,
     SettledMatchesFound, Complete

-------------------------------------------------------------------------------
(* The store beneath a search *)

LEMMA RememberedStep ==
  ASSUME SearchInv, StoreStep
  PROVE  /\ IInv /\ IInv' /\ Next
         /\ DOMAIN tickets \subseteq DOMAIN tickets'
         /\ touched \subseteq touched' /\ touched' \subseteq DOMAIN tickets'
         /\ UNCHANGED <<step, params, hits, results, commentsThen>>
         /\ step # "idle" => \A k \in DOMAIN tickets' \ touched' :
              /\ k \in DOMAIN tickets \ touched
              /\ tickets'[k].title = tickets[k].title
              /\ tickets'[k].status = tickets[k].status
              /\ tickets'[k].project = tickets[k].project
<1>1. IInv /\ Next /\ IInv'
  BY StepPreserves DEF SearchInv, StoreStep
<1>2. DOMAIN tickets \subseteq DOMAIN tickets'
  BY <1>1, StepGrows
<1>3. \A k \in DOMAIN tickets : tickets'[k].project = tickets[k].project
  BY <1>1, ColumnSteps
<1>4. touched \subseteq DOMAIN tickets
  BY DEF SearchInv, SearchTypeOK
<1>5. UNCHANGED <<step, params, hits, results, commentsThen>>
  BY DEF StoreStep, readerVars
<1>6. CASE step = "idle"
  BY <1>1, <1>2, <1>3, <1>4, <1>5, <1>6 DEF StoreStep
<1>7. CASE step # "idle"
  BY <1>1, <1>2, <1>3, <1>4, <1>5, <1>7 DEF StoreStep
<1>8. QED
  BY <1>6, <1>7

LEMMA StoreStepPreserves ==
  ASSUME SearchInv, StoreStep
  PROVE  SearchInv'
<1>1. /\ IInv /\ IInv' /\ Next /\ DOMAIN tickets \subseteq DOMAIN tickets'
      /\ touched \subseteq touched' /\ touched' \subseteq DOMAIN tickets'
      /\ UNCHANGED <<step, params, hits, results, commentsThen>>
  BY RememberedStep
<1>2. /\ Len(comments) \in Nat /\ Len(comments') \in Nat /\ Len(comments) <= Len(comments')
      /\ DOMAIN comments = 1..Len(comments) /\ DOMAIN comments' = 1..Len(comments')
      /\ \A i \in DOMAIN comments : comments'[i] = comments[i]
  BY <1>1, StepGrows
<1>3. commentsThen \in 0..Len(comments)
  BY DEF SearchInv, SearchTypeOK
<1>4. Discussed' = Discussed
  <2>1. \A i \in 1..commentsThen : comments'[i] = comments[i]
    BY <1>2, <1>3
  <2>2. QED
    BY <1>1, <2>1 DEF Discussed
<1>5. Listed' = Listed /\ (Complete' <=> Complete)
  BY <1>1 DEF Listed, Complete
<1>6. ASSUME step # "idle", NEW k \in DOMAIN tickets' \ touched'
      PROVE  /\ k \in DOMAIN tickets \ touched
             /\ TitleMatches(k)' <=> TitleMatches(k)
             /\ PassesFilters(k)' <=> PassesFilters(k)
  <2>1. /\ k \in DOMAIN tickets \ touched
        /\ tickets'[k].title = tickets[k].title /\ tickets'[k].status = tickets[k].status
        /\ tickets'[k].project = tickets[k].project
    BY <1>6, RememberedStep
  <2>2. QED
    BY <1>1, <2>1 DEF TitleMatches, PassesFilters
<1>7. SearchTypeOK'
  <2>1. commentsThen' \in 0..Len(comments')
    BY <1>1, <1>2, <1>3
  <2>2. DOMAIN hits' \cup touched' \subseteq DOMAIN tickets' /\ Listed' \subseteq DOMAIN tickets'
    BY <1>1, <1>5 DEF SearchInv, SearchTypeOK
  <2>3. QED
    BY <1>1, <1>5, <2>1, <2>2 DEF SearchInv, SearchTypeOK
<1>8. QueriesInOrder'
  BY <1>1 DEF SearchInv, QueriesInOrder
<1>9. TitlesSeen'
  BY <1>1, <1>6 DEF SearchInv, TitlesSeen
<1>10. BodiesSeen'
  <2>1. DOMAIN comments \subseteq DOMAIN comments'
    BY <1>2
  <2>2. QED
    BY <1>1, <1>2, <1>4, <2>1 DEF SearchInv, BodiesSeen
<1>11. ListedPass'
  <2>1. Listed \subseteq DOMAIN tickets
    BY DEF SearchInv, SearchTypeOK
  <2>2. QED
    BY <1>1, <1>5, <1>6, <2>1 DEF SearchInv, ListedPass, Complete
<1>12. SettledMatchesFound'
  <2> SUFFICES ASSUME Complete, NEW k \in DOMAIN tickets' \ touched',
                      PassesFilters(k)', params.query => TitleMatches(k)' \/ k \in Discussed
               PROVE  \/ k \in Listed
                      \/ /\ Len(results) = EffectiveLimit(params.limit)
                         /\ params.query => \A other \in Listed : hits[other].rank <= hits[k].rank
    BY <1>1, <1>4, <1>5 DEF SettledMatchesFound, EffectiveLimit
  <2>1. /\ k \in DOMAIN tickets \ touched /\ PassesFilters(k)
        /\ params.query => TitleMatches(k) \/ k \in Discussed
    BY <1>6 DEF Complete
  <2>2. QED
    BY <2>1 DEF SearchInv, SettledMatchesFound
<1>13. QED
  BY <1>1, <1>7, <1>8, <1>9, <1>10, <1>11, <1>12 DEF SearchInv

-------------------------------------------------------------------------------
(* The queries *)

\* A query changes nothing in the store.
LEMMA QueryLeavesStore ==
  ASSUME SearchInv, UNCHANGED vars
  PROVE  /\ IInv /\ IInv'
         /\ UNCHANGED <<tickets, counters, links, comments, now>>
         /\ Len(comments) \in Nat /\ DOMAIN comments = 1..Len(comments)
         /\ touched \subseteq DOMAIN tickets /\ commentsThen \in 0..Len(comments)
<1>1. IInv /\ IInv'
  BY StepPreserves DEF SearchInv
<1>2. comments \in Seq([ticket : Keys, at : 0..MaxTime])
  BY <1>1 DEF IInv, TypeOK
<1>3. QED
  BY <1>1, <1>2, LenProperties DEF vars, SearchInv, SearchTypeOK

\* Between searches, and until the last query, nothing is listed.
LEMMA NothingListed ==
  /\ ToSet(<<>>) = {} /\ Len(<<>>) = 0
  /\ Cardinality({}) = 0 /\ 0 <= MaxLimit
BY FS_EmptySet, SearchConstants DEF ToSet

LEMMA StartPreserves ==
  ASSUME SearchInv, NEW p \in Params, StartSearch(p)
  PROVE  SearchInv'
<1>1. /\ IInv /\ IInv' /\ tickets' = tickets /\ comments' = comments
      /\ Len(comments) \in Nat
  BY QueryLeavesStore DEF StartSearch
<1>2. /\ params' = p /\ step' = (IF p.query THEN "titles" ELSE "rows")
      /\ hits' = NoHits /\ results' = <<>> /\ commentsThen' = Len(comments) /\ touched' = {}
  BY DEF StartSearch
<1>3. DOMAIN hits' = {} /\ p.query \in BOOLEAN
  BY <1>2 DEF NoHits, Params
<1>4. Listed' = {} /\ Len(results') = Cardinality(Listed') /\ Len(results') <= MaxLimit
  BY <1>2, NothingListed DEF Listed
<1>5. SearchTypeOK'
  <2>1. hits' \in [DOMAIN hits' -> [title : BOOLEAN, body : BOOLEAN, rank : Ranks]]
    BY <1>2 DEF NoHits
  <2>2. commentsThen' \in 0..Len(comments') /\ params' \in Params
    BY <1>1, <1>2
  <2>3. QED
    BY <1>2, <1>3, <1>4, <2>1, <2>2 DEF SearchTypeOK
<1>6. QED
  BY <1>1, <1>2, <1>3, <1>5 DEF SearchInv, QueriesInOrder, TitlesSeen, BodiesSeen, ListedPass,
     SettledMatchesFound, Complete

LEMMA EndPreserves ==
  ASSUME SearchInv, EndSearch
  PROVE  SearchInv'
<1>1. /\ IInv /\ IInv' /\ tickets' = tickets /\ comments' = comments
      /\ Len(comments) \in Nat
  BY QueryLeavesStore DEF EndSearch
<1>2. /\ params' = NoParams /\ step' = "idle" /\ hits' = NoHits /\ results' = <<>>
      /\ commentsThen' = 0 /\ touched' = {}
  BY DEF EndSearch
<1>3. DOMAIN hits' = {} /\ ~params'.query
  BY <1>2 DEF NoHits, NoParams
<1>4. Listed' = {} /\ Len(results') = Cardinality(Listed') /\ Len(results') <= MaxLimit
  BY <1>2, NothingListed DEF Listed
<1>5. SearchTypeOK'
  <2>1. hits' \in [DOMAIN hits' -> [title : BOOLEAN, body : BOOLEAN, rank : Ranks]]
    BY <1>2 DEF NoHits
  <2>2. commentsThen' \in 0..Len(comments')
    BY <1>1, <1>2
  <2>3. QED
    BY <1>2, <1>3, <1>4, <2>1, <2>2 DEF SearchTypeOK
<1>6. QED
  BY <1>1, <1>2, <1>3, <1>5 DEF SearchInv, QueriesInOrder, TitlesSeen, BodiesSeen, ListedPass,
     SettledMatchesFound, Complete

LEMMA TitlesPreserve ==
  ASSUME SearchInv, QueryTitles
  PROVE  SearchInv'
<1> DEFINE found == {k \in DOMAIN tickets : TitleMatches(k)}
<1>1. /\ IInv /\ IInv' /\ tickets' = tickets /\ comments' = comments
  BY QueryLeavesStore DEF QueryTitles
<1>2. /\ step = "titles" /\ step' = "comments" /\ params' = params /\ results' = results
      /\ touched' = touched /\ commentsThen' = commentsThen
  BY DEF QueryTitles, memory
<1>3. PICK rank \in [found -> Ranks] :
        hits' = [k \in found |-> [title |-> TRUE, body |-> FALSE, rank |-> rank[k]]]
  BY DEF QueryTitles
<1>4. DOMAIN hits' = found
  BY <1>3
<1>5. hits' \in [DOMAIN hits' -> [title : BOOLEAN, body : BOOLEAN, rank : Ranks]]
  BY <1>3, <1>4
<1>6. results = <<>> /\ params.query
  BY <1>2 DEF SearchInv, QueriesInOrder
<1>7. Listed' = Listed
  BY <1>2 DEF Listed
<1>8. SearchTypeOK'
  <2>1. DOMAIN hits' \cup touched' \subseteq DOMAIN tickets'
    BY <1>1, <1>2, <1>4 DEF SearchInv, SearchTypeOK
  <2>2. QED
    BY <1>1, <1>2, <1>5, <1>7, <2>1 DEF SearchInv, SearchTypeOK
<1>9. TitlesSeen'
  BY <1>1, <1>2, <1>4 DEF TitlesSeen, TitleMatches
<1>10. QED
  BY <1>1, <1>2, <1>6, <1>8, <1>9 DEF SearchInv, QueriesInOrder, BodiesSeen, ListedPass,
     SettledMatchesFound, Complete

\* The hits of both indexes, merged: a ticket has the best of its ranks.
LEMMA MergeFacts ==
  ASSUME SearchInv, UNCHANGED vars,
         NEW rank \in [{i \in DOMAIN comments : i \in MatchingComments} -> Ranks]
  PROVE  LET found  == {i \in DOMAIN comments : i \in MatchingComments}
             byBody == {comments[i].ticket : i \in found}
             merged == MergeHits(found, rank)
         IN  /\ merged \in [DOMAIN hits \cup byBody -> [title : BOOLEAN, body : BOOLEAN, rank : Ranks]]
             /\ \A k \in DOMAIN hits \cup byBody :
                  (merged[k].title <=> k \in DOMAIN hits) /\ (merged[k].body <=> k \in byBody)
<1> DEFINE found == {i \in DOMAIN comments : i \in MatchingComments}
           byBody == {comments[i].ticket : i \in found}
           own(k) == {i \in found : comments[i].ticket = k}
           ranks(k) == {rank[i] : i \in own(k)} \cup {hits[j].rank : j \in DOMAIN hits \cap {k}}
           merged == MergeHits(found, rank)
           all == DOMAIN hits \cup byBody
<1>1. DOMAIN comments = 1..Len(comments) /\ Len(comments) \in Nat
  BY QueryLeavesStore
<1>2. hits \in [DOMAIN hits -> [title : BOOLEAN, body : BOOLEAN, rank : Ranks]]
  BY DEF SearchInv, SearchTypeOK
<1>3. merged = [k \in all |->
        [title |-> k \in DOMAIN hits, body |-> k \in byBody, rank |-> Min(ranks(k))]]
  BY DEF MergeHits
<1>4. ASSUME NEW k \in all PROVE Min(ranks(k)) \in Ranks
  <2> DEFINE bodies == {rank[i] : i \in own(k)}
             titles == {hits[j].rank : j \in DOMAIN hits \cap {k}}
  <2>1. IsFiniteSet(bodies)
    <3>1. own(k) \in SUBSET (1..Len(comments))
      BY <1>1
    <3>2. IsFiniteSet(own(k))
      <4>1. IsFiniteSet(1..Len(comments))
        BY <1>1, FS_Interval
      <4> HIDE DEF own, found
      <4>2. QED
        BY <3>1, <4>1, FS_Subset
    <3>3. [i \in own(k) |-> rank[i]] \in Surjection(own(k), bodies)
      BY DEF Surjection
    <3> HIDE DEF own, bodies
    <3>4. QED
      BY <3>2, <3>3, FS_Surjection
  <2>2. IsFiniteSet(titles)
    <3>1. titles = {} \/ titles = {hits[k].rank}
      OBVIOUS
    <3>2. IsFiniteSet({}) /\ IsFiniteSet({hits[k].rank})
      BY FS_EmptySet, FS_Singleton
    <3> HIDE DEF titles
    <3>3. QED
      BY <3>1, <3>2
  <2>3. bodies \subseteq Ranks /\ titles \subseteq Ranks
    BY <1>2
  <2>4. bodies # {} \/ titles # {}
    <3>1. CASE k \in DOMAIN hits
      BY <3>1
    <3>2. CASE k \in byBody
      <4>1. PICK i \in found : comments[i].ticket = k
        BY <3>2
      <4>2. i \in own(k)
        BY <4>1
      <4>3. QED
        BY <4>2
    <3>3. QED
      BY <3>1, <3>2
  <2>5. ranks(k) = bodies \cup titles
    OBVIOUS
  <2> HIDE DEF bodies, titles, ranks
  <2>6. /\ IsFiniteSet(ranks(k)) /\ ranks(k) # {}
        /\ ranks(k) \subseteq Ranks /\ ranks(k) \in SUBSET Int
    BY <2>1, <2>2, <2>3, <2>4, <2>5, FS_Union, SearchConstants
  <2>7. QED
    BY <2>6, LeastRank
<1> HIDE DEF found, byBody, own, ranks, merged
<1>5. merged \in [all -> [title : BOOLEAN, body : BOOLEAN, rank : Ranks]]
  BY <1>3, <1>4
<1>6. \A k \in all : (merged[k].title <=> k \in DOMAIN hits) /\ (merged[k].body <=> k \in byBody)
  BY <1>3
<1>7. QED
  BY <1>5, <1>6 DEF found, byBody, merged

LEMMA CommentsPreserve ==
  ASSUME SearchInv, QueryComments
  PROVE  SearchInv'
<1> DEFINE found == {i \in DOMAIN comments : i \in MatchingComments}
           byBody == {comments[i].ticket : i \in found}
<1>1. /\ IInv /\ IInv' /\ tickets' = tickets /\ comments' = comments
      /\ DOMAIN comments = 1..Len(comments) /\ Len(comments) \in Nat
      /\ commentsThen \in 0..Len(comments)
  BY QueryLeavesStore DEF QueryComments
<1>2. /\ step = "comments" /\ params' = params /\ results' = results
      /\ touched' = touched /\ commentsThen' = commentsThen /\ UNCHANGED vars
  BY DEF QueryComments, memory
<1>3. PICK rank \in [found -> Ranks] :
        hits' = MergeHits(found, rank) /\ step' = NextStep(MergeHits(found, rank))
  BY DEF QueryComments
<1>4. /\ hits' \in [DOMAIN hits \cup byBody -> [title : BOOLEAN, body : BOOLEAN, rank : Ranks]]
      /\ \A k \in DOMAIN hits \cup byBody :
           (hits'[k].title <=> k \in DOMAIN hits) /\ (hits'[k].body <=> k \in byBody)
  BY <1>2, <1>3, MergeFacts
<1>5. step' = (IF DOMAIN hits' = {} THEN "complete" ELSE "rows")
  BY <1>3 DEF NextStep
<1>6. \A k \in byBody : \E i \in DOMAIN comments \cap MatchingComments : comments[i].ticket = k
  OBVIOUS
<1>7. Discussed' = Discussed /\ Discussed \subseteq byBody
  BY <1>1, <1>2 DEF Discussed
<1>8. byBody \subseteq DOMAIN tickets
  BY <1>1 DEF IInv, WorklogChronological
<1> HIDE DEF byBody, found
<1>9. DOMAIN hits' = DOMAIN hits \cup byBody
  BY <1>4
<1>10. results = <<>> /\ params.query /\ Listed' = {}
  BY <1>2, NothingListed DEF SearchInv, QueriesInOrder, Listed
<1>11. SearchTypeOK'
  <2>1. DOMAIN hits' \cup touched' \subseteq DOMAIN tickets'
    BY <1>1, <1>2, <1>8, <1>9 DEF SearchInv, SearchTypeOK
  <2>2. hits' \in [DOMAIN hits' -> [title : BOOLEAN, body : BOOLEAN, rank : Ranks]]
    BY <1>4, <1>9
  <2>3. Len(results') = Cardinality(Listed') /\ Len(results') <= MaxLimit
    BY <1>2, <1>10, NothingListed
  <2>4. QED
    BY <1>1, <1>2, <1>5, <1>10, <2>1, <2>2, <2>3 DEF SearchInv, SearchTypeOK
<1>12. QueriesInOrder'
  BY <1>2, <1>5, <1>10 DEF QueriesInOrder
<1>13. TitlesSeen'
  <2>1. \A k \in DOMAIN tickets \ touched : k \in DOMAIN hits <=> TitleMatches(k)
    BY <1>2 DEF SearchInv, TitlesSeen
  <2>2. \A k \in DOMAIN tickets \ touched :
          (k \in DOMAIN hits' /\ hits'[k].title) <=> TitleMatches(k)
    BY <1>4, <1>9, <2>1
  <2>3. QED
    BY <1>1, <1>2, <1>5, <2>2 DEF TitlesSeen, TitleMatches
<1>14. BodiesSeen'
  BY <1>1, <1>2, <1>4, <1>6, <1>7, <1>9 DEF BodiesSeen
<1>15. ListedPass'
  BY <1>10 DEF ListedPass
<1>16. SettledMatchesFound'
  <2> SUFFICES ASSUME DOMAIN hits' = {}, NEW k \in DOMAIN tickets \ touched,
                      TitleMatches(k) \/ k \in Discussed
               PROVE  FALSE
    BY <1>1, <1>2, <1>5, <1>7, <1>10 DEF SettledMatchesFound, Complete, TitleMatches
  <2>1. k \in DOMAIN hits \/ k \in byBody
    BY <1>2, <1>7 DEF SearchInv, TitlesSeen
  <2>2. QED
    BY <1>9, <2>1
<1>17. QED
  BY <1>1, <1>11, <1>12, <1>13, <1>14, <1>15, <1>16 DEF SearchInv

\* The last query lists tickets that pass the filters and that the indexes had hits
\* for; one that does and is not listed ranks no better than those that are.
LEMMA RowsFacts ==
  ASSUME SearchInv, QueryRows
  PROVE  LET limit == EffectiveLimit(params.limit)
             found == {k \in DOMAIN tickets : DOMAIN hits # {} => k \in DOMAIN hits}
         IN  /\ limit \in 1..MaxLimit
             /\ Len(results') \in 0..limit /\ Len(results') = Cardinality(Listed')
             /\ Listed' \subseteq {k \in found : PassesFilters(k)}
             /\ \A k \in {kk \in found : PassesFilters(kk)} \ Listed' :
                  /\ Len(results') = limit
                  /\ DOMAIN hits # {} =>
                       \A other \in Listed' : hits[other].rank <= hits[k].rank
<1> DEFINE limit == EffectiveLimit(params.limit)
           found == {k \in DOMAIN tickets : DOMAIN hits # {} => k \in DOMAIN hits}
           passing == {k \in found : PassesFilters(k)}
<1>1. limit \in 1..MaxLimit /\ limit \in Nat
  BY ParamsFacts, SearchConstants DEF SearchInv, SearchTypeOK
<1>2. IsFiniteSet(passing)
  <2>1. passing \in SUBSET DOMAIN tickets
    OBVIOUS
  <2> HIDE DEF passing
  <2>2. QED
    BY <2>1, TicketsFinite DEF SearchInv
<1>3. PICK rows \in SetToSeqs(passing) :
        results' = IF DOMAIN hits = {} THEN Cut(rows, limit) ELSE Best(rows, limit)
  BY DEF QueryRows
<1>4. DOMAIN hits # {} => passing \subseteq RankedKeys
  <2>1. \A k \in DOMAIN hits : hits[k].rank \in Int
    BY SearchConstants DEF SearchInv, SearchTypeOK
  <2>2. QED
    BY <2>1 DEF RankedKeys
<1> HIDE DEF passing, limit
<1>5. rows \in Seq(passing) /\ Distinct(rows) /\ ToSet(rows) = passing
  BY <1>2, <1>3, RowOrders
<1>6. Listed' = ToSet(results')
  BY DEF Listed
<1>7. CASE DOMAIN hits = {}
  <2>1. results' = Cut(rows, limit)
    BY <1>3, <1>7
  <2>2. results' \in Seq(passing) /\ Distinct(results')
    BY <1>1, <1>5, <2>1, CutKeepsFirst
  <2>3. Len(results') \in 0..limit /\ ToSet(results') \subseteq passing
    BY <1>1, <1>5, <2>1, CutKeepsFirst
  <2>4. \A k \in passing \ ToSet(results') : Len(results') = limit
    BY <1>1, <1>5, <2>1, CutKeepsFirst
  <2>5. Len(results') = Cardinality(ToSet(results'))
    BY <2>2, DistinctLength
  <2>6. QED
    BY <1>1, <1>6, <1>7, <2>3, <2>4, <2>5 DEF passing, limit
<1>8. CASE DOMAIN hits # {}
  <2>1. results' = Best(rows, limit)
    BY <1>3, <1>8
  <2>2. rows \in Seq(RankedKeys)
    BY <1>4, <1>5, <1>8, SeqMonotonic
  <2>3. results' \in Seq(RankedKeys) /\ Distinct(results')
    BY <1>1, <1>5, <2>1, <2>2, BestFacts
  <2>4. Len(results') \in 0..limit /\ ToSet(results') \subseteq passing
    BY <1>1, <1>5, <2>1, <2>2, BestFacts
  <2>5. \A k \in passing \ ToSet(results') :
          /\ Len(results') = limit
          /\ \A other \in ToSet(results') : hits[other].rank <= hits[k].rank
    BY <1>1, <1>5, <2>1, <2>2, BestFacts
  <2>6. Len(results') = Cardinality(ToSet(results'))
    BY <2>3, DistinctLength
  <2>7. QED
    BY <1>1, <1>6, <1>8, <2>4, <2>5, <2>6 DEF passing, limit
<1>9. QED
  BY <1>7, <1>8

LEMMA RowsPreserve ==
  ASSUME SearchInv, QueryRows
  PROVE  SearchInv'
<1> DEFINE limit == EffectiveLimit(params.limit)
           found == {k \in DOMAIN tickets : DOMAIN hits # {} => k \in DOMAIN hits}
           passing == {k \in found : PassesFilters(k)}
<1>1. /\ IInv /\ IInv' /\ tickets' = tickets /\ comments' = comments
  BY QueryLeavesStore DEF QueryRows
<1>2. /\ step = "rows" /\ step' = "complete" /\ params' = params /\ hits' = hits
      /\ touched' = touched /\ commentsThen' = commentsThen
  BY DEF QueryRows, memory
<1>3. /\ limit \in 1..MaxLimit
      /\ Len(results') \in 0..limit /\ Len(results') = Cardinality(Listed')
      /\ Listed' \subseteq passing
      /\ \A k \in passing \ Listed' :
           /\ Len(results') = limit
           /\ DOMAIN hits # {} => \A other \in Listed' : hits[other].rank <= hits[k].rank
  BY RowsFacts
<1>4. params.query \in BOOLEAN /\ (params.query <=> DOMAIN hits # {})
  BY <1>2, ParamsFacts DEF SearchInv, SearchTypeOK, QueriesInOrder
<1>5. /\ passing \subseteq DOMAIN tickets /\ (params.query => passing \subseteq DOMAIN hits)
      /\ \A k \in passing : PassesFilters(k)
  BY <1>4
<1>6. ASSUME NEW k \in DOMAIN tickets \ touched, PassesFilters(k),
             params.query => TitleMatches(k) \/ k \in Discussed
      PROVE  k \in passing
  <2>1. params.query => k \in DOMAIN hits
    BY <1>2, <1>6 DEF SearchInv, TitlesSeen, BodiesSeen
  <2>2. QED
    BY <1>4, <1>6, <2>1
<1> HIDE DEF limit, found, passing
<1>7. \A k : PassesFilters(k)' <=> PassesFilters(k)
  BY <1>1, <1>2 DEF PassesFilters
<1>8. \A k : TitleMatches(k)' <=> TitleMatches(k)
  BY <1>1 DEF TitleMatches
<1>9. Discussed' = Discussed
  BY <1>1, <1>2 DEF Discussed
<1>10. SearchTypeOK'
  <2>1. Listed' \subseteq DOMAIN tickets' /\ Len(results') <= MaxLimit
    BY <1>1, <1>3, <1>5, SearchConstants
  <2>2. QED
    BY <1>1, <1>2, <1>3, <2>1 DEF SearchInv, SearchTypeOK
<1>11. QueriesInOrder'
  BY <1>2 DEF SearchInv, QueriesInOrder
<1>12. TitlesSeen'
  BY <1>1, <1>2, <1>8 DEF SearchInv, TitlesSeen
<1>13. BodiesSeen'
  BY <1>1, <1>2, <1>9 DEF SearchInv, BodiesSeen
<1>14. ListedPass'
  BY <1>2, <1>3, <1>5, <1>7 DEF ListedPass
<1>15. SettledMatchesFound'
  <2> SUFFICES ASSUME NEW k \in DOMAIN tickets \ touched, PassesFilters(k),
                      params.query => TitleMatches(k) \/ k \in Discussed
               PROVE  \/ k \in Listed'
                      \/ /\ Len(results') = limit
                         /\ params.query =>
                              \A other \in Listed' : hits[other].rank <= hits[k].rank
    BY <1>1, <1>2, <1>7, <1>8, <1>9 DEF SettledMatchesFound, EffectiveLimit, limit
  <2>1. k \in passing
    BY <1>6
  <2>2. QED
    BY <1>3, <1>4, <2>1
<1>16. QED
  BY <1>1, <1>10, <1>11, <1>12, <1>13, <1>14, <1>15 DEF SearchInv

-------------------------------------------------------------------------------
(* The theorems *)

LEMMA SearchStepPreserves == SearchInv /\ [SearchNext]_searchVars => SearchInv'
<1> SUFFICES ASSUME SearchInv, [SearchNext]_searchVars PROVE SearchInv'
  OBVIOUS
<1>1. CASE StoreStep
  BY <1>1, StoreStepPreserves
<1>2. ASSUME NEW p \in Params, StartSearch(p) PROVE SearchInv'
  BY <1>2, StartPreserves
<1>3. CASE QueryTitles
  BY <1>3, TitlesPreserve
<1>4. CASE QueryComments
  BY <1>4, CommentsPreserve
<1>5. CASE QueryRows
  BY <1>5, RowsPreserve
<1>6. CASE EndSearch
  BY <1>6, EndPreserves
<1>7. CASE UNCHANGED searchVars
  BY <1>7 DEF searchVars, vars, readerVars, memory, SearchInv, IInv, TypeOK, KeysSequential,
     ParentsOlder, LinksWellFormed, ClaimFieldsAgree, WorklogChronological, SearchTypeOK,
     QueriesInOrder, TitlesSeen, BodiesSeen, ListedPass, SettledMatchesFound, Complete, Listed,
     Discussed, PassesFilters, TitleMatches
<1>8. QED
  BY <1>1, <1>2, <1>3, <1>4, <1>5, <1>6, <1>7 DEF SearchNext

\* The invariant holds in every state of every run: any searches, any queries of
\* the indexes, any changes of the store between them.
THEOREM SearchInvariance == SearchSpec => []SearchInv
<1>1. SearchInit => SearchInv
  BY SearchInitEstablishes
<1>2. SearchInv /\ [SearchNext]_searchVars => SearchInv'
  BY SearchStepPreserves
<1>3. QED
  BY <1>1, <1>2, PTL DEF SearchSpec

\* No ticket is listed twice and no more than MaxLimit are, whatever limit was
\* asked for: Search of internal/store/search.go merges, sorts and cuts.
THEOREM SearchWellTyped == SearchSpec => []SearchTypeOK
<1>1. SearchInv => SearchTypeOK
  BY DEF SearchInv
<1>2. QED
  BY <1>1, SearchInvariance, PTL

\* A ticket that matched when the search began and was left alone is listed, or
\* the list is full of tickets that rank no worse, for lists of any length.
THEOREM SearchMissesNothing == SearchSpec => []SettledMatchesFound
<1>1. SearchInv => SettledMatchesFound
  BY DEF SearchInv
<1>2. QED
  BY <1>1, SearchInvariance, PTL

\* What is listed is a match, and what the result says of title and comments of a
\* ticket that was left alone is so.
THEOREM SearchListsMatches == SearchSpec => []ResultsMatch
<1>1. SearchInv => ResultsMatch
  <2> SUFFICES ASSUME SearchInv, Complete, NEW k \in Listed \ touched
               PROVE  /\ PassesFilters(k)
                      /\ params.query =>
                           /\ k \in DOMAIN hits
                           /\ hits[k].title <=> TitleMatches(k)
                           /\ k \in Discussed => hits[k].body
                           /\ hits[k].body => \E i \in DOMAIN comments \cap MatchingComments :
                                                comments[i].ticket = k
    BY DEF ResultsMatch
  <2>1. k \in DOMAIN tickets \ touched /\ step = "complete"
    BY DEF SearchInv, SearchTypeOK, Complete
  <2>2. PassesFilters(k) /\ (params.query => k \in DOMAIN hits)
    BY DEF SearchInv, ListedPass
  <2>3. params.query => (hits[k].title <=> TitleMatches(k))
    BY <2>1, <2>2 DEF SearchInv, TitlesSeen
  <2>4. params.query =>
          /\ k \in Discussed => hits[k].body
          /\ hits[k].body => \E i \in DOMAIN comments \cap MatchingComments : comments[i].ticket = k
    BY <2>1, <2>2 DEF SearchInv, BodiesSeen
  <2>5. QED
    BY <2>2, <2>3, <2>4
<1>2. QED
  BY <1>1, SearchInvariance, PTL

================================================================================
