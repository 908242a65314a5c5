---------------------------- MODULE CompileProofs ----------------------------
(***************************************************************************)
(* Theorems about Compile, for any number of sessions, any timelines and   *)
(* any number of failures: its types; a document says of a block what the  *)
(* model was told about that block; what was reported stands; no event is  *)
(* left out of the artifacts.  Most follows from one invariant of the task *)
(* of each session: it belongs to a session that is closed and was not     *)
(* reported yet, and its answers and its document are made of its own      *)
(* bundle.                                                                 *)
(***************************************************************************)
EXTENDS Compile, FiniteSetTheorems, SequenceTheorems, WellFoundedInduction, TLAPS

-----------------------------------------------------------------------------
\* The blocks of a timeline.

\* A set of positions has a first one,
LEMMA LeastOne ==
  ASSUME NEW S \in SUBSET Nat, S # {}
  PROVE  \E i \in S : \A j \in S : i <= j
<1>1. PICK x \in S : \A y \in S : ~ (<<y, x>> \in OpToRel(<, Nat))
  BY NatLessThanWellFounded, WFMin
<1>2. ASSUME NEW j \in S PROVE x <= j
  <2>1. x \in Nat /\ j \in Nat
    OBVIOUS
  <2>2. ~(j < x)
    BY <1>1, <2>1 DEF OpToRel
  <2> QED BY <2>1, <2>2
<1> QED BY <1>2

\* ... and, in a timeline, a last one.
LEMMA LastOne ==
  ASSUME NEW n \in Nat, NEW S \in SUBSET (0..n), S # {}
  PROVE  \E m \in S : \A j \in S : j <= m
<1> DEFINE T == {k \in Nat : \E i \in S : k = n - i}
<1>1. \A i \in S : i \in Nat /\ n - i \in T
  OBVIOUS
<1>2. PICK k \in T : \A l \in T : k <= l
  <2>1. T \in SUBSET Nat /\ T # {}
    BY <1>1
  <2> HIDE DEF T
  <2> QED BY <2>1, LeastOne
<1>3. PICK m \in S : k = n - m
  OBVIOUS
<1>4. ASSUME NEW j \in S PROVE j <= m
  <2>1. n - m <= n - j
    BY <1>1, <1>2, <1>3
  <2>2. n \in Nat /\ m \in Nat /\ j \in Nat
    BY <1>1
  <2> HIDE DEF T
  <2> QED BY <2>1, <2>2
<1> QED BY <1>4

\* Both are what the community modules' Min and Max choose.
LEMMA FirstAndLast ==
  ASSUME NEW n \in Nat, NEW S \in SUBSET (1..n), S # {}
  PROVE  /\ Min(S) \in S /\ Max(S) \in S
         /\ \A j \in S : Min(S) <= j /\ j <= Max(S)
<1>1. \E i \in S : \A j \in S : i <= j
  <2>1. S \in SUBSET Nat
    OBVIOUS
  <2> QED BY <2>1, LeastOne
<1>2. PICK m \in S : \A j \in S : j <= m
  <2>1. S \in SUBSET (0..n)
    OBVIOUS
  <2> QED BY <2>1, LastOne
<1>3. \A j \in S : m >= j
  BY <1>2
<1>4. Min(S) \in S /\ \A j \in S : Min(S) <= j
  BY <1>1 DEF Min
<1>5. Max(S) \in S /\ \A j \in S : Max(S) >= j
  BY <1>3 DEF Max
<1> QED BY <1>4, <1>5

\* Counted from the first on, the positions of a set take every number up to how many
\* there are.
LEMMA EachNumber ==
  ASSUME NEW len \in Nat, NEW S \in SUBSET (1..len),
         NEW n \in 1..Cardinality({j \in S : j <= len})
  PROVE  \E i \in 1..len : Cardinality({j \in S : j <= i}) = n
<1> DEFINE Upto(i) == {j \in S : j <= i}
           T == {i \in 1..len : Cardinality(Upto(i)) >= n}
<1>1. ASSUME NEW i \in 0..len
      PROVE  IsFiniteSet(Upto(i)) /\ Cardinality(Upto(i)) \in Nat
  <2>1. IsFiniteSet(1..len)
    BY FS_Interval
  <2>2. Upto(i) \subseteq 1..len
    OBVIOUS
  <2> QED BY <2>1, <2>2, FS_Subset, FS_CardinalityType
<1>2. Cardinality(Upto(0)) = 0
  <2>1. \A j \in S : j \in Nat /\ ~(j <= 0)
    OBVIOUS
  <2>2. Upto(0) = {}
    BY <2>1
  <2> QED BY <2>2, FS_EmptySet
<1>3. len \in 1..len
  <2>1. CASE len = 0
    BY <1>2, <2>1
  <2> QED BY <2>1
<1>4. PICK i \in T : \A k \in T : i <= k
  <2>1. len \in T
    BY <1>1, <1>3
  <2>2. T \in SUBSET Nat
    OBVIOUS
  <2> HIDE DEF T
  <2> QED BY <2>1, <2>2, LeastOne
<1>5. i \in 1..len /\ i - 1 \in 0..len /\ Cardinality(Upto(i)) >= n
  OBVIOUS
<1>6. Cardinality(Upto(i - 1)) < n
  <2>1. CASE i = 1
    <3>1. i - 1 = 0 /\ n > 0
      BY <1>1, <1>3, <2>1
    <3> HIDE DEF Upto
    <3> QED BY <1>2, <3>1
  <2>2. CASE i # 1
    <3>1. i - 1 \in 1..len /\ ~(i <= i - 1)
      BY <1>5, <2>2
    <3>2. i - 1 \notin T
      <4> HIDE DEF T
      <4> QED BY <1>4, <3>1
    <3>3. ~(Cardinality(Upto(i - 1)) >= n)
      BY <3>1, <3>2
    <3> HIDE DEF Upto
    <3>4. Cardinality(Upto(i - 1)) \in Nat /\ n \in Nat
      BY <1>1, <1>3, <1>5
    <3> QED BY <3>3, <3>4
  <2> QED BY <2>1, <2>2
<1>7. Upto(i) \subseteq Upto(i - 1) \union {i}
  <2>1. ASSUME NEW j \in Upto(i) PROVE j \in Upto(i - 1) \union {i}
    <3>1. j \in S /\ j \in Nat /\ i \in Nat /\ j <= i
      BY <1>5
    <3>2. j <= i - 1 \/ j = i
      BY <3>1
    <3> QED BY <3>1, <3>2
  <2> QED BY <2>1
<1> HIDE DEF Upto, T
<1>8. /\ IsFiniteSet(Upto(i - 1) \union {i})
      /\ Cardinality(Upto(i - 1) \union {i}) \in
           {Cardinality(Upto(i - 1)), Cardinality(Upto(i - 1)) + 1}
  BY <1>1, <1>5, FS_AddElement
<1>9. Cardinality(Upto(i)) <= Cardinality(Upto(i - 1) \union {i})
  BY <1>7, <1>8, FS_Subset
<1>10. Cardinality(Upto(i)) = n
  <2>1. Cardinality(Upto(i)) \in Nat /\ Cardinality(Upto(i - 1)) \in Nat /\ n \in Nat
    BY <1>1, <1>3, <1>5
  <2> QED BY <1>5, <1>6, <1>8, <1>9, <2>1
<1> QED BY <1>5, <1>10 DEF Upto

\* How many of them come up to a place.
CountTo(S, i) == Cardinality({j \in S : j <= i})

\* Counting the positions of a set up to a place.
LEMMA Counting ==
  ASSUME NEW len \in Nat, NEW S \in SUBSET (1..len)
  PROVE  /\ \A i \in 0..len : CountTo(S, i) \in Nat
         /\ CountTo(S, 0) = 0
         /\ \A i \in 1..len : CountTo(S, i) = IF i \in S THEN CountTo(S, i - 1) + 1
                                              ELSE CountTo(S, i - 1)
         /\ \A i, j \in 0..len : i <= j => CountTo(S, i) <= CountTo(S, j)
<1> DEFINE Upto(i) == {j \in S : j <= i}
<1>0. \A j \in S : j \in Nat /\ j >= 1
  OBVIOUS
<1>1. ASSUME NEW i \in 0..len
      PROVE  IsFiniteSet(Upto(i)) /\ Cardinality(Upto(i)) \in Nat
  <2>1. IsFiniteSet(1..len)
    BY FS_Interval
  <2>2. Upto(i) \subseteq 1..len
    OBVIOUS
  <2> QED BY <2>1, <2>2, FS_Subset, FS_CardinalityType
<1>2. Cardinality(Upto(0)) = 0
  <2>1. \A j \in S : ~(j <= 0)
    BY <1>0
  <2>2. Upto(0) = {}
    BY <2>1
  <2> QED BY <2>2, FS_EmptySet
<1>3. ASSUME NEW i \in 1..len
      PROVE  Cardinality(Upto(i)) = IF i \in S THEN Cardinality(Upto(i - 1)) + 1
                                    ELSE Cardinality(Upto(i - 1))
  <2>1. i - 1 \in 0..len /\ i \in Nat
    OBVIOUS
  <2>2. \A j \in S : j <= i <=> j <= i - 1 \/ j = i
    BY <1>0, <2>1
  <2>3. CASE i \in S
    <3>1. Upto(i) = Upto(i - 1) \union {i}
      BY <2>2, <2>3
    <3>2. i \notin Upto(i - 1)
      BY <2>1
    <3> HIDE DEF Upto
    <3> QED BY <1>1, <2>1, <2>3, <3>1, <3>2, FS_AddElement
  <2>4. CASE i \notin S
    <3>1. Upto(i) = Upto(i - 1)
      BY <2>2, <2>4
    <3> QED BY <2>4, <3>1
  <2> QED BY <2>3, <2>4
<1>4. ASSUME NEW i \in 0..len, NEW j \in 0..len, i <= j
      PROVE  Cardinality(Upto(i)) <= Cardinality(Upto(j))
  <2>0. i \in Nat /\ j \in Nat
    OBVIOUS
  <2>1. ASSUME NEW m \in Upto(i) PROVE m \in Upto(j)
    <3>1. m \in S /\ m \in Nat /\ m <= i
      BY <1>0
    <3>2. m <= j
      BY <1>4, <2>0, <3>1
    <3> QED BY <3>1, <3>2
  <2>2. Upto(i) \subseteq Upto(j)
    BY <2>1
  <2> HIDE DEF Upto
  <2> QED BY <1>1, <2>2, FS_Subset
<1> QED BY <1>1, <1>2, <1>3, <1>4 DEF CountTo

\* The last place up to which a number is not exceeded.
LEMMA Borders ==
  ASSUME NEW len \in Nat, NEW S \in SUBSET (1..len), NEW k \in Nat
  PROVE  \E i \in 0..len : \A j \in 0..len : CountTo(S, j) <= k <=> j <= i
<1> DEFINE L == {i \in 0..len : CountTo(S, i) <= k}
<1>1. 0 \in L
  BY Counting
<1>2. PICK i \in L : \A j \in L : j <= i
  <2>1. L \in SUBSET (0..len) /\ L # {}
    BY <1>1
  <2> HIDE DEF L
  <2> QED BY <2>1, LastOne
<1>3. ASSUME NEW j \in 0..len, j <= i PROVE CountTo(S, j) <= k
  <2>1. CountTo(S, j) <= CountTo(S, i) /\ CountTo(S, i) <= k
    BY <1>3, Counting
  <2>2. CountTo(S, j) \in Nat /\ CountTo(S, i) \in Nat
    BY Counting
  <2> QED BY <2>1, <2>2
<1> QED BY <1>2, <1>3

-----------------------------------------------------------------------------
\* Where the events are cut: b[k] is the last position of the k-th block.  A cut is
\* made before an event that opens a block, and before no other.
Cuts(events, b, n) ==
  /\ b \in [0..n -> 0..Len(events)] /\ b[0] = 0 /\ b[n] = Len(events)
  /\ \A k \in 1..n :
       /\ b[k - 1] < b[k]
       /\ k # 1 => Opens(events[b[k - 1] + 1], events[b[k - 1]])
       /\ \A i \in (b[k - 1] + 2)..b[k] : ~Opens(events[i], events[i - 1])

Part(events, b, k) == SubSeq(events, b[k - 1] + 1, b[k])

\* split_blocks() yields the stretches of the timeline between its cuts, whatever the
\* timeline: nothing is left out, repeated or reordered, and each block begins where
\* one of its rules says so.
THEOREM CutAtOpenings ==
  ASSUME NEW events \in Seq(Events)
  PROVE  LET n == Len(SplitBlocks(events))
         IN  /\ n \in Nat /\ DOMAIN SplitBlocks(events) = 1..n
             /\ \E b : Cuts(events, b, n) /\ \A k \in 1..n : SplitBlocks(events)[k] = Part(events, b, k)
<1> DEFINE len == Len(events)
           S == Openings(events)
           N(i) == CountTo(S, i)
           n == N(len)
           block(k) == {i \in 1..len : N(i) = k}
<1>1. len \in Nat /\ S \in SUBSET (1..len) /\ len \in 0..len /\ 0 \in 0..len
  BY DEF Openings
<1>2. /\ \A i \in 0..len : N(i) \in Nat
      /\ N(0) = 0
      /\ \A i \in 1..len : N(i) = IF i \in S THEN N(i - 1) + 1 ELSE N(i - 1)
      /\ \A i, j \in 0..len : i <= j => N(i) <= N(j)
  <2> HIDE DEF len, S
  <2> QED BY <1>1, Counting
<1>3. n \in Nat
  BY <1>1, <1>2
<1>4. SplitBlocks(events) = [k \in 1..n |-> SubSeq(events, Min(block(k)), Max(block(k)))]
  BY DEF SplitBlocks, CountTo
<1>5. Len(SplitBlocks(events)) = n /\ DOMAIN SplitBlocks(events) = 1..n
  <2> HIDE DEF n, block
  <2> QED BY <1>3, <1>4
<1>6. \A k \in Nat : \E i \in 0..len : \A j \in 0..len : N(j) <= k <=> j <= i
  <2> HIDE DEF len, S
  <2> QED BY <1>1, Borders
<1> DEFINE b == [k \in 0..n |-> CHOOSE i \in 0..len : \A j \in 0..len : N(j) <= k <=> j <= i]
<1>7. /\ b \in [0..n -> 0..len]
      /\ \A k \in 0..n : \A j \in 0..len : N(j) <= k <=> j <= b[k]
  <2> HIDE DEF n, N, len
  <2>1. ASSUME NEW k \in 0..n
        PROVE  b[k] \in 0..len /\ \A j \in 0..len : N(j) <= k <=> j <= b[k]
    <3>1. \E i \in 0..len : \A j \in 0..len : N(j) <= k <=> j <= i
      BY <1>3, <1>6
    <3> QED BY <3>1
  <2> QED BY <2>1
<1>8. 1 \in 1..len => 1 \in S
  BY DEF Openings
<1>9. ASSUME NEW i \in 1..len
      PROVE  /\ i \in 0..len /\ i - 1 \in 0..len /\ i \in Nat
             /\ i # 1 => (i \in S <=> Opens(events[i], events[i - 1]))
  BY <1>1 DEF Openings
<1>10. \A k \in 1..n : \E i \in 1..len : N(i) = k
  <2> HIDE DEF len, S
  <2> QED BY <1>1, EachNumber DEF CountTo
<1> HIDE DEF len, S, N, n, b
<1>11. n \in 0..n /\ 0 \in 0..n /\ \A k \in 1..n : k \in 0..n /\ k - 1 \in 0..n /\ k \in Nat
  BY <1>3
<1>12. b[0] = 0
  <2>1. b[0] \in 0..len
    BY <1>7, <1>11
  <2>2. CASE b[0] # 0
    <3>1. 1 \in 1..len /\ 1 <= b[0]
      BY <1>1, <2>1, <2>2
    <3>2. N(1) <= 0
      BY <1>7, <1>9, <1>11, <3>1
    <3>3. N(1) = N(1 - 1) + 1
      BY <1>2, <1>8, <3>1
    <3> QED BY <1>2, <3>2, <3>3
  <2> QED BY <2>2
<1>13. b[n] = len
  <2>1. N(len) <= n
    BY <1>3 DEF n
  <2>2. len <= b[n] /\ b[n] \in 0..len
    BY <1>1, <1>7, <1>11, <2>1
  <2> QED BY <1>1, <2>2
<1>14. ASSUME NEW k \in 1..n
       PROVE  /\ block(k) = (b[k - 1] + 1)..b[k] /\ b[k - 1] < b[k]
              /\ b[k - 1] \in 0..len /\ b[k] \in 0..len
  <2>1. b[k - 1] \in 0..len /\ b[k] \in 0..len
    BY <1>7, <1>11
  <2>2. ASSUME NEW i \in 1..len PROVE N(i) = k <=> i \in (b[k - 1] + 1)..b[k]
    <3>1. (N(i) <= k <=> i <= b[k]) /\ (N(i) <= k - 1 <=> i <= b[k - 1])
      BY <1>7, <1>9, <1>11
    <3>2. N(i) \in Nat /\ k \in Nat /\ i \in Nat /\ b[k] \in Nat /\ b[k - 1] \in Nat
      BY <1>1, <1>2, <1>9, <1>11, <2>1
    <3>3. N(i) = k <=> N(i) <= k /\ ~(N(i) <= k - 1)
      BY <3>2
    <3> QED BY <3>1, <3>2, <3>3
  <2>3. \A i \in (b[k - 1] + 1)..b[k] : i \in 1..len
    BY <1>1, <2>1
  <2>4. block(k) = (b[k - 1] + 1)..b[k]
    BY <2>2, <2>3
  <2>5. \E i \in 1..len : N(i) = k
    BY <1>10
  <2>6. \E i : i \in (b[k - 1] + 1)..b[k]
    BY <2>2, <2>5
  <2>7. b[k - 1] < b[k]
    BY <1>1, <2>1, <2>6
  <2> QED BY <2>1, <2>4, <2>7
<1>15. ASSUME NEW k \in 1..n
       PROVE  SplitBlocks(events)[k] = Part(events, b, k)
  <2>1. /\ block(k) \in SUBSET (1..len) /\ block(k) # {}
        /\ b[k - 1] + 1 \in block(k) /\ b[k] \in block(k)
        /\ \A j \in block(k) : j \in Nat /\ b[k - 1] + 1 <= j /\ j <= b[k]
    BY <1>1, <1>14
  <2> HIDE DEF block
  <2>2. /\ Min(block(k)) \in block(k) /\ Max(block(k)) \in block(k)
        /\ \A j \in block(k) : Min(block(k)) <= j /\ j <= Max(block(k))
    BY <1>1, <2>1, FirstAndLast
  <2>3. Min(block(k)) = b[k - 1] + 1 /\ Max(block(k)) = b[k]
    <3>1. Min(block(k)) \in Nat /\ Max(block(k)) \in Nat /\ b[k - 1] + 1 \in Nat /\ b[k] \in Nat
      BY <2>1, <2>2
    <3> QED BY <2>1, <2>2, <3>1
  <2>4. SplitBlocks(events)[k] = SubSeq(events, Min(block(k)), Max(block(k)))
    BY <1>4
  <2> QED BY <2>3, <2>4 DEF Part
<1>16. ASSUME NEW k \in 1..n, k # 1
       PROVE  Opens(events[b[k - 1] + 1], events[b[k - 1]])
  <2>1. PICK i : i = b[k - 1] + 1
    OBVIOUS
  <2>2. i \in block(k) /\ i \in 1..len /\ i - 1 = b[k - 1]
    BY <1>1, <1>14, <2>1
  <2>3. N(i) = k /\ N(i - 1) <= k - 1
    BY <1>7, <1>9, <1>11, <2>2
  <2>4. N(i) \in Nat /\ N(i - 1) \in Nat /\ k \in Nat
    BY <1>2, <1>9, <1>11, <2>2
  <2>5. N(i) # N(i - 1)
    BY <2>3, <2>4
  <2>6. i \in S
    BY <1>2, <2>2, <2>5
  <2>7. i # 1
    <3>1. CASE i = 1
      <4>1. N(1) = N(1 - 1) + 1
        BY <1>2, <2>2, <2>6, <3>1
      <4>2. N(1) = 1
        BY <1>2, <4>1
      <4> QED BY <1>16, <2>3, <3>1, <4>2
    <3> QED BY <3>1
  <2>8. Opens(events[i], events[i - 1])
    BY <1>9, <2>2, <2>6, <2>7
  <2> QED BY <2>1, <2>2, <2>8
<1>17. ASSUME NEW k \in 1..n, NEW i \in (b[k - 1] + 2)..b[k]
       PROVE  ~Opens(events[i], events[i - 1])
  <2>0. i \in (b[k - 1] + 1)..b[k] /\ i - 1 \in (b[k - 1] + 1)..b[k] /\ i # 1
    <3>1. b[k - 1] \in Nat /\ b[k] \in Nat
      BY <1>1, <1>14
    <3>2. i \in Int /\ b[k - 1] + 2 <= i /\ i <= b[k]
      BY <3>1
    <3> QED BY <3>1, <3>2
  <2>1. i \in block(k) /\ i - 1 \in block(k) /\ i \in 1..len /\ i # 1
    <3>1. i \in block(k) /\ i - 1 \in block(k)
      BY <1>14, <2>0
    <3> QED BY <2>0, <3>1
  <2>2. N(i) = k /\ N(i - 1) = k
    BY <2>1
  <2>3. k \in Nat /\ k # k + 1
    BY <1>11
  <2>4. i \notin S
    BY <1>2, <2>1, <2>2, <2>3
  <2> QED BY <1>9, <2>1, <2>4
<1>18. Cuts(events, b, n)
  <2> HIDE DEF block
  <2> QED BY <1>7, <1>12, <1>13, <1>14, <1>16, <1>17 DEF Cuts, len
<1> QED BY <1>3, <1>5, <1>15, <1>18

\* So each block is a sequence of events of the timeline, and not an empty one.
LEMMA BlocksNotEmpty ==
  ASSUME NEW events \in Seq(Events), NEW n \in 1..Len(SplitBlocks(events))
  PROVE  SplitBlocks(events)[n] \in Seq(Events) /\ Len(SplitBlocks(events)[n]) >= 1
<1> DEFINE len == Len(SplitBlocks(events))
<1>1. PICK b : Cuts(events, b, len) /\ SplitBlocks(events)[n] = Part(events, b, n)
  BY CutAtOpenings
<1>2. len \in Nat
  BY CutAtOpenings
<1> HIDE DEF len
<1>3. n \in 1..len
  BY DEF len
<1>4. n \in 0..len /\ n - 1 \in 0..len
  BY <1>2, <1>3
<1>5. b[n - 1] \in 0..Len(events) /\ b[n] \in 0..Len(events) /\ b[n - 1] < b[n]
  BY <1>1, <1>3, <1>4 DEF Cuts
<1>6. b[n - 1] + 1 \in 1..Len(events) /\ b[n] \in 1..Len(events) /\ b[n - 1] + 1 <= b[n]
  BY <1>5
<1>7. \A i \in (b[n - 1] + 1)..b[n] : events[i] \in Events
  BY <1>6, ElementOfSeq
<1> QED BY <1>1, <1>5, <1>6, <1>7, SubSeqProperties DEF Part

-----------------------------------------------------------------------------
\* The documents.

\* What the model is told of a block begins where the block does.
LEMMA SerialisedFromTheFirst ==
  ASSUME NEW block \in Seq(Events), Len(block) >= 1
  PROVE  Head(Serialised(block).about).ts = BlockWindow(block).from
<1> DEFINE n == Len(First(block, LlmLines))
           told(i) == Event(block[i].ts, block[i].kind, block[i].app,
                            IF block[i].kind = "keyframe" THEN First(block[i].text, OcrLines)
                                                          ELSE block[i].text)
           about == [i \in 1..n |-> told(i)]
<1>1. n \in Nat /\ n >= 1
  <2> DEFINE m == IF Len(block) < LlmLines THEN Len(block) ELSE LlmLines
  <2>1. m \in 1..Len(block)
    BY BlocksAssumption
  <2>2. \A i \in 1..m : block[i] \in Events
    BY <2>1, ElementOfSeq
  <2>3. Len(SubSeq(block, 1, m)) = m
    <3> HIDE DEF m
    <3> QED BY <2>1, <2>2, SubSeqProperties
  <2> QED BY <2>1, <2>3 DEF First
<1>2. Serialised(block).about = about
  BY DEF Serialised
<1> HIDE DEF n
<1>3. Head(about) = told(1)
  <2>1. about[1] = told(1)
    BY <1>1
  <2> HIDE DEF about, told
  <2> QED BY <2>1
<1>4. told(1).ts = block[1].ts
  BY DEF Event
<1> HIDE DEF about, told
<1>5. BlockWindow(block).from = block[1].ts
  BY DEF BlockWindow
<1> QED BY <1>2, <1>3, <1>4, <1>5

\* What a document says of its blocks.
SaysWhatWasTold(doc) ==
  /\ \A i \in DOMAIN doc.blocks :
       doc.blocks[i].summary # NoText =>
         Head(doc.blocks[i].summary.about).ts = doc.blocks[i].window.from
  /\ \A i \in DOMAIN doc.sections :
       doc.sections[i].narrative # NoText =>
         Head(doc.sections[i].narrative.about).ts = doc.sections[i].window.from

Complete(doc) ==
  doc.summary # NoText /\ \A i \in DOMAIN doc.blocks : doc.blocks[i].summary # NoText

Told(events, i) == Serialised(SplitBlocks(events)[i])

\* The answers are one for each block of the events, and of that block.
AnswersOf(events, answers) ==
  /\ DOMAIN answers = 1..Len(SplitBlocks(events))
  /\ \A i \in 1..Len(SplitBlocks(events)) :
       answers[i].body \in {NoText, Told(events, i)} /\ answers[i].summary \in {NoText, Told(events, i)}

\* The model's summary of a session, or none.
Wholes == {NoText, [about |-> <<"session">>]}

\* The documents that the compilers make of a bundle.
DocOf(events, answers, doc) ==
  IF provider = "openai_compatible" /\ events # <<>>
  THEN AnswersOf(events, answers) /\ \E m \in Wholes : doc = LlmDoc(events, answers, m)
  ELSE doc = IF provider = "none" THEN DumpDoc(events) ELSE RulesDoc(events)

LEMMA ToldOfItsBlock ==
  ASSUME NEW events \in Seq(Events), NEW i \in 1..Len(SplitBlocks(events))
  PROVE  Head(Told(events, i).about).ts = BlockWindow(SplitBlocks(events)[i]).from
<1>1. SplitBlocks(events)[i] \in Seq(Events) /\ Len(SplitBlocks(events)[i]) >= 1
  BY BlocksNotEmpty
<1> QED BY <1>1, SerialisedFromTheFirst DEF Told

\* The rules and the dump quote no model.
LEMMA RulesQuoteNobody ==
  ASSUME NEW events
  PROVE  /\ SaysWhatWasTold(DumpDoc(events)) /\ SaysWhatWasTold(RulesDoc(events))
         /\ \A i \in DOMAIN DumpDoc(events).blocks : DumpDoc(events).blocks[i].summary = NoText
         /\ \A i \in DOMAIN RulesDoc(events).blocks : RulesDoc(events).blocks[i].summary = NoText
<1>1. \A i \in DOMAIN DumpDoc(events).blocks : DumpDoc(events).blocks[i].summary = NoText
  <2>1. Dump(events).summary = NoText
    BY DEF Dump, Record
  <2>2. DumpDoc(events).blocks \in {<<>>, <<Dump(events)>>}
    BY DEF DumpDoc
  <2> QED BY <2>1, <2>2
<1>2. \A i \in DOMAIN RulesDoc(events).blocks : RulesDoc(events).blocks[i].summary = NoText
  BY DEF RulesDoc, Record
<1>3. DumpDoc(events).sections = <<>>
  BY DEF DumpDoc
<1>4. \A i \in DOMAIN RulesDoc(events).sections : RulesDoc(events).sections[i].narrative = NoText
  BY DEF RulesDoc, Section
<1> QED BY <1>1, <1>2, <1>3, <1>4 DEF SaysWhatWasTold

\* The parts of the document that the model's answers make.
LEMMA LlmDocParts ==
  ASSUME NEW events \in Seq(Events), NEW answers, NEW m, AnswersOf(events, answers)
  PROVE  LET doc == LlmDoc(events, answers, m)
             block(i) == SplitBlocks(events)[i]
         IN  /\ doc.summary = m
             /\ DOMAIN doc.blocks = 1..Len(SplitBlocks(events))
             /\ DOMAIN doc.sections = 1..Len(SplitBlocks(events))
             /\ \A i \in 1..Len(SplitBlocks(events)) :
                  /\ doc.blocks[i].summary = answers[i].summary
                  /\ doc.blocks[i].window = BlockWindow(block(i))
                  /\ doc.sections[i].narrative = answers[i].body
                  /\ doc.sections[i].window = BlockWindow(block(i))
             /\ ~doc.degraded =>
                  m # NoText /\ \A i \in 1..Len(SplitBlocks(events)) : answers[i].summary # NoText
<1> DEFINE n == Len(SplitBlocks(events))
           rules == RulesDoc(events)
<1>1. DOMAIN answers = 1..n
  BY DEF AnswersOf
<1>2. \A i \in 1..n : /\ rules.sections[i] = Section(SplitBlocks(events)[i])
                      /\ rules.blocks[i] = Record(SplitBlocks(events)[i])
  BY DEF RulesDoc
<1>3. \A i \in 1..n : /\ LlmDoc(events, answers, m).sections[i] =
                           [rules.sections[i] EXCEPT !.narrative = answers[i].body]
                      /\ LlmDoc(events, answers, m).blocks[i] =
                           [rules.blocks[i] EXCEPT !.summary = answers[i].summary]
  <2> HIDE DEF n
  <2> QED BY <1>1 DEF LlmDoc
<1>4. \A b, x : /\ [Section(b) EXCEPT !.narrative = x].narrative = x
                /\ [Section(b) EXCEPT !.narrative = x].window = BlockWindow(b)
  BY DEF Section
<1>5. \A b, x : /\ [Record(b) EXCEPT !.summary = x].summary = x
                /\ [Record(b) EXCEPT !.summary = x].window = BlockWindow(b)
  BY DEF Record
<1> HIDE DEF n
<1>6. /\ LlmDoc(events, answers, m).summary = m
      /\ DOMAIN LlmDoc(events, answers, m).blocks = 1..n
      /\ DOMAIN LlmDoc(events, answers, m).sections = 1..n
      /\ ~LlmDoc(events, answers, m).degraded =>
           m # NoText /\ \A i \in 1..n : answers[i].summary # NoText
  BY <1>1 DEF LlmDoc
<1> HIDE DEF rules
<1>7. ASSUME NEW i \in 1..n
      PROVE
        /\ LlmDoc(events, answers, m).blocks[i].summary = answers[i].summary
        /\ LlmDoc(events, answers, m).blocks[i].window = BlockWindow(SplitBlocks(events)[i])
        /\ LlmDoc(events, answers, m).sections[i].narrative = answers[i].body
        /\ LlmDoc(events, answers, m).sections[i].window = BlockWindow(SplitBlocks(events)[i])
  <2>1. LlmDoc(events, answers, m).blocks[i] =
          [Record(SplitBlocks(events)[i]) EXCEPT !.summary = answers[i].summary]
    BY <1>2, <1>3
  <2>2. LlmDoc(events, answers, m).sections[i] =
          [Section(SplitBlocks(events)[i]) EXCEPT !.narrative = answers[i].body]
    BY <1>2, <1>3
  <2> QED BY <1>4, <1>5, <2>1, <2>2
<1> QED BY <1>6, <1>7 DEF n

-----------------------------------------------------------------------------
\* The invariant.

Asking == {"blocks", "session"}
Busy   == {"scheduled", "compiled"} \union Asking

\* What a session's task, once it is due, is and has: its session is closed and was
\* not reported, its bundle is not empty unless the timeline is, and its answers and
\* its document are made of that bundle.
TaskOK(s, t) ==
  /\ t.at \in Busy => status[s] = "closed" /\ \A x \in reports : x.s # s
  /\ t.at \in Asking \union {"compiled"} => (rows[s] # <<>> => t.bundle # <<>>)
  /\ t.at \in Asking =>
       provider = "openai_compatible" /\ t.bundle # <<>> /\ AnswersOf(t.bundle, t.answers)
  /\ t.at = "compiled" => DocOf(t.bundle, t.answers, t.doc)

\* A session that was reported is never due again.
ReportOK == \A x \in reports : status[x.s] # "open"

\* Both properties of the files, said file by file.
FileOK(s, f) == files[s][f].of \in {0, s} /\ SaysWhatWasTold(files[s][f].doc)

ReportStands(x) ==
  \A f \in x.paths :
    /\ files[x.s][f].of = x.s
    /\ provider = "openai_compatible" /\ rows[x.s] # <<>> /\ ~x.degraded => Complete(files[x.s][f].doc)

FilesOK ==
  /\ \A s \in Sessions : \A f \in ToSet(Formats) : FileOK(s, f)
  /\ \A s \in Sessions : status[s] = "compiled" => \E f \in ToSet(Formats) : files[s][f].of = s
  /\ \A x \in reports : ReportStands(x)

CompileInv ==
  (\A s \in Sessions : TaskOK(s, task[s])) /\ ReportOK /\ FilesOK

-----------------------------------------------------------------------------
\* Types.

Ats == {"none", "scheduled", "blocks", "session", "compiled", "over"}

LEMMA NoLines == <<>> \in Seq(STRING)
  OBVIOUS

\* A timeline is read, and cut off by the end of the process, event by event.
LEMMA TimelineRead ==
  ASSUME TypeOK, NEW s \in Sessions, NEW i \in DOMAIN rows[s], Extracted(s, i)
  PROVE  /\ rows' \in [Sessions -> Seq(Events)]
         /\ \A r \in Sessions : rows'[r] # <<>> <=> rows[r] # <<>>
<1>1. rows \in [Sessions -> Seq(Events)] /\ rows[s] \in Seq(Events) /\ i \in 1..Len(rows[s])
  BY DEF TypeOK
<1>2. rows[s][i] \in Events
  BY <1>1, ElementOfSeq
<1>0. rows[s][i].kind = "keyframe"
  BY <1>2 DEF Events, Extracted
<1>3. PICK e \in Events : rows' = [rows EXCEPT ![s] = [rows[s] EXCEPT ![i] = e]]
  <2>1. CASE rows' = [rows EXCEPT ![s][i].ocr = "ok"]
    <3>1. [rows[s][i] EXCEPT !.ocr = "ok"] \in Events
      BY <1>2, <1>0 DEF Events
    <3> QED BY <1>1, <2>1, <3>1
  <2>2. CASE rows' = [rows EXCEPT ![s][i].ocr = "failed", ![s][i].text = <<>>]
    <3>1. [rows[s][i] EXCEPT !.ocr = "failed", !.text = <<>>] \in Events
      BY <1>2, <1>0, NoLines DEF Events
    <3> QED BY <1>1, <2>2, <3>1
  <2> QED BY <2>1, <2>2 DEF Extracted
<1>4. [rows[s] EXCEPT ![i] = e] \in Seq(Events) /\ [rows[s] EXCEPT ![i] = e] # <<>> /\ rows[s] # <<>>
  BY <1>1
<1> QED BY <1>1, <1>3, <1>4

LEMMA BundleLoaded ==
  ASSUME TypeOK, NEW s \in Sessions
  PROVE  LoadBundle(s) \in Seq(Events) /\ (LoadBundle(s) # <<>> <=> rows[s] # <<>>)
<1>1. rows[s] \in Seq(Events) /\ Len(rows[s]) \in Nat
  BY DEF TypeOK
<1>2. \A i \in 1..Len(rows[s]) : rows[s][i] \in Events /\ Unread(rows[s][i]) \in Events
  <2>1. \A e \in Events : Unread(e) \in Events
    BY NoLines DEF Unread, Events
  <2> QED BY <1>1, <2>1, ElementOfSeq
<1>3. LoadBundle(s) \in Seq(Events) /\ Len(LoadBundle(s)) = Len(rows[s])
  BY <1>1, <1>2 DEF LoadBundle
<1> QED BY <1>1, <1>3

\* The types follow for a step that gives one session another task.
LEMMA TaskTyped ==
  ASSUME TypeOK, NEW s \in Sessions, NEW t, task' = [task EXCEPT ![s] = t],
         DOMAIN t = {"at", "bundle", "answers", "doc"}, t.at \in Ats, t.bundle \in Seq(Events),
         status' \in [Sessions -> {"open", "closed", "compiled"}], faults' \in Nat,
         UNCHANGED <<provider, phase, rows, files, reports>>
  PROVE  TypeOK'
<1>1. DOMAIN task' = Sessions /\ \A r \in Sessions : task'[r] = IF r = s THEN t ELSE task[r]
  BY DEF TypeOK
<1> QED BY <1>1 DEF TypeOK, Ats

LEMMA NoTaskTyped ==
  /\ DOMAIN NoTask = {"at", "bundle", "answers", "doc"} /\ NoTask.at = "none"
  /\ NoTask.bundle = <<>> /\ <<>> \in Seq(Events)
  BY DEF NoTask

\* The files after an export.
LEMMA WrittenFiles ==
  ASSUME TypeOK, NEW s \in Sessions, NEW fs \in SUBSET ToSet(Formats), files' = Written(s, fs)
  PROVE  /\ DOMAIN files' = Sessions
         /\ \A r \in Sessions :
              /\ DOMAIN files'[r] = ToSet(Formats)
              /\ \A f \in ToSet(Formats) :
                   files'[r][f] = IF r = s /\ f \in fs THEN Artifact(s, f) ELSE files[r][f]
  BY DEF TypeOK, Written

LEMMA ArtifactOfSession ==
  ASSUME NEW s, NEW f
  PROVE  Artifact(s, f).of = s
  BY DEF Artifact

\* The end of the process.
LEMMA EndedTyped ==
  ASSUME TypeOK, Ended, faults' \in Nat, UNCHANGED <<provider, status, reports>>,
         \/ UNCHANGED files
         \/ \E s \in Sessions, fs \in SUBSET ToSet(Formats) : files' = Written(s, fs)
  PROVE  /\ TypeOK'
         /\ \A r \in Sessions : rows'[r] # <<>> <=> rows[r] # <<>>
<1>1. /\ rows' \in [Sessions -> Seq(Events)]
      /\ \A r \in Sessions : rows'[r] # <<>> <=> rows[r] # <<>>
  BY BundleLoaded DEF Ended
<1>2. /\ DOMAIN files' = Sessions
      /\ \A r \in Sessions : /\ DOMAIN files'[r] = ToSet(Formats)
                             /\ \A f \in ToSet(Formats) : files'[r][f].of \in {0} \union Sessions
  <2>1. CASE UNCHANGED files
    BY <2>1 DEF TypeOK
  <2>2. CASE \E s \in Sessions, fs \in SUBSET ToSet(Formats) : files' = Written(s, fs)
    <3>1. PICK s \in Sessions, fs \in SUBSET ToSet(Formats) : files' = Written(s, fs)
      BY <2>2
    <3>2. /\ DOMAIN files' = Sessions
          /\ \A r \in Sessions :
               /\ DOMAIN files'[r] = ToSet(Formats)
               /\ \A f \in ToSet(Formats) :
                    files'[r][f] = IF r = s /\ f \in fs THEN Artifact(s, f) ELSE files[r][f]
      BY <3>1, WrittenFiles
    <3>3. ASSUME NEW r \in Sessions, NEW f \in ToSet(Formats)
          PROVE  files'[r][f].of \in {0} \union Sessions
      <4>1. files[r][f].of \in {0} \union Sessions
        BY DEF TypeOK
      <4>2. Artifact(s, f).of = s
        BY ArtifactOfSession
      <4>3. files'[r][f] = Artifact(s, f) \/ files'[r][f] = files[r][f]
        BY <3>2
      <4> QED BY <4>1, <4>2, <4>3
    <3> QED BY <3>2, <3>3
  <2> QED BY <2>1, <2>2
<1>3. phase' = "off" /\ DOMAIN task' = Sessions /\ \A r \in Sessions : task'[r] = NoTask
  BY DEF Ended
<1> QED BY <1>1, <1>2, <1>3, NoTaskTyped DEF TypeOK

LEMMA Pairs ==
  ASSUME NEW S
  PROVE  \A a, b \in S : <<a>> \in Seq(S) /\ <<a, b>> \in Seq(S)
<1>1. \A a \in S : <<a>> \in Seq(S)
  OBVIOUS
<1>2. \A a, b \in S : <<a, b>> = Append(<<a>>, b)
  OBVIOUS
<1> QED BY <1>1, <1>2, AppendProperties

\* Formats that are written one after the other.
LEMMA SomeFormats ==
  ASSUME NEW n \in 1..Len(Formats)
  PROVE  ToSet(SubSeq(Formats, 1, n)) \in SUBSET ToSet(Formats)
<1>1. Formats \in Seq({"markdown", "json"})
  BY Pairs, CompileAssumption, Zenon
<1>2. \A i \in 1..n : Formats[i] \in ToSet(Formats)
  BY <1>1 DEF ToSet
<1>3. SubSeq(Formats, 1, n) \in Seq(ToSet(Formats))
  BY <1>1, <1>2, SubSeqProperties
<1> QED BY <1>3 DEF ToSet

LEMMA TypesInit == Init => TypeOK
<1> SUFFICES ASSUME Init PROVE TypeOK
  OBVIOUS
<1>1. PICK x \in Setups : provider = x.provider /\ rows = x.rows /\ faults = x.faults
  BY DEF Init
<1>2. provider \in Providers /\ faults \in Nat /\ rows \in [Sessions -> Seq(Events)]
  BY <1>1, CompileAssumption
<1>3. \A s \in Sessions : task[s] = NoTask
  BY DEF Init
<1>4. \A s \in Sessions : /\ DOMAIN files[s] = ToSet(Formats)
                          /\ \A f \in ToSet(Formats) : files[s][f].of = 0
  BY DEF Init, NoFile
<1>5. /\ phase = "up" /\ status \in [Sessions -> {"open", "closed", "compiled"}]
      /\ DOMAIN task = Sessions /\ DOMAIN files = Sessions /\ reports = {}
  BY DEF Init
<1> QED BY <1>2, <1>3, <1>4, <1>5, NoTaskTyped DEF TypeOK

\* A step that leaves the files and the timelines, and gives one session a task.
Tasked(s, t) ==
  /\ task' = [task EXCEPT ![s] = t]
  /\ UNCHANGED <<provider, phase, rows, files, reports>>

\* What a task may become.
LEMMA CloseTasked ==
  ASSUME TypeOK, NEW s \in Sessions, Close(s)
  PROVE  /\ Tasked(s, [task[s] EXCEPT !.at = "scheduled"])
         /\ status' = [status EXCEPT ![s] = "closed"] /\ UNCHANGED faults
  BY DEF Close, Tasked

LEMMA FaultTyped ==
  ASSUME TypeOK, Fault \/ UNCHANGED faults
  PROVE  faults' \in Nat
  BY DEF TypeOK, Fault

LEMMA BeginsTasked ==
  ASSUME TypeOK, NEW s \in Sessions, Begins(s)
  PROVE  /\ \E t : /\ Tasked(s, t) /\ t.bundle = LoadBundle(s)
                   /\ DOMAIN t = {"at", "bundle", "answers", "doc"}
                   /\ \/ /\ provider = "openai_compatible" /\ LoadBundle(s) # <<>>
                         /\ t.at = "blocks" /\ AnswersOf(t.bundle, t.answers)
                      \/ t.at = "compiled" /\ DocOf(t.bundle, t.answers, t.doc)
         /\ task[s].at = "scheduled" /\ UNCHANGED <<status, faults>>
<1> DEFINE events == LoadBundle(s)
           asked == [NoTask EXCEPT !.at = "blocks", !.bundle = events,
                       !.answers = [i \in 1..Len(SplitBlocks(events)) |-> Pending]]
           made(d) == [NoTask EXCEPT !.at = "compiled", !.bundle = events, !.doc = d]
<1>1. /\ DOMAIN asked = {"at", "bundle", "answers", "doc"} /\ asked.at = "blocks"
      /\ asked.bundle = events
      /\ asked.answers = [i \in 1..Len(SplitBlocks(events)) |-> Pending]
  BY DEF NoTask
<1>2. \A d : /\ DOMAIN made(d) = {"at", "bundle", "answers", "doc"} /\ made(d).at = "compiled"
             /\ made(d).bundle = events /\ made(d).doc = d
  BY DEF NoTask
<1>3. task[s].at = "scheduled" /\ UNCHANGED <<status, faults>>
  BY DEF Begins
<1>4. CASE provider = "openai_compatible" /\ events # <<>>
  <2>1. Tasked(s, asked)
    BY <1>4 DEF Begins, Tasked
  <2>2. AnswersOf(asked.bundle, asked.answers)
    <3>1. Pending.body = NoText /\ Pending.summary = NoText
      BY DEF Pending
    <3> HIDE DEF asked
    <3> QED BY <1>1, <3>1 DEF AnswersOf
  <2> HIDE DEF asked
  <2> QED BY <1>1, <1>3, <1>4, <2>1, <2>2
<1>5. CASE ~(provider = "openai_compatible" /\ events # <<>>)
  <2> DEFINE d == IF provider = "none" THEN DumpDoc(events) ELSE RulesDoc(events)
  <2>1. Tasked(s, made(d))
    BY <1>5 DEF Begins, Tasked
  <2>2. DocOf(events, made(d).answers, d)
    BY <1>5 DEF DocOf
  <2> HIDE DEF made, d
  <2> QED BY <1>2, <1>3, <2>1, <2>2
<1> QED BY <1>4, <1>5

LEMMA AnswersTasked ==
  ASSUME TypeOK, NEW s \in Sessions, NEW i \in DOMAIN task[s].answers, Answers(s, i),
         AnswersOf(task[s].bundle, task[s].answers)
  PROVE  /\ \E t : /\ Tasked(s, t) /\ t.bundle = task[s].bundle /\ t.at = "blocks"
                   /\ DOMAIN t = {"at", "bundle", "answers", "doc"}
                   /\ AnswersOf(t.bundle, t.answers)
         /\ task[s].at = "blocks" /\ UNCHANGED status /\ faults' \in Nat
<1> DEFINE text == Told(task[s].bundle, i)
           t(a) == [task[s] EXCEPT !.answers = [task[s].answers EXCEPT ![i] = a]]
<1>1. \E a : /\ Tasked(s, t(a)) /\ a.body \in {NoText, text} /\ a.summary \in {NoText, text}
  <2>1. CASE \E a \in Parsed(text) : task' = [task EXCEPT ![s].answers[i] = a]
    <3>1. PICK a \in Parsed(text) : task' = [task EXCEPT ![s].answers[i] = a]
      BY <2>1
    <3>2. a.body \in {NoText, text} /\ a.summary \in {NoText, text}
      BY <3>1 DEF Parsed
    <3>3. Tasked(s, t(a))
      BY <3>1 DEF Answers, Tasked
    <3> QED BY <3>2, <3>3
  <2>2. CASE task' = [task EXCEPT ![s].answers[i] = Fell]
    <3>1. Fell.body = NoText /\ Fell.summary = NoText
      BY DEF Fell, Pending
    <3>2. Tasked(s, t(Fell))
      BY <2>2 DEF Answers, Tasked
    <3> QED BY <3>1, <3>2
  <2>3. \/ \E a \in Parsed(text) : task' = [task EXCEPT ![s].answers[i] = a]
        \/ task' = [task EXCEPT ![s].answers[i] = Fell]
    BY DEF Answers, Told
  <2> HIDE DEF t
  <2> QED BY <2>1, <2>2, <2>3
<1>2. PICK a : /\ Tasked(s, t(a)) /\ a.body \in {NoText, text} /\ a.summary \in {NoText, text}
  BY <1>1
<1>3. /\ t(a).bundle = task[s].bundle /\ t(a).at = task[s].at
      /\ t(a).answers = [task[s].answers EXCEPT ![i] = a]
      /\ DOMAIN t(a) = {"at", "bundle", "answers", "doc"}
  BY DEF TypeOK
<1> HIDE DEF t
<1>4. AnswersOf(t(a).bundle, t(a).answers)
  BY <1>2, <1>3 DEF AnswersOf
<1>5. faults' \in Nat
  BY FaultTyped DEF Answers
<1>6. task[s].at = "blocks" /\ UNCHANGED status
  BY DEF Answers
<1> QED BY <1>2, <1>3, <1>4, <1>5, <1>6

\* The document is made as soon as there is nothing left to ask.
LEMMA AskedTasked ==
  ASSUME TypeOK, NEW s \in Sessions, Gathered(s) \/ Summarised(s)
  PROVE  /\ \E t : /\ Tasked(s, t) /\ t.bundle = task[s].bundle /\ t.answers = task[s].answers
                   /\ DOMAIN t = {"at", "bundle", "answers", "doc"}
                   /\ \/ t.at = "session"
                      \/ /\ t.at = "compiled"
                         /\ \E m \in Wholes : t.doc = LlmDoc(t.bundle, t.answers, m)
         /\ task[s].at \in Asking /\ UNCHANGED status /\ faults' \in Nat
<1> DEFINE on == [task[s] EXCEPT !.at = "session"]
           made(m) == [task[s] EXCEPT !.at = "compiled",
                         !.doc = LlmDoc(task[s].bundle, task[s].answers, m)]
<1>1. /\ on.at = "session" /\ on.bundle = task[s].bundle /\ on.answers = task[s].answers
      /\ DOMAIN on = {"at", "bundle", "answers", "doc"}
  BY DEF TypeOK
<1>2. \A m : /\ made(m).at = "compiled" /\ made(m).bundle = task[s].bundle
             /\ made(m).answers = task[s].answers
             /\ made(m).doc = LlmDoc(task[s].bundle, task[s].answers, m)
             /\ DOMAIN made(m) = {"at", "bundle", "answers", "doc"}
  BY DEF TypeOK
<1>3. Tasked(s, on) \/ \E m \in Wholes : Tasked(s, made(m))
  <2>1. CASE Gathered(s)
    <3>1. Tasked(s, on) \/ Tasked(s, made(NoText))
      BY <2>1 DEF Gathered, Tasked
    <3> HIDE DEF on, made
    <3> QED BY <3>1 DEF Wholes
  <2>2. CASE Summarised(s)
    BY <2>2 DEF Summarised, Tasked, Wholes
  <2> QED BY <2>1, <2>2
<1>4. faults' \in Nat
  BY FaultTyped DEF Gathered, Summarised
<1>5. task[s].at \in Asking /\ UNCHANGED status
  BY DEF Gathered, Summarised, Asking
<1> HIDE DEF on, made
<1> QED BY <1>1, <1>2, <1>3, <1>4, <1>5

-----------------------------------------------------------------------------
\* The invariant is kept.

LEMMA CompileInvSays ==
  ASSUME CompileInv
  PROVE  SummariesOfTheirBlocks /\ ReportedStands
<1>1. SummariesOfTheirBlocks
  BY DEF CompileInv, FilesOK, FileOK, SummariesOfTheirBlocks, SaysWhatWasTold
<1>2. ReportedStands
  BY DEF CompileInv, FilesOK, FileOK, ReportedStands, ReportStands, Complete
<1> QED BY <1>1, <1>2

LEMMA CompileInvInit == Init => CompileInv
<1> SUFFICES ASSUME Init PROVE CompileInv
  OBVIOUS
<1>1. ASSUME NEW s \in Sessions PROVE TaskOK(s, task[s])
  <2>1. task[s].at = "none"
    BY DEF Init, NoTask
  <2> QED BY <2>1 DEF TaskOK, Asking, Busy
<1>2. ASSUME NEW s \in Sessions, NEW f \in ToSet(Formats) PROVE FileOK(s, f)
  <2>1. files[s][f] = NoFile
    BY DEF Init
  <2>2. NoFile.of = 0 /\ NoFile.doc.blocks = <<>> /\ NoFile.doc.sections = <<>>
    BY DEF NoFile, NoDoc
  <2> QED BY <2>1, <2>2 DEF FileOK, SaysWhatWasTold
<1>3. reports = {} /\ \A s \in Sessions : status[s] = "open"
  BY DEF Init
<1> QED BY <1>1, <1>2, <1>3 DEF CompileInv, ReportOK, FilesOK

\* A step that gives one session another task keeps it, if that task is in order.
LEMMA TaskedKeeps ==
  ASSUME TypeOK, CompileInv, NEW s \in Sessions, NEW t, Tasked(s, t),
         \/ UNCHANGED status
         \/ status[s] = "open" /\ status' = [status EXCEPT ![s] = "closed"],
         TaskOK(s, t)'
  PROVE  CompileInv'
<1>1. DOMAIN task' = Sessions /\ \A r \in Sessions : task'[r] = IF r = s THEN t ELSE task[r]
  BY DEF TypeOK, Tasked
<1>2. /\ \A r \in Sessions : r # s => status'[r] = status[r]
      /\ \A r \in Sessions : status'[r] = "compiled" => status[r] = "compiled"
      /\ \A r \in Sessions : status'[r] = "open" => status[r] = "open"
  BY DEF TypeOK
<1>3. UNCHANGED <<provider, rows, files, reports>>
  BY DEF Tasked
<1>4. ASSUME NEW r \in Sessions PROVE TaskOK(r, task[r])'
  <2>1. CASE r = s
    <3>1. task'[r] = t
      BY <1>1, <2>1
    <3> QED BY <2>1, <3>1 DEF TaskOK, DocOf
  <2>2. CASE r # s
    <3>1. TaskOK(r, task[r]) /\ task'[r] = task[r] /\ status'[r] = status[r]
      BY <1>1, <1>2, <2>2 DEF CompileInv
    <3> QED BY <1>3, <3>1 DEF TaskOK, DocOf
  <2> QED BY <2>1, <2>2
<1>5. ReportOK'
  BY <1>2, <1>3 DEF CompileInv, ReportOK, TypeOK
<1>6. FilesOK'
  BY <1>2, <1>3 DEF CompileInv, FilesOK, FileOK, ReportStands
<1> QED BY <1>4, <1>5, <1>6 DEF CompileInv

\* What an export writes.
LEMMA ArtifactOK ==
  ASSUME TypeOK, CompileInv, NEW s \in Sessions, task[s].at = "compiled", NEW f
  PROVE  LET doc == Artifact(s, f).doc
         IN  /\ SaysWhatWasTold(doc)
             /\ provider = "openai_compatible" /\ rows[s] # <<>> /\ ~task[s].doc.degraded => Complete(doc)
<1> DEFINE events == task[s].bundle
           doc == task[s].doc
           json == [doc EXCEPT !.sections = <<>>, !.blocks = JsonBlocks(events, doc.blocks)]
           record(i) == IF i \in DOMAIN doc.blocks THEN doc.blocks[i].summary ELSE NoText
           n == Len(SplitBlocks(events))
<1>1. events \in Seq(Events)
  BY DEF TypeOK
<1>2. DocOf(events, task[s].answers, doc) /\ (rows[s] # <<>> => events # <<>>)
  BY DEF CompileInv, TaskOK, Asking
<1>3. Artifact(s, f).doc \in {doc, json}
  BY DEF Artifact
<1>4. /\ json.sections = <<>> /\ json.summary = doc.summary
      /\ json.blocks = JsonBlocks(events, doc.blocks)
  <2>1. \A e, a, m : {"sections", "blocks", "summary"} \subseteq DOMAIN LlmDoc(e, a, m)
    BY DEF LlmDoc
  <2>2. \A e : {"sections", "blocks", "summary"} \subseteq DOMAIN DumpDoc(e) \intersect DOMAIN RulesDoc(e)
    BY DEF DumpDoc, RulesDoc
  <2>3. {"sections", "blocks", "summary"} \subseteq DOMAIN doc
    BY <1>2, <2>1, <2>2 DEF DocOf
  <2> QED BY <2>3
<1>5. /\ DOMAIN JsonBlocks(events, doc.blocks) = 1..n
      /\ \A i \in 1..n :
           /\ JsonBlocks(events, doc.blocks)[i].summary = record(i)
           /\ JsonBlocks(events, doc.blocks)[i].window = BlockWindow(SplitBlocks(events)[i])
  <2>1. \A b, x, y, z :
          LET r == [Record(b) EXCEPT !.app = x, !.summary = y, !.gaps = z]
          IN  r.summary = y /\ r.window = BlockWindow(b)
    BY DEF Record
  <2>2. /\ DOMAIN JsonBlocks(events, doc.blocks) = 1..n
        /\ \A i \in 1..n : \E x, z :
             JsonBlocks(events, doc.blocks)[i] =
               [Record(SplitBlocks(events)[i]) EXCEPT !.app = x, !.summary = record(i), !.gaps = z]
    BY DEF JsonBlocks
  <2> HIDE DEF n, record, events, doc
  <2>3. ASSUME NEW i \in 1..n
        PROVE  /\ JsonBlocks(events, doc.blocks)[i].summary = record(i)
               /\ JsonBlocks(events, doc.blocks)[i].window = BlockWindow(SplitBlocks(events)[i])
    <3>1. PICK x, z :
             JsonBlocks(events, doc.blocks)[i] =
               [Record(SplitBlocks(events)[i]) EXCEPT !.app = x, !.summary = record(i), !.gaps = z]
      BY <2>2
    <3> QED BY <2>1, <3>1
  <2> QED BY <2>2, <2>3
<1> HIDE DEF json
<1>6. CASE provider = "openai_compatible" /\ events # <<>>
  <2> DEFINE answers == task[s].answers
  <2>1. PICK m \in Wholes : doc = LlmDoc(events, answers, m)
    BY <1>2, <1>6 DEF DocOf
  <2>2. AnswersOf(events, answers)
    BY <1>2, <1>6 DEF DocOf
  <2> HIDE DEF events, doc, answers
  <2>3. /\ doc.summary = m
        /\ DOMAIN doc.blocks = 1..n /\ DOMAIN doc.sections = 1..n
        /\ \A i \in 1..n :
             /\ doc.blocks[i].summary = answers[i].summary
             /\ doc.blocks[i].window = BlockWindow(SplitBlocks(events)[i])
             /\ doc.sections[i].narrative = answers[i].body
             /\ doc.sections[i].window = BlockWindow(SplitBlocks(events)[i])
        /\ ~doc.degraded => m # NoText /\ \A i \in 1..n : answers[i].summary # NoText
    BY <1>1, <2>1, <2>2, LlmDocParts
  <2>4. \A i \in 1..n :
          /\ answers[i].summary \in {NoText, Told(events, i)}
          /\ answers[i].body \in {NoText, Told(events, i)}
          /\ Head(Told(events, i).about).ts = BlockWindow(SplitBlocks(events)[i]).from
    BY <1>1, <2>2, ToldOfItsBlock DEF AnswersOf
  <2>5. \A i \in 1..n : record(i) = answers[i].summary
    BY <2>3
  <2> HIDE DEF n, record
  <2>6. SaysWhatWasTold(doc) /\ SaysWhatWasTold(json)
    BY <1>4, <1>5, <2>3, <2>4, <2>5 DEF SaysWhatWasTold
  <2>7. ~doc.degraded => Complete(doc) /\ Complete(json)
    BY <1>4, <1>5, <2>3, <2>5 DEF Complete
  <2> QED BY <1>3, <2>6, <2>7 DEF doc
<1>7. CASE ~(provider = "openai_compatible" /\ events # <<>>)
  <2>1. doc \in {DumpDoc(events), RulesDoc(events)}
    BY <1>2, <1>7 DEF DocOf
  <2>2. SaysWhatWasTold(doc) /\ \A i \in DOMAIN doc.blocks : doc.blocks[i].summary = NoText
    BY <2>1, RulesQuoteNobody
  <2>3. \A i \in 1..n : record(i) = NoText
    BY <2>2
  <2>4. SaysWhatWasTold(json)
    <3> HIDE DEF n, record, events, doc
    <3> QED BY <1>4, <1>5, <2>3 DEF SaysWhatWasTold
  <2> QED BY <1>2, <1>3, <1>7, <2>2, <2>4
<1> QED BY <1>6, <1>7

\* The files are in order after an export, whatever of it was written.
LEMMA WrittenOK ==
  ASSUME TypeOK, CompileInv, NEW s \in Sessions, task[s].at = "compiled",
         NEW fs \in SUBSET ToSet(Formats), files' = Written(s, fs), UNCHANGED provider,
         \A r \in Sessions : rows'[r] # <<>> <=> rows[r] # <<>>
  PROVE  /\ \A r \in Sessions : \A f \in ToSet(Formats) : FileOK(r, f)'
         /\ \A r \in Sessions, f \in ToSet(Formats) : files[r][f].of = r => files'[r][f].of = r
         /\ \A f \in fs : files'[s][f].of = s
         /\ \A x \in reports : ReportStands(x)'
         /\ \A f \in fs :
              provider' = "openai_compatible" /\ rows'[s] # <<>> /\ ~task[s].doc.degraded =>
                Complete(files'[s][f].doc)
<1>1. \A r \in Sessions, f \in ToSet(Formats) :
        files'[r][f] = IF r = s /\ f \in fs THEN Artifact(s, f) ELSE files[r][f]
  BY WrittenFiles
<1>2. \A f : /\ Artifact(s, f).of = s /\ SaysWhatWasTold(Artifact(s, f).doc)
             /\ provider = "openai_compatible" /\ rows[s] # <<>> /\ ~task[s].doc.degraded =>
                  Complete(Artifact(s, f).doc)
  BY ArtifactOK, ArtifactOfSession
<1>3. ASSUME NEW r \in Sessions, NEW f \in ToSet(Formats) PROVE FileOK(r, f)'
  <2>1. FileOK(r, f)
    BY DEF CompileInv, FilesOK
  <2>2. FileOK(r, f)' <=> files'[r][f].of \in {0, r} /\ SaysWhatWasTold(files'[r][f].doc)
    BY DEF FileOK, SaysWhatWasTold
  <2>3. FileOK(r, f) <=> files[r][f].of \in {0, r} /\ SaysWhatWasTold(files[r][f].doc)
    BY DEF FileOK
  <2> QED BY <1>1, <1>2, <2>1, <2>2, <2>3
<1>4. ASSUME NEW x \in reports PROVE ReportStands(x)'
  <2>1. x.s # s /\ x.s \in Sessions /\ x.paths \subseteq ToSet(Formats)
    BY DEF CompileInv, TaskOK, Busy, TypeOK
  <2>2. \A f \in x.paths : files'[x.s][f] = files[x.s][f]
    BY <1>1, <2>1
  <2>3. ReportStands(x)
    BY DEF CompileInv, FilesOK
  <2>4. rows'[x.s] # <<>> <=> rows[x.s] # <<>>
    BY <2>1
  <2> QED BY <2>2, <2>3, <2>4 DEF ReportStands, Complete
<1> QED BY <1>1, <1>2, <1>3, <1>4

LEMMA ExportsKeeps ==
  ASSUME TypeOK, CompileInv, NEW s \in Sessions, Exports(s)
  PROVE  CompileInv' /\ TypeOK'
<1>1. PICK fs \in SUBSET ToSet(Formats) :
        /\ files' = Written(s, fs)
        /\ status' = [status EXCEPT ![s] = IF fs = {} THEN @ ELSE "compiled"]
        /\ reports' = reports \union {[s |-> s, paths |-> fs, degraded |-> task[s].doc.degraded]}
  BY DEF Exports
<1>0. PICK x : x = [s |-> s, paths |-> fs, degraded |-> task[s].doc.degraded]
  OBVIOUS
<1>2. /\ task[s].at = "compiled" /\ UNCHANGED <<provider, phase, rows>>
      /\ task' = [task EXCEPT ![s] = [NoTask EXCEPT !.at = "over"]]
  BY DEF Exports
<1>3. faults' \in Nat
  BY FaultTyped DEF Exports
<1>4. status[s] = "closed" /\ \A y \in reports : y.s # s
  BY <1>2 DEF CompileInv, TaskOK, Busy
<1>5. /\ \A r \in Sessions : status'[r] = IF r = s /\ fs # {} THEN "compiled" ELSE status[r]
      /\ status' \in [Sessions -> {"open", "closed", "compiled"}]
  BY <1>1 DEF TypeOK
<1>6. /\ DOMAIN task' = Sessions
      /\ \A r \in Sessions : r # s => task'[r] = task[r]
      /\ task'[s].at = "over" /\ task'[s].bundle = <<>>
      /\ DOMAIN task'[s] = {"at", "bundle", "answers", "doc"}
  BY <1>2 DEF TypeOK, NoTask
<1>7. x.s = s /\ x.paths = fs /\ x.degraded = task[s].doc.degraded /\ reports' = reports \union {x}
  BY <1>0, <1>1
<1>8. TypeOK'
  <2>1. /\ DOMAIN files' = Sessions
        /\ \A r \in Sessions : /\ DOMAIN files'[r] = ToSet(Formats)
                               /\ \A f \in ToSet(Formats) : files'[r][f].of \in {0} \union Sessions
    <3>1. /\ DOMAIN files' = Sessions
          /\ \A r \in Sessions :
               /\ DOMAIN files'[r] = ToSet(Formats)
               /\ \A f \in ToSet(Formats) :
                    files'[r][f] = IF r = s /\ f \in fs THEN Artifact(s, f) ELSE files[r][f]
      BY <1>1, WrittenFiles
    <3> QED BY <3>1, ArtifactOfSession DEF TypeOK
  <2>2. \A y \in reports' : y.s \in Sessions /\ y.paths \subseteq ToSet(Formats)
    BY <1>7 DEF TypeOK
  <2>3. \A r \in Sessions :
          /\ DOMAIN task'[r] = {"at", "bundle", "answers", "doc"}
          /\ task'[r].at \in {"none", "scheduled", "blocks", "session", "compiled", "over"}
          /\ task'[r].bundle \in Seq(Events)
    BY <1>6, NoTaskTyped DEF TypeOK
  <2>4. provider' \in Providers /\ phase' \in {"up", "quitting", "off"} /\ rows' \in [Sessions -> Seq(Events)]
    BY <1>2 DEF TypeOK
  <2> QED BY <1>3, <1>5, <1>6, <2>1, <2>2, <2>3, <2>4 DEF TypeOK
<1>9. /\ \A r \in Sessions : \A f \in ToSet(Formats) : FileOK(r, f)'
      /\ \A r \in Sessions, f \in ToSet(Formats) : files[r][f].of = r => files'[r][f].of = r
      /\ \A f \in fs : files'[s][f].of = s
      /\ \A y \in reports : ReportStands(y)'
      /\ \A f \in fs :
           provider' = "openai_compatible" /\ rows'[s] # <<>> /\ ~task[s].doc.degraded =>
             Complete(files'[s][f].doc)
  BY <1>1, <1>2, WrittenOK
<1>10. ASSUME NEW r \in Sessions PROVE TaskOK(r, task[r])'
  <2>1. CASE r = s
    <3>1. task'[r].at = "over"
      BY <1>6, <2>1
    <3> QED BY <3>1 DEF TaskOK, Asking, Busy
  <2>2. CASE r # s
    <3>1. TaskOK(r, task[r]) /\ task'[r] = task[r] /\ status'[r] = status[r]
      BY <1>5, <1>6, <2>2 DEF CompileInv
    <3>2. (\A y \in reports' : y.s # r) <=> (\A y \in reports : y.s # r)
      BY <1>7, <2>2
    <3> QED BY <1>2, <3>1, <3>2 DEF TaskOK, DocOf
  <2> QED BY <2>1, <2>2
<1>11. ReportOK'
  <2>1. \A y \in reports : y.s \in Sessions /\ status[y.s] # "open"
    BY DEF CompileInv, ReportOK, TypeOK
  <2> QED BY <1>4, <1>5, <1>7, <2>1 DEF ReportOK
<1>12. FilesOK'
  <2>1. \A r \in Sessions : status'[r] = "compiled" => \E f \in ToSet(Formats) : files'[r][f].of = r
    <3>1. \A r \in Sessions : status[r] = "compiled" => \E f \in ToSet(Formats) : files[r][f].of = r
      BY DEF CompileInv, FilesOK
    <3>2. fs # {} => \E f \in ToSet(Formats) : files'[s][f].of = s
      BY <1>9
    <3> QED BY <1>5, <1>9, <3>1, <3>2
  <2>2. ReportStands(x)'
    BY <1>7, <1>9 DEF ReportStands
  <2>3. \A y \in reports' : ReportStands(y)'
    BY <1>7, <1>9, <2>2
  <2> QED BY <1>9, <2>1, <2>3 DEF FilesOK
<1> QED BY <1>8, <1>10, <1>11, <1>12 DEF CompileInv

\* The end of the process keeps it: no task is left.
LEMMA EndedKeeps ==
  ASSUME TypeOK, CompileInv, Ended, faults' \in Nat, UNCHANGED <<provider, status, reports>>,
         \/ UNCHANGED files
         \/ \E s \in Sessions, fs \in SUBSET ToSet(Formats) :
              task[s].at = "compiled" /\ files' = Written(s, fs)
  PROVE  CompileInv' /\ TypeOK'
<1>1. TypeOK' /\ \A r \in Sessions : rows'[r] # <<>> <=> rows[r] # <<>>
  BY EndedTyped
<1>2. ASSUME NEW r \in Sessions PROVE TaskOK(r, task[r])'
  <2>1. task'[r].at = "none"
    BY NoTaskTyped DEF Ended
  <2> QED BY <2>1 DEF TaskOK, Asking, Busy
<1>3. ReportOK'
  BY DEF CompileInv, ReportOK
<1>4. FilesOK'
  <2>1. CASE UNCHANGED files
    <3>1. \A x \in reports : x.s \in Sessions
      BY DEF TypeOK
    <3> QED BY <1>1, <2>1, <3>1 DEF CompileInv, FilesOK, FileOK, ReportStands
  <2>2. CASE \E s \in Sessions, fs \in SUBSET ToSet(Formats) :
               task[s].at = "compiled" /\ files' = Written(s, fs)
    <3>1. PICK s \in Sessions, fs \in SUBSET ToSet(Formats) :
            task[s].at = "compiled" /\ files' = Written(s, fs)
      BY <2>2
    <3>2. /\ \A r \in Sessions : \A f \in ToSet(Formats) : FileOK(r, f)'
          /\ \A r \in Sessions, f \in ToSet(Formats) : files[r][f].of = r => files'[r][f].of = r
          /\ \A x \in reports : ReportStands(x)'
      BY <1>1, <3>1, WrittenOK
    <3>3. \A r \in Sessions : status[r] = "compiled" => \E f \in ToSet(Formats) : files[r][f].of = r
      BY DEF CompileInv, FilesOK
    <3> QED BY <3>2, <3>3 DEF FilesOK
  <2> QED BY <2>1, <2>2
<1> QED BY <1>1, <1>2, <1>3, <1>4 DEF CompileInv

LEMMA CompileStep ==
  ASSUME TypeOK, CompileInv, [Next]_vars
  PROVE  TypeOK' /\ CompileInv'
<1>1. ASSUME NEW s \in Sessions, Close(s) PROVE TypeOK' /\ CompileInv'
  <2>1. PICK t : t = [task[s] EXCEPT !.at = "scheduled"]
    OBVIOUS
  <2>2. /\ t.at = "scheduled" /\ t.bundle \in Seq(Events)
        /\ DOMAIN t = {"at", "bundle", "answers", "doc"}
    BY <2>1 DEF TypeOK
  <2>3. Tasked(s, t) /\ status' = [status EXCEPT ![s] = "closed"] /\ UNCHANGED faults
    BY <1>1, <2>1, CloseTasked
  <2>4. status[s] = "open"
    BY <1>1 DEF Close
  <2>5. TypeOK'
    BY <2>2, <2>3, TaskTyped DEF Tasked, TypeOK, Ats
  <2>6. status'[s] = "closed" /\ UNCHANGED reports /\ \A x \in reports : x.s # s
    BY <2>3, <2>4 DEF Tasked, TypeOK, CompileInv, ReportOK
  <2>7. TaskOK(s, t)'
    BY <2>2, <2>6 DEF TaskOK, Asking
  <2> QED BY <2>3, <2>4, <2>5, <2>7, TaskedKeeps
\* The steps of a task that is due.
<1>2. ASSUME NEW s \in Sessions, NEW t, Tasked(s, t), UNCHANGED status, faults' \in Nat,
             task[s].at \in Busy, t.at \in Asking \union {"compiled"}, t.bundle \in Seq(Events),
             DOMAIN t = {"at", "bundle", "answers", "doc"},
             rows[s] # <<>> => t.bundle # <<>>,
             t.at \in Asking =>
               provider = "openai_compatible" /\ t.bundle # <<>> /\ AnswersOf(t.bundle, t.answers),
             t.at = "compiled" => DocOf(t.bundle, t.answers, t.doc)
      PROVE  TypeOK' /\ CompileInv'
  <2>1. TypeOK'
    BY <1>2, TaskTyped DEF Tasked, TypeOK, Ats, Asking
  <2>2. TaskOK(s, task[s])
    BY DEF CompileInv
  <2>3. UNCHANGED <<provider, rows, reports>>
    BY <1>2 DEF Tasked
  <2>4. TaskOK(s, t)'
    BY <1>2, <2>2, <2>3 DEF TaskOK, DocOf
  <2> QED BY <1>2, <2>1, <2>4, TaskedKeeps
<1>3. ASSUME NEW s \in Sessions, Begins(s) PROVE TypeOK' /\ CompileInv'
  <2>1. /\ \E t : /\ Tasked(s, t) /\ t.bundle = LoadBundle(s)
                  /\ DOMAIN t = {"at", "bundle", "answers", "doc"}
                  /\ \/ /\ provider = "openai_compatible" /\ LoadBundle(s) # <<>>
                        /\ t.at = "blocks" /\ AnswersOf(t.bundle, t.answers)
                     \/ t.at = "compiled" /\ DocOf(t.bundle, t.answers, t.doc)
        /\ task[s].at = "scheduled" /\ UNCHANGED <<status, faults>>
    BY <1>3, BeginsTasked
  <2>2. PICK t : /\ Tasked(s, t) /\ t.bundle = LoadBundle(s)
                 /\ DOMAIN t = {"at", "bundle", "answers", "doc"}
                 /\ \/ /\ provider = "openai_compatible" /\ LoadBundle(s) # <<>>
                       /\ t.at = "blocks" /\ AnswersOf(t.bundle, t.answers)
                    \/ t.at = "compiled" /\ DocOf(t.bundle, t.answers, t.doc)
    BY <2>1
  <2>3. LoadBundle(s) \in Seq(Events) /\ (LoadBundle(s) # <<>> <=> rows[s] # <<>>)
    BY BundleLoaded
  <2>4. task[s].at \in Busy /\ UNCHANGED status /\ faults' \in Nat
    BY <2>1 DEF Busy, TypeOK
  <2>5. "blocks" \in Asking /\ "compiled" \notin Asking
    BY DEF Asking
  <2> QED BY <1>2, <2>2, <2>3, <2>4, <2>5
<1>4. ASSUME NEW s \in Sessions, NEW i \in DOMAIN task[s].answers, Answers(s, i)
      PROVE  TypeOK' /\ CompileInv'
  <2>1. /\ task[s].at = "blocks" /\ task[s].at \in Asking /\ task[s].at \in Busy
        /\ task[s].bundle \in Seq(Events)
    BY <1>4 DEF Answers, Asking, Busy, TypeOK
  <2>2. /\ provider = "openai_compatible" /\ task[s].bundle # <<>>
        /\ AnswersOf(task[s].bundle, task[s].answers)
    BY <2>1 DEF CompileInv, TaskOK
  <2>3. /\ \E t : /\ Tasked(s, t) /\ t.bundle = task[s].bundle /\ t.at = "blocks"
                  /\ DOMAIN t = {"at", "bundle", "answers", "doc"}
                  /\ AnswersOf(t.bundle, t.answers)
        /\ UNCHANGED status /\ faults' \in Nat
    BY <1>4, <2>2, AnswersTasked
  <2>4. PICK t : /\ Tasked(s, t) /\ t.bundle = task[s].bundle /\ t.at = "blocks"
                 /\ DOMAIN t = {"at", "bundle", "answers", "doc"}
                 /\ AnswersOf(t.bundle, t.answers)
    BY <2>3
  <2>5. "blocks" \in Asking
    BY DEF Asking
  <2> QED BY <1>2, <2>1, <2>2, <2>3, <2>4, <2>5
<1>5. ASSUME NEW s \in Sessions, Gathered(s) \/ Summarised(s) PROVE TypeOK' /\ CompileInv'
  <2>1. /\ \E t : /\ Tasked(s, t) /\ t.bundle = task[s].bundle /\ t.answers = task[s].answers
                  /\ DOMAIN t = {"at", "bundle", "answers", "doc"}
                  /\ \/ t.at = "session"
                     \/ /\ t.at = "compiled"
                        /\ \E m \in Wholes : t.doc = LlmDoc(t.bundle, t.answers, m)
        /\ task[s].at \in Asking /\ UNCHANGED status /\ faults' \in Nat
    BY <1>5, AskedTasked
  <2>2. PICK t : /\ Tasked(s, t) /\ t.bundle = task[s].bundle /\ t.answers = task[s].answers
                 /\ DOMAIN t = {"at", "bundle", "answers", "doc"}
                 /\ \/ t.at = "session"
                    \/ /\ t.at = "compiled"
                       /\ \E m \in Wholes : t.doc = LlmDoc(t.bundle, t.answers, m)
    BY <2>1
  <2>3. /\ provider = "openai_compatible" /\ task[s].bundle # <<>>
        /\ AnswersOf(task[s].bundle, task[s].answers)
    BY <2>1 DEF CompileInv, TaskOK
  <2>4. task[s].at \in Busy /\ task[s].bundle \in Seq(Events) /\ t.at \in Asking \union {"compiled"}
    BY <2>1, <2>2 DEF Busy, Asking, TypeOK
  <2>5. t.at = "compiled" => DocOf(t.bundle, t.answers, t.doc)
    <3>1. "session" # "compiled"
      OBVIOUS
    <3> QED BY <2>2, <2>3, <3>1 DEF DocOf
  <2> QED BY <1>2, <2>1, <2>2, <2>3, <2>4, <2>5
<1>6. ASSUME NEW s \in Sessions, Exports(s) PROVE TypeOK' /\ CompileInv'
  BY <1>6, ExportsKeeps
<1>7. ASSUME NEW s \in Sessions, CrashWriting(s) PROVE TypeOK' /\ CompileInv'
  <2>1. PICK n \in 1..Len(Formats) : files' = Written(s, ToSet(SubSeq(Formats, 1, n)))
    BY <1>7 DEF CrashWriting
  <2>2. task[s].at = "compiled" /\ Ended /\ Fault /\ UNCHANGED <<provider, status, reports>>
    BY <1>7 DEF CrashWriting
  <2>3. faults' \in Nat
    BY <2>2, FaultTyped
  <2>4. ToSet(SubSeq(Formats, 1, n)) \in SUBSET ToSet(Formats)
    BY SomeFormats
  <2> QED BY <2>1, <2>2, <2>3, <2>4, EndedKeeps
<1>8. ASSUME NEW s \in Sessions, NEW i \in DOMAIN rows[s], Extracted(s, i)
      PROVE  TypeOK' /\ CompileInv'
  <2>1. /\ rows' \in [Sessions -> Seq(Events)]
        /\ \A r \in Sessions : rows'[r] # <<>> <=> rows[r] # <<>>
    BY <1>8, TimelineRead
  <2>2. UNCHANGED <<provider, phase, status, task, files, reports>> /\ faults' \in Nat
    BY <1>8, FaultTyped DEF Extracted
  <2>3. TypeOK'
    BY <2>1, <2>2 DEF TypeOK
  <2>4. ASSUME NEW r \in Sessions PROVE TaskOK(r, task[r])'
    <3>1. TaskOK(r, task[r])
      BY DEF CompileInv
    <3> QED BY <2>1, <2>2, <3>1 DEF TaskOK, DocOf
  <2>5. ReportOK'
    BY <2>2 DEF CompileInv, ReportOK
  <2>6. FilesOK'
    <3>1. \A x \in reports : x.s \in Sessions
      BY DEF TypeOK
    <3> QED BY <2>1, <2>2, <3>1 DEF CompileInv, FilesOK, FileOK, ReportStands
  <2> QED BY <2>3, <2>4, <2>5, <2>6 DEF CompileInv
<1>9. CASE Stop \/ Crash
  <2>1. Ended /\ UNCHANGED <<provider, status, files, reports>> /\ faults' \in Nat
    BY <1>9, FaultTyped DEF Stop, Crash
  <2> QED BY <2>1, EndedKeeps
<1>10. CASE Quit \/ Launch \/ UNCHANGED vars
  <2>1. /\ UNCHANGED <<provider, rows, status, task, files, reports, faults>>
        /\ phase' \in {phase, "quitting", "up"}
    BY <1>10 DEF Quit, Launch, vars
  <2>2. TypeOK'
    BY <2>1 DEF TypeOK
  <2>3. ASSUME NEW r \in Sessions PROVE TaskOK(r, task[r])'
    <3>1. TaskOK(r, task[r])
      BY DEF CompileInv
    <3> QED BY <2>1, <3>1 DEF TaskOK, DocOf
  <2>4. ReportOK' /\ FilesOK'
    BY <2>1 DEF CompileInv, ReportOK, FilesOK, FileOK, ReportStands
  <2> QED BY <2>2, <2>3, <2>4 DEF CompileInv
<1>11. \/ \E s \in Sessions :
            \/ Close(s) \/ Begins(s) \/ Gathered(s) \/ Summarised(s) \/ Exports(s) \/ CrashWriting(s)
            \/ \E i \in DOMAIN rows[s] : Extracted(s, i)
            \/ \E i \in DOMAIN task[s].answers : Answers(s, i)
       \/ Stop \/ Crash \/ Quit \/ Launch \/ UNCHANGED vars
  BY DEF Next
<1> QED BY <1>1, <1>3, <1>4, <1>5, <1>6, <1>7, <1>8, <1>9, <1>10, <1>11

-----------------------------------------------------------------------------
\* Theorems.

LEMMA CompileInvariant == Spec => [](TypeOK /\ CompileInv)
<1>1. Init => TypeOK /\ CompileInv
  BY TypesInit, CompileInvInit
<1>2. TypeOK /\ CompileInv /\ [Next]_vars => TypeOK' /\ CompileInv'
  BY CompileStep
<1> QED BY <1>1, <1>2, PTL DEF Spec

\* Types: the timelines stay sequences of events while keyframes are read and when a
\* crash cuts them off, and every artifact and report is of a session.
THEOREM CompileTyped == Spec => []TypeOK
  BY CompileInvariant, PTL

\* Whatever order the model answers in, whichever answers fail and however many
\* sessions are compiled at once: what a document or its sidecar says of a block is
\* what the model was told about that block of that session.
THEOREM SummariesAlways == Spec => []SummariesOfTheirBlocks
  BY CompileInvariant, CompileInvSays, PTL

\* What _run_compile() reported stands, through every later compilation, crash and
\* restart: the artifacts are those of the session, and complete if not degraded.
THEOREM ReportedAlways == Spec => []ReportedStands
  BY CompileInvariant, CompileInvSays, PTL

-----------------------------------------------------------------------------
(***************************************************************************)
(* The parts of the timeline in the artifacts.  From the end of a session  *)
(* on its events keep their order, time, kind and application, and all but *)
(* keyframes their words; a bundle agrees with the timeline in this.       *)
(***************************************************************************)
Agree(x, y) ==
  /\ Len(x) = Len(y)
  /\ \A i \in 1..Len(x) :
       /\ x[i].ts = y[i].ts /\ x[i].kind = y[i].kind /\ x[i].app = y[i].app
       /\ x[i].kind # "keyframe" => x[i] = y[i]

\* What an artifact has of a part of the timeline: what _build_blocks() and
\* _render_block() make of its events, but for the words of the model.
KeptInSidecar(block, part) ==
  \E summary : block = [Record(part) EXCEPT !.app = FirstApp(part), !.summary = summary,
                                            !.gaps = Of(part, {"pause_start", "pause_end", "gap"})]

KeptInDocument(section, part) ==
  \E narrative : section = [Section(part) EXCEPT !.narrative = narrative]

MadeOf(p, f, doc, events) ==
  LET n == Len(SplitBlocks(events))
  IN  /\ f = "json" =>
           /\ DOMAIN doc.blocks = 1..n
           /\ \A k \in 1..n : KeptInSidecar(doc.blocks[k], SplitBlocks(events)[k])
      /\ f = "markdown" /\ p # "none" =>
           /\ DOMAIN doc.sections = 1..n
           /\ \A k \in 1..n : KeptInDocument(doc.sections[k], SplitBlocks(events)[k])

Bundled == Asking \union {"compiled"}

CutInv ==
  /\ \A s \in Sessions : task[s].at \in Bundled => Agree(task[s].bundle, rows[s])
  /\ \A s \in Sessions, f \in ToSet(Formats) : files[s][f].of = s =>
       \E e \in Seq(Events) : Agree(e, rows[s]) /\ MadeOf(provider, f, files[s][f].doc, e)

LEMMA AgreeIsEquivalence ==
  /\ \A x : Agree(x, x)
  /\ \A x, y, z : Agree(x, y) /\ Agree(y, z) => Agree(x, z)
  BY DEF Agree

LEMMA JsonIsMadeOf ==
  ASSUME NEW events, NEW records
  PROVE  LET n == Len(SplitBlocks(events))
         IN  /\ DOMAIN JsonBlocks(events, records) = 1..n
             /\ \A k \in 1..n : KeptInSidecar(JsonBlocks(events, records)[k], SplitBlocks(events)[k])
  BY DEF JsonBlocks, KeptInSidecar

LEMMA RulesAreMadeOf ==
  ASSUME NEW events
  PROVE  LET n == Len(SplitBlocks(events))
         IN  /\ DOMAIN RulesDoc(events).sections = 1..n
             /\ \A k \in 1..n : KeptInDocument(RulesDoc(events).sections[k], SplitBlocks(events)[k])
<1>1. \A b : Section(b) = [Section(b) EXCEPT !.narrative = NoText]
  BY DEF Section
<1>2. /\ DOMAIN RulesDoc(events).sections = 1..Len(SplitBlocks(events))
      /\ \A k \in 1..Len(SplitBlocks(events)) : RulesDoc(events).sections[k] = Section(SplitBlocks(events)[k])
  BY DEF RulesDoc
<1> QED BY <1>1, <1>2 DEF KeptInDocument

LEMMA LlmIsMadeOf ==
  ASSUME NEW events, NEW answers, NEW m, AnswersOf(events, answers)
  PROVE  LET n == Len(SplitBlocks(events))
             doc == LlmDoc(events, answers, m)
         IN  /\ DOMAIN doc.sections = 1..n
             /\ \A k \in 1..n : KeptInDocument(doc.sections[k], SplitBlocks(events)[k])
<1> DEFINE n == Len(SplitBlocks(events))
<1>1. DOMAIN answers = 1..n
  BY DEF AnswersOf
<1>2. \A k \in 1..n : RulesDoc(events).sections[k] = Section(SplitBlocks(events)[k])
  BY DEF RulesDoc
<1> HIDE DEF n
<1>3. /\ DOMAIN LlmDoc(events, answers, m).sections = 1..n
      /\ \A k \in 1..n : LlmDoc(events, answers, m).sections[k] =
                           [RulesDoc(events).sections[k] EXCEPT !.narrative = answers[k].body]
  BY <1>1 DEF LlmDoc
<1>4. ASSUME NEW k \in 1..n
      PROVE  KeptInDocument(LlmDoc(events, answers, m).sections[k], SplitBlocks(events)[k])
  <2>1. PICK x : x = RulesDoc(events).sections[k]
    OBVIOUS
  <2>2. LlmDoc(events, answers, m).sections[k] = [x EXCEPT !.narrative = answers[k].body]
    BY <1>3, <2>1
  <2>3. x = Section(SplitBlocks(events)[k])
    BY <1>2, <2>1
  <2> QED BY <2>2, <2>3 DEF KeptInDocument
<1> QED BY <1>3, <1>4 DEF n

\* What is exported is made of the bundle.
LEMMA ArtifactIsMadeOf ==
  ASSUME TypeOK, CompileInv, NEW s \in Sessions, task[s].at = "compiled", NEW f
  PROVE  MadeOf(provider, f, Artifact(s, f).doc, task[s].bundle)
<1> DEFINE events == task[s].bundle
           doc == task[s].doc
           n == Len(SplitBlocks(events))
<1>1. DocOf(events, task[s].answers, doc)
  BY DEF CompileInv, TaskOK
<1>2. ASSUME f = "json"
      PROVE  Artifact(s, f).doc.blocks = JsonBlocks(events, doc.blocks)
  <2>1. \A e, a, m : "blocks" \in DOMAIN LlmDoc(e, a, m)
    BY DEF LlmDoc
  <2>2. \A e : "blocks" \in DOMAIN DumpDoc(e) /\ "blocks" \in DOMAIN RulesDoc(e)
    BY DEF DumpDoc, RulesDoc
  <2>3. "blocks" \in DOMAIN doc
    BY <1>1, <2>1, <2>2 DEF DocOf
  <2>4. Artifact(s, f).doc = [doc EXCEPT !.sections = <<>>, !.blocks = JsonBlocks(events, doc.blocks)]
    BY <1>2 DEF Artifact
  <2> HIDE DEF doc, events
  <2> QED BY <2>3, <2>4
<1>3. ASSUME f = "markdown", provider # "none"
      PROVE  /\ Artifact(s, f).doc = doc /\ DOMAIN doc.sections = 1..n
             /\ \A k \in 1..n : KeptInDocument(doc.sections[k], SplitBlocks(events)[k])
  <2>1. Artifact(s, f).doc = doc
    BY <1>3 DEF Artifact
  <2>2. CASE provider = "openai_compatible" /\ events # <<>>
    <3>1. PICK m \in Wholes : doc = LlmDoc(events, task[s].answers, m)
      BY <1>1, <2>2 DEF DocOf
    <3>2. AnswersOf(events, task[s].answers)
      BY <1>1, <2>2 DEF DocOf
    <3> HIDE DEF doc, events
    <3> QED BY <2>1, <3>1, <3>2, LlmIsMadeOf
  <2>3. CASE ~(provider = "openai_compatible" /\ events # <<>>)
    <3>1. doc = RulesDoc(events)
      BY <1>1, <1>3, <2>3 DEF DocOf
    <3> HIDE DEF doc, events
    <3> QED BY <2>1, <3>1, RulesAreMadeOf
  <2> QED BY <2>2, <2>3
<1>4. /\ DOMAIN JsonBlocks(events, doc.blocks) = 1..n
      /\ \A k \in 1..n : KeptInSidecar(JsonBlocks(events, doc.blocks)[k], SplitBlocks(events)[k])
  <2> HIDE DEF events, doc
  <2> QED BY JsonIsMadeOf
<1> HIDE DEF doc
<1> QED BY <1>2, <1>3, <1>4 DEF MadeOf

\* What a bundle has of a timeline, and what reading keyframes or the end of the
\* process leave of it.
LEMMA LoadingAgrees ==
  ASSUME TypeOK, NEW s \in Sessions
  PROVE  Agree(LoadBundle(s), rows[s])
<1>1. rows[s] \in Seq(Events) /\ Len(rows[s]) \in Nat
  BY DEF TypeOK
<1>2. Len(LoadBundle(s)) = Len(rows[s])
  BY <1>1 DEF LoadBundle
<1>3. ASSUME NEW i \in 1..Len(rows[s])
      PROVE  /\ LoadBundle(s)[i].ts = rows[s][i].ts /\ LoadBundle(s)[i].kind = rows[s][i].kind
             /\ LoadBundle(s)[i].app = rows[s][i].app
             /\ LoadBundle(s)[i].kind # "keyframe" => LoadBundle(s)[i] = rows[s][i]
  <2>1. rows[s][i] \in Events
    BY <1>1, ElementOfSeq
  <2>2. LoadBundle(s)[i] = IF rows[s][i].ocr = "pending" THEN Unread(rows[s][i]) ELSE rows[s][i]
    BY DEF LoadBundle
  <2>3. PICK e : e = rows[s][i]
    OBVIOUS
  <2>4. /\ Unread(e).ts = e.ts /\ Unread(e).kind = e.kind /\ Unread(e).app = e.app
        /\ e.ocr = "pending" => e.kind = "keyframe"
    BY <2>1, <2>3 DEF Unread, Events
  <2> QED BY <2>2, <2>3, <2>4
<1> QED BY <1>2, <1>3 DEF Agree

LEMMA ReadingAgrees ==
  ASSUME TypeOK, NEW s \in Sessions, NEW i \in DOMAIN rows[s], Extracted(s, i)
  PROVE  \A r \in Sessions : Agree(rows[r], rows'[r])
<1>1. rows \in [Sessions -> Seq(Events)] /\ rows[s] \in Seq(Events) /\ i \in 1..Len(rows[s])
  BY DEF TypeOK
<1>2. rows[s][i] \in Events /\ rows[s][i].ocr = "pending"
  BY <1>1, ElementOfSeq DEF Extracted
<1>3. PICK e : /\ rows' = [rows EXCEPT ![s] = [rows[s] EXCEPT ![i] = e]]
               /\ e.ts = rows[s][i].ts /\ e.kind = rows[s][i].kind /\ e.app = rows[s][i].app
               /\ e.kind = "keyframe"
  <2>1. CASE rows' = [rows EXCEPT ![s][i].ocr = "ok"]
    <3>1. PICK e : e = [rows[s][i] EXCEPT !.ocr = "ok"]
      OBVIOUS
    <3>2. /\ e.ts = rows[s][i].ts /\ e.kind = rows[s][i].kind /\ e.app = rows[s][i].app
          /\ rows[s][i].kind = "keyframe"
      BY <1>2, <3>1 DEF Events
    <3>3. rows' = [rows EXCEPT ![s] = [rows[s] EXCEPT ![i] = e]]
      BY <1>1, <2>1, <3>1
    <3> QED BY <3>2, <3>3
  <2>2. CASE rows' = [rows EXCEPT ![s][i].ocr = "failed", ![s][i].text = <<>>]
    <3>1. PICK e : e = [rows[s][i] EXCEPT !.ocr = "failed", !.text = <<>>]
      OBVIOUS
    <3>2. /\ e.ts = rows[s][i].ts /\ e.kind = rows[s][i].kind /\ e.app = rows[s][i].app
          /\ rows[s][i].kind = "keyframe"
      BY <1>2, <3>1 DEF Events
    <3>3. rows' = [rows EXCEPT ![s] = [rows[s] EXCEPT ![i] = e]]
      BY <1>1, <2>2, <3>1
    <3> QED BY <3>2, <3>3
  <2> QED BY <2>1, <2>2 DEF Extracted
<1>4. /\ \A r \in Sessions : r # s => rows'[r] = rows[r]
      /\ Len(rows'[s]) = Len(rows[s])
      /\ \A j \in 1..Len(rows[s]) : rows'[s][j] = IF j = i THEN e ELSE rows[s][j]
  BY <1>1, <1>3
<1>5. Agree(rows[s], rows'[s])
  BY <1>3, <1>4 DEF Agree
<1> QED BY <1>4, <1>5, AgreeIsEquivalence

LEMMA EndingAgrees ==
  ASSUME TypeOK, Ended
  PROVE  \A r \in Sessions : Agree(rows[r], rows'[r])
<1>1. ASSUME NEW r \in Sessions PROVE Agree(rows[r], rows'[r])
  <2>1. rows'[r] = LoadBundle(r)
    BY DEF Ended
  <2>2. Agree(LoadBundle(r), rows[r])
    BY LoadingAgrees
  <2> QED BY <2>1, <2>2 DEF Agree
<1> QED BY <1>1

\* What a step must leave for it to be kept.
LEMMA CutKept ==
  ASSUME CutInv, UNCHANGED provider, \A r \in Sessions : Agree(rows[r], rows'[r]),
         \A r \in Sessions : task'[r].at \in Bundled => Agree(task'[r].bundle, rows[r]),
         \A r \in Sessions, f \in ToSet(Formats) :
           \/ files'[r][f] = files[r][f]
           \/ \E e \in Seq(Events) : Agree(e, rows[r]) /\ MadeOf(provider, f, files'[r][f].doc, e)
  PROVE  CutInv'
<1>1. ASSUME NEW r \in Sessions, task'[r].at \in Bundled PROVE Agree(task'[r].bundle, rows'[r])
  BY <1>1, AgreeIsEquivalence
<1>2. ASSUME NEW r \in Sessions, NEW f \in ToSet(Formats), files'[r][f].of = r
      PROVE  \E e \in Seq(Events) : Agree(e, rows'[r]) /\ MadeOf(provider', f, files'[r][f].doc, e)
  <2>1. PICK e \in Seq(Events) : Agree(e, rows[r]) /\ MadeOf(provider, f, files'[r][f].doc, e)
    <3>1. CASE files'[r][f] = files[r][f]
      BY <1>2, <3>1 DEF CutInv
    <3> QED BY <3>1
  <2>2. Agree(e, rows'[r])
    BY <2>1, AgreeIsEquivalence
  <2> QED BY <2>1, <2>2
<1>3. Bundled' = Bundled
  BY DEF Bundled, Asking
<1> QED BY <1>1, <1>2, <1>3 DEF CutInv

\* A step that gives one session another task.
LEMMA TaskedCuts ==
  ASSUME TypeOK, CutInv, NEW s \in Sessions, NEW t, Tasked(s, t),
         t.at \in Bundled => Agree(t.bundle, rows[s])
  PROVE  CutInv'
<1>1. DOMAIN task' = Sessions /\ \A r \in Sessions : task'[r] = IF r = s THEN t ELSE task[r]
  BY DEF TypeOK, Tasked
<1>2. UNCHANGED <<provider, rows, files>>
  BY DEF Tasked
<1>3. \A r \in Sessions : task'[r].at \in Bundled => Agree(task'[r].bundle, rows[r])
  BY <1>1 DEF CutInv
<1>4. \A r \in Sessions : Agree(rows[r], rows'[r])
  BY <1>2, AgreeIsEquivalence
<1> QED BY <1>2, <1>3, <1>4, CutKept

\* What an export leaves.
LEMMA WrittenCuts ==
  ASSUME TypeOK, CompileInv, CutInv, NEW s \in Sessions, task[s].at = "compiled",
         NEW fs \in SUBSET ToSet(Formats), files' = Written(s, fs)
  PROVE  \A r \in Sessions, f \in ToSet(Formats) :
           \/ files'[r][f] = files[r][f]
           \/ \E e \in Seq(Events) : Agree(e, rows[r]) /\ MadeOf(provider, f, files'[r][f].doc, e)
<1> SUFFICES ASSUME NEW r \in Sessions, NEW f \in ToSet(Formats), files'[r][f] # files[r][f]
             PROVE  \E e \in Seq(Events) : Agree(e, rows[r]) /\ MadeOf(provider, f, files'[r][f].doc, e)
  OBVIOUS
<1>1. r = s /\ files'[r][f] = Artifact(s, f)
  BY WrittenFiles
<1>2. task[s].bundle \in Seq(Events)
  BY DEF TypeOK
<1>3. Agree(task[s].bundle, rows[s])
  BY DEF CutInv, Bundled
<1>4. MadeOf(provider, f, Artifact(s, f).doc, task[s].bundle)
  BY ArtifactIsMadeOf
<1> QED BY <1>1, <1>2, <1>3, <1>4

LEMMA EndedCuts ==
  ASSUME TypeOK, CompileInv, CutInv, Ended, UNCHANGED provider,
         \/ UNCHANGED files
         \/ \E s \in Sessions, fs \in SUBSET ToSet(Formats) :
              task[s].at = "compiled" /\ files' = Written(s, fs)
  PROVE  CutInv'
<1>1. \A r \in Sessions : Agree(rows[r], rows'[r])
  BY EndingAgrees
<1>2. \A r \in Sessions : task'[r].at \notin Bundled
  BY NoTaskTyped DEF Ended, Bundled, Asking
<1>3. \A r \in Sessions, f \in ToSet(Formats) :
        \/ files'[r][f] = files[r][f]
        \/ \E e \in Seq(Events) : Agree(e, rows[r]) /\ MadeOf(provider, f, files'[r][f].doc, e)
  BY WrittenCuts
<1> QED BY <1>1, <1>2, <1>3, CutKept

LEMMA CutStep ==
  ASSUME TypeOK, CompileInv, CutInv, [Next]_vars
  PROVE  CutInv'
<1>1. ASSUME NEW s \in Sessions, Close(s) PROVE CutInv'
  <2>1. PICK t : t = [task[s] EXCEPT !.at = "scheduled"]
    OBVIOUS
  <2>2. t.at \notin Bundled /\ Tasked(s, t)
    BY <1>1, <2>1, CloseTasked DEF TypeOK, Bundled, Asking
  <2> QED BY <2>2, TaskedCuts
<1>2. ASSUME NEW s \in Sessions, Begins(s) PROVE CutInv'
  <2>1. \E t : Tasked(s, t) /\ t.bundle = LoadBundle(s)
    BY <1>2, BeginsTasked
  <2>2. PICK t : Tasked(s, t) /\ t.bundle = LoadBundle(s)
    BY <2>1
  <2> QED BY <2>2, LoadingAgrees, TaskedCuts
\* The steps that follow, in which the bundle stays.
<1>3. ASSUME NEW s \in Sessions, NEW t, Tasked(s, t), t.bundle = task[s].bundle, task[s].at \in Bundled
      PROVE  CutInv'
  BY <1>3, TaskedCuts DEF CutInv
<1>4. ASSUME NEW s \in Sessions, NEW i \in DOMAIN task[s].answers, Answers(s, i) PROVE CutInv'
  <2>1. task[s].at \in Asking /\ task[s].at \in Bundled
    BY <1>4 DEF Answers, Asking, Bundled
  <2>2. AnswersOf(task[s].bundle, task[s].answers)
    BY <2>1 DEF CompileInv, TaskOK
  <2>3. \E t : Tasked(s, t) /\ t.bundle = task[s].bundle
    BY <1>4, <2>2, AnswersTasked
  <2> QED BY <1>3, <2>1, <2>3
<1>5. ASSUME NEW s \in Sessions, Gathered(s) \/ Summarised(s) PROVE CutInv'
  <2>1. /\ \E t : Tasked(s, t) /\ t.bundle = task[s].bundle
        /\ task[s].at \in Bundled
    BY <1>5, AskedTasked DEF Bundled
  <2> QED BY <1>3, <2>1
<1>6. ASSUME NEW s \in Sessions, Exports(s) PROVE CutInv'
  <2>1. PICK fs \in SUBSET ToSet(Formats) : files' = Written(s, fs)
    BY <1>6 DEF Exports
  <2>2. /\ task[s].at = "compiled" /\ UNCHANGED <<provider, rows>>
        /\ task' = [task EXCEPT ![s] = [NoTask EXCEPT !.at = "over"]]
    BY <1>6 DEF Exports
  <2>3. ASSUME NEW r \in Sessions, task'[r].at \in Bundled PROVE Agree(task'[r].bundle, rows[r])
    <3>1. task'[s].at = "over"
      BY <2>2 DEF TypeOK, NoTask
    <3>2. r # s
      BY <2>3, <3>1 DEF Bundled, Asking
    <3>3. task'[r] = task[r]
      BY <2>2, <3>2 DEF TypeOK
    <3> QED BY <2>3, <3>3 DEF CutInv
  <2>4. \A r \in Sessions : Agree(rows[r], rows'[r])
    BY <2>2, AgreeIsEquivalence
  <2>5. \A r \in Sessions, f \in ToSet(Formats) :
          \/ files'[r][f] = files[r][f]
          \/ \E e \in Seq(Events) : Agree(e, rows[r]) /\ MadeOf(provider, f, files'[r][f].doc, e)
    BY <2>1, <2>2, WrittenCuts
  <2> QED BY <2>2, <2>3, <2>4, <2>5, CutKept
<1>7. ASSUME NEW s \in Sessions, CrashWriting(s) PROVE CutInv'
  <2>1. PICK n \in 1..Len(Formats) : files' = Written(s, ToSet(SubSeq(Formats, 1, n)))
    BY <1>7 DEF CrashWriting
  <2>2. task[s].at = "compiled" /\ Ended /\ UNCHANGED provider
    BY <1>7 DEF CrashWriting
  <2>3. ToSet(SubSeq(Formats, 1, n)) \in SUBSET ToSet(Formats)
    BY SomeFormats
  <2> QED BY <2>1, <2>2, <2>3, EndedCuts
<1>8. ASSUME NEW s \in Sessions, NEW i \in DOMAIN rows[s], Extracted(s, i) PROVE CutInv'
  <2>1. UNCHANGED <<provider, task, files>>
    BY <1>8 DEF Extracted
  <2>2. \A r \in Sessions : Agree(rows[r], rows'[r])
    BY <1>8, ReadingAgrees
  <2>3. \A r \in Sessions : task'[r].at \in Bundled => Agree(task'[r].bundle, rows[r])
    BY <2>1 DEF CutInv
  <2> QED BY <2>1, <2>2, <2>3, CutKept
<1>9. CASE Stop \/ Crash
  <2>1. Ended /\ UNCHANGED <<provider, files>>
    BY <1>9 DEF Stop, Crash
  <2> QED BY <2>1, EndedCuts
<1>10. CASE Quit \/ Launch \/ UNCHANGED vars
  <2>1. UNCHANGED <<provider, rows, task, files>>
    BY <1>10 DEF Quit, Launch, vars
  <2>2. \A r \in Sessions : Agree(rows[r], rows'[r])
    BY <2>1, AgreeIsEquivalence
  <2>3. \A r \in Sessions : task'[r].at \in Bundled => Agree(task'[r].bundle, rows[r])
    BY <2>1 DEF CutInv
  <2> QED BY <2>1, <2>2, <2>3, CutKept
<1>11. \/ \E s \in Sessions :
            \/ Close(s) \/ Begins(s) \/ Gathered(s) \/ Summarised(s) \/ Exports(s) \/ CrashWriting(s)
            \/ \E i \in DOMAIN rows[s] : Extracted(s, i)
            \/ \E i \in DOMAIN task[s].answers : Answers(s, i)
       \/ Stop \/ Crash \/ Quit \/ Launch \/ UNCHANGED vars
  BY DEF Next
<1> QED BY <1>1, <1>2, <1>4, <1>5, <1>6, <1>7, <1>8, <1>9, <1>10, <1>11

\* What is written of a session, at any time later: its timeline, cut where an event
\* opens a block, and of each stretch what the formats keep of its events.
PartsOfTimeline(s, f) ==
  \E e \in Seq(Events) : Agree(e, rows[s]) /\
    \E b, n :
      /\ Cuts(e, b, n)
      /\ f = "json" =>
           /\ DOMAIN files[s][f].doc.blocks = 1..n
           /\ \A k \in 1..n : KeptInSidecar(files[s][f].doc.blocks[k], Part(e, b, k))
      /\ f = "markdown" /\ provider # "none" =>
           /\ DOMAIN files[s][f].doc.sections = 1..n
           /\ \A k \in 1..n : KeptInDocument(files[s][f].doc.sections[k], Part(e, b, k))

PartsKept ==
  \A s \in Sessions, f \in ToSet(Formats) : files[s][f].of = s => PartsOfTimeline(s, f)

\* No event is left out of the artifacts of a session, nor put into two blocks or in
\* another order, however its compilation went and whatever happened after it.
THEOREM PartsAlways == Spec => []PartsKept
<1>1. Init => CutInv
  <2> SUFFICES ASSUME Init PROVE CutInv
    OBVIOUS
  <2>1. \A s \in Sessions : task[s].at = "none"
    BY DEF Init, NoTask
  <2>2. \A s \in Sessions, f \in ToSet(Formats) : files[s][f].of = 0
    BY DEF Init, NoFile
  <2>3. 0 \notin Sessions
    BY CompileAssumption
  <2> QED BY <2>1, <2>2, <2>3 DEF CutInv, Bundled, Asking
<1>2. TypeOK /\ CompileInv /\ CutInv /\ [Next]_vars => CutInv'
  BY CutStep
<1>3. CutInv => PartsKept
  <2> SUFFICES ASSUME CutInv, NEW s \in Sessions, NEW f \in ToSet(Formats), files[s][f].of = s
               PROVE  PartsOfTimeline(s, f)
    BY DEF PartsKept
  <2>1. PICK e \in Seq(Events) : Agree(e, rows[s]) /\ MadeOf(provider, f, files[s][f].doc, e)
    BY DEF CutInv
  <2>2. PICK n : n = Len(SplitBlocks(e))
    OBVIOUS
  <2>3. PICK b : Cuts(e, b, n) /\ \A k \in 1..n : SplitBlocks(e)[k] = Part(e, b, k)
    BY <2>2, CutAtOpenings
  <2>4. /\ f = "json" =>
             /\ DOMAIN files[s][f].doc.blocks = 1..n
             /\ \A k \in 1..n : KeptInSidecar(files[s][f].doc.blocks[k], Part(e, b, k))
        /\ f = "markdown" /\ provider # "none" =>
             /\ DOMAIN files[s][f].doc.sections = 1..n
             /\ \A k \in 1..n : KeptInDocument(files[s][f].doc.sections[k], Part(e, b, k))
    BY <2>1, <2>2, <2>3 DEF MadeOf
  <2> QED BY <2>1, <2>3, <2>4 DEF PartsOfTimeline
<1> QED BY <1>1, <1>2, <1>3, CompileInvariant, PTL DEF Spec
=============================================================================
