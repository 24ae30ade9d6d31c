---------------------------- MODULE StatusProofs ----------------------------
(***************************************************************************)
(* What the status path keeps against the promotion and the sweep, for     *)
(* any number of fans and shards, any windows, page size, staleness bound  *)
(* and grain of the clock, and however long a read, a cycle or a cached answer takes.   *)
(***************************************************************************)
EXTENDS Status, FiniteSetTheorems, TLAPS

\* What a read holds.
Read == [step : {"idle", "aggregates", "count", "answer"}, fan : Fans \cup {0},
         exact : BOOLEAN, promoted : Nat \cup {Never}, ahead : Nat, shard : 0..ShardCount,
         last : Fans \cup {Never}]

\* Types; the sweep's index holds only entries that have a Promotion_Time.
Shape ==
    /\ window \in Windows
    /\ status \in [Fans -> EntryState]
    /\ promotionTime \in [Fans -> Nat \cup {Never}]
    /\ \A k \in Fans : promotionTime[k] = Never <=> status[k] \in {NoEntry, "WAITING"}
    /\ waitingIndex \in SUBSET Fans /\ eligibleIndex \in SUBSET Fans
    /\ now \in 0..MaxTicks
    /\ phase \in Steps /\ stamp \in Int /\ picked \in SUBSET Fans
    /\ phase = "promote" => stamp \in Nat
    /\ read \in Read
    /\ read.step # "idle" => read.fan \in Fans
    /\ pass \in [Fans -> Nat \cup {Never}]
    /\ \A k \in eligibleIndex : promotionTime[k] # Never

\* The clock has passed the window of whatever the sweep has picked or will pick, and
\* has not passed that of an answer that is cached.
Times ==
    /\ phase = "query" => (stamp + window.sweep) * Grain <= now
    /\ phase = "expire" => \A k \in picked : /\ promotionTime[k] # Never
                                             /\ (promotionTime[k] + window.sweep) * Grain <= now
    /\ read.promoted # Never => /\ read.step # "idle"
                                /\ promotionTime[read.fan] = read.promoted
    /\ \A k \in Fans : pass[k] # Never =>
         /\ promotionTime[k] # Never /\ now < pass[k]
         /\ pass[k] < (promotionTime[k] + window.browse + MaxAgeMs) * Grain
    /\ WindowIsHonoured

\* Of the entries S, those in shard s; and those that a count has passed which is in
\* shard s, behind the key last.
In(S, s) == { k \in S : ShardOf[k] = s }
Counted(S, s, last) == { k \in S : ShardOf[k] < s \/ (ShardOf[k] = s /\ k <= last) }

\* What a read must have counted: low of those that were always ahead, high of those that
\* ever were.
CountIn(low, high) == Cardinality(low) <= read.ahead /\ read.ahead <= Cardinality(high)
EstimateIn(low, high) == /\ ShardCount * InPage(low) <= read.ahead
                         /\ read.ahead <= ShardCount * Cardinality(high)

\* Who has been ahead of the fan, and what has been counted of them.
Counts ==
    /\ always \subseteq { k \in waitingIndex : k < read.fan }
    /\ { k \in waitingIndex : k < read.fan } \subseteq ever
    /\ ever \subseteq Fans
    /\ read.step # "count" => read.last = Never
    /\ read.step \in {"idle", "aggregates"} => read.ahead = 0 /\ read.shard = 0
    /\ read.step = "count" => read.exact /\ read.shard < ShardCount
    /\ read.step = "answer" /\ read.exact => read.shard = ShardCount
    /\ read.step \in {"count", "answer"} /\ read.exact =>
         CountIn(Counted(always, read.shard, read.last), Counted(ever, read.shard, read.last))
    /\ read.step = "answer" /\ ~read.exact =>
         EstimateIn(In(always, ShardOf[read.fan]), In(ever, ShardOf[read.fan]))

IInv == Shape /\ Times /\ Counts

USE FansAssumption, ShardAssumption, PageAssumption, TimeAssumption, ReadAssumption,
    BatchAssumption
USE DEF table, indexes, cycle, reading

-----------------------------------------------------------------------------
(* Time *)

\* Truncating to milliseconds never runs ahead of the clock.
LEMMA MsIsPast ==
    ASSUME NEW n \in Nat
    PROVE  Ms(n) \in Nat /\ Ms(n) * Grain <= n
BY DEF Ms

\* The windows are those CONFIG and the release started with.
LEMMA WindowsAreNat ==
    ASSUME Shape
    PROVE  window.sweep \in Nat /\ window.browse \in Nat
BY DEF Shape

LEMMA WindowStays ==
    ASSUME [Next]_vars
    PROVE  window' = window
BY DEF Next, vars, Select, Stamp, Cutoff, QueryExpired, PromoteEntry, ExpireEntry, GetItem,
   Aggregates, CountPage, Answer, Admit, Activate, FollowWaiting, FollowEligible, Tick

LEMMA WindowEndGrows ==
    ASSUME NEW a \in Int, NEW b \in Int, a <= b, NEW w \in Nat
    PROVE  (a + w) * Grain <= (b + w) * Grain
<1>1. a + w <= b + w /\ a + w \in Int /\ b + w \in Int
  OBVIOUS
<1>2. ASSUME NEW x \in Int, NEW y \in Int, x <= y
      PROVE  x * Grain <= y * Grain
  BY <1>2
<1> QED
  BY <1>1, <1>2

\* The decision of the code, put as an end of the window.
LEMMA MayBrowseEnds ==
    ASSUME NEW p \in Nat, NEW n \in Nat, NEW w \in Nat, n - p * Grain < w * Grain
    PROVE  /\ n < (p + w) * Grain
           /\ n + MaxAgeMs * Grain < (p + w + MaxAgeMs) * Grain
           /\ n < n + MaxAgeMs * Grain /\ n + MaxAgeMs * Grain \in Nat
<1>1. /\ (p + w) * Grain = p * Grain + w * Grain
      /\ (p + w + MaxAgeMs) * Grain = p * Grain + w * Grain + MaxAgeMs * Grain
  OBVIOUS
<1>2. p * Grain \in Nat /\ w * Grain \in Nat /\ MaxAgeMs * Grain \in Nat
      /\ MaxAgeMs * Grain > 0
  OBVIOUS
<1> QED
  BY <1>1, <1>2
-----------------------------------------------------------------------------
(* Counting *)

\* Cardinality is monotone on sets of entries.
LEMMA MoreIsMore ==
    ASSUME NEW S \in SUBSET Fans, NEW T \in SUBSET S
    PROVE  /\ Cardinality(T) \in Nat /\ Cardinality(S) \in Nat
           /\ Cardinality(T) <= Cardinality(S)
<1>1. IsFiniteSet(S)
  BY FS_Subset
<1> QED
  BY <1>1, FS_Subset, FS_CardinalityType

LEMMA ShardsInRange == \A k \in Fans : ShardOf[k] \in Nat /\ ShardOf[k] < ShardCount
OBVIOUS

LEMMA DisjointSum ==
    ASSUME NEW S \in SUBSET Fans, NEW T \in SUBSET Fans, S \cap T = {}
    PROVE  Cardinality(S \cup T) = Cardinality(S) + Cardinality(T)
<1>1. IsFiniteSet(S) /\ IsFiniteSet(T) /\ Cardinality({}) = 0
  BY FS_Subset, FS_EmptySet
<1>2. Cardinality(S) \in Nat /\ Cardinality(T) \in Nat
  BY <1>1, FS_CardinalityType
<1>3. Cardinality(S \cup T) = Cardinality(S) + Cardinality(T) - Cardinality(S \cap T)
  BY <1>1, FS_Union
<1>4. Cardinality(S \cap T) = 0
  BY <1>1
<1> QED
  BY <1>2, <1>3, <1>4

\* One page more of shard s, up to the key b: the entries behind a.
LEMMA CountedPage ==
    ASSUME NEW S \in SUBSET Fans, NEW s \in Nat, NEW a \in Fans \cup {Never}, NEW b \in Fans, a <= b
    PROVE  Cardinality(Counted(S, s, b))
             = Cardinality(Counted(S, s, a)) + Cardinality({ k \in In(S, s) : k > a /\ k <= b })
<1> DEFINE P == { k \in In(S, s) : k > a /\ k <= b }
<1>1. Counted(S, s, a) \in SUBSET Fans /\ P \in SUBSET Fans
  BY DEF Counted, In
<1>2. ASSUME NEW k \in S
      PROVE  /\ k \in Counted(S, s, b) <=> k \in Counted(S, s, a) \/ k \in P
             /\ ~(k \in Counted(S, s, a) /\ k \in P)
  <2>1. k \in Nat /\ ShardOf[k] \in Nat /\ a \in Int /\ b \in Int
    BY ShardsInRange DEF Never
  <2> QED
    BY <2>1 DEF Counted, In
<1>3. Counted(S, s, b) \subseteq S /\ Counted(S, s, a) \subseteq S /\ P \subseteq S
  BY DEF Counted, In
<1> HIDE DEF P
<1>4. Counted(S, s, b) = Counted(S, s, a) \cup P /\ Counted(S, s, a) \cap P = {}
  BY <1>2, <1>3
<1>5. Cardinality(Counted(S, s, a) \cup P) = Cardinality(Counted(S, s, a)) + Cardinality(P)
  BY <1>1, <1>4, DisjointSum
<1> QED
  BY <1>4, <1>5 DEF P

\* The rest of shard s: the entries behind a, and the next shard begins.
LEMMA CountedShard ==
    ASSUME NEW S \in SUBSET Fans, NEW s \in Nat, NEW a \in Fans \cup {Never}
    PROVE  Cardinality(Counted(S, s + 1, Never))
             = Cardinality(Counted(S, s, a)) + Cardinality({ k \in In(S, s) : k > a })
<1> DEFINE P == { k \in In(S, s) : k > a }
<1>1. Counted(S, s, a) \in SUBSET Fans /\ P \in SUBSET Fans
  BY DEF Counted, In
<1>2. ASSUME NEW k \in S
      PROVE  /\ k \in Counted(S, s + 1, Never) <=> k \in Counted(S, s, a) \/ k \in P
             /\ ~(k \in Counted(S, s, a) /\ k \in P)
  <2>1. k \in Nat /\ ShardOf[k] \in Nat /\ a \in Int /\ ~(k <= Never)
    BY ShardsInRange DEF Never
  <2> QED
    BY <2>1 DEF Counted, In
<1>3. Counted(S, s + 1, Never) \subseteq S /\ Counted(S, s, a) \subseteq S /\ P \subseteq S
  BY DEF Counted, In
<1> HIDE DEF P
<1>4. Counted(S, s + 1, Never) = Counted(S, s, a) \cup P /\ Counted(S, s, a) \cap P = {}
  BY <1>2, <1>3
<1>5. Cardinality(Counted(S, s, a) \cup P) = Cardinality(Counted(S, s, a)) + Cardinality(P)
  BY <1>1, <1>4, DisjointSum
<1> QED
  BY <1>4, <1>5 DEF P

LEMMA CountedNone ==
    ASSUME NEW S \in SUBSET Fans
    PROVE  Cardinality(Counted(S, 0, Never)) = 0
<1>1. ASSUME NEW k \in S PROVE k \notin Counted(S, 0, Never)
  <2>1. k \in Nat /\ ~(ShardOf[k] < 0)
    BY ShardsInRange
  <2> QED
    BY <2>1 DEF Counted, Never
<1>2. Counted(S, 0, Never) = {}
  BY <1>1 DEF Counted
<1> QED
  BY <1>2, FS_EmptySet

LEMMA CountedAll ==
    ASSUME NEW S \in SUBSET Fans
    PROVE  Counted(S, ShardCount, Never) = S
BY ShardsInRange DEF Counted

\* A page has everything, or as many entries as it has room for: an entry that is not in
\* it has at least so many before it, and no two entries have equally many before them.
LEMMA PageIsFull ==
    ASSUME NEW T \in SUBSET Fans
    PROVE  First(PageSize, T) = T \/ Cardinality(First(PageSize, T)) >= PageSize
<1> DEFINE n == Cardinality(T)
           Less(k) == { j \in T : j < k }
           c == [k \in T |-> Cardinality(Less(k))]
           D == First(PageSize, T)
<1>1. IsFiniteSet(T) /\ n \in Nat /\ \A k \in T : k \in Nat
  BY FS_Subset, FS_CardinalityType
<1>2. \A k \in T : Less(k) \in SUBSET Fans /\ IsFiniteSet(Less(k)) /\ Cardinality(Less(k)) \in Nat
  <2> TAKE k \in T
  <2>1. Less(k) \in SUBSET Fans
    OBVIOUS
  <2> HIDE DEF Less
  <2> QED
    BY <2>1, FS_Subset, FS_CardinalityType
<1>3. ASSUME NEW k \in T, NEW U \in SUBSET T, k \in U, Less(k) \subseteq U \ {k}
      PROVE  Cardinality(Less(k)) < Cardinality(U)
  <2>1. IsFiniteSet(U) /\ Cardinality(U) \in Nat
    BY <1>1, FS_Subset, FS_CardinalityType
  <2>2. IsFiniteSet(U \ {k}) /\ Cardinality(U \ {k}) = Cardinality(U) - 1
    BY <1>3, <2>1, FS_RemoveElement
  <2> HIDE DEF Less
  <2>3. Cardinality(Less(k)) <= Cardinality(U \ {k})
    BY <1>3, <2>2, FS_Subset
  <2> QED
    BY <1>2, <2>1, <2>2, <2>3
<1>4. \A k \in T : c[k] \in 0..(n - 1)
  <2> TAKE k \in T
  <2>1. Less(k) \subseteq T \ {k}
    BY <1>1
  <2>2. Cardinality(Less(k)) < n
    BY <1>3, <2>1
  <2> QED
    BY <1>1, <1>2, <2>2
<1>5. \A j, k \in T : j < k => c[j] < c[k]
  <2> SUFFICES ASSUME NEW j \in T, NEW k \in T, j < k PROVE c[j] < c[k]
    OBVIOUS
  <2>1. Less(k) \in SUBSET T /\ j \in Less(k) /\ Less(j) \subseteq Less(k) \ {j}
    <3>1. \A i \in T : i < j => i < k /\ i # j
      BY <1>1
    <3> HIDE DEF c
    <3> QED
      BY <3>1
  <2>2. Cardinality(Less(j)) < Cardinality(Less(k))
    <3> HIDE DEF Less, c
    <3> QED
      BY <1>3, <2>1
  <2> QED
    BY <2>2
<1> HIDE DEF n, Less
<1>6. c \in Injection(T, 0..(n - 1))
  <2>1. ASSUME NEW j \in T, NEW k \in T, c[j] = c[k] PROVE j = k
    <3>1. ~(j < k) /\ ~(k < j)
      BY <1>1, <1>4, <1>5, <2>1
    <3> QED
      BY <1>1, <3>1
  <2>2. c \in [T -> 0..(n - 1)]
    BY <1>4
  <2> HIDE DEF c
  <2> QED
    BY <2>1, <2>2 DEF Injection, IsInjective
<1>7. c \in Surjection(T, 0..(n - 1))
  <2>1. IsFiniteSet(0..(n - 1)) /\ Cardinality(0..(n - 1)) = n
    BY <1>1, FS_Interval
  <2> HIDE DEF c
  <2> QED
    BY <1>6, <2>1, FS_Injection DEF n
<1>8. D = { k \in T : c[k] < PageSize }
  BY DEF First, Less
<1> HIDE DEF D, c
<1>9. ASSUME D # T
      PROVE  Cardinality(D) >= PageSize
  <2>1. PICK k \in T : ~(c[k] < PageSize)
    BY <1>8, <1>9
  <2>2. PageSize <= n - 1
    BY <1>1, <1>4, <2>1
  <2> DEFINE g == [j \in D |-> c[j]]
  <2>3. g \in [D -> 0..(PageSize - 1)]
    <3>1. \A j \in D : c[j] \in 0..(PageSize - 1)
      BY <1>1, <1>4, <1>8
    <3> QED
      BY <3>1
  <2>4. \A i \in 0..(PageSize - 1) : \E j \in D : g[j] = i
    <3> TAKE i \in 0..(PageSize - 1)
    <3>1. i \in 0..(n - 1)
      BY <1>1, <2>2
    <3>2. PICK j \in T : c[j] = i
      BY <1>7, <3>1 DEF Surjection
    <3>3. j \in D
      BY <1>8, <3>2
    <3> QED
      BY <3>2, <3>3
  <2>5. g \in Surjection(D, 0..(PageSize - 1))
    <3> HIDE DEF g
    <3> QED
      BY <2>3, <2>4 DEF Surjection
  <2>6. IsFiniteSet(D) /\ Cardinality(D) \in Nat
    BY <1>1, <1>8, FS_Subset, FS_CardinalityType
  <2>7. Cardinality(0..(PageSize - 1)) = PageSize
    BY FS_Interval
  <2>8. Cardinality(0..(PageSize - 1)) <= Cardinality(D)
    BY <2>5, <2>6, FS_Surjection
  <2> QED
    BY <2>6, <2>7, <2>8
<1> QED
  BY <1>9 DEF D

\* A first page has room for InPage of whatever entries are there.
LEMMA PageHolds ==
    ASSUME NEW T \in SUBSET Fans, NEW S \in SUBSET T
    PROVE  /\ First(PageSize, T) \in SUBSET T
           /\ Cardinality(First(PageSize, T)) \in Nat /\ InPage(S) \in Nat
           /\ InPage(S) <= Cardinality(First(PageSize, T))
<1>1. First(PageSize, T) \in SUBSET T /\ First(PageSize, T) \in SUBSET Fans
  BY DEF First
<1>2. /\ Cardinality(First(PageSize, T)) \in Nat /\ Cardinality(S) \in Nat
      /\ Cardinality(T) \in Nat /\ Cardinality(S) <= Cardinality(T)
  BY <1>1, MoreIsMore
<1> QED
  BY <1>1, <1>2, PageIsFull DEF InPage

LEMMA InPageGrows ==
    ASSUME NEW S \in SUBSET Fans, NEW T \in SUBSET S
    PROVE  InPage(T) \in Nat /\ InPage(S) \in Nat /\ InPage(T) <= InPage(S)
BY MoreIsMore DEF InPage

LEMMA ScaledIsMore ==
    ASSUME NEW a \in Nat, NEW b \in Nat, a <= b
    PROVE  ShardCount * a \in Nat /\ ShardCount * a <= ShardCount * b
OBVIOUS

\* The bounds of a count survive when the entries ahead come and go.
LEMMA CountsWiden ==
    ASSUME Shape, Counts, NEW A \in SUBSET always, NEW E \in SUBSET Fans, ever \subseteq E
    PROVE  /\ read.step \in {"count", "answer"} /\ read.exact =>
                CountIn(Counted(A, read.shard, read.last), Counted(E, read.shard, read.last))
           /\ read.step = "answer" /\ ~read.exact =>
                EstimateIn(In(A, ShardOf[read.fan]), In(E, ShardOf[read.fan]))
<1>1. always \in SUBSET Fans /\ ever \in SUBSET Fans /\ read.ahead \in Nat
  BY DEF Shape, Counts, Read
<1> DEFINE C(S) == Counted(S, read.shard, read.last)
           O(S) == In(S, ShardOf[read.fan])
<1>2. /\ C(A) \in SUBSET C(always) /\ C(always) \in SUBSET Fans
      /\ C(ever) \in SUBSET C(E) /\ C(E) \in SUBSET Fans
  BY <1>1 DEF Counted
<1>3. /\ O(A) \in SUBSET O(always) /\ O(always) \in SUBSET Fans
      /\ O(ever) \in SUBSET O(E) /\ O(E) \in SUBSET Fans
  BY <1>1 DEF In
<1>4. /\ read.step \in {"count", "answer"} /\ read.exact => CountIn(C(always), C(ever))
      /\ read.step = "answer" /\ ~read.exact => EstimateIn(O(always), O(ever))
  BY DEF Counts
<1> HIDE DEF C, O
<1>5. CountIn(C(always), C(ever)) => CountIn(C(A), C(E))
  <2>1. /\ Cardinality(C(A)) \in Nat /\ Cardinality(C(always)) \in Nat
        /\ Cardinality(C(A)) <= Cardinality(C(always))
    BY <1>2, MoreIsMore
  <2>2. /\ Cardinality(C(ever)) \in Nat /\ Cardinality(C(E)) \in Nat
        /\ Cardinality(C(ever)) <= Cardinality(C(E))
    BY <1>2, MoreIsMore
  <2> QED
    BY <1>1, <2>1, <2>2 DEF CountIn
<1>6. EstimateIn(O(always), O(ever)) => EstimateIn(O(A), O(E))
  <2>1. /\ ShardCount * InPage(O(A)) \in Nat /\ ShardCount * InPage(O(always)) \in Nat
        /\ ShardCount * InPage(O(A)) <= ShardCount * InPage(O(always))
    BY <1>3, InPageGrows, ScaledIsMore
  <2>2. /\ ShardCount * Cardinality(O(ever)) \in Nat /\ ShardCount * Cardinality(O(E)) \in Nat
        /\ ShardCount * Cardinality(O(ever)) <= ShardCount * Cardinality(O(E))
    BY <1>3, MoreIsMore, ScaledIsMore
  <2> QED
    BY <1>1, <2>1, <2>2 DEF EstimateIn
<1> QED
  BY <1>4, <1>5, <1>6 DEF C, O

-----------------------------------------------------------------------------
(* The invariant holds at the start *)

LEMMA InitIInv == Init => IInv
<1> SUFFICES ASSUME Init PROVE IInv
  OBVIOUS
<1>1. /\ NoRead \in Read /\ NoRead.step = "idle" /\ NoRead.promoted = Never
      /\ NoRead.ahead = 0 /\ NoRead.shard = 0 /\ NoRead.fan = 0
      /\ NoRead.last = Never
  BY DEF NoRead, Read
<1>2. Shape
  BY <1>1 DEF Init, Shape, EntryState, Steps
<1>3. Times
  BY <1>1 DEF Init, Times, WindowIsHonoured, WithStatus, NoEntry
<1>4. Counts
  BY <1>1 DEF Init, Counts
<1> QED
  BY <1>2, <1>3, <1>4 DEF IInv
-----------------------------------------------------------------------------
(* The steps of a read *)

LEMMA GetItemLeaves ==
    ASSUME Shape, NEW f \in Readers, NEW exact \in BOOLEAN, GetItem(f, exact)
    PROVE  /\ read' \in Read /\ read'.step = "aggregates" /\ read'.fan = f
           /\ read'.ahead = 0 /\ read'.shard = 0 /\ read'.last = Never /\ read'.exact = exact
           /\ read'.promoted = IF status[f] = "ELIGIBLE" THEN promotionTime[f] ELSE Never
<1> DEFINE p == IF status[f] = "ELIGIBLE" THEN promotionTime[f] ELSE Never
<1>1. p \in Nat \cup {Never}
  BY DEF Shape
<1>2. read' = [step |-> "aggregates", fan |-> f, exact |-> exact, promoted |-> p,
               ahead |-> 0, shard |-> 0, last |-> Never]
  BY DEF GetItem, NoRead
<1> HIDE DEF p
<1>3. /\ read' \in Read /\ read'.step = "aggregates" /\ read'.fan = f
      /\ read'.ahead = 0 /\ read'.shard = 0 /\ read'.last = Never /\ read'.exact = exact
      /\ read'.promoted = p
  BY <1>1, <1>2 DEF Read
<1> QED
  BY <1>3 DEF p

\* What a COUNT of one page returns.
LEMMA PageIsFinite ==
    ASSUME Shape, NEW s, NEW last
    PROVE  /\ Page(read.fan, s, last) \in SUBSET Fans
           /\ Cardinality(Page(read.fan, s, last)) \in Nat
<1>1. Page(read.fan, s, last) \in SUBSET Fans
  BY DEF Page, First, Ahead, Shape
<1> QED
  BY <1>1, MoreIsMore

LEMMA AggregatesLeaves ==
    ASSUME Shape, Counts, Aggregates
    PROVE  LET n == ShardCount * Cardinality(Page(read.fan, ShardOf[read.fan], Never))
           IN  /\ read' \in Read /\ read'.fan = read.fan /\ read'.exact = read.exact
               /\ read'.promoted = read.promoted /\ read'.shard = 0 /\ read'.last = Never
               /\ read.exact  => read'.step = "count" /\ read'.ahead = 0
               /\ ~read.exact => read'.step = "answer" /\ read'.ahead = n
<1> DEFINE n == ShardCount * Cardinality(Page(read.fan, ShardOf[read.fan], Never))
<1>1. n \in Nat
  BY PageIsFinite
<1> HIDE DEF n
<1>2. read \in Read /\ read.ahead = 0 /\ read.shard = 0 /\ read.last = Never
  BY DEF Shape, Counts, Aggregates
<1>3. CASE read.exact
  <2>1. read' = [read EXCEPT !.step = "count"]
    BY <1>3 DEF Aggregates
  <2> QED
    BY <1>2, <1>3, <2>1 DEF Read
<1>4. CASE ~read.exact
  <2>1. read' = [read EXCEPT !.step = "answer", !.ahead = n]
    BY <1>4 DEF Aggregates, n
  <2>2. read' = [step |-> "answer", fan |-> read.fan, exact |-> read.exact,
                 promoted |-> read.promoted, ahead |-> n, shard |-> 0, last |-> Never]
    BY <1>2, <2>1 DEF Read
  <2>3. /\ read' \in Read /\ read'.fan = read.fan /\ read'.exact = read.exact
        /\ read'.promoted = read.promoted /\ read'.shard = 0 /\ read'.last = Never
        /\ read'.step = "answer" /\ read'.ahead = n
    BY <1>1, <1>2, <2>2 DEF Read
  <2> QED
    BY <1>4, <2>3 DEF n
<1> QED
  BY <1>3, <1>4 DEF n

\* A full page: the count goes on behind its last entry.
NextPage(page, last) ==
    /\ last \in page /\ page \subseteq 0..last
    /\ read'.step = "count" /\ read'.shard = read.shard /\ read'.last = last

\* All that was left of the shard: the count goes on with the next one, or ends.
NextShard(page) ==
    /\ page = { k \in Ahead(read.fan, read.shard) : k > read.last }
    /\ read'.step \in {"count", "answer"}
    /\ read'.step = "count"  => read'.shard < ShardCount
    /\ read'.step = "answer" => read'.shard = ShardCount
    /\ read'.shard = read.shard + 1 /\ read'.last = Never

LEMMA CountLeaves ==
    ASSUME Shape, Counts, CountPage
    PROVE  LET page == Page(read.fan, read.shard, read.last)
           IN  /\ read' \in Read /\ read'.fan = read.fan /\ read'.exact = read.exact
               /\ read'.promoted = read.promoted
               /\ read'.ahead = read.ahead + Cardinality(page)
               /\ NextShard(page) \/ \E last \in Fans : NextPage(page, last)
<1> DEFINE page == Page(read.fan, read.shard, read.last)
           n == read.ahead + Cardinality(page)
           t == IF read.shard + 1 < ShardCount THEN "count" ELSE "answer"
           Rest == { k \in Ahead(read.fan, read.shard) : k > read.last }
<1>1. read \in Read /\ read.step = "count" /\ read.shard < ShardCount
  BY DEF Shape, Counts, CountPage
<1>2. read.ahead \in Nat /\ read.shard \in Nat
  BY <1>1 DEF Read
<1>3. n \in Nat /\ page \in SUBSET Fans
  BY <1>2, PageIsFinite
<1>4. \/ \E last \in page : /\ page \subseteq 0..last
                            /\ read' = [read EXCEPT !.ahead = n, !.last = last]
      \/ /\ page = Rest
         /\ read' = [read EXCEPT !.ahead = n, !.last = Never, !.shard = read.shard + 1,
                                 !.step = t]
  BY DEF CountPage
<1>5. /\ t \in {"count", "answer"} /\ read.shard + 1 \in 0..ShardCount
      /\ t = "count" => read.shard + 1 < ShardCount
      /\ t = "answer" => read.shard + 1 = ShardCount
  BY <1>1, <1>2
<1> HIDE DEF n, t, page
<1>6. ASSUME NEW last \in page, page \subseteq 0..last,
             read' = [read EXCEPT !.ahead = n, !.last = last]
      PROVE  /\ read' \in Read /\ read'.fan = read.fan /\ read'.exact = read.exact
             /\ read'.promoted = read.promoted /\ read'.ahead = n
             /\ last \in Fans /\ NextPage(page, last)
  <2>1. read' = [step |-> "count", fan |-> read.fan, exact |-> read.exact,
                 promoted |-> read.promoted, ahead |-> n, shard |-> read.shard, last |-> last]
    BY <1>1, <1>6 DEF Read
  <2>2. last \in Fans
    BY <1>3
  <2>3. /\ read' \in Read /\ read'.fan = read.fan /\ read'.exact = read.exact
        /\ read'.promoted = read.promoted /\ read'.ahead = n /\ read'.step = "count"
        /\ read'.shard = read.shard /\ read'.last = last
    BY <1>1, <1>3, <2>1, <2>2 DEF Read
  <2> QED
    BY <1>6, <2>2, <2>3 DEF NextPage
<1>7. ASSUME page = Rest,
             read' = [read EXCEPT !.ahead = n, !.last = Never, !.shard = read.shard + 1, !.step = t]
      PROVE  /\ read' \in Read /\ read'.fan = read.fan /\ read'.exact = read.exact
             /\ read'.promoted = read.promoted /\ read'.ahead = n /\ NextShard(page)
  <2>1. read' = [step |-> t, fan |-> read.fan, exact |-> read.exact,
                 promoted |-> read.promoted, ahead |-> n, shard |-> read.shard + 1,
                 last |-> Never]
    BY <1>1, <1>7 DEF Read
  <2>2. /\ read' \in Read /\ read'.fan = read.fan /\ read'.exact = read.exact
        /\ read'.promoted = read.promoted /\ read'.ahead = n /\ read'.step = t
        /\ read'.shard = read.shard + 1 /\ read'.last = Never
    BY <1>1, <1>3, <1>5, <2>1 DEF Read
  <2> QED
    BY <1>5, <1>7, <2>2 DEF NextShard
<1>8. /\ read' \in Read /\ read'.fan = read.fan /\ read'.exact = read.exact
      /\ read'.promoted = read.promoted /\ read'.ahead = n
      /\ NextShard(page) \/ \E last \in Fans : NextPage(page, last)
  BY <1>4, <1>6, <1>7
<1> QED
  BY <1>8 DEF n, page
-----------------------------------------------------------------------------
(* Types *)

LEMMA ShapeStep == IInv /\ [Next]_vars => Shape'
<1> SUFFICES ASSUME IInv, [Next]_vars PROVE Shape'
  OBVIOUS
<1>0. Shape /\ Counts
  BY DEF IInv
<1>1. NoRead \in Read /\ NoRead.step = "idle"
  BY DEF NoRead, Read
<1>2. now \in Nat /\ Ms(now) \in Nat
  BY <1>0, MsIsPast DEF Shape
<1>3. CASE Select
  BY <1>0, <1>3 DEF Select, First, Shape, Steps
<1>4. CASE Stamp
  BY <1>0, <1>2, <1>4 DEF Stamp, Shape, Steps
<1>5. CASE Cutoff
  BY <1>0, <1>2, <1>5 DEF Cutoff, Shape, Steps
<1>6. CASE QueryExpired
  <2>1. picked' \in SUBSET Fans
    <3>1. picked' = { k \in eligibleIndex : promotionTime[k] < stamp }
      BY <1>6 DEF QueryExpired
    <3>2. eligibleIndex \in SUBSET Fans
      BY <1>0 DEF Shape
    <3> QED
      BY <3>1, <3>2
  <2>2. phase' \in Steps /\ phase' # "promote" /\ stamp' = 0
    BY <1>6 DEF QueryExpired, Steps
  <2> QED
    BY <1>0, <1>6, <2>1, <2>2 DEF QueryExpired, Shape
<1>7. ASSUME NEW k \in Fans, PromoteEntry(k)
      PROVE  Shape'
  <2>1. UNCHANGED <<waitingIndex, eligibleIndex, now, read, pass>>
        /\ picked' \in SUBSET Fans /\ phase' \in Steps /\ stamp' \in Nat
    BY <1>0, <1>7 DEF PromoteEntry, Shape, Steps
  <2>2. CASE CanTransition(status, k, "WAITING", "ELIGIBLE")
    <3>1. /\ status' = [status EXCEPT ![k] = "ELIGIBLE"]
          /\ promotionTime' = [promotionTime EXCEPT ![k] = stamp]
          /\ stamp \in Nat /\ window' = window
      BY <1>0, <1>7, <2>2 DEF PromoteEntry, Shape
    <3>2. /\ status' \in [Fans -> EntryState]
          /\ promotionTime' \in [Fans -> Nat \cup {Never}]
      BY <1>0, <3>1 DEF Shape, EntryState, EligibilityStatus
    <3>3. \A j \in Fans : promotionTime'[j] = Never <=> status'[j] \in {NoEntry, "WAITING"}
      BY <1>0, <3>1 DEF Shape, Never, NoEntry
    <3>4. \A j \in eligibleIndex : promotionTime'[j] # Never
      BY <1>0, <3>1 DEF Shape, Never
    <3> QED
      BY <1>0, <2>1, <3>1, <3>2, <3>3, <3>4 DEF Shape
  <2>3. CASE ~CanTransition(status, k, "WAITING", "ELIGIBLE")
    BY <1>0, <1>7, <2>1, <2>3 DEF PromoteEntry, Shape
  <2> QED
    BY <2>2, <2>3
<1>8. ASSUME NEW k \in Fans, ExpireEntry(k)
      PROVE  Shape'
  BY <1>0, <1>8 DEF ExpireEntry, Shape, Steps, EntryState, EligibilityStatus, CanTransition, NoEntry
<1>9. ASSUME NEW f \in Readers, NEW exact \in BOOLEAN, GetItem(f, exact)
      PROVE  Shape'
  BY <1>0, <1>9, GetItemLeaves DEF GetItem, Shape
<1>10. CASE Aggregates
  BY <1>0, <1>10, AggregatesLeaves DEF Aggregates, Shape
<1>11. CASE CountPage
  <2>1. /\ read' \in Read /\ read'.fan = read.fan
    BY <1>0, <1>11, CountLeaves
  <2>2. /\ UNCHANGED <<table, indexes, now, cycle, pass>> /\ read.step = "count"
    BY <1>11 DEF CountPage
  <2> QED
    BY <1>0, <2>1, <2>2 DEF Shape
<1>12. CASE Answer
  <2>1. StaleAt(now) \in Nat
    BY <1>2 DEF StaleAt
  <2>2. pass' \in [Fans -> Nat \cup {Never}]
    BY <1>0, <1>12, <2>1 DEF Answer, Shape
  <2> QED
    BY <1>0, <1>1, <1>12, <2>2 DEF Answer, Shape
<1>13. ASSUME NEW k \in Fans, Admit(k)
       PROVE  Shape'
  BY <1>0, <1>13 DEF Admit, Shape, EntryState, EligibilityStatus, NoEntry
<1>14. ASSUME NEW k \in Fans, Activate(k)
       PROVE  Shape'
  BY <1>0, <1>14 DEF Activate, Shape, EntryState, EligibilityStatus, CanTransition, NoEntry
<1>15. ASSUME NEW k \in Fans, FollowWaiting(k)
       PROVE  Shape'
  BY <1>0, <1>15 DEF FollowWaiting, Shape
<1>16. ASSUME NEW k \in Fans, FollowEligible(k)
       PROVE  Shape'
  <2>1. \A j \in eligibleIndex' : j \in eligibleIndex \/ status[j] = "ELIGIBLE"
    BY <1>16 DEF FollowEligible
  <2>2. eligibleIndex' \in SUBSET Fans
    BY <1>0, <1>16 DEF FollowEligible, Shape
  <2>3. \A j \in eligibleIndex' : promotionTime[j] # Never
    BY <1>0, <2>1, <2>2 DEF Shape, NoEntry
  <2> QED
    BY <1>0, <1>16, <2>2, <2>3 DEF FollowEligible, Shape
<1>17. CASE Tick
  <2>1. now' \in 0..MaxTicks /\ pass' \in [Fans -> Nat \cup {Never}]
    BY <1>0, <1>17 DEF Tick, Shape
  <2> QED
    BY <1>0, <1>17, <2>1 DEF Tick, Shape
<1>18. CASE UNCHANGED vars
  BY <1>0, <1>18 DEF vars, Shape
<1> QED
  BY <1>3, <1>4, <1>5, <1>6, <1>7, <1>8, <1>9, <1>10, <1>11, <1>12, <1>13, <1>14, <1>15,
     <1>16, <1>17, <1>18 DEF Next

-----------------------------------------------------------------------------
(* Times *)

\* Nothing that has a Promotion_Time gets another one.
LEMMA TimesStay ==
    ASSUME IInv, [Next]_vars, NEW k \in Fans, promotionTime[k] # Never
    PROVE  promotionTime'[k] = promotionTime[k]
<1>0. Shape
  BY DEF IInv
<1>1. ASSUME NEW j \in Fans, PromoteEntry(j)
      PROVE  promotionTime'[k] = promotionTime[k]
  BY <1>0, <1>1 DEF PromoteEntry, Shape, CanTransition
<1> QED
  BY <1>1 DEF Next, vars, Select, Stamp, Cutoff, QueryExpired, ExpireEntry, GetItem,
     Aggregates, CountPage, Answer, Admit, Activate, FollowWaiting, FollowEligible, Tick

\* Who is expired was so, or was picked by the sweep.
LEMMA ExpiredWas ==
    ASSUME IInv, [Next]_vars, NEW k \in Fans, status'[k] = "EXPIRED"
    PROVE  status[k] = "EXPIRED" \/ (phase = "expire" /\ k \in picked)
<1>0. status \in [Fans -> EntryState]
  BY DEF IInv, Shape
<1>1. ASSUME NEW j \in Fans, PromoteEntry(j) \/ ExpireEntry(j) \/ Admit(j) \/ Activate(j)
      PROVE  status[k] = "EXPIRED" \/ (phase = "expire" /\ k \in picked)
  BY <1>0, <1>1 DEF PromoteEntry, ExpireEntry, Admit, Activate
<1> QED
  BY <1>1 DEF Next, vars, Select, Stamp, Cutoff, QueryExpired, GetItem,
     Aggregates, CountPage, Answer, FollowWaiting, FollowEligible, Tick

LEMMA TimesStep == IInv /\ [Next]_vars => Times'
<1> SUFFICES ASSUME IInv, [Next]_vars PROVE Times'
  OBVIOUS
<1>0. Shape /\ Times /\ Shape' /\ Counts
  BY ShapeStep DEF IInv
<1>10. window' = window /\ window.sweep \in Nat /\ window.browse \in Nat
  BY <1>0, WindowsAreNat, WindowStays
<1>1. /\ now \in Nat /\ now' \in Nat /\ now <= now'
  <2>1. now \in Nat /\ now' \in Nat
    BY <1>0 DEF Shape
  <2>2. now' = now \/ now' = now + 1
    BY DEF Next, vars, Select, Stamp, Cutoff, QueryExpired, PromoteEntry, ExpireEntry, GetItem,
       Aggregates, CountPage, Answer, Admit, Activate, FollowWaiting, FollowEligible, Tick
  <2> QED
    BY <2>1, <2>2
<1>2. \A k \in Fans : promotionTime[k] \in Int /\ promotionTime'[k] \in Int
                      /\ (promotionTime[k] # Never => promotionTime[k] \in Nat)
  BY <1>0 DEF Shape, Never
<1>3. phase' = "query" => (stamp' + window.sweep) * Grain <= now'
  <2>1. CASE Cutoff
    <3>1. stamp' = Ms(now) - window.sweep /\ now' = now /\ Ms(now) \in Nat /\ Ms(now) * Grain <= now
      BY <1>1, <2>1, MsIsPast DEF Cutoff
    <3>2. stamp' + window.sweep = Ms(now)
      BY <1>10, <3>1
    <3> QED
      BY <3>1, <3>2
  <2>2. CASE ~Cutoff
    <3>1. phase' = "query" => phase = "query" /\ stamp' = stamp
      BY <2>2 DEF Next, vars, Select, Stamp, QueryExpired, PromoteEntry, ExpireEntry, GetItem,
         Aggregates, CountPage, Answer, Admit, Activate, FollowWaiting, FollowEligible, Tick
    <3>2. stamp \in Int /\ (stamp + window.sweep) * Grain \in Int
      BY <1>0, <1>10 DEF Shape
    <3> QED
      BY <1>0, <1>1, <3>1, <3>2 DEF Times
  <2> QED
    BY <2>1, <2>2
<1>4. ASSUME NEW k \in Fans, phase' = "expire", k \in picked'
      PROVE  /\ promotionTime'[k] # Never
             /\ (promotionTime'[k] + window.sweep) * Grain <= now'
  <2>1. promotionTime[k] # Never /\ (promotionTime[k] + window.sweep) * Grain <= now
    <3>1. CASE QueryExpired
      <4>1. k \in eligibleIndex /\ promotionTime[k] < stamp /\ stamp \in Int
        BY <1>0, <1>4, <3>1 DEF QueryExpired, Shape
      <4>2. promotionTime[k] # Never
        BY <1>0, <4>1 DEF Shape
      <4>3. (promotionTime[k] + window.sweep) * Grain <= (stamp + window.sweep) * Grain
        BY <1>2, <1>10, <4>1, WindowEndGrows
      <4>4. (stamp + window.sweep) * Grain <= now
        BY <1>0, <3>1 DEF QueryExpired, Times
      <4>5. (promotionTime[k] + window.sweep) * Grain \in Int /\ (stamp + window.sweep) * Grain \in Int
        BY <1>2, <1>10, <4>1
      <4> QED
        BY <1>1, <4>2, <4>3, <4>4, <4>5
    <3>2. CASE ~QueryExpired
      <4>1. phase = "expire" /\ k \in picked
        BY <1>4, <3>2 DEF Next, vars, Select, Stamp, Cutoff, PromoteEntry, ExpireEntry, GetItem,
           Aggregates, CountPage, Answer, Admit, Activate, FollowWaiting, FollowEligible, Tick
      <4> QED
        BY <1>0, <4>1 DEF Times
    <3> QED
      BY <3>1, <3>2
  <2>2. promotionTime'[k] = promotionTime[k]
    BY <2>1, TimesStay
  <2>3. (promotionTime[k] + window.sweep) * Grain \in Int
    BY <1>2, <1>10
  <2> QED
    BY <1>1, <2>1, <2>2, <2>3
<1>5. read'.promoted # Never => /\ read'.step # "idle"
                                /\ promotionTime'[read'.fan] = read'.promoted
  <2> SUFFICES ASSUME read'.promoted # Never
               PROVE  /\ read'.step # "idle"
                      /\ promotionTime'[read'.fan] = read'.promoted
    OBVIOUS
  <2>1. ASSUME NEW f \in Readers, NEW exact \in BOOLEAN, GetItem(f, exact)
        PROVE  /\ read'.step # "idle"
               /\ promotionTime'[read'.fan] = read'.promoted
    <3>1. promotionTime' = promotionTime
      BY <2>1 DEF GetItem
    <3> QED
      BY <1>0, <2>1, <3>1, GetItemLeaves
  <2>2. ASSUME read'.promoted = read.promoted, read'.fan = read.fan,
               read'.step = "idle" => read.step = "idle"
        PROVE  /\ read'.step # "idle"
               /\ promotionTime'[read'.fan] = read'.promoted
    <3>1. read.promoted # Never /\ read.step # "idle" /\ promotionTime[read.fan] = read.promoted
      BY <1>0, <2>2 DEF Times
    <3>2. read.fan \in Fans
      BY <1>0, <3>1 DEF Shape
    <3>3. promotionTime'[read.fan] = promotionTime[read.fan]
      BY <3>1, <3>2, TimesStay
    <3> QED
      BY <2>2, <3>1, <3>3
  <2>3. CASE Aggregates
    <3>1. read'.promoted = read.promoted /\ read'.fan = read.fan /\ read'.step # "idle"
      BY <1>0, <2>3, AggregatesLeaves
    <3> QED
      BY <2>2, <3>1
  <2>4. CASE CountPage
    <3>1. read'.promoted = read.promoted /\ read'.fan = read.fan /\ read'.step # "idle"
      BY <1>0, <2>4, CountLeaves DEF NextPage, NextShard
    <3> QED
      BY <2>2, <3>1
  <2>5. ~Answer
    BY DEF Answer, NoRead
  <2>6. CASE UNCHANGED read
    BY <2>2, <2>6
  <2> QED
    BY <2>1, <2>3, <2>4, <2>5, <2>6 DEF Next, vars, Select, Stamp, Cutoff, QueryExpired,
       PromoteEntry, ExpireEntry, Admit, Activate, FollowWaiting, FollowEligible, Tick
<1>6. ASSUME NEW k \in Fans, pass'[k] # Never
      PROVE  /\ promotionTime'[k] # Never /\ now' < pass'[k]
             /\ pass'[k] < (promotionTime'[k] + window.browse + MaxAgeMs) * Grain
  <2>0. pass[k] # Never =>
           /\ promotionTime[k] # Never /\ promotionTime'[k] = promotionTime[k]
           /\ now < pass[k] /\ pass[k] < (promotionTime[k] + window.browse + MaxAgeMs) * Grain
    BY <1>0, TimesStay DEF Times
  <2>1. pass[k] \in Nat \cup {Never} /\ pass \in [Fans -> Nat \cup {Never}]
    BY <1>0 DEF Shape
  <2>2. CASE Answer
    <3>1. now' = now /\ promotionTime' = promotionTime
      BY <2>2 DEF Answer
    <3>2. CASE k # read.fan
      <4>1. pass'[k] = pass[k]
        BY <2>1, <2>2, <3>2 DEF Answer
      <4> QED
        BY <1>6, <2>0, <3>1, <4>1
    <3>3. CASE k = read.fan
      <4>1. /\ read.promoted # Never /\ pass'[k] = StaleAt(now)
            /\ now - read.promoted * Grain < window.browse * Grain
        BY <1>6, <2>1, <2>2, <3>3 DEF Answer, MayBrowse
      <4>2. promotionTime[k] = read.promoted /\ read.promoted \in Nat
        BY <1>0, <1>2, <3>3, <4>1 DEF Times
      <4>3. /\ now + MaxAgeMs * Grain < (read.promoted + window.browse + MaxAgeMs) * Grain
            /\ now < now + MaxAgeMs * Grain
        BY <1>1, <1>10, <4>1, <4>2, MayBrowseEnds
      <4> QED
        BY <3>1, <4>1, <4>2, <4>3 DEF StaleAt
    <3> QED
      BY <3>2, <3>3
  <2>3. CASE Tick
    <3>1. now' = now + 1 /\ promotionTime' = promotionTime
          /\ pass[k] # now' /\ pass'[k] = pass[k]
      BY <1>6, <2>3 DEF Tick
    <3> QED
      BY <1>1, <1>6, <2>0, <2>1, <3>1 DEF Never
  <2>4. CASE UNCHANGED <<pass, now>>
    BY <1>6, <2>0, <2>4
  <2> QED
    BY <2>2, <2>3, <2>4 DEF Next, vars, Select, Stamp, Cutoff, QueryExpired, PromoteEntry,
       ExpireEntry, GetItem, Aggregates, CountPage, Admit, Activate, FollowWaiting, FollowEligible
<1>7. WindowIsHonoured'
  <2> SUFFICES ASSUME NEW k \in Fans, status'[k] = "EXPIRED"
               PROVE  now' >= (promotionTime'[k] + window.sweep) * Grain
    BY <1>0, <1>10 DEF WindowIsHonoured, WithStatus, Shape
  <2>1. promotionTime[k] # Never /\ (promotionTime[k] + window.sweep) * Grain <= now
    <3>1. CASE status[k] = "EXPIRED"
      <4>1. now >= (promotionTime[k] + window.sweep) * Grain
        BY <1>0, <3>1 DEF Times, WindowIsHonoured, WithStatus, Shape
      <4>2. promotionTime[k] # Never
        BY <1>0, <3>1 DEF Shape, NoEntry
      <4>3. (promotionTime[k] + window.sweep) * Grain \in Int
        BY <1>2, <1>10
      <4> QED
        BY <1>1, <4>1, <4>2, <4>3
    <3>2. CASE phase = "expire" /\ k \in picked
      BY <1>0, <3>2 DEF Times
    <3> QED
      BY <3>1, <3>2, ExpiredWas
  <2>2. promotionTime'[k] = promotionTime[k]
    BY <2>1, TimesStay
  <2>3. (promotionTime[k] + window.sweep) * Grain \in Int
    BY <1>2, <1>10
  <2> QED
    BY <1>1, <2>1, <2>2, <2>3
<1>8. picked' \in SUBSET Fans
  BY <1>0 DEF Shape
<1> QED
  BY <1>3, <1>4, <1>5, <1>6, <1>7, <1>8, <1>10 DEF Times
-----------------------------------------------------------------------------
(* Counts *)

\* A page of the entries ahead behind a, which ends at the key b.
LEMMA PageBetween ==
    ASSUME Shape, Counts, NEW s \in Nat, NEW a \in Fans \cup {Never}, NEW b \in Fans,
           b \in Page(read.fan, s, a), Page(read.fan, s, a) \subseteq 0..b
    PROVE  /\ a <= b
           /\ { k \in In(always, s) : k > a /\ k <= b } \in SUBSET Page(read.fan, s, a)
           /\ Page(read.fan, s, a) \in SUBSET { k \in In(ever, s) : k > a /\ k <= b }
<1> DEFINE Rest == { k \in Ahead(read.fan, s) : k > a }
           Less(k) == { j \in Rest : j < k }
<1>1. /\ always \subseteq { k \in waitingIndex : k < read.fan }
      /\ { k \in waitingIndex : k < read.fan } \subseteq ever
      /\ waitingIndex \subseteq Fans /\ \A k \in Fans : k \in Nat
  BY DEF Counts, Shape
<1>2. Page(read.fan, s, a) = { k \in Rest : Cardinality(Less(k)) < PageSize }
  BY DEF Page, First
<1>3. Rest \in SUBSET Fans /\ Rest \subseteq In(ever, s)
  BY <1>1 DEF Ahead, In
<1>4. a \in Int /\ b \in Rest /\ b > a
  BY <1>2 DEF Never
<1>5. ASSUME NEW k \in In(always, s), k > a, k <= b
      PROVE  k \in Page(read.fan, s, a)
  <2>1. k \in Rest
    BY <1>1, <1>5 DEF In, Ahead
  <2>2. Less(k) \in SUBSET Less(b) /\ Less(b) \in SUBSET Fans
    <3>1. k \in Nat /\ b \in Nat /\ Rest \in SUBSET Nat
      BY <1>1, <1>3, <2>1
    <3> HIDE DEF Rest
    <3>2. \A j \in Rest : j < k => j < b
      BY <1>5, <3>1
    <3>3. Rest \in SUBSET Fans
      BY <1>3
    <3> QED
      BY <3>2, <3>3
  <2> HIDE DEF Less
  <2>3. /\ Cardinality(Less(k)) \in Nat /\ Cardinality(Less(b)) \in Nat
        /\ Cardinality(Less(k)) <= Cardinality(Less(b))
    BY <2>2, MoreIsMore
  <2>4. Cardinality(Less(b)) < PageSize
    BY <1>2
  <2> QED
    BY <1>2, <2>1, <2>3, <2>4
<1>6. ASSUME NEW k \in Page(read.fan, s, a)
      PROVE  k \in In(ever, s) /\ k > a /\ k <= b
  BY <1>2, <1>3, <1>6
<1> HIDE DEF Rest, Less
<1> QED
  BY <1>1, <1>4, <1>5, <1>6

\* What a page adds to the count lies between what it should add for the entries that were
\* always ahead and for those that ever were.
LEMMA AddedBetween ==
    ASSUME NEW P \in SUBSET Fans, NEW L \in SUBSET P, NEW H \in SUBSET Fans, P \in SUBSET H,
           NEW l \in Nat, NEW h \in Nat, NEW n \in Nat, l <= n, n <= h
    PROVE  l + Cardinality(L) <= n + Cardinality(P) /\ n + Cardinality(P) <= h + Cardinality(H)
<1>1. /\ Cardinality(L) \in Nat /\ Cardinality(P) \in Nat /\ Cardinality(L) <= Cardinality(P)
  BY MoreIsMore
<1>2. Cardinality(H) \in Nat /\ Cardinality(P) <= Cardinality(H)
  BY MoreIsMore
<1> QED
  BY <1>1, <1>2

\* One COUNT more keeps the count between the two.
LEMMA CountPageKeeps ==
    ASSUME Shape, Counts, CountPage
    PROVE  /\ read'.fan = read.fan /\ read'.exact /\ read'.step \in {"count", "answer"}
           /\ read'.step = "count"  => read'.shard < ShardCount
           /\ read'.step = "answer" => read'.shard = ShardCount /\ read'.last = Never
           /\ Cardinality(Counted(always, read'.shard, read'.last)) <= read'.ahead
           /\ read'.ahead <= Cardinality(Counted(ever, read'.shard, read'.last))
<1> DEFINE s == read.shard
           a == read.last
           page == Page(read.fan, s, a)
           C(S) == Cardinality(Counted(S, s, a))
<1>1. /\ read.exact /\ s \in Nat /\ s < ShardCount /\ read.ahead \in Nat
      /\ a \in Fans \cup {Never}
      /\ C(always) <= read.ahead /\ read.ahead <= C(ever)
  <2>1. read \in Read /\ read.step = "count"
    BY DEF Shape, CountPage
  <2>2. read.exact /\ s < ShardCount /\ CountIn(Counted(always, s, a), Counted(ever, s, a))
    BY <2>1 DEF Counts
  <2>3. s \in Nat /\ read.ahead \in Nat /\ a \in Fans \cup {Never}
    BY <2>1 DEF Read
  <2> QED
    BY <2>2, <2>3 DEF CountIn
<1>2. /\ always \in SUBSET Fans /\ ever \in SUBSET Fans /\ waitingIndex \in SUBSET Fans
      /\ always \subseteq { k \in waitingIndex : k < read.fan }
      /\ { k \in waitingIndex : k < read.fan } \subseteq ever
  BY DEF Counts, Shape
<1>3. C(always) \in Nat /\ C(ever) \in Nat
  <2>1. Counted(always, s, a) \in SUBSET Fans /\ Counted(ever, s, a) \in SUBSET Fans
    BY <1>2 DEF Counted
  <2> QED
    BY <2>1, MoreIsMore
<1>4. page \in SUBSET Fans
  BY PageIsFinite
<1>5. /\ read'.fan = read.fan /\ read'.exact = read.exact
      /\ read'.ahead = read.ahead + Cardinality(page)
      /\ NextShard(page) \/ \E last \in Fans : NextPage(page, last)
  BY CountLeaves
<1> HIDE DEF C, page
<1>6. ASSUME NEW b \in Fans, NextPage(page, b)
      PROVE  /\ read'.step = "count" /\ read'.shard < ShardCount
             /\ Cardinality(Counted(always, read'.shard, read'.last)) <= read'.ahead
             /\ read'.ahead <= Cardinality(Counted(ever, read'.shard, read'.last))
  <2> DEFINE P(S) == { k \in In(S, s) : k > a /\ k <= b }
  <2>1. read'.step = "count" /\ read'.shard = s /\ read'.last = b
    BY <1>6 DEF NextPage
  <2>2. a <= b /\ P(always) \in SUBSET page /\ page \in SUBSET P(ever)
    <3>1. b \in page /\ page \subseteq 0..b
      BY <1>6 DEF NextPage
    <3>2. s \in Nat /\ a \in Fans \cup {Never}
      BY <1>1
    <3> HIDE DEF s, a
    <3> QED
      BY <3>1, <3>2, PageBetween DEF page
  <2>3. P(ever) \in SUBSET Fans
    BY <1>2 DEF In
  <2>4. /\ Cardinality(Counted(always, s, b)) = C(always) + Cardinality(P(always))
        /\ Cardinality(Counted(ever, s, b)) = C(ever) + Cardinality(P(ever))
    <3>1. s \in Nat /\ a \in Fans \cup {Never} /\ a <= b
      BY <1>1, <2>2
    <3> HIDE DEF s, a
    <3> QED
      BY <1>2, <3>1, CountedPage DEF C
  <2> HIDE DEF P, s, a
  <2>5. /\ C(always) + Cardinality(P(always)) <= read.ahead + Cardinality(page)
        /\ read.ahead + Cardinality(page) <= C(ever) + Cardinality(P(ever))
    BY <1>1, <1>3, <1>4, <2>2, <2>3, AddedBetween
  <2> QED
    BY <1>1, <1>5, <2>1, <2>4, <2>5
<1>7. ASSUME NextShard(page)
      PROVE  /\ read'.step \in {"count", "answer"}
             /\ read'.step = "count"  => read'.shard < ShardCount
             /\ read'.step = "answer" => read'.shard = ShardCount /\ read'.last = Never
             /\ Cardinality(Counted(always, read'.shard, read'.last)) <= read'.ahead
             /\ read'.ahead <= Cardinality(Counted(ever, read'.shard, read'.last))
  <2> DEFINE P(S) == { k \in In(S, s) : k > a }
  <2>1. /\ read'.shard = s + 1 /\ read'.last = Never /\ read'.step \in {"count", "answer"}
        /\ read'.step = "count"  => read'.shard < ShardCount
        /\ read'.step = "answer" => read'.shard = ShardCount
        /\ page = { k \in Ahead(read.fan, s) : k > a }
    BY <1>7 DEF NextShard
  <2>2. P(always) \in SUBSET page /\ page \in SUBSET P(ever)
    BY <1>2, <2>1 DEF In, Ahead
  <2>3. P(ever) \in SUBSET Fans
    BY <1>2 DEF In
  <2>4. /\ Cardinality(Counted(always, s + 1, Never)) = C(always) + Cardinality(P(always))
        /\ Cardinality(Counted(ever, s + 1, Never)) = C(ever) + Cardinality(P(ever))
    <3>1. s \in Nat /\ a \in Fans \cup {Never}
      BY <1>1
    <3> HIDE DEF s, a
    <3> QED
      BY <1>2, <3>1, CountedShard DEF C
  <2> HIDE DEF P, s, a
  <2>5. /\ C(always) + Cardinality(P(always)) <= read.ahead + Cardinality(page)
        /\ read.ahead + Cardinality(page) <= C(ever) + Cardinality(P(ever))
    BY <1>1, <1>3, <1>4, <2>2, <2>3, AddedBetween
  <2> QED
    BY <1>5, <2>1, <2>4, <2>5
<1> QED
  BY <1>1, <1>5, <1>6, <1>7

LEMMA CountsStep == IInv /\ [Next]_vars => Counts'
<1> SUFFICES ASSUME IInv, [Next]_vars PROVE Counts'
  OBVIOUS
<1>0. Shape /\ Counts
  BY DEF IInv
<1>1. /\ always \in SUBSET Fans /\ ever \in SUBSET Fans /\ waitingIndex \in SUBSET Fans
      /\ always \subseteq { k \in waitingIndex : k < read.fan }
      /\ { k \in waitingIndex : k < read.fan } \subseteq ever
  BY <1>0 DEF Shape, Counts
<1>2. ASSUME NEW f \in Readers, NEW exact \in BOOLEAN, GetItem(f, exact)
      PROVE  Counts'
  <2>1. /\ always' = { k \in waitingIndex : k < f } /\ ever' = { k \in waitingIndex : k < f }
        /\ waitingIndex' = waitingIndex
    BY <1>2 DEF GetItem
  <2>2. /\ read'.step = "aggregates" /\ read'.fan = f /\ read'.ahead = 0 /\ read'.shard = 0
        /\ read'.last = Never
    BY <1>0, <1>2, GetItemLeaves
  <2>3. { k \in waitingIndex : k < f } \subseteq Fans
    BY <1>1
  <2> QED
    BY <2>1, <2>2, <2>3 DEF Counts
<1>3. CASE Aggregates
  <2>1. UNCHANGED <<waitingIndex, always, ever>>
    BY <1>3 DEF Aggregates
  <2> DEFINE o == ShardOf[read.fan]
             page == Page(read.fan, o, Never)
             n == ShardCount * Cardinality(page)
  <2>3. /\ read'.fan = read.fan /\ read'.exact = read.exact /\ read'.shard = 0
        /\ read'.last = Never /\ read.exact \in BOOLEAN
        /\ read.exact  => read'.step = "count" /\ read'.ahead = 0
        /\ ~read.exact => read'.step = "answer" /\ read'.ahead = n
    BY <1>0, <1>3, AggregatesLeaves DEF Shape, Read
  <2>4. CASE read.exact
    <3>1. Cardinality(Counted(always, 0, Never)) = 0 /\ Cardinality(Counted(ever, 0, Never)) = 0
      BY <1>1, CountedNone
    <3>2. CountIn(Counted(always, 0, Never), Counted(ever, 0, Never))'
      BY <2>1, <2>3, <2>4, <3>1 DEF CountIn, Counted
    <3>3. (/\ read'.step = "count" /\ read'.exact /\ read'.shard = 0 /\ read'.last = Never
           /\ read'.ahead = 0 /\ read'.fan = read.fan)
      BY <2>3, <2>4
    <3> HIDE DEF o, page, n
    <3>4. CountIn(Counted(always, read.shard, read.last), Counted(ever, read.shard, read.last))'
      BY <3>2, <3>3
    <3> QED
      BY <1>1, <2>1, <3>3, <3>4 DEF Counts
  <2>5. CASE ~read.exact
    <3> DEFINE T == { k \in Ahead(read.fan, o) : k > Never }
    <3>1. page = First(PageSize, T)
      BY DEF Page
    <3>2. In(always, o) \in SUBSET T /\ T \in SUBSET In(ever, o) /\ T \in SUBSET Fans
      <4>1. \A k \in Fans : k > Never
        BY DEF Never
      <4> HIDE DEF o
      <4> QED
        BY <1>1, <4>1 DEF In, Ahead
    <3>3. In(ever, o) \in SUBSET Fans
      BY <1>1 DEF In
    <3> HIDE DEF T, page
    <3>4. /\ page \in SUBSET T /\ Cardinality(page) \in Nat /\ InPage(In(always, o)) \in Nat
          /\ InPage(In(always, o)) <= Cardinality(page)
      BY <3>1, <3>2, PageHolds
    <3>5. page \in SUBSET In(ever, o)
      BY <3>2, <3>4
    <3>6. Cardinality(In(ever, o)) \in Nat /\ Cardinality(page) <= Cardinality(In(ever, o))
      BY <3>3, <3>5, MoreIsMore
    <3>7. ShardCount * InPage(In(always, o)) <= n /\ n <= ShardCount * Cardinality(In(ever, o))
      BY <3>4, <3>6, ScaledIsMore
    <3>8. EstimateIn(In(always, ShardOf[read.fan]), In(ever, ShardOf[read.fan]))'
      BY <2>1, <2>3, <2>5, <3>7 DEF EstimateIn, InPage, In
    <3>9. /\ read'.step = "answer" /\ ~read'.exact /\ read'.last = Never
          /\ read'.fan = read.fan
      BY <2>3, <2>5
    <3> HIDE DEF o, n
    <3> QED
      BY <1>1, <2>1, <3>8, <3>9 DEF Counts
  <2> QED
    BY <2>4, <2>5
<1>4. CASE CountPage
  <2>1. UNCHANGED <<waitingIndex, always, ever>>
    BY <1>4 DEF CountPage
  <2>2. /\ read'.fan = read.fan /\ read'.exact /\ read'.step \in {"count", "answer"}
        /\ read'.step = "count"  => read'.shard < ShardCount
        /\ read'.step = "answer" => read'.shard = ShardCount /\ read'.last = Never
        /\ Cardinality(Counted(always, read'.shard, read'.last)) <= read'.ahead
        /\ read'.ahead <= Cardinality(Counted(ever, read'.shard, read'.last))
    BY <1>0, <1>4, CountPageKeeps
  <2>3. CountIn(Counted(always, read.shard, read.last), Counted(ever, read.shard, read.last))'
    BY <2>1, <2>2 DEF CountIn, Counted
  <2> QED
    BY <1>1, <2>1, <2>2, <2>3 DEF Counts
<1>5. CASE Answer
  <2>1. /\ read'.step = "idle" /\ read'.ahead = 0 /\ read'.shard = 0 /\ read'.fan = 0
        /\ read'.last = Never
        /\ always' = {} /\ ever' = {} /\ waitingIndex' = waitingIndex
    BY <1>5 DEF Answer, NoRead
  <2>2. { k \in waitingIndex : k < 0 } = {}
    <3>1. \A k \in waitingIndex : ~(k < 0)
      BY <1>1
    <3> QED
      BY <3>1
  <2> QED
    BY <2>1, <2>2 DEF Counts
<1>6. ASSUME NEW j \in Fans, FollowWaiting(j)
      PROVE  Counts'
  <2>1. /\ read' = read /\ always' = always \cap waitingIndex'
        /\ waitingIndex' \subseteq waitingIndex \cup {j}
        /\ ever' = IF j < read.fan THEN ever \cup (waitingIndex' \cap {j}) ELSE ever
    BY <1>6 DEF FollowWaiting
  <2>2. always' \in SUBSET always /\ ever' \in SUBSET Fans /\ ever \subseteq ever'
    BY <1>1, <2>1
  <2>3. always' \subseteq { k \in waitingIndex' : k < read.fan }
    BY <1>1, <2>1
  <2>4. { k \in waitingIndex' : k < read.fan } \subseteq ever'
    BY <1>1, <2>1
  <2> HIDE <1>6
  <2>5. /\ read.step \in {"count", "answer"} /\ read.exact =>
             CountIn(Counted(always', read.shard, read.last), Counted(ever', read.shard, read.last))
        /\ read.step = "answer" /\ ~read.exact =>
             EstimateIn(In(always', ShardOf[read.fan]), In(ever', ShardOf[read.fan]))
    BY <1>0, <2>2, CountsWiden
  <2> QED
    BY <1>0, <2>1, <2>2, <2>3, <2>4, <2>5 DEF Counts, CountIn, EstimateIn, Counted, In, InPage
<1>7. CASE UNCHANGED <<waitingIndex, reading>>
  BY <1>0, <1>7 DEF Counts, CountIn, EstimateIn, Counted, In, InPage
<1> QED
  BY <1>2, <1>3, <1>4, <1>5, <1>6, <1>7 DEF Next, vars, Select, Stamp, Cutoff, QueryExpired,
     PromoteEntry, ExpireEntry, Admit, Activate, FollowEligible, Tick

-----------------------------------------------------------------------------
(* What the runs check, for all constants *)

\* The conjunction holds in every state: what the sweep may pick, which answers may be
\* cached, and what a read has counted of the entries ahead.
THEOREM StatusInvariance == Spec => []IInv
<1>1. IInv /\ [Next]_vars => IInv'
  BY ShapeStep, TimesStep, CountsStep DEF IInv
<1> QED
  BY <1>1, InitIInv, PTL DEF Spec

\* No entry is expired before the whole window of CONFIG has passed, whatever image of the
\* index the sweep took it from and however late it writes.
THEOREM WindowHonoured == Spec => []WindowIsHonoured
<1>1. IInv => WindowIsHonoured
  BY DEF IInv, Times
<1> QED
  BY <1>1, StatusInvariance, PTL

\* A cached answer that lets a fan browse is gone a staleness bound after the window of the
\* release, whatever the window of CONFIG.
THEOREM CachedLeaveEnds == Spec => []BrowseIsBounded
<1>1. IInv => BrowseIsBounded
  BY DEF IInv, Times, BrowseIsBounded
<1> QED
  BY <1>1, StatusInvariance, PTL

\* The decision, made on the clock of the answer for an entry that was read earlier, lets
\* in somebody whom the sweep has expired only after CONFIG's window and before the end of
\* the release's.
THEOREM ExpiredBrowseInGap == Spec => ExpiredBrowseIsInGap
<1>1. ASSUME IInv, Answer, pass'[read.fan] # Never, status[read.fan] = "EXPIRED"
      PROVE  /\ (promotionTime[read.fan] + window.sweep) * Grain <= now
             /\ now < (promotionTime[read.fan] + window.browse) * Grain
  <2>1. Shape /\ Times /\ window.sweep \in Nat /\ window.browse \in Nat
    BY <1>1, WindowsAreNat DEF IInv
  <2>2. read.fan \in Fans
    BY <1>1, <2>1 DEF Answer, Shape
  <2>3. read.promoted # Never /\ now - read.promoted * Grain < window.browse * Grain
    BY <1>1, <2>1, <2>2 DEF Answer, MayBrowse, Shape
  <2>4. promotionTime[read.fan] = read.promoted /\ read.promoted \in Nat /\ now \in Nat
    <3>1. promotionTime[read.fan] = read.promoted
      BY <2>1, <2>3 DEF Times
    <3>2. read.promoted \in Nat
      BY <2>1, <2>3 DEF Shape, Read
    <3>3. now \in Nat
      BY <2>1 DEF Shape
    <3> QED
      BY <3>1, <3>2, <3>3
  <2>5. now < (read.promoted + window.browse) * Grain
    BY <2>1, <2>3, <2>4, MayBrowseEnds
  <2>6. now >= (promotionTime[read.fan] + window.sweep) * Grain
    BY <1>1, <2>1, <2>2 DEF Times, WindowIsHonoured, WithStatus, Shape
  <2>7. (promotionTime[read.fan] + window.sweep) * Grain \in Int
    BY <2>1, <2>4
  <2> QED
    BY <2>4, <2>5, <2>6, <2>7
<1>2. IInv /\ [Next]_vars
        => [(Answer /\ pass'[read.fan] # Never /\ status[read.fan] = "EXPIRED")
              => /\ (promotionTime[read.fan] + window.sweep) * Grain <= now
                 /\ now < (promotionTime[read.fan] + window.browse) * Grain]_vars
  BY <1>1
<1> QED
  BY <1>2, StatusInvariance, PTL DEF ExpiredBrowseIsInGap, Spec

\* A position counts at least whom the index held ahead throughout the read and at most
\* whom it held at some moment of it, however many shards and pages are counted one by
\* one; the estimate may leave out whom its one page has no room for.
THEOREM PositionsAreBetween == Spec => []PositionIsBetween
<1>1. ASSUME IInv, read.step = "answer"
      PROVE  PositionIsBetween
  <2>1. Shape /\ Counts
    BY <1>1 DEF IInv
  <2>2. always \in SUBSET Fans /\ ever \in SUBSET Fans /\ read.ahead \in Nat /\ read.exact \in BOOLEAN
    BY <2>1 DEF Shape, Counts, Read
  <2>3. Cardinality(always) \in Nat /\ Cardinality(ever) \in Nat
    BY <2>2, MoreIsMore
  <2>4. CASE read.exact
    <3>1. read.shard = ShardCount /\ read.last = Never
          /\ CountIn(Counted(always, read.shard, read.last), Counted(ever, read.shard, read.last))
      BY <1>1, <2>1, <2>4 DEF Counts
    <3>2. Cardinality(always) <= read.ahead /\ read.ahead <= Cardinality(ever)
      BY <2>2, <3>1, CountedAll DEF CountIn
    <3> QED
      BY <2>2, <2>3, <2>4, <3>2 DEF PositionIsBetween, Position
  <2>5. CASE ~read.exact
    <3> DEFINE a == ShardCount * InPage(In(always, ShardOf[read.fan]))
               e == ShardCount * Cardinality(In(ever, ShardOf[read.fan]))
    <3>1. a <= read.ahead /\ read.ahead <= e
      BY <1>1, <2>1, <2>5 DEF Counts, EstimateIn
    <3>2. In(always, ShardOf[read.fan]) \in SUBSET Fans /\ In(ever, ShardOf[read.fan]) \in SUBSET Fans
      BY <2>2 DEF In
    <3>3. a \in Nat /\ e \in Nat
      BY <3>2, MoreIsMore, InPageGrows, ScaledIsMore
    <3> HIDE DEF a, e
    <3>4. 1 + a <= read.ahead + 1 /\ read.ahead + 1 <= 1 + e
      BY <2>2, <3>1, <3>3
    <3> QED
      BY <2>5, <3>4 DEF PositionIsBetween, Position, In, a, e
  <2> QED
    BY <2>2, <2>4, <2>5
<1>2. IInv => PositionIsBetween
  BY <1>1 DEF PositionIsBetween
<1> QED
  BY <1>2, StatusInvariance, PTL

\* Every variable keeps its type, and no count exceeds what there is to count.
THEOREM StatusTypeCorrect == Spec => []TypeOK
<1>1. ASSUME IInv
      PROVE  read.ahead \in 0..(ShardCount * Cardinality(Fans))
  <2>1. Shape /\ Counts
    BY <1>1 DEF IInv
  <2>2. /\ ever \in SUBSET Fans /\ read.ahead \in Nat /\ read.exact \in BOOLEAN
        /\ read.step \in {"idle", "aggregates", "count", "answer"}
    BY <2>1 DEF Shape, Counts, Read
  <2> DEFINE c == Cardinality(Counted(ever, read.shard, read.last))
             o == Cardinality(In(ever, ShardOf[read.fan]))
  <2>3. /\ Counted(ever, read.shard, read.last) \in SUBSET Fans
        /\ In(ever, ShardOf[read.fan]) \in SUBSET Fans
        /\ Fans \in SUBSET Fans
    BY <2>2 DEF Counted, In
  <2>4. c <= Cardinality(Fans) /\ c \in Nat /\ Cardinality(Fans) \in Nat
        /\ o <= Cardinality(Fans) /\ o \in Nat
    BY <2>3, MoreIsMore
  <2>7. CASE read.step \in {"idle", "aggregates"}
    BY <2>1, <2>4, <2>7, ScaledIsMore DEF Counts
  <2>8. CASE read.step \in {"count", "answer"} /\ read.exact
    <3>1. read.ahead <= c
      BY <2>1, <2>8 DEF Counts, CountIn
    <3> HIDE DEF c
    <3>2. Cardinality(Fans) <= ShardCount * Cardinality(Fans)
      BY <2>4
    <3> QED
      BY <2>2, <2>4, <3>1, <3>2
  <2>9. CASE read.step = "answer" /\ ~read.exact
    <3>1. read.ahead <= ShardCount * o
      BY <2>1, <2>9 DEF Counts, EstimateIn
    <3> HIDE DEF o
    <3>2. /\ ShardCount * o <= ShardCount * Cardinality(Fans)
          /\ ShardCount * o \in Nat /\ ShardCount * Cardinality(Fans) \in Nat
      BY <2>4, ScaledIsMore
    <3> QED
      BY <2>2, <3>1, <3>2
  <2> QED
    BY <2>1, <2>2, <2>7, <2>8, <2>9 DEF Counts
<1>2. ASSUME IInv
      PROVE  TypeOK
  <2>1. always \subseteq ever /\ ever \subseteq Fans
    BY <1>2 DEF IInv, Counts
  <2> QED
    BY <1>1, <1>2, <2>1 DEF IInv, Shape, TypeOK, Read
<1> QED
  BY <1>2, StatusInvariance, PTL
=============================================================================
