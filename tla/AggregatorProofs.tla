-------------------------- MODULE AggregatorProofs --------------------------
(***************************************************************************)
(* What the aggregator keeps for any number of entries, any rate window    *)
(* and any clock, whatever the stream repeats or reorders.                 *)
(***************************************************************************)
EXTENDS Aggregator, FiniteSetTheorems, SequenceTheorems, TLAPS

USE WindowAssumption, EntriesFinite

\* Types; the deque holds no more than has been counted.
Shape ==
    /\ status \in [Entries -> EntryState]
    /\ rank \in [Entries -> Nat]
    /\ records \in SUBSET Record
    /\ now \in Times
    /\ promotedTotal \in Nat
    /\ promotedKeys \in SUBSET Entries
    /\ promotionTimes \in Seq(Times)
    /\ Len(promotionTimes) <= promotedTotal
    /\ recent \in 0..Cardinality(Entries)

\* A promotion that is counted, or whose record can come, has happened.
Counted ==
    /\ CountsPromotions
    /\ \A r \in records : IsPromotion(r) => Promoted(r.key)

\* The ranks number the admitted entries.
Ranked ==
    /\ \A j, k \in Admitted : rank[j] = rank[k] => j = k
    /\ \A k \in Admitted :
         /\ rank[k] = 1 + Cardinality({ j \in Admitted : rank[j] < rank[k] })
         /\ rank[k] <= Cardinality(Admitted)

IInv == Shape /\ Counted /\ Ranked

-----------------------------------------------------------------------------
(* Facts about the definitions *)

LEMMA EntrySets ==
    ASSUME NEW S \in SUBSET Entries, NEW T \in SUBSET S
    PROVE  /\ IsFiniteSet(S) /\ IsFiniteSet(T)
           /\ Cardinality(T) \in Nat /\ Cardinality(S) \in Nat
           /\ Cardinality(T) <= Cardinality(S)
<1>1. IsFiniteSet(S)
  BY FS_Subset
<1> QED
  BY <1>1, FS_Subset, FS_CardinalityType

\* A finite set of numbers has a least one: without it everybody would have somebody
\* below, and the numbers of those below would be too few for all to differ.
LEMMA HasLeast ==
    ASSUME NEW S \in SUBSET Nat, IsFiniteSet(S), S # {}
    PROVE  \E x \in S : \A y \in S : x <= y
<1> DEFINE Below(k) == { j \in S : j < k }
           n == Cardinality(S)
           f == [k \in S |-> Cardinality(Below(k))]
<1> SUFFICES ASSUME \A x \in S : \E y \in S : ~(x <= y)
             PROVE  FALSE
  OBVIOUS
<1>1. n \in Nat /\ n # 0
  BY FS_CardinalityType, FS_EmptySet
<1>2. ASSUME NEW k \in S
      PROVE  IsFiniteSet(Below(k)) /\ Cardinality(Below(k)) \in 1..(n - 1)
  <2>1. Below(k) \in SUBSET S /\ k \notin Below(k)
    OBVIOUS
  <2>2. \E y \in S : y \in Below(k)
    <3>1. PICK y \in S : ~(k <= y)
      OBVIOUS
    <3>2. y \in Nat /\ k \in Nat
      OBVIOUS
    <3>3. y < k
      BY <3>1, <3>2
    <3> QED
      BY <3>3
  <2>3. Below(k) # {} /\ Below(k) # S
    BY <2>1, <2>2
  <2> HIDE DEF Below
  <2>4. IsFiniteSet(Below(k)) /\ Cardinality(Below(k)) \in Nat
    BY <2>1, FS_Subset, FS_CardinalityType
  <2>5. Cardinality(Below(k)) # 0
    BY <2>3, <2>4, FS_EmptySet
  <2>6. Cardinality(Below(k)) <= n /\ Cardinality(Below(k)) # n
    BY <2>1, <2>3, FS_Subset
  <2> QED
    BY <1>1, <2>4, <2>5, <2>6
<1>3. ASSUME NEW j \in S, NEW k \in S, j < k
      PROVE  Cardinality(Below(j)) # Cardinality(Below(k))
  <2>1. j \in Nat /\ k \in Nat
    OBVIOUS
  <2>2. Below(j) \in SUBSET Below(k)
    <3>1. ASSUME NEW i \in S, i < j  PROVE i < k
      <4>1. i \in Nat
        OBVIOUS
      <4> QED
        BY <1>3, <2>1, <3>1, <4>1
    <3> QED
      BY <3>1
  <2>3. j \in Below(k) /\ j \notin Below(j)
    BY <1>3, <2>1
  <2>4. IsFiniteSet(Below(k))
    BY <1>2
  <2> HIDE DEF Below
  <2> QED
    BY <2>2, <2>3, <2>4, FS_Subset
<1>4. f \in [S -> 1..(n - 1)]
  <2> HIDE DEF Below
  <2> QED
    BY <1>2
<1>5. IsFiniteSet(1..(n - 1)) /\ Cardinality(1..(n - 1)) < n
  <2> HIDE DEF n
  <2>1. n - 1 \in Int /\ 1 \in Int
    BY <1>1
  <2>2. Cardinality(1..(n - 1)) = IF 1 > n - 1 THEN 0 ELSE n - 1 - 1 + 1
    BY <2>1, FS_Interval
  <2>3. IsFiniteSet(1..(n - 1))
    BY <2>1, FS_Interval
  <2> QED
    BY <1>1, <2>2, <2>3
<1>6. \E x, y \in S : x # y /\ f[x] = f[y]
  <2> DEFINE T == 1..(n - 1)
  <2>1. f \in [S -> T]
    BY <1>4
  <2>2. IsFiniteSet(T) /\ Cardinality(T) < Cardinality(S)
    BY <1>5
  <2>3. IsFiniteSet(S)
    OBVIOUS
  <2> HIDE DEF f, T
  <2> QED
    BY ONLY <2>1, <2>2, <2>3, FS_PigeonHole
<1>7. PICK j \in S, k \in S : j # k /\ f[j] = f[k]
  BY <1>6
<1>8. j < k \/ k < j
  <2>1. j \in Nat /\ k \in Nat
    OBVIOUS
  <2> QED
    BY <1>7, <2>1
<1>9. Cardinality(Below(j)) = Cardinality(Below(k))
  BY <1>7
<1> HIDE DEF Below
<1> QED
  BY <1>3, <1>8, <1>9

\* Evicting takes times off the left as long as they are not past the cutoff.
LEMMA EvictFromLeft ==
    ASSUME NEW s \in Seq(Times), NEW c \in Int
    PROVE  /\ Evict(s, c) \in Seq(Times)
           /\ \E m \in 0..Len(s) :
                /\ Len(Evict(s, c)) = Len(s) - m
                /\ \A i \in 1..Len(Evict(s, c)) : Evict(s, c)[i] = s[i + m]
                /\ \A i \in 1..m : s[i] <= c
                /\ Len(Evict(s, c)) > 0 => Evict(s, c)[1] > c
<1> DEFINE I == { i \in 1..Len(s) : s[i] > c }
           first == IF I # {} THEN Min(I) ELSE 0
<1>1. Evict(s, c) = IF first = 0 THEN <<>> ELSE SubSeq(s, first, Len(s))
  BY DEF Evict, SelectInSeq
<1>2. Len(s) \in Nat /\ IsFiniteSet(1..Len(s)) /\ \A i \in 1..Len(s) : s[i] \in Times
  BY FS_Interval
<1>3. I \in SUBSET Nat /\ IsFiniteSet(I) /\ I \in SUBSET (1..Len(s))
  <2> DEFINE D == 1..Len(s)
  <2>1. I \in SUBSET D /\ D \in SUBSET Nat /\ IsFiniteSet(D)
    BY <1>2
  <2> HIDE DEF I, D
  <2>2. IsFiniteSet(I) /\ I \in SUBSET Nat
    BY <2>1, FS_Subset
  <2> QED
    BY <2>1, <2>2 DEF D
<1>4. \A i \in 1..Len(s) : s[i] \in Int /\ (i \notin I => s[i] <= c) /\ (i \in I => s[i] > c)
  BY <1>2 DEF Times
<1> HIDE DEF I
<1>5. CASE I = {}
  <2>1. first = 0
    BY <1>5
  <2>2. Evict(s, c) = <<>>
    BY <1>1, <2>1
  <2>3. Evict(s, c) \in Seq(Times) /\ Len(Evict(s, c)) = 0
    BY <2>2
  <2>4. \A i \in 1..Len(s) : s[i] <= c
    BY <1>4, <1>5
  <2> DEFINE e == Evict(s, c)
             m == Len(s)
  <2>5. /\ m \in 0..Len(s) /\ Len(e) = Len(s) - m
        /\ \A i \in 1..Len(e) : e[i] = s[i + m]
        /\ \A i \in 1..m : s[i] <= c
        /\ Len(e) > 0 => e[1] > c
    BY <1>2, <2>3, <2>4
  <2> HIDE DEF m
  <2> QED
    BY <2>3, <2>5
<1>6. CASE I # {}
  <2>1. \E x \in I : \A y \in I : x <= y
    BY <1>3, <1>6, HasLeast
  <2>2. first \in I /\ \A y \in I : first <= y
    BY <1>6, <2>1 DEF Min
  <2> HIDE DEF first
  <2>3. first \in 1..Len(s) /\ first # 0
    BY <1>2, <1>3, <2>2
  <2>4. Evict(s, c) = SubSeq(s, first, Len(s))
    BY <1>1, <2>3
  <2>5. \A i \in first..Len(s) : s[i] \in Times
    BY <1>2, <2>3
  <2>6. /\ SubSeq(s, first, Len(s)) \in Seq(Times)
        /\ Len(SubSeq(s, first, Len(s))) = Len(s) - first + 1
        /\ \A i \in 1..(Len(s) - first + 1) : SubSeq(s, first, Len(s))[i] = s[first + i - 1]
    BY <1>2, <2>3, <2>5, SubSeqProperties
  <2> DEFINE m == first - 1
  <2>7. m \in 0..Len(s) /\ Len(Evict(s, c)) = Len(s) - m
    BY <1>2, <2>3, <2>4, <2>6
  <2>8. \A i \in 1..Len(Evict(s, c)) : Evict(s, c)[i] = s[i + m]
    <3>1. \A i \in 1..(Len(s) - first + 1) : first + i - 1 = i + m
      BY <1>2, <2>3
    <3> QED
      BY <2>4, <2>6, <3>1
  <2>9. \A i \in 1..m : s[i] <= c
    BY <1>2, <1>4, <2>2, <2>3
  <2>10. Len(Evict(s, c)) > 0 => Evict(s, c)[1] > c
    BY <1>2, <1>4, <2>2, <2>3, <2>7, <2>8
  <2> HIDE DEF m
  <2> QED
    BY <2>4, <2>6, <2>7, <2>8, <2>9, <2>10
<1> QED
  BY <1>5, <1>6

\* It leaves a sequence of times that is no longer.
LEMMA EvictShortens ==
    ASSUME NEW s \in Seq(Times), NEW c \in Int
    PROVE  Evict(s, c) \in Seq(Times) /\ Len(Evict(s, c)) <= Len(s)
<1>1. PICK m \in 0..Len(s) : Len(Evict(s, c)) = Len(s) - m
  BY EvictFromLeft
<1> QED
  BY <1>1, EvictFromLeft

-----------------------------------------------------------------------------
(* The invariant is inductive *)

LEMMA InitIInv == Init => IInv
<1> SUFFICES ASSUME Init PROVE IInv
  OBVIOUS
<1>1. Cardinality({}) = 0 /\ Cardinality(Entries) \in Nat
  BY FS_EmptySet, FS_CardinalityType
<1>2. <<>> \in Seq(Times) /\ Len(<<>>) = 0
  OBVIOUS
<1>3. Shape
  BY <1>1, <1>2 DEF Init, Shape, Times, EntryState
<1>4. Counted
  BY <1>1 DEF Init, Counted, CountsPromotions
<1>5. Admitted = {}
  BY DEF Init, Admitted
<1> QED
  BY <1>3, <1>4, <1>5 DEF IInv, Ranked

LEMMA StepAdmit ==
    ASSUME IInv, NEW n \in Entries, Admit(n)
    PROVE  IInv'
<1> DEFINE A == Admitted
<1>0. Shape /\ Counted /\ Ranked
  BY DEF IInv
<1>1. /\ status[n] = NoEntry /\ n \notin A
      /\ status' = [status EXCEPT ![n] = "WAITING"]
      /\ rank' = [rank EXCEPT ![n] = Cardinality(A) + 1]
      /\ records' = records \cup {[key |-> n, old |-> NoEntry, new |-> "WAITING", at |-> 0]}
      /\ UNCHANGED <<now, counted, recent>>
  BY DEF Admit, Emit, Admitted, NoEntry
<1>2. A \in SUBSET Entries /\ IsFiniteSet(A) /\ Cardinality(A) \in Nat
  <2>1. A \in SUBSET Entries
    BY DEF Admitted
  <2> QED
    BY <2>1, EntrySets
<1>3. Admitted' = A \cup {n}
  BY <1>0, <1>1 DEF Admitted, Shape, NoEntry
<1>4. /\ rank'[n] = Cardinality(A) + 1 /\ \A k \in A : rank'[k] = rank[k]
      /\ rank' \in [Entries -> Nat]
  BY <1>0, <1>1, <1>2 DEF Shape
<1>5. \A k \in A : rank[k] \in Nat /\ rank[k] <= Cardinality(A)
  BY <1>0, <1>2 DEF Ranked, Shape
<1>6. Cardinality(A \cup {n}) = Cardinality(A) + 1
  BY <1>1, <1>2, FS_AddElement
<1> HIDE DEF A
<1>7. Ranked'
  <2>1. \A j, k \in A \cup {n} : rank'[j] = rank'[k] => j = k
    <3>1. \A j, k \in A : rank[j] = rank[k] => j = k
      BY <1>0 DEF Ranked, A
    <3> QED
      BY <1>2, <1>4, <1>5, <3>1
  <2>2. ASSUME NEW k \in A
        PROVE  /\ rank'[k] = 1 + Cardinality({ j \in A \cup {n} : rank'[j] < rank'[k] })
               /\ rank'[k] <= Cardinality(A \cup {n})
    <3>1. { j \in A \cup {n} : rank'[j] < rank'[k] } = { j \in A : rank[j] < rank[k] }
      <4>1. ~(rank'[n] < rank'[k])
        BY <1>2, <1>4, <1>5
      <4> QED
        BY <1>4, <4>1
    <3>2. rank[k] = 1 + Cardinality({ j \in A : rank[j] < rank[k] })
      BY <1>0 DEF Ranked, A
    <3>3. rank'[k] = rank[k]
      BY <1>4
    <3>4. rank'[k] <= Cardinality(A \cup {n})
      BY <1>2, <1>5, <1>6, <3>3
    <3> QED
      BY <3>1, <3>2, <3>3, <3>4
  <2>3. { j \in A \cup {n} : rank'[j] < rank'[n] } = A
    <3>1. \A j \in A : rank'[j] < rank'[n]
      BY <1>2, <1>4, <1>5
    <3>2. ~(rank'[n] < rank'[n])
      BY <1>2, <1>4
    <3> QED
      BY <1>1, <3>1, <3>2
  <2>4. /\ rank'[n] = 1 + Cardinality({ j \in A \cup {n} : rank'[j] < rank'[n] })
        /\ rank'[n] <= Cardinality(A \cup {n})
    BY <1>2, <1>4, <1>6, <2>3
  <2> QED
    BY <1>3, <2>1, <2>2, <2>4 DEF Ranked
<1>8. Shape'
  <2>1. status' \in [Entries -> EntryState]
    BY <1>0, <1>1 DEF Shape, EntryState, EligibilityStatus
  <2>2. records' \in SUBSET Record
    BY <1>0, <1>1 DEF Shape, Record, EntryState, EligibilityStatus, Times
  <2> QED
    BY <1>0, <1>1, <1>4, <2>1, <2>2 DEF Shape, counted
<1>9. Counted'
  <2>1. \A k \in Entries : Promoted(k) => Promoted(k)'
    BY <1>0, <1>1 DEF Shape, Promoted, EligibilityStatus, NoEntry
  <2>2. \A r \in records' : IsPromotion(r) => r \in records
    BY <1>1 DEF IsPromotion
  <2>3. \A r \in records : r.key \in Entries
    BY <1>0 DEF Shape, Record
  <2>4. promotedTotal' = Cardinality(promotedKeys') /\ \A k \in promotedKeys' : Promoted(k)'
    BY <1>0, <1>1, <2>1 DEF Shape, Counted, CountsPromotions, counted
  <2>5. \A r \in records' : IsPromotion(r) => Promoted(r.key)'
    BY <1>0, <2>1, <2>2, <2>3 DEF Counted
  <2> QED
    BY <2>4, <2>5 DEF Counted, CountsPromotions
<1> QED
  BY <1>7, <1>8, <1>9 DEF IInv

LEMMA StepMove ==
    ASSUME IInv, NEW n \in Entries, NEW s \in EligibilityStatus, NEW t \in EligibilityStatus,
           Move(n, s, t)
    PROVE  IInv'
<1> DEFINE r0 == [key |-> n, old |-> s, new |-> t, at |-> IF s = "WAITING" THEN now ELSE 0]
<1>0. Shape /\ Counted /\ Ranked
  BY DEF IInv
<1>1. /\ status[n] = s /\ status' = [status EXCEPT ![n] = t]
      /\ records' = records \cup {r0}
      /\ UNCHANGED <<rank, now, counted, recent>>
  BY DEF Move, Emit, CanTransition
<1>2. t # "WAITING" /\ t # NoEntry /\ s # NoEntry
  BY DEF Move, CanTransition, IsAllowed, AllowedTransitions, NoEntry, EligibilityStatus
<1>3. status' \in [Entries -> EntryState]
  BY <1>0, <1>1 DEF Shape, EntryState
<1>4. r0 \in Record
  BY <1>0 DEF Record, EntryState, Shape, Times
<1>5. Shape'
  BY <1>0, <1>1, <1>3, <1>4 DEF Shape, counted
<1>6. \A k \in Entries : Promoted(k) => Promoted(k)'
  BY <1>0, <1>1, <1>2 DEF Shape, Promoted
<1>7. Promoted(n)'
  BY <1>0, <1>1, <1>2 DEF Shape, Promoted
<1>8. Counted'
  <2>1. promotedTotal' = Cardinality(promotedKeys') /\ \A k \in promotedKeys' : Promoted(k)'
    BY <1>0, <1>1, <1>6 DEF Shape, Counted, CountsPromotions, counted
  <2>2. \A r \in records' : IsPromotion(r) => Promoted(r.key)'
    <3>1. ASSUME NEW r \in records, IsPromotion(r)  PROVE Promoted(r.key)'
      <4>1. r.key \in Entries /\ Promoted(r.key)
        BY <1>0, <3>1 DEF Shape, Record, Counted
      <4> QED
        BY <1>6, <4>1
    <3>2. ASSUME NEW r, r = r0  PROVE Promoted(r.key)'
      <4>1. r.key = n
        BY <3>2
      <4> QED
        BY <1>7, <4>1 DEF Promoted
    <3>3. \A r \in records' : r \in records \/ r = r0
      BY <1>1
    <3> HIDE DEF r0
    <3> QED
      BY <3>1, <3>2, <3>3
  <2> QED
    BY <2>1, <2>2 DEF Counted, CountsPromotions
<1>9. Admitted' = Admitted
  BY <1>0, <1>1, <1>2 DEF Admitted, Shape
<1>10. Ranked'
  BY <1>0, <1>1, <1>9 DEF Ranked
<1> QED
  BY <1>5, <1>8, <1>10 DEF IInv

LEMMA StepDeliver ==
    ASSUME IInv, NEW r \in records, Deliver(r)
    PROVE  IInv'
<1>0. Shape /\ Counted /\ Ranked
  BY DEF IInv
<1>1. /\ IsPromotion(r) /\ r.key \notin promotedKeys
      /\ promotedKeys' = promotedKeys \cup {r.key}
      /\ promotedTotal' = promotedTotal + 1
      /\ promotionTimes' = Append(promotionTimes, r.at)
      /\ UNCHANGED <<status, rank, records, now, recent>>
  BY DEF Deliver, ApplyEntry, entryVars
<1>2. r.key \in Entries /\ r.at \in Times /\ Promoted(r.key)
  BY <1>0, <1>1 DEF Shape, Record, Counted
<1>3. IsFiniteSet(promotedKeys)
  BY <1>0, EntrySets DEF Shape
<1>4. Cardinality(promotedKeys \cup {r.key}) = Cardinality(promotedKeys) + 1
  BY <1>1, <1>3, FS_AddElement
<1>5. /\ promotionTimes' \in Seq(Times)
      /\ Len(promotionTimes') = Len(promotionTimes) + 1
  BY <1>0, <1>1, <1>2 DEF Shape
<1>6. Shape'
  BY <1>0, <1>1, <1>2, <1>5 DEF Shape
<1>7. Counted'
  BY <1>0, <1>1, <1>2, <1>4 DEF Counted, CountsPromotions, Promoted
<1>8. Ranked'
  BY <1>0, <1>1 DEF Ranked, Admitted
<1> QED
  BY <1>6, <1>7, <1>8 DEF IInv

LEMMA StepSnapshot ==
    ASSUME IInv, Snapshot
    PROVE  IInv'
<1>0. Shape /\ Counted /\ Ranked
  BY DEF IInv
<1>1. /\ promotionTimes' = Evict(promotionTimes, now - RateWindow)
      /\ recent' = Len(promotionTimes')
      /\ UNCHANGED <<status, rank, records, now, promotedTotal, promotedKeys>>
  BY DEF Snapshot, entryVars
<1>2. promotionTimes' \in Seq(Times) /\ Len(promotionTimes') <= Len(promotionTimes)
  <2>1. now - RateWindow \in Int
    BY <1>0 DEF Shape, Times
  <2> QED
    BY <1>0, <1>1, <2>1, EvictShortens DEF Shape
<1>3. Len(promotionTimes') \in Nat /\ Len(promotionTimes) \in Nat
  BY <1>0, <1>2 DEF Shape
<1>4. promotedTotal <= Cardinality(Entries) /\ Cardinality(Entries) \in Nat
  <2>1. promotedTotal = Cardinality(promotedKeys) /\ promotedKeys \in SUBSET Entries
    BY <1>0 DEF Counted, CountsPromotions, Shape
  <2>2. Entries \in SUBSET Entries
    OBVIOUS
  <2> QED
    BY <2>1, <2>2, EntrySets
<1>5. Shape'
  BY <1>0, <1>1, <1>2, <1>3, <1>4 DEF Shape
<1>6. Counted'
  BY <1>0, <1>1 DEF Counted, CountsPromotions, Promoted
<1>7. Ranked'
  BY <1>0, <1>1 DEF Ranked, Admitted
<1> QED
  BY <1>5, <1>6, <1>7 DEF IInv

LEMMA StepOther ==
    ASSUME IInv, Tick \/ UNCHANGED vars
    PROVE  IInv'
<1>0. Shape /\ Counted /\ Ranked
  BY DEF IInv
<1>1. /\ UNCHANGED <<entryVars, counted, recent>>
      /\ now' \in Times
  BY <1>0 DEF Tick, vars, Shape, Times
<1>2. Shape'
  BY <1>0, <1>1 DEF Shape, entryVars, counted
<1>3. Counted'
  BY <1>0, <1>1 DEF Counted, CountsPromotions, Promoted, entryVars, counted
<1>4. Ranked'
  BY <1>0, <1>1 DEF Ranked, Admitted, entryVars
<1> QED
  BY <1>2, <1>3, <1>4 DEF IInv

-----------------------------------------------------------------------------
(* The rate *)

\* A record says that entry k left WAITING at time t.
AtTime(recs, k, t) == \E r \in recs : r.key = k /\ IsPromotion(r) /\ r.at = t

\* An entry leaves WAITING once.
Unique ==
    \A r, q \in records : (IsPromotion(r) /\ IsPromotion(q) /\ r.key = q.key) => r = q

\* h names the entry behind each time in the deque: the entries are different, were
\* promoted at those times, and a promotion that is counted and no longer in the deque is
\* past the window.
Behind(h, recs, keys, times, cutoff) ==
    /\ h \in [1..Len(times) -> keys]
    /\ \A i, j \in 1..Len(times) : h[i] = h[j] => i = j
    /\ \A i \in 1..Len(times) : AtTime(recs, h[i], times[i])
    /\ \A k \in keys :
          \/ \E i \in 1..Len(times) : h[i] = k
          \/ \E t \in Times : AtTime(recs, k, t) /\ t <= cutoff

Windowed ==
    /\ Unique
    /\ \E h : Behind(h, records, promotedKeys, promotionTimes, now - RateWindow)

\* The deque is as it was, records are added, and time passes.
LEMMA BehindStays ==
    ASSUME NEW R, NEW S, R \subseteq S, NEW c \in Int, NEW d \in Int, c <= d,
           NEW keys, NEW times, NEW h, Behind(h, R, keys, times, c)
    PROVE  Behind(h, S, keys, times, d)
<1>1. \A k, t : AtTime(R, k, t) => AtTime(S, k, t)
  BY DEF AtTime
<1>2. \A t \in Times : t <= c => t <= d
  BY DEF Times
<1> QED
  BY <1>1, <1>2 DEF Behind

\* What emits a record of a promotion finds none of its entry.
LEMMA UniqueStays ==
    ASSUME IInv, Unique, NEW r0, records' = records \cup {r0},
           IsPromotion(r0) => status[r0.key] = "WAITING"
    PROVE  Unique'
<1>1. \A r \in records : (IsPromotion(r) /\ IsPromotion(r0)) => r.key # r0.key
  BY DEF IInv, Counted, Promoted
<1> QED
  BY <1>1 DEF Unique, IsPromotion

LEMMA InitWindowed == Init => Windowed
<1> SUFFICES ASSUME Init PROVE Windowed
  OBVIOUS
<1> DEFINE h == [i \in {} |-> 0]
<1>1. records = {} /\ promotedKeys = {} /\ promotionTimes = <<>> /\ 1..Len(promotionTimes) = {}
  BY DEF Init
<1>2. h \in [{} -> {}]
  OBVIOUS
<1> HIDE DEF h
<1>3. Behind(h, records, promotedKeys, promotionTimes, now - RateWindow)
  BY <1>1, <1>2 DEF Behind
<1> QED
  BY <1>1, <1>3 DEF Windowed, Unique

LEMMA DeliverWindowed ==
    ASSUME IInv, IInv', Windowed, NEW r \in records, Deliver(r)
    PROVE  Windowed'
<1> DEFINE n == Len(promotionTimes)
<1>1. /\ IsPromotion(r) /\ r.key \notin promotedKeys
      /\ promotedKeys' = promotedKeys \cup {r.key}
      /\ promotionTimes' = Append(promotionTimes, r.at)
      /\ UNCHANGED <<records, now>>
  BY DEF Deliver, ApplyEntry, entryVars
<1>2. PICK h : Behind(h, records, promotedKeys, promotionTimes, now - RateWindow)
  BY DEF Windowed
<1> DEFINE g == [i \in 1..(n + 1) |-> IF i = n + 1 THEN r.key ELSE h[i]]
<1>3. promotionTimes \in Seq(Times) /\ n \in Nat /\ r.at \in Times
  BY DEF IInv, Shape, Record
<1>4. /\ Len(promotionTimes') = n + 1 /\ promotionTimes'[n + 1] = r.at
      /\ \A i \in 1..n : promotionTimes'[i] = promotionTimes[i]
  BY <1>1, <1>3
<1>5. AtTime(records, r.key, r.at)
  BY <1>1 DEF AtTime
<1>6. h \in [1..n -> promotedKeys] /\ \A i, j \in 1..n : h[i] = h[j] => i = j
  BY <1>2 DEF Behind
<1>7. /\ g[n + 1] = r.key /\ \A i \in 1..n : g[i] = h[i]
      /\ \A i \in 1..(n + 1) : i \in 1..n \/ i = n + 1
      /\ n + 1 \in 1..(n + 1) /\ 1..n \subseteq 1..(n + 1)
  BY <1>3
<1>8. g \in [1..(n + 1) -> promotedKeys']
  BY <1>1, <1>6, <1>7
<1> HIDE DEF g, n
<1>9. \A i, j \in 1..(n + 1) : g[i] = g[j] => i = j
  BY <1>1, <1>6, <1>7
<1>10. \A i \in 1..(n + 1) : AtTime(records, g[i], promotionTimes'[i])
  <2>1. \A i \in 1..n : AtTime(records, h[i], promotionTimes[i])
    BY <1>2 DEF Behind, n
  <2> QED
    BY <1>4, <1>5, <1>7, <2>1
<1>11. ASSUME NEW k \in promotedKeys'
       PROVE  \/ \E i \in 1..(n + 1) : g[i] = k
              \/ \E t \in Times : AtTime(records, k, t) /\ t <= now - RateWindow
  <2>1. CASE k = r.key
    BY <1>7, <2>1
  <2>2. CASE k \in promotedKeys
    <3>1. \/ \E i \in 1..n : h[i] = k
          \/ \E t \in Times : AtTime(records, k, t) /\ t <= now - RateWindow
      BY <1>2, <2>2 DEF Behind, n
    <3> QED
      BY <1>7, <3>1
  <2> QED
    BY <1>1, <2>1, <2>2
<1>12. Behind(g, records', promotedKeys', promotionTimes', now' - RateWindow)
  BY <1>1, <1>4, <1>8, <1>9, <1>10, <1>11 DEF Behind
<1>13. Unique'
  BY <1>1 DEF Windowed, Unique, IsPromotion
<1> QED
  BY <1>12, <1>13 DEF Windowed

LEMMA SnapshotWindowed ==
    ASSUME IInv, IInv', Windowed, Snapshot
    PROVE  /\ Windowed'
           /\ Len(promotionTimes') > 0 => promotionTimes'[1] > now - RateWindow
           /\ \E m \in Nat : \A i \in 1..Len(promotionTimes') :
                i + m \in 1..Len(promotionTimes)
                /\ promotionTimes'[i] = promotionTimes[i + m]
<1> DEFINE n == Len(promotionTimes)
           c == now - RateWindow
           e == Evict(promotionTimes, c)
<1>1. /\ promotionTimes' = e
      /\ UNCHANGED <<records, now, promotedKeys>>
  BY DEF Snapshot, entryVars
<1>2. promotionTimes \in Seq(Times) /\ n \in Nat /\ c \in Int
  BY DEF IInv, Shape, Times
<1> HIDE DEF c
<1>3. PICK m \in 0..n :
          /\ Len(e) = n - m
          /\ \A i \in 1..Len(e) : e[i] = promotionTimes[i + m]
          /\ \A i \in 1..m : promotionTimes[i] <= c
          /\ Len(e) > 0 => e[1] > c
  BY <1>2, EvictFromLeft
<1> HIDE DEF e
<1>4. PICK h : Behind(h, records, promotedKeys, promotionTimes, now - RateWindow)
  BY DEF Windowed
<1>5. /\ h \in [1..n -> promotedKeys]
      /\ \A i, j \in 1..n : h[i] = h[j] => i = j
      /\ \A i \in 1..n : AtTime(records, h[i], promotionTimes[i])
  BY <1>4 DEF Behind
<1> DEFINE g == [i \in 1..(n - m) |-> h[i + m]]
<1>6. \A i \in 1..(n - m) : i + m \in 1..n /\ g[i] = h[i + m]
  BY <1>2
<1>7. g \in [1..(n - m) -> promotedKeys]
  BY <1>5, <1>6
<1> HIDE DEF g
<1>8. \A i, j \in 1..(n - m) : g[i] = g[j] => i = j
  <2> SUFFICES ASSUME NEW i \in 1..(n - m), NEW j \in 1..(n - m), g[i] = g[j]
               PROVE  i = j
    OBVIOUS
  <2>1. i + m = j + m
    BY <1>5, <1>6
  <2> QED
    BY <1>2, <2>1
<1>9. \A i \in 1..(n - m) : AtTime(records, g[i], e[i])
  BY <1>3, <1>5, <1>6
<1>10. ASSUME NEW k \in promotedKeys
       PROVE  \/ \E i \in 1..(n - m) : g[i] = k
              \/ \E t \in Times : AtTime(records, k, t) /\ t <= c
  <2>1. CASE \E t \in Times : AtTime(records, k, t) /\ t <= c
    BY <2>1
  <2>2. ASSUME NEW i \in 1..n, h[i] = k
        PROVE  \/ \E j \in 1..(n - m) : g[j] = k
               \/ \E t \in Times : AtTime(records, k, t) /\ t <= c
    <3>1. CASE i <= m
      <4>1. i \in 1..m /\ promotionTimes[i] \in Times
        BY <1>2, <3>1
      <4> QED
        BY <1>3, <1>5, <2>2, <4>1
    <3>2. CASE i > m
      <4>1. i - m \in 1..(n - m) /\ i - m + m = i
        BY <1>2, <3>2
      <4> QED
        BY <1>6, <2>2, <4>1
    <3> QED
      BY <1>2, <3>1, <3>2
  <2>3. (\E i \in 1..n : h[i] = k) \/ \E t \in Times : AtTime(records, k, t) /\ t <= c
    BY <1>4 DEF Behind, c
  <2> QED
    BY <2>1, <2>2, <2>3
<1>11. Len(promotionTimes') = n - m
  BY <1>1, <1>3
<1>12. Behind(g, records', promotedKeys', promotionTimes', now' - RateWindow)
  BY <1>1, <1>7, <1>8, <1>9, <1>10, <1>11 DEF Behind, c
<1>13. Unique'
  BY <1>1 DEF Windowed, Unique, IsPromotion
<1>14. m \in Nat /\ \A i \in 1..Len(promotionTimes') :
            i + m \in 1..n /\ promotionTimes'[i] = promotionTimes[i + m]
  BY <1>1, <1>2, <1>3, <1>6
<1> QED
  BY <1>1, <1>3, <1>12, <1>13, <1>14 DEF Windowed, c

\* The cutoff moves with the clock.
LEMMA CutoffMoves ==
    ASSUME NEW t \in Times, NEW u \in Times, t <= u
    PROVE  t - RateWindow \in Int /\ u - RateWindow \in Int /\ t - RateWindow <= u - RateWindow
  BY DEF Times

LEMMA StepWindowed ==
    ASSUME IInv, IInv', Windowed, [Next]_vars
    PROVE  Windowed'
<1> USE DEF IInv
<1>1. PICK h : Behind(h, records, promotedKeys, promotionTimes, now - RateWindow)
  BY DEF Windowed
<1>2. ASSUME NEW k \in Entries, Admit(k) \/ \E s, t \in EligibilityStatus : Move(k, s, t)
      PROVE  Windowed'
  <2>1. PICK s \in EntryState, t \in EligibilityStatus :
            Emit(k, s, t) /\ (s = "WAITING" => status[k] = "WAITING")
    BY <1>2 DEF Admit, Move, CanTransition, EntryState, EligibilityStatus, NoEntry
  <2>2. UNCHANGED <<now, promotedKeys, promotionTimes>>
    BY <1>2 DEF Admit, Move, counted
  <2> DEFINE r0 == [key |-> k, old |-> s, new |-> t,
                    at |-> IF s = "WAITING" THEN now ELSE 0]
  <2>3. records' = records \cup {r0} /\ now <= now'
    BY <2>1, <2>2 DEF Emit, Shape, Times
  <2>4. IsPromotion(r0) => status[r0.key] = "WAITING"
    BY <2>1 DEF IsPromotion
  <2> HIDE DEF r0
  <2>5. Unique'
    BY <2>3, <2>4, UniqueStays DEF Windowed
  <2>6. Behind(h, records', promotedKeys', promotionTimes', now' - RateWindow)
    <3>1. now - RateWindow \in Int /\ now' - RateWindow \in Int
          /\ now - RateWindow <= now' - RateWindow
      <4>1. now \in Times /\ now' \in Times /\ now <= now'
        BY <2>3 DEF Shape
      <4> QED
        BY <4>1, CutoffMoves
    <3>2. records \subseteq records'
      BY <2>3
    <3> QED
      BY <1>1, <2>2, <3>1, <3>2, BehindStays
  <2> QED
    BY <2>5, <2>6 DEF Windowed
<1>3. ASSUME NEW r \in records, Deliver(r)
      PROVE  Windowed'
  BY <1>3, DeliverWindowed
<1>4. CASE Snapshot
  BY <1>4, SnapshotWindowed
<1>5. CASE Tick \/ UNCHANGED vars
  <2>1. UNCHANGED <<records, promotedKeys, promotionTimes>> /\ now <= now'
    BY <1>5 DEF Tick, vars, entryVars, counted, Shape, Times
  <2>2. Unique'
    BY <2>1 DEF Windowed, Unique, IsPromotion
  <2>3. Behind(h, records', promotedKeys', promotionTimes', now' - RateWindow)
    <3>1. now - RateWindow \in Int /\ now' - RateWindow \in Int
          /\ now - RateWindow <= now' - RateWindow
      <4>1. now \in Times /\ now' \in Times /\ now <= now'
        BY <2>1 DEF Shape
      <4> QED
        BY <4>1, CutoffMoves
    <3> QED
      BY <1>1, <2>1, <3>1, BehindStays
  <2> QED
    BY <2>2, <2>3 DEF Windowed
<1> QED
  BY <1>2, <1>3, <1>4, <1>5 DEF Next

-----------------------------------------------------------------------------
(* What the runs check, for all constants *)

\* The conjunction holds in every state: what has been counted or can be delivered has
\* happened, and ranks number the admitted entries.
THEOREM AggregatorInvariance == Spec => []IInv
<1>1. IInv /\ [Next]_vars => IInv'
  BY StepAdmit, StepMove, StepDeliver, StepSnapshot, StepOther DEF Next
<1> QED
  BY <1>1, InitIInv, PTL DEF Spec

\* Every variable keeps its type, and a rate counts no more promotions than there are
\* entries, whatever is repeated.
THEOREM AggregatorTypeCorrect == Spec => []TypeOK
<1>1. IInv => TypeOK
  BY DEF IInv, Shape, TypeOK
<1> QED
  BY <1>1, AggregatorInvariance, PTL

\* Each promotion is counted at most once, and nothing else is.
THEOREM PromotionsCountOnce == Spec => []CountsPromotions
<1>1. IInv => CountsPromotions
  BY DEF IInv, Counted
<1> QED
  BY <1>1, AggregatorInvariance, PTL

\* The approximate position is never below the exact one while promotion follows the
\* order of admission, and equals it once the stream is consumed.
THEOREM PositionsFollow == Spec => []PositionFollowsOrder
<1>1. ASSUME IInv,
             \A j, k \in Admitted : (rank[j] < rank[k] /\ Promoted(k)) => Promoted(j),
             NEW k \in Entries, status[k] = "WAITING"
      PROVE  LET exact  == 1 + Cardinality({ j \in WithStatus(status, {"WAITING"}) :
                                                rank[j] < rank[k] })
                 approx == ApproximatePosition(rank[k], promotedTotal)
             IN  /\ approx >= exact
                 /\ (\A j \in Admitted : Promoted(j) => j \in promotedKeys) => approx = exact
  <2> DEFINE W == { j \in WithStatus(status, {"WAITING"}) : rank[j] < rank[k] }
             P == { j \in Entries : Promoted(j) }
             B == { j \in Admitted : rank[j] < rank[k] }
  <2>0. Shape /\ Counted /\ Ranked
    BY <1>1 DEF IInv
  <2>1. DOMAIN status = Entries /\ Admitted \subseteq Entries
    BY <2>0 DEF Shape, Admitted
  <2>2. k \in Admitted /\ ~Promoted(k)
    BY <1>1 DEF Admitted, Promoted, NoEntry
  <2>3. \A j \in Entries : rank[j] \in Nat
    BY <2>0 DEF Shape
  <2>4. \A j \in P : j \in B
    <3>1. SUFFICES ASSUME NEW j \in Entries, Promoted(j)
                   PROVE  j \in Admitted /\ rank[j] < rank[k]
      OBVIOUS
    <3>2. j \in Admitted
      BY <3>1 DEF Admitted, Promoted, NoEntry, EligibilityStatus
    <3>3. ~(rank[k] < rank[j])
      BY <1>1, <2>2, <3>1, <3>2
    <3>4. rank[j] # rank[k]
      BY <2>0, <2>2, <3>1, <3>2 DEF Ranked
    <3> QED
      BY <2>3, <3>2, <3>3, <3>4
  <2>5. B = W \cup P
    <3>1. \A j \in Admitted : status[j] = "WAITING" \/ Promoted(j)
      BY <2>0, <2>1 DEF Shape, Admitted, Promoted, EntryState
    <3>2. \A j \in Entries : status[j] = "WAITING" => j \in Admitted
      BY DEF Admitted, NoEntry
    <3> QED
      BY <2>1, <2>4, <3>1, <3>2 DEF WithStatus
  <2>6. W \cap P = {}
    BY <2>1 DEF WithStatus, Promoted
  <2>7. W \in SUBSET Entries /\ P \in SUBSET Entries
    BY <2>1 DEF WithStatus
  <2>8. rank[k] = 1 + Cardinality(B)
    BY <2>0, <2>2 DEF Ranked
  <2>9. /\ promotedKeys \in SUBSET P /\ promotedTotal = Cardinality(promotedKeys)
    BY <2>0 DEF Shape, Counted, CountsPromotions
  <2>10. (\A j \in Admitted : Promoted(j) => j \in promotedKeys) => promotedKeys = P
    BY <2>4, <2>9
  <2> HIDE DEF W, P, B
  <2>11. /\ IsFiniteSet(W) /\ IsFiniteSet(P)
         /\ Cardinality(W) \in Nat /\ Cardinality(P) \in Nat
         /\ promotedTotal \in Nat /\ promotedTotal <= Cardinality(P)
    BY <2>7, <2>9, EntrySets
  <2>12. Cardinality(B) = Cardinality(W) + Cardinality(P)
    <3>1. Cardinality(W \cap P) = 0
      BY <2>6, FS_EmptySet
    <3>2. Cardinality(W \cup P) = Cardinality(W) + Cardinality(P) - Cardinality(W \cap P)
      BY <2>11, FS_Union
    <3> QED
      BY <2>5, <2>11, <3>1, <3>2
  <2>13. /\ ApproximatePosition(rank[k], promotedTotal) >= 1 + Cardinality(W)
         /\ promotedTotal = Cardinality(P) =>
                 ApproximatePosition(rank[k], promotedTotal) = 1 + Cardinality(W)
    BY <2>8, <2>11, <2>12 DEF ApproximatePosition
  <2> QED
    BY <2>9, <2>10, <2>13 DEF W
<1>2. ASSUME IInv
      PROVE  PositionFollowsOrder
  <2>1. \A k \in WithStatus(status, {"WAITING"}) : k \in Entries /\ status[k] = "WAITING"
    BY <1>2 DEF IInv, Shape, WithStatus
  <2> QED
    BY <1>1, <1>2, <2>1 DEF PositionFollowsOrder
<1> QED
  BY <1>2, AggregatorInvariance, PTL

\* A snapshot's rate counts every counted promotion of the window, and no other when the
\* promotions were delivered in the order they happened.
THEOREM RateCountsWindow == Spec => RateOfWindow
<1>1. ASSUME IInv, IInv', Windowed, [Next]_vars, Snapshot
      PROVE  LET window == { k \in promotedKeys : PromotedAt(k) > now - RateWindow }
             IN  /\ recent' >= Cardinality(window)
                 /\ IsSorted(promotionTimes, <=) => recent' = Cardinality(window)
  <2> DEFINE window == { k \in promotedKeys : PromotedAt(k) > now - RateWindow }
             n == Len(promotionTimes')
  <2>1. UNCHANGED <<records, now, promotedKeys>> /\ recent' = n
    BY <1>1 DEF Snapshot, entryVars
  <2>2. /\ Windowed' /\ n \in Nat
        /\ promotionTimes \in Seq(Times) /\ promotionTimes' \in Seq(Times)
        /\ now - RateWindow \in Int /\ promotedKeys \in SUBSET Entries
    BY <1>1, SnapshotWindowed DEF IInv, Shape, Times
  <2>3. PICK g : Behind(g, records', promotedKeys', promotionTimes', now' - RateWindow)
    BY <2>2 DEF Windowed
  <2>4. /\ g \in [1..n -> promotedKeys]
        /\ \A i, j \in 1..n : g[i] = g[j] => i = j
        /\ \A i \in 1..n : AtTime(records, g[i], promotionTimes'[i])
        /\ \A k \in promotedKeys :
              \/ \E i \in 1..n : g[i] = k
              \/ \E t \in Times : AtTime(records, k, t) /\ t <= now - RateWindow
    BY <2>1, <2>3 DEF Behind
  <2>5. \A k, t : AtTime(records, k, t) => PromotedAt(k) = t
    <3> SUFFICES ASSUME NEW k, NEW t, AtTime(records, k, t) PROVE PromotedAt(k) = t
      OBVIOUS
    <3>1. PICK r \in records : r.key = k /\ IsPromotion(r) /\ r.at = t
      BY DEF AtTime
    <3> DEFINE q == CHOOSE q \in records : q.key = k /\ IsPromotion(q)
    <3>2. q \in records /\ q.key = k /\ IsPromotion(q)
      BY <3>1
    <3>3. q = r
      BY <1>1, <3>1, <3>2 DEF Windowed, Unique
    <3> QED
      BY <3>1, <3>3 DEF PromotedAt
  <2> DEFINE R == { g[i] : i \in 1..n }
  <2>6. IsFiniteSet(R) /\ Cardinality(R) = n
    <3>1. g \in Bijection(1..n, R)
      <4> HIDE DEF n
      <4> QED
        BY <2>4 DEF Bijection, Injection, Surjection, IsInjective
    <3>2. IsFiniteSet(1..n) /\ Cardinality(1..n) = n
      <4>1. n \in Int /\ 1 \in Int
        BY <2>2
      <4> HIDE DEF n
      <4>2. IsFiniteSet(1..n) /\ Cardinality(1..n) = IF 1 > n THEN 0 ELSE n - 1 + 1
        BY <4>1, FS_Interval
      <4> QED
        BY <2>2, <4>2
    <3> QED
      BY <3>1, <3>2, FS_Bijection DEF ExistsBijection
  <2>7. window \subseteq R
    <3> SUFFICES ASSUME NEW k \in promotedKeys, PromotedAt(k) > now - RateWindow, k \notin R
                 PROVE  FALSE
      OBVIOUS
    <3>1. PICK t \in Times : AtTime(records, k, t) /\ t <= now - RateWindow
      BY <2>4
    <3>2. PromotedAt(k) = t /\ t \in Int
      BY <2>5, <3>1 DEF Times
    <3> QED
      BY <2>2, <3>1, <3>2
  <2>8. Cardinality(window) <= n /\ Cardinality(window) \in Nat
    BY <2>6, <2>7, FS_Subset, FS_CardinalityType
  <2>9. ASSUME IsSorted(promotionTimes, <=)
         PROVE  R \subseteq window
    <3>1. PICK m \in Nat : \A i \in 1..n :
              i + m \in 1..Len(promotionTimes)
              /\ promotionTimes'[i] = promotionTimes[i + m]
      BY <1>1, SnapshotWindowed
    <3>2. \A i \in 1..n : promotionTimes'[i] \in Times /\ promotionTimes'[i] \in Int
      BY <2>2 DEF Times
    <3>3. ASSUME NEW i \in 1..n
          PROVE  promotionTimes'[i] > now - RateWindow
      <4>1. n > 0 /\ 1 \in 1..n /\ promotionTimes'[1] > now - RateWindow
        BY <1>1, <2>2, SnapshotWindowed
      <4>2. i # 1 => promotionTimes'[1] <= promotionTimes'[i]
        <5>1. i # 1 => 1 + m < i + m
          OBVIOUS
        <5>2. i # 1 => promotionTimes[1 + m] <= promotionTimes[i + m]
          BY <2>9, <3>1, <4>1, <5>1 DEF IsSorted
        <5> QED
          BY <3>1, <4>1, <5>2
      <4> QED
        BY <2>2, <3>2, <4>1, <4>2
    <3>4. \A i \in 1..n : g[i] \in promotedKeys /\ PromotedAt(g[i]) = promotionTimes'[i]
      BY <2>4, <2>5
    <3> QED
      BY <3>3, <3>4
  <2> HIDE DEF window, R, n
  <2>10. IsSorted(promotionTimes, <=) => Cardinality(window) = n
    <3>1. IsSorted(promotionTimes, <=) => R = window
      BY <2>7, <2>9
    <3> QED
      BY <2>6, <3>1
  <2>11. recent' >= Cardinality(window)
    BY <2>1, <2>2, <2>8
  <2> QED
    BY <2>1, <2>10, <2>11 DEF window
<1> QED
  BY <1>1, InitWindowed, StepWindowed, AggregatorInvariance, PTL DEF Spec, RateOfWindow
=============================================================================
