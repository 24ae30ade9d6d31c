--------------------------- MODULE PromoterProofs ---------------------------
(***************************************************************************)
(* Proofs about Promoter for every number of entries, workers and shards,  *)
(* every capacity and batch size, and every number of faults.              *)
(***************************************************************************)
EXTENDS Promoter, FiniteSetTheorems, WellFoundedInduction, TLAPS

USE EntriesAssumption, WorkersAssumption, ShardsAssumption, CapacityAssumption,
    RetriesAssumption, FaultsAssumption

-----------------------------------------------------------------------------
(* Lemmas about the operators of the model *)

\* Every set of entries is finite.
LEMMA FiniteEntries ==
    ASSUME NEW S \in SUBSET Entries
    PROVE  IsFiniteSet(S) /\ Cardinality(S) \in Nat
BY FS_Subset, FS_CardinalityType

\* First(n, S) selects at most n entries: distinct members of it have distinct
\* numbers of smaller members of S, and those numbers are below n.
LEMMA FirstBound ==
    ASSUME NEW S \in SUBSET Entries, NEW n \in Nat
    PROVE  First(n, S) \subseteq S /\ Cardinality(First(n, S)) <= n
<1> DEFINE Below(k) == { j \in S : j < k }
           T == First(n, S)
           f == [k \in T |-> Cardinality(Below(k))]
<1>1. T \subseteq S
  BY DEF First
<1>2. ASSUME NEW k \in S
      PROVE  Below(k) \in SUBSET Entries /\ Cardinality(Below(k)) \in Nat
  <2>1. Below(k) \in SUBSET Entries
    OBVIOUS
  <2>2. QED  BY <2>1, FiniteEntries
<1>3. ASSUME NEW k \in T
      PROVE  Cardinality(Below(k)) < n
  BY DEF First
<1>4. ASSUME NEW j \in T, NEW k \in T, j < k
      PROVE  Cardinality(Below(j)) < Cardinality(Below(k))
  <2>1. j \in Nat /\ k \in Nat /\ j \in S /\ k \in S
    BY <1>1
  <2>2. Below(j) \in SUBSET Below(k)
    <3>1. ASSUME NEW i \in S, i < j  PROVE i < k
      <4>1. i \in Nat
        OBVIOUS
      <4>2. QED  BY <1>4, <2>1, <3>1, <4>1
    <3>2. QED  BY <3>1
  <2>3. j \in Below(k) /\ j \notin Below(j)
    BY <1>4, <2>1
  <2>4. IsFiniteSet(Below(k))
    BY <1>2, <2>1, FiniteEntries
  <2> HIDE DEF Below
  <2>5. Cardinality(Below(j)) <= Cardinality(Below(k)) /\ Cardinality(Below(j)) # Cardinality(Below(k))
    BY <2>2, <2>3, <2>4, FS_Subset
  <2>6. QED  BY <1>2, <2>1, <2>5
<1> HIDE DEF Below
<1>5. f \in Injection(T, 0..(n - 1))
  <2>1. ASSUME NEW j \in T, NEW k \in T, f[j] = f[k]
        PROVE  j = k
    <3>1. j \in Nat /\ k \in Nat /\ j \in S /\ k \in S
      BY <1>1
    <3>2. Cardinality(Below(j)) = Cardinality(Below(k)) /\ Cardinality(Below(j)) \in Nat
      BY <1>2, <2>1, <3>1
    <3>3. ~(j < k) /\ ~(k < j)
      BY <1>4, <3>2
    <3>4. QED  BY <3>1, <3>3
  <2>2. f \in [T -> 0..(n - 1)]
    <3>1. ASSUME NEW k \in T
          PROVE  Cardinality(Below(k)) \in 0..(n - 1)
      <4>1. k \in S /\ Cardinality(Below(k)) < n
        BY <1>1, <1>3, <3>1
      <4>2. QED  BY <1>2, <4>1
    <3>2. QED  BY <3>1
  <2>3. QED  BY <2>1, <2>2 DEF Injection, IsInjective
<1>6. IsFiniteSet(0..(n - 1)) /\ Cardinality(0..(n - 1)) = n
  BY FS_Interval
<1>7. Cardinality(T) <= Cardinality(0..(n - 1))
  BY <1>5, <1>6, FS_Injection
<1> QED  BY <1>1, <1>6, <1>7

-----------------------------------------------------------------------------
(* Counting slots *)

Holding == [Workers -> 0..(MaxBatchSize + 1)]

\* The slots of one worker.
Column(p, n) == { t \in {p} \X (1..(MaxBatchSize + 1)) : t[2] <= n }

LEMMA ColumnCount ==
    ASSUME NEW p \in Workers, NEW n \in 0..(MaxBatchSize + 1)
    PROVE  IsFiniteSet(Column(p, n)) /\ Cardinality(Column(p, n)) = n
<1> DEFINE f == [i \in 1..n |-> <<p, i>>]
<1>1. f \in [1..n -> Column(p, n)]
  BY DEF Column
<1>2. f \in Injection(1..n, Column(p, n))
  BY <1>1 DEF Injection, IsInjective
<1>3. f \in Surjection(1..n, Column(p, n))
  <2>1. ASSUME NEW t \in Column(p, n)  PROVE \E i \in 1..n : f[i] = t
    <3>1. t = <<p, t[2]>> /\ t[2] \in 1..n
      BY DEF Column
    <3>2. f[t[2]] = t
      BY <3>1
    <3>3. QED  BY <3>1, <3>2
  <2>2. QED  BY <1>1, <2>1 DEF Surjection
<1>4. ExistsBijection(1..n, Column(p, n))
  BY <1>2, <1>3 DEF Bijection, ExistsBijection
<1>5. IsFiniteSet(1..n) /\ Cardinality(1..n) = n
  BY FS_Interval
<1> QED  BY <1>4, <1>5, FS_Bijection

LEMMA SlotsFinite ==
    ASSUME NEW h \in Holding
    PROVE  IsFiniteSet(Slots(h)) /\ Cardinality(Slots(h)) \in Nat
<1>1. IsFiniteSet(1..(MaxBatchSize + 1))
  BY FS_Interval
<1>2. IsFiniteSet(Workers \X (1..(MaxBatchSize + 1)))
  BY <1>1, FS_Product
<1>3. Slots(h) \in SUBSET (Workers \X (1..(MaxBatchSize + 1)))
  BY DEF Slots
<1> QED  BY <1>2, <1>3, FS_Subset, FS_CardinalityType

\* When one worker's holding changes, the number of slots held changes by as much.
LEMMA SlotsChange ==
    ASSUME NEW g \in Holding, NEW h \in Holding, NEW p \in Workers,
           \A q \in Workers \ {p} : g[q] = h[q]
    PROVE  Cardinality(Slots(h)) = Cardinality(Slots(g)) - g[p] + h[p]
<1> DEFINE Rest(n) == { t \in Slots(n) : t[1] # p }
<1>1. ASSUME NEW n \in Holding
      PROVE  Cardinality(Slots(n)) = Cardinality(Rest(n)) + n[p]
  <2>1. Slots(n) = Rest(n) \cup Column(p, n[p]) /\ Rest(n) \cap Column(p, n[p]) = {}
    BY DEF Slots, Column
  <2>2. Rest(n) \in SUBSET Slots(n)
    OBVIOUS
  <2>3. IsFiniteSet(Rest(n)) /\ Cardinality(Rest(n)) \in Nat
    BY <2>2, SlotsFinite, FS_Subset, FS_CardinalityType
  <2>4. n[p] \in 0..(MaxBatchSize + 1)
    BY DEF Holding
  <2>5. IsFiniteSet(Column(p, n[p])) /\ Cardinality(Column(p, n[p])) = n[p]
    BY <2>4, ColumnCount
  <2>6. Cardinality(Rest(n) \cup Column(p, n[p])) = Cardinality(Rest(n)) + n[p] - Cardinality({})
    BY <2>1, <2>3, <2>5, FS_Union
  <2>7. Cardinality({}) = 0
    BY FS_EmptySet
  <2>8. Cardinality(Slots(n)) = Cardinality(Rest(n) \cup Column(p, n[p]))
    BY <2>1, Zenon
  <2> HIDE DEF Rest
  <2>9. QED  BY <2>3, <2>4, <2>6, <2>7, <2>8
<1>2. Rest(g) = Rest(h)
  <2>1. ASSUME NEW t \in Workers \X (1..(MaxBatchSize + 1)), t[1] # p
        PROVE  g[t[1]] = h[t[1]]
    <3>1. t[1] \in Workers \ {p}
      BY <2>1
    <3>2. QED  BY <3>1
  <2>2. \A t \in Workers \X (1..(MaxBatchSize + 1)) :
            (t \in Slots(g) /\ t[1] # p) <=> (t \in Slots(h) /\ t[1] # p)
    BY <2>1 DEF Slots
  <2>3. Slots(g) \subseteq Workers \X (1..(MaxBatchSize + 1))
        /\ Slots(h) \subseteq Workers \X (1..(MaxBatchSize + 1))
    BY DEF Slots
  <2>4. QED  BY <2>2, <2>3
<1>3. Rest(g) \in SUBSET Slots(g)
  OBVIOUS
<1>4. Cardinality(Rest(g)) \in Nat
  BY <1>3, SlotsFinite, FS_Subset, FS_CardinalityType
<1>5. g[p] \in Int /\ h[p] \in Int
  BY DEF Holding
<1> QED  BY <1>1, <1>2, <1>4, <1>5

-----------------------------------------------------------------------------
(* Type correctness *)

\* What every action leaves well typed; Local is used where a worker moves on.
LEMMA InitInv == Init => IInv
<1> SUFFICES ASSUME Init  PROVE IInv
  OBVIOUS
<1>1. TypeOK
  BY DEF Init, TypeOK, EntryState, NoEntry, Steps
<1>2. CapacityBound
  BY DEF Init, CapacityBound
<1>3. PlanIsCurrent /\ AttemptLeft /\ SelectionFits /\ LoopsHaveWork
  BY DEF Init, PlanIsCurrent, AttemptLeft, SelectionFits, LoopsHaveWork, At
<1> QED  BY <1>1, <1>2, <1>3 DEF IInv

LEMMA BatchSizeBound ==
    ASSUME NEW e \in Int, NEW a \in Int, e + a <= Capacity
    PROVE  BatchSize(e, a) \in 0..MaxBatchSize /\ e + a + BatchSize(e, a) <= Capacity
BY DEF BatchSize, Minimum

\* The selection of the last query is a set of entries no larger than the grant.
LEMMA SelectionBound ==
    ASSUME TypeOK, NEW p \in Workers
    PROVE  /\ WithNextHead(p) \in SUBSET Entries
           /\ First(grant[p], WithNextHead(p)) \in SUBSET Entries
           /\ Cardinality(First(grant[p], WithNextHead(p))) <= grant[p]
<1>1. grant[p] \in Nat
  BY DEF TypeOK
<1>2. WithNextHead(p) \in SUBSET Entries
  <2>1. Partition(shard[p]) \in SUBSET Entries
    BY DEF TypeOK, Partition
  <2>2. First(grant[p], Partition(shard[p])) \in SUBSET Entries
    BY <1>1, <2>1, FirstBound
  <2>3. QED  BY <2>2 DEF TypeOK, WithNextHead
<1> QED  BY <1>1, <1>2, FirstBound

LEMMA TypeStep == IInv /\ [Next]_vars => TypeOK'
<1> SUFFICES ASSUME IInv, [Next]_vars  PROVE TypeOK'
  OBVIOUS
<1> USE DEF TypeOK, Steps, At, GoTo, AddToCapacity, capacityItem, indexes, locals, faults, entryFaults
<1>1. TypeOK /\ AttemptLeft /\ CapacityBound
  BY DEF IInv
<1>2. ASSUME NEW p \in Workers, Begin(p)  PROVE TypeOK'
  BY <1>1, <1>2 DEF Begin
<1>3. ASSUME NEW p \in Workers, ReadCapacity(p)  PROVE TypeOK'
  <2>1. BatchSize(eligibleCount, activeCount) \in 0..MaxBatchSize
    BY <1>1, BatchSizeBound DEF CapacityBound
  <2>2. QED  BY <1>1, <1>3, <2>1 DEF ReadCapacity, EndCycle
<1>4. ASSUME NEW p \in Workers, ReadNegative(p)  PROVE TypeOK'
  BY <1>1, <1>4 DEF ReadNegative, Return
<1>5. ASSUME NEW p \in Workers, CommitReserve(p)  PROVE TypeOK'
  BY <1>1, <1>5 DEF CommitReserve
<1>6. ASSUME NEW p \in Workers, CommitConflict(p)  PROVE TypeOK'
  BY <1>1, <1>6 DEF CommitConflict, NextAttempt, AttemptLeft
<1>7. ASSUME NEW p \in Workers, QueryShard(p)  PROVE TypeOK'
  BY <1>1, <1>7, SelectionBound DEF QueryShard
<1>8. ASSUME NEW p \in Workers, QueryLastShard(p)  PROVE TypeOK'
  BY <1>1, <1>8, SelectionBound DEF QueryLastShard
<1>9. ASSUME NEW p \in Workers, ReleaseSurplus(p)  PROVE TypeOK'
  <2>1. Cardinality(picked[p]) \in Nat /\ grant[p] \in Nat
    BY <1>1, FiniteEntries
  <2>2. QED  BY <1>1, <1>9, <2>1 DEF ReleaseSurplus
<1>10. ASSUME NEW p \in Workers, QueryExpired(p)  PROVE TypeOK'
  BY <1>1, <1>10 DEF QueryExpired
<1>11. ASSUME NEW p \in Workers, FreeSlot(p)  PROVE TypeOK'
  BY <1>1, <1>11 DEF FreeSlot
<1>12. ASSUME NEW p \in Workers, NEW k \in Entries, PromoteEntry(p, k)  PROVE TypeOK'
  BY <1>1, <1>12 DEF PromoteEntry, Transition, Applies, Handled, EntryState, EligibilityStatus
<1>13. ASSUME NEW p \in Workers, NEW k \in Entries, PromoteConflict(p, k)  PROVE TypeOK'
  BY <1>1, <1>13 DEF PromoteConflict
<1>14. ASSUME NEW p \in Workers, NEW k \in Entries, ReleaseSlot(p, k)  PROVE TypeOK'
  BY <1>1, <1>14 DEF ReleaseSlot, Handled
<1>15. ASSUME NEW p \in Workers, NEW k \in Entries, ExpireEntry(p, k)  PROVE TypeOK'
  BY <1>1, <1>15 DEF ExpireEntry, Transition, Applies, EntryState, EligibilityStatus
<1>16. ASSUME NEW p \in Workers, NEW k \in Entries, ExpireConflict(p, k)  PROVE TypeOK'
  BY <1>1, <1>16 DEF ExpireConflict, Handled
<1>17. ASSUME NEW p \in Workers, Abort(p)  PROVE TypeOK'
  BY <1>1, <1>17 DEF Abort, Return
<1>18. ASSUME NEW p \in Workers, RetriedCommit(p)  PROVE TypeOK'
  BY <1>1, <1>18 DEF RetriedCommit, NextAttempt, AttemptLeft, Resend
<1>19. ASSUME NEW p \in Workers, RetriedSurplus(p)  PROVE TypeOK'
  <2>1. Cardinality(picked[p]) \in Nat /\ grant[p] \in Nat
    BY <1>1, FiniteEntries
  <2>2. QED  BY <1>1, <1>19, <2>1 DEF RetriedSurplus, Resend
<1>20. ASSUME NEW p \in Workers, RetriedFree(p)  PROVE TypeOK'
  BY <1>1, <1>20 DEF RetriedFree, Resend
<1>21. ASSUME NEW p \in Workers, NEW k \in Entries, RetriedPromote(p, k)  PROVE TypeOK'
  BY <1>1, <1>21 DEF RetriedPromote, Transition, Applies, EntryState, EligibilityStatus, Resend
<1>22. ASSUME NEW p \in Workers, NEW k \in Entries, RetriedRelease(p, k)  PROVE TypeOK'
  BY <1>1, <1>22 DEF RetriedRelease, Handled, Resend
<1>23. ASSUME NEW p \in Workers, NEW k \in Entries, RetriedExpire(p, k)  PROVE TypeOK'
  BY <1>1, <1>23 DEF RetriedExpire, Handled, Transition, Applies, EntryState, EligibilityStatus, Resend
<1>24. ASSUME NEW k \in Entries, Environment(k)  PROVE TypeOK'
  <2>1. CASE Admit(k)
    BY <1>1, <2>1 DEF Admit, EntryState, EligibilityStatus
  <2>2. CASE Activate(k)
    BY <1>1, <2>2 DEF Activate, Transition, Applies, EntryState, EligibilityStatus
  <2>3. CASE Complete(k)
    BY <1>1, <2>3 DEF Complete, Transition, Applies, EntryState, EligibilityStatus
  <2>4. CASE FollowWaiting(k) \/ FollowExpired(k)
    BY <1>1, <2>4 DEF FollowWaiting, FollowExpired
  <2>5. CASE Corrupt(k) \/ Reconcile(k)
    BY <1>1, <2>5 DEF Corrupt, Reconcile
  <2> QED  BY <1>24, <2>1, <2>2, <2>3, <2>4, <2>5 DEF Environment
<1>25. CASE UNCHANGED vars
  BY <1>1, <1>25 DEF vars
<1> QED
  BY <1>2, <1>3, <1>4, <1>5, <1>6, <1>7, <1>8, <1>9, <1>10, <1>11, <1>12, <1>13, <1>14,
     <1>15, <1>16, <1>17, <1>18, <1>19, <1>20, <1>21, <1>22, <1>23, <1>24, <1>25
  DEF Next, Work, Faulty

-----------------------------------------------------------------------------
(* The bound on the CAPACITY counters *)

\* A write of the CAPACITY item leaves no plan current, and the only one that adds
\* slots is a reservation whose plan is for the batch that fits at present.
LEMMA BoundStep == IInv /\ [Next]_vars => CapacityBound' /\ PlanIsCurrent'
<1> SUFFICES ASSUME IInv, [Next]_vars  PROVE CapacityBound' /\ PlanIsCurrent'
  OBVIOUS
<1> USE DEF CapacityBound, PlanIsCurrent, At, GoTo, AddToCapacity, capacityItem, indexes, locals, faults, entryFaults
<1>1. TypeOK /\ CapacityBound /\ PlanIsCurrent /\ SelectionFits
  BY DEF IInv
<1>2. ASSUME NEW p \in Workers, Begin(p)  PROVE CapacityBound' /\ PlanIsCurrent'
  BY <1>1, <1>2 DEF Begin, TypeOK
<1>3. ASSUME NEW p \in Workers, ReadCapacity(p)  PROVE CapacityBound' /\ PlanIsCurrent'
  <2> DEFINE n == BatchSize(eligibleCount, activeCount)
  <2>1. n \in 0..MaxBatchSize /\ eligibleCount + activeCount + n <= Capacity
    BY <1>1, BatchSizeBound DEF TypeOK
  <2>2. CapacityBound'
    BY <1>1, <1>3 DEF ReadCapacity
  <2> HIDE DEF n
  <2>3. CASE n = 0
    BY <1>1, <1>3, <2>2, <2>3 DEF ReadCapacity, EndCycle, TypeOK, n
  <2>4. CASE n # 0
    BY <1>1, <1>3, <2>1, <2>2, <2>4 DEF ReadCapacity, TypeOK, n
  <2> QED  BY <2>3, <2>4
<1>4. ASSUME NEW p \in Workers, ReadNegative(p)  PROVE CapacityBound' /\ PlanIsCurrent'
  BY <1>1, <1>4 DEF ReadNegative, Return, TypeOK
<1>5. ASSUME NEW p \in Workers, CommitReserve(p) \/ RetriedCommit(p)
      PROVE  CapacityBound' /\ PlanIsCurrent'
  <2>1. grant[p] = BatchSize(eligibleCount, activeCount)
    BY <1>1, <1>5 DEF CommitReserve, RetriedCommit
  <2>2. eligibleCount + activeCount + grant[p] <= Capacity
    BY <1>1, <2>1, BatchSizeBound DEF TypeOK
  <2> QED  BY <1>1, <1>5, <2>2 DEF CommitReserve, RetriedCommit, TypeOK
<1>6. ASSUME NEW p \in Workers, CommitConflict(p)  PROVE CapacityBound' /\ PlanIsCurrent'
  BY <1>1, <1>6 DEF CommitConflict, NextAttempt, TypeOK
<1>7. ASSUME NEW p \in Workers, QueryShard(p) \/ QueryLastShard(p)
      PROVE  CapacityBound' /\ PlanIsCurrent'
  BY <1>1, <1>7 DEF QueryShard, QueryLastShard, TypeOK
<1>8. ASSUME NEW p \in Workers, ReleaseSurplus(p) \/ RetriedSurplus(p)
      PROVE  CapacityBound' /\ PlanIsCurrent'
  <2>1. Cardinality(picked[p]) \in Nat /\ grant[p] \in Nat
    BY <1>1, FiniteEntries DEF TypeOK
  <2>2. Cardinality(picked[p]) <= grant[p]
    BY <1>1, <1>8 DEF SelectionFits, ReleaseSurplus, RetriedSurplus
  <2> QED  BY <1>1, <1>8, <2>1, <2>2 DEF ReleaseSurplus, RetriedSurplus, TypeOK
<1>9. ASSUME NEW p \in Workers, QueryExpired(p)  PROVE CapacityBound' /\ PlanIsCurrent'
  BY <1>1, <1>9 DEF QueryExpired, TypeOK
<1>10. ASSUME NEW p \in Workers, FreeSlot(p) \/ RetriedFree(p)
       PROVE  CapacityBound' /\ PlanIsCurrent'
  BY <1>1, <1>10 DEF FreeSlot, RetriedFree, TypeOK
<1>11. ASSUME NEW p \in Workers, NEW k \in Entries,
              PromoteEntry(p, k) \/ PromoteConflict(p, k) \/ RetriedPromote(p, k)
       PROVE  CapacityBound' /\ PlanIsCurrent'
  BY <1>1, <1>11 DEF PromoteEntry, PromoteConflict, RetriedPromote, Handled, TypeOK
<1>12. ASSUME NEW p \in Workers, NEW k \in Entries, ReleaseSlot(p, k) \/ RetriedRelease(p, k)
       PROVE  CapacityBound' /\ PlanIsCurrent'
  BY <1>1, <1>12 DEF ReleaseSlot, RetriedRelease, TypeOK
<1>13. ASSUME NEW p \in Workers, NEW k \in Entries,
              ExpireEntry(p, k) \/ ExpireConflict(p, k) \/ RetriedExpire(p, k)
       PROVE  CapacityBound' /\ PlanIsCurrent'
  BY <1>1, <1>13 DEF ExpireEntry, ExpireConflict, RetriedExpire, Handled, TypeOK
<1>14. ASSUME NEW p \in Workers, Abort(p)  PROVE CapacityBound' /\ PlanIsCurrent'
  BY <1>1, <1>14 DEF Abort, Return, TypeOK
<1>15. ASSUME NEW k \in Entries, Environment(k)  PROVE CapacityBound' /\ PlanIsCurrent'
  BY <1>1, <1>15 DEF Environment, Admit, Activate, Complete, FollowWaiting, FollowExpired,
       Corrupt, Reconcile, TypeOK
<1>16. CASE UNCHANGED vars
  BY <1>1, <1>16 DEF vars
<1> QED
  BY <1>2, <1>3, <1>4, <1>5, <1>6, <1>7, <1>8, <1>9, <1>10, <1>11, <1>12, <1>13, <1>14,
     <1>15, <1>16
  DEF Next, Work, Faulty

\* The local variables of a worker stay within the bounds its next step relies on.
LEMMA LocalStep == IInv /\ [Next]_vars => AttemptLeft' /\ SelectionFits'
<1> SUFFICES ASSUME IInv, [Next]_vars  PROVE AttemptLeft' /\ SelectionFits'
  OBVIOUS
<1> USE DEF AttemptLeft, SelectionFits, TypeOK, At, GoTo, capacityItem, indexes, locals
<1>1. TypeOK /\ AttemptLeft /\ SelectionFits
  BY DEF IInv
<1>2. ASSUME NEW p \in Workers, NEW k
      PROVE  Cardinality(picked[p] \ {k}) <= Cardinality(picked[p])
             /\ Cardinality(picked[p] \ {k}) \in Nat /\ Cardinality(picked[p]) \in Nat
  <2>1. picked[p] \in SUBSET Entries
    BY <1>1
  <2>2. IsFiniteSet(picked[p]) /\ picked[p] \ {k} \in SUBSET picked[p]
    BY <2>1, FiniteEntries
  <2> QED  BY <2>2, FS_Subset, FS_CardinalityType
<1>3. ASSUME NEW p \in Workers, Begin(p)  PROVE AttemptLeft' /\ SelectionFits'
  BY <1>1, <1>3 DEF Begin
<1>4. ASSUME NEW p \in Workers, ReadCapacity(p) \/ ReadNegative(p)
      PROVE  AttemptLeft' /\ SelectionFits'
  BY <1>1, <1>4 DEF ReadCapacity, EndCycle, ReadNegative, Return
<1>5. ASSUME NEW p \in Workers, CommitReserve(p) \/ CommitConflict(p) \/ RetriedCommit(p)
      PROVE  AttemptLeft' /\ SelectionFits'
  BY <1>1, <1>5 DEF CommitReserve, CommitConflict, RetriedCommit, NextAttempt
<1>6. ASSUME NEW p \in Workers, QueryShard(p)  PROVE AttemptLeft' /\ SelectionFits'
  BY <1>1, <1>6 DEF QueryShard
<1>7. ASSUME NEW p \in Workers, QueryLastShard(p)  PROVE AttemptLeft' /\ SelectionFits'
  <2> DEFINE selected == First(grant[p], WithNextHead(p))
  <2>1. selected \in SUBSET Entries /\ Cardinality(selected) <= grant[p]
    BY <1>1, SelectionBound
  <2>2. Cardinality(selected) \in Nat
    BY <2>1, FiniteEntries
  <2> HIDE DEF selected
  <2>3. Cardinality(selected) <= MaxBatchSize
    BY <1>1, <2>1, <2>2
  <2>4. picked' = [picked EXCEPT ![p] = selected]
    BY <1>7 DEF QueryLastShard, selected
  <2>5. /\ \A q \in Workers \ {p} : pc'[q] = pc[q] /\ grant'[q] = grant[q] /\ picked'[q] = picked[q]
        /\ pc'[p] \in {"surplus", "promote"} /\ picked'[p] = selected /\ UNCHANGED tries
    BY <1>1, <1>7, <2>4 DEF QueryLastShard
  <2>6. pc'[p] = "surplus" => grant'[p] = grant[p]
    BY <1>1, <1>7 DEF QueryLastShard
  <2> QED  BY <1>1, <2>1, <2>3, <2>5, <2>6
<1>8. ASSUME NEW p \in Workers, ReleaseSurplus(p) \/ RetriedSurplus(p)
      PROVE  AttemptLeft' /\ SelectionFits'
  BY <1>1, <1>8 DEF ReleaseSurplus, RetriedSurplus
<1>9. ASSUME NEW p \in Workers, QueryExpired(p) \/ FreeSlot(p) \/ RetriedFree(p)
      PROVE  AttemptLeft' /\ SelectionFits'
  BY <1>1, <1>9 DEF QueryExpired, FreeSlot, RetriedFree
<1>10. ASSUME NEW p \in Workers, NEW k \in Entries,
              PromoteEntry(p, k) \/ ReleaseSlot(p, k) \/ RetriedRelease(p, k)
       PROVE  AttemptLeft' /\ SelectionFits'
  <2>1. /\ \A q \in Workers \ {p} : pc'[q] = pc[q] /\ picked'[q] = picked[q]
        /\ pc[p] \in {"promote", "release"} /\ pc'[p] \in {"promote", "sweep"}
        /\ picked'[p] = picked[p] \ {k} /\ UNCHANGED <<tries, grant>>
    BY <1>1, <1>10 DEF PromoteEntry, ReleaseSlot, RetriedRelease, Handled
  <2>2. Cardinality(picked[p]) <= MaxBatchSize
    BY <1>1, <2>1
  <2>3. Cardinality(picked'[p]) <= MaxBatchSize
    <3>1. /\ Cardinality(picked[p] \ {k}) <= Cardinality(picked[p])
          /\ Cardinality(picked[p] \ {k}) \in Nat /\ Cardinality(picked[p]) \in Nat
      BY <1>2
    <3>2. Cardinality(picked'[p]) = Cardinality(picked[p] \ {k})
      BY <2>1
    <3>3. MaxBatchSize \in Nat
      BY CapacityAssumption
    <3> HIDE DEF AttemptLeft, SelectionFits, TypeOK, At, GoTo, capacityItem, indexes, locals
    <3> QED  BY <2>2, <3>1, <3>2, <3>3
  <2>4. AttemptLeft'
    BY <1>1, <2>1
  <2>5. SelectionFits'
    BY <1>1, <2>1, <2>3
  <2> QED  BY <2>4, <2>5
<1>11. ASSUME NEW p \in Workers, NEW k \in Entries, PromoteConflict(p, k) \/ RetriedPromote(p, k)
       PROVE  AttemptLeft' /\ SelectionFits'
  BY <1>1, <1>11 DEF PromoteConflict, RetriedPromote
<1>12. ASSUME NEW p \in Workers, NEW k \in Entries,
              ExpireEntry(p, k) \/ ExpireConflict(p, k) \/ RetriedExpire(p, k)
       PROVE  AttemptLeft' /\ SelectionFits'
  BY <1>1, <1>12 DEF ExpireEntry, ExpireConflict, RetriedExpire, Handled
<1>13. ASSUME NEW p \in Workers, Abort(p)  PROVE AttemptLeft' /\ SelectionFits'
  BY <1>1, <1>13 DEF Abort, Return
<1>14. ASSUME NEW k \in Entries, Environment(k)  PROVE AttemptLeft' /\ SelectionFits'
  BY <1>1, <1>14 DEF Environment, Admit, Activate, Complete, FollowWaiting, FollowExpired,
       Corrupt, Reconcile
<1>15. CASE UNCHANGED vars
  BY <1>1, <1>15 DEF vars
<1> QED
  BY <1>3, <1>4, <1>5, <1>6, <1>7, <1>8, <1>9, <1>10, <1>11, <1>12, <1>13, <1>14, <1>15
  DEF Next, Work, Faulty

\* Every way into a loop, a query or a release comes with work for it.
LEMMA WorkStep == IInv /\ [Next]_vars => LoopsHaveWork'
<1> SUFFICES ASSUME IInv, [Next]_vars  PROVE LoopsHaveWork'
  OBVIOUS
<1> USE DEF LoopsHaveWork, TypeOK, At, GoTo, capacityItem, indexes, locals
<1>1. TypeOK /\ LoopsHaveWork /\ CapacityBound
  BY DEF IInv
<1>2. ASSUME NEW p \in Workers, Begin(p) \/ ReadNegative(p) \/ Abort(p)
      PROVE  LoopsHaveWork'
  BY <1>1, <1>2 DEF Begin, ReadNegative, Abort, Return
<1>3. ASSUME NEW p \in Workers, ReadCapacity(p)  PROVE LoopsHaveWork'
  <2> DEFINE n == BatchSize(eligibleCount, activeCount)
  <2>1. n \in Nat
    BY <1>1, BatchSizeBound DEF CapacityBound
  <2> HIDE DEF n
  <2>2. CASE n = 0
    BY <1>1, <1>3, <2>2 DEF ReadCapacity, EndCycle, n
  <2>3. CASE n # 0
    BY <1>1, <1>3, <2>1, <2>3 DEF ReadCapacity, n
  <2> QED  BY <2>2, <2>3
<1>4. ASSUME NEW p \in Workers, CommitReserve(p) \/ CommitConflict(p) \/ RetriedCommit(p)
      PROVE  LoopsHaveWork'
  BY <1>1, <1>4 DEF CommitReserve, CommitConflict, RetriedCommit, NextAttempt
<1>5. ASSUME NEW p \in Workers, QueryShard(p)  PROVE LoopsHaveWork'
  BY <1>1, <1>5 DEF QueryShard
<1>6. ASSUME NEW p \in Workers, QueryLastShard(p)  PROVE LoopsHaveWork'
  <2> DEFINE selected == First(grant[p], WithNextHead(p))
  <2>1. Cardinality(selected) \in Nat
    BY <1>1, SelectionBound, FiniteEntries
  <2>2. grant[p] >= 1 /\ grant[p] \in Nat
    BY <1>1, <1>6 DEF QueryLastShard
  <2>3. /\ picked' = [picked EXCEPT ![p] = selected]
        /\ IF Cardinality(selected) < grant[p]
             THEN pc' = [pc EXCEPT ![p] = "surplus"] /\ UNCHANGED grant
             ELSE pc' = [pc EXCEPT ![p] = "promote"] /\ grant' = [grant EXCEPT ![p] = 0]
    BY <1>6 DEF QueryLastShard
  <2> HIDE DEF selected
  <2>4. selected = {} => Cardinality(selected) = 0
    BY FS_EmptySet
  <2>5. CASE Cardinality(selected) < grant[p]
    BY <1>1, <2>3, <2>5
  <2>6. CASE ~(Cardinality(selected) < grant[p])
    <3>1. selected # {}
      BY <2>1, <2>2, <2>4, <2>6
    <3> QED  BY <1>1, <2>3, <2>6, <3>1
  <2> QED  BY <2>5, <2>6
<1>7. ASSUME NEW p \in Workers, ReleaseSurplus(p) \/ RetriedSurplus(p)
      PROVE  LoopsHaveWork'
  BY <1>1, <1>7 DEF ReleaseSurplus, RetriedSurplus
<1>8. ASSUME NEW p \in Workers, QueryExpired(p) \/ FreeSlot(p) \/ RetriedFree(p)
      PROVE  LoopsHaveWork'
  BY <1>1, <1>8 DEF QueryExpired, FreeSlot, RetriedFree
<1>9. ASSUME NEW p \in Workers, NEW k \in Entries,
             PromoteEntry(p, k) \/ ReleaseSlot(p, k) \/ RetriedRelease(p, k)
      PROVE  LoopsHaveWork'
  BY <1>1, <1>9 DEF PromoteEntry, ReleaseSlot, RetriedRelease, Handled
<1>10. ASSUME NEW p \in Workers, NEW k \in Entries,
              PromoteConflict(p, k) \/ RetriedPromote(p, k)
       PROVE  LoopsHaveWork'
  BY <1>1, <1>10 DEF PromoteConflict, RetriedPromote
<1>11. ASSUME NEW p \in Workers, NEW k \in Entries,
              ExpireEntry(p, k) \/ ExpireConflict(p, k) \/ RetriedExpire(p, k)
       PROVE  LoopsHaveWork'
  BY <1>1, <1>11 DEF ExpireEntry, ExpireConflict, RetriedExpire, Handled
<1>12. ASSUME NEW k \in Entries, Environment(k)  PROVE LoopsHaveWork'
  BY <1>1, <1>12 DEF Environment, Admit, Activate, Complete, FollowWaiting, FollowExpired,
       Corrupt, Reconcile
<1>13. CASE UNCHANGED vars
  BY <1>1, <1>13 DEF vars
<1> QED
  BY <1>2, <1>3, <1>4, <1>5, <1>6, <1>7, <1>8, <1>9, <1>10, <1>11, <1>12, <1>13
  DEF Next, Work, Faulty

LEMMA InvStep == IInv /\ [Next]_vars => IInv'
BY TypeStep, BoundStep, LocalStep, WorkStep DEF IInv

\* The inductive invariant holds past every interleaving and every fault: types, the
\* bound on the counters, plans that are current, attempts left and selections within grants.
THEOREM Invariance == Spec => []IInv
BY InitInv, InvStep, PTL DEF Spec

\* The variables of the Promoter always hold values of their types.
THEOREM TypeCorrect == Spec => []TypeOK
BY Invariance, PTL DEF IInv

\* The counters of the CAPACITY item never exceed Downstream_Capacity, however many
\* invocations overlap, abort or have writes resent.
THEOREM CapacityNeverExceeded == Spec => []CapacityBound
BY Invariance, PTL DEF IInv

\* What _reserve commits is what compute_batch_size would return at that instant: reading,
\* planning and writing act as one step, though other invocations run between them.
THEOREM ReservationIsAtomic == Spec => []PlanIsCurrent
BY Invariance, PTL DEF IInv

\* A selection that is not empty has a first entry by key.
LEMMA FirstExists ==
    ASSUME NEW S \in SUBSET Entries, S # {}
    PROVE  \E k \in S : \A j \in S : k <= j
<1>1. S \subseteq Nat
  OBVIOUS
<1>2. \E k \in S : \A j \in S : ~(<<j, k>> \in OpToRel(<, Nat))
  BY <1>1, NatLessThanWellFounded, WFMin
<1>3. \A j, k \in S : <<j, k>> \in OpToRel(<, Nat) <=> j < k
  BY <1>1 DEF OpToRel
<1>4. \A j, k \in S : ~(j < k) => k <= j
  BY <1>1
<1> QED  BY <1>2, <1>3, <1>4

\* A worker that promotes or rolls back has a next entry, one that sweeps has one to expire.
CanProceed ==
    \A p \in Workers :
        /\ pc[p] \in {"promote", "release"} => \E k \in Entries : IsNext(p, k)
        /\ At(p, "expire") => \E k \in Entries : k \in picked[p]

\* No invocation is ever stuck in the middle of a cycle or a sweep, whatever the others
\* did to the entries it selected: what it loops over is there to be handled.
THEOREM NoWorkerIsStuck == Spec => []CanProceed
<1>1. IInv => CanProceed
  <2> SUFFICES ASSUME IInv, NEW p \in Workers
               PROVE  /\ pc[p] \in {"promote", "release"} => \E k \in Entries : IsNext(p, k)
                      /\ At(p, "expire") => \E k \in Entries : k \in picked[p]
    BY DEF CanProceed
  <2>1. picked[p] \in SUBSET Entries
    BY DEF IInv, TypeOK
  <2>2. pc[p] \in {"promote", "release", "expire"} => picked[p] # {}
    BY DEF IInv, LoopsHaveWork
  <2>3. picked[p] # {} => \E k \in Entries : IsNext(p, k)
    BY <2>1, FirstExists DEF IsNext
  <2> QED  BY <2>1, <2>2, <2>3 DEF At, IsNext
<1> QED  BY <1>1, Invariance, PTL

-----------------------------------------------------------------------------
(* Conservation of slots: from the counters to the entries themselves *)

Eligibles == Cardinality(WithStatus(status, {"ELIGIBLE"}))
Actives   == Cardinality(WithStatus(status, {"ACTIVE"}))

\* The slots Eligible_Count counts that no entry and no worker holds.
Lost == eligibleCount - Eligibles - Outstanding

LEMMA HoldingType ==
    TypeOK /\ SelectionFits =>
        /\ [p \in Workers |-> Held(p)] \in Holding
        /\ Outstanding \in Nat
<1> SUFFICES ASSUME TypeOK, SelectionFits
             PROVE  /\ [p \in Workers |-> Held(p)] \in Holding
                    /\ Outstanding \in Nat
  OBVIOUS
<1>1. ASSUME NEW p \in Workers  PROVE Held(p) \in 0..(MaxBatchSize + 1)
  <2>1. grant[p] \in 0..MaxBatchSize
    BY DEF TypeOK
  <2>2. Cardinality(picked[p]) \in Nat
    BY FiniteEntries DEF TypeOK
  <2>3. pc[p] \in {"promote", "release"} => Cardinality(picked[p]) <= MaxBatchSize
    BY DEF SelectionFits
  <2> QED  BY <2>1, <2>2, <2>3 DEF Held
<1>2. [p \in Workers |-> Held(p)] \in Holding
  BY <1>1 DEF Holding
<1> QED  BY <1>2, SlotsFinite DEF Outstanding

\* A worker never holds more slots than a batch.
LEMMA HeldBound ==
    ASSUME IInv, NEW p \in Workers
    PROVE  Held(p) \in 0..MaxBatchSize
<1>1. grant[p] \in 0..MaxBatchSize
  BY DEF IInv, TypeOK
<1>2. Cardinality(picked[p]) \in Nat
  BY FiniteEntries DEF IInv, TypeOK
<1>3. pc[p] \in {"promote", "release"} => Cardinality(picked[p]) <= MaxBatchSize
  BY DEF IInv, SelectionFits
<1> QED  BY <1>1, <1>2, <1>3 DEF Held

\* A step that leaves the locals of the other workers alone changes the slots
\* held by what it changes of one worker's holding.
LEMMA OutstandingStep ==
    ASSUME IInv, IInv', NEW p \in Workers,
           \A q \in Workers \ {p} :
               pc'[q] = pc[q] /\ grant'[q] = grant[q] /\ picked'[q] = picked[q]
    PROVE  /\ Outstanding' = Outstanding - Held(p) + Held(p)'
           /\ Held(p) \in Nat /\ Held(p)' \in Nat /\ Outstanding \in Nat
<1> DEFINE g == [q \in Workers |-> Held(q)]
           h == [q \in Workers |-> Held(q)']
<1>1. g \in Holding
  BY HoldingType DEF IInv
<1>2. h \in Holding
  <2>1. ASSUME NEW q \in Workers  PROVE Held(q)' \in 0..(MaxBatchSize + 1)
    <3>1. grant'[q] \in 0..MaxBatchSize /\ picked'[q] \in SUBSET Entries
      BY DEF IInv, TypeOK
    <3>2. Cardinality(picked'[q]) \in Nat
      BY <3>1, FiniteEntries
    <3>3. pc'[q] \in {"promote", "release"} => Cardinality(picked'[q]) <= MaxBatchSize
      BY DEF IInv, SelectionFits
    <3> QED  BY <3>1, <3>2, <3>3 DEF Held
  <2> QED  BY <2>1 DEF Holding
<1>3. \A q \in Workers \ {p} : g[q] = h[q]
  BY DEF Held
<1> HIDE DEF g, h
<1>4. Cardinality(Slots(h)) = Cardinality(Slots(g)) - g[p] + h[p]
  BY <1>1, <1>2, <1>3, SlotsChange
<1>5. Outstanding = Cardinality(Slots(g)) /\ Outstanding' = Cardinality(Slots(h))
  BY DEF Outstanding, g, h, Slots
<1>6. g[p] = Held(p) /\ h[p] = Held(p)'
  BY DEF g, h
<1>7. Held(p) \in Nat /\ Held(p)' \in Nat
  BY <1>1, <1>2, <1>6 DEF Holding
<1>8. Outstanding \in Nat
  BY HoldingType DEF IInv
<1> QED  BY <1>4, <1>5, <1>6, <1>7, <1>8

\* One entry changes its status: each status gains or loses that entry.
LEMMA StatusCount ==
    ASSUME TypeOK, NEW k \in Entries, NEW to \in EntryState, NEW s \in EntryState,
           status' = [status EXCEPT ![k] = to]
    PROVE  Cardinality(WithStatus(status', {s})) =
               Cardinality(WithStatus(status, {s}))
                 + (IF to = s /\ status[k] # s THEN 1 ELSE 0)
                 - (IF to # s /\ status[k] = s THEN 1 ELSE 0)
<1> DEFINE S == WithStatus(status, {s})
<1>1. S \in SUBSET Entries
  BY DEF TypeOK, WithStatus
<1>2. IsFiniteSet(S) /\ Cardinality(S) \in Nat
  BY <1>1, FiniteEntries
<1>3. k \in S <=> status[k] = s
  BY DEF TypeOK, WithStatus
<1>4. WithStatus(status', {s}) = IF to = s THEN S \cup {k} ELSE S \ {k}
  BY DEF TypeOK, WithStatus
<1> HIDE DEF S
<1>5. /\ Cardinality(S \cup {k}) = IF k \in S THEN Cardinality(S) ELSE Cardinality(S) + 1
      /\ Cardinality(S \ {k}) = IF k \in S THEN Cardinality(S) - 1 ELSE Cardinality(S)
  BY <1>2, FS_AddElement, FS_RemoveElement
<1>6. Cardinality(WithStatus(status', {s})) =
          Cardinality(S) + (IF to = s /\ status[k] # s THEN 1 ELSE 0)
                         - (IF to # s /\ status[k] = s THEN 1 ELSE 0)
  BY <1>2, <1>3, <1>4, <1>5
<1> QED  BY <1>6 DEF S

LEMMA CountsType ==
    ASSUME TypeOK
    PROVE  Eligibles \in Nat /\ Actives \in Nat
<1>1. WithStatus(status, {"ELIGIBLE"}) \in SUBSET Entries
      /\ WithStatus(status, {"ACTIVE"}) \in SUBSET Entries
  BY DEF TypeOK, WithStatus
<1> QED  BY <1>1, FiniteEntries DEF Eligibles, Actives

\* A step that touches no local variable leaves the slots held as they are.
LEMMA OutstandingStays ==
    ASSUME UNCHANGED <<pc, grant, picked>>
    PROVE  Outstanding' = Outstanding
BY DEF Outstanding, Held

\* Handling one selected entry of the promotion loop gives up one held slot.
LEMMA HandledStep ==
    ASSUME TypeOK, NEW p \in Workers, NEW k \in picked[p],
           pc[p] \in {"promote", "release"}, Handled(p, k, "promote", "sweep")
    PROVE  Held(p)' = Held(p) - 1
<1>1. IsFiniteSet(picked[p]) /\ Cardinality(picked[p]) \in Nat
  BY FiniteEntries DEF TypeOK
<1>2. Cardinality(picked[p] \ {k}) = Cardinality(picked[p]) - 1
  BY <1>1, FS_RemoveElement
<1>3. picked'[p] = picked[p] \ {k}
  BY DEF Handled, TypeOK
<1>4. pc'[p] = IF picked[p] \subseteq {k} THEN "sweep" ELSE "promote"
  BY DEF Handled, GoTo, TypeOK
<1>5. CASE picked[p] \subseteq {k}
  <2>1. picked[p] = {k}
    BY <1>5
  <2>2. Cardinality(picked[p]) = 1
    BY <2>1, FS_Singleton
  <2> QED  BY <1>4, <1>5, <2>2 DEF Held
<1>6. CASE ~(picked[p] \subseteq {k})
  BY <1>2, <1>3, <1>4, <1>6 DEF Held
<1> QED  BY <1>5, <1>6

\* By how much a step may move a balance that was x and becomes y: not at all, but for
\* a batch gained by an abort, or a batch either way by a resent write.
Drifts(x, y) ==
    \/ y = x
    \/ aborts' = aborts + 1 /\ y \in x..(x + MaxBatchSize)
    \/ resends' = resends + 1 /\ y \in (x - MaxBatchSize)..(x + MaxBatchSize)

\* What a step may do to the balance of counters and entries.
Balanced ==
    /\ activeCount' - Actives' = activeCount - Actives
    /\ Lost' \in Int
    /\ Drifts(Lost, Lost')

\* Where the statuses stay, so do the numbers of entries that hold them.
LEMMA CountsStay == UNCHANGED status => Eligibles' = Eligibles /\ Actives' = Actives
BY DEF Eligibles, Actives

\* A step of one worker loses what it adds to Eligible_Count and neither holds nor has
\* turned into an eligible entry.
LEMMA WorkerLost ==
    ASSUME IInv, IInv', NEW p \in Workers,
           \A q \in Workers \ {p} :
               pc'[q] = pc[q] /\ grant'[q] = grant[q] /\ picked'[q] = picked[q],
           Eligibles' \in Int
    PROVE  /\ Lost' = Lost + (eligibleCount' - eligibleCount)
                           - (Held(p)' - Held(p)) - (Eligibles' - Eligibles)
           /\ Lost \in Int /\ Lost' \in Int
           /\ Held(p) \in Nat /\ Held(p)' \in Nat
<1>1. /\ Outstanding' = Outstanding - Held(p) + Held(p)'
      /\ Held(p) \in Nat /\ Held(p)' \in Nat /\ Outstanding \in Nat
  BY OutstandingStep
<1>2. Eligibles \in Nat
  BY CountsType DEF IInv
<1>3. eligibleCount \in Int /\ eligibleCount' \in Int
  BY DEF IInv, TypeOK
<1> QED  BY <1>1, <1>2, <1>3 DEF Lost

\* A step of one worker keeps the balance when Eligible_Count changes by as much as
\* its holding and the number of eligible entries do together.
LEMMA WorkerBalance ==
    ASSUME IInv, IInv', NEW p \in Workers,
           \A q \in Workers \ {p} :
               pc'[q] = pc[q] /\ grant'[q] = grant[q] /\ picked'[q] = picked[q],
           eligibleCount' - eligibleCount
               = (Held(p)' - Held(p)) + (Eligibles' - Eligibles),
           Eligibles' \in Int, UNCHANGED <<Actives, activeCount>>
    PROVE  Balanced
<1>1. /\ Lost' = Lost + (eligibleCount' - eligibleCount)
                      - (Held(p)' - Held(p)) - (Eligibles' - Eligibles)
      /\ Lost \in Int /\ Lost' \in Int
      /\ Held(p) \in Nat /\ Held(p)' \in Nat
  BY WorkerLost
<1>2. Eligibles \in Nat /\ Actives \in Nat
  BY CountsType DEF IInv
<1>3. eligibleCount \in Int /\ eligibleCount' \in Int /\ activeCount \in Int
  BY DEF IInv, TypeOK
<1>4. Lost' = Lost
  BY <1>1, <1>2, <1>3
<1> QED  BY <1>1, <1>4 DEF Balanced, Drifts

\* A resent write of one worker may spoil the balance by a batch.
LEMMA ResentBalance ==
    ASSUME IInv, IInv', NEW p \in Workers, Resend,
           \A q \in Workers \ {p} :
               pc'[q] = pc[q] /\ grant'[q] = grant[q] /\ picked'[q] = picked[q],
           NEW d \in Int, -MaxBatchSize <= d, d <= MaxBatchSize,
           eligibleCount' - eligibleCount
               = (Held(p)' - Held(p)) + (Eligibles' - Eligibles) + d,
           Eligibles' \in Int, UNCHANGED <<Actives, activeCount>>
    PROVE  Balanced /\ Lost' = Lost + d
<1>1. /\ Lost' = Lost + (eligibleCount' - eligibleCount)
                      - (Held(p)' - Held(p)) - (Eligibles' - Eligibles)
      /\ Lost \in Int /\ Lost' \in Int
      /\ Held(p) \in Nat /\ Held(p)' \in Nat
  BY WorkerLost
<1>2. Eligibles \in Nat /\ Actives \in Nat
  BY CountsType DEF IInv
<1>3. eligibleCount \in Int /\ eligibleCount' \in Int /\ activeCount \in Int
  BY DEF IInv, TypeOK
<1>4. Lost' = Lost + d
  BY <1>1, <1>2, <1>3
<1>5. Lost' \in (Lost - MaxBatchSize)..(Lost + MaxBatchSize)
  BY <1>1, <1>4
<1>6. resends' = resends + 1
  BY DEF Resend
<1> QED  BY <1>1, <1>4, <1>5, <1>6 DEF Balanced, Drifts

\* What a transition does to the numbers of eligible and active entries.
LEMMA TransitionCount ==
    ASSUME TypeOK, NEW k \in Entries, NEW from, NEW to \in EligibilityStatus,
           Transition(k, from, to)
    PROVE  /\ Eligibles' = Eligibles + (IF to = "ELIGIBLE" THEN 1 ELSE 0)
                                     - (IF from = "ELIGIBLE" THEN 1 ELSE 0)
           /\ Actives'   = Actives   + (IF to = "ACTIVE" THEN 1 ELSE 0)
                                     - (IF from = "ACTIVE" THEN 1 ELSE 0)
           /\ Eligibles' \in Int /\ Actives' \in Int
<1>1. /\ status' = [status EXCEPT ![k] = to]
      /\ status[k] = from /\ from # to
  BY DEF Transition, Applies, CanTransition, IsAllowed, AllowedTransitions
<1>2. to \in EntryState /\ "ELIGIBLE" \in EntryState /\ "ACTIVE" \in EntryState
  BY DEF EntryState, EligibilityStatus
<1>3. Eligibles' = Eligibles + (IF to = "ELIGIBLE" THEN 1 ELSE 0)
                             - (IF from = "ELIGIBLE" THEN 1 ELSE 0)
  BY <1>1, <1>2, StatusCount, CountsType DEF Eligibles
<1>4. Actives' = Actives + (IF to = "ACTIVE" THEN 1 ELSE 0)
                         - (IF from = "ACTIVE" THEN 1 ELSE 0)
  BY <1>1, <1>2, StatusCount, CountsType DEF Actives
<1> QED  BY <1>3, <1>4, CountsType

\* Every step keeps the balance, but for what a fault may do to it.
LEMMA BalanceStep ==
    ASSUME IInv, IInv', [Next]_vars
    PROVE  Balanced
<1> USE DEF TypeOK, At, GoTo, AddToCapacity, capacityItem, indexes, locals, faults, entryFaults
<1>1. TypeOK /\ AttemptLeft /\ SelectionFits
  BY DEF IInv
<1>2. Eligibles \in Nat /\ Actives \in Nat
  BY <1>1, CountsType
<1>3. ASSUME NEW p \in Workers, Begin(p)  PROVE Balanced
  <2>1. Eligibles' = Eligibles /\ Actives' = Actives
    BY <1>3, CountsStay DEF Begin
  <2>2. Held(p) = 0 /\ Held(p)' = 0
    BY <1>1, <1>3 DEF Begin, Held
  <2> QED  BY <1>1, <1>2, <1>3, <2>1, <2>2, WorkerBalance DEF Begin
<1>4. ASSUME NEW p \in Workers, ReadCapacity(p) \/ ReadNegative(p)  PROVE Balanced
  <2>1. Eligibles' = Eligibles /\ Actives' = Actives
    BY <1>4, CountsStay DEF ReadCapacity, ReadNegative
  <2>2. Held(p) = 0 /\ Held(p)' = 0
    BY <1>1, <1>4 DEF ReadCapacity, ReadNegative, EndCycle, Return, Held
  <2> QED  BY <1>1, <1>2, <1>4, <2>1, <2>2, WorkerBalance
           DEF ReadCapacity, ReadNegative, EndCycle, Return
<1>5. ASSUME NEW p \in Workers, CommitReserve(p)  PROVE Balanced
  <2>1. Eligibles' = Eligibles /\ Actives' = Actives
    BY <1>5, CountsStay DEF CommitReserve
  <2>2. Held(p) = 0 /\ Held(p)' = grant[p]
    BY <1>1, <1>5 DEF CommitReserve, Held
  <2> QED  BY <1>1, <1>2, <1>5, <2>1, <2>2, WorkerBalance DEF CommitReserve
<1>6. ASSUME NEW p \in Workers, CommitConflict(p)  PROVE Balanced
  <2>1. Eligibles' = Eligibles /\ Actives' = Actives
    BY <1>6, CountsStay DEF CommitConflict
  <2>2. Held(p) = 0 /\ Held(p)' = 0
    BY <1>1, <1>6 DEF CommitConflict, NextAttempt, Held
  <2> QED  BY <1>1, <1>2, <1>6, <2>1, <2>2, WorkerBalance DEF CommitConflict, NextAttempt
<1>7. ASSUME NEW p \in Workers, QueryShard(p)  PROVE Balanced
  <2>1. Eligibles' = Eligibles /\ Actives' = Actives
    BY <1>7, CountsStay DEF QueryShard
  <2>2. Held(p) = grant[p] /\ Held(p)' = grant[p]
    BY <1>1, <1>7 DEF QueryShard, Held
  <2> QED  BY <1>1, <1>2, <1>7, <2>1, <2>2, WorkerBalance DEF QueryShard
<1>8. ASSUME NEW p \in Workers, QueryLastShard(p)  PROVE Balanced
  <2> DEFINE selected == First(grant[p], WithNextHead(p))
  <2>1. Eligibles' = Eligibles /\ Actives' = Actives
    BY <1>8, CountsStay DEF QueryLastShard
  <2>2. Cardinality(selected) <= grant[p] /\ Cardinality(selected) \in Nat
    BY <1>1, SelectionBound, FiniteEntries
  <2>3. picked' = [picked EXCEPT ![p] = selected]
    BY <1>8 DEF QueryLastShard
  <2> HIDE DEF selected
  <2>4. IF Cardinality(selected) < grant[p]
          THEN pc' = [pc EXCEPT ![p] = "surplus"] /\ UNCHANGED grant
          ELSE pc' = [pc EXCEPT ![p] = "promote"] /\ grant' = [grant EXCEPT ![p] = 0]
    BY <1>8 DEF QueryLastShard, selected
  <2>5. Held(p) = grant[p]
    BY <1>8 DEF QueryLastShard, Held
  <2>6. grant[p] \in Nat
    BY <1>1
  <2>7. Held(p)' = grant[p]
    BY <1>1, <2>2, <2>3, <2>4, <2>6 DEF Held
  <2>8. UNCHANGED <<eligibleCount, activeCount>>
    BY <1>8 DEF QueryLastShard
  <2>9. \A q \in Workers \ {p} :
            pc'[q] = pc[q] /\ grant'[q] = grant[q] /\ picked'[q] = picked[q]
    BY <1>1, <2>3, <2>4
  <2> QED  BY <1>1, <1>2, <2>1, <2>5, <2>6, <2>7, <2>8, <2>9, WorkerBalance
<1>9. ASSUME NEW p \in Workers, ReleaseSurplus(p)  PROVE Balanced
  <2>1. Eligibles' = Eligibles /\ Actives' = Actives
    BY <1>9, CountsStay DEF ReleaseSurplus
  <2>2. Cardinality(picked[p]) \in Nat /\ grant[p] \in Nat
    BY <1>1, FiniteEntries
  <2>3. picked[p] = {} => Cardinality(picked[p]) = 0
    BY FS_EmptySet
  <2>4. Held(p) = grant[p] /\ Held(p)' = Cardinality(picked[p])
    BY <1>1, <1>9, <2>3 DEF ReleaseSurplus, Held
  <2>5. eligibleCount' = eligibleCount - (grant[p] - Cardinality(picked[p]))
        /\ UNCHANGED activeCount
    BY <1>1, <1>9, <2>2 DEF ReleaseSurplus
  <2>6. \A q \in Workers \ {p} :
            pc'[q] = pc[q] /\ grant'[q] = grant[q] /\ picked'[q] = picked[q]
    BY <1>1, <1>9 DEF ReleaseSurplus
  <2> QED  BY <1>1, <1>2, <2>1, <2>2, <2>4, <2>5, <2>6, WorkerBalance
<1>10. ASSUME NEW p \in Workers, QueryExpired(p)  PROVE Balanced
  <2>1. Eligibles' = Eligibles /\ Actives' = Actives
    BY <1>10, CountsStay DEF QueryExpired
  <2>2. Held(p) = 0 /\ Held(p)' = 0
    BY <1>1, <1>10 DEF QueryExpired, Held
  <2> QED  BY <1>1, <1>2, <1>10, <2>1, <2>2, WorkerBalance DEF QueryExpired
<1>11. ASSUME NEW p \in Workers, FreeSlot(p)  PROVE Balanced
  <2>1. Eligibles' = Eligibles /\ Actives' = Actives
    BY <1>11, CountsStay DEF FreeSlot
  <2>2. Held(p) = 1 /\ Held(p)' = 0
    BY <1>1, <1>11 DEF FreeSlot, Held
  <2> QED  BY <1>1, <1>2, <1>11, <2>1, <2>2, WorkerBalance DEF FreeSlot
<1>12. ASSUME NEW p \in Workers, NEW k \in Entries, PromoteEntry(p, k)  PROVE Balanced
  <2>1. Eligibles' = Eligibles + 1 /\ Actives' = Actives
    BY <1>1, <1>2, <1>12, TransitionCount DEF PromoteEntry, EligibilityStatus
  <2>2. Held(p)' = Held(p) - 1
    BY <1>1, <1>12, HandledStep DEF PromoteEntry, IsNext
  <2>3. \A q \in Workers \ {p} :
            pc'[q] = pc[q] /\ grant'[q] = grant[q] /\ picked'[q] = picked[q]
    BY <1>1, <1>12 DEF PromoteEntry, Handled
  <2>4. UNCHANGED <<eligibleCount, activeCount>>
    BY <1>12 DEF PromoteEntry
  <2>5. Held(p) \in Nat
    BY <2>3, OutstandingStep
  <2> QED  BY <1>1, <1>2, <2>1, <2>2, <2>3, <2>4, <2>5, WorkerBalance
<1>13. ASSUME NEW p \in Workers, NEW k \in Entries, PromoteConflict(p, k)  PROVE Balanced
  <2>1. Eligibles' = Eligibles /\ Actives' = Actives
    BY <1>13, CountsStay DEF PromoteConflict
  <2>2. Held(p) = Cardinality(picked[p]) /\ Held(p)' = Cardinality(picked[p])
    BY <1>1, <1>13 DEF PromoteConflict, Held
  <2>3. \A q \in Workers \ {p} :
            pc'[q] = pc[q] /\ grant'[q] = grant[q] /\ picked'[q] = picked[q]
    BY <1>1, <1>13 DEF PromoteConflict
  <2>4. UNCHANGED <<eligibleCount, activeCount>>
    BY <1>13 DEF PromoteConflict
  <2>5. Cardinality(picked[p]) \in Nat
    BY <1>1, FiniteEntries
  <2> QED  BY <1>1, <1>2, <2>1, <2>2, <2>3, <2>4, <2>5, WorkerBalance
<1>14. ASSUME NEW p \in Workers, NEW k \in Entries, ReleaseSlot(p, k)  PROVE Balanced
  <2>1. Eligibles' = Eligibles /\ Actives' = Actives
    BY <1>14, CountsStay DEF ReleaseSlot
  <2>2. Held(p)' = Held(p) - 1
    BY <1>1, <1>14, HandledStep DEF ReleaseSlot, IsNext
  <2>3. \A q \in Workers \ {p} :
            pc'[q] = pc[q] /\ grant'[q] = grant[q] /\ picked'[q] = picked[q]
    BY <1>1, <1>14 DEF ReleaseSlot, Handled
  <2>4. eligibleCount' = eligibleCount - 1 /\ activeCount' = activeCount
    BY <1>1, <1>14 DEF ReleaseSlot
  <2>5. Held(p) \in Nat
    BY <2>3, OutstandingStep
  <2> QED  BY <1>1, <1>2, <2>1, <2>2, <2>3, <2>4, <2>5, WorkerBalance
<1>15. ASSUME NEW p \in Workers, NEW k \in Entries, ExpireEntry(p, k)  PROVE Balanced
  <2>1. Eligibles' = Eligibles - 1 /\ Actives' = Actives
    BY <1>1, <1>2, <1>15, TransitionCount DEF ExpireEntry, EligibilityStatus
  <2>2. Held(p) = 0 /\ Held(p)' = 1
    BY <1>1, <1>15 DEF ExpireEntry, Held
  <2> QED  BY <1>1, <1>2, <1>15, <2>1, <2>2, WorkerBalance DEF ExpireEntry
<1>16. ASSUME NEW p \in Workers, NEW k \in Entries, ExpireConflict(p, k)  PROVE Balanced
  <2>1. Eligibles' = Eligibles /\ Actives' = Actives
    BY <1>16, CountsStay DEF ExpireConflict
  <2>2. Held(p) = 0 /\ Held(p)' = 0
    BY <1>1, <1>16 DEF ExpireConflict, Handled, Held
  <2> QED  BY <1>1, <1>2, <1>16, <2>1, <2>2, WorkerBalance DEF ExpireConflict, Handled
<1>17. ASSUME NEW p \in Workers, Abort(p)  PROVE Balanced
  <2>1. Eligibles' = Eligibles /\ Actives' = Actives
    BY <1>17, CountsStay DEF Abort
  <2>2. Held(p)' = 0
    BY <1>1, <1>17 DEF Abort, Return, Held
  <2>3. \A q \in Workers \ {p} :
            pc'[q] = pc[q] /\ grant'[q] = grant[q] /\ picked'[q] = picked[q]
    BY <1>1, <1>17 DEF Abort, Return
  <2>4. /\ Outstanding' = Outstanding - Held(p)
        /\ Held(p) \in Nat /\ Outstanding \in Nat
    BY <2>2, <2>3, OutstandingStep
  <2>5. UNCHANGED <<eligibleCount, activeCount>> /\ aborts' = aborts + 1
    BY <1>1, <1>17 DEF Abort
  <2>6. Held(p) \in 0..MaxBatchSize
    BY HeldBound
  <2>7. Lost' = Lost + Held(p) /\ Lost \in Int
    BY <1>1, <1>2, <2>1, <2>4, <2>5 DEF Lost
  <2>8. Lost' \in Lost..(Lost + MaxBatchSize) /\ Lost' \in Int
    BY <2>6, <2>7
  <2> QED  BY <1>1, <1>2, <2>1, <2>5, <2>8 DEF Balanced, Drifts
<1>18. ASSUME NEW k \in Entries, Environment(k)  PROVE Balanced
  <2>1. Outstanding' = Outstanding
    BY <1>18, OutstandingStays
    DEF Environment, Admit, Activate, Complete, FollowWaiting, FollowExpired,
       Corrupt, Reconcile
  <2>2. Outstanding \in Nat
    BY <1>1, HoldingType
  <2>3. CASE Admit(k)
    <3>1. "WAITING" \in EntryState /\ "ELIGIBLE" \in EntryState /\ "ACTIVE" \in EntryState
          /\ status[k] # "ELIGIBLE" /\ status[k] # "ACTIVE"
      BY <2>3 DEF Admit, EntryState, EligibilityStatus, NoEntry
    <3>2. status' = [status EXCEPT ![k] = "WAITING"]
      BY <2>3 DEF Admit
    <3>3. ASSUME NEW s \in {"ELIGIBLE", "ACTIVE"}
          PROVE  Cardinality(WithStatus(status', {s})) =
                     Cardinality(WithStatus(status, {s})) + 0 - 0
      <4>1. s \in EntryState /\ "WAITING" \in EntryState /\ "WAITING" # s /\ status[k] # s
        BY <3>1
      <4> QED  BY <1>1, <3>2, <4>1, StatusCount
    <3>4. Eligibles' = Eligibles /\ Actives' = Actives
      BY <1>2, <3>3 DEF Eligibles, Actives
    <3> QED  BY <1>1, <1>2, <2>1, <2>2, <2>3, <3>4 DEF Admit, Balanced, Drifts, Lost
  <2>4. CASE Activate(k)
    <3>1. Eligibles' = Eligibles - 1 /\ Actives' = Actives + 1
      BY <1>1, <1>2, <2>4, TransitionCount DEF Activate, EligibilityStatus
    <3> QED  BY <1>1, <1>2, <2>1, <2>2, <2>4, <3>1 DEF Activate, Balanced, Drifts, Lost
  <2>5. CASE Complete(k)
    <3>1. Eligibles' = Eligibles /\ Actives' = Actives - 1
      BY <1>1, <1>2, <2>5, TransitionCount DEF Complete, EligibilityStatus
    <3> QED  BY <1>1, <1>2, <2>1, <2>2, <2>5, <3>1 DEF Complete, Balanced, Drifts, Lost
  <2>6. CASE FollowWaiting(k) \/ FollowExpired(k) \/ Corrupt(k) \/ Reconcile(k)
    <3>1. Eligibles' = Eligibles /\ Actives' = Actives
      BY <2>6, CountsStay DEF FollowWaiting, FollowExpired, Corrupt, Reconcile
    <3> QED  BY <1>1, <1>2, <2>1, <2>2, <2>6, <3>1
             DEF FollowWaiting, FollowExpired, Corrupt, Reconcile, Balanced, Drifts, Lost
  <2> QED  BY <1>18, <2>3, <2>4, <2>5, <2>6 DEF Environment
<1>19. CASE UNCHANGED vars
  <2>1. Eligibles' = Eligibles /\ Actives' = Actives
    BY <1>19, CountsStay DEF vars
  <2>2. Outstanding' = Outstanding
    BY <1>19, OutstandingStays DEF vars
  <2>3. Outstanding \in Nat
    BY <1>1, HoldingType
  <2> QED  BY <1>1, <1>2, <1>19, <2>1, <2>2, <2>3 DEF vars, Balanced, Drifts, Lost
<1>20. ASSUME NEW p \in Workers, RetriedCommit(p)  PROVE Balanced
  <2>1. Eligibles' = Eligibles /\ Actives' = Actives
    BY <1>20, CountsStay DEF RetriedCommit
  <2>2. Held(p) = 0 /\ Held(p)' = 0
    BY <1>1, <1>20 DEF RetriedCommit, NextAttempt, Held
  <2>3. \A q \in Workers \ {p} :
            pc'[q] = pc[q] /\ grant'[q] = grant[q] /\ picked'[q] = picked[q]
    BY <1>1, <1>20 DEF RetriedCommit, NextAttempt
  <2>4. eligibleCount' = eligibleCount + grant[p] /\ activeCount' = activeCount /\ Resend
    BY <1>1, <1>20 DEF RetriedCommit
  <2>5. grant[p] \in 0..MaxBatchSize
    BY <1>1
  <2> QED  BY <1>1, <1>2, <2>1, <2>2, <2>3, <2>4, <2>5, ResentBalance
<1>21. ASSUME NEW p \in Workers, RetriedSurplus(p)  PROVE Balanced
  <2>1. Eligibles' = Eligibles /\ Actives' = Actives
    BY <1>21, CountsStay DEF RetriedSurplus
  <2>2. Cardinality(picked[p]) \in Nat /\ grant[p] \in 0..MaxBatchSize
    BY <1>1, FiniteEntries
  <2>3. picked[p] = {} => Cardinality(picked[p]) = 0
    BY FS_EmptySet
  <2>4. Held(p) = grant[p] /\ Held(p)' = Cardinality(picked[p])
    BY <1>1, <1>21, <2>3 DEF RetriedSurplus, Held
  <2>5. eligibleCount' = eligibleCount - 2 * (grant[p] - Cardinality(picked[p]))
        /\ activeCount' = activeCount /\ Resend
    BY <1>1, <1>21, <2>2 DEF RetriedSurplus
  <2>6. \A q \in Workers \ {p} :
            pc'[q] = pc[q] /\ grant'[q] = grant[q] /\ picked'[q] = picked[q]
    BY <1>1, <1>21 DEF RetriedSurplus
  <2>7. Cardinality(picked[p]) <= grant[p]
    BY <1>1, <1>21 DEF SelectionFits, RetriedSurplus
  <2> DEFINE d == -(grant[p] - Cardinality(picked[p]))
  <2>8. d \in Int /\ -MaxBatchSize <= d /\ d <= MaxBatchSize
    BY <2>2, <2>7
  <2>9. eligibleCount' - eligibleCount = (Held(p)' - Held(p)) + (Eligibles' - Eligibles) + d
    BY <1>1, <1>2, <2>1, <2>2, <2>4, <2>5
  <2> HIDE DEF d
  <2> QED  BY <1>1, <1>2, <2>1, <2>5, <2>6, <2>8, <2>9, ResentBalance
<1>22. ASSUME NEW p \in Workers, RetriedFree(p)  PROVE Balanced
  <2>1. Eligibles' = Eligibles /\ Actives' = Actives
    BY <1>22, CountsStay DEF RetriedFree
  <2>2. Held(p) = 1 /\ Held(p)' = 0
    BY <1>1, <1>22 DEF RetriedFree, Held
  <2>3. \A q \in Workers \ {p} :
            pc'[q] = pc[q] /\ grant'[q] = grant[q] /\ picked'[q] = picked[q]
    BY <1>1, <1>22 DEF RetriedFree
  <2>4. eligibleCount' = eligibleCount - 2 /\ activeCount' = activeCount /\ Resend
    BY <1>1, <1>22 DEF RetriedFree
  <2>5. eligibleCount' - eligibleCount = (Held(p)' - Held(p)) + (Eligibles' - Eligibles) + (-1)
    BY <1>1, <1>2, <2>1, <2>2, <2>4
  <2>6. -1 \in Int /\ -MaxBatchSize <= -1 /\ -1 <= MaxBatchSize
    BY CapacityAssumption
  <2>7. Eligibles' \in Int /\ UNCHANGED <<Actives, activeCount>>
    BY <1>2, <2>1, <2>4
  <2> QED  BY <2>3, <2>4, <2>5, <2>6, <2>7, ResentBalance
<1>23. ASSUME NEW p \in Workers, NEW k \in Entries, RetriedPromote(p, k)  PROVE Balanced
  <2>1. Eligibles' = Eligibles + 1 /\ Actives' = Actives
    BY <1>1, <1>2, <1>23, TransitionCount DEF RetriedPromote, EligibilityStatus
  <2>2. Held(p) = Cardinality(picked[p]) /\ Held(p)' = Cardinality(picked[p])
        /\ Cardinality(picked[p]) \in Nat
    BY <1>1, <1>23, FiniteEntries DEF RetriedPromote, Held
  <2>3. \A q \in Workers \ {p} :
            pc'[q] = pc[q] /\ grant'[q] = grant[q] /\ picked'[q] = picked[q]
    BY <1>1, <1>23 DEF RetriedPromote
  <2>4. UNCHANGED <<eligibleCount, activeCount>> /\ Resend
    BY <1>23 DEF RetriedPromote
  <2>5. eligibleCount' - eligibleCount = (Held(p)' - Held(p)) + (Eligibles' - Eligibles) + (-1)
    BY <1>1, <1>2, <2>1, <2>2, <2>4
  <2>6. -1 \in Int /\ -MaxBatchSize <= -1 /\ -1 <= MaxBatchSize
    BY CapacityAssumption
  <2>7. Eligibles' \in Int /\ UNCHANGED <<Actives, activeCount>>
    BY <1>2, <2>1, <2>4
  <2> QED  BY <2>3, <2>4, <2>5, <2>6, <2>7, ResentBalance
<1>24. ASSUME NEW p \in Workers, NEW k \in Entries, RetriedRelease(p, k)  PROVE Balanced
  <2>1. Eligibles' = Eligibles /\ Actives' = Actives
    BY <1>24, CountsStay DEF RetriedRelease
  <2>2. Held(p)' = Held(p) - 1
    BY <1>1, <1>24, HandledStep DEF RetriedRelease, IsNext
  <2>3. \A q \in Workers \ {p} :
            pc'[q] = pc[q] /\ grant'[q] = grant[q] /\ picked'[q] = picked[q]
    BY <1>1, <1>24 DEF RetriedRelease, Handled
  <2>4. eligibleCount' = eligibleCount - 2 /\ activeCount' = activeCount /\ Resend
    BY <1>1, <1>24 DEF RetriedRelease
  <2>5. Held(p) \in Nat
    BY HeldBound
  <2>6. eligibleCount' - eligibleCount = (Held(p)' - Held(p)) + (Eligibles' - Eligibles) + (-1)
    BY <1>1, <1>2, <2>1, <2>2, <2>4, <2>5
  <2>7. -1 \in Int /\ -MaxBatchSize <= -1 /\ -1 <= MaxBatchSize
    BY CapacityAssumption
  <2>8. Eligibles' \in Int /\ UNCHANGED <<Actives, activeCount>>
    BY <1>2, <2>1, <2>4
  <2> QED  BY <2>3, <2>4, <2>6, <2>7, <2>8, ResentBalance
<1>25. ASSUME NEW p \in Workers, NEW k \in Entries, RetriedExpire(p, k)  PROVE Balanced
  <2>1. Eligibles' = Eligibles - 1 /\ Actives' = Actives
    BY <1>1, <1>2, <1>25, TransitionCount DEF RetriedExpire, EligibilityStatus
  <2>2. Held(p) = 0 /\ Held(p)' = 0
    BY <1>1, <1>25 DEF RetriedExpire, Handled, Held
  <2>3. \A q \in Workers \ {p} :
            pc'[q] = pc[q] /\ grant'[q] = grant[q] /\ picked'[q] = picked[q]
    BY <1>1, <1>25 DEF RetriedExpire, Handled
  <2>4. UNCHANGED <<eligibleCount, activeCount>> /\ Resend
    BY <1>25 DEF RetriedExpire
  <2>5. eligibleCount' - eligibleCount = (Held(p)' - Held(p)) + (Eligibles' - Eligibles) + (1)
    BY <1>1, <1>2, <2>1, <2>2, <2>4
  <2>6. 1 \in Int /\ -MaxBatchSize <= 1 /\ 1 <= MaxBatchSize
    BY CapacityAssumption
  <2>7. Eligibles' \in Int /\ UNCHANGED <<Actives, activeCount>>
    BY <1>2, <2>1, <2>4
  <2> QED  BY <2>3, <2>4, <2>5, <2>6, <2>7, ResentBalance
<1> QED
  BY <1>3, <1>4, <1>5, <1>6, <1>7, <1>8, <1>9, <1>10, <1>11, <1>12, <1>13, <1>14, <1>15,
     <1>16, <1>17, <1>18, <1>19, <1>20, <1>21, <1>22, <1>23, <1>24, <1>25
  DEF Next, Work, Faulty

\* The eligible and the active entries are different ones.
LEMMA OccupyingCount ==
    ASSUME NEW s \in [Entries -> EntryState]
    PROVE  /\ Cardinality(WithStatus(s, Occupying)) =
                  Cardinality(WithStatus(s, {"ELIGIBLE"})) + Cardinality(WithStatus(s, {"ACTIVE"}))
           /\ Cardinality(WithStatus(s, {"ELIGIBLE"})) \in Nat
           /\ Cardinality(WithStatus(s, {"ACTIVE"})) \in Nat
<1> DEFINE E == WithStatus(s, {"ELIGIBLE"})
           A == WithStatus(s, {"ACTIVE"})
<1>1. E \in SUBSET Entries /\ A \in SUBSET Entries
  BY DEF WithStatus
<1>2. E \cap A = {} /\ WithStatus(s, Occupying) = E \cup A
  BY DEF WithStatus, Occupying
<1> HIDE DEF E, A
<1>3. /\ IsFiniteSet(E) /\ Cardinality(E) \in Nat
      /\ IsFiniteSet(A) /\ Cardinality(A) \in Nat
  BY <1>1, FiniteEntries
<1>4. Cardinality(E \cup A) = Cardinality(E) + Cardinality(A)
  BY <1>2, <1>3, FS_Union, FS_EmptySet
<1> QED  BY <1>2, <1>3, <1>4 DEF E, A

\* A balance no further from zero than a aborts and r resent writes can have taken it.
Close(x, a, r) == /\ x >= -(MaxBatchSize * r)
                  /\ x <= MaxBatchSize * (a + r)

LEMMA DriftStaysClose ==
    ASSUME NEW x \in Int, NEW y \in Int,
           NEW a \in Nat, NEW b \in Nat, b = a \/ b = a + 1,
           NEW r \in Nat, NEW q \in Nat, q = r \/ q = r + 1,
           \/ y = x
           \/ b = a + 1 /\ y \in x..(x + MaxBatchSize)
           \/ q = r + 1 /\ y \in (x - MaxBatchSize)..(x + MaxBatchSize),
           Close(x, a, r)
    PROVE  Close(y, b, q)
<1>1. \A n \in Nat : /\ MaxBatchSize * n \in Nat
                     /\ MaxBatchSize * (n + 1) = MaxBatchSize * n + MaxBatchSize
  OBVIOUS
<1> DEFINE low(n)  == MaxBatchSize * n
<1>2. /\ low(r) \in Nat /\ low(r + 1) = low(r) + MaxBatchSize
      /\ low(a + r) \in Nat /\ low(a + r + 1) = low(a + r) + MaxBatchSize
      /\ low(a + r + 2) = low(a + r) + MaxBatchSize + MaxBatchSize
  <2>1. a + r \in Nat /\ a + r + 1 \in Nat /\ a + r + 2 = (a + r + 1) + 1
    OBVIOUS
  <2> QED  BY <1>1, <2>1
<1>3. x >= -low(r) /\ x <= low(a + r)
  BY DEF Close
<1>4. /\ low(q) = low(r) \/ (q = r + 1 /\ low(q) = low(r) + MaxBatchSize)
      /\ q = r => low(q) = low(r)
  BY <1>2
<1>5. b + q = a + r \/ b + q = a + r + 1 \/ b + q = a + r + 2
  OBVIOUS
<1>6. /\ low(b + q) >= low(a + r)
      /\ (b = a + 1 \/ q = r + 1) => low(b + q) >= low(a + r) + MaxBatchSize
      /\ low(b + q) \in Nat
  BY <1>1, <1>2, <1>5
<1> HIDE DEF low
<1>7. y >= -low(q) /\ y <= low(b + q)
  BY <1>2, <1>3, <1>4, <1>6
<1> QED  BY <1>7 DEF Close, low

\* The inductive invariant of the conservation of slots.
Conserved == activeCount = Actives /\ Close(Lost, aborts, resends)

Strong == IInv /\ Conserved

LEMMA InitConserved == Init => Conserved
<1> SUFFICES ASSUME Init  PROVE Conserved
  OBVIOUS
<1>1. \A k \in Entries : status[k] = "NO_ENTRY"
  BY DEF Init, NoEntry
<1>2. WithStatus(status, {"ELIGIBLE"}) = {} /\ WithStatus(status, {"ACTIVE"}) = {}
  BY <1>1 DEF Init, WithStatus
<1>3. Slots([p \in Workers |-> Held(p)]) = {}
  <2>1. \A p \in Workers : Held(p) = 0
    BY DEF Init, Held
  <2> QED  BY <2>1 DEF Slots
<1>4. Eligibles = 0 /\ Actives = 0 /\ Outstanding = 0
  BY <1>2, <1>3, FS_EmptySet DEF Eligibles, Actives, Outstanding
<1>5. Close(0, 0, 0)
  BY DEF Close
<1> QED  BY <1>4, <1>5 DEF Init, Conserved, Lost

\* The faults are counted, never forgotten.
LEMMA FaultStep == TypeOK /\ [Next]_vars =>
    /\ resends' = resends \/ resends' = resends + 1
    /\ resends' # resends => resends < MaxResends
    /\ aborts' = aborts \/ aborts' = aborts + 1
<1> SUFFICES ASSUME TypeOK, [Next]_vars
             PROVE  /\ resends' = resends \/ resends' = resends + 1
                    /\ resends' # resends => resends < MaxResends
                    /\ aborts' = aborts \/ aborts' = aborts + 1
  OBVIOUS
<1> USE DEF faults, entryFaults
<1>1. CASE \E p \in Workers : Begin(p) \/ Work(p)
  BY <1>1 DEF Begin, Work, ReadCapacity, ReadNegative, CommitReserve, CommitConflict,
     QueryShard, QueryLastShard, ReleaseSurplus, QueryExpired, FreeSlot, PromoteEntry,
     PromoteConflict, ReleaseSlot, ExpireEntry, ExpireConflict
<1>2. CASE \E p \in Workers : Faulty(p)
  BY <1>2 DEF Faulty, Abort, Resend, RetriedCommit, RetriedSurplus, RetriedFree,
     RetriedPromote, RetriedRelease, RetriedExpire
<1>3. CASE \E k \in Entries : Environment(k)
  BY <1>3 DEF Environment, Admit, Activate, Complete, FollowWaiting, FollowExpired,
       Corrupt, Reconcile
<1>4. CASE UNCHANGED vars
  BY <1>4 DEF vars
<1> QED  BY <1>1, <1>2, <1>3, <1>4 DEF Next

LEMMA StrongStep == Strong /\ [Next]_vars => Strong'
<1> SUFFICES ASSUME Strong, [Next]_vars  PROVE Strong'
  OBVIOUS
<1>1. IInv /\ IInv' /\ TypeOK
  BY InvStep DEF Strong, IInv
<1>2. /\ resends' = resends \/ resends' = resends + 1
      /\ aborts' = aborts \/ aborts' = aborts + 1
  BY <1>1, FaultStep
<1>3. /\ resends \in Nat /\ aborts \in Nat
      /\ resends' \in Nat /\ aborts' \in Nat
  BY <1>1 DEF IInv, TypeOK
<1>4. Balanced
  BY <1>1, BalanceStep
<1>5. Eligibles \in Nat /\ Actives \in Nat /\ Outstanding \in Nat /\ eligibleCount \in Int
      /\ activeCount \in Int
  BY <1>1, CountsType, HoldingType DEF IInv, TypeOK
<1>6. activeCount' = Actives'
  <2>1. status' \in [Entries -> EntryState] /\ activeCount' \in Int
    BY <1>1 DEF IInv, TypeOK
  <2>2. Actives' \in Nat
    BY <2>1, OccupyingCount DEF Actives
  <2>3. activeCount = Actives /\ activeCount' - Actives' = activeCount - Actives
    BY <1>4 DEF Strong, Conserved, Balanced
  <2>4. activeCount' - Actives' = 0
    BY <1>5, <2>3
  <2>5. activeCount' \in Int /\ Actives' \in Int
    BY <2>1, <2>2
  <2>6. \A a, b \in Int : a - b = 0 => a = b
    OBVIOUS
  <2> QED  BY <2>4, <2>5, <2>6, Zenon
<1>7. Close(Lost', aborts', resends')
  <2>1. Lost \in Int /\ Lost' \in Int
    BY <1>4, <1>5 DEF Lost, Balanced
  <2>2. Close(Lost, aborts, resends)
    BY DEF Strong, Conserved
  <2>3. \/ Lost' = Lost
        \/ aborts' = aborts + 1 /\ Lost' \in Lost..(Lost + MaxBatchSize)
        \/ resends' = resends + 1 /\ Lost' \in (Lost - MaxBatchSize)..(Lost + MaxBatchSize)
    BY <1>4 DEF Balanced, Drifts
  <2> QED  BY <1>2, <1>3, <2>1, <2>2, <2>3, DriftStaysClose
<1> QED  BY <1>1, <1>6, <1>7 DEF Strong, Conserved

LEMMA StrongInvariance == Spec => []Strong
<1>1. Init => Strong
  BY InitInv, InitConserved DEF Strong
<1> QED  BY <1>1, StrongStep, PTL DEF Spec

-----------------------------------------------------------------------------
(* What the conservation of slots gives *)

LEMMA StrongConsequences ==
    Strong => SlotsCovered /\ LeakIsBounded /\ NoOverPromotion
<1> SUFFICES ASSUME Strong  PROVE SlotsCovered /\ LeakIsBounded /\ NoOverPromotion
  OBVIOUS
<1>1. /\ Eligibles \in Nat /\ Actives \in Nat /\ Outstanding \in Nat
      /\ eligibleCount \in Int /\ activeCount \in Int
      /\ aborts \in Nat /\ resends \in Nat
  BY CountsType, HoldingType DEF Strong, IInv, TypeOK
<1>2. MaxBatchSize * resends \in Nat /\ MaxBatchSize * (aborts + resends) \in Nat
  BY <1>1
<1>3. /\ activeCount = Actives
      /\ Lost >= -(MaxBatchSize * resends)
      /\ Lost <= MaxBatchSize * (aborts + resends)
  BY DEF Strong, Conserved, Close
<1> DEFINE short == MaxBatchSize * resends
           over  == MaxBatchSize * (aborts + resends)
<1> HIDE DEF short, over
<1>4. /\ Eligibles + Outstanding <= eligibleCount + short
      /\ eligibleCount <= Eligibles + Outstanding + over
  BY <1>1, <1>2, <1>3 DEF Lost, short, over
<1>5. Cardinality(WithStatus(status, Occupying)) = Eligibles + Actives
  BY OccupyingCount DEF Strong, IInv, TypeOK, Eligibles, Actives
<1>6. eligibleCount + activeCount <= Capacity
  BY DEF Strong, IInv, CapacityBound
<1>7. Eligibles + Actives <= Capacity + short
  BY <1>1, <1>2, <1>3, <1>4, <1>6, CapacityAssumption DEF short
<1> QED  BY <1>3, <1>4, <1>5, <1>7
         DEF SlotsCovered, LeakIsBounded, NoOverPromotion, Eligibles, Actives, short, over

\* Eligible_Count covers every eligible entry and every slot a running invocation holds,
\* but for a batch per resent write, and Active_Count is the number of active entries,
\* past every interleaving and every abort.
THEOREM SlotsAreCovered == Spec => []SlotsCovered
BY StrongInvariance, StrongConsequences, PTL

\* No slot is lost but by a fault, and by each fault at most a batch.
THEOREM LeaksAreBounded == Spec => []LeakIsBounded
BY StrongInvariance, StrongConsequences, PTL

\* No more fans are let through than Downstream_Capacity and a batch per resent write,
\* however many invocations overlap and abort.
THEOREM NeverOverPromoted == Spec => []NoOverPromotion
BY StrongInvariance, StrongConsequences, PTL

-----------------------------------------------------------------------------
(* Promoted_Total *)

\* The entries that have left ELIGIBLE again, and the sweeps that have expired one and
\* not yet freed its slot.
Gone == WithStatus(status, {"ACTIVE", "EXPIRED", "COMPLETED"})
Freeing == { p \in Workers : At(p, "free") }

\* What Promoted_Total counts that Eligible_Count does not, less the entries that have
\* left ELIGIBLE and are not about to be freed.
Unsettled == promotedTotal - eligibleCount + Cardinality(Freeing) - Cardinality(Gone)

\* The inductive invariant of the history: Lost + Unsettled is what Promoted_Total counts
\* besides the entries ever let through and the slots reserved.
Settled == Close(Lost + Unsettled, aborts, resends)

\* A step keeps what is unsettled, or else only exchanges it for what is lost.
Exchanges ==
    /\ Unsettled' \in Int
    /\ Unsettled' = Unsettled \/ Unsettled' + Lost' = Unsettled + Lost

LEMMA InitSettled == Init => Settled
<1> SUFFICES ASSUME Init  PROVE Settled
  OBVIOUS
<1>1. Gone = {} /\ Freeing = {}
  BY DEF Init, Gone, Freeing, WithStatus, NoEntry, At
<1>2. Unsettled = 0
  BY <1>1, FS_EmptySet DEF Init, Unsettled
<1>3. \A k \in Entries : status[k] = "NO_ENTRY"
  BY DEF Init, NoEntry
<1>4. WithStatus(status, {"ELIGIBLE"}) = {}
  BY <1>3 DEF Init, WithStatus
<1>5. Slots([p \in Workers |-> Held(p)]) = {}
  <2>1. \A p \in Workers : Held(p) = 0
    BY DEF Init, Held
  <2> QED  BY <2>1 DEF Slots
<1>6. Lost = 0
  <2>1. Eligibles = 0 /\ Outstanding = 0
    BY <1>4, <1>5, FS_EmptySet DEF Eligibles, Outstanding
  <2> QED  BY <2>1 DEF Init, Lost
<1>7. Close(0, 0, 0)
  BY DEF Close
<1> QED  BY <1>2, <1>6, <1>7 DEF Init, Settled

LEMMA SettledTypes ==
    ASSUME TypeOK
    PROVE  /\ IsFiniteSet(Gone) /\ Cardinality(Gone) \in Nat
           /\ IsFiniteSet(Freeing) /\ Cardinality(Freeing) \in Nat
           /\ promotedTotal \in Int /\ eligibleCount \in Int
<1>1. Gone \in SUBSET Entries
  BY DEF TypeOK, Gone, WithStatus
<1>2. Freeing \in SUBSET Workers
  BY DEF Freeing
<1> QED  BY <1>1, <1>2, FiniteEntries, FS_Subset, FS_CardinalityType DEF TypeOK

LEMMA ExchangeStep ==
    ASSUME IInv, IInv', [Next]_vars
    PROVE  Exchanges
<1> USE DEF At, GoTo, AddToCapacity, capacityItem, indexes, locals, faults, entryFaults
<1>0. /\ TypeOK
      /\ promotedTotal \in Int /\ eligibleCount \in Int
      /\ pc \in [Workers -> Steps] /\ status \in [Entries -> EntryState]
      /\ IsFiniteSet(Gone) /\ Cardinality(Gone) \in Nat
      /\ IsFiniteSet(Freeing) /\ Cardinality(Freeing) \in Nat
  BY SettledTypes DEF IInv, TypeOK
<1>1. Unsettled \in Int
  BY <1>0 DEF Unsettled
<1>2. ASSUME Unsettled' = Unsettled  PROVE Exchanges
  BY <1>1, <1>2 DEF Exchanges
<1>3. ASSUME Gone' = Gone, Freeing' = Freeing,
             promotedTotal' - eligibleCount' = promotedTotal - eligibleCount
      PROVE  Exchanges
  BY <1>2, <1>3 DEF Unsettled
<1>4. UNCHANGED status => Gone' = Gone
  BY DEF Gone
<1>5. ASSUME NEW p \in Workers, NEW step, step # "free", pc[p] # "free",
             pc' = [pc EXCEPT ![p] = step]
      PROVE  Freeing' = Freeing
  BY <1>0, <1>5 DEF Freeing
<1>6. UNCHANGED pc => Freeing' = Freeing
  BY DEF Freeing
<1>7. ASSUME NEW k \in Entries, NEW to, status' = [status EXCEPT ![k] = to],
             (to \in {"ACTIVE", "EXPIRED", "COMPLETED"})
                 <=> (status[k] \in {"ACTIVE", "EXPIRED", "COMPLETED"})
      PROVE  Gone' = Gone
  BY <1>0, <1>7 DEF Gone, WithStatus
<1>8. ASSUME NEW k \in Entries, NEW to \in {"ACTIVE", "EXPIRED"}, Transition(k, "ELIGIBLE", to)
      PROVE  Cardinality(Gone') = Cardinality(Gone) + 1
  <2>1. status' = [status EXCEPT ![k] = to] /\ status[k] = "ELIGIBLE"
    BY <1>8 DEF Transition, Applies, CanTransition
  <2>2. Gone' = Gone \cup {k} /\ k \notin Gone
    BY <1>0, <2>1 DEF Gone, WithStatus
  <2> QED  BY <1>0, <2>2, SettledTypes, FS_AddElement
<1>9. ASSUME NEW p \in Workers,
             \/ Begin(p) \/ ReadCapacity(p) \/ ReadNegative(p) \/ CommitConflict(p)
             \/ QueryShard(p) \/ QueryLastShard(p) \/ QueryExpired(p)
             \/ \E k \in Entries : PromoteConflict(p, k) \/ ExpireConflict(p, k)
      PROVE  Exchanges
  <2>1. UNCHANGED <<status, promotedTotal, eligibleCount>>
    BY <1>9 DEF Begin, ReadCapacity, ReadNegative, CommitConflict, QueryShard, QueryLastShard,
                QueryExpired, PromoteConflict, ExpireConflict
  <2>2. Freeing' = Freeing
    <3>1. pc[p] # "free" /\ (UNCHANGED pc \/ \E step : step # "free" /\ pc' = [pc EXCEPT ![p] = step])
      BY <1>9 DEF Begin, ReadCapacity, ReadNegative, CommitConflict, QueryShard, QueryLastShard,
                  QueryExpired, PromoteConflict, ExpireConflict, EndCycle, Return, NextAttempt,
                  Handled
    <3> QED  BY <1>5, <1>6, <3>1
  <2> QED  BY <1>3, <1>4, <2>1, <2>2
<1>10. ASSUME NEW p \in Workers,
              \/ CommitReserve(p) \/ ReleaseSurplus(p) \/ \E k \in Entries : ReleaseSlot(p, k)
       PROVE  Exchanges
  <2>1. UNCHANGED status /\ \E n \in Int : /\ promotedTotal' = promotedTotal + n
                                           /\ eligibleCount' = eligibleCount + n
    <3>1. grant[p] \in Int /\ Cardinality(picked[p]) \in Int
      BY <1>0, FiniteEntries DEF TypeOK
    <3>2. CASE CommitReserve(p)
      BY <3>1, <3>2 DEF CommitReserve
    <3>3. CASE ReleaseSurplus(p)
      <4>1. -(grant[p] - Cardinality(picked[p])) \in Int
        BY <3>1
      <4> QED  BY <3>3, <4>1 DEF ReleaseSurplus
    <3>4. CASE \E k \in Entries : ReleaseSlot(p, k)
      BY <3>4 DEF ReleaseSlot
    <3> QED  BY <1>10, <3>2, <3>3, <3>4
  <2>2. promotedTotal' - eligibleCount' = promotedTotal - eligibleCount
    BY <1>0, <2>1
  <2>3. Freeing' = Freeing
    <3>1. pc[p] # "free" /\ \E step : step # "free" /\ pc' = [pc EXCEPT ![p] = step]
      BY <1>10 DEF CommitReserve, ReleaseSurplus, ReleaseSlot, Handled
    <3> QED  BY <1>5, <3>1
  <2> QED  BY <1>3, <1>4, <2>1, <2>2, <2>3
<1>11. ASSUME NEW p \in Workers, NEW k \in Entries, PromoteEntry(p, k)
       PROVE  Exchanges
  <2>1. Gone' = Gone
    <3>1. status' = [status EXCEPT ![k] = "ELIGIBLE"] /\ status[k] = "WAITING"
      BY <1>11 DEF PromoteEntry, Transition, Applies, CanTransition
    <3> QED  BY <1>7, <3>1
  <2>2. Freeing' = Freeing
    <3>1. pc[p] # "free" /\ \E step : step # "free" /\ pc' = [pc EXCEPT ![p] = step]
      BY <1>11 DEF PromoteEntry, Handled
    <3> QED  BY <1>5, <3>1
  <2>3. UNCHANGED <<promotedTotal, eligibleCount>>
    BY <1>11 DEF PromoteEntry
  <2> QED  BY <1>3, <2>1, <2>2, <2>3
<1>12. ASSUME NEW p \in Workers, NEW k \in Entries, ExpireEntry(p, k)
       PROVE  Exchanges
  <2>1. Cardinality(Gone') = Cardinality(Gone) + 1
    BY <1>8, <1>12 DEF ExpireEntry
  <2>2. Freeing' = Freeing \cup {p} /\ p \notin Freeing
    BY <1>0, <1>12 DEF ExpireEntry, Freeing
  <2>3. Cardinality(Freeing') = Cardinality(Freeing) + 1
    BY <1>0, <2>2, SettledTypes, FS_AddElement
  <2>4. UNCHANGED <<promotedTotal, eligibleCount>>
    BY <1>12 DEF ExpireEntry
  <2> QED  BY <1>0, <1>2, <2>1, <2>3, <2>4 DEF Unsettled
<1>13. ASSUME NEW p \in Workers, FreeSlot(p)
       PROVE  Exchanges
  <2>1. Freeing' = Freeing \ {p} /\ p \in Freeing
    BY <1>0, <1>13 DEF FreeSlot, Freeing
  <2>2. Cardinality(Freeing') = Cardinality(Freeing) - 1
    BY <1>0, <2>1, SettledTypes, FS_RemoveElement
  <2>3. eligibleCount' = eligibleCount - 1 /\ promotedTotal' = promotedTotal /\ UNCHANGED status
    BY <1>0, <1>13 DEF FreeSlot
  <2> QED  BY <1>0, <1>2, <1>4, <2>2, <2>3 DEF Unsettled
<1>14. ASSUME NEW k \in Entries, Environment(k)
       PROVE  Exchanges
  <2>0. Freeing' = Freeing
    BY <1>6, <1>14 DEF Environment, Admit, Activate, Complete, FollowWaiting, FollowExpired,
                       Corrupt, Reconcile
  <2>1. CASE Admit(k)
    <3>1. Gone' = Gone
      BY <1>7, <2>1 DEF Admit, NoEntry
    <3> QED  BY <1>3, <2>0, <2>1, <3>1 DEF Admit
  <2>2. CASE Activate(k)
    <3>1. Cardinality(Gone') = Cardinality(Gone) + 1
      BY <1>8, <2>2 DEF Activate
    <3>2. eligibleCount' = eligibleCount - 1 /\ promotedTotal' = promotedTotal
      BY <1>0, <2>2 DEF Activate
    <3> QED  BY <1>0, <1>2, <2>0, <3>1, <3>2 DEF Unsettled
  <2>3. CASE Complete(k)
    <3>1. Gone' = Gone
      <4>1. status' = [status EXCEPT ![k] = "COMPLETED"] /\ status[k] = "ACTIVE"
        BY <2>3 DEF Complete, Transition, Applies, CanTransition
      <4> QED  BY <1>7, <4>1
    <3>2. eligibleCount' = eligibleCount /\ promotedTotal' = promotedTotal
      BY <1>0, <2>3 DEF Complete
    <3> QED  BY <1>3, <2>0, <3>1, <3>2
  <2>4. CASE FollowWaiting(k) \/ FollowExpired(k) \/ Corrupt(k) \/ Reconcile(k)
    <3>1. UNCHANGED <<status, promotedTotal, eligibleCount>>
      BY <2>4 DEF FollowWaiting, FollowExpired, Corrupt, Reconcile
    <3> QED  BY <1>3, <1>4, <2>0, <3>1
  <2> QED  BY <1>14, <2>1, <2>2, <2>3, <2>4 DEF Environment
<1>15. CASE UNCHANGED vars
  BY <1>3, <1>4, <1>6, <1>15 DEF vars
<1>16. ASSUME NEW p \in Workers,
              RetriedCommit(p) \/ RetriedSurplus(p) \/ \E k \in Entries : RetriedRelease(p, k)
       PROVE  Exchanges
  <2>1. UNCHANGED status
    BY <1>16 DEF RetriedCommit, RetriedSurplus, RetriedRelease
  <2>2. \E n \in Int : promotedTotal' = promotedTotal + n /\ eligibleCount' = eligibleCount + n
    <3>1. grant[p] \in Int /\ Cardinality(picked[p]) \in Int
      BY <1>0, FiniteEntries DEF TypeOK
    <3>2. CASE RetriedCommit(p)
      BY <3>1, <3>2 DEF RetriedCommit
    <3>3. CASE RetriedSurplus(p)
      <4>1. -2 * (grant[p] - Cardinality(picked[p])) \in Int
        BY <3>1
      <4> QED  BY <3>3, <4>1 DEF RetriedSurplus
    <3>4. CASE \E k \in Entries : RetriedRelease(p, k)
      BY <3>4 DEF RetriedRelease
    <3> QED  BY <1>16, <3>2, <3>3, <3>4
  <2>3. promotedTotal' - eligibleCount' = promotedTotal - eligibleCount
    BY <1>0, <2>2
  <2>4. Freeing' = Freeing
    <3>1. pc[p] # "free" /\ \E step : step # "free" /\ pc' = [pc EXCEPT ![p] = step]
      BY <1>16 DEF RetriedCommit, RetriedSurplus, RetriedRelease, NextAttempt, Handled
    <3> QED  BY <1>5, <3>1
  <2> QED  BY <1>3, <1>4, <2>1, <2>3, <2>4
<1>17. ASSUME NEW p \in Workers, NEW k \in Entries, RetriedPromote(p, k)
       PROVE  Exchanges
  <2>1. Gone' = Gone
    <3>1. status' = [status EXCEPT ![k] = "ELIGIBLE"] /\ status[k] = "WAITING"
      BY <1>17 DEF RetriedPromote, Transition, Applies, CanTransition
    <3> QED  BY <1>7, <3>1
  <2>2. Freeing' = Freeing
    BY <1>5, <1>17 DEF RetriedPromote
  <2>3. UNCHANGED <<promotedTotal, eligibleCount>>
    BY <1>17 DEF RetriedPromote
  <2> QED  BY <1>3, <2>1, <2>2, <2>3
<1>18. ASSUME NEW p \in Workers, NEW k \in Entries, RetriedExpire(p, k)
       PROVE  Exchanges
  <2>1. Cardinality(Gone') = Cardinality(Gone) + 1
    BY <1>8, <1>18 DEF RetriedExpire
  <2>2. Freeing' = Freeing
    <3>1. pc[p] # "free" /\ \E step : step # "free" /\ pc' = [pc EXCEPT ![p] = step]
      BY <1>18 DEF RetriedExpire, Handled
    <3> QED  BY <1>5, <3>1
  <2>3. UNCHANGED <<promotedTotal, eligibleCount>>
    BY <1>18 DEF RetriedExpire
  <2>4. Unsettled' = Unsettled - 1
    BY <1>0, <2>1, <2>2, <2>3 DEF Unsettled
  <2>5. Eligibles' = Eligibles - 1 /\ Eligibles \in Nat
    BY <1>0, <1>18, TransitionCount, CountsType DEF RetriedExpire, EligibilityStatus
  <2>6. Held(p) = 0 /\ Held(p)' = 0
    BY <1>0, <1>18 DEF RetriedExpire, Handled, Held
  <2>7. \A q \in Workers \ {p} :
            pc'[q] = pc[q] /\ grant'[q] = grant[q] /\ picked'[q] = picked[q]
    BY <1>0, <1>18 DEF RetriedExpire, Handled, TypeOK
  <2>8. /\ Lost' = Lost + (eligibleCount' - eligibleCount)
                        - (Held(p)' - Held(p)) - (Eligibles' - Eligibles)
        /\ Lost \in Int
    BY <2>5, <2>7, WorkerLost
  <2>9. Lost' = Lost + 1
    BY <1>0, <2>3, <2>5, <2>6, <2>8
  <2> QED  BY <1>1, <2>4, <2>8, <2>9 DEF Exchanges
<1>19. ASSUME NEW p \in Workers, RetriedFree(p)
       PROVE  Exchanges
  <2>1. Freeing' = Freeing \ {p} /\ p \in Freeing
    BY <1>0, <1>19 DEF RetriedFree, Freeing
  <2>2. Cardinality(Freeing') = Cardinality(Freeing) - 1
    BY <1>0, <2>1, FS_RemoveElement
  <2>3. eligibleCount' = eligibleCount - 2 /\ promotedTotal' = promotedTotal /\ UNCHANGED status
    BY <1>0, <1>19 DEF RetriedFree
  <2>4. Unsettled' = Unsettled + 1
    BY <1>0, <1>4, <2>2, <2>3 DEF Unsettled
  <2>5. Eligibles' = Eligibles /\ Eligibles \in Nat
    BY <1>0, <2>3, CountsStay, CountsType
  <2>6. Held(p) = 1 /\ Held(p)' = 0
    BY <1>0, <1>19 DEF RetriedFree, Held
  <2>7. \A q \in Workers \ {p} :
            pc'[q] = pc[q] /\ grant'[q] = grant[q] /\ picked'[q] = picked[q]
    BY <1>0, <1>19 DEF RetriedFree
  <2>8. /\ Lost' = Lost + (eligibleCount' - eligibleCount)
                        - (Held(p)' - Held(p)) - (Eligibles' - Eligibles)
        /\ Lost \in Int
    BY <2>5, <2>7, WorkerLost
  <2>9. Lost' = Lost - 1
    BY <1>0, <2>3, <2>5, <2>6, <2>8
  <2> QED  BY <1>1, <2>4, <2>8, <2>9 DEF Exchanges
<1>20. ASSUME NEW p \in Workers, Abort(p)
       PROVE  Exchanges
  <2>1. UNCHANGED <<status, promotedTotal, eligibleCount>> /\ pc' = [pc EXCEPT ![p] = "idle"]
    BY <1>20 DEF Abort, Return
  <2>2. CASE pc[p] # "free"
    <3>1. Freeing' = Freeing
      BY <1>5, <2>1, <2>2
    <3> QED  BY <1>3, <1>4, <2>1, <3>1
  <2>3. CASE pc[p] = "free"
    <3>1. Freeing' = Freeing \ {p} /\ p \in Freeing
      BY <1>0, <2>1, <2>3 DEF Freeing
    <3>2. Cardinality(Freeing') = Cardinality(Freeing) - 1
      BY <1>0, <3>1, FS_RemoveElement
    <3>3. Unsettled' = Unsettled - 1
      BY <1>0, <1>4, <2>1, <3>2 DEF Unsettled
    <3>4. Eligibles' = Eligibles /\ Eligibles \in Nat
      BY <1>0, <2>1, CountsStay, CountsType
    <3>5. Held(p) = 1 /\ Held(p)' = 0
      BY <1>0, <2>1, <2>3 DEF Held
    <3>6. \A q \in Workers \ {p} :
              pc'[q] = pc[q] /\ grant'[q] = grant[q] /\ picked'[q] = picked[q]
      BY <1>0, <1>20 DEF Abort, Return
    <3>7. /\ Lost' = Lost + (eligibleCount' - eligibleCount)
                          - (Held(p)' - Held(p)) - (Eligibles' - Eligibles)
          /\ Lost \in Int
      BY <3>4, <3>6, WorkerLost
    <3>8. Lost' = Lost + 1
      BY <1>0, <2>1, <3>4, <3>5, <3>7
    <3> QED  BY <1>1, <3>3, <3>7, <3>8 DEF Exchanges
  <2> QED  BY <2>2, <2>3
<1> QED
  BY <1>9, <1>10, <1>11, <1>12, <1>13, <1>14, <1>15, <1>16, <1>17, <1>18, <1>19, <1>20
  DEF Next, Work, Faulty

LEMMA SettledStep == Strong /\ Strong' /\ Settled /\ [Next]_vars => Settled'
<1> SUFFICES ASSUME Strong, Strong', Settled, [Next]_vars  PROVE Settled'
  OBVIOUS
<1>1. IInv /\ IInv' /\ TypeOK
  BY DEF Strong, IInv
<1>2. /\ resends' = resends \/ resends' = resends + 1
      /\ aborts' = aborts \/ aborts' = aborts + 1
  BY <1>1, FaultStep
<1>3. /\ resends \in Nat /\ aborts \in Nat
      /\ resends' \in Nat /\ aborts' \in Nat
  BY <1>1 DEF IInv, TypeOK
<1>4. /\ Lost' \in Int
      /\ \/ Lost' = Lost
         \/ aborts' = aborts + 1 /\ Lost' \in Lost..(Lost + MaxBatchSize)
         \/ resends' = resends + 1 /\ Lost' \in (Lost - MaxBatchSize)..(Lost + MaxBatchSize)
  BY <1>1, BalanceStep DEF Balanced, Drifts
<1>5. /\ Unsettled' \in Int
      /\ Unsettled' = Unsettled \/ Unsettled' + Lost' = Unsettled + Lost
  BY <1>1, ExchangeStep DEF Exchanges
<1>6. Lost \in Int /\ Unsettled \in Int
  BY <1>1, CountsType, HoldingType, SettledTypes DEF IInv, Lost, Unsettled
<1> DEFINE x == Lost + Unsettled
           y == Lost' + Unsettled'
<1>7. x \in Int /\ y \in Int
  BY <1>4, <1>5, <1>6
<1>8. \/ y = x
      \/ aborts' = aborts + 1 /\ y \in x..(x + MaxBatchSize)
      \/ resends' = resends + 1 /\ y \in (x - MaxBatchSize)..(x + MaxBatchSize)
  <2>1. \A l, m, u, w \in Int :
            (w = u \/ w + m = u + l) => (m + w = l + u \/ (m + w) - (l + u) = m - l)
    OBVIOUS
  <2>2. \A l, m, u, w \in Int :
            (m + w) - (l + u) = m - l =>
                /\ m = l => m + w = l + u
                /\ m \in l..(l + MaxBatchSize)
                       => m + w \in (l + u)..((l + u) + MaxBatchSize)
                /\ m \in (l - MaxBatchSize)..(l + MaxBatchSize)
                       => m + w \in ((l + u) - MaxBatchSize)..((l + u) + MaxBatchSize)
    OBVIOUS
  <2>3. y = x \/ y - x = Lost' - Lost
    BY <1>4, <1>5, <1>6, <2>1
  <2>4. CASE y = x
    BY <2>4
  <2>5. CASE y - x = Lost' - Lost
    <3>1. /\ Lost' = Lost => y = x
          /\ Lost' \in Lost..(Lost + MaxBatchSize) => y \in x..(x + MaxBatchSize)
          /\ Lost' \in (Lost - MaxBatchSize)..(Lost + MaxBatchSize)
                 => y \in (x - MaxBatchSize)..(x + MaxBatchSize)
      BY <1>4, <1>5, <1>6, <2>2, <2>5
    <3> QED  BY <1>4, <3>1
  <2> QED  BY <2>3, <2>4, <2>5
<1>9. Close(x, aborts, resends)
  BY DEF Settled
<1> HIDE DEF x, y
<1>10. Close(y, aborts', resends')
  BY <1>2, <1>3, <1>7, <1>8, <1>9, DriftStaysClose
<1> QED  BY <1>10 DEF Settled, y

\* The slots held by workers are the reserved ones and those about to be freed.
LEMMA HeldIsReservedOrFreeing ==
    ASSUME IInv
    PROVE  /\ Outstanding = Reserved + Cardinality(Freeing)
           /\ Reserved \in Nat
<1> DEFINE g == [p \in Workers |-> Held(p)]
           h == [p \in Workers |-> IF At(p, "free") THEN 0 ELSE Held(p)]
           F == { <<p, 1>> : p \in Freeing }
           f == [p \in Freeing |-> <<p, 1>>]
<1>1. g \in Holding
  BY HoldingType DEF IInv
<1>2. h \in Holding
  <2>1. \A p \in Workers : Held(p) \in 0..(MaxBatchSize + 1)
    BY <1>1 DEF Holding
  <2> QED  BY <2>1 DEF Holding
<1>3. Slots(g) = Slots(h) \cup F /\ Slots(h) \cap F = {}
  <2>1. \A p \in Workers : At(p, "free") => Held(p) = 1
    BY DEF At, Held
  <2>2. 1 \in 1..(MaxBatchSize + 1) /\ MaxBatchSize + 1 \in Nat
    OBVIOUS
  <2>3. ASSUME NEW t \in Workers \X (1..(MaxBatchSize + 1))
        PROVE  /\ t \in Slots(g) <=> (t \in Slots(h) \/ t \in F)
               /\ ~(t \in Slots(h) /\ t \in F)
    <3>1. t = <<t[1], t[2]>> /\ t[1] \in Workers /\ t[2] \in 1..(MaxBatchSize + 1)
      OBVIOUS
    <3>2. t \in F <=> (At(t[1], "free") /\ t[2] = 1)
      BY <3>1 DEF Freeing
    <3>3. t \in Slots(g) <=> t[2] <= Held(t[1])
      BY <3>1 DEF Slots
    <3>4. t \in Slots(h) <=> t[2] <= (IF At(t[1], "free") THEN 0 ELSE Held(t[1]))
      BY <3>1 DEF Slots
    <3> QED  BY <2>1, <3>1, <3>2, <3>3, <3>4
  <2>4. /\ Slots(g) \subseteq Workers \X (1..(MaxBatchSize + 1))
        /\ Slots(h) \subseteq Workers \X (1..(MaxBatchSize + 1))
    BY DEF Slots
  <2>5. F \subseteq Workers \X (1..(MaxBatchSize + 1))
    BY <2>2 DEF Freeing
  <2> HIDE DEF F, g, h
  <2> QED  BY <2>3, <2>4, <2>5
<1>4. IsFiniteSet(F) /\ Cardinality(F) = Cardinality(Freeing)
  <2>1. IsFiniteSet(Freeing)
    BY SettledTypes DEF IInv
  <2>2. f \in Injection(Freeing, F)
    BY DEF Injection, IsInjective
  <2>3. f \in Surjection(Freeing, F)
    BY DEF Surjection
  <2>4. ExistsBijection(Freeing, F)
    BY <2>2, <2>3 DEF Bijection, ExistsBijection
  <2> QED  BY <2>1, <2>4, FS_Bijection
<1>5. /\ IsFiniteSet(Slots(h)) /\ Cardinality(Slots(h)) \in Nat
      /\ Cardinality(Freeing) \in Nat
  BY <1>2, SlotsFinite, SettledTypes DEF IInv
<1> HIDE DEF g, h, F
<1>6. Cardinality(Slots(h) \cup F) = Cardinality(Slots(h)) + Cardinality(Freeing)
  <2>1. Cardinality(Slots(h) \cap F) = 0
    BY <1>3, FS_EmptySet
  <2> DEFINE H == Slots(h)
  <2>2. IsFiniteSet(H) /\ IsFiniteSet(F)
    BY <1>4, <1>5
  <2> HIDE DEF H
  <2>3. Cardinality(H \cup F) = Cardinality(H) + Cardinality(F) - Cardinality(H \cap F)
    BY <2>2, FS_Union
  <2>4. /\ Cardinality(Slots(h) \cup F) = Cardinality(Slots(h)) + Cardinality(F) - 0
        /\ Cardinality(Slots(h)) \in Int /\ Cardinality(F) \in Int
    BY <1>4, <1>5, <2>1, <2>3 DEF H
  <2> QED  BY <1>4, <2>4
<1>7. Outstanding = Cardinality(Slots(g)) /\ Reserved = Cardinality(Slots(h))
  BY DEF Outstanding, Reserved, g, h
<1> QED  BY <1>3, <1>5, <1>6, <1>7

\* Promoted_Total is the entries ever let through and the slots that a cycle has reserved,
\* so that a cycle which gives slots back leaves the history true: exactly without
\* faults, and within a batch for each of them.
THEOREM PromotedTotalIsHistory == Spec => []PromotedTotalIsClose
<1>1. Strong /\ Settled => PromotedTotalIsClose
  <2> SUFFICES ASSUME Strong, Settled  PROVE PromotedTotalIsClose
    OBVIOUS
  <2> DEFINE E == WithStatus(status, {"ELIGIBLE"})
             P == WithStatus(status, EligibilityStatus \ {"WAITING"})
             short == MaxBatchSize * resends
             over  == MaxBatchSize * (aborts + resends)
  <2>1. IInv /\ TypeOK
    BY DEF Strong, IInv
  <2>2. Outstanding = Reserved + Cardinality(Freeing) /\ Reserved \in Nat
    BY <2>1, HeldIsReservedOrFreeing
  <2>3. P = E \cup Gone /\ E \cap Gone = {} /\ E \in SUBSET Entries
    BY <2>1 DEF WithStatus, EligibilityStatus, Gone, TypeOK
  <2>4. IsFiniteSet(E) /\ Eligibles = Cardinality(E) /\ Eligibles \in Nat
    BY <2>3, FiniteEntries DEF Eligibles
  <2>5. /\ IsFiniteSet(Gone) /\ Cardinality(Gone) \in Nat
        /\ IsFiniteSet(Freeing) /\ Cardinality(Freeing) \in Nat
        /\ promotedTotal \in Int /\ eligibleCount \in Int
    BY <2>1, SettledTypes
  <2>6. short \in Nat /\ over \in Nat
    BY <2>1 DEF TypeOK
  <2>7. Lost + Unsettled >= -short /\ Lost + Unsettled <= over
    BY DEF Settled, Close
  <2> HIDE DEF E, P, short, over
  <2>8. Cardinality(P) = Eligibles + Cardinality(Gone)
    <3>1. Cardinality(E \cap Gone) = 0
      BY <2>3, FS_EmptySet
    <3>2. Cardinality(E \cup Gone) = Cardinality(E) + Cardinality(Gone) - Cardinality(E \cap Gone)
      BY <2>4, <2>5, FS_Union
    <3> QED  BY <2>3, <2>4, <2>5, <3>1, <3>2
  <2>9. Lost + Unsettled = promotedTotal - (Reserved + Cardinality(P))
    BY <2>2, <2>4, <2>5, <2>8 DEF Lost, Unsettled
  <2>10. /\ promotedTotal <= (Reserved + Cardinality(P)) + over
         /\ promotedTotal >= (Reserved + Cardinality(P)) - short
    BY <2>2, <2>4, <2>5, <2>6, <2>7, <2>8, <2>9
  <2> QED  BY <2>10 DEF PromotedTotalIsClose, P, short, over
<1> QED  BY <1>1, SettledStep, InitSettled, StrongInvariance, PTL DEF Spec

-----------------------------------------------------------------------------
(* The Promoter implements the abstract waiting room *)

LEMMA ProductGrows ==
    ASSUME NEW b \in Nat, NEW m \in Nat, NEW n \in 0..m
    PROVE  b * n <= b * m /\ b * n \in Nat /\ b * m \in Nat
<1>1. m - n \in Nat /\ m = n + (m - n)
  OBVIOUS
<1>2. b * m = b * n + b * (m - n)
  BY <1>1
<1>3. b * n \in Nat /\ b * (m - n) \in Nat /\ b * m \in Nat
  BY <1>1
<1> QED  BY <1>2, <1>3

\* The operators of the abstract specification are those of the concrete one.
LEMMA SameOperators ==
    /\ Abstract!NoEntry = NoEntry
    /\ \A k, from, to : Abstract!CanTransition(status, k, from, to)
                          <=> CanTransition(status, k, from, to)
    /\ Abstract!Occupied = Cardinality(WithStatus(status, Occupying))
<1>1. Abstract!NoEntry = NoEntry
  BY DEF Abstract!NoEntry, NoEntry
<1>2. \A k, from, to : Abstract!CanTransition(status, k, from, to)
                          <=> CanTransition(status, k, from, to)
  BY DEF Abstract!CanTransition, CanTransition, Abstract!IsAllowed, IsAllowed,
     Abstract!AllowedTransitions, AllowedTransitions
<1>3. Abstract!WithStatus(status, Abstract!Occupying) = WithStatus(status, Occupying)
  BY DEF Abstract!WithStatus, Abstract!Occupying, WithStatus, Occupying
<1>4. ASSUME NEW S  PROVE Abstract!Cardinality(S) = Cardinality(S)
  BY DEF Abstract!Cardinality, Cardinality
<1> QED  BY <1>1, <1>2, <1>3, <1>4 DEF Abstract!Occupied

\* One entry is let through: the occupying entries are one more.
LEMMA PromotionCount ==
    ASSUME TypeOK, TypeOK', NEW k \in Entries, Transition(k, "WAITING", "ELIGIBLE")
    PROVE  Cardinality(WithStatus(status', Occupying)) =
               Cardinality(WithStatus(status, Occupying)) + 1
<1>1. Eligibles' = Eligibles + 1 /\ Actives' = Actives
  BY TransitionCount, CountsType DEF EligibilityStatus
<1>2. Cardinality(WithStatus(status, Occupying)) = Eligibles + Actives
  BY OccupyingCount DEF TypeOK, Eligibles, Actives
<1>3. Cardinality(WithStatus(status', Occupying)) = Eligibles' + Actives'
  BY OccupyingCount DEF TypeOK, Eligibles, Actives
<1> QED  BY <1>1, <1>2, <1>3, CountsType

LEMMA AbstractStep ==
    TypeOK /\ TypeOK' /\ NoOverPromotion' /\ [Next]_vars => [Abstract!Next]_status
<1> SUFFICES ASSUME TypeOK, TypeOK', NoOverPromotion', [Next]_vars
             PROVE  Abstract!Next \/ UNCHANGED status
  OBVIOUS
<1> USE DEF faults, entryFaults
<1>1. ASSUME NEW p \in Workers, NEW k \in Entries, PromoteEntry(p, k) \/ RetriedPromote(p, k)
      PROVE  Abstract!Next
  <2>1. Transition(k, "WAITING", "ELIGIBLE")
    BY <1>1 DEF PromoteEntry, RetriedPromote
  <2>2. Cardinality(WithStatus(status', Occupying)) =
            Cardinality(WithStatus(status, Occupying)) + 1
    BY <2>1, PromotionCount
  <2>3. Cardinality(WithStatus(status', Occupying)) <= RoomCapacity /\ RoomCapacity \in Nat
    <3>1. resends' \in 0..MaxResends
      BY DEF TypeOK
    <3>2. /\ MaxBatchSize * resends' <= MaxBatchSize * MaxResends
          /\ MaxBatchSize * resends' \in Nat /\ MaxBatchSize * MaxResends \in Nat
      BY <3>1, ProductGrows
    <3>3. Cardinality(WithStatus(status', Occupying)) <= Capacity + MaxBatchSize * resends'
      BY DEF NoOverPromotion
    <3>4. Cardinality(WithStatus(status', Occupying)) \in Nat
      BY OccupyingCount DEF TypeOK
    <3> QED  BY <3>2, <3>3, <3>4 DEF RoomCapacity
  <2>4. Cardinality(WithStatus(status, Occupying)) \in Nat
    BY OccupyingCount DEF TypeOK
  <2>5. Abstract!Occupied < RoomCapacity
    <3>1. Cardinality(WithStatus(status, Occupying)) < RoomCapacity
      BY <2>2, <2>3, <2>4
    <3> QED  BY <3>1, SameOperators
  <2> QED  BY <2>1, <2>5, SameOperators DEF Transition, Applies, Abstract!Next, Abstract!Promote, Abstract!Move
<1>2. ASSUME NEW p \in Workers, NEW k \in Entries, ExpireEntry(p, k) \/ RetriedExpire(p, k)
      PROVE  Abstract!Next
  BY <1>2, SameOperators DEF ExpireEntry, RetriedExpire, Transition, Applies, Abstract!Next, Abstract!Expire, Abstract!Move
<1>3. ASSUME NEW p \in Workers,
             \/ Abort(p) \/ RetriedCommit(p) \/ RetriedSurplus(p) \/ RetriedFree(p)
             \/ \E k \in Entries : RetriedRelease(p, k)
      PROVE  UNCHANGED status
  BY <1>3 DEF Abort, RetriedCommit, RetriedSurplus, RetriedFree, RetriedRelease
<1>4. ASSUME NEW p \in Workers, NEW k \in Entries,
             PromoteConflict(p, k) \/ ReleaseSlot(p, k) \/ ExpireConflict(p, k)
      PROVE  UNCHANGED status
  BY <1>4 DEF PromoteConflict, ReleaseSlot, ExpireConflict
<1>5. ASSUME NEW p \in Workers,
             \/ Begin(p) \/ ReadCapacity(p) \/ ReadNegative(p)
             \/ CommitReserve(p) \/ CommitConflict(p)
             \/ QueryShard(p) \/ QueryLastShard(p) \/ ReleaseSurplus(p)
             \/ QueryExpired(p) \/ FreeSlot(p)
      PROVE  UNCHANGED status
  BY <1>5 DEF Begin, ReadCapacity, ReadNegative, CommitReserve, CommitConflict,
     QueryShard, QueryLastShard, ReleaseSurplus, QueryExpired, FreeSlot
<1>6. ASSUME NEW k \in Entries, Environment(k)
      PROVE  Abstract!Next \/ UNCHANGED status
  <2>1. CASE Admit(k)
    BY <2>1, SameOperators DEF Admit, Abstract!Next, Abstract!Admit
  <2>2. CASE Activate(k)
    BY <2>2, SameOperators DEF Activate, Transition, Applies, Abstract!Next, Abstract!Activate, Abstract!Move
  <2>3. CASE Complete(k)
    BY <2>3, SameOperators DEF Complete, Transition, Applies, Abstract!Next, Abstract!Complete, Abstract!Move
  <2>4. CASE FollowWaiting(k) \/ FollowExpired(k) \/ Corrupt(k) \/ Reconcile(k)
    BY <2>4 DEF FollowWaiting, FollowExpired, Corrupt, Reconcile
  <2> QED  BY <1>6, <2>1, <2>2, <2>3, <2>4 DEF Environment
<1>7. CASE UNCHANGED vars
  BY <1>7 DEF vars
<1> QED
  BY <1>1, <1>2, <1>3, <1>4, <1>5, <1>6, <1>7 DEF Next, Work, Faulty

\* Every step of the overlapping invocations, resent writes included, moves at most one
\* entry along a permitted edge, and lets it through only into a free slot of a room
\* that is larger than Downstream_Capacity by a batch per resent write.
THEOREM PromoterImplementsWaitingRoom == Spec => ImplementsWaitingRoom
<1>1. Init => Abstract!Init
  BY SameOperators DEF Init, Abstract!Init
<1> QED
  BY <1>1, AbstractStep, TypeCorrect, NeverOverPromoted, PTL
  DEF Spec, ImplementsWaitingRoom, Abstract!Spec
=============================================================================
