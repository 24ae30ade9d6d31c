--------------------------- MODULE CapacityProofs ---------------------------
(***************************************************************************)
(* Proofs about Capacity for every number of callers, every capacity and   *)
(* every bound.                                                            *)
(***************************************************************************)
EXTENDS Capacity, TLAPS

USE CapacityAssumption, BoundsAssumption

-----------------------------------------------------------------------------
(* The clamp *)

\* A grant against a state that respects the capacity respects it too.
LEMMA GrantIsClamped ==
    ASSUME NEW s \in CapacityState, Occupied(s) <= DownstreamCapacity, NEW n \in Nat
    PROVE  Grant(n, s) \in Nat /\ Occupied(s) + Grant(n, s) <= DownstreamCapacity
BY DEF Grant, Remaining, Occupied, CapacityState

\* A grant against any state is a number of slots.
LEMMA GrantIsNat ==
    ASSUME NEW s \in CapacityState, NEW n \in Nat
    PROVE  Grant(n, s) \in Nat
BY DEF Grant, Remaining, Occupied, CapacityState

-----------------------------------------------------------------------------
(* The inductive invariant *)

\* No caller holds a state or a plan of a version that is yet to come, so the next
\* version is one that nobody holds.
VersionsPast ==
    \A c \in Callers : snapshot[c].version <= version /\ plan[c].expectedVersion <= version

\* A plan of the present version grants what the counter would grant at present.
PlanIsCurrent ==
    \A c \in Callers :
        plan[c].expectedVersion = version =>
            plan[c].granted = Grant(plan[c].requested, Live)

IInv == TypeOK /\ InvariantHolds /\ VersionsPast /\ SnapshotIsLive /\ GrantFits /\ PlanIsCurrent

LEMMA LiveIsState == ASSUME TypeOK  PROVE Live \in CapacityState
BY DEF TypeOK, Live, CapacityState

LEMMA InitInv == Init => IInv
<1> SUFFICES ASSUME Init  PROVE IInv
  OBVIOUS
<1>1. NoState \in CapacityState \cup {NoState} /\ NoState.version = -1
  BY DEF NoState
<1>2. NoPlan \in ReservationPlan \cup {NoPlan} /\ NoPlan.expectedVersion = -1
  BY DEF NoPlan
<1>3. TypeOK /\ InvariantHolds
  BY <1>1, <1>2 DEF Init, TypeOK, InvariantHolds
<1>4. VersionsPast /\ SnapshotIsLive /\ GrantFits /\ PlanIsCurrent
  BY <1>1, <1>2 DEF Init, VersionsPast, SnapshotIsLive, GrantFits, PlanIsCurrent
<1> QED  BY <1>3, <1>4 DEF IInv

\* What a caller holds has a version that is an integer.
LEMMA VersionsAreInt ==
    ASSUME TypeOK, NEW c \in Callers
    PROVE  snapshot[c].version \in Int /\ plan[c].expectedVersion \in Int
<1>1. snapshot[c] \in CapacityState \cup {NoState}
  BY DEF TypeOK
<1>2. plan[c] \in ReservationPlan \cup {NoPlan}
  BY DEF TypeOK
<1>3. snapshot[c].version \in Int
  BY <1>1 DEF CapacityState, NoState
<1>4. plan[c].expectedVersion \in Int
  BY <1>2 DEF ReservationPlan, NoPlan
<1> QED  BY <1>3, <1>4

\* A write leaves behind whatever a caller holds: with the new version every state
\* and every plan is out of date.
LEMMA WriteOutdates ==
    ASSUME IInv, NEW e \in Int, NEW a \in Int, NEW t \in Nat, Write(e, a, t),
           eligibleCount + e \in Nat, activeCount + a \in Nat,
           eligibleCount + e + activeCount + a <= DownstreamCapacity,
           snapshot' = snapshot,
           plan' \in [Callers -> ReservationPlan \cup {NoPlan}],
           \A c \in Callers : plan'[c].expectedVersion \in {plan[c].expectedVersion, -1}
    PROVE  IInv'
<1>1. /\ eligibleCount' = eligibleCount + e /\ activeCount' = activeCount + a
      /\ promotedTotal' = promotedTotal + t /\ version' = version + 1
  BY DEF Write
<1>2. TypeOK /\ VersionsPast
  BY DEF IInv
<1>3. TypeOK' /\ InvariantHolds'
  BY <1>1, <1>2 DEF TypeOK, InvariantHolds
<1>4. ASSUME NEW c \in Callers
      PROVE  snapshot'[c].version <= version /\ plan'[c].expectedVersion <= version
  BY <1>2, VersionsAreInt DEF TypeOK, VersionsPast
<1>5. ASSUME NEW c \in Callers
      PROVE  snapshot'[c].version \in Int /\ plan'[c].expectedVersion \in Int
  BY <1>2, VersionsAreInt
<1>6. version \in Nat
  BY <1>2 DEF TypeOK
<1>7. \A c \in Callers : /\ snapshot'[c].version < version'
                         /\ plan'[c].expectedVersion < version'
  BY <1>1, <1>4, <1>5, <1>6
<1>8. \A c \in Callers : /\ snapshot'[c].version <= version'
                         /\ plan'[c].expectedVersion <= version'
                         /\ snapshot'[c].version # version'
                         /\ plan'[c].expectedVersion # version'
  BY <1>1, <1>5, <1>6, <1>7
<1>9. VersionsPast' /\ SnapshotIsLive' /\ GrantFits' /\ PlanIsCurrent'
  BY <1>8 DEF VersionsPast, SnapshotIsLive, GrantFits, PlanIsCurrent
<1> QED  BY <1>3, <1>9 DEF IInv

-----------------------------------------------------------------------------
(* One lemma for each kind of step *)

LEMMA ReadStep == ASSUME IInv, NEW c \in Callers, Read(c)  PROVE IInv'
<1>1. TypeOK /\ Live \in CapacityState
  BY LiveIsState DEF IInv
<1>2. snapshot' = [snapshot EXCEPT ![c] = Live] /\ UNCHANGED <<counter, plan>>
  BY DEF Read
<1>3. /\ eligibleCount' = eligibleCount /\ activeCount' = activeCount
      /\ promotedTotal' = promotedTotal /\ version' = version /\ plan' = plan
  BY <1>2 DEF counter
<1>4. Live' = Live /\ Live.version = version
  BY <1>3 DEF Live
<1>5. \A d \in Callers : snapshot'[d] = IF d = c THEN Live ELSE snapshot[d]
  BY <1>1, <1>2 DEF TypeOK
<1>6. TypeOK' /\ InvariantHolds'
  BY <1>1, <1>2, <1>3 DEF IInv, TypeOK, InvariantHolds
<1>7. VersionsPast'
  BY <1>1, <1>3, <1>4, <1>5 DEF IInv, TypeOK, VersionsPast
<1>8. SnapshotIsLive'
  BY <1>3, <1>4, <1>5 DEF IInv, SnapshotIsLive
<1>9. GrantFits' /\ PlanIsCurrent'
  BY <1>3, <1>4 DEF IInv, GrantFits, PlanIsCurrent, Grant, Remaining, Occupied
<1> QED  BY <1>6, <1>7, <1>8, <1>9 DEF IInv

\* The heart of the argument: a plan with the present version was made against the
\* present counts.
LEMMA PlanStep ==
    ASSUME IInv, NEW c \in Callers, NEW n \in Nat, PlanReserve(c, n)
    PROVE  IInv'
<1> DEFINE s == snapshot[c]
           new == [requested |-> n, granted |-> Grant(n, s), expectedVersion |-> s.version]
<1>1. TypeOK
  BY DEF IInv
<1>2. /\ s # NoState /\ plan' = [plan EXCEPT ![c] = new]
      /\ snapshot' = [snapshot EXCEPT ![c] = NoState] /\ UNCHANGED counter
  BY DEF PlanReserve
<1>3. /\ eligibleCount' = eligibleCount /\ activeCount' = activeCount
      /\ promotedTotal' = promotedTotal /\ version' = version /\ Live' = Live
  BY <1>2 DEF counter, Live
<1>4. s \in CapacityState
  BY <1>1, <1>2 DEF TypeOK
<1>5. Grant(n, s) \in Nat /\ s.version \in Nat
  BY <1>4, GrantIsNat DEF CapacityState
<1>6. /\ new \in ReservationPlan /\ new.requested = n
      /\ new.granted = Grant(n, s) /\ new.expectedVersion = s.version
  BY <1>5 DEF ReservationPlan
<1>7. s.version = version => Occupied(Live) + Grant(n, s) <= DownstreamCapacity
  <2> SUFFICES ASSUME s.version = version
               PROVE  Occupied(Live) + Grant(n, s) <= DownstreamCapacity
    OBVIOUS
  <2>1. s = Live
    BY DEF IInv, SnapshotIsLive
  <2>2. Occupied(s) <= DownstreamCapacity
    BY <2>1 DEF IInv, InvariantHolds, Occupied, Live
  <2> HIDE DEF s
  <2> QED  BY <1>4, <2>1, <2>2, GrantIsClamped
<1>8. NoState.version = -1
  BY DEF NoState
<1> HIDE DEF new
<1>9. /\ \A d \in Callers : plan'[d] = IF d = c THEN new ELSE plan[d]
      /\ \A d \in Callers : snapshot'[d] = IF d = c THEN NoState ELSE snapshot[d]
  BY <1>1, <1>2 DEF TypeOK
<1>10. TypeOK' /\ InvariantHolds'
  BY <1>1, <1>2, <1>3, <1>6 DEF IInv, TypeOK, InvariantHolds
<1>11. VersionsPast'
  BY <1>1, <1>3, <1>6, <1>8, <1>9 DEF IInv, TypeOK, VersionsPast
<1>12. SnapshotIsLive'
  BY <1>1, <1>3, <1>8, <1>9 DEF IInv, TypeOK, SnapshotIsLive
<1>13. GrantFits'
  BY <1>3, <1>6, <1>7, <1>9 DEF IInv, GrantFits
<1>14. PlanIsCurrent'
  <2>1. ASSUME NEW d \in Callers, plan'[d].expectedVersion = version'
        PROVE  plan'[d].granted = Grant(plan'[d].requested, Live)
    <3>1. CASE d = c
      <4>1. plan'[d] = new /\ s.version = version
        BY <1>3, <1>6, <1>9, <2>1, <3>1
      <4>2. s = Live
        BY <4>1 DEF IInv, SnapshotIsLive
      <4> HIDE DEF s
      <4> QED  BY <1>6, <4>1, <4>2
    <3>2. CASE d # c
      BY <1>3, <1>9, <2>1, <3>2 DEF IInv, PlanIsCurrent
    <3> QED  BY <3>1, <3>2
  <2> QED  BY <1>3, <2>1 DEF PlanIsCurrent, Grant, Remaining, Occupied
<1> QED  BY <1>10, <1>11, <1>12, <1>13, <1>14 DEF IInv

LEMMA CommitStep ==
    ASSUME IInv, NEW c \in Callers, TryCommitReserve(c)
    PROVE  IInv'
<1>1. TypeOK
  BY DEF IInv
<1>2. plan[c] \in ReservationPlan
  BY <1>1 DEF TryCommitReserve, TypeOK
<1> DEFINE g == plan[c].granted
<1>3. g \in Nat
  BY <1>2 DEF ReservationPlan
<1>4. eligibleCount + activeCount + g <= DownstreamCapacity
  BY <1>1, <1>3 DEF TryCommitReserve, Commits, Occupied, Live, TypeOK
<1>5. /\ Write(g, 0, g) /\ snapshot' = snapshot
      /\ plan' = [plan EXCEPT ![c] = NoPlan]
  BY DEF TryCommitReserve
<1> HIDE DEF g
<1>6. plan' \in [Callers -> ReservationPlan \cup {NoPlan}]
  BY <1>1, <1>5 DEF TypeOK
<1>7. NoPlan.expectedVersion = -1
  BY DEF NoPlan
<1>8. \A d \in Callers : plan'[d].expectedVersion \in {plan[d].expectedVersion, -1}
  BY <1>1, <1>5, <1>7 DEF TypeOK
<1>9. /\ eligibleCount + g \in Nat /\ activeCount + 0 \in Nat
      /\ eligibleCount + g + activeCount + 0 <= DownstreamCapacity
      /\ g \in Int /\ 0 \in Int
  BY <1>1, <1>3, <1>4 DEF TypeOK
<1> QED  BY <1>3, <1>5, <1>6, <1>8, <1>9, WriteOutdates

LEMMA FailStep ==
    ASSUME IInv, NEW c \in Callers, CommitFails(c)
    PROVE  IInv'
<1>1. /\ eligibleCount' = eligibleCount /\ activeCount' = activeCount
      /\ promotedTotal' = promotedTotal /\ version' = version /\ Live' = Live
      /\ snapshot' = snapshot /\ plan' = [plan EXCEPT ![c] = NoPlan]
  BY DEF CommitFails, counter, Live
<1>2. TypeOK
  BY DEF IInv
<1>3. NoPlan.expectedVersion = -1
  BY DEF NoPlan
<1>4. \A d \in Callers : plan'[d] = IF d = c THEN NoPlan ELSE plan[d]
  BY <1>1, <1>2 DEF TypeOK
<1>5. TypeOK' /\ InvariantHolds' /\ SnapshotIsLive'
  BY <1>1, <1>2 DEF IInv, TypeOK, InvariantHolds, SnapshotIsLive
<1>6. VersionsPast' /\ GrantFits' /\ PlanIsCurrent'
  BY <1>1, <1>2, <1>3, <1>4
  DEF IInv, TypeOK, VersionsPast, GrantFits, PlanIsCurrent, Grant, Remaining, Occupied
<1> QED  BY <1>5, <1>6 DEF IInv

LEMMA ReserveStep ==
    ASSUME IInv, NEW n \in Nat, Reserve(n)
    PROVE  IInv'
<1>1. TypeOK /\ Live \in CapacityState
  BY LiveIsState DEF IInv
<1> DEFINE g == Grant(n, Live)
<1>2. Write(g, 0, g) /\ snapshot' = snapshot /\ plan' = plan
  BY DEF Reserve
<1>3. Occupied(Live) <= DownstreamCapacity
  BY DEF IInv, InvariantHolds, Occupied, Live
<1>4. g \in Nat /\ Occupied(Live) + g <= DownstreamCapacity
  BY <1>1, <1>3, GrantIsClamped
<1>5. Occupied(Live) = eligibleCount + activeCount
  BY DEF Occupied, Live
<1> HIDE DEF g
<1>6. /\ eligibleCount + g \in Nat /\ activeCount + 0 \in Nat
      /\ eligibleCount + g + activeCount + 0 <= DownstreamCapacity
      /\ g \in Int /\ 0 \in Int
  BY <1>1, <1>4, <1>5 DEF TypeOK
<1>7. plan' \in [Callers -> ReservationPlan \cup {NoPlan}]
  BY <1>1, <1>2 DEF TypeOK
<1> QED  BY <1>2, <1>4, <1>6, <1>7, WriteOutdates

LEMMA ActivateStep ==
    ASSUME IInv, NEW n \in Nat, Activate(n)
    PROVE  IInv'
<1>1. TypeOK /\ InvariantHolds
  BY DEF IInv
<1>2. Write(-n, n, 0) /\ snapshot' = snapshot /\ plan' = plan /\ n <= eligibleCount
  BY DEF Activate
<1>3. /\ eligibleCount + (-n) \in Nat /\ activeCount + n \in Nat
      /\ eligibleCount + (-n) + activeCount + n <= DownstreamCapacity
      /\ -n \in Int /\ 0 \in Nat
  BY <1>1, <1>2 DEF TypeOK, InvariantHolds
<1>4. plan' \in [Callers -> ReservationPlan \cup {NoPlan}]
  BY <1>1, <1>2 DEF TypeOK
<1> QED  BY <1>2, <1>3, <1>4, WriteOutdates

LEMMA ReleaseStep ==
    ASSUME IInv, NEW n \in Nat, NEW pool \in CapacityPool, Release(n, pool)
    PROVE  IInv'
<1>1. TypeOK /\ InvariantHolds
  BY DEF IInv
<1>2. snapshot' = snapshot /\ plan' = plan
  BY DEF Release
<1>3. plan' \in [Callers -> ReservationPlan \cup {NoPlan}]
  BY <1>1, <1>2 DEF TypeOK
<1>4. -n \in Int /\ 0 \in Int /\ 0 \in Nat
  OBVIOUS
<1>5. CASE pool = "ACTIVE"
  <2>1. Write(0, -n, 0) /\ n <= activeCount
    BY <1>5 DEF Release
  <2>2. /\ eligibleCount + 0 \in Nat /\ activeCount + (-n) \in Nat
        /\ eligibleCount + 0 + activeCount + (-n) <= DownstreamCapacity
    BY <1>1, <2>1 DEF TypeOK, InvariantHolds
  <2> QED  BY <1>2, <1>3, <1>4, <2>1, <2>2, WriteOutdates
<1>6. CASE pool # "ACTIVE"
  <2>1. Write(-n, 0, 0) /\ n <= eligibleCount
    BY <1>6 DEF Release
  <2>2. /\ eligibleCount + (-n) \in Nat /\ activeCount + 0 \in Nat
        /\ eligibleCount + (-n) + activeCount + 0 <= DownstreamCapacity
    BY <1>1, <2>1 DEF TypeOK, InvariantHolds
  <2> QED  BY <1>2, <1>3, <1>4, <2>1, <2>2, WriteOutdates
<1> QED  BY <1>5, <1>6

LEMMA NextInv == IInv /\ [Next]_vars => IInv'
<1> SUFFICES ASSUME IInv, [Next]_vars  PROVE IInv'
  OBVIOUS
<1>1. \A n \in 0..MaxRequest : n \in Nat
  OBVIOUS
<1>2. ASSUME NEW c \in Callers, Read(c)  PROVE IInv'
  BY <1>2, ReadStep
<1>3. ASSUME NEW c \in Callers, TryCommitReserve(c)  PROVE IInv'
  BY <1>3, CommitStep
<1>4. ASSUME NEW c \in Callers, CommitFails(c)  PROVE IInv'
  BY <1>4, FailStep
<1>5. ASSUME NEW c \in Callers, NEW n \in 0..MaxRequest, PlanReserve(c, n)  PROVE IInv'
  BY <1>1, <1>5, PlanStep
<1>6. ASSUME NEW n \in 0..MaxRequest, Reserve(n)  PROVE IInv'
  BY <1>1, <1>6, ReserveStep
<1>7. ASSUME NEW n \in 0..MaxRequest, Activate(n)  PROVE IInv'
  BY <1>1, <1>7, ActivateStep
<1>8. ASSUME NEW n \in 0..MaxRequest, NEW pool \in CapacityPool, Release(n, pool)
      PROVE  IInv'
  BY <1>1, <1>8, ReleaseStep
<1>9. ASSUME UNCHANGED vars  PROVE IInv'
  BY <1>9 DEF vars, counter, IInv, TypeOK, InvariantHolds, VersionsPast, SnapshotIsLive,
              GrantFits, PlanIsCurrent, Grant, Remaining, Live, Occupied
<1> QED
  BY <1>2, <1>3, <1>4, <1>5, <1>6, <1>7, <1>8, <1>9 DEF Next

LEMMA Invariance == Spec => []IInv
BY InitInv, NextInv, PTL DEF Spec

-----------------------------------------------------------------------------
(* The theorems *)

\* Counts, states and plans keep their types; no count becomes negative.
THEOREM CounterTypeCorrect == Spec => []TypeOK
<1>1. IInv => TypeOK
  BY DEF IInv
<1> QED  BY <1>1, Invariance, PTL

\* No interleaving of reads, plans, commits, activations and releases exceeds the
\* capacity (capacity.py, invariant_holds).
THEOREM NoOverReservation == Spec => []InvariantHolds
<1>1. IInv => InvariantHolds
  BY DEF IInv
<1> QED  BY <1>1, Invariance, PTL

\* Version identifies the state of the counter: there is no ABA.
THEOREM VersionIdentifiesState == Spec => []SnapshotIsLive
<1>1. IInv => SnapshotIsLive
  BY DEF IInv
<1> QED  BY <1>1, Invariance, PTL

\* The defensive re-check of try_commit_reserve never refuses a planned reservation.
THEOREM RecheckNeverRefuses == Spec => []GrantFits
<1>1. IInv => GrantFits
  BY DEF IInv
<1> QED  BY <1>1, Invariance, PTL

-----------------------------------------------------------------------------
(* The compare-and-set implements an atomic reservation *)

\* What the abstract counter's variables stand for.
Asked       == [c \in Callers |-> plan[c].requested]
Looked      == { c \in Callers : snapshot[c].version = version }
Undisturbed == { c \in Callers : plan[c].expectedVersion = version }

\* With room to spare or none, what a grant is clamped to is what is left.
LEMMA GrantIsWhatIsLeft ==
    ASSUME TypeOK, InvariantHolds, NEW n \in Nat
    PROVE  Grant(n, Live) = IF n < Atomic!Left THEN n ELSE Atomic!Left
BY DEF TypeOK, InvariantHolds, Grant, Remaining, Occupied, Live, Atomic!Left

\* A write of the counter disturbs everyone who has looked or asked.
LEMMA WriteMoves ==
    ASSUME IInv, TypeOK', NEW e, NEW a, NEW t, Write(e, a, t), snapshot' = snapshot,
           \A c \in Callers : plan'[c].expectedVersion \in {plan[c].expectedVersion, -1}
    PROVE  /\ eligibleCount' = eligibleCount + e /\ eligibleCount' >= 0
           /\ activeCount' = activeCount + a /\ activeCount' >= 0
           /\ promotedTotal' = promotedTotal + t
           /\ Looked' = {} /\ Undisturbed' = {}
<1>1. /\ eligibleCount' = eligibleCount + e /\ activeCount' = activeCount + a
      /\ promotedTotal' = promotedTotal + t /\ version' = version + 1
  BY DEF Write
<1>2. eligibleCount' >= 0 /\ activeCount' >= 0
  BY DEF TypeOK
<1>3. version \in Nat
  BY DEF IInv, TypeOK
<1>4. ASSUME NEW c \in Callers
      PROVE  snapshot'[c].version # version' /\ plan'[c].expectedVersion # version'
  <2>1. /\ snapshot[c].version \in Int /\ plan[c].expectedVersion \in Int
        /\ snapshot[c].version <= version /\ plan[c].expectedVersion <= version
    BY VersionsAreInt DEF IInv, VersionsPast
  <2>2. plan'[c].expectedVersion \in {plan[c].expectedVersion, -1}
    OBVIOUS
  <2> QED  BY <1>1, <1>3, <2>1, <2>2
<1>5. Looked' = {} /\ Undisturbed' = {}
  BY <1>4 DEF Looked, Undisturbed
<1> QED  BY <1>1, <1>2, <1>5

\* A caller's plan is none exactly when it asks for nothing.
LEMMA AskedIsPlanned ==
    ASSUME TypeOK, NEW c \in Callers
    PROVE  /\ Asked[c] = plan[c].requested
           /\ plan[c] = NoPlan <=> Asked[c] = -1
           /\ plan[c] # NoPlan => Asked[c] \in Nat
           /\ plan[c] = NoPlan => plan[c].expectedVersion = -1
<1>1. plan[c] \in ReservationPlan \cup {NoPlan}
  BY DEF TypeOK
<1>2. Asked[c] = plan[c].requested
  BY DEF Asked
<1>3. NoPlan.requested = -1 /\ NoPlan.expectedVersion = -1
  BY DEF NoPlan
<1>4. plan[c] \in ReservationPlan => plan[c].requested \in Nat
  BY DEF ReservationPlan
<1> QED  BY <1>1, <1>2, <1>3, <1>4

\* A caller that drops its plan asks for nothing, and the others for what they did.
LEMMA DropPlan ==
    ASSUME TypeOK, NEW c \in Callers, plan' = [plan EXCEPT ![c] = NoPlan]
    PROVE  /\ Asked' = [Asked EXCEPT ![c] = -1]
           /\ \A d \in Callers : plan'[d].expectedVersion \in {plan[d].expectedVersion, -1}
<1>1. NoPlan.requested = -1 /\ NoPlan.expectedVersion = -1
  BY DEF NoPlan
<1>2. \A d \in Callers : plan'[d] = IF d = c THEN NoPlan ELSE plan[d]
  BY DEF TypeOK
<1>3. \A d \in Callers : plan'[d].requested = IF d = c THEN -1 ELSE plan[d].requested
  BY <1>1, <1>2
<1>4. Asked' = [Asked EXCEPT ![c] = -1]
  BY <1>3 DEF Asked
<1>5. \A d \in Callers : plan'[d].expectedVersion \in {plan[d].expectedVersion, -1}
  BY <1>1, <1>2
<1> QED  BY <1>4, <1>5

LEMMA AtomicStep == IInv /\ IInv' /\ [Next]_vars => [Atomic!Next]_(Atomic!vars)
<1> SUFFICES ASSUME IInv, IInv', [Next]_vars
             PROVE  Atomic!Next \/ UNCHANGED Atomic!vars
  OBVIOUS
<1> USE DEF Atomic!None
<1>0. /\ TypeOK /\ TypeOK' /\ InvariantHolds /\ VersionsPast /\ SnapshotIsLive /\ PlanIsCurrent
      /\ version \in Nat
  BY DEF IInv, TypeOK
<1>1. ASSUME NEW c \in Callers, Read(c)  PROVE Atomic!Look(c)
  <2>1. snapshot' = [snapshot EXCEPT ![c] = Live] /\ UNCHANGED <<counter, plan>>
    BY <1>1 DEF Read
  <2>2. Live.version = version
    BY DEF Live
  <2>3. \A d \in Callers : snapshot'[d] = IF d = c THEN Live ELSE snapshot[d]
    BY <1>0, <2>1 DEF TypeOK
  <2>4. Looked' = Looked \cup {c}
    BY <2>1, <2>2, <2>3 DEF Looked, counter
  <2>5. UNCHANGED <<eligibleCount, activeCount, promotedTotal, Asked, Undisturbed>>
    BY <2>1 DEF counter, Asked, Undisturbed
  <2> QED  BY <2>4, <2>5 DEF Atomic!Look, Atomic!count, Asked, Looked, Undisturbed
<1>2. ASSUME NEW c \in Callers, NEW n \in 0..MaxRequest, PlanReserve(c, n)
      PROVE  Atomic!Ask(c, n)
  <2> DEFINE s   == snapshot[c]
             new == [requested |-> n, granted |-> Grant(n, s), expectedVersion |-> s.version]
  <2>1. /\ plan' = [plan EXCEPT ![c] = new]
        /\ snapshot' = [snapshot EXCEPT ![c] = NoState] /\ UNCHANGED counter
    BY <1>2 DEF PlanReserve
  <2>2. NoState.version = -1 /\ new.requested = n /\ new.expectedVersion = s.version
    BY DEF NoState
  <2> HIDE DEF new
  <2>3. /\ \A d \in Callers : plan'[d] = IF d = c THEN new ELSE plan[d]
        /\ \A d \in Callers : snapshot'[d] = IF d = c THEN NoState ELSE snapshot[d]
    BY <1>0, <2>1 DEF TypeOK
  <2>4. version' = version /\ UNCHANGED <<eligibleCount, activeCount, promotedTotal>>
    BY <2>1 DEF counter
  <2>5. Asked' = [Asked EXCEPT ![c] = n]
    BY <2>2, <2>3 DEF Asked
  <2>6. Looked' = Looked \ {c}
    BY <1>0, <2>2, <2>3, <2>4 DEF Looked
  <2>7. Undisturbed' = IF c \in Looked THEN Undisturbed \cup {c} ELSE Undisturbed \ {c}
    <3>1. c \in Looked <=> s.version = version
      BY DEF Looked
    <3>2. \A d \in Callers : d \in Undisturbed' <=>
              (IF d = c THEN c \in Looked ELSE d \in Undisturbed)
      BY <2>2, <2>3, <2>4, <3>1 DEF Undisturbed
    <3>3. Undisturbed' \subseteq Callers /\ Undisturbed \subseteq Callers
      BY DEF Undisturbed
    <3> QED  BY <3>2, <3>3
  <2> QED  BY <2>4, <2>5, <2>6, <2>7 DEF Atomic!Ask, Atomic!count, Asked, Looked, Undisturbed
<1>3. ASSUME NEW c \in Callers, TryCommitReserve(c)  PROVE Atomic!Grant(c)
  <2> DEFINE g == plan[c].granted
  <2>1. /\ plan[c] # NoPlan /\ plan[c].expectedVersion = version
        /\ Write(g, 0, g) /\ plan' = [plan EXCEPT ![c] = NoPlan] /\ snapshot' = snapshot
    BY <1>3 DEF TryCommitReserve, Commits
  <2>2. c \in Undisturbed
    BY <2>1 DEF Undisturbed
  <2>3. Asked[c] \in Nat /\ Asked[c] = plan[c].requested
    BY <1>0, <2>1, AskedIsPlanned
  <2>4. g = Grant(Asked[c], Live)
    BY <1>0, <2>1, <2>3 DEF PlanIsCurrent
  <2>5. g = IF Asked[c] < Atomic!Left THEN Asked[c] ELSE Atomic!Left
    BY <1>0, <2>3, <2>4, GrantIsWhatIsLeft
  <2>6. /\ Asked' = [Asked EXCEPT ![c] = -1]
        /\ \A d \in Callers : plan'[d].expectedVersion \in {plan[d].expectedVersion, -1}
    BY <1>0, <2>1, DropPlan
  <2> HIDE DEF g
  <2>7. Atomic!Move(g, 0, g)
    BY <1>0, <2>1, <2>6, WriteMoves DEF Atomic!Move, Looked, Undisturbed
  <2>8. Atomic!Take(Asked[c])
    BY <2>5, <2>7 DEF Atomic!Take, Atomic!Move
  <2> QED  BY <2>2, <2>6, <2>8 DEF Atomic!Grant, Asked, Looked, Undisturbed
<1>4. ASSUME NEW c \in Callers, CommitFails(c)  PROVE Atomic!Refuse(c)
  <2>1. /\ plan[c] # NoPlan /\ ~Commits(plan[c])
        /\ plan' = [plan EXCEPT ![c] = NoPlan] /\ UNCHANGED <<counter, snapshot>>
    BY <1>4 DEF CommitFails
  <2>2. plan[c].expectedVersion # version
    BY <2>1 DEF IInv, GrantFits, Commits
  <2>3. Asked[c] # -1 /\ c \notin Undisturbed
    BY <1>0, <2>1, <2>2, AskedIsPlanned DEF Undisturbed
  <2>4. Asked' = [Asked EXCEPT ![c] = -1]
    BY <1>0, <2>1, DropPlan
  <2>5. NoPlan.expectedVersion = -1
    BY DEF NoPlan
  <2>6. \A d \in Callers : plan'[d] = IF d = c THEN NoPlan ELSE plan[d]
    BY <1>0, <2>1 DEF TypeOK
  <2>7. Undisturbed' = Undisturbed
    BY <1>0, <2>1, <2>2, <2>5, <2>6 DEF Undisturbed, counter
  <2>8. UNCHANGED <<eligibleCount, activeCount, promotedTotal, Looked>>
    BY <2>1 DEF counter, Looked
  <2> QED  BY <2>3, <2>4, <2>7, <2>8 DEF Atomic!Refuse, Atomic!count, Asked, Looked, Undisturbed
<1>5. ASSUME NEW n \in 0..MaxRequest, Reserve(n)  PROVE Atomic!Reserve(n)
  <2> DEFINE g == Grant(n, Live)
  <2>1. Write(g, 0, g) /\ snapshot' = snapshot /\ plan' = plan
    BY <1>5 DEF Reserve
  <2>2. g = IF n < Atomic!Left THEN n ELSE Atomic!Left
    BY <1>0, GrantIsWhatIsLeft
  <2> HIDE DEF g
  <2>3. Atomic!Move(g, 0, g)
    BY <1>0, <2>1, WriteMoves DEF Atomic!Move, Looked, Undisturbed
  <2>4. Atomic!Take(n)
    BY <2>2, <2>3 DEF Atomic!Take, Atomic!Move
  <2> QED  BY <2>1, <2>4 DEF Atomic!Reserve
<1>6. ASSUME NEW n \in 0..MaxRequest, Activate(n)  PROVE Atomic!Activate(n)
  <2>1. Write(-n, n, 0) /\ snapshot' = snapshot /\ plan' = plan
    BY <1>6 DEF Activate
  <2> QED  BY <1>0, <2>1, WriteMoves DEF Atomic!Activate, Atomic!Move, Looked, Undisturbed
<1>7. ASSUME NEW n \in 0..MaxRequest, NEW pool \in CapacityPool, Release(n, pool)
      PROVE  Atomic!Complete(n) \/ Atomic!Expire(n)
  <2>1. snapshot' = snapshot /\ plan' = plan
    BY <1>7 DEF Release
  <2>2. CASE pool = "ACTIVE"
    <3>1. Write(0, -n, 0)
      BY <1>7, <2>2 DEF Release
    <3> QED  BY <1>0, <2>1, <3>1, WriteMoves DEF Atomic!Complete, Atomic!Move, Looked, Undisturbed
  <2>3. CASE pool # "ACTIVE"
    <3>1. Write(-n, 0, 0)
      BY <1>7, <2>3 DEF Release
    <3> QED  BY <1>0, <2>1, <3>1, WriteMoves DEF Atomic!Expire, Atomic!Move, Looked, Undisturbed
  <2> QED  BY <2>2, <2>3
<1>8. ASSUME UNCHANGED vars  PROVE UNCHANGED Atomic!vars
  BY <1>8 DEF vars, counter, Atomic!vars, Atomic!count
<1> QED  BY <1>1, <1>2, <1>3, <1>4, <1>5, <1>6, <1>7, <1>8 DEF Next, Atomic!Next

LEMMA AtomicInit == Init => Atomic!Init
<1> SUFFICES ASSUME Init  PROVE Atomic!Init
  OBVIOUS
<1>1. /\ eligibleCount \in Nat /\ activeCount \in Nat /\ promotedTotal = 0
      /\ DownstreamCapacity - (eligibleCount + activeCount) >= 0
  BY DEF Init
<1>2. \A c \in Callers : /\ snapshot[c].version = -1 /\ plan[c].expectedVersion = -1
                         /\ plan[c].requested = -1
  BY DEF Init, NoState, NoPlan
<1>3. version = 0
  BY DEF Init
<1> QED  BY <1>1, <1>2, <1>3 DEF Atomic!Init, Atomic!None, Atomic!Left

\* A reservation that reads, plans and commits in three calls, with others in between,
\* is one atomic reservation at the instant of its commit, and fails only if it was
\* disturbed: for every number of callers and every capacity.
THEOREM CapacityImplementsCounter == Spec => ImplementsAtomicCounter
BY AtomicInit, AtomicStep, Invariance, PTL DEF Spec, ImplementsAtomicCounter, Atomic!Spec
=============================================================================
