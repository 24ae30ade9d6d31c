------------------------------ MODULE Capacity ------------------------------
(***************************************************************************)
(* CapacityCounter (waiting_room/capacity.py), the in-memory model of the  *)
(* CAPACITY item that the promoter's tests explore: snapshots are read,    *)
(* reservations planned against them and committed by a compare-and-set on *)
(* Version, by several callers whose calls interleave, while slots are     *)
(* activated and released.  Version is a number here, as in the code; the  *)
(* module Promoter keeps only whose snapshot is current, which             *)
(* SnapshotIsLive justifies.                                               *)
(*                                                                         *)
(* A call that raises ValueError changes nothing and is not a step.        *)
(***************************************************************************)
EXTENDS Integers

CONSTANTS
    Callers,            \* those who read, plan and commit
    DownstreamCapacity, \* _downstream_capacity
    MaxRequest,         \* bound: the slots one call asks for, moves or frees
    MaxVersion          \* bound: how often the counter is written

ASSUME CapacityAssumption == DownstreamCapacity \in Nat \ {0}
ASSUME BoundsAssumption   == MaxRequest \in Nat /\ MaxVersion \in Nat

VARIABLES
    eligibleCount,  \* _eligible_count
    activeCount,    \* _active_count
    promotedTotal,  \* _promoted_total
    version,        \* _version
    snapshot,       \* the CapacityState each caller holds
    plan            \* the ReservationPlan each caller holds

counter == <<eligibleCount, activeCount, promotedTotal, version>>
vars    == <<counter, snapshot, plan>>

-----------------------------------------------------------------------------
CapacityPool == {"ELIGIBLE", "ACTIVE"}

\* Of a CapacityState, what plan_reserve looks at.
CapacityState == [eligible : Nat, active : Nat, version : Nat]

ReservationPlan == [requested : Nat, granted : Nat, expectedVersion : Nat]

\* A caller holds none: a version the counter never has.
NoState == [eligible |-> 0, active |-> 0, version |-> -1]
NoPlan  == [requested |-> -1, granted |-> 0, expectedVersion |-> -1]

\* read().
Live == [eligible |-> eligibleCount, active |-> activeCount, version |-> version]

Occupied(state) == state.eligible + state.active

Remaining(state) ==
    IF Occupied(state) < DownstreamCapacity THEN DownstreamCapacity - Occupied(state) ELSE 0

\* Mutant: the request is not clamped to what remains.
GrantAll(requested, state) == requested

\* granted = min(requested, snapshot.remaining).
Grant(requested, state) ==
    IF requested < Remaining(state) THEN requested ELSE Remaining(state)

\* The counter is written: the counts move by e, a and t.
Write(e, a, t) ==
    /\ version < MaxVersion
    /\ eligibleCount' = eligibleCount + e
    /\ activeCount'   = activeCount + a
    /\ promotedTotal' = promotedTotal + t
    /\ version'       = version + 1

-----------------------------------------------------------------------------
(* Reservation *)

Read(c) ==
    /\ snapshot' = [snapshot EXCEPT ![c] = Live]
    /\ UNCHANGED <<counter, plan>>

\* plan_reserve, against the snapshot the caller holds.
PlanReserve(c, requested) ==
    /\ snapshot[c] # NoState
    /\ plan' = [plan EXCEPT ![c] = [requested       |-> requested,
                                    granted         |-> Grant(requested, snapshot[c]),
                                    expectedVersion |-> snapshot[c].version]]
    /\ snapshot' = [snapshot EXCEPT ![c] = NoState]
    /\ UNCHANGED counter

\* Mutant: the plan is applied whatever the counter has become.
CommitsAlways(p) == TRUE

\* The compare-and-set of try_commit_reserve and its defensive re-check.
Commits(p) ==
    /\ p.expectedVersion = version
    /\ Occupied(Live) + p.granted <= DownstreamCapacity

\* try_commit_reserve returns True; a grant of zero still bumps Version.
TryCommitReserve(c) ==
    /\ plan[c] # NoPlan /\ Commits(plan[c])
    /\ Write(plan[c].granted, 0, plan[c].granted)
    /\ plan' = [plan EXCEPT ![c] = NoPlan]
    /\ UNCHANGED snapshot

\* try_commit_reserve returns False: the caller reads and plans again.
CommitFails(c) ==
    /\ plan[c] # NoPlan /\ ~Commits(plan[c])
    /\ plan' = [plan EXCEPT ![c] = NoPlan]
    /\ UNCHANGED <<counter, snapshot>>

\* reserve: plan and commit at once.
Reserve(requested) ==
    LET granted == Grant(requested, Live)
    IN  /\ Commits([granted |-> granted, expectedVersion |-> version])
        /\ Write(granted, 0, granted)
        /\ UNCHANGED <<snapshot, plan>>

-----------------------------------------------------------------------------
(* Transitions that move or free slots *)

\* Mutant: a transfer that leaves the occupied slots alone does not bump Version.
ActivateSilently(n) ==
    /\ n <= eligibleCount
    /\ eligibleCount' = eligibleCount - n
    /\ activeCount'   = activeCount + n
    /\ UNCHANGED <<promotedTotal, version, snapshot, plan>>

Activate(n) ==
    /\ n <= eligibleCount
    /\ Write(-n, n, 0)
    /\ UNCHANGED <<snapshot, plan>>

\* Mutant: the pool is not looked at before it is reduced.
ReleaseUnchecked(n, pool) ==
    /\ IF pool = "ACTIVE" THEN Write(0, -n, 0) ELSE Write(-n, 0, 0)
    /\ UNCHANGED <<snapshot, plan>>

\* release, and with it complete (of ACTIVE) and expire (of ELIGIBLE).
Release(n, pool) ==
    /\ IF pool = "ACTIVE" THEN n <= activeCount   /\ Write(0, -n, 0)
                          ELSE n <= eligibleCount /\ Write(-n, 0, 0)
    /\ UNCHANGED <<snapshot, plan>>

-----------------------------------------------------------------------------
\* __init__ refuses counts that are negative or exceed the capacity together.
Init ==
    /\ eligibleCount \in 0..DownstreamCapacity
    /\ activeCount \in 0..(DownstreamCapacity - eligibleCount)
    /\ promotedTotal = 0 /\ version = 0
    /\ snapshot = [c \in Callers |-> NoState]
    /\ plan     = [c \in Callers |-> NoPlan]

Next ==
    \/ \E c \in Callers : \/ Read(c) \/ TryCommitReserve(c) \/ CommitFails(c)
                          \/ \E n \in 0..MaxRequest : PlanReserve(c, n)
    \/ \E n \in 0..MaxRequest :
          \/ Reserve(n) \/ Activate(n)
          \/ \E pool \in CapacityPool : Release(n, pool)

Spec == Init /\ [][Next]_vars

-----------------------------------------------------------------------------
(* Properties *)

\* The counts never become negative, and a caller holds states and plans of a version
\* the counter has had.
TypeOK ==
    /\ eligibleCount \in Nat /\ activeCount \in Nat /\ promotedTotal \in Nat
    /\ version \in Nat
    /\ snapshot \in [Callers -> CapacityState \cup {NoState}]
    /\ plan \in [Callers -> ReservationPlan \cup {NoPlan}]

\* invariant_holds: no interleaving of reservations over-promotes (capacity.py:124-130
\* and :289-295).
InvariantHolds == eligibleCount + activeCount <= DownstreamCapacity

\* A snapshot with the counter's present version shows its present counts: no write
\* goes without a new version and no version comes back (capacity.py:102, "bumped on
\* every mutation").  So a compare-and-set can tell whether anything has changed.
SnapshotIsLive == \A c \in Callers : snapshot[c].version = version => snapshot[c] = Live

\* What capacity.py:303-306 says of try_commit_reserve: if the version matched, the
\* clamped grant fits, so the defensive re-check never refuses.
GrantFits ==
    \A c \in Callers :
        plan[c].expectedVersion = version =>
            Occupied(Live) + plan[c].granted <= DownstreamCapacity

\* Reading, planning and committing is one atomic reservation: what a committed plan is
\* granted is what the counter had to give at the commit, though it was worked out from
\* an earlier snapshot, and a commit fails only if the counter was written in between
\* (capacity.py:285-306, "exactly the optimistic retry the design prescribes").
Atomic == INSTANCE AtomicCounter WITH
    eligible    <- eligibleCount,
    active      <- activeCount,
    promoted    <- promotedTotal,
    asked       <- [c \in Callers |-> plan[c].requested],
    looked      <- { c \in Callers : snapshot[c].version = version },
    undisturbed <- { c \in Callers : plan[c].expectedVersion = version }
ImplementsAtomicCounter == Atomic!Spec
=============================================================================
