------------------------------ MODULE Promoter ------------------------------
(***************************************************************************)
(* The Promoter (waiting_room/promoter.py) run by overlapping invocations  *)
(* of promote_handler (waiting_room/handlers.py) against one DynamoDB      *)
(* table.  Each invocation is a worker that runs one promotion cycle and   *)
(* then one expiry sweep; every call to DynamoDB is one atomic step, and   *)
(* the steps of the workers, of the admission writer, of the downstream    *)
(* system and of the two secondary indexes interleave freely.              *)
(*                                                                         *)
(* Version of the CAPACITY item is only ever compared with the value a     *)
(* worker read, and every write of the item increases it.  The set fresh   *)
(* holds the workers whose last read of Version is still current, which is *)
(* all that the compare-and-set can see of it, and keeps the state finite. *)
(* A local variable of a function that has returned is reset, for the same *)
(* reason.                                                                 *)
(***************************************************************************)
EXTENDS Lifecycle, Integers, FiniteSets

CONSTANTS
    Entries,        \* the ordering keys entries are written under: numbers, in key order
    Workers,        \* invocations of promote_handler that may overlap
    ShardCount,     \* CONFIG.Shard_Count
    ShardOf,        \* the write shard of each entry (assign_shard of its fan)
    Capacity,       \* CAPACITY.Downstream_Capacity
    MaxBatchSize,   \* CONFIG.Max_Batch_Size
    ReserveRetries, \* Promoter.reserve_retries
    MaxAborts,      \* bound: invocations that end by an error, a crash or a timeout
    MaxResends,     \* bound: writes the SDK sends again after they were applied
    MaxCorruptions  \* bound: entries whose Eligibility_Status an outside hand spoils

ASSUME EntriesAssumption    == Entries \subseteq Nat /\ IsFiniteSet(Entries)
ASSUME WorkersAssumption    == IsFiniteSet(Workers)
ASSUME ShardsAssumption     == /\ ShardCount \in Nat \ {0}
                               /\ ShardOf \in [Entries -> 0..(ShardCount - 1)]
ASSUME CapacityAssumption   == Capacity \in Nat /\ MaxBatchSize \in Nat \ {0}
ASSUME RetriesAssumption    == ReserveRetries \in Nat
ASSUME FaultsAssumption     == MaxAborts \in Nat /\ MaxResends \in Nat /\ MaxCorruptions \in Nat

VARIABLES
    \* --- the base table ---
    status,         \* Eligibility_Status of the entry at each key, or NoEntry: of a
                    \* corrupt entry, the last that was one of the enumeration
    eligibleCount,  \* CAPACITY.Eligible_Count
    activeCount,    \* CAPACITY.Active_Count
    promotedTotal,  \* CAPACITY.Promoted_Total
    fresh,          \* the workers whose last read of CAPACITY.Version is current
    \* --- the eventually consistent secondary indexes ---
    waitingIndex,   \* the entries WaitingIndex holds
    expiredIndex,   \* the entries EligibilityIndex holds as ELIGIBLE and whose
                    \* Promotion_Time has fallen behind the cutoff
    \* --- the workers ---
    pc,             \* where each worker is
    tries,          \* reservation attempts left in _reserve
    grant,          \* slots planned, then slots reserved, by this cycle
    shard,          \* the next shard _select_next_waiting queries
    picked,         \* the entries selected and not yet handled
    \* --- the faults so far ---
    aborts,
    resends,
    corrupt,        \* the entries whose Eligibility_Status is none of the enumeration
    flagged         \* those with needs_reconciliation, and without Waiting_Shard

capacityItem == <<eligibleCount, activeCount, promotedTotal, fresh>>
indexes      == <<waitingIndex, expiredIndex>>
locals       == <<tries, grant, shard, picked>>
entryFaults  == <<corrupt, flagged>>
faults       == <<aborts, resends, entryFaults>>
vars         == <<status, capacityItem, indexes, pc, locals, faults>>

-----------------------------------------------------------------------------
(* Helpers *)

Steps == {"idle", "read", "commit", "query", "surplus", "promote", "release",
          "sweep", "expire", "free"}

\* heads[:limit] of a list sorted by ordering_key_sort_key.
First(limit, S) == { k \in S : Cardinality({ j \in S : j < k }) < limit }

Minimum(a, b) == IF a < b THEN a ELSE b

\* Mutant: the reservation forgets the fans who are active.
BatchSizeWithoutActive(eligible, active) ==
    LET remaining == Capacity - eligible
    IN  IF remaining < 0 THEN 0 ELSE Minimum(MaxBatchSize, remaining)

\* compute_batch_size(max_batch_size, max_batch_size, capacity, eligible, active):
\* _reserve does not know how many entries wait, so it passes the cap twice.
BatchSize(eligible, active) ==
    LET remaining == Capacity - (eligible + active)
    IN  IF remaining < 0 THEN 0 ELSE Minimum(MaxBatchSize, remaining)

\* Mutant: a release or an activation does not increase Version.
AddWithoutVersion(e, a, t) ==
    /\ eligibleCount' = eligibleCount + e
    /\ activeCount'   = activeCount + a
    /\ promotedTotal' = promotedTotal + t
    /\ UNCHANGED fresh

\* An UpdateItem of CAPACITY: ADD Eligible_Count e, Active_Count a,
\* Promoted_Total t, Version 1.
AddToCapacity(e, a, t) ==
    /\ eligibleCount' = eligibleCount + e
    /\ activeCount'   = activeCount + a
    /\ promotedTotal' = promotedTotal + t
    /\ fresh' = {}

\* Mutant: the update is not conditional on the status.
TransitionUnconditional(k, from, to) ==
    /\ IsAllowed(from, to) /\ k \notin corrupt
    /\ status[k] # NoEntry
    /\ status' = [status EXCEPT ![k] = to]

\* The condition of apply_transition's UpdateItem, which no corrupt status meets.
Applies(k, from, to) == k \notin corrupt /\ CanTransition(status, k, from, to)

\* That update, when its condition holds.
Transition(k, from, to) ==
    /\ Applies(k, from, to)
    /\ status' = [status EXCEPT ![k] = to]

At(p, step) == pc[p] = step

GoTo(p, step) == pc' = [pc EXCEPT ![p] = step]

\* After handling entry k: the rest of the selection, or else the next phase.
Handled(p, k, step, next) ==
    /\ picked' = [picked EXCEPT ![p] = @ \ {k}]
    /\ GoTo(p, IF picked[p] \subseteq {k} THEN next ELSE step)

\* An exception leaves every function of the invocation, and its locals are gone.
Return(p) ==
    /\ GoTo(p, "idle")
    /\ tries'  = [tries EXCEPT ![p] = 0]
    /\ grant'  = [grant EXCEPT ![p] = 0]
    /\ shard'  = [shard EXCEPT ![p] = 0]
    /\ picked' = [picked EXCEPT ![p] = {}]

\* A write was applied, its response was lost and it is sent a second time.
Resend ==
    /\ resends < MaxResends
    /\ resends' = resends + 1
    /\ UNCHANGED <<aborts, entryFaults>>

\* The reserved slots a worker has neither turned into an ELIGIBLE entry nor
\* given back, and the slot of an entry it has expired and not yet freed.
Held(p) ==
    CASE pc[p] \in {"query", "surplus"}   -> grant[p]
      [] pc[p] \in {"promote", "release"} -> Cardinality(picked[p])
      [] pc[p] = "free"                   -> 1
      [] OTHER                            -> 0

\* One pair for every slot that the workers hold, n[p] of them for worker p.
Slots(n) == { t \in Workers \X (1..(MaxBatchSize + 1)) : t[2] <= n[t[1]] }

Outstanding == Cardinality(Slots([p \in Workers |-> Held(p)]))

-----------------------------------------------------------------------------
(* promote_handler starts; _reserve: read, plan, compare-and-set *)

Begin(p) ==
    /\ At(p, "idle")
    /\ GoTo(p, "read")
    /\ tries' = [tries EXCEPT ![p] = IF ReserveRetries < 1 THEN 1 ELSE ReserveRetries]
    /\ UNCHANGED <<status, capacityItem, indexes, grant, shard, picked, faults>>

\* Mutant: a cycle that is granted nothing returns before the sweep.
EndCycleWithoutSweep(p) ==
    /\ GoTo(p, "idle")
    /\ tries' = [tries EXCEPT ![p] = 0]

\* _reserve returns 0, so the cycle promotes nobody; the sweep follows.
EndCycle(p) ==
    /\ GoTo(p, "sweep")
    /\ tries' = [tries EXCEPT ![p] = 0]

\* _read_capacity, then compute_batch_size; no room ends the cycle.
ReadCapacity(p) ==
    LET n == BatchSize(eligibleCount, activeCount)
    IN  /\ At(p, "read")
        /\ eligibleCount >= 0 /\ activeCount >= 0
        /\ IF n = 0
             THEN /\ EndCycle(p)
                  /\ UNCHANGED <<fresh, grant>>
             ELSE /\ GoTo(p, "commit")
                  /\ fresh' = fresh \cup {p}
                  /\ grant' = [grant EXCEPT ![p] = n]
                  /\ UNCHANGED tries
        /\ UNCHANGED <<status, eligibleCount, activeCount, promotedTotal, indexes,
                       shard, picked, faults>>

\* compute_batch_size raises ValueError on a negative count; promote_handler
\* logs and re-raises, so the sweep does not run either.
ReadNegative(p) ==
    /\ At(p, "read")
    /\ eligibleCount < 0 \/ activeCount < 0
    /\ Return(p)
    /\ UNCHANGED <<status, capacityItem, indexes, faults>>

\* Mutant: the reservation is written whatever Version is.
CommitUnconditionally(p) ==
    /\ At(p, "commit")
    /\ AddToCapacity(grant[p], 0, grant[p])
    /\ GoTo(p, "query")
    /\ tries' = [tries EXCEPT ![p] = 0]
    /\ UNCHANGED <<status, indexes, grant, shard, picked, faults>>

\* _commit_reserve: Version is unchanged.
CommitReserve(p) ==
    /\ At(p, "commit") /\ p \in fresh
    /\ AddToCapacity(grant[p], 0, grant[p])
    /\ GoTo(p, "query")
    /\ tries' = [tries EXCEPT ![p] = 0]
    /\ UNCHANGED <<status, indexes, grant, shard, picked, faults>>

\* The attempt is used up: re-read, or grant 0 after the last one.
NextAttempt(p) ==
    /\ tries' = [tries EXCEPT ![p] = @ - 1]
    /\ grant' = [grant EXCEPT ![p] = 0]
    /\ GoTo(p, IF tries[p] > 1 THEN "read" ELSE "sweep")

CommitConflict(p) ==
    /\ At(p, "commit") /\ p \notin fresh
    /\ NextAttempt(p)
    /\ UNCHANGED <<status, capacityItem, indexes, shard, picked, faults>>

-----------------------------------------------------------------------------
(* _select_next_waiting: one WaitingIndex query per shard, merged at the end; *)
(* then _release_reservation of what the grant exceeds the selection by       *)

\* What the index has under waiting_shard(event_id, s).
Partition(s) == { k \in waitingIndex : ShardOf[k] = s }

\* The selection so far with the head of the next shard's partition.
WithNextHead(p) ==
    picked[p] \cup First(grant[p], Partition(shard[p]))

QueryShard(p) ==
    /\ At(p, "query") /\ shard[p] + 1 < ShardCount
    /\ picked' = [picked EXCEPT ![p] = WithNextHead(p)]
    /\ shard'  = [shard EXCEPT ![p] = @ + 1]
    /\ UNCHANGED <<status, capacityItem, indexes, pc, tries, grant, faults>>

QueryLastShard(p) ==
    LET selected == First(grant[p], WithNextHead(p))
    IN  /\ At(p, "query") /\ shard[p] + 1 = ShardCount
        /\ picked' = [picked EXCEPT ![p] = selected]
        /\ shard'  = [shard EXCEPT ![p] = 0]
        /\ IF Cardinality(selected) < grant[p]
             THEN GoTo(p, "surplus") /\ UNCHANGED grant
             ELSE GoTo(p, "promote") /\ grant' = [grant EXCEPT ![p] = 0]
        /\ UNCHANGED <<status, capacityItem, indexes, tries, faults>>

\* Mutant: the surplus of the grant is not given back.
KeepSurplus(p) ==
    /\ At(p, "surplus")
    /\ GoTo(p, IF picked[p] = {} THEN "sweep" ELSE "promote")
    /\ grant' = [grant EXCEPT ![p] = 0]
    /\ UNCHANGED <<status, capacityItem, indexes, tries, shard, picked, faults>>

ReleaseSurplus(p) ==
    LET unused == grant[p] - Cardinality(picked[p])
    IN  /\ At(p, "surplus")
        /\ AddToCapacity(-unused, 0, -unused)
        /\ GoTo(p, IF picked[p] = {} THEN "sweep" ELSE "promote")
        /\ grant' = [grant EXCEPT ![p] = 0]
        /\ UNCHANGED <<status, indexes, tries, shard, picked, faults>>

-----------------------------------------------------------------------------
(* The promotion loop: one conditional transition per selected entry, in     *)
(* ordering-key order, and a release for each conflict                       *)

IsNext(p, k) == k \in picked[p] /\ \A j \in picked[p] : k <= j

PromoteEntry(p, k) ==
    /\ At(p, "promote") /\ IsNext(p, k)
    /\ Transition(k, "WAITING", "ELIGIBLE")
    /\ Handled(p, k, "promote", "sweep")
    /\ UNCHANGED <<capacityItem, indexes, tries, grant, shard, faults>>

PromoteConflict(p, k) ==
    /\ At(p, "promote") /\ IsNext(p, k)
    /\ ~Applies(k, "WAITING", "ELIGIBLE")
    /\ GoTo(p, "release")
    /\ UNCHANGED <<status, capacityItem, indexes, locals, faults>>

\* Mutant: the caller releases the slot although the rollback already did.
ReleaseSlotTwice(p, k) ==
    /\ At(p, "release") /\ IsNext(p, k)
    /\ AddToCapacity(-2, 0, -2)
    /\ Handled(p, k, "promote", "sweep")
    /\ UNCHANGED <<status, indexes, tries, grant, shard, faults>>

\* Mutant: the release treats Promoted_Total as monotonic.
ReleaseSlotOnly(p, k) ==
    /\ At(p, "release") /\ IsNext(p, k)
    /\ AddToCapacity(-1, 0, 0)
    /\ Handled(p, k, "promote", "sweep")
    /\ UNCHANGED <<status, indexes, tries, grant, shard, faults>>

\* The rollback callback of the conflict: _release_reservation(event_id, 1).
ReleaseSlot(p, k) ==
    /\ At(p, "release") /\ IsNext(p, k)
    /\ AddToCapacity(-1, 0, -1)
    /\ Handled(p, k, "promote", "sweep")
    /\ UNCHANGED <<status, indexes, tries, grant, shard, faults>>

-----------------------------------------------------------------------------
(* expire_sweep, which promote_handler runs after every cycle that returns   *)

QueryExpired(p) ==
    /\ At(p, "sweep")
    /\ picked' = [picked EXCEPT ![p] = expiredIndex]
    /\ GoTo(p, IF expiredIndex = {} THEN "idle" ELSE "expire")
    /\ UNCHANGED <<status, capacityItem, indexes, tries, grant, shard, faults>>

ExpireEntry(p, k) ==
    /\ At(p, "expire") /\ k \in picked[p]
    /\ Transition(k, "ELIGIBLE", "EXPIRED")
    /\ picked' = [picked EXCEPT ![p] = @ \ {k}]
    /\ GoTo(p, "free")
    /\ UNCHANGED <<capacityItem, indexes, tries, grant, shard, faults>>

ExpireConflict(p, k) ==
    /\ At(p, "expire") /\ k \in picked[p]
    /\ ~Applies(k, "ELIGIBLE", "EXPIRED")
    /\ Handled(p, k, "expire", "idle")
    /\ UNCHANGED <<status, capacityItem, indexes, tries, grant, shard, faults>>

\* _release_eligible_slot: Promoted_Total stays.
FreeSlot(p) ==
    /\ At(p, "free")
    /\ AddToCapacity(-1, 0, 0)
    /\ GoTo(p, IF picked[p] = {} THEN "idle" ELSE "expire")
    /\ UNCHANGED <<status, indexes, locals, faults>>

-----------------------------------------------------------------------------
(* Faults *)

\* Any other ClientError (apply_transition, _commit_reserve: raise), a crash or
\* the Lambda timeout ends the invocation where it stands: nothing cleans up.
Abort(p) ==
    /\ ~At(p, "idle")
    /\ aborts < MaxAborts
    /\ aborts' = aborts + 1
    /\ Return(p)
    /\ fresh' = fresh \ {p}
    /\ UNCHANGED <<status, eligibleCount, activeCount, promotedTotal, indexes,
                   resends, entryFaults>>

\* DynamoDB applies a write, its response is lost, and the SDK sends it again:
\* a conditional write then reports that its condition failed ...
RetriedCommit(p) ==
    /\ At(p, "commit") /\ p \in fresh
    /\ Resend
    /\ AddToCapacity(grant[p], 0, grant[p])
    /\ NextAttempt(p)
    /\ UNCHANGED <<status, indexes, shard, picked>>

RetriedPromote(p, k) ==
    /\ At(p, "promote") /\ IsNext(p, k)
    /\ Resend
    /\ Transition(k, "WAITING", "ELIGIBLE")
    /\ GoTo(p, "release")
    /\ UNCHANGED <<capacityItem, indexes, locals>>

RetriedExpire(p, k) ==
    /\ At(p, "expire") /\ k \in picked[p]
    /\ Resend
    /\ Transition(k, "ELIGIBLE", "EXPIRED")
    /\ Handled(p, k, "expire", "idle")
    /\ UNCHANGED <<capacityItem, indexes, tries, grant, shard>>

\* ... and an unconditional ADD is applied twice.
RetriedSurplus(p) ==
    LET unused == grant[p] - Cardinality(picked[p])
    IN  /\ At(p, "surplus")
        /\ Resend
        /\ AddToCapacity(-2 * unused, 0, -2 * unused)
        /\ GoTo(p, IF picked[p] = {} THEN "sweep" ELSE "promote")
        /\ grant' = [grant EXCEPT ![p] = 0]
        /\ UNCHANGED <<status, indexes, tries, shard, picked>>

RetriedRelease(p, k) ==
    /\ At(p, "release") /\ IsNext(p, k)
    /\ Resend
    /\ AddToCapacity(-2, 0, -2)
    /\ Handled(p, k, "promote", "sweep")
    /\ UNCHANGED <<status, indexes, tries, grant, shard>>

RetriedFree(p) ==
    /\ At(p, "free")
    /\ Resend
    /\ AddToCapacity(-2, 0, 0)
    /\ GoTo(p, IF picked[p] = {} THEN "idle" ELSE "expire")
    /\ UNCHANGED <<status, indexes, locals>>

-----------------------------------------------------------------------------
(* The rest of the system *)

\* The Admission_Writer's transaction commits a new WAITING entry.  Writers
\* draw their keys before they write, so keys need not appear in order.
Admit(k) ==
    /\ status[k] = NoEntry
    /\ status' = [status EXCEPT ![k] = "WAITING"]
    /\ UNCHANGED <<capacityItem, indexes, pc, locals, faults>>

\* The downstream system lets an eligible fan in, and later reports completion;
\* each moves the entry and the counters as CapacityCounter does.
Activate(k) ==
    /\ eligibleCount >= 1
    /\ Transition(k, "ELIGIBLE", "ACTIVE")
    /\ AddToCapacity(-1, 1, 0)
    /\ UNCHANGED <<indexes, pc, locals, faults>>

Complete(k) ==
    /\ activeCount >= 1
    /\ Transition(k, "ACTIVE", "COMPLETED")
    /\ AddToCapacity(0, -1, 0)
    /\ UNCHANGED <<indexes, pc, locals, faults>>

\* Mutant: a flagged entry keeps its Waiting_Shard.
KeepsWaitingShard(k) == status[k] = "WAITING"

\* The indexes follow the base table: WaitingIndex holds what has a
\* Waiting_Shard, corrupt or not; an ELIGIBLE entry comes under the cutoff as time
\* passes and leaves the ELIGIBLE partition when its Elig_PK changes.
HasWaitingShard(k) == status[k] = "WAITING" /\ k \notin flagged

FollowWaiting(k) ==
    /\ (k \in waitingIndex) # HasWaitingShard(k)
    /\ waitingIndex' = IF HasWaitingShard(k) THEN waitingIndex \cup {k}
                                             ELSE waitingIndex \ {k}
    /\ UNCHANGED <<status, capacityItem, expiredIndex, pc, locals, faults>>

FollowExpired(k) ==
    /\ (k \in expiredIndex) # (status[k] = "ELIGIBLE")
    /\ expiredIndex' = IF status[k] = "ELIGIBLE" THEN expiredIndex \cup {k}
                                                 ELSE expiredIndex \ {k}
    /\ UNCHANGED <<status, capacityItem, waitingIndex, pc, locals, faults>>

\* Something that is not this program writes a status that is none of the five.
Corrupt(k) ==
    /\ status[k] # NoEntry /\ k \notin corrupt
    /\ Cardinality(corrupt) < MaxCorruptions
    /\ corrupt' = corrupt \cup {k}
    /\ UNCHANGED <<status, capacityItem, indexes, pc, locals, aborts, resends, flagged>>

\* reconcile_if_corrupt, called by an operator: nothing in the program does.  The entry
\* is flagged (_flag_for_reconciliation) if its status is not one of the five.
Reconcile(k) ==
    /\ k \in corrupt \ flagged
    /\ flagged' = flagged \cup {k}
    /\ UNCHANGED <<status, capacityItem, indexes, pc, locals, aborts, resends, corrupt>>

-----------------------------------------------------------------------------
Init ==
    /\ status = [k \in Entries |-> NoEntry]
    /\ eligibleCount = 0 /\ activeCount = 0 /\ promotedTotal = 0
    /\ fresh = {}
    /\ waitingIndex = {} /\ expiredIndex = {}
    /\ pc     = [p \in Workers |-> "idle"]
    /\ tries  = [p \in Workers |-> 0]
    /\ grant  = [p \in Workers |-> 0]
    /\ shard  = [p \in Workers |-> 0]
    /\ picked = [p \in Workers |-> {}]
    /\ aborts = 0 /\ resends = 0 /\ corrupt = {} /\ flagged = {}

\* One step of the running invocation of p.
Work(p) ==
    \/ ReadCapacity(p) \/ ReadNegative(p)
    \/ CommitReserve(p) \/ CommitConflict(p)
    \/ QueryShard(p) \/ QueryLastShard(p) \/ ReleaseSurplus(p)
    \/ QueryExpired(p) \/ FreeSlot(p)
    \/ \E k \in Entries :
          \/ PromoteEntry(p, k) \/ PromoteConflict(p, k) \/ ReleaseSlot(p, k)
          \/ ExpireEntry(p, k) \/ ExpireConflict(p, k)

Faulty(p) ==
    \/ Abort(p) \/ RetriedCommit(p) \/ RetriedSurplus(p) \/ RetriedFree(p)
    \/ \E k \in Entries : \/ RetriedPromote(p, k) \/ RetriedRelease(p, k)
                          \/ RetriedExpire(p, k)

Environment(k) ==
    \/ Admit(k) \/ Activate(k) \/ Complete(k)
    \/ FollowWaiting(k) \/ FollowExpired(k)
    \/ Corrupt(k) \/ Reconcile(k)

Next == \/ \E p \in Workers : Begin(p) \/ Work(p) \/ Faulty(p)
        \/ \E k \in Entries : Environment(k)

Spec == Init /\ [][Next]_vars

\* EventBridge keeps invoking promote_handler, an invocation runs on, the
\* indexes catch up and time passes, and (an assumption on the downstream
\* system) an active fan completes.  Nobody has to arrive or to activate.
Fairness ==
    /\ \A p \in Workers : WF_vars(Begin(p)) /\ WF_vars(Work(p))
    /\ \A k \in Entries : /\ WF_vars(FollowWaiting(k)) /\ WF_vars(FollowExpired(k))
                          /\ WF_vars(Complete(k))

FairSpec == Spec /\ Fairness

-----------------------------------------------------------------------------
(* Properties *)

\* The variables hold values of their types: the counters are integers, a worker
\* holds at most a batch, and only a worker about to compare has a fresh Version.
TypeOK ==
    /\ status \in [Entries -> EntryState]
    /\ eligibleCount \in Int /\ activeCount \in Int /\ promotedTotal \in Int
    /\ fresh \in SUBSET Workers
    /\ waitingIndex \in SUBSET Entries /\ expiredIndex \in SUBSET Entries
    /\ pc     \in [Workers -> Steps]
    /\ tries  \in [Workers -> Nat]
    /\ grant  \in [Workers -> 0..MaxBatchSize]
    /\ shard  \in [Workers -> 0..(ShardCount - 1)]
    /\ picked \in [Workers -> SUBSET Entries]
    /\ aborts \in 0..MaxAborts /\ resends \in 0..MaxResends
    /\ corrupt \in SUBSET Entries /\ flagged \in SUBSET Entries

\* The CAPACITY item never grants more slots than the downstream system has,
\* whatever the interleaving of reservations, releases and activations and
\* whatever fault strikes them (promoter.py _reserve, design.md Property 11).
CapacityBound == eligibleCount + activeCount <= Capacity

\* The inductive strengthening of CapacityBound, part by part.  A plan whose Version is
\* still current is for the batch that would be worked out at present: the three calls of
\* _reserve act as one.
PlanIsCurrent ==
    \A p \in fresh : At(p, "commit") => grant[p] = BatchSize(eligibleCount, activeCount)

\* A worker in _reserve has an attempt left.
AttemptLeft == \A p \in Workers : pc[p] \in {"read", "commit"} => tries[p] >= 1

\* No selection is larger than a batch, nor than the grant it was made for.
SelectionFits ==
    \A p \in Workers :
        /\ pc[p] \in {"surplus", "promote", "release"} =>
               Cardinality(picked[p]) <= MaxBatchSize
        /\ At(p, "surplus") => Cardinality(picked[p]) <= grant[p]

\* An invocation never stands where it has nothing to do: it reserves and selects for a
\* slot at least, gives back one at least, and is in a loop only with an entry to handle.
LoopsHaveWork ==
    \A p \in Workers :
        /\ pc[p] \in {"commit", "query"} => grant[p] >= 1
        /\ At(p, "surplus") => Cardinality(picked[p]) < grant[p]
        /\ pc[p] \in {"promote", "release", "expire"} => picked[p] # {}

IInv == /\ TypeOK /\ CapacityBound /\ PlanIsCurrent
        /\ AttemptLeft /\ SelectionFits /\ LoopsHaveWork

\* Every entry let through and every slot a running worker still holds is counted in
\* Eligible_Count, but for a batch, at most, for each write the SDK resends: an aborted
\* invocation may lose a slot and never invents one (promoter.py _release_reservation,
\* _release_eligible_slot).  Active_Count is the active entries, whatever fault strikes.
SlotsCovered ==
    /\ Cardinality(WithStatus(status, {"ELIGIBLE"})) + Outstanding
           <= eligibleCount + MaxBatchSize * resends
    /\ Cardinality(WithStatus(status, {"ACTIVE"})) = activeCount

\* An aborted invocation or a resent write loses a batch of slots at most, and nothing
\* else loses one: without faults Eligible_Count is exactly the eligible entries and
\* the slots held by workers between two of their writes.
LeakIsBounded ==
    eligibleCount <= Cardinality(WithStatus(status, {"ELIGIBLE"})) + Outstanding
                         + MaxBatchSize * (aborts + resends)

\* The fans let through exceed the downstream capacity by no more than a batch for each
\* resent write, and without one never: the bound on the entries themselves, not on the
\* counters, and past aborted invocations too (design.md Property 11).
NoOverPromotion ==
    Cardinality(WithStatus(status, Occupying)) <= Capacity + MaxBatchSize * resends

\* The slots Promoted_Total counts besides the entries ever promoted: those
\* reserved and neither used nor given back.
Reserved ==
    Cardinality(Slots([p \in Workers |-> IF At(p, "free") THEN 0 ELSE Held(p)]))

\* Promoted_Total is the entries ever promoted and the slots reserved, so that after the
\* releases of a cycle it is the history it claims to be; an aborted invocation can make
\* it too large by a batch, and a resent write wrong by a batch either way.
PromotedTotalIsClose ==
    LET history == Reserved + Cardinality(WithStatus(status, EligibilityStatus \ {"WAITING"}))
    IN  /\ promotedTotal <= history + MaxBatchSize * (aborts + resends)
        /\ promotedTotal >= history - MaxBatchSize * resends

\* The Promoter implements the abstract waiting room: every step of the table moves
\* at most one entry along a permitted edge, and lets it through only into a free
\* slot, so no entry is promoted twice.  The room has a batch more for each write that
\* the SDK may resend.
RoomCapacity == Capacity + MaxBatchSize * MaxResends
Abstract == INSTANCE WaitingRoom WITH status <- status, Capacity <- RoomCapacity
ImplementsWaitingRoom == Abstract!Spec

\* No corrupt entry is in the promoter's way: each was waiting, where it holds no slot,
\* and has been flagged, which takes it out of WaitingIndex (lifecycle_manager.py,
\* Req 10.6).
CorruptAside == \A k \in corrupt : status[k] = "WAITING" /\ k \in flagged

\* An entry that waits is let through in the end, past lost races, stale indexes,
\* exhausted reservation attempts and corrupt entries that were flagged, as long as no
\* invocation is aborted; unless it is corrupt itself.
WaitingIsPromoted ==
    <>[]CorruptAside =>
        \A k \in Entries : status[k] = "WAITING" ~> status[k] = "ELIGIBLE" \/ k \in corrupt

\* An entry that is let through leaves again in the end, and its slot with it, whatever
\* became of the others; unless it is corrupt itself.
EligibleIsReleased ==
    \A k \in Entries :
        status[k] = "ELIGIBLE" ~> status[k] \in {"EXPIRED", "COMPLETED"} \/ k \in corrupt

\* What promoter.py:288 and :322 say: once no invocation runs, no slot is reserved
\* without an eligible entry that uses it.
NoLeakWhenIdle ==
    (\A p \in Workers : At(p, "idle")) =>
        eligibleCount = Cardinality(WithStatus(status, {"ELIGIBLE"}))

\* What design.md:264 says of the reservation: over-promotion is impossible under
\* any concurrency (here: also when the SDK resends a write).
OverPromotionImpossible == Cardinality(WithStatus(status, Occupying)) <= Capacity

\* What design.md Property 12 says: the promoted entries are always a prefix of the
\* total order, so no promoted entry has a later key than one still waiting.
PromotedIsPrefix ==
    \A j, k \in Entries :
        (j < k /\ status[j] = "WAITING") => status[k] \in {NoEntry, "WAITING"}
=============================================================================
