# A verification of the Virtual Waiting Room

This directory models the Virtual Waiting Room (`waiting_room/`) in TLA+, checks the
models with TLC and proves theorems about them with TLAPS. Paths below are relative to
`waiting_room/` unless they start with another directory.

## 1. The system

Fans join the queue of an event. Each is written once, as a *queue entry* under a
server-drawn ordering key; a scheduled promoter lets them through in that order, never
more than the downstream system has slots; a fan who is let through has a limited window
to go on; and fans poll a status that is served from aggregates and caches. All shared
state is in one DynamoDB table, and every component is a set of short-lived invocations
that talk to the table in single, conditional writes. There is no lock and no transaction
longer than one call, so what matters is what can happen *between* the calls.

| component | state it keeps | operations | interacts with |
|---|---|---|---|
| Batch Promoter (`promoter.py`, `batching.py`) | none of its own; locals of an invocation | `promote_cycle`: read CAPACITY, plan, compare-and-set, query each shard of WaitingIndex, release the surplus, promote one by one, release per conflict; `expire_sweep`: query EligibilityIndex, expire, free the slot | CAPACITY, entries, both indexes, Lifecycle_Manager |
| Lifecycle (`lifecycle.py`, `lifecycle_manager.py`) | `Eligibility_Status` of each entry | `apply_transition` with rollback; `reconcile_if_corrupt` | called by the promoter |
| Capacity counter (`capacity.py`) | `Eligible_Count`, `Active_Count`, `Promoted_Total`, `Version` | `read`, `plan_reserve`, `try_commit_reserve`, `reserve`, `activate`, `release`, `complete`, `expire` | the in-memory model of the CAPACITY item |
| Admission_Writer (`admission.py`) | entries, dedupe guards, ADMIT_COUNT per shard | `admit`: gates, key, transaction, retry, collision, duplicate, count | allocator, backoff, sharding, aggregator |
| Ordering_Key allocator (`ordering.py`) | one hybrid logical clock per node | `next_ordering_key` | called by every admission of a node |
| Streams aggregator (`aggregator.py`) | admitted per shard, promoted total and keys, deque of promotion times | `apply_records`, `snapshot` | DynamoDB Streams; the queue-full gate; positions |
| Status path (`status_reader.py`, `status_logic.py`, `position.py`, `handlers.py`) | an edge cache with a max-age | `read_status`, `evaluate_browse`, `cache_directive` | entries, WaitingIndex |
| Retry backoff (`backoff.py`) | none | `next_retry` | admission |
| Write sharding (`sharding.py`) | none | shard of a fan, width and name of a partition, all computed from a shard count | admission, promoter, status, each with its own count |
| Configuration (`config.py`) | the CONFIG item; the defaults of a release | validation, `is_open` | everybody |
| Entry tokens (`token.py`) | none; the token is with the fan | sign, verify | handlers, status |
| Active pool (`active_pool.py`) | none | sizing arithmetic | nobody in the program |
| Provisioning (`provisioning.py`) | none | table creation, `seed_event_config`, `seed_capacity`: puts over whatever was there | an operator |
| API handlers (`handlers.py`) | in each container, the signing secret once fetched | parse, call, map errors; `promote_handler` runs a cycle and then a sweep | all of the above |
| Deployment (`infra/`, `scripts/`) | | the table, the functions, a one-minute schedule | |

What makes it hard:

* **Overlap.** The schedule starts `promote_handler` every minute and a run may take up
  to its 60 s timeout and be retried, so cycles and sweeps overlap; every decision is
  made from something read earlier.
* **Lagging indexes.** The selection of both the promotion and the sweep comes from
  eventually consistent secondary indexes.
* **Partial failure.** Slots are reserved first and used one by one; anything may end the
  invocation between the two.
* **Resent calls.** The SDK sends a call again when its response is lost; a conditional
  write then reports a failure although it was applied, an `ADD` counts twice.
* **At-least-once streams** that reorder and repeat.
* **Computed places.** Nothing stores the partition of an entry: the writer, the status
  path and the promoter each compute it, from shard counts of different origin, and
  containers of two releases and two secrets serve side by side.
* **Clocks** that regress, stand still or leave the representable range; a browse
  decision and a sweep that read the clock at different moments and truncate it
  differently.

The properties that make each component correct are those of section 3; the hazards they
are aimed at are listed, with their lines, in `PROJECT.json`.

## 2. The modules

| module | models | composed of |
|---|---|---|
| `Lifecycle` | statuses, permitted edges, the condition of `apply_transition` | |
| `WaitingRoom` | the abstract specification of promotion: entries that move along permitted edges, let through only into a free slot | `Lifecycle` |
| `Promoter` | `promote_handler` and everything it calls, with the admission writer, the downstream system, both indexes and spoilt entries around it | `Lifecycle`; implements `WaitingRoom` |
| `AtomicCounter` | the abstract specification of the counter: a reservation takes effect at one instant and gets what is left at that instant | |
| `Capacity` | `CapacityCounter` with its literal `Version` | implements `AtomicCounter` |
| `Ordering` | the allocator shared by threads | |
| `AdmissionRegister` | the abstract specification of admission: a fan is registered once and for good, and one call at most is told it did so | |
| `Admission` | `admit` in concurrent calls, the counters and the aggregator's admitted total | implements `AdmissionRegister` |
| `Aggregator` | promoted total, promotion rate and approximate position from the stream | `Lifecycle` |
| `Status` | `read_status` against promotion, sweep, indexes and cache | `Lifecycle` |
| `Journey` | `admit_handler` and `status_handler` in containers that come and go: tokens, secret, shards, CONFIG | |
| `*Proofs` | the theorems about the module of that name | the module |
| `MC*` | what TLC needs to run each of them: shard maps, symmetry, clock readings | the module |

### Promoter

One action is one call to DynamoDB, with the code up to the next call; the `pc` of a
worker is where its invocation stands.

| code | actions |
|---|---|
| `promote_handler` starts, `_load_config` | `Begin` |
| `_reserve`: `_read_capacity`, `compute_batch_size` | `ReadCapacity`, `ReadNegative` (a negative count raises) |
| `_commit_reserve`, the retry loop | `CommitReserve`, `CommitConflict` |
| `_select_next_waiting` | `QueryShard` for each shard, `QueryLastShard` with the merge |
| the surplus | `ReleaseSurplus` |
| the loop: `apply_transition`, its rollback | `PromoteEntry`, `PromoteConflict`, `ReleaseSlot` |
| `expire_sweep` | `QueryExpired`, `ExpireEntry`, `ExpireConflict`, `FreeSlot` |
| any other error, crash, timeout | `Abort` |
| a write that is sent again after it was applied | `RetriedCommit`, `RetriedPromote`, `RetriedExpire`, `RetriedSurplus`, `RetriedRelease`, `RetriedFree` |
| admission, activation, completion | `Admit`, `Activate`, `Complete` |
| index propagation, and time passing the window | `FollowWaiting`, `FollowExpired` |
| a status that is none of the five, written by something else | `Corrupt` |
| `reconcile_if_corrupt` | `Reconcile` |

Activation and completion are not in this repository's Lambdas; they move the counters as
`CapacityCounter.activate` and `complete` do. `Version` only ever serves to be compared
with what a worker has read, so the model keeps the set `fresh` of workers whose reading
is current. `Capacity`, which keeps the number, shows that this loses nothing
(`SnapshotIsLive`).

Faults are counted (`aborts`, `resends`), so that the accounting properties can say what
one of them costs: a batch of slots at most, `MaxBatchSize`, because that is the most a
reservation takes and the most any one write moves.

No write of the program spoils a status, so `Corrupt` is the environment's. Of a spoilt
entry `status` keeps the last valid value, and no condition of `apply_transition` holds
for it. The RECONCILED outcome of `apply_transition` cannot occur: the value it validates
is the one the same update has just written.

### Capacity

`Read`, `PlanReserve`, `TryCommitReserve` / `CommitFails`, `Reserve`, `Activate` and
`Release` are the methods of `CapacityCounter`. Callers hold a snapshot and then a plan
for as long as they like, as the interleaving explorer of
`tests/test_capacity_properties.py` has them do. A method that raises changes nothing.

`AtomicCounter` knows no versions, snapshots or plans. A caller may look at the counter,
ask for slots, and is then granted them or refused: granted in one step with what is left
at that instant, and refused only if the counter has been written since it looked. In the
mapping a caller asks for what its plan requests, and it is undisturbed while the version
its plan expects is the live one.

### Ordering

`Draw` is the body of the lock, `Return` what comes after it: keys are returned in
another order than they are drawn. The clock reads anything from -1 to beyond the
maximum. The tie-breaker is left out, because within a node keys are distinct without it.

### Admission

`Enter` passes the gates and draws a key; `RefuseClosed` and `RefuseFull` are the gates'
early returns; `Commit`, `Duplicate` and `Reallocate` are the three answers of the
transaction; `Throttled` is a retry within the budget of `ShouldRetry`; `Lookup` is the
read of the guard for a duplicate; `Count` is the ADMIT_COUNT update. Faults:
`CommitUnreported` (applied, but answered with `InternalServerError`), `CountLost`,
`CountResent`, `Abort`. The stream delivers any value a counter has had, in any order
and any number of times (`Deliver`).

The refinement to `AdmissionRegister` maps the register to the entries themselves
(`Registered`), not to the guards, and what calls were told to `answer`.

### Aggregator

Every change of an entry emits a record; `Deliver` applies any record that was ever
emitted, so records repeat and are reordered; `Snapshot` evicts from the deque and counts
it, as `promotion_rate` does.

### Status

`GetItem`, `Aggregates` (the cheap estimate: the first page of a count of one shard, since
`handlers.py:275-285` never follows `LastEvaluatedKey`) or `CountPage` for each page of
each shard (`exact`, which does follow it), and `Answer`, which reads the clock, decides
and fills the cache. Against it run the promotion (`Select`, `Stamp`, `PromoteEntry`) and
the sweep (`Cutoff`, `QueryExpired`, `ExpireEntry`), each reading the clock once. Time has
`Grain` ticks to the millisecond, because `int(now * 1000)` truncates and the browse
decision does not.

There are two windows, and nothing ties them together: the sweep takes
`Eligibility_Window_Secs` of the CONFIG item (`promoter.py:356-364, 604-608`), while
`status_handler` builds its reader without a configuration (`handlers.py:307-312`), so
that the browse decision takes the default of the release (`status_reader.py:389`).
`window` holds both; which they are is open at the start and does not change, as CONFIG
stays as it was seeded.

### Journey

The race of calls is `Admission`'s, so the transaction is one step here, and a fan stands
for its ordering key. What is kept is where each party takes its shard count and secret
from.

| code | actions |
|---|---|
| `admit_handler`: no secret; no CONFIG item, or one that is not OPEN | `AdmitRaises`, `AdmitNotOpen` |
| `admit_handler`: the transaction or the duplicate, then `_issue_token` and `sign` | `AdmitWrites`, `Sign` |
| `status_handler`: secret, `verify`, `_entry_key`, the item | `Status`, with its code in `Outcome` |
| `promote_handler`: the partitions queried, with Shard_Count of CONFIG | `Queried` |
| cold start, recycling, a container lost between write and answer | `Start`, `Recycle`, `Crash` |
| `seed_event_config`, open or closed; a new secret; a new `DEFAULT_SHARD_COUNT` | `Seed`, `Rotate`, `Release` |

The gate comes first in `admit` (`admission.py:337`), so an event that is closed refuses
the fans who have an entry as well. And a call without a `fan_id` mints a new one
(`admission.py:342`): it is never a duplicate, and cannot be repeated. `named` are the
fans who give theirs; anybody else is written by one call and no more.

`_cached_secret` is a field of the container with three kinds of value: unresolved, empty
and a secret. A partition is its shard and the width of the padding, so shard 1 of 2 and
shard 1 of 11 are different partitions, as `SH#1` and `SH#01` are.

## 3. The runs

| run | instance | what it shows |
|---|---|---|
| `promoter_faults` | 2 workers, 2 entries, 2 shards, 2 slots, one abort and one resent write | the inductive invariant `IInv` holds with faults; an abort or a resent write puts the accounts of slots and of `Promoted_Total` out by a batch at most, and nothing else does; an abort loses slots but never invents one |
| `promoter_live` | 2 workers, 2 entries, 1 slot, one spoilt entry, fairness | no over-promotion; the abstract waiting room is implemented; who waits is promoted and who is promoted leaves, once the spoilt entry is flagged |
| `capacity` | 2 callers, 3 slots, requests of up to 2, 3 writes, any initial counts | `Version` identifies the state; reading, planning and committing implement the one atomic reservation of `AtomicCounter` |
| `ordering` | 3 threads, 4 milliseconds, 2 logical values | distinct keys in the order of the calls, through carry and exhaustion |
| `admission` | 3 calls, 2 of one fan, 2 keys, one shard, one retry, one fault of each kind | one durable entry per fan; answers name it; the abstract register is implemented; the counters follow from below, and the aggregate comes to equal them; every call is answered |
| `aggregator` | 3 entries, window of 1, clock to 2 | promotions count exactly once; the rate misses none; the position follows |
| `status` | 4 fans in 2 shards, one of whom asks, pages of one entry, one promotion; windows of 1 ms, or 1 ms in CONFIG and 3 ms in the release; max-age 1 ms, 2 ticks to the ms, 4 ticks | a fan is let in after expiry only in the gap between the two windows; CONFIG's window is honoured to the millisecond; cached leave is bounded by the release's; positions are ones the index could have given, the estimate's as far as its page reaches |
| `journey` | 1 fan, with or without a `fan_id` of its own, 2 containers, shard counts 2, 3 and 11, 2 secrets, one release, one rotation, one crash, an event opened and closed at will, fairness | the token leads back to the entry until a release, and is accepted until a rotation; a larger `Shard_Count` strands nobody while the padding stays; a fan who can return at all is served in the end |

The instances are small because the state is a product of independent actors, and large
enough for the interesting cases. Two invocations are what any of the races in the
promoter needs; two slots make a surplus happen when only one entry waits, and one slot
for two entries a shortage; two shards make the shard-by-shard query interleave with
changes, and two attempts make a conflict both retried and given up. In `capacity` three
writes are enough for a plan to be overtaken, also by a transfer that leaves the
occupied slots as they were, and for its caller to plan and commit again. In `ordering`
the carry is reached after two keys of a millisecond and exhaustion after at most seven.
In `admission` the queue is full after one entry and two keys for three calls make
collisions certain. In `status` the window ends inside a millisecond as well as on one;
the last fan asks, one of the three ahead is in the first shard and the others in its
own, so a count is torn between shards and between pages, and the estimate's one page
is too small; in the gap between the two windows the fan is expired and told to browse.
In `journey` fans share nothing but the containers, so one is enough; two containers are
of two releases or hold two secrets at a time; of the counts two have one digit and one
has two, and the fan's shard differs between them. The secret is none at first, or one of
the two, which are interchangeable. Larger instances were run as well and
are not kept, for their time: the promoter with three entries, with and without faults,
and the aggregator with a window of two and a clock to four (two entries).

Symmetry is used for workers, callers and threads, and never in a run that checks a
liveness property.

Four more runs check what a comment or the design document
(`.kiro/specs/virtual-waiting-room/design.md`) says and end in a
counterexample:

| run | what is said | what happens |
|---|---|---|
| `promoter_leak` | `promoter.py:287-288`: reserved but unused capacity never leaks | an error after the reservation leaves the slots counted for ever; nothing recomputes the count |
| `promoter_prefix` | design Property 12: the promoted entries are always a prefix of the order | keys are drawn before entries are written and the indexes lag, so a later key can be let through while an earlier one waits |
| `promoter_resend` | design line 264: over-promotion is impossible under any concurrency | a promotion that the SDK sends again counts as a conflict, and its slot is given to somebody else |
| `journey_shards` | the repository's `README.md:32` and `config.py:12-15`: a production event has `Shard_Count` = 4000 | the handlers write and read under the default of the release (1000), the promoter queries under CONFIG: other padding, so nobody is found and nobody promoted |

Other disagreements met while modelling, for which there is no run:

* `capacity.py:100` calls `Promoted_Total` monotonic; `promoter.py:477` subtracts from it
  when a reservation is released. It is the history instead, exactly so while no fault
  strikes (`PromotedTotalIsClose`).
* `design.md:360` says that skew between nodes beyond a bound is absorbed by the logical
  counter. `_advance` looks at the node's own clock and its own last key only, so across
  nodes the order is that of the clocks; `RealTimeOrder` is about one node.
* `status_logic.py:175-177` calls its boundary that of the sweep. The decision ends the
  window at `elapsed >= window`, the sweep begins at strictly below the cutoff, in whole
  milliseconds. That difference is on the safe side, but the two boundaries are of
  different windows: with `Eligibility_Window_Secs` of CONFIG shorter than the default of
  120 s, the sweep expires an entry and gives its slot away while a read that saw it
  ELIGIBLE still goes on to say `may_browse`, and a cached answer outlives CONFIG's window
  by the difference and the staleness bound. Design Property 17 (`design.md:522`) and
  requirement 8.6 know of one window. `ExpiredBrowseIsInGap` and `BrowseIsBounded` say
  what does hold; with CONFIG's window the same or longer, nobody is told to browse whose
  entry has been expired.
* `handlers.py:259-263` calls the scaled count of one shard a sound estimate. It is that of
  the first page of the query: beyond 1 MB of index entries in a shard the rest is left
  out, and the position told is too small. `PositionIsBetween` has the page in the
  estimate's lower bound, and not in that of the exact position, which is counted page by
  page.
* `design.md:557` calls admission idempotent, so that repeating `POST /admit` recovers a
  lost token. It does for a fan who gives the `fan_id` again and while the event is
  open: a closed event answers 403 to the fans in its queue as well, and without a
  `fan_id` each call is a new fan's. `FanIsServed` has this as its premise
  (`CanReturn`).
* A container of the last release answers a duplicate with a shard under the old count, so
  a fan whose entry is under the new count may exchange a good token for one that leads
  nowhere, and if the event is then closed keeps it (`CanReturn` asks for the right shard).
* `handlers.py:264-266` says the estimate of an ELIGIBLE fan collapses to position 1
  because the fan has left the index. The count is of the entries *ahead*, so it is 1
  only when those have left it too.
* `design.md:477` promises no partial write when retries are used up. `admit` also
  retries on `InternalServerError` (`admission.py:144`), after which the entry may be
  there; the fan is told to retry and then gets the duplicate's answer
  (`AnswersAreDurable` covers it).
* `admission.py:75-76` says that a lost count lags until the aggregator reconciles it. The
  aggregator takes the total from the same counters, and nothing makes up for the count
  (`CountsEntries` allows it to stay behind).
* `handlers.py:102` says that `_entry_token_secret` raises if no secret is set. Only the
  first call of a container raises; the empty value stays cached, so a later `/admit`
  writes the entry and fails to sign (500) and `/status` answers 401 until the container
  is recycled. `FanIsServed` rests on that.
* `lifecycle_manager.py:206-208` promises RECONCILED for a corrupt status, and
  `design.md:449` that such an entry is excluded from promotion. The write fails on its
  condition first, the entry is reported as CONFLICT in every cycle and stays at the head
  of its shard, and nothing calls `reconcile_if_corrupt`; hence the premise of
  `WaitingIsPromoted`.
* After a release with another `DEFAULT_SHARD_COUNT` the token of an earlier entry leads
  to a partition without it (404), or to a shard beyond the count (500); the entry itself
  stays where the promoter may find it.
* Entries carry a `ttl`, but neither `provisioning.py` nor `infra/` enables expiry on the
  table. The models delete nothing.
* The deque of `promotion_rate` is evicted from the left only, so after records out of
  order an old promotion stays in the rate; `RateOfWindow` states what does hold.

## 4. Fairness

`promoter_live` assumes that a worker is invoked again and goes on (the EventBridge
schedule of `infra/waiting_room_stack.py:149-153`), that each index follows the table,
that time passes the window, and that an active fan completes, which is up to the
downstream system. It does *not* assume that fans arrive or that a fan who was let
through goes on: the sweep frees that slot. Weak fairness suffices, and it is assumed of
a worker as a whole, not of any step, so losing a compare-and-set for ever is not ruled
out by assumption but by the fact that somebody else then wins. Aborts are excluded: by
`promoter_leak` a leaked slot is never given back.

`admission` assumes that a call that has entered goes on and that the stream delivers; a
throttled call is bounded by its budget. `aggregator` assumes only that the stream goes
on delivering.

For `AdmittedTotalSettles` that is all there is to it: the last image of a counter comes
some day, among repetitions of any other, as often as the stream likes.

`journey` assumes that containers start, answer and are recycled, that a missing secret
is supplied, and that a fan asks and polls again and again. Recycling, asking and
polling are strongly fair, because a busy container disables each of them now and then:
a container is idle again and again and is recycled one day, and a fan who retries meets
an idle one sooner or later. The rest is weakly fair. A crash is not fair and happens at
most once. Nobody has to open an event: it may be closed for good, or be opened and
closed for ever. So `FanIsServed` has a premise, that from some time on the fan always
has one of two ways back: a token with the present secret and the right shard, or a
`fan_id` and an open event.

`Reconcile` has no fairness, because nothing in the program calls it.

## 5. The proofs

`tlapm` checks these for every value of the constants that the named ASSUMEs allow
(finite sets of entries and workers, a shard for every entry, natural bounds).

**Promoter.** The inductive invariant is `IInv`, the conjunction of `TypeOK`,
`CapacityBound` and what they need: `PlanIsCurrent` (a plan whose reading of `Version` is
current grants what `compute_batch_size` would grant now: the reason the compare-and-set
works), `AttemptLeft`, `SelectionFits` (a worker never releases more than it reserved) and
`LoopsHaveWork`. It is preserved with aborts, resends *and* spoilt entries, which gives
`Invariance`, `TypeCorrect`, `CapacityNeverExceeded` and `ReservationIsAtomic`.
`NoWorkerIsStuck` follows from `LoopsHaveWork`: the selection of a worker in a loop is not
empty, so it has a least key (natural numbers are well-founded), and the action for that
entry has its subject.

The accounting of slots needs a second layer, `Conserved`. `Lost` is `Eligible_Count`
minus the eligible entries minus the slots in the workers' hands; it is at least minus a
batch per resent write and at most a batch per abort or resent write (`Close`), and
`Active_Count` is the active entries. Its proof rests on lemmas about counting: `Slots`
makes the sum over workers the cardinality of a set, so that one worker's change moves
it by that much (`SlotsChange`), and `DriftStaysClose` is the arithmetic of one fault. A
write moves the counter and the slots alike (`Balanced`), an abort drops what its worker
held, a resent one moves the counter twice or releases the slot of an entry that has it.
From it follow `SlotsAreCovered`, `LeaksAreBounded` and `NeverOverPromoted`, all three
with faults; where none has struck they are exact. No hypothesis limits the faults, so
`PromoterImplementsWaitingRoom` holds of the whole specification: each step maps to a
step of the abstract waiting room or a stutter, in a room with `MaxBatchSize` more slots
for each write the SDK may resend (`RoomCapacity`, which is `Capacity` when it resends
none, as in `promoter_live`).

`PromotedTotalIsHistory` adds a third layer, `Settled`: `Promoted_Total` and
`Eligible_Count` differ by the entries that have left ELIGIBLE, less the slots a sweep is
about to free, and by what is lost. Each step leaves that difference alone or exchanges
it for what is lost (`Exchanges`), so faults move the sum of the two by a batch each. With
the split of the slots held into reserved and about to be freed
(`HeldIsReservedOrFreeing`) this is `PromotedTotalIsClose`.

**Capacity.** `VersionsPast` (nobody holds a state of a version to come) and
`SnapshotIsLive` make `PlanIsCurrent` inductive: a plan is clamped against a snapshot, and
if its version is still current that snapshot is the counter. The theorems are
`CounterTypeCorrect`, `NoOverReservation`, `VersionIdentifiesState`,
`RecheckNeverRefuses` (the defensive re-check of `try_commit_reserve` never fires) and
`CapacityImplementsCounter`: the commit maps to the abstract grant because what was
planned is what is left (`GrantIsWhatIsLeft`), and every write disturbs everybody else
because no version comes back (`WriteMoves`).

**Ordering.** `AdvanceGrows` says that any reading leads to a representable and greater
seq; `BehindClock` (no key is beyond its node's clock) makes distinctness and order
inductive: `OrderingTypeCorrect`, `SeqsAreDistinct`, `AdmissionsInOrder`,
`ClocksMoveForward`, for any number of nodes and threads and any widths.

**Admission.** `CallsInv` says what a call knows at each step (the guard is there when
it looks it up, its own entry when it counts), and `OneAdmitted` that of the calls for a
fan one at most is past the commit and knows it. With `OneEntryPerFan` and
`AnswersAreDurable` they are inductive: `AdmissionTypeCorrect`, `EntriesAreUnique`,
`AnswersLast`. `CountersFollowEntries` counts, shard by shard, the entries against the
calls between transaction and count. `TotalFollowsEntries` sums that over the shards,
the sum taken as the cardinality of a set of pairs; the aggregator's total is below it
whatever the stream delays or repeats, so a call refused at the queue-full gate met a
full queue (`FullIsNeverFalse`). `CollisionsAreBounded` says that a call gives up a key
only to another fan's entry in its shard: the loop without a budget draws at most one
key more than the shard has entries, and there is one left to draw.
`AdmissionImplementsRegister` maps each step to one of the register: `RegisteredIsGuard`
reads the abstract key off the guard, `CommitUnreported` on the last attempt is the one
step that registers and answers at once.

**Aggregator.** `Counted` adds that every promotion whose record can still arrive has
happened, which makes `PromotionsCountOnce` inductive. `Ranked` says the ranks number the
admitted entries, 1 to n; then, as long as promotion follows the order, those ahead of a
fan who waits are the promoted and the waiting, which is `PositionsFollow`.
`RateCountsWindow` needs what the deque is: `Windowed` says that each of its times belongs
to a counted promotion of its own (`Behind` names them, as a sequence beside it), and that
a counted promotion which is not in it is past the window. Eviction from the left removes
only times past the window (`EvictFromLeft`), and all of them if the deque is sorted.

**Status.** `Times` relates stamps and cutoffs to the clock: the cutoff of the sweep is
past CONFIG's window of all it has picked, and a cached answer is not past the release's.
With lemmas on truncation to milliseconds it gives `WindowHonoured`, `ExpiredBrowseInGap`
and `CachedLeaveEnds` for any two windows and any grain. `Counts` bounds, shard by shard
and up to the last key of the page, what a read has counted by the entries that were there
throughout and those that ever were: `PositionsAreBetween`, for any size of page, and
`StatusTypeCorrect`.

**Journey.** `OneCount` (before a release everybody counts shards alike, and the claim of
every token is the shard of its entry) gives `EntryIsFound`; `OneSecret` (before a
rotation all caches and tokens have the one secret, which is not empty if anything was
signed) gives `TokensAreAccepted`. `GrowthStrandsNobody` is about any hash: a remainder
below the old count is below the new one, and the padding is the same by assumption.

`PlanIsCurrent`, `CanProceed`, `GrantFits` and `CollisionsEnd`, which
`ReservationIsAtomic`, `NoWorkerIsStuck`, `RecheckNeverRefuses` and `CollisionsAreBounded`
state, are checked by no run under their own names; the first is a conjunct of `IInv`, which
`promoter_faults` checks.

Only model-checked: the liveness properties `WaitingIsPromoted`, `EligibleIsReleased`,
`EveryCallIsAnswered`, `AdmittedTotalSettles`, `PromotionsAreCounted` and `FanIsServed`.
They depend on fairness, and so on ENABLED, about which this prover cannot reason.
`NoWorkerIsStuck` and `CollisionsAreBounded` are the safety half of the first three.
Every other property of a passing run is proved.

## 6. What is not modelled

* HTTP parsing, the encoding of tokens and keys, the MAC (a forged token is one that does
  not verify), the checks of a token's claims other than the shard, table creation: no
  state the properties are about.
* The random delays of the backoff, the spread of the hash and the tie-breaker of the
  ordering key: their values change nothing that is written. A fan's hash is a constant
  function.
* The estimated wait (a quotient of floats) and `active_pool.py`, which nothing calls.
* A status read of a spoilt entry, which ends as a 500 and changes nothing.
* `seed_capacity` over a CAPACITY item in use (`provisioning.py:304`): the put resets the
  counters and `Version`, so the slots in use are forgotten. That follows from the one
  line, and every accounting property would have to except it; of CONFIG, seeding again
  is in `Journey`.
* In `Aggregator` and `Status`, how many entries a cycle may take: that is `Promoter`'s.
  In `Journey` there is no promotion, only the partitions it looks in.
* CONFIG seeded anew while entries are let through, in `Status`: the two windows are any,
  but stay as they are.
* An entry written after the event has been closed, or the queue filled up, behind the gate:
  possible in `Admission`, and no property is about it.

## 7. Plan

Built, in this order: `Lifecycle`, `WaitingRoom`, `Promoter`, `Ordering`, `Admission`,
`Aggregator`, `Status`, `Capacity`, then spoilt entries in `Promoter`,
`AdmissionRegister`, `Journey`, the proofs of all of them, and `AtomicCounter`.

To extend:

1. `Status` and `Promoter` share the promotion and the sweep; a refinement from one to
   the other would tie the two together.
2. `Journey` and `Admission` share the transaction; the same holds for them.

3. The CAPACITY item of `Promoter` could be shown to implement `AtomicCounter` as
   `Capacity` does; `ReservationIsAtomic` is the heart of it.

## 8. Running

    tlc -workers 2 -config promoter_faults.cfg MCPromoter.tla
    tlapm PromoterProofs.tla

`PROJECT.json` lists the runs, for each property a mutation of a definition that the run
detects, the source lines behind every definition, the hazards, the findings and the
theorems.
