------------------------------ MODULE Admission ------------------------------
(***************************************************************************)
(* The Admission_Writer (Admission_Writer.admit in                         *)
(* waiting_room/admission.py): concurrent calls, several of them for the   *)
(* same fan, write a queue entry and its dedupe guard in one transaction   *)
(* and then count the entry with a separate write, against a table that    *)
(* throttles, refuses, and may apply a write whose response is lost.  The  *)
(* queue-full gate reads the total that the Streams aggregator derives     *)
(* from the counters (waiting_room/aggregator.py).                         *)
(*                                                                         *)
(* Keys are only compared for equality here: a call draws keys it has not  *)
(* drawn before, and calls on different nodes may draw the same key.       *)
(***************************************************************************)
EXTENDS Integers, FiniteSets

CONSTANTS
    Fans, Keys, Shards,
    Calls,          \* invocations of admit
    FanOf,          \* the fan of each call
    ShardOf,        \* assign_shard of each fan
    MaxRetries,     \* BackoffConfig.max_retries
    MaxQueueSize,   \* CONFIG.Max_Queue_Size
    MaxLosses,      \* bound: lost counts, lost responses and crashes
    MaxResends,     \* bound: counts the SDK sends again after they were applied
    None            \* no key

ASSUME CallsAssumption  ==
    IsFiniteSet(Calls) /\ FanOf \in [Calls -> Fans] /\ ShardOf \in [Fans -> Shards]
ASSUME LimitsAssumption == MaxRetries \in Nat /\ MaxQueueSize \in Nat \ {0}
ASSUME FaultsAssumption == MaxLosses \in Nat /\ MaxResends \in Nat
\* A call meets at most one collision for each other fan's entry.
ASSUME KeysAssumption   == Cardinality(Keys) >= Cardinality(Fans) /\ None \notin Keys

VARIABLES
    \* --- the table ---
    open,           \* CONFIG.Event_Status = OPEN
    entries,        \* the queue entries: shard, key (together the item's key) and fan
    guard,          \* Ordering_Key of each fan's dedupe guard, or None
    admitCount,     \* Admitted_Count of each shard's ADMIT_COUNT item
    \* --- the aggregator ---
    shardAdmitted,  \* the latest Admitted_Count it has seen of each shard
    \* --- the calls ---
    pc,             \* where each call is
    key,            \* its ordering_key
    tried,          \* the keys its allocator has given it
    attempt,        \* retries so far
    answer,         \* what it answered
    \* --- the faults so far ---
    losses, resends

table  == <<entries, guard, admitCount>>
locals == <<key, tried, attempt>>
faults == <<losses, resends>>
vars   == <<open, table, shardAdmitted, pc, locals, answer, faults>>

-----------------------------------------------------------------------------
Outcomes == {"admitted", "duplicate", "notOpen", "full", "retryable", "error"}

Pending == [outcome |-> "pending", key |-> None]

\* assign_shard: the hash of the fan's id decides, so the shard never changes.
HomeShard(c) == ShardOf[FanOf[c]]

Entry(c, k) == [shard |-> HomeShard(c), key |-> k, fan |-> FanOf[c]]

\* The conditions of the two puts: the item key is taken, the fan has a guard.
Taken(c) == \E e \in entries : e.shard = HomeShard(c) /\ e.key = key[c]

Guarded(c) == guard[FanOf[c]] # None

EntriesOf(s) == { e \in entries : e.shard = s }

\* Σ ADMIT_COUNT over the shards the aggregator has seen (admitted_total), as the
\* number of admissions counted: the first, second, ... of each shard.
AdmittedTotal == Cardinality(UNION { {s} \X (1..shardAdmitted[s]) : s \in Shards })

GoTo(c, step) == pc' = [pc EXCEPT ![c] = step]

\* The call ends; its locals are gone.
Answer(c, outcome, k) ==
    /\ GoTo(c, "done")
    /\ answer'  = [answer EXCEPT ![c] = [outcome |-> outcome, key |-> k]]
    /\ key'     = [key EXCEPT ![c] = None]
    /\ tried'   = [tried EXCEPT ![c] = {}]
    /\ attempt' = [attempt EXCEPT ![c] = 0]

\* next_ordering_key.
DrawKey(c) ==
    \E k \in Keys \ tried[c] :
        /\ key'   = [key EXCEPT ![c] = k]
        /\ tried' = [tried EXCEPT ![c] = @ \cup {k}]

Lose == losses < MaxLosses /\ losses' = losses + 1 /\ UNCHANGED resends

\* ADD Admitted_Count :n on the shard of the entry.
AddToCount(c, n) ==
    admitCount' = [admitCount EXCEPT ![HomeShard(c)] = @ + n]

-----------------------------------------------------------------------------
(* The gates *)

\* _gate_event_open reads CONFIG.
RefuseClosed(c) ==
    /\ pc[c] = "idle" /\ ~open
    /\ Answer(c, "notOpen", None)
    /\ UNCHANGED <<open, table, shardAdmitted, faults>>

\* Mutant: the queue is full one entry early.
RefuseEarly(c) ==
    /\ pc[c] = "idle" /\ open
    /\ AdmittedTotal + 1 >= MaxQueueSize
    /\ Answer(c, "full", None)
    /\ UNCHANGED <<open, table, shardAdmitted, faults>>

\* _gate_queue_full asks the aggregator.  Without an admitted_count_provider, as in
\* admit_handler, the gate is skipped: MaxQueueSize above the number of calls.
RefuseFull(c) ==
    /\ pc[c] = "idle" /\ open
    /\ AdmittedTotal >= MaxQueueSize
    /\ Answer(c, "full", None)
    /\ UNCHANGED <<open, table, shardAdmitted, faults>>

\* Both gates let the call through, and it draws its first key.
Enter(c) ==
    /\ pc[c] = "idle" /\ open
    /\ AdmittedTotal < MaxQueueSize
    /\ DrawKey(c)
    /\ GoTo(c, "write")
    /\ UNCHANGED <<open, table, shardAdmitted, attempt, answer, faults>>

-----------------------------------------------------------------------------
(* TransactWriteItems and what its outcome leads to *)

\* The two puts of the transaction.
PutEntryAndGuard(c) ==
    /\ entries' = entries \cup {Entry(c, key[c])}
    /\ guard'   = [guard EXCEPT ![FanOf[c]] = key[c]]

\* Mutant: the guard put has no attribute_not_exists.
CommitUnguarded(c) ==
    /\ pc[c] = "write" /\ ~Taken(c)
    /\ PutEntryAndGuard(c)
    /\ GoTo(c, "count")
    /\ UNCHANGED <<open, admitCount, shardAdmitted, locals, answer, faults>>

\* Both conditions hold: entry and guard are written.
Commit(c) ==
    /\ pc[c] = "write" /\ ~Guarded(c) /\ ~Taken(c)
    /\ PutEntryAndGuard(c)
    /\ GoTo(c, "count")
    /\ UNCHANGED <<open, admitCount, shardAdmitted, locals, answer, faults>>

\* The guard's condition failed, whatever became of the entry's: "duplicate".
Duplicate(c) ==
    /\ pc[c] = "write" /\ Guarded(c)
    /\ GoTo(c, "lookup")
    /\ UNCHANGED <<open, table, shardAdmitted, locals, answer, faults>>

\* Mutant: a collision is retried with the key that collided.
ReallocateSameKey(c) ==
    /\ pc[c] = "write" /\ ~Guarded(c) /\ Taken(c)
    /\ UNCHANGED vars

\* Only the entry's condition failed: "reallocate", at once and with a fresh key.
Reallocate(c) ==
    /\ pc[c] = "write" /\ ~Guarded(c) /\ Taken(c)
    /\ DrawKey(c)
    /\ UNCHANGED <<open, table, shardAdmitted, pc, attempt, answer, faults>>

\* Mutant: one retry more than the budget.
ShouldRetryOnceMore(n) == n <= MaxRetries

\* should_retry, for the attempts from 0; the delay of a retry changes nothing.
ShouldRetry(n) == n < MaxRetries

\* next_retry: another attempt, or WRITE_RETRYABLE once the budget is spent.
RetryOrGiveUp(c) ==
    IF ShouldRetry(attempt[c])
      THEN /\ attempt' = [attempt EXCEPT ![c] = @ + 1]
           /\ UNCHANGED <<pc, key, tried, answer>>
      ELSE Answer(c, "retryable", None)

\* The write is throttled or conflicts, nothing is applied: "retry".  A request can
\* be throttled before any condition is looked at, so the guard may be there.
Throttled(c) ==
    /\ pc[c] = "write"
    /\ RetryOrGiveUp(c)
    /\ UNCHANGED <<open, table, shardAdmitted, faults>>

\* InternalServerError is retried too, although the write may have been applied.
CommitUnreported(c) ==
    /\ pc[c] = "write" /\ ~Guarded(c) /\ ~Taken(c)
    /\ Lose
    /\ PutEntryAndGuard(c)
    /\ RetryOrGiveUp(c)
    /\ UNCHANGED <<open, admitCount, shardAdmitted>>

\* Any other error is raised, and a crash or timeout ends the call where it is.
Abort(c) ==
    /\ pc[c] \notin {"idle", "done"}
    /\ Lose
    /\ Answer(c, "error", None)
    /\ UNCHANGED <<open, table, shardAdmitted>>

\* Mutant: a retry that meets the call's own guard is answered as admitted.
LookupAdmitted(c) ==
    /\ pc[c] = "lookup"
    /\ Answer(c, IF guard[FanOf[c]] = key[c] THEN "admitted" ELSE "duplicate", guard[FanOf[c]])
    /\ UNCHANGED <<open, table, shardAdmitted, faults>>

\* Mutant: the duplicate is answered with the key this call drew.
LookupOwnKey(c) ==
    /\ pc[c] = "lookup"
    /\ Answer(c, "duplicate", key[c])
    /\ UNCHANGED <<open, table, shardAdmitted, faults>>

\* Mutant: a duplicate is counted as well.
LookupCounted(c) ==
    /\ pc[c] = "lookup"
    /\ AddToCount(c, 1)
    /\ Answer(c, "duplicate", guard[FanOf[c]])
    /\ UNCHANGED <<open, entries, guard, shardAdmitted, faults>>

\* _existing_admission reads the guard, which nothing in the code ever deletes, and
\* answers with its key.
Lookup(c) ==
    /\ pc[c] = "lookup"
    /\ Answer(c, "duplicate", guard[FanOf[c]])
    /\ UNCHANGED <<open, table, shardAdmitted, faults>>

-----------------------------------------------------------------------------
(* _increment_admit_count, then the token *)

Count(c) ==
    /\ pc[c] = "count"
    /\ AddToCount(c, 1)
    /\ Answer(c, "admitted", key[c])
    /\ UNCHANGED <<open, entries, guard, shardAdmitted, faults>>

\* The ClientError is swallowed.
CountLost(c) ==
    /\ pc[c] = "count"
    /\ Lose
    /\ Answer(c, "admitted", key[c])
    /\ UNCHANGED <<open, table, shardAdmitted>>

\* The response is lost, and the SDK sends the ADD again.
CountResent(c) ==
    /\ pc[c] = "count"
    /\ resends < MaxResends /\ resends' = resends + 1
    /\ AddToCount(c, 2)
    /\ Answer(c, "admitted", key[c])
    /\ UNCHANGED <<open, entries, guard, shardAdmitted, losses>>

-----------------------------------------------------------------------------
(* The event and the stream *)

OpenOrClose ==
    /\ open' = ~open
    /\ UNCHANGED <<table, shardAdmitted, pc, locals, answer, faults>>

\* Mutant: the latest delivery wins.
ApplyLatestCount(s, n) ==
    /\ n # shardAdmitted[s]
    /\ shardAdmitted' = [shardAdmitted EXCEPT ![s] = n]
    /\ UNCHANGED <<open, table, pc, locals, answer, faults>>

\* _apply_admit_count: the larger of the images delivered.
ApplyAdmitCount(s, n) ==
    /\ n > shardAdmitted[s]
    /\ shardAdmitted' = [shardAdmitted EXCEPT ![s] = n]
    /\ UNCHANGED <<open, table, pc, locals, answer, faults>>

\* The stream delivers an image of a counter, in any order and any number of times:
\* one of the values the counter has had.
Deliver(s) == \E n \in 1..admitCount[s] : ApplyAdmitCount(s, n)

-----------------------------------------------------------------------------
Init ==
    /\ open = TRUE
    /\ entries = {}
    /\ guard = [f \in Fans |-> None]
    /\ admitCount = [s \in Shards |-> 0]
    /\ shardAdmitted = [s \in Shards |-> 0]
    /\ pc = [c \in Calls |-> "idle"]
    /\ key = [c \in Calls |-> None]
    /\ tried = [c \in Calls |-> {}]
    /\ attempt = [c \in Calls |-> 0]
    /\ answer = [c \in Calls |-> Pending]
    /\ losses = 0 /\ resends = 0

\* One step of a call that has entered, when the table does not throttle it.
Work(c) == Commit(c) \/ Duplicate(c) \/ Reallocate(c) \/ Lookup(c) \/ Count(c)

Faulty(c) == CommitUnreported(c) \/ Abort(c) \/ CountLost(c) \/ CountResent(c)

Next ==
    \/ \E c \in Calls : \/ RefuseClosed(c) \/ RefuseFull(c) \/ Enter(c)
                        \/ Work(c) \/ Throttled(c) \/ Faulty(c)
    \/ \E s \in Shards : Deliver(s)
    \/ OpenOrClose

Spec == Init /\ [][Next]_vars

\* A call that runs goes on, and the stream delivers what it holds.
Fairness ==
    /\ \A c \in Calls : WF_vars(Work(c))
    /\ \A s \in Shards : WF_vars(Deliver(s))

FairSpec == Spec /\ Fairness

-----------------------------------------------------------------------------
(* Properties *)

\* The variables hold values of their types, and the retries stay in their budget.
TypeOK ==
    /\ open \in BOOLEAN
    /\ entries \subseteq [shard : Shards, key : Keys, fan : Fans]
    /\ guard \in [Fans -> Keys \cup {None}]
    /\ admitCount \in [Shards -> Nat] /\ shardAdmitted \in [Shards -> Nat]
    /\ pc \in [Calls -> {"idle", "write", "lookup", "count", "done"}]
    /\ key \in [Calls -> Keys \cup {None}]
    /\ tried \in [Calls -> SUBSET Keys]
    /\ attempt \in [Calls -> 0..MaxRetries]
    /\ answer \in [Calls -> [outcome : Outcomes \cup {"pending"}, key : Keys \cup {None}]]
    /\ losses \in 0..MaxLosses /\ resends \in 0..MaxResends

\* A fan never holds two entries, an entry never lacks its guard nor a guard its
\* entry, and no two entries share an item key, however many calls for one fan race,
\* are throttled, are retried after an unreported commit, or crash (admission.py:
\* exactly-once write, Req 1.1, 1.3, 2.7).
OneEntryPerFan ==
    /\ \A e \in entries : e.shard = ShardOf[e.fan] /\ guard[e.fan] = e.key
    /\ \A f \in Fans :
          guard[f] # None => [shard |-> ShardOf[f], key |-> guard[f], fan |-> f] \in entries
    /\ \A d, e \in entries : d.shard = e.shard /\ d.key = e.key => d = e

\* Whoever is answered with a key is answered with the key of the fan's durable
\* entry, first call and duplicates alike (Req 1.3).
AnswersAreDurable ==
    \A c \in Calls :
        answer[c].outcome \in {"admitted", "duplicate"} =>
            Entry(c, answer[c].key) \in entries

\* Without faults the counter of a shard is its entries, less those whose call is
\* between the transaction and the count; faults only lose counts, resends aside.
CountsEntries ==
    resends = 0 =>
        \A s \in Shards :
            LET uncounted == { c \in Calls : pc[c] = "count" /\ HomeShard(c) = s }
                counted   == admitCount[s] + Cardinality(uncounted)
            IN  /\ counted <= Cardinality(EntriesOf(s))
                /\ losses = 0 => counted = Cardinality(EntriesOf(s))

\* The aggregate follows the counters from below whatever the stream repeats or
\* reorders, so no fan is refused as QUEUE_FULL while the queue has room.
FullIsTrue ==
    /\ \A s \in Shards : shardAdmitted[s] <= admitCount[s]
    /\ (resends = 0 /\ \E c \in Calls : answer[c].outcome = "full") =>
           Cardinality(entries) >= MaxQueueSize

\* Whatever the stream repeats or reorders, the admitted total comes to be that of the
\* counters and stays so: no image that is delivered late or again takes back what the
\* queue-full gate has to see (aggregator.py _apply_admit_count).
AdmittedTotalSettles ==
    <>[](\A s \in Shards : shardAdmitted[s] = admitCount[s])

\* The fans' keys as the queue has them.
Registered ==
    [f \in Fans |-> IF \E e \in entries : e.fan = f
                      THEN (CHOOSE e \in entries : e.fan = f).key ELSE None]

Register == INSTANCE AdmissionRegister WITH registered <- Registered, told <- answer

\* A fan enters the queue once and for good, and of all the calls for a fan, however
\* they race, retry, crash or are retried after an unreported commit, at most one is
\* answered duplicate = False: the entries and the answers are those of the register.
ImplementsRegister == Register!Spec

\* Every call that enters is answered, past collisions, throttles and duplicates.
EveryCallIsAnswered == \A c \in Calls : pc[c] = "write" ~> pc[c] = "done"
=============================================================================
