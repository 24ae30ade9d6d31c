------------------------------- MODULE Status -------------------------------
(***************************************************************************)
(* The status path (Status_Reader in waiting_room/status_reader.py, the    *)
(* browse decision of status_logic.py and the aggregates provider of       *)
(* handlers.py) against the two writers that decide what it should say:    *)
(* promote_handler, which stamps an entry with the time its cycle read and *)
(* sweeps it once the window has passed, and the downstream system.  A     *)
(* read is several calls to the table and one to the clock, and its answer *)
(* may be served from a cache for as long as its max-age allows.           *)
(*                                                                         *)
(* The clock counts ticks, Grain of them to the millisecond: time.time()   *)
(* is finer than the milliseconds that the code truncates it to.  All the  *)
(* nodes read one clock.  How many entries a cycle may take is the         *)
(* business of Promoter; here it takes any number up to a batch.           *)
(*                                                                         *)
(* There are two windows: the sweep takes Eligibility_Window_Secs of the   *)
(* CONFIG item, and /status the default of the release, since nobody hands *)
(* the reader a configuration.  CONFIG stays as it was seeded.             *)
(***************************************************************************)
EXTENDS Lifecycle, Integers, FiniteSets

CONSTANTS
    Fans,           \* the entries, by ordering key: numbers, in key order
    ShardCount,     \* shard_count
    ShardOf,        \* Write_Shard of each entry
    PageSize,       \* the entries that one page of a Query has room for
    MaxBatchSize,   \* CONFIG.Max_Batch_Size
    Windows,        \* what the two windows may be, in milliseconds
    MaxAgeMs,       \* staleness_bound_secs, in milliseconds
    Grain,          \* ticks of the clock in a millisecond
    Readers,        \* bound: the fans who ask for their status
    MaxPromotions,  \* bound: the entries that are let through
    MaxTicks        \* bound: how far the clock runs

ASSUME FansAssumption  == Fans \subseteq Nat /\ IsFiniteSet(Fans)
ASSUME ShardAssumption == ShardCount \in Nat \ {0} /\ ShardOf \in [Fans -> 0..(ShardCount - 1)]
ASSUME PageAssumption  == PageSize \in Nat \ {0}
ASSUME TimeAssumption  == /\ Windows \subseteq [sweep : Nat \ {0}, browse : Nat \ {0}]
                          /\ MaxAgeMs \in Nat \ {0} /\ Grain \in Nat \ {0} /\ MaxTicks \in Nat
ASSUME ReadAssumption  == Readers \subseteq Fans
ASSUME BatchAssumption == MaxBatchSize \in Nat

VARIABLES
    window,         \* .sweep is CONFIG.Eligibility_Window_Secs, .browse the release's
    \* --- the table and its indexes ---
    status,         \* Eligibility_Status of each entry, or NoEntry
    promotionTime,  \* Promotion_Time of each entry, or Never
    waitingIndex,   \* the entries WaitingIndex holds
    eligibleIndex,  \* the entries EligibilityIndex holds as ELIGIBLE
    now,            \* the clock, in ticks
    \* --- promote_handler ---
    phase,          \* where the invocation is
    stamp,          \* promotion_time of the cycle, then cutoff of the sweep
    picked,         \* the entries selected and not yet handled
    \* --- the read of a status ---
    read,           \* what it has read so far
    always, ever,   \* history: the entries ahead that WaitingIndex has held
                    \* throughout the read, and at any moment of it
    \* --- the edge cache ---
    pass            \* the tick each fan's cached leave to browse goes stale at, or
                    \* Never: an answer that says no lets nobody in

table   == <<window, status, promotionTime>>
indexes == <<waitingIndex, eligibleIndex>>
cycle   == <<phase, stamp, picked>>
reading == <<read, always, ever>>
vars    == <<table, indexes, now, cycle, reading, pass>>

-----------------------------------------------------------------------------
Never == -1

Ms(ticks) == ticks \div Grain

First(limit, S) == { k \in S : Cardinality({ j \in S : j < k }) < limit }

Ahead(f, s) == { k \in waitingIndex : k < f /\ ShardOf[k] = s }

\* One Query for the entries of shard s ahead of f, from behind the key last on.
Page(f, s, last) == First(PageSize, { k \in Ahead(f, s) : k > last })

Steps == {"idle", "stamp", "promote", "cutoff", "query", "expire"}

\* Of the item, a read keeps Promotion_Time if the status is ELIGIBLE, and else Never.
NoRead == [step |-> "idle", fan |-> 0, exact |-> FALSE, promoted |-> Never,
           ahead |-> 0, shard |-> 0, last |-> Never]

-----------------------------------------------------------------------------
(* promote_handler: promote_cycle, then expire_sweep *)

LetThrough == { k \in Fans : promotionTime[k] # Never }

\* _select_next_waiting, for any grant.
Select ==
    /\ phase = "idle"
    /\ \E n \in 0..MaxBatchSize :
          /\ picked' = First(n, waitingIndex)
          /\ Cardinality(LetThrough \cup picked') <= MaxPromotions
    /\ phase' = IF picked' = {} THEN "cutoff" ELSE "stamp"
    /\ UNCHANGED <<table, indexes, now, stamp, reading, pass>>

\* now = self.clock(), once for the whole batch.
Stamp ==
    /\ phase = "stamp"
    /\ stamp' = Ms(now)
    /\ phase' = "promote"
    /\ UNCHANGED <<table, indexes, now, picked, reading, pass>>

\* Mutant: only the status is written.
PromoteWithoutTime(k) ==
    /\ phase = "promote" /\ First(1, picked) = {k}
    /\ status' = IF CanTransition(status, k, "WAITING", "ELIGIBLE")
                   THEN [status EXCEPT ![k] = "ELIGIBLE"] ELSE status
    /\ picked' = picked \ {k}
    /\ IF picked = {k} THEN phase' = "cutoff" /\ stamp' = 0 ELSE UNCHANGED <<phase, stamp>>
    /\ UNCHANGED <<window, promotionTime, indexes, now, reading, pass>>

\* Every entry of the batch, in key order; one that is WAITING no more is skipped.
PromoteEntry(k) ==
    /\ phase = "promote" /\ First(1, picked) = {k}
    /\ IF CanTransition(status, k, "WAITING", "ELIGIBLE")
         THEN /\ status' = [status EXCEPT ![k] = "ELIGIBLE"]
              /\ promotionTime' = [promotionTime EXCEPT ![k] = stamp]
         ELSE UNCHANGED <<status, promotionTime>>
    /\ picked' = picked \ {k}
    /\ IF picked = {k} THEN phase' = "cutoff" /\ stamp' = 0 ELSE UNCHANGED <<phase, stamp>>
    /\ UNCHANGED <<window, indexes, now, reading, pass>>

\* _load_config, and cutoff = int(now * 1000) - eligibility_window_secs * 1000.
Cutoff ==
    /\ phase = "cutoff"
    /\ stamp' = Ms(now) - window.sweep
    /\ phase' = "query"
    /\ UNCHANGED <<table, indexes, now, picked, reading, pass>>

\* Mutant: the query has no condition on Promotion_Time.
QueryEligible ==
    /\ phase = "query"
    /\ picked' = eligibleIndex
    /\ phase' = IF picked' = {} THEN "idle" ELSE "expire"
    /\ stamp' = 0
    /\ UNCHANGED <<table, indexes, now, reading, pass>>

\* _query_expired_eligible: Promotion_Time < cutoff.
QueryExpired ==
    /\ phase = "query"
    /\ picked' = { k \in eligibleIndex : promotionTime[k] < stamp }
    /\ phase' = IF picked' = {} THEN "idle" ELSE "expire"
    /\ stamp' = 0
    /\ UNCHANGED <<table, indexes, now, reading, pass>>

\* Conditional on ELIGIBLE, not on the time.
ExpireEntry(k) ==
    /\ phase = "expire" /\ k \in picked
    /\ status' = IF CanTransition(status, k, "ELIGIBLE", "EXPIRED")
                   THEN [status EXCEPT ![k] = "EXPIRED"] ELSE status
    /\ picked' = picked \ {k}
    /\ phase' = IF picked = {k} THEN "idle" ELSE "expire"
    /\ UNCHANGED <<window, promotionTime, indexes, now, stamp, reading, pass>>

-----------------------------------------------------------------------------
(* read_status *)

\* The token is verified and the entry read, strongly consistently.
GetItem(f, exact) ==
    /\ read.step = "idle" /\ status[f] # NoEntry
    /\ read' = [NoRead EXCEPT !.step = "aggregates", !.fan = f, !.exact = exact,
                    !.promoted = IF status[f] = "ELIGIBLE" THEN promotionTime[f] ELSE Never]
    /\ always' = { k \in waitingIndex : k < f }
    /\ ever'   = { k \in waitingIndex : k < f }
    /\ UNCHANGED <<table, indexes, now, cycle, pass>>

\* The aggregates provider: one COUNT on the fan's own shard, of which it takes the first
\* page for the whole, scaled.  An exact read asks for it too, and drops it.
Aggregates ==
    /\ read.step = "aggregates"
    /\ read' = IF read.exact
                 THEN [read EXCEPT !.step = "count"]
                 ELSE [read EXCEPT !.step = "answer",
                         !.ahead = ShardCount
                                     * Cardinality(Page(read.fan, ShardOf[read.fan], Never))]
    /\ UNCHANGED <<table, indexes, now, cycle, always, ever, pass>>

\* Mutant: LastEvaluatedKey is dropped here as well.
CountFirstPage ==
    /\ read.step = "count"
    /\ read' = [read EXCEPT
                  !.ahead = @ + Cardinality(Page(read.fan, read.shard, Never)),
                  !.shard = @ + 1,
                  !.step  = IF read.shard + 1 < ShardCount THEN "count" ELSE "answer"]
    /\ UNCHANGED <<table, indexes, now, cycle, always, ever, pass>>

\* _exact_position: the COUNTs on each shard in turn, one page after the other.  A full
\* page comes with a LastEvaluatedKey, though nothing may be left behind it; one that
\* leaves nothing may come without.
CountPage ==
    /\ read.step = "count"
    /\ LET page == Page(read.fan, read.shard, read.last)
       IN  \/ \E last \in page :
                /\ Cardinality(page) = PageSize /\ page \subseteq 0..last
                /\ read' = [read EXCEPT !.ahead = @ + Cardinality(page), !.last = last]
           \/ /\ page = { k \in Ahead(read.fan, read.shard) : k > read.last }
              /\ read' = [read EXCEPT
                            !.ahead = @ + Cardinality(page), !.last = Never,
                            !.shard = @ + 1,
                            !.step  = IF read.shard + 1 < ShardCount THEN "count" ELSE "answer"]
    /\ UNCHANGED <<table, indexes, now, cycle, always, ever, pass>>

\* Mutant: ELIGIBLE is enough, the sweep takes care of the window.
BrowseByStatus(promoted, available) == promoted # Never /\ available

\* evaluate_browse, on the clock of the answer.
MayBrowse(promoted, available) ==
    /\ promoted # Never
    /\ now - promoted * Grain < window.browse * Grain
    /\ available

\* The cached answer lives for max_age, which is the whole staleness bound.
StaleAt(tick) == tick + MaxAgeMs * Grain

\* The decision, the cache directive, and the end of the read.
Answer ==
    /\ read.step = "answer"
    /\ \E available \in BOOLEAN :
          pass' = [pass EXCEPT ![read.fan] =
              IF MayBrowse(read.promoted, available)
                THEN StaleAt(now) ELSE Never]
    /\ read' = NoRead /\ always' = {} /\ ever' = {}
    /\ UNCHANGED <<table, indexes, now, cycle>>

\* The position of the answer: approximate_position of the estimate, or the count.
Position == read.ahead + 1

-----------------------------------------------------------------------------
(* The rest of the system *)

Admit(k) ==
    /\ status[k] = NoEntry
    /\ status' = [status EXCEPT ![k] = "WAITING"]
    /\ UNCHANGED <<window, promotionTime, indexes, now, cycle, reading, pass>>

\* The downstream system lets an eligible fan in.  That the fan completes later
\* changes nothing that a read or a sweep looks at.
Activate(k) ==
    /\ CanTransition(status, k, "ELIGIBLE", "ACTIVE")
    /\ status' = [status EXCEPT ![k] = "ACTIVE"]
    /\ UNCHANGED <<window, promotionTime, indexes, now, cycle, reading, pass>>

\* The indexes follow the table.
FollowWaiting(k) ==
    /\ (k \in waitingIndex) # (status[k] = "WAITING")
    /\ waitingIndex' = IF status[k] = "WAITING" THEN waitingIndex \cup {k}
                                                ELSE waitingIndex \ {k}
    /\ always' = always \cap waitingIndex'
    /\ ever'   = IF k < read.fan THEN ever \cup (waitingIndex' \cap {k}) ELSE ever
    /\ UNCHANGED <<table, eligibleIndex, now, cycle, read, pass>>

FollowEligible(k) ==
    /\ (k \in eligibleIndex) # (status[k] = "ELIGIBLE")
    /\ eligibleIndex' = IF status[k] = "ELIGIBLE" THEN eligibleIndex \cup {k}
                                                  ELSE eligibleIndex \ {k}
    /\ UNCHANGED <<table, waitingIndex, now, cycle, reading, pass>>

Tick ==
    /\ now < MaxTicks
    /\ now' = now + 1
    /\ pass' = [k \in Fans |-> IF pass[k] = now' THEN Never ELSE pass[k]]
    /\ UNCHANGED <<table, indexes, cycle, reading>>

-----------------------------------------------------------------------------
Init ==
    /\ window \in Windows
    /\ status = [k \in Fans |-> NoEntry]
    /\ promotionTime = [k \in Fans |-> Never]
    /\ waitingIndex = {} /\ eligibleIndex = {}
    /\ now = 0
    /\ phase = "idle" /\ stamp = 0 /\ picked = {}
    /\ read = NoRead /\ always = {} /\ ever = {}
    /\ pass = [k \in Fans |-> Never]

Next ==
    \/ Select \/ Stamp \/ Cutoff \/ QueryExpired
    \/ \E k \in Fans : PromoteEntry(k) \/ ExpireEntry(k)
    \/ \E f \in Readers, exact \in BOOLEAN : GetItem(f, exact)
    \/ Aggregates \/ CountPage \/ Answer
    \/ \E k \in Fans : Admit(k) \/ Activate(k) \/ FollowWaiting(k) \/ FollowEligible(k)
    \/ Tick

Spec == Init /\ [][Next]_vars

-----------------------------------------------------------------------------
(* Properties *)

\* The variables hold values of their types, and an entry has a Promotion_Time from
\* the moment it is let through.
TypeOK ==
    /\ status \in [Fans -> EntryState]
    /\ promotionTime \in [Fans -> Nat \cup {Never}]
    /\ \A k \in Fans : promotionTime[k] = Never <=> status[k] \in {NoEntry, "WAITING"}
    /\ window \in Windows
    /\ waitingIndex \subseteq Fans /\ eligibleIndex \subseteq Fans
    /\ now \in 0..MaxTicks
    /\ phase \in Steps /\ stamp \in Int /\ picked \subseteq Fans
    /\ read.step \in {"idle", "aggregates", "count", "answer"}
    /\ read.shard \in 0..ShardCount /\ read.last \in Fans \cup {Never}
    /\ read.ahead \in 0..(ShardCount * Cardinality(Fans))
    /\ always \subseteq ever /\ ever \subseteq Fans
    /\ pass \in [Fans -> Nat \cup {Never}]

\* No entry is expired before the whole window of CONFIG has passed since its
\* Promotion_Time, from however old an image of the index the sweep took it and however
\* late it writes (promoter.py expire_sweep, Req 5.8).
WindowIsHonoured ==
    \A k \in WithStatus(status, {"EXPIRED"}) :
        now >= (promotionTime[k] + window.sweep) * Grain

\* A fan whose entry the sweep has expired, and whose slot it has given away, is told to
\* browse only while the release's window is open and CONFIG's is over: never, that is,
\* when CONFIG's window is not the shorter one, although the entry is read first and the
\* decision comes later (status_logic.py evaluate_browse, Req 8.6).
ExpiredBrowseIsInGap ==
    [][(Answer /\ pass'[read.fan] # Never /\ status[read.fan] = "EXPIRED")
         => /\ (promotionTime[read.fan] + window.sweep) * Grain <= now
            /\ now < (promotionTime[read.fan] + window.browse) * Grain]_vars

\* A cached answer that lets a fan browse goes stale at most a staleness bound after the
\* release's window has passed, whoever takes how long to produce it and whenever the
\* sweep expires the entry (Req 8.8).
BrowseIsBounded ==
    \A k \in Fans :
        pass[k] # Never =>
            pass[k] < (promotionTime[k] + window.browse + MaxAgeMs) * Grain

\* The least of the entries S that a COUNT of one page reports.
InPage(S) == IF Cardinality(S) < PageSize THEN Cardinality(S) ELSE PageSize

\* An exact position counts at least whom the index held ahead of the fan throughout the
\* read and at most whom it held at any moment of it, though shards and pages are counted
\* one after the other while entries come and go.  The estimate, which the handler serves,
\* does so for the fan's own shard, but may leave out whom its one page has no room for
\* (Req 8.3).
PositionIsBetween ==
    read.step = "answer" =>
        LET Own(S) == { k \in S : ShardOf[k] = ShardOf[read.fan] }
        IN  IF read.exact
              THEN /\ 1 + Cardinality(always) <= Position
                   /\ Position <= 1 + Cardinality(ever)
              ELSE /\ 1 + ShardCount * InPage(Own(always)) <= Position
                   /\ Position <= 1 + ShardCount * Cardinality(Own(ever))
=============================================================================
