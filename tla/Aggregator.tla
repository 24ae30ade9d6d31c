----------------------------- MODULE Aggregator -----------------------------
(***************************************************************************)
(* The Streams aggregator (StreamAggregator in waiting_room/aggregator.py) *)
(* and the entries whose changes it counts: every change of an entry emits *)
(* a stream record, the stream delivers each record at least once and in   *)
(* any order, and snapshots of the promoted total and of the promotion     *)
(* rate are taken at any time.  The admitted total, the third aggregate,   *)
(* is in Admission, beside the counters it follows.                        *)
(*                                                                         *)
(* Time is in the unit of the rate window; a record carries the time of    *)
(* its change (ApproximateCreationDateTime), as those of a stream do.      *)
(***************************************************************************)
EXTENDS Lifecycle, Integers, FiniteSets, Sequences, SequencesExt

CONSTANTS
    Entries,        \* the queue entries
    RateWindow,     \* rate_window_secs
    MaxTime         \* bound: how far the clock runs

ASSUME WindowAssumption == RateWindow \in Nat \ {0} /\ MaxTime \in Nat
ASSUME EntriesFinite    == IsFiniteSet(Entries)

VARIABLES
    \* --- the table and its stream ---
    status,         \* Eligibility_Status of each entry, or NoEntry
    rank,           \* the admission sequence rank of each entry, 0 before it
    records,        \* the stream records emitted so far
    now,            \* the clock
    \* --- the aggregator ---
    promotedTotal,  \* _promoted_total
    promotedKeys,   \* _promoted_keys
    promotionTimes, \* _promotion_times, a deque
    recent          \* the promotions in the rate of the last snapshot

entryVars == <<status, rank, records>>
counted   == <<promotedTotal, promotedKeys, promotionTimes>>
vars      == <<entryVars, now, counted, recent>>

-----------------------------------------------------------------------------
Times == 0..MaxTime

Record == [key : Entries, old : EntryState, new : EligibilityStatus, at : Times]

Admitted == { k \in Entries : status[k] # NoEntry }

\* Whether entry k has left WAITING.
Promoted(k) == status[k] \in EligibilityStatus \ {"WAITING"}

\* A change of entry k.  Only the time of a promotion is ever looked at.
Emit(k, old, new) ==
    LET at == IF old = "WAITING" THEN now ELSE 0
    IN  records' = records \cup {[key |-> k, old |-> old, new |-> new, at |-> at]}

\* approximate_position.
ApproximatePosition(admissionRank, promoted) ==
    IF admissionRank - promoted > 1 THEN admissionRank - promoted ELSE 1

-----------------------------------------------------------------------------
(* The entries *)

Admit(k) ==
    /\ status[k] = NoEntry
    /\ rank'   = [rank EXCEPT ![k] = Cardinality(Admitted) + 1]
    /\ status' = [status EXCEPT ![k] = "WAITING"]
    /\ Emit(k, NoEntry, "WAITING")
    /\ UNCHANGED <<now, counted, recent>>

Move(k, from, to) ==
    /\ CanTransition(status, k, from, to)
    /\ status' = [status EXCEPT ![k] = to]
    /\ Emit(k, from, to)
    /\ UNCHANGED <<rank, now, counted, recent>>

Tick ==
    /\ now < MaxTime
    /\ now' = now + 1
    /\ UNCHANGED <<entryVars, counted, recent>>

-----------------------------------------------------------------------------
(* The aggregator *)

\* The record is the one on which its entry left WAITING.
IsPromotion(r) == r.new # "WAITING" /\ r.old = "WAITING"

\* Mutant: a record delivered again is counted again.
ApplyEntryAgain(r) ==
    /\ IsPromotion(r)
    /\ promotedTotal < Cardinality(Entries) + 1
    /\ promotedKeys'   = promotedKeys \cup {r.key}
    /\ promotedTotal'  = promotedTotal + 1
    /\ promotionTimes' = Append(promotionTimes, r.at)

\* Mutant: a promotion is remembered by the time of its record.
ApplyEntryOncePerTime(r) ==
    /\ IsPromotion(r)
    /\ r.key \notin promotedKeys
    /\ r.at \notin ToSet(promotionTimes)
    /\ promotedKeys'   = promotedKeys \cup {r.key}
    /\ promotedTotal'  = promotedTotal + 1
    /\ promotionTimes' = Append(promotionTimes, r.at)

\* _apply_entry, for a record that changes something.
ApplyEntry(r) ==
    /\ IsPromotion(r)
    /\ r.key \notin promotedKeys
    /\ promotedKeys'   = promotedKeys \cup {r.key}
    /\ promotedTotal'  = promotedTotal + 1
    /\ promotionTimes' = Append(promotionTimes, r.at)

\* The stream delivers a record, again or for the first time.
Deliver(r) ==
    /\ r \in records
    /\ ApplyEntry(r)
    /\ UNCHANGED <<entryVars, now, recent>>

\* Mutant: everything before the last expired promotion goes with it.
EvictPastLast(times, cutoff) ==
    SubSeq(times, SelectLastInSeq(times, LAMBDA t : t <= cutoff) + 1, Len(times))

\* The eviction loop of promotion_rate: from the left, up to the first promotion
\* inside the window.
Evict(times, cutoff) ==
    LET first == SelectInSeq(times, LAMBDA t : t > cutoff)
    IN  IF first = 0 THEN <<>> ELSE SubSeq(times, first, Len(times))

\* snapshot: promotion_rate evicts and then counts what is left.
Snapshot ==
    /\ promotionTimes' = Evict(promotionTimes, now - RateWindow)
    /\ recent' = Len(promotionTimes')
    /\ UNCHANGED <<entryVars, now, promotedTotal, promotedKeys>>

-----------------------------------------------------------------------------
Init ==
    /\ status = [k \in Entries |-> NoEntry]
    /\ rank   = [k \in Entries |-> 0]
    /\ records = {} /\ now = 0
    /\ promotedTotal = 0 /\ promotedKeys = {} /\ promotionTimes = <<>>
    /\ recent = 0

Next ==
    \/ \E k \in Entries : Admit(k) \/ \E s, t \in EligibilityStatus : Move(k, s, t)
    \/ \E r \in records : Deliver(r)
    \/ Snapshot
    \/ Tick

Spec == Init /\ [][Next]_vars

\* Every record is delivered in the end.
Fairness == WF_vars(\E r \in records : Deliver(r))

FairSpec == Spec /\ Fairness

-----------------------------------------------------------------------------
(* Properties *)

\* When entry k left WAITING, as the stream has it.
PromotedAt(k) == (CHOOSE r \in records : r.key = k /\ IsPromotion(r)).at

\* The variables hold values of their types, and a rate counts no more promotions than
\* there are entries.
TypeOK ==
    /\ status \in [Entries -> EntryState]
    /\ rank \in [Entries -> Nat]
    /\ records \subseteq Record
    /\ now \in Times
    /\ promotedTotal \in Nat
    /\ promotedKeys \subseteq Entries
    /\ promotionTimes \in Seq(Times)
    /\ recent \in 0..Cardinality(Entries)

\* Each promotion is counted at most once, and nothing else is, whatever the stream
\* repeats or reorders and whatever becomes of the entry before its record arrives
\* (aggregator.py:45-48, at-least-once delivery).
CountsPromotions ==
    /\ promotedTotal = Cardinality(promotedKeys)
    /\ \A k \in promotedKeys : Promoted(k)

\* Every promotion is counted in the end, even of an entry that has meanwhile
\* expired or completed.
PromotionsAreCounted == []<>(\A k \in Entries : Promoted(k) => k \in promotedKeys)

\* The rate of a snapshot never misses a counted promotion of the window, and is
\* exactly those promotions when they were delivered in the order they happened
\* (promotion_rate evicts from the left only).
RateOfWindow ==
    [][Snapshot =>
          LET window == { k \in promotedKeys : PromotedAt(k) > now - RateWindow }
          IN  /\ recent' >= Cardinality(window)
              /\ IsSorted(promotionTimes, <=) => recent' = Cardinality(window)]_vars

\* While promotion follows the order of admission, the approximate position of a
\* fan who waits is at least the exact one, and is the exact one once the stream
\* has been consumed (aggregator.py:24-30).
PositionFollowsOrder ==
    (\A j, k \in Admitted : (rank[j] < rank[k] /\ Promoted(k)) => Promoted(j)) =>
        \A k \in WithStatus(status, {"WAITING"}) :
            LET exact  == 1 + Cardinality({ j \in WithStatus(status, {"WAITING"}) :
                                                rank[j] < rank[k] })
                approx == ApproximatePosition(rank[k], promotedTotal)
            IN  /\ approx >= exact
                /\ (\A j \in Admitted : Promoted(j) => j \in promotedKeys) => approx = exact
=============================================================================
