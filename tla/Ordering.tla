------------------------------ MODULE Ordering ------------------------------
(***************************************************************************)
(* The Ordering_Key allocator (OrderingKeyAllocator in                     *)
(* waiting_room/ordering.py): one hybrid logical clock per admission node, *)
(* shared by the threads of the node under a lock, over a wall clock that  *)
(* may regress, stand still, run ahead or leave the 48-bit range.  A call  *)
(* advances the clock inside the lock and returns outside it, so the keys  *)
(* of a node may be returned in another order than they were drawn.        *)
(*                                                                         *)
(* seq is the pair <<physical_ms, logical>>; its fixed-width rendering     *)
(* compares as the pair does.                                              *)
(***************************************************************************)
EXTENDS Integers

CONSTANTS
    Nodes,          \* admission nodes, one allocator each
    Threads,        \* callers
    NodeOf,         \* the node of each caller
    Readings,       \* what the wall clock of a node may read
    MaxPhysicalMs,  \* MAX_PHYSICAL_MS, 2^48 - 1 in the code
    MaxLogical      \* MAX_LOGICAL, 2^16 - 1 in the code

ASSUME NodesAssumption    == NodeOf \in [Threads -> Nodes]
ASSUME ReadingsAssumption == Readings \subseteq Int
ASSUME RangeAssumption    == MaxPhysicalMs \in Nat /\ MaxLogical \in Nat

VARIABLES
    hlc,        \* <<_last_physical, _last_logical>> of each node
    call,       \* the state of each caller's call
    drawn,      \* the seq a call has drawn and not yet returned
    before,     \* history: the keys returned before a caller's current call began
    returned    \* history: the keys returned so far, with their nodes

vars == <<hlc, call, drawn, before, returned>>

-----------------------------------------------------------------------------
Seqs == (0..MaxPhysicalMs) \X (0..MaxLogical)

Keys == Nodes \X Seqs

\* The state of a new allocator, before any timestamp; it is never drawn.
Start == <<0, 0>>

\* compare_ordering_keys on the seq components.
Less(a, b) == a[1] < b[1] \/ (a[1] = b[1] /\ a[2] < b[2])

\* A reading brought into the representable range.
Clamp(raw) == IF raw < 0 THEN 0 ELSE IF raw > MaxPhysicalMs THEN MaxPhysicalMs ELSE raw

\* Mutant: a clock that stands still or regresses is adopted as it is.
AdvanceToReading(last, raw) ==
    IF Clamp(raw) = last[1] THEN <<last[1], last[2] + 1>> ELSE <<Clamp(raw), 0>>

\* Mutant: on overflow the counter is reset and nothing is carried.
AdvanceWithoutCarry(last, raw) ==
    IF Clamp(raw) > last[1]       THEN <<Clamp(raw), 0>>
    ELSE IF last[2] < MaxLogical  THEN <<last[1], last[2] + 1>>
    ELSE                               <<last[1], 0>>

\* _advance: the wall clock where it is ahead, and otherwise the logical counter,
\* which on overflow carries one millisecond into the physical component.
Advance(last, raw) ==
    IF Clamp(raw) > last[1]       THEN <<Clamp(raw), 0>>
    ELSE IF last[2] < MaxLogical  THEN <<last[1], last[2] + 1>>
    ELSE                               <<last[1] + 1, 0>>

\* The carry leaves the 48-bit range: OverflowError, and no state changes.
Exhausted(last) == last = <<MaxPhysicalMs, MaxLogical>>

-----------------------------------------------------------------------------
\* A caller enters next_ordering_key.
Call(t) ==
    /\ call[t] = "idle"
    /\ call'   = [call EXCEPT ![t] = "called"]
    /\ before' = [before EXCEPT ![t] = returned]
    /\ UNCHANGED <<hlc, drawn, returned>>

\* with self._lock: physical, logical = self._advance().
Draw(t) ==
    /\ call[t] = "called"
    /\ ~Exhausted(hlc[NodeOf[t]])
    /\ call' = [call EXCEPT ![t] = "drawn"]
    /\ \E raw \in Readings :
          /\ drawn' = [drawn EXCEPT ![t] = Advance(hlc[NodeOf[t]], raw)]
          /\ hlc'   = [hlc EXCEPT ![NodeOf[t]] = Advance(hlc[NodeOf[t]], raw)]
    /\ UNCHANGED <<before, returned>>

\* The allocator has run out of keys and raises.
Raise(t) ==
    /\ call[t] = "called"
    /\ Exhausted(hlc[NodeOf[t]])
    /\ call'   = [call EXCEPT ![t] = "idle"]
    /\ before' = [before EXCEPT ![t] = {}]
    /\ UNCHANGED <<hlc, drawn, returned>>

\* The key is rendered outside the lock and returned.
Return(t) ==
    /\ call[t] = "drawn"
    /\ call'     = [call EXCEPT ![t] = "idle"]
    /\ returned' = returned \cup {<<NodeOf[t], drawn[t]>>}
    /\ drawn'    = [drawn EXCEPT ![t] = Start]
    /\ before'   = [before EXCEPT ![t] = {}]
    /\ UNCHANGED hlc

Init ==
    /\ hlc      = [n \in Nodes |-> Start]
    /\ call     = [t \in Threads |-> "idle"]
    /\ drawn    = [t \in Threads |-> Start]
    /\ before   = [t \in Threads |-> {}]
    /\ returned = {}

Next == \E t \in Threads : Call(t) \/ Draw(t) \/ Raise(t) \/ Return(t)

Spec == Init /\ [][Next]_vars

-----------------------------------------------------------------------------
(* Properties *)

\* Every clock and every key stays within its fixed width, so render_seq never
\* raises and string order is the order of the pairs.
TypeOK ==
    /\ hlc    \in [Nodes -> Seqs]
    /\ call   \in [Threads -> {"idle", "called", "drawn"}]
    /\ drawn  \in [Threads -> Seqs]
    /\ before \in [Threads -> SUBSET Keys]
    /\ returned \in SUBSET Keys

\* No two calls on a node get the same seq, whichever threads make them and whatever
\* the clock reads (ordering.py: "strictly increasing per node").
SeqsDistinct ==
    \A t \in Threads :
        call[t] = "drawn" =>
            /\ <<NodeOf[t], drawn[t]>> \notin returned
            /\ \A u \in Threads \ {t} :
                  (NodeOf[u] = NodeOf[t] /\ call[u] = "drawn") => drawn[u] # drawn[t]

\* Of two calls on a node, the one that began after the other had returned gets the
\* larger seq, past regressing clocks, clamped readings and counter overflow
\* (ordering.py: "never inverts admission order"; Req 3.1).
RealTimeOrder ==
    \A t \in Threads :
        call[t] = "drawn" =>
            \A k \in before[t] : k[1] = NodeOf[t] => Less(k[2], drawn[t])

\* A node's clock only moves forward.
ClockMovesForward ==
    [][\A n \in Nodes : hlc'[n] = hlc[n] \/ Less(hlc[n], hlc'[n])]_hlc
=============================================================================
