--------------------------- MODULE AtomicCounter ---------------------------
(***************************************************************************)
(* What the capacity counter promises to callers that reserve slots, with  *)
(* no version, snapshot or plan in it: a reservation takes effect at one   *)
(* instant and is granted all it asks for, or all that is left at that     *)
(* instant; it is refused only if the counter was written since its caller *)
(* looked.  Capacity implements this.                                      *)
(***************************************************************************)
EXTENDS Integers

CONSTANTS Callers,
          DownstreamCapacity,
          MaxRequest    \* the slots one call asks for, moves or frees at most

VARIABLES eligible, active, promoted,
          asked,        \* the slots each caller is asking for, or None
          looked,       \* the callers that have looked since the last write
          undisturbed   \* those that asked after such a look, with no write since

count == <<eligible, active, promoted>>
vars  == <<count, asked, looked, undisturbed>>

None == -1

Left == DownstreamCapacity - (eligible + active)

Move(e, a, t) ==
    /\ eligible' = eligible + e /\ eligible' >= 0
    /\ active'   = active + a   /\ active' >= 0
    /\ promoted' = promoted + t
    /\ looked' = {} /\ undisturbed' = {}

\* As many slots as are left, up to n of them.
Take(n) == LET granted == IF n < Left THEN n ELSE Left
           IN  Move(granted, 0, granted)

Look(c) ==
    /\ looked' = looked \cup {c}
    /\ UNCHANGED <<count, asked, undisturbed>>

Ask(c, n) ==
    /\ asked' = [asked EXCEPT ![c] = n]
    /\ undisturbed' = IF c \in looked THEN undisturbed \cup {c} ELSE undisturbed \ {c}
    /\ looked' = looked \ {c}
    /\ UNCHANGED count

Grant(c) ==
    /\ c \in undisturbed
    /\ Take(asked[c])
    /\ asked' = [asked EXCEPT ![c] = None]

Refuse(c) ==
    /\ asked[c] # None /\ c \notin undisturbed
    /\ asked' = [asked EXCEPT ![c] = None]
    /\ UNCHANGED <<count, looked, undisturbed>>

Reserve(n)   == Take(n) /\ UNCHANGED asked
Activate(n)  == Move(-n, n, 0) /\ UNCHANGED asked
Complete(n)  == Move(0, -n, 0) /\ UNCHANGED asked
Expire(n)    == Move(-n, 0, 0) /\ UNCHANGED asked

Init ==
    /\ eligible \in Nat /\ active \in Nat /\ Left >= 0
    /\ promoted = 0
    /\ asked = [c \in Callers |-> None]
    /\ looked = {} /\ undisturbed = {}

Next ==
    \/ \E c \in Callers : \/ Look(c) \/ Grant(c) \/ Refuse(c)
                          \/ \E n \in 0..MaxRequest : Ask(c, n)
    \/ \E n \in 0..MaxRequest : Reserve(n) \/ Activate(n) \/ Complete(n) \/ Expire(n)

Spec == Init /\ [][Next]_vars
=============================================================================
