---------------------------- MODULE WaitingRoom ----------------------------
(***************************************************************************)
(* What the waiting room promises, with no counter, worker, index or       *)
(* message in it: an entry waits, is let through while fewer than Capacity *)
(* entries occupy the downstream system, and then is active and completes, *)
(* or expires.  Promoter implements this specification.                    *)
(***************************************************************************)
EXTENDS Lifecycle, Integers, FiniteSets

CONSTANTS Entries,    \* the ordering keys an entry may be written under
          Capacity    \* Downstream_Capacity

VARIABLE status

Occupied == Cardinality(WithStatus(status, Occupying))

Move(k, from, to) ==
    /\ CanTransition(status, k, from, to)
    /\ status' = [status EXCEPT ![k] = to]

Admit(k) ==
    /\ status[k] = NoEntry
    /\ status' = [status EXCEPT ![k] = "WAITING"]

Promote(k)  == Occupied < Capacity /\ Move(k, "WAITING", "ELIGIBLE")
Activate(k) == Move(k, "ELIGIBLE", "ACTIVE")
Expire(k)   == Move(k, "ELIGIBLE", "EXPIRED")
Complete(k) == Move(k, "ACTIVE", "COMPLETED")

Init == status = [k \in Entries |-> NoEntry]

Next == \E k \in Entries :
            Admit(k) \/ Promote(k) \/ Activate(k) \/ Expire(k) \/ Complete(k)

Spec == Init /\ [][Next]_status
=============================================================================
