----------------------------- MODULE Lifecycle -----------------------------
(***************************************************************************)
(* The eligibility lifecycle of a Queue_Entry (waiting_room/lifecycle.py)  *)
(* and the conditional transition every component applies to an entry      *)
(* (LifecycleManager.apply_transition in waiting_room/lifecycle_manager.py)*)
(***************************************************************************)

\* The five persisted values of Eligibility_Status.
EligibilityStatus == {"WAITING", "ELIGIBLE", "ACTIVE", "EXPIRED", "COMPLETED"}

\* An ordering key under which no Queue_Entry item has been written yet.
NoEntry == "NO_ENTRY"

EntryState == EligibilityStatus \cup {NoEntry}

\* ALLOWED_TRANSITIONS: the only permitted edges.
AllowedTransitions == { <<"WAITING",  "ELIGIBLE">>,
                        <<"ELIGIBLE", "ACTIVE">>,
                        <<"ELIGIBLE", "EXPIRED">>,
                        <<"ACTIVE",   "COMPLETED">> }

IsAllowed(from, to) == <<from, to>> \in AllowedTransitions

\* The statuses that occupy a downstream slot (Eligible_Count, Active_Count).
Occupying == {"ELIGIBLE", "ACTIVE"}

\* The entries that hold one of the statuses S.
WithStatus(status, S) == { k \in DOMAIN status : status[k] \in S }

\* The conditional UpdateItem of apply_transition succeeds: the edge is a
\* permitted one and the entry still holds the expected status.
CanTransition(status, k, from, to) ==
    /\ IsAllowed(from, to)
    /\ status[k] = from
=============================================================================
