------------------------- MODULE AdmissionRegister -------------------------
(***************************************************************************)
(* What admission promises, with no table, transaction, guard, counter or  *)
(* retry in it: a fan is registered once, under a key that no other fan of *)
(* the shard has, and stays registered; each call is answered once, by a   *)
(* refusal or by the fan's key; and of all the calls for a fan at most one *)
(* is told that it admitted the fan.  Admission implements this.           *)
(***************************************************************************)
CONSTANTS Fans, Keys, Calls,
          FanOf,      \* the fan of each call
          ShardOf,    \* the shard of each fan
          None        \* no key

VARIABLES registered, \* the key each fan is registered under, or None
          told        \* what each call was answered

Pending == [outcome |-> "pending", key |-> None]

Init ==
    /\ registered = [f \in Fans |-> None]
    /\ told = [c \in Calls |-> Pending]

Free(f, k) ==
    \A g \in Fans : ShardOf[g] = ShardOf[f] => registered[g] # k

Enrol(f, k) ==
    /\ registered[f] = None /\ Free(f, k)
    /\ registered' = [registered EXCEPT ![f] = k]

Tell(c, outcome, k) ==
    /\ told[c] = Pending
    /\ told' = [told EXCEPT ![c] = [outcome |-> outcome, key |-> k]]

Register(f, k) == Enrol(f, k) /\ UNCHANGED told

Refuse(c) ==
    /\ \E o \in {"notOpen", "full", "retryable", "error"} : Tell(c, o, None)
    /\ UNCHANGED registered

\* A call learns nothing of its last attempt, which was applied, and has none left.
RegisterAndRefuse(c, k) == Enrol(FanOf[c], k) /\ Tell(c, "retryable", None)

TellAdmitted(c) ==
    /\ registered[FanOf[c]] # None
    /\ \A d \in Calls : FanOf[d] = FanOf[c] => told[d].outcome # "admitted"
    /\ Tell(c, "admitted", registered[FanOf[c]])
    /\ UNCHANGED registered

TellDuplicate(c) ==
    /\ registered[FanOf[c]] # None
    /\ Tell(c, "duplicate", registered[FanOf[c]])
    /\ UNCHANGED registered

Next ==
    \/ \E f \in Fans, k \in Keys : Register(f, k)
    \/ \E c \in Calls : \/ Refuse(c) \/ TellAdmitted(c) \/ TellDuplicate(c)
                        \/ \E k \in Keys : RegisterAndRefuse(c, k)

Spec == Init /\ [][Next]_<<registered, told>>
=============================================================================
