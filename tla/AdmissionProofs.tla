-------------------------- MODULE AdmissionProofs --------------------------
(***************************************************************************)
(* Theorems about Admission, for any number of calls, fans, keys, retries  *)
(* and faults: its types, one durable entry per fan, answers that name it, *)
(* and the register it implements.                                         *)
(***************************************************************************)
EXTENDS Admission, FiniteSetTheorems, TLAPS

\* The call that wrote the fan's entry, and learned so.
Holds(c) == pc[c] = "count" \/ answer[c].outcome = "admitted"

\* What a call knows at each step: it has a key, and once it has met its fan's guard
\* or written the entry, that is there.
CallsInv ==
    \A c \in Calls :
        /\ pc[c] \in {"write", "lookup", "count"} => key[c] \in Keys
        /\ pc[c] = "lookup" => guard[FanOf[c]] # None
        /\ pc[c] = "count" => Entry(c, key[c]) \in entries
        /\ pc[c] # "done" => answer[c] = Pending

\* Of the calls for a fan one at most wrote the entry and learned so.
OneAdmitted ==
    \A c, d \in Calls : FanOf[c] = FanOf[d] /\ Holds(c) /\ Holds(d) => c = d

IInv == TypeOK /\ CallsInv /\ OneEntryPerFan /\ AnswersAreDurable /\ OneAdmitted

USE CallsAssumption, LimitsAssumption, FaultsAssumption, KeysAssumption

-----------------------------------------------------------------------------
(* Lemmas *)

\* Drawing a key gives the call one, and touches no other call.
LEMMA DrawnKey ==
    ASSUME TypeOK, NEW c \in Calls, DrawKey(c)
    PROVE  /\ key' \in [Calls -> Keys \cup {None}] /\ tried' \in [Calls -> SUBSET Keys]
           /\ key'[c] \in Keys
           /\ \A d \in Calls \ {c} : key'[d] = key[d]
  BY DEF DrawKey, TypeOK

\* Answering ends the call with that answer, and touches no other call.
LEMMA Answered ==
    ASSUME TypeOK, NEW c \in Calls, NEW o \in Outcomes, NEW k \in Keys \cup {None},
           Answer(c, o, k)
    PROVE  /\ pc' \in [Calls -> {"idle", "write", "lookup", "count", "done"}]
           /\ key' \in [Calls -> Keys \cup {None}] /\ tried' \in [Calls -> SUBSET Keys]
           /\ attempt' \in [Calls -> 0..MaxRetries]
           /\ answer' \in [Calls -> [outcome : Outcomes \cup {"pending"},
                                     key : Keys \cup {None}]]
           /\ pc'[c] = "done" /\ answer'[c] = [outcome |-> o, key |-> k]
           /\ \A d \in Calls \ {c} :
                 pc'[d] = pc[d] /\ key'[d] = key[d] /\ answer'[d] = answer[d]
  BY DEF Answer, GoTo, TypeOK

\* A call that moves on without an answer.
LEMMA MovedOn ==
    ASSUME TypeOK, NEW c \in Calls, NEW s \in {"write", "lookup", "count"}, GoTo(c, s)
    PROVE  /\ pc' \in [Calls -> {"idle", "write", "lookup", "count", "done"}]
           /\ pc'[c] = s
           /\ \A d \in Calls \ {c} : pc'[d] = pc[d]
  BY DEF GoTo, TypeOK

\* A retry stays within the budget.
LEMMA Retried ==
    ASSUME TypeOK, NEW c \in Calls, RetryOrGiveUp(c)
    PROVE  \/ /\ attempt' \in [Calls -> 0..MaxRetries]
              /\ UNCHANGED <<pc, key, tried, answer>>
           \/ Answer(c, "retryable", None)
  BY DEF RetryOrGiveUp, ShouldRetry, TypeOK

\* The put of entry and guard: what it needs of the two conditions, and what it keeps.
LEMMA EntryAndGuardPut ==
    ASSUME TypeOK, OneEntryPerFan, NEW c \in Calls,
           key[c] \in Keys, ~Guarded(c), ~Taken(c), PutEntryAndGuard(c)
    PROVE  /\ entries' \subseteq [shard : Shards, key : Keys, fan : Fans]
           /\ guard' \in [Fans -> Keys \cup {None}]
           /\ OneEntryPerFan'
           /\ Entry(c, key[c]) \in entries' /\ entries \subseteq entries'
           /\ \A e \in entries : e.fan # FanOf[c]
           /\ \A f \in Fans : guard[f] # None => guard'[f] # None
  <1> DEFINE n == Entry(c, key[c])
  <1>1. FanOf[c] \in Fans /\ ShardOf[FanOf[c]] \in Shards
    OBVIOUS
  <1>2. n = [shard |-> ShardOf[FanOf[c]], key |-> key[c], fan |-> FanOf[c]]
    BY DEF Entry, HomeShard
  <1>3. n \in [shard : Shards, key : Keys, fan : Fans]
    BY <1>1, <1>2
  <1>4. entries' = entries \cup {n} /\ guard' = [guard EXCEPT ![FanOf[c]] = key[c]]
    BY DEF PutEntryAndGuard
  <1>5. guard' \in [Fans -> Keys \cup {None}]
        /\ guard'[FanOf[c]] = key[c] /\ \A f \in Fans \ {FanOf[c]} : guard'[f] = guard[f]
    BY <1>1, <1>4 DEF TypeOK
  <1>6. guard[FanOf[c]] = None
    BY DEF Guarded
  <1>7. \A e \in entries : e.fan \in Fans /\ e.key # None /\ guard[e.fan] = e.key
    BY DEF TypeOK, OneEntryPerFan
  <1>8. \A e \in entries : e.fan # FanOf[c]
    BY <1>6, <1>7
  <1>9. \A e \in entries : ~(e.shard = n.shard /\ e.key = n.key)
    BY <1>2 DEF Taken, HomeShard
  <1>10. OneEntryPerFan'
    <2>1. \A e \in entries' : e.shard = ShardOf[e.fan] /\ guard'[e.fan] = e.key
      BY <1>2, <1>4, <1>5, <1>7, <1>8 DEF OneEntryPerFan
    <2>2. \A f \in Fans :
             guard'[f] # None =>
                 [shard |-> ShardOf[f], key |-> guard'[f], fan |-> f] \in entries'
      <3> SUFFICES ASSUME NEW f \in Fans, guard'[f] # None
                   PROVE  [shard |-> ShardOf[f], key |-> guard'[f], fan |-> f] \in entries'
        OBVIOUS
      <3>1. CASE f = FanOf[c]
        BY <3>1, <1>2, <1>4, <1>5
      <3>2. CASE f # FanOf[c]
        BY <3>2, <1>4, <1>5 DEF OneEntryPerFan
      <3> QED BY <3>1, <3>2
    <2>3. \A d, e \in entries' : d.shard = e.shard /\ d.key = e.key => d = e
      BY <1>4, <1>9 DEF OneEntryPerFan
    <2> QED BY <2>1, <2>2, <2>3 DEF OneEntryPerFan
  <1> QED BY <1>3, <1>4, <1>5, <1>6, <1>8, <1>10 DEF TypeOK

\* The queue only grows, and a guard that is there stays.
Grows ==
    /\ entries \subseteq entries'
    /\ \A f \in Fans : guard[f] # None => guard'[f] # None

\* The parts of the invariant that speak of the calls.
Told == CallsInv /\ AnswersAreDurable /\ OneAdmitted

\* A call answers: with a key only if the fan's entry has it, and as the one that
\* admitted the fan only if it has written the entry.
LEMMA AnswerKeeps ==
    ASSUME IInv, Grows, NEW c \in Calls, NEW o \in Outcomes, NEW k \in Keys \cup {None},
           Answer(c, o, k),
           o \in {"admitted", "duplicate"} => Entry(c, k) \in entries',
           o = "admitted" => pc[c] = "count"
    PROVE  Told'
  <1>1. TypeOK
    BY DEF IInv
  <1>2. /\ pc'[c] = "done" /\ answer'[c] = [outcome |-> o, key |-> k]
        /\ \A d \in Calls \ {c} :
              pc'[d] = pc[d] /\ key'[d] = key[d] /\ answer'[d] = answer[d]
    BY <1>1, Answered
  <1>3. CallsInv'
    <2> SUFFICES ASSUME NEW d \in Calls
                 PROVE  /\ pc'[d] \in {"write", "lookup", "count"} => key'[d] \in Keys
                        /\ pc'[d] = "lookup" => guard'[FanOf[d]] # None
                        /\ pc'[d] = "count" => Entry(d, key'[d]) \in entries'
                        /\ pc'[d] # "done" => answer'[d] = Pending
      BY DEF CallsInv, Entry, HomeShard
    <2> QED BY <1>2 DEF IInv, CallsInv, Grows
  <1>4. AnswersAreDurable'
    <2> SUFFICES ASSUME NEW d \in Calls, answer'[d].outcome \in {"admitted", "duplicate"}
                 PROVE  Entry(d, answer'[d].key) \in entries'
      BY DEF AnswersAreDurable, Entry, HomeShard
    <2>1. CASE d = c
      BY <2>1, <1>2
    <2>2. CASE d # c
      BY <2>2, <1>2 DEF IInv, AnswersAreDurable, Grows
    <2> QED BY <2>1, <2>2
  <1>5. OneAdmitted'
    <2>1. \A d \in Calls : Holds(d)' => Holds(d)
      BY <1>2 DEF Holds
    <2> QED BY <2>1 DEF IInv, OneAdmitted
  <1> QED BY <1>3, <1>4, <1>5 DEF Told

\* A call goes on: to the lookup only if the guard is there, to the count only if it
\* has just written the entry and no other call has.
LEMMA MoveKeeps ==
    ASSUME IInv, Grows, UNCHANGED answer, NEW c \in Calls,
           \A d \in Calls \ {c} : pc'[d] = pc[d] /\ key'[d] = key[d],
           pc[c] # "done", pc'[c] # "done", key'[c] \in Keys,
           pc'[c] = "lookup" => guard'[FanOf[c]] # None,
           pc'[c] = "count" => /\ Entry(c, key'[c]) \in entries'
                               /\ \A d \in Calls : FanOf[d] = FanOf[c] => ~Holds(d)
    PROVE  Told'
  <1>1. CallsInv'
    <2> SUFFICES ASSUME NEW d \in Calls
                 PROVE  /\ pc'[d] \in {"write", "lookup", "count"} => key'[d] \in Keys
                        /\ pc'[d] = "lookup" => guard'[FanOf[d]] # None
                        /\ pc'[d] = "count" => Entry(d, key'[d]) \in entries'
                        /\ pc'[d] # "done" => answer'[d] = Pending
      BY DEF CallsInv, Entry, HomeShard
    <2> QED BY DEF IInv, CallsInv, Grows
  <1>2. AnswersAreDurable'
    BY DEF IInv, AnswersAreDurable, Grows, Entry, HomeShard
  <1>3. OneAdmitted'
    <2>1. \A d \in Calls \ {c} : Holds(d)' => Holds(d)
      BY DEF Holds
    <2>2. answer[c].outcome # "admitted"
      BY DEF IInv, CallsInv, Pending
    <2>3. Holds(c)' => pc'[c] = "count"
      BY <2>2 DEF Holds
    <2> QED BY <2>1, <2>3 DEF IInv, OneAdmitted
  <1> QED BY <1>1, <1>2, <1>3 DEF Told

\* No call is touched.
LEMMA QuietKeeps ==
    ASSUME IInv, UNCHANGED <<entries, guard, pc, key, answer>>
    PROVE  Told' /\ OneEntryPerFan'
  BY DEF IInv, Told, CallsInv, AnswersAreDurable, OneAdmitted, OneEntryPerFan, Holds,
         Entry, HomeShard

-----------------------------------------------------------------------------
(* The invariant *)

LEMMA InitInv == Init => IInv
  BY DEF Init, IInv, TypeOK, CallsInv, OneEntryPerFan, AnswersAreDurable, OneAdmitted,
         Holds, Pending, Outcomes

\* One lemma for each kind of step.

LEMMA RefusalKeeps ==
    ASSUME IInv, NEW c \in Calls, RefuseClosed(c) \/ RefuseFull(c)
    PROVE  IInv'
  <1>1. PICK o \in {"notOpen", "full"} :
            Answer(c, o, None) /\ UNCHANGED <<open, table, shardAdmitted, faults>>
    BY DEF RefuseClosed, RefuseFull
  <1>2. TypeOK'
    <2>1. o \in Outcomes /\ None \in Keys \cup {None} /\ TypeOK
      BY DEF IInv, Outcomes
    <2> QED BY <1>1, <2>1, Answered DEF TypeOK, table, faults
  <1>3. Grows /\ OneEntryPerFan'
    BY <1>1 DEF Grows, table, IInv, OneEntryPerFan
  <1>4. Told'
    BY <1>1, <1>3, AnswerKeeps DEF Outcomes
  <1> QED BY <1>2, <1>3, <1>4 DEF IInv, Told

LEMMA EntranceKeeps ==
    ASSUME IInv, NEW c \in Calls, Enter(c)
    PROVE  IInv'
  <1>1. /\ DrawKey(c) /\ GoTo(c, "write") /\ pc[c] = "idle"
        /\ UNCHANGED <<open, table, shardAdmitted, attempt, answer, faults>>
    BY DEF Enter
  <1>2. TypeOK'
    BY <1>1, DrawnKey, MovedOn DEF IInv, TypeOK, table, faults
  <1>3. Grows /\ OneEntryPerFan'
    BY <1>1 DEF Grows, table, IInv, OneEntryPerFan
  <1>4. Told'
    BY <1>1, <1>3, DrawnKey, MovedOn, MoveKeeps DEF IInv
  <1> QED BY <1>2, <1>3, <1>4 DEF IInv, Told

\* Whoever holds the fan's entry has the fan guarded.
LEMMA HolderGuards ==
    ASSUME IInv, NEW d \in Calls, Holds(d)
    PROVE  guard[FanOf[d]] # None
  <1>1. PICK k : Entry(d, k) \in entries
    BY DEF IInv, Holds, CallsInv, AnswersAreDurable
  <1>2. Entry(d, k).fan = FanOf[d] /\ Entry(d, k).key = k
    BY DEF Entry
  <1>3. k \in Keys
    BY <1>1, <1>2 DEF IInv, TypeOK
  <1> QED BY <1>1, <1>2, <1>3 DEF IInv, OneEntryPerFan

LEMMA CommitKeeps ==
    ASSUME IInv, NEW c \in Calls, Commit(c)
    PROVE  IInv'
  <1>1. /\ pc[c] = "write" /\ ~Guarded(c) /\ ~Taken(c)
        /\ PutEntryAndGuard(c) /\ GoTo(c, "count")
        /\ UNCHANGED <<open, admitCount, shardAdmitted, locals, answer, faults>>
    BY DEF Commit
  <1>2. key[c] \in Keys
    BY <1>1 DEF IInv, CallsInv
  <1>3. /\ entries' \subseteq [shard : Shards, key : Keys, fan : Fans]
        /\ guard' \in [Fans -> Keys \cup {None}]
        /\ OneEntryPerFan' /\ Grows /\ Entry(c, key[c]) \in entries'
    BY <1>1, <1>2, EntryAndGuardPut DEF IInv, Grows
  <1>4. TypeOK'
    BY <1>1, <1>3, MovedOn DEF IInv, TypeOK, locals, faults
  <1>5. \A d \in Calls : FanOf[d] = FanOf[c] => ~Holds(d)
    BY <1>1, HolderGuards DEF Guarded
  <1>6. Told'
    BY <1>1, <1>2, <1>3, <1>5, MovedOn, MoveKeeps DEF IInv, locals
  <1> QED BY <1>3, <1>4, <1>6 DEF IInv, Told

LEMMA DuplicateKeeps ==
    ASSUME IInv, NEW c \in Calls, Duplicate(c)
    PROVE  IInv'
  <1>1. /\ pc[c] = "write" /\ Guarded(c) /\ GoTo(c, "lookup")
        /\ UNCHANGED <<open, table, shardAdmitted, locals, answer, faults>>
    BY DEF Duplicate
  <1>2. TypeOK'
    BY <1>1, MovedOn DEF IInv, TypeOK, table, locals, faults
  <1>3. Grows /\ OneEntryPerFan'
    BY <1>1 DEF Grows, table, IInv, OneEntryPerFan
  <1>4. key[c] \in Keys /\ guard'[FanOf[c]] # None
    BY <1>1 DEF IInv, CallsInv, Guarded, table
  <1>5. Told'
    BY <1>1, <1>3, <1>4, MovedOn, MoveKeeps DEF IInv, locals
  <1> QED BY <1>2, <1>3, <1>5 DEF IInv, Told

LEMMA ReallocateKeeps ==
    ASSUME IInv, NEW c \in Calls, Reallocate(c)
    PROVE  IInv'
  <1>1. /\ pc[c] = "write" /\ DrawKey(c)
        /\ UNCHANGED <<open, table, shardAdmitted, pc, attempt, answer, faults>>
    BY DEF Reallocate
  <1>2. TypeOK'
    BY <1>1, DrawnKey DEF IInv, TypeOK, table, faults
  <1>3. Grows /\ OneEntryPerFan'
    BY <1>1 DEF Grows, table, IInv, OneEntryPerFan
  <1>4. Told'
    BY <1>1, <1>3, DrawnKey, MoveKeeps DEF IInv
  <1> QED BY <1>2, <1>3, <1>4 DEF IInv, Told

LEMMA ThrottleKeeps ==
    ASSUME IInv, NEW c \in Calls, Throttled(c)
    PROVE  IInv'
  <1>1. /\ pc[c] = "write" /\ RetryOrGiveUp(c)
        /\ UNCHANGED <<open, table, shardAdmitted, faults>>
    BY DEF Throttled
  <1>2. Grows /\ OneEntryPerFan'
    BY <1>1 DEF Grows, table, IInv, OneEntryPerFan
  <1>3. CASE /\ attempt' \in [Calls -> 0..MaxRetries]
             /\ UNCHANGED <<pc, key, tried, answer>>
    <2>1. TypeOK'
      BY <1>1, <1>3 DEF IInv, TypeOK, table, faults
    <2>2. Told'
      BY <1>1, <1>3, QuietKeeps DEF table
    <2> QED BY <1>2, <2>1, <2>2 DEF IInv, Told
  <1>4. CASE Answer(c, "retryable", None)
    <2>1. TypeOK'
      BY <1>1, <1>4, Answered DEF IInv, TypeOK, table, faults, Outcomes
    <2>2. Told'
      BY <1>2, <1>4, AnswerKeeps DEF Outcomes
    <2> QED BY <1>2, <2>1, <2>2 DEF IInv, Told
  <1> QED BY <1>1, <1>3, <1>4, Retried DEF IInv

LEMMA UnreportedCommitKeeps ==
    ASSUME IInv, NEW c \in Calls, CommitUnreported(c)
    PROVE  IInv'
  <1>1. /\ pc[c] = "write" /\ ~Guarded(c) /\ ~Taken(c)
        /\ Lose /\ PutEntryAndGuard(c) /\ RetryOrGiveUp(c)
        /\ UNCHANGED <<open, admitCount, shardAdmitted>>
    BY DEF CommitUnreported
  <1>2. key[c] \in Keys
    BY <1>1 DEF IInv, CallsInv
  <1>3. /\ entries' \subseteq [shard : Shards, key : Keys, fan : Fans]
        /\ guard' \in [Fans -> Keys \cup {None}]
        /\ OneEntryPerFan' /\ Grows
    BY <1>1, <1>2, EntryAndGuardPut DEF IInv, Grows
  <1>4. losses' \in 0..MaxLosses /\ resends' \in 0..MaxResends
    BY <1>1 DEF Lose, IInv, TypeOK
  <1>5. CASE /\ attempt' \in [Calls -> 0..MaxRetries]
             /\ UNCHANGED <<pc, key, tried, answer>>
    <2>1. TypeOK'
      BY <1>1, <1>3, <1>4, <1>5 DEF IInv, TypeOK
    <2>2. Told'
      BY <1>1, <1>2, <1>3, <1>5, MoveKeeps DEF IInv
    <2> QED BY <1>3, <2>1, <2>2 DEF IInv, Told
  <1>6. CASE Answer(c, "retryable", None)
    <2>1. TypeOK'
      BY <1>1, <1>3, <1>4, <1>6, Answered DEF IInv, TypeOK, Outcomes
    <2>2. Told'
      BY <1>3, <1>6, AnswerKeeps DEF Outcomes
    <2> QED BY <1>3, <2>1, <2>2 DEF IInv, Told
  <1> QED BY <1>1, <1>5, <1>6, Retried DEF IInv

LEMMA AbortKeeps ==
    ASSUME IInv, NEW c \in Calls, Abort(c)
    PROVE  IInv'
  <1>1. Lose /\ Answer(c, "error", None) /\ UNCHANGED <<open, table, shardAdmitted>>
    BY DEF Abort
  <1>2. TypeOK'
    <2>1. "error" \in Outcomes /\ None \in Keys \cup {None} /\ TypeOK
      BY DEF IInv, Outcomes
    <2>2. losses' \in 0..MaxLosses /\ resends' \in 0..MaxResends
      BY <1>1, <2>1 DEF TypeOK, Lose
    <2> QED BY <1>1, <2>1, <2>2, Answered DEF TypeOK, table
  <1>3. Grows /\ OneEntryPerFan'
    BY <1>1 DEF Grows, table, IInv, OneEntryPerFan
  <1>4. Told'
    BY <1>1, <1>3, AnswerKeeps DEF Outcomes
  <1> QED BY <1>2, <1>3, <1>4 DEF IInv, Told

LEMMA LookupKeeps ==
    ASSUME IInv, NEW c \in Calls, Lookup(c)
    PROVE  IInv'
  <1> DEFINE k == guard[FanOf[c]]
  <1>1. /\ pc[c] = "lookup" /\ Answer(c, "duplicate", k)
        /\ UNCHANGED <<open, table, shardAdmitted, faults>>
    BY DEF Lookup
  <1>2. k \in Keys \cup {None} /\ Entry(c, k) \in entries
    BY <1>1 DEF IInv, TypeOK, CallsInv, OneEntryPerFan, Entry, HomeShard
  <1>3. TypeOK'
    BY <1>1, <1>2, Answered DEF IInv, TypeOK, table, faults, Outcomes
  <1>4. Grows /\ OneEntryPerFan' /\ Entry(c, k) \in entries'
    BY <1>1, <1>2 DEF Grows, table, IInv, OneEntryPerFan
  <1>5. Told'
    BY <1>1, <1>2, <1>4, AnswerKeeps DEF Outcomes
  <1> QED BY <1>3, <1>4, <1>5 DEF IInv, Told

\* The three ways the count can go; the counter has no part in the invariant.
LEMMA CountKeeps ==
    ASSUME IInv, NEW c \in Calls, Count(c) \/ CountLost(c) \/ CountResent(c)
    PROVE  IInv'
  <1>1. /\ pc[c] = "count" /\ Answer(c, "admitted", key[c])
        /\ UNCHANGED <<open, entries, guard, shardAdmitted>>
    BY DEF Count, CountLost, CountResent, table
  <1>2. key[c] \in Keys /\ Entry(c, key[c]) \in entries
    BY <1>1 DEF IInv, CallsInv
  <1>3. HomeShard(c) \in Shards /\ admitCount[HomeShard(c)] \in Nat
    BY DEF HomeShard, IInv, TypeOK
  <1>4. admitCount' \in [Shards -> Nat]
    BY <1>3 DEF IInv, TypeOK, Count, CountLost, CountResent, AddToCount, table
  <1>5. losses' \in 0..MaxLosses /\ resends' \in 0..MaxResends
    BY DEF IInv, TypeOK, Count, CountLost, CountResent, Lose, faults
  <1>6. TypeOK'
    BY <1>1, <1>2, <1>4, <1>5, Answered DEF IInv, TypeOK, Outcomes
  <1>7. Grows /\ OneEntryPerFan' /\ Entry(c, key[c]) \in entries'
    BY <1>1, <1>2 DEF Grows, IInv, OneEntryPerFan
  <1>8. Told'
    BY <1>1, <1>2, <1>7, AnswerKeeps DEF Outcomes
  <1> QED BY <1>6, <1>7, <1>8 DEF IInv, Told

LEMMA StreamKeeps ==
    ASSUME IInv, (\E s \in Shards : Deliver(s)) \/ OpenOrClose \/ UNCHANGED vars
    PROVE  IInv'
  <1>1. UNCHANGED <<entries, guard, pc, key, answer>>
    BY DEF Deliver, ApplyAdmitCount, OpenOrClose, vars, table, locals
  <1>2. TypeOK'
    <2>1. CASE \E s \in Shards : Deliver(s)
      BY <2>1 DEF IInv, TypeOK, Deliver, ApplyAdmitCount, table, locals, faults
    <2>2. CASE OpenOrClose
      BY <2>2 DEF IInv, TypeOK, OpenOrClose, table, locals, faults
    <2>3. CASE UNCHANGED vars
      BY <2>3 DEF IInv, TypeOK, vars, table, locals, faults
    <2> QED BY <2>1, <2>2, <2>3
  <1> QED BY <1>1, <1>2, QuietKeeps DEF IInv, Told

LEMMA StepInv ==
    ASSUME IInv, [Next]_vars
    PROVE  IInv'
  BY RefusalKeeps, EntranceKeeps, CommitKeeps, DuplicateKeeps, ReallocateKeeps,
     ThrottleKeeps, UnreportedCommitKeeps, AbortKeeps, LookupKeeps, CountKeeps,
     StreamKeeps DEF Next, Work, Faulty

LEMMA InvHolds == Spec => []IInv
  BY InitInv, StepInv, PTL DEF Spec

-----------------------------------------------------------------------------
(* The counters *)

\* The calls that have written their entry and not yet counted it.
Uncounted(s) == { c \in Calls : pc[c] = "count" /\ HomeShard(c) = s }

Balanced(s) ==
    /\ admitCount[s] + Cardinality(Uncounted(s)) <= Cardinality(EntriesOf(s))
    /\ losses = 0 =>
           admitCount[s] + Cardinality(Uncounted(s)) = Cardinality(EntriesOf(s))

CountsInv ==
    /\ IsFiniteSet(entries)
    /\ resends = 0 => \A s \in Shards : Balanced(s)

\* The sets that are counted are finite.
LEMMA Countable ==
    ASSUME TypeOK, IsFiniteSet(entries), NEW s \in Shards
    PROVE  /\ IsFiniteSet(Uncounted(s)) /\ Cardinality(Uncounted(s)) \in Nat
           /\ IsFiniteSet(EntriesOf(s)) /\ Cardinality(EntriesOf(s)) \in Nat
           /\ admitCount[s] \in Nat
  <1>1. Uncounted(s) \subseteq Calls /\ EntriesOf(s) \subseteq entries
    BY DEF Uncounted, EntriesOf
  <1>2. IsFiniteSet(Uncounted(s)) /\ IsFiniteSet(EntriesOf(s))
    BY <1>1, FS_Subset
  <1> QED BY <1>2, FS_CardinalityType DEF TypeOK

\* A call comes to the count, or leaves it.
LEMMA UncountedAdds ==
    ASSUME TypeOK, IsFiniteSet(entries), NEW c \in Calls, pc[c] # "count",
           pc'[c] = "count", \A d \in Calls \ {c} : pc'[d] = pc[d], NEW s \in Shards
    PROVE  Cardinality(Uncounted(s)') =
               Cardinality(Uncounted(s)) + (IF HomeShard(c) = s THEN 1 ELSE 0)
  <1>1. CASE HomeShard(c) = s
    <2>1. Uncounted(s)' = Uncounted(s) \cup {c} /\ c \notin Uncounted(s)
      BY <1>1 DEF Uncounted, HomeShard
    <2> QED BY <1>1, <2>1, Countable, FS_AddElement
  <1>2. CASE HomeShard(c) # s
    <2>1. Uncounted(s)' = Uncounted(s)
      BY <1>2 DEF Uncounted, HomeShard
    <2> QED BY <1>2, <2>1, Countable
  <1> QED BY <1>1, <1>2

LEMMA UncountedRemoves ==
    ASSUME TypeOK, IsFiniteSet(entries), NEW c \in Calls, pc[c] = "count",
           pc'[c] # "count", \A d \in Calls \ {c} : pc'[d] = pc[d], NEW s \in Shards
    PROVE  Cardinality(Uncounted(s)') =
               Cardinality(Uncounted(s)) - (IF HomeShard(c) = s THEN 1 ELSE 0)
  <1>1. CASE HomeShard(c) = s
    <2>1. Uncounted(s)' = Uncounted(s) \ {c} /\ c \in Uncounted(s)
      BY <1>1 DEF Uncounted, HomeShard
    <2>2. Cardinality(Uncounted(s) \ {c}) = Cardinality(Uncounted(s)) - 1
      BY <2>1, Countable, FS_RemoveElement
    <2> QED BY <1>1, <2>1, <2>2
  <1>2. CASE HomeShard(c) # s
    <2>1. Uncounted(s)' = Uncounted(s)
      BY <1>2 DEF Uncounted, HomeShard
    <2> QED BY <1>2, <2>1, Countable
  <1> QED BY <1>1, <1>2

\* The put adds one entry to the call's shard.
LEMMA EntriesAdd ==
    ASSUME TypeOK, IsFiniteSet(entries), NEW c \in Calls, ~Taken(c), PutEntryAndGuard(c)
    PROVE  /\ IsFiniteSet(entries')
           /\ \A s \in Shards :
                 Cardinality(EntriesOf(s)') =
                     Cardinality(EntriesOf(s)) + (IF HomeShard(c) = s THEN 1 ELSE 0)
  <1> DEFINE n == Entry(c, key[c])
  <1>1. entries' = entries \cup {n} /\ n.shard = HomeShard(c) /\ n.key = key[c]
    BY DEF PutEntryAndGuard, Entry
  <1>2. n \notin entries
    BY <1>1 DEF Taken
  <1>3. IsFiniteSet(entries')
    BY <1>1, FS_AddElement
  <1>4. ASSUME NEW s \in Shards
        PROVE  Cardinality(EntriesOf(s)') =
                   Cardinality(EntriesOf(s)) + (IF HomeShard(c) = s THEN 1 ELSE 0)
    <2>1. CASE HomeShard(c) = s
      <3>1. EntriesOf(s)' = EntriesOf(s) \cup {n} /\ n \notin EntriesOf(s)
        BY <2>1, <1>1, <1>2 DEF EntriesOf
      <3> QED BY <2>1, <3>1, Countable, FS_AddElement
    <2>2. CASE HomeShard(c) # s
      <3>1. EntriesOf(s)' = EntriesOf(s)
        BY <2>2, <1>1 DEF EntriesOf
      <3> QED BY <2>2, <3>1, Countable
    <2> QED BY <2>1, <2>2
  <1> QED BY <1>3, <1>4

\* Whatever counts, and is counted, stays as it is.
LEMMA CountsUntouched ==
    ASSUME CountsInv, UNCHANGED <<entries, admitCount>>,
           \A d \in Calls : pc'[d] = "count" <=> pc[d] = "count",
           resends' = 0 => resends = 0, losses' = 0 => losses = 0
    PROVE  CountsInv'
  <1>1. \A s \in Shards : Uncounted(s)' = Uncounted(s) /\ EntriesOf(s)' = EntriesOf(s)
    BY DEF Uncounted, EntriesOf, HomeShard
  <1> QED BY <1>1 DEF CountsInv, Balanced

LEMMA CountsStep ==
    ASSUME IInv, CountsInv, [Next]_vars
    PROVE  CountsInv'
  <1> USE DEF IInv
  <1>1. ASSUME NEW c \in Calls,
               RefuseClosed(c) \/ RefuseFull(c) \/ Enter(c) \/ Duplicate(c)
                   \/ Reallocate(c) \/ Lookup(c) \/ Throttled(c)
        PROVE  CountsInv'
    <2>1. UNCHANGED <<entries, admitCount, losses, resends>>
      BY <1>1 DEF RefuseClosed, RefuseFull, Enter, Duplicate, Reallocate, Lookup,
                  Throttled, table, faults
    <2>2. \A d \in Calls : pc'[d] = "count" <=> pc[d] = "count"
      BY <1>1 DEF RefuseClosed, RefuseFull, Enter, Duplicate, Reallocate, Lookup,
                  Throttled, RetryOrGiveUp, Answer, GoTo, TypeOK
    <2> QED BY <2>1, <2>2, CountsUntouched
  <1>2. ASSUME NEW c \in Calls, Commit(c)
        PROVE  CountsInv'
    <2>1. /\ pc[c] # "count" /\ pc'[c] = "count" /\ \A d \in Calls \ {c} : pc'[d] = pc[d]
          /\ ~Taken(c) /\ PutEntryAndGuard(c) /\ UNCHANGED <<admitCount, losses, resends>>
      BY <1>2 DEF Commit, GoTo, TypeOK, faults
    <2> QED BY <2>1, Countable, UncountedAdds, EntriesAdd DEF CountsInv, Balanced
  <1>3. ASSUME NEW c \in Calls, CommitUnreported(c)
        PROVE  CountsInv'
    <2>1. /\ ~Taken(c) /\ PutEntryAndGuard(c) /\ losses' # 0
          /\ UNCHANGED <<admitCount, resends>>
      BY <1>3 DEF CommitUnreported, Lose, TypeOK
    <2>2. \A d \in Calls : pc'[d] = "count" <=> pc[d] = "count"
      BY <1>3 DEF CommitUnreported, RetryOrGiveUp, Answer, GoTo, TypeOK
    <2>3. \A s \in Shards : Uncounted(s)' = Uncounted(s)
      BY <2>2 DEF Uncounted, HomeShard
    <2> QED BY <2>1, <2>3, Countable, EntriesAdd DEF CountsInv, Balanced
  <1>4. ASSUME NEW c \in Calls, Count(c)
        PROVE  CountsInv'
    <2>1. /\ pc[c] = "count" /\ pc'[c] # "count" /\ \A d \in Calls \ {c} : pc'[d] = pc[d]
          /\ UNCHANGED <<entries, losses, resends>>
      BY <1>4 DEF Count, Answer, GoTo, TypeOK, faults
    <2>2. HomeShard(c) \in Shards
      BY DEF HomeShard
    <2>3. \A s \in Shards :
             admitCount'[s] = admitCount[s] + (IF HomeShard(c) = s THEN 1 ELSE 0)
      BY <1>4, <2>2 DEF Count, AddToCount, TypeOK
    <2>4. \A s \in Shards : EntriesOf(s)' = EntriesOf(s)
      BY <2>1 DEF EntriesOf
    <2> QED BY <2>1, <2>3, <2>4, Countable, UncountedRemoves DEF CountsInv, Balanced
  <1>5. ASSUME NEW c \in Calls, CountLost(c) \/ Abort(c)
        PROVE  CountsInv'
    <2>1. /\ pc'[c] # "count" /\ \A d \in Calls \ {c} : pc'[d] = pc[d]
          /\ losses' # 0 /\ UNCHANGED <<entries, admitCount, resends>>
      BY <1>5 DEF CountLost, Abort, Lose, Answer, GoTo, TypeOK, table
    <2>2. \A s \in Shards : EntriesOf(s)' = EntriesOf(s)
      BY <2>1 DEF EntriesOf
    <2>3. CASE pc[c] = "count"
      <3>1. ASSUME NEW s \in Shards, CountsInv
            PROVE  Cardinality(Uncounted(s)') <= Cardinality(Uncounted(s))
                   /\ Cardinality(Uncounted(s)') \in Int
        BY <2>1, <2>3, <3>1, Countable, UncountedRemoves DEF CountsInv
      <3>2. \A s \in Shards : /\ Cardinality(Uncounted(s)) \in Int
                             /\ admitCount[s] \in Int /\ Cardinality(EntriesOf(s)) \in Int
        BY Countable DEF CountsInv
      <3> QED BY <2>1, <2>2, <3>1, <3>2 DEF CountsInv, Balanced
    <2>4. CASE pc[c] # "count"
      <3>1. \A s \in Shards : Uncounted(s)' = Uncounted(s)
        BY <2>1, <2>4 DEF Uncounted, HomeShard
      <3> QED BY <2>1, <2>2, <3>1 DEF CountsInv, Balanced
    <2> QED BY <2>3, <2>4
  <1>6. ASSUME NEW c \in Calls, CountResent(c)
        PROVE  CountsInv'
    <2>1. entries' = entries /\ resends' # 0
      BY <1>6 DEF CountResent, TypeOK
    <2> QED BY <2>1 DEF CountsInv
  <1>7. ASSUME (\E s \in Shards : Deliver(s)) \/ OpenOrClose \/ UNCHANGED vars
        PROVE  CountsInv'
    <2>1. UNCHANGED <<entries, admitCount, pc, losses, resends>>
      BY <1>7 DEF Deliver, ApplyAdmitCount, OpenOrClose, vars, table, faults
    <2> QED BY <2>1, CountsUntouched
  <1> QED
    BY <1>1, <1>2, <1>3, <1>4, <1>5, <1>6, <1>7 DEF Next, Work, Faulty

LEMMA CountsInit == Init => CountsInv
  <1> SUFFICES ASSUME Init PROVE CountsInv
    OBVIOUS
  <1>1. entries = {} /\ IsFiniteSet(entries)
    BY FS_EmptySet DEF Init
  <1>2. ASSUME NEW s \in Shards PROVE Uncounted(s) = {} /\ EntriesOf(s) = {}
    BY DEF Init, Uncounted, EntriesOf
  <1>3. Cardinality({}) = 0
    BY FS_EmptySet
  <1>4. ASSUME NEW s \in Shards PROVE Balanced(s)
    <2>1. admitCount[s] = 0
      BY DEF Init
    <2>2. Cardinality(Uncounted(s)) = 0 /\ Cardinality(EntriesOf(s)) = 0
      BY <1>2, <1>3
    <2> QED BY <2>1, <2>2 DEF Balanced
  <1> QED BY <1>1, <1>4 DEF CountsInv

-----------------------------------------------------------------------------
(* The queue-full gate *)

\* The sum of the counters is no more than the entries: the i-th admission counted of a
\* shard can be given the i-th of its entries, and no two get the same one.
LEMMA TotalFollowsEntries ==
    ASSUME TypeOK, CountsInv, resends = 0,
           \A s \in Shards : shardAdmitted[s] <= admitCount[s]
    PROVE  AdmittedTotal \in Nat /\ AdmittedTotal <= Cardinality(entries)
  <1> DEFINE counted == UNION { {s} \X (1..shardAdmitted[s]) : s \in Shards }
             nth(s)  == CHOOSE g : g \in Bijection(1..Cardinality(EntriesOf(s)), EntriesOf(s))
             entryOf == [p \in counted |-> nth(p[1])[p[2]]]
  <1>1. \A s \in Shards : nth(s) \in Bijection(1..Cardinality(EntriesOf(s)), EntriesOf(s))
    <2> SUFFICES ASSUME NEW s \in Shards
                 PROVE  \E g : g \in Bijection(1..Cardinality(EntriesOf(s)), EntriesOf(s))
      OBVIOUS
    <2>1. ExistsBijection(1..Cardinality(EntriesOf(s)), EntriesOf(s))
      BY Countable, FS_CardinalityType DEF CountsInv
    <2> QED BY <2>1 DEF ExistsBijection
  <1>2. ASSUME NEW p \in counted
        PROVE  /\ p[1] \in Shards /\ p[2] \in 1..Cardinality(EntriesOf(p[1]))
               /\ p = <<p[1], p[2]>>
    <2>1. PICK s \in Shards : p \in {s} \X (1..shardAdmitted[s])
      OBVIOUS
    <2>2. /\ shardAdmitted[s] \in Nat /\ admitCount[s] \in Nat
          /\ Cardinality(Uncounted(s)) \in Nat /\ Cardinality(EntriesOf(s)) \in Nat
      BY Countable DEF TypeOK, CountsInv
    <2>3. admitCount[s] + Cardinality(Uncounted(s)) <= Cardinality(EntriesOf(s))
      BY DEF CountsInv, Balanced
    <2>4. shardAdmitted[s] <= Cardinality(EntriesOf(s))
      BY <2>2, <2>3
    <2> QED BY <2>1, <2>2, <2>4
  <1>3. ASSUME NEW s \in Shards, NEW i \in 1..Cardinality(EntriesOf(s))
        PROVE  /\ nth(s)[i] \in entries /\ nth(s)[i].shard = s
               /\ \A j \in 1..Cardinality(EntriesOf(s)) : nth(s)[i] = nth(s)[j] => i = j
    <2> DEFINE g == nth(s)
    <2>1. g \in Bijection(1..Cardinality(EntriesOf(s)), EntriesOf(s))
      BY <1>1
    <2> HIDE DEF g
    <2>2. /\ g \in [1..Cardinality(EntriesOf(s)) -> EntriesOf(s)]
          /\ \A j \in 1..Cardinality(EntriesOf(s)) : g[i] = g[j] => i = j
      BY <2>1 DEF Bijection, Injection, IsInjective
    <2>3. g[i] \in entries /\ g[i].shard = s
      BY <2>2 DEF EntriesOf
    <2> QED BY <2>2, <2>3 DEF g
  <1> HIDE DEF nth
  <1>4. entryOf \in Injection(counted, entries)
    <2>1. entryOf \in [counted -> entries]
      BY <1>2, <1>3
    <2>2. ASSUME NEW p \in counted, NEW q \in counted, entryOf[p] = entryOf[q]
          PROVE  p = q
      <3>1. nth(p[1])[p[2]] = nth(q[1])[q[2]]
        BY <2>2
      <3>2. p[1] = q[1]
        BY <3>1, <1>2, <1>3
      <3>3. p[2] = q[2]
        BY <3>1, <3>2, <1>2, <1>3
      <3> QED BY <3>2, <3>3, <1>2
    <2> QED BY <2>1, <2>2 DEF Injection, IsInjective
  <1>5. IsFiniteSet(counted) /\ Cardinality(counted) <= Cardinality(entries)
    <2> HIDE DEF counted, entryOf
    <2> QED BY <1>4, FS_Injection DEF CountsInv
  <1>6. Cardinality(counted) \in Nat
    BY <1>5, FS_CardinalityType
  <1> QED BY <1>5, <1>6 DEF AdmittedTotal

\* No call is answered anew that the queue is full, and the queue only grows.
LEMMA FullUntouched ==
    ASSUME FullIsTrue, CountsInv, CountsInv', entries \subseteq entries',
           resends' = 0 => resends = 0,
           \A s \in Shards : shardAdmitted'[s] <= admitCount'[s],
           \A c \in Calls : answer'[c].outcome = "full" => answer[c].outcome = "full"
    PROVE  FullIsTrue'
  <1>1. Cardinality(entries) <= Cardinality(entries')
    BY FS_Subset DEF CountsInv
  <1>2. Cardinality(entries) \in Nat /\ Cardinality(entries') \in Nat
    BY FS_CardinalityType DEF CountsInv
  <1>3. MaxQueueSize \in Nat
    OBVIOUS
  <1> QED BY <1>1, <1>2, <1>3 DEF FullIsTrue

LEMMA FullInit == Init => FullIsTrue
  BY DEF Init, FullIsTrue, Pending

LEMMA FullStep ==
    ASSUME IInv, CountsInv, CountsInv', FullIsTrue, [Next]_vars
    PROVE  FullIsTrue'
  <1> USE DEF IInv
  <1>1. ASSUME NEW c \in Calls, RefuseFull(c)
        PROVE  FullIsTrue'
    <2>1. UNCHANGED <<entries, admitCount, shardAdmitted, resends>>
          /\ AdmittedTotal >= MaxQueueSize
      BY <1>1 DEF RefuseFull, table, faults
    <2>2. CASE resends = 0
      <3>1. AdmittedTotal \in Nat /\ AdmittedTotal <= Cardinality(entries)
        BY <2>2, TotalFollowsEntries DEF FullIsTrue
      <3>2. Cardinality(entries) \in Nat
        BY FS_CardinalityType DEF CountsInv
      <3> QED BY <2>1, <3>1, <3>2 DEF FullIsTrue
    <2>3. CASE resends # 0
      BY <2>1, <2>3 DEF FullIsTrue
    <2> QED BY <2>2, <2>3
  <1>2. ASSUME NEW c \in Calls,
               RefuseClosed(c) \/ Enter(c) \/ Work(c) \/ Throttled(c) \/ Faulty(c)
        PROVE  FullIsTrue'
    <2> USE <1>2 DEF Work, Faulty
    <2>1. \A d \in Calls : answer'[d].outcome = "full" => answer[d].outcome = "full"
      BY DEF RefuseClosed, Enter, Commit, Duplicate, Reallocate, Lookup, Count, Throttled,
             CommitUnreported, Abort, CountLost, CountResent, RetryOrGiveUp, Answer, TypeOK
    <2>2. entries \subseteq entries'
      BY DEF RefuseClosed, Enter, Commit, Duplicate, Reallocate, Lookup, Count, Throttled,
             CommitUnreported, Abort, CountLost, CountResent, PutEntryAndGuard, table
    <2>3. resends' = 0 => resends = 0
      BY DEF RefuseClosed, Enter, Commit, Duplicate, Reallocate, Lookup, Count, Throttled,
             CommitUnreported, Abort, CountLost, CountResent, Lose, faults, TypeOK
    <2>4. \A s \in Shards : shardAdmitted'[s] <= admitCount'[s]
      <3>1. shardAdmitted' = shardAdmitted
        BY DEF RefuseClosed, Enter, Commit, Duplicate, Reallocate, Lookup, Count, Throttled,
               CommitUnreported, Abort, CountLost, CountResent
      <3>2. admitCount' = admitCount \/ AddToCount(c, 1) \/ AddToCount(c, 2)
        BY DEF RefuseClosed, Enter, Commit, Duplicate, Reallocate, Lookup, Count, Throttled,
               CommitUnreported, Abort, CountLost, CountResent, table
      <3>3. \A s \in Shards : admitCount'[s] >= admitCount[s]
        BY <3>2 DEF AddToCount, TypeOK
      <3>4. \A s \in Shards : admitCount[s] \in Nat /\ admitCount'[s] \in Nat
                              /\ shardAdmitted[s] \in Nat
        BY <3>2 DEF AddToCount, TypeOK
      <3> QED BY <3>1, <3>3, <3>4 DEF FullIsTrue
    <2> QED BY <2>1, <2>2, <2>3, <2>4, FullUntouched
  <1>3. ASSUME NEW s \in Shards, Deliver(s)
        PROVE  FullIsTrue'
    <2>1. PICK n \in 1..admitCount[s] : ApplyAdmitCount(s, n)
      BY <1>3 DEF Deliver
    <2>2. \A r \in Shards : shardAdmitted'[r] <= admitCount[r]
      BY <2>1 DEF ApplyAdmitCount, TypeOK, FullIsTrue
    <2>3. UNCHANGED <<entries, admitCount, answer, resends>>
      BY <2>1 DEF ApplyAdmitCount, table, faults
    <2> QED BY <2>2, <2>3, FullUntouched
  <1>4. ASSUME OpenOrClose \/ UNCHANGED vars
        PROVE  FullIsTrue'
    BY <1>4 DEF OpenOrClose, vars, table, faults, FullIsTrue
  <1> QED BY <1>1, <1>2, <1>3, <1>4 DEF Next

-----------------------------------------------------------------------------
(* The keys a call gives up *)

\* The keys under which the call's shard holds entries of other fans.
OthersKeys(c) ==
    { e.key : e \in { x \in EntriesOf(HomeShard(c)) : x.fan # FanOf[c] } }

\* A call gives up a key only to another fan's entry, so that however often it collides
\* it draws one key more, at most, than its shard has entries, and while it has to draw
\* again there is a key it has not tried, if the fans are finitely many (admission.py:
\* reallocation is immediate and has no budget).
CollisionsEnd ==
    \A c \in Calls :
        /\ tried[c] \ {key[c]} \subseteq OthersKeys(c)
        /\ Cardinality(tried[c]) <= Cardinality(EntriesOf(HomeShard(c))) + 1
        /\ (IsFiniteSet(Fans) /\ pc[c] = "write" /\ ~Guarded(c) /\ Taken(c)) =>
               \E k \in Keys : k \notin tried[c]

GivenUp(c) ==
    /\ tried[c] \ {key[c]} \subseteq OthersKeys(c)
    /\ pc[c] = "idle" => tried[c] = {}

GivenUpInv == \A c \in Calls : GivenUp(c)

\* The keys of other fans' entries are no more than the entries, and fewer than the fans.
LEMMA OthersKeysCount ==
    ASSUME IInv, IsFiniteSet(entries), NEW c \in Calls
    PROVE  /\ IsFiniteSet(OthersKeys(c))
           /\ Cardinality(OthersKeys(c)) <= Cardinality(EntriesOf(HomeShard(c)))
           /\ IsFiniteSet(Fans) => Cardinality(OthersKeys(c)) < Cardinality(Fans)
  <1> DEFINE O == { x \in EntriesOf(HomeShard(c)) : x.fan # FanOf[c] }
             holder(k) == CHOOSE e \in O : e.key = k
  <1>1. O \subseteq EntriesOf(HomeShard(c)) /\ EntriesOf(HomeShard(c)) \subseteq entries
    BY DEF EntriesOf
  <1>2. \A k \in OthersKeys(c) : holder(k) \in O /\ holder(k).key = k
    BY DEF OthersKeys
  <1>3. \A e \in O : e.fan \in Fans \ {FanOf[c]} /\ guard[e.fan] = e.key
    BY <1>1 DEF IInv, TypeOK, OneEntryPerFan
  <1>4. IsFiniteSet(O) /\ IsFiniteSet(EntriesOf(HomeShard(c)))
        /\ Cardinality(O) <= Cardinality(EntriesOf(HomeShard(c)))
    BY <1>1, FS_Subset
  <1>5. [k \in OthersKeys(c) |-> holder(k)] \in Injection(OthersKeys(c), O)
    <2> DEFINE f == [k \in OthersKeys(c) |-> holder(k)]
    <2>1. f \in [OthersKeys(c) -> O] /\ \A k \in OthersKeys(c) : f[k].key = k
      BY <1>2
    <2> HIDE DEF f
    <2> QED BY <2>1 DEF Injection, IsInjective
  <1>6. IsFiniteSet(OthersKeys(c)) /\ Cardinality(OthersKeys(c)) <= Cardinality(O)
    BY <1>4, <1>5, FS_Injection
  <1>7. ASSUME IsFiniteSet(Fans)
        PROVE  Cardinality(OthersKeys(c)) < Cardinality(Fans)
    <2> DEFINE g == [k \in OthersKeys(c) |-> holder(k).fan]
    <2>1. /\ g \in [OthersKeys(c) -> Fans \ {FanOf[c]}]
          /\ \A k \in OthersKeys(c) : guard[g[k]] = k
      BY <1>2, <1>3
    <2> HIDE DEF g
    <2>2. g \in Injection(OthersKeys(c), Fans \ {FanOf[c]})
      BY <2>1 DEF Injection, IsInjective
    <2>3. FanOf[c] \in Fans
      OBVIOUS
    <2>4. /\ IsFiniteSet(Fans \ {FanOf[c]})
          /\ Cardinality(Fans \ {FanOf[c]}) = Cardinality(Fans) - 1
      BY <1>7, <2>3, FS_RemoveElement
    <2>5. Cardinality(OthersKeys(c)) <= Cardinality(Fans) - 1
      BY <2>2, <2>4, FS_Injection
    <2>6. Cardinality(OthersKeys(c)) \in Nat /\ Cardinality(Fans) \in Nat
      BY <1>6, <1>7, FS_CardinalityType
    <2> QED BY <2>5, <2>6
  <1>8. /\ Cardinality(OthersKeys(c)) \in Nat /\ Cardinality(O) \in Nat
        /\ Cardinality(EntriesOf(HomeShard(c))) \in Nat
    BY <1>4, <1>6, FS_CardinalityType
  <1>9. Cardinality(OthersKeys(c)) <= Cardinality(EntriesOf(HomeShard(c)))
    BY <1>4, <1>6, <1>8
  <1> QED BY <1>6, <1>7, <1>9

\* What a call has given up is given up while the queue only grows.
LEMMA GivenUpStays ==
    ASSUME IInv, NEW c \in Calls, GivenUp(c), entries \subseteq entries',
           tried'[c] \ {key'[c]} \subseteq tried[c] \ {key[c]},
           pc'[c] = "idle" => tried'[c] = {}
    PROVE  GivenUp(c)'
  <1>1. OthersKeys(c) \subseteq OthersKeys(c)'
    BY DEF OthersKeys, EntriesOf, HomeShard
  <1> QED BY <1>1 DEF GivenUp

LEMMA GivenUpStep ==
    ASSUME IInv, GivenUpInv, [Next]_vars
    PROVE  GivenUpInv'
  <1> USE DEF IInv
  <1> SUFFICES ASSUME NEW c \in Calls, GivenUp(c) PROVE GivenUp(c)'
    BY DEF GivenUpInv
  <1>1. entries \subseteq entries'
    BY DEF Next, Work, Faulty, RefuseClosed, RefuseFull, Enter, Commit, Duplicate,
           Reallocate, Lookup, Count, Throttled, CommitUnreported, Abort, CountLost,
           CountResent, PutEntryAndGuard, Deliver, ApplyAdmitCount, OpenOrClose, vars, table
  <1>2. CASE Reallocate(c)
    <2>1. PICK e \in entries : e.shard = HomeShard(c) /\ e.key = key[c]
      BY <1>2 DEF Reallocate, Taken
    <2>2. e.fan # FanOf[c]
      BY <1>2, <2>1 DEF Reallocate, Guarded, OneEntryPerFan, TypeOK
    <2>3. key[c] \in OthersKeys(c)
      BY <2>1, <2>2 DEF OthersKeys, EntriesOf
    <2>4. OthersKeys(c)' = OthersKeys(c)
      BY <1>2 DEF Reallocate, table, OthersKeys, EntriesOf, HomeShard
    <2>5. tried'[c] \ {key'[c]} \subseteq tried[c] /\ pc'[c] # "idle"
      BY <1>2 DEF Reallocate, DrawKey, TypeOK
    <2> QED BY <2>3, <2>4, <2>5 DEF GivenUp
  <1>3. CASE Enter(c)
    <2>1. tried'[c] = {key'[c]} /\ pc'[c] # "idle"
      BY <1>3 DEF Enter, DrawKey, GoTo, GivenUp, TypeOK
    <2> QED BY <1>1, <2>1, GivenUpStays
  <1>4. CASE ~Reallocate(c) /\ ~Enter(c)
    <2>1. \/ /\ tried'[c] = tried[c] /\ key'[c] = key[c]
             /\ pc'[c] = "idle" => pc[c] = "idle"
          \/ tried'[c] = {}
      <3>1. ASSUME NEW d \in Calls,
                   \/ RefuseClosed(d) \/ RefuseFull(d) \/ Commit(d) \/ Duplicate(d)
                   \/ Lookup(d) \/ Count(d) \/ Throttled(d) \/ CommitUnreported(d)
                   \/ Abort(d) \/ CountLost(d) \/ CountResent(d)
            PROVE  \/ /\ tried'[c] = tried[c] /\ key'[c] = key[c]
                      /\ pc'[c] = "idle" => pc[c] = "idle"
                   \/ tried'[c] = {}
        BY <3>1 DEF RefuseClosed, RefuseFull, Commit, Duplicate, Lookup, Count, Throttled,
                    CommitUnreported, Abort, CountLost, CountResent, RetryOrGiveUp, Answer,
                    GoTo, locals, TypeOK
      <3>2. ASSUME NEW d \in Calls, d # c, Reallocate(d) \/ Enter(d)
            PROVE  tried'[c] = tried[c] /\ key'[c] = key[c] /\ pc'[c] = pc[c]
        BY <3>2 DEF Reallocate, Enter, DrawKey, GoTo, TypeOK
      <3>3. ASSUME (\E s \in Shards : Deliver(s)) \/ OpenOrClose \/ UNCHANGED vars
            PROVE  tried' = tried /\ key' = key /\ pc' = pc
        BY <3>3 DEF Deliver, ApplyAdmitCount, OpenOrClose, vars, locals
      <3> QED BY <1>4, <3>1, <3>2, <3>3 DEF Next, Work, Faulty
    <2> QED BY <1>1, <2>1, GivenUpStays DEF GivenUp
  <1> QED BY <1>2, <1>3, <1>4

-----------------------------------------------------------------------------
(* Safety *)

\* Every variable of Admission keeps its type and no call retries past its budget.
THEOREM AdmissionTypeCorrect == Spec => []TypeOK
  BY InvHolds, PTL DEF IInv

\* However many calls for a fan race, are throttled, are retried after an unreported
\* commit or crash, the fan has one entry, the entry its guard and the guard its entry.
THEOREM EntriesAreUnique == Spec => []OneEntryPerFan
  BY InvHolds, PTL DEF IInv

\* Every key a call was answered with is that of the fan's entry.
THEOREM AnswersLast == Spec => []AnswersAreDurable
  BY InvHolds, PTL DEF IInv

\* The counter of a shard never runs ahead of its entries unless the SDK resends, and
\* without faults misses only those whose calls are about to count them.
THEOREM CountersFollowEntries == Spec => []CountsEntries
  <1>1. CountsInv => CountsEntries
    <2> SUFFICES ASSUME resends = 0, \A s \in Shards : Balanced(s) PROVE CountsEntries
      BY DEF CountsInv, CountsEntries
    <2> QED BY Zenon DEF Balanced, Uncounted, CountsEntries
  <1> QED BY <1>1, CountsInit, CountsStep, InvHolds, PTL DEF Spec

\* A fan who is told that the queue is full is told so of a queue that has MaxQueueSize
\* entries, whatever the stream delays, repeats or reorders, unless the SDK resends.
THEOREM FullIsNeverFalse == Spec => []FullIsTrue
  BY InvHolds, CountsInit, CountsStep, FullInit, FullStep, PTL DEF Spec

\* A call that collides gives up a key only to an entry that another fan has under it:
\* it draws at most one key more than its shard has entries, and is never without one
\* it can draw.
THEOREM CollisionsAreBounded == Spec => []CollisionsEnd
  <1>1. Init => GivenUpInv
    BY DEF Init, GivenUp, GivenUpInv
  <1>2. IInv /\ CountsInv /\ GivenUpInv => CollisionsEnd
    <2> SUFFICES ASSUME IInv, CountsInv, GivenUpInv, NEW c \in Calls
                 PROVE  /\ tried[c] \ {key[c]} \subseteq OthersKeys(c)
                        /\ Cardinality(tried[c]) <= Cardinality(EntriesOf(HomeShard(c))) + 1
                        /\ (IsFiniteSet(Fans) /\ pc[c] = "write" /\ ~Guarded(c) /\ Taken(c)) =>
                               \E k \in Keys : k \notin tried[c]
      BY DEF CollisionsEnd
    <2>1. HomeShard(c) \in Shards /\ TypeOK /\ IsFiniteSet(entries)
      BY DEF HomeShard, IInv, CountsInv
    <2>2. tried[c] \subseteq OthersKeys(c) \cup {key[c]}
      BY DEF GivenUp, GivenUpInv
    <2>3. /\ IsFiniteSet(OthersKeys(c)) /\ Cardinality(OthersKeys(c)) \in Nat
          /\ Cardinality(OthersKeys(c)) <= Cardinality(EntriesOf(HomeShard(c)))
          /\ Cardinality(EntriesOf(HomeShard(c))) \in Nat
      BY <2>1, OthersKeysCount, Countable, FS_CardinalityType
    <2>4. Cardinality(tried[c]) <= Cardinality(EntriesOf(HomeShard(c))) + 1
      <3>1. /\ IsFiniteSet(OthersKeys(c) \cup {key[c]})
            /\ Cardinality(OthersKeys(c) \cup {key[c]}) <= Cardinality(OthersKeys(c)) + 1
        <4> DEFINE O == OthersKeys(c)
        <4>1. IsFiniteSet(O) /\ Cardinality(O) \in Nat
          BY <2>3
        <4> HIDE DEF O
        <4>2. IsFiniteSet(O \cup {key[c]})
              /\ (Cardinality(O \cup {key[c]}) = Cardinality(O)
                  \/ Cardinality(O \cup {key[c]}) = Cardinality(O) + 1)
          BY <4>1, FS_AddElement
        <4>3. Cardinality(O \cup {key[c]}) <= Cardinality(O) + 1
          BY <4>1, <4>2
        <4> QED BY <4>2, <4>3 DEF O
      <3>2. /\ Cardinality(tried[c]) <= Cardinality(OthersKeys(c) \cup {key[c]})
            /\ Cardinality(tried[c]) \in Nat
            /\ Cardinality(OthersKeys(c) \cup {key[c]}) \in Nat
        BY <2>2, <3>1, FS_Subset, FS_CardinalityType
      <3> QED BY <2>3, <3>1, <3>2
    <2>5. ASSUME IsFiniteSet(Fans), pc[c] = "write", ~Guarded(c), Taken(c)
          PROVE  \E k \in Keys : k \notin tried[c]
      <3>1. PICK e \in entries : e.shard = HomeShard(c) /\ e.key = key[c]
        BY <2>5 DEF Taken
      <3>2. e.fan # FanOf[c]
        BY <2>5, <3>1 DEF Guarded, IInv, OneEntryPerFan, TypeOK
      <3>3. tried[c] \subseteq OthersKeys(c)
        BY <2>2, <3>1, <3>2 DEF OthersKeys, EntriesOf
      <3>4. Cardinality(tried[c]) < Cardinality(Fans)
        <4>1. Cardinality(tried[c]) <= Cardinality(OthersKeys(c)) /\ IsFiniteSet(tried[c])
          BY <2>3, <3>3, FS_Subset
        <4>2. Cardinality(OthersKeys(c)) < Cardinality(Fans)
          BY <2>1, <2>5, OthersKeysCount
        <4>3. Cardinality(tried[c]) \in Nat /\ Cardinality(Fans) \in Nat
          BY <2>5, <4>1, FS_CardinalityType
        <4> QED BY <2>3, <4>1, <4>2, <4>3
      <3> SUFFICES ASSUME tried[c] = Keys PROVE FALSE
        BY <2>1 DEF TypeOK
      <3>5. Cardinality(tried[c]) \in Nat /\ Cardinality(Fans) \in Nat
        BY <2>3, <2>5, <3>3, FS_Subset, FS_CardinalityType
      <3> QED BY <3>4, <3>5
    <2> QED BY <2>2, <2>4, <2>5
  <1> QED
    BY <1>1, <1>2, GivenUpStep, CountsInit, CountsStep, InvHolds, PTL DEF Spec

-----------------------------------------------------------------------------
(* Refinement *)

\* The queue and the guards hold the same keys.
LEMMA RegisteredIsGuard == IInv => Registered = guard
  <1> SUFFICES ASSUME IInv PROVE Registered = guard
    OBVIOUS
  <1>1. guard \in [Fans -> Keys \cup {None}] /\ OneEntryPerFan
    BY DEF IInv, TypeOK
  <1>2. ASSUME NEW f \in Fans PROVE Registered[f] = guard[f]
    <2>1. CASE \E e \in entries : e.fan = f
      <3> DEFINE e == CHOOSE e \in entries : e.fan = f
      <3>1. e \in entries /\ e.fan = f
        BY <2>1
      <3>2. guard[f] = e.key
        BY <3>1, <1>1 DEF OneEntryPerFan
      <3> QED BY <2>1, <3>2 DEF Registered
    <2>2. CASE ~ \E e \in entries : e.fan = f
      <3>1. guard[f] = None
        <4> SUFFICES ASSUME guard[f] # None PROVE FALSE
          OBVIOUS
        <4> DEFINE e == [shard |-> ShardOf[f], key |-> guard[f], fan |-> f]
        <4>1. e \in entries /\ e.fan = f
          BY <1>1 DEF OneEntryPerFan
        <4> QED BY <2>2, <4>1
      <3> QED BY <2>2, <3>1 DEF Registered
    <2> QED BY <2>1, <2>2
  <1> QED BY <1>1, <1>2 DEF Registered

\* An answer of a call that had none, with guards and entries as they were.
LEMMA AnswerIsTold ==
    ASSUME IInv, NEW c \in Calls, pc[c] # "done", NEW o, NEW k, Answer(c, o, k)
    PROVE  Register!Tell(c, o, k)
  BY DEF IInv, CallsInv, Answer, Register!Tell, Register!Pending, Pending

\* The put is an enrolment.
LEMMA PutEnrols ==
    ASSUME IInv, Registered = guard, Registered' = guard',
           NEW c \in Calls, pc[c] = "write", ~Guarded(c), ~Taken(c), PutEntryAndGuard(c)
    PROVE  key[c] \in Keys /\ Register!Enrol(FanOf[c], key[c])
  <1>1. key[c] \in Keys /\ guard[FanOf[c]] = None
    BY DEF IInv, CallsInv, Guarded
  <1>2. Register!Free(FanOf[c], key[c])
    <2> SUFFICES ASSUME NEW g \in Fans, ShardOf[g] = ShardOf[FanOf[c]], guard[g] = key[c]
                 PROVE  FALSE
      BY DEF Register!Free
    <2> DEFINE e == [shard |-> ShardOf[g], key |-> guard[g], fan |-> g]
    <2>1. guard[g] # None
      BY <1>1
    <2>2. e \in entries
      BY <2>1 DEF IInv, OneEntryPerFan
    <2> QED BY <2>2 DEF Taken, HomeShard
  <1> QED BY <1>1, <1>2 DEF Register!Enrol, PutEntryAndGuard

\* Each step of Admission is a step of the register or leaves it alone.
LEMMA StepRegisters ==
    ASSUME IInv, Registered = guard, Registered' = guard', [Next]_vars
    PROVE  [Register!Next]_<<Registered, answer>>
  <1> USE DEF Register!Next
  <1>1. ASSUME NEW c \in Calls, RefuseClosed(c) \/ RefuseFull(c) \/ Abort(c)
        PROVE  Register!Refuse(c)
    <2>1. PICK o \in {"notOpen", "full", "error"} : Answer(c, o, None)
      BY <1>1 DEF RefuseClosed, RefuseFull, Abort
    <2>2. pc[c] # "done" /\ guard' = guard
      BY <1>1 DEF RefuseClosed, RefuseFull, Abort, table
    <2> QED BY <2>1, <2>2, AnswerIsTold DEF Register!Refuse
  <1>2. ASSUME NEW c \in Calls, Enter(c) \/ Duplicate(c) \/ Reallocate(c)
        PROVE  UNCHANGED <<Registered, answer>>
    BY <1>2 DEF Enter, Duplicate, Reallocate, table
  <1>3. ASSUME NEW c \in Calls, Commit(c)
        PROVE  \E k \in Keys : Register!Register(FanOf[c], k)
    BY <1>3, PutEnrols DEF Commit, Register!Register
  <1>4. ASSUME NEW c \in Calls, Lookup(c)
        PROVE  Register!TellDuplicate(c)
    <2>1. /\ Answer(c, "duplicate", guard[FanOf[c]])
          /\ pc[c] # "done" /\ guard' = guard /\ guard[FanOf[c]] # None
      BY <1>4 DEF Lookup, table, IInv, CallsInv
    <2> QED BY <2>1, AnswerIsTold DEF Register!TellDuplicate
  <1>5. ASSUME NEW c \in Calls, Count(c) \/ CountLost(c) \/ CountResent(c)
        PROVE  Register!TellAdmitted(c)
    <2>1. pc[c] = "count" /\ Answer(c, "admitted", key[c]) /\ guard' = guard
      BY <1>5 DEF Count, CountLost, CountResent, table
    <2>2. Entry(c, key[c]) \in entries /\ key[c] # None
      BY <2>1 DEF IInv, CallsInv
    <2>3. guard[FanOf[c]] = key[c]
      BY <2>2 DEF IInv, OneEntryPerFan, Entry
    <2>4. \A d \in Calls : FanOf[d] = FanOf[c] => answer[d].outcome # "admitted"
      <3>1. answer[c].outcome # "admitted"
        BY <2>1 DEF IInv, CallsInv, Pending
      <3> QED BY <2>1, <3>1 DEF IInv, OneAdmitted, Holds
    <2> QED BY <2>1, <2>2, <2>3, <2>4, AnswerIsTold DEF Register!TellAdmitted
  <1>6. ASSUME NEW c \in Calls, Throttled(c)
        PROVE  Register!Refuse(c) \/ UNCHANGED <<Registered, answer>>
    <2>1. pc[c] # "done" /\ guard' = guard
          /\ (UNCHANGED answer \/ Answer(c, "retryable", None))
      BY <1>6 DEF Throttled, RetryOrGiveUp, table
    <2> QED BY <2>1, AnswerIsTold DEF Register!Refuse
  <1>7. ASSUME NEW c \in Calls, CommitUnreported(c)
        PROVE  \E k \in Keys : \/ Register!Register(FanOf[c], k)
                               \/ Register!RegisterAndRefuse(c, k)
    <2>1. key[c] \in Keys /\ Register!Enrol(FanOf[c], key[c])
      BY <1>7, PutEnrols DEF CommitUnreported
    <2>2. pc[c] # "done" /\ (UNCHANGED answer \/ Answer(c, "retryable", None))
      BY <1>7 DEF CommitUnreported, RetryOrGiveUp
    <2> QED BY <2>1, <2>2, AnswerIsTold DEF Register!Register, Register!RegisterAndRefuse
  <1>8. ASSUME (\E s \in Shards : Deliver(s)) \/ OpenOrClose \/ UNCHANGED vars
        PROVE  UNCHANGED <<Registered, answer>>
    BY <1>8 DEF Deliver, ApplyAdmitCount, OpenOrClose, vars, table
  <1> QED
    BY <1>1, <1>2, <1>3, <1>4, <1>5, <1>6, <1>7, <1>8 DEF Next, Work, Faulty

\* Admission implements the register: whatever its calls do, fans are registered once,
\* under keys of their own, and every answer is the register's.
THEOREM AdmissionImplementsRegister == Spec => ImplementsRegister
  <1>1. Init => Register!Init
    <2>1. Init => Registered = guard
      BY InitInv, RegisteredIsGuard
    <2> QED BY <2>1 DEF Init, Register!Init, Register!Pending, Pending
  <1>2. IInv /\ IInv' /\ [Next]_vars => [Register!Next]_<<Registered, answer>>
    <2>1. IInv' => (Registered = guard)'
      BY RegisteredIsGuard, PTL
    <2> QED BY <2>1, RegisteredIsGuard, StepRegisters
  <1> QED BY <1>1, <1>2, InvHolds, PTL DEF Spec, ImplementsRegister, Register!Spec

=============================================================================
