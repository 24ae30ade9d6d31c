------------------------------ MODULE Journey ------------------------------
(***************************************************************************)
(* A fan's way through the deployed handlers (waiting_room/handlers.py):   *)
(* POST /admit writes the entry and signs a token (waiting_room/token.py), *)
(* GET /status verifies it and finds the entry again by the key it         *)
(* derives from the claims (waiting_room/status_reader.py), and the        *)
(* promoter looks for the entry under the keys it derives from CONFIG.     *)
(* Nothing stores where an entry is: every party computes the partition    *)
(* from a shard and a shard count (waiting_room/sharding.py), and these    *)
(* come from the release a Lambda container runs, from the token, and from *)
(* the CONFIG item, while containers start and stop, the signing secret is *)
(* rotated, a release changes the default shard count and the operator     *)
(* seeds CONFIG.                                                           *)
(*                                                                         *)
(* The race of several admit calls is the business of Admission: the       *)
(* transaction is one step here, and as there is one entry for each fan    *)
(* the fan stands for its Ordering_Key as well.  Promotion is that of      *)
(* Promoter: what matters here is where it looks, and whether /status      *)
(* finds an entry does not depend on it.                                   *)
(***************************************************************************)
EXTENDS Integers

CONSTANTS
    Fans,
    Containers,     \* Lambda containers that serve /admit and /status
    HashOf,         \* _stable_hash of each fan
    ShardCounts,    \* the shard counts a release or a CONFIG item may have
    FirstRelease,   \* DEFAULT_SHARD_COUNT of the release deployed first
    Secrets,        \* the values the signing secret may have
    FirstSecrets,   \* what it may be at first
    MaxReleases,    \* bound: releases that change the default shard count
    MaxRotations,   \* bound: how often the secret is set
    MaxCrashes      \* bound: containers that end in the middle of a request

ASSUME FansAssumption   == HashOf \in [Fans -> Nat]
ASSUME ShardsAssumption == ShardCounts \subseteq Nat \ {0} /\ FirstRelease \in ShardCounts
ASSUME BoundsAssumption == MaxReleases \in Nat /\ MaxRotations \in Nat /\ MaxCrashes \in Nat

VARIABLES
    \* --- the table ---
    config,         \* CONFIG.Shard_Count, or NotSeeded
    open,           \* CONFIG.Event_Status = OPEN
    entry,          \* the shard count each fan's entry was written under, or NoEntry
    \* --- the deployment ---
    secret,         \* the secret in Secrets Manager, or NoSecret
    release,        \* DEFAULT_SHARD_COUNT of the deployed release
    container,      \* what each container holds
    \* --- the fans ---
    named,          \* the fans who give their fan_id, whenever they ask
    token,          \* the last token each fan was given, or NoToken
    reply,          \* the HTTP status each fan's last status query got
    \* --- so far ---
    releases, rotations, crashes

table      == <<config, open, entry>>
deployment == <<secret, release, container>>
fans       == <<named, token, reply>>
bounds     == <<releases, rotations, crashes>>
vars       == <<table, deployment, fans, bounds>>

-----------------------------------------------------------------------------
(* Shards and partitions *)

NotSeeded == 0
NoEntry   == 0

\* len(str(n)).
Digits[n \in Nat] == IF n < 10 THEN 1 ELSE 1 + Digits[n \div 10]

\* shard_width: the digits of the largest shard.
Width(count) == Digits[count - 1]

\* compute_write_shard.
Shard(f, count) == HashOf[f] % count

\* EVT#<Event_Id>#SH#<format_shard(shard, count)>: two names are equal if shard and
\* padding are.
Name(shard, count) == [shard |-> shard, width |-> Width(count)]

\* Where the fan's entry is: PK and, while it waits, Waiting_Shard.
Partition(f) == Name(Shard(f, entry[f]), entry[f])

\* Mutant: shards are counted from one.
QueriedFromOne(count) == { Name(s, count) : s \in 1..count }

\* The partitions of WaitingIndex that _select_next_waiting queries, with the count that
\* promote_cycle reads from CONFIG each time.
Queried(count) == { Name(s, count) : s \in 0..(count - 1) }

-----------------------------------------------------------------------------
(* Secrets and tokens *)

NoSecret   == "NO_SECRET"   \* the empty string
Unresolved == "UNRESOLVED"  \* _cached_secret is None

NoToken == [shard |-> -1, secret |-> NoSecret]

Nobody == "NOBODY"

ASSUME NamesAssumption == Unresolved \notin Secrets /\ Nobody \notin Fans
ASSUME SecretAssumption == FirstSecrets \subseteq Secrets \cup {NoSecret}

Down == [up |-> FALSE, shardCount |-> 0, secret |-> Unresolved, serving |-> Nobody]

\* _entry_token_secret: the cached value if there is one, empty or not.
Resolve(c) ==
    IF container[c].secret = Unresolved THEN secret ELSE container[c].secret

\* It raises RuntimeError only on the call that fetches an empty value and caches it.
ResolveRaises(c) == container[c].secret = Unresolved /\ secret = NoSecret

\* verify: the MAC matches under the container's key, which is not empty.
Verifies(t, s) == s # NoSecret /\ t.secret = s

\* Mutant: the shard is taken from CONFIG when the token is issued.
ClaimShardOfConfig(c, f) == Shard(f, config)

\* The Write_Shard claim: computed anew by the container, for a duplicate too.
ClaimShard(c, f) == Shard(f, container[c].shardCount)

Idle(c) == container[c].up /\ container[c].serving = Nobody

\* Mutant: the secret is not cached.
KeepUncached(c, f) == container' = [container EXCEPT ![c].serving = f]

\* After the call the container has the secret cached and serves f, or nobody.
Keep(c, f) ==
    container' = [container EXCEPT ![c] = [@ EXCEPT !.secret = Resolve(c), !.serving = f]]

-----------------------------------------------------------------------------
(* POST /admit *)

\* No secret: 500, before anything is written; the empty value stays cached.
AdmitRaises(c) ==
    /\ Idle(c) /\ ResolveRaises(c)
    /\ Keep(c, Nobody)
    /\ UNCHANGED <<table, secret, release, fans, bounds>>

\* _gate_event_open finds a CONFIG item, and the event open.
GateOpen == config # NotSeeded /\ open

\* It does not: EVENT_NOT_OPEN, 403, before it is known whether the fan has an entry.
AdmitNotOpen(c) ==
    /\ Idle(c) /\ ~ResolveRaises(c) /\ ~GateOpen
    /\ Keep(c, Nobody)
    /\ UNCHANGED <<table, secret, release, fans, bounds>>

\* Mutant: a fan whose guard is there is turned away.
AdmitWritesOnce(c, f) ==
    /\ Idle(c) /\ ~ResolveRaises(c) /\ GateOpen /\ entry[f] = NoEntry
    /\ entry' = [entry EXCEPT ![f] = container[c].shardCount]
    /\ Keep(c, f)
    /\ UNCHANGED <<config, open, secret, release, fans, bounds>>

\* The transaction of admit: a new entry under the container's shard count, or none
\* because the fan's guard is there; then the answer remains to be signed.  A call
\* without a fan_id mints one: whoever is not named is written by one call, and whoever
\* calls again so is somebody else.
AdmitWrites(c, f) ==
    /\ Idle(c) /\ ~ResolveRaises(c) /\ GateOpen
    /\ f \in named \/ entry[f] = NoEntry
    /\ entry' = IF entry[f] = NoEntry
                  THEN [entry EXCEPT ![f] = container[c].shardCount] ELSE entry
    /\ Keep(c, f)
    /\ UNCHANGED <<config, open, secret, release, fans, bounds>>

\* Mutant: an empty key signs.
SignsAlways(c, f) ==
    /\ container[c].serving = f
    /\ token' = [token EXCEPT ![f] = [shard  |-> ClaimShard(c, f),
                                      secret |-> container[c].secret]]
    /\ container' = [container EXCEPT ![c].serving = Nobody]
    /\ UNCHANGED <<table, secret, release, named, reply, bounds>>

\* _issue_token, for a new entry or a duplicate; sign raises ValueError on an empty
\* key, and the fan gets a 500 and no token although the entry is there.
Sign(c, f) ==
    /\ container[c].serving = f
    /\ token' = IF container[c].secret = NoSecret THEN token
                ELSE [token EXCEPT ![f] = [shard  |-> ClaimShard(c, f),
                                           secret |-> container[c].secret]]
    /\ container' = [container EXCEPT ![c].serving = Nobody]
    /\ UNCHANGED <<table, secret, release, named, reply, bounds>>

-----------------------------------------------------------------------------
(* GET /status *)

\* read_status for the token t on container c: 401 if it does not verify, 500 if
\* format_shard raises because the shard is beyond the count, 404 if there is no item
\* under the derived key.
Outcome(c, f, t) ==
    LET count == container[c].shardCount
    IN  CASE ResolveRaises(c)                  -> 500
          [] ~ResolveRaises(c) /\ ~Verifies(t, Resolve(c)) -> 401
          [] OTHER -> IF t.shard >= count THEN 500
                      ELSE IF Name(t.shard, count) = Partition(f) THEN 200 ELSE 404

\* status_handler; a query without a token is answered with 400 and not a step.
Status(c, f) ==
    /\ Idle(c) /\ token[f] # NoToken
    /\ reply' = [reply EXCEPT ![f] = Outcome(c, f, token[f])]
    /\ Keep(c, Nobody)
    /\ UNCHANGED <<table, secret, release, named, token, bounds>>

-----------------------------------------------------------------------------
(* Containers and operators *)

\* A cold start imports the module: the release's default, and no secret yet.
Start(c) ==
    /\ ~container[c].up
    /\ container' = [container EXCEPT ![c] = [Down EXCEPT !.up = TRUE,
                                                          !.shardCount = release]]
    /\ UNCHANGED <<table, secret, release, fans, bounds>>

\* An idle container is recycled.
Recycle(c) ==
    /\ Idle(c)
    /\ container' = [container EXCEPT ![c] = Down]
    /\ UNCHANGED <<table, secret, release, fans, bounds>>

\* A container ends between the transaction and the answer.
Crash(c) ==
    /\ container[c].serving # Nobody
    /\ crashes < MaxCrashes /\ crashes' = crashes + 1
    /\ container' = [container EXCEPT ![c] = Down]
    /\ UNCHANGED <<table, secret, release, fans, releases, rotations>>

\* seed_event_config puts the CONFIG item, whatever was there: that is also how an event
\* is closed, or opened again.
Seed(n, o) ==
    /\ config' = n /\ open' = o
    /\ UNCHANGED <<entry, deployment, fans, bounds>>

\* The secret is set or rotated; containers keep what they have cached.
Rotate(s) ==
    /\ s # secret
    /\ rotations < MaxRotations /\ rotations' = rotations + 1
    /\ secret' = s
    /\ UNCHANGED <<table, release, container, fans, releases, crashes>>

\* A release with another DEFAULT_SHARD_COUNT; warm containers run the old one.
Release(n) ==
    /\ n # release
    /\ releases < MaxReleases /\ releases' = releases + 1
    /\ release' = n
    /\ UNCHANGED <<table, secret, container, fans, rotations, crashes>>

-----------------------------------------------------------------------------
Init ==
    /\ config = NotSeeded /\ open = FALSE
    /\ entry = [f \in Fans |-> NoEntry]
    /\ secret \in FirstSecrets
    /\ release = FirstRelease
    /\ container = [c \in Containers |-> Down]
    /\ named \in SUBSET Fans
    /\ token = [f \in Fans |-> NoToken]
    /\ reply = [f \in Fans |-> 0]
    /\ releases = 0 /\ rotations = 0 /\ crashes = 0

Ask(f) == \E c \in Containers : AdmitWrites(c, f)
Poll(f) == \E c \in Containers : Status(c, f)

Next ==
    \/ \E c \in Containers : \/ AdmitRaises(c) \/ AdmitNotOpen(c)
                             \/ Start(c) \/ Recycle(c) \/ Crash(c)
                             \/ \E f \in Fans : Sign(c, f)
    \/ \E f \in Fans : Ask(f) \/ Poll(f)
    \/ \E n \in ShardCounts : \/ \E o \in BOOLEAN : Seed(n, o)
                              \/ Release(n)
    \/ \E s \in Secrets : Rotate(s)

Spec == Init /\ [][Next]_vars

\* Containers start, answer and are recycled sooner or later; a missing secret is
\* supplied; and a fan who has no good answer asks and polls again and again.  Nobody
\* has to open an event.
Fairness ==
    /\ \A c \in Containers : /\ WF_vars(Start(c)) /\ SF_vars(Recycle(c))
                             /\ \A f \in Fans : WF_vars(Sign(c, f))
    /\ WF_vars(secret = NoSecret /\ \E s \in Secrets : Rotate(s))
    /\ \A f \in Fans : SF_vars(Ask(f)) /\ SF_vars(Poll(f))

FairSpec == Spec /\ Fairness

-----------------------------------------------------------------------------
(* Properties *)

\* Every variable keeps its type.
TypeOK ==
    /\ config \in ShardCounts \cup {NotSeeded} /\ open \in BOOLEAN
    /\ entry \in [Fans -> ShardCounts \cup {NoEntry}]
    /\ secret \in Secrets \cup {NoSecret}
    /\ release \in ShardCounts
    /\ \A c \in Containers :
         /\ container[c].up \in BOOLEAN
         /\ container[c].shardCount \in ShardCounts \cup {0}
         /\ container[c].secret \in Secrets \cup {NoSecret, Unresolved}
         /\ container[c].serving \in Fans \cup {Nobody}
    /\ \A f \in Fans : /\ token[f].shard \in Nat \cup {-1}
                       /\ token[f].secret \in Secrets \cup {NoSecret}
    /\ named \subseteq Fans /\ reply \in [Fans -> {0, 200, 401, 404, 500}]
    /\ releases \in 0..MaxReleases /\ rotations \in 0..MaxRotations
    /\ crashes \in 0..MaxCrashes

\* While one release is deployed, a fan with a valid token always finds the entry: the
\* key that _entry_key derives from the claims is the one admit wrote, whichever
\* containers served the two calls, whether the token is that of a duplicate, and
\* whatever the operator puts into CONFIG meanwhile (handlers.py:245-247, "so admission
\* and status agree on the padded shard width").
NotFoundOnlyAfterRelease ==
    releases = 0 => \A f \in Fans : reply[f] # 404

\* While the secret stays as it is, no container refuses a token another one signed; nor
\* is a token signed with the empty secret that a failed lookup left in the cache.
StableSecretIsAccepted ==
    rotations = 0 => \A f \in Fans : reply[f] # 401

\* Raising Shard_Count of CONFIG strands no waiting entry as long as the number of
\* digits stays the same: the promoter still queries the partition it was written to.
GrowthIsSafe ==
    \A f \in Fans :
        (entry[f] # NoEntry /\ config >= entry[f] /\ Width(config) = Width(entry[f]))
            => Partition(f) \in Queried(config)

\* What takes a fan back to the entry: a token with the present secret and the shard that
\* the deployed release counts, or the fan_id while the event is open.
CanReturn(f) ==
    \/ Verifies(token[f], secret) /\ token[f].shard = Shard(f, release)
    \/ f \in named /\ GateOpen

\* A fan whose entry is in the queue is served in the end, past crashes, recycled
\* containers, a rotated secret and answers that were lost, if from some time on the fan
\* can return at all: a lost answer is lost for good to a fan without a fan_id, and to
\* everyone once the event is closed, and so is a token that a rotation or a container of
\* the last release has spoilt.  And unless a later release looks for the entry elsewhere.
FanIsServed ==
    \A f \in Fans :
        <>[]CanReturn(f) =>
            (entry[f] # NoEntry ~> reply[f] = 200 \/ entry[f] # release)

\* What README.md:32 says of an event seeded with Shard_Count = 4000: the promoter
\* looks where the entries are. Violated: admit_handler writes them under the
\* default of its release.
EntriesAreQueried ==
    \A f \in Fans : entry[f] # NoEntry => Partition(f) \in Queried(config)
=============================================================================
