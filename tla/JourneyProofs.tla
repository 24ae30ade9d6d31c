---------------------------- MODULE JourneyProofs ----------------------------
(***************************************************************************)
(* What the way of a fan through the handlers keeps, for any number of     *)
(* fans and containers, any hash, any shard counts, and any number of      *)
(* rotations, releases and crashes.                                        *)
(***************************************************************************)
EXTENDS Journey, TLAPS

\* What a container may hold.
Container == [up : BOOLEAN, shardCount : ShardCounts \cup {0},
              secret : Secrets \cup {NoSecret, Unresolved}, serving : Fans \cup {Nobody}]

\* A container that is up runs a release, one that serves is up and has resolved the
\* secret; and a token is none, or one that sign made.
Shape ==
    /\ config \in ShardCounts \cup {NotSeeded} /\ open \in BOOLEAN
    /\ entry \in [Fans -> ShardCounts \cup {NoEntry}]
    /\ secret \in Secrets \cup {NoSecret}
    /\ release \in ShardCounts
    /\ container \in [Containers -> Container]
    /\ token \in [Fans -> [shard : Nat \cup {-1}, secret : Secrets \cup {NoSecret}]]
    /\ named \subseteq Fans /\ reply \in [Fans -> {0, 200, 401, 404, 500}]
    /\ releases \in 0..MaxReleases /\ rotations \in 0..MaxRotations
    /\ crashes \in 0..MaxCrashes

Served ==
    \A c \in Containers :
        /\ container[c].up => container[c].shardCount \in ShardCounts
        /\ container[c].serving # Nobody =>
               container[c].up /\ container[c].secret # Unresolved
                 /\ entry[container[c].serving] # NoEntry

\* Before the first release everybody counts shards alike.
OneCount ==
    releases = 0 =>
        /\ \A c \in Containers : container[c].up => container[c].shardCount = release
        /\ \A f \in Fans :
             /\ entry[f] \in {NoEntry, release}
             /\ token[f] # NoToken =>
                    entry[f] = release /\ token[f].shard = Shard(f, release)

\* Before the first rotation everybody has the same secret, if any.
OneSecret ==
    rotations = 0 =>
        /\ \A c \in Containers : container[c].secret \in {Unresolved, secret}
        /\ \A f \in Fans : token[f] # NoToken =>
                               token[f].secret = secret /\ secret # NoSecret

IInv == Shape /\ Served /\ OneCount /\ OneSecret
          /\ NotFoundOnlyAfterRelease /\ StableSecretIsAccepted

-----------------------------------------------------------------------------
(* Facts about the definitions *)

LEMMA ShardIsBelow ==
    ASSUME NEW f \in Fans, NEW n \in ShardCounts
    PROVE  n \in Nat \ {0} /\ Shard(f, n) \in 0..(n - 1)
<1>1. n \in Nat \ {0} /\ HashOf[f] \in Nat
  BY ShardsAssumption, FansAssumption
<1> QED
  BY <1>1 DEF Shard

\* What a call leaves in its container.
LEMMA KeepLeaves ==
    ASSUME Shape, NEW c \in Containers, Idle(c), NEW g \in Fans \cup {Nobody}, Keep(c, g)
    PROVE  /\ container' \in [Containers -> Container]
           /\ \A d \in Containers : /\ container'[d].up = container[d].up
                                    /\ container'[d].shardCount = container[d].shardCount
           /\ \A d \in Containers \ {c} : container'[d] = container[d]
           /\ container'[c].secret = Resolve(c)
           /\ container'[c].secret # Unresolved
           /\ container'[c].serving = g
           /\ container'[c].up
<1>1. container[c] \in Container /\ container \in [Containers -> Container]
  BY DEF Shape
<1>2. /\ Resolve(c) \in Secrets \cup {NoSecret, Unresolved}
      /\ Resolve(c) # Unresolved
  BY <1>1, NamesAssumption DEF Resolve, Shape, Container, NoSecret, Unresolved
<1>3. [container[c] EXCEPT !.secret = Resolve(c), !.serving = g] \in Container
  BY <1>1, <1>2 DEF Container
<1> QED
  BY <1>1, <1>2, <1>3 DEF Keep, Container, Idle

\* A status query never answers outside of the four codes.
LEMMA OutcomeInRange ==
    ASSUME NEW c, NEW f, NEW t
    PROVE  Outcome(c, f, t) \in {200, 401, 404, 500}
BY DEF Outcome

\* What IInv says of a fan's query before the first release, and before the first rotation.
LEMMA QueryFinds ==
    ASSUME IInv, NEW c \in Containers, NEW f \in Fans, container[c].up,
           token[f] # NoToken, releases = 0
    PROVE  Outcome(c, f, token[f]) # 404
<1>1. container[c].shardCount = release /\ release \in ShardCounts
  BY DEF IInv, OneCount, Shape
<1>2. entry[f] = release /\ token[f].shard = Shard(f, release)
  BY DEF IInv, OneCount
<1>3. release \in Nat /\ Shard(f, release) \in Nat /\ Shard(f, release) < release
  BY <1>1, ShardIsBelow
<1>4. Name(token[f].shard, container[c].shardCount) = Partition(f)
  BY <1>1, <1>2 DEF Partition
<1>5. ~(token[f].shard >= container[c].shardCount)
  BY <1>1, <1>2, <1>3
<1> QED
  BY <1>4, <1>5 DEF Outcome

LEMMA QueryVerifies ==
    ASSUME IInv, NEW c \in Containers, NEW f \in Fans, token[f] # NoToken, rotations = 0
    PROVE  Outcome(c, f, token[f]) # 401
<1>1. token[f].secret = secret /\ secret # NoSecret
  BY DEF IInv, OneSecret
<1>2. Resolve(c) = secret
  BY DEF IInv, OneSecret, Resolve
<1>3. Verifies(token[f], Resolve(c))
  BY <1>1, <1>2 DEF Verifies
<1> QED
  BY <1>3 DEF Outcome

-----------------------------------------------------------------------------
(* The invariant is inductive *)

LEMMA InitIInv == Init => IInv
<1> SUFFICES ASSUME Init PROVE IInv
  OBVIOUS
<1>1. Down \in Container /\ ~Down.up /\ Down.serving = Nobody /\ Down.secret = Unresolved
  BY DEF Down, Container
<1>2. NoToken \in [shard : Nat \cup {-1}, secret : Secrets \cup {NoSecret}]
  BY DEF NoToken
<1>3. open \in BOOLEAN /\ secret \in Secrets \cup {NoSecret}
  BY SecretAssumption DEF Init
<1>4. releases \in 0..MaxReleases /\ rotations \in 0..MaxRotations /\ crashes \in 0..MaxCrashes
  BY BoundsAssumption DEF Init
<1>5. Shape
  BY <1>1, <1>2, <1>3, <1>4, ShardsAssumption DEF Init, Shape, NotSeeded, NoEntry
<1> QED
  BY <1>1, <1>5 DEF Init, IInv, Served, OneCount, OneSecret, NotFoundOnlyAfterRelease,
                    StableSecretIsAccepted

\* A call that changes its container only as Keep does, and perhaps an entry.
LEMMA KeepStep ==
    ASSUME IInv, NEW c \in Containers, Idle(c), NEW g \in Fans \cup {Nobody}, Keep(c, g),
           entry' = entry \/ (/\ g \in Fans /\ entry[g] = NoEntry
                              /\ entry' = [entry EXCEPT ![g] = container[c].shardCount]),
           g # Nobody => entry'[g] # NoEntry,
           UNCHANGED <<config, open, secret, release, token, bounds>>
    PROVE  /\ Served' /\ OneCount' /\ OneSecret'
           /\ entry' \in [Fans -> ShardCounts \cup {NoEntry}]
<1>0. Shape /\ Served /\ OneCount /\ OneSecret
  BY DEF IInv
<1>1. /\ container' \in [Containers -> Container]
      /\ \A d \in Containers : /\ container'[d].up = container[d].up
                               /\ container'[d].shardCount = container[d].shardCount
      /\ \A d \in Containers \ {c} : container'[d] = container[d]
      /\ container'[c].secret = Resolve(c)
      /\ container'[c].secret # Unresolved
      /\ container'[c].serving = g
      /\ container'[c].up
  BY <1>0, KeepLeaves
<1>2. container[c].up /\ container[c].shardCount \in ShardCounts
  BY <1>0 DEF Idle, Served
<1>3. entry \in [Fans -> ShardCounts \cup {NoEntry}] /\ release \in ShardCounts
  BY <1>0 DEF Shape
<1>4. entry' \in [Fans -> ShardCounts \cup {NoEntry}]
  BY <1>2, <1>3
<1>5. \A f \in Fans : \/ entry'[f] = entry[f]
                      \/ entry[f] = NoEntry /\ entry'[f] = container[c].shardCount
  BY <1>3
<1>6. Served'
  <2>1. \A d \in Containers : container'[d].up => container'[d].shardCount \in ShardCounts
    BY <1>0, <1>1 DEF Served
  <2>2. ASSUME NEW d \in Containers \ {c}, container'[d].serving # Nobody
        PROVE  /\ container'[d].up /\ container'[d].secret # Unresolved
               /\ entry'[container'[d].serving] # NoEntry
    <3>1. container'[d] = container[d] /\ container[d] \in Container
      BY <1>0, <1>1 DEF Shape
    <3>2. container[d].serving \in Fans /\ container[d].up /\ container[d].secret # Unresolved
          /\ entry[container[d].serving] # NoEntry
      BY <1>0, <2>2, <3>1 DEF Served, Container
    <3> QED
      BY <1>5, <3>1, <3>2
  <2> QED
    BY <1>1, <2>1, <2>2 DEF Served
<1>7. OneCount'
  <2> SUFFICES ASSUME releases = 0 PROVE OneCount'
    BY DEF OneCount, bounds
  <2>1. release # NoEntry
    BY <1>3, ShardsAssumption DEF NoEntry
  <2>2. container[c].shardCount = release
    BY <1>0, <1>2 DEF OneCount
  <2> QED
    BY <1>0, <1>1, <1>5, <2>1, <2>2 DEF OneCount, Shard
<1>8. OneSecret'
  <2> SUFFICES ASSUME rotations = 0 PROVE OneSecret'
    BY DEF OneSecret, bounds
  <2>1. Resolve(c) = secret
    BY <1>0 DEF OneSecret, Resolve
  <2> QED
    BY <1>0, <1>1, <2>1 DEF OneSecret
<1> QED
  BY <1>4, <1>6, <1>7, <1>8

LEMMA IInvStep == IInv /\ [Next]_vars => IInv'
<1> SUFFICES ASSUME IInv, [Next]_vars PROVE IInv'
  OBVIOUS
<1> USE DEF table, deployment, fans, bounds
<1>0. Shape /\ Served /\ OneCount /\ OneSecret
      /\ NotFoundOnlyAfterRelease /\ StableSecretIsAccepted
  BY DEF IInv
<1>1. ASSUME NEW c \in Containers, Idle(c), Keep(c, Nobody), UNCHANGED <<table, secret, release, fans, bounds>>
      PROVE  IInv'
  <2>1. Served' /\ OneCount' /\ OneSecret'
    BY <1>1, KeepStep
  <2>2. container' \in [Containers -> Container]
    BY <1>0, <1>1, KeepLeaves
  <2> QED
    BY <1>0, <1>1, <2>1, <2>2 DEF IInv, Shape, NotFoundOnlyAfterRelease, StableSecretIsAccepted
<1>2. ASSUME NEW c \in Containers, NEW f \in Fans, AdmitWrites(c, f)
      PROVE  IInv'
  <2>1. Idle(c) /\ Keep(c, f) /\ UNCHANGED <<config, open, secret, release, fans, bounds>>
    BY <1>2 DEF AdmitWrites
  <2>2. container[c].shardCount \in ShardCounts /\ container[c].shardCount # NoEntry
    BY <1>0, <2>1, ShardsAssumption DEF Idle, Served, NoEntry
  <2>3. entry \in [Fans -> ShardCounts \cup {NoEntry}]
    BY <1>0 DEF Shape
  <2>4. \/ entry' = entry /\ entry[f] # NoEntry
        \/ entry[f] = NoEntry /\ entry' = [entry EXCEPT ![f] = container[c].shardCount]
    BY <1>2 DEF AdmitWrites
  <2>5. entry'[f] # NoEntry
    BY <2>2, <2>3, <2>4
  <2>6. Served' /\ OneCount' /\ OneSecret' /\ entry' \in [Fans -> ShardCounts \cup {NoEntry}]
    <3>1. entry' = entry \/ (/\ f \in Fans /\ entry[f] = NoEntry
                             /\ entry' = [entry EXCEPT ![f] = container[c].shardCount])
      BY <2>4
    <3> QED
      BY <2>1, <2>5, <3>1, KeepStep
  <2>7. container' \in [Containers -> Container]
    BY <1>0, <2>1, KeepLeaves
  <2> QED
    BY <1>0, <2>1, <2>6, <2>7 DEF IInv, Shape, NotFoundOnlyAfterRelease, StableSecretIsAccepted
<1>3. ASSUME NEW c \in Containers, NEW f \in Fans, Sign(c, f)
      PROVE  IInv'
  <2> DEFINE new == [shard |-> ClaimShard(c, f), secret |-> container[c].secret]
  <2>1. container[c] \in Container /\ container[c].serving = f
    BY <1>0, <1>3 DEF Shape, Sign
  <2>2. container' = [container EXCEPT ![c].serving = Nobody]
    BY <1>3 DEF Sign
  <2>3. /\ container' \in [Containers -> Container]
        /\ container'[c].serving = Nobody
        /\ \A d \in Containers : /\ container'[d].up = container[d].up
                                 /\ container'[d].shardCount = container[d].shardCount
                                 /\ container'[d].secret = container[d].secret
        /\ \A d \in Containers \ {c} : container'[d] = container[d]
    <3> DEFINE k == [container[c] EXCEPT !.serving = Nobody]
    <3>1. container \in [Containers -> Container]
      BY <1>0 DEF Shape
    <3>2. /\ k \in Container /\ k.serving = Nobody /\ k.up = container[c].up
          /\ k.shardCount = container[c].shardCount /\ k.secret = container[c].secret
      BY <2>1 DEF Container
    <3>3. container' = [container EXCEPT ![c] = k]
      BY <2>2
    <3> HIDE DEF k
    <3> QED
      BY <3>1, <3>2, <3>3
  <2>4. Served'
    <3>1. \A d \in Containers : container'[d].up => container'[d].shardCount \in ShardCounts
      BY <1>0, <2>3 DEF Served
    <3>2. ASSUME NEW d \in Containers, container'[d].serving # Nobody
          PROVE  container'[d] = container[d]
      BY <2>3, <3>2
    <3>3. entry' = entry
      BY <1>3 DEF Sign
    <3> QED
      BY <1>0, <3>1, <3>2, <3>3 DEF Served
  <2>5. /\ f # Nobody
        /\ container[c].up /\ container[c].shardCount \in ShardCounts
        /\ container[c].secret # Unresolved /\ entry[f] # NoEntry
    BY <1>0, <2>1, NamesAssumption DEF Served
  <2>6. /\ new \in [shard : Nat \cup {-1}, secret : Secrets \cup {NoSecret}]
        /\ new.shard = Shard(f, container[c].shardCount)
        /\ new.secret = container[c].secret
    BY <2>1, <2>5, ShardIsBelow DEF ClaimShard, Container
  <2>7. \/ token' = token
        \/ container[c].secret # NoSecret /\ token' = [token EXCEPT ![f] = new]
    BY <1>3 DEF Sign
  <2>8. token \in [Fans -> [shard : Nat \cup {-1}, secret : Secrets \cup {NoSecret}]]
    BY <1>0 DEF Shape
  <2>9. token' \in [Fans -> [shard : Nat \cup {-1}, secret : Secrets \cup {NoSecret}]]
    BY <2>6, <2>7, <2>8
  <2>10. Shape'
    BY <1>0, <1>3, <2>3, <2>9 DEF Shape, Sign
  <2>11. OneCount'
    <3> SUFFICES ASSUME releases = 0 PROVE OneCount'
      BY <1>3 DEF OneCount, Sign
    <3>1. container[c].shardCount = release /\ entry[f] = release
      BY <1>0, <2>5 DEF OneCount
    <3>2. \A g \in Fans : token'[g] = token[g] \/ (g = f /\ token'[g] = new)
      BY <2>7, <2>8
    <3> QED
      BY <1>0, <1>3, <2>3, <2>6, <3>1, <3>2 DEF OneCount, Sign, Shard
  <2>12. OneSecret'
    <3> SUFFICES ASSUME rotations = 0 PROVE OneSecret'
      BY <1>3 DEF OneSecret, Sign
    <3>1. container[c].secret = secret
      BY <1>0, <2>5 DEF OneSecret
    <3>2. \A g \in Fans : \/ token'[g] = token[g]
                          \/ token'[g] = new /\ container[c].secret # NoSecret
      BY <2>7, <2>8
    <3> QED
      BY <1>0, <1>3, <2>3, <2>6, <3>1, <3>2 DEF OneSecret, Sign
  <2> QED
    BY <1>0, <1>3, <2>4, <2>10, <2>11, <2>12
       DEF IInv, Sign, NotFoundOnlyAfterRelease, StableSecretIsAccepted
<1>4. ASSUME NEW c \in Containers, NEW f \in Fans, Status(c, f)
      PROVE  IInv'
  <2>1. Idle(c) /\ token[f] # NoToken /\ Keep(c, Nobody)
        /\ UNCHANGED <<table, secret, release, named, token, bounds>>
        /\ reply' = [reply EXCEPT ![f] = Outcome(c, f, token[f])]
    BY <1>4 DEF Status
  <2>2. Served' /\ OneCount' /\ OneSecret'
    BY <2>1, KeepStep
  <2>3. container' \in [Containers -> Container]
    BY <1>0, <2>1, KeepLeaves
  <2>4. Outcome(c, f, token[f]) \in {200, 401, 404, 500}
    BY OutcomeInRange
  <2>5. reply \in [Fans -> {0, 200, 401, 404, 500}]
    BY <1>0 DEF Shape
  <2>6. Shape'
    BY <1>0, <2>1, <2>3, <2>4, <2>5 DEF Shape
  <2>7. \A g \in Fans : reply'[g] = reply[g] \/ (g = f /\ reply'[g] = Outcome(c, f, token[f]))
    BY <2>1, <2>5
  <2>8. releases = 0 => Outcome(c, f, token[f]) # 404
    BY <2>1, QueryFinds DEF Idle
  <2>9. rotations = 0 => Outcome(c, f, token[f]) # 401
    BY <2>1, QueryVerifies
  <2> QED
    BY <1>0, <2>1, <2>2, <2>6, <2>7, <2>8, <2>9
       DEF IInv, NotFoundOnlyAfterRelease, StableSecretIsAccepted
<1>5. ASSUME NEW c \in Containers, NEW k \in Container,
             k.serving = Nobody, k.secret = Unresolved, k.up => k.shardCount = release,
             container' = [container EXCEPT ![c] = k],
             UNCHANGED <<table, secret, release, fans, releases, rotations>>,
             crashes' \in 0..MaxCrashes
      PROVE  IInv'
  <2>1. container \in [Containers -> Container]
    BY <1>0 DEF Shape
  <2>2. \A d \in Containers : container'[d] = container[d] \/ container'[d] = k
    BY <1>5, <2>1
  <2>3. Shape'
    BY <1>0, <1>5, <2>1 DEF Shape
  <2>4. Served' /\ OneCount' /\ OneSecret'
    BY <1>0, <1>5, <2>2 DEF Served, OneCount, OneSecret, Shape, Shard
  <2> QED
    BY <1>0, <1>5, <2>3, <2>4 DEF IInv, NotFoundOnlyAfterRelease, StableSecretIsAccepted
<1>6. Down \in Container /\ ~Down.up /\ Down.serving = Nobody /\ Down.secret = Unresolved
  BY DEF Down, Container
<1>7. ASSUME NEW c \in Containers, Start(c)
      PROVE  IInv'
  <2> DEFINE k == [Down EXCEPT !.up = TRUE, !.shardCount = release]
  <2>1. k \in Container /\ k.serving = Nobody /\ k.secret = Unresolved /\ k.shardCount = release
    BY <1>0 DEF Down, Container, Shape
  <2>2. container' = [container EXCEPT ![c] = k]
    BY <1>7 DEF Start
  <2>3. UNCHANGED <<table, secret, release, fans, bounds>> /\ crashes' \in 0..MaxCrashes
    BY <1>0, <1>7 DEF Start, Shape
  <2> HIDE DEF k
  <2> QED
    BY <1>5, <2>1, <2>2, <2>3
<1>8. ASSUME NEW c \in Containers, Recycle(c) \/ Crash(c)
      PROVE  IInv'
  <2>1. container' = [container EXCEPT ![c] = Down]
        /\ UNCHANGED <<table, secret, release, fans, releases, rotations>>
    BY <1>8 DEF Recycle, Crash
  <2>2. crashes' \in 0..MaxCrashes
    BY <1>0, <1>8, BoundsAssumption DEF Recycle, Crash, Shape
  <2> QED
    BY <1>5, <1>6, <2>1, <2>2
<1>9. ASSUME NEW n \in ShardCounts, NEW o \in BOOLEAN, Seed(n, o)
      PROVE  IInv'
  BY <1>0, <1>9 DEF Seed, IInv, Shape, Served, OneCount, OneSecret, Shard,
                     NotFoundOnlyAfterRelease, StableSecretIsAccepted
<1>10. ASSUME NEW n \in ShardCounts, Release(n)
      PROVE  IInv'
  <2>1. releases' \in 0..MaxReleases /\ releases' # 0
    BY <1>0, <1>10, BoundsAssumption DEF Release, Shape
  <2> QED
    BY <1>0, <1>10, <2>1 DEF Release, IInv, Shape, Served, OneCount, OneSecret,
                             NotFoundOnlyAfterRelease, StableSecretIsAccepted
<1>11. ASSUME NEW s \in Secrets, Rotate(s)
      PROVE  IInv'
  <2>1. rotations' \in 0..MaxRotations /\ rotations' # 0
    BY <1>0, <1>11, BoundsAssumption DEF Rotate, Shape
  <2> QED
    BY <1>0, <1>11, <2>1 DEF Rotate, IInv, Shape, Served, OneCount, OneSecret, Shard,
                             NotFoundOnlyAfterRelease, StableSecretIsAccepted
<1>12. CASE UNCHANGED vars
  BY <1>0, <1>12 DEF vars, IInv, Shape, Served, OneCount, OneSecret, Shard,
                     NotFoundOnlyAfterRelease, StableSecretIsAccepted
<1>13. CASE Next
  <2>1. ASSUME NEW c \in Containers, AdmitRaises(c) \/ AdmitNotOpen(c)
        PROVE  IInv'
    BY <1>1, <2>1 DEF AdmitRaises, AdmitNotOpen
  <2> QED
    BY <1>2, <1>3, <1>4, <1>7, <1>8, <1>9, <1>10, <1>11, <1>13, <2>1
       DEF Next, Ask, Poll
<1> QED
  BY <1>12, <1>13

\* The conjunction holds in every state: where an entry is and who can find it, and which
\* secret a token was signed with.
THEOREM JourneyInvariance == Spec => []IInv
BY InitIInv, IInvStep, PTL DEF Spec

-----------------------------------------------------------------------------
(* What the runs check, for all constants *)

\* Every variable keeps its type.
THEOREM JourneyTypeCorrect == Spec => []TypeOK
<1>1. IInv => TypeOK
  BY DEF IInv, Shape, TypeOK, Container
<1> QED
  BY <1>1, JourneyInvariance, PTL

\* While one release is deployed a status query finds the entry of a valid token: the
\* keys that admission writes and status derives agree, whatever CONFIG says.
THEOREM EntryIsFound == Spec => []NotFoundOnlyAfterRelease
<1>1. IInv => NotFoundOnlyAfterRelease
  BY DEF IInv
<1> QED
  BY <1>1, JourneyInvariance, PTL

\* While the secret stays, every token that any container signed is accepted by all.
THEOREM TokensAreAccepted == Spec => []StableSecretIsAccepted
<1>1. IInv => StableSecretIsAccepted
  BY DEF IInv
<1> QED
  BY <1>1, JourneyInvariance, PTL

\* The promoter keeps finding the entries when CONFIG counts more shards of the same
\* number of digits.
THEOREM GrowthStrandsNobody == Spec => []GrowthIsSafe
<1>1. ASSUME IInv, NEW f \in Fans, entry[f] # NoEntry, config >= entry[f],
             Width(config) = Width(entry[f])
      PROVE  Partition(f) \in Queried(config)
  <2>1. entry[f] \in ShardCounts /\ config \in ShardCounts \cup {NotSeeded}
    BY <1>1 DEF IInv, Shape
  <2>2. entry[f] \in Nat \ {0} /\ Shard(f, entry[f]) \in 0..(entry[f] - 1)
    BY <2>1, ShardIsBelow
  <2>3. config \in Nat
    BY <2>1, ShardsAssumption DEF NotSeeded
  <2>4. Shard(f, entry[f]) \in 0..(config - 1)
    BY <1>1, <2>2, <2>3
  <2>5. Partition(f) = Name(Shard(f, entry[f]), config)
    BY <1>1 DEF Partition, Name
  <2> QED
    BY <2>4, <2>5 DEF Queried
<1>2. IInv => GrowthIsSafe
  BY <1>1 DEF GrowthIsSafe
<1> QED
  BY <1>2, JourneyInvariance, PTL
=============================================================================
