--------------------------- MODULE OrderingProofs ---------------------------
(***************************************************************************)
(* Proofs about Ordering for every number of nodes and threads, every      *)
(* behaviour of their wall clocks and every width of the components.       *)
(***************************************************************************)
EXTENDS Ordering, TLAPS

USE NodesAssumption, ReadingsAssumption, RangeAssumption

-----------------------------------------------------------------------------
(* The order of seqs and the step of the clock *)

LEMMA LessIsStrict ==
    ASSUME NEW a \in Seqs, NEW b \in Seqs, NEW c \in Seqs
    PROVE  /\ ~Less(a, a)
           /\ Less(a, b) /\ Less(b, c) => Less(a, c)
BY DEF Less, Seqs

\* A clock that is not exhausted advances to a representable and greater seq,
\* whatever the wall clock reads.
LEMMA AdvanceGrows ==
    ASSUME NEW last \in Seqs, NEW raw \in Int, ~Exhausted(last)
    PROVE  Advance(last, raw) \in Seqs /\ Less(last, Advance(last, raw))
<1> DEFINE r == Clamp(raw)
<1>1. r \in 0..MaxPhysicalMs
  BY DEF Clamp
<1>2. /\ last[1] \in 0..MaxPhysicalMs /\ last[2] \in 0..MaxLogical
      /\ last = <<last[1], last[2]>>
  BY DEF Seqs
<1> HIDE DEF r
<1>3. CASE r > last[1]
  <2>1. Advance(last, raw) = <<r, 0>>
    BY <1>3 DEF Advance, r
  <2> QED  BY <1>1, <1>2, <1>3, <2>1 DEF Seqs, Less
<1>4. CASE ~(r > last[1]) /\ last[2] < MaxLogical
  <2>1. Advance(last, raw) = <<last[1], last[2] + 1>>
    BY <1>4 DEF Advance, r
  <2> QED  BY <1>2, <1>4, <2>1 DEF Seqs, Less
<1>5. CASE ~(r > last[1]) /\ ~(last[2] < MaxLogical)
  <2>1. Advance(last, raw) = <<last[1] + 1, 0>>
    BY <1>5 DEF Advance, r
  <2>2. last[1] < MaxPhysicalMs
    BY <1>2, <1>5 DEF Exhausted
  <2> QED  BY <1>2, <2>1, <2>2 DEF Seqs, Less
<1> QED  BY <1>3, <1>4, <1>5

-----------------------------------------------------------------------------
(* The inductive invariant *)

AtMost(a, b) == a = b \/ Less(a, b)

\* No key is beyond the clock of its node.
BehindClock ==
    /\ \A k \in returned : AtMost(k[2], hlc[k[1]])
    /\ \A t \in Threads : call[t] = "drawn" => AtMost(drawn[t], hlc[NodeOf[t]])

\* What a call has seen returned was returned.
BeforeIsReturned == \A t \in Threads : before[t] \subseteq returned

IInv == TypeOK /\ BehindClock /\ BeforeIsReturned /\ SeqsDistinct /\ RealTimeOrder

LEMMA InitInv == Init => IInv
<1> SUFFICES ASSUME Init  PROVE IInv
  OBVIOUS
<1>1. Start \in Seqs
  BY DEF Start, Seqs
<1>2. TypeOK
  BY <1>1 DEF Init, TypeOK
<1>3. BehindClock /\ BeforeIsReturned /\ SeqsDistinct /\ RealTimeOrder
  BY DEF Init, BehindClock, BeforeIsReturned, SeqsDistinct, RealTimeOrder
<1> QED  BY <1>2, <1>3 DEF IInv

\* The draw of a key: it is greater than every key of its node so far.
LEMMA DrawStep ==
    ASSUME IInv, NEW t \in Threads, Draw(t)
    PROVE  IInv' /\ \A n \in Nodes : hlc'[n] = hlc[n] \/ Less(hlc[n], hlc'[n])
<1> DEFINE n == NodeOf[t]
<1>1. PICK raw \in Readings : /\ drawn' = [drawn EXCEPT ![t] = Advance(hlc[n], raw)]
                              /\ hlc'   = [hlc EXCEPT ![n] = Advance(hlc[n], raw)]
  BY DEF Draw
<1> DEFINE s == Advance(hlc[n], raw)
<1>2. n \in Nodes /\ hlc[n] \in Seqs /\ raw \in Int
  BY DEF IInv, TypeOK
<1>3. s \in Seqs /\ Less(hlc[n], s)
  BY <1>2, AdvanceGrows DEF Draw
<1>4. /\ drawn' = [drawn EXCEPT ![t] = s] /\ hlc' = [hlc EXCEPT ![n] = s]
      /\ call[t] = "called" /\ call' = [call EXCEPT ![t] = "drawn"]
      /\ UNCHANGED <<before, returned>>
  BY <1>1 DEF Draw
<1>5. TypeOK
  BY DEF IInv
<1> HIDE DEF n, s
<1>6. TypeOK'
  BY <1>2, <1>3, <1>4, <1>5 DEF TypeOK
<1>7. ASSUME NEW a \in Seqs, AtMost(a, hlc[n])  PROVE Less(a, s) /\ a # s
  BY <1>2, <1>3, <1>7, LessIsStrict DEF AtMost
<1>8. \A k \in returned : k[1] \in Nodes /\ k[2] \in Seqs /\ k = <<k[1], k[2]>>
  BY <1>5 DEF TypeOK, Keys
<1>9. \A k \in returned : k[1] = n => Less(k[2], s) /\ k[2] # s
  BY <1>7, <1>8 DEF IInv, BehindClock
<1>10. ASSUME NEW u \in Threads \ {t}, call[u] = "drawn", NodeOf[u] = n
       PROVE  Less(drawn[u], s) /\ drawn[u] # s
  <2>1. drawn[u] \in Seqs /\ AtMost(drawn[u], hlc[n])
    BY <1>5, <1>10 DEF IInv, BehindClock, TypeOK
  <2> QED  BY <1>7, <2>1
<1>11. BehindClock'
  <2>1. ASSUME NEW k \in returned  PROVE AtMost(k[2], hlc'[k[1]])
    <3>1. CASE k[1] = n
      BY <1>2, <1>4, <1>5, <1>9, <3>1 DEF AtMost, TypeOK
    <3>2. CASE k[1] # n
      BY <1>4, <1>5, <1>8, <3>2 DEF IInv, BehindClock, TypeOK
    <3> QED  BY <3>1, <3>2
  <2>2. ASSUME NEW u \in Threads, call'[u] = "drawn"  PROVE AtMost(drawn'[u], hlc'[NodeOf[u]])
    <3>1. CASE u = t
      BY <1>2, <1>4, <1>5, <3>1 DEF AtMost, TypeOK, n
    <3>2. CASE u # t /\ NodeOf[u] = n
      BY <1>2, <1>4, <1>5, <1>10, <2>2, <3>2 DEF AtMost, TypeOK
    <3>3. CASE u # t /\ NodeOf[u] # n
      BY <1>4, <1>5, <2>2, <3>3 DEF IInv, BehindClock, TypeOK
    <3> QED  BY <3>1, <3>2, <3>3
  <2> QED  BY <1>4, <2>1, <2>2 DEF BehindClock
<1>12. BeforeIsReturned'
  BY <1>4 DEF IInv, BeforeIsReturned
<1>13. SeqsDistinct'
  <2>1. SUFFICES ASSUME NEW u \in Threads, call'[u] = "drawn"
                 PROVE  /\ <<NodeOf[u], drawn'[u]>> \notin returned
                        /\ \A v \in Threads \ {u} :
                              (NodeOf[v] = NodeOf[u] /\ call'[v] = "drawn")
                                  => drawn'[v] # drawn'[u]
    BY <1>4 DEF SeqsDistinct
  <2>2. CASE u = t
    <3>1. drawn'[u] = s /\ NodeOf[u] = n
      BY <1>4, <1>5, <2>2 DEF TypeOK, n
    <3>2. <<n, s>> \notin returned
      BY <1>9
    <3>3. \A v \in Threads \ {t} : call'[v] = call[v] /\ drawn'[v] = drawn[v]
      BY <1>4, <1>5 DEF TypeOK
    <3> QED  BY <1>10, <2>2, <3>1, <3>2, <3>3
  <2>3. CASE u # t
    <3>1. /\ call[u] = "drawn" /\ drawn'[u] = drawn[u]
          /\ \A v \in Threads \ {t} : call'[v] = call[v] /\ drawn'[v] = drawn[v]
      BY <1>4, <1>5, <2>1, <2>3 DEF TypeOK
    <3>2. drawn'[t] = s /\ NodeOf[t] = n
      BY <1>4, <1>5 DEF TypeOK, n
    <3>3. NodeOf[u] = n => drawn[u] # s
      BY <1>10, <2>3, <3>1
    <3> QED  BY <2>3, <3>1, <3>2, <3>3 DEF IInv, SeqsDistinct
  <2> QED  BY <2>2, <2>3
<1>14. RealTimeOrder'
  <2>1. SUFFICES ASSUME NEW u \in Threads, call'[u] = "drawn", NEW k \in before[u],
                        k[1] = NodeOf[u]
                 PROVE  Less(k[2], drawn'[u])
    BY <1>4 DEF RealTimeOrder
  <2>2. k \in returned
    BY DEF IInv, BeforeIsReturned
  <2>3. CASE u = t
    BY <1>4, <1>5, <1>9, <2>1, <2>2, <2>3 DEF TypeOK, n
  <2>4. CASE u # t
    BY <1>4, <1>5, <2>1, <2>4 DEF TypeOK, IInv, RealTimeOrder
  <2> QED  BY <2>3, <2>4
<1>15. \A m \in Nodes : hlc'[m] = hlc[m] \/ Less(hlc[m], hlc'[m])
  BY <1>2, <1>3, <1>4, <1>5 DEF TypeOK
<1> QED  BY <1>6, <1>11, <1>12, <1>13, <1>14, <1>15 DEF IInv

\* The steps that leave every clock alone.
LEMMA OtherStep ==
    ASSUME IInv, NEW t \in Threads, Call(t) \/ Raise(t) \/ Return(t)
    PROVE  IInv' /\ hlc' = hlc
<1> USE DEF IInv, TypeOK, BehindClock, BeforeIsReturned, SeqsDistinct, RealTimeOrder
<1>1. CASE Call(t)
  BY <1>1 DEF Call
<1>2. CASE Raise(t)
  BY <1>2 DEF Raise
<1>3. CASE Return(t)
  <2> DEFINE key == <<NodeOf[t], drawn[t]>>
  <2>1. /\ call[t] = "drawn" /\ call' = [call EXCEPT ![t] = "idle"]
        /\ returned' = returned \cup {key} /\ drawn' = [drawn EXCEPT ![t] = Start]
        /\ before' = [before EXCEPT ![t] = {}] /\ hlc' = hlc
    BY <1>3 DEF Return
  <2>2. key \in Keys /\ key[1] = NodeOf[t] /\ key[2] = drawn[t] /\ Start \in Seqs
    BY DEF Keys, Start, Seqs
  <2> HIDE DEF key
  <2>3. TypeOK'
    BY <2>1, <2>2
  <2>4. BehindClock' /\ BeforeIsReturned' /\ RealTimeOrder'
    BY <2>1, <2>2
  <2>5. SeqsDistinct'
    BY <2>1, <2>2 DEF key
  <2> QED  BY <2>1, <2>3, <2>4, <2>5
<1> QED  BY <1>1, <1>2, <1>3

LEMMA InvStep == IInv /\ [Next]_vars =>
    IInv' /\ \A n \in Nodes : hlc'[n] = hlc[n] \/ Less(hlc[n], hlc'[n])
<1>1. ASSUME IInv, NEW t \in Threads, Call(t) \/ Raise(t) \/ Return(t)
      PROVE  IInv' /\ \A n \in Nodes : hlc'[n] = hlc[n] \/ Less(hlc[n], hlc'[n])
  BY <1>1, OtherStep
<1>2. ASSUME IInv, UNCHANGED vars
      PROVE  IInv' /\ \A n \in Nodes : hlc'[n] = hlc[n] \/ Less(hlc[n], hlc'[n])
  BY <1>2 DEF vars, IInv, TypeOK, BehindClock, BeforeIsReturned, SeqsDistinct, RealTimeOrder
<1> QED  BY <1>1, <1>2, DrawStep DEF Next

LEMMA Invariance == Spec => []IInv
<1>1. IInv /\ [Next]_vars => IInv'
  BY InvStep
<1> QED  BY InitInv, <1>1, PTL DEF Spec

\* Clocks and keys never leave their fixed widths.
THEOREM OrderingTypeCorrect == Spec => []TypeOK
<1>1. IInv => TypeOK
  BY DEF IInv
<1> QED  BY <1>1, Invariance, PTL

\* No two calls on a node ever get the same seq.
THEOREM SeqsAreDistinct == Spec => []SeqsDistinct
<1>1. IInv => SeqsDistinct
  BY DEF IInv
<1> QED  BY <1>1, Invariance, PTL

\* A call on a node that begins after another one has returned gets the larger seq.
THEOREM AdmissionsInOrder == Spec => []RealTimeOrder
<1>1. IInv => RealTimeOrder
  BY DEF IInv
<1> QED  BY <1>1, Invariance, PTL

\* The clock of a node moves forward only, whatever its wall clock does.
THEOREM ClocksMoveForward == Spec => ClockMovesForward
<1>1. IInv /\ [Next]_vars =>
          [\A n \in Nodes : hlc'[n] = hlc[n] \/ Less(hlc[n], hlc'[n])]_hlc
  BY InvStep
<1> QED  BY <1>1, Invariance, PTL DEF Spec, ClockMovesForward
=============================================================================
