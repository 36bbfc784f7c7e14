--------------------------- MODULE PennyFlow_proofs ---------------------------
(***************************************************************************)
(* Proofs about a flow under any traffic, for every set of packets, every  *)
(* time-out and every parameter of the decision rule.  FlowInv(flow) is    *)
(* inductive; the properties of PennyFlow are parts of it.                 *)
(***************************************************************************)
EXTENDS PennyFlow, FlowLemmas, ArithmeticLemmas

IInv == FlowInv(flow)

\* The flow starts in the invariant.
LEMMA InitInv == Init => IInv
  BY NewFlowInv DEF Init, IInv

\* A packet that is let through keeps the invariant.
LEMMA ForwardInv ==
  ASSUME IInv, NEW p \in Packets, Forward(p)
  PROVE  IInv'
  BY ProcessPacketKeepsInv DEF IInv, Forward

\* A packet that is dropped keeps the invariant.
LEMMA DropInv ==
  ASSUME IInv, NEW p \in Packets, Drop(p)
  PROVE  IInv'
<1> DEFINE processed == ProcessPacket(flow, p)
<1>1. p \in DataPackets /\ IsPayloadUnique(flow, p)
  BY FlowAssumption DEF Drop, IsDroppable, DataPackets
<1>2. /\ FlowInv(processed)
      /\ Interval(p) \in processed.pktsIntervalTree
      /\ DOMAIN processed.droppedPktsDecision = DOMAIN flow.droppedPktsDecision
  BY <1>1, ProcessPacketKeepsInv DEF IInv, DropsSettled
<1>3. PacketId(p) \notin DOMAIN processed.droppedPktsDecision
  BY <1>1, <1>2, UniqueIsNotDropped DEF IInv
<1>4. flow' = DropPacket(processed, p)
  BY DEF Drop
<1> QED  BY <1>1, <1>2, <1>3, <1>4, DropPacketKeepsInv DEF IInv

\* Each step of a flow keeps the invariant.
LEMMA NextInv == IInv /\ [Next]_vars => IInv'
<1> SUFFICES ASSUME IInv, [Next]_vars
             PROVE  IInv'
  OBVIOUS
<1>1. CASE \E p \in Packets : Forward(p)
  BY <1>1, ForwardInv
<1>2. CASE \E p \in Packets : Drop(p)
  BY <1>2, DropInv
<1>3. CASE Tick
  BY <1>3, AgeDropsKeepsInv DEF Tick, IInv
<1>4. CASE UNCHANGED vars
  BY <1>4 DEF vars, IInv
<1> QED  BY <1>1, <1>2, <1>3, <1>4 DEF Next

\* The invariant holds of every reachable state.
THEOREM Invariance == Spec => []IInv
  BY InitInv, NextInv, PTL DEF Spec

-------------------------------------------------------------------------------
\* Every flow has the types of class pennyFlow, and its pending counts, which
\* the code keeps in uint64_t and only ever decrements by one, never wrap.
THEOREM TypeCorrect == Spec => []TypeOK
<1>1. IInv => TypeOK
  BY InvNoWrapAround DEF IInv, TypeOK, FlowInv
<1> QED  BY <1>1, Invariance, PTL

\* The counters and lists of the flow and of each of its snapshots always say
\* exactly what has become of the drops they cover.
THEOREM SnapshotsCorrect == Spec => []SnapshotsAgreeWithDrops
<1>1. IInv => SnapshotsAgreeWithDrops
  BY DEF IInv, FlowInv, SnapshotsAgreeWithDrops
<1> QED  BY <1>1, Invariance, PTL

\* The maps of decisions and of drop times agree with the exported lists.
THEOREM MapsCorrect == Spec => []MapsAgree
<1>1. IInv => MapsAgree
  BY DEF IInv, FlowInv, MapsAgree
<1> QED  BY <1>1, Invariance, PTL

\* No packet is dropped twice, however often it is retransmitted.
THEOREM DroppedOnce == Spec => []NeverDropsTwice
<1>1. IInv => NeverDropsTwice
  BY DEF IInv, FlowInv, NeverDropsTwice
<1> QED  BY <1>1, Invariance, PTL

-------------------------------------------------------------------------------
\* A packet that is let through settles drops of the ledger, or none.
LEMMA ForwardSettles ==
  ASSUME IInv, NEW p \in Packets, Forward(p)
  PROVE  Ledger!Next
<1>1. PICK E \in SUBSET Pending(flow), R \in SUBSET {PacketId(p)} :
        /\ R \subseteq Pending(flow) \ E
        /\ DropsSettled(flow, flow', E, R)
  BY ProcessPacketKeepsInv DEF IInv, Forward
<1>2. E \in SUBSET PacketIds /\ R \in SUBSET PacketIds
  BY <1>1 DEF IInv, FlowInv, FlowTypeOK
<1>3. \A a, b \in R : a = b
  OBVIOUS
<1>4. Ledger!Settle(E, R)
  BY <1>1, <1>3 DEF Ledger!Settle, DropsSettled
<1> QED  BY <1>2, <1>4 DEF Ledger!Next

\* A packet that is dropped is entered in the ledger.
LEMMA DropEnters ==
  ASSUME IInv, NEW p \in Packets, Drop(p)
  PROVE  Ledger!Next
<1> DEFINE processed == ProcessPacket(flow, p)
           id == PacketId(p)
<1>1. p \in DataPackets /\ IsPayloadUnique(flow, p)
  BY FlowAssumption DEF Drop, IsDroppable, DataPackets
<1>2. PICK E \in SUBSET Pending(flow) : DropsSettled(flow, processed, E, {})
  BY <1>1, ProcessPacketKeepsInv DEF IInv
<1>3. FlowInv(processed) /\ flow' = DropPacket(processed, p)
  BY ProcessPacketKeepsInv DEF IInv, Drop
<1> HIDE DEF processed
<1>4. /\ Pending(flow') = Pending(processed) \cup {id}
      /\ flow'.metaLists.expiredPcksList = processed.metaLists.expiredPcksList
      /\ flow'.metaLists.retransmittedPktsList
           = processed.metaLists.retransmittedPktsList
  <2>1. DOMAIN processed = DOMAIN NewFlow /\ processed.metaLists \in MetaLists
    BY <1>3 DEF FlowInv, FlowTypeOK
  <2> QED  BY <1>3, <2>1 DEF DropPacket, Pending, NewFlow, MetaLists
<1>5. id \notin Ledger!Known
  BY <1>1, UniqueIsNotDropped
     DEF IInv, FlowInv, MapsOfFlowAgree, Ledger!Known
<1>6. E \in SUBSET PacketIds /\ id \in PacketIds
  BY <1>1, <1>2, PacketIdType DEF IInv, FlowInv, FlowTypeOK
<1>7. Ledger!Drop(E, id)
  BY <1>2, <1>4, <1>5 DEF Ledger!Drop, DropsSettled
<1> QED  BY <1>6, <1>7 DEF Ledger!Next

\* A flow implements the ledger of its drops: each drop is entered once, and
\* settled at most once and for good, whatever arrives and whenever.
THEOREM LedgerKept == Spec => KeepsLedger
<1>1. Init => Ledger!Init
  BY DEF Init, NewFlow, NoLists, Pending, Ledger!Init
<1>2. IInv /\ [Next]_vars => [Ledger!Next]_(Ledger!vars)
  <2> SUFFICES ASSUME IInv, [Next]_vars
               PROVE  [Ledger!Next]_(Ledger!vars)
    OBVIOUS
  <2>1. CASE \E p \in Packets : Forward(p)
    BY <2>1, ForwardSettles
  <2>2. CASE \E p \in Packets : Drop(p)
    BY <2>2, DropEnters
  <2>3. CASE Tick
    <3>1. DOMAIN flow = DOMAIN NewFlow
      BY DEF IInv, FlowInv, FlowTypeOK
    <3> QED  BY <2>3, <3>1 DEF Tick, AgeDrops, Pending, NewFlow, Ledger!vars
  <2>4. CASE UNCHANGED vars
    BY <2>4 DEF vars, Ledger!vars
  <2> QED  BY <2>1, <2>2, <2>3, <2>4 DEF Next
<1> QED  BY <1>1, <1>2, Invariance, PTL DEF Spec, KeepsLedger, Ledger!Spec

-------------------------------------------------------------------------------
(***************************************************************************)
(* When a flow may be judged on its own.  A verdict rests on the snapshot  *)
(* that was copied into validCounterSnap, so what decides is how that copy *)
(* relates to the budgets that dropMorePackets tests.                      *)
(***************************************************************************)

\* A snapshot is taken only while dropMorePackets allows a drop, and its
\* count of droppable packets never changes after.
EvidenceBelowMinimum(f) ==
  /\ \A k \in DOMAIN f.counterSnapsList :
       f.counterSnapsList[k].counters.droppablePkts < MinDroppablePkts
  /\ f.validCounterSnap.counters.droppablePkts < MinDroppablePkts

\* Once the valid snapshot holds the whole budget, nothing is pending and
\* nothing can be dropped any more.
BudgetKept(f) ==
  /\ f.curCounters.droppedPkts <= MinPacketDrops
  /\ f.validCounterSnap.counters.droppedPkts >= MinPacketDrops =>
       /\ f.curCounters.droppedPkts = MinPacketDrops
       /\ Pending(f) = {}

BudgetInv(f) ==
  /\ MinDroppablePkts > 0 => EvidenceBelowMinimum(f)
  /\ MinPacketDrops > 0 => BudgetKept(f)

\* What no part of processPacket alters before it looks for a valid snapshot.
KeepsBudget(f, g) ==
  /\ g.validCounterSnap = f.validCounterSnap
  /\ g.curCounters.droppedPkts = f.curCounters.droppedPkts
  /\ Pending(g) \subseteq Pending(f)
  /\ DOMAIN g.counterSnapsList = DOMAIN f.counterSnapsList
  /\ \A k \in DOMAIN f.counterSnapsList :
       g.counterSnapsList[k].counters.droppablePkts
         = f.counterSnapsList[k].counters.droppablePkts

\* A step that keeps the budget keeps the invariant.
LEMMA KeepsBudgetInv ==
  ASSUME NEW f, NEW g, BudgetInv(f), KeepsBudget(f, g)
  PROVE  BudgetInv(g)
<1>1. ASSUME MinDroppablePkts > 0 PROVE EvidenceBelowMinimum(g)
  BY <1>1 DEF BudgetInv, KeepsBudget, EvidenceBelowMinimum
<1>2. ASSUME MinPacketDrops > 0 PROVE BudgetKept(g)
  BY <1>2 DEF BudgetInv, KeepsBudget, BudgetKept
<1> QED  BY <1>1, <1>2 DEF BudgetInv

-------------------------------------------------------------------------------
\* The operations of processPacket.

\* The snapshots of a flow and their counters have their types.
LEMMA SnapshotTypes ==
  ASSUME NEW f, FlowTypeOK(f), NEW k \in DOMAIN f.counterSnapsList
  PROVE  /\ f.counterSnapsList[k] \in Snapshot
         /\ f.counterSnapsList[k].counters \in Counters
         /\ f.counterSnapsList[k].lists \in MetaLists
<1>1. f.counterSnapsList \in Seq(Snapshot)
  BY DEF FlowTypeOK
<1>2. f.counterSnapsList[k] \in Snapshot
  BY <1>1, ElementOfSeq, LenProperties
<1> QED  BY <1>2 DEF Snapshot

\* The sequence number has no part in the budget.
LEMMA ObserveSeqKeepsBudget ==
  ASSUME NEW f, FlowTypeOK(f), NEW p \in DataPackets
  PROVE  KeepsBudget(f, ObserveSeq(f, p))
  BY DEF KeepsBudget, ObserveSeq, FlowTypeOK, NewFlow, Pending

\* Expired drops change no count of droppable or dropped packets.
LEMMA CheckPacketDropTimeoutsKeepsBudget ==
  ASSUME NEW f, FlowTypeOK(f)
  PROVE  KeepsBudget(f, CheckPacketDropTimeouts(f))
<1> DEFINE g == CheckPacketDropTimeouts(f)
           E == ExpiredDrops(f)
           s == f.counterSnapsList
           t == g.counterSnapsList
<1>1. DOMAIN f = DOMAIN NewFlow /\ f.curCounters \in Counters
  BY DEF FlowTypeOK
<1>2. /\ g.validCounterSnap = f.validCounterSnap
      /\ t = ExpireSnapshots(s, E)
      /\ g.curCounters = CountExpired(f.curCounters, Cardinality(E))
      /\ Pending(g) = Pending(f) \ E
  BY <1>1 DEF CheckPacketDropTimeouts, NewFlow, Pending
<1>3. g.curCounters.droppedPkts = f.curCounters.droppedPkts
  BY <1>1, <1>2 DEF CountExpired, Counters
<1>4. DOMAIN t = DOMAIN s
  BY <1>2 DEF ExpireSnapshots
<1>5. ASSUME NEW k \in DOMAIN s
      PROVE  t[k].counters.droppablePkts = s[k].counters.droppablePkts
  <2> DEFINE here == SettledUpTo(s, k, E)
  <2>1. s[k] \in Snapshot /\ s[k].counters \in Counters
    BY SnapshotTypes
  <2>2. t[k] = [s[k] EXCEPT
                  !.counters              = CountExpired(@, Cardinality(here)),
                  !.lists.expiredPcksList = @ \cup here]
    BY <1>2 DEF ExpireSnapshots
  <2> HIDE DEF here
  <2>3. t[k].counters = CountExpired(s[k].counters, Cardinality(here))
    BY <2>1, <2>2 DEF Snapshot
  <2> QED  BY <2>1, <2>3 DEF CountExpired, Counters
<1> QED  BY <1>2, <1>3, <1>4, <1>5 DEF KeepsBudget

\* A new payload counts for the flow only.
LEMMA AddPayloadKeepsBudget ==
  ASSUME NEW f, FlowTypeOK(f), NEW p \in DataPackets
  PROVE  KeepsBudget(f, AddPayload(f, p))
<1>1. DOMAIN f = DOMAIN NewFlow /\ f.curCounters \in Counters
  BY DEF FlowTypeOK
<1> QED  BY <1>1 DEF KeepsBudget, AddPayload, NewFlow, Pending, Counters

\* A duplicate changes no count of droppable or dropped packets.
LEMMA CountDuplicateKeepsBudget ==
  ASSUME NEW f, FlowTypeOK(f), NEW p \in DataPackets
  PROVE  KeepsBudget(f, CountDuplicate(f, p))
<1> DEFINE g == CountDuplicate(f, p)
           s == f.counterSnapsList
           t == g.counterSnapsList
<1>1. DOMAIN f = DOMAIN NewFlow /\ f.curCounters \in Counters
  BY DEF FlowTypeOK
<1>2. /\ g.validCounterSnap = f.validCounterSnap
      /\ t = DuplicateSnapshots(s, p.seq)
      /\ g.curCounters.droppedPkts = f.curCounters.droppedPkts
      /\ Pending(g) = Pending(f)
  BY <1>1 DEF CountDuplicate, NewFlow, Pending, Counters
<1>3. DOMAIN t = DOMAIN s
  BY <1>2 DEF DuplicateSnapshots
<1>4. ASSUME NEW k \in DOMAIN s
      PROVE  t[k].counters.droppablePkts = s[k].counters.droppablePkts
  <2>1. s[k] \in Snapshot /\ s[k].counters \in Counters
    BY SnapshotTypes
  <2>2. t[k] = s[k] \/ t[k] = [s[k] EXCEPT !.counters.duplicatePkts = @ + 1]
    BY <1>2 DEF DuplicateSnapshots
  <2> QED  BY <2>1, <2>2 DEF Snapshot, Counters
<1> QED  BY <1>2, <1>3, <1>4 DEF KeepsBudget

\* Nor does a retransmission.
LEMMA ObserveRetransmissionKeepsBudget ==
  ASSUME NEW f, FlowTypeOK(f), NEW id
  PROVE  KeepsBudget(f, ObserveRetransmission(f, id))
<1> DEFINE g == ObserveRetransmission(f, id)
           s == f.counterSnapsList
           t == g.counterSnapsList
<1>1. DOMAIN f = DOMAIN NewFlow /\ f.curCounters \in Counters
  BY DEF FlowTypeOK
<1>2. /\ g.validCounterSnap = f.validCounterSnap
      /\ t = RetransmitSnapshots(s, id)
      /\ g.curCounters = CountRetransmitted(f.curCounters)
      /\ Pending(g) = Pending(f) \ {id}
  BY <1>1 DEF ObserveRetransmission, NewFlow, Pending
<1>3. g.curCounters.droppedPkts = f.curCounters.droppedPkts
  BY <1>1, <1>2 DEF CountRetransmitted, Counters
<1>4. DOMAIN t = DOMAIN s
  BY <1>2 DEF RetransmitSnapshots
<1>5. ASSUME NEW k \in DOMAIN s
      PROVE  t[k].counters.droppablePkts = s[k].counters.droppablePkts
  <2>1. s[k] \in Snapshot /\ s[k].counters \in Counters
    BY SnapshotTypes
  <2>2. \/ t[k] = s[k]
        \/ t[k] = [s[k] EXCEPT
                     !.counters                    = CountRetransmitted(@),
                     !.lists.retransmittedPktsList = @ \cup {id}]
    BY <1>2 DEF RetransmitSnapshots
  <2>3. \/ t[k] = s[k]
        \/ t[k].counters = CountRetransmitted(s[k].counters)
    BY <2>1, <2>2 DEF Snapshot
  <2> QED  BY <2>1, <2>3 DEF CountRetransmitted, Counters
<1> QED  BY <1>2, <1>3, <1>4, <1>5 DEF KeepsBudget

\* However a packet is accounted for, the budget is kept.
LEMMA AccountKeepsBudget ==
  ASSUME NEW f, FlowTypeOK(f), NEW p \in DataPackets, NEW unique \in BOOLEAN
  PROVE  KeepsBudget(f, Account(f, p, unique))
<1>1. CASE unique
  BY <1>1, AddPayloadKeepsBudget DEF Account
<1>2. CASE ~unique /\ AwaitsRetransmission(f, PacketId(p))
  BY <1>2, ObserveRetransmissionKeepsBudget DEF Account
<1>3. CASE ~unique /\ ~AwaitsRetransmission(f, PacketId(p))
  BY <1>3, CountDuplicateKeepsBudget DEF Account
<1> QED  BY <1>1, <1>2, <1>3

-------------------------------------------------------------------------------
\* pennyFlow::checkForNewValidSnapshot: the snapshot it copies has no pending
\* drop, so if it holds the whole budget then every drop is settled.
LEMMA CheckForNewValidSnapshotBudget ==
  ASSUME NEW f, FlowInv(f), BudgetInv(f)
  PROVE  BudgetInv(CheckForNewValidSnapshot(f))
<1> DEFINE g == CheckForNewValidSnapshot(f)
           s == f.counterSnapsList
           n == Len(s)
           settled == SettledSnapshots(s)
           m == Max(settled)
<1>1. /\ FlowTypeOK(f)
      /\ DOMAIN f = DOMAIN NewFlow
      /\ s \in Seq(Snapshot)
      /\ f.curCounters \in Counters
  BY DEF FlowInv, FlowTypeOK
<1>2. n \in Nat /\ DOMAIN s = 1..n
  BY <1>1, LenProperties
<1>3. CASE settled = {}
  BY <1>3 DEF CheckForNewValidSnapshot
<1>4. CASE settled # {}
  <2>1. m \in settled
    BY <1>2, <1>4, LastPosition DEF SettledSnapshots
  <2> HIDE DEF m
  <2>2. m \in 1..n /\ s[m].counters.pendingDroppedPkts = 0
    BY <1>2, <2>1 DEF SettledSnapshots
  <2>3. g = [f EXCEPT !.validCounterSnap = Totals(s[m])]
    BY <1>4 DEF CheckForNewValidSnapshot, m
  <2>4. /\ g.validCounterSnap.counters = s[m].counters
        /\ g.curCounters = f.curCounters
        /\ g.counterSnapsList = s
        /\ Pending(g) = Pending(f)
    BY <1>1, <2>3 DEF Totals, NewFlow, Pending
  <2>5. ASSUME MinDroppablePkts > 0 PROVE EvidenceBelowMinimum(g)
    BY <1>2, <2>2, <2>4, <2>5 DEF BudgetInv, EvidenceBelowMinimum
  <2>6. ASSUME MinPacketDrops > 0,
               s[m].counters.droppedPkts >= MinPacketDrops
        PROVE  /\ f.curCounters.droppedPkts = MinPacketDrops
               /\ Pending(f) = {}
    <3>1. /\ IsFiniteSet(Known(f, n))
          /\ m \in 0..n /\ n \in 0..n
      BY <1>1, <1>2, <2>2, DroppedUpToFinite DEF Known
    <3>2. Known(f, m) \subseteq Known(f, n)
      BY <1>2, <2>2 DEF Known, DroppedUpTo
    <3>3. /\ f.curCounters.droppedPkts = Cardinality(Known(f, n))
          /\ s[m].counters.droppedPkts = Cardinality(Known(f, m))
          /\ Cardinality(Known(f, m) \cap Pending(f)) = 0
      BY <1>2, <2>2 DEF FlowInv, SnapshotsDescribeDrops, Describes
    <3>4. f.curCounters.droppedPkts <= MinPacketDrops
      BY <2>6 DEF BudgetInv, BudgetKept
    <3>5. Cardinality(Known(f, m)) <= Cardinality(Known(f, n))
      BY <3>1, <3>2, FS_Subset
    <3>6. f.curCounters.droppedPkts \in Nat /\ s[m].counters.droppedPkts \in Nat
      BY <1>1, <1>2, <2>2, SnapshotTypes DEF Counters
    <3>7. MinPacketDrops \in Nat
      BY HypothesesAssumption
    <3>8. /\ f.curCounters.droppedPkts = MinPacketDrops
          /\ Cardinality(Known(f, n)) = Cardinality(Known(f, m))
      BY <2>6, <3>3, <3>4, <3>5, <3>6, <3>7
    <3>9. Known(f, n) = Known(f, m)
      BY <3>1, <3>2, <3>8, FS_Subset
    <3>10. Pending(f) \subseteq Known(f, n)
      BY DEF FlowInv, MapsOfFlowAgree, DropsRecorded
    <3>11. IsFiniteSet(Known(f, m) \cap Pending(f))
      BY <3>1, <3>9, FS_Subset
    <3>12. Known(f, m) \cap Pending(f) = {}
      BY <3>3, <3>11, FS_EmptySet
    <3> QED  BY <3>8, <3>9, <3>10, <3>12
  <2>7. ASSUME MinPacketDrops > 0 PROVE BudgetKept(g)
    BY <2>4, <2>6, <2>7 DEF BudgetInv, BudgetKept
  <2> QED  BY <2>5, <2>7 DEF BudgetInv
<1> QED  BY <1>3, <1>4

\* pennyFlow::processPacket keeps the budget.
LEMMA ProcessPacketBudget ==
  ASSUME NEW f, FlowInv(f), BudgetInv(f), NEW p \in Packets
  PROVE  BudgetInv(ProcessPacket(f, p))
<1>1. CASE p.payloadSize = 0
  BY <1>1 DEF ProcessPacket
<1>2. CASE p.payloadSize # 0
  <2> DEFINE unique == IsPayloadUnique(f, p)
             a == ObserveSeq(f, p)
             b == CheckPacketDropTimeouts(a)
             c == Account(b, p, unique)
  <2>1. p \in DataPackets
    BY <1>2, FlowAssumption DEF DataPackets
  <2>2. FlowInv(a) /\ BudgetInv(a)
    BY <2>1, ObserveSeqKeepsInv, ObserveSeqKeepsBudget, KeepsBudgetInv
       DEF FlowInv
  <2>3. FlowInv(b) /\ BudgetInv(b)
    <3> HIDE DEF a
    <3>1. FlowTypeOK(a)
      BY <2>2 DEF FlowInv
    <3> QED  BY <2>2, <3>1, CheckPacketDropTimeoutsKeepsInv,
                CheckPacketDropTimeoutsKeepsBudget, KeepsBudgetInv
  <2>4. FlowInv(c) /\ BudgetInv(c)
    <3> HIDE DEF b
    <3>1. FlowTypeOK(b) /\ unique \in BOOLEAN
      BY <2>3 DEF FlowInv, IsPayloadUnique
    <3> QED  BY <2>1, <2>3, <3>1, AccountKeepsInv, AccountKeepsBudget,
                KeepsBudgetInv
  <2>5. ProcessPacket(f, p) = CheckForNewValidSnapshot(c)
    BY <1>2 DEF ProcessPacket
  <2> HIDE DEF c
  <2> QED  BY <2>4, <2>5, CheckForNewValidSnapshotBudget
<1> QED  BY <1>1, <1>2

\* pennyFlow::dropPacket keeps the budget, since dropMorePackets allowed it.
LEMMA DropPacketBudget ==
  ASSUME NEW f, FlowInv(f), BudgetInv(f), DropMorePackets(f),
         NEW p \in DataPackets
  PROVE  BudgetInv(DropPacket(f, p))
<1> DEFINE g == DropPacket(f, p)
           s == f.counterSnapsList
           t == g.counterSnapsList
<1>1. /\ FlowTypeOK(f)
      /\ DOMAIN f = DOMAIN NewFlow
      /\ s \in Seq(Snapshot)
      /\ f.curCounters \in Counters
      /\ f.validCounterSnap.counters \in Counters
  BY DEF FlowInv, FlowTypeOK, FlowTotals
<1>2. Len(s) \in Nat /\ DOMAIN s = 1..Len(s)
  BY <1>1, LenProperties
<1> DEFINE e == [highestSeq |-> f.highestSeq, packetId |-> PacketId(p),
                 counters |-> g.curCounters, lists |-> g.metaLists]
<1>3. /\ t = Append(s, e)
      /\ e.counters = g.curCounters
  BY <1>1 DEF DropPacket, NewFlow
<1>4. /\ g.validCounterSnap = f.validCounterSnap
      /\ g.curCounters.droppedPkts = f.curCounters.droppedPkts + 1
      /\ g.curCounters.droppablePkts = f.curCounters.droppablePkts
  BY <1>1 DEF DropPacket, NewFlow, Counters
<1> HIDE DEF e
<1>5. /\ DOMAIN t = 1..(Len(s) + 1)
      /\ \A k \in 1..Len(s) : t[k] = s[k]
      /\ t[Len(s) + 1] = e
  BY <1>1, <1>2, <1>3, AppendProperties
<1>6. ASSUME MinDroppablePkts > 0 PROVE EvidenceBelowMinimum(g)
  <2>1. e.counters.droppablePkts < MinDroppablePkts
    BY <1>3, <1>4, <1>6 DEF DropMorePackets
  <2>2. EvidenceBelowMinimum(f)
    BY <1>6 DEF BudgetInv
  <2> QED  BY <1>2, <1>4, <1>5, <2>1, <2>2 DEF EvidenceBelowMinimum
<1>7. ASSUME MinPacketDrops > 0 PROVE BudgetKept(g)
  <2>1. f.curCounters.droppedPkts < MinPacketDrops
    BY <1>7 DEF DropMorePackets
  <2>2. /\ f.curCounters.droppedPkts \in Nat
        /\ f.validCounterSnap.counters.droppedPkts \in Nat
        /\ MinPacketDrops \in Nat
    BY <1>1, HypothesesAssumption DEF Counters
  <2>3. ~(f.validCounterSnap.counters.droppedPkts >= MinPacketDrops)
    BY <1>7, <2>1, <2>2 DEF BudgetInv, BudgetKept
  <2> QED  BY <1>4, <2>1, <2>2, <2>3 DEF BudgetKept
<1> QED  BY <1>6, <1>7 DEF BudgetInv

\* The clock has no part in the budget.
LEMMA AgeDropsKeepsBudget ==
  ASSUME NEW f, FlowTypeOK(f)
  PROVE  KeepsBudget(f, AgeDrops(f))
  BY DEF KeepsBudget, AgeDrops, FlowTypeOK, NewFlow, Pending

-------------------------------------------------------------------------------
\* Until a drop of the flow is settled there is no verdict, and after that it
\* is that on the valid snapshot, which has to meet both minimums.
LEMMA VerdictFromValidSnapshot ==
  ASSUME NEW f, FlowInv(f), EvaluateHypotheses(f) # "NoDecision"
  PROVE  /\ GetFlowState(f) = f.validCounterSnap
         /\ ~BelowMinimum(f.validCounterSnap.counters)
<1> DEFINE s == f.counterSnapsList
           n == Len(s)
           cur == f.curCounters
           R == f.metaLists.retransmittedPktsList
           X == f.metaLists.expiredPcksList
           c == GetFlowState(f).counters
<1>1. s \in Seq(Snapshot) /\ cur \in Counters
  BY DEF FlowInv, FlowTypeOK
<1>2. n \in Nat /\ DOMAIN s = 1..n
  BY <1>1, LenProperties
<1>3. Describes(f, cur, f.metaLists, Known(f, n))
  BY DEF FlowInv, SnapshotsDescribeDrops
<1>4. c.retransmittedDroppedPkts # 0 \/ c.notSeenDroppedPkts # 0
  BY DEF EvaluateHypotheses
<1>5. ~BelowMinimum(c)
  BY DEF EvaluateHypotheses, Verdict
<1>6. IsFiniteSet(Known(f, n)) /\ IsFiniteSet(R) /\ IsFiniteSet(X)
  <2>1. n \in 0..n
    BY <1>2
  <2>2. IsFiniteSet(Known(f, n))
    BY <1>1, <2>1, DroppedUpToFinite DEF Known
  <2>3. R \subseteq Known(f, n) /\ X \subseteq Known(f, n)
    BY <1>3 DEF Describes
  <2> QED  BY <2>2, <2>3, FS_Subset
<1>7. ASSUME cur.notSeenDroppedPkts = 0, cur.retransmittedDroppedPkts = 0
      PROVE  R = {} /\ X = {}
  BY <1>3, <1>6, <1>7, FS_EmptySet DEF Describes
<1>8. CASE cur.droppedPkts = 0
  <2>1. c = cur
    BY <1>8 DEF GetFlowState
  <2>2. Known(f, n) = {}
    BY <1>3, <1>6, <1>8, FS_EmptySet DEF Describes
  <2>3. R = {} /\ X = {}
    BY <1>3, <2>2 DEF Describes
  <2>4. cur.retransmittedDroppedPkts = 0 /\ cur.notSeenDroppedPkts = 0
    BY <1>3, <2>3, FS_EmptySet DEF Describes
  <2> QED  BY <1>4, <2>1, <2>4
<1>9. CASE /\ cur.droppedPkts # 0
           /\ cur.notSeenDroppedPkts > 0 \/ cur.retransmittedDroppedPkts > 0
  <2>1. GetFlowState(f) = f.validCounterSnap
    BY <1>9 DEF GetFlowState
  <2> QED  BY <1>5, <2>1
<1>10. CASE /\ cur.droppedPkts # 0
            /\ ~(cur.notSeenDroppedPkts > 0 \/ cur.retransmittedDroppedPkts > 0)
  <2>1. c = s[1].counters
    BY <1>10 DEF GetFlowState, Totals
  <2>2. cur.notSeenDroppedPkts = 0 /\ cur.retransmittedDroppedPkts = 0
    BY <1>1, <1>10 DEF Counters
  <2>3. R = {} /\ X = {}
    BY <1>7, <2>2
  <2>4. n # 0
    <3>1. ASSUME n = 0 PROVE Known(f, n) = {}
      BY <3>1 DEF Known, DroppedUpTo
    <3> QED  BY <1>3, <1>10, <3>1, FS_EmptySet DEF Describes
  <2>5. Describes(f, s[1].counters, s[1].lists, Known(f, 1))
    BY <1>2, <2>4 DEF FlowInv, SnapshotsDescribeDrops
  <2>6. /\ s[1].lists.retransmittedPktsList = {}
        /\ s[1].lists.expiredPcksList = {}
    BY <2>3, <2>5 DEF Describes
  <2>7. /\ s[1].counters.retransmittedDroppedPkts = 0
        /\ s[1].counters.notSeenDroppedPkts = 0
    BY <2>5, <2>6, FS_EmptySet DEF Describes
  <2> QED  BY <1>4, <2>1, <2>7
<1> QED  BY <1>8, <1>9, <1>10

-------------------------------------------------------------------------------
BInv == IInv /\ BudgetInv(flow)

\* A new flow is within its budgets.
LEMMA InitBudget == Init => BInv
<1> SUFFICES ASSUME Init PROVE BInv
  OBVIOUS
<1>1. IInv
  BY InitInv
<1>2. BudgetInv(NewFlow)
  BY HypothesesAssumption DEF BudgetInv, EvidenceBelowMinimum, BudgetKept,
                              NewFlow, NoTotals, NoCounters
<1> QED  BY <1>1, <1>2 DEF Init, BInv

\* Each step of a flow keeps it within its budgets.
LEMMA NextBudget == BInv /\ [Next]_vars => BInv'
<1> SUFFICES ASSUME BInv, [Next]_vars PROVE BudgetInv(flow')
  BY NextInv DEF BInv
<1>1. ASSUME NEW p \in Packets, Forward(p) PROVE BudgetInv(flow')
  BY <1>1, ProcessPacketBudget DEF Forward, BInv, IInv
<1>2. ASSUME NEW p \in Packets, Drop(p) PROVE BudgetInv(flow')
  <2>1. FlowInv(ProcessPacket(flow, p)) /\ BudgetInv(ProcessPacket(flow, p))
    BY ProcessPacketKeepsInv, ProcessPacketBudget DEF BInv, IInv
  <2>2. p \in DataPackets
    BY <1>2 DEF Drop, IsDroppable, DataPackets
  <2>3. /\ DropMorePackets(ProcessPacket(flow, p))
        /\ flow' = DropPacket(ProcessPacket(flow, p), p)
    BY <1>2 DEF Drop
  <2> QED  BY <2>1, <2>2, <2>3, DropPacketBudget
<1>3. CASE Tick
  BY <1>3, AgeDropsKeepsBudget, KeepsBudgetInv DEF Tick, BInv, IInv, FlowInv
<1>4. CASE UNCHANGED vars
  BY <1>4 DEF vars, BInv
<1> QED  BY <1>1, <1>2, <1>3, <1>4 DEF Next

\* The budgets are kept in every reachable state.
THEOREM BudgetInvariance == Spec => []BInv
  BY InitBudget, NextBudget, PTL DEF Spec

\* With a minimum of droppable packets no flow is ever judged on its own: its
\* snapshots were all taken before the minimum was reached.
THEOREM NeverJudged == Spec => []MinDroppableExcludesVerdict
<1>1. ASSUME BInv, MinDroppablePkts > 0,
             EvaluateHypotheses(flow) # "NoDecision"
      PROVE  FALSE
  <2>1. ~BelowMinimum(flow.validCounterSnap.counters)
    BY <1>1, VerdictFromValidSnapshot DEF BInv, IInv
  <2>2. EvidenceBelowMinimum(flow)
    BY <1>1 DEF BInv, BudgetInv
  <2> QED  BY <1>1, <2>1, <2>2 DEF BelowMinimum, EvidenceBelowMinimum
<1>2. BInv => MinDroppableExcludesVerdict
  BY <1>1 DEF MinDroppableExcludesVerdict
<1> QED  BY <1>2, BudgetInvariance, PTL

\* With a drop budget a flow is judged only when the whole budget is spent and
\* every drop of it settled.
THEOREM JudgedAfterBudget == Spec => []VerdictNeedsWholeBudget
<1>1. ASSUME BInv, MinPacketDrops > 0,
             EvaluateHypotheses(flow) # "NoDecision"
      PROVE  /\ flow.curCounters.droppedPkts = MinPacketDrops
             /\ Pending(flow) = {}
  <2>1. ~BelowMinimum(flow.validCounterSnap.counters)
    BY <1>1, VerdictFromValidSnapshot DEF BInv, IInv
  <2>2. BudgetKept(flow)
    BY <1>1 DEF BInv, BudgetInv
  <2>3. /\ flow.validCounterSnap.counters.droppedPkts \in Nat
        /\ MinPacketDrops \in Nat
    BY <1>1, HypothesesAssumption
       DEF BInv, IInv, FlowInv, FlowTypeOK, FlowTotals, Counters
  <2> QED  BY <1>1, <2>1, <2>2, <2>3 DEF BelowMinimum, BudgetKept
<1>2. BInv => VerdictNeedsWholeBudget
  BY <1>1 DEF VerdictNeedsWholeBudget
<1> QED  BY <1>2, BudgetInvariance, PTL

-------------------------------------------------------------------------------
(***************************************************************************)
(* What a flow may rely on when it reads its snapshots, for every set of   *)
(* packets, every time-out and every parameter of the decision rule: that  *)
(* duplicates grow along the list, and that the snapshot copied into       *)
(* validCounterSnap is the present state of the last settled one.          *)
(***************************************************************************)

\* DuplicatesGrowAlongSnapshots of the flow f.
DuplicatesGrow(f) ==
  LET s == f.counterSnapsList IN
  /\ \A j, k \in DOMAIN s :
       j <= k => s[j].counters.duplicatePkts <= s[k].counters.duplicatePkts
  /\ \A k \in DOMAIN s :
       /\ s[k].counters.duplicatePkts <= f.curCounters.duplicatePkts
       /\ s[k].counters.droppablePkts <= f.curCounters.droppablePkts

\* A call that counts no duplicate and no droppable packet in a snapshot.
KeepsDuplicates(f, g) ==
  LET s == f.counterSnapsList
      t == g.counterSnapsList
  IN
  /\ g.curCounters.duplicatePkts = f.curCounters.duplicatePkts
  /\ g.curCounters.droppablePkts >= f.curCounters.droppablePkts
  /\ DOMAIN t = DOMAIN s
  /\ \A k \in DOMAIN s :
       /\ t[k].counters.duplicatePkts = s[k].counters.duplicatePkts
       /\ t[k].counters.droppablePkts = s[k].counters.droppablePkts

\* Such a call keeps the duplicates in order.
LEMMA KeepsDuplicatesGrow ==
  ASSUME NEW f, NEW g, FlowTypeOK(f), FlowTypeOK(g),
         DuplicatesGrow(f), KeepsDuplicates(f, g)
  PROVE  DuplicatesGrow(g)
<1> DEFINE s == f.counterSnapsList
           t == g.counterSnapsList
<1>1. f.curCounters \in Counters /\ g.curCounters \in Counters
  BY DEF FlowTypeOK
<1>2. ASSUME NEW k \in DOMAIN t
      PROVE  t[k].counters.droppablePkts <= g.curCounters.droppablePkts
  <2>1. k \in DOMAIN s /\ s[k].counters \in Counters
    BY <1>2, SnapshotTypes DEF KeepsDuplicates
  <2>2. /\ s[k].counters.droppablePkts <= f.curCounters.droppablePkts
        /\ f.curCounters.droppablePkts <= g.curCounters.droppablePkts
        /\ t[k].counters.droppablePkts = s[k].counters.droppablePkts
    BY <1>1, <2>1 DEF KeepsDuplicates, DuplicatesGrow, Counters
  <2> QED  BY <1>1, <2>1, <2>2 DEF Counters
<1> QED  BY <1>2 DEF KeepsDuplicates, DuplicatesGrow

-------------------------------------------------------------------------------
\* The operations of processPacket.

\* The sequence number has no part in the counters.
LEMMA ObserveSeqDuplicates ==
  ASSUME NEW f, FlowTypeOK(f), NEW p \in DataPackets
  PROVE  KeepsDuplicates(f, ObserveSeq(f, p))
  BY DEF KeepsDuplicates, ObserveSeq, FlowTypeOK, NewFlow, Counters

\* Expired drops leave the duplicates alone, in the flow and its snapshots.
LEMMA CheckPacketDropTimeoutsDuplicates ==
  ASSUME NEW f, FlowTypeOK(f)
  PROVE  KeepsDuplicates(f, CheckPacketDropTimeouts(f))
<1> DEFINE g == CheckPacketDropTimeouts(f)
           E == ExpiredDrops(f)
           s == f.counterSnapsList
           t == g.counterSnapsList
<1>1. DOMAIN f = DOMAIN NewFlow /\ f.curCounters \in Counters
  BY DEF FlowTypeOK
<1>2. /\ t = ExpireSnapshots(s, E)
      /\ g.curCounters = CountExpired(f.curCounters, Cardinality(E))
  BY <1>1 DEF CheckPacketDropTimeouts, NewFlow
<1>3. /\ g.curCounters.duplicatePkts = f.curCounters.duplicatePkts
      /\ g.curCounters.droppablePkts >= f.curCounters.droppablePkts
  BY <1>1, <1>2 DEF CountExpired, Counters
<1>4. DOMAIN t = DOMAIN s
  BY <1>2 DEF ExpireSnapshots
<1>5. ASSUME NEW k \in DOMAIN s
      PROVE  /\ t[k].counters.duplicatePkts = s[k].counters.duplicatePkts
             /\ t[k].counters.droppablePkts = s[k].counters.droppablePkts
  <2> DEFINE here == SettledUpTo(s, k, E)
  <2>1. s[k] \in Snapshot /\ s[k].counters \in Counters
    BY SnapshotTypes
  <2>2. t[k] = [s[k] EXCEPT
                  !.counters              = CountExpired(@, Cardinality(here)),
                  !.lists.expiredPcksList = @ \cup here]
    BY <1>2 DEF ExpireSnapshots
  <2> HIDE DEF here
  <2>3. t[k].counters = CountExpired(s[k].counters, Cardinality(here))
    BY <2>1, <2>2 DEF Snapshot
  <2> QED  BY <2>1, <2>3 DEF CountExpired, Counters
<1> QED  BY <1>3, <1>4, <1>5 DEF KeepsDuplicates

\* Nor does an observed retransmission touch them.
LEMMA ObserveRetransmissionDuplicates ==
  ASSUME NEW f, FlowTypeOK(f), NEW id
  PROVE  KeepsDuplicates(f, ObserveRetransmission(f, id))
<1> DEFINE g == ObserveRetransmission(f, id)
           s == f.counterSnapsList
           t == g.counterSnapsList
<1>1. DOMAIN f = DOMAIN NewFlow /\ f.curCounters \in Counters
  BY DEF FlowTypeOK
<1>2. /\ t = RetransmitSnapshots(s, id)
      /\ g.curCounters = CountRetransmitted(f.curCounters)
  BY <1>1 DEF ObserveRetransmission, NewFlow
<1>3. /\ g.curCounters.duplicatePkts = f.curCounters.duplicatePkts
      /\ g.curCounters.droppablePkts >= f.curCounters.droppablePkts
  BY <1>1, <1>2 DEF CountRetransmitted, Counters
<1>4. DOMAIN t = DOMAIN s
  BY <1>2 DEF RetransmitSnapshots
<1>5. ASSUME NEW k \in DOMAIN s
      PROVE  /\ t[k].counters.duplicatePkts = s[k].counters.duplicatePkts
             /\ t[k].counters.droppablePkts = s[k].counters.droppablePkts
  <2>1. s[k] \in Snapshot /\ s[k].counters \in Counters
    BY SnapshotTypes
  <2>2. \/ t[k] = s[k]
        \/ t[k] = [s[k] EXCEPT
                     !.counters                    = CountRetransmitted(@),
                     !.lists.retransmittedPktsList = @ \cup {id}]
    BY <1>2 DEF RetransmitSnapshots
  <2>3. \/ t[k] = s[k]
        \/ t[k].counters = CountRetransmitted(s[k].counters)
    BY <2>1, <2>2 DEF Snapshot
  <2> QED  BY <2>1, <2>3 DEF CountRetransmitted, Counters
<1> QED  BY <1>3, <1>4, <1>5 DEF KeepsDuplicates

\* A duplicate is counted by the flow and by all snapshots from some one on,
\* since what an earlier snapshot covers every later one covers.
LEMMA CountDuplicateGrows ==
  ASSUME NEW f, FlowTypeOK(f), DuplicatesGrow(f), NEW p \in DataPackets
  PROVE  DuplicatesGrow(CountDuplicate(f, p))
<1> DEFINE g == CountDuplicate(f, p)
           s == f.counterSnapsList
           t == g.counterSnapsList
           Covers(k) == \E j \in 1..k : s[j].highestSeq >= p.seq
<1>1. DOMAIN f = DOMAIN NewFlow /\ f.curCounters \in Counters
  BY DEF FlowTypeOK
<1>2. Len(s) \in Nat /\ DOMAIN s = 1..Len(s)
  BY LenProperties DEF FlowTypeOK
<1>3. /\ t = DuplicateSnapshots(s, p.seq)
      /\ g.curCounters.duplicatePkts = f.curCounters.duplicatePkts + 1
      /\ g.curCounters.droppablePkts = f.curCounters.droppablePkts
  BY <1>1 DEF CountDuplicate, NewFlow, Counters
<1>4. DOMAIN t = DOMAIN s
  BY <1>3 DEF DuplicateSnapshots
<1>5. ASSUME NEW k \in DOMAIN s
      PROVE  /\ s[k].counters \in Counters
             /\ t[k].counters.droppablePkts = s[k].counters.droppablePkts
             /\ Covers(k) => t[k].counters.duplicatePkts
                               = s[k].counters.duplicatePkts + 1
             /\ ~Covers(k) => t[k].counters.duplicatePkts
                                = s[k].counters.duplicatePkts
  <2>1. s[k] \in Snapshot /\ s[k].counters \in Counters
    BY SnapshotTypes
  <2>2. t[k] = IF Covers(k)
                 THEN [s[k] EXCEPT !.counters.duplicatePkts = @ + 1]
                 ELSE s[k]
    BY <1>3 DEF DuplicateSnapshots
  <2> HIDE DEF Covers
  <2> QED  BY <2>1, <2>2 DEF Snapshot, Counters
<1>6. ASSUME NEW j \in DOMAIN s, NEW k \in DOMAIN s, j <= k, Covers(j)
      PROVE  Covers(k)
  BY <1>2, <1>6
<1> HIDE DEF Covers
<1>7. ASSUME NEW j \in DOMAIN s, NEW k \in DOMAIN s, j <= k
      PROVE  t[j].counters.duplicatePkts <= t[k].counters.duplicatePkts
  <2>1. s[j].counters.duplicatePkts <= s[k].counters.duplicatePkts
    BY <1>7 DEF DuplicatesGrow
  <2>2. /\ s[j].counters.duplicatePkts \in Nat
        /\ s[k].counters.duplicatePkts \in Nat
    BY <1>5 DEF Counters
  <2> QED  BY <1>5, <1>6, <1>7, <2>1, <2>2
<1>8. ASSUME NEW k \in DOMAIN s
      PROVE  /\ t[k].counters.duplicatePkts <= g.curCounters.duplicatePkts
             /\ t[k].counters.droppablePkts <= g.curCounters.droppablePkts
  <2>1. /\ s[k].counters.duplicatePkts \in Nat
        /\ f.curCounters.duplicatePkts \in Nat
    BY <1>1, <1>5 DEF Counters
  <2>2. /\ s[k].counters.duplicatePkts <= f.curCounters.duplicatePkts
        /\ s[k].counters.droppablePkts <= f.curCounters.droppablePkts
    BY <1>8 DEF DuplicatesGrow
  <2> QED  BY <1>3, <1>5, <2>1, <2>2
<1> QED  BY <1>4, <1>7, <1>8 DEF DuplicatesGrow

\* However a packet is accounted for, the duplicates stay in order.
LEMMA AccountGrows ==
  ASSUME NEW f, FlowInv(f), DuplicatesGrow(f),
         NEW p \in DataPackets, NEW unique \in BOOLEAN
  PROVE  DuplicatesGrow(Account(f, p, unique))
<1> DEFINE g == Account(f, p, unique)
<1>1. FlowTypeOK(f) /\ FlowTypeOK(g)
  BY AccountKeepsInv DEF FlowInv
<1>2. CASE unique
  <2>1. g = AddPayload(f, p)
    BY <1>2 DEF Account
  <2>2. KeepsDuplicates(f, g)
    BY <1>1, <2>1
       DEF KeepsDuplicates, AddPayload, FlowTypeOK, NewFlow, Counters
  <2> QED  BY <1>1, <2>2, KeepsDuplicatesGrow
<1>3. CASE ~unique /\ AwaitsRetransmission(f, PacketId(p))
  <2>1. g = ObserveRetransmission(f, PacketId(p))
    BY <1>3 DEF Account
  <2>2. KeepsDuplicates(f, g)
    BY <1>1, <2>1, ObserveRetransmissionDuplicates
  <2> QED  BY <1>1, <2>2, KeepsDuplicatesGrow
<1>4. CASE ~unique /\ ~AwaitsRetransmission(f, PacketId(p))
  BY <1>1, <1>4, CountDuplicateGrows DEF Account
<1> QED  BY <1>2, <1>3, <1>4

-------------------------------------------------------------------------------
\* The last settled snapshot.

\* The valid snapshot is a copy of the last settled one as it is now, and is
\* empty as long as there is none.
ValidIsLast(f) ==
  LET settled == SettledSnapshots(f.counterSnapsList) IN
  f.validCounterSnap =
    IF settled = {} THEN NoTotals
                    ELSE Totals(f.counterSnapsList[Max(settled)])

\* The number of pending drops tells whether there are any, so the snapshots
\* that the code takes for settled are those whose drops are.
LEMMA SettledByDrops ==
  ASSUME NEW f, FlowInv(f)
  PROVE  SettledSnapshots(f.counterSnapsList)
           = {k \in DOMAIN f.counterSnapsList : Known(f, k) \cap Pending(f) = {}}
<1> DEFINE s == f.counterSnapsList
<1>1. s \in Seq(Snapshot) /\ Len(s) \in Nat /\ DOMAIN s = 1..Len(s)
  BY LenProperties DEF FlowInv, FlowTypeOK
<1>2. ASSUME NEW k \in DOMAIN s
      PROVE  s[k].counters.pendingDroppedPkts = 0
               <=> Known(f, k) \cap Pending(f) = {}
  <2>1. IsFiniteSet(Known(f, k) \cap Pending(f))
    <3>1. k \in 0..Len(s)
      BY <1>1
    <3> QED  BY <1>1, <3>1, DroppedUpToFinite, FS_Subset DEF Known
  <2>2. s[k].counters.pendingDroppedPkts
          = Cardinality(Known(f, k) \cap Pending(f))
    BY DEF FlowInv, SnapshotsDescribeDrops, Describes
  <2> QED  BY <2>1, <2>2, FS_EmptySet
<1> QED  BY <1>2 DEF SettledSnapshots

\* A snapshot that is settled stays so when drops settle.
LEMMA SettlingStaysSettled ==
  ASSUME NEW f, NEW g, NEW E, NEW R, FlowInv(f), FlowInv(g), Settled(f, g, E, R)
  PROVE  SettledSnapshots(f.counterSnapsList)
           \subseteq SettledSnapshots(g.counterSnapsList)
<1> DEFINE s == f.counterSnapsList
           t == g.counterSnapsList
<1>1. /\ Len(s) \in Nat /\ DOMAIN s = 1..Len(s)
      /\ DOMAIN t = 1..Len(t)
  BY LenProperties DEF FlowInv, FlowTypeOK
<1>2. DOMAIN t = DOMAIN s /\ \A k \in DOMAIN s : t[k].packetId = s[k].packetId
  BY <1>1 DEF Settled, SnapshotsSettled
<1>3. ASSUME NEW k \in DOMAIN s PROVE Known(g, k) = Known(f, k)
  BY <1>1, <1>2 DEF Known, DroppedUpTo
<1>4. Pending(g) \subseteq Pending(f)
  BY DEF Settled, MapsSettled
<1> QED  BY <1>2, <1>3, <1>4, SettledByDrops

\* Nothing that processPacket does before it looks for a valid snapshot alters
\* the one there is, or unsettles a snapshot.
Settles(f, g) ==
  /\ g.validCounterSnap = f.validCounterSnap
  /\ SettledSnapshots(f.counterSnapsList)
       \subseteq SettledSnapshots(g.counterSnapsList)

\* What settles no drop alters none of this.
LEMMA SameDropsSettles ==
  ASSUME NEW f, NEW g, FlowInv(f), FlowInv(g), SameDrops(f, g), KeepsBudget(f, g)
  PROVE  Settles(f, g)
<1>1. Settled(f, g, {}, {})
  BY SameDropsSettled DEF FlowInv
<1> QED  BY <1>1, SettlingStaysSettled DEF Settles, KeepsBudget

\* However a packet is accounted for, settled snapshots stay settled.
LEMMA AccountSettles ==
  ASSUME NEW f, FlowInv(f), NEW p \in DataPackets, NEW unique \in BOOLEAN
  PROVE  Settles(f, Account(f, p, unique))
<1> DEFINE g == Account(f, p, unique)
<1>1. FlowInv(g) /\ KeepsBudget(f, g)
  BY AccountKeepsInv, AccountKeepsBudget DEF FlowInv
<1>2. CASE unique
  BY <1>1, <1>2, AddPayloadKeepsInv, SameDropsSettles DEF Account
<1>3. CASE ~unique /\ AwaitsRetransmission(f, PacketId(p))
  <2>1. Settled(f, g, {}, {PacketId(p)})
    BY <1>3, ObserveRetransmissionKeepsInv DEF Account
  <2> QED  BY <1>1, <2>1, SettlingStaysSettled DEF Settles, KeepsBudget
<1>4. CASE ~unique /\ ~AwaitsRetransmission(f, PacketId(p))
  BY <1>1, <1>4, CountDuplicateKeepsInv, SameDropsSettles DEF Account
<1> QED  BY <1>2, <1>3, <1>4

\* pennyFlow::checkForNewValidSnapshot restores the copy; a flow in which no
\* snapshot has settled has none.
LEMMA CheckForNewValidSnapshotIsLast ==
  ASSUME NEW f, NEW g, FlowInv(f), FlowInv(g), ValidIsLast(f), Settles(f, g)
  PROVE  ValidIsLast(CheckForNewValidSnapshot(g))
<1> DEFINE h == CheckForNewValidSnapshot(g)
           settled == SettledSnapshots(g.counterSnapsList)
<1>1. DOMAIN g = DOMAIN NewFlow
  BY DEF FlowInv, FlowTypeOK
<1>2. CASE settled = {}
  <2>1. h = g
    BY <1>2 DEF CheckForNewValidSnapshot
  <2>2. SettledSnapshots(f.counterSnapsList) = {}
    BY <1>2 DEF Settles
  <2>3. g.validCounterSnap = NoTotals
    BY <2>2 DEF Settles, ValidIsLast
  <2> QED  BY <1>2, <2>1, <2>3 DEF ValidIsLast
<1>3. CASE settled # {}
  <2> DEFINE last == Totals(g.counterSnapsList[Max(settled)])
  <2>1. h = [g EXCEPT !.validCounterSnap = last]
    BY <1>3 DEF CheckForNewValidSnapshot
  <2> HIDE DEF last
  <2>2. h.validCounterSnap = last /\ h.counterSnapsList = g.counterSnapsList
    BY <1>1, <2>1 DEF NewFlow
  <2> QED  BY <1>3, <2>2 DEF ValidIsLast, last
<1> QED  BY <1>2, <1>3

-------------------------------------------------------------------------------
\* The calls.

SnapsInv(f) == DuplicatesGrow(f) /\ ValidIsLast(f)

\* pennyFlow::processPacket keeps both facts, for any packet.
LEMMA ProcessPacketSnaps ==
  ASSUME NEW f, FlowInv(f), SnapsInv(f), NEW p \in Packets
  PROVE  SnapsInv(ProcessPacket(f, p))
<1>1. CASE p.payloadSize = 0
  BY <1>1 DEF ProcessPacket
<1>2. CASE p.payloadSize # 0
  <2> DEFINE unique == IsPayloadUnique(f, p)
             a == ObserveSeq(f, p)
             b == CheckPacketDropTimeouts(a)
             c == Account(b, p, unique)
             d == CheckForNewValidSnapshot(c)
  <2>1. p \in DataPackets /\ unique \in BOOLEAN
    BY <1>2, FlowAssumption DEF DataPackets, IsPayloadUnique
  <2>2. FlowInv(a) /\ DuplicatesGrow(a) /\ Settles(f, a)
    <3>1. FlowInv(a) /\ SameDrops(f, a) /\ KeepsBudget(f, a)
      BY <2>1, ObserveSeqKeepsInv, ObserveSeqKeepsBudget DEF FlowInv
    <3>2. KeepsDuplicates(f, a)
      BY <2>1, ObserveSeqDuplicates DEF FlowInv
    <3> QED  BY <3>1, <3>2, SameDropsSettles, KeepsDuplicatesGrow
             DEF FlowInv, SnapsInv
  <2> HIDE DEF a
  <2>3. FlowInv(b) /\ DuplicatesGrow(b) /\ Settles(a, b)
    <3>1. /\ FlowInv(b)
          /\ Settled(a, b, ExpiredDrops(a), {})
          /\ KeepsBudget(a, b)
          /\ KeepsDuplicates(a, b)
      BY <2>2, CheckPacketDropTimeoutsKeepsInv,
         CheckPacketDropTimeoutsKeepsBudget, CheckPacketDropTimeoutsDuplicates
         DEF FlowInv
    <3>2. Settles(a, b)
      BY <2>2, <3>1, SettlingStaysSettled DEF Settles, KeepsBudget
    <3> QED  BY <2>2, <3>1, <3>2, KeepsDuplicatesGrow DEF FlowInv
  <2> HIDE DEF b, unique
  <2>4. FlowInv(c) /\ DuplicatesGrow(c) /\ Settles(b, c)
    BY <2>1, <2>3, AccountKeepsInv, AccountGrows, AccountSettles
  <2>5. Settles(f, c)
    BY <2>2, <2>3, <2>4 DEF Settles
  <2> HIDE DEF c
  <2>6. ValidIsLast(d)
    BY <2>4, <2>5, CheckForNewValidSnapshotIsLast DEF SnapsInv
  <2>7. DuplicatesGrow(d)
    <3>1. DOMAIN c = DOMAIN NewFlow
      BY <2>4 DEF FlowInv, FlowTypeOK
    <3>2. /\ d.curCounters = c.curCounters
          /\ d.counterSnapsList = c.counterSnapsList
      BY <3>1 DEF CheckForNewValidSnapshot, NewFlow
    <3> HIDE DEF d
    <3> QED  BY <2>4, <3>2 DEF DuplicatesGrow
  <2>8. ProcessPacket(f, p) = d
    BY <1>2 DEF ProcessPacket, a, b, c, unique
  <2> QED  BY <2>6, <2>7, <2>8 DEF SnapsInv
<1> QED  BY <1>1, <1>2

\* pennyFlow::dropPacket: the snapshot it appends has the counters of the flow,
\* which no earlier snapshot exceeds, and a drop pending.
LEMMA DropPacketSnaps ==
  ASSUME NEW f, FlowInv(f), SnapsInv(f), NEW p \in DataPackets
  PROVE  SnapsInv(DropPacket(f, p))
<1> DEFINE g == DropPacket(f, p)
           s == f.counterSnapsList
           t == g.counterSnapsList
           n == Len(s)
<1>1. /\ FlowTypeOK(f)
      /\ DOMAIN f = DOMAIN NewFlow
      /\ s \in Seq(Snapshot)
      /\ f.curCounters \in Counters
  BY DEF FlowInv, FlowTypeOK
<1>2. n \in Nat /\ DOMAIN s = 1..n
  BY <1>1, LenProperties
<1> DEFINE e == [highestSeq |-> f.highestSeq, packetId |-> PacketId(p),
                 counters |-> g.curCounters, lists |-> g.metaLists]
<1>3. /\ t = Append(s, e)
      /\ e.counters = g.curCounters
  BY <1>1 DEF DropPacket, NewFlow
<1>4. /\ g.validCounterSnap = f.validCounterSnap
      /\ g.curCounters.duplicatePkts = f.curCounters.duplicatePkts
      /\ g.curCounters.droppablePkts = f.curCounters.droppablePkts
      /\ g.curCounters.pendingDroppedPkts = f.curCounters.pendingDroppedPkts + 1
  BY <1>1 DEF DropPacket, NewFlow, Counters
<1> HIDE DEF e
<1>5. /\ DOMAIN t = 1..(n + 1)
      /\ \A k \in 1..n : t[k] = s[k]
      /\ t[n + 1] = e
  BY <1>1, <1>2, <1>3, AppendProperties
<1> HIDE DEF g
<1>6. f.curCounters.pendingDroppedPkts >= 0
  BY InvNoWrapAround DEF NoWrapAround
<1>7. DuplicatesGrow(g)
  <2>1. /\ f.curCounters.duplicatePkts \in Nat
        /\ f.curCounters.droppablePkts \in Nat
    BY <1>1 DEF Counters
  <2>2. \A k \in 1..n :
          /\ t[k].counters.duplicatePkts <= g.curCounters.duplicatePkts
          /\ t[k].counters.droppablePkts <= g.curCounters.droppablePkts
    BY <1>2, <1>4, <1>5 DEF SnapsInv, DuplicatesGrow
  <2>3. /\ t[n + 1].counters.duplicatePkts = g.curCounters.duplicatePkts
        /\ t[n + 1].counters.droppablePkts = g.curCounters.droppablePkts
    BY <1>3, <1>5
  <2>4. ASSUME NEW j \in 1..(n + 1), NEW k \in 1..(n + 1), j <= k
        PROVE  t[j].counters.duplicatePkts <= t[k].counters.duplicatePkts
    <3>1. CASE k = n + 1
      <4>1. j = n + 1 \/ j \in 1..n
        BY <1>2
      <4> QED  BY <1>4, <2>1, <2>2, <2>3, <3>1, <4>1
    <3>2. CASE k \in 1..n
      <4>1. j \in 1..n
        BY <1>2, <2>4, <3>2
      <4> QED  BY <1>2, <1>5, <2>4, <3>2, <4>1 DEF SnapsInv, DuplicatesGrow
    <3> QED  BY <1>2, <3>1, <3>2
  <2>5. ASSUME NEW k \in 1..(n + 1)
        PROVE  /\ t[k].counters.duplicatePkts <= g.curCounters.duplicatePkts
               /\ t[k].counters.droppablePkts <= g.curCounters.droppablePkts
    <3>1. k = n + 1 \/ k \in 1..n
      BY <1>2
    <3> QED  BY <1>4, <2>1, <2>2, <2>3, <3>1
  <2> QED  BY <1>5, <2>4, <2>5 DEF DuplicatesGrow
<1>8. ValidIsLast(g)
  <2> DEFINE settled == SettledSnapshots(s)
  <2>1. t[n + 1].counters.pendingDroppedPkts # 0
    <3>1. f.curCounters.pendingDroppedPkts \in Int
      BY <1>1 DEF Counters
    <3> QED  BY <1>3, <1>4, <1>5, <1>6, <3>1
  <2>2. SettledSnapshots(t) = settled
    BY <1>2, <1>5, <2>1 DEF SettledSnapshots
  <2>3. CASE settled = {}
    BY <1>4, <2>2, <2>3 DEF SnapsInv, ValidIsLast
  <2>4. CASE settled # {}
    <3>1. Max(settled) \in 1..n
      BY <1>2, <2>4, LastPosition DEF SettledSnapshots
    <3>2. t[Max(settled)] = s[Max(settled)]
      BY <1>5, <3>1
    <3> QED  BY <1>4, <2>2, <2>4, <3>2 DEF SnapsInv, ValidIsLast
  <2> QED  BY <2>3, <2>4
<1> QED  BY <1>7, <1>8 DEF SnapsInv, g

\* The clock has no part in them.
LEMMA AgeDropsSnaps ==
  ASSUME NEW f, FlowTypeOK(f), SnapsInv(f)
  PROVE  SnapsInv(AgeDrops(f))
<1>1. /\ AgeDrops(f).curCounters = f.curCounters
      /\ AgeDrops(f).counterSnapsList = f.counterSnapsList
      /\ AgeDrops(f).validCounterSnap = f.validCounterSnap
  BY DEF AgeDrops, FlowTypeOK, NewFlow
<1> QED  BY <1>1 DEF SnapsInv, DuplicatesGrow, ValidIsLast

-------------------------------------------------------------------------------
SInv == IInv /\ SnapsInv(flow)

\* A new flow has no snapshot, valid or not.
LEMMA InitSnaps == Init => SInv
<1> SUFFICES ASSUME Init PROVE SnapsInv(flow)
  BY InitInv DEF SInv
<1>1. /\ flow.counterSnapsList = <<>>
      /\ flow.validCounterSnap = NoTotals
  BY DEF Init, NewFlow
<1> QED  BY <1>1 DEF SnapsInv, DuplicatesGrow, ValidIsLast, SettledSnapshots

\* Each step of a flow keeps its snapshots in order.
LEMMA NextSnaps == SInv /\ [Next]_vars => SInv'
<1> SUFFICES ASSUME SInv, [Next]_vars PROVE SnapsInv(flow')
  BY NextInv DEF SInv
<1>1. ASSUME NEW p \in Packets, Forward(p) PROVE SnapsInv(flow')
  BY <1>1, ProcessPacketSnaps DEF Forward, SInv, IInv
<1>2. ASSUME NEW p \in Packets, Drop(p) PROVE SnapsInv(flow')
  <2>1. FlowInv(ProcessPacket(flow, p)) /\ SnapsInv(ProcessPacket(flow, p))
    BY ProcessPacketKeepsInv, ProcessPacketSnaps DEF SInv, IInv
  <2>2. p \in DataPackets
    BY <1>2 DEF Drop, IsDroppable, DataPackets
  <2>3. flow' = DropPacket(ProcessPacket(flow, p), p)
    BY <1>2 DEF Drop
  <2> QED  BY <2>1, <2>2, <2>3, DropPacketSnaps
<1>3. CASE Tick
  BY <1>3, AgeDropsSnaps DEF Tick, SInv, IInv, FlowInv
<1>4. CASE UNCHANGED vars
  BY <1>4 DEF vars, SInv
<1> QED  BY <1>1, <1>2, <1>3, <1>4 DEF Next

\* The snapshots are in order in every reachable state.
THEOREM SnapsInvariance == Spec => []SInv
  BY InitSnaps, NextSnaps, PTL DEF Spec

\* A later snapshot never looks cleaner than an earlier one, though the
\* highestSeq by which duplicates are given to snapshots can go down.
THEOREM DuplicatesInOrder == Spec => []DuplicatesGrowAlongSnapshots
<1>1. SInv => DuplicatesGrowAlongSnapshots
  BY DEF SInv, SnapsInv, DuplicatesGrow, DuplicatesGrowAlongSnapshots, Snaps
<1> QED  BY <1>1, SnapsInvariance, PTL

\* A verdict on a flow rests on the longest prefix of its drops that is settled,
\* and on what that snapshot counts now.
THEOREM VerdictUpToDate == Spec => []VerdictOnLongestSettledPrefix
<1>1. ASSUME SInv, EvaluateHypotheses(flow) # "NoDecision"
      PROVE  LET settled == {k \in DOMAIN Snaps :
                               Known(flow, k) \cap Pending(flow) = {}}
             IN  /\ settled # {}
                 /\ GetFlowState(flow) = Totals(Snaps[Max(settled)])
  <2> DEFINE settled == {k \in DOMAIN Snaps :
                           Known(flow, k) \cap Pending(flow) = {}}
  <2>1. settled = SettledSnapshots(flow.counterSnapsList)
    BY <1>1, SettledByDrops DEF SInv, IInv, Snaps
  <2> HIDE DEF settled
  <2>2. GetFlowState(flow) = flow.validCounterSnap
    BY <1>1, VerdictFromValidSnapshot DEF SInv, IInv
  <2>3. settled # {}
    <3>1. SUFFICES ASSUME settled = {} PROVE FALSE
      OBVIOUS
    <3>2. flow.validCounterSnap = NoTotals
      BY <1>1, <2>1, <3>1 DEF SInv, SnapsInv, ValidIsLast
    <3> QED  BY <1>1, <2>2, <3>2
             DEF EvaluateHypotheses, NoTotals, NoCounters
  <2>4. flow.validCounterSnap = Totals(Snaps[Max(settled)])
    BY <1>1, <2>1, <2>3 DEF SInv, SnapsInv, ValidIsLast, Snaps
  <2> QED  BY <2>2, <2>3, <2>4 DEF settled
<1>2. SInv => VerdictOnLongestSettledPrefix
  BY <1>1 DEF VerdictOnLongestSettledPrefix
<1> QED  BY <1>2, SnapsInvariance, PTL

-------------------------------------------------------------------------------
\* What a data packet p makes of flow f: its own drop, if there is one, is
\* settled afterwards, and if it has expired the packet is a duplicate.
PacketSettles(f, g, p) ==
  LET id == PacketId(p) IN
  /\ FlowInv(g)
  /\ DOMAIN g.droppedPktsDecision = DOMAIN f.droppedPktsDecision
  /\ Pending(g) \subseteq Pending(f) \ {id}
  /\ g.metaLists.expiredPcksList \subseteq f.metaLists.expiredPcksList \cup Pending(f)
  /\ g.pktsIntervalTree
       = IF IsPayloadUnique(f, p) THEN f.pktsIntervalTree \cup {Interval(p)}
                                  ELSE f.pktsIntervalTree
  /\ g.curCounters.duplicatePkts >= f.curCounters.duplicatePkts
  /\ id \in g.metaLists.expiredPcksList
       => g.curCounters.duplicatePkts = f.curCounters.duplicatePkts + 1

\* Only addPktToSeqIntervalTree adds to the interval tree.
LEMMA TreeOfOperations ==
  ASSUME NEW f, FlowTypeOK(f), NEW p \in DataPackets
  PROVE  /\ ObserveSeq(f, p).pktsIntervalTree = f.pktsIntervalTree
         /\ CheckPacketDropTimeouts(f).pktsIntervalTree = f.pktsIntervalTree
         /\ AddPayload(f, p).pktsIntervalTree
              = f.pktsIntervalTree \cup {Interval(p)}
         /\ \A id : ObserveRetransmission(f, id).pktsIntervalTree
                      = f.pktsIntervalTree
         /\ CountDuplicate(f, p).pktsIntervalTree = f.pktsIntervalTree
         /\ CheckForNewValidSnapshot(f).pktsIntervalTree = f.pktsIntervalTree
<1>1. DOMAIN f = DOMAIN NewFlow
  BY DEF FlowTypeOK
<1>2. ObserveSeq(f, p).pktsIntervalTree = f.pktsIntervalTree
  BY <1>1 DEF ObserveSeq, NewFlow
<1>3. CheckPacketDropTimeouts(f).pktsIntervalTree = f.pktsIntervalTree
  BY <1>1 DEF CheckPacketDropTimeouts, NewFlow
<1>4. AddPayload(f, p).pktsIntervalTree = f.pktsIntervalTree \cup {Interval(p)}
  BY <1>1 DEF AddPayload, NewFlow
<1>5. \A id : ObserveRetransmission(f, id).pktsIntervalTree = f.pktsIntervalTree
  BY <1>1 DEF ObserveRetransmission, NewFlow
<1>6. CountDuplicate(f, p).pktsIntervalTree = f.pktsIntervalTree
  BY <1>1 DEF CountDuplicate, NewFlow
<1>7. CheckForNewValidSnapshot(f).pktsIntervalTree = f.pktsIntervalTree
  BY <1>1 DEF CheckForNewValidSnapshot, NewFlow
<1> QED  BY <1>2, <1>3, <1>4, <1>5, <1>6, <1>7

\* However a packet is accounted for, its drop is settled and not left expired
\* unless the packet counts as a duplicate.
LEMMA AccountSettlesOwn ==
  ASSUME NEW f, FlowInv(f), NEW p \in DataPackets, NEW unique \in BOOLEAN,
         unique => PacketId(p) \notin DOMAIN f.droppedPktsDecision
  PROVE  LET g  == Account(f, p, unique)
             id == PacketId(p)
         IN
         /\ FlowInv(g)
         /\ DOMAIN g.droppedPktsDecision = DOMAIN f.droppedPktsDecision
         /\ Pending(g) \subseteq Pending(f) \ {id}
         /\ g.metaLists.expiredPcksList = f.metaLists.expiredPcksList
         /\ g.pktsIntervalTree
              = IF unique THEN f.pktsIntervalTree \cup {Interval(p)}
                          ELSE f.pktsIntervalTree
         /\ g.curCounters.duplicatePkts >= f.curCounters.duplicatePkts
         /\ id \in g.metaLists.expiredPcksList
              => g.curCounters.duplicatePkts = f.curCounters.duplicatePkts + 1
<1> DEFINE g  == Account(f, p, unique)
           id == PacketId(p)
<1>1. PICK R \in SUBSET {id} :
        /\ FlowInv(g)
        /\ unique => R = {}
        /\ R \subseteq Pending(f)
        /\ DropsSettled(f, g, {}, R)
  BY AccountKeepsInv
<1>2. /\ FlowTypeOK(f) /\ FlowTypeOK(g)
      /\ DOMAIN f = DOMAIN NewFlow
      /\ f.curCounters \in Counters /\ g.curCounters \in Counters
  BY <1>1 DEF FlowInv, FlowTypeOK
<1>3. /\ DOMAIN g.droppedPktsDecision = DOMAIN f.droppedPktsDecision
      /\ Pending(g) = Pending(f) \ R
      /\ g.metaLists.expiredPcksList = f.metaLists.expiredPcksList
  BY <1>1 DEF DropsSettled
<1>4. /\ f.curCounters.duplicatePkts \in Nat /\ g.curCounters.duplicatePkts \in Nat
  BY <1>2 DEF Counters
<1>5. /\ Pending(f) \subseteq DOMAIN f.droppedPktsDecision
      /\ f.metaLists.expiredPcksList \subseteq DOMAIN f.droppedPktsDecision
  BY DEF FlowInv, MapsOfFlowAgree
<1>6. CASE unique
  <2>1. g = AddPayload(f, p)
    BY <1>6 DEF Account
  <2>2. g.pktsIntervalTree = f.pktsIntervalTree \cup {Interval(p)}
    BY <1>2, <2>1, TreeOfOperations
  <2>3. g.curCounters.duplicatePkts = f.curCounters.duplicatePkts
    BY <1>2, <2>1 DEF AddPayload, NewFlow, Counters
  <2>4. id \notin Pending(f) /\ id \notin f.metaLists.expiredPcksList
    BY <1>5, <1>6
  <2> HIDE DEF g
  <2>5. PacketId(p) \notin g.metaLists.expiredPcksList
    BY <1>3, <2>4
  <2>6. Pending(g) \subseteq Pending(f) \ {id}
    BY <1>3, <2>4
  <2>7. g.curCounters.duplicatePkts >= f.curCounters.duplicatePkts
    BY <1>4, <2>3
  <2> HIDE DEF id
  <2> QED  BY <1>1, <1>3, <1>6, <2>2, <2>5, <2>6, <2>7 DEF g, id
<1>7. CASE ~unique /\ AwaitsRetransmission(f, id)
  <2>1. g = ObserveRetransmission(f, id)
    BY <1>7 DEF Account
  <2>2. g.pktsIntervalTree = f.pktsIntervalTree
    BY <1>2, <2>1, TreeOfOperations
  <2>3. g.curCounters.duplicatePkts = f.curCounters.duplicatePkts
    <3>1. g.curCounters = CountRetransmitted(f.curCounters)
      BY <1>2, <2>1 DEF ObserveRetransmission, NewFlow
    <3> QED  BY <1>2, <3>1 DEF CountRetransmitted, Counters
  <2>4. id \notin Pending(g)
    <3>1. g.pendingDrops = [i \in DOMAIN f.pendingDrops \ {id} |-> f.pendingDrops[i]]
      BY <1>2, <2>1 DEF ObserveRetransmission, NewFlow
    <3> QED  BY <3>1 DEF Pending
  <2>5. id \notin f.metaLists.expiredPcksList
    BY <1>7 DEF AwaitsRetransmission, FlowInv, MapsOfFlowAgree
  <2> HIDE DEF g
  <2> QED  BY <1>1, <1>3, <1>4, <1>7, <2>2, <2>3, <2>4, <2>5 DEF g
<1>8. CASE ~unique /\ ~AwaitsRetransmission(f, id)
  <2>1. g = CountDuplicate(f, p)
    BY <1>8 DEF Account
  <2>2. g.pktsIntervalTree = f.pktsIntervalTree
    BY <1>2, <2>1, TreeOfOperations
  <2>3. g.curCounters.duplicatePkts = f.curCounters.duplicatePkts + 1
    BY <1>2, <2>1 DEF CountDuplicate, NewFlow, Counters
  <2>4. id \notin Pending(f)
    BY <1>8 DEF AwaitsRetransmission, FlowInv, MapsOfFlowAgree
  <2> HIDE DEF g
  <2> QED  BY <1>1, <1>3, <1>4, <1>8, <2>2, <2>3, <2>4 DEF g
<1> QED  BY <1>6, <1>7, <1>8

\* pennyFlow::processPacket of a data packet.
LEMMA ProcessPacketSettlesOwn ==
  ASSUME NEW f, FlowInv(f), NEW p \in DataPackets
  PROVE  PacketSettles(f, ProcessPacket(f, p), p)
<1> DEFINE unique == IsPayloadUnique(f, p)
           id == PacketId(p)
           a == ObserveSeq(f, p)
           b == CheckPacketDropTimeouts(a)
           c == Account(b, p, unique)
           d == CheckForNewValidSnapshot(c)
           E == ExpiredDrops(a)
<1>1. p.payloadSize # 0 /\ p \in Packets
  BY FlowAssumption DEF DataPackets
<1>2. ProcessPacket(f, p) = d
  BY <1>1 DEF ProcessPacket
<1>3. unique \in BOOLEAN
  BY DEF IsPayloadUnique
<1>4. unique => id \notin DOMAIN f.droppedPktsDecision
  BY UniqueIsNotDropped
<1>5. FlowTypeOK(f)
  BY DEF FlowInv
<1>6. /\ FlowInv(a) /\ FlowTypeOK(a) /\ DropsSettled(f, a, {}, {})
      /\ a.pktsIntervalTree = f.pktsIntervalTree
      /\ a.curCounters.duplicatePkts = f.curCounters.duplicatePkts
  BY <1>5, ObserveSeqKeepsInv, ObserveSeqDuplicates, TreeOfOperations
     DEF SameDrops, SameDropCounts, SameDropsMade, DropsSettled, Pending,
         KeepsDuplicates, FlowInv
<1> HIDE DEF a
<1>7. /\ FlowInv(b) /\ FlowTypeOK(b)
      /\ E \subseteq Pending(a) /\ DropsSettled(a, b, E, {})
  <2>1. /\ FlowInv(b)
        /\ Settleable(a, E, {})
        /\ Settled(a, b, E, {})
    BY <1>6, CheckPacketDropTimeoutsKeepsInv
  <2> HIDE DEF b, E
  <2> QED  BY <2>1 DEF Settleable, Settled, MapsSettled, CountsSettled,
                       SnapshotsSettled, DropsSettled, SameDropsMade, FlowInv
<1>8. /\ b.pktsIntervalTree = a.pktsIntervalTree
      /\ b.curCounters.duplicatePkts = a.curCounters.duplicatePkts
  BY <1>6, CheckPacketDropTimeoutsDuplicates, TreeOfOperations DEF KeepsDuplicates
<1> HIDE DEF b, E
<1>9. unique => id \notin DOMAIN b.droppedPktsDecision
  BY <1>4, <1>6, <1>7 DEF DropsSettled
<1> HIDE DEF unique
<1>10. /\ FlowInv(c)
       /\ DOMAIN c.droppedPktsDecision = DOMAIN b.droppedPktsDecision
       /\ Pending(c) \subseteq Pending(b) \ {id}
       /\ c.metaLists.expiredPcksList = b.metaLists.expiredPcksList
       /\ c.pktsIntervalTree
            = IF unique THEN b.pktsIntervalTree \cup {Interval(p)}
                        ELSE b.pktsIntervalTree
       /\ c.curCounters.duplicatePkts >= b.curCounters.duplicatePkts
       /\ id \in c.metaLists.expiredPcksList
            => c.curCounters.duplicatePkts = b.curCounters.duplicatePkts + 1
  BY <1>3, <1>7, <1>9, AccountSettlesOwn
<1> HIDE DEF c
<1>11. FlowInv(d) /\ SameDrops(c, d) /\ d.pktsIntervalTree = c.pktsIntervalTree
  BY <1>10, CheckForNewValidSnapshotKeepsInv, TreeOfOperations DEF FlowInv
<1>12. d.curCounters = c.curCounters
  <2>1. DOMAIN c = DOMAIN NewFlow
    BY <1>10 DEF FlowInv, FlowTypeOK
  <2> QED  BY <2>1 DEF CheckForNewValidSnapshot, NewFlow
<1> HIDE DEF d, id
<1>13. /\ DOMAIN d.droppedPktsDecision = DOMAIN f.droppedPktsDecision
       /\ Pending(d) \subseteq Pending(f) \ {id}
       /\ d.metaLists.expiredPcksList
            \subseteq f.metaLists.expiredPcksList \cup Pending(f)
  BY <1>6, <1>7, <1>10, <1>11 DEF DropsSettled, SameDrops, Pending
<1>14. id \in d.metaLists.expiredPcksList
         => d.curCounters.duplicatePkts = f.curCounters.duplicatePkts + 1
  BY <1>6, <1>8, <1>10, <1>11, <1>12 DEF SameDrops
<1>15. /\ d.curCounters.duplicatePkts >= f.curCounters.duplicatePkts
       /\ d.pktsIntervalTree
            = IF unique THEN f.pktsIntervalTree \cup {Interval(p)}
                        ELSE f.pktsIntervalTree
  BY <1>6, <1>8, <1>10, <1>11, <1>12
<1> QED  BY <1>2, <1>11, <1>13, <1>14, <1>15 DEF PacketSettles, unique, id

\* A data packet that is let through.
LEMMA ForwardSettlesOwn ==
  ASSUME IInv, NEW p \in DataPackets, Forward(p)
  PROVE  PacketSettles(flow, flow', p)
  BY ProcessPacketSettlesOwn DEF IInv, Forward

\* A packet that is dropped is a new entry, and new data.
LEMMA DropEntersOwn ==
  ASSUME IInv, NEW p \in Packets, Drop(p)
  PROVE  LET id == PacketId(p) IN
         /\ IInv'
         /\ p \in DataPackets
         /\ IsPayloadUnique(flow, p)
         /\ id \notin DOMAIN flow.droppedPktsDecision
         /\ DOMAIN flow'.droppedPktsDecision
              = DOMAIN flow.droppedPktsDecision \cup {id}
         /\ Pending(flow') \subseteq Pending(flow) \cup {id}
         /\ flow'.metaLists.expiredPcksList
              \subseteq flow.metaLists.expiredPcksList \cup Pending(flow)
         /\ flow'.pktsIntervalTree = flow.pktsIntervalTree \cup {Interval(p)}
         /\ flow'.curCounters.duplicatePkts >= flow.curCounters.duplicatePkts
<1> DEFINE g == ProcessPacket(flow, p)
           id == PacketId(p)
<1>1. p \in DataPackets /\ IsPayloadUnique(flow, p)
  BY FlowAssumption DEF Drop, IsDroppable, DataPackets
<1>2. PacketSettles(flow, g, p) /\ FlowInv(flow)
  BY <1>1, ProcessPacketSettlesOwn DEF IInv
<1>3. DOMAIN g = DOMAIN NewFlow /\ g.metaLists \in MetaLists /\ g.curCounters \in Counters
  BY <1>2 DEF PacketSettles, FlowInv, FlowTypeOK
<1>4. flow' = DropPacket(g, p)
  BY DEF Drop
<1> HIDE DEF g
<1>5. /\ DOMAIN flow'.droppedPktsDecision = DOMAIN g.droppedPktsDecision \cup {id}
      /\ Pending(flow') = Pending(g) \cup {id}
      /\ flow'.pktsIntervalTree = g.pktsIntervalTree
  BY <1>3, <1>4 DEF DropPacket, Pending, NewFlow
<1>6. /\ flow'.metaLists.expiredPcksList = g.metaLists.expiredPcksList
      /\ flow'.curCounters.duplicatePkts = g.curCounters.duplicatePkts
  BY <1>3, <1>4 DEF DropPacket, NewFlow, MetaLists, Counters
<1>7. id \notin DOMAIN flow.droppedPktsDecision
  BY <1>1, <1>2, UniqueIsNotDropped
<1>8. IInv'
  BY DropInv
<1> QED  BY <1>1, <1>2, <1>5, <1>6, <1>7, <1>8 DEF PacketSettles

\* The clock only ages the drops.
LEMMA TickAges ==
  ASSUME IInv, Tick
  PROVE  /\ IInv'
         /\ DOMAIN flow'.droppedPktsDecision = DOMAIN flow.droppedPktsDecision
         /\ Pending(flow') = Pending(flow)
         /\ flow'.metaLists = flow.metaLists
         /\ flow'.pktsIntervalTree = flow.pktsIntervalTree
         /\ flow'.curCounters = flow.curCounters
<1>1. IInv'
  BY AgeDropsKeepsInv DEF Tick, IInv
<1>2. DOMAIN flow = DOMAIN NewFlow
  BY DEF IInv, FlowInv, FlowTypeOK
<1> QED  BY <1>1, <1>2 DEF Tick, AgeDrops, NewFlow, Pending

-------------------------------------------------------------------------------
(***************************************************************************)
(* A flow whose drops are young: none expires, and as long as none has,    *)
(* the flow is not found not to be closed-loop.                            *)
(***************************************************************************)
NothingExpired(f) ==
  /\ f.metaLists.expiredPcksList = {}
  /\ f.validCounterSnap.counters.notSeenDroppedPkts = 0

\* No drop has waited for longer than the time-out.
AllYoung(f) == \A id \in Pending(f) : f.pendingDrops[id] <= Timeout

\* What is still awaited has waited for as long as before.
KeepsTimes(f, g) ==
  /\ Pending(g) \subseteq Pending(f)
  /\ \A id \in Pending(g) : g.pendingDrops[id] = f.pendingDrops[id]

\* The operations of processPacket.
LEMMA TimesOfOperations ==
  ASSUME NEW f, FlowInv(f), NEW p \in DataPackets, NEW unique
  PROVE  /\ KeepsTimes(f, ObserveSeq(f, p))
         /\ ObserveSeq(f, p).validCounterSnap = f.validCounterSnap
         /\ KeepsTimes(f, Account(f, p, unique))
         /\ Account(f, p, unique).validCounterSnap = f.validCounterSnap
         /\ KeepsTimes(f, CheckPacketDropTimeouts(f))
         /\ CheckPacketDropTimeouts(f).validCounterSnap = f.validCounterSnap
         /\ KeepsTimes(f, CheckForNewValidSnapshot(f))
<1>1. DOMAIN f = DOMAIN NewFlow
  BY DEF FlowInv, FlowTypeOK
<1>2. /\ KeepsTimes(f, ObserveSeq(f, p))
      /\ ObserveSeq(f, p).validCounterSnap = f.validCounterSnap
  BY <1>1 DEF ObserveSeq, KeepsTimes, Pending, NewFlow
<1>3. /\ KeepsTimes(f, Account(f, p, unique))
      /\ Account(f, p, unique).validCounterSnap = f.validCounterSnap
  <2>1. /\ KeepsTimes(f, AddPayload(f, p))
        /\ AddPayload(f, p).validCounterSnap = f.validCounterSnap
    BY <1>1 DEF AddPayload, KeepsTimes, Pending, NewFlow
  <2>2. ASSUME NEW id
        PROVE  /\ KeepsTimes(f, ObserveRetransmission(f, id))
               /\ ObserveRetransmission(f, id).validCounterSnap = f.validCounterSnap
    BY <1>1 DEF ObserveRetransmission, KeepsTimes, Pending, NewFlow
  <2>3. /\ KeepsTimes(f, CountDuplicate(f, p))
        /\ CountDuplicate(f, p).validCounterSnap = f.validCounterSnap
    BY <1>1 DEF CountDuplicate, KeepsTimes, Pending, NewFlow
  <2>4. Account(f, p, unique) \in
          {AddPayload(f, p), ObserveRetransmission(f, PacketId(p)), CountDuplicate(f, p)}
    <3>1. CASE unique
      BY <3>1 DEF Account
    <3>2. CASE ~unique /\ AwaitsRetransmission(f, PacketId(p))
      BY <3>2 DEF Account
    <3>3. CASE ~unique /\ ~AwaitsRetransmission(f, PacketId(p))
      BY <3>3 DEF Account
    <3> QED  BY <3>1, <3>2, <3>3
  <2> QED  BY <2>1, <2>2, <2>3, <2>4, Zenon
<1>4. /\ KeepsTimes(f, CheckPacketDropTimeouts(f))
      /\ CheckPacketDropTimeouts(f).validCounterSnap = f.validCounterSnap
  <2> DEFINE E == ExpiredDrops(f)
  <2>1. CheckPacketDropTimeouts(f).pendingDrops
          = [id \in DOMAIN f.pendingDrops \ E |-> f.pendingDrops[id]]
    BY <1>1 DEF CheckPacketDropTimeouts, NewFlow
  <2>2. CheckPacketDropTimeouts(f).validCounterSnap = f.validCounterSnap
    BY <1>1 DEF CheckPacketDropTimeouts, NewFlow
  <2> HIDE DEF E
  <2> QED  BY <2>1, <2>2 DEF KeepsTimes, Pending
<1>5. KeepsTimes(f, CheckForNewValidSnapshot(f))
  BY <1>1 DEF CheckForNewValidSnapshot, KeepsTimes, Pending, NewFlow
<1> QED  BY <1>2, <1>3, <1>4, <1>5

\* The new valid snapshot is the old one or describes what is settled.
LEMMA NewSnapshotUnexpired ==
  ASSUME NEW f, FlowInv(f), NothingExpired(f)
  PROVE  NothingExpired(CheckForNewValidSnapshot(f))
<1> DEFINE g == CheckForNewValidSnapshot(f)
           s == f.counterSnapsList
           settled == SettledSnapshots(s)
<1>1. FlowTypeOK(f) /\ DOMAIN f = DOMAIN NewFlow /\ s \in Seq(Snapshot)
  BY DEF FlowInv, FlowTypeOK
<1>2. CASE settled = {}
  BY <1>2 DEF CheckForNewValidSnapshot
<1>3. CASE settled # {}
  <2> DEFINE k == Max(settled)
  <2>1. Len(s) \in Nat /\ DOMAIN s = 1..Len(s)
    BY <1>1, LenProperties
  <2>2. k \in DOMAIN s
    BY <1>3, <2>1, LastPosition DEF SettledSnapshots
  <2>3. g.validCounterSnap = Totals(s[k]) /\ g.metaLists = f.metaLists
    BY <1>1, <1>3 DEF CheckForNewValidSnapshot, NewFlow
  <2> HIDE DEF k, settled
  <2>4. /\ s[k].lists.expiredPcksList = Known(f, k) \cap f.metaLists.expiredPcksList
        /\ s[k].counters.notSeenDroppedPkts
             = Cardinality(s[k].lists.expiredPcksList)
    BY <2>2 DEF FlowInv, SnapshotsDescribeDrops, Describes
  <2>5. s[k].counters.notSeenDroppedPkts = 0
    BY <2>4, FS_EmptySet DEF NothingExpired
  <2> QED  BY <2>3, <2>5 DEF Totals, NothingExpired
<1> QED  BY <1>2, <1>3

\* pennyFlow::processPacket lets none of the young drops expire.
LEMMA ProcessPacketKeepsTimes ==
  ASSUME NEW f, FlowInv(f), NEW p \in DataPackets, AllYoung(f), NothingExpired(f)
  PROVE  /\ KeepsTimes(f, ProcessPacket(f, p))
         /\ NothingExpired(ProcessPacket(f, p))
<1> DEFINE unique == IsPayloadUnique(f, p)
           a == ObserveSeq(f, p)
           b == CheckPacketDropTimeouts(a)
           c == Account(b, p, unique)
           d == CheckForNewValidSnapshot(c)
           E == ExpiredDrops(a)
<1>1. p.payloadSize # 0
  BY FlowAssumption DEF DataPackets
<1>2. ProcessPacket(f, p) = d
  BY <1>1 DEF ProcessPacket
<1>3. unique \in BOOLEAN
  BY DEF IsPayloadUnique
<1>4. /\ FlowInv(a) /\ SameDrops(f, a) /\ KeepsTimes(f, a)
      /\ a.validCounterSnap = f.validCounterSnap
  BY ObserveSeqKeepsInv, TimesOfOperations
<1> HIDE DEF a
<1>5. E = {}
  <2> SUFFICES ASSUME NEW id \in E PROVE FALSE
    OBVIOUS
  <2>1. id \in Pending(a) /\ a.pendingDrops[id] - Grace(a, id) > Timeout
    BY DEF ExpiredDrops, Pending
  <2>2. /\ a.pendingDrops[id] = f.pendingDrops[id] /\ f.pendingDrops[id] <= Timeout
        /\ id \in Pending(f)
    BY <1>4, <2>1 DEF KeepsTimes, AllYoung
  <2>3. f.pendingDrops[id] \in Nat
    <3>1. AgeCap \in Nat /\ f.pendingDrops[id] \in 0..AgeCap
      BY <2>2, FlowAssumption DEF FlowInv, FlowTypeOK, AgeCap
    <3> QED  BY <3>1
  <2>4. Timeout \in Nat /\ Grace(a, id) \in Nat
    BY FlowAssumption DEF Grace
  <2> QED  BY <2>1, <2>2, <2>3, <2>4
<1>6. /\ FlowInv(b) /\ KeepsTimes(a, b)
      /\ b.validCounterSnap = a.validCounterSnap
      /\ b.metaLists.expiredPcksList = a.metaLists.expiredPcksList
  <2>1. /\ FlowInv(b) /\ Settled(a, b, E, {})
    BY <1>4, CheckPacketDropTimeoutsKeepsInv
  <2>2. KeepsTimes(a, b) /\ b.validCounterSnap = a.validCounterSnap
    BY <1>4, TimesOfOperations
  <2> HIDE DEF b, E
  <2> QED  BY <1>5, <2>1, <2>2 DEF Settled, CountsSettled
<1> HIDE DEF b, E, unique
<1>7. /\ FlowInv(c) /\ KeepsTimes(b, c)
      /\ c.validCounterSnap = b.validCounterSnap
      /\ c.metaLists.expiredPcksList = b.metaLists.expiredPcksList
  <2>1. /\ FlowInv(c)
        /\ \E R \in SUBSET {PacketId(p)} : DropsSettled(b, c, {}, R)
    BY <1>3, <1>6, AccountKeepsInv
  <2>2. KeepsTimes(b, c) /\ c.validCounterSnap = b.validCounterSnap
    BY <1>6, TimesOfOperations
  <2> HIDE DEF c
  <2> QED  BY <2>1, <2>2 DEF DropsSettled
<1>8. NothingExpired(c)
  BY <1>4, <1>6, <1>7 DEF NothingExpired, SameDrops
<1> HIDE DEF c
<1>9. NothingExpired(d) /\ KeepsTimes(c, d)
  BY <1>7, <1>8, NewSnapshotUnexpired, TimesOfOperations
<1> HIDE DEF d
<1>10. KeepsTimes(f, d)
  BY <1>4, <1>6, <1>7, <1>9 DEF KeepsTimes
<1> QED  BY <1>2, <1>9, <1>10

\* The calls, and the clock.
LEMMA ForwardKeepsTimes ==
  ASSUME IInv, NEW p \in DataPackets, Forward(p), AllYoung(flow), NothingExpired(flow)
  PROVE  KeepsTimes(flow, flow') /\ NothingExpired(flow')
<1>1. flow' = ProcessPacket(flow, p) /\ FlowInv(flow)
  BY DEF Forward, IInv
<1> QED  BY <1>1, ProcessPacketKeepsTimes

LEMMA DropKeepsTimes ==
  ASSUME IInv, NEW p \in DataPackets, Drop(p), AllYoung(flow), NothingExpired(flow)
  PROVE  /\ NothingExpired(flow')
         /\ \A id \in Pending(flow') :
              \/ id = PacketId(p) /\ flow'.pendingDrops[id] = 0
              \/ id \in Pending(flow) /\ flow'.pendingDrops[id] = flow.pendingDrops[id]
<1> DEFINE g == ProcessPacket(flow, p)
<1>1. flow' = DropPacket(g, p) /\ FlowInv(flow)
  BY DEF Drop, IInv
<1>2. KeepsTimes(flow, g) /\ NothingExpired(g)
  BY <1>1, ProcessPacketKeepsTimes
<1>3. DOMAIN g = DOMAIN NewFlow /\ g.metaLists \in MetaLists
  BY <1>1, ProcessPacketSettlesOwn DEF PacketSettles, FlowInv, FlowTypeOK
<1> HIDE DEF g
<1>4. /\ flow'.metaLists.expiredPcksList = g.metaLists.expiredPcksList
      /\ flow'.validCounterSnap = g.validCounterSnap
      /\ flow'.pendingDrops
           = [i \in DOMAIN g.pendingDrops \cup {PacketId(p)} |->
                IF i = PacketId(p) THEN 0 ELSE g.pendingDrops[i]]
  BY <1>1, <1>3 DEF DropPacket, NewFlow, MetaLists
<1>5. NothingExpired(flow')
  BY <1>2, <1>4 DEF NothingExpired
<1> QED  BY <1>2, <1>4, <1>5 DEF KeepsTimes, Pending

LEMMA TickKeepsTimes ==
  ASSUME IInv, Tick, NothingExpired(flow)
  PROVE  /\ NothingExpired(flow')
         /\ Pending(flow') = Pending(flow)
         /\ \A id \in Pending(flow') :
              flow'.pendingDrops[id] <= flow.pendingDrops[id] + 1
<1>1. DOMAIN flow = DOMAIN NewFlow /\ flow.pendingDrops \in [Pending(flow) -> 0..AgeCap]
  BY DEF IInv, FlowInv, FlowTypeOK
<1>2. /\ flow'.metaLists = flow.metaLists
      /\ flow'.validCounterSnap = flow.validCounterSnap
      /\ flow'.pendingDrops
           = [id \in Pending(flow) |->
                IF flow.pendingDrops[id] < AgeCap THEN flow.pendingDrops[id] + 1
                                                  ELSE flow.pendingDrops[id]]
  BY <1>1 DEF Tick, AgeDrops, NewFlow, Pending
<1>3. AgeCap \in Nat
  BY FlowAssumption DEF AgeCap
<1>4. \A id \in Pending(flow) : flow.pendingDrops[id] \in Int
  BY <1>1, <1>3
<1> QED  BY <1>2, <1>4 DEF NothingExpired, Pending

\* Without an expired drop there is no case against the flow, if the
\* duplicates that make it unusable are those that outnumber its packets at the latest.
LEMMA NoCaseAgainst ==
  ASSUME NEW f, FlowInv(f), NothingExpired(f), MaxDuplicates[1] <= MaxDuplicates[2]
  PROVE  EvaluateHypotheses(f) # "NotClosedLoop"
<1> SUFFICES ASSUME EvaluateHypotheses(f) = "NotClosedLoop" PROVE FALSE
  OBVIOUS
<1> DEFINE c == f.validCounterSnap.counters
           F == FDupDenominator(c)
           N == FDupNumerator(c)
           r == c.retransmittedDroppedPkts
           m1 == MaxDuplicates[1]
           m2 == MaxDuplicates[2]
           b1 == NotObserveRetransmission[1]
           b2 == NotObserveRetransmission[2]
<1>1. GetFlowState(f) = f.validCounterSnap
  BY VerdictFromValidSnapshot
<1>2. Verdict(c) = "NotClosedLoop"
  BY <1>1 DEF EvaluateHypotheses
<1>3. c \in Counters /\ c.notSeenDroppedPkts = 0
  BY DEF FlowInv, FlowTypeOK, FlowTotals, NothingExpired
<1>4. r \in Nat /\ N \in Nat \ {0} /\ F \in Int
  BY <1>3 DEF Counters, FDupNumerator, FDupDenominator
<1>5. m1 \in Nat /\ m2 \in Nat \ {0} /\ m1 <= m2 /\ DecisionOdds \in Nat \ {0}
  BY HypothesesAssumption DEF HypothesesAssumption, IsRatio
<1> HIDE DEF c
<1>6. F >= 1 /\ ~(N * m2 > m1 * F) /\ Weigh(c) = "NotClosedLoop"
  BY <1>2, <1>4 DEF Verdict, TooManyDuplicates
<1>7. DecisionOdds * H1(c) < H2(c)
  BY <1>6 DEF Weigh
<1> HIDE DEF F, N, r, m1, m2, b1, b2
<1>8. F \in Nat /\ N \in Nat /\ N <= F
  <2>1. m1 * F <= m2 * F
    BY <1>4, <1>5, <1>6, ProductGrows
  <2>2. N * m2 <= m2 * F /\ N * m2 \in Int /\ m2 * F \in Int
    BY <1>4, <1>5, <1>6, <2>1
  <2>3. ~(N > F)
    <3> SUFFICES ASSUME N >= F + 1 PROVE FALSE
      BY <1>4
    <3>1. (F + 1) * m2 <= N * m2
      BY <1>4, <1>5, <1>6, ProductGrows
    <3>2. (F + 1) * m2 = m2 * F + m2
      BY <1>4, <1>5
    <3> QED  BY <1>4, <1>5, <2>2, <3>1, <3>2
  <2> QED  BY <1>4, <1>6, <2>3
<1>9. H1(c) = Power(F, r) /\ H2(c) = Power(N, r)
  <2>1. Power(b1, 0) = 1 /\ Power(b2, 0) = 1
    BY PowerSteps
  <2>2. Power(F, r) \in Nat /\ Power(N, r) \in Nat
    BY <1>4, <1>8, PowerType
  <2>3. H1(c) = Power(b1, 0) * Power(F, r) /\ H2(c) = Power(b2, 0) * Power(N, r)
    BY <1>3 DEF H1, H2, F, N, r, b1, b2
  <2> QED  BY <2>1, <2>2, <2>3
<1>10. Power(N, r) <= Power(F, r) /\ Power(N, r) \in Nat /\ Power(F, r) \in Nat
  BY <1>4, <1>8, PowerGrows, PowerType
<1>11. Power(F, r) <= DecisionOdds * Power(F, r)
       /\ DecisionOdds * Power(F, r) \in Nat
  <2> DEFINE x == Power(F, r)
  <2> HIDE DEF x
  <2>1. x \in Nat
    BY <1>10 DEF x
  <2>2. x <= DecisionOdds * x /\ DecisionOdds * x \in Nat
    BY <1>5, <2>1
  <2> QED  BY <2>2 DEF x
<1> QED  BY <1>7, <1>9, <1>10, <1>11
===============================================================================
