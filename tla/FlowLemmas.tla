------------------------------ MODULE FlowLemmas ------------------------------
(***************************************************************************)
(* The operations of pennyFlow preserve the invariant of a flow.           *)
(***************************************************************************)
EXTENDS FlowInvariants, FiniteSetTheorems, SequenceTheorems,
        WellFoundedInduction, TLAPS

-------------------------------------------------------------------------------
\* Sets of drops.

\* The drops that the snapshots 1..k know of are finitely many packetIds.
LEMMA DroppedUpToFinite ==
  ASSUME NEW snaps \in Seq(Snapshot), NEW k \in 0..Len(snaps)
  PROVE  /\ IsFiniteSet(DroppedUpTo(snaps, k))
         /\ DroppedUpTo(snaps, k) \subseteq PacketIds
<1> DEFINE T == DroppedUpTo(snaps, k)
           id == [j \in 1..k |-> snaps[j].packetId]
<1>1. IsFiniteSet(1..k)
  BY FS_Interval, LenProperties
<1>2. id \in Surjection(1..k, T)
  BY DEF Surjection, DroppedUpTo
<1>3. IsFiniteSet(T)
  BY <1>1, <1>2, FS_Surjection
<1>4. \A j \in 1..k : snaps[j] \in Snapshot
  BY ElementOfSeq, LenProperties
<1>5. T \subseteq PacketIds
  BY <1>4 DEF DroppedUpTo, Snapshot
<1> QED  BY <1>3, <1>5

\* The union of disjoint finite sets, and what remains when one is removed.
LEMMA DisjointUnion ==
  ASSUME NEW S, NEW T, IsFiniteSet(S), IsFiniteSet(T), S \cap T = {}
  PROVE  /\ Cardinality(S \cup T) = Cardinality(S) + Cardinality(T)
         /\ Cardinality(S) \in Nat
         /\ Cardinality(T) \in Nat
<1>1. Cardinality(S \cup T)
        = Cardinality(S) + Cardinality(T) - Cardinality(S \cap T)
  BY FS_Union
<1>2. Cardinality(S) \in Nat /\ Cardinality(T) \in Nat
  BY FS_CardinalityType
<1>3. Cardinality(S \cap T) = 0
  BY FS_EmptySet, Zenon
<1> QED  BY <1>1, <1>2, <1>3

\* A set of positions that is not empty has a last one.
LEMMA LastPosition ==
  ASSUME NEW n \in Nat, NEW S \in SUBSET (1..n), S # {}
  PROVE  Max(S) \in S
<1> DEFINE R == {ss \in Nat \X Nat : ss[1] < ss[2]}
           T == {n - k : k \in S}
<1>1. T \subseteq Nat
  OBVIOUS
<1>2. T # {}
  <2>1. PICK k \in S : TRUE
    OBVIOUS
  <2>2. n - k \in T
    OBVIOUS
  <2> QED  BY <2>2
<1>3. IsWellFoundedOn(R, Nat)
  BY ONLY NatLessThanWellFounded, Zenon DEF OpToRel
<1>4. \E x \in T : \A y \in T : ~(<<y, x>> \in R)
  BY <1>1, <1>2, <1>3, WFMin
<1>5. PICK x \in T : \A y \in T : ~(y < x)
  BY <1>1, <1>4
<1>6. PICK m \in S : x = n - m
  OBVIOUS
<1>7. \A k \in S : m >= k
  BY <1>5, <1>6
<1> QED  BY <1>7 DEF Max

-------------------------------------------------------------------------------
\* Types.

\* A flow starts well-typed (pennyFlow::pennyFlow).
LEMMA NewFlowType == FlowTypeOK(NewFlow)
  BY DEF FlowTypeOK, NewFlow, Pending, NoTotals, NoCounters, NoLists,
         Counters, MetaLists, FlowTotals, Snapshot, AgeCap

\* The identifier of a data packet is one, and starts with its seq.
LEMMA PacketIdType ==
  ASSUME NEW p \in DataPackets
  PROVE  /\ p.seq \in Nat /\ p.ack \in Nat /\ p.payloadSize \in Nat \ {0}
         /\ PacketId(p) \in PacketIds
         /\ SeqOf(PacketId(p)) = p.seq
  BY FlowAssumption DEF DataPackets, PacketId, PacketIds, SeqOf

\* The interval of a data packet is one, and starts with its seq.
LEMMA IntervalType ==
  ASSUME NEW p \in DataPackets
  PROVE  /\ Interval(p) \in Nat \X Nat
         /\ Interval(p)[1] = p.seq
         /\ Interval(p)[2] = p.seq + p.payloadSize - 1
         /\ p.seq <= Interval(p)[2]
<1>1. p.seq \in Nat /\ p.payloadSize \in Nat /\ p.payloadSize > 0
  BY PacketIdType
<1>2. p.seq + p.payloadSize - 1 \in Nat
  BY <1>1
<1> QED  BY <1>1, <1>2 DEF Interval

\* Observing the sequence number of a packet keeps the flow well-typed.
LEMMA ObserveSeqType ==
  ASSUME NEW f, FlowTypeOK(f), NEW p \in DataPackets
  PROVE  FlowTypeOK(ObserveSeq(f, p))
  BY PacketIdType DEF FlowTypeOK, ObserveSeq, Pending, NewFlow

\* So does remembering its payload (pennyFlow::addPktToSeqIntervalTree).
LEMMA AddPayloadType ==
  ASSUME NEW f, FlowTypeOK(f), NEW p \in DataPackets
  PROVE  FlowTypeOK(AddPayload(f, p))
<1> DEFINE g == AddPayload(f, p)
<1>1. /\ DOMAIN g = DOMAIN f
      /\ g.pktsIntervalTree = f.pktsIntervalTree \cup {Interval(p)}
      /\ g.curCounters = [f.curCounters EXCEPT !.droppablePkts = @ + 1]
  BY DEF AddPayload, FlowTypeOK, NewFlow
<1>2. f.curCounters \in Counters
  BY DEF FlowTypeOK
<1>3. g.curCounters \in Counters
  BY <1>1, <1>2 DEF Counters
<1> QED
  BY IntervalType, <1>1, <1>3 DEF FlowTypeOK, AddPayload, Pending, NewFlow

-------------------------------------------------------------------------------
(***************************************************************************)
(* g is f after the drops of E expired and those of R were retransmitted:  *)
(* what every operation but a drop does, for some E and R.                 *)
(***************************************************************************)
CountsSettled(c, l, d, m, E, R) ==
  /\ m.droppedPcksList = l.droppedPcksList
  /\ m.expiredPcksList = l.expiredPcksList \cup E
  /\ m.retransmittedPktsList = l.retransmittedPktsList \cup R
  /\ d.droppedPkts = c.droppedPkts
  /\ d.notSeenDroppedPkts = c.notSeenDroppedPkts + Cardinality(E)
  /\ d.retransmittedDroppedPkts = c.retransmittedDroppedPkts + Cardinality(R)
  /\ d.pendingDroppedPkts
       = c.pendingDroppedPkts - Cardinality(E) - Cardinality(R)

SnapshotsSettled(s, t, E, R) ==
  /\ Len(t) = Len(s)
  /\ \A k \in 1..Len(s) :
       /\ t[k].packetId = s[k].packetId
       /\ CountsSettled(s[k].counters, s[k].lists, t[k].counters, t[k].lists,
                        DroppedUpTo(s, k) \cap E, DroppedUpTo(s, k) \cap R)

MapsSettled(f, g, E, R) ==
  /\ Pending(g) = Pending(f) \ (E \cup R)
  /\ DOMAIN g.droppedPktsDecision = DOMAIN f.droppedPktsDecision
  /\ \A id \in DOMAIN f.droppedPktsDecision :
       g.droppedPktsDecision[id]
         <=> (id \in E \cup R \/ f.droppedPktsDecision[id])

Settled(f, g, E, R) ==
  /\ CountsSettled(f.curCounters, f.metaLists, g.curCounters, g.metaLists, E, R)
  /\ SnapshotsSettled(f.counterSnapsList, g.counterSnapsList, E, R)
  /\ MapsSettled(f, g, E, R)
  /\ f.pktsIntervalTree \subseteq g.pktsIntervalTree

\* E and R are drops of f that can be settled, one way each.
Settleable(f, E, R) ==
  /\ E \subseteq Pending(f)
  /\ R \subseteq Pending(f)
  /\ E \cap R = {}

\* Counters that describe the drops of ids still do once they are settled.
LEMMA SettlingDescribes ==
  ASSUME NEW f, NEW g, NEW c, NEW l, NEW d, NEW m, NEW ids, IsFiniteSet(ids),
         NEW E, NEW R, Settleable(f, E, R),
         Pending(f) \cap f.metaLists.expiredPcksList = {},
         Pending(f) \cap f.metaLists.retransmittedPktsList = {},
         Describes(f, c, l, ids),
         CountsSettled(c, l, d, m, ids \cap E, ids \cap R),
         Pending(g) = Pending(f) \ (E \cup R),
         g.metaLists.expiredPcksList = f.metaLists.expiredPcksList \cup E,
         g.metaLists.retransmittedPktsList
           = f.metaLists.retransmittedPktsList \cup R
  PROVE  Describes(g, d, m, ids)
<1> DEFINE X == f.metaLists.expiredPcksList
           Y == f.metaLists.retransmittedPktsList
           P == Pending(f)
<1>1. /\ E \subseteq P /\ R \subseteq P /\ E \cap R = {}
      /\ X \cap P = {} /\ Y \cap P = {}
  BY DEF Settleable
<1>2. /\ Cardinality((ids \cap X) \cup (ids \cap E))
           = Cardinality(ids \cap X) + Cardinality(ids \cap E)
      /\ Cardinality((ids \cap Y) \cup (ids \cap R))
           = Cardinality(ids \cap Y) + Cardinality(ids \cap R)
      /\ Cardinality(ids \cap ((P \ E) \ R))
           = Cardinality(ids \cap P) - Cardinality(ids \cap E)
               - Cardinality(ids \cap R)
  <2> DEFINE iX == ids \cap X
             iY == ids \cap Y
             iE == ids \cap E
             iR == ids \cap R
             iN == ids \cap ((P \ E) \ R)
  <2>1. /\ IsFiniteSet(iX) /\ IsFiniteSet(iY) /\ IsFiniteSet(iE)
        /\ IsFiniteSet(iR) /\ IsFiniteSet(iN) /\ IsFiniteSet(iN \cup iR)
    BY FS_Subset
  <2>2. /\ iX \cap iE = {} /\ iY \cap iR = {}
        /\ iN \cap iR = {} /\ (iN \cup iR) \cap iE = {}
        /\ ids \cap P = (iN \cup iR) \cup iE
    BY <1>1
  <2> HIDE DEF iX, iY, iE, iR, iN
  <2>3. /\ Cardinality(iX \cup iE) = Cardinality(iX) + Cardinality(iE)
        /\ Cardinality(iY \cup iR) = Cardinality(iY) + Cardinality(iR)
    BY <2>1, <2>2, DisjointUnion
  <2>4. /\ Cardinality(iN \cup iR) = Cardinality(iN) + Cardinality(iR)
        /\ Cardinality((iN \cup iR) \cup iE)
             = Cardinality(iN \cup iR) + Cardinality(iE)
        /\ Cardinality(iN) \in Nat
        /\ Cardinality(iR) \in Nat
        /\ Cardinality(iE) \in Nat
    BY <2>1, <2>2, DisjointUnion
  <2>5. Cardinality(iN)
          = Cardinality(ids \cap P) - Cardinality(iE) - Cardinality(iR)
    <3>1. Cardinality(ids \cap P) = Cardinality((iN \cup iR) \cup iE)
      BY <2>2, Zenon
    <3> QED  BY <2>4, <3>1
  <2> QED  BY <2>3, <2>5 DEF iX, iY, iE, iR, iN
<1>3. Pending(g) = (P \ E) \ R
  OBVIOUS
<1>4. /\ m.expiredPcksList = (ids \cap X) \cup (ids \cap E)
      /\ m.retransmittedPktsList = (ids \cap Y) \cup (ids \cap R)
      /\ m.droppedPcksList = ids
      /\ d.droppedPkts = Cardinality(ids)
      /\ d.notSeenDroppedPkts = Cardinality(ids \cap X) + Cardinality(ids \cap E)
      /\ d.retransmittedDroppedPkts
           = Cardinality(ids \cap Y) + Cardinality(ids \cap R)
      /\ d.pendingDroppedPkts = Cardinality(ids \cap P)
           - Cardinality(ids \cap E) - Cardinality(ids \cap R)
  BY DEF Describes, CountsSettled
<1>5. /\ m.expiredPcksList = ids \cap g.metaLists.expiredPcksList
      /\ m.retransmittedPktsList = ids \cap g.metaLists.retransmittedPktsList
  BY <1>4
<1> QED  BY <1>2, <1>3, <1>4, <1>5 DEF Describes

\* Settling drops keeps the invariant of the flow.
LEMMA SettlingKeepsInv ==
  ASSUME NEW f, NEW g, NEW E, NEW R, FlowInv(f), FlowTypeOK(g),
         Settleable(f, E, R), Settled(f, g, E, R)
  PROVE  FlowInv(g)
<1> DEFINE s == f.counterSnapsList
           t == g.counterSnapsList
           n == Len(s)
<1>1. /\ s \in Seq(Snapshot) /\ t \in Seq(Snapshot)
      /\ n \in Nat /\ Len(t) = n
      /\ DOMAIN s = 1..n /\ DOMAIN t = 1..n
      /\ \A k \in 1..n : t[k].packetId = s[k].packetId
  <2>1. s \in Seq(Snapshot) /\ t \in Seq(Snapshot)
    BY DEF FlowInv, FlowTypeOK
  <2>2. Len(t) = n /\ \A k \in 1..n : t[k].packetId = s[k].packetId
    BY DEF Settled, SnapshotsSettled
  <2> QED  BY <2>1, <2>2, LenProperties
<1>2. \A k \in 0..n : Known(g, k) = Known(f, k)
  BY <1>1 DEF Known, DroppedUpTo
<1>3. \A k \in 0..n : IsFiniteSet(Known(f, k))
  BY <1>1, DroppedUpToFinite DEF Known
<1>4. /\ Pending(f) \cap f.metaLists.expiredPcksList = {}
      /\ Pending(f) \cap f.metaLists.retransmittedPktsList = {}
      /\ Pending(f) \subseteq Known(f, n)
  BY DEF FlowInv, MapsOfFlowAgree, DropsRecorded
<1>5. /\ Pending(g) = Pending(f) \ (E \cup R)
      /\ g.metaLists.expiredPcksList = f.metaLists.expiredPcksList \cup E
      /\ g.metaLists.retransmittedPktsList
           = f.metaLists.retransmittedPktsList \cup R
  BY DEF Settled, CountsSettled, MapsSettled
<1>6. Describes(g, g.curCounters, g.metaLists, Known(f, n))
  <2>1. Describes(f, f.curCounters, f.metaLists, Known(f, n))
    BY DEF FlowInv, SnapshotsDescribeDrops
  <2>2. Known(f, n) \cap E = E /\ Known(f, n) \cap R = R
    BY <1>4 DEF Settleable
  <2>3. CountsSettled(f.curCounters, f.metaLists, g.curCounters, g.metaLists,
                      Known(f, n) \cap E, Known(f, n) \cap R)
    BY <2>2, Zenon DEF Settled
  <2> QED  BY <1>1, <1>3, <1>4, <1>5, <2>1, <2>3, SettlingDescribes
<1>7. \A k \in 1..n : Describes(g, t[k].counters, t[k].lists, Known(f, k))
  <2> TAKE k \in 1..n
  <2>1. Describes(f, s[k].counters, s[k].lists, Known(f, k))
    BY <1>1 DEF FlowInv, SnapshotsDescribeDrops
  <2>2. CountsSettled(s[k].counters, s[k].lists, t[k].counters, t[k].lists,
                      Known(f, k) \cap E, Known(f, k) \cap R)
    BY DEF Settled, SnapshotsSettled, Known
  <2>3. k \in 0..n
    BY <1>1
  <2> QED  BY <1>3, <1>4, <1>5, <2>1, <2>2, <2>3, SettlingDescribes
<1>8. SnapshotsDescribeDrops(g)
  <2>1. Known(g, n) = Known(f, n) /\ \A k \in 1..n : Known(g, k) = Known(f, k)
    BY <1>1, <1>2
  <2> QED  BY <1>1, <1>6, <1>7, <2>1, Zenon DEF SnapshotsDescribeDrops
<1>9. MapsOfFlowAgree(g)
  BY DEF FlowInv, MapsOfFlowAgree, Settled, MapsSettled, CountsSettled,
         Settleable
<1>10. DropsOnce(g)
  BY <1>1 DEF FlowInv, DropsOnce
<1>11. DropsRecorded(g)
  <2>1. DOMAIN g.droppedPktsDecision = DOMAIN f.droppedPktsDecision
    BY DEF Settled, MapsSettled
  <2>2. Known(g, Len(t)) = Known(f, n)
    BY <1>1, <1>2
  <2>3. DOMAIN g.droppedPktsDecision = Known(g, Len(t))
    BY <2>1, <2>2 DEF FlowInv, DropsRecorded
  <2> QED  BY <2>1, <2>3 DEF FlowInv, DropsRecorded, Settled
<1> QED  BY <1>8, <1>9, <1>10, <1>11 DEF FlowInv

\* An operation that touches none of what describes the drops settles none.
SameDropCounts(c, d) ==
  /\ d.droppedPkts = c.droppedPkts
  /\ d.notSeenDroppedPkts = c.notSeenDroppedPkts
  /\ d.retransmittedDroppedPkts = c.retransmittedDroppedPkts
  /\ d.pendingDroppedPkts = c.pendingDroppedPkts

SameDrops(f, g) ==
  /\ SameDropCounts(f.curCounters, g.curCounters)
  /\ g.metaLists = f.metaLists
  /\ g.pendingDrops = f.pendingDrops
  /\ g.droppedPktsDecision = f.droppedPktsDecision
  /\ f.pktsIntervalTree \subseteq g.pktsIntervalTree
  /\ Len(g.counterSnapsList) = Len(f.counterSnapsList)
  /\ \A k \in 1..Len(f.counterSnapsList) :
       /\ g.counterSnapsList[k].packetId = f.counterSnapsList[k].packetId
       /\ g.counterSnapsList[k].lists = f.counterSnapsList[k].lists
       /\ SameDropCounts(f.counterSnapsList[k].counters,
                         g.counterSnapsList[k].counters)

\* Equal counts are those of a step that settles nothing.
LEMMA SameDropCountsSettled ==
  ASSUME NEW c \in Counters, NEW d, NEW l, SameDropCounts(c, d)
  PROVE  CountsSettled(c, l, d, l, {}, {})
<1>1. Cardinality({}) = 0
  BY FS_EmptySet
<1>2. /\ c.notSeenDroppedPkts \in Nat
      /\ c.retransmittedDroppedPkts \in Nat
      /\ c.pendingDroppedPkts \in Int
  BY DEF Counters
<1> QED  BY <1>1, <1>2 DEF CountsSettled, SameDropCounts

\* A step that leaves the drops alone settles nothing.
LEMMA SameDropsSettled ==
  ASSUME NEW f, NEW g, FlowTypeOK(f), SameDrops(f, g)
  PROVE  Settled(f, g, {}, {})
<1> DEFINE s == f.counterSnapsList
           t == g.counterSnapsList
<1>1. CountsSettled(f.curCounters, f.metaLists, g.curCounters, g.metaLists,
                    {}, {})
  BY SameDropCountsSettled DEF FlowTypeOK, SameDrops
<1>2. s \in Seq(Snapshot)
  BY DEF FlowTypeOK
<1>3. SnapshotsSettled(s, t, {}, {})
  <2>1. Len(t) = Len(s)
    BY DEF SameDrops
  <2>2. ASSUME NEW k \in 1..Len(s)
        PROVE  /\ t[k].packetId = s[k].packetId
               /\ CountsSettled(s[k].counters, s[k].lists,
                                t[k].counters, t[k].lists,
                                DroppedUpTo(s, k) \cap {},
                                DroppedUpTo(s, k) \cap {})
    <3>1. s[k].counters \in Counters
      <4>1. s[k] \in Snapshot
        BY <1>2, ElementOfSeq
      <4> QED  BY <4>1 DEF Snapshot
    <3>2. /\ t[k].packetId = s[k].packetId
          /\ t[k].lists = s[k].lists
          /\ SameDropCounts(s[k].counters, t[k].counters)
      BY DEF SameDrops
    <3>3. CountsSettled(s[k].counters, s[k].lists, t[k].counters, t[k].lists,
                        {}, {})
      BY <3>1, <3>2, SameDropCountsSettled
    <3>4. DroppedUpTo(s, k) \cap {} = {}
      OBVIOUS
    <3>5. CountsSettled(s[k].counters, s[k].lists, t[k].counters, t[k].lists,
                        DroppedUpTo(s, k) \cap {}, DroppedUpTo(s, k) \cap {})
      BY ONLY <3>3, <3>4, Zenon
    <3> QED  BY <3>2, <3>5
  <2> QED  BY <2>1, <2>2 DEF SnapshotsSettled
<1>4. MapsSettled(f, g, {}, {})
  BY DEF SameDrops, MapsSettled, Pending
<1> QED  BY <1>1, <1>3, <1>4 DEF Settled, SameDrops

\* A step that leaves the drops alone keeps the invariant of the flow.
LEMMA SameDropsKeepInv ==
  ASSUME NEW f, NEW g, FlowInv(f), FlowTypeOK(g), SameDrops(f, g)
  PROVE  FlowInv(g)
<1>1. Settled(f, g, {}, {})
  BY SameDropsSettled DEF FlowInv
<1>2. Settleable(f, {}, {})
  BY DEF Settleable
<1> QED  BY <1>1, <1>2, SettlingKeepsInv

-------------------------------------------------------------------------------
\* The operations that settle no drop.

\* The first test of pennyFlow::processPacket keeps the invariant.
LEMMA ObserveSeqKeepsInv ==
  ASSUME NEW f, FlowInv(f), NEW p \in DataPackets
  PROVE  /\ FlowInv(ObserveSeq(f, p))
         /\ SameDrops(f, ObserveSeq(f, p))
<1> DEFINE g == ObserveSeq(f, p)
<1>1. FlowTypeOK(f) /\ FlowTypeOK(g)
  BY ObserveSeqType DEF FlowInv
<1>2. SameDrops(f, g)
  BY <1>1 DEF SameDrops, SameDropCounts, ObserveSeq, FlowTypeOK, NewFlow
<1> QED  BY <1>1, <1>2, SameDropsKeepInv

\* pennyFlow::addPktToSeqIntervalTree keeps the invariant.
LEMMA AddPayloadKeepsInv ==
  ASSUME NEW f, FlowInv(f), NEW p \in DataPackets
  PROVE  /\ FlowInv(AddPayload(f, p))
         /\ SameDrops(f, AddPayload(f, p))
<1> DEFINE g == AddPayload(f, p)
<1>1. FlowTypeOK(f) /\ FlowTypeOK(g)
  BY AddPayloadType DEF FlowInv
<1>2. f.curCounters \in Counters
  BY <1>1 DEF FlowTypeOK
<1>3. SameDropCounts(f.curCounters, g.curCounters)
  BY <1>1, <1>2 DEF AddPayload, FlowTypeOK, NewFlow, Counters, SameDropCounts
<1>4. SameDrops(f, g)
  BY <1>1, <1>3 DEF SameDrops, SameDropCounts, AddPayload, FlowTypeOK, NewFlow
<1> QED  BY <1>1, <1>4, SameDropsKeepInv

\* A list of as many entries, each of them a snapshot, is a list of snapshots.
LEMMA SnapshotsPointwise ==
  ASSUME NEW s \in Seq(Snapshot), NEW t, DOMAIN t = DOMAIN s,
         t = [k \in DOMAIN s |-> t[k]],
         \A k \in DOMAIN s : t[k] \in Snapshot
  PROVE  /\ t \in Seq(Snapshot)
         /\ Len(t) = Len(s)
<1>1. Len(s) \in Nat /\ DOMAIN s = 1..Len(s)
  BY LenProperties
<1>2. t \in [1..Len(s) -> Snapshot]
  BY <1>1
<1>3. t \in Seq(Snapshot)
  BY <1>1, <1>2, SeqDef
<1>4. DOMAIN t = 1..Len(t) /\ Len(t) \in Nat
  BY <1>3, LenProperties
<1> QED  BY <1>1, <1>3, <1>4

\* pennyFlow::processPacket keeps the invariant when it counts a duplicate.
LEMMA CountDuplicateKeepsInv ==
  ASSUME NEW f, FlowInv(f), NEW p \in DataPackets
  PROVE  /\ FlowInv(CountDuplicate(f, p))
         /\ SameDrops(f, CountDuplicate(f, p))
<1> DEFINE g == CountDuplicate(f, p)
           s == f.counterSnapsList
           t == g.counterSnapsList
<1>1. /\ FlowTypeOK(f)
      /\ s \in Seq(Snapshot)
      /\ f.curCounters \in Counters
  BY DEF FlowInv, FlowTypeOK
<1>2. /\ DOMAIN g = DOMAIN f
      /\ t = DuplicateSnapshots(s, p.seq)
      /\ g.curCounters = [f.curCounters EXCEPT !.duplicatePkts = @ + 1]
  BY <1>1 DEF CountDuplicate, FlowTypeOK, NewFlow
<1>3. /\ g.curCounters \in Counters
      /\ SameDropCounts(f.curCounters, g.curCounters)
  BY <1>1, <1>2 DEF Counters, SameDropCounts
<1>4. /\ DOMAIN t = DOMAIN s
      /\ t = [k \in DOMAIN s |-> t[k]]
  BY <1>2 DEF DuplicateSnapshots
<1>5. ASSUME NEW k \in DOMAIN s
      PROVE  /\ t[k] \in Snapshot
             /\ t[k].packetId = s[k].packetId
             /\ t[k].lists = s[k].lists
             /\ SameDropCounts(s[k].counters, t[k].counters)
  <2>1. s[k] \in Snapshot
    BY <1>1, ElementOfSeq, LenProperties
  <2>2. s[k].counters \in Counters
    BY <2>1 DEF Snapshot
  <2>3. t[k] = s[k]
        \/ t[k] = [s[k] EXCEPT !.counters.duplicatePkts = @ + 1]
    BY <1>2 DEF DuplicateSnapshots
  <2>4. [s[k].counters EXCEPT !.duplicatePkts = @ + 1] \in Counters
    BY <2>2 DEF Counters
  <2>5. t[k] \in Snapshot
    BY <2>1, <2>3, <2>4 DEF Snapshot
  <2> QED  BY <2>1, <2>2, <2>3, <2>5 DEF Snapshot, Counters, SameDropCounts
<1>6. t \in Seq(Snapshot) /\ Len(t) = Len(s) /\ DOMAIN s = 1..Len(s)
  BY <1>1, <1>4, <1>5, SnapshotsPointwise, LenProperties
<1>7. FlowTypeOK(g)
  BY <1>1, <1>2, <1>3, <1>6 DEF FlowTypeOK, CountDuplicate, Pending, NewFlow
<1>8. SameDrops(f, g)
  BY <1>1, <1>3, <1>5, <1>6
     DEF SameDrops, CountDuplicate, FlowTypeOK, NewFlow
<1> QED  BY <1>7, <1>8, SameDropsKeepInv

\* pennyFlow::checkForNewValidSnapshot keeps the invariant.
LEMMA CheckForNewValidSnapshotKeepsInv ==
  ASSUME NEW f, FlowInv(f)
  PROVE  /\ FlowInv(CheckForNewValidSnapshot(f))
         /\ SameDrops(f, CheckForNewValidSnapshot(f))
<1> DEFINE g == CheckForNewValidSnapshot(f)
           s == f.counterSnapsList
           settled == SettledSnapshots(s)
<1>1. FlowTypeOK(f) /\ s \in Seq(Snapshot)
  BY DEF FlowInv, FlowTypeOK
<1>2. CASE settled = {}
  <2>1. g = f
    BY <1>2 DEF CheckForNewValidSnapshot
  <2>2. SameDrops(f, f)
    BY DEF SameDrops, SameDropCounts
  <2> QED  BY <2>1, <2>2
<1>3. CASE settled # {}
  <2>1. Len(s) \in Nat /\ DOMAIN s = 1..Len(s)
    BY <1>1, LenProperties
  <2>2. Max(settled) \in settled
    BY <1>3, <2>1, LastPosition DEF SettledSnapshots
  <2>3. Max(settled) \in 1..Len(s)
    BY <2>1, <2>2 DEF SettledSnapshots
  <2>4. s[Max(settled)] \in Snapshot
    BY <1>1, <2>3, ElementOfSeq
  <2>5. g = [f EXCEPT !.validCounterSnap = Totals(s[Max(settled)])]
    BY <1>3 DEF CheckForNewValidSnapshot
  <2>6. Totals(s[Max(settled)]) \in FlowTotals
    BY <2>4 DEF Totals, FlowTotals, Snapshot
  <2>7. FlowTypeOK(g)
    BY <1>1, <2>5, <2>6 DEF FlowTypeOK, Pending, NewFlow
  <2>8. SameDrops(f, g)
    BY <1>1, <2>5 DEF SameDrops, SameDropCounts, FlowTypeOK, NewFlow
  <2> QED  BY <2>7, <2>8, SameDropsKeepInv
<1> QED  BY <1>2, <1>3
-------------------------------------------------------------------------------
\* The operations that settle drops.

\* Counting n expired drops.
LEMMA CountExpiredType ==
  ASSUME NEW c \in Counters, NEW n \in Nat
  PROVE  /\ CountExpired(c, n) \in Counters
         /\ CountExpired(c, n).droppedPkts = c.droppedPkts
         /\ CountExpired(c, n).notSeenDroppedPkts = c.notSeenDroppedPkts + n
         /\ CountExpired(c, n).retransmittedDroppedPkts
              = c.retransmittedDroppedPkts
         /\ CountExpired(c, n).pendingDroppedPkts = c.pendingDroppedPkts - n
<1> DEFINE d == [c EXCEPT !.notSeenDroppedPkts = @ + n]
<1>1. d \in Counters
  BY DEF Counters
<1>2. /\ d.droppedPkts = c.droppedPkts
      /\ d.notSeenDroppedPkts = c.notSeenDroppedPkts + n
      /\ d.retransmittedDroppedPkts = c.retransmittedDroppedPkts
      /\ d.pendingDroppedPkts = c.pendingDroppedPkts
  BY DEF Counters
<1>3. CountExpired(c, n) = [d EXCEPT !.pendingDroppedPkts = @ - n]
  BY DEF CountExpired
<1> HIDE DEF d
<1>4. [d EXCEPT !.pendingDroppedPkts = @ - n] \in Counters
  BY <1>1 DEF Counters
<1> QED  BY <1>1, <1>2, <1>3, <1>4 DEF Counters

\* Counting a retransmitted drop.
LEMMA CountRetransmittedType ==
  ASSUME NEW c \in Counters
  PROVE  /\ CountRetransmitted(c) \in Counters
         /\ CountRetransmitted(c).droppedPkts = c.droppedPkts
         /\ CountRetransmitted(c).notSeenDroppedPkts = c.notSeenDroppedPkts
         /\ CountRetransmitted(c).retransmittedDroppedPkts
              = c.retransmittedDroppedPkts + 1
         /\ CountRetransmitted(c).pendingDroppedPkts
              = c.pendingDroppedPkts - 1
<1> DEFINE d == [c EXCEPT !.retransmittedDroppedPkts = @ + 1]
<1>1. d \in Counters
  BY DEF Counters
<1>2. /\ d.droppedPkts = c.droppedPkts
      /\ d.retransmittedDroppedPkts = c.retransmittedDroppedPkts + 1
      /\ d.notSeenDroppedPkts = c.notSeenDroppedPkts
      /\ d.pendingDroppedPkts = c.pendingDroppedPkts
  BY DEF Counters
<1>3. CountRetransmitted(c) = [d EXCEPT !.pendingDroppedPkts = @ - 1]
  BY DEF CountRetransmitted
<1> HIDE DEF d
<1>4. [d EXCEPT !.pendingDroppedPkts = @ - 1] \in Counters
  BY <1>1 DEF Counters
<1> QED  BY <1>1, <1>2, <1>3, <1>4 DEF Counters

\* pennyFlow::checkPacketDropTimeouts keeps the invariant: the drops it finds
\* expired are settled, in the flow and in each snapshot that knows of them.
LEMMA CheckPacketDropTimeoutsKeepsInv ==
  ASSUME NEW f, FlowInv(f)
  PROVE  /\ FlowInv(CheckPacketDropTimeouts(f))
         /\ Settleable(f, ExpiredDrops(f), {})
         /\ Settled(f, CheckPacketDropTimeouts(f), ExpiredDrops(f), {})
<1> DEFINE g == CheckPacketDropTimeouts(f)
           E == ExpiredDrops(f)
           s == f.counterSnapsList
           t == g.counterSnapsList
           here(k) == SettledUpTo(s, k, E)
<1>1. /\ FlowTypeOK(f)
      /\ s \in Seq(Snapshot)
      /\ f.curCounters \in Counters
      /\ f.metaLists \in MetaLists
  BY DEF FlowInv, FlowTypeOK
<1>2. Len(s) \in Nat /\ DOMAIN s = 1..Len(s)
  BY <1>1, LenProperties
<1>3. E \subseteq Pending(f) /\ Pending(f) \subseteq DroppedUpTo(s, Len(s))
  BY DEF ExpiredDrops, Pending, FlowInv, MapsOfFlowAgree, DropsRecorded, Known
<1>4. here(Len(s)) = E
  BY <1>3 DEF SettledUpTo
<1>5. \A k \in 0..Len(s) :
        /\ here(k) \subseteq PacketIds
        /\ Cardinality(here(k)) \in Nat
  <2> TAKE k \in 0..Len(s)
  <2>1. /\ IsFiniteSet(DroppedUpTo(s, k))
        /\ DroppedUpTo(s, k) \subseteq PacketIds
    BY <1>1, DroppedUpToFinite
  <2>2. here(k) \subseteq DroppedUpTo(s, k)
    BY DEF SettledUpTo
  <2> QED  BY <2>1, <2>2, FS_Subset, FS_CardinalityType
<1>6. Len(s) \in 0..Len(s)
  BY <1>2
<1>7. Cardinality(E) \in Nat /\ E \subseteq PacketIds
  <2>1. /\ Cardinality(here(Len(s))) \in Nat
        /\ here(Len(s)) \subseteq PacketIds
    BY <1>5, <1>6
  <2> QED  BY ONLY <1>4, <2>1, Zenon
<1>8. /\ DOMAIN g = DOMAIN f
      /\ g.highestSeq = f.highestSeq
      /\ g.validCounterSnap = f.validCounterSnap
      /\ g.seqOfLastDroppedPacket = f.seqOfLastDroppedPacket
      /\ g.pktsIntervalTree = f.pktsIntervalTree
      /\ t = ExpireSnapshots(s, E)
      /\ g.pendingDrops = [id \in Pending(f) \ E |-> f.pendingDrops[id]]
      /\ g.droppedPktsDecision
           = [id \in DOMAIN f.droppedPktsDecision |->
                id \in E \/ f.droppedPktsDecision[id]]
      /\ g.metaLists = [f.metaLists EXCEPT !.expiredPcksList = @ \cup E]
      /\ g.curCounters = CountExpired(f.curCounters, Cardinality(E))
  <2>1. /\ DOMAIN f = DOMAIN NewFlow
        /\ f.curCounters \in Counters
        /\ f.metaLists \in MetaLists
    BY <1>1 DEF FlowTypeOK
  <2> QED  BY <1>4, <2>1
           DEF CheckPacketDropTimeouts, NewFlow, MetaLists, Pending
<1>9. /\ g.curCounters \in Counters
      /\ g.curCounters.droppedPkts = f.curCounters.droppedPkts
      /\ g.curCounters.notSeenDroppedPkts
           = f.curCounters.notSeenDroppedPkts + Cardinality(E)
      /\ g.curCounters.retransmittedDroppedPkts
           = f.curCounters.retransmittedDroppedPkts
      /\ g.curCounters.pendingDroppedPkts
           = f.curCounters.pendingDroppedPkts - Cardinality(E)
  BY <1>1, <1>7, <1>8, CountExpiredType
<1>10. /\ g.metaLists \in MetaLists
       /\ g.metaLists.droppedPcksList = f.metaLists.droppedPcksList
       /\ g.metaLists.expiredPcksList = f.metaLists.expiredPcksList \cup E
       /\ g.metaLists.retransmittedPktsList
            = f.metaLists.retransmittedPktsList
  BY <1>1, <1>7, <1>8 DEF MetaLists
<1>11. ASSUME NEW k \in DOMAIN s
       PROVE  /\ t[k] \in Snapshot
              /\ t[k].packetId = s[k].packetId
              /\ CountsSettled(s[k].counters, s[k].lists,
                               t[k].counters, t[k].lists,
                               DroppedUpTo(s, k) \cap E,
                               DroppedUpTo(s, k) \cap {})
  <2>1. s[k] \in Snapshot
    BY <1>1, <1>2, ElementOfSeq
  <2>2. /\ s[k].counters \in Counters
        /\ s[k].lists \in MetaLists
        /\ DOMAIN s[k] = {"highestSeq", "packetId", "counters", "lists"}
    BY <2>1 DEF Snapshot
  <2>3. t[k] = [s[k] EXCEPT
                  !.counters              = CountExpired(@, Cardinality(here(k))),
                  !.lists.expiredPcksList = @ \cup here(k)]
    BY <1>8 DEF ExpireSnapshots
  <2>4. Cardinality(here(k)) \in Nat /\ here(k) \subseteq PacketIds
    BY <1>2, <1>5
  <2> HIDE DEF here
  <2>5. /\ t[k].counters = CountExpired(s[k].counters, Cardinality(here(k)))
        /\ t[k].lists = [s[k].lists EXCEPT !.expiredPcksList = @ \cup here(k)]
        /\ t[k].packetId = s[k].packetId
        /\ t[k].highestSeq = s[k].highestSeq
        /\ DOMAIN t[k] = DOMAIN s[k]
    BY <2>2, <2>3
  <2>6. t[k].counters \in Counters
    BY <2>2, <2>4, <2>5, CountExpiredType
  <2>7. t[k].lists \in MetaLists
    BY <2>2, <2>4, <2>5 DEF MetaLists
  <2>8. t[k] \in Snapshot
    <3>1. t[k] = [s[k] EXCEPT !.counters = t[k].counters, !.lists = t[k].lists]
      BY <2>2, <2>3, <2>5
    <3> QED  BY <2>1, <2>6, <2>7, <3>1 DEF Snapshot
  <2>9. CountsSettled(s[k].counters, s[k].lists, t[k].counters, t[k].lists,
                      here(k), {})
    <3>1. Cardinality({}) = 0
      BY FS_EmptySet
    <3>2. /\ s[k].counters.pendingDroppedPkts \in Int
          /\ s[k].counters.retransmittedDroppedPkts \in Nat
      BY <2>2 DEF Counters
    <3> QED  BY <2>2, <2>4, <2>5, <3>1, <3>2, CountExpiredType
             DEF CountsSettled, MetaLists
  <2>10. here(k) = DroppedUpTo(s, k) \cap E /\ {} = DroppedUpTo(s, k) \cap {}
    BY DEF here, SettledUpTo
  <2>11. CountsSettled(s[k].counters, s[k].lists, t[k].counters, t[k].lists,
                       DroppedUpTo(s, k) \cap E, DroppedUpTo(s, k) \cap {})
    BY ONLY <2>9, <2>10, Zenon
  <2> QED  BY <2>5, <2>8, <2>11
<1>12. t \in Seq(Snapshot) /\ Len(t) = Len(s)
  <2>1. DOMAIN t = DOMAIN s /\ t = [k \in DOMAIN s |-> t[k]]
    BY <1>8 DEF ExpireSnapshots
  <2> QED  BY <1>1, <1>11, <2>1, SnapshotsPointwise
<1>13. FlowTypeOK(g)
  <2>1. /\ Pending(g) = Pending(f) \ E
        /\ g.pendingDrops \in [Pending(g) -> 0..AgeCap]
        /\ Pending(g) \subseteq PacketIds
    BY <1>1, <1>8 DEF FlowTypeOK, Pending
  <2>2. /\ DOMAIN g.droppedPktsDecision \subseteq PacketIds
        /\ g.droppedPktsDecision
              \in [DOMAIN g.droppedPktsDecision -> BOOLEAN]
    BY <1>1, <1>8 DEF FlowTypeOK
  <2> QED  BY <1>1, <1>8, <1>9, <1>10, <1>12, <2>1, <2>2 DEF FlowTypeOK
<1>14. Settled(f, g, E, {})
  <2>1. Cardinality({}) = 0
    BY FS_EmptySet
  <2>2. CountsSettled(f.curCounters, f.metaLists, g.curCounters, g.metaLists,
                      E, {})
    BY <1>1, <1>7, <1>9, <1>10, <2>1 DEF CountsSettled, Counters
  <2>3. SnapshotsSettled(s, t, E, {})
    BY <1>2, <1>11, <1>12 DEF SnapshotsSettled
  <2>4. MapsSettled(f, g, E, {})
    BY <1>8 DEF MapsSettled, Pending
  <2> QED  BY <1>8, <2>2, <2>3, <2>4 DEF Settled
<1>15. Settleable(f, E, {})
  BY <1>3 DEF Settleable
<1> QED  BY <1>13, <1>14, <1>15, SettlingKeepsInv

\* pennyFlow::processPacket keeps the invariant when it sees a dropped packet
\* again: the drop is settled in the flow and in each snapshot that knows it.
LEMMA ObserveRetransmissionKeepsInv ==
  ASSUME NEW f, FlowInv(f), NEW id, AwaitsRetransmission(f, id)
  PROVE  /\ FlowInv(ObserveRetransmission(f, id))
         /\ Settleable(f, {}, {id})
         /\ Settled(f, ObserveRetransmission(f, id), {}, {id})
<1> DEFINE g == ObserveRetransmission(f, id)
           R == {id}
           s == f.counterSnapsList
           t == g.counterSnapsList
<1>1. /\ FlowTypeOK(f)
      /\ s \in Seq(Snapshot)
      /\ f.curCounters \in Counters
      /\ f.metaLists \in MetaLists
  BY DEF FlowInv, FlowTypeOK
<1>2. Len(s) \in Nat /\ DOMAIN s = 1..Len(s)
  BY <1>1, LenProperties
<1>3. R \subseteq Pending(f) /\ Pending(f) \subseteq DroppedUpTo(s, Len(s))
  BY DEF AwaitsRetransmission, FlowInv, MapsOfFlowAgree, DropsRecorded, Known
<1>4. SettledUpTo(s, Len(s), R) = R
  BY <1>3 DEF SettledUpTo
<1>5. /\ Cardinality(R) = 1 /\ Cardinality({}) = 0
      /\ R \subseteq PacketIds
  BY <1>1, <1>3, FS_Singleton, FS_EmptySet DEF FlowTypeOK
<1>6. /\ DOMAIN g = DOMAIN f
      /\ g.highestSeq = f.highestSeq
      /\ g.validCounterSnap = f.validCounterSnap
      /\ g.seqOfLastDroppedPacket = f.seqOfLastDroppedPacket
      /\ g.pktsIntervalTree = f.pktsIntervalTree
      /\ t = RetransmitSnapshots(s, id)
      /\ g.pendingDrops = [i \in Pending(f) \ R |-> f.pendingDrops[i]]
      /\ g.droppedPktsDecision = [f.droppedPktsDecision EXCEPT ![id] = TRUE]
      /\ g.metaLists = [f.metaLists EXCEPT !.retransmittedPktsList = @ \cup R]
      /\ g.curCounters = CountRetransmitted(f.curCounters)
  <2>1. /\ DOMAIN f = DOMAIN NewFlow
        /\ f.metaLists \in MetaLists
    BY <1>1 DEF FlowTypeOK
  <2> QED  BY <1>4, <2>1
           DEF ObserveRetransmission, NewFlow, MetaLists, Pending
<1>7. /\ g.metaLists \in MetaLists
      /\ g.metaLists.droppedPcksList = f.metaLists.droppedPcksList
      /\ g.metaLists.expiredPcksList = f.metaLists.expiredPcksList
      /\ g.metaLists.retransmittedPktsList
           = f.metaLists.retransmittedPktsList \cup R
  BY <1>1, <1>5, <1>6 DEF MetaLists
<1>8. ASSUME NEW k \in DOMAIN s
      PROVE  /\ t[k] \in Snapshot
             /\ t[k].packetId = s[k].packetId
             /\ CountsSettled(s[k].counters, s[k].lists,
                              t[k].counters, t[k].lists,
                              DroppedUpTo(s, k) \cap {},
                              DroppedUpTo(s, k) \cap R)
  <2>1. s[k] \in Snapshot
    BY <1>1, <1>2, ElementOfSeq
  <2>2. /\ s[k].counters \in Counters
        /\ s[k].lists \in MetaLists
        /\ DOMAIN s[k] = {"highestSeq", "packetId", "counters", "lists"}
    BY <2>1 DEF Snapshot
  <2>3. /\ s[k].counters.pendingDroppedPkts \in Int
        /\ s[k].counters.notSeenDroppedPkts \in Nat
        /\ s[k].counters.retransmittedDroppedPkts \in Nat
    BY <2>2 DEF Counters
  <2>4. CASE id \in DroppedUpTo(s, k)
    <3>1. t[k] = [s[k] EXCEPT
                    !.counters                    = CountRetransmitted(@),
                    !.lists.retransmittedPktsList = @ \cup R]
      BY <1>6, <2>4 DEF RetransmitSnapshots
    <3>2. /\ t[k].counters = CountRetransmitted(s[k].counters)
          /\ t[k].lists = [s[k].lists EXCEPT
                             !.retransmittedPktsList = @ \cup R]
          /\ t[k].packetId = s[k].packetId
          /\ t[k].highestSeq = s[k].highestSeq
          /\ DOMAIN t[k] = DOMAIN s[k]
      BY <2>2, <3>1
    <3>3. t[k].counters \in Counters
      BY <2>2, <3>2, CountRetransmittedType
    <3>4. t[k].lists \in MetaLists
      BY <1>5, <2>2, <3>2 DEF MetaLists
    <3>5. t[k] \in Snapshot
      <4>1. t[k] = [s[k] EXCEPT !.counters = t[k].counters,
                                !.lists = t[k].lists]
        BY <2>2, <3>1, <3>2
      <4> QED  BY <2>1, <3>3, <3>4, <4>1 DEF Snapshot
    <3>6. CountsSettled(s[k].counters, s[k].lists, t[k].counters, t[k].lists,
                        {}, R)
      BY <1>5, <2>2, <2>3, <3>2, CountRetransmittedType
         DEF CountsSettled, MetaLists
    <3>7. {} = DroppedUpTo(s, k) \cap {} /\ R = DroppedUpTo(s, k) \cap R
      BY <2>4
    <3>8. CountsSettled(s[k].counters, s[k].lists, t[k].counters, t[k].lists,
                        DroppedUpTo(s, k) \cap {}, DroppedUpTo(s, k) \cap R)
      BY ONLY <3>6, <3>7, Zenon
    <3> QED  BY <3>2, <3>5, <3>8
  <2>5. CASE id \notin DroppedUpTo(s, k)
    <3>1. t[k] = s[k]
      BY <1>6, <2>5 DEF RetransmitSnapshots
    <3>2. CountsSettled(s[k].counters, s[k].lists, t[k].counters, t[k].lists,
                        {}, {})
      BY <1>5, <2>3, <3>1 DEF CountsSettled
    <3>3. {} = DroppedUpTo(s, k) \cap {} /\ {} = DroppedUpTo(s, k) \cap R
      BY <2>5
    <3>4. CountsSettled(s[k].counters, s[k].lists, t[k].counters, t[k].lists,
                        DroppedUpTo(s, k) \cap {}, DroppedUpTo(s, k) \cap R)
      BY ONLY <3>2, <3>3, Zenon
    <3> QED  BY <2>1, <3>1, <3>4
  <2> QED  BY <2>4, <2>5
<1>9. t \in Seq(Snapshot) /\ Len(t) = Len(s)
  <2>1. DOMAIN t = DOMAIN s /\ t = [k \in DOMAIN s |-> t[k]]
    BY <1>6 DEF RetransmitSnapshots
  <2> QED  BY <1>1, <1>8, <2>1, SnapshotsPointwise
<1>10. FlowTypeOK(g)
  <2>1. /\ Pending(g) = Pending(f) \ R
        /\ g.pendingDrops \in [Pending(g) -> 0..AgeCap]
        /\ Pending(g) \subseteq PacketIds
    BY <1>1, <1>6 DEF FlowTypeOK, Pending
  <2>2. /\ DOMAIN g.droppedPktsDecision \subseteq PacketIds
        /\ g.droppedPktsDecision
              \in [DOMAIN g.droppedPktsDecision -> BOOLEAN]
    BY <1>1, <1>6 DEF FlowTypeOK
  <2>3. g.curCounters \in Counters
    BY <1>1, <1>6, CountRetransmittedType
  <2> QED  BY <1>1, <1>6, <1>7, <1>9, <2>1, <2>2, <2>3 DEF FlowTypeOK
<1>11. Settled(f, g, {}, R)
  <2>1. CountsSettled(f.curCounters, f.metaLists, g.curCounters, g.metaLists,
                      {}, R)
    <3>1. /\ f.curCounters.pendingDroppedPkts \in Int
          /\ f.curCounters.notSeenDroppedPkts \in Nat
      BY <1>1 DEF Counters
    <3> QED  BY <1>1, <1>5, <1>6, <1>7, <3>1, CountRetransmittedType
             DEF CountsSettled
  <2>2. SnapshotsSettled(s, t, {}, R)
    BY <1>2, <1>8, <1>9 DEF SnapshotsSettled
  <2>3. MapsSettled(f, g, {}, R)
    BY <1>1, <1>6 DEF MapsSettled, Pending, AwaitsRetransmission, FlowTypeOK
  <2> QED  BY <1>6, <2>1, <2>2, <2>3 DEF Settled
<1>12. Settleable(f, {}, R)
  BY <1>3 DEF Settleable
<1> QED  BY <1>10, <1>11, <1>12, SettlingKeepsInv

-------------------------------------------------------------------------------
\* The calls.

\* The drops made are the same, in the same order.
SameDropsMade(f, g) ==
  /\ g.metaLists.droppedPcksList = f.metaLists.droppedPcksList
  /\ g.curCounters.droppedPkts = f.curCounters.droppedPkts
  /\ Len(g.counterSnapsList) = Len(f.counterSnapsList)
  /\ \A k \in 1..Len(f.counterSnapsList) :
       g.counterSnapsList[k].packetId = f.counterSnapsList[k].packetId

\* What a call does to the drops: those of E expire, those of R are observed.
DropsSettled(f, g, E, R) ==
  /\ SameDropsMade(f, g)
  /\ DOMAIN g.droppedPktsDecision = DOMAIN f.droppedPktsDecision
  /\ Pending(g) = Pending(f) \ (E \cup R)
  /\ g.metaLists.expiredPcksList = f.metaLists.expiredPcksList \cup E
  /\ g.metaLists.retransmittedPktsList
       = f.metaLists.retransmittedPktsList \cup R

\* The three ways to account for a packet keep the invariant, and settle at
\* most the drop of the packet itself, which was not unique then.
LEMMA AccountKeepsInv ==
  ASSUME NEW f, FlowInv(f), NEW p \in DataPackets, NEW unique \in BOOLEAN
  PROVE  /\ FlowInv(Account(f, p, unique))
         /\ unique => Interval(p) \in Account(f, p, unique).pktsIntervalTree
         /\ \E R \in SUBSET {PacketId(p)} :
              /\ unique => R = {}
              /\ R \subseteq Pending(f)
              /\ DropsSettled(f, Account(f, p, unique), {}, R)
<1> DEFINE g == Account(f, p, unique)
<1>1. DOMAIN f = DOMAIN NewFlow
  BY DEF FlowInv, FlowTypeOK
<1>2. CASE unique
  <2>1. g = AddPayload(f, p)
    BY <1>2 DEF Account
  <2>2. FlowInv(g) /\ SameDrops(f, g)
    BY <2>1, AddPayloadKeepsInv
  <2>3. Interval(p) \in g.pktsIntervalTree
    BY <1>1, <2>1 DEF AddPayload, NewFlow
  <2>4. DropsSettled(f, g, {}, {})
    BY <2>2 DEF SameDrops, SameDropCounts, SameDropsMade, DropsSettled, Pending
  <2> QED  BY <2>2, <2>3, <2>4
<1>3. CASE ~unique /\ AwaitsRetransmission(f, PacketId(p))
  <2> DEFINE R == {PacketId(p)}
  <2>1. g = ObserveRetransmission(f, PacketId(p))
    BY <1>3 DEF Account
  <2>2. FlowInv(g) /\ Settleable(f, {}, R) /\ Settled(f, g, {}, R)
    BY <1>3, <2>1, ObserveRetransmissionKeepsInv
  <2>3. DropsSettled(f, g, {}, R)
    BY <2>2 DEF Settled, MapsSettled, CountsSettled, SnapshotsSettled, DropsSettled,
           SameDropsMade
  <2> QED  BY <1>3, <2>2, <2>3 DEF Settleable
<1>4. CASE ~unique /\ ~AwaitsRetransmission(f, PacketId(p))
  <2>1. g = CountDuplicate(f, p)
    BY <1>4 DEF Account
  <2>2. FlowInv(g) /\ SameDrops(f, g)
    BY <2>1, CountDuplicateKeepsInv
  <2>3. DropsSettled(f, g, {}, {})
    BY <2>2 DEF SameDrops, SameDropCounts, SameDropsMade, DropsSettled, Pending
  <2> QED  BY <1>4, <2>2, <2>3
<1> QED  BY <1>2, <1>3, <1>4

\* pennyFlow::processPacket keeps the invariant: some drops expire, at most one
\* other is observed, and a payload that was unique is remembered.
LEMMA ProcessPacketKeepsInv ==
  ASSUME NEW f, FlowInv(f), NEW p \in Packets
  PROVE  /\ FlowInv(ProcessPacket(f, p))
         /\ \E E \in SUBSET Pending(f), R \in SUBSET {PacketId(p)} :
              /\ R \subseteq Pending(f) \ E
              /\ DropsSettled(f, ProcessPacket(f, p), E, R)
              /\ p \in DataPackets /\ IsPayloadUnique(f, p)
                   => /\ R = {}
                      /\ Interval(p) \in ProcessPacket(f, p).pktsIntervalTree
<1>1. CASE p.payloadSize = 0
  <2>1. ProcessPacket(f, p) = f /\ p \notin DataPackets
    BY <1>1 DEF ProcessPacket, DataPackets
  <2>2. DropsSettled(f, f, {}, {})
    BY DEF DropsSettled, SameDropsMade
  <2> QED  BY <2>1, <2>2
<1>2. CASE p \in DataPackets
  <2> DEFINE unique == IsPayloadUnique(f, p)
             f1 == ObserveSeq(f, p)
             f2 == CheckPacketDropTimeouts(f1)
             f3 == Account(f2, p, unique)
             f4 == CheckForNewValidSnapshot(f3)
             E  == ExpiredDrops(f1)
  <2>1. ProcessPacket(f, p) = f4
    BY <1>2 DEF ProcessPacket, DataPackets
  <2>2. FlowInv(f1) /\ DropsSettled(f, f1, {}, {})
    BY <1>2, ObserveSeqKeepsInv DEF SameDrops, SameDropCounts, SameDropsMade, DropsSettled, Pending
  <2>3. FlowInv(f2) /\ E \subseteq Pending(f1) /\ DropsSettled(f1, f2, E, {})
    <3>1. /\ FlowInv(f2)
          /\ Settleable(f1, E, {})
          /\ Settled(f1, f2, E, {})
      BY <2>2, CheckPacketDropTimeoutsKeepsInv
    <3> HIDE DEF f1, f2, E
    <3> QED  BY <3>1 DEF Settleable, Settled, MapsSettled, CountsSettled,
                         SnapshotsSettled, DropsSettled, SameDropsMade
  <2>4. unique \in BOOLEAN
    BY DEF IsPayloadUnique
  <2> HIDE DEF f1, f2, E, unique
  <2>5. /\ FlowInv(f3)
        /\ unique => Interval(p) \in f3.pktsIntervalTree
        /\ \E R \in SUBSET {PacketId(p)} :
             /\ unique => R = {}
             /\ R \subseteq Pending(f2)
             /\ DropsSettled(f2, f3, {}, R)
    BY <1>2, <2>3, <2>4, AccountKeepsInv
  <2>6. PICK R \in SUBSET {PacketId(p)} :
          /\ unique => R = {}
          /\ R \subseteq Pending(f2)
          /\ DropsSettled(f2, f3, {}, R)
    BY <2>5
  <2> HIDE DEF f3
  <2>7. FlowInv(f4) /\ SameDrops(f3, f4)
    BY <2>5, CheckForNewValidSnapshotKeepsInv
  <2>8. DropsSettled(f, f4, E, R)
    BY <2>2, <2>3, <2>6, <2>7
       DEF DropsSettled, SameDropsMade, SameDrops, SameDropCounts, Pending
  <2>9. E \subseteq Pending(f) /\ R \subseteq Pending(f) \ E
    BY <2>2, <2>3, <2>6 DEF DropsSettled
  <2>10. unique => R = {} /\ Interval(p) \in f4.pktsIntervalTree
    BY <2>5, <2>6, <2>7 DEF SameDrops
  <2> QED  BY <2>1, <2>7, <2>8, <2>9, <2>10 DEF unique
<1>3. p.payloadSize = 0 \/ p \in DataPackets
  BY FlowAssumption DEF DataPackets
<1> QED  BY <1>1, <1>2, <1>3

\* No packet that is unique has been dropped before.
LEMMA UniqueIsNotDropped ==
  ASSUME NEW f, FlowInv(f), NEW p \in DataPackets, IsPayloadUnique(f, p)
  PROVE  PacketId(p) \notin DOMAIN f.droppedPktsDecision
<1> SUFFICES ASSUME PacketId(p) \in DOMAIN f.droppedPktsDecision
             PROVE  FALSE
  OBVIOUS
<1>1. PICK i \in f.pktsIntervalTree :
        i[1] <= SeqOf(PacketId(p)) /\ SeqOf(PacketId(p)) <= i[2]
  BY DEF FlowInv, DropsRecorded
<1>2. i[1] \in Nat /\ i[2] \in Nat
  BY <1>1 DEF FlowInv, FlowTypeOK
<1>3. /\ p.seq \in Nat
      /\ SeqOf(PacketId(p)) = p.seq
      /\ Interval(p)[1] = p.seq
      /\ Interval(p)[2] \in Nat
      /\ p.seq <= Interval(p)[2]
  BY PacketIdType, IntervalType
<1>4. Overlaps(i, Interval(p))
  BY <1>1, <1>2, <1>3 DEF Overlaps
<1> QED  BY <1>1, <1>4 DEF IsPayloadUnique

\* The clock keeps the invariant.
LEMMA AgeDropsKeepsInv ==
  ASSUME NEW f, FlowInv(f)
  PROVE  FlowInv(AgeDrops(f))
<1> DEFINE g == AgeDrops(f)
<1>1. FlowTypeOK(f)
  BY DEF FlowInv
<1>2. DOMAIN f = DOMAIN NewFlow
  BY <1>1 DEF FlowTypeOK
<1>3. /\ DOMAIN g = DOMAIN f
      /\ g.highestSeq = f.highestSeq
      /\ g.curCounters = f.curCounters
      /\ g.metaLists = f.metaLists
      /\ g.counterSnapsList = f.counterSnapsList
      /\ g.validCounterSnap = f.validCounterSnap
      /\ g.droppedPktsDecision = f.droppedPktsDecision
      /\ g.seqOfLastDroppedPacket = f.seqOfLastDroppedPacket
      /\ g.pktsIntervalTree = f.pktsIntervalTree
      /\ g.pendingDrops
           = [id \in Pending(f) |->
                IF f.pendingDrops[id] < AgeCap THEN f.pendingDrops[id] + 1
                                               ELSE f.pendingDrops[id]]
  BY <1>2 DEF AgeDrops, NewFlow, Pending
<1>4. Pending(g) = Pending(f)
  BY <1>3 DEF Pending
<1>5. g.pendingDrops \in [Pending(g) -> 0..AgeCap]
  <2>1. AgeCap \in Nat
    BY FlowAssumption DEF AgeCap
  <2>2. \A id \in Pending(f) : f.pendingDrops[id] \in 0..AgeCap
    BY <1>1 DEF FlowTypeOK
  <2> QED  BY <1>3, <1>4, <2>1, <2>2
<1>6. FlowTypeOK(g)
  BY <1>1, <1>3, <1>4, <1>5 DEF FlowTypeOK
<1>7. SnapshotsDescribeDrops(g)
  BY <1>3, <1>4
     DEF FlowInv, SnapshotsDescribeDrops, Describes, Known
<1>8. MapsOfFlowAgree(g) /\ DropsOnce(g) /\ DropsRecorded(g)
  BY <1>3, <1>4 DEF FlowInv, MapsOfFlowAgree, DropsOnce, DropsRecorded, Known
<1> QED  BY <1>6, <1>7, <1>8 DEF FlowInv

\* A new flow satisfies the invariant.
LEMMA NewFlowInv == FlowInv(NewFlow)
<1> DEFINE f == NewFlow
<1>1. FlowTypeOK(f)
  BY NewFlowType
<1>2. /\ f.counterSnapsList = <<>>
      /\ f.curCounters = NoCounters
      /\ f.metaLists = NoLists
      /\ DOMAIN f.pendingDrops = {}
      /\ DOMAIN f.droppedPktsDecision = {}
  BY DEF NewFlow
<1> HIDE DEF f
<1>3. Len(<<>>) = 0 /\ DOMAIN <<>> = {}
  OBVIOUS
<1>4. Known(f, 0) = {} /\ Pending(f) = {}
  BY <1>2 DEF Known, DroppedUpTo, Pending
<1>5. Cardinality({}) = 0
  BY FS_EmptySet
<1>6. Describes(f, f.curCounters, f.metaLists, {})
  BY <1>2, <1>4, <1>5 DEF Describes, NoCounters, NoLists
<1>7. SnapshotsDescribeDrops(f)
  <2>1. Describes(f, f.curCounters, f.metaLists, Known(f, 0))
    BY ONLY <1>4, <1>6, Zenon
  <2> QED  BY <1>2, <1>3, <2>1 DEF SnapshotsDescribeDrops
<1>8. MapsOfFlowAgree(f)
  BY <1>2, <1>4 DEF MapsOfFlowAgree, NoLists
<1>9. DropsOnce(f) /\ DropsRecorded(f)
  BY <1>2, <1>3, <1>4 DEF DropsOnce, DropsRecorded
<1> QED  BY <1>1, <1>7, <1>8, <1>9 DEF FlowInv, f

\* pennyFlow::dropPacket keeps the invariant, for a packet not dropped before
\* whose payload is remembered.
LEMMA DropPacketKeepsInv ==
  ASSUME NEW f, FlowInv(f), NEW p \in DataPackets,
         PacketId(p) \notin DOMAIN f.droppedPktsDecision,
         Interval(p) \in f.pktsIntervalTree
  PROVE  FlowInv(DropPacket(f, p))
<1> DEFINE g == DropPacket(f, p)
           id == PacketId(p)
           s == f.counterSnapsList
           t == g.counterSnapsList
           n == Len(s)
           c == g.curCounters
           l == g.metaLists
           new == [highestSeq |-> f.highestSeq, packetId |-> id,
                   counters |-> c, lists |-> l]
<1>1. /\ FlowTypeOK(f)
      /\ DOMAIN f = DOMAIN NewFlow
      /\ s \in Seq(Snapshot)
      /\ f.curCounters \in Counters
      /\ f.metaLists \in MetaLists
      /\ f.highestSeq \in Nat
  BY DEF FlowInv, FlowTypeOK
<1>2. n \in Nat /\ DOMAIN s = 1..n
  BY <1>1, LenProperties
<1>3. id \in PacketIds /\ p.seq \in Nat /\ SeqOf(id) = p.seq
  BY PacketIdType
<1>4. /\ DOMAIN g = DOMAIN f
      /\ g.highestSeq = f.highestSeq
      /\ g.validCounterSnap = f.validCounterSnap
      /\ g.pktsIntervalTree = f.pktsIntervalTree
      /\ g.seqOfLastDroppedPacket = p.seq
      /\ g.curCounters = [f.curCounters EXCEPT !.droppedPkts = @ + 1,
                                               !.pendingDroppedPkts = @ + 1]
      /\ g.metaLists = [f.metaLists EXCEPT !.droppedPcksList = @ \cup {id}]
      /\ g.droppedPktsDecision
           = [i \in DOMAIN f.droppedPktsDecision \cup {id} |->
                i # id /\ f.droppedPktsDecision[i]]
      /\ g.pendingDrops
           = [i \in Pending(f) \cup {id} |->
                IF i = id THEN 0 ELSE f.pendingDrops[i]]
      /\ t = Append(s, new)
  BY <1>1 DEF DropPacket, NewFlow, Pending
<1> HIDE DEF g, id
<1>5. /\ c \in Counters
      /\ c.droppedPkts = f.curCounters.droppedPkts + 1
      /\ c.pendingDroppedPkts = f.curCounters.pendingDroppedPkts + 1
      /\ c.notSeenDroppedPkts = f.curCounters.notSeenDroppedPkts
      /\ c.retransmittedDroppedPkts = f.curCounters.retransmittedDroppedPkts
  <2> DEFINE d == [f.curCounters EXCEPT !.droppedPkts = @ + 1]
  <2>1. d \in Counters
    BY <1>1 DEF Counters
  <2>2. /\ d.droppedPkts = f.curCounters.droppedPkts + 1
        /\ d.pendingDroppedPkts = f.curCounters.pendingDroppedPkts
        /\ d.notSeenDroppedPkts = f.curCounters.notSeenDroppedPkts
        /\ d.retransmittedDroppedPkts = f.curCounters.retransmittedDroppedPkts
    BY <1>1 DEF Counters
  <2>3. c = [d EXCEPT !.pendingDroppedPkts = @ + 1]
    BY <1>4
  <2> HIDE DEF d
  <2>4. [d EXCEPT !.pendingDroppedPkts = @ + 1] \in Counters
    BY <2>1 DEF Counters
  <2> QED  BY <2>1, <2>2, <2>3, <2>4 DEF Counters
<1>6. /\ l \in MetaLists
      /\ l.droppedPcksList = f.metaLists.droppedPcksList \cup {id}
      /\ l.expiredPcksList = f.metaLists.expiredPcksList
      /\ l.retransmittedPktsList = f.metaLists.retransmittedPktsList
  BY <1>1, <1>3, <1>4 DEF MetaLists
<1>7. new \in Snapshot
  BY <1>1, <1>3, <1>5, <1>6 DEF Snapshot
<1>8. /\ t \in Seq(Snapshot)
      /\ Len(t) = n + 1
      /\ DOMAIN t = 1..(n + 1)
      /\ \A k \in 1..n : t[k] = s[k]
      /\ t[n + 1] = new
  <2> HIDE DEF new, s, t
  <2>1. /\ t \in Seq(Snapshot)
        /\ Len(t) = n + 1
        /\ \A k \in 1..n : t[k] = s[k]
        /\ t[n + 1] = new
    BY <1>1, <1>4, <1>7, AppendProperties
  <2>2. DOMAIN t = 1..Len(t)
    BY <2>1, LenProperties
  <2> QED  BY <2>1, <2>2
<1>9. /\ \A k \in 1..n : Known(g, k) = Known(f, k)
      /\ Known(g, n + 1) = Known(f, n) \cup {id}
  <2>1. t[n + 1].packetId = id
    BY <1>8
  <2>2. /\ \A k : Known(g, k) = {t[j].packetId : j \in 1..k}
        /\ \A k : Known(f, k) = {s[j].packetId : j \in 1..k}
    BY DEF Known, DroppedUpTo
  <2> HIDE DEF t, s, n, new
  <2>3. ASSUME NEW k \in 1..n
        PROVE  Known(g, k) = Known(f, k)
    <3>1. \A j \in 1..k : t[j] = s[j]
      BY <1>2, <1>8
    <3>2. {t[j].packetId : j \in 1..k} = {s[j].packetId : j \in 1..k}
      BY <3>1
    <3> QED  BY <2>2, <3>2, Zenon
  <2>4. Known(g, n + 1) = Known(f, n) \cup {id}
    <3>1. /\ \A j \in 1..(n + 1) : j \in 1..n \/ j = n + 1
          /\ \A j \in 1..n : j \in 1..(n + 1)
          /\ n + 1 \in 1..(n + 1)
      BY <1>2
    <3>2. \A j \in 1..n : t[j] = s[j]
      BY <1>8
    <3> QED  BY <2>1, <2>2, <3>1, <3>2
  <2> QED  BY <2>3, <2>4
<1>10. /\ DOMAIN f.droppedPktsDecision = Known(f, n)
       /\ id \notin Known(f, n)
       /\ \A k \in 1..n : id \notin Known(f, k)
  <2>1. DOMAIN f.droppedPktsDecision = Known(f, n) /\ id \notin Known(f, n)
    BY DEF FlowInv, DropsRecorded, id
  <2> QED  BY <1>2, <2>1 DEF Known, DroppedUpTo
<1>11. Pending(g) = Pending(f) \cup {id}
  BY <1>4 DEF Pending
<1>12. FlowTypeOK(g)
  <2>1. /\ Pending(g) \subseteq PacketIds
        /\ g.pendingDrops \in [Pending(g) -> 0..AgeCap]
    <3>1. AgeCap \in Nat
      BY FlowAssumption DEF AgeCap
    <3> QED  BY <1>1, <1>3, <1>4, <1>11, <3>1 DEF FlowTypeOK, Pending
  <2>2. /\ DOMAIN g.droppedPktsDecision \subseteq PacketIds
        /\ g.droppedPktsDecision
              \in [DOMAIN g.droppedPktsDecision -> BOOLEAN]
    BY <1>1, <1>3, <1>4 DEF FlowTypeOK
  <2> QED  BY <1>1, <1>3, <1>4, <1>5, <1>6, <1>8, <2>1, <2>2 DEF FlowTypeOK
<1>13. SnapshotsDescribeDrops(g)
  <2>1. Describes(f, f.curCounters, f.metaLists, Known(f, n))
    BY DEF FlowInv, SnapshotsDescribeDrops
  <2>2. Describes(g, c, l, Known(f, n) \cup {id})
    <3> DEFINE K == Known(f, n)
               P == Pending(f)
    <3>1. IsFiniteSet(K) /\ IsFiniteSet(K \cap P) /\ id \notin K
      <4>1. n \in 0..n
        BY <1>2
      <4>2. IsFiniteSet(K)
        BY <1>1, <4>1, DroppedUpToFinite DEF Known
      <4> QED  BY <1>10, <4>2, FS_Subset
    <3>2. /\ Cardinality(K \cup {id}) = Cardinality(K) + 1
          /\ Cardinality((K \cap P) \cup {id}) = Cardinality(K \cap P) + 1
      BY <3>1, FS_AddElement
    <3>3. /\ (K \cup {id}) \cap Pending(g) = (K \cap P) \cup {id}
          /\ id \notin f.metaLists.expiredPcksList
          /\ id \notin f.metaLists.retransmittedPktsList
      BY <1>10, <1>11 DEF FlowInv, MapsOfFlowAgree
    <3>4. c.pendingDroppedPkts = Cardinality((K \cup {id}) \cap Pending(g))
      <4>1. c.pendingDroppedPkts = Cardinality((K \cap P) \cup {id})
        BY <1>5, <2>1, <3>2 DEF Describes
      <4> QED  BY ONLY <3>3, <4>1, Zenon
    <3> QED
      BY <1>5, <1>6, <2>1, <3>2, <3>3, <3>4 DEF Describes
  <2>3. ASSUME NEW k \in 1..n
        PROVE  Describes(g, s[k].counters, s[k].lists, Known(f, k))
    <3>1. Describes(f, s[k].counters, s[k].lists, Known(f, k))
      BY <1>2 DEF FlowInv, SnapshotsDescribeDrops
    <3>2. Known(f, k) \cap Pending(g) = Known(f, k) \cap Pending(f)
      BY <1>10, <1>11
    <3>3. Cardinality(Known(f, k) \cap Pending(g))
            = Cardinality(Known(f, k) \cap Pending(f))
      BY ONLY <3>2, Zenon
    <3> QED  BY <1>6, <3>1, <3>3 DEF Describes
  <2>4. Describes(g, g.curCounters, g.metaLists, Known(g, Len(t)))
    <3>1. Known(g, Len(t)) = Known(f, n) \cup {id}
      BY <1>8, <1>9
    <3> QED  BY ONLY <2>2, <3>1, Zenon
  <2>5. ASSUME NEW k \in DOMAIN t
        PROVE  Describes(g, t[k].counters, t[k].lists, Known(g, k))
    <3>1. CASE k \in 1..n
      <4>1. t[k] = s[k] /\ Known(g, k) = Known(f, k)
        BY <1>8, <1>9, <3>1
      <4> QED  BY <2>3, <3>1, <4>1, Zenon
    <3>2. CASE k = n + 1
      <4>1. t[k].counters = c /\ t[k].lists = l
        BY <1>8, <3>2
      <4>2. Known(g, k) = Known(f, n) \cup {id}
        BY <1>9, <3>2
      <4> QED  BY ONLY <2>2, <4>1, <4>2, Zenon
    <3> QED  BY <1>2, <1>8, <3>1, <3>2
  <2> QED  BY <2>4, <2>5 DEF SnapshotsDescribeDrops
<1>14. MapsOfFlowAgree(g)
  <2> DEFINE D == f.droppedPktsDecision
             E == g.droppedPktsDecision
             settled == {i \in DOMAIN D : D[i]}
  <2>1. /\ DOMAIN E = DOMAIN D \cup {id}
        /\ id \notin DOMAIN D
        /\ {i \in DOMAIN E : E[i]} = settled
    BY <1>4, <1>10
  <2>2. /\ Pending(f) = DOMAIN D \ settled
        /\ settled = f.metaLists.expiredPcksList
                        \cup f.metaLists.retransmittedPktsList
        /\ f.metaLists.expiredPcksList
             \cap f.metaLists.retransmittedPktsList = {}
    BY DEF FlowInv, MapsOfFlowAgree
  <2> HIDE DEF D, E, settled
  <2>3. Pending(g) = DOMAIN E \ settled
    BY <1>11, <2>1, <2>2 DEF settled
  <2> QED  BY <1>6, <2>1, <2>2, <2>3 DEF MapsOfFlowAgree, E
<1>15. DropsOnce(g)
  <2>1. \A k \in 1..n : s[k].packetId # id
    BY <1>2, <1>10 DEF Known, DroppedUpTo
  <2>2. \A j, k \in 1..n : s[j].packetId = s[k].packetId => j = k
    BY <1>2 DEF FlowInv, DropsOnce
  <2>3. t[n + 1].packetId = id
    BY <1>8
  <2>4. ASSUME NEW j \in DOMAIN t, NEW k \in DOMAIN t,
               t[j].packetId = t[k].packetId
        PROVE  j = k
    <3> HIDE DEF t, n, s
    <3>1. (j \in 1..n \/ j = n + 1) /\ (k \in 1..n \/ k = n + 1)
      BY <1>2, <1>8
    <3>2. CASE j \in 1..n /\ k \in 1..n
      <4>1. t[j] = s[j] /\ t[k] = s[k]
        BY <1>8, <3>2
      <4> QED  BY <2>2, <2>4, <3>2, <4>1
    <3>3. CASE j \in 1..n /\ k = n + 1
      BY <1>8, <2>1, <2>3, <2>4, <3>3
    <3>4. CASE j = n + 1 /\ k \in 1..n
      BY <1>8, <2>1, <2>3, <2>4, <3>4
    <3> QED  BY <3>1, <3>2, <3>3, <3>4
  <2> QED  BY <2>4 DEF DropsOnce
<1>16. DropsRecorded(g)
  <2>1. DOMAIN g.droppedPktsDecision = Known(g, Len(t))
    BY <1>4, <1>8, <1>9, <1>10
  <2>2. \E i \in g.pktsIntervalTree : i[1] <= SeqOf(id) /\ SeqOf(id) <= i[2]
    BY <1>3, <1>4, IntervalType
  <2> QED  BY <1>4, <2>1, <2>2 DEF FlowInv, DropsRecorded
<1> QED  BY <1>12, <1>13, <1>14, <1>15, <1>16 DEF FlowInv, g

-------------------------------------------------------------------------------
\* No pending count of a flow in the invariant is below zero: each is the size
\* of a set of drops.
LEMMA InvNoWrapAround ==
  ASSUME NEW f, FlowInv(f)
  PROVE  NoWrapAround(f)
<1> DEFINE s == f.counterSnapsList
<1>1. s \in Seq(Snapshot)
  BY DEF FlowInv, FlowTypeOK
<1>2. Len(s) \in Nat /\ DOMAIN s = 1..Len(s)
  BY <1>1, LenProperties
<1>3. ASSUME NEW k \in 0..Len(s)
      PROVE  Cardinality(Known(f, k) \cap Pending(f)) \in Nat
  <2>1. IsFiniteSet(Known(f, k))
    BY <1>1, DroppedUpToFinite DEF Known
  <2> QED  BY <2>1, FS_Subset, FS_CardinalityType
<1>4. f.curCounters.pendingDroppedPkts
        = Cardinality(Known(f, Len(s)) \cap Pending(f))
  BY DEF FlowInv, SnapshotsDescribeDrops, Describes
<1>5. \A k \in DOMAIN s : s[k].counters.pendingDroppedPkts
                            = Cardinality(Known(f, k) \cap Pending(f))
  BY DEF FlowInv, SnapshotsDescribeDrops, Describes
<1>6. Len(s) \in 0..Len(s) /\ \A k \in DOMAIN s : k \in 0..Len(s)
  BY <1>2
<1>7. f.curCounters.pendingDroppedPkts \in Nat
  BY ONLY <1>3, <1>4, <1>6, Zenon
<1>8. \A k \in DOMAIN s : s[k].counters.pendingDroppedPkts \in Nat
  BY ONLY <1>3, <1>5, <1>6, Zenon
<1>9. \A n \in Nat : n >= 0
  OBVIOUS
<1> QED  BY <1>7, <1>8, <1>9 DEF NoWrapAround
===============================================================================
