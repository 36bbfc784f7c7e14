---------------------------- MODULE FlowInvariants ----------------------------
(***************************************************************************)
(* What is true of every flow between two calls, as predicates on the      *)
(* state f of a flow.  PennyFlow.tla checks them of a single flow, and     *)
(* Penny.tla has one flow per tracked flowId.                              *)
(***************************************************************************)
EXTENDS FlowOps

\* The drops that await their retransmission, and those that the snapshots
\* up to the k-th know of.
Pending(f)  == DOMAIN f.pendingDrops
Known(f, k) == DroppedUpTo(f.counterSnapsList, k)

FlowTypeOK(f) ==
  /\ DOMAIN f = DOMAIN NewFlow
  /\ f.highestSeq \in Nat
  /\ f.curCounters \in Counters
  /\ f.metaLists \in MetaLists
  /\ f.counterSnapsList \in Seq(Snapshot)
  /\ f.validCounterSnap \in FlowTotals
  /\ Pending(f) \subseteq PacketIds
  /\ f.pendingDrops \in [Pending(f) -> 0..AgeCap]
  /\ DOMAIN f.droppedPktsDecision \subseteq PacketIds
  /\ f.droppedPktsDecision \in [DOMAIN f.droppedPktsDecision -> BOOLEAN]
  /\ f.seqOfLastDroppedPacket \in Nat
  /\ f.pktsIntervalTree \subseteq (Nat \X Nat)

\* No pending count, a uint64_t that is only ever decremented by one, wraps.
NoWrapAround(f) ==
  /\ f.curCounters.pendingDroppedPkts >= 0
  /\ \A k \in DOMAIN f.counterSnapsList :
       f.counterSnapsList[k].counters.pendingDroppedPkts >= 0

(***************************************************************************)
(* The counters c and lists l describe the drops of ids exactly: each drop *)
(* is dropped, and is counted once, as pending, retransmitted or expired,  *)
(* under the verdict the flow has reached on it by now.                    *)
(***************************************************************************)
Describes(f, c, l, ids) ==
  /\ l.droppedPcksList = ids
  /\ l.retransmittedPktsList = ids \cap f.metaLists.retransmittedPktsList
  /\ l.expiredPcksList = ids \cap f.metaLists.expiredPcksList
  /\ c.droppedPkts = Cardinality(ids)
  /\ c.retransmittedDroppedPkts = Cardinality(l.retransmittedPktsList)
  /\ c.notSeenDroppedPkts = Cardinality(l.expiredPcksList)
  /\ c.pendingDroppedPkts = Cardinality(ids \cap Pending(f))

SnapshotsDescribeDrops(f) ==
  LET snaps == f.counterSnapsList IN
  /\ Describes(f, f.curCounters, f.metaLists, Known(f, Len(snaps)))
  /\ \A k \in DOMAIN snaps :
       Describes(f, snaps[k].counters, snaps[k].lists, Known(f, k))

\* The map of decisions, the map of drop times and the lists agree.
MapsOfFlowAgree(f) ==
  LET dropped == DOMAIN f.droppedPktsDecision
      settled == {id \in dropped : f.droppedPktsDecision[id]}
  IN
  /\ Pending(f) = dropped \ settled
  /\ settled = f.metaLists.expiredPcksList \cup f.metaLists.retransmittedPktsList
  /\ f.metaLists.expiredPcksList \cap f.metaLists.retransmittedPktsList = {}

\* No two snapshots are of the same drop.
DropsOnce(f) ==
  LET snaps == f.counterSnapsList IN
  \A j, k \in DOMAIN snaps : snaps[j].packetId = snaps[k].packetId => j = k

(***************************************************************************)
(* The decision map has an entry for each drop, and the payload of each    *)
(* drop stays in the interval tree, so that no packet with it is unique.   *)
(***************************************************************************)
DropsRecorded(f) ==
  /\ DOMAIN f.droppedPktsDecision = Known(f, Len(f.counterSnapsList))
  /\ \A id \in DOMAIN f.droppedPktsDecision :
       \E i \in f.pktsIntervalTree : i[1] <= SeqOf(id) /\ SeqOf(id) <= i[2]

\* The inductive invariant of a flow.
FlowInv(f) ==
  /\ FlowTypeOK(f)
  /\ SnapshotsDescribeDrops(f)
  /\ MapsOfFlowAgree(f)
  /\ DropsOnce(f)
  /\ DropsRecorded(f)
===============================================================================
