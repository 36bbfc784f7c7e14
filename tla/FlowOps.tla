-------------------------------- MODULE FlowOps --------------------------------
(***************************************************************************)
(* The operations of class pennyFlow as functions of the state of one      *)
(* flow.  A flow is a record; PennyFlow.tla runs one flow on its own and   *)
(* Penny.tla runs one per tracked flow.                                    *)
(*                                                                         *)
(* A packet is a simplePacket less the fields of its flow.  Payloads are   *)
(* closed intervals of sequence numbers, far below the 2^31 above which    *)
(* std::stoi and the (int) casts of the code would not be the identity.    *)
(* Time is counted in ticks: what the code subtracts from the clock, the   *)
(* age of a pending drop, is kept instead of the time of the drop, and     *)
(* saturates at AgeCap, above which no comparison of the code can tell two *)
(* ages apart.                                                             *)
(***************************************************************************)
EXTENDS Hypotheses, FiniteSets, Sequences, FiniteSetsExt

CONSTANTS
  Packets,    \* the packets a flow can carry
  Timeout     \* packetDropExpirationTimeout, in ticks

ASSUME FlowAssumption ==
  /\ Packets \subseteq [seq : Nat, ack : Nat, payloadSize : Nat]
  /\ Timeout \in Nat

DataPackets == {p \in Packets : p.payloadSize > 0}

AgeCap == 2 * Timeout + 1

\* packetId, the string "seq-ack", and what stoi reads back from it.
PacketId(p)  == <<p.seq, p.ack>>
SeqOf(id)    == id[1]
PacketIds    == {PacketId(p) : p \in DataPackets}

Interval(p)    == <<p.seq, p.seq + p.payloadSize - 1>>
Overlaps(i, j) == i[1] <= j[2] /\ j[1] <= i[2]

-------------------------------------------------------------------------------
\* pennyMetaLists, statsSnapshot and the fields of pennyFlow.
MetaLists == [ droppedPcksList       : SUBSET PacketIds,
               expiredPcksList       : SUBSET PacketIds,
               retransmittedPktsList : SUBSET PacketIds ]

NoLists == [ droppedPcksList       |-> {},
             expiredPcksList       |-> {},
             retransmittedPktsList |-> {} ]

Snapshot == [ highestSeq : Nat,
              packetId   : PacketIds,
              counters   : Counters,
              lists      : MetaLists ]

\* The part of a statsSnapshot that getFlowState's callers read.
FlowTotals == [counters : Counters, lists : MetaLists]

NoTotals == [counters |-> NoCounters, lists |-> NoLists]

Totals(s) == [counters |-> s.counters, lists |-> s.lists]

NewFlow ==
  [ highestSeq             |-> 0,
    curCounters            |-> NoCounters,
    metaLists              |-> NoLists,
    counterSnapsList       |-> <<>>,
    validCounterSnap       |-> NoTotals,
    pendingDrops           |-> [id \in {} |-> 0],
    droppedPktsDecision    |-> [id \in {} |-> FALSE],
    seqOfLastDroppedPacket |-> 0,
    pktsIntervalTree       |-> {} ]

-------------------------------------------------------------------------------
\* isPayloadUnique
IsPayloadUnique(f, p) ==
  \A i \in f.pktsIntervalTree : ~Overlaps(i, Interval(p))

\* processPacket: a data packet with a new payload whose sequence number is
\* not below highestSeq.
IsOutOfSequence(f, p) == p.seq < f.highestSeq /\ IsPayloadUnique(f, p)

IsDroppable(f, p) ==
  p.payloadSize > 0 /\ IsPayloadUnique(f, p) /\ ~IsOutOfSequence(f, p)

\* The first test of processPacket, which tells out of order from in order.
ObserveSeq(f, p) ==
  [f EXCEPT !.highestSeq = IF IsOutOfSequence(f, p) THEN @ ELSE p.seq]

\* The drops that the snapshots 1..k of the list know of.
DroppedUpTo(snaps, k) == {snaps[j].packetId : j \in 1..k}

(***************************************************************************)
(* What both updateDropSnapshotsAhead... loops have in common: a settled   *)
(* drop counts once in its own snapshot and in each one after it.          *)
(***************************************************************************)
SettledUpTo(snaps, k, settled) == DroppedUpTo(snaps, k) \cap settled

\* What a settled drop changes in the counters of the flow or a snapshot.
CountExpired(c, n) ==
  [c EXCEPT !.notSeenDroppedPkts = @ + n, !.pendingDroppedPkts = @ - n]

CountRetransmitted(c) ==
  [c EXCEPT !.retransmittedDroppedPkts = @ + 1, !.pendingDroppedPkts = @ - 1]

\* updateDropSnapshotsAheadExpired, for every drop of a set.
ExpireSnapshots(snaps, expired) ==
  [k \in DOMAIN snaps |->
     LET here == SettledUpTo(snaps, k, expired) IN
     [snaps[k] EXCEPT
        !.counters              = CountExpired(@, Cardinality(here)),
        !.lists.expiredPcksList = @ \cup here]]

\* (fault: the later snapshots are not brought up to date)
RetransmitOwnSnapshot(snaps, id) ==
  [k \in DOMAIN snaps |->
     IF snaps[k].packetId = id
       THEN [snaps[k] EXCEPT
               !.counters                    = CountRetransmitted(@),
               !.lists.retransmittedPktsList = @ \cup {id}]
       ELSE snaps[k]]

\* updateDropSnapshotsAheadRetransmitted
RetransmitSnapshots(snaps, id) ==
  [k \in DOMAIN snaps |->
     IF id \in DroppedUpTo(snaps, k)
       THEN [snaps[k] EXCEPT
               !.counters                    = CountRetransmitted(@),
               !.lists.retransmittedPktsList = @ \cup {id}]
       ELSE snaps[k]]

\* (fault: a later snapshot is judged by its own highestSeq alone)
DuplicateWithinSnapshot(snaps, seqDup) ==
  [k \in DOMAIN snaps |->
     IF snaps[k].highestSeq >= seqDup
       THEN [snaps[k] EXCEPT !.counters.duplicatePkts = @ + 1]
       ELSE snaps[k]]

\* updateDropSnapshotsAheadDuplicates
DuplicateSnapshots(snaps, seqDup) ==
  [k \in DOMAIN snaps |->
     IF \E j \in 1..k : snaps[j].highestSeq >= seqDup
       THEN [snaps[k] EXCEPT !.counters.duplicatePkts = @ + 1]
       ELSE snaps[k]]

(***************************************************************************)
(* The drops that the loop of checkPacketDropTimeouts finds expired.  The  *)
(* drop of the packet dropped last is given twice the time.                *)
(***************************************************************************)
Grace(f, id) == IF SeqOf(id) = f.seqOfLastDroppedPacket THEN Timeout ELSE 0

ExpiredDrops(f) ==
  {id \in DOMAIN f.pendingDrops : f.pendingDrops[id] - Grace(f, id) > Timeout}

CheckPacketDropTimeouts(f) ==
  LET expired == ExpiredDrops(f)
      snaps   == f.counterSnapsList
  IN
  [f EXCEPT
     !.curCounters = CountExpired(@, Cardinality(expired)),
     !.droppedPktsDecision = [id \in DOMAIN @ |-> id \in expired \/ @[id]],
     !.counterSnapsList = ExpireSnapshots(snaps, expired),
     !.metaLists.expiredPcksList =
         @ \cup SettledUpTo(snaps, Len(snaps), expired),
     !.pendingDrops = [id \in DOMAIN @ \ expired |-> @[id]]]

-------------------------------------------------------------------------------
\* The three ways in which a data packet is accounted for.

\* (fault: the payload is not remembered)
CountPayload(f, p) == [f EXCEPT !.curCounters.droppablePkts = @ + 1]

\* addPktToSeqIntervalTree
AddPayload(f, p) ==
  [f EXCEPT !.pktsIntervalTree = @ \cup {Interval(p)},
            !.curCounters.droppablePkts = @ + 1]

\* (fault: a decided drop is taken for an undecided one)
WasDropped(f, id) == id \in DOMAIN f.droppedPktsDecision

\* A drop with this packetId was made and has not been decided.
AwaitsRetransmission(f, id) ==
  id \in DOMAIN f.droppedPktsDecision /\ ~f.droppedPktsDecision[id]

\* (fault: the time of the drop is not erased, so it may expire as well)
ObserveWithoutErase(f, id) ==
  LET snaps == f.counterSnapsList IN
  [f EXCEPT
     !.droppedPktsDecision[id] = TRUE,
     !.curCounters = CountRetransmitted(@),
     !.counterSnapsList = RetransmitSnapshots(snaps, id),
     !.metaLists.retransmittedPktsList =
         @ \cup SettledUpTo(snaps, Len(snaps), {id})]

ObserveRetransmission(f, id) ==
  LET snaps == f.counterSnapsList IN
  [f EXCEPT
     !.droppedPktsDecision[id] = TRUE,
     !.pendingDrops = [i \in DOMAIN @ \ {id} |-> @[i]],
     !.curCounters = CountRetransmitted(@),
     !.counterSnapsList = RetransmitSnapshots(snaps, id),
     !.metaLists.retransmittedPktsList =
         @ \cup SettledUpTo(snaps, Len(snaps), {id})]

CountDuplicate(f, p) ==
  [f EXCEPT !.curCounters.duplicatePkts = @ + 1,
            !.counterSnapsList = DuplicateSnapshots(@, p.seq)]

Account(f, p, unique) ==
  CASE unique -> AddPayload(f, p)
    [] ~unique /\ AwaitsRetransmission(f, PacketId(p))
         -> ObserveRetransmission(f, PacketId(p))
    [] ~unique /\ ~AwaitsRetransmission(f, PacketId(p))
         -> CountDuplicate(f, p)

(***************************************************************************)
(* checkForNewValidSnapshot: the valid snapshot becomes a copy of the last *)
(* snapshot of the list without pending drops, if there is one.            *)
(***************************************************************************)
SettledSnapshots(snaps) ==
  {k \in DOMAIN snaps : snaps[k].counters.pendingDroppedPkts = 0}

\* (fault: the search stops at the first settled snapshot)
CheckForFirstValidSnapshot(f) ==
  LET settled == SettledSnapshots(f.counterSnapsList) IN
  IF settled = {}
    THEN f
    ELSE [f EXCEPT
            !.validCounterSnap = Totals(f.counterSnapsList[Min(settled)])]

CheckForNewValidSnapshot(f) ==
  LET settled == SettledSnapshots(f.counterSnapsList) IN
  IF settled = {}
    THEN f
    ELSE [f EXCEPT
            !.validCounterSnap = Totals(f.counterSnapsList[Max(settled)])]

\* pennyFlow::processPacket: a pure ACK changes nothing that is read again.
ProcessPacket(f, p) ==
  IF p.payloadSize = 0
    THEN f
    ELSE CheckForNewValidSnapshot(
           Account(CheckPacketDropTimeouts(ObserveSeq(f, p)),
                   p, IsPayloadUnique(f, p)))

-------------------------------------------------------------------------------
\* (fault: one drop, or one droppable packet, past the budget)
DropOneMorePacket(f) ==
  /\ MinDroppablePkts > 0 => f.curCounters.droppablePkts <= MinDroppablePkts
  /\ MinPacketDrops > 0 => f.curCounters.droppedPkts <= MinPacketDrops

\* dropMorePackets; nothing ever switches enabledPacketsDrops off.
DropMorePackets(f) ==
  /\ MinDroppablePkts > 0 => f.curCounters.droppablePkts < MinDroppablePkts
  /\ MinPacketDrops > 0 => f.curCounters.droppedPkts < MinPacketDrops

(***************************************************************************)
(* The effect of dropPacket once its coin has come up and dropMorePackets  *)
(* allows it, the addPacketDropSnapshot at its end included.               *)
(***************************************************************************)
DropPacket(f, p) ==
  LET id       == PacketId(p)
      counters == [f.curCounters EXCEPT !.droppedPkts = @ + 1,
                                        !.pendingDroppedPkts = @ + 1]
      lists    == [f.metaLists EXCEPT !.droppedPcksList = @ \cup {id}]
  IN
  [f EXCEPT
     !.seqOfLastDroppedPacket = p.seq,
     !.curCounters = counters,
     !.droppedPktsDecision =
         [i \in DOMAIN @ \cup {id} |-> i # id /\ @[i]],
     !.pendingDrops =
         [i \in DOMAIN @ \cup {id} |-> IF i = id THEN 0 ELSE @[i]],
     !.metaLists = lists,
     !.counterSnapsList =
         Append(@, [highestSeq |-> f.highestSeq, packetId |-> id,
                    counters |-> counters, lists |-> lists])]

\* The clock moves on by a tick.
AgeDrops(f) ==
  [f EXCEPT !.pendingDrops =
     [id \in DOMAIN @ |-> IF @[id] < AgeCap THEN @[id] + 1 ELSE @[id]]]

-------------------------------------------------------------------------------
\* getFlowState
GetFlowState(f) ==
  LET cur == f.curCounters IN
  CASE cur.droppedPkts = 0
         -> [counters |-> cur, lists |-> f.metaLists]
    [] cur.droppedPkts # 0
         /\ (cur.notSeenDroppedPkts > 0 \/ cur.retransmittedDroppedPkts > 0)
         -> f.validCounterSnap
    [] OTHER -> Totals(Head(f.counterSnapsList))

(***************************************************************************)
(* pennyFlow::evaluateHypotheses.  The two fields it writes, decisionMade  *)
(* and decisionType, are read nowhere; its result is the verdict.          *)
(***************************************************************************)
EvaluateHypotheses(f) ==
  LET c == GetFlowState(f).counters IN
  IF c.retransmittedDroppedPkts = 0 /\ c.notSeenDroppedPkts = 0
    THEN "NoDecision"
    ELSE Verdict(c)

\* getDuplicatesByPacketDropId, for the id of a drop of the flow.
GetDuplicatesByPacketDropId(f, id) ==
  LET snaps == f.counterSnapsList
      own   == {k \in DOMAIN snaps : snaps[k].packetId = id}
  IN  snaps[Min(own)].counters.duplicatePkts
===============================================================================
