------------------------------ MODULE Penny_proofs ------------------------------
(***************************************************************************)
(* What was proved of one flow holds of every flow that Penny tracks, for  *)
(* all sets of flows and packets, time-outs, budgets and limits: FlowInv   *)
(* holds of each, and each takes the steps of PennyFlow and no others.     *)
(***************************************************************************)
EXTENDS Penny, FlowLemmas, ArithmeticLemmas

\* Penny tracks the spoofed flows and some closed-loop ones, and each is kept
\* as FlowInv says; the packet that may be sent twice is one of its flow.
TrackedOK ==
  /\ flows = [f \in Tracked |-> flows[f]]
  /\ SpoofedFlows \subseteq Tracked
  /\ Tracked \subseteq Flows
  /\ spoofed \subseteq (SpoofedFlows \X DataPackets)

FlowsOK == \A f \in Tracked : FlowInv(flows[f])

IInv == TrackedOK /\ FlowsOK

\* A step on one flow at most: flow f becomes g, the others stay.
Becomes(f, g) == flows' = [flows EXCEPT ![f] = g]

(***************************************************************************)
(* A call of processPacket lets the packet through or drops it, and either *)
(* is a step of the flow on its own: what penny::processPacket asks for    *)
(* before a drop includes what pennyFlow needs.                            *)
(***************************************************************************)
Forwards(f, p) ==
  /\ Becomes(f, ProcessPacket(flows[f], p))
  /\ flows'[f].curCounters.duplicatePkts <= DuplicateBound

Drops(f, p) ==
  LET processed == ProcessPacket(flows[f], p) IN
  /\ IsDroppable(flows[f], p)
  /\ EvaluateHypotheses(processed) = "NoDecision"
  /\ DropMorePackets(processed)
  /\ Becomes(f, DropPacket(processed, p))

\* penny::processPacket does one or the other to the flow of its packet.
LEMMA ProcessMoves ==
  ASSUME TrackedOK, NEW f \in Tracked, NEW p \in Packets, Process(f, p)
  PROVE  Forwards(f, p) \/ Drops(f, p)
<1> DEFINE processed == [flows EXCEPT ![f] = ProcessPacket(@, p)]
           droppable == IsDroppable(flows[f], p)
           aggr == CheckAggregates(processed)
           individually == indivFlowsEnabled \/ aggr.verdict = "NotClosedLoop"
<1>1. processed[f] = ProcessPacket(flows[f], p)
  BY DEF TrackedOK
<1>2. \/ flows' = processed
      \/ /\ droppable
         /\ MayDrop(processed[f], aggr, individually)
         /\ flows' = [processed EXCEPT ![f] = DropPacket(@, p)]
  BY DEF Process
<1>3. flows'[f].curCounters.duplicatePkts <= DuplicateBound
  BY DEF Process
<1>4. CASE flows' = processed
  BY <1>3, <1>4 DEF Forwards, Becomes
<1>5. CASE /\ droppable
           /\ MayDrop(processed[f], aggr, individually)
           /\ flows' = [processed EXCEPT ![f] = DropPacket(@, p)]
  <2> HIDE DEF aggr, individually
  <2>1. /\ EvaluateHypotheses(processed[f]) = "NoDecision"
        /\ DropMorePackets(processed[f])
    BY <1>5 DEF MayDrop
  <2>2. Becomes(f, DropPacket(processed[f], p))
    BY <1>5 DEF Becomes, TrackedOK
  <2> QED  BY <1>1, <1>5, <2>1, <2>2 DEF Drops
<1> QED  BY <1>2, <1>4, <1>5

\* Such a step keeps the invariant of the flow.
LEMMA MoveKeepsFlow ==
  ASSUME IInv, NEW f \in Tracked, NEW p \in Packets,
         Forwards(f, p) \/ Drops(f, p)
  PROVE  FlowInv(flows'[f])
<1> DEFINE processed == ProcessPacket(flows[f], p)
<1>1. FlowInv(flows[f])
  BY DEF IInv, FlowsOK
<1>2. CASE Forwards(f, p)
  <2>1. flows'[f] = processed
    BY <1>2 DEF IInv, TrackedOK, Forwards, Becomes
  <2> QED  BY <1>1, <2>1, ProcessPacketKeepsInv
<1>3. CASE Drops(f, p)
  <2>1. p \in DataPackets /\ IsPayloadUnique(flows[f], p)
    BY <1>3, FlowAssumption DEF Drops, IsDroppable, DataPackets
  <2>2. /\ FlowInv(processed)
        /\ Interval(p) \in processed.pktsIntervalTree
        /\ DOMAIN processed.droppedPktsDecision
             = DOMAIN flows[f].droppedPktsDecision
    BY <1>1, <2>1, ProcessPacketKeepsInv DEF DropsSettled
  <2>3. PacketId(p) \notin DOMAIN processed.droppedPktsDecision
    BY <1>1, <2>1, <2>2, UniqueIsNotDropped
  <2>4. flows'[f] = DropPacket(processed, p)
    BY <1>3 DEF IInv, TrackedOK, Drops, Becomes
  <2> QED  BY <2>1, <2>2, <2>3, <2>4, DropPacketKeepsInv
<1> QED  BY <1>2, <1>3

\* The other flows stay as they are.
LEMMA OthersStay ==
  ASSUME TrackedOK, NEW f \in Tracked, NEW p \in Packets,
         Forwards(f, p) \/ Drops(f, p)
  PROVE  /\ Tracked' = Tracked
         /\ flows' = [g \in Tracked' |-> flows'[g]]
         /\ \A g \in Tracked \ {f} : flows'[g] = flows[g]
  BY DEF TrackedOK, Forwards, Drops, Becomes, Tracked

-------------------------------------------------------------------------------
(***************************************************************************)
(* The steps of Penny as the flows see them: a flow is tracked, one flow   *)
(* moves, or time passes.                                                  *)
(***************************************************************************)
Moves ==
  /\ \E f \in Tracked, p \in Packets : Forwards(f, p) \/ Drops(f, p)
  /\ spoofed' \subseteq (SpoofedFlows \X DataPackets)

\* There is no other step.
LEMMA NextMoves ==
  ASSUME IInv, Next
  PROVE  \/ \E f \in ClosedLoopFlows : TrackNewFlow(f)
         \/ Moves
         \/ Tick
<1>1. ASSUME NEW f \in ClosedLoopFlows, NEW p \in Packets, ClosedLoopPacket(f, p)
      PROVE  Moves
  BY <1>1, ProcessMoves DEF ClosedLoopPacket, Moves, IInv
<1>2. ASSUME NEW f \in SpoofedFlows, NEW p \in Packets, SpoofedPacket(f, p)
      PROVE  Moves
  <2>1. f \in Tracked /\ p \in DataPackets /\ Process(f, p)
    BY <1>2 DEF SpoofedPacket, NextSpoofed, IInv, TrackedOK
  <2>2. spoofed' \subseteq (SpoofedFlows \X DataPackets)
    BY <1>2, <2>1 DEF SpoofedPacket
  <2> QED  BY <2>1, <2>2, ProcessMoves DEF Moves, IInv
<1>3. CASE DuplicateSpoofedPacket
  <2>1. PICK c \in spoofed : Process(c[1], c[2]) /\ spoofed' = {}
    BY <1>3 DEF DuplicateSpoofedPacket
  <2>2. c[1] \in Tracked /\ c[2] \in Packets
    BY DEF IInv, TrackedOK, DataPackets
  <2> QED  BY <2>1, <2>2, ProcessMoves DEF Moves, IInv
<1> QED  BY <1>1, <1>2, <1>3 DEF Next

\* The spoofed flows, tracked from the start, are new.
LEMMA InitFlows == Init => IInv
<1> SUFFICES ASSUME Init PROVE IInv
  OBVIOUS
<1>1. TrackedOK
  BY DEF Init, TrackedOK, Tracked, Flows
<1>2. FlowsOK
  BY NewFlowInv DEF Init, FlowsOK, Tracked
<1> QED  BY <1>1, <1>2 DEF IInv

\* Every step keeps every flow.
LEMMA NextFlows == IInv /\ [Next]_vars => IInv'
<1> SUFFICES ASSUME IInv, [Next]_vars PROVE IInv'
  OBVIOUS
<1>1. ASSUME NEW f \in ClosedLoopFlows, TrackNewFlow(f) PROVE IInv'
  <2>1. /\ flows' = [g \in Tracked \cup {f} |->
                       IF g = f THEN NewFlow ELSE flows[g]]
        /\ spoofed' = {}
    BY <1>1 DEF TrackNewFlow
  <2>2. Tracked' = Tracked \cup {f}
    BY <2>1 DEF Tracked
  <2>3. TrackedOK'
    BY <2>1, <2>2 DEF IInv, TrackedOK, Flows
  <2>4. FlowsOK'
    BY <2>1, <2>2, NewFlowInv DEF IInv, FlowsOK
  <2> QED  BY <2>3, <2>4 DEF IInv
<1>2. CASE Moves
  <2>1. PICK f \in Tracked, p \in Packets : Forwards(f, p) \/ Drops(f, p)
    BY <1>2 DEF Moves
  <2>2. TrackedOK /\ FlowsOK
    BY DEF IInv
  <2>3. /\ Tracked' = Tracked
        /\ flows' = [g \in Tracked' |-> flows'[g]]
        /\ \A g \in Tracked \ {f} : flows'[g] = flows[g]
    BY <2>1, <2>2, OthersStay
  <2>4. FlowInv(flows'[f])
    BY <2>1, MoveKeepsFlow
  <2>5. TrackedOK'
    BY <1>2, <2>2, <2>3 DEF TrackedOK, Moves
  <2>6. FlowsOK'
    BY <2>2, <2>3, <2>4 DEF FlowsOK
  <2> QED  BY <2>5, <2>6 DEF IInv
<1>3. CASE Tick
  <2>1. /\ flows' = [f \in Tracked |-> AgeDrops(flows[f])]
        /\ spoofed' = {}
    BY <1>3 DEF Tick
  <2>2. Tracked' = Tracked
    BY <2>1 DEF Tracked
  <2>3. TrackedOK'
    BY <2>1, <2>2 DEF IInv, TrackedOK
  <2>4. FlowsOK'
    BY <2>1, <2>2, AgeDropsKeepsInv DEF IInv, FlowsOK
  <2> QED  BY <2>3, <2>4 DEF IInv
<1>4. CASE UNCHANGED vars
  BY <1>4 DEF vars, IInv, TrackedOK, FlowsOK, Tracked
<1> QED  BY <1>1, <1>2, <1>3, <1>4, NextMoves

\* The invariant of a flow holds of every flow that Penny tracks: for each, the
\* counters, snapshots, maps and lists agree, and nothing is dropped twice.
THEOREM Invariance == Spec => []IInv
  BY InitFlows, NextFlows, PTL DEF Spec

-------------------------------------------------------------------------------
(***************************************************************************)
(* PennyFlow brings operators of its own of the same definitions; for the  *)
(* prover they have to be shown equal to those that Penny uses.            *)
(***************************************************************************)
\* Equal sizes of sets.
LEMMA SameCardinality ==
  ASSUME NEW f, NEW S
  PROVE  Flow(f)!Cardinality(S) = Cardinality(S)
  BY Zenon DEF Cardinality, Flow!Cardinality

\* The same new flow.
LEMMA SameNewFlow ==
  ASSUME NEW f
  PROVE  Flow(f)!NewFlow = NewFlow
  BY DEF NewFlow, Flow!NewFlow, NoCounters, Flow!NoCounters,
         NoLists, Flow!NoLists, NoTotals, Flow!NoTotals

\* The same step of the clock.
LEMMA SameAgeDrops ==
  ASSUME NEW f, NEW x
  PROVE  Flow(f)!AgeDrops(x) = AgeDrops(x)
  BY DEF AgeDrops, Flow!AgeDrops, AgeCap, Flow!AgeCap

\* The same test of what may be dropped, and the same highestSeq after it.
LEMMA SameUnique ==
  ASSUME NEW f, NEW x, NEW p
  PROVE  /\ Flow(f)!IsPayloadUnique(x, p) = IsPayloadUnique(x, p)
         /\ Flow(f)!IsOutOfSequence(x, p) = IsOutOfSequence(x, p)
         /\ Flow(f)!IsDroppable(x, p) = IsDroppable(x, p)
         /\ Flow(f)!ObserveSeq(x, p) = ObserveSeq(x, p)
  BY DEF IsPayloadUnique, Flow!IsPayloadUnique, Overlaps, Flow!Overlaps,
         Interval, Flow!Interval, IsOutOfSequence, Flow!IsOutOfSequence,
         IsDroppable, Flow!IsDroppable, ObserveSeq, Flow!ObserveSeq

\* The same drops expire, in the flow and in its snapshots.
LEMMA SameTimeouts ==
  ASSUME NEW f, NEW x
  PROVE  Flow(f)!CheckPacketDropTimeouts(x) = CheckPacketDropTimeouts(x)
<1>1. Flow(f)!ExpiredDrops(x) = ExpiredDrops(x)
  BY DEF ExpiredDrops, Flow!ExpiredDrops, Grace, Flow!Grace,
         SeqOf, Flow!SeqOf
<1>2. ASSUME NEW s, NEW k, NEW E
      PROVE  Flow(f)!SettledUpTo(s, k, E) = SettledUpTo(s, k, E)
  BY DEF SettledUpTo, Flow!SettledUpTo, DroppedUpTo, Flow!DroppedUpTo
<1>3. ASSUME NEW c, NEW n
      PROVE  Flow(f)!CountExpired(c, n) = CountExpired(c, n)
  BY DEF CountExpired, Flow!CountExpired
<1>4. ASSUME NEW s, NEW E
      PROVE  Flow(f)!ExpireSnapshots(s, E) = ExpireSnapshots(s, E)
  BY SameCardinality
     DEF ExpireSnapshots, Flow!ExpireSnapshots, CountExpired,
         Flow!CountExpired, SettledUpTo, Flow!SettledUpTo,
         DroppedUpTo, Flow!DroppedUpTo
<1> QED  BY <1>1, <1>2, <1>3, <1>4, SameCardinality
         DEF CheckPacketDropTimeouts, Flow!CheckPacketDropTimeouts

\* A packet is accounted for in the same way.
LEMMA SameAccount ==
  ASSUME NEW f, NEW x, NEW p, NEW unique
  PROVE  Flow(f)!Account(x, p, unique) = Account(x, p, unique)
<1>1. Flow(f)!AddPayload(x, p) = AddPayload(x, p)
  BY DEF AddPayload, Flow!AddPayload, Interval, Flow!Interval
<1>2. Flow(f)!CountDuplicate(x, p) = CountDuplicate(x, p)
  BY DEF CountDuplicate, Flow!CountDuplicate,
         DuplicateSnapshots, Flow!DuplicateSnapshots
<1>3. ASSUME NEW id
      PROVE  Flow(f)!ObserveRetransmission(x, id) = ObserveRetransmission(x, id)
  BY DEF ObserveRetransmission, Flow!ObserveRetransmission,
         CountRetransmitted, Flow!CountRetransmitted,
         RetransmitSnapshots, Flow!RetransmitSnapshots,
         SettledUpTo, Flow!SettledUpTo, DroppedUpTo, Flow!DroppedUpTo
<1>4. /\ Flow(f)!PacketId(p) = PacketId(p)
      /\ \A id : Flow(f)!AwaitsRetransmission(x, id)
                   = AwaitsRetransmission(x, id)
  BY DEF PacketId, Flow!PacketId,
         AwaitsRetransmission, Flow!AwaitsRetransmission
<1> QED  BY <1>1, <1>2, <1>3, <1>4 DEF Account, Flow!Account

\* The same snapshot is the valid one.
LEMMA SameValidSnapshot ==
  ASSUME NEW f, NEW x
  PROVE  Flow(f)!CheckForNewValidSnapshot(x) = CheckForNewValidSnapshot(x)
  BY Zenon DEF CheckForNewValidSnapshot, Flow!CheckForNewValidSnapshot,
               SettledSnapshots, Flow!SettledSnapshots,
               Totals, Flow!Totals, Max, Flow!Max

\* Hence pennyFlow::processPacket is the same.
LEMMA SameProcessPacket ==
  ASSUME NEW f, NEW x, NEW p
  PROVE  Flow(f)!ProcessPacket(x, p) = ProcessPacket(x, p)
  BY SameUnique, SameTimeouts, SameAccount, SameValidSnapshot
     DEF ProcessPacket, Flow!ProcessPacket

\* The same verdict on a flow.
LEMMA SameVerdict ==
  ASSUME NEW f, NEW x
  PROVE  Flow(f)!EvaluateHypotheses(x) = EvaluateHypotheses(x)
<1>1. Flow(f)!GetFlowState(x) = GetFlowState(x)
  BY DEF GetFlowState, Flow!GetFlowState, Totals, Flow!Totals
<1>2. ASSUME NEW c
      PROVE  /\ Flow(f)!FDupNumerator(c) = FDupNumerator(c)
             /\ Flow(f)!FDupDenominator(c) = FDupDenominator(c)
             /\ Flow(f)!BelowMinimum(c) = BelowMinimum(c)
  BY DEF FDupNumerator, Flow!FDupNumerator,
         FDupDenominator, Flow!FDupDenominator,
         BelowMinimum, Flow!BelowMinimum
<1>3. ASSUME NEW c
      PROVE  Flow(f)!H1(c) = H1(c) /\ Flow(f)!H2(c) = H2(c)
  <2>1. ASSUME NEW b, NEW k PROVE Flow(f)!Power(b, k) = Power(b, k)
    BY DEF Power, Flow!Power, PowersOf, Flow!PowersOf
  <2> QED  BY <1>2, <2>1 DEF H1, Flow!H1, H2, Flow!H2
<1>4. ASSUME NEW c
      PROVE  /\ Flow(f)!TooManyDuplicates(c) = TooManyDuplicates(c)
             /\ Flow(f)!Weigh(c) = Weigh(c)
  BY <1>2, <1>3 DEF TooManyDuplicates, Flow!TooManyDuplicates,
                    Weigh, Flow!Weigh
<1>5. ASSUME NEW c PROVE Flow(f)!Verdict(c) = Verdict(c)
  BY <1>2, <1>4 DEF Verdict, Flow!Verdict
<1> QED  BY <1>1, <1>5 DEF EvaluateHypotheses, Flow!EvaluateHypotheses

\* The same drops are allowed, and done alike.
LEMMA SameDrop ==
  ASSUME NEW f, NEW x, NEW p
  PROVE  /\ Flow(f)!DropMorePackets(x) = DropMorePackets(x)
         /\ Flow(f)!DropPacket(x, p) = DropPacket(x, p)
<1>1. Flow(f)!DropMorePackets(x) = DropMorePackets(x)
  BY DEF DropMorePackets, Flow!DropMorePackets
<1>2. Flow(f)!DropPacket(x, p) = DropPacket(x, p)
  BY DEF DropPacket, Flow!DropPacket, PacketId, Flow!PacketId
<1> QED  BY <1>1, <1>2

\* A step of Penny is, for each flow, a step of that flow or none.
LEMMA FlowSteps ==
  ASSUME IInv, [Next]_vars, NEW f \in Flows
  PROVE  UNCHANGED FlowOf(f) \/ Flow(f)!Next
<1>1. ASSUME NEW g \in ClosedLoopFlows, TrackNewFlow(g)
      PROVE  UNCHANGED FlowOf(f)
  <2>1. /\ g \notin Tracked
        /\ flows' = [h \in Tracked \cup {g} |->
                       IF h = g THEN NewFlow ELSE flows[h]]
    BY <1>1 DEF TrackNewFlow
  <2>2. Tracked' = Tracked \cup {g}
    BY <2>1 DEF Tracked
  <2> QED  BY <2>1, <2>2 DEF FlowOf
<1>2. CASE Moves
  <2>1. PICK g \in Tracked, p \in Packets : Forwards(g, p) \/ Drops(g, p)
    BY <1>2 DEF Moves
  <2>2. TrackedOK
    BY DEF IInv
  <2>3. Tracked' = Tracked /\ \A h \in Tracked \ {g} : flows'[h] = flows[h]
    BY <2>1, <2>2, OthersStay
  <2>4. CASE f # g
    BY <2>3, <2>4 DEF FlowOf
  <2>5. CASE f = g
    <3>1. FlowOf(f) = flows[f] /\ FlowOf(f)' = flows'[f]
      BY <2>3, <2>5 DEF FlowOf
    <3>2. CASE Forwards(f, p)
      <4>1. flows'[f] = ProcessPacket(flows[f], p)
        BY <2>2, <2>5, <3>2 DEF Forwards, Becomes, TrackedOK
      <4>2. Flow(f)!Forward(p)
        BY <3>1, <3>2, <4>1, SameProcessPacket DEF Flow!Forward, Forwards
      <4> QED  BY <4>2 DEF Flow!Next
    <3>3. CASE Drops(f, p)
      <4>1. flows'[f] = DropPacket(ProcessPacket(flows[f], p), p)
        BY <2>2, <2>5, <3>3 DEF Drops, Becomes, TrackedOK
      <4>2. Flow(f)!Drop(p)
        BY <3>1, <3>3, <4>1, SameProcessPacket, SameUnique, SameVerdict,
           SameDrop
           DEF Flow!Drop, Drops
      <4> QED  BY <4>2 DEF Flow!Next
    <3> QED  BY <2>1, <2>5, <3>2, <3>3
  <2> QED  BY <2>4, <2>5
<1>3. CASE Tick
  <2>1. flows' = [h \in Tracked |-> AgeDrops(flows[h])]
    BY <1>3 DEF Tick
  <2>2. Tracked' = Tracked
    BY <2>1 DEF Tracked
  <2>3. CASE f \in Tracked
    <3>1. FlowOf(f) = flows[f] /\ FlowOf(f)' = flows'[f]
      BY <2>2, <2>3 DEF FlowOf
    <3>2. Flow(f)!Tick
      BY <2>1, <2>3, <3>1, SameAgeDrops DEF Flow!Tick
    <3> QED  BY <3>2 DEF Flow!Next
  <2>4. CASE f \notin Tracked
    BY <2>2, <2>4 DEF FlowOf
  <2> QED  BY <2>3, <2>4
<1>4. CASE UNCHANGED vars
  BY <1>4 DEF vars, FlowOf, Tracked
<1> QED  BY <1>1, <1>2, <1>3, <1>4, NextMoves

\* Penny keeps every flow as pennyFlow does on its own.
THEOREM FlowsAlone == Spec => FlowsRunAlone
<1>1. Init => \A f \in Flows : Flow(f)!Init
  BY SameNewFlow DEF Init, Flow!Init, FlowOf, Tracked
<1>2. IInv /\ [Next]_vars
        => [\A f \in Flows : UNCHANGED FlowOf(f) \/ Flow(f)!Next]_flows
  BY FlowSteps
<1>3. Init /\ []IInv /\ [][Next]_vars
        => /\ \A f \in Flows : Flow(f)!Init
           /\ [][\A f \in Flows : UNCHANGED FlowOf(f) \/ Flow(f)!Next]_flows
  BY <1>1, <1>2, PTL
<1> QED  BY <1>3, Invariance DEF Spec, FlowsRunAlone

-------------------------------------------------------------------------------
(***************************************************************************)
(* Proofs about Penny's aggregate snapshots, for all sets of flows and     *)
(* packets, time-outs, budgets and limits.  A snapshot is taken from the   *)
(* flows by adding up their counters; it is then settled drop by drop.     *)
(* What is preserved by each of the three updates is that its counters     *)
(* are the sums of the sizes of its lists, SnapshotOK; what orders the     *)
(* snapshots is that only a front is ever settled, LaterUnsettled.         *)
(***************************************************************************)

\* The lists l of a snapshot say no more of a flow than its own lists m.
ListsWithin(l, m) ==
  /\ l.droppedPcksList \subseteq m.droppedPcksList
  /\ l.expiredPcksList \subseteq l.droppedPcksList \cap m.expiredPcksList
  /\ l.retransmittedPktsList
       \subseteq l.droppedPcksList \cap m.retransmittedPktsList

\* The counters of a snapshot are the sizes of its lists, added up.
CountersAreTotals(s) ==
  LET c == s.counters IN
  /\ c.droppedPkts = Total(s, LAMBDA l : l.droppedPcksList)
  /\ c.notSeenDroppedPkts = Total(s, LAMBDA l : l.expiredPcksList)
  /\ c.retransmittedDroppedPkts = Total(s, LAMBDA l : l.retransmittedPktsList)
  /\ c.pendingDroppedPkts
       = c.droppedPkts - c.notSeenDroppedPkts - c.retransmittedDroppedPkts

\* A snapshot of the flows in fm.
SnapshotOK(s, fm) ==
  /\ s \in AggrSnapshot(DOMAIN s.lists)
  /\ s.flowId \in DOMAIN s.lists
  /\ DOMAIN s.lists \subseteq DOMAIN fm
  /\ \A g \in DOMAIN s.lists : ListsWithin(s.lists[g], fm[g].metaLists)
  /\ CountersAreTotals(s)

\* Drop id of flow g is known to snapshot s and not settled in it.
UnsettledIn(s, g, id) ==
  /\ g \in DOMAIN s.lists
  /\ id \in s.lists[g].droppedPcksList
  /\ id \notin s.lists[g].expiredPcksList
  /\ id \notin s.lists[g].retransmittedPktsList

\* How many of the first k are of flow f.
CountOf(all, f, k) == Cardinality({j \in 1..k : all[j].flowId = f})

\* AggregatesFollowDrops, of the flows in fm.
Follows(all, fm, individually) ==
  \A f \in DOMAIN fm :
    LET drops == fm[f].counterSnapsList IN
    /\ \A k \in 1..Len(all) :
         all[k].flowId = f =>
           /\ CountOf(all, f, k) <= Len(drops)
           /\ all[k].packetId = drops[CountOf(all, f, k)].packetId
    /\ ~individually => CountOf(all, f, Len(all)) = Len(drops)

\* The flows in fm are as FlowInv says.
FlowsGood(fm) ==
  /\ IsFiniteSet(DOMAIN fm)
  /\ \A g \in DOMAIN fm : FlowInv(fm[g])

\* Each snapshot is of the flows in fm, counts the drops up to its own, and
\* knows of the flows of all of them.
AllOK(all, fm) ==
  /\ \A k \in 1..Len(all) : /\ SnapshotOK(all[k], fm)
                            /\ all[k].counters.droppedPkts = k
  /\ \A j, k \in 1..Len(all) : j <= k => all[j].flowId \in DOMAIN all[k].lists

\* Until individual flows are examined, every drop has a snapshot.
WithinBudget(all, fm, individually) ==
  ~individually => /\ SumCounters(fm).droppedPkts = Len(all)
                   /\ Len(all) <= MaxPacketDrops

AnySnapshot == UNION {AggrSnapshot(t) : t \in SUBSET Flows}

\* What holds of the snapshots all of the flows in fm, whichever of the two
\* lists they are in.
Ordered(all, fm, individually) ==
  /\ FlowsGood(fm)
  /\ DOMAIN fm \subseteq Flows
  /\ individually \in BOOLEAN
  /\ all \in Seq(AnySnapshot)
  /\ AllOK(all, fm)
  /\ Follows(all, fm, individually)
  /\ WithinBudget(all, fm, individually)

\* The drop of a snapshot is settled only when the snapshot is at the front.
LaterUnsettled ==
  \A k \in DOMAIN pendingDropSnapsList :
    LET s == pendingDropSnapsList[k] IN
    k > 1 => UnsettledIn(s, s.flowId, s.packetId)

\* When a run is finished no snapshot can be judged in the call that is left.
FrontUnsettled ==
  finished /\ spoofed # {} /\ pendingDropSnapsList # <<>> =>
    Head(pendingDropSnapsList).counters.pendingDroppedPkts # 0

VerdictsOK ==
  LET verdict(k) == Verdict(evaluatedSnapsList[k].counters) IN
  /\ indivFlowsEnabled \in BOOLEAN
  /\ finished \in BOOLEAN
  /\ finalOutcome \in Verdicts
  /\ indivFlowsClosedLoop = {}
  /\ \A k \in DOMAIN evaluatedSnapsList :
       /\ k < Len(evaluatedSnapsList) => verdict(k) = "NoDecision"
       /\ ~finished /\ ~indivFlowsEnabled => verdict(k) = "NoDecision"
  /\ finished => /\ ~indivFlowsEnabled
                 /\ evaluatedSnapsList # <<>>
                 /\ finalOutcome = verdict(Len(evaluatedSnapsList))

\* The inductive invariant.
AggrInv ==
  /\ IInv
  /\ evaluatedSnapsList \in Seq(AnySnapshot)
  /\ pendingDropSnapsList \in Seq(AnySnapshot)
  /\ Ordered(AllSnapshots, flows, indivFlowsEnabled)
  /\ EvaluatedAreSettled
  /\ LaterUnsettled
  /\ FrontUnsettled
  /\ VerdictsOK

-------------------------------------------------------------------------------
(***************************************************************************)
(* The sums.                                                               *)
(***************************************************************************)
\* What the totals of a snapshot with these lists add up.
DroppedSizes(lists) ==
  [g \in DOMAIN lists |-> Cardinality(lists[g].droppedPcksList)]
ExpiredSizes(lists) ==
  [g \in DOMAIN lists |-> Cardinality(lists[g].expiredPcksList)]
RetransmittedSizes(lists) ==
  [g \in DOMAIN lists |-> Cardinality(lists[g].retransmittedPktsList)]

\* The totals are sums over the flows of the snapshot.
LEMMA TotalsAreSums ==
  ASSUME NEW s
  PROVE  /\ Total(s, LAMBDA l : l.droppedPcksList)
              = SumFunctionOnSet(DroppedSizes(s.lists), DOMAIN s.lists)
         /\ Total(s, LAMBDA l : l.expiredPcksList)
              = SumFunctionOnSet(ExpiredSizes(s.lists), DOMAIN s.lists)
         /\ Total(s, LAMBDA l : l.retransmittedPktsList)
              = SumFunctionOnSet(RetransmittedSizes(s.lists), DOMAIN s.lists)
<1>1. /\ DOMAIN DroppedSizes(s.lists) = DOMAIN s.lists
      /\ DOMAIN ExpiredSizes(s.lists) = DOMAIN s.lists
      /\ DOMAIN RetransmittedSizes(s.lists) = DOMAIN s.lists
  BY DEF DroppedSizes, ExpiredSizes, RetransmittedSizes
<1>2. /\ Total(s, LAMBDA l : l.droppedPcksList)
            = SumFunction(DroppedSizes(s.lists))
      /\ Total(s, LAMBDA l : l.expiredPcksList)
            = SumFunction(ExpiredSizes(s.lists))
      /\ Total(s, LAMBDA l : l.retransmittedPktsList)
            = SumFunction(RetransmittedSizes(s.lists))
  BY Zenon DEF Total, DroppedSizes, ExpiredSizes, RetransmittedSizes
<1> QED  BY <1>1, <1>2, Zenon DEF SumFunction

\* So a snapshot's counters are the totals of its lists when they are the sums.
CountersAreSums(c, lists) ==
  LET D == DOMAIN lists IN
  /\ c.droppedPkts = SumFunctionOnSet(DroppedSizes(lists), D)
  /\ c.notSeenDroppedPkts = SumFunctionOnSet(ExpiredSizes(lists), D)
  /\ c.retransmittedDroppedPkts
       = SumFunctionOnSet(RetransmittedSizes(lists), D)
  /\ c.pendingDroppedPkts
       = c.droppedPkts - c.notSeenDroppedPkts - c.retransmittedDroppedPkts

\* The two say the same.
LEMMA TotalsOrSums ==
  ASSUME NEW s
  PROVE  CountersAreTotals(s) <=> CountersAreSums(s.counters, s.lists)
  BY TotalsAreSums, Zenon DEF CountersAreTotals, CountersAreSums

\* Finite lists of finitely many flows, in which a drop is settled one way.
ListsFinite(lists) ==
  /\ IsFiniteSet(DOMAIN lists)
  /\ \A g \in DOMAIN lists :
       /\ IsFiniteSet(lists[g].droppedPcksList)
       /\ lists[g].expiredPcksList \subseteq lists[g].droppedPcksList
       /\ lists[g].retransmittedPktsList \subseteq lists[g].droppedPcksList
       /\ lists[g].expiredPcksList \cap lists[g].retransmittedPktsList = {}

\* The sizes of such lists.
LEMMA ListSizes ==
  ASSUME NEW lists, ListsFinite(lists), NEW g \in DOMAIN lists
  PROVE  LET l == lists[g]
             unsettled == l.droppedPcksList
                            \ (l.expiredPcksList \cup l.retransmittedPktsList)
         IN
         /\ IsFiniteSet(l.expiredPcksList)
         /\ IsFiniteSet(l.retransmittedPktsList)
         /\ IsFiniteSet(unsettled)
         /\ DroppedSizes(lists)[g] \in Nat
         /\ ExpiredSizes(lists)[g] \in Nat
         /\ RetransmittedSizes(lists)[g] \in Nat
         /\ Cardinality(unsettled) \in Nat
         /\ DroppedSizes(lists)[g]
              = Cardinality(unsettled)
                  + (ExpiredSizes(lists)[g] + RetransmittedSizes(lists)[g])
<1> DEFINE d == lists[g].droppedPcksList
           x == lists[g].expiredPcksList
           r == lists[g].retransmittedPktsList
<1>1. IsFiniteSet(d) /\ x \subseteq d /\ r \subseteq d /\ x \cap r = {}
  BY DEF ListsFinite
<1>2. /\ DroppedSizes(lists)[g] = Cardinality(d)
      /\ ExpiredSizes(lists)[g] = Cardinality(x)
      /\ RetransmittedSizes(lists)[g] = Cardinality(r)
  BY DEF DroppedSizes, ExpiredSizes, RetransmittedSizes
<1> HIDE DEF d, x, r
<1>3. /\ IsFiniteSet(x) /\ IsFiniteSet(r) /\ IsFiniteSet(x \cup r)
      /\ IsFiniteSet(d \ (x \cup r))
  BY <1>1, FS_Subset
<1>4. /\ Cardinality(x \cup r) = Cardinality(x) + Cardinality(r)
      /\ Cardinality(x) \in Nat /\ Cardinality(r) \in Nat
  BY <1>1, <1>3, DisjointUnion
<1>5. (d \ (x \cup r)) \cap (x \cup r) = {} /\ (d \ (x \cup r)) \cup (x \cup r) = d
  BY <1>1
<1>6. /\ Cardinality(d) = Cardinality(d \ (x \cup r)) + Cardinality(x \cup r)
      /\ Cardinality(d \ (x \cup r)) \in Nat
  BY <1>3, <1>5, DisjointUnion
<1>7. /\ Cardinality(d) \in Nat
      /\ Cardinality(d)
           = Cardinality(d \ (x \cup r)) + (Cardinality(x) + Cardinality(r))
  BY <1>4, <1>6
<1> QED  BY <1>2, <1>3, <1>4, <1>6, <1>7 DEF d, x, r

\* What is neither expired nor retransmitted is pending, on all flows together.
LEMMA PendingSum ==
  ASSUME NEW lists, ListsFinite(lists)
  PROVE  LET D == DOMAIN lists
             dropped == SumFunctionOnSet(DroppedSizes(lists), D)
             expired == SumFunctionOnSet(ExpiredSizes(lists), D)
             retransmitted == SumFunctionOnSet(RetransmittedSizes(lists), D)
         IN
         /\ dropped \in Nat /\ expired \in Nat /\ retransmitted \in Nat
         /\ dropped - expired - retransmitted \in Nat
         /\ dropped - expired - retransmitted = 0 <=>
              \A g \in D : lists[g].droppedPcksList
                             \subseteq lists[g].expiredPcksList
                                         \cup lists[g].retransmittedPktsList
<1> DEFINE D == DOMAIN lists
           rest(g) == lists[g].droppedPcksList
                        \ (lists[g].expiredPcksList
                             \cup lists[g].retransmittedPktsList)
           u == [g \in D |-> Cardinality(rest(g))]
           d == DroppedSizes(lists)
           x == ExpiredSizes(lists)
           r == RetransmittedSizes(lists)
<1>1. IsFiniteSet(D)
  BY DEF ListsFinite
<1>2. Splits(D, d, u, x, r)
  BY ListSizes DEF Splits
<1>3. \A g \in D : u[g] = 0 <=> rest(g) = {}
  <2>1. \A g \in D : IsFiniteSet(rest(g))
    BY ListSizes
  <2> HIDE DEF rest
  <2> QED  BY <2>1, FS_EmptySet
<1> HIDE DEF D, d, x, r, u
<1>4. LET left == SumFunctionOnSet(d, D)
                    - SumFunctionOnSet(x, D) - SumFunctionOnSet(r, D)
      IN
      /\ SumFunctionOnSet(d, D) \in Nat
      /\ SumFunctionOnSet(x, D) \in Nat
      /\ SumFunctionOnSet(r, D) \in Nat
      /\ left \in Nat
      /\ left = 0 <=> \A g \in D : u[g] = 0
  BY <1>1, <1>2, SumSplits
<1>5. (\A g \in D : u[g] = 0) <=>
        \A g \in D : lists[g].droppedPcksList
                       \subseteq lists[g].expiredPcksList
                                   \cup lists[g].retransmittedPktsList
  BY <1>3 DEF D
<1> QED  BY <1>4, <1>5 DEF D, d, x, r

-------------------------------------------------------------------------------
(***************************************************************************)
(* One snapshot.                                                           *)
(***************************************************************************)
\* The lists of a flow that is as FlowInv says.
LEMMA FlowLists ==
  ASSUME NEW f, FlowInv(f)
  PROVE  /\ f.metaLists \in MetaLists
         /\ IsFiniteSet(f.metaLists.droppedPcksList)
         /\ f.metaLists.expiredPcksList \subseteq f.metaLists.droppedPcksList
         /\ f.metaLists.retransmittedPktsList
              \subseteq f.metaLists.droppedPcksList
         /\ f.metaLists.expiredPcksList
              \cap f.metaLists.retransmittedPktsList = {}
<1>1. FlowTypeOK(f) /\ SnapshotsDescribeDrops(f) /\ MapsOfFlowAgree(f)
  BY DEF FlowInv
<1>2. f.counterSnapsList \in Seq(Snapshot) /\ f.metaLists \in MetaLists
  BY <1>1 DEF FlowTypeOK
<1>3. IsFiniteSet(Known(f, Len(f.counterSnapsList)))
  BY <1>2, DroppedUpToFinite DEF Known
<1>4. Describes(f, f.curCounters, f.metaLists,
                Known(f, Len(f.counterSnapsList)))
  BY <1>1 DEF SnapshotsDescribeDrops
<1> QED  BY <1>1, <1>2, <1>3, <1>4 DEF Describes, MapsOfFlowAgree

\* The lists of a snapshot of such flows.
LEMMA SnapshotLists ==
  ASSUME NEW fm, FlowsGood(fm), NEW s, SnapshotOK(s, fm)
  PROVE  ListsFinite(s.lists)
<1>1. IsFiniteSet(DOMAIN s.lists)
  BY FS_Subset DEF SnapshotOK, FlowsGood
<1>2. ASSUME NEW g \in DOMAIN s.lists
      PROVE  /\ IsFiniteSet(s.lists[g].droppedPcksList)
             /\ s.lists[g].expiredPcksList \subseteq s.lists[g].droppedPcksList
             /\ s.lists[g].retransmittedPktsList
                  \subseteq s.lists[g].droppedPcksList
             /\ s.lists[g].expiredPcksList
                  \cap s.lists[g].retransmittedPktsList = {}
  <2>1. ListsWithin(s.lists[g], fm[g].metaLists) /\ FlowInv(fm[g])
    BY DEF SnapshotOK, FlowsGood
  <2>2. /\ IsFiniteSet(fm[g].metaLists.droppedPcksList)
        /\ fm[g].metaLists.expiredPcksList
             \cap fm[g].metaLists.retransmittedPktsList = {}
    BY <2>1, FlowLists
  <2> QED  BY <2>1, <2>2, FS_Subset DEF ListsWithin
<1> QED  BY <1>1, <1>2 DEF ListsFinite

\* What a snapshot says is pending is what its lists leave unsettled.
LEMMA PendingIsUnsettled ==
  ASSUME NEW fm, FlowsGood(fm), NEW s, SnapshotOK(s, fm)
  PROVE  /\ s.counters.pendingDroppedPkts \in Nat
         /\ s.counters.pendingDroppedPkts = 0 <=>
              \A g \in DOMAIN s.lists :
                \A id \in s.lists[g].droppedPcksList : ~UnsettledIn(s, g, id)
<1>1. ListsFinite(s.lists)
  BY SnapshotLists
<1>2. LET D == DOMAIN s.lists
          left == SumFunctionOnSet(DroppedSizes(s.lists), D)
                    - SumFunctionOnSet(ExpiredSizes(s.lists), D)
                    - SumFunctionOnSet(RetransmittedSizes(s.lists), D)
      IN  s.counters.pendingDroppedPkts = left
  BY TotalsAreSums DEF SnapshotOK, CountersAreTotals
<1>3. /\ s.counters.pendingDroppedPkts \in Nat
      /\ s.counters.pendingDroppedPkts = 0 <=>
           \A g \in DOMAIN s.lists :
             s.lists[g].droppedPcksList
               \subseteq s.lists[g].expiredPcksList
                           \cup s.lists[g].retransmittedPktsList
  BY <1>1, <1>2, PendingSum
<1> QED  BY <1>3 DEF UnsettledIn

\* As the flows go on a snapshot of them stays one.
Grows(fm, fn) ==
  /\ DOMAIN fm \subseteq DOMAIN fn
  /\ \A g \in DOMAIN fm :
       LET l == fm[g].metaLists
           m == fn[g].metaLists
       IN
       /\ l.droppedPcksList \subseteq m.droppedPcksList
       /\ l.expiredPcksList \subseteq m.expiredPcksList
       /\ l.retransmittedPktsList \subseteq m.retransmittedPktsList

\* Its lists say less and less of theirs, but nothing else.
LEMMA SnapshotStaysOK ==
  ASSUME NEW fm, NEW fn, Grows(fm, fn), NEW s, SnapshotOK(s, fm)
  PROVE  SnapshotOK(s, fn)
<1>1. ASSUME NEW g \in DOMAIN s.lists
      PROVE  ListsWithin(s.lists[g], fn[g].metaLists)
  BY DEF Grows, SnapshotOK, ListsWithin
<1> QED  BY <1>1 DEF Grows, SnapshotOK

-------------------------------------------------------------------------------
(***************************************************************************)
(* The updates of one snapshot.                                            *)
(***************************************************************************)
\* Since s, no drop but drop id of flow g has been settled in snapshot t.
SettlesAt(s, t, g, id) ==
  /\ t.packetId = s.packetId
  /\ t.flowId = s.flowId
  /\ t.counters.droppedPkts = s.counters.droppedPkts
  /\ DOMAIN t.lists = DOMAIN s.lists
  /\ \A h \in DOMAIN s.lists :
       LET l == s.lists[h]
           m == t.lists[h]
           here == IF h = g THEN {id} ELSE {}
       IN
       /\ m.droppedPcksList = l.droppedPcksList
       /\ l.expiredPcksList \subseteq m.expiredPcksList
       /\ m.expiredPcksList \subseteq l.expiredPcksList \cup here
       /\ l.retransmittedPktsList \subseteq m.retransmittedPktsList
       /\ m.retransmittedPktsList \subseteq l.retransmittedPktsList \cup here

\* The sizes of the lists are integers.
LEMMA SizesAreNat ==
  ASSUME NEW lists, ListsFinite(lists), NEW h \in DOMAIN lists
  PROVE  /\ DroppedSizes(lists)[h] \in Int
         /\ ExpiredSizes(lists)[h] \in Int
         /\ RetransmittedSizes(lists)[h] \in Int
<1>1. /\ DroppedSizes(lists)[h] \in Nat
      /\ ExpiredSizes(lists)[h] \in Nat
      /\ RetransmittedSizes(lists)[h] \in Nat
  BY ListSizes
<1> QED  BY <1>1

\* penny::checkAndUpdateExpired keeps the counters the totals of the lists.
LEMMA UpdateExpiredOK ==
  ASSUME NEW fm, FlowsGood(fm), NEW s, SnapshotOK(s, fm),
         NEW acs, acs.flowId \in DOMAIN s.lists
  PROVE  /\ SnapshotOK(UpdateExpired(s, acs, fm), fm)
         /\ SettlesAt(s, UpdateExpired(s, acs, fm), acs.flowId, acs.packetId)
<1> DEFINE g == acs.flowId
           id == acs.packetId
           l == s.lists
           D == DOMAIN l
           t == UpdateExpired(s, acs, fm)
           m == [l EXCEPT ![g].expiredPcksList = @ \cup {id}]
           settles == /\ id \in fm[g].metaLists.expiredPcksList
                      /\ id \notin l[g].expiredPcksList
                      /\ id \in l[g].droppedPcksList
<1>1. CASE ~settles
  <2>1. t = s
    BY <1>1 DEF UpdateExpired, Includes
  <2> QED  BY <2>1 DEF SettlesAt
<1>2. CASE settles
  <2>1. /\ s \in AggrSnapshot(D) /\ s.counters \in Counters
        /\ l \in [D -> MetaLists] /\ ListsFinite(l)
    BY SnapshotLists DEF SnapshotOK, AggrSnapshot
  <2>2. /\ t = [s EXCEPT !.counters = CountExpired(s.counters, 1), !.lists = m]
        /\ t.packetId = s.packetId
        /\ t.flowId = s.flowId
        /\ t.counters = CountExpired(s.counters, 1)
        /\ t.lists = m
    <3>1. t = [s EXCEPT !.counters.notSeenDroppedPkts = @ + 1,
                   !.counters.pendingDroppedPkts = @ - 1,
                   !.lists[g].expiredPcksList = @ \cup {id}]
      BY <1>2 DEF UpdateExpired, Includes
    <3>2. t = [s EXCEPT !.counters = CountExpired(s.counters, 1), !.lists = m]
      BY <2>1, <3>1 DEF CountExpired, AggrSnapshot, Counters
    <3> QED  BY <2>1, <3>2 DEF AggrSnapshot
  <2>3. id \in PacketIds
    BY <1>2, <2>1 DEF MetaLists
  <2>4. /\ DOMAIN m = D
        /\ m \in [D -> MetaLists]
        /\ m[g].expiredPcksList = l[g].expiredPcksList \cup {id}
        /\ m[g].droppedPcksList = l[g].droppedPcksList
        /\ m[g].retransmittedPktsList = l[g].retransmittedPktsList
        /\ \A h \in D \ {g} : m[h] = l[h]
    BY <2>1, <2>3 DEF MetaLists
  <2> HIDE DEF t, m
  <2>5. SettlesAt(s, t, g, id)
    <3>1. t.counters.droppedPkts = s.counters.droppedPkts
      BY <2>1, <2>2, CountExpiredType
    <3> QED  BY <2>2, <2>4, <3>1 DEF SettlesAt
  <2>6. ASSUME NEW h \in D
        PROVE  ListsWithin(m[h], fm[h].metaLists)
    BY <1>2, <2>4 DEF SnapshotOK, ListsWithin
  <2>7. /\ SumFunctionOnSet(DroppedSizes(m), D)
             = SumFunctionOnSet(DroppedSizes(l), D)
        /\ SumFunctionOnSet(RetransmittedSizes(m), D)
             = SumFunctionOnSet(RetransmittedSizes(l), D)
        /\ SumFunctionOnSet(ExpiredSizes(m), D)
             = SumFunctionOnSet(ExpiredSizes(l), D) + 1
    <3>1. /\ DroppedSizes(m) = DroppedSizes(l)
          /\ RetransmittedSizes(m) = RetransmittedSizes(l)
      BY <2>4 DEF DroppedSizes, RetransmittedSizes
    <3>2. IsFiniteSet(l[g].expiredPcksList) /\ IsFiniteSet(D)
      BY <2>1, ListSizes DEF ListsFinite
    <3>3. ExpiredSizes(m)[g] = ExpiredSizes(l)[g] + 1
      BY <1>2, <2>4, <3>2, FS_AddElement DEF ExpiredSizes
    <3>4. /\ \A h \in D \ {g} : ExpiredSizes(m)[h] = ExpiredSizes(l)[h]
          /\ \A h \in D : ExpiredSizes(l)[h] \in Int
      BY <2>1, <2>4, SizesAreNat DEF ExpiredSizes
    <3>5. ChangesAt(D, ExpiredSizes(l), ExpiredSizes(m), g)
      BY <3>3, <3>4 DEF ChangesAt
    <3> DEFINE el == ExpiredSizes(l)
               em == ExpiredSizes(m)
    <3> HIDE DEF el, em, D
    <3>6. SumFunctionOnSet(em, D) = SumFunctionOnSet(el, D) - el[g] + em[g]
      BY <3>2, <3>5, SumChanges DEF el, em, D
    <3>7. SumFunctionOnSet(el, D) \in Int /\ el[g] \in Int
      BY <2>1, <3>4, PendingSum DEF el, D
    <3>8. em[g] = el[g] + 1
      BY <3>3 DEF el, em
    <3>9. SumFunctionOnSet(em, D) = SumFunctionOnSet(el, D) + 1
      BY <3>6, <3>7, <3>8
    <3> QED  BY <3>1, <3>9 DEF el, em
  <2>8. CountersAreTotals(t)
    <3>1. CountersAreSums(s.counters, l)
      BY TotalsOrSums DEF SnapshotOK
    <3>2. LET c == t.counters IN
          /\ c.droppedPkts = SumFunctionOnSet(DroppedSizes(m), D)
          /\ c.notSeenDroppedPkts = SumFunctionOnSet(ExpiredSizes(m), D)
          /\ c.retransmittedDroppedPkts
               = SumFunctionOnSet(RetransmittedSizes(m), D)
      BY <2>1, <2>2, <2>7, <3>1, CountExpiredType DEF CountersAreSums
    <3>3. LET c == t.counters IN
          c.pendingDroppedPkts = c.droppedPkts - c.notSeenDroppedPkts
                                   - c.retransmittedDroppedPkts
      BY <2>1, <2>2, <3>1, CountExpiredType DEF Counters, CountersAreSums
    <3>4. CountersAreSums(t.counters, t.lists)
      BY <2>2, <2>4, <3>2, <3>3 DEF CountersAreSums
    <3> QED  BY <3>4, TotalsOrSums
  <2>9. t \in AggrSnapshot(DOMAIN t.lists)
    <3>1. t.counters \in Counters /\ t.lists \in [D -> MetaLists]
      BY <2>1, <2>2, <2>4, CountExpiredType
    <3> QED  BY <2>1, <2>2, <2>4, <3>1 DEF AggrSnapshot
  <2>10. SnapshotOK(t, fm)
    BY <2>2, <2>4, <2>6, <2>8, <2>9 DEF SnapshotOK
  <2> QED  BY <2>5, <2>10 DEF t
<1> QED  BY <1>1, <1>2

\* penny::checkAndUpdateRetransmitted keeps the counters the totals of the lists.
LEMMA UpdateRetransmittedOK ==
  ASSUME NEW fm, FlowsGood(fm), NEW s, SnapshotOK(s, fm),
         NEW acs, acs.flowId \in DOMAIN s.lists
  PROVE  /\ SnapshotOK(UpdateRetransmitted(s, acs, fm), fm)
         /\ SettlesAt(s, UpdateRetransmitted(s, acs, fm), acs.flowId, acs.packetId)
<1> DEFINE g == acs.flowId
           id == acs.packetId
           l == s.lists
           D == DOMAIN l
           t == UpdateRetransmitted(s, acs, fm)
           m == [l EXCEPT ![g].retransmittedPktsList = @ \cup {id}]
           settles == /\ id \in fm[g].metaLists.retransmittedPktsList
                      /\ id \notin l[g].retransmittedPktsList
                      /\ id \in l[g].droppedPcksList
<1>1. CASE ~settles
  <2>1. t = s
    BY <1>1 DEF UpdateRetransmitted, Includes
  <2> QED  BY <2>1 DEF SettlesAt
<1>2. CASE settles
  <2>1. /\ s \in AggrSnapshot(D) /\ s.counters \in Counters
        /\ l \in [D -> MetaLists] /\ ListsFinite(l)
    BY SnapshotLists DEF SnapshotOK, AggrSnapshot
  <2>2. /\ t = [s EXCEPT !.counters = CountRetransmitted(s.counters), !.lists = m]
        /\ t.packetId = s.packetId
        /\ t.flowId = s.flowId
        /\ t.counters = CountRetransmitted(s.counters)
        /\ t.lists = m
    <3>1. t = [s EXCEPT !.counters.retransmittedDroppedPkts = @ + 1,
                   !.counters.pendingDroppedPkts = @ - 1,
                   !.lists[g].retransmittedPktsList = @ \cup {id}]
      BY <1>2 DEF UpdateRetransmitted, Includes
    <3>2. t = [s EXCEPT !.counters = CountRetransmitted(s.counters), !.lists = m]
      BY <2>1, <3>1 DEF CountRetransmitted, AggrSnapshot, Counters
    <3> QED  BY <2>1, <3>2 DEF AggrSnapshot
  <2>3. id \in PacketIds
    BY <1>2, <2>1 DEF MetaLists
  <2>4. /\ DOMAIN m = D
        /\ m \in [D -> MetaLists]
        /\ m[g].retransmittedPktsList = l[g].retransmittedPktsList \cup {id}
        /\ m[g].droppedPcksList = l[g].droppedPcksList
        /\ m[g].expiredPcksList = l[g].expiredPcksList
        /\ \A h \in D \ {g} : m[h] = l[h]
    BY <2>1, <2>3 DEF MetaLists
  <2> HIDE DEF t, m
  <2>5. SettlesAt(s, t, g, id)
    <3>1. t.counters.droppedPkts = s.counters.droppedPkts
      BY <2>1, <2>2, CountRetransmittedType
    <3> QED  BY <2>2, <2>4, <3>1 DEF SettlesAt
  <2>6. ASSUME NEW h \in D
        PROVE  ListsWithin(m[h], fm[h].metaLists)
    BY <1>2, <2>4 DEF SnapshotOK, ListsWithin
  <2>7. /\ SumFunctionOnSet(DroppedSizes(m), D)
             = SumFunctionOnSet(DroppedSizes(l), D)
        /\ SumFunctionOnSet(ExpiredSizes(m), D)
             = SumFunctionOnSet(ExpiredSizes(l), D)
        /\ SumFunctionOnSet(RetransmittedSizes(m), D)
             = SumFunctionOnSet(RetransmittedSizes(l), D) + 1
    <3>1. /\ DroppedSizes(m) = DroppedSizes(l)
          /\ ExpiredSizes(m) = ExpiredSizes(l)
      BY <2>4 DEF DroppedSizes, ExpiredSizes
    <3>2. IsFiniteSet(l[g].retransmittedPktsList) /\ IsFiniteSet(D)
      BY <2>1, ListSizes DEF ListsFinite
    <3>3. RetransmittedSizes(m)[g] = RetransmittedSizes(l)[g] + 1
      BY <1>2, <2>4, <3>2, FS_AddElement DEF RetransmittedSizes
    <3>4. /\ \A h \in D \ {g} : RetransmittedSizes(m)[h] = RetransmittedSizes(l)[h]
          /\ \A h \in D : RetransmittedSizes(l)[h] \in Int
      BY <2>1, <2>4, SizesAreNat DEF RetransmittedSizes
    <3>5. ChangesAt(D, RetransmittedSizes(l), RetransmittedSizes(m), g)
      BY <3>3, <3>4 DEF ChangesAt
    <3> DEFINE el == RetransmittedSizes(l)
               em == RetransmittedSizes(m)
    <3> HIDE DEF el, em, D
    <3>6. SumFunctionOnSet(em, D) = SumFunctionOnSet(el, D) - el[g] + em[g]
      BY <3>2, <3>5, SumChanges DEF el, em, D
    <3>7. SumFunctionOnSet(el, D) \in Int /\ el[g] \in Int
      BY <2>1, <3>4, PendingSum DEF el, D
    <3>8. em[g] = el[g] + 1
      BY <3>3 DEF el, em
    <3>9. SumFunctionOnSet(em, D) = SumFunctionOnSet(el, D) + 1
      BY <3>6, <3>7, <3>8
    <3> QED  BY <3>1, <3>9 DEF el, em
  <2>8. CountersAreTotals(t)
    <3>1. CountersAreSums(s.counters, l)
      BY TotalsOrSums DEF SnapshotOK
    <3>2. LET c == t.counters IN
          /\ c.droppedPkts = SumFunctionOnSet(DroppedSizes(m), D)
          /\ c.notSeenDroppedPkts = SumFunctionOnSet(ExpiredSizes(m), D)
          /\ c.retransmittedDroppedPkts
               = SumFunctionOnSet(RetransmittedSizes(m), D)
      BY <2>1, <2>2, <2>7, <3>1, CountRetransmittedType DEF CountersAreSums
    <3>3. LET c == t.counters IN
          c.pendingDroppedPkts = c.droppedPkts - c.notSeenDroppedPkts
                                   - c.retransmittedDroppedPkts
      BY <2>1, <2>2, <3>1, CountRetransmittedType DEF Counters, CountersAreSums
    <3>4. CountersAreSums(t.counters, t.lists)
      BY <2>2, <2>4, <3>2, <3>3 DEF CountersAreSums
    <3> QED  BY <3>4, TotalsOrSums
  <2>9. t \in AggrSnapshot(DOMAIN t.lists)
    <3>1. t.counters \in Counters /\ t.lists \in [D -> MetaLists]
      BY <2>1, <2>2, <2>4, CountRetransmittedType
    <3> QED  BY <2>1, <2>2, <2>4, <3>1 DEF AggrSnapshot
  <2>10. SnapshotOK(t, fm)
    BY <2>2, <2>4, <2>6, <2>8, <2>9 DEF SnapshotOK
  <2> QED  BY <2>5, <2>10 DEF t
<1> QED  BY <1>1, <1>2


\* penny::checkAndUpdateDuplicates touches nothing but numbers of duplicates.
LEMMA UpdateDuplicatesOK ==
  ASSUME NEW fm, NEW s, SnapshotOK(s, fm), NEW acs
  PROVE  /\ SnapshotOK(UpdateDuplicates(s, acs, fm), fm)
         /\ UpdateDuplicates(s, acs, fm).lists = s.lists
         /\ SettlesAt(s, UpdateDuplicates(s, acs, fm),
                      acs.flowId, acs.packetId)
<1> DEFINE t == UpdateDuplicates(s, acs, fm)
           c == s.counters
           d == t.counters
<1>1. s \in AggrSnapshot(DOMAIN s.lists) /\ c \in Counters
  BY DEF SnapshotOK, AggrSnapshot
<1>2. \/ t = s
      \/ \E n, m \in Nat :
           t = [s EXCEPT !.duplicatePktsAtDropInstance = n,
                         !.counters = [c EXCEPT !.duplicatePkts = m]]
  <2>1. s.duplicatePktsAtDropInstance \in Nat /\ c.duplicatePkts \in Nat
    BY <1>1 DEF AggrSnapshot, Counters
  <2>2. CASE t = s
    BY <2>2
  <2>3. CASE t # s
    <3> DEFINE n == IF s.packetId = acs.packetId
                      THEN s.duplicatePktsAtDropInstance + 1
                      ELSE s.duplicatePktsAtDropInstance
               m == IF Undecided(s, acs) THEN c.duplicatePkts + 1
                                         ELSE c.duplicatePkts
    <3>1. t = [s EXCEPT !.duplicatePktsAtDropInstance = n,
                        !.counters.duplicatePkts = m]
      BY <2>3 DEF UpdateDuplicates
    <3>2. t = [s EXCEPT !.duplicatePktsAtDropInstance = n,
                        !.counters = [c EXCEPT !.duplicatePkts = m]]
      BY <1>1, <3>1 DEF AggrSnapshot
    <3>3. n \in Nat /\ m \in Nat
      BY <2>1
    <3> QED  BY <3>2, <3>3
  <2> QED  BY <2>2, <2>3
<1>3. /\ t \in AggrSnapshot(DOMAIN s.lists)
      /\ t.lists = s.lists
      /\ t.packetId = s.packetId
      /\ t.flowId = s.flowId
      /\ d.droppedPkts = c.droppedPkts
      /\ d.notSeenDroppedPkts = c.notSeenDroppedPkts
      /\ d.retransmittedDroppedPkts = c.retransmittedDroppedPkts
      /\ d.pendingDroppedPkts = c.pendingDroppedPkts
  <2>1. CASE t = s
    BY <1>1, <2>1
  <2>2. CASE \E n, m \in Nat :
               t = [s EXCEPT !.duplicatePktsAtDropInstance = n,
                             !.counters = [c EXCEPT !.duplicatePkts = m]]
    <3>1. PICK n \in Nat, m \in Nat :
            t = [s EXCEPT !.duplicatePktsAtDropInstance = n,
                          !.counters = [c EXCEPT !.duplicatePkts = m]]
      BY <2>2
    <3> DEFINE e == [c EXCEPT !.duplicatePkts = m]
    <3>2. /\ e \in Counters
          /\ e.droppedPkts = c.droppedPkts
          /\ e.notSeenDroppedPkts = c.notSeenDroppedPkts
          /\ e.retransmittedDroppedPkts = c.retransmittedDroppedPkts
          /\ e.pendingDroppedPkts = c.pendingDroppedPkts
      BY <1>1 DEF Counters
    <3> HIDE DEF e, t
    <3>3. /\ t \in AggrSnapshot(DOMAIN s.lists)
          /\ d = e
          /\ t.lists = s.lists
          /\ t.packetId = s.packetId
          /\ t.flowId = s.flowId
      BY <1>1, <3>1, <3>2 DEF AggrSnapshot, e
    <3> QED  BY <3>2, <3>3
  <2> QED  BY <1>2, <2>1, <2>2
<1> HIDE DEF t
<1>4. CountersAreTotals(t)
  <2>1. CountersAreSums(c, s.lists)
    BY TotalsOrSums DEF SnapshotOK
  <2>2. CountersAreSums(d, t.lists)
    BY <1>3, <2>1 DEF CountersAreSums
  <2> QED  BY <2>2, TotalsOrSums
<1>5. SnapshotOK(t, fm)
  BY <1>3, <1>4 DEF SnapshotOK
<1>6. SettlesAt(s, t, acs.flowId, acs.packetId)
  BY <1>3 DEF SettlesAt
<1> QED  BY <1>3, <1>5, <1>6 DEF t

\* The three updates of a snapshot for the front acs, one after the other.
Updated(s, acs, fm) ==
  UpdateDuplicates(
    UpdateRetransmitted(UpdateExpired(s, acs, fm), acs, fm), acs, fm)

\* They settle the drop of the front in the snapshot, if it is settled.
LEMMA UpdatedOK ==
  ASSUME NEW fm, FlowsGood(fm), NEW s, SnapshotOK(s, fm),
         NEW acs, acs.flowId \in DOMAIN s.lists
  PROVE  /\ SnapshotOK(Updated(s, acs, fm), fm)
         /\ SettlesAt(s, Updated(s, acs, fm), acs.flowId, acs.packetId)
<1> DEFINE g == acs.flowId
           id == acs.packetId
           t == UpdateExpired(s, acs, fm)
           u == UpdateRetransmitted(t, acs, fm)
           v == UpdateDuplicates(u, acs, fm)
<1>1. SnapshotOK(t, fm) /\ SettlesAt(s, t, g, id)
  BY UpdateExpiredOK
<1>2. g \in DOMAIN t.lists
  BY <1>1 DEF SettlesAt
<1> HIDE DEF t
<1>3. SnapshotOK(u, fm) /\ SettlesAt(t, u, g, id)
  BY <1>1, <1>2, UpdateRetransmittedOK
<1> HIDE DEF u
<1>4. SnapshotOK(v, fm) /\ SettlesAt(u, v, g, id)
  BY <1>3, UpdateDuplicatesOK
<1> HIDE DEF v
<1>5. SettlesAt(s, v, g, id)
  BY <1>1, <1>3, <1>4 DEF SettlesAt
<1> QED  BY <1>4, <1>5 DEF Updated, t, u, v

\* A snapshot that is settled stays so, and a drop that is not the one of the
\* front stays unsettled.
LEMMA SettledStays ==
  ASSUME NEW fm, FlowsGood(fm), NEW fn, FlowsGood(fn),
         NEW s, SnapshotOK(s, fm), NEW t, SnapshotOK(t, fn),
         NEW g, NEW id, SettlesAt(s, t, g, id)
  PROVE  /\ s.counters.pendingDroppedPkts = 0
              => t.counters.pendingDroppedPkts = 0
         /\ \A h, i : /\ UnsettledIn(s, h, i)
                      /\ h # g \/ i # id
                      => UnsettledIn(t, h, i)
<1>1. ASSUME s.counters.pendingDroppedPkts = 0
      PROVE  t.counters.pendingDroppedPkts = 0
  <2>1. \A h \in DOMAIN s.lists :
          \A i \in s.lists[h].droppedPcksList : ~UnsettledIn(s, h, i)
    BY <1>1, PendingIsUnsettled
  <2>2. \A h \in DOMAIN t.lists :
          \A i \in t.lists[h].droppedPcksList : ~UnsettledIn(t, h, i)
    BY <2>1 DEF SettlesAt, UnsettledIn
  <2> QED  BY <2>2, PendingIsUnsettled
<1>2. ASSUME NEW h, NEW i, UnsettledIn(s, h, i), h # g \/ i # id
      PROVE  UnsettledIn(t, h, i)
  BY <1>2 DEF SettlesAt, UnsettledIn
<1> QED  BY <1>1, <1>2

-------------------------------------------------------------------------------
(***************************************************************************)
(* A new snapshot.                                                         *)
(***************************************************************************)
\* What the sums over the flows add up.
DroppableCounts(fm) == [g \in DOMAIN fm |-> fm[g].curCounters.droppablePkts]
DroppedCounts(fm)   == [g \in DOMAIN fm |-> fm[g].curCounters.droppedPkts]
RetransmittedCounts(fm) ==
  [g \in DOMAIN fm |-> fm[g].curCounters.retransmittedDroppedPkts]
NotSeenCounts(fm)   == [g \in DOMAIN fm |-> fm[g].curCounters.notSeenDroppedPkts]
DuplicateCounts(fm) == [g \in DOMAIN fm |-> fm[g].curCounters.duplicatePkts]
PendingCounts(fm)   == [g \in DOMAIN fm |-> fm[g].curCounters.pendingDroppedPkts]

\* The sums are over the tracked flows.
LEMMA CountersAdded ==
  ASSUME NEW fm
  PROVE  LET c == SumCounters(fm)
             D == DOMAIN fm
         IN
         /\ c = [droppablePkts |-> c.droppablePkts,
                 droppedPkts |-> c.droppedPkts,
                 retransmittedDroppedPkts |-> c.retransmittedDroppedPkts,
                 notSeenDroppedPkts |-> c.notSeenDroppedPkts,
                 duplicatePkts |-> c.duplicatePkts,
                 pendingDroppedPkts |-> c.pendingDroppedPkts]
         /\ c.droppablePkts = SumFunctionOnSet(DroppableCounts(fm), D)
         /\ c.droppedPkts = SumFunctionOnSet(DroppedCounts(fm), D)
         /\ c.retransmittedDroppedPkts
              = SumFunctionOnSet(RetransmittedCounts(fm), D)
         /\ c.notSeenDroppedPkts = SumFunctionOnSet(NotSeenCounts(fm), D)
         /\ c.duplicatePkts = SumFunctionOnSet(DuplicateCounts(fm), D)
         /\ c.pendingDroppedPkts = SumFunctionOnSet(PendingCounts(fm), D)
<1> DEFINE D == DOMAIN fm
<1>1. /\ SumOverFlows(fm, LAMBDA c : c.droppablePkts)
           = SumFunction(DroppableCounts(fm))
      /\ SumOverFlows(fm, LAMBDA c : c.droppedPkts)
           = SumFunction(DroppedCounts(fm))
      /\ SumOverFlows(fm, LAMBDA c : c.retransmittedDroppedPkts)
           = SumFunction(RetransmittedCounts(fm))
      /\ SumOverFlows(fm, LAMBDA c : c.notSeenDroppedPkts)
           = SumFunction(NotSeenCounts(fm))
      /\ SumOverFlows(fm, LAMBDA c : c.duplicatePkts)
           = SumFunction(DuplicateCounts(fm))
      /\ SumOverFlows(fm, LAMBDA c : c.pendingDroppedPkts)
           = SumFunction(PendingCounts(fm))
  BY Zenon DEF SumOverFlows, DroppableCounts, DroppedCounts,
               RetransmittedCounts, NotSeenCounts, DuplicateCounts,
               PendingCounts
<1>2. /\ DOMAIN DroppableCounts(fm) = D
      /\ DOMAIN DroppedCounts(fm) = D
      /\ DOMAIN RetransmittedCounts(fm) = D
      /\ DOMAIN NotSeenCounts(fm) = D
      /\ DOMAIN DuplicateCounts(fm) = D
      /\ DOMAIN PendingCounts(fm) = D
  BY DEF DroppableCounts, DroppedCounts, RetransmittedCounts, NotSeenCounts,
         DuplicateCounts, PendingCounts
<1> HIDE DEF D
<1>3. SumCounters(fm) =
        [droppablePkts |-> SumFunctionOnSet(DroppableCounts(fm), D),
         droppedPkts |-> SumFunctionOnSet(DroppedCounts(fm), D),
         retransmittedDroppedPkts
           |-> SumFunctionOnSet(RetransmittedCounts(fm), D),
         notSeenDroppedPkts |-> SumFunctionOnSet(NotSeenCounts(fm), D),
         duplicatePkts |-> SumFunctionOnSet(DuplicateCounts(fm), D),
         pendingDroppedPkts |-> SumFunctionOnSet(PendingCounts(fm), D)]
  BY <1>1, <1>2, Zenon DEF SumCounters, SumFunction
<1> QED  BY <1>3 DEF D

\* The counters of a flow are the sizes of its lists.
LEMMA FlowCounters ==
  ASSUME NEW f, FlowInv(f)
  PROVE  LET c == f.curCounters
             l == f.metaLists
         IN
         /\ c \in Counters
         /\ c.droppedPkts = Cardinality(l.droppedPcksList)
         /\ c.notSeenDroppedPkts = Cardinality(l.expiredPcksList)
         /\ c.retransmittedDroppedPkts = Cardinality(l.retransmittedPktsList)
         /\ c.pendingDroppedPkts
              = Cardinality(l.droppedPcksList
                              \ (l.expiredPcksList \cup l.retransmittedPktsList))
<1> DEFINE ids == Known(f, Len(f.counterSnapsList))
           l == f.metaLists
<1>1. /\ f.curCounters \in Counters
      /\ Describes(f, f.curCounters, l, ids)
      /\ MapsOfFlowAgree(f)
      /\ DOMAIN f.droppedPktsDecision = ids
  BY DEF FlowInv, FlowTypeOK, SnapshotsDescribeDrops, DropsRecorded
<1> HIDE DEF ids
<1>2. Pending(f) = ids \ (l.expiredPcksList \cup l.retransmittedPktsList)
  BY <1>1 DEF MapsOfFlowAgree
<1>3. /\ l.droppedPcksList = ids
      /\ ids \cap Pending(f)
           = ids \ (l.expiredPcksList \cup l.retransmittedPktsList)
  BY <1>1, <1>2 DEF Describes
<1> HIDE DEF l
<1> QED  BY <1>1, <1>3, Zenon DEF Describes, l

\* What penny::addPacketDropSnapshot adds up is what the lists say.
LEMMA CountersOfFlows ==
  ASSUME NEW fm, FlowsGood(fm)
  PROVE  LET lists == [g \in DOMAIN fm |-> fm[g].metaLists] IN
         /\ lists \in [DOMAIN fm -> MetaLists]
         /\ SumCounters(fm) \in Counters
         /\ CountersAreSums(SumCounters(fm), lists)
<1> DEFINE lists == [g \in DOMAIN fm |-> fm[g].metaLists]
           D == DOMAIN fm
           c == SumCounters(fm)
           d == DroppedSizes(lists)
           x == ExpiredSizes(lists)
           r == RetransmittedSizes(lists)
           u == PendingCounts(fm)
<1>1. /\ lists \in [D -> MetaLists]
      /\ ListsFinite(lists)
      /\ DOMAIN lists = D
      /\ \A g \in D : lists[g] = fm[g].metaLists
  <2>1. \A g \in D : FlowInv(fm[g])
    BY DEF FlowsGood
  <2> QED  BY <2>1, FlowLists DEF ListsFinite, FlowsGood
<1> HIDE DEF lists
<1>2. ASSUME NEW g \in D
      PROVE  /\ DroppedCounts(fm)[g] = d[g]
             /\ NotSeenCounts(fm)[g] = x[g]
             /\ RetransmittedCounts(fm)[g] = r[g]
             /\ u[g] \in Nat /\ x[g] \in Nat /\ r[g] \in Nat
             /\ d[g] = u[g] + (x[g] + r[g])
             /\ DroppableCounts(fm)[g] \in Nat
             /\ DuplicateCounts(fm)[g] \in Nat
  <2> DEFINE unsettled == lists[g].droppedPcksList
                            \ (lists[g].expiredPcksList
                                 \cup lists[g].retransmittedPktsList)
  <2>1. FlowInv(fm[g]) /\ lists[g] = fm[g].metaLists
    BY <1>1 DEF FlowsGood
  <2>2. LET e == fm[g].curCounters IN
        /\ e \in Counters
        /\ e.droppedPkts = Cardinality(lists[g].droppedPcksList)
        /\ e.notSeenDroppedPkts = Cardinality(lists[g].expiredPcksList)
        /\ e.retransmittedDroppedPkts
             = Cardinality(lists[g].retransmittedPktsList)
        /\ e.pendingDroppedPkts = Cardinality(unsettled)
    BY <2>1, FlowCounters
  <2>3. /\ d[g] = Cardinality(lists[g].droppedPcksList)
        /\ x[g] = Cardinality(lists[g].expiredPcksList)
        /\ r[g] = Cardinality(lists[g].retransmittedPktsList)
    BY <1>1 DEF DroppedSizes, ExpiredSizes, RetransmittedSizes
  <2>4. /\ x[g] \in Nat /\ r[g] \in Nat /\ Cardinality(unsettled) \in Nat
        /\ d[g] = Cardinality(unsettled) + (x[g] + r[g])
    BY <1>1, ListSizes
  <2> HIDE DEF unsettled, d, x, r
  <2>5. /\ DroppedCounts(fm)[g] = fm[g].curCounters.droppedPkts
        /\ NotSeenCounts(fm)[g] = fm[g].curCounters.notSeenDroppedPkts
        /\ RetransmittedCounts(fm)[g]
             = fm[g].curCounters.retransmittedDroppedPkts
        /\ u[g] = fm[g].curCounters.pendingDroppedPkts
        /\ DroppableCounts(fm)[g] = fm[g].curCounters.droppablePkts
        /\ DuplicateCounts(fm)[g] = fm[g].curCounters.duplicatePkts
    BY DEF DroppedCounts, NotSeenCounts, RetransmittedCounts, PendingCounts,
           DroppableCounts, DuplicateCounts
  <2>6. /\ fm[g].curCounters.droppablePkts \in Nat
        /\ fm[g].curCounters.duplicatePkts \in Nat
    BY <2>2 DEF Counters
  <2> QED  BY <2>2, <2>3, <2>4, <2>5, <2>6
<1>3. /\ DroppedCounts(fm) = d
      /\ NotSeenCounts(fm) = x
      /\ RetransmittedCounts(fm) = r
  BY <1>1, <1>2 DEF DroppedCounts, NotSeenCounts, RetransmittedCounts,
                    DroppedSizes, ExpiredSizes, RetransmittedSizes
<1>4. IsFiniteSet(D)
  BY DEF FlowsGood
<1> DEFINE sd == SumFunctionOnSet(d, D)
           sx == SumFunctionOnSet(x, D)
           sr == SumFunctionOnSet(r, D)
           su == SumFunctionOnSet(u, D)
           sb == SumFunctionOnSet(DroppableCounts(fm), D)
           sy == SumFunctionOnSet(DuplicateCounts(fm), D)
<1>5. /\ c.droppedPkts = sd
      /\ c.notSeenDroppedPkts = sx
      /\ c.retransmittedDroppedPkts = sr
      /\ c.pendingDroppedPkts = su
      /\ c.droppablePkts = sb
      /\ c.duplicatePkts = sy
      /\ c = [droppablePkts |-> sb, droppedPkts |-> sd,
              retransmittedDroppedPkts |-> sr, notSeenDroppedPkts |-> sx,
              duplicatePkts |-> sy, pendingDroppedPkts |-> su]
  <2> HIDE DEF d, x, r, u, c, D
  <2> QED  BY <1>3, CountersAdded, Zenon DEF D, c, u
<1> HIDE DEF d, x, r, u, D
<1>6. /\ sd \in Nat /\ sx \in Nat /\ sr \in Nat
      /\ sd - sx - sr \in Nat
  BY <1>1, PendingSum DEF d, x, r, D
<1>7. su \in Nat /\ sd = su + (sx + sr)
  <2> DEFINE y == [g \in D |-> x[g] + r[g]]
  <2>1. AddsUp(D, d, u, y) /\ AddsUp(D, y, x, r)
    BY <1>2 DEF AddsUp
  <2> HIDE DEF y
  <2>2. sd = su + SumFunctionOnSet(y, D)
    BY <1>4, <2>1, SumAdds
  <2>3. SumFunctionOnSet(y, D) = sx + sr
    BY <1>4, <2>1, SumAdds
  <2>4. su \in Nat
    BY <1>2, <1>4, SumOfNaturals
  <2> QED  BY <2>2, <2>3, <2>4
<1>8. sb \in Nat /\ sy \in Nat
  <2>1. /\ \A g \in D : DroppableCounts(fm)[g] \in Nat
        /\ \A g \in D : DuplicateCounts(fm)[g] \in Nat
    BY <1>2
  <2> QED  BY <1>4, <2>1, SumOfNaturals
<1> HIDE DEF sd, sx, sr, su, sb, sy, c
<1>9. c \in Counters
  BY <1>5, <1>6, <1>7, <1>8 DEF Counters
<1>10. c.pendingDroppedPkts
         = c.droppedPkts - c.notSeenDroppedPkts - c.retransmittedDroppedPkts
  BY <1>5, <1>6, <1>7
<1>11. CountersAreSums(c, lists)
  BY <1>1, <1>5, <1>10, Zenon
     DEF CountersAreSums, sd, sx, sr, d, x, r, D
<1> QED  BY <1>1, <1>9, <1>11 DEF lists, c, D

\* A set of positions that is not empty has a first one.
LEMMA FirstPosition ==
  ASSUME NEW n \in Nat, NEW S \in SUBSET (1..n), S # {}
  PROVE  Min(S) \in S
<1> DEFINE R == {ss \in Nat \X Nat : ss[1] < ss[2]}
<1>1. IsWellFoundedOn(R, Nat)
  BY ONLY NatLessThanWellFounded, Zenon DEF OpToRel
<1>2. S \subseteq Nat
  OBVIOUS
<1>3. \E x \in S : \A y \in S : ~(<<y, x>> \in R)
  BY <1>1, <1>2, WFMin
<1>4. PICK x \in S : \A y \in S : ~(<<y, x>> \in R)
  BY <1>3
<1>5. ASSUME NEW y \in S PROVE x =< y
  <2>1. x \in Nat /\ y \in Nat /\ ~(<<y, x>> \in R)
    BY <1>2, <1>4
  <2>2. ~(y < x)
    BY <2>1
  <2> QED  BY <2>1, <2>2
<1> QED  BY <1>5 DEF Min

\* pennyFlow::getDuplicatesByPacketDropId finds the snapshot of a drop.
LEMMA DuplicatesAtDrop ==
  ASSUME NEW f, FlowInv(f), NEW id \in f.metaLists.droppedPcksList
  PROVE  GetDuplicatesByPacketDropId(f, id) \in Nat
<1> DEFINE snaps == f.counterSnapsList
           own == {k \in DOMAIN snaps : snaps[k].packetId = id}
<1>1. snaps \in Seq(Snapshot)
  BY DEF FlowInv, FlowTypeOK
<1>2. Len(snaps) \in Nat /\ DOMAIN snaps = 1..Len(snaps)
  BY <1>1, LenProperties
<1>3. id \in DroppedUpTo(snaps, Len(snaps))
  BY DEF FlowInv, SnapshotsDescribeDrops, Describes, Known
<1>4. own # {} /\ own \in SUBSET (1..Len(snaps))
  BY <1>2, <1>3 DEF DroppedUpTo
<1>5. Min(own) \in own
  BY <1>2, <1>4, FirstPosition
<1>6. snaps[Min(own)] \in Snapshot
  BY <1>1, <1>2, <1>4, <1>5, ElementOfSeq
<1> QED  BY <1>6 DEF GetDuplicatesByPacketDropId, Snapshot, Counters

\* The snapshot of a drop that has just been made: it is one of all the flows,
\* and leaves its own drop unsettled.
LEMMA NewSnapshotOK ==
  ASSUME NEW fm, FlowsGood(fm), NEW f \in DOMAIN fm, NEW p \in DataPackets,
         PacketId(p) \in fm[f].metaLists.droppedPcksList,
         PacketId(p) \notin fm[f].metaLists.expiredPcksList,
         PacketId(p) \notin fm[f].metaLists.retransmittedPktsList
  PROVE  LET s == NewAggrSnapshot(fm, f, p) IN
         /\ SnapshotOK(s, fm)
         /\ s.packetId = PacketId(p)
         /\ s.flowId = f
         /\ DOMAIN s.lists = DOMAIN fm
         /\ s.counters.droppedPkts = SumCounters(fm).droppedPkts
         /\ UnsettledIn(s, f, PacketId(p))
<1> DEFINE s == NewAggrSnapshot(fm, f, p)
           lists == [g \in DOMAIN fm |-> fm[g].metaLists]
           c == SumCounters(fm)
           n == GetDuplicatesByPacketDropId(fm[f], PacketId(p))
<1>1. lists \in [DOMAIN fm -> MetaLists] /\ c \in Counters
      /\ CountersAreSums(c, lists)
  BY CountersOfFlows
<1>2. n \in Nat
  BY DuplicatesAtDrop DEF FlowsGood
<1>3. PacketId(p) \in PacketIds
  BY PacketIdType
<1>4. s = [packetId |-> PacketId(p), flowId |-> f,
           duplicatePktsAtDropInstance |-> n, counters |-> c, lists |-> lists]
  BY DEF NewAggrSnapshot
<1>5. DOMAIN lists = DOMAIN fm /\ \A g \in DOMAIN fm : lists[g] = fm[g].metaLists
  OBVIOUS
<1> HIDE DEF s, lists, c, n
<1>6. /\ s.packetId = PacketId(p) /\ s.flowId = f
      /\ s.counters = c /\ s.lists = lists
  BY <1>4
<1>7. s \in AggrSnapshot(DOMAIN s.lists)
  BY <1>1, <1>2, <1>3, <1>4, <1>5, <1>6 DEF AggrSnapshot
<1>8. ASSUME NEW g \in DOMAIN fm PROVE ListsWithin(lists[g], fm[g].metaLists)
  <2>1. FlowInv(fm[g])
    BY DEF FlowsGood
  <2> QED  BY <1>5, <2>1, FlowLists DEF ListsWithin
<1>9. CountersAreTotals(s)
  BY <1>1, <1>6, TotalsOrSums
<1>10. SnapshotOK(s, fm)
  BY <1>5, <1>6, <1>7, <1>8, <1>9 DEF SnapshotOK
<1>11. UnsettledIn(s, f, PacketId(p))
  BY <1>5, <1>6 DEF UnsettledIn
<1> QED  BY <1>5, <1>6, <1>10, <1>11 DEF s, c

-------------------------------------------------------------------------------
(***************************************************************************)
(* The steps of the flows.                                                 *)
(***************************************************************************)
\* No drop is made on the way from fm to fn, and no flow tracked.
Continues(fm, fn) ==
  /\ FlowsGood(fm)
  /\ FlowsGood(fn)
  /\ Grows(fm, fn)
  /\ DOMAIN fn = DOMAIN fm
  /\ \A g \in DOMAIN fm : SameDropsMade(fm[g], fn[g])

\* Flow f makes the drop id on the way from fm to fn.
DropsOne(fm, fn, f, id) ==
  /\ FlowsGood(fm)
  /\ FlowsGood(fn)
  /\ Grows(fm, fn)
  /\ DOMAIN fn = DOMAIN fm
  /\ f \in DOMAIN fm
  /\ fn[f].curCounters.droppedPkts = fm[f].curCounters.droppedPkts + 1
  /\ Len(fn[f].counterSnapsList) = Len(fm[f].counterSnapsList) + 1
  /\ fn[f].counterSnapsList[Len(fn[f].counterSnapsList)].packetId = id
  /\ \A k \in 1..Len(fm[f].counterSnapsList) :
       fn[f].counterSnapsList[k].packetId = fm[f].counterSnapsList[k].packetId
  /\ \A g \in DOMAIN fm \ {f} : fn[g] = fm[g]

\* pennyFlow::processPacket makes no drop by itself.
LEMMA ProcessContinues ==
  ASSUME NEW fm, FlowsGood(fm), NEW f \in DOMAIN fm, NEW p \in Packets
  PROVE  Continues(fm, [fm EXCEPT ![f] = ProcessPacket(@, p)])
<1> DEFINE x == fm[f]
           y == ProcessPacket(x, p)
           fn == [fm EXCEPT ![f] = y]
<1>1. FlowInv(x) /\ IsFiniteSet(DOMAIN fm) /\ \A g \in DOMAIN fm : FlowInv(fm[g])
  BY DEF FlowsGood
<1>2. FlowInv(y)
  BY <1>1, ProcessPacketKeepsInv
<1>3. PICK E \in SUBSET Pending(x), R \in SUBSET {PacketId(p)} :
        DropsSettled(x, y, E, R)
  BY <1>1, ProcessPacketKeepsInv
<1> HIDE DEF y
<1>4. /\ DOMAIN fn = DOMAIN fm
      /\ fn[f] = y
      /\ \A g \in DOMAIN fm \ {f} : fn[g] = fm[g]
  OBVIOUS
<1> HIDE DEF fn
<1>5. FlowsGood(fn)
  BY <1>1, <1>2, <1>4 DEF FlowsGood
<1>6. Grows(fm, fn)
  BY <1>3, <1>4 DEF Grows, DropsSettled, SameDropsMade
<1>7. ASSUME NEW g \in DOMAIN fm PROVE SameDropsMade(fm[g], fn[g])
  <2>1. CASE g = f
    BY <1>3, <1>4, <2>1 DEF DropsSettled
  <2>2. CASE g # f
    BY <1>4, <2>2 DEF SameDropsMade
  <2> QED  BY <2>1, <2>2
<1>8. Continues(fm, fn)
  BY <1>4, <1>5, <1>6, <1>7 DEF Continues
<1> QED  BY <1>8 DEF fn, y

\* Nor does the clock.
LEMMA AgeContinues ==
  ASSUME NEW fm, FlowsGood(fm)
  PROVE  Continues(fm, [f \in DOMAIN fm |-> AgeDrops(fm[f])])
<1> DEFINE fn == [f \in DOMAIN fm |-> AgeDrops(fm[f])]
<1>1. ASSUME NEW g \in DOMAIN fm
      PROVE  /\ FlowInv(fn[g])
             /\ SameDropsMade(fm[g], fn[g])
             /\ fn[g].metaLists = fm[g].metaLists
  <2>1. FlowInv(fm[g])
    BY DEF FlowsGood
  <2>2. DOMAIN fm[g] = DOMAIN NewFlow
    BY <2>1 DEF FlowInv, FlowTypeOK
  <2>3. fn[g] = AgeDrops(fm[g])
    OBVIOUS
  <2>4. FlowInv(fn[g])
    BY <2>1, <2>3, AgeDropsKeepsInv
  <2>5. /\ fn[g].metaLists = fm[g].metaLists
        /\ fn[g].curCounters = fm[g].curCounters
        /\ fn[g].counterSnapsList = fm[g].counterSnapsList
    BY <2>2, <2>3 DEF AgeDrops, NewFlow
  <2> QED  BY <2>4, <2>5 DEF SameDropsMade
<1>2. DOMAIN fn = DOMAIN fm
  OBVIOUS
<1> HIDE DEF fn
<1>3. FlowsGood(fn) /\ Grows(fm, fn)
  BY <1>1, <1>2 DEF FlowsGood, Grows
<1>4. Continues(fm, fn)
  BY <1>1, <1>2, <1>3 DEF Continues
<1> QED  BY <1>4 DEF fn

\* pennyFlow::dropPacket, after processPacket, makes the drop of a packet whose
\* payload was new.
LEMMA DropIsOne ==
  ASSUME NEW fl, FlowsGood(fl), NEW f \in DOMAIN fl, NEW p \in Packets,
         IsDroppable(fl[f], p)
  PROVE  LET fm == [fl EXCEPT ![f] = ProcessPacket(@, p)]
             fn == [fm EXCEPT ![f] = DropPacket(@, p)]
             id == PacketId(p)
         IN
         /\ p \in DataPackets
         /\ DropsOne(fm, fn, f, id)
         /\ id \in fn[f].metaLists.droppedPcksList
         /\ id \notin fn[f].metaLists.expiredPcksList
         /\ id \notin fn[f].metaLists.retransmittedPktsList
<1> DEFINE fm == [fl EXCEPT ![f] = ProcessPacket(@, p)]
           x == ProcessPacket(fl[f], p)
           y == DropPacket(x, p)
           fn == [fm EXCEPT ![f] = DropPacket(@, p)]
           id == PacketId(p)
           s == x.counterSnapsList
           t == y.counterSnapsList
<1>1. p \in DataPackets /\ IsPayloadUnique(fl[f], p) /\ FlowInv(fl[f])
  BY FlowAssumption DEF IsDroppable, DataPackets, FlowsGood
<1>2. /\ FlowInv(x)
      /\ Interval(p) \in x.pktsIntervalTree
      /\ DOMAIN x.droppedPktsDecision = DOMAIN fl[f].droppedPktsDecision
  BY <1>1, ProcessPacketKeepsInv DEF DropsSettled
<1>3. id \notin DOMAIN x.droppedPktsDecision
  BY <1>1, <1>2, UniqueIsNotDropped
<1>4. FlowInv(y)
  BY <1>1, <1>2, <1>3, DropPacketKeepsInv
<1>5. FlowsGood(fm)
  BY ProcessContinues DEF Continues
<1>6. /\ DOMAIN fm = DOMAIN fl
      /\ DOMAIN fn = DOMAIN fm
      /\ fm[f] = x
      /\ fn[f] = y
      /\ \A g \in DOMAIN fm \ {f} : fn[g] = fm[g]
  OBVIOUS
<1>7. /\ DOMAIN x = DOMAIN NewFlow
      /\ s \in Seq(Snapshot)
      /\ x.curCounters \in Counters
      /\ x.metaLists \in MetaLists
  BY <1>2 DEF FlowInv, FlowTypeOK
<1>8. /\ y.curCounters.droppedPkts = x.curCounters.droppedPkts + 1
      /\ y.metaLists.droppedPcksList = x.metaLists.droppedPcksList \cup {id}
      /\ y.metaLists.expiredPcksList = x.metaLists.expiredPcksList
      /\ y.metaLists.retransmittedPktsList = x.metaLists.retransmittedPktsList
      /\ \E e : t = Append(s, e) /\ e.packetId = id
  <2> HIDE DEF x, id
  <2> DEFINE counters == [x.curCounters EXCEPT !.droppedPkts = @ + 1,
                                               !.pendingDroppedPkts = @ + 1]
             lists == [x.metaLists EXCEPT !.droppedPcksList = @ \cup {id}]
             e == [highestSeq |-> x.highestSeq, packetId |-> id,
                   counters |-> counters, lists |-> lists]
  <2>1. /\ y.curCounters = counters
        /\ y.metaLists = lists
        /\ t = Append(s, e)
    BY <1>7 DEF DropPacket, NewFlow, id
  <2>2. counters.droppedPkts = x.curCounters.droppedPkts + 1
    BY <1>7 DEF Counters
  <2>3. /\ lists.droppedPcksList = x.metaLists.droppedPcksList \cup {id}
        /\ lists.expiredPcksList = x.metaLists.expiredPcksList
        /\ lists.retransmittedPktsList = x.metaLists.retransmittedPktsList
    BY <1>7 DEF MetaLists
  <2>4. e.packetId = id
    OBVIOUS
  <2> HIDE DEF counters, lists, e
  <2> QED  BY <2>1, <2>2, <2>3, <2>4
<1> HIDE DEF x, y, fm, fn, id
<1>9. /\ Len(t) = Len(s) + 1
      /\ t[Len(t)].packetId = id
      /\ \A k \in 1..Len(s) : t[k] = s[k]
  <2>1. PICK e : t = Append(s, e) /\ e.packetId = id
    BY <1>8
  <2> QED  BY <1>7, <2>1
<1>10. FlowsGood(fn)
  BY <1>4, <1>5, <1>6 DEF FlowsGood
<1>11. Grows(fm, fn)
  BY <1>6, <1>8 DEF Grows
<1>12. DropsOne(fm, fn, f, id)
  BY <1>5, <1>6, <1>8, <1>9, <1>10, <1>11 DEF DropsOne
<1>13. /\ id \notin x.metaLists.expiredPcksList
       /\ id \notin x.metaLists.retransmittedPktsList
  BY <1>2, <1>3, FlowLists
     DEF FlowInv, DropsRecorded, SnapshotsDescribeDrops, Describes
<1> QED  BY <1>1, <1>6, <1>8, <1>12, <1>13 DEF fm, fn, id

-------------------------------------------------------------------------------
(***************************************************************************)
(* The order of the snapshots all, evaluated and then pending.             *)
(***************************************************************************)
\* The snapshots of bll are those of all, in the same order.
SameSnapshots(all, bll) ==
  /\ Len(bll) = Len(all)
  /\ \A k \in 1..Len(all) : /\ bll[k].flowId = all[k].flowId
                            /\ bll[k].packetId = all[k].packetId

\* One more position counts one more snapshot or none.
LEMMA CountStep ==
  ASSUME NEW all, NEW f, NEW k \in Nat
  PROVE  /\ CountOf(all, f, k) \in Nat
         /\ all[k + 1].flowId = f
              => CountOf(all, f, k + 1) = CountOf(all, f, k) + 1
         /\ all[k + 1].flowId # f
              => CountOf(all, f, k + 1) = CountOf(all, f, k)
<1> DEFINE S(n) == {j \in 1..n : all[j].flowId = f}
<1>1. IsFiniteSet(S(k)) /\ Cardinality(S(k)) \in Nat
  <2>1. IsFiniteSet(1..k) /\ S(k) \subseteq 1..k
    BY FS_Interval
  <2> QED  BY <2>1, FS_Subset, FS_CardinalityType
<1>2. ASSUME all[k + 1].flowId = f PROVE S(k + 1) = S(k) \cup {k + 1}
  BY <1>2
<1>3. ASSUME all[k + 1].flowId # f PROVE S(k + 1) = S(k)
  BY <1>3
<1>4. k + 1 \notin S(k)
  OBVIOUS
<1>5. CountOf(all, f, k) = Cardinality(S(k))
      /\ CountOf(all, f, k + 1) = Cardinality(S(k + 1))
  BY DEF CountOf
<1> HIDE DEF S
<1>6. Cardinality(S(k) \cup {k + 1}) = Cardinality(S(k)) + 1
  BY <1>1, <1>4, FS_AddElement
<1> QED  BY <1>1, <1>2, <1>3, <1>5, <1>6

\* Later snapshots count more.
LEMMA CountGrows ==
  ASSUME NEW all, NEW f, NEW j \in Nat, NEW k \in Nat, j < k
  PROVE  /\ CountOf(all, f, j) <= CountOf(all, f, k)
         /\ all[k].flowId = f => CountOf(all, f, j) < CountOf(all, f, k)
<1> DEFINE S(n) == {i \in 1..n : all[i].flowId = f}
<1>1. /\ IsFiniteSet(S(k - 1))
      /\ S(j) \subseteq S(k - 1)
  <2>1. IsFiniteSet(1..(k - 1)) /\ S(k - 1) \subseteq 1..(k - 1)
    BY FS_Interval
  <2> QED  BY <2>1, FS_Subset
<1>2. CountOf(all, f, j) = Cardinality(S(j))
      /\ CountOf(all, f, k - 1) = Cardinality(S(k - 1))
  BY DEF CountOf
<1> HIDE DEF S
<1>3. CountOf(all, f, j) <= CountOf(all, f, k - 1)
  BY <1>1, <1>2, FS_Subset
<1> DEFINE m == k - 1
<1>4. m \in Nat /\ m + 1 = k
  OBVIOUS
<1> HIDE DEF m
<1>5. /\ CountOf(all, f, m) \in Nat
      /\ all[k].flowId = f => CountOf(all, f, k) = CountOf(all, f, m) + 1
      /\ all[k].flowId # f => CountOf(all, f, k) = CountOf(all, f, m)
  BY <1>4, CountStep
<1>6. CountOf(all, f, j) \in Nat /\ CountOf(all, f, j) <= CountOf(all, f, m)
  BY <1>3, CountStep DEF m
<1> QED  BY <1>5, <1>6

\* The count depends on the flows of the snapshots alone.
LEMMA CountSame ==
  ASSUME NEW all, NEW bll, NEW f, NEW k \in Nat,
         \A j \in 1..k : bll[j].flowId = all[j].flowId
  PROVE  CountOf(bll, f, k) = CountOf(all, f, k)
<1>1. {j \in 1..k : bll[j].flowId = f} = {j \in 1..k : all[j].flowId = f}
  OBVIOUS
<1> QED  BY <1>1 DEF CountOf

\* No two snapshots are of the same drop.
LEMMA SnapshotsOnce ==
  ASSUME NEW fm, FlowsGood(fm), NEW all, Len(all) \in Nat,
         NEW individually, Follows(all, fm, individually),
         NEW j \in 1..Len(all), NEW k \in 1..Len(all), j # k,
         all[j].flowId = all[k].flowId, all[k].flowId \in DOMAIN fm
  PROVE  all[j].packetId # all[k].packetId
<1> DEFINE f == all[k].flowId
           drops == fm[f].counterSnapsList
           n(i) == CountOf(all, f, i)
<1>1. /\ n(j) <= Len(drops) /\ all[j].packetId = drops[n(j)].packetId
      /\ n(k) <= Len(drops) /\ all[k].packetId = drops[n(k)].packetId
  BY DEF Follows
<1>2. drops \in Seq(Snapshot) /\ DropsOnce(fm[f])
  BY DEF FlowsGood, FlowInv, FlowTypeOK
<1>3. n(j) # n(k)
  <2>1. CASE j < k
    <3>1. n(j) < n(k)
      BY <2>1, CountGrows
    <3>2. n(j) \in Nat /\ n(k) \in Nat
      BY CountStep
    <3> HIDE DEF n
    <3> QED  BY <3>1, <3>2
  <2>2. CASE k < j
    <3>1. n(k) < n(j)
      BY <2>2, CountGrows
    <3>2. n(j) \in Nat /\ n(k) \in Nat
      BY CountStep
    <3> HIDE DEF n
    <3> QED  BY <3>1, <3>2
  <2> QED  BY <2>1, <2>2
<1>4. /\ n(j) \in Nat /\ n(j) > 0
      /\ n(k) \in Nat /\ n(k) > 0
  <2>1. 0 < j /\ 0 < k
    OBVIOUS
  <2>2. n(0) < n(j) /\ n(0) < n(k)
    BY <2>1, CountGrows
  <2>3. n(0) \in Nat /\ n(j) \in Nat /\ n(k) \in Nat
    BY CountStep
  <2> HIDE DEF n
  <2> QED  BY <2>2, <2>3
<1> HIDE DEF n
<1>5. n(j) \in DOMAIN drops /\ n(k) \in DOMAIN drops
  BY <1>1, <1>2, <1>4, LenProperties
<1> QED  BY <1>1, <1>2, <1>3, <1>5 DEF DropsOnce

\* Without a drop the snapshots go on to follow the drops.
LEMMA FollowsContinues ==
  ASSUME NEW fm, NEW fn, Continues(fm, fn),
         NEW all, NEW bll, Len(all) \in Nat, SameSnapshots(all, bll),
         NEW before, NEW after, before => after, Follows(all, fm, before)
  PROVE  Follows(bll, fn, after)
<1> SUFFICES ASSUME NEW f \in DOMAIN fn
             PROVE  LET drops == fn[f].counterSnapsList IN
                    /\ \A k \in 1..Len(bll) :
                         bll[k].flowId = f =>
                           /\ CountOf(bll, f, k) <= Len(drops)
                           /\ bll[k].packetId
                                = drops[CountOf(bll, f, k)].packetId
                    /\ ~after => CountOf(bll, f, Len(bll)) = Len(drops)
  BY DEF Follows
<1> DEFINE drops == fn[f].counterSnapsList
           made == fm[f].counterSnapsList
           n(i) == CountOf(bll, f, i)
<1>1. /\ f \in DOMAIN fm
      /\ Len(drops) = Len(made)
      /\ \A k \in 1..Len(made) : drops[k].packetId = made[k].packetId
      /\ Len(made) \in Nat
  <2>1. f \in DOMAIN fm /\ SameDropsMade(fm[f], fn[f]) /\ FlowInv(fm[f])
    BY DEF Continues, FlowsGood
  <2>2. made \in Seq(Snapshot)
    BY <2>1 DEF FlowInv, FlowTypeOK
  <2> QED  BY <2>1, <2>2 DEF SameDropsMade
<1>2. Len(bll) = Len(all)
      /\ \A k \in 1..Len(all) : /\ bll[k].flowId = all[k].flowId
                                /\ bll[k].packetId = all[k].packetId
  BY DEF SameSnapshots
<1>3. ASSUME NEW k \in 0..Len(all) PROVE n(k) = CountOf(all, f, k)
  BY <1>2, CountSame
<1>4. ASSUME NEW k \in 1..Len(bll), bll[k].flowId = f
      PROVE  n(k) <= Len(drops) /\ bll[k].packetId = drops[n(k)].packetId
  <2>1. n(k) = CountOf(all, f, k) /\ all[k].flowId = f
    BY <1>2, <1>3, <1>4
  <2>2. n(k) <= Len(made) /\ all[k].packetId = made[n(k)].packetId
    BY <1>1, <1>2, <1>4, <2>1 DEF Follows
  <2>3. n(k) \in Nat /\ n(k) > 0
    <3>1. n(0) < n(k) /\ n(0) \in Nat /\ n(k) \in Nat
      BY <1>2, <1>4, CountGrows, CountStep
    <3> HIDE DEF n
    <3> QED  BY <3>1
  <2> HIDE DEF n
  <2> QED  BY <1>1, <1>2, <1>4, <2>2, <2>3
<1>5. ASSUME ~after PROVE n(Len(bll)) = Len(drops)
  BY <1>1, <1>2, <1>3, <1>5 DEF Follows
<1> QED  BY <1>4, <1>5

\* The snapshot of a drop comes after all the others, as the drop does; once
\* flows are examined one by one, drops have no snapshot.
LEMMA FollowsDrop ==
  ASSUME NEW fm, NEW fn, NEW f, NEW id, DropsOne(fm, fn, f, id),
         NEW T, NEW all \in Seq(T), NEW individually \in BOOLEAN,
         Follows(all, fm, individually),
         NEW s \in T, s.flowId = f, s.packetId = id
  PROVE  /\ individually => Follows(all, fn, TRUE)
         /\ ~individually => Follows(Append(all, s), fn, FALSE)
<1> DEFINE bll == Append(all, s)
           N == Len(all)
           Within(ss, g, k) ==
             /\ CountOf(ss, g, k) <= Len(fn[g].counterSnapsList)
             /\ ss[k].packetId
                  = fn[g].counterSnapsList[CountOf(ss, g, k)].packetId
<1>1. /\ N \in Nat
      /\ Len(bll) = N + 1
      /\ bll[N + 1] = s
      /\ \A k \in 1..N : bll[k] = all[k]
  OBVIOUS
<1> HIDE DEF bll, N
<1>2. ASSUME NEW g \in DOMAIN fm
      PROVE  /\ g \in DOMAIN fn
             /\ Len(fm[g].counterSnapsList) \in Nat
             /\ g = f => Len(fn[g].counterSnapsList)
                           = Len(fm[g].counterSnapsList) + 1
             /\ g # f => Len(fn[g].counterSnapsList)
                           = Len(fm[g].counterSnapsList)
             /\ \A k \in 1..Len(fm[g].counterSnapsList) :
                  fn[g].counterSnapsList[k].packetId
                    = fm[g].counterSnapsList[k].packetId
  <2>1. fm[g].counterSnapsList \in Seq(Snapshot)
    BY DEF DropsOne, FlowsGood, FlowInv, FlowTypeOK
  <2> QED  BY <2>1 DEF DropsOne
<1>3. ASSUME NEW g \in DOMAIN fm, NEW k \in 1..N, all[k].flowId = g
      PROVE  Within(all, g, k)
  <2> DEFINE n == CountOf(all, g, k)
  <2>1. /\ n <= Len(fm[g].counterSnapsList)
        /\ all[k].packetId = fm[g].counterSnapsList[n].packetId
    BY <1>3 DEF Follows, N
  <2>2. n \in Nat /\ n > 0
    <3>1. CountOf(all, g, 0) < n /\ CountOf(all, g, 0) \in Nat /\ n \in Nat
      BY <1>1, <1>3, CountGrows, CountStep
    <3> HIDE DEF n
    <3> QED  BY <3>1
  <2> HIDE DEF n
  <2>3. n <= Len(fn[g].counterSnapsList)
        /\ all[k].packetId = fn[g].counterSnapsList[n].packetId
    BY <1>2, <2>1, <2>2
  <2> QED  BY <2>3 DEF n
<1>4. DOMAIN fn = DOMAIN fm
  BY DEF DropsOne
<1>5. ASSUME individually PROVE Follows(all, fn, TRUE)
  BY <1>3, <1>4 DEF Follows, N
<1>6. ASSUME ~individually PROVE Follows(bll, fn, FALSE)
  <2>1. ASSUME NEW g \in DOMAIN fm, NEW k \in 0..N
        PROVE  CountOf(bll, g, k) = CountOf(all, g, k)
    BY <1>1, CountSame
  <2>2. ASSUME NEW g \in DOMAIN fm
        PROVE  CountOf(all, g, N) = Len(fm[g].counterSnapsList)
    BY <1>6 DEF Follows, N
  <2>3. ASSUME NEW g \in DOMAIN fm
        PROVE  CountOf(bll, g, N + 1) = Len(fn[g].counterSnapsList)
    <3>1. /\ CountOf(bll, g, N) = Len(fm[g].counterSnapsList)
          /\ bll[N + 1].flowId = f
      BY <1>1, <2>1, <2>2
    <3>2. /\ g = f => CountOf(bll, g, N + 1) = CountOf(bll, g, N) + 1
          /\ g # f => CountOf(bll, g, N + 1) = CountOf(bll, g, N)
      BY <1>1, <3>1, CountStep
    <3> QED  BY <1>2, <3>1, <3>2
  <2>4. ASSUME NEW g \in DOMAIN fm, NEW k \in 1..(N + 1), bll[k].flowId = g
        PROVE  Within(bll, g, k)
    <3>1. CASE k \in 1..N
      <4>1. all[k].flowId = g /\ bll[k].packetId = all[k].packetId
        BY <1>1, <2>4, <3>1
      <4>2. CountOf(bll, g, k) = CountOf(all, g, k)
        BY <2>1, <3>1
      <4>3. Within(all, g, k)
        BY <1>3, <3>1, <4>1
      <4> QED  BY <4>1, <4>2, <4>3
    <3>2. CASE k = N + 1
      <4>1. g = f /\ CountOf(bll, g, k) = Len(fn[g].counterSnapsList)
        BY <1>1, <2>3, <2>4, <3>2
      <4>2. Len(fn[g].counterSnapsList) \in Nat
        BY <1>2, <4>1
      <4>3. bll[k].packetId = fn[g].counterSnapsList[
                                Len(fn[g].counterSnapsList)].packetId
        BY <1>1, <3>2, <4>1 DEF DropsOne
      <4> QED  BY <4>1, <4>2, <4>3
    <3>3. k \in 1..N \/ k = N + 1
      BY <1>1
    <3> QED  BY <3>1, <3>2, <3>3
  <2> QED  BY <1>1, <1>4, <2>3, <2>4 DEF Follows
<1> QED  BY <1>5, <1>6 DEF bll

\* A flow that is tracked anew has no drops and no snapshots.
LEMMA FollowsNewFlow ==
  ASSUME NEW fm, NEW f, f \notin DOMAIN fm, NEW all, Len(all) \in Nat,
         \A k \in 1..Len(all) : all[k].flowId \in DOMAIN fm,
         NEW individually, Follows(all, fm, individually)
  PROVE  Follows(all, [g \in DOMAIN fm \cup {f} |->
                         IF g = f THEN NewFlow ELSE fm[g]], individually)
<1> DEFINE fn == [g \in DOMAIN fm \cup {f} |->
                    IF g = f THEN NewFlow ELSE fm[g]]
<1>1. \A g \in DOMAIN fm : fn[g] = fm[g]
  OBVIOUS
<1>2. fn[f] = NewFlow /\ DOMAIN fn = DOMAIN fm \cup {f}
  OBVIOUS
<1> HIDE DEF fn
<1>3. Len(fn[f].counterSnapsList) = 0
  BY <1>2 DEF NewFlow
<1>4. \A k \in 1..Len(all) : all[k].flowId # f
  OBVIOUS
<1>5. CountOf(all, f, Len(all)) = 0
  <2>1. {j \in 1..Len(all) : all[j].flowId = f} = {}
    BY <1>4
  <2> QED  BY <2>1, FS_EmptySet, Zenon DEF CountOf
<1>6. Follows(all, fn, individually)
  BY <1>1, <1>2, <1>3, <1>4, <1>5 DEF Follows
<1> QED  BY <1>6 DEF fn

-------------------------------------------------------------------------------
(***************************************************************************)
(* What holds of the snapshots all together, whichever list they are in.   *)
(***************************************************************************)
\* The drops of all flows together.
LEMMA DropsAreInt ==
  ASSUME NEW fm, FlowsGood(fm)
  PROVE  /\ SumCounters(fm).droppedPkts
              = SumFunctionOnSet(DroppedCounts(fm), DOMAIN fm)
         /\ SumCounters(fm).droppedPkts \in Nat
         /\ \A g \in DOMAIN fm : DroppedCounts(fm)[g] \in Int
<1>1. SumCounters(fm).droppedPkts
        = SumFunctionOnSet(DroppedCounts(fm), DOMAIN fm)
  BY CountersAdded
<1>2. SumCounters(fm) \in Counters
  BY CountersOfFlows
<1>3. SumCounters(fm).droppedPkts \in Nat
  BY <1>2 DEF Counters
<1>4. ASSUME NEW g \in DOMAIN fm PROVE DroppedCounts(fm)[g] \in Int
  <2>1. fm[g].curCounters \in Counters
    BY DEF FlowsGood, FlowInv, FlowTypeOK
  <2> QED  BY <2>1 DEF DroppedCounts, Counters
<1> QED  BY <1>1, <1>3, <1>4

\* They stay unless a drop is made.
LEMMA DropsContinue ==
  ASSUME NEW fm, NEW fn, Continues(fm, fn)
  PROVE  SumCounters(fn).droppedPkts = SumCounters(fm).droppedPkts
<1>1. DOMAIN fn = DOMAIN fm /\ DroppedCounts(fn) = DroppedCounts(fm)
  BY DEF Continues, SameDropsMade, DroppedCounts
<1> QED  BY <1>1, DropsAreInt DEF Continues

\* They grow by one with a drop.
LEMMA DropsAddOne ==
  ASSUME NEW fm, NEW fn, NEW f, NEW id, DropsOne(fm, fn, f, id)
  PROVE  SumCounters(fn).droppedPkts = SumCounters(fm).droppedPkts + 1
<1> DEFINE D == DOMAIN fm
           v == DroppedCounts(fm)
           w == DroppedCounts(fn)
           sv == SumFunctionOnSet(v, D)
           sw == SumFunctionOnSet(w, D)
<1>1. /\ IsFiniteSet(D) /\ f \in D /\ DOMAIN fn = D
      /\ FlowsGood(fm) /\ FlowsGood(fn)
  BY DEF DropsOne, FlowsGood
<1>2. /\ \A g \in D : v[g] \in Int
      /\ \A g \in D : w[g] \in Int
      /\ SumCounters(fm).droppedPkts = sv
      /\ SumCounters(fn).droppedPkts = sw
      /\ sv \in Nat
  BY <1>1, DropsAreInt
<1>3. w[f] = v[f] + 1 /\ \A g \in D \ {f} : w[g] = v[g]
  BY <1>1 DEF DropsOne, DroppedCounts
<1> HIDE DEF v, w, D
<1>4. ChangesAt(D, v, w, f)
  BY <1>1, <1>2, <1>3 DEF ChangesAt
<1>5. sw = sv - v[f] + w[f]
  BY <1>1, <1>4, SumChanges
<1> HIDE DEF sv, sw
<1> QED  BY <1>1, <1>2, <1>3, <1>5

\* A new flow adds none.
LEMMA DropsNewFlow ==
  ASSUME NEW fm, FlowsGood(fm), NEW f, f \notin DOMAIN fm
  PROVE  LET fn == [g \in DOMAIN fm \cup {f} |->
                      IF g = f THEN NewFlow ELSE fm[g]]
         IN  /\ FlowsGood(fn)
             /\ Grows(fm, fn)
             /\ SumCounters(fn).droppedPkts = SumCounters(fm).droppedPkts
<1> DEFINE fn == [g \in DOMAIN fm \cup {f} |->
                    IF g = f THEN NewFlow ELSE fm[g]]
           D == DOMAIN fm
           v == DroppedCounts(fm)
           w == DroppedCounts(fn)
           sv == SumFunctionOnSet(v, D)
           sw == SumFunctionOnSet(w, D \cup {f})
<1>1. /\ DOMAIN fn = D \cup {f}
      /\ fn[f] = NewFlow
      /\ \A g \in D : fn[g] = fm[g]
  OBVIOUS
<1> HIDE DEF fn
<1>2. FlowsGood(fn) /\ IsFiniteSet(D)
  BY <1>1, NewFlowInv, FS_AddElement DEF FlowsGood
<1>3. Grows(fm, fn)
  BY <1>1 DEF Grows
<1>4. /\ \A g \in D : v[g] \in Int
      /\ SumCounters(fm).droppedPkts = sv
      /\ SumCounters(fn).droppedPkts = sw
      /\ sv \in Nat
  BY <1>1, <1>2, DropsAreInt
<1>5. w[f] = 0 /\ \A g \in D : w[g] = v[g]
  BY <1>1 DEF DroppedCounts, NewFlow, NoCounters
<1> HIDE DEF v, w, D
<1>6. sw = sv + w[f]
  <2>1. \A g \in D : v[g] \in Int /\ w[g] = v[g]
    BY <1>4, <1>5
  <2>2. f \notin D /\ w[f] \in Int
    BY <1>5 DEF D
  <2> QED  BY <1>2, <2>1, <2>2, SumExtends
<1> HIDE DEF sv, sw
<1>7. SumCounters(fn).droppedPkts = SumCounters(fm).droppedPkts
  BY <1>4, <1>5, <1>6
<1> QED  BY <1>2, <1>3, <1>7 DEF fn

\* The snapshots in bll are those in all, settled further.
SettlesAll(all, bll, fn) ==
  /\ Len(bll) = Len(all)
  /\ \A k \in 1..Len(all) :
       /\ SnapshotOK(bll[k], fn)
       /\ \E g, id : SettlesAt(all[k], bll[k], g, id)

\* Snapshots that are settled further as the flows go on without a drop.
LEMMA OrderedContinues ==
  ASSUME NEW fm, NEW fn, Continues(fm, fn),
         NEW all, NEW bll \in Seq(AnySnapshot), SettlesAll(all, bll, fn),
         NEW before, NEW after \in BOOLEAN, before => after,
         Ordered(all, fm, before)
  PROVE  Ordered(bll, fn, after)
<1>1. /\ FlowsGood(fn) /\ DOMAIN fn = DOMAIN fm /\ DOMAIN fn \subseteq Flows
      /\ Len(all) \in Nat /\ Len(bll) = Len(all)
  BY DEF Ordered, Continues, SettlesAll
<1>2. ASSUME NEW k \in 1..Len(all)
      PROVE  /\ SnapshotOK(bll[k], fn)
             /\ bll[k].flowId = all[k].flowId
             /\ bll[k].packetId = all[k].packetId
             /\ bll[k].counters.droppedPkts = all[k].counters.droppedPkts
             /\ DOMAIN bll[k].lists = DOMAIN all[k].lists
  BY DEF SettlesAll, SettlesAt
<1>3. AllOK(bll, fn)
  BY <1>1, <1>2 DEF AllOK, Ordered
<1>4. Follows(bll, fn, after)
  <2>1. SameSnapshots(all, bll)
    BY <1>1, <1>2 DEF SameSnapshots
  <2>2. Follows(all, fm, before)
    BY DEF Ordered
  <2> QED  BY <1>1, <2>1, <2>2, FollowsContinues
<1>5. WithinBudget(bll, fn, after)
  BY <1>1, DropsContinue DEF Ordered, WithinBudget
<1> QED  BY <1>1, <1>3, <1>4, <1>5 DEF Ordered

\* The snapshots stay while the flows go on.
LEMMA OrderedStays ==
  ASSUME NEW fm, NEW fn, Continues(fm, fn), NEW all,
         NEW before, NEW after \in BOOLEAN, before => after,
         Ordered(all, fm, before)
  PROVE  Ordered(all, fn, after)
<1>1. ASSUME NEW k \in 1..Len(all)
      PROVE  /\ SnapshotOK(all[k], fn)
             /\ \E g, id : SettlesAt(all[k], all[k], g, id)
  <2>1. SnapshotOK(all[k], fn)
    BY SnapshotStaysOK DEF Continues, Ordered, AllOK
  <2>2. SettlesAt(all[k], all[k], 0, 0)
    BY DEF SettlesAt
  <2> QED  BY <2>1, <2>2
<1>2. all \in Seq(AnySnapshot)
  BY DEF Ordered
<1>3. SettlesAll(all, all, fn)
  BY <1>1 DEF SettlesAll
<1> QED  BY <1>2, <1>3, OrderedContinues

\* A drop adds its snapshot s, until flows are examined one by one.
DropAdded(all, s, fn, individually) ==
  /\ s \in AnySnapshot
  /\ UnsettledIn(s, s.flowId, s.packetId)
  /\ individually => Ordered(all, fn, TRUE)
  /\ ~individually /\ Len(all) < MaxPacketDrops
       => Ordered(Append(all, s), fn, FALSE)

LEMMA OrderedDrop ==
  ASSUME NEW fm, NEW fn, NEW f, NEW p \in DataPackets,
         DropsOne(fm, fn, f, PacketId(p)),
         PacketId(p) \in fn[f].metaLists.droppedPcksList,
         PacketId(p) \notin fn[f].metaLists.expiredPcksList,
         PacketId(p) \notin fn[f].metaLists.retransmittedPktsList,
         NEW all, NEW individually, Ordered(all, fm, individually)
  PROVE  DropAdded(all, NewAggrSnapshot(fn, f, p), fn, individually)
<1> DEFINE s == NewAggrSnapshot(fn, f, p)
           bll == Append(all, s)
<1>1. /\ FlowsGood(fn) /\ Grows(fm, fn) /\ f \in DOMAIN fn
      /\ DOMAIN fn = DOMAIN fm /\ DOMAIN fn \subseteq Flows
      /\ all \in Seq(AnySnapshot) /\ individually \in BOOLEAN
      /\ AllOK(all, fm) /\ Follows(all, fm, individually)
  BY DEF DropsOne, Ordered
<1>2. /\ SnapshotOK(s, fn)
      /\ s.packetId = PacketId(p)
      /\ s.flowId = f
      /\ DOMAIN s.lists = DOMAIN fn
      /\ s.counters.droppedPkts = SumCounters(fn).droppedPkts
      /\ UnsettledIn(s, f, PacketId(p))
  BY <1>1, NewSnapshotOK
<1> HIDE DEF s
<1>3. s \in AnySnapshot
  BY <1>1, <1>2 DEF SnapshotOK, AnySnapshot
<1>4. AllOK(all, fn)
  BY <1>1, SnapshotStaysOK DEF AllOK
<1>5. /\ individually => Follows(all, fn, TRUE)
      /\ ~individually => Follows(bll, fn, FALSE)
  BY <1>1, <1>2, <1>3, FollowsDrop
<1>6. ASSUME individually PROVE Ordered(all, fn, TRUE)
  BY <1>1, <1>4, <1>5, <1>6 DEF Ordered, WithinBudget
<1>7. ASSUME ~individually, Len(all) < MaxPacketDrops
      PROVE  Ordered(bll, fn, FALSE)
  <2> DEFINE N == Len(all)
  <2>1. /\ N \in Nat /\ Len(bll) = N + 1 /\ bll[N + 1] = s
        /\ \A k \in 1..N : bll[k] = all[k]
        /\ bll \in Seq(AnySnapshot)
    BY <1>1, <1>3
  <2>2. SumCounters(fn).droppedPkts = N + 1
    BY <1>7, DropsAddOne DEF Ordered, WithinBudget
  <2>3. ASSUME NEW k \in 1..N
        PROVE  /\ SnapshotOK(all[k], fn)
               /\ all[k].counters.droppedPkts = k
               /\ all[k].flowId \in DOMAIN fn
    BY <1>4 DEF AllOK, SnapshotOK
  <2>4. \A j, k \in 1..N : j <= k => all[j].flowId \in DOMAIN all[k].lists
    BY <1>4 DEF AllOK
  <2> HIDE DEF bll, N
  <2>5. AllOK(bll, fn)
    <3>1. ASSUME NEW k \in 1..(N + 1)
          PROVE  /\ SnapshotOK(bll[k], fn)
                 /\ bll[k].counters.droppedPkts = k
      <4>1. k \in 1..N \/ k = N + 1
        BY <2>1
      <4> QED  BY <1>2, <2>1, <2>2, <2>3, <4>1
    <3>2. ASSUME NEW j \in 1..(N + 1), NEW k \in 1..(N + 1), j <= k
          PROVE  bll[j].flowId \in DOMAIN bll[k].lists
      <4>1. CASE k \in 1..N
        <5>1. j \in 1..N
          BY <2>1, <3>2, <4>1
        <5> QED  BY <2>1, <2>4, <3>2, <4>1, <5>1
      <4>2. CASE k = N + 1
        <5>1. j \in 1..N \/ j = N + 1
          BY <2>1
        <5> QED  BY <1>1, <1>2, <2>1, <2>3, <4>2, <5>1
      <4>3. k \in 1..N \/ k = N + 1
        BY <2>1
      <4> QED  BY <4>1, <4>2, <4>3
    <3> QED  BY <2>1, <3>1, <3>2 DEF AllOK
  <2>6. WithinBudget(bll, fn, FALSE)
    BY <1>7, <2>1, <2>2, PennyAssumption DEF WithinBudget, N
  <2> QED  BY <1>1, <1>5, <1>7, <2>1, <2>5, <2>6 DEF Ordered
<1>8. DropAdded(all, s, fn, individually)
  BY <1>2, <1>3, <1>6, <1>7 DEF DropAdded
<1> QED  BY <1>8 DEF s

\* A flow that is tracked from now on changes nothing.
LEMMA OrderedNewFlow ==
  ASSUME NEW fm, NEW f \in Flows, f \notin DOMAIN fm,
         NEW all, NEW individually, Ordered(all, fm, individually)
  PROVE  Ordered(all, [g \in DOMAIN fm \cup {f} |->
                         IF g = f THEN NewFlow ELSE fm[g]], individually)
<1> DEFINE fn == [g \in DOMAIN fm \cup {f} |->
                    IF g = f THEN NewFlow ELSE fm[g]]
<1>1. /\ FlowsGood(fm) /\ DOMAIN fm \subseteq Flows
      /\ all \in Seq(AnySnapshot) /\ individually \in BOOLEAN
      /\ AllOK(all, fm) /\ Follows(all, fm, individually)
  BY DEF Ordered
<1>2. /\ FlowsGood(fn) /\ Grows(fm, fn)
      /\ SumCounters(fn).droppedPkts = SumCounters(fm).droppedPkts
  BY <1>1, DropsNewFlow
<1>3. Follows(all, fn, individually)
  <2>1. \A k \in 1..Len(all) : all[k].flowId \in DOMAIN fm
    BY <1>1 DEF AllOK, SnapshotOK
  <2>2. Len(all) \in Nat
    BY <1>1
  <2>3. Follows(all, fm, individually)
    BY <1>1
  <2> QED  BY <2>1, <2>2, <2>3, FollowsNewFlow
<1>4. DOMAIN fn \subseteq Flows
  BY <1>1
<1> HIDE DEF fn
<1>5. AllOK(all, fn)
  BY <1>1, <1>2, SnapshotStaysOK DEF AllOK
<1>6. WithinBudget(all, fn, individually)
  BY <1>2 DEF WithinBudget, Ordered
<1>7. Ordered(all, fn, individually)
  BY <1>1, <1>2, <1>3, <1>4, <1>5, <1>6 DEF Ordered
<1> QED  BY <1>7 DEF fn

-------------------------------------------------------------------------------
(***************************************************************************)
(* The aggregate half of penny::processPacket, from flows to fn.           *)
(***************************************************************************)
\* Moving the head of one list to the end of the other changes nothing.
LEMMA MoveHead ==
  ASSUME NEW T, NEW s \in Seq(T), NEW t \in Seq(T), t # <<>>
  PROVE  /\ Append(s, Head(t)) \in Seq(T)
         /\ Tail(t) \in Seq(T)
         /\ Append(s, Head(t)) \o Tail(t) = s \o t
<1> DEFINE u == Append(s, Head(t))
           v == Tail(t)
           n == Len(s)
           m == Len(t)
<1>1. n \in Nat /\ m \in Nat /\ m > 0 /\ Head(t) = t[1] /\ Head(t) \in T
  BY EmptySeq, HeadTailProperties
<1>2. v \in Seq(T) /\ Len(v) = m - 1 /\ \A i \in 1..(m - 1) : v[i] = t[i + 1]
  BY HeadTailProperties
<1>3. /\ u \in Seq(T) /\ Len(u) = n + 1 /\ u[n + 1] = t[1]
      /\ \A i \in 1..n : u[i] = s[i]
  BY <1>1
<1> HIDE DEF u, v
<1>4. /\ u \o v \in Seq(T) /\ Len(u \o v) = (n + 1) + (m - 1)
      /\ \A i \in 1..((n + 1) + (m - 1)) :
           (u \o v)[i] = IF i <= n + 1 THEN u[i] ELSE v[i - (n + 1)]
  <2>1. /\ u \o v \in Seq(T) /\ Len(u \o v) = Len(u) + Len(v)
        /\ \A i \in 1..(Len(u) + Len(v)) :
             (u \o v)[i] = IF i <= Len(u) THEN u[i] ELSE v[i - Len(u)]
    BY <1>2, <1>3, ConcatProperties
  <2>2. Len(u) = n + 1 /\ Len(v) = m - 1
    BY <1>2, <1>3
  <2> QED  BY ONLY <2>1, <2>2, Zenon
<1>5. /\ s \o t \in Seq(T) /\ Len(s \o t) = n + m
      /\ \A i \in 1..(n + m) :
           (s \o t)[i] = IF i <= n THEN s[i] ELSE t[i - n]
  BY ConcatProperties
<1>6. ASSUME NEW i \in 1..(n + m) PROVE (u \o v)[i] = (s \o t)[i]
  <2>1. i \in 1..((n + 1) + (m - 1)) /\ i \in Nat
    BY <1>1
  <2>6. i <= n \/ i = n + 1 \/ i > n + 1
    BY <1>1, <2>1
  <2>2. /\ (u \o v)[i] = IF i <= n + 1 THEN u[i] ELSE v[i - (n + 1)]
        /\ (s \o t)[i] = IF i <= n THEN s[i] ELSE t[i - n]
    BY <1>4, <1>5, <2>1
  <2>3. CASE i <= n
    <3>1. i \in 1..n
      BY <1>1, <2>1, <2>3
    <3> QED  BY <1>1, <1>3, <2>1, <2>2, <2>3, <3>1
  <2>4. CASE i = n + 1
    BY <1>1, <1>3, <2>2, <2>4
  <2>5. CASE i > n + 1
    <3> DEFINE j == i - (n + 1)
    <3>1. j \in 1..(m - 1) /\ j + 1 = i - n
      BY <1>1, <2>1, <2>5
    <3>2. v[j] = t[j + 1]
      BY <1>2, <3>1
    <3>3. (u \o v)[i] = v[j] /\ (s \o t)[i] = t[i - n]
      BY <1>1, <2>1, <2>2, <2>5
    <3> QED  BY <3>1, <3>2, <3>3
  <2> QED  BY <2>3, <2>4, <2>5, <2>6
<1>7. Len(u \o v) = n + m
  BY <1>1, <1>4
<1>8. u \o v = s \o t
  BY <1>4, <1>5, <1>6, <1>7, SeqEqual
<1> QED  BY <1>2, <1>3, <1>8 DEF u, v

\* What is added to the second list is added to both.
LEMMA AddLast ==
  ASSUME NEW T, NEW s \in Seq(T), NEW t \in Seq(T), NEW e \in T
  PROVE  s \o Append(t, e) = Append(s \o t, e)
<1> DEFINE n == Len(s)
           m == Len(t)
           u == Append(t, e)
           v == s \o t
           w == Append(v, e)
<1>1. n \in Nat /\ m \in Nat
  OBVIOUS
<1>2. u \in Seq(T) /\ Len(u) = m + 1 /\ u[m + 1] = e /\ \A i \in 1..m : u[i] = t[i]
  OBVIOUS
<1>3. /\ v \in Seq(T) /\ Len(v) = n + m
      /\ \A i \in 1..(n + m) : v[i] = IF i <= n THEN s[i] ELSE t[i - n]
  BY ConcatProperties
<1> HIDE DEF u, v
<1>4. /\ w \in Seq(T) /\ Len(w) = n + m + 1 /\ w[n + m + 1] = e
      /\ \A i \in 1..(n + m) : w[i] = v[i]
  BY <1>1, <1>3
<1>5. /\ s \o u \in Seq(T) /\ Len(s \o u) = n + (m + 1)
      /\ \A i \in 1..(n + (m + 1)) :
           (s \o u)[i] = IF i <= n THEN s[i] ELSE u[i - n]
  <2>1. /\ s \o u \in Seq(T) /\ Len(s \o u) = n + Len(u)
        /\ \A i \in 1..(n + Len(u)) :
             (s \o u)[i] = IF i <= n THEN s[i] ELSE u[i - n]
    BY <1>2, ConcatProperties
  <2>2. Len(u) = m + 1
    BY <1>2
  <2> QED  BY ONLY <2>1, <2>2, Zenon
<1> HIDE DEF w
<1>6. ASSUME NEW i \in 1..(n + (m + 1)) PROVE (s \o u)[i] = w[i]
  <2>1. (s \o u)[i] = IF i <= n THEN s[i] ELSE u[i - n]
    BY <1>5
  <2>2. CASE i = n + m + 1
    BY <1>1, <1>2, <1>4, <2>1, <2>2
  <2>3. CASE i # n + m + 1
    <3>1. i \in 1..(n + m)
      BY <1>1, <2>3
    <3>2. w[i] = IF i <= n THEN s[i] ELSE t[i - n]
      BY <1>3, <1>4, <3>1
    <3>3. i > n => i - n \in 1..m
      BY <1>1, <3>1
    <3> QED  BY <1>1, <1>2, <2>1, <3>1, <3>2, <3>3
  <2> QED  BY <2>2, <2>3
<1>7. Len(s \o u) = Len(w)
  BY <1>1, <1>4, <1>5
<1>8. s \o u = w
  BY <1>4, <1>5, <1>6, <1>7, SeqEqual
<1> QED  BY <1>8 DEF u, v, w

\* s and t put together, and what is there when u takes the place of t.
PutTogether(s, t, u) ==
  /\ Len(s \o u) = Len(s \o t)
  /\ Len(s \o t) = Len(s) + Len(t)
  /\ \A k \in 1..Len(s \o t) :
       \/ (s \o u)[k] = s[k] /\ (s \o t)[k] = s[k]
       \/ \E j \in 1..Len(t) : (s \o u)[k] = u[j] /\ (s \o t)[k] = t[j]
  /\ \A j \in 1..Len(t) : /\ Len(s) + j \in 1..Len(s \o t)
                          /\ (s \o t)[Len(s) + j] = t[j]
  /\ \A k \in 1..Len(s) : /\ k \in 1..Len(s \o t)
                          /\ (s \o t)[k] = s[k]

\* The second list updated element by element, the first one kept.
LEMMA SecondUpdated ==
  ASSUME NEW T, NEW s \in Seq(T), NEW t \in Seq(T), NEW u \in Seq(T),
         Len(u) = Len(t)
  PROVE  s \o u \in Seq(T) /\ PutTogether(s, t, u)
<1> DEFINE n == Len(s)
           m == Len(t)
<1>1. n \in Nat /\ m \in Nat
  OBVIOUS
<1>2. /\ Len(s \o t) = n + m
      /\ \A i \in 1..(n + m) : (s \o t)[i] = IF i <= n THEN s[i] ELSE t[i - n]
  BY ConcatProperties
<1>3. /\ s \o u \in Seq(T) /\ Len(s \o u) = n + m
      /\ \A i \in 1..(n + m) : (s \o u)[i] = IF i <= n THEN s[i] ELSE u[i - n]
  <2>1. /\ s \o u \in Seq(T) /\ Len(s \o u) = n + Len(u)
        /\ \A i \in 1..(n + Len(u)) :
             (s \o u)[i] = IF i <= n THEN s[i] ELSE u[i - n]
    BY ConcatProperties
  <2>2. Len(u) = m
    OBVIOUS
  <2> QED  BY ONLY <2>1, <2>2, Zenon
<1>4. ASSUME NEW k \in 1..(n + m), ~(k \in 1..n)
      PROVE  /\ k - n \in 1..m /\ k = n + (k - n)
             /\ (s \o u)[k] = u[k - n] /\ (s \o t)[k] = t[k - n]
  BY <1>1, <1>2, <1>3, <1>4
<1>5. ASSUME NEW k \in 1..n
      PROVE  /\ k \in 1..(n + m)
             /\ (s \o u)[k] = s[k] /\ (s \o t)[k] = s[k]
  BY <1>1, <1>2, <1>3
<1>6. ASSUME NEW j \in 1..m
      PROVE  n + j \in 1..(n + m) /\ (s \o t)[n + j] = t[j]
  <2>1. n + j \in 1..(n + m) /\ ~(n + j <= n) /\ (n + j) - n = j
    BY <1>1
  <2> QED  BY <1>2, <2>1
<1> HIDE DEF n, m
<1> QED  BY <1>2, <1>3, <1>4, <1>5, <1>6 DEF n, m, PutTogether

\* The updates leave the order of the snapshots, and all but the front
\* unsettled.
LEMMA UpdatesOK ==
  ASSUME AggrInv, NEW fn, Continues(flows, fn), pendingDropSnapsList # <<>>
  PROVE  LET P == pendingDropSnapsList
             U == UpdatedSnapshots(fn)
         IN
         /\ U \in Seq(AnySnapshot) /\ Len(U) = Len(P)
         /\ SettlesAll(AllSnapshots, evaluatedSnapsList \o U, fn)
         /\ \A k \in 1..Len(P) : SnapshotOK(U[k], fn)
         /\ Head(P).counters.pendingDroppedPkts = 0
              => Head(U).counters.pendingDroppedPkts = 0
         /\ \A k \in 2..Len(P) : UnsettledIn(U[k], U[k].flowId, U[k].packetId)
<1> DEFINE E == evaluatedSnapsList
           P == pendingDropSnapsList
           All == AllSnapshots
           U == UpdatedSnapshots(fn)
           acs == Head(P)
           n == Len(E)
           m == Len(P)
<1>1. /\ E \in Seq(AnySnapshot) /\ P \in Seq(AnySnapshot)
      /\ Ordered(All, flows, indivFlowsEnabled)
      /\ LaterUnsettled
      /\ All = E \o P
  BY DEF AggrInv, AllSnapshots
<1>2. /\ n \in Nat /\ m \in Nat /\ m > 0 /\ 1 \in 1..m
      /\ DOMAIN P = 1..m /\ acs = P[1]
      /\ Len(All) = n + m /\ Len(All) \in Nat
  BY <1>1, EmptySeq, ConcatProperties, LenProperties
<1>3. /\ \A j \in 1..m : n + j \in 1..Len(All) /\ All[n + j] = P[j]
      /\ \A k \in 1..n : k \in 1..Len(All) /\ All[k] = E[k]
  <2>1. PutTogether(E, P, P)
    BY <1>1, SecondUpdated
  <2> QED  BY <1>1, <2>1, Zenon DEF PutTogether
<1>4. /\ FlowsGood(flows) /\ FlowsGood(fn) /\ Grows(flows, fn)
      /\ DOMAIN fn \subseteq Flows
      /\ AllOK(All, flows) /\ Follows(All, flows, indivFlowsEnabled)
  BY <1>1 DEF Ordered, Continues
<1>5. /\ DOMAIN U = 1..m
      /\ \A k \in 1..m : U[k] = Updated(P[k], acs, fn)
      /\ U = [k \in 1..m |-> U[k]]
  BY <1>2 DEF UpdatedSnapshots, Updated
<1> HIDE DEF E, P, All, U, acs, n, m
<1>6. ASSUME NEW k \in 1..m
      PROVE  /\ SnapshotOK(P[k], flows)
             /\ SnapshotOK(P[k], fn)
             /\ acs.flowId \in DOMAIN P[k].lists
             /\ SnapshotOK(U[k], fn)
             /\ SettlesAt(P[k], U[k], acs.flowId, acs.packetId)
             /\ U[k] \in AnySnapshot
  <2>1. /\ n + 1 \in 1..Len(All) /\ All[n + 1] = acs
        /\ n + k \in 1..Len(All) /\ All[n + k] = P[k]
        /\ n + 1 <= n + k
    BY <1>2, <1>3
  <2>2. SnapshotOK(P[k], flows) /\ acs.flowId \in DOMAIN P[k].lists
    BY <1>4, <2>1 DEF AllOK
  <2>3. SnapshotOK(P[k], fn)
    BY <1>4, <2>2, SnapshotStaysOK
  <2>4. /\ SnapshotOK(U[k], fn)
        /\ SettlesAt(P[k], U[k], acs.flowId, acs.packetId)
    BY <1>4, <1>5, <2>2, <2>3, UpdatedOK
  <2>5. U[k] \in AnySnapshot
    BY <1>4, <2>4 DEF SnapshotOK, AnySnapshot
  <2> QED  BY <2>2, <2>3, <2>4, <2>5
<1>7. U \in Seq(AnySnapshot) /\ Len(U) = m
  <2>1. \A k \in 1..m : U[k] \in AnySnapshot
    BY <1>6
  <2>2. DOMAIN U = 1..m /\ U = [k \in 1..m |-> U[k]]
    BY <1>5
  <2>3. U \in [1..m -> AnySnapshot]
    BY ONLY <2>1, <2>2
  <2> QED  BY <1>2, <2>3
<1>8. SettlesAll(All, E \o U, fn)
  <2>1. /\ Len(E \o U) = Len(All)
        /\ \A k \in 1..Len(All) :
             \/ (E \o U)[k] = E[k] /\ All[k] = E[k]
             \/ \E j \in 1..m : (E \o U)[k] = U[j] /\ All[k] = P[j]
    <3>1. Len(U) = Len(P)
      BY <1>7 DEF m
    <3>2. PutTogether(E, P, U)
      BY <1>1, <1>7, <3>1, SecondUpdated
    <3> QED  BY <1>1, <3>2, Zenon DEF PutTogether, m
  <2>2. ASSUME NEW k \in 1..Len(All)
        PROVE  /\ SnapshotOK((E \o U)[k], fn)
               /\ \E g, id : SettlesAt(All[k], (E \o U)[k], g, id)
    <3>1. CASE (E \o U)[k] = E[k] /\ All[k] = E[k]
      <4>1. SnapshotOK(All[k], fn)
        BY <1>4, SnapshotStaysOK DEF AllOK
      <4>2. SettlesAt(E[k], E[k], 0, 0)
        BY DEF SettlesAt
      <4> QED  BY <3>1, <4>1, <4>2
    <3>2. CASE \E j \in 1..m : (E \o U)[k] = U[j] /\ All[k] = P[j]
      <4>1. PICK j \in 1..m : (E \o U)[k] = U[j] /\ All[k] = P[j]
        BY <3>2
      <4> QED  BY <1>6, <4>1
    <3> QED  BY <2>1, <3>1, <3>2
  <2> QED  BY <2>1, <2>2 DEF SettlesAll
<1>9. ASSUME acs.counters.pendingDroppedPkts = 0
      PROVE  Head(U).counters.pendingDroppedPkts = 0
  <2>1. Head(U) = U[1]
    BY <1>2, <1>7
  <2>2. U[1].counters.pendingDroppedPkts = 0
    BY <1>2, <1>4, <1>6, <1>9, SettledStays
  <2> QED  BY <2>1, <2>2
<1>10. ASSUME NEW k \in 2..m
       PROVE  UnsettledIn(U[k], U[k].flowId, U[k].packetId)
  <2>1. k \in 1..m /\ k > 1
    BY <1>2
  <2>2. UnsettledIn(P[k], P[k].flowId, P[k].packetId)
    BY <1>1, <1>2, <2>1 DEF LaterUnsettled, P
  <2>3. P[k].flowId # acs.flowId \/ P[k].packetId # acs.packetId
    <3>1. /\ n + 1 \in 1..Len(All) /\ All[n + 1] = acs
          /\ n + k \in 1..Len(All) /\ All[n + k] = P[k]
          /\ n + 1 # n + k
      BY <1>2, <1>3, <2>1
    <3>2. P[k].flowId \in DOMAIN flows
      BY <1>6, <2>1 DEF SnapshotOK
    <3> QED  BY <1>2, <1>4, <3>1, <3>2, SnapshotsOnce
  <2>4. /\ SnapshotOK(P[k], flows) /\ SnapshotOK(U[k], fn)
        /\ SettlesAt(P[k], U[k], acs.flowId, acs.packetId)
    BY <1>6, <2>1
  <2>5. UnsettledIn(U[k], P[k].flowId, P[k].packetId)
    BY <1>4, <2>2, <2>3, <2>4, SettledStays
  <2> QED  BY <2>4, <2>5 DEF SettlesAt
<1> QED  BY <1>6, <1>7, <1>8, <1>9, <1>10 DEF E, P, All, U, acs, n, m

\* What the aggregate half leaves to the rest of the call.
HalfOK(r, fn) ==
  /\ r.evaluated \in Seq(AnySnapshot)
  /\ r.pending \in Seq(AnySnapshot)
  /\ \A after \in BOOLEAN : (indivFlowsEnabled => after)
                              => Ordered(r.evaluated \o r.pending, fn, after)
  /\ \A k \in 1..Len(r.evaluated) :
       r.evaluated[k].counters.pendingDroppedPkts = 0
  /\ \A k \in 2..Len(r.pending) :
       UnsettledIn(r.pending[k], r.pending[k].flowId, r.pending[k].packetId)

LeavesFront(r) ==
  /\ r.evaluated = evaluatedSnapsList
  /\ r.verdict = "NoDecision"

JudgesFront(r) ==
  /\ ~indivFlowsEnabled
  /\ pendingDropSnapsList # <<>>
  /\ Head(pendingDropSnapsList).counters.pendingDroppedPkts = 0
  /\ \E s \in AnySnapshot : /\ r.evaluated = Append(evaluatedSnapsList, s)
                            /\ r.verdict = Verdict(s.counters)
  /\ r.pending # <<>> => Head(r.pending).counters.pendingDroppedPkts # 0

\* The front is judged, once it is settled, or left.
LEMMA AggregateHalf ==
  ASSUME AggrInv, NEW fn, Continues(flows, fn)
  PROVE  LET r == CheckAggregates(fn) IN
         HalfOK(r, fn) /\ (LeavesFront(r) \/ JudgesFront(r))
<1> DEFINE r == CheckAggregates(fn)
           E == evaluatedSnapsList
           P == pendingDropSnapsList
           U == UpdatedSnapshots(fn)
           m == Len(P)
<1>1. /\ E \in Seq(AnySnapshot) /\ P \in Seq(AnySnapshot)
      /\ Ordered(AllSnapshots, flows, indivFlowsEnabled)
      /\ indivFlowsEnabled \in BOOLEAN
      /\ AllSnapshots = E \o P
      /\ FlowsGood(fn)
  BY DEF AggrInv, VerdictsOK, AllSnapshots, Continues
<1>2. \A k \in 1..Len(E) : E[k].counters.pendingDroppedPkts = 0
  BY <1>1 DEF AggrInv, EvaluatedAreSettled
<1>3. \A k \in 2..Len(P) : UnsettledIn(P[k], P[k].flowId, P[k].packetId)
  BY <1>1 DEF AggrInv, LaterUnsettled
<1>4. CASE P = <<>> \/ indivFlowsEnabled
  <2>1. /\ r.pending = P
        /\ r.evaluated = E
        /\ r.verdict = "NoDecision"
    BY <1>4 DEF CheckAggregates
  <2>2. ASSUME NEW after \in BOOLEAN, indivFlowsEnabled => after
        PROVE  Ordered(E \o P, fn, after)
    BY <1>1, <2>2, OrderedStays
  <2> HIDE DEF r, E, P
  <2>3. HalfOK(r, fn)
    BY <1>1, <1>2, <1>3, <2>1, <2>2, Zenon DEF HalfOK
  <2> QED  BY <2>1, <2>3 DEF LeavesFront, r, E
<1>5. CASE P # <<>> /\ ~indivFlowsEnabled
  <2>1. /\ U \in Seq(AnySnapshot) /\ Len(U) = m
        /\ SettlesAll(AllSnapshots, E \o U, fn)
        /\ \A k \in 1..m : SnapshotOK(U[k], fn)
        /\ Head(P).counters.pendingDroppedPkts = 0
             => Head(U).counters.pendingDroppedPkts = 0
        /\ \A k \in 2..m : UnsettledIn(U[k], U[k].flowId, U[k].packetId)
    BY <1>5, UpdatesOK
  <2>2. m \in Nat /\ m > 0
    BY <1>1, <1>5, EmptySeq
  <2>3. U # <<>>
    BY <2>1, <2>2, EmptySeq
  <2>4. /\ ~FrontSettled(fn) => r = [pending |-> U, evaluated |-> E,
                                     verdict |-> "NoDecision"]
        /\ FrontSettled(fn) => r = JudgeFront(U)
    BY <1>5 DEF CheckAggregates
  <2> HIDE DEF U, r
  <2>5. ASSUME NEW after \in BOOLEAN, indivFlowsEnabled => after
        PROVE  Ordered(E \o U, fn, after)
    <3>1. E \o U \in Seq(AnySnapshot)
      BY <1>1, <2>1, ConcatProperties
    <3>2. Continues(flows, fn)
      OBVIOUS
    <3>3. SettlesAll(AllSnapshots, E \o U, fn)
      BY <2>1
    <3>4. Ordered(AllSnapshots, flows, indivFlowsEnabled)
      BY <1>1
    <3>5. after \in BOOLEAN /\ (indivFlowsEnabled => after)
      BY <2>5
    <3> DEFINE bll == E \o U
               before == indivFlowsEnabled
               all == AllSnapshots
    <3>6. /\ Continues(flows, fn) /\ bll \in Seq(AnySnapshot)
          /\ SettlesAll(all, bll, fn) /\ after \in BOOLEAN
          /\ (before => after) /\ Ordered(all, flows, before)
      BY <3>1, <3>2, <3>3, <3>4, <3>5
    <3> HIDE DEF bll, before, all
    <3>7. Ordered(bll, fn, after)
      BY ONLY <3>6, OrderedContinues
    <3> QED  BY <3>7 DEF bll
  <2>6. CASE ~FrontSettled(fn)
    <3>1. r.pending = U /\ r.evaluated = E /\ r.verdict = "NoDecision"
      BY <2>4, <2>6
    <3>2. \A k \in 2..Len(U) : UnsettledIn(U[k], U[k].flowId, U[k].packetId)
      BY <2>1
    <3> HIDE DEF E
    <3>3. HalfOK(r, fn)
      BY <1>1, <1>2, <2>1, <2>5, <3>1, <3>2, Zenon DEF HalfOK
    <3> QED  BY <3>1, <3>3 DEF LeavesFront, r, E
  <2>7. CASE FrontSettled(fn)
    <3> DEFINE s == Head(U)
    <3>1. /\ r.pending = Tail(U)
          /\ r.evaluated = Append(E, s)
          /\ r.verdict = Verdict(s.counters)
      BY <2>4, <2>7 DEF JudgeFront
    <3>2. /\ Append(E, s) \in Seq(AnySnapshot)
          /\ Tail(U) \in Seq(AnySnapshot)
          /\ Append(E, s) \o Tail(U) = E \o U
      BY <1>1, <2>1, <2>3, MoveHead
    <3>3. /\ s \in AnySnapshot
          /\ Len(Tail(U)) = m - 1
          /\ \A i \in 1..Len(Tail(U)) : Tail(U)[i] = U[i + 1]
      BY <2>1, <2>3, HeadTailProperties
    <3>4. s.counters.pendingDroppedPkts = 0
          /\ Head(P).counters.pendingDroppedPkts = 0
      BY <2>1, <2>7 DEF FrontSettled, FrontCopy
    <3> HIDE DEF s
    <3>5. \A k \in 1..Len(Append(E, s)) :
            Append(E, s)[k].counters.pendingDroppedPkts = 0
      <4>1. Len(Append(E, s)) = Len(E) + 1 /\ Len(E) \in Nat
        BY <1>1
      <4>2. ASSUME NEW k \in 1..(Len(E) + 1)
            PROVE  Append(E, s)[k] = IF k = Len(E) + 1 THEN s ELSE E[k]
        BY <1>1
      <4>3. ASSUME NEW k \in 1..(Len(E) + 1)
            PROVE  Append(E, s)[k].counters.pendingDroppedPkts = 0
        <5>1. k = Len(E) + 1 \/ k \in 1..Len(E)
          BY <4>1
        <5> QED  BY <1>2, <3>4, <4>1, <4>2, <5>1
      <4> QED  BY <4>1, <4>3
    <3>6. ASSUME NEW k \in 1..Len(Tail(U))
          PROVE  /\ UnsettledIn(Tail(U)[k], Tail(U)[k].flowId,
                                Tail(U)[k].packetId)
                 /\ Tail(U)[k].counters.pendingDroppedPkts # 0
      <4>1. k + 1 \in 2..m /\ k + 1 \in 1..m /\ Tail(U)[k] = U[k + 1]
        BY <2>2, <3>3
      <4> DEFINE t == U[k + 1]
      <4>2. SnapshotOK(t, fn) /\ UnsettledIn(t, t.flowId, t.packetId)
        BY <2>1, <4>1
      <4>3. t.counters.pendingDroppedPkts # 0
        BY <1>1, <4>2, PendingIsUnsettled DEF UnsettledIn
      <4> QED  BY <4>1, <4>2, <4>3
    <3>7. r.pending # <<>> => Head(r.pending).counters.pendingDroppedPkts # 0
      <4>1. ASSUME Tail(U) # <<>> PROVE Head(Tail(U)) = Tail(U)[1]
                                        /\ 1 \in 1..Len(Tail(U))
        BY <3>2, <4>1, EmptySeq
      <4> QED  BY <3>1, <3>6, <4>1
    <3>8. \A k \in 2..Len(Tail(U)) :
            UnsettledIn(Tail(U)[k], Tail(U)[k].flowId, Tail(U)[k].packetId)
      BY <3>6
    <3>9. HalfOK(r, fn)
      BY <2>5, <3>1, <3>2, <3>5, <3>8, Zenon DEF HalfOK
    <3>10. JudgesFront(r)
      BY <1>5, <3>1, <3>3, <3>4, <3>7 DEF JudgesFront
    <3> QED  BY <3>9, <3>10 DEF r
  <2> QED  BY <2>6, <2>7 DEF r
<1> QED  BY <1>4, <1>5

-------------------------------------------------------------------------------
(***************************************************************************)
(* The whole of penny::processPacket.                                      *)
(***************************************************************************)
\* The outcome of a call, r being what its aggregate half gives.
Outcome(r) ==
  LET ends == r.verdict \in {"ClosedLoop", "DuplicatesExceeded"} IN
  /\ evaluatedSnapsList' = r.evaluated
  /\ indivFlowsEnabled' = (indivFlowsEnabled \/ r.verdict = "NotClosedLoop")
  /\ finished' = (finished \/ ends)
  /\ finalOutcome' = IF ends THEN r.verdict ELSE finalOutcome
  /\ indivFlowsClosedLoop' = {}

\* The packet goes through, or it is dropped and a snapshot taken.
GoesThrough(r, fn) ==
  /\ flows' = fn
  /\ pendingDropSnapsList' = r.pending

IsDropped(r, fn, f, p) ==
  /\ ~finished'
  /\ IsDroppable(flows[f], p)
  /\ \/ indivFlowsEnabled'
     \/ Len(r.pending) + Len(r.evaluated) < MaxPacketDrops
  /\ flows' = [fn EXCEPT ![f] = DropPacket(@, p)]
  /\ pendingDropSnapsList' =
       IF indivFlowsEnabled'
         THEN r.pending
         ELSE Append(r.pending, NewAggrSnapshot(flows', f, p))

\* No flow is ever found to be closed-loop on its own.
LEMMA NoneClosedLoop ==
  ASSUME NEW flow, NEW f, NEW droppable
  PROVE  NewClosedLoopFlows(flow, f, droppable) = {}
<1>1. "NoDecision" # "ClosedLoop"
  OBVIOUS
<1> QED  BY <1>1 DEF NewClosedLoopFlows

\* So a call ends the run by an aggregate verdict only.
LEMMA ProcessParts ==
  ASSUME VerdictsOK, NEW f \in Tracked, NEW p \in Packets, Process(f, p)
  PROVE  LET fn == [flows EXCEPT ![f] = ProcessPacket(@, p)]
             r  == CheckAggregates(fn)
         IN
         Outcome(r) /\ (GoesThrough(r, fn) \/ IsDropped(r, fn, f, p))
<1> DEFINE fn == [flows EXCEPT ![f] = ProcessPacket(@, p)]
           r == CheckAggregates(fn)
           droppable == IsDroppable(flows[f], p)
           individually == indivFlowsEnabled \/ r.verdict = "NotClosedLoop"
           enough == /\ individually
                     /\ Cardinality(indivFlowsClosedLoop) > MinClosedLoopFlows
           ends == r.verdict \in {"ClosedLoop", "DuplicatesExceeded"}
           done == finished \/ ends \/ enough
<1>1. indivFlowsClosedLoop = {} /\ ~enough
  BY FS_EmptySet, PennyAssumption DEF VerdictsOK
<1>2. /\ evaluatedSnapsList' = r.evaluated
      /\ indivFlowsEnabled' = individually
      /\ finished' = done
      /\ finalOutcome' = CASE enough            -> "ClosedLoop"
                           [] ends /\ ~enough   -> r.verdict
                           [] ~ends /\ ~enough  -> finalOutcome
      /\ indivFlowsClosedLoop' =
           IF done THEN indivFlowsClosedLoop
                   ELSE indivFlowsClosedLoop
                          \cup NewClosedLoopFlows(fn[f], f, droppable)
      /\ \/ GoesThrough(r, fn)
         \/ /\ ~done
            /\ droppable
            /\ MayDrop(fn[f], r, individually)
            /\ flows' = [fn EXCEPT ![f] = DropPacket(@, p)]
            /\ pendingDropSnapsList' =
                 IF individually
                   THEN r.pending
                   ELSE Append(r.pending, NewAggrSnapshot(flows', f, p))
  BY DEF Process, GoesThrough
<1> HIDE DEF fn, r
<1>3. indivFlowsClosedLoop' = {}
  BY <1>1, <1>2, NoneClosedLoop
<1>4. finished' = (finished \/ ends)
  BY <1>1, <1>2
<1>5. finalOutcome' = IF ends THEN r.verdict ELSE finalOutcome
  BY <1>1, <1>2
<1>6. Outcome(r)
  BY <1>2, <1>3, <1>4, <1>5 DEF Outcome
<1>7. CASE GoesThrough(r, fn)
  BY <1>6, <1>7 DEF fn, r
<1>8. CASE /\ ~done
           /\ droppable
           /\ MayDrop(fn[f], r, individually)
           /\ flows' = [fn EXCEPT ![f] = DropPacket(@, p)]
           /\ pendingDropSnapsList' =
                IF individually
                  THEN r.pending
                  ELSE Append(r.pending, NewAggrSnapshot(flows', f, p))
  <2>1. \/ indivFlowsEnabled'
        \/ Len(r.pending) + Len(r.evaluated) < MaxPacketDrops
    BY <1>2, <1>8 DEF MayDrop
  <2>2. ~finished' /\ IsDroppable(flows[f], p)
    BY <1>2, <1>8
  <2>3. pendingDropSnapsList' =
          IF indivFlowsEnabled'
            THEN r.pending
            ELSE Append(r.pending, NewAggrSnapshot(flows', f, p))
    BY <1>2, <1>8
  <2>4. flows' = [fn EXCEPT ![f] = DropPacket(@, p)]
    BY <1>8
  <2>5. IsDropped(r, fn, f, p)
    BY <2>1, <2>2, <2>3, <2>4 DEF IsDropped
  <2> QED  BY <1>6, <2>5 DEF fn, r
<1> QED  BY <1>2, <1>7, <1>8

\* What the snapshots are to be after a step.
ListsOK ==
  /\ evaluatedSnapsList \in Seq(AnySnapshot)
  /\ pendingDropSnapsList \in Seq(AnySnapshot)
  /\ Ordered(AllSnapshots, flows, indivFlowsEnabled)
  /\ EvaluatedAreSettled
  /\ LaterUnsettled

\* A call keeps the snapshots in order and settled one by one.
LEMMA ProcessLists ==
  ASSUME AggrInv, NEW f \in Tracked, NEW p \in Packets, Process(f, p)
  PROVE  ListsOK'
<1> DEFINE fn == [flows EXCEPT ![f] = ProcessPacket(@, p)]
           r == CheckAggregates(fn)
           E == r.evaluated
           Q == r.pending
<1>1. FlowsGood(flows) /\ VerdictsOK
  BY DEF AggrInv, Ordered
<1>2. Continues(flows, fn)
  BY <1>1, ProcessContinues DEF Tracked
<1>3. /\ HalfOK(r, fn)
      /\ Outcome(r)
      /\ GoesThrough(r, fn) \/ IsDropped(r, fn, f, p)
  BY <1>1, <1>2, AggregateHalf, ProcessParts
<1> HIDE DEF r
<1>4. /\ E \in Seq(AnySnapshot)
      /\ Q \in Seq(AnySnapshot)
      /\ \A k \in 1..Len(E) : E[k].counters.pendingDroppedPkts = 0
      /\ \A k \in 2..Len(Q) : UnsettledIn(Q[k], Q[k].flowId, Q[k].packetId)
  BY <1>3 DEF HalfOK
<1>5. /\ indivFlowsEnabled' \in BOOLEAN
      /\ indivFlowsEnabled => indivFlowsEnabled'
      /\ evaluatedSnapsList' = E
  BY <1>1, <1>3 DEF Outcome, VerdictsOK
<1>6. Ordered(E \o Q, fn, indivFlowsEnabled')
  BY <1>3, <1>5 DEF HalfOK
<1> HIDE DEF E, Q
<1>7. EvaluatedAreSettled'
  BY <1>4, <1>5 DEF EvaluatedAreSettled
<1>8. AllSnapshots' = E \o pendingDropSnapsList'
  BY <1>5 DEF AllSnapshots
<1>9. CASE GoesThrough(r, fn)
  <2>1. pendingDropSnapsList' = Q /\ flows' = fn
    BY <1>9 DEF GoesThrough, Q
  <2>2. Ordered(AllSnapshots, flows, indivFlowsEnabled)'
    BY <1>6, <1>8, <2>1
  <2>3. LaterUnsettled'
    BY <1>4, <2>1 DEF LaterUnsettled
  <2> QED  BY <1>4, <1>5, <1>7, <2>1, <2>2, <2>3 DEF ListsOK
<1>10. CASE IsDropped(r, fn, f, p)
  <2> DEFINE s == NewAggrSnapshot(flows', f, p)
  <2>1. /\ flows' = [fn EXCEPT ![f] = DropPacket(@, p)]
        /\ indivFlowsEnabled' \/ Len(Q) + Len(E) < MaxPacketDrops
        /\ pendingDropSnapsList' =
             IF indivFlowsEnabled' THEN Q ELSE Append(Q, s)
        /\ IsDroppable(flows[f], p)
    BY <1>10 DEF IsDropped, E, Q
  <2>2. f \in DOMAIN flows
    BY DEF Tracked
  <2>3. /\ p \in DataPackets
        /\ DropsOne(fn, flows', f, PacketId(p))
        /\ PacketId(p) \in flows'[f].metaLists.droppedPcksList
        /\ PacketId(p) \notin flows'[f].metaLists.expiredPcksList
        /\ PacketId(p) \notin flows'[f].metaLists.retransmittedPktsList
    BY <1>1, <2>1, <2>2, DropIsOne
  <2> HIDE DEF fn
  <2>4. Len(E \o Q) = Len(Q) + Len(E)
    BY <1>4
  <2>5. /\ s \in AnySnapshot
        /\ UnsettledIn(s, s.flowId, s.packetId)
        /\ indivFlowsEnabled' => Ordered(E \o Q, flows', TRUE)
        /\ ~indivFlowsEnabled' /\ Len(E \o Q) < MaxPacketDrops
             => Ordered(Append(E \o Q, s), flows', FALSE)
    <3> DEFINE all == E \o Q
               fm == flows'
               individually == indivFlowsEnabled'
    <3>1. /\ Ordered(all, fn, individually)
          /\ p \in DataPackets
          /\ DropsOne(fn, fm, f, PacketId(p))
          /\ PacketId(p) \in fm[f].metaLists.droppedPcksList
          /\ PacketId(p) \notin fm[f].metaLists.expiredPcksList
          /\ PacketId(p) \notin fm[f].metaLists.retransmittedPktsList
      BY <1>6, <2>3
    <3> HIDE DEF all, fm, individually
    <3>2. DropAdded(all, NewAggrSnapshot(fm, f, p), fm, individually)
      BY ONLY <3>1, OrderedDrop
    <3> QED  BY <3>2 DEF DropAdded, all, fm, individually
  <2> HIDE DEF s
  <2>6. CASE indivFlowsEnabled'
    <3>1. pendingDropSnapsList' = Q
      BY <2>1, <2>6
    <3>2. indivFlowsEnabled' = TRUE
      BY <1>5, <2>6
    <3>3. Ordered(AllSnapshots, flows, indivFlowsEnabled)'
      BY <1>8, <2>5, <3>1, <3>2
    <3>4. LaterUnsettled'
      BY <1>4, <3>1 DEF LaterUnsettled
    <3> QED  BY <1>4, <1>5, <1>7, <3>1, <3>3, <3>4 DEF ListsOK
  <2>7. CASE ~indivFlowsEnabled'
    <3>1. pendingDropSnapsList' = Append(Q, s)
      BY <2>1, <2>7
    <3>2. E \o Append(Q, s) = Append(E \o Q, s)
      BY <1>4, <2>5, AddLast
    <3>3. indivFlowsEnabled' = FALSE
      BY <1>5, <2>7
    <3>4. Ordered(Append(E \o Q, s), flows', FALSE)
      BY <2>1, <2>4, <2>5, <2>7
    <3>5. Ordered(AllSnapshots, flows, indivFlowsEnabled)'
      BY <1>8, <3>1, <3>2, <3>3, <3>4
    <3>6. Append(Q, s) \in Seq(AnySnapshot)
      BY <1>4, <2>5
    <3>7. LaterUnsettled'
      <4>1. ASSUME NEW k \in DOMAIN Append(Q, s), k > 1
            PROVE  LET t == Append(Q, s)[k]
                   IN  UnsettledIn(t, t.flowId, t.packetId)
        <5>1. /\ Len(Q) \in Nat /\ k \in 1..(Len(Q) + 1)
              /\ Append(Q, s)[k] = IF k = Len(Q) + 1 THEN s ELSE Q[k]
          BY <1>4, <2>5
        <5>2. k = Len(Q) + 1 \/ k \in 2..Len(Q)
          BY <4>1, <5>1
        <5>3. CASE k = Len(Q) + 1
          BY <2>5, <5>1, <5>3
        <5>4. CASE k \in 2..Len(Q)
          <6>1. Append(Q, s)[k] = Q[k]
            BY <5>1, <5>4
          <6> QED  BY <1>4, <5>4, <6>1
        <5> QED  BY <5>2, <5>3, <5>4
      <4> QED  BY <3>1, <4>1 DEF LaterUnsettled
    <3> QED  BY <1>4, <1>5, <1>7, <3>1, <3>5, <3>6, <3>7 DEF ListsOK
  <2> QED  BY <2>6, <2>7
<1> QED  BY <1>3, <1>9, <1>10

\* A verdict is one of four.
LEMMA VerdictType ==
  ASSUME NEW c
  PROVE  Verdict(c) \in Verdicts
<1>1. Weigh(c) \in {"ClosedLoop", "NotClosedLoop", "NoDecision"}
  <2> DEFINE a == H1(c) > DecisionOdds * H2(c)
             b == DecisionOdds * H1(c) < H2(c)
  <2>1. Weigh(c) = CASE a -> "ClosedLoop"
                     [] b -> "NotClosedLoop"
                     [] OTHER -> "NoDecision"
    BY DEF Weigh
  <2> HIDE DEF a, b
  <2> QED  BY <2>1
<1>2. \/ Verdict(c) \in {"NoDecision", "DuplicatesExceeded"}
      \/ Verdict(c) = Weigh(c)
  <2> DEFINE a == BelowMinimum(c) \/ FDupDenominator(c) < 1
             b == /\ ~BelowMinimum(c)
                  /\ FDupDenominator(c) >= 1
                  /\ TooManyDuplicates(c)
             w == Weigh(c)
  <2>1. Verdict(c) = CASE a -> "NoDecision"
                       [] b -> "DuplicatesExceeded"
                       [] OTHER -> w
    BY DEF Verdict
  <2> HIDE DEF a, b, w
  <2>2. Verdict(c) \in {"NoDecision", "DuplicatesExceeded"} \/ Verdict(c) = w
    BY <2>1
  <2> QED  BY <2>2 DEF w
<1> QED  BY <1>1, <1>2 DEF Verdicts

\* What a call does to the verdicts: the first one decides the run, and a run
\* that is finished keeps what it has found.
LEMMA ProcessVerdicts ==
  ASSUME AggrInv, NEW f \in Tracked, NEW p \in Packets, Process(f, p),
         ~finished \/ spoofed # {}
  PROVE  /\ VerdictsOK'
         /\ finished => /\ finished'
                        /\ UNCHANGED <<finalOutcome, indivFlowsEnabled,
                                       evaluatedSnapsList>>
         /\ ~finished /\ finished' /\ pendingDropSnapsList' # <<>>
              => Head(pendingDropSnapsList)'.counters.pendingDroppedPkts # 0
<1> DEFINE fn == [flows EXCEPT ![f] = ProcessPacket(@, p)]
           r == CheckAggregates(fn)
           E == evaluatedSnapsList
           verdict(k) == Verdict(E[k].counters)
<1>1. VerdictsOK /\ FlowsGood(flows) /\ E \in Seq(AnySnapshot)
  BY DEF AggrInv, Ordered
<1>2. /\ LeavesFront(r) \/ JudgesFront(r)
      /\ Outcome(r)
      /\ GoesThrough(r, fn) \/ IsDropped(r, fn, f, p)
  <2>1. Continues(flows, fn)
    BY <1>1, ProcessContinues DEF Tracked
  <2> QED  BY <1>1, <2>1, AggregateHalf, ProcessParts
<1> HIDE DEF r, fn
<1>3. /\ indivFlowsEnabled \in BOOLEAN
      /\ finished \in BOOLEAN
      /\ finalOutcome \in Verdicts
      /\ indivFlowsClosedLoop = {}
      /\ \A k \in 1..Len(E) :
           /\ k < Len(E) => verdict(k) = "NoDecision"
           /\ ~finished /\ ~indivFlowsEnabled => verdict(k) = "NoDecision"
      /\ finished => /\ ~indivFlowsEnabled
                     /\ E # <<>>
                     /\ finalOutcome = verdict(Len(E))
  BY <1>1 DEF VerdictsOK
<1>4. CASE LeavesFront(r)
  <2>1. /\ evaluatedSnapsList' = E
        /\ indivFlowsEnabled' = indivFlowsEnabled
        /\ finished' = finished
        /\ finalOutcome' = finalOutcome
        /\ indivFlowsClosedLoop' = indivFlowsClosedLoop
    BY <1>2, <1>3, <1>4 DEF LeavesFront, Outcome
  <2>2. VerdictsOK'
    BY <1>1, <2>1 DEF VerdictsOK
  <2> QED  BY <2>1, <2>2
<1>5. CASE JudgesFront(r)
  <2>1. ~finished /\ ~indivFlowsEnabled
    BY <1>5 DEF AggrInv, FrontUnsettled, JudgesFront
  <2>2. PICK s \in AnySnapshot : /\ r.evaluated = Append(E, s)
                                 /\ r.verdict = Verdict(s.counters)
    BY <1>5 DEF JudgesFront
  <2> DEFINE v == Verdict(s.counters)
             ends == v \in {"ClosedLoop", "DuplicatesExceeded"}
  <2>3. /\ evaluatedSnapsList' = Append(E, s)
        /\ indivFlowsEnabled' = (v = "NotClosedLoop")
        /\ finished' = ends
        /\ finalOutcome' = IF ends THEN v ELSE finalOutcome
        /\ indivFlowsClosedLoop' = {}
    BY <1>2, <2>1, <2>2 DEF Outcome
  <2>4. v \in Verdicts
    BY VerdictType
  <2>5. Len(E) \in Nat /\ Len(Append(E, s)) = Len(E) + 1
        /\ Append(E, s) # <<>>
        /\ \A k \in 1..Len(E) : Append(E, s)[k] = E[k]
        /\ Append(E, s)[Len(E) + 1] = s
    BY <1>1
  <2> DEFINE F == Append(E, s)
  <2> HIDE DEF F
  <2>6. ASSUME NEW k \in 1..(Len(E) + 1)
        PROVE  /\ k < Len(E) + 1 => Verdict(F[k].counters) = "NoDecision"
               /\ k = Len(E) + 1 => Verdict(F[k].counters) = v
    <3>1. k \in 1..Len(E) \/ k = Len(E) + 1
      BY <2>5
    <3>2. CASE k \in 1..Len(E)
      <4>1. F[k] = E[k] /\ verdict(k) = "NoDecision"
        BY <1>3, <2>1, <2>5, <3>2 DEF F
      <4> QED  BY <2>5, <3>2, <4>1
    <3>3. CASE k = Len(E) + 1
      BY <2>5, <3>3 DEF F
    <3> QED  BY <3>1, <3>2, <3>3
  <2>7. Len(F) = Len(E) + 1 /\ F # <<>> /\ DOMAIN F = 1..(Len(E) + 1)
    <3>1. F \in Seq(AnySnapshot)
      BY <1>1 DEF F
    <3> QED  BY <2>5, <3>1 DEF F
  <2> HIDE DEF v
  <2>8. /\ indivFlowsEnabled' \in BOOLEAN
        /\ finished' \in BOOLEAN
        /\ finalOutcome' \in Verdicts
    BY <1>3, <2>3, <2>4
  <2>9. \A k \in DOMAIN F :
          /\ k < Len(F) => Verdict(F[k].counters) = "NoDecision"
          /\ ~finished' /\ ~indivFlowsEnabled'
               => Verdict(F[k].counters) = "NoDecision"
    <3>1. ~finished' /\ ~indivFlowsEnabled' => v = "NoDecision"
      BY <2>3, <2>4 DEF Verdicts
    <3>2. ASSUME NEW k \in 1..(Len(E) + 1)
          PROVE  k < Len(E) + 1 \/ k = Len(E) + 1
      BY <2>5
    <3>3. ASSUME NEW k \in 1..(Len(E) + 1)
          PROVE  /\ k < Len(E) + 1 => Verdict(F[k].counters) = "NoDecision"
                 /\ ~finished' /\ ~indivFlowsEnabled'
                      => Verdict(F[k].counters) = "NoDecision"
      BY <2>6, <3>1, <3>2
    <3> QED  BY <2>7, <3>3
  <2>10. finished' => /\ ~indivFlowsEnabled'
                      /\ F # <<>>
                      /\ finalOutcome' = Verdict(F[Len(F)].counters)
    <3>1. Len(E) + 1 \in 1..(Len(E) + 1)
      BY <2>5
    <3>2. Verdict(F[Len(F)].counters) = v
      BY <2>6, <2>7, <3>1
    <3> QED  BY <2>3, <2>7, <3>2
  <2>11. evaluatedSnapsList' = F
    BY <2>3 DEF F
  <2>12. VerdictsOK'
    BY <2>3, <2>8, <2>9, <2>10, <2>11 DEF VerdictsOK
  <2>13. ASSUME finished', pendingDropSnapsList' # <<>>
         PROVE  Head(pendingDropSnapsList)'.counters.pendingDroppedPkts # 0
    <3>1. pendingDropSnapsList' = r.pending
      BY <1>2, <2>13 DEF GoesThrough, IsDropped
    <3> QED  BY <1>5, <2>13, <3>1 DEF JudgesFront
  <2> QED  BY <2>1, <2>12, <2>13
<1> QED  BY <1>2, <1>4, <1>5

-------------------------------------------------------------------------------
(***************************************************************************)
(* The invariant is inductive.                                             *)
(***************************************************************************)
\* At the start nothing was dropped.
LEMMA InitAggregates == Init => AggrInv
<1> SUFFICES ASSUME Init PROVE AggrInv
  OBVIOUS
<1>1. /\ flows = [f \in SpoofedFlows |-> NewFlow]
      /\ pendingDropSnapsList = <<>>
      /\ evaluatedSnapsList = <<>>
      /\ indivFlowsEnabled = FALSE
      /\ indivFlowsClosedLoop = {}
      /\ finished = FALSE
      /\ finalOutcome = "NoDecision"
  BY DEF Init
<1>2. FlowsGood(flows) /\ DOMAIN flows \subseteq Flows
  BY <1>1, NewFlowInv, PennyAssumption DEF FlowsGood, Flows
<1>3. AllSnapshots = <<>>
  BY <1>1 DEF AllSnapshots
<1>4. <<>> \in Seq(AnySnapshot) /\ Len(<<>>) = 0 /\ 1..Len(<<>>) = {}
  OBVIOUS
<1>5. AllOK(<<>>, flows)
  BY <1>4 DEF AllOK
<1>6. Follows(<<>>, flows, FALSE)
  <2>1. ASSUME NEW f \in DOMAIN flows
        PROVE  /\ flows[f].counterSnapsList = <<>>
               /\ CountOf(<<>>, f, 0) = 0
    <3>1. flows[f].counterSnapsList = <<>>
      BY <1>1 DEF NewFlow
    <3>2. {j \in 1..0 : <<>>[j].flowId = f} = {}
      OBVIOUS
    <3> QED  BY <3>1, <3>2, FS_EmptySet, Zenon DEF CountOf
  <2> QED  BY <1>4, <2>1 DEF Follows
<1>7. WithinBudget(<<>>, flows, FALSE)
  <2>1. \A g \in DOMAIN flows : DroppedCounts(flows)[g] = 0
    BY <1>1 DEF DroppedCounts, NewFlow, NoCounters
  <2>2. SumCounters(flows).droppedPkts = 0
    BY <1>2, <2>1, DropsAreInt, SumOfZeros DEF FlowsGood
  <2> QED  BY <1>4, <2>2, PennyAssumption DEF WithinBudget
<1>8. Ordered(AllSnapshots, flows, indivFlowsEnabled)
  BY <1>1, <1>2, <1>3, <1>4, <1>5, <1>6, <1>7 DEF Ordered
<1>9. EvaluatedAreSettled /\ LaterUnsettled /\ FrontUnsettled
  BY <1>1, <1>4 DEF EvaluatedAreSettled, LaterUnsettled, FrontUnsettled
<1>10. VerdictsOK
  <2>1. DOMAIN evaluatedSnapsList = {}
    BY <1>1
  <2> QED  BY <1>1, <2>1 DEF VerdictsOK, Verdicts
<1> QED  BY <1>1, <1>4, <1>8, <1>9, <1>10, InitFlows DEF AggrInv

\* What is kept while the snapshots stay as they are.
LEMMA SnapshotsStay ==
  ASSUME AggrInv, spoofed' = {},
         UNCHANGED <<pendingDropSnapsList, evaluatedSnapsList,
                     indivFlowsEnabled, indivFlowsClosedLoop, finished,
                     finalOutcome>>,
         Ordered(AllSnapshots, flows', indivFlowsEnabled)
  PROVE  ListsOK' /\ FrontUnsettled' /\ VerdictsOK'
<1>1. AllSnapshots' = AllSnapshots
  BY DEF AllSnapshots
<1>2. Ordered(AllSnapshots, flows, indivFlowsEnabled)'
  BY <1>1
<1>3. EvaluatedAreSettled' /\ LaterUnsettled' /\ VerdictsOK'
  BY DEF AggrInv, EvaluatedAreSettled, LaterUnsettled, VerdictsOK
<1>4. FrontUnsettled'
  BY DEF FrontUnsettled
<1> QED  BY <1>2, <1>3, <1>4 DEF AggrInv, ListsOK

\* What OutcomeStable says of a step.
OutcomeStays ==
  finished => /\ finished'
              /\ UNCHANGED <<finalOutcome, indivFlowsEnabled,
                             evaluatedSnapsList>>

\* Every step keeps the snapshots, and the outcome of a finished run.
LEMMA NextAggregates ==
  ASSUME AggrInv, [Next]_vars
  PROVE  AggrInv' /\ OutcomeStays
<1>1. IInv'
  BY NextFlows DEF AggrInv
<1>2. FlowsGood(flows) /\ Ordered(AllSnapshots, flows, indivFlowsEnabled)
      /\ indivFlowsEnabled \in BOOLEAN
  BY DEF AggrInv, Ordered
<1> DEFINE Kept == ListsOK' /\ FrontUnsettled' /\ VerdictsOK' /\ OutcomeStays
<1>3. ASSUME NEW f \in ClosedLoopFlows, TrackNewFlow(f) PROVE Kept
  <2>1. /\ ~finished /\ f \notin DOMAIN flows /\ f \in Flows
        /\ flows' = [g \in DOMAIN flows \cup {f} |->
                       IF g = f THEN NewFlow ELSE flows[g]]
        /\ spoofed' = {}
        /\ UNCHANGED <<pendingDropSnapsList, evaluatedSnapsList,
                       indivFlowsEnabled, indivFlowsClosedLoop, finished,
                       finalOutcome>>
    BY <1>3 DEF TrackNewFlow, Tracked, Flows
  <2>2. Ordered(AllSnapshots, flows', indivFlowsEnabled)
    BY <1>2, <2>1, OrderedNewFlow
  <2> QED  BY <2>1, <2>2, SnapshotsStay DEF OutcomeStays
<1>4. ASSUME Tick PROVE Kept
  <2>1. /\ flows' = [f \in DOMAIN flows |-> AgeDrops(flows[f])]
        /\ spoofed' = {}
        /\ UNCHANGED <<pendingDropSnapsList, evaluatedSnapsList,
                       indivFlowsEnabled, indivFlowsClosedLoop, finished,
                       finalOutcome>>
    BY <1>4 DEF Tick, Tracked
  <2>2. Continues(flows, flows')
    BY <1>2, <2>1, AgeContinues
  <2>3. Ordered(AllSnapshots, flows', indivFlowsEnabled)
    BY <1>2, <2>2, OrderedStays
  <2> QED  BY <2>1, <2>3, SnapshotsStay DEF OutcomeStays
<1>5. ASSUME NEW f \in Tracked, NEW p \in Packets, Process(f, p),
             ~finished \/ (spoofed # {} /\ spoofed' = {})
      PROVE  Kept
  <2>1. /\ VerdictsOK'
        /\ finished => /\ finished'
                       /\ UNCHANGED <<finalOutcome, indivFlowsEnabled,
                                      evaluatedSnapsList>>
        /\ ~finished /\ finished' /\ pendingDropSnapsList' # <<>>
             => Head(pendingDropSnapsList)'.counters.pendingDroppedPkts # 0
    BY <1>5, ProcessVerdicts
  <2>2. FrontUnsettled'
    BY <1>5, <2>1 DEF FrontUnsettled
  <2>3. ListsOK'
    BY <1>5, ProcessLists
  <2> QED  BY <2>1, <2>2, <2>3 DEF OutcomeStays
<1>6. ASSUME NEW f \in ClosedLoopFlows, NEW p \in Packets,
             ClosedLoopPacket(f, p)
      PROVE  Kept
  BY <1>5, <1>6 DEF ClosedLoopPacket
<1>7. ASSUME NEW f \in SpoofedFlows, NEW p \in Packets, SpoofedPacket(f, p)
      PROVE  Kept
  <2>1. f \in Tracked
    BY DEF AggrInv, IInv, TrackedOK
  <2> QED  BY <1>5, <1>7, <2>1 DEF SpoofedPacket
<1>8. ASSUME DuplicateSpoofedPacket PROVE Kept
  <2>1. PICK c \in spoofed : Process(c[1], c[2]) /\ spoofed' = {}
    BY <1>8 DEF DuplicateSpoofedPacket
  <2>2. c[1] \in Tracked /\ c[2] \in Packets /\ spoofed # {}
    BY DEF AggrInv, IInv, TrackedOK, DataPackets
  <2> QED  BY <1>5, <2>1, <2>2
<1>9. ASSUME UNCHANGED vars PROVE Kept
  <2>1. ListsOK'
    BY <1>9 DEF vars, AggrInv, ListsOK, Ordered, AllSnapshots,
                EvaluatedAreSettled, LaterUnsettled
  <2>2. FrontUnsettled' /\ VerdictsOK'
    BY <1>9 DEF vars, AggrInv, FrontUnsettled, VerdictsOK
  <2> QED  BY <1>9, <2>1, <2>2 DEF vars, OutcomeStays
<1>10. Kept
  BY <1>3, <1>4, <1>6, <1>7, <1>8, <1>9 DEF Next
<1> QED  BY <1>1, <1>10 DEF AggrInv, ListsOK

\* The snapshots are settled one by one in the order of the drops, and what
\* they count is what their lists hold.
THEOREM AggregatesInvariance == Spec => []AggrInv
<1>1. AggrInv /\ [Next]_vars => AggrInv'
  BY NextAggregates
<1> QED  BY <1>1, InitAggregates, PTL DEF Spec

-------------------------------------------------------------------------------
(***************************************************************************)
(* What follows for the properties of Penny.                               *)
(***************************************************************************)
\* Penny's flows and snapshots have the types of class penny, and no pending
\* count, of a flow or of an aggregate snapshot, ever wraps below zero.
THEOREM PennyTypeCorrect == Spec => []TypeOK
<1>1. AggrInv => TypeOK
  <2> SUFFICES ASSUME AggrInv PROVE TypeOK
    OBVIOUS
  <2>1. /\ SpoofedFlows \subseteq Tracked
        /\ Tracked \subseteq Flows
        /\ spoofed \subseteq (SpoofedFlows \X DataPackets)
        /\ \A f \in Tracked : FlowInv(flows[f])
    BY DEF AggrInv, IInv, TrackedOK, FlowsOK
  <2>2. \A f \in Tracked : FlowTypeOK(flows[f]) /\ NoWrapAround(flows[f])
    BY <2>1, InvNoWrapAround DEF FlowInv
  <2>3. ASSUME NEW s, SnapshotOK(s, flows) PROVE IsAggrSnapshot(s)
    <3>1. s \in AggrSnapshot(DOMAIN s.lists) /\ DOMAIN s.lists \subseteq Tracked
      BY <2>3 DEF SnapshotOK, Tracked
    <3>2. s.counters.pendingDroppedPkts \in Nat
      BY <2>3, PendingIsUnsettled DEF AggrInv, Ordered
    <3>3. s.counters.pendingDroppedPkts >= 0
      BY <3>2
    <3> QED  BY <3>1, <3>3 DEF IsAggrSnapshot
  <2> DEFINE E == evaluatedSnapsList
             P == pendingDropSnapsList
  <2>4. /\ E \in Seq(AnySnapshot) /\ P \in Seq(AnySnapshot)
        /\ \A k \in 1..Len(E \o P) : SnapshotOK((E \o P)[k], flows)
    BY DEF AggrInv, Ordered, AllOK, AllSnapshots
  <2>5. PutTogether(E, P, P) /\ DOMAIN E = 1..Len(E) /\ DOMAIN P = 1..Len(P)
    BY <2>4, SecondUpdated
  <2>6. ASSUME NEW k \in DOMAIN E PROVE SnapshotOK(E[k], flows)
    <3>1. k \in 1..Len(E \o P) /\ (E \o P)[k] = E[k]
      BY <2>5 DEF PutTogether
    <3> QED  BY <2>4, <3>1
  <2>7. ASSUME NEW k \in DOMAIN P PROVE SnapshotOK(P[k], flows)
    <3>1. /\ Len(E) + k \in 1..Len(E \o P)
          /\ (E \o P)[Len(E) + k] = P[k]
      BY <2>5 DEF PutTogether
    <3> QED  BY <2>4, <3>1
  <2>8. /\ indivFlowsEnabled \in BOOLEAN
        /\ indivFlowsClosedLoop \subseteq Tracked
        /\ finished \in BOOLEAN
        /\ finalOutcome \in Verdicts
    BY DEF AggrInv, VerdictsOK
  <2> QED  BY <2>1, <2>2, <2>3, <2>6, <2>7, <2>8 DEF TypeOK
<1> QED  BY <1>1, AggregatesInvariance, PTL

\* Snapshots are evaluated in the order of the drops, none is lost and none is
\* evaluated twice, as penny::processPacket moves them from list to list.
THEOREM SnapshotsFollowDrops == Spec => []AggregatesFollowDrops
<1>1. AggrInv => AggregatesFollowDrops
  <2> SUFFICES ASSUME AggrInv PROVE AggregatesFollowDrops
    OBVIOUS
  <2>1. /\ Follows(AllSnapshots, flows, indivFlowsEnabled)
        /\ AllSnapshots \in Seq(AnySnapshot)
    BY DEF AggrInv, Ordered
  <2>2. DOMAIN AllSnapshots = 1..Len(AllSnapshots)
    BY <2>1
  <2>3. \A f, k : SnapshotsOf(f, k) = CountOf(AllSnapshots, f, k)
    BY DEF SnapshotsOf, CountOf
  <2> QED  BY <2>1, <2>2, <2>3 DEF Follows, AggregatesFollowDrops, Tracked
<1> QED  BY <1>1, AggregatesInvariance, PTL

\* The counters of an aggregate snapshot, which the three updates change one
\* by one, are always the sizes of its lists, added up over the flows.
THEOREM SnapshotsAgreeWithLists == Spec => []AggregatesAgreeWithLists
<1>1. AggrInv => AggregatesAgreeWithLists
  <2> SUFFICES ASSUME AggrInv PROVE AggregatesAgreeWithLists
    OBVIOUS
  <2>1. AllOK(AllSnapshots, flows) /\ AllSnapshots \in Seq(AnySnapshot)
    BY DEF AggrInv, Ordered
  <2>2. DOMAIN AllSnapshots = 1..Len(AllSnapshots)
    BY <2>1
  <2>3. ASSUME NEW k \in 1..Len(AllSnapshots)
        PROVE  /\ AllSnapshots[k].counters.droppedPkts = k
               /\ CountersAreTotals(AllSnapshots[k])
               /\ \A g \in DOMAIN AllSnapshots[k].lists :
                    ListsWithin(AllSnapshots[k].lists[g], flows[g].metaLists)
    BY <2>1 DEF AllOK, SnapshotOK
  <2> QED  BY <2>2, <2>3
              DEF AggregatesAgreeWithLists, CountersAreTotals, ListsWithin
<1> QED  BY <1>1, AggregatesInvariance, PTL

\* A snapshot is judged only when every drop made up to it is settled, though
\* Penny reads that from a copy made before the updates.
THEOREM JudgedWhenSettled == Spec => []EvaluatedAreSettled
<1>1. AggrInv => EvaluatedAreSettled
  BY DEF AggrInv
<1> QED  BY <1>1, AggregatesInvariance, PTL

\* Penny drops no more than maxPacketDrops packets before it examines
\* individual flows, over all flows.
THEOREM DropsWithinBudget == Spec => []DropBudget
<1>1. AggrInv => DropBudget
  <2> SUFFICES ASSUME AggrInv, ~indivFlowsEnabled
               PROVE  SumCounters(flows).droppedPkts <= MaxPacketDrops
    BY DEF DropBudget
  <2> QED  BY DEF AggrInv, Ordered, WithinBudget
<1> QED  BY <1>1, AggregatesInvariance, PTL

\* The outcome of a finished run is the verdict of the last snapshot evaluated,
\* and no earlier snapshot had a verdict.
THEOREM FirstVerdictWins == Spec => []FirstVerdictDecides
<1>1. AggrInv => FirstVerdictDecides
  BY DEF AggrInv, VerdictsOK, FirstVerdictDecides
<1> QED  BY <1>1, AggregatesInvariance, PTL

\* A finished run keeps its outcome, although sim.cc may hand Penny one more
\* packet: no snapshot can be judged in that call.
THEOREM OutcomeIsStable == Spec => OutcomeStable
<1>1. AggrInv /\ [Next]_vars => [OutcomeStays]_vars
  BY NextAggregates
<1>2. []AggrInv /\ [][Next]_vars => [][OutcomeStays]_vars
  BY <1>1, PTL
<1>3. Spec => [][OutcomeStays]_vars
  BY <1>2, AggregatesInvariance, PTL DEF Spec
<1> QED  BY <1>3 DEF OutcomeStable, OutcomeStays
===============================================================================
