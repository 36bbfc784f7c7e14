-------------------------------- MODULE Penny --------------------------------
(***************************************************************************)
(* Class penny and the part of sim.cc that drives it.  Penny watches a set *)
(* of flows together: each drop on any flow leaves an aggregate snapshot,  *)
(* the snapshots are settled and judged in the order of the drops, and the *)
(* first verdict on one ends the run or, if it is not-closed-loop, makes   *)
(* Penny look at the flows one by one.                                     *)
(*                                                                         *)
(* The traffic: closed-loop flows carry any packet at any time (TCP may    *)
(* reorder, retransmit and lose); spoofed flows send their segments in     *)
(* order, each perhaps twice in a row.                                     *)
(***************************************************************************)
EXTENDS FlowInvariants

CONSTANTS
  ClosedLoopFlows,     \* the ns-3 TCP flows
  SpoofedFlows,        \* sim.cc activeSpoofedFlows
  MinNumberFlowsAggr,  \* closed-loop flows tracked before Penny starts
  MaxPacketDrops,      \* drops made to judge the aggregate
  MinClosedLoopFlows,  \* closed-loop flows that end the individual phase
  DuplicateBound,      \* caps duplicatePkts of a flow
  SpoofedBound         \* caps the segments a spoofed flow sends

ASSUME PennyAssumption ==
  /\ ClosedLoopFlows \cap SpoofedFlows = {}
  /\ IsFiniteSet(ClosedLoopFlows)
  /\ IsFiniteSet(SpoofedFlows)
  /\ MinNumberFlowsAggr \in Nat
  /\ MaxPacketDrops \in Nat
  /\ MinClosedLoopFlows \in Nat
  /\ DuplicateBound \in Nat
  /\ SpoofedBound \in Nat

VARIABLES
  flows,                 \* flowIdToPennyFlowMap
  pendingDropSnapsList,
  evaluatedSnapsList,
  indivFlowsEnabled,
  indivFlowsClosedLoop,
  finished,
  finalOutcome,          \* a verdict; "NoDecision" for the empty string
  spoofed                \* the calls of processPacket sim.cc may make twice

vars == <<flows, pendingDropSnapsList, evaluatedSnapsList, indivFlowsEnabled,
          indivFlowsClosedLoop, finished, finalOutcome, spoofed>>

Flows == ClosedLoopFlows \cup SpoofedFlows

-------------------------------------------------------------------------------
\* aggrCounterSnapshot
AggrSnapshot(tracked) ==
  [ packetId                    : PacketIds,
    flowId                      : tracked,
    duplicatePktsAtDropInstance : Nat,
    counters                    : Counters,
    lists                       : [tracked -> MetaLists] ]

\* The counters of all flows of fm together.
SumOverFlows(fm, Count(_)) ==
  SumFunction([g \in DOMAIN fm |-> Count(fm[g].curCounters)])

SumCounters(fm) ==
  [ droppablePkts |-> SumOverFlows(fm, LAMBDA c : c.droppablePkts),
    droppedPkts   |-> SumOverFlows(fm, LAMBDA c : c.droppedPkts),
    retransmittedDroppedPkts
                  |-> SumOverFlows(fm, LAMBDA c : c.retransmittedDroppedPkts),
    notSeenDroppedPkts
                  |-> SumOverFlows(fm, LAMBDA c : c.notSeenDroppedPkts),
    duplicatePkts |-> SumOverFlows(fm, LAMBDA c : c.duplicatePkts),
    pendingDroppedPkts
                  |-> SumOverFlows(fm, LAMBDA c : c.pendingDroppedPkts) ]

\* addPacketDropSnapshot
NewAggrSnapshot(fm, f, p) ==
  [ packetId                    |-> PacketId(p),
    flowId                      |-> f,
    duplicatePktsAtDropInstance
        |-> GetDuplicatesByPacketDropId(fm[f], PacketId(p)),
    counters                    |-> SumCounters(fm),
    lists                       |-> [g \in DOMAIN fm |-> fm[g].metaLists] ]

-------------------------------------------------------------------------------
(***************************************************************************)
(* The three updates that the drop of the front snapshot acs brings to the *)
(* pending snapshots, each for one snapshot s.                             *)
(***************************************************************************)
Includes(s, acs) == acs.packetId \in s.lists[acs.flowId].droppedPcksList

\* (fault: a snapshot that knows of the expiry is updated again)
UpdateExpiredAgain(s, acs, fm) ==
  IF /\ acs.packetId \in fm[acs.flowId].metaLists.expiredPcksList
     /\ Includes(s, acs)
    THEN [s EXCEPT !.counters.notSeenDroppedPkts = @ + 1,
                   !.counters.pendingDroppedPkts = @ - 1,
                   !.lists[acs.flowId].expiredPcksList = @ \cup {acs.packetId}]
    ELSE s

\* checkAndUpdateExpired
UpdateExpired(s, acs, fm) ==
  IF /\ acs.packetId \in fm[acs.flowId].metaLists.expiredPcksList
     /\ acs.packetId \notin s.lists[acs.flowId].expiredPcksList
     /\ Includes(s, acs)
    THEN [s EXCEPT !.counters.notSeenDroppedPkts = @ + 1,
                   !.counters.pendingDroppedPkts = @ - 1,
                   !.lists[acs.flowId].expiredPcksList = @ \cup {acs.packetId}]
    ELSE s

\* checkAndUpdateRetransmitted
UpdateRetransmitted(s, acs, fm) ==
  IF /\ acs.packetId \in fm[acs.flowId].metaLists.retransmittedPktsList
     /\ acs.packetId \notin s.lists[acs.flowId].retransmittedPktsList
     /\ Includes(s, acs)
    THEN [s EXCEPT !.counters.retransmittedDroppedPkts = @ + 1,
                   !.counters.pendingDroppedPkts = @ - 1,
                   !.lists[acs.flowId].retransmittedPktsList
                      = @ \cup {acs.packetId}]
    ELSE s

\* checkAndUpdateDuplicates: however many duplicates the flow has had since,
\* one is counted; the packetId is compared across flows.
Undecided(s, acs) ==
  /\ acs.packetId \notin s.lists[acs.flowId].retransmittedPktsList
  /\ acs.packetId \notin s.lists[acs.flowId].expiredPcksList
  /\ Includes(s, acs)

UpdateDuplicates(s, acs, fm) ==
  IF GetDuplicatesByPacketDropId(fm[acs.flowId], acs.packetId)
       > acs.duplicatePktsAtDropInstance
    THEN [s EXCEPT
            !.duplicatePktsAtDropInstance =
               IF s.packetId = acs.packetId THEN @ + 1 ELSE @,
            !.counters.duplicatePkts =
               IF Undecided(s, acs) THEN @ + 1 ELSE @]
    ELSE s

UpdatedSnapshots(fm) ==
  LET acs == Head(pendingDropSnapsList) IN
  [k \in DOMAIN pendingDropSnapsList |->
     UpdateDuplicates(
       UpdateRetransmitted(
         UpdateExpired(pendingDropSnapsList[k], acs, fm), acs, fm), acs, fm)]

(***************************************************************************)
(* The aggregate half of processPacket.  Whether the front is settled is   *)
(* read from acs, the copy of it made before the updates, so a front       *)
(* leaves the list one call after the call that settled it.                *)
(***************************************************************************)
\* (fault: the front is copied after the updates)
UpdatedFront(fm) == Head(UpdatedSnapshots(fm))

FrontCopy(fm) == Head(pendingDropSnapsList)

\* (fault: off by one)
FrontAlmostSettled(fm) == FrontCopy(fm).counters.pendingDroppedPkts <= 1

FrontSettled(fm) == FrontCopy(fm).counters.pendingDroppedPkts = 0

\* (fault: the front is not popped)
JudgeAndKeepFront(updated) ==
  [pending   |-> updated,
   evaluated |-> Append(evaluatedSnapsList, Head(updated)),
   verdict   |-> Verdict(Head(updated).counters)]

\* (fault: the oldest evaluated snapshot is judged in the place of the front)
JudgeOldest(updated) ==
  [pending   |-> Tail(updated),
   evaluated |-> Append(evaluatedSnapsList, Head(updated)),
   verdict   |-> Verdict(Append(evaluatedSnapsList, Head(updated))[1].counters)]

\* The settled front moves from one list to the other, and is judged.
JudgeFront(updated) ==
  [pending   |-> Tail(updated),
   evaluated |-> Append(evaluatedSnapsList, Head(updated)),
   verdict   |-> Verdict(Head(updated).counters)]

CheckAggregates(fm) ==
  LET unchanged(pending) == [pending   |-> pending,
                             evaluated |-> evaluatedSnapsList,
                             verdict   |-> "NoDecision"]
  IN
  CASE pendingDropSnapsList = <<>> \/ indivFlowsEnabled
         -> unchanged(pendingDropSnapsList)
    [] pendingDropSnapsList # <<>> /\ ~indivFlowsEnabled /\ FrontSettled(fm)
         -> JudgeFront(UpdatedSnapshots(fm))
    [] OTHER -> unchanged(UpdatedSnapshots(fm))

\* (fault: the evaluated snapshots are not counted against the budget)
MayDropWhilePending(flow, aggr, individually) ==
  /\ EvaluateHypotheses(flow) = "NoDecision"
  /\ Len(aggr.pending) < MaxPacketDrops \/ individually
  /\ DropMorePackets(flow)

\* The drop of processPacket may happen: aggr and individually are what the
\* aggregate half left, flow the flow of p after its own processPacket.
MayDrop(flow, aggr, individually) ==
  /\ EvaluateHypotheses(flow) = "NoDecision"
  /\ \/ Len(aggr.pending) + Len(aggr.evaluated) < MaxPacketDrops
     \/ individually
  /\ DropMorePackets(flow)

(***************************************************************************)
(* The flows added to indivFlowsClosedLoop: the branch that inserts a flow *)
(* whose verdict is closed-loop is nested in the one for no decision.      *)
(***************************************************************************)
NewClosedLoopFlows(flow, f, droppable) ==
  LET retCodeEvaluate == EvaluateHypotheses(flow) IN
  {g \in {f} : /\ retCodeEvaluate = "NoDecision"
               /\ ~droppable
               /\ retCodeEvaluate = "ClosedLoop"}

\* The quantifiers over one value have TLC compute it once.
Process(f, p) ==
  \E processed \in {[flows EXCEPT ![f] = ProcessPacket(@, p)]} :
  \E aggr \in {CheckAggregates(processed)} :
  LET droppable    == IsDroppable(flows[f], p)
      individually == indivFlowsEnabled \/ aggr.verdict = "NotClosedLoop"
      enough       == /\ individually
                      /\ Cardinality(indivFlowsClosedLoop) > MinClosedLoopFlows
      ends         == aggr.verdict \in {"ClosedLoop", "DuplicatesExceeded"}
      done         == finished \/ ends \/ enough
  IN
  /\ evaluatedSnapsList' = aggr.evaluated
  /\ indivFlowsEnabled' = individually
  /\ finished' = done
  /\ finalOutcome' = CASE enough            -> "ClosedLoop"
                       [] ends /\ ~enough   -> aggr.verdict
                       [] ~ends /\ ~enough  -> finalOutcome
  /\ indivFlowsClosedLoop' =
       IF done THEN indivFlowsClosedLoop
               ELSE indivFlowsClosedLoop
                      \cup NewClosedLoopFlows(processed[f], f, droppable)
  /\ \/ /\ flows' = processed
        /\ pendingDropSnapsList' = aggr.pending
     \/ /\ ~done
        /\ droppable
        /\ MayDrop(processed[f], aggr, individually)
        /\ flows' = [processed EXCEPT ![f] = DropPacket(@, p)]
        /\ pendingDropSnapsList' =
             IF individually
               THEN aggr.pending
               ELSE Append(aggr.pending, NewAggrSnapshot(flows', f, p))
  /\ flows'[f].curCounters.duplicatePkts <= DuplicateBound

-------------------------------------------------------------------------------
Init ==
  /\ flows = [f \in SpoofedFlows |-> NewFlow]     \* preregisterSpoofedFlow
  /\ pendingDropSnapsList = <<>>
  /\ evaluatedSnapsList = <<>>
  /\ indivFlowsEnabled = FALSE
  /\ indivFlowsClosedLoop = {}
  /\ finished = FALSE
  /\ finalOutcome = "NoDecision"
  /\ spoofed = {}

Tracked == DOMAIN flows

\* (fault: the SYN of a flow that is tracked already starts it anew)
TrackFlowAnew(f) ==
  /\ ~finished
  /\ flows' = [g \in Tracked \cup {f} |-> IF g = f THEN NewFlow ELSE flows[g]]
  /\ spoofed' = {}
  /\ UNCHANGED <<pendingDropSnapsList, evaluatedSnapsList, indivFlowsEnabled,
                 indivFlowsClosedLoop, finished, finalOutcome>>

\* The SYN of a closed-loop flow: trackNewFlow, whether or not others are
\* tracked already.
TrackNewFlow(f) ==
  /\ ~finished
  /\ f \notin Tracked
  /\ flows' = [g \in Tracked \cup {f} |-> IF g = f THEN NewFlow ELSE flows[g]]
  /\ spoofed' = {}
  /\ UNCHANGED <<pendingDropSnapsList, evaluatedSnapsList, indivFlowsEnabled,
                 indivFlowsClosedLoop, finished, finalOutcome>>

Watching == Cardinality(Tracked \cap ClosedLoopFlows) >= MinNumberFlowsAggr

\* processPacketNS3, for the packet of a closed-loop flow.
ClosedLoopPacket(f, p) ==
  /\ Watching
  /\ ~finished
  /\ f \in Tracked
  /\ Process(f, p)
  /\ spoofed' = {}

(***************************************************************************)
(* generateSpoofedPackets: the next segment of a spoofed flow, all the     *)
(* earlier ones being in the flow's interval tree.                         *)
(***************************************************************************)
NextSpoofed(f) ==
  {p \in DataPackets :
     /\ IsPayloadUnique(flows[f], p)
     /\ \A q \in DataPackets : q.seq < p.seq => ~IsPayloadUnique(flows[f], q)}

SpoofedPacket(f, p) ==
  /\ Watching
  /\ ~finished
  /\ p \in NextSpoofed(f)
  /\ Cardinality(flows[f].pktsIntervalTree) < SpoofedBound
  /\ Process(f, p)
  /\ spoofed' = {<<f, p>>}

\* The duplicate of a spoofed packet; Penny may have finished meanwhile.
DuplicateSpoofedPacket ==
  \E c \in spoofed :
    /\ Process(c[1], c[2])
    /\ spoofed' = {}

Tick ==
  /\ flows' = [f \in Tracked |-> AgeDrops(flows[f])]
  /\ spoofed' = {}
  /\ UNCHANGED <<pendingDropSnapsList, evaluatedSnapsList, indivFlowsEnabled,
                 indivFlowsClosedLoop, finished, finalOutcome>>

Next ==
  \/ \E f \in ClosedLoopFlows : TrackNewFlow(f)
  \/ \E f \in ClosedLoopFlows, p \in Packets : ClosedLoopPacket(f, p)
  \/ \E f \in SpoofedFlows, p \in Packets : SpoofedPacket(f, p)
  \/ DuplicateSpoofedPacket
  \/ Tick

Spec == Init /\ [][Next]_vars

-------------------------------------------------------------------------------
IsAggrSnapshot(s) ==
  /\ \E tracked \in SUBSET Tracked : s \in AggrSnapshot(tracked)
  /\ s.counters.pendingDroppedPkts >= 0

TypeOK ==
  /\ SpoofedFlows \subseteq Tracked
  /\ Tracked \subseteq Flows
  /\ \A f \in Tracked : FlowTypeOK(flows[f]) /\ NoWrapAround(flows[f])
  /\ \A k \in DOMAIN pendingDropSnapsList :
       IsAggrSnapshot(pendingDropSnapsList[k])
  /\ \A k \in DOMAIN evaluatedSnapsList : IsAggrSnapshot(evaluatedSnapsList[k])
  /\ indivFlowsEnabled \in BOOLEAN
  /\ indivFlowsClosedLoop \subseteq Tracked
  /\ finished \in BOOLEAN
  /\ finalOutcome \in Verdicts
  /\ spoofed \subseteq (SpoofedFlows \X DataPackets)

AllSnapshots == evaluatedSnapsList \o pendingDropSnapsList

\* How many of the first k snapshots are of drops of flow f.
SnapshotsOf(f, k) == Cardinality({j \in 1..k : AllSnapshots[j].flowId = f})

(***************************************************************************)
(* Snapshots are evaluated in the order of the drops, none is lost and     *)
(* none is evaluated twice: of what was evaluated and then what is         *)
(* pending, the n-th snapshot of a flow is that of its n-th drop, up to    *)
(* its last drop until individual flows are examined.                      *)
(***************************************************************************)
AggregatesFollowDrops ==
  \A f \in Tracked :
    LET drops == flows[f].counterSnapsList IN
    /\ \A k \in DOMAIN AllSnapshots :
         LET n == SnapshotsOf(f, k) IN
         AllSnapshots[k].flowId = f =>
           /\ n <= Len(drops)
           /\ AllSnapshots[k].packetId = drops[n].packetId
    /\ ~indivFlowsEnabled =>
         SnapshotsOf(f, Len(AllSnapshots)) = Len(drops)

(***************************************************************************)
(* An aggregate snapshot is settled from the flows' lists long after it    *)
(* was taken and only drop by drop, as each drop becomes the front.  Still *)
(* its counters say of its drops what its lists say, no pending count goes *)
(* below zero, and its lists never contradict the flows' own verdicts.     *)
(***************************************************************************)
Total(s, List(_)) ==
  SumFunction([g \in DOMAIN s.lists |-> Cardinality(List(s.lists[g]))])

AggregatesAgreeWithLists ==
  \A k \in DOMAIN AllSnapshots :
    LET s == AllSnapshots[k] IN
    /\ s.counters.droppedPkts = k
    /\ s.counters.droppedPkts = Total(s, LAMBDA l : l.droppedPcksList)
    /\ s.counters.notSeenDroppedPkts = Total(s, LAMBDA l : l.expiredPcksList)
    /\ s.counters.retransmittedDroppedPkts
         = Total(s, LAMBDA l : l.retransmittedPktsList)
    /\ s.counters.pendingDroppedPkts
         = s.counters.droppedPkts - s.counters.notSeenDroppedPkts
             - s.counters.retransmittedDroppedPkts
    /\ \A g \in DOMAIN s.lists :
         /\ s.lists[g].expiredPcksList
              \subseteq flows[g].metaLists.expiredPcksList
         /\ s.lists[g].retransmittedPktsList
              \subseteq flows[g].metaLists.retransmittedPktsList

(***************************************************************************)
(* A snapshot is judged only when each drop made up to it, on any flow,    *)
(* has been settled, although Penny reads that from a copy made before the *)
(* updates and each update settles the drop of the front alone.            *)
(***************************************************************************)
EvaluatedAreSettled ==
  \A k \in DOMAIN evaluatedSnapsList :
    evaluatedSnapsList[k].counters.pendingDroppedPkts = 0

(***************************************************************************)
(* Penny makes no more than maxPacketDrops drops before it examines        *)
(* individual flows, over all flows and however its snapshots move between *)
(* its two lists.                                                          *)
(***************************************************************************)
DropBudget ==
  ~indivFlowsEnabled =>
    SumCounters(flows).droppedPkts <= MaxPacketDrops

(***************************************************************************)
(* sim.cc passes the duplicate of a spoofed packet to Penny without asking *)
(* whether it still runs.  What a finished run reports, its outcome and    *)
(* the snapshots evaluated, stays: the front after the one that ended the  *)
(* run cannot be settled yet.                                              *)
(***************************************************************************)
OutcomeStable ==
  [][finished => /\ finished'
                 /\ UNCHANGED <<finalOutcome, indivFlowsEnabled,
                                evaluatedSnapsList>>]_vars

(***************************************************************************)
(* The outcome of a finished run is the verdict of the last snapshot that  *)
(* was evaluated, and no earlier one had a verdict: the first verdict      *)
(* decides the run.                                                        *)
(***************************************************************************)
FirstVerdictDecides ==
  LET verdict(k) == Verdict(evaluatedSnapsList[k].counters) IN
  /\ \A k \in DOMAIN evaluatedSnapsList :
       k < Len(evaluatedSnapsList) => verdict(k) = "NoDecision"
  /\ finished /\ ~indivFlowsEnabled =>
       /\ evaluatedSnapsList # <<>>
       /\ finalOutcome = verdict(Len(evaluatedSnapsList))

(***************************************************************************)
(* Penny keeps every flow as pennyFlow does on its own: whatever it does   *)
(* with the aggregate, a call of processPacket lets a packet of one flow   *)
(* through or drops it under the conditions of that flow alone, and leaves *)
(* the other flows as they are.                                            *)
(***************************************************************************)
FlowOf(f) == IF f \in Tracked THEN flows[f] ELSE NewFlow

Flow(f) == INSTANCE PennyFlow WITH flow <- FlowOf(f)

FlowsRunAlone ==
  /\ \A f \in Flows : Flow(f)!Init
  /\ [][\A f \in Flows : UNCHANGED FlowOf(f) \/ Flow(f)!Next]_flows

(***************************************************************************)
(* penny.h:26 has duplicatePkts count duplicate packets: an aggregate      *)
(* snapshot counts no more of them than its flows have had so far.         *)
(***************************************************************************)
DuplicatesAreCounted ==
  \A k \in DOMAIN AllSnapshots :
    AllSnapshots[k].counters.duplicatePkts <= SumCounters(flows).duplicatePkts

(***************************************************************************)
(* "If aggregates not closed-loop, examine-individual flows" (penny.cc:90  *)
(* with the return codes of evaluateHypotheses, pennyFlow.cc:330): in that *)
(* phase, a flow whose packet Penny has just handled and whose hypotheses  *)
(* say closed-loop is among the closed-loop flows that may end the run.    *)
(***************************************************************************)
IndividualFlowsExamined ==
  [][ \A f \in Tracked :
        /\ indivFlowsEnabled
        /\ ~finished'
        /\ \E p \in DataPackets : Process(f, p)
        /\ EvaluateHypotheses(flows'[f]) = "ClosedLoop"
        => f \in indivFlowsClosedLoop' ]_vars
===============================================================================
