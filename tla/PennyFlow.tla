------------------------------- MODULE PennyFlow -------------------------------
(***************************************************************************)
(* One pennyFlow under any traffic and any caller.  A packet of the flow   *)
(* arrives in any order and any number of times; the clock ticks between   *)
(* packets; the caller (penny::processPacket) may have finished, may be    *)
(* out of its drop budget, and the coin of dropPacket may fall either way, *)
(* so a packet that may be dropped is dropped or not.                      *)
(***************************************************************************)
EXTENDS FlowInvariants

CONSTANT DuplicateBound  \* caps duplicatePkts, which only ever grows

ASSUME DuplicateBoundAssumption == DuplicateBound \in Nat

VARIABLE flow

vars == <<flow>>

Init == flow = NewFlow

\* The packet is let through.
Forward(p) ==
  /\ flow' = ProcessPacket(flow, p)
  /\ flow'.curCounters.duplicatePkts <= DuplicateBound

\* The packet is dropped: penny::processPacket asks for it to be droppable
\* and for the flow to be undecided, pennyFlow::dropPacket for budget.
Drop(p) ==
  LET processed == ProcessPacket(flow, p) IN
  /\ IsDroppable(flow, p)
  /\ EvaluateHypotheses(processed) = "NoDecision"
  /\ DropMorePackets(processed)
  /\ flow' = DropPacket(processed, p)

Tick == flow' = AgeDrops(flow)

Next ==
  \/ \E p \in Packets : Forward(p)
  \/ \E p \in Packets : Drop(p)
  \/ Tick

Spec == Init /\ [][Next]_vars

-------------------------------------------------------------------------------
Snaps == flow.counterSnapsList

\* The state of a flow has the types of the members of class pennyFlow, and
\* no pending count has wrapped around.
TypeOK == FlowTypeOK(flow) /\ NoWrapAround(flow)

(***************************************************************************)
(* A drop is settled long after the snapshots that counted it as pending   *)
(* were taken, in any order and from two places (time-out and              *)
(* retransmission).  Still, the current counters and each snapshot in the  *)
(* list always agree with the verdicts reached so far on exactly the drops *)
(* they cover; in particular no pending count ever goes below zero, which  *)
(* as a uint64_t would wrap and leave the snapshot pending for ever.       *)
(***************************************************************************)
SnapshotsAgreeWithDrops == SnapshotsDescribeDrops(flow)

(***************************************************************************)
(* The two maps over the drops, the decision map that outlives a drop's    *)
(* settling and the time map that does not, agree on what is undecided     *)
(* with the lists that are exported, and no drop is settled both ways.     *)
(***************************************************************************)
MapsAgree == MapsOfFlowAgree(flow)

(***************************************************************************)
(* A packet is dropped at most once, however often it is retransmitted:    *)
(* a second drop would hide the retransmission that Penny is waiting for.  *)
(* (The payload of a dropped packet stays in the interval tree.)           *)
(***************************************************************************)
NeverDropsTwice == DropsOnce(flow)

(***************************************************************************)
(* A verdict on the flow rests on the longest prefix of its drops that is  *)
(* entirely settled, and on the counters that prefix has now: the copy     *)
(* kept in validCounterSnap never lags behind the list it was taken from   *)
(* (duplicates and settlements alter the snapshot after the copy).         *)
(***************************************************************************)
VerdictOnLongestSettledPrefix ==
  LET settledPrefixes == {k \in DOMAIN Snaps : Known(flow, k) \cap Pending(flow) = {}}
  IN  EvaluateHypotheses(flow) # "NoDecision" =>
        /\ settledPrefixes # {}
        /\ GetFlowState(flow) = Totals(Snaps[Max(settledPrefixes)])

(***************************************************************************)
(* With a drop budget (minPacketDrops, the *_12pkts configurations) a flow *)
(* is judged only when the budget is spent and each drop of it settled: no *)
(* drop can come after, so only duplicates can still change the verdict.   *)
(***************************************************************************)
VerdictNeedsWholeBudget ==
  MinPacketDrops > 0 /\ EvaluateHypotheses(flow) # "NoDecision" =>
    /\ flow.curCounters.droppedPkts = MinPacketDrops
    /\ Pending(flow) = {}

(***************************************************************************)
(* With a minimum of droppable packets (minDroppablePkts, the *_min300pkts *)
(* configurations) no verdict is ever reached on a flow: dropMorePackets   *)
(* stops dropping at the count that evaluateHypotheses asks a drop's       *)
(* snapshot to have, so every snapshot stays below it.                     *)
(***************************************************************************)
MinDroppableExcludesVerdict ==
  MinDroppablePkts > 0 => EvaluateHypotheses(flow) = "NoDecision"

(***************************************************************************)
(* A duplicate counted by a snapshot is counted by every later one and by  *)
(* the flow, so that a later snapshot never looks cleaner than an earlier  *)
(* one, even though their highestSeq may go down.                          *)
(***************************************************************************)
DuplicatesGrowAlongSnapshots ==
  /\ \A j, k \in DOMAIN Snaps :
       j <= k => Snaps[j].counters.duplicatePkts
                   <= Snaps[k].counters.duplicatePkts
  /\ \A k \in DOMAIN Snaps :
       /\ Snaps[k].counters.duplicatePkts <= flow.curCounters.duplicatePkts
       /\ Snaps[k].counters.droppablePkts <= flow.curCounters.droppablePkts

(***************************************************************************)
(* The flow keeps the ledger of its drops: each drop is entered once and   *)
(* settled once, and a verdict on a drop is never taken back, however late *)
(* its retransmission comes.                                               *)
(***************************************************************************)
Ledger == INSTANCE DropLedger WITH
  Drops         <- PacketIds,
  awaiting      <- Pending(flow),
  retransmitted <- flow.metaLists.retransmittedPktsList,
  expired       <- flow.metaLists.expiredPcksList

KeepsLedger == Ledger!Spec

(***************************************************************************)
(* highestSeq is, as the code says of it, the highest sequence number of   *)
(* the data seen so far.                                                   *)
(***************************************************************************)
HighestSeqIsHighest ==
  \A i \in flow.pktsIntervalTree : i[1] <= flow.highestSeq
===============================================================================
