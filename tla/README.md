# Penny in TLA+

Penny decides whether the traffic that arrives over an unexpected link is
*closed-loop* (a real bidirectional exchange) or not (spoofed). It drops a few
packets on purpose: a closed-loop sender retransmits them, a spoofing one cannot
know that it should. This directory holds TLA+ models of the Penny prototype in
`src/ns3-simulations/scratch/penny/`, TLC configurations that check them, and
proofs for TLAPS.

Paths below are relative to `src/ns3-simulations/scratch/penny/` unless they
start with `src/`.

## 1. The system

### 1.1 Components

| component | state | operations | talks to |
|---|---|---|---|
| decision rule, `pennyFlow::evaluateHypotheses` (`pennyFlow.cc:324`), `penny::evaluateAggrHypotheses` (`penny.cc:196`) | none: a function of a `pennyCounters` | evaluate | called by `penny::processPacket` with the front aggregate snapshot and with the flow's state |
| `pennyFlow` (`penny.h:144`, `pennyFlow.cc`), one per flow | current counters and lists, `highestSeq`, interval tree of payloads seen, decision map and time map of the drops, list of snapshots (one per drop), valid snapshot | `processPacket`, `dropPacket`, `evaluateHypotheses`, `getFlowState`, `getDuplicatesByPacketDropId` | called by `penny`; reads the simulator's clock |
| `penny` (`penny.h:91`, `penny.cc`), one per simulation | map of flows, pending and evaluated aggregate snapshots, the phase (`indivFlowsEnabled`), the outcome | `trackNewFlow`, `preregisterSpoofedFlow`, `processPacket`, `isRunning`, `exportJson` | called by the driver; calls every `pennyFlow`, reads their lists |
| driver (`sim.cc`) | the spoofed flows and the next segment of each, the instance of `penny`, the device | `main` (set-up), `processPacketNS3` on the device's `MacTx` trace, `generateSpoofedPackets` | ns-3 calls it for each packet the device is asked to send; it calls `penny::processPacket` and `SetDropPacketUid` |
| point-to-point device and its flow control (`src/ns3-simulations/src/point-to-point/model/point-to-point-net-device.cc`) | transmit queue, the flag that stops it, machine state, set of uids to drop, loss settings | `Send`, `TransmitStart`, `TransmitComplete`, `SetDropPacketUid` | its trace calls the driver before the packet is queued; it drops the packet later, when it is to be sent |
| header access (`src/ns3-simulations/src/network/model/packet.cc:455`) | none | payload size and TCP header of a packet | called by the driver and the device |
| interval tree (`libs/intervalTree/intervalTree.h`, vendored) | red-black tree of intervals | `insert`, `overlap_find` | used by `pennyFlow` |
| figure scripts (`src/ns3-simulations/pyscripts/`) | none | read the exported JSON, evaluate the rule again (`plotAccuracy.py:19`), draw | read what `penny` exports |
| theoretical analysis (`src/theoretical-analysis/sim.cc`) | arrays of totals | Monte-Carlo run of the rule without a network | none |
| experiment scripts and configurations (`src/ns3-simulations/experiments/`, `configs/`) | none | start simulations; parameter values | start the driver |
| ns-3 TCP (`src/ns3-simulations/src/internet/model/tcp-socket-base.cc`, `tcp-tx-buffer.cc`, `tcp-rx-buffer.cc`), the closed-loop sources and sinks | scoreboard of sent segments, state of loss recovery, retransmission timer and its back-off, retries left; segments received, pending acknowledgement | `ReceivedAck`, `ReTxTimeout`, `SendPendingData`, `ReceivedData`, `DelAckTimeout` | exchange packets through the device; do not know of Penny |
| JSON and random libraries, the rest of ns-3.40 | third party | | |

A packet takes this way: the device's `MacTx` trace calls `processPacketNS3`;
that may track a new flow (SYN), waits until enough flows are tracked, mixes the
packet with newly generated spoofed ones and gives each to
`penny::processPacket`, which (1) lets the flow account for it, (2) brings the
pending aggregate snapshots up to date with the drop of the front one and judges
the front if it is settled, (3) unless that ended the run, may drop the packet.
Everything in a callback runs to its end: ns-3 is a single-threaded
discrete-event simulator. What interleaves are the callbacks: packets of
different flows, and time passing between them.

### 1.2 What is hard

- A drop is settled long after the snapshots that counted it as pending were
  taken, in any order among the drops, from two places (time-out,
  retransmission). Each snapshot must be corrected exactly once, at two levels:
  the flow's snapshots by every settlement at once, the aggregate ones drop by
  drop as each drop becomes the front.
- Pending counts are `uint64_t`; one decrement too many never shows as a
  negative number but as a snapshot that is pending for ever.
- Packets may be reordered, duplicated, lost and retransmitted, before and after
  their drop expired.
- Copies are made and used after their originals changed: `validCounterSnap` in
  the flow, `acs` in `penny::processPacket`.
- Budgets (`minPacketDrops`, `minDroppablePkts`, `maxPacketDrops`) are tested in
  one function and relied on in another.
- What settles a drop is the sender's own recovery, which Penny sets off and
  cannot see: fast retransmission, time-outs that back off while Penny's own
  time-out runs, retries that run out.
- Penny enters a drop by sequence number before the packet is queued, the device
  makes it later by packet uid, and copies of a segment share both.
- The driver hands the duplicate of a spoofed packet to Penny without testing
  whether it still runs.
- The rule exists in three copies.

There is no persistence, no thread and no lock; there is nothing to say about
crash recovery or data races. `PROJECT.json` lists each hazard at its line with
the properties that watch over it.

### 1.3 What makes each component correct

- **Decision rule**: no verdict without an observation of its kind; more evidence
  for one side never moves the verdict to the other; duplicates never help; the
  copies agree.
- **pennyFlow**: counters and snapshots describe exactly the drops they cover; a
  packet is dropped once and settled once, for good; verdicts rest on the longest
  settled prefix of drops; budgets hold.
- **penny**: aggregate snapshots are evaluated once, in the order of the drops,
  and only when settled; their counters agree with their lists and never
  contradict the flows; the drop budget holds; the first verdict decides and the
  outcome stays.
- **device**: a packet that Penny asks to be dropped is dropped, and no other; no
  uid is left behind; the device queue never overflows and no packet is stranded
  in it or in the queue disc above it.
- **closed loop** (sender, device and Penny, receiver together): Penny's books,
  the device's drops and what the receiver lacks agree; each drop is settled, and
  in time if the flow is short and the network loses nothing; the transfer is still delivered.
- **theoretical analysis**: each flow is counted once and under what it sent; the
  figure errs to one side only.

## 2. Modules

```
 Powers ── Hypotheses ── Evidence ──┬── MCEvidence
    │          │                    └── Evidence_proofs ── ArithmeticLemmas
    │          │
    │       FlowOps ── FlowInvariants ──┬── PennyFlow ──┬── MCPennyFlow
    │                                   │  (DropLedger) └── PennyFlow_proofs ── FlowLemmas
    │                                   ├── FlowLemmas
    │                                   └── Penny ──┬── MCPenny
    │                                   (PennyFlow) └── Penny_proofs ── FlowLemmas,
    │                                                                   ArithmeticLemmas
    └── ArithmeticLemmas

 P2PDevice ──┬── MCP2PDevice
             ├── P2PDevice_proofs
             │
 PennyFlow ──┴── ClosedLoop ──┬── MCClosedLoop
                 │ (Transfer) └── ClosedLoop_proofs ── PennyFlow_proofs, P2PDevice_proofs,
 TcpTxBuffer ── TcpSender                              ArithmeticLemmas

 Hypotheses ── Theory ──┬── MCTheory
                        └── Theory_proofs ── ArithmeticLemmas
```

| module | models | correspondence |
|---|---|---|
| `Hypotheses` | the decision rule | `Verdict(c)` is `evaluateAggrHypotheses`; doubles become exact rationals by cross multiplication, the thresholds 0.99 and 0.01 the odds `DecisionOdds` = 99 |
| `Powers`, `ArithmeticLemmas` | `pow` of the libraries | powers as a recursive function; lemmas on powers and on sums over a set |
| `Evidence` | counters of successive snapshots; `plotAccuracy.evaluate_hypotheses` | each action is one way in which evidence grows |
| `Evidence_proofs` | – | theorems about the rule |
| `FlowOps` | class `pennyFlow` | a flow is a record with the class's fields; each method is an operator on it, with the method's name |
| `FlowInvariants` | – | what holds of a flow between two calls, as predicates |
| `DropLedger` | abstract specification | a drop is entered once and settled once |
| `PennyFlow` | one flow, any traffic | `Forward` (`penny::processPacket` lets the packet through), `Drop` (it drops it), `Tick` (time passes) |
| `FlowLemmas`, `PennyFlow_proofs` | – | lemmas on the operators of `FlowOps`; theorems about `PennyFlow`, in four parts: its maps and counters, its verdicts, its snapshots, and what one packet changes, for `ClosedLoop_proofs` |
| `Penny` | class `penny`, and of `sim.cc` what calls it | `TrackNewFlow`, `ClosedLoopPacket`, `SpoofedPacket`, `DuplicateSpoofedPacket` are the four ways `processPacketNS3` reaches Penny; `Process` is `penny::processPacket` |
| `Penny_proofs` | – | theorems about `Penny`: its flows one by one, its aggregate snapshots |
| `P2PDevice` | class `PointToPointNetDevice` (sending side), `NetDeviceQueue`, `QueueDisc::Run` | `Arrive` is `TrafficControlLayer::Send`, `WakeUp` the event that `PacketDequeued` schedules, `TransmitComplete` the event that `TransmitStart` schedules; `Send`, `TransmitStart` and `Run` are operators with the methods' names, composed as the calls are |
| `P2PDevice_proofs` | – | theorems about `P2PDevice` |
| `TcpTxBuffer` | class `TcpTxBuffer` with SACK | a scoreboard is a record with the class's counters and, for each flag of the items, the set of segments that have it; each method is an operator with its name |
| `TcpSender` | class `TcpSocketBase`, sending side | a socket is a record with the class's fields; each method is an operator with its name; a packet is sent by appending its segment to `out` |
| `Transfer` | abstract specification | a reliable transfer: delivered, then acknowledged, in the end all, unless given up |
| `ClosedLoop` | sender, links, `P2PDevice` with `PennyFlow` listening, receiver | `Arrive`, `WakeUp`, `TransmitComplete` are the device's; in each, `PennyListens` is `processPacketNS3` on the `MacTx` trace; `GetAck`, `RetxTimeout`, `DelAckTimeout` are the events of the two sockets; `Lost` is random loss on a link; `Tick` is time passing |
| `ClosedLoop_proofs` | – | theorems about the scoreboard, the sender and the closed loop, in the end about its time |
| `Theory` | `src/theoretical-analysis/sim.cc` | `Packet` is an iteration of the inner loop, `NextFlow` of the outer ones |
| `Theory_proofs` | – | theorems about `Theory` |

In `P2PDevice`, Penny is the free choice `ask` in `Send`, which is when the
`MacTx` trace calls `processPacketNS3`: any packet may be asked for. In
`ClosedLoop`, the choice is Penny's. A uid names a payload: TCP transmits copies of
the packet it keeps, and a copy has the uid of its original. The queue disc is
`PfifoFastQueueDisc`, one band of it, which all but three of the topologies
configure; `RedQueueDisc` differs in refusing packets before it is full.
`lossEnabled` says whether the device loses packets at random; on Penny's
device sim.cc leaves that off (`sim.cc:475` enables it on others).

What `ClosedLoop` and the sender abstract:

- The flow is of equal segments and starts with the connection established and
  all data written; the last segment carries the FIN, since the sources are
  `BulkSendApplication`s that close when they have sent all. An item of the sent
  list is a segment and is never split or merged.
- The congestion window is chosen afresh, at least one segment, whenever the code
  uses it, so that every congestion control is covered. The receiver's window is
  never full. There is no ECN, which is off, and so no state CWR.
- A tick is a second, the minimum of the retransmission time-out that ns-3
  configures. A round trip is some 100 ms and a delayed acknowledgement waits
  200 ms, so that the clock ticks only when nothing is on its way. This is
  justified for short flows only, `ShortFlow` with at most four segments: even
  if they go one by one they are through in some 800 ms, and no time-out of a
  second expires meanwhile. In a long flow the clocks of the sender and of Penny
  go on during recovery. The inductive invariants of the closed loop but for the
  one about time are proved without the guard of `Tick`, so that the clock might
  tick at any moment; `NeverMisjudged`, which is about time, is checked and
  proved for short flows only. The estimate of the round-trip time never gives
  more than the minimum, so the time-out is a second until it is doubled, and
  again after the next new acknowledgement.
- `Timeout` is 2 ticks for a `dropExpiration` of 3 s: an age in ticks may be
  short of the time by up to a tick, so that a drop the model calls overdue may
  not be so yet, and none that it calls in time is overdue.
- A segment that leaves the device is received, or lost, in the same step, and
  acknowledgements are neither lost nor reordered. Their loss would only delay
  the sender in the same way as the loss of the segments does.
- Penny is the record of the one flow. Its aggregates and `isRunning` are left
  out: they only take drops away, and `Penny` models them. Whether a packet is
  dropped stays a free choice within the flow's budget.

What is abstracted, everywhere:

- `packetId` is the pair (seq, ack), not a string; `stoi` of it is its first
  part. Sequence numbers are far below 2^31.
- The interval tree is the set of its intervals, `overlap_find` the existence of
  an overlapping one.
- Time is counted in ticks. A flow keeps the *age* of each pending drop instead
  of the time it was made; ages saturate at `2 * Timeout + 1`, above which no
  comparison in the code tells two ages apart.
- The coin of `dropPacket`, the random choice of a spoofed flow, and whether a
  spoofed packet is duplicated are free choices.
- Counters that no decision reads (`totalPkts`, `dataPkts`, `pureAckPkts`,
  `inOrderPkts`, `outOfOrderPkts`, and `penny`'s packet totals), the fields that
  are only written (`decisionMade`, `decisionType`, `aggrOutcome`) and the JSON
  export are left out. `pureAckPkts` and the rest can only be seen in exported
  files.
- An overdue drop expires when the flow's next *data* packet is processed, as in
  the code, and all drops overdue at that moment at once: the loop over the time
  map is one step, and its order does not matter since each settlement is
  independent of the others.
- The definitions marked *fault* are variants of the definition that follows
  them, as a plausible mistake would make them. No specification uses them; they
  show that the properties notice.

## 3. What is checked

| run | question | bounds |
|---|---|---|
| `evidence` (`MCEvidence.cfg`) | is the rule monotone in its evidence, does it need a witness, does the figure script agree? | 18 packets let through, 3 retransmissions, 2 expired drops, 4 duplicates: all three thresholds (0.15, 0.99, 0.01) are crossed in both directions inside them |
| `flow` (`MCPennyFlow.cfg`) | do the snapshots, maps and lists of a flow stay consistent under any traffic? Does it keep the ledger? Is a verdict based on the longest settled prefix? | 4 segments, a pure ACK, time-out of 1 tick, at most 2 duplicates |
| `flow_budget` (`MCPennyFlowBudget.cfg`) | with `minPacketDrops`, is a flow judged only after its whole budget? | budget 2 |
| `flow_min_droppable` (`MCPennyFlowMinDroppable.cfg`) | with `minDroppablePkts`, is a flow ever judged? | minimum 3 of 4 segments |
| `flow_highest_seq` (`MCPennyFlowHighestSeq.cfg`) | is `highestSeq` the highest? **No**, see 5 | 3 segments |
| `penny` (`MCPenny.cfg`) | order, settlement, agreement and budget of the aggregate snapshots; does the first verdict decide and stay? Is each flow kept as `pennyFlow` keeps one alone, whatever SYNs come again? | a TCP flow of 2 segments and pure ACKs, a spoofed flow of 2 segments, 3 drops, 2 duplicates per flow |
| `penny_duplicates` (`MCPennyDuplicates.cfg`) | do aggregate snapshots count each duplicate once? **No**, see 5 | as `penny` |
| `device` (`MCP2PDevice.cfg`) | does the device drop exactly what Penny asked for, with a queue of one packet and a separate wake-up event? Do all packets leave? | 3 uids, 2 copies of each, a queue disc of 2 |
| `closed_loop` (`MCClosedLoop.cfg`) | with the real sender, device and receiver: do the books match, is every drop settled, is any misjudged, is the transfer delivered? | 4 segments, window up to 4, 3 drops by Penny, 2 losses by the links, 2 retries, threshold of 2 duplicate acknowledgements |
| `theory` (`MCTheory.cfg`) | does the analysis count each flow once and under what it sent? Does it ever understate the chances of a source that duplicates blindly? | 6 packets, 2 or 3 duplicates, 2 runs, any drops |
| `theory_totals` (`MCTheoryTotals.cfg`) | are the totals those of the outcomes divided by them? **No**, see 5 | as `theory` |
| `penny_individual` (`MCPennyIndividual.cfg`) | are flows found closed-loop recorded? **No**, see 5 | 3 segments, time-out 0 |

Why the bounds are enough. An error in settling needs at most a drop before,
the drop itself, one after, and one more packet to trigger the time-out: four
segments. Two drops settle in either order, each by either way; a retransmission
comes before or after expiry. `Timeout` = 1 gives ages with the three outcomes the
code can tell apart (not overdue, overdue unless it is the last drop, overdue).
Duplicates beyond the second repeat what the second does to a snapshot.
`DecisionOdds` is 1 and the duplicate threshold 1 in the flow and Penny runs: with
the code's values no verdict is reached within a few packets, and every state in
which a verdict matters would be missed. `evidence` uses the code's own values.
In `penny`, two flows with two segments each give a drop on one flow between two
on the other; three is the smallest budget that lets a snapshot be pending
behind a front that has been judged while another drop is made.

In `device`, a packet on the wire, one in the device queue and two in the queue
disc are all the places there are, and one more arrival finds the queue disc
full; a second copy is the retransmission that a mark left behind would hit.

In `closed_loop`, four segments are the fewest with which a threshold of two
duplicate acknowledgements can start recovery of the first and leave a second
hole, so that there are partial acknowledgements in recovery; the code's
threshold of three needs one segment more and only makes recovery rarer. Two
retries and two losses on top of Penny's three drops let the connection be given
up, let drops expire and let a retransmission come late. A flow is found not
closed-loop with odds of 1, so that the verdict of `NeverMisjudged` is possible
within three drops. `MaxCopies` and `DuplicateBound` bound nothing: duplicates stay
far below 20, and a segment at the cap could not leave the link of the sender, which
the check of deadlock finds (it does with a cap of 3; caps of 4, 5 and 6 give the
same states).

In `theory`, the thresholds are scaled down so that flows of six packets meet all
four outcomes; the second run shows that nothing is carried over from the first.

Deadlock is checked in every run but `evidence`, where the record of evidence is
full at the bounds, `device`, where all copies are sent in the end, and the two
of `Theory`, a program that ends. Time can always move on in the others.

Fairness is assumed in `device` and `closed_loop`, since the simulator runs every
event that is scheduled: weak fairness of `WakeUp` and `TransmitComplete` and, in
`closed_loop`, of packets and acknowledgements leaving their links, of the two
timers and of time. Losses are not fair and bounded in number. In `device` the
arrival of packets is not fair. Nothing in the network obliges a flow to send
again, and a drop expires only when it does, so the flow and Penny runs assume no
fairness; that drops are settled all the same is what `closed_loop` shows of a
flow whose sender is TCP.

Properties, by what they are about:

- `SnapshotsAgreeWithDrops`, `MapsAgree`, `NeverDropsTwice`, `KeepsLedger`,
  `VerdictOnLongestSettledPrefix`, `DuplicatesGrowAlongSnapshots`,
  `VerdictNeedsWholeBudget`, `MinDroppableExcludesVerdict` (one flow);
- `AggregatesFollowDrops`, `AggregatesAgreeWithLists`, `EvaluatedAreSettled`,
  `DropBudget`, `FirstVerdictDecides`, `OutcomeStable`, `FlowsRunAlone` (Penny; the
  last is a refinement: each flow of Penny implements `PennyFlow`);
- `VerdictNeedsWitness`, `RetransmissionFavoursClosedLoop`,
  `SilenceFavoursNotClosedLoop`, `DuplicatesNeverHelp`, `FigureAgreesWithPenny`
  (the rule);
- `NeverOverflows`, `NoLostWakeUp`, `DropsWhatWasAsked`, `MarksAreQueued`,
  `PacketsLeave` (the device);
- `AssertionsHold`, `BooksMatchDrops`, `UndeliveredWhilePending`, `NeverMisjudged`,
  `LateIsDuplicate`, `EveryDropSettles`, `Transfers` (the closed loop);
- `RowsAgree`, `OneOutcomePerFlow`, `NeverUnderstates` (the analysis).

What `closed_loop` shows besides its properties. Where the links lose nothing, no
drop expires, although retransmissions that Penny's own drops set off needlessly
do count as duplicates. One lost packet is enough for several drops to expire, so
that no bound on expired drops by losses holds and `NeverMisjudged` is limited to
links without loss. A connection can be given up with a drop pending, which then
stays pending: this is the exception in `EveryDropSettles`.

`MinDroppableExcludesVerdict` is worth a remark: the `*_min300pkts` configurations
set `minDroppablePkts`, and what the code does then is to never judge a flow on
its own, because drops stop at the count that a snapshot must have reached to be
judged. Only the aggregate verdict, over the sum of the flows, is left. No text
says that this is intended or not, so it is stated as a property of the code.

## 4. What is proved

`PennyFlow_proofs.tla` proves for every set of packets, every time-out, every
budget and every number of segments:

| theorem | states |
|---|---|
| `TypeCorrect` | `Spec => []TypeOK`, no pending count ever wraps |
| `SnapshotsCorrect` | `Spec => []SnapshotsAgreeWithDrops` |
| `MapsCorrect` | `Spec => []MapsAgree` |
| `DroppedOnce` | `Spec => []NeverDropsTwice` |
| `LedgerKept` | `Spec => KeepsLedger`: the flow implements `DropLedger` |
| `JudgedAfterBudget` | `Spec => []VerdictNeedsWholeBudget` |
| `NeverJudged` | `Spec => []MinDroppableExcludesVerdict` |
| `DuplicatesInOrder` | `Spec => []DuplicatesGrowAlongSnapshots` |
| `VerdictUpToDate` | `Spec => []VerdictOnLongestSettledPrefix` |

Assumptions: those on the constants, in `Hypotheses`, `FlowOps` and `PennyFlow`
(packets have natural numbers in their fields, the time-out and bounds are
natural numbers). `Packets` may be infinite; each reachable state holds finitely
many drops, which the proofs derive from the sequence of snapshots.

The argument. None of the invariants is inductive alone. `NeverDropsTwice`
depends on a drop's payload still being in the interval tree; the snapshots'
counts on the maps agreeing, or a drop could be settled twice; the maps on no
drop being made twice, or a settled drop would become pending again. The
inductive invariant `FlowInv` (`FlowInvariants.tla`) is their conjunction with
the types and with `DropsRecorded`, which ties the decision map to the snapshots
and to the interval tree. That no count wraps follows from it: a pending count
is the size of a set.

`FlowLemmas.tla` shows that every operation of `FlowOps` keeps `FlowInv`, one
lemma per operation, and `ProcessPacketKeepsInv` composes them in the order of
the code. `NextInv` has one step per action. For the ledger,
`ForwardSettles` and `DropEnters` map the two actions to `Settle` and `Drop` of
`DropLedger`, and `Tick` to a stutter.

The second part adds `BudgetInv` for what verdicts depend on. A verdict is
always one on the valid snapshot (`VerdictFromValidSnapshot`: until a drop is
settled there is none). With `minDroppablePkts`, every snapshot and so the valid
one was taken below the minimum. With `minPacketDrops`, a valid snapshot that
holds the whole budget had, when it was copied, no pending drop, and covers as
many drops as were ever made, hence all of them; after that no drop can be made.
This last step is where `FlowInv` is needed: it turns counts into sets.

The third part adds two facts about the list of snapshots. Duplicates
grow along it (`DuplicatesGrow`): a duplicate is counted by all snapshots from some
one on, whatever `highestSeq` does in between. And `validCounterSnap` is the
present state of the last settled snapshot, or empty if none has settled
(`ValidIsLast`). A call of `processPacket` alters snapshots after the copy, but
copies again at its end; a snapshot once settled stays so (`SettlingStaysSettled`);
a drop appends a snapshot that has itself pending. That the code's test, a pending
count of zero, tells a settled prefix of drops is `SettledByDrops`, from `FlowInv`.

The fourth part says what one packet changes of the drops: it settles at most its own
and the overdue ones (`ForwardSettlesOwn`), and enters at most its own
(`DropEntersOwn`); and that, while no drop is overdue, none expires, the age of what
is pending changes with the clock only (`ForwardKeepsTimes`, `DropKeepsTimes`,
`TickKeepsTimes`), and no verdict speaks against the flow (`NoCaseAgainst`). The
closed loop rests on this.

`Penny_proofs.tla` carries this over to all flows, for all sets of flows and
packets, budgets and limits, and then proves what Penny does with them:

| theorem | states |
|---|---|
| `Invariance` | `FlowInv` holds of every tracked flow |
| `FlowsAlone` | `Spec => FlowsRunAlone` |
| `PennyTypeCorrect` | `Spec => []TypeOK` |
| `SnapshotsFollowDrops` | `Spec => []AggregatesFollowDrops` |
| `SnapshotsAgreeWithLists` | `Spec => []AggregatesAgreeWithLists` |
| `JudgedWhenSettled` | `Spec => []EvaluatedAreSettled` |
| `DropsWithinBudget` | `Spec => []DropBudget` |
| `FirstVerdictWins` | `Spec => []FirstVerdictDecides` |
| `OutcomeIsStable` | `Spec => OutcomeStable` |

`ProcessMoves` reduces `Process` to what it does to the flow of its packet, let it
through or drop it; the aggregate half cannot matter because a drop also asks for
what `PennyFlow!Drop` asks. The `Same...` lemmas only say that the operators that
the instance of `PennyFlow` brings are those that `Penny` uses, which the prover
does not know.

The theorems about the aggregate all come from one inductive invariant,
`AggrInv` (theorem `AggregatesInvariance`). None of the properties is inductive
alone:

- `Ordered` is about the two lists of snapshots taken together, evaluated before
  pending, whichever list a snapshot is in. The k-th snapshot counts k drops and
  is of a flow's next drop; its counters are sums, over the flows, of the sizes of
  its lists (`SnapshotOK`), and its lists say no more than the flows' own. A
  settled drop is moved between lists of a snapshot and its counters by the same
  amount, which is why the counters stay the sums. That a drop is counted once
  needs its id to be in the snapshot's list of drops and in no list of settled
  ones: this holds at the front of the queue because of
- `LaterUnsettled`: a snapshot behind the front does not have its own drop
  settled, as only the front's drop is ever settled, in all pending snapshots at
  once.
- `FrontUnsettled` is about the duplicate of a spoofed packet, which the driver
  hands over after the run may have ended: the front is then not settled, or a
  second verdict would follow the first.
- `VerdictsOK` ties the outcome to the evaluated snapshots: no evaluated snapshot
  but the last has a verdict.

A new snapshot is taken by adding up the counters of all flows, and `FlowInv`,
which holds of each, is what makes it a `SnapshotOK`.

`Evidence_proofs.tla` proves of the decision rule, for records of any size, all
odds and minima, and every duplicate limit and probability of missing a
retransmission up to 1 (`EvidenceAssumption`):

| theorem | states |
|---|---|
| `NoVerdictWithoutWitness` | `Spec => []VerdictNeedsWitness` |
| `RetransmissionsFavour` | `Spec => RetransmissionFavoursClosedLoop` |
| `SilenceFavours` | `Spec => SilenceFavoursNotClosedLoop` |
| `DuplicatesDoNotHelp` | `Spec => DuplicatesNeverHelp` |
| `FiguresAgree` | `Spec => []FigureAgreesWithPenny`, for the parameters that `plotAccuracy.py` has as literals |

With a/b the probability of missing a retransmission and N/F the rate of
duplicates, the rule compares `a^s * F^r` with `b^s * N^r`. All follows from a <= b
and, once the rate of duplicates is under the limit, N <= F. That evidence leaves
the verdict alone where it should takes one more fact for each property: one more
expired drop multiplies the sides by a and by b (`PowerSteps`), one more duplicate
lets N grow and with it `N^r` (`PowerGrows`).

`ArithmeticLemmas.tla` has the sums and the powers. The provers cannot use the
library's induction theorems, which take a predicate; the module states induction
with a set of the good instances instead (`NaturalsAreGood`, `FiniteSetIsGood`),
which follows from the least element of a well-founded set. `SumsExist` and
`PowersExist` show that the recursive functions behind a sum and a power exist,
from which their recursion equations follow. tlapm knows nothing of the operator
`^`, so that `Powers.tla` defines powers.

`P2PDevice_proofs.tla` proves for every set of packets, every number of copies
and every size of the queue disc (the queue size of 1 that `sim.cc:434` sets is a
definition):

| theorem | states |
|---|---|
| `TypeCorrect` | `Spec => []TypeOK` |
| `QueueNeverFull` | `Spec => []NeverOverflows` |
| `NoWakeUpLost` | `Spec => []NoLostWakeUp` |
| `DropsAsAsked` | `Spec => []DropsWhatWasAsked` |
| `NoMarkLeft` | `Spec => []MarksAreQueued` |
| `CopiesTakeTurns` | `Spec /\ lossEnabled = FALSE /\ []DiscHasRoom => []TakesTurns`: no copy is handed over before the first |

The inductive invariant `IInv` adds three things to the properties. `QueueOK`
ties the flag `stopped` to the device queue: whenever it is set, the queue holds
a packet or a wake-up is scheduled, and whenever it is not, the queue is empty,
which is why `Send` never finds it full. `MarksOK` says that a packet in the
device queue has its mark and has not been sent. `DiscOK` says that the packets
of the queue disc are distinct and still unknown to the device, so that a mark
set for one of them cannot meet another. `Send` and `TransmitStart` have lemmas
of their own, from which those of `Run` and of the three events follow. `InTurn`, for the last
theorem, says that each copy that has arrived was handed over or waits in the queue
disc, and that one which waits has the first copy before it.

`ClosedLoop_proofs.tla` proves, for every number of segments, window, number of
losses, threshold of duplicate acknowledgements, number of retries, and for
Penny's parameters and the device's as above (`ClosedLoopAssumption` collects
their assumptions, `BufferAssumption` and `SenderAssumption` the sender's):

| theorem | states |
|---|---|
| `ScoreboardKept` | each method takes a consistent scoreboard to a consistent one |
| `InFlightNeverWraps` | `BytesInFlight` of a consistent scoreboard is never negative |
| `LoopInvariance` | `Spec => []LoopInv` |
| `LoopTypes` | `Spec => []TypeOK` |
| `AssertionsNeverFail` | `Spec => []AssertionsHold` |
| `PendingIsMissing` | `Spec => []UndeliveredWhilePending` |
| `BooksAgree` | `Spec => []BooksMatchDrops` |
| `LateCountsTwice` | `Spec => []LateIsDuplicate` |
| `LoopTransfers` | `Spec => Flow!Init /\ [][Flow!Next]_(Flow!vars)` |
| `RetransmissionsComeInTime` | `Spec /\ [](Len(disc) < DiscLimit) => []NeverMisjudged`, if `ShortFlow` (at most four segments), `Timeout >= 2`, `DataRetries >= 1` and `maxDuplicates <= 1` |
| `NeverMisjudgedWithRoom` | `Spec => []NeverMisjudged`, if besides `Segments * MaxCopies < DiscLimit` |

`LoopTransfers` is the refinement of `Transfer` but for the fairness of `Transfer`: every
step of the loop is a step of the abstract transfer or leaves it alone.

The proof goes up from the methods. `Scoreboard` is a predicate on the record of
the sender's buffer: the code's assertions and the two facts they rest on, that no
more is acknowledged than was sent and that the highest selectively acknowledged
segment is in the sent list. Each method of the scoreboard keeps it, and each
method of the socket keeps `SenderOK`, which adds that nothing is on its way that was
never sent, and when duplicate acknowledgements are counted. `SendPendingData`
is a loop, a recursive function here: that it keeps them is shown with the set of
the numbers of rounds for which it does (`RoundsExist`, `SendPendingDataOK`).
What the methods need of an acknowledgement, and the code asserts, is true only of
those that come, which is why the composition has to be proved as a whole. Its
inductive invariant `LoopInv` has these parts:

- `D!IInv` is the device's. The device in the loop is an instance of `P2PDevice`, and
  every step of the loop is one of its steps or none, so that the theorems of
  `P2PDevice_proofs` hold of it. `HandOverInv` adds, for a device without random
  loss, that only a packet the device was handed can be asked for; a step hands
  over one new packet, the one that the `MacTx` trace tells Penny of, or none
  (`StepHandsOver`).
- `BooksInv` relates the device to Penny's record of the flow, which has
  `PennyFlow`'s invariant `F!IInv` and takes its steps. Penny enters a drop by
  sequence number and the device makes it by uid; the entered drops are those asked
  for, one packet of each segment, and of a segment whose drop is awaited no other
  packet was handed over. The second part is what makes `BooksMatchDrops` and
  `UndeliveredWhilePending` hold: the first copy that is handed over settles the
  drop, so that none can reach the receiver while it is awaited. Each drop that
  expired before one was handed over has added to the duplicates, by the same step.
- `WireOK` is about the acknowledgements between receiver and sender: each is true
  of what was received, none names the segment it asks for as received, and a later
  one says no less than an earlier one (`InOrder`). This is what rules out that the
  sender's head is selectively acknowledged, an assertion of the code: such an
  acknowledgement would have to overtake one. Without `InOrder` the invariant is not
  inductive, since processing one acknowledgement moves the head to which the next
  one refers.
- `SentInv` says that what the links carry has been sent by the sender, and that the
  receiver has only what the device has put on its link.

`LoopTransfers` needs one thing more, that the sender's timer is not running once all is
acknowledged (`TimerInvariance`), or it could give up after the end of the transfer. The
`Same...` lemmas serve as in `Penny_proofs`, for the two instances.

The last two theorems are about time: no drop of a short closed-loop flow
expires where nothing is lost, whatever the window, Penny's parameters, the
retries, the queue disc and the threshold of duplicate acknowledgements. They
are limited to a `ShortFlow`, because the clock of the model waits until nothing
is on its way, which is true of the program for no longer flows (see 2): of long
ones, in which the recovery of many drops may itself take seconds, nothing is
shown. `Timeout` is at least 2, as many ticks as stand for the code's 3 s: one
passes while the sender waits for its time-out of 1 s, and the other leaves room
for the round trips before and after, in which the clock stands still. No step
of the proof uses these two bounds; it is the meaning of the conclusion that
needs them. The other assumptions hold of the code's values too: `DataRetries`
is 6 by default (with none the first time-out gives the connection up),
`maxDuplicates` is 0.15. They need room in the queue disc, where a packet
dropped for want of it is a loss that `losses` does not count. Of every run of
`closed_loop` this is true as well, so the theorem covers that run; the second
theorem asks for a queue disc that can hold all that is ever sent and then
assumes nothing of the run. The argument: all that Penny has dropped is pending
for at most one time-out of the sender, because whatever is sent for the second
time arrives, and the first retransmission brings an acknowledgement for the
next. In detail, `TimeInv` says that as long as nothing is lost:

- Only first copies are dropped (`RestArrives`). Penny drops a payload only when it
  has not seen it before, and a retransmission cannot overtake the original
  (`CopiesTakeTurns` of the device), so that Penny has seen the payload of each one.
- When all is quiet, the last acknowledgement has reached the sender (`AckComes`), and a
  head that was retransmitted would have been received. Hence the sender is not
  recovering from a time-out when all is quiet (`QuietHasRecovered`), and its timer,
  if it runs, has its minimum left (`RtoOK`): the first tick ends it, and the second
  cannot come before all that the time-out retransmits has been acknowledged.
- `SenderInTime` has what this needs of the sender. After a time-out it retransmits in
  order what it takes to be lost, the head first, and nothing new before that is done
  (`LossOK`); its timer runs whenever something is not acknowledged, and after a
  time-out the head has been retransmitted (`Settled`); what it calls
  retransmitted was sent twice (`CopiesOK`). Each method of the socket keeps these
  (`SendPendingDataTime`, `ReceivedAckTime`, `ReTxTimeoutTime`); a method that
  leaves them open for a moment leaves the socket `Ready`, and `SendPendingData`, at
  its end, settles it.
- A drop is pending for no tick, or for one and then the time-out is due or is being
  recovered from, with the segment below `recover` (`DropsInTime`). As the head passes
  `recover` only when all below it is acknowledged, and a pending segment is not, it
  is retransmitted before the state LOSS ends. So no drop is older than one tick,
  none expires (the fourth part of `PennyFlow_proofs`), and without an expired
  drop the rule has no verdict against the flow (`NoCaseAgainst`).

`Theory_proofs.tla` proves for every number of packets, duplicates and runs and
all thresholds:

| theorem | states |
|---|---|
| `StaysInBounds` | `Spec => []TypeOK` |
| `TotalsMatchOutcomes` | `Spec => []RowsAgree` |
| `OutcomePerFlow` | `Spec => []OneOutcomePerFlow` |
| `ErrsToOneSide` | `Spec => NeverUnderstates` |

The first adds that a flow has sent a duplicate of each of its first `dups` packets
(`SentTwice`). The next two are inductive with it: a step adds one to one entry of
one table, and so one to one sum (`SumCountsUp`). `ErrsToOneSide` compares the
analysis with the rule as Penny has it (`Hypotheses`, instantiated with the flow's
counters): the analysis divides by the number of packets where Penny divides by
those it let through, which can only raise the weight of the genuine hypothesis
(`WeightsCompared`) and lower the rate of duplicates (`DuplicatesCompared`). It
needs that a packet is dropped or seen again but not both (`PInv`).

Only model-checked:

- Liveness under fairness, which is outside what the prover handles:
  `EveryDropSettles`, `PacketsLeave`, and of `Transfers` that the transfer ends.

Neither checked nor proved is whether Penny waits long enough for the retransmissions
of a flow of more than four segments, or of one that loses packets: there
`NeverMisjudged` says nothing, since one lost packet can make several drops expire.

## 5. Disagreements between the code and its text

- `flow_highest_seq`: `highestSeq` can go down (`pennyFlow.cc:36`), though the
  comments at `pennyFlow.cc:28` and `penny.h:185` say it is the highest. A
  duplicate or retransmission is never out of sequence and sets it.
- `penny_duplicates`: `checkAndUpdateDuplicates` (`penny.cc:173`) counts a
  duplicate of the front's flow also in snapshots that counted it when they were
  made, and compares `packetId` across flows. `penny.h:26` says the counter counts
  duplicate packets.
- `penny_individual`: the branch that records a closed-loop flow (`penny.cc:128`)
  is inside the branch for no decision and never runs, so examining flows one by
  one cannot end a run, against `penny.cc:90`.
- `theory_totals`: the analysis counts totals under the duplicates that reach the
  monitor and outcomes under those that were sent (`src/theoretical-analysis/sim.cc:68`),
  against its comment at line 24. The shares it prints are not probabilities; the
  stored results start with one of 1.10.

## 6. Plan

Order, most important first; done: 1–9 and 11, but for what is marked open, and 10
for single flows.

1. `Hypotheses`, `Evidence`: the rule.
2. `FlowOps`, `FlowInvariants`, `PennyFlow`: one flow.
3. `DropLedger`: what a flow promises; refinement checked.
4. `FlowLemmas`, `PennyFlow_proofs`: the flow proved.
5. `Penny`: all flows and the driver's calls.
6. Disagreements stated as violated properties.
7. Proofs about verdicts and snapshots of a flow: `PennyFlow_proofs`; about the
   rule: `Evidence_proofs`; about the analysis: `Theory_proofs`.
8. `Penny_proofs`: every flow of Penny is one of `PennyFlow`; the aggregate. Open: an
   abstract specification of the two snapshot lists as a first-in first-out judge.
9. `P2PDevice`: the device with its flow control and the queue disc, checked and
   proved; `TcpSender`, `ClosedLoop`: its composition with Penny and with the
   sender and receiver of a flow; `ClosedLoop_proofs`: its safety, and that the drops
   of a short flow are settled in time where nothing is lost. Open: a clock that goes
   on during recovery, for long flows; the closed loop with two flows and Penny's
   aggregates.
10. Liveness: every drop of a TCP flow is settled (`EveryDropSettles`). Open: every
    aggregate snapshot is evaluated, under fairness of each flow's packets.
11. `Theory`: `src/theoretical-analysis/sim.cc`.
12. `IntervalTree`: `overlap_find`'s descent against the existence of an overlap.

## 7. Not modelled

The vendored JSON, random-number and interval-tree libraries; ns-3 but for what
settles a drop of Penny's (the point-to-point device, its flow control and queue
disc, and of TCP the scoreboard, loss recovery, time-outs and acknowledgements).
The rest of ns-3 is by far the largest part of the repository and none of its
logic: wireless and routing models, the event loop, helpers, connection set-up,
congestion control. Where it matters to Penny, the models leave it a free choice.
Reading of configurations, JSON export and plotting (input and output); experiment
scripts (they start one simulation each); header parsing (its result is the
models' input); the device's receiving side and its log of drops. Sequence
numbers near 2^31 or 2^32, where `stoi` and the sum of sequence number and size
misbehave, are left out: the simulated transfers stay far below. So are two-way
flows, whose retransmissions may carry another acknowledgement number: the simulated
ones send data one way only.
