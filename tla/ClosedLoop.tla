------------------------------ MODULE ClosedLoop ------------------------------
(***************************************************************************)
(* A closed-loop flow under Penny: a TCP sender, the device at which Penny *)
(* listens and drops, and a TCP receiver.  Penny's word reaches the device *)
(* as a uid, its drops reach the sender as missing acknowledgements, and   *)
(* what the sender does about them reaches Penny as retransmissions: here  *)
(* it is the code of the sender, and not a choice, that settles the drops. *)
(*                                                                         *)
(* The links before and after the device may lose packets, as ns-3's       *)
(* random loss does; the device of Penny does not.  Links keep the order   *)
(* of packets.  A segment that the device transmits is received in the     *)
(* same step: the receiver acts on nothing else but its own timer, so the  *)
(* time a segment takes to it adds to that of the acknowledgement.         *)
(*                                                                         *)
(* The clock ticks by a second when nothing is on its way.  That is so of  *)
(* short flows: a round trip takes 100 ms and a delayed acknowledgement    *)
(* 200 ms more, so that the round trips of a few segments are over before  *)
(* a time-out of a second is.  In a long flow the clocks of the sender and *)
(* of Penny go on during recovery; what is said of time here is therefore  *)
(* limited to a ShortFlow.  The proofs of the other invariants do not use  *)
(* that the clock waits.                                                   *)
(***************************************************************************)
EXTENDS TcpSender, SequencesExt

CONSTANTS
  Window,      \* the largest congestion window
  MaxLosses,   \* the packets that the links may lose
  MaxCopies, DiscLimit, NoPacket,              \* the device
  MaxDuplicates, NotObserveRetransmission, DecisionOdds,
  MinPacketDrops, MinDroppablePkts, Timeout,   \* Penny
  DuplicateBound

VARIABLES
  snd,      \* the sender
  rcv,      \* the receiver
  acks,     \* acknowledgements on their way to the sender
  losses,   \* how many packets the links have lost
  flow,     \* Penny
  disc, queue, stopped, wakeUps, currentPkt, dropUids, lossEnabled, copies,
  asked, sent, dropped, discarded   \* the device

devVars == <<disc, queue, stopped, wakeUps, currentPkt, dropUids, lossEnabled,
             copies, asked, sent, dropped, discarded>>
vars == <<snd, rcv, acks, losses, flow, devVars>>

\* What Penny sees of a segment; the flow is one-way, so that the
\* acknowledgement number in its segments never changes.
PacketOf(seq) == [seq |-> seq, ack |-> 1, payloadSize |-> 1]

Penny  == INSTANCE PennyFlow WITH Packets <- {PacketOf(i) : i \in SegmentNos}
Device == INSTANCE P2PDevice WITH Uids <- SegmentNos

ASSUME ClosedLoopAssumption ==
  /\ Window \in Nat \ {0}
  /\ MaxLosses \in Nat
  /\ Penny!HypothesesAssumption
  /\ Penny!FlowAssumption
  /\ Penny!DuplicateBoundAssumption
  /\ Device!DeviceAssumption

Receiver == [received : SUBSET SegmentNos, delAckCount : 0..2]
Ack      == [number : 1..Segments + 1, sacked : SUBSET SegmentNos]

\* The handshake leaves the receiver with m_delAckCount at its maximum, and
\* the sender with some initial window to fill.
Init ==
  /\ Penny!Init
  /\ Device!Init
  /\ lossEnabled = FALSE
  /\ snd \in {SendPendingData(NewSocket, w) : w \in 1..Window}
  /\ rcv = [received |-> {}, delAckCount |-> 2]
  /\ acks = <<>>
  /\ losses = 0

-------------------------------------------------------------------------------
\* The receiver

\* (fault: gaps below the last segment are overlooked)
NextAfterLast(received) == Max({0} \cup received) + 1

NextRxSequence(received) == Min((1..Segments + 1) \ received)

\* SendEmptyPacket: the list of selectively acknowledged blocks is as long as
\* need be for a few segments.
SendAck(received) ==
  LET next == NextRxSequence(received) IN
  /\ acks' = Append(acks, [number |-> next,
                           sacked |-> {i \in received : i > next}])
  /\ rcv' = [received |-> received, delAckCount |-> 0]

(***************************************************************************)
(* ReceivedData: the acknowledgement is put off if the segment is in       *)
(* sequence, leaves no gap and fills none, and is the first such one since *)
(* the last acknowledgement.  The last segment carries the FIN, which is   *)
(* acknowledged at once when all is received.                              *)
(***************************************************************************)
MayDelayAck(i) ==
  LET received == rcv.received \cup {i} IN
  /\ i \notin rcv.received
  /\ i = NextRxSequence(rcv.received)
  /\ received = 1..i
  /\ i # Segments
  /\ rcv.delAckCount + 1 < 2

ReceivedData(i) ==
  \/ /\ MayDelayAck(i)
     /\ rcv' = [received |-> rcv.received \cup {i},
                delAckCount |-> rcv.delAckCount + 1]
     /\ UNCHANGED acks
  \/ /\ ~MayDelayAck(i)
     /\ SendAck(rcv.received \cup {i})

DelAckTimeout ==
  /\ rcv.delAckCount = 1
  /\ SendAck(rcv.received)
  /\ UNCHANGED <<snd, losses, flow, devVars>>

-------------------------------------------------------------------------------
\* The device and Penny

LoseOne == losses < MaxLosses /\ losses' = losses + 1

\* The packets that the queue disc has handed to the device.
AtDevice == ((ToSet(queue) \cup {currentPkt}) \ {NoPacket}) \cup discarded

(***************************************************************************)
(* processPacketNS3, for the packet of the MacTx trace in this step of the *)
(* device: Penny is what decides whether the device is asked to drop it.   *)
(***************************************************************************)
PennyListens ==
  LET seen == AtDevice' \ AtDevice IN
  \/ seen = {} /\ UNCHANGED flow
  \/ \E p \in seen : asked' = asked /\ Penny!Forward(PacketOf(p.uid))
  \/ \E p \in seen : asked' = asked \cup {p} /\ Penny!Drop(PacketOf(p.uid))

\* What the device puts on the link in this step is received or lost.
Transmitted ==
  LET gone == sent' \ sent IN
  \/ gone = {} /\ UNCHANGED <<rcv, acks, losses>>
  \/ \E p \in gone : ReceivedData(p.uid) /\ UNCHANGED losses
  \/ gone # {} /\ LoseOne /\ UNCHANGED <<rcv, acks>>

\* The first segment on the link to the device is lost or arrives there.
LeaveLink == snd.out # <<>> /\ snd' = [snd EXCEPT !.out = Tail(@)]

Lost ==
  /\ LeaveLink
  /\ LoseOne
  /\ UNCHANGED <<rcv, acks, flow, devVars>>

Arrive ==
  /\ LeaveLink
  /\ Device!Arrive(Head(snd.out))
  /\ PennyListens
  /\ Transmitted

WakeUp ==
  /\ Device!WakeUp
  /\ PennyListens
  /\ Transmitted
  /\ UNCHANGED snd

TransmitComplete ==
  /\ Device!TransmitComplete
  /\ PennyListens
  /\ Transmitted
  /\ UNCHANGED snd

-------------------------------------------------------------------------------
\* The sender, and time

ReceiveAck == acks # <<>> /\ acks' = Tail(acks)

\* DoForwardUp: a connection that has been given up has no end point.
GetAck ==
  /\ ReceiveAck
  /\ IF snd.connected
       THEN \E window \in 1..Window :
              snd' = ReceivedAck(snd, Head(acks).number, Head(acks).sacked, window)
       ELSE UNCHANGED snd
  /\ UNCHANGED <<rcv, losses, flow, devVars>>

RetxTimeout ==
  /\ snd.retxEvent = 0
  /\ snd' = ReTxTimeout(snd)
  /\ UNCHANGED <<rcv, acks, losses, flow, devVars>>

Quiet ==
  /\ snd.out = <<>> /\ acks = <<>> /\ rcv.delAckCount # 1
  /\ disc = <<>> /\ currentPkt = NoPacket /\ wakeUps = 0

(***************************************************************************)
(* The flows for which the clock may wait until all is quiet.  Of four     *)
(* segments at most two have their acknowledgement delayed, since that of  *)
(* the first and that of the last are sent at once: even one by one, the   *)
(* segments are through in some 800 ms.  A drop that is settled after one  *)
(* tick is then settled within 0.8 s before the tick, the second that the  *)
(* tick stands for, and 0.8 s after it, which is less than Penny's 3 s.    *)
(***************************************************************************)
ShortFlow == Segments <= 4

Tick ==
  /\ Quiet
  /\ snd.retxEvent # 0
  /\ snd' = [snd EXCEPT !.retxEvent = IF @ = Off THEN Off ELSE @ - 1]
  /\ Penny!Tick
  /\ UNCHANGED <<rcv, acks, losses, devVars>>

Next ==
  \/ Arrive
  \/ Lost
  \/ WakeUp
  \/ TransmitComplete
  \/ DelAckTimeout
  \/ GetAck
  \/ RetxTimeout
  \/ Tick

(***************************************************************************)
(* The simulator runs every event that is scheduled: what is on a link     *)
(* leaves it, received or lost, and the clock goes on.                     *)
(***************************************************************************)
Fairness ==
  /\ Device!Fairness
  /\ WF_snd(LeaveLink)
  /\ WF_acks(ReceiveAck)
  /\ WF_vars(DelAckTimeout)
  /\ WF_vars(RetxTimeout)
  /\ WF_vars(Tick)

Spec == Init /\ [][Next]_vars /\ Fairness

-------------------------------------------------------------------------------
\* The state has the types of the members of the socket, the device and the
\* flow, by which no count of retries has wrapped around.
TypeOK ==
  /\ snd \in Socket
  /\ rcv \in Receiver
  /\ acks \in Seq(Ack)
  /\ losses \in 0..MaxLosses
  /\ Device!TypeOK
  /\ Penny!TypeOK

\* What the scoreboard relies on in an acknowledgement that arrives
Acceptable(a, t) ==
  /\ a.number \in 1..t.nextByteSeq
  /\ a.number \notin t.sacked \cup a.sacked
  /\ t.firstByteSeq \notin a.sacked

(***************************************************************************)
(* The assertions of the sender hold, ConsistencyCheck's among them, which *)
(* the code switches off: whatever is dropped, lost, resent or selectively *)
(* acknowledged, the counters of the scoreboard are those of its flags, so *)
(* that what is in flight is never miscounted and the sender never stalls  *)
(* or floods; no acknowledgement upsets them; and the duplicate            *)
(* acknowledgements of one episode are not carried over into the next.     *)
(***************************************************************************)
AssertionsHold ==
  /\ Consistent(snd.buf)
  /\ snd.buf.highestSack \in SentList(snd.buf) \cup {None}
  /\ acks # <<>> /\ snd.connected => Acceptable(Head(acks), snd.buf)
  /\ snd.congState = "OPEN" => snd.dupAckCount = 0
  /\ snd.congState = "DISORDER" => snd.dupAckCount <= DupThresh \/ snd.recoverActive

PendingNos == {Penny!SeqOf(id) : id \in Penny!Pending(flow)}

(***************************************************************************)
(* While Penny waits for the retransmission of a segment, the receiver     *)
(* does not have it: the drop really was made, and nothing brings the data *)
(* past Penny unseen.  A drop that expires in this state is therefore one  *)
(* whose data was missing for the whole time.                              *)
(***************************************************************************)
UndeliveredWhilePending == PendingNos \cap rcv.received = {}

UidsOf(packets) == {p.uid : p \in packets}

(***************************************************************************)
(* Penny's books and the device agree, although Penny enters a drop when   *)
(* the packet is about to be queued, by its sequence number, and the       *)
(* device makes it later, by a uid that retransmissions share: what the    *)
(* device has dropped, or will when it leaves its queue, is what Penny has *)
(* entered, one copy of each segment and no other.                         *)
(***************************************************************************)
BooksMatchDrops ==
  /\ dropped \subseteq asked
  /\ asked \ dropped \subseteq ToSet(queue)
  /\ UidsOf(asked) = {Penny!SeqOf(id) : id \in DOMAIN flow.droppedPktsDecision}
  /\ Cardinality(asked) = Cardinality(UidsOf(asked))

Expired == flow.metaLists.expiredPcksList

(***************************************************************************)
(* Where the links lose nothing, no drop of a closed-loop flow expires,    *)
(* and the flow is never found not to be closed-loop: whichever segments   *)
(* of a short flow are dropped, and whatever that does to the sender's     *)
(* recovery and time-outs, each retransmission comes within the time that  *)
(* Penny gives.                                                            *)
(***************************************************************************)
NeverMisjudged ==
  losses = 0 => Expired = {} /\ Penny!EvaluateHypotheses(flow) # "NotClosedLoop"

(***************************************************************************)
(* With losses a drop may expire before its retransmission comes, and then *)
(* counts twice against the flow: by the time its data has arrived it has  *)
(* also been counted as a duplicate.                                       *)
(***************************************************************************)
LateIsDuplicate ==
  Cardinality({id \in Expired : Penny!SeqOf(id) \in rcv.received})
    <= flow.curCounters.duplicatePkts

(***************************************************************************)
(* No drop stays undecided for ever unless the connection is given up,     *)
(* although nothing but a packet of the flow itself can settle a drop.     *)
(***************************************************************************)
EveryDropSettles ==
  \A i \in SegmentNos : i \in PendingNos ~> i \notin PendingNos \/ ~snd.connected

(***************************************************************************)
(* Penny's drops do not break the flow: as a reliable transfer would, it   *)
(* delivers every segment and acknowledges only what is delivered, unless  *)
(* the connection is given up.                                             *)
(***************************************************************************)
Flow == INSTANCE Transfer WITH
  delivered    <- rcv.received,
  acknowledged <- snd.buf.firstByteSeq - 1,
  open         <- snd.connected

Transfers == Flow!Spec
===============================================================================
