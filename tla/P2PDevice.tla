------------------------------ MODULE P2PDevice ------------------------------
(***************************************************************************)
(* The device that Penny listens to and that makes its drops, with the     *)
(* queue disc above it.  Penny is called from the device's MacTx trace,    *)
(* when a packet is about to be queued; it answers by leaving the packet's *)
(* uid in m_pkt_drop_uids, and the device drops the packet when its turn   *)
(* to be transmitted comes.                                                *)
(*                                                                         *)
(* A uid names the data of a segment: TCP sends copies of the packet it    *)
(* keeps, so that a retransmission has the uid of its original.            *)
(*                                                                         *)
(* Each action is an event of the simulator and runs to its end.  The      *)
(* device queue holds one packet, which sim.cc sets for all devices: a     *)
(* Send therefore always stops the device queue, and the loop of           *)
(* QueueDisc::Run ends after one Send.                                     *)
(***************************************************************************)
EXTENDS Naturals, Sequences, SequencesExt

CONSTANTS
  Uids,       \* the packets of the senders
  MaxCopies,  \* caps the transmissions of a packet by its sender
  DiscLimit,  \* size of the queue disc
  NoPacket    \* a null m_currentPkt

Packets == [uid : Uids, copy : 1..MaxCopies]

ASSUME DeviceAssumption ==
  /\ MaxCopies \in Nat
  /\ DiscLimit \in Nat
  /\ NoPacket \notin Packets

QueueLimit == 1

VARIABLES
  disc,         \* the queue disc
  queue,        \* m_queue
  stopped,      \* m_stoppedByDevice of the transmission queue
  wakeUps,      \* scheduled calls of the function in PacketDequeued
  currentPkt,   \* m_currentPkt, NoPacket when m_txMachineState is READY
  dropUids,     \* m_pkt_drop_uids
  lossEnabled,  \* is_random_loss_enabled
  copies,       \* how often each packet has been sent
  asked,        \* the packets that Penny has asked to be dropped
  sent,         \* the packets handed to the channel
  dropped,      \* the packets dropped on Penny's behalf
  discarded     \* the packets for which the device queue had no room

devVars == <<queue, stopped, wakeUps, currentPkt, dropUids, asked, sent,
             dropped, discarded>>
vars == <<disc, devVars, lossEnabled, copies>>

Init ==
  /\ disc = <<>>
  /\ queue = <<>>
  /\ stopped = FALSE
  /\ wakeUps = 0
  /\ currentPkt = NoPacket
  /\ dropUids = {}
  /\ lossEnabled \in BOOLEAN
  /\ copies = [u \in Uids |-> 0]
  /\ asked = {}
  /\ sent = {}
  /\ dropped = {}
  /\ discarded = {}

-------------------------------------------------------------------------------
\* (fault: off by one)
Overflows(q) == Len(q) > QueueLimit

WouldOverflow(q) == Len(q) + 1 > QueueLimit

\* SetDropPacketUid, in the MacTx trace
Marked(uids, p, ask) == IF ask THEN uids \cup {p.uid} ELSE uids

\* (fault: a uid is kept when its packet is dropped)
Keep(uids, p) == uids

Erase(uids, p) == uids \ {p.uid}

\* TransmitStart, with the uids marked so far: the packet is lost at random,
\* dropped or handed to the channel.  The transmitter is busy in each case.
TransmitStart(p, uids) ==
  /\ currentPkt' = p
  /\ \/ /\ lossEnabled
        /\ dropUids' = uids
        /\ UNCHANGED <<sent, dropped>>
     \/ /\ p.uid \in uids
        /\ dropUids' = Erase(uids, p)
        /\ dropped' = dropped \cup {p}
        /\ UNCHANGED sent
     \/ /\ p.uid \notin uids
        /\ dropUids' = uids
        /\ sent' = sent \cup {p}
        /\ UNCHANGED dropped

\* (fault: no one restarts the queue disc)
NotScheduled(scheduled) == scheduled

\* PacketDequeued: the wake-up is an event of its own.
Scheduled(scheduled) == scheduled + 1

\* Send, with the wake-ups scheduled so far; Penny may ask for any drop.
Send(p, scheduled) ==
  \E ask \in BOOLEAN :
    /\ asked' = IF ask THEN asked \cup {p} ELSE asked
    /\ IF WouldOverflow(queue)
         THEN /\ discarded' = discarded \cup {p}
              /\ stopped' = TRUE
              /\ dropUids' = Marked(dropUids, p, ask)
              /\ wakeUps' = scheduled
              /\ UNCHANGED <<queue, currentPkt, sent, dropped>>
         ELSE /\ UNCHANGED discarded
              /\ stopped' = WouldOverflow(Append(queue, p))
              /\ \/ /\ currentPkt = NoPacket
                    /\ queue' = Tail(Append(queue, p))
                    /\ wakeUps' = Scheduled(scheduled)
                    /\ TransmitStart(Head(Append(queue, p)),
                                     Marked(dropUids, p, ask))
                 \/ /\ currentPkt # NoPacket
                    /\ queue' = Append(queue, p)
                    /\ wakeUps' = scheduled
                    /\ dropUids' = Marked(dropUids, p, ask)
                    /\ UNCHANGED <<currentPkt, sent, dropped>>

\* (fault: the queue disc sends whether or not the device queue is stopped)
MaySendAnyway(packets, isStopped) == packets # <<>>

\* Restart
MaySend(packets, isStopped) == packets # <<>> /\ ~isStopped

\* QueueDisc::Run
Run(packets, isStopped, scheduled) ==
  \/ /\ MaySend(packets, isStopped)
     /\ disc' = Tail(packets)
     /\ Send(Head(packets), scheduled)
  \/ /\ ~MaySend(packets, isStopped)
     /\ disc' = packets
     /\ stopped' = isStopped
     /\ wakeUps' = scheduled
     /\ UNCHANGED <<queue, currentPkt, dropUids, asked, sent, dropped,
                    discarded>>

-------------------------------------------------------------------------------
\* The queue disc drops a packet if it is full.
Accepted(packets, p) ==
  IF Len(packets) < DiscLimit THEN Append(packets, p) ELSE packets

\* TrafficControlLayer::Send
Arrive(u) ==
  LET p == [uid |-> u, copy |-> copies[u] + 1] IN
  /\ copies[u] < MaxCopies
  /\ copies' = [copies EXCEPT ![u] = @ + 1]
  /\ Run(Accepted(disc, p), stopped, wakeUps)
  /\ UNCHANGED lossEnabled

\* The event that PacketDequeued schedules for now.
WakeUp ==
  /\ wakeUps > 0
  /\ IF stopped /\ ~WouldOverflow(queue)
       THEN Run(disc, FALSE, wakeUps - 1)
       ELSE /\ wakeUps' = wakeUps - 1
            /\ UNCHANGED <<disc, queue, stopped, currentPkt, dropUids, asked,
                           sent, dropped, discarded>>
  /\ UNCHANGED <<lossEnabled, copies>>

\* A packet takes time to transmit, so the wake-ups scheduled for the moment
\* at which it began have happened.
TransmitComplete ==
  /\ currentPkt # NoPacket
  /\ wakeUps = 0
  /\ IF queue = <<>>
       THEN /\ currentPkt' = NoPacket
            /\ UNCHANGED <<queue, wakeUps, dropUids, sent, dropped>>
       ELSE /\ queue' = Tail(queue)
            /\ wakeUps' = Scheduled(wakeUps)
            /\ TransmitStart(Head(queue), dropUids)
  /\ UNCHANGED <<disc, stopped, lossEnabled, copies, asked, discarded>>

Next ==
  \/ \E u \in Uids : Arrive(u)
  \/ WakeUp
  \/ TransmitComplete

\* The simulator runs every event that is scheduled.
Fairness == WF_vars(WakeUp) /\ WF_vars(TransmitComplete)

Spec == Init /\ [][Next]_vars /\ Fairness

-------------------------------------------------------------------------------
\* The state has the types of the members of the device, and the two queues
\* keep to their sizes.
TypeOK ==
  /\ disc \in Seq(Packets)
  /\ Len(disc) <= DiscLimit
  /\ queue \in Seq(Packets)
  /\ Len(queue) <= QueueLimit
  /\ stopped \in BOOLEAN
  /\ wakeUps \in Nat
  /\ currentPkt \in Packets \cup {NoPacket}
  /\ dropUids \subseteq Uids
  /\ lossEnabled \in BOOLEAN
  /\ copies \in [Uids -> 0..MaxCopies]
  /\ asked \subseteq Packets
  /\ sent \subseteq Packets
  /\ dropped \subseteq Packets
  /\ discarded \subseteq Packets

(***************************************************************************)
(* The device queue never has to discard a packet, although it holds only  *)
(* one and the wake-up that lets the next one in is a separate event: what *)
(* PacketDiscarded calls a BUG does not happen.  Were it to, the mark of a *)
(* discarded packet would stay behind and hit its retransmission.          *)
(***************************************************************************)
NeverOverflows == discarded = {}

(***************************************************************************)
(* No packet waits for an event that is not coming: with a packet in the   *)
(* device queue the transmitter is busy, and with one in the queue disc    *)
(* the device queue is full or a wake-up is scheduled.                     *)
(***************************************************************************)
NoLostWakeUp ==
  /\ queue # <<>> => currentPkt # NoPacket
  /\ disc # <<>> => stopped /\ (WouldOverflow(queue) \/ wakeUps > 0)

(***************************************************************************)
(* Penny's word is kept, though it is given by uid and before the packet   *)
(* is queued: a packet that Penny asked to be dropped is never             *)
(* transmitted, and, where no packet is lost at random before it is looked *)
(* up (as on this device in sim.cc), no other packet is dropped, be it a   *)
(* retransmission with the same uid.                                       *)
(***************************************************************************)
DropsWhatWasAsked ==
  /\ asked \cap sent = {}
  /\ ~lossEnabled => dropped \subseteq asked

(***************************************************************************)
(* A uid that is still marked is that of a packet still to be transmitted: *)
(* no mark is left behind.                                                 *)
(***************************************************************************)
MarksAreQueued ==
  ~lossEnabled =>
    \A u \in dropUids : \E p \in ToSet(queue) : p.uid = u /\ p \in asked

(***************************************************************************)
(* Each packet that the queue disc accepts leaves it and the device queue: *)
(* stopping and waking the device queue never strands one.                 *)
(***************************************************************************)
PacketsLeave ==
  \A p \in Packets :
    p \in ToSet(disc) \cup ToSet(queue) ~> p \notin ToSet(disc) \cup ToSet(queue)
===============================================================================
