--------------------------- MODULE P2PDevice_proofs ---------------------------
(***************************************************************************)
(* Theorems about the device: for any set of packets, any number of copies *)
(* of each and any size of the queue disc, the device queue of one packet  *)
(* never overflows, no wake-up is lost, the device drops exactly what      *)
(* Penny asked it to drop, and no copy of a packet overtakes the first.    *)
(***************************************************************************)
EXTENDS P2PDevice, SequenceTheorems, TLAPS

-------------------------------------------------------------------------------
\* The inductive invariant.

\* A packet that has arrived.
Arrived(p) == p \in Packets /\ p.copy <= copies[p.uid]

\* The packets of the queue disc, each once and none of them sent on yet.
DiscOK(packets, cps) ==
  /\ packets \in Seq(Packets)
  /\ Len(packets) <= DiscLimit
  /\ \A i \in 1..Len(packets) :
       /\ packets[i].copy <= cps[packets[i].uid]
       /\ packets[i] \notin ToSet(queue) \cup asked \cup sent
  /\ \A i, j \in 1..Len(packets) : packets[i] = packets[j] => i = j

\* The device queue and the flag that stops it.
QueueOK ==
  /\ ~stopped => queue = <<>>
  /\ stopped => queue # <<>> \/ wakeUps > 0
  /\ queue # <<>> => currentPkt # NoPacket

\* A mark is there as long as its packet waits.
MarksOK ==
  /\ ToSet(queue) \cap sent = {}
  /\ \A p \in ToSet(queue) \cap asked : p.uid \in dropUids
  /\ \A p \in ToSet(queue) \cup asked \cup sent : Arrived(p)

\* The part of the invariant that the queue disc is not in.
DeviceInv ==
  /\ QueueOK
  /\ MarksOK
  /\ NeverOverflows
  /\ DropsWhatWasAsked
  /\ MarksAreQueued

IInv ==
  /\ TypeOK
  /\ DeviceInv
  /\ DiscOK(disc, copies)
  /\ ~stopped => disc = <<>>

-------------------------------------------------------------------------------
\* Sequences of packets.

\* The queue is empty or holds one packet.
LEMMA ShortQueue ==
  ASSUME NEW q \in Seq(Packets), Len(q) <= QueueLimit
  PROVE  \/ q = <<>>
         \/ /\ q # <<>>
            /\ Head(q) \in Packets
            /\ Tail(q) = <<>>
            /\ ToSet(q) = {Head(q)}
<1>1. CASE Len(q) = 0
  BY <1>1, EmptySeq
<1>2. CASE Len(q) = 1
  <2>1. q # <<>>
    BY <1>2
  <2>2. Head(q) = q[1] /\ Head(q) \in Packets
    BY <1>2, <2>1
  <2>3. Tail(q) \in Seq(Packets) /\ Len(Tail(q)) = 0
    BY <1>2, <2>1, HeadTailProperties
  <2>4. Tail(q) = <<>>
    BY <2>3, EmptySeq
  <2>5. DOMAIN q = {1}
    BY <1>2, LenProperties
  <2>6. ToSet(q) = {q[1]}
    BY <2>5, Zenon DEF ToSet
  <2> QED  BY <2>1, <2>2, <2>4, <2>6
<1>3. Len(q) = 0 \/ Len(q) = 1
  <2>1. Len(q) \in Nat
    BY LenProperties
  <2> QED  BY <2>1 DEF QueueLimit
<1> QED  BY <1>1, <1>2, <1>3

\* The packets of an empty queue and of a queue of one.
LEMMA ToSetSmall ==
  /\ ToSet(<<>>) = {}
  /\ \A p \in Packets :
       /\ Append(<<>>, p) = <<p>>
       /\ Head(<<p>>) = p
       /\ Tail(<<p>>) = <<>>
       /\ ToSet(<<p>>) = {p}
       /\ <<p>> \in Seq(Packets)
       /\ Len(<<p>>) = 1
       /\ <<p>> # <<>>
<1>1. ToSet(<<>>) = {}
  BY DEF ToSet
<1>2. ASSUME NEW p \in Packets
      PROVE  /\ Append(<<>>, p) = <<p>>
             /\ Head(<<p>>) = p
             /\ Tail(<<p>>) = <<>>
             /\ <<p>> \in Seq(Packets)
             /\ Len(<<p>>) = 1
             /\ <<p>> # <<>>
             /\ ToSet(<<p>>) = {p}
  <2>1. <<p>> \in Seq(Packets) /\ Len(<<p>>) = 1 /\ <<p>>[1] = p
    OBVIOUS
  <2>2. Head(<<p>>) = p /\ <<p>> # <<>> /\ Append(<<>>, p) = <<p>>
    OBVIOUS
  <2>3. Tail(<<p>>) \in Seq(Packets) /\ Len(Tail(<<p>>)) = 0
    BY <2>1, <2>2, HeadTailProperties
  <2>4. Tail(<<p>>) = <<>>
    BY <2>3, EmptySeq
  <2>5. DOMAIN <<p>> = {1}
    BY <2>1, LenProperties
  <2>6. ToSet(<<p>>) = {<<p>>[1]}
    BY <2>5, Zenon DEF ToSet
  <2> QED  BY <2>1, <2>2, <2>4, <2>6
<1> QED  BY <1>1, <1>2

-------------------------------------------------------------------------------
\* The operations keep the invariant.

\* TransmitStart, where A is what Penny has asked for by the end of the event.
LEMMA TransmitStartSafe ==
  ASSUME TypeOK, NEW p \in Packets, NEW uids \in SUBSET Uids,
         NEW A \in SUBSET Packets, A \cap sent = {},
         p \in A => p.uid \in uids,
         ~lossEnabled => /\ dropped \subseteq A
                         /\ uids \subseteq {p.uid}
                         /\ p.uid \in uids => p \in A,
         TransmitStart(p, uids)
  PROVE  /\ currentPkt' = p
         /\ dropUids' \subseteq Uids
         /\ sent' \subseteq sent \cup {p}
         /\ sent' \subseteq Packets
         /\ dropped' \subseteq Packets
         /\ A \cap sent' = {}
         /\ ~lossEnabled => dropped' \subseteq A /\ dropUids' = {}
<1> USE DEF TransmitStart, TypeOK, Erase
<1>1. CASE lossEnabled /\ dropUids' = uids /\ UNCHANGED <<sent, dropped>>
  BY <1>1
<1>2. CASE /\ p.uid \in uids
           /\ dropUids' = Erase(uids, p)
           /\ dropped' = dropped \cup {p}
           /\ UNCHANGED sent
  BY <1>2
<1>3. CASE /\ p.uid \notin uids
           /\ dropUids' = uids
           /\ sent' = sent \cup {p}
           /\ UNCHANGED dropped
  BY <1>3
<1> QED  BY <1>1, <1>2, <1>3

\* Send, when the device queue is empty, as it is when it is not stopped.
LEMMA SendKeepsInv ==
  ASSUME TypeOK, DeviceInv, queue = <<>>, NEW p \in Packets,
         p \notin asked \cup sent, p.copy <= copies'[p.uid],
         \A q \in Packets : Arrived(q) => q.copy <= copies'[q.uid],
         lossEnabled' = lossEnabled,
         NEW scheduled \in Nat, Send(p, scheduled)
  PROVE  /\ queue' \in Seq(Packets) /\ Len(queue') <= QueueLimit
         /\ stopped' = TRUE
         /\ wakeUps' \in Nat
         /\ currentPkt' \in Packets \cup {NoPacket}
         /\ dropUids' \subseteq Uids
         /\ asked' \subseteq Packets
         /\ sent' \subseteq Packets
         /\ dropped' \subseteq Packets
         /\ discarded' = {}
         /\ ToSet(queue') \cup asked' \cup sent' \subseteq asked \cup sent \cup {p}
         /\ DeviceInv'
<1>1. PICK ask \in BOOLEAN :
        /\ asked' = IF ask THEN asked \cup {p} ELSE asked
        /\ ~WouldOverflow(queue)
             => /\ UNCHANGED discarded
                /\ stopped' = WouldOverflow(Append(queue, p))
                /\ \/ /\ currentPkt = NoPacket
                      /\ queue' = Tail(Append(queue, p))
                      /\ wakeUps' = Scheduled(scheduled)
                      /\ TransmitStart(Head(Append(queue, p)),
                                       Marked(dropUids, p, ask))
                   \/ /\ currentPkt # NoPacket
                      /\ queue' = Append(queue, p)
                      /\ wakeUps' = scheduled
                      /\ dropUids' = Marked(dropUids, p, ask)
                      /\ UNCHANGED <<currentPkt, sent, dropped>>
  BY DEF Send
<1> DEFINE uids == Marked(dropUids, p, ask)
<1>2. ~WouldOverflow(queue) /\ WouldOverflow(Append(queue, p))
  <2>1. Len(queue) = 0
    OBVIOUS
  <2>2. Len(Append(queue, p)) = 1
    BY ToSetSmall
  <2> QED  BY <2>1, <2>2 DEF WouldOverflow, QueueLimit
<1>3. discarded' = {} /\ stopped' = TRUE
  BY <1>1, <1>2 DEF DeviceInv, NeverOverflows
<1>4. /\ asked' \subseteq Packets
      /\ asked' \cap sent = {}
      /\ p \in asked' => p.uid \in uids
      /\ uids \subseteq Uids
      /\ asked' \subseteq asked \cup {p}
      /\ asked \subseteq asked'
  <2>1. asked \cap sent = {} /\ asked \subseteq Packets /\ dropUids \subseteq Uids
    BY DEF DeviceInv, DropsWhatWasAsked, TypeOK
  <2>2. p.uid \in Uids
    BY DEF Packets
  <2> QED  BY <1>1, <2>1, <2>2 DEF Marked
<1>5. ~lossEnabled => /\ dropped \subseteq asked'
                      /\ uids \subseteq {p.uid}
                      /\ p.uid \in uids => p \in asked'
  <2>1. ~lossEnabled => dropUids = {}
    BY ToSetSmall DEF DeviceInv, MarksAreQueued
  <2>2. ~lossEnabled => dropped \subseteq asked
    BY DEF DeviceInv, DropsWhatWasAsked
  <2> QED  BY <1>1, <1>4, <2>1, <2>2 DEF Marked
<1>6. \A q \in asked \cup sent \cup {p} : Arrived(q)'
  <2>1. \A q \in asked \cup sent : Arrived(q)
    BY DEF DeviceInv, MarksOK
  <2>2. \A q \in asked \cup sent : q \in Packets /\ q.copy <= copies'[q.uid]
    BY <2>1 DEF Arrived
  <2> QED  BY <2>2 DEF Arrived
<1>7. CASE /\ queue' = Tail(Append(queue, p))
           /\ wakeUps' = Scheduled(scheduled)
           /\ TransmitStart(Head(Append(queue, p)), uids)
  <2>1. queue' = <<>> /\ Head(Append(queue, p)) = p
    BY <1>7, ToSetSmall
  <2>2. /\ currentPkt' = p
        /\ dropUids' \subseteq Uids
        /\ sent' \subseteq sent \cup {p}
        /\ sent' \subseteq Packets
        /\ dropped' \subseteq Packets
        /\ asked' \cap sent' = {}
        /\ ~lossEnabled => dropped' \subseteq asked' /\ dropUids' = {}
    <3> HIDE DEF uids
    <3>1. TransmitStart(p, uids)
      BY <1>7, <2>1
    <3> QED  BY <1>4, <1>5, <3>1, TransmitStartSafe
  <2>3. ToSet(queue') = {}
    BY <2>1, ToSetSmall
  <2>4. QueueOK'
    BY <1>3, <1>7, <2>1 DEF QueueOK, Scheduled
  <2>5. MarksOK'
    <3>1. ToSet(queue') \cup asked' \cup sent' \subseteq asked \cup sent \cup {p}
      BY <1>4, <2>2, <2>3
    <3>2. \A q \in ToSet(queue') \cup asked' \cup sent' : Arrived(q)'
      BY <1>6, <3>1
    <3> QED  BY <2>3, <3>2 DEF MarksOK
  <2>6. DropsWhatWasAsked' /\ MarksAreQueued'
    BY <2>2 DEF DropsWhatWasAsked, MarksAreQueued
  <2>7. queue' \in Seq(Packets) /\ Len(queue') <= QueueLimit
    BY <2>1 DEF QueueLimit
  <2>8. wakeUps' \in Nat
    BY <1>7 DEF Scheduled
  <2> QED  BY <1>3, <1>4, <2>2, <2>3, <2>4, <2>5, <2>6, <2>7, <2>8
             DEF DeviceInv, NeverOverflows
<1>8. CASE /\ currentPkt # NoPacket
           /\ queue' = Append(queue, p)
           /\ wakeUps' = scheduled
           /\ dropUids' = uids
           /\ UNCHANGED <<currentPkt, sent, dropped>>
  <2>1. queue' = <<p>>
    BY <1>8, ToSetSmall
  <2>2. /\ ToSet(queue') = {p}
        /\ queue' \in Seq(Packets)
        /\ Len(queue') <= QueueLimit
        /\ queue' # <<>>
    BY <2>1, ToSetSmall DEF QueueLimit
  <2>3. QueueOK'
    BY <1>3, <1>8, <2>2 DEF QueueOK
  <2>4. ToSet(queue') \cup asked' \cup sent' \subseteq asked \cup sent \cup {p}
    BY <1>4, <1>8, <2>2
  <2>5. MarksOK'
    <3>1. \A q \in ToSet(queue') \cup asked' \cup sent' : Arrived(q)'
      BY <1>6, <2>4
    <3>2. ToSet(queue') \cap sent' = {}
      BY <1>8, <2>2
    <3>3. \A q \in ToSet(queue') \cap asked' : q.uid \in dropUids'
      BY <1>4, <1>8, <2>2
    <3> QED  BY <3>1, <3>2, <3>3 DEF MarksOK
  <2>6. DropsWhatWasAsked'
    BY <1>4, <1>5, <1>8 DEF DropsWhatWasAsked
  <2>7. MarksAreQueued'
    BY <1>5, <1>8, <2>2 DEF MarksAreQueued
  <2> QED  BY <1>3, <1>4, <1>8, <2>2, <2>3, <2>4, <2>5, <2>6, <2>7
             DEF DeviceInv, NeverOverflows, TypeOK
<1> QED  BY <1>1, <1>2, <1>7, <1>8

\* The first packet of the queue disc is sent on; the others stay, each once.
LEMMA TailOfDisc ==
  ASSUME NEW packets \in Seq(Packets), packets # <<>>,
         NEW cps, DiscOK(packets, cps)
  PROVE  LET rest == Tail(packets) IN
         /\ rest \in Seq(Packets)
         /\ Len(rest) <= DiscLimit
         /\ Head(packets) \in Packets
         /\ Head(packets).copy <= cps[Head(packets).uid]
         /\ Head(packets) \notin ToSet(queue) \cup asked \cup sent
         /\ \A i \in 1..Len(rest) :
              /\ rest[i] # Head(packets)
              /\ rest[i].copy <= cps[rest[i].uid]
              /\ rest[i] \notin ToSet(queue) \cup asked \cup sent
         /\ \A i, j \in 1..Len(rest) : rest[i] = rest[j] => i = j
<1> DEFINE rest == Tail(packets)
<1>1. /\ rest \in Seq(Packets)
      /\ Len(rest) = Len(packets) - 1
      /\ Head(packets) = packets[1]
      /\ Head(packets) \in Packets
      /\ \A i \in 1..Len(rest) : rest[i] = packets[i + 1]
  BY HeadTailProperties
<1>2. Len(packets) \in Nat /\ Len(packets) > 0
  BY LenProperties, EmptySeq
<1>3. Len(rest) <= DiscLimit
  BY <1>1, <1>2, DeviceAssumption DEF DiscOK
<1>4. 1 \in 1..Len(packets)
  BY <1>2
<1>5. /\ Head(packets).copy <= cps[Head(packets).uid]
      /\ Head(packets) \notin ToSet(queue) \cup asked \cup sent
  BY <1>1, <1>4 DEF DiscOK
<1>6. ASSUME NEW i \in 1..Len(rest)
      PROVE  /\ i + 1 \in 1..Len(packets)
             /\ rest[i] = packets[i + 1]
             /\ rest[i] # Head(packets)
             /\ rest[i].copy <= cps[rest[i].uid]
             /\ rest[i] \notin ToSet(queue) \cup asked \cup sent
  <2>1. i + 1 \in 1..Len(packets) /\ i + 1 # 1
    BY <1>1, <1>2
  <2>2. rest[i] = packets[i + 1]
    BY <1>1
  <2> QED  BY <1>1, <1>4, <2>1, <2>2 DEF DiscOK
<1>7. ASSUME NEW i \in 1..Len(rest), NEW j \in 1..Len(rest), rest[i] = rest[j]
      PROVE  i = j
  <2>1. i + 1 = j + 1
    BY <1>6, <1>7 DEF DiscOK
  <2> QED  BY <2>1
<1> QED  BY <1>1, <1>3, <1>5, <1>6, <1>7

\* QueueDisc::Run, with what the queue disc and the flags are by then.
LEMMA RunKeepsInv ==
  ASSUME TypeOK, DeviceInv,
         NEW packets, DiscOK(packets, copies'),
         NEW isStopped \in BOOLEAN, NEW scheduled \in Nat,
         ~isStopped => queue = <<>>,
         isStopped => queue # <<>> \/ scheduled > 0,
         \A q \in Packets : Arrived(q) => q.copy <= copies'[q.uid],
         copies' \in [Uids -> 0..MaxCopies],
         lossEnabled' = lossEnabled,
         Run(packets, isStopped, scheduled)
  PROVE  IInv'
<1>1. packets \in Seq(Packets)
  BY DEF DiscOK
<1>2. CASE /\ MaySend(packets, isStopped)
           /\ disc' = Tail(packets)
           /\ Send(Head(packets), scheduled)
  <2> DEFINE p == Head(packets)
             rest == Tail(packets)
  <2>1. packets # <<>> /\ queue = <<>>
    BY <1>2 DEF MaySend
  <2>2. /\ rest \in Seq(Packets)
        /\ Len(rest) <= DiscLimit
        /\ p \in Packets
        /\ p.copy <= copies'[p.uid]
        /\ p \notin ToSet(queue) \cup asked \cup sent
        /\ \A i \in 1..Len(rest) :
              /\ rest[i] # p
              /\ rest[i].copy <= copies'[rest[i].uid]
              /\ rest[i] \notin ToSet(queue) \cup asked \cup sent
        /\ \A i, j \in 1..Len(rest) : rest[i] = rest[j] => i = j
    BY <1>1, <2>1, TailOfDisc
  <2>3. /\ queue' \in Seq(Packets) /\ Len(queue') <= QueueLimit
        /\ stopped' = TRUE
        /\ wakeUps' \in Nat
        /\ currentPkt' \in Packets \cup {NoPacket}
        /\ dropUids' \subseteq Uids
        /\ asked' \subseteq Packets
        /\ sent' \subseteq Packets
        /\ dropped' \subseteq Packets
        /\ discarded' = {}
        /\ ToSet(queue') \cup asked' \cup sent' \subseteq asked \cup sent \cup {p}
        /\ DeviceInv'
    <3> HIDE DEF p
    <3>1. Send(p, scheduled)
      BY <1>2 DEF p
    <3> QED  BY <2>1, <2>2, <3>1, SendKeepsInv
  <2>4. DiscOK(rest, copies)'
    <3> HIDE DEF rest
    <3>1. \A i \in 1..Len(rest) :
            rest[i] \notin ToSet(queue') \cup asked' \cup sent'
      BY <2>2, <2>3
    <3> QED  BY <2>2, <3>1 DEF DiscOK
  <2>5. TypeOK'
    BY <1>2, <2>2, <2>3 DEF TypeOK
  <2> QED  BY <1>2, <2>3, <2>4, <2>5 DEF IInv
<1>3. CASE /\ ~MaySend(packets, isStopped)
           /\ disc' = packets
           /\ stopped' = isStopped
           /\ wakeUps' = scheduled
           /\ UNCHANGED <<queue, currentPkt, dropUids, asked, sent, dropped,
                          discarded>>
  <2>1. DiscOK(disc, copies)'
    BY <1>3 DEF DiscOK
  <2>2. TypeOK'
    BY <1>3 DEF TypeOK, DiscOK
  <2>3. QueueOK'
    BY <1>3 DEF QueueOK, DeviceInv
  <2>4. \A q \in ToSet(queue) \cup asked \cup sent :
          q \in Packets /\ q.copy <= copies'[q.uid]
    <3>1. \A q \in ToSet(queue) \cup asked \cup sent : Arrived(q)
      BY DEF DeviceInv, MarksOK
    <3> QED  BY <3>1 DEF Arrived
  <2>5. MarksOK'
    BY <1>3, <2>4 DEF MarksOK, DeviceInv, Arrived
  <2>6. NeverOverflows' /\ DropsWhatWasAsked' /\ MarksAreQueued'
    BY <1>3 DEF DeviceInv, NeverOverflows, DropsWhatWasAsked, MarksAreQueued
  <2>7. (~stopped => disc = <<>>)'
    BY <1>3 DEF MaySend
  <2> QED  BY <2>1, <2>2, <2>3, <2>5, <2>6, <2>7 DEF IInv, DeviceInv
<1> QED  BY <1>2, <1>3 DEF Run

\* A packet that arrives is a new one.
LEMMA AcceptedIsNew ==
  ASSUME IInv, NEW u \in Uids, Arrive(u)
  PROVE  LET packets == Accepted(disc, [uid |-> u, copy |-> copies[u] + 1]) IN
         /\ DiscOK(packets, copies')
         /\ \A q \in Packets : Arrived(q) => q.copy <= copies'[q.uid]
         /\ copies' \in [Uids -> 0..MaxCopies]
         /\ copies' = [copies EXCEPT ![u] = @ + 1]
         /\ lossEnabled' = lossEnabled
         /\ Run(packets, stopped, wakeUps)
<1> DEFINE p == [uid |-> u, copy |-> copies[u] + 1]
           packets == Accepted(disc, p)
<1> USE DEF IInv
<1>1. /\ copies \in [Uids -> 0..MaxCopies]
      /\ copies[u] < MaxCopies
      /\ copies' = [copies EXCEPT ![u] = @ + 1]
      /\ lossEnabled' = lossEnabled
      /\ Run(packets, stopped, wakeUps)
  BY DEF Arrive, TypeOK
<1>2. /\ copies' \in [Uids -> 0..MaxCopies]
      /\ copies'[u] = copies[u] + 1
      /\ \A w \in Uids : copies[w] \in Nat /\ copies'[w] \in Nat /\ copies[w] <= copies'[w]
  BY <1>1, DeviceAssumption
<1>3. /\ p \in Packets /\ p.uid = u /\ p.copy = copies[u] + 1
      /\ \A q \in Packets : q.uid \in Uids /\ q.copy \in Nat
  BY <1>1, DeviceAssumption DEF Packets
<1> HIDE DEF p
<1>4. \A q \in Packets : Arrived(q) => q.copy <= copies'[q.uid] /\ q # p
  BY <1>2, <1>3 DEF Arrived
<1>5. p \notin ToSet(queue) \cup asked \cup sent
  BY <1>3, <1>4 DEF DeviceInv, MarksOK
<1>6. \A i \in 1..Len(disc) :
        /\ disc[i] \in Packets
        /\ disc[i] # p
        /\ disc[i].copy <= copies'[disc[i].uid]
        /\ disc[i] \notin ToSet(queue) \cup asked \cup sent
  <2> SUFFICES ASSUME NEW i \in 1..Len(disc)
               PROVE  /\ disc[i] \in Packets
                      /\ disc[i] # p
                      /\ disc[i].copy <= copies'[disc[i].uid]
                      /\ disc[i] \notin ToSet(queue) \cup asked \cup sent
    OBVIOUS
  <2>1. disc[i] \in Packets
    BY ElementOfSeq DEF TypeOK
  <2>2. Arrived(disc[i]) /\ disc[i] \notin ToSet(queue) \cup asked \cup sent
    BY <2>1 DEF DiscOK, Arrived
  <2> QED  BY <1>4, <2>1, <2>2
<1>7. DiscOK(packets, copies')
  <2>1. CASE ~(Len(disc) < DiscLimit)
    <3>1. packets = disc
      BY <2>1 DEF Accepted
    <3> QED  BY <1>6, <3>1 DEF DiscOK
  <2>2. CASE Len(disc) < DiscLimit
    <3>1. packets = Append(disc, p) /\ disc \in Seq(Packets)
      BY <2>2 DEF Accepted, TypeOK
    <3>2. /\ packets \in Seq(Packets)
          /\ Len(packets) = Len(disc) + 1
          /\ \A i \in 1..Len(disc) : packets[i] = disc[i]
          /\ packets[Len(disc) + 1] = p
      BY <1>3, <3>1, AppendProperties
    <3> HIDE DEF packets
    <3>3. Len(disc) \in Nat
      BY <3>1, LenProperties
    <3>4. ASSUME NEW i \in 1..Len(packets)
          PROVE  /\ packets[i].copy <= copies'[packets[i].uid]
                 /\ packets[i] \notin ToSet(queue) \cup asked \cup sent
                 /\ packets[i] = p => i = Len(disc) + 1
      <4>1. CASE i = Len(disc) + 1
        BY <1>2, <1>3, <1>5, <3>2, <4>1
      <4>2. CASE i \in 1..Len(disc)
        BY <1>6, <3>2, <4>2
      <4> QED  BY <3>2, <3>3, <4>1, <4>2
    <3>5. ASSUME NEW i \in 1..Len(packets), NEW j \in 1..Len(packets),
                 packets[i] = packets[j]
          PROVE  i = j
      <4>1. CASE packets[i] = p
        BY <3>4, <3>5, <4>1
      <4>2. CASE packets[i] # p
        <5>1. i \in 1..Len(disc) /\ j \in 1..Len(disc)
          BY <3>2, <3>3, <3>5, <4>2
        <5> QED  BY <3>2, <3>5, <5>1 DEF DiscOK
      <4> QED  BY <4>1, <4>2
    <3>6. Len(packets) <= DiscLimit
      BY <2>2, <3>2, <3>3, DeviceAssumption
    <3> QED  BY <3>2, <3>4, <3>5, <3>6 DEF DiscOK
  <2> QED  BY <2>1, <2>2
<1> HIDE DEF packets
<1> QED  BY <1>1, <1>2, <1>4, <1>7 DEF packets, p

\* Whether or not it is sent on at once, the invariant is kept.
LEMMA ArriveKeepsInv ==
  ASSUME IInv, NEW u \in Uids, Arrive(u)
  PROVE  IInv'
<1> DEFINE packets == Accepted(disc, [uid |-> u, copy |-> copies[u] + 1])
<1>1. /\ DiscOK(packets, copies')
      /\ \A q \in Packets : Arrived(q) => q.copy <= copies'[q.uid]
      /\ copies' \in [Uids -> 0..MaxCopies]
      /\ lossEnabled' = lossEnabled
      /\ Run(packets, stopped, wakeUps)
  BY AcceptedIsNew
<1> HIDE DEF packets
<1>2. /\ stopped \in BOOLEAN /\ wakeUps \in Nat
      /\ ~stopped => queue = <<>>
      /\ stopped => queue # <<>> \/ wakeUps > 0
  BY DEF IInv, TypeOK, DeviceInv, QueueOK
<1>3. TypeOK /\ DeviceInv
  BY DEF IInv
<1> QED  BY <1>1, <1>2, <1>3, RunKeepsInv

\* The scheduled event finds room in the device queue, or it does nothing.
LEMMA WakeUpKeepsInv ==
  ASSUME IInv, WakeUp
  PROVE  IInv'
<1>1. /\ wakeUps \in Nat /\ wakeUps - 1 \in Nat
      /\ lossEnabled' = lossEnabled /\ copies' = copies
  BY DEF WakeUp, IInv, TypeOK
<1>2. CASE /\ stopped /\ ~WouldOverflow(queue)
           /\ Run(disc, FALSE, wakeUps - 1)
  <2>1. queue = <<>>
    <3>1. queue \in Seq(Packets) /\ Len(queue) \in Nat
      BY LenProperties DEF IInv, TypeOK
    <3>2. Len(queue) = 0
      BY <1>2, <3>1 DEF WouldOverflow, QueueLimit
    <3> QED  BY <3>1, <3>2, EmptySeq
  <2>2. DiscOK(disc, copies')
    BY <1>1 DEF IInv
  <2>3. \A q \in Packets : Arrived(q) => q.copy <= copies'[q.uid]
    BY <1>1 DEF Arrived
  <2>4. TypeOK /\ DeviceInv /\ copies' \in [Uids -> 0..MaxCopies]
    BY <1>1 DEF IInv, TypeOK
  <2> QED  BY <1>1, <1>2, <2>1, <2>2, <2>3, <2>4, RunKeepsInv
<1>3. CASE /\ ~(stopped /\ ~WouldOverflow(queue))
           /\ wakeUps' = wakeUps - 1
           /\ UNCHANGED <<disc, queue, stopped, currentPkt, dropUids, asked,
                          sent, dropped, discarded>>
  <2>1. stopped => queue # <<>>
    <3>1. Len(<<>>) = 0
      OBVIOUS
    <3> QED  BY <1>3, <3>1 DEF WouldOverflow, QueueLimit
  <2>2. QueueOK'
    BY <1>3, <2>1 DEF IInv, DeviceInv, QueueOK
  <2>3. MarksOK'
    BY <1>1, <1>3 DEF IInv, DeviceInv, MarksOK, Arrived
  <2>4. NeverOverflows' /\ DropsWhatWasAsked' /\ MarksAreQueued'
    BY <1>1, <1>3
    DEF IInv, DeviceInv, NeverOverflows, DropsWhatWasAsked, MarksAreQueued
  <2>5. TypeOK'
    BY <1>1, <1>3 DEF IInv, TypeOK
  <2>6. DiscOK(disc, copies)'
    BY <1>1, <1>3 DEF IInv, DiscOK
  <2> QED  BY <1>3, <2>2, <2>3, <2>4, <2>5, <2>6 DEF IInv, DeviceInv
<1> QED  BY <1>2, <1>3 DEF WakeUp

\* The next packet of the device queue is transmitted, if there is one.
LEMMA TransmitCompleteKeepsInv ==
  ASSUME IInv, TransmitComplete
  PROVE  IInv'
<1>1. /\ wakeUps = 0
      /\ UNCHANGED <<disc, stopped, lossEnabled, copies, asked, discarded>>
  BY DEF TransmitComplete
<1>2. TypeOK /\ DeviceInv /\ DiscOK(disc, copies) /\ (~stopped => disc = <<>>)
  BY DEF IInv
<1>3. CASE /\ queue = <<>>
           /\ currentPkt' = NoPacket
           /\ UNCHANGED <<queue, wakeUps, dropUids, sent, dropped>>
  <2>1. QueueOK'
    BY <1>1, <1>2, <1>3 DEF DeviceInv, QueueOK
  <2>2. MarksOK'
    BY <1>1, <1>2, <1>3 DEF DeviceInv, MarksOK, Arrived
  <2>3. NeverOverflows' /\ DropsWhatWasAsked' /\ MarksAreQueued'
    BY <1>1, <1>2, <1>3
    DEF DeviceInv, NeverOverflows, DropsWhatWasAsked, MarksAreQueued
  <2>4. TypeOK'
    BY <1>1, <1>2, <1>3 DEF TypeOK
  <2>5. DiscOK(disc, copies)'
    BY <1>1, <1>2, <1>3 DEF DiscOK
  <2> QED  BY <1>1, <1>2, <2>1, <2>2, <2>3, <2>4, <2>5 DEF IInv, DeviceInv
<1>4. CASE /\ queue # <<>>
           /\ queue' = Tail(queue)
           /\ wakeUps' = Scheduled(wakeUps)
           /\ TransmitStart(Head(queue), dropUids)
  <2> DEFINE p == Head(queue)
  <2>1. /\ p \in Packets
        /\ queue' = <<>>
        /\ ToSet(queue) = {p}
    BY <1>2, <1>4, ShortQueue DEF TypeOK
  <2>2. ToSet(queue') = {}
    BY <2>1, ToSetSmall
  <2> HIDE DEF p
  <2>3. /\ asked \subseteq Packets /\ dropUids \subseteq Uids
        /\ asked \cap sent = {}
        /\ p \in asked => p.uid \in dropUids
    BY <1>2, <2>1 DEF TypeOK, DeviceInv, MarksOK, DropsWhatWasAsked
  <2>4. ~lossEnabled => /\ dropped \subseteq asked
                        /\ dropUids \subseteq {p.uid}
                        /\ p.uid \in dropUids => p \in asked
    BY <1>2, <2>1 DEF DeviceInv, DropsWhatWasAsked, MarksAreQueued
  <2>5. /\ currentPkt' = p
        /\ dropUids' \subseteq Uids
        /\ sent' \subseteq sent \cup {p}
        /\ sent' \subseteq Packets
        /\ dropped' \subseteq Packets
        /\ asked \cap sent' = {}
        /\ ~lossEnabled => dropped' \subseteq asked /\ dropUids' = {}
    <3>1. TransmitStart(p, dropUids)
      BY <1>4 DEF p
    <3> QED  BY <1>2, <2>1, <2>3, <2>4, <3>1, TransmitStartSafe
  <2>6. wakeUps' = 1
    BY <1>1, <1>4 DEF Scheduled
  <2>7. QueueOK'
    <3>1. stopped
      BY <1>2, <1>4 DEF DeviceInv, QueueOK
    <3> QED  BY <1>1, <2>1, <2>6, <3>1 DEF QueueOK
  <2>8. ToSet(queue') \cup asked' \cup sent' \subseteq ToSet(queue) \cup asked \cup sent
    BY <1>1, <2>1, <2>2, <2>5
  <2>9. MarksOK'
    BY <1>1, <1>2, <2>2, <2>8 DEF DeviceInv, MarksOK, Arrived
  <2>10. NeverOverflows' /\ DropsWhatWasAsked' /\ MarksAreQueued'
    BY <1>1, <1>2, <2>5
    DEF DeviceInv, NeverOverflows, DropsWhatWasAsked, MarksAreQueued
  <2>11. TypeOK'
    BY <1>1, <1>2, <2>1, <2>5, <2>6 DEF TypeOK, QueueLimit
  <2>12. DiscOK(disc, copies)'
    <3>1. \A i \in 1..Len(disc) :
            disc[i] \notin ToSet(queue') \cup asked' \cup sent'
      BY <1>2, <2>8 DEF DiscOK
    <3> QED  BY <1>1, <1>2, <3>1 DEF DiscOK
  <2> QED  BY <1>1, <1>2, <2>7, <2>9, <2>10, <2>11, <2>12 DEF IInv, DeviceInv
<1> QED  BY <1>3, <1>4 DEF TransmitComplete

\* At the start nothing waits.
LEMMA InitInv == Init => IInv
<1> SUFFICES ASSUME Init PROVE IInv
  OBVIOUS
<1> USE DEF Init
<1>1. TypeOK
  <2>1. <<>> \in Seq(Packets) /\ Len(<<>>) = 0
    BY EmptySeq
  <2>2. copies \in [Uids -> 0..MaxCopies]
    BY DeviceAssumption
  <2>3. Len(disc) <= DiscLimit /\ Len(queue) <= QueueLimit
    BY <2>1, DeviceAssumption DEF QueueLimit
  <2> QED  BY <2>1, <2>2, <2>3 DEF TypeOK
<1>2. DiscOK(disc, copies)
  BY DeviceAssumption DEF DiscOK
<1>3. DeviceInv
  BY ToSetSmall DEF DeviceInv, QueueOK, MarksOK, NeverOverflows,
                    DropsWhatWasAsked, MarksAreQueued
<1> QED  BY <1>1, <1>2, <1>3 DEF IInv

\* Every event keeps the invariant.
LEMMA NextInv == IInv /\ [Next]_vars => IInv'
<1> SUFFICES ASSUME IInv, [Next]_vars PROVE IInv'
  OBVIOUS
<1>1. ASSUME NEW u \in Uids, Arrive(u) PROVE IInv'
  BY <1>1, ArriveKeepsInv
<1>2. CASE WakeUp
  BY <1>2, WakeUpKeepsInv
<1>3. CASE TransmitComplete
  BY <1>3, TransmitCompleteKeepsInv
<1>4. CASE UNCHANGED vars
  BY <1>4 DEF vars, devVars, IInv, TypeOK, DeviceInv, DiscOK, QueueOK, MarksOK,
              Arrived, NeverOverflows, DropsWhatWasAsked, MarksAreQueued
<1> QED  BY <1>1, <1>2, <1>3, <1>4 DEF Next

-------------------------------------------------------------------------------
\* The inductive invariant holds in every reachable state.
THEOREM Invariance == Spec => []IInv
BY InitInv, NextInv, PTL DEF Spec

\* The device keeps its types, and its queues keep to their sizes.
THEOREM TypeCorrect == Spec => []TypeOK
<1>1. IInv => TypeOK
  BY DEF IInv
<1> QED  BY <1>1, Invariance, PTL

\* Flow control works with a device queue of a single packet: Send never
\* finds it full.
THEOREM QueueNeverFull == Spec => []NeverOverflows
<1>1. IInv => NeverOverflows
  BY DEF IInv, DeviceInv
<1> QED  BY <1>1, Invariance, PTL

\* No packet waits for an event that is not coming.
THEOREM NoWakeUpLost == Spec => []NoLostWakeUp
<1>1. ASSUME IInv PROVE NoLostWakeUp
  <2>1. CASE queue = <<>>
    BY <1>1, <2>1 DEF IInv, DeviceInv, QueueOK, NoLostWakeUp
  <2>2. CASE queue # <<>>
    <3>1. Len(queue) > 0
      BY <1>1, <2>2, LenProperties, EmptySeq DEF IInv, TypeOK
    <3>2. WouldOverflow(queue)
      BY <1>1, <3>1, LenProperties DEF WouldOverflow, QueueLimit, IInv, TypeOK
    <3> QED  BY <1>1, <2>2, <3>2 DEF IInv, DeviceInv, QueueOK, NoLostWakeUp
  <2> QED  BY <2>1, <2>2
<1> QED  BY <1>1, Invariance, PTL

\* What Penny asks for is dropped, and, without random loss, nothing else.
THEOREM DropsAsAsked == Spec => []DropsWhatWasAsked
<1>1. IInv => DropsWhatWasAsked
  BY DEF IInv, DeviceInv
<1> QED  BY <1>1, Invariance, PTL

\* Without random loss no mark is left behind.
THEOREM NoMarkLeft == Spec => []MarksAreQueued
<1>1. IInv => MarksAreQueued
  BY DEF IInv, DeviceInv
<1> QED  BY <1>1, Invariance, PTL

-------------------------------------------------------------------------------
\* What a step hands over.  This is about a device that loses nothing at
\* random, as that of Penny in sim.cc.

\* The packets that the queue disc has handed to the device, ever and now.
HandedOver == ToSet(queue) \cup sent \cup dropped
InDevice   == ((ToSet(queue) \cup {currentPkt}) \ {NoPacket}) \cup discarded

HandOverInv ==
  /\ lossEnabled = FALSE
  /\ asked \subseteq HandedOver
  /\ currentPkt \in HandedOver \cup {NoPacket}

\* One new packet, which is what MacTx tells Penny of, or none.
HandsOver(p) ==
  /\ p \in Packets \ HandedOver
  /\ HandedOver' = HandedOver \cup {p}
  /\ InDevice' \ InDevice = {p}
  /\ asked' = asked \/ asked' = asked \cup {p}

HandsOverNone ==
  /\ HandedOver' = HandedOver
  /\ InDevice' \subseteq InDevice
  /\ asked' = asked

\* At most one packet is put on the link.
Transmits == sent' = sent \/ \E q \in Packets : sent' = sent \cup {q}

StepOfDevice ==
  /\ HandOverInv'
  /\ HandsOverNone \/ \E p \in Packets : HandsOver(p)
  /\ Transmits

\* Without random loss a packet is dropped or put on the link.
LEMMA TransmitStartHandsOver ==
  ASSUME NEW p, NEW uids, ~lossEnabled, TransmitStart(p, uids)
  PROVE  /\ currentPkt' = p
         /\ sent' \cup dropped' = sent \cup dropped \cup {p}
         /\ sent' = sent \/ sent' = sent \cup {p}
  BY DEF TransmitStart

\* Send hands its packet to the device.
LEMMA SendHandsOver ==
  ASSUME IInv, HandOverInv, queue = <<>>, NEW p \in Packets \ HandedOver,
         lossEnabled' = lossEnabled, NEW scheduled, Send(p, scheduled)
  PROVE  StepOfDevice /\ HandsOver(p)
<1>1. discarded = {} /\ discarded \subseteq Packets /\ asked \subseteq Packets
      /\ sent \subseteq Packets /\ dropped \subseteq Packets
      /\ NoPacket \notin Packets
  BY DeviceAssumption DEF IInv, DeviceInv, NeverOverflows, TypeOK
<1>2. ~WouldOverflow(queue)
  BY DEF WouldOverflow, QueueLimit
<1>3. /\ Append(queue, p) = <<p>> /\ Tail(<<p>>) = <<>> /\ Head(<<p>>) = p
      /\ ToSet(<<p>>) = {p} /\ ToSet(queue) = {}
  BY ToSetSmall
<1>4. /\ discarded' = discarded
      /\ asked' = asked \/ asked' = asked \cup {p}
      /\ \/ /\ currentPkt = NoPacket
            /\ queue' = <<>>
            /\ \E uids : TransmitStart(p, uids)
         \/ /\ currentPkt # NoPacket
            /\ queue' = <<p>>
            /\ UNCHANGED <<currentPkt, sent, dropped>>
  BY <1>2, <1>3 DEF Send
<1>5. HandedOver' = HandedOver \cup {p} /\ Transmits
      /\ InDevice' \ InDevice = {p}
      /\ currentPkt' \in HandedOver' \cup {NoPacket}
  <2>1. CASE /\ currentPkt = NoPacket
             /\ queue' = <<>>
             /\ \E uids : TransmitStart(p, uids)
    <3>1. /\ currentPkt' = p
          /\ sent' \cup dropped' = sent \cup dropped \cup {p}
          /\ sent' = sent \/ sent' = sent \cup {p}
      BY <2>1, TransmitStartHandsOver DEF HandOverInv
    <3>2. HandedOver' = HandedOver \cup {p}
      BY <1>3, <2>1, <3>1 DEF HandedOver
    <3>3. InDevice = {} /\ InDevice' = {p}
      BY <1>1, <1>3, <1>4, <2>1, <3>1 DEF InDevice
    <3> QED  BY <3>1, <3>2, <3>3 DEF Transmits
  <2>2. CASE /\ currentPkt # NoPacket
             /\ queue' = <<p>>
             /\ UNCHANGED <<currentPkt, sent, dropped>>
    <3>1. HandedOver' = HandedOver \cup {p}
      BY <1>3, <2>2 DEF HandedOver
    <3>2. p # currentPkt /\ currentPkt \in HandedOver
      BY <1>1, <2>2 DEF HandOverInv
    <3>3. InDevice = {currentPkt} /\ InDevice' = {p, currentPkt}
      BY <1>1, <1>3, <1>4, <2>2, <3>2 DEF InDevice
    <3> QED  BY <2>2, <3>1, <3>2, <3>3 DEF Transmits
  <2> QED  BY <1>4, <2>1, <2>2
<1>6. HandOverInv'
  BY <1>4, <1>5 DEF HandOverInv
<1>7. HandsOver(p)
  BY <1>4, <1>5 DEF HandsOver
<1> QED  BY <1>5, <1>6, <1>7 DEF StepOfDevice

\* QueueDisc::Run hands over the first packet of the queue disc, or none.
Moves(packets) ==
  \/ HandsOverNone /\ disc' = packets
  \/ packets # <<>> /\ HandsOver(Head(packets)) /\ disc' = Tail(packets)

LEMMA RunHandsOver ==
  ASSUME IInv, HandOverInv, NEW packets, NEW cps, DiscOK(packets, cps),
         NEW isStopped \in BOOLEAN, NEW scheduled,
         ~isStopped => queue = <<>>,
         lossEnabled' = lossEnabled, Run(packets, isStopped, scheduled)
  PROVE  StepOfDevice /\ Moves(packets)
<1>1. CASE /\ MaySend(packets, isStopped) /\ Send(Head(packets), scheduled)
           /\ disc' = Tail(packets)
  <2>1. packets # <<>> /\ queue = <<>> /\ packets \in Seq(Packets)
    BY <1>1 DEF MaySend, DiscOK
  <2>2. /\ Head(packets) \in Packets
        /\ Head(packets) \notin ToSet(queue) \cup asked \cup sent
    BY <2>1, TailOfDisc
  <2>3. dropped \subseteq asked
    BY DEF IInv, DeviceInv, DropsWhatWasAsked, HandOverInv
  <2>4. Head(packets) \in Packets \ HandedOver
    BY <2>2, <2>3 DEF HandedOver
  <2> QED  BY <1>1, <2>1, <2>4, SendHandsOver DEF Moves
<1>2. CASE /\ UNCHANGED <<queue, currentPkt, asked, sent, dropped, discarded>>
           /\ disc' = packets
  BY <1>2 DEF StepOfDevice, HandOverInv, HandsOverNone, HandedOver, InDevice,
              Transmits, Moves
<1> QED  BY <1>1, <1>2 DEF Run

\* The end of a transmission hands over none.
LEMMA TransmitCompleteHandsOver ==
  ASSUME IInv, HandOverInv, TransmitComplete
  PROVE  StepOfDevice /\ HandsOverNone
<1>1. lossEnabled' = lossEnabled /\ asked' = asked /\ discarded' = discarded
  BY DEF TransmitComplete
<1>2. CASE queue = <<>> /\ currentPkt' = NoPacket /\ UNCHANGED <<queue, sent, dropped>>
  BY <1>1, <1>2 DEF StepOfDevice, HandOverInv, HandsOverNone, HandedOver,
                    InDevice, Transmits
<1>3. CASE queue # <<>> /\ queue' = Tail(queue) /\ TransmitStart(Head(queue), dropUids)
  <2> DEFINE p == Head(queue)
  <2>1. p \in Packets /\ queue' = <<>> /\ ToSet(queue) = {p} /\ ToSet(queue') = {}
    BY <1>3, ShortQueue, ToSetSmall DEF IInv, TypeOK
  <2> HIDE DEF p
  <2>2. /\ currentPkt' = p
        /\ sent' \cup dropped' = sent \cup dropped \cup {p}
        /\ sent' = sent \/ sent' = sent \cup {p}
    BY <1>3, TransmitStartHandsOver DEF HandOverInv, p
  <2>3. HandedOver' = HandedOver
    BY <2>1, <2>2 DEF HandedOver
  <2>4. p \in HandedOver
    BY <2>1 DEF HandedOver
  <2>5. InDevice' \subseteq InDevice
    BY <1>1, <2>1, <2>2, DeviceAssumption DEF InDevice
  <2> QED  BY <1>1, <2>1, <2>2, <2>3, <2>4, <2>5
           DEF StepOfDevice, HandOverInv, HandsOverNone, Transmits
<1> QED  BY <1>2, <1>3 DEF TransmitComplete

\* Each step of a device that loses nothing at random hands over at most one
\* packet, a new one, and transmits at most one.
LEMMA StepHandsOver ==
  IInv /\ HandOverInv /\ Next => StepOfDevice
<1> SUFFICES ASSUME IInv, HandOverInv, Next PROVE StepOfDevice
  OBVIOUS
<1>1. ASSUME NEW u \in Uids, Arrive(u) PROVE StepOfDevice
  <2> DEFINE packets == Accepted(disc, [uid |-> u, copy |-> copies[u] + 1])
  <2>1. DiscOK(packets, copies') /\ Run(packets, stopped, wakeUps)
        /\ lossEnabled' = lossEnabled
    BY <1>1, AcceptedIsNew
  <2>2. stopped \in BOOLEAN /\ (~stopped => queue = <<>>)
    BY DEF IInv, TypeOK, DeviceInv, QueueOK
  <2> HIDE DEF packets
  <2> QED  BY <2>1, <2>2, RunHandsOver
<1>2. CASE WakeUp
  <2>1. CASE stopped /\ ~WouldOverflow(queue) /\ Run(disc, FALSE, wakeUps - 1)
    <3>1. queue = <<>>
      <4>1. queue \in Seq(Packets) /\ Len(queue) \in Nat
        BY LenProperties DEF IInv, TypeOK
      <4>2. Len(queue) = 0
        BY <2>1, <4>1 DEF WouldOverflow, QueueLimit
      <4> QED  BY <4>1, <4>2, EmptySeq
    <3>2. DiscOK(disc, copies) /\ lossEnabled' = lossEnabled
      BY <1>2 DEF IInv, WakeUp
    <3> QED  BY <2>1, <3>1, <3>2, RunHandsOver
  <2>2. CASE UNCHANGED <<queue, currentPkt, asked, sent, dropped, discarded>>
    BY <1>2, <2>2 DEF StepOfDevice, HandOverInv, HandsOverNone, HandedOver,
                      InDevice, Transmits, WakeUp
  <2> QED  BY <1>2, <2>1, <2>2 DEF WakeUp
<1>3. CASE TransmitComplete
  BY <1>3, TransmitCompleteHandsOver
<1> QED  BY <1>1, <1>2, <1>3 DEF Next

-------------------------------------------------------------------------------
(***************************************************************************)
(* The copies of a packet take turns, on a device that loses nothing at    *)
(* random and below a queue disc that has room: none is lost in the queue  *)
(* disc, and a retransmission is handed over only after the packet that    *)
(* was sent first.                                                         *)
(***************************************************************************)
FirstCopy(p) == [uid |-> p.uid, copy |-> 1]

Follows(p, S) == p.copy > 1 => FirstCopy(p) \in S

InTurn(packets, cps, H) ==
  /\ \A k \in 1..Len(packets) :
       Follows(packets[k], H \cup {packets[j] : j \in 1..k - 1})
  /\ \A u \in Uids : \A c \in 1..cps[u] :
       \/ [uid |-> u, copy |-> c] \in H
       \/ \E k \in 1..Len(packets) : packets[k] = [uid |-> u, copy |-> c]

DiscHasRoom == Len(disc) < DiscLimit

\* At the queue disc, which has room: the packet is behind those of its uid.
LEMMA ArrivesInTurn ==
  ASSUME IInv, InTurn(disc, copies, HandedOver), DiscHasRoom, NEW u \in Uids, Arrive(u)
  PROVE  InTurn(Accepted(disc, [uid |-> u, copy |-> copies[u] + 1]), copies',
                HandedOver)
<1> DEFINE p == [uid |-> u, copy |-> copies[u] + 1]
           packets == Accepted(disc, p)
           n == Len(disc)
<1>1. /\ disc \in Seq(Packets) /\ n \in Nat
      /\ copies \in [Uids -> 0..MaxCopies] /\ MaxCopies \in Nat
      /\ copies[u] < MaxCopies
      /\ copies' = [copies EXCEPT ![u] = @ + 1]
  BY LenProperties, DeviceAssumption DEF IInv, TypeOK, Arrive
<1>2. /\ p \in Packets /\ p.uid = u /\ p.copy = copies[u] + 1
      /\ copies[u] \in Nat
  BY <1>1 DEF Packets
<1> HIDE DEF p
<1>3. /\ Len(packets) = n + 1
      /\ \A i \in 1..n : packets[i] = disc[i]
      /\ packets[n + 1] = p
  <2>1. packets = Append(disc, p)
    BY DEF Accepted, DiscHasRoom
  <2> HIDE DEF packets
  <2> QED  BY <1>1, <1>2, <2>1, AppendProperties
<1> HIDE DEF packets, n
<1>4. ASSUME NEW k \in 1..n + 1
      PROVE  Follows(packets[k], HandedOver \cup {packets[j] : j \in 1..k - 1})
  <2>1. CASE k \in 1..n
    <3>1. Follows(disc[k], HandedOver \cup {disc[j] : j \in 1..k - 1})
      BY <2>1 DEF InTurn, n
    <3>2. \A j \in 1..k - 1 : j \in 1..n
      BY <1>1, <2>1
    <3>3. \A j \in 1..k - 1 : packets[j] = disc[j]
      BY <1>3, <3>2
    <3>4. {packets[j] : j \in 1..k - 1} = {disc[j] : j \in 1..k - 1}
      BY <3>3
    <3> QED  BY <1>3, <2>1, <3>1, <3>4
  <2>2. CASE k = n + 1
    <3> SUFFICES ASSUME p.copy > 1
                 PROVE  FirstCopy(p) \in HandedOver \cup {packets[j] : j \in 1..k - 1}
      BY <1>3, <2>2 DEF Follows
    <3>1. 1 \in 1..copies[u]
      BY <1>2
    <3>2. FirstCopy(p) = [uid |-> u, copy |-> 1]
      BY <1>2 DEF FirstCopy
    <3>3. \/ FirstCopy(p) \in HandedOver
          \/ \E j \in 1..n : disc[j] = FirstCopy(p)
      BY <3>1, <3>2 DEF InTurn, n
    <3>4. 1..k - 1 = 1..n
      BY <1>1, <2>2
    <3> QED  BY <1>3, <3>3, <3>4
  <2> QED  BY <1>1, <2>1, <2>2
<1>5. ASSUME NEW w \in Uids, NEW c \in 1..copies'[w]
      PROVE  \/ [uid |-> w, copy |-> c] \in HandedOver
             \/ \E k \in 1..n + 1 : packets[k] = [uid |-> w, copy |-> c]
  <2>1. CASE c \in 1..copies[w]
    <3>1. \/ [uid |-> w, copy |-> c] \in HandedOver
          \/ \E k \in 1..n : disc[k] = [uid |-> w, copy |-> c]
      BY <2>1 DEF InTurn, n
    <3>2. \A k \in 1..n : k \in 1..n + 1
      BY <1>1
    <3> QED  BY <1>3, <3>1, <3>2
  <2>2. CASE w = u /\ c = copies[u] + 1
    <3>1. n + 1 \in 1..n + 1
      BY <1>1
    <3> QED  BY <1>3, <2>2, <3>1 DEF p
  <2>3. c \in 1..copies[w] \/ (w = u /\ c = copies[u] + 1)
    <3>1. copies[w] \in Nat /\ (w # u => copies'[w] = copies[w])
          /\ (w = u => copies'[w] = copies[u] + 1)
      BY <1>1
    <3> QED  BY <1>2, <3>1
  <2> QED  BY <2>1, <2>2, <2>3
<1>6. InTurn(packets, copies', HandedOver)
  BY <1>3, <1>4, <1>5 DEF InTurn
<1> QED  BY <1>6 DEF packets, p

\* The first of them is handed over, or none.
LEMMA MovesInTurn ==
  ASSUME NEW packets \in Seq(Packets), NEW cps, InTurn(packets, cps, HandedOver),
         cps = copies', Moves(packets)
  PROVE  /\ InTurn(disc', copies', HandedOver')
         /\ \A p : HandsOver(p) => Follows(p, HandedOver)
<1>1. CASE HandsOverNone /\ disc' = packets
  <2>1. \A p : ~HandsOver(p)
    BY <1>1 DEF HandsOver, HandsOverNone
  <2>2. HandedOver' = HandedOver
    BY <1>1 DEF HandsOverNone
  <2> QED  BY <1>1, <2>1, <2>2, Zenon
<1>2. CASE packets # <<>> /\ HandsOver(Head(packets)) /\ disc' = Tail(packets)
  <2> DEFINE rest == Tail(packets)
             p == Head(packets)
             n == Len(rest)
  <2>1. /\ HandedOver' = HandedOver \cup {p}
        /\ \A q : HandsOver(q) => q = p
    BY <1>2 DEF HandsOver
  <2>2. /\ rest \in Seq(Packets) /\ n = Len(packets) - 1
        /\ p = packets[1]
        /\ \A i \in 1..n : rest[i] = packets[i + 1]
        /\ Len(packets) \in Nat /\ Len(packets) > 0
    BY <1>2, HeadTailProperties, LenProperties, EmptySeq
  <2> HIDE DEF rest, p, n
  <2>3. Follows(p, HandedOver)
    <3>1. 1 \in 1..Len(packets) /\ {packets[j] : j \in 1..1 - 1} = {}
      BY <2>2
    <3>2. Follows(packets[1], HandedOver \cup {packets[j] : j \in 1..1 - 1})
      BY <3>1 DEF InTurn
    <3> QED  BY <2>2, <3>1, <3>2
  <2>4. ASSUME NEW k \in 1..n
        PROVE  Follows(rest[k], HandedOver' \cup {rest[j] : j \in 1..k - 1})
    <3>1. k + 1 \in 1..Len(packets)
      BY <2>2
    <3>2. Follows(packets[k + 1], HandedOver \cup {packets[j] : j \in 1..(k + 1) - 1})
      BY <3>1 DEF InTurn
    <3>3. ASSUME NEW j \in 1..(k + 1) - 1
          PROVE  packets[j] \in {p} \cup {rest[i] : i \in 1..k - 1}
      <4>1. CASE j = 1
        BY <2>2, <4>1
      <4>2. CASE j # 1
        <5>1. j - 1 \in 1..k - 1 /\ j - 1 \in 1..n /\ (j - 1) + 1 = j
          BY <2>2, <4>2
        <5>2. rest[j - 1] = packets[j]
          BY <2>2, <5>1
        <5> QED  BY <5>1, <5>2
      <4> QED  BY <4>1, <4>2
    <3>4. rest[k] = packets[k + 1]
      BY <2>2
    <3> QED  BY <2>1, <3>2, <3>3, <3>4 DEF Follows
  <2>5. ASSUME NEW w \in Uids, NEW c \in 1..cps[w]
        PROVE  \/ [uid |-> w, copy |-> c] \in HandedOver'
               \/ \E k \in 1..n : rest[k] = [uid |-> w, copy |-> c]
    <3>1. CASE [uid |-> w, copy |-> c] \in HandedOver
      BY <2>1, <3>1
    <3>2. ASSUME NEW k \in 1..Len(packets), packets[k] = [uid |-> w, copy |-> c]
          PROVE  \/ [uid |-> w, copy |-> c] \in HandedOver'
                 \/ \E i \in 1..n : rest[i] = [uid |-> w, copy |-> c]
      <4>1. CASE k = 1
        BY <2>1, <2>2, <3>2, <4>1
      <4>2. CASE k # 1
        <5>1. k - 1 \in 1..n /\ (k - 1) + 1 = k
          BY <2>2, <4>2
        <5> QED  BY <2>2, <3>2, <5>1
      <4> QED  BY <4>1, <4>2
    <3> QED  BY <3>1, <3>2 DEF InTurn
  <2>6. disc' = rest
    BY <1>2 DEF rest
  <2>7. InTurn(rest, cps, HandedOver')
    BY <2>4, <2>5 DEF InTurn, n
  <2>8. \A q : HandsOver(q) => Follows(q, HandedOver)
    BY <2>1, <2>3, Zenon
  <2> QED  BY <2>6, <2>7, <2>8, Zenon
<1> QED  BY <1>1, <1>2 DEF Moves

\* Every step of the device keeps the turn, and a retransmission is handed
\* over only after the packet that was sent first.
LEMMA StepInTurn ==
  ASSUME IInv, HandOverInv, InTurn(disc, copies, HandedOver), DiscHasRoom, Next
  PROVE  /\ InTurn(disc', copies', HandedOver')
         /\ \A p : HandsOver(p) => Follows(p, HandedOver)
<1>1. ASSUME NEW u \in Uids, Arrive(u)
      PROVE  /\ InTurn(disc', copies', HandedOver')
             /\ \A p : HandsOver(p) => Follows(p, HandedOver)
  <2> DEFINE packets == Accepted(disc, [uid |-> u, copy |-> copies[u] + 1])
  <2>1. /\ DiscOK(packets, copies') /\ Run(packets, stopped, wakeUps)
        /\ lossEnabled' = lossEnabled
    BY <1>1, AcceptedIsNew
  <2>2. stopped \in BOOLEAN /\ (~stopped => queue = <<>>)
    BY DEF IInv, TypeOK, DeviceInv, QueueOK
  <2>3. InTurn(packets, copies', HandedOver)
    BY <1>1, ArrivesInTurn
  <2> HIDE DEF packets
  <2>4. Moves(packets)
    BY <2>1, <2>2, RunHandsOver
  <2> QED  BY <2>1, <2>3, <2>4, MovesInTurn DEF DiscOK
<1>2. CASE WakeUp
  <2>1. copies' = copies /\ lossEnabled' = lossEnabled
    BY <1>2 DEF WakeUp
  <2>2. CASE stopped /\ ~WouldOverflow(queue) /\ Run(disc, FALSE, wakeUps - 1)
    <3>1. queue = <<>>
      <4>1. queue \in Seq(Packets) /\ Len(queue) \in Nat
        BY LenProperties DEF IInv, TypeOK
      <4>2. Len(queue) = 0
        BY <2>2, <4>1 DEF WouldOverflow, QueueLimit
      <4> QED  BY <4>1, <4>2, EmptySeq
    <3>2. DiscOK(disc, copies)
      BY DEF IInv
    <3>3. Moves(disc)
      BY <2>1, <2>2, <3>1, <3>2, RunHandsOver
    <3> QED  BY <2>1, <3>2, <3>3, MovesInTurn DEF DiscOK
  <2>3. CASE UNCHANGED <<disc, queue, currentPkt, asked, sent, dropped, discarded>>
    <3>1. Moves(disc)
      BY <2>3 DEF Moves, HandsOverNone, HandedOver, InDevice
    <3> QED  BY <2>1, <3>1, MovesInTurn DEF IInv, DiscOK
  <2> QED  BY <1>2, <2>2, <2>3 DEF WakeUp
<1>3. CASE TransmitComplete
  <2>1. disc' = disc /\ copies' = copies /\ HandsOverNone
    BY <1>3, TransmitCompleteHandsOver DEF TransmitComplete
  <2> QED  BY <2>1, MovesInTurn DEF Moves, IInv, DiscOK
<1> QED  BY <1>1, <1>2, <1>3 DEF Next

TakesTurns == InTurn(disc, copies, HandedOver)

\* Hence no copy overtakes the first one.
THEOREM CopiesTakeTurns ==
  Spec /\ lossEnabled = FALSE /\ []DiscHasRoom => []TakesTurns
<1>1. Init /\ lossEnabled = FALSE
        => IInv /\ HandOverInv /\ TakesTurns
  <2> SUFFICES ASSUME Init, lossEnabled = FALSE
               PROVE  IInv /\ HandOverInv /\ TakesTurns
    OBVIOUS
  <2>1. IInv
    BY InitInv
  <2>2. HandOverInv
    BY DEF Init, HandOverInv
  <2>3. TakesTurns
    <3>1. disc = <<>> /\ Len(disc) = 0
      BY LenProperties, EmptySeq DEF Init
    <3>2. \A u \in Uids : copies[u] = 0
      BY DEF Init
    <3> QED  BY <3>1, <3>2 DEF TakesTurns, InTurn
  <2> QED  BY <2>1, <2>2, <2>3
<1>2. IInv /\ HandOverInv /\ TakesTurns /\ DiscHasRoom /\ [Next]_vars
        => (IInv /\ HandOverInv /\ TakesTurns)'
  <2> SUFFICES ASSUME IInv, HandOverInv, TakesTurns, DiscHasRoom, [Next]_vars
               PROVE  IInv' /\ HandOverInv' /\ TakesTurns'
    OBVIOUS
  <2>1. IInv'
    BY NextInv
  <2>2. CASE Next
    <3>1. HandOverInv'
      BY <2>2, StepHandsOver DEF StepOfDevice
    <3>2. InTurn(disc', copies', HandedOver')
      BY <2>2, StepInTurn DEF TakesTurns
    <3> QED  BY <2>1, <3>1, <3>2 DEF TakesTurns
  <2>3. CASE UNCHANGED vars
    <3>1. HandedOver' = HandedOver /\ disc' = disc /\ copies' = copies
      BY <2>3 DEF vars, devVars, HandedOver
    <3>2. HandOverInv'
      BY <2>3, <3>1 DEF vars, devVars, HandOverInv
    <3>3. InTurn(disc', copies', HandedOver')
      BY <3>1, Zenon DEF TakesTurns
    <3> QED  BY <2>1, <3>2, <3>3 DEF TakesTurns
  <2> QED  BY <2>1, <2>2, <2>3
<1> QED  BY <1>1, <1>2, PTL DEF Spec
===============================================================================
