------------------------------- MODULE TcpSender -------------------------------
(***************************************************************************)
(* The sending side of a closed-loop flow, class TcpSocketBase with SACK,  *)
(* from the moment at which the connection is established and the          *)
(* application has written the whole flow and closed the socket, so that   *)
(* the last segment carries the FIN.  The methods are functions of the     *)
(* socket; a segment is sent by appending it to out.                       *)
(*                                                                         *)
(* The congestion window is a parameter of the methods that send: whatever *)
(* the congestion control computes, it is at least one segment.  Time is   *)
(* counted in ticks of one second, the configured minimum of the           *)
(* retransmission time-out, above what the estimate of a round-trip time   *)
(* of some 100 ms gives.                                                   *)
(***************************************************************************)
EXTENDS TcpTxBuffer, Sequences

CONSTANT DataRetries   \* m_dataRetries

ASSUME SenderAssumption == DataRetries \in Nat

MinRto == 1
MaxRto == 60

Off == -1   \* m_retxEvent is not scheduled

Socket ==
  [ buf               : TxBuffer,
    congState         : {"OPEN", "DISORDER", "RECOVERY", "LOSS"},
    dupAckCount       : Nat,
    highRxAckMark     : 1..Segments + 1,
    recover           : 0..Segments + 1,
    recoverActive     : BOOLEAN,
    isFirstPartialAck : BOOLEAN,
    rto               : MinRto..MaxRto,
    retxEvent         : Off..MaxRto,     \* time that is left
    dataRetrCount     : 0..DataRetries,
    connected         : BOOLEAN,
    out               : Seq(SegmentNos) ]

NewSocket ==
  [ buf               |-> NewTxBuffer,
    congState         |-> "OPEN",
    dupAckCount       |-> 0,
    highRxAckMark     |-> 1,
    recover           |-> 0,
    recoverActive     |-> FALSE,
    isFirstPartialAck |-> TRUE,
    rto               |-> MinRto,
    retxEvent         |-> Off,
    dataRetrCount     |-> DataRetries,
    connected         |-> TRUE,
    out               |-> <<>> ]

\* m_highTxMark, which is never reset
HighTxMark(s) == s.buf.nextByteSeq

\* m_state = FIN_WAIT_1: the last segment has been sent.
InFinWait(s) == s.buf.nextByteSeq > Segments

-------------------------------------------------------------------------------
SendDataPacket(s, seq) ==
  [s EXCEPT !.buf = CopyFromSequence(@, seq),
            !.retxEvent = IF @ = Off THEN s.rto ELSE @,
            !.out = Append(@, seq)]

DoRetransmit(s) ==
  LET next == NextSeg(s.buf, FALSE) IN
  SendDataPacket(s, IF next = None THEN s.buf.firstByteSeq ELSE next)

\* One round of the loop of SendPendingData, if there is one.
SendNext(s, window) ==
  LET next == NextSeg(s.buf, s.congState = "RECOVERY") IN
  IF BytesInFlight(s.buf) < window /\ ~(s.congState = "OPEN" /\ InFinWait(s))
       /\ next # None
    THEN SendDataPacket(s, next)
    ELSE s

\* Each round adds a segment to those in flight.
SendPendingData(s, window) ==
  LET sent[n \in 0..window] == IF n = 0 THEN s ELSE SendNext(sent[n - 1], window)
  IN  sent[window]

-------------------------------------------------------------------------------
EnterRecovery(s) ==
  LET head == s.buf.firstByteSeq IN
  DoRetransmit(
    [s EXCEPT !.buf = IF IsLost(@, head) THEN @ ELSE MarkHeadAsLost(@),
              !.recover = HighTxMark(s),
              !.recoverActive = TRUE,
              !.congState = "RECOVERY"])

\* The tests of DupAck, in state DISORDER
StartsRecovery(s) ==
  \/ /\ s.dupAckCount = DupThresh
     /\ s.highRxAckMark >= s.recover \/ ~s.recoverActive
  \/ IsLost(s.buf, s.highRxAckMark + 1)

DupAck(s) ==
  LET counted == [s EXCEPT !.dupAckCount = @ + 1, !.congState = "DISORDER"] IN
  CASE s.congState \in {"LOSS", "RECOVERY"} -> s
    [] s.congState \in {"OPEN", "DISORDER"} /\ StartsRecovery(counted)
         -> EnterRecovery(counted)
    [] OTHER -> counted

(***************************************************************************)
(* NewAck.  With the buffer empty the timer may go on in state FIN_WAIT_1: *)
(* the acknowledgement of the last segment is also that of its FIN, so     *)
(* that the timer finds nothing to do when it expires.                     *)
(***************************************************************************)
NewAck(s, resetRTO) ==
  [s EXCEPT !.dataRetrCount = DataRetries,
            !.rto = IF resetRTO THEN MinRto ELSE @,
            !.retxEvent = CASE IsEmpty(s.buf) -> Off
                            [] ~IsEmpty(s.buf) /\ resetRTO -> MinRto
                            [] OTHER -> @]

\* An acknowledgement below m_recover, in recovery
PartialAck(s, ack) ==
  LET t == IF IsRetransmittedDataAcked(s.buf, ack + 1) THEN s ELSE DoRetransmit(s)
  IN  [NewAck(t, s.isFirstPartialAck) EXCEPT !.isFirstPartialAck = FALSE]

\* An acknowledgement of new data that ends recovery or needs none
FullAck(s, ack, isDupack) ==
  LET stays == s.congState = "DISORDER" /\ isDupack
      t == [s EXCEPT
              !.congState = IF stays THEN @ ELSE "OPEN",
              !.dupAckCount = IF s.congState = "RECOVERY" THEN 0 ELSE @,
              !.isFirstPartialAck = @ \/ s.congState \in {"RECOVERY", "LOSS"},
              !.recoverActive = @ /\ ack < s.recover]
  IN  IF stays THEN t ELSE NewAck(t, TRUE)

\* ProcessAck, from the comparison with the old head on
AckNewData(s, ack, isDupack) ==
  LET t == [s EXCEPT !.dupAckCount = IF isDupack THEN @ ELSE 0] IN
  CASE ack < t.recover /\ t.congState = "RECOVERY" -> PartialAck(t, ack)
    [] ack < t.recover /\ t.congState = "LOSS"     -> NewAck(t, TRUE)
    [] OTHER                                       -> FullAck(t, ack, isDupack)

ProcessAck(s, ack, oldHead, isDupack) ==
  LET t == IF isDupack THEN DupAck(s) ELSE s IN
  IF ack > oldHead THEN AckNewData(t, ack, isDupack) ELSE t

(***************************************************************************)
(* ReceivedAck, with UpdateWindowSize before it, of an acknowledgement     *)
(* that selectively acknowledges blocks.  Acknowledgements are not         *)
(* reordered: none is below the head.                                      *)
(***************************************************************************)
ReceivedAck(s, ack, blocks, window) ==
  LET t == [s EXCEPT
              !.highRxAckMark = IF ack > @ THEN ack ELSE @,
              !.buf = DiscardUpTo(Update(@, blocks), ack)]
  IN  SendPendingData(
        ProcessAck(t, ack, s.buf.firstByteSeq, NewlySacked(s.buf, blocks) # {}),
        window)

\* (fault: the timer ends and nothing is sent)
TimeoutWithoutLoss(s) == [s EXCEPT !.retxEvent = Off]

AfterTimeout(s) ==
  [s EXCEPT !.dataRetrCount = @ - 1,
            !.dupAckCount = 0,
            !.buf = SetSentListLost(@),
            !.recover = HighTxMark(s),
            !.recoverActive = TRUE,
            !.rto = IF 2 * @ < MaxRto THEN 2 * @ ELSE MaxRto,
            !.congState = "LOSS",
            !.retxEvent = Off]

\* (fault: the number of retries is not bounded)
RetryForEver(s) == SendPendingData(AfterTimeout(s), 1)

(***************************************************************************)
(* ReTxTimeout: the window is then of one segment.  With no retries left,  *)
(* the connection is given up.                                             *)
(***************************************************************************)
ReTxTimeout(s) ==
  IF s.dataRetrCount = 0
    THEN [s EXCEPT !.connected = FALSE, !.retxEvent = Off]
    ELSE SendPendingData(AfterTimeout(s), 1)
===============================================================================
