------------------------------ MODULE TcpTxBuffer ------------------------------
(***************************************************************************)
(* The scoreboard of a closed-loop sender, class TcpTxBuffer, as functions *)
(* of its state.  It is what decides whether and when a packet that Penny  *)
(* drops comes again.                                                      *)
(*                                                                         *)
(* The application hands over whole segments and the flows of the          *)
(* simulations are of equal segments, so that no item of the sent list is  *)
(* ever split or merged: an item is a segment, its sequence number is its  *)
(* place 1, 2, ... in the flow, and the flags of the items are sets of     *)
(* segments.  The counters are kept apart from the flags, as the code      *)
(* keeps them, in segments.  SACK is enabled, as in all configurations.    *)
(***************************************************************************)
EXTENDS Integers, FiniteSets, FiniteSetsExt

CONSTANTS
  Segments,    \* the length of the flow
  DupThresh    \* m_dupAckThresh, and m_retxThresh of the socket

ASSUME BufferAssumption ==
  /\ Segments \in Nat
  /\ DupThresh \in Nat \ {0}

SegmentNos == 1..Segments

None == 0    \* no segment: the end of the sent list

TxBuffer ==
  [ firstByteSeq : 1..Segments + 1,
    nextByteSeq  : 1..Segments + 1,  \* m_firstByteSeq + m_sentSize
    sacked       : SUBSET SegmentNos,
    lost         : SUBSET SegmentNos,
    retrans      : SUBSET SegmentNos,
    sackedOut    : Nat,
    lostOut      : Nat,
    retransOut   : Nat,              \* m_retrans
    highestSack  : SegmentNos \cup {None} ]

NewTxBuffer ==
  [ firstByteSeq |-> 1,
    nextByteSeq  |-> 1,
    sacked       |-> {},
    lost         |-> {},
    retrans      |-> {},
    sackedOut    |-> 0,
    lostOut      |-> 0,
    retransOut   |-> 0,
    highestSack  |-> None ]

SentList(t) == t.firstByteSeq..t.nextByteSeq - 1

\* Size() = 0: all data is acknowledged.
IsEmpty(t) == t.firstByteSeq > Segments

-------------------------------------------------------------------------------
\* CopyFromSequence: GetTransmittedSegment or GetNewSegment
CopyFromSequence(t, seq) ==
  IF seq \in SentList(t)
    THEN [t EXCEPT !.retrans = @ \cup {seq},
                   !.retransOut = IF seq \in t.retrans THEN @ ELSE @ + 1]
    ELSE [t EXCEPT !.nextByteSeq = seq + 1]

MarkHeadAsLost(t) ==
  LET head == t.firstByteSeq IN
  IF SentList(t) = {}
    THEN t
    ELSE [t EXCEPT
            !.sacked     = @ \ {head},
            !.retrans    = @ \ {head},
            !.lost       = @ \cup {head},
            !.sackedOut  = IF head \in t.sacked THEN @ - 1 ELSE @,
            !.retransOut = IF head \in t.retrans THEN @ - 1 ELSE @,
            !.lostOut    = IF head \in t.lost THEN @ ELSE @ + 1]

\* (fault: the counters of acknowledged segments are not reduced)
DiscardWithoutCounts(t, seq) ==
  [t EXCEPT !.firstByteSeq = seq,
            !.sacked = @ \ (1..seq - 1),
            !.lost = @ \ (1..seq - 1),
            !.retrans = @ \ (1..seq - 1),
            !.highestSack = IF @ <= seq THEN None ELSE @]

(***************************************************************************)
(* DiscardUpTo, with RemoveFromCounts for each segment that leaves.  The   *)
(* head that is left is not marked as received: acknowledgements come in   *)
(* order, so that what was selectively acknowledged above the cumulative   *)
(* acknowledgement stays above it (AssertionsHold in ClosedLoop.tla).       *)
(***************************************************************************)
DiscardUpTo(t, seq) ==
  LET acked == t.firstByteSeq..seq - 1 IN
  IF t.firstByteSeq >= seq
    THEN t
    ELSE [t EXCEPT
            !.firstByteSeq = seq,
            !.sacked       = @ \ acked,
            !.lost         = @ \ acked,
            !.retrans      = @ \ acked,
            !.sackedOut    = @ - Cardinality(t.sacked \cap acked),
            !.lostOut      = @ - Cardinality(t.lost \cap acked),
            !.retransOut   = @ - Cardinality(t.retrans \cap acked),
            !.highestSack  = IF @ <= seq THEN None ELSE @]

(***************************************************************************)
(* UpdateLostCount: a segment with DupThresh selectively acknowledged ones *)
(* above it, up to highestSack, is lost; so is the head, which the walk    *)
(* does not reach, if there are that many in all.                          *)
(***************************************************************************)
UpdateLostCount(t) ==
  LET above(i) == {j \in t.sacked : i <= j /\ j <= t.highestSack}
      newlyLost == {i \in t.firstByteSeq..t.highestSack :
                      /\ i \notin t.sacked \cup t.lost
                      /\ Cardinality(above(i)) >= DupThresh}
  IN [t EXCEPT !.lost = @ \cup newlyLost,
               !.lostOut = @ + Cardinality(newlyLost)]

\* The segments of an acknowledgement that Update finds newly received.
NewlySacked(t, blocks) == (blocks \cap SentList(t)) \ t.sacked

(***************************************************************************)
(* Update.  The highest segment received so far is replaced also by the    *)
(* one right below it: the comparison is with the end of the new one.      *)
(***************************************************************************)
Update(t, blocks) ==
  LET new == NewlySacked(t, blocks) IN
  IF new = {}
    THEN t
    ELSE UpdateLostCount(
           [t EXCEPT
              !.sacked      = @ \cup new,
              !.sackedOut   = @ + Cardinality(new),
              !.lost        = @ \ new,
              !.lostOut     = @ - Cardinality(t.lost \cap new),
              !.highestSack = IF @ <= Max(new) + 1 THEN Max(new) ELSE @])

\* IsLost: of the marked segments from seq on, the first is lost.
IsLost(t, seq) ==
  LET marked == {i \in SentList(t) : i >= seq /\ i \in t.lost \cup t.sacked} IN
  seq < t.highestSack /\ marked # {} /\ Min(marked) \in t.lost

\* IsRetransmittedDataAcked, of the segment that ends at ack
IsRetransmittedDataAcked(t, ack) ==
  ack - 1 \in (SentList(t) \cap t.retrans) \ t.sacked

(***************************************************************************)
(* NextSeg: a lost segment that has not been retransmitted, else a new     *)
(* one, else, in recovery, any that is not known to be received.  The      *)
(* window of the receiver, 1 MB, is never full.                            *)
(***************************************************************************)
NextSeg(t, isRecovery) ==
  LET unsent == SentList(t) \ (t.retrans \cup t.sacked) IN
  CASE unsent \cap t.lost # {} -> Min(unsent \cap t.lost)
    [] unsent \cap t.lost = {} /\ t.nextByteSeq <= Segments -> t.nextByteSeq
    [] unsent \cap t.lost = {} /\ t.nextByteSeq > Segments
         /\ isRecovery /\ unsent # {} -> Min(unsent)
    [] OTHER -> None

\* BytesInFlight, a difference of unsigned numbers
SentSize(t) == t.nextByteSeq - t.firstByteSeq

BytesInFlight(t) == SentSize(t) - (t.sackedOut + t.lostOut) + t.retransOut

\* SetSentListLost, without resetting what was selectively acknowledged
SetSentListLost(t) ==
  LET lost == SentList(t) \ t.sacked IN
  [t EXCEPT !.lost = lost, !.lostOut = Cardinality(lost),
            !.retrans = {}, !.retransOut = 0]

-------------------------------------------------------------------------------
(***************************************************************************)
(* ConsistencyCheck, which the code leaves disabled, and its assertions:   *)
(* the counters are those of the flags, and no segment is both received    *)
(* and lost.                                                               *)
(***************************************************************************)
Consistent(t) ==
  /\ t.sacked \cup t.lost \cup t.retrans \subseteq SentList(t)
  /\ t.sackedOut = Cardinality(t.sacked)
  /\ t.lostOut = Cardinality(t.lost)
  /\ t.retransOut = Cardinality(t.retrans)
  /\ t.sacked \cap t.lost = {}
  /\ t.firstByteSeq \notin t.sacked
  /\ t.sackedOut + t.lostOut <= SentSize(t)
===============================================================================
