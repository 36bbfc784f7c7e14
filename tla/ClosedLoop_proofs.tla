-------------------------- MODULE ClosedLoop_proofs --------------------------
(***************************************************************************)
(* Theorems about the closed loop, for flows of any length, any window,    *)
(* any number of losses and any choice of Penny's parameters: the sender's *)
(* assertions hold, Penny's books are those of the device, what Penny      *)
(* waits for has not been delivered, a late retransmission counts as a     *)
(* duplicate, and, apart from what must eventually happen, the flow is the *)
(* reliable transfer that it would be without Penny.  A short flow is      *)
(* never found not to be closed-loop where nothing is lost.                *)
(*                                                                         *)
(* The parts: (1) the scoreboard of the sender, method by method; (2) the  *)
(* sender; (3) its timer; (4) the device and Penny, with what is proved of *)
(* each on its own; (5) the books; (6) the acknowledgements; (7) the       *)
(* inductive invariant and its steps; (8) the theorems; (9) the transfer;  *)
(* (10) time, from the methods of the sender to the steps of the loop.     *)
(***************************************************************************)
EXTENDS ClosedLoop, ArithmeticLemmas, FiniteSetTheorems, SequenceTheorems,
        WellFoundedInduction, TLAPS

(***************************************************************************)
(* What a method may assume and keeps.  To the assertions of the code it   *)
(* adds that no more is acknowledged than was sent and that the walk of    *)
(* UpdateLostCount starts inside the sent list.                            *)
(***************************************************************************)
Scoreboard(t) ==
  /\ t \in TxBuffer
  /\ Consistent(t)
  /\ t.firstByteSeq <= t.nextByteSeq
  /\ t.highestSack \in SentList(t) \cup {None}

-------------------------------------------------------------------------------
\* (1) The scoreboard.  Cardinalities of its flags.

\* A set of sent segments is finite, and no larger than the sent list.
LEMMA FlagsFinite ==
  ASSUME NEW t \in TxBuffer, NEW S, S \subseteq SentList(t)
  PROVE  /\ IsFiniteSet(S)
         /\ Cardinality(S) \in Nat
         /\ Cardinality(S) <= SentSize(t) \/ SentList(t) = {}
<1>1. t.firstByteSeq \in Int /\ t.nextByteSeq \in Int
  BY BufferAssumption DEF TxBuffer
<1>2. /\ IsFiniteSet(SentList(t))
      /\ SentList(t) # {} => Cardinality(SentList(t)) = SentSize(t)
  <2>1. t.nextByteSeq - 1 \in Int
    BY <1>1
  <2>2. IsFiniteSet(SentList(t))
        /\ Cardinality(SentList(t))
             = IF t.firstByteSeq > t.nextByteSeq - 1 THEN 0
               ELSE (t.nextByteSeq - 1) - t.firstByteSeq + 1
    BY <1>1, <2>1, FS_Interval DEF SentList
  <2>. QED
    BY <1>1, <2>2 DEF SentList, SentSize
<1>3. IsFiniteSet(S) /\ Cardinality(S) <= Cardinality(SentList(t))
  BY <1>2, FS_Subset
<1>4. Cardinality(S) \in Nat
  BY <1>3, FS_CardinalityType
<1>. QED
  BY <1>2, <1>3, <1>4

\* Adding segments that are not yet in a set
LEMMA CardinalityAdd ==
  ASSUME NEW S, NEW T, IsFiniteSet(S), IsFiniteSet(T), S \cap T = {}
  PROVE  Cardinality(S \cup T) = Cardinality(S) + Cardinality(T)
<1>1. Cardinality(S \cap T) = 0
  <2>1. Cardinality({}) = 0
    BY FS_EmptySet
  <2>. QED
    BY <2>1
<1>2. Cardinality(S) \in Nat /\ Cardinality(T) \in Nat
  BY FS_CardinalityType
<1>3. Cardinality(S \cup T) = Cardinality(S) + Cardinality(T) - Cardinality(S \cap T)
  BY FS_Union
<1>. QED
  BY <1>1, <1>2, <1>3

\* Max of a set of segments is one of them.
LEMMA MaxSegment ==
  ASSUME NEW S \in SUBSET SegmentNos, S # {}
  PROVE  Max(S) \in S
<1> DEFINE less == OpToRel(<, Nat)
           below == {Segments - i : i \in S}
<1>1. \A i \in S : i \in Int /\ Segments - i \in Nat
  BY BufferAssumption DEF SegmentNos
<1>2. below \subseteq Nat /\ below # {}
  BY <1>1
<1>3. PICK low \in below : \A y \in below : ~(<<y, low>> \in less)
  <2> HIDE DEF below, less
  <2>1. IsWellFoundedOn(less, Nat)
    BY NatLessThanWellFounded DEF less
  <2>. QED
    BY <1>2, <2>1, WFMin
<1>4. \A y \in below : ~(y < low)
  BY <1>2, <1>3 DEF OpToRel
<1>5. PICK high \in S : low = Segments - high
  OBVIOUS
<1>6. \A y \in S : high >= y
  <2> SUFFICES ASSUME NEW y \in S PROVE high >= y
    OBVIOUS
  <2>1. ~(Segments - y < Segments - high)
    BY <1>4, <1>5
  <2>. QED
    BY <2>1, <1>1, BufferAssumption
<1>. QED
  BY <1>6 DEF Max

\* The last assertion, on received and lost segments together, follows from
\* the counts.
LEMMA SumOfCounts ==
  ASSUME NEW t \in TxBuffer,
         t.sacked \subseteq SentList(t), t.lost \subseteq SentList(t),
         t.sacked \cap t.lost = {},
         t.sackedOut = Cardinality(t.sacked), t.lostOut = Cardinality(t.lost),
         t.firstByteSeq <= t.nextByteSeq
  PROVE  t.sackedOut + t.lostOut <= SentSize(t)
<1>1. /\ IsFiniteSet(t.sacked) /\ IsFiniteSet(t.lost)
      /\ Cardinality(t.sacked) \in Nat /\ Cardinality(t.lost) \in Nat
  BY FlagsFinite
<1>2. Cardinality(t.sacked \cup t.lost) = t.sackedOut + t.lostOut
  BY <1>1, CardinalityAdd
<1>3. t.sacked \cup t.lost \subseteq SentList(t)
  OBVIOUS
<1>4. Cardinality(t.sacked \cup t.lost) <= SentSize(t) \/ SentList(t) = {}
  BY <1>3, FlagsFinite
<1>5. CASE SentList(t) = {}
  <2>1. Cardinality(t.sacked \cup t.lost) = 0
    BY <1>5, <1>3, FS_EmptySet
  <2>2. SentSize(t) >= 0
    BY BufferAssumption DEF TxBuffer, SentSize
  <2>. QED
    BY <1>2, <2>1, <2>2
<1>6. CASE SentList(t) # {}
  BY <1>2, <1>4, <1>6
<1>. QED
  BY <1>5, <1>6

\* What is to be shown of a scoreboard
LEMMA IsScoreboard ==
  ASSUME NEW t \in TxBuffer,
         t.sacked \cup t.lost \cup t.retrans \subseteq SentList(t),
         t.sackedOut = Cardinality(t.sacked),
         t.lostOut = Cardinality(t.lost),
         t.retransOut = Cardinality(t.retrans),
         t.sacked \cap t.lost = {},
         t.firstByteSeq \notin t.sacked,
         t.firstByteSeq <= t.nextByteSeq,
         t.highestSack \in SentList(t) \cup {None}
  PROVE  Scoreboard(t)
<1>1. t.sackedOut + t.lostOut <= SentSize(t)
  BY SumOfCounts
<1>. QED
  BY <1>1 DEF Scoreboard, Consistent

-------------------------------------------------------------------------------
\* The methods

\* At first nothing is sent and nothing flagged.
LEMMA NewTxBufferConsistent == Scoreboard(NewTxBuffer)
<1>1. NewTxBuffer \in TxBuffer
  BY BufferAssumption DEF NewTxBuffer, TxBuffer, SegmentNos, None
<1>2. Cardinality({}) = 0
  BY FS_EmptySet
<1>3. NewTxBuffer.sacked = {} /\ NewTxBuffer.lost = {} /\ NewTxBuffer.retrans = {}
      /\ NewTxBuffer.sackedOut = 0 /\ NewTxBuffer.lostOut = 0
      /\ NewTxBuffer.retransOut = 0 /\ NewTxBuffer.highestSack = None
      /\ NewTxBuffer.firstByteSeq <= NewTxBuffer.nextByteSeq
  BY DEF NewTxBuffer
<1>. QED
  BY <1>1, <1>2, <1>3, IsScoreboard

(***************************************************************************)
(* A segment is sent, for the first time or again, from the sent list or   *)
(* as the next of the application's.                                       *)
(***************************************************************************)
LEMMA CopyFromSequenceConsistent ==
  ASSUME NEW t, Scoreboard(t), NEW seq \in SegmentNos,
         seq \in SentList(t) \/ seq = t.nextByteSeq
  PROVE  Scoreboard(CopyFromSequence(t, seq))
<1> DEFINE u == CopyFromSequence(t, seq)
<1>1. t \in TxBuffer /\ Consistent(t)
  BY DEF Scoreboard
<1>2. CASE seq \in SentList(t)
  <2> DEFINE r   == t.retrans \cup {seq}
             out == IF seq \in t.retrans THEN t.retransOut ELSE t.retransOut + 1
  <2>1. IsFiniteSet(t.retrans) /\ t.retransOut = Cardinality(t.retrans)
    BY <1>1, FlagsFinite DEF Consistent
  <2>2. out = Cardinality(r) /\ IsFiniteSet(r)
    BY <2>1, FS_AddElement
  <2>3. out \in Nat
    BY <2>2, FS_CardinalityType
  <2>4. u = [t EXCEPT !.retrans = r, !.retransOut = out]
    BY <1>2 DEF CopyFromSequence
  <2>5. r \in SUBSET SegmentNos /\ r \subseteq SentList(t)
    BY <1>1, <1>2 DEF TxBuffer, Consistent
  <2> HIDE DEF u, r, out
  <2>6. u \in TxBuffer
    BY <2>3, <2>4, <2>5, <1>1 DEF TxBuffer
  <2>7. /\ u.firstByteSeq = t.firstByteSeq /\ u.nextByteSeq = t.nextByteSeq
        /\ u.sacked = t.sacked /\ u.lost = t.lost /\ u.retrans = r
        /\ u.sackedOut = t.sackedOut /\ u.lostOut = t.lostOut
        /\ u.retransOut = out /\ u.highestSack = t.highestSack
    BY <2>4, <1>1 DEF TxBuffer
  <2>8. SentList(u) = SentList(t)
    BY <2>7 DEF SentList
  <2>9. Scoreboard(u)
    BY <1>1, <2>2, <2>5, <2>6, <2>7, <2>8, IsScoreboard DEF Scoreboard, Consistent
  <2>. QED
    BY <2>9 DEF u
<1>3. CASE seq \notin SentList(t)
  <2>1. seq = t.nextByteSeq /\ u = [t EXCEPT !.nextByteSeq = seq + 1]
    BY <1>3 DEF CopyFromSequence
  <2>2. u \in TxBuffer
    BY <2>1, <1>1, BufferAssumption DEF TxBuffer, SegmentNos
  <2>3. SentList(t) \subseteq SentList(u)
    BY <2>1, <1>1, BufferAssumption DEF TxBuffer, SentList, SegmentNos
  <2>4. u.firstByteSeq <= u.nextByteSeq
    BY <2>1, <1>1, BufferAssumption DEF Scoreboard, TxBuffer, SegmentNos
  <2>. QED
    BY <1>1, <2>1, <2>2, <2>3, <2>4, IsScoreboard DEF Scoreboard, Consistent, TxBuffer
<1>. QED
  BY <1>2, <1>3

\* On entering recovery the head of the sent list becomes lost.
LEMMA MarkHeadAsLostConsistent ==
  ASSUME NEW t, Scoreboard(t)
  PROVE  Scoreboard(MarkHeadAsLost(t))
<1> DEFINE u == MarkHeadAsLost(t)
           head == t.firstByteSeq
<1>1. t \in TxBuffer /\ Consistent(t)
  BY DEF Scoreboard
<1>2. CASE SentList(t) = {}
  BY <1>2 DEF MarkHeadAsLost
<1>3. CASE SentList(t) # {}
  <2> DEFINE r     == t.retrans \ {head}
             rOut  == IF head \in t.retrans THEN t.retransOut - 1 ELSE t.retransOut
             l     == t.lost \cup {head}
             lOut  == IF head \in t.lost THEN t.lostOut ELSE t.lostOut + 1
  <2>1. /\ IsFiniteSet(t.retrans) /\ t.retransOut = Cardinality(t.retrans)
        /\ IsFiniteSet(t.lost) /\ t.lostOut = Cardinality(t.lost)
    BY <1>1, FlagsFinite DEF Consistent
  <2>2. rOut = Cardinality(r) /\ IsFiniteSet(r)
    BY <2>1, FS_RemoveElement
  <2>3. lOut = Cardinality(l) /\ IsFiniteSet(l)
    BY <2>1, FS_AddElement
  <2>4. rOut \in Nat /\ lOut \in Nat
    BY <2>2, <2>3, FS_CardinalityType
  <2>5. head \notin t.sacked /\ t.sacked \ {head} = t.sacked
    BY <1>1 DEF Consistent
  <2>6. head \in SentList(t) /\ head \in SegmentNos
    BY <1>1, <1>3, BufferAssumption DEF SentList, TxBuffer, SegmentNos
  <2>7. r \in SUBSET SegmentNos /\ l \in SUBSET SegmentNos
        /\ r \subseteq SentList(t) /\ l \subseteq SentList(t)
    BY <1>1, <2>6 DEF TxBuffer, Consistent
  <2>8. u = [t EXCEPT !.retrans = r, !.lost = l, !.retransOut = rOut, !.lostOut = lOut]
    BY <1>1, <1>3, <2>5 DEF MarkHeadAsLost, TxBuffer
  <2>9. t.sacked \cap l = {}
    BY <2>5, <1>1 DEF Consistent
  <2> HIDE DEF u, r, rOut, l, lOut
  <2>10. u \in TxBuffer
    BY <2>4, <2>7, <2>8, <1>1 DEF TxBuffer
  <2>11. /\ u.firstByteSeq = t.firstByteSeq /\ u.nextByteSeq = t.nextByteSeq
         /\ u.sacked = t.sacked /\ u.lost = l /\ u.retrans = r
         /\ u.sackedOut = t.sackedOut /\ u.lostOut = lOut
         /\ u.retransOut = rOut /\ u.highestSack = t.highestSack
    BY <2>8, <1>1 DEF TxBuffer
  <2>12. SentList(u) = SentList(t)
    BY <2>11 DEF SentList
  <2>13. Scoreboard(u)
    BY <1>1, <2>2, <2>3, <2>7, <2>9, <2>10, <2>11, <2>12, IsScoreboard
       DEF Scoreboard, Consistent
  <2>. QED
    BY <2>13 DEF u
<1>. QED
  BY <1>2, <1>3

(***************************************************************************)
(* An acknowledgement takes the segments below it off the sent list.       *)
(***************************************************************************)
LEMMA DiscardUpToConsistent ==
  ASSUME NEW t, Scoreboard(t),
         NEW seq \in 1..Segments + 1, seq <= t.nextByteSeq, seq \notin t.sacked
  PROVE  Scoreboard(DiscardUpTo(t, seq))
<1> DEFINE u     == DiscardUpTo(t, seq)
           acked == t.firstByteSeq..seq - 1
<1>1. t \in TxBuffer /\ Consistent(t)
  BY DEF Scoreboard
<1>2. CASE t.firstByteSeq >= seq
  BY <1>2 DEF DiscardUpTo
<1>3. CASE ~(t.firstByteSeq >= seq)
  <2> DEFINE s    == t.sacked \ acked
             sOut == t.sackedOut - Cardinality(t.sacked \cap acked)
             l    == t.lost \ acked
             lOut == t.lostOut - Cardinality(t.lost \cap acked)
             r    == t.retrans \ acked
             rOut == t.retransOut - Cardinality(t.retrans \cap acked)
             h    == IF t.highestSack <= seq THEN None ELSE t.highestSack
  <2>1. /\ IsFiniteSet(t.sacked) /\ t.sackedOut = Cardinality(t.sacked)
        /\ IsFiniteSet(t.lost) /\ t.lostOut = Cardinality(t.lost)
        /\ IsFiniteSet(t.retrans) /\ t.retransOut = Cardinality(t.retrans)
    BY <1>1, FlagsFinite DEF Consistent
  <2>2. /\ IsFiniteSet(s) /\ sOut = Cardinality(s)
        /\ IsFiniteSet(l) /\ lOut = Cardinality(l)
        /\ IsFiniteSet(r) /\ rOut = Cardinality(r)
    BY <2>1, FS_Difference
  <2>3. sOut \in Nat /\ lOut \in Nat /\ rOut \in Nat
    BY <2>2, FS_CardinalityType
  <2>4. u = [t EXCEPT !.firstByteSeq = seq, !.sacked = s, !.lost = l, !.retrans = r,
                      !.sackedOut = sOut, !.lostOut = lOut, !.retransOut = rOut,
                      !.highestSack = h]
    BY <1>3 DEF DiscardUpTo
  <2>5. \A i \in SentList(t) : i \notin acked => i \in seq..t.nextByteSeq - 1
    BY <1>1, BufferAssumption DEF SentList, TxBuffer
  <2>6. s \cup l \cup r \subseteq seq..t.nextByteSeq - 1 /\ s \cap l = {} /\ seq \notin s
    BY <1>1, <2>5 DEF Consistent
  <2>7. h \in (seq..t.nextByteSeq - 1) \cup {None} /\ h \in SegmentNos \cup {None}
    BY <1>1, BufferAssumption DEF Scoreboard, TxBuffer, SentList, SegmentNos, None
  <2>8. s \in SUBSET SegmentNos /\ l \in SUBSET SegmentNos /\ r \in SUBSET SegmentNos
    BY <1>1 DEF TxBuffer
  <2> HIDE DEF u, s, sOut, l, lOut, r, rOut, h, acked
  <2>9. u \in TxBuffer
    BY <2>3, <2>4, <2>7, <2>8, <1>1 DEF TxBuffer
  <2>10. /\ u.firstByteSeq = seq /\ u.nextByteSeq = t.nextByteSeq
         /\ u.sacked = s /\ u.lost = l /\ u.retrans = r
         /\ u.sackedOut = sOut /\ u.lostOut = lOut
         /\ u.retransOut = rOut /\ u.highestSack = h
    BY <2>4, <1>1 DEF TxBuffer
  <2>11. SentList(u) = seq..t.nextByteSeq - 1
    BY <2>10 DEF SentList
  <2>12. Scoreboard(u)
    BY <2>2, <2>6, <2>7, <2>9, <2>10, <2>11, IsScoreboard
  <2>. QED
    BY <2>12 DEF u
<1>. QED
  BY <1>2, <1>3

\* After a time-out everything not received is lost and not yet sent again.
LEMMA SetSentListLostConsistent ==
  ASSUME NEW t, Scoreboard(t)
  PROVE  Scoreboard(SetSentListLost(t))
<1> DEFINE u == SetSentListLost(t)
           l == SentList(t) \ t.sacked
<1>1. t \in TxBuffer /\ Consistent(t)
  BY DEF Scoreboard
<1>2. IsFiniteSet(l) /\ Cardinality(l) \in Nat
  BY <1>1, FlagsFinite
<1>3. l \in SUBSET SegmentNos /\ l \subseteq SentList(t) /\ t.sacked \cap l = {}
  BY <1>1, BufferAssumption DEF TxBuffer, SentList, SegmentNos
<1>4. u = [t EXCEPT !.lost = l, !.lostOut = Cardinality(l),
                    !.retrans = {}, !.retransOut = 0]
  BY DEF SetSentListLost
<1>5. Cardinality({}) = 0
  BY FS_EmptySet
<1> HIDE DEF u, l
<1>6. u \in TxBuffer
  BY <1>1, <1>2, <1>3, <1>4 DEF TxBuffer
<1>7. /\ u.firstByteSeq = t.firstByteSeq /\ u.nextByteSeq = t.nextByteSeq
      /\ u.sacked = t.sacked /\ u.lost = l /\ u.retrans = {}
      /\ u.sackedOut = t.sackedOut /\ u.lostOut = Cardinality(l)
      /\ u.retransOut = 0 /\ u.highestSack = t.highestSack
  BY <1>4, <1>1 DEF TxBuffer
<1>8. SentList(u) = SentList(t)
  BY <1>7 DEF SentList
<1>9. Scoreboard(u)
  BY <1>1, <1>3, <1>5, <1>6, <1>7, <1>8, IsScoreboard DEF Scoreboard, Consistent
<1>. QED
  BY <1>9 DEF u

\* Segments with enough received above them become lost.
LEMMA UpdateLostCountConsistent ==
  ASSUME NEW t, Scoreboard(t)
  PROVE  Scoreboard(UpdateLostCount(t))
<1> DEFINE u == UpdateLostCount(t)
           above(i) == {j \in t.sacked : i <= j /\ j <= t.highestSack}
           new == {i \in t.firstByteSeq..t.highestSack :
                     /\ i \notin t.sacked \cup t.lost
                     /\ Cardinality(above(i)) >= DupThresh}
           l == t.lost \cup new
           lOut == t.lostOut + Cardinality(new)
<1>1. t \in TxBuffer /\ Consistent(t)
  BY DEF Scoreboard
<1>2. t.firstByteSeq..t.highestSack \subseteq SentList(t)
  BY <1>1, BufferAssumption DEF Scoreboard, TxBuffer, SentList, None
<1>3. new \subseteq SentList(t) /\ new \cap (t.sacked \cup t.lost) = {}
  BY <1>2
<1>4. u = [t EXCEPT !.lost = l, !.lostOut = lOut]
  BY DEF UpdateLostCount
<1> HIDE DEF u, new
<1>5. /\ IsFiniteSet(t.lost) /\ IsFiniteSet(new)
      /\ t.lostOut = Cardinality(t.lost)
  BY <1>1, <1>3, FlagsFinite DEF Consistent
<1>6. lOut = Cardinality(l)
  BY <1>3, <1>5, CardinalityAdd
<1>7. l \in SUBSET SegmentNos /\ l \subseteq SentList(t) /\ t.sacked \cap l = {}
  <2>1. SentList(t) \subseteq SegmentNos
    BY <1>1, BufferAssumption DEF TxBuffer, SentList, SegmentNos
  <2>2. t.lost \subseteq SentList(t) /\ t.sacked \cap t.lost = {}
    BY <1>1 DEF Consistent
  <2>. QED
    BY <1>3, <2>1, <2>2
<1>8. lOut \in Nat
  BY <1>1, <1>6, <1>7, FlagsFinite
<1> HIDE DEF l, lOut
<1>9. u \in TxBuffer
  BY <1>1, <1>4, <1>7, <1>8 DEF TxBuffer
<1>10. /\ u.firstByteSeq = t.firstByteSeq /\ u.nextByteSeq = t.nextByteSeq
       /\ u.sacked = t.sacked /\ u.lost = l /\ u.retrans = t.retrans
       /\ u.sackedOut = t.sackedOut /\ u.lostOut = lOut
       /\ u.retransOut = t.retransOut /\ u.highestSack = t.highestSack
  BY <1>4, <1>1 DEF TxBuffer
<1>11. SentList(u) = SentList(t)
  BY <1>10 DEF SentList
<1>12. Scoreboard(u)
  BY <1>1, <1>6, <1>7, <1>9, <1>10, <1>11, IsScoreboard DEF Scoreboard, Consistent
<1>. QED
  BY <1>12 DEF u

(***************************************************************************)
(* A selective acknowledgement, of segments above the head, marks what is  *)
(* new in it as received and then finds the lost segments below.           *)
(***************************************************************************)
LEMMA UpdateConsistent ==
  ASSUME NEW t, Scoreboard(t), NEW blocks, t.firstByteSeq \notin blocks
  PROVE  Scoreboard(Update(t, blocks))
<1> DEFINE new == NewlySacked(t, blocks)
           s == t.sacked \cup new
           sOut == t.sackedOut + Cardinality(new)
           l == t.lost \ new
           lOut == t.lostOut - Cardinality(t.lost \cap new)
           h == IF t.highestSack <= Max(new) + 1 THEN Max(new) ELSE t.highestSack
           u == [t EXCEPT !.sacked = s, !.sackedOut = sOut, !.lost = l,
                          !.lostOut = lOut, !.highestSack = h]
<1>1. t \in TxBuffer /\ Consistent(t)
  BY DEF Scoreboard
<1>2. CASE new = {}
  BY <1>2 DEF Update
<1>3. CASE new # {}
  <2>1. Update(t, blocks) = UpdateLostCount(u)
    BY <1>3 DEF Update
  <2>2. new \subseteq SentList(t) /\ new \cap t.sacked = {} /\ t.firstByteSeq \notin new
    BY DEF NewlySacked
  <2>3. new \in SUBSET SegmentNos
    BY <1>1, <2>2, BufferAssumption DEF TxBuffer, SentList, SegmentNos
  <2>4. Max(new) \in new
    BY <1>3, <2>3, MaxSegment
  <2> HIDE DEF new
  <2>5. /\ IsFiniteSet(t.sacked) /\ t.sackedOut = Cardinality(t.sacked)
        /\ IsFiniteSet(t.lost) /\ t.lostOut = Cardinality(t.lost)
        /\ IsFiniteSet(new)
    BY <1>1, <2>2, FlagsFinite DEF Consistent
  <2>6. sOut = Cardinality(s)
    BY <2>2, <2>5, CardinalityAdd
  <2>7. lOut = Cardinality(l)
    BY <2>5, FS_Difference
  <2>8. s \cup l \subseteq SentList(t) /\ s \cap l = {} /\ t.firstByteSeq \notin s
    BY <1>1, <2>2 DEF Consistent
  <2>9. s \in SUBSET SegmentNos /\ l \in SUBSET SegmentNos
    BY <1>1, <2>3 DEF TxBuffer
  <2>10. sOut \in Nat /\ lOut \in Nat
    BY <1>1, <2>6, <2>7, <2>8, FlagsFinite
  <2>11. h \in SentList(t) \cup {None} /\ h \in SegmentNos \cup {None}
    BY <1>1, <2>2, <2>3, <2>4 DEF Scoreboard, TxBuffer
  <2> HIDE DEF s, sOut, l, lOut, h
  <2>12. u \in TxBuffer
    BY <1>1, <2>9, <2>10, <2>11 DEF TxBuffer
  <2>13. /\ u.firstByteSeq = t.firstByteSeq /\ u.nextByteSeq = t.nextByteSeq
         /\ u.sacked = s /\ u.lost = l /\ u.retrans = t.retrans
         /\ u.sackedOut = sOut /\ u.lostOut = lOut
         /\ u.retransOut = t.retransOut /\ u.highestSack = h
    BY <1>1 DEF TxBuffer
  <2> HIDE DEF u
  <2>14. SentList(u) = SentList(t)
    BY <2>13 DEF SentList
  <2>15. Scoreboard(u)
    BY <1>1, <2>6, <2>7, <2>8, <2>11, <2>12, <2>13, <2>14, IsScoreboard
       DEF Scoreboard, Consistent
  <2>. QED
    BY <2>1, <2>15, UpdateLostCountConsistent
<1>. QED
  BY <1>2, <1>3

-------------------------------------------------------------------------------
(***************************************************************************)
(* Whatever the socket does to a scoreboard, its counters stay those of    *)
(* its flags: sending and sending again, an acknowledgement of what was    *)
(* sent and is not selectively acknowledged, a selective one above the     *)
(* head, entering recovery, and a time-out.                                *)
(***************************************************************************)
THEOREM ScoreboardKept ==
  /\ Scoreboard(NewTxBuffer)
  /\ \A t : Scoreboard(t) =>
       /\ \A seq \in SegmentNos :
            seq \in SentList(t) \/ seq = t.nextByteSeq
              => Scoreboard(CopyFromSequence(t, seq))
       /\ \A seq \in 1..Segments + 1 :
            seq <= t.nextByteSeq /\ seq \notin t.sacked
              => Scoreboard(DiscardUpTo(t, seq))
       /\ \A blocks : t.firstByteSeq \notin blocks => Scoreboard(Update(t, blocks))
       /\ Scoreboard(MarkHeadAsLost(t))
       /\ Scoreboard(SetSentListLost(t))
BY NewTxBufferConsistent, CopyFromSequenceConsistent, DiscardUpToConsistent,
   UpdateConsistent, MarkHeadAsLostConsistent, SetSentListLostConsistent

(***************************************************************************)
(* The unsigned difference that BytesInFlight returns does not wrap around *)
(* on a scoreboard, so that a sender cannot take an empty network for a    *)
(* full one.                                                               *)
(***************************************************************************)
THEOREM InFlightNeverWraps ==
  ASSUME NEW t, Scoreboard(t)
  PROVE  BytesInFlight(t) \in Nat
<1>1. t \in TxBuffer /\ t.sackedOut + t.lostOut <= SentSize(t)
  BY DEF Scoreboard, Consistent
<1>2. /\ t.sackedOut \in Nat /\ t.lostOut \in Nat /\ t.retransOut \in Nat
      /\ SentSize(t) \in Int
  BY <1>1, BufferAssumption DEF TxBuffer, SentSize
<1>. QED
  BY <1>1, <1>2 DEF BytesInFlight

-------------------------------------------------------------------------------
(***************************************************************************)
(* (2) The socket.  What holds of it between two calls, kept by each       *)
(* method that sends: all that is in its segments, on the link included,   *)
(* has been sent once; it is in recovery while a recovery point is active, *)
(* and counts duplicate acknowledgements only when in disorder.            *)
(***************************************************************************)
SocketOK(s) ==
  /\ s \in Socket
  /\ Scoreboard(s.buf)
  /\ \A k \in 1..Len(s.out) : s.out[k] < s.buf.nextByteSeq
  /\ s.recover <= s.buf.nextByteSeq

SenderOK(s) ==
  /\ SocketOK(s)
  /\ s.recoverActive => s.congState \in {"RECOVERY", "LOSS"}
  /\ s.congState \in {"OPEN", "LOSS"} => s.dupAckCount = 0
  /\ s.congState = "DISORDER" => s.dupAckCount < DupThresh

\* What sending does not change of the connection, or only extends.
OnlySends(s, t) ==
  /\ t.buf.firstByteSeq = s.buf.firstByteSeq
  /\ t.buf.nextByteSeq >= s.buf.nextByteSeq
  /\ t.buf.sacked \subseteq s.buf.sacked
  /\ t.connected = s.connected

\* The scoreboard in numbers.
LEMMA ScoreboardBounds ==
  ASSUME NEW t, Scoreboard(t)
  PROVE  /\ t.firstByteSeq \in 1..Segments + 1
         /\ t.nextByteSeq \in 1..Segments + 1
         /\ t.firstByteSeq <= t.nextByteSeq
         /\ SentList(t) \subseteq SegmentNos
         /\ t.sacked \subseteq SentList(t)
         /\ t.firstByteSeq \notin t.sacked
  BY BufferAssumption DEF Scoreboard, TxBuffer, Consistent, SentList, SegmentNos

\* One such step after another is one.
LEMMA OnlySendsTransitive ==
  ASSUME NEW s, NEW t, NEW u, SenderOK(s), SenderOK(t), SenderOK(u),
         OnlySends(s, t), OnlySends(t, u)
  PROVE  OnlySends(s, u)
<1>1. /\ s.buf.nextByteSeq \in Int /\ t.buf.nextByteSeq \in Int
      /\ u.buf.nextByteSeq \in Int
  BY ScoreboardBounds DEF SocketOK, SenderOK
<1> QED  BY <1>1 DEF OnlySends

\* Min of a set of segments is one of them.
LEMMA MinSegment ==
  ASSUME NEW S \in SUBSET Nat, S # {}
  PROVE  Min(S) \in S /\ \A i \in S : Min(S) <= i
<1> DEFINE R == {ss \in Nat \X Nat : ss[1] < ss[2]}
<1>1. IsWellFoundedOn(R, Nat)
  BY ONLY NatLessThanWellFounded, Zenon DEF OpToRel
<1>2. PICK x \in S : \A y \in S : ~(<<y, x>> \in R)
  <2> HIDE DEF R
  <2> QED  BY <1>1, WFMin
<1>3. \A y \in S : x <= y
  <2> SUFFICES ASSUME NEW y \in S PROVE x <= y
    OBVIOUS
  <2>1. x \in Nat /\ y \in Nat /\ ~(y < x)
    BY <1>2
  <2> QED  BY <2>1
<1> QED  BY <1>3 DEF Min

\* NextSeg finds a segment that may be sent, if any.
LEMMA NextSegMaySend ==
  ASSUME NEW t, Scoreboard(t), NEW isRecovery \in BOOLEAN
  PROVE  LET next == NextSeg(t, isRecovery) IN
         \/ next = None
         \/ next \in SegmentNos /\ (next \in SentList(t) \/ next = t.nextByteSeq)
<1> DEFINE unsent == SentList(t) \ (t.retrans \cup t.sacked)
           next == NextSeg(t, isRecovery)
<1>1. unsent \subseteq SentList(t) /\ SentList(t) \subseteq SegmentNos
  BY ScoreboardBounds
<1>2. SegmentNos \subseteq Nat
  BY BufferAssumption DEF SegmentNos
<1>3. CASE unsent \cap t.lost # {}
  <2>1. next = Min(unsent \cap t.lost)
    BY <1>3 DEF NextSeg
  <2>2. Min(unsent \cap t.lost) \in unsent \cap t.lost
    BY <1>1, <1>2, <1>3, MinSegment
  <2> QED  BY <1>1, <2>1, <2>2
<1>4. CASE unsent \cap t.lost = {} /\ t.nextByteSeq <= Segments
  <2>1. next = t.nextByteSeq
    <3>1. ~(t.nextByteSeq > Segments)
      BY <1>4, ScoreboardBounds, BufferAssumption
    <3> QED  BY <1>4, <3>1 DEF NextSeg
  <2>2. t.nextByteSeq \in SegmentNos
    BY <1>4, ScoreboardBounds, BufferAssumption DEF SegmentNos
  <2> QED  BY <2>1, <2>2
<1>5. CASE /\ unsent \cap t.lost = {} /\ t.nextByteSeq > Segments
           /\ isRecovery /\ unsent # {}
  <2>1. next = Min(unsent)
    <3>1. ~(t.nextByteSeq <= Segments)
      BY <1>5, ScoreboardBounds, BufferAssumption
    <3> QED  BY <1>5, <3>1 DEF NextSeg
  <2>2. Min(unsent) \in unsent
    BY <1>1, <1>2, <1>5, MinSegment
  <2> QED  BY <1>1, <2>1, <2>2
<1>6. CASE /\ unsent \cap t.lost = {} /\ ~(t.nextByteSeq <= Segments)
           /\ ~(t.nextByteSeq > Segments /\ isRecovery /\ unsent # {})
  BY <1>6 DEF NextSeg
<1>7. ~(t.nextByteSeq <= Segments) => t.nextByteSeq > Segments
  BY ScoreboardBounds, BufferAssumption
<1> QED  BY <1>3, <1>4, <1>5, <1>6, <1>7

\* SendDataPacket of a segment that was sent before, or the next one.
LEMMA SendDataPacketOK ==
  ASSUME NEW s, SenderOK(s), NEW seq \in SegmentNos,
         seq \in SentList(s.buf) \/ seq = s.buf.nextByteSeq
  PROVE  /\ SenderOK(SendDataPacket(s, seq))
         /\ OnlySends(s, SendDataPacket(s, seq))
<1> DEFINE u == SendDataPacket(s, seq)
           b == CopyFromSequence(s.buf, seq)
           timer == IF s.retxEvent = Off THEN s.rto ELSE s.retxEvent
           out == Append(s.out, seq)
<1>1. s \in Socket /\ Scoreboard(s.buf)
  BY DEF SocketOK, SenderOK
<1>2. Scoreboard(b)
  BY <1>1, CopyFromSequenceConsistent
<1>3. /\ s.buf.nextByteSeq \in Int /\ s.buf.firstByteSeq \in Int
      /\ b.nextByteSeq \in Int
  BY <1>1, <1>2, ScoreboardBounds
<1>4. /\ b.firstByteSeq = s.buf.firstByteSeq
      /\ b.nextByteSeq >= s.buf.nextByteSeq
      /\ b.sacked = s.buf.sacked
      /\ seq < b.nextByteSeq
  <2>1. s.buf \in TxBuffer
    BY <1>1 DEF Scoreboard
  <2>2. CASE seq \in SentList(s.buf)
    <3>1. /\ b.firstByteSeq = s.buf.firstByteSeq
          /\ b.nextByteSeq = s.buf.nextByteSeq
          /\ b.sacked = s.buf.sacked
      BY <2>1, <2>2 DEF CopyFromSequence, TxBuffer
    <3> QED  BY <1>3, <2>2, <3>1 DEF SentList
  <2>3. CASE seq \notin SentList(s.buf)
    <3>1. b = [s.buf EXCEPT !.nextByteSeq = seq + 1] /\ seq = s.buf.nextByteSeq
      BY <2>3 DEF CopyFromSequence
    <3>2. /\ b.firstByteSeq = s.buf.firstByteSeq
          /\ b.nextByteSeq = seq + 1
          /\ b.sacked = s.buf.sacked
      BY <2>1, <3>1 DEF TxBuffer
    <3> QED  BY <1>3, <3>1, <3>2
  <2> QED  BY <2>2, <2>3
<1>5. timer \in Off..MaxRto
  BY <1>1 DEF Socket, Off, MinRto, MaxRto
<1>6. out \in Seq(SegmentNos) /\ Len(out) = Len(s.out) + 1
  BY <1>1, AppendProperties DEF Socket
<1>7. \A k \in 1..Len(out) : out[k] < b.nextByteSeq
  <2> SUFFICES ASSUME NEW k \in 1..Len(out) PROVE out[k] < b.nextByteSeq
    OBVIOUS
  <2>1. s.out \in Seq(SegmentNos) /\ Len(s.out) \in Nat
    BY <1>1, LenProperties DEF Socket
  <2>2. CASE k = Len(s.out) + 1
    <3>1. out[k] = seq
      BY <2>1, <2>2, AppendProperties
    <3> QED  BY <1>4, <3>1
  <2>3. CASE k # Len(s.out) + 1
    <3>1. k \in 1..Len(s.out)
      BY <1>6, <2>1, <2>3
    <3>2. out[k] = s.out[k]
      BY <2>1, <3>1, AppendProperties
    <3>3. s.out[k] < s.buf.nextByteSeq
      BY <3>1 DEF SocketOK, SenderOK
    <3>4. s.out[k] \in Int
      BY <2>1, <3>1, ElementOfSeq, BufferAssumption DEF SegmentNos
    <3> HIDE DEF b, out
    <3> QED  BY <1>3, <1>4, <3>2, <3>3, <3>4
  <2> QED  BY <2>2, <2>3
<1>8. u = [s EXCEPT !.buf = b, !.retxEvent = timer, !.out = out]
  BY DEF SendDataPacket
<1>9. b \in TxBuffer
  BY <1>2 DEF Scoreboard
<1> HIDE DEF u, b, timer, out
<1>10. /\ u \in Socket
       /\ u.buf = b /\ u.out = out
       /\ u.recover = s.recover /\ u.recoverActive = s.recoverActive
       /\ u.congState = s.congState /\ u.dupAckCount = s.dupAckCount
       /\ u.connected = s.connected
  BY <1>1, <1>5, <1>6, <1>8, <1>9 DEF Socket
<1>11. s.recover \in Int /\ u.recover <= u.buf.nextByteSeq
  <2>1. s.recover \in Int /\ s.recover <= s.buf.nextByteSeq
    BY <1>1, BufferAssumption DEF Socket, SocketOK, SenderOK
  <2> QED  BY <1>3, <1>4, <1>10, <2>1
<1>12. SenderOK(u)
  BY <1>2, <1>7, <1>10, <1>11 DEF SocketOK, SenderOK
<1>13. OnlySends(s, u)
  BY <1>4, <1>10 DEF OnlySends
<1> QED  BY <1>12, <1>13 DEF u

\* A round of SendPendingData.
LEMMA SendNextOK ==
  ASSUME NEW s, SenderOK(s), NEW window
  PROVE  /\ SenderOK(SendNext(s, window))
         /\ OnlySends(s, SendNext(s, window))
<1> DEFINE next == NextSeg(s.buf, s.congState = "RECOVERY")
<1>1. Scoreboard(s.buf) /\ (s.congState = "RECOVERY") \in BOOLEAN
  BY DEF SocketOK, SenderOK
<1>2. \/ next = None
      \/ next \in SegmentNos /\ (next \in SentList(s.buf) \/ next = s.buf.nextByteSeq)
  BY <1>1, NextSegMaySend
<1>3. OnlySends(s, s)
  BY <1>1, ScoreboardBounds DEF OnlySends
<1>4. SendNext(s, window) = s \/ (next # None /\ SendNext(s, window) = SendDataPacket(s, next))
  BY DEF SendNext
<1> HIDE DEF next
<1> QED  BY <1>2, <1>3, <1>4, SendDataPacketOK

\* The states after each round of SendPendingData.
Rounds(s, window) ==
  LET r[n \in 0..window] == IF n = 0 THEN s ELSE SendNext(r[n - 1], window)
  IN  r

Round(s, window, r, n) == IF n = 0 THEN s ELSE SendNext(r[n - 1], window)

\* There is a function with the recursion of the loop.
LEMMA RoundsExist ==
  ASSUME NEW s, NEW window \in Nat
  PROVE  \A n \in 0..window :
           Rounds(s, window)[n] = Round(s, window, Rounds(s, window), n)
<1> DEFINE Upto(r, n) == \A k \in 0..n : r[k] = Round(s, window, r, k)
           N == {n \in Nat : \E r : Upto(r, n)}
<1>1. 0 \in N
  <2> DEFINE r == [k \in Nat |-> s]
  <2>1. Upto(r, 0)
    BY DEF Round
  <2> HIDE DEF r
  <2> QED  BY <2>1
<1>2. ASSUME NEW n \in N PROVE n + 1 \in N
  <2>1. PICK r : Upto(r, n)
    OBVIOUS
  <2> DEFINE q == [k \in Nat |-> IF k <= n THEN r[k] ELSE SendNext(r[n], window)]
  <2>2. n \in Nat
    OBVIOUS
  <2>3. ASSUME NEW k \in 0..(n + 1) PROVE q[k] = Round(s, window, q, k)
    <3>1. CASE k = 0
      BY <2>1, <2>2, <3>1 DEF Round
    <3>2. CASE k \in 1..n
      <4>1. k - 1 \in Nat /\ k - 1 <= n /\ k \in Nat /\ k # 0
        BY <2>2, <3>2
      <4>2. q[k - 1] = r[k - 1] /\ q[k] = r[k]
        BY <2>2, <3>2, <4>1
      <4>3. r[k] = SendNext(r[k - 1], window)
        BY <2>1, <2>2, <3>2, <4>1 DEF Round
      <4> HIDE DEF q
      <4> QED  BY <4>1, <4>2, <4>3 DEF Round
    <3>3. CASE k = n + 1
      <4>1. q[k] = SendNext(r[n], window) /\ q[n] = r[n] /\ k - 1 = n /\ k # 0
        BY <2>2, <3>3
      <4> HIDE DEF q
      <4> QED  BY <4>1 DEF Round
    <3> QED  BY <2>2, <3>1, <3>2, <3>3
  <2> HIDE DEF q
  <2> QED  BY <2>2, <2>3
<1>3. N = Nat
  <2> HIDE DEF N
  <2>1. N \in SUBSET Nat
    BY DEF N
  <2> QED  BY <1>1, <1>2, <2>1, NaturalsAreGood
<1>4. PICK r : Upto(r, window)
  <2> HIDE DEF Upto
  <2>1. window \in N
    BY <1>3
  <2> QED  BY <2>1
<1> DEFINE g == [k \in 0..window |-> r[k]]
<1>5. ASSUME NEW k \in 0..window PROVE g[k] = Round(s, window, g, k)
  <2>1. k = 0 \/ k - 1 \in 0..window
    BY <1>5
  <2>2. g[k] = r[k] /\ (k # 0 => g[k - 1] = r[k - 1])
    BY <2>1
  <2>3. r[k] = Round(s, window, r, k)
    BY <1>4
  <2> HIDE DEF g
  <2> QED  BY <2>2, <2>3 DEF Round
<1>6. g = [k \in 0..window |-> Round(s, window, g, k)]
  <2>1. g = [k \in 0..window |-> g[k]]
    OBVIOUS
  <2> HIDE DEF g
  <2> QED  BY <1>5, <2>1
<1>7. Rounds(s, window) = [k \in 0..window |-> Round(s, window, Rounds(s, window), k)]
  <2> HIDE DEF g
  <2> QED  BY <1>6, Zenon DEF Rounds, Round
<1> HIDE DEF Upto
<1> QED  BY <1>7

\* SendPendingData: the loop as a whole.
LEMMA SendPendingDataOK ==
  ASSUME NEW s, SenderOK(s), NEW window \in Nat
  PROVE  /\ SenderOK(SendPendingData(s, window))
         /\ OnlySends(s, SendPendingData(s, window))
<1> DEFINE r == Rounds(s, window)
           Good(t) == SenderOK(t) /\ OnlySends(s, t)
           N == {n \in Nat : n <= window => Good(r[n])}
<1>1. \A n \in 0..window : r[n] = Round(s, window, r, n)
  BY RoundsExist
<1> HIDE DEF r
<1>2. 0 \in N
  <2>1. 0 \in 0..window /\ r[0] = s
    BY <1>1 DEF Round
  <2>2. OnlySends(s, s)
    BY ScoreboardBounds DEF SocketOK, SenderOK, OnlySends
  <2> QED  BY <2>1, <2>2
<1>3. ASSUME NEW n \in N PROVE n + 1 \in N
  <2>1. n \in Nat
    OBVIOUS
  <2>2. CASE n + 1 <= window
    <3>1. n <= window /\ n + 1 \in 0..window /\ n + 1 # 0 /\ (n + 1) - 1 = n
      BY <2>1, <2>2
    <3>2. r[n + 1] = SendNext(r[n], window)
      BY <1>1, <3>1 DEF Round
    <3>3. Good(r[n])
      BY <3>1
    <3>4. /\ SenderOK(SendNext(r[n], window))
          /\ OnlySends(r[n], SendNext(r[n], window))
      BY <3>3, SendNextOK
    <3>5. Good(SendNext(r[n], window))
      BY <3>3, <3>4, OnlySendsTransitive
    <3> HIDE DEF Good
    <3> QED  BY <2>1, <3>2, <3>5
  <2> HIDE DEF Good
  <2> QED  BY <2>1, <2>2
<1>4. N = Nat
  <2> HIDE DEF N
  <2>1. N \in SUBSET Nat
    BY DEF N
  <2> QED  BY <1>2, <1>3, <2>1, NaturalsAreGood
<1>5. Good(r[window])
  <2> HIDE DEF Good
  <2> QED  BY <1>4
<1>6. SendPendingData(s, window) = r[window]
  BY DEF SendPendingData, r, Rounds
<1> QED  BY <1>5, <1>6

\* DoRetransmit, when something is outstanding.
LEMMA DoRetransmitOK ==
  ASSUME NEW s, SenderOK(s), s.buf.firstByteSeq < s.buf.nextByteSeq
  PROVE  /\ SenderOK(DoRetransmit(s))
         /\ OnlySends(s, DoRetransmit(s))
<1> DEFINE next == NextSeg(s.buf, FALSE)
           seq == IF next = None THEN s.buf.firstByteSeq ELSE next
<1>1. Scoreboard(s.buf)
  BY DEF SocketOK, SenderOK
<1>2. \/ next = None
      \/ next \in SegmentNos /\ (next \in SentList(s.buf) \/ next = s.buf.nextByteSeq)
  BY <1>1, NextSegMaySend
<1>3. s.buf.firstByteSeq \in SentList(s.buf) /\ SentList(s.buf) \subseteq SegmentNos
  BY <1>1, ScoreboardBounds, BufferAssumption DEF SentList
<1>4. DoRetransmit(s) = SendDataPacket(s, seq)
  BY DEF DoRetransmit
<1>5. seq \in SegmentNos /\ (seq \in SentList(s.buf) \/ seq = s.buf.nextByteSeq)
  BY <1>2, <1>3
<1> HIDE DEF seq
<1> QED  BY <1>4, <1>5, SendDataPacketOK

\* EnterRecovery, likewise.
LEMMA EnterRecoveryOK ==
  ASSUME NEW s, SocketOK(s), s.buf.firstByteSeq < s.buf.nextByteSeq
  PROVE  /\ SenderOK(EnterRecovery(s))
         /\ OnlySends(s, EnterRecovery(s))
         /\ EnterRecovery(s).congState = "RECOVERY"
         /\ EnterRecovery(s).recover >= s.buf.nextByteSeq
<1> DEFINE head == s.buf.firstByteSeq
           b == IF IsLost(s.buf, head) THEN s.buf ELSE MarkHeadAsLost(s.buf)
           t == [s EXCEPT !.buf = b, !.recover = s.buf.nextByteSeq,
                          !.recoverActive = TRUE, !.congState = "RECOVERY"]
<1>1. Scoreboard(s.buf) /\ s \in Socket
  BY DEF SocketOK, SenderOK
<1>2. Scoreboard(b)
  BY <1>1, MarkHeadAsLostConsistent
<1>3. /\ b.firstByteSeq = s.buf.firstByteSeq
      /\ b.nextByteSeq = s.buf.nextByteSeq
      /\ b.sacked \subseteq s.buf.sacked
  BY <1>1 DEF MarkHeadAsLost, Scoreboard, TxBuffer
<1>4. s.buf.nextByteSeq \in 1..Segments + 1
  BY <1>1, ScoreboardBounds
<1>5. b \in TxBuffer
  BY <1>2 DEF Scoreboard
<1>6. EnterRecovery(s) = DoRetransmit(t)
  BY DEF EnterRecovery, HighTxMark
<1> HIDE DEF b
<1>7. /\ t \in Socket /\ t.buf = b /\ t.out = s.out
      /\ t.recover = s.buf.nextByteSeq /\ t.recoverActive = TRUE
      /\ t.congState = "RECOVERY" /\ t.dupAckCount = s.dupAckCount
      /\ t.connected = s.connected
  <2>1. s.buf.nextByteSeq \in 0..Segments + 1
    BY <1>4, BufferAssumption
  <2> QED  BY <1>1, <1>5, <2>1 DEF Socket
<1> HIDE DEF t
<1>8. SenderOK(t)
  BY <1>2, <1>3, <1>4, <1>7 DEF SocketOK, SenderOK
<1>9. OnlySends(s, t)
  BY <1>3, <1>4, <1>7 DEF OnlySends
<1>10. /\ SenderOK(DoRetransmit(t)) /\ OnlySends(t, DoRetransmit(t))
  BY <1>3, <1>7, <1>8, DoRetransmitOK
<1>11. OnlySends(s, DoRetransmit(t))
  <2>1. s.buf.nextByteSeq \in Int /\ t.buf.nextByteSeq \in Int
        /\ DoRetransmit(t).buf.nextByteSeq \in Int
    BY <1>1, <1>8, <1>10, ScoreboardBounds DEF SocketOK, SenderOK
  <2> QED  BY <1>9, <1>10, <2>1 DEF OnlySends
<1>12. /\ DoRetransmit(t).congState = t.congState
       /\ DoRetransmit(t).recover = t.recover
  BY <1>7 DEF DoRetransmit, SendDataPacket, Socket
<1> QED  BY <1>4, <1>6, <1>7, <1>10, <1>11, <1>12

\* NewAck leaves the scoreboard and the congestion state alone.
LEMMA NewAckOK ==
  ASSUME NEW s, SenderOK(s), NEW resetRTO \in BOOLEAN
  PROVE  /\ SenderOK(NewAck(s, resetRTO))
         /\ OnlySends(s, NewAck(s, resetRTO))
<1> DEFINE rto == IF resetRTO THEN MinRto ELSE s.rto
           timer == CASE IsEmpty(s.buf) -> Off
                      [] ~IsEmpty(s.buf) /\ resetRTO -> MinRto
                      [] OTHER -> s.retxEvent
           u == [s EXCEPT !.dataRetrCount = DataRetries,
                          !.rto = rto, !.retxEvent = timer]
<1>1. s \in Socket /\ Scoreboard(s.buf)
  BY DEF SocketOK, SenderOK
<1>2. rto \in MinRto..MaxRto
  BY <1>1 DEF Socket, MinRto, MaxRto
<1>3. timer \in Off..MaxRto
  <2>1. s.retxEvent \in Off..MaxRto
    BY <1>1 DEF Socket
  <2>2. Off \in Off..MaxRto /\ MinRto \in Off..MaxRto
    BY DEF Off, MinRto, MaxRto
  <2>3. timer \in {Off, MinRto, s.retxEvent}
    <3> HIDE DEF rto
    <3>1. CASE IsEmpty(s.buf)
      BY <3>1
    <3>2. CASE ~IsEmpty(s.buf) /\ resetRTO
      BY <3>2
    <3>3. CASE ~IsEmpty(s.buf) /\ ~resetRTO
      BY <3>3
    <3> QED  BY <3>1, <3>2, <3>3
  <2> QED  BY <2>1, <2>2, <2>3
<1>4. DataRetries \in 0..DataRetries
  BY SenderAssumption
<1>5. NewAck(s, resetRTO) = u
  BY DEF NewAck
<1> HIDE DEF rto, timer
<1>6. /\ u \in Socket /\ u.buf = s.buf /\ u.out = s.out
      /\ u.recover = s.recover /\ u.recoverActive = s.recoverActive
      /\ u.congState = s.congState /\ u.dupAckCount = s.dupAckCount
      /\ u.connected = s.connected
  BY <1>1, <1>2, <1>3, <1>4 DEF Socket
<1> HIDE DEF u
<1>7. SenderOK(u)
  BY <1>6 DEF SocketOK, SenderOK
<1>8. OnlySends(s, u)
  BY <1>1, <1>6, ScoreboardBounds DEF OnlySends
<1> QED  BY <1>5, <1>7, <1>8

\* PartialAck, when something is outstanding.
LEMMA PartialAckOK ==
  ASSUME NEW s, SenderOK(s), s.buf.firstByteSeq < s.buf.nextByteSeq, NEW ack
  PROVE  /\ SenderOK(PartialAck(s, ack))
         /\ OnlySends(s, PartialAck(s, ack))
<1> DEFINE t == IF IsRetransmittedDataAcked(s.buf, ack + 1) THEN s ELSE DoRetransmit(s)
           n == NewAck(t, s.isFirstPartialAck)
           u == [n EXCEPT !.isFirstPartialAck = FALSE]
<1>1. SenderOK(t) /\ OnlySends(s, t)
  <2>1. OnlySends(s, s)
    BY ScoreboardBounds DEF SocketOK, SenderOK, OnlySends
  <2> QED  BY <2>1, DoRetransmitOK
<1>2. s.isFirstPartialAck \in BOOLEAN
  BY DEF SocketOK, SenderOK, Socket
<1>3. PartialAck(s, ack) = u
  BY DEF PartialAck
<1> HIDE DEF t
<1>4. SenderOK(n) /\ OnlySends(t, n)
  BY <1>1, <1>2, NewAckOK
<1> HIDE DEF n
<1>5. /\ u \in Socket /\ u.buf = n.buf /\ u.out = n.out
      /\ u.recover = n.recover /\ u.recoverActive = n.recoverActive
      /\ u.congState = n.congState /\ u.dupAckCount = n.dupAckCount
      /\ u.connected = n.connected
  <2>1. n \in Socket
    BY <1>4 DEF SocketOK, SenderOK
  <2> QED  BY <2>1 DEF Socket
<1> HIDE DEF u
<1>6. SenderOK(u)
  BY <1>4, <1>5 DEF SocketOK, SenderOK
<1>7. OnlySends(s, n)
  BY <1>1, <1>4, OnlySendsTransitive
<1>8. OnlySends(s, u)
  BY <1>5, <1>7 DEF OnlySends
<1> QED  BY <1>3, <1>6, <1>8

\* FullAck: what was in recovery is no more, and the count of duplicate
\* acknowledgements does not outlive the disorder.
LEMMA FullAckOK ==
  ASSUME NEW s, SenderOK(s), NEW ack \in Nat, NEW isDupack \in BOOLEAN,
         ~isDupack => s.dupAckCount = 0,
         s.congState \in {"RECOVERY", "LOSS"} => ~(ack < s.recover)
  PROVE  /\ SenderOK(FullAck(s, ack, isDupack))
         /\ OnlySends(s, FullAck(s, ack, isDupack))
<1> DEFINE stays == s.congState = "DISORDER" /\ isDupack
           state == IF stays THEN s.congState ELSE "OPEN"
           dup == IF s.congState = "RECOVERY" THEN 0 ELSE s.dupAckCount
           first == s.isFirstPartialAck \/ s.congState \in {"RECOVERY", "LOSS"}
           active == s.recoverActive /\ ack < s.recover
           u == [s EXCEPT !.congState = state, !.dupAckCount = dup,
                          !.isFirstPartialAck = first, !.recoverActive = active]
<1>1. s \in Socket /\ Scoreboard(s.buf)
  BY DEF SocketOK, SenderOK
<1>2. s.congState \in {"OPEN", "DISORDER", "RECOVERY", "LOSS"} /\ s.dupAckCount \in Nat
  BY <1>1 DEF Socket
<1>3. ~active
  BY DEF SocketOK, SenderOK
<1>4. state \in {"OPEN", "DISORDER"}
  OBVIOUS
<1>5. dup \in Nat
  BY <1>2
<1>6. state = "OPEN" => dup = 0
  <2>1. CASE s.congState = "RECOVERY"
    BY <2>1
  <2>2. CASE s.congState \in {"OPEN", "LOSS"}
    <3>1. s.dupAckCount = 0
      BY <2>2 DEF SocketOK, SenderOK
    <3> QED  BY <3>1
  <2>3. CASE s.congState = "DISORDER"
    BY <2>3
  <2> QED  BY <1>2, <2>1, <2>2, <2>3
<1>7. state = "DISORDER" => dup = s.dupAckCount /\ s.congState = "DISORDER"
  OBVIOUS
<1>8. first \in BOOLEAN /\ active = FALSE
  BY <1>1, <1>3 DEF Socket
<1>9. FullAck(s, ack, isDupack) = IF stays THEN u ELSE NewAck(u, TRUE)
  BY DEF FullAck
<1> HIDE DEF state, dup, first, active, stays
<1>10. /\ u \in Socket /\ u.buf = s.buf /\ u.out = s.out
       /\ u.recover = s.recover /\ u.recoverActive = FALSE
       /\ u.congState = state /\ u.dupAckCount = dup
       /\ u.connected = s.connected
  BY <1>1, <1>4, <1>5, <1>8 DEF Socket
<1> HIDE DEF u
<1>11. SenderOK(u)
  <2>1. u.congState \in {"OPEN", "LOSS"} => u.dupAckCount = 0
    BY <1>4, <1>6, <1>10
  <2>2. u.congState = "DISORDER" => u.dupAckCount < DupThresh
    BY <1>7, <1>10 DEF SocketOK, SenderOK
  <2> QED  BY <1>10, <2>1, <2>2 DEF SocketOK, SenderOK
<1>12. OnlySends(s, u)
  BY <1>1, <1>10, ScoreboardBounds DEF OnlySends
<1>13. /\ SenderOK(NewAck(u, TRUE)) /\ OnlySends(u, NewAck(u, TRUE))
  BY <1>11, NewAckOK
<1>14. OnlySends(s, NewAck(u, TRUE))
  BY <1>11, <1>12, <1>13, OnlySendsTransitive
<1> QED  BY <1>9, <1>11, <1>12, <1>13, <1>14

\* ProcessAck, of an acknowledgement of new data.
LEMMA AckNewDataOK ==
  ASSUME NEW s, SenderOK(s), NEW ack, ack = s.buf.firstByteSeq,
         NEW isDupack \in BOOLEAN
  PROVE  /\ SenderOK(AckNewData(s, ack, isDupack))
         /\ OnlySends(s, AckNewData(s, ack, isDupack))
<1> DEFINE dup == IF isDupack THEN s.dupAckCount ELSE 0
           t == [s EXCEPT !.dupAckCount = dup]
           u == AckNewData(s, ack, isDupack)
<1>1. s \in Socket /\ Scoreboard(s.buf)
  BY DEF SocketOK, SenderOK
<1>2. dup \in Nat
  BY <1>1 DEF Socket
<1>3. ~isDupack => dup = 0
  OBVIOUS
<1>4. dup = s.dupAckCount \/ dup = 0
  OBVIOUS
<1>5. u = CASE ack < t.recover /\ t.congState = "RECOVERY" -> PartialAck(t, ack)
            [] ack < t.recover /\ t.congState = "LOSS"     -> NewAck(t, TRUE)
            [] OTHER                                       -> FullAck(t, ack, isDupack)
  BY DEF AckNewData
<1> HIDE DEF dup
<1>6. /\ t \in Socket /\ t.buf = s.buf /\ t.out = s.out
      /\ t.recover = s.recover /\ t.recoverActive = s.recoverActive
      /\ t.congState = s.congState /\ t.dupAckCount = dup
      /\ t.connected = s.connected
  BY <1>1, <1>2 DEF Socket
<1> HIDE DEF t, u
<1>7. SenderOK(t)
  <2>1. DupThresh \in Nat /\ 0 < DupThresh
    BY BufferAssumption
  <2> QED  BY <1>4, <1>6, <2>1 DEF SocketOK, SenderOK
<1>8. OnlySends(s, t)
  BY <1>1, <1>6, ScoreboardBounds DEF OnlySends
<1>9. /\ ack \in Nat /\ t.recover \in Int /\ s.buf.nextByteSeq \in Int
      /\ t.recover <= s.buf.nextByteSeq
  BY <1>1, <1>6, ScoreboardBounds, BufferAssumption DEF SocketOK, SenderOK, Socket
<1>10. SenderOK(u) /\ OnlySends(t, u)
  <2>1. CASE ack < t.recover /\ t.congState = "RECOVERY"
    <3>1. u = PartialAck(t, ack)
      BY <1>5, <2>1
    <3>2. t.buf.firstByteSeq < t.buf.nextByteSeq
      BY <1>6, <1>9, <2>1
    <3> QED  BY <1>7, <3>1, <3>2, PartialAckOK
  <2>2. CASE ack < t.recover /\ t.congState = "LOSS"
    <3>1. u = NewAck(t, TRUE)
      <4>1. ~(t.congState = "RECOVERY")
        BY <2>2
      <4> QED  BY <1>5, <2>2, <4>1
    <3> QED  BY <1>7, <3>1, NewAckOK
  <2>3. CASE ~(ack < t.recover /\ t.congState \in {"RECOVERY", "LOSS"})
    <3>1. u = FullAck(t, ack, isDupack)
      BY <1>5, <2>3
    <3>2. ~isDupack => t.dupAckCount = 0
      BY <1>3, <1>6
    <3> QED  BY <1>7, <1>9, <2>3, <3>1, <3>2, FullAckOK
  <2> QED  BY <2>1, <2>2, <2>3
<1>11. OnlySends(s, u)
  BY <1>7, <1>8, <1>10, OnlySendsTransitive
<1> QED  BY <1>10, <1>11 DEF u

\* DupAck, of an acknowledgement that selectively acknowledges a new segment.
LEMMA DupAckOK ==
  ASSUME NEW s, SenderOK(s), s.buf.firstByteSeq < s.buf.nextByteSeq
  PROVE  /\ SenderOK(DupAck(s))
         /\ OnlySends(s, DupAck(s))
<1> DEFINE dup == s.dupAckCount + 1
           t == [s EXCEPT !.dupAckCount = dup, !.congState = "DISORDER"]
           u == DupAck(s)
<1>1. s \in Socket /\ Scoreboard(s.buf)
  BY DEF SocketOK, SenderOK
<1>2. s.dupAckCount \in Nat /\ dup \in Nat /\ DupThresh \in Nat \ {0}
  BY <1>1, BufferAssumption DEF Socket
<1>3. u = CASE s.congState \in {"LOSS", "RECOVERY"} -> s
            [] s.congState \in {"OPEN", "DISORDER"} /\ StartsRecovery(t)
                 -> EnterRecovery(t)
            [] OTHER -> t
  BY DEF DupAck
<1>4. OnlySends(s, s)
  BY <1>1, ScoreboardBounds DEF OnlySends
<1>5. CASE s.congState \in {"LOSS", "RECOVERY"}
  BY <1>3, <1>4, <1>5
<1>6. CASE s.congState \in {"OPEN", "DISORDER"}
  <2>1. dup <= DupThresh /\ ~s.recoverActive
    <3>1. s.dupAckCount < DupThresh
      BY <1>2, <1>6 DEF SocketOK, SenderOK
    <3>2. ~s.recoverActive
      BY <1>6 DEF SocketOK, SenderOK
    <3> QED  BY <1>2, <3>1, <3>2
  <2> HIDE DEF dup
  <2>2. /\ t \in Socket /\ t.buf = s.buf /\ t.out = s.out
        /\ t.recover = s.recover /\ t.recoverActive = s.recoverActive
        /\ t.congState = "DISORDER" /\ t.dupAckCount = dup
        /\ t.connected = s.connected
    BY <1>1, <1>2 DEF Socket
  <2> HIDE DEF t, u
  <2>3. OnlySends(s, t)
    BY <1>1, <2>2, ScoreboardBounds DEF OnlySends
  <2>4. CASE StartsRecovery(t)
    <3>1. u = EnterRecovery(t)
      <4>1. ~(s.congState \in {"LOSS", "RECOVERY"})
        BY <1>6
      <4> QED  BY <1>3, <1>6, <2>4, <4>1
    <3>2. SocketOK(t)
      BY <1>1, <2>2 DEF SocketOK, SenderOK
    <3>3. SenderOK(u) /\ OnlySends(t, u)
      BY <2>2, <3>1, <3>2, EnterRecoveryOK
    <3>4. s.buf.nextByteSeq \in Int /\ u.buf.nextByteSeq \in Int
      BY <1>1, <3>3, ScoreboardBounds DEF SocketOK, SenderOK
    <3>5. OnlySends(s, u)
      BY <2>2, <3>3 DEF OnlySends
    <3> QED  BY <3>3, <3>5 DEF u
  <2>5. CASE ~StartsRecovery(t)
    <3>1. u = t
      <4>1. ~(s.congState \in {"LOSS", "RECOVERY"})
        BY <1>6
      <4> QED  BY <1>3, <2>5, <4>1
    <3>2. dup # DupThresh
      BY <2>1, <2>2, <2>5 DEF StartsRecovery
    <3>3. dup < DupThresh
      BY <1>2, <2>1, <3>2
    <3>4. SenderOK(t)
      BY <2>1, <2>2, <3>3 DEF SocketOK, SenderOK
    <3> QED  BY <2>3, <3>1, <3>4 DEF u
  <2> QED  BY <2>4, <2>5
<1>7. s.congState \in {"OPEN", "DISORDER", "RECOVERY", "LOSS"}
  BY <1>1 DEF Socket
<1> QED  BY <1>5, <1>6, <1>7 DEF u

\* ProcessAck
LEMMA ProcessAckOK ==
  ASSUME NEW s, SenderOK(s), NEW ack, ack = s.buf.firstByteSeq,
         NEW oldHead, NEW isDupack \in BOOLEAN,
         isDupack => s.buf.firstByteSeq < s.buf.nextByteSeq
  PROVE  /\ SenderOK(ProcessAck(s, ack, oldHead, isDupack))
         /\ OnlySends(s, ProcessAck(s, ack, oldHead, isDupack))
<1> DEFINE t == IF isDupack THEN DupAck(s) ELSE s
           u == IF ack > oldHead THEN AckNewData(t, ack, isDupack) ELSE t
<1>1. SenderOK(t) /\ OnlySends(s, t)
  <2>1. OnlySends(s, s)
    BY ScoreboardBounds DEF SocketOK, SenderOK, OnlySends
  <2> QED  BY <2>1, DupAckOK
<1>2. ProcessAck(s, ack, oldHead, isDupack) = u
  BY DEF ProcessAck
<1> HIDE DEF t
<1>3. ack = t.buf.firstByteSeq
  BY <1>1 DEF OnlySends
<1>4. /\ SenderOK(AckNewData(t, ack, isDupack))
      /\ OnlySends(t, AckNewData(t, ack, isDupack))
  BY <1>1, <1>3, AckNewDataOK
<1>5. OnlySends(s, AckNewData(t, ack, isDupack))
  BY <1>1, <1>4, OnlySendsTransitive
<1> QED  BY <1>1, <1>2, <1>4, <1>5

-------------------------------------------------------------------------------
\* (3) The timer does not run once everything is acknowledged.
TimerOK(s) == IsEmpty(s.buf) => s.retxEvent = Off

\* As long as something is not acknowledged, there is nothing to prove.
LEMMA TimerWhileData ==
  ASSUME NEW s, ~IsEmpty(s.buf), NEW u, OnlySends(s, u)
  PROVE  TimerOK(u)
  BY DEF TimerOK, IsEmpty, OnlySends

\* With everything acknowledged, all that is there has been sent.
LEMMA EmptyHasNothing ==
  ASSUME NEW t, Scoreboard(t), IsEmpty(t)
  PROVE  /\ t.firstByteSeq = Segments + 1
         /\ t.nextByteSeq = Segments + 1
         /\ SentList(t) = {}
<1>1. /\ t.firstByteSeq \in 1..Segments + 1 /\ t.nextByteSeq \in 1..Segments + 1
      /\ t.firstByteSeq <= t.nextByteSeq /\ Segments \in Nat
      /\ SentList(t) \subseteq SegmentNos
  BY ScoreboardBounds, BufferAssumption
<1>2. t.firstByteSeq = Segments + 1 /\ t.nextByteSeq = Segments + 1
  BY <1>1 DEF IsEmpty
<1>3. SentList(t) = {}
  BY <1>1, <1>2 DEF SentList
<1> QED  BY <1>2, <1>3

\* Sending starts the timer only for data.
LEMMA SendNextTimer ==
  ASSUME NEW s, SenderOK(s), TimerOK(s), NEW window
  PROVE  TimerOK(SendNext(s, window))
<1>1. CASE ~IsEmpty(s.buf)
  BY <1>1, SendNextOK, TimerWhileData
<1>2. CASE IsEmpty(s.buf)
  <2> DEFINE next == NextSeg(s.buf, s.congState = "RECOVERY")
  <2>1. Scoreboard(s.buf) /\ (s.congState = "RECOVERY") \in BOOLEAN
    BY DEF SocketOK, SenderOK
  <2>2. \/ next = None
        \/ next \in SegmentNos /\ (next \in SentList(s.buf) \/ next = s.buf.nextByteSeq)
    BY <2>1, NextSegMaySend
  <2>3. s.buf.nextByteSeq \notin SegmentNos /\ SentList(s.buf) = {}
    <3>1. Segments \in Nat /\ s.buf.nextByteSeq = Segments + 1
      BY <1>2, <2>1, EmptyHasNothing, BufferAssumption
    <3> QED  BY <1>2, <2>1, <3>1, EmptyHasNothing DEF SegmentNos
  <2>4. next = None
    BY <2>2, <2>3
  <2>5. SendNext(s, window) = s
    BY <2>4 DEF SendNext
  <2> QED  BY <2>5
<1> QED  BY <1>1, <1>2

\* The whole loop.
LEMMA SendPendingDataTimer ==
  ASSUME NEW s, SenderOK(s), TimerOK(s), NEW window \in Nat
  PROVE  TimerOK(SendPendingData(s, window))
<1> DEFINE r == Rounds(s, window)
           Good(t) == SenderOK(t) /\ TimerOK(t)
           N == {n \in Nat : n <= window => Good(r[n])}
<1>1. \A n \in 0..window : r[n] = Round(s, window, r, n)
  BY RoundsExist
<1> HIDE DEF r
<1>2. 0 \in N
  <2>1. 0 \in 0..window /\ r[0] = s
    BY <1>1 DEF Round
  <2> QED  BY <2>1
<1>3. ASSUME NEW n \in N PROVE n + 1 \in N
  <2>1. n \in Nat
    OBVIOUS
  <2>2. CASE n + 1 <= window
    <3>1. n <= window /\ n + 1 \in 0..window /\ n + 1 # 0 /\ (n + 1) - 1 = n
      BY <2>1, <2>2
    <3>2. r[n + 1] = SendNext(r[n], window)
      BY <1>1, <3>1 DEF Round
    <3>3. Good(r[n])
      BY <3>1
    <3>4. Good(SendNext(r[n], window))
      BY <3>3, SendNextOK, SendNextTimer
    <3> HIDE DEF Good
    <3> QED  BY <2>1, <3>2, <3>4
  <2> HIDE DEF Good
  <2> QED  BY <2>1, <2>2
<1>4. N = Nat
  <2> HIDE DEF N
  <2>1. N \in SUBSET Nat
    BY DEF N
  <2> QED  BY <1>2, <1>3, <2>1, NaturalsAreGood
<1>5. Good(r[window])
  <2> HIDE DEF Good
  <2> QED  BY <1>4
<1>6. SendPendingData(s, window) = r[window]
  BY DEF SendPendingData, r, Rounds
<1> QED  BY <1>5, <1>6

\* The acknowledgement of everything stops the timer.
LEMMA AckNewDataTimer ==
  ASSUME NEW s, SenderOK(s), NEW ack, ack = s.buf.firstByteSeq,
         NEW isDupack \in BOOLEAN,
         isDupack => s.buf.firstByteSeq < s.buf.nextByteSeq
  PROVE  TimerOK(AckNewData(s, ack, isDupack))
<1>1. s \in Socket /\ Scoreboard(s.buf)
  BY DEF SocketOK, SenderOK
<1>2. CASE ~IsEmpty(s.buf)
  BY <1>2, AckNewDataOK, TimerWhileData
<1>3. CASE IsEmpty(s.buf)
  <2>1. /\ s.buf.firstByteSeq = Segments + 1 /\ s.buf.nextByteSeq = Segments + 1
        /\ Segments \in Nat
    BY <1>1, <1>3, EmptyHasNothing, BufferAssumption
  <2>2. isDupack = FALSE
    BY <2>1
  <2> DEFINE t == [s EXCEPT !.dupAckCount = 0]
             dup == IF t.congState = "RECOVERY" THEN 0 ELSE t.dupAckCount
             first == t.isFirstPartialAck \/ t.congState \in {"RECOVERY", "LOSS"}
             active == t.recoverActive /\ ack < t.recover
             v == [t EXCEPT !.congState = "OPEN", !.dupAckCount = dup,
                            !.isFirstPartialAck = first, !.recoverActive = active]
  <2>3. t \in Socket /\ t.buf = s.buf /\ t.recover = s.recover
    BY <1>1 DEF Socket
  <2>4. ~(ack < t.recover)
    <3>1. s.recover \in Int /\ s.recover <= s.buf.nextByteSeq
      BY <1>1, BufferAssumption DEF SocketOK, SenderOK, Socket
    <3> HIDE DEF t
    <3> QED  BY <2>1, <2>3, <3>1
  <2>5. AckNewData(s, ack, isDupack) = FullAck(t, ack, FALSE)
    BY <2>2, <2>4 DEF AckNewData
  <2>6. FullAck(t, ack, FALSE) = NewAck(v, TRUE)
    <3> HIDE DEF t
    <3> QED  BY DEF FullAck
  <2> HIDE DEF t
  <2>7. dup \in Nat /\ first \in BOOLEAN /\ active \in BOOLEAN
    BY <2>3 DEF Socket
  <2> HIDE DEF dup, first, active
  <2>8. v \in Socket /\ v.buf = s.buf
    BY <2>3, <2>7 DEF Socket
  <2> HIDE DEF v
  <2>9. NewAck(v, TRUE).retxEvent = Off
    BY <1>3, <2>8 DEF NewAck, Socket
  <2> QED  BY <2>5, <2>6, <2>9 DEF TimerOK
<1> QED  BY <1>2, <1>3

\* ProcessAck
LEMMA ProcessAckTimer ==
  ASSUME NEW s, SenderOK(s), NEW ack, ack = s.buf.firstByteSeq,
         NEW oldHead, NEW isDupack \in BOOLEAN,
         isDupack => s.buf.firstByteSeq < s.buf.nextByteSeq,
         ack > oldHead \/ TimerOK(s)
  PROVE  TimerOK(ProcessAck(s, ack, oldHead, isDupack))
<1>1. CASE ~IsEmpty(s.buf)
  BY <1>1, ProcessAckOK, TimerWhileData
<1>2. CASE IsEmpty(s.buf)
  <2>1. s.buf.firstByteSeq = s.buf.nextByteSeq /\ s.buf.nextByteSeq \in Int
    BY <1>2, EmptyHasNothing, BufferAssumption DEF SocketOK, SenderOK
  <2>2. isDupack = FALSE
    BY <2>1
  <2>3. ProcessAck(s, ack, oldHead, isDupack)
          = IF ack > oldHead THEN AckNewData(s, ack, isDupack) ELSE s
    BY <2>2 DEF ProcessAck
  <2> QED  BY <2>2, <2>3, AckNewDataTimer
<1> QED  BY <1>1, <1>2

\* ReceivedAck, of an acknowledgement that the scoreboard can rely on.
LEMMA ReceivedAckOK ==
  ASSUME NEW s, SenderOK(s), NEW ack \in 1..Segments + 1,
         s.buf.firstByteSeq <= ack, ack <= s.buf.nextByteSeq,
         ack \notin s.buf.sacked,
         NEW blocks \in SUBSET SegmentNos, \A i \in blocks : i > ack,
         NEW window \in Nat
  PROVE  LET u == ReceivedAck(s, ack, blocks, window) IN
         /\ SenderOK(u)
         /\ u.buf.firstByteSeq = ack
         /\ u.buf.nextByteSeq >= s.buf.nextByteSeq
         /\ u.buf.sacked \subseteq s.buf.sacked \cup blocks
         /\ u.connected = s.connected
         /\ TimerOK(s) => TimerOK(u)
<1> DEFINE v == Update(s.buf, blocks)
           b == DiscardUpTo(v, ack)
           mark == IF ack > s.highRxAckMark THEN ack ELSE s.highRxAckMark
           t == [s EXCEPT !.highRxAckMark = mark, !.buf = b]
           new == NewlySacked(s.buf, blocks) # {}
           old == s.buf.firstByteSeq
           p == ProcessAck(t, ack, old, new)
           u == SendPendingData(p, window)
<1>1. s \in Socket /\ Scoreboard(s.buf)
  BY DEF SocketOK, SenderOK
<1>2. /\ old \in 1..Segments + 1 /\ s.buf.nextByteSeq \in 1..Segments + 1
      /\ ack \in 1..Segments + 1 /\ Segments \in Nat /\ DupThresh \in Nat
  BY <1>1, ScoreboardBounds, BufferAssumption
<1>3. old \notin blocks
  BY <1>2 DEF SegmentNos
<1>4. Scoreboard(v)
  BY <1>1, <1>3, UpdateConsistent
<1>5. /\ v.firstByteSeq = old /\ v.nextByteSeq = s.buf.nextByteSeq
      /\ v.sacked \subseteq s.buf.sacked \cup blocks
  BY <1>1 DEF Update, UpdateLostCount, NewlySacked, Scoreboard, TxBuffer
<1>6. ack \notin v.sacked
  BY <1>2, <1>5
<1>7. Scoreboard(b)
  BY <1>2, <1>4, <1>5, <1>6, DiscardUpToConsistent
<1>8. /\ b.firstByteSeq = ack /\ b.nextByteSeq = s.buf.nextByteSeq
      /\ b.sacked \subseteq s.buf.sacked \cup blocks
  <2> HIDE DEF v
  <2>1. v \in TxBuffer
    BY <1>4 DEF Scoreboard
  <2>2. CASE old >= ack
    <3>1. b = v /\ ack = old
      BY <1>2, <1>5, <2>2 DEF DiscardUpTo
    <3> QED  BY <1>5, <3>1
  <2>3. CASE ~(old >= ack)
    <3>1. /\ b.firstByteSeq = ack /\ b.nextByteSeq = v.nextByteSeq
          /\ b.sacked \subseteq v.sacked
      BY <1>5, <2>1, <2>3 DEF DiscardUpTo, TxBuffer
    <3> QED  BY <1>5, <3>1
  <2> QED  BY <2>2, <2>3
<1>9. mark \in 1..Segments + 1 /\ b \in TxBuffer
  BY <1>1, <1>7 DEF Socket, Scoreboard
<1>10. new => ack < s.buf.nextByteSeq
  <2>1. ASSUME NEW i \in blocks, i \in SentList(s.buf) PROVE ack < s.buf.nextByteSeq
    <3>1. i > ack /\ i \in Int /\ i <= s.buf.nextByteSeq - 1
      BY <1>2, <2>1 DEF SentList, SegmentNos
    <3> QED  BY <1>2, <3>1
  <2> QED  BY <2>1 DEF NewlySacked
<1>11. ReceivedAck(s, ack, blocks, window) = u
  BY DEF ReceivedAck
<1> HIDE DEF v, b, mark, new
<1>12. /\ t \in Socket /\ t.buf = b /\ t.out = s.out
       /\ t.recover = s.recover /\ t.recoverActive = s.recoverActive
       /\ t.congState = s.congState /\ t.dupAckCount = s.dupAckCount
       /\ t.connected = s.connected /\ t.retxEvent = s.retxEvent
  BY <1>1, <1>9 DEF Socket
<1> HIDE DEF t
<1>13. SenderOK(t)
  BY <1>7, <1>8, <1>12 DEF SocketOK, SenderOK
<1>14. /\ SenderOK(p) /\ OnlySends(t, p)
       /\ TimerOK(s) => TimerOK(p)
  <2>1. new \in BOOLEAN
    BY DEF new
  <2>2. new => t.buf.firstByteSeq < t.buf.nextByteSeq
    BY <1>8, <1>10, <1>12
  <2>3. SenderOK(p) /\ OnlySends(t, p)
    BY <1>8, <1>12, <1>13, <2>1, <2>2, ProcessAckOK
  <2>4. ack = t.buf.firstByteSeq
    BY <1>8, <1>12
  <2>5. ASSUME TimerOK(s) PROVE ack > old \/ TimerOK(t)
    <3>1. CASE ack = old
      <4>1. t.buf.firstByteSeq = s.buf.firstByteSeq
        BY <2>4, <3>1
      <4> QED  BY <1>12, <2>5, <4>1 DEF TimerOK, IsEmpty
    <3>2. CASE ack > old
      BY <3>2
    <3> QED  BY <1>2, <3>1, <3>2
  <2>6. TimerOK(s) => TimerOK(p)
    BY <1>13, <2>1, <2>2, <2>4, <2>5, ProcessAckTimer
  <2> QED  BY <2>3, <2>6
<1> HIDE DEF p
<1>15. /\ SenderOK(u) /\ OnlySends(p, u)
       /\ TimerOK(s) => TimerOK(u)
  BY <1>14, SendPendingDataOK, SendPendingDataTimer
<1> HIDE DEF u
<1>16. OnlySends(t, u)
  BY <1>13, <1>14, <1>15, OnlySendsTransitive
<1> QED  BY <1>8, <1>11, <1>12, <1>15, <1>16 DEF OnlySends

\* ReTxTimeout
LEMMA ReTxTimeoutOK ==
  ASSUME NEW s, SenderOK(s)
  PROVE  LET u == ReTxTimeout(s) IN
         /\ SenderOK(u)
         /\ u.buf.firstByteSeq = s.buf.firstByteSeq
         /\ u.buf.nextByteSeq >= s.buf.nextByteSeq
         /\ u.buf.sacked \subseteq s.buf.sacked
         /\ u.connected => s.connected
         /\ TimerOK(u)
<1>1. s \in Socket /\ Scoreboard(s.buf)
  BY DEF SocketOK, SenderOK
<1>2. s.buf.nextByteSeq \in 1..Segments + 1
  BY <1>1, ScoreboardBounds
<1>3. CASE s.dataRetrCount = 0
  <2> DEFINE u == [s EXCEPT !.connected = FALSE, !.retxEvent = Off]
  <2>1. ReTxTimeout(s) = u
    BY <1>3 DEF ReTxTimeout
  <2>2. Off \in Off..MaxRto
    BY DEF Off, MaxRto
  <2>3. /\ u \in Socket /\ u.buf = s.buf /\ u.out = s.out
        /\ u.recover = s.recover /\ u.recoverActive = s.recoverActive
        /\ u.congState = s.congState /\ u.dupAckCount = s.dupAckCount
        /\ u.connected = FALSE /\ u.retxEvent = Off
    BY <1>1, <2>2 DEF Socket
  <2> HIDE DEF u
  <2>4. SenderOK(u) /\ TimerOK(u)
    BY <2>3 DEF SocketOK, SenderOK, TimerOK
  <2> QED  BY <1>2, <2>1, <2>3, <2>4
<1>4. CASE s.dataRetrCount # 0
  <2> DEFINE b == SetSentListLost(s.buf)
             rto == IF 2 * s.rto < MaxRto THEN 2 * s.rto ELSE MaxRto
             count == s.dataRetrCount - 1
             mark == s.buf.nextByteSeq
             t == [s EXCEPT !.dataRetrCount = count,
                            !.dupAckCount = 0,
                            !.buf = b,
                            !.recover = mark,
                            !.recoverActive = TRUE,
                            !.rto = rto,
                            !.congState = "LOSS",
                            !.retxEvent = Off]
             u == SendPendingData(t, 1)
  <2>1. ReTxTimeout(s) = SendPendingData(AfterTimeout(s), 1)
    BY <1>4 DEF ReTxTimeout
  <2>2. AfterTimeout(s) = t
    BY DEF AfterTimeout, HighTxMark
  <2>3. Scoreboard(b)
    BY <1>1, SetSentListLostConsistent
  <2>4. /\ b.firstByteSeq = s.buf.firstByteSeq
        /\ b.nextByteSeq = s.buf.nextByteSeq
        /\ b.sacked = s.buf.sacked
    BY <1>1 DEF SetSentListLost, Scoreboard, TxBuffer
  <2>5. count \in 0..DataRetries
    BY <1>1, <1>4, SenderAssumption DEF Socket
  <2>6. rto \in MinRto..MaxRto
    <3>1. s.rto \in 1..60
      BY <1>1 DEF Socket, MinRto, MaxRto
    <3> DEFINE r == s.rto
    <3>2. rto = IF 2 * r < 60 THEN 2 * r ELSE 60
      BY DEF MaxRto
    <3>3. r \in 1..60
      BY <3>1
    <3> HIDE DEF r, rto
    <3> QED  BY <3>2, <3>3 DEF MinRto, MaxRto
  <2>7. mark \in 0..Segments + 1
    BY <1>2, BufferAssumption
  <2>8. b \in TxBuffer /\ Off \in Off..MaxRto
    BY <2>3 DEF Scoreboard, Off, MaxRto
  <2> HIDE DEF b, rto, count
  <2>9. /\ t \in Socket /\ t.buf = b /\ t.out = s.out
        /\ t.recover = mark /\ t.recoverActive = TRUE
        /\ t.congState = "LOSS" /\ t.dupAckCount = 0
        /\ t.connected = s.connected /\ t.retxEvent = Off
    <3> HIDE DEF mark
    <3> QED  BY <1>1, <2>5, <2>6, <2>7, <2>8 DEF Socket
  <2> HIDE DEF t
  <2>10. SenderOK(t)
    BY <1>2, <2>3, <2>4, <2>9 DEF SocketOK, SenderOK
  <2>11. SenderOK(u) /\ OnlySends(t, u) /\ TimerOK(u)
    <3>1. TimerOK(t)
      BY <2>9 DEF TimerOK
    <3> QED  BY <2>10, <3>1, SendPendingDataOK, SendPendingDataTimer
  <2>12. ReTxTimeout(s) = u
    BY <2>1, <2>2
  <2> HIDE DEF u
  <2> QED  BY <2>4, <2>9, <2>11, <2>12 DEF OnlySends
<1> QED  BY <1>3, <1>4

\* The socket at first.
LEMMA NewSocketOK == SenderOK(NewSocket) /\ TimerOK(NewSocket)
<1> DEFINE b == NewTxBuffer
<1>1. Scoreboard(b)
  BY NewTxBufferConsistent
<1>2. b \in TxBuffer /\ b.nextByteSeq = 1
  BY <1>1 DEF Scoreboard, NewTxBuffer
<1>3. /\ NewSocket.buf = b /\ NewSocket.out = <<>> /\ NewSocket.recover = 0
      /\ NewSocket.recoverActive = FALSE /\ NewSocket.congState = "OPEN"
      /\ NewSocket.dupAckCount = 0 /\ NewSocket.retxEvent = Off
  BY DEF NewSocket
<1>4. <<>> \in Seq(SegmentNos) /\ Len(<<>>) = 0
  BY EmptySeq
<1>5. NewSocket \in Socket
  <2> HIDE DEF b
  <2>1. 1 \in 1..Segments + 1 /\ 0 \in 0..Segments + 1 /\ DataRetries \in 0..DataRetries
    BY BufferAssumption, SenderAssumption
  <2>2. MinRto \in MinRto..MaxRto /\ Off \in Off..MaxRto
    BY DEF MinRto, MaxRto, Off
  <2> QED  BY <1>2, <1>4, <2>1, <2>2 DEF NewSocket, Socket, b
<1> HIDE DEF b
<1> QED  BY <1>1, <1>2, <1>3, <1>4, <1>5 DEF SocketOK, SenderOK, TimerOK

-------------------------------------------------------------------------------
\* (4) The device and Penny, with what is proved of each on its own.
D == INSTANCE P2PDevice_proofs WITH Uids <- SegmentNos
F == INSTANCE PennyFlow_proofs WITH Packets <- {PacketOf(i) : i \in SegmentNos}

\* The device of the closed loop is that one.
LEMMA SameDevice ==
  /\ Device!Init = D!Init
  /\ Device!TypeOK = D!TypeOK
  /\ \A u : Device!Arrive(u) = D!Arrive(u)
  /\ Device!WakeUp = D!WakeUp
  /\ Device!TransmitComplete = D!TransmitComplete
<1> USE DEF Device!Packets, D!Packets, Device!WouldOverflow, D!WouldOverflow,
            Device!QueueLimit, D!QueueLimit, Device!Marked, D!Marked,
            Device!Erase, D!Erase, Device!Scheduled, D!Scheduled,
            Device!MaySend, D!MaySend, Device!Accepted, D!Accepted,
            Device!devVars, D!devVars
<1>1. Device!Init = D!Init
  BY DEF Device!Init, D!Init
<1>2. Device!TypeOK = D!TypeOK
  BY DEF Device!TypeOK, D!TypeOK
<1>3. \A p, uids : Device!TransmitStart(p, uids) = D!TransmitStart(p, uids)
  BY Zenon DEF Device!TransmitStart, D!TransmitStart
<1>4. \A p, n : Device!Send(p, n) = D!Send(p, n)
  <2> SUFFICES ASSUME NEW p, NEW n PROVE Device!Send(p, n) = D!Send(p, n)
    OBVIOUS
  <2> HIDE DEF Device!Marked, D!Marked
  <2>1. \A uids, ask : Device!Marked(uids, p, ask) = D!Marked(uids, p, ask)
    BY DEF Device!Marked, D!Marked
  <2> QED  BY <1>3, <2>1 DEF Device!Send, D!Send
<1>5. \A packets, b, n : Device!Run(packets, b, n) = D!Run(packets, b, n)
  BY <1>4, Zenon DEF Device!Run, D!Run
<1>6. \A u : Device!Arrive(u) = D!Arrive(u)
  BY <1>5, Zenon DEF Device!Arrive, D!Arrive
<1>7. Device!WakeUp = D!WakeUp
  BY <1>5, Zenon DEF Device!WakeUp, D!WakeUp
<1>8. Device!TransmitComplete = D!TransmitComplete
  BY <1>3, Zenon DEF Device!TransmitComplete, D!TransmitComplete
<1> QED  BY <1>1, <1>2, <1>6, <1>7, <1>8

\* The constants are as the device and the flow assume.
LEMMA DeviceConstants == D!DeviceAssumption
  BY ClosedLoopAssumption DEF Device!DeviceAssumption, D!DeviceAssumption,
                              Device!Packets, D!Packets

\* Penny's operators are those of the flow.
\* Equal sizes of sets.
LEMMA SameCardinality ==
  ASSUME NEW S
  PROVE  F!Cardinality(S) = Penny!Cardinality(S)
  BY Zenon DEF Penny!Cardinality, F!Cardinality

\* The same new flow.
LEMMA SameNewFlow ==
  F!NewFlow = Penny!NewFlow
  BY DEF Penny!NewFlow, F!NewFlow, Penny!NoCounters, F!NoCounters,
         Penny!NoLists, F!NoLists, Penny!NoTotals, F!NoTotals

\* The same step of the clock.
LEMMA SameAgeDrops ==
  ASSUME NEW x
  PROVE  F!AgeDrops(x) = Penny!AgeDrops(x)
  BY DEF Penny!AgeDrops, F!AgeDrops, Penny!AgeCap, F!AgeCap

\* The same test of what may be dropped, and the same highestSeq after it.
LEMMA SameUnique ==
  ASSUME NEW x, NEW p
  PROVE  /\ F!IsPayloadUnique(x, p) = Penny!IsPayloadUnique(x, p)
         /\ F!IsOutOfSequence(x, p) = Penny!IsOutOfSequence(x, p)
         /\ F!IsDroppable(x, p) = Penny!IsDroppable(x, p)
         /\ F!ObserveSeq(x, p) = Penny!ObserveSeq(x, p)
  BY DEF Penny!IsPayloadUnique, F!IsPayloadUnique, Penny!Overlaps, F!Overlaps,
         Penny!Interval, F!Interval, Penny!IsOutOfSequence, F!IsOutOfSequence,
         Penny!IsDroppable, F!IsDroppable, Penny!ObserveSeq, F!ObserveSeq

\* The same drops expire, in the flow and in its snapshots.
LEMMA SameTimeouts ==
  ASSUME NEW x
  PROVE  F!CheckPacketDropTimeouts(x) = Penny!CheckPacketDropTimeouts(x)
<1>1. F!ExpiredDrops(x) = Penny!ExpiredDrops(x)
  BY DEF Penny!ExpiredDrops, F!ExpiredDrops, Penny!Grace, F!Grace,
         Penny!SeqOf, F!SeqOf
<1>2. ASSUME NEW s, NEW k, NEW E
      PROVE  F!SettledUpTo(s, k, E) = Penny!SettledUpTo(s, k, E)
  BY DEF Penny!SettledUpTo, F!SettledUpTo, Penny!DroppedUpTo, F!DroppedUpTo
<1>3. ASSUME NEW c, NEW n
      PROVE  F!CountExpired(c, n) = Penny!CountExpired(c, n)
  BY DEF Penny!CountExpired, F!CountExpired
<1>4. ASSUME NEW s, NEW E
      PROVE  F!ExpireSnapshots(s, E) = Penny!ExpireSnapshots(s, E)
  BY SameCardinality
     DEF Penny!ExpireSnapshots, F!ExpireSnapshots, Penny!CountExpired,
         F!CountExpired, Penny!SettledUpTo, F!SettledUpTo,
         Penny!DroppedUpTo, F!DroppedUpTo
<1> QED  BY <1>1, <1>2, <1>3, <1>4, SameCardinality
         DEF Penny!CheckPacketDropTimeouts, F!CheckPacketDropTimeouts

\* A packet is accounted for in the same way.
LEMMA SameAccount ==
  ASSUME NEW x, NEW p, NEW unique
  PROVE  F!Account(x, p, unique) = Penny!Account(x, p, unique)
<1>1. F!AddPayload(x, p) = Penny!AddPayload(x, p)
  BY DEF Penny!AddPayload, F!AddPayload, Penny!Interval, F!Interval
<1>2. F!CountDuplicate(x, p) = Penny!CountDuplicate(x, p)
  BY DEF Penny!CountDuplicate, F!CountDuplicate,
         Penny!DuplicateSnapshots, F!DuplicateSnapshots
<1>3. ASSUME NEW id
      PROVE  F!ObserveRetransmission(x, id) = Penny!ObserveRetransmission(x, id)
  BY DEF Penny!ObserveRetransmission, F!ObserveRetransmission,
         Penny!CountRetransmitted, F!CountRetransmitted,
         Penny!RetransmitSnapshots, F!RetransmitSnapshots,
         Penny!SettledUpTo, F!SettledUpTo, Penny!DroppedUpTo, F!DroppedUpTo
<1>4. /\ F!PacketId(p) = Penny!PacketId(p)
      /\ \A id : F!AwaitsRetransmission(x, id)
                   = Penny!AwaitsRetransmission(x, id)
  BY DEF Penny!PacketId, F!PacketId,
         Penny!AwaitsRetransmission, F!AwaitsRetransmission
<1> QED  BY <1>1, <1>2, <1>3, <1>4 DEF Penny!Account, F!Account

\* The same snapshot is the valid one.
LEMMA SameValidSnapshot ==
  ASSUME NEW x
  PROVE  F!CheckForNewValidSnapshot(x) = Penny!CheckForNewValidSnapshot(x)
  BY Zenon DEF Penny!CheckForNewValidSnapshot, F!CheckForNewValidSnapshot,
               Penny!SettledSnapshots, F!SettledSnapshots,
               Penny!Totals, F!Totals, Penny!Max, F!Max

\* Hence pennyFlow::processPacket is the same.
LEMMA SameProcessPacket ==
  ASSUME NEW x, NEW p
  PROVE  F!ProcessPacket(x, p) = Penny!ProcessPacket(x, p)
  BY SameUnique, SameTimeouts, SameAccount, SameValidSnapshot
     DEF Penny!ProcessPacket, F!ProcessPacket

\* The same verdict on a flow.
LEMMA SameVerdict ==
  ASSUME NEW x
  PROVE  F!EvaluateHypotheses(x) = Penny!EvaluateHypotheses(x)
<1>1. F!GetFlowState(x) = Penny!GetFlowState(x)
  BY DEF Penny!GetFlowState, F!GetFlowState, Penny!Totals, F!Totals
<1>2. ASSUME NEW c
      PROVE  /\ F!FDupNumerator(c) = Penny!FDupNumerator(c)
             /\ F!FDupDenominator(c) = Penny!FDupDenominator(c)
             /\ F!BelowMinimum(c) = Penny!BelowMinimum(c)
  BY DEF Penny!FDupNumerator, F!FDupNumerator,
         Penny!FDupDenominator, F!FDupDenominator,
         Penny!BelowMinimum, F!BelowMinimum
<1>3. ASSUME NEW c
      PROVE  F!H1(c) = Penny!H1(c) /\ F!H2(c) = Penny!H2(c)
  <2>1. ASSUME NEW b, NEW k PROVE F!Power(b, k) = Penny!Power(b, k)
    BY DEF Penny!Power, F!Power, Penny!PowersOf, F!PowersOf
  <2> QED  BY <1>2, <2>1 DEF Penny!H1, F!H1, Penny!H2, F!H2
<1>4. ASSUME NEW c
      PROVE  /\ F!TooManyDuplicates(c) = Penny!TooManyDuplicates(c)
             /\ F!Weigh(c) = Penny!Weigh(c)
  BY <1>2, <1>3 DEF Penny!TooManyDuplicates, F!TooManyDuplicates,
                    Penny!Weigh, F!Weigh
<1>5. ASSUME NEW c PROVE F!Verdict(c) = Penny!Verdict(c)
  BY <1>2, <1>4 DEF Penny!Verdict, F!Verdict
<1> QED  BY <1>1, <1>5 DEF Penny!EvaluateHypotheses, F!EvaluateHypotheses

\* The same drops are allowed, and done alike.
LEMMA SameDrop ==
  ASSUME NEW x, NEW p
  PROVE  /\ F!DropMorePackets(x) = Penny!DropMorePackets(x)
         /\ F!DropPacket(x, p) = Penny!DropPacket(x, p)
<1>1. F!DropMorePackets(x) = Penny!DropMorePackets(x)
  BY DEF Penny!DropMorePackets, F!DropMorePackets
<1>2. F!DropPacket(x, p) = Penny!DropPacket(x, p)
  BY DEF Penny!DropPacket, F!DropPacket, Penny!PacketId, F!PacketId
<1> QED  BY <1>1, <1>2

\* The steps of Penny are those of the flow.
LEMMA SameSteps ==
  /\ Penny!Init = F!Init
  /\ Penny!Tick = F!Tick
  /\ \A p : Penny!Forward(p) = F!Forward(p)
  /\ \A p : Penny!Drop(p) = F!Drop(p)
<1>1. Penny!Init = F!Init
  BY SameNewFlow DEF Penny!Init, F!Init
<1>2. Penny!Tick = F!Tick
  BY SameAgeDrops DEF Penny!Tick, F!Tick
<1>3. ASSUME NEW p PROVE Penny!Forward(p) = F!Forward(p)
  BY SameProcessPacket DEF Penny!Forward, F!Forward
<1>4. ASSUME NEW p PROVE Penny!Drop(p) = F!Drop(p)
  BY SameProcessPacket, SameUnique, SameVerdict, SameDrop
     DEF Penny!Drop, F!Drop
<1> QED  BY <1>1, <1>2, <1>3, <1>4

\* The same types.
LEMMA SameTypes == Penny!TypeOK = F!TypeOK
<1> USE DEF Penny!DataPackets, F!DataPackets, Penny!PacketId, F!PacketId,
            Penny!PacketIds, F!PacketIds, Penny!MetaLists, F!MetaLists,
            Penny!Counters, F!Counters, Penny!Snapshot, F!Snapshot,
            Penny!FlowTotals, F!FlowTotals, Penny!AgeCap, F!AgeCap,
            Penny!Pending, F!Pending
<1>1. Penny!FlowTypeOK(flow) = F!FlowTypeOK(flow)
  BY SameNewFlow, Zenon DEF Penny!FlowTypeOK, F!FlowTypeOK
<1>2. Penny!NoWrapAround(flow) = F!NoWrapAround(flow)
  BY Zenon DEF Penny!NoWrapAround, F!NoWrapAround
<1> QED  BY <1>1, <1>2 DEF Penny!TypeOK, F!TypeOK

\* The constants are as the flow assumes.
LEMMA FlowConstants ==
  F!HypothesesAssumption /\ F!FlowAssumption /\ F!DuplicateBoundAssumption
<1>1. F!FlowAssumption
  BY ClosedLoopAssumption DEF Penny!FlowAssumption, F!FlowAssumption
<1>2. F!DuplicateBoundAssumption
  BY ClosedLoopAssumption
     DEF Penny!DuplicateBoundAssumption, F!DuplicateBoundAssumption
<1>3. F!HypothesesAssumption
  BY ClosedLoopAssumption
     DEF Penny!HypothesesAssumption, F!HypothesesAssumption, Penny!IsRatio, F!IsRatio
<1> QED  BY <1>1, <1>2, <1>3

-------------------------------------------------------------------------------
\* (5) The books: the id of a segment's drop, and its payload in the interval tree.
Id(u)     == <<u, 1>>
Range1(u) == <<u, u>>

\* The drops that are entered, and those that are awaited.
Entered    == DOMAIN flow.droppedPktsDecision
Awaited    == DOMAIN flow.pendingDrops
Tree       == flow.pktsIntervalTree
Duplicates == flow.curCounters.duplicatePkts

\* Segments as packets of the flow.
LEMMA SegmentPackets ==
  /\ \A u \in SegmentNos :
       /\ PacketOf(u) \in F!DataPackets
       /\ PacketOf(u) \in {PacketOf(i) : i \in SegmentNos}
       /\ F!PacketId(PacketOf(u)) = Id(u)
       /\ F!Interval(PacketOf(u)) = Range1(u)
  /\ F!PacketIds = {Id(u) : u \in SegmentNos}
<1>1. ASSUME NEW u \in SegmentNos
      PROVE  /\ PacketOf(u) \in F!DataPackets
             /\ PacketOf(u) \in {PacketOf(i) : i \in SegmentNos}
             /\ F!PacketId(PacketOf(u)) = Id(u)
             /\ F!Interval(PacketOf(u)) = Range1(u)
  <2>1. u \in Nat
    BY BufferAssumption DEF SegmentNos
  <2>2. PacketOf(u) \in F!DataPackets
    BY DEF F!DataPackets, PacketOf
  <2>3. F!PacketId(PacketOf(u)) = Id(u)
    BY DEF F!PacketId, PacketOf, Id
  <2>4. F!Interval(PacketOf(u)) = Range1(u)
    <3>1. u + 1 - 1 = u
      BY <2>1
    <3> QED  BY <3>1 DEF F!Interval, PacketOf, Range1
  <2> QED  BY <2>2, <2>3, <2>4
<1>2. F!DataPackets = {PacketOf(u) : u \in SegmentNos}
  BY DEF F!DataPackets, PacketOf
<1>3. F!PacketIds = {Id(u) : u \in SegmentNos}
  BY <1>1, <1>2 DEF F!PacketIds
<1> QED  BY <1>1, <1>3

\* A segment that Penny lets through: its own drop, if there is one, is no
\* longer awaited, and if it has expired the segment is a duplicate.
LEMMA ForwardOf ==
  ASSUME F!IInv, NEW u \in SegmentNos, Penny!Forward(PacketOf(u)),
         \A i \in Tree : i[1] = i[2]
  PROVE  /\ F!IInv'
         /\ Entered' = Entered
         /\ Awaited' \subseteq Awaited \ {Id(u)}
         /\ Expired' \subseteq Expired \cup Awaited
         /\ Tree' = Tree \cup {Range1(u)}
         /\ Duplicates' >= Duplicates
         /\ Id(u) \in Expired' => Duplicates' = Duplicates + 1
<1> DEFINE p == PacketOf(u)
<1>1. p \in F!DataPackets /\ F!PacketId(p) = Id(u) /\ F!Interval(p) = Range1(u)
  BY SegmentPackets
<1>2. F!Forward(p)
  BY SameSteps
<1> HIDE DEF p
<1>3. F!PacketSettles(flow, flow', p)
  BY <1>1, <1>2, F!ForwardSettlesOwn, FlowConstants
<1>4. Tree \subseteq (Nat \X Nat)
  BY DEF F!IInv, F!FlowInv, F!FlowTypeOK, Tree
<1>5. ~F!IsPayloadUnique(flow, p) => Range1(u) \in Tree
  <2> SUFFICES ASSUME NEW i \in Tree, F!Overlaps(i, Range1(u))
               PROVE  Range1(u) \in Tree
    BY <1>1 DEF F!IsPayloadUnique, Tree
  <2>1. i[1] \in Nat /\ i = <<i[1], i[1]>> /\ u \in Nat
    BY <1>4, BufferAssumption DEF SegmentNos
  <2>2. i[1] <= u /\ u <= i[2]
    BY DEF F!Overlaps, Range1
  <2>3. i[1] = u
    BY <2>1, <2>2
  <2> QED  BY <2>1, <2>3 DEF Range1
<1> QED  BY <1>1, <1>3, <1>5
         DEF F!PacketSettles, F!IInv, F!Pending, Entered, Awaited, Expired, Tree,
             Duplicates

\* A segment that Penny drops is new data.
LEMMA DropOf ==
  ASSUME F!IInv, NEW u \in SegmentNos, Penny!Drop(PacketOf(u))
  PROVE  /\ F!IInv'
         /\ Range1(u) \notin Tree
         /\ Id(u) \notin Entered
         /\ Entered' = Entered \cup {Id(u)}
         /\ Awaited' \subseteq Awaited \cup {Id(u)}
         /\ Expired' \subseteq Expired \cup Awaited
         /\ Tree' = Tree \cup {Range1(u)}
         /\ Duplicates' >= Duplicates
<1> DEFINE p == PacketOf(u)
<1>1. /\ F!PacketId(p) = Id(u) /\ F!Interval(p) = Range1(u)
      /\ p \in {PacketOf(i) : i \in SegmentNos}
  BY SegmentPackets
<1>2. F!Drop(p)
  BY SameSteps
<1> HIDE DEF p
<1>3. /\ F!IInv'
      /\ F!IsPayloadUnique(flow, p)
      /\ F!PacketId(p) \notin DOMAIN flow.droppedPktsDecision
      /\ DOMAIN flow'.droppedPktsDecision
           = DOMAIN flow.droppedPktsDecision \cup {F!PacketId(p)}
      /\ F!Pending(flow') \subseteq F!Pending(flow) \cup {F!PacketId(p)}
      /\ flow'.metaLists.expiredPcksList
           \subseteq flow.metaLists.expiredPcksList \cup F!Pending(flow)
      /\ flow'.pktsIntervalTree = flow.pktsIntervalTree \cup {F!Interval(p)}
      /\ flow'.curCounters.duplicatePkts >= flow.curCounters.duplicatePkts
  BY <1>1, <1>2, F!DropEntersOwn, FlowConstants
<1>4. Range1(u) \notin Tree
  <2>1. F!Overlaps(Range1(u), Range1(u))
    BY BufferAssumption DEF F!Overlaps, Range1, SegmentNos
  <2> QED  BY <1>1, <1>3, <2>1 DEF F!IsPayloadUnique, Tree
<1> QED  BY <1>1, <1>3, <1>4
         DEF F!Pending, Entered, Awaited, Expired, Tree, Duplicates

\* The clock.
LEMMA TickOf ==
  ASSUME F!IInv, Penny!Tick
  PROVE  /\ F!IInv'
         /\ Entered' = Entered /\ Awaited' = Awaited /\ Expired' = Expired
         /\ Tree' = Tree /\ Duplicates' = Duplicates
<1>1. F!Tick
  BY SameSteps
<1> QED  BY <1>1, F!TickAges, FlowConstants
         DEF F!Pending, Entered, Awaited, Expired, Tree, Duplicates

\* The drops that expired although their segment was handed over again, and
\* not to be dropped.
Late == {id \in Expired : \E q \in D!HandedOver \ asked : Id(q.uid) = id}

(***************************************************************************)
(* Penny's books and the device: the payload of each packet handed over is *)
(* in the interval tree; the drops that are entered are those asked for,   *)
(* one packet of each segment; of a segment whose drop is awaited no other *)
(* packet was handed over; and where a drop expired before one was, that   *)
(* packet counted as a duplicate.                                          *)
(***************************************************************************)
BooksInv ==
  /\ F!IInv
  /\ \A i \in Tree : i[1] = i[2]
  /\ \A p \in D!HandedOver : Range1(p.uid) \in Tree
  /\ Entered = {Id(p.uid) : p \in asked}
  /\ \A p, q \in asked : p.uid = q.uid => p = q
  /\ \A q \in D!HandedOver : Id(q.uid) \in Awaited => q \in asked
  /\ Cardinality(Late) <= Duplicates

\* The late drops can be counted.
LEMMA LateFinite ==
  ASSUME F!IInv
  PROVE  /\ Expired \subseteq F!PacketIds
         /\ IsFiniteSet(Expired)
         /\ IsFiniteSet(Late)
         /\ Duplicates \in Nat
<1>1. Expired \subseteq F!PacketIds /\ Duplicates \in Nat
  BY DEF F!IInv, F!FlowInv, F!FlowTypeOK, F!MetaLists, F!Counters, Expired, Duplicates
<1>2. IsFiniteSet(SegmentNos)
  BY BufferAssumption, FS_Interval DEF SegmentNos
<1>3. IsFiniteSet({Id(u) : u \in SegmentNos})
  <2> DEFINE f == [u \in SegmentNos |-> Id(u)]
             T == {Id(u) : u \in SegmentNos}
  <2>1. f \in Surjection(SegmentNos, T)
    BY DEF Surjection
  <2> HIDE DEF f, T
  <2>2. IsFiniteSet(T)
    BY <1>2, <2>1, FS_Surjection
  <2> QED  BY <2>2 DEF T
<1>4. IsFiniteSet(Expired)
  BY <1>1, <1>3, SegmentPackets, FS_Subset
<1>5. IsFiniteSet(Late)
  BY <1>4, FS_Subset DEF Late
<1> QED  BY <1>1, <1>4, <1>5

\* Ids tell segments apart.
LEMMA IdInjective == \A u, w : Id(u) = Id(w) => u = w
  BY DEF Id

\* A packet is handed over and let through.
LEMMA BooksForward ==
  ASSUME BooksInv, D!HandOverInv, NEW p, p.uid \in SegmentNos,
         D!HandsOver(p), asked' = asked, Penny!Forward(PacketOf(p.uid))
  PROVE  BooksInv'
<1> DEFINE u == p.uid
           H == D!HandedOver
<1>1. /\ H' = H \cup {p} /\ p \notin H /\ asked \subseteq H
  BY DEF D!HandsOver, D!HandOverInv
<1>2. /\ F!IInv'
      /\ Entered' = Entered
      /\ Awaited' \subseteq Awaited \ {Id(u)}
      /\ Expired' \subseteq Expired \cup Awaited
      /\ Tree' = Tree \cup {Range1(u)}
      /\ Duplicates' >= Duplicates
      /\ Id(u) \in Expired' => Duplicates' = Duplicates + 1
  BY ForwardOf DEF BooksInv
<1> HIDE DEF H
<1>3. \A i \in Tree' : i[1] = i[2]
  BY <1>2 DEF BooksInv, Range1
<1>4. \A q \in H' : Range1(q.uid) \in Tree'
  BY <1>1, <1>2 DEF BooksInv, H
<1>5. Entered' = {Id(q.uid) : q \in asked'}
  BY <1>2 DEF BooksInv
<1>6. \A q, r \in asked' : q.uid = r.uid => q = r
  BY DEF BooksInv
<1>7. ASSUME NEW q \in H', Id(q.uid) \in Awaited' PROVE q \in asked'
  <2>1. Id(q.uid) \in Awaited /\ Id(q.uid) # Id(u)
    BY <1>2, <1>7
  <2>2. q \in H
    BY <1>1, <2>1
  <2> QED  BY <2>1, <2>2 DEF BooksInv, H
<1>8. Late' \subseteq Late \cup {Id(u)}
  <2> SUFFICES ASSUME NEW id \in Late', id # Id(u) PROVE id \in Late
    OBVIOUS
  <2>1. PICK q \in H' \ asked : Id(q.uid) = id
    BY DEF Late, H
  <2>2. q \in H
    BY <1>1, <2>1
  <2>3. id \in Expired \cup Awaited
    BY <1>2 DEF Late
  <2>4. id \notin Awaited
    BY <2>1, <2>2 DEF BooksInv, H
  <2> QED  BY <2>1, <2>2, <2>3, <2>4 DEF Late, H
<1>9. Cardinality(Late') <= Duplicates'
  <2>1. /\ IsFiniteSet(Late) /\ IsFiniteSet(Late')
        /\ Duplicates \in Nat /\ Duplicates' \in Nat
    <3>1. IsFiniteSet(Late) /\ Duplicates \in Nat
      BY LateFinite DEF BooksInv
    <3>2. IsFiniteSet(Late') /\ Duplicates' \in Nat
      <4>1. /\ Expired' \subseteq F!PacketIds /\ Duplicates' \in Nat
        BY <1>2 DEF F!IInv, F!FlowInv, F!FlowTypeOK, F!MetaLists, F!Counters,
                    Expired, Duplicates
      <4>2. IsFiniteSet(Late \cup {Id(u)})
        BY <3>1, FS_AddElement
      <4> QED  BY <1>8, <4>1, <4>2, FS_Subset
    <3> QED  BY <3>1, <3>2
  <2>2. Cardinality(Late) \in Nat /\ Cardinality(Late) <= Duplicates
    BY <2>1, FS_CardinalityType DEF BooksInv
  <2>3. CASE Id(u) \in Expired'
    <3>1. Cardinality(Late \cup {Id(u)}) <= Cardinality(Late) + 1
          /\ IsFiniteSet(Late \cup {Id(u)})
      <4> DEFINE n == Cardinality(Late)
      <4>1. /\ IsFiniteSet(Late \cup {Id(u)})
            /\ Cardinality(Late \cup {Id(u)}) = n
                 \/ Cardinality(Late \cup {Id(u)}) = n + 1
        BY <2>1, FS_AddElement
      <4>2. n \in Nat
        BY <2>2
      <4> HIDE DEF n
      <4>3. n <= n + 1 /\ n + 1 <= n + 1
        BY <4>2
      <4> QED  BY <4>1, <4>3 DEF n
    <3>2. Cardinality(Late') <= Cardinality(Late \cup {Id(u)})
      BY <1>8, <3>1, FS_Subset
    <3>3. /\ Cardinality(Late') \in Nat
          /\ Cardinality(Late \cup {Id(u)}) \in Nat
      BY <2>1, <3>1, FS_CardinalityType
    <3>4. Duplicates' = Duplicates + 1
      BY <1>2, <2>3
    <3> QED  BY <2>1, <2>2, <3>1, <3>2, <3>3, <3>4
  <2>4. CASE Id(u) \notin Expired'
    <3>1. Late' \subseteq Late
      BY <1>8, <2>4 DEF Late
    <3>2. Cardinality(Late') <= Cardinality(Late) /\ Cardinality(Late') \in Nat
      BY <2>1, <3>1, FS_Subset, FS_CardinalityType
    <3> QED  BY <1>2, <2>1, <2>2, <3>2
  <2> QED  BY <2>3, <2>4
<1> QED  BY <1>2, <1>3, <1>4, <1>5, <1>6, <1>7, <1>9 DEF BooksInv, H

\* A packet is handed over to be dropped.
LEMMA BooksDrop ==
  ASSUME BooksInv, D!HandOverInv, NEW p, p.uid \in SegmentNos,
         D!HandsOver(p), asked' = asked \cup {p}, Penny!Drop(PacketOf(p.uid))
  PROVE  BooksInv'
<1> DEFINE u == p.uid
           H == D!HandedOver
<1>1. /\ H' = H \cup {p} /\ p \notin H /\ asked \subseteq H
  BY DEF D!HandsOver, D!HandOverInv
<1>2. /\ F!IInv'
      /\ Range1(u) \notin Tree
      /\ Entered' = Entered \cup {Id(u)}
      /\ Awaited' \subseteq Awaited \cup {Id(u)}
      /\ Expired' \subseteq Expired \cup Awaited
      /\ Tree' = Tree \cup {Range1(u)}
      /\ Duplicates' >= Duplicates
  BY DropOf DEF BooksInv
<1> HIDE DEF H
<1>3. \A i \in Tree' : i[1] = i[2]
  BY <1>2 DEF BooksInv, Range1
<1>4. \A q \in H' : Range1(q.uid) \in Tree'
  BY <1>1, <1>2 DEF BooksInv, H
<1>5. Entered' = {Id(q.uid) : q \in asked'}
  BY <1>2 DEF BooksInv
<1>6. \A q \in H : q.uid # u
  BY <1>2 DEF BooksInv, H
<1>7. \A q, r \in asked' : q.uid = r.uid => q = r
  BY <1>1, <1>6 DEF BooksInv
<1>8. ASSUME NEW q \in H', Id(q.uid) \in Awaited' PROVE q \in asked'
  <2>1. CASE q = p
    BY <2>1
  <2>2. CASE q \in H
    <3>1. Id(q.uid) # Id(u)
      BY <1>6, <2>2, IdInjective
    <3>2. Id(q.uid) \in Awaited
      BY <1>2, <1>8, <3>1
    <3> QED  BY <2>2, <3>2 DEF BooksInv, H
  <2> QED  BY <1>1, <2>1, <2>2
<1>9. Late' \subseteq Late
  <2> SUFFICES ASSUME NEW id \in Late' PROVE id \in Late
    OBVIOUS
  <2>1. PICK q \in H' \ asked' : Id(q.uid) = id
    BY DEF Late, H
  <2>2. q \in H \ asked
    BY <1>1, <2>1
  <2>3. id \in Expired \cup Awaited
    BY <1>2 DEF Late
  <2>4. id \notin Awaited
    BY <2>1, <2>2 DEF BooksInv, H
  <2> QED  BY <2>1, <2>2, <2>3, <2>4 DEF Late, H
<1>10. Cardinality(Late') <= Duplicates'
  <2>1. IsFiniteSet(Late) /\ Duplicates \in Nat
    BY LateFinite DEF BooksInv
  <2>2. /\ IsFiniteSet(Late') /\ Cardinality(Late') <= Cardinality(Late)
        /\ Cardinality(Late') \in Nat /\ Cardinality(Late) \in Nat
    BY <1>9, <2>1, FS_Subset, FS_CardinalityType
  <2>3. Duplicates' \in Nat
    BY <1>2 DEF F!IInv, F!FlowInv, F!FlowTypeOK, F!Counters, Duplicates
  <2>4. Cardinality(Late) <= Duplicates
    BY DEF BooksInv
  <2> QED  BY <1>2, <2>1, <2>2, <2>3, <2>4
<1> QED  BY <1>2, <1>3, <1>4, <1>5, <1>7, <1>8, <1>10 DEF BooksInv, H

\* No packet is handed over.
LEMMA BooksStay ==
  ASSUME BooksInv, D!HandedOver' = D!HandedOver, asked' = asked,
         UNCHANGED flow \/ Penny!Tick
  PROVE  BooksInv'
<1>1. /\ F!IInv'
      /\ Entered' = Entered /\ Awaited' = Awaited /\ Expired' = Expired
      /\ Tree' = Tree /\ Duplicates' = Duplicates
  <2>1. CASE UNCHANGED flow
    BY <2>1 DEF BooksInv, F!IInv, Entered, Awaited, Expired, Tree, Duplicates
  <2>2. CASE Penny!Tick
    BY <2>2, TickOf DEF BooksInv
  <2> QED  BY <2>1, <2>2
<1>2. Late' = Late
  BY <1>1 DEF Late
<1> QED  BY <1>1, <1>2 DEF BooksInv

\* At first nothing is entered and nothing handed over.
LEMMA BooksInit ==
  ASSUME Penny!Init, D!Init
  PROVE  BooksInv
<1>1. F!Init
  BY SameSteps
<1>2. F!IInv
  BY <1>1, F!InitInv, FlowConstants
<1>3. /\ Entered = {} /\ Awaited = {} /\ Expired = {} /\ Tree = {} /\ Duplicates = 0
  BY <1>1 DEF F!Init, F!NewFlow, F!NoLists, F!NoCounters,
              Entered, Awaited, Expired, Tree, Duplicates
<1>4. D!HandedOver = {} /\ asked = {}
  BY DEF D!HandedOver, D!Init, D!ToSet
<1>5. Late = {} /\ Cardinality({}) = 0
  BY <1>3, FS_EmptySet DEF Late
<1> QED  BY <1>2, <1>3, <1>4, <1>5 DEF BooksInv

-------------------------------------------------------------------------------
\* (6) The acknowledgements.

\* What acknowledgement a says of the segments r that are received, and what
\* the scoreboard t knows of them when it is on its way.
AckOK(a, r, t) ==
  /\ 1..a.number - 1 \subseteq r
  /\ a.sacked \subseteq r
  /\ \A i \in a.sacked : i > a.number
  /\ a.number \notin t.sacked
  /\ t.firstByteSeq <= a.number
  /\ a.number <= t.nextByteSeq

\* A later one says no less than an earlier one.
InOrder(w) ==
  \A j, k \in 1..Len(w) :
    j <= k => /\ w[j].number <= w[k].number
              /\ w[k].number \notin w[j].sacked

WireOK(w, r, t) ==
  /\ w \in Seq(Ack)
  /\ r \in SUBSET SegmentNos
  /\ \A i \in r : i < t.nextByteSeq
  /\ 1..t.firstByteSeq - 1 \subseteq r
  /\ t.sacked \subseteq r
  /\ \A k \in 1..Len(w) : AckOK(w[k], r, t)
  /\ InOrder(w)

\* The acknowledgements are of segments.
LEMMA AckTypes ==
  ASSUME NEW w \in Seq(Ack)
  PROVE  /\ Len(w) \in Nat
         /\ \A k \in 1..Len(w) :
              /\ w[k] \in Ack
              /\ w[k].number \in 1..Segments + 1
              /\ w[k].sacked \in SUBSET SegmentNos
<1>1. Len(w) \in Nat
  BY LenProperties
<1>2. \A k \in 1..Len(w) : w[k] \in Ack
  BY ElementOfSeq
<1> QED  BY <1>1, <1>2 DEF Ack

\* The receiver asks for the first segment that it does not have.
LEMMA NextRxIsMissing ==
  ASSUME NEW r \in SUBSET SegmentNos
  PROVE  /\ NextRxSequence(r) \in 1..Segments + 1
         /\ NextRxSequence(r) \notin r
         /\ 1..NextRxSequence(r) - 1 \subseteq r
<1> DEFINE S == (1..Segments + 1) \ r
           n == NextRxSequence(r)
<1>1. Segments \in Nat
  BY BufferAssumption
<1>2. S \in SUBSET Nat /\ Segments + 1 \in S
  BY <1>1 DEF SegmentNos
<1>3. n = Min(S)
  BY DEF NextRxSequence
<1>4. n \in S /\ \A i \in S : n <= i
  <2> HIDE DEF S
  <2> QED  BY <1>2, <1>3, MinSegment
<1> HIDE DEF n
<1>5. ASSUME NEW i \in 1..n - 1 PROVE i \in r
  <2>1. n \in 1..Segments + 1
    BY <1>4
  <2>2. i \in 1..Segments + 1 /\ ~(n <= i)
    BY <1>1, <2>1
  <2>3. i \notin S
    BY <1>4, <2>2
  <2> QED  BY <2>2, <2>3
<1> QED  BY <1>4, <1>5 DEF n

\* The sender sends, or forgets what was selectively acknowledged.
LEMMA WireSends ==
  ASSUME NEW w, NEW r, NEW t, NEW u, WireOK(w, r, t),
         Scoreboard(t), Scoreboard(u),
         u.firstByteSeq = t.firstByteSeq,
         u.nextByteSeq >= t.nextByteSeq, u.sacked \subseteq t.sacked
  PROVE  WireOK(w, r, u)
<1>1. /\ t.nextByteSeq \in Int /\ u.nextByteSeq \in Int
  BY ScoreboardBounds
<1>2. \A i \in r : i < u.nextByteSeq
  <2>1. \A i \in r : i \in Int /\ i < t.nextByteSeq
    BY BufferAssumption DEF WireOK, SegmentNos
  <2> QED  BY <1>1, <2>1
<1>3. ASSUME NEW k \in 1..Len(w) PROVE AckOK(w[k], r, u)
  <2>1. AckOK(w[k], r, t) /\ w[k].number \in Int
    BY AckTypes DEF WireOK
  <2>2. w[k].number <= u.nextByteSeq
    BY <1>1, <2>1 DEF AckOK
  <2> QED  BY <2>1, <2>2 DEF AckOK
<1> QED  BY <1>2, <1>3 DEF WireOK

\* More is received.
LEMMA WireReceives ==
  ASSUME NEW w, NEW r, NEW t, WireOK(w, r, t),
         NEW q \in SUBSET SegmentNos, r \subseteq q,
         \A i \in q : i < t.nextByteSeq
  PROVE  WireOK(w, q, t)
  BY DEF WireOK, AckOK

\* The receiver acknowledges what it has.
LEMMA WireAnswers ==
  ASSUME NEW w, NEW r, NEW t, WireOK(w, r, t), Scoreboard(t)
  PROVE  WireOK(Append(w, [number |-> NextRxSequence(r),
                            sacked |-> {i \in r : i > NextRxSequence(r)}]),
                r, t)
<1> DEFINE n == NextRxSequence(r)
           a == [number |-> n, sacked |-> {i \in r : i > n}]
           bs == Append(w, a)
<1>1. /\ w \in Seq(Ack) /\ r \in SUBSET SegmentNos
      /\ \A k \in 1..Len(w) : AckOK(w[k], r, t)
      /\ InOrder(w)
  BY DEF WireOK
<1>2. n \in 1..Segments + 1 /\ n \notin r /\ 1..n - 1 \subseteq r
  BY <1>1, NextRxIsMissing
<1> HIDE DEF n
<1>3. /\ t.firstByteSeq \in 1..Segments + 1 /\ t.nextByteSeq \in 1..Segments + 1
      /\ t.firstByteSeq <= t.nextByteSeq /\ Segments \in Nat
  BY ScoreboardBounds, BufferAssumption
<1>4. t.firstByteSeq <= n
  <2> SUFFICES ASSUME ~(t.firstByteSeq <= n) PROVE FALSE
    OBVIOUS
  <2>1. n \in 1..t.firstByteSeq - 1
    BY <1>2, <1>3
  <2> QED  BY <1>2, <2>1 DEF WireOK
<1>5. n <= t.nextByteSeq
  <2> SUFFICES ASSUME ~(n <= t.nextByteSeq) PROVE FALSE
    OBVIOUS
  <2>1. t.nextByteSeq \in 1..n - 1
    BY <1>2, <1>3
  <2>2. t.nextByteSeq < t.nextByteSeq
    BY <1>2, <2>1 DEF WireOK
  <2> QED  BY <1>3, <2>2
<1>6. a \in Ack /\ a.number = n /\ a.sacked = {i \in r : i > n}
  BY <1>1, <1>2 DEF Ack
<1>7. AckOK(a, r, t)
  <2>1. n \notin t.sacked
    BY <1>2 DEF WireOK
  <2> HIDE DEF a
  <2> QED  BY <1>2, <1>4, <1>5, <1>6, <2>1 DEF AckOK
<1> HIDE DEF a
<1>8. /\ bs \in Seq(Ack) /\ Len(bs) = Len(w) + 1 /\ Len(w) \in Nat
      /\ \A k \in 1..Len(w) : bs[k] = w[k]
      /\ bs[Len(w) + 1] = a
  BY <1>1, <1>6, AppendProperties, LenProperties
<1> HIDE DEF bs
<1>9. ASSUME NEW k \in 1..Len(bs)
      PROVE  k \in 1..Len(w) \/ k = Len(w) + 1
  BY <1>8
<1>10. \A k \in 1..Len(bs) : AckOK(bs[k], r, t)
  BY <1>1, <1>7, <1>8, <1>9
<1>11. ASSUME NEW j \in 1..Len(w)
       PROVE  w[j].number <= n /\ n \notin w[j].sacked
  <2>1. w[j].number \in 1..Segments + 1 /\ AckOK(w[j], r, t)
    BY <1>1, AckTypes
  <2>2. n \notin w[j].sacked
    BY <1>2, <2>1 DEF AckOK
  <2>3. w[j].number <= n
    <3> SUFFICES ASSUME ~(w[j].number <= n) PROVE FALSE
      OBVIOUS
    <3>1. n \in 1..w[j].number - 1
      BY <1>2, <1>3, <2>1
    <3> QED  BY <1>2, <2>1, <3>1 DEF AckOK
  <2> QED  BY <2>2, <2>3
<1>12. InOrder(bs)
  <2> SUFFICES ASSUME NEW j \in 1..Len(bs), NEW k \in 1..Len(bs), j <= k
               PROVE  /\ bs[j].number <= bs[k].number
                      /\ bs[k].number \notin bs[j].sacked
    BY DEF InOrder
  <2>1. CASE k \in 1..Len(w)
    <3>1. j \in 1..Len(w)
      BY <1>8, <2>1
    <3> QED  BY <1>1, <1>8, <2>1, <3>1 DEF InOrder
  <2>2. CASE k = Len(w) + 1 /\ j \in 1..Len(w)
    BY <1>6, <1>8, <1>11, <2>2
  <2>3. CASE k = Len(w) + 1 /\ j = k
    BY <1>2, <1>6, <1>8, <2>3
  <2> QED  BY <1>9, <2>1, <2>2, <2>3
<1> QED  BY <1>8, <1>10, <1>12 DEF WireOK, bs, a, n

\* An acknowledgement arrives, at no one or at the sender.
LEMMA WireLeaves ==
  ASSUME NEW w, NEW r, NEW t, NEW u, WireOK(w, r, t), w # <<>>,
         Scoreboard(t), Scoreboard(u),
         u.firstByteSeq \in {t.firstByteSeq, Head(w).number},
         u.nextByteSeq >= t.nextByteSeq,
         u.sacked \subseteq t.sacked \cup Head(w).sacked
  PROVE  /\ Head(w) = w[1]
         /\ 1 \in 1..Len(w)
         /\ WireOK(Tail(w), r, u)
<1> DEFINE bs == Tail(w)
           a == w[1]
<1>1. /\ w \in Seq(Ack) /\ r \in SUBSET SegmentNos
      /\ \A k \in 1..Len(w) : AckOK(w[k], r, t)
      /\ InOrder(w)
  BY DEF WireOK
<1>2. Len(w) \in Nat /\ Len(w) > 0
  BY <1>1, LenProperties, EmptySeq
<1>3. /\ Head(w) = a
      /\ bs \in Seq(Ack) /\ Len(bs) = Len(w) - 1
      /\ \A k \in 1..Len(bs) : bs[k] = w[k + 1]
  BY <1>1, HeadTailProperties
<1>4. 1 \in 1..Len(w)
  BY <1>2
<1>5. AckOK(a, r, t) /\ a.number \in 1..Segments + 1
  BY <1>1, <1>4, AckTypes
<1> HIDE DEF bs
<1>6. ASSUME NEW k \in 1..Len(bs)
      PROVE  k + 1 \in 1..Len(w) /\ bs[k] = w[k + 1] /\ 1 <= k + 1
  BY <1>2, <1>3
<1>7. /\ t.nextByteSeq \in Int /\ u.nextByteSeq \in Int
      /\ t.firstByteSeq \in Int /\ u.firstByteSeq \in Int
  BY ScoreboardBounds
<1>8. ASSUME NEW k \in 1..Len(bs) PROVE AckOK(bs[k], r, u)
  <2> DEFINE b == bs[k]
  <2>1. /\ AckOK(b, r, t)
        /\ a.number <= b.number /\ b.number \notin a.sacked
        /\ b.number \in 1..Segments + 1
    <3>1. k + 1 \in 1..Len(w) /\ b = w[k + 1] /\ 1 <= k + 1
      BY <1>6
    <3> HIDE DEF b
    <3> QED  BY <1>1, <1>4, <3>1, AckTypes DEF InOrder
  <2> HIDE DEF b
  <2>2. b.number \notin u.sacked
    BY <1>3, <2>1 DEF AckOK
  <2>3. u.firstByteSeq <= b.number
    BY <1>3, <2>1 DEF AckOK
  <2>4. b.number <= u.nextByteSeq
    <3>1. b.number <= t.nextByteSeq /\ b.number \in Int
      BY <2>1 DEF AckOK
    <3> QED  BY <1>7, <3>1
  <2> QED  BY <2>1, <2>2, <2>3, <2>4 DEF AckOK, b
<1>9. InOrder(bs)
  <2> SUFFICES ASSUME NEW j \in 1..Len(bs), NEW k \in 1..Len(bs), j <= k
               PROVE  /\ bs[j].number <= bs[k].number
                      /\ bs[k].number \notin bs[j].sacked
    BY DEF InOrder
  <2>1. j + 1 \in 1..Len(w) /\ k + 1 \in 1..Len(w) /\ j + 1 <= k + 1
    BY <1>6
  <2> QED  BY <1>1, <1>6, <2>1 DEF InOrder
<1>10. \A i \in r : i < u.nextByteSeq
  <2>1. \A i \in r : i \in Int /\ i < t.nextByteSeq
    BY BufferAssumption DEF WireOK, SegmentNos
  <2> QED  BY <1>7, <2>1
<1>11. 1..u.firstByteSeq - 1 \subseteq r /\ u.sacked \subseteq r
  <2>1. 1..u.firstByteSeq - 1 \subseteq r
    <3>1. CASE u.firstByteSeq = t.firstByteSeq
      BY <3>1 DEF WireOK
    <3>2. CASE u.firstByteSeq = Head(w).number
      BY <1>3, <1>5, <3>2 DEF AckOK
    <3> QED  BY <3>1, <3>2
  <2> QED  BY <1>3, <1>5, <2>1 DEF WireOK, AckOK
<1> QED  BY <1>1, <1>3, <1>4, <1>8, <1>9, <1>10, <1>11 DEF WireOK, bs

-------------------------------------------------------------------------------
\* (7) The inductive invariant of the loop.

\* The sender has sent once what it puts on the link again, and the receiver
\* has what the device put on its link.
SentInv ==
  /\ SenderOK(snd)
  /\ \A u \in SegmentNos : copies[u] > 0 => u < snd.buf.nextByteSeq
  /\ rcv \in Receiver
  /\ rcv.received \subseteq UidsOf(sent)

LoopInv ==
  /\ D!IInv
  /\ D!HandOverInv
  /\ BooksInv
  /\ SentInv
  /\ WireOK(acks, rcv.received, snd.buf)
  /\ losses \in 0..MaxLosses

-------------------------------------------------------------------------------
\* Steps of the device.

\* What Penny sees in a step of the device is the packet that is handed over.
LEMMA DeviceStepKeepsBooks ==
  ASSUME D!IInv, D!HandOverInv, BooksInv, D!Next, PennyListens
  PROVE  /\ D!IInv' /\ D!HandOverInv' /\ BooksInv'
         /\ sent' = sent \/ \E q \in D!Packets : sent' = sent \cup {q}
<1>1. D!IInv'
  BY D!NextInv, DeviceConstants
<1>2. D!StepOfDevice
  BY D!StepHandsOver, DeviceConstants
<1>3. AtDevice = D!InDevice /\ AtDevice' = D!InDevice'
  BY DEF AtDevice, D!InDevice, ToSet, D!ToSet
<1>4. BooksInv'
  <2>1. CASE D!HandsOverNone
    <3>1. AtDevice' \ AtDevice = {}
      BY <1>3, <2>1 DEF D!HandsOverNone
    <3>2. UNCHANGED flow
      BY <3>1 DEF PennyListens
    <3> QED  BY <2>1, <3>2, BooksStay DEF D!HandsOverNone
  <2>2. ASSUME NEW p \in D!Packets, D!HandsOver(p) PROVE BooksInv'
    <3>1. AtDevice' \ AtDevice = {p} /\ p.uid \in SegmentNos
      BY <1>3, <2>2 DEF D!HandsOver, D!Packets
    <3>2. \/ asked' = asked /\ Penny!Forward(PacketOf(p.uid))
          \/ asked' = asked \cup {p} /\ Penny!Drop(PacketOf(p.uid))
      BY <3>1 DEF PennyListens
    <3> QED  BY <2>2, <3>1, <3>2, BooksForward, BooksDrop
  <2> QED  BY <1>2, <2>1, <2>2 DEF D!StepOfDevice
<1> QED  BY <1>1, <1>2, <1>4 DEF D!StepOfDevice, D!Transmits

\* What the device has transmitted has arrived there before.
SentArrived == \A q \in sent : q.uid \in SegmentNos /\ copies[q.uid] > 0

\* It holds of every state of the device.
LEMMA SentHasArrived == D!IInv => SentArrived
<1> SUFFICES ASSUME D!IInv, NEW q \in sent
             PROVE  q.uid \in SegmentNos /\ copies[q.uid] > 0
  BY DEF SentArrived
<1>1. q \in D!Packets /\ q.copy <= copies[q.uid]
  BY DEF D!IInv, D!DeviceInv, D!MarksOK, D!Arrived
<1>2. q.uid \in SegmentNos /\ q.copy \in Nat /\ q.copy >= 1
  BY <1>1, DeviceConstants DEF D!Packets, D!DeviceAssumption
<1>3. copies[q.uid] \in Nat
  BY <1>2, DeviceConstants DEF D!IInv, D!TypeOK, D!DeviceAssumption
<1>4. copies[q.uid] > 0
  BY <1>1, <1>2, <1>3
<1> QED  BY <1>2, <1>4

\* An acknowledgement is sent.
LEMMA SendAckKeeps ==
  ASSUME NEW r, NEW t, WireOK(acks, r, t), Scoreboard(t), SendAck(r)
  PROVE  /\ WireOK(acks', r, t)
         /\ rcv' \in Receiver
         /\ rcv'.received = r
<1>1. r \in SUBSET SegmentNos
  BY DEF WireOK
<1>2. rcv' = [received |-> r, delAckCount |-> 0]
  BY DEF SendAck
<1>3. rcv' \in Receiver /\ rcv'.received = r
  BY <1>1, <1>2 DEF Receiver
<1>4. acks' = Append(acks, [number |-> NextRxSequence(r),
                            sacked |-> {i \in r : i > NextRxSequence(r)}])
  BY DEF SendAck
<1> QED  BY <1>3, <1>4, WireAnswers

\* What is transmitted is received or lost.
LEMMA TransmittedKeeps ==
  ASSUME NEW b, Scoreboard(b), WireOK(acks, rcv.received, b),
         rcv \in Receiver, rcv.received \subseteq UidsOf(sent),
         losses \in 0..MaxLosses,
         sent' = sent \/ \E q \in D!Packets : sent' = sent \cup {q},
         \A q \in sent' : q.uid \in SegmentNos /\ q.uid < b.nextByteSeq,
         Transmitted
  PROVE  /\ WireOK(acks', rcv'.received, b)
         /\ rcv' \in Receiver
         /\ rcv'.received \subseteq UidsOf(sent')
         /\ losses' \in 0..MaxLosses
<1>1. rcv.received \subseteq UidsOf(sent')
  BY DEF UidsOf
<1>2. CASE UNCHANGED <<rcv, acks, losses>>
  BY <1>1, <1>2
<1>3. CASE LoseOne /\ UNCHANGED <<rcv, acks>>
  <2>1. losses' \in 0..MaxLosses
    BY <1>3, ClosedLoopAssumption DEF LoseOne
  <2> QED  BY <1>1, <1>3, <2>1
<1>4. ASSUME NEW p \in sent', ReceivedData(p.uid), UNCHANGED losses
      PROVE  /\ WireOK(acks', rcv'.received, b)
             /\ rcv' \in Receiver
             /\ rcv'.received \subseteq UidsOf(sent')
             /\ losses' \in 0..MaxLosses
  <2> DEFINE r == rcv.received \cup {p.uid}
  <2>1. p.uid \in SegmentNos /\ p.uid < b.nextByteSeq /\ p.uid \in UidsOf(sent')
    BY DEF UidsOf
  <2>2. r \in SUBSET SegmentNos /\ r \subseteq UidsOf(sent')
    BY <1>1, <2>1 DEF WireOK
  <2>3. \A i \in r : i < b.nextByteSeq
    BY <2>1 DEF WireOK
  <2>4. rcv.received \subseteq r
    OBVIOUS
  <2> HIDE DEF r
  <2>5. WireOK(acks, r, b)
    BY <2>2, <2>3, <2>4, WireReceives
  <2>6. \/ /\ rcv' = [received |-> r, delAckCount |-> rcv.delAckCount + 1]
           /\ rcv.delAckCount + 1 < 2
           /\ UNCHANGED acks
        \/ SendAck(r)
    BY <1>4 DEF ReceivedData, MayDelayAck, r
  <2>7. CASE SendAck(r)
    BY <1>4, <2>2, <2>5, <2>7, SendAckKeeps
  <2>8. CASE /\ rcv' = [received |-> r, delAckCount |-> rcv.delAckCount + 1]
             /\ rcv.delAckCount + 1 < 2
             /\ UNCHANGED acks
    <3>1. rcv.delAckCount + 1 \in 0..2
      BY <2>8 DEF Receiver
    <3>2. rcv' \in Receiver /\ rcv'.received = r
      BY <2>2, <2>8, <3>1 DEF Receiver
    <3> QED  BY <1>4, <2>2, <2>5, <2>8, <3>2
  <2> QED  BY <2>6, <2>7, <2>8
<1> QED  BY <1>2, <1>3, <1>4 DEF Transmitted

\* A step of the device, at most the link of the sender changing with it.
LEMMA DeviceStepKeepsInv ==
  ASSUME LoopInv, D!Next, PennyListens, Transmitted,
         SenderOK(snd'), snd'.buf = snd.buf,
         \A u \in SegmentNos : copies'[u] > 0 => u < snd.buf.nextByteSeq
  PROVE  LoopInv'
<1> DEFINE b == snd.buf
<1>1. /\ D!IInv' /\ D!HandOverInv' /\ BooksInv'
      /\ sent' = sent \/ \E q \in D!Packets : sent' = sent \cup {q}
  BY DeviceStepKeepsBooks DEF LoopInv
<1>2. SentArrived'
  BY <1>1, SentHasArrived, PTL
<1>3. \A q \in sent' : q.uid \in SegmentNos /\ q.uid < b.nextByteSeq
  BY <1>2 DEF SentArrived
<1>4. /\ Scoreboard(b) /\ WireOK(acks, rcv.received, b)
      /\ rcv \in Receiver /\ rcv.received \subseteq UidsOf(sent)
      /\ losses \in 0..MaxLosses
  BY DEF LoopInv, SentInv, SenderOK, SocketOK
<1> HIDE DEF b
<1>5. /\ WireOK(acks', rcv'.received, b)
      /\ rcv' \in Receiver
      /\ rcv'.received \subseteq UidsOf(sent')
      /\ losses' \in 0..MaxLosses
  BY <1>1, <1>3, <1>4, TransmittedKeeps
<1>6. SentInv'
  BY <1>5 DEF SentInv, UidsOf
<1> QED  BY <1>1, <1>5, <1>6 DEF LoopInv, b

-------------------------------------------------------------------------------
\* Steps of the others.

\* The device and the books, in a step that does not concern the device.
LEMMA DeviceRests ==
  ASSUME LoopInv, UNCHANGED devVars, UNCHANGED flow \/ Penny!Tick
  PROVE  /\ D!IInv' /\ D!HandOverInv' /\ BooksInv'
         /\ copies' = copies /\ UidsOf(sent') = UidsOf(sent)
<1>1. UNCHANGED D!vars
  BY DEF devVars, D!vars, D!devVars
<1>2. D!IInv'
  BY <1>1, D!NextInv, DeviceConstants DEF LoopInv
<1>3. D!HandedOver' = D!HandedOver /\ asked' = asked
  BY <1>1 DEF D!HandedOver, D!vars, D!devVars
<1>4. D!HandOverInv'
  BY <1>1, <1>3 DEF LoopInv, D!HandOverInv, D!vars, D!devVars
<1>5. BooksInv'
  BY <1>3, BooksStay DEF LoopInv
<1> QED  BY <1>2, <1>4, <1>5 DEF devVars

\* A segment leaves the link of the sender.
LEMMA LeaveLinkKeeps ==
  ASSUME SenderOK(snd), LeaveLink
  PROVE  /\ SenderOK(snd')
         /\ snd'.buf = snd.buf
         /\ Head(snd.out) \in SegmentNos
         /\ Head(snd.out) < snd.buf.nextByteSeq
<1> DEFINE o == snd.out
           n == snd.buf.nextByteSeq
           t == Tail(o)
<1>1. /\ o \in Seq(SegmentNos) /\ o # <<>> /\ snd \in Socket
      /\ \A k \in 1..Len(o) : o[k] < n
  BY DEF SenderOK, SocketOK, Socket, LeaveLink
<1>2. snd' = [snd EXCEPT !.out = t]
  BY DEF LeaveLink
<1> HIDE DEF o, n
<1>3. Len(o) \in Nat /\ Len(o) > 0
  BY <1>1, LenProperties, EmptySeq
<1>4. /\ Head(o) = o[1] /\ t \in Seq(SegmentNos)
      /\ Len(t) = Len(o) - 1
      /\ \A k \in 1..Len(t) : t[k] = o[k + 1]
  BY <1>1, HeadTailProperties
<1> HIDE DEF t
<1>5. 1 \in 1..Len(o) /\ \A k \in 1..Len(t) : k + 1 \in 1..Len(o)
  BY <1>3, <1>4
<1>6. o[1] \in SegmentNos
  BY <1>1, <1>5, ElementOfSeq
<1>7. \A k \in 1..Len(t) : t[k] < n
  BY <1>1, <1>4, <1>5
<1>8. /\ snd' \in Socket /\ snd'.out = t /\ snd'.buf = snd.buf
      /\ snd'.recover = snd.recover
      /\ snd'.recoverActive = snd.recoverActive
      /\ snd'.congState = snd.congState
      /\ snd'.dupAckCount = snd.dupAckCount
  BY <1>1, <1>2, <1>4 DEF Socket
<1>9. SenderOK(snd')
  BY <1>7, <1>8 DEF SenderOK, SocketOK, n
<1> QED  BY <1>1, <1>4, <1>5, <1>6, <1>8, <1>9 DEF o, n

\* A segment arrives at the device.
LEMMA ArriveKeepsLoop ==
  ASSUME LoopInv, Arrive
  PROVE  LoopInv'
<1> DEFINE u == Head(snd.out)
           n == snd.buf.nextByteSeq
<1>1. /\ SenderOK(snd') /\ snd'.buf = snd.buf
      /\ u \in SegmentNos /\ u < n
  BY LeaveLinkKeeps DEF Arrive, LoopInv, SentInv
<1>2. D!Arrive(u)
  BY SameDevice DEF Arrive
<1>3. D!Next
  BY <1>1, <1>2 DEF D!Next
<1> HIDE DEF u
<1>4. copies' = [copies EXCEPT ![u] = @ + 1]
  BY <1>2 DEF D!Arrive
<1>5. DOMAIN copies = SegmentNos
  BY DEF LoopInv, D!IInv, D!TypeOK
<1>6. \A w \in SegmentNos : w # u => copies'[w] = copies[w]
  BY <1>4, <1>5
<1>7. \A w \in SegmentNos : copies'[w] > 0 => w < n
  BY <1>1, <1>6 DEF LoopInv, SentInv
<1> HIDE DEF n
<1> QED  BY <1>1, <1>3, <1>7, DeviceStepKeepsInv DEF Arrive, n

\* The other events of the device.
LEMMA DeviceKeepsLoop ==
  ASSUME LoopInv, WakeUp \/ TransmitComplete
  PROVE  LoopInv'
<1>1. D!Next /\ PennyListens /\ Transmitted /\ snd' = snd
  BY SameDevice DEF D!Next, WakeUp, TransmitComplete
<1>2. copies' = copies
  BY SameDevice DEF WakeUp, TransmitComplete, D!WakeUp, D!TransmitComplete
<1>3. SenderOK(snd') /\ snd'.buf = snd.buf
  BY <1>1 DEF LoopInv, SentInv
<1>4. \A u \in SegmentNos : copies'[u] > 0 => u < snd.buf.nextByteSeq
  BY <1>2 DEF LoopInv, SentInv
<1> QED  BY <1>1, <1>3, <1>4, DeviceStepKeepsInv

\* A segment is lost on its way to the device.
LEMMA LostKeepsLoop ==
  ASSUME LoopInv, Lost
  PROVE  LoopInv'
<1>1. SenderOK(snd') /\ snd'.buf = snd.buf
  BY LeaveLinkKeeps DEF Lost, LoopInv, SentInv
<1>2. /\ D!IInv' /\ D!HandOverInv' /\ BooksInv'
      /\ copies' = copies /\ UidsOf(sent') = UidsOf(sent)
      /\ UNCHANGED <<rcv, acks>>
  BY DeviceRests DEF Lost
<1>3. losses' \in 0..MaxLosses
  BY ClosedLoopAssumption DEF Lost, LoseOne, LoopInv
<1>4. SentInv'
  BY <1>1, <1>2 DEF LoopInv, SentInv
<1> QED  BY <1>1, <1>2, <1>3, <1>4 DEF LoopInv

\* The receiver's timer expires.
LEMMA DelAckTimeoutKeepsLoop ==
  ASSUME LoopInv, DelAckTimeout
  PROVE  LoopInv'
<1>1. /\ D!IInv' /\ D!HandOverInv' /\ BooksInv'
      /\ copies' = copies /\ UidsOf(sent') = UidsOf(sent)
      /\ UNCHANGED <<snd, losses>>
  BY DeviceRests DEF DelAckTimeout
<1>2. /\ WireOK(acks', rcv.received, snd.buf)
      /\ rcv' \in Receiver
      /\ rcv'.received = rcv.received
  BY SendAckKeeps DEF LoopInv, SentInv, SenderOK, SocketOK, DelAckTimeout
<1>3. SentInv'
  BY <1>1, <1>2 DEF LoopInv, SentInv
<1> QED  BY <1>1, <1>2, <1>3 DEF LoopInv

\* The sender moves on: what it has sent stays sent.
LEMMA SenderMovesOn ==
  ASSUME LoopInv, SenderOK(snd'), snd'.buf.nextByteSeq >= snd.buf.nextByteSeq,
         copies' = copies, UidsOf(sent') = UidsOf(sent), rcv' = rcv
  PROVE  SentInv'
<1>1. snd.buf.nextByteSeq \in Int /\ snd'.buf.nextByteSeq \in Int
  <2>1. Scoreboard(snd.buf) /\ Scoreboard(snd'.buf)
    BY DEF LoopInv, SentInv, SenderOK, SocketOK
  <2> QED  BY <2>1, ScoreboardBounds
<1>2. ASSUME NEW u \in SegmentNos, copies'[u] > 0
      PROVE  u < snd'.buf.nextByteSeq
  <2>1. u < snd.buf.nextByteSeq /\ u \in Int
    BY <1>2, BufferAssumption DEF LoopInv, SentInv, SegmentNos
  <2> QED  BY <1>1, <2>1
<1> QED  BY <1>2 DEF LoopInv, SentInv

\* An acknowledgement comes.
LEMMA GetAckKeepsLoop ==
  ASSUME LoopInv, GetAck
  PROVE  LoopInv'
<1> DEFINE a == Head(acks)
           t == snd.buf
           r == rcv.received
<1>1. /\ D!IInv' /\ D!HandOverInv' /\ BooksInv'
      /\ copies' = copies /\ UidsOf(sent') = UidsOf(sent)
      /\ UNCHANGED <<rcv, losses>>
  BY DeviceRests DEF GetAck
<1>2. /\ WireOK(acks, r, t) /\ Scoreboard(t) /\ SenderOK(snd)
      /\ acks # <<>> /\ acks' = Tail(acks)
  BY DEF LoopInv, SentInv, SenderOK, SocketOK, GetAck, ReceiveAck
<1> HIDE DEF t, r
<1>3. /\ WireOK(Tail(acks), r, t)
      /\ a = acks[1] /\ 1 \in 1..Len(acks)
  <2>1. t.nextByteSeq >= t.nextByteSeq
    BY <1>2, ScoreboardBounds
  <2> QED  BY <1>2, <2>1, WireLeaves
<1>4. /\ AckOK(a, r, t)
      /\ a.number \in 1..Segments + 1 /\ a.sacked \in SUBSET SegmentNos
  BY <1>2, <1>3, AckTypes DEF WireOK
<1>5. ASSUME snd' = snd PROVE LoopInv'
  <2>1. SentInv'
    BY <1>1, <1>5 DEF LoopInv, SentInv
  <2> QED  BY <1>1, <1>2, <1>3, <1>5, <2>1 DEF LoopInv, r, t
<1>6. ASSUME NEW window \in 1..Window,
             snd' = ReceivedAck(snd, a.number, a.sacked, window)
      PROVE  LoopInv'
  <2>1. /\ SenderOK(snd')
        /\ snd'.buf.firstByteSeq = a.number
        /\ snd'.buf.nextByteSeq >= snd.buf.nextByteSeq
        /\ snd'.buf.sacked \subseteq snd.buf.sacked \cup a.sacked
    <3>1. window \in Nat
      BY ClosedLoopAssumption
    <3>2. /\ snd.buf.firstByteSeq <= a.number
          /\ a.number <= snd.buf.nextByteSeq
          /\ a.number \notin snd.buf.sacked
          /\ \A i \in a.sacked : i > a.number
      BY <1>4 DEF AckOK, t
    <3> HIDE DEF a
    <3> DEFINE n == a.number
               blocks == a.sacked
               v == ReceivedAck(snd, n, blocks, window)
    <3>3. /\ n \in 1..Segments + 1 /\ blocks \in SUBSET SegmentNos
          /\ snd.buf.firstByteSeq <= n /\ n <= snd.buf.nextByteSeq
          /\ n \notin snd.buf.sacked
          /\ \A i \in blocks : i > n
      BY <1>4, <3>2
    <3>4. snd' = v
      BY <1>6
    <3> HIDE DEF n, blocks
    <3>5. /\ SenderOK(v)
          /\ v.buf.firstByteSeq = n
          /\ v.buf.nextByteSeq >= snd.buf.nextByteSeq
          /\ v.buf.sacked \subseteq snd.buf.sacked \cup blocks
          /\ v.connected = snd.connected
          /\ TimerOK(snd) => TimerOK(v)
      BY <1>2, <3>1, <3>3, ReceivedAckOK
    <3> HIDE DEF v
    <3> QED  BY <3>4, <3>5, Zenon DEF n, blocks
  <2>2. SentInv'
    BY <1>1, <2>1, SenderMovesOn
  <2> DEFINE u == snd'.buf
  <2>3. /\ Scoreboard(u)
        /\ u.firstByteSeq \in {t.firstByteSeq, a.number}
        /\ u.nextByteSeq >= t.nextByteSeq
        /\ u.sacked \subseteq t.sacked \cup a.sacked
    BY <2>1 DEF SenderOK, SocketOK, t
  <2> HIDE DEF u
  <2>4. WireOK(Tail(acks), r, u)
    BY <1>2, <2>3, WireLeaves
  <2> QED  BY <1>1, <1>2, <2>2, <2>4 DEF LoopInv, r, u
<1> QED  BY <1>5, <1>6 DEF GetAck

\* The retransmission timer expires.
LEMMA RetxTimeoutKeepsLoop ==
  ASSUME LoopInv, RetxTimeout
  PROVE  LoopInv'
<1>1. /\ D!IInv' /\ D!HandOverInv' /\ BooksInv'
      /\ copies' = copies /\ UidsOf(sent') = UidsOf(sent)
      /\ UNCHANGED <<rcv, losses, acks>>
  BY DeviceRests DEF RetxTimeout
<1>2. /\ SenderOK(snd')
      /\ snd'.buf.firstByteSeq = snd.buf.firstByteSeq
      /\ snd'.buf.nextByteSeq >= snd.buf.nextByteSeq
      /\ snd'.buf.sacked \subseteq snd.buf.sacked
  BY ReTxTimeoutOK DEF RetxTimeout, LoopInv, SentInv
<1>3. SentInv'
  BY <1>1, <1>2, SenderMovesOn
<1>4. WireOK(acks, rcv.received, snd'.buf)
  <2> DEFINE t == snd.buf
             u == snd'.buf
  <2>1. /\ WireOK(acks, rcv.received, t) /\ Scoreboard(t) /\ Scoreboard(u)
        /\ u.firstByteSeq = t.firstByteSeq
        /\ u.nextByteSeq >= t.nextByteSeq
        /\ u.sacked \subseteq t.sacked
    BY <1>2 DEF LoopInv, SentInv, SenderOK, SocketOK
  <2> HIDE DEF t, u
  <2>2. WireOK(acks, rcv.received, u)
    BY <2>1, WireSends
  <2> QED  BY <2>2 DEF u
<1> QED  BY <1>1, <1>3, <1>4 DEF LoopInv

\* A second passes.
LEMMA TickKeepsLoop ==
  ASSUME LoopInv, Tick
  PROVE  LoopInv'
<1>1. /\ D!IInv' /\ D!HandOverInv' /\ BooksInv'
      /\ copies' = copies /\ UidsOf(sent') = UidsOf(sent)
      /\ UNCHANGED <<rcv, losses, acks>>
  BY DeviceRests DEF Tick
<1>2. snd \in Socket /\ snd.retxEvent # 0
  BY DEF Tick, LoopInv, SentInv, SenderOK, SocketOK
<1> DEFINE e == IF snd.retxEvent = Off THEN Off ELSE snd.retxEvent - 1
<1>3. snd' = [snd EXCEPT !.retxEvent = e]
  BY DEF Tick
<1>4. e \in Off..MaxRto
  BY <1>2 DEF Socket, Off, MaxRto
<1> HIDE DEF e
<1>5. /\ snd' \in Socket /\ snd'.out = snd.out /\ snd'.buf = snd.buf
      /\ snd'.recover = snd.recover
      /\ snd'.recoverActive = snd.recoverActive
      /\ snd'.congState = snd.congState
      /\ snd'.dupAckCount = snd.dupAckCount
  BY <1>2, <1>3, <1>4 DEF Socket
<1>6. SenderOK(snd')
  BY <1>5 DEF LoopInv, SentInv, SenderOK, SocketOK
<1>7. SentInv'
  BY <1>1, <1>5, <1>6 DEF LoopInv, SentInv
<1> QED  BY <1>1, <1>5, <1>7 DEF LoopInv

\* Every step keeps the invariant of the loop.
LEMMA NextKeepsLoop == LoopInv /\ [Next]_vars => LoopInv'
<1> SUFFICES ASSUME LoopInv, [Next]_vars PROVE LoopInv'
  OBVIOUS
<1>1. CASE UNCHANGED vars
  <2>1. /\ D!IInv' /\ D!HandOverInv' /\ BooksInv'
        /\ copies' = copies /\ UidsOf(sent') = UidsOf(sent)
        /\ UNCHANGED <<rcv, losses, acks, snd>>
    BY <1>1, DeviceRests DEF vars
  <2>2. SentInv'
    BY <2>1 DEF LoopInv, SentInv
  <2> QED  BY <2>1, <2>2 DEF LoopInv
<1> QED  BY <1>1, ArriveKeepsLoop, DeviceKeepsLoop, LostKeepsLoop,
            DelAckTimeoutKeepsLoop, GetAckKeepsLoop, RetxTimeoutKeepsLoop,
            TickKeepsLoop DEF Next

\* The invariant holds at first.
LEMMA InitLoop == Init => LoopInv
<1> SUFFICES ASSUME Init PROVE LoopInv
  OBVIOUS
<1>1. D!Init /\ Penny!Init
  BY SameDevice DEF Init
<1>2. D!IInv
  BY <1>1, D!InitInv, DeviceConstants
<1>3. /\ copies = [u \in SegmentNos |-> 0] /\ asked = {}
      /\ currentPkt = NoPacket /\ lossEnabled = FALSE
  BY <1>1 DEF Init, D!Init
<1>4. D!HandOverInv
  BY <1>3 DEF D!HandOverInv
<1>5. BooksInv
  BY <1>1, BooksInit
<1>6. rcv = [received |-> {}, delAckCount |-> 2] /\ acks = <<>> /\ losses = 0
  BY DEF Init
<1>7. /\ SenderOK(snd)
      /\ snd.buf.firstByteSeq = NewSocket.buf.firstByteSeq
      /\ snd.buf.sacked \subseteq NewSocket.buf.sacked
  <2>1. PICK w \in 1..Window : snd = SendPendingData(NewSocket, w)
    BY DEF Init
  <2>2. w \in Nat
    BY ClosedLoopAssumption
  <2> QED  BY <2>1, <2>2, NewSocketOK, SendPendingDataOK DEF OnlySends
<1>8. snd.buf.firstByteSeq = 1 /\ snd.buf.sacked = {}
  BY <1>7 DEF NewSocket, NewTxBuffer
<1>9. SentInv
  <2>1. \A u \in SegmentNos : ~(copies[u] > 0)
    BY <1>3
  <2> QED  BY <1>6, <1>7, <2>1 DEF SentInv, Receiver
<1>10. WireOK(acks, rcv.received, snd.buf)
  <2>1. acks \in Seq(Ack) /\ Len(acks) = 0 /\ rcv.received = {}
    BY <1>6
  <2>2. 1..snd.buf.firstByteSeq - 1 = {}
    BY <1>8
  <2> QED  BY <1>8, <2>1, <2>2 DEF WireOK, InOrder
<1>11. losses \in 0..MaxLosses
  BY <1>6, ClosedLoopAssumption
<1> QED  BY <1>2, <1>4, <1>5, <1>9, <1>10, <1>11 DEF LoopInv

-------------------------------------------------------------------------------
\* (8) The theorems.

\* Every state of the loop is in the invariant.
THEOREM LoopInvariance == Spec => []LoopInv
  BY InitLoop, NextKeepsLoop, PTL DEF Spec

(***************************************************************************)
(* The socket, the receiver, the device and the flow keep their types,     *)
(* whatever is dropped or lost: in particular the retries, the counters of *)
(* the scoreboard and those of the flow, unsigned in the code, never go    *)
(* below zero.                                                             *)
(***************************************************************************)
THEOREM LoopTypes == Spec => []TypeOK
<1>1. LoopInv => TypeOK
  <2> SUFFICES ASSUME LoopInv PROVE TypeOK
    OBVIOUS
  <2>1. Penny!TypeOK
    <3>1. F!TypeOK
      BY F!InvNoWrapAround, FlowConstants
         DEF LoopInv, BooksInv, F!IInv, F!TypeOK, F!FlowInv
    <3> QED  BY <3>1, SameTypes
  <2>2. Device!TypeOK
    BY SameDevice DEF LoopInv, D!IInv
  <2> QED  BY <2>1, <2>2
           DEF LoopInv, SentInv, SenderOK, SocketOK, WireOK, TypeOK
<1> QED  BY <1>1, LoopInvariance, PTL

(***************************************************************************)
(* The assertions of the sender hold, for any length of the flow, window   *)
(* and threshold: the counters of its scoreboard are those of its flags    *)
(* (the check that the code switches off), every acknowledgement that      *)
(* comes is one that the scoreboard can rely on, and the duplicate         *)
(* acknowledgements of one episode are not carried over into the next.     *)
(***************************************************************************)
THEOREM AssertionsNeverFail == Spec => []AssertionsHold
<1>1. LoopInv => AssertionsHold
  <2> SUFFICES ASSUME LoopInv PROVE AssertionsHold
    OBVIOUS
  <2> DEFINE t == snd.buf
             a == Head(acks)
  <2>1. /\ Scoreboard(t) /\ SenderOK(snd) /\ snd \in Socket
        /\ WireOK(acks, rcv.received, t)
    BY DEF LoopInv, SentInv, SenderOK, SocketOK
  <2>2. ASSUME acks # <<>> PROVE Acceptable(a, t)
    <3> HIDE DEF t
    <3>1. /\ acks \in Seq(Ack) /\ Len(acks) \in Nat /\ Len(acks) > 0
      BY <2>1, <2>2, LenProperties, EmptySeq DEF WireOK
    <3>2. a = acks[1] /\ 1 \in 1..Len(acks)
      BY <2>2, <3>1, HeadTailProperties
    <3> HIDE DEF a
    <3>3. AckOK(a, rcv.received, t) /\ a.number \in 1..Segments + 1
      BY <2>1, <3>1, <3>2, AckTypes DEF WireOK
    <3>4. /\ t.nextByteSeq \in 1..Segments + 1
          /\ t.firstByteSeq \in 1..Segments + 1
          /\ Segments \in Nat
      BY <2>1, ScoreboardBounds, BufferAssumption
    <3>5. a.number \in 1..t.nextByteSeq
      BY <3>3, <3>4 DEF AckOK
    <3>6. a.number \notin a.sacked /\ t.firstByteSeq \notin a.sacked
      <4>1. \A i \in a.sacked : i > a.number
        BY <3>3 DEF AckOK
      <4>2. ~(a.number > a.number) /\ ~(t.firstByteSeq > a.number)
        BY <3>3, <3>4 DEF AckOK
      <4> QED  BY <4>1, <4>2
    <3> QED  BY <3>3, <3>5, <3>6 DEF Acceptable, AckOK
  <2>3. snd.congState = "DISORDER" => snd.dupAckCount <= DupThresh
    <3>1. snd.dupAckCount \in Nat /\ DupThresh \in Nat
      BY <2>1, BufferAssumption DEF Socket
    <3> QED  BY <2>1, <3>1 DEF SenderOK
  <2> QED  BY <2>1, <2>2, <2>3 DEF AssertionsHold, Scoreboard, SenderOK
<1> QED  BY <1>1, LoopInvariance, PTL

\* The drops of Penny's lists are of segments.
LEMMA IdsAreSegments ==
  ASSUME LoopInv
  PROVE  /\ \A u : Penny!SeqOf(Id(u)) = u
         /\ \A id \in Awaited \cup Expired :
              id = Id(Penny!SeqOf(id)) /\ Penny!SeqOf(id) \in SegmentNos
<1>1. \A u : Penny!SeqOf(Id(u)) = u
  BY DEF Penny!SeqOf, Id
<1>2. Awaited \subseteq F!PacketIds /\ Expired \subseteq F!PacketIds
  BY LateFinite
     DEF LoopInv, BooksInv, F!IInv, F!FlowInv, F!FlowTypeOK, Awaited, F!Pending
<1> QED  BY <1>1, <1>2, SegmentPackets

\* What the receiver has was handed over and not asked for.
LEMMA ReceivedWasLetThrough ==
  ASSUME LoopInv, NEW u \in rcv.received
  PROVE  \E q \in D!HandedOver \ asked : q.uid = u
<1>1. PICK q \in sent : q.uid = u
  BY DEF LoopInv, SentInv, UidsOf
<1>2. q \in D!HandedOver \ asked
  BY DEF LoopInv, D!IInv, D!DeviceInv, D!DropsWhatWasAsked, D!HandedOver
<1> QED  BY <1>1, <1>2

(***************************************************************************)
(* The receiver lacks what Penny waits for: a drop is pending only while   *)
(* the segment has not got past the device, because the first copy that    *)
(* does settles it, and a drop that was entered is also made.              *)
(***************************************************************************)
THEOREM PendingIsMissing == Spec => []UndeliveredWhilePending
<1>1. LoopInv => UndeliveredWhilePending
  <2> SUFFICES ASSUME LoopInv, NEW id \in Awaited,
                      Penny!SeqOf(id) \in rcv.received
               PROVE  FALSE
    BY DEF UndeliveredWhilePending, PendingNos, Penny!Pending, Awaited
  <2>1. PICK q \in D!HandedOver \ asked : q.uid = Penny!SeqOf(id)
    BY ReceivedWasLetThrough
  <2>2. Id(q.uid) = id
    BY <2>1, IdsAreSegments
  <2> QED  BY <2>1, <2>2 DEF LoopInv, BooksInv
<1> QED  BY <1>1, LoopInvariance, PTL

(***************************************************************************)
(* Penny's books, entered by sequence number before the packet is queued,  *)
(* are those of the device, which drops by uid when the packet leaves its  *)
(* queue: one copy of each segment that is entered, and no other.          *)
(***************************************************************************)
THEOREM BooksAgree == Spec => []BooksMatchDrops
<1>1. LoopInv => BooksMatchDrops
  <2> SUFFICES ASSUME LoopInv PROVE BooksMatchDrops
    OBVIOUS
  <2>1. dropped \subseteq asked /\ asked \cap sent = {}
    BY DEF LoopInv, D!IInv, D!DeviceInv, D!DropsWhatWasAsked, D!HandOverInv
  <2>2. asked \ dropped \subseteq ToSet(queue)
    BY <2>1 DEF LoopInv, D!HandOverInv, D!HandedOver, ToSet, D!ToSet
  <2>3. UidsOf(asked) = {Penny!SeqOf(id) : id \in DOMAIN flow.droppedPktsDecision}
    <3>1. Entered = {Id(p.uid) : p \in asked}
      BY DEF LoopInv, BooksInv
    <3>2. \A u : Penny!SeqOf(Id(u)) = u
      BY IdsAreSegments
    <3>3. {Penny!SeqOf(id) : id \in Entered} = UidsOf(asked)
      BY <3>1, <3>2, Zenon DEF UidsOf
    <3> QED  BY <3>3 DEF Entered
  <2>4. Cardinality(asked) = Cardinality(UidsOf(asked))
    <3> DEFINE U == UidsOf(asked)
               g == [u \in U |-> CHOOSE p \in asked : p.uid = u]
    <3>1. \A u \in U : g[u] \in asked /\ g[u].uid = u
      BY DEF UidsOf
    <3>2. \A p \in asked : p.uid \in U
      BY DEF UidsOf
    <3>3. \A p, q \in asked : p.uid = q.uid => p = q
      BY DEF LoopInv, BooksInv
    <3>4. g \in [U -> asked]
      BY <3>1
    <3>5. U \subseteq SegmentNos
      BY DEF LoopInv, D!IInv, D!TypeOK, D!Packets, UidsOf
    <3> HIDE DEF g, U
    <3>6. g \in Bijection(U, asked)
      <4>1. \A u, w \in U : g[u] = g[w] => u = w
        BY <3>1
      <4>2. \A p \in asked : g[p.uid] = p
        BY <3>1, <3>2, <3>3
      <4> QED  BY <3>2, <3>4, <4>1, <4>2
               DEF Bijection, Injection, Surjection, IsInjective
    <3>7. IsFiniteSet(U)
      <4>1. IsFiniteSet(SegmentNos)
        BY BufferAssumption, FS_Interval DEF SegmentNos
      <4> QED  BY <3>5, <4>1, FS_Subset
    <3>8. Cardinality(asked) = Cardinality(U)
      BY <3>6, <3>7, FS_Bijection DEF ExistsBijection
    <3> QED  BY <3>8 DEF U
  <2> QED  BY <2>1, <2>2, <2>3, <2>4 DEF BooksMatchDrops
<1> QED  BY <1>1, LoopInvariance, PTL

(***************************************************************************)
(* A retransmission that is seen after its drop has expired counts twice   *)
(* against the flow: the drops that expired although their segment was     *)
(* delivered are no more than the packets counted as duplicates.           *)
(***************************************************************************)
THEOREM LateCountsTwice == Spec => []LateIsDuplicate
<1>1. LoopInv => LateIsDuplicate
  <2> SUFFICES ASSUME LoopInv PROVE LateIsDuplicate
    OBVIOUS
  <2> DEFINE S == {id \in Expired : Penny!SeqOf(id) \in rcv.received}
  <2>1. S \subseteq Late
    <3> SUFFICES ASSUME NEW id \in S PROVE id \in Late
      OBVIOUS
    <3>1. PICK q \in D!HandedOver \ asked : q.uid = Penny!SeqOf(id)
      BY ReceivedWasLetThrough
    <3>2. Id(q.uid) = id
      BY <3>1, IdsAreSegments
    <3> QED  BY <3>1, <3>2 DEF Late
  <2>2. /\ IsFiniteSet(Late) /\ Cardinality(Late) <= Duplicates
        /\ Duplicates \in Nat
    BY LateFinite DEF LoopInv, BooksInv
  <2> HIDE DEF S
  <2>3. /\ Cardinality(S) <= Cardinality(Late)
        /\ Cardinality(S) \in Nat /\ Cardinality(Late) \in Nat
    BY <2>1, <2>2, FS_Subset, FS_CardinalityType
  <2>4. Cardinality(S) <= Duplicates
    BY <2>2, <2>3
  <2> QED  BY <2>4 DEF LateIsDuplicate, Duplicates, S
<1> QED  BY <1>1, LoopInvariance, PTL

-------------------------------------------------------------------------------
\* (9) The loop as a reliable transfer.

\* What a step does to the sender's side of the transfer.
Acked == snd.buf.firstByteSeq

\* In a step of the device or the receiver, the sender is where it was.
LEMMA SenderStays ==
  ASSUME LoopInv, TimerOK(snd), [Next]_vars, ~GetAck, ~RetxTimeout
  PROVE  /\ TimerOK(snd')
         /\ Acked' = Acked
         /\ snd'.connected = snd.connected
<1>1. snd \in Socket
  BY DEF LoopInv, SentInv, SenderOK, SocketOK
<1>2. CASE LeaveLink
  <2>1. snd' = [snd EXCEPT !.out = Tail(snd.out)]
    BY <1>2 DEF LeaveLink
  <2>2. /\ snd'.buf = snd.buf /\ snd'.retxEvent = snd.retxEvent
        /\ snd'.connected = snd.connected
    BY <1>1, <2>1 DEF Socket
  <2> QED  BY <2>2 DEF TimerOK, Acked
<1>3. CASE snd' = snd
  BY <1>3 DEF Acked
<1>4. CASE Tick
  <2> DEFINE e == IF snd.retxEvent = Off THEN Off ELSE snd.retxEvent - 1
  <2>1. snd' = [snd EXCEPT !.retxEvent = e]
    BY <1>4 DEF Tick
  <2>2. snd.retxEvent = Off => e = Off
    OBVIOUS
  <2> HIDE DEF e
  <2>3. /\ snd'.buf = snd.buf /\ snd'.retxEvent = e
        /\ snd'.connected = snd.connected
    BY <1>1, <2>1 DEF Socket
  <2> QED  BY <2>2, <2>3 DEF TimerOK, Acked
<1>5. LeaveLink \/ snd' = snd \/ Tick
  BY DEF Next, Arrive, Lost, WakeUp, TransmitComplete, DelAckTimeout, vars
<1> QED  BY <1>2, <1>3, <1>4, <1>5

\* An acknowledgement moves the sender on, as far as the receiver has got.
LEMMA GetAckMovesOn ==
  ASSUME LoopInv, TimerOK(snd), GetAck
  PROVE  /\ TimerOK(snd')
         /\ Acked' >= Acked
         /\ snd'.connected = snd.connected
         /\ ~snd.connected => Acked' = Acked
<1> DEFINE a == Head(acks)
           t == snd.buf
           r == rcv.received
<1>1. /\ WireOK(acks, r, t) /\ Scoreboard(t) /\ SenderOK(snd) /\ acks # <<>>
  BY DEF LoopInv, SentInv, SenderOK, SocketOK, GetAck, ReceiveAck
<1>2. Acked \in Int
  BY <1>1, ScoreboardBounds DEF Acked
<1> HIDE DEF t, r
<1>3. a = acks[1] /\ 1 \in 1..Len(acks)
  <2>1. t.nextByteSeq >= t.nextByteSeq
    BY <1>1, ScoreboardBounds
  <2> QED  BY <1>1, <2>1, WireLeaves
<1>4. /\ AckOK(a, r, t)
      /\ a.number \in 1..Segments + 1 /\ a.sacked \in SUBSET SegmentNos
  BY <1>1, <1>3, AckTypes DEF WireOK
<1>5. CASE ~snd.connected
  <2>1. snd' = snd
    BY <1>5 DEF GetAck
  <2> QED  BY <1>2, <2>1 DEF Acked
<1>6. CASE snd.connected
  <2>1. PICK window \in 1..Window :
          snd' = ReceivedAck(snd, a.number, a.sacked, window)
    BY <1>6 DEF GetAck
  <2>2. window \in Nat
    BY ClosedLoopAssumption
  <2> DEFINE n == a.number
             blocks == a.sacked
             v == ReceivedAck(snd, n, blocks, window)
  <2>3. /\ n \in 1..Segments + 1 /\ blocks \in SUBSET SegmentNos
        /\ snd.buf.firstByteSeq <= n /\ n <= snd.buf.nextByteSeq
        /\ n \notin snd.buf.sacked
        /\ \A i \in blocks : i > n
    BY <1>4 DEF AckOK, t
  <2>4. snd' = v
    BY <2>1
  <2> HIDE DEF n, blocks
  <2>5. /\ TimerOK(v)
        /\ v.buf.firstByteSeq = n
        /\ v.connected = snd.connected
    <3>1. SenderOK(snd)
      BY <1>1
    <3> HIDE DEF a
    <3>2. /\ SenderOK(v)
          /\ v.buf.firstByteSeq = n
          /\ v.buf.nextByteSeq >= snd.buf.nextByteSeq
          /\ v.buf.sacked \subseteq snd.buf.sacked \cup blocks
          /\ v.connected = snd.connected
          /\ TimerOK(snd) => TimerOK(v)
      BY <2>2, <2>3, <3>1, ReceivedAckOK
    <3> QED  BY <3>2
  <2> HIDE DEF v
  <2>6. Acked' = n
    BY <2>4, <2>5, Zenon DEF Acked
  <2>7. Acked' >= Acked
    BY <1>2, <2>3, <2>6 DEF Acked
  <2>8. TimerOK(snd') /\ snd'.connected = snd.connected
    BY <2>4, <2>5, Zenon
  <2> QED  BY <1>6, <2>7, <2>8
<1> QED  BY <1>5, <1>6

\* The timer expires only while something is not acknowledged.
LEMMA TimeoutHasData ==
  ASSUME LoopInv, TimerOK(snd), RetxTimeout
  PROVE  /\ TimerOK(snd')
         /\ Acked' = Acked
         /\ Acked <= Segments
         /\ snd'.connected => snd.connected
<1> DEFINE v == ReTxTimeout(snd)
<1>1. SenderOK(snd) /\ snd' = v /\ snd.retxEvent = 0
  BY DEF LoopInv, SentInv, RetxTimeout
<1>2. /\ TimerOK(v)
      /\ v.buf.firstByteSeq = snd.buf.firstByteSeq
      /\ v.connected => snd.connected
  BY <1>1, ReTxTimeoutOK
<1> HIDE DEF v
<1>3. ~(snd.buf.firstByteSeq > Segments)
  BY <1>1 DEF TimerOK, IsEmpty, Off
<1>4. snd.buf.firstByteSeq \in Int /\ Segments \in Int
  BY <1>1, ScoreboardBounds, BufferAssumption DEF SenderOK, SocketOK
<1>5. Acked <= Segments
  BY <1>3, <1>4 DEF Acked
<1> QED  BY <1>1, <1>2, <1>5 DEF Acked

\* Hence the timer never runs with nothing to send.
LEMMA TimerInvariance == Spec => [](LoopInv /\ TimerOK(snd))
<1>1. Init => TimerOK(snd)
  <2> SUFFICES ASSUME Init PROVE TimerOK(snd)
    OBVIOUS
  <2>1. PICK w \in 1..Window : snd = SendPendingData(NewSocket, w)
    BY DEF Init
  <2>2. w \in Nat
    BY ClosedLoopAssumption
  <2> QED  BY <2>1, <2>2, NewSocketOK, SendPendingDataTimer
<1>2. LoopInv /\ TimerOK(snd) /\ [Next]_vars => TimerOK(snd)'
  BY SenderStays, GetAckMovesOn, TimeoutHasData
<1> QED  BY <1>1, <1>2, InitLoop, NextKeepsLoop, PTL DEF Spec

\* What the receiver has stays, or grows by one segment.
LEMMA ReceiverGrows ==
  ASSUME [Next]_vars
  PROVE  \/ rcv'.received = rcv.received
         \/ \E i : rcv'.received = rcv.received \cup {i}
<1>1. ASSUME NEW i, ReceivedData(i)
      PROVE  rcv'.received = rcv.received \cup {i}
  BY <1>1 DEF ReceivedData, SendAck
<1>2. CASE Transmitted
  BY <1>1, <1>2 DEF Transmitted
<1>3. CASE DelAckTimeout
  BY <1>3 DEF DelAckTimeout, SendAck
<1>4. CASE rcv' = rcv
  BY <1>4
<1>5. Transmitted \/ DelAckTimeout \/ rcv' = rcv
  BY DEF Next, Arrive, Lost, WakeUp, TransmitComplete, GetAck, RetxTimeout, Tick, vars
<1> QED  BY <1>2, <1>3, <1>4, <1>5

\* Each step of the loop is one of the transfer, or none.
LEMMA StepTransfers ==
  LoopInv /\ LoopInv' /\ TimerOK(snd) /\ [Next]_vars => [Flow!Next]_(Flow!vars)
<1> SUFFICES ASSUME LoopInv, LoopInv', TimerOK(snd), [Next]_vars
             PROVE  [Flow!Next]_(Flow!vars)
  OBVIOUS
<1> DEFINE r == rcv.received
           q == rcv'.received
<1>1. /\ r \subseteq 1..Segments /\ q \subseteq 1..Segments
      /\ Segments \in Nat
      /\ Acked \in 1..Segments + 1 /\ Acked' \in 1..Segments + 1
      /\ snd.connected \in BOOLEAN /\ snd'.connected \in BOOLEAN
      /\ 1..Acked' - 1 \subseteq q
  <2>1. /\ r \subseteq SegmentNos /\ q \subseteq SegmentNos
        /\ 1..Acked' - 1 \subseteq q
    BY DEF LoopInv, WireOK, Acked
  <2>2. /\ Scoreboard(snd.buf) /\ Scoreboard(snd'.buf)
        /\ snd \in Socket /\ snd' \in Socket
    BY DEF LoopInv, SentInv, SenderOK, SocketOK
  <2>3. Acked \in 1..Segments + 1 /\ Acked' \in 1..Segments + 1
    BY <2>2, ScoreboardBounds DEF Acked
  <2> QED  BY <2>1, <2>2, <2>3, BufferAssumption DEF SegmentNos, Socket
<1> HIDE DEF r, q
<1>2. CASE /\ q = r /\ Acked' = Acked /\ snd'.connected = snd.connected
  BY <1>2 DEF Flow!vars, Acked, r, q
<1>3. CASE GetAck
  <2>1. q = r
    BY <1>3 DEF GetAck, r, q
  <2>2. /\ Acked' >= Acked /\ snd'.connected = snd.connected
        /\ ~snd.connected => Acked' = Acked
    BY <1>3, GetAckMovesOn
  <2>3. CASE Acked' # Acked
    <3>1. Acked' - 1 \in (Acked - 1) + 1..Segments
      <4>1. \A x, y \in 1..Segments + 1 :
              y >= x /\ y # x => y - 1 \in (x - 1) + 1..Segments
        BY <1>1
      <4> QED  BY <1>1, <2>2, <2>3, <4>1
    <3>2. 1..Acked' - 1 \subseteq r
      BY <1>1, <2>1
    <3>3. Flow!Acknowledge
      BY <2>1, <2>2, <2>3, <3>1, <3>2 DEF Flow!Acknowledge, Acked, r, q
    <3> QED  BY <3>3 DEF Flow!Next
  <2> QED  BY <1>2, <2>1, <2>2, <2>3
<1>4. CASE RetxTimeout
  <2>1. q = r
    BY <1>4 DEF RetxTimeout, r, q
  <2>2. Acked' = Acked /\ Acked <= Segments /\ (snd'.connected => snd.connected)
    BY <1>4, TimeoutHasData
  <2>3. CASE snd'.connected # snd.connected
    <3>1. snd.connected = TRUE /\ snd'.connected = FALSE
      BY <1>1, <2>2, <2>3
    <3>2. Acked - 1 < Segments
      BY <1>1, <2>2
    <3>3. Flow!GiveUp
      BY <2>1, <2>2, <3>1, <3>2 DEF Flow!GiveUp, Acked, r, q
    <3> QED  BY <3>3 DEF Flow!Next
  <2> QED  BY <1>2, <2>1, <2>2, <2>3
<1>5. CASE ~GetAck /\ ~RetxTimeout
  <2>1. Acked' = Acked /\ snd'.connected = snd.connected
    BY <1>5, SenderStays
  <2>2. q = r \/ \E i : q = r \cup {i}
    BY ReceiverGrows DEF r, q
  <2>3. ASSUME NEW i, q = r \cup {i}, q # r PROVE Flow!Next
    <3>1. i \in 1..Segments \ r
      BY <1>1, <2>3
    <3>2. Flow!Deliver
      BY <2>1, <2>3, <3>1 DEF Flow!Deliver, Acked, r, q
    <3> QED  BY <3>2 DEF Flow!Next
  <2> QED  BY <1>2, <2>1, <2>2, <2>3
<1> QED  BY <1>3, <1>4, <1>5

(***************************************************************************)
(* With Penny on the way the flow is, but for what must eventually happen, *)
(* the reliable transfer that it would be without: each segment is         *)
(* delivered once, the sender takes for delivered only what is, its head   *)
(* never moves back, and it gives up only while something is missing.      *)
(***************************************************************************)
THEOREM LoopTransfers == Spec => Flow!Init /\ [][Flow!Next]_(Flow!vars)
<1>1. Init => Flow!Init
  <2> SUFFICES ASSUME Init PROVE Flow!Init
    OBVIOUS
  <2>1. PICK w \in 1..Window : snd = SendPendingData(NewSocket, w)
    BY DEF Init
  <2>2. w \in Nat
    BY ClosedLoopAssumption
  <2>3. /\ snd.buf.firstByteSeq = NewSocket.buf.firstByteSeq
        /\ snd.connected = NewSocket.connected
    BY <2>1, <2>2, NewSocketOK, SendPendingDataOK DEF OnlySends
  <2>4. snd.buf.firstByteSeq = 1 /\ snd.connected = TRUE
    BY <2>3 DEF NewSocket, NewTxBuffer
  <2>5. rcv.received = {}
    BY DEF Init
  <2> QED  BY <2>4, <2>5 DEF Flow!Init
<1> QED  BY <1>1, StepTransfers, TimerInvariance, PTL DEF Spec

-------------------------------------------------------------------------------
(***************************************************************************)
(* (10) Time.  After a time-out the sender retransmits what it takes to be *)
(* lost in order, the head first, and sends nothing new before that is     *)
(* done: what was sent before the time-out is lost or was acknowledged;    *)
(* what is retransmitted has nothing before it that is not; and as long as *)
(* some of it is left, nothing was sent after the time-out.                *)
(***************************************************************************)
LossOK(s) ==
  s.congState = "LOSS" =>
    LET b == s.buf IN
    /\ \A i \in SentList(b) : i < s.recover => i \in b.lost \cup b.sacked
    /\ \A i \in b.retrans, j \in b.lost : j < i /\ j < s.recover => j \in b.retrans
    /\ (\E j \in b.lost \ b.retrans : j < s.recover) => b.nextByteSeq = s.recover

\* But after a time-out, the timer is at its minimum and no retry is used up.
RtoOK(s) ==
  s.congState # "LOSS" =>
    s.rto = MinRto /\ s.retxEvent <= MinRto /\ s.dataRetrCount = DataRetries

\* c[i] copies of segment i have arrived at the device: with those on the
\* link, it was sent once, or twice.
Once(i, o, c) == c[i] >= 1 \/ \E k \in 1..Len(o) : o[k] = i

Twice(i, o, c) ==
  \/ c[i] >= 2
  \/ \E k \in 1..Len(o) : o[k] = i /\ (c[i] >= 1 \/ \E j \in 1..k - 1 : o[j] = i)

CopiesOK(s, c) ==
  /\ \A i \in SegmentNos : i < s.buf.nextByteSeq => Once(i, s.out, c)
  /\ \A i \in s.buf.retrans : Twice(i, s.out, c)

TimeOK(s, c) == LossOK(s) /\ RtoOK(s) /\ CopiesOK(s, c)

\* The timer runs as long as something is not acknowledged, and after a
\* time-out the head has been retransmitted.
Settled(s) ==
  /\ ~IsEmpty(s.buf) => s.buf.firstByteSeq < s.buf.nextByteSeq /\ s.retxEvent # Off
  /\ s.congState = "LOSS" =>
       s.buf.firstByteSeq < s.recover /\ s.buf.firstByteSeq \in s.buf.retrans

\* It does, or SendPendingData is about to see to it.
Ready(s) ==
  /\ s.retxEvent # 0
  /\ s.congState = "LOSS" => s.buf.firstByteSeq < s.recover
  /\ \/ IsEmpty(s.buf)
     \/ s.retxEvent # Off
     \/ s.buf.firstByteSeq = s.buf.nextByteSeq
     \/ s.congState = "LOSS" /\ s.buf.firstByteSeq \notin s.buf.retrans

Counts == [SegmentNos -> Nat]

\* One more segment on the link.
LEMMA OneMoreSent ==
  ASSUME NEW o \in Seq(SegmentNos), NEW seq \in SegmentNos, NEW c \in Counts
  PROVE  LET q == Append(o, seq) IN
         /\ \A i : Once(i, o, c) => Once(i, q, c)
         /\ \A i : Twice(i, o, c) => Twice(i, q, c)
         /\ Once(seq, q, c)
         /\ Once(seq, o, c) => Twice(seq, q, c)
<1> DEFINE q == Append(o, seq)
           n == Len(o)
<1>1. /\ n \in Nat /\ Len(q) = n + 1 /\ q[n + 1] = seq
      /\ \A k \in 1..n : q[k] = o[k]
  BY LenProperties, AppendProperties
<1> HIDE DEF q
<1>2. n + 1 \in 1..Len(q) /\ 1..(n + 1) - 1 = 1..n
  BY <1>1
<1>3. \A k \in 1..n : k \in 1..Len(q) /\ \A j \in 1..k - 1 : j \in 1..n
  BY <1>1
<1>4. ASSUME NEW i, Once(i, o, c) PROVE Once(i, q, c)
  BY <1>1, <1>3, <1>4 DEF Once
<1>5. ASSUME NEW i, Twice(i, o, c) PROVE Twice(i, q, c)
  BY <1>1, <1>3, <1>5 DEF Twice
<1>6. Once(seq, q, c)
  BY <1>1, <1>2 DEF Once
<1>7. ASSUME Once(seq, o, c) PROVE Twice(seq, q, c)
  <2>1. c[seq] >= 1 \/ \E j \in 1..(n + 1) - 1 : q[j] = seq
    BY <1>1, <1>2, <1>7 DEF Once
  <2> QED  BY <1>1, <1>2, <2>1 DEF Twice
<1> QED  BY <1>4, <1>5, <1>6, <1>7 DEF q

\* What sending a segment does to the scoreboard and the timer.
LEMMA SendDataPacketTime ==
  ASSUME NEW s, SenderOK(s), NEW seq \in SegmentNos,
         seq \in SentList(s.buf) \/ seq = s.buf.nextByteSeq,
         NEW c \in Counts, RtoOK(s), CopiesOK(s, c), s.retxEvent # 0
  PROVE  LET u == SendDataPacket(s, seq) IN
         /\ RtoOK(u) /\ CopiesOK(u, c)
         /\ u.retxEvent # 0 /\ u.retxEvent # Off
         /\ u.congState = s.congState /\ u.recover = s.recover
         /\ u.buf.firstByteSeq = s.buf.firstByteSeq
         /\ u.buf.lost = s.buf.lost /\ u.buf.sacked = s.buf.sacked
         /\ \/ /\ seq \in SentList(s.buf)
               /\ u.buf.nextByteSeq = s.buf.nextByteSeq
               /\ u.buf.retrans = s.buf.retrans \cup {seq}
            \/ /\ seq = s.buf.nextByteSeq /\ seq \notin SentList(s.buf)
               /\ u.buf.nextByteSeq = seq + 1
               /\ u.buf.retrans = s.buf.retrans
<1> DEFINE u == SendDataPacket(s, seq)
           b == CopyFromSequence(s.buf, seq)
           timer == IF s.retxEvent = Off THEN s.rto ELSE s.retxEvent
           out == Append(s.out, seq)
<1>1. s \in Socket /\ Scoreboard(s.buf) /\ s.buf \in TxBuffer
  BY DEF SocketOK, SenderOK, Scoreboard
<1>2. u = [s EXCEPT !.buf = b, !.retxEvent = timer, !.out = out]
  BY DEF SendDataPacket
<1>3. /\ b.firstByteSeq = s.buf.firstByteSeq
      /\ b.lost = s.buf.lost /\ b.sacked = s.buf.sacked
      /\ \/ /\ seq \in SentList(s.buf)
            /\ b.nextByteSeq = s.buf.nextByteSeq
            /\ b.retrans = s.buf.retrans \cup {seq}
         \/ /\ seq = s.buf.nextByteSeq /\ seq \notin SentList(s.buf)
            /\ b.nextByteSeq = seq + 1
            /\ b.retrans = s.buf.retrans
  <2>1. CASE seq \in SentList(s.buf)
    BY <1>1, <2>1 DEF CopyFromSequence, TxBuffer
  <2>2. CASE seq \notin SentList(s.buf)
    BY <1>1, <2>2 DEF CopyFromSequence, TxBuffer
  <2> QED  BY <2>1, <2>2
<1>4. timer # 0 /\ timer # Off
  <2>1. s.rto \in 1..60
    BY <1>1 DEF Socket, MinRto, MaxRto
  <2>2. s.rto # 0 /\ s.rto # Off
    <3> DEFINE r == s.rto
    <3>1. r \in 1..60
      BY <2>1
    <3> HIDE DEF r
    <3>2. r # 0 /\ r # Off
      BY <3>1 DEF Off
    <3> QED  BY <3>2 DEF r
  <2> QED  BY <2>2
<1> HIDE DEF b, timer, out
<1>5. /\ u.buf = b /\ u.out = out /\ u.retxEvent = timer
      /\ u.congState = s.congState /\ u.recover = s.recover
      /\ u.rto = s.rto /\ u.dataRetrCount = s.dataRetrCount
  BY <1>1, <1>2 DEF Socket
<1>6. RtoOK(u)
  <2>1. s.congState # "LOSS" => timer <= MinRto
    BY DEF timer, RtoOK, MinRto
  <2> QED  BY <1>5, <2>1 DEF RtoOK
<1>7. CopiesOK(u, c)
  <2>1. s.out \in Seq(SegmentNos)
    BY <1>1 DEF Socket
  <2>2. /\ \A i : Once(i, s.out, c) => Once(i, out, c)
        /\ \A i : Twice(i, s.out, c) => Twice(i, out, c)
        /\ Once(seq, out, c)
        /\ Once(seq, s.out, c) => Twice(seq, out, c)
    BY <2>1, OneMoreSent DEF out
  <2>3. s.buf.nextByteSeq \in Int /\ SentList(s.buf) \subseteq SegmentNos
    BY <1>1, ScoreboardBounds
  <2>4. ASSUME NEW i \in SegmentNos, i < b.nextByteSeq PROVE Once(i, out, c)
    <3>1. i < s.buf.nextByteSeq \/ i = seq
      BY <1>3, <2>3, <2>4, BufferAssumption DEF SegmentNos
    <3> QED  BY <2>2, <3>1 DEF CopiesOK
  <2>5. ASSUME NEW i \in b.retrans PROVE Twice(i, out, c)
    <3>1. CASE i \in s.buf.retrans
      BY <2>2, <3>1 DEF CopiesOK
    <3>2. CASE i = seq /\ seq \in SentList(s.buf)
      <4>1. seq < s.buf.nextByteSeq
        BY <1>1, <2>3, <3>2, ScoreboardBounds DEF SentList
      <4> QED  BY <2>2, <3>2, <4>1 DEF CopiesOK
    <3> QED  BY <1>3, <3>1, <3>2
  <2> QED  BY <1>5, <2>4, <2>5 DEF CopiesOK
<1> QED  BY <1>3, <1>4, <1>5, <1>6, <1>7 DEF u

\* Outside recovery, the segment sent next is the first lost one that has
\* not been retransmitted, or a new one if there is none.
LEMMA NextSegIsFirstLost ==
  ASSUME NEW t, Scoreboard(t), NextSeg(t, FALSE) # None
  PROVE  LET next == NextSeg(t, FALSE) IN
         \/ /\ next \in SentList(t) /\ next \in t.lost \ t.retrans
            /\ \A j \in t.lost \ t.retrans : next <= j
         \/ /\ t.lost \subseteq t.retrans
            /\ next = t.nextByteSeq
<1> DEFINE unsent == SentList(t) \ (t.retrans \cup t.sacked)
           next == NextSeg(t, FALSE)
<1>1. /\ t.lost \subseteq SentList(t) /\ t.sacked \cap t.lost = {}
      /\ SentList(t) \subseteq Nat
  BY ScoreboardBounds, BufferAssumption DEF Scoreboard, Consistent, SegmentNos
<1>2. unsent \cap t.lost = t.lost \ t.retrans
  BY <1>1
<1>3. CASE unsent \cap t.lost # {}
  <2>1. next = Min(unsent \cap t.lost)
    BY <1>3 DEF NextSeg
  <2>2. /\ Min(unsent \cap t.lost) \in unsent \cap t.lost
        /\ \A j \in unsent \cap t.lost : Min(unsent \cap t.lost) <= j
    BY <1>1, <1>3, MinSegment
  <2> HIDE DEF next, unsent
  <2> QED  BY <1>1, <1>2, <2>1, <2>2 DEF next
<1>4. CASE unsent \cap t.lost = {}
  <2>1. t.lost \subseteq t.retrans
    BY <1>2, <1>4
  <2>2. CASE t.nextByteSeq <= Segments
    <3>1. ~(t.nextByteSeq > Segments)
      BY <2>2, ScoreboardBounds, BufferAssumption
    <3> QED  BY <1>4, <2>1, <2>2, <3>1 DEF NextSeg
  <2>3. CASE ~(t.nextByteSeq <= Segments)
    BY <1>4, <2>3 DEF NextSeg
  <2> QED  BY <2>2, <2>3
<1> QED  BY <1>3, <1>4

\* What a round of SendPendingData does.
LEMMA SendNextSends ==
  ASSUME NEW s, SenderOK(s), NEW window
  PROVE  LET next == NextSeg(s.buf, s.congState = "RECOVERY") IN
         \/ SendNext(s, window) = s
         \/ /\ next # None /\ next \in SegmentNos
            /\ next \in SentList(s.buf) \/ next = s.buf.nextByteSeq
            /\ SendNext(s, window) = SendDataPacket(s, next)
<1> DEFINE next == NextSeg(s.buf, s.congState = "RECOVERY")
<1>1. Scoreboard(s.buf) /\ (s.congState = "RECOVERY") \in BOOLEAN
  BY DEF SocketOK, SenderOK
<1>2. \/ next = None
      \/ next \in SegmentNos /\ (next \in SentList(s.buf) \/ next = s.buf.nextByteSeq)
  BY <1>1, NextSegMaySend
<1>3. \/ SendNext(s, window) = s
      \/ next # None /\ SendNext(s, window) = SendDataPacket(s, next)
  BY DEF SendNext
<1> HIDE DEF next
<1> QED  BY <1>2, <1>3 DEF next

\* It keeps the order of retransmissions.
LEMMA SendNextTime ==
  ASSUME NEW s, SenderOK(s), NEW c \in Counts, TimeOK(s, c), s.retxEvent # 0,
         NEW window
  PROVE  LET u == SendNext(s, window) IN
         /\ TimeOK(u, c) /\ u.retxEvent # 0
         /\ u.congState = s.congState /\ u.recover = s.recover
<1> DEFINE next == NextSeg(s.buf, s.congState = "RECOVERY")
           u == SendNext(s, window)
<1>1. CASE u = s
  BY <1>1
<1>2. CASE /\ next # None /\ next \in SegmentNos
           /\ next \in SentList(s.buf) \/ next = s.buf.nextByteSeq
           /\ u = SendDataPacket(s, next)
  <2> HIDE DEF u
  <2>1. /\ Scoreboard(s.buf) /\ s \in Socket
        /\ s.recover <= s.buf.nextByteSeq
    BY DEF SocketOK, SenderOK
  <2>2. /\ s.buf.nextByteSeq \in Int /\ s.buf.firstByteSeq \in Int
        /\ s.recover \in Int /\ s.buf.lost \in SUBSET Int
    BY <2>1, ScoreboardBounds, BufferAssumption
       DEF Socket, Scoreboard, TxBuffer, SegmentNos
  <2>3. s.congState = "LOSS" =>
          \/ /\ next \in SentList(s.buf) /\ next \in s.buf.lost \ s.buf.retrans
             /\ \A j \in s.buf.lost \ s.buf.retrans : next <= j
          \/ /\ s.buf.lost \subseteq s.buf.retrans
             /\ next = s.buf.nextByteSeq
    <3> SUFFICES ASSUME s.congState = "LOSS"
                 PROVE  \/ /\ next \in SentList(s.buf)
                           /\ next \in s.buf.lost \ s.buf.retrans
                           /\ \A j \in s.buf.lost \ s.buf.retrans : next <= j
                        \/ /\ s.buf.lost \subseteq s.buf.retrans
                           /\ next = s.buf.nextByteSeq
      OBVIOUS
    <3>1. next = NextSeg(s.buf, FALSE)
      <4>1. (s.congState = "RECOVERY") = FALSE
        OBVIOUS
      <4> QED  BY <4>1
    <3>2. next # None
      BY <1>2
    <3> HIDE DEF next
    <3> QED  BY <2>1, <3>1, <3>2, NextSegIsFirstLost
  <2> HIDE DEF next
  <2>4. /\ RtoOK(u) /\ CopiesOK(u, c)
        /\ u.retxEvent # 0 /\ u.retxEvent # Off
        /\ u.congState = s.congState /\ u.recover = s.recover
        /\ u.buf.firstByteSeq = s.buf.firstByteSeq
        /\ u.buf.lost = s.buf.lost /\ u.buf.sacked = s.buf.sacked
        /\ \/ /\ next \in SentList(s.buf)
              /\ u.buf.nextByteSeq = s.buf.nextByteSeq
              /\ u.buf.retrans = s.buf.retrans \cup {next}
           \/ /\ next = s.buf.nextByteSeq /\ next \notin SentList(s.buf)
              /\ u.buf.nextByteSeq = next + 1
              /\ u.buf.retrans = s.buf.retrans
    BY <1>2, SendDataPacketTime DEF TimeOK
  <2>5. s.buf.nextByteSeq \notin SentList(s.buf)
    BY <2>2 DEF SentList
  <2>6. ASSUME s.congState = "LOSS" PROVE LossOK(u)
    <3>1. /\ \A i \in SentList(s.buf) :
               i < s.recover => i \in s.buf.lost \cup s.buf.sacked
          /\ \A i \in s.buf.retrans, j \in s.buf.lost :
               j < i /\ j < s.recover => j \in s.buf.retrans
          /\ (\E j \in s.buf.lost \ s.buf.retrans : j < s.recover)
               => s.buf.nextByteSeq = s.recover
      BY <2>6 DEF TimeOK, LossOK
    <3>2. CASE /\ next \in SentList(s.buf) /\ next \in s.buf.lost \ s.buf.retrans
               /\ \A j \in s.buf.lost \ s.buf.retrans : next <= j
               /\ u.buf.nextByteSeq = s.buf.nextByteSeq
               /\ u.buf.retrans = s.buf.retrans \cup {next}
      <4>1. SentList(u.buf) = SentList(s.buf)
        BY <2>4, <3>2 DEF SentList
      <4>2. ASSUME NEW i \in u.buf.retrans, NEW j \in u.buf.lost,
                   j < i, j < u.recover
            PROVE  j \in u.buf.retrans
        <5>1. CASE i \in s.buf.retrans
          BY <2>4, <3>1, <3>2, <4>2, <5>1
        <5>2. CASE i = next
          <6>1. ~(next <= j)
            BY <2>2, <2>4, <3>2, <4>2, <5>2
          <6> QED  BY <2>4, <3>2, <6>1
        <5> QED  BY <3>2, <5>1, <5>2
      <4>3. ASSUME NEW j \in u.buf.lost \ u.buf.retrans, j < u.recover
            PROVE  u.buf.nextByteSeq = u.recover
        BY <2>4, <3>1, <3>2, <4>3
      <4>4. \A i \in SentList(u.buf) : i < u.recover => i \in u.buf.lost \cup u.buf.sacked
        BY <2>4, <3>1, <4>1
      <4> QED  BY <4>2, <4>3, <4>4 DEF LossOK
    <3>3. CASE /\ s.buf.lost \subseteq s.buf.retrans
               /\ next = s.buf.nextByteSeq
               /\ u.buf.nextByteSeq = next + 1
               /\ u.buf.retrans = s.buf.retrans
      <4>1. ASSUME NEW i \in SentList(u.buf), i < u.recover
            PROVE  i \in u.buf.lost \cup u.buf.sacked
        <5>1. i \in SentList(s.buf)
          BY <2>1, <2>2, <2>4, <3>3, <4>1 DEF SentList
        <5> QED  BY <2>4, <3>1, <4>1, <5>1
      <4>2. \A i \in u.buf.retrans, j \in u.buf.lost :
               j < i /\ j < u.recover => j \in u.buf.retrans
        BY <2>4, <3>1, <3>3
      <4>3. u.buf.lost \ u.buf.retrans = {}
        BY <2>4, <3>3
      <4> QED  BY <4>1, <4>2, <4>3 DEF LossOK
    <3> QED  BY <2>3, <2>4, <2>5, <2>6, <3>2, <3>3
  <2>7. LossOK(u)
    BY <2>4, <2>6 DEF LossOK
  <2> QED  BY <2>4, <2>7 DEF TimeOK, u
<1> QED  BY <1>1, <1>2, SendNextSends

\* The sent list has as many segments as it is long.
LEMMA SentListSize ==
  ASSUME NEW t, Scoreboard(t)
  PROVE  /\ IsFiniteSet(SentList(t))
         /\ Cardinality(SentList(t)) = SentSize(t)
         /\ SentSize(t) \in Nat
<1>1. /\ t.firstByteSeq \in Int /\ t.nextByteSeq \in Int
      /\ t.firstByteSeq <= t.nextByteSeq
  BY ScoreboardBounds
<1>2. t.nextByteSeq - 1 \in Int
  BY <1>1
<1>3. IsFiniteSet(SentList(t))
      /\ Cardinality(SentList(t))
           = IF t.firstByteSeq > t.nextByteSeq - 1 THEN 0
             ELSE (t.nextByteSeq - 1) - t.firstByteSeq + 1
  BY <1>1, <1>2, FS_Interval DEF SentList
<1> QED  BY <1>1, <1>3 DEF SentSize

\* After a time-out, the head is retransmitted before anything else: nothing
\* is in flight.
LEMMA HeadGoesFirst ==
  ASSUME NEW s, SenderOK(s), LossOK(s), s.congState = "LOSS",
         s.buf.firstByteSeq < s.recover,
         s.buf.firstByteSeq \notin s.buf.retrans,
         NEW window \in Nat \ {0}
  PROVE  /\ SendNext(s, window) = SendDataPacket(s, s.buf.firstByteSeq)
         /\ s.buf.firstByteSeq \in SentList(s.buf)
<1> DEFINE t == s.buf
           head == t.firstByteSeq
           next == NextSeg(t, FALSE)
<1>1. /\ Scoreboard(t) /\ s \in Socket /\ s.recover <= t.nextByteSeq
      /\ t \in TxBuffer
  BY DEF SocketOK, SenderOK, Scoreboard
<1>2. /\ head \in 1..Segments + 1 /\ t.nextByteSeq \in 1..Segments + 1
      /\ s.recover \in Int /\ Segments \in Nat
      /\ SentList(t) \subseteq SegmentNos /\ SegmentNos \subseteq Nat
  BY <1>1, ScoreboardBounds, BufferAssumption DEF Socket, SegmentNos
<1>3. /\ t.sacked \cup t.lost \cup t.retrans \subseteq SentList(t)
      /\ t.sacked \cap t.lost = {} /\ head \notin t.sacked
      /\ t.sackedOut = Cardinality(t.sacked)
      /\ t.lostOut = Cardinality(t.lost)
      /\ t.retransOut = Cardinality(t.retrans)
  BY <1>1 DEF Scoreboard, Consistent
<1>4. head < t.nextByteSeq /\ head \in SentList(t)
  BY <1>1, <1>2 DEF SentList
<1>5. /\ \A i \in SentList(t) : i < s.recover => i \in t.lost \cup t.sacked
      /\ \A i \in t.retrans, j \in t.lost : j < i /\ j < s.recover => j \in t.retrans
      /\ (\E j \in t.lost \ t.retrans : j < s.recover) => t.nextByteSeq = s.recover
  BY DEF LossOK
<1> HIDE DEF t
<1>6. head \in t.lost
  BY <1>3, <1>4, <1>5 DEF t
<1>7. t.retrans = {}
  <2> SUFFICES ASSUME NEW i \in t.retrans PROVE FALSE
    OBVIOUS
  <2>1. i \in SentList(t) /\ i # head
    BY <1>3 DEF t
  <2>2. head < i
    BY <1>2, <2>1 DEF SentList
  <2> QED  BY <1>5, <1>6, <2>2 DEF t
<1>8. t.nextByteSeq = s.recover
  BY <1>5, <1>6 DEF t
<1>9. SentList(t) = t.sacked \cup t.lost
  <2>1. \A i \in SentList(t) : i < s.recover
    BY <1>2, <1>8 DEF SentList
  <2> QED  BY <1>3, <1>5, <2>1
<1>10. BytesInFlight(t) = 0
  <2>1. IsFiniteSet(t.sacked) /\ IsFiniteSet(t.lost)
    BY <1>1, <1>3, FlagsFinite
  <2>2. Cardinality(t.sacked \cup t.lost) = Cardinality(t.sacked) + Cardinality(t.lost)
    BY <1>3, <2>1, CardinalityAdd
  <2>3. Cardinality(t.retrans) = 0
    BY <1>7, FS_EmptySet
  <2>4. Cardinality(SentList(t)) = SentSize(t) /\ SentSize(t) \in Nat
    BY <1>1, SentListSize
  <2>5. Cardinality(t.sacked) \in Nat /\ Cardinality(t.lost) \in Nat
    BY <2>1, FS_CardinalityType
  <2>6. t.sackedOut + t.lostOut = SentSize(t) /\ t.retransOut = 0
    BY <1>3, <1>9, <2>2, <2>3, <2>4
  <2> QED  BY <2>4, <2>6 DEF BytesInFlight
<1>11. next = head
  <2>1. head \in SentList(t) \ (t.retrans \cup t.sacked)
    BY <1>3, <1>4, <1>7
  <2>2. (SentList(t) \ (t.retrans \cup t.sacked)) \cap t.lost # {}
    BY <1>6, <2>1
  <2>3. next = Min((SentList(t) \ (t.retrans \cup t.sacked)) \cap t.lost)
    BY <2>2 DEF NextSeg
  <2> DEFINE S == (SentList(t) \ (t.retrans \cup t.sacked)) \cap t.lost
  <2>4. S \in SUBSET Nat /\ S # {} /\ head \in S
    BY <1>2, <1>6, <2>1
  <2>5. \A i \in S : i \in Nat /\ head <= i
    BY <1>2 DEF SentList
  <2> HIDE DEF S
  <2>6. Min(S) \in S /\ Min(S) <= head
    BY <2>4, MinSegment
  <2>7. Min(S) = head
    <3>1. Min(S) \in Nat /\ head <= Min(S) /\ head \in Nat
      BY <2>4, <2>5, <2>6
    <3> HIDE DEF head
    <3> QED  BY <2>6, <3>1
  <2> QED  BY <2>3, <2>7 DEF S
<1>12. NextSeg(s.buf, s.congState = "RECOVERY") = head
  <2>1. (s.congState = "RECOVERY") = FALSE
    OBVIOUS
  <2> QED  BY <1>11, <2>1 DEF t
<1>13. head # None
  BY <1>2 DEF None
<1>14. BytesInFlight(s.buf) < window
  BY <1>10 DEF t
<1> HIDE DEF head, next
<1>15. SendNext(s, window) = SendDataPacket(s, head)
  BY <1>12, <1>13, <1>14 DEF SendNext
<1> QED  BY <1>4, <1>15 DEF head, t

\* With nothing outstanding, something new is sent.
LEMMA NewDataGoes ==
  ASSUME NEW s, SenderOK(s), ~IsEmpty(s.buf),
         s.buf.firstByteSeq = s.buf.nextByteSeq,
         NEW window \in Nat \ {0}
  PROVE  SendNext(s, window) = SendDataPacket(s, s.buf.nextByteSeq)
<1> DEFINE t == s.buf
           inRecovery == s.congState = "RECOVERY"
<1>1. Scoreboard(t) /\ t \in TxBuffer
  BY DEF SocketOK, SenderOK, Scoreboard
<1>2. /\ t.nextByteSeq \in 1..Segments + 1 /\ Segments \in Nat
      /\ t.nextByteSeq <= Segments
  BY <1>1, ScoreboardBounds, BufferAssumption DEF IsEmpty
<1>3. SentList(t) = {} /\ SentSize(t) = 0
  BY <1>2 DEF SentList, SentSize
<1>4. /\ t.sacked = {} /\ t.lost = {} /\ t.retrans = {}
      /\ t.sackedOut = 0 /\ t.lostOut = 0 /\ t.retransOut = 0
  BY <1>1, <1>3, FS_EmptySet DEF Scoreboard, Consistent
<1>5. BytesInFlight(t) = 0
  BY <1>3, <1>4 DEF BytesInFlight
<1>6. NextSeg(t, inRecovery) = t.nextByteSeq
  <2>1. ~(t.nextByteSeq > Segments)
    BY <1>2
  <2> HIDE DEF t, inRecovery
  <2> QED  BY <1>2, <1>4, <2>1 DEF NextSeg
<1>7. t.nextByteSeq # None
  BY <1>2 DEF None
<1>8. ~InFinWait(s)
  BY <1>2 DEF InFinWait
<1> QED  BY <1>5, <1>6, <1>7, <1>8 DEF SendNext

\* One round is enough to settle.
LEMMA SendNextSettles ==
  ASSUME NEW s, SenderOK(s), NEW c \in Counts, TimeOK(s, c), Ready(s),
         NEW window \in Nat \ {0}
  PROVE  Settled(SendNext(s, window))
<1> DEFINE u == SendNext(s, window)
           head == s.buf.firstByteSeq
<1>1. /\ Scoreboard(s.buf) /\ s \in Socket
      /\ s.recover <= s.buf.nextByteSeq /\ s.recover \in Int
      /\ head \in 1..Segments + 1 /\ s.buf.nextByteSeq \in 1..Segments + 1
      /\ head <= s.buf.nextByteSeq /\ Segments \in Nat
  BY ScoreboardBounds, BufferAssumption DEF SocketOK, SenderOK, Socket
<1>2. s.retxEvent # 0 /\ (s.congState = "LOSS" => head < s.recover)
  BY DEF Ready
<1> HIDE DEF u
<1>3. ASSUME NEW seq \in SegmentNos, u = SendDataPacket(s, seq),
             seq \in SentList(s.buf) \/ seq = s.buf.nextByteSeq
      PROVE  /\ u.retxEvent # Off
             /\ u.congState = s.congState /\ u.recover = s.recover
             /\ u.buf.firstByteSeq = head
             /\ head < u.buf.nextByteSeq
             /\ s.buf.retrans \subseteq u.buf.retrans
             /\ seq \in SentList(s.buf) => seq \in u.buf.retrans
  <2>1. /\ RtoOK(u) /\ CopiesOK(u, c)
        /\ u.retxEvent # 0 /\ u.retxEvent # Off
        /\ u.congState = s.congState /\ u.recover = s.recover
        /\ u.buf.firstByteSeq = s.buf.firstByteSeq
        /\ u.buf.lost = s.buf.lost /\ u.buf.sacked = s.buf.sacked
        /\ \/ /\ seq \in SentList(s.buf)
              /\ u.buf.nextByteSeq = s.buf.nextByteSeq
              /\ u.buf.retrans = s.buf.retrans \cup {seq}
           \/ /\ seq = s.buf.nextByteSeq /\ seq \notin SentList(s.buf)
              /\ u.buf.nextByteSeq = seq + 1
              /\ u.buf.retrans = s.buf.retrans
    BY <1>2, <1>3, SendDataPacketTime DEF TimeOK
  <2>2. head < u.buf.nextByteSeq
    BY <1>1, <2>1 DEF SentList, SegmentNos
  <2> QED  BY <2>1, <2>2
<1>4. CASE s.congState = "LOSS" /\ head \notin s.buf.retrans
  <2>1. u = SendDataPacket(s, head) /\ head \in SentList(s.buf)
    BY <1>2, <1>4, HeadGoesFirst DEF TimeOK, u
  <2>2. head \in SegmentNos
    BY <1>1, <2>1, ScoreboardBounds
  <2> QED  BY <1>2, <1>3, <1>4, <2>1, <2>2 DEF Settled, u
<1>5. CASE ~(s.congState = "LOSS" /\ head \notin s.buf.retrans)
  <2>1. CASE IsEmpty(s.buf)
    <3>1. s.congState # "LOSS"
      <4>1. head = s.buf.nextByteSeq
        BY <1>1, <2>1, EmptyHasNothing
      <4> QED  BY <1>1, <1>2, <4>1
    <3>2. IsEmpty(u.buf) /\ u.congState = s.congState
      <4>1. OnlySends(s, u)
        BY SendNextOK DEF u
      <4>2. u.congState = s.congState
        BY <1>2, SendNextTime DEF u
      <4> QED  BY <2>1, <4>1, <4>2 DEF OnlySends, IsEmpty
    <3> QED  BY <3>1, <3>2 DEF Settled, u
  <2>2. CASE ~IsEmpty(s.buf) /\ head = s.buf.nextByteSeq
    <3>1. u = SendDataPacket(s, s.buf.nextByteSeq)
      BY <2>2, NewDataGoes DEF u
    <3>2. s.buf.nextByteSeq \in SegmentNos
      BY <1>1, <2>2 DEF IsEmpty, SegmentNos
    <3>3. s.congState # "LOSS"
      BY <1>1, <1>2, <2>2
    <3> QED  BY <1>3, <3>1, <3>2, <3>3 DEF Settled, u
  <2>3. CASE ~IsEmpty(s.buf) /\ head # s.buf.nextByteSeq
    <3>1. head < s.buf.nextByteSeq /\ s.retxEvent # Off
      BY <1>1, <1>5, <2>3 DEF Ready
    <3>2. CASE u = s
      BY <1>2, <1>5, <3>1, <3>2 DEF Settled, u
    <3>3. ASSUME NEW seq \in SegmentNos, u = SendDataPacket(s, seq),
                 seq \in SentList(s.buf) \/ seq = s.buf.nextByteSeq
          PROVE  Settled(u)
      <4>1. /\ u.retxEvent # Off
            /\ u.congState = s.congState /\ u.recover = s.recover
            /\ u.buf.firstByteSeq = head
            /\ head < u.buf.nextByteSeq
            /\ s.buf.retrans \subseteq u.buf.retrans
        BY <1>3, <3>3
      <4> QED  BY <1>2, <1>5, <4>1 DEF Settled
    <3> QED  BY <3>2, <3>3, SendNextSends DEF u
  <2> QED  BY <2>1, <2>2, <2>3
<1> QED  BY <1>4, <1>5

\* SendPendingData as a whole.
LEMMA SendPendingDataTime ==
  ASSUME NEW s, SenderOK(s), NEW c \in Counts, TimeOK(s, c), Ready(s),
         NEW window \in Nat \ {0}
  PROVE  LET u == SendPendingData(s, window) IN
         /\ TimeOK(u, c) /\ u.retxEvent # 0 /\ Settled(u)
         /\ u.congState = s.congState /\ u.recover = s.recover
<1> DEFINE r == Rounds(s, window)
           Good(t) == /\ SenderOK(t) /\ TimeOK(t, c) /\ Ready(t)
                      /\ t.congState = s.congState /\ t.recover = s.recover
           N == {n \in Nat : n <= window => /\ Good(r[n])
                                            /\ n > 0 => Settled(r[n])}
<1>1. \A n \in 0..window : r[n] = Round(s, window, r, n)
  BY RoundsExist
<1> HIDE DEF r
<1>2. 0 \in N
  <2>1. 0 \in 0..window /\ r[0] = s
    BY <1>1 DEF Round
  <2> QED  BY <2>1
<1>3. ASSUME NEW n \in N PROVE n + 1 \in N
  <2>1. n \in Nat
    OBVIOUS
  <2>2. CASE n + 1 <= window
    <3>1. n <= window /\ n + 1 \in 0..window /\ n + 1 # 0 /\ (n + 1) - 1 = n
      BY <2>1, <2>2
    <3>2. r[n + 1] = SendNext(r[n], window)
      BY <1>1, <3>1 DEF Round
    <3>3. Good(r[n])
      BY <3>1
    <3>4. /\ TimeOK(r[n + 1], c) /\ r[n + 1].retxEvent # 0
          /\ r[n + 1].congState = s.congState /\ r[n + 1].recover = s.recover
      BY <3>2, <3>3, SendNextTime DEF Ready
    <3>5. Settled(r[n + 1])
      BY <3>2, <3>3, SendNextSettles
    <3>6. SenderOK(r[n + 1])
      BY <3>2, <3>3, SendNextOK
    <3>7. Ready(r[n + 1])
      BY <3>4, <3>5 DEF Ready, Settled
    <3> HIDE DEF Good
    <3> QED  BY <2>1, <3>4, <3>5, <3>6, <3>7 DEF Good
  <2> HIDE DEF Good
  <2> QED  BY <2>1, <2>2
<1>4. N = Nat
  <2> HIDE DEF N
  <2>1. N \in SUBSET Nat
    BY DEF N
  <2> QED  BY <1>2, <1>3, <2>1, NaturalsAreGood
<1>5. Good(r[window]) /\ Settled(r[window])
  <2> HIDE DEF Good
  <2>1. window \in N /\ window > 0
    BY <1>4
  <2> QED  BY <2>1
<1>6. SendPendingData(s, window) = r[window]
  BY DEF SendPendingData, r, Rounds
<1> QED  BY <1>5, <1>6 DEF Ready

-------------------------------------------------------------------------------
\* Acknowledgements, method by method.

\* The timer runs as long as something is not acknowledged.
Running(s) ==
  /\ s.retxEvent # 0
  /\ ~IsEmpty(s.buf) => s.retxEvent # Off

\* DoRetransmit, in recovery.
LEMMA DoRetransmitTime ==
  ASSUME NEW s, SenderOK(s), s.buf.firstByteSeq < s.buf.nextByteSeq,
         s.congState # "LOSS",
         NEW c \in Counts, TimeOK(s, c), s.retxEvent # 0
  PROVE  LET u == DoRetransmit(s) IN
         /\ TimeOK(u, c) /\ Running(u)
         /\ u.congState = s.congState /\ u.recover = s.recover
<1> DEFINE next == NextSeg(s.buf, FALSE)
           seq == IF next = None THEN s.buf.firstByteSeq ELSE next
           u == DoRetransmit(s)
<1>1. Scoreboard(s.buf)
  BY DEF SocketOK, SenderOK
<1>2. \/ next = None
      \/ next \in SegmentNos /\ (next \in SentList(s.buf) \/ next = s.buf.nextByteSeq)
  BY <1>1, NextSegMaySend
<1>3. s.buf.firstByteSeq \in SentList(s.buf) /\ SentList(s.buf) \subseteq SegmentNos
  BY <1>1, ScoreboardBounds, BufferAssumption DEF SentList
<1>4. u = SendDataPacket(s, seq)
  BY DEF DoRetransmit
<1>5. seq \in SegmentNos /\ (seq \in SentList(s.buf) \/ seq = s.buf.nextByteSeq)
  BY <1>2, <1>3
<1> HIDE DEF seq, u
<1>6. /\ RtoOK(u) /\ CopiesOK(u, c)
      /\ u.retxEvent # 0 /\ u.retxEvent # Off
      /\ u.congState = s.congState /\ u.recover = s.recover
  BY <1>4, <1>5, SendDataPacketTime DEF TimeOK
<1> QED  BY <1>6 DEF TimeOK, LossOK, Running, u

\* A scoreboard on which fewer segments are marked as retransmitted.
LEMMA FewerCopies ==
  ASSUME NEW s, NEW t, NEW c, CopiesOK(s, c), t.out = s.out,
         t.buf.nextByteSeq = s.buf.nextByteSeq,
         t.buf.retrans \subseteq s.buf.retrans
  PROVE  CopiesOK(t, c)
  BY DEF CopiesOK

\* EnterRecovery
LEMMA EnterRecoveryTime ==
  ASSUME NEW s, SocketOK(s), s.buf.firstByteSeq < s.buf.nextByteSeq,
         s.congState # "LOSS",
         NEW c \in Counts, TimeOK(s, c), s.retxEvent # 0
  PROVE  LET u == EnterRecovery(s) IN
         TimeOK(u, c) /\ Running(u) /\ u.congState = "RECOVERY"
<1> DEFINE head == s.buf.firstByteSeq
           b == IF IsLost(s.buf, head) THEN s.buf ELSE MarkHeadAsLost(s.buf)
           t == [s EXCEPT !.buf = b, !.recover = s.buf.nextByteSeq,
                          !.recoverActive = TRUE, !.congState = "RECOVERY"]
<1>1. Scoreboard(s.buf) /\ s \in Socket
  BY DEF SocketOK, SenderOK
<1>2. Scoreboard(b)
  BY <1>1, MarkHeadAsLostConsistent
<1>3. /\ b.firstByteSeq = s.buf.firstByteSeq
      /\ b.nextByteSeq = s.buf.nextByteSeq
      /\ b.retrans \subseteq s.buf.retrans
  BY <1>1 DEF MarkHeadAsLost, Scoreboard, TxBuffer
<1>4. s.buf.nextByteSeq \in 1..Segments + 1
  BY <1>1, ScoreboardBounds
<1>5. b \in TxBuffer
  BY <1>2 DEF Scoreboard
<1>6. EnterRecovery(s) = DoRetransmit(t)
  BY DEF EnterRecovery, HighTxMark
<1> HIDE DEF b
<1>7. /\ t \in Socket /\ t.buf = b /\ t.out = s.out
      /\ t.recover = s.buf.nextByteSeq /\ t.recoverActive = TRUE
      /\ t.congState = "RECOVERY" /\ t.dupAckCount = s.dupAckCount
      /\ t.rto = s.rto /\ t.retxEvent = s.retxEvent
      /\ t.dataRetrCount = s.dataRetrCount
  <2>1. s.buf.nextByteSeq \in 0..Segments + 1
    BY <1>4, BufferAssumption
  <2> QED  BY <1>1, <1>5, <2>1 DEF Socket
<1> HIDE DEF t
<1>8. SenderOK(t)
  BY <1>2, <1>3, <1>4, <1>7 DEF SocketOK, SenderOK
<1>9. TimeOK(t, c)
  <2>1. CopiesOK(t, c)
    BY <1>3, <1>7, FewerCopies DEF TimeOK
  <2>2. RtoOK(t) /\ LossOK(t)
    BY <1>7 DEF TimeOK, RtoOK, LossOK
  <2> QED  BY <2>1, <2>2 DEF TimeOK
<1>10. t.congState # "LOSS" /\ t.buf.firstByteSeq < t.buf.nextByteSeq
  BY <1>3, <1>7
<1>11. /\ TimeOK(DoRetransmit(t), c) /\ Running(DoRetransmit(t))
       /\ DoRetransmit(t).congState = t.congState
  BY <1>7, <1>8, <1>9, <1>10, DoRetransmitTime
<1> QED  BY <1>6, <1>7, <1>11

\* NewAck, which winds the timer up again or leaves it to run.
LEMMA NewAckTime ==
  ASSUME NEW s, SenderOK(s), NEW resetRTO \in BOOLEAN, NEW c,
         LossOK(s), CopiesOK(s, c), Running(s), resetRTO \/ RtoOK(s)
  PROVE  LET u == NewAck(s, resetRTO) IN
         /\ TimeOK(u, c) /\ Running(u)
         /\ u.congState = s.congState /\ u.recover = s.recover
         /\ u.buf = s.buf
<1> DEFINE rto == IF resetRTO THEN MinRto ELSE s.rto
           timer == CASE IsEmpty(s.buf) -> Off
                      [] ~IsEmpty(s.buf) /\ resetRTO -> MinRto
                      [] OTHER -> s.retxEvent
           u == [s EXCEPT !.dataRetrCount = DataRetries,
                          !.rto = rto, !.retxEvent = timer]
<1>1. s \in Socket
  BY DEF SocketOK, SenderOK
<1>2. /\ IsEmpty(s.buf) => timer = Off
      /\ ~IsEmpty(s.buf) => timer = IF resetRTO THEN MinRto ELSE s.retxEvent
  OBVIOUS
<1>3. NewAck(s, resetRTO) = u
  BY DEF NewAck
<1> HIDE DEF timer
<1>4. /\ u.buf = s.buf /\ u.out = s.out
      /\ u.recover = s.recover /\ u.congState = s.congState
      /\ u.dataRetrCount = DataRetries /\ u.rto = rto /\ u.retxEvent = timer
  BY <1>1 DEF Socket
<1> HIDE DEF u
<1>5. Running(u)
  BY <1>2, <1>4 DEF Running, Off, MinRto
<1>6. LossOK(u)
  BY <1>4 DEF LossOK
<1>7. CopiesOK(u, c)
  BY <1>4, FewerCopies
<1>8. RtoOK(u)
  <2>1. CASE IsEmpty(s.buf)
    BY <1>2, <1>4, <2>1 DEF RtoOK, Off, MinRto
  <2>2. CASE ~IsEmpty(s.buf)
    BY <1>2, <1>4, <2>2 DEF RtoOK, Off, MinRto
  <2> QED  BY <2>1, <2>2
<1> QED  BY <1>3, <1>4, <1>5, <1>6, <1>7, <1>8 DEF TimeOK

\* PartialAck
LEMMA PartialAckTime ==
  ASSUME NEW s, SenderOK(s), s.buf.firstByteSeq < s.buf.nextByteSeq, NEW ack,
         s.congState = "RECOVERY",
         NEW c \in Counts, TimeOK(s, c), Running(s)
  PROVE  LET u == PartialAck(s, ack) IN
         TimeOK(u, c) /\ Running(u) /\ u.congState = "RECOVERY"
<1> DEFINE t == IF IsRetransmittedDataAcked(s.buf, ack + 1) THEN s ELSE DoRetransmit(s)
           n == NewAck(t, s.isFirstPartialAck)
           u == [n EXCEPT !.isFirstPartialAck = FALSE]
<1>1. SenderOK(t) /\ TimeOK(t, c) /\ Running(t) /\ t.congState = "RECOVERY"
  <2>1. s.retxEvent # 0 /\ s.congState # "LOSS"
    BY DEF Running
  <2> QED  BY <2>1, DoRetransmitOK, DoRetransmitTime
<1>2. s.isFirstPartialAck \in BOOLEAN
  BY DEF SocketOK, SenderOK, Socket
<1>3. PartialAck(s, ack) = u
  BY DEF PartialAck
<1> HIDE DEF t
<1>4. /\ SenderOK(n) /\ TimeOK(n, c) /\ Running(n)
      /\ n.congState = t.congState
  BY <1>1, <1>2, NewAckOK, NewAckTime DEF TimeOK
<1> HIDE DEF n
<1>5. /\ u.buf = n.buf /\ u.out = n.out /\ u.recover = n.recover
      /\ u.congState = n.congState /\ u.rto = n.rto
      /\ u.retxEvent = n.retxEvent /\ u.dataRetrCount = n.dataRetrCount
  <2>1. n \in Socket
    BY <1>4 DEF SocketOK, SenderOK
  <2> QED  BY <2>1 DEF Socket
<1> HIDE DEF u
<1>6. TimeOK(u, c) /\ Running(u)
  BY <1>4, <1>5 DEF TimeOK, LossOK, RtoOK, CopiesOK, Running
<1> QED  BY <1>1, <1>3, <1>4, <1>5, <1>6

\* FullAck, after which the socket is not in state LOSS.
LEMMA FullAckTime ==
  ASSUME NEW s, SenderOK(s), NEW ack \in Nat, NEW isDupack \in BOOLEAN,
         ~isDupack => s.dupAckCount = 0,
         s.congState \in {"RECOVERY", "LOSS"} => ~(ack < s.recover),
         NEW c, TimeOK(s, c), Running(s)
  PROVE  LET u == FullAck(s, ack, isDupack) IN
         TimeOK(u, c) /\ Running(u) /\ u.congState # "LOSS"
<1> DEFINE stays == s.congState = "DISORDER" /\ isDupack
           state == IF stays THEN s.congState ELSE "OPEN"
           dup == IF s.congState = "RECOVERY" THEN 0 ELSE s.dupAckCount
           first == s.isFirstPartialAck \/ s.congState \in {"RECOVERY", "LOSS"}
           active == s.recoverActive /\ ack < s.recover
           u == [s EXCEPT !.congState = state, !.dupAckCount = dup,
                          !.isFirstPartialAck = first, !.recoverActive = active]
<1>1. s \in Socket /\ Scoreboard(s.buf)
  BY DEF SocketOK, SenderOK
<1>2. s.congState \in {"OPEN", "DISORDER", "RECOVERY", "LOSS"} /\ s.dupAckCount \in Nat
  BY <1>1 DEF Socket
<1>3. ~active
  BY DEF SocketOK, SenderOK
<1>4. state \in {"OPEN", "DISORDER"} /\ (stays => s.congState = "DISORDER")
  OBVIOUS
<1>5. dup \in Nat
  BY <1>2
<1>6. state = "OPEN" => dup = 0
  <2>1. CASE s.congState = "RECOVERY"
    BY <2>1
  <2>2. CASE s.congState \in {"OPEN", "LOSS"}
    <3>1. s.dupAckCount = 0
      BY <2>2 DEF SocketOK, SenderOK
    <3> QED  BY <3>1
  <2>3. CASE s.congState = "DISORDER"
    BY <2>3
  <2> QED  BY <1>2, <2>1, <2>2, <2>3
<1>7. state = "DISORDER" => dup = s.dupAckCount /\ s.congState = "DISORDER"
  OBVIOUS
<1>8. first \in BOOLEAN /\ active = FALSE
  BY <1>1, <1>3 DEF Socket
<1>9. FullAck(s, ack, isDupack) = IF stays THEN u ELSE NewAck(u, TRUE)
  BY DEF FullAck
<1> HIDE DEF state, dup, first, active, stays
<1>10. /\ u \in Socket /\ u.buf = s.buf /\ u.out = s.out
       /\ u.recover = s.recover /\ u.recoverActive = FALSE
       /\ u.congState = state /\ u.dupAckCount = dup
       /\ u.rto = s.rto /\ u.retxEvent = s.retxEvent
       /\ u.dataRetrCount = s.dataRetrCount
  BY <1>1, <1>4, <1>5, <1>8 DEF Socket
<1> HIDE DEF u
<1>11. SenderOK(u)
  <2>1. u.congState \in {"OPEN", "LOSS"} => u.dupAckCount = 0
    BY <1>4, <1>6, <1>10
  <2>2. u.congState = "DISORDER" => u.dupAckCount < DupThresh
    BY <1>7, <1>10 DEF SocketOK, SenderOK
  <2> QED  BY <1>10, <2>1, <2>2 DEF SocketOK, SenderOK
<1>12. LossOK(u) /\ CopiesOK(u, c) /\ Running(u) /\ u.congState # "LOSS"
  <2>1. CopiesOK(u, c)
    BY <1>10, FewerCopies DEF TimeOK
  <2> QED  BY <1>4, <1>10, <2>1 DEF LossOK, Running
<1>13. CASE stays
  <2>1. RtoOK(u)
    BY <1>4, <1>10, <1>13 DEF TimeOK, RtoOK
  <2> QED  BY <1>9, <1>12, <1>13, <2>1 DEF TimeOK
<1>14. CASE ~stays
  <2>1. /\ TimeOK(NewAck(u, TRUE), c) /\ Running(NewAck(u, TRUE))
        /\ NewAck(u, TRUE).congState = u.congState
    BY <1>11, <1>12, NewAckTime
  <2> QED  BY <1>9, <1>12, <1>14, <2>1
<1> QED  BY <1>13, <1>14

\* AckNewData: state LOSS ends when what was sent before the time-out is
\* acknowledged, and not before.
LEMMA AckNewDataTime ==
  ASSUME NEW s, SenderOK(s), NEW ack, ack = s.buf.firstByteSeq,
         NEW isDupack \in BOOLEAN,
         NEW c \in Counts, TimeOK(s, c), Running(s)
  PROVE  LET u == AckNewData(s, ack, isDupack) IN
         /\ TimeOK(u, c) /\ Running(u)
         /\ u.congState = "LOSS" =>
              s.congState = "LOSS" /\ u.recover = s.recover /\ ack < s.recover
         /\ s.congState = "LOSS" /\ ack < s.recover => u.congState = "LOSS"
<1> DEFINE dup == IF isDupack THEN s.dupAckCount ELSE 0
           t == [s EXCEPT !.dupAckCount = dup]
           u == AckNewData(s, ack, isDupack)
<1>1. s \in Socket /\ Scoreboard(s.buf)
  BY DEF SocketOK, SenderOK
<1>2. dup \in Nat
  BY <1>1 DEF Socket
<1>3. (~isDupack => dup = 0) /\ (dup = s.dupAckCount \/ dup = 0)
  OBVIOUS
<1>4. u = CASE ack < t.recover /\ t.congState = "RECOVERY" -> PartialAck(t, ack)
            [] ack < t.recover /\ t.congState = "LOSS"     -> NewAck(t, TRUE)
            [] OTHER                                       -> FullAck(t, ack, isDupack)
  BY DEF AckNewData
<1> HIDE DEF dup
<1>5. /\ t \in Socket /\ t.buf = s.buf /\ t.out = s.out
      /\ t.recover = s.recover /\ t.recoverActive = s.recoverActive
      /\ t.congState = s.congState /\ t.dupAckCount = dup
      /\ t.rto = s.rto /\ t.retxEvent = s.retxEvent
      /\ t.dataRetrCount = s.dataRetrCount
  BY <1>1, <1>2 DEF Socket
<1> HIDE DEF t, u
<1>6. SenderOK(t)
  <2>1. DupThresh \in Nat /\ 0 < DupThresh
    BY BufferAssumption
  <2> QED  BY <1>3, <1>5, <2>1 DEF SocketOK, SenderOK
<1>7. TimeOK(t, c) /\ Running(t)
  BY <1>5 DEF TimeOK, LossOK, RtoOK, CopiesOK, Running
<1>8. /\ ack \in Nat /\ t.recover \in Int /\ s.buf.nextByteSeq \in Int
      /\ t.recover <= s.buf.nextByteSeq
  BY <1>1, <1>5, ScoreboardBounds, BufferAssumption DEF SocketOK, SenderOK, Socket
<1>9. CASE ack < t.recover /\ t.congState = "RECOVERY"
  <2>1. u = PartialAck(t, ack)
    BY <1>4, <1>9
  <2>2. t.buf.firstByteSeq < t.buf.nextByteSeq
    BY <1>5, <1>8, <1>9
  <2>3. TimeOK(u, c) /\ Running(u) /\ u.congState = "RECOVERY"
    BY <1>6, <1>7, <1>9, <2>1, <2>2, PartialAckTime
  <2> QED  BY <1>5, <1>9, <2>3 DEF u
<1>10. CASE ack < t.recover /\ t.congState = "LOSS"
  <2>1. u = NewAck(t, TRUE)
    <3>1. ~(t.congState = "RECOVERY")
      BY <1>10
    <3> QED  BY <1>4, <1>10, <3>1
  <2>2. /\ TimeOK(u, c) /\ Running(u)
        /\ u.congState = t.congState /\ u.recover = t.recover
    BY <1>6, <1>7, <2>1, NewAckTime DEF TimeOK
  <2> QED  BY <1>5, <1>10, <2>2 DEF u
<1>11. CASE ~(ack < t.recover /\ t.congState \in {"RECOVERY", "LOSS"})
  <2>1. u = FullAck(t, ack, isDupack)
    BY <1>4, <1>11
  <2>2. ~isDupack => t.dupAckCount = 0
    BY <1>3, <1>5
  <2>3. TimeOK(u, c) /\ Running(u) /\ u.congState # "LOSS"
    BY <1>6, <1>7, <1>8, <1>11, <2>1, <2>2, FullAckTime
  <2> QED  BY <1>5, <1>11, <2>3 DEF u
<1> QED  BY <1>9, <1>10, <1>11

\* DupAck, which does nothing in state LOSS.
LEMMA DupAckTime ==
  ASSUME NEW s, SenderOK(s), s.buf.firstByteSeq < s.buf.nextByteSeq,
         NEW c \in Counts, TimeOK(s, c), Running(s)
  PROVE  LET u == DupAck(s) IN
         /\ TimeOK(u, c) /\ Running(u)
         /\ s.congState = "LOSS" => u = s
         /\ s.congState # "LOSS" => u.congState # "LOSS"
<1> DEFINE dup == s.dupAckCount + 1
           t == [s EXCEPT !.dupAckCount = dup, !.congState = "DISORDER"]
           u == DupAck(s)
<1>1. s \in Socket /\ Scoreboard(s.buf) /\ s.dupAckCount \in Nat
  BY DEF SocketOK, SenderOK, Socket
<1>2. dup \in Nat
  BY <1>1
<1>3. u = CASE s.congState \in {"LOSS", "RECOVERY"} -> s
            [] s.congState \in {"OPEN", "DISORDER"} /\ StartsRecovery(t)
                 -> EnterRecovery(t)
            [] OTHER -> t
  BY DEF DupAck
<1>4. CASE s.congState \in {"LOSS", "RECOVERY"}
  BY <1>3, <1>4
<1>5. CASE s.congState \in {"OPEN", "DISORDER"}
  <2> HIDE DEF dup
  <2>1. /\ t \in Socket /\ t.buf = s.buf /\ t.out = s.out
        /\ t.recover = s.recover /\ t.congState = "DISORDER"
        /\ t.rto = s.rto /\ t.retxEvent = s.retxEvent
        /\ t.dataRetrCount = s.dataRetrCount
    BY <1>1, <1>2 DEF Socket
  <2> HIDE DEF t, u
  <2>2. s.congState # "LOSS" /\ t.congState # "LOSS" /\ t.retxEvent # 0
    BY <1>5, <2>1 DEF Running
  <2>3. TimeOK(t, c) /\ Running(t)
    BY <2>1, <2>2 DEF TimeOK, LossOK, RtoOK, CopiesOK, Running
  <2>4. u = IF StartsRecovery(t) THEN EnterRecovery(t) ELSE t
    <3>1. ~(s.congState \in {"LOSS", "RECOVERY"})
      BY <1>5
    <3> QED  BY <1>3, <1>5, <3>1
  <2>5. /\ TimeOK(EnterRecovery(t), c) /\ Running(EnterRecovery(t))
        /\ EnterRecovery(t).congState = "RECOVERY"
    <3>1. SocketOK(t)
      BY <1>1, <2>1 DEF SocketOK, SenderOK
    <3> QED  BY <2>1, <2>2, <2>3, <3>1, EnterRecoveryTime
  <2> QED  BY <2>2, <2>3, <2>4, <2>5 DEF u
<1>6. s.congState \in {"OPEN", "DISORDER", "RECOVERY", "LOSS"}
  BY <1>1 DEF Socket
<1> QED  BY <1>4, <1>5, <1>6 DEF u

\* ProcessAck
LEMMA ProcessAckTime ==
  ASSUME NEW s, SenderOK(s), NEW ack, ack = s.buf.firstByteSeq,
         NEW oldHead, NEW isDupack \in BOOLEAN,
         isDupack => s.buf.firstByteSeq < s.buf.nextByteSeq,
         NEW c \in Counts, TimeOK(s, c), Running(s)
  PROVE  LET u == ProcessAck(s, ack, oldHead, isDupack) IN
         /\ TimeOK(u, c) /\ Running(u)
         /\ u.congState = "LOSS" =>
              /\ s.congState = "LOSS" /\ u.recover = s.recover
              /\ ack > oldHead => ack < s.recover
         /\ s.congState = "LOSS" /\ ack < s.recover => u.congState = "LOSS"
<1> DEFINE t == IF isDupack THEN DupAck(s) ELSE s
           u == IF ack > oldHead THEN AckNewData(t, ack, isDupack) ELSE t
<1>1. /\ SenderOK(t) /\ OnlySends(s, t)
      /\ TimeOK(t, c) /\ Running(t)
      /\ s.congState = "LOSS" => t = s
      /\ s.congState # "LOSS" => t.congState # "LOSS"
  <2>1. OnlySends(s, s)
    BY ScoreboardBounds DEF SocketOK, SenderOK, OnlySends
  <2>2. CASE isDupack
    BY <2>2, DupAckOK, DupAckTime
  <2>3. CASE ~isDupack
    BY <2>1, <2>3
  <2> QED  BY <2>2, <2>3
<1>2. ProcessAck(s, ack, oldHead, isDupack) = u
  BY DEF ProcessAck
<1> HIDE DEF t
<1>3. ack = t.buf.firstByteSeq
  BY <1>1 DEF OnlySends
<1>4. LET v == AckNewData(t, ack, isDupack) IN
      /\ TimeOK(v, c) /\ Running(v)
      /\ v.congState = "LOSS" =>
           t.congState = "LOSS" /\ v.recover = t.recover /\ ack < t.recover
      /\ t.congState = "LOSS" /\ ack < t.recover => v.congState = "LOSS"
  BY <1>1, <1>3, AckNewDataTime
<1>5. CASE ack > oldHead
  <2>1. u = AckNewData(t, ack, isDupack)
    BY <1>5
  <2> HIDE DEF u
  <2> QED  BY <1>1, <1>2, <1>4, <2>1
<1>6. CASE ~(ack > oldHead)
  <2>1. u = t
    BY <1>6
  <2> HIDE DEF u
  <2> QED  BY <1>1, <1>2, <1>6, <2>1
<1> QED  BY <1>5, <1>6

\* Update takes for lost only what is not marked yet.
LEMMA UpdateMarks ==
  ASSUME NEW t \in TxBuffer, NEW blocks
  PROVE  LET v == Update(t, blocks) IN
         /\ v.firstByteSeq = t.firstByteSeq /\ v.nextByteSeq = t.nextByteSeq
         /\ v.retrans = t.retrans
         /\ t.lost \cup t.sacked \subseteq v.lost \cup v.sacked
         /\ v.lost \cap (t.lost \cup t.sacked) \subseteq t.lost
<1> DEFINE new == NewlySacked(t, blocks)
           high == IF t.highestSack <= Max(new) + 1 THEN Max(new) ELSE t.highestSack
           sacked == t.sacked \cup new
           lost == t.lost \ new
           m == [t EXCEPT
                   !.sacked      = sacked,
                   !.sackedOut   = @ + Cardinality(new),
                   !.lost        = lost,
                   !.lostOut     = @ - Cardinality(t.lost \cap new),
                   !.highestSack = high]
           above(i) == {j \in m.sacked : i <= j /\ j <= m.highestSack}
           newlyLost == {i \in m.firstByteSeq..m.highestSack :
                      /\ i \notin m.sacked \cup m.lost
                      /\ Cardinality(above(i)) >= DupThresh}
           n == [m EXCEPT !.lost = @ \cup newlyLost,
                          !.lostOut = @ + Cardinality(newlyLost)]
<1>1. CASE new = {}
  BY <1>1 DEF Update
<1>2. CASE new # {}
  <2>1. Update(t, blocks) = UpdateLostCount(m)
    BY <1>2 DEF Update
  <2>2. UpdateLostCount(m) = n
    BY DEF UpdateLostCount
  <2> HIDE DEF high, new, sacked, lost
  <2>3. /\ m.firstByteSeq = t.firstByteSeq /\ m.nextByteSeq = t.nextByteSeq
        /\ m.retrans = t.retrans /\ m.sacked = sacked /\ m.lost = lost
    BY DEF TxBuffer
  <2>4. newlyLost \cap (sacked \cup lost) = {}
    <3> HIDE DEF m, above
    <3> QED  BY <2>3
  <2>5. /\ n.firstByteSeq = m.firstByteSeq /\ n.nextByteSeq = m.nextByteSeq
        /\ n.retrans = m.retrans /\ n.sacked = m.sacked
        /\ n.lost = m.lost \cup newlyLost
    <3> HIDE DEF newlyLost
    <3> QED  BY DEF TxBuffer
  <2> HIDE DEF n, m, newlyLost
  <2> QED  BY <2>1, <2>2, <2>3, <2>4, <2>5 DEF sacked, lost
<1> QED  BY <1>1, <1>2

\* The scoreboard of state LOSS when an acknowledgement has been entered.
LEMMA LossAcked ==
  ASSUME NEW s, SenderOK(s), LossOK(s), NEW blocks, NEW ack,
         NEW t, t.congState = s.congState, t.recover = s.recover,
         t.buf = DiscardUpTo(Update(s.buf, blocks), ack),
         Scoreboard(t.buf), Scoreboard(Update(s.buf, blocks)),
         t.buf.firstByteSeq = ack, t.buf.nextByteSeq = s.buf.nextByteSeq,
         s.buf.firstByteSeq <= ack
  PROVE  LossOK(t) /\ t.buf.retrans \subseteq s.buf.retrans
<1> DEFINE b == s.buf
           v == Update(b, blocks)
           acked == v.firstByteSeq..ack - 1
<1>1. Scoreboard(b) /\ b \in TxBuffer
  BY DEF SocketOK, SenderOK, Scoreboard
<1>2. /\ v.firstByteSeq = b.firstByteSeq /\ v.nextByteSeq = b.nextByteSeq
      /\ v.retrans = b.retrans
      /\ b.lost \cup b.sacked \subseteq v.lost \cup v.sacked
      /\ v.lost \cap (b.lost \cup b.sacked) \subseteq b.lost
  BY <1>1, UpdateMarks
<1>3. v \in TxBuffer /\ v.lost \subseteq SentList(v)
  BY DEF Scoreboard, Consistent
<1> HIDE DEF v
<1>4. /\ b.firstByteSeq \in Int /\ b.nextByteSeq \in Int /\ ack \in Int
  BY <1>1, ScoreboardBounds
<1>5. SentList(v) = SentList(b)
  BY <1>2 DEF SentList
<1>6. /\ t.buf.lost = v.lost \ acked /\ t.buf.sacked = v.sacked \ acked
      /\ t.buf.retrans = v.retrans \ acked
  <2>1. t.buf = DiscardUpTo(v, ack)
    BY DEF v
  <2>2. CASE v.firstByteSeq >= ack
    <3>1. acked = {} /\ t.buf = v
      BY <1>2, <1>4, <2>1, <2>2 DEF DiscardUpTo
    <3> QED  BY <3>1
  <2>3. CASE ~(v.firstByteSeq >= ack)
    <3> DEFINE x == v.sacked \ acked
               y == v.lost \ acked
               z == v.retrans \ acked
               k == v.sackedOut - Cardinality(v.sacked \cap acked)
               m == v.lostOut - Cardinality(v.lost \cap acked)
               n == v.retransOut - Cardinality(v.retrans \cap acked)
               h == IF v.highestSack <= ack THEN None ELSE v.highestSack
    <3>1. t.buf = [v EXCEPT !.firstByteSeq = ack,
                            !.sacked = x, !.lost = y, !.retrans = z,
                            !.sackedOut = k, !.lostOut = m, !.retransOut = n,
                            !.highestSack = h]
      BY <2>1, <2>3 DEF DiscardUpTo
    <3> HIDE DEF x, y, z, k, m, n, h
    <3>2. t.buf.lost = y /\ t.buf.sacked = x /\ t.buf.retrans = z
      BY <1>3, <3>1 DEF TxBuffer
    <3> QED  BY <3>2 DEF x, y, z
  <2> QED  BY <2>2, <2>3
<1>7. \A i \in SentList(t.buf) : i \in SentList(b) /\ i \notin acked
  BY <1>2, <1>4 DEF SentList
<1>8. ASSUME s.congState = "LOSS" PROVE LossOK(t)
  <2>1. /\ \A i \in SentList(b) : i < s.recover => i \in b.lost \cup b.sacked
        /\ \A i \in b.retrans, j \in b.lost : j < i /\ j < s.recover => j \in b.retrans
        /\ (\E j \in b.lost \ b.retrans : j < s.recover) => b.nextByteSeq = s.recover
    BY <1>8 DEF LossOK
  <2>2. \A i \in SentList(t.buf) : i < t.recover => i \in t.buf.lost \cup t.buf.sacked
    BY <1>2, <1>6, <1>7, <2>1
  <2>3. ASSUME NEW j \in v.lost, j < s.recover PROVE j \in b.lost
    BY <1>2, <1>3, <1>5, <2>1, <2>3
  <2> HIDE DEF acked, b
  <2>4. ASSUME NEW i \in t.buf.retrans, NEW j \in t.buf.lost, j < i, j < t.recover
        PROVE  j \in t.buf.retrans
    <3>1. i \in b.retrans /\ j \in b.lost /\ j \notin acked
      BY <1>2, <1>6, <2>3, <2>4
    <3>2. j \in b.retrans
      BY <2>1, <2>4, <3>1
    <3> QED  BY <1>2, <1>6, <3>1, <3>2
  <2>5. ASSUME NEW j \in t.buf.lost \ t.buf.retrans, j < t.recover
        PROVE  t.buf.nextByteSeq = t.recover
    <3>1. j \in b.lost /\ j \notin acked
      BY <1>6, <2>3, <2>5
    <3>2. j \notin b.retrans
      BY <1>2, <1>6, <2>5, <3>1
    <3> QED  BY <2>1, <2>5, <3>1, <3>2 DEF b
  <2> QED  BY <2>2, <2>4, <2>5 DEF LossOK
<1> QED  BY <1>2, <1>6, <1>8 DEF LossOK

\* ReceivedAck: as long as state LOSS lasts, its recovery point does not
\* move, and it lasts until all below that point is acknowledged.
LEMMA ReceivedAckTime ==
  ASSUME NEW s, SenderOK(s), NEW ack \in 1..Segments + 1,
         s.buf.firstByteSeq <= ack, ack <= s.buf.nextByteSeq,
         ack \notin s.buf.sacked,
         NEW blocks \in SUBSET SegmentNos, \A i \in blocks : i > ack,
         NEW window \in Nat \ {0},
         NEW c \in Counts, TimeOK(s, c), Settled(s), s.retxEvent # 0
  PROVE  LET u == ReceivedAck(s, ack, blocks, window) IN
         /\ TimeOK(u, c) /\ u.retxEvent # 0 /\ Settled(u)
         /\ u.congState = "LOSS" => s.congState = "LOSS" /\ u.recover = s.recover
         /\ s.congState = "LOSS" /\ ack < s.recover => u.congState = "LOSS"
<1> DEFINE v == Update(s.buf, blocks)
           b == DiscardUpTo(v, ack)
           mark == IF ack > s.highRxAckMark THEN ack ELSE s.highRxAckMark
           t == [s EXCEPT !.highRxAckMark = mark, !.buf = b]
           new == NewlySacked(s.buf, blocks) # {}
           old == s.buf.firstByteSeq
           p == ProcessAck(t, ack, old, new)
           u == SendPendingData(p, window)
<1>1. s \in Socket /\ Scoreboard(s.buf)
  BY DEF SocketOK, SenderOK
<1>2. /\ old \in 1..Segments + 1 /\ s.buf.nextByteSeq \in 1..Segments + 1
      /\ ack \in 1..Segments + 1 /\ Segments \in Nat /\ DupThresh \in Nat
  BY <1>1, ScoreboardBounds, BufferAssumption
<1>3. old \notin blocks
  BY <1>2 DEF SegmentNos
<1>4. Scoreboard(v)
  BY <1>1, <1>3, UpdateConsistent
<1>5. /\ v.firstByteSeq = old /\ v.nextByteSeq = s.buf.nextByteSeq
      /\ v.sacked \subseteq s.buf.sacked \cup blocks
  BY <1>1 DEF Update, UpdateLostCount, NewlySacked, Scoreboard, TxBuffer
<1>6. ack \notin v.sacked
  BY <1>2, <1>5
<1>7. Scoreboard(b)
  BY <1>2, <1>4, <1>5, <1>6, DiscardUpToConsistent
<1>8. b.firstByteSeq = ack /\ b.nextByteSeq = s.buf.nextByteSeq
  <2> HIDE DEF v
  <2>1. v \in TxBuffer
    BY <1>4 DEF Scoreboard
  <2>2. CASE old >= ack
    <3>1. b = v /\ ack = old
      BY <1>2, <1>5, <2>2 DEF DiscardUpTo
    <3> QED  BY <1>5, <3>1
  <2>3. CASE ~(old >= ack)
    <3>1. b.firstByteSeq = ack /\ b.nextByteSeq = v.nextByteSeq
      BY <1>5, <2>1, <2>3 DEF DiscardUpTo, TxBuffer
    <3> QED  BY <1>5, <3>1
  <2> QED  BY <2>2, <2>3
<1>9. mark \in 1..Segments + 1 /\ b \in TxBuffer
  BY <1>1, <1>7 DEF Socket, Scoreboard
<1>10. new => ack < s.buf.nextByteSeq
  <2>1. ASSUME NEW i \in blocks, i \in SentList(s.buf) PROVE ack < s.buf.nextByteSeq
    <3>1. i > ack /\ i \in Int /\ i <= s.buf.nextByteSeq - 1
      BY <1>2, <2>1 DEF SentList, SegmentNos
    <3> QED  BY <1>2, <3>1
  <2> QED  BY <2>1 DEF NewlySacked
<1>11. ReceivedAck(s, ack, blocks, window) = u
  BY DEF ReceivedAck
<1> HIDE DEF b, mark, new
<1>12. /\ t \in Socket /\ t.buf = b /\ t.out = s.out
       /\ t.recover = s.recover /\ t.recoverActive = s.recoverActive
       /\ t.congState = s.congState /\ t.dupAckCount = s.dupAckCount
       /\ t.rto = s.rto /\ t.retxEvent = s.retxEvent
       /\ t.dataRetrCount = s.dataRetrCount
  BY <1>1, <1>9 DEF Socket
<1> HIDE DEF t
<1>13. SenderOK(t)
  BY <1>7, <1>8, <1>12 DEF SocketOK, SenderOK
<1>14. TimeOK(t, c) /\ Running(t)
  <2>1. LossOK(t) /\ b.retrans \subseteq s.buf.retrans
    <3>1. t.buf = DiscardUpTo(Update(s.buf, blocks), ack)
      BY <1>12 DEF b, v
    <3>2. LossOK(s)
      BY DEF TimeOK
    <3>3. /\ Scoreboard(t.buf) /\ Scoreboard(Update(s.buf, blocks))
          /\ t.buf.firstByteSeq = ack /\ t.buf.nextByteSeq = s.buf.nextByteSeq
          /\ s.buf.firstByteSeq <= ack
      BY <1>4, <1>7, <1>8, <1>12
    <3>4. LossOK(t) /\ t.buf.retrans \subseteq s.buf.retrans
      BY <1>12, <3>1, <3>2, <3>3, LossAcked
    <3> QED  BY <1>12, <3>4
  <2>2. CopiesOK(t, c)
    BY <1>8, <1>12, <2>1, FewerCopies DEF TimeOK
  <2>3. RtoOK(t)
    BY <1>12 DEF TimeOK, RtoOK
  <2>4. Running(t)
    <3>1. ~IsEmpty(t.buf) => ~IsEmpty(s.buf)
      <4>1. t.buf.firstByteSeq = ack
        BY <1>8, <1>12
      <4>2. ~(ack > Segments) => ~(old > Segments)
        BY <1>2
      <4> QED  BY <4>1, <4>2 DEF IsEmpty
    <3> QED  BY <1>12, <3>1 DEF Running, Settled
  <2> QED  BY <2>1, <2>2, <2>3, <2>4 DEF TimeOK
<1>15. /\ SenderOK(p) /\ OnlySends(t, p)
       /\ TimeOK(p, c) /\ Running(p)
       /\ p.congState = "LOSS" =>
            /\ t.congState = "LOSS" /\ p.recover = t.recover
            /\ ack > old => ack < t.recover
       /\ t.congState = "LOSS" /\ ack < t.recover => p.congState = "LOSS"
  <2>1. new \in BOOLEAN
    BY DEF new
  <2>2. new => t.buf.firstByteSeq < t.buf.nextByteSeq
    BY <1>8, <1>10, <1>12
  <2>3. ack = t.buf.firstByteSeq
    BY <1>8, <1>12
  <2>4. SenderOK(p) /\ OnlySends(t, p)
    BY <1>13, <2>1, <2>2, <2>3, ProcessAckOK
  <2>5. /\ TimeOK(p, c) /\ Running(p)
        /\ p.congState = "LOSS" =>
             /\ t.congState = "LOSS" /\ p.recover = t.recover
             /\ ack > old => ack < t.recover
        /\ t.congState = "LOSS" /\ ack < t.recover => p.congState = "LOSS"
    <3> HIDE DEF old
    <3>1. /\ SenderOK(t) /\ TimeOK(t, c) /\ Running(t) /\ c \in Counts
          /\ ack = t.buf.firstByteSeq /\ new \in BOOLEAN
          /\ new => t.buf.firstByteSeq < t.buf.nextByteSeq
      BY <1>13, <1>14, <2>1, <2>2, <2>3
    <3> HIDE DEF p
    <3>2. ProcessAck(t, ack, old, new) = p
      BY DEF p
    <3>3. /\ TimeOK(ProcessAck(t, ack, old, new), c)
          /\ Running(ProcessAck(t, ack, old, new))
      BY ONLY <3>1, ProcessAckTime
    <3>4. ProcessAck(t, ack, old, new).congState = "LOSS" =>
             /\ t.congState = "LOSS" /\ ProcessAck(t, ack, old, new).recover = t.recover
             /\ ack > old => ack < t.recover
      BY ONLY <3>1, ProcessAckTime
    <3>5. t.congState = "LOSS" /\ ack < t.recover =>
             ProcessAck(t, ack, old, new).congState = "LOSS"
      BY ONLY <3>1, ProcessAckTime
    <3> QED  BY <3>2, <3>3, <3>4, <3>5
  <2> QED  BY <2>4, <2>5
<1> HIDE DEF p
<1>16. Ready(p)
  <2>1. p.congState = "LOSS" => p.buf.firstByteSeq < p.recover
    <3> SUFFICES ASSUME p.congState = "LOSS" PROVE p.buf.firstByteSeq < p.recover
      OBVIOUS
    <3>1. p.buf.firstByteSeq = ack /\ p.recover = s.recover /\ s.congState = "LOSS"
      BY <1>8, <1>12, <1>15 DEF OnlySends
    <3>2. CASE ack = old
      BY <3>1, <3>2 DEF Settled
    <3>3. CASE ack > old
      BY <1>12, <1>15, <3>1, <3>3
    <3> QED  BY <1>2, <3>2, <3>3
  <2> QED  BY <1>15, <2>1 DEF Running, Ready
<1>17. /\ TimeOK(u, c) /\ u.retxEvent # 0 /\ Settled(u)
       /\ u.congState = p.congState /\ u.recover = p.recover
  BY <1>15, <1>16, SendPendingDataTime
<1> HIDE DEF u
<1> QED  BY <1>11, <1>12, <1>15, <1>17

\* ReTxTimeout, with retries left: all that was sent is taken to be lost.
LEMMA ReTxTimeoutTime ==
  ASSUME NEW s, SenderOK(s), NEW c \in Counts, CopiesOK(s, c),
         s.dataRetrCount # 0, s.buf.firstByteSeq < s.buf.nextByteSeq
  PROVE  LET u == ReTxTimeout(s) IN
         /\ TimeOK(u, c) /\ u.retxEvent # 0 /\ Settled(u)
         /\ u.congState = "LOSS" /\ u.recover = s.buf.nextByteSeq
         /\ u.connected = s.connected
<1> DEFINE b == SetSentListLost(s.buf)
           rto == IF 2 * s.rto < MaxRto THEN 2 * s.rto ELSE MaxRto
           count == s.dataRetrCount - 1
           mark == s.buf.nextByteSeq
           t == [s EXCEPT !.dataRetrCount = count,
                          !.dupAckCount = 0,
                          !.buf = b,
                          !.recover = mark,
                          !.recoverActive = TRUE,
                          !.rto = rto,
                          !.congState = "LOSS",
                          !.retxEvent = Off]
           u == SendPendingData(t, 1)
<1>1. s \in Socket /\ Scoreboard(s.buf)
  BY DEF SocketOK, SenderOK
<1>2. mark \in 1..Segments + 1
  BY <1>1, ScoreboardBounds
<1>3. ReTxTimeout(s) = SendPendingData(AfterTimeout(s), 1)
  BY DEF ReTxTimeout
<1>4. AfterTimeout(s) = t
  BY DEF AfterTimeout, HighTxMark
<1>5. Scoreboard(b)
  BY <1>1, SetSentListLostConsistent
<1>6. /\ b.firstByteSeq = s.buf.firstByteSeq
      /\ b.nextByteSeq = s.buf.nextByteSeq
      /\ b.sacked = s.buf.sacked
      /\ b.lost = SentList(s.buf) \ s.buf.sacked
      /\ b.retrans = {}
  BY <1>1 DEF SetSentListLost, Scoreboard, TxBuffer
<1>7. count \in 0..DataRetries
  BY <1>1, SenderAssumption DEF Socket
<1>8. rto \in MinRto..MaxRto
  <2> DEFINE r == s.rto
  <2>1. r \in 1..60
    BY <1>1 DEF Socket, MinRto, MaxRto
  <2>2. rto = IF 2 * r < 60 THEN 2 * r ELSE 60
    BY DEF MaxRto
  <2> HIDE DEF r, rto
  <2> QED  BY <2>1, <2>2 DEF MinRto, MaxRto
<1>9. mark \in 0..Segments + 1
  BY <1>2, BufferAssumption
<1>10. b \in TxBuffer /\ Off \in Off..MaxRto
  BY <1>5 DEF Scoreboard, Off, MaxRto
<1> HIDE DEF b, rto, count
<1>11. /\ t \in Socket /\ t.buf = b /\ t.out = s.out
       /\ t.recover = mark /\ t.recoverActive = TRUE
       /\ t.congState = "LOSS" /\ t.dupAckCount = 0
       /\ t.connected = s.connected /\ t.retxEvent = Off
  <2> HIDE DEF mark
  <2> QED  BY <1>1, <1>7, <1>8, <1>9, <1>10 DEF Socket
<1> HIDE DEF t
<1>12. SenderOK(t)
  BY <1>2, <1>5, <1>6, <1>11 DEF SocketOK, SenderOK
<1>13. TimeOK(t, c)
  <2>1. LossOK(t)
    <3>1. SentList(t.buf) = SentList(s.buf)
      BY <1>6, <1>11 DEF SentList
    <3> QED  BY <1>6, <1>11, <3>1 DEF LossOK
  <2>2. CopiesOK(t, c)
    BY <1>6, <1>11, FewerCopies
  <2> QED  BY <1>11, <2>1, <2>2 DEF TimeOK, RtoOK
<1>14. Ready(t)
  BY <1>6, <1>11 DEF Ready, Off
<1>15. /\ SenderOK(u) /\ OnlySends(t, u)
       /\ TimeOK(u, c) /\ u.retxEvent # 0 /\ Settled(u)
       /\ u.congState = t.congState /\ u.recover = t.recover
  BY <1>12, <1>13, <1>14, SendPendingDataOK, SendPendingDataTime
<1> HIDE DEF u
<1>16. ReTxTimeout(s) = u
  BY <1>3, <1>4 DEF u
<1> QED  BY <1>11, <1>15, <1>16 DEF OnlySends

\* The socket at first.
LEMMA NewSocketTime ==
  ASSUME NEW c \in Counts
  PROVE  TimeOK(NewSocket, c) /\ Ready(NewSocket)
<1> DEFINE b == NewTxBuffer
<1>1. b.nextByteSeq = 1 /\ b.firstByteSeq = 1 /\ b.retrans = {}
  BY DEF NewTxBuffer
<1>2. /\ NewSocket.buf = b /\ NewSocket.congState = "OPEN"
      /\ NewSocket.retxEvent = Off /\ NewSocket.rto = MinRto
      /\ NewSocket.dataRetrCount = DataRetries
  BY DEF NewSocket
<1> HIDE DEF b
<1>3. CopiesOK(NewSocket, c)
  <2>1. \A i \in SegmentNos : ~(i < 1)
    BY BufferAssumption DEF SegmentNos
  <2> QED  BY <1>1, <1>2, <2>1 DEF CopiesOK
<1> QED  BY <1>1, <1>2, <1>3 DEF TimeOK, LossOK, RtoOK, Ready, Off, MinRto

-------------------------------------------------------------------------------
\* The loop in time: what holds of it as long as the links lose nothing.

\* The acknowledgement that the sender will have in the end
LastAck == IF acks = <<>> THEN snd.buf.firstByteSeq ELSE acks[Len(acks)].number

\* is that of what the receiver has, unless the receiver still puts it off.
AckComes ==
  LastAck = NextRxSequence(rcv.received) \/ rcv.delAckCount = 1

\* The timer expires when nothing is on its way.
SenderInTime ==
  /\ TimeOK(snd, copies)
  /\ Settled(snd)
  /\ snd.connected
  /\ snd.retxEvent = 0 => Quiet /\ snd.congState # "LOSS"

\* Only what is sent for the first time is dropped, and the rest arrives.
RestArrives ==
  /\ \A p \in asked : p.copy = 1
  /\ UidsOf(sent) \subseteq rcv.received

\* A drop is pending for a second at most, and then the timer is about to
\* expire, or has expired and the retransmission is due.
DropsInTime ==
  /\ F!NothingExpired(flow)
  /\ \A id \in Awaited :
       /\ flow.pendingDrops[id] <= 1
       /\ flow.pendingDrops[id] = 1 =>
            \/ snd.retxEvent = 0
            \/ snd.congState = "LOSS" /\ id[1] < snd.recover

InTime == SenderInTime /\ AckComes /\ RestArrives /\ DropsInTime

TimeInv == losses = 0 => InTime /\ D!TakesTurns

\* The last acknowledgement, when one is sent.
LEMMA SendAckComes ==
  ASSUME NEW r, acks \in Seq(Ack), r \in SUBSET SegmentNos, SendAck(r)
  PROVE  AckComes' /\ rcv'.received = r
<1> DEFINE a == [number |-> NextRxSequence(r),
                 sacked |-> {i \in r : i > NextRxSequence(r)}]
<1>1. /\ acks' = Append(acks, a) /\ rcv'.received = r
  BY DEF SendAck
<1>2. a.number = NextRxSequence(r)
  OBVIOUS
<1>3. a \in Ack
  BY NextRxIsMissing DEF Ack
<1> HIDE DEF a
<1>4. /\ Len(acks') = Len(acks) + 1 /\ Len(acks) \in Nat /\ acks' \in Seq(Ack)
      /\ acks'[Len(acks) + 1] = a
  BY <1>1, <1>3, AppendProperties, LenProperties
<1>5. acks' # <<>>
  BY <1>4, EmptySeq
<1>6. LastAck' = acks'[Len(acks')].number
  BY <1>5 DEF LastAck
<1>7. LastAck' = NextRxSequence(r)
  BY <1>2, <1>4, <1>6, Zenon
<1> QED  BY <1>1, <1>7 DEF AckComes

\* A segment comes to the receiver.
LEMMA ReceivedDataComes ==
  ASSUME acks \in Seq(Ack), rcv \in Receiver, NEW i \in SegmentNos, ReceivedData(i)
  PROVE  AckComes' /\ rcv'.received = rcv.received \cup {i}
<1>1. CASE SendAck(rcv.received \cup {i})
  BY <1>1, SendAckComes DEF Receiver
<1>2. CASE /\ MayDelayAck(i)
           /\ rcv' = [received |-> rcv.received \cup {i},
                      delAckCount |-> rcv.delAckCount + 1]
  <2>1. rcv.delAckCount \in 0..2 /\ rcv.delAckCount + 1 < 2
    BY <1>2 DEF MayDelayAck, Receiver
  <2>2. rcv.delAckCount + 1 = 1
    BY <2>1
  <2> QED  BY <1>2, <2>2 DEF AckComes
<1> QED  BY <1>1, <1>2 DEF ReceivedData

\* The receiver and the wire rest.
LEMMA AckStillComes ==
  ASSUME AckComes, UNCHANGED <<rcv, acks>>, snd'.buf.firstByteSeq = snd.buf.firstByteSeq
  PROVE  AckComes'
  BY DEF AckComes, LastAck

\* An acknowledgement is taken off the wire.
LEMMA AckTakenComes ==
  ASSUME AckComes, rcv' = rcv, acks \in Seq(Ack), acks # <<>>, acks' = Tail(acks),
         snd'.buf.firstByteSeq = Head(acks).number
  PROVE  AckComes'
<1>1. /\ Len(acks) \in Nat /\ Len(acks) > 0
  BY LenProperties, EmptySeq
<1>2. /\ Head(acks) = acks[1] /\ acks' \in Seq(Ack)
      /\ Len(acks') = Len(acks) - 1
      /\ \A k \in 1..Len(acks') : acks'[k] = acks[k + 1]
  BY HeadTailProperties
<1>3. LastAck = acks[Len(acks)].number
  BY DEF LastAck
<1>4. CASE acks' = <<>>
  <2>1. Len(acks') = 0
    BY <1>4, EmptySeq
  <2>2. Len(acks) = 1
    BY <1>1, <1>2, <2>1
  <2>3. LastAck' = snd'.buf.firstByteSeq
    BY <1>4 DEF LastAck
  <2> QED  BY <1>2, <1>3, <2>2, <2>3 DEF AckComes
<1>5. CASE acks' # <<>>
  <2>1. Len(acks') # 0
    BY <1>2, <1>5, EmptySeq
  <2>2. Len(acks') \in 1..Len(acks') /\ Len(acks') + 1 = Len(acks)
    BY <1>1, <1>2, <2>1
  <2>3. acks'[Len(acks')] = acks[Len(acks)]
    BY <1>2, <2>2
  <2>4. LastAck' = acks'[Len(acks')].number
    BY <1>5 DEF LastAck
  <2> QED  BY <1>3, <2>3, <2>4 DEF AckComes
<1> QED  BY <1>4, <1>5

\* A segment goes from the link to the device.
LEMMA LeaveLinkTime ==
  ASSUME SenderOK(snd), LeaveLink, NEW c \in Counts, NEW d \in Counts,
         d = [c EXCEPT ![Head(snd.out)] = @ + 1],
         TimeOK(snd, c), Settled(snd)
  PROVE  /\ TimeOK(snd', d) /\ Settled(snd')
         /\ snd'.retxEvent = snd.retxEvent /\ snd'.congState = snd.congState
         /\ snd'.recover = snd.recover /\ snd'.connected = snd.connected
<1> DEFINE o == snd.out
           t == Tail(o)
           h == Head(o)
<1>1. /\ o \in Seq(SegmentNos) /\ o # <<>> /\ snd \in Socket
  BY DEF SenderOK, SocketOK, Socket, LeaveLink
<1>2. snd' = [snd EXCEPT !.out = t]
  BY DEF LeaveLink
<1> HIDE DEF o
<1>3. Len(o) \in Nat /\ Len(o) > 0
  BY <1>1, LenProperties, EmptySeq
<1>4. /\ h = o[1] /\ t \in Seq(SegmentNos)
      /\ Len(t) = Len(o) - 1
      /\ \A k \in 1..Len(t) : t[k] = o[k + 1]
  BY <1>1, HeadTailProperties
<1>5. h \in SegmentNos
  BY <1>1, <1>3, <1>4, ElementOfSeq
<1> HIDE DEF t
<1>6. /\ snd'.out = t /\ snd'.buf = snd.buf
      /\ snd'.recover = snd.recover /\ snd'.congState = snd.congState
      /\ snd'.retxEvent = snd.retxEvent /\ snd'.rto = snd.rto
      /\ snd'.dataRetrCount = snd.dataRetrCount /\ snd'.connected = snd.connected
  BY <1>1, <1>2, <1>4 DEF Socket
<1>7. /\ d = [c EXCEPT ![h] = @ + 1]
      /\ \A i \in SegmentNos : c[i] \in Nat /\ d[i] \in Nat
  BY DEF Counts, o
<1> HIDE DEF h
<1>8. /\ d[h] = c[h] + 1
      /\ \A i \in SegmentNos : i # h => d[i] = c[i]
      /\ \A i \in SegmentNos : d[i] >= c[i]
  BY <1>5, <1>7 DEF Counts
<1>9. \A k \in 1..Len(o) : k # 1 => k - 1 \in 1..Len(t) /\ t[k - 1] = o[k]
  BY <1>3, <1>4
<1>10. ASSUME NEW i \in SegmentNos, Once(i, o, c) PROVE Once(i, t, d)
  <2>1. CASE c[i] >= 1
    BY <1>7, <1>8, <2>1 DEF Once
  <2>2. ASSUME NEW k \in 1..Len(o), o[k] = i PROVE Once(i, t, d)
    <3>1. CASE k = 1
      <4>1. d[i] >= 1
        BY <1>4, <1>5, <1>7, <1>8, <2>2, <3>1
      <4> QED  BY <4>1 DEF Once
    <3>2. CASE k # 1
      BY <1>9, <2>2, <3>2 DEF Once
    <3> QED  BY <3>1, <3>2
  <2> QED  BY <1>10, <2>1, <2>2 DEF Once
<1>11. ASSUME NEW i \in SegmentNos, Twice(i, o, c) PROVE Twice(i, t, d)
  <2>1. CASE c[i] >= 2
    BY <1>7, <1>8, <2>1 DEF Twice
  <2>2. ASSUME NEW k \in 1..Len(o), o[k] = i, c[i] >= 1 PROVE Twice(i, t, d)
    <3>1. CASE k = 1
      <4>1. d[i] >= 2
        BY <1>4, <1>5, <1>7, <1>8, <2>2, <3>1
      <4> QED  BY <4>1 DEF Twice
    <3>2. CASE k # 1
      <4>1. d[i] >= 1 /\ k - 1 \in 1..Len(t) /\ t[k - 1] = i
        BY <1>7, <1>8, <1>9, <2>2, <3>2
      <4> QED  BY <4>1 DEF Twice
    <3> QED  BY <3>1, <3>2
  <2>3. ASSUME NEW k \in 1..Len(o), o[k] = i, NEW j \in 1..k - 1, o[j] = i
        PROVE  Twice(i, t, d)
    <3>1. /\ j \in 1..Len(o) /\ k # 1 /\ j < k /\ k \in Int /\ j \in Int
          /\ k - 1 \in 1..Len(t) /\ t[k - 1] = i
      BY <1>3, <1>9, <2>3
    <3>2. CASE j = 1
      <4>1. d[i] >= 1
        BY <1>4, <1>5, <1>7, <1>8, <2>3, <3>2
      <4> QED  BY <3>1, <4>1 DEF Twice
    <3>3. CASE j # 1
      <4>1. t[j - 1] = i /\ j - 1 \in 1..(k - 1) - 1
        BY <1>9, <2>3, <3>1, <3>3
      <4> QED  BY <3>1, <4>1 DEF Twice
    <3> QED  BY <3>2, <3>3
  <2> QED  BY <1>11, <2>1, <2>2, <2>3 DEF Twice
<1>12. CopiesOK(snd', d)
  <2>1. snd.buf.retrans \subseteq SegmentNos
    BY ScoreboardBounds DEF SenderOK, SocketOK, Scoreboard, Consistent, TxBuffer
  <2>2. CopiesOK(snd, c)
    BY DEF TimeOK
  <2> QED  BY <1>6, <1>10, <1>11, <2>1, <2>2 DEF CopiesOK, o
<1>13. LossOK(snd') /\ RtoOK(snd') /\ Settled(snd')
  BY <1>6 DEF TimeOK, LossOK, RtoOK, Settled
<1> QED  BY <1>6, <1>12, <1>13 DEF TimeOK

-------------------------------------------------------------------------------
\* The steps of the device keep time.

\* What is handed over and dropped comes for the first time, and no drop that
\* is awaited grows older.
LEMMA HandOverKeepsTimes ==
  ASSUME LoopInv, D!TakesTurns, D!DiscHasRoom, InTime, Timeout >= 1,
         D!Next, PennyListens
  PROVE  /\ D!TakesTurns'
         /\ \A p \in asked' : p.copy = 1
         /\ F!NothingExpired(flow')
         /\ \A id \in Awaited' :
              \/ flow'.pendingDrops[id] = 0
              \/ id \in Awaited /\ flow'.pendingDrops[id] = flow.pendingDrops[id]
<1>1. /\ D!InTurn(disc', copies', D!HandedOver')
      /\ \A p : D!HandsOver(p) => D!Follows(p, D!HandedOver)
  BY D!StepInTurn, DeviceConstants DEF LoopInv, D!TakesTurns, D!DiscHasRoom
<1>2. D!StepOfDevice
  BY D!StepHandsOver, DeviceConstants DEF LoopInv
<1>3. AtDevice = D!InDevice /\ AtDevice' = D!InDevice'
  BY DEF AtDevice, D!InDevice, ToSet, D!ToSet
<1>4. /\ F!IInv /\ F!FlowInv(flow) /\ F!NothingExpired(flow)
      /\ F!AllYoung(flow) /\ \A p \in asked : p.copy = 1
  <2>1. F!IInv /\ F!FlowInv(flow) /\ F!NothingExpired(flow)
    BY DEF LoopInv, BooksInv, F!IInv, InTime, DropsInTime
  <2>2. ASSUME NEW id \in F!Pending(flow) PROVE flow.pendingDrops[id] <= Timeout
    <3>1. flow.pendingDrops[id] <= 1
      BY DEF InTime, DropsInTime, Awaited, F!Pending
    <3>2. flow.pendingDrops[id] \in Int /\ Timeout \in Int
      BY <2>1, FlowConstants DEF F!FlowInv, F!FlowTypeOK, F!FlowAssumption, F!AgeCap
    <3> QED  BY <3>1, <3>2
  <2> QED  BY <2>1, <2>2 DEF F!AllYoung, InTime, RestArrives
<1> DEFINE Good == /\ \A p \in asked' : p.copy = 1
                   /\ F!NothingExpired(flow')
                   /\ \A id \in Awaited' :
                        \/ flow'.pendingDrops[id] = 0
                        \/ /\ id \in Awaited
                           /\ flow'.pendingDrops[id] = flow.pendingDrops[id]
<1>5. CASE D!HandsOverNone
  <2>1. AtDevice' \ AtDevice = {}
    BY <1>3, <1>5 DEF D!HandsOverNone
  <2>2. flow' = flow /\ asked' = asked
    BY <1>5, <2>1 DEF PennyListens, D!HandsOverNone
  <2>3. Good
    BY <1>4, <2>2 DEF Awaited
  <2> QED  BY <1>1, <2>3 DEF D!TakesTurns
<1>6. ASSUME NEW p \in D!Packets, D!HandsOver(p) PROVE Good
  <2> DEFINE d == PacketOf(p.uid)
  <2>1. AtDevice' \ AtDevice = {p} /\ p.uid \in SegmentNos
    BY <1>3, <1>6 DEF D!HandsOver, D!Packets
  <2>2. d \in F!DataPackets
    BY <2>1, SegmentPackets
  <2>3. CASE asked' = asked /\ Penny!Forward(d)
    <3>1. F!Forward(d)
      BY <2>3, SameSteps
    <3> HIDE DEF d
    <3>2. F!KeepsTimes(flow, flow') /\ F!NothingExpired(flow')
      BY <1>4, <2>2, <3>1, F!ForwardKeepsTimes, FlowConstants
    <3> QED  BY <1>4, <2>3, <3>2 DEF F!KeepsTimes, F!Pending, Awaited
  <2>4. CASE asked' = asked \cup {p} /\ Penny!Drop(d)
    <3>1. F!Drop(d)
      BY <2>4, SameSteps
    <3>2. Range1(p.uid) \notin Tree
      BY <1>4, <2>1, <2>4, DropOf
    <3> HIDE DEF d
    <3>3. /\ F!NothingExpired(flow')
          /\ \A id \in F!Pending(flow') :
               \/ id = F!PacketId(d) /\ flow'.pendingDrops[id] = 0
               \/ /\ id \in F!Pending(flow)
                  /\ flow'.pendingDrops[id] = flow.pendingDrops[id]
      BY <1>4, <2>2, <3>1, F!DropKeepsTimes, FlowConstants
    <3>4. ~(p.copy > 1)
      <4> SUFFICES ASSUME p.copy > 1 PROVE FALSE
        OBVIOUS
      <4>1. D!FirstCopy(p) \in D!HandedOver
        BY <1>1, <1>6 DEF D!Follows
      <4>2. D!FirstCopy(p).uid = p.uid
        BY DEF D!FirstCopy
      <4>3. Range1(D!FirstCopy(p).uid) \in Tree
        BY <4>1 DEF LoopInv, BooksInv
      <4> QED  BY <3>2, <4>2, <4>3
    <3>5. p.copy = 1
      <4>1. p.copy \in 1..MaxCopies /\ MaxCopies \in Nat
        BY DeviceConstants DEF D!Packets, D!DeviceAssumption
      <4> QED  BY <3>4, <4>1
    <3> QED  BY <1>4, <2>4, <3>3, <3>5 DEF F!Pending, Awaited
  <2> QED  BY <2>1, <2>3, <2>4 DEF PennyListens
<1> QED  BY <1>1, <1>2, <1>5, <1>6 DEF D!StepOfDevice, D!TakesTurns

\* What is transmitted is received.
LEMMA TransmittedComes ==
  ASSUME LoopInv, AckComes, UidsOf(sent) \subseteq rcv.received,
         snd'.buf.firstByteSeq = snd.buf.firstByteSeq,
         sent' = sent \/ \E q \in D!Packets : sent' = sent \cup {q},
         Transmitted, losses = 0, losses' = 0
  PROVE  AckComes' /\ UidsOf(sent') \subseteq rcv'.received
<1>1. acks \in Seq(Ack) /\ rcv \in Receiver
  BY DEF LoopInv, SentInv, WireOK
<1>2. CASE sent' \ sent = {} /\ UNCHANGED <<rcv, acks, losses>>
  <2>1. UidsOf(sent') \subseteq rcv.received
    BY <1>2 DEF UidsOf
  <2> QED  BY <1>2, <2>1, AckStillComes
<1>3. ASSUME NEW p \in sent' \ sent, ReceivedData(p.uid)
      PROVE  AckComes' /\ UidsOf(sent') \subseteq rcv'.received
  <2>1. sent' = sent \cup {p} /\ p \in D!Packets
    BY <1>3
  <2>2. p.uid \in SegmentNos
    BY <2>1 DEF D!Packets
  <2>3. AckComes' /\ rcv'.received = rcv.received \cup {p.uid}
    BY <1>1, <1>3, <2>2, ReceivedDataComes
  <2> QED  BY <2>1, <2>3 DEF UidsOf
<1>4. ~LoseOne
  BY DEF LoseOne
<1> QED  BY <1>2, <1>3, <1>4 DEF Transmitted

\* A step of the device, at most the link of the sender changing with it.
LEMMA DeviceStepKeepsTime ==
  ASSUME LoopInv, D!TakesTurns, D!DiscHasRoom, InTime, Timeout >= 1,
         losses = 0, losses' = 0,
         D!Next, PennyListens, Transmitted,
         TimeOK(snd', copies'), Settled(snd'),
         snd.retxEvent # 0, snd'.retxEvent # 0, snd'.connected,
         snd'.congState = snd.congState, snd'.recover = snd.recover,
         snd'.buf.firstByteSeq = snd.buf.firstByteSeq
  PROVE  InTime' /\ D!TakesTurns'
<1>1. /\ D!TakesTurns'
      /\ \A p \in asked' : p.copy = 1
      /\ F!NothingExpired(flow')
      /\ \A id \in Awaited' :
           \/ flow'.pendingDrops[id] = 0
           \/ id \in Awaited /\ flow'.pendingDrops[id] = flow.pendingDrops[id]
  BY HandOverKeepsTimes
<1>2. sent' = sent \/ \E q \in D!Packets : sent' = sent \cup {q}
  BY DeviceStepKeepsBooks DEF LoopInv
<1>3. AckComes' /\ UidsOf(sent') \subseteq rcv'.received
  BY <1>2, TransmittedComes DEF InTime, RestArrives
<1>4. SenderInTime'
  BY DEF SenderInTime
<1>5. DropsInTime'
  BY <1>1 DEF InTime, DropsInTime
<1> QED  BY <1>1, <1>3, <1>4, <1>5 DEF InTime, RestArrives

\* A segment arrives at the device.
LEMMA ArriveKeepsTime ==
  ASSUME LoopInv, D!TakesTurns, D!DiscHasRoom, InTime, Timeout >= 1,
         losses = 0, losses' = 0, Arrive
  PROVE  InTime' /\ D!TakesTurns'
<1> DEFINE u == Head(snd.out)
<1>1. /\ SenderOK(snd) /\ LeaveLink /\ snd.out # <<>>
      /\ snd'.buf = snd.buf /\ u \in SegmentNos
  BY LeaveLinkKeeps DEF Arrive, LeaveLink, LoopInv, SentInv
<1>2. D!Arrive(u)
  BY SameDevice DEF Arrive
<1>3. D!Next
  BY <1>1, <1>2 DEF D!Next
<1>4. /\ TimeOK(snd, copies) /\ Settled(snd) /\ snd.connected
      /\ snd.retxEvent # 0
  BY <1>1 DEF InTime, SenderInTime, Quiet
<1>5. copies \in Counts /\ copies' \in Counts /\ copies' = [copies EXCEPT ![u] = @ + 1]
  <2> HIDE DEF u
  <2>1. copies' = [copies EXCEPT ![u] = @ + 1]
    BY <1>2 DEF D!Arrive
  <2>2. copies \in [SegmentNos -> 0..MaxCopies] /\ MaxCopies \in Nat
    BY DeviceConstants DEF LoopInv, D!IInv, D!TypeOK, D!DeviceAssumption
  <2>3. copies \in [SegmentNos -> Nat]
    BY <2>2
  <2>4. \A w \in SegmentNos : copies[w] \in Nat /\ copies[w] + 1 \in Nat
    BY <2>3
  <2>5. copies' \in [SegmentNos -> Nat]
    BY <2>1, <2>3, <2>4
  <2> QED  BY <2>1, <2>3, <2>5 DEF Counts
<1>6. /\ TimeOK(snd', copies') /\ Settled(snd')
      /\ snd'.retxEvent = snd.retxEvent /\ snd'.congState = snd.congState
      /\ snd'.recover = snd.recover /\ snd'.connected = snd.connected
  BY <1>1, <1>4, <1>5, LeaveLinkTime
<1> QED  BY <1>1, <1>3, <1>4, <1>6, DeviceStepKeepsTime DEF Arrive

\* The other events of the device.
LEMMA DeviceKeepsTime ==
  ASSUME LoopInv, D!TakesTurns, D!DiscHasRoom, InTime, Timeout >= 1,
         losses = 0, losses' = 0, WakeUp \/ TransmitComplete
  PROVE  InTime' /\ D!TakesTurns'
<1>1. D!Next /\ PennyListens /\ Transmitted /\ snd' = snd
  BY SameDevice DEF D!Next, WakeUp, TransmitComplete
<1>2. copies' = copies
  BY SameDevice DEF WakeUp, TransmitComplete, D!WakeUp, D!TransmitComplete
<1>3. wakeUps # 0 \/ currentPkt # NoPacket
  <2>1. CASE WakeUp
    <3>1. wakeUps \in Nat /\ wakeUps > 0
      BY <2>1, SameDevice DEF WakeUp, D!WakeUp, LoopInv, D!IInv, D!TypeOK
    <3> QED  BY <3>1
  <2>2. CASE TransmitComplete
    BY <2>2, SameDevice DEF TransmitComplete, D!TransmitComplete
  <2> QED  BY <2>1, <2>2
<1>4. /\ TimeOK(snd, copies) /\ Settled(snd) /\ snd.connected
      /\ snd.retxEvent # 0
  BY <1>3 DEF InTime, SenderInTime, Quiet
<1>5. /\ TimeOK(snd', copies') /\ Settled(snd') /\ snd'.connected
      /\ snd'.retxEvent # 0 /\ snd'.congState = snd.congState
      /\ snd'.recover = snd.recover
      /\ snd'.buf.firstByteSeq = snd.buf.firstByteSeq
  BY <1>1, <1>2, <1>4
<1> QED  BY <1>1, <1>4, <1>5, DeviceStepKeepsTime

-------------------------------------------------------------------------------
\* The steps of the others keep time.

\* What is awaited is a segment that the receiver does not have.
LEMMA AwaitedIsMissing ==
  ASSUME LoopInv, NEW id \in Awaited
  PROVE  id = Id(id[1]) /\ id[1] \in SegmentNos /\ id[1] \notin rcv.received
<1>1. id = Id(id[1]) /\ id[1] \in SegmentNos
  BY IdsAreSegments DEF Penny!SeqOf
<1>2. ASSUME id[1] \in rcv.received PROVE FALSE
  <2>1. PICK q \in D!HandedOver \ asked : q.uid = id[1]
    BY <1>2, ReceivedWasLetThrough
  <2> QED  BY <1>1, <2>1 DEF LoopInv, BooksInv
<1> QED  BY <1>1, <1>2

\* It has been sent.
LEMMA AwaitedWasSent ==
  ASSUME LoopInv, NEW id \in Awaited
  PROVE  id[1] < snd.buf.nextByteSeq
<1>1. id \in Entered
  BY DEF LoopInv, BooksInv, F!IInv, F!FlowInv, F!MapsOfFlowAgree, F!Pending,
         Awaited, Entered
<1>2. PICK p \in asked : id = Id(p.uid)
  BY <1>1 DEF LoopInv, BooksInv
<1>3. p \in D!Packets /\ p.copy <= copies[p.uid]
  BY DEF LoopInv, D!IInv, D!DeviceInv, D!MarksOK, D!Arrived
<1>4. p.uid \in SegmentNos /\ p.copy \in Nat /\ p.copy >= 1
  BY <1>3, DeviceConstants DEF D!Packets, D!DeviceAssumption
<1>5. copies[p.uid] \in Nat
  BY <1>4, DeviceConstants DEF LoopInv, D!IInv, D!TypeOK, D!DeviceAssumption
<1>6. copies[p.uid] > 0
  BY <1>3, <1>4, <1>5
<1>7. id[1] = p.uid
  BY <1>2 DEF Id
<1> QED  BY <1>4, <1>6, <1>7 DEF LoopInv, SentInv

\* In a step that does not concern the device.
LEMMA DeviceRestsInTime ==
  ASSUME RestArrives, UNCHANGED devVars, rcv'.received = rcv.received
  PROVE  /\ RestArrives' /\ copies' = copies
         /\ D!TakesTurns => D!TakesTurns'
<1>1. /\ disc' = disc /\ queue' = queue /\ copies' = copies
      /\ asked' = asked /\ sent' = sent /\ dropped' = dropped
  BY DEF devVars
<1>2. D!HandedOver' = D!HandedOver
  BY <1>1 DEF D!HandedOver
<1>3. ASSUME D!InTurn(disc, copies, D!HandedOver)
      PROVE  D!InTurn(disc', copies', D!HandedOver')
  BY <1>1, <1>2, <1>3, Zenon
<1> QED  BY <1>1, <1>3 DEF RestArrives, UidsOf, D!TakesTurns

\* The types of the state.
LEMMA TypesInTime ==
  ASSUME LoopInv
  PROVE  /\ copies \in Counts
         /\ acks \in Seq(Ack) /\ rcv \in Receiver /\ rcv.received \in SUBSET SegmentNos
         /\ SenderOK(snd) /\ snd \in Socket /\ Scoreboard(snd.buf)
<1>1. copies \in [SegmentNos -> 0..MaxCopies] /\ MaxCopies \in Nat
  BY DeviceConstants DEF LoopInv, D!IInv, D!TypeOK, D!DeviceAssumption
<1>2. copies \in Counts
  BY <1>1 DEF Counts
<1> QED  BY <1>2 DEF LoopInv, SentInv, WireOK, SenderOK, SocketOK

\* The receiver's timer expires.
LEMMA DelAckTimeoutKeepsTime ==
  ASSUME LoopInv, InTime, DelAckTimeout
  PROVE  InTime' /\ (D!TakesTurns => D!TakesTurns')
<1>1. /\ snd' = snd /\ flow' = flow /\ UNCHANGED devVars
      /\ rcv.delAckCount = 1 /\ SendAck(rcv.received)
  BY DEF DelAckTimeout
<1>2. AckComes' /\ rcv'.received = rcv.received
  BY <1>1, TypesInTime, SendAckComes
<1>3. RestArrives' /\ copies' = copies /\ (D!TakesTurns => D!TakesTurns')
  BY <1>1, <1>2, DeviceRestsInTime DEF InTime
<1>4. snd.retxEvent # 0
  BY <1>1 DEF InTime, SenderInTime, Quiet
<1>5. SenderInTime'
  BY <1>1, <1>3, <1>4 DEF InTime, SenderInTime
<1>6. DropsInTime'
  BY <1>1 DEF InTime, DropsInTime, Awaited
<1> QED  BY <1>2, <1>3, <1>5, <1>6 DEF InTime

\* An acknowledgement comes.
LEMMA GetAckKeepsTime ==
  ASSUME LoopInv, InTime, GetAck
  PROVE  InTime' /\ (D!TakesTurns => D!TakesTurns')
<1> DEFINE a == Head(acks)
<1>1. /\ acks # <<>> /\ acks' = Tail(acks)
      /\ UNCHANGED <<rcv, flow, devVars>>
  BY DEF GetAck, ReceiveAck
<1>2. /\ TimeOK(snd, copies) /\ Settled(snd) /\ snd.connected
      /\ snd.retxEvent # 0
  BY <1>1 DEF InTime, SenderInTime, Quiet
<1>3. RestArrives' /\ copies' = copies /\ (D!TakesTurns => D!TakesTurns')
  BY <1>1, DeviceRestsInTime DEF InTime
<1>4. /\ AckOK(a, rcv.received, snd.buf)
      /\ a.number \in 1..Segments + 1 /\ a.sacked \in SUBSET SegmentNos
  <2> DEFINE t == snd.buf
             r == rcv.received
  <2>1. WireOK(acks, r, t) /\ Scoreboard(t)
    BY TypesInTime DEF LoopInv
  <2> HIDE DEF t, r
  <2>2. t.nextByteSeq >= t.nextByteSeq
    BY <2>1, ScoreboardBounds
  <2>3. a = acks[1] /\ 1 \in 1..Len(acks)
    BY <1>1, <2>1, <2>2, WireLeaves
  <2>4. /\ AckOK(a, r, t)
        /\ a.number \in 1..Segments + 1 /\ a.sacked \in SUBSET SegmentNos
    BY <2>1, <2>3, AckTypes DEF WireOK
  <2> QED  BY <2>4 DEF t, r
<1>5. PICK window \in 1..Window :
        snd' = ReceivedAck(snd, a.number, a.sacked, window)
  BY <1>2 DEF GetAck
<1> DEFINE n == a.number
           blocks == a.sacked
           v == ReceivedAck(snd, n, blocks, window)
<1>6. /\ snd.buf.firstByteSeq <= n /\ n <= snd.buf.nextByteSeq
      /\ n \notin snd.buf.sacked
      /\ \A i \in blocks : i > n
      /\ 1..n - 1 \subseteq rcv.received
      /\ n \in 1..Segments + 1 /\ blocks \in SUBSET SegmentNos
      /\ snd' = v
  BY <1>4, <1>5 DEF AckOK
<1> HIDE DEF n, blocks
<1>7. window \in Nat \ {0} /\ window \in Nat
  BY ClosedLoopAssumption
<1>8. SenderOK(snd) /\ copies \in Counts
  BY TypesInTime
<1>9. /\ SenderOK(v)
      /\ v.buf.firstByteSeq = n
      /\ v.buf.nextByteSeq >= snd.buf.nextByteSeq
      /\ v.buf.sacked \subseteq snd.buf.sacked \cup blocks
      /\ v.connected = snd.connected
      /\ TimerOK(snd) => TimerOK(v)
  BY <1>6, <1>7, <1>8, ReceivedAckOK
<1>10. /\ TimeOK(v, copies) /\ v.retxEvent # 0 /\ Settled(v)
       /\ v.congState = "LOSS" => snd.congState = "LOSS" /\ v.recover = snd.recover
       /\ snd.congState = "LOSS" /\ n < snd.recover => v.congState = "LOSS"
  BY <1>2, <1>6, <1>7, <1>8, ReceivedAckTime
<1> HIDE DEF v
<1>11. SenderInTime'
  BY <1>2, <1>3, <1>6, <1>9, <1>10 DEF SenderInTime
<1>12. AckComes'
  <2>1. snd'.buf.firstByteSeq = Head(acks).number
    BY <1>6, <1>9 DEF n
  <2> QED  BY <1>1, <2>1, TypesInTime, AckTakenComes DEF InTime
<1>13. DropsInTime'
  <2>1. Awaited' = Awaited /\ flow' = flow
    BY <1>1 DEF Awaited
  <2>2. ASSUME NEW id \in Awaited, flow.pendingDrops[id] = 1
        PROVE  snd'.congState = "LOSS" /\ id[1] < snd'.recover
    <3>1. snd.congState = "LOSS" /\ id[1] < snd.recover
      BY <1>2, <2>2 DEF InTime, DropsInTime
    <3>2. id[1] \in SegmentNos /\ id[1] \notin rcv.received
      BY AwaitedIsMissing
    <3>3. ~(id[1] < n)
      <4>1. id[1] \notin 1..n - 1
        BY <1>6, <3>2
      <4>2. id[1] \in 1..Segments /\ n \in 1..Segments + 1 /\ Segments \in Nat
        BY <1>6, <3>2, BufferAssumption DEF SegmentNos
      <4> QED  BY <4>1, <4>2
    <3>4. snd.recover \in Int /\ id[1] \in Int /\ n \in Int
      <4>1. snd.recover \in 0..Segments + 1 /\ Segments \in Nat
        BY TypesInTime, BufferAssumption DEF Socket
      <4> QED  BY <1>6, <3>2, <4>1, BufferAssumption DEF SegmentNos
    <3>5. n < snd.recover
      BY <3>1, <3>3, <3>4
    <3> QED  BY <1>6, <1>10, <3>1, <3>5
  <2> QED  BY <2>1, <2>2 DEF InTime, DropsInTime
<1> QED  BY <1>3, <1>11, <1>12, <1>13 DEF InTime

\* The retransmission timer expires.
LEMMA RetxTimeoutKeepsTime ==
  ASSUME LoopInv, TimerOK(snd), InTime, DataRetries >= 1, RetxTimeout
  PROVE  InTime' /\ (D!TakesTurns => D!TakesTurns')
<1> DEFINE v == ReTxTimeout(snd)
<1>1. /\ snd.retxEvent = 0 /\ snd' = v
      /\ UNCHANGED <<rcv, acks, flow, devVars>>
  BY DEF RetxTimeout
<1>2. /\ TimeOK(snd, copies) /\ Settled(snd) /\ snd.connected
      /\ Quiet /\ snd.congState # "LOSS"
  BY <1>1 DEF InTime, SenderInTime
<1>3. RestArrives' /\ copies' = copies /\ (D!TakesTurns => D!TakesTurns')
  BY <1>1, DeviceRestsInTime DEF InTime
<1>4. SenderOK(snd) /\ copies \in Counts
  BY TypesInTime
<1>5. snd.dataRetrCount # 0
  <2>1. snd.dataRetrCount = DataRetries
    BY <1>2 DEF TimeOK, RtoOK
  <2>2. DataRetries # 0
    BY SenderAssumption
  <2> QED  BY <2>1, <2>2
<1>6. snd.buf.firstByteSeq < snd.buf.nextByteSeq
  BY <1>1, <1>2 DEF TimerOK, Settled, Off
<1>7. CopiesOK(snd, copies)
  BY <1>2 DEF TimeOK
<1>8. v.buf.firstByteSeq = snd.buf.firstByteSeq
  BY <1>4, ReTxTimeoutOK
<1>9. /\ TimeOK(v, copies) /\ v.retxEvent # 0 /\ Settled(v)
      /\ v.congState = "LOSS" /\ v.recover = snd.buf.nextByteSeq
      /\ v.connected = snd.connected
  BY <1>4, <1>5, <1>6, <1>7, ReTxTimeoutTime
<1> HIDE DEF v
<1>10. SenderInTime'
  BY <1>1, <1>2, <1>3, <1>9 DEF SenderInTime
<1>11. AckComes'
  BY <1>1, <1>8, AckStillComes DEF InTime
<1>12. DropsInTime'
  <2>1. Awaited' = Awaited /\ flow' = flow
    BY <1>1 DEF Awaited
  <2>2. ASSUME NEW id \in Awaited
        PROVE  snd'.congState = "LOSS" /\ id[1] < snd'.recover
    BY <1>1, <1>9, AwaitedWasSent
  <2> QED  BY <2>1, <2>2 DEF InTime, DropsInTime
<1> QED  BY <1>3, <1>10, <1>11, <1>12 DEF InTime

\* When all is quiet, what is sent has arrived, and the sender knows.
LEMMA QuietIsKnown ==
  ASSUME LoopInv, InTime, Quiet
  PROVE  /\ snd.buf.firstByteSeq \notin rcv.received
         /\ 1..snd.buf.firstByteSeq - 1 \subseteq rcv.received
         /\ D!HandedOver = sent \cup dropped
<1>1. acks = <<>> /\ rcv.delAckCount # 1 /\ currentPkt = NoPacket
  BY DEF Quiet
<1>2. snd.buf.firstByteSeq = NextRxSequence(rcv.received)
  BY <1>1 DEF InTime, AckComes, LastAck
<1>3. /\ NextRxSequence(rcv.received) \notin rcv.received
      /\ 1..NextRxSequence(rcv.received) - 1 \subseteq rcv.received
  BY TypesInTime, NextRxIsMissing
<1>4. queue = <<>>
  BY <1>1 DEF LoopInv, D!IInv, D!DeviceInv, D!QueueOK
<1>5. D!ToSet(queue) = {}
  BY <1>4 DEF D!ToSet
<1> QED  BY <1>2, <1>3, <1>5 DEF D!HandedOver

\* A retransmission of the head would have arrived, too: the sender is not
\* recovering from a time-out when all is quiet.
LEMMA QuietHasRecovered ==
  ASSUME LoopInv, D!TakesTurns, InTime, Quiet
  PROVE  snd.congState # "LOSS"
<1> SUFFICES ASSUME snd.congState = "LOSS" PROVE FALSE
  OBVIOUS
<1> DEFINE head == snd.buf.firstByteSeq
           p == [uid |-> head, copy |-> 2]
<1>1. head \in snd.buf.retrans
  BY DEF InTime, SenderInTime, Settled
<1>2. head \in SegmentNos
  <2>1. snd.buf.retrans \subseteq SegmentNos
    BY TypesInTime DEF Socket, TxBuffer
  <2> QED  BY <1>1, <2>1
<1>3. Twice(head, <<>>, copies)
  BY <1>1 DEF InTime, SenderInTime, TimeOK, CopiesOK, Quiet
<1>4. head \notin rcv.received /\ D!HandedOver = sent \cup dropped
  BY QuietIsKnown
<1> HIDE DEF head
<1>5. copies[head] >= 2
  <2>1. Len(<<>>) = 0 /\ 1..0 = {}
    OBVIOUS
  <2> QED  BY <1>3, <2>1 DEF Twice
<1>6. copies[head] \in Nat
  BY <1>2, TypesInTime DEF Counts
<1>7. 2 \in 1..copies[head]
  BY <1>5, <1>6
<1>8. p \in D!HandedOver
  <2>1. Len(disc) = 0
    BY DEF Quiet
  <2>2. 1..Len(disc) = {}
    BY <2>1
  <2> QED  BY <1>2, <1>7, <2>2 DEF D!TakesTurns, D!InTurn
<1>9. p \notin sent
  <2>1. p.uid = head
    OBVIOUS
  <2> QED  BY <1>4, <2>1 DEF InTime, RestArrives, UidsOf
<1>10. p \notin dropped
  <2>1. dropped \subseteq asked
    BY DEF LoopInv, D!IInv, D!DeviceInv, D!DropsWhatWasAsked, D!HandOverInv
  <2>2. p.copy = 2
    OBVIOUS
  <2> QED  BY <2>1, <2>2 DEF InTime, RestArrives
<1> QED  BY <1>4, <1>8, <1>9, <1>10

\* A second passes: the timer, if it runs, expires.
LEMMA TickKeepsTime ==
  ASSUME LoopInv, TimerOK(snd), D!TakesTurns, InTime, Tick
  PROVE  InTime' /\ D!TakesTurns'
<1> DEFINE e == IF snd.retxEvent = Off THEN Off ELSE snd.retxEvent - 1
<1>1. /\ Quiet /\ snd.retxEvent # 0 /\ snd' = [snd EXCEPT !.retxEvent = e]
      /\ UNCHANGED <<rcv, acks, devVars>>
  BY DEF Tick
<1>2. /\ TimeOK(snd, copies) /\ Settled(snd) /\ snd.connected
      /\ snd.congState # "LOSS"
  BY <1>1, QuietHasRecovered DEF InTime, SenderInTime
<1>3. RestArrives' /\ copies' = copies /\ D!TakesTurns'
  BY <1>1, DeviceRestsInTime DEF InTime
<1>4. snd \in Socket /\ snd.retxEvent \in Off..MaxRto
  BY TypesInTime DEF Socket
<1>5. snd.retxEvent = Off \/ snd.retxEvent = 1
  <2>1. snd.retxEvent <= MinRto
    BY <1>2 DEF TimeOK, RtoOK
  <2> DEFINE r == snd.retxEvent
  <2>2. r \in Off..MaxRto /\ r # 0 /\ r <= MinRto
    BY <1>1, <1>4, <2>1
  <2> HIDE DEF r
  <2>3. r = Off \/ r = 1
    BY <2>2 DEF Off, MinRto, MaxRto
  <2> QED  BY <2>3 DEF r
<1>6. /\ snd.retxEvent = Off => e = Off
      /\ snd.retxEvent = 1 => e = 0
      /\ e # Off => e = 0
  BY <1>5 DEF Off
<1> HIDE DEF e
<1>7. /\ snd'.retxEvent = e /\ snd'.buf = snd.buf /\ snd'.out = snd.out
      /\ snd'.recover = snd.recover /\ snd'.congState = snd.congState
      /\ snd'.rto = snd.rto /\ snd'.dataRetrCount = snd.dataRetrCount
      /\ snd'.connected = snd.connected
  BY <1>1, <1>4 DEF Socket
<1>8. e <= MinRto /\ (e = 0 \/ e = Off)
  BY <1>5, <1>6 DEF Off, MinRto
<1>9. TimeOK(snd', copies)
  BY <1>2, <1>7, <1>8 DEF TimeOK, LossOK, RtoOK, CopiesOK
<1>10. Settled(snd')
  <2>1. e = Off => snd.retxEvent = Off
    BY <1>5, <1>6 DEF Off
  <2> QED  BY <1>2, <1>7, <2>1 DEF Settled
<1>11. Quiet'
  BY <1>1, <1>7 DEF Quiet, devVars
<1>12. SenderInTime'
  BY <1>2, <1>3, <1>7, <1>9, <1>10, <1>11 DEF SenderInTime
<1>13. AckComes'
  BY <1>1, <1>7, AckStillComes DEF InTime
<1>14. ASSUME NEW id \in Awaited PROVE e = 0
  <2>1. id[1] \in SegmentNos /\ id[1] \notin rcv.received
    BY AwaitedIsMissing
  <2>2. 1..snd.buf.firstByteSeq - 1 \subseteq rcv.received
    BY <1>1, QuietIsKnown
  <2>3. snd.buf.firstByteSeq \in 1..Segments + 1 /\ Segments \in Nat
    BY TypesInTime, ScoreboardBounds, BufferAssumption
  <2>4. ~(snd.buf.firstByteSeq > Segments)
    <3> SUFFICES ASSUME snd.buf.firstByteSeq > Segments PROVE FALSE
      OBVIOUS
    <3>1. id[1] \in 1..snd.buf.firstByteSeq - 1
      BY <2>1, <2>3 DEF SegmentNos
    <3> QED  BY <2>1, <2>2, <3>1
  <2>5. snd.retxEvent # Off
    BY <1>2, <2>4 DEF Settled, IsEmpty
  <2> QED  BY <1>5, <1>6, <2>5
<1>15. /\ F!IInv /\ F!Tick /\ F!NothingExpired(flow)
       /\ flow.pendingDrops \in [Awaited -> 0..F!AgeCap]
  BY SameSteps
     DEF Tick, LoopInv, BooksInv, F!IInv, F!FlowInv, F!FlowTypeOK, F!Pending,
         Awaited, InTime, DropsInTime
<1>16. /\ F!NothingExpired(flow')
       /\ F!Pending(flow') = F!Pending(flow)
       /\ \A id \in F!Pending(flow') :
            flow'.pendingDrops[id] <= flow.pendingDrops[id] + 1
  BY <1>15, F!TickKeepsTimes, FlowConstants
<1>17. ASSUME NEW id \in Awaited'
       PROVE  flow'.pendingDrops[id] <= 1 /\ e = 0
  <2>1. id \in Awaited /\ flow'.pendingDrops[id] <= flow.pendingDrops[id] + 1
    BY <1>16 DEF F!Pending, Awaited
  <2>2. flow.pendingDrops[id] <= 1 /\ flow.pendingDrops[id] # 1
    BY <1>1, <1>2, <2>1 DEF InTime, DropsInTime
  <2>3. flow.pendingDrops[id] \in Nat
    BY <1>15, <2>1, FlowConstants DEF F!AgeCap, F!FlowAssumption
  <2>4. flow.pendingDrops[id] = 0
    BY <2>2, <2>3
  <2> QED  BY <1>14, <2>1, <2>4
<1>18. DropsInTime'
  BY <1>7, <1>16, <1>17 DEF DropsInTime
<1> QED  BY <1>3, <1>12, <1>13, <1>18 DEF InTime

\* The loop starts in time.
LEMMA InitInTime == Init => InTime /\ D!TakesTurns
<1> SUFFICES ASSUME Init PROVE InTime /\ D!TakesTurns
  OBVIOUS
<1>1. D!Init /\ Penny!Init /\ F!Init
  BY SameDevice, SameSteps DEF Init
<1>2. /\ copies = [u \in SegmentNos |-> 0] /\ asked = {} /\ sent = {} /\ disc = <<>>
  BY <1>1 DEF D!Init
<1>3. rcv.received = {} /\ acks = <<>>
  BY DEF Init
<1>4. copies \in Counts
  BY <1>2 DEF Counts
<1>5. PICK w \in 1..Window : snd = SendPendingData(NewSocket, w)
  BY DEF Init
<1>6. w \in Nat \ {0} /\ w \in Nat
  BY ClosedLoopAssumption
<1> DEFINE u == SendPendingData(NewSocket, w)
<1>7. SenderOK(NewSocket) /\ TimeOK(NewSocket, copies) /\ Ready(NewSocket)
  BY <1>4, NewSocketOK, NewSocketTime
<1>8. SenderOK(u) /\ OnlySends(NewSocket, u)
  BY <1>6, <1>7, SendPendingDataOK
<1>9. /\ TimeOK(u, copies) /\ u.retxEvent # 0 /\ Settled(u)
      /\ u.congState = NewSocket.congState /\ u.recover = NewSocket.recover
  BY <1>4, <1>6, <1>7, SendPendingDataTime
<1>10. snd = u
  BY <1>5
<1> HIDE DEF u
<1>11. SenderInTime
  <2>1. snd.connected
    BY <1>8, <1>10 DEF OnlySends, NewSocket
  <2> QED  BY <1>9, <1>10, <2>1 DEF SenderInTime
<1>12. AckComes
  <2>1. snd.buf.firstByteSeq = 1
    BY <1>8, <1>10 DEF OnlySends, NewSocket, NewTxBuffer
  <2>2. LastAck = 1
    BY <1>3, <2>1 DEF LastAck
  <2> DEFINE n == NextRxSequence({})
  <2>3. n \in 1..Segments + 1 /\ 1..n - 1 = {}
    BY NextRxIsMissing
  <2> HIDE DEF n
  <2>4. n = 1
    <3>1. n \in Nat /\ n >= 1 /\ 1 \notin 1..n - 1
      BY <2>3, BufferAssumption
    <3> QED  BY <3>1
  <2> QED  BY <1>3, <2>2, <2>4 DEF AckComes, n
<1>13. RestArrives
  BY <1>2 DEF RestArrives, UidsOf
<1>14. DropsInTime
  <2>1. flow = F!NewFlow
    BY <1>1 DEF F!Init
  <2>2. F!NothingExpired(flow)
    BY <2>1 DEF F!NothingExpired, F!NewFlow, F!NoCounters, F!NoLists, F!NoTotals
  <2>3. Awaited = {}
    BY <2>1 DEF Awaited, F!NewFlow
  <2> QED  BY <2>2, <2>3 DEF DropsInTime
<1>15. D!TakesTurns
  <2>1. Len(disc) = 0
    BY <1>2
  <2>2. 1..Len(disc) = {}
    BY <2>1
  <2>3. \A i \in SegmentNos : 1..copies[i] = {}
    BY <1>2
  <2> QED  BY <2>2, <2>3 DEF D!TakesTurns, D!InTurn
<1> QED  BY <1>11, <1>12, <1>13, <1>14, <1>15 DEF InTime

\* Nothing happens.
LEMMA StutterKeepsTime ==
  ASSUME LoopInv, InTime, UNCHANGED vars
  PROVE  InTime' /\ (D!TakesTurns => D!TakesTurns')
<1>1. UNCHANGED <<snd, rcv, acks, flow, devVars>>
  BY DEF vars
<1>2. RestArrives' /\ copies' = copies /\ (D!TakesTurns => D!TakesTurns')
  BY <1>1, DeviceRestsInTime DEF InTime
<1>3. AckComes'
  BY <1>1, AckStillComes DEF InTime
<1>4. Quiet' = Quiet
  BY <1>1 DEF Quiet, devVars
<1>5. SenderInTime'
  BY <1>1, <1>2, <1>4 DEF InTime, SenderInTime
<1>6. DropsInTime'
  BY <1>1 DEF InTime, DropsInTime, Awaited
<1> QED  BY <1>2, <1>3, <1>5, <1>6 DEF InTime

\* Every step keeps time as long as the queue disc has room.
LEMMA NextKeepsTime ==
  ASSUME Timeout >= 1, DataRetries >= 1
  PROVE  LoopInv /\ TimerOK(snd) /\ TimeInv /\ D!DiscHasRoom /\ [Next]_vars => TimeInv'
<1> SUFFICES ASSUME LoopInv, TimerOK(snd), TimeInv, D!DiscHasRoom, [Next]_vars,
                    losses' = 0
             PROVE  InTime' /\ D!TakesTurns'
  BY DEF TimeInv
<1>1. losses = 0
  <2>1. losses \in Nat
    BY ClosedLoopAssumption DEF LoopInv
  <2>2. losses' = losses \/ losses' = losses + 1
    BY DEF Next, Arrive, Lost, WakeUp, TransmitComplete, DelAckTimeout, GetAck,
           RetxTimeout, Tick, Transmitted, LoseOne, vars
  <2> QED  BY <2>1, <2>2
<1>2. InTime /\ D!TakesTurns
  BY <1>1 DEF TimeInv
<1>3. ~Lost
  BY <1>1 DEF Lost, LoseOne
<1> QED  BY <1>1, <1>2, <1>3, ArriveKeepsTime, DeviceKeepsTime,
            DelAckTimeoutKeepsTime, GetAckKeepsTime, RetxTimeoutKeepsTime,
            TickKeepsTime, StutterKeepsTime DEF Next

\* In time, there is no case against the flow.
LEMMA InTimeIsJudgedWell ==
  ASSUME MaxDuplicates[1] <= MaxDuplicates[2]
  PROVE  LoopInv /\ TimeInv => NeverMisjudged
<1> SUFFICES ASSUME LoopInv, InTime
             PROVE  Expired = {} /\ Penny!EvaluateHypotheses(flow) # "NotClosedLoop"
  BY DEF TimeInv, NeverMisjudged
<1>1. F!NothingExpired(flow) /\ F!FlowInv(flow)
  BY DEF InTime, DropsInTime, LoopInv, BooksInv, F!IInv
<1>2. F!EvaluateHypotheses(flow) # "NotClosedLoop"
  BY <1>1, F!NoCaseAgainst, FlowConstants
<1>3. Penny!EvaluateHypotheses(flow) # "NotClosedLoop"
  BY <1>2, SameVerdict
<1> QED  BY <1>1, <1>3 DEF F!NothingExpired, Expired

(***************************************************************************)
(* Where nothing is lost, on the links or for want of room in the queue    *)
(* disc, no drop of a short closed-loop flow expires, and the flow is      *)
(* never found not to be closed-loop, whatever its window and whichever    *)
(* segments Penny drops: one time-out of the sender brings all of them.    *)
(* The sender has to retry at least once.  Of the two ticks that Penny     *)
(* has to wait one is that time-out; the other leaves room for the round   *)
(* trips before and after it, during which the clock stands still.  The    *)
(* steps below need neither this nor ShortFlow, but without them the clock *)
(* is not that of the program and the conclusion says nothing about it.    *)
(***************************************************************************)
THEOREM RetransmissionsComeInTime ==
  ASSUME ShortFlow, Timeout >= 2, DataRetries >= 1,
         MaxDuplicates[1] <= MaxDuplicates[2]
  PROVE  Spec /\ [](Len(disc) < DiscLimit) => []NeverMisjudged
<1>1. Init => TimeInv
  BY InitInTime DEF TimeInv
<1>2. (Len(disc) < DiscLimit) => D!DiscHasRoom
  BY DEF D!DiscHasRoom
<1>3. Timeout >= 1
  BY FlowConstants DEF F!FlowAssumption
<1>4. LoopInv /\ TimerOK(snd) /\ TimeInv /\ D!DiscHasRoom /\ [Next]_vars => TimeInv'
  BY <1>3, NextKeepsTime
<1> QED  BY <1>1, <1>2, <1>4, TimerInvariance, InTimeIsJudgedWell, PTL DEF Spec

\* The packets that the sender can send.
LEMMA PacketsCounted ==
  IsFiniteSet(D!Packets) /\ Cardinality(D!Packets) = Segments * MaxCopies
<1> DEFINE C == 1..MaxCopies
           S == SegmentNos
           P == D!Packets
           f == [x \in S \X C |-> [uid |-> x[1], copy |-> x[2]]]
<1>1. Segments \in Nat /\ MaxCopies \in Nat
  BY BufferAssumption, DeviceConstants DEF D!DeviceAssumption
<1>2. IsFiniteSet(S) /\ Cardinality(S) = Segments
  <2>1. /\ IsFiniteSet(1..Segments)
        /\ Cardinality(1..Segments) = IF 1 > Segments THEN 0 ELSE Segments - 1 + 1
    BY <1>1, FS_Interval
  <2> QED  BY <1>1, <2>1 DEF SegmentNos
<1>3. IsFiniteSet(C) /\ Cardinality(C) = MaxCopies
  <2>1. /\ IsFiniteSet(1..MaxCopies)
        /\ Cardinality(1..MaxCopies) = IF 1 > MaxCopies THEN 0 ELSE MaxCopies - 1 + 1
    BY <1>1, FS_Interval
  <2> QED  BY <1>1, <2>1
<1>4. P = [uid : S, copy : C]
  BY DEF D!Packets
<1> HIDE DEF C, S, P
<1>5. IsFiniteSet(S \X C) /\ Cardinality(S \X C) = Segments * MaxCopies
  BY <1>2, <1>3, FS_Product
<1>6. f \in Bijection(S \X C, P)
  <2>1. f \in [S \X C -> P]
    BY <1>4
  <2>2. \A x \in S \X C : f[x] = [uid |-> x[1], copy |-> x[2]]
    OBVIOUS
  <2> HIDE DEF f
  <2>3. ASSUME NEW x \in S \X C, NEW y \in S \X C, f[x] = f[y] PROVE x = y
    <3>1. [uid |-> x[1], copy |-> x[2]] = [uid |-> y[1], copy |-> y[2]]
      BY <2>2, <2>3
    <3>2. x[1] = y[1] /\ x[2] = y[2]
      BY <3>1
    <3> QED  BY <3>2
  <2>4. ASSUME NEW p \in P PROVE \E x \in S \X C : f[x] = p
    <3>1. PICK u \in S, c \in C : p = [uid |-> u, copy |-> c]
      BY <1>4
    <3>2. <<u, c>> \in S \X C /\ <<u, c>>[1] = u /\ <<u, c>>[2] = c
      OBVIOUS
    <3>3. f[<<u, c>>] = p
      BY <2>2, <3>1, <3>2
    <3> QED  BY <3>2, <3>3
  <2> QED  BY <2>1, <2>3, <2>4 DEF Bijection, Injection, Surjection, IsInjective
<1> HIDE DEF f
<1>7. IsFiniteSet(P) /\ Cardinality(P) = Cardinality(S \X C)
  BY <1>5, <1>6, FS_Bijection DEF ExistsBijection
<1> QED  BY <1>5, <1>7 DEF P

\* A queue disc for more than these has room.
LEMMA DiscIsLargeEnough ==
  ASSUME Segments * MaxCopies < DiscLimit
  PROVE  LoopInv => Len(disc) < DiscLimit
<1> SUFFICES ASSUME LoopInv PROVE Len(disc) < DiscLimit
  OBVIOUS
<1> DEFINE n == Len(disc)
           P == D!Packets
           f == [i \in 1..n |-> disc[i]]
<1>1. /\ disc \in Seq(P)
      /\ \A i, j \in 1..n : disc[i] = disc[j] => i = j
  BY DEF LoopInv, D!IInv, D!DiscOK
<1>2. IsFiniteSet(P) /\ Cardinality(P) = Segments * MaxCopies
  BY PacketsCounted
<1> HIDE DEF P
<1>3. n \in Nat /\ \A i \in 1..n : disc[i] \in P
  BY <1>1, LenProperties, ElementOfSeq
<1> HIDE DEF n
<1>4. f \in Injection(1..n, P)
  BY <1>1, <1>3 DEF Injection, IsInjective
<1>5. Cardinality(1..n) <= Cardinality(P)
  BY <1>2, <1>4, FS_Injection
<1>6. Cardinality(1..n) = IF 1 > n THEN 0 ELSE n - 1 + 1
  BY <1>3, FS_Interval
<1>7. n <= Segments * MaxCopies
  BY <1>2, <1>3, <1>5, <1>6
<1> DEFINE m == Segments * MaxCopies
<1>8. m \in Nat
  BY BufferAssumption, DeviceConstants DEF D!DeviceAssumption
<1>9. DiscLimit \in Nat
  BY DeviceConstants DEF D!DeviceAssumption
<1>10. n <= m /\ m < DiscLimit
  BY <1>7
<1> HIDE DEF m
<1> QED  BY <1>3, <1>8, <1>9, <1>10 DEF n

(***************************************************************************)
(* With a queue disc that has room for all that is ever sent, nothing is   *)
(* assumed of the run: a short closed-loop flow is never misjudged where   *)
(* the links lose nothing.                                                 *)
(***************************************************************************)
THEOREM NeverMisjudgedWithRoom ==
  ASSUME ShortFlow, Timeout >= 2, DataRetries >= 1,
         MaxDuplicates[1] <= MaxDuplicates[2], Segments * MaxCopies < DiscLimit
  PROVE  Spec => []NeverMisjudged
  BY RetransmissionsComeInTime, LoopInvariance, DiscIsLargeEnough, PTL
===============================================================================
