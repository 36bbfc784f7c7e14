------------------------------- MODULE Evidence -------------------------------
(***************************************************************************)
(* The decision rule watched while evidence accumulates.  The state is the *)
(* counters of one settled snapshot; each action is one way in which the   *)
(* counters of successive snapshots of a flow may differ.  The module also *)
(* holds the third copy of the rule, the one in pyscripts/plotAccuracy.py  *)
(* that re-evaluates the exported snapshots to draw the figures.           *)
(***************************************************************************)
EXTENDS Hypotheses

CONSTANTS
  ForwardBound,        \* droppable packets let through
  RetransmittedBound,  \* drops whose retransmission was seen
  NotSeenBound,        \* drops that expired
  DuplicateBound       \* duplicates

\* maxDuplicates is a share of the packets let through and
\* probabilityNotObserveRetransmission a probability (configs/penny/*.json).
ASSUME EvidenceAssumption ==
  /\ MaxDuplicates[1] <= MaxDuplicates[2]
  /\ NotObserveRetransmission[1] <= NotObserveRetransmission[2]

VARIABLE counters

vars == <<counters>>

Forwarded == counters.droppablePkts - counters.droppedPkts

Init == counters = NoCounters

\* A packet with a new payload is let through.
Forward ==
  /\ Forwarded < ForwardBound
  /\ counters' = [counters EXCEPT !.droppablePkts = @ + 1]

\* A packet is dropped and its retransmission observed in time.
DropRetransmitted ==
  /\ counters.retransmittedDroppedPkts < RetransmittedBound
  /\ counters' = [counters EXCEPT !.droppablePkts = @ + 1,
                                  !.droppedPkts = @ + 1,
                                  !.retransmittedDroppedPkts = @ + 1]

\* A packet is dropped and no retransmission observed in time.
DropNotSeen ==
  /\ counters.notSeenDroppedPkts < NotSeenBound
  /\ counters' = [counters EXCEPT !.droppablePkts = @ + 1,
                                  !.droppedPkts = @ + 1,
                                  !.notSeenDroppedPkts = @ + 1]

\* A payload that was let through is seen again.
Duplicate ==
  /\ counters.duplicatePkts < DuplicateBound
  /\ Forwarded > 0
  /\ counters' = [counters EXCEPT !.duplicatePkts = @ + 1]

Next == Forward \/ DropRetransmitted \/ DropNotSeen \/ Duplicate

Spec == Init /\ [][Next]_vars

(***************************************************************************)
(* pyscripts/plotAccuracy.py: the constants 0.15 and 0.05 are literals     *)
(* there and no minimum applies.                                           *)
(***************************************************************************)
PlotVerdict(c) ==
  LET denominator == c.droppablePkts - c.droppedPkts
      numerator   == IF c.duplicatePkts # 0 THEN c.duplicatePkts ELSE 1
      h1 == Power(denominator, c.retransmittedDroppedPkts)
      h2 == Power(20, c.notSeenDroppedPkts)
              * Power(numerator, c.retransmittedDroppedPkts)
  IN  CASE denominator <= 0 -> "NoDecision"
        [] denominator > 0 /\ numerator * 20 > 3 * denominator
             -> "DuplicatesExceeded"
        [] denominator > 0 /\ numerator * 20 <= 3 * denominator
             -> CASE h1 > 99 * h2 -> "ClosedLoop"
                  [] 99 * h1 < h2 -> "NotClosedLoop"
                  [] OTHER        -> "NoDecision"

-------------------------------------------------------------------------------
(***************************************************************************)
(* One observed retransmission more is never evidence against closed-loop  *)
(* traffic, and never enough on its own to lose a closed-loop verdict      *)
(* (evaluateAggrHypotheses, the exponent of H2).                           *)
(***************************************************************************)
RetransmissionFavoursClosedLoop ==
  [][ DropRetransmitted =>
        /\ Verdict(counters) = "ClosedLoop" => Verdict(counters') = "ClosedLoop"
        /\ Verdict(counters') = "NotClosedLoop"
             => \/ Verdict(counters) = "NotClosedLoop"
                \/ BelowMinimum(counters) ]_vars

(***************************************************************************)
(* One expired drop more never produces a closed-loop verdict that was not *)
(* there, unless it is the drop that reaches the configured minimum, and   *)
(* never takes a not-closed-loop verdict back (the exponent of H1).        *)
(***************************************************************************)
SilenceFavoursNotClosedLoop ==
  [][ DropNotSeen =>
        /\ Verdict(counters') = "ClosedLoop"
             => Verdict(counters) = "ClosedLoop" \/ BelowMinimum(counters)
        /\ Verdict(counters) = "NotClosedLoop"
             => Verdict(counters') = "NotClosedLoop" ]_vars

(***************************************************************************)
(* Duplicates, which a source that is not closed-loop may send to look     *)
(* like retransmissions, never move a verdict towards closed-loop: a       *)
(* duplicate never produces that verdict, and what it takes away from      *)
(* not-closed-loop can only go to duplicates-exceeded.                     *)
(***************************************************************************)
DuplicatesNeverHelp ==
  [][ Duplicate =>
        /\ Verdict(counters') = "ClosedLoop" => Verdict(counters) = "ClosedLoop"
        /\ Verdict(counters) = "NotClosedLoop"
             => Verdict(counters') \in {"NotClosedLoop", "DuplicatesExceeded"}
        /\ Verdict(counters) = "DuplicatesExceeded"
             => Verdict(counters') = "DuplicatesExceeded" ]_vars

(***************************************************************************)
(* No verdict about closed-loop behaviour without an observation of its    *)
(* kind, whatever the rates and thresholds make of the ratio of the two    *)
(* powers: closed-loop needs a retransmission, not-closed-loop an expired  *)
(* drop.                                                                   *)
(***************************************************************************)
VerdictNeedsWitness ==
  /\ Verdict(counters) = "ClosedLoop" => counters.retransmittedDroppedPkts > 0
  /\ Verdict(counters) = "NotClosedLoop" => counters.notSeenDroppedPkts > 0

(***************************************************************************)
(* plotAccuracy.py re-evaluates the snapshots that Penny exported; where   *)
(* Penny reached a verdict the figure shows the same one.                  *)
(***************************************************************************)
FigureAgreesWithPenny ==
  Verdict(counters) # "NoDecision" => PlotVerdict(counters) = Verdict(counters)
===============================================================================
