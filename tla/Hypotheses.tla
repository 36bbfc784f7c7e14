------------------------------ MODULE Hypotheses ------------------------------
(***************************************************************************)
(* The decision rule of Penny: given the counters of a drop snapshot, is   *)
(* the traffic closed-loop (bidirectional), not closed-loop, or unusable    *)
(* because it carries too many duplicates?  penny::evaluateAggrHypotheses   *)
(* and pennyFlow::evaluateHypotheses share this rule.                      *)
(*                                                                         *)
(* The code computes with doubles; the rule is written here over the exact *)
(* rationals the doubles stand for, by cross multiplication:               *)
(*     H1 = p^notSeen,  H2 = fDup^retransmitted,                           *)
(*     H1 / (H1 + H2) > 0.99  <=>  H1 > 99 * H2.                           *)
(***************************************************************************)
EXTENDS Powers

CONSTANTS
  MaxDuplicates,        \* <<num, den>> of pennyParameters.maxDuplicates (0.15)
  NotObserveRetransmission,
                        \* <<num, den>> of probabilityNotObserveRetransmission
  DecisionOdds,         \* the odds behind the thresholds 0.99 and 0.01: 99
  MinPacketDrops,       \* 0 switches the bound off
  MinDroppablePkts      \* 0 switches the bound off

IsRatio(r) == r \in (Nat \X (Nat \ {0}))

ASSUME HypothesesAssumption ==
  /\ IsRatio(MaxDuplicates)
  /\ IsRatio(NotObserveRetransmission)
  /\ DecisionOdds \in Nat \ {0}
  /\ MinPacketDrops \in Nat
  /\ MinDroppablePkts \in Nat

(***************************************************************************)
(* pennyCounters, less the packet totals that no decision reads            *)
(* (totalPkts, dataPkts, pureAckPkts, inOrderPkts, outOfOrderPkts).        *)
(* pendingDroppedPkts is decremented by the code in five places: it is an  *)
(* integer here, and that it never goes below 0 (a uint64_t would wrap) is *)
(* an invariant to check, not a type.                                      *)
(***************************************************************************)
Counters ==
  [ droppablePkts            : Nat,
    droppedPkts              : Nat,
    retransmittedDroppedPkts : Nat,
    notSeenDroppedPkts       : Nat,
    duplicatePkts            : Nat,
    pendingDroppedPkts       : Int ]

NoCounters ==
  [ droppablePkts            |-> 0,
    droppedPkts              |-> 0,
    retransmittedDroppedPkts |-> 0,
    notSeenDroppedPkts       |-> 0,
    duplicatePkts            |-> 0,
    pendingDroppedPkts       |-> 0 ]

Verdicts == {"NoDecision", "DuplicatesExceeded", "ClosedLoop", "NotClosedLoop"}

(***************************************************************************)
(* The configured minimum of evidence has not been gathered.               *)
(***************************************************************************)
BelowMinimum(c) ==
  \/ MinDroppablePkts > 0 /\ c.droppablePkts < MinDroppablePkts
  \/ MinPacketDrops > 0 /\ c.droppedPkts < MinPacketDrops

\* (fault: no duplicates make a rate of 0)
DuplicatesAsCounted(c) == c.duplicatePkts

(***************************************************************************)
(* fDup, the rate of duplicates: a record without duplicates counts as one *)
(* with a single duplicate.                                                *)
(***************************************************************************)
FDupNumerator(c)   == IF c.duplicatePkts = 0 THEN 1 ELSE c.duplicatePkts
FDupDenominator(c) == c.droppablePkts - c.droppedPkts

\* (fault: the comparison is reversed)
TooFewDuplicates(c) ==
  FDupNumerator(c) * MaxDuplicates[2] < MaxDuplicates[1] * FDupDenominator(c)

TooManyDuplicates(c) ==
  FDupNumerator(c) * MaxDuplicates[2] > MaxDuplicates[1] * FDupDenominator(c)

(***************************************************************************)
(* H1 and H2 brought to the common denominator; only their ratio matters.  *)
(***************************************************************************)
H1(c) == Power(NotObserveRetransmission[1], c.notSeenDroppedPkts)
           * Power(FDupDenominator(c), c.retransmittedDroppedPkts)
\* (fault: every drop weighs as an unseen one)
H2OfAllDrops(c) == Power(NotObserveRetransmission[2], c.droppedPkts)
                     * Power(FDupNumerator(c), c.retransmittedDroppedPkts)

H2(c) == Power(NotObserveRetransmission[2], c.notSeenDroppedPkts)
           * Power(FDupNumerator(c), c.retransmittedDroppedPkts)

\* (fault: the hypotheses are swapped)
WeighSwapped(c) ==
  CASE H2(c) > DecisionOdds * H1(c) -> "ClosedLoop"
    [] DecisionOdds * H2(c) < H1(c) -> "NotClosedLoop"
    [] OTHER                        -> "NoDecision"

Weigh(c) ==
  CASE H1(c) > DecisionOdds * H2(c) -> "ClosedLoop"
    [] DecisionOdds * H1(c) < H2(c) -> "NotClosedLoop"
    [] OTHER                        -> "NoDecision"

Verdict(c) ==
  CASE BelowMinimum(c) \/ FDupDenominator(c) < 1 -> "NoDecision"
    [] ~BelowMinimum(c) /\ FDupDenominator(c) >= 1 /\ TooManyDuplicates(c)
         -> "DuplicatesExceeded"
    [] OTHER -> Weigh(c)
===============================================================================
