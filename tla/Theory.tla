-------------------------------- MODULE Theory --------------------------------
(***************************************************************************)
(* The theoretical analysis, src/theoretical-analysis/sim.cc: how likely   *)
(* the rule is to take a source for genuine that sends each of its first   *)
(* dups packets twice without looking whether they were dropped.           *)
(*                                                                         *)
(* A step is an iteration of the inner loop; whether its packet is dropped *)
(* is a free choice.  The rule is over exact rationals, as in Hypotheses,  *)
(* and Penny is that module with the same parameters.                      *)
(***************************************************************************)
EXTENDS Powers, Functions

CONSTANTS
  MAX_N,           \* packets are numbered 1..MAX_N - 1
  MAX_DUPS,        \* duplicates are counted up to MAX_DUPS - 1
  Runs,            \* how often the experiment is repeated
  MAX_DUP_THRESH,  \* <<num, den>>
  NotLegitSrc,     \* <<num, den>> of 1 - PROB_LEGIT_SRC
  DecisionOdds     \* the odds behind H1_H2_RATIO

Penny == INSTANCE Hypotheses WITH
  MaxDuplicates            <- MAX_DUP_THRESH,
  NotObserveRetransmission <- NotLegitSrc,
  MinPacketDrops           <- 0,
  MinDroppablePkts         <- 0

ASSUME TheoryAssumption ==
  /\ MAX_N \in Nat /\ MAX_N > 1
  /\ MAX_DUPS \in Nat /\ MAX_DUPS > 2
  /\ Runs \in Nat \ {0}
  /\ Penny!HypothesesAssumption

VARIABLES
  run, dups, n,   \* the three loops
  dupcount,       \* duplicates as seen at the monitor
  origdupcount,   \* duplicates as sent
  dropcount,
  correctcount,   \* drops of packets that are sent twice
  results,        \* the arrays of outcomes, by name
  totalresults

flow == <<dupcount, origdupcount, dropcount, correctcount>>
vars == <<run, dups, n, flow, results, totalresults>>

Outcomes == {"max_dups", "bidir", "non_bidir", "undecided"}

Rows    == 1..MAX_N - 1
Columns == 0..MAX_DUPS - 1

NoResults == [i \in Rows |-> [d \in Columns |-> 0]]

Init ==
  /\ run = 0 /\ dups = 2 /\ n = 1
  /\ dupcount = 0 /\ origdupcount = 0 /\ dropcount = 0 /\ correctcount = 0
  /\ results = [o \in Outcomes |-> NoResults]
  /\ totalresults = NoResults

-------------------------------------------------------------------------------
\* (fault: one packet too many is sent twice)
DuplicatedOneMore == n <= dups + 1

Duplicated == n <= dups

\* C++ converts dropped, whether this packet was, to 0 or 1.
TooManyDups(dropped) ==
  LET others == n - (IF dropped THEN 1 ELSE 0) IN
  others # 0 /\ dupcount' * MAX_DUP_THRESH[2] > MAX_DUP_THRESH[1] * others

\* (fault: every drop counts as one that was not seen again)
EveryDrop == dropcount'

NotSeen == dropcount' - correctcount'

\* h1 and h2 brought to the common denominator
h1 == Power(NotLegitSrc[1], NotSeen) * Power(n, correctcount')
h2 == Power(NotLegitSrc[2], NotSeen)
        * Power(IF dupcount' = 0 THEN 1 ELSE dupcount', correctcount')

Outcome(dropped) ==
  CASE TooManyDups(dropped) -> "max_dups"
    [] ~TooManyDups(dropped) /\ h1 > DecisionOdds * h2 -> "bidir"
    [] ~TooManyDups(dropped) /\ DecisionOdds * h1 < h2 -> "non_bidir"
    [] OTHER -> "undecided"

\* (fault: outcomes are filed under the duplicates that reach the monitor)
ColumnSeen == dupcount'

Column == origdupcount'

\* (fault: flows with too many duplicates are not counted)
CountJudged(dropped) ==
  IF TooManyDups(dropped) THEN totalresults
  ELSE [totalresults EXCEPT ![n][dupcount'] = @ + 1]

CountTotal(dropped) == [totalresults EXCEPT ![n][dupcount'] = @ + 1]

CountOutcome(dropped) == [results EXCEPT ![Outcome(dropped)][n][Column] = @ + 1]

\* One iteration over n, for a packet that is dropped or not
Packet(dropped) ==
  /\ n < MAX_N
  /\ n' = n + 1
  /\ dropcount'    = dropcount    + (IF dropped THEN 1 ELSE 0)
  /\ correctcount' = correctcount + (IF dropped /\ Duplicated THEN 1 ELSE 0)
  /\ dupcount'     = dupcount     + (IF ~dropped /\ Duplicated THEN 1 ELSE 0)
  /\ origdupcount' = origdupcount + (IF Duplicated THEN 1 ELSE 0)
  /\ IF n < dups
       THEN UNCHANGED <<results, totalresults>>
       ELSE totalresults' = CountTotal(dropped) /\ results' = CountOutcome(dropped)
  /\ UNCHANGED <<run, dups>>

\* The next iteration over dups, or over run
NextFlow ==
  /\ n = MAX_N
  /\ run < Runs
  /\ n' = 1
  /\ dupcount' = 0 /\ origdupcount' = 0 /\ dropcount' = 0 /\ correctcount' = 0
  /\ IF dups + 1 < MAX_DUPS
       THEN dups' = dups + 1 /\ UNCHANGED run
       ELSE dups' = 2 /\ run' = run + 1
  /\ UNCHANGED <<results, totalresults>>

Next ==
  \/ run < Runs /\ Packet(TRUE)
  \/ run < Runs /\ Packet(FALSE)
  \/ NextFlow

Spec == Init /\ [][Next]_vars

-------------------------------------------------------------------------------
(***************************************************************************)
(* The indices of the arrays are in bounds, as the assertion of the code   *)
(* on origdupcount says, and no drop is explained twice.                   *)
(***************************************************************************)
TypeOK ==
  /\ run \in 0..Runs
  /\ dups \in 2..MAX_DUPS - 1
  /\ n \in 1..MAX_N
  /\ {origdupcount, dupcount} \subseteq Columns
  /\ dupcount + correctcount = origdupcount
  /\ correctcount \in 0..dropcount
  /\ dropcount \in 0..n - 1
  /\ results \in [Outcomes -> [Rows -> [Columns -> Nat]]]
  /\ totalresults \in [Rows -> [Columns -> Nat]]

OutcomesAt(i, d) == SumFunction([o \in Outcomes |-> results[o][i][d]])

(***************************************************************************)
(* Over all numbers of duplicates, as many outcomes as totals are counted  *)
(* for n packets: no flow is left out of one and not of the other.         *)
(***************************************************************************)
RowsAgree ==
  \A i \in Rows : SumFunction(totalresults[i])
                    = SumFunction([d \in Columns |-> OutcomesAt(i, d)])

\* The flow of this run with d duplicates has sent its packet i.
HasPassed(i, d) == d < dups \/ (d = dups /\ i < n)

(***************************************************************************)
(* A column of the outcomes is about the flows that sent that many         *)
(* duplicates and about all of them: however many of these were dropped,   *)
(* each run of the loop leaves one outcome in each row of its column.      *)
(***************************************************************************)
OneOutcomePerFlow ==
  \A i \in Rows, d \in Columns :
    OutcomesAt(i, d) = CASE d < 2 \/ i < d -> 0
                         [] d \in 2..i /\ HasPassed(i, d) -> run + 1
                         [] OTHER -> run

\* The record that Penny would have of the flow if no drop were pending
Evidence ==
  [ droppablePkts            |-> n - 1,
    droppedPkts              |-> dropcount,
    retransmittedDroppedPkts |-> correctcount,
    notSeenDroppedPkts       |-> dropcount - correctcount,
    duplicatePkts            |-> dupcount,
    pendingDroppedPkts       |-> 0 ]

Files(outcome) == results'[outcome] # results[outcome]

(***************************************************************************)
(* The analysis divides by the number of packets where Penny divides by    *)
(* those it let through, corrects that number for the last packet only     *)
(* when it compares duplicates, and takes no duplicates for none where     *)
(* Penny takes them for one.  It still errs to one side only, so that the  *)
(* figure never understates the chances of such a source: what Penny would *)
(* take for closed-loop it files as genuine, and what it files against the *)
(* source Penny would decide against the source, too, unless it let no     *)
(* packet through.                                                         *)
(***************************************************************************)
NeverUnderstates ==
  [][ n' > n /\ n >= dups =>
        /\ Penny!Verdict(Evidence)' = "ClosedLoop" => Files("bidir")
        /\ Files("max_dups") => Penny!Verdict(Evidence)' = "DuplicatesExceeded"
        /\ Files("non_bidir") =>
             \/ Penny!Verdict(Evidence)' \in {"NotClosedLoop", "DuplicatesExceeded"}
             \/ dropcount' = n ]_vars

(***************************************************************************)
(* When the results are printed, the total of n packets and d duplicates   *)
(* is that of the outcomes divided by it: the arrays "hold the results for *)
(* different combinations of N and D (where D is number of dups sent by    *)
(* the malicious user)" (sim.cc:24-25).                                    *)
(***************************************************************************)
TotalsAreOfOutcomes ==
  run = Runs =>
    \A i \in Rows, d \in Columns : totalresults[i][d] = OutcomesAt(i, d)
===============================================================================
