--------------------------- MODULE Evidence_proofs ----------------------------
(***************************************************************************)
(* Proofs about the decision rule, for every duplicate limit and every     *)
(* probability of missing a retransmission up to 1, all odds, minima and   *)
(* bounds, and so for records of any size.  With the rule written over     *)
(* H1 = a^s * F^r and H2 = b^s * N^r, where a/b is that probability, s and *)
(* r the drops that expired and that were retransmitted, N/F the rate of   *)
(* duplicates, everything follows from a <= b, and from N <= F once the    *)
(* rate of duplicates is below the limit.                                  *)
(***************************************************************************)
EXTENDS Evidence, ArithmeticLemmas

\* The parameters by name.
a == NotObserveRetransmission[1]
b == NotObserveRetransmission[2]

LEMMA Parameters ==
  /\ a \in Nat /\ b \in Nat /\ b > 0 /\ a <= b
  /\ MaxDuplicates[1] \in Nat
  /\ MaxDuplicates[2] \in Nat /\ MaxDuplicates[2] > 0
  /\ MaxDuplicates[1] <= MaxDuplicates[2]
  /\ DecisionOdds \in Nat /\ DecisionOdds > 0
  /\ MinPacketDrops \in Nat /\ MinDroppablePkts \in Nat
BY HypothesesAssumption, EvidenceAssumption DEF IsRatio, a, b

\* The record can be judged: evidence enough, packets let through and not too
\* many duplicates.
Weighable(c) ==
  /\ ~BelowMinimum(c)
  /\ FDupDenominator(c) >= 1
  /\ ~TooManyDuplicates(c)

\* The numbers the rule computes with.
LEMMA Weights ==
  ASSUME NEW c \in Counters
  PROVE  /\ FDupNumerator(c) \in Nat /\ FDupNumerator(c) > 0
         /\ FDupDenominator(c) \in Int
         /\ c.retransmittedDroppedPkts \in Nat
         /\ c.notSeenDroppedPkts \in Nat
         /\ Power(a, c.notSeenDroppedPkts) \in Nat
         /\ Power(b, c.notSeenDroppedPkts) \in Nat
         /\ Power(b, c.notSeenDroppedPkts) > 0
         /\ Power(a, c.notSeenDroppedPkts) <= Power(b, c.notSeenDroppedPkts)
<1>1. /\ c.droppablePkts \in Nat /\ c.droppedPkts \in Nat
      /\ c.duplicatePkts \in Nat
      /\ c.retransmittedDroppedPkts \in Nat
      /\ c.notSeenDroppedPkts \in Nat
  BY DEF Counters
<1>2. FDupNumerator(c) \in Nat /\ FDupNumerator(c) > 0
  BY <1>1 DEF FDupNumerator
<1>3. FDupDenominator(c) \in Int
  BY <1>1 DEF FDupDenominator
<1>4. /\ a \in Nat /\ b \in Nat /\ b > 0 /\ a <= b
  BY Parameters
<1>5. \A k \in Nat : Power(a, k) \in Nat
  BY <1>4, PowerType
<1>6. \A k \in Nat : Power(b, k) \in Nat /\ Power(b, k) > 0
  BY <1>4, PowerType
<1>7. \A k \in Nat : Power(a, k) <= Power(b, k)
  BY <1>4, PowerGrows
<1> QED  BY <1>1, <1>2, <1>3, <1>5, <1>6, <1>7

LEMMA HypothesesType ==
  ASSUME NEW c \in Counters, FDupDenominator(c) >= 1
  PROVE  /\ H1(c) \in Nat /\ H2(c) \in Nat /\ H2(c) > 0
<1> DEFINE r == c.retransmittedDroppedPkts
           s == c.notSeenDroppedPkts
           F == FDupDenominator(c)
           N == FDupNumerator(c)
<1>1. /\ F \in Nat /\ N \in Nat /\ N > 0 /\ r \in Nat
      /\ Power(a, s) \in Nat /\ Power(b, s) \in Nat /\ Power(b, s) > 0
  BY Weights
<1>2. /\ H1(c) = Power(a, s) * Power(F, r)
      /\ H2(c) = Power(b, s) * Power(N, r)
  BY DEF H1, H2, a, b
<1> HIDE DEF r, s, F, N
<1>3. Power(F, r) \in Nat /\ Power(N, r) \in Nat /\ Power(N, r) > 0
  BY <1>1, PowerType
<1>4. \A x, y \in Nat : x * y \in Nat /\ (x > 0 /\ y > 0 => x * y > 0)
  OBVIOUS
<1> QED  BY <1>1, <1>2, <1>3, <1>4

\* The odds are not against both hypotheses.
LEMMA OneHypothesis ==
  ASSUME NEW c \in Counters, FDupDenominator(c) >= 1
  PROVE  ~(H1(c) > DecisionOdds * H2(c) /\ DecisionOdds * H1(c) < H2(c))
<1> DEFINE x == H1(c)
           y == H2(c)
           d == DecisionOdds
<1>1. x \in Nat /\ y \in Nat /\ d \in Nat /\ d >= 1
  BY HypothesesType, Parameters
<1> HIDE DEF x, y, d
<1>2. d * y >= y /\ d * x >= x /\ d * x \in Nat /\ d * y \in Nat
  BY <1>1
<1>3. ~(x > d * y /\ d * x < y)
  BY <1>1, <1>2
<1> QED  BY <1>3 DEF x, y, d

\* What each verdict says.
LEMMA VerdictSays ==
  ASSUME NEW c \in Counters
  PROVE  /\ Verdict(c) = "ClosedLoop"
              <=> Weighable(c) /\ H1(c) > DecisionOdds * H2(c)
         /\ Verdict(c) = "NotClosedLoop"
              <=> Weighable(c) /\ DecisionOdds * H1(c) < H2(c)
         /\ Verdict(c) = "DuplicatesExceeded"
              <=> /\ ~BelowMinimum(c)
                  /\ FDupDenominator(c) >= 1
                  /\ TooManyDuplicates(c)
         /\ Verdict(c) \in Verdicts
<1>1. CASE Weighable(c)
  <2>1. FDupDenominator(c) >= 1 /\ FDupDenominator(c) \in Int
    BY <1>1, Weights DEF Weighable
  <2>2. Verdict(c) = Weigh(c)
    BY <1>1, <2>1 DEF Verdict, Weighable
  <2>3. ~(H1(c) > DecisionOdds * H2(c) /\ DecisionOdds * H1(c) < H2(c))
    BY <2>1, OneHypothesis
  <2>4. /\ Weigh(c) = "ClosedLoop" <=> H1(c) > DecisionOdds * H2(c)
        /\ Weigh(c) = "NotClosedLoop" <=> DecisionOdds * H1(c) < H2(c)
        /\ Weigh(c) \in {"ClosedLoop", "NotClosedLoop", "NoDecision"}
    BY <2>3 DEF Weigh
  <2> QED  BY <1>1, <2>2, <2>4 DEF Weighable, Verdicts
<1>2. CASE ~Weighable(c)
  <2>1. FDupDenominator(c) \in Int
    BY Weights
  <2>2. CASE BelowMinimum(c) \/ FDupDenominator(c) < 1
    <3>1. Verdict(c) = "NoDecision"
      BY <2>2, <2>1 DEF Verdict
    <3> QED  BY <1>2, <2>1, <2>2, <3>1 DEF Verdicts
  <2>3. CASE ~BelowMinimum(c) /\ FDupDenominator(c) >= 1
    <3>1. TooManyDuplicates(c)
      BY <1>2, <2>3 DEF Weighable
    <3>2. Verdict(c) = "DuplicatesExceeded"
      BY <2>1, <2>3, <3>1 DEF Verdict
    <3> QED  BY <1>2, <2>3, <3>1, <3>2 DEF Verdicts
  <2> QED  BY <2>1, <2>2, <2>3
<1> QED  BY <1>1, <1>2

\* Below the duplicate limit there are no more duplicates than packets let
\* through.
LEMMA FewDuplicates ==
  ASSUME NEW c \in Counters, Weighable(c)
  PROVE  /\ FDupDenominator(c) \in Nat
         /\ FDupNumerator(c) <= FDupDenominator(c)
<1> DEFINE F == FDupDenominator(c)
           N == FDupNumerator(c)
           m == MaxDuplicates[1]
           n == MaxDuplicates[2]
<1>1. N \in Nat /\ F \in Nat /\ F >= 1
  BY Weights DEF Weighable
<1>2. m \in Nat /\ n \in Nat /\ n > 0 /\ m <= n
  BY Parameters
<1>3. ~(N * n > m * F)
  BY DEF Weighable, TooManyDuplicates
<1> HIDE DEF F, N, m, n
<1>4. m * F <= n * F /\ N * n \in Nat /\ m * F \in Nat /\ n * F \in Nat
  BY <1>1, <1>2
<1>5. N * n <= n * F
  BY <1>3, <1>4
<1>6. N <= F
  <2>1. F < N => n * F < N * n
    BY <1>1, <1>2
  <2> QED  BY <1>1, <1>4, <1>5, <2>1
<1> QED  BY <1>1, <1>6 DEF F, N

\* Closed-loop is not said without a retransmission, nor not-closed-loop
\* without an expired drop.
LEMMA WitnessNeeded ==
  ASSUME NEW c \in Counters
  PROVE  /\ Verdict(c) = "ClosedLoop" => c.retransmittedDroppedPkts > 0
         /\ Verdict(c) = "NotClosedLoop" => c.notSeenDroppedPkts > 0
<1> DEFINE F == FDupDenominator(c)
           N == FDupNumerator(c)
           r == c.retransmittedDroppedPkts
           s == c.notSeenDroppedPkts
           d == DecisionOdds
<1>1. /\ r \in Nat /\ s \in Nat /\ N \in Nat /\ d \in Nat /\ d >= 1
      /\ Power(a, s) \in Nat /\ Power(b, s) \in Nat
      /\ Power(a, s) <= Power(b, s)
  BY Weights, Parameters
<1>2. /\ H1(c) = Power(a, s) * Power(F, r)
      /\ H2(c) = Power(b, s) * Power(N, r)
  BY DEF H1, H2, a, b
<1>3. Weighable(c) => F \in Nat /\ N <= F
  BY FewDuplicates
<1>4. ASSUME Verdict(c) = "ClosedLoop" PROVE r > 0
  <2>1. H1(c) > d * H2(c)
    BY <1>4, VerdictSays
  <2> HIDE DEF r, s, F, N, d
  <2>2. ASSUME r = 0 PROVE FALSE
    <3>1. Power(F, r) = 1 /\ Power(N, r) = 1
      BY <2>2, PowerSteps
    <3>2. Power(a, s) > d * Power(b, s)
      BY <1>1, <1>2, <2>1, <3>1
    <3>3. Power(b, s) <= d * Power(b, s) /\ d * Power(b, s) \in Nat
      BY <1>1
    <3> QED  BY <1>1, <3>2, <3>3
  <2> QED  BY <1>1, <2>2
<1>5. ASSUME Verdict(c) = "NotClosedLoop" PROVE s > 0
  <2>1. d * H1(c) < H2(c) /\ Weighable(c)
    BY <1>5, VerdictSays
  <2>2. F \in Nat /\ N <= F
    BY <1>3, <2>1
  <2> HIDE DEF r, s, F, N, d
  <2>3. Power(N, r) <= Power(F, r) /\ Power(N, r) \in Nat /\ Power(F, r) \in Nat
    BY <1>1, <2>2, PowerGrows, PowerType
  <2>4. ASSUME s = 0 PROVE FALSE
    <3>1. Power(a, s) = 1 /\ Power(b, s) = 1
      BY <2>4, PowerSteps
    <3>2. d * Power(F, r) < Power(N, r)
      BY <1>1, <1>2, <2>1, <2>3, <3>1
    <3>3. Power(F, r) <= d * Power(F, r) /\ d * Power(F, r) \in Nat
      BY <1>1, <2>3
    <3> QED  BY <2>3, <3>2, <3>3
  <2> QED  BY <1>1, <2>4
<1> QED  BY <1>4, <1>5

\* What the steps do to the two hypotheses: x and y are H1 and H2.
LEMMA RetransmissionWeighs ==
  ASSUME NEW x \in Nat, NEW y \in Nat, NEW d \in Nat, NEW F \in Nat,
         NEW N \in Nat, N > 0, N <= F
  PROVE  /\ x > d * y => F * x > d * (N * y)
         /\ d * (F * x) < N * y => d * x < y
<1>1. d * y \in Nat /\ N * x <= F * x /\ F * x \in Nat /\ N * x \in Nat
  OBVIOUS
<1>2. ASSUME x > d * y PROVE F * x > d * (N * y)
  <2>1. N * (d * y) < N * x
    BY <1>1, <1>2
  <2>2. N * (d * y) = d * (N * y)
    OBVIOUS
  <2>3. d * (N * y) \in Nat
    OBVIOUS
  <2> QED  BY <1>1, <2>1, <2>2, <2>3
<1>3. ASSUME d * (F * x) < N * y PROVE d * x < y
  <2>1. d * x \in Nat
    OBVIOUS
  <2>2. ASSUME y <= d * x PROVE FALSE
    <3>1. N * y <= N * (d * x)
      BY <2>1, <2>2
    <3>2. N * (d * x) <= F * (d * x)
      BY <2>1
    <3>3. F * (d * x) = d * (F * x)
      OBVIOUS
    <3>4. N * y \in Nat /\ N * (d * x) \in Nat /\ F * (d * x) \in Nat
      BY <2>1
    <3> QED  BY <1>3, <3>1, <3>2, <3>3, <3>4
  <2> QED  BY <2>1, <2>2
<1> QED  BY <1>2, <1>3

LEMMA SilenceWeighs ==
  ASSUME NEW x \in Nat, NEW y \in Nat, NEW d \in Nat, NEW p \in Nat,
         NEW q \in Nat, q > 0, p <= q
  PROVE  /\ p * x > d * (q * y) => x > d * y
         /\ d * x < y => d * (p * x) < q * y
<1>1. d * y \in Nat /\ d * x \in Nat
  OBVIOUS
<1>2. ASSUME p * x > d * (q * y) PROVE x > d * y
  <2>1. ASSUME x <= d * y PROVE FALSE
    <3>1. p * x <= q * (d * y)
      BY <1>1, <2>1, ProductGrows
    <3>2. q * (d * y) = d * (q * y)
      OBVIOUS
    <3>3. p * x \in Nat /\ d * (q * y) \in Nat
      OBVIOUS
    <3> QED  BY <1>2, <3>1, <3>2, <3>3
  <2> QED  BY <1>1, <2>1
<1>3. ASSUME d * x < y PROVE d * (p * x) < q * y
  <2>1. p * (d * x) <= q * (d * x)
    BY <1>1
  <2>2. q * (d * x) < q * y
    BY <1>1, <1>3
  <2>3. p * (d * x) = d * (p * x)
    OBVIOUS
  <2>4. p * (d * x) \in Nat /\ q * (d * x) \in Nat /\ q * y \in Nat
    BY <1>1
  <2> QED  BY <2>1, <2>2, <2>3, <2>4
<1> QED  BY <1>2, <1>3

-------------------------------------------------------------------------------
(***************************************************************************)
(* The steps, from a record c to a record e.                               *)
(***************************************************************************)
RecordOK == counters \in Counters

\* A drop more, whichever way it ended: what it does to the counters.
OneMore(c, e, dr, ds) ==
  /\ c \in Counters /\ e \in Counters
  /\ e.droppablePkts = c.droppablePkts + 1
  /\ e.droppedPkts = c.droppedPkts + 1
  /\ e.duplicatePkts = c.duplicatePkts
  /\ e.retransmittedDroppedPkts = c.retransmittedDroppedPkts + dr
  /\ e.notSeenDroppedPkts = c.notSeenDroppedPkts + ds

\* It leaves the rate of duplicates alone, and no minimum that was reached
\* is missed.
LEMMA OneMoreKeeps ==
  ASSUME NEW c, NEW e, NEW dr, NEW ds, OneMore(c, e, dr, ds)
  PROVE  /\ FDupNumerator(e) = FDupNumerator(c)
         /\ FDupDenominator(e) = FDupDenominator(c)
         /\ TooManyDuplicates(e) = TooManyDuplicates(c)
         /\ BelowMinimum(e) => BelowMinimum(c)
         /\ Weighable(c) => Weighable(e)
         /\ Weighable(e) => Weighable(c) \/ BelowMinimum(c)
<1>1. /\ c.droppablePkts \in Nat /\ c.droppedPkts \in Nat
      /\ e.droppablePkts = c.droppablePkts + 1
      /\ e.droppedPkts = c.droppedPkts + 1
      /\ e.duplicatePkts = c.duplicatePkts
  BY DEF OneMore, Counters
<1>2. FDupNumerator(e) = FDupNumerator(c)
  BY <1>1 DEF FDupNumerator
<1>3. FDupDenominator(e) = FDupDenominator(c)
  BY <1>1 DEF FDupDenominator
<1>4. TooManyDuplicates(e) = TooManyDuplicates(c)
  BY <1>2, <1>3 DEF TooManyDuplicates
<1>5. BelowMinimum(e) => BelowMinimum(c)
  BY <1>1, Parameters DEF BelowMinimum
<1> QED  BY <1>2, <1>3, <1>4, <1>5 DEF Weighable

\* A record with one observed retransmission more.
LEMMA RetransmissionStep ==
  ASSUME NEW c, NEW e, OneMore(c, e, 1, 0)
  PROVE  /\ Verdict(c) = "ClosedLoop" => Verdict(e) = "ClosedLoop"
         /\ Verdict(e) = "NotClosedLoop"
              => Verdict(c) = "NotClosedLoop" \/ BelowMinimum(c)
<1> DEFINE F == FDupDenominator(c)
           N == FDupNumerator(c)
           r == c.retransmittedDroppedPkts
           s == c.notSeenDroppedPkts
           A == Power(a, s)
           B == Power(b, s)
           x == H1(c)
           y == H2(c)
           d == DecisionOdds
<1>1. c \in Counters /\ e \in Counters
  BY DEF OneMore
<1>2. /\ FDupNumerator(e) = N /\ FDupDenominator(e) = F
      /\ Weighable(c) => Weighable(e)
      /\ Weighable(e) => Weighable(c) \/ BelowMinimum(c)
  BY OneMoreKeeps
<1>3. r \in Nat /\ s \in Nat /\ N \in Nat /\ N > 0 /\ A \in Nat /\ B \in Nat
  BY <1>1, Weights
<1>4. e.retransmittedDroppedPkts = r + 1 /\ e.notSeenDroppedPkts = s
  BY <1>3 DEF OneMore
<1>5. ASSUME Weighable(c)
      PROVE  /\ F \in Nat /\ N <= F
             /\ x \in Nat /\ y \in Nat /\ d \in Nat
             /\ H1(e) = F * x /\ H2(e) = N * y
  <2>1. F \in Nat /\ N <= F /\ F >= 1
    BY <1>1, <1>5, FewDuplicates DEF Weighable
  <2>2. x \in Nat /\ y \in Nat /\ d \in Nat
    BY <1>1, <2>1, HypothesesType, Parameters
  <2>3. x = A * Power(F, r) /\ y = B * Power(N, r)
    BY DEF H1, H2, a, b
  <2>4. H1(e) = A * Power(F, r + 1) /\ H2(e) = B * Power(N, r + 1)
    BY <1>2, <1>4 DEF H1, H2, a, b
  <2>5. /\ Power(F, r + 1) = F * Power(F, r)
        /\ Power(N, r + 1) = N * Power(N, r)
    BY <1>3, PowerSteps
  <2>6. Power(F, r) \in Nat /\ Power(N, r) \in Nat
    BY <1>3, <2>1, PowerType
  <2> HIDE DEF F, N, r, s, A, B, x, y, d
  <2>7. /\ A * (F * Power(F, r)) = F * (A * Power(F, r))
        /\ B * (N * Power(N, r)) = N * (B * Power(N, r))
    BY <1>3, <2>1, <2>6
  <2> QED  BY <2>1, <2>2, <2>3, <2>4, <2>5, <2>7
<1>6. Weighable(c) => /\ x > d * y => F * x > d * (N * y)
                      /\ d * (F * x) < N * y => d * x < y
  BY <1>3, <1>5, RetransmissionWeighs
<1>7. /\ Verdict(c) = "ClosedLoop" <=> Weighable(c) /\ x > d * y
      /\ Verdict(c) = "NotClosedLoop" <=> Weighable(c) /\ d * x < y
      /\ Verdict(e) = "ClosedLoop" <=> Weighable(e) /\ H1(e) > d * H2(e)
      /\ Verdict(e) = "NotClosedLoop" <=> Weighable(e) /\ d * H1(e) < H2(e)
  BY <1>1, VerdictSays
<1> HIDE DEF F, N, r, s, A, B, x, y, d
<1> QED  BY <1>2, <1>5, <1>6, <1>7

\* A record with one expired drop more.
LEMMA SilenceStep ==
  ASSUME NEW c, NEW e, OneMore(c, e, 0, 1)
  PROVE  /\ Verdict(e) = "ClosedLoop"
              => Verdict(c) = "ClosedLoop" \/ BelowMinimum(c)
         /\ Verdict(c) = "NotClosedLoop" => Verdict(e) = "NotClosedLoop"
<1> DEFINE F == FDupDenominator(c)
           N == FDupNumerator(c)
           r == c.retransmittedDroppedPkts
           s == c.notSeenDroppedPkts
           A == Power(F, r)
           B == Power(N, r)
           x == H1(c)
           y == H2(c)
           d == DecisionOdds
<1>1. c \in Counters /\ e \in Counters
  BY DEF OneMore
<1>2. /\ FDupNumerator(e) = N /\ FDupDenominator(e) = F
      /\ Weighable(c) => Weighable(e)
      /\ Weighable(e) => Weighable(c) \/ BelowMinimum(c)
  BY OneMoreKeeps
<1>3. r \in Nat /\ s \in Nat /\ N \in Nat
  BY <1>1, Weights
<1>4. e.retransmittedDroppedPkts = r /\ e.notSeenDroppedPkts = s + 1
  BY <1>3 DEF OneMore
<1>5. a \in Nat /\ b \in Nat /\ b > 0 /\ a <= b /\ d \in Nat
  BY Parameters
<1>6. ASSUME Weighable(c)
      PROVE  x \in Nat /\ y \in Nat /\ H1(e) = a * x /\ H2(e) = b * y
  <2>1. F \in Nat /\ F >= 1
    BY <1>1, <1>6, FewDuplicates DEF Weighable
  <2>2. x \in Nat /\ y \in Nat
    BY <1>1, <2>1, HypothesesType
  <2>3. x = Power(a, s) * A /\ y = Power(b, s) * B
    BY DEF H1, H2, a, b
  <2>4. H1(e) = Power(a, s + 1) * A /\ H2(e) = Power(b, s + 1) * B
    BY <1>2, <1>4 DEF H1, H2, a, b
  <2>5. /\ Power(a, s + 1) = a * Power(a, s)
        /\ Power(b, s + 1) = b * Power(b, s)
    BY <1>3, PowerSteps
  <2>6. Power(a, s) \in Nat /\ Power(b, s) \in Nat
    BY <1>1, Weights
  <2>7. A \in Nat /\ B \in Nat
    BY <1>3, <2>1, PowerType
  <2> HIDE DEF F, N, r, s, A, B, x, y, d
  <2>8. /\ (a * Power(a, s)) * A = a * (Power(a, s) * A)
        /\ (b * Power(b, s)) * B = b * (Power(b, s) * B)
    BY <1>5, <2>6, <2>7
  <2> QED  BY <2>2, <2>3, <2>4, <2>5, <2>8
<1>7. Weighable(c) => /\ a * x > d * (b * y) => x > d * y
                      /\ d * x < y => d * (a * x) < b * y
  BY <1>5, <1>6, SilenceWeighs
<1>8. /\ Verdict(c) = "ClosedLoop" <=> Weighable(c) /\ x > d * y
      /\ Verdict(c) = "NotClosedLoop" <=> Weighable(c) /\ d * x < y
      /\ Verdict(e) = "ClosedLoop" <=> Weighable(e) /\ H1(e) > d * H2(e)
      /\ Verdict(e) = "NotClosedLoop" <=> Weighable(e) /\ d * H1(e) < H2(e)
  BY <1>1, VerdictSays
<1> HIDE DEF F, N, r, s, A, B, x, y, d
<1> QED  BY <1>2, <1>6, <1>7, <1>8

\* A record with one duplicate more.
LEMMA DuplicateStep ==
  ASSUME NEW c \in Counters, NEW e \in Counters,
         e = [c EXCEPT !.duplicatePkts = @ + 1]
  PROVE  /\ Verdict(e) = "ClosedLoop" => Verdict(c) = "ClosedLoop"
         /\ Verdict(c) = "NotClosedLoop"
              => Verdict(e) \in {"NotClosedLoop", "DuplicatesExceeded"}
         /\ Verdict(c) = "DuplicatesExceeded"
              => Verdict(e) = "DuplicatesExceeded"
<1> DEFINE F == FDupDenominator(c)
           N == FDupNumerator(c)
           M == FDupNumerator(e)
           r == c.retransmittedDroppedPkts
           s == c.notSeenDroppedPkts
           A == Power(a, s) * Power(F, r)
           B == Power(b, s)
           d == DecisionOdds
<1>1. /\ c.duplicatePkts \in Nat
      /\ c.droppablePkts \in Nat /\ c.droppedPkts \in Nat
      /\ e.duplicatePkts = c.duplicatePkts + 1
      /\ e.droppablePkts = c.droppablePkts /\ e.droppedPkts = c.droppedPkts
      /\ e.retransmittedDroppedPkts = r /\ e.notSeenDroppedPkts = s
  BY DEF Counters
<1>2. M \in Nat /\ N \in Nat /\ N <= M
  BY <1>1 DEF FDupNumerator
<1>3. FDupDenominator(e) = F /\ F \in Int
  BY <1>1 DEF FDupDenominator
<1>4. BelowMinimum(e) = BelowMinimum(c)
  BY <1>1 DEF BelowMinimum
<1>5. TooManyDuplicates(c) => TooManyDuplicates(e)
  <2> DEFINE m == MaxDuplicates[1]
             n == MaxDuplicates[2]
  <2>1. m \in Nat /\ n \in Nat
    BY Parameters
  <2>2. /\ TooManyDuplicates(c) <=> N * n > m * F
        /\ TooManyDuplicates(e) <=> M * n > m * F
    BY <1>3 DEF TooManyDuplicates
  <2> HIDE DEF F, N, M, m, n
  <2>3. N * n <= M * n /\ N * n \in Nat /\ M * n \in Nat /\ m * F \in Int
    BY <1>2, <1>3, <2>1
  <2> QED  BY <2>2, <2>3
<1>6. ASSUME F >= 1
      PROVE  /\ H1(e) = H1(c) /\ H1(c) \in Nat
             /\ H2(c) \in Nat /\ H2(e) \in Nat /\ H2(c) <= H2(e)
  <2>1. H1(e) = H1(c)
    BY <1>1, <1>3 DEF H1
  <2>2. H1(c) \in Nat /\ H2(c) \in Nat /\ H2(e) \in Nat
    BY <1>3, <1>6, HypothesesType
  <2>3. H2(c) = B * Power(N, r) /\ H2(e) = B * Power(M, r)
    BY <1>1 DEF H2, b
  <2>4. B \in Nat /\ r \in Nat
    BY Weights
  <2> HIDE DEF F, N, M, r, s, B
  <2>5. /\ Power(N, r) \in Nat /\ Power(M, r) \in Nat
        /\ Power(N, r) <= Power(M, r)
    BY <1>2, <2>4, PowerType, PowerGrows
  <2>6. H2(c) <= H2(e)
    BY <2>3, <2>4, <2>5, ProductGrows
  <2> QED  BY <2>1, <2>2, <2>6
<1>7. d \in Nat
  BY Parameters
<1>8. /\ Verdict(c) = "ClosedLoop" <=> Weighable(c) /\ H1(c) > d * H2(c)
      /\ Verdict(c) = "NotClosedLoop" <=> Weighable(c) /\ d * H1(c) < H2(c)
      /\ Verdict(c) = "DuplicatesExceeded"
           <=> ~BelowMinimum(c) /\ F >= 1 /\ TooManyDuplicates(c)
      /\ Verdict(e) = "ClosedLoop" <=> Weighable(e) /\ H1(e) > d * H2(e)
      /\ Verdict(e) = "NotClosedLoop" <=> Weighable(e) /\ d * H1(e) < H2(e)
      /\ Verdict(e) = "DuplicatesExceeded"
           <=> ~BelowMinimum(e) /\ F >= 1 /\ TooManyDuplicates(e)
  BY <1>3, VerdictSays
<1>9. /\ Weighable(c) <=> ~BelowMinimum(c) /\ F >= 1 /\ ~TooManyDuplicates(c)
      /\ Weighable(e) <=> ~BelowMinimum(c) /\ F >= 1 /\ ~TooManyDuplicates(e)
  BY <1>3, <1>4 DEF Weighable
<1> HIDE DEF F, N, M, r, s, A, B, d
<1>10. F >= 1 => /\ H1(e) > d * H2(e) => H1(c) > d * H2(c)
                 /\ d * H1(c) < H2(c) => d * H1(e) < H2(e)
  <2> SUFFICES ASSUME F >= 1
               PROVE  /\ H1(e) > d * H2(e) => H1(c) > d * H2(c)
                      /\ d * H1(c) < H2(c) => d * H1(e) < H2(e)
    OBVIOUS
  <2> DEFINE x == H1(c)
             y == H2(c)
             z == H2(e)
  <2>1. H1(e) = x /\ x \in Nat /\ y \in Nat /\ z \in Nat /\ y <= z
    BY <1>6
  <2> HIDE DEF x, y, z
  <2>2. d * y <= d * z /\ d * y \in Nat /\ d * z \in Nat /\ d * x \in Nat
    BY <1>7, <2>1
  <2>3. (x > d * z => x > d * y) /\ (d * x < y => d * x < z)
    BY <2>1, <2>2
  <2> QED  BY <2>1, <2>3 DEF x, y, z
<1> QED  BY <1>4, <1>5, <1>8, <1>9, <1>10

-------------------------------------------------------------------------------
(***************************************************************************)
(* The specification.                                                      *)
(***************************************************************************)

LEMMA CountersSet ==
  ASSUME NEW c \in Counters, NEW i \in Nat, NEW j \in Nat, NEW k \in Nat
  PROVE  /\ [c EXCEPT !.droppablePkts = i, !.droppedPkts = j,
                      !.retransmittedDroppedPkts = k] \in Counters
         /\ [c EXCEPT !.droppablePkts = i, !.droppedPkts = j,
                      !.notSeenDroppedPkts = k] \in Counters
<1> DEFINE e == [c EXCEPT !.droppablePkts = i]
           f == [e EXCEPT !.droppedPkts = j]
<1>1. /\ [f EXCEPT !.retransmittedDroppedPkts = k]
           = [c EXCEPT !.droppablePkts = i, !.droppedPkts = j,
                       !.retransmittedDroppedPkts = k]
      /\ [f EXCEPT !.notSeenDroppedPkts = k]
           = [c EXCEPT !.droppablePkts = i, !.droppedPkts = j,
                       !.notSeenDroppedPkts = k]
  OBVIOUS
<1>2. e \in Counters
  BY DEF Counters
<1> HIDE DEF e
<1>3. f \in Counters
  BY <1>2 DEF Counters
<1> HIDE DEF f
<1>4. /\ [f EXCEPT !.retransmittedDroppedPkts = k] \in Counters
      /\ [f EXCEPT !.notSeenDroppedPkts = k] \in Counters
  BY <1>3 DEF Counters
<1> QED  BY <1>1, <1>4

\* Each step keeps the record one, and a drop is one drop more.
LEMMA RecordSteps ==
  ASSUME RecordOK
  PROVE  /\ [Next]_vars => RecordOK'
         /\ DropRetransmitted => OneMore(counters, counters', 1, 0)
         /\ DropNotSeen => OneMore(counters, counters', 0, 1)
<1>1. /\ counters.droppablePkts \in Nat
      /\ counters.droppedPkts \in Nat
      /\ counters.retransmittedDroppedPkts \in Nat
      /\ counters.notSeenDroppedPkts \in Nat
      /\ counters.duplicatePkts \in Nat
  BY DEF RecordOK, Counters
<1>2. Forward => RecordOK'
  BY <1>1 DEF Forward, RecordOK, Counters
<1>3. DropRetransmitted => RecordOK' /\ OneMore(counters, counters', 1, 0)
  <2>1. DropRetransmitted => RecordOK'
    <3> DEFINE i == counters.droppablePkts + 1
               j == counters.droppedPkts + 1
               k == counters.retransmittedDroppedPkts + 1
    <3>1. i \in Nat /\ j \in Nat /\ k \in Nat
      BY <1>1
    <3>2. DropRetransmitted
            => counters' = [counters EXCEPT !.droppablePkts = i,
                                            !.droppedPkts = j,
                                            !.retransmittedDroppedPkts = k]
      BY DEF DropRetransmitted
    <3> HIDE DEF i, j, k
    <3>3. [counters EXCEPT !.droppablePkts = i, !.droppedPkts = j,
                           !.retransmittedDroppedPkts = k] \in Counters
      BY <3>1, CountersSet DEF RecordOK
    <3> QED  BY <3>2, <3>3, Zenon DEF RecordOK
  <2>2. DropRetransmitted
          => /\ counters'.droppablePkts = counters.droppablePkts + 1
             /\ counters'.droppedPkts = counters.droppedPkts + 1
             /\ counters'.duplicatePkts = counters.duplicatePkts
             /\ counters'.retransmittedDroppedPkts
                  = counters.retransmittedDroppedPkts + 1
             /\ counters'.notSeenDroppedPkts = counters.notSeenDroppedPkts
    BY DEF DropRetransmitted, RecordOK, Counters
  <2> QED  BY <1>1, <2>1, <2>2 DEF RecordOK, OneMore
<1>4. DropNotSeen => RecordOK' /\ OneMore(counters, counters', 0, 1)
  <2>1. DropNotSeen => RecordOK'
    <3> DEFINE i == counters.droppablePkts + 1
               j == counters.droppedPkts + 1
               k == counters.notSeenDroppedPkts + 1
    <3>1. i \in Nat /\ j \in Nat /\ k \in Nat
      BY <1>1
    <3>2. DropNotSeen
            => counters' = [counters EXCEPT !.droppablePkts = i,
                                            !.droppedPkts = j,
                                            !.notSeenDroppedPkts = k]
      BY DEF DropNotSeen
    <3> HIDE DEF i, j, k
    <3>3. [counters EXCEPT !.droppablePkts = i, !.droppedPkts = j,
                           !.notSeenDroppedPkts = k] \in Counters
      BY <3>1, CountersSet DEF RecordOK
    <3> QED  BY <3>2, <3>3, Zenon DEF RecordOK
  <2>2. DropNotSeen
          => /\ counters'.droppablePkts = counters.droppablePkts + 1
             /\ counters'.droppedPkts = counters.droppedPkts + 1
             /\ counters'.duplicatePkts = counters.duplicatePkts
             /\ counters'.retransmittedDroppedPkts
                  = counters.retransmittedDroppedPkts
             /\ counters'.notSeenDroppedPkts = counters.notSeenDroppedPkts + 1
    BY DEF DropNotSeen, RecordOK, Counters
  <2> QED  BY <1>1, <2>1, <2>2 DEF RecordOK, OneMore
<1>5. Duplicate => RecordOK'
  BY <1>1 DEF Duplicate, RecordOK, Counters
<1>6. UNCHANGED vars => RecordOK'
  BY DEF vars, RecordOK
<1> QED  BY <1>2, <1>3, <1>4, <1>5, <1>6 DEF Next

\* The counters are counters (pennyCounters).
THEOREM RecordInvariance == Spec => []RecordOK
<1>1. Init => RecordOK
  BY DEF Init, RecordOK, NoCounters, Counters
<1>2. RecordOK /\ [Next]_vars => RecordOK'
  BY RecordSteps
<1> QED  BY <1>1, <1>2, PTL DEF Spec

\* No verdict without a witness of its kind, whatever the record
\* (evaluateHypotheses, evaluateAggrHypotheses).
THEOREM NoVerdictWithoutWitness == Spec => []VerdictNeedsWitness
<1>1. RecordOK => VerdictNeedsWitness
  BY WitnessNeeded DEF RecordOK, VerdictNeedsWitness
<1> QED  BY <1>1, RecordInvariance, PTL

\* A retransmission that is observed never speaks against closed-loop.
THEOREM RetransmissionsFavour == Spec => RetransmissionFavoursClosedLoop
<1> DEFINE A == /\ Verdict(counters) = "ClosedLoop"
                     => Verdict(counters') = "ClosedLoop"
                /\ Verdict(counters') = "NotClosedLoop"
                     => \/ Verdict(counters) = "NotClosedLoop"
                        \/ BelowMinimum(counters)
<1>1. RecordOK /\ [Next]_vars => [DropRetransmitted => A]_vars
  BY RecordSteps, RetransmissionStep
<1> QED  BY <1>1, RecordInvariance, PTL DEF Spec, RetransmissionFavoursClosedLoop

\* A drop that expires never speaks for it.
THEOREM SilenceFavours == Spec => SilenceFavoursNotClosedLoop
<1> DEFINE A == /\ Verdict(counters') = "ClosedLoop"
                     => Verdict(counters) = "ClosedLoop" \/ BelowMinimum(counters)
                /\ Verdict(counters) = "NotClosedLoop"
                     => Verdict(counters') = "NotClosedLoop"
<1>1. RecordOK /\ [Next]_vars => [DropNotSeen => A]_vars
  BY RecordSteps, SilenceStep
<1> QED  BY <1>1, RecordInvariance, PTL DEF Spec, SilenceFavoursNotClosedLoop

\* Nor does a duplicate.
THEOREM DuplicatesDoNotHelp == Spec => DuplicatesNeverHelp
<1> DEFINE A == /\ Verdict(counters') = "ClosedLoop"
                     => Verdict(counters) = "ClosedLoop"
                /\ Verdict(counters) = "NotClosedLoop"
                     => Verdict(counters') \in {"NotClosedLoop", "DuplicatesExceeded"}
                /\ Verdict(counters) = "DuplicatesExceeded"
                     => Verdict(counters') = "DuplicatesExceeded"
<1>1. ASSUME RecordOK, Next, Duplicate PROVE A
  <2>1. /\ counters \in Counters /\ counters' \in Counters
        /\ counters' = [counters EXCEPT !.duplicatePkts = @ + 1]
    BY <1>1, RecordSteps DEF RecordOK, Duplicate
  <2> QED  BY <2>1, DuplicateStep
<1>2. RecordOK /\ [Next]_vars => [Duplicate => A]_vars
  BY <1>1
<1> QED  BY <1>2, RecordInvariance, PTL DEF Spec, DuplicatesNeverHelp

-------------------------------------------------------------------------------
(***************************************************************************)
(* The figures, whose parameters are literals of the script.               *)
(***************************************************************************)

\* With the parameters of the script its rule is Penny's, less the minima.
LEMMA SameRule ==
  ASSUME NEW c \in Counters, MaxDuplicates = <<3, 20>>,
         NotObserveRetransmission = <<1, 20>>, DecisionOdds = 99,
         Verdict(c) # "NoDecision"
  PROVE  PlotVerdict(c) = Verdict(c)
<1> DEFINE F == FDupDenominator(c)
           N == FDupNumerator(c)
           r == c.retransmittedDroppedPkts
           s == c.notSeenDroppedPkts
           g == Power(F, r)
           h == Power(20, s) * Power(N, r)
<1>1. /\ N \in Nat /\ N > 0 /\ F \in Int /\ r \in Nat /\ s \in Nat
  BY Weights
<1>2. /\ ~BelowMinimum(c) /\ F >= 1
  BY <1>1 DEF Verdict
<1>3. TooManyDuplicates(c) <=> N * 20 > 3 * F
  BY DEF TooManyDuplicates
<1>4. H1(c) = g /\ H2(c) = h
  <2>1. a = 1 /\ b = 20
    BY DEF a, b
  <2>2. Power(1, s) = 1
    BY <1>1, PowerOfOne
  <2>3. H1(c) = Power(1, s) * g /\ H2(c) = h
    BY <2>1 DEF H1, H2, a, b
  <2>4. g \in Nat
    <3>1. F \in Nat /\ r \in Nat
      BY <1>1, <1>2
    <3> HIDE DEF F, r
    <3> QED  BY <3>1, PowerType
  <2> HIDE DEF g, h
  <2> QED  BY <2>2, <2>3, <2>4
<1>5. PlotVerdict(c)
        = CASE F <= 0 -> "NoDecision"
            [] F > 0 /\ N * 20 > 3 * F -> "DuplicatesExceeded"
            [] F > 0 /\ N * 20 <= 3 * F
                 -> CASE g > 99 * h -> "ClosedLoop"
                      [] 99 * g < h -> "NotClosedLoop"
                      [] OTHER      -> "NoDecision"
  BY DEF PlotVerdict, FDupDenominator, FDupNumerator
<1>6. Weigh(c) = CASE g > 99 * h -> "ClosedLoop"
                   [] 99 * g < h -> "NotClosedLoop"
                   [] OTHER      -> "NoDecision"
  BY <1>4 DEF Weigh
<1> HIDE DEF F, N, r, s, g, h
<1>7. CASE N * 20 > 3 * F
  <2>1. Verdict(c) = "DuplicatesExceeded"
    BY <1>2, <1>3, <1>7, VerdictSays DEF F
  <2>2. ~(F <= 0) /\ F > 0 /\ ~(N * 20 <= 3 * F)
    BY <1>1, <1>2, <1>7
  <2>3. PlotVerdict(c) = "DuplicatesExceeded"
    BY <1>5, <1>7, <2>2
  <2> QED  BY <2>1, <2>3
<1>8. CASE ~(N * 20 > 3 * F)
  <2>1. /\ ~(F <= 0) /\ F > 0 /\ N * 20 <= 3 * F
        /\ FDupDenominator(c) >= 1 /\ ~(FDupDenominator(c) < 1)
    BY <1>1, <1>2, <1>8 DEF F
  <2>2. PlotVerdict(c) = Weigh(c)
    BY <1>5, <1>6, <1>8, <2>1
  <2>3. Verdict(c) = Weigh(c)
    BY <1>2, <1>3, <1>8, <2>1 DEF Verdict
  <2> QED  BY <2>2, <2>3
<1> QED  BY <1>7, <1>8

\* pyscripts/plotAccuracy.py redraws no verdict otherwise than Penny gave it.
THEOREM FiguresAgree ==
  ASSUME MaxDuplicates = <<3, 20>>, NotObserveRetransmission = <<1, 20>>,
         DecisionOdds = 99
  PROVE  Spec => []FigureAgreesWithPenny
<1>1. RecordOK => FigureAgreesWithPenny
  BY SameRule DEF RecordOK, FigureAgreesWithPenny
<1> QED  BY <1>1, RecordInvariance, PTL
===============================================================================
