----------------------------- MODULE Theory_proofs -----------------------------
(***************************************************************************)
(* The analysis stays within its arrays, for any number of packets,        *)
(* duplicates and runs and whatever is dropped.                            *)
(***************************************************************************)
EXTENDS Theory, ArithmeticLemmas

\* A flow has sent a duplicate of each of its first dups packets.
SentTwice == origdupcount = IF n <= dups THEN n - 1 ELSE dups

IInv == TypeOK /\ SentTwice

LEMMA InitInv == Init => IInv
BY TheoryAssumption
   DEF Init, IInv, TypeOK, SentTwice, NoResults, Outcomes, Rows, Columns

\* An element of an array is counted up.
LEMMA CountUp ==
  ASSUME NEW table \in [Rows -> [Columns -> Nat]],
         NEW i \in Rows, NEW d \in Columns
  PROVE  [table EXCEPT ![i][d] = @ + 1] \in [Rows -> [Columns -> Nat]]
<1> HIDE DEF Rows, Columns
<1>1. table[i] \in [Columns -> Nat]
  OBVIOUS
<1>2. [table[i] EXCEPT ![d] = table[i][d] + 1] \in [Columns -> Nat]
  BY <1>1
<1>3. [table EXCEPT ![i][d] = @ + 1]
        = [table EXCEPT ![i] = [table[i] EXCEPT ![d] = table[i][d] + 1]]
  OBVIOUS
<1>. QED
  BY <1>2, <1>3

LEMMA PacketInv ==
  ASSUME IInv, run < Runs, NEW dropped \in BOOLEAN, Packet(dropped)
  PROVE  IInv'
<1> USE TheoryAssumption DEF IInv
<1>1. dupcount \in Nat /\ dropcount \in Nat /\ correctcount \in Nat
        /\ origdupcount \in Nat /\ MAX_DUPS \in Nat /\ MAX_N \in Nat
  BY DEF TypeOK, Columns
<1>2. SentTwice'
  BY <1>1 DEF TypeOK, SentTwice, Packet, Duplicated
<1>3. /\ run' \in 0..Runs /\ dups' \in 2..MAX_DUPS - 1 /\ n' \in 1..MAX_N
      /\ origdupcount' \in Columns
  BY <1>1, <1>2 DEF TypeOK, SentTwice, Packet, Columns
<1>4. /\ dupcount' + correctcount' = origdupcount'
      /\ dupcount' \in Columns /\ correctcount' \in 0..dropcount' /\ dropcount' \in 0..n' - 1
  BY <1>1, <1>3 DEF TypeOK, Packet, Duplicated, Columns
<1>5. n \in Rows
  BY <1>1 DEF TypeOK, Packet, Rows
<1>6. totalresults' \in [Rows -> [Columns -> Nat]]
  BY <1>4, <1>5, CountUp DEF TypeOK, Packet, CountTotal
<1>7. results' \in [Outcomes -> [Rows -> [Columns -> Nat]]]
  <2>1. CASE n < dups
    BY <2>1 DEF TypeOK, Packet
  <2>2. CASE ~(n < dups)
    <3> DEFINE o == Outcome(dropped)
    <3>1. o \in Outcomes
      BY DEF Outcome, Outcomes
    <3>2. results[o] \in [Rows -> [Columns -> Nat]]
      BY <3>1 DEF TypeOK
    <3>3. [results[o] EXCEPT ![n][origdupcount'] = @ + 1]
            \in [Rows -> [Columns -> Nat]]
      BY <3>2, <1>3, <1>5, CountUp
    <3>4. results' = [results EXCEPT ![o] =
                        [results[o] EXCEPT ![n][origdupcount'] = @ + 1]]
      BY <2>2 DEF Packet, CountOutcome, Column
    <3> HIDE DEF o
    <3>. QED
      BY <3>1, <3>3, <3>4 DEF TypeOK
  <2>. QED
    BY <2>1, <2>2
<1>. QED
  BY <1>2, <1>3, <1>4, <1>6, <1>7 DEF TypeOK

LEMMA NextFlowInv ==
  ASSUME IInv, NextFlow
  PROVE  IInv'
BY TheoryAssumption DEF IInv, TypeOK, SentTwice, NextFlow, Columns

LEMMA NextInv == IInv /\ [Next]_vars => IInv'
<1>1. ASSUME IInv, UNCHANGED vars
      PROVE  IInv'
  BY <1>1 DEF IInv, TypeOK, SentTwice, vars, flow
<1>. QED
  BY <1>1, PacketInv, NextFlowInv DEF Next

(***************************************************************************)
(* The assertion origdupcount < MAX_DUPS of the code holds, no array is    *)
(* indexed out of its bounds, also not by the other count of duplicates,   *)
(* and the counts are never negative.                                      *)
(***************************************************************************)
THEOREM StaysInBounds == Spec => []TypeOK
<1>1. IInv => TypeOK
  BY DEF IInv
<1>. QED
  BY <1>1, InitInv, NextInv, PTL DEF Spec

-------------------------------------------------------------------------------
(***************************************************************************)
(* The outcomes, added up.                                                 *)
(***************************************************************************)
\* What the outcomes in table at row i and column d add up to.
AllAt(table, i, d) == SumFunction([o \in Outcomes |-> table[o][i][d]])

\* Tables of outcomes.
Tables == [Outcomes -> [Rows -> [Columns -> Nat]]]

LEMMA FiniteTables == IsFiniteSet(Outcomes) /\ IsFiniteSet(Columns)
<1>1. IsFiniteSet(Outcomes)
  <2>1. Outcomes = ((({} \cup {"max_dups"}) \cup {"bidir"})
                      \cup {"non_bidir"}) \cup {"undecided"}
    BY DEF Outcomes
  <2>2. IsFiniteSet(({} \cup {"max_dups"}) \cup {"bidir"})
    BY FS_EmptySet, FS_AddElement
  <2> QED  BY <2>1, <2>2, FS_AddElement
<1>2. IsFiniteSet(Columns)
  BY TheoryAssumption, FS_Interval DEF Columns
<1> QED  BY <1>1, <1>2

\* A sum of naturals over S.
LEMMA SumIsNat ==
  ASSUME NEW S, IsFiniteSet(S), NEW v \in [S -> Nat]
  PROVE  SumFunction(v) = SumFunctionOnSet(v, S) /\ SumFunction(v) \in Nat
<1>1. SumFunction(v) = SumFunctionOnSet(v, S)
  <2>1. DOMAIN v = S
    OBVIOUS
  <2> QED  BY <2>1, Zenon DEF SumFunction, FoldFunction, SumFunctionOnSet
<1> QED  BY <1>1, SumOfNaturals

\* One element counted up counts the sum up.
LEMMA SumCountsUp ==
  ASSUME NEW S, IsFiniteSet(S), NEW v \in [S -> Nat], NEW w \in [S -> Nat],
         NEW x \in S, w[x] = v[x] + 1, \A y \in S \ {x} : w[y] = v[y]
  PROVE  SumFunction(w) = SumFunction(v) + 1
<1> DEFINE sv == SumFunctionOnSet(v, S)
           sw == SumFunctionOnSet(w, S)
<1>1. ChangesAt(S, v, w, x)
  BY DEF ChangesAt
<1>2. sw = sv - v[x] + w[x]
  BY <1>1, SumChanges
<1>3. /\ SumFunction(v) = sv /\ sv \in Nat
      /\ SumFunction(w) = sw
  BY SumIsNat
<1> HIDE DEF sv, sw
<1> QED  BY <1>2, <1>3

\* An outcome counted up counts up what there is at its row and column only.
CountedAt(table, new, i, d) ==
  \A j \in Rows, e \in Columns :
    /\ AllAt(table, j, e) \in Nat
    /\ AllAt(new, j, e) = IF j = i /\ e = d THEN AllAt(table, j, e) + 1
                                           ELSE AllAt(table, j, e)

CountsUpAt(table, new, o, i, d) == new = [table EXCEPT ![o][i][d] = @ + 1]

LEMMA AllCountsUp ==
  ASSUME NEW table \in Tables, NEW new \in Tables,
         NEW o \in Outcomes, NEW i \in Rows, NEW d \in Columns,
         CountsUpAt(table, new, o, i, d)
  PROVE  CountedAt(table, new, i, d)
<1> HIDE DEF Rows, Columns
<1> USE DEF CountsUpAt
<1>1. ASSUME NEW q \in Outcomes, NEW j \in Rows, NEW e \in Columns
      PROVE  /\ table[q][j][e] \in Nat
             /\ new[q][j][e] \in Nat
             /\ new[q][j][e] = IF q = o /\ j = i /\ e = d
                                 THEN table[q][j][e] + 1
                                 ELSE table[q][j][e]
  <2>1. /\ table[q] \in [Rows -> [Columns -> Nat]]
        /\ new[q] \in [Rows -> [Columns -> Nat]]
        /\ table[o] \in [Rows -> [Columns -> Nat]]
    BY DEF Tables
  <2>2. /\ table[q][j] \in [Columns -> Nat]
        /\ new[q][j] \in [Columns -> Nat]
        /\ table[o][i] \in [Columns -> Nat]
    BY <2>1
  <2>3. new[q] = IF q = o
                   THEN [table[q] EXCEPT ![i] =
                           [table[q][i] EXCEPT ![d] = table[q][i][d] + 1]]
                   ELSE table[q]
    BY DEF Tables
  <2>4. new[q][j] = IF q = o /\ j = i
                      THEN [table[q][j] EXCEPT ![d] = table[q][j][d] + 1]
                      ELSE table[q][j]
    BY <2>1, <2>3
  <2> QED  BY <2>2, <2>4
<1> DEFINE v(j, e) == [q \in Outcomes |-> table[q][j][e]]
           w(j, e) == [q \in Outcomes |-> new[q][j][e]]
<1>2. ASSUME NEW j \in Rows, NEW e \in Columns
      PROVE  /\ v(j, e) \in [Outcomes -> Nat]
             /\ w(j, e) \in [Outcomes -> Nat]
             /\ AllAt(table, j, e) = SumFunction(v(j, e))
             /\ AllAt(new, j, e) = SumFunction(w(j, e))
             /\ AllAt(table, j, e) \in Nat
  <2>1. v(j, e) \in [Outcomes -> Nat] /\ w(j, e) \in [Outcomes -> Nat]
    BY <1>1
  <2>2. SumFunction(v(j, e)) \in Nat
    BY <2>1, FiniteTables, SumIsNat
  <2> QED  BY <2>1, <2>2 DEF AllAt
<1>3. SumFunction(w(i, d)) = SumFunction(v(i, d)) + 1
  <2>1. /\ w(i, d)[o] = v(i, d)[o] + 1
        /\ \A q \in Outcomes \ {o} : w(i, d)[q] = v(i, d)[q]
    BY <1>1
  <2>2. v(i, d) \in [Outcomes -> Nat] /\ w(i, d) \in [Outcomes -> Nat]
    BY <1>2
  <2> HIDE DEF v, w
  <2> QED  BY <2>1, <2>2, FiniteTables, SumCountsUp
<1>4. ASSUME NEW j \in Rows, NEW e \in Columns, j # i \/ e # d
      PROVE  w(j, e) = v(j, e)
  BY <1>1, <1>4
<1> HIDE DEF v, w
<1> QED  BY <1>2, <1>3, <1>4 DEF CountedAt

-------------------------------------------------------------------------------
(***************************************************************************)
(* Each flow of the analysis leaves an outcome and counts once in the      *)
(* totals, for each number of packets from its number of duplicates on.    *)
(***************************************************************************)
RInv == IInv /\ RowsAgree /\ OneOutcomePerFlow

\* What an iteration over n counts.
LEMMA PacketCounts ==
  ASSUME IInv, run < Runs, NEW dropped \in BOOLEAN, Packet(dropped)
  PROVE  \/ n < dups /\ UNCHANGED <<results, totalresults>>
         \/ /\ n >= dups /\ n \in Rows /\ dups \in Columns
            /\ dupcount' \in Columns
            /\ totalresults' = [totalresults EXCEPT ![n][dupcount'] = @ + 1]
            /\ \E o \in Outcomes :
                 results' = [results EXCEPT ![o][n][dups] = @ + 1]
<1>1. /\ n \in Rows /\ dups \in Columns /\ n \in Int /\ dups \in Int
      /\ n < MAX_N
  BY TheoryAssumption DEF IInv, TypeOK, Packet, Rows, Columns
<1>2. CASE n < dups
  BY <1>2 DEF Packet
<1>3. CASE ~(n < dups)
  <2>1. Column = dups
    BY <1>1, <1>3 DEF IInv, SentTwice, TypeOK, Packet, Duplicated, Column
  <2>2. Outcome(dropped) \in Outcomes
    BY DEF Outcome, Outcomes
  <2>3. /\ totalresults' = CountTotal(dropped)
        /\ results' = CountOutcome(dropped)
    BY <1>3 DEF Packet
  <2>4. dupcount' \in Columns
    BY PacketInv DEF IInv, TypeOK
  <2>5. results' = [results EXCEPT ![Outcome(dropped)][n][dups] = @ + 1]
    BY <2>1, <2>3 DEF CountOutcome
  <2>6. n >= dups
    BY <1>1, <1>3
  <2> QED  BY <1>1, <2>2, <2>3, <2>4, <2>5, <2>6 DEF CountTotal
<1> QED  BY <1>2, <1>3

\* What is at a row and column after an iteration that counts.
LEMMA OutcomesCounted ==
  ASSUME IInv, run < Runs, NEW dropped \in BOOLEAN, Packet(dropped), n >= dups
  PROVE  \A i \in Rows, d \in Columns :
           /\ OutcomesAt(i, d) \in Nat
           /\ OutcomesAt(i, d)' = IF i = n /\ d = dups
                                    THEN OutcomesAt(i, d) + 1
                                    ELSE OutcomesAt(i, d)
<1>1. n \in Int /\ dups \in Int /\ ~(n < dups)
  BY TheoryAssumption DEF IInv, TypeOK
<1>2. /\ n \in Rows /\ dups \in Columns
      /\ \E o \in Outcomes : results' = [results EXCEPT ![o][n][dups] = @ + 1]
  BY <1>1, PacketCounts
<1>3. PICK o \in Outcomes : results' = [results EXCEPT ![o][n][dups] = @ + 1]
  BY <1>2
<1>4. results \in Tables /\ results' \in Tables
  BY PacketInv DEF IInv, TypeOK, Tables
<1>5. CountsUpAt(results, results', o, n, dups)
  BY <1>3 DEF CountsUpAt
<1>6. CountedAt(results, results', n, dups)
  BY <1>2, <1>4, <1>5, AllCountsUp
<1>7. \A i, d : /\ OutcomesAt(i, d) = AllAt(results, i, d)
                /\ OutcomesAt(i, d)' = AllAt(results', i, d)
  BY Zenon DEF OutcomesAt, AllAt
<1> QED  BY <1>6, <1>7 DEF CountedAt

\* At the start nothing is counted.
LEMMA InitRows == Init => RInv
<1> SUFFICES ASSUME Init PROVE RInv
  OBVIOUS
<1>1. IInv
  BY InitInv
<1>2. ASSUME NEW i \in Rows, NEW d \in Columns PROVE OutcomesAt(i, d) = 0
  <2> DEFINE v == [o \in Outcomes |-> results[o][i][d]]
  <2>1. v = [o \in Outcomes |-> 0]
    BY DEF Init, NoResults
  <2>2. v \in [Outcomes -> Nat] /\ \A o \in Outcomes : v[o] = 0
    BY <2>1
  <2> HIDE DEF v
  <2>3. SumFunction(v) = 0
    BY <2>2, FiniteTables, SumIsNat, SumOfZeros
  <2> QED  BY <2>3 DEF OutcomesAt, v
<1>3. OneOutcomePerFlow
  <2>1. ASSUME NEW i \in Rows, NEW d \in Columns
        PROVE  ~HasPassed(i, d) \/ d < 2
    <3>1. i \in Int /\ i >= 1 /\ d \in Int
      BY TheoryAssumption DEF Rows, Columns
    <3> QED  BY <3>1 DEF HasPassed, Init
  <2>2. run = 0
    BY DEF Init
  <2>3. \A d \in Columns, i \in Rows :
          d \in 2..i => ~(d < 2 \/ i < d)
    BY TheoryAssumption DEF Rows, Columns
  <2> QED  BY <1>2, <2>1, <2>2, <2>3 DEF OneOutcomePerFlow
<1>4. RowsAgree
  <2> SUFFICES ASSUME NEW i \in Rows
               PROVE  SumFunction(totalresults[i])
                        = SumFunction([d \in Columns |-> OutcomesAt(i, d)])
    BY DEF RowsAgree
  <2>1. totalresults[i] = [d \in Columns |-> 0]
    BY DEF Init, NoResults
  <2>2. [d \in Columns |-> OutcomesAt(i, d)] = [d \in Columns |-> 0]
    BY <1>2
  <2> QED  BY <2>1, <2>2
<1> QED  BY <1>1, <1>3, <1>4 DEF RInv

\* A packet is counted in its row of the outcomes and of the totals.
LEMMA PacketRows ==
  ASSUME RInv, run < Runs, NEW dropped \in BOOLEAN, Packet(dropped)
  PROVE  RowsAgree'
<1>1. IInv /\ RowsAgree
  BY DEF RInv
<1>2. CASE n < dups
  <2>1. UNCHANGED <<results, totalresults>>
    BY <1>2 DEF Packet
  <2> QED  BY <1>1, <2>1 DEF RowsAgree, OutcomesAt
<1>3. CASE n >= dups
  <2>1. n \in Int /\ dups \in Int /\ ~(n < dups)
    BY <1>1, <1>3, TheoryAssumption DEF IInv, TypeOK
  <2>2. /\ n \in Rows /\ dups \in Columns /\ dupcount' \in Columns
        /\ totalresults' = [totalresults EXCEPT ![n][dupcount'] = @ + 1]
        /\ totalresults \in [Rows -> [Columns -> Nat]]
        /\ totalresults' \in [Rows -> [Columns -> Nat]]
    BY <1>1, <2>1, PacketCounts, PacketInv DEF IInv, TypeOK
  <2>3. \A i \in Rows, d \in Columns :
          /\ OutcomesAt(i, d) \in Nat
          /\ OutcomesAt(i, d)' = IF i = n /\ d = dups
                                   THEN OutcomesAt(i, d) + 1
                                   ELSE OutcomesAt(i, d)
    BY <1>1, <1>3, OutcomesCounted
  <2> HIDE DEF Rows, Columns
  <2> SUFFICES ASSUME NEW i \in Rows
               PROVE  SumFunction(totalresults'[i])
                        = SumFunction([d \in Columns |-> OutcomesAt(i, d)'])
    BY DEF RowsAgree
  <2> DEFINE v == totalresults[i]
             w == totalresults'[i]
             x == [d \in Columns |-> OutcomesAt(i, d)]
             y == [d \in Columns |-> OutcomesAt(i, d)']
             column == dupcount'
  <2>4. SumFunction(v) = SumFunction(x)
    BY <1>1 DEF RowsAgree
  <2>5. CASE i # n
    <3>1. w = v
      BY <2>2, <2>5
    <3>2. y = x
      BY <2>3, <2>5
    <3> QED  BY <2>4, <3>1, <3>2
  <2>6. CASE i = n
    <3>1. /\ v \in [Columns -> Nat] /\ w \in [Columns -> Nat]
          /\ column \in Columns
          /\ w[column] = v[column] + 1
          /\ \A d \in Columns \ {column} : w[d] = v[d]
      BY <2>2, <2>6
    <3>2. /\ x \in [Columns -> Nat] /\ y \in [Columns -> Nat]
          /\ y[dups] = x[dups] + 1
          /\ \A d \in Columns \ {dups} : y[d] = x[d]
      <4>1. \A d \in Columns : OutcomesAt(i, d)' =
              IF d = dups THEN OutcomesAt(i, d) + 1 ELSE OutcomesAt(i, d)
        BY <2>3, <2>6
      <4>2. \A d \in Columns : OutcomesAt(i, d) \in Nat
        BY <2>3
      <4> QED  BY <2>2, <4>1, <4>2
    <3> HIDE DEF v, w, x, y, column
    <3>3. SumFunction(w) = SumFunction(v) + 1
      BY <3>1, FiniteTables, SumCountsUp
    <3>4. SumFunction(y) = SumFunction(x) + 1
      BY <2>2, <3>2, FiniteTables, SumCountsUp
    <3> QED  BY <2>4, <3>3, <3>4 DEF w, y
  <2> QED  BY <2>5, <2>6
<1>4. n \in Int /\ dups \in Int
  BY <1>1, TheoryAssumption DEF IInv, TypeOK
<1> QED  BY <1>2, <1>3, <1>4

\* A packet gives its flow the outcome of the row, from row dups on.
LEMMA PacketOutcome ==
  ASSUME RInv, run < Runs, NEW dropped \in BOOLEAN, Packet(dropped)
  PROVE  OneOutcomePerFlow'
<1>1. /\ IInv /\ OneOutcomePerFlow
      /\ n \in Int /\ dups \in Int /\ run \in Int /\ dups >= 2
      /\ n' = n + 1 /\ dups' = dups /\ run' = run
  BY TheoryAssumption DEF RInv, IInv, TypeOK, Packet
<1>2. \A i \in Rows, d \in Columns : i \in Int /\ d \in Int
  BY TheoryAssumption DEF Rows, Columns
<1> HIDE DEF Rows, Columns
<1> SUFFICES ASSUME NEW i \in Rows, NEW d \in Columns
             PROVE  OutcomesAt(i, d)'
                      = CASE d < 2 \/ i < d -> 0
                          [] d \in 2..i /\ HasPassed(i, d)' -> run' + 1
                          [] OTHER -> run'
  BY DEF OneOutcomePerFlow
<1>3. OutcomesAt(i, d) = CASE d < 2 \/ i < d -> 0
                           [] d \in 2..i /\ HasPassed(i, d) -> run + 1
                           [] OTHER -> run
  BY <1>1 DEF OneOutcomePerFlow
<1>4. HasPassed(i, d)' <=> HasPassed(i, d) \/ (d = dups /\ i = n)
  BY <1>1, <1>2 DEF HasPassed
<1>5. CASE n < dups
  <2>1. OutcomesAt(i, d)' = OutcomesAt(i, d)
    BY <1>5 DEF Packet, OutcomesAt
  <2> QED  BY <1>1, <1>2, <1>3, <1>4, <1>5, <2>1
<1>6. CASE n >= dups
  <2>1. /\ OutcomesAt(i, d) \in Nat
        /\ OutcomesAt(i, d)' = IF i = n /\ d = dups
                                 THEN OutcomesAt(i, d) + 1
                                 ELSE OutcomesAt(i, d)
    BY <1>1, <1>6, OutcomesCounted
  <2>2. CASE i # n \/ d # dups
    BY <1>1, <1>3, <1>4, <2>1, <2>2
  <2>3. CASE i = n /\ d = dups
    <3>1. ~HasPassed(i, d)
      BY <1>1, <2>3 DEF HasPassed
    <3>2. OutcomesAt(i, d) = run
      BY <1>1, <1>3, <1>6, <2>3, <3>1
    <3>3. OutcomesAt(i, d)' = run + 1
      BY <2>1, <2>3, <3>2
    <3> QED  BY <1>1, <1>2, <1>4, <1>6, <2>3, <3>3
  <2> QED  BY <2>2, <2>3
<1> QED  BY <1>1, <1>5, <1>6

\* The next flow counts nothing: the flows that have passed stay the same.
LEMMA NextFlowRows ==
  ASSUME RInv, NextFlow
  PROVE  RowsAgree' /\ OneOutcomePerFlow'
<1>1. UNCHANGED <<results, totalresults>>
  BY DEF NextFlow
<1>2. RowsAgree'
  BY <1>1 DEF RInv, RowsAgree, OutcomesAt
<1>3. /\ OneOutcomePerFlow
      /\ n = MAX_N /\ n' = 1 /\ run \in Int /\ dups \in 2..MAX_DUPS - 1
      /\ MAX_N \in Nat /\ MAX_DUPS \in Nat
      /\ \/ dups + 1 < MAX_DUPS /\ dups' = dups + 1 /\ run' = run
         \/ dups + 1 >= MAX_DUPS /\ dups' = 2 /\ run' = run + 1
  BY TheoryAssumption DEF RInv, IInv, TypeOK, NextFlow
<1>4. ASSUME NEW i \in Rows, NEW d \in Columns
      PROVE  OutcomesAt(i, d)'
               = CASE d < 2 \/ i < d -> 0
                   [] d \in 2..i /\ HasPassed(i, d)' -> run' + 1
                   [] OTHER -> run'
  <2>1. OutcomesAt(i, d)' = OutcomesAt(i, d)
    BY <1>1 DEF OutcomesAt
  <2>2. OutcomesAt(i, d) = CASE d < 2 \/ i < d -> 0
                             [] d \in 2..i /\ HasPassed(i, d) -> run + 1
                             [] OTHER -> run
    BY <1>3 DEF OneOutcomePerFlow
  <2>3. i \in 1..MAX_N - 1 /\ d \in 0..MAX_DUPS - 1
    BY DEF Rows, Columns
  <2>4. HasPassed(i, d) <=> d <= dups
    BY <1>3, <2>3 DEF HasPassed
  <2>5. HasPassed(i, d)' <=> d < dups'
    BY <1>3, <2>3 DEF HasPassed
  <2>6. CASE dups + 1 < MAX_DUPS /\ dups' = dups + 1 /\ run' = run
    <3>1. HasPassed(i, d)' <=> HasPassed(i, d)
      BY <1>3, <2>3, <2>4, <2>5, <2>6
    <3> QED  BY <2>1, <2>2, <2>6, <3>1
  <2>7. CASE dups + 1 >= MAX_DUPS /\ dups' = 2 /\ run' = run + 1
    <3>1. HasPassed(i, d)
      BY <1>3, <2>3, <2>4, <2>7
    <3>2. d >= 2 => ~HasPassed(i, d)'
      BY <1>3, <2>3, <2>5, <2>7
    <3> QED  BY <1>3, <2>1, <2>2, <2>3, <2>7, <3>1, <3>2
  <2> QED  BY <1>3, <2>6, <2>7
<1>5. OneOutcomePerFlow'
  BY <1>4 DEF OneOutcomePerFlow
<1> QED  BY <1>2, <1>5

LEMMA NextRows == RInv /\ [Next]_vars => RInv'
<1>1. ASSUME RInv, UNCHANGED vars PROVE RowsAgree' /\ OneOutcomePerFlow'
  BY <1>1 DEF RInv, RowsAgree, OneOutcomePerFlow, OutcomesAt, HasPassed, vars
<1> QED  BY <1>1, NextInv, PacketRows, PacketOutcome, NextFlowRows
            DEF RInv, Next

THEOREM RowsInvariance == Spec => []RInv
  BY InitRows, NextRows, PTL DEF Spec

\* Over all numbers of duplicates as many outcomes as totals are counted for n
\* packets, however the two are filed: no flow is left out of one of them.
THEOREM TotalsMatchOutcomes == Spec => []RowsAgree
<1>1. RInv => RowsAgree
  BY DEF RInv
<1> QED  BY <1>1, RowsInvariance, PTL

\* Each run leaves exactly one outcome in each row from dups on of the column
\* of its number of duplicates, whatever was dropped.
THEOREM OutcomePerFlow == Spec => []OneOutcomePerFlow
<1>1. RInv => OneOutcomePerFlow
  BY DEF RInv
<1> QED  BY <1>1, RowsInvariance, PTL

-------------------------------------------------------------------------------
(***************************************************************************)
(* What the analysis files beside what Penny would say.                    *)
(***************************************************************************)

\* A packet is dropped, or seen again, or neither.
PInv == IInv /\ dupcount + dropcount <= n - 1

LEMMA InitPackets == Init => PInv
<1>1. Init => dupcount + dropcount <= n - 1
  BY DEF Init
<1> QED  BY <1>1, InitInv DEF PInv

LEMMA NextPackets == PInv /\ [Next]_vars => PInv'
<1>1. ASSUME PInv, NEW dropped \in BOOLEAN, Packet(dropped)
      PROVE  (dupcount + dropcount <= n - 1)'
  BY <1>1, TheoryAssumption DEF PInv, IInv, TypeOK, Packet, Columns
<1>2. ASSUME PInv, NextFlow PROVE (dupcount + dropcount <= n - 1)'
  BY <1>2 DEF NextFlow
<1>3. ASSUME PInv, UNCHANGED vars PROVE (dupcount + dropcount <= n - 1)'
  BY <1>3 DEF PInv, vars, flow
<1> QED  BY <1>1, <1>2, <1>3, NextInv DEF PInv, Next

LEMMA Parameters ==
  /\ MAX_DUP_THRESH[1] \in Nat /\ MAX_DUP_THRESH[2] \in Nat
  /\ NotLegitSrc[1] \in Nat /\ NotLegitSrc[2] \in Nat
  /\ DecisionOdds \in Nat /\ DecisionOdds > 0
BY TheoryAssumption DEF Penny!HypothesesAssumption, Penny!IsRatio

\* An outcome that is filed is the one of its flow.
LEMMA FilesOutcome ==
  ASSUME IInv, run < Runs, NEW dropped \in BOOLEAN, Packet(dropped),
         n >= dups, NEW o \in Outcomes
  PROVE  Files(o) <=> o = Outcome(dropped)
<1>1. n \in Int /\ dups \in Int /\ ~(n < dups)
  BY TheoryAssumption DEF IInv, TypeOK
<1>2. n \in Rows /\ Column \in Columns
  <2>1. n \in Rows
    BY <1>1, PacketCounts
  <2>2. Column \in Columns
    BY PacketInv DEF IInv, TypeOK, Column
  <2> QED  BY <2>1, <2>2
<1> DEFINE q == Outcome(dropped)
           c == Column
<1>3. q \in Outcomes
  BY DEF Outcome, Outcomes
<1>4. results' = [results EXCEPT ![q][n][c] = @ + 1]
  BY <1>1 DEF Packet, CountOutcome
<1>5. /\ results \in [Outcomes -> [Rows -> [Columns -> Nat]]]
      /\ c \in Columns
  BY <1>2 DEF IInv, TypeOK
<1> HIDE DEF q, c
<1>6. results[q] \in [Rows -> [Columns -> Nat]]
  BY <1>3, <1>5
<1> HIDE DEF Rows, Columns
<1>7. results[q][n] \in [Columns -> Nat] /\ results[q][n][c] \in Nat
  BY <1>2, <1>5, <1>6
<1>8. o # q => results'[o] = results[o]
  BY <1>3, <1>4, <1>5
<1>9. results'[q][n][c] = results[q][n][c] + 1
  BY <1>2, <1>3, <1>4, <1>5, <1>6, <1>7
<1>10. results'[q] # results[q]
  BY <1>7, <1>9
<1> QED  BY <1>8, <1>10 DEF Files, q

\* The record that Penny would have after a packet.
NextEvidence ==
  [ droppablePkts            |-> n' - 1,
    droppedPkts              |-> dropcount',
    retransmittedDroppedPkts |-> correctcount',
    notSeenDroppedPkts       |-> NotSeen,
    duplicatePkts            |-> dupcount',
    pendingDroppedPkts       |-> 0 ]

LetThrough == n - dropcount'

Duplicates == IF dupcount' = 0 THEN 1 ELSE dupcount'

\* What Penny computes of it: the rate of duplicates and the hypotheses.
PennyH1 == Power(NotLegitSrc[1], NotSeen) * Power(LetThrough, correctcount')

PennyTooMany ==
  Duplicates * MAX_DUP_THRESH[2] > MAX_DUP_THRESH[1] * LetThrough

LEMMA PennyComputes ==
  ASSUME PInv, NEW dropped \in BOOLEAN, Packet(dropped)
  PROVE  /\ Penny!Verdict(Evidence)' = Penny!Verdict(NextEvidence)
         /\ ~Penny!BelowMinimum(NextEvidence)
         /\ Penny!FDupDenominator(NextEvidence) = LetThrough
         /\ Penny!TooManyDuplicates(NextEvidence) <=> PennyTooMany
         /\ Penny!H1(NextEvidence) = PennyH1
         /\ Penny!H2(NextEvidence) = h2
<1>1. n' - 1 = n
  BY TheoryAssumption DEF PInv, IInv, TypeOK, Packet
<1>2. Penny!Verdict(Evidence)' = Penny!Verdict(NextEvidence)
  <2>1. Evidence' = NextEvidence
    BY DEF Evidence, NextEvidence, NotSeen
  <2> QED  BY <2>1, Zenon
<1>3. ~Penny!BelowMinimum(NextEvidence)
  BY DEF Penny!BelowMinimum
<1>4. /\ Penny!FDupDenominator(NextEvidence) = LetThrough
      /\ Penny!FDupNumerator(NextEvidence) = Duplicates
  BY <1>1 DEF Penny!FDupDenominator, Penny!FDupNumerator, NextEvidence,
              LetThrough, Duplicates
<1>5. Penny!TooManyDuplicates(NextEvidence) <=> PennyTooMany
  BY <1>4 DEF Penny!TooManyDuplicates, PennyTooMany
<1>6. \A b, k : Penny!Power(b, k) = Power(b, k)
  BY DEF Penny!Power, Power, Penny!PowersOf, PowersOf
<1>7. Penny!H1(NextEvidence) = PennyH1
  BY <1>4, <1>6 DEF Penny!H1, PennyH1, NextEvidence
<1>8. Penny!H2(NextEvidence) = h2
  BY <1>4, <1>6 DEF Penny!H2, h2, NextEvidence, Duplicates
<1> QED  BY <1>2, <1>3, <1>4, <1>5, <1>7, <1>8

\* The counts after a packet.
LEMMA CountsAfter ==
  ASSUME PInv, run < Runs, NEW dropped \in BOOLEAN, Packet(dropped)
  PROVE  /\ n \in Nat /\ n > 0
         /\ dropcount' \in Nat /\ correctcount' \in Nat /\ NotSeen \in Nat
         /\ dupcount' \in Nat /\ dupcount' <= LetThrough
         /\ LetThrough \in Nat /\ LetThrough <= n
         /\ LetThrough <= n - (IF dropped THEN 1 ELSE 0)
<1>1. PInv'
  BY NextPackets DEF Next
<1>2. /\ n \in Nat /\ n > 0 /\ n' = n + 1
      /\ dropcount \in Nat
      /\ dropcount' = dropcount + (IF dropped THEN 1 ELSE 0)
  BY TheoryAssumption DEF PInv, IInv, TypeOK, Packet
<1>3. /\ dropcount' \in Nat
      /\ correctcount' \in 0..dropcount'
      /\ dupcount' \in Nat
      /\ dupcount' + dropcount' <= n' - 1
      /\ dropcount' \in 0..n' - 1
  BY <1>1, <1>2, TheoryAssumption DEF PInv, IInv, TypeOK, Columns
<1>4. /\ LetThrough = n - dropcount'
      /\ NotSeen = dropcount' - correctcount'
  BY DEF LetThrough, NotSeen
<1> DEFINE F == LetThrough
           e == dropcount'
           k == correctcount'
           u == dupcount'
           j == IF dropped THEN 1 ELSE 0
<1>5. /\ n \in Nat /\ e \in 0..n /\ k \in 0..e /\ u \in Nat /\ u + e <= n
      /\ e >= j /\ j \in Nat /\ F = n - e /\ NotSeen = e - k
  <2>1. n' - 1 = n
    BY <1>2
  <2>2. e \in 0..n /\ u + e <= n
    BY <1>3, <2>1
  <2>3. e >= j /\ j \in Nat
    BY <1>2
  <2> QED  BY <1>2, <1>3, <1>4, <2>2, <2>3
<1> HIDE DEF F, e, k, u, j
<1>6. /\ NotSeen \in Nat /\ u <= F /\ F \in Nat /\ F <= n /\ F <= n - j
  BY <1>5
<1> QED  BY <1>2, <1>3, <1>6 DEF F, u, j

\* The analysis weighs genuine traffic no less than Penny does.
LEMMA WeightsCompared ==
  ASSUME PInv, run < Runs, NEW dropped \in BOOLEAN, Packet(dropped)
  PROVE  /\ h1 \in Nat /\ h2 \in Nat /\ PennyH1 \in Nat
         /\ PennyH1 <= h1
<1> DEFINE F == LetThrough
           k == correctcount'
           A == Power(NotLegitSrc[1], NotSeen)
           B == Power(NotLegitSrc[2], NotSeen)
           M == Duplicates
<1>1. /\ n \in Nat /\ k \in Nat /\ NotSeen \in Nat /\ dupcount' \in Nat
      /\ F \in Nat /\ F <= n
  BY CountsAfter
<1>2. M \in Nat
  BY <1>1 DEF Duplicates
<1>3. A \in Nat /\ B \in Nat
  BY <1>1, Parameters, PowerType
<1>4. h1 = A * Power(n, k) /\ h2 = B * Power(M, k) /\ PennyH1 = A * Power(F, k)
  BY DEF h1, h2, PennyH1, Duplicates
<1> HIDE DEF F, k, A, B, M
<1>5. Power(n, k) \in Nat /\ Power(F, k) \in Nat /\ Power(M, k) \in Nat
  BY <1>1, <1>2, PowerType
<1>6. Power(F, k) <= Power(n, k)
  BY <1>1, PowerGrows
<1>7. A * Power(F, k) <= A * Power(n, k)
  BY <1>3, <1>5, <1>6, ProductGrows
<1> QED  BY <1>3, <1>4, <1>5, <1>7

\* What has too many duplicates for the analysis has for Penny, too.
LEMMA DuplicatesCompared ==
  ASSUME PInv, run < Runs, NEW dropped \in BOOLEAN, Packet(dropped),
         TooManyDups(dropped)
  PROVE  LetThrough >= 1 /\ PennyTooMany
<1> DEFINE F == LetThrough
           u == dupcount'
           v == n - (IF dropped THEN 1 ELSE 0)
           p == MAX_DUP_THRESH[1]
           q == MAX_DUP_THRESH[2]
<1>1. u \in Nat /\ u <= F /\ F \in Nat /\ F <= v /\ v \in Int
  BY CountsAfter
<1>2. p \in Nat /\ q \in Nat
  BY Parameters
<1>3. u * q > p * v
  BY DEF TooManyDups
<1>4. Duplicates = IF u = 0 THEN 1 ELSE u
  BY DEF Duplicates
<1>5. PennyTooMany <=> Duplicates * q > p * F
  BY DEF PennyTooMany
<1> HIDE DEF F, u, v, p, q
<1>6. v \in Nat /\ p * F <= p * v /\ p * F \in Nat /\ p * v \in Nat
  BY <1>1, <1>2
<1>7. u # 0
  BY <1>3, <1>6, <1>2
<1>8. u * q \in Nat /\ Duplicates = u
  BY <1>1, <1>2, <1>4, <1>7
<1>9. F >= 1
  BY <1>1, <1>7
<1>10. u * q > p * F
  BY <1>3, <1>6, <1>8
<1> QED  BY <1>5, <1>8, <1>9, <1>10 DEF F

\* The step, on the numbers: y is the weight of the other side.
LEMMA OddsExclude ==
  ASSUME NEW x \in Nat, NEW y \in Nat, NEW z \in Nat, NEW d \in Nat, d > 0,
         x <= z
  PROVE  /\ ~(x > d * y /\ d * x < y)
         /\ ~(z > d * y /\ d * z < y)
         /\ x > d * y => z > d * y
         /\ d * z < y => d * x < y
<1>1. /\ d * x <= d * z /\ x <= d * x /\ y <= d * y /\ z <= d * z
      /\ d * x \in Nat /\ d * y \in Nat /\ d * z \in Nat
  OBVIOUS
<1> QED  BY <1>1

LEMMA PacketNeverUnderstates ==
  ASSUME PInv, run < Runs, NEW dropped \in BOOLEAN, Packet(dropped), n >= dups
  PROVE  /\ Penny!Verdict(NextEvidence) = "ClosedLoop" => Files("bidir")
         /\ Files("max_dups")
              => Penny!Verdict(NextEvidence) = "DuplicatesExceeded"
         /\ Files("non_bidir") =>
              \/ Penny!Verdict(NextEvidence)
                   \in {"NotClosedLoop", "DuplicatesExceeded"}
              \/ dropcount' = n
<1> DEFINE V == Penny!Verdict(NextEvidence)
           F == LetThrough
           d == DecisionOdds
<1>1. \A o \in Outcomes : Files(o) <=> o = Outcome(dropped)
  BY FilesOutcome DEF PInv
<1>2. F \in Nat /\ n \in Nat /\ dropcount' \in Nat
  BY CountsAfter
<1>3. /\ ~(PennyH1 > d * h2 /\ d * PennyH1 < h2)
      /\ ~(h1 > d * h2 /\ d * h1 < h2)
      /\ PennyH1 > d * h2 => h1 > d * h2
      /\ d * h1 < h2 => d * PennyH1 < h2
  <2> DEFINE x == PennyH1
             y == h2
             z == h1
  <2>1. x \in Nat /\ y \in Nat /\ z \in Nat /\ x <= z /\ d \in Nat /\ d > 0
    BY WeightsCompared, Parameters
  <2> HIDE DEF x, y, z, d
  <2>2. /\ ~(x > d * y /\ d * x < y)
        /\ ~(z > d * y /\ d * z < y)
        /\ x > d * y => z > d * y
        /\ d * z < y => d * x < y
    BY <2>1, OddsExclude
  <2> QED  BY <2>2 DEF x, y, z
<1>4. TooManyDups(dropped) => F >= 1 /\ PennyTooMany
  BY DuplicatesCompared
<1>5. /\ Outcome(dropped) = "max_dups" <=> TooManyDups(dropped)
      /\ Outcome(dropped) = "bidir" <=> ~TooManyDups(dropped) /\ h1 > d * h2
      /\ Outcome(dropped) = "non_bidir"
           <=> ~TooManyDups(dropped) /\ d * h1 < h2
  BY <1>3 DEF Outcome
<1>6. /\ F < 1 => V = "NoDecision"
      /\ F >= 1 /\ PennyTooMany => V = "DuplicatesExceeded"
      /\ F >= 1 /\ ~PennyTooMany
           => V = CASE PennyH1 > d * h2 -> "ClosedLoop"
                    [] d * PennyH1 < h2 -> "NotClosedLoop"
                    [] OTHER            -> "NoDecision"
  <2>1. /\ ~Penny!BelowMinimum(NextEvidence)
        /\ Penny!FDupDenominator(NextEvidence) = F
        /\ Penny!TooManyDuplicates(NextEvidence) <=> PennyTooMany
        /\ Penny!H1(NextEvidence) = PennyH1
        /\ Penny!H2(NextEvidence) = h2
    BY PennyComputes
  <2> HIDE DEF F
  <2>2. F < 1 => V = "NoDecision"
    BY <1>2, <2>1 DEF Penny!Verdict
  <2>3. F >= 1 /\ PennyTooMany => V = "DuplicatesExceeded"
    BY <1>2, <2>1 DEF Penny!Verdict
  <2>4. F >= 1 /\ ~PennyTooMany => V = Penny!Weigh(NextEvidence)
    BY <1>2, <2>1 DEF Penny!Verdict
  <2> QED  BY <2>1, <2>2, <2>3, <2>4 DEF Penny!Weigh
<1>7. F < 1 => dropcount' = n
  <2> DEFINE e == dropcount'
  <2>1. F = n - e /\ F \in Nat /\ n \in Nat /\ e \in Nat
    BY <1>2 DEF LetThrough
  <2> HIDE DEF F, e
  <2>2. F < 1 => e = n
    BY <2>1
  <2> QED  BY <2>2 DEF e
<1> HIDE DEF V, F, d
<1>8. /\ V = "ClosedLoop" <=> F >= 1 /\ ~PennyTooMany /\ PennyH1 > d * h2
      /\ F >= 1 /\ ~PennyTooMany /\ d * PennyH1 < h2 => V = "NotClosedLoop"
  BY <1>2, <1>3, <1>6
<1>9. V = "ClosedLoop" => Files("bidir")
  BY <1>1, <1>3, <1>4, <1>5, <1>8 DEF Outcomes
<1>10. Files("max_dups") => V = "DuplicatesExceeded"
  BY <1>1, <1>4, <1>5, <1>6 DEF Outcomes
<1>11. Files("non_bidir")
         => V \in {"NotClosedLoop", "DuplicatesExceeded"} \/ dropcount' = n
  BY <1>1, <1>2, <1>3, <1>5, <1>6, <1>7, <1>8 DEF Outcomes
<1> QED  BY <1>9, <1>10, <1>11 DEF V

\* The analysis errs to the side of genuine traffic only, for all numbers of
\* packets and duplicates and all parameters: so do the figures drawn from it.
THEOREM ErrsToOneSide == Spec => NeverUnderstates
<1> DEFINE A == n' > n /\ n >= dups =>
             /\ Penny!Verdict(Evidence)' = "ClosedLoop" => Files("bidir")
             /\ Files("max_dups")
                  => Penny!Verdict(Evidence)' = "DuplicatesExceeded"
             /\ Files("non_bidir") =>
                  \/ Penny!Verdict(Evidence)'
                       \in {"NotClosedLoop", "DuplicatesExceeded"}
                  \/ dropcount' = n
<1>1. ASSUME PInv, run < Runs, NEW dropped \in BOOLEAN, Packet(dropped)
      PROVE  A
  BY <1>1, PennyComputes, PacketNeverUnderstates
<1>2. ASSUME PInv, NextFlow PROVE A
  BY <1>2, TheoryAssumption DEF NextFlow
<1>3. PInv /\ [Next]_vars => [A]_vars
  <2> HIDE DEF A
  <2> QED  BY <1>1, <1>2 DEF Next
<1>4. Spec => []PInv
  BY InitPackets, NextPackets, PTL DEF Spec
<1> QED  BY <1>3, <1>4, PTL DEF Spec, NeverUnderstates
===============================================================================
