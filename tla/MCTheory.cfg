\* The flows that send 2 and 3 duplicates, each with any of its packets dropped.
SPECIFICATION Spec
CONSTANTS
  MAX_N = 7
  MAX_DUPS = 4
  Runs = 2
  MAX_DUP_THRESH <- MC_MAX_DUP_THRESH
  NotLegitSrc <- MCNotLegitSrc
  DecisionOdds = 3
INVARIANTS
  TypeOK
  RowsAgree
  OneOutcomePerFlow
PROPERTIES
  NeverUnderstates
\* The program ends.
CHECK_DEADLOCK FALSE
