SPECIFICATION Spec
CONSTANTS
  MAX_N = 7
  MAX_DUPS = 4
  Runs = 2
  MAX_DUP_THRESH <- MC_MAX_DUP_THRESH
  NotLegitSrc <- MCNotLegitSrc
  DecisionOdds = 3
INVARIANTS
  TotalsAreOfOutcomes
CHECK_DEADLOCK FALSE
