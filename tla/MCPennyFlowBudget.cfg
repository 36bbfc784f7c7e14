SPECIFICATION Spec
CONSTANTS
  MaxDuplicates <- MCMaxDuplicates
  NotObserveRetransmission <- MCNotObserveRetransmission
  DecisionOdds = 1
  MinPacketDrops = 2
  MinDroppablePkts = 0
  Packets <- MCPackets
  Timeout = 1
  DuplicateBound = 2
  Segments = 4
INVARIANT
  VerdictNeedsWholeBudget
