SPECIFICATION Spec
CONSTANTS
  MaxDuplicates <- MCMaxDuplicates
  NotObserveRetransmission <- MCNotObserveRetransmission
  DecisionOdds = 1
  MinPacketDrops = 0
  MinDroppablePkts = 0
  Packets <- MCPackets
  Timeout = 1
  DuplicateBound = 2
  Segments = 3
INVARIANT
  HighestSeqIsHighest
