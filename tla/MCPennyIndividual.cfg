SPECIFICATION Spec
CONSTANTS
  MaxDuplicates <- MCMaxDuplicates
  NotObserveRetransmission <- MCNotObserveRetransmission
  DecisionOdds = 1
  MinPacketDrops = 0
  MinDroppablePkts = 0
  Packets <- MCPackets
  Timeout = 0
  ClosedLoopFlows = {c}
  SpoofedFlows = {s}
  MinNumberFlowsAggr = 1
  MaxPacketDrops = 3
  MinClosedLoopFlows = 0
  DuplicateBound = 2
  SpoofedBound = 2
  Segments = 3
PROPERTY
  IndividualFlowsExamined
