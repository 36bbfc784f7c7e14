\* Every record with at most 18 packets let through, 3 observed
\* retransmissions, 2 expired drops and 4 duplicates.
SPECIFICATION Spec
CONSTANTS
  MaxDuplicates <- MCMaxDuplicates
  NotObserveRetransmission <- MCNotObserveRetransmission
  DecisionOdds = 99
  MinPacketDrops = 2
  MinDroppablePkts = 0
  ForwardBound = 18
  RetransmittedBound = 3
  NotSeenBound = 2
  DuplicateBound = 4
INVARIANTS
  VerdictNeedsWitness
  FigureAgreesWithPenny
PROPERTIES
  RetransmissionFavoursClosedLoop
  SilenceFavoursNotClosedLoop
  DuplicatesNeverHelp
\* The record is full: the bounds above are all reached.
CHECK_DEADLOCK FALSE
