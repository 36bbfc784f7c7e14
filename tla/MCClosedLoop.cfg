SPECIFICATION Spec
CONSTANTS
  Segments = 4
  DupThresh = 2
  DataRetries = 2
  Window = 4
  MaxLosses = 2
  MaxCopies = 6
  DiscLimit = 8
  NoPacket = NoPacket
  MaxDuplicates <- MCMaxDuplicates
  NotObserveRetransmission <- MCNotObserveRetransmission
  DecisionOdds = 1
  MinPacketDrops = 3
  MinDroppablePkts = 0
  Timeout = 2
  DuplicateBound = 20
INVARIANTS
  TypeOK
  AssertionsHold
  UndeliveredWhilePending
  BooksMatchDrops
  NeverMisjudged
  LateIsDuplicate
PROPERTIES
  EveryDropSettles
  Transfers
