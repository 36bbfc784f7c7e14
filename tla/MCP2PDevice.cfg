SPECIFICATION Spec
CONSTANTS
  Uids = {a, b, c}
  MaxCopies = 2
  DiscLimit = 2
  NoPacket = NoPacket
INVARIANTS
  TypeOK
  NeverOverflows
  NoLostWakeUp
  DropsWhatWasAsked
  MarksAreQueued
PROPERTIES
  PacketsLeave
\* All copies are sent and transmitted.
CHECK_DEADLOCK FALSE
