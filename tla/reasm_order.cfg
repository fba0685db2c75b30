\* Five fixed segments, reordered and duplicated, with compaction.
CONSTANTS
  SeqMod = 32
  InitialSeq = 3
  StreamLen = 8
  Cuts <- Fixed
  Window = 8
  MaxBuffer = 9
  Keeps = {0, 2}
  MaxSegments = 9
SPECIFICATION Spec
CHECK_DEADLOCK FALSE
INVARIANTS
  StreamInOrder
  NothingHeldBack
