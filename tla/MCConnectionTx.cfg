CONSTANTS
  MaxBytes = 5
  MaxChunk = 2
  Capacity = 2
  PeerSends = TRUE
SPECIFICATION FairSpec
INVARIANTS TypeOK NothingLostOrRepeated OutputEventDue
PROPERTY TxDrains
CHECK_DEADLOCK FALSE
