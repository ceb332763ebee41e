CONSTANTS
  awake = awake
  asleep = asleep
  late = late
  Peer <- MCPeer
  Readers <- MCReaders
  Fd <- MCFd
  Capacity = 1
  MaxBytes = 2
SPECIFICATION FairSpec
INVARIANTS TypeOK StreamUnbroken RearmsItsClient WaitingHasEdge
PROPERTY ReadersServed
CHECK_DEADLOCK FALSE
