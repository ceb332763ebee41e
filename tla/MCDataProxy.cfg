CONSTANTS
  k1 = k1
  k2 = k2
  p1 = p1
  Clients <- MCClients
  Admins = {}
  Serials <- MCSerials
  MaxBytes = 2
  MaxChunk = 2
SPECIFICATION FairSpec
INVARIANTS TypeOK TargetsRegistered ReceivedInOrder ExitDrains
PROPERTIES SerialToSock SockToSerial NoByteStuck JoinReturns
CHECK_DEADLOCK FALSE
