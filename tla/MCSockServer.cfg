CONSTANTS
  Fd <- MCFd
  c1 = c1
  c2 = c2
  c3 = c3
  c4 = c4
  c5 = c5
  Conn <- MCConn
  NoConn = NoConn
  MaxEvents = 3
  MayFail <- MCAllFaults
SPECIFICATION Spec
SYMMETRY CellSymmetry
INVARIANTS TypeOK ManagerMatchesKernel WatchedAreOpen OneSerialConnection PortBacked HandlerKeepsConnection UndefinedOnlyForClosedPort
PROPERTY ErrorSparesOthers
CHECK_DEADLOCK FALSE
