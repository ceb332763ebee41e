CONSTANTS
  MaxKeys = 4
  MaxBytes = 2
  MaxPanels = 2
SPECIFICATION Spec
INVARIANTS TypeOK ModeConsistent PortShownInOrder MisroutedOnlyAcrossSwitch ExitHasCause
CHECK_DEADLOCK FALSE
