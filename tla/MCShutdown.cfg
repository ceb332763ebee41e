CONSTANTS
  Receivers <- MCReceivers
  Firsts <- MCFirsts
SPECIFICATION FairSpec
INVARIANTS TypeOK ExitDrains UndefinedHasCause
PROPERTY ExitEnds
CHECK_DEADLOCK FALSE
