CONSTANTS
  Configs <- MCConfigs
  Torn = Torn
  Numbers <- MCNumbers
SPECIFICATION Spec
INVARIANTS TypeOK LineFollowsConfig
PROPERTY ConfigStaysUsable
CHECK_DEADLOCK FALSE
