CONSTANTS
  Configs <- MCConfigs
  Torn = Torn
  Numbers <- MCNumbers
SPECIFICATION Spec
INVARIANT StampsOnlyPortOutput
CHECK_DEADLOCK FALSE
