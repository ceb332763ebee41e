CONSTANTS
  Byte <- MCByte
  Texts <- MCTexts
  Histories <- MCHistories
  Local <- MCLocal
  LocalWith <- MCLocalWith
  Shared <- MCShared
  Exit <- MCExit
  Snippets <- MCSnippets
  Stamp = Stamp
  MaxRead = 4
  MaxPressed = 5
SPECIFICATION ConsoleSpec
INVARIANTS ConsoleTypeOK CommandsAsEntered
PROPERTY EditsLine
CHECK_DEADLOCK FALSE
