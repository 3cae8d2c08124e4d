SPECIFICATION MCSpec
CHECK_DEADLOCK FALSE
CONSTANTS
  CONSBUFSIZE = 4
  BUFLEN = 2
  Chars = {8, 10, 120, 127}
  MaxWaiting = 2
  INTBITS = 5
  LLBITS = 8
  PRINTBUF = 4
  error_string <- MCErrors
  CRT_ROWS = 2
  CRT_COLS = 3
  POLLS = 1
  Calls <- MCCalls
  Echo <- MCEcho
  CursorAt = {1}
  NoSerial <- MCNoSerial
  MaxOut = 3
  ULIM = 1000
  MAXARGS = 3
  Commands <- MCCommands
  Lines <- MCLines
  Stacks <- MCStacks
  Programs <- MCPrograms
  Tables <- MCTables
INVARIANTS
  ConsTypeOK
  Rendered Delivered ScreenIsTail SerialLoss
  CommandRun FramesResolved SearchRight CopiesExact
PROPERTIES
  InputQueue LineRead OutputEnds PromptAgain
