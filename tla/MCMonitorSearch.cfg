SPECIFICATION MonitorSpec
CONSTANTS
  ULIM = 1000
  MAXARGS = 3
  Commands <- MCCommands
  Lines <- MCLines
  Stacks <- MCStacks
  Programs <- MCPrograms
  Tables <- MCTables
INVARIANTS
  SearchContract
