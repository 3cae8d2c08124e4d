SPECIFICATION BootSpec
CONSTANTS
  TOP = 128
  SECTSIZE = 2
  PGSIZE = 4
  ENTRIES = 32
  HDRSECTS = 2
  ELFHDR = 6
  WARM = 1
  A20 = 16
  KERNBASE = 3840
  Images <- MCImages
  Memories = {47, 59, 60, 79, 80, 87, 88, 103, 336, 400}
  BASEMEM = 10
  EXTPHYS = 16
  EXT16PHYS = 80
  EXT16UNIT = 8
  EXTCAP = 72
  BYTE = 16
  PAGEINFO = 1
  ENVSSIZE = 6
  UVPTSLOT = 3
CHECK_DEADLOCK FALSE
INVARIANTS
  OutOfMemory
