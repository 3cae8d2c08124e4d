SPECIFICATION MCSpec
CHECK_DEADLOCK FALSE
CONSTANTS
  TOP = 128
  SECTSIZE = 2
  PGSIZE = 4
  ENTRIES = 32
  HDRSECTS = 2
  ELFHDR = 6
  WARM = 1
  A20 = 16
  KERNBASE = 3840
  Images <- MCImages
  Memories = {47, 59, 60, 79, 80, 87, 88, 103, 336, 400}
  BASEMEM = 10
  EXTPHYS = 16
  EXT16PHYS = 80
  EXT16UNIT = 8
  EXTCAP = 72
  BYTE = 16
  PAGEINFO = 1
  ENVSSIZE = 6
  UVPTSLOT = 3
  npages = 24
  npages_basemem = 4
  IOPHYSPAGE = 4
  EXTPHYSPAGE = 5
  FIRSTFREE = 9
  REFMOD = 65536
  NENT = 12
  UTOPX = 5
  UVPTX = 7
  KERN_PGDIR = 6
  UENVSX = 5
  UPAGESX = 6
  KERNBASEX = 10
  PAGES = 7
  ENVS = 8
  BOOTSTACK = 5
  PAGEINFOS = 24
  ENVPAGES = 1
  KSTKPAGES = 1
  Regions <- mem_init_regions
  Contents <- MCContents
  TlbVas <- MCTlbVas
  UserVas <- MCNone
  UserPerms <- MCNone
  MaxTlb = 2
  MaxRef = 1
  MaxDirs = 0
  MaxHeld = 0
  Keys <- MCKeys
  MaxStream = 3
INVARIANTS
  KernelInPlace NeverFaults BootAreas MemoryFound TestsPass NoTrace ModifiersFollow
PROPERTIES
  ComesUp LowBeforeSwitch KeysMean
