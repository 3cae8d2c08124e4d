SPECIFICATION MemInitSpec
CHECK_DEADLOCK FALSE
CONSTANTS
  npages = 24
  npages_basemem = 4
  IOPHYSPAGE = 4
  EXTPHYSPAGE = 5
  FIRSTFREE = 10
  REFMOD = 65536
  NENT = 12
  UTOPX = 5
  UVPTX = 7
  KERN_PGDIR = 6
  UENVSX = 5
  UPAGESX = 6
  KERNBASEX = 10
  PAGES = 7
  ENVS = 9
  BOOTSTACK = 5
  PAGEINFOS = 16
  ENVPAGES = 1
  KSTKPAGES = 1
  Regions <- mem_init_regions
  Contents <- MCContents
  TlbVas <- MCTlbVas
  UserVas <- MCNone
  UserPerms <- MCNone
  MaxTlb = 2
  MaxRef = 1
  MaxDirs = 0
  MaxHeld = 0
INVARIANTS
  TestsPass
