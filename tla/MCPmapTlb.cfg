SPECIFICATION Spec
CONSTANTS
  npages = 8
  npages_basemem = 2
  IOPHYSPAGE = 2
  EXTPHYSPAGE = 3
  FIRSTFREE = 4
  REFMOD = 4
  NENT = 4
  UTOPX = 2
  UVPTX = 2
  KERN_PGDIR = 3
  Regions <- MCRegions
  Contents <- MCContents
  UserVas <- MCUserVas
  UserPerms <- MCUserPerms
  MaxTlb = 1
  MaxRef = 3
  TlbVas <- MCTlbVas
  MaxDirs = 2
  MaxHeld = 1
INVARIANTS
  TlbPermissions
