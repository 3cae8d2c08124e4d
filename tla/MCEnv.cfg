SPECIFICATION Spec
CONSTANTS
  npages = 10
  npages_basemem = 2
  IOPHYSPAGE = 2
  EXTPHYSPAGE = 3
  FIRSTFREE = 4
  REFMOD = 4
  NENT = 3
  UTOPX = 1
  UVPTX = 1
  KERN_PGDIR = 3
  NENV = 2
  GEN = 4
  IDLIMIT = 12
  PGSIZE = 2
  USTACKTOP = 6
  Programs <- MCPrograms
  Contents <- MCContents
  TlbVas <- MCTlbVas
  MaxTlb = 1
  MaxIncarn = 3
INVARIANTS
  EnvListExact UserMode PagesApart MemoryReturned Loaded PanicCause
PROPERTIES
  CallsEnd VmSteps NewIncarnation
