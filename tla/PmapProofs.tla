----------------------------- MODULE PmapProofs ------------------------------
(***************************************************************************)
(* Theorems about Pmap, for every amount of memory, every layout of the    *)
(* boot regions and every number of clients: its types, the invariant that *)
(* each page has one role, and the properties that follow from it.         *)
(***************************************************************************)
EXTENDS Pmap, PageProofs

-----------------------------------------------------------------------------
(* page_init and the contents memory comes up with are a machine state.    *)
LEMMA InitType == Init => TypeOK
<1> SUFFICES ASSUME Init PROVE TypeOK
  OBVIOUS
<1>1. PICK c \in [Frames -> Contents] : m = FirstMachine(c)
  BY DEF Init, FirstMachine, FirstDir, kern_pgdir_init
<1>2. m \in Machine
  BY <1>1, ClientAssumption, FirstType
<1> QED
  BY <1>2, EntryTypes DEF Init, TypeOK

(* Every step keeps the types.                                             *)
LEMMA NextType == TypeOK /\ [Next]_vars => TypeOK'
<1> SUFFICES ASSUME TypeOK, [Next]_vars PROVE TypeOK'
  OBVIOUS
<1>t. /\ m \in Machine /\ dirs \subseteq Frames /\ held \subseteq Frames
      /\ boot \in [r : Nat \ {0}, k : Nat] /\ UserPdx \subseteq Ents
  BY EntryTypes DEF TypeOK
<1>v. /\ \A v \in UserVas : v[1] \in Ents /\ v[2] \in Ents
      /\ \A v \in TlbVas : v[1] \in Ents /\ v[2] \in Ents
  BY ClientAssumption, EntryTypes
<1>1. CASE boot_map_region
  <2> DEFINE g == Regions[boot.r]
             v == g.va + boot.k
             w == pgdir_walk(m, KERN_PGDIR, PDX(v), TRUE)
  <2>1. boot' \in [r : Nat \ {0}, k : Nat] /\ dirs' = dirs /\ held' = held
    <3>1. \/ boot' = [boot EXCEPT !.k = boot.k + 1]
          \/ boot' = [r |-> boot.r + 1, k |-> 0]
      BY <1>1 DEF boot_map_region
    <3>2. boot' \in [r : Nat \ {0}, k : Nat]
      BY <3>1, <1>t
    <3> QED BY <1>1, <3>2 DEF boot_map_region
  <2>2. CASE boot.k < g.n /\ w.pt # NULL
    <3>1. boot.r \in 1 .. Len(Regions) /\ boot.k \in Nat
      BY <1>1, <1>t, ClientAssumption DEF boot_map_region
    <3>2. g \in Region
      BY <3>1, ClientAssumption
    <3>3. boot.k \in 0 .. g.n - 1
      BY <2>2, <3>1, <3>2 DEF Region
    <3>4. /\ PDX(v) \in KernPdx \ {UVPTX} /\ PTX(v) \in Ents
          /\ g.pa + boot.k \in Frames /\ g.perm \in Perms
      BY <3>1, <3>2, <3>3, ClientAssumption DEF Region
    <3>5. m' = boot_map_page(m, KERN_PGDIR, PDX(v), PTX(v), g.pa + boot.k, g.perm)
      BY <1>1, <2>2 DEF boot_map_region
    <3> HIDE DEF g, v
    <3>6. m' \in Machine
      BY <1>t, <3>4, <3>5, boot_map_pageType, EntryTypes
    <3> QED BY <1>t, <2>1, <3>6 DEF TypeOK
  <2>3. CASE ~(boot.k < g.n /\ w.pt # NULL)
    <3>1. m' = m
      BY <1>1, <2>3 DEF boot_map_region
    <3> QED BY <1>t, <2>1, <3>1 DEF TypeOK
  <2> QED BY <2>2, <2>3
<1>2. CASE install_kern_pgdir
  BY <1>2, <1>t, lcr3Type, EntryTypes DEF install_kern_pgdir, TypeOK
<1>3. CASE PageAlloc
  <2> DEFINE r == page_alloc(m, FALSE)
  <2>1. r.m \in Machine /\ r.pp \in Frames \cup {NULL}
    BY <1>t, page_allocType
  <2>2. /\ m' = r.m /\ held' = (IF r.pp = NULL THEN held ELSE held \cup {r.pp})
        /\ UNCHANGED <<boot, dirs>>
    BY <1>3 DEF PageAlloc
  <2> HIDE DEF r
  <2> QED BY <1>t, <2>1, <2>2 DEF TypeOK
<1>4. ASSUME NEW pp \in held, PageFree(pp)
      PROVE  TypeOK'
  BY <1>4, <1>t, page_freeType DEF PageFree, TypeOK
<1>5. ASSUME NEW d \in dirs, NEW pp \in held \cup UserPages, NEW v \in UserVas,
             NEW perm \in UserPerms, PageInsert(d, pp, v[1], v[2], perm)
      PROVE  TypeOK'
  <2> DEFINE r == page_insert(m, d, pp, v[1], v[2], perm)
  <2>1. pp \in Frames
    <3>1. UserPages \subseteq Frames
      BY <1>t, WalkType DEF UserPages, PTE
    <3> QED BY <1>t, <3>1
  <2>2. r.m \in Machine
    BY <1>t, <1>v, <2>1, page_insertType, ClientAssumption
  <2>3. /\ m' = r.m /\ held' = (IF r.ok THEN held \ {pp} ELSE held)
        /\ UNCHANGED <<boot, dirs>>
    BY <1>5 DEF PageInsert
  <2> HIDE DEF r
  <2> QED BY <1>t, <2>2, <2>3 DEF TypeOK
<1>6. ASSUME NEW d \in dirs, NEW v \in UserVas, PageRemove(d, v[1], v[2])
      PROVE  TypeOK'
  BY <1>6, <1>t, <1>v, page_removeType DEF PageRemove, TypeOK
<1>7. CASE SetupVm
  <2> DEFINE r == env_setup_vm(m)
  <2>1. r.m \in Machine /\ r.pp \in Frames \cup {NULL}
    BY <1>t, env_setup_vmType
  <2>2. /\ m' = r.m /\ dirs' = (IF r.pp = NULL THEN dirs ELSE dirs \cup {r.pp})
        /\ UNCHANGED <<boot, held>>
    BY <1>7 DEF SetupVm
  <2> HIDE DEF r
  <2> QED BY <1>t, <2>1, <2>2 DEF TypeOK
<1>8. ASSUME NEW d \in dirs, NEW i \in UserPdx, FreeTable(d, i)
      PROVE  TypeOK'
  <2>1. m.mem[d][i].pa \in Frames
    BY <1>t, EntryFields
  <2>2. [m EXCEPT !.mem[d][i] = ZeroPTE] \in Machine
    BY <1>t, SetEntryType, EntryTypes
  <2>3. free_table(m, d, i) \in Machine
    BY <2>1, <2>2, page_decrefType DEF free_table
  <2> QED BY <1>8, <1>t, <2>3 DEF FreeTable, TypeOK
<1>9. ASSUME NEW d \in dirs, FreeDir(d)
      PROVE  TypeOK'
  BY <1>9, <1>t, page_decrefType DEF FreeDir, TypeOK
<1>10. ASSUME NEW d \in dirs, LoadCr3(d)
       PROVE  TypeOK'
  BY <1>10, <1>t, lcr3Type DEF LoadCr3, TypeOK
<1>11. ASSUME NEW v \in TlbVas, TlbFill(v[1], v[2])
       PROVE  TypeOK'
  <2> DEFINE e == Translate(m, v[1], v[2])
  <2>1. m.cr3 \in Frames
    BY <1>11, <1>t, MachineFields DEF TlbFill, Booted
  <2>3. e \in PTE
    BY <1>t, <1>v, <2>1, TranslateType
  <2> HIDE DEF e
  <2>4. [m EXCEPT !.tlb[v[1]][v[2]] = e] \in Machine
    BY <1>t, <1>v, <2>3 DEF Machine
  <2> QED BY <1>11, <1>t, <2>4 DEF TlbFill, TypeOK, e
<1>12. ASSUME NEW v \in TlbVas, TlbEvict(v[1], v[2])
       PROVE  TypeOK'
  BY <1>12, <1>t, <1>v, tlb_invalidateType DEF TlbEvict, TypeOK, tlb_invalidate
<1>13. ASSUME NEW i \in Ents, NEW j \in Ents, UserWrite(i, j)
       PROVE  TypeOK'
  <2> DEFINE e == InForce(m, i, j)
  <2>1. m.cr3 \in Frames
    BY <1>13, <1>t, MachineFields DEF UserWrite, Booted
  <2>2. Translate(m, i, j) \in PTE
    BY <1>t, <2>1, TranslateType
  <2>3. m.tlb[i][j] \in PTE
    BY <1>t, MachineFields
  <2>4. e.pa \in Frames
    BY <2>2, <2>3 DEF InForce, PTE
  <2>5. PICK c \in Contents : m' = [m EXCEPT !.mem[e.pa] = c]
    BY <1>13 DEF UserWrite, store
  <2> HIDE DEF e
  <2>6. m' \in Machine
    BY <1>t, <2>4, <2>5, SetPageType, ClientAssumption
  <2> QED BY <1>13, <1>t, <2>6 DEF UserWrite, TypeOK
<1>14. CASE UNCHANGED vars
  BY <1>14, <1>t DEF vars, TypeOK
<1> QED
  BY <1>1, <1>2, <1>3, <1>4, <1>5, <1>6, <1>7, <1>8, <1>9, <1>10, <1>11, <1>12, <1>13,
     <1>14 DEF Next

(* TypeOK holds in every reachable state: every entry, link, reference and *)
(* %cr3 that kern/pmap.c writes stays within its type.                     *)
THEOREM TypeCorrect == Spec => []TypeOK
<1>1. Init => TypeOK
  BY InitType
<1>2. TypeOK /\ [Next]_vars => TypeOK'
  BY NextType
<1> QED
  BY <1>1, <1>2, PTL DEF Spec

-----------------------------------------------------------------------------
(* The inductive invariant: the pages have roles.                          *)
IInv == TypeOK /\ Vm(m, dirs, held)

(* The sets that the properties name, by role.                             *)
LEMMA SetsByRole ==
  ASSUME NEW role, VmInv(m, dirs, held, role)
  PROVE  /\ FreePages(m) = {f \in Managed : role[f] = "free"}
         /\ held = {f \in Managed : role[f] = "held"}
         /\ dirs = {KERN_PGDIR} \cup {f \in Managed : role[f] = "dir"}
         /\ UserTables(m, dirs) = {f \in Managed : role[f] = "utab"}
         /\ KernTables(m) = {f \in Managed : role[f] = "ktab"}
         /\ UserPages = {f \in Managed : role[f] = "page"}
<1>0. /\ FreePart(m, role) /\ HeldPart(held, role) /\ DirPart(m, dirs, role)
      /\ UserTabPart(m, dirs, role) /\ KernTabPart(m, role) /\ PagePart(m, dirs, role)
      /\ CountPart(m, dirs, role)
  BY DEF VmInv
<1>1. FreePages(m) = {f \in Managed : role[f] = "free"}
  BY <1>0 DEF FreePart, FreeList
<1>2. held = {f \in Managed : role[f] = "held"}
  BY <1>0 DEF HeldPart
<1>3. dirs = {KERN_PGDIR} \cup {f \in Managed : role[f] = "dir"}
  BY <1>0 DEF DirPart
<1>4. UserTables(m, dirs) = {f \in Managed : role[f] = "utab"}
  <2>1. ASSUME NEW f \in UserTables(m, dirs) PROVE f \in Managed /\ role[f] = "utab"
    <3>1. PICK x \in dirs \X UserPdx : m.mem[x[1]][x[2]].p /\ m.mem[x[1]][x[2]].pa = f
      BY DEF UserTables
    <3> QED BY <1>0, <3>1 DEF UserTabPart
  <2>2. ASSUME NEW f \in Managed, role[f] = "utab" PROVE f \in UserTables(m, dirs)
    <3>1. PICK d \in dirs, i \in UserPdx : m.mem[d][i].p /\ m.mem[d][i].pa = f
      BY <1>0, <2>2 DEF UserTabPart
    <3>2. /\ <<d, i>> \in {y \in dirs \X UserPdx : m.mem[y[1]][y[2]].p}
          /\ m.mem[<<d, i>>[1]][<<d, i>>[2]].pa = f
      BY <3>1
    <3> QED BY <3>2 DEF UserTables
  <2> QED BY <2>1, <2>2
<1>5. KernTables(m) = {f \in Managed : role[f] = "ktab"}
  BY <1>0 DEF KernTables, KernTabPart, KernIdx
<1>6. UserPages = {f \in Managed : role[f] = "page"}
  <2>1. ASSUME NEW f \in UserPages PROVE f \in Managed /\ role[f] = "page"
    <3>1. PICK x \in dirs \X UserPdx \X Ents :
            Walk(m, x[1], x[2], x[3]).p /\ Walk(m, x[1], x[2], x[3]).pa = f
      BY DEF UserPages
    <3> QED BY <1>0, <3>1 DEF PagePart
  <2>2. ASSUME NEW f \in Managed, role[f] = "page" PROVE f \in UserPages
    <3>1. PICK x \in PteRefs(m, dirs, f) : TRUE
      BY <1>0, <2>2 DEF CountPart
    <3>2. /\ x \in {y \in dirs \X UserPdx \X Ents : Walk(m, y[1], y[2], y[3]).p}
          /\ Walk(m, x[1], x[2], x[3]).pa = f
      BY <3>1 DEF PteRefs
    <3> QED BY <3>2 DEF UserPages
  <2> QED BY <2>1, <2>2
<1> QED
  BY <1>1, <1>2, <1>3, <1>4, <1>5, <1>6

(* Each property of Pmap follows from the invariant.                       *)
LEMMA FreeListFollows ==
  ASSUME NEW role, VmInv(m, dirs, held, role)
  PROVE  FreeListExact
<1> DEFINE InUse == held \cup KernelFrames \cup UserPages
           Free  == FreePages(m)
<1>0. CountPart(m, dirs, role) /\ TlbPart(m, dirs) /\ role \in [Managed -> Roles]
  BY DEF VmInv
<1>1. Free \subseteq Managed
  BY SetsByRole
<1>2. Managed \subseteq Free \cup InUse
  BY <1>0, SetsByRole DEF KernelFrames, Roles
<1>3. ASSUME NEW f \in Free
      PROVE  m.ref[f] = 0 /\ f \notin InUse
  <2>1. f \in Managed /\ role[f] = "free"
    BY SetsByRole
  <2>2. f \notin KernelFrames
    BY <2>1, SetsByRole, LayoutFacts DEF KernelFrames, BootFrames
  <2> QED BY <1>0, <2>1, <2>2, SetsByRole DEF CountPart
<1>4. ASSUME NEW f \in Free, NEW i \in Ents, NEW j \in Ents,
             m.tlb[i][j].p, "U" \in m.tlb[i][j].perm, m.tlb[i][j].pa = f
      PROVE  FALSE
  <2>1. f \in Managed /\ role[f] = "free"
    BY SetsByRole
  <2>2. i \notin KernIdx
    BY <1>0, <1>4, <2>1 DEF TlbPart
  <2>3. m.cr3 \in dirs /\ Walk(m, m.cr3, i, j).p /\ f = Walk(m, m.cr3, i, j).pa
    BY <1>0, <1>4 DEF TlbPart
  <2> QED BY <2>1, <2>2, <2>3, WalkNotFree
<1> QED
  BY <1>1, <1>2, <1>3, <1>4 DEF FreeListExact

(* Isolation follows: an entry that user code can write through leads to a *)
(* mapped page, whose role is none of the kernel's.                        *)
LEMMA IsolationFollows ==
  ASSUME NEW role, VmInv(m, dirs, held, role)
  PROVE  Isolation
<1>0. /\ PagePart(m, dirs, role) /\ KernTabPart(m, role) /\ TlbPart(m, dirs)
  BY DEF VmInv
<1>1. ASSUME NEW f \in Managed, role[f] = "page"
      PROVE  f \notin KernelFrames
  BY <1>1, SetsByRole, LayoutFacts DEF KernelFrames, BootFrames
<1>2. ASSUME NEW d \in dirs, NEW i \in Ents, NEW j \in Ents,
             WritableByUser(m.mem[d][i], Walk(m, d, i, j))
      PROVE  Walk(m, d, i, j).pa \notin KernelFrames
  <2>1. CASE i \in UserPdx
    BY <1>0, <1>1, <1>2, <2>1 DEF PagePart, WritableByUser
  <2>2. CASE i = UVPTX
    BY <1>2, <2>2, WalkUvpt DEF WritableByUser, RWU
  <2>3. CASE i \in KernIdx
    BY <1>0, <1>2, <2>3, WalkKern DEF WritableByUser, RWU, KernTabPart
  <2> QED BY <2>1, <2>2, <2>3, LayoutFacts
<1>3. ASSUME NEW i \in Ents, NEW j \in Ents, WritableByUser(m.tlb[i][j], m.tlb[i][j])
      PROVE  m.tlb[i][j].pa \notin KernelFrames
  <2>1. i \in UserPdx
    BY <1>0, <1>3, LayoutFacts DEF TlbPart, WritableByUser
  <2>2. /\ m.cr3 \in dirs /\ Walk(m, m.cr3, i, j).p
        /\ m.tlb[i][j].pa = Walk(m, m.cr3, i, j).pa
    BY <1>0, <1>3 DEF TlbPart, WritableByUser
  <2> QED BY <1>0, <1>1, <2>1, <2>2 DEF PagePart
<1> QED
  BY <1>2, <1>3 DEF Isolation

(* The invariants of Pmap follow from the roles.                           *)
LEMMA PropertiesFollow ==
  ASSUME IInv
  PROVE  /\ NoPanic /\ FreeListExact /\ RefCountExact /\ KernelPartShared
         /\ Isolation /\ TlbSound
<1>1. PICK role \in [Managed -> Roles] : VmInv(m, dirs, held, role)
  BY DEF IInv, Vm
<1>2. NoPanic
  BY <1>1 DEF VmInv, NoPanic
<1>3. KernelPartShared
  BY <1>1 DEF VmInv, DirPart, KernelPartShared, KernIdx
<1>4. TlbSound
  BY <1>1 DEF VmInv, TlbPart, TlbSound
<1>5. RefCountExact
  BY <1>1, CountsExact DEF RefCountExact
<1> QED
  BY <1>1, <1>2, <1>3, <1>4, <1>5, FreeListFollows, IsolationFollows

-----------------------------------------------------------------------------
(* At most one translation of the user part differs.                       *)
OneChange(s, s2, D) == \E d, i, j : OnlyAt(s, s2, D, d, i, j)

(* When the user part keeps its translations, none has changed.            *)
LEMMA NoChange ==
  ASSUME NEW s, NEW s2, NEW D, NEW D2, UserSame(s, s2, D), D2 \subseteq D
  PROVE  OneChange(s, s2, D2)
BY DEF UserSame, OnlyAt, OneChange

(* What page_init and the start of mem_init set up: every page that the    *)
(* allocator has is free.                                                  *)
LEMMA InitVm == Init => Vm(m, dirs, held)
<1> SUFFICES ASSUME Init PROVE Vm(m, dirs, held)
  OBVIOUS
<1>1. PICK c \in [Frames -> Contents] : m = FirstMachine(c)
  BY DEF Init, FirstMachine, FirstDir, kern_pgdir_init
<1>2. dirs = {KERN_PGDIR} /\ held = {}
  BY DEF Init
<1>3. c \in [Frames -> [Ents -> PTE]]
  BY ClientAssumption
<1>4. Vm(m, {KERN_PGDIR}, {})
  BY <1>1, <1>3, FirstVm
<1> QED
  BY <1>2, <1>4

(* The page that PageInsert is given is one that a client may map.         *)
LEMMA UserPagesUsable ==
  ASSUME Vm(m, dirs, held), NEW pp \in held \cup UserPages
  PROVE  Usable(m, dirs, held, pp)
<1>1. CASE pp \in held
  BY <1>1, VmFacts DEF Usable
<1>2. CASE pp \in UserPages
  <2>1. PICK d \in dirs, i \in UserPdx, j \in Ents :
          Walk(m, d, i, j).p /\ Walk(m, d, i, j).pa = pp
    BY <1>2 DEF UserPages
  <2>2. <<d, i, j>> \in PteRefs(m, dirs, pp)
    BY <2>1, PteRefsMember
  <2>3. pp \in Managed
    BY <2>1 DEF Vm, VmInv, PagePart
  <2> QED BY <2>2, <2>3 DEF Usable
<1> QED BY <1>1, <1>2

(* What a step shows: the roles of the pages, and what it leaves alone.    *)
Kept(s, D, H, s2, D2, H2) == Vm(s2, D2, H2) /\ OneChange(s, s2, D \cap D2)

(* A step that keeps the roles and every translation keeps all.            *)
LEMMA KeptSame ==
  ASSUME NEW s, NEW D, NEW H, NEW s2, NEW D2, NEW H2,
         Vm(s2, D2, H2), UserSame(s, s2, D \cap D2)
  PROVE  Kept(s, D, H, s2, D2, H2)
BY NoChange DEF Kept

(* Each step of mem_init.                                                  *)
LEMMA BootSteps ==
  ASSUME TypeOK, Vm(m, dirs, held), boot_map_region \/ install_kern_pgdir
  PROVE  Kept(m, dirs, held, m', dirs', held')
<1>t. /\ boot \in [r : Nat \ {0}, k : Nat]
      /\ dirs' = dirs /\ held' = held /\ m.cr3 = NULL /\ dirs \cap dirs = dirs
  BY DEF TypeOK, boot_map_region, install_kern_pgdir, Booted
<1>1. CASE boot_map_region
  <2> DEFINE g == Regions[boot.r]
             v == g.va + boot.k
             w == pgdir_walk(m, KERN_PGDIR, PDX(v), TRUE)
  <2>2. CASE boot.k < g.n /\ w.pt # NULL
    <3>1. boot.r \in 1 .. Len(Regions) /\ boot.k \in Nat
      BY <1>1, <1>t, ClientAssumption DEF boot_map_region
    <3>2. g \in Region
      BY <3>1, ClientAssumption
    <3>3. boot.k \in 0 .. g.n - 1
      BY <2>2, <3>1, <3>2 DEF Region
    <3>4. /\ PDX(v) \in KernIdx /\ PTX(v) \in Ents
          /\ g.pa + boot.k \in Frames /\ g.perm \in Perms
          /\ "U" \in g.perm => "W" \notin g.perm /\ g.pa + boot.k \notin Managed
      BY <3>1, <3>2, <3>3, ClientAssumption DEF Region, KernIdx
    <3>5. m' = boot_map_page(m, KERN_PGDIR, PDX(v), PTX(v), g.pa + boot.k, g.perm)
      BY <1>1, <2>2 DEF boot_map_region
    <3>6. PICK i, j, pa, perm :
            i = PDX(v) /\ j = PTX(v) /\ pa = g.pa + boot.k /\ perm = g.perm
      OBVIOUS
    <3> HIDE DEF g, v, w
    <3>7. Vm(m', dirs, held) /\ UserSame(m, m', dirs)
      BY <1>t, <3>4, <3>5, <3>6, boot_map_pageVm
    <3> QED BY <1>t, <3>7, KeptSame
  <2>3. CASE ~(boot.k < g.n /\ w.pt # NULL)
    <3>1. m' = m
      BY <1>1, <2>3 DEF boot_map_region
    <3>2. UserSame(m, m', dirs)
      BY <3>1 DEF UserSame
    <3> QED BY <1>t, <3>1, <3>2, KeptSame
  <2> QED BY <2>2, <2>3
<1>2. CASE install_kern_pgdir
  <2>1. m' = lcr3(m, KERN_PGDIR)
    BY <1>2 DEF install_kern_pgdir
  <2>2. Vm(m', dirs, held) /\ UserSame(m, m', dirs)
    BY <2>1, VmFacts, lcr3Vm
  <2> QED BY <1>t, <2>2, KeptSame
<1> QED BY <1>1, <1>2

(* Each operation that a client calls.                                     *)
LEMMA PageAllocStep ==
  ASSUME Vm(m, dirs, held), PageAlloc
  PROVE  Kept(m, dirs, held, m', dirs', held')
<1>1. PICK h, t, zero : zero = FALSE /\ h = page_alloc(m, zero).pp /\ t = page_alloc(m, zero).m
  OBVIOUS
<1>2. /\ m' = t /\ held' = (IF h = NULL THEN held ELSE held \cup {h}) /\ dirs' = dirs
  BY <1>1 DEF PageAlloc
<1>3. Allocated(m, dirs, held, h, t)
  BY <1>1, page_allocVm
<1>4. CASE h = NULL
  <2>1. m' = m /\ held' = held
    BY <1>2, <1>3, <1>4 DEF Allocated
  <2>2. UserSame(m, m', dirs) /\ Vm(m', dirs', held')
    BY <1>2, <2>1 DEF UserSame
  <2> QED BY <1>2, <2>2, NoChange DEF Kept
<1>5. CASE h # NULL
  <2>1. Vm(m', dirs', held') /\ UserSame(m, m', dirs)
    BY <1>2, <1>3, <1>5 DEF Allocated
  <2> QED BY <1>2, <2>1, NoChange DEF Kept
<1> QED BY <1>4, <1>5

(* page_free, of a page that the client holds.                             *)
LEMMA PageFreeStep ==
  ASSUME Vm(m, dirs, held), NEW pp \in held, PageFree(pp)
  PROVE  Kept(m, dirs, held, m', dirs', held')
<1>1. PICK role \in [Managed -> Roles] : VmInv(m, dirs, held, role)
  BY DEF Vm
<1>2. m' = page_free(m, pp) /\ held' = held \ {pp} /\ dirs' = dirs
  BY DEF PageFree
<1>3. VmInv(m', dirs', held', Recast(role, pp, "free")) /\ m'.mem = m.mem
  BY <1>1, <1>2, page_freeStep
<1>4. Recast(role, pp, "free") \in [Managed -> Roles]
  BY VmFacts, RecastFacts DEF Roles
<1>5. Vm(m', dirs', held')
  BY <1>3, <1>4 DEF Vm
<1>6. UserSame(m, m', dirs)
  BY <1>3 DEF UserSame, Walk
<1> QED
  BY <1>2, <1>5, <1>6, NoChange DEF Kept

(* page_insert, of a page that is held or mapped.                          *)
LEMMA PageInsertStep ==
  ASSUME Vm(m, dirs, held), NEW d \in dirs, NEW pp \in held \cup UserPages, NEW v \in UserVas,
         NEW perm \in UserPerms, PageInsert(d, pp, v[1], v[2], perm)
  PROVE  Kept(m, dirs, held, m', dirs', held')
<1>1. PICK i, j : i = v[1] /\ j = v[2]
  OBVIOUS
<1>2. i \in UserPdx /\ j \in Ents /\ perm \in Perms
  BY <1>1, ClientAssumption
<1>3. PICK s2, ok : Inserted(m, d, pp, i, j, perm, s2, ok)
  BY DEF Inserted
<1>4. /\ m' = s2 /\ held' = (IF ok THEN held \ {pp} ELSE held) /\ dirs' = dirs
      /\ d # KERN_PGDIR /\ m.ref[pp] < MaxRef
  BY <1>1, <1>3 DEF PageInsert, Inserted
<1>5. Usable(m, dirs, held, pp)
  BY UserPagesUsable
<1>r. m.ref[pp] + 1 < REFMOD
  <2>1. PICK n : n = m.ref[pp]
    OBVIOUS
  <2>2. n \in 0 .. REFMOD - 1 /\ n < MaxRef
    <3>1. m \in Machine /\ pp \in Frames
      BY <1>5, VmFacts, LayoutFacts DEF Usable
    <3> QED BY <1>4, <2>1, <3>1, MachineFields
  <2> QED BY <2>1, <2>2, ClientAssumption, PhysAssumption
<1>6. InsertDone(m, s2, dirs, held, d, i, j, pp, perm, ok)
  BY <1>2, <1>3, <1>4, <1>5, <1>r, page_insertVm
<1>7. Vm(m', dirs', held') /\ OnlyAt(m, s2, dirs, d, i, j)
  BY <1>4, <1>6 DEF InsertDone
<1>8. dirs \cap dirs' = dirs
  BY <1>4
<1> QED
  BY <1>4, <1>6, <1>7, <1>8 DEF Kept, OneChange

(* page_remove, of an entry that is present.                               *)
LEMMA PageRemoveStep ==
  ASSUME Vm(m, dirs, held), NEW d \in dirs, NEW v \in UserVas, PageRemove(d, v[1], v[2])
  PROVE  Kept(m, dirs, held, m', dirs', held')
<1>1. PICK i, j : i = v[1] /\ j = v[2]
  OBVIOUS
<1>2. i \in UserPdx /\ j \in Ents
  BY <1>1, ClientAssumption
<1>3. Walk(m, d, i, j).p /\ m' = page_remove(m, d, i, j) /\ dirs' = dirs /\ held' = held
  BY <1>1 DEF PageRemove
<1>4. Vm(m', dirs, held) /\ OnlyAt(m, m', dirs, d, i, j)
  BY <1>2, <1>3, page_removeVm
<1>5. dirs \cap dirs' = dirs
  BY <1>3
<1> QED
  BY <1>3, <1>4, <1>5 DEF Kept, OneChange

(* env_setup_vm.                                                           *)
LEMMA SetupVmStep ==
  ASSUME Vm(m, dirs, held), SetupVm
  PROVE  Kept(m, dirs, held, m', dirs', held')
<1>1. PICK h, s2 : SetUp(m, h, s2)
  BY DEF SetUp
<1>2. /\ m' = s2 /\ dirs' = (IF h = NULL THEN dirs ELSE dirs \cup {h}) /\ held' = held
      /\ m.cr3 # NULL
  BY <1>1 DEF SetupVm, SetUp, Booted
<1>3. SetUpDone(m, s2, dirs, held, h)
  BY <1>1, <1>2, env_setup_vmVm
<1>4. Vm(m', dirs', held')
  BY <1>2, <1>3 DEF SetUpDone
<1> QED
  BY <1>2, <1>3, <1>4, NoChange DEF Kept, SetUpDone

(* env_free, its release of a page table.                                  *)
LEMMA FreeTableStep ==
  ASSUME Vm(m, dirs, held), NEW d \in dirs, NEW i \in UserPdx, FreeTable(d, i)
  PROVE  Kept(m, dirs, held, m', dirs', held')
<1>1. /\ d # KERN_PGDIR /\ d # m.cr3 /\ m.mem[d][i].p /\ \A l \in Ents : ~Walk(m, d, i, l).p
      /\ m' = free_table(m, d, i) /\ dirs' = dirs /\ held' = held
  BY DEF FreeTable
<1>2. Vm(m', dirs, held) /\ UserSame(m, m', dirs)
  BY <1>1, free_tableVm
<1> QED
  BY <1>1, <1>2, NoChange DEF Kept

(* env_free, its release of the directory.                                 *)
LEMMA FreeDirStep ==
  ASSUME Vm(m, dirs, held), NEW d \in dirs, FreeDir(d)
  PROVE  Kept(m, dirs, held, m', dirs', held')
<1>1. /\ d # KERN_PGDIR /\ d # m.cr3 /\ \A i \in UserPdx : ~m.mem[d][i].p
      /\ m' = page_decref(m, d) /\ dirs' = dirs \ {d} /\ held' = held
  BY DEF FreeDir
<1>2. Vm(m', dirs \ {d}, held) /\ UserSame(m, m', dirs \ {d})
  BY <1>1, FreeDirVm
<1>3. dirs \cap dirs' \subseteq dirs \ {d}
  BY <1>1
<1> QED
  BY <1>1, <1>2, <1>3, NoChange DEF Kept

(* Each step of the MMU, and the store of a user program.                  *)
LEMMA MmuSteps ==
  ASSUME Vm(m, dirs, held),
         \/ \E d \in dirs : LoadCr3(d)
         \/ \E v \in TlbVas : TlbFill(v[1], v[2])
         \/ \E v \in TlbVas : TlbEvict(v[1], v[2])
         \/ \E i, j \in Ents : UserWrite(i, j)
  PROVE  Kept(m, dirs, held, m', dirs', held')
<1>1. PICK role \in [Managed -> Roles] : VmInv(m, dirs, held, role)
  BY DEF Vm
<1>2. m \in Machine /\ m.panic = FALSE /\ dirs \subseteq Frames
  BY VmFacts
<1>v. \A v \in TlbVas : v[1] \in Ents /\ v[2] \in Ents
  BY ClientAssumption
<1>3. SUFFICES Vm(m', dirs, held) /\ UserSame(m, m', dirs) /\ dirs' = dirs /\ held' = held
  BY NoChange DEF Kept
<1>4. ASSUME NEW d \in dirs, LoadCr3(d)
      PROVE  Vm(m', dirs, held) /\ UserSame(m, m', dirs) /\ dirs' = dirs /\ held' = held
  <2>1. m' = lcr3(m, d) /\ dirs' = dirs /\ held' = held
    BY <1>4 DEF LoadCr3
  <2>2. Vm(m', dirs, held) /\ UserSame(m, m', dirs)
    BY <2>1, lcr3Vm
  <2> QED BY <2>1, <2>2
<1>5. ASSUME NEW v \in TlbVas, TlbFill(v[1], v[2])
      PROVE  Vm(m', dirs, held) /\ UserSame(m, m', dirs) /\ dirs' = dirs /\ held' = held
  <2>1. PICK i, j : i = v[1] /\ j = v[2]
    OBVIOUS
  <2>2. /\ m.cr3 # NULL /\ Walk(m, m.cr3, i, j).p /\ Filled(m, i, j, m')
        /\ dirs' = dirs /\ held' = held /\ i \in Ents /\ j \in Ents
    BY <1>5, <1>v, <2>1 DEF TlbFill, Booted, Filled
  <2>3. Vm(m', dirs, held) /\ UserSame(m, m', dirs)
    BY <2>2, FillVm
  <2> QED BY <2>2, <2>3
<1>6. ASSUME NEW v \in TlbVas, TlbEvict(v[1], v[2])
      PROVE  Vm(m', dirs, held) /\ UserSame(m, m', dirs) /\ dirs' = dirs /\ held' = held
  <2>1. PICK i, j : i = v[1] /\ j = v[2]
    OBVIOUS
  <2>2. /\ m' = tlb_invalidate(m, i, j) /\ i \in Ents /\ j \in Ents
        /\ dirs' = dirs /\ held' = held
    BY <1>6, <1>v, <2>1 DEF TlbEvict, tlb_invalidate
  <2>3. VmInv(m', dirs, held, role) /\ UserSame(m, m', dirs)
    BY <1>1, <2>2, EvictStep
  <2> QED BY <2>2, <2>3 DEF Vm
<1>7. ASSUME NEW i \in Ents, NEW j \in Ents, UserWrite(i, j)
      PROVE  Vm(m', dirs, held) /\ UserSame(m, m', dirs) /\ dirs' = dirs /\ held' = held
  <2>1. PICK c \in Contents : m' = store(m, i, j, c)
    BY <1>7 DEF UserWrite
  <2>2. c \in [Ents -> PTE] /\ CanStore(m, i, j) /\ m.cr3 # NULL /\ dirs' = dirs /\ held' = held
    BY <1>7, ClientAssumption DEF UserWrite, Booted
  <2>3. Vm(m', dirs, held) /\ UserSame(m, m', dirs)
    BY <2>1, <2>2, storeVm
  <2> QED BY <2>2, <2>3
<1> QED
  BY <1>4, <1>5, <1>6, <1>7

(* Every step keeps the roles, and changes one translation at most.        *)
LEMMA NextKept ==
  ASSUME IInv, [Next]_vars
  PROVE  Kept(m, dirs, held, m', dirs', held')
<1>t. TypeOK /\ Vm(m, dirs, held)
  BY DEF IInv
<1>1. CASE boot_map_region \/ install_kern_pgdir
  BY <1>t, <1>1, BootSteps
<1>2. CASE PageAlloc
  BY <1>t, <1>2, PageAllocStep
<1>3. CASE \E pp \in held : PageFree(pp)
  BY <1>t, <1>3, PageFreeStep
<1>4. CASE \E d \in dirs, pp \in held \cup UserPages, v \in UserVas, perm \in UserPerms :
             PageInsert(d, pp, v[1], v[2], perm)
  BY <1>t, <1>4, PageInsertStep
<1>5. CASE \E d \in dirs, v \in UserVas : PageRemove(d, v[1], v[2])
  BY <1>t, <1>5, PageRemoveStep
<1>6. CASE SetupVm
  BY <1>t, <1>6, SetupVmStep
<1>7. CASE \E d \in dirs, i \in UserPdx : FreeTable(d, i)
  BY <1>t, <1>7, FreeTableStep
<1>8. CASE \E d \in dirs : FreeDir(d)
  BY <1>t, <1>8, FreeDirStep
<1>9. CASE \/ \E d \in dirs : LoadCr3(d)
           \/ \E v \in TlbVas : TlbFill(v[1], v[2])
           \/ \E v \in TlbVas : TlbEvict(v[1], v[2])
           \/ \E i, j \in Ents : UserWrite(i, j)
  BY <1>t, <1>9, MmuSteps
<1>10. CASE UNCHANGED vars
  <2>1. m' = m /\ dirs' = dirs /\ held' = held
    BY <1>10 DEF vars
  <2>2. UserSame(m, m', dirs) /\ Vm(m', dirs', held')
    BY <1>t, <2>1 DEF UserSame
  <2> QED BY <2>1, <2>2, NoChange DEF Kept
<1> QED
  BY <1>1, <1>2, <1>3, <1>4, <1>5, <1>6, <1>7, <1>8, <1>9, <1>10 DEF Next

(* The invariant is inductive.                                             *)
LEMMA Inductive ==
  /\ Init => IInv
  /\ IInv /\ [Next]_vars => IInv'
<1>1. Init => IInv
  BY InitType, InitVm DEF IInv
<1>2. ASSUME IInv, [Next]_vars PROVE IInv'
  <2>1. TypeOK'
    BY <1>2, NextType DEF IInv
  <2>2. Vm(m', dirs', held')
    BY <1>2, NextKept DEF Kept
  <2> QED BY <2>1, <2>2 DEF IInv
<1> QED
  BY <1>1, <1>2

(* A set that lies in a set of one element has one element at most.        *)
LEMMA AtMostOne ==
  ASSUME NEW S, NEW x, S \subseteq {x}
  PROVE  Cardinality(S) <= 1
<1>1. IsFiniteSet({x}) /\ Cardinality({x}) = 1
  BY FS_Singleton
<1>2. Cardinality(S) <= Cardinality({x})
  BY <1>1, FS_Subset
<1> QED
  BY <1>1, <1>2

(* A step changes one translation at most.                                 *)
LEMMA StepChanges ==
  ASSUME IInv, [Next]_vars
  PROVE  Cardinality(Changed) <= 1
<1>1. OneChange(m, m', dirs \cap dirs')
  BY NextKept DEF Kept
<1>2. PICK d, i, j : OnlyAt(m, m', dirs \cap dirs', d, i, j)
  BY <1>1 DEF OneChange
<1>3. Changed \subseteq {<<d, i, j>>}
  BY <1>2 DEF Changed, OnlyAt
<1> QED
  BY <1>3, AtMostOne

-----------------------------------------------------------------------------
(* The invariant of the roles holds in every state that kern/pmap.c, the   *)
(* MMU and the user programs can reach, for every amount of memory, every  *)
(* layout, every bound and every number of environments.                   *)
THEOREM Invariance == Spec => []IInv
<1>1. Init => IInv
  BY Inductive
<1>2. IInv /\ [Next]_vars => IInv'
  BY Inductive
<1> QED
  BY <1>1, <1>2, PTL DEF Spec

(* page_free never panics ("pp->pp_ref is nonzero or pp->pp_link is not    *)
(* NULL."), in any order of the clients' calls.                            *)
THEOREM NeverPanics == Spec => []NoPanic
<1>1. IInv => NoPanic
  BY PropertiesFollow
<1> QED
  BY <1>1, Invariance, PTL

(* page_free_list holds the pages that nothing uses, and those only:       *)
(* page_alloc never gives out a page in use, and none is leaked.           *)
THEOREM FreeListIsExact == Spec => []FreeListExact
<1>1. IInv => FreeListExact
  BY PropertiesFollow
<1> QED
  BY <1>1, Invariance, PTL

(* pp_ref, which pgdir_walk, page_insert, env_setup_vm and page_decref     *)
(* count, is the number of references that there are.                      *)
THEOREM RefCountsAreExact == Spec => []RefCountExact
<1>1. IInv => RefCountExact
  BY PropertiesFollow
<1> QED
  BY <1>1, Invariance, PTL

(* The directories that env_setup_vm made have the kernel part of          *)
(* kern_pgdir as long as they exist.                                       *)
THEOREM KernelPartIsShared == Spec => []KernelPartShared
<1>1. IInv => KernelPartShared
  BY PropertiesFollow
<1> QED
  BY <1>1, Invariance, PTL

(* No page that the kernel uses for itself is writable by user programs,   *)
(* through page tables or through what the TLB still holds.                *)
THEOREM UsersAreIsolated == Spec => []Isolation
<1>1. IInv => Isolation
  BY PropertiesFollow
<1> QED
  BY <1>1, Invariance, PTL

(* The calls of tlb_invalidate and lcr3 in the code are enough: no cached  *)
(* translation leads elsewhere than the tables in force.                   *)
THEOREM TlbIsSound == Spec => []TlbSound
<1>1. IInv => TlbSound
  BY PropertiesFollow
<1> QED
  BY <1>1, Invariance, PTL

(* No operation of kern/pmap.h changes what more than one user address     *)
(* means, however page tables are shared and pages reused.                 *)
THEOREM OneTranslationAtATime == Spec => OneTranslation
<1>1. IInv /\ [Next]_vars => [Cardinality(Changed) <= 1]_vars
  BY StepChanges
<1>2. Spec => [][Cardinality(Changed) <= 1]_vars
  BY <1>1, Invariance, PTL DEF Spec
<1> QED
  BY <1>2 DEF OneTranslation

=============================================================================
