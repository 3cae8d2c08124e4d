-------------------------------- MODULE Pmap --------------------------------
(***************************************************************************)
(* The virtual memory manager of kern/pmap.c as a state machine: mem_init  *)
(* from page_init to the load of %cr3, then the operations of kern/pmap.h  *)
(* in any order a client may call them in, next to the MMU, which caches   *)
(* translations, and to the user program, which writes through them.       *)
(*                                                                         *)
(*   m      the machine state of PhysPages                                 *)
(*   boot   where mem_init is: iteration k of the loop of boot_map_region, *)
(*          in its call number r                                           *)
(*   dirs   the page directories in use: kern_pgdir and the env_pgdir's    *)
(*   held   pages that page_alloc returned and that are not mapped yet     *)
(***************************************************************************)
EXTENDS PageTables, Sequences

CONSTANTS
  Regions,     \* the arguments of mem_init's calls of boot_map_region
  Contents,    \* what the words of a page may be that nobody initialised
  UserVas,     \* the virtual addresses <<PDX, PTX>> that clients map
  TlbVas,      \* the virtual addresses whose translations the TLB may hold
  UserPerms,   \* the permissions that clients map with
  MaxDirs,     \* bound: page directories besides kern_pgdir
  MaxHeld,     \* bound: pages in held
  MaxRef,      \* bound: references to one page
  MaxTlb       \* the number of translations the TLB has room for

(* The directory and table index of page number v, PGNUM(va).              *)
PDX(v) == v \div NENT
PTX(v) == v % NENT

Region == [va : Nat, n : Nat, pa : Nat, perm : Perms]

ASSUME ClientAssumption ==
  /\ Regions \in Seq(Region)
  /\ \A r \in 1 .. Len(Regions) : \A k \in 0 .. Regions[r].n - 1 :
       /\ PDX(Regions[r].va + k) \in KernPdx \ {UVPTX}
       /\ PTX(Regions[r].va + k) \in Ents
       /\ Regions[r].pa + k \in Frames
       /\ "U" \in Regions[r].perm =>      \* user programs read what boot_alloc gave
            "W" \notin Regions[r].perm /\ Regions[r].pa + k \notin Managed
  /\ Contents \subseteq [Ents -> PTE] /\ Contents # {}
  /\ UserVas \subseteq UserPdx \X Ents
  /\ TlbVas \subseteq Ents \X Ents
  /\ UserPerms \subseteq Perms
  /\ MaxDirs \in Nat /\ MaxHeld \in Nat /\ MaxTlb \in Nat
  /\ MaxRef \in Nat /\ 0 < MaxRef /\ MaxRef < REFMOD

VARIABLES m, boot, dirs, held
vars == <<m, boot, dirs, held>>

-----------------------------------------------------------------------------
(* The physical pages that the user part of some directory maps.           *)
UserPages ==
  {Walk(m, x[1], x[2], x[3]).pa :
     x \in {y \in dirs \X UserPdx \X Ents : Walk(m, y[1], y[2], y[3]).p}}

(* The pages that hold kernel data structures: what boot_alloc handed out, *)
(* and the page directories and page tables.                               *)
BootFrames   == {0} \cup IOPHYSPAGE .. FIRSTFREE - 1
KernelFrames == BootFrames \cup dirs \cup UserTables(m, dirs) \cup KernTables(m)

Booted == m.cr3 # NULL

-----------------------------------------------------------------------------
(* mem_init up to page_init: kern_pgdir is zeroed and maps itself at UVPT; *)
(* the pages of the allocator have the contents they came up with.  The    *)
(* entry page directory, which is none of pages[], is in force.            *)
kern_pgdir_init == [ZeroPage EXCEPT ![UVPTX] = MkPTE(KERN_PGDIR, {"U"})]

Init ==
  /\ \E c \in [Frames -> Contents] :
       m = [ref |-> page_init_ref, link |-> page_init_link,
            head |-> page_init_head,
            mem |-> [c EXCEPT ![KERN_PGDIR] = kern_pgdir_init],
            cr3 |-> NULL, tlb |-> EmptyTlb, panic |-> FALSE]
  /\ boot = [r |-> 1, k |-> 0]
  /\ dirs = {KERN_PGDIR}
  /\ held = {}

(* Mutant: the loop stops one page early.                                  *)
boot_map_region_short ==
  /\ ~m.panic /\ ~Booted
  /\ boot.r <= Len(Regions)
  /\ LET g == Regions[boot.r]
         v == g.va + boot.k
         w == pgdir_walk(m, KERN_PGDIR, PDX(v), TRUE)
     IN  IF boot.k + 1 < g.n /\ w.pt # NULL
         THEN /\ m' = boot_map_page(m, KERN_PGDIR, PDX(v), PTX(v),
                                    g.pa + boot.k, g.perm)
              /\ boot' = [boot EXCEPT !.k = @ + 1]
         ELSE /\ boot' = [r |-> boot.r + 1, k |-> 0]
              /\ UNCHANGED m
  /\ UNCHANGED <<dirs, held>>

(* One round of the loop of boot_map_region.  The function returns after   *)
(* the last page, and silently when a page table cannot be allocated.      *)
boot_map_region ==
  /\ ~m.panic /\ ~Booted
  /\ boot.r <= Len(Regions)
  /\ LET g == Regions[boot.r]
         v == g.va + boot.k
         w == pgdir_walk(m, KERN_PGDIR, PDX(v), TRUE)
     IN  IF boot.k < g.n /\ w.pt # NULL
         THEN /\ m' = boot_map_page(m, KERN_PGDIR, PDX(v), PTX(v),
                                    g.pa + boot.k, g.perm)
              /\ boot' = [boot EXCEPT !.k = @ + 1]
         ELSE /\ boot' = [r |-> boot.r + 1, k |-> 0]
              /\ UNCHANGED m
  /\ UNCHANGED <<dirs, held>>

(* The end of mem_init: lcr3(PADDR(kern_pgdir)).                           *)
install_kern_pgdir ==
  /\ ~m.panic /\ ~Booted
  /\ boot.r > Len(Regions)
  /\ m' = lcr3(m, KERN_PGDIR)
  /\ UNCHANGED <<boot, dirs, held>>

-----------------------------------------------------------------------------
(* A client takes a page, as region_alloc does; a NULL result changes      *)
(* nothing.                                                                *)
PageAlloc ==
  /\ ~m.panic /\ Booted
  /\ Cardinality(held) < MaxHeld
  /\ LET r == page_alloc(m, FALSE)
     IN  /\ m' = r.m
         /\ held' = IF r.pp = NULL THEN held ELSE held \cup {r.pp}
  /\ UNCHANGED <<boot, dirs>>

(* A client gives a page back that it did not map.                         *)
PageFree(pp) ==
  /\ ~m.panic
  /\ m' = page_free(m, pp)
  /\ held' = held \ {pp}
  /\ UNCHANGED <<boot, dirs>>

(* A client maps a page it holds, or one that is mapped already, in the    *)
(* user part of an environment's directory.  MaxRef keeps pp_ref in its 16 *)
(* bits; page_insert itself does not look.                                 *)
PageInsert(d, pp, i, j, perm) ==
  /\ ~m.panic
  /\ d # KERN_PGDIR
  /\ m.ref[pp] < MaxRef
  /\ LET r == page_insert(m, d, pp, i, j, perm)
     IN  /\ m' = r.m
         /\ held' = IF r.ok THEN held \ {pp} ELSE held
  /\ UNCHANGED <<boot, dirs>>

(* page_remove, called as page_insert and env_free do: only for an address *)
(* whose entry is present.                                                 *)
PageRemove(d, i, j) ==
  /\ ~m.panic
  /\ d # KERN_PGDIR
  /\ Walk(m, d, i, j).p
  /\ m' = page_remove(m, d, i, j)
  /\ UNCHANGED <<boot, dirs, held>>

-----------------------------------------------------------------------------
(* env_setup_vm, for a new environment.                                    *)
SetupVm ==
  /\ ~m.panic /\ Booted
  /\ Cardinality(dirs) <= MaxDirs
  /\ LET r == env_setup_vm(m)
     IN  /\ m' = r.m
         /\ dirs' = IF r.pp = NULL THEN dirs ELSE dirs \cup {r.pp}
  /\ UNCHANGED <<boot, held>>

(* env_free, once it has removed all entries of a page table.              *)
FreeTable(d, i) ==
  /\ ~m.panic
  /\ d # KERN_PGDIR /\ d # m.cr3
  /\ m.mem[d][i].p
  /\ \A j \in Ents : ~Walk(m, d, i, j).p
  /\ m' = free_table(m, d, i)
  /\ UNCHANGED <<boot, dirs, held>>

(* The end of env_free: release the directory, its user part being empty.  *)
FreeDir(d) ==
  /\ ~m.panic
  /\ d # KERN_PGDIR /\ d # m.cr3
  /\ \A i \in UserPdx : ~m.mem[d][i].p
  /\ m' = page_decref(m, d)
  /\ dirs' = dirs \ {d}
  /\ UNCHANGED <<boot, held>>

(* lcr3 in env_run, load_icode and env_free.                               *)
LoadCr3(d) ==
  /\ ~m.panic /\ Booted
  /\ m' = lcr3(m, d)
  /\ UNCHANGED <<boot, dirs, held>>

-----------------------------------------------------------------------------
Cached == {v \in TlbVas : m.tlb[v[1]][v[2]].p}

(* The MMU may cache any translation, and drop one, at any time.           *)
TlbFill(i, j) ==
  /\ ~m.panic /\ Booted
  /\ Cardinality(Cached) < MaxTlb
  /\ Walk(m, m.cr3, i, j).p
  /\ m' = [m EXCEPT !.tlb[i][j] = Translate(m, i, j)]
  /\ UNCHANGED <<boot, dirs, held>>

TlbEvict(i, j) ==
  /\ ~m.panic
  /\ m.tlb[i][j].p
  /\ m' = [m EXCEPT !.tlb[i][j] = ZeroPTE]
  /\ UNCHANGED <<boot, dirs, held>>

(* The processor stores into a page, through the cached translation if     *)
(* there is one: the user program does, and load_icode when it copies.     *)
UserWrite(i, j) ==
  /\ ~m.panic /\ Booted
  /\ CanStore(m, i, j)
  /\ \E c \in Contents : m' = store(m, i, j, c)
  /\ UNCHANGED <<boot, dirs, held>>

Next ==
  \/ boot_map_region
  \/ install_kern_pgdir
  \/ PageAlloc
  \/ \E pp \in held : PageFree(pp)
  \/ \E d \in dirs, pp \in held \cup UserPages, v \in UserVas, perm \in UserPerms :
       PageInsert(d, pp, v[1], v[2], perm)
  \/ \E d \in dirs, v \in UserVas : PageRemove(d, v[1], v[2])
  \/ SetupVm
  \/ \E d \in dirs, i \in UserPdx : FreeTable(d, i)
  \/ \E d \in dirs : FreeDir(d)
  \/ \E d \in dirs : LoadCr3(d)
  \/ \E v \in TlbVas : TlbFill(v[1], v[2])
  \/ \E v \in TlbVas : TlbEvict(v[1], v[2])
  \/ \E i, j \in Ents : UserWrite(i, j)

Spec == Init /\ [][Next]_vars

-----------------------------------------------------------------------------
(* TypeOK: every variable has its type; pp_ref stays in 16 bits, and an    *)
(* entry, a link and %cr3 name existing pages.                             *)
TypeOK ==
  /\ m \in Machine
  /\ boot \in [r : Nat \ {0}, k : Nat]
  /\ dirs \in SUBSET Frames
  /\ held \in SUBSET Frames

(* NoPanic: page_free never meets a referenced or a listed page, whatever  *)
(* the order of the calls.                                                 *)
NoPanic == ~m.panic

(* FreeListExact: page_free_list holds the pages that page_init put there  *)
(* and that are used for nothing, and those only.  A page on it is not     *)
(* referenced, not held, neither a page table nor a directory, mapped by   *)
(* nobody and cached by no translation that a user program can use; a page *)
(* that is not on it is in use, so none is leaked.                         *)
FreeListExact ==
  LET InUse == held \cup KernelFrames \cup UserPages
      Free  == FreePages(m)
  IN  /\ Free \subseteq Managed
      /\ Managed \subseteq Free \cup InUse
      /\ \A f \in Free :
           /\ m.ref[f] = 0
           /\ f \notin InUse
           /\ \A i, j \in Ents :
                m.tlb[i][j].p /\ "U" \in m.tlb[i][j].perm => m.tlb[i][j].pa # f

(* RefCountExact: pp_ref of an allocated page is the number of directory   *)
(* and table entries and of env_pgdir's that point to it.                  *)
RefCountExact ==
  \A f \in Managed : m.ref[f] = Cardinality(RefsTo(m, dirs, f))

(* KernelPartShared: every directory has the kernel part of kern_pgdir,    *)
(* and maps itself at UVPT.                                                *)
KernelPartShared ==
  \A d \in dirs :
    /\ \A i \in KernPdx \ {UVPTX} : m.mem[d][i] = m.mem[KERN_PGDIR][i]
    /\ m.mem[d][UVPTX] = MkPTE(d, {"U"})

(* Isolation: no translation, in a directory or cached, lets user code     *)
(* write to a kernel data structure, a page directory or a page table.     *)
WritableByUser(pde, pte) ==
  pde.p /\ pte.p /\ RWU \subseteq pde.perm \cap pte.perm
Isolation ==
  LET K == KernelFrames
  IN  /\ \A d \in dirs, i, j \in Ents :
           WritableByUser(m.mem[d][i], Walk(m, d, i, j)) => Walk(m, d, i, j).pa \notin K
      /\ \A i, j \in Ents :
           WritableByUser(m.tlb[i][j], m.tlb[i][j]) => m.tlb[i][j].pa \notin K

(* TlbSound: a cached translation leads to the page that the directory in  *)
(* force maps at the address.                                              *)
TlbSound ==
  \A i, j \in Ents : m.tlb[i][j].p =>
    /\ Walk(m, m.cr3, i, j).p
    /\ m.tlb[i][j].pa = Walk(m, m.cr3, i, j).pa

(* OneTranslation: no step changes what more than one address of the user  *)
(* part means, in all the directories that exist before and after it.      *)
Changed ==
  {x \in (dirs \cap dirs') \X UserPdx \X Ents :
     Walk(m, x[1], x[2], x[3]) # Walk(m', x[1], x[2], x[3])}
OneTranslation == [][Cardinality(Changed) <= 1]_vars

=============================================================================
