----------------------------- MODULE PageTables -----------------------------
(***************************************************************************)
(* The two-level page tables of kern/pmap.c: pgdir_walk, boot_map_region,  *)
(* page_insert, page_lookup, page_remove and tlb_invalidate, as operators  *)
(* on the machine state of PhysPages.                                      *)
(*                                                                         *)
(* A page directory is named by the frame it is stored in.  A virtual      *)
(* address is the pair of its directory index i = PDX(va) and its table    *)
(* index j = PTX(va); the offset within the page plays no part.            *)
(***************************************************************************)
EXTENDS PhysPages

CONSTANTS
  UTOPX,       \* PDX(UTOP): the directory entries below it are the user part
  UVPTX,       \* PDX(UVPT): the entry that maps the directory onto itself
  KERN_PGDIR   \* the frame of kern_pgdir, from boot_alloc

ASSUME LayoutAssumption ==
  /\ UTOPX \in Nat /\ UVPTX \in Nat
  /\ 0 < UTOPX /\ UTOPX <= UVPTX /\ UVPTX < NENT
  /\ KERN_PGDIR \in EXTPHYSPAGE .. FIRSTFREE - 1

UserPdx == 0 .. UTOPX - 1
KernPdx == UTOPX .. NENT - 1
RWU     == {"W", "U"}

(* invlpg(va)                                                              *)
tlb_invalidate(m, i, j) == [m EXCEPT !.tlb[i][j] = ZeroPTE]

(* lcr3(PADDR(pgdir)): a load of %cr3 flushes the TLB.                     *)
EmptyTlb == [i \in Ents |-> ZeroPage]
lcr3(m, d) == [m EXCEPT !.cr3 = d, !.tlb = EmptyTlb]

(* Mutant: the new page table is not counted.                              *)
pgdir_walk_uncounted(m, d, i, create) ==
  IF m.mem[d][i].p THEN [m |-> m, pt |-> m.mem[d][i].pa]
  ELSE IF ~create THEN [m |-> m, pt |-> NULL]
  ELSE LET r == page_alloc(m, TRUE)
       IN  IF r.pp = NULL THEN [m |-> r.m, pt |-> NULL]
           ELSE [m |-> [r.m EXCEPT !.mem[d][i] = MkPTE(r.pp, RWU)], pt |-> r.pp]

(* pgdir_walk(pgdir, va, create): pt is the frame of the page table that   *)
(* holds the entry of va, NULL when there is none and none can be made.    *)
pgdir_walk(m, d, i, create) ==
  IF m.mem[d][i].p THEN [m |-> m, pt |-> m.mem[d][i].pa]
  ELSE IF ~create THEN [m |-> m, pt |-> NULL]
  ELSE LET r == page_alloc(m, TRUE)
       IN  IF r.pp = NULL THEN [m |-> r.m, pt |-> NULL]
           ELSE [m |-> [r.m EXCEPT !.ref[r.pp] = (@ + 1) % REFMOD,
                                   !.mem[d][i] = MkPTE(r.pp, RWU)],
                 pt |-> r.pp]

(* page_lookup(pgdir, va, &pte): NULL only when va has no page table.  The *)
(* present bit of the entry is not tested, so the page of an entry that is *)
(* zero is &pages[0].                                                      *)
page_lookup(m, d, i, j) ==
  LET w == pgdir_walk(m, d, i, FALSE)
  IN  IF w.pt = NULL THEN NULL ELSE w.m.mem[w.pt][j].pa

(* Mutant: the stale translation stays in the TLB.                         *)
page_remove_no_invlpg(m, d, i, j) ==
  LET pp == page_lookup(m, d, i, j)
      m1 == page_decref(m, pp)
  IN  IF pp = NULL THEN m
      ELSE IF m1.panic THEN m1
      ELSE [m1 EXCEPT !.mem[m.mem[d][i].pa][j] = ZeroPTE]

(* Mutant: the reference is dropped but the entry is left in place.        *)
page_remove_keep_pte(m, d, i, j) ==
  LET pp == page_lookup(m, d, i, j)
      m1 == page_decref(m, pp)
  IN  IF pp = NULL THEN m
      ELSE IF m1.panic THEN m1
      ELSE tlb_invalidate(m1, i, j)

(* page_remove(pgdir, va): drop the reference, clear the entry, flush.     *)
page_remove(m, d, i, j) ==
  LET pp == page_lookup(m, d, i, j)
      m1 == page_decref(m, pp)
  IN  IF pp = NULL THEN m
      ELSE IF m1.panic THEN m1
      ELSE tlb_invalidate([m1 EXCEPT !.mem[m.mem[d][i].pa][j] = ZeroPTE], i, j)

(* *pgtab = page2pa(pp) | perm | PTE_P; pp->pp_ref++                       *)
map_counted(m, pt, j, pp, perm) ==
  [m EXCEPT !.mem[pt][j] = MkPTE(pp, perm), !.ref[pp] = (@ + 1) % REFMOD]

(* Mutant: the case of the same page is not singled out, so inserting a    *)
(* page where it already is frees it first.                                *)
page_insert_no_same_page(m, d, pp, i, j, perm) ==
  LET w  == pgdir_walk(m, d, i, TRUE)
      m1 == page_remove(w.m, d, i, j)
  IN  IF w.pt = NULL THEN [m |-> w.m, ok |-> FALSE]
      ELSE IF ~w.m.mem[w.pt][j].p
      THEN [m |-> map_counted(w.m, w.pt, j, pp, perm), ok |-> TRUE]
      ELSE IF m1.panic THEN [m |-> m1, ok |-> FALSE]
      ELSE [m |-> map_counted(m1, w.pt, j, pp, perm), ok |-> TRUE]

(* page_insert(pgdir, pp, va, perm): ok is FALSE for -E_NO_MEM.            *)
page_insert(m, d, pp, i, j, perm) ==
  LET w  == pgdir_walk(m, d, i, TRUE)
      m1 == page_remove(w.m, d, i, j)
  IN  IF w.pt = NULL THEN [m |-> w.m, ok |-> FALSE]
      ELSE IF ~w.m.mem[w.pt][j].p
      THEN [m |-> map_counted(w.m, w.pt, j, pp, perm), ok |-> TRUE]
      ELSE IF w.m.mem[w.pt][j].pa = pp
      THEN [m |-> [w.m EXCEPT !.mem[w.pt][j] = MkPTE(pp, perm)], ok |-> TRUE]
      ELSE IF m1.panic THEN [m |-> m1, ok |-> FALSE]
      ELSE [m |-> map_counted(m1, w.pt, j, pp, perm), ok |-> TRUE]

(* One iteration of boot_map_region: the entry of va is set, whatever it   *)
(* was, and no reference is counted; when no page table can be made the    *)
(* loop returns.                                                           *)
boot_map_page(m, d, i, j, pa, perm) ==
  LET w == pgdir_walk(m, d, i, TRUE)
  IN  IF w.pt = NULL THEN w.m
      ELSE [w.m EXCEPT !.mem[w.pt][j] = MkPTE(pa, perm)]

-----------------------------------------------------------------------------
(* Mutant: kern_pgdir's own entry at UVPT is left in the copy.             *)
env_setup_vm_no_uvpt(m) ==
  LET r == page_alloc(m, TRUE)
  IN  IF r.pp = NULL THEN r
      ELSE [m |-> [r.m EXCEPT !.mem[r.pp] = m.mem[KERN_PGDIR],
                              !.ref[r.pp] = (@ + 1) % REFMOD],
            pp |-> r.pp]

(* Mutant: the directory maps itself with PTE_W as well.                   *)
env_setup_vm_writable(m) ==
  LET r == page_alloc(m, TRUE)
  IN  IF r.pp = NULL THEN r
      ELSE [m |-> [r.m EXCEPT !.mem[r.pp] =
                     [m.mem[KERN_PGDIR] EXCEPT ![UVPTX] = MkPTE(r.pp, RWU)],
                              !.ref[r.pp] = (@ + 1) % REFMOD],
            pp |-> r.pp]

(* env_setup_vm: a directory copied from kern_pgdir, counted, and mapping  *)
(* itself read-only at UVPT.                                               *)
env_setup_vm(m) ==
  LET r == page_alloc(m, TRUE)
  IN  IF r.pp = NULL THEN r
      ELSE [m |-> [r.m EXCEPT !.mem[r.pp] =
                     [r.m.mem[KERN_PGDIR] EXCEPT ![UVPTX] = MkPTE(r.pp, {"U"})],
                              !.ref[r.pp] = (@ + 1) % REFMOD],
            pp |-> r.pp]

(* env_free, once the entries of a page table are all removed: clear the   *)
(* directory entry and release the table.                                  *)
free_table(m, d, i) ==
  page_decref([m EXCEPT !.mem[d][i] = ZeroPTE], m.mem[d][i].pa)

-----------------------------------------------------------------------------
(* What the MMU finds for va in page directory d.                          *)
Walk(m, d, i, j) ==
  IF m.mem[d][i].p THEN m.mem[m.mem[d][i].pa][j] ELSE ZeroPTE

(* The translation the MMU derives for an address: the permissions of the  *)
(* directory entry and of the table entry, both.                           *)
Translate(m, i, j) ==
  [Walk(m, m.cr3, i, j) EXCEPT !.perm = @ \cap m.mem[m.cr3][i].perm]

(* A store goes through the cached translation, or through the tables when *)
(* none is cached; CR0_WP makes the kernel respect PTE_W too.              *)
InForce(m, i, j) == IF m.tlb[i][j].p THEN m.tlb[i][j] ELSE Translate(m, i, j)
CanStore(m, i, j) == InForce(m, i, j).p /\ RWU \subseteq InForce(m, i, j).perm
store(m, i, j, c) == [m EXCEPT !.mem[InForce(m, i, j).pa] = c]

(* The frames used as page tables by the user part of the directories in D *)
(* and by the kernel part, which every directory shares with kern_pgdir.   *)
UserTables(m, D) ==
  {m.mem[x[1]][x[2]].pa : x \in {y \in D \X UserPdx : m.mem[y[1]][y[2]].p}}
KernTables(m) ==
  {m.mem[KERN_PGDIR][i].pa : i \in {k \in KernPdx \ {UVPTX} : m.mem[KERN_PGDIR][k].p}}

(* The references to frame f that pp_ref counts, when D is the set of page *)
(* directories in use, each as a triple: <<f, NULL, NULL>> for the         *)
(* env_pgdir that names f as a directory, <<d, i, NULL>> for a directory   *)
(* entry and <<d, i, j>> for an entry of a user page table.                *)
DirRefs(D, f) == (D \cap {f}) \X {NULL} \X {NULL}
PdeRefs(m, D, f) ==
  {x \in D \X Ents \X {NULL} :
     /\ x[2] \in UserPdx \/ (x[1] = KERN_PGDIR /\ x[2] # UVPTX)
     /\ m.mem[x[1]][x[2]].p /\ m.mem[x[1]][x[2]].pa = f}
PteRefs(m, D, f) ==
  {x \in D \X UserPdx \X Ents :
     Walk(m, x[1], x[2], x[3]).p /\ Walk(m, x[1], x[2], x[3]).pa = f}
RefsTo(m, D, f) == DirRefs(D, f) \cup PdeRefs(m, D, f) \cup PteRefs(m, D, f)

=============================================================================
