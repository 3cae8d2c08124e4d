------------------------------ MODULE MemInit ------------------------------
(***************************************************************************)
(* mem_init of kern/pmap.c from page_init to its end, with the self-tests  *)
(* between its steps: check_page_free_list, check_page_alloc, check_page,  *)
(* check_kern_pgdir and check_page_installed_pgdir.                        *)
(*                                                                         *)
(* The tests use the allocator and kern_pgdir themselves: they steal the   *)
(* free list, map pages at 0 and PGSIZE, and undo it all by hand.  Until   *)
(* %cr3 is loaded the kernel runs on entry_pgdir, which maps one page      *)
(* table's worth of memory only.                                           *)
(*                                                                         *)
(*   pc   the test, or the part of it, that runs next                      *)
(*   t    its local variables                                              *)
(* The other variables are those of Pmap, whose boot_map_region, load of   *)
(* %cr3 and MMU are part of this specification.  A failed assert is a      *)
(* panic.                                                                  *)
(***************************************************************************)
EXTENDS Pmap

CONSTANTS
  UPAGESX, UENVSX,   \* PDX(UPAGES), PDX(UENVS)
  KERNBASEX,         \* PDX(KERNBASE); KSTACKTOP is KERNBASE
  PAGES, ENVS,       \* the frames of pages[] and envs[], from boot_alloc
  BOOTSTACK,         \* the frame of bootstack, in the kernel's image
  PAGEINFOS,         \* PGSIZE / sizeof(struct PageInfo)
  ENVPAGES,          \* ROUNDUP(NENV * sizeof(struct Env), PGSIZE) / PGSIZE
  KSTKPAGES          \* KSTKSIZE / PGSIZE

VARIABLES pc, t
allvars == <<m, boot, dirs, held, pc, t>>

ASSUME MemInitAssumption ==
  /\ KERNBASEX \in KernPdx /\ UPAGESX \in KernPdx /\ UENVSX \in KernPdx
  /\ PAGEINFOS \in Nat \ {0} /\ ENVPAGES \in Nat /\ KSTKPAGES \in 1 .. NENT - 1
  /\ {PAGES, ENVS, BOOTSTACK} \subseteq EXTPHYSPAGE .. FIRSTFREE - 1

(* The arguments of the four calls of boot_map_region in mem_init.  The    *)
(* first passes a size that boot_map_region rounds down to pages, so that  *)
(* the last page of pages[] is left out if it is not full.                 *)
mem_init_regions ==
  << [va |-> UPAGESX * NENT, n |-> npages \div PAGEINFOS, pa |-> PAGES,
      perm |-> {"U"}],
     [va |-> UENVSX * NENT, n |-> ENVPAGES, pa |-> ENVS, perm |-> {"U"}],
     [va |-> KERNBASEX * NENT - KSTKPAGES, n |-> KSTKPAGES, pa |-> BOOTSTACK,
      perm |-> {"W"}],
     [va |-> KERNBASEX * NENT, n |-> (NENT - KERNBASEX) * NENT, pa |-> 0,
      perm |-> {"W"}] >>

(* The words that the tests fill pages with, read as entries: the bytes 1, *)
(* 2, 3, 0x97 and 0xFF, of which all but 2 have the present bit.           *)
Word01 == MkPTE(1, {})
Word02 == [p |-> FALSE, pa |-> 2, perm |-> {"W"}]
Word03 == MkPTE(3, {"W"})
Word97 == MkPTE(npages - 1, RWU)
WordFF == MkPTE(npages - 2, RWU)
fill(ma, f, w) == [ma EXCEPT !.mem[f] = [j \in Ents |-> w]]

(* The pages on page_free_list, in the order of the list.  A list that     *)
(* runs in a circle is cut after npages pages.                             *)
RECURSIVE ListFrom(_, _, _)
ListFrom(ma, h, n) ==
  IF h = NULL \/ n = 0 THEN << >> ELSE << h >> \o ListFrom(ma, ma.link[h], n - 1)
FreeList(ma) == ListFrom(ma, ma.head, npages)
Elems(s) == {s[n] : n \in DOMAIN s}

(* check_va2pa(pgdir, va): ~0 is NULL here.                                *)
check_va2pa(ma, i, j) ==
  IF Walk(ma, KERN_PGDIR, i, j).p THEN Walk(ma, KERN_PGDIR, i, j).pa ELSE NULL

-----------------------------------------------------------------------------
Init0 ==
  /\ \E c \in Contents :
       m = [ref |-> page_init_ref, link |-> page_init_link, head |-> page_init_head,
            mem |-> [f \in Frames |-> IF f = KERN_PGDIR THEN kern_pgdir_init ELSE c],
            cr3 |-> NULL, tlb |-> EmptyTlb, panic |-> FALSE]
  /\ boot = [r |-> 1, k |-> 0] /\ dirs = {KERN_PGDIR} /\ held = {}
  /\ pc = "free_list_low"
  /\ t = [pp0 |-> NULL, pp1 |-> NULL, pp2 |-> NULL, fl |-> NULL, nfree |-> 0]

(* A part of a test begins at 'from'.  It leaves a machine state and its   *)
(* locals if its assertions hold.                                          *)
At(from) == pc = from /\ ~m.panic
Test(to, asserts, m2, t2) ==
  /\ m' = IF asserts THEN m2 ELSE [m EXCEPT !.panic = TRUE]
  /\ t' = t2
  /\ pc' = to
  /\ UNCHANGED <<boot, dirs, held>>

(* Whether a page is below the first 4MB, which entry_pgdir maps.          *)
Low(f) == f \div NENT < 1
High(f) == ~Low(f)

(* Mutant: the pages with higher addresses are moved first.                *)
low_first_swapped(s) == SelectSeq(s, High) \o SelectSeq(s, Low)

low_first(s) == SelectSeq(s, Low) \o SelectSeq(s, High)

relink(ma, s) ==
  [ma EXCEPT !.head = IF s = << >> THEN NULL ELSE s[1],
             !.link = [f \in Frames |->
                IF \E n \in 1 .. Len(s) - 1 : s[n] = f
                THEN s[1 + CHOOSE n \in 1 .. Len(s) - 1 : s[n] = f]
                ELSE IF s # << >> /\ s[Len(s)] = f THEN NULL ELSE ma.link[f]]]

(* check_page_free_list(only_low_memory): sort the list, spoil the first   *)
(* 128 bytes of the pages that are mapped, and look at every page.         *)
check_page_free_list(only_low_memory, from, to) ==
  /\ At(from)
  /\ \E m1 \in {IF only_low_memory THEN relink(m, low_first(FreeList(m))) ELSE m} :
     \E L \in {Elems(FreeList(m1))} :
       Test(to,
            /\ m.head # NULL
            /\ \A f \in L : /\ f \notin {0, IOPHYSPAGE, EXTPHYSPAGE - 1, EXTPHYSPAGE}
                            /\ f < EXTPHYSPAGE \/ f >= FIRSTFREE
            /\ \E f \in L : f < EXTPHYSPAGE
            /\ \E f \in L : f >= EXTPHYSPAGE,
            [m1 EXCEPT !.mem = [f \in Frames |->
               IF f \in L /\ (only_low_memory => Low(f))
               THEN [m1.mem[f] EXCEPT ![0] = Word97] ELSE m1.mem[f]]],
            t)

-----------------------------------------------------------------------------
(* Three calls of page_alloc(0).                                           *)
alloc3(ma) ==
  LET a0 == page_alloc(ma, FALSE)
      a1 == page_alloc(a0.m, FALSE)
      a2 == page_alloc(a1.m, FALSE)
  IN  [m |-> a2.m, pp0 |-> a0.pp, pp1 |-> a1.pp, pp2 |-> a2.pp,
       ok |-> NULL \notin {a0.pp, a1.pp, a2.pp} /\ Cardinality({a0.pp, a1.pp, a2.pp}) = 3]
free3(ma, l) == page_free(page_free(page_free(ma, l.pp0), l.pp1), l.pp2)
no_free(ma) == page_alloc(ma, FALSE).pp = NULL
steal(ma) == [ma EXCEPT !.head = NULL]

(* check_page_alloc and check_page begin alike: take three pages, and      *)
(* steal the rest of the list.                                             *)
take_pages(from, to) ==
  /\ At(from)
  /\ \E a \in {alloc3(m)} :
       Test(to, a.ok /\ no_free(steal(a.m)), steal(a.m),
            [pp0 |-> a.pp0, pp1 |-> a.pp1, pp2 |-> a.pp2, fl |-> a.m.head,
             nfree |-> Len(FreeList(m))])

(* ... and end alike: give the list back and free the three pages.         *)
give_back(from, to, counted) ==
  /\ At(from)
  /\ \E m1 \in {free3([m EXCEPT !.head = t.fl], t)} :
       Test(to, ~m1.panic /\ (counted => Len(FreeList(m1)) = t.nfree), m1, t)

(* Free and re-allocate the three pages.                                   *)
check_alloc_again ==
  /\ At("alloc_again")
  /\ \E a \in {alloc3(free3(m, t))} :
       Test("alloc_zero", a.ok /\ no_free(a.m), a.m,
            [t EXCEPT !.pp0 = a.pp0, !.pp1 = a.pp1, !.pp2 = a.pp2])

(* ALLOC_ZERO clears a page that was written to.                           *)
check_alloc_zero ==
  /\ At("alloc_zero")
  /\ \E a \in {page_alloc(page_free(fill(m, t.pp0, Word01), t.pp0), TRUE)} :
       Test("alloc_end", a.pp = t.pp0 /\ a.m.mem[a.pp] = ZeroPage, a.m, t)

check_page_alloc ==
  \/ take_pages("alloc", "alloc_again")
  \/ check_alloc_again
  \/ check_alloc_zero
  \/ give_back("alloc_end", "page", TRUE)

-----------------------------------------------------------------------------
insert(ma, pp, i, j, perm) == page_insert(ma, KERN_PGDIR, pp, i, j, perm)
remove(ma, i, j) == page_remove(ma, KERN_PGDIR, i, j)
pte(ma, i, j) == Walk(ma, KERN_PGDIR, i, j)
Refs(ma, r0, r1, r2) ==
  ma.ref[t.pp0] = r0 /\ ma.ref[t.pp1] = r1 /\ ma.ref[t.pp2] = r2

(* Nothing is mapped at 0 and no page table can be made; pp0, once freed,  *)
(* becomes the page table, and pp1 and pp2 are mapped.                     *)
check_page_map ==
  /\ At("page_map")
  /\ \E a \in {insert(page_free(m, t.pp0), t.pp1, 0, 0, {"W"})} :
     \E b \in {insert(a.m, t.pp2, 0, 1, {"W"})} :
       Test("page_perm",
            /\ page_lookup(m, KERN_PGDIR, 0, 0) = NULL
            /\ ~insert(m, t.pp1, 0, 0, {"W"}).ok
            /\ a.ok /\ a.m.mem[KERN_PGDIR][0].pa = t.pp0
            /\ check_va2pa(a.m, 0, 0) = t.pp1
            /\ b.ok /\ check_va2pa(b.m, 0, 1) = t.pp2
            /\ Refs(b.m, 1, 1, 1) /\ no_free(b.m),
            b.m, t)

(* pp2 is mapped again where it is: as it was, with PTE_U, and without.    *)
check_page_perm ==
  /\ At("page_perm")
  /\ \E a \in {insert(m, t.pp2, 0, 1, {"W"})} :
     \E b \in {insert(a.m, t.pp2, 0, 1, RWU)} :
     \E c \in {insert(b.m, t.pp2, 0, 1, {"W"})} :
       Test("page_replace",
            /\ a.ok /\ check_va2pa(a.m, 0, 1) = t.pp2 /\ Refs(a.m, 1, 1, 1)
            /\ no_free(a.m)
            /\ pgdir_walk(a.m, KERN_PGDIR, 0, FALSE).pt = a.m.mem[KERN_PGDIR][0].pa
            /\ b.ok /\ check_va2pa(b.m, 0, 1) = t.pp2 /\ Refs(b.m, 1, 1, 1)
            /\ "U" \in pte(b.m, 0, 1).perm /\ "U" \in b.m.mem[KERN_PGDIR][0].perm
            /\ c.ok /\ pte(c.m, 0, 1).perm = {"W"},
            c.m, t)

(* No page table can be made for PTSIZE; pp1 replaces pp2, which is free.  *)
check_page_replace ==
  /\ At("page_replace")
  /\ \E a \in {insert(m, t.pp1, 0, 1, {"W"})} :
     \E b \in {page_alloc(a.m, FALSE)} :
       Test("page_unmap",
            /\ ~insert(m, t.pp0, 1, 0, {"W"}).ok
            /\ a.ok /\ "U" \notin pte(a.m, 0, 1).perm
            /\ check_va2pa(a.m, 0, 0) = t.pp1 /\ check_va2pa(a.m, 0, 1) = t.pp1
            /\ Refs(a.m, 1, 2, 0)
            /\ b.pp = t.pp2,
            b.m, t)

(* pp1 is unmapped at 0, mapped again at PGSIZE, and unmapped there.       *)
check_page_unmap ==
  /\ At("page_unmap")
  /\ \E m1 \in {remove(m, 0, 0)} :
     \E a \in {insert(m1, t.pp1, 0, 1, {})} :
     \E m2 \in {remove(a.m, 0, 1)} :
     \E b \in {page_alloc(m2, FALSE)} :
       Test("page_table",
            /\ ~m1.panic /\ check_va2pa(m1, 0, 0) = NULL
            /\ check_va2pa(m1, 0, 1) = t.pp1 /\ Refs(m1, 1, 1, 0)
            /\ a.ok /\ a.m.ref[t.pp1] # 0 /\ a.m.link[t.pp1] = NULL
            /\ ~m2.panic /\ check_va2pa(m2, 0, 0) = NULL
            /\ check_va2pa(m2, 0, 1) = NULL /\ Refs(m2, 1, 0, 0)
            /\ b.pp = t.pp1 /\ no_free(b.m),
            b.m, t)

(* kern_pgdir[i] = 0; pp0->pp_ref = 0                                      *)
take_back(ma, i) == [ma EXCEPT !.mem[KERN_PGDIR][i] = ZeroPTE, !.ref[t.pp0] = 0]

(* pp0 is taken back by force, and is the page table of PTSIZE + PGSIZE,   *)
(* and again that of 0, full of ones, which pgdir_walk must clear.         *)
check_page_table ==
  /\ At("page_table")
  /\ \E m1 \in {page_free(take_back(m, 0), t.pp0)} :
     \E a \in {pgdir_walk(m1, KERN_PGDIR, 1, TRUE)} :
     \E m2 \in {page_free(fill(take_back(a.m, 1), t.pp0, WordFF), t.pp0)} :
     \E b \in {pgdir_walk(m2, KERN_PGDIR, 0, TRUE)} :
       Test("page_end",
            /\ m.mem[KERN_PGDIR][0].pa = t.pp0 /\ m.ref[t.pp0] = 1
            /\ ~m1.panic /\ a.pt # NULL /\ a.m.mem[KERN_PGDIR][1].pa = a.pt
            /\ ~m2.panic /\ b.pt = t.pp0
            /\ \A j \in Ents : ~b.m.mem[t.pp0][j].p,
            take_back(b.m, 0), t)

check_page ==
  \/ take_pages("page", "page_map")
  \/ check_page_map
  \/ check_page_perm
  \/ check_page_replace
  \/ check_page_unmap
  \/ check_page_table
  \/ give_back("page_end", "map", FALSE)

-----------------------------------------------------------------------------
(* mem_init maps the kernel part of the address space.                     *)
MapRegions ==
  /\ pc = "map"
  /\ boot_map_region
  /\ pc' = IF boot'.r > Len(Regions) THEN "kern_pgdir" ELSE "map"
  /\ UNCHANGED t

(* The pages that the first n entries of an array of the kernel, 'per' of  *)
(* them in a page, lie in.                                                 *)
ROUNDUP(n, per) == (n + per - 1) \div per

(* check_kern_pgdir: the four regions, the guard below the stack, and the  *)
(* directory entries, of which those that are not used are zero.           *)
MappedTo(va, n, pa) ==
  \A k \in 0 .. n - 1 : check_va2pa(m, PDX(va + k), PTX(va + k)) = pa + k
check_kern_pgdir ==
  /\ At("kern_pgdir")
  /\ Test("switch",
          /\ MappedTo(UPAGESX * NENT, ROUNDUP(npages, PAGEINFOS), PAGES)
          /\ MappedTo(UENVSX * NENT, ENVPAGES, ENVS)
          /\ MappedTo(KERNBASEX * NENT, npages, 0)
          /\ MappedTo(KERNBASEX * NENT - KSTKPAGES, KSTKPAGES, BOOTSTACK)
          /\ check_va2pa(m, KERNBASEX - 1, 0) = NULL
          /\ \A i \in Ents :
               IF i \in {UVPTX, KERNBASEX - 1, UPAGESX, UENVSX} THEN m.mem[KERN_PGDIR][i].p
               ELSE IF i >= KERNBASEX
               THEN m.mem[KERN_PGDIR][i].p /\ "W" \in m.mem[KERN_PGDIR][i].perm
               ELSE m.mem[KERN_PGDIR][i] = ZeroPTE,
          m, t)

SwitchPgdir ==
  /\ pc = "switch"
  /\ install_kern_pgdir
  /\ pc' = "free_list_all"
  /\ UNCHANGED t

-----------------------------------------------------------------------------
(* The first word of the page at va, as the processor reads it.            *)
word(ma, i, j) == ma.mem[InForce(ma, i, j).pa][0]

(* check_page_installed_pgdir reads through the mapping of pp1 at PGSIZE,  *)
(* whose page table is pp0 ...                                             *)
check_installed_map ==
  /\ At("installed")
  /\ \E a \in {alloc3(m)} :
     \E m1 \in {fill(fill(page_free(a.m, a.pp0), a.pp1, Word01), a.pp2, Word02)} :
     \E b \in {insert(m1, a.pp1, 0, 1, {"W"})} :
       Test("installed_replace",
            a.ok /\ b.m.ref[a.pp1] = 1 /\ InForce(b.m, 0, 1).p /\ word(b.m, 0, 1) = Word01,
            b.m, [t EXCEPT !.pp0 = a.pp0, !.pp1 = a.pp1, !.pp2 = a.pp2])

(* ... replaces it by pp2, writes through it,                              *)
check_installed_replace ==
  /\ At("installed_replace")
  /\ \E b \in {insert(m, t.pp2, 0, 1, {"W"})} :
     \E at \in {InForce(b.m, 0, 1)} :
       Test("installed_unmap",
            /\ at.p /\ word(b.m, 0, 1) = Word02
            /\ b.m.ref[t.pp2] = 1 /\ b.m.ref[t.pp1] = 0
            /\ "W" \in at.perm /\ at.pa = t.pp2,
            [b.m EXCEPT !.mem[at.pa][0] = Word03], t)

(* ... unmaps it, and takes pp0 back.                                      *)
check_installed_unmap ==
  /\ At("installed_unmap")
  /\ \E m1 \in {remove(m, 0, 1)} :
       Test("installed_end", ~m1.panic /\ m1.ref[t.pp2] = 0, m1, t)
check_installed_end ==
  /\ At("installed_end")
  /\ \E m1 \in {page_free(take_back(m, 0), t.pp0)} :
       Test("done",
            m.mem[KERN_PGDIR][0].pa = t.pp0 /\ m.ref[t.pp0] = 1 /\ ~m1.panic, m1, t)

check_page_installed_pgdir ==
  check_installed_map \/ check_installed_replace \/ check_installed_unmap
    \/ check_installed_end

-----------------------------------------------------------------------------
Mmu ==
  /\ \E v \in TlbVas : TlbFill(v[1], v[2]) \/ TlbEvict(v[1], v[2])
  /\ UNCHANGED <<pc, t>>

Next0 ==
  \/ check_page_free_list(TRUE, "free_list_low", "alloc")
  \/ check_page_alloc
  \/ check_page
  \/ MapRegions
  \/ check_kern_pgdir
  \/ SwitchPgdir
  \/ check_page_free_list(FALSE, "free_list_all", "installed")
  \/ check_page_installed_pgdir
  \/ Mmu

MemInitSpec == Init0 /\ [][Next0]_allvars

-----------------------------------------------------------------------------
(* TestsPass: no assertion of the self-tests fails and none of their calls *)
(* panics, whatever memory held when the machine came up and whatever the  *)
(* MMU has cached.  It takes an npages with which the PageInfos fill whole *)
(* pages: with another, mem_init passes a size (kern/pmap.c:154) that      *)
(* boot_map_region rounds down (334), and check_kern_pgdir, which rounds   *)
(* it up (655-657), does not find the last page of pages[].                *)
TestsPass == ~m.panic

(* LowBeforeSwitch: until kern_pgdir is loaded the kernel writes only to   *)
(* pages that entry_pgdir maps; the pages it allocates in the tests and    *)
(* for page tables are those that check_page_free_list moved to the front. *)
LowBeforeSwitch ==
  [][~Booted => \A f \in Frames : m'.mem[f] # m.mem[f] => Low(f)]_allvars

(* NoTrace: when the tests before the switch are over, and when all are,   *)
(* every page that page_init listed is free, or is a page table of the     *)
(* kernel part with one reference; the user part of kern_pgdir is empty    *)
(* and no translation of it is cached.                                     *)
NoTrace ==
  pc \in {"map", "kern_pgdir", "switch", "done"} =>
    LET L == FreeList(m)
    IN  /\ Cardinality(Elems(L)) = Len(L)
        /\ Elems(L) = Managed \ KernTables(m)
        /\ \A f \in Managed : m.ref[f] = IF f \in KernTables(m) THEN 1 ELSE 0
        /\ \A i \in UserPdx : m.mem[KERN_PGDIR][i] = ZeroPTE /\ m.tlb[i] = ZeroPage

=============================================================================
