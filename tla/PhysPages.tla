----------------------------- MODULE PhysPages -----------------------------
(***************************************************************************)
(* The physical page allocator of kern/pmap.c: the array pages[] of struct *)
(* PageInfo (pp_ref, pp_link), the list page_free_list, and the functions  *)
(* page_init, page_alloc, page_free and page_decref.                       *)
(*                                                                         *)
(* The kernel runs these functions to completion with interrupts off, and  *)
(* they call each other, so they are operators from a machine state m to   *)
(* the machine state they leave; the modules that extend this one make     *)
(* actions of them.  A machine state is the record                         *)
(*   ref    pp_ref of every page (a uint16_t)                              *)
(*   link   pp_link of every page                                          *)
(*   head   page_free_list                                                 *)
(*   mem    the contents of every page frame, read as page table entries   *)
(*   cr3    the page directory in force                                    *)
(*   tlb    the translations the MMU has cached                            *)
(*   panic  whether _panic was called: the kernel never leaves it          *)
(* A struct PageInfo is named by its index in pages[], which is also the   *)
(* page frame number page2pa(pp) >> PGSHIFT.                               *)
(***************************************************************************)
EXTENDS Integers, FiniteSets

CONSTANTS
  npages,          \* pages of physical memory
  npages_basemem,  \* pages of base memory
  IOPHYSPAGE,      \* IOPHYSMEM / PGSIZE, start of the I/O hole
  EXTPHYSPAGE,     \* EXTPHYSMEM / PGSIZE, end of the I/O hole
  FIRSTFREE,       \* PADDR(boot_alloc(0)) / PGSIZE, end of the boot allocations
  REFMOD,          \* 2^16: pp_ref is a uint16_t
  NENT             \* NPDENTRIES = NPTENTRIES

ASSUME PhysAssumption ==
  /\ npages \in Nat /\ npages_basemem \in Nat /\ IOPHYSPAGE \in Nat
  /\ EXTPHYSPAGE \in Nat /\ FIRSTFREE \in Nat
  /\ 0 < npages_basemem /\ npages_basemem <= IOPHYSPAGE
  /\ IOPHYSPAGE < EXTPHYSPAGE /\ EXTPHYSPAGE < FIRSTFREE /\ FIRSTFREE < npages
  /\ REFMOD \in Nat /\ 1 < REFMOD
  /\ NENT \in Nat /\ 0 < NENT

Frames == 0 .. npages - 1
NULL   == -1
Ents   == 0 .. NENT - 1

(* A page table or page directory entry: the present bit, the frame number *)
(* PTE_ADDR >> PGSHIFT, and the permission bits PTE_W and PTE_U.  The zero *)
(* word is not present and its address part is frame 0.                    *)
Perms == SUBSET {"W", "U"}
PTE   == [p : BOOLEAN, pa : Frames, perm : Perms]
ZeroPTE  == [p |-> FALSE, pa |-> 0, perm |-> {}]
ZeroPage == [j \in Ents |-> ZeroPTE]

MkPTE(pa, perm) == [p |-> TRUE, pa |-> pa, perm |-> perm]

Machine ==
  [ref   : [Frames -> 0 .. REFMOD - 1],
   link  : [Frames -> Frames \cup {NULL}],
   head  : Frames \cup {NULL},
   mem   : [Frames -> [Ents -> PTE]],
   cr3   : Frames \cup {NULL},
   tlb   : [Ents -> [Ents -> PTE]],
   panic : BOOLEAN]

-----------------------------------------------------------------------------
(* page_init: page 0, the I/O hole and everything boot_alloc handed out    *)
(* are in use; the rest of base memory and of extended memory is pushed on *)
(* page_free_list in increasing order.  Managed is the set of the pages    *)
(* that the two loops push.                                                *)
Managed == 1 .. npages_basemem - 1 \cup FIRSTFREE .. npages - 1

(* What page_free_list is when a loop pushes page f.                       *)
PrevPushed(f) ==
  CASE f = 1         -> NULL
    [] f = FIRSTFREE -> IF npages_basemem > 1 THEN npages_basemem - 1 ELSE NULL
    [] OTHER         -> f - 1

(* Mutant: the last loop runs to i <= npages.                              *)
page_init_head_long == npages

page_init_ref  == [f \in Frames |->
                     IF f = 0 \/ f \in IOPHYSPAGE .. FIRSTFREE - 1 THEN 1 ELSE 0]
page_init_link == [f \in Frames |-> IF f \in Managed THEN PrevPushed(f) ELSE NULL]
page_init_head == npages - 1

-----------------------------------------------------------------------------
(* memset(page2kva(pp), 0, PGSIZE)                                         *)
memset0(m, f) == [m EXCEPT !.mem[f] = ZeroPage]

(* Mutant: the head of the list is not moved on.                           *)
pop_free_stay(m) == [m EXCEPT !.ref[m.head] = 0, !.link[m.head] = NULL]

(* Take the page at the head of the list.                                  *)
pop_free(m) ==
  [m EXCEPT !.head = m.link[m.head], !.ref[m.head] = 0, !.link[m.head] = NULL]

(* Mutant: the contents of the page are not cleared.                       *)
page_alloc_dirty(m, zero) ==
  IF m.head = NULL THEN [m |-> m, pp |-> NULL]
  ELSE [m |-> pop_free(m), pp |-> m.head]

(* page_alloc(zero ? ALLOC_ZERO : 0): pp is NULL when the list is empty.   *)
page_alloc(m, zero) ==
  IF m.head = NULL THEN [m |-> m, pp |-> NULL]
  ELSE [m |-> IF zero THEN memset0(pop_free(m), m.head) ELSE pop_free(m),
        pp |-> m.head]

(* page_free panics on a page that is referenced, or that has a successor  *)
(* on the list; otherwise the page becomes the head of the list.           *)
page_free(m, pp) ==
  IF m.ref[pp] # 0 \/ m.link[pp] # NULL
  THEN [m EXCEPT !.panic = TRUE]
  ELSE [m EXCEPT !.link[pp] = m.head, !.head = pp]

(* --pp->pp_ref in 16 bits; free the page when it reaches 0.               *)
page_decref(m, pp) ==
  LET r  == (m.ref[pp] - 1) % REFMOD
      m1 == [m EXCEPT !.ref[pp] = r]
  IN  IF r = 0 THEN page_free(m1, pp) ELSE m1

-----------------------------------------------------------------------------
(* The pages on page_free_list: the pages in every set that contains the   *)
(* head and is closed under pp_link.                                       *)
ClosedUnderLink(m, S) ==
  /\ m.head # NULL => m.head \in S
  /\ \A f \in S : m.link[f] # NULL => m.link[f] \in S

FreePages(m) ==
  LET Closed == {S \in SUBSET Frames : ClosedUnderLink(m, S)}
  IN  {f \in Frames : \A S \in Closed : f \in S}

=============================================================================
