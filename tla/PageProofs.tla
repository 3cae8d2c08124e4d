----------------------------- MODULE PageProofs ------------------------------
(***************************************************************************)
(* Proofs about the operators of PhysPages and PageTables, in four parts:  *)
(* what they return is a machine state; the invariant of the memory        *)
(* manager; what each elementary change of the machine does to it; and     *)
(* that each function of kern/pmap.c keeps it.                             *)
(***************************************************************************)
EXTENDS PageTables, FiniteSetTheorems, WellFoundedInduction, TLAPS

-----------------------------------------------------------------------------
(***************************************************************************)
(* Facts about the operators of PhysPages and PageTables: what they return *)
(* is a machine state, and what page_alloc takes off page_free_list and    *)
(* page_free puts on it changes the set of its pages by that page alone.   *)
(***************************************************************************)

(* What the operators of PhysPages and PageTables return is a machine      *)
(* state.                                                                  *)

(* The fields of a machine state may be replaced one at a time.            *)
LEMMA MachineFields ==
  ASSUME NEW s \in Machine
  PROVE  /\ s.ref \in [Frames -> 0 .. REFMOD - 1]
         /\ s.link \in [Frames -> Frames \cup {NULL}]
         /\ s.head \in Frames \cup {NULL}
         /\ s.mem \in [Frames -> [Ents -> PTE]]
         /\ s.cr3 \in Frames \cup {NULL}
         /\ s.tlb \in [Ents -> [Ents -> PTE]]
         /\ s.panic \in BOOLEAN
         /\ NULL \notin Frames
BY DEF Machine, NULL, Frames

(* MkPTE, the zero entry and the zero page have the types of entries.      *)
LEMMA EntryTypes ==
  /\ ZeroPTE \in PTE
  /\ ZeroPage \in [Ents -> PTE]
  /\ EmptyTlb \in [Ents -> [Ents -> PTE]]
  /\ \A f \in Frames, perm \in Perms : MkPTE(f, perm) \in PTE
  /\ 0 \in Frames /\ KERN_PGDIR \in Frames
  /\ UserPdx \subseteq Ents /\ KernPdx \subseteq Ents /\ UVPTX \in Ents
  /\ RWU \in Perms /\ {"U"} \in Perms
BY PhysAssumption, LayoutAssumption
   DEF ZeroPTE, ZeroPage, EmptyTlb, MkPTE, PTE, Frames, Perms, Ents, UserPdx, KernPdx, RWU

(* memset(page2kva(pp), 0, PGSIZE) leaves a machine state.                 *)
LEMMA memset0Type ==
  ASSUME NEW s \in Machine, NEW f \in Frames
  PROVE  memset0(s, f) \in Machine
BY EntryTypes DEF memset0, Machine

(* Taking the head off page_free_list leaves a machine state.              *)
LEMMA pop_freeType ==
  ASSUME NEW s \in Machine, s.head # NULL
  PROVE  pop_free(s) \in Machine
<1> DEFINE f  == s.head
           s1 == [s EXCEPT !.head = s.link[f]]
           s2 == [s1 EXCEPT !.ref[f] = 0]
           s3 == [s2 EXCEPT !.link[f] = NULL]
<1>1. f \in Frames /\ s.link[f] \in Frames \cup {NULL} /\ 0 \in 0 .. REFMOD - 1
  BY MachineFields, PhysAssumption
<1>2. s1 \in Machine
  BY <1>1 DEF Machine
<1>3. s2 \in Machine
  <2> HIDE DEF s1, f
  <2> QED BY <1>1, <1>2 DEF Machine
<1>4. s3 \in Machine
  <2> HIDE DEF s2, f
  <2> QED BY <1>1, <1>3 DEF Machine
<1> QED
  BY <1>4 DEF pop_free

(* page_alloc returns a machine state and a page or NULL.                  *)
LEMMA page_allocType ==
  ASSUME NEW s \in Machine, NEW zero \in BOOLEAN
  PROVE  /\ page_alloc(s, zero).m \in Machine
         /\ page_alloc(s, zero).pp \in Frames \cup {NULL}
BY MachineFields, pop_freeType, memset0Type DEF page_alloc

(* page_free returns a machine state, after its panic too.                 *)
LEMMA page_freeType ==
  ASSUME NEW s \in Machine, NEW pp \in Frames
  PROVE  page_free(s, pp) \in Machine
BY MachineFields DEF page_free, Machine

(* An addition to pp_ref in 16 bits stays in 16 bits.                      *)
LEMMA RefBump ==
  ASSUME NEW n \in Int
  PROVE  n % REFMOD \in 0 .. REFMOD - 1
BY PhysAssumption

(* page_decref returns a machine state, whether or not it frees the page.  *)
LEMMA page_decrefType ==
  ASSUME NEW s \in Machine, NEW pp \in Frames
  PROVE  page_decref(s, pp) \in Machine
<1> DEFINE r == (s.ref[pp] - 1) % REFMOD
           s1 == [s EXCEPT !.ref[pp] = r]
<1>1. r \in 0 .. REFMOD - 1
  BY MachineFields, RefBump, PhysAssumption
<1>2. s1 \in Machine
  BY <1>1 DEF Machine
<1> HIDE DEF r, s1
<1>3. page_free(s1, pp) \in Machine
  BY <1>2, page_freeType
<1> QED
  BY <1>2, <1>3 DEF page_decref, r, s1

(* Writing one entry of a table leaves a machine state.                    *)
LEMMA SetEntryType ==
  ASSUME NEW s \in Machine, NEW f \in Frames, NEW j \in Ents, NEW e \in PTE
  PROVE  [s EXCEPT !.mem[f][j] = e] \in Machine
BY DEF Machine

(* Incrementing one pp_ref leaves a machine state.                         *)
LEMMA SetRefType ==
  ASSUME NEW s \in Machine, NEW f \in Frames
  PROVE  /\ [s EXCEPT !.ref[f] = (@ + 1) % REFMOD] \in Machine
         /\ [s EXCEPT !.ref[f] = (@ + 1) % REFMOD].mem = s.mem
<1>1. (s.ref[f] + 1) % REFMOD \in 0 .. REFMOD - 1
  BY MachineFields, RefBump, PhysAssumption
<1> QED
  BY <1>1 DEF Machine

(* Writing a whole page leaves a machine state.                            *)
LEMMA SetPageType ==
  ASSUME NEW s \in Machine, NEW f \in Frames, NEW c \in [Ents -> PTE]
  PROVE  [s EXCEPT !.mem[f] = c] \in Machine
BY DEF Machine

(* tlb_invalidate leaves a machine state.                                  *)
LEMMA tlb_invalidateType ==
  ASSUME NEW s \in Machine, NEW i \in Ents, NEW j \in Ents
  PROVE  tlb_invalidate(s, i, j) \in Machine
BY EntryTypes DEF tlb_invalidate, Machine

(* Loading %cr3 leaves a machine state.                                    *)
LEMMA lcr3Type ==
  ASSUME NEW s \in Machine, NEW d \in Frames
  PROVE  lcr3(s, d) \in Machine
BY EntryTypes DEF lcr3, Machine

(* An entry of a page in memory has an address and permissions.            *)
LEMMA EntryFields ==
  ASSUME NEW s \in Machine, NEW f \in Frames, NEW j \in Ents
  PROVE  /\ s.mem[f][j] \in PTE
         /\ s.mem[f][j].pa \in Frames
         /\ s.mem[f][j].perm \in Perms
         /\ s.mem[f][j].p \in BOOLEAN
<1>1. s.mem[f][j] \in PTE
  BY DEF Machine
<1> QED
  BY <1>1 DEF PTE

(* The entry that a walk of two levels ends at is an entry.                *)
LEMMA WalkType ==
  ASSUME NEW s \in Machine, NEW d \in Frames, NEW i \in Ents, NEW j \in Ents
  PROVE  Walk(s, d, i, j) \in PTE
BY EntryFields, EntryTypes DEF Walk

(* pgdir_walk returns a machine state and a page table or NULL.            *)
LEMMA pgdir_walkType ==
  ASSUME NEW s \in Machine, NEW d \in Frames, NEW i \in Ents, NEW create \in BOOLEAN
  PROVE  /\ pgdir_walk(s, d, i, create).m \in Machine
         /\ pgdir_walk(s, d, i, create).pt \in Frames \cup {NULL}
<1> DEFINE r  == page_alloc(s, TRUE)
           s1 == [r.m EXCEPT !.ref[r.pp] = (@ + 1) % REFMOD]
           s2 == [s1 EXCEPT !.mem[d][i] = MkPTE(r.pp, RWU)]
<1>1. r.m \in Machine /\ r.pp \in Frames \cup {NULL}
  BY page_allocType
<1>2. CASE r.pp = NULL
  BY <1>1, <1>2, EntryFields DEF pgdir_walk
<1>3. CASE r.pp # NULL
  <2>1. s1 \in Machine
    <3> HIDE DEF r
    <3> QED BY <1>1, <1>3, SetRefType
  <2>2. s2 \in Machine
    <3> HIDE DEF r, s1
    <3> QED BY <1>1, <1>3, <2>1, SetEntryType, EntryTypes
  <2> QED
    BY <1>1, <1>3, <2>2, EntryFields DEF pgdir_walk
<1> QED
  BY <1>2, <1>3

(* page_remove returns a machine state.                                    *)
LEMMA page_removeType ==
  ASSUME NEW s \in Machine, NEW d \in Frames, NEW i \in Ents, NEW j \in Ents
  PROVE  page_remove(s, d, i, j) \in Machine
<1> DEFINE pp == page_lookup(s, d, i, j)
           s1 == page_decref(s, pp)
           s2 == [s1 EXCEPT !.mem[s.mem[d][i].pa][j] = ZeroPTE]
<1>1. pp \in Frames \cup {NULL}
  BY pgdir_walkType, EntryFields DEF page_lookup
<1>2. CASE pp = NULL
  BY <1>2 DEF page_remove
<1>3. CASE pp # NULL
  <2> HIDE DEF pp
  <2>1. s1 \in Machine
    BY <1>1, <1>3, page_decrefType
  <2>2. s2 \in Machine
    <3> HIDE DEF s1
    <3> QED BY <2>1, SetEntryType, EntryFields, EntryTypes
  <2>3. tlb_invalidate(s2, i, j) \in Machine
    <3> HIDE DEF s2
    <3> QED BY <2>2, tlb_invalidateType
  <2> QED
    BY <2>1, <2>3, <1>3 DEF page_remove, pp
<1> QED
  BY <1>2, <1>3

(* The counted path of page_insert returns a machine state.                *)
LEMMA map_countedType ==
  ASSUME NEW s \in Machine, NEW pt \in Frames, NEW j \in Ents, NEW pp \in Frames,
         NEW perm \in Perms
  PROVE  map_counted(s, pt, j, pp, perm) \in Machine
<1> DEFINE s1 == [s EXCEPT !.mem[pt][j] = MkPTE(pp, perm)]
<1>1. s1 \in Machine
  BY SetEntryType, EntryTypes
<1>2. [s1 EXCEPT !.ref[pp] = (@ + 1) % REFMOD] \in Machine
  <2> HIDE DEF s1
  <2> QED BY <1>1, SetRefType
<1> QED
  BY <1>2 DEF map_counted

(* page_insert returns a machine state, on both of its paths and on        *)
(* failure.                                                                *)
LEMMA page_insertType ==
  ASSUME NEW s \in Machine, NEW d \in Frames, NEW pp \in Frames, NEW i \in Ents,
         NEW j \in Ents, NEW perm \in Perms
  PROVE  page_insert(s, d, pp, i, j, perm).m \in Machine
<1> DEFINE w  == pgdir_walk(s, d, i, TRUE)
           s1 == page_remove(w.m, d, i, j)
<1>1. w.m \in Machine /\ w.pt \in Frames \cup {NULL}
  BY pgdir_walkType
<1>2. s1 \in Machine
  <2> HIDE DEF w
  <2> QED BY <1>1, page_removeType
<1>3. CASE w.pt = NULL
  BY <1>1, <1>3 DEF page_insert
<1>4. CASE w.pt # NULL
  <2> HIDE DEF w, s1
  <2>1. map_counted(w.m, w.pt, j, pp, perm) \in Machine
    BY <1>1, <1>4, map_countedType
  <2>2. map_counted(s1, w.pt, j, pp, perm) \in Machine
    BY <1>1, <1>2, <1>4, map_countedType
  <2>3. [w.m EXCEPT !.mem[w.pt][j] = MkPTE(pp, perm)] \in Machine
    BY <1>1, <1>4, SetEntryType, EntryTypes
  <2> QED
    BY <1>2, <1>4, <2>1, <2>2, <2>3 DEF page_insert, w, s1
<1> QED
  BY <1>3, <1>4

(* A round of boot_map_region returns a machine state.                     *)
LEMMA boot_map_pageType ==
  ASSUME NEW s \in Machine, NEW d \in Frames, NEW i \in Ents, NEW j \in Ents,
         NEW pa \in Frames, NEW perm \in Perms
  PROVE  boot_map_page(s, d, i, j, pa, perm) \in Machine
<1> DEFINE w == pgdir_walk(s, d, i, TRUE)
<1>1. w.m \in Machine /\ w.pt \in Frames \cup {NULL}
  BY pgdir_walkType
<1>2. CASE w.pt # NULL
  <2>1. [w.m EXCEPT !.mem[w.pt][j] = MkPTE(pa, perm)] \in Machine
    <3> HIDE DEF w
    <3> QED BY <1>1, <1>2, SetEntryType, EntryTypes
  <2> QED BY <1>2, <2>1 DEF boot_map_page
<1>3. CASE w.pt = NULL
  BY <1>1, <1>3 DEF boot_map_page
<1> QED BY <1>2, <1>3

(* env_setup_vm returns a machine state and a directory or NULL.           *)
LEMMA env_setup_vmType ==
  ASSUME NEW s \in Machine
  PROVE  /\ env_setup_vm(s).m \in Machine
         /\ env_setup_vm(s).pp \in Frames \cup {NULL}
<1> DEFINE r  == page_alloc(s, TRUE)
           c  == [r.m.mem[KERN_PGDIR] EXCEPT ![UVPTX] = MkPTE(r.pp, {"U"})]
           s1 == [r.m EXCEPT !.mem[r.pp] = c]
           s2 == [s1 EXCEPT !.ref[r.pp] = (@ + 1) % REFMOD]
<1>1. r.m \in Machine /\ r.pp \in Frames \cup {NULL}
  BY page_allocType
<1>2. CASE r.pp = NULL
  BY <1>1, <1>2 DEF env_setup_vm
<1>3. CASE r.pp # NULL
  <2>1. c \in [Ents -> PTE]
    <3> HIDE DEF r
    <3> QED BY <1>1, <1>3, MachineFields, EntryTypes
  <2>2. s1 \in Machine
    <3> HIDE DEF r, c
    <3> QED BY <1>1, <1>3, <2>1, SetPageType
  <2>3. s2 \in Machine
    <3> HIDE DEF r, s1
    <3> QED BY <1>1, <1>3, <2>2, SetRefType
  <2> QED
    BY <1>1, <1>3, <2>3 DEF env_setup_vm
<1> QED
  BY <1>2, <1>3

(* What the MMU finds by walking the tables in force is an entry.          *)
LEMMA TranslateType ==
  ASSUME NEW s \in Machine, s.cr3 \in Frames, NEW i \in Ents, NEW j \in Ents
  PROVE  Translate(s, i, j) \in PTE
<1>1. Walk(s, s.cr3, i, j) \in PTE
  BY WalkType
<1> QED
  BY <1>1 DEF Translate, PTE, Perms

-----------------------------------------------------------------------------
(* The links among the pages F of the list: they lead from the head to     *)
(* pages of F, none back to the head and no two to the same page.  A page  *)
(* that is not on the list has no link.                                    *)
ListShape(s, F) ==
  /\ s.head # NULL => s.head \in F
  /\ \A f \in F : s.link[f] # NULL => s.link[f] \in F /\ s.link[f] # s.head
  /\ \A f, g \in F : s.link[f] # NULL /\ s.link[f] = s.link[g] => f = g
  /\ \A f \in Frames \ F : s.link[f] = NULL

FreeList(s, F) == F = FreePages(s) /\ ListShape(s, F)

-----------------------------------------------------------------------------
(* A page is on the list if it is in every set that contains the head and  *)
(* is closed under pp_link.                                                *)
LEMMA InFreePages ==
  ASSUME NEW s, NEW f \in Frames,
         \A S \in SUBSET Frames : ClosedUnderLink(s, S) => f \in S
  PROVE  f \in FreePages(s)
BY DEF FreePages

(* The pages of the list are in every such set.                            *)
LEMMA FreePagesIn ==
  ASSUME NEW s, NEW S \in SUBSET Frames, ClosedUnderLink(s, S)
  PROVE  FreePages(s) \subseteq S
BY DEF FreePages

(* page_alloc takes its head off the list, and nothing else.               *)
LEMMA PopList ==
  ASSUME NEW s \in Machine, NEW s2, NEW F, FreeList(s, F), s.head # NULL,
         s2.head = s.link[s.head], s2.link = [s.link EXCEPT ![s.head] = NULL]
  PROVE  FreeList(s2, F \ {s.head})
<1> DEFINE h == s.head
           G == F \ {h}
<1>1. /\ F = FreePages(s) /\ F \subseteq Frames /\ ListShape(s, F) /\ h \in F
      /\ s.link \in [Frames -> Frames \cup {NULL}] /\ NULL \notin Frames
  BY MachineFields DEF FreeList, ListShape, FreePages
<1>2. \A f \in Frames : s2.link[f] = IF f = h THEN NULL ELSE s.link[f]
  BY <1>1
<1> HIDE DEF h
<1>3. s2.head = s.link[h]
  BY DEF h
<1>4. ListShape(s2, G)
  BY <1>1, <1>2, <1>3 DEF ListShape, h
<1>5. FreePages(s2) \subseteq G
  <2>1. ClosedUnderLink(s2, G)
    BY <1>1, <1>4 DEF ClosedUnderLink, ListShape
  <2> QED BY <1>1, <2>1, FreePagesIn
<1>6. ASSUME NEW f \in G PROVE f \in FreePages(s2)
  <2> SUFFICES ASSUME NEW S \in SUBSET Frames, ClosedUnderLink(s2, S) PROVE f \in S
    BY <1>1, InFreePages
  <2>1. ClosedUnderLink(s, S \cup {h})
    BY <1>1, <1>2, <1>3 DEF ClosedUnderLink, h
  <2>2. FreePages(s) \subseteq S \cup {h}
    BY <1>1, <2>1, FreePagesIn
  <2> QED BY <1>1, <2>2
<1> QED
  BY <1>4, <1>5, <1>6 DEF FreeList, h

(* page_free puts its page on the list, and nothing else.                  *)
LEMMA PushList ==
  ASSUME NEW s \in Machine, NEW s2, NEW F, FreeList(s, F), NEW p \in Frames \ F,
         s2.head = p, s2.link = [s.link EXCEPT ![p] = s.head]
  PROVE  FreeList(s2, F \cup {p})
<1> DEFINE G == F \cup {p}
<1>1. /\ F = FreePages(s) /\ F \subseteq Frames /\ ListShape(s, F)
      /\ s.link \in [Frames -> Frames \cup {NULL}] /\ NULL \notin Frames
      /\ s.head \in Frames \cup {NULL} /\ s.link[p] = NULL
  BY MachineFields DEF FreeList, ListShape, FreePages
<1>2. \A f \in Frames : s2.link[f] = IF f = p THEN s.head ELSE s.link[f]
  BY <1>1
<1>3. ListShape(s2, G)
  BY <1>1, <1>2 DEF ListShape
<1>4. FreePages(s2) \subseteq G
  <2>1. ClosedUnderLink(s2, G)
    BY <1>1, <1>3 DEF ClosedUnderLink, ListShape
  <2> QED BY <1>1, <2>1, FreePagesIn
<1>5. ASSUME NEW f \in G PROVE f \in FreePages(s2)
  <2> SUFFICES ASSUME NEW S \in SUBSET Frames, ClosedUnderLink(s2, S) PROVE f \in S
    BY <1>1, InFreePages
  <2>1. p \in S
    BY <1>1 DEF ClosedUnderLink
  <2>2. ClosedUnderLink(s, S)
    BY <1>1, <1>2, <2>1 DEF ClosedUnderLink
  <2>3. FreePages(s) \subseteq S
    BY <2>2, FreePagesIn
  <2> QED BY <1>1, <2>1, <2>3
<1> QED
  BY <1>3, <1>4, <1>5 DEF FreeList

(* The list depends on page_free_list and the links only.                  *)
LEMMA SameList ==
  ASSUME NEW s, NEW s2, NEW F, FreeList(s, F), s2.head = s.head, s2.link = s.link
  PROVE  FreeList(s2, F)
BY DEF FreeList, FreePages, ListShape, ClosedUnderLink

-----------------------------------------------------------------------------
(* A set of naturals that is not empty has a least element.                *)
LEMMA Least ==
  ASSUME NEW T \in SUBSET Nat, T # {}
  PROVE  \E x \in T : \A y \in T : x <= y
<1> DEFINE R == {ss \in Nat \X Nat : ss[1] < ss[2]}
<1>1. IsWellFoundedOn(R, Nat)
  BY NatLessThanWellFounded DEF OpToRel
<1>2. PICK x \in T : \A y \in T : ~ (<<y, x>> \in R)
  <2> HIDE DEF R
  <2> QED BY <1>1, WFMin
<1>3. ASSUME NEW y \in T PROVE x <= y
  <2>1. x \in Nat /\ y \in Nat
    OBVIOUS
  <2>2. ~(y < x)
    BY <1>2, <2>1
  <2> QED BY <2>1, <2>2
<1> QED
  BY <1>3

(* After page_init the list holds the pages that its two loops pushed.     *)
LEMMA InitList ==
  ASSUME NEW s, s.head = page_init_head, s.link = page_init_link
  PROVE  FreeList(s, Managed)
<1>1. /\ Managed \subseteq Frames /\ npages - 1 \in Managed /\ NULL \notin Frames
      /\ \A f \in Managed : f \in Nat /\ f < npages
  BY PhysAssumption DEF Managed, Frames, NULL
<1>2. \A f \in Frames : s.link[f] = IF f \in Managed THEN PrevPushed(f) ELSE NULL
  BY DEF page_init_link
<1>3. \A f \in Managed : PrevPushed(f) # NULL => PrevPushed(f) \in Managed /\ PrevPushed(f) < f
  BY PhysAssumption DEF PrevPushed, Managed, NULL
<1>4. ListShape(s, Managed)
  <2>1. \A f, g \in Managed : PrevPushed(f) # NULL /\ PrevPushed(f) = PrevPushed(g) => f = g
    BY PhysAssumption DEF PrevPushed, Managed, NULL
  <2>2. \A f \in Managed : PrevPushed(f) # NULL => PrevPushed(f) # npages - 1
    BY <1>1, <1>3, PhysAssumption
  <2> QED BY <1>1, <1>2, <1>3, <2>1, <2>2 DEF ListShape, page_init_head
<1>5. FreePages(s) \subseteq Managed
  <2>1. ClosedUnderLink(s, Managed)
    BY <1>1, <1>4 DEF ClosedUnderLink, ListShape
  <2> QED BY <1>1, <2>1, FreePagesIn
<1>6. ASSUME NEW S \in SUBSET Frames, ClosedUnderLink(s, S) PROVE Managed \subseteq S
  <2> DEFINE T == {n \in Nat : n < npages /\ npages - 1 - n \in Managed \ S}
  <2>1. SUFFICES ASSUME T # {} PROVE FALSE
    <3> SUFFICES ASSUME NEW f \in Managed, f \notin S PROVE FALSE
      OBVIOUS
    <3>1. npages - 1 - f \in Nat /\ npages - 1 - (npages - 1 - f) = f /\ npages - 1 - f < npages
      BY <1>1, PhysAssumption
    <3>2. npages - 1 - f \in T
      BY <3>1
    <3> QED BY <2>1, <3>2
  <2>2. PICK n \in T : \A k \in T : n <= k
    <3>1. T \in SUBSET Nat
      OBVIOUS
    <3> HIDE DEF T
    <3> QED BY <2>1, <3>1, Least
  <2> DEFINE f == npages - 1 - n
             g == IF f = npages_basemem - 1 THEN FIRSTFREE ELSE f + 1
  <2>3. f \in Managed /\ f \notin S /\ n \in Nat /\ f \in Nat
    BY <1>1
  <2>4. f # npages - 1
    BY <1>6, <2>3 DEF ClosedUnderLink, page_init_head, NULL
  <2>5. g \in Managed /\ PrevPushed(g) = f /\ g > f /\ g \in Nat
    BY <2>3, <2>4, PhysAssumption DEF PrevPushed, Managed, NULL
  <2>6. g \notin S
    <3>1. s.link[g] = f /\ f # NULL
      BY <1>1, <1>2, <2>3, <2>5
    <3> QED BY <1>6, <2>3, <3>1 DEF ClosedUnderLink
  <2>7. npages - 1 - g \in T
    <3>1. g < npages
      BY <1>1, <2>5
    <3>2. npages - 1 - g \in Nat /\ npages - 1 - (npages - 1 - g) = g /\ npages - 1 - g < npages
      BY <2>5, <3>1, PhysAssumption
    <3> QED BY <2>5, <2>6, <3>2
  <2>8. npages - 1 - g < n
    BY <2>3, <2>5, PhysAssumption
  <2> QED
    BY <2>2, <2>3, <2>5, <2>7, <2>8, PhysAssumption
<1>7. Managed \subseteq FreePages(s)
  BY <1>1, <1>6, InFreePages
<1> QED
  BY <1>4, <1>5, <1>7 DEF FreeList

-----------------------------------------------------------------------------
(***************************************************************************)
(* The invariant of the memory manager.                                    *)
(*                                                                         *)
(* Every page of the allocator has one role at a time.  'role' names it:   *)
(*   free   it is on page_free_list                                        *)
(*   held   a client has it from page_alloc and has not mapped it          *)
(*   dir    it is the page directory of an environment                     *)
(*   utab   it is a page table of the user part of one directory entry     *)
(*   ktab   it is a page table of the kernel part, which all share         *)
(*   page   it is mapped by some entries of user page tables               *)
(***************************************************************************)

Roles   == {"free", "held", "dir", "utab", "ktab", "page"}
KernIdx == KernPdx \ {UVPTX}

FreePart(s, role) == FreeList(s, {f \in Managed : role[f] = "free"})

HeldPart(H, role) ==
  /\ H \subseteq Managed
  /\ \A f \in Managed : f \in H <=> role[f] = "held"

(* The directories, with the entries that they all have in common.         *)
DirPart(s, D, role) ==
  /\ KERN_PGDIR \in D /\ D \ {KERN_PGDIR} \subseteq Managed
  /\ \A f \in Managed : f \in D <=> role[f] = "dir"
  /\ \A i \in UserPdx : ~s.mem[KERN_PGDIR][i].p
  /\ \A d \in D : /\ \A i \in KernIdx : s.mem[d][i] = s.mem[KERN_PGDIR][i]
                  /\ s.mem[d][UVPTX] = MkPTE(d, {"U"})

(* A user page table belongs to one entry of one directory.                *)
UserTabPart(s, D, role) ==
  /\ \A d \in D, i \in UserPdx : s.mem[d][i].p =>
       s.mem[d][i].pa \in Managed /\ role[s.mem[d][i].pa] = "utab"
  /\ \A d, e \in D, i, k \in UserPdx :
       s.mem[d][i].p /\ s.mem[e][k].p /\ s.mem[d][i].pa = s.mem[e][k].pa => d = e /\ i = k
  /\ \A f \in Managed : role[f] = "utab" =>
       \E d \in D, i \in UserPdx : s.mem[d][i].p /\ s.mem[d][i].pa = f

(* What user programs may read through the kernel part they may not write, *)
(* and it was never given to the allocator.                                *)
KernTabPart(s, role) ==
  /\ \A i \in KernIdx : s.mem[KERN_PGDIR][i].p =>
       s.mem[KERN_PGDIR][i].pa \in Managed /\ role[s.mem[KERN_PGDIR][i].pa] = "ktab"
  /\ \A i, k \in KernIdx :
       /\ s.mem[KERN_PGDIR][i].p /\ s.mem[KERN_PGDIR][k].p
       /\ s.mem[KERN_PGDIR][i].pa = s.mem[KERN_PGDIR][k].pa
       => i = k
  /\ \A f \in Managed : role[f] = "ktab" =>
       \E i \in KernIdx : s.mem[KERN_PGDIR][i].p /\ s.mem[KERN_PGDIR][i].pa = f
  /\ \A i \in KernIdx, j \in Ents :
       Walk(s, KERN_PGDIR, i, j).p /\ "U" \in Walk(s, KERN_PGDIR, i, j).perm =>
         /\ "W" \notin Walk(s, KERN_PGDIR, i, j).perm
         /\ Walk(s, KERN_PGDIR, i, j).pa \notin Managed

(* A user page table entry leads to a page, or is zero.                    *)
PagePart(s, D, role) ==
  \A d \in D, i \in UserPdx, j \in Ents :
    /\ Walk(s, d, i, j).p =>
         Walk(s, d, i, j).pa \in Managed /\ role[Walk(s, d, i, j).pa] = "page"
    /\ ~Walk(s, d, i, j).p => Walk(s, d, i, j) = ZeroPTE

(* pp_ref, by role.                                                        *)
CountPart(s, D, role) ==
  \A f \in Managed :
    /\ role[f] \in {"free", "held"} => s.ref[f] = 0
    /\ role[f] \in {"dir", "utab", "ktab"} => s.ref[f] = 1
    /\ role[f] = "page" =>
         PteRefs(s, D, f) # {} /\ s.ref[f] = Cardinality(PteRefs(s, D, f))

(* A cached translation leads where the tables do; one of the kernel part  *)
(* has the limits of KernTabPart.                                          *)
TlbPart(s, D) ==
  /\ s.cr3 = NULL => D = {KERN_PGDIR}
  /\ s.cr3 # NULL => s.cr3 \in D
  /\ \A i, j \in Ents : s.tlb[i][j].p =>
       /\ s.cr3 # NULL
       /\ Walk(s, s.cr3, i, j).p /\ s.tlb[i][j].pa = Walk(s, s.cr3, i, j).pa
       /\ i \in KernPdx => ~(RWU \subseteq s.tlb[i][j].perm)
       /\ i \in KernIdx /\ "U" \in s.tlb[i][j].perm => s.tlb[i][j].pa \notin Managed

VmInv(s, D, H, role) ==
  /\ s \in Machine /\ s.panic = FALSE
  /\ role \in [Managed -> Roles]
  /\ FreePart(s, role)
  /\ HeldPart(H, role)
  /\ DirPart(s, D, role)
  /\ UserTabPart(s, D, role)
  /\ KernTabPart(s, role)
  /\ PagePart(s, D, role)
  /\ CountPart(s, D, role)
  /\ TlbPart(s, D)

(* The invariant: some assignment of roles fits.                           *)
Vm(s, D, H) == \E role \in [Managed -> Roles] : VmInv(s, D, H, role)

-----------------------------------------------------------------------------
(* Where the layout of memory puts things.                                 *)
LEMMA LayoutFacts ==
  /\ Managed \subseteq Frames /\ Managed \cap ({0} \cup IOPHYSPAGE .. FIRSTFREE - 1) = {}
  /\ KERN_PGDIR \in Frames /\ KERN_PGDIR \notin Managed /\ NULL \notin Frames
  /\ UserPdx \subseteq Ents /\ KernPdx \subseteq Ents /\ KernIdx \subseteq KernPdx
  /\ UserPdx \cap KernPdx = {} /\ UVPTX \in KernPdx /\ UVPTX \notin KernIdx
  /\ \A i \in Ents : i \in UserPdx \/ i \in KernIdx \/ i = UVPTX
  /\ RWU = {"W", "U"}
BY PhysAssumption, LayoutAssumption
   DEF Managed, Frames, NULL, UserPdx, KernPdx, KernIdx, Ents, RWU

(* The references to a page are those that its role allows.                *)
LEMMA DirRefsByRole ==
  ASSUME NEW s, NEW D, NEW H, NEW role, VmInv(s, D, H, role), NEW f \in Managed
  PROVE  /\ role[f] = "dir" => DirRefs(D, f) = {<<f, NULL, NULL>>}
         /\ role[f] # "dir" => DirRefs(D, f) = {}
<1>1. f \in D <=> role[f] = "dir"
  BY DEF VmInv, DirPart
<1>2. DirRefs(D, f) = IF f \in D THEN {<<f, NULL, NULL>>} ELSE {}
  BY DEF DirRefs
<1> QED BY <1>1, <1>2

(* Only a page that a user program maps is named by an entry of a user     *)
(* page table.                                                             *)
LEMMA PteRefsByRole ==
  ASSUME NEW s, NEW D, NEW H, NEW role, VmInv(s, D, H, role), NEW f \in Managed,
         role[f] # "page"
  PROVE  PteRefs(s, D, f) = {}
<1> SUFFICES ASSUME NEW x \in PteRefs(s, D, f) PROVE FALSE
  OBVIOUS
<1>1. /\ x[1] \in D /\ x[2] \in UserPdx /\ x[3] \in Ents
      /\ Walk(s, x[1], x[2], x[3]).p /\ Walk(s, x[1], x[2], x[3]).pa = f
  BY DEF PteRefs
<1> QED BY <1>1 DEF VmInv, PagePart

(* Only a page table is named by a directory entry that pp_ref counts, and *)
(* by one entry alone.                                                     *)
LEMMA PdeRefsByRole ==
  ASSUME NEW s, NEW D, NEW H, NEW role, VmInv(s, D, H, role), NEW f \in Managed
  PROVE  /\ role[f] \in {"utab", "ktab"} => \E x : PdeRefs(s, D, f) = {x}
         /\ role[f] \notin {"utab", "ktab"} => PdeRefs(s, D, f) = {}
<1>0. DirPart(s, D, role) /\ UserTabPart(s, D, role) /\ KernTabPart(s, role)
  BY DEF VmInv
<1>1. \A x \in PdeRefs(s, D, f) :
        /\ x = <<x[1], x[2], NULL>> /\ x[1] \in D /\ x[2] \in Ents
        /\ \/ x[2] \in UserPdx
           \/ x[1] = KERN_PGDIR /\ x[2] \in KernIdx
        /\ s.mem[x[1]][x[2]].p /\ s.mem[x[1]][x[2]].pa = f
  BY LayoutFacts DEF PdeRefs
<1>2. CASE role[f] \notin {"utab", "ktab"}
  <2> SUFFICES ASSUME NEW x \in PdeRefs(s, D, f) PROVE FALSE
    BY <1>2
  <2> QED BY <1>0, <1>1, <1>2 DEF UserTabPart, KernTabPart
<1>3. CASE role[f] = "utab"
  <2>1. PICK d \in D, i \in UserPdx : s.mem[d][i].p /\ s.mem[d][i].pa = f
    BY <1>0, <1>3 DEF UserTabPart
  <2>2. <<d, i, NULL>> \in PdeRefs(s, D, f)
    BY <2>1, LayoutFacts DEF PdeRefs
  <2>3. ASSUME NEW x \in PdeRefs(s, D, f) PROVE x = <<d, i, NULL>>
    <3>1. x[2] \in UserPdx
      BY <1>0, <1>1, <1>3 DEF KernTabPart
    <3>2. x[1] = d /\ x[2] = i
      BY <1>0, <1>1, <2>1, <3>1 DEF UserTabPart
    <3> QED BY <1>1, <3>2
  <2>4. PdeRefs(s, D, f) = {<<d, i, NULL>>}
    BY <2>2, <2>3
  <2> QED BY <1>3, <2>4
<1>4. CASE role[f] = "ktab"
  <2>1. PICK i \in KernIdx : s.mem[KERN_PGDIR][i].p /\ s.mem[KERN_PGDIR][i].pa = f
    BY <1>0, <1>4 DEF KernTabPart
  <2>2. <<KERN_PGDIR, i, NULL>> \in PdeRefs(s, D, f)
    BY <1>0, <2>1, LayoutFacts DEF PdeRefs, DirPart
  <2>3. ASSUME NEW x \in PdeRefs(s, D, f) PROVE x = <<KERN_PGDIR, i, NULL>>
    <3>1. x[1] = KERN_PGDIR /\ x[2] \in KernIdx
      BY <1>0, <1>1, <1>4 DEF UserTabPart
    <3>2. x[2] = i
      BY <1>0, <1>1, <2>1, <3>1 DEF KernTabPart
    <3> QED BY <1>1, <3>1, <3>2
  <2>4. PdeRefs(s, D, f) = {<<KERN_PGDIR, i, NULL>>}
    BY <2>2, <2>3
  <2> QED BY <1>4, <2>4
<1> QED
  BY <1>2, <1>3, <1>4

(* So pp_ref is the number of references.                                  *)
LEMMA CountsExact ==
  ASSUME NEW s, NEW D, NEW H, NEW role, VmInv(s, D, H, role), NEW f \in Managed
  PROVE  s.ref[f] = Cardinality(RefsTo(s, D, f))
<1>0. CountPart(s, D, role) /\ role[f] \in Roles
  BY DEF VmInv
<1>1. CASE role[f] \in {"free", "held"}
  <2>1. RefsTo(s, D, f) = {}
    BY <1>1, DirRefsByRole, PdeRefsByRole, PteRefsByRole DEF RefsTo
  <2> QED BY <1>0, <1>1, <2>1, FS_EmptySet DEF CountPart
<1>2. CASE role[f] = "dir"
  <2>1. RefsTo(s, D, f) = {<<f, NULL, NULL>>}
    BY <1>2, DirRefsByRole, PdeRefsByRole, PteRefsByRole DEF RefsTo
  <2> QED BY <1>0, <1>2, <2>1, FS_Singleton DEF CountPart
<1>3. CASE role[f] \in {"utab", "ktab"}
  <2>1. PICK x : PdeRefs(s, D, f) = {x}
    BY <1>3, PdeRefsByRole
  <2>2. RefsTo(s, D, f) = {x}
    BY <1>3, <2>1, DirRefsByRole, PteRefsByRole DEF RefsTo
  <2> QED BY <1>0, <1>3, <2>2, FS_Singleton DEF CountPart
<1>4. CASE role[f] = "page"
  <2>1. RefsTo(s, D, f) = PteRefs(s, D, f)
    BY <1>4, DirRefsByRole, PdeRefsByRole DEF RefsTo
  <2> QED BY <1>0, <1>4, <2>1 DEF CountPart
<1> QED
  BY <1>0, <1>1, <1>2, <1>3, <1>4 DEF Roles

(* A directory seen through itself at UVPT.                                *)
LEMMA WalkUvpt ==
  ASSUME NEW s, NEW D, NEW H, NEW role, VmInv(s, D, H, role), NEW d \in D, NEW j \in Ents
  PROVE  /\ Walk(s, d, UVPTX, j) = s.mem[d][j]
         /\ s.mem[d][UVPTX].p /\ s.mem[d][UVPTX].perm = {"U"} /\ s.mem[d][UVPTX].pa = d
<1>1. s.mem[d][UVPTX] = [p |-> TRUE, pa |-> d, perm |-> {"U"}]
  BY DEF VmInv, DirPart, MkPTE
<1>2. s.mem[d][UVPTX].p /\ s.mem[d][UVPTX].perm = {"U"} /\ s.mem[d][UVPTX].pa = d
  BY <1>1
<1> QED
  BY <1>2 DEF Walk

(* The kernel part of every directory leads where that of kern_pgdir does. *)
LEMMA WalkKern ==
  ASSUME NEW s, NEW D, NEW H, NEW role, VmInv(s, D, H, role), NEW d \in D,
         NEW i \in KernIdx, NEW j \in Ents
  PROVE  Walk(s, d, i, j) = Walk(s, KERN_PGDIR, i, j)
BY DEF VmInv, DirPart, Walk

(* What a present entry leads to is never a free page that a user program  *)
(* can reach.                                                              *)
LEMMA WalkNotFree ==
  ASSUME NEW s, NEW D, NEW H, NEW role, VmInv(s, D, H, role), NEW d \in D,
         NEW i \in Ents, i \notin KernIdx, NEW j \in Ents, Walk(s, d, i, j).p,
         NEW f \in Managed, f = Walk(s, d, i, j).pa
  PROVE  role[f] \in {"dir", "utab", "ktab", "page"}
<1>0. /\ DirPart(s, D, role) /\ UserTabPart(s, D, role) /\ KernTabPart(s, role)
      /\ PagePart(s, D, role)
  BY DEF VmInv
<1>1. CASE i \in UserPdx
  BY <1>0, <1>1 DEF PagePart
<1>2. CASE i = UVPTX
  <2>1. s.mem[d][j].p /\ s.mem[d][j].pa = f
    BY <1>2, WalkUvpt
  <2>2. CASE j \in UserPdx
    BY <1>0, <2>1, <2>2 DEF UserTabPart
  <2>3. CASE j \in KernIdx
    BY <1>0, <2>1, <2>3 DEF DirPart, KernTabPart
  <2>4. CASE j = UVPTX
    <3>1. f = d
      BY <2>1, <2>4, WalkUvpt
    <3> QED BY <1>0, <3>1 DEF DirPart
  <2> QED BY <2>2, <2>3, <2>4, LayoutFacts
<1> QED
  BY <1>1, <1>2, LayoutFacts

-----------------------------------------------------------------------------
(***************************************************************************)
(* What each change that kern/pmap.c makes to the machine does to the      *)
(* roles of the pages.  Each lemma takes the state s before the change and *)
(* the state s2 after it, and shows VmInv of s2 from VmInv of s: page_free *)
(* and page_alloc move a page between "free" and "held", the other changes *)
(* between "held" and the role that the page is given or loses.            *)
(***************************************************************************)

(* The fields of s2 are those of s, but for the ones listed.               *)
KeepList(s, s2) == s2.head = s.head /\ s2.link = s.link
KeepMmu(s, s2)  == s2.cr3 = s.cr3 /\ s2.tlb = s.tlb

(* No translation of the user part differs.                                *)
UserSame(s, s2, D) ==
  \A e \in D, k \in UserPdx, l \in Ents : Walk(s2, e, k, l) = Walk(s, e, k, l)

(* Frames whose contents are page tables.                                  *)
IsTable(D, role, f) == f \in D \/ (f \in Managed /\ role[f] \in {"utab", "ktab"})
SameTables(s, s2, D, role) == \A f : IsTable(D, role, f) => s2.mem[f] = s.mem[f]

-----------------------------------------------------------------------------
(* The references from page table entries.                                 *)

(* When the triple <<d, i, j>> is a reference to f.                        *)
LEMMA PteRefsMember ==
  ASSUME NEW s, NEW D, NEW f, NEW d, NEW i, NEW j
  PROVE  <<d, i, j>> \in PteRefs(s, D, f) <=>
           /\ d \in D /\ i \in UserPdx /\ j \in Ents
           /\ Walk(s, d, i, j).p /\ Walk(s, d, i, j).pa = f
BY DEF PteRefs

(* Every such reference is a triple.                                       *)
LEMMA PteRefsTriple ==
  ASSUME NEW s, NEW D, NEW f, NEW x \in PteRefs(s, D, f)
  PROVE  x = <<x[1], x[2], x[3]>>
BY DEF PteRefs

(* The references to a page are finite in number.                          *)
LEMMA PteRefsFinite ==
  ASSUME NEW s, NEW D \in SUBSET Frames, NEW f
  PROVE  IsFiniteSet(PteRefs(s, D, f)) /\ Cardinality(PteRefs(s, D, f)) \in Nat
<1>1. IsFiniteSet(Frames) /\ IsFiniteSet(Ents) /\ IsFiniteSet(UserPdx)
  BY FS_Interval, PhysAssumption, LayoutAssumption DEF Frames, Ents, UserPdx
<1>2. IsFiniteSet(D)
  BY <1>1, FS_Subset
<1>3. IsFiniteSet(D \X UserPdx)
  BY <1>1, <1>2, FS_Product
<1>4. IsFiniteSet((D \X UserPdx) \X Ents)
  BY <1>1, <1>3, FS_Product
<1> DEFINE P == PteRefs(s, D, f)
           T == (D \X UserPdx) \X Ents
           g == [x \in P |-> <<<<x[1], x[2]>>, x[3]>>]
<1>5. g \in Injection(P, T)
  <2>1. \A x \in P : x = <<x[1], x[2], x[3]>> /\ g[x] = <<<<x[1], x[2]>>, x[3]>> /\ g[x] \in T
    BY DEF PteRefs
  <2>2. \A x, y \in P : g[x] = g[y] => x = y
    BY <2>1
  <2>3. g \in [P -> T]
    BY <2>1
  <2> QED BY <2>2, <2>3 DEF Injection, IsInjective
<1> HIDE DEF P, T, g
<1>6. IsFiniteSet(P)
  BY <1>4, <1>5, FS_Injection DEF T
<1> QED
  BY <1>6, FS_CardinalityType DEF P

(* They are a function of what the user part translates to.                *)
LEMMA PteRefsSame ==
  ASSUME NEW s, NEW s2, NEW D, NEW f,
         \A d \in D, i \in UserPdx, j \in Ents : Walk(s2, d, i, j) = Walk(s, d, i, j)
  PROVE  PteRefs(s2, D, f) = PteRefs(s, D, f)
BY DEF PteRefs

(* One more translation is one more reference to its page.                 *)
LEMMA PteRefsAdd ==
  ASSUME NEW s, NEW s2, NEW D \in SUBSET Frames, NEW d \in D, NEW i \in UserPdx,
         NEW j \in Ents, NEW f,
         \A e \in D, k \in UserPdx, l \in Ents :
           <<e, k, l>> # <<d, i, j>> => Walk(s2, e, k, l) = Walk(s, e, k, l),
         ~Walk(s, d, i, j).p, Walk(s2, d, i, j).p
  PROVE  /\ Walk(s2, d, i, j).pa # f => PteRefs(s2, D, f) = PteRefs(s, D, f)
         /\ Walk(s2, d, i, j).pa = f =>
              /\ PteRefs(s2, D, f) = PteRefs(s, D, f) \cup {<<d, i, j>>}
              /\ PteRefs(s, D, f) = PteRefs(s2, D, f) \ {<<d, i, j>>}
              /\ Cardinality(PteRefs(s2, D, f)) = Cardinality(PteRefs(s, D, f)) + 1
<1> DEFINE P == PteRefs(s, D, f)
           Q == PteRefs(s2, D, f)
           t == <<d, i, j>>
<1>1. t \notin P
  BY PteRefsMember
<1>2. t \in Q <=> Walk(s2, d, i, j).pa = f
  BY PteRefsMember
<1>3. ASSUME NEW x \in P PROVE x \in Q
  <2>1. x = <<x[1], x[2], x[3]>> /\ x # t
    BY <1>1, PteRefsTriple
  <2> QED BY <2>1 DEF PteRefs
<1>4. ASSUME NEW x \in Q, x # t PROVE x \in P
  <2>1. x = <<x[1], x[2], x[3]>>
    BY PteRefsTriple
  <2> QED BY <1>4, <2>1 DEF PteRefs
<1>5. IsFiniteSet(P)
  BY PteRefsFinite
<1> HIDE DEF P, Q, t
<1>6. CASE Walk(s2, d, i, j).pa # f
  BY <1>1, <1>2, <1>3, <1>4, <1>6 DEF P, Q
<1>7. CASE Walk(s2, d, i, j).pa = f
  <2>1. Q = P \cup {t} /\ P = Q \ {t}
    BY <1>1, <1>2, <1>3, <1>4, <1>7
  <2>2. Cardinality(Q) = Cardinality(P) + 1
    BY <1>1, <1>5, <2>1, FS_AddElement
  <2> QED BY <1>7, <2>1, <2>2 DEF P, Q, t
<1> QED
  BY <1>6, <1>7

-----------------------------------------------------------------------------
(* Walks read directories and page tables only.                            *)
LEMMA SameWalk ==
  ASSUME NEW s, NEW s2, NEW D, NEW H, NEW role, VmInv(s, D, H, role),
         SameTables(s, s2, D, role),
         NEW d \in D, NEW i \in Ents, NEW j \in Ents
  PROVE  Walk(s2, d, i, j) = Walk(s, d, i, j)
<1>0. /\ DirPart(s, D, role) /\ UserTabPart(s, D, role) /\ KernTabPart(s, role)
  BY DEF VmInv
<1>1. s2.mem[d] = s.mem[d]
  BY DEF IsTable, SameTables
<1>2. s.mem[d][i].p => IsTable(D, role, s.mem[d][i].pa)
  <2>1. CASE i \in UserPdx
    BY <1>0, <2>1 DEF UserTabPart, IsTable
  <2>2. CASE i \in KernIdx
    BY <1>0, <2>2 DEF DirPart, KernTabPart, IsTable
  <2>3. CASE i = UVPTX
    BY <2>3, WalkUvpt DEF IsTable
  <2> QED BY <2>1, <2>2, <2>3, LayoutFacts
<1> QED
  BY <1>1, <1>2 DEF Walk, SameTables

(* A change that leaves the tables, and the set of the pages in each of    *)
(* these roles, alone.                                                     *)
LEMMA KeepTables ==
  ASSUME NEW s, NEW s2, NEW D, NEW H, NEW role, VmInv(s, D, H, role),
         NEW role2 \in [Managed -> Roles],
         \A f \in Managed, r \in {"dir", "utab", "ktab", "page"} :
           role2[f] = r <=> role[f] = r,
         SameTables(s, s2, D, role)
  PROVE  /\ DirPart(s2, D, role2) /\ UserTabPart(s2, D, role2)
         /\ KernTabPart(s2, role2) /\ PagePart(s2, D, role2)
         /\ \A d \in D, i, j \in Ents : Walk(s2, d, i, j) = Walk(s, d, i, j)
         /\ \A f : PteRefs(s2, D, f) = PteRefs(s, D, f)
         /\ KeepMmu(s, s2) => TlbPart(s2, D)
<1>0. /\ DirPart(s, D, role) /\ UserTabPart(s, D, role) /\ KernTabPart(s, role)
      /\ PagePart(s, D, role) /\ TlbPart(s, D)
  BY DEF VmInv
<1>1. \A d \in D : s2.mem[d] = s.mem[d]
  BY DEF IsTable, SameTables
<1>2. \A d \in D, i, j \in Ents : Walk(s2, d, i, j) = Walk(s, d, i, j)
  BY SameWalk
<1>k. KERN_PGDIR \in D /\ s2.mem[KERN_PGDIR] = s.mem[KERN_PGDIR]
  BY <1>0, <1>1 DEF DirPart
<1>3. DirPart(s2, D, role2)
  BY <1>0, <1>1, <1>k DEF DirPart
<1>4. UserTabPart(s2, D, role2)
  BY <1>0, <1>1 DEF UserTabPart
<1>5. KernTabPart(s2, role2)
  <2>1. \A i \in KernIdx, j \in Ents : Walk(s2, KERN_PGDIR, i, j) = Walk(s, KERN_PGDIR, i, j)
    BY <1>2, <1>k, LayoutFacts
  <2> QED BY <1>0, <1>k, <2>1 DEF KernTabPart
<1>6. PagePart(s2, D, role2)
  BY <1>0, <1>2, LayoutFacts DEF PagePart
<1>7. \A f : PteRefs(s2, D, f) = PteRefs(s, D, f)
  BY <1>2, LayoutFacts, PteRefsSame
<1>8. KeepMmu(s, s2) => TlbPart(s2, D)
  BY <1>0, <1>2 DEF TlbPart, KeepMmu
<1> QED
  BY <1>2, <1>3, <1>4, <1>5, <1>6, <1>7, <1>8

-----------------------------------------------------------------------------
(* A change of role of one page.                                           *)
Recast(role, f, r) == [role EXCEPT ![f] = r]

(* Giving one page another role.                                           *)
LEMMA RecastFacts ==
  ASSUME NEW role \in [Managed -> Roles], NEW f \in Managed, NEW r \in Roles
  PROVE  /\ Recast(role, f, r) \in [Managed -> Roles]
         /\ \A g \in Managed : Recast(role, f, r)[g] = IF g = f THEN r ELSE role[g]
BY DEF Recast

(* page_alloc: the head of the list becomes a held page.                   *)
LEMMA AllocStep ==
  ASSUME NEW s, NEW s2 \in Machine, NEW D, NEW H, NEW role, VmInv(s, D, H, role),
         s.head # NULL, s2.head = s.link[s.head],
         s2.link = [s.link EXCEPT ![s.head] = NULL],
         s2.ref = [s.ref EXCEPT ![s.head] = 0],
         s2.mem = s.mem, KeepMmu(s, s2), s2.panic = FALSE
  PROVE  /\ VmInv(s2, D, H \cup {s.head}, Recast(role, s.head, "held"))
         /\ s.head \in Managed /\ role[s.head] = "free" /\ s.head \notin H
<1> DEFINE h == s.head
           F == {f \in Managed : role[f] = "free"}
           role2 == Recast(role, h, "held")
<1>0. /\ s \in Machine /\ role \in [Managed -> Roles] /\ FreeList(s, F)
      /\ HeldPart(H, role) /\ CountPart(s, D, role)
  BY DEF VmInv, FreePart
<1>1. h \in Managed /\ role[h] = "free" /\ h \notin H
  BY <1>0 DEF FreeList, ListShape, HeldPart
<1>2. /\ role2 \in [Managed -> Roles]
      /\ \A g \in Managed : role2[g] = IF g = h THEN "held" ELSE role[g]
  BY <1>0, <1>1, RecastFacts DEF Roles
<1>3. FreePart(s2, role2)
  <2>1. FreeList(s2, F \ {h})
    BY <1>0, PopList
  <2>2. F \ {h} = {f \in Managed : role2[f] = "free"}
    BY <1>2
  <2> QED BY <2>1, <2>2 DEF FreePart
<1>4. HeldPart(H \cup {h}, role2)
  BY <1>0, <1>1, <1>2 DEF HeldPart
<1> HIDE DEF h, role2
<1>5. /\ DirPart(s2, D, role2) /\ UserTabPart(s2, D, role2)
      /\ KernTabPart(s2, role2) /\ PagePart(s2, D, role2) /\ TlbPart(s2, D)
      /\ \A f : PteRefs(s2, D, f) = PteRefs(s, D, f)
  <2>1. \A f \in Managed, r \in {"dir", "utab", "ktab", "page"} : role2[f] = r <=> role[f] = r
    BY <1>1, <1>2
  <2>2. SameTables(s, s2, D, role)
    BY DEF SameTables
  <2>3. KeepMmu(s, s2) => TlbPart(s2, D)
    BY <1>2, <2>1, <2>2, KeepTables
  <2> QED BY <1>2, <2>1, <2>2, <2>3, KeepTables
<1>6. CountPart(s2, D, role2)
  <2>1. \A f \in Managed : s2.ref[f] = IF f = h THEN 0 ELSE s.ref[f]
    BY <1>0, MachineFields, LayoutFacts DEF h
  <2> QED BY <1>0, <1>1, <1>2, <1>5, <2>1 DEF CountPart
<1>7. VmInv(s2, D, H \cup {h}, role2)
  BY <1>2, <1>3, <1>4, <1>5, <1>6 DEF VmInv
<1> QED
  BY <1>1, <1>7 DEF h, role2

(* page_free: a held page becomes the head of the list.  It has no         *)
(* reference and no link, so page_free does not panic.                     *)
LEMMA PushStep ==
  ASSUME NEW s, NEW s2 \in Machine, NEW D, NEW H, NEW role, VmInv(s, D, H, role),
         NEW h \in H, s2.head = h, s2.link = [s.link EXCEPT ![h] = s.head],
         s2.ref = s.ref, s2.mem = s.mem, KeepMmu(s, s2), s2.panic = FALSE
  PROVE  VmInv(s2, D, H \ {h}, Recast(role, h, "free"))
<1> DEFINE F == {f \in Managed : role[f] = "free"}
           role2 == Recast(role, h, "free")
<1>0. /\ s \in Machine /\ role \in [Managed -> Roles] /\ FreeList(s, F)
      /\ HeldPart(H, role) /\ CountPart(s, D, role)
  BY DEF VmInv, FreePart
<1>1. h \in Managed /\ role[h] = "held"
  BY <1>0 DEF HeldPart
<1>2. /\ role2 \in [Managed -> Roles]
      /\ \A g \in Managed : role2[g] = IF g = h THEN "free" ELSE role[g]
  BY <1>0, <1>1, RecastFacts DEF Roles
<1>3. FreePart(s2, role2)
  <2>1. FreeList(s2, F \cup {h})
    BY <1>0, <1>1, PushList, LayoutFacts
  <2>2. F \cup {h} = {f \in Managed : role2[f] = "free"}
    BY <1>1, <1>2
  <2> QED BY <2>1, <2>2 DEF FreePart
<1>4. HeldPart(H \ {h}, role2)
  BY <1>0, <1>1, <1>2 DEF HeldPart
<1> HIDE DEF role2
<1>5. /\ DirPart(s2, D, role2) /\ UserTabPart(s2, D, role2)
      /\ KernTabPart(s2, role2) /\ PagePart(s2, D, role2) /\ TlbPart(s2, D)
      /\ \A f : PteRefs(s2, D, f) = PteRefs(s, D, f)
  <2>1. \A f \in Managed, r \in {"dir", "utab", "ktab", "page"} : role2[f] = r <=> role[f] = r
    BY <1>1, <1>2
  <2>2. SameTables(s, s2, D, role)
    BY DEF SameTables
  <2>3. KeepMmu(s, s2) => TlbPart(s2, D)
    BY <1>2, <2>1, <2>2, KeepTables
  <2> QED BY <1>2, <2>1, <2>2, <2>3, KeepTables
<1>6. CountPart(s2, D, role2)
  BY <1>0, <1>1, <1>2, <1>5 DEF CountPart
<1>7. VmInv(s2, D, H \ {h}, role2)
  BY <1>2, <1>3, <1>4, <1>5, <1>6 DEF VmInv
<1> QED
  BY <1>7 DEF role2

(* page_free of a held page, as the code has it.                           *)
LEMMA page_freeStep ==
  ASSUME NEW s, NEW D, NEW H, NEW role, VmInv(s, D, H, role), NEW h \in H
  PROVE  /\ VmInv(page_free(s, h), D, H \ {h}, Recast(role, h, "free"))
         /\ page_free(s, h).mem = s.mem
<1>0. /\ s \in Machine /\ s.panic = FALSE /\ FreePart(s, role)
      /\ HeldPart(H, role) /\ CountPart(s, D, role)
  BY DEF VmInv
<1>1. h \in Managed /\ role[h] = "held" /\ h \in Frames
  BY <1>0, LayoutFacts DEF HeldPart
<1>2. s.ref[h] = 0 /\ s.link[h] = NULL
  BY <1>0, <1>1 DEF CountPart, FreePart, FreeList, ListShape
<1>3. page_free(s, h) = [s EXCEPT !.link[h] = s.head, !.head = h]
  BY <1>2 DEF page_free
<1>4. page_free(s, h) \in Machine
  BY <1>0, <1>1, page_freeType
<1>5. /\ page_free(s, h).head = h /\ page_free(s, h).link = [s.link EXCEPT ![h] = s.head]
      /\ page_free(s, h).ref = s.ref /\ page_free(s, h).mem = s.mem
      /\ KeepMmu(s, page_free(s, h)) /\ page_free(s, h).panic = FALSE
  BY <1>0, <1>3 DEF Machine, KeepMmu
<1> QED
  BY <1>4, <1>5, PushStep

(* Memory is the same but for the page f.                                  *)
OnlyPage(s, s2, f) == \A g \in Frames : g # f => s2.mem[g] = s.mem[g]

(* A store into a page that is none of the tables: the user's, or memset   *)
(* of a page that page_alloc returned.                                     *)
LEMMA StoreStep ==
  ASSUME NEW s, NEW s2 \in Machine, NEW D, NEW H, NEW role, VmInv(s, D, H, role),
         NEW f \in Managed, role[f] \in {"free", "held", "page"},
         OnlyPage(s, s2, f), KeepList(s, s2), s2.ref = s.ref, KeepMmu(s, s2), s2.panic = FALSE
  PROVE  /\ VmInv(s2, D, H, role)
         /\ UserSame(s, s2, D)
<1>0. /\ s \in Machine /\ role \in [Managed -> Roles] /\ FreePart(s, role)
      /\ HeldPart(H, role) /\ CountPart(s, D, role) /\ DirPart(s, D, role)
  BY DEF VmInv
<1>1. SameTables(s, s2, D, role)
  BY <1>0, LayoutFacts DEF IsTable, SameTables, DirPart, OnlyPage
<1>2. /\ DirPart(s2, D, role) /\ UserTabPart(s2, D, role)
      /\ KernTabPart(s2, role) /\ PagePart(s2, D, role) /\ TlbPart(s2, D)
      /\ \A d \in D, i, j \in Ents : Walk(s2, d, i, j) = Walk(s, d, i, j)
      /\ \A g : PteRefs(s2, D, g) = PteRefs(s, D, g)
  BY <1>0, <1>1, KeepTables
<1>3. FreePart(s2, role)
  BY <1>0, SameList DEF FreePart, KeepList
<1>4. CountPart(s2, D, role)
  BY <1>0, <1>2 DEF CountPart
<1> QED
  BY <1>0, <1>2, <1>3, <1>4, LayoutFacts DEF VmInv, UserSame

-----------------------------------------------------------------------------
(* Cached translations stay right when no step takes away, or leads to     *)
(* another page, what they were read from.                                 *)
TlbKept(s, s2) ==
  /\ \A k, l \in Ents : s2.tlb[k][l].p => s2.tlb[k][l] = s.tlb[k][l]
  /\ \A k, l \in Ents : s.cr3 # NULL /\ s2.tlb[k][l].p /\ Walk(s, s.cr3, k, l).p =>
       /\ Walk(s2, s.cr3, k, l).p
       /\ Walk(s2, s.cr3, k, l).pa = Walk(s, s.cr3, k, l).pa

(* What the TLB holds stays good when nothing is added to it and %cr3      *)
(* stays.                                                                  *)
LEMMA KeepTlb ==
  ASSUME NEW s, NEW s2, NEW D, NEW D2, TlbPart(s, D), s2.cr3 = s.cr3,
         s.cr3 = NULL => D2 = {KERN_PGDIR}, s.cr3 # NULL => s.cr3 \in D2,
         TlbKept(s, s2)
  PROVE  TlbPart(s2, D2)
<1> SUFFICES ASSUME NEW k \in Ents, NEW l \in Ents, s2.tlb[k][l].p
             PROVE  /\ s2.cr3 # NULL
                    /\ Walk(s2, s2.cr3, k, l).p /\ s2.tlb[k][l].pa = Walk(s2, s2.cr3, k, l).pa
                    /\ k \in KernPdx => ~(RWU \subseteq s2.tlb[k][l].perm)
                    /\ k \in KernIdx /\ "U" \in s2.tlb[k][l].perm =>
                         s2.tlb[k][l].pa \notin Managed
  BY DEF TlbPart
<1>1. s2.tlb[k][l] = s.tlb[k][l]
  BY DEF TlbKept
<1>2. s.tlb[k][l].p
  BY <1>1
<1>3. /\ s.cr3 # NULL
      /\ Walk(s, s.cr3, k, l).p /\ s.tlb[k][l].pa = Walk(s, s.cr3, k, l).pa
      /\ k \in KernPdx => ~(RWU \subseteq s.tlb[k][l].perm)
      /\ k \in KernIdx /\ "U" \in s.tlb[k][l].perm => s.tlb[k][l].pa \notin Managed
  BY <1>2 DEF TlbPart
<1> QED
  BY <1>1, <1>3 DEF TlbKept

(* Memory is the same but for entry i of frame d.                          *)
SameBut(s, s2, d, i) ==
  \A g \in Frames, k \in Ents : ~(g = d /\ k = i) => s2.mem[g][k] = s.mem[g][k]

(* Entry j of the table pt is set to x.                                    *)
PteSet(s, s2, pt, j, x) == s2.mem = [s.mem EXCEPT ![pt][j] = x]

(* What a store to one entry of one page leaves in memory.                 *)
LEMMA EntryWritten ==
  ASSUME NEW s \in Machine, NEW s2, NEW d \in Frames, NEW i \in Ents, NEW x,
         PteSet(s, s2, d, i, x)
  PROVE  SameBut(s, s2, d, i) /\ s2.mem[d][i] = x
<1>1. s.mem \in [Frames -> [Ents -> PTE]]
  BY MachineFields
<1> QED BY <1>1 DEF SameBut, PteSet

(* What one directory entry decides: the translations below it, and the    *)
(* directory as it is seen at UVPT.                                        *)
LEMMA WalkSetPde ==
  ASSUME NEW s, NEW s2, NEW D, NEW H, NEW role, VmInv(s, D, H, role),
         NEW d \in D, NEW i \in Ents,
         SameBut(s, s2, d, i),
         NEW e \in D, NEW k \in Ents, NEW l \in Ents,
         ~(e = d /\ k = i), ~(e = d /\ k = UVPTX /\ l = i)
  PROVE  Walk(s2, e, k, l) = Walk(s, e, k, l)
<1>0. /\ s \in Machine /\ DirPart(s, D, role) /\ UserTabPart(s, D, role)
      /\ KernTabPart(s, role)
  BY DEF VmInv
<1>1. e \in Frames /\ s2.mem[e][k] = s.mem[e][k]
  BY <1>0, LayoutFacts DEF DirPart, SameBut
<1>2. s.mem[e][k].p => s.mem[e][k].pa \in Frames /\ ~(s.mem[e][k].pa = d /\ l = i)
  <2>1. CASE k \in UserPdx
    BY <1>0, <2>1, LayoutFacts DEF UserTabPart, DirPart
  <2>2. CASE k \in KernIdx
    BY <1>0, <2>2, LayoutFacts DEF KernTabPart, DirPart
  <2>3. CASE k = UVPTX
    BY <1>1, <2>3, WalkUvpt
  <2> QED BY <2>1, <2>2, <2>3, LayoutFacts
<1> QED
  BY <1>1, <1>2 DEF Walk, SameBut

(* The page h becomes the page table of entry i of directory d.            *)
HookedTable(s, s2, h, d, i) ==
  /\ s2.ref = [s.ref EXCEPT ![h] = 1]
  /\ s2.mem = [s.mem EXCEPT ![d][i] = MkPTE(h, RWU)]
  /\ KeepList(s, s2) /\ KeepMmu(s, s2) /\ s2.panic = FALSE

(* pgdir_walk: a held page that is all zero becomes the table of a user    *)
(* entry.  No translation changes.                                         *)
LEMMA HookUserTable ==
  ASSUME NEW s, NEW s2 \in Machine, NEW D, NEW H, NEW role, VmInv(s, D, H, role),
         NEW h \in H, s.mem[h] = ZeroPage, NEW d \in D, d # KERN_PGDIR,
         NEW i \in UserPdx, ~s.mem[d][i].p,
         HookedTable(s, s2, h, d, i)
  PROVE  /\ VmInv(s2, D, H \ {h}, Recast(role, h, "utab"))
         /\ UserSame(s, s2, D)
         /\ s2.mem[d][i].p /\ s2.mem[d][i].pa = h
<1> DEFINE role2 == Recast(role, h, "utab")
<1>0. /\ s \in Machine /\ role \in [Managed -> Roles] /\ FreePart(s, role)
      /\ HeldPart(H, role) /\ CountPart(s, D, role) /\ DirPart(s, D, role)
      /\ UserTabPart(s, D, role) /\ KernTabPart(s, role) /\ PagePart(s, D, role)
      /\ TlbPart(s, D)
  BY DEF VmInv
<1>1. /\ h \in Managed /\ role[h] = "held" /\ h \in Frames /\ h \notin D
      /\ D \subseteq Frames /\ i \in Ents /\ h # d
  BY <1>0, LayoutFacts DEF HeldPart, DirPart
<1>2. /\ role2 \in [Managed -> Roles]
      /\ \A g \in Managed : role2[g] = IF g = h THEN "utab" ELSE role[g]
  BY <1>0, <1>1, RecastFacts DEF Roles
<1> HIDE DEF role2
<1>3. s2.mem[d][i].p /\ s2.mem[d][i].pa = h
  BY <1>0, <1>1, MachineFields DEF MkPTE, HookedTable
<1>4. \A g \in Frames, k \in Ents : ~(g = d /\ k = i) => s2.mem[g][k] = s.mem[g][k]
  BY <1>0, <1>1, MachineFields DEF HookedTable
<1>5. \A e \in D, k, l \in Ents : ~(e = d /\ k = UVPTX /\ l = i) =>
        Walk(s2, e, k, l) = Walk(s, e, k, l)
  <2> SUFFICES ASSUME NEW e \in D, NEW k \in Ents, NEW l \in Ents,
                      ~(e = d /\ k = UVPTX /\ l = i)
               PROVE  Walk(s2, e, k, l) = Walk(s, e, k, l)
    OBVIOUS
  <2>1. CASE e = d /\ k = i
    <3>1. Walk(s, d, i, l) = ZeroPTE
      BY DEF Walk
    <3>2. s2.mem[h][l] = ZeroPTE
      BY <1>1, <1>4 DEF ZeroPage
    <3>3. Walk(s2, d, i, l) = ZeroPTE
      BY <1>3, <3>2 DEF Walk
    <3> QED BY <2>1, <3>1, <3>3
  <2>2. CASE ~(e = d /\ k = i)
    <3>1. SameBut(s, s2, d, i)
      BY <1>4 DEF SameBut
    <3> QED BY <1>1, <2>2, <3>1, WalkSetPde
  <2> QED BY <2>1, <2>2
<1>6. \A e \in D, k \in UserPdx, l \in Ents : Walk(s2, e, k, l) = Walk(s, e, k, l)
  BY <1>5, LayoutFacts
<1>7. FreePart(s2, role2)
  <2>1. {f \in Managed : role2[f] = "free"} = {f \in Managed : role[f] = "free"}
    BY <1>1, <1>2
  <2> QED BY <1>0, <2>1, SameList DEF FreePart, KeepList, HookedTable
<1>8. HeldPart(H \ {h}, role2)
  BY <1>0, <1>1, <1>2 DEF HeldPart
<1>9. DirPart(s2, D, role2)
  BY <1>0, <1>1, <1>2, <1>4, LayoutFacts DEF DirPart
<1>10. UserTabPart(s2, D, role2)
  <2>1. \A e \in D, k \in UserPdx : s2.mem[e][k].p =>
          s2.mem[e][k].pa \in Managed /\ role2[s2.mem[e][k].pa] = "utab"
    BY <1>0, <1>1, <1>2, <1>3, <1>4, LayoutFacts DEF UserTabPart
  <2>2. \A e \in D, k \in UserPdx :
          s2.mem[e][k].p /\ s2.mem[e][k].pa = h => e = d /\ k = i
    BY <1>0, <1>1, <1>4, LayoutFacts DEF UserTabPart
  <2>3. \A e, e2 \in D, k, k2 \in UserPdx :
          s2.mem[e][k].p /\ s2.mem[e2][k2].p /\ s2.mem[e][k].pa = s2.mem[e2][k2].pa =>
            e = e2 /\ k = k2
    <3> SUFFICES ASSUME NEW e \in D, NEW e2 \in D, NEW k \in UserPdx, NEW k2 \in UserPdx,
                        s2.mem[e][k].p, s2.mem[e2][k2].p,
                        s2.mem[e][k].pa = s2.mem[e2][k2].pa
                 PROVE  e = e2 /\ k = k2
      OBVIOUS
    <3>1. CASE s2.mem[e][k].pa = h
      BY <2>2, <3>1
    <3>2. CASE s2.mem[e][k].pa # h
      <4>1. ~(e = d /\ k = i) /\ ~(e2 = d /\ k2 = i)
        BY <1>3, <3>2
      <4>2. s2.mem[e][k] = s.mem[e][k] /\ s2.mem[e2][k2] = s.mem[e2][k2]
        BY <1>1, <1>4, <4>1, LayoutFacts
      <4> QED BY <1>0, <4>2 DEF UserTabPart
    <3> QED BY <3>1, <3>2
  <2>4. ASSUME NEW f \in Managed, role2[f] = "utab"
        PROVE  \E e \in D, k \in UserPdx : s2.mem[e][k].p /\ s2.mem[e][k].pa = f
    <3>1. CASE f = h
      BY <1>3, <3>1
    <3>2. CASE f # h
      <4>1. PICK e \in D, k \in UserPdx : s.mem[e][k].p /\ s.mem[e][k].pa = f
        BY <1>0, <1>2, <2>4, <3>2 DEF UserTabPart
      <4>2. s2.mem[e][k] = s.mem[e][k]
        BY <1>1, <1>4, <4>1, LayoutFacts
      <4> QED BY <4>1, <4>2
    <3> QED BY <3>1, <3>2
  <2> QED BY <2>1, <2>3, <2>4 DEF UserTabPart
<1>11. KernTabPart(s2, role2)
  <2>1. \A k \in KernIdx : s2.mem[KERN_PGDIR][k] = s.mem[KERN_PGDIR][k]
    BY <1>4, LayoutFacts
  <2>2. \A k \in KernIdx, l \in Ents : Walk(s2, KERN_PGDIR, k, l) = Walk(s, KERN_PGDIR, k, l)
    BY <1>0, <1>5, LayoutFacts DEF DirPart
  <2>3. \A f \in Managed : role2[f] = "ktab" <=> role[f] = "ktab"
    BY <1>1, <1>2
  <2> QED BY <1>0, <2>1, <2>2, <2>3 DEF KernTabPart
<1>12. PagePart(s2, D, role2)
  BY <1>0, <1>1, <1>2, <1>6 DEF PagePart
<1>13. CountPart(s2, D, role2)
  <2>1. \A f \in Managed : s2.ref[f] = IF f = h THEN 1 ELSE s.ref[f]
    BY <1>0, <1>1, MachineFields, LayoutFacts DEF HookedTable
  <2>2. \A f : PteRefs(s2, D, f) = PteRefs(s, D, f)
    BY <1>6, PteRefsSame
  <2> QED BY <1>0, <1>1, <1>2, <2>1, <2>2 DEF CountPart
<1>14. TlbPart(s2, D)
  <2>1. ASSUME NEW k \in Ents, NEW l \in Ents, s.cr3 # NULL, Walk(s, s.cr3, k, l).p
        PROVE  Walk(s2, s.cr3, k, l) = Walk(s, s.cr3, k, l)
    <3>1. ~(s.cr3 = d /\ k = UVPTX /\ l = i)
      BY <2>1, WalkUvpt
    <3> QED BY <1>0, <1>5, <2>1, <3>1 DEF TlbPart
  <2>2. s2.cr3 = s.cr3 /\ s2.tlb = s.tlb
    BY DEF KeepMmu, HookedTable
  <2>3. /\ s.cr3 = NULL => D = {KERN_PGDIR}
        /\ s.cr3 # NULL => s.cr3 \in D
    BY <1>0 DEF TlbPart
  <2>t. TlbKept(s, s2)
    BY <2>1, <2>2, <2>3 DEF TlbKept
  <2> QED BY <1>0, <2>t, <2>1, <2>2, <2>3, KeepTlb
<1>15. VmInv(s2, D, H \ {h}, role2)
  BY <1>2, <1>7, <1>8, <1>9, <1>10, <1>11, <1>12, <1>13, <1>14 DEF VmInv, HookedTable
<1> QED
  BY <1>3, <1>6, <1>15 DEF role2, UserSame

(* The same for an entry of the kernel part, while mem_init runs.          *)
LEMMA HookKernTable ==
  ASSUME NEW s, NEW s2 \in Machine, NEW D, NEW H, NEW role, VmInv(s, D, H, role),
         s.cr3 = NULL, NEW h \in H, s.mem[h] = ZeroPage,
         NEW i \in KernIdx, ~s.mem[KERN_PGDIR][i].p,
         HookedTable(s, s2, h, KERN_PGDIR, i)
  PROVE  /\ VmInv(s2, D, H \ {h}, Recast(role, h, "ktab"))
         /\ UserSame(s, s2, D)
         /\ s2.mem[KERN_PGDIR][i].p /\ s2.mem[KERN_PGDIR][i].pa = h
<1> DEFINE role2 == Recast(role, h, "ktab")
           K == KERN_PGDIR
<1>0. /\ s \in Machine /\ role \in [Managed -> Roles] /\ FreePart(s, role)
      /\ HeldPart(H, role) /\ CountPart(s, D, role) /\ DirPart(s, D, role)
      /\ UserTabPart(s, D, role) /\ KernTabPart(s, role) /\ PagePart(s, D, role)
      /\ TlbPart(s, D)
  BY DEF VmInv
<1>1. /\ h \in Managed /\ role[h] = "held" /\ h \in Frames /\ h \notin D
      /\ D = {K} /\ K \in D /\ D \subseteq Frames /\ i \in Ents /\ h # K /\ i # UVPTX
  BY <1>0, LayoutFacts DEF HeldPart, DirPart, TlbPart
<1>2. /\ role2 \in [Managed -> Roles]
      /\ \A g \in Managed : role2[g] = IF g = h THEN "ktab" ELSE role[g]
  BY <1>0, <1>1, RecastFacts DEF Roles
<1> HIDE DEF role2
<1>3. s2.mem[K][i].p /\ s2.mem[K][i].pa = h /\ s2.mem[K][i] = MkPTE(h, RWU)
  BY <1>0, <1>1, MachineFields DEF MkPTE, HookedTable
<1>4. \A g \in Frames, k \in Ents : ~(g = K /\ k = i) => s2.mem[g][k] = s.mem[g][k]
  BY <1>0, <1>1, MachineFields DEF HookedTable
<1>5. \A k, l \in Ents : ~(k = UVPTX /\ l = i) => Walk(s2, K, k, l) = Walk(s, K, k, l)
  <2> SUFFICES ASSUME NEW k \in Ents, NEW l \in Ents, ~(k = UVPTX /\ l = i)
               PROVE  Walk(s2, K, k, l) = Walk(s, K, k, l)
    OBVIOUS
  <2>1. CASE k = i
    <3>1. Walk(s, K, i, l) = ZeroPTE
      BY DEF Walk
    <3>2. s2.mem[h][l] = ZeroPTE
      BY <1>1, <1>4 DEF ZeroPage
    <3>3. Walk(s2, K, i, l) = ZeroPTE
      BY <1>3, <3>2 DEF Walk
    <3> QED BY <2>1, <3>1, <3>3
  <2>2. CASE k # i
    <3>1. SameBut(s, s2, K, i)
      BY <1>4 DEF SameBut
    <3> QED BY <1>1, <2>2, <3>1, WalkSetPde
  <2> QED BY <2>1, <2>2
<1>6. \A e \in D, k \in UserPdx, l \in Ents : Walk(s2, e, k, l) = Walk(s, e, k, l)
  BY <1>1, <1>5, LayoutFacts
<1>7. FreePart(s2, role2)
  <2>1. {f \in Managed : role2[f] = "free"} = {f \in Managed : role[f] = "free"}
    BY <1>1, <1>2
  <2> QED BY <1>0, <2>1, SameList DEF FreePart, KeepList, HookedTable
<1>8. HeldPart(H \ {h}, role2)
  BY <1>0, <1>1, <1>2 DEF HeldPart
<1>9. DirPart(s2, D, role2)
  <2>1. s2.mem[K][UVPTX] = s.mem[K][UVPTX]
    BY <1>1, <1>4, LayoutFacts
  <2>2. \A k \in UserPdx : s2.mem[K][k] = s.mem[K][k]
    BY <1>1, <1>4, LayoutFacts
  <2> QED BY <1>0, <1>1, <1>2, <2>1, <2>2, LayoutFacts DEF DirPart
<1>10. UserTabPart(s2, D, role2)
  <2>1. \A e \in D, k \in UserPdx : ~s2.mem[e][k].p /\ ~s.mem[e][k].p
    BY <1>0, <1>1, <1>9 DEF DirPart
  <2> QED BY <1>0, <1>1, <1>2, <2>1 DEF UserTabPart
<1>11. KernTabPart(s2, role2)
  <2>1. \A k \in KernIdx : k # i => s2.mem[K][k] = s.mem[K][k]
    BY <1>1, <1>4, LayoutFacts
  <2>2. \A k \in KernIdx, l \in Ents : Walk(s2, K, k, l) = Walk(s, K, k, l)
    BY <1>5, LayoutFacts
  <2>3. \A k \in KernIdx : s2.mem[K][k].p =>
          s2.mem[K][k].pa \in Managed /\ role2[s2.mem[K][k].pa] = "ktab"
    BY <1>0, <1>1, <1>2, <1>3, <2>1 DEF KernTabPart
  <2>4. \A k \in KernIdx : s2.mem[K][k].p /\ s2.mem[K][k].pa = h => k = i
    BY <1>0, <1>1, <2>1 DEF KernTabPart
  <2>5. \A k, k2 \in KernIdx :
          s2.mem[K][k].p /\ s2.mem[K][k2].p /\ s2.mem[K][k].pa = s2.mem[K][k2].pa => k = k2
    BY <1>0, <1>3, <2>1, <2>4 DEF KernTabPart
  <2>6. ASSUME NEW f \in Managed, role2[f] = "ktab"
        PROVE  \E k \in KernIdx : s2.mem[K][k].p /\ s2.mem[K][k].pa = f
    <3>1. CASE f = h
      BY <1>3, <3>1
    <3>2. CASE f # h
      <4>1. PICK k \in KernIdx : s.mem[K][k].p /\ s.mem[K][k].pa = f
        BY <1>0, <1>2, <2>6, <3>2 DEF KernTabPart
      <4> QED BY <2>1, <4>1
    <3> QED BY <3>1, <3>2
  <2>7. \A k \in KernIdx, l \in Ents :
          Walk(s2, K, k, l).p /\ "U" \in Walk(s2, K, k, l).perm =>
            /\ "W" \notin Walk(s2, K, k, l).perm
            /\ Walk(s2, K, k, l).pa \notin Managed
    BY <1>0, <2>2 DEF KernTabPart
  <2> QED BY <2>3, <2>5, <2>6, <2>7 DEF KernTabPart
<1>12. PagePart(s2, D, role2)
  BY <1>0, <1>1, <1>2, <1>6 DEF PagePart
<1>13. CountPart(s2, D, role2)
  <2>1. \A f \in Managed : s2.ref[f] = IF f = h THEN 1 ELSE s.ref[f]
    BY <1>0, <1>1, MachineFields, LayoutFacts DEF HookedTable
  <2>2. \A f : PteRefs(s2, D, f) = PteRefs(s, D, f)
    BY <1>6, PteRefsSame
  <2> QED BY <1>0, <1>1, <1>2, <2>1, <2>2 DEF CountPart
<1>14. TlbPart(s2, D)
  BY <1>0, <1>1 DEF TlbPart, KeepMmu, HookedTable
<1>15. VmInv(s2, D, H \ {h}, role2)
  BY <1>2, <1>7, <1>8, <1>9, <1>10, <1>11, <1>12, <1>13, <1>14 DEF VmInv, HookedTable
<1> QED
  BY <1>3, <1>6, <1>15 DEF role2, UserSame

(* The page h becomes a directory.                                         *)
HookedDir(s, s2, h) ==
  /\ s2.ref = [s.ref EXCEPT ![h] = 1]
  /\ s2.mem = [s.mem EXCEPT ![h] =
                 [s.mem[KERN_PGDIR] EXCEPT ![UVPTX] = MkPTE(h, {"U"})]]
  /\ KeepList(s, s2) /\ KeepMmu(s, s2) /\ s2.panic = FALSE

(* Steps that keep the page tables of the user part where they are: of the *)
(* entries that lead to them, none comes and none goes.                    *)
SameUserPdes(s, s2, D, D2) ==
  /\ \A e \in D2, k \in UserPdx : s2.mem[e][k].p => e \in D /\ s2.mem[e][k] = s.mem[e][k]
  /\ \A e \in D, k \in UserPdx : s.mem[e][k].p => e \in D2 /\ s2.mem[e][k] = s.mem[e][k]

(* So the same pages are page tables of user entries.                      *)
LEMMA SameUserTabs ==
  ASSUME NEW s, NEW s2, NEW D, NEW D2, NEW role, NEW role2, UserTabPart(s, D, role),
         SameUserPdes(s, s2, D, D2),
         \A f \in Managed : role2[f] = "utab" <=> role[f] = "utab"
  PROVE  UserTabPart(s2, D2, role2)
<1>1. ASSUME NEW e \in D2, NEW k \in UserPdx, s2.mem[e][k].p
      PROVE  e \in D /\ s2.mem[e][k] = s.mem[e][k] /\ s.mem[e][k].p
  BY <1>1 DEF SameUserPdes
<1>2. ASSUME NEW e \in D2, NEW k \in UserPdx, s2.mem[e][k].p
      PROVE  s2.mem[e][k].pa \in Managed /\ role2[s2.mem[e][k].pa] = "utab"
  <2>1. s.mem[e][k].pa \in Managed /\ role[s.mem[e][k].pa] = "utab"
    BY <1>1, <1>2 DEF UserTabPart
  <2> QED BY <1>1, <1>2, <2>1
<1>3. ASSUME NEW e \in D2, NEW k \in UserPdx, NEW e2 \in D2, NEW k2 \in UserPdx,
             s2.mem[e][k].p, s2.mem[e2][k2].p, s2.mem[e][k].pa = s2.mem[e2][k2].pa
      PROVE  e = e2 /\ k = k2
  <2>1. /\ e \in D /\ s2.mem[e][k] = s.mem[e][k] /\ s.mem[e][k].p
        /\ e2 \in D /\ s2.mem[e2][k2] = s.mem[e2][k2] /\ s.mem[e2][k2].p
    BY <1>1, <1>3
  <2> QED BY <1>3, <2>1 DEF UserTabPart
<1>4. ASSUME NEW f \in Managed, role2[f] = "utab"
      PROVE  \E e \in D2, k \in UserPdx : s2.mem[e][k].p /\ s2.mem[e][k].pa = f
  <2>1. PICK e \in D, k \in UserPdx : s.mem[e][k].p /\ s.mem[e][k].pa = f
    BY <1>4 DEF UserTabPart
  <2>2. e \in D2 /\ s2.mem[e][k] = s.mem[e][k]
    BY <2>1 DEF SameUserPdes
  <2> QED BY <2>1, <2>2
<1> QED BY <1>2, <1>3, <1>4 DEF UserTabPart

(* env_setup_vm: a held page becomes a directory, a copy of kern_pgdir     *)
(* that maps itself at UVPT.                                               *)
LEMMA HookDir ==
  ASSUME NEW s, NEW s2 \in Machine, NEW D, NEW H, NEW role, VmInv(s, D, H, role),
         s.cr3 # NULL, NEW h \in H,
         HookedDir(s, s2, h)
  PROVE  /\ VmInv(s2, D \cup {h}, H \ {h}, Recast(role, h, "dir"))
         /\ UserSame(s, s2, D)
<1> DEFINE role2 == Recast(role, h, "dir")
           D2 == D \cup {h}
           K == KERN_PGDIR
<1>0. /\ s \in Machine /\ role \in [Managed -> Roles] /\ FreePart(s, role)
      /\ HeldPart(H, role) /\ CountPart(s, D, role) /\ DirPart(s, D, role)
      /\ UserTabPart(s, D, role) /\ KernTabPart(s, role) /\ PagePart(s, D, role)
      /\ TlbPart(s, D)
  BY DEF VmInv
<1>1. /\ h \in Managed /\ role[h] = "held" /\ h \in Frames /\ h \notin D
      /\ K \in D /\ D \subseteq Frames /\ h # K /\ UVPTX \in Ents
  BY <1>0, LayoutFacts DEF HeldPart, DirPart
<1>2. /\ role2 \in [Managed -> Roles]
      /\ \A g \in Managed : role2[g] = IF g = h THEN "dir" ELSE role[g]
  BY <1>0, <1>1, RecastFacts DEF Roles
<1> HIDE DEF role2
<1>3. /\ \A k \in Ents : k # UVPTX => s2.mem[h][k] = s.mem[K][k]
      /\ s2.mem[h][UVPTX] = MkPTE(h, {"U"})
      /\ \A g \in Frames : g # h => s2.mem[g] = s.mem[g]
  BY <1>0, <1>1, MachineFields DEF HookedDir
<1>4. \A e \in D, k, l \in Ents : Walk(s2, e, k, l) = Walk(s, e, k, l)
  <2>1. SameTables(s, s2, D, role)
    BY <1>1, <1>3, LayoutFacts DEF IsTable, SameTables
  <2> QED BY <2>1, SameWalk
<1>5. \A k \in UserPdx : ~s2.mem[h][k].p
  BY <1>0, <1>3, LayoutFacts DEF DirPart
<1>6. \A k \in UserPdx, l \in Ents : Walk(s2, h, k, l) = ZeroPTE /\ ~Walk(s2, h, k, l).p
  BY <1>5 DEF Walk, ZeroPTE
<1>7. FreePart(s2, role2)
  <2>1. {f \in Managed : role2[f] = "free"} = {f \in Managed : role[f] = "free"}
    BY <1>1, <1>2
  <2> QED BY <1>0, <2>1, SameList DEF FreePart, KeepList, HookedDir
<1>8. HeldPart(H \ {h}, role2)
  BY <1>0, <1>1, <1>2 DEF HeldPart
<1>9. DirPart(s2, D2, role2)
  <2>1. K \in D2 /\ D2 \ {K} \subseteq Managed
    BY <1>0, <1>1 DEF DirPart
  <2>2. \A f \in Managed : f \in D2 <=> role2[f] = "dir"
    BY <1>0, <1>2 DEF DirPart
  <2>3. \A k \in UserPdx : ~s2.mem[K][k].p
    BY <1>0, <1>1, <1>3 DEF DirPart
  <2>4. \A e \in D2 : /\ \A k \in KernIdx : s2.mem[e][k] = s2.mem[K][k]
                      /\ s2.mem[e][UVPTX] = MkPTE(e, {"U"})
    BY <1>0, <1>1, <1>3, LayoutFacts DEF DirPart
  <2> QED BY <2>1, <2>2, <2>3, <2>4 DEF DirPart
<1>10. UserTabPart(s2, D2, role2)
  <2>1. \A e \in D2, k \in UserPdx : s2.mem[e][k].p => e \in D /\ s2.mem[e][k] = s.mem[e][k]
    BY <1>1, <1>3, <1>5
  <2>2. \A e \in D, k \in UserPdx : e \in D2 /\ s2.mem[e][k] = s.mem[e][k]
    BY <1>1, <1>3
  <2>3. \A f \in Managed : role2[f] = "utab" <=> role[f] = "utab"
    BY <1>1, <1>2
  <2>4. SameUserPdes(s, s2, D, D2)
    BY <2>1, <2>2 DEF SameUserPdes
  <2> HIDE DEF D2
  <2> QED BY <1>0, <2>3, <2>4, SameUserTabs
<1>11. KernTabPart(s2, role2)
  <2>1. s2.mem[K] = s.mem[K]
    BY <1>1, <1>3
  <2>2. \A k \in KernIdx, l \in Ents : Walk(s2, K, k, l) = Walk(s, K, k, l)
    BY <1>1, <1>4, LayoutFacts
  <2>3. \A f \in Managed : role2[f] = "ktab" <=> role[f] = "ktab"
    BY <1>1, <1>2
  <2> QED BY <1>0, <2>1, <2>2, <2>3 DEF KernTabPart
<1>12. \A e \in D2, k \in UserPdx, l \in Ents :
         Walk(s2, e, k, l).p => e \in D /\ Walk(s2, e, k, l) = Walk(s, e, k, l)
  BY <1>4, <1>6, LayoutFacts
<1>13. PagePart(s2, D2, role2)
  BY <1>0, <1>1, <1>2, <1>4, <1>6, LayoutFacts DEF PagePart
<1>14. CountPart(s2, D2, role2)
  <2>1. \A f \in Managed : s2.ref[f] = IF f = h THEN 1 ELSE s.ref[f]
    BY <1>0, <1>1, MachineFields, LayoutFacts DEF HookedDir
  <2>2. ASSUME NEW f PROVE PteRefs(s2, D2, f) = PteRefs(s, D, f)
    <3>1. ASSUME NEW x \in PteRefs(s2, D2, f) PROVE x \in PteRefs(s, D, f)
      <4>1. x = <<x[1], x[2], x[3]>>
        BY PteRefsTriple
      <4> QED BY <1>12, <4>1 DEF PteRefs
    <3>2. ASSUME NEW x \in PteRefs(s, D, f) PROVE x \in PteRefs(s2, D2, f)
      BY <1>4, LayoutFacts DEF PteRefs
    <3> QED BY <3>1, <3>2
  <2> QED BY <1>0, <1>1, <1>2, <2>1, <2>2 DEF CountPart
<1>15. TlbPart(s2, D2)
  BY <1>0, <1>4 DEF TlbPart, KeepMmu, HookedDir
<1>16. VmInv(s2, D2, H \ {h}, role2)
  BY <1>2, <1>7, <1>8, <1>9, <1>10, <1>11, <1>13, <1>14, <1>15 DEF VmInv, HookedDir
<1> QED
  BY <1>4, <1>16, LayoutFacts DEF role2, UserSame

-----------------------------------------------------------------------------
(* The pages that hold directories and page tables are the same.           *)
SameRoles(role, role2) ==
  \A f \in Managed, r \in {"dir", "utab", "ktab"} : role2[f] = r <=> role[f] = r

(* Every translation is the same but the one at <<d, i, j>>, whose page    *)
(* table is still in its place.                                            *)
WalkBut(s, s2, D, d, i, j) ==
  /\ \A e \in D, k, l \in Ents : ~(e = d /\ k = i /\ l = j) =>
       Walk(s2, e, k, l) = Walk(s, e, k, l)
  /\ Walk(s, d, i, j) = s.mem[s.mem[d][i].pa][j]
  /\ Walk(s2, d, i, j) = s2.mem[s.mem[d][i].pa][j]

(* An entry of a user page table decides one translation: the table is not *)
(* shared, it is no directory, and no table of the kernel part.            *)
LEMMA SetUserPte ==
  ASSUME NEW s, NEW s2, NEW D, NEW H, NEW role, VmInv(s, D, H, role),
         NEW d \in D, NEW i \in UserPdx, NEW j \in Ents, s.mem[d][i].p,
         SameBut(s, s2, s.mem[d][i].pa, j),
         NEW role2 \in [Managed -> Roles],
         SameRoles(role, role2)
  PROVE  /\ DirPart(s2, D, role2) /\ UserTabPart(s2, D, role2) /\ KernTabPart(s2, role2)
         /\ WalkBut(s, s2, D, d, i, j)
<1> DEFINE pt == s.mem[d][i].pa
           K  == KERN_PGDIR
<1>0. /\ s \in Machine /\ DirPart(s, D, role) /\ UserTabPart(s, D, role)
      /\ KernTabPart(s, role)
  BY DEF VmInv
<1>1. pt \in Managed /\ role[pt] = "utab" /\ pt \notin D /\ D \subseteq Frames /\ K \in D
  BY <1>0, LayoutFacts DEF UserTabPart, DirPart
<1>2. \A e \in D, k \in Ents : s2.mem[e][k] = s.mem[e][k]
  BY <1>1 DEF SameBut
<1>3. ASSUME NEW e \in D, NEW k \in Ents, NEW l \in Ents, ~(e = d /\ k = i /\ l = j)
      PROVE  Walk(s2, e, k, l) = Walk(s, e, k, l)
  <2>1. s.mem[e][k].p => s.mem[e][k].pa \in Frames /\ ~(s.mem[e][k].pa = pt /\ l = j)
    <3>1. CASE k \in UserPdx
      BY <1>0, <1>3, <3>1, LayoutFacts DEF UserTabPart
    <3>2. CASE k \in KernIdx
      BY <1>0, <1>1, <3>2, LayoutFacts DEF DirPart, KernTabPart
    <3>3. CASE k = UVPTX
      BY <1>1, <3>3, WalkUvpt
    <3> QED BY <3>1, <3>2, <3>3, LayoutFacts
  <2>2. s2.mem[e][k] = s.mem[e][k]
    BY <1>2
  <2>3. s.mem[e][k].p => s2.mem[s.mem[e][k].pa][l] = s.mem[s.mem[e][k].pa][l]
    BY <2>1 DEF SameBut
  <2> QED BY <2>2, <2>3 DEF Walk
<1>r. \A f \in Managed, r \in {"dir", "utab", "ktab"} : role2[f] = r <=> role[f] = r
  BY DEF SameRoles
<1>4. DirPart(s2, D, role2)
  BY <1>0, <1>1, <1>2, <1>r, LayoutFacts DEF DirPart
<1>5. UserTabPart(s2, D, role2)
  <2>1. SameUserPdes(s, s2, D, D)
    BY <1>2, LayoutFacts DEF SameUserPdes
  <2>2. \A f \in Managed : role2[f] = "utab" <=> role[f] = "utab"
    BY <1>r
  <2> QED BY <1>0, <2>1, <2>2, SameUserTabs
<1>6. KernTabPart(s2, role2)
  <2>1. \A k \in KernIdx : s2.mem[K][k] = s.mem[K][k]
    BY <1>1, <1>2, LayoutFacts
  <2>2. \A k \in KernIdx, l \in Ents : Walk(s2, K, k, l) = Walk(s, K, k, l)
    BY <1>1, <1>3, LayoutFacts
  <2> QED BY <1>0, <1>r, <2>1, <2>2 DEF KernTabPart
<1>7. /\ Walk(s, d, i, j) = s.mem[pt][j]
      /\ Walk(s2, d, i, j) = s2.mem[pt][j]
  BY <1>2, LayoutFacts DEF Walk
<1> QED
  BY <1>3, <1>4, <1>5, <1>6, <1>7 DEF WalkBut

(* The translations of the user part that differ are at <<d, i, j>>.       *)
OnlyAt(s, s2, D, d, i, j) ==
  \A e \in D, k \in UserPdx, l \in Ents :
    <<e, k, l>> # <<d, i, j>> => Walk(s2, e, k, l) = Walk(s, e, k, l)

(* Entry j of the table pt leads to page pp, and the reference is counted. *)
EntryMapped(s, s2, pt, j, pp, perm) ==
  /\ s2.ref = [s.ref EXCEPT ![pp] = s.ref[pp] + 1]
  /\ s2.mem = [s.mem EXCEPT ![pt][j] = MkPTE(pp, perm)]
  /\ KeepList(s, s2) /\ KeepMmu(s, s2) /\ s2.panic = FALSE

(* page_insert where nothing is mapped: the page gains a reference.        *)
LEMMA MapStep ==
  ASSUME NEW s, NEW s2 \in Machine, NEW D, NEW H, NEW role, VmInv(s, D, H, role),
         NEW d \in D, NEW i \in UserPdx, NEW j \in Ents, s.mem[d][i].p,
         ~Walk(s, d, i, j).p, NEW pp \in Managed, role[pp] \in {"held", "page"},
         NEW perm,
         EntryMapped(s, s2, s.mem[d][i].pa, j, pp, perm)
  PROVE  /\ VmInv(s2, D, H \ {pp}, Recast(role, pp, "page"))
         /\ OnlyAt(s, s2, D, d, i, j)
<1> DEFINE pt    == s.mem[d][i].pa
           role2 == Recast(role, pp, "page")
<1>0. /\ s \in Machine /\ role \in [Managed -> Roles] /\ FreePart(s, role)
      /\ HeldPart(H, role) /\ CountPart(s, D, role) /\ DirPart(s, D, role)
      /\ UserTabPart(s, D, role) /\ PagePart(s, D, role) /\ TlbPart(s, D)
  BY DEF VmInv
<1>1. pt \in Frames /\ pp \in Frames /\ D \subseteq Frames /\ i \in Ents
  BY <1>0, LayoutFacts DEF UserTabPart, DirPart
<1>2. /\ role2 \in [Managed -> Roles]
      /\ \A g \in Managed : role2[g] = IF g = pp THEN "page" ELSE role[g]
  BY <1>0, RecastFacts DEF Roles
<1> HIDE DEF role2
<1>3. SameBut(s, s2, pt, j) /\ s2.mem[pt][j] = MkPTE(pp, perm)
  <2>1. PteSet(s, s2, pt, j, MkPTE(pp, perm))
    BY Zenon DEF EntryMapped, PteSet
  <2> HIDE DEF pt
  <2> QED BY <1>0, <1>1, <2>1, EntryWritten
<1>4. \A f \in Managed, r \in {"dir", "utab", "ktab"} : role2[f] = r <=> role[f] = r
  BY <1>2
<1>5. /\ DirPart(s2, D, role2) /\ UserTabPart(s2, D, role2) /\ KernTabPart(s2, role2)
      /\ \A e \in D, k, l \in Ents : ~(e = d /\ k = i /\ l = j) =>
           Walk(s2, e, k, l) = Walk(s, e, k, l)
      /\ Walk(s2, d, i, j) = s2.mem[pt][j]
  <2> HIDE DEF pt
  <2>1. SameBut(s, s2, s.mem[d][i].pa, j)
    BY <1>3 DEF pt
  <2>2. SameRoles(role, role2)
    BY <1>4 DEF SameRoles
  <2>3. DirPart(s2, D, role2) /\ UserTabPart(s2, D, role2) /\ KernTabPart(s2, role2)
    BY <1>2, <2>1, <2>2, SetUserPte
  <2>4. WalkBut(s, s2, D, d, i, j)
    BY <1>2, <2>1, <2>2, SetUserPte
  <2> QED BY <2>3, <2>4 DEF pt, WalkBut
<1>6. Walk(s2, d, i, j).p /\ Walk(s2, d, i, j).pa = pp
  BY <1>3, <1>5 DEF MkPTE
<1>7. OnlyAt(s, s2, D, d, i, j)
  BY <1>5, LayoutFacts DEF OnlyAt
<1>8. FreePart(s2, role2)
  <2>1. {f \in Managed : role2[f] = "free"} = {f \in Managed : role[f] = "free"}
    BY <1>1, <1>2
  <2> QED BY <1>0, <2>1, SameList DEF FreePart, KeepList, EntryMapped
<1>9. HeldPart(H \ {pp}, role2)
  BY <1>0, <1>2 DEF HeldPart
<1>10. PagePart(s2, D, role2)
  <2> SUFFICES ASSUME NEW e \in D, NEW k \in UserPdx, NEW l \in Ents
               PROVE  /\ Walk(s2, e, k, l).p =>
                           /\ Walk(s2, e, k, l).pa \in Managed
                           /\ role2[Walk(s2, e, k, l).pa] = "page"
                      /\ ~Walk(s2, e, k, l).p => Walk(s2, e, k, l) = ZeroPTE
    BY DEF PagePart
  <2>1. CASE e = d /\ k = i /\ l = j
    BY <1>2, <1>6, <2>1
  <2>2. CASE ~(e = d /\ k = i /\ l = j)
    <3>1. Walk(s2, e, k, l) = Walk(s, e, k, l)
      BY <1>5, <2>2, LayoutFacts
    <3> QED BY <1>0, <1>2, <3>1 DEF PagePart
  <2> QED BY <2>1, <2>2
<1>11. CountPart(s2, D, role2)
  <2>1. \A f \in Managed : s2.ref[f] = IF f = pp THEN s.ref[pp] + 1 ELSE s.ref[f]
    BY <1>0, <1>1, MachineFields, LayoutFacts DEF EntryMapped
  <2>2. \A f : /\ pp # f => PteRefs(s2, D, f) = PteRefs(s, D, f)
               /\ pp = f => /\ PteRefs(s2, D, f) = PteRefs(s, D, f) \cup {<<d, i, j>>}
                            /\ Cardinality(PteRefs(s2, D, f)) =
                                 Cardinality(PteRefs(s, D, f)) + 1
    BY <1>1, <1>6, <1>7, PteRefsAdd DEF OnlyAt
  <2>3. s.ref[pp] = Cardinality(PteRefs(s, D, pp))
    <3>1. CASE role[pp] = "page"
      BY <1>0, <3>1 DEF CountPart
    <3>2. CASE role[pp] = "held"
      <4>1. PteRefs(s, D, pp) = {}
        BY <3>2, PteRefsByRole
      <4> QED BY <1>0, <3>2, <4>1, FS_EmptySet DEF CountPart
    <3> QED BY <3>1, <3>2
  <2> SUFFICES ASSUME NEW f \in Managed
               PROVE  /\ role2[f] \in {"free", "held"} => s2.ref[f] = 0
                      /\ role2[f] \in {"dir", "utab", "ktab"} => s2.ref[f] = 1
                      /\ role2[f] = "page" =>
                           /\ PteRefs(s2, D, f) # {}
                           /\ s2.ref[f] = Cardinality(PteRefs(s2, D, f))
    BY DEF CountPart
  <2>4. CASE f = pp
    <3>1. role2[f] = "page"
      BY <1>2, <2>4
    <3>2. PteRefs(s2, D, f) # {}
      BY <2>2, <2>4
    <3>3. s2.ref[f] = Cardinality(PteRefs(s2, D, f))
      BY <2>1, <2>2, <2>3, <2>4
    <3> QED BY <3>1, <3>2, <3>3
  <2>5. CASE f # pp
    <3>1. s2.ref[f] = s.ref[f] /\ PteRefs(s2, D, f) = PteRefs(s, D, f) /\ role2[f] = role[f]
      BY <1>2, <2>1, <2>2, <2>5
    <3> QED BY <1>0, <3>1 DEF CountPart
  <2> QED BY <2>4, <2>5
<1>12. TlbPart(s2, D)
  <2>1. ASSUME NEW k \in Ents, NEW l \in Ents, s.cr3 # NULL, Walk(s, s.cr3, k, l).p
        PROVE  Walk(s2, s.cr3, k, l) = Walk(s, s.cr3, k, l)
    BY <1>0, <1>5, <2>1 DEF TlbPart
  <2>2. s2.cr3 = s.cr3 /\ s2.tlb = s.tlb
    BY DEF KeepMmu, EntryMapped
  <2>3. /\ s.cr3 = NULL => D = {KERN_PGDIR}
        /\ s.cr3 # NULL => s.cr3 \in D
    BY <1>0 DEF TlbPart
  <2>4. \A k, l \in Ents : s.cr3 # NULL /\ s2.tlb[k][l].p /\ Walk(s, s.cr3, k, l).p =>
          /\ Walk(s2, s.cr3, k, l).p
          /\ Walk(s2, s.cr3, k, l).pa = Walk(s, s.cr3, k, l).pa
    BY <2>1
  <2>t. TlbKept(s, s2)
    BY <2>2, <2>3, <2>4 DEF TlbKept
  <2> QED BY <1>0, <2>t, <2>2, <2>3, KeepTlb
<1>13. VmInv(s2, D, H \ {pp}, role2)
  BY <1>2, <1>5, <1>8, <1>9, <1>10, <1>11, <1>12 DEF VmInv, EntryMapped
<1> QED
  BY <1>7, <1>13 DEF role2

(* Entry j of the table pt is set, and nothing is counted.                 *)
EntrySet(s, s2, pt, j, pa, perm) ==
  /\ s2.mem = [s.mem EXCEPT ![pt][j] = MkPTE(pa, perm)]
  /\ s2.ref = s.ref /\ KeepList(s, s2) /\ KeepMmu(s, s2) /\ s2.panic = FALSE

(* page_insert of the page that is mapped there: only permissions change.  *)
LEMMA RemapStep ==
  ASSUME NEW s, NEW s2 \in Machine, NEW D, NEW H, NEW role, VmInv(s, D, H, role),
         NEW d \in D, NEW i \in UserPdx, NEW j \in Ents, s.mem[d][i].p,
         Walk(s, d, i, j).p, NEW perm,
         EntrySet(s, s2, s.mem[d][i].pa, j, Walk(s, d, i, j).pa, perm)
  PROVE  VmInv(s2, D, H, role) /\ OnlyAt(s, s2, D, d, i, j)
<1> DEFINE pt == s.mem[d][i].pa
           pp == Walk(s, d, i, j).pa
<1>0. /\ s \in Machine /\ role \in [Managed -> Roles] /\ FreePart(s, role)
      /\ HeldPart(H, role) /\ CountPart(s, D, role) /\ DirPart(s, D, role)
      /\ UserTabPart(s, D, role) /\ PagePart(s, D, role) /\ TlbPart(s, D)
  BY DEF VmInv
<1>1. pt \in Frames /\ D \subseteq Frames /\ i \in Ents
  BY <1>0, LayoutFacts DEF UserTabPart, DirPart
<1>2. SameBut(s, s2, pt, j) /\ s2.mem[pt][j] = MkPTE(pp, perm)
  <2>1. PteSet(s, s2, pt, j, MkPTE(pp, perm))
    BY Zenon DEF EntrySet, PteSet
  <2> QED BY <1>0, <1>1, <2>1, EntryWritten
<1>3. /\ DirPart(s2, D, role) /\ UserTabPart(s2, D, role) /\ KernTabPart(s2, role)
      /\ \A e \in D, k, l \in Ents : ~(e = d /\ k = i /\ l = j) =>
           Walk(s2, e, k, l) = Walk(s, e, k, l)
      /\ Walk(s2, d, i, j) = s2.mem[pt][j]
  <2>1. SameBut(s, s2, s.mem[d][i].pa, j)
    BY <1>2
  <2>2. SameRoles(role, role)
    BY DEF SameRoles
  <2>3. DirPart(s2, D, role) /\ UserTabPart(s2, D, role) /\ KernTabPart(s2, role)
    BY <1>0, <2>1, <2>2, SetUserPte
  <2>4. WalkBut(s, s2, D, d, i, j)
    BY <1>0, <2>1, <2>2, SetUserPte
  <2> QED BY <2>3, <2>4 DEF WalkBut
<1>4. Walk(s2, d, i, j).p /\ Walk(s2, d, i, j).pa = pp
  BY <1>2, <1>3 DEF MkPTE
<1>5. \A e \in D, k, l \in Ents :
        /\ Walk(s2, e, k, l).p = Walk(s, e, k, l).p
        /\ Walk(s2, e, k, l).pa = Walk(s, e, k, l).pa
        /\ ~Walk(s, e, k, l).p => Walk(s2, e, k, l) = Walk(s, e, k, l)
  <2> SUFFICES ASSUME NEW e \in D, NEW k \in Ents, NEW l \in Ents
               PROVE  /\ Walk(s2, e, k, l).p = Walk(s, e, k, l).p
                      /\ Walk(s2, e, k, l).pa = Walk(s, e, k, l).pa
                      /\ ~Walk(s, e, k, l).p => Walk(s2, e, k, l) = Walk(s, e, k, l)
    OBVIOUS
  <2>1. CASE e = d /\ k = i /\ l = j
    <3>1. Walk(s2, d, i, j).p \in BOOLEAN /\ Walk(s, d, i, j).p \in BOOLEAN
      BY <1>0, <1>1, WalkType DEF PTE
    <3>2. Walk(s2, d, i, j).p = Walk(s, d, i, j).p
      BY <1>4, <3>1, Zenon
    <3> QED BY <1>4, <2>1, <3>2
  <2>2. CASE ~(e = d /\ k = i /\ l = j)
    BY <1>3, <2>2
  <2> QED BY <2>1, <2>2
<1>6. OnlyAt(s, s2, D, d, i, j)
  BY <1>3, LayoutFacts DEF OnlyAt
<1>7. FreePart(s2, role)
  BY <1>0, SameList DEF FreePart, KeepList, EntrySet
<1>8. PagePart(s2, D, role)
  BY <1>0, <1>5, LayoutFacts DEF PagePart
<1>9. CountPart(s2, D, role)
  <2>1. \A f : PteRefs(s2, D, f) = PteRefs(s, D, f)
    BY <1>5, LayoutFacts DEF PteRefs
  <2> QED BY <1>0, <2>1 DEF CountPart, EntrySet
<1>10. TlbPart(s2, D)
  <2>1. s2.cr3 = s.cr3 /\ s2.tlb = s.tlb
    BY DEF KeepMmu, EntrySet
  <2>2. /\ s.cr3 = NULL => D = {KERN_PGDIR}
        /\ s.cr3 # NULL => s.cr3 \in D
    BY <1>0 DEF TlbPart
  <2>3. \A k, l \in Ents : s.cr3 # NULL /\ s2.tlb[k][l].p /\ Walk(s, s.cr3, k, l).p =>
          /\ Walk(s2, s.cr3, k, l).p
          /\ Walk(s2, s.cr3, k, l).pa = Walk(s, s.cr3, k, l).pa
    BY <1>5, <2>2
  <2>t. TlbKept(s, s2)
    BY <2>1, <2>2, <2>3 DEF TlbKept
  <2> QED BY <1>0, <2>t, <2>1, <2>2, <2>3, KeepTlb
<1>11. VmInv(s2, D, H, role)
  BY <1>0, <1>3, <1>7, <1>8, <1>9, <1>10 DEF VmInv, EntrySet
<1> QED
  BY <1>6, <1>11

(* The page of an entry that is taken away: it is a held page for a        *)
(* moment when that was its last reference.                                *)
Dropped(s, H, role, pp, H2, role2) ==
  \/ s.ref[pp] = 1 /\ H2 = H \cup {pp} /\ role2 = Recast(role, pp, "held")
  \/ s.ref[pp] # 1 /\ H2 = H /\ role2 = role

(* The entry is cleared, the reference dropped, the translation flushed.   *)
Unmapped(s, s2, pt, i, j, pp) ==
  /\ s2.ref = [s.ref EXCEPT ![pp] = s.ref[pp] - 1]
  /\ s2.mem = [s.mem EXCEPT ![pt][j] = ZeroPTE]
  /\ s2.tlb = [s.tlb EXCEPT ![i][j] = ZeroPTE]
  /\ s2.cr3 = s.cr3 /\ s2.panic = FALSE

(* page_remove, but for page_free: the page loses a reference, the entry   *)
(* is zero, and no translation of the address is cached.                   *)
LEMMA UnmapStep ==
  ASSUME NEW s, NEW s2 \in Machine, NEW D, NEW H, NEW role, VmInv(s, D, H, role),
         NEW d \in D, NEW i \in UserPdx, NEW j \in Ents, s.mem[d][i].p,
         Walk(s, d, i, j).p, NEW pp, pp = Walk(s, d, i, j).pa,
         NEW H2, NEW role2, Dropped(s, H, role, pp, H2, role2),
         Unmapped(s, s2, s.mem[d][i].pa, i, j, pp), KeepList(s, s2)
  PROVE  /\ VmInv(s2, D, H2, role2)
         /\ OnlyAt(s, s2, D, d, i, j)
         /\ Walk(s2, d, i, j) = ZeroPTE
<1> DEFINE pt == s.mem[d][i].pa
<1>0. /\ s \in Machine /\ role \in [Managed -> Roles] /\ FreePart(s, role)
      /\ HeldPart(H, role) /\ CountPart(s, D, role) /\ DirPart(s, D, role)
      /\ UserTabPart(s, D, role) /\ PagePart(s, D, role) /\ TlbPart(s, D)
  BY DEF VmInv
<1>1. pt \in Frames /\ D \subseteq Frames /\ i \in Ents
  BY <1>0, LayoutFacts DEF UserTabPart, DirPart
<1>p. pp \in Managed /\ role[pp] = "page" /\ pp \in Frames
  BY <1>0, LayoutFacts DEF PagePart
<1>2. /\ role2 \in [Managed -> Roles]
      /\ \A g \in Managed : g # pp => role2[g] = role[g]
      /\ role2[pp] = IF s.ref[pp] = 1 THEN "held" ELSE "page"
  <2>1. CASE s.ref[pp] = 1
    BY <1>0, <1>p, <2>1, RecastFacts DEF Dropped, Roles
  <2>2. CASE s.ref[pp] # 1
    BY <1>0, <1>p, <2>2 DEF Dropped
  <2> QED BY <2>1, <2>2
<1>3. SameBut(s, s2, pt, j) /\ s2.mem[pt][j] = ZeroPTE
  <2>1. PteSet(s, s2, pt, j, ZeroPTE)
    BY Zenon DEF Unmapped, PteSet
  <2> HIDE DEF pt
  <2> QED BY <1>0, <1>1, <2>1, EntryWritten
<1>4. /\ DirPart(s2, D, role2) /\ UserTabPart(s2, D, role2) /\ KernTabPart(s2, role2)
      /\ \A e \in D, k, l \in Ents : ~(e = d /\ k = i /\ l = j) =>
           Walk(s2, e, k, l) = Walk(s, e, k, l)
      /\ Walk(s2, d, i, j) = s2.mem[pt][j]
  <2>1. SameBut(s, s2, s.mem[d][i].pa, j)
    BY <1>3
  <2>2. SameRoles(role, role2)
    BY <1>p, <1>2 DEF SameRoles
  <2>3. DirPart(s2, D, role2) /\ UserTabPart(s2, D, role2) /\ KernTabPart(s2, role2)
    BY <1>2, <2>1, <2>2, SetUserPte
  <2>4. WalkBut(s, s2, D, d, i, j)
    BY <1>2, <2>1, <2>2, SetUserPte
  <2> QED BY <2>3, <2>4 DEF WalkBut
<1>5. Walk(s2, d, i, j) = ZeroPTE /\ ~Walk(s2, d, i, j).p
  BY <1>3, <1>4 DEF ZeroPTE
<1>6. OnlyAt(s, s2, D, d, i, j)
  BY <1>4, LayoutFacts DEF OnlyAt
<1>7. FreePart(s2, role2)
  <2>1. {f \in Managed : role2[f] = "free"} = {f \in Managed : role[f] = "free"}
    BY <1>p, <1>2
  <2> QED BY <1>0, <2>1, SameList DEF FreePart, KeepList
<1>8. HeldPart(H2, role2)
  BY <1>0, <1>p, <1>2 DEF HeldPart, Dropped
<1>9. \A f : /\ pp # f => PteRefs(s2, D, f) = PteRefs(s, D, f)
             /\ pp = f => /\ PteRefs(s2, D, f) = PteRefs(s, D, f) \ {<<d, i, j>>}
                          /\ Cardinality(PteRefs(s, D, f)) =
                               Cardinality(PteRefs(s2, D, f)) + 1
  <2>1. \A e \in D, k \in UserPdx, l \in Ents :
          <<e, k, l>> # <<d, i, j>> => Walk(s, e, k, l) = Walk(s2, e, k, l)
    BY <1>6 DEF OnlyAt
  <2> QED BY <1>1, <1>5, <2>1, PteRefsAdd
<1>10. /\ s.ref[pp] = Cardinality(PteRefs(s2, D, pp)) + 1
       /\ Cardinality(PteRefs(s2, D, pp)) \in Nat
       /\ Cardinality(PteRefs(s2, D, pp)) = 0 <=> PteRefs(s2, D, pp) = {}
  <2>1. s.ref[pp] = Cardinality(PteRefs(s, D, pp))
    BY <1>0, <1>p DEF CountPart
  <2>2. IsFiniteSet(PteRefs(s2, D, pp)) /\ Cardinality(PteRefs(s2, D, pp)) \in Nat
    BY <1>1, PteRefsFinite
  <2>3. Cardinality(PteRefs(s2, D, pp)) = 0 <=> PteRefs(s2, D, pp) = {}
    BY <2>2, FS_EmptySet
  <2> QED BY <1>9, <2>1, <2>2, <2>3
<1>11. PagePart(s2, D, role2)
  <2> SUFFICES ASSUME NEW e \in D, NEW k \in UserPdx, NEW l \in Ents
               PROVE  /\ Walk(s2, e, k, l).p =>
                           /\ Walk(s2, e, k, l).pa \in Managed
                           /\ role2[Walk(s2, e, k, l).pa] = "page"
                      /\ ~Walk(s2, e, k, l).p => Walk(s2, e, k, l) = ZeroPTE
    BY DEF PagePart
  <2>1. CASE e = d /\ k = i /\ l = j
    BY <1>5, <2>1
  <2>2. CASE ~(e = d /\ k = i /\ l = j)
    <3>1. Walk(s2, e, k, l) = Walk(s, e, k, l)
      BY <1>4, <2>2, LayoutFacts
    <3>2. CASE Walk(s2, e, k, l).p /\ Walk(s2, e, k, l).pa = pp
      <4>1. <<e, k, l>> \in PteRefs(s2, D, pp)
        BY <3>2, PteRefsMember
      <4>2. role2[pp] = "page"
        BY <1>2, <1>10, <4>1
      <4> QED BY <1>p, <3>2, <4>2
    <3>3. CASE ~(Walk(s2, e, k, l).p /\ Walk(s2, e, k, l).pa = pp)
      BY <1>0, <1>2, <3>1, <3>3 DEF PagePart
    <3> QED BY <3>2, <3>3
  <2> QED BY <2>1, <2>2
<1>12. CountPart(s2, D, role2)
  <2>1. \A f \in Managed : s2.ref[f] = IF f = pp THEN s.ref[pp] - 1 ELSE s.ref[f]
    BY <1>0, <1>p, MachineFields, LayoutFacts DEF Unmapped
  <2> SUFFICES ASSUME NEW f \in Managed
               PROVE  /\ role2[f] \in {"free", "held"} => s2.ref[f] = 0
                      /\ role2[f] \in {"dir", "utab", "ktab"} => s2.ref[f] = 1
                      /\ role2[f] = "page" =>
                           /\ PteRefs(s2, D, f) # {}
                           /\ s2.ref[f] = Cardinality(PteRefs(s2, D, f))
    BY DEF CountPart
  <2>2. CASE f = pp
    <3>1. s2.ref[f] = Cardinality(PteRefs(s2, D, f))
      BY <1>10, <2>1, <2>2
    <3>2. role2[f] = "held" => s2.ref[f] = 0
      BY <1>2, <1>10, <2>1, <2>2
    <3>3. role2[f] = "page" => PteRefs(s2, D, f) # {}
      BY <1>2, <1>10, <2>2
    <3> QED BY <1>2, <2>2, <3>1, <3>2, <3>3
  <2>3. CASE f # pp
    <3>1. s2.ref[f] = s.ref[f] /\ PteRefs(s2, D, f) = PteRefs(s, D, f) /\ role2[f] = role[f]
      BY <1>2, <1>9, <2>1, <2>3
    <3> QED BY <1>0, <3>1 DEF CountPart
  <2> QED BY <2>2, <2>3
<1>13. TlbPart(s2, D)
  <2>1. \A k, l \in Ents : s2.tlb[k][l] = IF k = i /\ l = j THEN ZeroPTE ELSE s.tlb[k][l]
    BY <1>0, <1>1, MachineFields DEF Unmapped
  <2>2. /\ s.cr3 = NULL => D = {KERN_PGDIR}
        /\ s.cr3 # NULL => s.cr3 \in D
    BY <1>0 DEF TlbPart
  <2>3. \A k, l \in Ents : s2.tlb[k][l].p => s2.tlb[k][l] = s.tlb[k][l] /\ ~(k = i /\ l = j)
    BY <2>1 DEF ZeroPTE
  <2>4. \A k, l \in Ents : s.cr3 # NULL /\ s2.tlb[k][l].p /\ Walk(s, s.cr3, k, l).p =>
          /\ Walk(s2, s.cr3, k, l).p
          /\ Walk(s2, s.cr3, k, l).pa = Walk(s, s.cr3, k, l).pa
    BY <1>4, <2>2, <2>3
  <2>5. \A k, l \in Ents : s2.tlb[k][l].p => s2.tlb[k][l] = s.tlb[k][l]
    BY <2>3
  <2>t. TlbKept(s, s2)
    BY <2>2, <2>4, <2>5 DEF TlbKept
  <2> QED BY <1>0, <2>t, <2>2, KeepTlb DEF Unmapped
<1>14. VmInv(s2, D, H2, role2)
  BY <1>2, <1>4, <1>7, <1>8, <1>11, <1>12, <1>13 DEF VmInv, Unmapped
<1> QED
  BY <1>5, <1>6, <1>14

-----------------------------------------------------------------------------
(* Entry i of directory d is cleared and its page table f loses its        *)
(* reference.                                                              *)
TableUnhooked(s, s2, f, d, i) ==
  /\ s2.ref = [s.ref EXCEPT ![f] = s.ref[f] - 1]
  /\ s2.mem = [s.mem EXCEPT ![d][i] = ZeroPTE]
  /\ KeepList(s, s2) /\ KeepMmu(s, s2) /\ s2.panic = FALSE

(* env_free of a page table, but for page_free: it had one reference and   *)
(* maps nothing, so no translation changes.                                *)
LEMMA UnhookTable ==
  ASSUME NEW s, NEW s2 \in Machine, NEW D, NEW H, NEW role, VmInv(s, D, H, role),
         NEW d \in D, d # KERN_PGDIR, d # s.cr3, NEW i \in UserPdx, s.mem[d][i].p,
         \A l \in Ents : ~Walk(s, d, i, l).p, NEW f, f = s.mem[d][i].pa,
         TableUnhooked(s, s2, f, d, i)
  PROVE  /\ VmInv(s2, D, H \cup {f}, Recast(role, f, "held"))
         /\ UserSame(s, s2, D)
<1> DEFINE role2 == Recast(role, f, "held")
<1>0. /\ s \in Machine /\ role \in [Managed -> Roles] /\ FreePart(s, role)
      /\ HeldPart(H, role) /\ CountPart(s, D, role) /\ DirPart(s, D, role)
      /\ UserTabPart(s, D, role) /\ KernTabPart(s, role) /\ PagePart(s, D, role)
      /\ TlbPart(s, D)
  BY DEF VmInv
<1>1. /\ f \in Managed /\ role[f] = "utab" /\ f \in Frames
      /\ D \subseteq Frames /\ i \in Ents /\ f \notin H /\ s.ref[f] = 1
  BY <1>0, LayoutFacts DEF UserTabPart, HeldPart, DirPart, CountPart
<1>2. /\ role2 \in [Managed -> Roles]
      /\ \A g \in Managed : role2[g] = IF g = f THEN "held" ELSE role[g]
  BY <1>0, <1>1, RecastFacts DEF Roles
<1> HIDE DEF role2
<1>4. s2.mem[d][i] = ZeroPTE /\ SameBut(s, s2, d, i)
  <2>1. PteSet(s, s2, d, i, ZeroPTE)
    BY DEF TableUnhooked, PteSet
  <2> QED BY <1>0, <1>1, <2>1, EntryWritten
<1>3. ~s2.mem[d][i].p
  BY <1>4 DEF ZeroPTE
<1>5. \A e \in D, k, l \in Ents : ~(e = d /\ k = UVPTX /\ l = i) =>
        Walk(s2, e, k, l) = Walk(s, e, k, l)
  <2> SUFFICES ASSUME NEW e \in D, NEW k \in Ents, NEW l \in Ents,
                      ~(e = d /\ k = UVPTX /\ l = i)
               PROVE  Walk(s2, e, k, l) = Walk(s, e, k, l)
    OBVIOUS
  <2>1. CASE e = d /\ k = i
    <3>1. Walk(s, d, i, l) = ZeroPTE
      BY <1>0 DEF PagePart
    <3>2. Walk(s2, d, i, l) = ZeroPTE
      BY <1>3 DEF Walk
    <3> QED BY <2>1, <3>1, <3>2
  <2>2. CASE ~(e = d /\ k = i)
    BY <1>1, <1>4, <2>2, WalkSetPde
  <2> QED BY <2>1, <2>2
<1>6. \A e \in D, k \in UserPdx, l \in Ents : Walk(s2, e, k, l) = Walk(s, e, k, l)
  BY <1>5, LayoutFacts
<1>7. FreePart(s2, role2)
  <2>1. {g \in Managed : role2[g] = "free"} = {g \in Managed : role[g] = "free"}
    BY <1>1, <1>2
  <2> QED BY <1>0, <2>1, SameList DEF FreePart, KeepList, TableUnhooked
<1>8. HeldPart(H \cup {f}, role2)
  BY <1>0, <1>1, <1>2 DEF HeldPart
<1>9. DirPart(s2, D, role2)
  <2>1. \A e \in D, k \in KernPdx : s2.mem[e][k] = s.mem[e][k]
    BY <1>1, <1>4, LayoutFacts DEF SameBut
  <2>2. \A k \in UserPdx : s2.mem[KERN_PGDIR][k] = s.mem[KERN_PGDIR][k]
    BY <1>4, LayoutFacts DEF SameBut
  <2> QED BY <1>0, <1>1, <1>2, <2>1, <2>2, LayoutFacts DEF DirPart
<1>10. UserTabPart(s2, D, role2)
  <2>1. \A e \in D, k \in UserPdx : s2.mem[e][k].p =>
          ~(e = d /\ k = i) /\ s2.mem[e][k] = s.mem[e][k] /\ s.mem[e][k].pa # f
    BY <1>0, <1>1, <1>3, <1>4, LayoutFacts DEF UserTabPart, SameBut
  <2>2. \A e \in D, k \in UserPdx : s2.mem[e][k].p =>
          s2.mem[e][k].pa \in Managed /\ role2[s2.mem[e][k].pa] = "utab"
    BY <1>0, <1>2, <2>1 DEF UserTabPart
  <2>3. \A e, e2 \in D, k, k2 \in UserPdx :
          s2.mem[e][k].p /\ s2.mem[e2][k2].p /\ s2.mem[e][k].pa = s2.mem[e2][k2].pa =>
            e = e2 /\ k = k2
    <3> SUFFICES ASSUME NEW e \in D, NEW e2 \in D, NEW k \in UserPdx, NEW k2 \in UserPdx,
                        s2.mem[e][k].p, s2.mem[e2][k2].p,
                        s2.mem[e][k].pa = s2.mem[e2][k2].pa
                 PROVE  e = e2 /\ k = k2
      OBVIOUS
    <3>1. s2.mem[e][k] = s.mem[e][k] /\ s2.mem[e2][k2] = s.mem[e2][k2]
      BY <2>1
    <3> QED BY <1>0, <3>1 DEF UserTabPart
  <2>4. ASSUME NEW g \in Managed, role2[g] = "utab"
        PROVE  \E e \in D, k \in UserPdx : s2.mem[e][k].p /\ s2.mem[e][k].pa = g
    <3>1. g # f /\ role[g] = "utab"
      BY <1>2, <2>4
    <3>2. PICK e \in D, k \in UserPdx : s.mem[e][k].p /\ s.mem[e][k].pa = g
      BY <1>0, <3>1 DEF UserTabPart
    <3>3. s2.mem[e][k] = s.mem[e][k]
      BY <1>1, <1>4, <3>1, <3>2, LayoutFacts DEF SameBut
    <3> QED BY <3>2, <3>3
  <2> QED BY <2>2, <2>3, <2>4 DEF UserTabPart
<1>11. KernTabPart(s2, role2)
  <2>1. \A k \in KernIdx : s2.mem[KERN_PGDIR][k] = s.mem[KERN_PGDIR][k]
    BY <1>4, LayoutFacts DEF SameBut
  <2>2. \A k \in KernIdx, l \in Ents : Walk(s2, KERN_PGDIR, k, l) = Walk(s, KERN_PGDIR, k, l)
    BY <1>0, <1>5, LayoutFacts DEF DirPart
  <2>3. \A g \in Managed : role2[g] = "ktab" <=> role[g] = "ktab"
    BY <1>1, <1>2
  <2>4. \A k \in KernIdx : s2.mem[KERN_PGDIR][k].p =>
          /\ s2.mem[KERN_PGDIR][k].pa \in Managed
          /\ role2[s2.mem[KERN_PGDIR][k].pa] = "ktab"
    BY <1>0, <2>1, <2>3 DEF KernTabPart
  <2>5. \A k, k2 \in KernIdx :
          /\ s2.mem[KERN_PGDIR][k].p /\ s2.mem[KERN_PGDIR][k2].p
          /\ s2.mem[KERN_PGDIR][k].pa = s2.mem[KERN_PGDIR][k2].pa
          => k = k2
    BY <1>0, <2>1 DEF KernTabPart
  <2>6. ASSUME NEW g \in Managed, role2[g] = "ktab"
        PROVE  \E k \in KernIdx : s2.mem[KERN_PGDIR][k].p /\ s2.mem[KERN_PGDIR][k].pa = g
    <3>1. PICK k \in KernIdx : s.mem[KERN_PGDIR][k].p /\ s.mem[KERN_PGDIR][k].pa = g
      BY <1>0, <2>3, <2>6 DEF KernTabPart
    <3> QED BY <2>1, <3>1
  <2>7. \A k \in KernIdx, l \in Ents :
          Walk(s2, KERN_PGDIR, k, l).p /\ "U" \in Walk(s2, KERN_PGDIR, k, l).perm =>
            /\ "W" \notin Walk(s2, KERN_PGDIR, k, l).perm
            /\ Walk(s2, KERN_PGDIR, k, l).pa \notin Managed
    BY <1>0, <2>2 DEF KernTabPart
  <2> QED BY <2>4, <2>5, <2>6, <2>7 DEF KernTabPart
<1>12. PagePart(s2, D, role2)
  BY <1>0, <1>1, <1>2, <1>6 DEF PagePart
<1>13. CountPart(s2, D, role2)
  <2>1. \A g \in Managed : s2.ref[g] = IF g = f THEN 0 ELSE s.ref[g]
    BY <1>0, <1>1, MachineFields, LayoutFacts DEF TableUnhooked
  <2>2. \A g : PteRefs(s2, D, g) = PteRefs(s, D, g)
    BY <1>6, PteRefsSame
  <2> QED BY <1>0, <1>1, <1>2, <2>1, <2>2 DEF CountPart
<1>14. TlbPart(s2, D)
  <2>1. s2.cr3 = s.cr3 /\ s2.tlb = s.tlb
    BY DEF KeepMmu, TableUnhooked
  <2>2. /\ s.cr3 = NULL => D = {KERN_PGDIR}
        /\ s.cr3 # NULL => s.cr3 \in D
    BY <1>0 DEF TlbPart
  <2>3. \A k, l \in Ents : s.cr3 # NULL => Walk(s2, s.cr3, k, l) = Walk(s, s.cr3, k, l)
    BY <1>5, <2>2
  <2>t. TlbKept(s, s2)
    BY <2>1, <2>3 DEF TlbKept
  <2> QED BY <1>0, <2>1, <2>2, <2>t, KeepTlb
<1>15. VmInv(s2, D, H \cup {f}, role2)
  BY <1>2, <1>7, <1>8, <1>9, <1>10, <1>11, <1>12, <1>13, <1>14 DEF VmInv, TableUnhooked
<1> QED
  BY <1>6, <1>15 DEF role2, UserSame

(* env_free of the directory, but for page_free: its user part is empty.   *)
LEMMA UnhookDir ==
  ASSUME NEW s, NEW s2 \in Machine, NEW D, NEW H, NEW role, VmInv(s, D, H, role),
         NEW d \in D, d # KERN_PGDIR, d # s.cr3, \A i \in UserPdx : ~s.mem[d][i].p,
         s2.ref = [s.ref EXCEPT ![d] = s.ref[d] - 1], s2.mem = s.mem,
         KeepList(s, s2), KeepMmu(s, s2), s2.panic = FALSE
  PROVE  VmInv(s2, D \ {d}, H \cup {d}, Recast(role, d, "held"))
<1> DEFINE role2 == Recast(role, d, "held")
           D2    == D \ {d}
<1>0. /\ s \in Machine /\ role \in [Managed -> Roles] /\ FreePart(s, role)
      /\ HeldPart(H, role) /\ CountPart(s, D, role) /\ DirPart(s, D, role)
      /\ UserTabPart(s, D, role) /\ KernTabPart(s, role) /\ PagePart(s, D, role)
      /\ TlbPart(s, D)
  BY DEF VmInv
<1>1. /\ d \in Managed /\ role[d] = "dir" /\ d \in Frames /\ d \notin H /\ s.ref[d] = 1
      /\ D \subseteq Frames
  BY <1>0, LayoutFacts DEF HeldPart, DirPart, CountPart
<1>2. /\ role2 \in [Managed -> Roles]
      /\ \A g \in Managed : role2[g] = IF g = d THEN "held" ELSE role[g]
  BY <1>0, <1>1, RecastFacts DEF Roles
<1> HIDE DEF role2
<1>3. \A e, i, j : Walk(s2, e, i, j) = Walk(s, e, i, j)
  BY DEF Walk
<1>4. \A i \in UserPdx, j \in Ents : ~Walk(s, d, i, j).p
  BY DEF Walk, ZeroPTE
<1>5. FreePart(s2, role2)
  <2>1. {g \in Managed : role2[g] = "free"} = {g \in Managed : role[g] = "free"}
    BY <1>1, <1>2
  <2> QED BY <1>0, <2>1, SameList DEF FreePart, KeepList
<1>6. HeldPart(H \cup {d}, role2)
  BY <1>0, <1>1, <1>2 DEF HeldPart
<1>7. DirPart(s2, D2, role2)
  BY <1>0, <1>1, <1>2 DEF DirPart
<1>8. UserTabPart(s2, D2, role2)
  <2>1. \A e \in D, k \in UserPdx : s.mem[e][k].p => e \in D2
    OBVIOUS
  <2>2. \A g \in Managed : role2[g] = "utab" <=> role[g] = "utab"
    BY <1>1, <1>2
  <2>3. \A g \in Managed : role2[g] = "utab" =>
          \E e \in D2, k \in UserPdx : s2.mem[e][k].p /\ s2.mem[e][k].pa = g
    BY <1>0, <2>1, <2>2 DEF UserTabPart
  <2>4. \A e \in D2, k \in UserPdx : s2.mem[e][k].p =>
          s2.mem[e][k].pa \in Managed /\ role2[s2.mem[e][k].pa] = "utab"
    BY <1>0, <2>2 DEF UserTabPart
  <2>5. \A e, e2 \in D2, k, k2 \in UserPdx :
          s2.mem[e][k].p /\ s2.mem[e2][k2].p /\ s2.mem[e][k].pa = s2.mem[e2][k2].pa =>
            e = e2 /\ k = k2
    BY <1>0 DEF UserTabPart
  <2> HIDE DEF D2
  <2> QED BY <2>3, <2>4, <2>5 DEF UserTabPart
<1>9. KernTabPart(s2, role2)
  <2>1. \A g \in Managed : role2[g] = "ktab" <=> role[g] = "ktab"
    BY <1>1, <1>2
  <2> QED BY <1>0, <1>3, <2>1 DEF KernTabPart
<1>10. PagePart(s2, D2, role2)
  BY <1>0, <1>1, <1>2, <1>3 DEF PagePart
<1>11. CountPart(s2, D2, role2)
  <2>1. \A g \in Managed : s2.ref[g] = IF g = d THEN 0 ELSE s.ref[g]
    BY <1>0, <1>1, MachineFields, LayoutFacts
  <2>2. ASSUME NEW g PROVE PteRefs(s2, D2, g) = PteRefs(s, D, g)
    <3>1. ASSUME NEW x \in PteRefs(s2, D2, g) PROVE x \in PteRefs(s, D, g)
      BY <1>3 DEF PteRefs
    <3>2. ASSUME NEW x \in PteRefs(s, D, g) PROVE x \in PteRefs(s2, D2, g)
      <4>1. x = <<x[1], x[2], x[3]>> /\ x[1] # d
        BY <1>4 DEF PteRefs
      <4> QED BY <1>3, <4>1 DEF PteRefs
    <3> QED BY <3>1, <3>2
  <2> QED BY <1>0, <1>1, <1>2, <2>1, <2>2 DEF CountPart
<1>12. TlbPart(s2, D2)
  BY <1>0, <1>1, <1>3, LayoutFacts DEF TlbPart, KeepMmu
<1>13. VmInv(s2, D2, H \cup {d}, role2)
  BY <1>2, <1>5, <1>6, <1>7, <1>8, <1>9, <1>10, <1>11, <1>12 DEF VmInv
<1> QED
  BY <1>13 DEF role2

-----------------------------------------------------------------------------
(* boot_map_region: an entry of a kernel page table is set.  What a user   *)
(* program may read there it may not write, and it is none of the pages of *)
(* the allocator.                                                          *)
LEMMA BootStep ==
  ASSUME NEW s, NEW s2 \in Machine, NEW D, NEW H, NEW role, VmInv(s, D, H, role),
         s.cr3 = NULL, NEW i \in KernIdx, NEW j \in Ents, s.mem[KERN_PGDIR][i].p,
         NEW pa, NEW perm, "U" \in perm => "W" \notin perm /\ pa \notin Managed,
         EntrySet(s, s2, s.mem[KERN_PGDIR][i].pa, j, pa, perm)
  PROVE  /\ VmInv(s2, D, H, role)
         /\ UserSame(s, s2, D)
<1> DEFINE K  == KERN_PGDIR
           pt == s.mem[K][i].pa
<1>0. /\ s \in Machine /\ role \in [Managed -> Roles] /\ FreePart(s, role)
      /\ HeldPart(H, role) /\ CountPart(s, D, role) /\ DirPart(s, D, role)
      /\ UserTabPart(s, D, role) /\ KernTabPart(s, role) /\ PagePart(s, D, role)
      /\ TlbPart(s, D)
  BY DEF VmInv
<1>1. pt \in Managed /\ pt \in Frames /\ pt # K /\ K \in Frames /\ D = {K}
  BY <1>0, LayoutFacts DEF KernTabPart, TlbPart
<1>2. /\ \A g \in Frames, k \in Ents : ~(g = pt /\ k = j) => s2.mem[g][k] = s.mem[g][k]
      /\ s2.mem[pt][j] = MkPTE(pa, perm)
  BY <1>0, <1>1, MachineFields, SMTT(30) DEF EntrySet
<1>3. \A k \in Ents : s2.mem[K][k] = s.mem[K][k]
  BY <1>1, <1>2
<1>4. \A k \in UserPdx, l \in Ents : Walk(s2, K, k, l) = ZeroPTE /\ Walk(s, K, k, l) = ZeroPTE
  BY <1>0, <1>3, LayoutFacts DEF DirPart, Walk
<1>5. FreePart(s2, role)
  BY <1>0, SameList DEF FreePart, KeepList, EntrySet
<1>6. DirPart(s2, D, role)
  BY <1>0, <1>1, <1>3, LayoutFacts DEF DirPart
<1>7. UserTabPart(s2, D, role)
  <2>1. \A e \in D, k \in UserPdx : ~s2.mem[e][k].p /\ ~s.mem[e][k].p
    BY <1>0, <1>1, <1>6 DEF DirPart
  <2> QED BY <1>0, <2>1 DEF UserTabPart
<1>8. KernTabPart(s2, role)
  <2>1. \A k \in KernIdx : s2.mem[K][k] = s.mem[K][k]
    BY <1>3, LayoutFacts
  <2>2. ASSUME NEW k \in KernIdx, NEW l \in Ents, Walk(s2, K, k, l).p,
               "U" \in Walk(s2, K, k, l).perm
        PROVE  "W" \notin Walk(s2, K, k, l).perm /\ Walk(s2, K, k, l).pa \notin Managed
    <3>1. s.mem[K][k].p /\ Walk(s2, K, k, l) = s2.mem[s.mem[K][k].pa][l]
      BY <2>1, <2>2 DEF Walk, ZeroPTE
    <3>2. CASE s.mem[K][k].pa = pt /\ l = j
      <4>1. Walk(s2, K, k, l) = [p |-> TRUE, pa |-> pa, perm |-> perm]
        BY <1>2, <3>1, <3>2 DEF MkPTE
      <4>2. Walk(s2, K, k, l).pa = pa /\ Walk(s2, K, k, l).perm = perm
        BY <4>1
      <4> QED BY <2>2, <4>2
    <3>3. CASE ~(s.mem[K][k].pa = pt /\ l = j)
      <4>1. s.mem[K][k].pa \in Frames
        BY <1>0, <3>1, LayoutFacts DEF KernTabPart
      <4>2. Walk(s2, K, k, l) = Walk(s, K, k, l)
        BY <1>2, <3>1, <3>3, <4>1 DEF Walk
      <4> QED BY <1>0, <2>2, <4>2 DEF KernTabPart
    <3> QED BY <3>2, <3>3
  <2>3. \A k \in KernIdx : s2.mem[K][k].p =>
          s2.mem[K][k].pa \in Managed /\ role[s2.mem[K][k].pa] = "ktab"
    BY <1>0, <2>1 DEF KernTabPart
  <2>4. \A k, k2 \in KernIdx :
          s2.mem[K][k].p /\ s2.mem[K][k2].p /\ s2.mem[K][k].pa = s2.mem[K][k2].pa => k = k2
    BY <1>0, <2>1 DEF KernTabPart
  <2>5. ASSUME NEW g \in Managed, role[g] = "ktab"
        PROVE  \E k \in KernIdx : s2.mem[K][k].p /\ s2.mem[K][k].pa = g
    <3>1. PICK k \in KernIdx : s.mem[K][k].p /\ s.mem[K][k].pa = g
      BY <1>0, <2>5 DEF KernTabPart
    <3> QED BY <2>1, <3>1
  <2> QED BY <2>2, <2>3, <2>4, <2>5 DEF KernTabPart
<1>9. \A e \in D, k \in UserPdx, l \in Ents : Walk(s2, e, k, l) = Walk(s, e, k, l)
  BY <1>1, <1>4
<1>10. PagePart(s2, D, role)
  BY <1>0, <1>9 DEF PagePart
<1>11. CountPart(s2, D, role)
  <2>1. \A g : PteRefs(s2, D, g) = PteRefs(s, D, g)
    BY <1>9, PteRefsSame
  <2> QED BY <1>0, <2>1 DEF CountPart, EntrySet
<1>12. TlbPart(s2, D)
  BY <1>0, <1>1 DEF TlbPart, KeepMmu, EntrySet
<1> QED
  BY <1>0, <1>5, <1>6, <1>7, <1>8, <1>9, <1>10, <1>11, <1>12 DEF VmInv, UserSame, EntrySet

(* What the MMU does: the tables stay, the cached translations change.     *)
LEMMA MmuStep ==
  ASSUME NEW s, NEW s2 \in Machine, NEW D, NEW H, NEW role, VmInv(s, D, H, role),
         s2.mem = s.mem, s2.ref = s.ref, KeepList(s, s2), s2.panic = FALSE,
         TlbPart(s2, D)
  PROVE  /\ VmInv(s2, D, H, role)
         /\ UserSame(s, s2, D)
<1>0. /\ s \in Machine /\ role \in [Managed -> Roles] /\ FreePart(s, role)
      /\ HeldPart(H, role) /\ CountPart(s, D, role) /\ DirPart(s, D, role)
      /\ UserTabPart(s, D, role) /\ KernTabPart(s, role) /\ PagePart(s, D, role)
  BY DEF VmInv
<1>1. \A e, k, l : Walk(s2, e, k, l) = Walk(s, e, k, l)
  BY DEF Walk
<1>2. FreePart(s2, role)
  BY <1>0, SameList DEF FreePart, KeepList
<1>3. SameTables(s, s2, D, role)
  BY DEF SameTables
<1>4. /\ DirPart(s2, D, role) /\ UserTabPart(s2, D, role)
      /\ KernTabPart(s2, role) /\ PagePart(s2, D, role)
  BY <1>0, <1>3, KeepTables
<1>5. CountPart(s2, D, role)
  BY <1>0, <1>1, PteRefsSame DEF CountPart
<1> QED
  BY <1>0, <1>1, <1>2, <1>4, <1>5 DEF VmInv, UserSame

(* A load of %cr3 leaves nothing cached.                                   *)
LEMMA lcr3Step ==
  ASSUME NEW s, NEW D, NEW H, NEW role, VmInv(s, D, H, role), NEW d \in D
  PROVE  /\ VmInv(lcr3(s, d), D, H, role)
         /\ UserSame(s, lcr3(s, d), D)
<1> DEFINE s2 == lcr3(s, d)
<1>0. s \in Machine /\ s.panic = FALSE /\ DirPart(s, D, role) /\ d \in Frames
  BY LayoutFacts DEF VmInv, DirPart
<1>1. s2 \in Machine
  BY <1>0, lcr3Type
<1>2. /\ s2.mem = s.mem /\ s2.ref = s.ref /\ KeepList(s, s2) /\ s2.panic = FALSE
      /\ s2.cr3 = d /\ s2.tlb = EmptyTlb
  BY <1>0 DEF lcr3, KeepList, Machine
<1> HIDE DEF s2
<1>3. TlbPart(s2, D)
  <2>1. \A i, j \in Ents : ~s2.tlb[i][j].p
    BY <1>2 DEF EmptyTlb, ZeroPage, ZeroPTE
  <2>2. d # NULL
    BY <1>0, LayoutFacts
  <2> QED BY <1>2, <2>1, <2>2 DEF TlbPart
<1>4. VmInv(s2, D, H, role) /\ UserSame(s, s2, D)
  BY <1>1, <1>2, <1>3, MmuStep
<1> QED BY <1>4 DEF s2

(* The MMU drops a translation, or reads one from the tables.              *)
LEMMA EvictStep ==
  ASSUME NEW s, NEW D, NEW H, NEW role, VmInv(s, D, H, role),
         NEW i \in Ents, NEW j \in Ents
  PROVE  /\ VmInv(tlb_invalidate(s, i, j), D, H, role)
         /\ UserSame(s, tlb_invalidate(s, i, j), D)
<1> DEFINE s2 == tlb_invalidate(s, i, j)
<1>0. s \in Machine /\ s.panic = FALSE /\ TlbPart(s, D)
  BY DEF VmInv
<1>1. s2 \in Machine
  BY <1>0, tlb_invalidateType
<1>2. /\ s2.mem = s.mem /\ s2.ref = s.ref /\ KeepList(s, s2) /\ s2.panic = FALSE
      /\ s2.cr3 = s.cr3 /\ s2.tlb = [s.tlb EXCEPT ![i][j] = ZeroPTE]
  BY <1>0 DEF tlb_invalidate, KeepList, Machine
<1> HIDE DEF s2
<1>3. TlbPart(s2, D)
  <2>1. \A k, l \in Ents : s2.tlb[k][l].p => s2.tlb[k][l] = s.tlb[k][l]
    BY <1>0, <1>2, MachineFields DEF ZeroPTE
  <2>2. TlbKept(s, s2)
    BY <1>2, <2>1 DEF TlbKept, Walk
  <2>3. /\ s.cr3 = NULL => D = {KERN_PGDIR}
        /\ s.cr3 # NULL => s.cr3 \in D
    BY <1>0 DEF TlbPart
  <2> QED BY <1>0, <1>2, <2>2, <2>3, KeepTlb
<1>4. VmInv(s2, D, H, role) /\ UserSame(s, s2, D)
  BY <1>1, <1>2, <1>3, MmuStep
<1> QED BY <1>4 DEF s2

(* The MMU caches a translation that the directory in force makes.         *)
LEMMA FillStep ==
  ASSUME NEW s, NEW s2 \in Machine, NEW D, NEW H, NEW role, VmInv(s, D, H, role),
         s.cr3 # NULL, NEW i \in Ents, NEW j \in Ents, Walk(s, s.cr3, i, j).p,
         s2.tlb = [s.tlb EXCEPT ![i][j] = Translate(s, i, j)], s2.cr3 = s.cr3,
         s2.mem = s.mem, s2.ref = s.ref, KeepList(s, s2), s2.panic = FALSE
  PROVE  /\ VmInv(s2, D, H, role)
         /\ UserSame(s, s2, D)
<1> DEFINE e == Translate(s, i, j)
           w == Walk(s, s.cr3, i, j)
<1>0. s \in Machine /\ TlbPart(s, D) /\ DirPart(s, D, role) /\ KernTabPart(s, role)
  BY DEF VmInv
<1>1. s.cr3 \in D /\ s.cr3 \in Frames
  BY <1>0, LayoutFacts DEF TlbPart, DirPart
<1>2. w \in PTE
  BY <1>0, <1>1, WalkType
<1>3. e.p /\ e.pa = w.pa /\ e.perm = w.perm \cap s.mem[s.cr3][i].perm
  <2> HIDE DEF w
  <2>1. e = [w EXCEPT !.perm = w.perm \cap s.mem[s.cr3][i].perm]
    BY DEF Translate, w
  <2>2. w.p
    BY DEF w
  <2> QED BY <1>2, <2>1, <2>2 DEF PTE
<1>4. /\ i \in KernPdx => ~(RWU \subseteq e.perm)
      /\ i \in KernIdx /\ "U" \in e.perm => e.pa \notin Managed
  <2>1. CASE i = UVPTX
    <3>1. s.mem[s.cr3][i].perm = {"U"}
      BY <1>1, <2>1, WalkUvpt
    <3>2. "W" \notin e.perm
      BY <1>3, <3>1
    <3> QED BY <2>1, <3>2, LayoutFacts
  <2>2. CASE i \in KernIdx
    <3>1. w = Walk(s, KERN_PGDIR, i, j)
      BY <1>1, <2>2, WalkKern
    <3>2. "U" \in w.perm => "W" \notin w.perm /\ w.pa \notin Managed
      BY <1>0, <2>2, <3>1 DEF KernTabPart
    <3> HIDE DEF w, e
    <3> QED BY <1>3, <3>2, LayoutFacts
  <2> QED BY <2>1, <2>2, LayoutFacts
<1> HIDE DEF e, w
<1>5. TlbPart(s2, D)
  <2>1. \A k, l \in Ents : s2.tlb[k][l] = IF k = i /\ l = j THEN e ELSE s.tlb[k][l]
    BY <1>0, MachineFields DEF e
  <2>2. \A k, l : Walk(s2, s2.cr3, k, l) = Walk(s, s.cr3, k, l)
    BY DEF Walk
  <2> SUFFICES ASSUME NEW k \in Ents, NEW l \in Ents, s2.tlb[k][l].p
               PROVE  /\ Walk(s, s.cr3, k, l).p
                      /\ s2.tlb[k][l].pa = Walk(s, s.cr3, k, l).pa
                      /\ k \in KernPdx => ~(RWU \subseteq s2.tlb[k][l].perm)
                      /\ k \in KernIdx /\ "U" \in s2.tlb[k][l].perm =>
                           s2.tlb[k][l].pa \notin Managed
    BY <1>1, <2>2 DEF TlbPart
  <2>3. CASE k = i /\ l = j
    BY <1>3, <1>4, <2>1, <2>3 DEF w
  <2>4. CASE ~(k = i /\ l = j)
    <3>1. s2.tlb[k][l] = s.tlb[k][l]
      BY <2>1, <2>4
    <3> QED BY <1>0, <3>1 DEF TlbPart
  <2> QED BY <2>3, <2>4
<1> QED
  BY <1>5, MmuStep

-----------------------------------------------------------------------------
(***************************************************************************)
(* Each function of kern/pmap.c, and each step of the MMU, keeps the roles *)
(* of the pages; which translations of the user part it changes.           *)
(***************************************************************************)

(* What the roles say of a machine, without naming them.                   *)
LEMMA VmFacts ==
  ASSUME NEW s, NEW D, NEW H, Vm(s, D, H)
  PROVE  /\ s \in Machine /\ s.panic = FALSE
         /\ D \subseteq Frames /\ KERN_PGDIR \in D /\ H \subseteq Managed /\ H \cap D = {}
         /\ \A h \in H : h \in Frames /\ s.ref[h] = 0
         /\ \A f \in Managed : PteRefs(s, D, f) # {} =>
              s.ref[f] = Cardinality(PteRefs(s, D, f))
<1>1. PICK role \in [Managed -> Roles] : VmInv(s, D, H, role)
  BY DEF Vm
<1>2. /\ s \in Machine /\ s.panic = FALSE
      /\ DirPart(s, D, role) /\ HeldPart(H, role) /\ CountPart(s, D, role)
  BY <1>1 DEF VmInv
<1>3. /\ D \subseteq Frames /\ KERN_PGDIR \in D /\ H \subseteq Managed /\ H \cap D = {}
      /\ \A h \in H : h \in Frames /\ s.ref[h] = 0
  <2>1. D \subseteq Frames /\ KERN_PGDIR \in D
    BY <1>2, LayoutFacts DEF DirPart
  <2>2. \A h \in H : h \in Managed /\ role[h] = "held"
    BY <1>2 DEF HeldPart
  <2>3. \A h \in H : h \notin D
    BY <1>2, <2>2, LayoutFacts DEF DirPart
  <2>4. \A h \in H : s.ref[h] = 0
    BY <1>2, <2>2 DEF CountPart
  <2> QED BY <2>1, <2>2, <2>3, <2>4, LayoutFacts
<1>4. \A f \in Managed : PteRefs(s, D, f) # {} => s.ref[f] = Cardinality(PteRefs(s, D, f))
  BY <1>1, <1>2, PteRefsByRole DEF CountPart
<1> QED
  BY <1>2, <1>3, <1>4

(* The directories have the same contents.                                 *)
SameDirs(s, s2, D) == \A e \in D : s2.mem[e] = s.mem[e]

(* All directories keep their entries, but for entry i of d.               *)
SamePdes(s, s2, D, d, i) ==
  \A e \in D, k \in Ents : ~(e = d /\ k = i) => s2.mem[e][k] = s.mem[e][k]

(* The entry for the address leads to page pp, with permissions perm.      *)
MapsTo(s, d, i, j, pp, perm) == Walk(s, d, i, j) = MkPTE(pp, perm)

(* So it does after a step that changed no directory.                      *)
NewEntry(s, s2, D, d, i, j, pp, perm) ==
  SameDirs(s, s2, D) /\ MapsTo(s2, d, i, j, pp, perm) /\ s2.cr3 = s.cr3

(* A page table belongs to no directory: writing an entry of it changes no *)
(* directory, and the translation is that entry.                           *)
LEMMA WritePte ==
  ASSUME NEW s, NEW s2, NEW D, NEW H, Vm(s, D, H), NEW d \in D, NEW i \in UserPdx,
         NEW j \in Ents, s.mem[d][i].p, NEW pt, pt = s.mem[d][i].pa, NEW x,
         PteSet(s, s2, pt, j, x)
  PROVE  SameDirs(s, s2, D) /\ Walk(s2, d, i, j) = x
<1>1. PICK role \in [Managed -> Roles] : VmInv(s, D, H, role)
  BY DEF Vm
<1>2. /\ s \in Machine /\ pt \in Managed /\ role[pt] = "utab" /\ pt \notin D
      /\ pt \in Frames /\ D \subseteq Frames
  BY <1>1, VmFacts, LayoutFacts DEF VmInv, UserTabPart, DirPart
<1>3. s.mem \in [Frames -> [Ents -> PTE]]
  BY <1>2, MachineFields
<1>4. SameDirs(s, s2, D)
  BY <1>2, <1>3 DEF SameDirs, PteSet
<1>5. s2.mem[d][i] = s.mem[d][i]
  BY <1>4 DEF SameDirs
<1>6. s2.mem[pt][j] = x
  BY <1>2, <1>3, SMTT(30) DEF PteSet
<1> QED BY <1>4, <1>5, <1>6 DEF Walk

(* So the entry that page_insert writes is the new translation.            *)
LEMMA NewPte ==
  ASSUME NEW s, NEW s2, NEW D, NEW H, Vm(s, D, H), NEW d \in D, NEW i \in UserPdx,
         NEW j \in Ents, s.mem[d][i].p, NEW pt, pt = s.mem[d][i].pa, NEW pp, NEW perm,
         PteSet(s, s2, pt, j, MkPTE(pp, perm)), s2.cr3 = s.cr3
  PROVE  NewEntry(s, s2, D, d, i, j, pp, perm)
<1>1. SameDirs(s, s2, D) /\ Walk(s2, d, i, j) = MkPTE(pp, perm)
  BY WritePte
<1> QED BY <1>1 DEF MapsTo, NewEntry

(* The fields of the machine that page_alloc returns.                      *)
LEMMA pop_freeFields ==
  ASSUME NEW s \in Machine, s.head # NULL
  PROVE  /\ pop_free(s) \in Machine
         /\ pop_free(s).head = s.link[s.head]
         /\ pop_free(s).link = [s.link EXCEPT ![s.head] = NULL]
         /\ pop_free(s).ref = [s.ref EXCEPT ![s.head] = 0]
         /\ pop_free(s).mem = s.mem /\ KeepMmu(s, pop_free(s))
         /\ pop_free(s).panic = s.panic
<1>1. pop_free(s) \in Machine
  BY pop_freeType
<1> QED
  BY <1>1 DEF pop_free, Machine, KeepMmu

(* A page h was taken, which was used for nothing; it is held now.         *)
Allocated(s, D, H, h, t) ==
  /\ t \in Machine
  /\ h = NULL => t = s
  /\ h # NULL => /\ h \in Managed /\ h \notin H /\ h \notin D
                 /\ Vm(t, D, H \cup {h}) /\ t.ref[h] = 0
                 /\ KeepMmu(s, t) /\ UserSame(s, t, D) /\ SameDirs(s, t, D)

(* page_alloc gives out such a page, or NULL.                              *)
LEMMA page_allocVm ==
  ASSUME NEW s, NEW D, NEW H, Vm(s, D, H), NEW zero \in BOOLEAN,
         NEW t, t = page_alloc(s, zero).m,
         NEW h, h = page_alloc(s, zero).pp
  PROVE  /\ Allocated(s, D, H, h, t)
         /\ h # NULL /\ zero => t.mem[h] = ZeroPage
<1>1. PICK role \in [Managed -> Roles] : VmInv(s, D, H, role)
  BY DEF Vm
<1>2. s \in Machine /\ s.panic = FALSE /\ D \subseteq Frames
  BY VmFacts
<1>3. t \in Machine
  BY <1>2, page_allocType
<1>4. CASE s.head = NULL
  BY <1>3, <1>4 DEF page_alloc, Allocated
<1>5. CASE s.head # NULL
  <2> DEFINE s1 == pop_free(s)
             role1 == Recast(role, h, "held")
             H1 == H \cup {h}
  <2>1. /\ h = s.head /\ t = (IF zero THEN memset0(s1, h) ELSE s1) /\ h # NULL
    BY <1>5 DEF page_alloc
  <2>2. /\ s1 \in Machine /\ s1.head = s.link[h]
        /\ s1.link = [s.link EXCEPT ![h] = NULL] /\ s1.ref = [s.ref EXCEPT ![h] = 0]
        /\ s1.mem = s.mem /\ KeepMmu(s, s1) /\ s1.panic = FALSE
    BY <1>2, <1>5, <2>1, pop_freeFields
  <2> HIDE DEF s1, role1, H1
  <2>3. VmInv(s1, D, H1, role1) /\ h \in Managed /\ role[h] = "free" /\ h \notin H
    <3>1. /\ s1.head = s.link[s.head] /\ s1.link = [s.link EXCEPT ![s.head] = NULL]
          /\ s1.ref = [s.ref EXCEPT ![s.head] = 0]
      BY <2>1, <2>2
    <3>2. /\ VmInv(s1, D, H \cup {s.head}, Recast(role, s.head, "held"))
          /\ s.head \in Managed /\ role[s.head] = "free" /\ s.head \notin H
      BY <1>1, <1>5, <2>2, <3>1, AllocStep
    <3> QED BY <2>1, <3>2 DEF role1, H1
  <2>4. role1 \in [Managed -> Roles] /\ role1[h] = "held" /\ h \in Frames
    BY <2>3, RecastFacts, LayoutFacts DEF Roles, role1
  <2>5. UserSame(s, s1, D)
    BY <2>2 DEF UserSame, Walk
  <2>6. Vm(s1, D, H1)
    BY <2>3, <2>4 DEF Vm
  <2>7. h \notin D /\ s1.ref[h] = 0
    <3>1. h \in D <=> role[h] = "dir"
      BY <1>1, <2>3 DEF VmInv, DirPart
    <3>2. \A g \in H1 : s1.ref[g] = 0
      BY <2>6, VmFacts
    <3> QED BY <2>3, <3>1, <3>2 DEF H1
  <2>8. CASE ~zero
    BY <1>3, <2>1, <2>2, <2>3, <2>5, <2>6, <2>7, <2>8 DEF H1, SameDirs, Allocated
  <2>9. CASE zero
    <3> DEFINE s2 == memset0(s1, h)
    <3>1. s2 \in Machine /\ s2 = [s1 EXCEPT !.mem[h] = ZeroPage]
      BY <2>2, <2>4, memset0Type DEF memset0
    <3>2. /\ s2.mem = [s1.mem EXCEPT ![h] = ZeroPage] /\ KeepList(s1, s2)
          /\ s2.ref = s1.ref /\ KeepMmu(s1, s2) /\ s2.panic = FALSE
      BY <2>2, <3>1 DEF Machine, KeepList, KeepMmu
    <3> HIDE DEF s2, role1
    <3>3. s2.mem[h] = ZeroPage /\ \A g \in Frames : g # h => s2.mem[g] = s1.mem[g]
      BY <2>2, <2>4, <3>2, MachineFields
    <3>4. /\ VmInv(s2, D, H1, role1)
          /\ UserSame(s1, s2, D)
      <4>1. OnlyPage(s1, s2, h) /\ role1[h] \in {"free", "held", "page"}
        BY <2>4, <3>3 DEF OnlyPage
      <4> QED BY <2>3, <2>4, <3>1, <3>2, <4>1, StoreStep
    <3>5. Vm(s2, D, H1)
      BY <2>4, <3>4 DEF Vm
    <3>6. UserSame(s, s2, D)
      BY <2>5, <3>4, LayoutFacts DEF UserSame
    <3>7. KeepMmu(s, s2) /\ s2.ref[h] = 0
      BY <2>2, <2>7, <3>2 DEF KeepMmu
    <3>8. SameDirs(s, s2, D)
      BY <1>2, <2>2, <2>7, <3>3 DEF SameDirs
    <3>9. t = s2
      BY <2>1, <2>9 DEF s2
    <3> QED BY <1>3, <2>1, <2>3, <2>7, <3>3, <3>5, <3>6, <3>7, <3>8, <3>9 DEF H1, Allocated
  <2> QED BY <2>8, <2>9
<1> QED
  BY <1>4, <1>5

(* The first reference to a page.                                          *)
LEMMA FirstRef ==
  (0 + 1) % REFMOD = 1
BY PhysAssumption

(* What page_alloc(ALLOC_ZERO) and pgdir_walk(.., 1) return.               *)
AllocZero(s, h, t) == h = page_alloc(s, TRUE).pp /\ t = page_alloc(s, TRUE).m
WalkCreate(s, d, i, pt, w) ==
  pt = pgdir_walk(s, d, i, TRUE).pt /\ w = pgdir_walk(s, d, i, TRUE).m

(* page_alloc(ALLOC_ZERO) takes a free page, and clears it.                *)
LEMMA page_allocZero ==
  ASSUME NEW s, NEW D, NEW H, Vm(s, D, H), NEW h, NEW t, AllocZero(s, h, t)
  PROVE  /\ Allocated(s, D, H, h, t)
         /\ h # NULL => t.mem[h] = ZeroPage
<1>1. \A zero \in BOOLEAN :
        t = page_alloc(s, zero).m /\ h = page_alloc(s, zero).pp =>
          Allocated(s, D, H, h, t) /\ (h # NULL /\ zero => t.mem[h] = ZeroPage)
  BY page_allocVm
<1>2. t = page_alloc(s, TRUE).m /\ h = page_alloc(s, TRUE).pp
  BY DEF AllocZero
<1> QED
  BY <1>1, <1>2, Zenon

(* A new page table: page_alloc gives the page h of a machine t, and then  *)
(* the entry of the directory and pp_ref are set.                          *)
NewTable(s, t, D, H, d, i, h, s2) ==
  /\ Vm(t, D, H \cup {h}) /\ t.mem[h] = ZeroPage /\ ~t.mem[d][i].p
  /\ KeepMmu(s, t) /\ UserSame(s, t, D) /\ SameDirs(s, t, D)
  /\ HookedTable(t, s2, h, d, i)

(* pgdir_walk with create, for an address that has no page table yet.      *)
LEMMA pgdir_walkNew ==
  ASSUME NEW s, NEW D, NEW H, Vm(s, D, H), NEW d \in D, NEW i \in Ents,
         ~s.mem[d][i].p, NEW pt, NEW w, WalkCreate(s, d, i, pt, w)
  PROVE  \/ pt = NULL /\ w = s
         \/ /\ pt \in Managed /\ pt \notin H /\ w \in Machine
            /\ \E t : NewTable(s, t, D, H, d, i, pt, w)
<1>2. PICK h, t : AllocZero(s, h, t)
  BY DEF AllocZero
<1>3. PICK s2 : s2 = [t EXCEPT !.ref[h] = (@ + 1) % REFMOD, !.mem[d][i] = MkPTE(h, RWU)]
  OBVIOUS
<1>4. /\ t \in Machine
      /\ h = NULL => t = s
      /\ h # NULL => /\ h \in Managed /\ h \notin H /\ h \notin D
                     /\ Vm(t, D, H \cup {h}) /\ t.ref[h] = 0 /\ t.mem[h] = ZeroPage
                     /\ KeepMmu(s, t) /\ UserSame(s, t, D) /\ SameDirs(s, t, D)
  BY <1>2, page_allocZero DEF Allocated
<1>5. /\ h = NULL => w = t /\ pt = NULL
      /\ h # NULL => w = s2 /\ pt = h
  BY <1>2, <1>3 DEF pgdir_walk, WalkCreate, AllocZero
<1>6. CASE h = NULL
  BY <1>4, <1>5, <1>6
<1>7. CASE h # NULL
  <2>1. d \in Frames /\ h \in Frames
    BY <1>4, <1>7, VmFacts, LayoutFacts
  <2>2. /\ s2.ref = [t.ref EXCEPT ![h] = 1]
        /\ s2.mem = [t.mem EXCEPT ![d][i] = MkPTE(h, RWU)]
        /\ KeepList(t, s2) /\ KeepMmu(t, s2) /\ s2.panic = t.panic
    BY <1>3, <1>4, <1>7, FirstRef DEF Machine, KeepList, KeepMmu
  <2>3. s2 \in Machine
    <3>1. PICK t1 : t1 = [t EXCEPT !.ref[h] = (@ + 1) % REFMOD]
      OBVIOUS
    <3>2. t1 \in Machine /\ s2 = [t1 EXCEPT !.mem[d][i] = MkPTE(h, RWU)]
      BY <1>3, <1>4, <2>1, <3>1, SetRefType
    <3> QED BY <2>1, <3>2, SetEntryType, EntryTypes
  <2>4. t.panic = FALSE
    BY <1>4, <1>7, VmFacts
  <2>5. ~t.mem[d][i].p
    BY <1>4, <1>7 DEF SameDirs
  <2>6. NewTable(s, t, D, H, d, i, h, s2)
    BY <1>4, <1>7, <2>2, <2>4, <2>5 DEF NewTable, HookedTable
  <2> QED BY <1>4, <1>5, <1>7, <2>3, <2>6
<1> QED
  BY <1>6, <1>7

(* pgdir_walk in the user part: a page table is there when it does not     *)
(* return NULL, and no translation changes.                                *)
LEMMA pgdir_walkVm ==
  ASSUME NEW s, NEW D, NEW H, Vm(s, D, H), NEW d \in D, d # KERN_PGDIR,
         NEW i \in UserPdx, NEW pt, NEW w, WalkCreate(s, d, i, pt, w)
  PROVE  /\ Vm(w, D, H) /\ UserSame(s, w, D) /\ w.cr3 = s.cr3 /\ SamePdes(s, w, D, d, i)
         /\ pt # NULL => w.mem[d][i].p /\ pt = w.mem[d][i].pa
<1>0. i \in Ents
  BY LayoutFacts
<1>1. CASE s.mem[d][i].p
  <2>1. w = s /\ pt = s.mem[d][i].pa
    BY <1>1 DEF pgdir_walk, WalkCreate
  <2> QED BY <1>1, <2>1 DEF UserSame, SamePdes
<1>2. CASE pt = NULL /\ w = s
  BY <1>2 DEF UserSame, SamePdes
<1>3. ASSUME NEW t, NewTable(s, t, D, H, d, i, pt, w),
             pt \in Managed, pt \notin H, w \in Machine
      PROVE  /\ Vm(w, D, H) /\ UserSame(s, w, D) /\ w.cr3 = s.cr3 /\ SamePdes(s, w, D, d, i)
             /\ w.mem[d][i].p /\ pt = w.mem[d][i].pa
  <2>1. PICK h, s2, H1 : h = pt /\ s2 = w /\ H1 = H \cup {h}
    OBVIOUS
  <2>2. /\ Vm(t, D, H1) /\ h \in H1 /\ t.mem[h] = ZeroPage /\ ~t.mem[d][i].p
        /\ HookedTable(t, s2, h, d, i) /\ s2 \in Machine
    BY <1>3, <2>1 DEF NewTable
  <2>3. PICK role \in [Managed -> Roles] : VmInv(t, D, H1, role)
    BY <2>2 DEF Vm
  <2>4. /\ VmInv(s2, D, H1 \ {h}, Recast(role, h, "utab")) /\ UserSame(t, s2, D)
        /\ s2.mem[d][i].p /\ s2.mem[d][i].pa = h
    BY <2>2, <2>3, HookUserTable
  <2>5. H1 \ {h} = H
    BY <1>3, <2>1
  <2>6. Recast(role, h, "utab") \in [Managed -> Roles]
    BY <1>3, <2>1, RecastFacts DEF Roles
  <2>7. Vm(s2, D, H)
    BY <2>4, <2>5, <2>6 DEF Vm
  <2>8. UserSame(s, s2, D)
    BY <1>3, <2>4 DEF NewTable, UserSame
  <2>9. s2.cr3 = s.cr3
    BY <1>3, <2>2 DEF NewTable, HookedTable, KeepMmu
  <2>10. SamePdes(s, s2, D, d, i)
    <3>1. PteSet(t, s2, d, i, MkPTE(h, RWU)) /\ SameDirs(s, t, D)
      BY <1>3, <2>2 DEF NewTable, HookedTable, PteSet
    <3>2. t \in Machine /\ D \subseteq Frames
      BY <2>2, VmFacts
    <3>3. SameBut(t, s2, d, i)
      BY <1>0, <3>1, <3>2, EntryWritten
    <3> QED BY <3>1, <3>2, <3>3 DEF SamePdes, SameDirs, SameBut
  <2> QED BY <2>1, <2>4, <2>7, <2>8, <2>9, <2>10
<1> QED
  BY <1>0, <1>1, <1>2, <1>3, pgdir_walkNew

(* pgdir_walk in the kernel part, while mem_init runs.                     *)
LEMMA pgdir_walkKern ==
  ASSUME NEW s, NEW D, NEW H, Vm(s, D, H), s.cr3 = NULL,
         NEW i \in KernIdx, NEW pt, NEW w, WalkCreate(s, KERN_PGDIR, i, pt, w)
  PROVE  /\ Vm(w, D, H) /\ UserSame(s, w, D) /\ w.cr3 = s.cr3
         /\ pt # NULL => w.mem[KERN_PGDIR][i].p /\ pt = w.mem[KERN_PGDIR][i].pa
<1> DEFINE d == KERN_PGDIR
<1>0. i \in Ents /\ d \in D
  BY LayoutFacts, VmFacts
<1>1. CASE s.mem[d][i].p
  <2>1. w = s /\ pt = s.mem[d][i].pa
    BY <1>1 DEF pgdir_walk, WalkCreate
  <2> QED BY <1>1, <2>1 DEF UserSame
<1>2. CASE pt = NULL /\ w = s
  BY <1>2 DEF UserSame
<1>3. ASSUME NEW t, NewTable(s, t, D, H, d, i, pt, w),
             pt \in Managed, pt \notin H, w \in Machine
      PROVE  /\ Vm(w, D, H) /\ UserSame(s, w, D) /\ w.cr3 = s.cr3
             /\ w.mem[d][i].p /\ pt = w.mem[d][i].pa
  <2>1. PICK h, s2, H1 : h = pt /\ s2 = w /\ H1 = H \cup {h}
    OBVIOUS
  <2>2. /\ Vm(t, D, H1) /\ h \in H1 /\ t.mem[h] = ZeroPage /\ ~t.mem[d][i].p
        /\ HookedTable(t, s2, h, d, i) /\ s2 \in Machine /\ t.cr3 = NULL
    BY <1>3, <2>1 DEF NewTable, KeepMmu
  <2>3. PICK role \in [Managed -> Roles] : VmInv(t, D, H1, role)
    BY <2>2 DEF Vm
  <2>4. /\ VmInv(s2, D, H1 \ {h}, Recast(role, h, "ktab")) /\ UserSame(t, s2, D)
        /\ s2.mem[d][i].p /\ s2.mem[d][i].pa = h
    <3>1. UserSame(t, s2, D)
      BY <2>2, <2>3, HookKernTable
    <3>2. s2.mem[d][i].p /\ s2.mem[d][i].pa = h
      <4>1. PteSet(t, s2, d, i, MkPTE(h, RWU))
        BY <2>2 DEF HookedTable, PteSet
      <4>2. t \in Machine /\ d \in Frames
        BY <2>2, VmFacts
      <4>3. s2.mem[d][i] = MkPTE(h, RWU)
        BY <1>0, <4>1, <4>2, EntryWritten
      <4> QED BY <4>3 DEF MkPTE
    <3>3. VmInv(s2, D, H1 \ {h}, Recast(role, h, "ktab"))
      BY <2>2, <2>3, HookKernTable
    <3> QED BY <3>1, <3>2, <3>3
  <2>5. H1 \ {h} = H
    BY <1>3, <2>1
  <2>6. Recast(role, h, "ktab") \in [Managed -> Roles]
    BY <1>3, <2>1, RecastFacts DEF Roles
  <2>7. Vm(s2, D, H)
    BY <2>4, <2>5, <2>6 DEF Vm
  <2>8. UserSame(s, s2, D)
    BY <1>3, <2>4 DEF NewTable, UserSame
  <2>9. s2.cr3 = s.cr3
    BY <1>3, <2>2 DEF NewTable, HookedTable, KeepMmu
  <2> QED BY <2>1, <2>4, <2>7, <2>8, <2>9
<1> QED
  BY <1>0, <1>1, <1>2, <1>3, pgdir_walkNew

-----------------------------------------------------------------------------
(* A count in 16 bits is what the remainder leaves alone.                  *)
LEMMA SmallMod ==
  ASSUME NEW n \in 0 .. REFMOD - 1
  PROVE  n % REFMOD = n
BY PhysAssumption

(* page_decref of a page that is on no list: one reference less, and the   *)
(* page becomes the head of the list if that was the last one.             *)
FreedLast(s, s1, pp) ==
  /\ s.ref[pp] = 1 => s1.head = pp /\ s1.link = [s.link EXCEPT ![pp] = s.head]
  /\ s.ref[pp] # 1 => KeepList(s, s1)
Decremented(s, s1, pp) ==
  /\ s1.ref = [s.ref EXCEPT ![pp] = s.ref[pp] - 1] /\ s1.mem = s.mem
  /\ KeepMmu(s, s1) /\ s1.panic = s.panic
  /\ FreedLast(s, s1, pp)

(* page_decref counts down, and the last reference frees the page.         *)
LEMMA page_decrefFields ==
  ASSUME NEW s \in Machine, NEW pp \in Frames, s.ref[pp] # 0, s.link[pp] = NULL
  PROVE  page_decref(s, pp) \in Machine /\ Decremented(s, page_decref(s, pp), pp)
<1> USE DEF Decremented, FreedLast
<1>0. PICK s1 : s1 = page_decref(s, pp)
  OBVIOUS
<1> SUFFICES s1 \in Machine /\ Decremented(s, s1, pp)
  BY <1>0
<1>1. s1 \in Machine
  BY <1>0, page_decrefType
<1>2. s.ref[pp] \in 1 .. REFMOD - 1 /\ (s.ref[pp] - 1) % REFMOD = s.ref[pp] - 1
  <2>1. PICK n : n = s.ref[pp]
    OBVIOUS
  <2>2. n \in 0 .. REFMOD - 1 /\ n # 0
    BY <2>1, MachineFields
  <2>3. n \in 1 .. REFMOD - 1
    BY <2>2, PhysAssumption
  <2>4. n - 1 \in 0 .. REFMOD - 1
    BY <2>3, PhysAssumption
  <2>5. (n - 1) % REFMOD = n - 1
    BY <2>4, SmallMod
  <2> QED BY <2>1, <2>3, <2>5
<1>3. PICK s0 : s0 = [s EXCEPT !.ref[pp] = s.ref[pp] - 1]
  OBVIOUS
<1>4. s1 = IF s.ref[pp] - 1 = 0 THEN page_free(s0, pp) ELSE s0
  BY <1>0, <1>2, <1>3 DEF page_decref
<1>5. /\ s0.ref = [s.ref EXCEPT ![pp] = s.ref[pp] - 1] /\ s0.mem = s.mem
      /\ s0.head = s.head /\ s0.link = s.link /\ s0.cr3 = s.cr3 /\ s0.tlb = s.tlb
      /\ s0.panic = s.panic
  BY <1>3 DEF Machine
<1>6. CASE s.ref[pp] # 1
  <2>1. s1 = s0
    BY <1>2, <1>4, <1>6
  <2> QED BY <1>1, <1>5, <1>6, <2>1 DEF KeepMmu, KeepList
<1>7. CASE s.ref[pp] = 1
  <2>0. s0 \in Machine
    <3>1. s.ref[pp] - 1 \in 0 .. REFMOD - 1
      BY <1>2, PhysAssumption
    <3> QED BY <1>3, <3>1 DEF Machine
  <2>1. s0.ref[pp] = 0 /\ s0.link[pp] = NULL
    BY <1>2, <1>5, <1>7, MachineFields
  <2>2. s1 = [s0 EXCEPT !.link[pp] = s0.head, !.head = pp]
    BY <1>4, <1>7, <2>1 DEF page_free
  <2>3. /\ s1.ref = s0.ref /\ s1.mem = s0.mem /\ s1.cr3 = s0.cr3 /\ s1.tlb = s0.tlb
        /\ s1.panic = s0.panic /\ s1.head = pp /\ s1.link = [s0.link EXCEPT ![pp] = s0.head]
    BY <2>0, <2>2 DEF Machine
  <2> QED BY <1>1, <1>5, <1>7, <2>3 DEF KeepMmu
<1> QED
  BY <1>6, <1>7

(* What page_remove leaves behind, where the entry is present.             *)
LEMMA page_removeFields ==
  ASSUME NEW s \in Machine, s.panic = FALSE, NEW d \in Frames, NEW i \in Ents, NEW j \in Ents,
         s.mem[d][i].p, NEW pp, pp = Walk(s, d, i, j).pa,
         s.ref[pp] # 0, s.link[pp] = NULL, NEW s2, s2 = page_remove(s, d, i, j)
  PROVE  /\ s2 \in Machine /\ Unmapped(s, s2, s.mem[d][i].pa, i, j, pp)
         /\ FreedLast(s, s2, pp)
<1>1. s2 \in Machine
  BY page_removeType
<1>2. PICK pt : pt = s.mem[d][i].pa
  OBVIOUS
<1>3. pt \in Frames /\ pt # NULL /\ pp = s.mem[pt][j].pa /\ pp \in Frames /\ pp # NULL
  BY <1>2, EntryFields, LayoutFacts DEF Walk
<1>4. page_lookup(s, d, i, j) = pp
  BY <1>2, <1>3 DEF page_lookup, pgdir_walk
<1>5. PICK s1 : s1 = page_decref(s, pp)
  OBVIOUS
<1>6. /\ s1 \in Machine
      /\ s1.ref = [s.ref EXCEPT ![pp] = s.ref[pp] - 1] /\ s1.mem = s.mem
      /\ KeepMmu(s, s1) /\ s1.panic = s.panic
      /\ FreedLast(s, s1, pp)
  <2>1. s1 \in Machine /\ Decremented(s, s1, pp)
    BY <1>3, <1>5, page_decrefFields
  <2> QED BY <2>1 DEF Decremented
<1>7. PICK t : t = [s1 EXCEPT !.mem[pt][j] = ZeroPTE]
  OBVIOUS
<1>8. s2 = [t EXCEPT !.tlb[i][j] = ZeroPTE]
  BY <1>2, <1>3, <1>4, <1>5, <1>6, <1>7 DEF page_remove, tlb_invalidate
<1>9. /\ t.mem = [s.mem EXCEPT ![pt][j] = ZeroPTE] /\ t.ref = s1.ref /\ t.head = s1.head
      /\ t.link = s1.link /\ t.cr3 = s1.cr3 /\ t.tlb = s1.tlb /\ t.panic = s1.panic
  BY <1>6, <1>7 DEF Machine
<1>10. t \in Machine
  BY <1>3, <1>6, <1>7, SetEntryType, EntryTypes
<1>11. /\ s2.mem = t.mem /\ s2.ref = t.ref /\ s2.head = t.head
       /\ s2.link = t.link /\ s2.cr3 = t.cr3 /\ s2.panic = t.panic
       /\ s2.tlb = [t.tlb EXCEPT ![i][j] = ZeroPTE]
  BY <1>8, <1>10 DEF Machine
<1>12. Unmapped(s, s2, s.mem[d][i].pa, i, j, pp)
  BY <1>2, <1>6, <1>9, <1>11 DEF Unmapped, KeepMmu
<1> QED
  BY <1>1, <1>6, <1>9, <1>11, <1>12 DEF KeepList, FreedLast

(* page_remove changes the one translation, and the page is free when that *)
(* was the last.                                                           *)
LEMMA page_removeVm ==
  ASSUME NEW s, NEW D, NEW H, Vm(s, D, H), NEW d \in D, NEW i \in UserPdx, NEW j \in Ents,
         Walk(s, d, i, j).p, NEW s2, s2 = page_remove(s, d, i, j)
  PROVE  /\ Vm(s2, D, H) /\ OnlyAt(s, s2, D, d, i, j) /\ Walk(s2, d, i, j) = ZeroPTE
         /\ SameDirs(s, s2, D) /\ s2.cr3 = s.cr3
<1>1. PICK role \in [Managed -> Roles] : VmInv(s, D, H, role)
  BY DEF Vm
<1>2. /\ s \in Machine /\ s.panic = FALSE /\ FreePart(s, role) /\ HeldPart(H, role)
      /\ DirPart(s, D, role) /\ UserTabPart(s, D, role) /\ PagePart(s, D, role)
      /\ CountPart(s, D, role)
  BY <1>1 DEF VmInv
<1>3. s.mem[d][i].p /\ i \in Ents /\ d \in Frames
  BY <1>2, LayoutFacts DEF Walk, ZeroPTE, DirPart
<1>4. PICK pp : pp = Walk(s, d, i, j).pa
  OBVIOUS
<1>5. pp \in Managed /\ role[pp] = "page" /\ pp \in Frames /\ pp \notin H
  BY <1>2, <1>4, LayoutFacts DEF PagePart, HeldPart
<1>6. s.ref[pp] # 0
  <2>1. PteRefs(s, D, pp) # {} /\ s.ref[pp] = Cardinality(PteRefs(s, D, pp))
    BY <1>2, <1>5 DEF CountPart
  <2>2. IsFiniteSet(PteRefs(s, D, pp))
    BY VmFacts, PteRefsFinite
  <2> QED BY <2>1, <2>2, FS_EmptySet
<1>7. s.link[pp] = NULL
  BY <1>2, <1>5 DEF FreePart, FreeList, ListShape
<1>8. /\ s2 \in Machine /\ Unmapped(s, s2, s.mem[d][i].pa, i, j, pp)
      /\ s.ref[pp] = 1 => s2.head = pp /\ s2.link = [s.link EXCEPT ![pp] = s.head]
      /\ s.ref[pp] # 1 => KeepList(s, s2)
  <2>1. s2 \in Machine /\ Unmapped(s, s2, s.mem[d][i].pa, i, j, pp) /\ FreedLast(s, s2, pp)
    BY <1>2, <1>3, <1>4, <1>6, <1>7, page_removeFields
  <2> QED BY <2>1 DEF FreedLast
<1>9. SameDirs(s, s2, D) /\ s2.cr3 = s.cr3
  <2>1. PICK pt : pt = s.mem[d][i].pa
    OBVIOUS
  <2>2. PteSet(s, s2, pt, j, ZeroPTE) /\ s2.cr3 = s.cr3
    BY <1>8, <2>1 DEF Unmapped, PteSet
  <2> QED BY <1>3, <2>1, <2>2, WritePte
<1>10. CASE s.ref[pp] # 1
  <2>1. Dropped(s, H, role, pp, H, role)
    BY <1>10 DEF Dropped
  <2>2. VmInv(s2, D, H, role) /\ OnlyAt(s, s2, D, d, i, j) /\ Walk(s2, d, i, j) = ZeroPTE
    BY <1>1, <1>3, <1>4, <1>8, <1>10, <2>1, UnmapStep
  <2> QED BY <1>9, <2>2 DEF Vm
<1>11. CASE s.ref[pp] = 1
  <2>1. PICK t : t = [s2 EXCEPT !.head = s.head, !.link = s.link]
    OBVIOUS
  <2>2. /\ t.head = s.head /\ t.link = s.link /\ t.mem = s2.mem /\ t.ref = s2.ref
        /\ t.cr3 = s2.cr3 /\ t.tlb = s2.tlb /\ t.panic = s2.panic /\ t \in Machine
    BY <1>2, <1>8, <2>1 DEF Machine
  <2>3. Unmapped(s, t, s.mem[d][i].pa, i, j, pp) /\ KeepList(s, t)
    BY <1>8, <2>2 DEF Unmapped, KeepList
  <2>4. PICK H1, role1 : H1 = H \cup {pp} /\ role1 = Recast(role, pp, "held")
    OBVIOUS
  <2>5. Dropped(s, H, role, pp, H1, role1)
    BY <1>11, <2>4 DEF Dropped
  <2>6. VmInv(t, D, H1, role1) /\ OnlyAt(s, t, D, d, i, j) /\ Walk(t, d, i, j) = ZeroPTE
    BY <1>1, <1>3, <1>4, <2>2, <2>3, <2>5, UnmapStep
  <2>7. /\ s2.head = pp /\ s2.link = [t.link EXCEPT ![pp] = t.head] /\ s2.ref = t.ref
        /\ s2.mem = t.mem /\ KeepMmu(t, s2) /\ s2.panic = FALSE /\ pp \in H1
    BY <1>8, <1>11, <2>2, <2>4 DEF KeepMmu, Unmapped
  <2>8. VmInv(s2, D, H1 \ {pp}, Recast(role1, pp, "free"))
    BY <1>8, <2>6, <2>7, PushStep
  <2>9. H1 \ {pp} = H /\ Recast(role1, pp, "free") \in [Managed -> Roles]
    BY <1>5, <2>4, <2>6, RecastFacts DEF Roles, VmInv
  <2>10. Vm(s2, D, H)
    BY <2>8, <2>9 DEF Vm
  <2>11. OnlyAt(s, s2, D, d, i, j) /\ Walk(s2, d, i, j) = ZeroPTE
    BY <2>6, <2>7, SMTT(30) DEF OnlyAt, Walk
  <2> QED BY <1>9, <2>10, <2>11
<1> QED
  BY <1>10, <1>11

-----------------------------------------------------------------------------
(* A page that a client may map: one it holds, or one that is mapped.      *)
Usable(s, D, H, pp) == pp \in Managed /\ (pp \in H \/ PteRefs(s, D, pp) # {})

(* It stays one, with the count it has, while no entry that leads to it    *)
(* changes.                                                                *)
LEMMA UsableKept ==
  ASSUME NEW s, NEW s2, NEW D, NEW H, Vm(s, D, H), Vm(s2, D, H), NEW pp,
         Usable(s, D, H, pp), PteRefs(s2, D, pp) = PteRefs(s, D, pp)
  PROVE  Usable(s2, D, H, pp) /\ s2.ref[pp] = s.ref[pp]
<1>1. Usable(s2, D, H, pp)
  BY DEF Usable
<1>2. CASE pp \in H
  <2>1. s.ref[pp] = 0
    BY <1>2, VmFacts
  <2>2. s2.ref[pp] = 0
    BY <1>2, VmFacts
  <2> QED BY <1>1, <2>1, <2>2
<1>3. CASE pp \notin H
  <2>1. pp \in Managed /\ PteRefs(s, D, pp) # {}
    BY <1>3 DEF Usable
  <2>2. s.ref[pp] = Cardinality(PteRefs(s, D, pp))
    BY <2>1, VmFacts
  <2>3. s2.ref[pp] = Cardinality(PteRefs(s2, D, pp))
    BY <2>1, VmFacts
  <2> QED BY <1>1, <2>2, <2>3
<1> QED BY <1>2, <1>3

(* map_counted where nothing is mapped.                                    *)
LEMMA map_countedVm ==
  ASSUME NEW s, NEW D, NEW H, Vm(s, D, H), NEW d \in D, NEW i \in UserPdx, NEW j \in Ents,
         s.mem[d][i].p, ~Walk(s, d, i, j).p, NEW pp, Usable(s, D, H, pp), s.ref[pp] + 1 < REFMOD,
         NEW perm \in Perms, NEW pt, pt = s.mem[d][i].pa,
         NEW s2, s2 = map_counted(s, pt, j, pp, perm)
  PROVE  /\ Vm(s2, D, H \ {pp}) /\ OnlyAt(s, s2, D, d, i, j)
         /\ NewEntry(s, s2, D, d, i, j, pp, perm)
<1>1. PICK role \in [Managed -> Roles] : VmInv(s, D, H, role)
  BY DEF Vm
<1>2. s \in Machine /\ s.panic = FALSE /\ d \in Frames /\ i \in Ents
  BY VmFacts, LayoutFacts
<1>3. pt \in Frames /\ pp \in Managed /\ pp \in Frames
  BY <1>2, EntryFields, LayoutFacts DEF Usable
<1>4. s2 \in Machine
  BY <1>2, <1>3, map_countedType
<1>5. (s.ref[pp] + 1) % REFMOD = s.ref[pp] + 1
  <2>1. PICK n : n = s.ref[pp]
    OBVIOUS
  <2>2. n \in 0 .. REFMOD - 1 /\ n + 1 < REFMOD
    BY <1>2, <1>3, <2>1, MachineFields
  <2>3. n + 1 \in 0 .. REFMOD - 1
    BY <2>2, PhysAssumption
  <2>4. (n + 1) % REFMOD = n + 1
    BY <2>3, SmallMod
  <2> QED BY <2>1, <2>4
<1>6. s2 = [s EXCEPT !.mem[pt][j] = MkPTE(pp, perm), !.ref[pp] = (s.ref[pp] + 1) % REFMOD]
  BY <1>2 DEF map_counted, Machine
<1>7. EntryMapped(s, s2, pt, j, pp, perm)
  BY <1>2, <1>5, <1>6 DEF EntryMapped, KeepList, KeepMmu, Machine
<1>8. role[pp] \in {"held", "page"}
  <2>1. CASE pp \in H
    BY <1>1, <1>3, <2>1 DEF VmInv, HeldPart
  <2>2. CASE pp \notin H
    <3>1. PteRefs(s, D, pp) # {}
      BY <2>2 DEF Usable
    <3> QED BY <1>1, <1>3, <3>1, PteRefsByRole
  <2> QED BY <2>1, <2>2
<1>9. VmInv(s2, D, H \ {pp}, Recast(role, pp, "page")) /\ OnlyAt(s, s2, D, d, i, j)
  BY <1>1, <1>3, <1>4, <1>7, <1>8, MapStep
<1>10. Recast(role, pp, "page") \in [Managed -> Roles]
  BY <1>3, RecastFacts DEF Roles
<1>11. NewEntry(s, s2, D, d, i, j, pp, perm)
  <2>1. PteSet(s, s2, pt, j, MkPTE(pp, perm)) /\ s2.cr3 = s.cr3
    BY <1>7 DEF EntryMapped, KeepMmu, PteSet
  <2> QED BY <2>1, NewPte
<1> QED
  BY <1>9, <1>10, <1>11 DEF Vm

(* page_insert of the page that the entry leads to already.                *)
LEMMA RemapVm ==
  ASSUME NEW s, NEW D, NEW H, Vm(s, D, H), NEW d \in D, NEW i \in UserPdx, NEW j \in Ents,
         s.mem[d][i].p, Walk(s, d, i, j).p, NEW pp, pp = Walk(s, d, i, j).pa,
         NEW perm \in Perms, NEW pt, pt = s.mem[d][i].pa,
         NEW s2, s2 = [s EXCEPT !.mem[pt][j] = MkPTE(pp, perm)]
  PROVE  /\ Vm(s2, D, H \ {pp}) /\ OnlyAt(s, s2, D, d, i, j)
         /\ NewEntry(s, s2, D, d, i, j, pp, perm)
<1>1. PICK role \in [Managed -> Roles] : VmInv(s, D, H, role)
  BY DEF Vm
<1>2. s \in Machine /\ s.panic = FALSE /\ d \in Frames /\ i \in Ents
  BY VmFacts, LayoutFacts
<1>3. pp \in Managed /\ role[pp] = "page" /\ pp \notin H /\ pp \in Frames /\ pt \in Frames
  BY <1>1, <1>2, EntryFields, LayoutFacts DEF VmInv, PagePart, HeldPart
<1>4. s2 \in Machine
  BY <1>2, <1>3, SetEntryType, EntryTypes
<1>5. EntrySet(s, s2, s.mem[d][i].pa, j, Walk(s, d, i, j).pa, perm)
  BY <1>2 DEF EntrySet, KeepList, KeepMmu, Machine
<1>6. VmInv(s2, D, H, role) /\ OnlyAt(s, s2, D, d, i, j)
  BY <1>1, <1>4, <1>5, RemapStep
<1>7. H \ {pp} = H
  BY <1>3
<1>8. NewEntry(s, s2, D, d, i, j, pp, perm)
  <2>1. PteSet(s, s2, pt, j, MkPTE(pp, perm)) /\ s2.cr3 = s.cr3
    BY <1>5 DEF EntrySet, KeepMmu, PteSet
  <2> QED BY <2>1, NewPte
<1> QED
  BY <1>6, <1>7, <1>8 DEF Vm

(* Two changes of the same translation are one.                            *)
LEMMA OnlyAtTwice ==
  ASSUME NEW s, NEW s1, NEW s2, NEW D, NEW d, NEW i, NEW j
  PROVE  /\ UserSame(s, s1, D) => OnlyAt(s, s1, D, d, i, j)
         /\ OnlyAt(s, s1, D, d, i, j) /\ OnlyAt(s1, s2, D, d, i, j) =>
              OnlyAt(s, s2, D, d, i, j)
BY DEF UserSame, OnlyAt

(* What page_insert returns.                                               *)
Inserted(s, d, pp, i, j, perm, s2, ok) ==
  /\ s2 = page_insert(s, d, pp, i, j, perm).m
  /\ ok = page_insert(s, d, pp, i, j, perm).ok

InsertDone(s, s2, D, H, d, i, j, pp, perm, ok) ==
  /\ OnlyAt(s, s2, D, d, i, j) /\ SamePdes(s, s2, D, d, i) /\ s2.cr3 = s.cr3
  /\ ok => Vm(s2, D, H \ {pp}) /\ MapsTo(s2, d, i, j, pp, perm)
  /\ ~ok => Vm(s2, D, H) /\ UserSame(s, s2, D)

(* page_insert changes the one translation; the page is not held any more  *)
(* when it succeeds.                                                       *)
LEMMA page_insertVm ==
  ASSUME NEW s, NEW D, NEW H, Vm(s, D, H), NEW d \in D, d # KERN_PGDIR,
         NEW i \in UserPdx, NEW j \in Ents, NEW pp, Usable(s, D, H, pp), s.ref[pp] + 1 < REFMOD,
         NEW perm \in Perms, NEW s2, NEW ok, Inserted(s, d, pp, i, j, perm, s2, ok)
  PROVE  InsertDone(s, s2, D, H, d, i, j, pp, perm, ok)
<1>1. PICK pt, w : WalkCreate(s, d, i, pt, w)
  BY DEF WalkCreate
<1>2. /\ Vm(w, D, H) /\ UserSame(s, w, D) /\ SamePdes(s, w, D, d, i) /\ w.cr3 = s.cr3
      /\ pt # NULL => w.mem[d][i].p /\ pt = w.mem[d][i].pa
  BY <1>1, pgdir_walkVm
<1>3. PteRefs(w, D, pp) = PteRefs(s, D, pp)
  BY <1>2, PteRefsSame DEF UserSame
<1>4. Usable(w, D, H, pp) /\ w.ref[pp] + 1 < REFMOD
  <2>1. Usable(w, D, H, pp) /\ w.ref[pp] = s.ref[pp]
    BY <1>2, <1>3, UsableKept
  <2> QED BY <2>1
<1>5. PICK s1 : s1 = page_remove(w, d, i, j)
  OBVIOUS
<1>6. OnlyAt(s, w, D, d, i, j)
  BY <1>2, OnlyAtTwice
<1>7. CASE pt = NULL
  <2>1. s2 = w /\ ok = FALSE
    BY <1>1, <1>7 DEF Inserted, WalkCreate, page_insert
  <2> QED BY <1>2, <1>6, <2>1 DEF InsertDone
<1>8. CASE pt # NULL /\ ~w.mem[pt][j].p
  <2>1. s2 = map_counted(w, pt, j, pp, perm) /\ ok = TRUE
    BY <1>1, <1>8 DEF Inserted, WalkCreate, page_insert
  <2>2. ~Walk(w, d, i, j).p
    BY <1>2, <1>8 DEF Walk
  <2>3. /\ Vm(s2, D, H \ {pp}) /\ OnlyAt(w, s2, D, d, i, j)
        /\ NewEntry(w, s2, D, d, i, j, pp, perm)
    BY <1>2, <1>4, <1>8, <2>1, <2>2, map_countedVm
  <2>4. OnlyAt(s, s2, D, d, i, j)
    BY <1>6, <2>3, OnlyAtTwice
  <2>5. SamePdes(s, s2, D, d, i)
    BY <1>2, <2>3 DEF SamePdes, SameDirs, NewEntry
  <2> QED BY <1>2, <2>1, <2>3, <2>4, <2>5 DEF NewEntry, InsertDone
<1>9. CASE pt # NULL /\ w.mem[pt][j].p /\ w.mem[pt][j].pa = pp
  <2>1. s2 = [w EXCEPT !.mem[pt][j] = MkPTE(pp, perm)] /\ ok = TRUE
    BY <1>1, <1>9 DEF Inserted, WalkCreate, page_insert
  <2>2. Walk(w, d, i, j).p /\ pp = Walk(w, d, i, j).pa
    BY <1>2, <1>9 DEF Walk
  <2>3. /\ Vm(s2, D, H \ {pp}) /\ OnlyAt(w, s2, D, d, i, j)
        /\ NewEntry(w, s2, D, d, i, j, pp, perm)
    BY <1>2, <1>9, <2>1, <2>2, RemapVm, SMTT(30)
  <2>4. OnlyAt(s, s2, D, d, i, j)
    BY <1>6, <2>3, OnlyAtTwice
  <2>5. SamePdes(s, s2, D, d, i)
    BY <1>2, <2>3 DEF SamePdes, SameDirs, NewEntry
  <2> QED BY <1>2, <2>1, <2>3, <2>4, <2>5 DEF NewEntry, InsertDone
<1>10. CASE pt # NULL /\ w.mem[pt][j].p /\ w.mem[pt][j].pa # pp
  <2>1. Walk(w, d, i, j).p /\ pp # Walk(w, d, i, j).pa
    BY <1>2, <1>10 DEF Walk
  <2>2. /\ Vm(s1, D, H) /\ OnlyAt(w, s1, D, d, i, j) /\ Walk(s1, d, i, j) = ZeroPTE
        /\ s1.mem[d][i] = w.mem[d][i] /\ SameDirs(w, s1, D) /\ s1.cr3 = w.cr3
    BY <1>2, <1>5, <2>1, page_removeVm DEF SameDirs
  <2>3. s1.panic = FALSE
    BY <2>2, VmFacts
  <2>4. s2 = map_counted(s1, pt, j, pp, perm) /\ ok = TRUE
    BY <1>1, <1>5, <1>10, <2>3 DEF Inserted, WalkCreate, page_insert
  <2>5. PteRefs(s1, D, pp) = PteRefs(w, D, pp)
    <3>1. \A e \in D, k \in UserPdx, l \in Ents :
            (Walk(s1, e, k, l).p /\ Walk(s1, e, k, l).pa = pp)
              <=> (Walk(w, e, k, l).p /\ Walk(w, e, k, l).pa = pp)
      BY <2>1, <2>2 DEF OnlyAt, ZeroPTE
    <3> QED BY <3>1 DEF PteRefs
  <2>6. Usable(s1, D, H, pp) /\ s1.ref[pp] + 1 < REFMOD
    <3>1. Usable(s1, D, H, pp) /\ s1.ref[pp] = w.ref[pp]
      BY <1>2, <1>4, <2>2, <2>5, UsableKept
    <3> QED BY <1>4, <3>1
  <2>7. ~Walk(s1, d, i, j).p /\ s1.mem[d][i].p /\ pt = s1.mem[d][i].pa
    BY <1>2, <1>10, <2>2 DEF ZeroPTE
  <2>8. /\ Vm(s2, D, H \ {pp}) /\ OnlyAt(s1, s2, D, d, i, j)
        /\ NewEntry(s1, s2, D, d, i, j, pp, perm)
    BY <2>2, <2>4, <2>6, <2>7, map_countedVm
  <2>9. OnlyAt(s, s2, D, d, i, j)
    BY <1>6, <2>2, <2>8, OnlyAtTwice
  <2>10. SamePdes(s, s2, D, d, i)
    BY <1>2, <2>2, <2>8 DEF SamePdes, SameDirs, NewEntry
  <2> QED BY <1>2, <2>2, <2>4, <2>8, <2>9, <2>10 DEF NewEntry, InsertDone
<1> QED
  BY <1>7, <1>8, <1>9, <1>10

(* boot_map_page in the kernel part, while mem_init runs.                  *)
LEMMA boot_map_pageVm ==
  ASSUME NEW s, NEW D, NEW H, Vm(s, D, H), s.cr3 = NULL,
         NEW i \in KernIdx, NEW j \in Ents, NEW pa \in Frames, NEW perm \in Perms,
         "U" \in perm => "W" \notin perm /\ pa \notin Managed,
         NEW s2, s2 = boot_map_page(s, KERN_PGDIR, i, j, pa, perm)
  PROVE  Vm(s2, D, H) /\ UserSame(s, s2, D)
<1>0. i \in Ents
  BY LayoutFacts
<1>1. PICK pt, w : WalkCreate(s, KERN_PGDIR, i, pt, w)
  BY DEF WalkCreate
<1>2. /\ Vm(w, D, H) /\ UserSame(s, w, D) /\ w.cr3 = NULL
      /\ pt # NULL => w.mem[KERN_PGDIR][i].p /\ pt = w.mem[KERN_PGDIR][i].pa
  BY <1>1, pgdir_walkKern
<1>3. CASE pt = NULL
  <2>1. s2 = w
    BY <1>1, <1>3 DEF boot_map_page, WalkCreate
  <2> QED BY <1>2, <2>1
<1>4. CASE pt # NULL
  <2>1. s2 = [w EXCEPT !.mem[pt][j] = MkPTE(pa, perm)]
    BY <1>1, <1>4 DEF boot_map_page, WalkCreate
  <2>2. w \in Machine /\ w.panic = FALSE /\ KERN_PGDIR \in Frames
    BY <1>2, VmFacts, LayoutFacts
  <2>3. pt \in Frames
    BY <1>0, <1>2, <1>4, <2>2, EntryFields
  <2>4. s2 \in Machine
    <3>1. MkPTE(pa, perm) \in PTE
      BY EntryTypes
    <3> QED BY <2>1, <2>2, <2>3, <3>1, SetEntryType
  <2>5. EntrySet(w, s2, w.mem[KERN_PGDIR][i].pa, j, pa, perm)
    BY <1>2, <1>4, <2>1, <2>2 DEF EntrySet, KeepList, KeepMmu, Machine
  <2>6. PICK role \in [Managed -> Roles] : VmInv(w, D, H, role)
    BY <1>2 DEF Vm
  <2>7. VmInv(s2, D, H, role) /\ UserSame(w, s2, D)
    BY <1>2, <1>4, <2>4, <2>5, <2>6, BootStep
  <2>8. UserSame(s, s2, D)
    BY <1>2, <2>7 DEF UserSame
  <2> QED BY <2>7, <2>8 DEF Vm
<1> QED
  BY <1>3, <1>4

(* What env_setup_vm returns.                                              *)
SetUp(s, h, s2) == h = env_setup_vm(s).pp /\ s2 = env_setup_vm(s).m

NoUserPart(s, d) == \A i \in UserPdx : ~s.mem[d][i].p

(* env_setup_vm: the new directory translates what the kernel's does, and  *)
(* no other directory changes.                                             *)
SetUpDone(s, s2, D, H, h) ==
  /\ h = NULL => s2 = s
  /\ h # NULL => /\ Vm(s2, D \cup {h}, H) /\ h \in Managed /\ h \notin D
                 /\ NoUserPart(s2, h)
  /\ UserSame(s, s2, D) /\ SameDirs(s, s2, D) /\ s2.cr3 = s.cr3

(* env_setup_vm makes a new directory, or finds no memory for it.          *)
LEMMA env_setup_vmVm ==
  ASSUME NEW s, NEW D, NEW H, Vm(s, D, H), s.cr3 # NULL, NEW h, NEW s2, SetUp(s, h, s2)
  PROVE  SetUpDone(s, s2, D, H, h)
<1>1. PICK g, t : AllocZero(s, g, t)
  BY DEF AllocZero
<1>2. /\ t \in Machine
      /\ g = NULL => t = s
      /\ g # NULL => /\ g \in Managed /\ g \notin H /\ g \notin D
                     /\ Vm(t, D, H \cup {g}) /\ t.ref[g] = 0
                     /\ KeepMmu(s, t) /\ UserSame(s, t, D) /\ SameDirs(s, t, D)
  <2>1. Allocated(s, D, H, g, t)
    BY <1>1, page_allocZero
  <2> QED BY <2>1 DEF Allocated
<1>3. CASE g = NULL
  <2>1. h = NULL /\ s2 = s
    BY <1>1, <1>2, <1>3 DEF SetUp, AllocZero, env_setup_vm
  <2> QED BY <2>1 DEF UserSame, SameDirs, SetUpDone
<1>4. CASE g # NULL
  <2>1. PICK c : c = [t.mem[KERN_PGDIR] EXCEPT ![UVPTX] = MkPTE(g, {"U"})]
    OBVIOUS
  <2>2. h = g /\ s2 = [t EXCEPT !.mem[g] = c, !.ref[g] = (@ + 1) % REFMOD]
    BY <1>1, <1>4, <2>1 DEF SetUp, AllocZero, env_setup_vm
  <2>3. PICK H1 : H1 = H \cup {g}
    OBVIOUS
  <2>4. Vm(t, D, H1) /\ t.panic = FALSE /\ g \in Frames /\ g \in H1 /\ t.cr3 # NULL
    BY <1>2, <1>4, <2>3, VmFacts, LayoutFacts DEF KeepMmu
  <2>5. s2 \in Machine
    <3>1. env_setup_vm(s).m \in Machine
      BY VmFacts, env_setup_vmType
    <3> QED BY <3>1 DEF SetUp
  <2>6. HookedDir(t, s2, g)
    <3>1. (t.ref[g] + 1) % REFMOD = 1
      BY <1>2, <1>4, FirstRef
    <3>2. s2 = [t EXCEPT !.mem[g] = c, !.ref[g] = 1]
      BY <1>2, <2>2, <3>1 DEF Machine
    <3> QED BY <1>2, <2>1, <2>4, <3>2 DEF HookedDir, KeepList, KeepMmu, Machine
  <2>7. PICK role \in [Managed -> Roles] : VmInv(t, D, H1, role)
    BY <2>4 DEF Vm
  <2>8. VmInv(s2, D \cup {g}, H1 \ {g}, Recast(role, g, "dir")) /\ UserSame(t, s2, D)
    BY <2>4, <2>5, <2>6, <2>7, HookDir
  <2>9. H1 \ {g} = H /\ Recast(role, g, "dir") \in [Managed -> Roles]
    BY <1>2, <1>4, <2>3, RecastFacts DEF Roles
  <2>10. Vm(s2, D \cup {g}, H)
    BY <2>8, <2>9 DEF Vm
  <2>11. UserSame(s, s2, D)
    BY <1>2, <1>4, <2>8 DEF UserSame
  <2>12. s2.mem = [t.mem EXCEPT ![g] = [t.mem[KERN_PGDIR] EXCEPT ![UVPTX] = MkPTE(g, {"U"})]]
         /\ s2.cr3 = t.cr3
    BY <2>6 DEF HookedDir, KeepMmu
  <2>13. D \subseteq Frames /\ t.mem \in [Frames -> [Ents -> PTE]] /\ KERN_PGDIR \in D
    BY <1>2, VmFacts, MachineFields
  <2>14. SameDirs(s, s2, D) /\ s2.cr3 = s.cr3
    BY <1>2, <1>4, <2>12, <2>13 DEF SameDirs, KeepMmu
  <2>15. NoUserPart(s2, g)
    <3>1. \A i \in UserPdx : ~t.mem[KERN_PGDIR][i].p
      BY <2>7 DEF VmInv, DirPart
    <3>2. \A i \in UserPdx : s2.mem[g][i] = t.mem[KERN_PGDIR][i]
      BY <2>4, <2>12, <2>13, LayoutFacts
    <3> QED BY <3>1, <3>2 DEF NoUserPart
  <2> QED BY <1>2, <1>4, <2>2, <2>10, <2>11, <2>14, <2>15 DEF SetUpDone
<1> QED
  BY <1>3, <1>4

(* page_decref of a page whose only reference was just dropped: what is    *)
(* left to do is page_free of a held page.                                 *)
LEMMA LastRefVm ==
  ASSUME NEW s2 \in Machine, NEW t, NEW D, NEW H, NEW role,
         NEW f \in Managed, f \notin H, VmInv(t, D, H \cup {f}, role),
         s2.head = f, s2.link = [t.link EXCEPT ![f] = t.head], s2.ref = t.ref,
         s2.mem = t.mem, KeepMmu(t, s2), s2.panic = FALSE
  PROVE  Vm(s2, D, H)
<1>1. PICK H1, role2 : H1 = H \cup {f} /\ role2 = Recast(role, f, "free")
  OBVIOUS
<1>2. VmInv(t, D, H1, role) /\ f \in H1
  BY <1>1
<1>3. VmInv(s2, D, H1 \ {f}, role2)
  BY <1>1, <1>2, PushStep
<1>4. H1 \ {f} = H /\ role2 \in [Managed -> Roles]
  BY <1>1, <1>2, RecastFacts DEF VmInv, Roles
<1> QED
  BY <1>3, <1>4 DEF Vm

(* The part of env_free that releases a page table that maps nothing.      *)
LEMMA free_tableVm ==
  ASSUME NEW s, NEW D, NEW H, Vm(s, D, H), NEW d \in D, d # KERN_PGDIR, d # s.cr3,
         NEW i \in UserPdx, s.mem[d][i].p, \A l \in Ents : ~Walk(s, d, i, l).p,
         NEW s2, s2 = free_table(s, d, i)
  PROVE  /\ Vm(s2, D, H) /\ UserSame(s, s2, D) /\ s2.cr3 = s.cr3
         /\ SamePdes(s, s2, D, d, i) /\ ~s2.mem[d][i].p
<1>1. PICK role \in [Managed -> Roles] : VmInv(s, D, H, role)
  BY DEF Vm
<1>2. s \in Machine /\ s.panic = FALSE /\ d \in Frames /\ i \in Ents
  BY VmFacts, LayoutFacts
<1>3. PICK f : f = s.mem[d][i].pa
  OBVIOUS
<1>4. f \in Managed /\ role[f] = "utab" /\ f \in Frames /\ f \notin H /\ s.ref[f] = 1
  BY <1>1, <1>3, LayoutFacts DEF VmInv, UserTabPart, HeldPart, CountPart
<1>5. s.link[f] = NULL
  BY <1>1, <1>4 DEF VmInv, FreePart, FreeList, ListShape
<1>6. PICK s0 : s0 = [s EXCEPT !.mem[d][i] = ZeroPTE]
  OBVIOUS
<1>7. /\ s0 \in Machine /\ s0.mem = [s.mem EXCEPT ![d][i] = ZeroPTE] /\ s0.ref = s.ref
      /\ s0.head = s.head /\ s0.link = s.link /\ s0.cr3 = s.cr3 /\ s0.tlb = s.tlb
      /\ s0.panic = FALSE
  <2>1. s0 \in Machine
    BY <1>2, <1>6, SetEntryType, EntryTypes
  <2> QED BY <1>2, <1>6, <2>1 DEF Machine
<1>8. s2 = page_decref(s0, f)
  BY <1>3, <1>6 DEF free_table
<1>9. s2 \in Machine /\ Decremented(s0, s2, f)
  <2>1. s0.ref[f] # 0 /\ s0.link[f] = NULL
    BY <1>4, <1>5, <1>7
  <2> QED BY <1>4, <1>7, <1>8, <2>1, page_decrefFields
<1>10. /\ s2.ref = [s.ref EXCEPT ![f] = s.ref[f] - 1] /\ s2.mem = s0.mem
       /\ s2.cr3 = s.cr3 /\ s2.tlb = s.tlb /\ s2.panic = FALSE
       /\ s2.head = f /\ s2.link = [s.link EXCEPT ![f] = s.head]
  BY <1>4, <1>7, <1>9 DEF Decremented, FreedLast, KeepMmu
<1>11. PICK t : t = [s2 EXCEPT !.head = s.head, !.link = s.link]
  OBVIOUS
<1>12. /\ t \in Machine /\ t.head = s.head /\ t.link = s.link /\ t.mem = s2.mem
       /\ t.ref = s2.ref /\ t.cr3 = s2.cr3 /\ t.tlb = s2.tlb /\ t.panic = s2.panic
  BY <1>2, <1>9, <1>11 DEF Machine
<1>13. TableUnhooked(s, t, f, d, i)
  BY <1>7, <1>10, <1>12 DEF TableUnhooked, KeepList, KeepMmu
<1>14. VmInv(t, D, H \cup {f}, Recast(role, f, "held")) /\ UserSame(s, t, D)
  BY <1>1, <1>3, <1>12, <1>13, UnhookTable
<1>15. Vm(s2, D, H)
  <2>1. PICK r1 : r1 = Recast(role, f, "held")
    OBVIOUS
  <2>2. VmInv(t, D, H \cup {f}, r1)
    BY <1>14, <2>1
  <2>3. s2.link = [t.link EXCEPT ![f] = t.head] /\ KeepMmu(t, s2)
    BY <1>10, <1>12 DEF KeepMmu
  <2> QED BY <1>4, <1>9, <1>10, <1>12, <2>2, <2>3, LastRefVm
<1>16. UserSame(s, s2, D)
  BY <1>12, <1>14 DEF UserSame, Walk
<1>17. SamePdes(s, s2, D, d, i) /\ ~s2.mem[d][i].p
  <2>1. s.mem \in [Frames -> [Ents -> PTE]] /\ D \subseteq Frames
    BY <1>2, VmFacts, MachineFields
  <2>2. s2.mem = [s.mem EXCEPT ![d][i] = ZeroPTE]
    BY <1>7, <1>10
  <2> QED BY <1>2, <2>1, <2>2 DEF SamePdes, ZeroPTE
<1> QED
  BY <1>10, <1>15, <1>16, <1>17

(* The end of env_free, which releases the directory.                      *)
LEMMA FreeDirVm ==
  ASSUME NEW s, NEW D, NEW H, Vm(s, D, H), NEW d \in D, d # KERN_PGDIR, d # s.cr3,
         \A i \in UserPdx : ~s.mem[d][i].p, NEW s2, s2 = page_decref(s, d)
  PROVE  /\ Vm(s2, D \ {d}, H) /\ UserSame(s, s2, D \ {d})
         /\ s2.mem = s.mem /\ s2.cr3 = s.cr3
<1>1. PICK role \in [Managed -> Roles] : VmInv(s, D, H, role)
  BY DEF Vm
<1>2. s \in Machine /\ s.panic = FALSE /\ d \in Frames
  BY VmFacts, LayoutFacts
<1>4. d \in Managed /\ role[d] = "dir" /\ d \notin H /\ s.ref[d] = 1
  BY <1>1, LayoutFacts DEF VmInv, DirPart, HeldPart, CountPart
<1>5. s.link[d] = NULL
  <2>1. FreePart(s, role)
    BY <1>1 DEF VmInv
  <2>2. d \notin {g \in Managed : role[g] = "free"}
    BY <1>4
  <2> QED BY <1>2, <2>1, <2>2 DEF FreePart, FreeList, ListShape
<1>9. s2 \in Machine /\ Decremented(s, s2, d)
  <2>1. s.ref[d] # 0
    BY <1>4
  <2> QED BY <1>2, <1>5, <2>1, page_decrefFields
<1>10. /\ s2.ref = [s.ref EXCEPT ![d] = s.ref[d] - 1] /\ s2.mem = s.mem
       /\ s2.cr3 = s.cr3 /\ s2.tlb = s.tlb /\ s2.panic = FALSE
       /\ s2.head = d /\ s2.link = [s.link EXCEPT ![d] = s.head]
  BY <1>2, <1>4, <1>9 DEF Decremented, FreedLast, KeepMmu
<1>11. PICK t : t = [s2 EXCEPT !.head = s.head, !.link = s.link]
  OBVIOUS
<1>12. /\ t \in Machine /\ t.head = s.head /\ t.link = s.link /\ t.mem = s2.mem
       /\ t.ref = s2.ref /\ t.cr3 = s2.cr3 /\ t.tlb = s2.tlb /\ t.panic = s2.panic
  BY <1>2, <1>9, <1>11 DEF Machine
<1>13. /\ t.ref = [s.ref EXCEPT ![d] = s.ref[d] - 1] /\ t.mem = s.mem
       /\ KeepList(s, t) /\ KeepMmu(s, t) /\ t.panic = FALSE
  BY <1>10, <1>12 DEF KeepList, KeepMmu
<1>14. VmInv(t, D \ {d}, H \cup {d}, Recast(role, d, "held"))
  BY <1>1, <1>12, <1>13, UnhookDir
<1>15. Vm(s2, D \ {d}, H)
  <2>1. PICK r1, D1 : r1 = Recast(role, d, "held") /\ D1 = D \ {d}
    OBVIOUS
  <2>2. VmInv(t, D1, H \cup {d}, r1)
    BY <1>14, <2>1
  <2>3. s2.link = [t.link EXCEPT ![d] = t.head] /\ KeepMmu(t, s2)
    BY <1>10, <1>12 DEF KeepMmu
  <2>4. Vm(s2, D1, H)
    BY <1>4, <1>9, <1>10, <1>12, <2>2, <2>3, LastRefVm
  <2> QED BY <2>1, <2>4
<1>16. UserSame(s, s2, D \ {d})
  BY <1>10 DEF UserSame, Walk
<1> QED
  BY <1>10, <1>15, <1>16

(* A store that the MMU lets a user program make ends in a mapped page,    *)
(* through the tables or through a cached translation.                     *)
LEMMA storeVm ==
  ASSUME NEW s, NEW D, NEW H, Vm(s, D, H), s.cr3 # NULL, NEW i \in Ents, NEW j \in Ents,
         CanStore(s, i, j), NEW c \in [Ents -> PTE], NEW s2, s2 = store(s, i, j, c)
  PROVE  /\ Vm(s2, D, H) /\ UserSame(s, s2, D) /\ SameDirs(s, s2, D) /\ s2.cr3 = s.cr3
         /\ i \in UserPdx /\ Walk(s, s.cr3, i, j).p
<1>1. PICK role \in [Managed -> Roles] : VmInv(s, D, H, role)
  BY DEF Vm
<1>2. /\ s \in Machine /\ s.panic = FALSE /\ s.cr3 \in D /\ D \subseteq Frames
      /\ DirPart(s, D, role) /\ KernTabPart(s, role) /\ PagePart(s, D, role) /\ TlbPart(s, D)
  BY <1>1, VmFacts DEF VmInv, TlbPart
<1>3. PICK f : f = InForce(s, i, j).pa
  OBVIOUS
<1>4. PICK e : e = Walk(s, s.cr3, i, j)
  OBVIOUS
<1>5. i \in UserPdx /\ e.p /\ f = e.pa
  <2>1. CASE s.tlb[i][j].p
    <3>1. RWU \subseteq s.tlb[i][j].perm /\ f = s.tlb[i][j].pa
      BY <1>3, <2>1 DEF CanStore, InForce
    <3>2. e.p /\ f = e.pa /\ i \notin KernPdx
      BY <1>2, <1>4, <2>1, <3>1 DEF TlbPart
    <3> QED BY <3>2, LayoutFacts
  <2>2. CASE ~s.tlb[i][j].p
    <3>1. e \in PTE
      BY <1>2, <1>4, WalkType
    <3>2. InForce(s, i, j) = [e EXCEPT !.perm = @ \cap s.mem[s.cr3][i].perm]
      BY <1>4, <2>2 DEF InForce, Translate
    <3>3. /\ InForce(s, i, j).p = e.p /\ InForce(s, i, j).pa = e.pa
          /\ InForce(s, i, j).perm = e.perm \cap s.mem[s.cr3][i].perm
      BY <3>1, <3>2 DEF PTE
    <3>4. e.p /\ f = e.pa /\ RWU \subseteq e.perm /\ RWU \subseteq s.mem[s.cr3][i].perm
      BY <1>3, <3>3 DEF CanStore
    <3>5. i # UVPTX
      <4>1. s.mem[s.cr3][UVPTX].perm = {"U"}
        <5>1. s.mem[s.cr3][UVPTX] = MkPTE(s.cr3, {"U"})
          BY <1>2 DEF DirPart
        <5> QED BY <5>1 DEF MkPTE
      <4> QED BY <3>4, <4>1, LayoutFacts
    <3>6. i \notin KernIdx
      <4>1. SUFFICES ASSUME i \in KernIdx PROVE FALSE
        OBVIOUS
      <4>2. e = Walk(s, KERN_PGDIR, i, j)
        BY <1>2, <1>4, <4>1 DEF DirPart, Walk
      <4> QED BY <1>2, <3>4, <4>1, <4>2, LayoutFacts DEF KernTabPart
    <3> QED BY <3>4, <3>5, <3>6, LayoutFacts
  <2> QED BY <2>1, <2>2
<1>6. f \in Managed /\ role[f] = "page" /\ f \in Frames
  BY <1>2, <1>4, <1>5, LayoutFacts DEF PagePart
<1>7. s2 = [s EXCEPT !.mem[f] = c]
  BY <1>3 DEF store
<1>8. s2 \in Machine
  BY <1>2, <1>6, <1>7, SetPageType
<1>9. OnlyPage(s, s2, f) /\ KeepList(s, s2) /\ s2.ref = s.ref /\ KeepMmu(s, s2) /\ s2.panic = FALSE
  BY <1>2, <1>7 DEF Machine, OnlyPage, KeepList, KeepMmu
<1>10. role[f] \in {"free", "held", "page"}
  BY <1>6
<1>11. VmInv(s2, D, H, role) /\ UserSame(s, s2, D)
  BY <1>1, <1>6, <1>8, <1>9, <1>10, StoreStep
<1>12. SameDirs(s, s2, D)
  BY <1>2, <1>6, <1>9, LayoutFacts DEF SameDirs, OnlyPage, DirPart
<1> QED
  BY <1>4, <1>5, <1>9, <1>11, <1>12 DEF Vm, KeepMmu

-----------------------------------------------------------------------------
(* The machine after page_init, with the contents c of memory.             *)
FirstDir == [ZeroPage EXCEPT ![UVPTX] = MkPTE(KERN_PGDIR, {"U"})]

FirstMachine(c) ==
  [ref |-> page_init_ref, link |-> page_init_link, head |-> page_init_head,
   mem |-> [c EXCEPT ![KERN_PGDIR] = FirstDir],
   cr3 |-> NULL, tlb |-> EmptyTlb, panic |-> FALSE]

(* The machine that page_init leaves has its type.                         *)
LEMMA FirstType ==
  ASSUME NEW c \in [Frames -> [Ents -> PTE]]
  PROVE  FirstMachine(c) \in Machine
<1>2. page_init_ref \in [Frames -> 0 .. REFMOD - 1]
  BY PhysAssumption DEF page_init_ref
<1>3. \A f \in Managed : PrevPushed(f) \in Frames \cup {NULL}
  BY PhysAssumption DEF PrevPushed, Managed, Frames
<1>4. page_init_link \in [Frames -> Frames \cup {NULL}]
  BY <1>3 DEF page_init_link
<1>5. page_init_head \in Frames
  BY PhysAssumption DEF page_init_head, Frames
<1>6. [c EXCEPT ![KERN_PGDIR] = FirstDir] \in [Frames -> [Ents -> PTE]]
  <2>1. FirstDir \in [Ents -> PTE]
    BY EntryTypes DEF FirstDir
  <2> QED BY <2>1
<1> QED
  BY <1>2, <1>4, <1>5, <1>6, EntryTypes DEF Machine, FirstMachine

(* All pages of the allocator are free then, and nothing is mapped.        *)
LEMMA FirstVm ==
  ASSUME NEW c \in [Frames -> [Ents -> PTE]], NEW s, s = FirstMachine(c)
  PROVE  /\ Vm(s, {KERN_PGDIR}, {})
         /\ \A i \in UserPdx : ~s.mem[KERN_PGDIR][i].p
         /\ \A i \in KernIdx : ~s.mem[KERN_PGDIR][i].p
<1>1. s \in Machine
  BY FirstType
<1>4. PICK role : role = [f \in Managed |-> "free"]
  OBVIOUS
<1>5. role \in [Managed -> Roles] /\ \A f \in Managed : role[f] = "free"
  BY <1>4 DEF Roles
<1>6. /\ s.ref = page_init_ref /\ s.link = page_init_link /\ s.head = page_init_head
      /\ s.cr3 = NULL /\ s.tlb = EmptyTlb /\ s.panic = FALSE
      /\ s.mem[KERN_PGDIR] = FirstDir
  BY LayoutFacts DEF FirstMachine
<1>7. /\ FirstDir[UVPTX] = MkPTE(KERN_PGDIR, {"U"})
      /\ \A i \in Ents : i # UVPTX => ~FirstDir[i].p
  BY LayoutFacts, EntryTypes DEF FirstDir, ZeroPage, ZeroPTE
<1>8. /\ \A i \in UserPdx : ~s.mem[KERN_PGDIR][i].p
      /\ \A i \in KernIdx : ~s.mem[KERN_PGDIR][i].p
  BY <1>6, <1>7, LayoutFacts
<1>9. FreePart(s, role)
  <2>1. {f \in Managed : role[f] = "free"} = Managed
    BY <1>5
  <2>2. FreeList(s, Managed)
    BY <1>6, InitList
  <2> QED BY <2>1, <2>2 DEF FreePart
<1>10. HeldPart({}, role)
  BY <1>5 DEF HeldPart
<1>11. DirPart(s, {KERN_PGDIR}, role)
  BY <1>5, <1>6, <1>7, <1>8, LayoutFacts DEF DirPart
<1>12. UserTabPart(s, {KERN_PGDIR}, role)
  BY <1>5, <1>8 DEF UserTabPart
<1>13. KernTabPart(s, role)
  BY <1>5, <1>8 DEF KernTabPart, Walk, ZeroPTE
<1>14. PagePart(s, {KERN_PGDIR}, role)
  BY <1>8 DEF PagePart, Walk, ZeroPTE
<1>15. CountPart(s, {KERN_PGDIR}, role)
  <2>1. \A f \in Managed : s.ref[f] = 0
    BY <1>6, LayoutFacts DEF page_init_ref
  <2> QED BY <1>5, <2>1 DEF CountPart
<1>16. TlbPart(s, {KERN_PGDIR})
  <2>1. \A i, j \in Ents : ~s.tlb[i][j].p
    BY <1>6 DEF EmptyTlb, ZeroPage, ZeroPTE
  <2> QED BY <1>6, <2>1 DEF TlbPart
<1>17. VmInv(s, {KERN_PGDIR}, {}, role)
  BY <1>1, <1>5, <1>6, <1>9, <1>10, <1>11, <1>12, <1>13, <1>14, <1>15, <1>16 DEF VmInv
<1>18. Vm(s, {KERN_PGDIR}, {})
  BY <1>5, <1>17 DEF Vm
<1> QED
  BY <1>8, <1>18

(* A load of %cr3, and a translation that the MMU caches.                  *)
LEMMA lcr3Vm ==
  ASSUME NEW s, NEW D, NEW H, Vm(s, D, H), NEW d \in D, NEW s2, s2 = lcr3(s, d)
  PROVE  Vm(s2, D, H) /\ UserSame(s, s2, D) /\ s2.mem = s.mem /\ s2.cr3 = d
<1>1. PICK role \in [Managed -> Roles] : VmInv(s, D, H, role)
  BY DEF Vm
<1>2. VmInv(s2, D, H, role) /\ UserSame(s, s2, D)
  BY <1>1, lcr3Step
<1>3. s \in Machine
  BY VmFacts
<1>4. s2.mem = s.mem /\ s2.cr3 = d
  BY <1>3 DEF lcr3, Machine
<1> QED BY <1>2, <1>4 DEF Vm

Filled(s, i, j, s2) == s2 = [s EXCEPT !.tlb[i][j] = Translate(s, i, j)]

(* The MMU caches a translation.                                           *)
LEMMA FillVm ==
  ASSUME NEW s, NEW D, NEW H, Vm(s, D, H), s.cr3 # NULL, NEW i \in Ents, NEW j \in Ents,
         Walk(s, s.cr3, i, j).p, NEW s2, Filled(s, i, j, s2)
  PROVE  Vm(s2, D, H) /\ UserSame(s, s2, D) /\ s2.mem = s.mem /\ s2.cr3 = s.cr3
<1>1. PICK role \in [Managed -> Roles] : VmInv(s, D, H, role)
  BY DEF Vm
<1>2. s \in Machine /\ s.panic = FALSE
  BY VmFacts
<1>3. PICK e : e = Translate(s, i, j)
  OBVIOUS
<1>4. e \in PTE
  <2>1. s.cr3 \in Frames
    BY <1>2, MachineFields
  <2> QED BY <1>2, <1>3, <2>1, TranslateType
<1>5. s2 = [s EXCEPT !.tlb[i][j] = e]
  BY <1>3 DEF Filled
<1>6. /\ s2 \in Machine /\ s2.tlb = [s.tlb EXCEPT ![i][j] = e] /\ s2.cr3 = s.cr3
      /\ s2.mem = s.mem /\ s2.ref = s.ref /\ KeepList(s, s2) /\ s2.panic = FALSE
  BY <1>2, <1>4, <1>5 DEF Machine, KeepList
<1>7. VmInv(s2, D, H, role) /\ UserSame(s, s2, D)
  BY <1>1, <1>3, <1>6, FillStep
<1> QED BY <1>6, <1>7 DEF Vm

-----------------------------------------------------------------------------
(* Every directory entry of the user part, and every translation of it     *)
(* that the TLB holds, lets user code read and write.                      *)
UserRWU(s, D) ==
  /\ \A e \in D, l \in UserPdx : s.mem[e][l].p => s.mem[e][l].perm = RWU
  /\ \A a \in UserPdx, b \in Ents : s.tlb[a][b].p => s.tlb[a][b].perm = RWU

(* No translation comes into the TLB.                                      *)
NoNewTlb(s, s2) == \A a, b \in Ents : s2.tlb[a][b].p => s2.tlb[a][b] = s.tlb[a][b]

(* Steps that write no directory.                                          *)
LEMMA SameDirsRWU ==
  ASSUME NEW s, NEW s2, NEW D, NEW D2 \in SUBSET D, UserRWU(s, D), SameDirs(s, s2, D),
         NoNewTlb(s, s2)
  PROVE  UserRWU(s2, D2)
<1>1. UserPdx \subseteq Ents
  BY LayoutFacts
<1> QED BY <1>1 DEF UserRWU, SameDirs, NoNewTlb

(* Steps that write one entry of one directory.                            *)
LEMMA SamePdesRWU ==
  ASSUME NEW s, NEW s2, NEW D, NEW d, NEW i, UserRWU(s, D), SamePdes(s, s2, D, d, i),
         s2.mem[d][i].p => s2.mem[d][i].perm = RWU, NoNewTlb(s, s2)
  PROVE  UserRWU(s2, D)
<1>1. UserPdx \subseteq Ents
  BY LayoutFacts
<1>2. \A e \in D, l \in UserPdx : s2.mem[e][l].p => s2.mem[e][l].perm = RWU
  <2> SUFFICES ASSUME NEW e \in D, NEW l \in UserPdx, s2.mem[e][l].p
               PROVE  s2.mem[e][l].perm = RWU
    OBVIOUS
  <2>1. CASE e = d /\ l = i
    BY <2>1
  <2>2. CASE ~(e = d /\ l = i)
    <3>1. s2.mem[e][l] = s.mem[e][l]
      BY <1>1, <2>2 DEF SamePdes
    <3> QED BY <3>1 DEF UserRWU
  <2> QED BY <2>1, <2>2
<1>3. \A a \in UserPdx, b \in Ents : s2.tlb[a][b].p => s2.tlb[a][b].perm = RWU
  BY <1>1 DEF UserRWU, NoNewTlb
<1> QED BY <1>2, <1>3 DEF UserRWU

(* pgdir_walk gives a new page table PTE_W and PTE_U.                      *)
LEMMA pgdir_walkRWU ==
  ASSUME NEW s, NEW D, NEW H, Vm(s, D, H), NEW d \in D, d # KERN_PGDIR,
         NEW i \in UserPdx, NEW pt, NEW w, WalkCreate(s, d, i, pt, w), UserRWU(s, D)
  PROVE  UserRWU(w, D)
<1>0. i \in Ents
  BY LayoutFacts
<1>1. CASE s.mem[d][i].p
  <2>1. w = s
    BY <1>1 DEF pgdir_walk, WalkCreate
  <2> QED BY <2>1
<1>2. CASE pt = NULL /\ w = s
  BY <1>2
<1>3. ASSUME NEW t, NewTable(s, t, D, H, d, i, pt, w)
      PROVE  UserRWU(w, D)
  <2>1. /\ Vm(t, D, H \cup {pt}) /\ KeepMmu(s, t)
        /\ HookedTable(t, w, pt, d, i)
    BY <1>3 DEF NewTable
  <2>2. w.mem = [t.mem EXCEPT ![d][i] = MkPTE(pt, RWU)] /\ w.tlb = s.tlb
    BY <2>1 DEF HookedTable, KeepMmu
  <2>3. t \in Machine /\ D \subseteq Frames
    BY <2>1, VmFacts
  <2>4. t.mem \in [Frames -> [Ents -> PTE]] /\ d \in Frames
    BY <2>3, MachineFields
  <2>5. w.mem[d][i].perm = RWU
    BY <1>0, <2>2, <2>4 DEF MkPTE
  <2>6. SamePdes(s, w, D, d, i)
    BY pgdir_walkVm
  <2>7. NoNewTlb(s, w)
    BY <2>2 DEF NoNewTlb
  <2> QED BY <2>5, <2>6, <2>7, SamePdesRWU
<1> QED
  BY <1>0, <1>1, <1>2, <1>3, pgdir_walkNew

(* page_decref leaves memory and the TLB alone.                            *)
LEMMA page_decrefMmu ==
  ASSUME NEW s \in Machine, NEW pp
  PROVE  page_decref(s, pp).tlb = s.tlb /\ page_decref(s, pp).mem = s.mem
<1>1. PICK r : r = (s.ref[pp] - 1) % REFMOD
  OBVIOUS
<1>2. PICK s1 : s1 = [s EXCEPT !.ref[pp] = r]
  OBVIOUS
<1>3. page_decref(s, pp) = IF r = 0 THEN page_free(s1, pp) ELSE s1
  BY <1>1, <1>2 DEF page_decref
<1>4. s1.tlb = s.tlb /\ s1.mem = s.mem
  BY <1>2 DEF Machine
<1>5. page_free(s1, pp).tlb = s1.tlb /\ page_free(s1, pp).mem = s1.mem
  BY <1>2 DEF page_free, Machine
<1> QED BY <1>3, <1>4, <1>5

(* page_remove takes a translation out of the TLB.                         *)
LEMMA page_removeTlb ==
  ASSUME NEW s \in Machine, NEW d \in Frames, NEW i \in Ents, NEW j \in Ents,
         s.mem[d][i].p
  PROVE  NoNewTlb(s, page_remove(s, d, i, j))
<1>1. PICK pt, pp, s1 : /\ pt = s.mem[d][i].pa /\ pp = s.mem[pt][j].pa
                        /\ s1 = page_decref(s, pp)
  OBVIOUS
<1>2. pt \in Frames /\ pp \in Frames /\ pt # NULL /\ pp # NULL
  <2>1. pt \in Frames
    BY <1>1, EntryFields
  <2>2. pp \in Frames
    BY <1>1, <2>1, EntryFields
  <2> QED BY <2>1, <2>2, MachineFields
<1>3. page_lookup(s, d, i, j) = pp
  BY <1>1, <1>2 DEF page_lookup, pgdir_walk
<1>4. s1 \in Machine /\ s1.tlb = s.tlb
  BY <1>1, <1>2, page_decrefType, page_decrefMmu
<1>5. PICK t : t = [s1 EXCEPT !.mem[pt][j] = ZeroPTE]
  OBVIOUS
<1>6. t \in Machine /\ t.tlb = s.tlb
  <2>1. t \in Machine
    BY <1>2, <1>4, <1>5, SetEntryType, EntryTypes
  <2> QED BY <1>4, <1>5, <2>1 DEF Machine
<1>7. page_remove(s, d, i, j) = IF s1.panic THEN s1 ELSE tlb_invalidate(t, i, j)
  BY <1>1, <1>2, <1>3, <1>5 DEF page_remove
<1>8. CASE s1.panic
  BY <1>4, <1>7, <1>8 DEF NoNewTlb
<1>9. CASE ~s1.panic
  <2>1. page_remove(s, d, i, j).tlb = [s.tlb EXCEPT ![i][j] = ZeroPTE]
    BY <1>6, <1>7, <1>9 DEF tlb_invalidate, Machine
  <2>2. s.tlb \in [Ents -> [Ents -> PTE]]
    BY MachineFields
  <2> QED BY <2>1, <2>2 DEF NoNewTlb, ZeroPTE
<1> QED BY <1>8, <1>9

(* So it leaves the permissions as they are.                               *)
LEMMA page_removeRWU ==
  ASSUME NEW s, NEW D, NEW H, Vm(s, D, H), NEW d \in D, NEW i \in UserPdx, NEW j \in Ents,
         Walk(s, d, i, j).p, NEW s2, s2 = page_remove(s, d, i, j), UserRWU(s, D)
  PROVE  UserRWU(s2, D)
<1>1. SameDirs(s, s2, D)
  BY page_removeVm
<1>2. s \in Machine /\ d \in Frames /\ i \in Ents /\ s.mem[d][i].p
  BY VmFacts, LayoutFacts DEF Walk, ZeroPTE
<1>3. NoNewTlb(s, s2)
  BY <1>2, page_removeTlb
<1> QED BY <1>1, <1>3, SameDirsRWU

(* A write to a page table, and to pages[].                                *)
LEMMA WritePteRWU ==
  ASSUME NEW s, NEW s2, NEW D, NEW H, Vm(s, D, H), NEW d \in D, NEW i \in UserPdx,
         NEW j \in Ents, s.mem[d][i].p, NEW pt, pt = s.mem[d][i].pa, NEW x,
         PteSet(s, s2, pt, j, x), s2.tlb = s.tlb, UserRWU(s, D)
  PROVE  UserRWU(s2, D)
<1>1. SameDirs(s, s2, D)
  BY WritePte
<1>2. NoNewTlb(s, s2)
  BY DEF NoNewTlb
<1> QED BY <1>1, <1>2, SameDirsRWU

(* page_insert, of a page that is held.                                    *)
LEMMA page_insertRWU ==
  ASSUME NEW s, NEW D, NEW H, Vm(s, D, H), NEW d \in D, d # KERN_PGDIR,
         NEW i \in UserPdx, NEW j \in Ents, NEW pp, NEW perm,
         NEW s2, NEW ok, Inserted(s, d, pp, i, j, perm, s2, ok), UserRWU(s, D)
  PROVE  UserRWU(s2, D)
<1>1. PICK pt, w : WalkCreate(s, d, i, pt, w)
  BY DEF WalkCreate
<1>2. /\ Vm(w, D, H) /\ UserRWU(w, D)
      /\ pt # NULL => w.mem[d][i].p /\ pt = w.mem[d][i].pa
  BY <1>1, pgdir_walkVm, pgdir_walkRWU
<1>3. PICK s1, x : s1 = page_remove(w, d, i, j) /\ x = MkPTE(pp, perm)
  OBVIOUS
<1>4. CASE pt = NULL
  <2>1. s2 = w
    BY <1>1, <1>4 DEF Inserted, WalkCreate, page_insert
  <2> QED BY <1>2, <2>1
<1>5. CASE pt # NULL /\ ~w.mem[pt][j].p
  <2>1. s2 = map_counted(w, pt, j, pp, perm)
    BY <1>1, <1>5 DEF Inserted, WalkCreate, page_insert
  <2>2. w \in Machine
    BY <1>2, VmFacts
  <2>3. PteSet(w, s2, pt, j, x) /\ s2.tlb = w.tlb
    BY <1>3, <2>1, <2>2 DEF map_counted, PteSet, Machine
  <2> QED BY <1>2, <1>5, <2>3, WritePteRWU
<1>6. CASE pt # NULL /\ w.mem[pt][j].p /\ w.mem[pt][j].pa = pp
  <2>1. s2 = [w EXCEPT !.mem[pt][j] = MkPTE(pp, perm)]
    BY <1>1, <1>6 DEF Inserted, WalkCreate, page_insert
  <2>2. w \in Machine
    BY <1>2, VmFacts
  <2>3. PteSet(w, s2, pt, j, x) /\ s2.tlb = w.tlb
    BY <1>3, <2>1, <2>2 DEF PteSet, Machine
  <2> QED BY <1>2, <1>6, <2>3, WritePteRWU
<1>7. CASE pt # NULL /\ w.mem[pt][j].p /\ w.mem[pt][j].pa # pp
  <2>1. Walk(w, d, i, j).p
    BY <1>2, <1>7 DEF Walk
  <2>2. Vm(s1, D, H) /\ UserRWU(s1, D) /\ SameDirs(w, s1, D)
    BY <1>2, <1>3, <2>1, page_removeVm, page_removeRWU
  <2>3. s1.panic = FALSE /\ s1 \in Machine
    BY <2>2, VmFacts
  <2>4. s2 = map_counted(s1, pt, j, pp, perm)
    BY <1>1, <1>3, <1>7, <2>3 DEF Inserted, WalkCreate, page_insert
  <2>5. PteSet(s1, s2, pt, j, x) /\ s2.tlb = s1.tlb
    BY <1>3, <2>3, <2>4 DEF map_counted, PteSet, Machine
  <2>6. s1.mem[d][i].p /\ pt = s1.mem[d][i].pa
    BY <1>2, <1>7, <2>2 DEF SameDirs
  <2> QED BY <2>2, <2>5, <2>6, WritePteRWU
<1> QED BY <1>4, <1>5, <1>6, <1>7

(* env_setup_vm.                                                           *)
LEMMA env_setup_vmRWU ==
  ASSUME NEW s, NEW D, NEW H, Vm(s, D, H), s.cr3 # NULL, NEW h, NEW s2, SetUp(s, h, s2),
         h # NULL, UserRWU(s, D)
  PROVE  UserRWU(s2, D \cup {h})
<1>1. SameDirs(s, s2, D) /\ NoUserPart(s2, h) /\ h \in Managed
  BY env_setup_vmVm DEF SetUpDone
<1>2. PICK g, t : AllocZero(s, g, t)
  BY DEF AllocZero
<1>3. Allocated(s, D, H, g, t)
  BY <1>2, page_allocZero
<1>4. g # NULL
  BY <1>2 DEF SetUp, AllocZero, env_setup_vm
<1>5. t.tlb = s.tlb /\ t \in Machine
  BY <1>3, <1>4 DEF Allocated, KeepMmu
<1>6. PICK c : c = [t.mem[KERN_PGDIR] EXCEPT ![UVPTX] = MkPTE(g, {"U"})]
  OBVIOUS
<1>7. s2 = [t EXCEPT !.mem[g] = c, !.ref[g] = (@ + 1) % REFMOD]
  BY <1>2, <1>4, <1>6 DEF SetUp, AllocZero, env_setup_vm
<1>8. s2.tlb = s.tlb
  BY <1>5, <1>7 DEF Machine
<1>9. \A e \in D \cup {h}, l \in UserPdx : s2.mem[e][l].p => s2.mem[e][l].perm = RWU
  BY <1>1 DEF SameDirs, NoUserPart, UserRWU
<1> QED BY <1>8, <1>9 DEF UserRWU

(* The release of a page table.                                            *)
LEMMA free_tableRWU ==
  ASSUME NEW s, NEW D, NEW H, Vm(s, D, H), NEW d \in D, d # KERN_PGDIR, d # s.cr3,
         NEW i \in UserPdx, s.mem[d][i].p, \A l \in Ents : ~Walk(s, d, i, l).p,
         NEW s2, s2 = free_table(s, d, i), UserRWU(s, D)
  PROVE  UserRWU(s2, D)
<1>1. SamePdes(s, s2, D, d, i) /\ ~s2.mem[d][i].p
  BY free_tableVm
<1>2. PICK t : t = [s EXCEPT !.mem[d][i] = ZeroPTE]
  OBVIOUS
<1>3. s \in Machine /\ d \in Frames /\ i \in Ents
  BY VmFacts, LayoutFacts
<1>4. t \in Machine /\ t.tlb = s.tlb
  <2>1. t \in Machine
    BY <1>2, <1>3, SetEntryType, EntryTypes
  <2> QED BY <1>2, <1>3, <2>1 DEF Machine
<1>5. s2.tlb = s.tlb
  BY <1>2, <1>4, page_decrefMmu DEF free_table
<1>6. NoNewTlb(s, s2)
  BY <1>5 DEF NoNewTlb
<1> QED BY <1>1, <1>6, SamePdesRWU

(* A load of %cr3 empties the TLB.                                         *)
LEMMA lcr3RWU ==
  ASSUME NEW s \in Machine, NEW D, NEW d, NEW s2, s2 = lcr3(s, d), UserRWU(s, D)
  PROVE  UserRWU(s2, D)
<1>1. s2.mem = s.mem /\ s2.tlb = EmptyTlb
  BY DEF lcr3, Machine
<1>2. UserPdx \subseteq Ents
  BY LayoutFacts
<1>3. \A a, b \in Ents : ~EmptyTlb[a][b].p
  BY DEF EmptyTlb, ZeroPage, ZeroPTE
<1> QED BY <1>1, <1>2, <1>3 DEF UserRWU

(* A translation that the MMU caches has the permissions of both entries.  *)
LEMMA FillRWU ==
  ASSUME NEW s, NEW D, NEW H, Vm(s, D, H), NEW i \in Ents, NEW j \in Ents, s.cr3 # NULL,
         Walk(s, s.cr3, i, j).p, NEW s2, Filled(s, i, j, s2), UserRWU(s, D),
         \A l \in UserPdx, n \in Ents :
           Walk(s, s.cr3, l, n).p => Walk(s, s.cr3, l, n).perm = RWU
  PROVE  UserRWU(s2, D)
<1>1. s \in Machine /\ s.cr3 \in D /\ UserPdx \subseteq Ents
  BY VmFacts, LayoutFacts DEF Vm, VmInv, TlbPart
<1>2. PICK e : e = Translate(s, i, j)
  OBVIOUS
<1>3. i \in UserPdx => e.perm = RWU
  <2> SUFFICES ASSUME i \in UserPdx PROVE e.perm = RWU
    OBVIOUS
  <2>1. s.mem[s.cr3][i].p
    BY DEF Walk, ZeroPTE
  <2>2. s.mem[s.cr3][i].perm = RWU /\ Walk(s, s.cr3, i, j).perm = RWU
    BY <1>1, <2>1 DEF UserRWU
  <2>3. PICK y : y = Walk(s, s.cr3, i, j)
    OBVIOUS
  <2>4. y \in PTE /\ y.perm = RWU
    BY <1>1, <2>2, <2>3, WalkType, VmFacts
  <2>5. e = [y EXCEPT !.perm = @ \cap RWU]
    BY <1>2, <2>2, <2>3 DEF Translate
  <2> QED BY <2>4, <2>5 DEF PTE
<1>4. s2.mem = s.mem /\ s2.tlb = [s.tlb EXCEPT ![i][j] = e]
  BY <1>1, <1>2 DEF Filled, Machine
<1>5. s.tlb \in [Ents -> [Ents -> PTE]]
  BY <1>1, MachineFields
<1>6. \A a \in UserPdx, b \in Ents : s2.tlb[a][b].p => s2.tlb[a][b].perm = RWU
  <2> SUFFICES ASSUME NEW a \in UserPdx, NEW b \in Ents, s2.tlb[a][b].p
               PROVE  s2.tlb[a][b].perm = RWU
    OBVIOUS
  <2>1. CASE a = i /\ b = j
    BY <1>3, <1>4, <1>5, <2>1
  <2>2. CASE ~(a = i /\ b = j)
    <3>1. s2.tlb[a][b] = s.tlb[a][b]
      BY <1>1, <1>4, <1>5, <2>2
    <3> QED BY <3>1 DEF UserRWU
  <2> QED BY <2>1, <2>2
<1> QED BY <1>4, <1>6 DEF UserRWU

(* What the permissions are for: user code, and the kernel on its behalf,  *)
(* may store wherever a page is mapped in the user part.                   *)
LEMMA MappedCanStore ==
  ASSUME NEW s, NEW D, NEW H, Vm(s, D, H), NEW i \in UserPdx, NEW j \in Ents, s.cr3 # NULL,
         Walk(s, s.cr3, i, j).p, Walk(s, s.cr3, i, j).perm = RWU, UserRWU(s, D)
  PROVE  CanStore(s, i, j)
<1>1. s \in Machine /\ s.cr3 \in D /\ i \in Ents
  BY VmFacts, LayoutFacts DEF Vm, VmInv, TlbPart
<1>2. CASE s.tlb[i][j].p
  BY <1>2 DEF UserRWU, CanStore, InForce
<1>3. CASE ~s.tlb[i][j].p
  <2>1. s.mem[s.cr3][i].p
    BY DEF Walk, ZeroPTE
  <2>2. s.mem[s.cr3][i].perm = RWU
    BY <1>1, <2>1 DEF UserRWU
  <2>3. PICK y : y = Walk(s, s.cr3, i, j)
    OBVIOUS
  <2>4. y \in PTE /\ y.perm = RWU /\ y.p
    BY <1>1, <2>3, WalkType, VmFacts
  <2>5. InForce(s, i, j) = [y EXCEPT !.perm = @ \cap RWU]
    BY <1>3, <2>2, <2>3 DEF InForce, Translate
  <2>6. InForce(s, i, j).p /\ InForce(s, i, j).perm = RWU
    BY <2>4, <2>5 DEF PTE
  <2> QED BY <2>6 DEF CanStore
<1> QED BY <1>2, <1>3

==============================================================================
