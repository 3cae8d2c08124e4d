----------------------------- MODULE EnvProofs -------------------------------
(***************************************************************************)
(* The invariant of kern/env.c, and what follows from it.                  *)
(*                                                                         *)
(* EnvInv is inductive.  Of the memory it says what PageProofs says, that  *)
(* every page has one role, and that a page is mapped once in all, with    *)
(* PTE_W and PTE_U; of envs[], that env_free_list holds the free slots,    *)
(* that each live slot has a directory and an env_id of its own; of the    *)
(* kernel, where it is in load_icode and env_free and what it has mapped   *)
(* or released so far.  One lemma per action shows that it is kept.        *)
(***************************************************************************)
EXTENDS Env, PageProofs

(* The division of naturals.                                               *)
DivBy(a, n, q, r) == q = a \div n /\ r = a % n

(* Quotient and remainder.                                                 *)
LEMMA DivMod ==
  ASSUME NEW a \in Nat, NEW n \in Nat \ {0}, NEW q, NEW r, DivBy(a, n, q, r)
  PROVE  q \in Nat /\ r \in 0 .. n - 1 /\ a = n * q + r
<1>1. q \in Nat
  BY DEF DivBy
<1>2. r \in 0 .. n - 1
  BY DEF DivBy
<1>3. a = n * q + r
  BY DEF DivBy
<1> QED BY <1>1, <1>2, <1>3

(* There is one quotient and one remainder.                                *)
LEMMA DivUnique ==
  ASSUME NEW q \in Nat, NEW r \in Nat, NEW n \in Nat \ {0}, r < n
  PROVE  (n * q + r) \div n = q /\ (n * q + r) % n = r
OBVIOUS

(* A number below n * b has its quotient by n below b.                     *)
LEMMA DivLess ==
  ASSUME NEW a \in Nat, NEW b \in Nat, NEW n \in Nat \ {0}, a < b * n
  PROVE  a \div n < b
OBVIOUS

(* The quotient grows with the number.                                     *)
LEMMA DivMono ==
  ASSUME NEW a \in Nat, NEW b \in Nat, NEW n \in Nat \ {0}, a <= b
  PROVE  a \div n <= b \div n
OBVIOUS

(* The indices of a byte address below USTACKTOP are in the user part.     *)
LEMMA UserAddress ==
  ASSUME NEW va \in Nat, va < USTACKTOP
  PROVE  PDX(va) \in UserPdx /\ PTX(va) \in Ents
<1>1. /\ PGSIZE \in Nat \ {0} /\ NENT \in Nat \ {0} /\ UTOPX \in Nat
      /\ USTACKTOP <= UTOPX * NENT * PGSIZE /\ USTACKTOP \in Nat
  BY EnvAssumption, PhysAssumption, LayoutAssumption
<1>2. UTOPX * NENT \in Nat
  BY <1>1
<1>3. va < (UTOPX * NENT) * PGSIZE
  BY <1>1
<1>4. PageOf(va) \in Nat
  BY <1>1 DEF PageOf
<1>5. PageOf(va) < UTOPX * NENT
  BY <1>1, <1>2, <1>3, DivLess DEF PageOf
<1>6. PDX(va) \in Nat /\ PTX(va) \in 0 .. NENT - 1
  BY <1>1, <1>4 DEF PDX, PTX
<1>7. PDX(va) < UTOPX
  BY <1>1, <1>4, <1>5, DivLess DEF PDX
<1> QED
  BY <1>1, <1>6, <1>7 DEF UserPdx, Ents

(* The first page of a region, and page n of it.                           *)
PageAt(h, n) == va_start(h) + n * PGSIZE

(* The n-th page of a region lies n pages above its first.                 *)
LEMMA PageAtFacts ==
  ASSUME NEW va \in Nat, NEW n \in Nat, NEW h, h.va = va
  PROVE  /\ PageAt(h, n) \in Nat
         /\ PageAt(h, n) = PGSIZE * (PageOf(va) + n)
         /\ PageOf(PageAt(h, n)) = PageOf(va) + n
<1>1. PGSIZE \in Nat \ {0}
  BY EnvAssumption
<1>3. PICK q, r : DivBy(va, PGSIZE, q, r)
  BY DEF DivBy
<1>4. q \in Nat /\ r \in 0 .. PGSIZE - 1 /\ va = PGSIZE * q + r
  BY <1>1, <1>3, DivMod
<1>5. PageAt(h, n) = PGSIZE * (q + n)
  <2>1. PageAt(h, n) = (va - r) + n * PGSIZE
    BY <1>3 DEF PageAt, va_start, DivBy
  <2>2. va - r = PGSIZE * q
    BY <1>1, <1>4
  <2>3. PGSIZE * q + n * PGSIZE = PGSIZE * (q + n)
    BY <1>1, <1>4
  <2> QED BY <2>1, <2>2, <2>3
<1>6. PGSIZE * (q + n) \in Nat /\ q + n \in Nat
  BY <1>1, <1>4
<1>7. (PGSIZE * (q + n) + 0) \div PGSIZE = q + n
  BY <1>1, <1>6, DivUnique
<1> QED
  BY <1>3, <1>5, <1>6, <1>7 DEF PageOf, DivBy

-----------------------------------------------------------------------------
(* The list of free environments: a set S of slots that contains the head  *)
(* h and is closed under env_link in the table t, and the list itself.     *)
Linked(h, t, S) ==
  /\ h # NULL => h \in S
  /\ \A e \in S : t[e].env_link # NULL => t[e].env_link \in S

Listed(h, t) ==
  {e \in Slots : \A S \in {R \in SUBSET Slots : Linked(h, t, R)} : e \in S}

(* The links among the environments F of the list lead to others of F,     *)
(* none back to the head and no two to the same one.                       *)
EnvShape(h, t, F) ==
  /\ h # NULL => h \in F
  /\ \A e \in F : t[e].env_link # NULL => t[e].env_link \in F /\ t[e].env_link # h
  /\ \A e, f \in F : t[e].env_link # NULL /\ t[e].env_link = t[f].env_link => e = f

EnvList(h, t, F) == F = Listed(h, t) /\ EnvShape(h, t, F)

(* What lies in every linked set is listed.                                *)
LEMMA InListed ==
  ASSUME NEW h, NEW t, NEW e \in Slots,
         \A S \in SUBSET Slots : Linked(h, t, S) => e \in S
  PROVE  e \in Listed(h, t)
BY DEF Listed

(* What is listed lies in every linked set.                                *)
LEMMA ListedIn ==
  ASSUME NEW h, NEW t, NEW S \in SUBSET Slots, Linked(h, t, S)
  PROVE  Listed(h, t) \subseteq S
BY DEF Listed

(* The links of t2 are those of t, but for the one of e.                   *)
OtherLinks(t, t2, e) == \A f \in Slots \ {e} : t2[f].env_link = t[f].env_link

(* env_alloc takes the head off the list.  The environment keeps its link. *)
LEMMA PopEnv ==
  ASSUME NEW h, NEW t, NEW t2, NEW F, EnvList(h, t, F), h # NULL,
         OtherLinks(t, t2, h)
  PROVE  EnvList(t[h].env_link, t2, F \ {h})
<1> DEFINE G == F \ {h}
           g == t[h].env_link
<1>1. F = Listed(h, t) /\ F \subseteq Slots /\ EnvShape(h, t, F) /\ h \in F
  BY DEF EnvList, EnvShape, Listed
<1>2. \A f \in G : t2[f].env_link = t[f].env_link
  BY <1>1 DEF OtherLinks
<1>4. EnvShape(g, t2, G)
  BY <1>1, <1>2 DEF EnvShape
<1>5. Listed(g, t2) \subseteq G
  <2>1. Linked(g, t2, G)
    BY <1>4 DEF Linked, EnvShape
  <2> QED BY <1>1, <2>1, ListedIn
<1>6. ASSUME NEW f \in G PROVE f \in Listed(g, t2)
  <2> SUFFICES ASSUME NEW S \in SUBSET Slots, Linked(g, t2, S) PROVE f \in S
    BY <1>1, InListed
  <2>1. Linked(h, t, (S \cap G) \cup {h})
    <3>1. \A e \in S \cap G : t[e].env_link # NULL => t[e].env_link \in S \cap G
      BY <1>1, <1>2, <1>4 DEF Linked, EnvShape
    <3>2. g # NULL => g \in S \cap G
      BY <1>4 DEF Linked, EnvShape
    <3> QED BY <3>1, <3>2 DEF Linked
  <2>2. Listed(h, t) \subseteq (S \cap G) \cup {h}
    BY <1>1, <2>1, ListedIn
  <2> QED BY <1>1, <2>2
<1> QED
  BY <1>4, <1>5, <1>6 DEF EnvList

(* env_free puts an environment on the list.                               *)
LEMMA PushEnv ==
  ASSUME NEW h, NEW t, NEW t2, NEW F, EnvList(h, t, F), NEW e \in Slots \ F,
         t2[e].env_link = h, OtherLinks(t, t2, e)
  PROVE  EnvList(e, t2, F \cup {e})
<1> DEFINE G == F \cup {e}
<1>1. F = Listed(h, t) /\ F \subseteq Slots /\ EnvShape(h, t, F)
  BY DEF EnvList, Listed
<1>2. \A f \in F : t2[f].env_link = t[f].env_link
  BY <1>1 DEF OtherLinks
<1>3. EnvShape(e, t2, G)
  BY <1>1, <1>2 DEF EnvShape
<1>n. e # NULL
  BY DEF Slots, NULL
<1>4. Listed(e, t2) \subseteq G
  <2>1. Linked(e, t2, G)
    BY <1>3 DEF Linked, EnvShape
  <2> QED BY <1>1, <2>1, ListedIn
<1>5. ASSUME NEW f \in G PROVE f \in Listed(e, t2)
  <2> SUFFICES ASSUME NEW S \in SUBSET Slots, Linked(e, t2, S) PROVE f \in S
    BY <1>1, InListed
  <2>1. e \in S
    BY <1>n DEF Linked
  <2>2. Linked(h, t, S \cap F)
    <3>1. \A x \in S \cap F : t[x].env_link # NULL => t[x].env_link \in S \cap F
      BY <1>1, <1>2 DEF Linked, EnvShape
    <3>2. h # NULL => h \in S \cap F
      BY <1>1, <2>1 DEF Linked, EnvShape
    <3> QED BY <3>1, <3>2 DEF Linked
  <2>3. Listed(h, t) \subseteq S \cap F
    BY <2>2, ListedIn
  <2> QED BY <1>1, <2>1, <2>3
<1> QED
  BY <1>3, <1>4, <1>5 DEF EnvList

(* The list depends on its head and on the links only.                     *)
SameLinks(t, t2) == \A e \in Slots : t2[e].env_link = t[e].env_link

(* The list stays when no env_link changes.                                *)
LEMMA SameEnvList ==
  ASSUME NEW h, NEW t, NEW t2, NEW F, EnvList(h, t, F), SameLinks(t, t2)
  PROVE  EnvList(h, t2, F)
<1>1. \A S \in SUBSET Slots : Linked(h, t2, S) <=> Linked(h, t, S)
  BY DEF Linked, SameLinks
<1>2. Listed(h, t2) = Listed(h, t)
  BY <1>1 DEF Listed
<1>3. F \subseteq Slots
  BY DEF EnvList, Listed
<1> QED
  BY <1>2, <1>3 DEF EnvList, EnvShape, SameLinks

(* env_init chains the whole table.                                        *)
InOrder(t) == \A e \in Slots : t[e].env_link = IF e + 1 = NENV THEN NULL ELSE e + 1

(* env_init chains all of envs[].                                          *)
LEMMA InitEnvList ==
  ASSUME NEW t, InOrder(t)
  PROVE  EnvList(0, t, Slots)
<1>1. NENV \in Nat /\ 0 < NENV /\ 0 \in Slots /\ Slots \subseteq Nat /\ NULL \notin Slots
  BY EnvAssumption DEF Slots, NULL
<1>2. \A e \in Slots : t[e].env_link # NULL => t[e].env_link = e + 1 /\ e + 1 \in Slots
  BY EnvAssumption DEF InOrder, Slots
<1>3. EnvShape(0, t, Slots)
  BY <1>1, <1>2 DEF EnvShape
<1>4. ASSUME NEW S \in SUBSET Slots, Linked(0, t, S) PROVE Slots \subseteq S
  <2>1. SUFFICES ASSUME Slots \ S # {} PROVE FALSE
    BY <2>1
  <2>2. PICK n \in Slots \ S : \A x \in Slots \ S : n <= x
    <3>1. Slots \ S \in SUBSET Nat
      BY <1>1
    <3> QED BY <2>1, <3>1, Least
  <2>3. n # 0
    BY <1>4, <1>1 DEF Linked
  <2>4. n - 1 \in Slots /\ n \in Slots /\ n \in Nat
    BY <1>1, <2>3 DEF Slots
  <2>5. n - 1 \in S
    BY <2>2, <2>4
  <2>6. t[n - 1].env_link = n
    BY <1>1, <2>4 DEF InOrder, Slots
  <2> QED BY <1>1, <1>4, <2>2, <2>4, <2>5, <2>6 DEF Linked
<1>5. Listed(0, t) = Slots
  BY <1>4 DEF Listed
<1> QED
  BY <1>3, <1>5 DEF EnvList

-----------------------------------------------------------------------------
(* The env_id's.                                                           *)

(* A multiple of n that is below another is below it by n.                 *)
LEMMA MultipleGap ==
  ASSUME NEW n \in Nat \ {0}, NEW a \in Nat, NEW b \in Nat, n * a < n * b
  PROVE  n * a + n <= n * b
<1>1. a < b
  <2>1. SUFFICES ASSUME b <= a PROVE FALSE
    BY <2>1
  <2>2. n * b <= n * a
    BY <2>1
  <2> QED BY <2>2
<1>2. a + 1 <= b
  BY <1>1
<1>3. n * (a + 1) <= n * b
  BY <1>2
<1>4. n * (a + 1) = n * a + n
  OBVIOUS
<1> QED BY <1>3, <1>4

(* What EnvAssumption says of the widths of an env_id.                     *)
LEMMA IdWidths ==
  \E gq, lq \in Nat :
    /\ NENV \in Nat \ {0} /\ GEN \in Nat /\ IDLIMIT \in Nat
    /\ GEN = NENV * gq /\ IDLIMIT = NENV * lq /\ NENV <= GEN /\ 2 * GEN < IDLIMIT
<1>1. /\ NENV \in Nat \ {0} /\ GEN \in Nat \ {0} /\ IDLIMIT \in Nat /\ 2 * GEN < IDLIMIT
      /\ GEN % NENV = 0 /\ IDLIMIT % GEN = 0
  BY EnvAssumption
<1>2. PICK gq, gr : DivBy(GEN, NENV, gq, gr)
  BY DEF DivBy
<1>3. PICK lq, lr : DivBy(IDLIMIT, GEN, lq, lr)
  BY DEF DivBy
<1>4. gr = 0 /\ lr = 0
  BY <1>1, <1>2, <1>3 DEF DivBy
<1>5. gq \in Nat /\ GEN = NENV * gq + 0
  BY <1>1, <1>2, <1>4, DivMod
<1>6. lq \in Nat /\ IDLIMIT = GEN * lq + 0
  BY <1>1, <1>3, <1>4, DivMod
<1>7. gq # 0
  BY <1>1, <1>5
<1>8. NENV <= NENV * gq
  BY <1>1, <1>5, <1>7
<1>9. IDLIMIT = NENV * (gq * lq) /\ gq * lq \in Nat
  BY <1>1, <1>5, <1>6
<1>10. GEN = NENV * gq /\ NENV <= GEN
  BY <1>1, <1>5, <1>8
<1> HIDE DEF DivBy
<1> QED
  BY <1>1, <1>5, <1>9, <1>10

(* The new env_id is positive, fits, and belongs to the slot; it is not    *)
(* the one before.                                                         *)
LEMMA NewId ==
  ASSUME NEW e \in Slots, NEW id \in 0 .. IDLIMIT - 1, id # 0 => id % NENV = e
  PROVE  /\ next_env_id(id, e) \in 1 .. IDLIMIT - 1
         /\ next_env_id(id, e) % NENV = e
         /\ next_env_id(id, e) # id
<1>1. PICK gq, lq \in Nat :
        /\ NENV \in Nat \ {0} /\ GEN \in Nat /\ IDLIMIT \in Nat
        /\ GEN = NENV * gq /\ IDLIMIT = NENV * lq /\ NENV <= GEN /\ 2 * GEN < IDLIMIT
  BY IdWidths
<1>2. e \in Nat /\ e < NENV /\ id \in Nat /\ id < IDLIMIT /\ id + GEN \in Nat
  BY <1>1 DEF Slots
<1>3. PICK q, r : DivBy(id + GEN, NENV, q, r)
  BY DEF DivBy
<1>4. q \in Nat /\ r \in 0 .. NENV - 1 /\ id + GEN = NENV * q + r
  BY <1>1, <1>2, <1>3, DivMod
<1>5. PICK g : g = NENV * q
  OBVIOUS
<1>6. g \in Nat /\ g = (id + GEN) - r
  BY <1>1, <1>2, <1>4, <1>5
<1>7. next_env_id(id, e) = (IF g >= IDLIMIT THEN GEN ELSE g) + e
  BY <1>3, <1>6 DEF next_env_id, DivBy
<1>8. PICK new : new = next_env_id(id, e)
  OBVIOUS
<1>9. id # 0 => r = e
  <2>1. SUFFICES ASSUME id # 0 PROVE r = e
    OBVIOUS
  <2>2. PICK p, x : DivBy(id, NENV, p, x)
    BY DEF DivBy
  <2>3. x = e
    BY <2>1, <2>2 DEF DivBy
  <2>4. p \in Nat /\ id = NENV * p + e
    BY <1>1, <1>2, <2>2, <2>3, DivMod
  <2>5. p + gq \in Nat /\ id + GEN = NENV * (p + gq) + e
    BY <1>1, <1>2, <2>4
  <2>6. (NENV * (p + gq) + e) % NENV = e
    BY <1>1, <1>2, <2>5, DivUnique
  <2> QED BY <1>3, <2>5, <2>6 DEF DivBy
<1>10. CASE g >= IDLIMIT
  <2>1. new = GEN + e
    BY <1>7, <1>8, <1>10
  <2>2. new = NENV * gq + e
    BY <1>1, <2>1
  <2>3. new % NENV = e
    BY <1>1, <1>2, <2>2, DivUnique
  <2>4. new \in 1 .. IDLIMIT - 1
    BY <1>1, <1>2, <2>1
  <2>5. new # id
    <3>1. SUFFICES ASSUME id = GEN + e PROVE FALSE
      BY <2>1
    <3>2. r = e
      BY <1>1, <1>2, <1>9, <3>1
    <3>3. g = GEN + GEN
      BY <1>1, <1>2, <1>6, <3>1, <3>2
    <3> QED BY <1>1, <1>10, <3>3
  <2> QED BY <1>8, <2>3, <2>4, <2>5
<1>11. CASE g < IDLIMIT
  <2>1. new = g + e
    BY <1>1, <1>6, <1>7, <1>8, <1>11
  <2>2. new % NENV = e
    BY <1>1, <1>2, <1>4, <1>5, <2>1, DivUnique
  <2>3. g + NENV <= IDLIMIT
    BY <1>1, <1>4, <1>5, <1>11, MultipleGap
  <2>4. g > 0
    BY <1>1, <1>2, <1>4, <1>6
  <2>5. new \in 1 .. IDLIMIT - 1
    BY <1>1, <1>2, <1>6, <2>1, <2>3, <2>4
  <2>6. new # id
    <3>1. CASE id = 0
      BY <2>5, <3>1
    <3>2. CASE id # 0
      BY <1>1, <1>2, <1>6, <1>9, <2>1, <3>2
    <3> QED BY <3>1, <3>2
  <2> QED BY <1>8, <2>2, <2>5, <2>6
<1> QED
  BY <1>1, <1>6, <1>10, <1>11

-----------------------------------------------------------------------------
(* Where the pages of a region lie.                                        *)

(* The pages that region_alloc maps start below the end of the region.     *)
LEMMA AllocBelow ==
  ASSUME NEW h, NEW va \in Nat, NEW sz \in Nat, h.va = va, h.memsz = sz,
         NEW n \in Nat, n < pgnum(h)
  PROVE  PageAt(h, n) \in Nat /\ PageAt(h, n) < va + sz
<1>1. PGSIZE \in Nat \ {0}
  BY EnvAssumption
<1>2. PICK q, r : DivBy(sz + PGSIZE - 1, PGSIZE, q, r)
  BY DEF DivBy
<1>0. sz + PGSIZE - 1 \in Nat
  BY <1>1
<1>3. q \in Nat /\ r \in 0 .. PGSIZE - 1 /\ sz + PGSIZE - 1 = PGSIZE * q + r
  BY <1>0, <1>1, <1>2, DivMod
<1>4. pgnum(h) = (PGSIZE * q + 0) \div PGSIZE
  <2>1. ROUNDUP(sz) = q * PGSIZE
    BY <1>2 DEF ROUNDUP, DivBy
  <2>2. q * PGSIZE = PGSIZE * q + 0
    BY <1>1, <1>3
  <2> QED BY <2>1, <2>2 DEF pgnum
<1>5. pgnum(h) = q
  BY <1>1, <1>3, <1>4, DivUnique
<1>6. n + 1 <= q
  BY <1>3, <1>5
<1>7. PGSIZE * (n + 1) <= PGSIZE * q
  BY <1>1, <1>3, <1>6
<1>8. PGSIZE * (n + 1) = PGSIZE * n + PGSIZE
  BY <1>1
<1>9. PGSIZE * n < sz
  <2>1. PICK x, y : x = PGSIZE * n /\ y = PGSIZE * q
    OBVIOUS
  <2>2. x \in Nat /\ y \in Nat
    BY <1>1, <1>3, <2>1
  <2> QED BY <1>1, <1>3, <1>7, <1>8, <2>1, <2>2
<1>10. PICK p, x : DivBy(va, PGSIZE, p, x)
  BY DEF DivBy
<1>11. p \in Nat /\ x \in 0 .. PGSIZE - 1 /\ va = PGSIZE * p + x
  BY <1>1, <1>10, DivMod
<1>12. PageAt(h, n) \in Nat /\ PageAt(h, n) = PGSIZE * (p + n)
  BY <1>10, PageAtFacts DEF PageOf, DivBy
<1>13. PGSIZE * (p + n) = PGSIZE * p + PGSIZE * n
  BY <1>1, <1>11
<1>14. PICK y, z : y = PGSIZE * n /\ z = PGSIZE * p
  OBVIOUS
<1>15. y \in Nat /\ z \in Nat
  BY <1>1, <1>11, <1>14
<1> QED
  BY <1>9, <1>11, <1>12, <1>13, <1>14, <1>15

(* The pages that the bytes of a region lie in do, too.                    *)
LEMMA TouchedBelow ==
  ASSUME NEW h, NEW va \in Nat, NEW sz \in Nat, h.va = va, h.memsz = sz,
         NEW n \in Nat, n < touched(h)
  PROVE  PageAt(h, n) \in Nat /\ PageAt(h, n) < va + sz
<1>1. PGSIZE \in Nat \ {0}
  BY EnvAssumption
<1>2. sz # 0
  BY DEF touched
<1>3. PICK b : b = va + sz - 1
  OBVIOUS
<1>4. b \in Nat /\ b < va + sz
  BY <1>2, <1>3
<1>5. PICK q, r : DivBy(b, PGSIZE, q, r)
  BY DEF DivBy
<1>6. q \in Nat /\ r \in 0 .. PGSIZE - 1 /\ b = PGSIZE * q + r
  BY <1>1, <1>4, <1>5, DivMod
<1>7. PICK p : p = PageOf(va)
  OBVIOUS
<1>8. p \in Nat
  BY <1>1, <1>7 DEF PageOf
<1>9. touched(h) = q - p + 1
  BY <1>2, <1>3, <1>5, <1>7 DEF touched, PageOf, DivBy
<1>10. p + n <= q
  BY <1>6, <1>8, <1>9
<1>11. PGSIZE * (p + n) <= PGSIZE * q
  BY <1>1, <1>6, <1>8, <1>10
<1>12. PageAt(h, n) \in Nat /\ PageAt(h, n) = PGSIZE * (p + n)
  BY <1>7, PageAtFacts
<1>13. PICK y : y = PGSIZE * q
  OBVIOUS
<1>14. y \in Nat
  BY <1>1, <1>6, <1>13
<1> QED
  BY <1>4, <1>6, <1>11, <1>12, <1>13, <1>14

(* Every byte of a region lies in one of them.                             *)
InPage(h, a) ==
  \E n \in Nat : n < touched(h) /\ PDX(a) = PDX(PageAt(h, n)) /\ PTX(a) = PTX(PageAt(h, n))

(* A byte of a region lies in one of the pages it touches.                 *)
LEMMA BytePage ==
  ASSUME NEW h, NEW va \in Nat, NEW sz \in Nat, h.va = va, h.memsz = sz,
         NEW b \in Nat, b < sz
  PROVE  InPage(h, va + b)
<1>1. PGSIZE \in Nat \ {0}
  BY EnvAssumption
<1>2. PICK p, c, q : p = PageOf(va) /\ c = PageOf(va + b) /\ q = PageOf(va + sz - 1)
  OBVIOUS
<1>3. p \in Nat /\ c \in Nat /\ q \in Nat
  BY <1>1, <1>2 DEF PageOf
<1>4. p <= c
  BY <1>1, <1>2, DivMono DEF PageOf
<1>5. c <= q
  <2>1. va + b \in Nat /\ va + sz - 1 \in Nat /\ va + b <= va + sz - 1
    OBVIOUS
  <2> QED BY <1>1, <1>2, <2>1, DivMono DEF PageOf
<1>6. touched(h) = q - p + 1
  BY <1>2 DEF touched
<1>7. PICK n : n = c - p
  OBVIOUS
<1>8. n \in Nat /\ n < touched(h) /\ p + n = c
  BY <1>3, <1>4, <1>5, <1>6, <1>7
<1>9. PageOf(PageAt(h, n)) = PageOf(va + b)
  BY <1>2, <1>8, PageAtFacts
<1> QED
  BY <1>8, <1>9 DEF PDX, PTX, InPage

-----------------------------------------------------------------------------
(* What env.c adds to the roles of the pages: mem_init of this model maps  *)
(* nothing in the kernel part; a page is mapped at one address of one      *)
(* environment, and always with PTE_W and PTE_U.                           *)
NoKernTabs(s) == \A i \in KernIdx : ~s.mem[KERN_PGDIR][i].p

MappedOnce(s, D) ==
  \A d, e \in D, i, l \in UserPdx, j, n \in Ents :
    /\ Walk(s, d, i, j).p /\ Walk(s, e, l, n).p
    /\ Walk(s, d, i, j).pa = Walk(s, e, l, n).pa
    => d = e /\ i = l /\ j = n

AllRWU(s, D) ==
  \A d \in D, i \in UserPdx, j \in Ents :
    Walk(s, d, i, j).p => Walk(s, d, i, j).perm = RWU

EnvVm(s, D, H) ==
  Vm(s, D, H) /\ NoKernTabs(s) /\ MappedOnce(s, D) /\ AllRWU(s, D)

(* Steps that leave the user part alone.                                   *)
KernSame(s, s2) == \A i \in KernIdx : s2.mem[KERN_PGDIR][i] = s.mem[KERN_PGDIR][i]

(* Steps on the user part of the directories keep the kernel part.         *)
LEMMA KernKept ==
  ASSUME NEW s, NEW s2, NEW D, NEW H, Vm(s, D, H)
  PROVE  /\ SameDirs(s, s2, D) => KernSame(s, s2)
         /\ \A d, i : d # KERN_PGDIR /\ SamePdes(s, s2, D, d, i) => KernSame(s, s2)
<1>1. KERN_PGDIR \in D
  BY VmFacts
<1>2. KernIdx \subseteq Ents
  BY LayoutFacts
<1> QED
  BY <1>1, <1>2 DEF SameDirs, SamePdes, KernSame

(* What env.c adds stays when the translations of the user part do.        *)
LEMMA SameEnvVm ==
  ASSUME NEW s, NEW s2, NEW D, NEW H, EnvVm(s, D, H), NEW H2, Vm(s2, D, H2),
         UserSame(s, s2, D), KernSame(s, s2)
  PROVE  EnvVm(s2, D, H2)
<1>1. NoKernTabs(s2)
  BY DEF EnvVm, NoKernTabs, KernSame
<1>2. MappedOnce(s2, D)
  BY DEF EnvVm, MappedOnce, UserSame
<1>3. AllRWU(s2, D)
  BY DEF EnvVm, AllRWU, UserSame
<1> QED
  BY <1>1, <1>2, <1>3 DEF EnvVm

(* A held page is mapped nowhere.                                          *)
LEMMA HeldUnmapped ==
  ASSUME NEW s, NEW D, NEW H, Vm(s, D, H), NEW h \in H,
         NEW d \in D, NEW i \in UserPdx, NEW j \in Ents, Walk(s, d, i, j).p
  PROVE  Walk(s, d, i, j).pa # h
<1>1. PICK role \in [Managed -> Roles] : VmInv(s, D, H, role)
  BY DEF Vm
<1>2. role[h] = "held"
  BY <1>1 DEF VmInv, HeldPart
<1>3. role[Walk(s, d, i, j).pa] = "page"
  BY <1>1 DEF VmInv, PagePart
<1> QED
  BY <1>2, <1>3

(* One translation changes, to none.                                       *)
LEMMA RemoveEnvVm ==
  ASSUME NEW s, NEW s2, NEW D, NEW H, EnvVm(s, D, H), Vm(s2, D, H),
         NEW d \in D, NEW i \in UserPdx, NEW j \in Ents, OnlyAt(s, s2, D, d, i, j),
         Walk(s2, d, i, j) = ZeroPTE, KernSame(s, s2)
  PROVE  EnvVm(s2, D, H)
<1>0. \A e \in D, k1 \in UserPdx, l \in Ents : Walk(s2, e, k1, l).p =>
        Walk(s2, e, k1, l) = Walk(s, e, k1, l)
  <2>1. ~Walk(s2, d, i, j).p
    BY DEF ZeroPTE
  <2> QED BY <2>1 DEF OnlyAt
<1>1. NoKernTabs(s2)
  BY DEF EnvVm, NoKernTabs, KernSame
<1>2. MappedOnce(s2, D)
  BY <1>0 DEF EnvVm, MappedOnce
<1>3. AllRWU(s2, D)
  BY <1>0 DEF EnvVm, AllRWU
<1> QED
  BY <1>1, <1>2, <1>3 DEF EnvVm

(* One translation changes, to a page that was held.                       *)
LEMMA InsertEnvVm ==
  ASSUME NEW s, NEW s2, NEW D, NEW H, EnvVm(s, D, H), NEW pp \in H, Vm(s2, D, H \ {pp}),
         NEW d \in D, NEW i \in UserPdx, NEW j \in Ents, OnlyAt(s, s2, D, d, i, j),
         MapsTo(s2, d, i, j, pp, RWU), KernSame(s, s2)
  PROVE  EnvVm(s2, D, H \ {pp})
<1>v. Vm(s, D, H)
  BY DEF EnvVm
<1>0. \A e \in D, k1 \in UserPdx, l \in Ents :
        <<e, k1, l>> = <<d, i, j>> \/ Walk(s2, e, k1, l) = Walk(s, e, k1, l)
  BY DEF OnlyAt
<1>p. \A e \in D, k1 \in UserPdx, l \in Ents : Walk(s, e, k1, l).p => Walk(s, e, k1, l).pa # pp
  BY <1>v, HeldUnmapped
<1>m. Walk(s2, d, i, j).p /\ Walk(s2, d, i, j).pa = pp /\ Walk(s2, d, i, j).perm = RWU
  BY DEF MapsTo, MkPTE
<1>1. NoKernTabs(s2)
  BY DEF EnvVm, NoKernTabs, KernSame
<1>2. MappedOnce(s2, D)
  <2> SUFFICES ASSUME NEW d1 \in D, NEW d2 \in D, NEW i1 \in UserPdx, NEW i2 \in UserPdx,
                      NEW j1 \in Ents, NEW j2 \in Ents,
                      Walk(s2, d1, i1, j1).p, Walk(s2, d2, i2, j2).p,
                      Walk(s2, d1, i1, j1).pa = Walk(s2, d2, i2, j2).pa
               PROVE  d1 = d2 /\ i1 = i2 /\ j1 = j2
    BY DEF MappedOnce
  <2>1. CASE <<d1, i1, j1>> = <<d, i, j>>
    <3>1. Walk(s2, d2, i2, j2).pa = pp
      BY <1>m, <2>1
    <3>2. <<d2, i2, j2>> = <<d, i, j>>
      BY <1>0, <1>p, <3>1
    <3> QED BY <2>1, <3>2
  <2>2. CASE <<d1, i1, j1>> # <<d, i, j>>
    <3>1. Walk(s2, d1, i1, j1) = Walk(s, d1, i1, j1)
      BY <1>0, <2>2
    <3>2. Walk(s2, d2, i2, j2).pa # pp
      BY <1>p, <3>1
    <3>3. <<d2, i2, j2>> # <<d, i, j>>
      BY <1>m, <3>2
    <3>4. Walk(s2, d2, i2, j2) = Walk(s, d2, i2, j2)
      BY <1>0, <3>3
    <3> QED BY <3>1, <3>4 DEF EnvVm, MappedOnce
  <2> QED BY <2>1, <2>2
<1>3. AllRWU(s2, D)
  <2> SUFFICES ASSUME NEW e \in D, NEW i1 \in UserPdx, NEW j1 \in Ents, Walk(s2, e, i1, j1).p
               PROVE  Walk(s2, e, i1, j1).perm = RWU
    BY DEF AllRWU
  <2>1. CASE <<e, i1, j1>> = <<d, i, j>>
    BY <1>m, <2>1
  <2>2. CASE <<e, i1, j1>> # <<d, i, j>>
    BY <1>0, <2>2 DEF EnvVm, AllRWU
  <2> QED BY <2>1, <2>2
<1> QED
  BY <1>1, <1>2, <1>3 DEF EnvVm

(* A directory comes, that maps nothing for the user, or one goes.         *)
LEMMA NewDirEnvVm ==
  ASSUME NEW s, NEW s2, NEW D, NEW H, EnvVm(s, D, H), NEW h, Vm(s2, D \cup {h}, H),
         UserSame(s, s2, D), NoUserPart(s2, h), KernSame(s, s2)
  PROVE  EnvVm(s2, D \cup {h}, H)
<1>0. \A i \in UserPdx, j \in Ents : ~Walk(s2, h, i, j).p
  BY DEF NoUserPart, Walk, ZeroPTE
<1>1. NoKernTabs(s2)
  BY DEF EnvVm, NoKernTabs, KernSame
<1>4. \A e \in D \cup {h}, i \in UserPdx, j \in Ents : Walk(s2, e, i, j).p =>
         e \in D /\ Walk(s2, e, i, j) = Walk(s, e, i, j)
  BY <1>0 DEF UserSame
<1>2. MappedOnce(s2, D \cup {h})
  BY <1>4 DEF EnvVm, MappedOnce
<1>3. AllRWU(s2, D \cup {h})
  BY <1>4 DEF EnvVm, AllRWU
<1> QED
  BY <1>1, <1>2, <1>3 DEF EnvVm

(* A directory goes.                                                       *)
LEMMA DropDirEnvVm ==
  ASSUME NEW s, NEW s2, NEW D, NEW H, EnvVm(s, D, H), NEW d, Vm(s2, D \ {d}, H),
         s2.mem = s.mem
  PROVE  EnvVm(s2, D \ {d}, H)
<1>0. \A e, i, j : Walk(s2, e, i, j) = Walk(s, e, i, j)
  BY DEF Walk
<1>1. NoKernTabs(s2)
  BY DEF EnvVm, NoKernTabs
<1>2. MappedOnce(s2, D \ {d})
  BY <1>0 DEF EnvVm, MappedOnce
<1>3. AllRWU(s2, D \ {d})
  BY <1>0 DEF EnvVm, AllRWU
<1> QED
  BY <1>1, <1>2, <1>3 DEF EnvVm

-----------------------------------------------------------------------------
(* The invariant, in parts.                                                *)
LoadOps == {"start", "alloc", "insert", "copy", "done"}
Reasons == {"none", "no_free_env", "no_mem", "not_elf", "filesz", "kernel_fault",
            "elsewhere"}

KType ==
  [op : Ops, e : Slots \cup {NULL}, prog : Program, seg : Nat, n : Nat,
   pp : Frames \cup {NULL}, pdeno : -1 .. UTOPX, pteno : 0 .. NENT,
   next : {"idle", "monitor"}, why : Reasons]

EnvType ==
  [env_id : 0 .. IDLIMIT - 1, env_status : Status,
   env_pgdir : Frames \cup {NULL}, env_link : Slots \cup {NULL}]

TypePart ==
  /\ envs \in [Slots -> EnvType]
  /\ env_free_list \in Slots \cup {NULL}
  /\ curenv \in Slots \cup {NULL}
  /\ k \in KType

(* The directories of the table t, its free slots, the page in hand.       *)
DirsOf(t) == {KERN_PGDIR} \cup ({t[e].env_pgdir : e \in Slots} \ {NULL})
FreeSlots(t) == {e \in Slots : t[e].env_status = "FREE"}
HeldOf(pp) == IF pp = NULL THEN {} ELSE {pp}

(* Each live environment has a page directory of its own.                  *)
OwnPart(t) ==
  /\ \A e \in Slots : t[e].env_pgdir = NULL <=> t[e].env_status = "FREE"
  /\ \A e \in Slots : t[e].env_pgdir # KERN_PGDIR
  /\ \A e, f \in Slots : t[e].env_pgdir = t[f].env_pgdir /\ t[e].env_pgdir # NULL => e = f

IdPart(t) ==
  \A e \in Slots : /\ t[e].env_id # 0 => t[e].env_id % NENV = e
                   /\ t[e].env_status # "FREE" => t[e].env_id # 0

ListPart == k.op # "boot" => EnvList(env_free_list, envs, FreeSlots(envs))

BootPart ==
  /\ k.op = "boot" <=> m.cr3 = NULL
  /\ k.op = "boot" => FreeSlots(envs) = Slots

WorkPart ==
  /\ k.op \in LoadOps \cup {"free"} => k.e \in Slots \ FreeSlots(envs)
  /\ k.op \in LoadOps => k.prog \in Programs
  /\ k.op = "start" => k.n = 0
  /\ k.pp # NULL => k.op \in {"insert", "panic"}

(* Which directory is in force: that of the environment curenv, or the     *)
(* kernel's, unless load_icode has loaded another one.                     *)
RunPart(cr3, t, c, op) ==
  /\ \A e \in Slots : t[e].env_status = "RUNNING" => e = c
  /\ op = "user" => c # NULL /\ t[c].env_status = "RUNNING" /\ cr3 = t[c].env_pgdir
  /\ op \in {"idle", "free", "start"} =>
       cr3 = KERN_PGDIR \/ (c # NULL /\ cr3 = t[c].env_pgdir)

(* Where load_icode is in the regions of prog, with the pages of the       *)
(* regions behind it mapped in d: those that copying has touched, since    *)
(* region_alloc may leave some out and copying faults on them.             *)
Stack == [load |-> TRUE, va |-> USTACKTOP - PGSIZE, filesz |-> 0, memsz |-> PGSIZE]
RegionOf(prog, seg) == IF seg = Len(prog.ph) + 1 THEN Stack ELSE prog.ph[seg]

Present(s, d, va) ==
  PDX(va) \in UserPdx /\ PTX(va) \in Ents /\ Walk(s, d, PDX(va), PTX(va)).p
PagesIn(s, d, h, n) == \A l \in Nat : l < n => Present(s, d, PageAt(h, l))

Behind(s, d, prog, seg) ==
  \A x \in 1 .. Len(prog.ph) :
    x < seg /\ prog.ph[x].load => PagesIn(s, d, prog.ph[x], touched(prog.ph[x]))

LoadAt(s, d, op, prog, seg, n, pp) ==
  LET h == RegionOf(prog, seg)
      onStack == seg = Len(prog.ph) + 1
  IN  /\ s.cr3 = d
      /\ seg \in 1 .. Len(prog.ph) + 1
      /\ Behind(s, d, prog, seg)
      /\ op = "alloc" => n = 0 \/ h.load
      /\ op = "insert" => pp # NULL /\ n < pgnum(h) /\ h.load
      /\ op = "copy" => ~onStack /\ n <= touched(h) /\ PagesIn(s, d, h, n)
      /\ op \in {"alloc", "insert"} /\ onStack => PagesIn(s, d, h, n)
      /\ op = "done" => onStack /\ PagesIn(s, d, h, 1)

LoadPart ==
  k.op \in LoadOps \ {"start"} =>
    LoadAt(m, envs[k.e].env_pgdir, k.op, k.prog, k.seg, k.n, k.pp)

(* Where env_free is: the directory d is not in force, the entries it has  *)
(* passed are clear.                                                       *)
FreeAt(s, d, pdeno, pteno) ==
  /\ pdeno >= 0 => s.cr3 # d
  /\ \A i \in UserPdx : i < pdeno => ~s.mem[d][i].p
  /\ pteno > 0 => pdeno \in UserPdx /\ s.mem[d][pdeno].p
  /\ \A j \in Ents : j < pteno => ~Walk(s, d, pdeno, j).p

FreePos == k.op = "free" => FreeAt(m, envs[k.e].env_pgdir, k.pdeno, k.pteno)

EnvInv ==
  /\ TypePart
  /\ EnvVm(m, DirsOf(envs), HeldOf(k.pp))
  /\ OwnPart(envs) /\ IdPart(envs) /\ ListPart
  /\ BootPart /\ WorkPart
  /\ RunPart(m.cr3, envs, curenv, k.op)
  /\ LoadPart /\ FreePos

-----------------------------------------------------------------------------
(* The records that k is set to.                                           *)
LEMMA IdleType ==
  /\ Idle \in KType /\ Idle.op = "idle" /\ Idle.pp = NULL
  /\ \A r \in Reasons : /\ Panic(r) \in KType /\ Panic(r).op = "panic" /\ Panic(r).pp = NULL
<1>1. [elf |-> FALSE, ph |-> << >>] \in Program
  BY DEF Program
<1>2. UTOPX \in Nat /\ NENT \in Nat
  BY PhysAssumption, LayoutAssumption
<1>3. Idle \in KType
  BY <1>1, <1>2 DEF Idle, KType, Ops, Reasons
<1>4. Idle.op = "idle" /\ Idle.pp = NULL
  BY DEF Idle
<1>5. ASSUME NEW r \in Reasons
      PROVE  Panic(r) \in KType /\ Panic(r).op = "panic" /\ Panic(r).pp = NULL
  <2>1. Panic(r) = [Idle EXCEPT !.op = "panic", !.why = r]
    BY DEF Panic
  <2>2. Panic(r) \in KType
    BY <1>3, <2>1 DEF KType, Ops
  <2>3. Panic(r).op = "panic" /\ Panic(r).pp = NULL
    BY <1>3, <1>4, <2>1 DEF KType
  <2> QED BY <2>2, <2>3
<1> QED
  BY <1>3, <1>4, <1>5

(* What the invariant says of the machine.                                 *)
LEMMA InvFacts ==
  ASSUME EnvInv
  PROVE  /\ Vm(m, DirsOf(envs), HeldOf(k.pp))
         /\ m \in Machine /\ m.panic = FALSE
         /\ DirsOf(envs) \subseteq Frames /\ KERN_PGDIR \in DirsOf(envs)
         /\ \A e \in Slots \ FreeSlots(envs) :
              /\ envs[e].env_pgdir \in DirsOf(envs) /\ envs[e].env_pgdir # KERN_PGDIR
              /\ envs[e].env_pgdir # NULL
<1>1. Vm(m, DirsOf(envs), HeldOf(k.pp))
  BY DEF EnvInv, EnvVm
<1>2. /\ m \in Machine /\ m.panic = FALSE
      /\ DirsOf(envs) \subseteq Frames /\ KERN_PGDIR \in DirsOf(envs)
  BY <1>1, VmFacts
<1>3. \A e \in Slots \ FreeSlots(envs) :
        /\ envs[e].env_pgdir \in DirsOf(envs) /\ envs[e].env_pgdir # KERN_PGDIR
        /\ envs[e].env_pgdir # NULL
  BY DEF EnvInv, OwnPart, FreeSlots, DirsOf
<1> QED BY <1>1, <1>2, <1>3

(* Steps that change neither the table nor curenv, by where they end.      *)
Quiet == envs' = envs /\ env_free_list' = env_free_list /\ curenv' = curenv

(* What a step that leaves the table, the list and curenv alone keeps.     *)
LEMMA QuietFacts ==
  ASSUME EnvInv, Quiet, k.op # "boot", k' \in KType, k'.op # "boot", m'.cr3 # NULL
  PROVE  TypePart' /\ ListPart' /\ BootPart' /\ OwnPart(envs') /\ IdPart(envs')
<1>1. TypePart'
  BY DEF EnvInv, TypePart, Quiet
<1>2. ListPart'
  BY DEF EnvInv, ListPart, Quiet
<1>3. BootPart'
  BY DEF EnvInv, BootPart, Quiet
<1>4. OwnPart(envs') /\ IdPart(envs')
  BY DEF EnvInv, Quiet
<1> QED BY <1>1, <1>2, <1>3, <1>4

(* Such a step ends between two calls, in user mode, or for ever.          *)
LEMMA EndsAtRest ==
  ASSUME EnvInv, Quiet, k.op # "boot", k' \in KType,
         k'.op \in {"idle", "user", "panic", "monitor"}, k'.pp # NULL => k'.op = "panic",
         m'.cr3 # NULL, EnvVm(m', DirsOf(envs), HeldOf(k'.pp)),
         RunPart(m'.cr3, envs, curenv, k'.op)
  PROVE  EnvInv'
<1>1. TypePart' /\ ListPart' /\ BootPart' /\ OwnPart(envs') /\ IdPart(envs')
  BY QuietFacts
<1>2. WorkPart' /\ LoadPart' /\ FreePos'
  BY DEF WorkPart, LoadPart, FreePos, LoadOps
<1>3. EnvVm(m', DirsOf(envs'), HeldOf(k'.pp)) /\ RunPart(m'.cr3, envs', curenv', k'.op)
  BY DEF Quiet
<1> QED
  BY <1>1, <1>2, <1>3 DEF EnvInv

(* Such a step ends within load_icode.                                     *)
LEMMA EndsLoading ==
  ASSUME EnvInv, Quiet, k.op \in LoadOps, k' \in KType, k'.op \in LoadOps \ {"start"},
         k'.e = k.e, k'.prog = k.prog, k'.pp # NULL => k'.op = "insert",
         EnvVm(m', DirsOf(envs), HeldOf(k'.pp)),
         LoadAt(m', envs[k.e].env_pgdir, k'.op, k'.prog, k'.seg, k'.n, k'.pp)
  PROVE  EnvInv'
<1>0. k.e \in Slots \ FreeSlots(envs) /\ k.prog \in Programs
  BY DEF EnvInv, WorkPart
<1>c. m'.cr3 # NULL
  BY <1>0, InvFacts DEF LoadAt
<1>1. TypePart' /\ ListPart' /\ BootPart' /\ OwnPart(envs') /\ IdPart(envs')
  BY <1>c, QuietFacts DEF LoadOps
<1>2. WorkPart' /\ LoadPart' /\ FreePos'
  BY <1>0 DEF WorkPart, LoadPart, FreePos, LoadOps, Quiet
<1>3. EnvVm(m', DirsOf(envs'), HeldOf(k'.pp))
  BY DEF Quiet
<1>4. RunPart(m'.cr3, envs', curenv', k'.op)
  BY DEF Quiet, RunPart, EnvInv, LoadOps
<1> QED
  BY <1>1, <1>2, <1>3, <1>4 DEF EnvInv

(* Such a step ends within env_free.                                       *)
LEMMA EndsFreeing ==
  ASSUME EnvInv, Quiet, k.op # "boot", k' \in KType, k'.op = "free",
         k'.e \in Slots \ FreeSlots(envs), k'.pp = NULL, m'.cr3 # NULL,
         EnvVm(m', DirsOf(envs), {}), RunPart(m'.cr3, envs, curenv, "free"),
         FreeAt(m', envs[k'.e].env_pgdir, k'.pdeno, k'.pteno)
  PROVE  EnvInv'
<1>1. TypePart' /\ ListPart' /\ BootPart' /\ OwnPart(envs') /\ IdPart(envs')
  BY QuietFacts
<1>2. WorkPart' /\ LoadPart' /\ FreePos'
  BY DEF WorkPart, LoadPart, FreePos, LoadOps, Quiet
<1>3. EnvVm(m', DirsOf(envs'), HeldOf(k'.pp)) /\ RunPart(m'.cr3, envs', curenv', k'.op)
  BY DEF Quiet, HeldOf
<1> QED
  BY <1>1, <1>2, <1>3 DEF EnvInv

-----------------------------------------------------------------------------
(* lcr3 in env.c.                                                          *)
LEMMA lcr3EnvVm ==
  ASSUME NEW s, NEW D, NEW H, EnvVm(s, D, H), NEW d \in D, NEW s2, s2 = lcr3(s, d)
  PROVE  EnvVm(s2, D, H) /\ s2.mem = s.mem /\ s2.cr3 = d
<1>1. Vm(s, D, H)
  BY DEF EnvVm
<1>2. Vm(s2, D, H) /\ UserSame(s, s2, D) /\ s2.mem = s.mem /\ s2.cr3 = d
  BY <1>1, lcr3Vm
<1>3. KernSame(s, s2)
  BY <1>2 DEF KernSame
<1> QED BY <1>2, <1>3, SameEnvVm

(* When no environment is live, kern_pgdir is the only directory.          *)
LEMMA NoDirs ==
  ASSUME NEW t, OwnPart(t), FreeSlots(t) = Slots
  PROVE  DirsOf(t) = {KERN_PGDIR}
BY DEF OwnPart, FreeSlots, DirsOf

(* Initially.                                                              *)
LEMMA InitInv == Init => EnvInv
<1> SUFFICES ASSUME Init PROVE EnvInv
  OBVIOUS
<1>1. PICK c \in [Frames -> Contents] : m = FirstMachine(c)
  BY DEF Init, FirstMachine, FirstDir
<1>2. c \in [Frames -> [Ents -> PTE]]
  BY EnvAssumption
<1>3. /\ Vm(m, {KERN_PGDIR}, {}) /\ \A i \in UserPdx : ~m.mem[KERN_PGDIR][i].p
      /\ \A i \in KernIdx : ~m.mem[KERN_PGDIR][i].p
  BY <1>1, <1>2, FirstVm
<1>4. m.cr3 = NULL
  BY <1>1 DEF FirstMachine
<1>5. /\ \A e \in Slots : /\ envs[e].env_id = 0 /\ envs[e].env_status = "FREE"
                          /\ envs[e].env_pgdir = NULL /\ envs[e].env_link = NULL
      /\ envs \in [Slots -> EnvType]
  BY EnvAssumption DEF Init, EnvType, Status
<1>6. k \in KType /\ k.op = "boot" /\ k.pp = NULL
  <2>1. k = [Idle EXCEPT !.op = "boot"]
    BY DEF Init
  <2> QED BY <2>1, IdleType DEF KType, Ops
<1>7. TypePart
  BY <1>5, <1>6 DEF TypePart, Init
<1>8. OwnPart(envs) /\ IdPart(envs) /\ FreeSlots(envs) = Slots
  <2>1. KERN_PGDIR # NULL
    BY LayoutFacts
  <2> QED BY <1>5, <2>1 DEF OwnPart, IdPart, FreeSlots
<1>9. EnvVm(m, DirsOf(envs), HeldOf(k.pp))
  <2>1. DirsOf(envs) = {KERN_PGDIR} /\ HeldOf(k.pp) = {}
    BY <1>6, <1>8, NoDirs DEF HeldOf
  <2>2. NoKernTabs(m)
    BY <1>3 DEF NoKernTabs
  <2>3. MappedOnce(m, {KERN_PGDIR})
    BY <1>3, SMTT(30) DEF MappedOnce, Walk, ZeroPTE
  <2>4. AllRWU(m, {KERN_PGDIR})
    BY <1>3 DEF AllRWU, Walk, ZeroPTE
  <2> QED BY <1>3, <2>1, <2>2, <2>3, <2>4 DEF EnvVm
<1>10. ListPart /\ BootPart /\ WorkPart /\ LoadPart /\ FreePos
  BY <1>4, <1>6, <1>8 DEF ListPart, BootPart, WorkPart, LoadPart, FreePos, LoadOps
<1>11. RunPart(m.cr3, envs, curenv, k.op)
  BY <1>5, <1>6 DEF RunPart
<1> QED
  BY <1>7, <1>8, <1>9, <1>10, <1>11 DEF EnvInv

(* env_init.                                                               *)
LEMMA env_initInv ==
  ASSUME EnvInv, env_init
  PROVE  EnvInv'
<1>1. k.op = "boot" /\ m' = lcr3(m, KERN_PGDIR) /\ k' = Idle /\ curenv' = curenv
  BY DEF env_init
<1>2. FreeSlots(envs) = Slots /\ k.pp = NULL
  BY <1>1 DEF EnvInv, BootPart, WorkPart
<1>3. envs \in [Slots -> EnvType] /\ env_free_list' = 0
  BY DEF EnvInv, TypePart, env_init
<1>n. NENV \in Nat /\ 0 < NENV /\ 0 \in Slots
  BY EnvAssumption DEF Slots
<1>4. /\ envs' \in [Slots -> EnvType]
      /\ \A e \in Slots : /\ envs'[e].env_id = envs[e].env_id
                          /\ envs'[e].env_status = envs[e].env_status
                          /\ envs'[e].env_pgdir = envs[e].env_pgdir
                          /\ envs'[e].env_link = IF e + 1 = NENV THEN NULL ELSE e + 1
  <2>1. envs' = [e \in Slots |->
                   [envs[e] EXCEPT !.env_link = IF e + 1 = NENV THEN NULL ELSE e + 1]]
    BY DEF env_init
  <2>2. \A e \in Slots : (IF e + 1 = NENV THEN NULL ELSE e + 1) \in Slots \cup {NULL}
    BY <1>n DEF Slots
  <2>3. ASSUME NEW e \in Slots
        PROVE  /\ envs'[e] \in EnvType
               /\ envs'[e].env_id = envs[e].env_id
               /\ envs'[e].env_status = envs[e].env_status
               /\ envs'[e].env_pgdir = envs[e].env_pgdir
               /\ envs'[e].env_link = IF e + 1 = NENV THEN NULL ELSE e + 1
    <3>1. PICK x : x = IF e + 1 = NENV THEN NULL ELSE e + 1
      OBVIOUS
    <3>2. envs'[e] = [envs[e] EXCEPT !.env_link = x] /\ x \in Slots \cup {NULL}
      BY <2>1, <2>2, <3>1
    <3>3. envs[e] \in EnvType
      BY <1>3
    <3>4. /\ envs'[e] \in EnvType
          /\ envs'[e].env_id = envs[e].env_id
          /\ envs'[e].env_status = envs[e].env_status
          /\ envs'[e].env_pgdir = envs[e].env_pgdir
          /\ envs'[e].env_link = x
      BY <3>2, <3>3 DEF EnvType
    <3> QED BY <3>1, <3>4
  <2> QED BY <2>1, <2>3
<1>5. OwnPart(envs') /\ IdPart(envs') /\ FreeSlots(envs') = Slots
  BY <1>2, <1>4 DEF EnvInv, OwnPart, IdPart, FreeSlots
<1>6. DirsOf(envs) = {KERN_PGDIR} /\ DirsOf(envs') = {KERN_PGDIR}
  BY <1>2, <1>5, NoDirs DEF EnvInv
<1>7. k' \in KType /\ k'.op = "idle" /\ k'.pp = NULL
  BY <1>1, IdleType
<1>8. TypePart'
  BY <1>1, <1>3, <1>4, <1>7, <1>n DEF EnvInv, TypePart
<1>9. EnvVm(m', DirsOf(envs'), HeldOf(k'.pp)) /\ m'.cr3 = KERN_PGDIR
  <2>1. EnvVm(m, {KERN_PGDIR}, {})
    BY <1>2, <1>6 DEF EnvInv, HeldOf
  <2>2. EnvVm(m', {KERN_PGDIR}, {}) /\ m'.cr3 = KERN_PGDIR
    BY <1>1, <2>1, lcr3EnvVm
  <2> QED BY <1>6, <1>7, <2>2 DEF HeldOf
<1>10. ListPart'
  <2>1. EnvList(0, envs', Slots)
    BY <1>4, InitEnvList DEF InOrder
  <2> QED BY <1>3, <1>5, <2>1 DEF ListPart
<1>11. BootPart' /\ WorkPart' /\ LoadPart' /\ FreePos'
  <2>1. KERN_PGDIR # NULL
    BY LayoutFacts
  <2> QED BY <1>7, <1>9, <2>1 DEF BootPart, WorkPart, LoadPart, FreePos, LoadOps
<1>12. RunPart(m'.cr3, envs', curenv', k'.op)
  BY <1>1, <1>4, <1>7, <1>9 DEF EnvInv, RunPart
<1> QED
  BY <1>5, <1>8, <1>9, <1>10, <1>11, <1>12 DEF EnvInv

-----------------------------------------------------------------------------
(* load_icode.                                                             *)

(* No page goes from the user part of d.                                   *)
NoneGone(s, s2, d) ==
  \A i \in UserPdx, j \in Ents : Walk(s, d, i, j).p => Walk(s2, d, i, j).p

(* What load_icode has mapped stays mapped.                                *)
LEMMA PagesStay ==
  ASSUME NEW s, NEW s2, NEW d, NoneGone(s, s2, d)
  PROVE  /\ \A h, n : PagesIn(s, d, h, n) => PagesIn(s2, d, h, n)
         /\ \A prog, seg : Behind(s, d, prog, seg) => Behind(s2, d, prog, seg)
<1>1. \A va : Present(s, d, va) => Present(s2, d, va)
  BY DEF NoneGone, Present
<1>2. \A h, n : PagesIn(s, d, h, n) => PagesIn(s2, d, h, n)
  BY <1>1 DEF PagesIn
<1>3. \A prog, seg : Behind(s, d, prog, seg) => Behind(s2, d, prog, seg)
  BY <1>2 DEF Behind
<1> QED BY <1>2, <1>3

(* The region of load_icode.                                               *)
LEMMA HereFacts ==
  ASSUME NEW prog \in Programs, NEW seg \in 1 .. Len(prog.ph) + 1,
         NEW h, h = RegionOf(prog, seg)
  PROVE  /\ h.va \in Nat /\ h.memsz \in Nat /\ h.va + h.memsz <= USTACKTOP
         /\ prog \in Program
<1>1. PGSIZE \in Nat /\ USTACKTOP \in Nat /\ PGSIZE <= USTACKTOP
  BY EnvAssumption
<1>2. CASE seg = Len(prog.ph) + 1
  BY <1>1, <1>2, EnvAssumption DEF RegionOf, Stack
<1>3. CASE seg # Len(prog.ph) + 1
  <2>1. /\ prog \in Program
        /\ \A x \in 1 .. Len(prog.ph) : prog.ph[x].va + prog.ph[x].memsz < USTACKTOP
    BY EnvAssumption
  <2>2. prog.ph \in Seq(Proghdr)
    BY <2>1 DEF Program
  <2>3. seg \in 1 .. Len(prog.ph)
    BY <1>3, <2>2
  <2>4. prog.ph[seg] \in Proghdr
    BY <2>2, <2>3
  <2>5. h = prog.ph[seg]
    BY <1>3 DEF RegionOf
  <2>6. h.va \in Nat /\ h.memsz \in Nat
    BY <2>4, <2>5 DEF Proghdr
  <2> QED BY <1>1, <2>1, <2>3, <2>5, <2>6
<1> QED BY <1>2, <1>3

(* What the invariant says while load_icode runs.                          *)
LEMMA LoadFacts ==
  ASSUME EnvInv, k.op \in LoadOps
  PROVE  /\ k.e \in Slots \ FreeSlots(envs) /\ k.prog \in Programs /\ k \in KType
         /\ k.op # "start" => LoadAt(m, envs[k.e].env_pgdir, k.op, k.prog, k.seg, k.n, k.pp)
         /\ Here = RegionOf(k.prog, k.seg) /\ (OnStack <=> k.seg = Len(k.prog.ph) + 1)
         /\ k.pp # NULL => k.op = "insert"
<1>1. k.e \in Slots \ FreeSlots(envs) /\ k.prog \in Programs
  BY DEF EnvInv, WorkPart
<1>2. k.op # "start" => LoadAt(m, envs[k.e].env_pgdir, k.op, k.prog, k.seg, k.n, k.pp)
  BY DEF EnvInv, LoadPart
<1>3. Here = RegionOf(k.prog, k.seg) /\ (OnStack <=> k.seg = Len(k.prog.ph) + 1)
  BY DEF Here, RegionOf, Stack, OnStack
<1>4. (k.pp # NULL => k.op = "insert") /\ k \in KType
  BY DEF EnvInv, WorkPart, LoadOps, TypePart
<1> QED BY <1>1, <1>2, <1>3, <1>4

(* A panic of the kernel: memory keeps its invariant.                      *)
LEMMA PanicInv ==
  ASSUME EnvInv, Quiet, k.op # "boot", NEW r \in Reasons, k' = Panic(r),
         m'.cr3 # NULL, EnvVm(m', DirsOf(envs), {})
  PROVE  EnvInv'
<1>1. k' \in KType /\ k'.op = "panic" /\ k'.pp = NULL
  BY IdleType
<1>2. RunPart(m'.cr3, envs, curenv, k'.op)
  BY <1>1 DEF EnvInv, RunPart
<1>3. EnvVm(m', DirsOf(envs), HeldOf(k'.pp))
  BY <1>1 DEF HeldOf
<1> QED BY <1>1, <1>2, <1>3, EndsAtRest

(* The machine between two calls, with no page in hand.                    *)
LEMMA EmptyHand ==
  ASSUME EnvInv, k.op \notin {"insert", "panic"}
  PROVE  /\ k.pp = NULL /\ EnvVm(m, DirsOf(envs), {})
         /\ k.op # "boot" => m.cr3 # NULL
BY DEF EnvInv, WorkPart, BootPart, HeldOf

(* load_icode up to its loop.                                              *)
LEMMA load_icodeInv ==
  ASSUME EnvInv, load_icode
  PROVE  EnvInv'
<1>1. k.op = "start" /\ Quiet
  BY DEF load_icode, Quiet
<1>2. /\ k.e \in Slots \ FreeSlots(envs) /\ k.prog \in Programs /\ k \in KType
      /\ k.pp = NULL /\ EnvVm(m, DirsOf(envs), {}) /\ m.cr3 # NULL
  BY <1>1, LoadFacts, EmptyHand DEF LoadOps
<1>3. CASE k.prog.elf
  <2>1. PICK d : d = envs[k.e].env_pgdir
    OBVIOUS
  <2>2. m' = lcr3(m, d) /\ k' = [k EXCEPT !.op = "alloc", !.seg = 1]
    BY <1>3, <2>1 DEF load_icode
  <2>3. d \in DirsOf(envs)
    BY <1>2, <2>1, InvFacts
  <2>4. EnvVm(m', DirsOf(envs), {}) /\ m'.cr3 = d
    BY <1>2, <2>2, <2>3, lcr3EnvVm
  <2>k. /\ k' \in KType /\ k'.op = "alloc" /\ k'.e = k.e /\ k'.prog = k.prog /\ k'.seg = 1
        /\ k'.n = k.n /\ k'.pp = NULL
    BY <1>2, <2>2 DEF KType, Ops
  <2>5. LoadAt(m', d, k'.op, k'.prog, k'.seg, k'.n, k'.pp)
    <3>1. k.n = 0
      BY <1>1 DEF EnvInv, WorkPart
    <3>2. k.prog.ph \in Seq(Proghdr)
      BY <1>2, EnvAssumption DEF Program
    <3>3. Len(k.prog.ph) \in Nat
      BY <3>2
    <3>4. Behind(m', d, k.prog, 1)
      BY <3>3 DEF Behind
    <3>5. \A h : PagesIn(m', d, h, 0)
      BY DEF PagesIn
    <3> QED BY <2>4, <2>k, <3>1, <3>3, <3>4, <3>5 DEF LoadAt
  <2>6. EnvVm(m', DirsOf(envs), HeldOf(k'.pp))
    BY <2>4, <2>k DEF HeldOf
  <2> QED BY <1>1, <2>1, <2>k, <2>5, <2>6, EndsLoading DEF LoadOps
<1>4. CASE ~k.prog.elf
  <2>1. k' = Panic("not_elf") /\ m' = m
    BY <1>4 DEF load_icode
  <2> QED BY <1>1, <1>2, <2>1, PanicInv DEF Reasons
<1> QED BY <1>3, <1>4

(* Equal translations lose nothing.                                        *)
LEMMA SameNoneGone ==
  ASSUME NEW s, NEW s2, NEW D, UserSame(s, s2, D), NEW d \in D
  PROVE  NoneGone(s, s2, d)
BY DEF UserSame, NoneGone

(* region_alloc, its call of page_alloc: the page is in no use.            *)
LEMMA region_allocInv ==
  ASSUME EnvInv, region_alloc
  PROVE  EnvInv'
<1>1. k.op = "alloc" /\ Here.load /\ k.n < pgnum(Here) /\ Quiet
  BY DEF region_alloc, Quiet
<1>2. /\ k.e \in Slots \ FreeSlots(envs) /\ k.prog \in Programs /\ k \in KType
      /\ k.pp = NULL /\ EnvVm(m, DirsOf(envs), {}) /\ m.cr3 # NULL
      /\ LoadAt(m, envs[k.e].env_pgdir, "alloc", k.prog, k.seg, k.n, k.pp)
      /\ Here = RegionOf(k.prog, k.seg)
  BY <1>1, LoadFacts, EmptyHand DEF LoadOps
<1>3. PICK h, t, zero : zero = FALSE /\ h = page_alloc(m, zero).pp /\ t = page_alloc(m, zero).m
  OBVIOUS
<1>4. /\ m' = t
      /\ k' = IF h = NULL THEN Panic("no_mem") ELSE [k EXCEPT !.op = "insert", !.pp = h]
  BY <1>3 DEF region_alloc
<1>5. Allocated(m, DirsOf(envs), {}, h, t)
  BY <1>2, <1>3, page_allocVm DEF EnvVm
<1>6. CASE h = NULL
  <2>1. m' = m /\ k' = Panic("no_mem")
    BY <1>4, <1>5, <1>6 DEF Allocated
  <2> QED BY <1>1, <1>2, <2>1, PanicInv DEF Reasons
<1>7. CASE h # NULL
  <2>1. PICK d : d = envs[k.e].env_pgdir
    OBVIOUS
  <2>2. d \in DirsOf(envs)
    BY <1>2, <2>1, InvFacts
  <2>3. /\ h \in Managed /\ Vm(m', DirsOf(envs), {} \cup {h}) /\ m'.cr3 = m.cr3
        /\ UserSame(m, m', DirsOf(envs)) /\ SameDirs(m, m', DirsOf(envs))
    BY <1>4, <1>5, <1>7 DEF Allocated, KeepMmu
  <2>4. KernSame(m, m')
    BY <1>2, <2>3, KernKept DEF EnvVm
  <2>5. EnvVm(m', DirsOf(envs), {} \cup {h})
    BY <1>2, <2>3, <2>4, SameEnvVm
  <2>k. /\ k' \in KType /\ k'.op = "insert" /\ k'.e = k.e /\ k'.prog = k.prog /\ k'.seg = k.seg
        /\ k'.n = k.n /\ k'.pp = h
    <3>1. h \in Frames
      BY <2>3, LayoutFacts
    <3>2. k' = [k EXCEPT !.op = "insert", !.pp = h]
      BY <1>4, <1>7
    <3> QED BY <1>2, <3>1, <3>2 DEF KType, Ops
  <2>6. EnvVm(m', DirsOf(envs), HeldOf(k'.pp))
    <3>1. HeldOf(k'.pp) = {} \cup {h}
      BY <1>7, <2>k DEF HeldOf
    <3> QED BY <2>5, <3>1
  <2>7. NoneGone(m, m', d)
    BY <2>2, <2>3, SameNoneGone
  <2>8. LoadAt(m', d, "insert", k.prog, k.seg, k.n, h)
    BY <1>1, <1>2, <1>7, <2>1, <2>3, <2>7, PagesStay DEF LoadAt
  <2> QED BY <1>1, <2>1, <2>k, <2>6, <2>8, EndsLoading DEF LoadOps
<1> QED BY <1>6, <1>7

(* page_insert of the page in hand, in one of the user addresses.          *)
LEMMA InsertStays ==
  ASSUME NEW s, NEW s2, NEW D, NEW d \in D, NEW i, NEW j, NEW pp, NEW perm,
         OnlyAt(s, s2, D, d, i, j), MapsTo(s2, d, i, j, pp, perm)
  PROVE  NoneGone(s, s2, d)
<1>1. Walk(s2, d, i, j).p
  BY DEF MapsTo, MkPTE
<1> QED
  BY <1>1 DEF NoneGone, OnlyAt

(* region_alloc, its call of page_insert: the page is mapped for the user, *)
(* or stays in hand when the kernel panics.                                *)
LEMMA region_insertInv ==
  ASSUME EnvInv, region_insert
  PROVE  EnvInv'
<1>1. k.op = "insert" /\ Quiet
  BY DEF region_insert, Quiet
<1>2. /\ k.e \in Slots \ FreeSlots(envs) /\ k.prog \in Programs /\ k \in KType
      /\ LoadAt(m, envs[k.e].env_pgdir, "insert", k.prog, k.seg, k.n, k.pp)
      /\ Here = RegionOf(k.prog, k.seg)
  BY <1>1, LoadFacts DEF LoadOps
<1>3. PICK d, h, va, i, j, pp :
        /\ d = envs[k.e].env_pgdir /\ h = Here /\ va = PageAt(h, k.n) /\ i = PDX(va) /\ j = PTX(va)
        /\ pp = k.pp
  OBVIOUS
<1>4. PICK s2, ok : Inserted(m, d, pp, i, j, RWU, s2, ok)
  BY DEF Inserted
<1>5. /\ m' = s2
      /\ k' = IF ~ok THEN [Panic("no_mem") EXCEPT !.pp = pp]
              ELSE [k EXCEPT !.op = "alloc", !.pp = NULL, !.n = k.n + 1]
  BY <1>3, <1>4 DEF region_insert, Inserted, PageAt
<1>6. /\ m.cr3 = d /\ k.seg \in 1 .. Len(k.prog.ph) + 1 /\ pp # NULL /\ k.n < pgnum(h) /\ h.load
      /\ Behind(m, d, k.prog, k.seg)
      /\ k.seg = Len(k.prog.ph) + 1 => PagesIn(m, d, h, k.n)
  BY <1>2, <1>3 DEF LoadAt
<1>7. h.va \in Nat /\ h.memsz \in Nat /\ h.va + h.memsz <= USTACKTOP /\ k.n \in Nat
  BY <1>2, <1>3, <1>6, HereFacts DEF KType
<1>8. va \in Nat /\ va < USTACKTOP
  <2>1. va \in Nat /\ va < h.va + h.memsz
    BY <1>3, <1>6, <1>7, AllocBelow
  <2> QED BY <1>7, <2>1, EnvAssumption, SMTT(30)
<1>9. i \in UserPdx /\ j \in Ents
  BY <1>3, <1>8, UserAddress
<1>10. d \in DirsOf(envs) /\ d # KERN_PGDIR
  BY <1>2, <1>3, InvFacts
<1>11. HeldOf(k.pp) = {pp} /\ EnvVm(m, DirsOf(envs), {pp}) /\ m.cr3 # NULL
  BY <1>1, <1>3, <1>6 DEF HeldOf, EnvInv, BootPart
<1>12. pp \in Managed /\ m.ref[pp] = 0
  BY <1>11, VmFacts DEF EnvVm
<1>13. Usable(m, DirsOf(envs), {pp}, pp)
  BY <1>12 DEF Usable
<1>14. m.ref[pp] + 1 < REFMOD
  BY <1>12, PhysAssumption
<1>15. RWU \in Perms /\ Vm(m, DirsOf(envs), {pp})
  BY <1>11, EntryTypes DEF EnvVm
<1>16. /\ Vm(s2, DirsOf(envs), IF ok THEN {pp} \ {pp} ELSE {pp})
       /\ OnlyAt(m, s2, DirsOf(envs), d, i, j) /\ SamePdes(m, s2, DirsOf(envs), d, i)
       /\ s2.cr3 = m.cr3
       /\ IF ok THEN MapsTo(s2, d, i, j, pp, RWU) ELSE UserSame(m, s2, DirsOf(envs))
  <2>1. PICK D, H, perm : D = DirsOf(envs) /\ H = {pp} /\ perm = RWU
    OBVIOUS
  <2>2. Vm(m, D, H) /\ d \in D /\ perm \in Perms
    BY <1>10, <1>15, <2>1
  <2>3. Usable(m, D, H, pp)
    BY <1>13, <2>1
  <2>4. Inserted(m, d, pp, i, j, perm, s2, ok)
    BY <1>4, <2>1
  <2>5. InsertDone(m, s2, D, H, d, i, j, pp, perm, ok)
    BY <1>9, <1>10, <1>14, <2>2, <2>3, <2>4, page_insertVm
  <2> QED BY <2>1, <2>5 DEF InsertDone
<1>17. KernSame(m, s2)
  BY <1>10, <1>15, <1>16, KernKept
<1>18. CASE ~ok
  <2>1. Vm(s2, DirsOf(envs), {pp}) /\ UserSame(m, s2, DirsOf(envs))
    BY <1>16, <1>18
  <2>2. EnvVm(s2, DirsOf(envs), {pp})
    BY <1>11, <1>17, <2>1, SameEnvVm
  <2>3. k' \in KType /\ k'.op = "panic" /\ k'.pp = pp
    <3>1. k' = [Panic("no_mem") EXCEPT !.pp = pp]
      BY <1>5, <1>18
    <3>2. Panic("no_mem") \in KType /\ Panic("no_mem").op = "panic"
      BY IdleType DEF Reasons
    <3>3. pp \in Frames
      BY <1>12, LayoutFacts
    <3> QED BY <3>1, <3>2, <3>3 DEF KType
  <2>4. RunPart(m'.cr3, envs, curenv, k'.op)
    BY <2>3 DEF EnvInv, RunPart
  <2>5. EnvVm(m', DirsOf(envs), HeldOf(k'.pp)) /\ m'.cr3 # NULL
    BY <1>3, <1>5, <1>11, <1>16, <2>2, <2>3
  <2> QED BY <1>1, <2>3, <2>4, <2>5, EndsAtRest
<1>19. CASE ok
  <2>1. Vm(s2, DirsOf(envs), {pp} \ {pp}) /\ MapsTo(s2, d, i, j, pp, RWU)
    BY <1>16, <1>19
  <2>2. EnvVm(s2, DirsOf(envs), {pp} \ {pp})
    <3>1. PICK H : H = {pp}
      OBVIOUS
    <3>2. EnvVm(s2, DirsOf(envs), H \ {pp})
      BY <1>9, <1>10, <1>11, <1>16, <1>17, <2>1, <3>1, InsertEnvVm
    <3> QED BY <3>1, <3>2
  <2>k. /\ k' \in KType /\ k'.op = "alloc" /\ k'.e = k.e /\ k'.prog = k.prog /\ k'.seg = k.seg
        /\ k'.n = k.n + 1 /\ k'.pp = NULL
    <3>1. k' = [k EXCEPT !.op = "alloc", !.pp = NULL, !.n = k.n + 1]
      BY <1>5, <1>19
    <3>2. k.n + 1 \in Nat
      BY <1>7
    <3> QED BY <1>2, <3>1, <3>2 DEF KType, Ops
  <2>3. EnvVm(m', DirsOf(envs), HeldOf(k'.pp))
    <3>1. HeldOf(k'.pp) = {pp} \ {pp}
      BY <2>k DEF HeldOf
    <3> QED BY <1>5, <2>2, <3>1
  <2>4. NoneGone(m, s2, d)
    BY <1>10, <1>16, <2>1, InsertStays
  <2>5. Present(s2, d, va)
    BY <1>3, <1>9, <2>1 DEF Present, MapsTo, MkPTE
  <2>6. k.seg = Len(k.prog.ph) + 1 => PagesIn(s2, d, h, k.n + 1)
    <3>1. SUFFICES ASSUME k.seg = Len(k.prog.ph) + 1, NEW l \in Nat, l < k.n + 1
                   PROVE  Present(s2, d, PageAt(h, l))
      BY DEF PagesIn
    <3>2. PagesIn(s2, d, h, k.n)
      BY <1>6, <2>4, <3>1, PagesStay
    <3>3. l < k.n \/ l = k.n
      BY <1>7, <3>1
    <3> QED BY <1>3, <2>5, <3>2, <3>3 DEF PagesIn
  <2>7. LoadAt(s2, d, "alloc", k.prog, k.seg, k.n + 1, NULL)
    <3>1. Behind(s2, d, k.prog, k.seg)
      BY <1>6, <2>4, PagesStay
    <3>2. h = RegionOf(k.prog, k.seg)
      BY <1>2, <1>3
    <3> QED BY <1>6, <1>16, <2>6, <3>1, <3>2 DEF LoadAt
  <2> QED BY <1>1, <1>3, <1>5, <2>k, <2>3, <2>7, EndsLoading DEF LoadOps
<1> QED BY <1>18, <1>19

(* The number of pages that a region touches.                              *)
LEMMA TouchedNat ==
  ASSUME NEW h, NEW va \in Nat, NEW sz \in Nat, h.va = va, h.memsz = sz
  PROVE  touched(h) \in Nat
<1>1. PGSIZE \in Nat \ {0}
  BY EnvAssumption
<1>2. CASE sz = 0
  BY <1>2 DEF touched
<1>3. CASE sz # 0
  <2>1. va + sz - 1 \in Nat /\ va <= va + sz - 1
    BY <1>3
  <2>2. PICK p, q : p = PageOf(va) /\ q = PageOf(va + sz - 1)
    OBVIOUS
  <2>3. p \in Nat /\ q \in Nat
    BY <1>1, <2>1, <2>2 DEF PageOf
  <2>4. p <= q
    BY <1>1, <2>1, <2>2, DivMono DEF PageOf
  <2>5. touched(h) = q - p + 1
    BY <1>3, <2>2 DEF touched
  <2> QED BY <2>3, <2>4, <2>5
<1> QED BY <1>2, <1>3

(* The stack is one page.                                                  *)
LEMMA StackPage ==
  pgnum(Stack) = 1 /\ touched(Stack) = 1
<1>1. PGSIZE \in Nat \ {0} /\ USTACKTOP \in Nat /\ PGSIZE <= USTACKTOP /\ USTACKTOP % PGSIZE = 0
  BY EnvAssumption
<1>2. pgnum(Stack) = 1
  <2>1. (PGSIZE * 1 + (PGSIZE - 1)) \div PGSIZE = 1
    BY <1>1, DivUnique
  <2>2. PGSIZE * 1 + (PGSIZE - 1) = PGSIZE + PGSIZE - 1
    BY <1>1
  <2>3. ROUNDUP(PGSIZE) = PGSIZE
    BY <1>1, <2>1, <2>2 DEF ROUNDUP
  <2>4. (PGSIZE * 1 + 0) \div PGSIZE = 1
    BY <1>1, DivUnique
  <2>5. PGSIZE * 1 + 0 = PGSIZE
    BY <1>1
  <2> QED BY <2>3, <2>4, <2>5 DEF pgnum, Stack
<1>3. touched(Stack) = 1
  <2>1. PICK q, r : DivBy(USTACKTOP, PGSIZE, q, r)
    BY DEF DivBy
  <2>2. r = 0
    BY <1>1, <2>1 DEF DivBy
  <2>3. q \in Nat /\ USTACKTOP = PGSIZE * q + 0
    BY <1>1, <2>1, <2>2, DivMod
  <2>4. q # 0
    BY <1>1, <2>3
  <2>5. PICK x : x = q - 1
    OBVIOUS
  <2>6. x \in Nat /\ q = x + 1
    BY <2>3, <2>4, <2>5
  <2>7. PGSIZE * (x + 1) = PGSIZE * x + PGSIZE
    BY <1>1, <2>6
  <2>y. PICK y : y = PGSIZE * x
    OBVIOUS
  <2>8. y \in Nat /\ USTACKTOP = y + PGSIZE
    BY <1>1, <2>3, <2>6, <2>7, <2>y
  <2>9. (y + (PGSIZE - 1)) \div PGSIZE = x /\ (y + 0) \div PGSIZE = x
    <3>1. PICK r1, r2 : r1 = PGSIZE - 1 /\ r2 = 0
      OBVIOUS
    <3>2. r1 \in Nat /\ r1 < PGSIZE /\ r2 \in Nat /\ r2 < PGSIZE
      BY <1>1, <3>1
    <3>3. (PGSIZE * x + r1) \div PGSIZE = x
      BY <1>1, <2>6, <3>2, DivUnique
    <3>4. (PGSIZE * x + r2) \div PGSIZE = x
      BY <1>1, <2>6, <3>2, DivUnique
    <3> QED BY <2>y, <3>1, <3>3, <3>4
  <2>10. /\ USTACKTOP - PGSIZE = y + 0
         /\ USTACKTOP - PGSIZE + PGSIZE - 1 = y + (PGSIZE - 1)
    BY <1>1, <2>8
  <2>11. PageOf(USTACKTOP - PGSIZE) = x /\ PageOf(USTACKTOP - PGSIZE + PGSIZE - 1) = x
    BY <2>9, <2>10 DEF PageOf
  <2>12. touched(Stack) = x - x + 1
    BY <1>1, <2>11 DEF touched, Stack
  <2> QED BY <2>6, <2>12
<1> QED BY <1>2, <1>3

(* The pages behind, when a region is done.                                *)
LEMMA OneMoreBehind ==
  ASSUME NEW s, NEW d, NEW prog, NEW seg \in Nat, Behind(s, d, prog, seg),
         NEW h, h = prog.ph[seg], h.load => PagesIn(s, d, h, touched(h)),
         prog.ph \in Seq(Proghdr)
  PROVE  Behind(s, d, prog, seg + 1)
<1> SUFFICES ASSUME NEW x \in 1 .. Len(prog.ph), x < seg + 1, prog.ph[x].load
             PROVE  PagesIn(s, d, prog.ph[x], touched(prog.ph[x]))
  BY DEF Behind
<1>1. x < seg \/ x = seg
  OBVIOUS
<1> QED BY <1>1 DEF Behind

(* No page of a region is asked for at its start.                          *)
LEMMA NoPages ==
  \A s, d, h : PagesIn(s, d, h, 0)
BY DEF PagesIn

(* load_icode between two regions.                                         *)
LEMMA next_regionInv ==
  ASSUME EnvInv, next_region
  PROVE  EnvInv'
<1>1. k.op = "alloc" /\ Quiet /\ m' = m
  BY DEF next_region, Quiet
<1>2. /\ k.e \in Slots \ FreeSlots(envs) /\ k.prog \in Programs /\ k \in KType
      /\ k.pp = NULL /\ EnvVm(m, DirsOf(envs), {}) /\ m.cr3 # NULL
      /\ LoadAt(m, envs[k.e].env_pgdir, "alloc", k.prog, k.seg, k.n, k.pp)
      /\ Here = RegionOf(k.prog, k.seg) /\ (OnStack <=> k.seg = Len(k.prog.ph) + 1)
  BY <1>1, LoadFacts, EmptyHand DEF LoadOps
<1>3. PICK d, h, prog, seg, n :
         d = envs[k.e].env_pgdir /\ h = Here /\ prog = k.prog /\ seg = k.seg /\ n = k.n
  OBVIOUS
<1>4. /\ m.cr3 = d /\ seg \in 1 .. Len(prog.ph) + 1 /\ Behind(m, d, prog, seg)
      /\ n = 0 \/ h.load
      /\ seg = Len(prog.ph) + 1 => PagesIn(m, d, h, n)
      /\ h = RegionOf(prog, seg) /\ prog.ph \in Seq(Proghdr) /\ n \in Nat /\ seg \in Nat
  <2>1. k.prog.ph \in Seq(Proghdr)
    BY <1>2, EnvAssumption DEF Program
  <2>2. k.n \in Nat /\ k.seg \in Nat
    BY <1>2 DEF KType
  <2> QED BY <1>2, <1>3, <2>1, <2>2 DEF LoadAt
<1>5. HeldOf(NULL) = {}
  BY DEF HeldOf
<1>6. CASE ~Here.load /\ k' = [k EXCEPT !.seg = @ + 1]
  <2>1. seg \in 1 .. Len(prog.ph) /\ h = prog.ph[seg]
    <3>1. seg # Len(prog.ph) + 1
      BY <1>3, <1>4, <1>6 DEF RegionOf, Stack
    <3> QED BY <1>4, <3>1 DEF RegionOf
  <2>2. Behind(m, d, prog, seg + 1)
    BY <1>3, <1>4, <1>6, <2>1, OneMoreBehind
  <2>3. LoadAt(m, d, "alloc", prog, seg + 1, 0, NULL)
    <3>1. seg + 1 \in 1 .. Len(prog.ph) + 1
      BY <1>4, <2>1
    <3> QED BY <1>4, <2>2, <3>1, NoPages DEF LoadAt
  <2>k. /\ k' \in KType /\ k'.op = "alloc" /\ k'.e = k.e /\ k'.prog = k.prog /\ k'.seg = k.seg + 1
        /\ k'.n = k.n /\ k'.pp = NULL
    <3>1. k.seg + 1 \in Nat
      BY <1>3, <1>4
    <3> QED BY <1>1, <1>2, <1>6, <3>1 DEF KType, Ops
  <2>4. n = 0
    BY <1>3, <1>4, <1>6
  <2> QED BY <1>1, <1>2, <1>3, <1>5, <2>k, <2>3, <2>4, EndsLoading DEF LoadOps
<1>7. CASE k' = Panic("filesz")
  BY <1>1, <1>2, <1>7, PanicInv DEF Reasons
<1>8. CASE /\ Here.load /\ Here.filesz <= Here.memsz /\ k.n = pgnum(Here)
           /\ k' = [k EXCEPT !.op = IF OnStack THEN "done" ELSE "copy", !.n = 0]
  <2>1. PICK op : op = IF OnStack THEN "done" ELSE "copy"
    OBVIOUS
  <2>k. /\ k' \in KType /\ k'.op = op /\ k'.e = k.e /\ k'.prog = k.prog /\ k'.seg = k.seg
        /\ k'.n = 0 /\ k'.pp = NULL
    <3>1. k' = [k EXCEPT !.op = op, !.n = 0] /\ op \in Ops
      BY <1>8, <2>1 DEF Ops
    <3> QED BY <1>2, <3>1 DEF KType
  <2>2. LoadAt(m, d, op, prog, seg, 0, NULL)
    <3>1. CASE OnStack
      <4>1. op = "done" /\ seg = Len(prog.ph) + 1
        BY <1>2, <1>3, <2>1, <3>1
      <4>2. h = Stack
        BY <1>4, <4>1 DEF RegionOf
      <4>3. n = 1
        BY <1>3, <1>8, <4>2, StackPage
      <4>4. PagesIn(m, d, h, 1)
        BY <1>4, <4>1, <4>3
      <4> QED BY <1>4, <4>1, <4>4 DEF LoadAt
    <3>2. CASE ~OnStack
      <4>1. op = "copy" /\ seg # Len(prog.ph) + 1
        BY <1>2, <1>3, <2>1, <3>2
      <4>2. h.va \in Nat /\ h.memsz \in Nat
        BY <1>2, <1>3, <1>4, HereFacts
      <4>3. touched(h) \in Nat
        BY <4>2, TouchedNat
      <4>4. 0 <= touched(h)
        BY <4>3
      <4> QED BY <1>4, <4>1, <4>4, NoPages DEF LoadAt
    <3> QED BY <3>1, <3>2
  <2>3. op \in LoadOps \ {"start"}
    BY <2>1 DEF LoadOps
  <2> QED BY <1>1, <1>2, <1>3, <1>5, <2>k, <2>2, <2>3, EndsLoading DEF LoadOps
<1> QED BY <1>6, <1>7, <1>8 DEF next_region

(* A store, by the kernel or by a user program.                            *)
LEMMA storeEnvVm ==
  ASSUME NEW s, NEW D, NEW H, EnvVm(s, D, H), s.cr3 # NULL, NEW i \in Ents, NEW j \in Ents,
         CanStore(s, i, j), NEW c \in Contents, NEW s2, s2 = store(s, i, j, c)
  PROVE  /\ EnvVm(s2, D, H) /\ UserSame(s, s2, D) /\ s2.cr3 = s.cr3
         /\ i \in UserPdx /\ Walk(s, s.cr3, i, j).p
<1>1. Vm(s, D, H)
  BY DEF EnvVm
<1>2. c \in [Ents -> PTE]
  BY EnvAssumption
<1>3. /\ Vm(s2, D, H) /\ UserSame(s, s2, D) /\ SameDirs(s, s2, D) /\ s2.cr3 = s.cr3
      /\ i \in UserPdx /\ Walk(s, s.cr3, i, j).p
  BY <1>1, <1>2, storeVm
<1>4. KernSame(s, s2)
  BY <1>1, <1>3, KernKept
<1>5. EnvVm(s2, D, H)
  BY <1>3, <1>4, SameEnvVm
<1> QED BY <1>3, <1>5

(* load_icode, its memcpy and memset.                                      *)
LEMMA copy_segmentInv ==
  ASSUME EnvInv, copy_segment
  PROVE  EnvInv'
<1>1. k.op = "copy" /\ Quiet
  BY DEF copy_segment, Quiet
<1>2. /\ k.e \in Slots \ FreeSlots(envs) /\ k.prog \in Programs /\ k \in KType
      /\ k.pp = NULL /\ EnvVm(m, DirsOf(envs), {}) /\ m.cr3 # NULL
      /\ LoadAt(m, envs[k.e].env_pgdir, "copy", k.prog, k.seg, k.n, k.pp)
      /\ Here = RegionOf(k.prog, k.seg)
  BY <1>1, LoadFacts, EmptyHand DEF LoadOps
<1>3. PICK d, h, prog, seg, n, va, i, j :
         /\ d = envs[k.e].env_pgdir /\ h = Here /\ prog = k.prog /\ seg = k.seg /\ n = k.n
         /\ va = PageAt(h, n) /\ i = PDX(va) /\ j = PTX(va)
  OBVIOUS
<1>4. /\ m.cr3 = d /\ seg \in 1 .. Len(prog.ph) + 1 /\ Behind(m, d, prog, seg)
      /\ seg # Len(prog.ph) + 1 /\ n <= touched(h) /\ PagesIn(m, d, h, n)
      /\ h = RegionOf(prog, seg) /\ prog.ph \in Seq(Proghdr) /\ n \in Nat /\ seg \in Nat
  <2>1. k.prog.ph \in Seq(Proghdr)
    BY <1>2, EnvAssumption DEF Program
  <2>2. k.n \in Nat /\ k.seg \in Nat
    BY <1>2 DEF KType
  <2> QED BY <1>2, <1>3, <2>1, <2>2 DEF LoadAt
<1>5. seg \in 1 .. Len(prog.ph) /\ h = prog.ph[seg] /\ HeldOf(NULL) = {}
  BY <1>4 DEF RegionOf, HeldOf
<1>6. h.va \in Nat /\ h.memsz \in Nat /\ h.va + h.memsz <= USTACKTOP
  BY <1>2, <1>3, <1>4, HereFacts
<1>7. touched(h) \in Nat
  BY <1>6, TouchedNat
<1>8. CASE n = touched(h)
  <2>1. k' = [k EXCEPT !.op = "alloc", !.n = 0, !.seg = @ + 1] /\ m' = m
    BY <1>3, <1>8 DEF copy_segment
  <2>2. Behind(m, d, prog, seg + 1)
    BY <1>4, <1>5, <1>8, OneMoreBehind
  <2>3. LoadAt(m, d, "alloc", prog, seg + 1, 0, NULL)
    <3>1. seg + 1 \in 1 .. Len(prog.ph) + 1
      BY <1>4, <1>5
    <3> QED BY <1>4, <2>2, <3>1, NoPages DEF LoadAt
  <2>k. /\ k' \in KType /\ k'.op = "alloc" /\ k'.e = k.e /\ k'.prog = k.prog /\ k'.seg = k.seg + 1
        /\ k'.n = 0 /\ k'.pp = NULL
    <3>1. k.seg + 1 \in Nat
      BY <1>3, <1>4
    <3> QED BY <1>2, <2>1, <3>1 DEF KType, Ops
  <2> QED BY <1>1, <1>2, <1>3, <1>5, <2>1, <2>k, <2>3, EndsLoading DEF LoadOps
<1>9. CASE n # touched(h)
  <2>1. va \in Nat /\ va < USTACKTOP /\ n < touched(h)
    <3>1. n < touched(h)
      BY <1>4, <1>7, <1>9
    <3>2. va \in Nat /\ va < h.va + h.memsz
      BY <1>3, <1>4, <1>6, <3>1, TouchedBelow
    <3> QED BY <1>6, <3>1, <3>2, EnvAssumption
  <2>2. i \in UserPdx /\ j \in Ents /\ i \in Ents
    BY <1>3, <2>1, UserAddress, LayoutFacts
  <2>3. CASE CanStore(m, i, j)
    <3>1. k' = [k EXCEPT !.n = @ + 1] /\ \E c \in Contents : m' = store(m, i, j, c)
      BY <1>3, <1>9, <2>3 DEF copy_segment, PageAt
    <3>2. PICK c \in Contents : m' = store(m, i, j, c)
      BY <3>1
    <3>3. /\ EnvVm(m', DirsOf(envs), {}) /\ UserSame(m, m', DirsOf(envs)) /\ m'.cr3 = m.cr3
          /\ Walk(m, m.cr3, i, j).p
      BY <1>2, <2>2, <2>3, <3>2, storeEnvVm
    <3>4. d \in DirsOf(envs)
      BY <1>2, <1>3, InvFacts
    <3>5. NoneGone(m, m', d)
      BY <3>3, <3>4, SameNoneGone
    <3>6. Present(m', d, va)
      <4>1. Present(m, d, va)
        BY <1>3, <1>4, <2>2, <3>3 DEF Present
      <4> QED BY <3>5, <4>1 DEF Present, NoneGone
    <3>7. PagesIn(m', d, h, n + 1)
      <4>1. SUFFICES ASSUME NEW l \in Nat, l < n + 1 PROVE Present(m', d, PageAt(h, l))
        BY DEF PagesIn
      <4>2. PagesIn(m', d, h, n)
        BY <1>4, <3>5, PagesStay
      <4>3. l < n \/ l = n
        BY <1>4, <4>1
      <4> QED BY <1>3, <3>6, <4>2, <4>3 DEF PagesIn
    <3>8. LoadAt(m', d, "copy", prog, seg, n + 1, NULL)
      <4>1. Behind(m', d, prog, seg)
        BY <1>4, <3>5, PagesStay
      <4>2. n + 1 <= touched(h)
        BY <1>4, <1>7, <2>1
      <4> QED BY <1>4, <3>3, <3>7, <4>1, <4>2 DEF LoadAt
    <3>k. /\ k' \in KType /\ k'.op = "copy" /\ k'.e = k.e /\ k'.prog = k.prog /\ k'.seg = k.seg
          /\ k'.n = k.n + 1 /\ k'.pp = NULL
      <4>1. k.n + 1 \in Nat
        BY <1>3, <1>4
      <4> QED BY <1>1, <1>2, <3>1, <4>1 DEF KType
    <3> QED BY <1>1, <1>2, <1>3, <1>5, <3>3, <3>k, <3>8, EndsLoading DEF LoadOps
  <2>4. CASE ~CanStore(m, i, j)
    <3>1. k' = Panic("kernel_fault") /\ m' = m
      BY <1>3, <1>9, <2>4 DEF copy_segment, PageAt
    <3> QED BY <1>1, <1>2, <3>1, PanicInv DEF Reasons
  <2> QED BY <2>3, <2>4
<1> QED BY <1>8, <1>9

(* The kernel goes on, with kern_pgdir or the directory of curenv.         *)
LEMMA load_doneInv ==
  ASSUME EnvInv, load_done
  PROVE  EnvInv'
<1>1. k.op = "done" /\ Quiet /\ m' = lcr3(m, KERN_PGDIR) /\ k' = Idle
  BY DEF load_done, Quiet
<1>2. EnvVm(m, DirsOf(envs), {})
  BY <1>1, EmptyHand
<1>3. EnvVm(m', DirsOf(envs), {}) /\ m'.cr3 = KERN_PGDIR
  BY <1>1, <1>2, InvFacts, lcr3EnvVm
<1>4. k' \in KType /\ k'.op = "idle" /\ k'.pp = NULL
  BY <1>1, IdleType
<1>5. EnvVm(m', DirsOf(envs), HeldOf(k'.pp)) /\ m'.cr3 # NULL
  BY <1>3, <1>4, LayoutFacts DEF HeldOf
<1>6. RunPart(m'.cr3, envs, curenv, k'.op)
  BY <1>3, <1>4 DEF EnvInv, RunPart
<1> QED BY <1>1, <1>4, <1>5, <1>6, EndsAtRest

-----------------------------------------------------------------------------
(* User mode, and the ways back to the kernel.                             *)
LEMMA UserWriteInv ==
  ASSUME EnvInv, NEW i \in Ents, NEW j \in Ents, UserWrite(i, j)
  PROVE  EnvInv'
<1>1. k.op = "user" /\ Quiet /\ k' = k /\ CanStore(m, i, j)
  BY DEF UserWrite, Quiet
<1>2. PICK c \in Contents : m' = store(m, i, j, c)
  BY DEF UserWrite
<1>3. k \in KType /\ k.pp = NULL /\ EnvVm(m, DirsOf(envs), {}) /\ m.cr3 # NULL
  BY <1>1, EmptyHand DEF EnvInv, TypePart
<1>4. EnvVm(m', DirsOf(envs), {}) /\ m'.cr3 = m.cr3
  BY <1>1, <1>2, <1>3, storeEnvVm
<1>5. EnvVm(m', DirsOf(envs), HeldOf(k'.pp)) /\ RunPart(m'.cr3, envs, curenv, k'.op)
  BY <1>1, <1>3, <1>4 DEF EnvInv, HeldOf
<1> QED BY <1>1, <1>3, <1>4, <1>5, EndsAtRest

(* The kernel enters env_free.                                             *)
LEMMA StartFree ==
  ASSUME EnvInv, Quiet, m' = m, k.op \in {"idle", "user"}, NEW e \in Slots \ FreeSlots(envs),
         NEW next \in {"idle", "monitor"},
         k' = [Idle EXCEPT !.op = "free", !.e = e, !.pdeno = -1, !.next = next]
  PROVE  EnvInv'
<1>1. EnvVm(m, DirsOf(envs), {}) /\ m.cr3 # NULL
  BY EmptyHand
<1>2. /\ k' \in KType /\ k'.op = "free" /\ k'.e = e /\ k'.pp = NULL /\ k'.pdeno = -1
      /\ k'.pteno = 0
  <2>1. -1 \in -1 .. UTOPX
    BY LayoutAssumption
  <2>2. Idle.pteno = 0
    BY DEF Idle
  <2> QED BY <2>1, <2>2, IdleType, ZenonT(30) DEF KType, Ops
<1>3. RunPart(m.cr3, envs, curenv, "free")
  BY DEF EnvInv, RunPart
<1>4. FreeAt(m, envs[e].env_pgdir, -1, 0)
  BY DEF FreeAt, UserPdx, Ents
<1> QED BY <1>1, <1>2, <1>3, <1>4, EndsFreeing

(* In user mode curenv is a live environment.                              *)
LEMMA UserFacts ==
  ASSUME EnvInv, k.op = "user"
  PROVE  /\ curenv \in Slots \ FreeSlots(envs) /\ envs[curenv].env_status = "RUNNING"
         /\ m.cr3 = envs[curenv].env_pgdir
BY DEF EnvInv, TypePart, RunPart, FreeSlots

(* A trap that ends the environment.                                       *)
LEMMA TrapInv ==
  ASSUME EnvInv, Trap
  PROVE  EnvInv'
<1>1. /\ k.op = "user" /\ Quiet /\ m' = m
      /\ k' = [Idle EXCEPT !.op = "free", !.e = curenv, !.pdeno = -1, !.next = "monitor"]
  BY DEF Trap, Quiet
<1>2. curenv \in Slots \ FreeSlots(envs)
  BY <1>1, UserFacts
<1> QED BY <1>1, <1>2, StartFree

(* A trap that returns to the kernel.                                      *)
LEMMA TrapHandledInv ==
  ASSUME EnvInv, TrapHandled
  PROVE  EnvInv'
<1>1. k.op = "user" /\ Quiet /\ m' = m /\ k' = Idle
  BY DEF TrapHandled, Quiet
<1>2. EnvVm(m, DirsOf(envs), {}) /\ m.cr3 # NULL
  BY <1>1, EmptyHand
<1>3. k' \in KType /\ k'.op = "idle" /\ k'.pp = NULL
  BY <1>1, IdleType
<1>4. EnvVm(m', DirsOf(envs), HeldOf(k'.pp)) /\ m'.cr3 # NULL
  BY <1>1, <1>2, <1>3 DEF HeldOf
<1>5. RunPart(m'.cr3, envs, curenv, k'.op)
  BY <1>1, <1>3 DEF EnvInv, RunPart
<1> QED BY <1>1, <1>3, <1>4, <1>5, EndsAtRest

(* envid2env finds live environments only.                                 *)
LEMMA FoundIsLive ==
  ASSUME EnvInv, k.op = "user", NEW envid \in 0 .. IDLIMIT - 1,
         NEW e, e = envid2env(envid, TRUE), e # NULL
  PROVE  e \in Slots \ FreeSlots(envs)
<1>1. CASE envid = 0
  BY <1>1, UserFacts DEF envid2env
<1>2. CASE envid # 0
  <2>1. PICK x : x = envid % NENV
    OBVIOUS
  <2>2. x \in Slots
    BY <2>1, EnvAssumption DEF Slots
  <2>3. e = x /\ envs[x].env_status # "FREE"
    BY <1>2, <2>1 DEF envid2env
  <2> QED BY <2>2, <2>3 DEF FreeSlots
<1> QED BY <1>1, <1>2

(* sys_env_destroy.                                                        *)
LEMMA sys_env_destroyInv ==
  ASSUME EnvInv, NEW envid \in 0 .. IDLIMIT - 1, sys_env_destroy(envid)
  PROVE  EnvInv'
<1>1. PICK e : e = envid2env(envid, TRUE)
  OBVIOUS
<1>2. /\ k.op = "user" /\ Quiet /\ m' = m
      /\ k' = IF e = NULL THEN k
              ELSE [Idle EXCEPT !.op = "free", !.e = e, !.pdeno = -1, !.next = "monitor"]
  BY <1>1 DEF sys_env_destroy, Quiet
<1>3. CASE e = NULL
  <2>1. k' = k
    BY <1>2, <1>3
  <2>2. k \in KType /\ k.pp = NULL /\ EnvVm(m, DirsOf(envs), {}) /\ m.cr3 # NULL
    BY <1>2, EmptyHand DEF EnvInv, TypePart
  <2>3. EnvVm(m', DirsOf(envs), HeldOf(k'.pp)) /\ RunPart(m'.cr3, envs, curenv, k'.op)
    BY <1>2, <2>1 DEF EnvInv
  <2> QED BY <1>2, <2>1, <2>2, <2>3, EndsAtRest
<1>4. CASE e # NULL
  <2>1. e \in Slots \ FreeSlots(envs)
    BY <1>1, <1>2, <1>4, FoundIsLive
  <2>2. k' = [Idle EXCEPT !.op = "free", !.e = e, !.pdeno = -1, !.next = "monitor"]
    BY <1>2, <1>4
  <2> QED BY <1>2, <2>1, <2>2, StartFree
<1> QED BY <1>3, <1>4

(* The kernel calls env_free or env_destroy.                               *)
LEMMA CallFreeInv ==
  ASSUME EnvInv, NEW e \in Slots, NEW next \in {"idle", "monitor"}, CallFree(e, next)
  PROVE  EnvInv'
<1>1. /\ k.op = "idle" /\ Quiet /\ m' = m /\ e \in Slots \ FreeSlots(envs)
      /\ k' = [Idle EXCEPT !.op = "free", !.e = e, !.pdeno = -1, !.next = next]
  BY DEF CallFree, Quiet, FreeSlots
<1> QED BY <1>1, StartFree

(* A panic elsewhere.                                                      *)
LEMMA _panicInv ==
  ASSUME EnvInv, _panic
  PROVE  EnvInv'
<1>1. k.op = "idle" /\ Quiet /\ m' = m /\ k' = Panic("elsewhere")
  BY DEF _panic, Quiet
<1>2. EnvVm(m, DirsOf(envs), {}) /\ m.cr3 # NULL
  BY <1>1, EmptyHand
<1> QED BY <1>1, <1>2, PanicInv DEF Reasons

(* The MMU caches a translation, wherever the kernel is.                   *)
LEMMA TlbFillInv ==
  ASSUME EnvInv, NEW v \in TlbVas, TlbFill(v[1], v[2])
  PROVE  EnvInv'
<1>1. PICK i, j : i = v[1] /\ j = v[2]
  OBVIOUS
<1>2. /\ m.cr3 # NULL /\ Walk(m, m.cr3, i, j).p /\ Filled(m, i, j, m')
      /\ Quiet /\ k' = k /\ i \in Ents /\ j \in Ents
  BY <1>1, EnvAssumption DEF TlbFill, Filled, Quiet
<1>3. PICK D, H : D = DirsOf(envs) /\ H = HeldOf(k.pp)
  OBVIOUS
<1>4. EnvVm(m, D, H) /\ Vm(m, D, H)
  BY <1>3 DEF EnvInv, EnvVm
<1>5. Vm(m', D, H) /\ UserSame(m, m', D) /\ m'.mem = m.mem /\ m'.cr3 = m.cr3
  BY <1>2, <1>4, FillVm
<1>6. EnvVm(m', D, H)
  BY <1>4, <1>5, SameEnvVm DEF KernSame
<1>7. EnvVm(m', DirsOf(envs'), HeldOf(k'.pp))
  BY <1>2, <1>3, <1>6 DEF Quiet
<1>8. k.op # "boot" /\ k' \in KType
  BY <1>2 DEF EnvInv, BootPart, TypePart
<1>9. TypePart' /\ ListPart' /\ BootPart' /\ OwnPart(envs') /\ IdPart(envs')
  BY <1>2, <1>5, <1>8, QuietFacts
<1>10. WorkPart' /\ RunPart(m'.cr3, envs', curenv', k'.op)
  BY <1>2, <1>5 DEF EnvInv, WorkPart, Quiet
<1>11. \A d, x, y : Walk(m', d, x, y) = Walk(m, d, x, y)
  BY <1>5 DEF Walk
<1>12. LoadPart'
  <2>1. \A d : NoneGone(m, m', d)
    BY <1>11 DEF NoneGone
  <2>2. ASSUME NEW d, NEW op, NEW prog, NEW seg, NEW n, NEW pp,
               LoadAt(m, d, op, prog, seg, n, pp)
        PROVE  LoadAt(m', d, op, prog, seg, n, pp)
    BY <1>5, <2>1, <2>2, PagesStay DEF LoadAt
  <2> QED BY <1>2, <2>2 DEF EnvInv, LoadPart, Quiet
<1>13. FreePos'
  <2>1. ASSUME NEW d, NEW a, NEW b, FreeAt(m, d, a, b) PROVE FreeAt(m', d, a, b)
    BY <1>5, <1>11, <2>1 DEF FreeAt
  <2> QED BY <1>2, <2>1 DEF EnvInv, FreePos, Quiet
<1> QED
  BY <1>7, <1>9, <1>10, <1>12, <1>13 DEF EnvInv

(* A step that changes nothing.                                            *)
LEMMA StutterInv ==
  ASSUME EnvInv, UNCHANGED vars
  PROVE  EnvInv'
<1>1. m' = m /\ envs' = envs /\ env_free_list' = env_free_list /\ curenv' = curenv /\ k' = k
  BY DEF vars
<1>2. TypePart' /\ ListPart' /\ BootPart' /\ WorkPart' /\ LoadPart' /\ FreePos'
  BY <1>1 DEF EnvInv, TypePart, ListPart, BootPart, WorkPart, LoadPart, FreePos
<1>3. /\ EnvVm(m', DirsOf(envs'), HeldOf(k'.pp)) /\ OwnPart(envs') /\ IdPart(envs')
      /\ RunPart(m'.cr3, envs', curenv', k'.op)
  BY <1>1 DEF EnvInv
<1> QED BY <1>2, <1>3 DEF EnvInv

(* env_run.                                                                *)
LEMMA env_runInv ==
  ASSUME EnvInv, NEW e \in Slots, env_run(e)
  PROVE  EnvInv'
<1>1. /\ k.op = "idle" /\ envs[e].env_status \in {"RUNNABLE", "RUNNING"} /\ curenv' = e
      /\ m' = lcr3(m, envs[e].env_pgdir) /\ k' = [Idle EXCEPT !.op = "user"]
      /\ env_free_list' = env_free_list
  BY DEF env_run
<1>2. e \in Slots \ FreeSlots(envs)
  BY <1>1 DEF FreeSlots
<1>3. EnvVm(m, DirsOf(envs), {}) /\ m.cr3 # NULL
  BY <1>1, EmptyHand
<1>4. PICK d : d = envs[e].env_pgdir
  OBVIOUS
<1>5. d \in DirsOf(envs) /\ d # NULL
  BY <1>2, <1>4, InvFacts
<1>6. EnvVm(m', DirsOf(envs), {}) /\ m'.cr3 = d
  BY <1>1, <1>3, <1>4, <1>5, lcr3EnvVm
<1>7. k' \in KType /\ k'.op = "user" /\ k'.pp = NULL
  BY <1>1, IdleType DEF KType, Ops
<1>8. /\ envs' \in [Slots -> EnvType]
      /\ \A f \in Slots :
           /\ envs'[f].env_id = envs[f].env_id /\ envs'[f].env_pgdir = envs[f].env_pgdir
           /\ envs'[f].env_link = envs[f].env_link
           /\ envs'[f].env_status = IF f = e THEN "RUNNING"
                                    ELSE IF f = curenv /\ envs[f].env_status = "RUNNING"
                                    THEN "RUNNABLE" ELSE envs[f].env_status
  <2>1. envs' = [f \in Slots |->
                  IF f = e THEN [envs[f] EXCEPT !.env_status = "RUNNING"]
                  ELSE IF f = curenv /\ envs[f].env_status = "RUNNING"
                  THEN [envs[f] EXCEPT !.env_status = "RUNNABLE"]
                  ELSE envs[f]]
    BY DEF env_run
  <2>2. ASSUME NEW f \in Slots
        PROVE  /\ envs'[f] \in EnvType
               /\ envs'[f].env_id = envs[f].env_id /\ envs'[f].env_pgdir = envs[f].env_pgdir
               /\ envs'[f].env_link = envs[f].env_link
               /\ envs'[f].env_status = IF f = e THEN "RUNNING"
                                        ELSE IF f = curenv /\ envs[f].env_status = "RUNNING"
                                        THEN "RUNNABLE" ELSE envs[f].env_status
    <3>1. envs[f] \in EnvType
      BY DEF EnvInv, TypePart
    <3>2. envs'[f] = IF f = e THEN [envs[f] EXCEPT !.env_status = "RUNNING"]
                     ELSE IF f = curenv /\ envs[f].env_status = "RUNNING"
                     THEN [envs[f] EXCEPT !.env_status = "RUNNABLE"]
                     ELSE envs[f]
      BY <2>1
    <3> QED BY <3>1, <3>2 DEF EnvType, Status
  <2> QED BY <2>1, <2>2
<1>9. FreeSlots(envs') = FreeSlots(envs)
  BY <1>2, <1>8 DEF FreeSlots
<1>10. DirsOf(envs') = DirsOf(envs)
  BY <1>8 DEF DirsOf
<1>11. OwnPart(envs') /\ IdPart(envs')
  <2>1. \A f \in Slots : envs'[f].env_status = "FREE" <=> envs[f].env_status = "FREE"
    BY <1>2, <1>8 DEF FreeSlots
  <2> QED BY <1>8, <2>1 DEF EnvInv, OwnPart, IdPart
<1>12. TypePart'
  BY <1>1, <1>7, <1>8 DEF EnvInv, TypePart
<1>13. ListPart'
  <2>1. EnvList(env_free_list, envs, FreeSlots(envs))
    BY <1>1 DEF EnvInv, ListPart
  <2>2. EnvList(env_free_list, envs', FreeSlots(envs))
    BY <1>8, <2>1, SameEnvList DEF SameLinks
  <2> QED BY <1>1, <1>9, <2>2 DEF ListPart
<1>14. BootPart' /\ WorkPart' /\ LoadPart' /\ FreePos'
  BY <1>5, <1>6, <1>7 DEF BootPart, WorkPart, LoadPart, FreePos, LoadOps
<1>15. RunPart(m'.cr3, envs', curenv', k'.op)
  <2>1. \A f \in Slots : envs'[f].env_status = "RUNNING" => f = e
    BY <1>8 DEF EnvInv, RunPart
  <2>2. e # NULL
    BY DEF Slots, NULL
  <2> QED BY <1>1, <1>4, <1>6, <1>7, <1>8, <2>1, <2>2 DEF RunPart
<1>16. EnvVm(m', DirsOf(envs'), HeldOf(k'.pp))
  BY <1>6, <1>7, <1>10 DEF HeldOf
<1> QED
  BY <1>11, <1>12, <1>13, <1>14, <1>15, <1>16 DEF EnvInv

-----------------------------------------------------------------------------
(* env_free.                                                               *)
LEMMA FreeFacts ==
  ASSUME EnvInv, k.op = "free", NEW d, d = envs[k.e].env_pgdir
  PROVE  /\ k.e \in Slots \ FreeSlots(envs) /\ d \in DirsOf(envs) /\ d # KERN_PGDIR /\ d # NULL
         /\ FreeAt(m, d, k.pdeno, k.pteno) /\ k \in KType /\ k.pp = NULL
         /\ EnvVm(m, DirsOf(envs), {}) /\ m.cr3 # NULL /\ RunPart(m.cr3, envs, curenv, "free")
         /\ d \in Frames
<1>1. k.e \in Slots \ FreeSlots(envs)
  BY DEF EnvInv, WorkPart
<1>2. d \in DirsOf(envs) /\ d # KERN_PGDIR /\ d # NULL /\ DirsOf(envs) \subseteq Frames
  BY <1>1, InvFacts
<1>3. FreeAt(m, d, k.pdeno, k.pteno) /\ k \in KType
  BY DEF EnvInv, FreePos, TypePart
<1>4. k.pp = NULL /\ EnvVm(m, DirsOf(envs), {}) /\ m.cr3 # NULL
  BY EmptyHand
<1>5. RunPart(m.cr3, envs, curenv, "free")
  BY DEF EnvInv
<1> QED BY <1>1, <1>2, <1>3, <1>4, <1>5

(* env_free leaves the address space that it is about to take apart.       *)
LEMMA env_free_startInv ==
  ASSUME EnvInv, env_free_start
  PROVE  EnvInv'
<1>1. /\ k.op = "free" /\ k.pdeno = -1 /\ Quiet
      /\ m' = IF k.e = curenv THEN lcr3(m, KERN_PGDIR) ELSE m
      /\ k' = [k EXCEPT !.pdeno = 0]
  BY DEF env_free_start, Quiet
<1>2. PICK d : d = envs[k.e].env_pgdir
  OBVIOUS
<1>3. /\ k.e \in Slots \ FreeSlots(envs) /\ d \in DirsOf(envs) /\ d # KERN_PGDIR /\ d # NULL
      /\ FreeAt(m, d, k.pdeno, k.pteno) /\ k \in KType /\ k.pp = NULL
      /\ EnvVm(m, DirsOf(envs), {}) /\ m.cr3 # NULL /\ RunPart(m.cr3, envs, curenv, "free")
  BY <1>1, <1>2, FreeFacts
<1>4. k.pteno = 0
  <2>1. ~(k.pteno > 0)
    BY <1>1, <1>3 DEF FreeAt, UserPdx
  <2> QED BY <1>3, <2>1, PhysAssumption DEF KType
<1>k. k' \in KType /\ k'.op = "free" /\ k'.e = k.e /\ k'.pp = NULL /\ k'.pdeno = 0 /\ k'.pteno = 0
  <2>1. 0 \in -1 .. UTOPX
    BY LayoutAssumption
  <2> QED BY <1>1, <1>3, <1>4, <2>1 DEF KType
<1>5. /\ EnvVm(m', DirsOf(envs), {}) /\ m'.cr3 # NULL /\ m'.cr3 # d
      /\ RunPart(m'.cr3, envs, curenv, "free")
  <2>1. CASE k.e = curenv
    <3>1. EnvVm(m', DirsOf(envs), {}) /\ m'.cr3 = KERN_PGDIR
      BY <1>1, <1>3, <2>1, InvFacts, lcr3EnvVm
    <3>2. KERN_PGDIR # NULL
      BY LayoutFacts
    <3> QED BY <1>3, <3>1, <3>2 DEF RunPart
  <2>2. CASE k.e # curenv
    <3>1. m' = m
      BY <1>1, <2>2
    <3>2. m.cr3 # d
      <4>1. CASE m.cr3 = KERN_PGDIR
        BY <1>3, <4>1
      <4>2. CASE curenv # NULL /\ m.cr3 = envs[curenv].env_pgdir
        <5>1. curenv \in Slots
          BY <4>2 DEF EnvInv, TypePart
        <5> QED BY <1>2, <1>3, <2>2, <4>2, <5>1 DEF EnvInv, OwnPart
      <4> QED BY <1>3, <4>1, <4>2 DEF RunPart
    <3> QED BY <1>3, <3>1, <3>2
  <2> QED BY <2>1, <2>2
<1>6. FreeAt(m', d, 0, 0)
  BY <1>5 DEF FreeAt, UserPdx, Ents
<1> QED BY <1>1, <1>2, <1>3, <1>k, <1>5, <1>6, EndsFreeing

(* A round of the loops of env_free.                                       *)
LEMMA env_free_entryInv ==
  ASSUME EnvInv, env_free_entry
  PROVE  EnvInv'
<1>1. k.op = "free" /\ k.pdeno \in UserPdx /\ Quiet
  BY DEF env_free_entry, Quiet
<1>2. PICK d, a, b, D : d = envs[k.e].env_pgdir /\ a = k.pdeno /\ b = k.pteno /\ D = DirsOf(envs)
  OBVIOUS
<1>3. /\ k.e \in Slots \ FreeSlots(envs) /\ d \in D /\ d # KERN_PGDIR /\ d # NULL
      /\ FreeAt(m, d, a, b) /\ k \in KType /\ k.pp = NULL
      /\ EnvVm(m, D, {}) /\ Vm(m, D, {}) /\ m.cr3 # NULL /\ RunPart(m.cr3, envs, curenv, "free")
  BY <1>1, <1>2, FreeFacts DEF EnvVm
<1>4. /\ a \in UserPdx /\ a \in Int /\ b \in 0 .. NENT /\ a + 1 \in -1 .. UTOPX /\ a >= 0
      /\ UserPdx \subseteq Ents
  BY <1>1, <1>2, <1>3, LayoutAssumption, LayoutFacts DEF KType, UserPdx
<1>5. m.cr3 # d /\ (\A i \in UserPdx : i < a => ~m.mem[d][i].p)
  BY <1>3, <1>4 DEF FreeAt
<1>6. ASSUME NEW a2 \in -1 .. UTOPX, NEW b2 \in 0 .. NENT,
             k' = [k EXCEPT !.pdeno = a2, !.pteno = b2],
             EnvVm(m', D, {}), m'.cr3 = m.cr3, FreeAt(m', d, a2, b2)
      PROVE  EnvInv'
  <2>k. /\ k' \in KType /\ k'.op = "free" /\ k'.e = k.e /\ k'.pp = NULL /\ k'.pdeno = a2
        /\ k'.pteno = b2
    BY <1>1, <1>3, <1>6 DEF KType
  <2> QED BY <1>1, <1>2, <1>3, <1>6, <2>k, EndsFreeing
<1>7. CASE ~m.mem[d][a].p
  <2>1. k' = [k EXCEPT !.pdeno = a + 1] /\ m' = m
    BY <1>2, <1>7 DEF env_free_entry
  <2>2. b = 0
    BY <1>3, <1>4, <1>7, PhysAssumption DEF FreeAt
  <2>3. k' = [k EXCEPT !.pdeno = a + 1, !.pteno = 0]
    BY <1>2, <1>3, <2>1, <2>2 DEF KType
  <2>4. FreeAt(m, d, a + 1, 0)
    <3>1. \A i \in UserPdx : i < a + 1 => ~m.mem[d][i].p
      BY <1>4, <1>5, <1>7 DEF UserPdx
    <3> QED BY <1>5, <3>1 DEF FreeAt, Ents
  <2>5. 0 \in 0 .. NENT
    BY PhysAssumption
  <2> QED BY <1>3, <1>4, <1>6, <2>1, <2>3, <2>4, <2>5
<1>8. CASE m.mem[d][a].p /\ b < NENT
  <2>1. k' = [k EXCEPT !.pteno = b + 1] /\ b \in Ents /\ b + 1 \in 0 .. NENT
    BY <1>2, <1>4, <1>8, PhysAssumption DEF env_free_entry, Ents
  <2>2. k' = [k EXCEPT !.pdeno = a, !.pteno = b + 1]
    BY <1>2, <1>3, <2>1 DEF KType
  <2>3. a \in -1 .. UTOPX
    BY <1>4, LayoutAssumption DEF UserPdx
  <2>4. CASE ~Walk(m, d, a, b).p
    <3>1. m' = m
      BY <1>2, <1>8, <2>4 DEF env_free_entry
    <3>2. FreeAt(m, d, a, b + 1)
      <4>1. \A j \in Ents : j < b + 1 => ~Walk(m, d, a, j).p
        BY <1>3, <1>4, <2>4 DEF FreeAt, Ents
      <4> QED BY <1>4, <1>5, <1>8, <4>1 DEF FreeAt
    <3> QED BY <1>3, <1>6, <2>1, <2>2, <2>3, <3>1, <3>2
  <2>5. CASE Walk(m, d, a, b).p
    <3>1. m' = page_remove(m, d, a, b)
      BY <1>2, <1>8, <2>5 DEF env_free_entry
    <3>2. /\ Vm(m', D, {}) /\ OnlyAt(m, m', D, d, a, b) /\ Walk(m', d, a, b) = ZeroPTE
          /\ SameDirs(m, m', D) /\ m'.cr3 = m.cr3
      BY <1>3, <1>4, <2>1, <2>5, <3>1, page_removeVm
    <3>3. EnvVm(m', D, {})
      <4>1. KernSame(m, m')
        BY <1>3, <3>2, KernKept
      <4> QED BY <1>3, <1>4, <2>1, <3>2, <4>1, RemoveEnvVm
    <3>4. FreeAt(m', d, a, b + 1)
      <4>1. m'.mem[d] = m.mem[d]
        BY <1>3, <3>2 DEF SameDirs
      <4>2. \A j \in Ents : j < b + 1 => ~Walk(m', d, a, j).p
        <5> SUFFICES ASSUME NEW j \in Ents, j < b + 1 PROVE ~Walk(m', d, a, j).p
          OBVIOUS
        <5>1. CASE j = b
          BY <3>2, <5>1 DEF ZeroPTE
        <5>2. CASE j # b
          <6>1. j < b
            BY <1>4, <5>2 DEF Ents
          <6>2. Walk(m', d, a, j) = Walk(m, d, a, j)
            BY <1>3, <1>4, <3>2, <5>2 DEF OnlyAt
          <6> QED BY <1>3, <6>1, <6>2 DEF FreeAt
        <5> QED BY <5>1, <5>2
      <4> QED BY <1>4, <1>5, <1>8, <3>2, <4>1, <4>2 DEF FreeAt
    <3> QED BY <1>6, <2>1, <2>2, <2>3, <3>2, <3>3, <3>4
  <2> QED BY <2>4, <2>5
<1>9. CASE m.mem[d][a].p /\ ~(b < NENT)
  <2>1. k' = [k EXCEPT !.pdeno = a + 1, !.pteno = 0] /\ m' = free_table(m, d, a)
    BY <1>2, <1>9 DEF env_free_entry
  <2>2. b = NENT
    BY <1>4, <1>9, PhysAssumption
  <2>3. \A l \in Ents : ~Walk(m, d, a, l).p
    BY <1>3, <2>2, PhysAssumption DEF FreeAt, Ents
  <2>4. /\ Vm(m', D, {}) /\ UserSame(m, m', D) /\ m'.cr3 = m.cr3
        /\ SamePdes(m, m', D, d, a) /\ ~m'.mem[d][a].p
    BY <1>3, <1>4, <1>5, <1>9, <2>1, <2>3, free_tableVm
  <2>5. EnvVm(m', D, {})
    <3>1. KernSame(m, m')
      BY <1>3, <2>4, KernKept
    <3> QED BY <1>3, <2>4, <3>1, SameEnvVm
  <2>6. FreeAt(m', d, a + 1, 0)
    <3>1. \A i \in UserPdx : i < a + 1 => ~m'.mem[d][i].p
      <4> SUFFICES ASSUME NEW i \in UserPdx, i < a + 1 PROVE ~m'.mem[d][i].p
        OBVIOUS
      <4>1. CASE i = a
        BY <2>4, <4>1
      <4>2. CASE i # a
        <5>1. i < a /\ i \in Ents
          BY <1>4, <4>2 DEF UserPdx
        <5>2. m'.mem[d][i] = m.mem[d][i]
          BY <1>3, <2>4, <4>2, <5>1 DEF SamePdes
        <5> QED BY <1>5, <5>1, <5>2
      <4> QED BY <4>1, <4>2
    <3> QED BY <1>5, <2>4, <3>1 DEF FreeAt, Ents
  <2>7. 0 \in 0 .. NENT
    BY PhysAssumption
  <2> QED BY <1>4, <1>6, <2>1, <2>4, <2>5, <2>6, <2>7
<1> QED BY <1>7, <1>8, <1>9

(* What env_free makes of the table: slot e is free and on the list.       *)
Released(t, t2, e, head) ==
  /\ t2[e].env_pgdir = NULL /\ t2[e].env_status = "FREE" /\ t2[e].env_link = head
  /\ t2[e].env_id = t[e].env_id
  /\ \A f \in Slots \ {e} : t2[f] = t[f]

(* env_free writes one slot.                                               *)
LEMMA ReleasedTable ==
  ASSUME NEW t \in [Slots -> EnvType], NEW e \in Slots, NEW head \in Slots \cup {NULL},
         NEW t2, t2 = [t EXCEPT ![e] = [@ EXCEPT !.env_pgdir = NULL, !.env_status = "FREE",
                                                 !.env_link = head]]
  PROVE  t2 \in [Slots -> EnvType] /\ Released(t, t2, e, head)
<1>1. t[e] \in EnvType
  OBVIOUS
<1>2. PICK r : r = [t[e] EXCEPT !.env_pgdir = NULL, !.env_status = "FREE", !.env_link = head]
  OBVIOUS
<1>3. /\ r \in EnvType /\ r.env_pgdir = NULL /\ r.env_status = "FREE" /\ r.env_link = head
      /\ r.env_id = t[e].env_id
  BY <1>1, <1>2 DEF EnvType, Status
<1>4. t2 = [t EXCEPT ![e] = r]
  BY <1>2
<1>5. t2[e] = r /\ (\A f \in Slots \ {e} : t2[f] = t[f]) /\ t2 \in [Slots -> EnvType]
  BY <1>3, <1>4
<1> QED BY <1>3, <1>5 DEF Released

(* One slot more is free, and one directory is gone.                       *)
LEMMA ReleasedParts ==
  ASSUME NEW t, NEW t2, NEW e \in Slots \ FreeSlots(t), NEW head, Released(t, t2, e, head),
         OwnPart(t), IdPart(t)
  PROVE  /\ OwnPart(t2) /\ IdPart(t2)
         /\ FreeSlots(t2) = FreeSlots(t) \cup {e}
         /\ DirsOf(t2) = DirsOf(t) \ {t[e].env_pgdir}
<1>1. \A f \in Slots \ {e} : t2[f] = t[f]
  BY DEF Released
<1>2. t2[e].env_pgdir = NULL /\ t2[e].env_status = "FREE" /\ t2[e].env_id = t[e].env_id
  BY DEF Released
<1>3. NULL # KERN_PGDIR
  BY LayoutFacts
<1>4. OwnPart(t2)
  BY <1>1, <1>2, <1>3 DEF OwnPart
<1>5. IdPart(t2)
  BY <1>1, <1>2 DEF IdPart
<1>6. FreeSlots(t2) = FreeSlots(t) \cup {e}
  BY <1>1, <1>2 DEF FreeSlots
<1>7. DirsOf(t2) \subseteq DirsOf(t) \ {t[e].env_pgdir}
  <2>1. ASSUME NEW f \in Slots, t2[f].env_pgdir # NULL
        PROVE  t2[f].env_pgdir \in DirsOf(t) \ {t[e].env_pgdir}
    <3>1. f # e /\ t2[f] = t[f]
      BY <1>1, <1>2, <2>1
    <3> QED BY <2>1, <3>1 DEF OwnPart, DirsOf
  <2>2. KERN_PGDIR \in DirsOf(t) \ {t[e].env_pgdir}
    BY DEF OwnPart, DirsOf
  <2> QED BY <2>1, <2>2 DEF DirsOf
<1>8. DirsOf(t) \ {t[e].env_pgdir} \subseteq DirsOf(t2)
  BY <1>1 DEF DirsOf
<1> QED BY <1>4, <1>5, <1>6, <1>7, <1>8

(* env_free releases the directory and the slot.                           *)
LEMMA env_free_doneInv ==
  ASSUME EnvInv, env_free_done
  PROVE  EnvInv'
<1>1. /\ k.op = "free" /\ k.pdeno = UTOPX /\ curenv' = curenv
      /\ m' = page_decref(m, envs[k.e].env_pgdir)
      /\ env_free_list' = k.e /\ k' = [Idle EXCEPT !.op = k.next]
  BY DEF env_free_done
<1>2. PICK d, e, D, head : d = envs[k.e].env_pgdir /\ e = k.e /\ D = DirsOf(envs)
                           /\ head = env_free_list
  OBVIOUS
<1>3. /\ e \in Slots \ FreeSlots(envs) /\ d \in D /\ d # KERN_PGDIR /\ d # NULL
      /\ FreeAt(m, d, UTOPX, k.pteno) /\ k \in KType /\ k.pp = NULL
      /\ EnvVm(m, D, {}) /\ Vm(m, D, {}) /\ m.cr3 # NULL /\ RunPart(m.cr3, envs, curenv, "free")
  BY <1>1, <1>2, FreeFacts DEF EnvVm
<1>4. m.cr3 # d /\ \A i \in UserPdx : ~m.mem[d][i].p
  BY <1>3, LayoutAssumption DEF FreeAt, UserPdx
<1>5. Vm(m', D \ {d}, {}) /\ m'.mem = m.mem /\ m'.cr3 = m.cr3
  BY <1>1, <1>2, <1>3, <1>4, FreeDirVm
<1>6. EnvVm(m', D \ {d}, {})
  BY <1>3, <1>5, DropDirEnvVm
<1>7. envs \in [Slots -> EnvType] /\ head \in Slots \cup {NULL} /\ OwnPart(envs) /\ IdPart(envs)
  BY <1>2 DEF EnvInv, TypePart
<1>8. envs' \in [Slots -> EnvType] /\ Released(envs, envs', e, head)
  <2>1. envs' = [envs EXCEPT ![e] = [@ EXCEPT !.env_pgdir = NULL, !.env_status = "FREE",
                                              !.env_link = head]]
    BY <1>2 DEF env_free_done
  <2> QED BY <1>3, <1>7, <2>1, ReleasedTable
<1>9. /\ OwnPart(envs') /\ IdPart(envs')
      /\ FreeSlots(envs') = FreeSlots(envs) \cup {e} /\ DirsOf(envs') = D \ {d}
  BY <1>2, <1>3, <1>7, <1>8, ReleasedParts
<1>k. k' \in KType /\ k'.op = k.next /\ k.next \in {"idle", "monitor"} /\ k'.pp = NULL
  BY <1>1, <1>3, IdleType DEF KType, Ops
<1>10. TypePart'
  BY <1>1, <1>2, <1>3, <1>8, <1>k DEF EnvInv, TypePart
<1>11. ListPart'
  <2>1. EnvList(head, envs, FreeSlots(envs))
    BY <1>1, <1>2 DEF EnvInv, ListPart
  <2>2. envs'[e].env_link = head /\ OtherLinks(envs, envs', e)
    BY <1>8 DEF Released, OtherLinks
  <2>3. EnvList(e, envs', FreeSlots(envs) \cup {e})
    BY <1>3, <2>1, <2>2, PushEnv
  <2> QED BY <1>1, <1>2, <1>9, <2>3 DEF ListPart
<1>12. BootPart' /\ WorkPart' /\ LoadPart' /\ FreePos'
  BY <1>3, <1>5, <1>k DEF BootPart, WorkPart, LoadPart, FreePos, LoadOps
<1>13. RunPart(m'.cr3, envs', curenv', k'.op)
  <2>1. \A f \in Slots : envs'[f].env_status = "RUNNING" => f = curenv
    <3>1. \A f \in Slots : envs'[f].env_status = "RUNNING" => envs[f].env_status = "RUNNING"
      BY <1>8 DEF Released
    <3> QED BY <1>3, <3>1 DEF RunPart
  <2>2. m.cr3 = KERN_PGDIR \/ (curenv # NULL /\ m.cr3 = envs'[curenv].env_pgdir)
    <3>1. CASE curenv # NULL /\ m.cr3 = envs[curenv].env_pgdir
      <4>1. curenv \in Slots /\ curenv # e
        BY <1>2, <1>4, <3>1 DEF EnvInv, TypePart
      <4> QED BY <1>8, <3>1, <4>1 DEF Released
    <3> QED BY <1>3, <3>1 DEF RunPart
  <2> QED BY <1>1, <1>5, <1>k, <2>1, <2>2 DEF RunPart
<1>14. EnvVm(m', DirsOf(envs'), HeldOf(k'.pp))
  BY <1>6, <1>9, <1>k DEF HeldOf
<1> QED
  BY <1>9, <1>10, <1>11, <1>12, <1>13, <1>14 DEF EnvInv

-----------------------------------------------------------------------------
(* env_create.  What env_alloc makes of the table: slot e is live, with    *)
(* the directory d and a new env_id.                                       *)
Created(t, t2, e, d) ==
  /\ t2[e].env_pgdir = d /\ t2[e].env_status = "RUNNABLE"
  /\ t2[e].env_id = next_env_id(t[e].env_id, e) /\ t2[e].env_id # t[e].env_id
  /\ t2[e].env_link = t[e].env_link
  /\ \A f \in Slots \ {e} : t2[f] = t[f]

IdOf(id, e) == id \in 1 .. IDLIMIT - 1 /\ id % NENV = e

(* env_alloc writes one slot.                                              *)
LEMMA CreatedTable ==
  ASSUME NEW t \in [Slots -> EnvType], IdPart(t), NEW e \in Slots, NEW d \in Frames,
         NEW id, id = next_env_id(t[e].env_id, e),
         NEW t2, t2 = [t EXCEPT ![e] = [@ EXCEPT !.env_id = id, !.env_status = "RUNNABLE",
                                                 !.env_pgdir = d]]
  PROVE  t2 \in [Slots -> EnvType] /\ Created(t, t2, e, d) /\ IdOf(t2[e].env_id, e)
<1>1. t[e] \in EnvType
  OBVIOUS
<1>2. PICK old : old = t[e].env_id /\ id = next_env_id(old, e)
  OBVIOUS
<1>3. old \in 0 .. IDLIMIT - 1 /\ (old # 0 => old % NENV = e)
  BY <1>1, <1>2 DEF EnvType, IdPart
<1>4. id \in 1 .. IDLIMIT - 1 /\ id % NENV = e /\ id # old
  BY <1>2, <1>3, NewId
<1>i. id \in 0 .. IDLIMIT - 1
  BY <1>4, EnvAssumption
<1>5. PICK r : r = [t[e] EXCEPT !.env_id = id, !.env_status = "RUNNABLE", !.env_pgdir = d]
  OBVIOUS
<1>6. /\ r \in EnvType /\ r.env_pgdir = d /\ r.env_status = "RUNNABLE"
      /\ r.env_link = t[e].env_link /\ r.env_id = id
  BY <1>1, <1>i, <1>5 DEF EnvType, Status
<1>7. t2 = [t EXCEPT ![e] = r]
  BY <1>2, <1>5
<1>8. t2[e] = r /\ (\A f \in Slots \ {e} : t2[f] = t[f]) /\ t2 \in [Slots -> EnvType]
  BY <1>6, <1>7
<1> QED BY <1>2, <1>4, <1>6, <1>8 DEF Created, IdOf

(* One slot less is free, and there is a directory more.                   *)
LEMMA CreatedParts ==
  ASSUME NEW t, NEW t2, NEW e \in FreeSlots(t), NEW d \in Frames \ DirsOf(t),
         Created(t, t2, e, d), IdOf(t2[e].env_id, e),
         OwnPart(t), IdPart(t)
  PROVE  /\ OwnPart(t2) /\ IdPart(t2)
         /\ FreeSlots(t2) = FreeSlots(t) \ {e}
         /\ DirsOf(t2) = DirsOf(t) \cup {d}
<1>0. e \in Slots /\ t[e].env_status = "FREE" /\ t[e].env_pgdir = NULL
  BY DEF FreeSlots, OwnPart
<1>1. \A f \in Slots \ {e} : t2[f] = t[f]
  BY DEF Created
<1>2. t2[e].env_pgdir = d /\ t2[e].env_status = "RUNNABLE"
  BY DEF Created
<1>3. d # NULL /\ d # KERN_PGDIR /\ \A f \in Slots : t[f].env_pgdir # d
  <2>1. d # NULL
    BY PhysAssumption DEF Frames, NULL
  <2> QED BY <2>1 DEF DirsOf
<1>4. OwnPart(t2)
  BY <1>0, <1>1, <1>2, <1>3 DEF OwnPart
<1>5. IdPart(t2)
  <2>1. t2[e].env_id # 0 /\ t2[e].env_id % NENV = e
    BY DEF IdOf
  <2> QED BY <1>0, <1>1, <1>2, <2>1 DEF IdPart
<1>6. FreeSlots(t2) = FreeSlots(t) \ {e}
  BY <1>0, <1>1, <1>2 DEF FreeSlots
<1>7. DirsOf(t2) \subseteq DirsOf(t) \cup {d}
  <2>1. ASSUME NEW f \in Slots, t2[f].env_pgdir # NULL
        PROVE  t2[f].env_pgdir \in DirsOf(t) \cup {d}
    BY <1>1, <1>2, <2>1 DEF DirsOf
  <2> QED BY <2>1 DEF DirsOf
<1>8. DirsOf(t) \cup {d} \subseteq DirsOf(t2)
  <2>1. d \in DirsOf(t2)
    BY <1>0, <1>2, <1>3 DEF DirsOf
  <2>2. ASSUME NEW f \in Slots, t[f].env_pgdir # NULL PROVE t[f].env_pgdir \in DirsOf(t2)
    <3>1. f # e /\ t2[f] = t[f]
      BY <1>0, <1>1, <2>2
    <3> QED BY <2>2, <3>1 DEF DirsOf
  <2> QED BY <2>1, <2>2 DEF DirsOf
<1> QED BY <1>4, <1>5, <1>6, <1>7, <1>8

(* env_create: env_alloc with env_setup_vm.                                *)
LEMMA env_createInv ==
  ASSUME EnvInv, NEW prog \in Programs, env_create(prog)
  PROVE  EnvInv'
<1>1. PICK e, h, s2, D : /\ e = env_free_list /\ SetUp(m, h, s2) /\ D = DirsOf(envs)
  BY DEF SetUp
<1>2. /\ k.op = "idle" /\ curenv' = curenv
      /\ IF e = NULL \/ h = NULL
         THEN /\ k' = Panic(IF e = NULL THEN "no_free_env" ELSE "no_mem")
              /\ m' = m /\ Quiet
         ELSE /\ env_alloc(e, h) /\ m' = s2
              /\ k' = [Idle EXCEPT !.op = "start", !.e = e, !.prog = prog]
  BY <1>1 DEF env_create, SetUp, Quiet
<1>3. EnvVm(m, D, {}) /\ Vm(m, D, {}) /\ m.cr3 # NULL
  BY <1>1, <1>2, EmptyHand DEF EnvVm
<1>4. CASE e = NULL \/ h = NULL
  <2>1. PICK r : r = IF e = NULL THEN "no_free_env" ELSE "no_mem"
    OBVIOUS
  <2>2. r \in Reasons /\ k' = Panic(r) /\ m' = m /\ Quiet
    BY <1>2, <1>4, <2>1 DEF Reasons
  <2> QED BY <1>1, <1>2, <1>3, <2>2, PanicInv
<1>5. CASE e # NULL /\ h # NULL
  <2>1. /\ env_alloc(e, h) /\ m' = s2
        /\ k' = [Idle EXCEPT !.op = "start", !.e = e, !.prog = prog]
    BY <1>2, <1>5
  <2>2. /\ Vm(m', D \cup {h}, {}) /\ UserSame(m, m', D) /\ SameDirs(m, m', D)
        /\ m'.cr3 = m.cr3 /\ h \in Managed /\ h \notin D /\ NoUserPart(m', h)
    <3>1. SetUpDone(m, s2, D, {}, h)
      BY <1>1, <1>3, env_setup_vmVm
    <3> QED BY <1>5, <2>1, <3>1 DEF SetUpDone
  <2>3. EnvVm(m', D \cup {h}, {})
    <3>1. KernSame(m, m')
      BY <1>3, <2>2, KernKept
    <3> QED BY <1>3, <2>2, <3>1, NewDirEnvVm
  <2>4. /\ envs \in [Slots -> EnvType] /\ OwnPart(envs) /\ IdPart(envs)
        /\ EnvList(e, envs, FreeSlots(envs))
    BY <1>1, <1>2 DEF EnvInv, TypePart, ListPart
  <2>5. e \in FreeSlots(envs) /\ e \in Slots /\ h \in Frames
    <3>1. e \in FreeSlots(envs)
      BY <1>5, <2>4 DEF EnvList, EnvShape
    <3> QED BY <2>2, <3>1, LayoutFacts DEF FreeSlots
  <2>6. /\ envs' \in [Slots -> EnvType] /\ Created(envs, envs', e, h)
        /\ IdOf(envs'[e].env_id, e)
    <3>1. PICK id : id = next_env_id(envs[e].env_id, e)
      OBVIOUS
    <3>2. envs' = [envs EXCEPT ![e] = [@ EXCEPT !.env_id = id, !.env_status = "RUNNABLE",
                                                !.env_pgdir = h]]
      BY <2>1, <3>1 DEF env_alloc
    <3> QED BY <2>4, <2>5, <3>1, <3>2, CreatedTable
  <2>7. /\ OwnPart(envs') /\ IdPart(envs')
        /\ FreeSlots(envs') = FreeSlots(envs) \ {e} /\ DirsOf(envs') = D \cup {h}
    BY <1>1, <2>2, <2>4, <2>5, <2>6, CreatedParts
  <2>8. env_free_list' = envs[e].env_link
    BY <2>1 DEF env_alloc
  <2>k. k' \in KType /\ k'.op = "start" /\ k'.e = e /\ k'.prog = prog /\ k'.pp = NULL /\ k'.n = 0
    <3>1. prog \in Program /\ Idle.n = 0
      BY EnvAssumption DEF Idle
    <3> QED BY <2>1, <2>5, <3>1, IdleType DEF KType, Ops
  <2>10. TypePart'
    <3>1. envs[e].env_link \in Slots \cup {NULL}
      BY <2>4, <2>5 DEF EnvType
    <3> QED BY <1>2, <2>6, <2>8, <2>k, <3>1 DEF EnvInv, TypePart
  <2>11. ListPart'
    <3>1. OtherLinks(envs, envs', e)
      BY <2>6 DEF Created, OtherLinks
    <3>2. EnvList(envs[e].env_link, envs', FreeSlots(envs) \ {e})
      BY <1>5, <2>4, <3>1, PopEnv
    <3> QED BY <2>7, <2>8, <3>2 DEF ListPart
  <2>12. BootPart' /\ WorkPart' /\ LoadPart' /\ FreePos'
    BY <1>3, <2>2, <2>5, <2>7, <2>k DEF BootPart, WorkPart, LoadPart, FreePos, LoadOps
  <2>13. RunPart(m'.cr3, envs', curenv', k'.op)
    <3>0. RunPart(m.cr3, envs, curenv, "idle")
      BY <1>2 DEF EnvInv
    <3>1. \A f \in Slots : envs'[f].env_status = "RUNNING" => f = curenv
      <4>1. \A f \in Slots : envs'[f].env_status = "RUNNING" => envs[f].env_status = "RUNNING"
        BY <2>6 DEF Created
      <4> QED BY <3>0, <4>1 DEF RunPart
    <3>2. m.cr3 = KERN_PGDIR \/ (curenv # NULL /\ m.cr3 = envs'[curenv].env_pgdir)
      <4>1. CASE curenv # NULL /\ m.cr3 = envs[curenv].env_pgdir
        <5>1. envs[e].env_pgdir = NULL
          BY <2>4, <2>5 DEF OwnPart, FreeSlots
        <5>2. curenv \in Slots /\ curenv # e
          BY <1>3, <4>1, <5>1 DEF EnvInv, TypePart
        <5> QED BY <2>6, <4>1, <5>2 DEF Created
      <4> QED BY <3>0, <4>1 DEF RunPart
    <3> QED BY <1>2, <2>2, <2>k, <3>1, <3>2 DEF RunPart
  <2>14. EnvVm(m', DirsOf(envs'), HeldOf(k'.pp))
    BY <2>3, <2>7, <2>k DEF HeldOf
  <2> QED
    BY <2>7, <2>10, <2>11, <2>12, <2>13, <2>14 DEF EnvInv
<1> QED BY <1>4, <1>5

-----------------------------------------------------------------------------
(* The invariant is inductive.                                             *)
LEMMA NextInv ==
  ASSUME EnvInv, [Next]_vars
  PROVE  EnvInv'
<1>1. CASE env_init
  BY <1>1, env_initInv
<1>2. CASE \E prog \in Programs : env_create(prog)
  BY <1>2, env_createInv
<1>3. CASE LoadStep
  BY <1>3, load_icodeInv, region_allocInv, region_insertInv, next_regionInv,
     copy_segmentInv, load_doneInv DEF LoadStep
<1>4. CASE \E e \in Slots : env_run(e)
  BY <1>4, env_runInv
<1>5. CASE \E i, j \in Ents : UserWrite(i, j)
  BY <1>5, UserWriteInv
<1>6. CASE Trap
  BY <1>6, TrapInv
<1>7. CASE \E envid \in 0 .. IDLIMIT - 1 : sys_env_destroy(envid)
  BY <1>7, sys_env_destroyInv
<1>8. CASE TrapHandled
  BY <1>8, TrapHandledInv
<1>9. CASE \E e \in Slots, next \in {"idle", "monitor"} : CallFree(e, next)
  BY <1>9, CallFreeInv
<1>10. CASE FreeStep
  BY <1>10, env_free_startInv, env_free_entryInv, env_free_doneInv DEF FreeStep
<1>11. CASE monitor \/ UNCHANGED vars
  BY <1>11, StutterInv DEF monitor
<1>12. CASE _panic
  BY <1>12, _panicInv
<1>13. CASE \E v \in TlbVas : TlbFill(v[1], v[2])
  BY <1>13, TlbFillInv
<1> QED
  BY <1>1, <1>2, <1>3, <1>4, <1>5, <1>6, <1>7, <1>8, <1>9, <1>10, <1>11, <1>12, <1>13
  DEF Next

(* Invariance: EnvInv holds in every reachable state of kern/env.c.        *)
THEOREM Invariance == Spec => []EnvInv
<1>1. Init => EnvInv
  BY InitInv
<1>2. EnvInv /\ [Next]_vars => EnvInv'
  BY NextInv
<1> QED
  BY <1>1, <1>2, PTL DEF Spec

-----------------------------------------------------------------------------
(* What the invariant implies.                                             *)

(* TypeOK holds in every reachable state: the fields of envs[], the list   *)
(* head, curenv and all of memory stay within their types.                 *)
THEOREM TypeCorrect == Spec => []TypeOK
<1>1. EnvInv => TypeOK
  <2> SUFFICES ASSUME EnvInv PROVE TypeOK
    OBVIOUS
  <2>1. m \in Machine
    BY InvFacts
  <2>2. k.op \in Ops
    BY DEF EnvInv, TypePart, KType
  <2> QED BY <2>1, <2>2 DEF EnvInv, TypePart, EnvType, TypeOK
<1> QED
  BY <1>1, Invariance, PTL

(* EnvListExact holds in every reachable state: env_alloc and env_free     *)
(* keep env_free_list to the environments that are ENV_FREE, and those     *)
(* alone are without a page directory.                                     *)
THEOREM FreeEnvironments == Spec => []EnvListExact
<1>1. EnvInv => EnvListExact
  <2> SUFFICES ASSUME EnvInv, k.op # "boot", NEW e \in Slots
               PROVE  /\ e \in FreeEnvs <=> envs[e].env_status = "FREE"
                      /\ envs[e].env_pgdir = NULL <=> envs[e].env_status = "FREE"
    BY DEF EnvListExact
  <2>1. FreeEnvs = Listed(env_free_list, envs)
    BY DEF FreeEnvs, Listed, Linked
  <2>2. FreeSlots(envs) = Listed(env_free_list, envs)
    BY DEF EnvInv, ListPart, EnvList
  <2>3. e \in FreeEnvs <=> envs[e].env_status = "FREE"
    BY <2>1, <2>2 DEF FreeSlots
  <2>4. envs[e].env_pgdir = NULL <=> envs[e].env_status = "FREE"
    BY DEF EnvInv, OwnPart
  <2> QED BY <2>3, <2>4
<1> QED
  BY <1>1, Invariance, PTL

(* UserMode holds in every reachable state: env_pop_tf leaves the kernel   *)
(* for curenv only, which is then the one environment that is ENV_RUNNING, *)
(* with its own page directory in %cr3.                                    *)
THEOREM UserRunsAsCurenv == Spec => []UserMode
<1>1. EnvInv => UserMode
  BY DEF EnvInv, RunPart, UserMode
<1> QED
  BY <1>1, Invariance, PTL

(* PagesApart holds in every reachable state: the pages region_alloc maps  *)
(* for one environment are never those of another, or mapped twice.        *)
THEOREM PagesNotShared == Spec => []PagesApart
<1>1. EnvInv => PagesApart
  <2> SUFFICES ASSUME EnvInv PROVE PagesApart
    OBVIOUS
  <2>0. /\ MappedOnce(m, DirsOf(envs)) /\ Vm(m, DirsOf(envs), HeldOf(k.pp))
    BY DEF EnvInv, EnvVm
  <2>1. ASSUME NEW e \in Slots, NEW pa \in PagesOf(e)
        PROVE  /\ envs[e].env_pgdir \in DirsOf(envs) /\ envs[e].env_pgdir # NULL
               /\ \E i \in UserPdx, j \in Ents :
                    /\ Walk(m, envs[e].env_pgdir, i, j).p
                    /\ Walk(m, envs[e].env_pgdir, i, j).pa = pa
    <3>1. envs[e].env_pgdir # NULL
      BY <2>1 DEF PagesOf
    <3>2. envs[e].env_pgdir \in DirsOf(envs)
      BY <3>1 DEF DirsOf
    <3>3. PICK v \in {x \in UserPdx \X Ents : Walk(m, envs[e].env_pgdir, x[1], x[2]).p} :
            pa = Walk(m, envs[e].env_pgdir, v[1], v[2]).pa
      BY <2>1, <3>1 DEF PagesOf
    <3> QED BY <3>1, <3>2, <3>3
  <2>2. ASSUME NEW e \in Slots, NEW f \in Slots, e # f
        PROVE  PagesOf(e) \cap PagesOf(f) = {}
    <3> SUFFICES ASSUME NEW pa \in PagesOf(e) \cap PagesOf(f) PROVE FALSE
      OBVIOUS
    <3>1. PICK d1, d2 : d1 = envs[e].env_pgdir /\ d2 = envs[f].env_pgdir
      OBVIOUS
    <3>2. /\ d1 \in DirsOf(envs) /\ d1 # NULL
          /\ \E i \in UserPdx, j \in Ents : Walk(m, d1, i, j).p /\ Walk(m, d1, i, j).pa = pa
      BY <2>1, <3>1
    <3>3. /\ d2 \in DirsOf(envs)
          /\ \E i \in UserPdx, j \in Ents : Walk(m, d2, i, j).p /\ Walk(m, d2, i, j).pa = pa
      BY <2>1, <3>1
    <3>4. d1 = d2
      BY <2>0, <3>2, <3>3 DEF MappedOnce
    <3> QED BY <2>2, <3>1, <3>2, <3>4 DEF EnvInv, OwnPart
  <2>3. ASSUME k.op = "insert", NEW e \in Slots
        PROVE  k.pp \notin PagesOf(e)
    <3> SUFFICES ASSUME k.pp \in PagesOf(e) PROVE FALSE
      OBVIOUS
    <3>1. PICK d : d = envs[e].env_pgdir
      OBVIOUS
    <3>2. PICK i \in UserPdx, j \in Ents : Walk(m, d, i, j).p /\ Walk(m, d, i, j).pa = k.pp
      BY <2>1, <3>1
    <3>3. d \in DirsOf(envs)
      BY <2>1, <3>1
    <3>4. k.pp # NULL
      BY <2>3, LoadFacts DEF LoadOps, LoadAt
    <3>5. k.pp \in HeldOf(k.pp)
      BY <3>4 DEF HeldOf
    <3> QED BY <2>0, <3>2, <3>3, <3>5, HeldUnmapped
  <2> QED BY <2>2, <2>3 DEF PagesApart
<1> QED
  BY <1>1, Invariance, PTL

(* MemoryReturned holds in every reachable state: env_free gives back all  *)
(* that env_create and load_icode took.                                    *)
THEOREM MemoryIsReturned == Spec => []MemoryReturned
<1>1. EnvInv => MemoryReturned
  <2> SUFFICES ASSUME EnvInv, k.op \in {"idle", "monitor"},
                      \A e \in Slots : envs[e].env_status = "FREE", NEW f \in Managed
               PROVE  m.ref[f] = 0
    BY DEF MemoryReturned
  <2>1. k.pp = NULL /\ EnvVm(m, DirsOf(envs), {})
    BY EmptyHand
  <2>2. DirsOf(envs) = {KERN_PGDIR}
    BY NoDirs DEF EnvInv, FreeSlots
  <2>3. PICK role \in [Managed -> Roles] : VmInv(m, {KERN_PGDIR}, {}, role)
    BY <2>1, <2>2 DEF EnvVm, Vm
  <2>4. NoKernTabs(m) /\ \A i \in UserPdx : ~m.mem[KERN_PGDIR][i].p
    BY <2>1, <2>3 DEF EnvVm, VmInv, DirPart
  <2>5. role[f] # "dir"
    BY <2>3, LayoutFacts DEF VmInv, DirPart
  <2>6. role[f] # "utab"
    BY <2>3, <2>4 DEF VmInv, UserTabPart
  <2>7. role[f] # "ktab"
    BY <2>3, <2>4 DEF VmInv, KernTabPart, NoKernTabs
  <2>8. role[f] # "page"
    <3>1. PteRefs(m, {KERN_PGDIR}, f) = {}
      <4> SUFFICES ASSUME NEW x \in PteRefs(m, {KERN_PGDIR}, f) PROVE FALSE
        OBVIOUS
      <4>1. x[1] = KERN_PGDIR /\ x[2] \in UserPdx /\ Walk(m, x[1], x[2], x[3]).p
        BY DEF PteRefs
      <4> QED BY <2>4, <4>1 DEF Walk, ZeroPTE
    <3> QED BY <2>3, <3>1 DEF VmInv, CountPart
  <2>9. role[f] \in {"free", "held"}
    BY <2>3, <2>5, <2>6, <2>7, <2>8 DEF Roles
  <2> QED BY <2>3, <2>9 DEF VmInv, CountPart
<1> QED
  BY <1>1, Invariance, PTL

(* Loaded holds in every reachable state: where load_icode ends without a  *)
(* panic, all of the program and its stack is mapped, readable and         *)
(* writable.                                                               *)
THEOREM ProgramIsLoaded == Spec => []Loaded
<1>1. EnvInv => Loaded
  <2> SUFFICES ASSUME EnvInv, k.op = "done" PROVE Loaded
    BY DEF Loaded
  <2>1. PICK d, prog : d = envs[k.e].env_pgdir /\ prog = k.prog
    OBVIOUS
  <2>2. /\ prog \in Programs /\ d \in DirsOf(envs)
        /\ LoadAt(m, d, "done", prog, k.seg, k.n, k.pp)
    BY <2>1, LoadFacts, InvFacts DEF LoadOps
  <2>3. /\ k.seg = Len(prog.ph) + 1 /\ Behind(m, d, prog, Len(prog.ph) + 1)
        /\ PagesIn(m, d, Stack, 1)
    BY <2>2 DEF LoadAt, RegionOf
  <2>4. AllRWU(m, DirsOf(envs))
    BY DEF EnvInv, EnvVm
  <2>5. ASSUME NEW h, NEW va \in Nat, NEW sz \in Nat, h.va = va, h.memsz = sz,
               PagesIn(m, d, h, touched(h)), NEW b \in Nat, b < sz
        PROVE  Mapped(d, va + b)
    <3>0. InPage(h, va + b)
      BY <2>5, BytePage
    <3>1. PICK n \in Nat : /\ n < touched(h)
                           /\ PDX(va + b) = PDX(PageAt(h, n))
                           /\ PTX(va + b) = PTX(PageAt(h, n))
      BY <3>0 DEF InPage
    <3>2. Present(m, d, PageAt(h, n))
      BY <2>5, <3>1 DEF PagesIn
    <3>3. Present(m, d, va + b)
      BY <3>1, <3>2 DEF Present
    <3> QED BY <2>2, <2>4, <3>3 DEF Present, AllRWU, Mapped
  <2>6. ASSUME NEW s \in DOMAIN prog.ph, prog.ph[s].load,
               NEW b \in 0 .. prog.ph[s].memsz - 1
        PROVE  Mapped(d, prog.ph[s].va + b)
    <3>1. prog.ph \in Seq(Proghdr)
      BY <2>2, EnvAssumption DEF Program
    <3>2. s \in 1 .. Len(prog.ph) /\ s < Len(prog.ph) + 1 /\ prog.ph[s] \in Proghdr
      BY <3>1
    <3>3. PICK h, va, sz : h = prog.ph[s] /\ va = h.va /\ sz = h.memsz
      OBVIOUS
    <3>4. va \in Nat /\ sz \in Nat /\ b \in Nat /\ b < sz
      BY <3>2, <3>3 DEF Proghdr
    <3>5. PagesIn(m, d, h, touched(h))
      BY <2>3, <2>6, <3>2, <3>3 DEF Behind
    <3>6. Mapped(d, va + b)
      BY <2>5, <3>3, <3>4, <3>5
    <3> QED BY <3>3, <3>6
  <2>7. Mapped(d, USTACKTOP - 1)
    <3>1. /\ PGSIZE \in Nat \ {0} /\ USTACKTOP - PGSIZE \in Nat /\ PGSIZE - 1 \in Nat
          /\ USTACKTOP - PGSIZE + (PGSIZE - 1) = USTACKTOP - 1 /\ PGSIZE - 1 < PGSIZE
      BY EnvAssumption
    <3>2. Stack.va = USTACKTOP - PGSIZE /\ Stack.memsz = PGSIZE
      BY DEF Stack
    <3>3. PagesIn(m, d, Stack, touched(Stack))
      BY <2>3, StackPage
    <3>4. Mapped(d, (USTACKTOP - PGSIZE) + (PGSIZE - 1))
      BY <2>5, <3>1, <3>2, <3>3
    <3> QED BY <3>1, <3>4
  <2> QED BY <2>1, <2>6, <2>7 DEF Loaded
<1> QED
  BY <1>1, Invariance, PTL

-----------------------------------------------------------------------------
(* An environment comes in a slot by env_alloc only, with another env_id.  *)
LEMMA NewInSlot ==
  ASSUME EnvInv, [Next]_vars, NEW e \in Slots,
         envs[e].env_status = "FREE", envs'[e].env_status # "FREE"
  PROVE  envs'[e].env_id # envs[e].env_id
<1>0. envs' # envs
  OBVIOUS
<1>1. CASE env_init
  <2>1. envs \in [Slots -> EnvType]
    BY DEF EnvInv, TypePart
  <2>2. envs'[e] = [envs[e] EXCEPT !.env_link = IF e + 1 = NENV THEN NULL ELSE e + 1]
    BY <1>1 DEF env_init
  <2>3. envs'[e].env_status = envs[e].env_status
    BY <2>1, <2>2 DEF EnvType
  <2> QED BY <2>3
<1>2. CASE \E prog \in Programs : env_create(prog)
  <2>1. PICK prog \in Programs : env_create(prog)
    BY <1>2
  <2>2. PICK h, f : f = env_free_list /\ h = env_setup_vm(m).pp
    OBVIOUS
  <2>3. k.op = "idle" /\ f # NULL /\ h # NULL /\ env_alloc(f, h)
    BY <1>0, <2>1, <2>2 DEF env_create
  <2>4. envs \in [Slots -> EnvType] /\ IdPart(envs) /\ f \in Slots
    BY <2>2, <2>3 DEF EnvInv, TypePart
  <2>5. PICK id : id = next_env_id(envs[f].env_id, f)
    OBVIOUS
  <2>6. envs' = [envs EXCEPT ![f] = [@ EXCEPT !.env_id = id, !.env_status = "RUNNABLE",
                                              !.env_pgdir = h]]
    BY <2>3, <2>5 DEF env_alloc
  <2>7. h \in Frames
    <3>1. SetUp(m, h, env_setup_vm(m).m)
      BY <2>2 DEF SetUp
    <3>2. EnvVm(m, DirsOf(envs), {}) /\ Vm(m, DirsOf(envs), {}) /\ m.cr3 # NULL
      BY <2>3, EmptyHand DEF EnvVm
    <3>3. SetUpDone(m, env_setup_vm(m).m, DirsOf(envs), {}, h)
      BY <3>1, <3>2, env_setup_vmVm
    <3> QED BY <2>3, <3>3, LayoutFacts DEF SetUpDone
  <2>8. Created(envs, envs', f, h)
    BY <2>4, <2>5, <2>6, <2>7, CreatedTable
  <2>9. e = f
    BY <2>8 DEF Created
  <2> QED BY <2>8, <2>9 DEF Created
<1>3. CASE LoadStep
  BY <1>0, <1>3 DEF LoadStep, load_icode, region_alloc, region_insert, next_region,
                    copy_segment, load_done
<1>4. CASE \E f \in Slots : env_run(f)
  <2>1. PICK f \in Slots : env_run(f)
    BY <1>4
  <2>2. envs[f].env_status # "FREE"
    BY <2>1 DEF env_run
  <2>3. e # f /\ envs'[e] = envs[e]
    BY <2>1, <2>2 DEF env_run
  <2> QED BY <2>3
<1>5. CASE \E i, j \in Ents : UserWrite(i, j)
  BY <1>0, <1>5 DEF UserWrite
<1>6. CASE Trap \/ TrapHandled \/ monitor \/ _panic \/ UNCHANGED vars
  BY <1>0, <1>6 DEF Trap, TrapHandled, monitor, _panic, vars
<1>7. CASE \E envid \in 0 .. IDLIMIT - 1 : sys_env_destroy(envid)
  BY <1>0, <1>7 DEF sys_env_destroy
<1>8. CASE \E f \in Slots, next \in {"idle", "monitor"} : CallFree(f, next)
  BY <1>0, <1>8 DEF CallFree
<1>9. CASE FreeStep
  <2>1. env_free_done
    BY <1>0, <1>9 DEF FreeStep, env_free_start, env_free_entry
  <2>2. PICK f, head : f = k.e /\ head = env_free_list
    OBVIOUS
  <2>3. /\ envs \in [Slots -> EnvType] /\ head \in Slots \cup {NULL} /\ f \in Slots
    BY <2>1, <2>2 DEF EnvInv, TypePart, WorkPart, env_free_done
  <2>4. envs' = [envs EXCEPT ![f] = [@ EXCEPT !.env_pgdir = NULL, !.env_status = "FREE",
                                              !.env_link = head]]
    BY <2>1, <2>2 DEF env_free_done
  <2>5. Released(envs, envs', f, head)
    BY <2>3, <2>4, ReleasedTable
  <2> QED BY <2>5 DEF Released
<1>10. CASE \E v \in TlbVas : TlbFill(v[1], v[2])
  BY <1>0, <1>10 DEF TlbFill
<1> QED
  BY <1>1, <1>2, <1>3, <1>4, <1>5, <1>6, <1>7, <1>8, <1>9, <1>10 DEF Next

(* NewIncarnation holds of every step: the generation that env_alloc puts  *)
(* in an env_id makes envid2env refuse the env_id's of the past.           *)
THEOREM IncarnationsDiffer == Spec => NewIncarnation
<1>1. ASSUME EnvInv, EnvInv', [Next]_vars, NEW e \in Slots,
             NEW id \in {envs[e].env_id, envs'[e].env_id} \ {0}
      PROVE  /\ envs[e].env_status = "FREE" /\ envs'[e].env_status # "FREE" =>
                  envs'[e].env_id > 0 /\ envs'[e].env_id % NENV = e
             /\ /\ (envs[e].env_status = "FREE") # (envs'[e].env_status = "FREE")
                /\ envs[e].env_id = id
                => envid2env(id, FALSE)' = NULL
             /\ envs'[e].env_status # "FREE" /\ envs'[e].env_id = id =>
                  envid2env(id, FALSE)' = e
  <2>1. IdPart(envs) /\ IdPart(envs') /\ id # 0
    BY <1>1 DEF EnvInv
  <2>2. envs'[e].env_id \in 0 .. IDLIMIT - 1
    BY <1>1 DEF EnvInv, TypePart, EnvType
  <2>3. envs'[e].env_status # "FREE" => envs'[e].env_id > 0 /\ envs'[e].env_id % NENV = e
    BY <2>1, <2>2 DEF IdPart
  <2>4. ASSUME (envs[e].env_status = "FREE") # (envs'[e].env_status = "FREE"),
               envs[e].env_id = id
        PROVE  envid2env(id, FALSE)' = NULL
    <3>1. id % NENV = e
      BY <2>1, <2>4 DEF IdPart
    <3>2. envs'[e].env_status = "FREE" \/ envs'[e].env_id # id
      BY <1>1, <2>4, NewInSlot
    <3> QED BY <2>1, <3>1, <3>2 DEF envid2env
  <2>5. ASSUME envs'[e].env_status # "FREE", envs'[e].env_id = id
        PROVE  envid2env(id, FALSE)' = e
    <3>1. id % NENV = e
      BY <2>3, <2>5
    <3> QED BY <2>1, <2>5, <3>1 DEF envid2env
  <2> QED BY <2>3, <2>4, <2>5
<1>2. EnvInv /\ EnvInv' /\ [Next]_vars =>
        [\A e \in Slots : \A id \in {envs[e].env_id, envs'[e].env_id} \ {0} :
           LET old == envs[e] new == envs'[e]
           IN  /\ old.env_status = "FREE" /\ new.env_status # "FREE" =>
                    new.env_id > 0 /\ new.env_id % NENV = e
               /\ (old.env_status = "FREE") # (new.env_status = "FREE") /\ old.env_id = id =>
                    envid2env(id, FALSE)' = NULL
               /\ new.env_status # "FREE" /\ new.env_id = id =>
                    envid2env(id, FALSE)' = e]_vars
  BY <1>1
<1> QED
  BY <1>2, Invariance, PTL DEF Spec, NewIncarnation

-----------------------------------------------------------------------------
(* Copying does not fault.  This part holds of the programs whose regions  *)
(* region_alloc covers: it maps ROUNDUP(memsz) / PGSIZE pages, and the     *)
(* bytes of a region that starts inside a page may lie in one more (the    *)
(* run env_straddle shows that copying such a region faults).              *)
Covered ==
  \A prog \in Programs : \A x \in 1 .. Len(prog.ph) :
    prog.ph[x].load /\ prog.ph[x].filesz <= prog.ph[x].memsz
      => touched(prog.ph[x]) <= pgnum(prog.ph[x])

(* Where load_icode is in region h, the pages it has mapped for it.        *)
Whole(s, d, op, h, n) ==
  /\ op \in {"alloc", "insert"} => PagesIn(s, d, h, n)
  /\ op = "copy" => h.load /\ h.filesz <= h.memsz /\ PagesIn(s, d, h, pgnum(h))

Faultless ==
  /\ UserRWU(m, DirsOf(envs))
  /\ Whole(m, envs[k.e].env_pgdir, k.op, RegionOf(k.prog, k.seg), k.n)
  /\ k.why # "kernel_fault"

(* The reason in the records that k is set to.                             *)
LEMMA Whys ==
  /\ Idle.why = "none"
  /\ \A r \in Reasons : Panic(r).why = r
<1>1. Idle.why = "none"
  BY DEF Idle
<1>2. ASSUME NEW r \in Reasons PROVE Panic(r).why = r
  BY IdleType DEF Panic, KType
<1> QED BY <1>1, <1>2

(* Steps after which load_icode has no region in hand.                     *)
LEMMA NoRegion ==
  ASSUME UserRWU(m', DirsOf(envs')), k'.op \notin {"alloc", "insert", "copy"},
         k'.why # "kernel_fault"
  PROVE  Faultless'
BY DEF Faultless, Whole

(* Steps from one place of load_icode to another.                          *)
LEMMA InRegion ==
  ASSUME Quiet, UserRWU(m', DirsOf(envs)), k'.why # "kernel_fault", k'.e = k.e,
         Whole(m', envs[k.e].env_pgdir, k'.op, RegionOf(k'.prog, k'.seg), k'.n)
  PROVE  Faultless'
BY DEF Faultless, Quiet

(* A store leaves the directories and the TLB alone.                       *)
LEMMA storeRWU ==
  ASSUME NEW s, NEW D, NEW H, Vm(s, D, H), s.cr3 # NULL, NEW i \in Ents, NEW j \in Ents,
         CanStore(s, i, j), NEW c \in Contents, NEW s2, s2 = store(s, i, j, c),
         UserRWU(s, D)
  PROVE  UserRWU(s2, D)
<1>1. c \in [Ents -> PTE]
  BY EnvAssumption
<1>2. SameDirs(s, s2, D)
  BY <1>1, storeVm
<1>3. s \in Machine
  BY VmFacts
<1>4. s2.tlb = s.tlb
  BY <1>3 DEF store, Machine
<1>5. NoNewTlb(s, s2)
  BY <1>4 DEF NoNewTlb
<1> QED BY <1>2, <1>5, SameDirsRWU

(* Fewer directories.                                                      *)
LEMMA FewerRWU ==
  ASSUME NEW s, NEW D, NEW D2 \in SUBSET D, UserRWU(s, D)
  PROVE  UserRWU(s, D2)
BY DEF UserRWU

(* The same directories.                                                   *)
LEMMA SamePgdirs ==
  ASSUME NEW t, NEW t2, \A e \in Slots : t2[e].env_pgdir = t[e].env_pgdir
  PROVE  DirsOf(t2) = DirsOf(t)
BY DEF DirsOf

-----------------------------------------------------------------------------
(* When the kernel starts nothing is mapped.                               *)
LEMMA FirstFaultless == Init => Faultless
<1> SUFFICES ASSUME Init PROVE Faultless
  OBVIOUS
<1>1. PICK c \in [Frames -> Contents] : m = FirstMachine(c)
  BY DEF Init, FirstMachine, FirstDir
<1>2. c \in [Frames -> [Ents -> PTE]]
  BY EnvAssumption
<1>3. \A i \in UserPdx : ~m.mem[KERN_PGDIR][i].p
  BY <1>1, <1>2, FirstVm
<1>4. m.tlb = EmptyTlb
  BY <1>1 DEF FirstMachine
<1>5. DirsOf(envs) = {KERN_PGDIR}
  BY DEF DirsOf, Init
<1>6. UserPdx \subseteq Ents
  BY LayoutFacts
<1>7. \A a, b \in Ents : ~EmptyTlb[a][b].p
  BY DEF EmptyTlb, ZeroPage, ZeroPTE
<1>8. UserRWU(m, DirsOf(envs))
  BY <1>3, <1>4, <1>5, <1>6, <1>7 DEF UserRWU
<1>9. k.op = "boot" /\ k.why = "none"
  <2>1. k = [Idle EXCEPT !.op = "boot"]
    BY DEF Init
  <2> QED BY <2>1, IdleType, Whys DEF KType
<1> QED BY <1>8, <1>9 DEF Faultless, Whole

(* Steps that touch neither memory nor the directories.                    *)
LEMMA StillFaultless ==
  ASSUME Faultless, m' = m, DirsOf(envs') = DirsOf(envs),
         k'.op \notin {"alloc", "insert", "copy"}, k'.why # "kernel_fault"
  PROVE  Faultless'
BY NoRegion DEF Faultless

(* Steps that load %cr3.                                                   *)
LEMMA LoadsFaultless ==
  ASSUME EnvInv, Faultless, NEW d, m' = lcr3(m, d), DirsOf(envs') = DirsOf(envs),
         k'.op \notin {"alloc", "insert", "copy"}, k'.why # "kernel_fault"
  PROVE  Faultless'
<1>1. m \in Machine
  BY InvFacts
<1>2. UserRWU(m', DirsOf(envs))
  BY <1>1, lcr3RWU DEF Faultless
<1> QED BY <1>2, NoRegion

(* env_init.                                                               *)
LEMMA env_initFaultless ==
  ASSUME EnvInv, Faultless, env_init
  PROVE  Faultless'
<1>1. m' = lcr3(m, KERN_PGDIR) /\ k' = Idle
  BY DEF env_init
<1>2. \A e \in Slots : envs'[e].env_pgdir = envs[e].env_pgdir
  BY DEF env_init, EnvInv, TypePart, EnvType
<1>3. k'.op = "idle" /\ k'.why = "none"
  BY <1>1, IdleType, Whys
<1> QED BY <1>1, <1>2, <1>3, SamePgdirs, LoadsFaultless

(* env_create: the user part of a new directory is empty.                  *)
LEMMA env_createFaultless ==
  ASSUME EnvInv, Faultless, NEW prog \in Programs, env_create(prog)
  PROVE  Faultless'
<1>1. PICK e, h, s2, D : /\ e = env_free_list /\ SetUp(m, h, s2) /\ D = DirsOf(envs)
  BY DEF SetUp
<1>2. /\ k.op = "idle"
      /\ IF e = NULL \/ h = NULL
         THEN /\ k' = Panic(IF e = NULL THEN "no_free_env" ELSE "no_mem")
              /\ m' = m /\ envs' = envs
         ELSE /\ env_alloc(e, h) /\ m' = s2
              /\ k' = [Idle EXCEPT !.op = "start", !.e = e, !.prog = prog]
  BY <1>1 DEF env_create, SetUp
<1>3. Vm(m, D, {}) /\ m.cr3 # NULL /\ UserRWU(m, D)
  BY <1>1, <1>2, EmptyHand DEF EnvVm, Faultless
<1>4. CASE e = NULL \/ h = NULL
  <2>1. PICK r : r = IF e = NULL THEN "no_free_env" ELSE "no_mem"
    OBVIOUS
  <2>2. r \in Reasons /\ k' = Panic(r) /\ m' = m /\ envs' = envs /\ r # "kernel_fault"
    BY <1>2, <1>4, <2>1 DEF Reasons
  <2>3. k'.op = "panic" /\ k'.why = r
    BY <2>2, IdleType, Whys
  <2> QED BY <2>2, <2>3, StillFaultless
<1>5. CASE e # NULL /\ h # NULL
  <2>1. /\ env_alloc(e, h) /\ m' = s2
        /\ k' = [Idle EXCEPT !.op = "start", !.e = e, !.prog = prog]
    BY <1>2, <1>5
  <2>2. UserRWU(m', D \cup {h})
    BY <1>1, <1>3, <1>5, <2>1, env_setup_vmRWU
  <2>3. \A f \in Slots : envs'[f].env_pgdir = envs[f].env_pgdir \/ envs'[f].env_pgdir = h
    <3>1. PICK id : id = next_env_id(envs[e].env_id, e)
      OBVIOUS
    <3>2. envs' = [envs EXCEPT ![e] = [@ EXCEPT !.env_id = id, !.env_status = "RUNNABLE",
                                                !.env_pgdir = h]]
      BY <2>1, <3>1 DEF env_alloc
    <3>3. envs \in [Slots -> EnvType]
      BY DEF EnvInv, TypePart
    <3>4. PICK r : r = [envs[e] EXCEPT !.env_id = id, !.env_status = "RUNNABLE",
                                       !.env_pgdir = h]
      OBVIOUS
    <3>5. envs' = [envs EXCEPT ![e] = r]
      BY <3>2, <3>4
    <3> SUFFICES ASSUME NEW f \in Slots
                 PROVE  envs'[f].env_pgdir = envs[f].env_pgdir \/ envs'[f].env_pgdir = h
      OBVIOUS
    <3>6. CASE f = e
      BY <3>3, <3>4, <3>5, <3>6 DEF EnvType
    <3>7. CASE f # e
      BY <3>3, <3>5, <3>7
    <3> QED BY <3>6, <3>7
  <2>4. DirsOf(envs') \subseteq D \cup {h}
    BY <1>1, <2>3 DEF DirsOf
  <2>5. UserRWU(m', DirsOf(envs'))
    BY <2>2, <2>4, FewerRWU
  <2>6. k'.op = "start" /\ k'.why = "none"
    BY <2>1, IdleType, Whys DEF KType
  <2> QED BY <2>5, <2>6, NoRegion
<1> QED BY <1>4, <1>5

-----------------------------------------------------------------------------
(* load_icode.                                                             *)
(* load_icode up to its loop.                                              *)
LEMMA load_icodeFaultless ==
  ASSUME EnvInv, Faultless, load_icode
  PROVE  Faultless'
<1>1. k.op = "start" /\ Quiet
  BY DEF load_icode, Quiet
<1>2. /\ k \in KType /\ k.n = 0 /\ m \in Machine /\ UserRWU(m, DirsOf(envs))
      /\ k.why # "kernel_fault"
  BY <1>1, LoadFacts, InvFacts DEF LoadOps, EnvInv, WorkPart, Faultless
<1>3. CASE k.prog.elf
  <2>1. m' = lcr3(m, envs[k.e].env_pgdir) /\ k' = [k EXCEPT !.op = "alloc", !.seg = 1]
    BY <1>3 DEF load_icode
  <2>2. UserRWU(m', DirsOf(envs))
    BY <1>2, <2>1, lcr3RWU
  <2>3. k'.op = "alloc" /\ k'.e = k.e /\ k'.why = k.why /\ k'.n = 0
    BY <1>2, <2>1 DEF KType
  <2>4. Whole(m', envs[k.e].env_pgdir, k'.op, RegionOf(k'.prog, k'.seg), k'.n)
    BY <2>3, NoPages DEF Whole
  <2> QED BY <1>1, <1>2, <2>2, <2>3, <2>4, InRegion
<1>4. CASE ~k.prog.elf
  <2>1. k' = Panic("not_elf") /\ m' = m /\ envs' = envs
    BY <1>1, <1>4 DEF load_icode, Quiet
  <2>2. k'.op = "panic" /\ k'.why = "not_elf"
    BY <2>1, IdleType, Whys DEF Reasons
  <2> QED BY <2>1, <2>2, StillFaultless
<1> QED BY <1>3, <1>4

(* region_alloc, its call of page_alloc.                                   *)
LEMMA region_allocFaultless ==
  ASSUME EnvInv, Faultless, region_alloc
  PROVE  Faultless'
<1>1. k.op = "alloc" /\ Quiet
  BY DEF region_alloc, Quiet
<1>2. PICK d, D : d = envs[k.e].env_pgdir /\ D = DirsOf(envs)
  OBVIOUS
<1>3. /\ k \in KType /\ d \in D /\ Vm(m, D, {}) /\ UserRWU(m, D) /\ k.why # "kernel_fault"
      /\ PagesIn(m, d, RegionOf(k.prog, k.seg), k.n)
  BY <1>1, <1>2, LoadFacts, InvFacts, EmptyHand DEF LoadOps, Faultless, Whole, EnvVm
<1>4. PICK h, t, zero : zero = FALSE /\ h = page_alloc(m, zero).pp /\ t = page_alloc(m, zero).m
  OBVIOUS
<1>5. /\ m' = t
      /\ k' = IF h = NULL THEN Panic("no_mem") ELSE [k EXCEPT !.op = "insert", !.pp = h]
  BY <1>4 DEF region_alloc
<1>6. Allocated(m, D, {}, h, t)
  BY <1>3, <1>4, page_allocVm
<1>7. CASE h = NULL
  <2>1. m' = m /\ k' = Panic("no_mem") /\ envs' = envs
    BY <1>1, <1>5, <1>6, <1>7 DEF Allocated, Quiet
  <2>2. k'.op = "panic" /\ k'.why = "no_mem"
    BY <2>1, IdleType, Whys DEF Reasons
  <2> QED BY <2>1, <2>2, StillFaultless
<1>8. CASE h # NULL
  <2>1. UserSame(m, m', D) /\ SameDirs(m, m', D) /\ m'.tlb = m.tlb
    BY <1>5, <1>6, <1>8 DEF Allocated, KeepMmu
  <2>2. UserRWU(m', D)
    BY <1>3, <2>1, SameDirsRWU DEF NoNewTlb
  <2>3. /\ k'.op = "insert" /\ k'.e = k.e /\ k'.prog = k.prog /\ k'.seg = k.seg
        /\ k'.n = k.n /\ k'.why = k.why
    BY <1>3, <1>5, <1>8 DEF KType
  <2>4. PagesIn(m', d, RegionOf(k.prog, k.seg), k.n)
    BY <1>3, <2>1, SameNoneGone, PagesStay
  <2>5. Whole(m', d, k'.op, RegionOf(k'.prog, k'.seg), k'.n)
    BY <2>3, <2>4 DEF Whole
  <2> QED BY <1>1, <1>2, <1>3, <2>2, <2>3, <2>5, InRegion
<1> QED BY <1>7, <1>8

(* region_alloc, its call of page_insert: one page more is mapped.         *)
LEMMA region_insertFaultless ==
  ASSUME EnvInv, Faultless, region_insert
  PROVE  Faultless'
<1>1. k.op = "insert" /\ Quiet
  BY DEF region_insert, Quiet
<1>2. /\ k.e \in Slots \ FreeSlots(envs) /\ k.prog \in Programs /\ k \in KType
      /\ LoadAt(m, envs[k.e].env_pgdir, "insert", k.prog, k.seg, k.n, k.pp)
      /\ Here = RegionOf(k.prog, k.seg)
  BY <1>1, LoadFacts DEF LoadOps
<1>3. PICK d, h, va, i, j, pp, D :
        /\ d = envs[k.e].env_pgdir /\ h = Here /\ va = PageAt(h, k.n) /\ i = PDX(va) /\ j = PTX(va)
        /\ pp = k.pp /\ D = DirsOf(envs)
  OBVIOUS
<1>4. PICK s2, ok : Inserted(m, d, pp, i, j, RWU, s2, ok)
  BY DEF Inserted
<1>5. /\ m' = s2
      /\ k' = IF ~ok THEN [Panic("no_mem") EXCEPT !.pp = pp]
              ELSE [k EXCEPT !.op = "alloc", !.pp = NULL, !.n = k.n + 1]
  BY <1>3, <1>4 DEF region_insert, Inserted, PageAt
<1>6. k.seg \in 1 .. Len(k.prog.ph) + 1 /\ pp # NULL /\ k.n < pgnum(h)
  BY <1>2, <1>3 DEF LoadAt
<1>7. h.va \in Nat /\ h.memsz \in Nat /\ h.va + h.memsz <= USTACKTOP /\ k.n \in Nat
  BY <1>2, <1>3, <1>6, HereFacts DEF KType
<1>8. va \in Nat /\ va < USTACKTOP
  <2>1. va \in Nat /\ va < h.va + h.memsz
    BY <1>3, <1>6, <1>7, AllocBelow
  <2> QED BY <1>7, <2>1, EnvAssumption
<1>9. i \in UserPdx /\ j \in Ents
  BY <1>3, <1>8, UserAddress
<1>10. d \in D /\ d # KERN_PGDIR
  BY <1>2, <1>3, InvFacts
<1>11. Vm(m, D, {pp}) /\ UserRWU(m, D) /\ k.why # "kernel_fault" /\ PagesIn(m, d, h, k.n)
  BY <1>1, <1>2, <1>3, <1>6 DEF HeldOf, EnvInv, EnvVm, Faultless, Whole
<1>12. UserRWU(s2, D)
  BY <1>4, <1>9, <1>10, <1>11, page_insertRWU
<1>13. CASE ~ok
  <2>1. k' = [Panic("no_mem") EXCEPT !.pp = pp]
    BY <1>5, <1>13
  <2>2. k'.op = "panic" /\ k'.why = "no_mem"
    BY <2>1, IdleType, Whys DEF Reasons, KType
  <2>3. DirsOf(envs') = D
    BY <1>1, <1>3 DEF Quiet
  <2> QED BY <1>5, <1>12, <2>2, <2>3, NoRegion
<1>14. CASE ok
  <2>1. k' = [k EXCEPT !.op = "alloc", !.pp = NULL, !.n = k.n + 1]
    BY <1>5, <1>14
  <2>2. /\ k'.op = "alloc" /\ k'.e = k.e /\ k'.prog = k.prog /\ k'.seg = k.seg
        /\ k'.n = k.n + 1 /\ k'.why = k.why
    BY <1>2, <2>1 DEF KType
  <2>3. OnlyAt(m, s2, D, d, i, j) /\ MapsTo(s2, d, i, j, pp, RWU)
    <3>1. PICK H, perm : H = {pp} /\ perm = RWU
      OBVIOUS
    <3>2. pp \in H /\ Vm(m, D, H) /\ perm \in Perms
      BY <1>11, <3>1, EntryTypes
    <3>3. pp \in Managed /\ m.ref[pp] = 0
      BY <3>2, VmFacts, ZenonT(30)
    <3>4. Usable(m, D, H, pp) /\ m.ref[pp] + 1 < REFMOD
      BY <3>2, <3>3, PhysAssumption DEF Usable
    <3>5. Inserted(m, d, pp, i, j, perm, s2, ok)
      BY <1>4, <3>1
    <3>6. InsertDone(m, s2, D, H, d, i, j, pp, perm, ok)
      BY <1>9, <1>10, <3>2, <3>4, <3>5, page_insertVm
    <3> QED BY <1>14, <3>1, <3>6 DEF InsertDone
  <2>4. NoneGone(m, s2, d)
    BY <1>10, <2>3, InsertStays
  <2>5. Present(s2, d, va)
    BY <1>3, <1>9, <2>3 DEF Present, MapsTo, MkPTE
  <2>6. PagesIn(s2, d, h, k.n + 1)
    <3>1. SUFFICES ASSUME NEW l \in Nat, l < k.n + 1 PROVE Present(s2, d, PageAt(h, l))
      BY DEF PagesIn
    <3>2. PagesIn(s2, d, h, k.n)
      BY <1>11, <2>4, PagesStay
    <3>3. l < k.n \/ l = k.n
      BY <1>7, <3>1
    <3> QED BY <1>3, <2>5, <3>2, <3>3 DEF PagesIn
  <2>7. Whole(m', d, k'.op, RegionOf(k'.prog, k'.seg), k'.n)
    BY <1>2, <1>3, <1>5, <2>2, <2>6 DEF Whole
  <2> QED BY <1>1, <1>3, <1>5, <1>11, <1>12, <2>2, <2>7, InRegion
<1> QED BY <1>13, <1>14

(* Between two regions: all pages of the region are mapped.                *)
LEMMA next_regionFaultless ==
  ASSUME EnvInv, Faultless, next_region
  PROVE  Faultless'
<1>1. k.op = "alloc" /\ Quiet /\ m' = m
  BY DEF next_region, Quiet
<1>2. PICK d, h, n : d = envs[k.e].env_pgdir /\ h = Here /\ n = k.n
  OBVIOUS
<1>3. /\ k \in KType /\ h = RegionOf(k.prog, k.seg) /\ PagesIn(m, d, h, n)
      /\ n = 0 \/ h.load
      /\ UserRWU(m', DirsOf(envs)) /\ k.why # "kernel_fault"
  BY <1>1, <1>2, LoadFacts DEF LoadOps, Faultless, Whole, LoadAt
<1>4. CASE ~Here.load /\ k' = [k EXCEPT !.seg = @ + 1]
  <2>1. k'.op = "alloc" /\ k'.e = k.e /\ k'.n = 0 /\ k'.why = k.why
    BY <1>1, <1>2, <1>3, <1>4 DEF KType
  <2>2. Whole(m', d, k'.op, RegionOf(k'.prog, k'.seg), k'.n)
    BY <2>1, NoPages DEF Whole
  <2> QED BY <1>1, <1>2, <1>3, <2>1, <2>2, InRegion
<1>5. CASE k' = Panic("filesz")
  <2>1. k'.op = "panic" /\ k'.why = "filesz" /\ envs' = envs
    BY <1>1, <1>5, IdleType, Whys DEF Reasons, Quiet
  <2> QED BY <1>1, <2>1, StillFaultless
<1>6. CASE /\ Here.load /\ Here.filesz <= Here.memsz /\ k.n = pgnum(Here)
           /\ k' = [k EXCEPT !.op = IF OnStack THEN "done" ELSE "copy", !.n = 0]
  <2>1. PICK op : op = IF OnStack THEN "done" ELSE "copy"
    OBVIOUS
  <2>2. k' = [k EXCEPT !.op = op, !.n = 0] /\ op \in {"done", "copy"}
    BY <1>6, <2>1
  <2>3. /\ k'.op = op /\ k'.e = k.e /\ k'.prog = k.prog /\ k'.seg = k.seg
        /\ k'.why = k.why
    BY <1>3, <2>2 DEF KType
  <2>4. PagesIn(m', d, h, pgnum(h)) /\ h.load /\ h.filesz <= h.memsz
    BY <1>1, <1>2, <1>3, <1>6
  <2>5. Whole(m', d, k'.op, RegionOf(k'.prog, k'.seg), k'.n)
    BY <1>3, <2>2, <2>3, <2>4 DEF Whole
  <2> QED BY <1>1, <1>2, <1>3, <2>3, <2>5, InRegion
<1> QED BY <1>4, <1>5, <1>6 DEF next_region

(* The pages that the bytes of a region lie in are mapped when they are    *)
(* copied, so that the kernel may store there.                             *)
LEMMA copy_segmentFaultless ==
  ASSUME EnvInv, Covered, Faultless, copy_segment
  PROVE  Faultless'
<1>1. k.op = "copy" /\ Quiet
  BY DEF copy_segment, Quiet
<1>2. /\ k.e \in Slots \ FreeSlots(envs) /\ k.prog \in Programs /\ k \in KType
      /\ k.pp = NULL /\ EnvVm(m, DirsOf(envs), {}) /\ m.cr3 # NULL
      /\ LoadAt(m, envs[k.e].env_pgdir, "copy", k.prog, k.seg, k.n, k.pp)
      /\ Here = RegionOf(k.prog, k.seg)
  BY <1>1, LoadFacts, EmptyHand DEF LoadOps
<1>3. PICK d, h, n, va, i, j, D :
         /\ d = envs[k.e].env_pgdir /\ h = Here /\ n = k.n
         /\ va = PageAt(h, n) /\ i = PDX(va) /\ j = PTX(va) /\ D = DirsOf(envs)
  OBVIOUS
<1>4. /\ m.cr3 = d /\ k.seg \in 1 .. Len(k.prog.ph) + 1 /\ k.seg # Len(k.prog.ph) + 1
      /\ n <= touched(h) /\ n \in Nat /\ d \in D /\ Vm(m, D, {}) /\ AllRWU(m, D)
  BY <1>2, <1>3, InvFacts DEF LoadAt, KType, EnvVm
<1>5. /\ UserRWU(m, D) /\ k.why # "kernel_fault"
      /\ h.load /\ h.filesz <= h.memsz /\ PagesIn(m, d, h, pgnum(h))
  BY <1>1, <1>2, <1>3 DEF Faultless, Whole
<1>6. h.va \in Nat /\ h.memsz \in Nat /\ h.va + h.memsz <= USTACKTOP
  BY <1>2, <1>3, <1>4, HereFacts
<1>7. touched(h) \in Nat
  BY <1>6, TouchedNat
<1>8. touched(h) <= pgnum(h)
  <2>1. k.prog.ph \in Seq(Proghdr)
    BY <1>2, EnvAssumption DEF Program
  <2>2. k.seg \in 1 .. Len(k.prog.ph) /\ h = k.prog.ph[k.seg]
    BY <1>2, <1>3, <1>4, <2>1 DEF RegionOf
  <2> QED BY <1>2, <1>5, <2>2 DEF Covered
<1>9. CASE n = touched(h)
  <2>1. k' = [k EXCEPT !.op = "alloc", !.n = 0, !.seg = @ + 1] /\ m' = m
    BY <1>3, <1>9 DEF copy_segment
  <2>2. k'.op = "alloc" /\ k'.e = k.e /\ k'.n = 0 /\ k'.why = k.why
    BY <1>2, <2>1 DEF KType
  <2>3. Whole(m', d, k'.op, RegionOf(k'.prog, k'.seg), k'.n)
    BY <2>2, NoPages DEF Whole
  <2> QED BY <1>1, <1>3, <1>5, <2>1, <2>2, <2>3, InRegion
<1>10. CASE n # touched(h)
  <2>1. n < touched(h)
    BY <1>4, <1>7, <1>10
  <2>2. va \in Nat /\ va < USTACKTOP
    <3>1. va \in Nat /\ va < h.va + h.memsz
      BY <1>3, <1>4, <1>6, <2>1, TouchedBelow
    <3> QED BY <1>6, <3>1, EnvAssumption
  <2>3. i \in UserPdx /\ j \in Ents /\ i \in Ents
    BY <1>3, <2>2, UserAddress, LayoutFacts
  <2>4. n < pgnum(h)
    <3>1. pgnum(h) \in Int
      BY <1>6, EnvAssumption DEF pgnum, ROUNDUP
    <3> QED BY <1>4, <1>7, <1>8, <2>1, <3>1
  <2>5. Walk(m, m.cr3, i, j).p
    BY <1>3, <1>4, <1>5, <2>4 DEF PagesIn, Present
  <2>6. Walk(m, m.cr3, i, j).perm = RWU
    BY <1>4, <2>3, <2>5 DEF AllRWU
  <2>7. CanStore(m, i, j)
    BY <1>2, <1>4, <1>5, <2>3, <2>5, <2>6, MappedCanStore
  <2>8. k' = [k EXCEPT !.n = @ + 1] /\ \E c \in Contents : m' = store(m, i, j, c)
    BY <1>3, <1>10, <2>7 DEF copy_segment, PageAt
  <2>9. PICK c \in Contents : m' = store(m, i, j, c)
    BY <2>8
  <2>10. UserRWU(m', D)
    BY <1>2, <1>4, <1>5, <2>3, <2>7, <2>9, storeRWU
  <2>11. UserSame(m, m', D)
    BY <1>2, <1>3, <2>3, <2>7, <2>9, storeEnvVm
  <2>12. PagesIn(m', d, h, pgnum(h))
    BY <1>4, <1>5, <2>11, SameNoneGone, PagesStay
  <2>13. /\ k'.op = "copy" /\ k'.e = k.e /\ k'.prog = k.prog /\ k'.seg = k.seg
         /\ k'.why = k.why
    BY <1>1, <1>2, <2>8 DEF KType
  <2>14. Whole(m', d, k'.op, RegionOf(k'.prog, k'.seg), k'.n)
    BY <1>2, <1>3, <1>5, <2>12, <2>13 DEF Whole
  <2> QED BY <1>1, <1>3, <1>5, <2>10, <2>13, <2>14, InRegion
<1> QED BY <1>9, <1>10

(* The end of load_icode.                                                  *)
LEMMA load_doneFaultless ==
  ASSUME EnvInv, Faultless, load_done
  PROVE  Faultless'
<1>1. m' = lcr3(m, KERN_PGDIR) /\ k' = Idle /\ envs' = envs
  BY DEF load_done
<1>2. k'.op = "idle" /\ k'.why = "none"
  BY <1>1, IdleType, Whys
<1> QED BY <1>1, <1>2, LoadsFaultless

-----------------------------------------------------------------------------
(* User mode, the MMU, env_run and env_free.                               *)
(* A store of the user program.                                            *)
LEMMA UserFaultless ==
  ASSUME EnvInv, Faultless, NEW i \in Ents, NEW j \in Ents, UserWrite(i, j)
  PROVE  Faultless'
<1>1. k.op = "user" /\ envs' = envs /\ k' = k /\ CanStore(m, i, j)
  BY DEF UserWrite
<1>2. PICK c \in Contents : m' = store(m, i, j, c)
  BY DEF UserWrite
<1>3. PICK D : D = DirsOf(envs)
  OBVIOUS
<1>4. Vm(m, D, {}) /\ m.cr3 # NULL /\ UserRWU(m, D) /\ k.why # "kernel_fault"
  BY <1>1, <1>3, EmptyHand DEF EnvVm, Faultless
<1>5. UserRWU(m', D)
  BY <1>1, <1>2, <1>4, storeRWU
<1> QED BY <1>1, <1>3, <1>4, <1>5, NoRegion

(* The MMU caches a translation.                                           *)
LEMMA FillFaultless ==
  ASSUME EnvInv, Faultless, NEW v \in TlbVas, TlbFill(v[1], v[2])
  PROVE  Faultless'
<1>1. PICK i, j : i = v[1] /\ j = v[2]
  OBVIOUS
<1>2. /\ m.cr3 # NULL /\ Walk(m, m.cr3, i, j).p /\ Filled(m, i, j, m')
      /\ Quiet /\ k' = k /\ i \in Ents /\ j \in Ents
  BY <1>1, EnvAssumption DEF TlbFill, Filled, Quiet
<1>3. PICK D, H : D = DirsOf(envs) /\ H = HeldOf(k.pp)
  OBVIOUS
<1>4. Vm(m, D, H) /\ AllRWU(m, D) /\ UserRWU(m, D) /\ k.why # "kernel_fault"
  BY <1>3 DEF EnvInv, EnvVm, Faultless
<1>5. m.cr3 \in D
  BY <1>2, <1>4 DEF Vm, VmInv, TlbPart
<1>6. UserRWU(m', D)
  BY <1>2, <1>4, <1>5, FillRWU DEF AllRWU
<1>7. UserSame(m, m', D)
  BY <1>2, <1>4, FillVm
<1>8. m'.mem = m.mem
  BY <1>2, <1>4, FillVm
<1>9. \A d, x, y : Walk(m', d, x, y) = Walk(m, d, x, y)
  BY <1>8 DEF Walk
<1>10. \A d : NoneGone(m, m', d)
  BY <1>9 DEF NoneGone
<1>11. \A d, op, h, n : Whole(m, d, op, h, n) => Whole(m', d, op, h, n)
  BY <1>10, PagesStay DEF Whole
<1>12. Whole(m', envs[k.e].env_pgdir, k'.op, RegionOf(k'.prog, k'.seg), k'.n)
  BY <1>2, <1>11 DEF Faultless
<1> QED BY <1>2, <1>3, <1>4, <1>6, <1>12, InRegion

(* env_run.                                                                *)
LEMMA env_runFaultless ==
  ASSUME EnvInv, Faultless, NEW e \in Slots, env_run(e)
  PROVE  Faultless'
<1>1. m' = lcr3(m, envs[e].env_pgdir) /\ k' = [Idle EXCEPT !.op = "user"]
  BY DEF env_run
<1>2. \A f \in Slots : envs'[f].env_pgdir = envs[f].env_pgdir
  <2>1. envs \in [Slots -> EnvType]
    BY DEF EnvInv, TypePart
  <2> QED BY <2>1 DEF env_run, EnvType
<1>3. k'.op = "user" /\ k'.why = "none"
  BY <1>1, IdleType, Whys DEF KType
<1> QED BY <1>1, <1>2, <1>3, SamePgdirs, LoadsFaultless

(* The ways into env_free, and those back to the kernel.                   *)
LEMMA CallsFaultless ==
  ASSUME EnvInv, Faultless,
         Trap \/ TrapHandled \/ _panic
           \/ (\E envid \in 0 .. IDLIMIT - 1 : sys_env_destroy(envid))
           \/ (\E e \in Slots, next \in {"idle", "monitor"} : CallFree(e, next))
  PROVE  Faultless'
<1>1. m' = m /\ envs' = envs
  BY DEF Trap, TrapHandled, _panic, sys_env_destroy, CallFree
<1>2. ASSUME NEW e, NEW next, k' = [Idle EXCEPT !.op = "free", !.e = e, !.pdeno = -1,
                                                !.next = next]
      PROVE  k'.op = "free" /\ k'.why = "none"
  BY <1>2, IdleType, Whys DEF KType
<1>3. CASE k' = k /\ k.op = "user"
  BY <1>1, <1>3, StillFaultless DEF Faultless
<1>4. CASE \E e, next : k' = [Idle EXCEPT !.op = "free", !.e = e, !.pdeno = -1, !.next = next]
  BY <1>1, <1>2, <1>4, StillFaultless
<1>5. CASE k' = Idle
  BY <1>1, <1>5, IdleType, Whys, StillFaultless
<1>6. CASE k' = Panic("elsewhere")
  <2>1. k'.op = "panic" /\ k'.why = "elsewhere"
    BY <1>6, IdleType, Whys DEF Reasons
  <2> QED BY <1>1, <2>1, StillFaultless
<1>7. Trap => \E e, next : k' = [Idle EXCEPT !.op = "free", !.e = e, !.pdeno = -1,
                                             !.next = next]
  BY DEF Trap
<1>8. ASSUME NEW envid, sys_env_destroy(envid)
      PROVE  \/ k' = k /\ k.op = "user"
             \/ \E e, next : k' = [Idle EXCEPT !.op = "free", !.e = e, !.pdeno = -1,
                                               !.next = next]
  <2>1. PICK e : e = envid2env(envid, TRUE)
    OBVIOUS
  <2> QED BY <1>8, <2>1 DEF sys_env_destroy
<1>9. ASSUME NEW e, NEW next, CallFree(e, next)
      PROVE  k' = [Idle EXCEPT !.op = "free", !.e = e, !.pdeno = -1, !.next = next]
  BY <1>9 DEF CallFree
<1>10. (TrapHandled => k' = Idle) /\ (_panic => k' = Panic("elsewhere"))
  BY DEF TrapHandled, _panic
<1> QED BY <1>3, <1>4, <1>5, <1>6, <1>7, <1>8, <1>9, <1>10

(* The steps of env_free.                                                  *)
LEMMA env_freeFaultless ==
  ASSUME EnvInv, Faultless, FreeStep
  PROVE  Faultless'
<1>1. PICK d, a, b, D : d = envs[k.e].env_pgdir /\ a = k.pdeno /\ b = k.pteno /\ D = DirsOf(envs)
  OBVIOUS
<1>2. k.op = "free"
  BY DEF FreeStep, env_free_start, env_free_entry, env_free_done
<1>3. /\ d \in D /\ d # KERN_PGDIR /\ FreeAt(m, d, a, b) /\ k \in KType
      /\ Vm(m, D, {}) /\ m \in Machine /\ UserRWU(m, D) /\ k.why # "kernel_fault"
      /\ k.e \in Slots
  BY <1>1, <1>2, FreeFacts, InvFacts DEF EnvVm, Faultless
<1>4. CASE env_free_start
  <2>1. /\ m' = IF k.e = curenv THEN lcr3(m, KERN_PGDIR) ELSE m
        /\ k' = [k EXCEPT !.pdeno = 0] /\ envs' = envs
    BY <1>4 DEF env_free_start
  <2>2. k'.op = "free" /\ k'.why = k.why
    BY <1>2, <1>3, <2>1 DEF KType
  <2>3. CASE k.e = curenv
    BY <1>3, <2>1, <2>2, <2>3, LoadsFaultless
  <2>4. CASE k.e # curenv
    BY <1>3, <2>1, <2>2, <2>4, StillFaultless
  <2> QED BY <2>3, <2>4
<1>5. CASE env_free_entry
  <2>1. a \in UserPdx /\ envs' = envs
    BY <1>1, <1>5 DEF env_free_entry
  <2>2. k'.op = "free" /\ k'.why = k.why
    <3>1. \/ k' = [k EXCEPT !.pdeno = a + 1]
          \/ k' = [k EXCEPT !.pteno = b + 1]
          \/ k' = [k EXCEPT !.pdeno = a + 1, !.pteno = 0]
      BY <1>1, <1>5 DEF env_free_entry
    <3> QED BY <1>2, <1>3, <3>1 DEF KType
  <2>3. UserRWU(m', D)
    <3>1. CASE ~m.mem[d][a].p
      BY <1>1, <1>3, <1>5, <3>1 DEF env_free_entry
    <3>2. CASE m.mem[d][a].p /\ b < NENT
      <4>1. m' = IF Walk(m, d, a, b).p THEN page_remove(m, d, a, b) ELSE m
        BY <1>1, <1>5, <3>2 DEF env_free_entry
      <4>2. b \in Ents
        BY <1>1, <1>3, <3>2, PhysAssumption DEF KType, Ents
      <4>3. CASE Walk(m, d, a, b).p
        BY <1>3, <2>1, <4>1, <4>2, <4>3, page_removeRWU
      <4>4. CASE ~Walk(m, d, a, b).p
        BY <1>3, <4>1, <4>4
      <4> QED BY <4>3, <4>4
    <3>3. CASE m.mem[d][a].p /\ ~(b < NENT)
      <4>1. m' = free_table(m, d, a)
        BY <1>1, <1>5, <3>3 DEF env_free_entry
      <4>2. b = NENT
        BY <1>1, <1>3, <3>3, PhysAssumption DEF KType
      <4>3. \A l \in Ents : ~Walk(m, d, a, l).p
        BY <1>3, <4>2, PhysAssumption DEF FreeAt, Ents
      <4>4. m.cr3 # d
        <5>1. a >= 0
          BY <2>1 DEF UserPdx
        <5> QED BY <1>3, <5>1 DEF FreeAt
      <4> QED BY <1>3, <2>1, <3>3, <4>1, <4>3, <4>4, free_tableRWU
    <3> QED BY <3>1, <3>2, <3>3
  <2> QED BY <1>1, <1>3, <2>1, <2>2, <2>3, NoRegion
<1>6. CASE env_free_done
  <2>1. /\ m' = page_decref(m, d) /\ k' = [Idle EXCEPT !.op = k.next]
        /\ envs' = [envs EXCEPT ![k.e] = [@ EXCEPT !.env_pgdir = NULL, !.env_status = "FREE",
                                                   !.env_link = env_free_list]]
    BY <1>1, <1>6 DEF env_free_done
  <2>2. m'.tlb = m.tlb /\ m'.mem = m.mem
    BY <1>3, <2>1, page_decrefMmu
  <2>3. UserRWU(m', D)
    BY <1>3, <2>2 DEF UserRWU
  <2>4. \A f \in Slots : envs'[f].env_pgdir \in {envs[f].env_pgdir, NULL}
    <3>1. envs \in [Slots -> EnvType]
      BY DEF EnvInv, TypePart
    <3> SUFFICES ASSUME NEW f \in Slots
                 PROVE  envs'[f].env_pgdir \in {envs[f].env_pgdir, NULL}
      OBVIOUS
    <3>2. PICK r : r = [envs[k.e] EXCEPT !.env_pgdir = NULL, !.env_status = "FREE",
                                         !.env_link = env_free_list]
      OBVIOUS
    <3>3. envs' = [envs EXCEPT ![k.e] = r]
      BY <2>1, <3>2
    <3>4. CASE f = k.e
      BY <3>1, <3>2, <3>3, <3>4 DEF EnvType
    <3>5. CASE f # k.e
      BY <3>1, <3>3, <3>5
    <3> QED BY <3>4, <3>5
  <2>5. DirsOf(envs') \subseteq D
    BY <1>1, <2>4 DEF DirsOf
  <2>6. UserRWU(m', DirsOf(envs'))
    BY <2>3, <2>5, FewerRWU
  <2>7. k'.op = k.next /\ k.next \in {"idle", "monitor"} /\ k'.why = "none"
    BY <1>3, <2>1, IdleType, Whys DEF KType
  <2> QED BY <2>6, <2>7, NoRegion
<1> QED BY <1>4, <1>5, <1>6 DEF FreeStep

(* Every step.                                                             *)
LEMMA NextFaultless ==
  ASSUME EnvInv, Covered, Faultless, [Next]_vars
  PROVE  Faultless'
<1>1. CASE env_init
  BY <1>1, env_initFaultless
<1>2. CASE \E prog \in Programs : env_create(prog)
  BY <1>2, env_createFaultless
<1>3. CASE LoadStep
  BY <1>3, load_icodeFaultless, region_allocFaultless, region_insertFaultless,
     next_regionFaultless, copy_segmentFaultless, load_doneFaultless DEF LoadStep
<1>4. CASE \E e \in Slots : env_run(e)
  BY <1>4, env_runFaultless
<1>5. CASE \E i, j \in Ents : UserWrite(i, j)
  BY <1>5, UserFaultless
<1>6. CASE \/ Trap \/ TrapHandled \/ _panic
           \/ (\E envid \in 0 .. IDLIMIT - 1 : sys_env_destroy(envid))
           \/ (\E e \in Slots, next \in {"idle", "monitor"} : CallFree(e, next))
  BY <1>6, CallsFaultless
<1>7. CASE FreeStep
  BY <1>7, env_freeFaultless
<1>8. CASE monitor \/ UNCHANGED vars
  <2>1. m' = m /\ envs' = envs /\ k' = k
    BY <1>8 DEF monitor, vars
  <2> QED BY <2>1 DEF Faultless
<1>9. CASE \E v \in TlbVas : TlbFill(v[1], v[2])
  BY <1>9, FillFaultless
<1> QED
  BY <1>1, <1>2, <1>3, <1>4, <1>5, <1>6, <1>7, <1>8, <1>9 DEF Next

(* PanicCause holds in every reachable state when the programs are such    *)
(* that region_alloc covers their segments: the kernel panics for want of  *)
(* memory or of environments, and for a binary it rejects; load_icode's    *)
(* memcpy and memset never fault, whatever the TLB holds of the address    *)
(* space they write through.                                               *)
THEOREM CopyNeverFaults ==
  ASSUME Covered
  PROVE  Spec => []PanicCause
<1>1. Init => EnvInv /\ Faultless
  BY InitInv, FirstFaultless
<1>2. EnvInv /\ Faultless /\ [Next]_vars => EnvInv' /\ Faultless'
  BY NextInv, NextFaultless
<1>3. EnvInv /\ Faultless => PanicCause
  BY InvFacts DEF Faultless, PanicCause
<1> QED
  BY <1>1, <1>2, <1>3, PTL DEF Spec

-----------------------------------------------------------------------------
(***************************************************************************)
(* kern/env.c implements Pmap. Env has the operators of PageTables twice,  *)
(* its own and those of the instance VM: the first lemmas say that the two *)
(* are the same. A lemma for each action follows: under the invariant it   *)
(* is an action of Pmap, whose guard it meets, or it leaves memory, the    *)
(* directories and the page in hand alone.                                 *)
(***************************************************************************)

(* The constant sets and words.                                            *)
LEMMA SameSets ==
  /\ VM!NULL = NULL /\ VM!Frames = Frames /\ VM!Ents = Ents /\ VM!UserPdx = UserPdx
  /\ VM!ZeroPTE = ZeroPTE /\ VM!ZeroPage = ZeroPage /\ VM!RWU = RWU /\ VM!EmptyTlb = EmptyTlb
<1>1. VM!NULL = NULL
  BY Zenon DEF VM!NULL, NULL
<1>2. VM!Frames = Frames
  BY Zenon DEF VM!Frames, Frames
<1>3. VM!Ents = Ents
  BY Zenon DEF VM!Ents, Ents
<1>4. VM!UserPdx = UserPdx
  BY Zenon DEF VM!UserPdx, UserPdx
<1>5. VM!ZeroPTE = ZeroPTE
  BY Zenon DEF VM!ZeroPTE, ZeroPTE
<1>6. VM!ZeroPage = ZeroPage
  BY Zenon DEF VM!ZeroPage, ZeroPage, VM!ZeroPTE, ZeroPTE, VM!Ents, Ents
<1>7. VM!RWU = RWU
  BY Zenon DEF VM!RWU, RWU
<1>8. VM!EmptyTlb = EmptyTlb
  BY Zenon DEF VM!EmptyTlb, EmptyTlb, VM!ZeroPage, ZeroPage, VM!ZeroPTE, ZeroPTE, VM!Ents, Ents
<1> QED BY <1>1, <1>2, <1>3, <1>4, <1>5, <1>6, <1>7, <1>8

(* Cardinality.                                                            *)
LEMMA SameCard ==
  \A S : VM!Cardinality(S) = Cardinality(S)
BY Zenon DEF VM!Cardinality, Cardinality

(* pop_free.                                                               *)
LEMMA SamePop ==
  \A s : VM!pop_free(s) = pop_free(s)
BY Zenon DEF VM!pop_free, pop_free, VM!NULL, NULL

(* memset0.                                                                *)
LEMMA SameMemset ==
  \A s, f : VM!memset0(s, f) = memset0(s, f)
BY Zenon DEF VM!memset0, memset0, VM!ZeroPage, ZeroPage, VM!ZeroPTE, ZeroPTE, VM!Ents, Ents

(* page_alloc.                                                             *)
LEMMA SameAlloc ==
  \A s, z : VM!page_alloc(s, z) = page_alloc(s, z)
BY SameSets, SamePop, SameMemset DEF VM!page_alloc, page_alloc

(* MkPTE.                                                                  *)
LEMMA SameMk ==
  \A pa, perm : VM!MkPTE(pa, perm) = MkPTE(pa, perm)
BY Zenon DEF VM!MkPTE, MkPTE

Make(s, d, i) == pgdir_walk(s, d, i, TRUE)
Find(s, d, i) == pgdir_walk(s, d, i, FALSE)

(* pgdir_walk, with create.                                                *)
LEMMA SameMake ==
  \A s, d, i : VM!pgdir_walk(s, d, i, TRUE) = Make(s, d, i)
<1> SUFFICES ASSUME NEW s, NEW d, NEW i
             PROVE  VM!pgdir_walk(s, d, i, TRUE) = Make(s, d, i)
  OBVIOUS
<1>1. PICK r : r = page_alloc(s, TRUE)
  OBVIOUS
<1>2. r = VM!page_alloc(s, TRUE)
  BY <1>1, SameAlloc, Zenon
<1>3. PICK e : e = MkPTE(r.pp, RWU)
  OBVIOUS
<1>4. e = VM!MkPTE(r.pp, VM!RWU)
  BY <1>3, SameMk, SameSets
<1>5. PICK w : w = IF s.mem[d][i].p THEN [m |-> s, pt |-> s.mem[d][i].pa]
        ELSE IF r.pp = NULL THEN [m |-> r.m, pt |-> NULL]
        ELSE [m |-> [r.m EXCEPT !.ref[r.pp] = (@ + 1) % REFMOD, !.mem[d][i] = e], pt |-> r.pp]
  OBVIOUS
<1>6. Make(s, d, i) = w
  BY <1>1, <1>3, <1>5 DEF Make, pgdir_walk
<1>7. VM!pgdir_walk(s, d, i, TRUE) = w
  BY <1>2, <1>4, <1>5, SameSets DEF VM!pgdir_walk
<1> QED BY <1>6, <1>7, Zenon

(* pgdir_walk, without.                                                    *)
LEMMA SameFind ==
  \A s, d, i : VM!pgdir_walk(s, d, i, FALSE) = Find(s, d, i)
BY SameSets DEF VM!pgdir_walk, pgdir_walk, Find

(* page_free.                                                              *)
LEMMA SameFree ==
  \A s, pp : VM!page_free(s, pp) = page_free(s, pp)
BY Zenon DEF VM!page_free, page_free, VM!NULL, NULL

(* page_decref.                                                            *)
LEMMA SameDecref ==
  \A s, pp : VM!page_decref(s, pp) = page_decref(s, pp)
BY SameFree DEF VM!page_decref, page_decref

(* tlb_invalidate.                                                         *)
LEMMA SameInvalidate ==
  \A s, i, j : VM!tlb_invalidate(s, i, j) = tlb_invalidate(s, i, j)
BY Zenon DEF VM!tlb_invalidate, tlb_invalidate, VM!ZeroPTE, ZeroPTE

(* lcr3.                                                                   *)
LEMMA SameLcr3 ==
  \A s, d : VM!lcr3(s, d) = lcr3(s, d)
BY Zenon DEF VM!lcr3, lcr3, VM!EmptyTlb, EmptyTlb, VM!ZeroPage, ZeroPage, VM!ZeroPTE, ZeroPTE,
   VM!Ents, Ents

(* page_lookup.                                                            *)
LEMMA SameLookup ==
  \A s, d, i, j : VM!page_lookup(s, d, i, j) = page_lookup(s, d, i, j)
BY SameSets, SameFind DEF VM!page_lookup, page_lookup, Find

(* The entry that page_insert writes.                                      *)
LEMMA SameCounted ==
  \A s, pt, j, pp, perm : VM!map_counted(s, pt, j, pp, perm) = map_counted(s, pt, j, pp, perm)
BY ZenonT(30) DEF VM!map_counted, map_counted, VM!MkPTE, MkPTE

(* page_remove.                                                            *)
LEMMA SameRemove ==
  \A s, d, i, j : VM!page_remove(s, d, i, j) = page_remove(s, d, i, j)
<1> SUFFICES ASSUME NEW s, NEW d, NEW i, NEW j
             PROVE  VM!page_remove(s, d, i, j) = page_remove(s, d, i, j)
  OBVIOUS
<1> QED BY SameSets, SameLookup, SameDecref, SameInvalidate DEF VM!page_remove, page_remove

(* page_insert.                                                            *)
LEMMA SameInsert ==
  \A s, d, pp, i, j, perm : VM!page_insert(s, d, pp, i, j, perm) = page_insert(s, d, pp, i, j, perm)
<1> SUFFICES ASSUME NEW s, NEW d, NEW pp, NEW i, NEW j, NEW perm
             PROVE  VM!page_insert(s, d, pp, i, j, perm) = page_insert(s, d, pp, i, j, perm)
  OBVIOUS
<1> QED
  BY SameSets, SameMake, SameRemove, SameCounted, SameMk DEF VM!page_insert, page_insert, Make

(* The release of a page table.                                            *)
LEMMA SameFreeTable ==
  \A s, d, i : VM!free_table(s, d, i) = free_table(s, d, i)
BY SameSets, SameDecref DEF VM!free_table, free_table

(* env_setup_vm.                                                           *)
LEMMA SameSetup ==
  \A s : VM!env_setup_vm(s) = env_setup_vm(s)
BY SameSets, SameAlloc, SameMk DEF VM!env_setup_vm, env_setup_vm

(* What the MMU derives for an address.                                    *)
LEMMA SameTranslation ==
  \A s, d, i, j :
    /\ VM!Walk(s, d, i, j) = Walk(s, d, i, j)
    /\ VM!Translate(s, i, j) = Translate(s, i, j)
    /\ VM!InForce(s, i, j) = InForce(s, i, j)
    /\ VM!CanStore(s, i, j) = CanStore(s, i, j)
<1>1. \A s, d, i, j : VM!Walk(s, d, i, j) = Walk(s, d, i, j)
  BY Zenon DEF VM!Walk, Walk, VM!ZeroPTE, ZeroPTE
<1>2. \A s, i, j : VM!Translate(s, i, j) = Translate(s, i, j)
  BY Zenon DEF VM!Translate, Translate, VM!Walk, Walk, VM!ZeroPTE, ZeroPTE
<1>3. \A s, i, j : VM!InForce(s, i, j) = InForce(s, i, j)
  BY <1>2 DEF VM!InForce, InForce
<1>4. \A s, i, j : VM!CanStore(s, i, j) = CanStore(s, i, j)
  BY <1>3, SameSets DEF VM!CanStore, CanStore
<1> QED BY <1>1, <1>2, <1>3, <1>4

(* A store.                                                                *)
LEMMA SameStore ==
  \A s, i, j, c : VM!store(s, i, j, c) = store(s, i, j, c)
BY SameTranslation DEF VM!store, store

-----------------------------------------------------------------------------
(* The directories of Pmap are kern_pgdir and the env_pgdir's.             *)
LEMMA VmDirs ==
  /\ Dirs = DirsOf(envs) /\ Dirs' = DirsOf(envs')
BY DEF Dirs, DirsOf

(* A step that leaves memory, the directories and the page in hand alone.  *)
LEMMA VmStutter ==
  ASSUME m' = m, DirsOf(envs') = DirsOf(envs), k'.pp = k.pp
  PROVE  UNCHANGED VM!vars
BY VmDirs DEF VM!vars

(* The initial states map to initial states.                               *)
LEMMA VmInit == Init => VM!Init
<1> SUFFICES ASSUME Init PROVE VM!Init
  OBVIOUS
<1>1. PICK c \in [Frames -> Contents] :
       m = [ref |-> page_init_ref, link |-> page_init_link,
            head |-> page_init_head,
            mem |-> [c EXCEPT ![KERN_PGDIR] =
                       [ZeroPage EXCEPT ![UVPTX] = MkPTE(KERN_PGDIR, {"U"})]],
            cr3 |-> NULL, tlb |-> EmptyTlb, panic |-> FALSE]
  BY DEF Init
<1>2. /\ VM!page_init_ref = page_init_ref /\ VM!page_init_head = page_init_head
  BY Zenon DEF VM!page_init_ref, page_init_ref, VM!page_init_head, page_init_head,
     VM!Frames, Frames
<1>3. VM!page_init_link = page_init_link
  BY Zenon DEF VM!page_init_link, page_init_link, VM!Managed, Managed, VM!PrevPushed, PrevPushed,
     VM!Frames, Frames, VM!NULL, NULL
<1>4. VM!kern_pgdir_init = [ZeroPage EXCEPT ![UVPTX] = MkPTE(KERN_PGDIR, {"U"})]
  BY SameSets, SameMk DEF VM!kern_pgdir_init
<1>5. \E x \in [VM!Frames -> Contents] :
       m = [ref |-> VM!page_init_ref, link |-> VM!page_init_link,
            head |-> VM!page_init_head,
            mem |-> [x EXCEPT ![KERN_PGDIR] = VM!kern_pgdir_init],
            cr3 |-> VM!NULL, tlb |-> VM!EmptyTlb, panic |-> FALSE]
  BY <1>1, <1>2, <1>3, <1>4, SameSets
<1>6. \A e \in Slots : envs[e].env_pgdir = NULL
  BY DEF Init
<1>7. Dirs = {KERN_PGDIR}
  BY <1>6 DEF Dirs
<1>8. k.pp = NULL
  BY DEF Init, Idle
<1> QED
  BY <1>5, <1>7, <1>8 DEF VM!Init

(* The guards of Pmap, in terms of the invariant.                          *)
LEMMA VmGuards ==
  ASSUME EnvInv
  PROVE  /\ ~m.panic
         /\ VM!Booted <=> k.op # "boot"
<1>1. m.panic = FALSE
  BY InvFacts
<1>2. VM!Booted <=> m.cr3 # NULL
  BY SameSets DEF VM!Booted
<1> QED
  BY <1>1, <1>2 DEF EnvInv, BootPart

(* Loads of %cr3.                                                          *)
LEMMA VmLoad ==
  ASSUME EnvInv, k.op # "boot", NEW d \in DirsOf(envs), m' = lcr3(m, d),
         DirsOf(envs') = DirsOf(envs), k'.pp = k.pp
  PROVE  VM!Next
<1>1. ~m.panic /\ VM!Booted
  BY VmGuards
<1>2. m' = VM!lcr3(m, d)
  BY SameLcr3
<1>3. d \in Dirs /\ VM!LoadCr3(d)
  BY <1>1, <1>2, VmDirs DEF VM!LoadCr3
<1> QED
  BY <1>3 DEF VM!Next

(* Stores.                                                                 *)
LEMMA VmStore ==
  ASSUME EnvInv, k.op # "boot", NEW i \in Ents, NEW j \in Ents, CanStore(m, i, j),
         NEW c \in Contents, m' = store(m, i, j, c),
         DirsOf(envs') = DirsOf(envs), k'.pp = k.pp
  PROVE  VM!Next
<1>1. ~m.panic /\ VM!Booted
  BY VmGuards
<1>2. VM!CanStore(m, i, j) /\ m' = VM!store(m, i, j, c)
  BY SameTranslation, SameStore
<1>3. VM!UserWrite(i, j)
  BY <1>1, <1>2, VmDirs DEF VM!UserWrite
<1> QED
  BY <1>3, SameSets DEF VM!Next

VmStep == VM!Next \/ UNCHANGED VM!vars

(* env_init: mem_init ends with install_kern_pgdir.                        *)
LEMMA env_initVm ==
  ASSUME EnvInv, env_init, EnvInv'
  PROVE  VmStep
<1>1. k.op = "boot" /\ m' = lcr3(m, KERN_PGDIR) /\ k' = Idle
  BY DEF env_init
<1>2. ~m.panic /\ ~VM!Booted
  BY <1>1, VmGuards
<1>3. m' = VM!lcr3(m, KERN_PGDIR)
  BY <1>1, SameLcr3
<1>4. k.pp = NULL /\ k'.pp = NULL
  BY <1>1, IdleType, EmptyHand
<1>5. DirsOf(envs') = DirsOf(envs)
  <2>1. envs \in [Slots -> EnvType]
    BY DEF EnvInv, TypePart
  <2>2. ASSUME NEW e \in Slots PROVE envs'[e].env_pgdir = envs[e].env_pgdir
    <3>1. PICK x : x = IF e + 1 = NENV THEN NULL ELSE e + 1
      OBVIOUS
    <3>2. envs'[e] = [envs[e] EXCEPT !.env_link = x]
      BY <3>1 DEF env_init
    <3> QED BY <2>1, <3>2 DEF EnvType
  <2> QED BY <2>2 DEF DirsOf
<1>6. VM!install_kern_pgdir
  <2>1. 1 > Len(<< >>)
    OBVIOUS
  <2> QED BY <1>2, <1>3, <1>4, <1>5, <2>1, VmDirs DEF VM!install_kern_pgdir
<1> QED
  BY <1>6 DEF VM!Next, VmStep

(* There is a directory less than environments, and kern_pgdir, as long as *)
(* a slot is free.                                                         *)
LEMMA DirsBound ==
  ASSUME NEW t, OwnPart(t), FreeSlots(t) # {}
  PROVE  Cardinality(DirsOf(t)) <= NENV
<1>1. PICK e \in Slots : t[e].env_pgdir = NULL
  BY DEF OwnPart, FreeSlots
<1>2. PICK f : f = [x \in Slots |-> IF t[x].env_pgdir = NULL THEN KERN_PGDIR
                                    ELSE t[x].env_pgdir]
  OBVIOUS
<1>3. f \in Surjection(Slots, DirsOf(t))
  <2>1. f \in [Slots -> DirsOf(t)]
    BY <1>2 DEF DirsOf
  <2>2. \A d \in DirsOf(t) : \E x \in Slots : f[x] = d
    BY <1>1, <1>2 DEF DirsOf
  <2> QED BY <2>1, <2>2 DEF Surjection
<1>4. IsFiniteSet(Slots) /\ Cardinality(Slots) = NENV
  <2>1. NENV \in Nat /\ 0 < NENV /\ 0 \in Int /\ NENV - 1 \in Int
    BY EnvAssumption
  <2>2. IsFiniteSet(0 .. NENV - 1)
    BY <2>1, FS_Interval
  <2>3. Cardinality(0 .. NENV - 1) = NENV
    BY <2>1, FS_Interval
  <2> QED BY <2>2, <2>3 DEF Slots
<1>5. Cardinality(DirsOf(t)) <= Cardinality(Slots)
  BY <1>3, <1>4, FS_Surjection
<1> QED BY <1>4, <1>5

(* env_create is SetupVm, or leaves memory alone.                          *)
LEMMA env_createVm ==
  ASSUME EnvInv, NEW prog \in Programs, env_create(prog)
  PROVE  VmStep
<1>1. PICK e, h, s2, D : /\ e = env_free_list /\ SetUp(m, h, s2) /\ D = DirsOf(envs)
  BY DEF SetUp
<1>2. /\ k.op = "idle"
      /\ e = NULL \/ h = NULL =>
           /\ k' = Panic(IF e = NULL THEN "no_free_env" ELSE "no_mem")
           /\ m' = m /\ envs' = envs
      /\ ~(e = NULL \/ h = NULL) =>
           /\ env_alloc(e, h) /\ m' = s2
           /\ k' = [Idle EXCEPT !.op = "start", !.e = e, !.prog = prog]
  BY <1>1 DEF env_create, SetUp
<1>3. k.pp = NULL
  BY <1>2, EmptyHand
<1>4. CASE e = NULL \/ h = NULL
  <2>1. PICK r : r = IF e = NULL THEN "no_free_env" ELSE "no_mem"
    OBVIOUS
  <2>2. r \in Reasons /\ k' = Panic(r) /\ m' = m /\ envs' = envs
    BY <1>2, <1>4, <2>1 DEF Reasons
  <2>3. k'.pp = NULL
    BY <2>2, IdleType
  <2> QED BY <1>3, <2>2, <2>3, VmStutter DEF VmStep
<1>5. CASE e # NULL /\ h # NULL
  <2>1. /\ env_alloc(e, h) /\ m' = s2
        /\ k' = [Idle EXCEPT !.op = "start", !.e = e, !.prog = prog]
    BY <1>2, <1>5
  <2>2. k'.pp = NULL
    BY <2>1, IdleType DEF KType
  <2>3. ~m.panic /\ VM!Booted
    BY <1>2, VmGuards
  <2>4. VM!env_setup_vm(m).pp = h /\ VM!env_setup_vm(m).m = m'
    BY <1>1, <2>1, SameSetup DEF SetUp
  <2>5. /\ envs \in [Slots -> EnvType] /\ OwnPart(envs) /\ IdPart(envs)
        /\ EnvList(e, envs, FreeSlots(envs))
    BY <1>1, <1>2 DEF EnvInv, TypePart, ListPart
  <2>6. e \in FreeSlots(envs) /\ e \in Slots
    <3>1. e \in FreeSlots(envs)
      BY <1>5, <2>5 DEF EnvList, EnvShape
    <3> QED BY <3>1 DEF FreeSlots
  <2>7. h \in Frames /\ h \notin D
    <3>1. EnvVm(m, D, {}) /\ Vm(m, D, {}) /\ m.cr3 # NULL
      BY <1>1, <1>2, EmptyHand DEF EnvVm
    <3>2. SetUpDone(m, s2, D, {}, h)
      BY <1>1, <3>1, env_setup_vmVm
    <3> QED BY <1>5, <3>2, LayoutFacts DEF SetUpDone
  <2>8. DirsOf(envs') = D \cup {h}
    <3>1. PICK id : id = next_env_id(envs[e].env_id, e)
      OBVIOUS
    <3>2. envs' = [envs EXCEPT ![e] = [@ EXCEPT !.env_id = id, !.env_status = "RUNNABLE",
                                                !.env_pgdir = h]]
      BY <2>1, <3>1 DEF env_alloc
    <3>3. Created(envs, envs', e, h) /\ IdOf(envs'[e].env_id, e)
      BY <2>5, <2>6, <2>7, <3>1, <3>2, CreatedTable
    <3> QED BY <1>1, <2>5, <2>6, <2>7, <3>3, CreatedParts
  <2>9. Cardinality(Dirs) <= NENV
    BY <2>5, <2>6, DirsBound, VmDirs
  <2>10. Dirs' = Dirs \cup {h} /\ h # VM!NULL
    BY <1>1, <1>5, <2>8, VmDirs, SameSets
  <2>11. VM!SetupVm
    <3>1. PICK r : r = VM!env_setup_vm(m)
      OBVIOUS
    <3>2. m' = r.m /\ Dirs' = IF r.pp = VM!NULL THEN Dirs ELSE Dirs \cup {r.pp}
      BY <2>4, <2>10, <3>1
    <3> QED BY <1>3, <2>2, <2>3, <2>9, <3>1, <3>2, SameCard DEF VM!SetupVm
  <2> QED BY <2>11 DEF VM!Next, VmStep
<1> QED BY <1>4, <1>5

(* load_icode and region_alloc.                                            *)
LEMMA load_icodeVm ==
  ASSUME EnvInv, load_icode
  PROVE  VmStep
<1>1. k.op = "start" /\ envs' = envs /\ k.op # "boot"
  BY DEF load_icode
<1>2. /\ k.e \in Slots \ FreeSlots(envs) /\ k \in KType /\ k.pp = NULL
  BY <1>1, LoadFacts, EmptyHand DEF LoadOps
<1>3. CASE k.prog.elf
  <2>1. m' = lcr3(m, envs[k.e].env_pgdir) /\ k' = [k EXCEPT !.op = "alloc", !.seg = 1]
    BY <1>3 DEF load_icode
  <2>2. k'.pp = k.pp
    BY <1>2, <2>1 DEF KType
  <2>3. envs[k.e].env_pgdir \in DirsOf(envs)
    BY <1>2, InvFacts
  <2> QED BY <1>1, <2>1, <2>2, <2>3, VmLoad DEF VmStep
<1>4. CASE ~k.prog.elf
  <2>1. m' = m /\ k' = Panic("not_elf")
    BY <1>4 DEF load_icode
  <2>2. k'.pp = NULL
    BY <2>1, IdleType DEF Reasons
  <2> QED BY <1>1, <1>2, <2>1, <2>2, VmStutter DEF VmStep
<1> QED BY <1>3, <1>4

(* region_alloc: PageAlloc, with no page in hand.                          *)
LEMMA region_allocVm ==
  ASSUME EnvInv, region_alloc
  PROVE  VmStep
<1>1. k.op = "alloc" /\ envs' = envs /\ k.op # "boot"
  BY DEF region_alloc
<1>2. PICK pp, s2 : pp = page_alloc(m, FALSE).pp /\ s2 = page_alloc(m, FALSE).m
  OBVIOUS
<1>3. m' = s2 /\ k' = IF pp = NULL THEN Panic("no_mem") ELSE [k EXCEPT !.op = "insert", !.pp = pp]
  BY <1>2 DEF region_alloc
<1>4. k \in KType /\ k.pp = NULL
  BY <1>1, EmptyHand DEF EnvInv, TypePart
<1>5. k'.pp = pp
  <2>1. CASE pp = NULL
    BY <1>3, <2>1, IdleType DEF Reasons
  <2>2. CASE pp # NULL
    BY <1>3, <1>4, <2>2 DEF KType
  <2> QED BY <2>1, <2>2
<1>6. ~m.panic /\ VM!Booted
  BY <1>1, VmGuards
<1>7. PICK r : r = VM!page_alloc(m, FALSE)
  OBVIOUS
<1>8. r.pp = pp /\ r.m = m'
  <2>1. r = page_alloc(m, FALSE)
    BY <1>7, SameAlloc, Zenon
  <2> QED BY <1>2, <1>3, <2>1
<1>9. HeldOf(k.pp) = {} /\ HeldOf(k'.pp) = IF r.pp = VM!NULL THEN {} ELSE {} \cup {r.pp}
  BY <1>4, <1>5, <1>8, SameSets DEF HeldOf
<1>10. Cardinality(HeldOf(k.pp)) < 1
  BY <1>9, FS_EmptySet
<1>11. VM!PageAlloc
  BY <1>1, <1>6, <1>7, <1>8, <1>9, <1>10, VmDirs, SameCard DEF VM!PageAlloc, HeldOf
<1> QED BY <1>11 DEF VM!Next, VmStep

(* region_alloc: PageInsert of the page in hand, in the user part.         *)
LEMMA region_insertVm ==
  ASSUME EnvInv, region_insert
  PROVE  VmStep
<1>1. k.op = "insert" /\ envs' = envs
  BY DEF region_insert
<1>2. /\ k.e \in Slots \ FreeSlots(envs) /\ k.prog \in Programs /\ k \in KType
      /\ LoadAt(m, envs[k.e].env_pgdir, "insert", k.prog, k.seg, k.n, k.pp)
      /\ Here = RegionOf(k.prog, k.seg)
  BY <1>1, LoadFacts DEF LoadOps
<1>3. PICK d, h, va, i, j, pp :
        /\ d = envs[k.e].env_pgdir /\ h = Here /\ va = PageAt(h, k.n) /\ i = PDX(va) /\ j = PTX(va)
        /\ pp = k.pp
  OBVIOUS
<1>4. PICK s2, ok : Inserted(m, d, pp, i, j, RWU, s2, ok)
  BY DEF Inserted
<1>5. /\ m' = s2
      /\ k' = IF ~ok THEN [Panic("no_mem") EXCEPT !.pp = pp]
              ELSE [k EXCEPT !.op = "alloc", !.pp = NULL, !.n = k.n + 1]
  BY <1>3, <1>4 DEF region_insert, Inserted, PageAt
<1>6. k.seg \in 1 .. Len(k.prog.ph) + 1 /\ pp # NULL /\ k.n < pgnum(h)
  BY <1>2, <1>3 DEF LoadAt
<1>7. h.va \in Nat /\ h.memsz \in Nat /\ h.va + h.memsz <= USTACKTOP /\ k.n \in Nat
  BY <1>2, <1>3, <1>6, HereFacts DEF KType
<1>8. va \in Nat /\ va < USTACKTOP
  <2>1. va \in Nat /\ va < h.va + h.memsz
    BY <1>3, <1>6, <1>7, AllocBelow
  <2> QED BY <1>7, <2>1, EnvAssumption, SMTT(30)
<1>9. i \in UserPdx /\ j \in Ents
  BY <1>3, <1>8, UserAddress
<1>10. d \in Dirs /\ d # KERN_PGDIR
  BY <1>2, <1>3, InvFacts, VmDirs
<1>11. HeldOf(k.pp) = {pp} /\ Vm(m, DirsOf(envs), {pp})
  BY <1>3, <1>6 DEF HeldOf, EnvInv, EnvVm
<1>12. m.ref[pp] < 1
  <2>1. PICK H : H = {pp}
    OBVIOUS
  <2>2. Vm(m, DirsOf(envs), H) /\ pp \in H
    BY <1>11, <2>1
  <2>3. m.ref[pp] = 0
    BY <2>2, VmFacts, ZenonT(30)
  <2> QED BY <2>3
<1>13. ~m.panic
  BY VmGuards
<1>14. PICK r : r = VM!page_insert(m, d, pp, i, j, RWU)
  OBVIOUS
<1>15. r.m = m' /\ r.ok = ok
  BY <1>4, <1>5, <1>14, SameInsert DEF Inserted
<1>16. HeldOf(k'.pp) = IF r.ok THEN HeldOf(k.pp) \ {pp} ELSE HeldOf(k.pp)
  <2>1. CASE ok
    <3>1. k'.pp = NULL
      BY <1>2, <1>5, <2>1 DEF KType
    <3> QED BY <1>11, <1>15, <2>1, <3>1 DEF HeldOf
  <2>2. CASE ~ok
    <3>1. PICK p : p = Panic("no_mem")
      OBVIOUS
    <3>2. p \in KType /\ k' = [p EXCEPT !.pp = pp]
      BY <1>5, <2>2, <3>1, IdleType DEF Reasons
    <3>3. k'.pp = pp
      BY <3>2 DEF KType
    <3> QED BY <1>3, <1>15, <2>2, <3>3
  <2> QED BY <2>1, <2>2
<1>17. VM!PageInsert(d, pp, i, j, RWU)
  BY <1>1, <1>10, <1>12, <1>13, <1>14, <1>15, <1>16, VmDirs DEF VM!PageInsert, HeldOf
<1>18. VM!PageInsert(d, pp, <<i, j>>[1], <<i, j>>[2], RWU) /\ <<i, j>> \in UserPdx \X Ents
  BY <1>9, <1>17
<1>19. pp \in (IF k.pp = NULL THEN {} ELSE {k.pp})
  BY <1>3, <1>6
<1>20. \E x \in Dirs, p \in (IF k.pp = NULL THEN {} ELSE {k.pp}) \cup VM!UserPages,
          v \in UserPdx \X Ents, perm \in {RWU} : VM!PageInsert(x, p, v[1], v[2], perm)
  BY <1>10, <1>18, <1>19
<1> QED BY <1>20 DEF VM!Next, VmStep

(* A copy is a store through a translation that allows it.                 *)
LEMMA copy_segmentVm ==
  ASSUME EnvInv, copy_segment
  PROVE  VmStep
<1>1. k.op = "copy" /\ envs' = envs /\ k.op # "boot"
  BY DEF copy_segment
<1>2. /\ k.prog \in Programs /\ k \in KType /\ k.pp = NULL
      /\ LoadAt(m, envs[k.e].env_pgdir, "copy", k.prog, k.seg, k.n, k.pp)
      /\ Here = RegionOf(k.prog, k.seg)
  BY <1>1, LoadFacts, EmptyHand DEF LoadOps
<1>3. PICK h, n, va, i, j :
         h = Here /\ n = k.n /\ va = PageAt(h, n) /\ i = PDX(va) /\ j = PTX(va)
  OBVIOUS
<1>4. k.seg \in 1 .. Len(k.prog.ph) + 1 /\ n <= touched(h) /\ n \in Nat
  BY <1>2, <1>3 DEF LoadAt, KType
<1>6. h.va \in Nat /\ h.memsz \in Nat /\ h.va + h.memsz <= USTACKTOP
  BY <1>2, <1>3, <1>4, HereFacts
<1>7. touched(h) \in Nat
  BY <1>6, TouchedNat
<1>8. CASE n = touched(h)
  <2>1. k' = [k EXCEPT !.op = "alloc", !.n = 0, !.seg = @ + 1] /\ m' = m
    BY <1>3, <1>8 DEF copy_segment
  <2>2. k'.pp = k.pp
    BY <1>2, <2>1 DEF KType
  <2> QED BY <1>1, <2>1, <2>2, VmStutter DEF VmStep
<1>9. CASE n # touched(h) /\ CanStore(m, i, j)
  <2>1. va \in Nat /\ va < USTACKTOP
    <3>1. n < touched(h)
      BY <1>4, <1>7, <1>9
    <3>2. va \in Nat /\ va < h.va + h.memsz
      BY <1>3, <1>4, <1>6, <3>1, TouchedBelow
    <3> QED BY <1>6, <3>2, EnvAssumption
  <2>2. j \in Ents /\ i \in Ents
    BY <1>3, <2>1, UserAddress, LayoutFacts
  <2>3. k' = [k EXCEPT !.n = @ + 1] /\ \E c \in Contents : m' = store(m, i, j, c)
    BY <1>3, <1>9 DEF copy_segment, PageAt
  <2>4. k'.pp = k.pp
    BY <1>2, <2>3 DEF KType
  <2>5. PICK c \in Contents : m' = store(m, i, j, c)
    BY <2>3
  <2> QED BY <1>1, <1>9, <2>2, <2>4, <2>5, VmStore DEF VmStep
<1>10. CASE n # touched(h) /\ ~CanStore(m, i, j)
  <2>1. k' = Panic("kernel_fault") /\ m' = m
    BY <1>3, <1>10 DEF copy_segment, PageAt
  <2>2. k'.pp = NULL
    BY <2>1, IdleType DEF Reasons
  <2> QED BY <1>1, <1>2, <2>1, <2>2, VmStutter DEF VmStep
<1> QED BY <1>8, <1>9, <1>10

(* Between two regions memory is left alone.                               *)
LEMMA next_regionVm ==
  ASSUME EnvInv, next_region
  PROVE  VmStep
<1>1. k.op = "alloc" /\ envs' = envs /\ m' = m
  BY DEF next_region
<1>2. k \in KType /\ k.pp = NULL
  BY <1>1, EmptyHand DEF EnvInv, TypePart
<1>3. k'.pp = NULL
  <2>1. CASE k' = [k EXCEPT !.seg = @ + 1]
    BY <1>2, <2>1 DEF KType
  <2>2. CASE k' = Panic("filesz")
    BY <2>2, IdleType DEF Reasons
  <2>3. CASE k' = [k EXCEPT !.op = IF OnStack THEN "done" ELSE "copy", !.n = 0]
    BY <1>2, <2>3 DEF KType
  <2> QED BY <2>1, <2>2, <2>3 DEF next_region
<1> QED BY <1>1, <1>2, <1>3, VmStutter DEF VmStep

(* load_done is LoadCr3.                                                   *)
LEMMA load_doneVm ==
  ASSUME EnvInv, load_done
  PROVE  VmStep
<1>1. k.op = "done" /\ envs' = envs /\ m' = lcr3(m, KERN_PGDIR) /\ k' = Idle /\ k.op # "boot"
  BY DEF load_done
<1>2. k.pp = NULL /\ k'.pp = NULL
  BY <1>1, EmptyHand, IdleType
<1>3. KERN_PGDIR \in DirsOf(envs)
  BY InvFacts
<1> QED BY <1>1, <1>2, <1>3, VmLoad DEF VmStep

(* env_run is LoadCr3, of a directory that exists.                         *)
LEMMA env_runVm ==
  ASSUME EnvInv, NEW e \in Slots, env_run(e)
  PROVE  VmStep
<1>1. /\ k.op = "idle" /\ envs[e].env_status \in {"RUNNABLE", "RUNNING"} /\ k.op # "boot"
      /\ m' = lcr3(m, envs[e].env_pgdir) /\ k' = [Idle EXCEPT !.op = "user"]
  BY DEF env_run
<1>2. envs[e].env_pgdir \in DirsOf(envs)
  BY <1>1, InvFacts DEF FreeSlots
<1>3. k.pp = NULL /\ k'.pp = NULL
  BY <1>1, EmptyHand, IdleType DEF KType
<1>4. ASSUME NEW f \in Slots PROVE envs'[f].env_pgdir = envs[f].env_pgdir
  <2>1. envs[f] \in EnvType
    BY DEF EnvInv, TypePart
  <2>2. envs'[f] = IF f = e THEN [envs[f] EXCEPT !.env_status = "RUNNING"]
                   ELSE IF f = curenv /\ envs[f].env_status = "RUNNING"
                   THEN [envs[f] EXCEPT !.env_status = "RUNNABLE"]
                   ELSE envs[f]
    BY DEF env_run
  <2> QED BY <2>1, <2>2 DEF EnvType, Status
<1>5. DirsOf(envs') = DirsOf(envs)
  BY <1>4 DEF DirsOf
<1> QED BY <1>1, <1>2, <1>3, <1>5, VmLoad DEF VmStep

-----------------------------------------------------------------------------
(* User mode, and the ways back to the kernel.                             *)
LEMMA UserWriteVm ==
  ASSUME EnvInv, NEW i \in Ents, NEW j \in Ents, UserWrite(i, j)
  PROVE  VmStep
<1>1. k.op # "boot" /\ envs' = envs /\ k' = k /\ CanStore(m, i, j)
  BY DEF UserWrite
<1>2. PICK c \in Contents : m' = store(m, i, j, c)
  BY DEF UserWrite
<1>3. DirsOf(envs') = DirsOf(envs) /\ k'.pp = k.pp
  BY <1>1
<1> QED BY <1>1, <1>2, <1>3, VmStore DEF VmStep

(* A step that leaves memory and the table alone, with no page in hand     *)
(* before it or after it.                                                  *)
LEMMA VmRest ==
  ASSUME m' = m, envs' = envs, k.pp = NULL, k'.pp = NULL
  PROVE  VmStep
<1>1. DirsOf(envs') = DirsOf(envs)
  OBVIOUS
<1> QED BY <1>1, VmStutter DEF VmStep

(* The ways back to the kernel leave memory alone.                         *)
LEMMA TrapVm ==
  ASSUME EnvInv, Trap \/ TrapHandled
  PROVE  VmStep
<1>1. k.op = "user" /\ m' = m /\ envs' = envs
  BY DEF Trap, TrapHandled
<1>2. k.pp = NULL
  BY <1>1, EmptyHand
<1>3. k'.pp = NULL
  <2>1. CASE Trap
    BY <2>1 DEF Trap, Idle
  <2>2. CASE TrapHandled
    BY <2>2 DEF TrapHandled, Idle
  <2> QED BY <2>1, <2>2
<1> QED BY <1>1, <1>2, <1>3, VmRest

(* sys_env_destroy only begins env_free.                                   *)
LEMMA sys_env_destroyVm ==
  ASSUME EnvInv, NEW envid \in 0 .. IDLIMIT - 1, sys_env_destroy(envid)
  PROVE  VmStep
<1>1. PICK e : e = envid2env(envid, TRUE)
  OBVIOUS
<1>2. /\ k.op = "user" /\ m' = m /\ envs' = envs
      /\ k' = IF e = NULL THEN k
              ELSE [Idle EXCEPT !.op = "free", !.e = e, !.pdeno = -1, !.next = "monitor"]
  BY <1>1 DEF sys_env_destroy
<1>3. k.pp = NULL
  BY <1>2, EmptyHand
<1>4. k'.pp = NULL
  BY <1>2, <1>3 DEF Idle
<1> QED BY <1>2, <1>3, <1>4, VmRest

(* So does a call of env_free or env_destroy.                              *)
LEMMA CallFreeVm ==
  ASSUME EnvInv, NEW e \in Slots, NEW next \in {"idle", "monitor"}, CallFree(e, next)
  PROVE  VmStep
<1>1. k.op = "idle" /\ m' = m /\ envs' = envs
  BY DEF CallFree
<1>2. k.pp = NULL
  BY <1>1, EmptyHand
<1>3. k'.pp = NULL
  BY DEF CallFree, Idle
<1> QED BY <1>1, <1>2, <1>3, VmRest

(* A panic elsewhere leaves memory alone.                                  *)
LEMMA _panicVm ==
  ASSUME EnvInv, _panic
  PROVE  VmStep
<1>1. k.op = "idle" /\ m' = m /\ envs' = envs
  BY DEF _panic
<1>2. k.pp = NULL
  BY <1>1, EmptyHand
<1>3. k'.pp = NULL
  BY DEF _panic, Panic, Idle
<1> QED BY <1>1, <1>2, <1>3, VmRest

(* A step that changes nothing.                                            *)
LEMMA UnchangedVm ==
  ASSUME UNCHANGED vars
  PROVE  VmStep
<1>1. m' = m /\ DirsOf(envs') = DirsOf(envs) /\ k'.pp = k.pp
  BY DEF vars
<1> QED BY <1>1, VmStutter DEF VmStep

(* The MMU caches a translation, wherever the kernel is.                   *)
LEMMA TlbFillVm ==
  ASSUME EnvInv, NEW v \in TlbVas, TlbFill(v[1], v[2])
  PROVE  VmStep
<1>1. PICK i, j : i = v[1] /\ j = v[2]
  OBVIOUS
<1>2. /\ m.cr3 # NULL /\ Cardinality(Cached) < MaxTlb /\ Walk(m, m.cr3, i, j).p
      /\ m' = [m EXCEPT !.tlb[i][j] = Translate(m, i, j)]
      /\ envs' = envs /\ k' = k
  BY <1>1 DEF TlbFill
<1>3. ~m.panic /\ VM!Booted
  BY <1>2, VmGuards, SameSets DEF VM!Booted
<1>4. VM!Cached = Cached
  BY DEF VM!Cached, Cached
<1>5. VM!Cardinality(VM!Cached) < MaxTlb
  BY <1>2, <1>4, SameCard
<1>6. VM!Walk(m, m.cr3, i, j).p /\ m' = [m EXCEPT !.tlb[i][j] = VM!Translate(m, i, j)]
  BY <1>2, SameTranslation
<1>7. Dirs' = Dirs /\ k'.pp = k.pp
  BY <1>2 DEF Dirs
<1>8. VM!TlbFill(i, j)
  BY <1>3, <1>5, <1>6, <1>7 DEF VM!TlbFill
<1>9. VM!TlbFill(v[1], v[2])
  BY <1>1, <1>8
<1> QED BY <1>9 DEF VM!Next, VmStep

-----------------------------------------------------------------------------
(* env_free is LoadCr3 at first, or leaves memory alone;                   *)
LEMMA env_free_startVm ==
  ASSUME EnvInv, env_free_start
  PROVE  VmStep
<1>1. /\ k.op = "free" /\ k.op # "boot" /\ envs' = envs
      /\ m' = IF k.e = curenv THEN lcr3(m, KERN_PGDIR) ELSE m
      /\ k' = [k EXCEPT !.pdeno = 0]
  BY DEF env_free_start
<1>2. k.pp = NULL /\ k \in KType
  BY <1>1, EmptyHand DEF EnvInv, TypePart
<1>3. k'.pp = NULL
  BY <1>1, <1>2 DEF KType
<1>4. DirsOf(envs') = DirsOf(envs) /\ KERN_PGDIR \in DirsOf(envs)
  BY <1>1, InvFacts
<1>5. CASE m' = m
  BY <1>1, <1>2, <1>3, <1>5, VmRest
<1>6. CASE m' = lcr3(m, KERN_PGDIR)
  BY <1>1, <1>2, <1>3, <1>4, <1>6, VmLoad DEF VmStep
<1> QED BY <1>1, <1>5, <1>6

(* then PageRemove of entries that are present, and FreeTable of page      *)
(* tables that map nothing and are not in force,                           *)
LEMMA env_free_entryVm ==
  ASSUME EnvInv, env_free_entry
  PROVE  VmStep
<1>1. k.op = "free" /\ k.pdeno \in UserPdx /\ envs' = envs
  BY DEF env_free_entry
<1>2. PICK d, a, b : d = envs[k.e].env_pgdir /\ a = k.pdeno /\ b = k.pteno
  OBVIOUS
<1>3. /\ d \in Dirs /\ d # KERN_PGDIR
      /\ FreeAt(m, d, a, b) /\ k \in KType /\ k.pp = NULL
  BY <1>1, <1>2, FreeFacts, VmDirs
<1>4. a \in UserPdx /\ a \in Int /\ a >= 0 /\ b \in 0 .. NENT
  BY <1>1, <1>2, <1>3, LayoutAssumption DEF KType, UserPdx
<1>5. m.cr3 # d
  BY <1>3, <1>4 DEF FreeAt
<1>6. ~m.panic
  BY VmGuards
<1>k. k'.pp = NULL
  <2>1. CASE k' = [k EXCEPT !.pdeno = @ + 1]
    BY <1>3, <2>1 DEF KType
  <2>2. CASE k' = [k EXCEPT !.pteno = @ + 1]
    BY <1>3, <2>2 DEF KType
  <2>3. CASE k' = [k EXCEPT !.pdeno = @ + 1, !.pteno = 0]
    BY <1>3, <2>3 DEF KType
  <2> QED BY <2>1, <2>2, <2>3 DEF env_free_entry
<1>h. HeldOf(k'.pp) = HeldOf(k.pp) /\ Dirs' = Dirs
  BY <1>1, <1>3, <1>k DEF Dirs
<1>7. CASE m' = m
  BY <1>1, <1>3, <1>k, <1>7, VmRest
<1>8. CASE m.mem[d][a].p /\ b < NENT /\ Walk(m, d, a, b).p
  <2>1. m' = page_remove(m, d, a, b)
    BY <1>2, <1>8 DEF env_free_entry
  <2>2. b \in Ents
    BY <1>4, <1>8, PhysAssumption DEF Ents
  <2>3. VM!Walk(m, d, a, b).p /\ m' = VM!page_remove(m, d, a, b)
    BY <1>8, <2>1, SameTranslation, SameRemove
  <2>4. VM!PageRemove(d, a, b)
    BY <1>3, <1>6, <1>h, <2>3 DEF VM!PageRemove, HeldOf
  <2>5. VM!PageRemove(d, <<a, b>>[1], <<a, b>>[2]) /\ <<a, b>> \in UserPdx \X Ents
    BY <1>4, <2>2, <2>4
  <2>6. \E x \in Dirs, v \in UserPdx \X Ents : VM!PageRemove(x, v[1], v[2])
    BY <1>3, <2>5
  <2> QED BY <2>6, SameSets DEF VM!Next, VmStep
<1>9. CASE m.mem[d][a].p /\ ~(b < NENT)
  <2>1. m' = free_table(m, d, a)
    BY <1>2, <1>9 DEF env_free_entry
  <2>2. b = NENT
    BY <1>4, <1>9, PhysAssumption
  <2>3. \A j \in Ents : ~Walk(m, d, a, j).p
    BY <1>3, <2>2, PhysAssumption DEF FreeAt, Ents
  <2>4. \A j \in VM!Ents : ~VM!Walk(m, d, a, j).p
    BY <2>3, SameTranslation, SameSets
  <2>5. m' = VM!free_table(m, d, a)
    BY <2>1, SameFreeTable
  <2>6. VM!FreeTable(d, a)
    BY <1>3, <1>5, <1>6, <1>9, <1>h, <2>4, <2>5 DEF VM!FreeTable, HeldOf
  <2>7. a \in VM!UserPdx
    BY <1>4, SameSets
  <2> QED BY <1>3, <2>6, <2>7 DEF VM!Next, VmStep
<1>10. m' = m \/ (m.mem[d][a].p /\ b < NENT /\ Walk(m, d, a, b).p) \/ (m.mem[d][a].p /\ ~(b < NENT))
  BY <1>2 DEF env_free_entry
<1> QED BY <1>7, <1>8, <1>9, <1>10

(* and FreeDir in the end, of a directory that is not in force and has no  *)
(* user part.                                                              *)
LEMMA env_free_doneVm ==
  ASSUME EnvInv, env_free_done
  PROVE  VmStep
<1>1. /\ k.op = "free" /\ k.pdeno = UTOPX
      /\ m' = page_decref(m, envs[k.e].env_pgdir)
      /\ k' = [Idle EXCEPT !.op = k.next]
  BY DEF env_free_done
<1>2. PICK d, e, head : d = envs[k.e].env_pgdir /\ e = k.e /\ head = env_free_list
  OBVIOUS
<1>3. /\ e \in Slots \ FreeSlots(envs) /\ d \in DirsOf(envs) /\ d # KERN_PGDIR
      /\ FreeAt(m, d, UTOPX, k.pteno) /\ k.pp = NULL
  BY <1>1, <1>2, FreeFacts
<1>4. m.cr3 # d /\ \A i \in UserPdx : ~m.mem[d][i].p
  BY <1>3, LayoutAssumption DEF FreeAt, UserPdx
<1>5. envs \in [Slots -> EnvType] /\ head \in Slots \cup {NULL} /\ OwnPart(envs) /\ IdPart(envs)
  BY <1>2 DEF EnvInv, TypePart
<1>6. Released(envs, envs', e, head)
  <2>1. envs' = [envs EXCEPT ![e] = [@ EXCEPT !.env_pgdir = NULL, !.env_status = "FREE",
                                              !.env_link = head]]
    BY <1>2 DEF env_free_done
  <2> QED BY <1>3, <1>5, <2>1, ReleasedTable
<1>7. DirsOf(envs') = DirsOf(envs) \ {d}
  BY <1>2, <1>3, <1>5, <1>6, ReleasedParts
<1>8. k'.pp = NULL
  BY <1>1 DEF Idle
<1>9. m' = VM!page_decref(m, d) /\ (\A i \in VM!UserPdx : ~m.mem[d][i].p)
  BY <1>1, <1>2, <1>4, SameDecref, SameSets
<1>10. VM!FreeDir(d)
  BY <1>3, <1>4, <1>7, <1>8, <1>9, VmDirs, VmGuards DEF VM!FreeDir
<1> QED BY <1>3, <1>10, VmDirs DEF VM!Next, VmStep

-----------------------------------------------------------------------------
(* Every step of kern/env.c is a step of the virtual memory manager, or    *)
(* leaves memory alone.                                                    *)
LEMMA NextVm ==
  ASSUME EnvInv, EnvInv', [Next]_vars
  PROVE  [VM!Next]_(VM!vars)
<1> SUFFICES VmStep
  BY DEF VmStep
<1>1. CASE env_init
  BY <1>1, env_initVm
<1>2. CASE \E prog \in Programs : env_create(prog)
  BY <1>2, env_createVm
<1>3. CASE LoadStep
  BY <1>3, load_icodeVm, region_allocVm, region_insertVm, next_regionVm,
     copy_segmentVm, load_doneVm DEF LoadStep
<1>4. CASE \E e \in Slots : env_run(e)
  BY <1>4, env_runVm
<1>5. CASE \E i, j \in Ents : UserWrite(i, j)
  BY <1>5, UserWriteVm
<1>6. CASE Trap \/ TrapHandled
  BY <1>6, TrapVm
<1>7. CASE \E envid \in 0 .. IDLIMIT - 1 : sys_env_destroy(envid)
  BY <1>7, sys_env_destroyVm
<1>8. CASE \E e \in Slots, next \in {"idle", "monitor"} : CallFree(e, next)
  BY <1>8, CallFreeVm
<1>9. CASE FreeStep
  BY <1>9, env_free_startVm, env_free_entryVm, env_free_doneVm DEF FreeStep
<1>10. CASE monitor \/ UNCHANGED vars
  BY <1>10, UnchangedVm DEF monitor
<1>11. CASE _panic
  BY <1>11, _panicVm
<1>12. CASE \E v \in TlbVas : TlbFill(v[1], v[2])
  BY <1>12, TlbFillVm
<1> QED
  BY <1>1, <1>2, <1>3, <1>4, <1>5, <1>6, <1>7, <1>8, <1>9, <1>10, <1>11, <1>12 DEF Next

(* PmapRefined: kern/env.c implements Pmap: seen through its memory, its   *)
(* directories and the page in hand, every run of environments is a run of *)
(* the virtual memory manager, so env.c keeps to the order of calls under  *)
(* which the invariants of Pmap are proved.                                *)
THEOREM PmapRefined == Spec => VmSteps
<1>1. Init => VM!Init
  BY VmInit
<1>2. EnvInv /\ EnvInv' /\ [Next]_vars => [VM!Next]_(VM!vars)
  BY NextVm
<1> QED
  BY <1>1, <1>2, Invariance, PTL DEF Spec, VmSteps, VM!Spec

==============================================================================
