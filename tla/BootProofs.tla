----------------------------- MODULE BootProofs ------------------------------
(***************************************************************************)
(* Proofs about Boot, for every kernel that is well linked and every size  *)
(* of memory.  The invariant follows the boot through its phases: the      *)
(* keyboard controller until address line 20 is on, the header, the        *)
(* segments that are in memory and how far the next one is, and, in the    *)
(* kernel, what is mapped, cleared and taken.                              *)
(***************************************************************************)
EXTENDS Boot, SequenceTheorems, TLAPS

Loading == {"readseg", "readsect", "insl", "bootmain"}
Mapped  == {"jump", "relocated", "i386_init", "detect", "boot_alloc", "uvpt", "page_init"}
Cleared == {"detect", "boot_alloc", "uvpt", "page_init"}
Counted == {"boot_alloc", "uvpt", "page_init"}

Device == {"none", "d1", "df"}
TypePart ==
  /\ img \in Images /\ ram \in Memories /\ mem \in [Addrs -> Int]
  /\ kbc \in [busy : BOOLEAN, in : Device, cmd : Device, a20 : BOOLEAN]
  /\ disk \in [busy : BOOLEAN, sect : Int]
  /\ stage \in {"seta20.1", "seta20.2", "protcseg", "bad"} \cup Loading \cup {"entry", "paging"} \cup Mapped
  /\ cpu \in [eip : Int, esp : Int, pe : BOOLEAN, pg : BOOLEAN]
  /\ ld \in [pa : Int, end_pa : Int, sect : Int, ph : Int]
  /\ totalpages \in Nat /\ basepages \in Nat

(* Line 20 is on, or the controller is about to turn it on.  It is on when *)
(* a sector comes from the disk, and from then on.  Paging is off until    *)
(* the kernel turns it on.                                                 *)
LinePart ==
  /\ stage = "seta20.2" => (kbc.busy /\ kbc.in = "d1") \/ (~kbc.busy /\ kbc.cmd = "d1")
  /\ stage \notin {"seta20.1", "seta20.2"} =>
       kbc.a20 \/ (kbc.busy /\ kbc.in = "df" /\ kbc.cmd = "d1")
  /\ stage \in Loading /\ (ld.ph > 0 \/ ld.sect > 1 \/ (stage = "insl" /\ ~disk.busy)) => kbc.a20
  /\ InKernel => kbc.a20
  /\ cpu.pg <=> stage \in Mapped

(* The n bytes of the file from offset on are at the address pa, as far as *)
(* they are below the address lim: a segment, and the header.              *)
BytesIn(m, pa, n, offset, lim) ==
  \A k \in 0 .. n - 1 : pa + k < lim => m[pa + k] = File(offset + k)
SegIn(m, s, lim) == BytesIn(m, s.pa, s.memsz, s.offset, lim)
HeaderIn(m, lim) == BytesIn(m, ELFHDR, SECTSIZE * HDRSECTS, 0, lim)

(* While the header is read.                                               *)
HeaderPart ==
  stage \in Loading /\ ld.ph = 0 =>
    /\ ld.sect >= 1 /\ ld.pa = ELFHDR + (ld.sect - 1) * SECTSIZE
    /\ ld.sect <= HDRSECTS + 1 /\ ld.end_pa = ELFHDR + SECTSIZE * HDRSECTS
    /\ HeaderIn(mem, ld.pa)

(* While a segment of n bytes is read: the next sector is sect, for the    *)
(* address pa.                                                             *)
Going(spa, n, offset, pa, end_pa, sect) ==
  /\ end_pa = spa + n
  /\ pa - spa = (sect - 1) * SECTSIZE - offset
  /\ pa >= spa \/ pa = ROUNDDOWN(spa, SECTSIZE)
At(s, pa, end_pa, sect) == Going(s.pa, s.memsz, s.offset, pa, end_pa, sect)
SegPart ==
  stage \in Loading /\ ld.ph # 0 =>
    /\ ld.ph \in 1 .. Len(img.segs) /\ HeaderIn(mem, TOP)
    /\ At(img.segs[ld.ph], ld.pa, ld.end_pa, ld.sect)
    /\ SegIn(mem, img.segs[ld.ph], ld.pa)
    /\ \A n \in 1 .. ld.ph - 1 : SegIn(mem, img.segs[n], TOP)

(* Where readseg is.                                                       *)
ReadPart ==
  /\ stage \in {"seta20.1", "seta20.2", "protcseg"} => ld.ph = 0
  /\ stage \in {"readsect", "insl"} => ld.pa < ld.end_pa
  /\ stage = "insl" => disk.sect = ld.sect
  /\ stage = "bootmain" => ld.pa >= ld.end_pa

-----------------------------------------------------------------------------
(* The code and the data of the kernel are in memory.                      *)
KeptByte(g, m, s, k) ==
  \/ m[s.pa + k] = File(s.offset + k)
  \/ s.pa + k = g.stacktop - 1
  \/ s.pa + k >= g.edata
Kept(g, m) ==
  \A n \in 1 .. Len(g.segs) :
    \A k \in 0 .. g.segs[n].filesz - 1 : KeptByte(g, m, g.segs[n], k)

(* The n addresses from lo on lie in what entry_pgdir maps and, as far as  *)
(* memory, of r bytes, goes, hold 0.                                       *)
Clear(m, r, lo, n) ==
  /\ n = 0 \/ lo + n <= TOP
  /\ \A a \in lo .. lo + n - 1 : a < r => m[a] = 0

Eip(g) == IF stage \in {"entry", "paging", "jump"} THEN g.entry
          ELSE IF stage = "relocated" THEN KERNBASE + g.entry + 1
          ELSE KERNBASE + g.entry + 2
KernelPart ==
  /\ InKernel => Kept(img, mem) /\ cpu.eip = Eip(img)
  /\ stage \in Cleared => Clear(mem, ram, img.edata, img.end - img.edata)

(* What i386_detect_memory found.                                          *)
Found(np, npb, m) ==
  /\ np * PGSIZE <= m
  /\ m - np * PGSIZE < (IF m > EXT16PHYS THEN EXT16UNIT + PGSIZE ELSE PGSIZE)
  /\ npb * PGSIZE <= BASEMEM /\ npb <= np

(* Where boot_alloc puts kern_pgdir, pages and envs, and what follows.     *)
Base1 == PGROUNDUP(img.end)
Base2 == Base1 + PGROUNDUP(PGSIZE)
Base3 == Base2 + PGROUNDUP(totalpages * PAGEINFO)
Base4 == Base3 + PGROUNDUP(ENVSSIZE)
Area1 == [pa |-> Base1, n |-> PGSIZE]
Area2 == [pa |-> Base2, n |-> totalpages * PAGEINFO]
Area3 == [pa |-> Base3, n |-> ENVSSIZE]

(* kern_pgdir holds its entry at UVPT and nothing else.                    *)
Dir(m, r, b) ==
  /\ b + PGSIZE <= TOP
  /\ \A k \in 0 .. PGSIZE - 1 : b + k < r => m[b + k] = IF k = UVPTSLOT THEN Pde(b) ELSE 0

None == areas = << >> /\ nextfree = 0
One  == areas = <<Area1>> /\ nextfree = Base2
Two  == areas = <<Area1, Area2>> /\ nextfree = Base3 /\ Clear(mem, ram, Base2, totalpages * PAGEINFO)
Three == /\ areas = <<Area1, Area2, Area3>> /\ nextfree = Base4
         /\ Clear(mem, ram, Base2, totalpages * PAGEINFO) /\ Clear(mem, ram, Base3, ENVSSIZE)

AreaPart ==
  /\ stage \notin Counted => None
  /\ stage \in Counted => Found(totalpages, basepages, ram)
  /\ stage = "uvpt" => One /\ Clear(mem, ram, Base1, PGSIZE)
  /\ stage = "boot_alloc" => None \/ (One /\ Dir(mem, ram, Base1)) \/ (Two /\ Dir(mem, ram, Base1))
  /\ stage = "page_init" => Three /\ Dir(mem, ram, Base1)

BootInv ==
  /\ TypePart /\ LinePart /\ HeaderPart /\ SegPart /\ ReadPart
  /\ KernelPart /\ AreaPart

(* Where mem_init ends if pages[] is too large for what entry_pgdir maps.  *)
Faulted == stage = "fault" /\ ~Room(img, ram)

-----------------------------------------------------------------------------
(* Arithmetic.  The division of naturals.                                  *)
DivBy(a, n, q, r) == q = a \div n /\ r = a % n

(* Quotient and remainder.                                                 *)
LEMMA DivMod ==
  ASSUME NEW a \in Nat, NEW n \in Nat \ {0}, NEW q, NEW r, DivBy(a, n, q, r)
  PROVE  q \in Nat /\ r \in Nat /\ r < n /\ a = n * q + r
<1>1. q \in Nat
  BY DEF DivBy
<1>2. r \in Nat /\ r < n
  BY DEF DivBy
<1>3. a = n * q + r
  BY DEF DivBy
<1> QED BY <1>1, <1>2, <1>3

(* There is one quotient and one remainder.                                *)
LEMMA DivUnique ==
  ASSUME NEW q \in Nat, NEW r \in Nat, NEW n \in Nat \ {0}, r < n
  PROVE  (n * q + r) \div n = q /\ (n * q + r) % n = r
OBVIOUS

(* The quotient grows with the number.                                     *)
LEMMA DivMono ==
  ASSUME NEW a \in Nat, NEW b \in Nat, NEW n \in Nat \ {0}, a <= b
  PROVE  a \div n <= b \div n
OBVIOUS

(* So does a product.                                                      *)
LEMMA MulMono ==
  ASSUME NEW a \in Nat, NEW b \in Nat, NEW n \in Nat, a <= b
  PROVE  n * a <= n * b /\ n * a \in Nat /\ n * b \in Nat
<1>1. PICK c \in Nat : b = a + c
  <2>1. b - a \in Nat /\ b = a + (b - a)
    OBVIOUS
  <2> QED BY <2>1
<1>2. n * b = n * a + n * c /\ n * c \in Nat /\ n * a \in Nat
  BY <1>1
<1> QED BY <1>2

(* One more.                                                               *)
LEMMA MulNext ==
  ASSUME NEW a \in Int, NEW n \in Int
  PROVE  (a + 1) * n = a * n + n /\ a * n \in Int /\ (a + 1) * n \in Int
OBVIOUS

(* The assumptions, as the proofs use them.                                *)
LEMMA Consts ==
  /\ SECTSIZE \in Nat \ {0} /\ PGSIZE \in Nat \ {0} /\ ENTRIES \in Nat \ {0}
  /\ HDRSECTS \in Nat \ {0} /\ A20 \in Nat \ {0} /\ ENVSSIZE \in Nat \ {0}
  /\ EXT16UNIT \in Nat \ {0} /\ BYTE \in Nat \ {0}
  /\ TOP \in Nat /\ ELFHDR \in Nat /\ WARM \in Nat /\ KERNBASE \in Nat /\ UVPTSLOT \in Nat
  /\ PAGEINFO \in Nat /\ BASEMEM \in Nat /\ EXTPHYS \in Nat /\ EXT16PHYS \in Nat /\ EXTCAP \in Nat
BY BootAssumption

(* The end of the header.                                                  *)
LEMMA HeaderEnd ==
  /\ SECTSIZE * HDRSECTS \in Nat \ {0} /\ ELFHDR + SECTSIZE * HDRSECTS <= A20 /\ A20 <= TOP
<1>1. PICK h : h = SECTSIZE * HDRSECTS
  OBVIOUS
<1>2. h \in Nat \ {0}
  BY <1>1, Consts
<1> QED BY <1>1, <1>2, BootAssumption

(* A rounded address is at most a sector before the address.               *)
LEMMA RoundDown ==
  ASSUME NEW a \in Nat, NEW b, b = ROUNDDOWN(a, SECTSIZE)
  PROVE  b \in Nat /\ b <= a /\ a < b + SECTSIZE /\ b = SECTSIZE * SectorOf(a)
         /\ SectorOf(a) \in Nat
<1>1. PICK q, r : q = a \div SECTSIZE /\ r = a % SECTSIZE
  OBVIOUS
<1>2. q \in Nat /\ r \in Nat /\ r < SECTSIZE /\ a = SECTSIZE * q + r
  <2>1. DivBy(a, SECTSIZE, q, r)
    BY <1>1 DEF DivBy
  <2> QED BY <2>1, DivMod, Consts
<1>3. PICK p : p = SECTSIZE * q
  OBVIOUS
<1>4. p \in Nat
  BY <1>2, <1>3, Consts
<1>5. b = a - r
  BY <1>1 DEF ROUNDDOWN
<1>6. a = p + r
  BY <1>2, <1>3
<1>7. b = p
  BY <1>2, <1>4, <1>5, <1>6
<1> QED BY <1>1, <1>2, <1>3, <1>4, <1>6, <1>7, Consts DEF SectorOf

(* What lies between has the same sector.                                  *)
LEMMA SameSector ==
  ASSUME NEW a \in Nat, NEW c \in Nat, ROUNDDOWN(a, SECTSIZE) <= c, c <= a
  PROVE  SectorOf(c) = SectorOf(a)
<1>1. PICK q : q = SectorOf(a)
  OBVIOUS
<1>2. PICK p : p = SECTSIZE * q
  OBVIOUS
<1>3. ROUNDDOWN(a, SECTSIZE) = p /\ p \in Nat /\ a < p + SECTSIZE /\ q \in Nat
  BY <1>1, <1>2, RoundDown
<1>4. PICK d \in Nat : d < SECTSIZE /\ c = p + d
  <2>1. c - p \in Nat /\ c - p < SECTSIZE /\ c = p + (c - p)
    BY <1>3, Consts
  <2> QED BY <2>1
<1>5. (SECTSIZE * q + d) \div SECTSIZE = q
  BY <1>3, <1>4, Consts, DivUnique
<1> QED BY <1>1, <1>2, <1>4, <1>5 DEF SectorOf

(* A segment lies above 1MB, and so does its first sector.                 *)
LEMMA AboveA20 ==
  ASSUME NEW a \in Nat, a >= A20
  PROVE  ROUNDDOWN(a, SECTSIZE) >= A20
<1>1. PICK q, p : q = A20 \div SECTSIZE /\ p = a \div SECTSIZE
  OBVIOUS
<1>2. A20 % SECTSIZE = 0
  BY BootAssumption
<1>3. q \in Nat /\ A20 = SECTSIZE * q
  <2>0. PICK z : z = A20 % SECTSIZE
    OBVIOUS
  <2>1. A20 = SECTSIZE * q + z /\ q \in Nat /\ z = 0
    <3>1. DivBy(A20, SECTSIZE, q, z)
      BY <1>1, <2>0 DEF DivBy
    <3>2. A20 = SECTSIZE * q + z /\ q \in Nat
      BY <3>1, DivMod, Consts
    <3> QED BY <1>2, <2>0, <3>2
  <2>2. PICK x : x = SECTSIZE * q
    OBVIOUS
  <2>3. x \in Nat
    BY <2>1, <2>2, Consts
  <2> QED BY <2>1, <2>2, <2>3
<1>4. q <= p /\ p \in Nat
  BY <1>1, DivMono, Consts
<1>5. SECTSIZE * q <= SECTSIZE * p
  BY <1>3, <1>4, MulMono, Consts
<1>6. ROUNDDOWN(a, SECTSIZE) = SECTSIZE * p
  BY <1>1, RoundDown DEF SectorOf
<1> QED BY <1>3, <1>5, <1>6

-----------------------------------------------------------------------------
(* The segments of a kernel.                                               *)
LEMMA Linked ==
  ASSUME NEW g \in Images, NEW n \in 1 .. Len(g.segs), NEW s, s = g.segs[n]
  PROVE  \E pa, filesz, memsz, offset \in Nat :
           /\ s.pa = pa /\ s.filesz = filesz /\ s.memsz = memsz /\ s.offset = offset
           /\ pa % SECTSIZE = offset % SECTSIZE /\ filesz <= memsz
           /\ pa + memsz <= TOP /\ pa >= A20
<1>1. g \in Image /\ WellLinked(g)
  BY BootAssumption
<1>2. PICK q : q = g.segs
  OBVIOUS
<1>3. q \in Seq(Segment)
  BY <1>1, <1>2 DEF Image
<1>4. n \in 1 .. Len(q) /\ s = q[n]
  BY <1>2
<1>5. s \in Segment
  BY <1>3, <1>4, ElementOfSeq
<1>6. s.pa % SECTSIZE = s.offset % SECTSIZE /\ s.filesz <= s.memsz /\ s.pa + s.memsz <= TOP /\ s.pa >= A20
  BY <1>1 DEF WellLinked
<1>7. s.pa \in Nat /\ s.filesz \in Nat /\ s.memsz \in Nat /\ s.offset \in Nat
  BY <1>5 DEF Segment
<1> QED BY <1>6, <1>7

(* The bytes of a segment that the file holds lie in memory, above 1MB.    *)
Lies(s) ==
  \E pa, filesz, memsz, offset \in Nat :
    /\ s.pa = pa /\ s.filesz = filesz /\ s.memsz = memsz /\ s.offset = offset
    /\ filesz <= memsz /\ pa + memsz <= TOP /\ pa >= A20

(* So do they in every segment.                                            *)
LEMMA LinkedLies ==
  ASSUME NEW g \in Images, NEW n \in 1 .. Len(g.segs)
  PROVE  Lies(g.segs[n])
<1>0. PICK s : s = g.segs[n]
  OBVIOUS
<1>1. g \in Image /\ WellLinked(g)
  BY BootAssumption
<1>2. PICK q : q = g.segs
  OBVIOUS
<1>3. q \in Seq(Segment)
  BY <1>1, <1>2 DEF Image
<1>4. n \in 1 .. Len(q) /\ s = q[n]
  BY <1>0, <1>2
<1>5. s \in Segment
  BY <1>3, <1>4, ElementOfSeq
<1>6. s.filesz <= s.memsz /\ s.pa + s.memsz <= TOP /\ s.pa >= A20
  BY <1>0, <1>1 DEF WellLinked
<1>7. s.pa \in Nat /\ s.filesz \in Nat /\ s.memsz \in Nat /\ s.offset \in Nat
  BY <1>5 DEF Segment
<1> QED BY <1>0, <1>6, <1>7 DEF Lies

(* Two of them.                                                            *)
LEMMA LinkedTwo ==
  ASSUME NEW g \in Images, NEW n \in 1 .. Len(g.segs), NEW s, s = g.segs[n],
         NEW i \in 1 .. n - 1, NEW r, r = g.segs[i]
  PROVE  /\ i \in 1 .. Len(g.segs)
         /\ r.pa + r.memsz <= s.pa
         /\ SectorOf(r.pa + r.memsz - 1) = SectorOf(s.pa) => s.pa - r.pa = s.offset - r.offset
<1>1. g \in Image /\ WellLinked(g)
  BY BootAssumption
<1>2. PICK q : q = g.segs
  OBVIOUS
<1>3. q \in Seq(Segment)
  BY <1>1, <1>2 DEF Image
<1>4. Len(q) \in Nat
  BY <1>3, LenProperties
<1>5. i \in 1 .. Len(q)
  BY <1>2, <1>4
<1> QED BY <1>1, <1>2, <1>5 DEF WellLinked

(* A kernel that is loaded lies in memory, above 1MB.                      *)
LEMMA LinkedFits ==
  ASSUME NEW g \in Images, NEW m \in Memories
  PROVE  /\ m \in Nat /\ A20 <= m /\ g.end <= m
         /\ \A n \in 1 .. Len(g.segs) : g.segs[n].pa + g.segs[n].memsz <= m
<1>1. g \in Image /\ Loadable(g, m) /\ m \in Nat /\ A20 <= m
  BY BootAssumption
<1>2. DOMAIN g.segs = 1 .. Len(g.segs)
  <2>1. PICK q \in Seq(Segment) : q = g.segs
    BY <1>1 DEF Image
  <2> QED BY <2>1, LenProperties
<1> QED BY <1>1, <1>2 DEF Loadable

(* The other addresses of a kernel.                                        *)
LEMMA LinkedImage ==
  ASSUME NEW g \in Images
  PROVE  /\ g.entry \in Nat /\ g.stacktop \in Nat /\ g.edata \in Nat /\ g.end \in Nat
         /\ g.magic \in BOOLEAN /\ g.segs \in Seq(Segment)
         /\ A20 <= g.edata /\ g.edata <= g.end /\ g.end < TOP
         /\ g.entry + 2 < TOP /\ 0 < g.stacktop /\ g.stacktop <= TOP
<1>1. g \in Image /\ WellLinked(g)
  BY BootAssumption
<1>2. g.entry \in Nat /\ g.stacktop \in Nat /\ g.edata \in Nat /\ g.end \in Nat
  BY <1>1 DEF Image
<1>3. g.magic \in BOOLEAN /\ g.segs \in Seq(Segment)
  BY <1>1 DEF Image
<1> QED BY <1>1, <1>2, <1>3 DEF WellLinked

-----------------------------------------------------------------------------
(* A sector that comes from the disk: the byte P + j of the file goes to   *)
(* the address pa + j, as far as memory, of r bytes, goes.                 *)
Sectored(m, m2, r, pa, P) ==
  /\ m2 \in [Addrs -> Int]
  /\ \A a \in Addrs : a < r /\ a \in pa .. pa + SECTSIZE - 1 => m2[a] = File(P + (a - pa))
  /\ \A a \in Addrs : a < r /\ a \notin pa .. pa + SECTSIZE - 1 => m2[a] = m[a]

(* What is read next.                                                      *)
LEMMA SectorNext ==
  ASSUME NEW m, NEW m2, NEW r \in Nat, NEW pa \in Nat, NEW P \in Int, Sectored(m, m2, r, pa, P),
         NEW spa \in Nat, NEW n \in Nat, NEW offset \in Nat, spa + n <= TOP, spa + n <= r,
         pa - spa = P - offset, BytesIn(m, spa, n, offset, pa)
  PROVE  BytesIn(m2, spa, n, offset, pa + SECTSIZE)
<1> SUFFICES ASSUME NEW k \in 0 .. n - 1, spa + k < pa + SECTSIZE
             PROVE  m2[spa + k] = File(offset + k)
  BY DEF BytesIn
<1>1. PICK a \in Nat : a = spa + k
  OBVIOUS
<1>2. a \in Addrs /\ a < r
  BY <1>1, Consts DEF Addrs
<1>3. CASE a < pa
  <2>1. m[a] = File(offset + k)
    BY <1>1, <1>3 DEF BytesIn
  <2>2. a \notin pa .. pa + SECTSIZE - 1
    BY <1>3, Consts
  <2> QED BY <1>1, <1>2, <2>1, <2>2 DEF Sectored
<1>4. CASE a >= pa
  <2>1. a \in pa .. pa + SECTSIZE - 1
    BY <1>1, <1>4, Consts
  <2>2. P + (a - pa) = offset + k
    BY <1>1
  <2> QED BY <1>1, <1>2, <2>1, <2>2 DEF Sectored
<1> QED BY <1>3, <1>4

(* What is in memory stays there, if the sector lies behind it,            *)
LEMMA SectorBehind ==
  ASSUME NEW m, NEW m2, NEW r \in Nat, NEW pa \in Nat, NEW P \in Int, Sectored(m, m2, r, pa, P),
         NEW spa \in Nat, NEW n \in Nat, NEW offset \in Nat, spa + n <= TOP, spa + n <= r, spa + n <= pa,
         BytesIn(m, spa, n, offset, TOP)
  PROVE  BytesIn(m2, spa, n, offset, TOP)
<1> SUFFICES ASSUME NEW k \in 0 .. n - 1, spa + k < TOP
             PROVE  m2[spa + k] = File(offset + k)
  BY DEF BytesIn
<1>1. PICK a \in Nat : a = spa + k
  OBVIOUS
<1>2. a \in Addrs /\ a < r /\ a \notin pa .. pa + SECTSIZE - 1
  BY <1>1, Consts DEF Addrs
<1>3. m[a] = File(offset + k)
  BY <1>1 DEF BytesIn
<1> QED BY <1>1, <1>2, <1>3 DEF Sectored

(* and if it holds the same bytes of the file.                             *)
LEMMA SectorSame ==
  ASSUME NEW m, NEW m2, NEW r \in Nat, NEW pa \in Nat, NEW P \in Int, Sectored(m, m2, r, pa, P),
         NEW spa \in Nat, NEW n \in Nat, NEW offset \in Nat, spa + n <= TOP, spa + n <= r,
         pa - spa = P - offset, BytesIn(m, spa, n, offset, TOP)
  PROVE  BytesIn(m2, spa, n, offset, TOP)
<1> SUFFICES ASSUME NEW k \in 0 .. n - 1, spa + k < TOP
             PROVE  m2[spa + k] = File(offset + k)
  BY DEF BytesIn
<1>1. PICK a \in Nat : a = spa + k
  OBVIOUS
<1>2. a \in Addrs /\ a < r
  BY <1>1, Consts DEF Addrs
<1>3. m[a] = File(offset + k)
  BY <1>1 DEF BytesIn
<1>4. P + (a - pa) = offset + k
  BY <1>1
<1> QED BY <1>1, <1>2, <1>3, <1>4 DEF Sectored

(* A segment in memory stays there while a later one is read, though they  *)
(* may share a sector.                                                     *)
LEMMA SectorEarlier ==
  ASSUME NEW m, NEW m2, NEW r \in Nat, NEW pa \in Nat, NEW P \in Int, Sectored(m, m2, r, pa, P),
         NEW spa \in Nat, NEW offset \in Nat, NEW rpa \in Nat, NEW rn \in Nat, NEW roff \in Nat,
         pa - spa = P - offset, pa >= spa \/ pa = ROUNDDOWN(spa, SECTSIZE),
         rpa + rn <= TOP, rpa + rn <= r, rpa + rn <= spa,
         SectorOf(rpa + rn - 1) = SectorOf(spa) => spa - rpa = offset - roff,
         BytesIn(m, rpa, rn, roff, TOP)
  PROVE  BytesIn(m2, rpa, rn, roff, TOP)
<1>1. CASE rpa + rn <= pa
  BY <1>1, SectorBehind
<1>2. CASE rpa + rn > pa
  <2>1. pa = ROUNDDOWN(spa, SECTSIZE)
    BY <1>2
  <2>2. PICK c \in Nat : c = rpa + rn - 1 /\ pa <= c /\ c <= spa
    BY <1>2
  <2>3. SectorOf(c) = SectorOf(spa)
    BY <2>1, <2>2, SameSector
  <2>4. spa - rpa = offset - roff
    BY <2>2, <2>3
  <2>5. pa - rpa = P - roff
    BY <2>4
  <2> QED BY <2>5, SectorSame
<1> QED BY <1>1, <1>2

-----------------------------------------------------------------------------
(* The byte of the sector that goes to the address a.                      *)
Spot(pa, a) == CHOOSE k \in 0 .. SECTSIZE - 1 : Line20(pa + k) = a

(* readsect puts a sector in memory.                                       *)
LEMMA SectorRead ==
  ASSUME TypePart, readsect_data, NEW pa \in Nat, pa = ld.pa,
         NEW P \in Int, P = (disk.sect - 1) * SECTSIZE,
         \A k \in 0 .. SECTSIZE - 1 : Line20(pa + k) = pa + k
  PROVE  Sectored(mem, mem', ram, pa, P)
<1>1. PICK dst : dst = {Line20(pa + k) : k \in 0 .. SECTSIZE - 1}
  OBVIOUS
<1>2. /\ \A a \in Addrs : a < ram /\ a \notin dst => mem'[a] = mem[a]
      /\ \A a \in Addrs : a < ram /\ a \in dst =>
           mem'[a] = File(P + Spot(pa, a))
      /\ \A a \in Addrs : ~(a < ram) => mem'[a] = Junk
      /\ DOMAIN mem' = Addrs /\ mem' = [a \in Addrs |-> mem'[a]]
  <2>1. mem' = Stored([a \in Addrs |-> IF a \notin dst THEN mem[a] ELSE File(P + Spot(pa, a))])
    BY <1>1 DEF readsect_data, disk_ready, Spot
  <2>2. PICK b : b = [a \in Addrs |-> IF a \notin dst THEN mem[a] ELSE File(P + Spot(pa, a))]
    OBVIOUS
  <2>3. mem' = [a \in Addrs |-> IF a < ram THEN b[a] ELSE Junk]
    BY <2>1, <2>2 DEF Stored
  <2> QED BY <2>2, <2>3
<1>3. ASSUME NEW a \in Addrs PROVE a \in dst <=> a \in pa .. pa + SECTSIZE - 1
  <2>1. a \in Int /\ SECTSIZE \in Nat
    BY Consts DEF Addrs
  <2>2. ASSUME a \in pa .. pa + SECTSIZE - 1 PROVE a \in dst
    <3>1. a - pa \in 0 .. SECTSIZE - 1 /\ pa + (a - pa) = a
      BY <2>1, <2>2
    <3> QED BY <1>1, <3>1
  <2>3. ASSUME a \in dst PROVE a \in pa .. pa + SECTSIZE - 1
    <3>1. PICK k \in 0 .. SECTSIZE - 1 : a = pa + k
      BY <1>1, <2>3
    <3> QED BY <2>1, <3>1
  <2> QED BY <2>2, <2>3
<1>4. ASSUME NEW a \in Addrs, a < ram, a \in pa .. pa + SECTSIZE - 1
      PROVE  mem'[a] = File(P + (a - pa))
  <2>1. a \in Int /\ SECTSIZE \in Nat
    BY Consts DEF Addrs
  <2>2. PICK j \in 0 .. SECTSIZE - 1 : j = a - pa /\ pa + j = a
    BY <1>4, <2>1
  <2>3. PICK c : c = Spot(pa, a)
    OBVIOUS
  <2>4. c \in 0 .. SECTSIZE - 1 /\ Line20(pa + c) = a
    <3>1. Line20(pa + j) = a
      BY <2>2
    <3> QED BY <2>3, <3>1 DEF Spot
  <2>5. pa + c = a
    BY <2>4
  <2>6. c = a - pa
    BY <2>1, <2>4, <2>5
  <2>7. a \in dst
    BY <1>3, <1>4
  <2> QED BY <1>2, <1>4, <2>3, <2>6, <2>7
<1>5. ASSUME NEW a \in Addrs, a < ram, a \notin pa .. pa + SECTSIZE - 1
      PROVE  mem'[a] = mem[a]
  BY <1>2, <1>3, <1>5
<1>6. ASSUME NEW a \in Addrs PROVE mem'[a] \in Int
  <2>1. mem[a] \in Int /\ a \in Int
    BY DEF TypePart, Addrs
  <2>2. CASE a < ram /\ a \in pa .. pa + SECTSIZE - 1
    BY <1>4, <2>1, <2>2 DEF File
  <2>3. CASE a < ram /\ a \notin pa .. pa + SECTSIZE - 1
    BY <1>5, <2>1, <2>3
  <2>4. CASE ~(a < ram)
    BY <1>2, <2>4 DEF Junk
  <2> QED BY <2>2, <2>3, <2>4
<1>7. mem' \in [Addrs -> Int]
  BY <1>2, <1>6
<1> QED BY <1>4, <1>5, <1>7 DEF Sectored

(* Below 1MB, and when it is on, line 20 changes no address.               *)
LEMMA LineKeeps ==
  ASSUME NEW a \in Nat, kbc.a20 \/ a < A20
  PROVE  Line20(a) = a
<1>1. CASE kbc.a20
  BY <1>1 DEF Line20
<1>2. CASE a < A20
  <2>1. (A20 * 0 + a) \div A20 = 0
    BY <1>2, DivUnique, Consts
  <2>2. A20 * 0 + a = a
    BY Consts
  <2>3. (a \div A20) % 2 = 0
    BY <2>1, <2>2
  <2> QED BY <2>3 DEF Line20
<1> QED BY <1>1, <1>2

(* Outside of bootmain there is nothing to say of it.                      *)
LEMMA NotLoading ==
  ASSUME stage \notin Loading
  PROVE  HeaderPart /\ SegPart
BY DEF HeaderPart, SegPart

(* Nor of the kernel before it runs.                                       *)
LEMMA NotRunning ==
  ASSUME ~InKernel
  PROVE  KernelPart /\ (None => AreaPart)
BY DEF InKernel, KernelPart, AreaPart, Cleared, Counted

(* The first states.                                                       *)
LEMMA InitInv == BootInit => BootInv
<1> SUFFICES ASSUME BootInit PROVE BootInv
  OBVIOUS
<1>1. stage = "seta20.1" /\ None
  BY DEF BootInit, None
<1>2. HeaderPart /\ SegPart
  BY <1>1, NotLoading DEF Loading
<1>3. ~InKernel
  BY <1>1 DEF InKernel
<1>4. KernelPart /\ AreaPart
  BY <1>1, <1>3, NotRunning
<1>5. LinePart
  BY <1>1, <1>3 DEF BootInit, LinePart, Loading, Mapped
<1>6. TypePart
  <2>1. img \in Images /\ ram \in Memories
    BY DEF BootInit
  <2>2. mem \in [Addrs -> Int]
    BY DEF BootInit, Junk
  <2>3. kbc \in [busy : BOOLEAN, in : Device, cmd : Device, a20 : BOOLEAN]
    BY DEF BootInit, Device
  <2>4. disk \in [busy : BOOLEAN, sect : Int]
    BY DEF BootInit
  <2>5. cpu \in [eip : Int, esp : Int, pe : BOOLEAN, pg : BOOLEAN]
    BY DEF BootInit
  <2>6. ld \in [pa : Int, end_pa : Int, sect : Int, ph : Int]
    BY DEF BootInit
  <2>7. totalpages \in Nat /\ basepages \in Nat
    BY DEF BootInit
  <2> QED BY <1>1, <2>1, <2>2, <2>3, <2>4, <2>5, <2>6, <2>7 DEF TypePart
<1>7. ReadPart
  <2>1. ld.ph = 0
    BY DEF BootInit
  <2> QED BY <1>1, <2>1 DEF ReadPart
<1> QED BY <1>2, <1>4, <1>5, <1>6, <1>7 DEF BootInv

-----------------------------------------------------------------------------
(* What a step does not touch stays as it is.                              *)
LEMMA FrameLoad ==
  ASSUME UNCHANGED <<stage, ld, mem, img>>, HeaderPart, SegPart
  PROVE  HeaderPart' /\ SegPart'
BY DEF HeaderPart, SegPart

(* The same for the kernel.                                                *)
LEMMA FrameKernel ==
  ASSUME UNCHANGED <<stage, img, ram, mem, cpu>>, KernelPart
  PROVE  KernelPart'
BY DEF KernelPart, InKernel, Eip

(* The places of the areas depend on the kernel and on totalpages.         *)
LEMMA FrameBases ==
  ASSUME UNCHANGED <<img, totalpages>>
  PROVE  /\ Base1' = Base1 /\ Base2' = Base2 /\ Base3' = Base3 /\ Base4' = Base4
         /\ Area1' = Area1 /\ Area2' = Area2 /\ Area3' = Area3
BY DEF Base1, Base2, Base3, Base4, Area1, Area2, Area3

(* And the areas.                                                          *)
LEMMA FrameArea ==
  ASSUME UNCHANGED <<stage, img, ram, mem, kernel>>, AreaPart
  PROVE  AreaPart'
<1>1. UNCHANGED <<totalpages, basepages, nextfree, areas>>
  BY DEF kernel
<1>2. None' = None /\ One' = One /\ Two' = Two /\ Three' = Three
  BY <1>1, FrameBases DEF None, One, Two, Three
<1> QED BY <1>1, <1>2, FrameBases DEF AreaPart

(* Before the kernel runs, and outside of bootmain.                        *)
LEMMA FrameEarly ==
  ASSUME AreaPart, stage \notin Counted, UNCHANGED kernel, ~InKernel'
  PROVE  KernelPart' /\ AreaPart'
<1>1. None'
  BY DEF AreaPart, None, kernel
<1> QED BY <1>1, NotRunning DEF InKernel, KernelPart, AreaPart, Cleared, Counted

(* The controller.                                                         *)
LEMMA KbcInv ==
  ASSUME BootInv, KbcStep
  PROVE  BootInv'
<1>1. UNCHANGED <<img, ram, mem, stage, cpu, ld, disk, kernel>> /\ kbc.busy
  BY DEF KbcStep
<1>2. HeaderPart' /\ SegPart' /\ KernelPart' /\ AreaPart'
  BY <1>1, FrameLoad, FrameKernel, FrameArea DEF BootInv
<1>3. ReadPart'
  BY <1>1 DEF BootInv, ReadPart
<1>4. /\ kbc' \in [busy : BOOLEAN, in : Device, cmd : Device, a20 : BOOLEAN]
      /\ ~kbc'.busy /\ (kbc.in = "d1" => kbc'.cmd = "d1")
      /\ kbc'.a20 <=> kbc.a20 \/ (kbc.in = "df" /\ kbc.cmd = "d1")
  BY DEF KbcStep, Device
<1>5. TypePart'
  BY <1>1, <1>4 DEF BootInv, TypePart, kernel
<1>6. LinePart'
  BY <1>1, <1>4 DEF BootInv, LinePart, InKernel
<1> QED BY <1>2, <1>3, <1>5, <1>6 DEF BootInv

(* The disk.                                                               *)
LEMMA DiskInv ==
  ASSUME BootInv, DiskStep
  PROVE  BootInv'
<1>1. UNCHANGED <<img, ram, mem, stage, cpu, ld, kbc, kernel>> /\ (stage = "insl" => ~kbc.busy)
  BY DEF DiskStep
<1>2. HeaderPart' /\ SegPart' /\ KernelPart' /\ AreaPart'
  BY <1>1, FrameLoad, FrameKernel, FrameArea DEF BootInv
<1>3. disk' \in [busy : BOOLEAN, sect : Int] /\ disk'.sect = disk.sect
  BY DEF DiskStep, BootInv, TypePart
<1>4. ReadPart'
  BY <1>1, <1>3 DEF BootInv, ReadPart
<1>5. TypePart'
  BY <1>1, <1>3 DEF BootInv, TypePart, kernel
<1>6. LinePart'
  <2>1. stage = "insl" => kbc.a20
    BY <1>1 DEF BootInv, LinePart
  <2> QED BY <1>1, <2>1 DEF BootInv, LinePart, InKernel
<1> QED BY <1>2, <1>4, <1>5, <1>6 DEF BootInv

(* boot.S, up to bootmain.                                                 *)
LEMMA SetA20Inv ==
  ASSUME BootInv, seta20_1 \/ seta20_2
  PROVE  BootInv'
<1>1. /\ UNCHANGED <<img, ram, mem, cpu, ld, disk, kernel>>
      /\ \/ stage = "seta20.1" /\ stage' = "seta20.2"
         \/ stage = "seta20.2" /\ stage' = "protcseg"
  BY DEF seta20_1, seta20_2
<1>2. stage \notin Counted /\ stage' \notin Loading /\ ~InKernel'
  BY <1>1 DEF Counted, Loading, InKernel
<1>3. KernelPart' /\ AreaPart'
  BY <1>1, <1>2, FrameEarly DEF BootInv
<1>4. HeaderPart' /\ SegPart' /\ ReadPart'
  BY <1>1, <1>2 DEF BootInv, HeaderPart, SegPart, ReadPart, Loading
<1>5. kbc' \in [busy : BOOLEAN, in : Device, cmd : Device, a20 : BOOLEAN]
  <2>1. kbc \in [busy : BOOLEAN, in : Device, cmd : Device, a20 : BOOLEAN]
    BY DEF BootInv, TypePart
  <2>2. kbc' = kbc_write("d1") \/ kbc' = kbc_write("df")
    BY DEF seta20_1, seta20_2
  <2>3. ASSUME NEW v \in Device
        PROVE  kbc_write(v) \in [busy : BOOLEAN, in : Device, cmd : Device, a20 : BOOLEAN]
    <3>1. CASE kbc.busy
      BY <2>1, <3>1 DEF kbc_write
    <3>2. CASE ~kbc.busy
      BY <2>1, <3>2 DEF kbc_write
    <3> QED BY <3>1, <3>2
  <2>4. "d1" \in Device /\ "df" \in Device
    BY DEF Device
  <2> QED BY <2>2, <2>3, <2>4, Zenon
<1>6. TypePart'
  BY <1>1, <1>5 DEF BootInv, TypePart, kernel
<1>7. LinePart'
  <2>1. CASE seta20_1
    <3>1. kbc'.busy /\ kbc'.in = "d1" /\ stage' = "seta20.2"
      BY <2>1 DEF seta20_1, kbc_write, kbc_ready, BootInv, TypePart
    <3> QED BY <1>1, <1>2, <3>1 DEF BootInv, LinePart, Mapped
  <2>2. CASE seta20_2
    <3>1. kbc.cmd = "d1"
      BY <2>2 DEF seta20_2, kbc_ready, BootInv, LinePart
    <3>2. kbc'.busy /\ kbc'.in = "df" /\ kbc'.cmd = "d1" /\ stage' = "protcseg"
      BY <2>2, <3>1 DEF seta20_2, kbc_write, kbc_ready, BootInv, TypePart
    <3> QED BY <1>1, <1>2, <3>2 DEF BootInv, LinePart, Mapped
  <2> QED BY <2>1, <2>2
<1> QED BY <1>3, <1>4, <1>6, <1>7 DEF BootInv

(* bootmain asks for the header.                                           *)
LEMMA ProtInv ==
  ASSUME BootInv, protcseg
  PROVE  BootInv'
<1>1. /\ UNCHANGED <<img, ram, mem, disk, kbc, kernel>> /\ stage = "protcseg" /\ stage' = "readseg"
      /\ cpu' = [cpu EXCEPT !.pe = TRUE] /\ ld' = readseg(ELFHDR, SECTSIZE * HDRSECTS, 0)
  BY DEF protcseg
<1>2. stage \notin Counted /\ ~InKernel' /\ stage' \in Loading
  BY <1>1 DEF Counted, InKernel, Loading
<1>3. KernelPart' /\ AreaPart'
  BY <1>1, <1>2, FrameEarly DEF BootInv
<1>4. PICK h \in Nat : h = SECTSIZE * HDRSECTS /\ h # 0
  BY HeaderEnd
<1>5. ROUNDDOWN(ELFHDR, SECTSIZE) = ELFHDR /\ (0 \div SECTSIZE) + 1 = 1
  <2>1. ELFHDR % SECTSIZE = 0
    BY BootAssumption
  <2>2. ELFHDR - 0 = ELFHDR
    BY Consts
  <2>3. 0 \div SECTSIZE = 0
    BY Consts
  <2>4. ROUNDDOWN(ELFHDR, SECTSIZE) = ELFHDR
    BY <2>1, <2>2, Zenon DEF ROUNDDOWN
  <2> QED BY <2>3, <2>4
<1>6. /\ ld' \in [pa : Int, end_pa : Int, sect : Int, ph : Int]
      /\ ld'.pa = ELFHDR /\ ld'.end_pa = ELFHDR + h /\ ld'.sect = 1 /\ ld'.ph = 0
  <2>1. ld \in [pa : Int, end_pa : Int, sect : Int, ph : Int] /\ ld.ph = 0
    BY <1>1 DEF BootInv, TypePart, ReadPart
  <2>2. ELFHDR \in Int /\ ELFHDR + h \in Int
    BY Consts
  <2>3. PICK x \in Int, y \in Int : x = ELFHDR /\ y = ELFHDR + h
    BY <2>2
  <2>4. ld' = [ld EXCEPT !.pa = x, !.end_pa = y, !.sect = 1]
    BY <1>1, <1>4, <1>5, <2>3 DEF readseg
  <2>5. ld' \in [pa : Int, end_pa : Int, sect : Int, ph : Int]
    <3>1. PICK L, z : z \in Int /\ L = ld /\ L \in [pa : Int, end_pa : Int, sect : Int, ph : Int] /\ z = 1
      BY <2>1
    <3>2. ld' = [L EXCEPT !.pa = x, !.end_pa = y, !.sect = z]
      BY <2>4, <3>1
    <3> QED BY <3>1, <3>2
  <2>6. ld'.pa = x /\ ld'.end_pa = y /\ ld'.sect = 1 /\ ld'.ph = ld.ph
    BY <2>4 DEF BootInv, TypePart
  <2> QED BY <2>1, <2>3, <2>5, <2>6
<1>7. HeaderPart'
  <2>1. (1 - 1) * SECTSIZE = 0 /\ ELFHDR + 0 = ELFHDR /\ 1 <= HDRSECTS + 1
    BY Consts
  <2>2. ld'.pa = ELFHDR + (ld'.sect - 1) * SECTSIZE
    BY <1>6, <2>1
  <2>3. HeaderIn(mem', ld'.pa)
    <3>1. \A k \in 0 .. h - 1 : ~(ELFHDR + k < ELFHDR)
      BY Consts
    <3> QED BY <1>4, <1>6, <3>1 DEF HeaderIn, BytesIn
  <2> QED BY <1>4, <1>6, <2>1, <2>2, <2>3 DEF HeaderPart
<1>8. SegPart' /\ ReadPart'
  BY <1>1, <1>6 DEF SegPart, ReadPart
<1>9. LinePart'
  BY <1>1, <1>2, <1>6 DEF BootInv, LinePart, Mapped
<1>10. TypePart'
  <2>1. cpu' \in [eip : Int, esp : Int, pe : BOOLEAN, pg : BOOLEAN]
    BY <1>1 DEF BootInv, TypePart
  <2> QED BY <1>1, <1>2, <1>6, <2>1 DEF BootInv, TypePart, kernel
<1> QED BY <1>3, <1>7, <1>8, <1>9, <1>10 DEF BootInv

(* The loop of readseg.                                                    *)
LEMMA LoopInv ==
  ASSUME BootInv, readseg_loop
  PROVE  BootInv'
<1>1. /\ UNCHANGED <<img, ram, mem, cpu, ld, disk, kbc, kernel>> /\ stage = "readseg"
      /\ \/ stage' = "readsect" /\ ld.pa < ld.end_pa
         \/ stage' = "bootmain" /\ ~(ld.pa < ld.end_pa)
  BY DEF readseg_loop, loader
<1>2. stage \notin Counted /\ ~InKernel' /\ stage' \in Loading /\ stage \in Loading /\ stage' # "insl"
  BY <1>1 DEF Counted, InKernel, Loading
<1>3. KernelPart' /\ AreaPart'
  BY <1>1, <1>2, FrameEarly DEF BootInv
<1>4. HeaderPart' /\ SegPart'
  BY <1>1, <1>2 DEF BootInv, HeaderPart, SegPart
<1>5. ReadPart'
  <2>1. ld.pa \in Int /\ ld.end_pa \in Int
    BY DEF BootInv, TypePart
  <2> QED BY <1>1, <2>1 DEF ReadPart
<1>6. LinePart'
  BY <1>1, <1>2 DEF BootInv, LinePart, Mapped
<1>7. TypePart'
  BY <1>1, <1>2 DEF BootInv, TypePart, kernel
<1> QED BY <1>3, <1>4, <1>5, <1>6, <1>7 DEF BootInv

(* The command of readsect.                                                *)
LEMMA CmdInv ==
  ASSUME BootInv, readsect_cmd
  PROVE  BootInv'
<1>1. /\ UNCHANGED <<img, ram, mem, cpu, ld, kbc, kernel>> /\ stage = "readsect" /\ stage' = "insl"
      /\ disk' = [busy |-> TRUE, sect |-> ld.sect]
  BY DEF readsect_cmd
<1>2. stage \notin Counted /\ ~InKernel' /\ stage' \in Loading /\ stage \in Loading
  BY <1>1 DEF Counted, InKernel, Loading
<1>3. KernelPart' /\ AreaPart'
  BY <1>1, <1>2, FrameEarly DEF BootInv
<1>4. HeaderPart' /\ SegPart'
  BY <1>1, <1>2 DEF BootInv, HeaderPart, SegPart
<1>5. disk' \in [busy : BOOLEAN, sect : Int] /\ disk'.busy /\ disk'.sect = ld.sect
  BY <1>1 DEF BootInv, TypePart
<1>6. ReadPart'
  BY <1>1, <1>5 DEF BootInv, ReadPart
<1>7. LinePart'
  BY <1>1, <1>2, <1>5 DEF BootInv, LinePart, Mapped
<1>8. TypePart'
  BY <1>1, <1>2, <1>5 DEF BootInv, TypePart, kernel
<1> QED BY <1>3, <1>4, <1>6, <1>7, <1>8 DEF BootInv

(* A sector of the header.                                                 *)
LEMMA HeaderSector ==
  ASSUME BootInv, readsect_data, ld.ph = 0
  PROVE  /\ \A k \in 0 .. SECTSIZE - 1 : Line20(ld.pa + k) = ld.pa + k
         /\ HeaderIn(mem', ld.pa + SECTSIZE) /\ mem' \in [Addrs -> Int]
         /\ ld.pa + SECTSIZE = ELFHDR + ((ld.sect + 1) - 1) * SECTSIZE
         /\ ld.sect >= 1 /\ ld.sect <= HDRSECTS /\ ld.end_pa = ELFHDR + SECTSIZE * HDRSECTS
<1>1. stage = "insl" /\ stage \in Loading
  BY DEF readsect_data, Loading
<1>2. PICK pa \in Int, sect \in Int : pa = ld.pa /\ sect = ld.sect
  BY DEF BootInv, TypePart
<1>3. PICK h \in Nat : h = SECTSIZE * HDRSECTS /\ ELFHDR + h <= A20 /\ ELFHDR + h <= TOP
  BY HeaderEnd, Consts
<1>4. PICK p \in Int : p = (sect - 1) * SECTSIZE
  BY <1>2, Consts
<1>5. /\ sect >= 1 /\ pa = ELFHDR + p /\ ld.end_pa = ELFHDR + h /\ HeaderIn(mem, pa)
      /\ pa < ELFHDR + h /\ disk.sect = sect
  BY <1>1, <1>2, <1>3, <1>4 DEF BootInv, HeaderPart, ReadPart
<1>6. p \in Nat /\ pa \in Nat
  <2>1. sect - 1 \in Nat
    BY <1>5
  <2>2. p \in Nat
    BY <1>4, <2>1, Consts
  <2> QED BY <1>5, <2>2, Consts
<1>7. sect <= HDRSECTS
  <2>1. p < h
    BY <1>5, <1>6, <1>3, Consts
  <2>2. SUFFICES ASSUME sect > HDRSECTS PROVE FALSE
    BY <1>2, Consts
  <2>3. HDRSECTS \in Nat /\ sect - 1 \in Nat /\ HDRSECTS <= sect - 1
    BY <1>2, <2>2, Consts
  <2>4. SECTSIZE * HDRSECTS <= SECTSIZE * (sect - 1)
    BY <2>3, Consts, MulMono
  <2>5. SECTSIZE * (sect - 1) = p
    BY <1>4, <2>3, Consts
  <2> QED BY <1>3, <1>4, <2>1, <2>4, <2>5
<1>8. p + SECTSIZE <= h /\ ((sect + 1) - 1) * SECTSIZE = p + SECTSIZE
  <2>1. sect - 1 \in Nat /\ (sect - 1) + 1 = sect /\ sect \in Nat /\ (sect + 1) - 1 = sect
    BY <1>2, <1>5
  <2>2. sect * SECTSIZE = p + SECTSIZE
    BY <1>4, <2>1, MulNext, Consts
  <2>3. SECTSIZE * sect <= SECTSIZE * HDRSECTS
    BY <1>7, <2>1, MulMono, Consts
  <2>4. SECTSIZE * sect = sect * SECTSIZE
    BY <2>1, Consts
  <2> QED BY <1>3, <2>1, <2>2, <2>3, <2>4
<1>9. \A k \in 0 .. SECTSIZE - 1 : Line20(pa + k) = pa + k
  <2> TAKE k \in 0 .. SECTSIZE - 1
  <2>1. pa + k \in Nat /\ pa + k < A20
    BY <1>3, <1>5, <1>6, <1>8, Consts
  <2> QED BY <2>1, LineKeeps
<1>10. Sectored(mem, mem', ram, pa, p)
  BY <1>2, <1>4, <1>5, <1>6, <1>9, SectorRead DEF BootInv
<1>11. BytesIn(mem, ELFHDR, h, 0, pa)
  BY <1>3, <1>5 DEF HeaderIn
<1>12. pa - ELFHDR = p - 0 /\ 0 \in Nat /\ ELFHDR \in Nat
  BY <1>5, <1>6, Consts
<1>13. BytesIn(mem', ELFHDR, h, 0, pa + SECTSIZE)
  <2>1. ram \in Nat /\ A20 <= ram
    BY LinkedFits DEF BootInv, TypePart
  <2>2. ELFHDR + h <= ram
    BY <1>3, <2>1, Consts
  <2> QED BY <1>3, <1>6, <1>10, <1>11, <1>12, <2>1, <2>2, SectorNext
<1>14. HeaderIn(mem', pa + SECTSIZE)
  BY <1>3, <1>13 DEF HeaderIn
<1>15. mem' \in [Addrs -> Int]
  BY <1>10 DEF Sectored
<1>16. pa + SECTSIZE = ELFHDR + ((sect + 1) - 1) * SECTSIZE
  BY <1>5, <1>6, <1>8, Consts
<1> QED BY <1>2, <1>3, <1>5, <1>7, <1>9, <1>14, <1>15, <1>16

(* A sector of a segment.                                                  *)
LEMMA SegmentSector ==
  ASSUME BootInv, readsect_data, ld.ph # 0
  PROVE  /\ kbc.a20 /\ mem' \in [Addrs -> Int]
         /\ HeaderIn(mem', TOP) /\ ld.ph \in 1 .. Len(img.segs)
         /\ At(img.segs[ld.ph], ld.pa + SECTSIZE, ld.end_pa, ld.sect + 1)
         /\ SegIn(mem', img.segs[ld.ph], ld.pa + SECTSIZE)
         /\ \A n \in 1 .. ld.ph - 1 : SegIn(mem', img.segs[n], TOP)
<1>1. stage = "insl" /\ stage \in Loading /\ ~disk.busy
  BY DEF readsect_data, Loading, disk_ready
<1>2. kbc.a20
  BY <1>1 DEF BootInv, LinePart
<1>3. PICK lpa \in Int, sect \in Int, ph \in Int : lpa = ld.pa /\ sect = ld.sect /\ ph = ld.ph
  BY DEF BootInv, TypePart
<1>4. /\ ph \in 1 .. Len(img.segs) /\ HeaderIn(mem, TOP)
      /\ At(img.segs[ph], lpa, ld.end_pa, sect) /\ SegIn(mem, img.segs[ph], lpa)
      /\ \A n \in 1 .. ph - 1 : SegIn(mem, img.segs[n], TOP)
      /\ disk.sect = sect /\ img \in Images
  BY <1>1, <1>3 DEF BootInv, SegPart, ReadPart, TypePart
<1>5. PICK s : s = img.segs[ph]
  OBVIOUS
<1>6. PICK spa, n, off \in Nat : /\ s.pa = spa /\ s.memsz = n /\ s.offset = off
                                 /\ spa + n <= TOP /\ spa >= A20
  BY <1>4, <1>5, Linked
<1>size. ram \in Memories
  BY DEF BootInv, TypePart
<1>fits. \A i \in 1 .. Len(img.segs) : img.segs[i].pa + img.segs[i].memsz <= ram
  BY <1>4, <1>size, LinkedFits
<1>ram. ram \in Nat /\ A20 <= ram /\ spa + n <= ram
  <2>1. s.pa + s.memsz <= ram
    BY <1>4, <1>5, <1>fits
  <2>2. ram \in Nat /\ A20 <= ram
    BY <1>4, <1>size, LinkedFits
  <2> QED BY <1>6, <2>1, <2>2
<1>7. PICK p \in Int : p = (sect - 1) * SECTSIZE
  BY <1>3, Consts
<1>8. /\ ld.end_pa = spa + n /\ lpa - spa = p - off
      /\ lpa >= spa \/ lpa = ROUNDDOWN(spa, SECTSIZE)
      /\ BytesIn(mem, spa, n, off, lpa)
  BY <1>4, <1>5, <1>6, <1>7 DEF At, Going, SegIn
<1>9. lpa \in Nat /\ lpa >= A20 /\ lpa + SECTSIZE >= spa
  <2>1. ROUNDDOWN(spa, SECTSIZE) >= A20 /\ ROUNDDOWN(spa, SECTSIZE) \in Nat
        /\ spa < ROUNDDOWN(spa, SECTSIZE) + SECTSIZE
    BY <1>6, AboveA20, RoundDown
  <2> QED BY <1>6, <1>8, <2>1, Consts
<1>10. \A k \in 0 .. SECTSIZE - 1 : Line20(lpa + k) = lpa + k
  <2> TAKE k \in 0 .. SECTSIZE - 1
  <2>1. lpa + k \in Nat
    BY <1>9, Consts
  <2> QED BY <1>2, <2>1, LineKeeps
<1>11. Sectored(mem, mem', ram, lpa, p)
  BY <1>3, <1>4, <1>7, <1>9, <1>10, SectorRead DEF BootInv
<1>12. BytesIn(mem', spa, n, off, lpa + SECTSIZE)
  BY <1>6, <1>8, <1>9, <1>11, <1>ram, SectorNext
<1>13. HeaderIn(mem', TOP)
  <2>1. PICK h \in Nat : h = SECTSIZE * HDRSECTS /\ ELFHDR + h <= A20 /\ ELFHDR + h <= TOP
    BY HeaderEnd, Consts
  <2>2. ELFHDR + h <= lpa /\ ELFHDR \in Nat /\ 0 \in Nat
    BY <1>9, <2>1, Consts
  <2>3. BytesIn(mem, ELFHDR, h, 0, TOP)
    BY <1>4, <2>1 DEF HeaderIn
  <2>4. BytesIn(mem', ELFHDR, h, 0, TOP)
    <3>1. ELFHDR + h <= ram
      BY <1>ram, <2>1, <2>2, Consts
    <3> QED BY <1>9, <1>11, <1>ram, <2>1, <2>2, <2>3, <3>1, SectorBehind
  <2> QED BY <2>1, <2>4 DEF HeaderIn
<1>14. ASSUME NEW i \in 1 .. ph - 1 PROVE SegIn(mem', img.segs[i], TOP)
  <2>1. PICK r : r = img.segs[i]
    OBVIOUS
  <2>2. /\ i \in 1 .. Len(img.segs) /\ r.pa + r.memsz <= s.pa
        /\ SectorOf(r.pa + r.memsz - 1) = SectorOf(s.pa) => s.pa - r.pa = s.offset - r.offset
    BY <1>4, <1>5, <2>1, LinkedTwo
  <2>3. PICK rpa, rn, roff \in Nat : r.pa = rpa /\ r.memsz = rn /\ r.offset = roff /\ rpa + rn <= TOP
    BY <1>4, <2>1, <2>2, Linked, SMTT(30)
  <2>4. /\ rpa + rn <= spa
        /\ SectorOf(rpa + rn - 1) = SectorOf(spa) => spa - rpa = off - roff
    BY <1>6, <2>2, <2>3
  <2>5. BytesIn(mem, rpa, rn, roff, TOP)
    BY <1>4, <2>1, <2>3 DEF SegIn
  <2>6. BytesIn(mem', rpa, rn, roff, TOP)
    <3>1. rpa + rn <= ram
      <4>1. r.pa + r.memsz <= ram
        BY <1>fits, <2>1, <2>2, Zenon
      <4> QED BY <2>3, <4>1
    <3>2. PICK R \in Nat : R = ram
      BY <1>ram
    <3>3. Sectored(mem, mem', R, lpa, p) /\ rpa + rn <= R
      BY <1>11, <3>1, <3>2
    <3>4. /\ lpa - spa = p - off /\ (lpa >= spa \/ lpa = ROUNDDOWN(spa, SECTSIZE))
          /\ rpa + rn <= TOP /\ lpa \in Nat
      BY <1>8, <1>9, <2>3
    <3> QED BY <2>4, <2>5, <3>3, <3>4, SectorEarlier, ZenonT(60)
  <2> QED BY <2>1, <2>3, <2>6 DEF SegIn
<1>15. Going(spa, n, off, lpa + SECTSIZE, ld.end_pa, sect + 1)
  <2>1. (sect - 1) + 1 = (sect + 1) - 1
    OBVIOUS
  <2>2. ((sect + 1) - 1) * SECTSIZE = p + SECTSIZE
    BY <1>7, <2>1, MulNext, Consts
  <2>3. (lpa + SECTSIZE) - spa = (p + SECTSIZE) - off
    BY <1>8, <1>9, Consts
  <2> QED BY <1>8, <1>9, <2>2, <2>3 DEF Going
<1> QED BY <1>2, <1>3, <1>4, <1>5, <1>6, <1>11, <1>12, <1>13, <1>14, <1>15 DEF At, SegIn, Sectored

(* The data of readsect.                                                   *)
LEMMA DataInv ==
  ASSUME BootInv, readsect_data
  PROVE  BootInv'
<1>1. /\ UNCHANGED <<img, ram, cpu, disk, kbc, kernel>> /\ stage = "insl" /\ stage' = "readseg"
      /\ ~disk.busy
  BY DEF readsect_data, disk_ready
<1>2. stage \notin Counted /\ ~InKernel' /\ stage' \in Loading /\ stage \in Loading
  BY <1>1 DEF Counted, InKernel, Loading
<1>3. KernelPart' /\ AreaPart'
  BY <1>1, <1>2, FrameEarly DEF BootInv
<1>4. PICK lpa \in Int, sect \in Int : lpa = ld.pa /\ sect = ld.sect
  BY DEF BootInv, TypePart
<1>5. ld' = [ld EXCEPT !.pa = lpa + SECTSIZE, !.sect = sect + 1]
  BY <1>4 DEF readsect_data
<1>6. lpa + SECTSIZE \in Int /\ sect + 1 \in Int
  BY Consts
<1>7. ld' \in [pa : Int, end_pa : Int, sect : Int, ph : Int]
  BY <1>5, <1>6 DEF BootInv, TypePart
<1>8. ld'.pa = lpa + SECTSIZE /\ ld'.sect = sect + 1 /\ ld'.ph = ld.ph /\ ld'.end_pa = ld.end_pa
  BY <1>5, <1>6 DEF BootInv, TypePart
<1>9. ReadPart'
  BY <1>1 DEF ReadPart
<1>10. LinePart'
  BY <1>1, <1>2 DEF BootInv, LinePart, Mapped
<1>11. CASE ld.ph = 0
  <2>1. /\ HeaderIn(mem', lpa + SECTSIZE) /\ mem' \in [Addrs -> Int]
        /\ lpa + SECTSIZE = ELFHDR + ((sect + 1) - 1) * SECTSIZE
        /\ sect >= 1 /\ sect <= HDRSECTS /\ ld.end_pa = ELFHDR + SECTSIZE * HDRSECTS
    BY <1>4, <1>11, HeaderSector
  <2>2. sect + 1 >= 1 /\ sect + 1 <= HDRSECTS + 1
    BY <2>1, Consts
  <2>3. HeaderPart'
    BY <1>8, <2>1, <2>2 DEF HeaderPart
  <2>4. SegPart'
    BY <1>8, <1>11 DEF SegPart
  <2>5. TypePart'
    BY <1>1, <1>2, <1>7, <2>1 DEF BootInv, TypePart, kernel
  <2> QED BY <1>3, <1>9, <1>10, <2>3, <2>4, <2>5 DEF BootInv
<1>12. CASE ld.ph # 0
  <2>1. /\ mem' \in [Addrs -> Int]
        /\ HeaderIn(mem', TOP) /\ ld.ph \in 1 .. Len(img.segs)
        /\ At(img.segs[ld.ph], lpa + SECTSIZE, ld.end_pa, sect + 1)
        /\ SegIn(mem', img.segs[ld.ph], lpa + SECTSIZE)
        /\ \A n \in 1 .. ld.ph - 1 : SegIn(mem', img.segs[n], TOP)
    BY <1>4, <1>12, SegmentSector
  <2>2. SegPart'
    BY <1>1, <1>8, <2>1 DEF SegPart
  <2>3. HeaderPart'
    BY <1>8, <1>12 DEF HeaderPart
  <2>4. TypePart'
    BY <1>1, <1>2, <1>7, <2>1 DEF BootInv, TypePart, kernel
  <2> QED BY <1>3, <1>9, <1>10, <2>2, <2>3, <2>4 DEF BootInv
<1> QED BY <1>11, <1>12

(* What readseg begins with, for a segment.                                *)
LEMMA SegmentStart ==
  ASSUME NEW spa \in Nat, NEW n \in Nat, NEW off \in Nat, spa % SECTSIZE = off % SECTSIZE
  PROVE  Going(spa, n, off, ROUNDDOWN(spa, SECTSIZE), spa + n, (off \div SECTSIZE) + 1)
<1>1. PICK q, r : q = off \div SECTSIZE /\ r = off % SECTSIZE
  OBVIOUS
<1>2. DivBy(off, SECTSIZE, q, r)
  BY <1>1 DEF DivBy
<1>3. q \in Nat /\ r \in Nat /\ off = SECTSIZE * q + r
  BY <1>2, DivMod, Consts
<1>4. ROUNDDOWN(spa, SECTSIZE) = spa - r
  BY <1>1 DEF ROUNDDOWN
<1>5. PICK p \in Nat : p = SECTSIZE * q
  BY <1>3, Consts
<1>6. ((q + 1) - 1) * SECTSIZE = p
  <2>1. (q + 1) - 1 = q
    BY <1>3
  <2> QED BY <1>3, <1>5, <2>1, Consts
<1>7. (spa - r) - spa = p - off
  BY <1>3, <1>5
<1> QED BY <1>1, <1>4, <1>6, <1>7 DEF Going

(* Nothing of a segment lies below its first sector.                       *)
LEMMA SegmentNone ==
  ASSUME NEW m, NEW spa \in Nat, NEW n \in Nat, NEW off \in Nat
  PROVE  BytesIn(m, spa, n, off, ROUNDDOWN(spa, SECTSIZE))
<1>1. PICK b \in Nat : b = ROUNDDOWN(spa, SECTSIZE) /\ b <= spa
  BY RoundDown
<1>2. \A k \in 0 .. n - 1 : ~(spa + k < b)
  BY <1>1
<1> QED BY <1>1, <1>2 DEF BytesIn

(* A segment that is read is in memory.                                    *)
LEMMA SegmentDone ==
  ASSUME NEW m, NEW spa \in Nat, NEW n \in Nat, NEW off \in Nat, NEW lim \in Int,
         BytesIn(m, spa, n, off, lim), lim >= spa + n
  PROVE  BytesIn(m, spa, n, off, TOP)
<1>1. \A k \in 0 .. n - 1 : spa + k < lim
  OBVIOUS
<1> QED BY <1>1 DEF BytesIn

(* After a call of readseg: all that was asked for is in memory.           *)
LEMMA ReadDone ==
  ASSUME BootInv, stage = "bootmain"
  PROVE  /\ HeaderIn(mem, TOP) /\ ld.ph \in 0 .. Len(img.segs) /\ Len(img.segs) \in Nat
         /\ \A n \in 1 .. ld.ph : SegIn(mem, img.segs[n], TOP)
         /\ kbc.a20
<1>1. stage \in Loading /\ img \in Images
  BY DEF Loading, BootInv, TypePart
<1>2. PICK pa \in Int, end_pa \in Int, sect \in Int, ph \in Int :
        pa = ld.pa /\ end_pa = ld.end_pa /\ sect = ld.sect /\ ph = ld.ph
  BY DEF BootInv, TypePart
<1>3. pa >= end_pa
  BY <1>2 DEF BootInv, ReadPart
<1>4. Len(img.segs) \in Nat
  BY <1>1, LinkedImage, LenProperties
<1>5. CASE ph = 0
  <2>1. PICK h \in Nat : h = SECTSIZE * HDRSECTS /\ h # 0
    BY HeaderEnd
  <2>2. /\ sect >= 1 /\ pa = ELFHDR + (sect - 1) * SECTSIZE
        /\ end_pa = ELFHDR + h /\ HeaderIn(mem, pa)
    BY <1>1, <1>2, <1>5, <2>1 DEF BootInv, HeaderPart
  <2>3. BytesIn(mem, ELFHDR, h, 0, pa)
    BY <2>1, <2>2 DEF HeaderIn
  <2>4. ELFHDR \in Nat /\ 0 \in Nat /\ pa >= ELFHDR + h
    BY <1>3, <2>2, Consts
  <2>5. BytesIn(mem, ELFHDR, h, 0, TOP)
    BY <2>3, <2>4, SegmentDone
  <2>6. sect > 1
    <3>1. SUFFICES ASSUME sect = 1 PROVE FALSE
      BY <2>2
    <3>2. (1 - 1) * SECTSIZE = 0
      BY Consts
    <3>3. pa = ELFHDR + 0
      BY <2>2, <3>1, <3>2
    <3> QED BY <2>1, <2>4, <3>3
  <2>7. kbc.a20
    BY <1>1, <1>2, <2>6 DEF BootInv, LinePart
  <2>8. 1 .. ph = {} /\ ph \in 0 .. Len(img.segs)
    BY <1>4, <1>5
  <2> QED BY <1>2, <1>4, <2>1, <2>5, <2>7, <2>8 DEF HeaderIn
<1>6. CASE ph # 0
  <2>1. /\ ph \in 1 .. Len(img.segs) /\ HeaderIn(mem, TOP)
        /\ At(img.segs[ph], pa, end_pa, sect) /\ SegIn(mem, img.segs[ph], pa)
        /\ \A n \in 1 .. ph - 1 : SegIn(mem, img.segs[n], TOP)
    BY <1>1, <1>2, <1>6 DEF BootInv, SegPart
  <2>2. PICK s : s = img.segs[ph]
    OBVIOUS
  <2>3. PICK spa, n, off \in Nat : s.pa = spa /\ s.memsz = n /\ s.offset = off
    <3>1. img \in Images /\ ph \in 1 .. Len(img.segs)
      BY <1>1, <2>1
    <3> QED BY <2>2, <3>1, Linked
  <2>4. end_pa = spa + n /\ BytesIn(mem, spa, n, off, pa)
    BY <2>1, <2>2, <2>3 DEF At, Going, SegIn
  <2>5. BytesIn(mem, spa, n, off, TOP)
    BY <1>3, <2>4, SegmentDone
  <2>6. SegIn(mem, img.segs[ph], TOP)
    BY <2>2, <2>3, <2>5 DEF SegIn
  <2>7. ph > 0 /\ ph \in 0 .. Len(img.segs) /\ \A n1 \in 1 .. ph : n1 = ph \/ n1 \in 1 .. ph - 1
    BY <1>4, <2>1
  <2>8. kbc.a20
    BY <1>1, <1>2, <2>7 DEF BootInv, LinePart
  <2> QED BY <1>2, <1>4, <2>1, <2>6, <2>7, <2>8
<1> QED BY <1>5, <1>6

(* bootmain after a call of readseg: the next segment, or the kernel.      *)
LEMMA MainInv ==
  ASSUME BootInv, bootmain
  PROVE  BootInv'
<1>1. UNCHANGED <<img, ram, mem, disk, kbc, kernel>> /\ stage = "bootmain"
  BY DEF bootmain
<1>2. stage \notin Counted /\ stage \in Loading /\ img \in Images /\ ~cpu.pg
  BY <1>1 DEF Counted, Loading, BootInv, TypePart, LinePart, Mapped
<1>3. /\ HeaderIn(mem, TOP) /\ ld.ph \in 0 .. Len(img.segs) /\ Len(img.segs) \in Nat
      /\ \A n \in 1 .. ld.ph : SegIn(mem, img.segs[n], TOP)
      /\ kbc.a20
  BY <1>1, ReadDone
<1>4. HeaderRead
  <2>1. PICK h \in Nat : h = SECTSIZE * HDRSECTS /\ ELFHDR + h <= TOP
    BY HeaderEnd, Consts
  <2>2. \A k \in 0 .. h - 1 : ELFHDR + k < TOP /\ 0 + k = k
    BY <2>1, Consts
  <2>3. \A k \in 0 .. h - 1 : ELFHDR + k < TOP => mem[ELFHDR + k] = File(0 + k)
    BY <1>3, <2>1 DEF HeaderIn, BytesIn
  <2> QED BY <2>1, <2>2, <2>3 DEF HeaderRead
<1>5. CASE stage' = "bad" /\ UNCHANGED <<cpu, ld>>
  <2>1. ~InKernel' /\ stage' \notin Loading /\ stage' \notin Mapped
    BY <1>5 DEF InKernel, Loading, Mapped
  <2>2. KernelPart' /\ AreaPart'
    BY <1>1, <1>2, <2>1, FrameEarly DEF BootInv
  <2>3. HeaderPart' /\ SegPart' /\ ReadPart'
    BY <1>5, <2>1 DEF HeaderPart, SegPart, ReadPart
  <2>4. LinePart'
    BY <1>1, <1>2, <1>3, <1>5, <2>1 DEF LinePart
  <2>5. TypePart'
    BY <1>1, <1>5 DEF BootInv, TypePart, kernel
  <2> QED BY <2>2, <2>3, <2>4, <2>5 DEF BootInv
<1>6. CASE /\ ld.ph < Len(img.segs) /\ stage' = "readseg" /\ cpu' = cpu
           /\ ld' = [next_seg(img.segs[ld.ph + 1]) EXCEPT !.ph = @ + 1]
  <2>1. PICK ph \in Nat : ph = ld.ph /\ ph + 1 \in 1 .. Len(img.segs)
    BY <1>3, <1>6
  <2>2. PICK i \in Nat : i = ph + 1
    BY <2>1
  <2>3. PICK s : s = img.segs[i]
    OBVIOUS
  <2>4. PICK spa, n, off \in Nat : /\ s.pa = spa /\ s.memsz = n /\ s.offset = off
                                   /\ spa % SECTSIZE = off % SECTSIZE
    <3>1. img \in Images /\ i \in 1 .. Len(img.segs)
      BY <1>2, <2>1, <2>2
    <3> QED BY <2>3, <3>1, Linked
  <2>5. PICK b \in Int, e \in Int, c \in Int :
          b = ROUNDDOWN(spa, SECTSIZE) /\ e = spa + n /\ c = (off \div SECTSIZE) + 1
    <3>1. ROUNDDOWN(spa, SECTSIZE) \in Int
      BY RoundDown
    <3>2. (off \div SECTSIZE) + 1 \in Int
      BY Consts
    <3> QED BY <3>1, <3>2
  <2>6. ld' = [[ld EXCEPT !.pa = b, !.end_pa = e, !.sect = c] EXCEPT !.ph = @ + 1]
    BY <1>6, <2>1, <2>2, <2>3, <2>4, <2>5 DEF next_seg, readseg
  <2>7. PICK l2 : l2 = [ld EXCEPT !.pa = b, !.end_pa = e, !.sect = c]
    OBVIOUS
  <2>8. l2 \in [pa : Int, end_pa : Int, sect : Int, ph : Int]
    BY <2>7 DEF BootInv, TypePart
  <2>9. l2.pa = b /\ l2.end_pa = e /\ l2.sect = c /\ l2.ph = ph
    BY <2>1, <2>7 DEF BootInv, TypePart
  <2>10. ld' = [l2 EXCEPT !.ph = i]
    BY <2>2, <2>6, <2>7, <2>9
  <2>11. /\ ld' \in [pa : Int, end_pa : Int, sect : Int, ph : Int]
         /\ ld'.pa = b /\ ld'.end_pa = e /\ ld'.sect = c /\ ld'.ph = i
    BY <2>8, <2>9, <2>10
  <2>12. ~InKernel' /\ stage' \in Loading /\ stage' \notin Mapped
    BY <1>6 DEF InKernel, Loading, Mapped
  <2>13. KernelPart' /\ AreaPart'
    BY <1>1, <1>2, <2>12, FrameEarly DEF BootInv
  <2>14. HeaderPart' /\ ReadPart'
    BY <1>6, <2>1, <2>2, <2>11 DEF HeaderPart, ReadPart
  <2>15. SegPart'
    <3>1. Going(spa, n, off, b, e, c)
      BY <2>4, <2>5, SegmentStart
    <3>2. BytesIn(mem, spa, n, off, b)
      BY <2>4, <2>5, SegmentNone
    <3>3. At(img.segs[i], b, e, c) /\ SegIn(mem, img.segs[i], b)
      BY <2>3, <2>4, <3>1, <3>2 DEF At, SegIn
    <3>4. i \in 1 .. Len(img.segs) /\ i - 1 = ph
      BY <2>1, <2>2
    <3>5. \A n1 \in 1 .. i - 1 : SegIn(mem, img.segs[n1], TOP)
      BY <1>3, <2>1, <3>4
    <3> QED BY <1>1, <1>3, <2>11, <3>3, <3>4, <3>5 DEF SegPart
  <2>16. LinePart'
    BY <1>1, <1>2, <1>3, <1>6, <2>12 DEF LinePart
  <2>17. TypePart'
    BY <1>1, <1>6, <2>11, <2>12 DEF BootInv, TypePart, kernel
  <2> QED BY <2>13, <2>14, <2>15, <2>16, <2>17 DEF BootInv
<1>7. CASE /\ ~(ld.ph < Len(img.segs)) /\ stage' = "entry" /\ ld' = ld
           /\ cpu' = [cpu EXCEPT !.eip = img.entry]
  <2>1. InKernel' /\ stage' \notin Loading /\ stage' \notin Mapped /\ stage' \notin Cleared /\ stage' \notin Counted
    BY <1>7 DEF InKernel, Loading, Mapped, Cleared, Counted
  <2>2. /\ cpu' \in [eip : Int, esp : Int, pe : BOOLEAN, pg : BOOLEAN]
        /\ cpu'.eip = img.entry /\ ~cpu'.pg
    <3>1. img.entry \in Int
      BY <1>2, LinkedImage
    <3> QED BY <1>2, <1>7, <3>1 DEF BootInv, TypePart
  <2>3. ld.ph = Len(img.segs)
    BY <1>3, <1>7
  <2>4. Kept(img, mem)
    <3>1. ASSUME NEW n \in 1 .. Len(img.segs), NEW k \in 0 .. img.segs[n].filesz - 1
          PROVE  mem[img.segs[n].pa + k] = File(img.segs[n].offset + k)
      <4>1. PICK s : s = img.segs[n]
        OBVIOUS
      <4>2. PICK spa, fs, ms, off \in Nat : /\ s.pa = spa /\ s.filesz = fs /\ s.memsz = ms /\ s.offset = off
                                            /\ fs <= ms /\ spa + ms <= TOP
        <5>1. img \in Images /\ n \in 1 .. Len(img.segs)
          BY <1>2
        <5> QED BY <4>1, <5>1, Linked
      <4>3. BytesIn(mem, spa, ms, off, TOP)
        BY <1>3, <2>3, <4>1, <4>2 DEF SegIn
      <4>4. k \in 0 .. ms - 1 /\ spa + k < TOP
        BY <3>1, <4>1, <4>2, Consts
      <4>5. mem[spa + k] = File(off + k)
        BY <4>3, <4>4 DEF BytesIn
      <4> QED BY <4>1, <4>2, <4>5
    <3> QED BY <3>1 DEF Kept, KeptByte
  <2>5. KernelPart'
    BY <1>1, <1>7, <2>1, <2>2, <2>4 DEF KernelPart, Eip
  <2>6. AreaPart'
    <3>1. None'
      BY <1>1, <1>2 DEF BootInv, AreaPart, None, kernel
    <3> QED BY <2>1, <3>1 DEF AreaPart, Counted
  <2>7. HeaderPart' /\ SegPart' /\ ReadPart'
    BY <1>7, <2>1 DEF HeaderPart, SegPart, ReadPart
  <2>8. LinePart'
    BY <1>1, <1>3, <1>7, <2>1, <2>2 DEF LinePart
  <2>9. TypePart'
    BY <1>1, <1>7, <2>2 DEF BootInv, TypePart, kernel
  <2> QED BY <2>5, <2>6, <2>7, <2>8, <2>9 DEF BootInv
<1> QED BY <1>4, <1>5, <1>6, <1>7 DEF bootmain

-----------------------------------------------------------------------------
(* The page directory of kern/entrypgdir.c maps KERNBASE + x to x.         *)
LEMMA HighAddress ==
  ASSUME NEW x \in Nat, x < PGSIZE * ENTRIES, NEW va, va = KERNBASE + x,
         NEW d, d = va \div (PGSIZE * ENTRIES), NEW j, j = (va \div PGSIZE) % ENTRIES,
         NEW o, o = va % PGSIZE
  PROVE  /\ d = KERNBASE \div (PGSIZE * ENTRIES)
         /\ j = x \div PGSIZE /\ o = x % PGSIZE
         /\ j \in 0 .. ENTRIES - 1 /\ j * PGSIZE + o = x
<1>1. PICK B \in Nat : B = PGSIZE * ENTRIES /\ B # 0
  BY Consts
<1>2. PICK K, z : K = KERNBASE \div B /\ z = KERNBASE % B
  OBVIOUS
<1>3. z = 0 /\ x < B
  BY <1>1, <1>2, BootAssumption
<1>4. K \in Nat /\ KERNBASE = B * K
  <2>1. DivBy(KERNBASE, B, K, z)
    BY <1>2 DEF DivBy
  <2>2. K \in Nat /\ KERNBASE = B * K + z
    BY <1>1, <2>1, DivMod, Consts
  <2> QED BY <1>1, <1>3, <2>2
<1>5. (KERNBASE + x) \div B = K
  <2>1. (B * K + x) \div B = K
    BY <1>1, <1>3, <1>4, DivUnique
  <2> QED BY <1>4, <2>1
<1>6. PICK q, r : q = x \div PGSIZE /\ r = x % PGSIZE
  OBVIOUS
<1>7. q \in Nat /\ r \in Nat /\ r < PGSIZE /\ x = PGSIZE * q + r
  <2>1. DivBy(x, PGSIZE, q, r)
    BY <1>6 DEF DivBy
  <2> QED BY <2>1, DivMod, Consts
<1>8. q < ENTRIES
  <2>1. SUFFICES ASSUME q >= ENTRIES PROVE FALSE
    BY <1>7, Consts
  <2>2. PGSIZE * ENTRIES <= PGSIZE * q /\ PGSIZE * q \in Nat
    BY <1>7, <2>1, MulMono, Consts
  <2> QED BY <1>1, <1>3, <1>7, <2>2
<1>9. PICK Q \in Nat : Q = ENTRIES * K + q
  BY <1>4, <1>7, Consts
<1>10. KERNBASE + x = PGSIZE * Q + r
  <2>1. PGSIZE * Q = PGSIZE * (ENTRIES * K) + PGSIZE * q
    BY <1>4, <1>7, <1>9, Consts
  <2>2. B * K = PGSIZE * (ENTRIES * K)
    BY <1>1, <1>4, Consts
  <2>3. PICK u \in Nat : u = PGSIZE * (ENTRIES * K)
    BY <1>4, Consts
  <2>4. PICK v \in Nat : v = PGSIZE * q
    BY <1>7, Consts
  <2>5. PGSIZE * Q = u + v /\ KERNBASE = u /\ x = v + r
    BY <1>4, <1>7, <2>1, <2>2, <2>3, <2>4
  <2> QED BY <1>7, <2>5
<1>11. (KERNBASE + x) \div PGSIZE = Q /\ (KERNBASE + x) % PGSIZE = r
  <2>1. (PGSIZE * Q + r) \div PGSIZE = Q /\ (PGSIZE * Q + r) % PGSIZE = r
    BY <1>7, <1>9, DivUnique, Consts
  <2> QED BY <1>10, <2>1
<1>12. Q % ENTRIES = q
  BY <1>4, <1>7, <1>8, <1>9, DivUnique, Consts
<1>13. q * PGSIZE + r = x
  <2>1. q * PGSIZE = PGSIZE * q
    BY <1>7, Consts
  <2> QED BY <1>7, <2>1
<1>14. q \in 0 .. ENTRIES - 1
  BY <1>7, <1>8, Consts
<1>15. d = KERNBASE \div (PGSIZE * ENTRIES)
  BY <1>1, <1>2, <1>5, Zenon
<1>16. j = q /\ o = r
  BY <1>11, <1>12, Zenon
<1> QED BY <1>6, <1>13, <1>14, <1>15, <1>16

(* The entries of that directory.                                          *)
LEMMA HighEntry ==
  ASSUME NEW d, d = KERNBASE \div (PGSIZE * ENTRIES)
  PROVE  d \in DOMAIN entry_pgdir /\ entry_pgdir[d] = [p |-> TRUE, w |-> TRUE]
<1>1. d \in 1 .. ENTRIES - 1 /\ ENTRIES \in Nat
  BY BootAssumption, Consts
<1>2. d \in 0 .. ENTRIES - 1 /\ d # 0
  BY <1>1
<1> QED BY <1>2 DEF entry_pgdir

(* So is 0 to 0, but not for stores.                                       *)
LEMMA LowEntry == 0 \in DOMAIN entry_pgdir /\ entry_pgdir[0].p
<1>1. 0 \in 0 .. ENTRIES - 1
  BY Consts
<1> QED BY <1>1 DEF entry_pgdir

(* With paging on, KERNBASE + x is the address x.                          *)
LEMMA BlockTranslate ==
  ASSUME NEW x \in Nat, x < PGSIZE * ENTRIES, cpu.pg, kbc.a20
  PROVE  Translated(KERNBASE + x) = [p |-> TRUE, w |-> TRUE, pa |-> x]
<1>1. PICK va, d, j, o : /\ va = KERNBASE + x /\ d = va \div (PGSIZE * ENTRIES)
                         /\ j = (va \div PGSIZE) % ENTRIES /\ o = va % PGSIZE
  OBVIOUS
<1>2. /\ d = KERNBASE \div (PGSIZE * ENTRIES) /\ j = x \div PGSIZE /\ o = x % PGSIZE
      /\ j \in 0 .. ENTRIES - 1 /\ j * PGSIZE + o = x
  BY <1>1, HighAddress
<1>3. d \in DOMAIN entry_pgdir /\ entry_pgdir[d] = [p |-> TRUE, w |-> TRUE]
  BY <1>2, HighEntry
<1>4. entry_pgtable[j] = [p |-> TRUE, w |-> TRUE, pa |-> j * PGSIZE]
  BY <1>2 DEF entry_pgtable
<1>5. Line20(x) = x
  BY LineKeeps
<1>6. Translated(va) = IF ~cpu.pg THEN [p |-> TRUE, w |-> TRUE, pa |-> Line20(va)]
        ELSE IF d \notin DOMAIN entry_pgdir \/ ~entry_pgdir[d].p THEN NoPte
        ELSE [p |-> entry_pgtable[j].p, w |-> entry_pgtable[j].w /\ entry_pgdir[d].w,
              pa |-> Line20(entry_pgtable[j].pa + o)]
  BY <1>1, Zenon DEF Translated
<1>7. entry_pgtable[j].p = TRUE /\ entry_pgtable[j].w = TRUE /\ entry_pgtable[j].pa = j * PGSIZE
  BY <1>4
<1>8. entry_pgdir[d].p = TRUE /\ entry_pgdir[d].w = TRUE
  BY <1>3
<1>9. Translated(va) = [p |-> TRUE, w |-> TRUE, pa |-> x]
  <2>1. Line20(entry_pgtable[j].pa + o) = x
    BY <1>2, <1>5, <1>7, Zenon
  <2> QED BY <1>3, <1>6, <1>7, <1>8, <2>1
<1> QED BY <1>1, <1>9

(* It is a byte of the memory that is modelled, if it is below TOP.        *)
LEMMA HighTranslate ==
  ASSUME NEW x \in Nat, x < TOP, cpu.pg, kbc.a20
  PROVE  Translated(KERNBASE + x) = [p |-> TRUE, w |-> TRUE, pa |-> x] /\ x \in Addrs
<1>1. x < PGSIZE * ENTRIES
  <2>1. PICK B \in Nat : B = PGSIZE * ENTRIES
    BY Consts
  <2>2. TOP <= B
    BY <2>1, BootAssumption
  <2> QED BY <2>1, <2>2, Consts
<1> QED BY <1>1, BlockTranslate, Consts DEF Addrs

(* Nothing else is mapped for stores behind KERNBASE.                      *)
LEMMA HighUnmapped ==
  ASSUME NEW x \in Nat, x >= TOP, cpu.pg, kbc.a20
  PROVE  /\ Translated(KERNBASE + x).pa \in Nat
         /\ ~(Translated(KERNBASE + x).w /\ Translated(KERNBASE + x).pa \in Addrs)
<1>1. PICK B \in Nat : B = PGSIZE * ENTRIES /\ B # 0
  BY Consts
<1>2. CASE x < B
  <2>1. Translated(KERNBASE + x) = [p |-> TRUE, w |-> TRUE, pa |-> x]
    BY <1>1, <1>2, BlockTranslate
  <2>2. x \notin Addrs
    BY Consts DEF Addrs
  <2> QED BY <2>1, <2>2
<1>3. CASE x >= B
  <2>1. PICK K, z : K = KERNBASE \div B /\ z = KERNBASE % B
    OBVIOUS
  <2>2. z = 0
    BY <1>1, <2>1, BootAssumption
  <2>3. K \in 1 .. ENTRIES - 1 /\ KERNBASE = B * K /\ K \in Nat
    <3>1. DivBy(KERNBASE, B, K, z)
      BY <2>1 DEF DivBy
    <3>2. K \in Nat /\ KERNBASE = B * K + z
      BY <1>1, <3>1, DivMod, Consts
    <3>3. K \in 1 .. ENTRIES - 1
      BY <1>1, <2>1, BootAssumption
    <3> QED BY <1>1, <2>2, <3>2, <3>3
  <2>4. PICK q, r : q = x \div B /\ r = x % B
    OBVIOUS
  <2>5. q \in Nat /\ r \in Nat /\ r < B /\ x = B * q + r
    <3>1. DivBy(x, B, q, r)
      BY <2>4 DEF DivBy
    <3> QED BY <1>1, <3>1, DivMod
  <2>6. q >= 1
    <3>1. SUFFICES ASSUME q = 0 PROVE FALSE
      BY <2>5
    <3>2. B * 0 = 0
      BY <1>1
    <3> QED BY <1>3, <2>5, <3>1, <3>2
  <2>7. (KERNBASE + x) \div B = K + q
    <3>1. PICK e \in Nat : e = K + q
      BY <2>3, <2>5
    <3>2. (B * e + r) \div B = e
      BY <1>1, <2>5, <3>1, DivUnique
    <3>3. B * e = B * K + B * q /\ B * K \in Nat /\ B * q \in Nat
      BY <1>1, <2>3, <2>5, <3>1
    <3>4. KERNBASE + x = B * e + r
      BY <2>3, <2>5, <3>1, <3>3, Consts
    <3> QED BY <3>1, <3>2, <3>4
  <2>8. PICK d : d = (KERNBASE + x) \div (PGSIZE * ENTRIES)
    OBVIOUS
  <2>9. d = K + q /\ d # 0 /\ d # K
    <3>1. d = K + q
      BY <1>1, <2>7, <2>8, Zenon
    <3> QED BY <2>3, <2>5, <2>6, <3>1
  <2>10. d \notin DOMAIN entry_pgdir \/ entry_pgdir[d].p = FALSE
    <3>1. CASE d \in 0 .. ENTRIES - 1
      <4>1. d # KERNBASE \div (PGSIZE * ENTRIES)
        BY <1>1, <2>1, <2>9, Zenon
      <4>2. entry_pgdir[d] = [p |-> FALSE, w |-> FALSE]
        BY <2>9, <3>1, <4>1 DEF entry_pgdir
      <4> QED BY <4>2
    <3>2. CASE d \notin 0 .. ENTRIES - 1
      BY <3>2 DEF entry_pgdir
    <3> QED BY <3>1, <3>2
  <2>11. Translated(KERNBASE + x) = NoPte
    BY <2>8, <2>10, Zenon DEF Translated
  <2>12. NoPte.pa = 0 /\ NoPte.w = FALSE
    BY DEF NoPte
  <2> QED BY <2>11, <2>12
<1> QED BY <1>1, <1>2, <1>3

(* An address below is itself, for a fetch.                                *)
LEMMA LowTranslate ==
  ASSUME NEW x \in Nat, x < TOP, kbc.a20
  PROVE  Translated(x).p /\ Translated(x).pa = x /\ x \in Addrs
         /\ (~cpu.pg => Translated(x).w)
<1>1. Line20(x) = x /\ x \in Addrs
  BY LineKeeps, Consts DEF Addrs
<1>2. CASE ~cpu.pg
  BY <1>1, <1>2 DEF Translated
<1>3. CASE cpu.pg
  <2>1. PICK B \in Nat : B = PGSIZE * ENTRIES /\ B # 0 /\ x < B
    <3>1. PICK B \in Nat : B = PGSIZE * ENTRIES /\ B # 0
      BY Consts
    <3>2. x < B
      BY <3>1, BootAssumption
    <3> QED BY <3>1, <3>2
  <2>2. x \div B = 0
    <3>1. (B * 0 + x) \div B = 0
      BY <2>1, DivUnique
    <3>2. B * 0 + x = x
      BY <2>1
    <3> QED BY <3>1, <3>2
  <2>3. PICK q, o : q = x \div PGSIZE /\ o = x % PGSIZE
    OBVIOUS
  <2>4. q \in 0 .. ENTRIES - 1 /\ q * PGSIZE + o = x
    <3>1. PICK va, d, j1, o1 : /\ va = KERNBASE + x /\ d = va \div (PGSIZE * ENTRIES)
                               /\ j1 = (va \div PGSIZE) % ENTRIES /\ o1 = va % PGSIZE
      OBVIOUS
    <3>2. /\ j1 = x \div PGSIZE /\ o1 = x % PGSIZE
          /\ j1 \in 0 .. ENTRIES - 1 /\ j1 * PGSIZE + o1 = x
      BY <2>1, <3>1, HighAddress
    <3>3. j1 = q /\ o1 = o
      BY <2>3, <3>2, Zenon
    <3> QED BY <3>2, <3>3
  <2>5. q % ENTRIES = q
    <3>1. (ENTRIES * 0 + q) % ENTRIES = q
      BY <2>4, DivUnique, Consts
    <3>2. ENTRIES * 0 + q = q
      BY <2>4, Consts
    <3> QED BY <3>1, <3>2
  <2>6. entry_pgtable[q].p = TRUE /\ entry_pgtable[q].pa = q * PGSIZE
    BY <2>4 DEF entry_pgtable
  <2>7. Translated(x) =
          [p |-> entry_pgtable[q].p, w |-> entry_pgtable[q].w /\ entry_pgdir[0].w,
           pa |-> Line20(entry_pgtable[q].pa + o)]
    <3>1. x \div (PGSIZE * ENTRIES) = 0 /\ (x \div PGSIZE) % ENTRIES = q
      BY <2>1, <2>2, <2>3, <2>5, Zenon
    <3>2. Translated(x) = IF ~cpu.pg THEN [p |-> TRUE, w |-> TRUE, pa |-> Line20(x)]
            ELSE IF 0 \notin DOMAIN entry_pgdir \/ ~entry_pgdir[0].p THEN NoPte
            ELSE [p |-> entry_pgtable[q].p, w |-> entry_pgtable[q].w /\ entry_pgdir[0].w,
                  pa |-> Line20(entry_pgtable[q].pa + o)]
      BY <2>3, <3>1, Zenon DEF Translated
    <3> QED BY <1>3, <3>2, LowEntry, Zenon
  <2>8. Line20(entry_pgtable[q].pa + o) = x
    BY <1>1, <2>4, <2>6, Zenon
  <2> QED BY <1>1, <1>3, <2>6, <2>7, <2>8
<1> QED BY <1>2, <1>3

-----------------------------------------------------------------------------
(* What memset does to a memory of r bytes.                                *)
Wrote(m, m2, r, x, n, v) ==
  /\ m2 \in [Addrs -> Int]
  /\ \A a \in Addrs : a < r /\ a \in x .. x + n - 1 => m2[a] = v
  /\ \A a \in Addrs : a < r /\ a \notin x .. x + n - 1 => m2[a] = m[a]

(* It does that; where the memory ends, what is stored is lost.            *)
LEMMA Memset ==
  ASSUME mem \in [Addrs -> Int], ram \in Nat, NEW x \in Int, NEW n \in Nat, NEW v \in Int, NEW m2,
         m2 = Stored(memset(mem, x, v, n))
  PROVE  Wrote(mem, m2, ram, x, n, v)
<1>1. m2 = [a \in Addrs |-> IF a < ram THEN IF a \in x .. x + n - 1 THEN v ELSE mem[a]
                            ELSE Junk]
  BY DEF memset, Stored
<1>2. m2 \in [Addrs -> Int]
  BY <1>1 DEF Junk
<1> QED BY <1>1, <1>2 DEF Wrote

(* The n addresses from x on are mapped behind KERNBASE.                   *)
InBlock(x, n) == n = 0 \/ x + n <= TOP

(* A store of the kernel, at an address above KERNBASE,                    *)
LEMMA HighStore ==
  ASSUME cpu.pg, kbc.a20, mem \in [Addrs -> Int], ram \in Nat,
         NEW x \in Nat, NEW n \in Nat, NEW v \in Int, NEW next, Store(KERNBASE + x, n, v, next)
  PROVE  IF InBlock(x, n) THEN Wrote(mem, mem', ram, x, n, v) /\ stage' = next
         ELSE stage' = "fault"
<1>1. CASE n # 0 /\ x + n <= TOP
  <2>1. x < TOP
    BY <1>1, Consts
  <2>2. Translated(KERNBASE + x).pa = x
    <3>1. Translated(KERNBASE + x) = [p |-> TRUE, w |-> TRUE, pa |-> x]
      BY <2>1, HighTranslate
    <3> QED BY <3>1
  <2>3. ASSUME NEW k \in 0 .. n - 1
        PROVE  Translated((KERNBASE + x) + k).w /\ Translated((KERNBASE + x) + k).pa \in Addrs
    <3>1. PICK y \in Nat : y = x + k /\ y < TOP
      BY <1>1, Consts
    <3>2. (KERNBASE + x) + k = KERNBASE + y
      BY <3>1, Consts
    <3>3. Translated(KERNBASE + y) = [p |-> TRUE, w |-> TRUE, pa |-> y] /\ y \in Addrs
      BY <3>1, HighTranslate
    <3>4. Translated(KERNBASE + y).w /\ Translated(KERNBASE + y).pa \in Addrs
      BY <3>3
    <3> QED BY <3>2, <3>4, Zenon
  <2>4. Storable(KERNBASE + x, n)
    BY <2>3 DEF Storable
  <2>5. mem' = Stored(memset(mem, x, v, n)) /\ stage' = next
    BY <2>2, <2>4 DEF Store
  <2>6. Wrote(mem, mem', ram, x, n, v)
    BY <2>5, Memset
  <2> QED BY <1>1, <2>5, <2>6 DEF InBlock
<1>2. CASE n # 0 /\ ~(x + n <= TOP)
  <2>1. PICK k \in 0 .. n - 1 : x + k >= TOP
    <3>1. n - 1 \in 0 .. n - 1 /\ x + (n - 1) >= TOP
      BY <1>2, Consts
    <3> QED BY <3>1
  <2>2. PICK y \in Nat : y = x + k /\ y >= TOP
    BY <2>1
  <2>3. (KERNBASE + x) + k = KERNBASE + y
    BY <2>2, Consts
  <2>4. ~(Translated(KERNBASE + y).w /\ Translated(KERNBASE + y).pa \in Addrs)
    BY <2>2, HighUnmapped
  <2>5. ~Storable(KERNBASE + x, n)
    BY <2>3, <2>4, Zenon DEF Storable
  <2> QED BY <1>2, <2>5 DEF Store, InBlock
<1>3. CASE n = 0
  <2>1. PICK p \in Int : p = Translated(KERNBASE + x).pa
    <3>1. CASE x < TOP
      <4>1. Translated(KERNBASE + x) = [p |-> TRUE, w |-> TRUE, pa |-> x]
        BY <3>1, HighTranslate
      <4>2. Translated(KERNBASE + x).pa = x
        BY <4>1
      <4> QED BY <4>2
    <3>2. CASE ~(x < TOP)
      <4>1. x >= TOP
        BY <3>2, Consts
      <4>2. Translated(KERNBASE + x).pa \in Nat
        BY <4>1, HighUnmapped
      <4> QED BY <4>2
    <3> QED BY <3>1, <3>2
  <2>2. Storable(KERNBASE + x, n)
    <3>1. 0 .. n - 1 = {}
      BY <1>3
    <3> QED BY <3>1 DEF Storable
  <2>3. mem' = Stored(memset(mem, p, v, n)) /\ stage' = next
    BY <2>1, <2>2 DEF Store
  <2>4. Wrote(mem, mem', ram, p, n, v)
    BY <2>3, Memset
  <2>5. p .. p + n - 1 = {} /\ x .. x + n - 1 = {}
    BY <1>3, <2>1
  <2>6. Wrote(mem, mem', ram, x, n, v)
    BY <2>4, <2>5, Zenon DEF Wrote
  <2> QED BY <1>3, <2>3, <2>6 DEF InBlock
<1> QED BY <1>1, <1>2, <1>3

(* and one below, before paging.                                           *)
LEMMA LowStore ==
  ASSUME ~cpu.pg, kbc.a20, mem \in [Addrs -> Int], ram \in Nat,
         NEW x \in Nat, x < TOP, NEW v \in Int, NEW next, Store(x, 1, v, next)
  PROVE  Wrote(mem, mem', ram, x, 1, v) /\ stage' = next
<1>1. Translated(x).w /\ Translated(x).pa = x /\ x \in Addrs
  BY LowTranslate
<1>2. \A k \in 0 .. 1 - 1 : x + k = x
  OBVIOUS
<1>3. Storable(x, 1)
  BY <1>1, <1>2 DEF Storable
<1>4. mem' = Stored(memset(mem, x, v, 1)) /\ stage' = next
  BY <1>1, <1>3 DEF Store
<1> QED BY <1>4, Memset

(* The kernel stays in place if a store goes above it, below 1MB, or to    *)
(* its stack.                                                              *)
LEMMA WroteKept ==
  ASSUME NEW m, NEW m2, NEW r \in Nat, NEW x \in Nat, NEW n \in Nat, NEW v, Wrote(m, m2, r, x, n, v),
         r \in Memories, NEW g \in Images, Kept(g, m), NEW edata \in Nat, NEW st \in Nat, edata = g.edata, st = g.stacktop,
         x >= edata \/ x + n <= A20 \/ (n = 1 /\ x = st - 1)
  PROVE  Kept(g, m2)
<1> SUFFICES ASSUME NEW i \in 1 .. Len(g.segs)
             PROVE  \A k \in 0 .. g.segs[i].filesz - 1 : KeptByte(g, m2, g.segs[i], k)
  BY DEF Kept
<1>1. PICK s : s = g.segs[i]
  OBVIOUS
<1>2. PICK spa, fs, ms, off \in Nat : /\ s.pa = spa /\ s.filesz = fs /\ s.memsz = ms /\ s.offset = off
                                      /\ fs <= ms /\ spa + ms <= TOP /\ spa >= A20
  <2>1. Lies(s)
    BY <1>1, LinkedLies
  <2> QED BY <2>1 DEF Lies
<1>ram. spa + ms <= r
  <2>1. g.segs[i].pa + g.segs[i].memsz <= r
    BY LinkedFits
  <2> QED BY <1>1, <1>2, <2>1
<1> TAKE k \in 0 .. g.segs[i].filesz - 1
<1>3. g.edata = edata /\ g.stacktop = st
  OBVIOUS
<1>4. k \in 0 .. fs - 1
  BY <1>1, <1>2
<1>5. PICK a \in Nat : a = spa + k
  BY <1>2, <1>4
<1>6. a \in Addrs /\ a >= A20 /\ a < r
  BY <1>2, <1>ram, <1>4, <1>5, Consts DEF Addrs
<1>7. m[a] = File(off + k) \/ a = st - 1 \/ a >= edata
  <2>1. KeptByte(g, m, s, k)
    BY <1>1 DEF Kept
  <2> QED BY <1>2, <1>3, <1>5, <2>1 DEF KeptByte
<1>8. x >= edata \/ x + n <= A20 \/ (n = 1 /\ x = st - 1)
  BY <1>3
<1>9. a # st - 1 /\ a < edata => a \notin x .. x + n - 1
  BY <1>3, <1>6, <1>8, Consts
<1>10. m2[a] = File(off + k) \/ a = st - 1 \/ a >= edata
  BY <1>3, <1>6, <1>7, <1>9, SMTT(30) DEF Wrote
<1> QED BY <1>1, <1>2, <1>3, <1>5, <1>10 DEF KeptByte

(* What is clear stays clear.                                              *)
LEMMA WroteClear ==
  ASSUME NEW m, NEW m2, NEW r \in Nat, NEW x \in Nat, NEW n \in Nat, NEW v, Wrote(m, m2, r, x, n, v),
         NEW lo \in Nat, NEW k \in Nat, lo + k <= x, Clear(m, r, lo, k)
  PROVE  Clear(m2, r, lo, k)
<1> SUFFICES ASSUME NEW a \in lo .. lo + k - 1, a < r PROVE m2[a] = 0
  BY DEF Clear
<1>1. a \in Addrs /\ a \notin x .. x + n - 1
  <2>1. lo + k <= TOP
    BY DEF Clear
  <2> QED BY <2>1, Consts DEF Addrs
<1>2. m[a] = 0
  BY DEF Clear
<1> QED BY <1>1, <1>2 DEF Wrote

(* What is cleared is clear.                                               *)
LEMMA WroteZero ==
  ASSUME NEW m, NEW m2, NEW r \in Nat, NEW x \in Nat, NEW n \in Nat, Wrote(m, m2, r, x, n, 0), InBlock(x, n)
  PROVE  Clear(m2, r, x, n)
<1> SUFFICES ASSUME NEW a \in x .. x + n - 1, a < r PROVE m2[a] = 0
  BY DEF Clear, InBlock
<1>1. a \in Addrs
  BY Consts DEF Addrs, InBlock
<1> QED BY <1>1 DEF Wrote

(* kern_pgdir stays as it is,                                              *)
LEMMA WroteDir ==
  ASSUME NEW m, NEW m2, NEW r \in Nat, NEW x \in Nat, NEW n \in Nat, NEW v, Wrote(m, m2, r, x, n, v),
         NEW b \in Nat, b + PGSIZE <= x, Dir(m, r, b)
  PROVE  Dir(m2, r, b)
<1> SUFFICES ASSUME NEW k \in 0 .. PGSIZE - 1, b + k < r PROVE m2[b + k] = IF k = UVPTSLOT THEN Pde(b) ELSE 0
  BY DEF Dir
<1>1. PICK a \in Nat : a = b + k
  OBVIOUS
<1>2. a \in Addrs /\ a < r /\ a \notin x .. x + n - 1
  <2>1. b + PGSIZE <= TOP
    BY DEF Dir
  <2> QED BY <1>1, <2>1, Consts DEF Addrs
<1>3. m[a] = IF k = UVPTSLOT THEN Pde(b) ELSE 0
  BY <1>1 DEF Dir
<1>4. m2[a] = m[a]
  BY <1>2 DEF Wrote
<1> QED BY <1>1, <1>3, <1>4

(* once it has its entry at UVPT.                                          *)
LEMMA WroteUvpt ==
  ASSUME NEW m, NEW m2, NEW r \in Nat, NEW b \in Nat, Wrote(m, m2, r, b + UVPTSLOT, 1, Pde(b)),
         Clear(m, r, b, PGSIZE)
  PROVE  Dir(m2, r, b)
<1>1. UVPTSLOT \in Nat /\ UVPTSLOT < PGSIZE /\ PGSIZE \in Nat /\ TOP \in Nat
  BY BootAssumption, Consts
<1>0. b + PGSIZE <= TOP
  BY <1>1 DEF Clear
<1> SUFFICES ASSUME NEW k \in 0 .. PGSIZE - 1, b + k < r PROVE m2[b + k] = IF k = UVPTSLOT THEN Pde(b) ELSE 0
  BY <1>0 DEF Dir
<1>2. PICK a \in Nat : a = b + k
  BY <1>1
<1>3. a \in Addrs /\ a < r
  BY <1>0, <1>1, <1>2 DEF Addrs
<1>4. CASE k = UVPTSLOT
  <2>1. a \in b + UVPTSLOT .. b + UVPTSLOT + 1 - 1
    BY <1>1, <1>2, <1>4
  <2> QED BY <1>2, <1>3, <1>4, <2>1 DEF Wrote
<1>5. CASE k # UVPTSLOT
  <2>1. a \notin b + UVPTSLOT .. b + UVPTSLOT + 1 - 1
    BY <1>1, <1>2, <1>5
  <2>2. m[a] = 0
    <3>1. a \in b .. b + PGSIZE - 1
      BY <1>1, <1>2
    <3> QED BY <1>3, <3>1 DEF Clear
  <2> QED BY <1>2, <1>3, <1>5, <2>1, <2>2 DEF Wrote
<1> QED BY <1>4, <1>5

-----------------------------------------------------------------------------
(* PGROUNDUP: the next multiple of the size of a page.                     *)
LEMMA RoundUp ==
  ASSUME NEW n \in Nat
  PROVE  /\ PGROUNDUP(n) \in Nat /\ n <= PGROUNDUP(n) /\ PGROUNDUP(n) % PGSIZE = 0
         /\ \E c \in Nat : PGROUNDUP(n) = PGSIZE * c
<1>1. PICK a \in Nat : a = n + PGSIZE - 1
  BY Consts
<1>2. PICK c, r : c = a \div PGSIZE /\ r = a % PGSIZE
  OBVIOUS
<1>3. c \in Nat /\ r \in Nat /\ r < PGSIZE /\ a = PGSIZE * c + r
  <2>1. DivBy(a, PGSIZE, c, r)
    BY <1>2 DEF DivBy
  <2> QED BY <2>1, DivMod, Consts
<1>4. PICK p \in Nat : p = PGSIZE * c /\ p = c * PGSIZE
  BY <1>3, Consts
<1>5. PGROUNDUP(n) = p
  BY <1>1, <1>2, <1>4, Zenon DEF PGROUNDUP
<1>6. n <= p
  BY <1>1, <1>3, <1>4, Consts
<1>7. p % PGSIZE = 0
  <2>1. (PGSIZE * c + 0) % PGSIZE = 0
    BY <1>3, DivUnique, Consts
  <2>2. PGSIZE * c + 0 = p
    BY <1>4
  <2> QED BY <2>1, <2>2
<1> QED BY <1>3, <1>4, <1>5, <1>6, <1>7

(* It grows with its argument,                                             *)
LEMMA RoundUpMono ==
  ASSUME NEW a \in Nat, NEW b \in Nat, a <= b
  PROVE  PGROUNDUP(a) <= PGROUNDUP(b)
<1>1. PICK x, y \in Nat : x = a + PGSIZE - 1 /\ y = b + PGSIZE - 1 /\ x <= y
  BY Consts
<1>2. PICK c, d : c = x \div PGSIZE /\ d = y \div PGSIZE
  OBVIOUS
<1>3. c \in Nat /\ d \in Nat /\ c <= d
  BY <1>1, <1>2, DivMono, Consts
<1>4. PGSIZE * c <= PGSIZE * d
  BY <1>3, MulMono, Consts
<1>5. PGSIZE * c = c * PGSIZE /\ PGSIZE * d = d * PGSIZE
  BY <1>3, Consts
<1>6. PGROUNDUP(a) = c * PGSIZE /\ PGROUNDUP(b) = d * PGSIZE
  BY <1>1, <1>2, Zenon DEF PGROUNDUP
<1> QED BY <1>4, <1>5, <1>6

(* and moves with a multiple.                                              *)
LEMMA RoundUpShift ==
  ASSUME NEW q \in Nat, NEW n \in Nat
  PROVE  PGROUNDUP(PGSIZE * q + n) = PGSIZE * q + PGROUNDUP(n)
<1>1. PICK a \in Nat : a = n + PGSIZE - 1
  BY Consts
<1>2. PICK c, r : c = a \div PGSIZE /\ r = a % PGSIZE
  OBVIOUS
<1>3. c \in Nat /\ r \in Nat /\ r < PGSIZE /\ a = PGSIZE * c + r
  <2>1. DivBy(a, PGSIZE, c, r)
    BY <1>2 DEF DivBy
  <2> QED BY <2>1, DivMod, Consts
<1>4. PICK u, p \in Nat : u = PGSIZE * q /\ p = PGSIZE * c
  BY <1>3, Consts
<1>5. PGSIZE * (q + c) = u + p /\ (q + c) * PGSIZE = u + p /\ c * PGSIZE = p
  BY <1>3, <1>4, Consts
<1>6. (PGSIZE * (q + c) + r) \div PGSIZE = q + c
  <2>1. PICK e \in Nat : e = q + c
    BY <1>3
  <2>2. (PGSIZE * e + r) \div PGSIZE = e
    BY <1>3, DivUnique, Consts
  <2> QED BY <2>1, <2>2
<1>7. (u + n) + PGSIZE - 1 = PGSIZE * (q + c) + r
  BY <1>1, <1>3, <1>4, <1>5, Consts
<1>8. PGROUNDUP(u + n) = (q + c) * PGSIZE
  BY <1>6, <1>7, Zenon DEF PGROUNDUP
<1>9. PGROUNDUP(n) = c * PGSIZE
  BY <1>1, <1>2, Zenon DEF PGROUNDUP
<1> QED BY <1>4, <1>5, <1>8, <1>9

(* What boot_alloc returns fits into what entry_pgdir maps, if there is    *)
(* room for the pages[] of this memory.                                    *)
LEMMA Fits ==
  ASSUME img \in Images, ram \in Memories, totalpages \in Nat, NEW npb, Found(totalpages, npb, ram)
  PROVE  /\ Base1 \in Nat /\ Base2 \in Nat /\ Base3 \in Nat /\ Base4 \in Nat
         /\ img.end <= Base1 /\ Base1 + PGSIZE <= Base2
         /\ totalpages * PAGEINFO \in Nat /\ Base2 + totalpages * PAGEINFO <= Base3
         /\ Base3 + ENVSSIZE <= Base4 /\ (Room(img, ram) => Base4 <= TOP)
<1>1. PICK end, m \in Nat : end = img.end /\ m = ram
  BY LinkedImage, BootAssumption
<1>2. PICK k \in Nat : k = totalpages * PAGEINFO
  BY Consts
<1>3. PICK q \in Nat : q = m \div PGSIZE
  BY <1>1, Consts
<1>4. totalpages <= q
  <2>1. totalpages * PGSIZE <= m
    BY <1>1 DEF Found
  <2>2. (totalpages * PGSIZE) \div PGSIZE <= m \div PGSIZE
    <3>1. PICK w \in Nat : w = totalpages * PGSIZE
      BY Consts
    <3> QED BY <1>1, <2>1, <3>1, DivMono, Consts
  <2>3. (totalpages * PGSIZE) \div PGSIZE = totalpages
    <3>1. (PGSIZE * totalpages + 0) \div PGSIZE = totalpages
      BY DivUnique, Consts
    <3>2. PGSIZE * totalpages + 0 = totalpages * PGSIZE
      BY Consts
    <3> QED BY <3>1, <3>2
  <2> QED BY <1>3, <2>2, <2>3
<1>5. PICK k2 \in Nat : k2 = q * PAGEINFO /\ k <= k2
  <2>1. PAGEINFO * totalpages <= PAGEINFO * q
    BY <1>3, <1>4, MulMono, Consts
  <2>2. PAGEINFO * totalpages = totalpages * PAGEINFO /\ PAGEINFO * q = q * PAGEINFO /\ q * PAGEINFO \in Nat
    BY <1>3, Consts
  <2> QED BY <1>2, <2>1, <2>2
<1>6. PICK u, v, w, w2, z \in Nat :
        /\ u = PGROUNDUP(end) /\ v = PGROUNDUP(PGSIZE) /\ w = PGROUNDUP(k) /\ w2 = PGROUNDUP(k2)
        /\ z = PGROUNDUP(ENVSSIZE) /\ end <= u /\ PGSIZE <= v /\ k <= w /\ ENVSSIZE <= z /\ w <= w2
  <2>1. PGROUNDUP(end) \in Nat /\ end <= PGROUNDUP(end)
    BY <1>1, RoundUp
  <2>2. PGROUNDUP(PGSIZE) \in Nat /\ PGSIZE <= PGROUNDUP(PGSIZE)
    BY RoundUp, Consts
  <2>3. PGROUNDUP(k) \in Nat /\ k <= PGROUNDUP(k) /\ PGROUNDUP(k2) \in Nat /\ PGROUNDUP(k) <= PGROUNDUP(k2)
    BY <1>2, <1>5, RoundUp, RoundUpMono
  <2>4. PGROUNDUP(ENVSSIZE) \in Nat /\ ENVSSIZE <= PGROUNDUP(ENVSSIZE)
    BY RoundUp, Consts
  <2> QED BY <2>1, <2>2, <2>3, <2>4
<1>7. Room(img, ram) = (u + v + w2 + z <= TOP)
  BY <1>1, <1>3, <1>5, <1>6, Zenon DEF Room
<1>8. Base1 = u /\ Base2 = u + v /\ Base3 = u + v + w /\ Base4 = u + v + w + z
  BY <1>1, <1>2, <1>6, Zenon DEF Base1, Base2, Base3, Base4
<1>9. ASSUME Room(img, ram) PROVE Base4 <= TOP
  <2>1. u + v + w2 + z <= TOP
    BY <1>7, <1>9, Zenon
  <2> QED BY <1>6, <1>8, <2>1, Consts
<1> QED BY <1>1, <1>2, <1>6, <1>8, <1>9, Consts

-----------------------------------------------------------------------------
(* In the kernel there is nothing to say of bootmain.                      *)
LEMMA RunningParts ==
  ASSUME InKernel'
  PROVE  HeaderPart' /\ SegPart' /\ ReadPart'
<1>1. stage' \notin Loading /\ stage' \notin {"seta20.1", "seta20.2", "protcseg"}
  BY DEF InKernel, Loading
<1> QED BY <1>1 DEF HeaderPart, SegPart, ReadPart, Loading

(* entry: the warm boot flag.                                              *)
LEMMA EntryInv ==
  ASSUME BootInv, entry
  PROVE  BootInv'
<1>1. /\ UNCHANGED <<img, ram, cpu, ld, disk, kbc, kernel>> /\ stage = "entry"
      /\ Store(WARM, 1, 1234, "paging")
  BY DEF entry, loader
<1>2. InKernel /\ stage \notin Mapped /\ stage \notin Counted
  BY <1>1 DEF InKernel, Mapped, Counted
<1>3. kbc.a20 /\ ~cpu.pg /\ Kept(img, mem) /\ img \in Images /\ mem \in [Addrs -> Int] /\ None
  BY <1>2 DEF BootInv, LinePart, KernelPart, TypePart, AreaPart
<1>ram. ram \in Nat /\ ram \in Memories
  BY <1>3, LinkedFits DEF BootInv, TypePart
<1>4. WARM \in Nat /\ WARM + 1 <= A20 /\ WARM < TOP
  BY BootAssumption, Consts
<1>6. Wrote(mem, mem', ram, WARM, 1, 1234) /\ stage' = "paging"
  BY <1>1, <1>3, <1>ram, <1>4, LowStore
<1>7. InKernel' /\ stage' \notin Mapped /\ stage' \notin Counted /\ stage' \notin Cleared /\ stage' \notin Loading
  BY <1>6 DEF InKernel, Mapped, Counted, Cleared, Loading
<1>8. HeaderPart' /\ SegPart' /\ ReadPart'
  BY <1>7, RunningParts
<1>9. Kept(img, mem')
  <2>1. PICK edata, st \in Nat : edata = img.edata /\ st = img.stacktop
    BY <1>3, LinkedImage
  <2> QED BY <1>3, <1>ram, <1>4, <1>6, <2>1, WroteKept
<1>10. KernelPart'
  <2>1. cpu.eip = img.entry
    BY <1>1, <1>2 DEF BootInv, KernelPart, Eip
  <2> QED BY <1>1, <1>6, <1>7, <1>9, <2>1 DEF KernelPart, Eip
<1>11. AreaPart'
  <2>1. None'
    BY <1>1, <1>3 DEF None, kernel
  <2> QED BY <1>7, <2>1 DEF AreaPart, Counted
<1>12. LinePart'
  BY <1>1, <1>3, <1>6, <1>7 DEF LinePart
<1>13. TypePart'
  <2>1. mem' \in [Addrs -> Int]
    BY <1>6 DEF Wrote
  <2> QED BY <1>1, <1>6, <2>1 DEF BootInv, TypePart, kernel
<1> QED BY <1>8, <1>10, <1>11, <1>12, <1>13 DEF BootInv

(* Paging goes on, and the jump to the linked address.                     *)
LEMMA PagingInv ==
  ASSUME BootInv, entry_paging \/ entry_jump
  PROVE  BootInv'
<1>1. /\ UNCHANGED <<img, ram, mem, ld, disk, kbc, kernel>>
      /\ \/ stage = "paging" /\ stage' = "jump" /\ cpu' = [cpu EXCEPT !.pg = TRUE]
         \/ stage = "jump" /\ stage' = "relocated" /\ cpu' = [cpu EXCEPT !.eip = KERNBASE + img.entry + 1]
  BY DEF entry_paging, entry_jump, loader
<1>2. InKernel /\ stage \notin Counted
  BY <1>1 DEF InKernel, Counted
<1>3. kbc.a20 /\ Kept(img, mem) /\ img \in Images /\ None /\ cpu.eip = Eip(img)
  BY <1>2 DEF BootInv, LinePart, KernelPart, TypePart, AreaPart
<1>4. InKernel' /\ stage' \in Mapped /\ stage' \notin Counted /\ stage' \notin Cleared /\ stage' \notin Loading
  BY <1>1 DEF InKernel, Mapped, Counted, Cleared, Loading
<1>5. PICK e \in Nat : e = img.entry
  BY <1>3, LinkedImage
<1>6. PICK e2 \in Int : e2 = KERNBASE + img.entry + 1
  BY <1>5, Consts
<1>7. /\ cpu' \in [eip : Int, esp : Int, pe : BOOLEAN, pg : BOOLEAN]
      /\ cpu'.pg
      /\ stage' = "jump" => cpu'.eip = img.entry
      /\ stage' = "relocated" => cpu'.eip = KERNBASE + img.entry + 1
  <2>1. CASE stage = "paging"
    <3>1. cpu' = [cpu EXCEPT !.pg = TRUE] /\ stage' = "jump"
      BY <1>1, <2>1
    <3>2. cpu.eip = img.entry
      BY <1>3, <2>1 DEF Eip
    <3> QED BY <3>1, <3>2 DEF BootInv, TypePart
  <2>2. CASE stage = "jump"
    <3>1. cpu' = [cpu EXCEPT !.eip = e2] /\ stage' = "relocated"
      BY <1>1, <1>6, <2>2
    <3>2. cpu.pg
      BY <2>2 DEF BootInv, LinePart, Mapped
    <3> QED BY <1>6, <3>1, <3>2 DEF BootInv, TypePart
  <2> QED BY <1>1, <2>1, <2>2
<1>8. HeaderPart' /\ SegPart' /\ ReadPart'
  BY <1>4, RunningParts
<1>9. KernelPart'
  BY <1>1, <1>3, <1>4, <1>7 DEF KernelPart, Eip
<1>10. AreaPart'
  <2>1. None'
    BY <1>1, <1>3 DEF None, kernel
  <2> QED BY <1>4, <2>1 DEF AreaPart, Counted
<1>11. LinePart'
  BY <1>1, <1>3, <1>4, <1>7 DEF LinePart
<1>12. TypePart'
  BY <1>1, <1>4, <1>7 DEF BootInv, TypePart, kernel
<1> QED BY <1>8, <1>9, <1>10, <1>11, <1>12 DEF BootInv

(* relocated: the boot stack.                                              *)
LEMMA RelocatedInv ==
  ASSUME BootInv, relocated
  PROVE  BootInv'
<1>1. /\ UNCHANGED <<img, ram, ld, disk, kbc, kernel>> /\ stage = "relocated"
      /\ cpu' = [cpu EXCEPT !.eip = KERNBASE + img.entry + 2, !.esp = KERNBASE + img.stacktop - 1]
      /\ Store(KERNBASE + img.stacktop - 1, 1, Junk, "i386_init")
  BY DEF relocated, loader
<1>2. InKernel /\ stage \in Mapped /\ stage \notin Counted
  BY <1>1 DEF InKernel, Mapped, Counted
<1>3. kbc.a20 /\ cpu.pg /\ Kept(img, mem) /\ img \in Images /\ mem \in [Addrs -> Int] /\ None
  BY <1>2 DEF BootInv, LinePart, KernelPart, TypePart, AreaPart
<1>ram. ram \in Nat /\ ram \in Memories
  BY <1>3, LinkedFits DEF BootInv, TypePart
<1>4. PICK e, st \in Nat : e = img.entry /\ st = img.stacktop /\ 0 < st /\ st <= TOP
  BY <1>3, LinkedImage
<1>5. PICK x \in Nat : x = st - 1 /\ x < TOP /\ x + 1 <= TOP
  BY <1>4, Consts
<1>6. PICK e2, s2 \in Int : e2 = KERNBASE + img.entry + 2 /\ s2 = KERNBASE + img.stacktop - 1
  BY <1>4, Consts
<1>7. s2 = KERNBASE + x
  BY <1>4, <1>5, <1>6, Consts
<1>8. Wrote(mem, mem', ram, x, 1, Junk) /\ stage' = "i386_init"
  <2>1. Store(KERNBASE + x, 1, Junk, "i386_init")
    BY <1>1, <1>6, <1>7, Zenon
  <2>2. Junk \in Int /\ InBlock(x, 1)
    BY <1>5 DEF Junk, InBlock
  <2> QED BY <1>3, <1>ram, <1>5, <2>1, <2>2, HighStore
<1>10. InKernel' /\ stage' \in Mapped /\ stage' \notin Counted /\ stage' \notin Cleared /\ stage' \notin Loading
  BY <1>8 DEF InKernel, Mapped, Counted, Cleared, Loading
<1>11. HeaderPart' /\ SegPart' /\ ReadPart'
  BY <1>10, RunningParts
<1>12. Kept(img, mem')
  <2>1. PICK edata \in Nat : edata = img.edata
    BY <1>3, LinkedImage
  <2> QED BY <1>3, <1>ram, <1>4, <1>5, <1>8, <2>1, WroteKept
<1>13. /\ cpu' \in [eip : Int, esp : Int, pe : BOOLEAN, pg : BOOLEAN]
       /\ cpu'.pg /\ cpu'.eip = e2
  <2>1. cpu' = [cpu EXCEPT !.eip = e2, !.esp = s2]
    BY <1>1, <1>6
  <2> QED BY <1>3, <2>1 DEF BootInv, TypePart
<1>14. KernelPart'
  <2>1. Eip(img)' = e2
    BY <1>1, <1>6, <1>8 DEF Eip
  <2> QED BY <1>1, <1>10, <1>12, <1>13, <2>1 DEF KernelPart
<1>15. AreaPart'
  <2>1. None'
    BY <1>1, <1>3 DEF None, kernel
  <2> QED BY <1>10, <2>1 DEF AreaPart, Counted
<1>16. LinePart'
  BY <1>1, <1>3, <1>8, <1>10, <1>13 DEF LinePart
<1>17. TypePart'
  <2>1. mem' \in [Addrs -> Int]
    BY <1>8 DEF Wrote
  <2> QED BY <1>1, <1>10, <1>13, <2>1 DEF BootInv, TypePart, kernel
<1> QED BY <1>11, <1>14, <1>15, <1>16, <1>17 DEF BootInv

(* i386_init: the bss.                                                     *)
LEMMA BssInv ==
  ASSUME BootInv, i386_init
  PROVE  BootInv'
<1>1. /\ UNCHANGED <<img, ram, cpu, ld, disk, kbc, kernel>> /\ stage = "i386_init"
      /\ Store(KERNBASE + img.edata, bss_size, 0, "detect")
  BY DEF i386_init, loader
<1>2. InKernel /\ stage \in Mapped /\ stage \notin Counted
  BY <1>1 DEF InKernel, Mapped, Counted
<1>3. kbc.a20 /\ cpu.pg /\ Kept(img, mem) /\ img \in Images /\ mem \in [Addrs -> Int] /\ None
  BY <1>2 DEF BootInv, LinePart, KernelPart, TypePart, AreaPart
<1>ram. ram \in Nat /\ ram \in Memories
  BY <1>3, LinkedFits DEF BootInv, TypePart
<1>4. PICK edata, end \in Nat : edata = img.edata /\ end = img.end /\ edata <= end /\ end < TOP
  BY <1>3, LinkedImage
<1>5. PICK n \in Nat : n = end - edata /\ edata < TOP /\ edata + n <= TOP
  BY <1>4, Consts
<1>6. Wrote(mem, mem', ram, edata, n, 0) /\ stage' = "detect" /\ InBlock(edata, n)
  <2>1. Store(KERNBASE + edata, n, 0, "detect")
    BY <1>1, <1>4, <1>5 DEF bss_size
  <2>2. 0 \in Int /\ InBlock(edata, n)
    BY <1>5 DEF InBlock
  <2> QED BY <1>3, <1>ram, <1>5, <2>1, <2>2, HighStore
<1>8. InKernel' /\ stage' \in Mapped /\ stage' \notin Counted /\ stage' \in Cleared /\ stage' \notin Loading
  BY <1>6 DEF InKernel, Mapped, Counted, Cleared, Loading
<1>9. HeaderPart' /\ SegPart' /\ ReadPart'
  BY <1>8, RunningParts
<1>10. Kept(img, mem')
  <2>1. PICK st \in Nat : st = img.stacktop
    BY <1>3, LinkedImage
  <2>2. edata >= edata
    OBVIOUS
  <2> QED BY <1>3, <1>ram, <1>4, <1>5, <1>6, <2>1, <2>2, WroteKept
<1>11. Clear(mem', ram, edata, n)
  BY <1>ram, <1>5, <1>6, WroteZero
<1>12. KernelPart'
  <2>1. Eip(img)' = Eip(img)
    BY <1>1, <1>6 DEF Eip
  <2>2. cpu.eip = Eip(img)
    BY <1>2 DEF BootInv, KernelPart
  <2>3. Clear(mem', ram, img.edata, img.end - img.edata)
    BY <1>4, <1>5, <1>11
  <2> QED BY <1>1, <1>8, <1>10, <2>1, <2>2, <2>3 DEF KernelPart
<1>13. AreaPart'
  <2>1. None'
    BY <1>1, <1>3 DEF None, kernel
  <2> QED BY <1>8, <2>1 DEF AreaPart, Counted
<1>14. LinePart'
  BY <1>1, <1>3, <1>6, <1>8 DEF LinePart
<1>15. TypePart'
  <2>1. mem' \in [Addrs -> Int]
    BY <1>6 DEF Wrote
  <2> QED BY <1>1, <1>8, <2>1 DEF BootInv, TypePart, kernel
<1> QED BY <1>9, <1>12, <1>13, <1>14, <1>15 DEF BootInv

-----------------------------------------------------------------------------
(* The sizes in the CMOS, put together from their bytes.                   *)
LEMMA Registers ==
  ASSUME ram \in Nat
  PROVE  /\ nvram_read(Reg.baselo) = Min2(ram, BASEMEM)
         /\ nvram_read(Reg.extlo) = Min2(Above(EXTPHYS), EXTCAP)
         /\ nvram_read(Reg.ext16lo) = Above(EXT16PHYS) \div EXT16UNIT
<1>1. PICK v : v = << Min2(ram, BASEMEM), Min2(Above(EXTPHYS), EXTCAP), Above(EXT16PHYS) \div EXT16UNIT >>
  OBVIOUS
<1>2. v[1] \in Nat /\ v[2] \in Nat /\ v[3] \in Nat
  <2>1. Above(EXTPHYS) \in Nat /\ Above(EXT16PHYS) \in Nat
    BY Consts DEF Above
  <2>2. Above(EXT16PHYS) \div EXT16UNIT \in Nat
    BY <2>1, Consts
  <2>3. Min2(ram, BASEMEM) \in Nat /\ Min2(Above(EXTPHYS), EXTCAP) \in Nat
    BY <2>1, Consts DEF Min2
  <2> QED BY <1>1, <2>2, <2>3
<1>3. cmos = [r \in 0 .. 5 |-> IF r % 2 = 0 THEN v[1 + r \div 2] % BYTE ELSE v[1 + r \div 2] \div BYTE]
  BY <1>1, Zenon DEF cmos
<1>4. /\ cmos[0] = v[1] % BYTE /\ cmos[1] = v[1] \div BYTE
      /\ cmos[2] = v[2] % BYTE /\ cmos[3] = v[2] \div BYTE
      /\ cmos[4] = v[3] % BYTE /\ cmos[5] = v[3] \div BYTE
  <2>1. /\ 0 % 2 = 0 /\ 1 % 2 # 0 /\ 2 % 2 = 0 /\ 3 % 2 # 0 /\ 4 % 2 = 0 /\ 5 % 2 # 0
        /\ 1 + 0 \div 2 = 1 /\ 1 + 1 \div 2 = 1 /\ 1 + 2 \div 2 = 2 /\ 1 + 3 \div 2 = 2
        /\ 1 + 4 \div 2 = 3 /\ 1 + 5 \div 2 = 3
    OBVIOUS
  <2>2. 0 \in 0 .. 5 /\ 1 \in 0 .. 5 /\ 2 \in 0 .. 5 /\ 3 \in 0 .. 5 /\ 4 \in 0 .. 5 /\ 5 \in 0 .. 5
    OBVIOUS
  <2> QED BY <1>3, <2>1, <2>2
<1>5. ASSUME NEW x \in Nat PROVE (x % BYTE) + BYTE * (x \div BYTE) = x
  <2>1. PICK q, r : q = x \div BYTE /\ r = x % BYTE
    OBVIOUS
  <2>2. q \in Nat /\ r \in Nat /\ x = BYTE * q + r
    <3>1. DivBy(x, BYTE, q, r)
      BY <2>1 DEF DivBy
    <3> QED BY <3>1, DivMod, Consts
  <2>3. PICK p \in Nat : p = BYTE * q
    BY <2>2, Consts
  <2>4. r + p = x
    BY <2>2, <2>3
  <2> QED BY <2>1, <2>3, <2>4
<1>6. Reg.baselo = 0 /\ Reg.extlo = 2 /\ Reg.ext16lo = 4 /\ 0 + 1 = 1 /\ 2 + 1 = 3 /\ 4 + 1 = 5
  BY DEF Reg
<1>7. \A r : nvram_read(r) = cmos[r] + BYTE * cmos[r + 1]
  BY DEF nvram_read, mc146818_read
<1>8. nvram_read(Reg.baselo) = cmos[0] + BYTE * cmos[1]
  BY <1>6, <1>7, Zenon
<1>9. nvram_read(Reg.extlo) = cmos[2] + BYTE * cmos[3]
  BY <1>6, <1>7, Zenon
<1>10. nvram_read(Reg.ext16lo) = cmos[4] + BYTE * cmos[5]
  BY <1>6, <1>7, Zenon
<1>11. /\ (v[1] % BYTE) + BYTE * (v[1] \div BYTE) = v[1]
       /\ (v[2] % BYTE) + BYTE * (v[2] \div BYTE) = v[2]
       /\ (v[3] % BYTE) + BYTE * (v[3] \div BYTE) = v[3]
  BY <1>2, <1>5, Zenon
<1>12. /\ nvram_read(Reg.baselo) = v[1] /\ nvram_read(Reg.extlo) = v[2]
       /\ nvram_read(Reg.ext16lo) = v[3]
  BY <1>4, <1>8, <1>9, <1>10, <1>11, Zenon
<1>13. /\ v[1] = Min2(ram, BASEMEM) /\ v[2] = Min2(Above(EXTPHYS), EXTCAP)
       /\ v[3] = Above(EXT16PHYS) \div EXT16UNIT
  BY <1>1
<1> QED BY <1>12, <1>13, Zenon

(* The size in bytes that they stand for: the machine has it, and less     *)
(* than a unit of the CMOS is missing.                                     *)
LEMMA TotalMemory ==
  ASSUME ram \in Nat, ram <= BASEMEM \/ ram > EXTPHYS, NEW base, base = Min2(ram, BASEMEM),
         NEW ext, ext = Min2(Above(EXTPHYS), EXTCAP),
         NEW ext16, ext16 = (Above(EXT16PHYS) \div EXT16UNIT) * EXT16UNIT,
         NEW t, t = totalmem(base, ext, ext16)
  PROVE  /\ t \in Nat /\ base \in Nat /\ t <= ram /\ base <= BASEMEM /\ base <= t
         /\ ram > EXT16PHYS => ram - t < EXT16UNIT
         /\ ram <= EXT16PHYS => t = ram
<1>1. /\ BASEMEM \in Nat /\ EXTPHYS \in Nat /\ EXT16PHYS \in Nat /\ EXTCAP \in Nat
      /\ BASEMEM <= EXTPHYS /\ EXTPHYS < EXT16PHYS /\ EXT16PHYS <= EXTPHYS + EXTCAP
  BY BootAssumption, Consts
<1>2. PICK U \in Nat \ {0} : U = EXT16UNIT
  BY Consts
<1>3. PICK x, y \in Nat : /\ x = Above(EXT16PHYS) /\ (ram > EXT16PHYS => x = ram - EXT16PHYS)
                          /\ (ram <= EXT16PHYS => x = 0)
                          /\ y = Above(EXTPHYS) /\ (ram > EXTPHYS => y = ram - EXTPHYS)
                          /\ (ram <= EXTPHYS => y = 0)
  <2>1. ASSUME NEW c \in Nat
        PROVE  /\ Above(c) \in Nat /\ (ram > c => Above(c) = ram - c)
               /\ (ram <= c => Above(c) = 0)
    BY DEF Above
  <2>2. /\ Above(EXT16PHYS) \in Nat /\ (ram > EXT16PHYS => Above(EXT16PHYS) = ram - EXT16PHYS)
        /\ (ram <= EXT16PHYS => Above(EXT16PHYS) = 0)
    BY <1>1, <2>1
  <2>3. /\ Above(EXTPHYS) \in Nat /\ (ram > EXTPHYS => Above(EXTPHYS) = ram - EXTPHYS)
        /\ (ram <= EXTPHYS => Above(EXTPHYS) = 0)
    BY <1>1, <2>1
  <2> QED BY <2>2, <2>3, Zenon
<1>4. PICK q, r : q = x \div U /\ r = x % U
  OBVIOUS
<1>5. q \in Nat /\ r \in Nat /\ r < U /\ x = U * q + r
  <2>1. DivBy(x, U, q, r)
    BY <1>4 DEF DivBy
  <2> QED BY <1>2, <1>3, <2>1, DivMod
<1>6. PICK z \in Nat : z = ext16 /\ x = z + r
  <2>1. ext16 = q * U
    BY <1>2, <1>3, <1>4, Zenon
  <2>2. q * U = U * q /\ q * U \in Nat
    BY <1>2, <1>5
  <2> QED BY <1>5, <2>1, <2>2
<1>7. /\ base \in Nat /\ base <= BASEMEM /\ base <= ram
      /\ (ram <= BASEMEM => base = ram)
  BY <1>1 DEF Min2
<1>8. PICK e \in Nat : e = ext /\ e <= y /\ e <= EXTCAP /\ (y <= EXTCAP => e = y) /\ (y > EXTCAP => e = EXTCAP)
  BY <1>1, <1>3 DEF Min2
<1>9. t = IF z > 0 THEN EXT16PHYS + z ELSE IF e > 0 THEN EXTPHYS + e ELSE base
  BY <1>6, <1>8 DEF totalmem
<1>10. CASE z > 0
  <2>1. t = EXT16PHYS + z
    BY <1>9, <1>10
  <2>2. x # 0
    BY <1>5, <1>6, <1>10
  <2>3. ram > EXT16PHYS
    BY <1>1, <1>3, <2>2
  <2>4. x = ram - EXT16PHYS
    BY <1>3, <2>3
  <2> QED BY <1>1, <1>2, <1>5, <1>6, <1>7, <2>1, <2>3, <2>4
<1>11. CASE z = 0 /\ ram > EXTPHYS
  <2>1. t = EXTPHYS + e
    <3>1. e > 0
      BY <1>1, <1>3, <1>8, <1>11
    <3> QED BY <1>9, <1>11, <3>1
  <2>2. CASE y <= EXTCAP
    BY <1>1, <1>2, <1>3, <1>7, <1>8, <1>11, <2>1, <2>2
  <2>3. CASE y > EXTCAP
    BY <1>1, <1>2, <1>3, <1>5, <1>6, <1>7, <1>8, <1>11, <2>1, <2>3
  <2> QED BY <1>1, <1>3, <2>2, <2>3
<1>12. CASE z = 0 /\ ~(ram > EXTPHYS)
  <2>1. e = 0 /\ t = base /\ base = ram
    BY <1>1, <1>3, <1>7, <1>8, <1>9, <1>12
  <2> QED BY <1>1, <1>7, <1>12, <2>1
<1> QED BY <1>6, <1>10, <1>11, <1>12

(* The count of the pages is that of the size, rounded down.               *)
LEMMA PageCount ==
  ASSUME NEW m \in Nat, NEW t \in Nat, NEW base \in Nat, t <= m, base <= BASEMEM, base <= t,
         m > EXT16PHYS => m - t < EXT16UNIT, m <= EXT16PHYS => t = m,
         NEW np, NEW npb, NEW r, NEW r2, DivBy(t, PGSIZE, np, r), DivBy(base, PGSIZE, npb, r2)
  PROVE  np \in Nat /\ npb \in Nat /\ Found(np, npb, m)
<1>2. np \in Nat /\ r \in Nat /\ r < PGSIZE /\ t = PGSIZE * np + r
  BY DivMod, Consts
<1>3. npb \in Nat /\ r2 \in Nat /\ base = PGSIZE * npb + r2
  BY DivMod, Consts
<1>4. npb <= np
  <2>1. base \div PGSIZE <= t \div PGSIZE
    BY DivMono, Consts
  <2> QED BY <2>1 DEF DivBy
<1>5. PICK p, p2 \in Nat : p = np * PGSIZE /\ p2 = npb * PGSIZE /\ t = p + r /\ base = p2 + r2
  <2>1. PICK p \in Nat : p = np * PGSIZE /\ p = PGSIZE * np
    BY <1>2, Consts
  <2>2. PICK p2 \in Nat : p2 = npb * PGSIZE /\ p2 = PGSIZE * npb
    BY <1>3, Consts
  <2> QED BY <1>2, <1>3, <2>1, <2>2
<1>6. p <= m /\ p2 <= BASEMEM
  BY <1>2, <1>3, <1>5, Consts
<1>7. m - p < (IF m > EXT16PHYS THEN EXT16UNIT + PGSIZE ELSE PGSIZE)
  <2>1. CASE m > EXT16PHYS
    BY <1>2, <1>5, <2>1, Consts
  <2>2. CASE ~(m > EXT16PHYS)
    BY <1>2, <1>5, <2>2, Consts
  <2> QED BY <2>1, <2>2
<1> QED BY <1>2, <1>3, <1>4, <1>5, <1>6, <1>7 DEF Found

(* i386_detect_memory.                                                     *)
LEMMA DetectInv ==
  ASSUME BootInv, i386_detect_memory
  PROVE  BootInv'
<1>1. /\ UNCHANGED <<img, ram, mem, cpu, ld, disk, kbc, nextfree, areas>>
      /\ stage = "detect" /\ stage' = "boot_alloc"
  BY DEF i386_detect_memory, loader
<1>2. InKernel /\ stage \in Mapped /\ stage \notin Counted /\ stage \in Cleared
  BY <1>1 DEF InKernel, Mapped, Counted, Cleared
<1>3. /\ kbc.a20 /\ cpu.pg /\ Kept(img, mem) /\ None /\ cpu.eip = Eip(img)
      /\ Clear(mem, ram, img.edata, img.end - img.edata)
  BY <1>2 DEF BootInv, LinePart, KernelPart, AreaPart
<1>4. PICK m \in Nat : m = ram /\ (m <= BASEMEM \/ m > EXTPHYS)
  <2>1. ram \in Memories
    BY DEF BootInv, TypePart
  <2> QED BY <2>1, BootAssumption
<1>5. PICK base, ext, ext16, t :
        /\ base = Min2(ram, BASEMEM) /\ ext = Min2(Above(EXTPHYS), EXTCAP)
        /\ ext16 = (Above(EXT16PHYS) \div EXT16UNIT) * EXT16UNIT
        /\ t = totalmem(base, ext, ext16)
  OBVIOUS
<1>6. ram \in Nat /\ (ram <= BASEMEM \/ ram > EXTPHYS)
  BY <1>4
<1>7. totalpages' = t \div PGSIZE /\ basepages' = base \div PGSIZE
  <2>1. /\ nvram_read(Reg.baselo) = base /\ nvram_read(Reg.extlo) = ext
        /\ nvram_read(Reg.ext16lo) * EXT16UNIT = ext16
    BY <1>5, <1>6, Registers, Zenon
  <2> QED BY <1>5, <2>1, Zenon DEF i386_detect_memory
<1>8. /\ t \in Nat /\ base \in Nat /\ t <= ram /\ base <= BASEMEM /\ base <= t
      /\ ram > EXT16PHYS => ram - t < EXT16UNIT
      /\ ram <= EXT16PHYS => t = ram
  BY <1>5, <1>6, TotalMemory, Zenon
<1>9. totalpages' \in Nat /\ basepages' \in Nat /\ Found(totalpages', basepages', ram)
  <2>1. PICK r, r2 : r = t % PGSIZE /\ r2 = base % PGSIZE
    OBVIOUS
  <2>2. DivBy(t, PGSIZE, totalpages', r) /\ DivBy(base, PGSIZE, basepages', r2)
    BY <1>7, <2>1 DEF DivBy
  <2> QED BY <1>6, <1>8, <2>2, PageCount
<1>10. InKernel' /\ stage' \in Mapped /\ stage' \in Counted /\ stage' \in Cleared /\ stage' \notin Loading
  BY <1>1 DEF InKernel, Mapped, Counted, Cleared, Loading
<1>11. HeaderPart' /\ SegPart' /\ ReadPart'
  BY <1>10, RunningParts
<1>12. KernelPart'
  <2>1. Eip(img)' = Eip(img)
    BY <1>1 DEF Eip
  <2> QED BY <1>1, <1>3, <2>1 DEF KernelPart
<1>13. AreaPart'
  <2>1. None'
    BY <1>1, <1>3 DEF None
  <2>2. Found(totalpages, basepages, ram)'
    BY <1>1, <1>9
  <2> QED BY <1>1, <1>10, <2>1, <2>2 DEF AreaPart
<1>14. LinePart'
  BY <1>1, <1>3, <1>10 DEF LinePart, Loading
<1>15. TypePart'
  BY <1>1, <1>9, <1>10 DEF BootInv, TypePart
<1> QED BY <1>11, <1>12, <1>13, <1>14, <1>15 DEF BootInv

(* A store of mem_init behind the kernel.                                  *)
LEMMA BehindKernel ==
  ASSUME BootInv, stage \in Counted, NEW x \in Nat, NEW n \in Nat, img.end <= x,
         NEW v \in Int, NEW next \in Counted, Store(KERNBASE + x, n, v, next),
         UNCHANGED <<img, ram, cpu, ld, disk, kbc, totalpages, basepages>>
  PROVE  IF InBlock(x, n)
         THEN /\ Wrote(mem, mem', ram, x, n, v) /\ stage' = next
              /\ TypePart' /\ LinePart' /\ HeaderPart' /\ SegPart' /\ ReadPart' /\ KernelPart'
              /\ Found(totalpages, basepages, ram)'
         ELSE stage' = "fault"
<1>1. InKernel /\ stage \in Mapped /\ stage \in Cleared
  BY DEF InKernel, Mapped, Counted, Cleared
<1>2. /\ kbc.a20 /\ cpu.pg /\ Kept(img, mem) /\ img \in Images /\ mem \in [Addrs -> Int]
      /\ cpu.eip = Eip(img) /\ Clear(mem, ram, img.edata, img.end - img.edata)
  BY <1>1 DEF BootInv, LinePart, KernelPart, TypePart
<1>ram. ram \in Nat /\ ram \in Memories
  BY <1>2, LinkedFits DEF BootInv, TypePart
<1>3. IF InBlock(x, n) THEN Wrote(mem, mem', ram, x, n, v) /\ stage' = next
      ELSE stage' = "fault"
  BY <1>2, <1>ram, HighStore
<1> SUFFICES ASSUME InBlock(x, n)
             PROVE  /\ Wrote(mem, mem', ram, x, n, v) /\ stage' = next
                    /\ TypePart' /\ LinePart' /\ HeaderPart' /\ SegPart' /\ ReadPart' /\ KernelPart'
                    /\ Found(totalpages, basepages, ram)'
  BY <1>3
<1>4. Wrote(mem, mem', ram, x, n, v) /\ stage' = next
  BY <1>3
<1>5. InKernel' /\ stage' \in Mapped /\ stage' \in Counted /\ stage' \in Cleared /\ stage' \notin Loading
  BY <1>4 DEF InKernel, Mapped, Counted, Cleared, Loading
<1>6. HeaderPart' /\ SegPart' /\ ReadPart'
  BY <1>5, RunningParts
<1>7. PICK edata, end, st \in Nat :
        edata = img.edata /\ end = img.end /\ st = img.stacktop /\ edata <= end
  BY <1>2, LinkedImage
<1>8. Kept(img, mem')
  <2>1. x >= edata
    BY <1>7
  <2> QED BY <1>2, <1>ram, <1>4, <1>7, <2>1, WroteKept
<1>9. Clear(mem', ram, img.edata, img.end - img.edata)
  <2>1. PICK k \in Nat : k = end - edata /\ edata + k <= x
    BY <1>7, Consts
  <2>2. Clear(mem, ram, edata, k)
    BY <1>2, <1>7, <2>1
  <2>3. Clear(mem', ram, edata, k)
    BY <1>ram, <1>4, <1>7, <2>1, <2>2, WroteClear
  <2> QED BY <1>7, <2>1, <2>3
<1>10. KernelPart'
  <2>1. Eip(img)' = Eip(img)
    BY <1>5 DEF Eip, Counted
  <2> QED BY <1>2, <1>5, <1>8, <1>9, <2>1 DEF KernelPart
<1>11. LinePart'
  BY <1>2, <1>4, <1>5 DEF LinePart, Counted
<1>12. TypePart'
  <2>1. mem' \in [Addrs -> Int]
    BY <1>4 DEF Wrote
  <2> QED BY <1>5, <2>1 DEF BootInv, TypePart
<1>13. Found(totalpages, basepages, ram)'
  BY DEF BootInv, AreaPart
<1> QED BY <1>4, <1>6, <1>10, <1>11, <1>12, <1>13

(* One more area.                                                          *)
LEMMA AppendTwo == ASSUME NEW a, NEW b, NEW c
                   PROVE  Append(<<a>>, b) = <<a, b>> /\ Append(<<a, b>>, c) = <<a, b, c>>
<1> DEFINE S == {a, b, c}
<1>1. ASSUME NEW s \in Seq(S), NEW t \in Seq(S), Len(s) = Len(t), \A i \in 1 .. Len(s) : s[i] = t[i]
      PROVE  s = t
  BY <1>1, SeqEqual
<1> HIDE DEF S
<1>2. a \in S /\ b \in S /\ c \in S
  BY DEF S
<1>3. /\ <<a>> \in Seq(S) /\ <<a, b>> \in Seq(S) /\ <<a, b, c>> \in Seq(S)
      /\ Len(<<a>>) = 1 /\ Len(<<a, b>>) = 2 /\ Len(<<a, b, c>>) = 3
  BY <1>2
<1>4. Append(<<a>>, b) = <<a, b>>
  <2>1. PICK s : s = Append(<<a>>, b)
    OBVIOUS
  <2>2. s \in Seq(S) /\ Len(s) = 2 /\ s[1] = a /\ s[2] = b
    BY <1>2, <1>3, <2>1, AppendProperties
  <2>3. \A i \in 1 .. Len(s) : s[i] = <<a, b>>[i]
    BY <2>2
  <2> QED BY <1>1, <1>3, <2>1, <2>2, <2>3
<1>5. Append(<<a, b>>, c) = <<a, b, c>>
  <2>1. PICK s : s = Append(<<a, b>>, c)
    OBVIOUS
  <2>2. s \in Seq(S) /\ Len(s) = 3 /\ s[1] = a /\ s[2] = b /\ s[3] = c
    BY <1>2, <1>3, <2>1, AppendProperties
  <2>3. \A i \in 1 .. Len(s) : s[i] = <<a, b, c>>[i]
    BY <2>2
  <2> QED BY <1>1, <1>3, <2>1, <2>2, <2>3
<1> QED BY <1>4, <1>5

(* What mem_init_alloc takes, in its order.                                *)
LEMMA Takes ==
  ASSUME mem_init_alloc, totalpages \in Nat, img \in Images,
         Base2 \in Nat, Base3 \in Nat, Base2 > 0, Base3 > 0
  PROVE  /\ None => /\ areas' = <<Area1>> /\ nextfree' = Base2
                    /\ Store(KERNBASE + Base1, PGSIZE, 0, "uvpt")
         /\ One => /\ areas' = <<Area1, Area2>> /\ nextfree' = Base3
                   /\ Store(KERNBASE + Base2, totalpages * PAGEINFO, 0, "boot_alloc")
         /\ Two => /\ areas' = <<Area1, Area2, Area3>> /\ nextfree' = Base4
                   /\ Store(KERNBASE + Base3, ENVSSIZE, 0, "page_init")
<1>0. PICK n, b, x : /\ n = sizes[Len(areas) + 1] /\ b = boot_alloc(n) /\ x = b.result
                     /\ nextfree' = b.nextfree
                     /\ areas' = Append(areas, [pa |-> x, n |-> n])
                     /\ Store(KERNBASE + x, n, 0,
                              CASE areas = << >> -> "uvpt"
                                [] Len(areas') = Len(sizes) -> "page_init"
                                [] OTHER -> "boot_alloc")
  BY Zenon DEF mem_init_alloc
<1>1. sizes[1] = PGSIZE /\ sizes[2] = totalpages * PAGEINFO /\ sizes[3] = ENVSSIZE /\ Len(sizes) = 3
  BY DEF sizes
<1>2. ASSUME None
      PROVE  /\ areas' = <<Area1>> /\ nextfree' = Base2
             /\ Store(KERNBASE + Base1, PGSIZE, 0, "uvpt")
  <2>1. areas = << >> /\ nextfree = 0 /\ Len(areas) + 1 = 1
    BY <1>2 DEF None
  <2>2. n = PGSIZE
    BY <1>0, <1>1, <2>1, Zenon
  <2>3. x = Base1 /\ nextfree' = Base2
    <3>1. b = [result |-> Base1, nextfree |-> Base2]
      BY <1>0, <2>1, <2>2, Zenon DEF boot_alloc, Base1, Base2
    <3> QED BY <1>0, <3>1
  <2>4. areas' = <<Area1>>
    BY <1>0, <2>1, <2>2, <2>3 DEF Area1
  <2>5. (CASE areas = << >> -> "uvpt" [] Len(areas') = Len(sizes) -> "page_init" [] OTHER -> "boot_alloc") = "uvpt"
    BY <1>1, <2>1, <2>4
  <2> QED BY <1>0, <2>2, <2>3, <2>4, <2>5, Zenon
<1>3. ASSUME One
      PROVE  /\ areas' = <<Area1, Area2>> /\ nextfree' = Base3
             /\ Store(KERNBASE + Base2, totalpages * PAGEINFO, 0, "boot_alloc")
  <2>1. areas = <<Area1>> /\ nextfree = Base2 /\ Len(areas) + 1 = 2 /\ areas # << >> /\ nextfree # 0
    BY <1>3 DEF One
  <2>2. n = totalpages * PAGEINFO
    BY <1>0, <1>1, <2>1, Zenon
  <2>3. x = Base2 /\ nextfree' = Base3
    <3>1. b = [result |-> Base2, nextfree |-> Base3]
      BY <1>0, <2>1, <2>2, Zenon DEF boot_alloc, Base3
    <3> QED BY <1>0, <3>1
  <2>4. areas' = <<Area1, Area2>>
    <3>1. areas' = Append(<<Area1>>, Area2)
      BY <1>0, <2>1, <2>2, <2>3, Zenon DEF Area2
    <3> QED BY <3>1, AppendTwo, Zenon
  <2>5. Len(areas') = 2
    BY <2>4
  <2>6. (CASE areas = << >> -> "uvpt" [] Len(areas') = Len(sizes) -> "page_init" [] OTHER -> "boot_alloc") = "boot_alloc"
    BY <1>1, <2>1, <2>5
  <2> QED BY <1>0, <2>2, <2>3, <2>4, <2>6, Zenon
<1>4. ASSUME Two
      PROVE  /\ areas' = <<Area1, Area2, Area3>> /\ nextfree' = Base4
             /\ Store(KERNBASE + Base3, ENVSSIZE, 0, "page_init")
  <2>1. areas = <<Area1, Area2>> /\ nextfree = Base3 /\ Len(areas) + 1 = 3 /\ areas # << >> /\ nextfree # 0
    BY <1>4 DEF Two
  <2>2. n = ENVSSIZE
    BY <1>0, <1>1, <2>1, Zenon
  <2>3. x = Base3 /\ nextfree' = Base4
    <3>1. b = [result |-> Base3, nextfree |-> Base4]
      BY <1>0, <2>1, <2>2, Zenon DEF boot_alloc, Base4
    <3> QED BY <1>0, <3>1
  <2>4. areas' = <<Area1, Area2, Area3>>
    <3>1. areas' = Append(<<Area1, Area2>>, Area3)
      BY <1>0, <2>1, <2>2, <2>3, Zenon DEF Area3
    <3> QED BY <3>1, AppendTwo, Zenon
  <2>5. Len(areas') = 3
    BY <2>4
  <2>6. (CASE areas = << >> -> "uvpt" [] Len(areas') = Len(sizes) -> "page_init" [] OTHER -> "boot_alloc") = "page_init"
    BY <1>1, <2>1, <2>5
  <2> QED BY <1>0, <2>2, <2>3, <2>4, <2>6, Zenon
<1> QED BY <1>2, <1>3, <1>4

(* mem_init: kern_pgdir, pages and envs.                                   *)
LEMMA AllocInv ==
  ASSUME BootInv, mem_init_alloc
  PROVE  BootInv' \/ Faulted'
<1>1. UNCHANGED <<img, ram, cpu, ld, disk, kbc, totalpages, basepages>> /\ stage = "boot_alloc"
  BY DEF mem_init_alloc, loader
<1>2. stage \in Counted /\ img \in Images /\ ram \in Memories /\ totalpages \in Nat
  BY <1>1 DEF Counted, BootInv, TypePart
<1>3. Found(totalpages, basepages, ram)
  BY <1>2 DEF BootInv, AreaPart
<1>4. PICK end, b1, b2, b3, b4, sz \in Nat :
        /\ end = img.end /\ b1 = Base1 /\ b2 = Base2 /\ b3 = Base3 /\ b4 = Base4
        /\ sz = totalpages * PAGEINFO
        /\ end <= b1 /\ b1 + PGSIZE <= b2 /\ b2 + sz <= b3 /\ b3 + ENVSSIZE <= b4
        /\ Room(img, ram) => b4 <= TOP
  <2>1. PICK end \in Nat : end = img.end
    BY <1>2, LinkedImage
  <2>2. /\ Base1 \in Nat /\ Base2 \in Nat /\ Base3 \in Nat /\ Base4 \in Nat
        /\ img.end <= Base1 /\ Base1 + PGSIZE <= Base2
        /\ totalpages * PAGEINFO \in Nat /\ Base2 + totalpages * PAGEINFO <= Base3
        /\ Base3 + ENVSSIZE <= Base4 /\ (Room(img, ram) => Base4 <= TOP)
    BY <1>2, <1>3, Fits, Zenon
  <2> QED BY <2>1, <2>2, Zenon
<1>5. /\ 0 < b2 /\ 0 < b3 /\ end <= b2 /\ end <= b3
      /\ Room(img, ram) => b1 + PGSIZE <= TOP /\ b2 + sz <= TOP /\ b3 + ENVSSIZE <= TOP
  BY <1>4, Consts
<1>6. /\ Base1' = Base1 /\ Base2' = Base2 /\ Base3' = Base3 /\ Base4' = Base4
      /\ Area1' = Area1 /\ Area2' = Area2 /\ Area3' = Area3
  BY <1>1, FrameBases
<1>7. /\ "uvpt" \in Counted /\ "boot_alloc" \in Counted /\ "page_init" \in Counted
      /\ 0 \in Int
  BY DEF Counted
<1>8. /\ None => /\ areas' = <<Area1>> /\ nextfree' = Base2
                 /\ Store(KERNBASE + Base1, PGSIZE, 0, "uvpt")
      /\ One => /\ areas' = <<Area1, Area2>> /\ nextfree' = Base3
                /\ Store(KERNBASE + Base2, totalpages * PAGEINFO, 0, "boot_alloc")
      /\ Two => /\ areas' = <<Area1, Area2, Area3>> /\ nextfree' = Base4
                /\ Store(KERNBASE + Base3, ENVSSIZE, 0, "page_init")
  <2>1. Base2 \in Nat /\ Base3 \in Nat /\ Base2 > 0 /\ Base3 > 0
    BY <1>4, <1>5
  <2> QED BY <1>2, <2>1, Takes
<1>9. PGSIZE \in Nat /\ ENVSSIZE \in Nat /\ PGSIZE # 0 /\ ram \in Nat
  BY <1>2, Consts, LinkedFits
<1>fault. ASSUME stage' = "fault", ~Room(img, ram) PROVE Faulted'
  <2>1. Room(img, ram)' = Room(img, ram)
    BY <1>1 DEF Room
  <2> QED BY <1>fault, <2>1 DEF Faulted
<1>10. CASE None
  <2>1. areas' = <<Area1>> /\ nextfree' = Base2 /\ Store(KERNBASE + b1, PGSIZE, 0, "uvpt")
    BY <1>4, <1>8, <1>10, Zenon
  <2>2. end <= b1 /\ img.end <= b1
    BY <1>4
  <2>3. IF InBlock(b1, PGSIZE)
        THEN /\ Wrote(mem, mem', ram, b1, PGSIZE, 0) /\ stage' = "uvpt"
             /\ TypePart' /\ LinePart' /\ HeaderPart' /\ SegPart' /\ ReadPart' /\ KernelPart'
             /\ Found(totalpages, basepages, ram)'
        ELSE stage' = "fault"
    BY <1>1, <1>2, <1>4, <1>7, <1>9, <2>1, <2>2, BehindKernel
  <2>4. CASE ~InBlock(b1, PGSIZE)
    <3>1. ~Room(img, ram)
      BY <1>5, <2>4 DEF InBlock
    <3> QED BY <1>fault, <2>3, <2>4, <3>1
  <2>5. CASE InBlock(b1, PGSIZE)
    <3>1. Clear(mem', ram, b1, PGSIZE)
      BY <1>5, <1>9, <2>3, <2>5, WroteZero
    <3>2. One' /\ Clear(mem, ram, Base1, PGSIZE)'
      BY <1>1, <1>4, <1>6, <2>1, <3>1 DEF One
    <3>3. AreaPart'
      BY <2>3, <2>5, <3>2 DEF AreaPart, Counted
    <3> QED BY <2>3, <2>5, <3>3 DEF BootInv
  <2> QED BY <2>4, <2>5
<1>11. CASE One /\ Dir(mem, ram, Base1)
  <2>1. areas' = <<Area1, Area2>> /\ nextfree' = Base3 /\ Store(KERNBASE + b2, sz, 0, "boot_alloc")
    BY <1>4, <1>8, <1>11, Zenon
  <2>2. img.end <= b2
    BY <1>4, <1>5
  <2>3. IF InBlock(b2, sz)
        THEN /\ Wrote(mem, mem', ram, b2, sz, 0) /\ stage' = "boot_alloc"
             /\ TypePart' /\ LinePart' /\ HeaderPart' /\ SegPart' /\ ReadPart' /\ KernelPart'
             /\ Found(totalpages, basepages, ram)'
        ELSE stage' = "fault"
    BY <1>1, <1>2, <1>4, <1>7, <1>9, <2>1, <2>2, BehindKernel
  <2>4. CASE ~InBlock(b2, sz)
    <3>1. ~Room(img, ram)
      BY <1>5, <2>4 DEF InBlock
    <3> QED BY <1>fault, <2>3, <2>4, <3>1
  <2>5. CASE InBlock(b2, sz)
    <3>1. Clear(mem', ram, b2, sz)
      BY <1>5, <1>9, <2>3, <2>5, WroteZero
    <3>2. Dir(mem', ram, b1)
      BY <1>4, <1>5, <1>9, <1>11, <2>3, <2>5, WroteDir
    <3>3. Two' /\ Dir(mem, ram, Base1)'
      BY <1>1, <1>4, <1>6, <2>1, <3>1, <3>2 DEF Two
    <3>4. AreaPart'
      BY <2>3, <2>5, <3>3 DEF AreaPart, Counted
    <3> QED BY <2>3, <2>5, <3>4 DEF BootInv
  <2> QED BY <2>4, <2>5
<1>12. CASE Two /\ Dir(mem, ram, Base1)
  <2>1. areas' = <<Area1, Area2, Area3>> /\ nextfree' = Base4 /\ Store(KERNBASE + b3, ENVSSIZE, 0, "page_init")
    BY <1>4, <1>8, <1>12, Zenon
  <2>2. img.end <= b3
    BY <1>4, <1>5
  <2>3. IF InBlock(b3, ENVSSIZE)
        THEN /\ Wrote(mem, mem', ram, b3, ENVSSIZE, 0) /\ stage' = "page_init"
             /\ TypePart' /\ LinePart' /\ HeaderPart' /\ SegPart' /\ ReadPart' /\ KernelPart'
             /\ Found(totalpages, basepages, ram)'
        ELSE stage' = "fault"
    BY <1>1, <1>2, <1>4, <1>7, <1>9, <2>1, <2>2, BehindKernel
  <2>4. CASE ~InBlock(b3, ENVSSIZE)
    <3>1. ~Room(img, ram)
      BY <1>5, <2>4 DEF InBlock
    <3> QED BY <1>fault, <2>3, <2>4, <3>1
  <2>5. CASE InBlock(b3, ENVSSIZE)
    <3>1. Clear(mem', ram, b3, ENVSSIZE)
      BY <1>5, <1>9, <2>3, <2>5, WroteZero
    <3>2. Dir(mem', ram, b1)
      <4>1. b1 + PGSIZE <= b3
        BY <1>4, <1>9
      <4> QED BY <1>4, <1>5, <1>9, <1>12, <2>3, <2>5, <4>1, WroteDir
    <3>3. Clear(mem', ram, b2, sz)
      <4>1. Clear(mem, ram, b2, sz)
        BY <1>4, <1>12 DEF Two
      <4> QED BY <1>4, <1>5, <1>9, <2>3, <2>5, <4>1, WroteClear
    <3>4. Three' /\ Dir(mem, ram, Base1)'
      BY <1>1, <1>4, <1>6, <2>1, <3>1, <3>2, <3>3 DEF Three
    <3>5. AreaPart'
      BY <2>3, <2>5, <3>4 DEF AreaPart, Counted
    <3> QED BY <2>3, <2>5, <3>5 DEF BootInv
  <2> QED BY <2>4, <2>5
<1>13. None \/ (One /\ Dir(mem, ram, Base1)) \/ (Two /\ Dir(mem, ram, Base1))
  BY <1>1 DEF BootInv, AreaPart
<1> QED BY <1>10, <1>11, <1>12, <1>13

(* kern_pgdir's entry at UVPT.                                             *)
LEMMA UvptInv ==
  ASSUME BootInv, map_uvpt
  PROVE  BootInv'
<1>1. /\ UNCHANGED <<img, ram, cpu, ld, disk, kbc, totalpages, basepages, nextfree, areas>> /\ stage = "uvpt"
      /\ Store(KERNBASE + areas[1].pa + UVPTSLOT, 1, Pde(areas[1].pa), "boot_alloc")
  BY DEF map_uvpt, loader, kernel
<1>2. stage \in Counted /\ img \in Images /\ ram \in Memories /\ totalpages \in Nat
  BY <1>1 DEF Counted, BootInv, TypePart
<1>3. Found(totalpages, basepages, ram) /\ One /\ Clear(mem, ram, Base1, PGSIZE)
  BY <1>1, <1>2 DEF BootInv, AreaPart
<1>4. PICK end, b, u \in Nat :
        /\ end = img.end /\ b = Base1 /\ u = UVPTSLOT /\ u < PGSIZE
        /\ end <= b /\ b + PGSIZE <= TOP
  <2>1. PICK end \in Nat : end = img.end
    BY <1>2, LinkedImage
  <2>2. /\ Base1 \in Nat /\ Base2 \in Nat /\ Base3 \in Nat /\ Base4 \in Nat
        /\ img.end <= Base1 /\ Base1 + PGSIZE <= Base2
        /\ totalpages * PAGEINFO \in Nat /\ Base2 + totalpages * PAGEINFO <= Base3
        /\ Base3 + ENVSSIZE <= Base4 /\ (Room(img, ram) => Base4 <= TOP)
    BY <1>2, <1>3, Fits, Zenon
  <2>3. Base1 + PGSIZE <= TOP
    BY <1>3, Consts DEF Clear
  <2>4. UVPTSLOT \in Nat /\ UVPTSLOT < PGSIZE
    BY BootAssumption, Consts
  <2> QED BY <2>1, <2>2, <2>3, <2>4, Zenon
<1>5. areas[1].pa = b
  BY <1>3, <1>4 DEF One, Area1
<1>6. PICK x, v \in Nat : x = b + u /\ v = Pde(b) /\ end <= x /\ x < TOP /\ x + 1 <= TOP
  BY <1>4, Consts DEF Pde
<1>7. Store(KERNBASE + x, 1, v, "boot_alloc")
  <2>1. KERNBASE + b + u = KERNBASE + x
    BY <1>4, <1>6, Consts
  <2> QED BY <1>1, <1>4, <1>5, <1>6, <2>1, Zenon
<1>8. "boot_alloc" \in Counted /\ 1 \in Nat /\ v \in Int /\ img.end <= x
  BY <1>4, <1>6 DEF Counted
<1>block. InBlock(x, 1)
  BY <1>6 DEF InBlock
<1>9. /\ Wrote(mem, mem', ram, x, 1, v) /\ stage' = "boot_alloc"
      /\ TypePart' /\ LinePart' /\ HeaderPart' /\ SegPart' /\ ReadPart' /\ KernelPart'
      /\ Found(totalpages, basepages, ram)'
  BY <1>1, <1>2, <1>6, <1>7, <1>8, <1>block, BehindKernel
<1>10. Dir(mem', ram, b)
  <2>1. Wrote(mem, mem', ram, b + UVPTSLOT, 1, Pde(b)) /\ Clear(mem, ram, b, PGSIZE)
    BY <1>3, <1>4, <1>6, <1>9, Zenon
  <2>2. ram \in Nat
    BY <1>2, LinkedFits
  <2> QED BY <1>4, <2>1, <2>2, WroteUvpt
<1>11. One' /\ Dir(mem, ram, Base1)'
  <2>1. Base1' = Base1 /\ Base2' = Base2 /\ Area1' = Area1
    BY <1>1, FrameBases
  <2> QED BY <1>1, <1>3, <1>4, <1>10, <2>1 DEF One
<1>12. AreaPart'
  BY <1>9, <1>11 DEF AreaPart, Counted
<1> QED BY <1>9, <1>12 DEF BootInv

-----------------------------------------------------------------------------
(* Every step keeps the invariant.                                         *)
LEMMA StepInv == BootInv /\ [BootNext]_bootvars => BootInv' \/ Faulted'
<1> SUFFICES ASSUME BootInv, [BootNext]_bootvars PROVE BootInv' \/ Faulted'
  OBVIOUS
<1>1. CASE seta20_1 \/ seta20_2
  BY <1>1, SetA20Inv
<1>2. CASE protcseg
  BY <1>2, ProtInv
<1>3. CASE readseg_loop
  BY <1>3, LoopInv
<1>4. CASE readsect_cmd
  BY <1>4, CmdInv
<1>5. CASE readsect_data
  BY <1>5, DataInv
<1>6. CASE bootmain
  BY <1>6, MainInv
<1>7. CASE entry
  BY <1>7, EntryInv
<1>8. CASE entry_paging \/ entry_jump
  BY <1>8, PagingInv
<1>9. CASE relocated
  BY <1>9, RelocatedInv
<1>10. CASE i386_init
  BY <1>10, BssInv
<1>11. CASE i386_detect_memory
  BY <1>11, DetectInv
<1>12. CASE mem_init_alloc
  BY <1>12, AllocInv
<1>13. CASE map_uvpt
  BY <1>13, UvptInv
<1>14. CASE KbcStep
  BY <1>14, KbcInv
<1>15. CASE DiskStep
  BY <1>15, DiskInv
<1>16. CASE UNCHANGED bootvars
  <2>1. UNCHANGED <<img, ram, mem, stage, cpu, ld, disk, kbc, kernel>>
    BY <1>16 DEF bootvars, loader
  <2>2. HeaderPart' /\ SegPart'
    BY <2>1, FrameLoad DEF BootInv
  <2>3. KernelPart'
    BY <2>1, FrameKernel DEF BootInv
  <2>4. AreaPart'
    BY <2>1, FrameArea DEF BootInv
  <2>5. ReadPart'
    BY <2>1 DEF BootInv, ReadPart
  <2>6. LinePart'
    BY <2>1 DEF BootInv, LinePart, InKernel
  <2>7. TypePart'
    BY <2>1 DEF BootInv, TypePart, kernel
  <2> QED BY <2>2, <2>3, <2>4, <2>5, <2>6, <2>7 DEF BootInv
<1> QED
  BY <1>1, <1>2, <1>3, <1>4, <1>5, <1>6, <1>7, <1>8, <1>9, <1>10, <1>11, <1>12, <1>13, <1>14,
     <1>15, <1>16, Zenon DEF BootNext, Cpu

(* After a fault the processor does nothing more.                          *)
LEMMA FaultedInv == Faulted /\ [BootNext]_bootvars => Faulted'
<1> SUFFICES ASSUME Faulted, [BootNext]_bootvars PROVE Faulted'
  OBVIOUS
<1>1. ~Cpu
  BY DEF Faulted, Cpu, seta20_1, seta20_2, protcseg, readseg_loop, readsect_cmd, readsect_data,
         bootmain, entry, entry_paging, entry_jump, relocated, i386_init, i386_detect_memory,
         mem_init_alloc, map_uvpt
<1>2. UNCHANGED <<img, ram, stage>>
  BY <1>1 DEF BootNext, KbcStep, DiskStep, bootvars
<1> QED BY <1>2 DEF Faulted, Room

(* The boot, from the BIOS to page_init, stays in its invariant: readseg   *)
(* puts every sector where the program header says, the kernel's stores    *)
(* stay off its code and data, and mem_init takes its areas one behind the *)
(* other; only for memory whose pages[] entry_pgdir does not map does it   *)
(* fault instead.                                                          *)
THEOREM Invariance == BootSpec => [](BootInv \/ Faulted)
<1>1. BootInit => BootInv
  BY InitInv
<1>2. (BootInv \/ Faulted) /\ [BootNext]_bootvars => (BootInv \/ Faulted)'
  BY StepInv, FaultedInv
<1> QED BY <1>1, <1>2, PTL DEF BootSpec

(* i386_detect_memory (kern/pmap.c) counts no page that the machine does   *)
(* not have, from what the CMOS holds in two bytes each, and misses less   *)
(* than a page, or than 64K above 16MB.                                    *)
THEOREM MemoryIsFound == BootSpec => []MemoryFound
<1>0. Faulted => MemoryFound
  BY DEF Faulted, MemoryFound
<1>1. BootInv => MemoryFound
  <2> SUFFICES ASSUME BootInv, stage \in {"boot_alloc", "page_init"}
               PROVE  Found(totalpages, basepages, ram)
    BY DEF MemoryFound, Found
  <2>1. stage \in Counted
    BY DEF Counted
  <2> QED BY <2>1 DEF BootInv, AreaPart
<1> QED BY <1>0, <1>1, Invariance, PTL

(* No fetch and no store from entry (kern/entry.S) to page_init meets an   *)
(* address that entry_pgdir does not map, but for mem_init on a machine    *)
(* whose pages[] does not fit below 4MB, and bootmain reads no program     *)
(* header but the file's.                                                  *)
THEOREM NoFault == BootSpec => []NeverFaults
<1>0. Faulted => NeverFaults
  BY DEF Faulted, NeverFaults, InKernel
<1>1. BootInv => NeverFaults
  <2> SUFFICES ASSUME BootInv PROVE NeverFaults
    OBVIOUS
  <2>1. stage \notin {"fault", "lost"}
    BY DEF BootInv, TypePart, Loading, Mapped
  <2>2. ASSUME InKernel
        PROVE  Translated(cpu.eip).p /\ Translated(cpu.eip).pa \in Addrs
    <3>1. kbc.a20 /\ cpu.eip = Eip(img) /\ img \in Images /\ (cpu.pg <=> stage \in Mapped)
      BY <2>2 DEF BootInv, LinePart, KernelPart, TypePart
    <3>2. PICK e \in Nat : e = img.entry /\ e + 2 < TOP
      BY <3>1, LinkedImage
    <3>3. ASSUME NEW y \in Nat, y < TOP, cpu.pg, cpu.eip = KERNBASE + y
          PROVE  Translated(cpu.eip).p /\ Translated(cpu.eip).pa \in Addrs
      <4>1. Translated(KERNBASE + y) = [p |-> TRUE, w |-> TRUE, pa |-> y] /\ y \in Addrs
        BY <3>1, <3>3, HighTranslate
      <4>2. Translated(KERNBASE + y).p /\ Translated(KERNBASE + y).pa \in Addrs
        BY <4>1
      <4> QED BY <3>3, <4>2, Zenon
    <3>4. CASE stage \in {"entry", "paging", "jump"}
      <4>1. cpu.eip = e
        BY <3>1, <3>2, <3>4 DEF Eip
      <4>2. e < TOP
        BY <3>2, Consts
      <4>3. Translated(e).p /\ Translated(e).pa = e /\ e \in Addrs
        BY <3>1, <3>2, <4>2, LowTranslate
      <4> QED BY <4>1, <4>3, Zenon
    <3>5. CASE stage = "relocated"
      <4>1. PICK y \in Nat : y = e + 1 /\ y < TOP
        BY <3>2, Consts
      <4>2. cpu.eip = KERNBASE + y
        <5>1. cpu.eip = KERNBASE + img.entry + 1
          BY <3>1, <3>5 DEF Eip
        <5>2. KERNBASE + e + 1 = KERNBASE + y
          BY <3>2, <4>1, Consts
        <5> QED BY <3>2, <5>1, <5>2, Zenon
      <4>3. cpu.pg
        BY <3>1, <3>5 DEF Mapped
      <4> QED BY <3>3, <4>1, <4>2, <4>3
    <3>6. CASE stage \in {"i386_init", "detect", "boot_alloc", "uvpt", "page_init"}
      <4>1. PICK y \in Nat : y = e + 2 /\ y < TOP
        BY <3>2, Consts
      <4>2. cpu.eip = KERNBASE + y
        <5>1. cpu.eip = KERNBASE + img.entry + 2
          BY <3>1, <3>6 DEF Eip
        <5>2. KERNBASE + e + 2 = KERNBASE + y
          BY <3>2, <4>1, Consts
        <5> QED BY <3>2, <5>1, <5>2, Zenon
      <4>3. cpu.pg
        BY <3>1, <3>6 DEF Mapped
      <4> QED BY <3>3, <4>1, <4>2, <4>3
    <3> QED BY <2>2, <3>4, <3>5, <3>6 DEF InKernel
  <2> QED BY <2>1, <2>2 DEF NeverFaults
<1> QED BY <1>0, <1>1, Invariance, PTL

(* bootmain's segments are in memory, byte for byte, when the kernel runs, *)
(* and no store of the kernel up to page_init hits its code and data; the  *)
(* bss is zero from i386_init's memset on.                                 *)
THEOREM KernelStays == BootSpec => []KernelInPlace
<1>0. Faulted => KernelInPlace
  BY DEF Faulted, KernelInPlace, InKernel
<1>1. BootInv => KernelInPlace
  <2> SUFFICES ASSUME BootInv PROVE KernelInPlace
    OBVIOUS
  <2>1. InKernel => Kept(img, mem)
    BY DEF BootInv, KernelPart
  <2>2. stage \in {"detect", "boot_alloc", "uvpt", "page_init"} => Clear(mem, ram, img.edata, img.end - img.edata)
    BY DEF BootInv, KernelPart, Cleared
  <2>3. Clear(mem, ram, img.edata, img.end - img.edata) => \A a \in img.edata .. img.end - 1 : mem[a] = 0
    <3>1. img \in Images
      BY DEF BootInv, TypePart
    <3>2. PICK edata, end \in Nat : edata = img.edata /\ end = img.end
      BY <3>1, LinkedImage
    <3>3. edata + (end - edata) - 1 = end - 1
      BY <3>2
    <3>4. ram \in Nat /\ end <= ram
      BY <3>1, <3>2, LinkedFits DEF BootInv, TypePart
    <3>5. \A a \in edata .. end - 1 : a < ram
      BY <3>2, <3>4
    <3> QED BY <3>2, <3>3, <3>5, Zenon DEF Clear
  <2> QED BY <2>1, <2>2, <2>3, Zenon DEF KernelInPlace, Kept, KeptByte
<1> QED BY <1>0, <1>1, Invariance, PTL

(* The areas that boot_alloc returns to mem_init (kern/pmap.c) lie behind  *)
(* the kernel, each in pages of its own.  When page_init runs, every byte  *)
(* of them that the machine has is clear, but for the entry of kern_pgdir  *)
(* at UVPT.  That the machine has them all is not so: boot_alloc does not  *)
(* look (OutOfMemory, violated in the run boot_small).                     *)
THEOREM AreasApart == BootSpec => []BootAreas
<1>0. Faulted => BootAreas
  BY DEF Faulted, BootAreas
<1>1. BootInv => BootAreas
  <2> SUFFICES ASSUME BootInv, stage = "page_init" PROVE BootAreas
    BY DEF BootAreas
  <2>1. stage \in Counted /\ img \in Images /\ ram \in Memories /\ totalpages \in Nat
    BY DEF Counted, BootInv, TypePart
  <2>2. Found(totalpages, basepages, ram) /\ Three /\ Dir(mem, ram, Base1)
    BY <2>1 DEF BootInv, AreaPart
  <2>3. PICK end, b1, b2, b3, b4, sz \in Nat :
          /\ end = img.end /\ b1 = Base1 /\ b2 = Base2 /\ b3 = Base3 /\ b4 = Base4
          /\ sz = totalpages * PAGEINFO
          /\ end <= b1 /\ b1 + PGSIZE <= b2 /\ b2 + sz <= b3 /\ b3 + ENVSSIZE <= b4
    <3>1. PICK end \in Nat : end = img.end
      BY <2>1, LinkedImage
    <3>2. /\ Base1 \in Nat /\ Base2 \in Nat /\ Base3 \in Nat /\ Base4 \in Nat
          /\ img.end <= Base1 /\ Base1 + PGSIZE <= Base2
          /\ totalpages * PAGEINFO \in Nat /\ Base2 + totalpages * PAGEINFO <= Base3
          /\ Base3 + ENVSSIZE <= Base4
      BY <2>1, <2>2, Fits, Zenon
    <3> QED BY <3>1, <3>2, Zenon
  <2>4. PICK c1, c2, c3 \in Nat : b1 = PGSIZE * c1 /\ b2 = PGSIZE * c2 /\ b3 = PGSIZE * c3
    <3>1. PICK c1 \in Nat : b1 = PGSIZE * c1
      BY <2>3, RoundUp DEF Base1
    <3>2. PICK d1 \in Nat : PGROUNDUP(PGSIZE) = PGSIZE * d1
      BY RoundUp, Consts
    <3>3. PICK d2 \in Nat : PGROUNDUP(sz) = PGSIZE * d2
      BY <2>3, RoundUp
    <3>4. PICK x1, y1, y2 \in Nat : x1 = PGSIZE * c1 /\ y1 = PGSIZE * d1 /\ y2 = PGSIZE * d2
      BY <3>1, <3>2, <3>3, Consts
    <3>5. PGSIZE * (c1 + d1) = x1 + y1
      BY <3>4, Consts
    <3>6. PGSIZE * ((c1 + d1) + d2) = x1 + y1 + y2
      BY <3>4, <3>5, Consts
    <3>7. b2 = x1 + y1 /\ b3 = x1 + y1 + y2
      BY <2>3, <3>1, <3>2, <3>3, <3>4, Zenon DEF Base2, Base3
    <3>8. c1 + d1 \in Nat /\ (c1 + d1) + d2 \in Nat
      BY <3>1, <3>2, <3>3
    <3> QED BY <3>1, <3>5, <3>6, <3>7, <3>8, Zenon
  <2>5. b1 % PGSIZE = 0 /\ b2 % PGSIZE = 0 /\ b3 % PGSIZE = 0
    <3>1. ASSUME NEW c \in Nat PROVE (PGSIZE * c) % PGSIZE = 0
      <4>1. (PGSIZE * c + 0) % PGSIZE = 0
        BY DivUnique, Consts
      <4>2. PGSIZE * c + 0 = PGSIZE * c
        BY Consts
      <4> QED BY <4>1, <4>2
    <3> QED BY <2>4, <3>1
  <2>6. PGROUNDUP(b1 + PGSIZE) = b2 /\ PGROUNDUP(b2 + sz) = b3
    <3>1. PGROUNDUP(PGSIZE * c1 + PGSIZE) = PGSIZE * c1 + PGROUNDUP(PGSIZE)
      BY <2>4, RoundUpShift, Consts
    <3>2. PGROUNDUP(PGSIZE * c2 + sz) = PGSIZE * c2 + PGROUNDUP(sz)
      BY <2>3, <2>4, RoundUpShift
    <3> QED BY <2>3, <2>4, <3>1, <3>2, Zenon DEF Base2, Base3
  <2>7. /\ areas = <<Area1, Area2, Area3>> /\ nextfree = b4
        /\ Clear(mem, ram, b2, sz) /\ Clear(mem, ram, b3, ENVSSIZE) /\ Dir(mem, ram, b1)
    BY <2>2, <2>3, Zenon DEF Three
  <2>8. /\ DOMAIN areas = 1 .. 3 /\ areas[1] = Area1 /\ areas[2] = Area2 /\ areas[3] = Area3
    BY <2>7
  <2>9. /\ areas[1].pa = b1 /\ areas[1].n = PGSIZE /\ areas[2].pa = b2 /\ areas[2].n = sz
        /\ areas[3].pa = b3 /\ areas[3].n = ENVSSIZE
    BY <2>3, <2>8 DEF Area1, Area2, Area3
  <2>10. ASSUME NEW lo \in Nat, NEW n \in Nat, Clear(mem, ram, lo, n), NEW k \in 0 .. n - 1,
                lo + k < ram
         PROVE  mem[lo + k] = 0
    <3>1. lo + k \in lo .. lo + n - 1
      OBVIOUS
    <3> QED BY <2>10, <3>1 DEF Clear
  <2>11. ASSUME NEW n \in DOMAIN areas
         PROVE  /\ \A k \in 0 .. areas[n].n - 1 : areas[n].pa + k < ram =>
                     mem[areas[n].pa + k] = IF n = 1 /\ k = UVPTSLOT THEN Pde(areas[n].pa) ELSE 0
                /\ areas[n].pa >= img.end /\ areas[n].pa % PGSIZE = 0
                /\ areas[n].pa + areas[n].n <= nextfree
    <3>1. CASE n = 1
      <4>1. \A k \in 0 .. PGSIZE - 1 : b1 + k < ram => mem[b1 + k] = IF k = UVPTSLOT THEN Pde(b1) ELSE 0
        BY <2>7 DEF Dir
      <4>2. b1 >= img.end /\ b1 + PGSIZE <= nextfree
        BY <2>3, <2>7, Consts
      <4> QED BY <2>5, <2>9, <3>1, <4>1, <4>2
    <3>2. CASE n = 2
      <4>1. \A k \in 0 .. sz - 1 : b2 + k < ram => mem[b2 + k] = 0
        BY <2>3, <2>7, <2>10
      <4>2. b2 >= img.end /\ b2 + sz <= nextfree
        BY <2>3, <2>7, Consts
      <4> QED BY <2>5, <2>9, <3>2, <4>1, <4>2
    <3>3. CASE n = 3
      <4>1. \A k \in 0 .. ENVSSIZE - 1 : b3 + k < ram => mem[b3 + k] = 0
        BY <2>3, <2>7, <2>10, Consts
      <4>2. b3 >= img.end /\ b3 + ENVSSIZE <= nextfree
        BY <2>3, <2>7, Consts
      <4> QED BY <2>5, <2>9, <3>3, <4>1, <4>2
    <3> QED BY <2>8, <3>1, <3>2, <3>3
  <2>12. ASSUME NEW n \in DOMAIN areas, NEW k \in DOMAIN areas, n < k
         PROVE  PGROUNDUP(areas[n].pa + areas[n].n) <= areas[k].pa
    <3>1. b2 <= b3
      BY <2>3
    <3>2. CASE n = 1
      <4>1. PGROUNDUP(areas[n].pa + areas[n].n) = b2
        BY <2>6, <2>9, <3>2, Zenon
      <4>2. areas[k].pa = b2 \/ areas[k].pa = b3
        BY <2>8, <2>9, <2>12, <3>2
      <4> QED BY <2>3, <3>1, <4>1, <4>2
    <3>3. CASE n = 2
      <4>1. PGROUNDUP(areas[n].pa + areas[n].n) = b3
        BY <2>6, <2>9, <3>3, Zenon
      <4>2. areas[k].pa = b3
        BY <2>8, <2>9, <2>12, <3>3
      <4> QED BY <2>3, <4>1, <4>2
    <3> QED BY <2>8, <2>12, <3>2, <3>3
  <2> QED BY <2>11, <2>12, Zenon DEF BootAreas
<1> QED BY <1>0, <1>1, Invariance, PTL

=============================================================================
