-------------------------------- MODULE Boot --------------------------------
(***************************************************************************)
(* From the BIOS to page_init: the boot loader (boot/boot.S, boot/main.c), *)
(* the kernel's entry (kern/entry.S) on the page directory of              *)
(* kern/entrypgdir.c, the start of i386_init, and the start of mem_init:   *)
(* i386_detect_memory and the calls of boot_alloc.                         *)
(*                                                                         *)
(* The keyboard controller, which drives address line 20, and the disk     *)
(* work at their own pace.  Physical memory is a function from addresses   *)
(* to bytes; a byte tells where it comes from: Junk is what memory came up *)
(* with, File(k) is byte k of the kernel's file.                           *)
(***************************************************************************)
EXTENDS Strings, FiniteSets

CONSTANTS
  TOP,           \* the memory that is modelled: addresses below TOP
  SECTSIZE, PGSIZE, ENTRIES,
  HDRSECTS,      \* the sectors that bootmain reads as the header, 8
  ELFHDR, WARM,  \* 0x10000, and 0x472, the BIOS's warm boot flag
  A20,           \* 1MB: the address that line 20 stands for
  KERNBASE,
  Images,        \* the kernels on disk, see Image
  Memories,      \* the sizes of the machine's memory, in bytes
  BASEMEM,       \* 640K
  EXTPHYS,       \* 1MB, where the extended memory begins
  EXT16PHYS,     \* 16MB
  EXT16UNIT,     \* 64K, the unit of the size of the memory above 16MB
  EXTCAP,        \* the most that the CMOS can say in NVRAM_EXTLO
  BYTE,          \* 2^8, the range of a register of the CMOS
  PAGEINFO, ENVSSIZE,  \* sizeof(struct PageInfo), NENV * sizeof(struct Env)
  UVPTSLOT       \* PDX(UVPT), where kern_pgdir maps itself

(* A kernel: whether its magic number is right; the program headers, where *)
(* the file holds filesz of the memsz bytes; and the addresses of entry,   *)
(* relocated and i386_init, of bootstacktop, edata and end.  entry and the *)
(* rest of the code are one byte each.                                     *)
Segment == [pa : Nat, filesz : Nat, memsz : Nat, offset : Nat]
Image == [magic : BOOLEAN, segs : Seq(Segment), entry : Nat, stacktop : Nat,
          edata : Nat, end : Nat]
SectorOf(a) == a \div SECTSIZE

(* What a linker makes with kern/kernel.ld: an address and its offset in   *)
(* the file are the same within a sector, the segments are in increasing   *)
(* order, and two segments with bytes in one sector of memory have them in *)
(* one sector of the file.                                                 *)
WellLinked(g) ==
  /\ \A n \in 1 .. Len(g.segs) :
       LET s == g.segs[n]
       IN  /\ s.pa % SECTSIZE = s.offset % SECTSIZE /\ s.filesz <= s.memsz
           /\ s.pa + s.memsz <= TOP /\ s.pa >= A20
           /\ \A m \in 1 .. n - 1 :
                LET r == g.segs[m]
                IN  /\ r.pa + r.memsz <= s.pa
                    /\ SectorOf(r.pa + r.memsz - 1) = SectorOf(s.pa)
                         => s.pa - r.pa = s.offset - r.offset
  /\ A20 <= g.edata /\ g.edata <= g.end /\ g.end < TOP
  /\ g.entry + 2 < TOP /\ 0 < g.stacktop /\ g.stacktop <= TOP

PGROUNDUP(n) == ((n + PGSIZE - 1) \div PGSIZE) * PGSIZE
ROUNDDOWN(n, d) == n - (n % d)

(* The kernel g, with its bss, is no larger than a memory of m bytes.      *)
Loadable(g, m) ==
  g.end <= m /\ \A n \in DOMAIN g.segs : g.segs[n].pa + g.segs[n].memsz <= m

(* What entry_pgdir maps has room for what mem_init takes with boot_alloc, *)
(* which does not check it.                                                *)
Room(g, m) ==
  PGROUNDUP(g.end) + PGROUNDUP(PGSIZE) + PGROUNDUP((m \div PGSIZE) * PAGEINFO)
    + PGROUNDUP(ENVSSIZE) <= TOP

ASSUME BootAssumption ==
  /\ {SECTSIZE, PGSIZE, ENTRIES, HDRSECTS, A20, ENVSSIZE, EXT16UNIT, BYTE} \subseteq Nat \ {0}
  /\ {TOP, ELFHDR, WARM, KERNBASE, UVPTSLOT, PAGEINFO} \subseteq Nat
  /\ {BASEMEM, EXTPHYS, EXT16PHYS, EXTCAP} \subseteq Nat
  /\ PGSIZE % SECTSIZE = 0 /\ A20 % SECTSIZE = 0 /\ ELFHDR % SECTSIZE = 0
  /\ ELFHDR + SECTSIZE * HDRSECTS <= A20 /\ WARM < A20 /\ A20 <= TOP
  /\ KERNBASE % (PGSIZE * ENTRIES) = 0
  /\ KERNBASE \div (PGSIZE * ENTRIES) \in 1 .. ENTRIES - 1
  /\ TOP <= PGSIZE * ENTRIES /\ UVPTSLOT < PGSIZE
  /\ Images \subseteq Image /\ \A g \in Images : WellLinked(g)
  /\ BASEMEM <= EXTPHYS /\ EXTPHYS < EXT16PHYS /\ EXT16PHYS <= EXTPHYS + EXTCAP
  /\ Memories \subseteq Nat
  /\ \A m \in Memories : A20 <= m /\ (m <= BASEMEM \/ m > EXTPHYS)
  /\ \A g \in Images, m \in Memories : Loadable(g, m)

Addrs == 0 .. TOP - 1
Junk  == -1
File(k) == 100 + k
NoPte == [p |-> FALSE, w |-> FALSE, pa |-> 0]

VARIABLES
  img, ram,     \* the kernel on disk, and the size of memory
  mem,
  kbc,          \* the keyboard controller
  disk,         \* the disk: busy, and the sector it was asked for
  stage,
  cpu,          \* eip, esp, PE and PG of %cr0
  ld,           \* the local variables of bootmain and readseg
  totalpages, basepages,   \* npages and npages_basemem
  nextfree,
  areas         \* what boot_alloc has returned

loader == <<ld, disk, kbc>>
kernel == <<totalpages, basepages, nextfree, areas>>
bootvars == <<img, ram, mem, stage, cpu, loader, kernel>>

BootInit ==
  /\ img \in Images /\ ram \in Memories
  /\ mem = [a \in Addrs |-> Junk]
  /\ \E b \in BOOLEAN : kbc = [busy |-> b, in |-> "none", cmd |-> "none", a20 |-> FALSE]
  /\ \E b \in BOOLEAN : disk = [busy |-> b, sect |-> 0]
  /\ stage = "seta20.1" /\ cpu = [eip |-> 0, esp |-> 0, pe |-> FALSE, pg |-> FALSE]
  /\ ld = [pa |-> 0, end_pa |-> 0, sect |-> 0, ph |-> 0]
  /\ totalpages = 0 /\ basepages = 0 /\ nextfree = 0 /\ areas = << >>

-----------------------------------------------------------------------------
(* A write to port 0x60 or 0x64: the controller does not take it while it  *)
(* is busy.                                                                *)
kbc_write(v) == IF kbc.busy THEN kbc ELSE [kbc EXCEPT !.busy = TRUE, !.in = v]

(* inb $0x64; testb $0x2: the loops end when this holds.                   *)
kbc_ready == ~kbc.busy

seta20_1 ==
  /\ stage = "seta20.1" /\ kbc_ready
  /\ kbc' = kbc_write("d1") /\ stage' = "seta20.2"
  /\ UNCHANGED <<img, ram, mem, cpu, ld, disk, kernel>>

seta20_2 ==
  /\ stage = "seta20.2" /\ kbc_ready
  /\ kbc' = kbc_write("df") /\ stage' = "protcseg"
  /\ UNCHANGED <<img, ram, mem, cpu, ld, disk, kernel>>

(* readseg(pa, count, offset), up to its loop.                             *)
readseg(pa, count, offset) ==
  [ld EXCEPT !.pa = ROUNDDOWN(pa, SECTSIZE), !.end_pa = pa + count,
             !.sect = (offset \div SECTSIZE) + 1]

(* The switch to protected mode, with a flat code and a flat data segment; *)
(* bootmain reads the first page of the file.                              *)
protcseg ==
  /\ stage = "protcseg"
  /\ cpu' = [cpu EXCEPT !.pe = TRUE]
  /\ ld' = readseg(ELFHDR, SECTSIZE * HDRSECTS, 0)
  /\ stage' = "readseg"
  /\ UNCHANGED <<img, ram, mem, disk, kbc, kernel>>

(* The controller carries out what it was given.                           *)
KbcStep ==
  /\ kbc.busy
  /\ kbc' = [busy |-> FALSE, in |-> "none",
             cmd |-> IF kbc.in = "d1" THEN "d1" ELSE "none",
             a20 |-> kbc.a20 \/ (kbc.in = "df" /\ kbc.cmd = "d1")]
  /\ UNCHANGED <<img, ram, mem, stage, cpu, ld, disk, kernel>>

-----------------------------------------------------------------------------
(* Memory after stores that would make it b.  The addresses from ram on    *)
(* have nothing behind them: a store to one is lost, and what is read      *)
(* there is junk.                                                          *)
Stored(b) == [a \in Addrs |-> IF a < ram THEN b[a] ELSE Junk]

(* Where a store goes while paging is off: address line 20 may be tied low.*)
Line20(a) == IF kbc.a20 \/ (a \div A20) % 2 = 0 THEN a ELSE a - A20

(* The loop of readseg: the next sector, or the end.                       *)
readseg_loop ==
  /\ stage = "readseg"
  /\ stage' = IF ld.pa < ld.end_pa THEN "readsect" ELSE "bootmain"
  /\ UNCHANGED <<img, ram, mem, cpu, loader, kernel>>

(* Mutant: the data is read when the command has been given.               *)
disk_ready_always == TRUE

(* What waitdisk waits for.                                                *)
disk_ready == ~disk.busy

(* readsect gives the disk a command,                                      *)
readsect_cmd ==
  /\ stage = "readsect" /\ disk_ready
  /\ disk' = [busy |-> TRUE, sect |-> ld.sect]
  /\ stage' = "insl"
  /\ UNCHANGED <<img, ram, mem, cpu, ld, kbc, kernel>>

(* and takes the sector when it is ready.  Sector 0 is the boot loader.    *)
readsect_data ==
  /\ stage = "insl" /\ disk_ready
  /\ LET dst == {Line20(ld.pa + k) : k \in 0 .. SECTSIZE - 1}
         at(a) == (CHOOSE k \in 0 .. SECTSIZE - 1 : Line20(ld.pa + k) = a)
     IN  mem' = Stored([a \in Addrs |->
                          IF a \notin dst THEN mem[a]
                          ELSE IF disk.busy THEN Junk
                          ELSE File((disk.sect - 1) * SECTSIZE + at(a))])
  /\ ld' = [ld EXCEPT !.pa = @ + SECTSIZE, !.sect = @ + 1]
  /\ stage' = "readseg"
  /\ UNCHANGED <<img, ram, cpu, disk, kbc, kernel>>

(* The disk has the sector.  boot.S does not wait for the controller to    *)
(* take 0xdf; that it is faster than the first read of the disk is assumed.*)
DiskStep ==
  /\ disk.busy /\ (stage = "insl" => ~kbc.busy)
  /\ disk' = [disk EXCEPT !.busy = FALSE]
  /\ UNCHANGED <<img, ram, mem, stage, cpu, ld, kbc, kernel>>

(* Mutant: only the bytes that are in the file are asked for, and the      *)
(* address is that of the header.                                          *)
next_seg_same(s) == readseg(s.pa, s.filesz, 0)

(* The segment that bootmain reads next: as many bytes as it has in memory.*)
next_seg(s) == readseg(s.pa, s.memsz, s.offset)

(* bootmain, after a call of readseg: look at the magic number, read the   *)
(* next segment, or call e_entry.  The program headers and e_entry are     *)
(* those of the file as long as the header in memory is the file's.        *)
HeaderRead == \A k \in 0 .. SECTSIZE * HDRSECTS - 1 : mem[ELFHDR + k] = File(k)
bootmain ==
  /\ stage = "bootmain"
  /\ IF ld.ph = 0 /\ (mem[ELFHDR] # File(0) \/ ~img.magic)
     THEN stage' = "bad" /\ UNCHANGED <<cpu, ld>>
     ELSE IF ~HeaderRead THEN stage' = "lost" /\ UNCHANGED <<cpu, ld>>
     ELSE IF ld.ph < Len(img.segs)
     THEN /\ ld' = [next_seg(img.segs[ld.ph + 1]) EXCEPT !.ph = @ + 1]
          /\ stage' = "readseg" /\ UNCHANGED cpu
     ELSE /\ cpu' = [cpu EXCEPT !.eip = img.entry]
          /\ stage' = "entry" /\ UNCHANGED ld
  /\ UNCHANGED <<img, ram, mem, disk, kbc, kernel>>

-----------------------------------------------------------------------------
(* entrypgdir.c: one page table, which maps the first ENTRIES pages, at    *)
(* address 0 without PTE_W and at KERNBASE with it.                        *)
entry_pgtable == [j \in 0 .. ENTRIES - 1 |-> [p |-> TRUE, w |-> TRUE, pa |-> j * PGSIZE]]

(* Mutant: the first 4MB are mapped at KERNBASE only.                      *)
entry_pgdir_high ==
  [d \in 0 .. ENTRIES - 1 |-> IF d = KERNBASE \div (PGSIZE * ENTRIES)
                              THEN [p |-> TRUE, w |-> TRUE] ELSE [p |-> FALSE, w |-> FALSE]]

entry_pgdir ==
  [d \in 0 .. ENTRIES - 1 |->
     IF d = 0 THEN [p |-> TRUE, w |-> FALSE]
     ELSE IF d = KERNBASE \div (PGSIZE * ENTRIES) THEN [p |-> TRUE, w |-> TRUE]
     ELSE [p |-> FALSE, w |-> FALSE]]

(* The address translation of the processor.                               *)
Translated(va) ==
  LET d == va \div (PGSIZE * ENTRIES)
      t == entry_pgtable[(va \div PGSIZE) % ENTRIES]
  IN  IF ~cpu.pg THEN [p |-> TRUE, w |-> TRUE, pa |-> Line20(va)]
      ELSE IF d \notin DOMAIN entry_pgdir \/ ~entry_pgdir[d].p THEN NoPte
      ELSE [p |-> t.p, w |-> t.w /\ entry_pgdir[d].w,
            pa |-> Line20(t.pa + (va % PGSIZE))]

(* Stores of the value v to the n addresses from va on; a store that the   *)
(* MMU refuses is a fault, for which there is no handler yet.              *)
Storable(va, n) ==
  \A k \in 0 .. n - 1 : Translated(va + k).w /\ Translated(va + k).pa \in Addrs
Store(va, n, v, next) ==
  IF Storable(va, n)
  THEN mem' = Stored(memset(mem, Translated(va).pa, v, n)) /\ stage' = next
  ELSE UNCHANGED mem /\ stage' = "fault"

(* entry: set the warm boot flag, load %cr3, turn on paging, jump to the   *)
(* address that 'relocated' is linked at,                                  *)
entry ==
  /\ stage = "entry"
  /\ Store(WARM, 1, 1234, "paging")
  /\ UNCHANGED <<img, ram, cpu, loader, kernel>>

entry_paging ==
  /\ stage = "paging"
  /\ cpu' = [cpu EXCEPT !.pg = TRUE]
  /\ stage' = "jump"
  /\ UNCHANGED <<img, ram, mem, loader, kernel>>

entry_jump ==
  /\ stage = "jump"
  /\ cpu' = [cpu EXCEPT !.eip = KERNBASE + img.entry + 1]
  /\ stage' = "relocated"
  /\ UNCHANGED <<img, ram, mem, loader, kernel>>

(* and call i386_init on the boot stack.                                   *)
relocated ==
  /\ stage = "relocated"
  /\ cpu' = [cpu EXCEPT !.eip = KERNBASE + img.entry + 2,
                        !.esp = KERNBASE + img.stacktop - 1]
  /\ Store(KERNBASE + img.stacktop - 1, 1, Junk, "i386_init")
  /\ UNCHANGED <<img, ram, loader, kernel>>

bss_size == img.end - img.edata

(* i386_init clears the bss, into which readseg put bytes of the file.     *)
i386_init ==
  /\ stage = "i386_init"
  /\ Store(KERNBASE + img.edata, bss_size, 0, "detect")
  /\ UNCHANGED <<img, ram, cpu, loader, kernel>>

-----------------------------------------------------------------------------
(* What the BIOS leaves in the CMOS: the sizes of the base memory, of the  *)
(* memory above 1MB and of that above 16MB, each in two registers.         *)
Reg == [baselo |-> 0, extlo |-> 2, ext16lo |-> 4]
Min2(a, b) == IF a < b THEN a ELSE b
Above(a) == IF ram > a THEN ram - a ELSE 0
cmos ==
  LET v == << Min2(ram, BASEMEM), Min2(Above(EXTPHYS), EXTCAP), Above(EXT16PHYS) \div EXT16UNIT >>
  IN  [r \in 0 .. 5 |-> IF r % 2 = 0 THEN v[1 + r \div 2] % BYTE ELSE v[1 + r \div 2] \div BYTE]

mc146818_read(r) == cmos[r]
nvram_read(r) == mc146818_read(r) + BYTE * mc146818_read(r + 1)

(* Mutant: the memory above 16MB is added to that above 1MB.               *)
totalmem_added(basemem, extmem, ext16mem) ==
  IF extmem > 0 THEN EXTPHYS + extmem + ext16mem ELSE basemem

totalmem(basemem, extmem, ext16mem) ==
  IF ext16mem > 0 THEN EXT16PHYS + ext16mem
  ELSE IF extmem > 0 THEN EXTPHYS + extmem
  ELSE basemem

i386_detect_memory ==
  /\ stage = "detect"
  /\ LET basemem == nvram_read(Reg.baselo)
     IN  /\ totalpages' = totalmem(basemem, nvram_read(Reg.extlo),
                                   nvram_read(Reg.ext16lo) * EXT16UNIT) \div PGSIZE
         /\ basepages' = basemem \div PGSIZE
  /\ stage' = "boot_alloc"
  /\ UNCHANGED <<img, ram, mem, cpu, loader, nextfree, areas>>

(* Mutant: the size is not rounded up to pages.                            *)
boot_alloc_packed(n) ==
  LET next == IF nextfree = 0 THEN img.end ELSE nextfree
  IN  [result |-> next, nextfree |-> next + n]

(* boot_alloc(n), as the physical address; it does not look at npages.     *)
boot_alloc(n) ==
  LET next == IF nextfree = 0 THEN PGROUNDUP(img.end) ELSE nextfree
  IN  [result |-> next, nextfree |-> next + PGROUNDUP(n)]

(* An entry of kern_pgdir: its own address.                                *)
Pde(pa) == 1000 + pa

(* mem_init takes kern_pgdir, pages and envs, and clears each; kern_pgdir  *)
(* gets its entry at UVPT.                                                 *)
sizes == << PGSIZE, totalpages * PAGEINFO, ENVSSIZE >>
mem_init_alloc ==
  /\ stage = "boot_alloc"
  /\ LET n == sizes[Len(areas) + 1]
         b == boot_alloc(n)
     IN  /\ nextfree' = b.nextfree
         /\ areas' = Append(areas, [pa |-> b.result, n |-> n])
         /\ Store(KERNBASE + b.result, n, 0,
                  CASE areas = << >> -> "uvpt"
                    [] Len(areas') = Len(sizes) -> "page_init"
                    [] OTHER -> "boot_alloc")
  /\ UNCHANGED <<img, ram, cpu, loader, totalpages, basepages>>

map_uvpt ==
  /\ stage = "uvpt"
  /\ Store(KERNBASE + areas[1].pa + UVPTSLOT, 1, Pde(areas[1].pa), "boot_alloc")
  /\ UNCHANGED <<img, ram, cpu, loader, kernel>>

Cpu ==
  \/ seta20_1 \/ seta20_2 \/ protcseg
  \/ readseg_loop \/ readsect_cmd \/ readsect_data \/ bootmain
  \/ entry \/ entry_paging \/ entry_jump \/ relocated
  \/ i386_init \/ i386_detect_memory \/ mem_init_alloc \/ map_uvpt

BootNext == Cpu \/ KbcStep \/ DiskStep

(* The processor runs, and each device gets done what it was asked for.    *)
BootFairness == WF_bootvars(Cpu) /\ WF_bootvars(KbcStep) /\ WF_bootvars(DiskStep)
BootSpec == BootInit /\ [][BootNext]_bootvars /\ BootFairness

-----------------------------------------------------------------------------
InKernel ==
  stage \in {"entry", "paging", "jump", "relocated", "i386_init", "detect",
             "boot_alloc", "uvpt", "page_init"}

(* KernelInPlace: when the kernel starts, every byte of the file's segments*)
(* below edata, its code and its data, is where it belongs, whatever       *)
(* sectors were shared, and no store of the kernel up to page_init hits    *)
(* one, but for the boot stack.  From the memset of i386_init on the bss   *)
(* is zero, though readseg had filled it from the disk.                    *)
KernelInPlace ==
  /\ InKernel => \A n \in 1 .. Len(img.segs) :
       LET s == img.segs[n]
       IN  \A k \in 0 .. s.filesz - 1 :
             \/ mem[s.pa + k] = File(s.offset + k)
             \/ s.pa + k = img.stacktop - 1
             \/ s.pa + k >= img.edata
  /\ stage \in {"detect", "boot_alloc", "uvpt", "page_init"} =>
       \A a \in img.edata .. img.end - 1 : mem[a] = 0

(* NeverFaults: no fetch and no store of the kernel meets an address that  *)
(* is not mapped, on the way from physical addresses to those above        *)
(* KERNBASE, and bootmain follows no header but the file's.  Only memory   *)
(* whose pages[] does not fit below the end of entry_pgdir's 4MB makes     *)
(* mem_init fault.                                                         *)
NeverFaults ==
  /\ stage # "lost"
  /\ stage = "fault" => ~Room(img, ram)
  /\ InKernel => Translated(cpu.eip).p /\ Translated(cpu.eip).pa \in Addrs

(* BootAreas: page_init finds kern_pgdir, pages and envs in pages of their *)
(* own, behind the kernel and before what boot_alloc(0) says is free.  All *)
(* of their bytes that the machine has are clear, but for the entry at     *)
(* UVPT; OutOfMemory is about those that it has not.                       *)
BootAreas ==
  stage = "page_init" =>
    /\ \A n \in DOMAIN areas : LET a == areas[n] IN
         /\ \A k \in 0 .. a.n - 1 : a.pa + k < ram =>
              mem[a.pa + k] = IF n = 1 /\ k = UVPTSLOT THEN Pde(a.pa) ELSE 0
         /\ a.pa >= img.end /\ a.pa % PGSIZE = 0 /\ a.pa + a.n <= nextfree
    /\ \A n, k \in DOMAIN areas : n < k =>
         PGROUNDUP(areas[n].pa + areas[n].n) <= areas[k].pa

(* OutOfMemory: "if memory is used up, boot_alloc panics", says the        *)
(* comment above it: so what it has returned lies in the npages pages that *)
(* i386_detect_memory found.                                               *)
OutOfMemory == areas # << >> => nextfree <= totalpages * PGSIZE

(* MemoryFound: npages counts no page that the machine does not have, and  *)
(* misses less than the unit in which the CMOS counts.                     *)
MemoryFound ==
  stage \in {"boot_alloc", "page_init"} =>
    /\ totalpages * PGSIZE <= ram
    /\ ram - totalpages * PGSIZE < (IF ram > EXT16PHYS THEN EXT16UNIT + PGSIZE ELSE PGSIZE)
    /\ basepages * PGSIZE <= BASEMEM /\ basepages <= totalpages

(* BootReaches: the machine comes up: a good kernel reaches page_init, if  *)
(* there is room for pages[], and a file that is none is refused.          *)
CameUp ==
  IF ~img.magic THEN stage = "bad"
  ELSE stage = "page_init" \/ (stage = "fault" /\ ~Room(img, ram))
BootReaches == <>CameUp

=============================================================================
