# A verification project for the JOS kernel in `jos-code-with-comments`

The repository holds a commented copy of JOS, the teaching kernel of MIT 6.828,
as it stands in the middle of lab 3: the memory manager is complete, user
environments can be created, run and freed, and traps and system calls are not
filled in yet (`kern/trapentry.S` has no entry points, `syscall()` panics and
`trap_dispatch` destroys every environment that traps).  The rest of the
repository is notes and course text.  Paths below are relative to
`src/jos-code-with-comments/`.

## 1. Inventory

| Component | State it keeps | Operations | What makes it correct |
|---|---|---|---|
| Physical page allocator (`kern/pmap.c`) | `pages[]` (`pp_ref`, `pp_link`), `page_free_list` | `page_init`, `page_alloc`, `page_free`, `page_decref` | the free list holds exactly the pages nobody uses; counts are exact; `page_free` never panics |
| Page tables (`kern/pmap.c`) | page directories and page tables, which live in allocated pages; the TLB; `%cr3` | `pgdir_walk`, `page_lookup`, `page_insert`, `page_remove`, `boot_map_region`, `tlb_invalidate` | one call changes one translation; no stale translation; no user-writable path to kernel pages |
| `mem_init` (`kern/pmap.c`) | the kernel part of `kern_pgdir` | the calls of `boot_map_region`, the load of `%cr3`, the self-tests `check_*` | every region is mapped before the switch |
| Environments (`kern/env.c`) | `envs[]`, `env_free_list`, `curenv` | `env_init`, `env_alloc`, `env_setup_vm`, `region_alloc`, `load_icode`, `env_create`, `env_run`, `env_free`, `env_destroy`, `envid2env` | list and table agree; address spaces are apart; all memory comes back; ids are not reused at once |
| Traps, system calls (`kern/trap.c`, `kern/syscall.c`) | the saved trap frame | `trap`, `trap_dispatch`, `syscall` | user code gets back to the kernel in the address space of `curenv` |
| Console input (`kern/console.c`, `lib/readline.c`) | `cons.buf`, `rpos`, `wpos`; readline's `buf` | `cons_intr`, `cons_getc`, `getchar`, `readline` | no character is lost, doubled or overtaken; a line that arrives is read |
| Keyboard decoder (`kern/console.c`) | `shift` | `kbd_proc_data` | a key means what it meant when it was pressed; no modifier is stuck |
| Console output (`kern/console.c`, `kern/printf.c`) | `crt_buf`, `crt_pos`, the cursor registers, the transmit buffer of the serial port | `cons_putc`, `serial_putc`, `lpt_putc`, `cga_putc`, `cprintf` | the screen is the tail of what was printed; a slow port loses only what was written too early; output ends |
| Formatted output, strings (`lib/printfmt.c`, `lib/printf.c`, `lib/string.c`) | a user program's `printbuf` | `vprintfmt`, `printnum`, `snprintf`, `strtol`, `memmove`, ... | results equal their definitions; buffers are not overrun |
| Monitor, debug information (`kern/monitor.c`, `kern/kdebug.c`) | the line, `argv`, the stack that is walked | `runcmd`, `mon_backtrace`, `stab_binsearch`, `debuginfo_eip` | the command named is run; every frame gets its file, line and function; the search ends with the right bounds |
| Boot loader (`boot/boot.S`, `boot/main.c`) | memory, the keyboard controller, the disk | `seta20`, `bootmain`, `readseg`, `readsect` | every segment is in place when the kernel starts |
| Kernel entry (`kern/entry.S`, `kern/entrypgdir.c`, `kern/init.c`, `kern/kclock.c`) | `%cr0`, `%eip`, the bss, `npages`, `nextfree` | `entry`, `i386_init`, `i386_detect_memory`, `boot_alloc` | nothing faults on the way to high addresses; memory is measured right; the areas of `boot_alloc` are apart |
| User programs, `lib/libmain.c`, `fs/test.c` | none in the kernel | | |

How they interact: everything but the console is called by the kernel, one
function at a time, with interrupts off.  What runs beside the kernel is the
hardware: the MMU, which may cache a translation whenever it likes, the user
program between `env_run` and the next trap, the disk and the keyboard controller
while the machine boots, and the serial port, the printer and the keyboard, which
send and receive at any time.  The hard behaviours are therefore long
sequences of legal calls (reference counts, the two free lists), stale
translations, running out of pages or environments in the middle of a call,
overrun and wrap-around of the ring buffer, the two-byte codes of the keyboard
read by different polls, waits that end although the device is not ready, and the
order of steps while the address space is being set up.  `PROJECT.json` lists them, each at its line.

## 2. Modules

| Module | Part of the system |
|---|---|
| `PhysPages` | the allocator: operators from a machine state to a machine state |
| `PageTables` | the page tables, `env_setup_vm` and the MMU, as operators on the same state |
| `Pmap` | the state machine of `kern/pmap.c`: `mem_init`, then all calls in any order, with the MMU and the user program |
| `PageProofs` | proofs about the operators of `PhysPages` and `PageTables` |
| `PmapProofs` | proofs about `Pmap` |
| `Env` | `kern/env.c` as a program counter `k` over the operators of `PageTables`; instantiates `Pmap` as what it must keep to |
| `EnvProofs` | proofs about `Env`, among them that it implements `Pmap` |
| `ConsoleQueue` | what console input promises: a queue |
| `Console` | the ring buffer, its polling, `getchar` and `readline`; implements `ConsoleQueue` |
| `ConsoleProofs` | proofs about `Console` |
| `Keyboard` | `kbd_proc_data` with the typist and the mouse |
| `KeyboardProofs` | proofs about `Keyboard` |
| `MemInit` | `mem_init` from `page_init` to its end with all its self-tests; extends `Pmap` |
| `Boot` | from the BIOS to `page_init`: boot loader, kernel entry, memory detection, `boot_alloc` |
| `BootProofs` | proofs about `Boot` |
| `Strings` | the routines of `lib/string.c` as operators on a memory |
| `Printfmt` | `vprintfmt`, `snprintf`, `vcprintf` of user programs and `strtol` as operators |
| `Output` | `cons_putc` and its three devices, with `cprintf` on top of it; extends `Printfmt` |
| `OutputProofs` | proofs about `Output` |
| `Kdebug` | `stab_binsearch` and `debuginfo_eip` as operators |
| `Monitor` | the prompt, `runcmd` and `mon_backtrace`; extends `Kdebug` |
| `MonitorProofs` | proofs about `stab_binsearch` and the copies of `lib/string.c` |
| `MCPmap`, `MCMemInit`, `MCEnv`, `MCKeyboard`, `MCOutput`, `MCMonitor`, `MCBoot` | the small instances (`Console` needs none) |
| `MCMachine`, `MCTerminal` | the instances of components without a common variable side by side, for one run each: `Boot`, `MemInit` and `Keyboard`; `Console`, `Output` and `Monitor` |

**Machine state.** The functions of `kern/pmap.c` call each other and are never
interrupted, so each is an operator that takes the record `m` (`pp_ref`,
`pp_link`, `page_free_list`, the words of every page, `%cr3`, the TLB, and
whether `_panic` was called) and returns the one it leaves.  A page directory
or page table is not a separate object: it is the contents of a page frame, so
that a page used for two purposes at once corrupts the model as it would the
machine.  A virtual address is its pair of indices, a physical address its frame
number, an entry its present bit, frame and permissions.  `pp_ref` wraps at
`REFMOD` (2^16 in the code).  A page that nobody initialised holds one of
`Contents`, which in the main instances are words that read as present,
writable entries: forgetting to clear a page shows.

**Pmap.** `boot_map_region` is one round of the loop of the function of that
name, and `install_kern_pgdir` the end of `mem_init`.  Then `PageAlloc`,
`PageFree`, `PageInsert`, `PageRemove`, `SetupVm`, `FreeTable`, `FreeDir` and
`LoadCr3` are the calls that the clients of `kern/pmap.h` make, `TlbFill`,
`TlbEvict` the MMU and `UserWrite` the user program.  The guards say what a
client must respect and what `kern/env.c` does respect: user mappings only below
UTOP and not in `kern_pgdir`, `page_remove` only where something is mapped, a
page table released when it is empty, a directory when it is empty and not in
force.  That `kern/env.c` keeps to them is not assumed: `Env` is shown to
implement `Pmap` (property `VmSteps`).

**Env.** `k.op` says which function the kernel is in.  A step makes at most one
call into `kern/pmap.c`; `load_icode` and `env_free` take as many steps as their
loops have rounds, with the MMU free to cache translations in between.
`env_create` covers `env_alloc` and `env_setup_vm`.  A page fault during the copy
of a segment is the panic `kernel_fault`, because `trap_dispatch` panics on a
trap from the kernel.  The kernel at this commit creates one environment, runs
it and destroys it when it traps (`Trap`); the model lets the kernel call the
functions of `kern/env.h` in any order between traps (`TrapHandled`, `CallFree`),
which is the use their comments describe and includes what the kernel does.
`sys_env_destroy` is called with every envid, as a completed `syscall()` would
call it; `env_parent_id` is the constant 0 that `env_create` passes.  Register
contents, `env_type` and `env_runs` are left out: no property depends on them.
`env_destroy` ends in the monitor for every environment (`kern/env.h:17` says "Does
not return if e == curenv" only), so each of its calls is the end of a behaviour
but for the MMU.

**Console.** `cons_intr` is one round of the loop, so that a device may receive
between any two reads; `serial_intr` and `kbd_intr` are its calls at the start of
`cons_getc`.  Characters are their codes, because `readline` compares them
(`c >= ' '`).  The keyboard appears as a device that yields characters and
zeroes; how it gets them from scan codes is `Keyboard`.

**Keyboard.** The typist presses, repeats and releases keys, which adds the bytes
of the key to a stream; `kbd_proc_data` reads a byte per step.  Beside it the
model notes what the key meant when it was pressed (`due`, `mods`, `caps`).  The
tables are restricted to the keys of the instance.  No key has the code 0x60: the byte
of its release would be the prefix E0.

**MemInit.** `pc` is the part of `mem_init` that runs next, `t` the locals of a
test (`pp0`, `pp1`, `pp2`, `fl`, `nfree`).  Each self-test is a few actions, cut where
its comments cut it, with every assertion as a conjunct; the MMU may cache the
translations of 0 and PGSIZE in between.  A failed assertion is a panic.
Pages that the tests fill with 1, 2, 3, 0x97 or 0xFF hold the entries that these
words are when a page table is made of them.

**Boot.** Memory is a function from addresses to bytes, and a byte says where it
comes from, so that a segment in the wrong place shows.  The keyboard controller
and the disk are busy for as long as they like; a byte written to a busy
controller is lost.  `boot.S` does not wait for the controller after the last byte;
that it takes it before the disk has delivered the first sector is assumed
(in `DiskStep`), and without this the kernel may be loaded 1MB too low.  Images are
those a linker writes (`WellLinked`): the comment in `readseg` that extra bytes do
not matter, since segments are loaded in increasing order, needs that two segments
that share a sector of memory share it in the file.  `kern/kernel.ld` ends the bss with
`BYTE(0)`, so that the bss is in the file and `readseg` fills it with what is there; the
`memset` of `i386_init` clears it again, and `KernelInPlace` speaks of the bytes below
`edata` and of a bss of zeroes after that.  From `ram` on no address has memory behind
it: a store there is lost, and what is read is junk (`Stored`).  The kernel itself fits
(`Loadable`), since nothing in the code checks it.  `boot_alloc` does not panic when memory
is used up, though its comment says so (`kern/pmap.c:87-88`): on a small machine `areas`
lies beyond the end of memory, which the run `boot_small` shows, and `BootAreas` says of the
bytes that exist that they are clear.  With much more memory than 4MB can describe,
`pages[]` does not fit below what `entry_pgdir` maps (`Room`), and `mem_init` faults
when it clears it; `NeverFaults` and `BootReaches` name that case, and one memory of the
run is so large.

**Printfmt and Output.** A format is a sequence of characters and `vprintfmt` yields
those it gives to `putch`.  Loops and recursion of the code are recursive functions.
Integers have `INTBITS` and `LLBITS` bits and are
reduced to them where the code reads an argument and where `%e` negates one.
`Rendered` requires what the comments of `lib/printfmt.c` promise and, where they are
silent, what the code does: the sign and the `0x` are not counted in the width, and
an unknown directive is printed as it stands.  Four things are to be known about it.
The comment at lines 12-13 supports padding for numbers only; the code pads `%s` too, on
the side that the flag asks for, and `Rendered` requires it.  `-` is the "flag to pad on
the right" (line 114), but a number is padded on its left, with `-` (lines 44-45,
`PadsLeft`): the code contradicts its comment here, the model follows the code, and
`Rendered` requires nothing.  `%e` of the smallest int: its negation is negative again
(lines 173-175), so `error_string` is indexed in front of its beginning; the model
prints `WILD` for what is found there (`Unindexed`), and `Rendered` requires nothing.
`vsnprintf` without a buffer or with `n < 1` is not modelled.
In `%.0s` written with digits the 0 is read as a flag; the instance gives a
precision of 0 as `.*`.  `cprintf` of the kernel returns 0 always, since
`putch` advances the pointer `cnt` and not what it points to (`kern/printf.c:23`);
nobody uses the result.  In `Output` a step of the wait is one poll of the port.

**Kdebug and Monitor.** Strings of debug information are sequences, tables of stabs
functions from an index, in which the stabs of the types that are searched are in order
of their addresses (`TablesAssumption`), as the comment above `stab_binsearch` says.
`split` follows `runcmd` through the line and `gobble`
writes the NULs.  `mon_backtrace` prints offsets in units of 8 bytes, and `runcmd`
refuses 16 words with "max 16": the model does what the code does.

## 3. Runs

| Run | Result | What it shows |
|---|---|---|
| `pmap` | passes | Counts, free list, isolation and TLB of the memory manager, with a client that makes all calls in any order, one user directory with two page tables, a kernel part with two regions, and memory that comes up as junk |
| `env` | passes | Environments created, loaded, run, trapped and freed in any order until ids wrap, with too little memory for a small and a large program; stale envids are refused; implements `Pmap` |
| `machine` | passes | `Boot`: the kernel is in place, nothing faults, the bss and the areas of `boot_alloc` are cleared and apart, memory is measured right, and the machine comes up.  `MemInit`: no assertion of the self-tests fails, they leave nothing behind (`NoTrace`), and nothing above the 4MB that `entry_pgdir` maps is written before the switch.  `Keyboard`: decoded characters and modifiers follow the typist |
| `terminal` | passes | `Console`: the ring buffer implements the queue, and a newline that arrives is read.  `Output`: directives are printed as defined and numbers are read back by `strtol`; buffers deliver all of the text; the screen is its tail; a port that is never ready stops nothing.  `Monitor`: the command named is run; every frame is resolved; `stab_binsearch`, `memmove` and the bounded copies agree with their definitions; the prompt comes back |
| `pmap_remove` | violation | `page_lookup` does not test `PTE_P`: `page_remove` of an unmapped address drops a reference to page 0, against its comment |
| `pmap_tlb` | violation | `page_insert` with fewer permissions for the same page does not flush the TLB |
| `env_straddle` | violation | `region_alloc` rounds `len` and not `va + len`: a region that crosses a page boundary loses its last page |
| `console_full` | violation | `cons_intr` overruns the reader: a full buffer reads as empty |
| `boot_small` | violation | `boot_alloc` hands out addresses beyond the end of memory, against its comment, which has it panic |
| `mem_init_odd` | violation | with an `npages` whose `PageInfo`s end within a page, `boot_map_region` leaves that page out and `check_kern_pgdir` panics |
| `monitor_offset` | violation | `mon_backtrace` divides by 8 an offset that is in bytes, as its comment wants it |
| `stab_search` | violation | `stab_binsearch` breaks its comment for an address before all matches, and next to an exact match |

Every property of a passing run is broken by a mutant of the code: the operators
marked *Mutant* in the modules, paired with properties in `PROJECT.json`.

**Bounds.** Physical memory has 8 frames in `pmap` (one page of base memory, the
I/O hole, one frame of boot allocations, four of extended memory), so that every
client can be refused a page; 10 in `env`, enough for a small and an empty
program at once and too few for a large one beside them; 24 in `MemInit`, of which the
first 12 are those that `entry_pgdir` maps.  Tables have 3 or 4 entries, with at least one
user entry and UVPT, and 12 in `MemInit`, where every region of the address space has
an entry.  `REFMOD` is 4 instead of 65536 in `pmap` and `MaxRef`, the number of
mappings of one page, is below it: at `REFMOD` mappings `pp_ref` really wraps to
0 and `RefCountExact` fails; no caller of this kernel maps a page more than once.
The instance of `pmap` has one user directory, so that a page is shared by addresses
and not by directories, as everywhere in this kernel.  `MaxTlb` is 1 cached translation
(2 for `MemInit`), since the properties concern one translation at a time.  `IDLIMIT`
is 12 instead of 2^31 and ids wrap after two generations.  `MaxDirs`, `MaxHeld`,
`MaxIncarn`, `MaxWaiting`, `MaxStream` and `MaxOut` bound the directories, the unmapped
pages, the sum of the generations, the characters that wait, the bytes in flight and
the length of what is printed or echoed, after which `Output` takes no new call.  The ring buffer has
4 cells, which wrap after 4 characters; `MaxWaiting + 1 < CONSBUFSIZE` is needed,
as `console_full` shows.  The keyboard instance has both shift keys, an extended
control key, alt, capslock, a letter, and the two keys that differ by E0 alone.
The display of `Output` has two rows of three characters, so that four characters
scroll; a port is polled `POLLS` = 1 time instead of 12800; an int has 5 bits and a
long long 8, and the numbers are those at their ends and around the powers of the bases.
`printbuf` has 4 characters.  In `Monitor`, `MAXARGS` is 3, lines have up to 5
characters (7 for one with too many words), and the search is compared with its
definition in all ordered tables of four stabs at addresses of which some are adjacent.  In `Boot`, sectors have 2 bytes, pages
4 and page tables 32 entries; the images have segments that share a sector, that begin
at an odd address and that are bss only, and the memories are around the units in which
the CMOS counts, two of them too small for what `boot_alloc` gives and one too large for
`entry_pgdir`.  `npages` of `MemInit` is 24 with 24 `PageInfo`s in a page; 16 of them in
a page is the instance of `mem_init_odd`.

**Components side by side.** `MCMachine` and `MCTerminal` each extend components that have
no variable in common, and a variable `part`, which never changes, says which one of them
runs.  A behaviour of such a run is a behaviour of one component; the invariants of the
others look at an initial state of theirs.  `ComesUp` is `BootReaches` where `part` is
"boot".

**Fairness.** `Spec` of `Env` is fair to the steps of `load_icode` and `env_free`, which run with interrupts
off and nothing else to schedule; likewise `Output` to `cons_putc` and `Monitor` to the
steps of a command (written out, because weak fairness of `MonNext` would need
ENABLED of expensive steps).  No fairness is assumed of user programs, the
MMU, the serial port or the printer.  `Boot` is fair to the processor, to the disk and to
the keyboard controller: the loops of `boot.S` and `waitdisk` have no other end, so
`BootReaches` can only hold for devices that work.  `Console` is fair to the kernel, which does nothing but
poll, and strongly fair to the poll that finds a device empty: polling takes
microseconds, and a keyboard or a serial line delivers far more slowly.  `MCFairness` in
`MCMachine` is that of `Boot`, and in `MCTerminal` that of the component that runs, with the
three weak fairness conditions written as one (`KernelStep`, `Resting`).

**Deadlock** is checked in `pmap` and `env`, and not in `machine` and `terminal`, in
which some components really stop.  The boot and `mem_init` end, `Output`
prints a bounded text, and a byte of the mouse at the head of the stream is never read, so
that the keyboard decoder really stops (nothing in this kernel enables the mouse).  That
`Console` and `Monitor` do not stop is what `LineRead` and `PromptAgain` say.

**What the search does.** The comment above `stab_binsearch` says that `left` is the stab
that contains the address and `left > right` that there is none (`SearchContract`).
The code keeps to it (`SearchRight`) when the address does not lie before all matching
stabs, nor at a matching stab whose next lies one address on.  Otherwise the search
ends with `left` before the first match, or takes the next stab, because after an exact
match it goes on for `addr + 1`: the run `stab_search`.  `debuginfo_eip` is right all the same on
tables as the compiler writes them (`FramesResolved`), but for the offset that
`mon_backtrace` makes of its answer (`OffsetInBytes`).

## 4. Proofs

**The memory manager.** `PmapProofs` proves, for every amount of memory, layout, table
size and number of directories, every safety property that the run `pmap` checks:
`NoPanic`, `FreeListExact`, `RefCountExact`, `KernelPartShared`, `Isolation`,
`TlbSound`, the action property `OneTranslation`, and type correctness.  None of them is
inductive: that a page is given out once depends on the counts, these on the
entries of page tables, and these on nobody using a page table for anything else.  The
inductive invariant says all of it at once: every page of the allocator has *one role*
(free, held by a client, directory, page table of one user entry, page table of the
kernel part, mapped page), and its count, its links, the entries that lead to it and the
cached translations are those that the role allows.  `Vm(s, D, H)` in `PageProofs` is this
invariant of a machine state `s` with directories `D` and held pages `H`: some
assignment of roles exists.  `IInv` is `TypeOK` with `Vm(m, dirs, held)`.

The argument is laid out in layers, the first four of which are the parts of `PageProofs`.
*Facts*: every operator returns a machine state, and `page_alloc` and `page_free` take one
page off the free list or put one on.  The list is linked through `pp_link`; a ranking of its
pages (`FreeList`) makes "the pages on the list" a set that the provers can reason about.
*Roles*: the invariant and what it says about each page.  *Steps*: the elementary changes of
memory (a page leaves the list, a page becomes a page table or a directory, an entry is
written or cleared, a table or directory is taken out, a translation is cached), each with
the role that changes; every conjunct of `VmInv` is one step of each proof.  *Operations*:
the functions of `kern/pmap.c`, composed from those, failures included (`page_insert` with
no memory for a page table, `page_decref` to 0 and above it).  `PmapProofs` has one step per
action.

The assumptions are `PhysAssumption` (the order of the parts of physical memory; `pp_ref`
wraps at some `REFMOD`), `LayoutAssumption` (the user part lies below UVPT, `kern_pgdir` is
in what `boot_alloc` gave) and `ClientAssumption` (the regions of `mem_init` lie in the
kernel part and in physical memory, and what user programs may read of them is read-only
and outside the allocator: UPAGES, UENVS; `MaxRef < REFMOD`, since `pp_ref` wraps).

**Environments.** `EnvProofs` proves `EnvListExact`, `UserMode`, `PagesApart`,
`MemoryReturned`, `Loaded`, the action property `NewIncarnation`, and type correctness, for
every number of environments and every set of programs that end below the stack.
`EnvInv` is inductive.  It has the memory manager's invariant for the directories of `envs[]`
and the page in hand; strengthened by: each mapped page is mapped at one address of one
environment (this gives `PagesApart`, and makes every count that `env_free` drops go to 0);
the free list of environments, by a ranking again; ids (slot and generation) of all slots,
the free ones too; which address space is in force in which part of `env_run`, `load_icode`
and `env_free`; the pages that `load_icode` has mapped so far and those that `env_free` has
still to give back.  `MemoryReturned` follows because then no page has the role of a
directory, table or mapped page.  `NewIncarnation` needs arithmetic of ids at the wrap to
the sign bit; `EnvAssumption` states that `GEN` (2^12) is a multiple of `NENV` and
`IDLIMIT` (2^31) of `GEN`.

`CopyNeverFaults` proves `PanicCause`: `load_icode` never faults in its copies and clears.
It has a hypothesis, `Covered`: for each segment to load, the pages that `region_alloc` maps
for it reach its last byte.  The programs of the run `env` satisfy it; those of
`env_straddle` do not, and there the kernel does fault.  The invariant beside `EnvInv` is
`Faultless`: all user directory entries and cached user translations of the environment
have `PTE_W` and `PTE_U`, and the pages of the region in hand are mapped up to the round of
the loop.

**Env implements Pmap.** The last part of `EnvProofs` proves `PmapRefined`, `Spec => VmSteps`: with the
directories of `envs[]` as `dirs` and the page that `region_alloc` holds as `held`, every step
of `kern/env.c` is an action of `Pmap` or changes nothing of it.  So the guards of `Pmap`,
which say what a client must respect, are theorems about this client: `region_alloc` maps
below UTOP and never into `kern_pgdir`, `env_free` removes only what is mapped, releases
a table only when it is empty and a directory only when it is not in force.  The lemmas
`Same...` say that the operators of the instance are those of `PageTables`; then there is
a lemma per action.

**Console.** `ConsoleProofs` proves two theorems about `Console`.  `TypeCorrect`: the positions
stay inside `cons.buf` and the line inside readline's buffer, for every size, even
when the ring buffer overruns.  `InputQueueRefined`: if `MaxWaiting + 1 < CONSBUFSIZE`
(`Roomy`), the console implements `ConsoleQueue`, for every size of the buffer and
every set of characters.  The refinement mapping takes the cells from `rpos` to
`wpos` as the queue.  The inductive invariant is `ConsTypeOK /\ Slack`, where `Slack`
counts the characters that wait and those the devices hold: without the devices in
the count it is not inductive, because both may deliver after the bound is reached.
The lemmas `RingStore` and `RingTake` say that storing at `wpos` appends and reading
at `rpos` takes the head.  The assumption is `ConsoleAssumption`.

**Keyboard.** `KeyboardProofs` proves `ModifiersFollow` and the action property `KeysMean`
for every set of keys and any number of bytes in flight.  Neither
speaks of the present: the flags in `shift` are those of the events that were read, and
the typist is ahead.  The inductive invariant `KeyInv` therefore speaks of the future:
there is a run of the decoder over the bytes that wait (`Replay`, its flags before each
byte) which leads from `shift` to the flags of the typist (`Follows`) and yields, make code
by make code, the list `due` (`Yields`).  A key that is pressed or released adds one or two
bytes to the end of the run; `kbd_proc_data` takes the first off.

**Boot.** `BootProofs` proves `KernelInPlace`, `NeverFaults`, `BootAreas` and `MemoryFound`
for every set of well linked images, memory sizes, and sizes of sectors, pages and tables.
`BootInv` follows the boot through its phases: `LinePart` (address line 20 is on before the
first sector is delivered), `HeaderPart` (how much of the ELF header is read), `SegPart`
(the header and the segments before `ph` are in memory, and the current one up to `pa`: a
sector shared with an earlier segment brings the same bytes again), `ReadPart` (where
`readseg` is), `KernelPart` (code, data and bss, and `%eip`) and `AreaPart` (what
`boot_alloc` has given).  `BootAssumption` states what the proofs need: sectors divide pages, the header lies
below 1MB, `KERNBASE` starts a table of its own, images are `WellLinked`, and memory has no
end inside the I/O hole and holds the kernel (`Loadable`).  That it holds what `boot_alloc`
gives is not assumed: `BootAreas` is proved for memories that end within the areas too.
Where `entry_pgdir` has no room for `pages[]` the boot ends in `Faulted`, the second
disjunct of the invariant.

**Console output.** `OutputProofs` proves `SerialLoss` and `ScreenIsTail`, of any texts that
`vprintfmt` may make, any size of the display, and any number of polls.  `SerialLoss` is a
matter of counting: characters given are characters sent, the one in the transmit buffer,
and those overwritten, of which there is at most one for each wait that ran out
(`PortPart`).  `ScreenIsTail` compares the display with a page without an end, which is a
recursive function of the text.  The induction over the text is that over the steps: the
invariant `ScreenInv` says that the pages of all beginnings of the text exist (`Pages`) and
that the display shows the end of the last one, and a step of `cga_putc` adds a page.
`CharShows` compares one character on the display with one on the page, and needs what
`memmove` and `memset` leave when the display is scrolled.

**Search and copies.** `MonitorProofs` proves `SearchRight` and `CopiesExact`, and with them
two theorems about operators: `SearchCorrect` (`stab_binsearch`, for every table in order of
address and all bounds, but for the addresses that `SearchedRight` names) and `MemmoveExact` (`memmove`, in every memory).  What
a recursive function computes is an induction over data, for which the provers have no rule
they can use; but that every set of naturals has a least element is a theorem they can cite.
So each loop is shown to have a solution (`LoopExists`, `MovingExists`, `ScanExists`: a
recursive definition is a CHOOSE), and a smallest state from which it goes wrong is shown to
have a smaller one.  For the search, `SearchInv` says what lies outside the part still
searched, before and after the `addr++` that follows an exact match, and `Variant` is the
size of that part and whether the match was found.  For the copies, `Copied` says what has
changed after `k` characters, in either direction, and `ScanEnds` where a loop over a string
stops.  The assumptions are `TablesAssumption` (the stabs of a type are in order) and
`MonitorAssumption` (a line is a sequence of characters).

**Only model-checked.** Liveness (`CallsEnd`, `LineRead`, `OutputEnds`, `PromptAgain`,
`ComesUp`), because the prover has no rules for fairness and ENABLED.  `TestsPass`,
`NoTrace` and `LowBeforeSwitch` of `MemInit`: the self-tests are one long fixed scenario,
whose walk of the free list is a RECURSIVE operator, which takes the SMT backend away from
every theorem about that module.  `Rendered` and `Delivered`
of `Output`, `CommandRun` and `FramesResolved` of `Monitor`: they compare two recursive
computations over sequences (a format, a text in pieces, a line, a table of stabs), and each
would need an induction over its data of its own.  The eight violations are about instances by
their nature.

## 5. Not modelled

`kern/trapentry.S` has no entry points, `syscall()` panics and `user_mem_check` returns 0
at this commit: there is no behaviour behind them yet.  `debuginfo_eip` therefore reads the
stabs of a user program without checking that they are mapped (`kern/kdebug.c:143`), and the
model gives it tables that are.  `trap_init_percpu` and `env_init_percpu` load descriptor
tables whose contents no property depends on, and `print_trapframe`, `mon_help` and
`mon_kerninfo` print.  In `vprintfmt`, bytes above 127 (a signed `char` makes
`%#s` print `?`, and sets the attribute in `cga_putc`) and the colour attributes of `cga_putc` are
left out, as are letters other than digits of the base in `strtol` and its base 0.
`inc/x86.h` is one instruction per function; what the instructions
do appears in the machine states of `PageTables`, `Boot` and `Output`.  The user programs
and `lib/libmain.c` have no state of their own to check.  `PROJECT.json` gives the reason for each part.

## 6. Plan

1. Done: the allocator and the page tables (`PhysPages`, `PageTables`, `Pmap`), the
   environments over them (`Env`, implementing `Pmap`), console input with its abstract
   queue, the keyboard decoder, and the first theorems.
2. Done: `mem_init` with its self-tests, the boot loader and the kernel's entry, console
   output with formatted printing and the string routines, the monitor with the stab
   search, `envid2env` and `sys_env_destroy`.  All of the code that this commit can run
   is modelled; what remains is under 5.
3. Done: the proofs of all safety properties of `Pmap` and `Env`, and that `Env`
   implements `Pmap`.
4. Done: the proofs of the safety properties of `Keyboard` and `Boot`, of the display and
   the serial port, of the stab search and of the copies of `lib/string.c`.
5. What is left is listed under "Only model-checked".
