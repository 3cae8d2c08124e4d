--------------------------------- MODULE Env ---------------------------------
(***************************************************************************)
(* The environments of kern/env.c: the table envs[] with its free list,    *)
(* env_create with load_icode and region_alloc, env_run, env_free and      *)
(* env_destroy, and the entry from user mode in trap().                    *)
(*                                                                         *)
(* The kernel calls these functions one after the other, in any order that *)
(* their comments allow; k says which function it is in, and where:        *)
(*   op    boot; idle, between two calls; start, alloc, insert, copy and   *)
(*         done, within load_icode; free, within env_free; user, when the  *)
(*         processor runs curenv; monitor and panic, for ever              *)
(*   e     the environment, and prog its binary                            *)
(*   seg   the program header load_icode is at, n the page of its region   *)
(*   pp    the page region_alloc has allocated and not yet mapped          *)
(*   pdeno, pteno   the loop variables of env_free                         *)
(*   next  what follows env_free, and why the reason of a panic            *)
(* A step makes one call into kern/pmap.c, so that every step is one of    *)
(* Pmap, or leaves the memory alone.                                       *)
(***************************************************************************)
EXTENDS PageTables, Sequences
LOCAL INSTANCE FiniteSetsExt

CONSTANTS
  NENV,        \* the size of envs[], a power of two
  GEN,         \* 1 << ENVGENSHIFT, a multiple of NENV
  IDLIMIT,     \* 2^31: an envid_t is an int32_t
  PGSIZE,      \* bytes in a page
  USTACKTOP,   \* the byte address of the top of the user stack
  Programs,    \* the binaries that env_create may be given
  Contents,    \* what the words of a page may be that nobody initialised
  TlbVas,      \* the virtual addresses whose translations the TLB may hold
  MaxTlb,      \* the number of translations the TLB has room for
  MaxIncarn    \* bound: the sum, over envs[], of the generations in the env_id's

Slots == 0 .. NENV - 1

(* A program header: whether it is PT_LOAD, p_va, p_filesz and p_memsz.    *)
Proghdr == [load : BOOLEAN, va : Nat, filesz : Nat, memsz : Nat]
Program == [elf : BOOLEAN, ph : Seq(Proghdr)]

ASSUME EnvAssumption ==
  /\ NENV \in Nat /\ 0 < NENV
  /\ GEN \in Nat /\ GEN % NENV = 0 /\ 0 < GEN
  /\ IDLIMIT \in Nat /\ IDLIMIT % GEN = 0 /\ 2 * GEN < IDLIMIT
  /\ PGSIZE \in Nat /\ 0 < PGSIZE
  /\ USTACKTOP \in Nat /\ PGSIZE <= USTACKTOP /\ USTACKTOP % PGSIZE = 0
  /\ USTACKTOP <= UTOPX * NENT * PGSIZE
  /\ \A g \in Programs :
       /\ g \in Program
       /\ \A s \in 1 .. Len(g.ph) : g.ph[s].va + g.ph[s].memsz < USTACKTOP
  /\ Contents \subseteq [Ents -> PTE] /\ Contents # {}
  /\ TlbVas \subseteq Ents \X Ents
  /\ MaxTlb \in Nat

VARIABLES
  m,              \* the machine state of PhysPages
  envs,           \* envs[]
  env_free_list,  \* the first free environment, or NULL
  curenv,         \* the environment that runs or ran last, or NULL
  k               \* where the kernel is
vars == <<m, envs, env_free_list, curenv, k>>

(* The directory and table index of a byte address.                        *)
PageOf(va) == va \div PGSIZE
PDX(va) == PageOf(va) \div NENT
PTX(va) == PageOf(va) % NENT
ROUNDUP(n) == ((n + PGSIZE - 1) \div PGSIZE) * PGSIZE

Dirs == {KERN_PGDIR} \cup ({envs[e].env_pgdir : e \in Slots} \ {NULL})

Idle == [op |-> "idle", e |-> NULL, prog |-> [elf |-> FALSE, ph |-> << >>],
         seg |-> 0, n |-> 0, pp |-> NULL, pdeno |-> 0, pteno |-> 0,
         next |-> "idle", why |-> "none"]
Panic(reason) == [Idle EXCEPT !.op = "panic", !.why = reason]

-----------------------------------------------------------------------------
(* i386_init has run mem_init as far as page_init, and envs[] is zeroed.   *)
Init ==
  /\ \E c \in [Frames -> Contents] :
       m = [ref |-> page_init_ref, link |-> page_init_link,
            head |-> page_init_head,
            mem |-> [c EXCEPT ![KERN_PGDIR] =
                       [ZeroPage EXCEPT ![UVPTX] = MkPTE(KERN_PGDIR, {"U"})]],
            cr3 |-> NULL, tlb |-> EmptyTlb, panic |-> FALSE]
  /\ envs = [e \in Slots |-> [env_id |-> 0, env_status |-> "FREE",
                              env_pgdir |-> NULL, env_link |-> NULL]]
  /\ env_free_list = NULL
  /\ curenv = NULL
  /\ k = [Idle EXCEPT !.op = "boot"]

(* The end of mem_init loads %cr3; env_init chains envs[] in the order of  *)
(* the array.                                                              *)
env_init ==
  /\ k.op = "boot"
  /\ m' = lcr3(m, KERN_PGDIR)
  /\ envs' = [e \in Slots |->
                [envs[e] EXCEPT !.env_link = IF e + 1 = NENV THEN NULL ELSE e + 1]]
  /\ env_free_list' = 0
  /\ k' = Idle
  /\ UNCHANGED curenv

-----------------------------------------------------------------------------
(* Mutant: the generation is not advanced.                                 *)
next_env_id_same(id, e) ==
  LET g == (IF id = 0 THEN GEN ELSE id) - (id % NENV)
  IN  g + e

(* The next env_id of slot e, whose last one is id.  The sum is taken in   *)
(* 32 bits: from IDLIMIT on it is negative and the generation starts anew. *)
next_env_id(id, e) ==
  LET g == (id + GEN) - ((id + GEN) % NENV)
  IN  (IF g >= IDLIMIT THEN GEN ELSE g) + e

(* Mutant: the environment stays on the free list.                         *)
env_alloc_keep(e, pgdir) ==
  /\ envs' = [envs EXCEPT ![e] =
                [@ EXCEPT !.env_id = next_env_id(envs[e].env_id, e),
                          !.env_status = "RUNNABLE", !.env_pgdir = pgdir]]
  /\ env_free_list' = env_free_list

(* env_alloc, after env_setup_vm returned the directory pgdir.             *)
env_alloc(e, pgdir) ==
  /\ envs' = [envs EXCEPT ![e] =
                [@ EXCEPT !.env_id = next_env_id(envs[e].env_id, e),
                          !.env_status = "RUNNABLE", !.env_pgdir = pgdir]]
  /\ env_free_list' = envs[e].env_link

(* env_alloc is called by env_create alone, for no parent.                 *)
env_parent_id == 0

Incarnations == MapThenSumSet(LAMBDA e : envs[e].env_id \div GEN, Slots)

(* env_create: panics when there is no free environment or no memory for   *)
(* the directory, else goes on to load_icode.                              *)
env_create(prog) ==
  LET e == env_free_list
      r == env_setup_vm(m)
  IN  /\ k.op = "idle"
      /\ Incarnations < MaxIncarn
      /\ IF e = NULL \/ r.pp = NULL
         THEN /\ k' = Panic(IF e = NULL THEN "no_free_env" ELSE "no_mem")
              /\ UNCHANGED <<m, envs, env_free_list>>
         ELSE /\ env_alloc(e, r.pp)
              /\ m' = r.m
              /\ k' = [Idle EXCEPT !.op = "start", !.e = e, !.prog = prog]
      /\ UNCHANGED curenv

(* load_icode up to its loop: the ELF magic, and lcr3(e->env_pgdir).       *)
load_icode ==
  /\ k.op = "start"
  /\ IF k.prog.elf
     THEN /\ m' = lcr3(m, envs[k.e].env_pgdir)
          /\ k' = [k EXCEPT !.op = "alloc", !.seg = 1]
     ELSE /\ k' = Panic("not_elf")
          /\ UNCHANGED m
  /\ UNCHANGED <<envs, env_free_list, curenv>>

OnStack == k.seg = Len(k.prog.ph) + 1

(* Mutant: the stack is mapped a page too low.                             *)
Here_low == IF OnStack
            THEN [load |-> TRUE, va |-> USTACKTOP - 2 * PGSIZE, filesz |-> 0,
                  memsz |-> PGSIZE]
            ELSE k.prog.ph[k.seg]

(* The regions of load_icode: one for each program header, and the stack.  *)
Here    == IF OnStack
           THEN [load |-> TRUE, va |-> USTACKTOP - PGSIZE, filesz |-> 0, memsz |-> PGSIZE]
           ELSE k.prog.ph[k.seg]

(* Mutant: the length is rounded down.                                     *)
pgnum_floor(h) == h.memsz \div PGSIZE

(* The number of pages that region_alloc maps for a region, the first of   *)
(* them, and the number of pages its bytes lie in.                         *)
pgnum(h)    == ROUNDUP(h.memsz) \div PGSIZE
va_start(h) == h.va - (h.va % PGSIZE)
touched(h)  ==
  IF h.memsz = 0 THEN 0 ELSE PageOf(h.va + h.memsz - 1) - PageOf(h.va) + 1

(* region_alloc, its call of page_alloc(0).                                *)
region_alloc ==
  /\ k.op = "alloc" /\ Here.load /\ Here.filesz <= Here.memsz
  /\ k.n < pgnum(Here)
  /\ LET r == page_alloc(m, FALSE)
     IN  /\ m' = r.m
         /\ k' = IF r.pp = NULL THEN Panic("no_mem")
                 ELSE [k EXCEPT !.op = "insert", !.pp = r.pp]
  /\ UNCHANGED <<envs, env_free_list, curenv>>

(* region_alloc, its call of page_insert(e->env_pgdir, ...).               *)
region_insert ==
  /\ k.op = "insert"
  /\ LET va == va_start(Here) + k.n * PGSIZE
         r  == page_insert(m, envs[k.e].env_pgdir, k.pp, PDX(va), PTX(va), RWU)
     IN  /\ m' = r.m
         /\ k' = IF ~r.ok THEN [Panic("no_mem") EXCEPT !.pp = k.pp]
                 ELSE [k EXCEPT !.op = "alloc", !.pp = NULL, !.n = @ + 1]
  /\ UNCHANGED <<envs, env_free_list, curenv>>

(* load_icode between two regions: a header that is not PT_LOAD is passed  *)
(* over, one with p_filesz > p_memsz is fatal, and when region_alloc       *)
(* returned the bytes are copied; nothing is copied to the stack.          *)
next_region ==
  /\ k.op = "alloc"
  /\ \/ ~Here.load /\ k' = [k EXCEPT !.seg = @ + 1]
     \/ Here.load /\ Here.filesz > Here.memsz /\ k' = Panic("filesz")
     \/ /\ Here.load /\ Here.filesz <= Here.memsz /\ k.n = pgnum(Here)
        /\ k' = [k EXCEPT !.op = IF OnStack THEN "done" ELSE "copy", !.n = 0]
  /\ UNCHANGED <<m, envs, env_free_list, curenv>>

(* memcpy and memset, a page at a time, through the page tables in force.  *)
(* A page that is not mapped is a page fault in the kernel, which          *)
(* trap_dispatch answers with a panic.                                     *)
copy_segment ==
  /\ k.op = "copy"
  /\ LET va == va_start(Here) + k.n * PGSIZE
     IN  IF k.n = touched(Here)
         THEN /\ k' = [k EXCEPT !.op = "alloc", !.n = 0, !.seg = @ + 1]
              /\ UNCHANGED m
         ELSE IF CanStore(m, PDX(va), PTX(va))
         THEN /\ k' = [k EXCEPT !.n = @ + 1]
              /\ \E c \in Contents : m' = store(m, PDX(va), PTX(va), c)
         ELSE /\ k' = Panic("kernel_fault")
              /\ UNCHANGED m
  /\ UNCHANGED <<envs, env_free_list, curenv>>

(* The end of load_icode: lcr3(PADDR(kern_pgdir)).                         *)
load_done ==
  /\ k.op = "done"
  /\ m' = lcr3(m, KERN_PGDIR)
  /\ k' = Idle
  /\ UNCHANGED <<envs, env_free_list, curenv>>

-----------------------------------------------------------------------------
(* Mutant: the environment that ran before keeps ENV_RUNNING.              *)
env_run_no_switch(e) ==
  /\ k.op = "idle"
  /\ envs[e].env_status \in {"RUNNABLE", "RUNNING"}
  /\ envs' = [envs EXCEPT ![e].env_status = "RUNNING"]
  /\ curenv' = e
  /\ m' = lcr3(m, envs[e].env_pgdir)
  /\ k' = [Idle EXCEPT !.op = "user"]
  /\ UNCHANGED env_free_list

(* env_run(e), for an environment that may run, and env_pop_tf.            *)
env_run(e) ==
  /\ k.op = "idle"
  /\ envs[e].env_status \in {"RUNNABLE", "RUNNING"}
  /\ envs' = [f \in Slots |->
                IF f = e THEN [envs[f] EXCEPT !.env_status = "RUNNING"]
                ELSE IF f = curenv /\ envs[f].env_status = "RUNNING"
                THEN [envs[f] EXCEPT !.env_status = "RUNNABLE"]
                ELSE envs[f]]
  /\ curenv' = e
  /\ m' = lcr3(m, envs[e].env_pgdir)
  /\ k' = [Idle EXCEPT !.op = "user"]
  /\ UNCHANGED env_free_list

(* The user program stores into its memory.                                *)
UserWrite(i, j) ==
  /\ k.op = "user"
  /\ CanStore(m, i, j)
  /\ \E c \in Contents : m' = store(m, i, j, c)
  /\ UNCHANGED <<envs, env_free_list, curenv, k>>

(* A trap takes the processor back to the kernel, where trap_dispatch      *)
(* calls env_destroy(curenv).                                              *)
Trap ==
  /\ k.op = "user"
  /\ k' = [Idle EXCEPT !.op = "free", !.e = curenv, !.pdeno = -1, !.next = "monitor"]
  /\ UNCHANGED <<m, envs, env_free_list, curenv>>

(* The kernel has the processor back and keeps the environment.  No branch *)
(* of trap_dispatch does that yet; the action stands for the callers that  *)
(* kern/env.h is written for, which may then call any of its functions.    *)
TrapHandled ==
  /\ k.op = "user"
  /\ k' = Idle
  /\ UNCHANGED <<m, envs, env_free_list, curenv>>

(* envid2env(envid, &e, checkperm): e, or NULL for -E_BAD_ENV.             *)
envid2env(envid, checkperm) ==
  LET e == envid % NENV
  IN  IF envid = 0 THEN curenv
      ELSE IF \/ envs[e].env_status = "FREE" \/ envs[e].env_id # envid
              \/ checkperm /\ e # curenv /\ env_parent_id # envs[curenv].env_id
      THEN NULL ELSE e

(* sys_env_destroy(envid), called by the program that runs: an error is    *)
(* returned to it.  The dispatcher syscall() does not call it yet.         *)
sys_env_destroy(envid) ==
  /\ k.op = "user"
  /\ LET e == envid2env(envid, TRUE)
     IN  k' = IF e = NULL THEN k
              ELSE [Idle EXCEPT !.op = "free", !.e = e, !.pdeno = -1, !.next = "monitor"]
  /\ UNCHANGED <<m, envs, env_free_list, curenv>>

(* The kernel calls env_free(e), which returns, or env_destroy(e), which   *)
(* ends in the monitor.                                                    *)
CallFree(e, next) ==
  /\ k.op = "idle"
  /\ envs[e].env_status # "FREE"
  /\ k' = [Idle EXCEPT !.op = "free", !.e = e, !.pdeno = -1, !.next = next]
  /\ UNCHANGED <<m, envs, env_free_list, curenv>>

-----------------------------------------------------------------------------
(* Mutant: the directory in force may be the one being freed.              *)
env_free_start_no_lcr3 ==
  /\ k.op = "free" /\ k.pdeno = -1
  /\ m' = m
  /\ k' = [k EXCEPT !.pdeno = 0]
  /\ UNCHANGED <<envs, env_free_list, curenv>>

(* env_free(e).  First, kern_pgdir is loaded if e is the current one.      *)
env_free_start ==
  /\ k.op = "free" /\ k.pdeno = -1
  /\ m' = IF k.e = curenv THEN lcr3(m, KERN_PGDIR) ELSE m
  /\ k' = [k EXCEPT !.pdeno = 0]
  /\ UNCHANGED <<envs, env_free_list, curenv>>

(* Mutant: the last entry of a page table is passed over.                  *)
env_free_entry_short ==
  /\ k.op = "free" /\ k.pdeno \in UserPdx
  /\ LET d == envs[k.e].env_pgdir
     IN  IF ~m.mem[d][k.pdeno].p
         THEN k' = [k EXCEPT !.pdeno = @ + 1] /\ UNCHANGED m
         ELSE IF k.pteno < NENT - 1
         THEN /\ m' = IF Walk(m, d, k.pdeno, k.pteno).p
                      THEN page_remove(m, d, k.pdeno, k.pteno) ELSE m
              /\ k' = [k EXCEPT !.pteno = @ + 1]
         ELSE /\ m' = free_table(m, d, k.pdeno)
              /\ k' = [k EXCEPT !.pdeno = @ + 1, !.pteno = 0]
  /\ UNCHANGED <<envs, env_free_list, curenv>>

(* Mutant: the loop does not get past a table entry that is not present.   *)
env_free_entry_stuck ==
  /\ k.op = "free" /\ k.pdeno \in UserPdx
  /\ LET d == envs[k.e].env_pgdir
     IN  IF ~m.mem[d][k.pdeno].p
         THEN k' = [k EXCEPT !.pdeno = @ + 1] /\ UNCHANGED m
         ELSE IF k.pteno < NENT
         THEN /\ m' = IF Walk(m, d, k.pdeno, k.pteno).p
                      THEN page_remove(m, d, k.pdeno, k.pteno) ELSE m
              /\ k' = IF Walk(m, d, k.pdeno, k.pteno).p
                      THEN [k EXCEPT !.pteno = @ + 1] ELSE k
         ELSE /\ m' = free_table(m, d, k.pdeno)
              /\ k' = [k EXCEPT !.pdeno = @ + 1, !.pteno = 0]
  /\ UNCHANGED <<envs, env_free_list, curenv>>

(* The loops over the user part: every present entry of every page table   *)
(* is removed, and then the page table is.                                 *)
env_free_entry ==
  /\ k.op = "free" /\ k.pdeno \in UserPdx
  /\ LET d == envs[k.e].env_pgdir
     IN  IF ~m.mem[d][k.pdeno].p
         THEN k' = [k EXCEPT !.pdeno = @ + 1] /\ UNCHANGED m
         ELSE IF k.pteno < NENT
         THEN /\ m' = IF Walk(m, d, k.pdeno, k.pteno).p
                      THEN page_remove(m, d, k.pdeno, k.pteno) ELSE m
              /\ k' = [k EXCEPT !.pteno = @ + 1]
         ELSE /\ m' = free_table(m, d, k.pdeno)
              /\ k' = [k EXCEPT !.pdeno = @ + 1, !.pteno = 0]
  /\ UNCHANGED <<envs, env_free_list, curenv>>

(* The directory is released and e goes back to env_free_list.             *)
env_free_done ==
  /\ k.op = "free" /\ k.pdeno = UTOPX
  /\ m' = page_decref(m, envs[k.e].env_pgdir)
  /\ envs' = [envs EXCEPT ![k.e] = [@ EXCEPT !.env_pgdir = NULL, !.env_status = "FREE",
                                             !.env_link = env_free_list]]
  /\ env_free_list' = k.e
  /\ k' = [Idle EXCEPT !.op = k.next]
  /\ UNCHANGED curenv

(* while (1) monitor(NULL): the commands of the monitor leave all this     *)
(* alone.                                                                  *)
monitor ==
  /\ k.op \in {"monitor", "panic"}
  /\ UNCHANGED vars

(* The kernel may panic elsewhere, between two calls.                      *)
_panic ==
  /\ k.op = "idle"
  /\ k' = Panic("elsewhere")
  /\ UNCHANGED <<m, envs, env_free_list, curenv>>

(* The MMU may cache any translation, and drop one, at any time.           *)
Cached == {v \in TlbVas : m.tlb[v[1]][v[2]].p}

TlbFill(i, j) ==
  /\ m.cr3 # NULL
  /\ Cardinality(Cached) < MaxTlb
  /\ Walk(m, m.cr3, i, j).p
  /\ m' = [m EXCEPT !.tlb[i][j] = Translate(m, i, j)]
  /\ UNCHANGED <<envs, env_free_list, curenv, k>>

-----------------------------------------------------------------------------
LoadStep == load_icode \/ region_alloc \/ region_insert \/ next_region \/ copy_segment
              \/ load_done
FreeStep == env_free_start \/ env_free_entry \/ env_free_done

Next ==
  \/ env_init
  \/ \E prog \in Programs : env_create(prog)
  \/ LoadStep
  \/ \E e \in Slots : env_run(e)
  \/ \E i, j \in Ents : UserWrite(i, j)
  \/ Trap
  \/ \E envid \in 0 .. IDLIMIT - 1 : sys_env_destroy(envid)
  \/ TrapHandled
  \/ \E e \in Slots, next \in {"idle", "monitor"} : CallFree(e, next)
  \/ FreeStep
  \/ monitor
  \/ _panic
  \/ \E v \in TlbVas : TlbFill(v[1], v[2])

(* The kernel is not preempted: what it has begun it goes on with.         *)
Spec == Init /\ [][Next]_vars /\ WF_vars(LoadStep) /\ WF_vars(FreeStep)

-----------------------------------------------------------------------------
Status == {"FREE", "RUNNABLE", "RUNNING"}
Ops == {"boot", "idle", "start", "alloc", "insert", "copy", "done", "user", "free",
        "monitor", "panic"}

(* TypeOK: every variable has its type.                                    *)
TypeOK ==
  /\ m \in Machine
  /\ envs \in [Slots -> [env_id : 0 .. IDLIMIT - 1, env_status : Status,
                        env_pgdir : Frames \cup {NULL}, env_link : Slots \cup {NULL}]]
  /\ env_free_list \in Slots \cup {NULL}
  /\ curenv \in Slots \cup {NULL}
  /\ k.op \in Ops

(* The environments on env_free_list.                                      *)
FreeEnvs ==
  LET Closed == {S \in SUBSET Slots :
                   /\ env_free_list # NULL => env_free_list \in S
                   /\ \A e \in S : envs[e].env_link # NULL => envs[e].env_link \in S}
  IN  {e \in Slots : \A S \in Closed : e \in S}

(* EnvListExact: between two calls, env_free_list holds the environments   *)
(* that are ENV_FREE and no other, and they alone have no page directory.  *)
EnvListExact ==
  k.op # "boot" => \A e \in Slots :
    /\ e \in FreeEnvs <=> envs[e].env_status = "FREE"
    /\ envs[e].env_pgdir = NULL <=> envs[e].env_status = "FREE"

(* UserMode: user code runs only as curenv, the one environment that is    *)
(* ENV_RUNNING, and in its own address space.                              *)
UserMode ==
  /\ k.op = "user" =>
       /\ curenv # NULL /\ envs[curenv].env_status = "RUNNING"
       /\ m.cr3 = envs[curenv].env_pgdir
  /\ \A e \in Slots : envs[e].env_status = "RUNNING" => e = curenv

(* The pages that environment e maps in its user part.                     *)
PagesOf(e) ==
  IF envs[e].env_pgdir = NULL THEN {}
  ELSE LET d == envs[e].env_pgdir
       IN  {Walk(m, d, v[1], v[2]).pa :
              v \in {x \in UserPdx \X Ents : Walk(m, d, x[1], x[2]).p}}

(* PagesApart: no page of memory is mapped by two environments, and the    *)
(* page that region_alloc is about to map is mapped by none.               *)
PagesApart ==
  /\ \A e, f \in Slots : e # f => PagesOf(e) \cap PagesOf(f) = {}
  /\ k.op = "insert" => \A e \in Slots : k.pp \notin PagesOf(e)

(* MemoryReturned: "Frees env e and all memory it uses": when the last     *)
(* environment is freed no page is referenced any more.                    *)
MemoryReturned ==
  k.op \in {"idle", "monitor"} /\ (\A e \in Slots : envs[e].env_status = "FREE")
    => \A f \in Managed : m.ref[f] = 0

(* Loaded: when load_icode ends, every byte of every PT_LOAD segment, and  *)
(* the stack page, is mapped for the user to read and write.               *)
Mapped(d, va) ==
  LET t == Walk(m, d, PDX(va), PTX(va)) IN t.p /\ t.perm = RWU
Loaded ==
  k.op = "done" =>
    LET d == envs[k.e].env_pgdir
    IN  /\ \A s \in DOMAIN k.prog.ph : k.prog.ph[s].load =>
             \A b \in 0 .. k.prog.ph[s].memsz - 1 : Mapped(d, k.prog.ph[s].va + b)
        /\ Mapped(d, USTACKTOP - 1)

(* PanicCause: env.c panics for want of memory or of environments, and for *)
(* a binary it rejects; copying a segment never faults.                    *)
PanicCause == ~m.panic /\ k.why # "kernel_fault"

(* NewIncarnation: an environment that is created anew in a slot gets a    *)
(* positive env_id of that slot, and whenever an environment goes or a new *)
(* one comes, envid2env refuses the envid that the slot had before; every  *)
(* live environment is found by its own.                                   *)
NewIncarnation ==
  [][\A e \in Slots : \A id \in {envs[e].env_id, envs'[e].env_id} \ {0} :
       LET old == envs[e] new == envs'[e]
       IN  /\ old.env_status = "FREE" /\ new.env_status # "FREE" =>
                new.env_id > 0 /\ new.env_id % NENV = e
           /\ (old.env_status = "FREE") # (new.env_status = "FREE") /\ old.env_id = id =>
                envid2env(id, FALSE)' = NULL
           /\ new.env_status # "FREE" /\ new.env_id = id => envid2env(id, FALSE)' = e]_vars

(* CallsEnd: env_free and load_icode come to an end.                       *)
CallsEnd ==
  /\ \A e \in Slots : (k.op = "free" /\ k.e = e) ~> (envs[e].env_status = "FREE")
  /\ (k.op \in {"start", "alloc", "insert", "copy", "done"}) ~> (k.op \in {"idle", "panic"})

(* RegionCovered: "You should round va down, and round (va + len) up" (the *)
(* comment in region_alloc): when region_alloc returns, every byte of the  *)
(* region is mapped.                                                       *)
RegionCovered ==
  k.op = "copy" =>
    \A b \in 0 .. Here.memsz - 1 : Mapped(envs[k.e].env_pgdir, Here.va + b)

(* VmSteps: every step is a step of the virtual memory manager as Pmap     *)
(* describes it, or leaves memory alone: env.c keeps to the rules under    *)
(* which the invariants of Pmap hold.                                      *)
VM == INSTANCE Pmap WITH
        Regions <- << >>, UserVas <- UserPdx \X Ents, UserPerms <- {RWU},
        MaxDirs <- NENV, MaxHeld <- 1, MaxRef <- 1,
        boot <- [r |-> 1, k |-> 0], dirs <- Dirs,
        held <- IF k.pp = NULL THEN {} ELSE {k.pp}
VmSteps == VM!Spec

=============================================================================
