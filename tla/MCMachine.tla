------------------------------ MODULE MCMachine ------------------------------
(***************************************************************************)
(* The small instances of Boot, MemInit and Keyboard, which deal with the  *)
(* bare machine, checked in one run.  They have no variable in common.     *)
(* 'part' says which of them runs, and never changes; the others stay in   *)
(* an initial state.                                                       *)
(***************************************************************************)
EXTENDS MCBoot, MCMemInit, MCKeyboard

VARIABLE part
machinevars == <<part, bootvars, allvars, kbdvars>>

MCInit ==
  /\ part \in {"boot", "mem_init", "keyboard"}
  /\ BootInit /\ Init0 /\ KbdInit
  /\ part # "boot" => img = Good /\ ram = 47 /\ ~kbc.busy /\ ~disk.busy
  /\ part # "mem_init" => m.mem[0] = ZeroPage

BootPart    == part = "boot" /\ BootNext /\ UNCHANGED <<part, allvars, kbdvars>>
MemInitPart == part = "mem_init" /\ Next0 /\ UNCHANGED <<part, bootvars, kbdvars>>
KeyboardPart == part = "keyboard" /\ KbdNext /\ UNCHANGED <<part, bootvars, allvars>>

MCNext == BootPart \/ MemInitPart \/ KeyboardPart

(* The fairness of Boot; the others have none.                             *)
MCFairness == part = "boot" => BootFairness
MCSpec == MCInit /\ [][MCNext]_machinevars /\ MCFairness

(* ComesUp: BootReaches, where Boot runs.                                  *)
ComesUp == part = "boot" => BootReaches

=============================================================================
