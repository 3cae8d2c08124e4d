----------------------------- MODULE MCTerminal -----------------------------
(***************************************************************************)
(* The small instances of what happens at a terminal, Console, Output and  *)
(* Monitor, checked in one run.  They have no variable in common.  'part'  *)
(* says which of them runs, and never changes; the others stay in an       *)
(* initial state.                                                          *)
(***************************************************************************)
EXTENDS Console, MCOutput, MCMonitor

VARIABLE part
terminalvars == <<part, consvars, outvars, monvars>>

Parts == {"console", "output", "monitor"}

MCInit ==
  /\ part \in Parts
  /\ ConsInit /\ OutInit /\ MonInit
  /\ part # "output" => serial_exists
  /\ part # "monitor" => prog = 1

ConsolePart ==
  part = "console" /\ ConsNext /\ UNCHANGED <<part, outvars, monvars>>
OutputPart ==
  part = "output" /\ OutNext /\ UNCHANGED <<part, consvars, monvars>>
MonitorPart ==
  part = "monitor" /\ MonNext /\ UNCHANGED <<part, consvars, outvars>>

MCNext == ConsolePart \/ OutputPart \/ MonitorPart

(* The fairness of the part that runs.  Weak fairness of the steps of the  *)
(* kernel: again and again it has none to take, or it takes one; in the    *)
(* module Console it always has one to take.                               *)
Resting ==
  \/ part = "monitor" /\ mode = "prompt"
  \/ part = "output" /\ ~ENABLED <<cons_putc>>_outvars
KernelStep ==
  \/ part = "console" /\ Kernel
  \/ part = "monitor" /\ mode # "prompt" /\ MonNext
  \/ part = "output" /\ cons_putc
MCFairness ==
  /\ []<>Resting \/ []<><<KernelStep>>_terminalvars
  /\ SF_consvars(part = "console" /\ serial_intr /\ dev["serial"] = NONE)
  /\ SF_consvars(part = "console" /\ kbd_intr /\ dev["kbd"] = NONE)

MCSpec == MCInit /\ [][MCNext]_terminalvars /\ MCFairness

=============================================================================
