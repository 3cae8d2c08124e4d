-------------------------------- MODULE MCEnv --------------------------------
(***************************************************************************)
(* A small instance of Env: two environments, pages of two bytes, page     *)
(* tables of three entries.  Directory entry 0 is the user part, which     *)
(* ends with the stack; entry 1 is UVPT.                                   *)
(***************************************************************************)
EXTENDS Env

MCJunk     == [j \in Ents |-> MkPTE(1, RWU)]
MCContents == {MCJunk}
MCTlbVas   == {<<0, 0>>}

Ph(load, va, filesz, memsz) ==
  [load |-> load, va |-> va, filesz |-> filesz, memsz |-> memsz]

(* A program that has nothing but a stack, one with a header to pass over  *)
(* and a segment that starts within a page, one of two pages, and two that *)
(* load_icode rejects.                                                     *)
Empty    == [elf |-> TRUE, ph |-> << >>]
Small    == [elf |-> TRUE, ph |-> << Ph(FALSE, 0, 0, 0), Ph(TRUE, 1, 1, 1) >>]
Large    == [elf |-> TRUE, ph |-> << Ph(TRUE, 0, 2, 3) >>]
NotElf   == [elf |-> FALSE, ph |-> << >>]
BadSize  == [elf |-> TRUE, ph |-> << Ph(TRUE, 0, 3, 2) >>]
MCPrograms == {Empty, Small, Large, NotElf, BadSize}

(* A program whose two bytes lie in two pages.                             *)
Straddle == [elf |-> TRUE, ph |-> << Ph(TRUE, 1, 2, 2) >>]
MCStraddle == {Straddle}

=============================================================================
