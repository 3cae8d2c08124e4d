------------------------------ MODULE MCMemInit ------------------------------
(***************************************************************************)
(* A small instance of MemInit.  Page tables have 12 entries; frames 0 to  *)
(* 11 are what entry_pgdir maps.  By frame: 0 is reserved, 1 to 3 are base *)
(* memory, 4 is the I/O hole, 5 the kernel's image with its stack, 6       *)
(* kern_pgdir, 7 pages[], 8 envs[], 9 to 23 extended memory; where a page  *)
(* holds fewer PageInfos than there are frames, pages[] takes 7 and 8 and  *)
(* envs[] 9.  By directory entry: 0 to 4 are the user part, 5 UENVS, 6     *)
(* UPAGES, 7 UVPT, 8 MMIO, 9 the kernel stack, 10 and 11 KERNBASE.         *)
(***************************************************************************)
EXTENDS MemInit

(* Memory comes up as zeroes, as present entries, or as words that are not *)
(* zero and not present.                                                   *)
MCContents ==
  {ZeroPage, [j \in Ents |-> MkPTE(1, RWU)],
   [j \in Ents |-> [p |-> FALSE, pa |-> 2, perm |-> RWU]]}
MCTlbVas   == {<<0, 0>>, <<0, 1>>}
MCNone     == {}

=============================================================================
