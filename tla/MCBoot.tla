------------------------------- MODULE MCBoot -------------------------------
(***************************************************************************)
(* A small instance of Boot: sectors of 2 bytes, pages of 4, page tables   *)
(* of 32 entries, "1MB" is 16 and "16MB" is 80.  entry_pgdir maps 128      *)
(* bytes; the memory of 336 bytes is the largest whose pages[] fits there. *)
(***************************************************************************)
EXTENDS Boot

(* Text and data, both aligned to pages, and a bss that the file holds,    *)
(* with a byte behind 'end', as kern/kernel.ld makes it; a kernel whose    *)
(* two segments share a sector; one with a text segment of odd address and *)
(* a segment that is bss only; and a file that is no kernel.               *)
Good ==
  [magic |-> TRUE, entry |-> 16, stacktop |-> 26, edata |-> 27, end |-> 31,
   segs |-> << [pa |-> 16, filesz |-> 6, memsz |-> 6, offset |-> 4],
               [pa |-> 24, filesz |-> 8, memsz |-> 8, offset |-> 12] >>]
Shared ==
  [magic |-> TRUE, entry |-> 17, stacktop |-> 23, edata |-> 23, end |-> 28,
   segs |-> << [pa |-> 17, filesz |-> 4, memsz |-> 4, offset |-> 5],
               [pa |-> 21, filesz |-> 2, memsz |-> 7, offset |-> 9] >>]
BssOnly ==
  [magic |-> TRUE, entry |-> 19, stacktop |-> 25, edata |-> 25, end |-> 32,
   segs |-> << [pa |-> 19, filesz |-> 6, memsz |-> 6, offset |-> 7],
               [pa |-> 28, filesz |-> 0, memsz |-> 4, offset |-> 14] >>]
NoKernel == [Good EXCEPT !.magic = FALSE]
MCImages == {Good, Shared, BssOnly, NoKernel}

=============================================================================
