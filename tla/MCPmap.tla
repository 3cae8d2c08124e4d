------------------------------- MODULE MCPmap -------------------------------
(***************************************************************************)
(* A small instance of Pmap.  Physical memory, by frame:                   *)
(*   0         reserved                                                    *)
(*   1         base memory                                                 *)
(*   2         the I/O hole                                                *)
(*   3         kern_pgdir, and all else that boot_alloc handed out         *)
(*   4 ..      the extended memory                                         *)
(* and virtual memory, by directory entry: 0 and 1 are the user part, 2 is *)
(* UVPT, 3 is the kernel part.                                             *)
(***************************************************************************)
EXTENDS Pmap

MCRegions ==
  << [va |-> 12, n |-> 1, pa |-> 3, perm |-> {"U"}],
     [va |-> 13, n |-> 3, pa |-> 0, perm |-> {"W"}] >>

(* Words that read as present, writable entries for page 1.                *)
MCJunk     == [j \in Ents |-> MkPTE(1, RWU)]
MCContents == {MCJunk}
MCUserPerms == {{"U"}, RWU}
MCUserVas  == {<<0, 0>>, <<0, 1>>, <<1, 0>>}
MCTlbVas   == {<<0, 0>>, <<1, 0>>, <<UVPTX, 0>>}

-----------------------------------------------------------------------------
(* A client that calls page_remove for any address, mapped or not.         *)
PageRemoveAny(d, i, j) ==
  /\ ~m.panic /\ d # KERN_PGDIR
  /\ m' = page_remove(m, d, i, j)
  /\ UNCHANGED <<boot, dirs, held>>

SpecRemoveAny ==
  Init /\ [][Next \/ \E d \in dirs, v \in UserVas : PageRemoveAny(d, v[1], v[2])]_vars

(* RemoveUnmappedSilent: "If there is no physical page at that address,    *)
(* silently does nothing" (the comment above page_remove): page_remove of  *)
(* an address without a mapping changes nothing.                           *)
RemoveUnmappedSilent ==
  [][\A d \in dirs, v \in UserVas :
       PageRemoveAny(d, v[1], v[2]) /\ ~Walk(m, d, v[1], v[2]).p => m' = m]_vars

(* TlbPermissions: "should be able to remap with fewer permissions"        *)
(* (check_page): the processor grants an access only if the permissions    *)
(* that page_insert set last do.                                           *)
TlbPermissions ==
  \A i, j \in Ents : m.tlb[i][j].p => m.tlb[i][j].perm \subseteq Translate(m, i, j).perm

=============================================================================
