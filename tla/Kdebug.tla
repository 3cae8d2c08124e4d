------------------------------- MODULE Kdebug -------------------------------
(***************************************************************************)
(* kern/kdebug.c: the search in the stabs of the kernel, stab_binsearch,   *)
(* and debuginfo_eip, which finds the file, the line and the function of   *)
(* an instruction.                                                         *)
(*                                                                         *)
(* A table of stabs is a function from 0 .. n-1 to stabs; a stab has the   *)
(* fields type, value (n_value), desc (n_desc) and str, the string that    *)
(* n_strx leads to.                                                        *)
(***************************************************************************)
EXTENDS Strings, FiniteSetsExt

CONSTANT ULIM     \* the first address of the kernel

Matching(stabs, type, lo, hi) == {k \in lo .. hi : stabs[k].type = type}
LastOf(S, default) == IF S = {} THEN default ELSE Max(S)

(* Mutant: the search goes on to the right of m instead of true_m.         *)
binsearch_round_narrow(stabs, type, s) ==
  LET true_m == (s.l + s.r) \div 2
      m == LastOf(Matching(stabs, type, s.l, true_m), s.l - 1)
  IN  IF m < s.l THEN [s EXCEPT !.l = true_m + 1]
      ELSE IF stabs[m].value < s.addr
      THEN [s EXCEPT !.any = TRUE, !.left = m, !.l = true_m + 1]
      ELSE IF stabs[m].value > s.addr
      THEN [s EXCEPT !.any = TRUE, !.right = m - 1, !.r = m - 1]
      ELSE [s EXCEPT !.any = TRUE, !.left = m, !.l = true_m + 1, !.r = m]

(* One round of the loop of stab_binsearch.                                *)
binsearch_round(stabs, type, s) ==
  LET true_m == (s.l + s.r) \div 2
      m == LastOf(Matching(stabs, type, s.l, true_m), s.l - 1)
  IN  IF m < s.l THEN [s EXCEPT !.l = true_m + 1]
      ELSE IF stabs[m].value < s.addr
      THEN [s EXCEPT !.any = TRUE, !.left = m, !.l = true_m + 1]
      ELSE IF stabs[m].value > s.addr
      THEN [s EXCEPT !.any = TRUE, !.right = m - 1, !.r = m - 1]
      ELSE [s EXCEPT !.any = TRUE, !.left = m, !.l = m, !.addr = @ + 1]

SearchState == [l : Int, r : Int, left : Int, right : Int, addr : Nat, any : BOOLEAN]

(* What stab_binsearch leaves when its loop has ended in s.                *)
binsearch_region(stabs, type, s) ==
  IF ~s.any THEN [left |-> s.left, right |-> s.left - 1]
  ELSE [left |-> IF s.right <= s.left THEN s.right
                 ELSE LastOf(Matching(stabs, type, s.left + 1, s.right), s.left),
        right |-> s.right]

(* stab_binsearch(stabs, &left, &right, type, addr)                        *)
stab_binsearch(stabs, left, right, type, addr) ==
  LET loop[s \in SearchState] ==
        IF s.l <= s.r THEN loop[binsearch_round(stabs, type, s)]
        ELSE binsearch_region(stabs, type, s)
  IN  loop[[l |-> left, r |-> right, left |-> left, right |-> right,
            addr |-> addr, any |-> FALSE]]

-----------------------------------------------------------------------------
Unknown(addr) == [file |-> << "<unknown>" >>, line |-> 0, fn |-> << "<unknown>" >>,
                  fn_addr |-> addr, narg |-> 0]

(* addr -= info->eip_fn_addr                                               *)
line_addr(addr, fn_addr) == addr - fn_addr

(* Mutant: an included file ends the search only if it is the first.       *)
names_file_so(s) == s.type = "SO" /\ s.value # 0

(* What the search for the file name stops at.                             *)
names_file(s) == s.type = "SOL" \/ (s.type = "SO" /\ s.value # 0)

(* The end of debuginfo_eip, with the regions that its three searches have *)
(* found and the name of the function as it is in the string table.        *)
info_of(stabs, file, fun, line, name, fn_addr) ==
  LET from  == LastOf({k \in file.left .. line.left : names_file(stabs[k])}, file.left - 1)
      after == Scan(fun.left + 1, {k \in Nat : k < fun.right /\ stabs[k].type = "PSYM"})
  IN  [file |-> IF from >= file.left THEN stabs[from].str ELSE << "<unknown>" >>,
       line |-> IF line.left <= line.right THEN stabs[line.left].desc ELSE -1,
       fn |-> SubSeq(name, 1, strfind(AsMemory(name), 0, ":")),
       fn_addr |-> fn_addr,
       narg |-> IF fun.left < fun.right THEN after - (fun.left + 1) ELSE 0]

(* The search for the line, in the function if there is one.               *)
in_function(stabs, addr, file, fun) ==
  IF fun.left <= fun.right
  THEN info_of(stabs, file, fun,
               stab_binsearch(stabs, fun.left, fun.right, "SLINE",
                              line_addr(addr, stabs[fun.left].value)),
               stabs[fun.left].str, stabs[fun.left].value)
  ELSE info_of(stabs, file, fun, stab_binsearch(stabs, file.left, file.right, "SLINE", addr),
               << "<unknown>" >>, addr)

(* The search for the function, in the file.                               *)
in_file(stabs, addr, file) ==
  IF file.left = 0 THEN Unknown(addr)
  ELSE in_function(stabs, addr, file,
                   stab_binsearch(stabs, file.left, file.right, "FUN", addr))

(* debuginfo_eip(addr, info): fn is eip_fn_name up to eip_fn_namelen.  The *)
(* tables of the kernel and of a user program are in 'tables'; strings is  *)
(* whether the string table ends as it must.                               *)
debuginfo_eip(tables, addr) ==
  LET tab == IF addr >= ULIM THEN tables.kernel ELSE tables.user
  IN  IF ~tab.strings THEN Unknown(addr)
      ELSE in_file(tab.stabs, addr,
                   stab_binsearch(tab.stabs, 0, Cardinality(DOMAIN tab.stabs) - 1, "SO", addr))

=============================================================================
