------------------------------ MODULE MCMonitor ------------------------------
(***************************************************************************)
(* A small instance of Monitor.  The code lies at 1000 and up; a user      *)
(* program at 100.  The names of the commands are cut to one or two        *)
(* characters, of which one is the beginning of another's.                 *)
(***************************************************************************)
EXTENDS Monitor

MCCommands == [help |-> << "h", "e" >>, kerninfo |-> << "h" >>, backtrace |-> << "b" >>]
MCChars == {"h", "e", "b", " "}
MCLines == UNION {[1 .. n -> MCChars] : n \in 0 .. 4} \cup [1 .. 5 -> {"b", " "}]
             \cup {<< "TAB", "b", "NL" >>, << "b", "CR", "h", "CR", "h", "CR", "h" >>}

-----------------------------------------------------------------------------
(* The stabs that the compiler writes for code given as a sequence of      *)
(* files.  A file [name, start, end, funs, lines] of C has functions       *)
(* [name, start, end, narg, lines]; a file of assembly has lines only.     *)
(* A line [at, no, file] begins at 'at', from the start of the function,   *)
(* or as an address in an assembly file.                                   *)
Stab(type, value, desc, str) == [type |-> type, value |-> value, desc |-> desc, str |-> str]
LineStabs(lines, own, base) ==
  FlattenSeq([n \in DOMAIN lines |->
    LET prev == IF n = 1 THEN own ELSE lines[n - 1].file
    IN  (IF lines[n].file # prev
         THEN << Stab("SOL", base + lines[n].at, 0, lines[n].file) >> ELSE << >>)
          \o << Stab("SLINE", lines[n].at, lines[n].no, << >>) >>])
FunStabs(f, own) ==
  << Stab("FUN", f.start, 0, f.name \o << ":", "F" >>) >>
    \o [n \in 1 .. f.narg |-> Stab("PSYM", 8 + 4 * n, 0, << "arg" >>)]
    \o LineStabs(f.lines, own, f.start)
    \o (IF f.lines # << >> /\ Last(f.lines).file # own
        THEN << Stab("SOL", f.end, 0, own) >> ELSE << >>)
FileStabs(x) ==
  << Stab("SO", x.start, 0, x.name) >> \o LineStabs(x.lines, x.name, 0)
    \o FlattenSeq([n \in DOMAIN x.funs |-> FunStabs(x.funs[n], x.name)])
    \o << Stab("SO", x.end, 0, << >>) >>
Table(files) ==
  LET s == << Stab("UNDF", 0, 0, << >>) >>
             \o FlattenSeq([n \in DOMAIN files |-> FileStabs(files[n])])
  IN  [strings |-> TRUE, stabs |-> [k \in 0 .. Len(s) - 1 |-> s[k + 1]]]

(* What is at an address: the line that begins last before it.             *)
LineAt(lines, a) == lines[Max({n \in DOMAIN lines : lines[n].at <= a})]
TruthAt(files, a) ==
  LET x == CHOOSE y \in ToSet(files) : a \in y.start .. y.end - 1
      F == {f \in ToSet(x.funs) : a \in f.start .. f.end - 1}
      f == CHOOSE g \in F : TRUE
      l == IF F = {} THEN LineAt(x.lines, a) ELSE LineAt(f.lines, a - f.start)
  IN  [file |-> l.file, line |-> l.no,
       fn |-> IF F = {} THEN << "<unknown>" >> ELSE f.name,
       narg |-> IF F = {} THEN 0 ELSE f.narg,
       fn_addr |-> IF F = {} THEN a ELSE f.start]
Addresses(files) == UNION {x.start .. x.end - 1 : x \in ToSet(files)}

L(at, no, file) == [at |-> at, no |-> no, file |-> << file >>]
Entry == [name |-> << "entry.S" >>, start |-> 1000, end |-> 1006, funs |-> << >>,
          lines |-> << L(1000, 44, "entry.S"), L(1002, 57, "entry.S"), L(1004, 80, "entry.S") >>]
InitC == [name |-> << "init.c" >>, start |-> 1008, end |-> 1028, lines |-> << >>,
          funs |-> << [name |-> << "test_backtrace" >>, start |-> 1008, end |-> 1018, narg |-> 1,
                       lines |-> << L(0, 14, "init.c"), L(3, 16, "init.c"), L(7, 18, "init.c") >>],
                      [name |-> << "i386_init" >>, start |-> 1018, end |-> 1028, narg |-> 0,
                       lines |-> << L(0, 25, "init.c"), L(4, 9, "x86.h"), L(8, 40, "init.c") >>] >>]
MonC  == [name |-> << "monitor.c" >>, start |-> 1028, end |-> 1036, lines |-> << >>,
          funs |-> << [name |-> << "monitor" >>, start |-> 1028, end |-> 1036, narg |-> 2,
                       lines |-> << L(0, 7, "x86.h"), L(4, 9, "monitor.c") >>] >>]
Hello == [name |-> << "hello.c" >>, start |-> 100, end |-> 108, lines |-> << >>,
          funs |-> << [name |-> << "umain" >>, start |-> 100, end |-> 108, narg |-> 2,
                       lines |-> << L(0, 5, "hello.c"), L(4, 7, "hello.c") >>] >>]

Program(k, u) ==
  [tables |-> [kernel |-> Table(k), user |-> Table(u)],
   truth  |-> [a \in Addresses(k) \cup Addresses(u) |->
                 IF a >= ULIM THEN TruthAt(k, a) ELSE TruthAt(u, a)]]
Program1 == Program(<< Entry, InitC, MonC >>, << Hello >>)
Entry2 == [Entry EXCEPT !.start = 1040, !.end = 1046,
                        !.lines = << L(1040, 44, "entry.S"), L(1043, 57, "entry.S") >>]
Program2 == Program(<< InitC, MonC, Entry2 >>, << Hello >>)

(* A user program whose string table does not end with a NUL.              *)
Program3 ==
  [Program1 EXCEPT !.tables.user.strings = FALSE,
                   !.truth = [a \in DOMAIN @ |-> IF a < ULIM THEN Unknown(a) ELSE @[a]]]
MCPrograms == << Program1, Program2, Program3 >>

(* Stacks of three frames, the innermost in monitor, the outermost in      *)
(* i386_init, in entry.S or in a user program.                             *)
Stack3(a, b, c) ==
  [ebp |-> 7, mem |-> 7 :> [ebp |-> 3, eip |-> a] @@ 3 :> [ebp |-> 5, eip |-> b]
                        @@ 5 :> [ebp |-> 0, eip |-> c]]
MCStacks == {Stack3(a, 1012, 1026) : a \in 1028 .. 1035}
              \cup {Stack3(1032, b, 104) : b \in 1008 .. 1027}

-----------------------------------------------------------------------------
(* Small tables of stabs of two types, in the order of their addresses.    *)
MCTables ==
  {[k \in DOMAIN t |-> Stab(t[k][1], t[k][2], 0, << >>)] :
     t \in {u \in [0 .. 3 -> {"SO", "FUN"} \X {2, 3, 5, 6}] :
             \A j, k \in 0 .. 3 : j < k => u[j][2] <= u[k][2]}}

=============================================================================
