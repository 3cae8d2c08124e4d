------------------------------- MODULE Monitor -------------------------------
(***************************************************************************)
(* The kernel monitor, kern/monitor.c: the prompt, runcmd, which splits a  *)
(* line into arguments in place, and the commands, of which backtrace      *)
(* walks the stack and prints what debuginfo_eip says of every frame.      *)
(* Console has the readline that the lines come from.                      *)
(***************************************************************************)
EXTENDS Kdebug, SequencesExt, TLC

CONSTANTS
  MAXARGS,
  Commands,   \* the names in commands[], in their order
  Lines,      \* the lines that readline may return
  Stacks,     \* the stacks that mon_backtrace may be called on
  Programs,   \* the stabs of some code, and the truth about its instructions
  Tables      \* tables of stabs to search in

ASSUME MonitorAssumption ==
  MAXARGS \in Nat \ {0} /\ "backtrace" \in DOMAIN Commands /\ Lines \subseteq Seq(STRING)

(* The stabs of a table that stand for addresses are, type by type, in the *)
(* order of their addresses, as stab_binsearch relies on.                  *)
InOrder(stabs, type, S) ==
  \A j, k \in S : j < k /\ stabs[j].type = type /\ stabs[k].type = type
                    => stabs[j].value <= stabs[k].value
ASSUME TablesAssumption ==
  \A stabs \in Tables :
    /\ IsFiniteSet(DOMAIN stabs) /\ DOMAIN stabs = 0 .. Cardinality(DOMAIN stabs) - 1
    /\ \A k \in DOMAIN stabs : stabs[k].value \in Nat
    /\ \A type \in {"SO", "FUN"} : InOrder(stabs, type, DOMAIN stabs)

WHITESPACE == << "TAB", "CR", "NL", " " >>

VARIABLES
  mode,
  buf,       \* the line in memory
  line,      \* the line as it was typed
  argv,      \* the addresses of the arguments in buf; argc is its length
  ran,       \* what runcmd did: the name of a command, "unknown" or "too many"
  prog,      \* the code that runs
  stack,     \* stack[ebp] is the saved %ebp and the return address of a frame
  ebp,
  printed    \* what mon_backtrace has printed of the frames, by their %ebp;
             \* stack and printed are forgotten when it returns
command == <<buf, line, argv, ran>>
trace   == <<prog, stack, ebp, printed>>
monvars    == <<mode, command, trace>>

MonInit ==
  /\ mode = "prompt" /\ buf = AsMemory(<< >>) /\ line = << >> /\ argv = << >>
  /\ ran = "none" /\ printed = << >> /\ ebp = 0
  /\ prog \in DOMAIN Programs /\ stack = << >>

(* monitor calls readline.                                                 *)
monitor(l) ==
  /\ mode = "prompt"
  /\ line' = l /\ buf' = AsMemory(l) /\ argv' = << >> /\ ran' = "none"
  /\ mode' = "parse"
  /\ UNCHANGED trace

-----------------------------------------------------------------------------
IsWhite(c) == strchr(AsMemory(WHITESPACE), 0, c) # -1

(* Mutant: there is one argument too many before it is noticed.            *)
args_full_late(n) == n = MAXARGS

(* argc == MAXARGS-1: the last element of argv is the null pointer.        *)
args_full(n) == n = MAXARGS - 1

(* The white space before 'end' replaced by NULs: the loop of runcmd never *)
(* comes back to what it has overwritten.                                  *)
gobble(b, end) == [x \in DOMAIN b |-> IF x < end /\ IsWhite(b[x]) THEN NUL ELSE b[x]]

(* That loop, which fills argv.                                            *)
split(b) ==
  LET skip[a \in Nat] == IF b[a] # NUL /\ IsWhite(b[a]) THEN skip[a + 1] ELSE a
      word[a \in Nat] == IF b[a] # NUL /\ ~IsWhite(b[a]) THEN word[a + 1] ELSE a
      fill[a \in Nat, args \in Seq(Nat)] ==
        IF b[a] = NUL \/ args_full(Len(args))
        THEN [end |-> a, args |-> args, full |-> b[a] # NUL]
        ELSE fill[skip[word[a]], Append(args, a)]
  IN  fill[skip[0], << >>]

(* runcmd(buf): split the line, and look the command up.  The names are    *)
(* compared as strings in one memory, the name behind the line.            *)
SameName(b, a, name) ==
  LET n == Cardinality(DOMAIN b)
  IN  strcmp_eq([x \in 0 .. n + Len(name) |-> IF x < n THEN b[x] ELSE AsMemory(name)[x - n]],
                a, n)
runcmd ==
  /\ mode = "parse"
  /\ LET s == split(buf)
         C == {c \in DOMAIN Commands : SameName(buf', s.args[1], Commands[c])}
     IN  /\ buf' = gobble(buf, s.end) /\ argv' = s.args
         /\ ran' = CASE s.full -> "too many"
                     [] ~s.full /\ s.args = << >> -> "none"
                     [] OTHER -> IF C = {} THEN "unknown" ELSE CHOOSE c \in C : TRUE
         /\ mode' = IF ran' = "backtrace" THEN "backtrace" ELSE "prompt"
  /\ UNCHANGED <<line, trace>>

-----------------------------------------------------------------------------
(* mon_backtrace starts at the frame in %ebp.                              *)
mon_backtrace(s) ==
  /\ mode = "backtrace"
  /\ stack' = s.mem /\ ebp' = s.ebp /\ printed' = << >>
  /\ mode' = "frame"
  /\ UNCHANGED <<command, prog>>

(* Mutant: the walk does not end at the outermost frame.                   *)
next_frame_on(e) ==
  IF stack[e].ebp # 0 THEN stack[e].ebp ELSE CHOOSE x \in DOMAIN stack : x # e

(* ebp = *ebp                                                              *)
next_frame(e) == stack[e].ebp

(* What it prints of a frame.  The offset is divided by 8.                 *)
frame_line(eip, i) == [file |-> i.file, line |-> i.line, fn |-> i.fn, narg |-> i.narg,
                       off |-> (eip - i.fn_addr) \div 8]

(* One round of its loop.                                                  *)
backtrace_frame ==
  /\ mode = "frame"
  /\ \/ /\ ebp = 0
        /\ mode' = "prompt" /\ stack' = << >> /\ printed' = << >>
        /\ UNCHANGED ebp
     \/ /\ ebp # 0
        /\ printed' = (ebp :> frame_line(stack[ebp].eip,
                                        debuginfo_eip(Programs[prog].tables, stack[ebp].eip)))
                       @@ printed
        /\ ebp' = next_frame(ebp)
        /\ UNCHANGED <<mode, stack>>
  /\ UNCHANGED <<command, prog>>

MonNext ==
  \/ \E l \in Lines : monitor(l)
  \/ runcmd
  \/ \E s \in Stacks : mon_backtrace(s)
  \/ backtrace_frame

(* Weak fairness of the steps of a command: one of them is enabled         *)
(* whenever the monitor is not at its prompt.                              *)
Fairness == []<>(mode = "prompt") \/ []<><<MonNext /\ mode # "prompt">>_monvars
MonitorSpec == MonInit /\ [][MonNext]_monvars /\ Fairness

-----------------------------------------------------------------------------
(* The arguments of a line: where a character that is not white follows    *)
(* white space or starts the line, up to the next white space.             *)
White(k) == k \in DOMAIN line /\ line[k] \in {"TAB", "CR", "NL", " "}
Starts == SetToSortSeq({k \in DOMAIN line : ~White(k) /\ (k = 1 \/ White(k - 1))}, <)
WordAt(k) ==
  SubSeq(line, k, Min({e \in k .. Len(line) : e = Len(line) \/ White(e + 1)}))
Words == [n \in DOMAIN Starts |-> WordAt(Starts[n])]
StringAt(a) == [n \in 1 .. strlen(buf, a) |-> buf[a + n - 1]]

(* CommandRun: once runcmd has split a line, argv points to its words,     *)
(* each ended by a NUL, with room for the null pointer behind them; the    *)
(* command that runs is the one whose name the first word is, all of it.   *)
(* A line with more words, or another first word, runs nothing.            *)
CommandRun ==
  mode # "parse" /\ line # << >> =>
    /\ Len(argv) < MAXARGS
    /\ ran = "too many" <=> Len(Words) >= MAXARGS
    /\ ran # "too many" => [n \in DOMAIN argv |-> StringAt(argv[n])] = Words
    /\ Len(Words) \in 1 .. MAXARGS - 1 =>
         IF \E c \in DOMAIN Commands : Commands[c] = Words[1]
         THEN Commands[ran] = Words[1] ELSE ran = "unknown"

(* FramesResolved: a backtrace prints every frame of the stack, each with  *)
(* the file, line and function that its return address lies in, whatever   *)
(* was inlined there.                                                      *)
Truth(e) == Programs[prog].truth[stack[e].eip]
FramesResolved ==
  /\ \A e \in DOMAIN printed :
       \A x \in {"file", "line", "fn", "narg"} : printed[e][x] = Truth(e)[x]
  /\ mode = "frame" /\ ebp = 0 => DOMAIN printed = DOMAIN stack

(* OffsetInBytes: the last thing that is printed of a frame is the offset  *)
(* of the return address in its function, "in bytes" as the comment above  *)
(* mon_backtrace says (kern/monitor.c:82), which samples monitor+106.      *)
OffsetInBytes ==
  \A e \in DOMAIN printed : printed[e].off = stack[e].eip - Truth(e).fn_addr

(* The comment above stab_binsearch: *region_left is the last matching     *)
(* stab that does not lie behind addr, *region_right points just before    *)
(* the next one, and left > right says that there is none.                 *)
Contract(stabs, lo, hi, type, addr) ==
  LET S == Matching(stabs, type, lo, hi)
      B == {k \in S : stabs[k].value <= addr}
      A == {k \in S : stabs[k].value > addr}
      r == stab_binsearch(stabs, lo, hi, type, addr)
  IN  IF B = {} THEN r.left > r.right
      ELSE r.left = Max(B) /\ r.right = (IF A = {} THEN hi ELSE Min(A) - 1)

(* A fact about every search in Tables.  It does not depend on the state,  *)
(* and is looked at when an empty line was typed.                          *)
Everywhere(P(_, _, _, _, _)) ==
  mode = "parse" /\ line = << >> =>
    \A stabs \in Tables :
      LET hi == Cardinality(DOMAIN stabs) - 1
      IN  \A lo \in 0 .. hi, type \in {"SO", "FUN"}, addr \in 1 .. 8 : P(stabs, lo, hi, type, addr)

(* SearchContract: the comment, for every address and every range.         *)
SearchContract == Everywhere(Contract)

(* Where the code does not do what the comment says: an address before all *)
(* the matching stabs leaves left <= right, and one at a matching stab is  *)
(* raised by 1 (addr++), which is wrong if the next match is there.        *)
BeforeAll(stabs, S, addr) == S # {} /\ \A k \in S : stabs[k].value > addr
NextToMatch(stabs, S, addr) ==
  \E j, k \in S : stabs[j].value = addr /\ stabs[k].value = addr + 1

(* SearchRight: everywhere else it does, whatever lies between the matches *)
(* and however many of them are at one address.                            *)
SearchedRight(stabs, lo, hi, type, addr) ==
  LET S == Matching(stabs, type, lo, hi)
  IN  ~BeforeAll(stabs, S, addr) /\ ~NextToMatch(stabs, S, addr)
        => Contract(stabs, lo, hi, type, addr)
SearchRight == Everywhere(SearchedRight)

(* CopiesExact: memmove leaves at the destination what the source held,    *)
(* however the two overlap, and nothing else changes.  strncpy and strlcpy *)
(* write to no more than size characters, strlcpy always ends its string,  *)
(* and what they write is the beginning of the source, as strncmp, memcmp, *)
(* strnlen and memfind see it.                                             *)
Moved(d, s, n) == [a \in DOMAIN buf |-> IF a \in d .. d + n - 1 THEN buf[a - d + s] ELSE buf[a]]
CopiesExact ==
  LET N == Cardinality(DOMAIN buf)
      m == [a \in 0 .. 2 * N |-> IF a < N THEN buf[a] ELSE "old"]
      word(x, n) == [k \in 1 .. n |-> x[N + k - 1]]
  IN  mode = "parse" =>
        /\ \A d, s \in 0 .. N - 1 : \A n \in 0 .. N - Max({d, s}) :
             memmove(buf, d, s, n) = Moved(d, s, n)
        /\ \A s \in 0 .. N - 1, size \in 0 .. N :
             LET n == strlen(m, s)
                 c == strncpy(m, N, s, size)
                 l == strlcpy(m, N, s, size)
             IN  /\ word(c, size) = [k \in 1 .. size |-> IF k <= n THEN m[s + k - 1] ELSE NUL]
                 /\ \A a \in N + size .. 2 * N : c[a] = "old" /\ l.m[a] = "old"
                 /\ size > 0 => /\ l.n = Min({n, size - 1}) /\ strlen(l.m, N) = l.n
                                /\ strncmp_eq(l.m, N, s, l.n) /\ memcmp_eq(l.m, N, s, l.n)
                                /\ memfind(l.m, N, NUL, size) = N + l.n

(* PromptAgain: whatever was typed, the monitor comes back to its prompt;  *)
(* a backtrace ends at the frame whose %ebp entry.S cleared.               *)
PromptAgain == [](mode # "prompt" => <>(mode = "prompt"))

=============================================================================
