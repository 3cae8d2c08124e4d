------------------------------ MODULE Printfmt ------------------------------
(***************************************************************************)
(* Formatted output: vprintfmt of lib/printfmt.c with printnum, and the    *)
(* three functions putch that take what it prints: that of snprintf, that  *)
(* of user programs (lib/printf.c) and that of the kernel (module Output). *)
(*                                                                         *)
(* A format is a sequence of characters, an argument list ap a sequence of *)
(* integers and of strings, which are sequences of characters; NOSTRING is *)
(* the null pointer.  An int has INTBITS bits, a long long LLBITS.         *)
(***************************************************************************)
EXTENDS Strings, SequencesExt

CONSTANTS INTBITS, LLBITS,
  PRINTBUF,       \* the size of buf in struct printbuf, 256
  error_string    \* the messages of lib/printfmt.c, by error code; 0 has none

ASSUME PrintfmtAssumption ==
  INTBITS \in Nat /\ LLBITS \in Nat /\ INTBITS <= LLBITS /\ PRINTBUF \in Nat \ {0, 1}

NOSTRING == "NULL"
WILD == "WILD"      \* whatever a pointer read outside of error_string leads to
Digit == << "0", "1", "2", "3", "4", "5", "6", "7", "8", "9",
            "a", "b", "c", "d", "e", "f" >>
ValueOf(ch) == (CHOOSE n \in 1 .. 16 : Digit[n] = ch) - 1
Decimal == {Digit[n] : n \in 1 .. 10}
Padding(c, n) == [k \in 1 .. n |-> c]

(* printnum(putch, putdat, num, base, width, padc): the digits before the  *)
(* last, the padding before the first of them, and the last.               *)
printnum(num, base, width, padc) ==
  LET digits[u \in Nat, w \in Int] ==
        (IF u >= base THEN digits[u \div base, w - 1] ELSE Padding(padc, w - 1))
          \o << Digit[(u % base) + 1] >>
  IN  digits[num, width]

(* The argument as an unsigned and as a signed integer of the size that    *)
(* lflag asks for; a long is as large as an int.                           *)
Bits(lflag) == IF lflag >= 2 THEN LLBITS ELSE INTBITS
getuint(arg, lflag) == arg % 2^Bits(lflag)
getint(arg, lflag) ==
  LET u == getuint(arg, lflag)
  IN  IF u < 2^(Bits(lflag) - 1) THEN u ELSE u - 2^Bits(lflag)

-----------------------------------------------------------------------------
(* The case 's' of vprintfmt; '#' replaces what cannot be printed.         *)
print_string(arg, o) ==
  LET p    == IF arg = NOSTRING THEN << "(", "n", "u", "l", "l", ")" >> ELSE arg
      n    == strnlen(AsMemory(p), 0, o.precision)
      body == [k \in 1 .. n |->
                 IF o.altflag /\ p[k] \in {"NL", "TAB", "BS", "CR"} THEN "?" ELSE p[k]]
  IN  IF o.padc # "-" THEN Padding(o.padc, o.width - n) \o body
      ELSE body \o Padding(" ", o.width - n)

-----------------------------------------------------------------------------
(* The flags, width and precision of a directive, before it is read.       *)
NoFlags == [padc |-> " ", width |-> -1, precision |-> -1, lflag |-> 0, altflag |-> FALSE]

(* Mutant: the first number is always the width.                           *)
process_precision_width(o, n) == [o EXCEPT !.width = n]

(* A number is the width, or the precision if there is a width already; a  *)
(* '.' makes the width 0 if there is none.                                 *)
process_precision(o, n) ==
  IF o.width < 0 THEN [o EXCEPT !.width = n, !.precision = -1]
  ELSE [o EXCEPT !.precision = n]

(* The number at the start of f, and what comes after it.                  *)
read_number[f \in Seq(STRING), n \in Nat] ==
  IF f # << >> /\ Head(f) \in Decimal
  THEN read_number[Tail(f), 10 * n + ValueOf(Head(f))]
  ELSE [n |-> n, rest |-> f]

(* The rounds of 'reswitch': read flags until a conversion is met.  used   *)
(* counts the arguments that were taken from ap.                           *)
Flags == [padc : STRING, width : Int, precision : Int, lflag : Nat, altflag : BOOLEAN]
reswitch(fmt, ap, before) ==
  LET round[f \in Seq(STRING), used \in Nat, o \in Flags] ==
        LET ch == IF f = << >> THEN NUL ELSE Head(f)
            r  == IF f = << >> THEN f ELSE Tail(f)
        IN  CASE ch \in {"-", "0"} -> round[r, used, [o EXCEPT !.padc = ch]]
              [] ch \in Decimal \ {"0"} ->
                   LET d == read_number[f, 0] IN round[d.rest, used, process_precision(o, d.n)]
              [] ch = "*" -> round[r, used + 1, process_precision(o, ap[used + 1])]
              [] ch = "." -> round[r, used, IF o.width < 0 THEN [o EXCEPT !.width = 0] ELSE o]
              [] ch = "#" -> round[r, used, [o EXCEPT !.altflag = TRUE]]
              [] ch = "l" -> round[r, used, [o EXCEPT !.lflag = @ + 1]]
              [] OTHER    -> [ch |-> ch, rest |-> r, used |-> used, o |-> o]
  IN  round[fmt, before, NoFlags]

(* The case 'e': printfmt with the message's format, "error %d" or "%s".   *)
(* -err of the smallest int is itself, which is below MAXERROR but no      *)
(* index of error_string.                                                  *)
magnitude(arg) == LET v == getint(arg, 0) IN IF v < 0 THEN getint(-v, 0) ELSE v
print_error(err) ==
  IF err < 0 THEN << WILD >>
  ELSE IF err \notin DOMAIN error_string
  THEN << "e", "r", "r", "o", "r", " " >> \o printnum(err, 10, NoFlags.width, NoFlags.padc)
  ELSE print_string(error_string[err], NoFlags)

(* vprintfmt(putch, putdat, fmt, ap): the characters it gives to putch.    *)
(* An unknown conversion prints its '%' and goes on behind it, so that the *)
(* rest of the directive is printed as it stands.                          *)
vprintfmt(fmt, ap) ==
  LET rest[f \in Seq(STRING), before \in Nat] ==
        IF f = << >> THEN << >>
        ELSE IF Head(f) # "%" THEN << Head(f) >> \o rest[Tail(f), before]
        ELSE LET s     == reswitch(Tail(f), ap, before)
                 arg   == ap[s.used + 1]
                 num(u, base) == printnum(u, base, s.o.width, s.o.padc)
                 neg(v) == IF v < 0 THEN << "-" >> \o num(-v, 10) ELSE num(v, 10)
                 text  ==
                   CASE s.ch = "c" -> << arg >>
                     [] s.ch = "e" -> print_error(magnitude(arg))
                     [] s.ch = "s" -> print_string(arg, s.o)
                     [] s.ch = "d" -> neg(getint(arg, s.o.lflag))
                     [] s.ch = "u" -> num(getuint(arg, s.o.lflag), 10)
                     [] s.ch = "o" -> num(getuint(arg, s.o.lflag), 8)
                     [] s.ch = "p" -> << "0", "x" >> \o num(getuint(arg, 0), 16)
                     [] s.ch = "x" -> num(getuint(arg, s.o.lflag), 16)
                     [] OTHER      -> << "%" >>
             IN  text \o (CASE s.ch \in {"c", "e", "s", "d", "u", "o", "p", "x"} ->
                                 rest[s.rest, s.used + 1]
                            [] s.ch = "%" -> rest[s.rest, s.used]
                            [] OTHER      -> rest[Tail(f), s.used])
  IN  rest[fmt, 0]

-----------------------------------------------------------------------------
(* sprintputch: count the character, and store it if there is room.        *)
sprintputch(b, ch, n) ==
  [b EXCEPT !.cnt = @ + 1, !.buf = IF Len(@) < n - 1 THEN Append(@, ch) ELSE @]

(* vsnprintf(buf, n, ...) of a text, for n >= 1.                           *)
vsnprintf(text, n) ==
  LET b == FoldLeft(LAMBDA s, ch : sprintputch(s, ch, n), [buf |-> << >>, cnt |-> 0], text)
  IN  [buf |-> Append(b.buf, NUL), cnt |-> b.cnt]

(* Mutant: a full buffer is written out, but not emptied.                  *)
putch_keep(b, ch) ==
  LET s == Append(b.buf, ch)
  IN  [buf |-> s, cnt |-> b.cnt + 1,
       calls |-> IF Len(s) = PRINTBUF - 1 THEN Append(b.calls, s) ELSE b.calls]

(* putch of a user program: when 255 characters are in the buffer they go  *)
(* to the kernel in one call of sys_cputs.                                 *)
putch(b, ch) ==
  LET s == Append(b.buf, ch)
  IN  IF Len(s) = PRINTBUF - 1
      THEN [buf |-> << >>, cnt |-> b.cnt + 1, calls |-> Append(b.calls, s)]
      ELSE [b EXCEPT !.buf = s, !.cnt = @ + 1]

(* vcprintf of a user program: the calls of sys_cputs, and the result.     *)
vcprintf_user(text) ==
  LET b == FoldLeft(putch, [buf |-> << >>, cnt |-> 0, calls |-> << >>], text)
  IN  [calls |-> Append(b.calls, b.buf), cnt |-> b.cnt]

-----------------------------------------------------------------------------
(* strtol(s, 0, base) of lib/string.c for base 8, 10 and 16, where val is  *)
(* a long that wraps around, and s is text with its NUL.                   *)
strtol(text, base) ==
  LET m   == AsMemory(text)
      s1  == Scan(0, {a \in Nat : m[a] \in {" ", "TAB"}})
      neg == m[s1] = "-"
      s2  == IF m[s1] \in {"+", "-"} THEN s1 + 1 ELSE s1
      s3  == IF base = 16 /\ m[s2] = "0" /\ m[s2 + 1] = "x" THEN s2 + 2 ELSE s2
      end == Scan(s3, {a \in Nat : \E n \in 1 .. base : m[a] = Digit[n]})
      val == FoldLeft(LAMBDA v, ch : v * base + ValueOf(ch), 0, SubSeq(text, s3 + 1, end))
  IN  [val |-> getint(IF neg THEN -val ELSE val, 0), end |-> end]

(* sys_cputs(s, len) of the kernel is cprintf("%.*s", len, s).             *)
sys_cputs(s) == vprintfmt(<< "%", ".", "*", "s" >>, << Len(s), s >>)

=============================================================================
