------------------------------- MODULE Output -------------------------------
(***************************************************************************)
(* The output side of kern/console.c, and cprintf on top of it: cons_putc  *)
(* gives every character to the serial port, to the parallel port and to   *)
(* the CGA display.                                                        *)
(*                                                                         *)
(* The kernel waits for a port to be ready, but not for ever: the port may *)
(* take any time to send a character, and when the wait is over the next   *)
(* character is written over it.  The display is memory, and is scrolled.  *)
(***************************************************************************)
EXTENDS Printfmt

CONSTANTS
  CRT_ROWS, CRT_COLS,
  POLLS,        \* how often a port is polled, 12800
  Calls,        \* the calls of cprintf and snprintf, as defined below
  Echo,         \* the characters that readline echoes with cputchar
  CursorAt,     \* where the BIOS may leave the cursor
  NoSerial,     \* the message of cons_init when there is no serial port
  MaxOut        \* bound: characters after which readline echoes no more; it
                \* does not either behind a call that leaves the console alone

CRT_SIZE == CRT_ROWS * CRT_COLS
NoCall == [to |-> "none", n |-> 0, dirs |-> << >>]

ASSUME OutputAssumption ==
  /\ CRT_ROWS \in Nat \ {0} /\ CRT_COLS \in Nat \ {0} /\ POLLS \in Nat
  /\ CursorAt \subseteq 0 .. CRT_SIZE - 1 /\ CursorAt # {}

VARIABLES
  call,     \* the last call of cprintf or snprintf
  full,     \* the characters that vprintfmt made of it
  got,      \* what snprintf, or cprintf in a user program, left
  port,     \* where cons_putc is
  text,     \* the characters still to be given to cons_putc, from the current one on
  tries,    \* the loop counter i of serial_putc and lpt_putc
  serial_exists,
  thr,      \* the transmit buffer of the serial port: a character, or none
  sent,     \* the number of characters the serial port has sent
  late,     \* the number of characters written when the wait had run out
  lptrdy,   \* whether the printer is ready
  crt_buf, crt_pos,
  cursor,   \* the cursor registers of the 6845, high and low byte
  cursor0,  \* where the cursor was at first
  shown     \* the characters that cga_putc has been given

printing == <<call, full, got>>
serial   == <<serial_exists, thr, sent, late>>
display  == <<crt_buf, crt_pos, cursor, cursor0, shown>>
outvars  == <<printing, port, text, tries, serial, lptrdy, display>>

HighLow(n) == << n \div 256, n % 256 >>

(* The cursor is where the BIOS left it; the serial port is missing when   *)
(* its status reads as 0xFF.                                               *)
cga_init ==
  /\ crt_buf = [n \in 0 .. CRT_SIZE - 1 |-> "bios"]
  /\ cursor0 \in CursorAt /\ cursor = HighLow(cursor0)
  /\ crt_pos = cursor[1] * 256 + cursor[2]
  /\ shown = << >>
serial_init ==
  /\ serial_exists \in BOOLEAN
  /\ thr = << >> /\ sent = 0 /\ late = 0

(* cons_init, which says so when there is no serial port.                  *)
OutInit ==
  /\ cga_init /\ serial_init
  /\ text = (IF serial_exists THEN << >> ELSE NoSerial)
  /\ port = (IF serial_exists THEN "idle" ELSE "serial")
  /\ call = NoCall /\ full = << >> /\ got = [cnt |-> -1] /\ tries = 0 /\ lptrdy = TRUE

-----------------------------------------------------------------------------
(* A call [to, n, dirs] of cprintf in the kernel or in a user program, or  *)
(* of snprintf with a buffer of n characters.  dirs is a sequence of       *)
(* directives, with these fields: flag is "-", "0" or "", width and prec   *)
(* numbers or -1, star whether they are given as '*', l the number of 'l'  *)
(* and alt whether there is a '#'.                                         *)
Numeric == {"d", "u", "o", "x", "p"}
Number(n) ==
  (IF n < 10 THEN << >> ELSE << Digit[1 + (n \div 10)] >>) \o << Digit[1 + (n % 10)] >>
Field(d, n) == IF n < 0 THEN << >> ELSE IF d.star THEN << "*" >> ELSE Number(n)
FormatOf(d) ==
  << "%" >> \o (IF d.alt THEN << "#" >> ELSE << >>)
         \o (IF d.flag = "" THEN << >> ELSE << d.flag >>)
         \o Field(d, d.width)
         \o (IF d.prec < 0 THEN << >> ELSE << "." >> \o Field(d, d.prec))
         \o Padding("l", d.l) \o << d.conv >>
ArgsOf(d) ==
  LET star(n) == IF n >= 0 /\ d.star THEN << n >> ELSE << >>
  IN  star(d.width) \o star(d.prec)
        \o (IF d.conv \in Numeric \cup {"c", "e", "s"} THEN << d.arg >> ELSE << >>)
Expand(dirs) ==
  vprintfmt(FlattenSeq([k \in DOMAIN dirs |-> FormatOf(dirs[k])]),
            FlattenSeq([k \in DOMAIN dirs |-> ArgsOf(dirs[k])]))

(* cons_putc is called for the characters of s, one after the other.       *)
PutAll(s) == text' = s /\ port' = (IF s = << >> THEN "idle" ELSE "serial")

cprintf(c) ==
  /\ port = "idle" /\ shown = << >> /\ call = NoCall
  /\ call' = c
  /\ full' = Expand(c.dirs)
  /\ \/ c.to = "kernel" /\ PutAll(full') /\ UNCHANGED got
     \/ /\ c.to = "user"
        /\ got' = vcprintf_user(full')
        /\ UNCHANGED <<port, text>>
     \/ /\ c.to = "buffer"
        /\ got' = vsnprintf(full', c.n)
        /\ UNCHANGED <<port, text>>
  /\ UNCHANGED <<tries, serial, lptrdy, display>>

cputchar(ch) ==
  /\ port = "idle" /\ got.cnt = -1 /\ Len(shown) + Len(full) < MaxOut
  /\ PutAll(<< ch >>)
  /\ UNCHANGED <<printing, tries, serial, lptrdy, display>>

-----------------------------------------------------------------------------
(* Mutant: the counter of the polls stays as it is.                        *)
poll_stuck(n) == n

poll(n) == n + 1

(* Mutant: the test of the ready bit is inverted.                          *)
busy_inverted(ready) == ready /\ tries < POLLS

(* The condition of the loops of serial_putc and lpt_putc.                 *)
busy(ready) == ~ready /\ tries < POLLS

TxReady == thr = << >> \/ ~serial_exists     \* a missing port reads as 0xFF

serial_wait ==
  /\ port = "serial" /\ busy(TxReady)
  /\ tries' = poll(tries)
  /\ UNCHANGED <<printing, port, text, serial, lptrdy, display>>

serial_putc ==
  /\ port = "serial" /\ ~busy(TxReady)
  /\ thr' = IF serial_exists THEN << Head(text) >> ELSE << >>
  /\ late' = IF tries = POLLS THEN late + 1 ELSE late
  /\ port' = "lpt" /\ tries' = 0
  /\ UNCHANGED <<printing, text, serial_exists, sent, lptrdy, display>>

lpt_wait ==
  /\ port = "lpt" /\ busy(lptrdy)
  /\ tries' = poll(tries)
  /\ UNCHANGED <<printing, port, text, serial, lptrdy, display>>

(* The strobe makes the printer busy.                                      *)
lpt_putc ==
  /\ port = "lpt" /\ ~busy(lptrdy)
  /\ lptrdy' = FALSE
  /\ port' = "cga" /\ tries' = 0
  /\ UNCHANGED <<printing, text, serial, display>>

(* Mutant: the last row keeps what was there.                              *)
scroll_keep(b) == memmove(b, 0, CRT_COLS, CRT_SIZE - CRT_COLS)

(* Scroll the display up by a row.                                         *)
scroll(b) ==
  memset(memmove(b, 0, CRT_COLS, CRT_SIZE - CRT_COLS), CRT_SIZE - CRT_COLS, " ", CRT_COLS)

(* The switch of cga_putc, on the display b and the position p.  The five  *)
(* calls of cons_putc for a tab come next.                                 *)
cga_char(b, p, ch) ==
  CASE ch = "BS" -> IF p > 0 THEN [b |-> [b EXCEPT ![p - 1] = " "], p |-> p - 1]
                    ELSE [b |-> b, p |-> p]
    [] ch = "NL" -> [b |-> b, p |-> p + CRT_COLS - (p % CRT_COLS)]
    [] ch = "CR" -> [b |-> b, p |-> p - (p % CRT_COLS)]
    [] ch = "TAB" -> [b |-> b, p |-> p]
    [] OTHER -> [b |-> [b EXCEPT ![p] = ch], p |-> p + 1]

cga_putc ==
  /\ port = "cga"
  /\ LET ch == Head(text)
         s  == cga_char(crt_buf, crt_pos, ch)
         over == s.p >= CRT_SIZE
     IN  /\ crt_buf' = IF over THEN scroll(s.b) ELSE s.b
         /\ crt_pos' = IF over THEN s.p - CRT_COLS ELSE s.p
         /\ cursor' = HighLow(crt_pos')
         /\ shown' = Append(shown, ch)
         /\ PutAll((IF ch = "TAB" THEN Padding(" ", 5) ELSE << >>) \o Tail(text))
  /\ UNCHANGED <<printing, tries, serial, lptrdy, cursor0>>

-----------------------------------------------------------------------------
(* The serial port sends the character that it holds; the printer becomes  *)
(* ready.                                                                  *)
Transmit ==
  /\ thr # << >>
  /\ sent' = sent + 1 /\ thr' = << >>
  /\ UNCHANGED <<printing, port, text, tries, serial_exists, late, lptrdy, display>>

PrinterReady ==
  /\ ~lptrdy /\ lptrdy' = TRUE
  /\ UNCHANGED <<printing, port, text, tries, serial, display>>

cons_putc == serial_wait \/ serial_putc \/ lpt_wait \/ lpt_putc \/ cga_putc

OutNext ==
  \/ \E c \in Calls : cprintf(c)
  \/ \E ch \in Echo : cputchar(ch)
  \/ cons_putc
  \/ Transmit
  \/ PrinterReady

(* The kernel runs; nothing is assumed of the devices.                     *)
OutputSpec == OutInit /\ [][OutNext]_outvars /\ WF_outvars(cons_putc)

-----------------------------------------------------------------------------
(* What a number is printed as: its digits, the most significant first and *)
(* no more than it takes, after the padding to the width.  The sign and    *)
(* the 0x come before the padding and are not counted in the width.        *)
DigitsOf(n, base) ==
  LET len == CHOOSE k \in 1 .. 20 : n < base^k /\ (k = 1 \/ n >= base^(k - 1))
  IN  [k \in 1 .. len |-> Digit[1 + ((n \div base^(len - k)) % base)]]
PadTo(d, s) == Padding(IF d.flag = "0" THEN "0" ELSE " ", d.width - Len(s))
ExpectedNumber(d) ==
  LET base   == CASE d.conv \in {"d", "u"} -> 10 [] d.conv = "o" -> 8 [] OTHER -> 16
      sign   == CASE d.conv = "d" /\ d.arg < 0 -> << "-" >>
                  [] d.conv = "p" -> << "0", "x" >> [] OTHER -> << >>
      digits == DigitsOf(IF d.arg < 0 THEN -d.arg ELSE d.arg, base)
  IN  sign \o PadTo(d, digits) \o digits

(* What a string is printed as: at most prec of its characters, padded to  *)
(* the width on the side that the flag says.                               *)
ExpectedString(d) ==
  LET s == SubSeq(d.arg, 1, IF d.prec < 0 \/ d.prec > Len(d.arg) THEN Len(d.arg) ELSE d.prec)
      p == IF d.alt THEN [k \in DOMAIN s |-> IF s[k] = "NL" THEN "?" ELSE s[k]] ELSE s
  IN  IF d.flag = "-" THEN p \o PadTo(d, p) ELSE PadTo(d, p) \o p

ExpectedError(d) ==
  LET n == IF d.arg < 0 THEN -d.arg ELSE d.arg
  IN  IF n \in DOMAIN error_string THEN error_string[n]
      ELSE << "e", "r", "r", "o", "r", " " >> \o DigitsOf(n, 10)

Expected(d) ==
  CASE d.conv = "c" -> << d.arg >>
    [] d.conv = "e" -> ExpectedError(d)
    [] d.conv = "s" -> ExpectedString(d)
    [] d.conv \in Numeric -> ExpectedNumber(d)
    [] d.conv = "%" -> << "%" >>
    [] OTHER -> FormatOf(d)

(* What the comments of lib/printfmt.c promise and vprintfmt does not do:  *)
(* '-' is the "flag to pad on the right" (114), but a number is padded on  *)
(* its left, with '-' (44-45); and %e is to take a negative integer like a *)
(* positive one (17-18), but the smallest int stays negative (173-175).    *)
PadsLeft(d) == d.conv \in Numeric /\ d.flag = "-" /\ d.width > 1
Unindexed(d) == d.conv = "e" /\ d.arg = -(2^(INTBITS - 1))

(* Rendered: whatever the flag, width, precision and size, at the ends of  *)
(* the integers too, and but for the two cases above, vprintfmt prints a   *)
(* number as its digits behind sign and padding, and a string, cut to the  *)
(* precision, padded on the side of the flag (the comment at 12-13 knows   *)
(* padding for numbers only); it takes the arguments in their order, and   *)
(* prints a directive it does not know as it stands.  A number without     *)
(* padding between its sign and its digits is read back by strtol, all of  *)
(* it, modulo 2^INTBITS.                                                   *)
ReadBack(d) ==
  LET r == strtol(full, CASE d.conv = "o" -> 8 [] d.conv \in {"d", "u"} -> 10 [] OTHER -> 16)
  IN  r.end = Len(full) /\ (r.val - d.arg) % 2^INTBITS = 0
Rendered ==
  call # NoCall /\ (\A k \in DOMAIN call.dirs :
                      ~PadsLeft(call.dirs[k]) /\ ~Unindexed(call.dirs[k])) =>
    /\ full = FlattenSeq([k \in DOMAIN call.dirs |-> Expected(call.dirs[k])])
    /\ \A d \in {call.dirs[k] : k \in DOMAIN call.dirs} :
         Len(call.dirs) = 1 /\ d.conv \in Numeric /\ (d.flag = "0" \/ d.width <= 1) => ReadBack(d)

(* Delivered: a user program hands over exactly the text, in order, in     *)
(* pieces that fit its buffer and that sys_cputs prints whole; snprintf    *)
(* leaves the beginning of the text that fits, with its NUL, and returns   *)
(* the length of all of it.                                                *)
Delivered ==
  got.cnt >= 0 =>
    /\ got.cnt = Len(full)
    /\ call.to = "user" =>
         /\ FlattenSeq([k \in DOMAIN got.calls |-> sys_cputs(got.calls[k])]) = full
         /\ \A k \in DOMAIN got.calls : Len(got.calls[k]) < PRINTBUF
    /\ call.to = "buffer" =>
         got.buf = SubSeq(full, 1, IF Len(full) < call.n THEN Len(full) ELSE call.n - 1)
                     \o << NUL >>

(* The display as a page without an end, of which the last CRT_ROWS rows   *)
(* that the cursor has reached are seen, the first of them being row top.  *)
FirstPage ==
  [page |-> [n \in Nat |-> IF n < CRT_SIZE THEN "bios" ELSE " "], pos |-> cursor0, top |-> 0]
Backs(g, ch) == ch = "BS" /\ g.pos > g.top * CRT_COLS
PosAfter(g, ch) ==
  CASE ch = "BS" -> IF Backs(g, ch) THEN g.pos - 1 ELSE g.pos
    [] ch = "NL" -> (g.pos \div CRT_COLS + 1) * CRT_COLS
    [] ch = "CR" -> (g.pos \div CRT_COLS) * CRT_COLS
    [] ch = "TAB" -> g.pos
    [] OTHER -> g.pos + 1
TextAfter(g, ch) ==
  IF Backs(g, ch) THEN [g.page EXCEPT ![g.pos - 1] = " "]
  ELSE IF ch \in {"BS", "NL", "CR", "TAB"} THEN g.page
  ELSE [g.page EXCEPT ![g.pos] = ch]
PageStep(g, ch) ==
  LET row == PosAfter(g, ch) \div CRT_COLS
  IN  [page |-> TextAfter(g, ch), pos |-> PosAfter(g, ch),
       top |-> IF row >= g.top + CRT_ROWS THEN row - CRT_ROWS + 1 ELSE g.top]
Page(s) ==
  LET after[n \in 0 .. Len(s)] == IF n = 0 THEN FirstPage ELSE PageStep(after[n - 1], s[n])
  IN  after[Len(s)]

(* ScreenIsTail: whatever was printed, with line ends, backspaces and      *)
(* scrolling, the display memory is the end of that page, the cursor is on *)
(* it, and the 6845 shows it where crt_pos is.                             *)
ScreenIsTail ==
  LET g == Page(shown)
  IN  /\ crt_buf = [n \in 0 .. CRT_SIZE - 1 |-> g.page[g.top * CRT_COLS + n]]
      /\ crt_pos = g.pos - g.top * CRT_COLS /\ crt_pos \in 0 .. CRT_SIZE - 1
      /\ cursor[1] * 256 + cursor[2] = crt_pos

(* SerialLoss: the serial port loses no more characters than there were    *)
(* waits that ran out, and what it still holds is the last character given *)
(* to it.                                                                  *)
SerialLoss ==
  LET given == shown \o (IF port \in {"lpt", "cga"} THEN << Head(text) >> ELSE << >>)
  IN  serial_exists =>
        /\ Len(given) - sent - Len(thr) \in 0 .. late
        /\ thr # << >> => thr = << Last(given) >>

(* OutputEnds: all that is printed gets out, though a port never becomes   *)
(* ready.                                                                  *)
OutputEnds == [](port # "idle" => <>(port = "idle"))

=============================================================================
