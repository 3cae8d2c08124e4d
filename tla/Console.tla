------------------------------- MODULE Console -------------------------------
(***************************************************************************)
(* The input side of kern/console.c under lib/readline.c: the ring buffer  *)
(* cons, which cons_intr fills from the devices and cons_getc empties,     *)
(* getchar, which polls cons_getc, and readline, which edits a line.       *)
(*                                                                         *)
(* The devices work at their own pace, between any two accesses of the     *)
(* kernel to them.  The serial port holds one character (its FIFO is off); *)
(* the keyboard holds one scan code, which kbd_proc_data turns into a      *)
(* character or, for a modifier or the release of a key, into 0 (module    *)
(* Keyboard).                                                              *)
(***************************************************************************)
EXTENDS Integers, Sequences

CONSTANTS
  CONSBUFSIZE,   \* the size of cons.buf
  BUFLEN,        \* the size of readline's buf
  Chars,         \* the characters, as their codes
  MaxWaiting     \* bound: characters that wait in cons.buf

ASSUME ConsoleAssumption ==
  /\ CONSBUFSIZE \in Nat /\ 1 < CONSBUFSIZE
  /\ BUFLEN \in Nat /\ 0 < BUFLEN
  /\ MaxWaiting \in Nat
  /\ Chars \subseteq 1 .. 255

NONE == -1      \* what serial_proc_data and kbd_proc_data return without data
BS == 8
NL == 10
CR == 13
SPACE == 32
DEL == 127
Devices == {"serial", "kbd"}
Cells == 0 .. CONSBUFSIZE - 1

VARIABLES
  dev,    \* dev[d]: what the device d holds, NONE when it holds nothing
  ring,   \* cons.buf
  rpos,   \* cons.rpos
  wpos,   \* cons.wpos
  turn,   \* what getchar is at: polling a device, grabbing, or returning
  c,      \* the result of cons_getc
  typed   \* buf[0 .. i-1] of readline
consvars == <<dev, ring, rpos, wpos, turn, c, typed>>

(* A position after cons.rpos++ or cons.wpos++.                            *)
Wrap(n) == IF n = CONSBUFSIZE THEN 0 ELSE n

(* The characters between rpos and wpos.                                   *)
RingCount(r, w) == IF r <= w THEN w - r ELSE w + CONSBUFSIZE - r
RingCell(r, n)  == IF r + n - 1 < CONSBUFSIZE THEN r + n - 1 ELSE r + n - 1 - CONSBUFSIZE
Ring(b, r, w)   == [n \in 1 .. RingCount(r, w) |-> b[RingCell(r, n)]]
Count   == RingCount(rpos, wpos)
Waiting == Ring(ring, rpos, wpos)

ConsInit ==
  /\ dev = [d \in Devices |-> NONE]
  /\ ring = [n \in Cells |-> 0] /\ rpos = 0 /\ wpos = 0
  /\ turn = "serial" /\ c = 0 /\ typed = << >>

(* A device receives something while it is empty and, as long as the bound *)
(* is kept, the kernel keeps up.                                           *)
Receive(d, x) ==
  /\ dev[d] = NONE
  /\ Count < MaxWaiting
  /\ dev' = [dev EXCEPT ![d] = x]
  /\ UNCHANGED <<ring, rpos, wpos, turn, c, typed>>

(* Mutant: the position is advanced before the character is stored.        *)
cons_intr_ahead(d, after) ==
  LET next == Wrap(wpos + 1)
  IN  /\ turn = d
      /\ \/ dev[d] = NONE /\ turn' = after /\ UNCHANGED <<dev, ring, wpos>>
         \/ /\ dev[d] # NONE /\ UNCHANGED turn
            /\ dev' = [dev EXCEPT ![d] = NONE]
            /\ IF dev[d] = 0 THEN UNCHANGED <<ring, wpos>>
               ELSE ring' = [ring EXCEPT ![next] = dev[d]] /\ wpos' = next
      /\ UNCHANGED <<rpos, c, typed>>

(* One round of the loop of cons_intr(proc), for the device d: it ends     *)
(* when proc returns -1, passes over a 0 and stores any other character.   *)
cons_intr(d, after) ==
  /\ turn = d
  /\ \/ dev[d] = NONE /\ turn' = after /\ UNCHANGED <<dev, ring, wpos>>
     \/ /\ dev[d] # NONE /\ UNCHANGED turn
        /\ dev' = [dev EXCEPT ![d] = NONE]
        /\ IF dev[d] = 0 THEN UNCHANGED <<ring, wpos>>
           ELSE /\ ring' = [ring EXCEPT ![wpos] = dev[d]]
                /\ wpos' = Wrap(wpos + 1)
  /\ UNCHANGED <<rpos, c, typed>>

(* serial_intr and kbd_intr, at the start of cons_getc.                    *)
serial_intr == cons_intr("serial", "kbd")
kbd_intr    == cons_intr("kbd", "grab")

(* The rest of cons_getc: take the next character, or return 0.            *)
cons_getc ==
  /\ turn = "grab"
  /\ IF rpos # wpos
     THEN /\ c' = ring[rpos]
          /\ rpos' = Wrap(rpos + 1)
     ELSE c' = 0 /\ UNCHANGED rpos
  /\ turn' = "got"
  /\ UNCHANGED <<dev, ring, wpos, typed>>

(* getchar calls cons_getc again as long as it returns 0.                  *)
getchar ==
  /\ turn = "got" /\ c = 0
  /\ turn' = "serial"
  /\ UNCHANGED <<dev, ring, rpos, wpos, c, typed>>

(* Mutant: no room is left for the terminating 0.                          *)
edit_full(ch, s) ==
  IF ch \in {BS, DEL} /\ s # << >> THEN SubSeq(s, 1, Len(s) - 1)
  ELSE IF ch >= SPACE /\ Len(s) < BUFLEN THEN Append(s, ch)
  ELSE s

(* What readline does with a character that does not end the line.  A DEL  *)
(* that finds the line empty passes the test c >= ' ' and is stored.       *)
edit(ch, s) ==
  IF ch \in {BS, DEL} /\ s # << >> THEN SubSeq(s, 1, Len(s) - 1)
  ELSE IF ch >= SPACE /\ Len(s) < BUFLEN - 1 THEN Append(s, ch)
  ELSE s

(* Mutant: a line that is full is not ended by a newline.                  *)
readline_full ==
  /\ turn = "got" /\ c # 0
  /\ IF c \in {NL, CR} /\ Len(typed) < BUFLEN - 1
     THEN turn' = "return" /\ UNCHANGED typed
     ELSE turn' = "serial" /\ typed' = edit(c, typed)
  /\ c' = 0
  /\ UNCHANGED <<dev, ring, rpos, wpos>>

(* readline takes the character from getchar.                              *)
readline ==
  /\ turn = "got" /\ c # 0
  /\ IF c \in {NL, CR} THEN turn' = "return" /\ UNCHANGED typed
     ELSE turn' = "serial" /\ typed' = edit(c, typed)
  /\ c' = 0
  /\ UNCHANGED <<dev, ring, rpos, wpos>>

(* monitor runs the command and reads the next line.                       *)
next_line ==
  /\ turn = "return"
  /\ turn' = "serial" /\ typed' = << >>
  /\ UNCHANGED <<dev, ring, rpos, wpos, c>>

Kernel == serial_intr \/ kbd_intr \/ cons_getc \/ getchar \/ readline \/ next_line

ConsNext == Kernel \/ \E d \in Devices, x \in Chars \cup {0} : Receive(d, x)

(* The kernel polls without end, and faster than characters arrive: a      *)
(* device that is empty again and again is found empty at some poll.  The  *)
(* devices owe nothing.                                                    *)
ConsFairness ==
  /\ WF_consvars(Kernel)
  /\ SF_consvars(serial_intr /\ dev["serial"] = NONE)
  /\ SF_consvars(kbd_intr /\ dev["kbd"] = NONE)

ConsSpec == ConsInit /\ [][ConsNext]_consvars /\ ConsFairness

-----------------------------------------------------------------------------
(* ConsTypeOK: rpos and wpos stay within cons.buf, and the line leaves     *)
(* room in readline's buf for the terminating 0.                           *)
ConsTypeOK ==
  /\ dev \in [Devices -> Chars \cup {0, NONE}]
  /\ ring \in [Cells -> Chars \cup {0}]
  /\ rpos \in Cells /\ wpos \in Cells
  /\ turn \in {"serial", "kbd", "grab", "got", "return"}
  /\ c \in Chars \cup {0}
  /\ typed \in Seq(Chars) /\ Len(typed) < BUFLEN

(* What cons_intr takes on trust: the buffer has room for the characters   *)
(* that wait and for those that the devices hold, and one cell more.       *)
Roomy == MaxWaiting + 1 < CONSBUFSIZE
Pending(d) == IF dev[d] = NONE THEN 0 ELSE 1
Slack == Count + Pending("serial") + Pending("kbd") <= MaxWaiting + 1

(* InputQueue: cons_intr and cons_getc implement the queue of              *)
(* ConsoleQueue: no character is lost, doubled or overtaken.               *)
Queue == INSTANCE ConsoleQueue WITH waiting <- Waiting
InputQueue == Queue!Spec

(* LineRead: once a device holds a newline, or one waits in cons.buf,      *)
(* readline returns, whatever else the devices deliver.                    *)
LineRead ==
  (\/ \E d \in Devices : dev[d] \in {NL, CR}
   \/ \E n \in 1 .. Count : Waiting[n] \in {NL, CR}) ~> (turn = "return")

(* NoneWaiting: cons_getc returns "the next input character from the       *)
(* console, or 0 if none waiting": when a character has just been stored,  *)
(* some character waits.                                                   *)
NoneWaiting == [][wpos' # wpos => Count' > 0]_consvars

=============================================================================
