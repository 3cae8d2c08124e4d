------------------------------- MODULE Keyboard ------------------------------
(***************************************************************************)
(* kbd_proc_data of kern/console.c: a state machine that turns the bytes   *)
(* of the keyboard controller into characters.  The typist and the mouse   *)
(* fill the controller while the kernel empties it a byte at a time, so    *)
(* that the two bytes of an extended key are read at different calls.      *)
(*                                                                         *)
(* The tables are restricted to the keys in Keys; a flag of the variable   *)
(* shift is a name.                                                        *)
(***************************************************************************)
EXTENDS Integers, Sequences

CONSTANTS
  Keys,        \* physical keys: make code, and whether E0 precedes it
  MaxStream    \* bound: bytes that wait in the keyboard and its controller

(* No key has the code 0x60: its release would be the byte 0xE0, which     *)
(* kbd_proc_data takes for the prefix of an extended key.                  *)
KeyType == [code : 1 .. 127 \ {96}, ext : BOOLEAN]

ASSUME KeyboardAssumption ==
  /\ Keys \subseteq KeyType
  /\ MaxStream \in Nat

-----------------------------------------------------------------------------
(* The tables shiftcode, togglecode and charcode, by the index they are    *)
(* used with: the make code, plus 128 after an E0.                         *)
shiftcode(data) ==
  CASE data \in {29, 157} -> {"CTL"}
    [] data \in {42, 54}  -> {"SHIFT"}
    [] data \in {56, 184} -> {"ALT"}
    [] OTHER -> {}

togglecode(data) ==
  CASE data = 58 -> {"CAPSLOCK"}
    [] data = 69 -> {"NUMLOCK"}
    [] data = 70 -> {"SCROLLLOCK"}
    [] OTHER -> {}

KEY_DEL == 233     \* 0xE9 in inc/kbdreg.h

normalmap(data) == CASE data = 30 -> 97 [] data = 83 -> 46 [] data = 211 -> KEY_DEL [] OTHER -> 0
shiftmap(data)  == CASE data = 30 -> 65 [] data = 83 -> 46 [] data = 211 -> KEY_DEL [] OTHER -> 0
ctlmap(data)    == CASE data = 30 -> 1 [] data = 211 -> KEY_DEL [] OTHER -> 0

charcode(shift, data) ==
  IF "CTL" \in shift THEN ctlmap(data)
  ELSE IF "SHIFT" \in shift THEN shiftmap(data)
  ELSE normalmap(data)

(* CAPSLOCK swaps the cases of the letters.                                *)
capslock(shift, c) ==
  IF "CAPSLOCK" \notin shift THEN c
  ELSE IF c \in 97 .. 122 THEN c - 32
  ELSE IF c \in 65 .. 90 THEN c + 32
  ELSE c

Toggle(S, T) == (S \ T) \cup (T \ S)

(* kbd_proc_data after it has read data: the new shift, the character that *)
(* is returned, and whether Ctrl-Alt-Del reboots the machine.              *)
make(shift, data) ==
  LET s == Toggle(shift \cup shiftcode(data), togglecode(data))
      c == capslock(s, charcode(s, data))
  IN  [shift |-> s, c |-> c, reboot |-> {"CTL", "ALT"} \subseteq s /\ c = KEY_DEL]

(* Mutant: the release of an extended key is looked up without the E0.     *)
decode_release_plain(shift, data) ==
  IF data = 224 THEN [shift |-> shift \cup {"E0ESC"}, c |-> 0, reboot |-> FALSE]
  ELSE IF data >= 128
       THEN [shift |-> shift \ (shiftcode(data) \cup {"E0ESC"}), c |-> 0, reboot |-> FALSE]
  ELSE IF "E0ESC" \in shift THEN make(shift \ {"E0ESC"}, data + 128)
  ELSE make(shift, data)

(* Mutant: E0ESC is not cleared by the key it belongs to.                  *)
decode_sticky_e0(shift, data) ==
  IF data = 224 THEN [shift |-> shift \cup {"E0ESC"}, c |-> 0, reboot |-> FALSE]
  ELSE IF data >= 128
       THEN LET d == IF "E0ESC" \in shift THEN data ELSE data % 128
            IN  [shift |-> shift \ (shiftcode(d) \cup {"E0ESC"}), c |-> 0, reboot |-> FALSE]
  ELSE IF "E0ESC" \in shift THEN make(shift, data + 128)
  ELSE make(shift, data)

decode(shift, data) ==
  IF data = 224 THEN [shift |-> shift \cup {"E0ESC"}, c |-> 0, reboot |-> FALSE]
  ELSE IF data >= 128
       THEN LET d == IF "E0ESC" \in shift THEN data ELSE data % 128
            IN  [shift |-> shift \ (shiftcode(d) \cup {"E0ESC"}), c |-> 0, reboot |-> FALSE]
  ELSE IF "E0ESC" \in shift THEN make(shift \ {"E0ESC"}, data + 128)
  ELSE make(shift, data)

-----------------------------------------------------------------------------
VARIABLES
  stream,    \* the bytes that wait: the byte and whether the mouse sent it
  shift,     \* the static variable of kbd_proc_data
  rebooted,  \* outb(0x92, 0x3) was executed
  down,      \* the keys that are held down
  mods,      \* for each modifier: its latest key event was a press
  caps,      \* the capslock key was pressed an odd number of times
  due        \* what the make codes in the stream mean, oldest first
kbdvars == <<stream, shift, rebooted, down, mods, caps, due>>

Modifiers == {"CTL", "SHIFT", "ALT"}

KbdInit ==
  /\ stream = << >> /\ shift = {} /\ rebooted = FALSE
  /\ down = {} /\ mods = {} /\ caps = FALSE /\ due = << >>

(* The bytes of a key, and the place of a key in the tables.               *)
Bytes(k, n) == (IF k.ext THEN <<[data |-> 224, aux |-> FALSE]>> ELSE << >>)
               \o <<[data |-> n, aux |-> FALSE]>>
Index(k) == IF k.ext THEN k.code + 128 ELSE k.code

(* A key goes down, or repeats.  What it means is what is printed on it,   *)
(* with the modifiers and the capslock of this moment.                     *)
Press(k) ==
  LET mods2 == mods \cup shiftcode(Index(k))
      caps2 == IF "CAPSLOCK" \in togglecode(Index(k)) THEN ~caps ELSE caps
      flags == mods2 \cup (IF caps2 THEN {"CAPSLOCK"} ELSE {})
      c     == capslock(flags, charcode(flags, Index(k)))
  IN  /\ Len(stream \o Bytes(k, k.code)) <= MaxStream
      /\ stream' = stream \o Bytes(k, k.code)
      /\ down' = down \cup {k} /\ mods' = mods2 /\ caps' = caps2
      /\ due' = Append(due, [c |-> c, reboot |-> c = KEY_DEL /\ {"CTL", "ALT"} \subseteq mods2])
      /\ UNCHANGED <<shift, rebooted>>

Release(k) ==
  /\ k \in down
  /\ Len(stream \o Bytes(k, k.code + 128)) <= MaxStream
  /\ stream' = stream \o Bytes(k, k.code + 128)
  /\ down' = down \ {k} /\ mods' = mods \ shiftcode(Index(k))
  /\ UNCHANGED <<shift, rebooted, caps, due>>

(* A byte of the mouse, KBS_TERR in the status of the controller.          *)
Mouse ==
  /\ Len(stream) < MaxStream
  /\ stream' = Append(stream, [data |-> 0, aux |-> TRUE])
  /\ UNCHANGED <<shift, rebooted, down, mods, caps, due>>

(* A call of kbd_proc_data that finds a byte of the keyboard.  Without a   *)
(* byte, and with one of the mouse, it returns -1 and reads nothing, so    *)
(* that a byte of the mouse stays where it is.                             *)
kbd_proc_data ==
  /\ ~rebooted
  /\ stream # << >> /\ ~Head(stream).aux
  /\ LET data == Head(stream).data
         r    == decode(shift, data)
     IN  /\ shift' = r.shift /\ rebooted' = r.reboot
         /\ due' = IF data < 128 THEN Tail(due) ELSE due
  /\ stream' = Tail(stream)
  /\ UNCHANGED <<down, mods, caps>>

KbdNext == (\E k \in Keys : Press(k) \/ Release(k)) \/ Mouse \/ kbd_proc_data

KbdSpec == KbdInit /\ [][KbdNext]_kbdvars

-----------------------------------------------------------------------------
(* ModifiersFollow: once kbd_proc_data has read all bytes, its flags are   *)
(* those of the keyboard: a modifier is set if its latest event was a      *)
(* press, none is stuck, and no E0 is left over.                           *)
ModifiersFollow ==
  stream = << >> =>
    /\ shift \cap Modifiers = mods
    /\ "CAPSLOCK" \in shift <=> caps
    /\ "E0ESC" \notin shift

(* KeysMean: a make code yields the character that the key meant when it   *)
(* was pressed, and reboots the machine just when it was Ctrl-Alt-Del, no  *)
(* matter how many events came between the press and the read.             *)
KeysMean ==
  [][kbd_proc_data /\ Head(stream).data < 128 =>
       LET r == decode(shift, Head(stream).data)
       IN  [c |-> r.c, reboot |-> r.reboot] = Head(due)]_kbdvars

=============================================================================
