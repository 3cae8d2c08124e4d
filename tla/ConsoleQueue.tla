---------------------------- MODULE ConsoleQueue ----------------------------
(***************************************************************************)
(* What the input side of kern/console.c promises: the characters that the *)
(* serial port and the keyboard deliver wait in a queue, and cons_getc     *)
(* "return[s] the next input character from the console, or 0 if none      *)
(* waiting".                                                               *)
(***************************************************************************)
EXTENDS Sequences

CONSTANT Chars

VARIABLES
  waiting,   \* the characters that wait, in the order of their arrival
  c          \* what cons_getc returned last, 0 when it found none

Init == waiting = << >> /\ c = 0

Deliver(ch) == waiting' = Append(waiting, ch) /\ UNCHANGED c

Get ==
  /\ waiting # << >>
  /\ c' = Head(waiting)
  /\ waiting' = Tail(waiting)

GetNone == waiting = << >> /\ c' = 0 /\ UNCHANGED waiting

(* getchar hands the character to its caller.                              *)
Use == c # 0 /\ c' = 0 /\ UNCHANGED waiting

Next == (\E ch \in Chars : Deliver(ch)) \/ Get \/ GetNone \/ Use

Spec == Init /\ [][Next]_<<waiting, c>>

=============================================================================
