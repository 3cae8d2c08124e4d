----------------------------- MODULE MCKeyboard ------------------------------
(* Keyboard with both shift keys, the right control key, the left alt key, *)
(* capslock, A, the dot of the keypad and the delete key.                  *)
EXTENDS Keyboard

MCKeys ==
  {[code |-> 42, ext |-> FALSE], [code |-> 54, ext |-> FALSE],
   [code |-> 29, ext |-> TRUE],  [code |-> 56, ext |-> FALSE],
   [code |-> 58, ext |-> FALSE], [code |-> 30, ext |-> FALSE],
   [code |-> 83, ext |-> FALSE], [code |-> 83, ext |-> TRUE]}

=============================================================================
