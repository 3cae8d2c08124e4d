------------------------------ MODULE MCOutput ------------------------------
(***************************************************************************)
(* A small instance of Output: a display of two rows of three characters,  *)
(* an int of 5 bits and a long long of 8.  %e is given the smallest int    *)
(* too, and numbers the flag '-'.                                          *)
(***************************************************************************)
EXTENDS Output

MCErrors == (1 :> << "u" >>) @@ (2 :> << "b", "a", "d" >>)

Directive == [flag |-> "", width |-> -1, prec |-> -1, star |-> FALSE, l |-> 0,
              alt |-> FALSE, conv |-> "d", arg |-> 0]
Dir(conv, arg) == [Directive EXCEPT !.conv = conv, !.arg = arg]

(* The numbers at the ends of an int and of a long long, and around the    *)
(* powers of the bases.                                                    *)
Numbers ==
  {Dir(x[1], x[2]) : x \in {"d"} \X {-16, -10, -1, 0, 9, 10, 15}
                          \cup {"u", "o", "x", "p"} \X {0, 7, 8, 16, 31}}
    \cup {[Dir(x[1], x[2]) EXCEPT !.l = 2] : x \in {<<"d", -128>>, <<"d", 127>>,
                                        <<"u", 255>>, <<"o", 128>>, <<"x", 255>>}}
Fields == {[d EXCEPT !.flag = f, !.width = w[1], !.star = w[2]] :
             d \in Numbers, f \in {"", "0"}, w \in {<<1, FALSE>>, <<3, TRUE>>, <<11, FALSE>>}}
Texts ==
  {[Dir("s", a) EXCEPT !.flag = f, !.width = w, !.prec = p, !.alt = b, !.star = (p = 0)] :
     a \in {<< >>, <<"a", "NL", "c">>}, f \in {"", "-", "0"}, w \in {2, 4},
     p \in {-1, 0, 2}, b \in BOOLEAN}
Others ==
  {Dir("s", <<"a">>), Dir("c", "NL"), Dir("%", 0), Dir("e", 2), Dir("e", -1), Dir("e", 7),
   Dir("e", -16), Dir("e", -15),
   [Dir("d", -9) EXCEPT !.flag = "-", !.width = 4],
   [Dir("x", 10) EXCEPT !.flag = "-", !.width = 3],
   Dir("z", 0), [Dir("z", 0) EXCEPT !.width = 5]}

Pairs == {<<a, b>> : a \in {Dir("d", -9), [Dir("x", 10) EXCEPT !.width = 3, !.star = TRUE],
                             Dir("z", 0), Dir("%", 0)},
                    b \in {Dir("s", <<"a", "b">>), Dir("u", 31)}}
Singles == {<<d>> : d \in Numbers \cup Fields \cup Texts \cup Others}

MCCalls ==
  {[to |-> "user", n |-> 0, dirs |-> s] : s \in Singles \cup Pairs}
    \cup {[to |-> "buffer", n |-> k, dirs |-> s] : s \in Pairs \cup {<<d>> : d \in Others},
                                                k \in {1, 3, 7}}
    \cup {[to |-> "kernel", n |-> 0, dirs |-> s] : s \in Pairs}

MCEcho     == {"x", "NL", "BS", "CR", "TAB"}
MCNoSerial == << "S", "NL" >>

=============================================================================
