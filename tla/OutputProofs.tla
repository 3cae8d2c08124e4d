---------------------------- MODULE OutputProofs -----------------------------
(***************************************************************************)
(* Proofs about Output: what the serial port loses and what the display    *)
(* shows, for every text that is printed, every pace of the port and every *)
(* size of the display.  Nothing is assumed of what vprintfmt makes of a   *)
(* call.                                                                   *)
(***************************************************************************)
EXTENDS Output, SequenceTheorems, WellFoundedInduction, TLAPS

(* The characters that serial_putc has been given: how many, and the last. *)
InHand == IF port \in {"lpt", "cga"} THEN 1 ELSE 0
GivenLast == IF port \in {"lpt", "cga"} THEN Head(text) ELSE shown[Len(shown)]

TypePart ==
  /\ port \in {"idle", "serial", "lpt", "cga"} /\ tries \in 0 .. POLLS
  /\ sent \in Nat /\ late \in Nat /\ Len(shown) \in Nat
  /\ \E S : shown \in Seq(S)
  /\ serial_exists \in BOOLEAN

(* What was given has been sent, is held, or was written over late.        *)
PortPart ==
  serial_exists =>
    \/ /\ thr = << >>
       /\ Len(shown) + InHand - sent \in 0 .. late
    \/ /\ thr = << GivenLast >>
       /\ Len(shown) + InHand - sent - 1 \in 0 .. late

SerialInv == TypePart /\ PortPart

(* A character more.                                                       *)
LEMMA OneMore ==
  ASSUME NEW S, NEW s \in Seq(S), NEW c
  PROVE  /\ Append(s, c) \in Seq(S \cup {c}) /\ Len(s) \in Nat
         /\ Len(Append(s, c)) = Len(s) + 1 /\ Append(s, c)[Len(s) + 1] = c
         /\ s \o << c >> = Append(s, c) /\ s \o << >> = s
<1> DEFINE T == S \cup {c}
<1>1. s \in Seq(T) /\ c \in T
  <2>1. S \subseteq T
    OBVIOUS
  <2> QED BY <2>1, SeqMonotonic
<1> HIDE DEF T
<1>2. /\ Append(s, c) \in Seq(T) /\ Len(Append(s, c)) = Len(s) + 1 /\ Append(s, c)[Len(s) + 1] = c
  BY <1>1, AppendProperties
<1>3. s \o << c >> = Append(s, c)
  BY <1>1, AppendIsConcat
<1>4. s \o << >> = s
  BY ConcatEmptySeq
<1>5. Len(s) \in Nat
  BY LenProperties
<1> QED BY <1>2, <1>3, <1>4, <1>5 DEF T

(* Initially nothing was given.                                            *)
LEMMA InitSerial == OutInit => SerialInv
<1> SUFFICES ASSUME OutInit PROVE SerialInv
  OBVIOUS
<1>1. shown = << >> /\ thr = << >> /\ sent = 0 /\ late = 0 /\ tries = 0 /\ serial_exists \in BOOLEAN
      /\ port \in {"idle", "serial"}
  BY DEF OutInit, cga_init, serial_init
<1>2. Len(shown) = 0 /\ shown \in Seq({})
  BY <1>1
<1>3. InHand = 0
  BY <1>1 DEF InHand
<1>4. POLLS \in Nat
  BY OutputAssumption
<1> QED BY <1>1, <1>2, <1>3, <1>4 DEF SerialInv, TypePart, PortPart

(* serial_putc: a character that was not sent is lost when the wait has    *)
(* run out, and only then.                                                 *)
LEMMA PutSerial ==
  ASSUME SerialInv, serial_putc
  PROVE  SerialInv'
<1>1. /\ port = "serial" /\ port' = "lpt" /\ tries' = 0 /\ ~busy(TxReady)
      /\ thr' = (IF serial_exists THEN << Head(text) >> ELSE << >>)
      /\ late' = (IF tries = POLLS THEN late + 1 ELSE late)
      /\ UNCHANGED <<text, serial_exists, sent, shown>>
  BY DEF serial_putc, display
<1>2. InHand = 0 /\ InHand' = 1 /\ GivenLast' = Head(text)
  BY <1>1 DEF InHand, GivenLast
<1>3. POLLS \in Nat
  BY OutputAssumption
<1>4. TypePart'
  <2>1. late' \in Nat
    BY <1>1 DEF SerialInv, TypePart
  <2> QED BY <1>1, <1>3, <2>1 DEF SerialInv, TypePart
<1>5. ASSUME serial_exists PROVE /\ thr' = << GivenLast' >>
                                 /\ Len(shown) + 1 - sent - 1 \in 0 .. late'
  <2>1. thr' = << GivenLast' >>
    BY <1>1, <1>2, <1>5
  <2>2. PICK n, z, l \in Nat : n = Len(shown) /\ z = sent /\ l = late
    BY DEF SerialInv, TypePart
  <2>3. CASE thr = << >> /\ Len(shown) + InHand - sent \in 0 .. late
    <3>1. n - z \in 0 .. l
      BY <1>2, <2>2, <2>3
    <3>2. late' = l + 1 \/ late' = l
      BY <1>1, <2>2
    <3> QED BY <2>1, <2>2, <3>1, <3>2
  <2>4. CASE thr = << GivenLast >> /\ Len(shown) + InHand - sent - 1 \in 0 .. late
    <3>1. n - z - 1 \in 0 .. l
      BY <1>2, <2>2, <2>4
    <3>2. ~TxReady
      BY <1>5, <2>4 DEF TxReady
    <3>3. tries = POLLS
      BY <1>1, <1>3, <3>2 DEF busy, SerialInv, TypePart
    <3>4. late' = l + 1
      BY <1>1, <2>2, <3>3
    <3> QED BY <2>1, <2>2, <3>1, <3>4
  <2> QED BY <1>5, <2>3, <2>4 DEF SerialInv, PortPart
<1>6. PortPart'
  BY <1>1, <1>2, <1>5 DEF PortPart
<1> QED BY <1>4, <1>6 DEF SerialInv

(* cga_putc: the character in hand is the last that was shown.             *)
LEMMA PutCga ==
  ASSUME SerialInv, cga_putc
  PROVE  SerialInv'
<1>1. /\ port = "cga" /\ port' \in {"idle", "serial"}
      /\ shown' = Append(shown, Head(text)) /\ UNCHANGED <<tries, serial_exists, thr, sent, late>>
  BY DEF cga_putc, PutAll, serial
<1>2. PICK S : shown \in Seq(S)
  BY DEF SerialInv, TypePart
<1>3. /\ shown' \in Seq(S \cup {Head(text)}) /\ Len(shown) \in Nat
      /\ Len(shown') = Len(shown) + 1 /\ shown'[Len(shown) + 1] = Head(text)
  BY <1>1, <1>2, OneMore
<1>4. InHand = 1 /\ InHand' = 0 /\ GivenLast = Head(text)
  BY <1>1 DEF InHand, GivenLast
<1>5. GivenLast' = GivenLast
  <2>1. GivenLast' = shown'[Len(shown')]
    BY <1>1 DEF GivenLast
  <2> QED BY <1>3, <1>4, <2>1
<1>6. TypePart'
  BY <1>1, <1>3 DEF SerialInv, TypePart
<1>7. PICK n, k \in Nat : n = Len(shown) /\ k = sent
  BY <1>3 DEF SerialInv, TypePart
<1>8. Len(shown') + InHand' - sent' = Len(shown) + InHand - sent
  BY <1>1, <1>3, <1>4, <1>7
<1>9. Len(shown') + InHand' - sent' - 1 = Len(shown) + InHand - sent - 1
  BY <1>1, <1>3, <1>4, <1>7
<1>10. PortPart'
  BY <1>1, <1>5, <1>8, <1>9, Zenon DEF SerialInv, PortPart
<1> QED BY <1>6, <1>10 DEF SerialInv

(* The port sends the character that it holds.                             *)
LEMMA SendSerial ==
  ASSUME SerialInv, Transmit
  PROVE  SerialInv'
<1>1. /\ thr # << >> /\ thr' = << >> /\ sent' = sent + 1
      /\ UNCHANGED <<port, text, tries, serial_exists, late, shown>>
  BY DEF Transmit, display
<1>2. InHand' = InHand /\ InHand \in Nat
  BY <1>1 DEF InHand
<1>3. TypePart'
  BY <1>1 DEF SerialInv, TypePart
<1>4. ASSUME serial_exists PROVE Len(shown) + InHand - (sent + 1) \in 0 .. late
  <2>1. Len(shown) + InHand - sent - 1 \in 0 .. late
    BY <1>1, <1>4 DEF SerialInv, PortPart
  <2>2. PICK n, k, l, h \in Nat : n = Len(shown) /\ k = sent /\ l = late /\ h = InHand
    BY <1>2 DEF SerialInv, TypePart
  <2> QED BY <2>1, <2>2
<1>5. PortPart'
  BY <1>1, <1>2, <1>4 DEF PortPart
<1> QED BY <1>3, <1>5 DEF SerialInv

(* The other steps leave the port and what was given alone.                *)
LEMMA RestSerial ==
  ASSUME SerialInv, UNCHANGED <<serial_exists, thr, sent, late, shown>>, tries' \in 0 .. POLLS,
         \/ UNCHANGED <<port, text>>
         \/ port \in {"idle", "serial"} /\ port' \in {"idle", "serial"}
         \/ port \in {"lpt", "cga"} /\ port' \in {"lpt", "cga"} /\ UNCHANGED text
  PROVE  SerialInv'
<1>1. InHand' = InHand
  BY DEF InHand
<1>2. GivenLast' = GivenLast
  BY DEF GivenLast
<1>3. TypePart'
  BY DEF SerialInv, TypePart
<1>4. PortPart'
  BY <1>1, <1>2, Zenon DEF SerialInv, PortPart
<1> QED BY <1>3, <1>4 DEF SerialInv

(* Every step keeps the invariant.                                         *)
LEMMA StepSerial == SerialInv /\ [OutNext]_outvars => SerialInv'
<1> SUFFICES ASSUME SerialInv, [OutNext]_outvars PROVE SerialInv'
  OBVIOUS
<1>1. tries \in 0 .. POLLS /\ POLLS \in Nat /\ 0 \in 0 .. POLLS
  BY OutputAssumption DEF SerialInv, TypePart
<1>2. ASSUME NEW c \in Calls, cprintf(c) PROVE SerialInv'
  <2>1. UNCHANGED <<serial_exists, thr, sent, late, shown, tries>> /\ port = "idle" /\ port' \in {"idle", "serial"}
    BY <1>2 DEF cprintf, PutAll, serial, display
  <2> QED BY <1>1, <2>1, RestSerial
<1>3. ASSUME NEW ch \in Echo, cputchar(ch) PROVE SerialInv'
  <2>1. UNCHANGED <<serial_exists, thr, sent, late, shown, tries>> /\ port = "idle" /\ port' \in {"idle", "serial"}
    BY <1>3 DEF cputchar, PutAll, serial, display
  <2> QED BY <1>1, <2>1, RestSerial
<1>4. CASE serial_wait \/ lpt_wait
  <2>1. UNCHANGED <<serial_exists, thr, sent, late, shown, port, text>> /\ tries' = tries + 1 /\ tries < POLLS
    BY <1>4 DEF serial_wait, lpt_wait, busy, poll, serial, display
  <2>2. tries' \in 0 .. POLLS
    BY <1>1, <2>1
  <2> QED BY <2>1, <2>2, RestSerial
<1>5. CASE serial_putc
  BY <1>5, PutSerial
<1>6. CASE lpt_putc
  <2>1. UNCHANGED <<serial_exists, thr, sent, late, shown, text>> /\ tries' = 0 /\ port = "lpt" /\ port' = "cga"
    BY <1>6 DEF lpt_putc, serial, display
  <2> QED BY <1>1, <2>1, RestSerial
<1>7. CASE cga_putc
  BY <1>7, PutCga
<1>8. CASE Transmit
  BY <1>8, SendSerial
<1>9. CASE PrinterReady \/ UNCHANGED outvars
  <2>1. UNCHANGED <<serial_exists, thr, sent, late, shown, port, text, tries>>
    BY <1>9 DEF PrinterReady, outvars, serial, display
  <2> QED BY <1>1, <2>1, RestSerial
<1> QED BY <1>2, <1>3, <1>4, <1>5, <1>6, <1>7, <1>8, <1>9, Zenon DEF OutNext, cons_putc

(* cons_putc (kern/console.c) waits for the serial port a bounded time and *)
(* then writes over what it holds: no more characters are lost than there  *)
(* were waits that ran out, and the port never holds an old character.     *)
THEOREM LossBounded == OutputSpec => []SerialLoss
<1>1. SerialInv => SerialLoss
  <2> DEFINE given == shown \o (IF port \in {"lpt", "cga"} THEN << Head(text) >> ELSE << >>)
  <2> SUFFICES ASSUME SerialInv, serial_exists
               PROVE  /\ Len(given) - sent - Len(thr) \in 0 .. late
                      /\ thr # << >> => thr = << Last(given) >>
    BY DEF SerialLoss
  <2>1. PICK S : shown \in Seq(S)
    BY DEF SerialInv, TypePart
  <2>2. Len(given) = Len(shown) + InHand /\ given[Len(given)] = GivenLast /\ Len(shown) \in Nat /\ InHand \in Nat
    <3>1. CASE port \in {"lpt", "cga"}
      <4>1. given = Append(shown, Head(text))
        BY <2>1, <3>1, OneMore
      <4>2. Len(given) = Len(shown) + 1 /\ given[Len(shown) + 1] = Head(text) /\ Len(shown) \in Nat
        BY <2>1, <4>1, OneMore
      <4> QED BY <3>1, <4>2 DEF InHand, GivenLast
    <3>2. CASE port \notin {"lpt", "cga"}
      <4>1. given = shown /\ Len(shown) \in Nat
        BY <2>1, <3>2, OneMore
      <4>2. InHand = 0 /\ GivenLast = shown[Len(shown)]
        BY <3>2 DEF InHand, GivenLast
      <4> HIDE DEF given
      <4>3. Len(given) = Len(shown) + InHand
        BY <4>1, <4>2
      <4> QED BY <4>1, <4>2, <4>3
    <3> QED BY <3>1, <3>2
  <2> HIDE DEF given
  <2>3. PICK n, k, h \in Nat : n = Len(shown) /\ k = sent /\ h = InHand
    BY <2>2 DEF SerialInv, TypePart
  <2>4. CASE thr = << >> /\ Len(shown) + InHand - sent \in 0 .. late
    <3>1. Len(thr) = 0
      BY <2>4
    <3>2. Len(given) - sent - Len(thr) = Len(shown) + InHand - sent
      BY <2>2, <2>3, <3>1
    <3> QED BY <2>4, <3>2
  <2>5. CASE thr = << GivenLast >> /\ Len(shown) + InHand - sent - 1 \in 0 .. late
    <3>1. Len(thr) = 1
      BY <2>5
    <3>2. Len(given) - sent - Len(thr) = Len(shown) + InHand - sent - 1
      BY <2>2, <2>3, <3>1
    <3>3. thr = << Last(given) >>
      BY <2>2, <2>5 DEF Last
    <3> QED BY <2>5, <3>2, <3>3
  <2> QED BY <2>4, <2>5 DEF SerialInv, PortPart
<1> QED BY <1>1, InitSerial, StepSerial, PTL DEF OutputSpec

-----------------------------------------------------------------------------
(* memmove of lib/string.c.  Its loop, as a function of the number of      *)
(* characters that are copied, and what has changed after k of them.       *)
At(n, up, k) == IF up THEN k ELSE n - 1 - k
Moving(m, d, s, n, up, g) ==
  [k \in 0 .. n |->
     IF k = 0 THEN m
     ELSE [g[k - 1] EXCEPT ![d + At(n, up, k - 1)] = g[k - 1][s + At(n, up, k - 1)]]]
IsMoving(m, d, s, n, up, g) == g = Moving(m, d, s, n, up, g)
Done(d, n, up, k, a) == IF up THEN a \in d .. d + k - 1 ELSE a \in d + n - k .. d + n - 1
Copied(m, d, s, n, up, k) ==
  [a \in DOMAIN m |-> IF Done(d, n, up, k, a) THEN m[a - d + s] ELSE m[a]]

(* The source and the destination are in memory.                           *)
Within(A, d, s, n) == d .. d + n - 1 \subseteq A /\ s .. s + n - 1 \subseteq A

(* The direction is right: nothing is overwritten before it is copied.     *)
Safe(d, s, n, up) == IF up THEN ~(s < d /\ s + n > d) ELSE s < d

(* A move in the memory m.                                                 *)
Movable(A, V, m, d, s, n, up) ==
  /\ A \in SUBSET Int /\ m \in [A -> V] /\ d \in Int /\ s \in Int /\ n \in Nat
  /\ up \in BOOLEAN /\ Safe(d, s, n, up) /\ Within(A, d, s, n)

(* rep_movs runs that loop.                                                *)
LEMMA RepIsMoving ==
  ASSUME NEW m, NEW d, NEW s, NEW n, NEW up
  PROVE  rep_movs(m, d, s, n, up) = (CHOOSE g : g = Moving(m, d, s, n, up, g))[n]
BY Zenon DEF rep_movs, Moving, At

(* The character that is copied next was not overwritten.                  *)
LEMMA NextCopied ==
  ASSUME NEW d \in Int, NEW s \in Int, NEW n \in Nat, NEW up \in BOOLEAN, Safe(d, s, n, up),
         NEW k \in 1 .. n, NEW x, x = At(n, up, k - 1)
  PROVE  /\ x \in Int /\ x \in 0 .. n - 1 /\ ~Done(d, n, up, k - 1, s + x)
         /\ \A a \in Int : Done(d, n, up, k, a) <=> Done(d, n, up, k - 1, a) \/ a = d + x
<1>1. CASE up
  <2>1. x = k - 1 /\ ~(s < d /\ s + n > d)
    BY <1>1 DEF At, Safe
  <2>2. \A j, a : Done(d, n, up, j, a) <=> a \in d .. d + j - 1
    BY <1>1 DEF Done
  <2>3. ~Done(d, n, up, k - 1, s + x)
    BY <2>1, <2>2
  <2>4. \A a \in Int : Done(d, n, up, k, a) <=> Done(d, n, up, k - 1, a) \/ a = d + x
    BY <2>1, <2>2
  <2> QED BY <2>1, <2>3, <2>4
<1>2. CASE ~up
  <2>1. x = n - k /\ s < d
    BY <1>2 DEF At, Safe
  <2>2. \A j, a : Done(d, n, up, j, a) <=> a \in d + n - j .. d + n - 1
    BY <1>2 DEF Done
  <2>3. ~Done(d, n, up, k - 1, s + x)
    BY <2>1, <2>2
  <2>4. \A a \in Int : Done(d, n, up, k, a) <=> Done(d, n, up, k - 1, a) \/ a = d + x
    BY <2>1, <2>2
  <2> QED BY <2>1, <2>3, <2>4
<1> QED BY <1>1, <1>2

(* One round of the loop.                                                  *)
LEMMA RoundCopied ==
  ASSUME NEW A, NEW V, NEW m, NEW d, NEW s, NEW n, NEW up, Movable(A, V, m, d, s, n, up),
         NEW k \in 1 .. n, NEW x, x = At(n, up, k - 1)
  PROVE  [Copied(m, d, s, n, up, k - 1) EXCEPT ![d + x] = Copied(m, d, s, n, up, k - 1)[s + x]]
           = Copied(m, d, s, n, up, k)
<1>0. /\ A \in SUBSET Int /\ m \in [A -> V] /\ d \in Int /\ s \in Int /\ n \in Nat
      /\ up \in BOOLEAN /\ Safe(d, s, n, up) /\ Within(A, d, s, n)
  BY Zenon DEF Movable
<1>1. /\ x \in Int /\ x \in 0 .. n - 1 /\ ~Done(d, n, up, k - 1, s + x)
      /\ \A a \in Int : Done(d, n, up, k, a) <=> Done(d, n, up, k - 1, a) \/ a = d + x
  BY <1>0, NextCopied
<1>2. d + x \in A /\ s + x \in A
  BY <1>0, <1>1 DEF Within
<1> DEFINE p == Copied(m, d, s, n, up, k - 1)
           q == Copied(m, d, s, n, up, k)
<1>3. /\ p = [a \in A |-> IF Done(d, n, up, k - 1, a) THEN m[a - d + s] ELSE m[a]]
      /\ q = [a \in A |-> IF Done(d, n, up, k, a) THEN m[a - d + s] ELSE m[a]]
  BY <1>0 DEF Copied
<1>4. p[s + x] = m[s + x]
  BY <1>0, <1>1, <1>2, <1>3
<1> HIDE DEF p, q
<1>5. ASSUME NEW a \in A PROVE [p EXCEPT ![d + x] = m[s + x]][a] = q[a]
  <2>1. CASE a = d + x
    <3>1. a - d + s = s + x
      BY <1>0, <1>1, <2>1
    <3>2. q[a] = m[s + x]
      BY <1>0, <1>1, <1>3, <2>1, <3>1
    <3>3. a \in DOMAIN p
      BY <1>0, <1>3
    <3> QED BY <1>0, <2>1, <3>2, <3>3
  <2>2. CASE a # d + x
    <3>1. q[a] = p[a]
      BY <1>0, <1>1, <1>3, <2>2
    <3> QED BY <1>0, <1>3, <2>2, <3>1
  <2> QED BY <1>0, <2>1, <2>2
<1>6. [p EXCEPT ![d + x] = m[s + x]] = q
  BY <1>0, <1>3, <1>5
<1> QED BY <1>0, <1>4, <1>6, Zenon DEF p, q

(* A set of naturals that is not empty has a least element.                *)
LEMMA Least ==
  ASSUME NEW T \in SUBSET Nat, T # {}
  PROVE  \E x \in T : \A y \in T : x <= y
<1> DEFINE R == {ss \in Nat \X Nat : ss[1] < ss[2]}
<1>1. IsWellFoundedOn(R, Nat)
  BY NatLessThanWellFounded DEF OpToRel
<1>2. PICK x \in T : \A y \in T : ~ (<<y, x>> \in R)
  <2> HIDE DEF R
  <2> QED BY <1>1, WFMin
<1>3. ASSUME NEW y \in T PROVE x <= y
  <2>1. x \in Nat /\ y \in Nat
    OBVIOUS
  <2>2. ~(y < x)
    BY <1>2, <2>1
  <2> QED BY <2>1, <2>2
<1> QED
  BY <1>3

(* The loop of rep_movs copies what it should,                             *)
LEMMA MovingCopies ==
  ASSUME NEW A, NEW V, NEW m, NEW d, NEW s, NEW n, NEW up, Movable(A, V, m, d, s, n, up),
         NEW g, IsMoving(m, d, s, n, up, g)
  PROVE  \A k \in 0 .. n : g[k] = Copied(m, d, s, n, up, k)
<1>0. /\ A \in SUBSET Int /\ m \in [A -> V] /\ d \in Int /\ s \in Int /\ n \in Nat
      /\ up \in BOOLEAN /\ Safe(d, s, n, up) /\ Within(A, d, s, n)
  BY Zenon DEF Movable
<1> DEFINE Bad == {k \in 0 .. n : g[k] # Copied(m, d, s, n, up, k)}
<1>1. g[0] = Copied(m, d, s, n, up, 0)
  <2>1. g[0] = m
    BY <1>0 DEF Moving, IsMoving
  <2>2. \A a \in A : ~Done(d, n, up, 0, a)
    BY <1>0 DEF Done
  <2>3. Copied(m, d, s, n, up, 0) = [a \in A |-> m[a]]
    BY <1>0, <2>2 DEF Copied
  <2> QED BY <1>0, <2>1, <2>3
<1>2. ASSUME NEW k \in 1 .. n, g[k - 1] = Copied(m, d, s, n, up, k - 1)
      PROVE  g[k] = Copied(m, d, s, n, up, k)
  <2>1. PICK x : x = At(n, up, k - 1)
    BY <1>0
  <2>2. k \in 0 .. n /\ k # 0
    BY <1>0
  <2>3. Moving(m, d, s, n, up, g)[k] = [g[k - 1] EXCEPT ![d + x] = g[k - 1][s + x]]
    BY <1>0, <2>1, <2>2, Zenon DEF Moving
  <2>4. g[k] = [g[k - 1] EXCEPT ![d + x] = g[k - 1][s + x]]
    BY <1>0, <2>3, Zenon DEF IsMoving
  <2>5. [Copied(m, d, s, n, up, k - 1) EXCEPT ![d + x] = Copied(m, d, s, n, up, k - 1)[s + x]]
          = Copied(m, d, s, n, up, k)
    <3> HIDE DEF Bad
    <3> QED BY <2>1, RoundCopied
  <2> QED BY <1>0, <1>2, <2>4, <2>5, Zenon
<1>3. SUFFICES ASSUME Bad # {} PROVE FALSE
  BY <1>0, Zenon
<1>4. Bad \in SUBSET Nat
  BY <1>0
<1>5. PICK k \in Bad : \A j \in Bad : k <= j
  <2> HIDE DEF Bad
  <2> QED BY <1>0, <1>3, <1>4, Least
<1>6. k \in 0 .. n /\ g[k] # Copied(m, d, s, n, up, k)
  BY <1>0, Zenon
<1>7. k # 0
  BY <1>0, <1>1, <1>6
<1>8. k \in 1 .. n /\ k - 1 \in 0 .. n /\ ~(k <= k - 1)
  BY <1>0, <1>6, <1>7
<1>9. g[k - 1] = Copied(m, d, s, n, up, k - 1)
  BY <1>0, <1>5, <1>8, Zenon
<1> QED BY <1>0, <1>2, <1>6, <1>8, <1>9, Zenon

(* and there is such a loop.                                               *)
LEMMA MovingExists ==
  ASSUME NEW A, NEW V, NEW m, NEW d, NEW s, NEW n, NEW up, Movable(A, V, m, d, s, n, up)
  PROVE  \E g : g = Moving(m, d, s, n, up, g)
<1>0. /\ A \in SUBSET Int /\ m \in [A -> V] /\ d \in Int /\ s \in Int /\ n \in Nat
      /\ up \in BOOLEAN /\ Safe(d, s, n, up) /\ Within(A, d, s, n)
  BY Zenon DEF Movable
<1> DEFINE h == [k \in 0 .. n |-> Copied(m, d, s, n, up, k)]
<1>1. Copied(m, d, s, n, up, 0) = m
  <2>1. \A a \in A : ~Done(d, n, up, 0, a)
    BY <1>0 DEF Done
  <2>2. Copied(m, d, s, n, up, 0) = [a \in A |-> m[a]]
    BY <1>0, <2>1 DEF Copied
  <2> QED BY <1>0, <2>2
<1>2. ASSUME NEW k \in 0 .. n
      PROVE  h[k] = IF k = 0 THEN m
                    ELSE [h[k - 1] EXCEPT ![d + At(n, up, k - 1)] = h[k - 1][s + At(n, up, k - 1)]]
  <2>1. CASE k = 0
    BY <1>0, <1>1, <2>1
  <2>2. CASE k # 0
    <3>1. k \in 1 .. n /\ k - 1 \in 0 .. n
      BY <1>0, <2>2
    <3>2. h[k] = Copied(m, d, s, n, up, k) /\ h[k - 1] = Copied(m, d, s, n, up, k - 1)
      BY <1>0, <3>1, Zenon
    <3>3. PICK x : x = At(n, up, k - 1)
      BY <1>0
    <3> HIDE DEF h
    <3>4. [Copied(m, d, s, n, up, k - 1) EXCEPT ![d + x] = Copied(m, d, s, n, up, k - 1)[s + x]]
            = Copied(m, d, s, n, up, k)
      BY <3>1, <3>3, RoundCopied
    <3> QED BY <1>0, <2>2, <3>2, <3>3, <3>4, Zenon
  <2> QED BY <1>0, <2>1, <2>2
<1>3. h = [k \in 0 .. n |-> h[k]]
  BY <1>0
<1> HIDE DEF h
<1>4. h = Moving(m, d, s, n, up, h)
  BY <1>0, <1>2, <1>3, Zenon DEF Moving
<1> QED BY <1>0, <1>4

(* The memory m with n characters moved from s to d, within it.            *)
Area(A, V, m, d, s, n) ==
  /\ A \in SUBSET Int /\ m \in [A -> V] /\ d \in Int /\ s \in Int /\ n \in Nat
  /\ Within(A, d, s, n)
MovedTo(A, m, d, s, n) == [a \in A |-> IF a \in d .. d + n - 1 THEN m[a - d + s] ELSE m[a]]

(* What memmove leaves.                                                    *)
LEMMA MemmoveMoves ==
  ASSUME NEW A, NEW V, NEW m, NEW d, NEW s, NEW n, Area(A, V, m, d, s, n)
  PROVE  memmove(m, d, s, n) = MovedTo(A, m, d, s, n)
<1>0. /\ A \in SUBSET Int /\ m \in [A -> V] /\ d \in Int /\ s \in Int /\ n \in Nat
      /\ Within(A, d, s, n)
  BY Zenon DEF Area
<1>1. PICK up \in BOOLEAN : up = ~(s < d /\ s + n > d)
  BY <1>0
<1>2. Movable(A, V, m, d, s, n, up)
  BY <1>0, <1>1 DEF Movable, Safe
<1> DEFINE g == CHOOSE f : f = Moving(m, d, s, n, up, f)
<1>3. g = Moving(m, d, s, n, up, g)
  <2>1. \E f : f = Moving(m, d, s, n, up, f)
    BY <1>2, MovingExists
  <2> QED BY <2>1, Zenon
<1>4. memmove(m, d, s, n) = g[n]
  BY <1>1, RepIsMoving, Zenon DEF memmove
<1> HIDE DEF g
<1>5. g[n] = Copied(m, d, s, n, up, n)
  <2>1. n \in 0 .. n
    BY <1>0
  <2>2. \A k \in 0 .. n : g[k] = Copied(m, d, s, n, up, k)
    <3>1. IsMoving(m, d, s, n, up, g)
      BY <1>3, Zenon DEF IsMoving
    <3> QED BY <1>2, <3>1, MovingCopies
  <2> QED BY <2>1, <2>2
<1>6. \A a \in A : Done(d, n, up, n, a) <=> a \in d .. d + n - 1
  BY <1>0 DEF Done
<1>7. Copied(m, d, s, n, up, n)
        = [a \in A |-> IF a \in d .. d + n - 1 THEN m[a - d + s] ELSE m[a]]
  BY <1>0, <1>6 DEF Copied
<1> QED BY <1>4, <1>5, <1>7, Zenon DEF MovedTo

-----------------------------------------------------------------------------
(* There is one quotient.                                                  *)
LEMMA DivUnique ==
  ASSUME NEW q \in Nat, NEW r \in Nat, NEW n \in Nat \ {0}, r < n
  PROVE  (n * q + r) \div n = q
OBVIOUS

(* The display.  Rows of n characters, t rows from the top: the division   *)
(* of a position on the page and of that on the display.                   *)
LEMMA RowOf ==
  ASSUME NEW C \in Nat \ {0}, NEW p \in Nat, NEW t \in Nat
  PROVE  /\ (t * C + p) \div C = t + p \div C
         /\ p - (p % C) = (p \div C) * C /\ p % C \in 0 .. C - 1 /\ p \div C \in Nat
<1>1. PICK q \in Nat, r \in 0 .. C - 1 : p = C * q + r /\ q = p \div C /\ r = p % C
  OBVIOUS
<1>2. t * C + p = C * (t + q) + r
  BY <1>1
<1>3. (C * (t + q) + r) \div C = t + q
  <2>1. t + q \in Nat /\ r \in Nat /\ r < C
    BY <1>1
  <2> QED BY <2>1, DivUnique
<1>4. (t * C + p) \div C = t + p \div C
  BY <1>1, <1>2, <1>3
<1>5. p - (p % C) = (p \div C) * C
  BY <1>1
<1> QED BY <1>1, <1>4, <1>5

(* A position in the first n rows.                                         *)
LEMMA RowBelow ==
  ASSUME NEW C \in Nat \ {0}, NEW R \in Nat, NEW p \in Nat
  PROVE  /\ R * C \in Nat
         /\ p < R * C <=> p \div C < R
         /\ p = R * C => p \div C = R
         /\ p < R * C => (p \div C + 1) * C <= R * C
<1>1. R * C \in Nat
  OBVIOUS
<1>2. p < R * C <=> p \div C < R
  OBVIOUS
<1>3. p = R * C => p \div C = R
  OBVIOUS
<1>4. p < R * C => (p \div C + 1) * C <= R * C
  <2>1. PICK q \in Nat : q = p \div C
    OBVIOUS
  <2>2. ASSUME q < R PROVE (q + 1) * C <= R * C
    BY <2>2
  <2> QED BY <1>2, <2>1, <2>2
<1> QED BY <1>1, <1>2, <1>3, <1>4

(* The display has a row at least.                                         *)
LEMMA ScreenSize ==
  /\ CRT_ROWS \in Nat \ {0} /\ CRT_COLS \in Nat \ {0}
  /\ CRT_SIZE \in Nat \ {0} /\ CRT_COLS <= CRT_SIZE /\ CRT_SIZE = CRT_ROWS * CRT_COLS
  /\ CRT_SIZE - CRT_COLS \in Nat
<1>1. CRT_ROWS \in Nat \ {0} /\ CRT_COLS \in Nat \ {0} /\ CRT_SIZE = CRT_ROWS * CRT_COLS
  BY OutputAssumption DEF CRT_SIZE
<1>2. CRT_SIZE \in Nat \ {0} /\ CRT_COLS <= CRT_SIZE
  BY <1>1
<1> QED BY <1>1, <1>2

(* scroll moves every row up by one and clears the last.                   *)
LEMMA Scrolled ==
  ASSUME NEW V, NEW b \in [0 .. CRT_SIZE - 1 -> V]
  PROVE  scroll(b) = [n \in 0 .. CRT_SIZE - 1 |->
                        IF n + CRT_COLS < CRT_SIZE THEN b[n + CRT_COLS] ELSE " "]
<1>1. PICK S, C, k \in Nat : S = CRT_SIZE /\ C = CRT_COLS /\ C <= S /\ k = S - C
  BY ScreenSize
<1> DEFINE A == 0 .. S - 1
<1>2. A \in SUBSET Int /\ b \in [A -> V]
  BY <1>1
<1>3. Within(A, 0, C, k)
  BY <1>1 DEF Within
<1>4. PICK c : c = memmove(b, 0, C, k)
  OBVIOUS
<1>5. c = [a \in A |-> IF a \in 0 .. 0 + k - 1 THEN b[a - 0 + C] ELSE b[a]]
  <2> HIDE DEF A
  <2>1. 0 \in Int /\ C \in Int /\ k \in Nat
    BY <1>1
  <2>2. Area(A, V, b, 0, C, k)
    BY <1>2, <1>3, <2>1 DEF Area
  <2>3. c = MovedTo(A, b, 0, C, k)
    BY <1>4, <2>2, MemmoveMoves
  <2> QED BY <2>3 DEF MovedTo
<1>6. scroll(b) = memset(c, k, " ", C)
  BY <1>1, <1>4, Zenon DEF scroll
<1>7. scroll(b) = [a \in A |-> IF a \in k .. k + C - 1 THEN " " ELSE c[a]]
  BY <1>5, <1>6 DEF memset
<1>8. ASSUME NEW a \in A
      PROVE  (IF a \in k .. k + C - 1 THEN " " ELSE c[a])
               = IF a + C < S THEN b[a + C] ELSE " "
  <2>1. CASE a + C < S
    <3>1. a \in 0 .. 0 + k - 1 /\ a - 0 + C = a + C /\ ~(a \in k .. k + C - 1)
      BY <1>1, <2>1
    <3>2. c[a] = b[a + C]
      BY <1>5, <3>1
    <3> QED BY <2>1, <3>1, <3>2
  <2>2. CASE ~(a + C < S)
    <3>1. a \in k .. k + C - 1
      BY <1>1, <2>2
    <3> QED BY <2>2, <3>1
  <2> QED BY <2>1, <2>2
<1>9. scroll(b) = [a \in A |-> IF a + C < S THEN b[a + C] ELSE " "]
  BY <1>7, <1>8
<1> QED BY <1>1, <1>9

(* The display b shows what is on the page from position t on, where       *)
(* nothing was written behind it; and the cursor is at the same place.     *)
Shows(b, page, t) ==
  /\ page = [n \in Nat |-> page[n]]
  /\ b = [n \in 0 .. CRT_SIZE - 1 |-> page[t + n]]
  /\ \A n \in Nat : n >= t + CRT_SIZE => page[n] = " "
Seen(b, p, g) ==
  /\ g.top \in Nat /\ g.pos \in Nat /\ p \in 0 .. CRT_SIZE - 1
  /\ g.pos = g.top * CRT_COLS + p
  /\ Shows(b, g.page, g.top * CRT_COLS)

(* A character is written to both,                                         *)
LEMMA WriteShows ==
  ASSUME NEW b, NEW page, NEW t \in Nat, Shows(b, page, t), NEW x \in 0 .. CRT_SIZE - 1, NEW c
  PROVE  Shows([b EXCEPT ![x] = c], [page EXCEPT ![t + x] = c], t)
<1>1. /\ page = [n \in Nat |-> page[n]]
      /\ b = [n \in 0 .. CRT_SIZE - 1 |-> page[t + n]]
      /\ \A n \in Nat : n >= t + CRT_SIZE => page[n] = " "
  BY Zenon DEF Shows
<1>2. \A n \in 0 .. CRT_SIZE - 1 : b[n] = page[t + n]
  BY <1>1, Zenon
<1>3. \A n \in Nat : n >= t + CRT_SIZE => page[n] = " "
  BY <1>1, Zenon
<1>4. PICK S \in Nat : S = CRT_SIZE
  BY ScreenSize
<1>5. PICK y \in Nat : y = t + x
  BY <1>4
<1> DEFINE b2 == [b EXCEPT ![x] = c]
           page2 == [page EXCEPT ![y] = c]
<1>6. /\ DOMAIN page2 = Nat /\ DOMAIN b2 = 0 .. S - 1
      /\ page2 = [n \in Nat |-> page2[n]] /\ b2 = [n \in 0 .. S - 1 |-> b2[n]]
  BY <1>1, <1>4
<1>7. \A n \in Nat : page2[n] = IF n = y THEN c ELSE page[n]
  BY <1>1
<1>8. \A n \in 0 .. S - 1 : b2[n] = IF n = x THEN c ELSE b[n]
  BY <1>1, <1>4
<1> HIDE DEF b2, page2
<1>9. ASSUME NEW n \in 0 .. S - 1 PROVE b2[n] = page2[t + n]
  <2>1. t + n \in Nat /\ (t + n = y <=> n = x) /\ b[n] = page[t + n]
    BY <1>2, <1>4, <1>5
  <2> QED BY <1>7, <1>8, <2>1
<1>10. b2 = [n \in 0 .. S - 1 |-> page2[t + n]]
  BY <1>6, <1>9
<1>11. ASSUME NEW n \in Nat, n >= t + S PROVE page2[n] = " "
  <2>1. n >= t + CRT_SIZE
    BY <1>4, <1>11, Zenon
  <2>2. page[n] = " "
    BY <1>3, <2>1, Zenon
  <2>3. n # y
    BY <1>4, <1>5, <1>11
  <2> QED BY <1>7, <2>2, <2>3
<1>12. Shows(b2, page2, t)
  BY <1>4, <1>6, <1>10, <1>11 DEF Shows
<1> QED BY <1>5, <1>12, Zenon DEF b2, page2

(* and both are moved by a row.                                            *)
LEMMA RollShows ==
  ASSUME NEW b, NEW page, NEW t \in Nat, Shows(b, page, t)
  PROVE  Shows(scroll(b), page, t + CRT_COLS)
<1>1. /\ page = [n \in Nat |-> page[n]]
      /\ b = [n \in 0 .. CRT_SIZE - 1 |-> page[t + n]]
      /\ \A n \in Nat : n >= t + CRT_SIZE => page[n] = " "
  BY Zenon DEF Shows
<1>2. \A n \in 0 .. CRT_SIZE - 1 : b[n] = page[t + n]
  BY <1>1, Zenon
<1>3. \A n \in Nat : n >= t + CRT_SIZE => page[n] = " "
  BY <1>1, Zenon
<1>4. PICK S, C \in Nat : S = CRT_SIZE /\ C = CRT_COLS /\ C <= S
  BY ScreenSize
<1>5. b \in [0 .. CRT_SIZE - 1 -> {page[t + n] : n \in 0 .. CRT_SIZE - 1}]
  BY <1>1
<1>6. PICK b2 : b2 = scroll(b)
  OBVIOUS
<1>7. b2 = [n \in 0 .. S - 1 |-> IF n + C < S THEN b[n + C] ELSE " "]
  <2>1. scroll(b) = [n \in 0 .. CRT_SIZE - 1 |->
                       IF n + CRT_COLS < CRT_SIZE THEN b[n + CRT_COLS] ELSE " "]
    BY <1>5, Scrolled
  <2> QED BY <1>4, <1>6, <2>1, Zenon
<1>8. ASSUME NEW n \in 0 .. S - 1 PROVE b2[n] = page[t + C + n]
  <2>1. CASE n + C < S
    <3>1. b2[n] = b[n + C]
      BY <1>7, <2>1
    <3>2. b[n + C] = page[t + (n + C)]
      BY <1>2, <1>4, <2>1
    <3>3. t + (n + C) = t + C + n
      OBVIOUS
    <3> QED BY <3>1, <3>2, <3>3, Zenon
  <2>2. CASE ~(n + C < S)
    <3>1. t + C + n \in Nat /\ t + C + n >= t + CRT_SIZE
      BY <1>4, <2>2
    <3>2. page[t + C + n] = " "
      BY <1>1, <3>1, Zenon
    <3> QED BY <1>7, <2>2, <3>2
  <2> QED BY <2>1, <2>2
<1>9. b2 = [n \in 0 .. S - 1 |-> page[t + C + n]]
  BY <1>7, <1>8
<1>10. \A n \in Nat : n >= t + C + S => page[n] = " "
  <2>1. ASSUME NEW n \in Nat, n >= t + C + S PROVE page[n] = " "
    <3>1. n >= t + CRT_SIZE
      BY <1>4, <2>1
    <3> QED BY <1>3, <3>1, Zenon
  <2> QED BY <2>1
<1>11. Shows(b2, page, t + C)
  BY <1>1, <1>4, <1>9, <1>10, Zenon DEF Shows
<1> QED BY <1>4, <1>6, <1>11, Zenon

(* What cga_char makes of a character is on the page too, and the cursor   *)
(* is not more than one place behind the display.                          *)
LEMMA CharShows ==
  ASSUME NEW b, NEW p, NEW g, NEW ch, NEW t, t = g.top * CRT_COLS, Seen(b, p, g)
  PROVE  /\ cga_char(b, p, ch).p \in 0 .. CRT_SIZE
         /\ PosAfter(g, ch) = t + cga_char(b, p, ch).p
         /\ Shows(cga_char(b, p, ch).b, TextAfter(g, ch), t)
<1>1. PICK C, S, R \in Nat \ {0} : /\ C = CRT_COLS /\ S = CRT_SIZE /\ R = CRT_ROWS /\ S = R * C
  BY ScreenSize
<1>2. PICK k, pos \in Nat : k = g.top /\ pos = g.pos
  BY DEF Seen
<1>3. t \in Nat /\ t = k * C
  BY <1>1, <1>2
<1>4. p \in 0 .. S - 1 /\ pos = t + p /\ Shows(b, g.page, t)
  BY <1>1, <1>2 DEF Seen
<1>5. PICK q \in Nat, r \in 0 .. C - 1 :
        /\ q = p \div C /\ r = p % C /\ p - r = q * C /\ pos \div C = k + q
        /\ (q + 1) * C <= S
  <2>1. p \in Nat /\ p < R * C
    BY <1>1, <1>4
  <2>2. /\ (k * C + p) \div C = k + p \div C
        /\ p - (p % C) = (p \div C) * C /\ p % C \in 0 .. C - 1 /\ p \div C \in Nat
    BY <2>1, RowOf
  <2>3. (p \div C + 1) * C <= R * C
    BY <2>1, RowBelow
  <2> QED BY <1>1, <1>3, <1>4, <2>2, <2>3
<1>6. PICK w \in Nat : w = q * C /\ (q + 1) * C = w + C /\ (k + q) * C = t + w
        /\ (k + q + 1) * C = t + w + C
  BY <1>1, <1>3
<1> DEFINE s == cga_char(b, p, ch)
<1>7. CASE ch = "BS"
  <2>1. Backs(g, ch) <=> p > 0
    BY <1>1, <1>2, <1>3, <1>4, <1>7 DEF Backs
  <2>2. CASE p > 0
    <3>1. PICK x \in 0 .. S - 1 : x = p - 1
      BY <1>4, <2>2
    <3>2. s = [b |-> [b EXCEPT ![p - 1] = " "], p |-> p - 1]
      BY <1>7, <2>2 DEF cga_char
    <3>3. s.b = [b EXCEPT ![x] = " "] /\ s.p = x
      <4>1. PICK c : c = [b EXCEPT ![x] = " "]
        OBVIOUS
      <4>2. s = [b |-> c, p |-> x]
        BY <3>1, <3>2, <4>1, Zenon
      <4> HIDE DEF s
      <4>3. s.b = c /\ s.p = x
        BY <4>2
      <4> QED BY <4>1, <4>3, Zenon
    <3>4. PosAfter(g, ch) = pos - 1 /\ TextAfter(g, ch) = [g.page EXCEPT ![pos - 1] = " "]
      BY <1>2, <1>7, <2>1, <2>2 DEF PosAfter, TextAfter
    <3>5. pos - 1 = t + x
      BY <1>3, <1>4, <3>1
    <3>6. Shows([b EXCEPT ![x] = " "], [g.page EXCEPT ![t + x] = " "], t)
      BY <1>1, <1>3, <1>4, <3>1, WriteShows
    <3>7. Shows(s.b, TextAfter(g, ch), t)
      BY <3>3, <3>4, <3>5, <3>6, Zenon
    <3> HIDE DEF s
    <3>8. s.p \in 0 .. CRT_SIZE /\ PosAfter(g, ch) = t + s.p
      <4>1. x \in 0 .. CRT_SIZE
        BY <1>1, <3>1
      <4> QED BY <3>3, <3>4, <3>5, <4>1, Zenon
    <3> QED BY <3>7, <3>8 DEF s
  <2>3. CASE ~(p > 0)
    <3>1. s = [b |-> b, p |-> p]
      BY <1>7, <2>3 DEF cga_char
    <3>2. s.b = b /\ s.p = p
      BY <3>1
    <3>3. PosAfter(g, ch) = pos /\ TextAfter(g, ch) = g.page
      BY <1>2, <1>7, <2>1, <2>3 DEF PosAfter, TextAfter
    <3> HIDE DEF s
    <3>4. s.p \in 0 .. CRT_SIZE /\ PosAfter(g, ch) = t + s.p
      BY <1>1, <1>4, <3>2, <3>3
    <3>5. Shows(s.b, TextAfter(g, ch), t)
      BY <1>4, <3>2, <3>3, Zenon
    <3> QED BY <3>4, <3>5 DEF s
  <2> QED BY <2>2, <2>3
<1>8. CASE ch = "NL"
  <2>1. s = [b |-> b, p |-> p + CRT_COLS - (p % CRT_COLS)]
    BY <1>8 DEF cga_char
  <2>2. s.b = b /\ s.p = p + CRT_COLS - (p % CRT_COLS)
    BY <2>1
  <2>3. PosAfter(g, ch) = (g.pos \div CRT_COLS + 1) * CRT_COLS /\ TextAfter(g, ch) = g.page
    BY <1>8 DEF PosAfter, TextAfter, Backs
  <2> HIDE DEF s
  <2>4. s.p = w + C /\ w + C <= S
    BY <1>1, <1>4, <1>5, <1>6, <2>2
  <2>5. PosAfter(g, ch) = t + w + C
    BY <1>1, <1>2, <1>5, <1>6, <2>3, Zenon
  <2>6. s.p \in 0 .. CRT_SIZE /\ PosAfter(g, ch) = t + s.p
    BY <1>1, <1>3, <2>4, <2>5
  <2>7. Shows(s.b, TextAfter(g, ch), t)
    BY <1>4, <2>2, <2>3, Zenon
  <2> QED BY <2>6, <2>7 DEF s
<1>9. CASE ch = "CR"
  <2>1. s = [b |-> b, p |-> p - (p % CRT_COLS)]
    BY <1>9 DEF cga_char
  <2>2. s.b = b /\ s.p = p - (p % CRT_COLS)
    BY <2>1
  <2>3. PosAfter(g, ch) = (g.pos \div CRT_COLS) * CRT_COLS /\ TextAfter(g, ch) = g.page
    BY <1>9 DEF PosAfter, TextAfter, Backs
  <2> HIDE DEF s
  <2>4. s.p = w /\ w <= S
    BY <1>1, <1>4, <1>5, <1>6, <2>2
  <2>5. PosAfter(g, ch) = t + w
    BY <1>1, <1>2, <1>5, <1>6, <2>3, Zenon
  <2>6. s.p \in 0 .. CRT_SIZE /\ PosAfter(g, ch) = t + s.p
    BY <1>1, <1>3, <2>4, <2>5
  <2>7. Shows(s.b, TextAfter(g, ch), t)
    BY <1>4, <2>2, <2>3, Zenon
  <2> QED BY <2>6, <2>7 DEF s
<1>10. CASE ch = "TAB"
  <2>1. s = [b |-> b, p |-> p]
    BY <1>10 DEF cga_char
  <2>2. s.b = b /\ s.p = p
    BY <2>1
  <2>3. PosAfter(g, ch) = pos /\ TextAfter(g, ch) = g.page
    BY <1>2, <1>10 DEF PosAfter, TextAfter, Backs
  <2> HIDE DEF s
  <2>4. s.p \in 0 .. CRT_SIZE /\ PosAfter(g, ch) = t + s.p
    BY <1>1, <1>4, <2>2, <2>3
  <2>5. Shows(s.b, TextAfter(g, ch), t)
    BY <1>4, <2>2, <2>3, Zenon
  <2> QED BY <2>4, <2>5 DEF s
<1>11. CASE ~(ch \in {"BS", "NL", "CR", "TAB"})
  <2>1. s = [b |-> [b EXCEPT ![p] = ch], p |-> p + 1]
    BY <1>11 DEF cga_char
  <2>2. s.b = [b EXCEPT ![p] = ch] /\ s.p = p + 1
    BY <2>1
  <2>3. PosAfter(g, ch) = pos + 1 /\ TextAfter(g, ch) = [g.page EXCEPT ![pos] = ch]
    BY <1>2, <1>11 DEF PosAfter, TextAfter, Backs
  <2>4. Shows([b EXCEPT ![p] = ch], [g.page EXCEPT ![t + p] = ch], t)
    BY <1>1, <1>3, <1>4, WriteShows
  <2>5. Shows(s.b, TextAfter(g, ch), t)
    BY <1>4, <2>2, <2>3, <2>4, Zenon
  <2> HIDE DEF s
  <2>6. s.p \in 0 .. CRT_SIZE /\ PosAfter(g, ch) = t + s.p
    BY <1>1, <1>3, <1>4, <2>2, <2>3
  <2> QED BY <2>5, <2>6 DEF s
<1> QED BY <1>7, <1>8, <1>9, <1>10, <1>11, Zenon

(* The two stay together when the display scrolls.                         *)
LEMMA StepSeen ==
  ASSUME NEW b, NEW p, NEW g, NEW ch, NEW s, NEW b2, NEW p2, Seen(b, p, g),
         s = cga_char(b, p, ch),
         b2 = IF s.p >= CRT_SIZE THEN scroll(s.b) ELSE s.b,
         p2 = IF s.p >= CRT_SIZE THEN s.p - CRT_COLS ELSE s.p
  PROVE  Seen(b2, p2, PageStep(g, ch))
<1>1. PICK C, S, R \in Nat \ {0} : /\ C = CRT_COLS /\ S = CRT_SIZE /\ R = CRT_ROWS /\ S = R * C /\ C <= S
  BY ScreenSize
<1>2. PICK k \in Nat : k = g.top
  BY DEF Seen
<1>3. PICK t \in Nat : t = k * C /\ t = g.top * CRT_COLS
  BY <1>1, <1>2
<1>4. /\ s.p \in 0 .. CRT_SIZE /\ PosAfter(g, ch) = t + s.p
      /\ Shows(s.b, TextAfter(g, ch), t)
  BY <1>3, CharShows, Zenon
<1>5. PICK x \in 0 .. S, pos \in Nat : x = s.p /\ pos = PosAfter(g, ch) /\ pos = t + x
  BY <1>1, <1>4
<1>6. pos \div C = k + x \div C /\ x \div C \in Nat /\ (x < S <=> x \div C < R)
      /\ (x = S => x \div C = R)
  <2>1. x \in Nat
    BY <1>1
  <2>2. (k * C + x) \div C = k + x \div C /\ x \div C \in Nat
    BY <2>1, RowOf
  <2>3. (x < R * C <=> x \div C < R) /\ (x = R * C => x \div C = R)
    BY <2>1, RowBelow
  <2> QED BY <1>1, <1>3, <1>5, <2>2, <2>3
<1> DEFINE g2 == PageStep(g, ch)
           row == PosAfter(g, ch) \div CRT_COLS
<1>7. /\ g2.page = TextAfter(g, ch) /\ g2.pos = pos
      /\ g2.top = IF row >= k + R THEN row - R + 1 ELSE k
  BY <1>1, <1>2, <1>5 DEF PageStep
<1>8. row = k + x \div C
  BY <1>1, <1>5, <1>6, Zenon
<1> HIDE DEF g2, row
<1>9. CASE x = S
  <2>1. b2 = scroll(s.b) /\ p2 = S - C
    BY <1>1, <1>5, <1>9
  <2>2. g2.top = k + 1
    BY <1>1, <1>6, <1>7, <1>8, <1>9
  <2>3. g2.top * CRT_COLS = t + CRT_COLS /\ t + CRT_COLS = t + C
    BY <1>1, <1>2, <1>3, <2>2
  <2>4. Shows(b2, g2.page, t + CRT_COLS)
    BY <1>4, <1>7, <2>1, RollShows
  <2>5. pos = t + C + p2 /\ p2 \in 0 .. S - 1
    BY <1>1, <1>5, <1>9, <2>1
  <2>7. g2.top \in Nat
    BY <2>2
  <2>8. g2.pos = g2.top * CRT_COLS + p2
    BY <1>7, <2>3, <2>5, Zenon
  <2>9. Shows(b2, g2.page, g2.top * CRT_COLS)
    BY <2>3, <2>4, Zenon
  <2>10. Seen(b2, p2, g2)
    BY <1>1, <1>7, <2>5, <2>7, <2>8, <2>9 DEF Seen
  <2> QED BY <2>10 DEF g2
<1>10. CASE x # S
  <2>1. b2 = s.b /\ p2 = x /\ x < S
    BY <1>1, <1>5, <1>10
  <2>2. g2.top = k
    BY <1>1, <1>6, <1>7, <1>8, <2>1
  <2>3. g2.top * CRT_COLS = t
    BY <1>2, <1>3, <2>2
  <2>4. Shows(b2, g2.page, g2.top * CRT_COLS)
    BY <1>4, <1>7, <2>1, <2>3, Zenon
  <2>5. g2.pos = g2.top * CRT_COLS + p2
    BY <1>5, <1>7, <2>1, <2>3, Zenon
  <2>6. p2 \in 0 .. CRT_SIZE - 1
    BY <1>1, <2>1
  <2>7. Seen(b2, p2, g2)
    BY <1>7, <2>2, <2>4, <2>5, <2>6 DEF Seen
  <2> QED BY <2>7 DEF g2
<1> QED BY <1>9, <1>10

(* The pages after each of the characters s, from the first page f on.     *)
Pages(s, f, g) == g = [n \in 0 .. Len(s) |-> IF n = 0 THEN f ELSE PageStep(g[n - 1], s[n])]

(* Page is the last of them.                                               *)
LEMMA PageIsLast ==
  ASSUME NEW s
  PROVE  Page(s) = (CHOOSE g : Pages(s, FirstPage, g))[Len(s)]
BY Zenon DEF Page, Pages

(* The pages for no character.                                             *)
LEMMA FirstPages ==
  ASSUME NEW f
  PROVE  (\E g : Pages(<< >>, f, g)) /\ \A g : Pages(<< >>, f, g) => g[0] = f
<1>1. Len(<< >>) = 0
  OBVIOUS
<1>2. Pages(<< >>, f, [n \in 0 .. 0 |-> f])
  <2>1. [n \in 0 .. 0 |-> f] = [n \in 0 .. 0 |-> IF n = 0 THEN f
                                  ELSE PageStep([k \in 0 .. 0 |-> f][n - 1], << >>[n])]
    OBVIOUS
  <2> QED BY <1>1, <2>1, Zenon DEF Pages
<1>3. ASSUME NEW g, Pages(<< >>, f, g) PROVE g[0] = f
  BY <1>1, <1>3 DEF Pages
<1> QED BY <1>2, <1>3

(* A character more, in a sequence.                                        *)
More(S, s, c, s2) == s \in Seq(S) /\ s2 = Append(s, c)

(* The pages for one character more: those before it, and a step.          *)
LEMMA MorePages ==
  ASSUME NEW S, NEW s, NEW c, NEW f, NEW s2, More(S, s, c, s2)
  PROVE  /\ (\E g : Pages(s, f, g)) => \E g : Pages(s2, f, g)
         /\ \A g : Pages(s2, f, g) =>
              \E h : Pages(s, f, h) /\ g[Len(s2)] = PageStep(h[Len(s)], c)
<1>1. PICK k \in Nat : k = Len(s) /\ Len(s2) = k + 1 /\ s2[k + 1] = c
  BY OneMore DEF More
<1>2. \A n \in 1 .. k : s2[n] = s[n]
  BY <1>1 DEF More
<1>3. ASSUME NEW g, Pages(s, f, g) PROVE \E h : Pages(s2, f, h)
  <2> DEFINE h == [n \in 0 .. k + 1 |-> IF n = k + 1 THEN PageStep(g[k], c) ELSE g[n]]
  <2>1. \A n \in 0 .. k : g[n] = IF n = 0 THEN f ELSE PageStep(g[n - 1], s[n])
    BY <1>1, <1>3, Zenon DEF Pages
  <2>2. ASSUME NEW n \in 0 .. k + 1
        PROVE  h[n] = IF n = 0 THEN f ELSE PageStep(h[n - 1], s2[n])
    <3>1. CASE n = k + 1
      <4>1. n # 0 /\ n - 1 = k /\ k \in 0 .. k + 1 /\ k # k + 1
        BY <3>1
      <4>2. h[n] = PageStep(g[k], c) /\ h[k] = g[k]
        BY <3>1, <4>1, Zenon
      <4> HIDE DEF h
      <4> QED BY <1>1, <3>1, <4>1, <4>2, Zenon
    <3>2. CASE n # k + 1 /\ n # 0
      <4>1. n \in 1 .. k /\ n \in 0 .. k /\ n - 1 \in 0 .. k + 1 /\ n - 1 # k + 1
        BY <3>2
      <4>2. h[n] = g[n] /\ h[n - 1] = g[n - 1]
        BY <3>2, <4>1, Zenon
      <4> HIDE DEF h
      <4> QED BY <1>2, <2>1, <3>2, <4>1, <4>2, Zenon
    <3>3. CASE n # k + 1 /\ n = 0
      <4>1. n \in 0 .. k
        BY <3>3
      <4>2. h[n] = g[n]
        BY <3>3, Zenon
      <4> HIDE DEF h
      <4> QED BY <2>1, <3>3, <4>1, <4>2, Zenon
    <3> QED BY <3>1, <3>2, <3>3
  <2>3. h = [n \in 0 .. k + 1 |-> h[n]]
    OBVIOUS
  <2> HIDE DEF h
  <2>4. h = [n \in 0 .. k + 1 |-> IF n = 0 THEN f ELSE PageStep(h[n - 1], s2[n])]
    BY <2>2, <2>3, Zenon
  <2> QED BY <1>1, <2>4, Zenon DEF Pages
<1>4. ASSUME NEW g, Pages(s2, f, g)
      PROVE  \E h : Pages(s, f, h) /\ g[Len(s2)] = PageStep(h[Len(s)], c)
  <2> DEFINE h == [n \in 0 .. k |-> g[n]]
  <2>1. \A n \in 0 .. k + 1 : g[n] = IF n = 0 THEN f ELSE PageStep(g[n - 1], s2[n])
    BY <1>1, <1>4, Zenon DEF Pages
  <2>2. ASSUME NEW n \in 0 .. k
        PROVE  h[n] = IF n = 0 THEN f ELSE PageStep(h[n - 1], s[n])
    <3>1. n \in 0 .. k + 1
      OBVIOUS
    <3>2. CASE n = 0
      BY <2>1, <3>1, <3>2, Zenon
    <3>3. CASE n # 0
      <4>1. n \in 1 .. k /\ n - 1 \in 0 .. k
        BY <3>3
      <4>2. h[n] = g[n] /\ h[n - 1] = g[n - 1]
        BY <4>1, Zenon
      <4> HIDE DEF h
      <4> QED BY <1>2, <2>1, <3>1, <3>3, <4>1, <4>2, Zenon
    <3> QED BY <3>2, <3>3
  <2>3. h = [n \in 0 .. k |-> h[n]]
    OBVIOUS
  <2>4. k + 1 \in 0 .. k + 1 /\ k + 1 # 0 /\ (k + 1) - 1 = k /\ k \in 0 .. k
    OBVIOUS
  <2>5. h[k] = g[k]
    BY <2>4, Zenon
  <2>6. g[k + 1] = PageStep(g[k], c)
    BY <1>1, <2>1, <2>4, Zenon
  <2> HIDE DEF h
  <2>7. h = [n \in 0 .. k |-> IF n = 0 THEN f ELSE PageStep(h[n - 1], s[n])]
    BY <2>2, <2>3, Zenon
  <2>8. Pages(s, f, h)
    BY <1>1, <2>7, Zenon DEF Pages
  <2> QED BY <1>1, <2>5, <2>6, <2>8, Zenon
<1> QED BY <1>3, <1>4

(* The invariant of the display: there is a page for what was shown, and   *)
(* the display is its end.                                                 *)
ShownPart == \E S : shown \in Seq(S)
PagePart ==
  /\ \E g : Pages(shown, FirstPage, g)
  /\ \A g : Pages(shown, FirstPage, g) => Seen(crt_buf, crt_pos, g[Len(shown)])
ScreenInv == ShownPart /\ PagePart /\ cursor = HighLow(crt_pos)

(* The two bytes of the cursor registers are the position.                 *)
LEMMA BytesJoin ==
  ASSUME NEW n \in Nat, NEW c, c = HighLow(n)
  PROVE  c[1] * 256 + c[2] = n
<1>1. c[1] = n \div 256 /\ c[2] = n % 256
  BY DEF HighLow
<1>2. PICK q, r \in Nat : q = n \div 256 /\ r = n % 256 /\ n - r = q * 256
  <2>1. PICK C \in Nat \ {0} : C = 256
    OBVIOUS
  <2>2. n - (n % C) = (n \div C) * C /\ n % C \in 0 .. C - 1 /\ n \div C \in Nat
    BY RowOf
  <2> QED BY <2>1, <2>2
<1>3. c[1] = q /\ c[2] = r
  BY <1>1, <1>2
<1>4. q * 256 + r = n
  BY <1>2
<1> QED BY <1>3, <1>4

(* cga_init takes the page as the BIOS left it.                            *)
LEMMA InitScreen == OutInit => ScreenInv
<1> SUFFICES ASSUME OutInit PROVE ScreenInv
  OBVIOUS
<1>1. /\ crt_buf = [n \in 0 .. CRT_SIZE - 1 |-> "bios"] /\ shown = << >>
      /\ cursor0 \in CursorAt /\ cursor = HighLow(cursor0) /\ crt_pos = cursor[1] * 256 + cursor[2]
  BY DEF OutInit, cga_init
<1>2. PICK S \in Nat : S = CRT_SIZE
  BY ScreenSize
<1>3. cursor0 \in 0 .. S - 1
  BY <1>1, <1>2, OutputAssumption
<1>4. crt_pos = cursor0
  BY <1>1, <1>3, BytesJoin
<1> DEFINE f == FirstPage
           t == [n \in Nat |-> IF n < CRT_SIZE THEN "bios" ELSE " "]
<1>5. f.page = t /\ f.pos = cursor0 /\ f.top = 0
  BY DEF FirstPage
<1>6. PICK z \in Nat : z = f.top * CRT_COLS /\ z = 0
  <2> HIDE DEF f
  <2>1. CRT_COLS \in Nat
    BY ScreenSize
  <2>2. 0 * CRT_COLS = 0
    BY <2>1
  <2>3. f.top * CRT_COLS = 0
    BY <1>5, <2>2, Zenon
  <2> QED BY <2>3
<1>7. Shows(crt_buf, t, z)
  <2>1. t = [n \in Nat |-> t[n]]
    OBVIOUS
  <2>2. ASSUME NEW n \in 0 .. CRT_SIZE - 1 PROVE t[z + n] = "bios"
    <3>1. z + n \in Nat /\ z + n < CRT_SIZE
      BY <1>2, <1>6
    <3> QED BY <3>1, Zenon
  <2>3. ASSUME NEW n \in Nat, n >= z + CRT_SIZE PROVE t[n] = " "
    BY <1>2, <1>6, <2>3
  <2> HIDE DEF t
  <2>4. crt_buf = [n \in 0 .. CRT_SIZE - 1 |-> t[z + n]]
    BY <1>1, <2>2
  <2> QED BY <2>1, <2>3, <2>4, Zenon DEF Shows
<1>8. Seen(crt_buf, crt_pos, f)
  <2> HIDE DEF f, t
  <2>1. f.top \in Nat /\ f.pos \in Nat /\ crt_pos \in 0 .. CRT_SIZE - 1
    BY <1>2, <1>3, <1>4, <1>5
  <2>2. f.pos = f.top * CRT_COLS + crt_pos
    BY <1>3, <1>4, <1>5, <1>6
  <2>3. Shows(crt_buf, f.page, f.top * CRT_COLS)
    BY <1>5, <1>6, <1>7, Zenon
  <2> QED BY <2>1, <2>2, <2>3 DEF Seen
<1>9. PagePart
  <2> HIDE DEF f
  <2>1. (\E g : Pages(shown, f, g)) /\ \A g : Pages(shown, f, g) => g[0] = f
    BY <1>1, FirstPages
  <2>2. Len(shown) = 0
    BY <1>1
  <2> QED BY <1>8, <2>1, <2>2, Zenon DEF PagePart, f
<1>10. ShownPart
  <2>1. shown \in Seq({})
    BY <1>1
  <2> QED BY <2>1, Zenon DEF ShownPart
<1> QED BY <1>1, <1>4, <1>9, <1>10, Zenon DEF ScreenInv

(* cga_putc writes the character to the display as PageStep does to the    *)
(* page.                                                                   *)
LEMMA PutScreen ==
  ASSUME ScreenInv, cga_putc
  PROVE  ScreenInv'
<1> DEFINE ch == Head(text)
           s == cga_char(crt_buf, crt_pos, ch)
<1>1. /\ crt_buf' = (IF s.p >= CRT_SIZE THEN scroll(s.b) ELSE s.b)
      /\ crt_pos' = (IF s.p >= CRT_SIZE THEN s.p - CRT_COLS ELSE s.p)
      /\ cursor' = HighLow(crt_pos') /\ shown' = Append(shown, ch) /\ cursor0' = cursor0
  BY DEF cga_putc
<1>2. PICK S : shown \in Seq(S)
  BY DEF ScreenInv, ShownPart
<1> HIDE DEF ch
<1>3. ShownPart'
  <2>1. shown' \in Seq(S \cup {ch})
    BY <1>1, <1>2, OneMore
  <2> QED BY <2>1, Zenon DEF ShownPart
<1>4. PICK f : f = FirstPage /\ f = FirstPage'
  BY <1>1, Zenon DEF FirstPage
<1>5. /\ (\E g : Pages(shown, f, g)) => \E g : Pages(shown', f, g)
      /\ \A g : Pages(shown', f, g) =>
           \E h : Pages(shown, f, h) /\ g[Len(shown')] = PageStep(h[Len(shown)], ch)
  <2> HIDE DEF s
  <2>1. shown' = Append(shown, ch)
    BY <1>1
  <2>2. More(S, shown, ch, shown')
    BY <1>2, <2>1, Zenon DEF More
  <2> QED BY <2>2, MorePages
<1>6. /\ \E g : Pages(shown, f, g)
      /\ \A g : Pages(shown, f, g) => Seen(crt_buf, crt_pos, g[Len(shown)])
  BY <1>4, Zenon DEF ScreenInv, PagePart
<1>7. ASSUME NEW g, Pages(shown', f, g) PROVE Seen(crt_buf', crt_pos', g[Len(shown')])
  <2>1. PICK h : Pages(shown, f, h) /\ g[Len(shown')] = PageStep(h[Len(shown)], ch)
    BY <1>5, <1>7, Zenon
  <2>2. Seen(crt_buf, crt_pos, h[Len(shown)])
    BY <1>6, <2>1, Zenon
  <2>3. Seen(crt_buf', crt_pos', PageStep(h[Len(shown)], ch))
    BY <1>1, <2>2, StepSeen, Zenon
  <2> QED BY <2>1, <2>3, Zenon
<1>8. PagePart'
  BY <1>4, <1>5, <1>6, <1>7, Zenon DEF PagePart
<1> QED BY <1>1, <1>3, <1>8, Zenon DEF ScreenInv

(* No other step touches the display.                                      *)
LEMMA StepScreen == ScreenInv /\ [OutNext]_outvars => ScreenInv'
<1> SUFFICES ASSUME ScreenInv, [OutNext]_outvars PROVE ScreenInv'
  OBVIOUS
<1>1. CASE cga_putc
  BY <1>1, PutScreen
<1>2. ASSUME UNCHANGED <<crt_buf, crt_pos, cursor, cursor0, shown>> PROVE ScreenInv'
  <2>1. FirstPage' = FirstPage
    BY <1>2, Zenon DEF FirstPage
  <2>2. ShownPart' /\ PagePart'
    BY <1>2, <2>1, Zenon DEF ScreenInv, ShownPart, PagePart
  <2> QED BY <1>2, <2>2, Zenon DEF ScreenInv
<1>3. CASE \E c \in Calls : cprintf(c)
  BY <1>2, <1>3 DEF cprintf, display
<1>4. CASE \E c \in Echo : cputchar(c)
  BY <1>2, <1>4 DEF cputchar, display
<1>5. CASE serial_wait \/ serial_putc \/ lpt_wait \/ lpt_putc
  BY <1>2, <1>5 DEF serial_wait, serial_putc, lpt_wait, lpt_putc, display
<1>6. CASE Transmit \/ PrinterReady \/ UNCHANGED outvars
  BY <1>2, <1>6 DEF Transmit, PrinterReady, outvars, display
<1> QED BY <1>1, <1>3, <1>4, <1>5, <1>6, Zenon DEF OutNext, cons_putc

(* ScreenRight: whatever the kernel prints, for every size of the display  *)
(* and every place where the BIOS left the cursor, the display memory that *)
(* cga_putc (kern/console.c) keeps is the end of the page that was         *)
(* printed, the cursor never leaves it, and the 6845 shows it at crt_pos.  *)
THEOREM ScreenRight == OutputSpec => []ScreenIsTail
<1>1. ScreenInv => ScreenIsTail
  <2> SUFFICES ASSUME ScreenInv PROVE ScreenIsTail
    OBVIOUS
  <2> DEFINE g == Page(shown)
  <2>1. Seen(crt_buf, crt_pos, g)
    <3>1. Pages(shown, FirstPage, CHOOSE h : Pages(shown, FirstPage, h))
      BY Zenon DEF ScreenInv, PagePart
    <3>2. Seen(crt_buf, crt_pos, (CHOOSE h : Pages(shown, FirstPage, h))[Len(shown)])
      BY <3>1, Zenon DEF ScreenInv, PagePart
    <3> QED BY <3>2, PageIsLast, Zenon
  <2> HIDE DEF g
  <2>2. /\ g.top \in Nat /\ g.pos \in Nat /\ crt_pos \in 0 .. CRT_SIZE - 1
        /\ g.pos = g.top * CRT_COLS + crt_pos /\ Shows(crt_buf, g.page, g.top * CRT_COLS)
    BY <2>1, Zenon DEF Seen
  <2>3. crt_buf = [n \in 0 .. CRT_SIZE - 1 |-> g.page[g.top * CRT_COLS + n]]
    BY <2>2, Zenon DEF Shows
  <2>4. PICK t, p \in Nat : t = g.top * CRT_COLS /\ p = crt_pos
    BY <2>2, ScreenSize
  <2>5. crt_pos = g.pos - g.top * CRT_COLS
    BY <2>2, <2>4
  <2>6. cursor[1] * 256 + cursor[2] = crt_pos
    BY <2>4, BytesJoin DEF ScreenInv
  <2> QED BY <2>2, <2>3, <2>5, <2>6, Zenon DEF ScreenIsTail, g
<1> QED BY <1>1, InitScreen, StepScreen, PTL DEF OutputSpec

=============================================================================
