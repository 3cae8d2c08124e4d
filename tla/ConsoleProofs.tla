---------------------------- MODULE ConsoleProofs ----------------------------
(***************************************************************************)
(* The ring buffer of kern/console.c implements a queue, for every size of *)
(* the buffer, every set of characters and every bound on what may wait,   *)
(* as long as the bound leaves room for what the two devices hold.         *)
(***************************************************************************)
EXTENDS Console, SequenceTheorems, TLAPS

Values == Chars \cup {0}

-----------------------------------------------------------------------------
(* The number of characters in the ring is less than the number of cells,  *)
(* and is 0 only when the two positions are the same.                      *)
LEMMA RingCountRange ==
  ASSUME NEW r \in Cells, NEW w \in Cells
  PROVE  /\ RingCount(r, w) \in 0 .. CONSBUFSIZE - 1
         /\ RingCount(r, w) = 0 <=> r = w
BY ConsoleAssumption DEF RingCount, Cells

(* Advancing a position keeps it inside the buffer.                        *)
LEMMA WrapRange ==
  ASSUME NEW r \in Cells
  PROVE  Wrap(r + 1) \in Cells
BY ConsoleAssumption DEF Wrap, Cells

(* The contents of the ring form a sequence as long as the count.          *)
LEMMA RingSeq ==
  ASSUME NEW b \in [Cells -> Values], NEW r \in Cells, NEW w \in Cells
  PROVE  /\ Ring(b, r, w) \in Seq(Values)
         /\ Len(Ring(b, r, w)) = RingCount(r, w)
         /\ \A n \in 1 .. RingCount(r, w) : Ring(b, r, w)[n] = b[RingCell(r, n)]
<1> DEFINE k == RingCount(r, w)
<1>1. k \in Nat /\ k < CONSBUFSIZE
  BY RingCountRange, ConsoleAssumption
<1>2. \A n \in 1 .. k : RingCell(r, n) \in Cells
  BY <1>1, ConsoleAssumption DEF RingCell, Cells
<1>3. Ring(b, r, w) \in [1 .. k -> Values]
  <2> HIDE DEF k
  <2>1. Ring(b, r, w) = [n \in 1 .. k |-> b[RingCell(r, n)]]
    BY DEF Ring, k
  <2> QED BY <1>2, <2>1
<1>4. Ring(b, r, w) \in Seq(Values)
  BY <1>1, <1>3, SeqDef
<1>5. Len(Ring(b, r, w)) = k
  <2> HIDE DEF k
  <2>1. DOMAIN Ring(b, r, w) = 1 .. k
    BY <1>3
  <2>2. DOMAIN Ring(b, r, w) = 1 .. Len(Ring(b, r, w)) /\ Len(Ring(b, r, w)) \in Nat
    BY <1>4, LenProperties
  <2> QED BY <1>1, <2>1, <2>2
<1> QED
  BY <1>4, <1>5 DEF Ring

(* Storing a character at wpos appends it, if one cell stays unused.       *)
LEMMA RingStore ==
  ASSUME NEW b \in [Cells -> Values], NEW r \in Cells, NEW w \in Cells,
         NEW x \in Values, RingCount(r, w) + 1 < CONSBUFSIZE
  PROVE  /\ Ring([b EXCEPT ![w] = x], r, Wrap(w + 1)) = Append(Ring(b, r, w), x)
         /\ RingCount(r, Wrap(w + 1)) = RingCount(r, w) + 1
<1> DEFINE b2 == [b EXCEPT ![w] = x]
           w2 == Wrap(w + 1)
           k  == RingCount(r, w)
           s  == Ring(b, r, w)
           t  == Ring(b2, r, w2)
<1>1. w2 \in Cells /\ k \in Nat
  BY WrapRange, RingCountRange, ConsoleAssumption
<1>2. b2 \in [Cells -> Values]
  OBVIOUS
<1>3. RingCount(r, w2) = k + 1
  BY ConsoleAssumption DEF RingCount, Wrap, Cells
<1>4. s \in Seq(Values) /\ Len(s) = k /\ \A n \in 1 .. k : s[n] = b[RingCell(r, n)]
  BY RingSeq
<1>5. /\ t \in Seq(Values) /\ Len(t) = k + 1
      /\ \A n \in 1 .. k + 1 : t[n] = b2[RingCell(r, n)]
  <2> HIDE DEF b2, w2, k
  <2>1. /\ t \in Seq(Values)
        /\ Len(t) = RingCount(r, w2)
        /\ \A n \in 1 .. RingCount(r, w2) : t[n] = b2[RingCell(r, n)]
    BY <1>1, <1>2, RingSeq
  <2> HIDE DEF t
  <2> QED BY <1>3, <2>1
<1>6. RingCell(r, k + 1) = w
  BY ConsoleAssumption DEF RingCell, RingCount, Cells
<1>7. \A n \in 1 .. k : RingCell(r, n) # w /\ RingCell(r, n) \in Cells
  BY ConsoleAssumption DEF RingCell, RingCount, Cells
<1>8. /\ Append(s, x) \in Seq(Values) /\ Len(Append(s, x)) = k + 1
      /\ \A n \in 1 .. k : Append(s, x)[n] = s[n]
      /\ Append(s, x)[k + 1] = x
  <2> HIDE DEF s, k
  <2> QED BY <1>4, AppendProperties
<1>9. \A n \in 1 .. k + 1 : t[n] = Append(s, x)[n]
  <2> SUFFICES ASSUME NEW n \in 1 .. k + 1 PROVE t[n] = Append(s, x)[n]
    OBVIOUS
  <2>1. CASE n = k + 1
    <3>1. b2[w] = x
      OBVIOUS
    <3> HIDE DEF s, t, b2, k
    <3> QED BY <2>1, <3>1, <1>1, <1>5, <1>6, <1>8
  <2>2. CASE n # k + 1
    <3>1. n \in 1 .. k
      <4> HIDE DEF k
      <4> QED BY <2>2, <1>1
    <3>2. b2[RingCell(r, n)] = b[RingCell(r, n)]
      <4> HIDE DEF k
      <4> QED BY <1>7, <3>1
    <3> HIDE DEF s, t, b2, k
    <3> QED BY <3>1, <3>2, <1>4, <1>5, <1>8
  <2> QED BY <2>1, <2>2
<1>10. t = Append(s, x)
  <2> HIDE DEF s, t, k
  <2> QED BY <1>5, <1>8, <1>9, SeqEqual
<1> QED
  BY <1>3, <1>10

(* Taking the character at rpos takes the head of the queue.               *)
LEMMA RingTake ==
  ASSUME NEW b \in [Cells -> Values], NEW r \in Cells, NEW w \in Cells, r # w
  PROVE  /\ Ring(b, r, w) # << >>
         /\ b[r] = Head(Ring(b, r, w))
         /\ Ring(b, Wrap(r + 1), w) = Tail(Ring(b, r, w))
         /\ RingCount(Wrap(r + 1), w) = RingCount(r, w) - 1
<1> DEFINE r2 == Wrap(r + 1)
           k  == RingCount(r, w)
           s  == Ring(b, r, w)
           t  == Ring(b, r2, w)
<1>1. r2 \in Cells /\ k \in Nat /\ k # 0
  BY WrapRange, RingCountRange, ConsoleAssumption
<1>2. RingCount(r2, w) = k - 1
  BY ConsoleAssumption DEF RingCount, Wrap, Cells
<1>3. s \in Seq(Values) /\ Len(s) = k /\ \A n \in 1 .. k : s[n] = b[RingCell(r, n)]
  BY RingSeq
<1>4. /\ t \in Seq(Values) /\ Len(t) = k - 1
      /\ \A n \in 1 .. k - 1 : t[n] = b[RingCell(r2, n)]
  <2> HIDE DEF r2, k
  <2>1. /\ t \in Seq(Values)
        /\ Len(t) = RingCount(r2, w)
        /\ \A n \in 1 .. RingCount(r2, w) : t[n] = b[RingCell(r2, n)]
    BY <1>1, RingSeq
  <2> HIDE DEF t
  <2> QED BY <1>2, <2>1
<1>5. RingCell(r, 1) = r
  BY ConsoleAssumption DEF RingCell, Cells
<1>6. \A n \in 1 .. k - 1 : RingCell(r2, n) = RingCell(r, n + 1)
  BY ConsoleAssumption DEF RingCell, RingCount, Wrap, Cells
<1> HIDE DEF r2, k, s, t
<1>7. s # << >>
  BY <1>1, <1>3, EmptySeq
<1>8. Head(s) = s[1]
  BY <1>3, <1>7
<1>9. /\ Tail(s) \in Seq(Values) /\ Len(Tail(s)) = k - 1
      /\ \A n \in 1 .. k - 1 : Tail(s)[n] = s[n + 1]
  BY <1>3, <1>7, HeadTailProperties
<1>10. \A n \in 1 .. k - 1 : t[n] = Tail(s)[n]
  BY <1>1, <1>3, <1>4, <1>6, <1>9, SMTT(30)
<1>11. t = Tail(s)
  BY <1>4, <1>9, <1>10, SeqEqual
<1>12. b[r] = Head(s)
  BY <1>1, <1>3, <1>5, <1>8
<1> QED
  BY <1>2, <1>7, <1>11, <1>12 DEF r2, k, s, t

-----------------------------------------------------------------------------
(* Editing keeps the line within readline's buf, with room for the final 0.*)
LEMMA editType ==
  ASSUME NEW ch \in Chars, NEW s \in Seq(Chars), Len(s) < BUFLEN
  PROVE  edit(ch, s) \in Seq(Chars) /\ Len(edit(ch, s)) < BUFLEN
<1>1. CASE ch \in {BS, DEL} /\ s # << >>
  <2>1. Len(s) \in Nat /\ Len(s) # 0 /\ \A i \in 1 .. Len(s) - 1 : s[i] \in Chars
    BY <1>1, EmptySeq, LenProperties, ElementOfSeq
  <2>2. /\ SubSeq(s, 1, Len(s) - 1) \in Seq(Chars)
        /\ Len(SubSeq(s, 1, Len(s) - 1)) <= Len(s)
    BY <2>1, SubSeqProperties
  <2>3. edit(ch, s) = SubSeq(s, 1, Len(s) - 1)
    BY <1>1 DEF edit
  <2> HIDE DEF edit
  <2>4. Len(SubSeq(s, 1, Len(s) - 1)) < BUFLEN
    BY <2>1, <2>2, LenProperties, ConsoleAssumption
  <2> QED BY <2>2, <2>3, <2>4
<1>2. CASE ~(ch \in {BS, DEL} /\ s # << >>) /\ ch >= SPACE /\ Len(s) < BUFLEN - 1
  <2>1. edit(ch, s) = Append(s, ch)
    BY <1>2 DEF edit
  <2>2. Append(s, ch) \in Seq(Chars) /\ Len(Append(s, ch)) = Len(s) + 1 /\ Len(s) \in Nat
    BY AppendProperties, LenProperties
  <2> QED BY <1>2, <2>1, <2>2, ConsoleAssumption
<1>3. CASE ~(ch \in {BS, DEL} /\ s # << >>) /\ ~(ch >= SPACE /\ Len(s) < BUFLEN - 1)
  BY <1>3 DEF edit
<1> QED
  BY <1>1, <1>2, <1>3

(* One round of cons_intr stores a character, passes over a 0, or ends.    *)
LEMMA cons_intrStep ==
  ASSUME ConsTypeOK, NEW d \in Devices, NEW after \in {"kbd", "grab"}, cons_intr(d, after)
  PROVE  /\ ConsTypeOK'
         /\ rpos' = rpos /\ c' = c
         /\ \/ ring' = ring /\ wpos' = wpos /\ dev' = dev
            \/ /\ ring' = ring /\ wpos' = wpos
               /\ dev[d] # NONE /\ dev' = [dev EXCEPT ![d] = NONE]
            \/ /\ dev[d] \in Chars /\ dev' = [dev EXCEPT ![d] = NONE]
               /\ ring' = [ring EXCEPT ![wpos] = dev[d]] /\ wpos' = Wrap(wpos + 1)
<1>1. /\ turn = d /\ rpos' = rpos /\ c' = c /\ typed' = typed
  BY DEF cons_intr
<1>2. CASE dev[d] = NONE
  <2>1. turn' = after /\ dev' = dev /\ ring' = ring /\ wpos' = wpos
    BY <1>2 DEF cons_intr
  <2> QED BY <1>1, <2>1 DEF ConsTypeOK
<1>3. CASE dev[d] = 0
  <2>1. /\ turn' = turn /\ dev' = [dev EXCEPT ![d] = NONE] /\ ring' = ring /\ wpos' = wpos
        /\ dev[d] # NONE
    BY <1>3 DEF cons_intr, NONE
  <2> QED BY <1>1, <2>1 DEF ConsTypeOK
<1>4. CASE dev[d] \in Chars
  <2>1. dev[d] # NONE /\ dev[d] # 0
    BY <1>4, ConsoleAssumption DEF NONE
  <2>2. /\ turn' = turn /\ dev' = [dev EXCEPT ![d] = NONE]
        /\ ring' = [ring EXCEPT ![wpos] = dev[d]] /\ wpos' = Wrap(wpos + 1)
    BY <2>1 DEF cons_intr
  <2>3. ring' \in [Cells -> Chars \cup {0}] /\ wpos' \in Cells
    BY <1>4, <2>2, WrapRange DEF ConsTypeOK
  <2> QED BY <1>1, <1>4, <2>2, <2>3 DEF ConsTypeOK
<1> QED
  BY <1>2, <1>3, <1>4 DEF ConsTypeOK

(* Every step keeps rpos and wpos in the buffer and the line in its buffer.*)
LEMMA NextType == ConsTypeOK /\ [ConsNext]_consvars => ConsTypeOK'
<1> SUFFICES ASSUME ConsTypeOK, [ConsNext]_consvars PROVE ConsTypeOK'
  OBVIOUS
<1>1. CASE serial_intr
  BY <1>1, cons_intrStep DEF serial_intr, Devices
<1>2. CASE kbd_intr
  BY <1>2, cons_intrStep DEF kbd_intr, Devices
<1>3. CASE cons_getc
  <2>1. Wrap(rpos + 1) \in Cells
    BY WrapRange DEF ConsTypeOK
  <2> QED BY <1>3, <2>1 DEF cons_getc, ConsTypeOK
<1>4. CASE getchar
  BY <1>4 DEF getchar, ConsTypeOK
<1>5. CASE readline
  <2>1. c \in Chars
    BY <1>5 DEF readline, ConsTypeOK
  <2>2. edit(c, typed) \in Seq(Chars) /\ Len(edit(c, typed)) < BUFLEN
    BY <2>1, editType DEF ConsTypeOK
  <2> QED BY <1>5, <2>2 DEF readline, ConsTypeOK
<1>6. CASE next_line
  BY <1>6, EmptySeq, ConsoleAssumption DEF next_line, ConsTypeOK
<1>7. ASSUME NEW d \in Devices, NEW x \in Chars \cup {0}, Receive(d, x)
      PROVE  ConsTypeOK'
  BY <1>7 DEF Receive, ConsTypeOK
<1>8. CASE UNCHANGED consvars
  BY <1>8 DEF consvars, ConsTypeOK
<1> QED
  BY <1>1, <1>2, <1>3, <1>4, <1>5, <1>6, <1>7, <1>8 DEF ConsNext, Kernel

(* The buffer is empty and the line too when the console comes up.         *)
LEMMA InitType == ConsInit => ConsTypeOK
BY EmptySeq, ConsoleAssumption DEF ConsInit, ConsTypeOK, Cells

(* ConsTypeOK holds in every reachable state, with room or without:        *)
(* cons_intr and cons_getc never leave cons.buf, and readline its buf.     *)
THEOREM TypeCorrect == ConsSpec => []ConsTypeOK
BY InitType, NextType, PTL DEF ConsSpec

-----------------------------------------------------------------------------
(* A store and a take, seen through the refinement mapping.                *)
LEMMA cons_intrQueue ==
  ASSUME ConsTypeOK, Slack, Roomy, NEW d \in Devices, NEW after \in {"kbd", "grab"},
         cons_intr(d, after)
  PROVE  /\ Slack'
         /\ Queue!Next \/ UNCHANGED <<Waiting, c>>
<1>1. /\ ConsTypeOK' /\ rpos' = rpos /\ c' = c
  BY cons_intrStep
<1>2. /\ ring \in [Cells -> Values] /\ rpos \in Cells /\ wpos \in Cells
      /\ dev \in [Devices -> Chars \cup {0, NONE}]
  BY DEF ConsTypeOK, Values
<1>3. Count \in Nat
  BY <1>2, RingCountRange, ConsoleAssumption DEF Count
<1>4. CASE ring' = ring /\ wpos' = wpos /\ dev' = dev
  BY <1>1, <1>4 DEF Slack, Count, Pending, Waiting
<1>5. CASE /\ ring' = ring /\ wpos' = wpos
           /\ dev[d] # NONE /\ dev' = [dev EXCEPT ![d] = NONE]
  <2>1. Count' = Count /\ Waiting' = Waiting
    BY <1>1, <1>5 DEF Count, Waiting
  <2>2. /\ Pending(d)' = 0 /\ Pending(d) = 1
        /\ \A x \in Devices \ {d} : Pending(x)' = Pending(x) /\ Pending(x) \in {0, 1}
    BY <1>2, <1>5 DEF Pending
  <2>3. Slack'
    BY <2>1, <2>2, <1>3, ConsoleAssumption DEF Slack, Devices
  <2> QED BY <1>1, <2>1, <2>3
<1>6. CASE /\ dev[d] \in Chars /\ dev' = [dev EXCEPT ![d] = NONE]
           /\ ring' = [ring EXCEPT ![wpos] = dev[d]] /\ wpos' = Wrap(wpos + 1)
  <2>1. Pending(d) = 1 /\ Pending(d)' = 0
    BY <1>2, <1>6, ConsoleAssumption DEF Pending, NONE
  <2>2. \A x \in Devices \ {d} : Pending(x)' = Pending(x) /\ Pending(x) \in {0, 1}
    BY <1>2, <1>6 DEF Pending
  <2>3. Count + 1 <= MaxWaiting + 1
    BY <2>1, <2>2, <1>3, ConsoleAssumption DEF Slack, Devices
  <2>4. RingCount(rpos, wpos) + 1 < CONSBUFSIZE
    BY <2>3, <1>3, ConsoleAssumption DEF Roomy, Count
  <2>5. /\ Ring([ring EXCEPT ![wpos] = dev[d]], rpos, Wrap(wpos + 1))
             = Append(Ring(ring, rpos, wpos), dev[d])
        /\ RingCount(rpos, Wrap(wpos + 1)) = RingCount(rpos, wpos) + 1
    BY <1>2, <1>6, <2>4, RingStore DEF Values
  <2>6. Count' = Count + 1 /\ Waiting' = Append(Waiting, dev[d])
    BY <1>1, <1>6, <2>5 DEF Count, Waiting
  <2>7. Slack'
    BY <2>1, <2>2, <2>6, <1>3, ConsoleAssumption DEF Slack, Devices
  <2>8. Queue!Deliver(dev[d])
    BY <1>1, <2>6 DEF Queue!Deliver
  <2> QED BY <1>6, <2>7, <2>8 DEF Queue!Next
<1> QED
  BY <1>4, <1>5, <1>6, cons_intrStep

(* Every step of the console is a step of the queue, and leaves room for   *)
(* the characters that the devices hold.                                   *)
LEMMA NextQueue ==
  ASSUME Roomy, ConsTypeOK, Slack, [ConsNext]_consvars
  PROVE  /\ Slack'
         /\ Queue!Next \/ UNCHANGED <<Waiting, c>>
<1>t. /\ ring \in [Cells -> Values] /\ rpos \in Cells /\ wpos \in Cells
      /\ dev \in [Devices -> Chars \cup {0, NONE}]
      /\ Count \in Nat
  BY RingCountRange, ConsoleAssumption DEF ConsTypeOK, Values, Count
<1>1. CASE serial_intr
  BY <1>1, cons_intrQueue DEF serial_intr, Devices
<1>2. CASE kbd_intr
  BY <1>2, cons_intrQueue DEF kbd_intr, Devices
<1>3. CASE cons_getc
  <2>1. dev' = dev /\ ring' = ring /\ wpos' = wpos
    BY <1>3 DEF cons_getc
  <2>2. CASE rpos # wpos
    <3>1. c' = ring[rpos] /\ rpos' = Wrap(rpos + 1)
      BY <1>3, <2>2 DEF cons_getc
    <3>2. /\ Waiting # << >> /\ ring[rpos] = Head(Waiting)
          /\ Ring(ring, Wrap(rpos + 1), wpos) = Tail(Waiting)
          /\ RingCount(Wrap(rpos + 1), wpos) = Count - 1
      BY <1>t, <2>2, RingTake DEF Waiting, Count
    <3>3. Waiting' = Tail(Waiting) /\ Count' = Count - 1
      BY <2>1, <3>1, <3>2 DEF Waiting, Count
    <3>4. Queue!Get
      BY <3>1, <3>2, <3>3 DEF Queue!Get
    <3>5. Slack'
      BY <1>t, <2>1, <3>3, ConsoleAssumption DEF Slack, Pending
    <3> QED BY <3>4, <3>5 DEF Queue!Next
  <2>3. CASE rpos = wpos
    <3>1. c' = 0 /\ rpos' = rpos
      BY <1>3, <2>3 DEF cons_getc
    <3>2. Waiting' = Waiting /\ Slack'
      BY <2>1, <3>1 DEF Waiting, Slack, Count, Pending
    <3>3. Waiting = << >>
      <4>1. Waiting \in Seq(Values) /\ Len(Waiting) = RingCount(rpos, wpos)
        BY <1>t, RingSeq DEF Waiting
      <4>2. RingCount(rpos, wpos) = 0
        BY <1>t, <2>3, RingCountRange
      <4> QED BY <4>1, <4>2, EmptySeq
    <3> QED BY <3>1, <3>2, <3>3 DEF Queue!Next, Queue!GetNone
  <2> QED BY <2>2, <2>3
<1>4. CASE getchar
  BY <1>4 DEF getchar, Waiting, Slack, Count, Pending
<1>5. CASE readline
  BY <1>5 DEF readline, Waiting, Slack, Count, Pending, Queue!Next, Queue!Use
<1>6. CASE next_line
  BY <1>6 DEF next_line, Waiting, Slack, Count, Pending
<1>7. ASSUME NEW d \in Devices, NEW x \in Chars \cup {0}, Receive(d, x)
      PROVE  Slack' /\ UNCHANGED <<Waiting, c>>
  <2>1. UNCHANGED <<Waiting, c>> /\ Count' = Count /\ Count < MaxWaiting
    BY <1>7 DEF Receive, Waiting, Count
  <2>2. \A y \in Devices : Pending(y)' \in {0, 1}
    BY DEF Pending
  <2> QED BY <1>t, <2>1, <2>2, ConsoleAssumption DEF Slack, Devices
<1>8. CASE UNCHANGED consvars
  BY <1>8 DEF consvars, Waiting, Slack, Count, Pending
<1> QED
  BY <1>1, <1>2, <1>3, <1>4, <1>5, <1>6, <1>7, <1>8 DEF ConsNext, Kernel

(* InputQueue: the ring buffer with its two devices implements the queue,  *)
(* for every CONSBUFSIZE with room for MaxWaiting and one character more.  *)
THEOREM InputQueueRefined == ASSUME Roomy PROVE ConsSpec => InputQueue
<1>1. ConsInit => ConsTypeOK
  BY InitType
<1>2. ConsTypeOK /\ [ConsNext]_consvars => ConsTypeOK'
  BY NextType
<1>3. ConsInit => Slack /\ Queue!Init
  <2> SUFFICES ASSUME ConsInit PROVE Slack /\ Queue!Init
    OBVIOUS
  <2>1. Count = 0
    BY ConsoleAssumption DEF ConsInit, Count, RingCount
  <2>2. Waiting = << >>
    <3>1. /\ Waiting \in Seq(Values) /\ Len(Waiting) = 0
      BY <1>1, <2>1, RingSeq DEF ConsTypeOK, Values, Waiting, Count
    <3> QED BY <3>1, EmptySeq
  <2>3. Slack
    BY <2>1, ConsoleAssumption DEF ConsInit, Slack, Pending, Devices
  <2> QED BY <2>2, <2>3 DEF ConsInit, Queue!Init
<1>4. ConsTypeOK /\ Slack /\ [ConsNext]_consvars => Slack' /\ [Queue!Next]_<<Waiting, c>>
  BY NextQueue
<1> QED
  BY <1>1, <1>2, <1>3, <1>4, PTL DEF ConsSpec, InputQueue, Queue!Spec

=============================================================================
