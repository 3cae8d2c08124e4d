---------------------------- MODULE KeyboardProofs ----------------------------
(***************************************************************************)
(* Proofs about Keyboard.  The bytes between the keyboard and the decoder  *)
(* are what makes its properties hard: the flags in 'shift' are those of   *)
(* the past.  The invariant says what they will be: a run of the decoder   *)
(* over the bytes that wait leads from 'shift' to the flags of the typist, *)
(* and yields on its way what the keys meant.                              *)
(***************************************************************************)
EXTENDS Keyboard, SequenceTheorems, TLAPS

Flags   == {"CTL", "SHIFT", "ALT", "CAPSLOCK", "NUMLOCK", "SCROLLLOCK", "E0ESC"}
Byte    == [data : 0 .. 255, aux : BOOLEAN]
Meaning == [c : Int, reboot : BOOLEAN]

(* What a byte does to the flags s, and what it means with them.           *)
IsMake(b)   == ~b.aux /\ b.data < 128
After(s, b) == IF b.aux THEN s ELSE decode(s, b.data).shift
Means(s, b) == [c |-> decode(s, b.data).c, reboot |-> decode(s, b.data).reboot]

(* A run of the decoder over the bytes st: f[j] are the flags and g[j] is  *)
(* the number of make codes read, before byte j is read.                   *)
Replay(st, sh, f, g) ==
  /\ f \in [1 .. Len(st) + 1 -> SUBSET Flags] /\ g \in [1 .. Len(st) + 1 -> Int]
  /\ f[1] = sh
  /\ \A j \in 1 .. Len(st) : /\ f[j + 1] = After(f[j], st[j])
                             /\ g[j + 1] = IF IsMake(st[j]) THEN g[j] + 1 ELSE g[j]
  /\ \A j, k \in 1 .. Len(st) + 1 : j <= k => g[j] <= g[k]

(* What it yields is 'due'.                                                *)
Yields(st, due_, f, g) ==
  /\ Len(due_) = g[Len(st) + 1] - g[1]
  /\ \A j \in 1 .. Len(st) : IsMake(st[j]) =>
       /\ g[j] - g[1] + 1 \in 1 .. Len(due_)
       /\ due_[g[j] - g[1] + 1] = Means(f[j], st[j])

(* Some run leads from sh to s and yields 'due'.                           *)
Leads(st, sh, due_, s) ==
  \E f, g : Replay(st, sh, f, g) /\ Yields(st, due_, f, g) /\ f[Len(st) + 1] = s

(* The flags s are those of the typist.                                    *)
Follows(s, mods_, caps_) ==
  /\ s \subseteq Flags /\ s \cap Modifiers = mods_
  /\ ("CAPSLOCK" \in s) = caps_ /\ "E0ESC" \notin s

Reach(st, sh, due_, mods_, caps_) ==
  \E s : Leads(st, sh, due_, s) /\ Follows(s, mods_, caps_)

TypePart ==
  /\ stream \in Seq(Byte) /\ shift \subseteq Flags /\ rebooted \in BOOLEAN
  /\ down \subseteq Keys /\ mods \subseteq Modifiers /\ caps \in BOOLEAN
  /\ due \in Seq(Meaning)

KeyInv == TypePart /\ Reach(stream, shift, due, mods, caps)

-----------------------------------------------------------------------------
(* The tables name modifiers and locks.                                    *)
LEMMA Codes ==
  ASSUME NEW d
  PROVE  /\ shiftcode(d) \subseteq Modifiers
         /\ togglecode(d) \subseteq {"CAPSLOCK", "NUMLOCK", "SCROLLLOCK"}
BY DEF shiftcode, togglecode, Modifiers

(* A character is a number.                                                *)
LEMMA Chars ==
  ASSUME NEW s, NEW d
  PROVE  charcode(s, d) \in Int /\ capslock(s, charcode(s, d)) \in Int
<1>1. normalmap(d) \in Int /\ shiftmap(d) \in Int /\ ctlmap(d) \in Int
  BY DEF normalmap, shiftmap, ctlmap, KEY_DEL
<1>2. charcode(s, d) \in Int
  BY <1>1 DEF charcode
<1> QED BY <1>2 DEF capslock

(* make returns flags, a character and whether to reboot.                  *)
LEMMA MakeType ==
  ASSUME NEW s \in SUBSET Flags, NEW d
  PROVE  /\ make(s, d).shift \subseteq Flags /\ make(s, d).c \in Int
         /\ make(s, d).reboot \in BOOLEAN
<1>1. PICK t : t = Toggle(s \cup shiftcode(d), togglecode(d))
  OBVIOUS
<1>2. t \subseteq Flags
  BY <1>1, Codes DEF Toggle, Flags, Modifiers
<1>3. capslock(t, charcode(t, d)) \in Int
  BY Chars
<1> QED BY <1>1, <1>2, <1>3 DEF make

(* So does decode.                                                         *)
LEMMA DecodeType ==
  ASSUME NEW s \in SUBSET Flags, NEW d \in 0 .. 255
  PROVE  /\ decode(s, d).shift \subseteq Flags /\ decode(s, d).c \in Int
         /\ decode(s, d).reboot \in BOOLEAN
<1>1. CASE d = 224
  BY <1>1 DEF decode, Flags
<1>2. CASE d # 224 /\ d >= 128
  BY <1>2 DEF decode
<1>3. CASE d < 128 /\ "E0ESC" \in s
  <2>1. decode(s, d) = make(s \ {"E0ESC"}, d + 128)
    BY <1>3 DEF decode
  <2>2. s \ {"E0ESC"} \in SUBSET Flags
    OBVIOUS
  <2> QED BY <2>1, <2>2, MakeType
<1>4. CASE d < 128 /\ "E0ESC" \notin s
  <2>1. decode(s, d) = make(s, d)
    BY <1>4 DEF decode
  <2> QED BY <2>1, MakeType
<1> QED BY <1>1, <1>2, <1>3, <1>4

-----------------------------------------------------------------------------
(* The bytes of a key, one by one.                                         *)
KbByte(n) == [data |-> n, aux |-> FALSE]
Sent(st, k, e, b) == IF k.ext THEN Append(Append(st, e), b) ELSE Append(st, b)

(* They are what Bytes puts at the end.                                    *)
LEMMA BytesOf ==
  ASSUME NEW st \in Seq(Byte), NEW k \in Keys, NEW n \in Int, 0 <= n, n <= 255, NEW e, NEW b,
         e = KbByte(224), b = KbByte(n)
  PROVE  /\ e \in Byte /\ b \in Byte
         /\ st \o Bytes(k, n) = Sent(st, k, e, b)
<1>1. e \in Byte /\ b \in Byte
  BY DEF Byte, KbByte
<1>2. CASE k.ext
  <2>1. Bytes(k, n) = <<e>> \o <<b>>
    BY <1>2 DEF Bytes, KbByte
  <2>2. <<e>> \in Seq(Byte) /\ <<b>> \in Seq(Byte) /\ Append(st, e) \in Seq(Byte)
    BY <1>1
  <2>3. st \o (<<e>> \o <<b>>) = (st \o <<e>>) \o <<b>>
    BY <2>2, ConcatAssociative
  <2>4. st \o <<e>> = Append(st, e)
    BY <1>1
  <2>5. Append(st, e) \o <<b>> = Append(Append(st, e), b)
    <3>1. PICK u \in Seq(Byte) : u = Append(st, e)
      BY <2>2
    <3>2. u \o <<b>> = Append(u, b)
      BY <1>1
    <3> QED BY <3>1, <3>2
  <2> QED BY <1>1, <1>2, <2>1, <2>3, <2>4, <2>5 DEF Sent
<1>3. CASE ~k.ext
  <2>1. Bytes(k, n) = << >> \o <<b>>
    BY <1>3 DEF Bytes, KbByte
  <2>2. << >> \o <<b>> = <<b>>
    OBVIOUS
  <2>3. st \o <<b>> = Append(st, b)
    BY <1>1
  <2> QED BY <1>1, <1>3, <2>1, <2>2, <2>3 DEF Sent
<1> QED BY <1>2, <1>3

(* What the typist makes of a key: whether capslock is on, and what the    *)
(* key means with the modifiers M and the capslock C.                      *)
Locked(C, d) == IF "CAPSLOCK" \in togglecode(d) THEN ~C ELSE C
Typed(M, C)  == M \cup (IF C THEN {"CAPSLOCK"} ELSE {})
CharOf(M, C, d) == capslock(Typed(M, C), charcode(Typed(M, C), d))
Meant(M, C, d) ==
  [c |-> CharOf(M, C, d), reboot |-> CharOf(M, C, d) = KEY_DEL /\ {"CTL", "ALT"} \subseteq M]

(* make follows the typist: the modifier of the key is set, its lock is    *)
(* turned, and the character is the one that the typist means.             *)
LEMMA MakeFollows ==
  ASSUME NEW s, NEW M, NEW C, Follows(s, M, C), NEW d, NEW M2, NEW C2,
         M2 = M \cup shiftcode(d), C2 = Locked(C, d)
  PROVE  /\ C2 \in BOOLEAN /\ Follows(make(s, d).shift, M2, C2)
         /\ [c |-> make(s, d).c, reboot |-> make(s, d).reboot] = Meant(M2, C2, d)
         /\ Meant(M2, C2, d) \in Meaning
<1>. C \in BOOLEAN
  <2>1. ("CAPSLOCK" \in s) = C
    BY DEF Follows
  <2>2. ("CAPSLOCK" \in s) \in BOOLEAN
    OBVIOUS
  <2> QED BY <2>1, <2>2, Zenon
<1>1. PICK t : t = Toggle(s \cup shiftcode(d), togglecode(d))
  OBVIOUS
<1>2. /\ make(s, d).shift = t /\ make(s, d).c = capslock(t, charcode(t, d))
      /\ make(s, d).reboot = ({"CTL", "ALT"} \subseteq t /\ make(s, d).c = KEY_DEL)
  BY <1>1 DEF make
<1>3. C2 \in BOOLEAN
  BY DEF Locked
<1>4. "CAPSLOCK" \in t <=> C2
  BY <1>1, Codes DEF Toggle, Follows, Modifiers, Locked
<1>5. \A x \in Modifiers : x \in t <=> x \in M2
  BY <1>1, Codes DEF Toggle, Follows, Modifiers
<1>6. t \subseteq Flags /\ "E0ESC" \notin t
  BY <1>1, Codes DEF Toggle, Follows, Modifiers, Flags
<1>7. M2 \subseteq Modifiers
  BY Codes DEF Follows
<1>8. Follows(t, M2, C2)
  <2>1. t \cap Modifiers = M2
    BY <1>5, <1>7
  <2> QED BY <1>3, <1>4, <1>6, <2>1 DEF Follows
<1>9. PICK F : F = Typed(M2, C2)
  OBVIOUS
<1>10. \A x \in {"CTL", "SHIFT", "CAPSLOCK"} : x \in t <=> x \in F
  BY <1>3, <1>4, <1>5, <1>7, <1>9 DEF Modifiers, Typed
<1>11. charcode(t, d) = charcode(F, d)
  BY <1>10 DEF charcode
<1>12. make(s, d).c = CharOf(M2, C2, d)
  BY <1>2, <1>9, <1>10, <1>11 DEF capslock, CharOf
<1>13. {"CTL", "ALT"} \subseteq t <=> {"CTL", "ALT"} \subseteq M2
  BY <1>5 DEF Modifiers
<1>14. make(s, d).reboot = (CharOf(M2, C2, d) = KEY_DEL /\ {"CTL", "ALT"} \subseteq M2)
  BY <1>2, <1>12, <1>13
<1>15. Meant(M2, C2, d) \in Meaning
  BY Chars DEF Meant, Meaning, CharOf
<1> QED BY <1>2, <1>3, <1>8, <1>12, <1>14, <1>15 DEF Meant

(* The flags after an E0.                                                  *)
E0(s) == s \cup {"E0ESC"}

(* A byte after an E0, and one without.                                    *)
LEMMA Extended ==
  ASSUME NEW s, NEW M, NEW C, Follows(s, M, C), NEW c \in Int, 1 <= c, c <= 127
  PROVE  /\ decode(s, 224).shift = E0(s)
         /\ decode(s, c) = make(s, c)
         /\ decode(E0(s), c) = make(s, c + 128)
<1>1. "E0ESC" \notin s
  BY DEF Follows
<1>2. c # 224 /\ ~(c >= 128)
  OBVIOUS
<1>3. E0(s) \ {"E0ESC"} = s /\ "E0ESC" \in E0(s)
  BY <1>1 DEF E0
<1>4. decode(s, 224).shift = E0(s)
  BY DEF decode, E0
<1>5. decode(s, c) = make(s, c)
  BY <1>1, <1>2 DEF decode
<1>6. decode(E0(s), c) = make(E0(s) \ {"E0ESC"}, c + 128)
  BY <1>2, <1>3 DEF decode
<1> QED BY <1>3, <1>4, <1>5, <1>6

(* decode follows the typist when a key is released.                       *)
LEMMA ReleaseFollows ==
  ASSUME NEW s, NEW M, NEW C, Follows(s, M, C), NEW c \in Int,
         1 <= c, c <= 127, c # 96
  PROVE  /\ Follows(decode(s, c + 128).shift, M \ shiftcode(c), C)
         /\ Follows(decode(E0(s), c + 128).shift, M \ shiftcode(c + 128), C)
<1>1. c + 128 # 224 /\ c + 128 >= 128 /\ (c + 128) % 128 = c
  OBVIOUS
<1>2. "E0ESC" \notin s
  BY DEF Follows
<1>3. decode(s, c + 128).shift = s \ (shiftcode(c) \cup {"E0ESC"})
  BY <1>1, <1>2 DEF decode
<1>4. decode(E0(s), c + 128).shift
        = (s \cup {"E0ESC"}) \ (shiftcode(c + 128) \cup {"E0ESC"})
  BY <1>1 DEF decode, E0
<1>5. \A d : Follows(s \ (shiftcode(d) \cup {"E0ESC"}), M \ shiftcode(d), C)
  <2> TAKE d
  <2>1. PICK S : S = shiftcode(d) /\ S \subseteq Modifiers
    BY Codes
  <2>2. (s \ (S \cup {"E0ESC"})) \cap Modifiers = (s \cap Modifiers) \ S
    BY DEF Modifiers
  <2>3. "CAPSLOCK" \in s \ (S \cup {"E0ESC"}) <=> "CAPSLOCK" \in s
    BY <2>1 DEF Modifiers
  <2> QED BY <2>1, <2>2, <2>3 DEF Follows
<1>6. (s \cup {"E0ESC"}) \ (shiftcode(c + 128) \cup {"E0ESC"})
        = s \ (shiftcode(c + 128) \cup {"E0ESC"})
  OBVIOUS
<1> QED BY <1>3, <1>4, <1>5, <1>6

-----------------------------------------------------------------------------
(* Runs of the decoder.  One over no bytes changes nothing.                *)
LEMMA EmptyRun ==
  ASSUME NEW sh, NEW s, NEW due_, Leads(<< >>, sh, due_, s)
  PROVE  s = sh
BY DEF Leads, Replay

(* And there is one.                                                       *)
LEMMA FirstRun ==
  ASSUME NEW sh \in SUBSET Flags
  PROVE  Leads(<< >>, sh, << >>, sh)
<1>1. PICK f, g : f = [j \in {1} |-> sh] /\ g = [j \in {1} |-> 0]
  OBVIOUS
<1>2. Len(<< >>) = 0 /\ 1 .. 0 + 1 = {1} /\ 1 .. 0 = {}
  OBVIOUS
<1>3. Replay(<< >>, sh, f, g)
  BY <1>1, <1>2 DEF Replay
<1>4. Yields(<< >>, << >>, f, g)
  BY <1>1, <1>2 DEF Yields
<1> QED BY <1>1, <1>2, <1>3, <1>4 DEF Leads

(* A byte at the end makes the run longer.                                 *)
LEMMA LongerRun ==
  ASSUME NEW st \in Seq(Byte), NEW sh, NEW due_ \in Seq(Meaning), NEW s, Leads(st, sh, due_, s),
         NEW b \in Byte, NEW due2,
         due2 = IF IsMake(b) THEN Append(due_, Means(s, b)) ELSE due_
  PROVE  Leads(Append(st, b), sh, due2, After(s, b))
<1>1. PICK f, g : Replay(st, sh, f, g) /\ Yields(st, due_, f, g) /\ f[Len(st) + 1] = s
  BY DEF Leads
<1>2. PICK n \in Nat : n = Len(st)
  BY LenProperties
<1>3. PICK st2 : st2 = Append(st, b)
  OBVIOUS
<1>4. st2 \in Seq(Byte) /\ Len(st2) = n + 1 /\ st2[n + 1] = b /\ \A j \in 1 .. n : st2[j] = st[j]
  BY <1>2, <1>3, AppendProperties
<1>5. s \in SUBSET Flags /\ g[n + 1] \in Int
  BY <1>1, <1>2 DEF Replay
<1>6. After(s, b) \in SUBSET Flags
  BY <1>5, DecodeType DEF After, Byte
<1>7. PICK m : m = IF IsMake(b) THEN g[n + 1] + 1 ELSE g[n + 1]
  OBVIOUS
<1>8. m \in Int /\ g[n + 1] <= m
  BY <1>5, <1>7
<1>9. PICK f2, g2 : /\ f2 = [j \in 1 .. n + 2 |-> IF j = n + 2 THEN After(s, b) ELSE f[j]]
                    /\ g2 = [j \in 1 .. n + 2 |-> IF j = n + 2 THEN m ELSE g[j]]
  OBVIOUS
<1>10. /\ f \in [1 .. n + 1 -> SUBSET Flags] /\ g \in [1 .. n + 1 -> Int] /\ f[1] = sh
       /\ \A j \in 1 .. n : f[j + 1] = After(f[j], st[j])
       /\ \A j \in 1 .. n : g[j + 1] = IF IsMake(st[j]) THEN g[j] + 1 ELSE g[j]
       /\ \A j, k \in 1 .. n + 1 : j <= k => g[j] <= g[k]
  BY <1>1, <1>2 DEF Replay
<1>11. /\ \A j \in 1 .. n + 1 : f2[j] = f[j] /\ g2[j] = g[j]
       /\ f2[n + 2] = After(s, b) /\ g2[n + 2] = m
       /\ f2 \in [1 .. n + 2 -> SUBSET Flags] /\ g2 \in [1 .. n + 2 -> Int]
  BY <1>6, <1>8, <1>9, <1>10
<1>12. Replay(st2, sh, f2, g2)
  <2>1. ASSUME NEW j \in 1 .. n + 1
        PROVE  f2[j + 1] = After(f2[j], st2[j])
    <3>1. CASE j = n + 1
      BY <1>1, <1>2, <1>4, <1>11, <3>1
    <3>2. CASE j \in 1 .. n
      BY <1>4, <1>10, <1>11, <3>2
    <3> QED BY <3>1, <3>2
  <2>2. ASSUME NEW j \in 1 .. n + 1
        PROVE  g2[j + 1] = IF IsMake(st2[j]) THEN g2[j] + 1 ELSE g2[j]
    <3>1. CASE j = n + 1
      BY <1>4, <1>7, <1>11, <3>1
    <3>2. CASE j \in 1 .. n
      BY <1>4, <1>10, <1>11, <3>2
    <3> QED BY <3>1, <3>2
  <2>3. ASSUME NEW j \in 1 .. n + 2, NEW k \in 1 .. n + 2, j <= k
        PROVE  g2[j] <= g2[k]
    <3>1. CASE k \in 1 .. n + 1
      BY <1>10, <1>11, <2>3, <3>1, SMTT(30)
    <3>2. CASE k = n + 2 /\ j \in 1 .. n + 1
      <4>1. g[j] <= g[n + 1] /\ g[j] \in Int
        BY <1>10, <3>2
      <4> QED BY <1>5, <1>8, <1>11, <3>2, <4>1
    <3>3. CASE k = n + 2 /\ j = n + 2
      BY <1>8, <1>11, <3>3
    <3> QED BY <3>1, <3>2, <3>3
  <2>4. f2[1] = sh
    BY <1>10, <1>11
  <2> QED BY <1>4, <1>11, <2>1, <2>2, <2>3, <2>4 DEF Replay
<1>13. Yields(st2, due2, f2, g2)
  <2>1. /\ Len(due_) = g[n + 1] - g[1]
        /\ \A j \in 1 .. n : IsMake(st[j]) =>
             g[j] - g[1] + 1 \in 1 .. Len(due_) /\ due_[g[j] - g[1] + 1] = Means(f[j], st[j])
    BY <1>1, <1>2 DEF Yields
  <2>2. g2[1] = g[1] /\ g[1] \in Int
    BY <1>10, <1>11
  <2>3. CASE IsMake(b)
    <3>1. /\ due2 \in Seq(Meaning \cup {Means(s, b)}) /\ Len(due2) = Len(due_) + 1
          /\ due2[Len(due_) + 1] = Means(s, b)
          /\ \A j \in 1 .. Len(due_) : due2[j] = due_[j]
      BY <2>3, AppendProperties
    <3>2. Len(due2) = g2[n + 2] - g2[1]
      BY <1>5, <1>7, <1>11, <2>1, <2>2, <2>3, <3>1, SMTT(30)
    <3>3. ASSUME NEW j \in 1 .. n + 1, IsMake(st2[j])
          PROVE  /\ g2[j] - g2[1] + 1 \in 1 .. Len(due2)
                 /\ due2[g2[j] - g2[1] + 1] = Means(f2[j], st2[j])
      <4>1. CASE j = n + 1
        <5>1. g2[j] - g2[1] + 1 = Len(due_) + 1 /\ Len(due_) \in Nat
          BY <1>11, <2>1, <2>2, <4>1, LenProperties
        <5> QED BY <1>1, <1>2, <1>4, <1>11, <3>1, <4>1, <5>1
      <4>2. CASE j \in 1 .. n
        <5>1. g2[j] = g[j] /\ f2[j] = f[j] /\ st2[j] = st[j]
          BY <1>4, <1>11, <4>2
        <5>2. g[j] - g[1] + 1 \in 1 .. Len(due_) /\ due_[g[j] - g[1] + 1] = Means(f[j], st[j])
          BY <2>1, <3>3, <4>2, <5>1
        <5>3. Len(due_) \in Nat
          BY LenProperties
        <5> QED BY <2>2, <3>1, <5>1, <5>2, <5>3
      <4> QED BY <4>1, <4>2
    <3>4. Len(st2) = n + 1 /\ Len(st2) + 1 = n + 2
      BY <1>4
    <3>5. Len(due2) = g2[Len(st2) + 1] - g2[1]
      BY <3>2, <3>4, Zenon
    <3>6. ASSUME NEW j \in 1 .. Len(st2), IsMake(st2[j])
          PROVE  /\ g2[j] - g2[1] + 1 \in 1 .. Len(due2)
                 /\ due2[g2[j] - g2[1] + 1] = Means(f2[j], st2[j])
      BY <3>3, <3>4, <3>6, Zenon
    <3> QED BY <3>5, <3>6, Zenon DEF Yields
  <2>4. CASE ~IsMake(b)
    <3>1. due2 = due_ /\ g2[n + 2] = g[n + 1]
      BY <1>7, <1>11, <2>4
    <3>2. ASSUME NEW j \in 1 .. n + 1, IsMake(st2[j])
          PROVE  /\ g2[j] - g2[1] + 1 \in 1 .. Len(due2)
                 /\ due2[g2[j] - g2[1] + 1] = Means(f2[j], st2[j])
      <4>1. j \in 1 .. n
        BY <1>4, <2>4, <3>2
      <4>2. g2[j] = g[j] /\ f2[j] = f[j] /\ st2[j] = st[j]
        BY <1>4, <1>11, <4>1
      <4> QED BY <2>1, <2>2, <3>1, <3>2, <4>1, <4>2
    <3> QED BY <1>4, <2>1, <2>2, <3>1, <3>2 DEF Yields
  <2> QED BY <2>3, <2>4
<1> QED BY <1>3, <1>4, <1>11, <1>12, <1>13 DEF Leads

(* The first byte is what kbd_proc_data reads: the rest of the run starts  *)
(* with the flags that it leaves, and a make code is the first that is due.*)
LEMMA ShorterRun ==
  ASSUME NEW st \in Seq(Byte), st # << >>, NEW sh, NEW due_ \in Seq(Meaning), NEW s,
         Leads(st, sh, due_, s), NEW b, b = Head(st),
         NEW due2, due2 = IF IsMake(b) THEN Tail(due_) ELSE due_
  PROVE  /\ Leads(Tail(st), After(sh, b), due2, s)
         /\ due2 \in Seq(Meaning)
         /\ IsMake(b) => due_ # << >> /\ Head(due_) = Means(sh, b)
<1>1. PICK f, g : Replay(st, sh, f, g) /\ Yields(st, due_, f, g) /\ f[Len(st) + 1] = s
  BY DEF Leads
<1>2. PICK n \in Nat : n + 1 = Len(st)
  <2>1. Len(st) \in Nat /\ Len(st) # 0
    BY LenProperties, EmptySeq
  <2>2. Len(st) - 1 \in Nat /\ (Len(st) - 1) + 1 = Len(st)
    BY <2>1
  <2> QED BY <2>1, <2>2
<1>3. PICK st2 : st2 = Tail(st)
  OBVIOUS
<1>4. st2 \in Seq(Byte) /\ Len(st2) = n /\ st[1] = b /\ \A j \in 1 .. n : st2[j] = st[j + 1]
  BY <1>2, <1>3, HeadTailProperties
<1>5. /\ f \in [1 .. n + 2 -> SUBSET Flags] /\ g \in [1 .. n + 2 -> Int] /\ f[1] = sh
      /\ \A j \in 1 .. n + 1 : f[j + 1] = After(f[j], st[j])
      /\ \A j \in 1 .. n + 1 : g[j + 1] = IF IsMake(st[j]) THEN g[j] + 1 ELSE g[j]
      /\ \A j, k \in 1 .. n + 2 : j <= k => g[j] <= g[k]
  <2>1. n + 1 + 1 = n + 2
    OBVIOUS
  <2> QED BY <1>1, <1>2, <2>1 DEF Replay
<1>6. PICK f2, g2 : /\ f2 = [j \in 1 .. n + 1 |-> f[j + 1]]
                    /\ g2 = [j \in 1 .. n + 1 |-> g[j + 1]]
  OBVIOUS
<1>7. /\ \A j \in 1 .. n + 1 : f2[j] = f[j + 1] /\ g2[j] = g[j + 1]
      /\ f2 \in [1 .. n + 1 -> SUBSET Flags] /\ g2 \in [1 .. n + 1 -> Int]
  BY <1>5, <1>6
<1>8. Replay(st2, After(sh, b), f2, g2)
  <2>1. f2[1] = After(sh, b)
    BY <1>4, <1>5, <1>7
  <2>2. ASSUME NEW j \in 1 .. n
        PROVE  /\ f2[j + 1] = After(f2[j], st2[j])
               /\ g2[j + 1] = IF IsMake(st2[j]) THEN g2[j] + 1 ELSE g2[j]
    <3>1. j \in 1 .. n + 1 /\ j + 1 \in 1 .. n + 1
      OBVIOUS
    <3>2. /\ f2[j] = f[j + 1] /\ f2[j + 1] = f[(j + 1) + 1] /\ st2[j] = st[j + 1]
          /\ g2[j] = g[j + 1] /\ g2[j + 1] = g[(j + 1) + 1]
      BY <1>4, <1>7, <3>1
    <3>3. f[(j + 1) + 1] = After(f[j + 1], st[j + 1])
      BY <1>5, <3>1
    <3>4. g[(j + 1) + 1] = IF IsMake(st[j + 1]) THEN g[j + 1] + 1 ELSE g[j + 1]
      BY <1>5, <3>1
    <3> QED BY <3>2, <3>3, <3>4
  <2>3. ASSUME NEW j \in 1 .. n + 1, NEW k \in 1 .. n + 1, j <= k
        PROVE  g2[j] <= g2[k]
    <3>1. j + 1 \in 1 .. n + 2 /\ k + 1 \in 1 .. n + 2 /\ j + 1 <= k + 1
      BY <2>3
    <3> QED BY <1>5, <1>7, <3>1
  <2> QED BY <1>4, <1>7, <2>1, <2>2, <2>3 DEF Replay
<1>9. /\ Len(due_) = g[n + 2] - g[1]
      /\ \A j \in 1 .. n + 1 : IsMake(st[j]) =>
           g[j] - g[1] + 1 \in 1 .. Len(due_) /\ due_[g[j] - g[1] + 1] = Means(f[j], st[j])
  <2>1. n + 1 + 1 = n + 2
    OBVIOUS
  <2> QED BY <1>1, <1>2, <2>1 DEF Yields
<1>10. g[1] \in Int /\ g2[1] = (IF IsMake(b) THEN g[1] + 1 ELSE g[1]) /\ g2[n + 1] = g[n + 2]
  BY <1>4, <1>5, <1>7
<1>11. f2[n + 1] = s
  <2>1. n + 1 + 1 = Len(st) + 1
    BY <1>2
  <2> QED BY <1>1, <1>7, <2>1
<1>12. CASE ~IsMake(b)
  <2>1. due2 = due_ /\ g2[1] = g[1]
    BY <1>10, <1>12
  <2>2. ASSUME NEW j \in 1 .. n, IsMake(st2[j])
        PROVE  /\ g2[j] - g2[1] + 1 \in 1 .. Len(due2)
               /\ due2[g2[j] - g2[1] + 1] = Means(f2[j], st2[j])
    <3>1. j + 1 \in 1 .. n + 1 /\ IsMake(st[j + 1]) /\ st2[j] = st[j + 1]
      BY <1>4, <2>2
    <3>2. g2[j] = g[j + 1] /\ f2[j] = f[j + 1]
      <4>1. j \in 1 .. n + 1
        OBVIOUS
      <4> QED BY <1>7, <4>1
    <3> QED BY <1>9, <2>1, <3>1, <3>2
  <2>3. Yields(st2, due2, f2, g2)
    BY <1>4, <1>9, <1>10, <2>1, <2>2 DEF Yields
  <2> QED BY <1>3, <1>4, <1>8, <1>11, <1>12, <2>1, <2>3 DEF Leads
<1>13. CASE IsMake(b)
  <2>1. g[1] - g[1] + 1 = 1
    BY <1>10
  <2>2. 1 \in 1 .. Len(due_) /\ due_[1] = Means(sh, b)
    BY <1>4, <1>5, <1>9, <1>13, <2>1
  <2>3. due_ # << >> /\ Head(due_) = Means(sh, b)
    BY <2>2, EmptySeq, HeadTailProperties
  <2>4. /\ due2 \in Seq(Meaning) /\ Len(due2) = Len(due_) - 1 /\ Len(due_) \in Nat
        /\ \A j \in 1 .. Len(due2) : due2[j] = due_[j + 1]
    BY <1>13, <2>3, HeadTailProperties, LenProperties
  <2>5. ASSUME NEW j \in 1 .. n, IsMake(st2[j])
        PROVE  /\ g2[j] - g2[1] + 1 \in 1 .. Len(due2)
               /\ due2[g2[j] - g2[1] + 1] = Means(f2[j], st2[j])
    <3>1. j + 1 \in 1 .. n + 1 /\ IsMake(st[j + 1]) /\ st2[j] = st[j + 1]
      BY <1>4, <2>5
    <3>2. g2[j] = g[j + 1] /\ f2[j] = f[j + 1] /\ g[j + 1] \in Int
      BY <1>5, <1>7, SMTT(30)
    <3>3. g2[1] = g[1] + 1 /\ g[2] = g2[1]
      <4>1. 1 \in 1 .. n + 1 /\ 1 + 1 = 2
        OBVIOUS
      <4> QED BY <1>7, <1>10, <1>13, <4>1
    <3>4. g[2] <= g[j + 1]
      <4>1. 2 \in 1 .. n + 2 /\ j + 1 \in 1 .. n + 2 /\ 2 <= j + 1
        OBVIOUS
      <4> QED BY <1>5, <4>1
    <3>5. /\ g[j + 1] - g[1] + 1 \in 1 .. Len(due_)
          /\ due_[g[j + 1] - g[1] + 1] = Means(f[j + 1], st[j + 1])
      BY <1>9, <3>1
    <3>6. PICK q \in Int : q = g[j + 1] - g[1]
      BY <1>10, <3>2
    <3>7. q + 1 = g[j + 1] - g[1] + 1 /\ g2[j] - g2[1] + 1 = q
      BY <1>10, <3>2, <3>3, <3>6
    <3>8. q + 1 \in 1 .. Len(due_) /\ 1 <= q
      BY <1>10, <3>2, <3>3, <3>4, <3>5, <3>6, <3>7
    <3>9. q \in 1 .. Len(due2)
      BY <2>4, <3>8
    <3> QED BY <2>4, <3>1, <3>2, <3>5, <3>7, <3>9
  <2>6. Len(due2) = g2[n + 1] - g2[1]
    <3>1. g[n + 2] \in Int
      BY <1>5
    <3> QED BY <1>9, <1>10, <1>13, <2>4, <3>1
  <2>7. Yields(st2, due2, f2, g2)
    BY <1>4, <2>5, <2>6 DEF Yields
  <2> QED BY <1>3, <1>4, <1>8, <1>11, <2>3, <2>4, <2>7 DEF Leads
<1> QED BY <1>12, <1>13

-----------------------------------------------------------------------------
(* A key has a code, and its place in the tables.                          *)
LEMMA KeyCode ==
  ASSUME NEW k \in Keys
  PROVE  \E n \in 1 .. 127 \ {96} : /\ n = k.code
                                    /\ Index(k) = IF k.ext THEN n + 128 ELSE n
BY KeyboardAssumption DEF KeyType, Index

(* The bytes of a pressed key lead to the flags of the typist, and the     *)
(* make code among them yields what the key means.                         *)
LEMMA PressRun ==
  ASSUME NEW st \in Seq(Byte), NEW sh, NEW due_ \in Seq(Meaning),
         NEW M, NEW C, Reach(st, sh, due_, M, C), NEW k \in Keys, NEW d, d = Index(k),
         NEW M2, NEW C2, M2 = M \cup shiftcode(d), C2 = Locked(C, d)
  PROVE  /\ st \o Bytes(k, k.code) \in Seq(Byte) /\ Meant(M2, C2, d) \in Meaning
         /\ C2 \in BOOLEAN
         /\ Reach(st \o Bytes(k, k.code), sh, Append(due_, Meant(M2, C2, d)), M2, C2)
<1>. PICK s : Leads(st, sh, due_, s) /\ Follows(s, M, C)
  BY DEF Reach
<1>1. PICK n \in 1 .. 127 \ {96} : n = k.code /\ d = IF k.ext THEN n + 128 ELSE n
  BY KeyCode
<1>2. PICK e, b : e = KbByte(224) /\ b = KbByte(n)
  OBVIOUS
<1>3. n \in Int /\ 0 <= n /\ n <= 255 /\ 1 <= n /\ n <= 127 /\ n < 128 /\ n # 224
  OBVIOUS
<1>4. /\ e \in Byte /\ b \in Byte
      /\ st \o Bytes(k, n) = Sent(st, k, e, b)
  BY <1>2, <1>3, BytesOf
<1>5. s \in SUBSET Flags /\ "E0ESC" \notin s
  BY DEF Follows
<1>6. IsMake(b) /\ ~IsMake(e)
  BY <1>2, <1>3 DEF IsMake, KbByte
<1>7. /\ C2 \in BOOLEAN /\ Follows(make(s, d).shift, M2, C2)
      /\ [c |-> make(s, d).c, reboot |-> make(s, d).reboot] = Meant(M2, C2, d)
      /\ Meant(M2, C2, d) \in Meaning
  BY MakeFollows
<1>8. PICK r : r = Meant(M2, C2, d)
  OBVIOUS
<1>9. CASE k.ext
  <2>1. d = n + 128
    BY <1>1, <1>9
  <2>2. PICK u : u = After(s, e)
    OBVIOUS
  <2>3. u = E0(s) /\ decode(u, n) = make(s, d)
    <3>1. u = decode(s, 224).shift
      BY <1>2, <2>2 DEF KbByte, After
    <3> QED BY <1>3, <1>5, <2>1, <3>1, Extended
  <2>4. After(u, b) = make(s, d).shift /\ Means(u, b) = r
    BY <1>2, <1>7, <1>8, <2>3 DEF KbByte, After, Means
  <2>5. PICK st1 : st1 = Append(st, e) /\ st1 \in Seq(Byte)
    BY <1>4, AppendProperties
  <2>6. Leads(st1, sh, due_, u)
    BY <1>4, <1>6, <2>2, <2>5, LongerRun
  <2>7. Leads(Append(st1, b), sh, Append(due_, r), After(u, b))
    BY <1>4, <1>6, <2>4, <2>5, <2>6, LongerRun
  <2>8. Append(st1, b) = st \o Bytes(k, k.code) /\ Append(st1, b) \in Seq(Byte)
    BY <1>1, <1>4, <1>9, <2>5, AppendProperties DEF Sent
  <2>9. Follows(After(u, b), M2, C2)
    BY <1>7, <2>4
  <2> QED BY <1>7, <1>8, <2>7, <2>8, <2>9 DEF Reach
<1>10. CASE ~k.ext
  <2>1. d = n
    BY <1>1, <1>10
  <2>2. decode(s, n) = make(s, d)
    BY <1>3, <1>5, <2>1, Extended
  <2>3. After(s, b) = make(s, d).shift /\ Means(s, b) = r
    BY <1>2, <1>7, <1>8, <2>2 DEF KbByte, After, Means
  <2>4. Leads(Append(st, b), sh, Append(due_, r), After(s, b))
    BY <1>4, <1>6, <2>3, LongerRun
  <2>5. Append(st, b) = st \o Bytes(k, k.code) /\ Append(st, b) \in Seq(Byte)
    BY <1>1, <1>4, <1>10, AppendProperties DEF Sent
  <2>6. Follows(After(s, b), M2, C2)
    BY <1>7, <2>3
  <2> QED BY <1>7, <1>8, <2>4, <2>5, <2>6 DEF Reach
<1> QED BY <1>9, <1>10

(* So do the bytes of a key that is released, which yield nothing.         *)
LEMMA ReleaseRun ==
  ASSUME NEW st \in Seq(Byte), NEW sh, NEW due_ \in Seq(Meaning),
         NEW M, NEW C, Reach(st, sh, due_, M, C), NEW k \in Keys
  PROVE  /\ st \o Bytes(k, k.code + 128) \in Seq(Byte)
         /\ Reach(st \o Bytes(k, k.code + 128), sh, due_, M \ shiftcode(Index(k)), C)
<1>. PICK s : Leads(st, sh, due_, s) /\ Follows(s, M, C)
  BY DEF Reach
<1>1. PICK n \in 1 .. 127 \ {96} : n = k.code /\ Index(k) = IF k.ext THEN n + 128 ELSE n
  BY KeyCode
<1>2. PICK e, b : e = KbByte(224) /\ b = KbByte(n + 128)
  OBVIOUS
<1>3. /\ n \in Int /\ 1 <= n /\ n <= 127 /\ n # 96
      /\ n + 128 \in Int /\ 0 <= n + 128 /\ n + 128 <= 255 /\ ~(n + 128 < 128)
  OBVIOUS
<1>4. /\ e \in Byte /\ b \in Byte
      /\ st \o Bytes(k, n + 128) = Sent(st, k, e, b)
  <2>1. PICK m \in Int : m = n + 128
    BY <1>3
  <2>2. 0 <= m /\ m <= 255 /\ b = KbByte(m)
    BY <1>2, <1>3, <2>1
  <2>3. e \in Byte /\ b \in Byte
    BY <1>2, <2>1, <2>2, BytesOf
  <2>4. st \o Bytes(k, m) = Sent(st, k, e, b)
    BY <1>2, <2>1, <2>2, BytesOf
  <2> QED BY <2>1, <2>3, <2>4
<1>5. "E0ESC" \notin s
  BY DEF Follows
<1>6. ~IsMake(b) /\ ~IsMake(e)
  BY <1>2, <1>3 DEF IsMake, KbByte
<1>7. /\ Follows(decode(s, n + 128).shift, M \ shiftcode(n), C)
      /\ Follows(decode(E0(s), n + 128).shift, M \ shiftcode(n + 128), C)
  BY <1>3, ReleaseFollows
<1>8. CASE k.ext
  <2>1. PICK u : u = After(s, e)
    OBVIOUS
  <2>2. u = E0(s)
    <3>1. u = decode(s, 224).shift
      BY <1>2, <2>1 DEF KbByte, After
    <3> QED BY <1>3, <1>5, <3>1, Extended
  <2>3. Follows(After(u, b), M \ shiftcode(Index(k)), C)
    <3>1. After(u, b) = decode(E0(s), n + 128).shift
      BY <1>2, <2>2 DEF KbByte, After
    <3>2. Index(k) = n + 128
      BY <1>1, <1>8
    <3> QED BY <1>7, <3>1, <3>2
  <2>4. PICK st1 : st1 = Append(st, e) /\ st1 \in Seq(Byte)
    BY <1>4, AppendProperties
  <2>5. Leads(st1, sh, due_, u)
    BY <1>4, <1>6, <2>1, <2>4, LongerRun
  <2>6. Leads(Append(st1, b), sh, due_, After(u, b))
    BY <1>4, <1>6, <2>4, <2>5, LongerRun
  <2>7. Append(st1, b) = st \o Bytes(k, k.code + 128) /\ Append(st1, b) \in Seq(Byte)
    BY <1>1, <1>4, <1>8, <2>4, AppendProperties DEF Sent
  <2> QED BY <2>3, <2>6, <2>7 DEF Reach
<1>9. CASE ~k.ext
  <2>1. Follows(After(s, b), M \ shiftcode(Index(k)), C)
    <3>1. After(s, b) = decode(s, n + 128).shift
      BY <1>2 DEF KbByte, After
    <3>2. Index(k) = n
      BY <1>1, <1>9
    <3> QED BY <1>7, <3>1, <3>2
  <2>2. Leads(Append(st, b), sh, due_, After(s, b))
    BY <1>4, <1>6, LongerRun
  <2>3. Append(st, b) = st \o Bytes(k, k.code + 128) /\ Append(st, b) \in Seq(Byte)
    BY <1>1, <1>4, <1>9, AppendProperties DEF Sent
  <2> QED BY <2>1, <2>2, <2>3 DEF Reach
<1> QED BY <1>8, <1>9

-----------------------------------------------------------------------------
(* Invariance: in every reachable state, a run of the decoder over the     *)
(* bytes that wait leads to the flags of the typist.                       *)
THEOREM Invariance == KbdSpec => []KeyInv
<1>1. KbdInit => KeyInv
  <2> SUFFICES ASSUME KbdInit PROVE KeyInv
    OBVIOUS
  <2>1. TypePart
    <3>1. stream \in Seq(Byte) /\ due \in Seq(Meaning)
      BY DEF KbdInit
    <3>2. shift \subseteq Flags /\ down \subseteq Keys /\ mods \subseteq Modifiers
      BY DEF KbdInit
    <3>3. rebooted \in BOOLEAN /\ caps \in BOOLEAN
      BY Zenon DEF KbdInit
    <3> QED BY <3>1, <3>2, <3>3 DEF TypePart
  <2>2. Leads(stream, shift, due, shift)
    <3>1. {} \in SUBSET Flags
      OBVIOUS
    <3> QED BY <3>1, FirstRun DEF KbdInit
  <2>3. Follows(shift, mods, caps)
    <3>1. caps = FALSE /\ shift = {} /\ mods = {}
      BY Zenon DEF KbdInit
    <3>2. shift \subseteq Flags /\ shift \cap Modifiers = mods /\ "CAPSLOCK" \notin shift
          /\ "E0ESC" \notin shift
      BY <3>1
    <3>3. ("CAPSLOCK" \in shift) = caps
      <4>1. ("CAPSLOCK" \in shift) = FALSE
        BY <3>2
      <4> QED BY <3>1, <4>1, Zenon
    <3> QED BY <3>2, <3>3 DEF Follows
  <2> QED BY <2>1, <2>2, <2>3 DEF KeyInv, Reach
<1>2. KeyInv /\ [KbdNext]_kbdvars => KeyInv'
  <2> SUFFICES ASSUME KeyInv, [KbdNext]_kbdvars PROVE KeyInv'
    OBVIOUS
  <2>1. PICK s : Leads(stream, shift, due, s) /\ Follows(s, mods, caps)
    BY DEF KeyInv, Reach
  <2>2. TypePart
    BY DEF KeyInv
  <2>3. ASSUME NEW k \in Keys, Press(k) PROVE KeyInv'
    <3>1. PICK d : d = Index(k)
      OBVIOUS
    <3>2. PICK M2, C2 : M2 = mods \cup shiftcode(d) /\ C2 = Locked(caps, d)
      OBVIOUS
    <3>3. /\ stream' = stream \o Bytes(k, k.code) /\ down' = down \cup {k}
          /\ mods' = M2 /\ caps' = C2 /\ due' = Append(due, Meant(M2, C2, d))
          /\ shift' = shift /\ rebooted' = rebooted
      BY <2>3, <3>1, <3>2 DEF Press, Meant, CharOf, Typed, Locked
    <3>4. stream \in Seq(Byte) /\ due \in Seq(Meaning)
      BY <2>2 DEF TypePart
    <3>5. /\ stream' \in Seq(Byte) /\ Meant(M2, C2, d) \in Meaning /\ C2 \in BOOLEAN
          /\ Reach(stream', shift, Append(due, Meant(M2, C2, d)), M2, C2)
      <4>1. Reach(stream, shift, due, mods, caps)
        BY DEF KeyInv
      <4>2. /\ stream \o Bytes(k, k.code) \in Seq(Byte) /\ Meant(M2, C2, d) \in Meaning
            /\ C2 \in BOOLEAN
            /\ Reach(stream \o Bytes(k, k.code), shift, Append(due, Meant(M2, C2, d)), M2, C2)
        BY <3>1, <3>2, <3>4, <4>1, PressRun
      <4> QED BY <3>3, <4>2, Zenon
    <3>6. due' \in Seq(Meaning)
      BY <3>3, <3>4, <3>5, AppendProperties
    <3>7. mods' \subseteq Modifiers
      BY <2>2, <3>2, <3>3, Codes DEF TypePart
    <3>8. TypePart'
      BY <2>2, <3>3, <3>5, <3>6, <3>7 DEF TypePart
    <3> QED BY <3>3, <3>5, <3>8 DEF KeyInv
  <2>4. ASSUME NEW k \in Keys, Release(k) PROVE KeyInv'
    <3>1. /\ stream' = stream \o Bytes(k, k.code + 128) /\ down' = down \ {k}
          /\ mods' = mods \ shiftcode(Index(k)) /\ caps' = caps /\ due' = due
          /\ shift' = shift /\ rebooted' = rebooted
      BY <2>4 DEF Release
    <3>2. stream \in Seq(Byte) /\ due \in Seq(Meaning) /\ caps \in BOOLEAN
      BY <2>2 DEF TypePart
    <3>3. /\ stream' \in Seq(Byte)
          /\ Reach(stream', shift, due, mods \ shiftcode(Index(k)), caps)
      <4>1. Reach(stream, shift, due, mods, caps)
        BY DEF KeyInv
      <4>2. /\ stream \o Bytes(k, k.code + 128) \in Seq(Byte)
            /\ Reach(stream \o Bytes(k, k.code + 128), shift, due, mods \ shiftcode(Index(k)), caps)
        BY <3>2, <4>1, ReleaseRun
      <4> QED BY <3>1, <4>2, Zenon
    <3>4. TypePart'
      BY <2>2, <3>1, <3>3 DEF TypePart
    <3> QED BY <3>1, <3>3, <3>4 DEF KeyInv
  <2>5. ASSUME Mouse PROVE KeyInv'
    <3>1. PICK b : b = [data |-> 0, aux |-> TRUE]
      OBVIOUS
    <3>2. b \in Byte /\ ~IsMake(b) /\ After(s, b) = s
      BY <3>1 DEF Byte, IsMake, After
    <3>3. /\ stream' = Append(stream, b)
          /\ UNCHANGED <<shift, rebooted, down, mods, caps, due>>
      BY <2>5, <3>1 DEF Mouse
    <3>4. stream \in Seq(Byte) /\ due \in Seq(Meaning)
      BY <2>2 DEF TypePart
    <3>5. Leads(Append(stream, b), shift, due, After(s, b))
      BY <2>1, <3>2, <3>4, LongerRun
    <3>6. stream' \in Seq(Byte)
      BY <3>2, <3>3, <3>4, AppendProperties
    <3>7. TypePart'
      BY <2>2, <3>3, <3>6 DEF TypePart
    <3> QED BY <2>1, <3>2, <3>3, <3>5, <3>7 DEF KeyInv, Reach
  <2>6. ASSUME kbd_proc_data PROVE KeyInv'
    <3>1. stream \in Seq(Byte) /\ stream # << >> /\ due \in Seq(Meaning)
      BY <2>2, <2>6 DEF TypePart, kbd_proc_data
    <3>2. PICK b : b = Head(stream)
      OBVIOUS
    <3>3. b \in Byte /\ ~b.aux
      BY <2>6, <3>1, <3>2, HeadTailProperties DEF kbd_proc_data
    <3>4. After(shift, b) = decode(shift, b.data).shift /\ (IsMake(b) <=> b.data < 128)
      BY <3>3 DEF After, IsMake
    <3>5. /\ stream' = Tail(stream) /\ shift' = After(shift, b)
          /\ rebooted' = decode(shift, b.data).reboot
          /\ due' = (IF IsMake(b) THEN Tail(due) ELSE due)
          /\ UNCHANGED <<down, mods, caps>>
      BY <2>6, <3>2, <3>4 DEF kbd_proc_data
    <3>6. Leads(Tail(stream), After(shift, b), due', s) /\ due' \in Seq(Meaning)
      BY <2>1, <3>1, <3>2, <3>5, ShorterRun
    <3>7. stream' \in Seq(Byte)
      BY <3>1, <3>5, HeadTailProperties
    <3>8. shift' \subseteq Flags /\ rebooted' \in BOOLEAN
      <4>1. PICK x \in 0 .. 255 : x = b.data
        BY <3>3 DEF Byte
      <4>2. shift \in SUBSET Flags
        BY <2>2 DEF TypePart
      <4>3. decode(shift, x).shift \subseteq Flags /\ decode(shift, x).reboot \in BOOLEAN
        BY <4>1, <4>2, DecodeType
      <4> QED BY <3>4, <3>5, <4>1, <4>3, Zenon
    <3>9. TypePart'
      BY <2>2, <3>5, <3>6, <3>7, <3>8 DEF TypePart
    <3> QED BY <2>1, <3>5, <3>6, <3>9 DEF KeyInv, Reach
  <2>7. CASE UNCHANGED kbdvars
    BY <2>7 DEF kbdvars, KeyInv, TypePart
  <2> QED BY <2>3, <2>4, <2>5, <2>6, <2>7 DEF KbdNext
<1> QED BY <1>1, <1>2, PTL DEF KbdSpec

(* FlagsFollow: in every reachable state with no byte waiting, the flags   *)
(* of kbd_proc_data are those of the keyboard (ModifiersFollow).           *)
THEOREM FlagsFollow == KbdSpec => []ModifiersFollow
<1>1. KeyInv => ModifiersFollow
  <2> SUFFICES ASSUME KeyInv, stream = << >>
      PROVE  /\ shift \cap Modifiers = mods
             /\ "CAPSLOCK" \in shift <=> caps
             /\ "E0ESC" \notin shift
    BY DEF ModifiersFollow
  <2>1. PICK s : Leads(stream, shift, due, s) /\ Follows(s, mods, caps)
    BY DEF KeyInv, Reach
  <2>2. s = shift
    BY <2>1, EmptyRun
  <2> QED BY <2>1, <2>2 DEF Follows
<1> QED BY <1>1, Invariance, PTL

(* Meanings: a step of kbd_proc_data that reads a make code yields what    *)
(* the key meant when it was pressed (KeysMean).                           *)
THEOREM MeaningsKept == KbdSpec => KeysMean
<1>1. ASSUME KeyInv, kbd_proc_data, Head(stream).data < 128
      PROVE  LET r == decode(shift, Head(stream).data)
             IN  [c |-> r.c, reboot |-> r.reboot] = Head(due)
  <2>1. PICK s : Leads(stream, shift, due, s)
    BY <1>1 DEF KeyInv, Reach
  <2>2. stream \in Seq(Byte) /\ stream # << >> /\ due \in Seq(Meaning)
    BY <1>1 DEF KeyInv, TypePart, kbd_proc_data
  <2>3. PICK b, due2 : b = Head(stream) /\ due2 = IF IsMake(b) THEN Tail(due) ELSE due
    OBVIOUS
  <2>4. IsMake(b)
    BY <1>1, <2>3 DEF IsMake, kbd_proc_data
  <2>5. Head(due) = Means(shift, b)
    BY <2>1, <2>2, <2>3, <2>4, ShorterRun
  <2> QED BY <2>3, <2>5 DEF Means
<1>2. KeyInv /\ [KbdNext]_kbdvars =>
        [kbd_proc_data /\ Head(stream).data < 128 =>
           LET r == decode(shift, Head(stream).data)
           IN  [c |-> r.c, reboot |-> r.reboot] = Head(due)]_kbdvars
  BY <1>1
<1> QED BY <1>2, Invariance, PTL DEF KbdSpec, KeysMean

=============================================================================
