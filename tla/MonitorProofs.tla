---------------------------- MODULE MonitorProofs ----------------------------
(***************************************************************************)
(* Proofs about kern/kdebug.c and lib/string.c. The loops are recursive    *)
(* functions: the proofs show that there is such a function, that a round  *)
(* keeps an invariant and brings the loop nearer to its end, and with the  *)
(* least counterexample that the invariant holds where the loop ends.      *)
(*                                                                         *)
(* The first part is stab_binsearch, for every table of stabs and every    *)
(* address: a round keeps SearchInv and takes something away from Variant. *)
(* Then come memmove, the loops that look for the end of a string, and the *)
(* bounded copies that are made of them.                                   *)
(***************************************************************************)
EXTENDS Monitor, FiniteSetTheorems, WellFoundedInduction, TLAPS

(* The loop of stab_binsearch as a function of the state of its variables, *)
(* and the state that it starts in.                                        *)
LoopFrom(stabs, type, g) ==
  [s \in SearchState |-> IF s.l <= s.r THEN g[binsearch_round(stabs, type, s)]
                         ELSE binsearch_region(stabs, type, s)]
Loop(stabs, type) == CHOOSE g : g = LoopFrom(stabs, type, g)
Start(lo, hi, addr) ==
  [l |-> lo, r |-> hi, left |-> lo, right |-> hi, addr |-> addr, any |-> FALSE]

(* stab_binsearch runs that loop.                                          *)
LEMMA BinsearchIsLoop ==
  ASSUME NEW stabs, NEW lo, NEW hi, NEW type, NEW addr
  PROVE  stab_binsearch(stabs, lo, hi, type, addr) = Loop(stabs, type)[Start(lo, hi, addr)]
BY Zenon DEF stab_binsearch, Loop, LoopFrom, Start

-----------------------------------------------------------------------------
(* A set of naturals that is not empty has a least element,                *)
LEMMA Least ==
  ASSUME NEW T \in SUBSET Nat, T # {}
  PROVE  \E x \in T : \A y \in T : x <= y
<1> DEFINE R == {ss \in Nat \X Nat : ss[1] < ss[2]}
<1>1. IsWellFoundedOn(R, Nat)
  BY NatLessThanWellFounded DEF OpToRel
<1>2. PICK x \in T : \A y \in T : ~ (<<y, x>> \in R)
  <2> HIDE DEF R
  <2> QED BY <1>1, WFMin
<1>3. ASSUME NEW y \in T PROVE x <= y
  <2>1. x \in Nat /\ y \in Nat
    OBVIOUS
  <2>2. ~(y < x)
    BY <1>2, <2>1
  <2> QED BY <2>1, <2>2
<1> QED
  BY <1>3

(* and one that lies in an interval has a greatest and a least.            *)
LEMMA Extremes ==
  ASSUME NEW a \in Int, NEW b \in Int, NEW S \in SUBSET (a .. b), S # {}
  PROVE  /\ Max(S) \in S /\ \A y \in S : Max(S) >= y
         /\ Min(S) \in S /\ \A y \in S : Min(S) <= y
<1>1. \E x \in S : \A y \in S : x >= y
  <2> DEFINE T == {n \in Nat : b - n \in S}
  <2>1. T \in SUBSET Nat /\ T # {}
    <3>1. PICK z \in S : TRUE
      OBVIOUS
    <3>2. b - z \in Nat /\ b - (b - z) = z
      OBVIOUS
    <3> QED BY <3>2
  <2>2. PICK n \in T : \A k \in T : n <= k
    <3> HIDE DEF T
    <3> QED BY <2>1, Least
  <2>3. ASSUME NEW y \in S PROVE b - n >= y
    <3>1. b - y \in Nat /\ b - (b - y) = y
      OBVIOUS
    <3>2. n <= b - y
      BY <2>2, <3>1
    <3> QED BY <3>1, <3>2
  <2>4. b - n \in S
    OBVIOUS
  <2> QED BY <2>3, <2>4
<1>2. \E x \in S : \A y \in S : x <= y
  <2> DEFINE T == {n \in Nat : a + n \in S}
  <2>1. T \in SUBSET Nat /\ T # {}
    <3>1. PICK z \in S : TRUE
      OBVIOUS
    <3>2. z - a \in Nat /\ a + (z - a) = z
      OBVIOUS
    <3> QED BY <3>2
  <2>2. PICK n \in T : \A k \in T : n <= k
    <3> HIDE DEF T
    <3> QED BY <2>1, Least
  <2>3. ASSUME NEW y \in S PROVE a + n <= y
    <3>1. y - a \in Nat /\ a + (y - a) = y
      OBVIOUS
    <3>2. n <= y - a
      BY <2>2, <3>1
    <3> QED BY <3>1, <3>2
  <2>4. a + n \in S
    OBVIOUS
  <2> QED BY <2>3, <2>4
<1>3. Max(S) \in S /\ \A y \in S : Max(S) >= y
  BY <1>1, Zenon DEF Max
<1>4. Min(S) \in S /\ \A y \in S : Min(S) <= y
  BY <1>2, Zenon DEF Min
<1> QED BY <1>3, <1>4

(* The last stab of a type, or what comes before.                          *)
LEMMA LastIn ==
  ASSUME NEW a \in Int, NEW b \in Int, NEW S \in SUBSET (a .. b), NEW d \in Int
  PROVE  /\ LastOf(S, d) \in Int
         /\ S = {} => LastOf(S, d) = d
         /\ S # {} => LastOf(S, d) \in S /\ \A y \in S : LastOf(S, d) >= y
<1>1. CASE S = {}
  BY <1>1 DEF LastOf
<1>2. CASE S # {}
  <2>1. LastOf(S, d) = Max(S)
    BY <1>2 DEF LastOf
  <2>2. Max(S) \in S /\ \A y \in S : Max(S) >= y
    BY <1>2, Extremes
  <2>3. PICK x \in a .. b : x = Max(S)
    BY <2>2, Zenon
  <2>4. Max(S) \in Int
    BY <2>3
  <2> QED BY <1>2, <2>1, <2>2, <2>4, Zenon
<1> QED BY <1>1, <1>2

-----------------------------------------------------------------------------
(* A round of the search leaves the variables it should.                   *)
LEMMA RoundType ==
  ASSUME NEW stabs, NEW type, NEW s \in SearchState
  PROVE  binsearch_round(stabs, type, s) \in SearchState
<1>1. PICK tm \in Int : tm = (s.l + s.r) \div 2
  BY DEF SearchState
<1>2. PICK m \in Int : m = LastOf(Matching(stabs, type, s.l, tm), s.l - 1)
  <2>1. Matching(stabs, type, s.l, tm) \in SUBSET (s.l .. tm)
    BY DEF Matching
  <2>2. s.l \in Int /\ s.l - 1 \in Int
    BY DEF SearchState
  <2> QED BY <1>1, <2>1, <2>2, LastIn
<1>3. binsearch_round(stabs, type, s) =
        IF m < s.l THEN [s EXCEPT !.l = tm + 1]
        ELSE IF stabs[m].value < s.addr THEN [s EXCEPT !.any = TRUE, !.left = m, !.l = tm + 1]
        ELSE IF stabs[m].value > s.addr THEN [s EXCEPT !.any = TRUE, !.right = m - 1, !.r = m - 1]
        ELSE [s EXCEPT !.any = TRUE, !.left = m, !.l = m, !.addr = s.addr + 1]
  BY <1>1, <1>2, Zenon DEF binsearch_round
<1>4. PICK t2, m2 \in Int : t2 = tm + 1 /\ m2 = m - 1
  OBVIOUS
<1>5. PICK a2 \in Nat : a2 = s.addr + 1
  BY DEF SearchState
<1>6. [s EXCEPT !.l = t2] \in SearchState
  BY <1>4 DEF SearchState
<1>7. [s EXCEPT !.any = TRUE, !.left = m, !.l = t2] \in SearchState
  BY <1>4 DEF SearchState
<1>8. [s EXCEPT !.any = TRUE, !.right = m2, !.r = m2] \in SearchState
  BY <1>4 DEF SearchState
<1>9. [s EXCEPT !.any = TRUE, !.left = m, !.l = m, !.addr = a2] \in SearchState
  BY <1>5 DEF SearchState
<1> QED BY <1>3, <1>4, <1>5, <1>6, <1>7, <1>8, <1>9, Zenon

(* Where the loop may come from s, and where it may end.                   *)
Closed(stabs, type, T) == \A s \in T : s.l <= s.r => binsearch_round(stabs, type, s) \in T
Ends(stabs, type, s) ==
  {e \in SearchState : /\ ~(e.l <= e.r)
                       /\ \A T \in SUBSET SearchState :
                            s \in T /\ Closed(stabs, type, T) => e \in T}

(* There is such a function as the loop.                                   *)
LEMMA LoopExists ==
  ASSUME NEW stabs, NEW type
  PROVE  Loop(stabs, type) = LoopFrom(stabs, type, Loop(stabs, type))
<1> DEFINE end(s) == CHOOSE e \in Ends(stabs, type, s) : TRUE
           h == [s \in SearchState |-> binsearch_region(stabs, type, end(s))]
<1>1. ASSUME NEW s \in SearchState, ~(s.l <= s.r) PROVE end(s) = s
  <2>1. {s} \in SUBSET SearchState /\ Closed(stabs, type, {s})
    BY <1>1 DEF Closed
  <2>2. Ends(stabs, type, s) \subseteq {s}
    BY <2>1 DEF Ends
  <2>3. s \in Ends(stabs, type, s)
    BY <1>1 DEF Ends
  <2> QED BY <2>2, <2>3
<1>2. ASSUME NEW s \in SearchState, s.l <= s.r
      PROVE  end(s) = end(binsearch_round(stabs, type, s))
  <2> DEFINE t == binsearch_round(stabs, type, s)
  <2>1. t \in SearchState
    BY RoundType
  <2> HIDE DEF t
  <2>2. ASSUME NEW e \in Ends(stabs, type, s) PROVE e \in Ends(stabs, type, t)
    <3>1. e \in SearchState /\ ~(e.l <= e.r)
      BY DEF Ends
    <3>2. ASSUME NEW T \in SUBSET SearchState, t \in T, Closed(stabs, type, T) PROVE e \in T
      <4>1. T \cup {s} \in SUBSET SearchState
        OBVIOUS
      <4>2. Closed(stabs, type, T \cup {s})
        BY <3>2 DEF Closed, t
      <4>3. e \in T \cup {s}
        BY <4>1, <4>2 DEF Ends
      <4>4. e # s
        BY <1>2, <3>1
      <4> QED BY <4>3, <4>4
    <3> QED BY <3>1, <3>2 DEF Ends
  <2>3. ASSUME NEW e \in Ends(stabs, type, t) PROVE e \in Ends(stabs, type, s)
    <3>1. e \in SearchState /\ ~(e.l <= e.r)
      BY DEF Ends
    <3>2. ASSUME NEW T \in SUBSET SearchState, s \in T, Closed(stabs, type, T) PROVE e \in T
      <4>1. t \in T
        BY <1>2, <3>2 DEF Closed, t
      <4> QED BY <3>2, <4>1 DEF Ends
    <3> QED BY <3>1, <3>2 DEF Ends
  <2>4. Ends(stabs, type, s) = Ends(stabs, type, t)
    BY <2>2, <2>3
  <2> QED BY <2>4, Zenon DEF t
<1>3. ASSUME NEW s \in SearchState
      PROVE  h[s] = IF s.l <= s.r THEN h[binsearch_round(stabs, type, s)]
                    ELSE binsearch_region(stabs, type, s)
  <2>1. binsearch_round(stabs, type, s) \in SearchState
    BY RoundType
  <2>2. /\ h[s] = binsearch_region(stabs, type, end(s))
        /\ h[binsearch_round(stabs, type, s)]
             = binsearch_region(stabs, type, end(binsearch_round(stabs, type, s)))
    BY <2>1, Zenon
  <2> HIDE DEF h, end
  <2> QED BY <1>1, <1>2, <2>2, Zenon
<1>4. h = LoopFrom(stabs, type, h)
  <2>1. LoopFrom(stabs, type, h) =
          [s \in SearchState |-> IF s.l <= s.r THEN h[binsearch_round(stabs, type, s)]
                                 ELSE binsearch_region(stabs, type, s)]
    BY Zenon DEF LoopFrom
  <2>2. h = [s \in SearchState |-> h[s]]
    <3> HIDE DEF end
    <3> QED OBVIOUS
  <2> HIDE DEF h
  <2> QED BY <1>3, <2>1, <2>2, Zenon
<1> HIDE DEF h
<1> QED BY <1>4, Zenon DEF Loop

-----------------------------------------------------------------------------
(* The search between lo and hi for the address a0, among the stabs S of   *)
(* one type, whose addresses v are in order.  Those before l are not       *)
(* behind a0 and those behind r are; the last match that was found is at   *)
(* left, if there was one; the address is one higher after an exact match. *)
RangePart(lo, hi, l, r, right) == lo <= l /\ r <= hi /\ lo - 1 <= r /\ right = r
BelowPart(S, v, a0, l) == \A k \in S : k < l => v[k] <= a0
AbovePart(S, v, a0, r) == \A k \in S : k > r => v[k] > a0
AddrPart(S, v, a0, addr) == addr = a0 \/ (addr = a0 + 1 /\ \E j \in S : v[j] = a0)
NextPart(S, hi, r) == r = hi \/ r + 1 \in S
LeftPart(S, v, lo, a0, l, left) ==
  (left \in S /\ v[left] <= a0) \/ (left = lo /\ \A k \in S : k >= l)
NonePart(S, lo, hi, l, r, left) == left = lo /\ r = hi /\ \A k \in S : k >= l

SearchInv(S, v, lo, hi, a0, s) ==
  /\ s \in SearchState
  /\ RangePart(lo, hi, s.l, s.r, s.right)
  /\ BelowPart(S, v, a0, s.l) /\ AbovePart(S, v, a0, s.r)
  /\ AddrPart(S, v, a0, s.addr) /\ NextPart(S, hi, s.r)
  /\ LeftPart(S, v, lo, a0, s.l, s.left)
  /\ (s.any /\ S # {}) \/ (~s.any /\ NonePart(S, lo, hi, s.l, s.r, s.left))

(* What shrinks: the range, and once the address goes up.                  *)
Variant(a0, s) ==
  IF s.l <= s.r THEN (s.r - s.l) + 1 + (IF s.addr = a0 THEN 1 ELSE 0) ELSE 0

(* The stabs of one type are in order, and none of them is 1 behind one    *)
(* that is exactly at the address.                                         *)
Ordered(stabs, type, lo, hi, S, v) ==
  /\ S = Matching(stabs, type, lo, hi)
  /\ v \in [lo .. hi -> Nat] /\ \A k \in lo .. hi : stabs[k].value = v[k]
  /\ \A j, k \in S : j < k => v[j] <= v[k]
Apart(S, v, a0) == ~\E j, k \in S : v[j] = a0 /\ v[k] = a0 + 1

(* true_m, the middle of the range.                                        *)
Middle(l, r, tm) == tm = (l + r) \div 2

(* The stabs that a round looks at.                                        *)
LEMMA RoundStabs ==
  ASSUME NEW lo \in Int, NEW hi \in Int, NEW stabs, NEW type, NEW S, S = Matching(stabs, type, lo, hi),
         NEW l \in Int, NEW r \in Int, lo <= l, r <= hi, l <= r, NEW tm \in Int, Middle(l, r, tm),
         NEW m, m = LastOf(Matching(stabs, type, l, tm), l - 1)
  PROVE  /\ tm \in Int /\ l <= tm /\ tm <= r /\ m \in Int
         /\ m < l => \A k \in S : k >= l => k > tm
         /\ ~(m < l) => /\ m \in S /\ m \in lo .. hi /\ m <= tm
                        /\ \A k \in S : k >= l /\ k <= tm => k <= m
         /\ \A k \in S : k \in Int /\ lo <= k /\ k <= hi
<1>1. tm \in Int /\ l <= tm /\ tm <= r
  BY DEF Middle
<1> DEFINE M == Matching(stabs, type, l, tm)
<1>2. M \in SUBSET (l .. tm)
  BY DEF Matching
<1>3. \A k \in S : k \in Int /\ lo <= k /\ k <= hi
  BY DEF Matching
<1>4. \A k : k \in M <=> k \in S /\ l <= k /\ k <= tm
  BY <1>1, <1>3 DEF Matching
<1> HIDE DEF M
<1>5. /\ m \in Int /\ (M = {} => m = l - 1) /\ (M # {} => m \in M /\ \A y \in M : m >= y)
  <2>1. l - 1 \in Int
    OBVIOUS
  <2> QED BY <1>1, <1>2, <2>1, LastIn DEF M
<1>6. m < l => M = {}
  BY <1>2, <1>5
<1>7. ~(m < l) => M # {}
  BY <1>5
<1>8. m < l => \A k \in S : k >= l => k > tm
  BY <1>1, <1>3, <1>4, <1>6
<1>9. ~(m < l) => /\ m \in S /\ m \in lo .. hi /\ m <= tm
                  /\ \A k \in S : k >= l /\ k <= tm => k <= m
  BY <1>3, <1>4, <1>5, <1>7
<1> QED BY <1>1, <1>3, <1>5, <1>8, <1>9

(* A round of the search keeps its invariant, and comes nearer to the end. *)
(* What the four cases of a round do to the parts of the invariant:        *)
(* nothing of the type between l and true_m,                               *)
LEMMA NothingThere ==
  ASSUME NEW lo \in Int, NEW hi \in Int, NEW S \in SUBSET (lo .. hi), NEW v \in [lo .. hi -> Nat],
         NEW a0 \in Nat, NEW l \in Int, NEW r \in Int, NEW right \in Int, NEW left \in Int,
         NEW tm \in Int, l <= tm, tm <= r, \A k \in S : k >= l => k > tm,
         RangePart(lo, hi, l, r, right), BelowPart(S, v, a0, l), LeftPart(S, v, lo, a0, l, left)
  PROVE  /\ RangePart(lo, hi, tm + 1, r, right) /\ BelowPart(S, v, a0, tm + 1)
         /\ LeftPart(S, v, lo, a0, tm + 1, left)
         /\ NonePart(S, lo, hi, l, r, left) => NonePart(S, lo, hi, tm + 1, r, left)
<1>1. \A k \in S : k \in Int
  OBVIOUS
<1>2. RangePart(lo, hi, tm + 1, r, right)
  BY DEF RangePart
<1>3. BelowPart(S, v, a0, tm + 1)
  BY <1>1 DEF BelowPart
<1>4. (\A k \in S : k >= l) => (\A k \in S : k >= tm + 1)
  BY <1>1
<1> QED BY <1>2, <1>3, <1>4, Zenon DEF LeftPart, NonePart

(* a match that is not behind the address,                                 *)
LEMMA MatchBelow ==
  ASSUME NEW lo \in Int, NEW hi \in Int, NEW S \in SUBSET (lo .. hi), NEW v \in [lo .. hi -> Nat],
         NEW a0 \in Nat, NEW l \in Int, NEW r \in Int, NEW right \in Int,
         NEW tm \in Int, l <= tm, tm <= r, NEW m \in S, l <= m, m <= tm,
         \A k \in S : k >= l /\ k <= tm => k <= m,
         \A j, k \in S : j < k => v[j] <= v[k], v[m] <= a0,
         RangePart(lo, hi, l, r, right)
  PROVE  /\ RangePart(lo, hi, tm + 1, r, right) /\ RangePart(lo, hi, m, r, right)
         /\ BelowPart(S, v, a0, tm + 1) /\ BelowPart(S, v, a0, m)
         /\ LeftPart(S, v, lo, a0, tm + 1, m) /\ LeftPart(S, v, lo, a0, m, m)
<1>1. \A k \in S : k \in Int /\ v[k] \in Nat
  OBVIOUS
<1>2. RangePart(lo, hi, tm + 1, r, right) /\ RangePart(lo, hi, m, r, right)
  BY <1>1 DEF RangePart
<1>3. \A k \in S : k <= m => v[k] <= a0
  BY <1>1
<1>4. ASSUME NEW k \in S, k < tm + 1 PROVE k <= m
  BY <1>1, <1>4
<1>5. BelowPart(S, v, a0, tm + 1)
  BY <1>3, <1>4 DEF BelowPart
<1>6. BelowPart(S, v, a0, m)
  BY <1>1, <1>3 DEF BelowPart
<1>7. LeftPart(S, v, lo, a0, tm + 1, m) /\ LeftPart(S, v, lo, a0, m, m)
  BY DEF LeftPart
<1> QED BY <1>2, <1>5, <1>6, <1>7

(* and one behind the address.                                             *)
LEMMA MatchAbove ==
  ASSUME NEW lo \in Int, NEW hi \in Int, NEW S \in SUBSET (lo .. hi), NEW v \in [lo .. hi -> Nat],
         NEW a0 \in Nat, NEW l \in Int, NEW r \in Int, NEW right \in Int,
         NEW m \in S, l <= m, m <= r,
         \A j, k \in S : j < k => v[j] <= v[k], v[m] > a0,
         RangePart(lo, hi, l, r, right)
  PROVE  /\ RangePart(lo, hi, l, m - 1, m - 1) /\ AbovePart(S, v, a0, m - 1)
         /\ NextPart(S, hi, m - 1)
<1>1. \A k \in S : k \in Int /\ v[k] \in Nat
  OBVIOUS
<1>2. RangePart(lo, hi, l, m - 1, m - 1)
  BY <1>1 DEF RangePart
<1>3. ASSUME NEW k \in S, k > m - 1 PROVE v[k] > a0
  <2>1. k = m \/ m < k
    BY <1>1, <1>3
  <2>2. v[m] <= v[k]
    BY <1>1, <2>1
  <2> QED BY <1>1, <2>2
<1>4. m - 1 + 1 = m
  BY <1>1
<1> QED BY <1>2, <1>3, <1>4 DEF AbovePart, NextPart

(* Together: a round keeps the invariant and takes something away from     *)
(* what is left to search.                                                 *)
LEMMA RoundKeeps ==
  ASSUME NEW lo \in Int, NEW hi \in Int, NEW stabs, NEW type, NEW S, NEW v, NEW a0 \in Nat,
         Ordered(stabs, type, lo, hi, S, v), Apart(S, v, a0),
         NEW s, SearchInv(S, v, lo, hi, a0, s), s.l <= s.r
  PROVE  /\ SearchInv(S, v, lo, hi, a0, binsearch_round(stabs, type, s))
         /\ Variant(a0, binsearch_round(stabs, type, s)) < Variant(a0, s)
<1> DEFINE t == binsearch_round(stabs, type, s)
<1>1. s \in SearchState /\ t \in SearchState
  BY RoundType DEF SearchInv
<1>2. PICK l, r, left, right \in Int :
        l = s.l /\ r = s.r /\ left = s.left /\ right = s.right
  BY <1>1 DEF SearchState
<1>3. PICK addr \in Nat : addr = s.addr
  BY <1>1 DEF SearchState
<1>4. PICK tm \in Int : tm = (l + r) \div 2
  OBVIOUS
<1>5. PICK m : m = LastOf(Matching(stabs, type, l, tm), l - 1)
  OBVIOUS
<1>6. /\ S = Matching(stabs, type, lo, hi) /\ v \in [lo .. hi -> Nat]
      /\ (\A k \in lo .. hi : stabs[k].value = v[k])
      /\ \A j, k \in S : j < k => v[j] <= v[k]
  BY Zenon DEF Ordered
<1>7. /\ RangePart(lo, hi, l, r, right) /\ BelowPart(S, v, a0, l) /\ AbovePart(S, v, a0, r)
      /\ AddrPart(S, v, a0, addr) /\ NextPart(S, hi, r) /\ LeftPart(S, v, lo, a0, l, left)
      /\ (s.any /\ S # {}) \/ (~s.any /\ NonePart(S, lo, hi, l, r, left))
  BY <1>2, <1>3, Zenon DEF SearchInv
<1>8. lo <= l /\ r <= hi /\ l <= r
  BY <1>2, <1>7 DEF RangePart
<1>9. /\ tm \in Int /\ l <= tm /\ tm <= r /\ m \in Int
      /\ m < l => \A k \in S : k >= l => k > tm
      /\ ~(m < l) => /\ m \in S /\ m \in lo .. hi /\ m <= tm
                     /\ \A k \in S : k >= l /\ k <= tm => k <= m
      /\ \A k \in S : k \in Int /\ lo <= k /\ k <= hi
  <2>1. S = Matching(stabs, type, lo, hi)
    BY <1>6
  <2>2. Middle(l, r, tm)
    BY <1>4 DEF Middle
  <2> QED BY <1>4, <1>5, <1>8, <2>1, <2>2, RoundStabs
<1>10. S \in SUBSET (lo .. hi)
  BY <1>9
<1>11. t = IF m < s.l THEN [s EXCEPT !.l = tm + 1]
           ELSE IF stabs[m].value < s.addr
           THEN [s EXCEPT !.any = TRUE, !.left = m, !.l = tm + 1]
           ELSE IF stabs[m].value > s.addr
           THEN [s EXCEPT !.any = TRUE, !.right = m - 1, !.r = m - 1]
           ELSE [s EXCEPT !.any = TRUE, !.left = m, !.l = m, !.addr = s.addr + 1]
  BY <1>2, <1>4, <1>5, Zenon DEF binsearch_round
<1>12. PICK t2, m2, a2 \in Int : t2 = tm + 1 /\ m2 = m - 1 /\ a2 = addr + 1
  BY <1>3, <1>9
<1>13. Variant(a0, s) = (r - l) + 1 + (IF addr = a0 THEN 1 ELSE 0)
  BY <1>2, <1>3 DEF Variant
<1> HIDE DEF t
<1>14. CASE m < l
  <2>1. t = [s EXCEPT !.l = t2]
    BY <1>2, <1>11, <1>12, <1>14, Zenon
  <2>2. /\ t.l = t2 /\ t.r = r /\ t.left = left /\ t.right = right /\ t.addr = addr
        /\ t.any = s.any
    BY <1>1, <1>2, <1>3, <2>1 DEF SearchState
  <2>3. /\ RangePart(lo, hi, t2, r, right) /\ BelowPart(S, v, a0, t2)
        /\ LeftPart(S, v, lo, a0, t2, left)
        /\ NonePart(S, lo, hi, l, r, left) => NonePart(S, lo, hi, t2, r, left)
    BY <1>6, <1>7, <1>9, <1>10, <1>12, <1>14, NothingThere
  <2>4. SearchInv(S, v, lo, hi, a0, t)
    BY <1>1, <1>7, <2>2, <2>3, Zenon DEF SearchInv
  <2>5. Variant(a0, t) = IF t2 <= r THEN (r - t2) + 1 + (IF addr = a0 THEN 1 ELSE 0) ELSE 0
    BY <2>2, Zenon DEF Variant
  <2>6. Variant(a0, t) < Variant(a0, s)
    BY <1>8, <1>9, <1>12, <1>13, <2>5
  <2> QED BY <2>4, <2>6 DEF t
<1>15. CASE ~(m < l)
  <2>1. /\ m \in S /\ m \in lo .. hi /\ m <= tm /\ l <= m
        /\ \A k \in S : k >= l /\ k <= tm => k <= m
    BY <1>9, <1>15
  <2>2. PICK x \in Nat : x = v[m] /\ x = stabs[m].value
    BY <1>6, <2>1
  <2>3. addr = a0 \/ addr = a0 + 1
    BY <1>7, Zenon DEF AddrPart
  <2>4. CASE x < addr
    <3>1. t = [s EXCEPT !.any = TRUE, !.left = m, !.l = t2]
      BY <1>2, <1>3, <1>11, <1>12, <1>15, <2>2, <2>4, Zenon
    <3>2. /\ t.l = t2 /\ t.r = r /\ t.left = m /\ t.right = right /\ t.addr = addr /\ t.any
      BY <1>1, <1>2, <1>3, <3>1 DEF SearchState
    <3>3. v[m] <= a0
      BY <2>2, <2>3, <2>4
    <3>4. /\ RangePart(lo, hi, t2, r, right) /\ BelowPart(S, v, a0, t2)
          /\ LeftPart(S, v, lo, a0, t2, m)
      <4>1. /\ RangePart(lo, hi, tm + 1, r, right) /\ BelowPart(S, v, a0, tm + 1)
            /\ LeftPart(S, v, lo, a0, tm + 1, m)
        BY <1>6, <1>7, <1>9, <1>10, <2>1, <3>3, MatchBelow
      <4> QED BY <1>12, <4>1, Zenon
    <3>5. SearchInv(S, v, lo, hi, a0, t)
      BY <1>1, <1>7, <2>1, <3>2, <3>4, Zenon DEF SearchInv
    <3>6. Variant(a0, t) = IF t2 <= r THEN (r - t2) + 1 + (IF addr = a0 THEN 1 ELSE 0) ELSE 0
      BY <3>2, Zenon DEF Variant
    <3>7. Variant(a0, t) < Variant(a0, s)
      BY <1>8, <1>9, <1>12, <1>13, <3>6
    <3> QED BY <3>5, <3>7 DEF t
  <2>5. CASE x > addr
    <3>1. ~(x < addr)
      BY <2>5
    <3>2. t = [s EXCEPT !.any = TRUE, !.right = m2, !.r = m2]
      BY <1>2, <1>3, <1>11, <1>12, <1>15, <2>2, <2>5, <3>1, Zenon
    <3>3. /\ t.l = l /\ t.r = m2 /\ t.left = left /\ t.right = m2 /\ t.addr = addr /\ t.any
      BY <1>1, <1>2, <1>3, <3>2 DEF SearchState
    <3>4. v[m] > a0 /\ m <= r
      BY <1>9, <2>1, <2>2, <2>3, <2>5
    <3>5. /\ RangePart(lo, hi, l, m2, m2) /\ AbovePart(S, v, a0, m2) /\ NextPart(S, hi, m2)
      BY <1>6, <1>7, <1>10, <1>12, <2>1, <3>4, MatchAbove
    <3>6. SearchInv(S, v, lo, hi, a0, t)
      BY <1>1, <1>7, <2>1, <3>3, <3>5, Zenon DEF SearchInv
    <3>7. Variant(a0, t) = IF l <= m2 THEN (m2 - l) + 1 + (IF addr = a0 THEN 1 ELSE 0) ELSE 0
      BY <3>3, Zenon DEF Variant
    <3>8. Variant(a0, t) < Variant(a0, s)
      BY <1>8, <1>9, <1>12, <1>13, <3>4, <3>7
    <3> QED BY <3>6, <3>8 DEF t
  <2>6. CASE x = addr
    <3>1. ~(x < addr) /\ ~(x > addr)
      BY <2>6
    <3>2. t = [s EXCEPT !.any = TRUE, !.left = m, !.l = m, !.addr = a2]
      BY <1>2, <1>3, <1>11, <1>12, <1>15, <2>2, <3>1, Zenon
    <3>3. /\ t.l = m /\ t.r = r /\ t.left = m /\ t.right = right /\ t.addr = a2 /\ t.any
      BY <1>1, <1>2, <1>3, <3>2 DEF SearchState
    <3>4. addr = a0
      <4>1. ASSUME addr = a0 + 1 PROVE FALSE
        <5>1. PICK j \in S : v[j] = a0
          BY <1>7, <4>1 DEF AddrPart
        <5>2. v[m] = a0 + 1
          BY <2>2, <2>6, <4>1
        <5> QED BY <2>1, <5>1, <5>2, Zenon DEF Apart
      <4> QED BY <2>3, <4>1
    <3>5. v[m] <= a0
      BY <2>2, <2>6, <3>4
    <3>6. /\ RangePart(lo, hi, m, r, right) /\ BelowPart(S, v, a0, m)
          /\ LeftPart(S, v, lo, a0, m, m)
      BY <1>6, <1>7, <1>9, <1>10, <2>1, <3>5, MatchBelow
    <3>7. AddrPart(S, v, a0, a2)
      BY <1>12, <2>1, <2>2, <2>6, <3>4 DEF AddrPart
    <3>8. SearchInv(S, v, lo, hi, a0, t)
      BY <1>1, <1>7, <2>1, <3>3, <3>6, <3>7, Zenon DEF SearchInv
    <3>9. Variant(a0, t) = IF m <= r THEN (r - m) + 1 + (IF a2 = a0 THEN 1 ELSE 0) ELSE 0
      BY <3>3, Zenon DEF Variant
    <3>10. Variant(a0, t) < Variant(a0, s)
      BY <1>8, <1>9, <1>12, <1>13, <2>1, <3>4, <3>9
    <3> QED BY <3>8, <3>10 DEF t
  <2> QED BY <2>2, <2>4, <2>5, <2>6
<1> QED BY <1>14, <1>15

-----------------------------------------------------------------------------
(* What the search leaves as a region [left, right], for an address before *)
(* all matches too.                                                        *)
Below(S, v, a0) == {k \in S : v[k] <= a0}
Above(S, v, a0) == {k \in S : v[k] > a0}
Found(S, v, hi, a0, left, right) ==
  IF \A k \in S : v[k] > a0
  THEN IF S = {} THEN left > right ELSE left < Min(S) /\ right = Min(S) - 1
  ELSE /\ left = Max(Below(S, v, a0))
       /\ right = IF Above(S, v, a0) = {} THEN hi ELSE Min(Above(S, v, a0)) - 1

(* The element of a set that lies before, or behind, all the others.       *)
LEMMA ThisExtreme ==
  ASSUME NEW a \in Int, NEW b \in Int, NEW S \in SUBSET (a .. b), NEW x \in S
  PROVE  /\ (\A y \in S : x <= y) => Min(S) = x
         /\ (\A y \in S : x >= y) => Max(S) = x
<1>1. /\ Max(S) \in S /\ (\A y \in S : Max(S) >= y)
      /\ Min(S) \in S /\ \A y \in S : Min(S) <= y
  BY Extremes
<1>2. PICK p, q \in a .. b : p = Max(S) /\ q = Min(S) /\ p >= x /\ q <= x /\ p \in S /\ q \in S
  BY <1>1
<1> QED BY <1>2

(* Nothing was found: there is no stab of the type.                        *)
LEMMA EndNone ==
  ASSUME NEW lo \in Int, NEW hi \in Int, NEW S \in SUBSET (lo .. hi), NEW v \in [lo .. hi -> Nat],
         NEW a0 \in Nat, NEW l \in Int, NEW r \in Int, NEW left \in Int, ~(l <= r),
         NonePart(S, lo, hi, l, r, left)
  PROVE  S = {} /\ Found(S, v, hi, a0, left, left - 1)
<1>1. S = {}
  BY DEF NonePart
<1> QED BY <1>1 DEF Found

(* Where the search for the left end of the region stops.                  *)
Back(stabs, type, left, r, first) ==
  first = IF r <= left THEN r ELSE LastOf(Matching(stabs, type, left + 1, r), left)

(* Something was found: the search for the left end of the region stops at *)
(* the last match that is not behind the address, or before all matches.   *)
LEMMA EndSome ==
  ASSUME NEW lo \in Int, NEW hi \in Int, lo <= hi + 1, NEW stabs, NEW type, NEW S, NEW v,
         NEW a0 \in Nat, Ordered(stabs, type, lo, hi, S, v),
         NEW l \in Int, NEW r \in Int, NEW left \in Int, ~(l <= r), NEW right,
         RangePart(lo, hi, l, r, right), BelowPart(S, v, a0, l), AbovePart(S, v, a0, r),
         NextPart(S, hi, r), LeftPart(S, v, lo, a0, l, left), S # {}, NEW first,
         Back(stabs, type, left, r, first)
  PROVE  Found(S, v, hi, a0, first, r)
<1>1. /\ S = Matching(stabs, type, lo, hi) /\ v \in [lo .. hi -> Nat]
  BY Zenon DEF Ordered
<1>2. S \in SUBSET (lo .. hi)
  BY <1>1 DEF Matching
<1>3. \A k \in S : /\ k \in Int /\ (v[k] <= a0 <=> k <= r) /\ (v[k] > a0 <=> k > r)
                   /\ k < l <=> k <= r
  BY <1>1, <1>2 DEF BelowPart, AbovePart
<1>4. lo <= l /\ r <= hi /\ lo - 1 <= r
  BY DEF RangePart
<1> DEFINE B == Below(S, v, a0)
           A == Above(S, v, a0)
           M == Matching(stabs, type, left + 1, r)
<1>5. /\ B \in SUBSET (lo .. hi) /\ A \in SUBSET (lo .. hi)
      /\ (\A k : k \in B <=> k \in S /\ k <= r) /\ (\A k : k \in A <=> k \in S /\ k > r)
  BY <1>2, <1>3 DEF Below, Above
<1>6. (\A k \in S : v[k] > a0) <=> B = {}
  BY <1>3, <1>5
<1> HIDE DEF A, B
<1>7. A # {} => r + 1 \in A /\ Min(A) = r + 1
  <2>1. ASSUME A # {} PROVE r # hi
    <3>1. PICK k \in A : TRUE
      BY <2>1
    <3> QED BY <1>2, <1>3, <1>5, <3>1
  <2>2. ASSUME A # {} PROVE r + 1 \in A /\ \A k \in A : r + 1 <= k
    <3>1. r + 1 \in S
      BY <2>1, <2>2 DEF NextPart
    <3> QED BY <1>3, <1>5, <3>1
  <2>3. ASSUME A # {} PROVE Min(A) = r + 1
    BY <1>5, <2>2, <2>3, ThisExtreme
  <2> QED BY <2>2, <2>3
<1>8. r = IF A = {} THEN hi ELSE Min(A) - 1
  <2>1. CASE A = {}
    <3>1. ~(r + 1 \in S)
      BY <1>5, <2>1
    <3> QED BY <2>1, <3>1 DEF NextPart
  <2>2. CASE A # {}
    BY <1>7, <2>2
  <2> QED BY <2>1, <2>2
<1>9. CASE B = {}
  <2>1. A = S
    BY <1>3, <1>5, <1>9
  <2>2. Min(S) = r + 1
    BY <1>7, <2>1
  <2>3. left = lo
    BY <1>3, <1>5, <1>9 DEF LeftPart
  <2>5. M = {}
    <3>1. ASSUME NEW k \in M PROVE FALSE
      <4>1. k \in Int /\ lo <= k /\ k <= r /\ k <= hi /\ stabs[k].type = type
        BY <1>4, <2>3 DEF Matching
      <4>2. k \in S
        BY <1>1, <4>1 DEF Matching
      <4> QED BY <1>5, <1>9, <4>1, <4>2
    <3> QED BY <3>1
  <2>6. first = IF r <= lo THEN r ELSE lo
    BY <2>3, <2>5 DEF LastOf, Back
  <2>7. first < r + 1
    BY <1>4, <2>6
  <2>8. first < Min(S) /\ r = Min(S) - 1
    BY <2>2, <2>7
  <2>9. \A k \in S : v[k] > a0
    BY <1>6, <1>9
  <2> QED BY <2>8, <2>9, Zenon DEF Found
<1>10. CASE B # {}
  <2>1. left \in B
    <3>1. ~(\A k \in S : k >= l)
      BY <1>3, <1>5, <1>10
    <3>2. left \in S /\ v[left] <= a0
      BY <3>1 DEF LeftPart
    <3> QED BY <1>3, <1>5, <3>2
  <2>2. left \in S /\ left <= r /\ lo <= left
    BY <1>2, <1>5, <2>1
  <2>3. \A k : k \in M <=> k \in S /\ left < k /\ k <= r
    BY <1>1, <1>3, <1>4, <2>2 DEF Matching
  <2>4. first \in B /\ \A k \in B : first >= k
    <3>1. CASE r <= left
      BY <1>3, <1>5, <2>1, <2>2, <3>1 DEF Back
    <3>2. CASE ~(r <= left)
      <4>1. first = LastOf(M, left)
        BY <3>2 DEF Back
      <4>2. M \in SUBSET (left + 1 .. r)
        BY DEF Matching
      <4>3. left + 1 \in Int /\ left \in Int /\ r \in Int
        OBVIOUS
      <4> HIDE DEF M
      <4>4. /\ M = {} => first = left
            /\ M # {} => first \in M /\ \A y \in M : first >= y
        BY <4>1, <4>2, <4>3, LastIn
      <4>5. CASE M = {}
        BY <1>3, <1>5, <2>1, <2>3, <4>4, <4>5
      <4>6. CASE M # {}
        <5>1. first \in S /\ left < first /\ first <= r
          BY <2>3, <4>4, <4>6
        <5>2. ASSUME NEW k \in B PROVE first >= k
          <6>1. k \in Int /\ first \in Int /\ k <= r /\ k \in S
            BY <1>3, <1>5, <5>1
          <6>2. CASE k \in M
            BY <4>4, <4>6, <6>2
          <6>3. CASE ~(k \in M)
            BY <2>3, <5>1, <6>1, <6>3
          <6> QED BY <6>2, <6>3
        <5> QED BY <1>5, <5>1, <5>2
      <4> QED BY <4>5, <4>6
    <3> QED BY <3>1, <3>2
  <2>5. Max(B) = first
    BY <1>5, <2>4, ThisExtreme
  <2> QED BY <1>6, <1>8, <1>10, <2>5, Zenon DEF Found, A, B
<1> QED BY <1>9, <1>10

(* Where the loop ends, the region that stab_binsearch leaves is the one   *)
(* that was searched for.                                                  *)
LEMMA EndRight ==
  ASSUME NEW lo \in Int, NEW hi \in Int, lo <= hi + 1, NEW stabs, NEW type, NEW S, NEW v,
         NEW a0 \in Nat, Ordered(stabs, type, lo, hi, S, v),
         NEW s, SearchInv(S, v, lo, hi, a0, s), ~(s.l <= s.r)
  PROVE  Found(S, v, hi, a0, binsearch_region(stabs, type, s).left,
               binsearch_region(stabs, type, s).right)
<1>1. s \in SearchState
  BY Zenon DEF SearchInv
<1>2. PICK l, r, left, right \in Int :
        l = s.l /\ r = s.r /\ left = s.left /\ right = s.right
  BY <1>1 DEF SearchState
<1>3. /\ RangePart(lo, hi, l, r, right) /\ BelowPart(S, v, a0, l) /\ AbovePart(S, v, a0, r)
      /\ NextPart(S, hi, r) /\ LeftPart(S, v, lo, a0, l, left)
      /\ (s.any /\ S # {}) \/ (~s.any /\ NonePart(S, lo, hi, l, r, left))
  BY <1>2, Zenon DEF SearchInv
<1>4. ~(l <= r) /\ right = r
  BY <1>2, <1>3 DEF RangePart
<1>5. v \in [lo .. hi -> Nat] /\ S \in SUBSET (lo .. hi)
  BY DEF Ordered, Matching
<1> DEFINE g == binsearch_region(stabs, type, s)
<1>6. CASE ~s.any
  <2>1. g = [left |-> left, right |-> left - 1]
    BY <1>2, <1>6 DEF binsearch_region
  <2>2. g.left = left /\ g.right = left - 1
    BY <2>1
  <2>3. NonePart(S, lo, hi, l, r, left)
    BY <1>3, <1>6
  <2>4. Found(S, v, hi, a0, left, left - 1)
    BY <1>4, <1>5, <2>3, EndNone
  <2> QED BY <2>2, <2>4, Zenon
<1>7. CASE s.any /\ S # {}
  <2>1. g = [left |-> IF r <= left THEN r
                      ELSE LastOf(Matching(stabs, type, left + 1, r), left),
             right |-> r]
    BY <1>2, <1>4, <1>7, Zenon DEF binsearch_region
  <2>2. PICK first : Back(stabs, type, left, r, first)
    BY Zenon DEF Back
  <2>3. g = [left |-> first, right |-> r]
    BY <2>1, <2>2, Zenon DEF Back
  <2>4. g.left = first /\ g.right = r
    BY <2>3
  <2>5. Found(S, v, hi, a0, first, r)
    BY <1>3, <1>4, <1>7, <2>2, EndSome
  <2> QED BY <2>4, <2>5, Zenon
<1> QED BY <1>3, <1>6, <1>7

(* The loop starts in the invariant.                                       *)
LEMMA StartKeeps ==
  ASSUME NEW lo \in Int, NEW hi \in Int, lo <= hi + 1, NEW S, S \in SUBSET (lo .. hi), NEW v,
         NEW a0 \in Nat
  PROVE  SearchInv(S, v, lo, hi, a0, Start(lo, hi, a0))
<1> DEFINE s == Start(lo, hi, a0)
<1>1. /\ s \in SearchState
      /\ s.l = lo /\ s.r = hi /\ s.left = lo /\ s.right = hi /\ s.addr = a0 /\ ~s.any
  BY DEF Start, SearchState
<1>2. \A k \in S : k >= lo /\ ~(k < lo) /\ ~(k > hi)
  OBVIOUS
<1> HIDE DEF s
<1>3. RangePart(lo, hi, lo, hi, hi)
  BY DEF RangePart
<1>4. BelowPart(S, v, a0, lo) /\ AbovePart(S, v, a0, hi)
  BY <1>2 DEF BelowPart, AbovePart
<1>5. /\ AddrPart(S, v, a0, a0) /\ NextPart(S, hi, hi) /\ LeftPart(S, v, lo, a0, lo, lo)
      /\ NonePart(S, lo, hi, lo, hi, lo)
  BY <1>2, Zenon DEF AddrPart, NextPart, LeftPart, NonePart
<1>6. SearchInv(S, v, lo, hi, a0, s)
  BY <1>1, <1>3, <1>4, <1>5, Zenon DEF SearchInv
<1> QED BY <1>6 DEF s

(* From every state in the invariant the loop comes to the region that is  *)
(* searched for: there is no least one from which it does not.             *)
LEMMA LoopRight ==
  ASSUME NEW lo \in Int, NEW hi \in Int, lo <= hi + 1, NEW stabs, NEW type, NEW S, NEW v,
         NEW a0 \in Nat, Ordered(stabs, type, lo, hi, S, v), Apart(S, v, a0),
         NEW s0, SearchInv(S, v, lo, hi, a0, s0)
  PROVE  Found(S, v, hi, a0, Loop(stabs, type)[s0].left, Loop(stabs, type)[s0].right)
<1> DEFINE Good(s) == Found(S, v, hi, a0, Loop(stabs, type)[s].left, Loop(stabs, type)[s].right)
           Bad == {s \in SearchState : SearchInv(S, v, lo, hi, a0, s) /\ ~Good(s)}
           T == {Variant(a0, s) : s \in Bad}
<1>1. ASSUME NEW s \in SearchState
      PROVE  Loop(stabs, type)[s] = IF s.l <= s.r
                                    THEN Loop(stabs, type)[binsearch_round(stabs, type, s)]
                                    ELSE binsearch_region(stabs, type, s)
  <2>1. LoopFrom(stabs, type, Loop(stabs, type))[s] =
          IF s.l <= s.r THEN Loop(stabs, type)[binsearch_round(stabs, type, s)]
          ELSE binsearch_region(stabs, type, s)
    BY Zenon DEF LoopFrom
  <2> QED BY <2>1, LoopExists, Zenon
<1>2. ASSUME NEW s \in SearchState PROVE Variant(a0, s) \in Nat
  BY DEF Variant, SearchState
<1>3. ASSUME NEW s \in Bad PROVE \E t \in Bad : Variant(a0, t) < Variant(a0, s)
  <2>1. s \in SearchState /\ SearchInv(S, v, lo, hi, a0, s) /\ ~Good(s)
    OBVIOUS
  <2>2. s.l <= s.r
    <3>1. SUFFICES ASSUME ~(s.l <= s.r) PROVE Good(s)
      BY <2>1
    <3>2. Loop(stabs, type)[s] = binsearch_region(stabs, type, s)
      BY <1>1, <2>1, <3>1, Zenon
    <3>3. Found(S, v, hi, a0, binsearch_region(stabs, type, s).left,
                binsearch_region(stabs, type, s).right)
      BY <2>1, <3>1, EndRight, Zenon
    <3> QED BY <3>2, <3>3, Zenon
  <2> DEFINE t == binsearch_round(stabs, type, s)
  <2>3. SearchInv(S, v, lo, hi, a0, t) /\ Variant(a0, t) < Variant(a0, s)
    BY <2>1, <2>2, RoundKeeps, Zenon
  <2>4. t \in SearchState
    BY <2>1, RoundType
  <2>5. Loop(stabs, type)[s] = Loop(stabs, type)[t]
    BY <1>1, <2>1, <2>2, Zenon
  <2>6. ~Good(t)
    BY <2>1, <2>5, Zenon
  <2> HIDE DEF t
  <2> QED BY <2>3, <2>4, <2>6, Zenon
<1>4. SUFFICES ASSUME ~Good(s0) PROVE FALSE
  OBVIOUS
<1>5. s0 \in Bad
  <2>1. s0 \in SearchState
    BY Zenon DEF SearchInv
  <2> QED BY <1>4, <2>1, Zenon
<1>6. Bad \subseteq SearchState
  BY Zenon
<1> HIDE DEF Bad, Good
<1>7. T \in SUBSET Nat /\ T # {}
  BY <1>2, <1>5, <1>6
<1>8. PICK x \in T : \A y \in T : x <= y
  <2> HIDE DEF T
  <2> QED BY <1>7, Least
<1>9. PICK s \in Bad : x = Variant(a0, s)
  OBVIOUS
<1>10. PICK t \in Bad : Variant(a0, t) < Variant(a0, s)
  BY <1>3
<1>11. PICK n, k \in Nat : n = Variant(a0, t) /\ k = Variant(a0, s) /\ n < k /\ k <= n
  <2>1. Variant(a0, t) \in T
    OBVIOUS
  <2>2. Variant(a0, s) <= Variant(a0, t)
    BY <1>8, <1>9, <2>1, Zenon
  <2>3. Variant(a0, s) \in Nat /\ Variant(a0, t) \in Nat
    BY <1>2, <1>6
  <2> QED BY <1>10, <2>2, <2>3, Zenon
<1> QED BY <1>11

-----------------------------------------------------------------------------
(* SearchCorrect: for every table of stabs, stab_binsearch finds the last  *)
(* stab of a type that does not lie behind an address, and the end of its  *)
(* region, as the comment above it in kern/kdebug.c says, provided that    *)
(* the stabs of that type are in order.  Left out are the two cases in     *)
(* which it does not, see SearchContract: an address before all of them,   *)
(* and one that is that of a match with the next match 1 behind it.        *)
THEOREM SearchCorrect ==
  ASSUME NEW lo \in Nat, NEW hi \in Int, lo <= hi + 1, NEW stabs, NEW type, NEW addr \in Nat,
         \A k \in lo .. hi : stabs[k].value \in Nat,
         InOrder(stabs, type, lo .. hi)
  PROVE  SearchedRight(stabs, lo, hi, type, addr)
<1> DEFINE S == Matching(stabs, type, lo, hi)
           v == [k \in lo .. hi |-> stabs[k].value]
           r == stab_binsearch(stabs, lo, hi, type, addr)
<1>1. S \in SUBSET (lo .. hi)
  BY DEF Matching
<1>2. \A k \in S : v[k] = stabs[k].value /\ v[k] \in Nat
  BY <1>1
<1>3. Ordered(stabs, type, lo, hi, S, v)
  <2>1. v \in [lo .. hi -> Nat] /\ \A k \in lo .. hi : stabs[k].value = v[k]
    OBVIOUS
  <2>2. \A k \in S : stabs[k].type = type
    BY DEF Matching
  <2> HIDE DEF v
  <2>3. ASSUME NEW j \in S, NEW k \in S, j < k PROVE v[j] <= v[k]
    BY <1>1, <1>2, <2>2, <2>3, Zenon DEF InOrder
  <2> QED BY <2>1, <2>3, Zenon DEF Ordered
<1> HIDE DEF v
<1>4. BeforeAll(stabs, S, addr) <=> S # {} /\ \A k \in S : v[k] > addr
  BY <1>2, Zenon DEF BeforeAll
<1>5. Apart(S, v, addr) <=> ~NextToMatch(stabs, S, addr)
  BY <1>2, Zenon DEF Apart, NextToMatch
<1>6. /\ {k \in S : stabs[k].value <= addr} = Below(S, v, addr)
      /\ {k \in S : stabs[k].value > addr} = Above(S, v, addr)
  BY <1>2 DEF Below, Above
<1>7. ASSUME Apart(S, v, addr) PROVE Found(S, v, hi, addr, r.left, r.right)
  <2>1. SearchInv(S, v, lo, hi, addr, Start(lo, hi, addr))
    <3>1. lo \in Int
      OBVIOUS
    <3> HIDE DEF S
    <3> QED BY <1>1, <3>1, StartKeeps
  <2> DEFINE g == Loop(stabs, type)[Start(lo, hi, addr)]
  <2>2. Found(S, v, hi, addr, g.left, g.right)
    <3> HIDE DEF S
    <3> QED BY <1>3, <1>7, <2>1, LoopRight
  <2>3. r = g
    BY BinsearchIsLoop, Zenon
  <2> QED BY <2>2, <2>3, Zenon
<1> HIDE DEF S, r
<1>8. SUFFICES ASSUME ~BeforeAll(stabs, S, addr), ~NextToMatch(stabs, S, addr)
               PROVE  Contract(stabs, lo, hi, type, addr)
  BY Zenon DEF SearchedRight, S
<1>9. Found(S, v, hi, addr, r.left, r.right)
  BY <1>5, <1>7, <1>8
<1>10. CASE S = {}
  <2>1. r.left > r.right
    BY <1>9, <1>10, Zenon DEF Found
  <2>2. Below(S, v, addr) = {}
    BY <1>10 DEF Below
  <2> QED BY <1>6, <2>1, <2>2, Zenon DEF Contract, S, r
<1>11. CASE ~(\A k \in S : v[k] > addr)
  <2>1. /\ r.left = Max(Below(S, v, addr))
        /\ r.right = IF Above(S, v, addr) = {} THEN hi ELSE Min(Above(S, v, addr)) - 1
    BY <1>9, <1>11, Zenon DEF Found
  <2>2. Below(S, v, addr) # {}
    <3>1. PICK k \in S : ~(v[k] > addr)
      BY <1>11
    <3>2. v[k] <= addr
      BY <1>2, <3>1
    <3> QED BY <3>2 DEF Below
  <2> QED BY <1>6, <2>1, <2>2, Zenon DEF Contract, S, r
<1> QED BY <1>4, <1>8, <1>10, <1>11

(* SearchesRight: SearchRight, as the run checks it, for any set of tables *)
(* of stabs whose entries of each searched type are in order of address.   *)
THEOREM SearchesRight == MonitorSpec => []SearchRight
<1>1. SearchRight
  <2>1. ASSUME NEW stabs \in Tables, NEW n, n = Cardinality(DOMAIN stabs) - 1,
               NEW lo \in 0 .. n, NEW type \in {"SO", "FUN"}, NEW addr \in 1 .. 8
        PROVE  SearchedRight(stabs, lo, n, type, addr)
    <3>1. /\ IsFiniteSet(DOMAIN stabs) /\ DOMAIN stabs = 0 .. n
          /\ \A k \in DOMAIN stabs : stabs[k].value \in Nat
          /\ InOrder(stabs, type, DOMAIN stabs)
      BY <2>1, TablesAssumption, Zenon
    <3>2. Cardinality(DOMAIN stabs) \in Nat
      BY <3>1, FS_CardinalityType
    <3>3. n \in Int
      BY <2>1, <3>2
    <3>4. lo \in Nat /\ lo <= n + 1 /\ addr \in Nat /\ lo .. n \subseteq 0 .. n
      BY <3>3
    <3>5. \A k \in lo .. n : stabs[k].value \in Nat
      BY <3>1, <3>4, Zenon
    <3>6. InOrder(stabs, type, lo .. n)
      BY <3>1, <3>4, Zenon DEF InOrder
    <3> QED BY <3>3, <3>4, <3>5, <3>6, SearchCorrect
  <2> QED BY <2>1, Zenon DEF SearchRight, Everywhere
<1> QED BY <1>1, PTL

-----------------------------------------------------------------------------
(* rep movsb of lib/string.c.  Its loop, as a function of the number of    *)
(* characters that are copied, and what has changed after k of them.       *)
At(n, up, k) == IF up THEN k ELSE n - 1 - k
Moving(m, d, s, n, up, g) ==
  [k \in 0 .. n |->
     IF k = 0 THEN m
     ELSE [g[k - 1] EXCEPT ![d + At(n, up, k - 1)] = g[k - 1][s + At(n, up, k - 1)]]]
IsMoving(m, d, s, n, up, g) == g = Moving(m, d, s, n, up, g)
Done(d, n, up, k, a) == IF up THEN a \in d .. d + k - 1 ELSE a \in d + n - k .. d + n - 1
Copied(m, d, s, n, up, k) ==
  [a \in DOMAIN m |-> IF Done(d, n, up, k, a) THEN m[a - d + s] ELSE m[a]]

(* The source and the destination are in memory.                           *)
Within(A, d, s, n) == d .. d + n - 1 \subseteq A /\ s .. s + n - 1 \subseteq A

(* The direction is right: nothing is overwritten before it is copied.     *)
Safe(d, s, n, up) == IF up THEN ~(s < d /\ s + n > d) ELSE s < d

(* A move in the memory m.                                                 *)
Movable(A, V, m, d, s, n, up) ==
  /\ A \in SUBSET Int /\ m \in [A -> V] /\ d \in Int /\ s \in Int /\ n \in Nat
  /\ up \in BOOLEAN /\ Safe(d, s, n, up) /\ Within(A, d, s, n)

(* rep_movs runs that loop.                                                *)
LEMMA RepIsMoving ==
  ASSUME NEW m, NEW d, NEW s, NEW n, NEW up
  PROVE  rep_movs(m, d, s, n, up) = (CHOOSE g : g = Moving(m, d, s, n, up, g))[n]
BY Zenon DEF rep_movs, Moving, At

(* The character that is copied next was not overwritten.                  *)
LEMMA NextCopied ==
  ASSUME NEW d \in Int, NEW s \in Int, NEW n \in Nat, NEW up \in BOOLEAN, Safe(d, s, n, up),
         NEW k \in 1 .. n, NEW x, x = At(n, up, k - 1)
  PROVE  /\ x \in Int /\ x \in 0 .. n - 1 /\ ~Done(d, n, up, k - 1, s + x)
         /\ \A a \in Int : Done(d, n, up, k, a) <=> Done(d, n, up, k - 1, a) \/ a = d + x
<1>1. CASE up
  <2>1. x = k - 1 /\ ~(s < d /\ s + n > d)
    BY <1>1 DEF At, Safe
  <2>2. \A j, a : Done(d, n, up, j, a) <=> a \in d .. d + j - 1
    BY <1>1 DEF Done
  <2>3. ~Done(d, n, up, k - 1, s + x)
    BY <2>1, <2>2
  <2>4. \A a \in Int : Done(d, n, up, k, a) <=> Done(d, n, up, k - 1, a) \/ a = d + x
    BY <2>1, <2>2
  <2> QED BY <2>1, <2>3, <2>4
<1>2. CASE ~up
  <2>1. x = n - k /\ s < d
    BY <1>2 DEF At, Safe
  <2>2. \A j, a : Done(d, n, up, j, a) <=> a \in d + n - j .. d + n - 1
    BY <1>2 DEF Done
  <2>3. ~Done(d, n, up, k - 1, s + x)
    BY <2>1, <2>2
  <2>4. \A a \in Int : Done(d, n, up, k, a) <=> Done(d, n, up, k - 1, a) \/ a = d + x
    BY <2>1, <2>2
  <2> QED BY <2>1, <2>3, <2>4
<1> QED BY <1>1, <1>2

(* One round of the loop.                                                  *)
LEMMA RoundCopied ==
  ASSUME NEW A, NEW V, NEW m, NEW d, NEW s, NEW n, NEW up, Movable(A, V, m, d, s, n, up),
         NEW k \in 1 .. n, NEW x, x = At(n, up, k - 1)
  PROVE  [Copied(m, d, s, n, up, k - 1) EXCEPT ![d + x] = Copied(m, d, s, n, up, k - 1)[s + x]]
           = Copied(m, d, s, n, up, k)
<1>0. /\ A \in SUBSET Int /\ m \in [A -> V] /\ d \in Int /\ s \in Int /\ n \in Nat
      /\ up \in BOOLEAN /\ Safe(d, s, n, up) /\ Within(A, d, s, n)
  BY Zenon DEF Movable
<1>1. /\ x \in Int /\ x \in 0 .. n - 1 /\ ~Done(d, n, up, k - 1, s + x)
      /\ \A a \in Int : Done(d, n, up, k, a) <=> Done(d, n, up, k - 1, a) \/ a = d + x
  BY <1>0, NextCopied
<1>2. d + x \in A /\ s + x \in A
  BY <1>0, <1>1 DEF Within
<1> DEFINE p == Copied(m, d, s, n, up, k - 1)
           q == Copied(m, d, s, n, up, k)
<1>3. /\ p = [a \in A |-> IF Done(d, n, up, k - 1, a) THEN m[a - d + s] ELSE m[a]]
      /\ q = [a \in A |-> IF Done(d, n, up, k, a) THEN m[a - d + s] ELSE m[a]]
  BY <1>0 DEF Copied
<1>4. p[s + x] = m[s + x]
  BY <1>0, <1>1, <1>2, <1>3
<1> HIDE DEF p, q
<1>5. ASSUME NEW a \in A PROVE [p EXCEPT ![d + x] = m[s + x]][a] = q[a]
  <2>1. CASE a = d + x
    <3>1. a - d + s = s + x
      BY <1>0, <1>1, <2>1
    <3>2. q[a] = m[s + x]
      BY <1>0, <1>1, <1>3, <2>1, <3>1
    <3>3. a \in DOMAIN p
      BY <1>0, <1>3
    <3> QED BY <1>0, <2>1, <3>2, <3>3
  <2>2. CASE a # d + x
    <3>1. q[a] = p[a]
      BY <1>0, <1>1, <1>3, <2>2
    <3> QED BY <1>0, <1>3, <2>2, <3>1
  <2> QED BY <1>0, <2>1, <2>2
<1>6. [p EXCEPT ![d + x] = m[s + x]] = q
  BY <1>0, <1>3, <1>5
<1> QED BY <1>0, <1>4, <1>6, Zenon DEF p, q

(* The loop of rep_movs copies what it should,                             *)
LEMMA MovingCopies ==
  ASSUME NEW A, NEW V, NEW m, NEW d, NEW s, NEW n, NEW up, Movable(A, V, m, d, s, n, up),
         NEW g, IsMoving(m, d, s, n, up, g)
  PROVE  \A k \in 0 .. n : g[k] = Copied(m, d, s, n, up, k)
<1>0. /\ A \in SUBSET Int /\ m \in [A -> V] /\ d \in Int /\ s \in Int /\ n \in Nat
      /\ up \in BOOLEAN /\ Safe(d, s, n, up) /\ Within(A, d, s, n)
  BY Zenon DEF Movable
<1> DEFINE Bad == {k \in 0 .. n : g[k] # Copied(m, d, s, n, up, k)}
<1>1. g[0] = Copied(m, d, s, n, up, 0)
  <2>1. g[0] = m
    BY <1>0 DEF Moving, IsMoving
  <2>2. \A a \in A : ~Done(d, n, up, 0, a)
    BY <1>0 DEF Done
  <2>3. Copied(m, d, s, n, up, 0) = [a \in A |-> m[a]]
    BY <1>0, <2>2 DEF Copied
  <2> QED BY <1>0, <2>1, <2>3
<1>2. ASSUME NEW k \in 1 .. n, g[k - 1] = Copied(m, d, s, n, up, k - 1)
      PROVE  g[k] = Copied(m, d, s, n, up, k)
  <2>1. PICK x : x = At(n, up, k - 1)
    BY <1>0
  <2>2. k \in 0 .. n /\ k # 0
    BY <1>0
  <2>3. Moving(m, d, s, n, up, g)[k] = [g[k - 1] EXCEPT ![d + x] = g[k - 1][s + x]]
    BY <1>0, <2>1, <2>2, Zenon DEF Moving
  <2>4. g[k] = [g[k - 1] EXCEPT ![d + x] = g[k - 1][s + x]]
    BY <1>0, <2>3, Zenon DEF IsMoving
  <2>5. [Copied(m, d, s, n, up, k - 1) EXCEPT ![d + x] = Copied(m, d, s, n, up, k - 1)[s + x]]
          = Copied(m, d, s, n, up, k)
    <3> HIDE DEF Bad
    <3> QED BY <2>1, RoundCopied
  <2> QED BY <1>0, <1>2, <2>4, <2>5, Zenon
<1>3. SUFFICES ASSUME Bad # {} PROVE FALSE
  BY <1>0, Zenon
<1>4. Bad \in SUBSET Nat
  BY <1>0
<1>5. PICK k \in Bad : \A j \in Bad : k <= j
  <2> HIDE DEF Bad
  <2> QED BY <1>0, <1>3, <1>4, Least
<1>6. k \in 0 .. n /\ g[k] # Copied(m, d, s, n, up, k)
  BY <1>0, Zenon
<1>7. k # 0
  BY <1>0, <1>1, <1>6
<1>8. k \in 1 .. n /\ k - 1 \in 0 .. n /\ ~(k <= k - 1)
  BY <1>0, <1>6, <1>7
<1>9. g[k - 1] = Copied(m, d, s, n, up, k - 1)
  BY <1>0, <1>5, <1>8, Zenon
<1> QED BY <1>0, <1>2, <1>6, <1>8, <1>9, Zenon

(* and there is such a loop.                                               *)
LEMMA MovingExists ==
  ASSUME NEW A, NEW V, NEW m, NEW d, NEW s, NEW n, NEW up, Movable(A, V, m, d, s, n, up)
  PROVE  \E g : g = Moving(m, d, s, n, up, g)
<1>0. /\ A \in SUBSET Int /\ m \in [A -> V] /\ d \in Int /\ s \in Int /\ n \in Nat
      /\ up \in BOOLEAN /\ Safe(d, s, n, up) /\ Within(A, d, s, n)
  BY Zenon DEF Movable
<1> DEFINE h == [k \in 0 .. n |-> Copied(m, d, s, n, up, k)]
<1>1. Copied(m, d, s, n, up, 0) = m
  <2>1. \A a \in A : ~Done(d, n, up, 0, a)
    BY <1>0 DEF Done
  <2>2. Copied(m, d, s, n, up, 0) = [a \in A |-> m[a]]
    BY <1>0, <2>1 DEF Copied
  <2> QED BY <1>0, <2>2
<1>2. ASSUME NEW k \in 0 .. n
      PROVE  h[k] = IF k = 0 THEN m
                    ELSE [h[k - 1] EXCEPT ![d + At(n, up, k - 1)] = h[k - 1][s + At(n, up, k - 1)]]
  <2>1. CASE k = 0
    BY <1>0, <1>1, <2>1
  <2>2. CASE k # 0
    <3>1. k \in 1 .. n /\ k - 1 \in 0 .. n
      BY <1>0, <2>2
    <3>2. h[k] = Copied(m, d, s, n, up, k) /\ h[k - 1] = Copied(m, d, s, n, up, k - 1)
      BY <1>0, <3>1, Zenon
    <3>3. PICK x : x = At(n, up, k - 1)
      BY <1>0
    <3> HIDE DEF h
    <3>4. [Copied(m, d, s, n, up, k - 1) EXCEPT ![d + x] = Copied(m, d, s, n, up, k - 1)[s + x]]
            = Copied(m, d, s, n, up, k)
      BY <3>1, <3>3, RoundCopied
    <3> QED BY <1>0, <2>2, <3>2, <3>3, <3>4, Zenon
  <2> QED BY <1>0, <2>1, <2>2
<1>3. h = [k \in 0 .. n |-> h[k]]
  BY <1>0
<1> HIDE DEF h
<1>4. h = Moving(m, d, s, n, up, h)
  BY <1>0, <1>2, <1>3, Zenon DEF Moving
<1> QED BY <1>0, <1>4

(* The memory m with n characters moved from s to d, within it.            *)
Area(A, V, m, d, s, n) ==
  /\ A \in SUBSET Int /\ m \in [A -> V] /\ d \in Int /\ s \in Int /\ n \in Nat
  /\ Within(A, d, s, n)
MovedTo(A, m, d, s, n) == [a \in A |-> IF a \in d .. d + n - 1 THEN m[a - d + s] ELSE m[a]]

(* What rep movsb leaves, in the right direction.                          *)
LEMMA RepMoves ==
  ASSUME NEW A, NEW V, NEW m, NEW d, NEW s, NEW n, NEW up, Movable(A, V, m, d, s, n, up)
  PROVE  rep_movs(m, d, s, n, up) = MovedTo(A, m, d, s, n)
<1>0. /\ A \in SUBSET Int /\ m \in [A -> V] /\ d \in Int /\ s \in Int /\ n \in Nat
      /\ up \in BOOLEAN /\ Within(A, d, s, n)
  BY Zenon DEF Movable
<1> DEFINE g == CHOOSE f : f = Moving(m, d, s, n, up, f)
<1>3. g = Moving(m, d, s, n, up, g)
  <2>1. \E f : f = Moving(m, d, s, n, up, f)
    BY MovingExists
  <2> QED BY <2>1, Zenon
<1>4. rep_movs(m, d, s, n, up) = g[n]
  BY RepIsMoving, Zenon
<1> HIDE DEF g
<1>5. g[n] = Copied(m, d, s, n, up, n)
  <2>1. n \in 0 .. n
    BY <1>0
  <2>2. \A k \in 0 .. n : g[k] = Copied(m, d, s, n, up, k)
    <3>1. IsMoving(m, d, s, n, up, g)
      BY <1>3, Zenon DEF IsMoving
    <3> QED BY <3>1, MovingCopies
  <2> QED BY <2>1, <2>2
<1>6. \A a \in A : Done(d, n, up, n, a) <=> a \in d .. d + n - 1
  BY <1>0 DEF Done
<1>7. Copied(m, d, s, n, up, n)
        = [a \in A |-> IF a \in d .. d + n - 1 THEN m[a - d + s] ELSE m[a]]
  BY <1>0, <1>6 DEF Copied
<1> QED BY <1>4, <1>5, <1>7, Zenon DEF MovedTo

(* What memmove leaves.                                                    *)
LEMMA MemmoveMoves ==
  ASSUME NEW A, NEW V, NEW m, NEW d, NEW s, NEW n, Area(A, V, m, d, s, n)
  PROVE  memmove(m, d, s, n) = MovedTo(A, m, d, s, n)
<1>0. /\ A \in SUBSET Int /\ m \in [A -> V] /\ d \in Int /\ s \in Int /\ n \in Nat
      /\ Within(A, d, s, n)
  BY Zenon DEF Area
<1>1. PICK up \in BOOLEAN : up = ~(s < d /\ s + n > d)
  BY <1>0
<1>2. Movable(A, V, m, d, s, n, up)
  BY <1>0, <1>1 DEF Movable, Safe
<1>3. rep_movs(m, d, s, n, up) = MovedTo(A, m, d, s, n)
  BY <1>2, RepMoves
<1> QED BY <1>1, <1>3, Zenon DEF memmove

(* MemmoveExact: memmove (lib/string.c) leaves at the destination what the *)
(* source held before the call, however the two overlap, and changes       *)
(* nothing else, in every memory.                                          *)
THEOREM MemmoveExact ==
  ASSUME NEW A \in SUBSET Int, NEW V, NEW m \in [A -> V],
         NEW d \in Int, NEW s \in Int, NEW n \in Nat,
         Within(A, d, s, n)
  PROVE  memmove(m, d, s, n) =
           [a \in A |-> IF a \in d .. d + n - 1 THEN m[a - d + s] ELSE m[a]]
<1>1. Area(A, V, m, d, s, n)
  BY DEF Area
<1>2. memmove(m, d, s, n) = MovedTo(A, m, d, s, n)
  BY <1>1, MemmoveMoves
<1> QED BY <1>2 DEF MovedTo

-----------------------------------------------------------------------------
(* The loops of lib/string.c that look for an address, as a function of    *)
(* where they start, and where such a loop may end.                        *)
ScanFrom(Goes, g) == [a \in Nat |-> IF a \in Goes THEN g[a + 1] ELSE a]
Stops(Goes, a) == {b \in Nat : a <= b /\ b \notin Goes /\ a .. b - 1 \subseteq Goes}

(* There is such a function.                                               *)
LEMMA ScanExists ==
  ASSUME NEW Goes
  PROVE  \E g : g = ScanFrom(Goes, g)
<1> DEFINE stop(a) == CHOOSE b : b \in Stops(Goes, a)
           h == [a \in Nat |-> stop(a)]
<1>1. ASSUME NEW a \in Nat, a \in Goes PROVE stop(a) = stop(a + 1)
  <2>1. ASSUME NEW b \in Nat PROVE b \in Stops(Goes, a) <=> b \in Stops(Goes, a + 1)
    <3>1. ASSUME b \in Stops(Goes, a) PROVE b \in Stops(Goes, a + 1)
      <4>1. a <= b /\ b \notin Goes /\ a .. b - 1 \subseteq Goes
        BY <3>1 DEF Stops
      <4>2. a + 1 <= b /\ a + 1 .. b - 1 \subseteq Goes
        BY <1>1, <4>1
      <4> QED BY <4>1, <4>2 DEF Stops
    <3>2. ASSUME b \in Stops(Goes, a + 1) PROVE b \in Stops(Goes, a)
      <4>1. a + 1 <= b /\ b \notin Goes /\ a + 1 .. b - 1 \subseteq Goes
        BY <3>2 DEF Stops
      <4>2. a <= b /\ a .. b - 1 \subseteq Goes
        BY <1>1, <4>1
      <4> QED BY <4>1, <4>2 DEF Stops
    <3> QED BY <3>1, <3>2
  <2>2. Stops(Goes, a) \subseteq Nat /\ Stops(Goes, a + 1) \subseteq Nat
    BY Zenon DEF Stops
  <2>3. Stops(Goes, a) = Stops(Goes, a + 1)
    BY <2>1, <2>2, Zenon
  <2> QED BY <2>3, Zenon
<1>2. ASSUME NEW a \in Nat, a \notin Goes PROVE stop(a) = a
  <2>1. Stops(Goes, a) = {a}
    <3>1. a \in Stops(Goes, a)
      BY <1>2 DEF Stops
    <3>2. ASSUME NEW b \in Stops(Goes, a) PROVE b = a
      <4>1. b \in Nat /\ a <= b /\ a .. b - 1 \subseteq Goes
        BY DEF Stops
      <4> QED BY <1>2, <4>1
    <3> QED BY <3>1, <3>2
  <2> QED BY <2>1
<1>3. ASSUME NEW a \in Nat PROVE h[a] = IF a \in Goes THEN h[a + 1] ELSE a
  <2>1. a + 1 \in Nat
    OBVIOUS
  <2>2. h[a] = stop(a) /\ h[a + 1] = stop(a + 1)
    BY <2>1, Zenon
  <2> HIDE DEF stop, h
  <2> QED BY <1>1, <1>2, <2>2, Zenon
<1>4. h = [a \in Nat |-> h[a]]
  <2> HIDE DEF stop
  <2> QED OBVIOUS
<1> HIDE DEF h
<1>5. h = ScanFrom(Goes, h)
  BY <1>3, <1>4, Zenon DEF ScanFrom
<1> QED BY <1>5

(* A loop ends at the first address where its test is false.               *)
LEMMA ScanEnds ==
  ASSUME NEW Goes, NEW s \in Nat, NEW e \in Stops(Goes, s)
  PROVE  Scan(s, Goes) = e
<1> DEFINE g == CHOOSE f : f = ScanFrom(Goes, f)
<1>1. g = ScanFrom(Goes, g)
  BY ScanExists, Zenon
<1>2. Scan(s, Goes) = g[s]
  BY Zenon DEF Scan, ScanFrom
<1> HIDE DEF g
<1>3. ASSUME NEW a \in Nat PROVE g[a] = IF a \in Goes THEN g[a + 1] ELSE a
  <2>1. ScanFrom(Goes, g)[a] = IF a \in Goes THEN g[a + 1] ELSE a
    BY Zenon DEF ScanFrom
  <2> QED BY <1>1, <2>1, Zenon
<1>4. e \in Nat /\ s <= e /\ e \notin Goes /\ s .. e - 1 \subseteq Goes
  BY DEF Stops
<1> DEFINE Bad == {k \in 0 .. e - s : g[e - k] # e}
<1>5. SUFFICES ASSUME g[s] # e PROVE FALSE
  BY <1>2
<1>6. e - s \in Bad
  BY <1>4, <1>5
<1>7. Bad \in SUBSET Nat
  BY <1>4
<1>8. PICK k \in Bad : \A j \in Bad : k <= j
  <2> HIDE DEF Bad
  <2> QED BY <1>6, <1>7, Least
<1>9. k \in Nat /\ k <= e - s /\ g[e - k] # e
  BY <1>4
<1>10. k # 0
  BY <1>3, <1>4, <1>9
<1>11. e - k \in s .. e - 1 /\ e - k \in Nat /\ (e - k) + 1 = e - (k - 1) /\ k - 1 \in 0 .. e - s
  BY <1>4, <1>9, <1>10
<1>12. g[e - k] = g[e - (k - 1)]
  BY <1>3, <1>4, <1>11, Zenon
<1>13. k - 1 \in Bad
  BY <1>9, <1>11, <1>12, Zenon
<1> HIDE DEF Bad
<1> QED BY <1>8, <1>9, <1>13

-----------------------------------------------------------------------------
(* The characters in memory.                                               *)
Char == STRING \cup {NUL, "old"}

(* The memory m holds a string of n characters at s.                       *)
Text(A, m, s, n) ==
  /\ A \in SUBSET Int /\ m \in [A -> Char] /\ s \in Nat /\ n \in Nat
  /\ s .. s + n \subseteq A /\ m[s + n] = NUL /\ \A a \in s .. s + n - 1 : m[a] # NUL

(* The size characters at d are in memory, apart from a string of n        *)
(* characters at s.                                                        *)
Clear(A, d, s, n, size) ==
  d \in Nat /\ size \in Nat /\ d .. d + size - 1 \subseteq A /\ (s + n < d \/ d + size <= s)

Shorter(n, k) == IF n < k THEN n ELSE k

(* The memory with that string and NULs in the size characters at d, and   *)
(* with k characters of it and one NUL at d.                               *)
Filled(A, m, s, n, d, size) ==
  [a \in A |-> IF a \in d .. d + size - 1 THEN IF a - d < n THEN m[a - d + s] ELSE NUL ELSE m[a]]
Ended(A, m, s, d, k) ==
  [a \in A |-> IF a \in d .. d + k - 1 THEN m[a - d + s] ELSE IF a = d + k THEN NUL ELSE m[a]]

(* strlen and strnlen.                                                     *)
LEMMA Lengths ==
  ASSUME NEW A, NEW m, NEW s, NEW n, Text(A, m, s, n)
  PROVE  strlen(m, s) = n /\ \A size \in Nat : strnlen(m, s, size) = Shorter(n, size)
<1>0. /\ A \in SUBSET Int /\ m \in [A -> Char] /\ s \in Nat /\ n \in Nat
      /\ s .. s + n \subseteq A /\ m[s + n] = NUL /\ \A a \in s .. s + n - 1 : m[a] # NUL
  BY Zenon DEF Text
<1>1. strlen(m, s) = n
  <2> DEFINE Goes == {a \in Nat : m[a] # NUL}
  <2>1. s + n \in Stops(Goes, s)
    BY <1>0 DEF Stops
  <2>2. Scan(s, Goes) = s + n
    <3> HIDE DEF Goes
    <3> QED BY <1>0, <2>1, ScanEnds
  <2>3. strlen(m, s) = Scan(s, Goes) - s
    BY Zenon DEF strlen
  <2> HIDE DEF Goes
  <2> QED BY <1>0, <2>2, <2>3
<1>2. ASSUME NEW size \in Nat PROVE strnlen(m, s, size) = Shorter(n, size)
  <2> DEFINE Goes == {a \in Nat : (size < 0 \/ a - s < size) /\ m[a] # NUL}
  <2>1. PICK k \in Nat : k = Shorter(n, size)
    BY <1>0 DEF Shorter
  <2>2. k <= n /\ k <= size /\ (k = n \/ k = size)
    BY <1>0, <2>1 DEF Shorter
  <2>3. s + k \in Stops(Goes, s)
    <3>1. s + k \notin Goes
      BY <1>0, <2>2
    <3>2. s .. s + k - 1 \subseteq Goes
      BY <1>0, <2>2
    <3> HIDE DEF Goes
    <3> QED BY <1>0, <3>1, <3>2 DEF Stops
  <2>4. Scan(s, Goes) = s + k
    <3> HIDE DEF Goes
    <3> QED BY <1>0, <2>3, ScanEnds
  <2>5. strnlen(m, s, size) = Scan(s, Goes) - s
    BY Zenon DEF strnlen
  <2> HIDE DEF Goes
  <2> QED BY <1>0, <2>1, <2>4, <2>5
<1> QED BY <1>1, <1>2

(* The first k characters of a string, copied to d.                        *)
LEMMA Prefix ==
  ASSUME NEW A, NEW m, NEW s, NEW n, Text(A, m, s, n),
         NEW d, NEW size, Clear(A, d, s, n, size), NEW k \in Nat, k <= n, k <= size
  PROVE  rep_movs(m, d, s, k, TRUE) = MovedTo(A, m, d, s, k)
<1>0. /\ A \in SUBSET Int /\ m \in [A -> Char] /\ s \in Nat /\ n \in Nat
      /\ s .. s + n \subseteq A
  BY Zenon DEF Text
<1>1. d \in Nat /\ size \in Nat /\ d .. d + size - 1 \subseteq A /\ (s + n < d \/ d + size <= s)
  BY Zenon DEF Clear
<1>2. Within(A, d, s, k)
  BY <1>0, <1>1 DEF Within
<1>3. PICK up \in BOOLEAN : up = TRUE
  OBVIOUS
<1>4. Safe(d, s, k, up)
  BY <1>0, <1>1, <1>3 DEF Safe
<1>5. d \in Int /\ s \in Int
  BY <1>0, <1>1
<1>6. Movable(A, Char, m, d, s, k, up)
  BY <1>0, <1>2, <1>4, <1>5, Zenon DEF Movable
<1>7. rep_movs(m, d, s, k, up) = MovedTo(A, m, d, s, k)
  BY <1>6, RepMoves
<1> QED BY <1>3, <1>7, Zenon

(* strncpy fills all of size characters, with the string and then NULs.    *)
LEMMA StrncpyFills ==
  ASSUME NEW A, NEW m, NEW s, NEW n, Text(A, m, s, n), NEW d, NEW size, Clear(A, d, s, n, size)
  PROVE  strncpy(m, d, s, size) = Filled(A, m, s, n, d, size)
<1>0. /\ A \in SUBSET Int /\ m \in [A -> Char] /\ s \in Nat /\ n \in Nat
      /\ s .. s + n \subseteq A
  BY Zenon DEF Text
<1>1. d \in Nat /\ size \in Nat /\ d .. d + size - 1 \subseteq A /\ (s + n < d \/ d + size <= s)
  BY Zenon DEF Clear
<1>2. PICK k \in Nat : k = Shorter(n, size)
  BY <1>0, <1>1 DEF Shorter
<1>3. k <= n /\ k <= size /\ (k = n \/ k = size)
  BY <1>0, <1>1, <1>2 DEF Shorter
<1> DEFINE p == rep_movs(m, d, s, k, TRUE)
<1>4. strnlen(m, s, size) = k
  BY <1>1, <1>2, Lengths, Zenon
<1>5. strncpy(m, d, s, size) = memset(p, d + k, NUL, size - k)
  BY <1>4, Zenon DEF strncpy
<1>6. p = MovedTo(A, m, d, s, k)
  BY <1>3, Prefix, Zenon
<1> HIDE DEF p
<1>7. p = [a \in A |-> IF a \in d .. d + k - 1 THEN m[a - d + s] ELSE m[a]]
  BY <1>6 DEF MovedTo
<1>8. DOMAIN p = A
  BY <1>7
<1>9. ASSUME NEW a \in A
      PROVE  (IF a \in d + k .. (d + k) + (size - k) - 1 THEN NUL ELSE p[a])
               = IF a \in d .. d + size - 1
                 THEN IF a - d < n THEN m[a - d + s] ELSE NUL ELSE m[a]
  <2>1. p[a] = IF a \in d .. d + k - 1 THEN m[a - d + s] ELSE m[a]
    BY <1>7
  <2>2. a \in Int
    BY <1>0
  <2> QED BY <1>0, <1>1, <1>3, <2>1, <2>2
<1>10. memset(p, d + k, NUL, size - k) =
         [a \in A |-> IF a \in d + k .. (d + k) + (size - k) - 1 THEN NUL ELSE p[a]]
  BY <1>8, Zenon DEF memset
<1> QED BY <1>5, <1>9, <1>10, Zenon DEF Filled

(* strlcpy copies the string, or the beginning that fits, and ends it.     *)
LEMMA StrlcpyEnds ==
  ASSUME NEW A, NEW m, NEW s, NEW n, Text(A, m, s, n), NEW d, NEW size, Clear(A, d, s, n, size),
         size # 0, NEW k, k = Shorter(n, size - 1)
  PROVE  /\ strlcpy(m, d, s, size).n = k
         /\ strlcpy(m, d, s, size).m = Ended(A, m, s, d, k)
<1>0. /\ A \in SUBSET Int /\ m \in [A -> Char] /\ s \in Nat /\ n \in Nat
      /\ s .. s + n \subseteq A
  BY Zenon DEF Text
<1>1. d \in Nat /\ size \in Nat /\ d .. d + size - 1 \subseteq A /\ (s + n < d \/ d + size <= s)
  BY Zenon DEF Clear
<1>2. k \in Nat /\ k <= n /\ k <= size - 1 /\ size > 0 /\ size - 1 \in Nat /\ k <= size
  BY <1>0, <1>1 DEF Shorter
<1> DEFINE p == rep_movs(m, d, s, k, TRUE)
<1>3. strnlen(m, s, size - 1) = k
  BY <1>2, Lengths, Zenon
<1>4. strlcpy(m, d, s, size) = [m |-> [p EXCEPT ![d + k] = NUL], n |-> k]
  BY <1>2, <1>3, Zenon DEF strlcpy
<1>5. p = MovedTo(A, m, d, s, k)
  BY <1>2, Prefix, ZenonT(30)
<1> HIDE DEF p
<1>6. p = [a \in A |-> IF a \in d .. d + k - 1 THEN m[a - d + s] ELSE m[a]]
  BY <1>5 DEF MovedTo
<1>7. d + k \in A
  BY <1>1, <1>2
<1>8. [p EXCEPT ![d + k] = NUL] =
        [a \in A |-> IF a \in d .. d + k - 1 THEN m[a - d + s]
                     ELSE IF a = d + k THEN NUL ELSE m[a]]
  <2>1. [p EXCEPT ![d + k] = NUL] = [a \in A |-> IF a = d + k THEN NUL ELSE p[a]]
    BY <1>6, <1>7
  <2>2. ASSUME NEW a \in A
        PROVE  (IF a = d + k THEN NUL ELSE p[a]) =
                 IF a \in d .. d + k - 1 THEN m[a - d + s]
                 ELSE IF a = d + k THEN NUL ELSE m[a]
    <3>1. p[a] = IF a \in d .. d + k - 1 THEN m[a - d + s] ELSE m[a]
      BY <1>6
    <3>2. ~(d + k \in d .. d + k - 1)
      BY <1>1, <1>2
    <3> QED BY <3>1, <3>2, Zenon
  <2> QED BY <2>1, <2>2, Zenon
<1> QED BY <1>4, <1>8 DEF Ended

(* What strlcpy leaves is a string, the beginning of the source, for all   *)
(* of strlen, strncmp, memcmp and memfind.                                 *)
LEMMA Compared ==
  ASSUME NEW A, NEW m, NEW s, NEW n, Text(A, m, s, n), NEW d, NEW size, Clear(A, d, s, n, size),
         NEW k, k = Shorter(n, size - 1), size # 0, NEW q, q = Ended(A, m, s, d, k)
  PROVE  /\ strlen(q, d) = k /\ memfind(q, d, NUL, size) = d + k
         /\ strncmp_eq(q, d, s, k) /\ memcmp_eq(q, d, s, k)
<1>0. /\ A \in SUBSET Int /\ m \in [A -> Char] /\ s \in Nat /\ n \in Nat
      /\ s .. s + n \subseteq A /\ m[s + n] = NUL /\ \A a \in s .. s + n - 1 : m[a] # NUL
  BY Zenon DEF Text
<1>1. d \in Nat /\ size \in Nat /\ d .. d + size - 1 \subseteq A /\ (s + n < d \/ d + size <= s)
  BY Zenon DEF Clear
<1>2. k \in Nat /\ k <= n /\ k <= size - 1 /\ 0 < size
  BY <1>0, <1>1 DEF Shorter
<1>3. ASSUME NEW j \in 0 .. k - 1
      PROVE  q[d + j] = m[s + j] /\ q[s + j] = m[s + j] /\ m[s + j] # NUL
  <2>1. d + j \in A /\ s + j \in A /\ d + j \in d .. d + k - 1 /\ (d + j) - d + s = s + j
    BY <1>0, <1>1, <1>2
  <2>2. ~(s + j \in d .. d + k - 1) /\ s + j # d + k
    BY <1>0, <1>1, <1>2
  <2>3. m[s + j] # NUL
    BY <1>0, <1>2
  <2>4. q[d + j] = m[(d + j) - d + s]
    BY <2>1, Zenon DEF Ended
  <2>5. q[s + j] = m[s + j]
    BY <2>1, <2>2, Zenon DEF Ended
  <2> QED BY <2>1, <2>3, <2>4, <2>5, Zenon
<1>4. q[d + k] = NUL
  <2>1. d + k \in A /\ ~(d + k \in d .. d + k - 1)
    BY <1>1, <1>2
  <2> QED BY <2>1, Zenon DEF Ended
<1>5. \A a \in d .. d + k - 1 : q[a] # NUL
  <2>1. ASSUME NEW a \in d .. d + k - 1 PROVE q[a] # NUL
    <3>1. a - d \in 0 .. k - 1 /\ d + (a - d) = a
      BY <1>1, <1>2
    <3> QED BY <1>3, <3>1, Zenon
  <2> QED BY <2>1
<1>6. strlen(q, d) = k
  <2> DEFINE Goes == {a \in Nat : q[a] # NUL}
  <2>1. d + k \notin Goes
    BY <1>4, Zenon
  <2>2. ASSUME NEW a \in d .. d + k - 1 PROVE a \in Goes
    <3>1. a \in Nat
      BY <1>1, <1>2
    <3> QED BY <1>5, <3>1, Zenon
  <2>3. strlen(q, d) = Scan(d, Goes) - d
    BY Zenon DEF strlen
  <2> HIDE DEF Goes
  <2>4. d + k \in Stops(Goes, d)
    BY <1>1, <1>2, <2>1, <2>2 DEF Stops
  <2>5. Scan(d, Goes) = d + k
    BY <1>1, <2>4, ScanEnds, Zenon
  <2> QED BY <1>1, <1>2, <2>3, <2>5
<1>7. memfind(q, d, NUL, size) = d + k
  <2> DEFINE Goes == {a \in Nat : a < d + size /\ q[a] # NUL}
  <2>1. d + k \notin Goes
    BY <1>4, Zenon
  <2>2. ASSUME NEW a \in d .. d + k - 1 PROVE a \in Goes
    <3>1. a \in Nat /\ a < d + size
      BY <1>1, <1>2
    <3> QED BY <1>5, <3>1, Zenon
  <2>3. memfind(q, d, NUL, size) = Scan(d, Goes)
    BY Zenon DEF memfind
  <2> HIDE DEF Goes
  <2>4. d + k \in Stops(Goes, d)
    BY <1>1, <1>2, <2>1, <2>2 DEF Stops
  <2> QED BY <1>1, <2>3, <2>4, ScanEnds, Zenon
<1>8. strncmp_eq(q, d, s, k)
  <2> DEFINE Goes == {j \in Nat : j < k /\ q[d + j] # NUL /\ q[d + j] = q[s + j]}
  <2>1. k \notin Goes
    BY <1>2
  <2>2. ASSUME NEW j \in 0 .. k - 1 PROVE j \in Goes
    <3>1. j \in Nat /\ j < k
      BY <1>2
    <3>2. q[d + j] # NUL /\ q[d + j] = q[s + j]
      BY <1>3, Zenon
    <3> QED BY <3>1, <3>2, Zenon
  <2>3. strncmp_at(q, d, s, k) = Scan(0, Goes)
    BY Zenon DEF strncmp_at
  <2> HIDE DEF Goes
  <2>4. k \in Stops(Goes, 0)
    BY <1>2, <2>1, <2>2 DEF Stops
  <2>5. Scan(0, Goes) = k
    BY <2>4, ScanEnds
  <2> QED BY <2>3, <2>5, Zenon DEF strncmp_eq
<1>9. memcmp_eq(q, d, s, k)
  <2> DEFINE Goes == {j \in Nat : j < k /\ q[d + j] = q[s + j]}
  <2>1. k \notin Goes
    BY <1>2
  <2>2. ASSUME NEW j \in 0 .. k - 1 PROVE j \in Goes
    <3>1. j \in Nat /\ j < k
      BY <1>2
    <3>2. q[d + j] = q[s + j]
      BY <1>3, Zenon
    <3> QED BY <3>1, <3>2, Zenon
  <2>3. memcmp_eq(q, d, s, k) <=> Scan(0, Goes) = k
    BY Zenon DEF memcmp_eq
  <2> HIDE DEF Goes
  <2>4. k \in Stops(Goes, 0)
    BY <1>2, <2>1, <2>2 DEF Stops
  <2>5. Scan(0, Goes) = k
    BY <2>4, ScanEnds
  <2> QED BY <2>3, <2>5, Zenon
<1> QED BY <1>6, <1>7, <1>8, <1>9, Zenon

(* Where there is a NUL, there is a string.                                *)
LEMMA TextThere ==
  ASSUME NEW A \in SUBSET Int, NEW m \in [A -> Char], NEW s \in Nat, NEW e \in Nat,
         s <= e, s .. e \subseteq A, m[e] = NUL
  PROVE  \E n \in Nat : s + n <= e /\ Text(A, m, s, n)
<1> DEFINE T == {n \in Nat : s + n <= e /\ m[s + n] = NUL}
<1>1. e - s \in T
  OBVIOUS
<1>2. T \in SUBSET Nat
  OBVIOUS
<1>3. PICK n \in T : \A y \in T : n <= y
  <2> HIDE DEF T
  <2> QED BY <1>1, <1>2, Least
<1>4. n \in Nat /\ s + n <= e /\ m[s + n] = NUL
  BY Zenon
<1>5. ASSUME NEW a \in s .. s + n - 1 PROVE m[a] # NUL
  <2>1. a - s \in Nat /\ s + (a - s) = a /\ s + (a - s) <= e /\ ~(n <= a - s)
    BY <1>4
  <2> QED BY <1>3, <2>1, Zenon
<1>6. s .. s + n \subseteq A
  BY <1>4
<1> QED BY <1>4, <1>5, <1>6 DEF Text

(* The string at s, among N characters of which the last is a NUL, copied  *)
(* to what lies behind them: n is its length, c and l what strncpy and     *)
(* strlcpy leave; and what CopiesExact requires of these.                  *)
Copying(N, m, s, size, n, c, l) ==
  /\ N \in Nat /\ N # 0 /\ m \in [0 .. 2 * N -> Char] /\ m[N - 1] = NUL
  /\ \A a \in N .. 2 * N : m[a] = "old"
  /\ s \in 0 .. N - 1 /\ size \in 0 .. N
  /\ n = strlen(m, s) /\ c = strncpy(m, N, s, size) /\ l = strlcpy(m, N, s, size)
Bounded(N, m, s, size, n, c, l) ==
  /\ [k \in 1 .. size |-> c[N + k - 1]]
       = [k \in 1 .. size |-> IF k <= n THEN m[s + k - 1] ELSE NUL]
  /\ \A a \in N + size .. 2 * N : c[a] = "old" /\ l.m[a] = "old"
  /\ size > 0 => /\ l.n = Min({n, size - 1}) /\ strlen(l.m, N) = l.n
                 /\ strncmp_eq(l.m, N, s, l.n) /\ memcmp_eq(l.m, N, s, l.n)
                 /\ memfind(l.m, N, NUL, size) = N + l.n

(* strncpy and strlcpy do it.                                              *)
LEMMA BoundedCopies ==
  ASSUME NEW N, NEW m, NEW s, NEW size, NEW n, NEW c, NEW l, Copying(N, m, s, size, n, c, l)
  PROVE  Bounded(N, m, s, size, n, c, l)
<1> DEFINE A == 0 .. 2 * N
<1>0. /\ N \in Nat /\ N # 0 /\ m \in [A -> Char] /\ m[N - 1] = NUL
      /\ s \in 0 .. N - 1 /\ size \in 0 .. N
  BY DEF Copying
<1>1. /\ s \in Nat /\ size \in Nat /\ N - 1 \in Nat /\ s <= N - 1 /\ s .. N - 1 \subseteq A
      /\ A \in SUBSET Int
  BY <1>0
<1>2. n = strlen(m, s) /\ c = strncpy(m, N, s, size) /\ l = strlcpy(m, N, s, size)
  BY DEF Copying
<1>3. \A a \in N .. 2 * N : m[a] = "old"
  BY DEF Copying
<1>4. PICK e \in Nat : s + e <= N - 1 /\ Text(A, m, s, e)
  <2> HIDE DEF A
  <2> QED BY <1>0, <1>1, TextThere
<1>5. n = e
  BY <1>2, <1>4, Lengths, Zenon
<1>6. Clear(A, N, s, n, size)
  BY <1>0, <1>1, <1>4, <1>5 DEF Clear
<1>7. Text(A, m, s, n) /\ n \in Nat
  BY <1>4, <1>5, Zenon
<1>8. c = Filled(A, m, s, n, N, size)
  <2> HIDE DEF A
  <2> QED BY <1>2, <1>6, <1>7, StrncpyFills
<1>9. [k \in 1 .. size |-> c[N + k - 1]] = [k \in 1 .. size |-> IF k <= n THEN m[s + k - 1] ELSE NUL]
  <2>1. ASSUME NEW k \in 1 .. size PROVE c[N + k - 1] = IF k <= n THEN m[s + k - 1] ELSE NUL
    <3>1. /\ N + k - 1 \in A /\ N + k - 1 \in N .. N + size - 1 /\ (N + k - 1) - N + s = s + k - 1
          /\ ((N + k - 1) - N < n <=> k <= n)
      BY <1>0, <1>1, <1>7
    <3>2. c[N + k - 1] = IF (N + k - 1) - N < n THEN m[(N + k - 1) - N + s] ELSE NUL
      BY <1>8, <3>1, Zenon DEF Filled
    <3> QED BY <3>1, <3>2, Zenon
  <2> QED BY <2>1, Zenon
<1>10. ASSUME NEW a \in N + size .. 2 * N PROVE c[a] = "old"
  <2>1. a \in A /\ ~(a \in N .. N + size - 1) /\ a \in N .. 2 * N
    BY <1>0, <1>1
  <2>2. c[a] = m[a]
    BY <1>8, <2>1, Zenon DEF Filled
  <2> QED BY <1>3, <2>1, <2>2, Zenon
<1>11. CASE size = 0
  <2>1. l.m = m
    BY <1>2, <1>11 DEF strlcpy
  <2>2. \A a \in N + size .. 2 * N : a \in N .. 2 * N
    BY <1>0, <1>1
  <2>3. ~(size > 0)
    BY <1>11
  <2> QED BY <1>3, <1>9, <1>10, <2>1, <2>2, <2>3, Zenon DEF Bounded
<1>12. CASE size # 0
  <2>1. PICK k \in Nat : k = Shorter(n, size - 1) /\ k <= size - 1
    BY <1>1, <1>7, <1>12 DEF Shorter
  <2> DEFINE q == Ended(A, m, s, N, k)
  <2>2. l.n = k /\ l.m = q
    <3> HIDE DEF A
    <3> QED BY <1>2, <1>6, <1>7, <1>12, <2>1, StrlcpyEnds
  <2>3. /\ strlen(q, N) = k /\ memfind(q, N, NUL, size) = N + k
        /\ strncmp_eq(q, N, s, k) /\ memcmp_eq(q, N, s, k)
    <3> HIDE DEF A
    <3> QED BY <1>6, <1>7, <1>12, <2>1, Compared
  <2>4. ASSUME NEW a \in N + size .. 2 * N PROVE q[a] = "old"
    <3>1. a \in A /\ ~(a \in N .. N + k - 1) /\ a # N + k /\ a \in N .. 2 * N
      BY <1>0, <1>1, <2>1
    <3>2. q[a] = m[a]
      BY <3>1, Zenon DEF Ended
    <3> QED BY <1>3, <3>1, <3>2, Zenon
  <2> HIDE DEF q
  <2>5. Min({n, size - 1}) = k
    <3>1. PICK S : S = {n, size - 1}
      OBVIOUS
    <3>2. PICK b \in Int : S \in SUBSET (0 .. b)
      BY <1>0, <1>1, <1>7, <1>12, <3>1, SMTT(30)
    <3>3. 0 \in Int /\ S # {}
      BY <3>1
    <3>4. Min(S) \in S /\ \A y \in S : Min(S) <= y
      BY <3>2, <3>3, Extremes, Zenon
    <3>5. Min(S) = k
      BY <1>1, <1>7, <2>1, <3>1, <3>4 DEF Shorter
    <3> QED BY <3>1, <3>5, Zenon
  <2> QED BY <1>9, <1>10, <2>2, <2>3, <2>4, <2>5, Zenon DEF Bounded
<1> QED BY <1>11, <1>12

(* CopiesExact of one line.                                                *)
LEMMA CopiesOf ==
  ASSUME NEW p \in Seq(STRING), buf = AsMemory(p)
  PROVE  CopiesExact
<1> DEFINE N == Cardinality(DOMAIN buf)
           m == [a \in 0 .. 2 * N |-> IF a < N THEN buf[a] ELSE "old"]
           word(x, n) == [k \in 1 .. n |-> x[N + k - 1]]
<1>1. /\ Len(p) \in Nat /\ DOMAIN buf = 0 .. Len(p) /\ buf[Len(p)] = NUL
      /\ buf \in [0 .. Len(p) -> Char]
  <2>1. Len(p) \in Nat /\ buf = [a \in 0 .. Len(p) |-> IF a < Len(p) THEN p[a + 1] ELSE NUL]
    BY DEF AsMemory
  <2>2. ASSUME NEW a \in 0 .. Len(p) PROVE buf[a] \in Char
    <3>1. CASE a < Len(p)
      <4>1. p[a + 1] \in STRING
        BY <2>1, <3>1
      <4> QED BY <2>1, <3>1, <4>1 DEF Char
    <3>2. CASE ~(a < Len(p))
      BY <2>1, <3>2 DEF Char
    <3> QED BY <3>1, <3>2
  <2> QED BY <2>1, <2>2
<1>2. N = Len(p) + 1
  <2>1. Cardinality(0 .. Len(p)) = Len(p) - 0 + 1
    BY <1>1, FS_Interval
  <2> QED BY <1>1, <2>1
<1> HIDE DEF N
<1>3. ASSUME NEW d \in 0 .. N - 1, NEW s \in 0 .. N - 1, NEW n \in 0 .. N - Max({d, s})
      PROVE  memmove(buf, d, s, n) = Moved(d, s, n)
  <2>1. PICK S : S = {d, s}
    OBVIOUS
  <2>2. \A y \in S : Max(S) >= y
    <3>1. PICK b \in Int : S \in SUBSET (0 .. b)
      BY <1>1, <1>2, <2>1
    <3>2. 0 \in Int /\ S # {}
      BY <2>1
    <3> QED BY <3>1, <3>2, Extremes, Zenon
  <2>3. n \in Nat /\ d + n <= N /\ s + n <= N
    <3>1. PICK M : M = Max(S)
      OBVIOUS
    <3>2. n \in 0 .. N - M /\ M >= d /\ M >= s
      BY <2>1, <2>2, <3>1, Zenon
    <3>3. M \in S
      <4>1. PICK b \in Int : S \in SUBSET (0 .. b)
        BY <1>1, <1>2, <2>1
      <4>2. 0 \in Int /\ S # {}
        BY <2>1
      <4> QED BY <3>1, <4>1, <4>2, Extremes, Zenon
    <3> QED BY <1>1, <1>2, <2>1, <3>2, <3>3
  <2>4. Within(0 .. Len(p), d, s, n)
    BY <1>1, <1>2, <2>3 DEF Within
  <2>5. 0 .. Len(p) \in SUBSET Int /\ d \in Int /\ s \in Int
    BY <1>1, <1>2
  <2>6. Area(0 .. Len(p), Char, buf, d, s, n)
    BY <1>1, <2>3, <2>4, <2>5, Zenon DEF Area
  <2>7. memmove(buf, d, s, n) = MovedTo(0 .. Len(p), buf, d, s, n)
    BY <2>6, MemmoveMoves
  <2> QED BY <1>1, <2>7, Zenon DEF Moved, MovedTo
<1>4. /\ N \in Nat /\ N # 0 /\ m \in [0 .. 2 * N -> Char] /\ m[N - 1] = NUL
      /\ \A a \in N .. 2 * N : m[a] = "old"
  BY <1>1, <1>2 DEF Char
<1> HIDE DEF m
<1>5. ASSUME NEW s \in 0 .. N - 1, NEW size \in 0 .. N
      PROVE  LET n == strlen(m, s)
                 c == strncpy(m, N, s, size)
                 l == strlcpy(m, N, s, size)
             IN  /\ word(c, size) = [k \in 1 .. size |-> IF k <= n THEN m[s + k - 1] ELSE NUL]
                 /\ \A a \in N + size .. 2 * N : c[a] = "old" /\ l.m[a] = "old"
                 /\ size > 0 => /\ l.n = Min({n, size - 1}) /\ strlen(l.m, N) = l.n
                                /\ strncmp_eq(l.m, N, s, l.n) /\ memcmp_eq(l.m, N, s, l.n)
                                /\ memfind(l.m, N, NUL, size) = N + l.n
  <2>1. PICK n, c, l : n = strlen(m, s) /\ c = strncpy(m, N, s, size) /\ l = strlcpy(m, N, s, size)
    OBVIOUS
  <2>2. Copying(N, m, s, size, n, c, l)
    BY <1>4, <2>1, Zenon DEF Copying
  <2>3. Bounded(N, m, s, size, n, c, l)
    BY <2>2, BoundedCopies
  <2> QED BY <2>1, <2>3, Zenon DEF Bounded
<1> QED BY <1>3, <1>5, Zenon DEF CopiesExact, N, m

(* CopiesAreExact: memmove, strncpy and strlcpy leave exactly what they    *)
(* should, for every line that the monitor can be given, wherever in it    *)
(* the source lies, and however the areas of memmove overlap.              *)
THEOREM CopiesAreExact == MonitorSpec => []CopiesExact
<1> DEFINE Read == mode = "parse" => buf \in {AsMemory(p) : p \in Seq(STRING)}
<1>1. MonInit => Read
  BY DEF MonInit
<1>2. Read /\ [MonNext]_monvars => Read'
  <2> SUFFICES ASSUME Read, [MonNext]_monvars PROVE Read'
    OBVIOUS
  <2>1. ASSUME NEW x \in Lines, monitor(x) PROVE Read'
    <3>1. x \in Seq(STRING)
      BY MonitorAssumption
    <3> QED BY <2>1, <3>1, Zenon DEF monitor
  <2>2. CASE runcmd
    <3>1. mode' # "parse"
      BY <2>2 DEF runcmd
    <3> QED BY <3>1
  <2>3. ASSUME NEW x \in Stacks, mon_backtrace(x) PROVE Read'
    <3>1. mode' # "parse"
      BY <2>3 DEF mon_backtrace
    <3> QED BY <3>1
  <2>4. CASE backtrace_frame
    <3>1. mode' # "parse"
      BY <2>4 DEF backtrace_frame
    <3> QED BY <3>1
  <2>5. CASE UNCHANGED monvars
    BY <2>5 DEF monvars, command
  <2> QED BY <2>1, <2>2, <2>3, <2>4, <2>5 DEF MonNext
<1>3. Read => CopiesExact
  <2>1. CASE mode = "parse"
    BY <2>1, CopiesOf
  <2>2. CASE mode # "parse"
    BY <2>2 DEF CopiesExact
  <2> QED BY <2>1, <2>2
<1> QED
  <2> HIDE DEF Read
  <2> QED BY <1>1, <1>2, <1>3, PTL DEF MonitorSpec

=============================================================================
