------------------------------ MODULE Strings ------------------------------
(***************************************************************************)
(* The routines of lib/string.c.  A memory is a function from addresses to *)
(* characters, of which NUL ends a string; a pointer is an address.  What  *)
(* a character is does not matter here.                                    *)
(***************************************************************************)
EXTENDS Integers, Sequences

NUL == "NUL"

(* A sequence of characters as memory: a string at address 0, with its NUL.*)
AsMemory(p) == [a \in 0 .. Len(p) |-> IF a < Len(p) THEN p[a + 1] ELSE NUL]

(* The first address from s on at which a loop of string.c stops.  Goes is *)
(* where the test of the loop is true.                                     *)
Scan(s, Goes) ==
  LET next[a \in Nat] == IF a \in Goes THEN next[a + 1] ELSE a IN next[s]

strlen(m, s) == Scan(s, {a \in Nat : m[a] # NUL}) - s

(* A size below 0 is a large one, as a size_t.                             *)
strnlen(m, s, size) ==
  Scan(s, {a \in Nat : (size < 0 \/ a - s < size) /\ m[a] # NUL}) - s

-----------------------------------------------------------------------------
(* rep movsb: n characters copied one by one from s to d, with ascending   *)
(* or with descending addresses.                                           *)
rep_movs(m, d, s, n, up) ==
  LET at(k) == IF up THEN k ELSE n - 1 - k
      step[k \in 0 .. n] ==
        IF k = 0 THEN m
        ELSE LET p == step[k - 1] IN [p EXCEPT ![d + at(k - 1)] = p[s + at(k - 1)]]
  IN  step[n]

(* Mutant: always with ascending addresses.                                *)
memmove_up(m, d, s, n) == rep_movs(m, d, s, n, TRUE)

(* memmove(dst, src, n): from the end when dst lies in the source.  The    *)
(* order within the four bytes that movsl moves at once does not matter.   *)
memmove(m, d, s, n) == rep_movs(m, d, s, n, ~(s < d /\ s + n > d))

memset(m, v, c, n) == [a \in DOMAIN m |-> IF a \in v .. v + n - 1 THEN c ELSE m[a]]

(* strcpy and strcat copy up to and with the NUL.                          *)
strcpy(m, d, s) == rep_movs(m, d, s, strlen(m, s) + 1, TRUE)
strcat(m, d, s) == strcpy(m, d + strlen(m, d), s)

(* strncpy fills the rest of the size characters with NULs.                *)
strncpy(m, d, s, size) ==
  LET n == strnlen(m, s, size)
  IN  memset(rep_movs(m, d, s, n, TRUE), d + n, NUL, size - n)

(* strlcpy copies at most size - 1 characters and always ends the string.  *)
strlcpy(m, d, s, size) ==
  LET n == IF size > 0 THEN strnlen(m, s, size - 1) ELSE 0
  IN  [m |-> IF size > 0 THEN [rep_movs(m, d, s, n, TRUE) EXCEPT ![d + n] = NUL] ELSE m,
       n |-> n]

-----------------------------------------------------------------------------
(* Where two strings differ, or both end; two areas differ; or a character *)
(* is met.  strcmp, strncmp and memcmp return 0 when nothing differs.      *)
strncmp_at(m, p, q, n) ==
  Scan(0, {k \in Nat : k < n /\ m[p + k] # NUL /\ m[p + k] = m[q + k]})
strncmp_eq(m, p, q, n) ==
  LET k == strncmp_at(m, p, q, n) IN k = n \/ m[p + k] = m[q + k]

strcmp_eq(m, p, q) ==
  LET k == Scan(0, {a \in Nat : m[p + a] # NUL /\ m[p + a] = m[q + a]})
  IN  m[p + k] = m[q + k]

memcmp_eq(m, p, q, n) == Scan(0, {k \in Nat : k < n /\ m[p + k] = m[q + k]}) = n
memfind(m, s, c, n) == Scan(s, {a \in Nat : a < s + n /\ m[a] # c})
strfind(m, s, c) == Scan(s, {a \in Nat : m[a] # NUL /\ m[a] # c})

(* strchr does not find the NUL: 0 is -1 here.                             *)
strchr(m, s, c) ==
  LET a == strfind(m, s, c) IN IF m[a] = NUL THEN -1 ELSE a

=============================================================================
