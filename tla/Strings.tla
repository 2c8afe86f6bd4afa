------------------------------ MODULE Strings ------------------------------
(***************************************************************************)
(* The string and memory operations of include/lib/string.h, as operators  *)
(* on the memory m, a function from addresses to bytes.  An operation that *)
(* writes gives the memory it leaves; one that reads gives what it         *)
(* returns.  The order of the processor's loads and stores is kept where   *)
(* areas may overlap.                                                      *)
(***************************************************************************)
EXTENDS Integers

CONSTANT Word   \* an int, a long and a count are taken modulo it: 2^32 on the machine

ASSUME WordAssumption == Word \in Nat \ {0} /\ Word % 2 = 0

VARIABLE mem   \* the bytes of the memory, which the modules of the library share

Nul  == 0
Null == -1   \* the NULL pointer; the code returns address 0

HalfWord == Word \div 2   \* from here on a word is below zero when it is signed

\* m with w bytes moved in one load and one store.
Chunk(m, d, s, w) == [i \in DOMAIN m |-> IF i \in d .. d + w - 1 THEN m[s + i - d] ELSE m[i]]

\* k moves of w bytes, going up.
MoveUp(m, d, s, w, k) ==
  LET after[j \in 0 .. k] ==
        IF j = 0 THEN m ELSE Chunk(after[j - 1], d + w * (j - 1), s + w * (j - 1), w)
  IN  after[k]

\* n moves of one byte, from the last one down (std; rep movsb).
MoveDown(m, d, s, n) ==
  LET after[j \in 0 .. n] ==
        IF j = 0 THEN m ELSE Chunk(after[j - 1], d + n - j, s + n - j, 1)
  IN  after[n]

Store(m, d, n, c) == [i \in DOMAIN m |-> IF i \in d .. d + n - 1 THEN c ELSE m[i]]

\* The first address from a on whose byte is one of S.
FirstOf(m, a, S) ==
  LET at[i \in Nat] == IF m[i] \in S THEN i ELSE at[i + 1] IN at[a]

Least(a, b) == IF a < b THEN a ELSE b

----------------------------------------------------------------------------
(* memcpy picks by4, by2 or g when it is compiled; memset does the same.   *)
(* by4 and by2 count down from n/4 and n/2: callers have n > 0 there.      *)

memcpy_by4(m, d, s, n) == MoveUp(m, d, s, 4, n \div 4)

\* n is even but no multiple of four.
memcpy_by2(m, d, s, n) ==
  LET k == n \div 4 IN Chunk(MoveUp(m, d, s, 4, k), d + 4 * k, s + 4 * k, 2)

memcpy_g(m, d, s, n) ==
  LET b  == n % 2
      h  == 2 * ((n \div 2) % 2)
      m1 == Chunk(m, d, s, b)
      m2 == Chunk(m1, d + b, s + b, h)
  IN  MoveUp(m2, d + b + h, s + b + h, 4, n \div 4)

memmove_AlwaysUp(m, d, s, n) == MoveUp(m, d, s, 1, n)

memmove(m, d, s, n) == IF d < s THEN MoveUp(m, d, s, 1, n) ELSE MoveDown(m, d, s, n)

memset_by4(m, d, c, n) == Store(m, d, 4 * (n \div 4), c)

memset_by2(m, d, c, n) ==
  LET k == n \div 4 IN Store(Store(m, d, 4 * k, c), d + 4 * k, 2, c)

\* Words first, then the odd byte.
memset_cg(m, d, c, n) ==
  LET k == n \div 2 IN Store(Store(m, d, 2 * k, c), d + 2 * k, n % 2, c)

----------------------------------------------------------------------------
(* Strings end at their first NUL.                                         *)

strlen(m, s) == FirstOf(m, s, {Nul}) - s

\* The count is unsigned: -1 never runs out.
strnlen(m, s, n) ==
  LET at[k \in Nat] == IF k = n \/ m[s + k] = Nul THEN k ELSE at[k + 1] IN at[0]

strcpy(m, d, s) == MoveUp(m, d, s, 1, strlen(m, s) + 1)

\* What is left of the count is filled with NULs.
strncpy(m, d, s, n) ==
  LET k == Least(n, strlen(m, s) + 1) IN Store(MoveUp(m, d, s, 1, k), d + k, n - k, Nul)

strcat(m, d, s) == strcpy(m, d + strlen(m, d), s)

\* The turns of a loop that ends when its count, less one, is below zero (decl; js): it is
\* signed there, and a large one ends the loop at once.
Rounds(n) == IF n > HalfWord THEN 0 ELSE n

strncat_NotEnded(m, d, s, n) ==
  MoveUp(m, d + strlen(m, d), s, 1, Least(Rounds(n), strlen(m, s) + 1))

\* A NUL is written behind what was copied, even when that ended in a NUL.
strncat(m, d, s, n) ==
  LET e == d + strlen(m, d)
      k == Least(Rounds(n), strlen(m, s) + 1)
  IN  Store(MoveUp(m, e, s, 1, k), e + k, 1, Nul)

----------------------------------------------------------------------------
(* Comparing gives 1, 0 or -1; bytes are unsigned.                         *)

Sign(a, b) == IF a > b THEN 1 ELSE IF a < b THEN -1 ELSE 0

strcmp(m, s, t) ==
  LET at[k \in Nat] == IF m[s + k] # m[t + k] \/ m[s + k] = Nul
                       THEN Sign(m[s + k], m[t + k]) ELSE at[k + 1]
  IN  at[0]

strncmp_OneMore(m, s, t, n) ==
  LET at[k \in Nat] == IF k > Rounds(n) THEN 0
                       ELSE IF m[s + k] # m[t + k] \/ m[s + k] = Nul
                       THEN Sign(m[s + k], m[t + k]) ELSE at[k + 1]
  IN  at[0]

strncmp(m, s, t, n) ==
  LET at[k \in Nat] == IF k = Rounds(n) THEN 0
                       ELSE IF m[s + k] # m[t + k] \/ m[s + k] = Nul
                       THEN Sign(m[s + k], m[t + k]) ELSE at[k + 1]
  IN  at[0]

\* n > 0: with a count of zero the flags are those of the code before it.
memcmp(m, s, t, n) ==
  LET at[k \in 0 .. n] == IF k = n THEN 0
                          ELSE IF m[s + k] # m[t + k] THEN Sign(m[s + k], m[t + k])
                          ELSE at[k + 1]
  IN  at[0]

strchr(m, s, c) == LET p == FirstOf(m, s, {c, Nul}) IN IF m[p] = c THEN p ELSE Null

\* Every match moves the result up, the NUL is compared too.
strrchr(m, s, c) ==
  LET upto[k \in -1 .. strlen(m, s)] ==
        IF k = -1 THEN Null ELSE IF m[s + k] = c THEN s + k ELSE upto[k - 1]
  IN  upto[strlen(m, s)]

Accepts(m, t) == {m[i] : i \in t .. t + strlen(m, t) - 1}

strcspn(m, s, t) == FirstOf(m, s, Accepts(m, t) \cup {Nul}) - s

\* memscan and memchr search n bytes; they differ when c is not there.
memscan(m, s, c, n) ==
  LET at[k \in 0 .. n] == IF k = n \/ m[s + k] = c THEN s + k ELSE at[k + 1] IN at[0]

memchr(m, s, c, n) == LET p == memscan(m, s, c, n) IN IF p = s + n THEN Null ELSE p

\* The loop tries each place where the second string still fits.
strstr(m, s, t) ==
  LET l1 == strlen(m, s)
      l2 == strlen(m, t)
      from[p \in s .. s + l1 + 1] ==
        IF l1 - (p - s) < l2 THEN Null
        ELSE IF memcmp(m, p, t, l2) = 0 THEN p ELSE from[p + 1]
  IN  IF l2 = 0 THEN s ELSE from[s]
============================================================================
