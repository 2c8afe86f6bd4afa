------------------------------ MODULE Numbers ------------------------------
(***************************************************************************)
(* strtol and strtoul of lib/strtol.c on the text at an address of the     *)
(* memory, in a machine whose long counts modulo Word.  Characters are     *)
(* their ASCII codes.                                                      *)
(***************************************************************************)
EXTENDS Strings

CONSTANT Short   \* 2^16 on the machine

ASSUME ShortAssumption == Short \in Nat \ {0} /\ Short % 2 = 0 /\ Word % Short = 0

Blank == 32
Plus  == 43
Minus == 45
Zero  == 48

Spaces == (9 .. 13) \cup {Blank, 160}
isspace(c) == c \in Spaces

\* A character that is no digit counts as more than any base has.
DigitValue(c) ==
  IF c >= 97 THEN c - 97 + 10
  ELSE IF c >= 65 THEN c - 65 + 10
  ELSE IF c \in Zero .. 57 THEN c - Zero ELSE 255

SkipSpace(m, p) == LET at[i \in Nat] == IF isspace(m[i]) THEN at[i + 1] ELSE i IN at[p]

Overflows_OrStays(w, v) == w <= v

\* The test for a product that has wrapped around; it does not see them all.
Overflows(w, v) == w < v

\* The while loop of strtoul: the value, and where it stopped (Null when endptr
\* is not set).
Convert(m, p, b) ==
  LET loop[i \in p .. FirstOf(m, p, {Nul})] ==
        [v \in Nat |->
           LET c == DigitValue(m[i])
               w == (v * b) % Word
           IN  IF m[i] = Nul \/ c >= b THEN [v |-> v, end |-> i]
               ELSE IF Overflows(w, v) THEN [v |-> 0, end |-> Null]
               ELSE loop[i + 1][(w + c) % Word]]
  IN  loop[p][0]

\* An optional prefix or the leading zero says what base 0 is.
strtoul(m, nptr, base) ==
  LET p0  == SkipSpace(m, nptr)
      p1  == IF m[p0] = Plus THEN p0 + 1 ELSE p0
      hex == base \in {0, 16} /\ m[p1] = Zero /\ m[p1 + 1] \in {88, 120}
      b   == IF hex THEN 16 ELSE IF base # 0 THEN base ELSE IF m[p1] = Zero THEN 8 ELSE 10
  IN  Convert(m, IF hex THEN p1 + 2 ELSE p1, b)

\* strtol: what does not fit in a long is 0, and the least long is itself.
strtol(m, nptr, base) ==
  LET p0  == SkipSpace(m, nptr)
      neg == m[p0] = Minus
      u   == strtoul(m, IF neg THEN p0 + 1 ELSE p0, base)
  IN  [u EXCEPT !.v = IF u.v > HalfWord \/ (u.v = HalfWord /\ ~neg) THEN 0
                      ELSE IF neg THEN -u.v ELSE u.v]
============================================================================
