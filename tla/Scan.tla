-------------------------------- MODULE Scan --------------------------------
(***************************************************************************)
(* sscanf of lib/scanf.c on the text that begins at an address: it reads   *)
(* one character ahead, so tpch is the byte before the next one to fetch.  *)
(* The format is a sequence of items, as the code has parsed them: white   *)
(* space, a character to match, or a directive with its flags and width.   *)
(* One item is one step.                                                   *)
(***************************************************************************)
EXTENDS Numbers, Sequences

VARIABLE in   \* the call in progress and its locals, or InIdle

\* str is the next address to fetch (sgetc's pointer): `consumed' is str - from.  When
\* str is kept.at, the character read ahead is not the byte before but kept.ch.
NoneKept == [at |-> 0, ch |-> Nul]
InIdle == [pc |-> "idle", from |-> 0, items |-> <<>>, str |-> 0, n |-> 0, ret |-> 0,
           stored |-> <<>>, format |-> <<>>, kept |-> NoneKept]

NoWidth == -1
EOF == -1

Read(conv, qual, width, discard) ==
  [conv |-> conv, qual |-> qual, width |-> width, discard |-> discard, ch |-> Nul]
Match(c) == [Read("match", "", NoWidth, FALSE) EXCEPT !.ch = c]
White == Read("white", "", NoWidth, FALSE)

----------------------------------------------------------------------------
(* The character read ahead, and loops over it.                            *)

\* sgetc gives -1 for the NUL.
Ahead(p) == IF p = in.kept.at THEN in.kept.ch ELSE IF mem[p - 1] = Nul THEN -1 ELSE mem[p - 1]

\* On while the character read ahead is one of S.
Pass(p, S) == LET at[q \in Nat] == IF Ahead(q) \in S THEN at[q + 1] ELSE q IN at[p]

SkipBlanks_PastNul(p) == Pass(p, Spaces \cup {-1})

SkipBlanks(p) == Pass(p, Spaces)
SkipDigits(p) == Pass(p, Zero .. 57)

\* The characters read ahead from p on, before q.
Bytes(p, q) == [k \in 1 .. q - p |-> Ahead(p + k - 1)]

ScanDigit_LowerOnly(c) ==
  IF c >= 97 THEN c - 97 + 10 ELSE IF c \in Zero .. 57 THEN c - Zero ELSE 255

\* The digit as the loop sees it: letters by setting bit 5.
ScanDigit(c) ==
  LET d == IF (c \div 32) % 2 = 1 THEN c ELSE c + 32
  IN  IF d >= 97 THEN d - 97 + 10 ELSE IF c \in Zero .. 57 THEN c - Zero ELSE 255

\* The while loop of the integer conversions; a count of -1 never ends it, the end
\* of the text always does.
ScanDigits(p, div, width) ==
  LET last == IF Ahead(p) = -1 THEN p ELSE FirstOf(mem, p, {Nul}) + 1
      loop[q \in p .. last] ==
        [v \in Nat |->
           LET c == ScanDigit(Ahead(q))
               d == (v * div) % Word
           IN  IF q - p = width \/ Ahead(q) = -1 \/ c >= div THEN [str |-> q, v |-> v]
               ELSE loop[q + 1][IF d < v THEN Word - 1 ELSE (d + c) % Word]]
  IN  loop[p][0]

----------------------------------------------------------------------------
(* Integers.                                                               *)

Div(conv) == CASE conv \in {"p", "X", "x"} -> 16 [] conv = "d" -> 10
               [] conv = "o" -> 8 [] OTHER -> 0

\* An optional sign, an optional prefix when no width is given, digits.
ScanInteger(conv, width, p) ==
  LET p0   == SkipBlanks(p)
      neg  == Ahead(p0) = Minus
      p1   == IF neg THEN p0 + 1 ELSE p0
      p2   == IF Ahead(p1) = Plus THEN p1 + 1 ELSE p1
      div  == Div(conv)
      zero == width = NoWidth /\ div \in {0, 16} /\ Ahead(p2) = Zero
      hex  == zero /\ Ahead(p2 + 1) \in {88, 120}
      base == IF hex THEN 16 ELSE IF div # 0 \/ width # NoWidth THEN div
              ELSE IF zero THEN 8 ELSE 10
      r    == ScanDigits(p2 + (IF hex THEN 2 ELSE IF zero THEN 1 ELSE 0), base, width)
      minus == neg /\ conv \in {"d", "i", "o"} /\ r.v < HalfWord
  IN  [r EXCEPT !.v = IF minus THEN (Word - @) % Word ELSE @]

----------------------------------------------------------------------------
(* Floating point numbers: the text of the number stands for its value.    *)

Point     == 46
Exponents == {69, 101}

\* The sign is read and forgotten.  An exponent must have a sign: without one the value
\* is 0 and its letter is read ahead again; but the end of the text behind the letter is
\* not put back (lost).
ScanFloat(p) ==
  LET p0     == SkipBlanks(p)
      p1     == IF Ahead(p0) = Minus THEN p0 + 1 ELSE p0
      p2     == IF Ahead(p1) = Plus THEN p1 + 1 ELSE p1
      p3     == SkipDigits(p2)
      p4     == IF Ahead(p3) = Point THEN SkipDigits(p3 + 1) ELSE p3
      letter == Ahead(p4) \in Exponents
      signed == letter /\ Ahead(p4 + 1) \in {Plus, Minus}
      lost   == letter /\ Ahead(p4 + 1) = -1
  IN  [str  |-> IF signed THEN SkipDigits(p4 + 2) ELSE IF lost THEN p4 + 1 ELSE p4,
       lost |-> lost,
       text |-> IF letter /\ ~signed THEN <<Zero>>
                ELSE Bytes(p2, IF signed THEN SkipDigits(p4 + 2) ELSE p4)]

----------------------------------------------------------------------------
(* The call.                                                               *)

\* The first character is fetched at once.
sscanf(str, format) ==
  /\ in.pc = "idle"
  /\ in' = [InIdle EXCEPT !.pc = "items", !.from = str, !.items = format, !.str = str + 1,
                          !.format = format]

ScanItem == Head(in.items)

\* "f" stands for e, E, f and g, which are the same.
Directives == {"p", "X", "x", "d", "o", "u", "i", "f", "c", "s", "n", "unknown", "nul"}

\* The items that a format may be parsed into.
ScanItems ==
  [conv : {"white", "match", "%"} \cup Directives, qual : {"", "h", "l", "L", "Z"},
   width : {NoWidth} \cup Nat, discard : BOOLEAN, ch : 0 .. 255]

ScanAt(convs) == in.pc = "items" /\ in.items # <<>> /\ ScanItem.conv \in convs

\* Every character of a directive is read with a test for the end of the
\* text, except the n itself.
TextEnds ==
  Ahead(in.str) = -1 /\ ScanItem # Read("n", "", NoWidth, FALSE)

\* On to the next item: `got' is a sequence of what is stored, `counts'
\* whether that adds to the result.
Advance(str, got, counts) ==
  in' = [in EXCEPT !.items = Tail(@), !.str = str,
                   !.stored = IF ScanItem.discard THEN @ ELSE @ \o got,
                   !.n = IF counts /\ ~ScanItem.discard THEN @ + 1 ELSE @]

Stop == in' = [in EXCEPT !.pc = "end"]

WhiteSpace == ScanAt({"white"}) /\ Advance(SkipBlanks(in.str), <<>>, FALSE)

\* A character of the format, or %%.  The end of the text, -1, compares equal
\* to a character 255.
MatchCharacter ==
  /\ ScanAt({"match", "%"})
  /\ IF Ahead(in.str) % 256 = ScanItem.ch THEN Advance(in.str + 1, <<>>, FALSE) ELSE Stop

\* A directive finds the end of the text.
NothingLeft == ScanAt(Directives) /\ TextEnds /\ Stop

\* The value is stored, even if no character was read; then it is not counted.
Integer ==
  /\ ScanAt({"p", "X", "x", "d", "o", "u", "i"}) /\ ~TextEnds
  /\ LET r == ScanInteger(ScanItem.conv, ScanItem.width, in.str)
     IN  Advance(r.str, <<<<r.v % (IF ScanItem.qual = "h" THEN Short ELSE Word)>>>>, r.str > in.str)

\* Counted even if it is not stored.
Float ==
  /\ ScanAt({"f"}) /\ ~TextEnds
  /\ LET r == ScanFloat(in.str) IN
     in' = [in EXCEPT !.items = Tail(@), !.str = r.str, !.n = @ + 1,
                      !.kept = IF r.lost THEN [at |-> r.str, ch |-> Ahead(r.str - 1)] ELSE @,
                      !.stored = IF ScanItem.discard THEN @ ELSE Append(@, r.text)]

\* The characters from p to the first that fails, at most `width' of them.
Span(p, width, stopsAtBlank) ==
  LET at[q \in Nat] ==
        IF q - p = width \/ Ahead(q) = -1 \/ (stopsAtBlank /\ isspace(Ahead(q)))
        THEN q ELSE at[q + 1]
  IN  at[p]

Characters ==
  /\ ScanAt({"c"}) /\ ~TextEnds
  /\ LET q == Span(in.str, IF ScanItem.width = NoWidth THEN 1 ELSE ScanItem.width, FALSE)
     IN  Advance(q, <<Bytes(in.str, q)>>, TRUE)

String ==
  /\ ScanAt({"s"}) /\ ~TextEnds
  /\ LET p == SkipBlanks(in.str)
         q == Span(p, ScanItem.width, TRUE)
     IN  Advance(q, <<Bytes(p, q)>>, TRUE)

\* %n stores, in a char, what was consumed but for the one read ahead.
Consumed ==
  ScanAt({"n"}) /\ ~TextEnds /\ Advance(in.str, <<<<(in.str - in.from - 1) % 256>>>>, FALSE)

Unknown == ScanAt({"unknown"}) /\ ~TextEnds /\ Stop

\* The format ends inside a directive: the result is 0, whatever was read.
FormatEnds ==
  /\ ScanAt({"nul"}) /\ ~TextEnds
  /\ in' = [in EXCEPT !.pc = "done", !.ret = 0]

\* err_out: the character read ahead is put back.
Return ==
  /\ in.pc = "end" \/ (in.pc = "items" /\ in.items = <<>>)
  /\ in' = IF Ahead(in.str) = -1 /\ in.n = 0
           THEN [in EXCEPT !.pc = "done", !.ret = EOF]
           ELSE [in EXCEPT !.pc = "done", !.ret = in.n, !.str = @ - 1]

ScanStep ==
  \/ WhiteSpace \/ MatchCharacter \/ NothingLeft \/ Integer \/ Float \/ Characters \/ String
  \/ Consumed \/ Unknown \/ FormatEnds \/ Return
=============================================================================
