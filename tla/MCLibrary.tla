----------------------------- MODULE MCLibrary -----------------------------
(* Library on a memory of 28 bytes, with an int of 8 and a short of 4 bits. *)
EXTENDS Library

MC_Cells == 0 .. 27

\* The text x at 0, terminated; a blank and letters behind it.
Placed(x) == [a \in MC_Cells |-> IF a < Len(x) THEN x[a + 1] ELSE IF a = Len(x) THEN Nul
                                 ELSE IF a = Len(x) + 1 THEN Blank ELSE IF a = 27 THEN Nul ELSE 106]

\* All texts of at most n pieces.
Pieces(S, n) == UNION {[1 .. k -> S] : k \in 0 .. n}
Text(ps) == LET upto[k \in 0 .. Len(ps)] == IF k = 0 THEN <<>> ELSE upto[k - 1] \o ps[k]
            IN  upto[Len(ps)]

MC_Places == 0 .. 7
MC_Blocks == {[a \in MC_Cells |-> a + 1]}
MC_Texts  == {[a \in MC_Cells |-> IF a \in DOMAIN f THEN f[a] ELSE IF a % 2 = 0 THEN Nul ELSE 97] :
                f \in [0 .. 4 -> {Nul, 97, 98}]}

QuietText == <<113, 117, 105, 101, 116>>
MC_CommandLines ==
  {[a \in MC_Cells |-> IF a < Len(x) THEN x[a + 1] ELSE IF a \in 20 .. 24 THEN QuietText[a - 19] ELSE Nul] :
     x \in {Text(ps) : ps \in Pieces({<<97>>, <<Blank>>, QuietText, SubSeq(QuietText, 1, 4)}, 3)}}

MC_Scratch == [a \in MC_Cells |-> CASE a = 0 -> 97 [] a = 1 -> 98 [] a = 2 -> Nul [] OTHER -> 106]

MC_Inputs == {Placed(Text(ps)) : ps \in
                Pieces({<<Blank>>, <<Minus>>, <<Plus>>, <<Zero>>, <<120>>, <<70>>, <<50, 48, 48>>}, 3)
                \cup {x \o y : x \in Pieces({<<Minus>>, <<Zero>>, <<Point>>}, 2),
                              y \in Pieces({<<101>>, <<Minus>>, <<50>>}, 3)}}

MC_Sizes == {0, 1, 4, 23, 27}
\* Single directives with all flags, widths and precisions; then some of the
\* other conversions; then formats of several items.
MC_Numbers ==
  {<<<<Directive(f, w, p, q, c)>>, (IF w = Star THEN <<-5>> ELSE <<>>)
      \o (IF p = Star THEN <<2>> ELSE <<>>) \o <<v>>>> :
     f \in SUBSET {"-", "0", "+", "#"}, w \in {None, 6, Star}, p \in {None, 3, Star},
     q \in {"", "h"}, c \in {"d", "u", "o", "X", "p"}, v \in {0, 200, -256}}

Plain(c) == Directive({}, None, None, "", c)

MC_Others ==
  {<<<<Directive(f, w, p, "", c)>>, IF c = "%" THEN <<>> ELSE <<v>>>> :
     f \in {{}, {"-"}}, w \in {None, 6}, p \in {None, 1},
     c \in {"c", "s", "n", "%"}, v \in {0, Null}}
  \cup {<<<<Plain("c")>>, <<321>>>>, <<<<Directive({" "}, None, None, "l", "i")>>, <<77>>>>,
        <<<<Directive({}, None, None, "L", "d")>>, <<-31000>>>>,
        <<<<Directive({}, None, None, "Z", "d")>>, <<-3>>>>,
        <<<<Directive({}, Star, Star, "", "d")>>, <<4, -1, 9>>>>,
        <<<<[Plain("unknown") EXCEPT !.ch = 33]>>, <<>>>>, <<<<Plain("unknown")>>, <<>>>>}

MC_Sequences ==
  {<<<<a, Character(Blank), b, Character(c), Plain("n")>>, <<v, w, 9>>>> :
     a, b \in {Plain("s"), Plain("d"), Plain("x")}, c \in {Blank, 58}, v, w \in {0, 1}}
  \cup {<<<<a, Character(Blank), Directive({}, 5, None, "", "u"), Character(58)>>, <<0, 44>>>> :
     a \in {Plain("s"), Plain("o"), Directive({}, 4, None, "", "s")}}

\* Texts about as long as the memory behind the buffer, of 24 bytes, or longer.
MC_Long ==
  {<<<<Directive({}, w, None, "", "u"), c, Plain("s"), Plain("n")>>, <<44, v, 9>>>> :
     w \in 21 .. 29, c \in {Character(58), Plain("%")}, v \in {0, 1, Null}}

MC_Formats == MC_Numbers \cup MC_Others \cup MC_Sequences \cup MC_Long

MC_ScanFormats ==
  LET items == {Read(c, q, w, d) : c \in {"d", "x", "i"}, q \in {"", "h"}, w \in {NoWidth, 2},
                                   d \in BOOLEAN}
               \cup {Read("f", "", NoWidth, d) : d \in BOOLEAN}
               \cup {Read(c, "", w, FALSE) : c \in {"c", "s"}, w \in {NoWidth, 2}}
               \cup {White, Match(120), Match(255), Read("n", "", NoWidth, FALSE),
                     Read("unknown", "", NoWidth, FALSE), Read("nul", "", NoWidth, FALSE)}
  IN  {<<i>> : i \in items}
      \cup {<<Read(c, "", NoWidth, FALSE), i>> : c \in {"d", "f"}, i \in items}
      \cup {<<i, White, [Read("%", "", NoWidth, FALSE) EXCEPT !.ch = 37]>> : i \in items}

MC_Bases == {8, 10, 16}

\* A digit of four values: 1023 is the largest limit that is not counted in
\* pages, of 64 bytes, and 65535 the largest address.
MC_Selectors == {8, 19}
MC_Vectors   == {33}
MC_Addresses == {65535, 9876}
MC_Limits    == {255, 1023, 1024, 1087, 65535}
=============================================================================
