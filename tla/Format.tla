------------------------------- MODULE Format -------------------------------
(***************************************************************************)
(* vsnprintf of lib/printf.c: it writes its text from the address Buf on,  *)
(* up to the last address End, and counts on when the buffer is full.      *)
(*                                                                         *)
(* A format is a sequence of items, each what the code has parsed between  *)
(* two turns of its main loop: a character, or a directive with its flags, *)
(* width, precision and qualifier.  A step takes an item or puts one       *)
(* character.  A short counts modulo Short, an int, a long and a pointer   *)
(* argument modulo Word, and a long long modulo Word * Word; an address is *)
(* an index of the memory, and 0 follows the last one.                     *)
(***************************************************************************)
EXTENDS Numbers, Sequences

CONSTANTS
  Buf,           \* where callers have their buffer
  PointerBytes   \* the size of a pointer: 4 on the machine

VARIABLE out   \* the call in progress and its locals, or OutIdle

OutIdle == [pc |-> "idle", size |-> 0, items |-> <<>>, args |-> <<>>, str |-> Buf,
            todo |-> <<>>, count |-> 0, ret |-> 0, old |-> <<>>, text |-> <<>>, plan |-> <<>>]

None == -1   \* no width or no precision
Star == -2   \* taken from the arguments

Directive(flags, width, prec, qual, conv) ==
  [flags |-> flags, width |-> width, prec |-> prec, qual |-> qual, conv |-> conv, ch |-> Nul]
Character(c) == [Directive({}, None, None, "", "literal") EXCEPT !.ch = c]

FlagSet == {"-", "0", "+", " ", "#"}
Items ==
  {Character(c) : c \in 0 .. 255}
  \cup [flags : SUBSET FlagSet, width : {None, Star} \cup Nat, prec : {None, Star} \cup Nat,
        qual : {"", "h", "l", "L", "Z"}, ch : 0 .. 255,
        conv : {"c", "s", "p", "n", "%", "o", "X", "x", "d", "i", "u", "unknown"}]

----------------------------------------------------------------------------
(* Writing.                                                                *)

Cells == DOMAIN mem
Top   == CHOOSE a \in Cells : \A b \in Cells : b <= a

\* The last address of the buffer; a size that goes round the end of the
\* memory is cut there.
End(size) ==
  LET e == (Buf + size - 1) % (Top + 1) IN IF e < Buf - 1 THEN Top ELSE e

\* The address behind `a'.
After(a) == (a + 1) % (Top + 1)

\* str - buf, as a signed number of an address's width.
Counted(str) ==
  LET d == (str - Buf) % (Top + 1) IN IF d > Top \div 2 THEN d - (Top + 1) ELSE d

\* In a list of characters, the one at the address `a' when its turn comes.
Load(a) == -1 - a

Repeat(c, n) == [k \in 1 .. n |-> c]

----------------------------------------------------------------------------
(* number.                                                                 *)

\* A long long divided by a base in two steps: the upper word, then what is
\* left of it with the lower word.
do_div(n, base) ==
  LET high == n \div Word
      rest == ((high % base) * Word) + (n % Word)
  IN  [quot |-> (high \div base) * Word + rest \div base, mod |-> rest % base]

DigitChar(d, large) == IF d < 10 THEN Zero + d ELSE (IF large THEN 65 ELSE 97) + d - 10

Digits(num, base, large) ==
  LET from[n \in Nat] ==
        LET q == do_div(n, base)
            d == <<DigitChar(q.mod, large)>>
        IN  IF q.quot = 0 THEN d ELSE from[q.quot] \o d
  IN  from[num]

Room_ForgetsSign(size, sign, prefix, digits) == size - Len(prefix) - digits

\* What is left of the field width.
Room(size, sign, prefix, digits) == size - Len(sign) - Len(prefix) - digits

number(num, base, size, prec, flags) ==
  LET left   == "-" \in flags
      zero   == "0" \in flags /\ ~left
      large  == "large" \in flags
      sign   == IF "sign" \notin flags THEN <<>>
                ELSE IF num < 0 THEN <<Minus>>
                ELSE IF "+" \in flags THEN <<Plus>>
                ELSE IF " " \in flags THEN <<Blank>> ELSE <<>>
      prefix == IF "#" \notin flags THEN <<>>
                ELSE IF base = 16 THEN <<Zero, DigitChar(33, large)>>
                ELSE IF base = 8 THEN <<Zero>> ELSE <<>>
      tmp    == Digits(IF num < 0 THEN -num ELSE num, base, large)
      digits == IF Len(tmp) > prec THEN Len(tmp) ELSE prec
      room   == Room(size, sign, prefix, digits)
  IN  Repeat(Blank, IF zero \/ left THEN 0 ELSE room)
      \o sign \o prefix
      \o Repeat(Zero, IF zero THEN room ELSE 0)
      \o Repeat(Zero, digits - Len(tmp)) \o tmp
      \o Repeat(Blank, IF left THEN room ELSE 0)

----------------------------------------------------------------------------
(* A directive's parameters; `*' takes an argument.                        *)

Item  == Head(out.items)
Stars == (IF Item.width = Star THEN 1 ELSE 0) + (IF Item.prec = Star THEN 1 ELSE 0)
Value == out.args[Stars + 1]

\* A negative width from the arguments is its absolute value, to the left.
field_width ==
  IF Item.width # Star THEN Item.width
  ELSE IF out.args[1] < 0 THEN -out.args[1] ELSE out.args[1]

Flags == Item.flags \cup IF Item.width = Star /\ out.args[1] < 0 THEN {"-"} ELSE {}

precision ==
  IF Item.prec # Star THEN Item.prec
  ELSE IF out.args[Stars] < 0 THEN 0 ELSE out.args[Stars]

Modulus == CASE Item.qual = "L" -> Word * Word
             [] Item.qual = "h" -> Short
             [] OTHER -> Word

\* va_arg: the argument is cut to the size of its type, and read as a signed
\* number for a signed conversion (but never with Z).
Argument(signed) ==
  LET v == Value % Modulus
  IN  IF signed /\ Item.qual # "Z" /\ v >= Modulus \div 2 THEN v - Modulus ELSE v

\* Blanks around a text, on the side the flags say.
Padded(text) ==
  LET blanks == Repeat(Blank, field_width - Len(text))
  IN  IF "-" \in Flags THEN text \o blanks ELSE blanks \o text

----------------------------------------------------------------------------
(* The call.                                                               *)

vsnprintf(size, format, args) ==
  /\ out.pc = "idle"
  /\ out' = [OutIdle EXCEPT !.pc = "items", !.size = size, !.items = format,
                            !.args = args, !.old = mem, !.plan = <<format, args>>]
  /\ UNCHANGED mem

\* The item's characters are to be written and `taken' arguments are used up.
Emit(chars, taken) ==
  /\ out' = [out EXCEPT !.items = Tail(@), !.todo = chars, !.args = SubSeq(@, taken + 1, Len(@))]
  /\ UNCHANGED mem

\* if ( str <= end ) *str = c; ++str.
Put ==
  /\ out.pc = "items" /\ out.todo # <<>>
  /\ LET c == IF Head(out.todo) < 0 THEN mem[Load(Head(out.todo))] ELSE Head(out.todo)
     IN  /\ mem' = IF out.str <= End(out.size) THEN [mem EXCEPT ![out.str] = c] ELSE mem
         /\ out' = [out EXCEPT !.todo = Tail(@), !.str = After(@), !.text = Append(@, c)]

Ready == out.pc = "items" /\ out.todo = <<>>

At(convs) == Ready /\ out.items # <<>> /\ Item.conv \in convs

Literal == At({"literal"}) /\ Emit(<<Item.ch>>, 0)

CharConversion_NotCut == At({"c"}) /\ Emit(Padded(<<Value>>), Stars + 1)

CharConversion == At({"c"}) /\ Emit(Padded(<<Value % 256>>), Stars + 1)

\* "<NULL>"
NullText == <<60, 78, 85, 76, 76, 62>>

\* %s: a NULL pointer has a text of its own.  A string is measured first and then
\* read as it is written.  Bound: the call is not followed when a text that went
\* round the end of the memory has overwritten the NUL.
StringConversion ==
  /\ At({"s"})
  /\ Value # Null => \E e \in Cells : Value <= e /\ mem[e] = Nul
  /\ LET text == IF Value # Null
                 THEN [k \in 1 .. strnlen(mem, Value, precision) |-> Load(Value + k - 1)]
                 ELSE IF precision = None THEN NullText
                 ELSE SubSeq(NullText, 1, Least(precision, Len(NullText)))
     IN  Emit(Padded(text), Stars + 1)

\* Two digits for each byte of a pointer.
PointerConversion ==
  /\ At({"p"})
  /\ LET width == IF field_width = None THEN 2 * PointerBytes ELSE field_width
         flags == IF field_width = None THEN Flags \cup {"0"} ELSE Flags
     IN  Emit(number(Value % Word, 16, width, precision, flags), Stars + 1)

\* %n: the count so far goes where the argument points.
CountConversion ==
  /\ At({"n"})
  /\ out' = [out EXCEPT !.items = Tail(@), !.count = Counted(out.str),
                        !.args = SubSeq(@, Stars + 2, Len(@))]
  /\ UNCHANGED mem

PercentConversion == At({"%"}) /\ Emit(<<37>>, Stars)

NumberConversion ==
  /\ At({"o", "X", "x", "d", "i", "u"})
  /\ LET base  == CASE Item.conv = "o" -> 8 [] Item.conv \in {"X", "x"} -> 16 [] OTHER -> 10
         large == IF Item.conv = "X" THEN {"large"} ELSE {}
         sign  == IF Item.conv \in {"d", "i"} THEN {"sign"} ELSE {}
     IN  Emit(number(Argument(sign # {}), base, field_width, precision,
                     Flags \cup large \cup sign), Stars + 1)

\* Anything else is written as it stands; a `%' that ends the format (its ch
\* is the NUL) is written alone.
UnknownConversion ==
  At({"unknown"}) /\ Emit(IF Item.ch = Nul THEN <<37>> ELSE <<37, Item.ch>>, Stars)

Terminator_NotCut(str, end, size) == IF str <= end THEN {str} ELSE {}

Terminator_Always(str, end, size) == IF str <= end THEN {str} ELSE {end}

\* Where the NUL goes: behind the text, or on the last byte there is.
Terminator(str, end, size) ==
  IF str <= end THEN {str} ELSE IF size > 0 THEN {end} ELSE {}

Terminate ==
  /\ Ready /\ out.items = <<>>
  /\ mem' = [a \in Cells |-> IF a \in Terminator(out.str, End(out.size), out.size)
                             THEN Nul ELSE mem[a]]
  /\ out' = [out EXCEPT !.pc = "done", !.ret = Counted(out.str)]

FormatStep ==
  \/ Put \/ Literal \/ CharConversion \/ StringConversion \/ PointerConversion
  \/ CountConversion \/ PercentConversion \/ NumberConversion \/ UnknownConversion
  \/ Terminate
=============================================================================
