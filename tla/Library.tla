------------------------------ MODULE Library ------------------------------
(***************************************************************************)
(* The kernel's C library, its descriptor setters and their clients.  The  *)
(* library keeps no state between calls, so a behaviour is one use of it   *)
(* on a memory that clients have prepared: an operation that writes        *)
(* memory, the parsing of the command line, sscanf on a text, or snprintf  *)
(* and then sscanf on what it wrote; or else a sequence of descriptor      *)
(* calls.  The functions that only read are looked at on every memory.     *)
(***************************************************************************)
EXTENDS Format, Scan, Parameters, Descriptors, FiniteSets

CONSTANTS
  Blocks,        \* memories for the operations on areas
  Texts,         \* memories with strings
  CommandLines,  \* memories with a command line at 0 and "quiet" at Quiet
  Scratch,       \* the memory snprintf starts on
  Inputs,        \* memories with a text at 0 for sscanf
  Sizes,         \* sizes of snprintf's buffer
  Formats,       \* pairs of a format and its arguments for snprintf
  ScanFormats,   \* formats for sscanf
  Bases,         \* bases for strtol and strtoul, 2 to 36
  Places,        \* bound: addresses of areas and strings
  MaxCount,      \* bound: longest count for an operation on an area
  Addresses,     \* bases of segments and handlers of gates
  Limits         \* limits of segments

\* Addresses and limits are words; areas lie in the memory.
ASSUME LibraryAssumption ==
  /\ Addresses \subseteq 0 .. Bits32 - 1 /\ Limits \subseteq 0 .. Bits32 - 1
  /\ Places \subseteq Nat /\ MaxCount \in Nat /\ Bases \subseteq 2 .. 36
  /\ Blocks \subseteq [DOMAIN Scratch -> 0 .. 255]
  /\ \A p \in Places : p .. p + MaxCount - 1 \subseteq DOMAIN Scratch

\* How many arguments the first k items of a format take.
Taken(format, k) ==
  LET upto[j \in 0 .. k] ==
        IF j = 0 THEN 0
        ELSE upto[j - 1] + (IF format[j].width = Star THEN 1 ELSE 0)
                         + (IF format[j].prec = Star THEN 1 ELSE 0)
                         + (IF format[j].conv \in {"literal", "%", "unknown"} THEN 0 ELSE 1)
  IN  upto[k]

\* Addresses are words, and a buffer's size is one too; a format has its arguments,
\* and a string of theirs ends outside the buffer.
ASSUME PrintAssumption ==
  /\ \E top \in DOMAIN Scratch : DOMAIN Scratch = 0 .. top /\ Sizes \subseteq 0 .. top
  /\ Scratch \in [DOMAIN Scratch -> 0 .. 255] /\ Buf \in DOMAIN Scratch \ {0}
  /\ PointerBytes \in Nat /\ Formats \subseteq Seq(Items) \X Seq(Int)
  /\ \A f \in Formats : \A k \in 1 .. Len(f[1]) :
       /\ Taken(f[1], k) <= Len(f[2])
       /\ f[1][k].conv = "s" /\ f[2][Taken(f[1], k)] # Null =>
            \A size \in Sizes : \E e \in DOMAIN Scratch :
              /\ f[2][Taken(f[1], k)] \in 0 .. e
              /\ Scratch[e] = Nul /\ e \notin Buf .. Buf + size - 1

\* Strings end, and behind each there is room for another one and for a count.
ASSUME TextAssumption ==
  /\ Texts \subseteq [DOMAIN Scratch -> 0 .. 255]
  /\ \A m \in Texts : \A d, s \in Places : \E e, f \in DOMAIN Scratch :
       /\ d <= e /\ m[e] = Nul /\ s <= f /\ m[f] = Nul
       /\ e + (f - s) + MaxCount + 1 \in DOMAIN Scratch

\* Command lines end, and "quiet" is five characters, none of them white space.
ASSUME CommandAssumption ==
  /\ 5 <= HalfWord
  /\ CommandLines \subseteq [DOMAIN Scratch -> 0 .. 255] /\ Quiet \in Nat
  /\ \A m \in CommandLines :
       /\ \E e \in DOMAIN Scratch : m[e] = Nul
       /\ \A k \in Quiet .. Quiet + 4 : k \in DOMAIN m /\ m[k] # Nul /\ ~isspace(m[k])

\* Texts for sscanf end, and its formats are items.
ASSUME ScanAssumption ==
  /\ Inputs \subseteq [DOMAIN Scratch -> 0 .. 255] /\ ScanFormats \subseteq Seq(ScanItems)
  /\ \A m \in Inputs : \E e \in DOMAIN Scratch : m[e] = Nul

VARIABLE last    \* the operation that wrote memory, or NoCall

vars == <<mem, out, in, parse, g_bQuietMode, last, tables>>

NoCall == [fn |-> "none", d |-> 0, s |-> 0, n |-> 0, old |-> <<>>]

Resting == out.pc = "idle" /\ in.pc = "idle" /\ parse.pc = "idle" /\ last = NoCall
Idle == Resting /\ \A i \in DOMAIN gdt : gdt[i] = NoSegment
                /\ \A v \in Vectors : idt[v] = NoGate

Counts == 0 .. MaxCount
LongCounts == {HalfWord, HalfWord + 1, Word - 1}   \* counts around the sign of a word
Area(a, n) == a .. a + n - 1

StringAt(m, s) == [k \in 1 .. strlen(m, s) |-> m[s + k - 1]]

Others == UNCHANGED <<out, in, parse, g_bQuietMode, tables>>

\* The call `fn' turns the memory into m.
Writes(fn, d, s, n, m) ==
  /\ mem' = m
  /\ last' = [fn |-> fn, d |-> d, s |-> s, n |-> n, old |-> mem]
  /\ Others

----------------------------------------------------------------------------
(* Calls.  memcpy may only be used on areas that overlap downwards, which  *)
(* is how TextModeVideo_WriteChar scrolls; memmove on any.                 *)

Memcpy(d, s, n) ==
  /\ d <= s \/ d >= s + n
  /\ \/ n > 0 /\ n % 4 = 0 /\ Writes("memcpy", d, s, n, memcpy_by4(mem, d, s, n))
     \/ n % 4 = 2 /\ Writes("memcpy", d, s, n, memcpy_by2(mem, d, s, n))
     \/ Writes("memcpy", d, s, n, memcpy_g(mem, d, s, n))

Memmove(d, s, n) == Writes("memmove", d, s, n, memmove(mem, d, s, n))

Memset(d, c, n) ==
  \/ n > 0 /\ n % 4 = 0 /\ Writes("memset", d, c, n, memset_by4(mem, d, c, n))
  \/ n % 4 = 2 /\ Writes("memset", d, c, n, memset_by2(mem, d, c, n))
  \/ Writes("memset", d, c, n, memset_cg(mem, d, c, n))

CopyArea ==
  /\ Idle /\ mem \in Blocks
  /\ \E d, s \in Places, n \in Counts : Memcpy(d, s, n) \/ Memmove(d, s, n)

SetArea ==
  /\ Idle /\ mem \in Blocks
  /\ \E d \in Places, n \in Counts : Memset(d, Blank, n)

\* The string at s, and the place at d for a result of `room' bytes, share
\* nothing.
Apart(d, s, room) == Area(d, room) \cap Area(s, strlen(mem, s) + 1) = {}

Strcpy(d, s) ==
  Apart(d, s, strlen(mem, s) + 1) /\ Writes("strcpy", d, s, 0, strcpy(mem, d, s))

Strncpy(d, s, n) == Apart(d, s, n) /\ Writes("strncpy", d, s, n, strncpy(mem, d, s, n))

Strcat(d, s) ==
  /\ Apart(d, s, strlen(mem, d) + strlen(mem, s) + 1)
  /\ Writes("strcat", d, s, 0, strcat(mem, d, s))

Strncat(d, s, n) ==
  /\ Apart(d, s, strlen(mem, d) + Least(Rounds(n), strlen(mem, s) + 1) + 1)
  /\ Writes("strncat", d, s, n, strncat(mem, d, s, n))

CopyString ==
  /\ Idle /\ mem \in Texts
  /\ \E d, s \in Places :
       \/ Strcpy(d, s) \/ Strcat(d, s)
       \/ \E n \in Counts : Strncpy(d, s, n)
       \/ \E n \in Counts \cup LongCounts : Strncat(d, s, n)

Snprintf ==
  /\ Idle /\ mem = Scratch
  /\ \E size \in Sizes, f \in Formats : vsnprintf(size, f[1], f[2])
  /\ UNCHANGED <<in, parse, g_bQuietMode, last, tables>>

Sscanf ==
  /\ Idle /\ mem \in Inputs
  /\ \E format \in ScanFormats : sscanf(0, format)
  /\ UNCHANGED <<mem, out, parse, g_bQuietMode, last, tables>>

\* The directives that read what a format's directives have written.
Reading(format) ==
  [k \in 1 .. Len(format) |->
     CASE format[k].conv = "literal" -> IF isspace(format[k].ch) THEN White ELSE Match(format[k].ch)
       [] format[k].conv = "%" -> Match(37)
       [] OTHER -> Read(format[k].conv, format[k].qual, NoWidth, FALSE)]

\* The text has not reached the end of the memory, where it goes on at address 0.
InMemory == Buf + Len(out.text) <= Top

ReadBack ==
  /\ out.pc = "done" /\ out.size > 0 /\ InMemory /\ in.pc = "idle"
  /\ sscanf(Buf, Reading(out.plan[1]))
  /\ UNCHANGED <<mem, out, parse, g_bQuietMode, last, tables>>

Parse == Idle /\ mem \in CommandLines /\ ParseBegin /\ UNCHANGED <<mem, out, in, last, tables>>

\* The call in progress goes on.
Printing  == FormatStep /\ UNCHANGED <<in, parse, g_bQuietMode, last, tables>>
Scanning  == ScanStep /\ UNCHANGED <<mem, out, parse, g_bQuietMode, last, tables>>
Searching == ParseWord /\ UNCHANGED <<mem, out, in, last, tables>>

\* Descriptor calls in any order.
Describe ==
  /\ Resting /\ mem = Scratch
  /\ \/ \E s \in Selectors : \/ \E a \in Addresses : Descriptor_SetBase(s, a)
                            \/ \E l \in Limits : Descriptor_SetLimit(s, l)
                            \/ Descriptor_SetAccess(s, 146)
     \/ \E v \in Vectors, a \in Addresses, flags \in {"interrupt", "task", "call"} :
          SetGate(flags, v, a)
  /\ UNCHANGED <<mem, out, in, parse, g_bQuietMode, last>>

----------------------------------------------------------------------------

Init ==
  /\ mem \in Blocks \cup Texts \cup CommandLines \cup {Scratch} \cup Inputs
  /\ out = OutIdle /\ in = InIdle /\ parse = ParseIdle
  /\ g_bQuietMode = FALSE /\ last = NoCall /\ TablesInit

Next ==
  \/ CopyArea \/ SetArea \/ CopyString \/ Snprintf \/ Sscanf \/ ReadBack \/ Parse
  \/ Printing \/ Scanning \/ Searching \/ Describe

Spec == Init /\ [][Next]_vars
----------------------------------------------------------------------------
(* Properties.                                                             *)

\* Memory holds bytes; the functions' places and counts keep their ranges.
TypeOK ==
  /\ mem \in [DOMAIN Scratch -> 0 .. 255]
  /\ out.pc \in {"idle", "items", "done"} /\ out.str = (Buf + Len(out.text)) % (Top + 1)
  /\ in.pc \in {"idle", "items", "end", "done"} /\ in.n \in 0 .. Len(in.format)
  /\ parse.pc \in {"idle", "words", "done"} /\ g_bQuietMode \in BOOLEAN

\* memcpy on areas that do not overlap upwards, memmove on any two areas, and
\* memset, whichever variant is compiled in, leave exactly the bytes that were
\* asked for, and touch no other.
CopiesExactly ==
  last.fn \in {"memcpy", "memmove", "memset"} =>
    mem = [a \in Cells |-> IF a \notin Area(last.d, last.n) THEN last.old[a]
                           ELSE IF last.fn = "memset" THEN last.s
                           ELSE last.old[a - last.d + last.s]]

\* A string that is copied or appended ends up whole (or cut to the count) and
\* terminated (strncpy: filled up with NULs), and no byte is touched beyond
\* the string's end or the count; strncat's second NUL stays within the one
\* byte that callers have to leave for it.  A count that is below zero as a
\* signed word, when one is taken off, makes strncat append nothing.
StringsJoined ==
  LET o     == last.old
      src   == StringAt(o, last.s)
      kept  == IF last.fn \in {"strcat", "strncat"} THEN StringAt(o, last.d) ELSE <<>>
      cut   == IF last.fn \in {"strcpy", "strcat"} THEN src
               ELSE IF last.fn = "strncpy" THEN SubSeq(src, 1, Least(last.n, Len(src)))
               ELSE SubSeq(src, 1, Least(Rounds(last.n), Len(src)))
      all   == kept \o cut
      reach == CASE last.fn = "strncpy" -> last.n
                 [] last.fn = "strncat" -> Len(kept) + Least(Rounds(last.n), Len(src) + 1) + 1
                 [] OTHER -> Len(all) + 1
  IN  last.fn \in {"strcpy", "strncpy", "strcat", "strncat"} =>
        /\ \A a \in Cells \ Area(last.d, reach) : mem[a] = o[a]
        /\ \A k \in 1 .. Len(all) : mem[last.d + k - 1] = all[k]
        /\ \A k \in Len(all) .. (IF last.fn = "strncpy" THEN last.n - 1 ELSE Len(all)) :
             mem[last.d + k] = Nul

\* x is before y in the order of their bytes.
Precedes(x, y) ==
  \E k \in 0 .. Len(x) : /\ k < Len(y)
                        /\ SubSeq(x, 1, k) = SubSeq(y, 1, k)
                        /\ (k = Len(x) \/ x[k + 1] < y[k + 1])
Order(x, y) == IF x = y THEN 0 ELSE IF Precedes(x, y) THEN -1 ELSE 1

Upto(x, n) == SubSeq(x, 1, Least(n, Len(x)))
IsFirst(p, S) == IF S = {} THEN p = Null ELSE p \in S /\ \A q \in S : p <= q

\* The comparisons give the order of the two strings (of their first n bytes),
\* reading nothing behind a NUL, and the searches the first place there is:
\* NULL, or the end, if there is none.  strnlen takes a count of any size for
\* what it is; strncmp compares nothing when the count, less one, is below
\* zero as a signed word.
SearchesAgree ==
  Idle /\ mem \in Texts =>
    \A s, t \in Places, c \in {Nul, 97} :
      LET x == StringAt(mem, s)
          y == StringAt(mem, t)
          hits == {p \in Area(s, Len(x) + 1) : mem[p] = c}
      IN  /\ strcmp(mem, s, t) = Order(x, y)
          /\ \A n \in Counts \cup LongCounts :
               /\ strncmp(mem, s, t, n) = Order(Upto(x, Rounds(n)), Upto(y, Rounds(n)))
               /\ strnlen(mem, s, n) = Len(Upto(x, n))
          /\ \A n \in Counts :
               LET B(a) == [k \in 1 .. n |-> mem[a + k - 1]]
                   found == {p \in Area(s, n) : mem[p] = c}
               IN  /\ n > 0 => memcmp(mem, s, t, n) = Order(B(s), B(t))
                   /\ IsFirst(memchr(mem, s, c, n), found)
                   /\ IsFirst(memscan(mem, s, c, n), found \cup {s + n})
          /\ IsFirst(strchr(mem, s, c), hits)
          /\ IF hits = {} THEN strrchr(mem, s, c) = Null
             ELSE strrchr(mem, s, c) \in hits /\ \A q \in hits : q <= strrchr(mem, s, c)
          /\ IsFirst(s + strcspn(mem, s, t), {p \in Area(s, Len(x)) :
                        \E k \in 1 .. Len(y) : y[k] = mem[p]} \cup {s + Len(x)})
          /\ IsFirst(strstr(mem, s, t), {s + k : k \in {k \in 0 .. Len(x) - Len(y) :
                        SubSeq(x, k + 1, k + Len(y)) = y}})

\* The bytes a caller has given to snprintf; a size that goes round the end of
\* the memory means all of it.
BufferOf(size) == IF Buf + size - 1 > Top THEN Buf .. Top ELSE Area(Buf, size)

\* No byte outside the buffer is written, at any moment of the call and for
\* any size: not for 0 (where there is no byte even for the NUL), and not for a
\* size that makes the end of the buffer wrap around.  It takes a text that fits
\* between the buffer's beginning and the end of the memory: the code compares
\* the pointer with the end only, so that a longer text is written from address
\* 0 on, whatever the size.
BufferKept ==
  out.pc # "idle" /\ InMemory => \A a \in Cells \ BufferOf(out.size) : mem[a] = out.old[a]

\* The result is the length of the whole text (an int: up to half of the
\* addresses), and the buffer has as much of it as fits, always terminated
\* (Syslog_Entry hands it on as a string); for a text as in BufferKept.
TextTruncated ==
  LET room == Cardinality(BufferOf(out.size))
      kept == Upto(out.text, room - 1)
  IN  out.pc = "done" /\ InMemory =>
        /\ Len(out.text) <= Top \div 2 => out.ret = Len(out.text)
        /\ room > 0 => /\ \A k \in 1 .. Len(kept) : mem[Buf + k - 1] = kept[k]
                       /\ mem[Buf + Len(kept)] = Nul

Strip(x, c) ==
  LET from == CHOOSE k \in 1 .. Len(x) + 1 :
                (k > Len(x) \/ x[k] # c) /\ \A j \in 1 .. k - 1 : x[j] = c
  IN  SubSeq(x, from, Len(x))

\* The field width only adds to the text of a number: blanks on the side that
\* the flags say, or zeros behind sign and prefix; and no more than fill the
\* field.  (The precision and the parts before the digits are taken from the
\* same count, which may go below zero.)
FieldFilled ==
  Idle /\ mem = Scratch =>
    \A v \in {1 - Word, -9, 0, 7, 10, Word, Word * Word - 1}, base \in {8, 10, 16} :
      \A flags \in SUBSET {"-", "0", "+", "#", "sign"}, size, prec \in -1 .. 7 :
        (v >= 0 \/ "sign" \in flags) =>
        LET bare  == number(v, base, None, prec, flags)
            field == number(v, base, size, prec, flags)
        IN  /\ Len(field) = (IF size > Len(bare) THEN size ELSE Len(bare))
            /\ "-" \in flags => Upto(field, Len(bare)) = bare
            /\ flags \cap {"-", "0"} = {} => Strip(field, Blank) = bare

\* What sscanf should store for the items that convert, in their order.
Meant(format, args) ==
  LET stored(k) == LET a == args[Taken(format, k)] IN
        IF format[k].conv = "s" THEN (IF a = Null THEN NullText ELSE StringAt(Scratch, a))
        ELSE <<a % (IF format[k].qual = "h" THEN Short ELSE Word)>>
      upto[k \in 0 .. Len(format)] ==
        IF k = 0 THEN <<>>
        ELSE IF format[k].conv = "literal" THEN upto[k - 1]
        ELSE Append(upto[k - 1], stored(k))
  IN  upto[Len(format)]

\* Directives whose text is read again as the same value: with %i and %u, which
\* sscanf takes to be octal after a 0, no leading zeros; nothing stuck to
\* the next text.
Readable(format) ==
  \A k \in 1 .. Len(format) :
    /\ format[k].conv \in {"literal", "d", "i", "u", "o", "x", "X", "p", "s"}
    /\ format[k].qual \in {"", "h", "l"}
    /\ format[k].conv \in {"i", "u"} => "0" \notin format[k].flags /\ format[k].prec = None
    /\ format[k].conv = "s" => format[k].prec = None
    /\ format[k].conv # "literal" /\ k < Len(format) => isspace(format[k + 1].ch)

\* What snprintf wrote, with any flags, widths and precisions, sscanf reads back
\* as the values it was given, in as many conversions, if it all fitted.
RoundTrip ==
  LET format == out.plan[1]
      meant  == Meant(format, out.plan[2])
  IN  /\ out.pc = "done" /\ in.pc = "done"
      /\ Len(out.text) < Cardinality(BufferOf(out.size)) /\ Readable(format)
      => in.stored = meant /\ (meant # <<>> => in.ret = Len(meant))

\* sscanf never fetches a character behind the NUL that ends its text, whatever
\* the format asks for; but it takes the end for a character 255 that the format
\* has to match, and a number in floating point whose exponent letter is the
\* last character makes it fetch the end and go on with the letter.
ReadsInText ==
  LET end == in.from + strlen(mem, in.from)
  IN  /\ in.pc # "idle"
      /\ \A k \in 1 .. Len(in.format) :
           /\ in.format[k].ch # 255
           /\ in.format[k].conv = "f" /\ in.from < end => mem[end - 1] \notin Exponents
      => in.str <= end + 1

\* The digits of a number in any base, behind blanks, a sign or a prefix, with
\* leading zeros and before any other character, are converted to that number
\* and the pointer is left behind them.  (For a number that does not fit, the
\* test w < v may or may not notice.)
NumbersConverted ==
  Idle /\ mem = Scratch =>
    \A v \in 0 .. Word - 1, b \in Bases, base \in Bases \cup {0}, large \in BOOLEAN :
      \A lead \in {<<>>, <<Blank>>, <<Plus>>}, zeros \in {<<>>, <<Zero>>, <<Zero, 120>>} :
        LET text(sign) == lead \o sign \o zeros \o Digits(v, b, large)
            m(sign)    == [a \in Cells |-> IF a < Len(text(sign)) THEN text(sign)[a + 1]
                                           ELSE IF a = Top THEN Nul ELSE 47]
            fits == \/ b = base /\ zeros # <<Zero, 120>>
                    \/ b = 10 /\ base = 0 /\ zeros = <<>> /\ v # 0
                    \/ b = 8 /\ base = 0 /\ zeros = <<Zero>>
                    \/ b = 16 /\ base \in {0, 16} /\ zeros = <<Zero, 120>>
        IN  fits /\ Len(text(<<Minus>>)) <= Top =>
              /\ strtoul(m(<<>>), 0, base) = [v |-> v, end |-> Len(text(<<>>))]
              /\ v < HalfWord => strtol(m(<<>>), 0, base).v = v
              /\ v <= HalfWord /\ lead # <<Plus>> =>
                   strtol(m(<<Minus>>), 0, base) = [v |-> -v, end |-> Len(text(<<Minus>>))]

\* Quiet mode is on exactly if a word of the command line after the first begins
\* with "quiet": not for the kernel's own name, nor for a part of another word.
QuietAsked ==
  parse.pc = "done" =>
    (g_bQuietMode <=>
       \E k \in 1 .. strlen(mem, 0) : /\ isspace(mem[k - 1])
                                     /\ \A j \in 0 .. 4 : mem[k + j] = mem[Quiet + j])

\* The processor finds each segment and each gate as it was last set, however
\* the setters follow each other (they share the entry, and two of its fields
\* hold parts of two settings): a limit that does not fit is rounded up, by
\* less than a page.
DescriptorsRead ==
  /\ \A i \in Segments :
       LET e == gdt[i]
           w == wanted.segments[i]
           l == SegmentLimit(e)
       IN  /\ SegmentBase(e) = w.base /\ e.attributes = w.access
           /\ w.limit <= l /\ l < w.limit + (IF Coarse(w.limit) THEN Bits12 ELSE 1)
  /\ \A v \in Vectors :
       [handler |-> GateHandler(idt[v]), flags |-> idt[v].flags] = wanted.gates[v]
============================================================================
