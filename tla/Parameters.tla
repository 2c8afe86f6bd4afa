----------------------------- MODULE Parameters -----------------------------
(***************************************************************************)
(* Kernel_ParseParameters of kernel-main.c: the boot loader's command line *)
(* is cut into words at white space, the first one being the name of the   *)
(* kernel, and each other word is looked at for "quiet".                   *)
(***************************************************************************)
EXTENDS Numbers

CONSTANT
  Quiet      \* where the kernel image holds the string "quiet"

VARIABLES
  parse,         \* [pc, i]: where the function is, and its index
  g_bQuietMode

ParseIdle == [pc |-> "idle", i |-> 0]

EndOfWord(i) ==
  LET at[k \in Nat] == IF mem[k] = Nul \/ isspace(mem[k]) THEN k ELSE at[k + 1] IN at[i]

\* Scan until either the end or the first space.
ParseBegin ==
  /\ parse.pc = "idle"
  /\ LET i == EndOfWord(0)
     IN  parse' = [pc |-> IF mem[i] = Nul THEN "done" ELSE "words", i |-> i]
  /\ UNCHANGED g_bQuietMode

IsQuiet_AnyLength(i, nEnd) == strncmp(mem, i, Quiet, nEnd - i) = 0

\* Five characters are compared, however long the word is.
IsQuiet(i, nEnd) == strncmp(mem, i, Quiet, 5) = 0

ParseWord ==
  /\ parse.pc = "words"
  /\ LET i    == SkipSpace(mem, parse.i)
         nEnd == EndOfWord(i)
     IN  /\ parse' = [pc |-> IF mem[nEnd] = Nul THEN "done" ELSE "words", i |-> nEnd]
         /\ g_bQuietMode' = (g_bQuietMode \/ IsQuiet(i, nEnd))

ParseStep == ParseBegin \/ ParseWord
=============================================================================
