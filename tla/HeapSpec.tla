------------------------------ MODULE HeapSpec ------------------------------
(***************************************************************************)
(* What the allocator of src/mm_allocator.c promises its clients: a block  *)
(* it hands out lies in the heap and shares no word with a block that is   *)
(* still live, until the client frees it.                                  *)
(***************************************************************************)
EXTENDS Integers

CONSTANTS
  Words,    \* the heap's words, a set of integers
  Header    \* words of a block that belong to the allocator

VARIABLE live  \* the blocks handed out: [at |-> first word, size |-> words]

WordsOf(b) == b.at .. b.at + b.size - 1

Alloc(at, size) ==
  LET b == [at |-> at, size |-> size]
  IN  /\ size >= Header
      /\ WordsOf(b) \subseteq Words
      /\ \A c \in live : WordsOf(b) \cap WordsOf(c) = {}
      /\ live' = live \cup {b}

Free(b) == live' = live \ {b}

Init == live = {}

Next ==
  \/ \E at, size \in Words : Alloc(at, size)
  \/ \E b \in live : Free(b)

Spec == Init /\ [][Next]_live
=============================================================================
