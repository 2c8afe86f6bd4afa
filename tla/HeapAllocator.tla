--------------------------- MODULE HeapAllocator ---------------------------
(***************************************************************************)
(* The kernel heap of src/mm_allocator.c, at the level of its memory: the  *)
(* headers of blocks and of free regions are two words of the heap itself, *)
(* a size and a link, and every list is followed through them.             *)
(*                                                                         *)
(* The heap is counted in words of four bytes: an address is the index of  *)
(* a word from the start of the heap, a size a number of words.  Each turn *)
(* of a loop of the code is one step.  Calls do not overlap: the callers   *)
(* run one at a time (src/interrupt.c:193, src/timer.c:67).                *)
(***************************************************************************)
EXTENDS Integers

CONSTANTS
  HeapWords,   \* nPages << MM_PAGE_OFFSETBITS, in words
  Requests,    \* sizes in bytes that clients ask MM_KAlloc for
  Extras       \* bytes that clients ask MM_KExpand for

Header == 2    \* sizeof(sMMAlloc_t) = sizeof(sMMFreeRegion_t)
Null   == -1
Top    == HeapWords - Header   \* MM_AllocInit keeps one header back at the end

ASSUME HeapAssumption ==
  /\ HeapWords \in Nat /\ HeapWords >= 3 * Header
  /\ Requests \subseteq Nat /\ Extras \subseteq Nat

VARIABLES
  mem,         \* the heap's words
  freeHead,    \* m_psFreeHead
  allocHead,   \* m_psAllocHead
  call,        \* the call in progress and its locals
  halt,        \* why halt() stopped the system, or "no"
  live,        \* history: the blocks clients hold
  damage       \* history: the first harm done to the lists

vars == <<mem, freeHead, allocHead, call, halt, live, damage>>
heads == <<freeHead, allocHead>>

SizeAt(p) == mem[p]
NextAt(p) == mem[p + 1]

Idle == [pc |-> "idle", fn |-> "none", p |-> Null, prev |-> Null, blk |-> Null, need |-> 0]

\* A spilled header makes the words of the heap meaningless: nothing is
\* modelled after it.
Running == halt = "no" /\ damage # "spill"

WordsOf(b) == b.at .. b.at + b.size - 1

\* The addresses on a list, found by following the links.
ListFrom(head) ==
  LET reach[n \in 0 .. HeapWords \div Header] ==
        IF n = 0 THEN {head}
        ELSE reach[n - 1] \cup {NextAt(p) : p \in reach[n - 1] \ {Null}}
  IN  reach[HeapWords \div Header] \ {Null}

FreeList  == ListFrom(freeHead)
AllocList == ListFrom(allocHead)

----------------------------------------------------------------------------
(* MM_Alloc: first fit, the free header moves up behind the new block.     *)

\* The header and the rounding up to a word.
SizeNeeded(bytes) == (bytes + 4 * Header + 3) \div 4

MM_Alloc(bytes) ==
  /\ Running /\ call = Idle
  /\ call' = [Idle EXCEPT !.pc = "fit", !.fn = "alloc", !.p = freeHead,
                          !.need = SizeNeeded(bytes)]
  /\ UNCHANGED <<mem, heads, halt, live, damage>>

Fits_WithoutHeader(p, need) == SizeAt(p) + Header >= need

\* The while loop's test: is this entry big enough?
Fits(p, need) == SizeAt(p) >= need

FitNext ==
  /\ Running /\ call.pc = "fit" /\ call.p # Null /\ ~Fits(call.p, call.need)
  /\ call' = [call EXCEPT !.prev = call.p, !.p = NextAt(call.p)]
  /\ UNCHANGED <<mem, heads, halt, live, damage>>

\* The block and the header behind it reach into another block, or onto the
\* header of another free region.
Spills(p, need) ==
  LET touched == p .. p + need + Header - 1
  IN  \/ \E b \in live : WordsOf(b) \cap touched # {}
      \/ \E f \in FreeList \ {p} : {f, f + 1} \cap touched # {}

\* The block's own words, which its client is free to write, count as 0.
FitTake ==
  /\ Running /\ call.pc = "fit" /\ call.p # Null /\ Fits(call.p, call.need)
  /\ LET p == call.p
         q == call.p + call.need
         m1 == [mem EXCEPT ![q] = SizeAt(p) - call.need]
         m2 == IF p = freeHead THEN m1 ELSE [m1 EXCEPT ![call.prev + 1] = q]
         m3 == [m2 EXCEPT ![q + 1] = m2[p + 1], ![p] = call.need, ![p + 1] = allocHead]
     IN  /\ mem' = [w \in DOMAIN mem |-> IF w \in p + Header .. q - 1 THEN 0 ELSE m3[w]]
         /\ freeHead' = IF p = freeHead THEN q ELSE freeHead
         /\ allocHead' = p
         /\ live' = live \cup {[at |-> p, size |-> call.need]}
         /\ damage' = IF Spills(p, call.need) THEN "spill" ELSE damage
         /\ call' = IF call.fn = "alloc" THEN Idle
                    ELSE [call EXCEPT !.pc = "find", !.fn = "free", !.p = p, !.prev = Null]
  /\ UNCHANGED halt

FitFail ==
  /\ Running /\ call.pc = "fit" /\ call.p = Null
  /\ halt' = "oom"
  /\ UNCHANGED <<mem, heads, call, live, damage>>

----------------------------------------------------------------------------
(* MM_Free and MM_Expand.                                                  *)

\* Clients may pass any pointer at all.
Pointers == 0 .. HeapWords - 1

\* Both look the pointer up in the list of allocations first.
Lookup(fn, pointer, need) ==
  [Idle EXCEPT !.pc = "find", !.fn = fn, !.p = allocHead,
               !.blk = pointer - Header, !.need = need]

MM_Free(pointer) ==
  /\ Running /\ call = Idle
  /\ call' = Lookup("free", pointer, 0)
  /\ UNCHANGED <<mem, heads, halt, live, damage>>

MM_Expand(pointer, extra) ==
  /\ Running /\ call = Idle
  /\ call' = Lookup("expand", pointer, extra)
  /\ UNCHANGED <<mem, heads, halt, live, damage>>

IsLast_NotTested(p) == FALSE

\* The last entry of the list is the one MM_AllocInit made: it is no block.
IsLast(p) == NextAt(p) = Null

FindNext_ForgetsPrevious ==
  /\ Running /\ call.pc = "find" /\ call.p # call.blk /\ ~IsLast(call.p)
  /\ call' = [call EXCEPT !.p = NextAt(call.p)]
  /\ UNCHANGED <<mem, heads, halt, live, damage>>

FindNext ==
  /\ Running /\ call.pc = "find" /\ call.p # call.blk /\ ~IsLast(call.p)
  /\ call' = [call EXCEPT !.prev = call.p, !.p = NextAt(call.p)]
  /\ UNCHANGED <<mem, heads, halt, live, damage>>

FindInvalid ==
  /\ Running /\ call.pc = "find" /\ IsLast(call.p)
  /\ halt' = "invalid"
  /\ UNCHANGED <<mem, heads, call, live, damage>>

\* MM_Free unlinks the block and turns to the free list.
FindRemove ==
  /\ Running /\ call.pc = "find" /\ call.fn = "free"
  /\ call.p = call.blk /\ ~IsLast(call.p)
  /\ IF call.prev = Null
     THEN allocHead' = NextAt(call.p) /\ UNCHANGED mem
     ELSE mem' = [mem EXCEPT ![call.prev + 1] = NextAt(call.p)] /\ UNCHANGED allocHead
  /\ live' = {b \in live : b.at # call.blk}
  /\ call' = [call EXCEPT !.pc = "order", !.p = freeHead, !.prev = Null]
  /\ UNCHANGED <<freeHead, halt, damage>>

\* MM_Expand allocates the old size and some more; FitTake then goes on with
\* the copy (of bytes that count as 0) and with freeing the old block.
FindExpand ==
  /\ Running /\ call.pc = "find" /\ call.fn = "expand"
  /\ call.p = call.blk /\ ~IsLast(call.p)
  /\ call' = [call EXCEPT !.pc = "fit", !.p = freeHead, !.prev = Null,
                          !.need = SizeNeeded(4 * SizeAt(call.p) + call.need)]
  /\ UNCHANGED <<mem, heads, halt, live, damage>>

\* The free list is kept in descending order of address.
Before(p, blk) == p > blk

OrderNext ==
  /\ Running /\ call.pc = "order" /\ Before(call.p, call.blk)
  /\ call' = [call EXCEPT !.prev = call.p, !.p = NextAt(call.p)]
  /\ UNCHANGED <<mem, heads, halt, live, damage>>

\* The code inserts behind psPreviousFree without asking whether it is NULL
\* (see FreeListSound).
OrderInsert ==
  /\ Running /\ call.pc = "order" /\ ~Before(call.p, call.blk) /\ call.prev # Null
  /\ mem' = [mem EXCEPT ![call.blk + 1] = call.p, ![call.prev + 1] = call.blk]
  /\ call' = [call EXCEPT !.pc = "merge", !.p = call.prev, !.prev = Null]
  /\ UNCHANGED <<heads, halt, live, damage>>

----------------------------------------------------------------------------
(* MM_Coalesce, from the region before the new one to the end of the list. *)

Adjacent_OffByOne(p, n) == n + SizeAt(n) + 1 = p

Adjacent_InOrder(p, n) == n + SizeAt(n) <= p

Adjacent(p, n) == n + SizeAt(n) = p

Joined_LowerOnly(n, p) == SizeAt(n)

Joined(n, p) == SizeAt(n) + SizeAt(p)

\* The lower region grows over the upper one.  Its predecessor, when the loop
\* has seen one, is made to point past the upper region; otherwise the upper
\* region stays on the list.
Merge ==
  LET p == call.p
      n == NextAt(call.p)
  IN  /\ Running /\ call.pc = "merge" /\ n # Null /\ Adjacent(p, n)
      /\ LET m1 == [mem EXCEPT ![n] = Joined(n, p)]
         IN  mem' = IF call.prev # Null THEN [m1 EXCEPT ![call.prev + 1] = n] ELSE m1
      /\ freeHead' = IF p = freeHead THEN n ELSE freeHead
      /\ damage' = IF damage = "none" /\ call.prev = Null /\ p # freeHead
                   THEN "relink" ELSE damage
      /\ call' = [call EXCEPT !.p = n]
      /\ UNCHANGED <<allocHead, halt, live>>

MergeNext_NoAdvance ==
  LET n == NextAt(call.p)
  IN  /\ Running /\ call.pc = "merge" /\ n # Null /\ ~Adjacent(call.p, n)
      /\ call' = [call EXCEPT !.prev = call.p]
      /\ UNCHANGED <<mem, heads, halt, live, damage>>

MergeNext ==
  LET n == NextAt(call.p)
  IN  /\ Running /\ call.pc = "merge" /\ n # Null /\ ~Adjacent(call.p, n)
      /\ call' = [call EXCEPT !.prev = call.p, !.p = n]
      /\ UNCHANGED <<mem, heads, halt, live, damage>>

MergeDone ==
  /\ Running /\ call.pc = "merge" /\ NextAt(call.p) = Null
  /\ call' = Idle
  /\ UNCHANGED <<mem, heads, halt, live, damage>>

----------------------------------------------------------------------------

\* MM_AllocInit: the first entry of the list of allocations, then one free
\* region up to the header kept back.  The pages come zero-filled.
Init ==
  /\ mem = [w \in 0 .. HeapWords - 1 |->
              CASE w = 0 -> 0
                [] w = 1 -> Null
                [] w = Header -> Top - Header
                [] w = Header + 1 -> Null
                [] OTHER -> 0]
  /\ freeHead = Header /\ allocHead = 0
  /\ call = Idle /\ halt = "no" /\ live = {} /\ damage = "none"

Step ==
  \/ FitNext \/ FitTake \/ FitFail
  \/ FindNext \/ FindInvalid \/ FindRemove \/ FindExpand
  \/ OrderNext \/ OrderInsert
  \/ Merge \/ MergeNext \/ MergeDone

Next ==
  \/ \E bytes \in Requests : MM_Alloc(bytes)
  \/ \E pointer \in Pointers : MM_Free(pointer)
  \/ \E pointer \in Pointers, extra \in Extras : MM_Expand(pointer, extra)
  \/ FitNext \/ FitTake \/ FitFail
  \/ FindNext \/ FindInvalid \/ FindRemove \/ FindExpand
  \/ OrderNext \/ OrderInsert
  \/ Merge \/ MergeNext \/ MergeDone

Spec == Init /\ [][Next]_vars

\* A call that was made goes on to its end.
FairSpec == Spec /\ WF_vars(Step)

----------------------------------------------------------------------------
(* Properties.                                                             *)

\* Between two calls, and before the lists were first harmed.
Quiet == call = Idle /\ halt = "no" /\ damage = "none"

TypeOK ==
  /\ mem \in [0 .. HeapWords - 1 -> Int]
  /\ freeHead \in 0 .. HeapWords - Header /\ allocHead \in 0 .. HeapWords - Header
  /\ halt \in {"no", "oom", "invalid"}
  /\ damage \in {"none", "relink", "spill"}

Regions == {[at |-> f, size |-> SizeAt(f)] : f \in FreeList}

\* Every word between the first entry and the header kept back belongs to
\* exactly one live block or one region of the free list: nothing is lost by
\* freeing, merging and splitting, and nothing is handed out twice.
HeapTiled ==
  Quiet =>
    /\ UNION {WordsOf(b) : b \in live \cup Regions} = Header .. Top - 1
    /\ \A b, c \in live \cup Regions : b # c => WordsOf(b) \cap WordsOf(c) = {}

\* The free list is in descending order, no two of its regions touch, and its
\* head is above every live block: MM_Free never gets to insert a block with a
\* NULL psPreviousFree, which it follows without a test.
FreeListSound ==
  /\ damage = "none" /\ call.pc = "order" /\ ~Before(call.p, call.blk) => call.prev # Null
  /\ Quiet => /\ \A f \in FreeList : NextAt(f) # Null =>
                   NextAt(f) + SizeAt(NextAt(f)) < f
              /\ \A b \in live : b.at < freeHead

\* The list of allocations holds exactly the live blocks, with their sizes,
\* and the entry MM_AllocInit made.
LiveBlocksListed ==
  Quiet => /\ AllocList = {0} \cup {b.at : b \in live}
           /\ \A b \in live : SizeAt(b.at) = b.size

\* A pointer that is not to a live block (freed before, to the first entry,
\* or into the middle of a block) stops the system, and only such a pointer.
InvalidFreeHalts ==
  [][call.pc = "find" /\ damage = "none" =>
       LET held == \E b \in live : b.at = call.blk
       IN  /\ halt' = "invalid" => ~held
           /\ call'.pc # "find" => held]_vars

\* Only a block that leaves no room for the free header behind it reaches into
\* a block or a region that is not its own.
SpillsOnlyWithoutRoom ==
  [][damage = "none" /\ damage' = "spill" => SizeAt(call.p) < call.need + Header]_vars

\* Every call returns, unless it halts or the lists were harmed.
CallReturns == call # Idle ~> (call = Idle \/ halt # "no" \/ damage # "none")

\* The promise to clients.
Promise == INSTANCE HeapSpec WITH Words <- Header .. Top - 1, Header <- Header

\* Until the lists are first harmed, whatever the clients free and in whatever
\* order, each step of the loops implements the promise or leaves it alone: the
\* block that does the harm (see BigEnoughForHeader) still keeps it.
KeepsPromise ==
  Promise!Init /\ [][damage = "none" => Promise!Next \/ UNCHANGED live]_vars

\* The comments in MM_Free (153) and MM_Coalesce (247): free regions are kept
\* in order so that holes can be merged, and the region before a merged one is
\* pointed to the new larger one.  So no region of the free list lies in
\* another, between calls.
FreeRegionsDisjoint ==
  call = Idle /\ Running =>
    \A b, c \in Regions : b # c => WordsOf(b) \cap WordsOf(c) = {}

\* The comments in MM_Alloc (73, 76): an entry that passes the test is big
\* enough for the block and for the free header moved ahead of it.
BigEnoughForHeader == damage # "spill"
============================================================================
