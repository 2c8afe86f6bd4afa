----------------------------- MODULE MemoryInit -----------------------------
(***************************************************************************)
(* From the memory map of the boot loader to a running memory manager:     *)
(* MM_Init of src/mm.c, with the page tables that src/boot.S leaves, and    *)
(* TextModeVideo_PostMMInit after it.  The two loops over the memory map   *)
(* are one step per entry and one per page.                                *)
(*                                                                         *)
(* Addresses and lengths are counted in units of 256 bytes, by which the   *)
(* code scales the high halves of the map's 64-bit values (<< 8).          *)
(***************************************************************************)
EXTENDS Integers, Sequences, FiniteSets

CONSTANTS
  UnitsPerPage,    \* MM_PAGE_SIZE in units (16 on the machine)
  AddressPages,    \* pages of a 32-bit physical address (2^20)
  EntriesPerPage,  \* words in a page (1024)
  Kernel,          \* page of MM_KERNEL_ADDRESSPHYSICAL (0x100)
  KernelSize,      \* pages of the kernel, counted in boot.S
  PageDirectory,   \* page of MM_KERNEL_PDPHYSICAL (0x200)
  StackPages,      \* MM_KERNEL_STACKSIZE (16)
  FPSPhysical,     \* page of MM_KERNEL_FPSPHYSICAL (0x300)
  Maps             \* the memory maps boot loaders pass

\* What boot.S puts at 0x200000 and after.
CorePageTable == PageDirectory + 1
Stack         == PageDirectory + 2
ZeroPageTable == Stack + StackPages

AllPages == 0 .. AddressPages - 1
Word     == AddressPages * UnitsPerPage

\* An entry of the map.  Type 1 is RAM.
MapEntry == [base : 0 .. Word - 1, baseHigh : Nat, len : 0 .. Word - 1, lenHigh : Nat,
             type : {1, 2}]

ASSUME MemoryInitAssumption ==
  /\ UnitsPerPage \in Nat \ {0} /\ AddressPages \in Nat /\ EntriesPerPage \in Nat \ {0}
  /\ Kernel \in Nat /\ KernelSize \in Nat /\ StackPages \in Nat
  /\ PageDirectory \in Nat /\ FPSPhysical \in Nat
  /\ Kernel + KernelSize <= PageDirectory /\ ZeroPageTable < FPSPhysical
  /\ FPSPhysical < AddressPages
  /\ Maps \subseteq Seq(MapEntry)

VARIABLES
  pc,        \* how far MM_Init and Kernel_Main are
  map,       \* psMBInfo's memory map
  i, j,      \* loop counters: entry, page of the entry
  nPages,    \* pages counted, then pages of the free page stack
  fps,       \* the free page stack, first entry first
  idx,       \* m_nMemory_FPSIndex
  identity,  \* page directory entry 0 is present (the table at ZeroPageTable)
  handed,    \* history: frames taken from the stack
  halt       \* why halt() stopped the system, or "no"

vars == <<pc, map, i, j, nPages, fps, idx, identity, handed, halt>>

----------------------------------------------------------------------------
(* The memory map, as the code reads it.                                   *)

IsRAM(e) == e.type = 1

nAddr(e) == (e.baseHigh + e.base) % Word

nLen(e) == ((e.lenHigh + e.len) % Word) \div UnitsPerPage

OnBoundary(address) == address % UnitsPerPage = 0

\* An entry whose memory the code takes.
Usable(e) == IsRAM(e) /\ OnBoundary(nAddr(e))

\* What is taken lies below 4 GB, where the code reads it, and no entry has
\* memory of another's.
ASSUME MapsAssumption ==
  \A m \in Maps : \A k \in DOMAIN m : Usable(m[k]) =>
    /\ m[k].baseHigh = 0 /\ m[k].lenHigh = 0 /\ m[k].base + m[k].len <= Word
    /\ \A l \in DOMAIN m \ {k} : Usable(m[l]) =>
         \/ m[k].base + m[k].len <= m[l].base
         \/ m[l].base + m[l].len <= m[k].base

\* The memory the kernel is loaded into goes on for two pages after the table at
\* ZeroPageTable, and the free page stack comes after those.
ASSUME ReachAssumption ==
  /\ ZeroPageTable + 2 < FPSPhysical
  /\ \A m \in Maps : \E k \in DOMAIN m :
       /\ Usable(m[k]) /\ m[k].base <= ZeroPageTable * UnitsPerPage
       /\ (ZeroPageTable + 3) * UnitsPerPage <= m[k].base + m[k].len

PagesFor_RoundDown(entries) == entries \div EntriesPerPage

\* The pages that so many stack entries of one word take.
PagesFor(entries) == (entries + EntriesPerPage - 1) \div EntriesPerPage

\* Without a memory map there is nothing to do.
CheckMap(present) ==
  /\ pc = "check" /\ halt = "no"
  /\ IF present THEN pc' = "count" /\ UNCHANGED halt
     ELSE halt' = "nomap" /\ UNCHANGED pc
  /\ UNCHANGED <<map, i, j, nPages, fps, idx, identity, handed>>

CountEntry ==
  /\ pc = "count" /\ halt = "no" /\ i <= Len(map)
  /\ IF IsRAM(map[i]) /\ ~OnBoundary(nAddr(map[i]))
     THEN halt' = "boundary" /\ UNCHANGED <<i, nPages>>
     ELSE /\ nPages' = nPages + (IF IsRAM(map[i]) THEN nLen(map[i]) ELSE 0)
          /\ i' = i + 1 /\ UNCHANGED halt
  /\ UNCHANGED <<pc, map, j, fps, idx, identity, handed>>

\* The stack is mapped behind the kernel, the page directory and the stack,
\* in the kernel's own page table: a stack that reached past that table is
\* not modelled.
MapStack ==
  LET n == PagesFor(nPages)
  IN  /\ pc = "count" /\ halt = "no" /\ i > Len(map)
      /\ KernelSize + 1 + StackPages + n <= EntriesPerPage
      /\ nPages' = n /\ idx' = 0 /\ i' = 1 /\ j' = 0 /\ pc' = "fill"
      /\ UNCHANGED <<map, fps, identity, handed, halt>>

----------------------------------------------------------------------------
(* Filling the free page stack.                                            *)

Within(p, first, n) == first <= p /\ p < first + n

Excluded_NoStack(p, stackSize) ==
  \/ Within(p, Kernel, KernelSize)
  \/ Within(p, PageDirectory, 2)
  \/ Within(p, FPSPhysical, stackSize)

\* "excluding any as necessary": the kernel itself; stack space, page
\* directory and the core page table; the free page stack.
Excluded(p, stackSize) ==
  \/ Within(p, Kernel, KernelSize)
  \/ Within(p, PageDirectory, 2 + StackPages)
  \/ Within(p, FPSPhysical, stackSize)

FillPage ==
  LET p == ((nAddr(map[i]) + j * UnitsPerPage) % Word) \div UnitsPerPage
  IN  /\ pc = "fill" /\ halt = "no" /\ i <= Len(map)
      /\ IsRAM(map[i]) /\ j < nLen(map[i])
      /\ IF Excluded(p, nPages) THEN UNCHANGED <<fps, idx>>
         ELSE fps' = Append(fps, p) /\ idx' = idx + 1
      /\ j' = j + 1
      /\ UNCHANGED <<pc, map, i, nPages, identity, handed, halt>>

FillNextEntry_OneTooFar ==
  /\ pc = "fill" /\ halt = "no" /\ i <= Len(map) + 1
  /\ i <= Len(map) /\ IsRAM(map[i]) => j = nLen(map[i])
  /\ i' = i + 1 /\ j' = 0
  /\ UNCHANGED <<pc, map, nPages, fps, idx, identity, handed, halt>>

FillNextEntry ==
  /\ pc = "fill" /\ halt = "no" /\ i <= Len(map)
  /\ IsRAM(map[i]) => j = nLen(map[i])
  /\ i' = i + 1 /\ j' = 0
  /\ UNCHANGED <<pc, map, nPages, fps, idx, identity, handed, halt>>

\* The index is dropped to the last entry.
FillDone ==
  /\ pc = "fill" /\ halt = "no" /\ i > Len(map)
  /\ idx' = idx - 1
  /\ pc' = "heap"
  /\ UNCHANGED <<map, i, j, nPages, fps, identity, handed, halt>>

----------------------------------------------------------------------------
(* The rest of MM_Init.                                                    *)

\* MM_Page_GetFree, n times, and on to the next step.
GetFree(n, next) ==
  IF idx + 1 < n THEN halt' = "oom" /\ UNCHANGED <<idx, handed, pc>>
  ELSE /\ handed' = handed \cup {fps[k + 1] : k \in idx - n + 1 .. idx}
       /\ idx' = idx - n
       /\ pc' = next /\ UNCHANGED halt

\* MM_AllocInit writes the first headers of the heap: the page fault takes a
\* frame for the page table and one for the page.
InitHeap ==
  /\ pc = "heap" /\ halt = "no"
  /\ GetFree(2, "unmap")
  /\ UNCHANGED <<map, i, j, nPages, fps, identity>>

UnmapIdentity_Forgotten ==
  /\ pc = "unmap" /\ halt = "no"
  /\ pc' = "video"
  /\ UNCHANGED <<map, i, j, nPages, fps, idx, identity, handed, halt>>

\* The entries of the table at ZeroPageTable are cleared and its entry in the
\* page directory too.
UnmapIdentity ==
  /\ pc = "unmap" /\ halt = "no"
  /\ identity' = FALSE
  /\ pc' = "video"
  /\ UNCHANGED <<map, i, j, nPages, fps, idx, handed, halt>>

\* TextModeVideo_PostMMInit maps the frame buffer, in a table of its own.
TextModeVideo_PostMMInit ==
  /\ pc = "video" /\ halt = "no"
  /\ GetFree(1, "running")
  /\ UNCHANGED <<map, i, j, nPages, fps, identity>>

----------------------------------------------------------------------------

\* boot.S has mapped the first 4 MB, for the multiboot structures.
Init ==
  /\ map \in Maps
  /\ pc = "check" /\ i = 1 /\ j = 0 /\ nPages = 0
  /\ fps = <<>> /\ idx = 0
  /\ identity = TRUE /\ handed = {} /\ halt = "no"

Next ==
  \/ \E present \in BOOLEAN : CheckMap(present)
  \/ CountEntry \/ MapStack
  \/ FillPage \/ FillNextEntry \/ FillDone
  \/ InitHeap \/ UnmapIdentity \/ TextModeVideo_PostMMInit

Spec == Init /\ [][Next]_vars

----------------------------------------------------------------------------
(* Properties.                                                             *)

TypeOK ==
  /\ pc \in {"check", "count", "fill", "heap", "unmap", "video", "running"}
  /\ i \in 1 .. Len(map) + 1 /\ j \in Nat /\ nPages \in Nat
  /\ fps \in Seq(AllPages) /\ handed \subseteq AllPages
  /\ idx \in -1 .. Len(fps)
  /\ identity \in BOOLEAN
  /\ halt \in {"no", "nomap", "boundary", "oom"}

\* The pages of real memory below 4 GB.
RAM ==
  {p \in AllPages :
     \E k \in DOMAIN map :
       LET e == map[k]
       IN  /\ IsRAM(e) /\ e.baseHigh = 0
           /\ e.base <= p * UnitsPerPage
           /\ (p + 1) * UnitsPerPage <= e.base + e.len + e.lenHigh * Word}

\* What is in use for as long as the system runs.
InUse ==
  {p \in AllPages : \/ Within(p, Kernel, KernelSize)
                    \/ p \in {PageDirectory, CorePageTable}
                    \/ Within(p, Stack, StackPages)
                    \/ Within(p, FPSPhysical, nPages)}

Filled == pc \notin {"check", "count", "fill"}

OnStack == {fps[k + 1] : k \in 0 .. idx}

\* Once it is filled, the free page stack and what was taken from it are all
\* of the memory's whole pages but those in use, each of them once: no frame in use
\* can be handed out, none twice, and none is lost.
StackIsFreeRAM ==
  Filled => /\ \A k, l \in DOMAIN fps : fps[k] = fps[l] => k = l
            /\ OnStack \cap handed = {}
            /\ OnStack \cup handed = RAM \ InUse

\* Filling the stack never writes past the pages that were mapped for it.
StackFits == pc \notin {"check", "count"} => Len(fps) <= nPages * EntriesPerPage

\* The table of the identity mapping is not excluded from the stack; it is
\* not handed out, though, while the page directory still uses it.
IdentityTableKept == identity => ZeroPageTable \notin handed
=============================================================================
