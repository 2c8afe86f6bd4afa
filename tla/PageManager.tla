---------------------------- MODULE PageManager ----------------------------
(***************************************************************************)
(* The page manager of src/mm_page.c together with its main client, the    *)
(* page fault handler Exception_Page of src/arch/x86/exception.c.          *)
(*                                                                         *)
(* The page directory, the page tables, the free page stack (FPS) and the  *)
(* TLB are state.  A call that walks a run of pages (MM_Page_Map, ...) is  *)
(* one Begin step, one step per page and a Finish step, because the code   *)
(* runs with interrupts enabled once the kernel is up: an interrupt        *)
(* handler may touch a page, and fault, between two pages of the walk.     *)
(* A page fault enters through an interrupt gate, so Exception_Page runs   *)
(* to its end in one step.                                                 *)
(*                                                                         *)
(* Frames are named by the place they had on the free page stack when      *)
(* MM_Init had built it, so the pool is 0 .. FreeCount-1; the frames after *)
(* it are device memory, which drivers map with MM_Page_Map.               *)
(***************************************************************************)
EXTENDS Integers

CONSTANTS
  TableCount,   \* page directory entries (1024 on the machine)
  PTEntries,    \* MM_PAGE_ENTRIESPERPAGE (1024 on the machine)
  FreeCount,    \* frames MM_Init put on the free page stack
  DeviceCount,  \* device frames a driver may map
  Heap,         \* pages of m_pHeapStart .. m_pHeapEnd
  Perms,        \* combinations of {"user", "rw"} a caller asks for
  MaxRun        \* bound: longest nPageCount a caller passes

Tables == 0 .. TableCount - 1
PageCount == TableCount * PTEntries
Pages  == 0 .. PageCount - 1
Pool   == 0 .. FreeCount - 1
Device == FreeCount .. FreeCount + DeviceCount - 1
Frames == Pool \cup Device

NoFrame == -1     \* no translation, or a page directory entry not present

ASSUME PageManagerAssumption ==
  /\ TableCount \in Nat \ {0}
  /\ PTEntries \in Nat \ {0}
  /\ FreeCount \in Nat \ {0}
  /\ DeviceCount \in Nat
  /\ Heap \subseteq Pages
  /\ Perms \subseteq SUBSET {"user", "rw"}
  /\ MaxRun \in Nat

VARIABLES
  mm,   \* g_sKernel's page state: pd, pte, fps, idx, halt; history: dropped
  tlb,  \* translations the CPU has cached
  op    \* the walk in progress, or Idle

vars == <<mm, tlb, op>>

----------------------------------------------------------------------------
(* Page table entries.  The low twelve bits of an entry hold its flags.    *)

Entry == [present : BOOLEAN, zerofill : BOOLEAN, perm : SUBSET {"user", "rw"},
          frame : Frames \cup {NoFrame}]

ZeroEntry == [present |-> FALSE, zerofill |-> FALSE, perm |-> {}, frame |-> NoFrame]

\* What a frame holds before it is cleared; it may look like a live entry.
Junk == [present |-> TRUE, zerofill |-> FALSE, perm |-> {"rw"}, frame |-> 0]

\* nPhysicalPage & MM_PAGE_OFFSETMASK, tested against zero.
OffsetBitsSet(e) == e.present \/ e.zerofill \/ e.perm # {}

PDE(v) == v \div PTEntries

Halts == {"no", "oom", "fault", "unaligned"}

Idle == [kind |-> "idle", first |-> 0, v |-> 0, left |-> 0, phys |-> 0, perm |-> {}]

Kinds == {"map", "zerofill", "unmap", "free"}

\* v has a translation: its table is present and so is its entry.
Mapped(m, v) == m.pd[PDE(v)] # NoFrame /\ m.pte[v].present

\* A pool frame that loses its last mapping without going back on the stack.
Dropped(m, v) == m.dropped \cup (IF Mapped(m, v) /\ m.pte[v].frame \in Pool
                                 THEN {m.pte[v].frame} ELSE {})

SetEntry(m, v, e) == [m EXCEPT !.pte[v] = e, !.dropped = Dropped(m, v)]

----------------------------------------------------------------------------
(* Helpers that take and return the page state.                            *)

\* MM_Page_GetFree's test for an empty stack: the index is 0xFFFFFFFF.
StackEmpty(m) == m.idx = -1

\* halt() never returns: the rest of the call is abandoned.
Halt(m, why) == [m EXCEPT !.halt = why]

ClearTable_Skip(m, t) == m.pte

ClearTable(m, t) == [v \in Pages |-> IF PDE(v) = t THEN ZeroEntry ELSE m.pte[v]]

GetPT_KeepIndex(m, v) ==
  IF m.pd[PDE(v)] # NoFrame THEN m
  ELSE IF StackEmpty(m) THEN Halt(m, "oom")
  ELSE [m EXCEPT !.pd[PDE(v)] = m.fps[m.idx], !.pte = ClearTable(m, PDE(v))]

\* MM_GetPTAddress: make sure the page table of v exists.
GetPT(m, v) ==
  IF m.pd[PDE(v)] # NoFrame THEN m
  ELSE IF StackEmpty(m) THEN Halt(m, "oom")
  ELSE [m EXCEPT !.pd[PDE(v)] = m.fps[m.idx],
                 !.pte = ClearTable(m, PDE(v)),
                 !.idx = m.idx - 1]

\* MM_Page_Allocate, with the page table already there (Exception_Page
\* has just called MM_GetPTAddress).  The flags of the old entry are lost.
Allocate(m, v) ==
  IF StackEmpty(m) THEN Halt(m, "oom")
  ELSE [SetEntry(m, v, [present |-> TRUE, zerofill |-> FALSE, perm |-> {"rw"},
                        frame |-> m.fps[m.idx]])
          EXCEPT !.idx = m.idx - 1]

\* MM_Page_AddFree.
AddFree(m, f) == [m EXCEPT !.idx = m.idx + 1, !.fps[m.idx + 1] = f]

\* The body of MM_Page_Free's loop.
FreeEntry(m, v) ==
  IF ~m.pte[v].present THEN m
  ELSE IF OffsetBitsSet(m.pte[v]) THEN Halt(m, "unaligned")
  ELSE [AddFree(m, m.pte[v].frame) EXCEPT !.pte[v].present = FALSE]

----------------------------------------------------------------------------
(* The multi-page calls.                                                   *)

Running == mm.halt = "no"

\* Entry of MM_Page_Map, MM_Page_MapZeroFill, MM_Page_Unmap, MM_Page_Free:
\* each looks up (and creates) the table of its first page, whatever the count.
Begin(kind, v, n, phys, perm) ==
  /\ Running /\ op = Idle
  /\ mm' = GetPT(mm, v)
  /\ op' = [kind |-> kind, first |-> v, v |-> v, left |-> n, phys |-> phys, perm |-> perm]
  /\ UNCHANGED tlb

MM_Page_Map ==
  \E n \in 0 .. MaxRun, v \in Pages, f \in Device, p \in Perms :
    /\ v + n <= PageCount /\ f + n <= FreeCount + DeviceCount
    /\ Begin("map", v, n, f, p)

MM_Page_MapZeroFill ==
  \E n \in 0 .. MaxRun, v \in Pages, p \in Perms :
    v + n <= PageCount /\ Begin("zerofill", v, n, FreeCount, p)

MM_Page_Unmap ==
  \E n \in 0 .. MaxRun, v \in Pages :
    v + n <= PageCount /\ Begin("unmap", v, n, FreeCount, {})

MM_Page_Free ==
  \E n \in 0 .. MaxRun, v \in Pages :
    v + n <= PageCount /\ Begin("free", v, n, FreeCount, {})

AtTable_NoCrossing(m, o) == m

\* "Check we haven't moved to a new page table entry": the offset has run
\* past the table, so the next table is looked up first.
AtTable(m, o) ==
  IF o.v # o.first /\ o.v % PTEntries = 0 THEN GetPT(m, o.v) ELSE m

Turn_OneTooMany(kind, m, next) ==
  /\ Running /\ op.kind = kind /\ op.left >= 0
  /\ mm' = IF m.halt # "no" THEN m ELSE next
  /\ op' = [op EXCEPT !.v = @ + 1, !.left = @ - 1, !.phys = @ + 1]
  /\ UNCHANGED tlb

\* One turn of the loop of the four calls: `next' is what the call makes of
\* the page op.v once its table is there.
Turn(kind, m, next) ==
  /\ Running /\ op.kind = kind /\ op.left > 0
  /\ mm' = IF m.halt # "no" THEN m ELSE next
  /\ op' = [op EXCEPT !.v = @ + 1, !.left = @ - 1, !.phys = @ + 1]
  /\ UNCHANGED tlb

MapTurn ==
  LET m == AtTable(mm, op)
  IN  Turn("map", m, SetEntry(m, op.v, [present |-> TRUE, zerofill |-> FALSE,
                                        perm |-> op.perm, frame |-> op.phys]))

ZeroFillTurn ==
  LET m == AtTable(mm, op)
  IN  Turn("zerofill", m, SetEntry(m, op.v, [present |-> FALSE, zerofill |-> TRUE,
                                             perm |-> op.perm, frame |-> NoFrame]))

UnmapTurn ==
  LET m == AtTable(mm, op) IN Turn("unmap", m, SetEntry(m, op.v, ZeroEntry))

FreeTurn ==
  LET m == AtTable(mm, op) IN Turn("free", m, FreeEntry(m, op.v))

EmptyTLB == [v \in Pages |-> NoFrame]

ReloadCR3_Missing(cached) == cached

\* ReloadCR3 drops every cached translation.
ReloadCR3(cached) == EmptyTLB

\* The end of the four calls.
Finish ==
  /\ Running /\ op.kind \in Kinds /\ op.left = 0
  /\ tlb' = ReloadCR3(tlb)
  /\ op' = Idle
  /\ UNCHANGED mm

\* MM_GetPTValue reads an entry, and creates the table it would be in.
MM_GetPTValue(v) ==
  /\ Running /\ op = Idle
  /\ mm' = GetPT(mm, v)
  /\ UNCHANGED <<tlb, op>>

----------------------------------------------------------------------------
(* The processor.                                                          *)

\* Code touches a mapped page: the translation is cached from now on.
Touch(v) ==
  /\ Running /\ tlb[v] = NoFrame /\ Mapped(mm, v)
  /\ tlb' = [tlb EXCEPT ![v] = mm.pte[v].frame]
  /\ UNCHANGED <<mm, op>>

\* What Exception_Page does with the entry of the page that faulted.
Resolve(m, v) ==
  IF m.pte[v].zerofill \/ v \in Heap THEN Allocate(m, v) ELSE Halt(m, "fault")

\* Code touches a page with no translation and Exception_Page runs.  A page
\* it allocates is cleared through its new translation, which is then cached;
\* the InvalidatePage after that names another page (its operand is the
\* pointer's own stack slot, include/arch/x86/processor.h:30).
Exception_Page(v) ==
  LET m == GetPT(mm, v)
      r == IF m.halt # "no" THEN m ELSE Resolve(m, v)
  IN  /\ Running /\ tlb[v] = NoFrame /\ ~Mapped(mm, v)
      /\ mm' = r
      /\ tlb' = IF r.halt = "no" THEN [tlb EXCEPT ![v] = r.pte[v].frame] ELSE tlb
      /\ UNCHANGED op

----------------------------------------------------------------------------

\* What boot.S and MM_Init leave: an empty directory (the kernel's own tables
\* are outside Tables) and the stack of free frames, full.
Init ==
  /\ mm = [pd |-> [t \in Tables |-> NoFrame], pte |-> [v \in Pages |-> Junk],
           fps |-> [i \in Pool |-> i], idx |-> FreeCount - 1,
           halt |-> "no", dropped |-> {}]
  /\ tlb = EmptyTLB
  /\ op = Idle

Next ==
  \/ MM_Page_Map \/ MM_Page_MapZeroFill \/ MM_Page_Unmap \/ MM_Page_Free
  \/ MapTurn \/ ZeroFillTurn \/ UnmapTurn \/ FreeTurn \/ Finish
  \/ \E v \in Pages : MM_GetPTValue(v) \/ Touch(v) \/ Exception_Page(v)

Spec == Init /\ [][Next]_vars

----------------------------------------------------------------------------
(* Properties.                                                             *)

State == [pd : [Tables -> Pool \cup {NoFrame}], pte : [Pages -> Entry],
          fps : [Pool -> Frames], idx : -1 .. FreeCount - 1,
          halt : Halts, dropped : SUBSET Pool]

\* The page state, the TLB and the walk in progress keep their shapes; the
\* free page stack's index stays between empty and full.
TypeOK ==
  /\ mm \in State
  /\ tlb \in [Pages -> Frames \cup {NoFrame}]
  /\ op \in [kind : Kinds \cup {"idle"}, first : Pages, v : 0 .. PageCount,
             left : Nat, phys : Nat, perm : Perms \cup {{}}]

\* The pool frames in each of their four uses.
OnStack(m)  == {m.fps[i] : i \in 0 .. m.idx}
AsTable(m)  == {m.pd[t] : t \in {t \in Tables : m.pd[t] # NoFrame}}
AsPage(m)   == {m.pte[v].frame : v \in {v \in Pages : Mapped(m, v)}} \cap Pool

\* No frame is used twice within one use.
StackDistinct(m) ==
  \A i, j \in 0 .. m.idx : m.fps[i] = m.fps[j] => i = j
TablesDistinct(m) ==
  \A s, t \in Tables : m.pd[s] = m.pd[t] /\ m.pd[s] # NoFrame => s = t
PagesDistinct(m) ==
  \A v, w \in Pages :
    /\ Mapped(m, v) /\ Mapped(m, w)
    /\ m.pte[v].frame = m.pte[w].frame /\ m.pte[v].frame \in Pool
    => v = w

\* No frame has two uses.
UsesDisjoint(m) ==
  /\ OnStack(m) \cap AsTable(m) = {}
  /\ (OnStack(m) \cup AsTable(m)) \cap AsPage(m) = {}
  /\ (OnStack(m) \cup AsTable(m) \cup AsPage(m)) \cap m.dropped = {}

\* Every frame MM_Init put on the free page stack is exactly one of: free on
\* the stack, a page table, the frame of one mapped page, or dropped by an
\* unmap.  A frame handed out twice (MM_Page_GetFree and the tables that
\* MM_GetPTAddress makes share one stack) would let a page overwrite a table.
FramesPartition ==
  /\ StackDistinct(mm) /\ TablesDistinct(mm) /\ PagesDistinct(mm)
  /\ UsesDisjoint(mm)
  /\ OnStack(mm) \cup AsTable(mm) \cup AsPage(mm) \cup mm.dropped = Pool

\* A translation the processor still holds is the one in the page table,
\* except for the pages a walk has already changed: those are only flushed by
\* the ReloadCR3 that ends the walk, and faults may come before it.
NoStaleTranslation ==
  \A v \in Pages : tlb[v] # NoFrame =>
    \/ Mapped(mm, v) /\ tlb[v] = mm.pte[v].frame
    \/ op.kind \in Kinds /\ op.first <= v /\ v < op.v

\* An entry is only ever written in a page table that exists: a walk over the
\* end of one table looks up (and makes) the next one before it writes.
TableBacked ==
  [][\A v \in Pages : mm'.pte[v] # mm.pte[v] => mm'.pd[PDE(v)] # NoFrame]_vars

FramePool == INSTANCE FramePool WITH
  Pool <- Pool, free <- OnStack(mm), tables <- AsTable(mm), pages <- AsPage(mm),
  lost <- mm.dropped

\* Every step of a call, of a walk that faults interrupt and of the fault
\* handler itself moves the frames as FramePool promises: none leaves the stack
\* but for the one use it is taken for, no page table is ever made a page or
\* freed, and no page loses its frame to the fault of another.
FramesOwned == FramePool!Spec

\* The comment on MM_Page_Free: it frees a previously allocated page and adds
\* it to the free page stack, so a page whose frame came from that stack (where
\* every address is a page boundary) does not make it halt.
FreeAcceptsAllocatedPages ==
  mm.halt = "unaligned" => mm.pte[op.v - 1].frame \notin Pool
============================================================================
