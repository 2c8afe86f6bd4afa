------------------------- MODULE PageManager_proofs -------------------------
(***************************************************************************)
(* Proofs about PageManager, for every number of tables, entries, frames   *)
(* and pages in a run.                                                     *)
(***************************************************************************)
EXTENDS PageManager, TLAPS

\* The directory index of a page (its address >> 22) is within the directory.
LEMMA PDEInTables ==
  ASSUME NEW v \in Pages
  PROVE  PDE(v) \in Tables
<1> DEFINE q == v \div PTEntries
<1>1. /\ TableCount \in Nat \ {0} /\ PTEntries \in Nat \ {0} /\ v \in Nat
      /\ v < TableCount * PTEntries
  BY PageManagerAssumption DEF Pages, PageCount
<1>2. q \in Nat /\ q * PTEntries <= v
  BY <1>1
<1>3. q < TableCount
  BY <1>1, <1>2
<1> QED
  BY <1>1, <1>2, <1>3 DEF PDE, Tables

(* The frame uses of FramesPartition, spelled out frame by frame.          *)

StackUse(m) ==
  \A i \in 0 .. m.idx :
    /\ m.fps[i] \in Pool /\ m.fps[i] \notin m.dropped
    /\ \A j \in 0 .. m.idx : m.fps[i] = m.fps[j] => i = j
    /\ \A t \in Tables : m.pd[t] # m.fps[i]
    /\ \A v \in Pages : Mapped(m, v) => m.pte[v].frame # m.fps[i]

TableUse(m) ==
  \A t \in Tables : m.pd[t] # NoFrame =>
    /\ m.pd[t] \notin m.dropped
    /\ \A s \in Tables : m.pd[s] = m.pd[t] => s = t
    /\ \A v \in Pages : Mapped(m, v) => m.pte[v].frame # m.pd[t]

PageUse(m) ==
  \A v \in Pages : Mapped(m, v) /\ m.pte[v].frame \in Pool =>
    /\ m.pte[v].frame \notin m.dropped
    /\ \A w \in Pages : Mapped(m, w) /\ m.pte[w].frame = m.pte[v].frame => w = v

Used(m) ==
  \A f \in Pool :
    \/ \E i \in 0 .. m.idx : m.fps[i] = f
    \/ \E t \in Tables : m.pd[t] = f
    \/ \E v \in Pages : Mapped(m, v) /\ m.pte[v].frame = f
    \/ f \in m.dropped

Good(m) == m \in State /\ StackUse(m) /\ TableUse(m) /\ PageUse(m) /\ Used(m)

----------------------------------------------------------------------------
(* What the helpers keep of the page state.                                *)

\* Halting changes none of the page state the partition is about.
LEMMA HaltGood ==
  ASSUME NEW m, Good(m), NEW why \in Halts
  PROVE  Good(Halt(m, why))
<1> DEFINE n == Halt(m, why)
<1>1. /\ n.pd = m.pd /\ n.pte = m.pte /\ n.fps = m.fps
      /\ n.idx = m.idx /\ n.dropped = m.dropped
  BY DEF Good, State, Halt
<1>2. n \in State
  BY DEF Good, State, Halt
<1>3. \A v : Mapped(n, v) = Mapped(m, v)
  BY <1>1 DEF Mapped
<1> QED
  BY <1>1, <1>2, <1>3 DEF Good, StackUse, TableUse, PageUse, Used

\* A new page table takes the top frame of the stack, and its zeroed entries

\* map nothing: the mapped pages are the ones mapped before.
LEMMA GetPTGood ==
  ASSUME NEW m, Good(m), NEW v \in Pages
  PROVE  /\ Good(GetPT(m, v))
         /\ GetPT(m, v).halt = "no" => GetPT(m, v).pd[PDE(v)] # NoFrame
         /\ \A w \in Pages : Mapped(m, w) =>
              Mapped(GetPT(m, v), w) /\ GetPT(m, v).pte[w] = m.pte[w]
         /\ \A w \in Pages : GetPT(m, v).pte[w] # m.pte[w] =>
              GetPT(m, v).pd[PDE(w)] # NoFrame
<1> DEFINE n == GetPT(m, v)
           t0 == PDE(v)
<1>0. /\ t0 \in Tables
      /\ \A w \in Pages : PDE(w) \in Tables
      /\ m \in State
  BY PDEInTables DEF Good
<1>1. CASE m.pd[t0] # NoFrame
  <2>1. n = m
    BY <1>1 DEF GetPT
  <2> QED
    BY <1>1, <2>1
<1>2. CASE m.pd[t0] = NoFrame /\ StackEmpty(m)
  <2>1. n = Halt(m, "oom")
    BY <1>2 DEF GetPT
  <2>2. Good(n)
    BY <2>1, HaltGood DEF Halts
  <2>3. n.halt = "oom" /\ n.pd = m.pd /\ n.pte = m.pte
    BY <2>1, <1>0 DEF State, Halt
  <2> QED
    BY <2>2, <2>3 DEF Mapped
<1>3. CASE m.pd[t0] = NoFrame /\ ~StackEmpty(m)
  <2>0. FreeCount \in Nat \ {0} /\ m.idx \in 0 .. FreeCount - 1 /\ m.idx \in Pool
    BY <1>3, <1>0, PageManagerAssumption DEF State, StackEmpty, Pool
  <2>1. /\ n.pd = [m.pd EXCEPT ![t0] = m.fps[m.idx]]
        /\ n.pte = ClearTable(m, t0)
        /\ n.fps = m.fps /\ n.idx = m.idx - 1
        /\ n.dropped = m.dropped /\ n.halt = m.halt
    BY <1>0, <1>3 DEF State, GetPT
  <2>2. m.fps[m.idx] \in Pool /\ m.fps[m.idx] # NoFrame
    BY <2>0 DEF Good, StackUse, Pool, NoFrame
  <2>3. /\ n.pd \in [Tables -> Pool \cup {NoFrame}]
        /\ n.pd[t0] = m.fps[m.idx]
        /\ \A t \in Tables : t # t0 => n.pd[t] = m.pd[t]
    BY <1>0, <2>1, <2>2 DEF State
  <2>4. /\ n.pte \in [Pages -> Entry]
        /\ \A w \in Pages : n.pte[w] = IF PDE(w) = t0 THEN ZeroEntry ELSE m.pte[w]
    BY <1>0, <2>1 DEF State, ClearTable, ZeroEntry, Entry
  <2>5. n \in State
    <3>1. n = [pd |-> n.pd, pte |-> n.pte, fps |-> n.fps, idx |-> n.idx,
               halt |-> n.halt, dropped |-> n.dropped]
      BY <1>0, <1>3 DEF State, GetPT
    <3>2. n.idx \in -1 .. FreeCount - 1
      BY <2>0, <2>1
    <3> QED
      BY <1>0, <2>1, <2>3, <2>4, <3>1, <3>2 DEF State
  <2>6. \A w \in Pages : /\ Mapped(n, w) <=> Mapped(m, w)
                         /\ Mapped(m, w) => n.pte[w] = m.pte[w]
    BY <1>0, <1>3, <2>3, <2>4 DEF Mapped, ZeroEntry
  <2>7. StackUse(n)
    BY <2>0, <2>1, <2>2, <2>3, <2>6 DEF Good, StackUse
  <2>8. TableUse(n)
    BY <2>0, <2>1, <2>2, <2>3, <2>6 DEF Good, StackUse, TableUse
  <2>9. PageUse(n)
    BY <2>1, <2>6 DEF Good, PageUse
  <2>10. Used(n)
    BY <1>0, <1>3, <2>0, <2>1, <2>3, <2>6 DEF Good, Used, Pool, NoFrame
  <2>11. \A w \in Pages : n.pte[w] # m.pte[w] => n.pd[PDE(w)] # NoFrame
    BY <2>2, <2>3, <2>4
  <2> QED
    BY <2>2, <2>3, <2>5, <2>6, <2>7, <2>8, <2>9, <2>10, <2>11 DEF Good
<1> QED
  BY <1>1, <1>2, <1>3

\* Writing an entry that maps no pool frame drops the frame it mapped, if any.
LEMMA SetEntryGood ==
  ASSUME NEW m, Good(m), NEW v \in Pages, NEW e \in Entry,
         e.present => e.frame \in Device
  PROVE  /\ Good(SetEntry(m, v, e))
         /\ SetEntry(m, v, e).halt = m.halt
         /\ SetEntry(m, v, e).pd = m.pd
         /\ \A w \in Pages : w # v => SetEntry(m, v, e).pte[w] = m.pte[w]
<1> DEFINE n == SetEntry(m, v, e)
<1>0. /\ PDE(v) \in Tables
      /\ \A w \in Pages : PDE(w) \in Tables
      /\ m \in State
  BY PDEInTables DEF Good
<1>1. /\ n.pte = [m.pte EXCEPT ![v] = e] /\ n.dropped = Dropped(m, v)
      /\ n.pd = m.pd /\ n.fps = m.fps /\ n.idx = m.idx /\ n.halt = m.halt
  <2>1. n.pte = [m.pte EXCEPT ![v] = e]
    BY <1>0 DEF State, SetEntry
  <2>2. n.dropped = Dropped(m, v)
    BY <1>0 DEF State, SetEntry, Dropped
  <2>3. n.pd = m.pd /\ n.fps = m.fps /\ n.idx = m.idx /\ n.halt = m.halt
    BY <1>0 DEF State, SetEntry
  <2> QED
    BY <2>1, <2>2, <2>3
<1>2. /\ n.pte \in [Pages -> Entry] /\ n.pte[v] = e
      /\ \A w \in Pages : w # v => n.pte[w] = m.pte[w]
  BY <1>0, <1>1 DEF State
<1>3. n.dropped \in SUBSET Pool
  BY <1>0, <1>1 DEF State, Dropped
<1>4. n \in State
  <2>1. [m.pte EXCEPT ![v] = e] \in [Pages -> Entry] /\ Dropped(m, v) \in SUBSET Pool
    BY <1>1, <1>2, <1>3
  <2> QED
    BY <1>0, <2>1 DEF State, SetEntry
<1>5. /\ \A w \in Pages : w # v => (Mapped(n, w) <=> Mapped(m, w))
      /\ Mapped(n, v) => n.pte[v].frame \notin Pool
  BY <1>1, <1>2, PageManagerAssumption DEF Mapped, Device, Pool
<1>6. \A f : f \in n.dropped <=>
        f \in m.dropped \/ (Mapped(m, v) /\ m.pte[v].frame \in Pool /\ f = m.pte[v].frame)
  BY <1>1 DEF Dropped
<1>7. StackUse(n)
  <2> SUFFICES ASSUME NEW i \in 0 .. n.idx
               PROVE  /\ n.fps[i] \in Pool /\ n.fps[i] \notin n.dropped
                      /\ \A j \in 0 .. n.idx : n.fps[i] = n.fps[j] => i = j
                      /\ \A t \in Tables : n.pd[t] # n.fps[i]
                      /\ \A w \in Pages : Mapped(n, w) => n.pte[w].frame # n.fps[i]
    BY DEF StackUse
  <2> QED
    BY <1>1, <1>2, <1>5, <1>6 DEF Good, StackUse
<1>8. TableUse(n)
  <2> SUFFICES ASSUME NEW t \in Tables, n.pd[t] # NoFrame
               PROVE  /\ n.pd[t] \notin n.dropped
                      /\ \A s \in Tables : n.pd[s] = n.pd[t] => s = t
                      /\ \A w \in Pages : Mapped(n, w) => n.pte[w].frame # n.pd[t]
    BY DEF TableUse
  <2>1. n.pd[t] \in Pool
    BY <1>0, <1>1 DEF State
  <2> QED
    BY <1>1, <1>2, <1>5, <1>6, <2>1 DEF Good, TableUse
<1>9. PageUse(n)
  BY <1>1, <1>2, <1>5, <1>6 DEF Good, PageUse
<1>10. Used(n)
  BY <1>1, <1>2, <1>5, <1>6 DEF Good, Used
<1> QED
  BY <1>1, <1>2, <1>4, <1>7, <1>8, <1>9, <1>10 DEF Good

\* MM_Page_Allocate moves the top frame of the stack to the page.
LEMMA AllocateGood ==
  ASSUME NEW m, Good(m), NEW v \in Pages, m.pd[PDE(v)] # NoFrame, m.halt = "no"
  PROVE  /\ Good(Allocate(m, v))
         /\ Allocate(m, v).halt = "no" => Mapped(Allocate(m, v), v)
         /\ Allocate(m, v).pd = m.pd
         /\ \A w \in Pages : w # v => Allocate(m, v).pte[w] = m.pte[w]
<1> DEFINE n == Allocate(m, v)
<1>0. /\ PDE(v) \in Tables
      /\ \A w \in Pages : PDE(w) \in Tables
      /\ m \in State
  BY PDEInTables DEF Good
<1>1. CASE StackEmpty(m)
  <2>1. n = Halt(m, "oom")
    BY <1>1 DEF Allocate
  <2>2. n.halt = "oom" /\ n.pd = m.pd /\ n.pte = m.pte
    BY <2>1, <1>0 DEF State, Halt
  <2> QED
    BY <2>1, <2>2, HaltGood DEF Halts
<1>2. CASE ~StackEmpty(m)
  <2> DEFINE f == m.fps[m.idx]
             e == [present |-> TRUE, zerofill |-> FALSE, perm |-> {"rw"}, frame |-> f]
  <2>0. FreeCount \in Nat \ {0} /\ m.idx \in 0 .. FreeCount - 1 /\ m.idx \in Pool
    BY <1>2, <1>0, PageManagerAssumption DEF State, StackEmpty, Pool
  <2>1. /\ n.pte = [m.pte EXCEPT ![v] = e] /\ n.dropped = Dropped(m, v)
        /\ n.pd = m.pd /\ n.fps = m.fps /\ n.idx = m.idx - 1 /\ n.halt = m.halt
        /\ n = [pd |-> n.pd, pte |-> n.pte, fps |-> n.fps, idx |-> n.idx,
                halt |-> n.halt, dropped |-> n.dropped]
    BY <1>0, <1>2 DEF State, Allocate, SetEntry
  <2>2. f \in Pool /\ f \in Frames /\ e \in Entry
    BY <2>0 DEF Good, StackUse, Frames, Entry
  <2>3. /\ n.pte \in [Pages -> Entry] /\ n.pte[v] = e
        /\ \A w \in Pages : w # v => n.pte[w] = m.pte[w]
    BY <1>0, <2>1, <2>2 DEF State
  <2>4. n.dropped \in SUBSET Pool /\ n.idx \in -1 .. FreeCount - 1
    BY <1>0, <2>0, <2>1 DEF State, Dropped
  <2>5. n \in State
    BY <1>0, <2>1, <2>3, <2>4 DEF State
  <2>6. /\ \A w \in Pages : w # v => (Mapped(n, w) <=> Mapped(m, w))
        /\ Mapped(n, v) /\ n.pte[v].frame = f
    BY <2>1, <2>3 DEF Mapped
  <2>7. \A g : g \in n.dropped <=>
          g \in m.dropped \/ (Mapped(m, v) /\ m.pte[v].frame \in Pool /\ g = m.pte[v].frame)
    BY <2>1 DEF Dropped
  <2>8. StackUse(n)
    BY <2>0, <2>1, <2>2, <2>3, <2>6, <2>7 DEF Good, StackUse
  <2>9. TableUse(n)
    <3> SUFFICES ASSUME NEW t \in Tables, n.pd[t] # NoFrame
                 PROVE  /\ n.pd[t] \notin n.dropped
                        /\ \A s \in Tables : n.pd[s] = n.pd[t] => s = t
                        /\ \A w \in Pages : Mapped(n, w) => n.pte[w].frame # n.pd[t]
      BY DEF TableUse
    <3>1. m.pd[t] # f
      BY <2>0 DEF Good, StackUse
    <3> QED
      BY <2>1, <2>3, <2>6, <2>7, <3>1 DEF Good, TableUse
  <2>10. PageUse(n)
    <3>1. f \notin m.dropped /\ \A w \in Pages : Mapped(m, w) => m.pte[w].frame # f
      BY <2>0 DEF Good, StackUse
    <3> QED
      BY <2>3, <2>6, <2>7, <3>1 DEF Good, PageUse
  <2>11. Used(n)
    BY <2>0, <2>1, <2>2, <2>3, <2>6, <2>7 DEF Good, Used
  <2> QED
    BY <2>1, <2>3, <2>5, <2>6, <2>8, <2>9, <2>10, <2>11 DEF Good
<1> QED
  BY <1>1, <1>2

\* MM_Page_Free never gets as far as MM_Page_AddFree: the flag that says a

\* page is present is one of the bits its alignment test finds set.
LEMMA FreeEntryGood ==
  ASSUME NEW m, Good(m), NEW v \in Pages
  PROVE  /\ FreeEntry(m, v) \in {m, Halt(m, "unaligned")}
         /\ Good(FreeEntry(m, v))
         /\ FreeEntry(m, v).pd = m.pd /\ FreeEntry(m, v).pte = m.pte
<1>1. FreeEntry(m, v) \in {m, Halt(m, "unaligned")}
  BY DEF FreeEntry, OffsetBitsSet
<1>2. Halt(m, "unaligned").pd = m.pd /\ Halt(m, "unaligned").pte = m.pte
  BY DEF Good, State, Halt
<1> QED
  BY <1>1, <1>2, HaltGood DEF Halts
----------------------------------------------------------------------------
(* The inductive invariant.                                                *)

\* The walk in progress stays inside the address space and, for MM_Page_Map,

\* inside the device.
WalkInBounds ==
  /\ op \in [kind : Kinds \cup {"idle"}, first : Pages, v : 0 .. PageCount,
             left : Nat, phys : Nat, perm : Perms \cup {{}}]
  /\ op.kind \in Kinds => op.first <= op.v /\ op.v + op.left <= PageCount
  /\ op.kind = "map" => /\ FreeCount <= op.phys
                        /\ op.phys + op.left <= FreeCount + DeviceCount

\* The loop of a walk finds the table of its next page there, unless that

\* page is the first one of a table and the walk looks the table up itself.
AtBoundary(o) == o.v # o.first /\ o.v % PTEntries = 0

TableReady ==
  Running /\ op.kind \in Kinds /\ op.left > 0 /\ ~AtBoundary(op)
    => mm.pd[PDE(op.v)] # NoFrame

TLBType == tlb \in [Pages -> Frames \cup {NoFrame}]

IInv ==
  /\ Good(mm) /\ TLBType /\ WalkInBounds /\ TableReady /\ NoStaleTranslation

\* A multiple below the next multiple is not above this one.
LEMMA MultipleLess ==
  ASSUME NEW p \in Nat, NEW q \in Nat, NEW P \in Nat \ {0}, p * P < q * P + P
  PROVE  p <= q
<1>1. (q + 1) * P = q * P + P
  OBVIOUS
<1>2. ASSUME q + 1 <= p PROVE (q + 1) * P <= p * P
  BY <1>2
<1> QED
  BY <1>1, <1>2

\* Adding one does not change the quotient unless the remainder wraps.
LEMMA DivSuccessor ==
  ASSUME NEW v \in Nat, NEW P \in Nat \ {0}, (v + 1) % P # 0
  PROVE  (v + 1) \div P = v \div P
<1> SUFFICES ASSUME NEW q, NEW r, NEW p, NEW z, q = v \div P, r = v % P,
                    p = (v + 1) \div P, z = (v + 1) % P
             PROVE  p = q
  OBVIOUS
<1>1. q \in Nat /\ r \in 0 .. P - 1 /\ v = q * P + r
  OBVIOUS
<1>2. p \in Nat /\ z \in 1 .. P - 1 /\ v + 1 = p * P + z
  OBVIOUS
<1>3. q * P \in Nat /\ p * P \in Nat
  BY <1>1, <1>2
<1>4. p * P < q * P + P /\ q * P < p * P + P
  BY <1>1, <1>2, <1>3
<1>5. p <= q /\ q <= p
  BY <1>1, <1>2, <1>4, MultipleLess
<1> QED
  BY <1>1, <1>2, <1>5

\* Page numbers, and when the next page stays in the same page table.
LEMMA PageArithmetic ==
  /\ PageCount \in Nat \ {0}
  /\ 0 \in Pages
  /\ \A v \in Nat : v < PageCount => v \in Pages
  /\ \A v \in Pages : (v + 1) % PTEntries # 0 => PDE(v + 1) = PDE(v)
<1>0. TableCount \in Nat \ {0} /\ PTEntries \in Nat \ {0}
  BY PageManagerAssumption
<1>1. PageCount \in Nat \ {0}
  BY <1>0 DEF PageCount
<1>2. ASSUME NEW v \in Pages, (v + 1) % PTEntries # 0
      PROVE  PDE(v + 1) = PDE(v)
  <2>1. v \in Nat
    BY <1>1 DEF Pages
  <2> QED
    BY <1>0, <1>2, <2>1, DivSuccessor DEF PDE
<1>3. 0 \in Pages /\ \A v \in Nat : v < PageCount => v \in Pages
  BY <1>1 DEF Pages
<1> QED
  BY <1>1, <1>2, <1>3

\* The table check at the head of a walk's loop leaves the table of its page.
LEMMA AtTableGood ==
  ASSUME Good(mm), WalkInBounds, TableReady, Running, op.kind \in Kinds, op.left > 0
  PROVE  /\ op.v \in Pages
         /\ Good(AtTable(mm, op))
         /\ AtTable(mm, op).halt = "no" => AtTable(mm, op).pd[PDE(op.v)] # NoFrame
         /\ \A w \in Pages : Mapped(mm, w) =>
              Mapped(AtTable(mm, op), w) /\ AtTable(mm, op).pte[w] = mm.pte[w]
         /\ \A w \in Pages : AtTable(mm, op).pte[w] # mm.pte[w] =>
              AtTable(mm, op).pd[PDE(w)] # NoFrame
<1>1. op.v \in Pages
  BY PageArithmetic DEF WalkInBounds
<1>2. CASE AtBoundary(op)
  <2>1. AtTable(mm, op) = GetPT(mm, op.v)
    BY <1>2 DEF AtTable, AtBoundary
  <2> QED
    BY <1>1, <2>1, GetPTGood
<1>3. CASE ~AtBoundary(op)
  <2>1. AtTable(mm, op) = mm
    BY <1>3 DEF AtTable, AtBoundary
  <2> QED
    BY <1>1, <1>3, <2>1 DEF TableReady
<1> QED
  BY <1>2, <1>3

\* A Begin step.
LEMMA BeginIInv ==
  ASSUME IInv, NEW kind \in Kinds, NEW v \in Pages, NEW n \in Nat, NEW f \in Nat,
         NEW perm \in Perms \cup {{}}, v + n <= PageCount,
         kind = "map" => FreeCount <= f /\ f + n <= FreeCount + DeviceCount,
         Begin(kind, v, n, f, perm)
  PROVE  IInv'
<1>1. /\ Running /\ op = Idle /\ mm' = GetPT(mm, v) /\ tlb' = tlb
      /\ op' = [kind |-> kind, first |-> v, v |-> v, left |-> n, phys |-> f, perm |-> perm]
  BY DEF Begin
<1>2. /\ Good(mm')
      /\ mm'.halt = "no" => mm'.pd[PDE(v)] # NoFrame
      /\ \A w \in Pages : Mapped(mm, w) => Mapped(mm', w) /\ mm'.pte[w] = mm.pte[w]
  BY <1>1, GetPTGood DEF IInv
<1>3. WalkInBounds'
  BY <1>1, PageArithmetic DEF WalkInBounds, Pages
<1>4. TableReady'
  BY <1>1, <1>2 DEF TableReady, Running, Kinds
<1>5. NoStaleTranslation'
  <2>1. op.kind \notin Kinds
    BY <1>1 DEF Idle, Kinds
  <2> QED
    BY <1>1, <1>2, <2>1 DEF IInv, NoStaleTranslation
<1> QED
  BY <1>1, <1>2, <1>3, <1>4, <1>5 DEF IInv, TLBType

\* One turn of a walk's loop, for any body that changes only its own page.
LEMMA TurnIInv ==
  ASSUME IInv, NEW kind \in Kinds, NEW next,
         Turn(kind, AtTable(mm, op), next),
         AtTable(mm, op).halt = "no" =>
           /\ Good(next)
           /\ next.pd = AtTable(mm, op).pd
           /\ \A w \in Pages : w # op.v => next.pte[w] = AtTable(mm, op).pte[w]
  PROVE  /\ IInv'
         /\ \A w \in Pages : mm'.pte[w] # mm.pte[w] => mm'.pd[PDE(w)] # NoFrame
<1> DEFINE m == AtTable(mm, op)
<1>1. /\ Running /\ op.kind = kind /\ op.left > 0 /\ tlb' = tlb
      /\ mm' = IF m.halt # "no" THEN m ELSE next
      /\ op' = [op EXCEPT !.v = op.v + 1, !.left = op.left - 1, !.phys = op.phys + 1]
  BY DEF Turn
<1>2. /\ op.v \in Pages /\ Good(m)
      /\ m.halt = "no" => m.pd[PDE(op.v)] # NoFrame
      /\ \A w \in Pages : Mapped(mm, w) => Mapped(m, w) /\ m.pte[w] = mm.pte[w]
      /\ \A w \in Pages : m.pte[w] # mm.pte[w] => m.pd[PDE(w)] # NoFrame
  BY <1>1, AtTableGood DEF IInv
<1>3. Good(mm') /\ mm'.pd = m.pd /\ \A w \in Pages : w # op.v => mm'.pte[w] = m.pte[w]
  BY <1>1, <1>2
<1>4. /\ op'.v = op.v + 1 /\ op'.left = op.left - 1 /\ op'.phys = op.phys + 1
      /\ op'.kind = op.kind /\ op'.first = op.first /\ op'.perm = op.perm
      /\ op.v \in Nat /\ op.left \in Nat /\ op.phys \in Nat /\ op.first \in Pages
      /\ op.v + op.left <= PageCount /\ op.first <= op.v
  BY <1>1 DEF IInv, WalkInBounds, Pages
<1>5. WalkInBounds'
  <2>1. op' \in [kind : Kinds \cup {"idle"}, first : Pages, v : 0 .. PageCount,
                 left : Nat, phys : Nat, perm : Perms \cup {{}}]
    <3>1. op.v + 1 \in 0 .. PageCount /\ op.left - 1 \in Nat /\ op.phys + 1 \in Nat
      BY <1>1, <1>4, PageArithmetic
    <3>2. op \in [kind : Kinds \cup {"idle"}, first : Pages, v : 0 .. PageCount,
                  left : Nat, phys : Nat, perm : Perms \cup {{}}]
      BY DEF IInv, WalkInBounds
    <3> QED
      BY <1>1, <3>1, <3>2
  <2> QED
    BY <1>4, <2>1, PageManagerAssumption, PageArithmetic DEF IInv, WalkInBounds, Pages
<1>6. TableReady'
  <2> SUFFICES ASSUME mm'.halt = "no", op'.left > 0, ~AtBoundary(op')
               PROVE  mm'.pd[PDE(op'.v)] # NoFrame
    BY DEF TableReady, Running, AtBoundary
  <2>1. op'.v # op'.first
    BY <1>4 DEF Pages
  <2>2. (op.v + 1) % PTEntries # 0
    BY <1>4, <2>1 DEF AtBoundary
  <2>3. PDE(op'.v) = PDE(op.v)
    BY <1>2, <1>4, <2>2, PageArithmetic
  <2>4. m.halt = "no"
    BY <1>1
  <2> QED
    BY <1>2, <1>3, <2>3, <2>4
<1>7. NoStaleTranslation'
  <2> SUFFICES ASSUME NEW w \in Pages, tlb[w] # NoFrame
               PROVE  \/ Mapped(mm', w) /\ tlb[w] = mm'.pte[w].frame
                      \/ op'.kind \in Kinds /\ op'.first <= w /\ w < op'.v
    BY <1>1 DEF NoStaleTranslation
  <2>1. CASE op.first <= w /\ w < op'.v
    BY <1>1, <1>4, <2>1
  <2>2. CASE ~(op.first <= w /\ w < op'.v)
    <3>1. w # op.v /\ ~(op.first <= w /\ w < op.v)
      BY <1>4, <2>2 DEF Pages
    <3>2. Mapped(mm, w) /\ tlb[w] = mm.pte[w].frame
      BY <3>1 DEF IInv, NoStaleTranslation
    <3> QED
      BY <1>2, <1>3, <3>1, <3>2 DEF Mapped
  <2> QED
    BY <2>1, <2>2
<1>8. ASSUME NEW w \in Pages, mm'.pte[w] # mm.pte[w]
      PROVE  mm'.pd[PDE(w)] # NoFrame
  <2>1. CASE m.halt = "no" /\ w = op.v
    BY <1>2, <1>3, <2>1
  <2>2. CASE m.halt # "no" \/ w # op.v
    BY <1>1, <1>2, <1>3, <1>8, <2>2
  <2> QED
    BY <2>1, <2>2
<1> QED
  BY <1>1, <1>3, <1>5, <1>6, <1>7, <1>8 DEF IInv, TLBType

\* ReloadCR3 at the end of a walk.
LEMMA FinishIInv ==
  ASSUME IInv, Finish
  PROVE  IInv'
<1>1. mm' = mm /\ tlb' = EmptyTLB /\ op' = Idle
  BY DEF Finish, ReloadCR3
<1>2. TLBType' /\ NoStaleTranslation'
  BY <1>1 DEF TLBType, EmptyTLB, NoStaleTranslation
<1>3. WalkInBounds' /\ TableReady'
  BY <1>1, PageArithmetic DEF WalkInBounds, TableReady, Idle, Kinds
<1> QED
  BY <1>1, <1>2, <1>3 DEF IInv

\* MM_GetPTValue may make a page table.
LEMMA GetPTValueIInv ==
  ASSUME IInv, NEW v \in Pages, MM_GetPTValue(v)
  PROVE  IInv'
<1>1. Running /\ op = Idle /\ mm' = GetPT(mm, v) /\ tlb' = tlb /\ op' = op
  BY DEF MM_GetPTValue
<1>2. op.kind \notin Kinds
  BY <1>1 DEF Idle, Kinds
<1>3. /\ Good(mm')
      /\ \A w \in Pages : Mapped(mm, w) => Mapped(mm', w) /\ mm'.pte[w] = mm.pte[w]
  BY <1>1, GetPTGood DEF IInv
<1>4. NoStaleTranslation'
  BY <1>1, <1>2, <1>3 DEF IInv, NoStaleTranslation
<1> QED
  BY <1>1, <1>2, <1>3, <1>4 DEF IInv, TLBType, WalkInBounds, TableReady

\* A translation that is cached comes from the page table.
LEMMA TouchIInv ==
  ASSUME IInv, NEW v \in Pages, Touch(v)
  PROVE  IInv'
<1>1. /\ Mapped(mm, v) /\ mm' = mm /\ op' = op
      /\ tlb' = [tlb EXCEPT ![v] = mm.pte[v].frame]
  BY DEF Touch
<1>2. TLBType'
  <2>1. mm.pte[v].frame \in Frames \cup {NoFrame}
    BY DEF IInv, Good, State, Entry
  <2> QED
    BY <1>1, <2>1 DEF IInv, TLBType
<1>3. NoStaleTranslation'
  BY <1>1 DEF IInv, TLBType, NoStaleTranslation
<1> QED
  BY <1>1, <1>2, <1>3 DEF IInv, WalkInBounds, TableReady, Running

\* A resolved fault changes the page that faulted and no other mapped page.
LEMMA FaultIInv ==
  ASSUME IInv, NEW v \in Pages, Exception_Page(v)
  PROVE  /\ IInv'
         /\ \A w \in Pages : mm'.pte[w] # mm.pte[w] => mm'.pd[PDE(w)] # NoFrame
<1> DEFINE m == GetPT(mm, v)
           r == IF m.halt # "no" THEN m ELSE Resolve(m, v)
<1>1. /\ Running /\ tlb[v] = NoFrame /\ mm' = r /\ op' = op
      /\ tlb' = IF r.halt = "no" THEN [tlb EXCEPT ![v] = r.pte[v].frame] ELSE tlb
  BY DEF Exception_Page
<1>2. /\ Good(m)
      /\ m.halt = "no" => m.pd[PDE(v)] # NoFrame
      /\ \A w \in Pages : Mapped(mm, w) => Mapped(m, w) /\ m.pte[w] = mm.pte[w]
      /\ \A w \in Pages : m.pte[w] # mm.pte[w] => m.pd[PDE(w)] # NoFrame
  BY GetPTGood DEF IInv
<1>3. /\ Good(r) /\ r.pd = m.pd
      /\ r.halt = "no" => Mapped(r, v)
      /\ \A w \in Pages : w # v => r.pte[w] = m.pte[w]
      /\ m.halt # "no" => r = m
  <2>1. CASE m.halt # "no"
    BY <1>2, <2>1
  <2>2. CASE m.halt = "no" /\ (m.pte[v].zerofill \/ v \in Heap)
    <3>1. r = Allocate(m, v)
      BY <2>2 DEF Resolve
    <3> QED
      BY <1>2, <2>2, <3>1, AllocateGood
  <2>3. CASE m.halt = "no" /\ ~(m.pte[v].zerofill \/ v \in Heap)
    <3>1. r = Halt(m, "fault")
      BY <2>3 DEF Resolve
    <3>2. r.pd = m.pd /\ r.pte = m.pte /\ r.halt = "fault"
      BY <1>2, <3>1 DEF Good, State, Halt
    <3> QED
      BY <1>2, <2>3, <3>1, <3>2, HaltGood DEF Halts
  <2> QED
    BY <2>1, <2>2, <2>3
<1>4. TLBType'
  <2>1. r.pte[v].frame \in Frames \cup {NoFrame}
    BY <1>3 DEF Good, State, Entry
  <2> QED
    BY <1>1, <2>1 DEF IInv, TLBType
<1>5. NoStaleTranslation'
  <2> SUFFICES ASSUME NEW w \in Pages, tlb'[w] # NoFrame
               PROVE  \/ Mapped(mm', w) /\ tlb'[w] = mm'.pte[w].frame
                      \/ op'.kind \in Kinds /\ op'.first <= w /\ w < op'.v
    BY DEF NoStaleTranslation
  <2>1. CASE w = v
    <3>1. r.halt = "no" /\ tlb'[v] = r.pte[v].frame
      BY <1>1, <2>1 DEF IInv, TLBType
    <3> QED
      BY <1>1, <1>3, <2>1, <3>1
  <2>2. CASE w # v
    <3>1. tlb'[w] = tlb[w]
      BY <1>1, <2>2 DEF IInv, TLBType
    <3>2. CASE op.kind \in Kinds /\ op.first <= w /\ w < op.v
      BY <1>1, <3>2
    <3>3. CASE ~(op.kind \in Kinds /\ op.first <= w /\ w < op.v)
      <4>1. Mapped(mm, w) /\ tlb[w] = mm.pte[w].frame
        BY <3>1, <3>3 DEF IInv, NoStaleTranslation
      <4> QED
        BY <1>1, <1>2, <1>3, <2>2, <3>1, <4>1 DEF Mapped
    <3> QED
      BY <3>2, <3>3
  <2> QED
    BY <2>1, <2>2
<1>6. TableReady'
  <2>1. \A t \in Tables : mm.pd[t] # NoFrame => m.pd[t] # NoFrame
    BY DEF IInv, Good, State, GetPT, Halt
  <2>2. SUFFICES ASSUME r.halt = "no", op.kind \in Kinds, op.left > 0, ~AtBoundary(op)
                 PROVE  r.pd[PDE(op.v)] # NoFrame
    BY <1>1 DEF TableReady, Running, AtBoundary
  <2>3. op.v \in Pages /\ PDE(op.v) \in Tables
    BY <2>2, PageArithmetic, PDEInTables DEF IInv, WalkInBounds
  <2>4. mm.pd[PDE(op.v)] # NoFrame
    BY <1>1, <2>2 DEF IInv, TableReady
  <2> QED
    BY <1>3, <2>1, <2>3, <2>4
<1>7. ASSUME NEW w \in Pages, mm'.pte[w] # mm.pte[w]
      PROVE  mm'.pd[PDE(w)] # NoFrame
  <2>1. CASE w = v
    BY <1>1, <1>2, <1>3, <1>7, <2>1
  <2>2. CASE w # v
    BY <1>1, <1>2, <1>3, <1>7, <2>2
  <2> QED
    BY <2>1, <2>2
<1> QED
  BY <1>1, <1>3, <1>4, <1>5, <1>6, <1>7 DEF IInv, WalkInBounds
EntriesBackedStep ==
  \A w \in Pages : mm'.pte[w] # mm.pte[w] => mm'.pd[PDE(w)] # NoFrame

\* Each action of a walk's loop is a Turn of TurnIInv.
LEMMA WalkIInv ==
  ASSUME IInv, MapTurn \/ ZeroFillTurn \/ UnmapTurn \/ FreeTurn
  PROVE  IInv' /\ EntriesBackedStep
<1> DEFINE m == AtTable(mm, op)
<1>1. ASSUME NEW kind \in Kinds, NEW e \in Entry, e.present => e.frame \in Device,
             Turn(kind, m, SetEntry(m, op.v, e))
      PROVE  IInv' /\ EntriesBackedStep
  <2>1. op.v \in Pages /\ Good(m)
    BY <1>1, AtTableGood DEF IInv, Turn
  <2> HIDE DEF m
  <2>2. /\ Good(SetEntry(m, op.v, e)) /\ SetEntry(m, op.v, e).pd = m.pd
        /\ \A w \in Pages : w # op.v => SetEntry(m, op.v, e).pte[w] = m.pte[w]
    BY <1>1, <2>1, SetEntryGood
  <2> QED
    BY <1>1, <2>2, TurnIInv DEF m, EntriesBackedStep
<1>2. CASE MapTurn
  <2> DEFINE e == [present |-> TRUE, zerofill |-> FALSE, perm |-> op.perm, frame |-> op.phys]
  <2>1. Turn("map", m, SetEntry(m, op.v, e))
    BY <1>2 DEF MapTurn
  <2>2. op.phys \in Device
    BY <2>1, PageManagerAssumption DEF Turn, IInv, WalkInBounds, Device
  <2>3. op.perm \in SUBSET {"user", "rw"}
    BY PageManagerAssumption DEF IInv, WalkInBounds
  <2>4. e \in Entry /\ e.frame \in Device
    BY <2>2, <2>3 DEF Entry, Frames
  <2> QED
    BY <1>1, <2>1, <2>4 DEF Kinds
<1>3. CASE ZeroFillTurn
  <2> DEFINE e == [present |-> FALSE, zerofill |-> TRUE, perm |-> op.perm, frame |-> NoFrame]
  <2>1. op.perm \in SUBSET {"user", "rw"}
    BY PageManagerAssumption DEF IInv, WalkInBounds
  <2>2. e \in Entry /\ ~e.present
    BY <2>1 DEF Entry
  <2> QED
    BY <1>1, <1>3, <2>2 DEF ZeroFillTurn, Kinds
<1>4. CASE UnmapTurn
  <2>1. ZeroEntry \in Entry /\ ~ZeroEntry.present
    BY DEF ZeroEntry, Entry
  <2> QED
    BY <1>1, <1>4, <2>1 DEF UnmapTurn, Kinds
<1>5. CASE FreeTurn
  <2>1. Turn("free", m, FreeEntry(m, op.v))
    BY <1>5 DEF FreeTurn
  <2>2. op.v \in Pages /\ Good(m)
    BY <2>1, AtTableGood DEF IInv, Turn, Kinds
  <2> HIDE DEF m
  <2>3. /\ Good(FreeEntry(m, op.v)) /\ FreeEntry(m, op.v).pd = m.pd
        /\ FreeEntry(m, op.v).pte = m.pte
    BY <2>2, FreeEntryGood
  <2> QED
    BY <2>1, <2>3, TurnIInv DEF m, Kinds, EntriesBackedStep
<1> QED
  BY <1>2, <1>3, <1>4, <1>5

\* What MM_Init leaves is a good state.
LEMMA InitIInv == Init => IInv
<1> SUFFICES ASSUME Init PROVE IInv
  OBVIOUS
<1>0. FreeCount \in Nat \ {0} /\ \A v \in Pages : PDE(v) \in Tables
  BY PageManagerAssumption, PDEInTables
<1>1. /\ mm.pd = [t \in Tables |-> NoFrame] /\ mm.pte = [v \in Pages |-> Junk]
      /\ mm.fps = [i \in Pool |-> i] /\ mm.idx = FreeCount - 1
      /\ mm.halt = "no" /\ mm.dropped = {}
  BY DEF Init
<1>2. Junk \in Entry
  BY <1>0, PageManagerAssumption DEF Junk, Entry, Frames, Pool
<1>3. mm \in State
  BY <1>0, <1>2 DEF Init, State, Frames, Halts
<1>4. \A v \in Pages : ~Mapped(mm, v)
  BY <1>0, <1>1 DEF Mapped
<1>5. \A i \in 0 .. mm.idx : i \in Pool /\ mm.fps[i] = i
  BY <1>0, <1>1 DEF Pool
<1>6. StackUse(mm)
  BY <1>0, <1>1, <1>4, <1>5 DEF StackUse, Pool, NoFrame
<1>7. TableUse(mm) /\ PageUse(mm)
  BY <1>1, <1>4 DEF TableUse, PageUse
<1>8. Used(mm)
  BY <1>0, <1>1, <1>5 DEF Used, Pool
<1>9. TLBType /\ NoStaleTranslation
  BY DEF Init, TLBType, EmptyTLB, NoStaleTranslation
<1>10. WalkInBounds /\ TableReady
  BY PageArithmetic DEF Init, WalkInBounds, TableReady, Idle, Kinds
<1> QED
  BY <1>3, <1>6, <1>7, <1>8, <1>9, <1>10 DEF IInv, Good

\* Every step keeps the invariant and writes entries only in tables that exist.
LEMMA NextIInv ==
  ASSUME IInv, [Next]_vars
  PROVE  IInv' /\ (EntriesBackedStep \/ UNCHANGED vars)
<1>0. MaxRun \in Nat /\ FreeCount \in Nat \ {0} /\ DeviceCount \in Nat
  BY PageManagerAssumption
<1>1. ASSUME NEW kind \in Kinds, NEW v \in Pages, NEW n, NEW f, NEW perm,
             Begin(kind, v, n, f, perm)
      PROVE  EntriesBackedStep
  <2>1. mm' = GetPT(mm, v)
    BY <1>1 DEF Begin
  <2> QED
    BY <2>1, GetPTGood DEF IInv, EntriesBackedStep
<1>2. CASE MM_Page_Map
  <2>1. PICK n \in 0 .. MaxRun, v \in Pages, f \in Device, p \in Perms :
               /\ v + n <= PageCount /\ f + n <= FreeCount + DeviceCount
               /\ Begin("map", v, n, f, p)
    BY <1>2 DEF MM_Page_Map
  <2>2. f \in Nat /\ FreeCount <= f /\ n \in Nat
    BY <1>0 DEF Device
  <2> QED
    BY <1>1, <2>1, <2>2, BeginIInv DEF Kinds
<1>3. CASE MM_Page_MapZeroFill
  BY <1>0, <1>1, <1>3, BeginIInv DEF MM_Page_MapZeroFill, Kinds
<1>4. CASE MM_Page_Unmap
  BY <1>0, <1>1, <1>4, BeginIInv DEF MM_Page_Unmap, Kinds
<1>5. CASE MM_Page_Free
  BY <1>0, <1>1, <1>5, BeginIInv DEF MM_Page_Free, Kinds
<1>6. CASE MapTurn \/ ZeroFillTurn \/ UnmapTurn \/ FreeTurn
  BY <1>6, WalkIInv
<1>7. CASE Finish
  BY <1>7, FinishIInv DEF Finish, EntriesBackedStep
<1>8. ASSUME NEW v \in Pages, MM_GetPTValue(v)
      PROVE  IInv' /\ EntriesBackedStep
  BY <1>8, GetPTValueIInv, GetPTGood DEF MM_GetPTValue, IInv, EntriesBackedStep
<1>9. ASSUME NEW v \in Pages, Touch(v)
      PROVE  IInv' /\ EntriesBackedStep
  BY <1>9, TouchIInv DEF Touch, EntriesBackedStep
<1>10. ASSUME NEW v \in Pages, Exception_Page(v)
       PROVE  IInv' /\ EntriesBackedStep
  BY <1>10, FaultIInv DEF EntriesBackedStep
<1>11. CASE UNCHANGED vars
  BY <1>11 DEF vars, IInv, TLBType, WalkInBounds, TableReady, Running, NoStaleTranslation
<1> QED
  BY <1>2, <1>3, <1>4, <1>5, <1>6, <1>7, <1>8, <1>9, <1>10, <1>11 DEF Next

\* The invariant holds of every reachable state.
LEMMA Invariance == Spec => []IInv
<1>1. IInv /\ [Next]_vars => IInv'
  BY NextIInv
<1> QED
  BY <1>1, InitIInv, PTL DEF Spec

----------------------------------------------------------------------------
(* What the invariant says of the system.                                  *)

\* The page state, the TLB and the walk keep their types: the index of the
\* free page stack never leaves -1 .. FreeCount - 1, whatever is mapped.
THEOREM TypeCorrect == Spec => []TypeOK
<1>1. IInv => TypeOK
  BY DEF IInv, Good, TLBType, WalkInBounds, TypeOK
<1> QED
  BY <1>1, Invariance, PTL

\* No frame MM_Page_GetFree hands out is ever lost or in two uses at once.
THEOREM FramesPartitioned == Spec => []FramesPartition
<1>1. ASSUME IInv
      PROVE  FramesPartition
  <2>0. /\ mm \in State /\ StackUse(mm) /\ TableUse(mm) /\ PageUse(mm) /\ Used(mm)
        /\ NoFrame \notin Pool
    BY <1>1 DEF IInv, Good, Pool, NoFrame
  <2>1. \A f : f \in OnStack(mm) <=> \E i \in 0 .. mm.idx : f = mm.fps[i]
    BY DEF OnStack
  <2>2. \A f : f \in AsTable(mm) <=> \E t \in Tables : mm.pd[t] # NoFrame /\ f = mm.pd[t]
    BY DEF AsTable
  <2>3. \A f : f \in AsPage(mm) <=>
                 \E v \in Pages : Mapped(mm, v) /\ f = mm.pte[v].frame /\ f \in Pool
    BY DEF AsPage
  <2>4. StackDistinct(mm) /\ TablesDistinct(mm) /\ PagesDistinct(mm)
    BY <2>0 DEF StackDistinct, TablesDistinct, PagesDistinct, StackUse, TableUse, PageUse
  <2>5. UsesDisjoint(mm)
    <3>1. OnStack(mm) \cap AsTable(mm) = {}
      BY <2>0, <2>1, <2>2 DEF StackUse
    <3>2. OnStack(mm) \cap AsPage(mm) = {} /\ OnStack(mm) \cap mm.dropped = {}
      BY <2>0, <2>1, <2>3 DEF StackUse
    <3>3. AsTable(mm) \cap AsPage(mm) = {} /\ AsTable(mm) \cap mm.dropped = {}
      BY <2>0, <2>2, <2>3 DEF TableUse
    <3>4. AsPage(mm) \cap mm.dropped = {}
      BY <2>0, <2>3 DEF PageUse
    <3> QED
      BY <3>1, <3>2, <3>3, <3>4 DEF UsesDisjoint
  <2>6. /\ OnStack(mm) \subseteq Pool /\ AsTable(mm) \subseteq Pool
        /\ AsPage(mm) \subseteq Pool /\ mm.dropped \subseteq Pool
    BY <2>0, <2>1, <2>2, <2>3 DEF StackUse, State
  <2>7. Pool \subseteq OnStack(mm) \cup AsTable(mm) \cup AsPage(mm) \cup mm.dropped
    BY <2>0, <2>1, <2>2, <2>3 DEF Used
  <2> QED
    BY <2>4, <2>5, <2>6, <2>7 DEF FramesPartition
<1>2. IInv => FramesPartition
  BY <1>1
<1> QED
  BY <1>2, Invariance, PTL

\* Outside the pages of a walk in progress, the processor never uses a
\* translation that the page tables no longer have.
THEOREM TranslationsFresh == Spec => []NoStaleTranslation
<1>1. IInv => NoStaleTranslation
  BY DEF IInv
<1> QED
  BY <1>1, Invariance, PTL

\* No walk and no fault writes an entry of a page table that does not exist.
THEOREM EntriesBacked == Spec => TableBacked
<1>1. IInv /\ [Next]_vars =>
        [\A v \in Pages : mm'.pte[v] # mm.pte[v] => mm'.pd[PDE(v)] # NoFrame]_vars
  BY NextIInv DEF EntriesBackedStep
<1> QED
  BY <1>1, Invariance, PTL DEF Spec, TableBacked

----------------------------------------------------------------------------
(* PageManager implements FramePool: what each helper does to the four     *)
(* uses of a frame, then what each action does.                            *)

(* The steps of FramePool between two page states.                         *)

SameUses(m, n) ==
  /\ OnStack(n) = OnStack(m) /\ AsTable(n) = AsTable(m)
  /\ AsPage(n) = AsPage(m) /\ n.dropped = m.dropped

TableTaken(m, n, f) ==
  /\ f \in OnStack(m)
  /\ OnStack(n) = OnStack(m) \ {f} /\ AsTable(n) = AsTable(m) \cup {f}
  /\ AsPage(n) = AsPage(m) /\ n.dropped = m.dropped

PageTaken(m, n, f) ==
  /\ f \in OnStack(m)
  /\ OnStack(n) = OnStack(m) \ {f} /\ AsPage(n) = AsPage(m) \cup {f}
  /\ AsTable(n) = AsTable(m) /\ n.dropped = m.dropped

PageLost(m, n, f) ==
  /\ f \in AsPage(m)
  /\ AsPage(n) = AsPage(m) \ {f} /\ n.dropped = m.dropped \cup {f}
  /\ OnStack(n) = OnStack(m) /\ AsTable(n) = AsTable(m)

\* Who is in which use, frame by frame.
LEMMA UsesByFrame ==
  ASSUME NEW m
  PROVE  /\ \A f : f \in OnStack(m) <=> \E i \in 0 .. m.idx : f = m.fps[i]
         /\ \A f : f \in AsTable(m) <=> \E t \in Tables : m.pd[t] # NoFrame /\ f = m.pd[t]
         /\ \A f : f \in AsPage(m) <=>
                     \E v \in Pages : Mapped(m, v) /\ f = m.pte[v].frame /\ f \in Pool
BY DEF OnStack, AsTable, AsPage

\* Taking the top of the stack takes that frame off it, and no other.
LEMMA TopTaken ==
  ASSUME NEW m, Good(m), ~StackEmpty(m), NEW n, n.fps = m.fps, n.idx = m.idx - 1
  PROVE  /\ m.fps[m.idx] \in OnStack(m) /\ m.fps[m.idx] \in Pool
         /\ OnStack(n) = OnStack(m) \ {m.fps[m.idx]}
<1>1. FreeCount \in Nat \ {0} /\ m.idx \in 0 .. FreeCount - 1
  BY PageManagerAssumption DEF Good, State, StackEmpty
<1>2. /\ m.fps[m.idx] \in Pool
      /\ \A i, j \in 0 .. m.idx : m.fps[i] = m.fps[j] => i = j
  BY <1>1 DEF Good, StackUse
<1>3. \A i : i \in 0 .. n.idx <=> i \in 0 .. m.idx /\ i # m.idx
  BY <1>1
<1>4. \A f : f \in OnStack(n) <=> f \in OnStack(m) /\ f # m.fps[m.idx]
  BY <1>1, <1>2, <1>3, UsesByFrame
<1> QED
  BY <1>1, <1>2, <1>4, UsesByFrame

\* Halting changes no use.
LEMMA HaltUses ==
  ASSUME NEW m, Good(m), NEW why
  PROVE  SameUses(m, Halt(m, why))
<1>1. /\ Halt(m, why).pd = m.pd /\ Halt(m, why).pte = m.pte /\ Halt(m, why).fps = m.fps
      /\ Halt(m, why).idx = m.idx /\ Halt(m, why).dropped = m.dropped
  BY DEF Good, State, Halt
<1> QED
  BY <1>1 DEF SameUses, OnStack, AsTable, AsPage, Mapped

\* MM_GetPTAddress makes at most one page table, in which nothing is mapped.
LEMMA GetPTUses ==
  ASSUME NEW m, Good(m), NEW v \in Pages
  PROVE  \/ SameUses(m, GetPT(m, v)) /\ (Mapped(GetPT(m, v), v) <=> Mapped(m, v))
         \/ /\ \E f : TableTaken(m, GetPT(m, v), f)
            /\ ~Mapped(GetPT(m, v), v) /\ ~Mapped(m, v)
<1> DEFINE n == GetPT(m, v)
           t0 == PDE(v)
<1>0. /\ t0 \in Tables
      /\ \A w \in Pages : PDE(w) \in Tables
      /\ m \in State
  BY PDEInTables DEF Good
<1>1. CASE m.pd[t0] # NoFrame
  <2>1. n = m
    BY <1>1 DEF GetPT
  <2> QED
    BY <2>1 DEF SameUses
<1>2. CASE m.pd[t0] = NoFrame /\ StackEmpty(m)
  <2>1. n = Halt(m, "oom")
    BY <1>2 DEF GetPT
  <2>2. n.pd = m.pd /\ n.pte = m.pte
    BY <1>0, <2>1 DEF State, Halt
  <2> QED
    BY <2>1, <2>2, HaltUses DEF Mapped
<1>3. CASE m.pd[t0] = NoFrame /\ ~StackEmpty(m)
  <2> DEFINE f == m.fps[m.idx]
  <2>1. /\ n.pd = [m.pd EXCEPT ![t0] = f] /\ n.pte = ClearTable(m, t0)
        /\ n.fps = m.fps /\ n.idx = m.idx - 1 /\ n.dropped = m.dropped
    BY <1>0, <1>3 DEF State, GetPT
  <2>2. f \in OnStack(m) /\ f \in Pool /\ f # NoFrame /\ OnStack(n) = OnStack(m) \ {f}
    <3>1. NoFrame \notin Pool
      BY DEF Pool, NoFrame
    <3> QED
      BY <1>3, <2>1, <3>1, TopTaken
  <2>3. n.pd[t0] = f /\ \A t \in Tables : t # t0 => n.pd[t] = m.pd[t]
    BY <1>0, <2>1 DEF State
  <2>4. \A w \in Pages : n.pte[w] = IF PDE(w) = t0 THEN ZeroEntry ELSE m.pte[w]
    BY <2>1 DEF ClearTable
  <2>5. \A g : g \in AsTable(n) <=> g \in AsTable(m) \/ g = f
    BY <1>0, <1>3, <2>2, <2>3, UsesByFrame
  <2>6. \A w \in Pages : /\ Mapped(n, w) <=> Mapped(m, w)
                         /\ Mapped(m, w) => n.pte[w] = m.pte[w]
    BY <1>0, <1>3, <2>3, <2>4 DEF Mapped, ZeroEntry
  <2>7. \A g : g \in AsPage(n) <=> g \in AsPage(m)
    BY <2>6, UsesByFrame
  <2>8. ~Mapped(m, v) /\ ~Mapped(n, v)
    BY <1>3, <2>6 DEF Mapped
  <2>9. TableTaken(m, n, f)
    <3>1. AsTable(n) = AsTable(m) \cup {f}
      BY <2>5
    <3>2. AsPage(n) = AsPage(m)
      BY <2>7
    <3> QED
      BY <2>1, <2>2, <3>1, <3>2 DEF TableTaken
  <2> QED
    BY <2>8, <2>9
<1> QED
  BY <1>1, <1>2, <1>3

\* Writing an entry that maps no pool frame loses the frame it mapped, if any.
LEMMA SetEntryUses ==
  ASSUME NEW m, Good(m), NEW v \in Pages, NEW e \in Entry, e.present => e.frame \in Device
  PROVE  \/ SameUses(m, SetEntry(m, v, e))
         \/ Mapped(m, v) /\ \E f : PageLost(m, SetEntry(m, v, e), f)
<1> DEFINE n == SetEntry(m, v, e)
           f == m.pte[v].frame
<1>0. PDE(v) \in Tables /\ m \in State
  BY PDEInTables DEF Good
<1>1. /\ n.pte = [m.pte EXCEPT ![v] = e] /\ n.dropped = Dropped(m, v)
      /\ n.pd = m.pd /\ n.fps = m.fps /\ n.idx = m.idx
  <2>1. n.dropped = Dropped(m, v)
    BY <1>0 DEF State, SetEntry, Dropped
  <2> QED
    BY <1>0, <2>1 DEF State, SetEntry
<1>2. n.pte[v] = e /\ \A w \in Pages : w # v => n.pte[w] = m.pte[w]
  BY <1>0, <1>1 DEF State
<1>3. OnStack(n) = OnStack(m) /\ AsTable(n) = AsTable(m)
  BY <1>1 DEF OnStack, AsTable
<1>4. \A w \in Pages : /\ w # v => (Mapped(n, w) <=> Mapped(m, w))
                       /\ Mapped(n, v) => n.pte[v].frame \notin Pool
  BY <1>1, <1>2, PageManagerAssumption DEF Mapped, Device, Pool
<1>5. CASE Mapped(m, v) /\ f \in Pool
  <2>1. n.dropped = m.dropped \cup {f}
    BY <1>1, <1>5 DEF Dropped
  <2>2. \A w \in Pages : Mapped(m, w) /\ m.pte[w].frame = f => w = v
    BY <1>5 DEF Good, PageUse
  <2>3. \A g : g \in AsPage(n) <=> g \in AsPage(m) /\ g # f
    BY <1>2, <1>4, <1>5, <2>2, UsesByFrame
  <2>4. AsPage(n) = AsPage(m) \ {f} /\ f \in AsPage(m)
    BY <1>5, <2>3, UsesByFrame
  <2>5. PageLost(m, n, f)
    BY <1>3, <2>1, <2>4 DEF PageLost
  <2> QED
    BY <1>5, <2>5
<1>6. CASE ~(Mapped(m, v) /\ f \in Pool)
  <2>1. n.dropped = m.dropped
    BY <1>1, <1>6 DEF Dropped
  <2>2. \A g : g \in AsPage(n) <=> g \in AsPage(m)
    BY <1>2, <1>4, <1>6, UsesByFrame
  <2>3. AsPage(n) = AsPage(m)
    BY <2>2
  <2> QED
    BY <1>3, <2>1, <2>3 DEF SameUses
<1> QED
  BY <1>5, <1>6

\* MM_Page_Allocate on a page that is not mapped takes one frame for it.
LEMMA AllocateUses ==
  ASSUME NEW m, Good(m), NEW v \in Pages, m.pd[PDE(v)] # NoFrame, ~Mapped(m, v)
  PROVE  SameUses(m, Allocate(m, v)) \/ \E f : PageTaken(m, Allocate(m, v), f)
<1> DEFINE n == Allocate(m, v)
<1>0. m \in State
  BY DEF Good
<1>1. CASE StackEmpty(m)
  BY <1>1, HaltUses DEF Allocate
<1>2. CASE ~StackEmpty(m)
  <2> DEFINE f == m.fps[m.idx]
             e == [present |-> TRUE, zerofill |-> FALSE, perm |-> {"rw"}, frame |-> f]
  <2>1. /\ n.pte = [m.pte EXCEPT ![v] = e] /\ n.dropped = Dropped(m, v)
        /\ n.pd = m.pd /\ n.fps = m.fps /\ n.idx = m.idx - 1
    BY <1>0, <1>2 DEF State, Allocate, SetEntry
  <2>2. f \in OnStack(m) /\ f \in Pool /\ OnStack(n) = OnStack(m) \ {f}
    BY <1>2, <2>1, TopTaken
  <2>3. n.pte[v] = e /\ \A w \in Pages : w # v => n.pte[w] = m.pte[w]
    BY <1>0, <2>1 DEF State
  <2>4. /\ \A w \in Pages : w # v => (Mapped(n, w) <=> Mapped(m, w))
        /\ Mapped(n, v) /\ n.pte[v].frame = f
    BY <2>1, <2>3 DEF Mapped
  <2>5. \A g : g \in AsPage(n) <=> g \in AsPage(m) \/ g = f
    BY <2>2, <2>3, <2>4, UsesByFrame
  <2>6. AsPage(n) = AsPage(m) \cup {f}
    BY <2>5
  <2>7. n.dropped = m.dropped /\ AsTable(n) = AsTable(m)
    BY <2>1 DEF Dropped, AsTable
  <2>8. PageTaken(m, n, f)
    BY <2>2, <2>6, <2>7 DEF PageTaken
  <2> QED
    BY <2>8
<1> QED
  BY <1>1, <1>2

----------------------------------------------------------------------------
(* The steps of PageManager.                                               *)

Simulated == [FramePool!Next]_(FramePool!pool)

\* Each of the four steps is one of FramePool's, and none is a stutter.
LEMMA StepSimulated ==
  /\ SameUses(mm, mm') => Simulated
  /\ \A f : TableTaken(mm, mm', f) => Simulated
  /\ \A f : PageTaken(mm, mm', f) => Simulated
  /\ \A f : PageLost(mm, mm', f) => Simulated
<1>1. SameUses(mm, mm') => Simulated
  BY DEF SameUses, Simulated, FramePool!pool
<1>2. ASSUME NEW f, TableTaken(mm, mm', f)
      PROVE  Simulated
  BY <1>2 DEF TableTaken, Simulated, FramePool!Next, FramePool!TakeTable
<1>3. ASSUME NEW f, PageTaken(mm, mm', f)
      PROVE  Simulated
  BY <1>3 DEF PageTaken, Simulated, FramePool!Next, FramePool!TakePage
<1>4. ASSUME NEW f, PageLost(mm, mm', f)
      PROVE  Simulated
  BY <1>4 DEF PageLost, Simulated, FramePool!Next, FramePool!Lose
<1> QED
  BY <1>1, <1>2, <1>3, <1>4

\* A walk's table check, as GetPTUses.
LEMMA AtTableUses ==
  ASSUME Good(mm), op.v \in Pages
  PROVE  \/ SameUses(mm, AtTable(mm, op))
         \/ \E f : TableTaken(mm, AtTable(mm, op), f) /\ ~Mapped(AtTable(mm, op), op.v)
<1>1. AtTable(mm, op) \in {mm, GetPT(mm, op.v)}
  BY DEF AtTable
<1>2. SameUses(mm, mm)
  BY DEF SameUses
<1> QED
  BY <1>1, <1>2, GetPTUses

\* One turn of a walk's loop: a table that the turn makes maps nothing yet, so
\* the turn then has no frame to lose.
LEMMA TurnUses ==
  ASSUME IInv, NEW kind \in Kinds, NEW next, Turn(kind, AtTable(mm, op), next),
         \/ SameUses(AtTable(mm, op), next)
         \/ Mapped(AtTable(mm, op), op.v) /\ \E f : PageLost(AtTable(mm, op), next, f)
  PROVE  Simulated
<1> DEFINE m == AtTable(mm, op)
<1>1. mm' = IF m.halt # "no" THEN m ELSE next
  BY DEF Turn
<1>2. \/ SameUses(mm, m)
      \/ \E f : TableTaken(mm, m, f) /\ ~Mapped(m, op.v)
  BY AtTableGood, AtTableUses DEF IInv, Turn
<1>3. CASE m.halt # "no"
  BY <1>1, <1>2, <1>3, StepSimulated
<1>4. CASE m.halt = "no" /\ SameUses(m, next)
  <2>1. SameUses(mm, mm') \/ \E f : TableTaken(mm, mm', f)
    BY <1>1, <1>2, <1>4 DEF SameUses, TableTaken
  <2> QED
    BY <2>1, StepSimulated
<1>5. CASE m.halt = "no" /\ ~SameUses(m, next)
  <2>1. SameUses(mm, m)
    BY <1>2, <1>5
  <2>2. \E f : PageLost(mm, mm', f)
    BY <1>1, <1>5, <2>1 DEF SameUses, PageLost
  <2> QED
    BY <2>2, StepSimulated
<1> QED
  BY <1>3, <1>4, <1>5

\* The loops of the four calls.
LEMMA WalkUses ==
  ASSUME IInv, MapTurn \/ ZeroFillTurn \/ UnmapTurn \/ FreeTurn
  PROVE  Simulated
<1> DEFINE m == AtTable(mm, op)
<1>1. ASSUME NEW kind \in Kinds, NEW e \in Entry, e.present => e.frame \in Device,
             Turn(kind, m, SetEntry(m, op.v, e))
      PROVE  Simulated
  <2>1. op.v \in Pages /\ Good(m)
    BY <1>1, AtTableGood DEF IInv, Turn
  <2> HIDE DEF m
  <2>2. \/ SameUses(m, SetEntry(m, op.v, e))
        \/ Mapped(m, op.v) /\ \E f : PageLost(m, SetEntry(m, op.v, e), f)
    BY <1>1, <2>1, SetEntryUses
  <2> QED
    BY <1>1, <2>2, TurnUses DEF m
<1>2. CASE MapTurn
  <2> DEFINE e == [present |-> TRUE, zerofill |-> FALSE, perm |-> op.perm, frame |-> op.phys]
  <2>1. Turn("map", m, SetEntry(m, op.v, e))
    BY <1>2 DEF MapTurn
  <2>2. op.phys \in Device
    BY <2>1, PageManagerAssumption DEF Turn, IInv, WalkInBounds, Device
  <2>3. op.perm \in SUBSET {"user", "rw"}
    BY PageManagerAssumption DEF IInv, WalkInBounds
  <2>4. e \in Entry /\ e.frame \in Device
    BY <2>2, <2>3 DEF Entry, Frames
  <2> QED
    BY <1>1, <2>1, <2>4 DEF Kinds
<1>3. CASE ZeroFillTurn
  <2> DEFINE e == [present |-> FALSE, zerofill |-> TRUE, perm |-> op.perm, frame |-> NoFrame]
  <2>1. op.perm \in SUBSET {"user", "rw"}
    BY PageManagerAssumption DEF IInv, WalkInBounds
  <2>2. e \in Entry /\ ~e.present
    BY <2>1 DEF Entry
  <2> QED
    BY <1>1, <1>3, <2>2 DEF ZeroFillTurn, Kinds
<1>4. CASE UnmapTurn
  <2>1. ZeroEntry \in Entry /\ ~ZeroEntry.present
    BY DEF ZeroEntry, Entry
  <2> QED
    BY <1>1, <1>4, <2>1 DEF UnmapTurn, Kinds
<1>5. CASE FreeTurn
  <2>1. Turn("free", m, FreeEntry(m, op.v))
    BY <1>5 DEF FreeTurn
  <2>2. op.v \in Pages /\ Good(m)
    BY <2>1, AtTableGood DEF IInv, Turn, Kinds
  <2> HIDE DEF m
  <2>3. FreeEntry(m, op.v) \in {m, Halt(m, "unaligned")}
    BY <2>2, FreeEntryGood
  <2>4. SameUses(m, FreeEntry(m, op.v))
    BY <2>2, <2>3, HaltUses DEF SameUses
  <2> QED
    BY <2>1, <2>4, TurnUses DEF m, Kinds
<1> QED
  BY <1>2, <1>3, <1>4, <1>5

\* A fault takes a frame for the page, and one for its table if it had none.
LEMMA FaultUses ==
  ASSUME IInv, NEW v \in Pages, Exception_Page(v)
  PROVE  Simulated
<1> DEFINE m == GetPT(mm, v)
           r == IF m.halt # "no" THEN m ELSE Resolve(m, v)
<1>1. mm' = r /\ ~Mapped(mm, v)
  BY DEF Exception_Page
<1>2. /\ Good(m) /\ ~Mapped(m, v)
      /\ m.halt = "no" => m.pd[PDE(v)] # NoFrame
      /\ SameUses(mm, m) \/ \E f : TableTaken(mm, m, f)
  BY <1>1, GetPTGood, GetPTUses DEF IInv
<1>3. CASE m.halt # "no"
  BY <1>1, <1>2, <1>3, StepSimulated
<1>4. ASSUME m.halt = "no"
      PROVE  SameUses(m, r) \/ \E g : PageTaken(m, r, g)
  <2>1. CASE r = Allocate(m, v)
    BY <1>2, <1>4, <2>1, AllocateUses
  <2>2. CASE r = Halt(m, "fault")
    BY <1>2, <2>2, HaltUses
  <2> QED
    BY <1>4, <2>1, <2>2 DEF Resolve
<1>5. CASE m.halt = "no" /\ SameUses(m, r)
  <2>1. SameUses(mm, mm') \/ \E f : TableTaken(mm, mm', f)
    BY <1>1, <1>2, <1>5 DEF SameUses, TableTaken
  <2> QED
    BY <2>1, StepSimulated
<1>6. ASSUME m.halt = "no", NEW g, PageTaken(m, r, g)
      PROVE  Simulated
  <2>1. CASE SameUses(mm, m)
    <3>1. PageTaken(mm, mm', g)
      BY <1>1, <1>6, <2>1 DEF SameUses, PageTaken
    <3> QED
      BY <3>1, StepSimulated
  <2>2. ASSUME NEW f, TableTaken(mm, m, f)
        PROVE  Simulated
    <3>1. f \in OnStack(mm) /\ g \in OnStack(mm) \ {f}
      BY <1>6, <2>2 DEF TableTaken, PageTaken
    <3>2. FramePool!TakeBoth(f, g)
      BY <1>1, <1>6, <2>2, <3>1 DEF TableTaken, PageTaken, FramePool!TakeBoth
    <3> QED
      BY <3>1, <3>2 DEF Simulated, FramePool!Next
  <2> QED
    BY <1>2, <2>1, <2>2
<1> QED
  BY <1>3, <1>4, <1>5, <1>6

\* A call's first table is made, if it has to be, when the call begins.
LEMMA GetPTSimulated ==
  ASSUME IInv, NEW v \in Pages, mm' = GetPT(mm, v)
  PROVE  Simulated
BY GetPTUses, StepSimulated DEF IInv

\* Every step of the page manager is one of FramePool's steps, or a stutter.
LEMMA NextSimulated ==
  ASSUME IInv, [Next]_vars
  PROVE  Simulated
<1>1. CASE MM_Page_Map \/ MM_Page_MapZeroFill \/ MM_Page_Unmap \/ MM_Page_Free
  BY <1>1, GetPTSimulated
     DEF MM_Page_Map, MM_Page_MapZeroFill, MM_Page_Unmap, MM_Page_Free, Begin
<1>2. CASE MapTurn \/ ZeroFillTurn \/ UnmapTurn \/ FreeTurn
  BY <1>2, WalkUses
<1>3. ASSUME mm' = mm
      PROVE  Simulated
  <2>1. SameUses(mm, mm')
    BY <1>3 DEF SameUses
  <2> QED
    BY <2>1, StepSimulated
<1>4. CASE Finish
  BY <1>3, <1>4 DEF Finish
<1>5. ASSUME NEW v \in Pages, MM_GetPTValue(v)
      PROVE  Simulated
  BY <1>5, GetPTSimulated DEF MM_GetPTValue
<1>6. ASSUME NEW v \in Pages, Touch(v)
      PROVE  Simulated
  BY <1>3, <1>6 DEF Touch
<1>7. ASSUME NEW v \in Pages, Exception_Page(v)
      PROVE  Simulated
  BY <1>7, FaultUses
<1>8. CASE UNCHANGED vars
  BY <1>3, <1>8 DEF vars
<1> QED
  BY <1>1, <1>2, <1>4, <1>5, <1>6, <1>7, <1>8 DEF Next

\* The stack that MM_Init leaves holds the whole pool.
LEMMA InitSimulated == Init => FramePool!Init
<1> SUFFICES ASSUME Init PROVE FramePool!Init
  OBVIOUS
<1>1. FreeCount \in Nat \ {0}
  BY PageManagerAssumption
<1>2. /\ mm.pd = [t \in Tables |-> NoFrame] /\ mm.fps = [i \in Pool |-> i]
      /\ mm.idx = FreeCount - 1 /\ mm.dropped = {}
  BY DEF Init
<1>3. OnStack(mm) = Pool
  BY <1>1, <1>2 DEF OnStack, Pool
<1>4. AsTable(mm) = {}
  BY <1>2 DEF AsTable
<1>5. AsPage(mm) = {}
  <2>1. \A v \in Pages : ~Mapped(mm, v)
    BY <1>2, PDEInTables DEF Mapped
  <2> QED
    BY <2>1 DEF AsPage
<1> QED
  BY <1>2, <1>3, <1>4, <1>5 DEF FramePool!Init

\* Whatever is mapped, unmapped and faulted in, and however often, the page
\* manager does with the frames only what FramePool promises.
THEOREM ImplementsFramePool == Spec => FramesOwned
<1>1. IInv /\ [Next]_vars => [FramePool!Next]_(FramePool!pool)
  BY NextSimulated DEF Simulated
<1> QED
  BY <1>1, Invariance, InitSimulated, PTL DEF Spec, FramesOwned, FramePool!Spec
=============================================================================
