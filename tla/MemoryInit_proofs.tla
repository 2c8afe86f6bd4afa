-------------------------- MODULE MemoryInit_proofs --------------------------
(***************************************************************************)
(* Proofs about MemoryInit, for every memory map, page size and layout     *)
(* that its assumptions admit.                                             *)
(***************************************************************************)
EXTENDS MemoryInit, NaturalFacts, SequenceTheorems, TLAPS

----------------------------------------------------------------------------
(* Arithmetic.                                                             *)

\* What the assumptions say of the numbers.
LEMMA Numbers ==
  /\ UnitsPerPage \in Nat \ {0} /\ AddressPages \in Nat \ {0} /\ EntriesPerPage \in Nat \ {0}
  /\ Word \in Nat \ {0} /\ Word = UnitsPerPage * AddressPages
  /\ Kernel \in Nat /\ KernelSize \in Nat /\ StackPages \in Nat /\ PageDirectory \in Nat
  /\ FPSPhysical \in Nat /\ ZeroPageTable \in Nat
  /\ Kernel + KernelSize <= PageDirectory /\ ZeroPageTable + 2 < FPSPhysical
  /\ FPSPhysical < AddressPages
  /\ CorePageTable = PageDirectory + 1 /\ Stack = PageDirectory + 2
  /\ ZeroPageTable = PageDirectory + 2 + StackPages
<1>1. /\ UnitsPerPage \in Nat \ {0} /\ AddressPages \in Nat /\ EntriesPerPage \in Nat \ {0}
      /\ Kernel \in Nat /\ KernelSize \in Nat /\ StackPages \in Nat /\ PageDirectory \in Nat
      /\ FPSPhysical \in Nat /\ FPSPhysical < AddressPages
      /\ Kernel + KernelSize <= PageDirectory
  BY MemoryInitAssumption
<1>2. ZeroPageTable + 2 < FPSPhysical
  BY ReachAssumption
<1>3. AddressPages \in Nat \ {0}
  BY <1>1
<1>4. Word \in Nat \ {0} /\ Word = UnitsPerPage * AddressPages
  BY <1>1, <1>3 DEF Word
<1>5. /\ CorePageTable = PageDirectory + 1 /\ Stack = PageDirectory + 2
      /\ ZeroPageTable = PageDirectory + 2 + StackPages
  BY <1>1 DEF ZeroPageTable, Stack, CorePageTable
<1> QED
  BY <1>1, <1>2, <1>3, <1>4, <1>5

----------------------------------------------------------------------------
(* The entries of the map.                                                 *)

FirstPage(e) == e.base \div UnitsPerPage

\* Memory from one page on, and the whole pages in it.
LEMMA WholePages ==
  ASSUME NEW base \in 0 .. Word - 1, NEW len \in 0 .. Word - 1,
         base % UnitsPerPage = 0, base + len <= Word,
         NEW b, b = base \div UnitsPerPage, NEW n, n = len \div UnitsPerPage
  PROVE  /\ b \in Nat /\ n \in Nat /\ base = UnitsPerPage * b
         /\ UnitsPerPage * n <= len /\ len < UnitsPerPage * (n + 1)
         /\ b + n <= AddressPages
<1> USE Numbers
<1>1. b \in Nat /\ base = UnitsPerPage * b
  <2>1. base \in Nat
    OBVIOUS
  <2> QED
    BY <2>1, Quotient
<1>3. n \in Nat /\ UnitsPerPage * n <= len /\ len < UnitsPerPage * (n + 1)
  <2>1. len \in Nat
    OBVIOUS
  <2> QED
    BY <2>1, Quotient
<1>4. UnitsPerPage * (b + n) <= UnitsPerPage * AddressPages
  <2>1. ASSUME NEW u \in Nat, NEW x \in Nat, NEW y \in Nat
        PROVE  u * (x + y) = u * x + u * y /\ u * x \in Nat /\ u * y \in Nat
    OBVIOUS
  <2>2. /\ UnitsPerPage * (b + n) = UnitsPerPage * b + UnitsPerPage * n
        /\ UnitsPerPage * b \in Nat /\ UnitsPerPage * n \in Nat
    BY <1>1, <1>3, <2>1
  <2> QED
    BY <1>1, <1>3, <2>2
<1>5. b + n \in Int /\ AddressPages \in Int
  BY <1>1, <1>3
<1> QED
  BY <1>1, <1>3, <1>4, <1>5, Cancel

\* The fields of an entry.
LEMMA EntryFields ==
  ASSUME NEW m \in Maps, NEW k \in DOMAIN m
  PROVE  /\ m[k] \in MapEntry
         /\ m[k].base \in 0 .. Word - 1 /\ m[k].len \in 0 .. Word - 1
         /\ m[k].baseHigh \in Nat /\ m[k].lenHigh \in Nat
         /\ m \in Seq(MapEntry) /\ Len(m) \in Nat /\ DOMAIN m = 1 .. Len(m)
<1>1. m \in Seq(MapEntry)
  BY MemoryInitAssumption
<1>2. m[k] \in MapEntry /\ Len(m) \in Nat /\ DOMAIN m = 1 .. Len(m)
  BY <1>1, LenProperties, ElementOfSeq
<1> QED
  BY <1>1, <1>2 DEF MapEntry

\* The code's numbers of an entry are those of its memory.
LEMMA UsableEntry ==
  ASSUME NEW m \in Maps, NEW k \in DOMAIN m, Usable(m[k])
  PROVE  /\ m[k].lenHigh = 0 /\ m[k].baseHigh = 0 /\ m[k].base + m[k].len <= Word
         /\ nAddr(m[k]) = m[k].base /\ m[k].base % UnitsPerPage = 0
         /\ nLen(m[k]) = m[k].len \div UnitsPerPage
<1> USE Numbers
<1>1. /\ m[k].baseHigh = 0 /\ m[k].lenHigh = 0 /\ m[k].base + m[k].len <= Word
  BY MapsAssumption
<1>2. m[k].base \in 0 .. Word - 1 /\ m[k].len \in 0 .. Word - 1
  BY EntryFields
<1>3. nAddr(m[k]) = m[k].base
  <2>1. 0 + m[k].base = m[k].base /\ m[k].base % Word = m[k].base
    BY <1>2, ModSmall
  <2> QED
    BY <1>1, <2>1 DEF nAddr
<1>4. nLen(m[k]) = m[k].len \div UnitsPerPage
  <2>1. 0 + m[k].len = m[k].len /\ m[k].len % Word = m[k].len
    BY <1>2, ModSmall
  <2> QED
    BY <1>1, <2>1 DEF nLen
<1> QED
  BY <1>1, <1>3, <1>4 DEF Usable, OnBoundary

\* The pages the code makes of an entry are the whole pages of its memory.
LEMMA UsablePages ==
  ASSUME NEW m \in Maps, NEW k \in DOMAIN m, Usable(m[k]),
         NEW e, e = m[k], NEW b, b = FirstPage(e), NEW n, n = nLen(e)
  PROVE  /\ b \in Nat /\ n \in Nat /\ b + n <= AddressPages
         /\ \A x \in Nat : x < n =>
              ((nAddr(e) + x * UnitsPerPage) % Word) \div UnitsPerPage = b + x
         /\ \A p \in Nat :
              /\ e.base <= p * UnitsPerPage
              /\ (p + 1) * UnitsPerPage <= e.base + e.len
              <=> Within(p, b, n)
<1> USE Numbers
<1>1. /\ e.base \in 0 .. Word - 1 /\ e.len \in 0 .. Word - 1 /\ e.base + e.len <= Word
      /\ nAddr(e) = e.base /\ e.base % UnitsPerPage = 0 /\ n = e.len \div UnitsPerPage
      /\ b = e.base \div UnitsPerPage
  BY EntryFields, UsableEntry DEF FirstPage
<1>2. /\ b \in Nat /\ n \in Nat /\ e.base = UnitsPerPage * b
      /\ UnitsPerPage * n <= e.len /\ e.len < UnitsPerPage * (n + 1)
      /\ b + n <= AddressPages
  <2> DEFINE base == e.base
             len == e.len
  <2>1. /\ base \in 0 .. Word - 1 /\ len \in 0 .. Word - 1 /\ base + len <= Word
        /\ base % UnitsPerPage = 0 /\ n = len \div UnitsPerPage
        /\ b = base \div UnitsPerPage
    BY <1>1
  <2> HIDE DEF base, len
  <2>2. /\ b \in Nat /\ n \in Nat /\ base = UnitsPerPage * b
        /\ UnitsPerPage * n <= len /\ len < UnitsPerPage * (n + 1)
        /\ b + n <= AddressPages
    BY <2>1, WholePages
  <2> QED
    BY <2>2 DEF base, len
<1>3. ASSUME NEW x \in Nat, x < n
      PROVE  ((nAddr(e) + x * UnitsPerPage) % Word) \div UnitsPerPage = b + x
  <2>1. x * UnitsPerPage = UnitsPerPage * x /\ UnitsPerPage * x \in Nat
    OBVIOUS
  <2>2. e.base + UnitsPerPage * x = UnitsPerPage * (b + x)
    BY <1>2
  <2>3. UnitsPerPage * (b + x + 1) <= Word
        /\ UnitsPerPage * (b + x + 1) = UnitsPerPage * (b + x) + UnitsPerPage
    <3>1. b + x + 1 <= AddressPages /\ b + x + 1 \in Int /\ AddressPages \in Int
      BY <1>2, <1>3
    <3>2. UnitsPerPage * (b + x + 1) <= UnitsPerPage * AddressPages
      BY <3>1, Cancel
    <3>3. UnitsPerPage * (b + x + 1) = UnitsPerPage * (b + x) + UnitsPerPage
      BY <1>2
    <3> QED
      BY <3>2, <3>3
  <2>4. UnitsPerPage * (b + x) \in Nat /\ UnitsPerPage * (b + x) < Word /\ b + x \in Nat
    BY <1>2, <2>3
  <2>5. (UnitsPerPage * (b + x)) % Word = UnitsPerPage * (b + x)
    BY <2>4, ModSmall
  <2>6. (UnitsPerPage * (b + x)) \div UnitsPerPage = b + x
    <3>1. 0 < UnitsPerPage /\ 0 \in Nat
      OBVIOUS
    <3>2. (UnitsPerPage * (b + x) + 0) \div UnitsPerPage = b + x
      BY <2>4, <3>1, DivUnique
    <3> QED
      BY <2>4, <3>2
  <2> QED
    BY <1>1, <2>1, <2>2, <2>5, <2>6
<1>4. ASSUME NEW p \in Nat
      PROVE  /\ e.base <= p * UnitsPerPage
             /\ (p + 1) * UnitsPerPage <= e.base + e.len
             <=> Within(p, b, n)
  <2>1. p * UnitsPerPage = UnitsPerPage * p /\ (p + 1) * UnitsPerPage = UnitsPerPage * (p + 1)
    OBVIOUS
  <2>2. e.base <= UnitsPerPage * p <=> b <= p
    <3>1. b \in Int /\ p \in Int
      BY <1>2
    <3> QED
      BY <1>2, <3>1, Cancel
  <2>3. UnitsPerPage * (p + 1) <= e.base + e.len <=> p < b + n
    <3>1. CASE p < b + n
      <4>1. p + 1 <= b + n /\ p + 1 \in Int /\ b + n \in Int
        BY <1>2, <3>1
      <4>2. UnitsPerPage * (p + 1) <= UnitsPerPage * (b + n)
        BY <4>1, Cancel
      <4>3. UnitsPerPage * (b + n) = UnitsPerPage * b + UnitsPerPage * n
        BY <1>2
      <4> QED
        BY <1>1, <1>2, <3>1, <4>2, <4>3
    <3>2. CASE b + n <= p
      <4>1. b + (n + 1) <= p + 1 /\ p + 1 \in Int /\ b + (n + 1) \in Int
        BY <1>2, <3>2
      <4>2. UnitsPerPage * (b + (n + 1)) <= UnitsPerPage * (p + 1)
        BY <4>1, Cancel
      <4>3. UnitsPerPage * (b + (n + 1)) = UnitsPerPage * b + UnitsPerPage * (n + 1)
        BY <1>2
      <4> QED
        BY <1>1, <1>2, <3>2, <4>2, <4>3
    <3> QED
      BY <1>2, <3>1, <3>2
  <2> QED
    BY <2>1, <2>2, <2>3 DEF Within
<1> QED
  BY <1>2, <1>3, <1>4

\* Whatever an entry says, its pages are counted with a natural number and are
\* pages of the address space.
LEMMA EntryNumbers ==
  ASSUME NEW m \in Maps, NEW k \in DOMAIN m
  PROVE  /\ nLen(m[k]) \in Nat
         /\ \A n \in Nat :
              ((nAddr(m[k]) + n * UnitsPerPage) % Word) \div UnitsPerPage \in AllPages
<1> USE Numbers
<1>1. /\ m[k].base \in 0 .. Word - 1 /\ m[k].len \in 0 .. Word - 1
      /\ m[k].baseHigh \in Nat /\ m[k].lenHigh \in Nat
  BY EntryFields
<1>2. ASSUME NEW a \in Nat
      PROVE  a % Word \in Nat /\ a % Word < AddressPages * UnitsPerPage
  <2>1. Word = AddressPages * UnitsPerPage
    BY DEF Word
  <2>2. a % Word \in 0 .. Word - 1
    OBVIOUS
  <2> QED
    BY <2>1, <2>2
<1>3. ASSUME NEW a \in Nat
      PROVE  (a % Word) \div UnitsPerPage \in AllPages
  <2>1. a % Word \in Nat /\ a % Word < AddressPages * UnitsPerPage
    BY <1>2
  <2> QED
    BY <2>1, DivLess DEF AllPages
<1>4. nAddr(m[k]) \in Nat /\ m[k].lenHigh + m[k].len \in Nat
  <2>1. m[k].baseHigh + m[k].base \in Nat /\ m[k].lenHigh + m[k].len \in Nat
    BY <1>1
  <2> QED
    BY <1>2, <2>1 DEF nAddr
<1>5. nLen(m[k]) \in Nat
  BY <1>3, <1>4 DEF nLen, AllPages
<1>6. ASSUME NEW n \in Nat
      PROVE  ((nAddr(m[k]) + n * UnitsPerPage) % Word) \div UnitsPerPage \in AllPages
  <2>1. n * UnitsPerPage \in Nat
    OBVIOUS
  <2>2. nAddr(m[k]) + n * UnitsPerPage \in Nat
    BY <1>4, <2>1
  <2> QED
    BY <1>3, <2>2
<1> QED
  BY <1>5, <1>6

----------------------------------------------------------------------------
(* Types and the course of MM_Init.                                        *)

Step == {"check", "count", "fill", "heap", "unmap", "video", "running"}

\* The counters and the stack at each step; what was taken from the stack is what
\* lies over its index.
Control ==
  /\ map \in Maps /\ pc \in Step /\ halt \in {"no", "nomap", "boundary", "oom"}
  /\ identity \in BOOLEAN
  /\ i \in 1 .. Len(map) + 1 /\ j \in Nat /\ nPages \in Nat /\ fps \in Seq(AllPages)
  /\ pc = "check" => i = 1 /\ nPages = 0
  /\ pc \in {"check", "count"} => j = 0 /\ fps = <<>> /\ idx = 0
  /\ pc = "fill" => idx = Len(fps)
  /\ pc \notin {"check", "count"} /\ i > Len(map) => j = 0
  /\ ~Filled => handed = {}
  /\ Filled => /\ i = Len(map) + 1 /\ idx \in -1 .. Len(fps) - 1
               /\ handed = {fps[k] : k \in idx + 2 .. Len(fps)}
  /\ pc = "heap" => idx = Len(fps) - 1
  /\ pc = "unmap" => idx = Len(fps) - 3
  /\ pc \in {"video", "running"} => ~identity

\* The first state.
LEMMA InitControl == Init => Control
<1> SUFFICES ASSUME Init PROVE Control
  OBVIOUS
<1>1. map \in Seq(MapEntry)
  BY MemoryInitAssumption DEF Init
<1>2. Len(map) \in Nat
  BY <1>1, LenProperties
<1> QED
  BY <1>2 DEF Init, Control, Step, Filled

\* MM_Page_GetFree takes the frames on top of the stack.
LEMMA TakesTop ==
  ASSUME fps \in Seq(AllPages), idx \in -1 .. Len(fps) - 1,
         handed = {fps[k] : k \in idx + 2 .. Len(fps)},
         NEW n \in Nat, NEW next, GetFree(n, next), halt = "no"
  PROVE  \/ halt' = "oom" /\ UNCHANGED <<idx, handed, pc>>
         \/ /\ idx' = idx - n /\ idx' \in -1 .. Len(fps) - 1 /\ pc' = next /\ halt' = halt
            /\ handed' = {fps[k] : k \in idx' + 2 .. Len(fps)}
<1>1. Len(fps) \in Nat
  BY LenProperties
<1>2. CASE idx + 1 < n
  BY <1>2 DEF GetFree
<1>3. CASE ~(idx + 1 < n)
  <2>1. /\ handed' = handed \cup {fps[k + 1] : k \in idx - n + 1 .. idx}
        /\ idx' = idx - n /\ pc' = next /\ halt' = halt
    BY <1>3 DEF GetFree
  <2>2. idx' \in -1 .. Len(fps) - 1
    BY <1>1, <1>3, <2>1
  <2>3. {fps[k + 1] : k \in idx - n + 1 .. idx} = {fps[k] : k \in idx - n + 2 .. idx + 1}
    <3>1. ASSUME NEW k \in idx - n + 1 .. idx
          PROVE  k + 1 \in idx - n + 2 .. idx + 1
      BY <1>1
    <3>2. ASSUME NEW k \in idx - n + 2 .. idx + 1
          PROVE  k - 1 \in idx - n + 1 .. idx /\ (k - 1) + 1 = k
      BY <1>1
    <3> QED
      BY <3>1, <3>2
  <2>4. idx - n + 2 .. Len(fps) = (idx + 2 .. Len(fps)) \cup (idx - n + 2 .. idx + 1)
    BY <1>1, <1>3
  <2> QED
    BY <2>1, <2>2, <2>3, <2>4
<1> QED
  BY <1>2, <1>3

\* Every step keeps to the course.
LEMMA ControlStep ==
  ASSUME Control, [Next]_vars
  PROVE  Control'
<1> USE DEF Step, Filled
<1>1. /\ map \in Seq(MapEntry) /\ Len(map) \in Nat /\ DOMAIN map = 1 .. Len(map)
      /\ fps \in Seq(AllPages) /\ Len(fps) \in Nat
  BY MemoryInitAssumption, LenProperties DEF Control
<1>2. ASSUME NEW present \in BOOLEAN, CheckMap(present)
      PROVE  Control'
  BY <1>1, <1>2 DEF Control, CheckMap
<1>3. CASE CountEntry
  <2>1. i \in DOMAIN map
    BY <1>1, <1>3 DEF Control, CountEntry
  <2>2. nLen(map[i]) \in Nat
    BY <2>1, EntryNumbers DEF Control
  <2>3. i' \in 1 .. Len(map) + 1 /\ nPages' \in Nat
    BY <1>1, <1>3, <2>1, <2>2 DEF Control, CountEntry
  <2> QED
    BY <1>1, <1>3, <2>3 DEF Control, CountEntry
<1>4. CASE MapStack
  <2>1. PagesFor(nPages) \in Nat
    <3>1. nPages + EntriesPerPage - 1 \in Nat /\ EntriesPerPage \in Nat \ {0}
      BY Numbers DEF Control
    <3> QED
      BY <3>1, Quotient DEF PagesFor
  <2>2. fps = <<>> /\ Len(fps) = 0
    BY <1>4 DEF MapStack, Control
  <2> QED
    BY <1>1, <1>4, <2>1, <2>2 DEF Control, MapStack
<1>5. CASE FillPage
  <2> DEFINE p == ((nAddr(map[i]) + j * UnitsPerPage) % Word) \div UnitsPerPage
  <2>1. i \in DOMAIN map
    BY <1>1, <1>5 DEF Control, FillPage
  <2>2. p \in AllPages
    BY <2>1, EntryNumbers DEF Control
  <2>3. \/ UNCHANGED <<fps, idx>>
        \/ fps' = Append(fps, p) /\ idx' = idx + 1
    BY <1>5 DEF FillPage
  <2> HIDE DEF p
  <2>4. fps' \in Seq(AllPages) /\ (idx = Len(fps) => idx' = Len(fps'))
    <3>1. Append(fps, p) \in Seq(AllPages) /\ Len(Append(fps, p)) = Len(fps) + 1
      BY <1>1, <2>2, AppendProperties
    <3>2. CASE UNCHANGED <<fps, idx>>
      BY <1>1, <3>2
    <3>3. CASE fps' = Append(fps, p) /\ idx' = idx + 1
      BY <1>1, <3>1, <3>3
    <3> QED
      BY <2>3, <3>2, <3>3
  <2> QED
    BY <1>1, <1>5, <2>1, <2>4 DEF Control, FillPage
<1>6. CASE FillNextEntry
  BY <1>1, <1>6 DEF Control, FillNextEntry
<1>7. CASE FillDone
  <2>1. /\ i = Len(map) + 1 /\ idx = Len(fps) /\ handed = {}
        /\ idx' = Len(fps) - 1 /\ pc' = "heap"
        /\ UNCHANGED <<map, i, j, nPages, fps, identity, handed, halt>>
    BY <1>1, <1>7 DEF Control, FillDone
  <2>2. handed' = {fps[k] : k \in idx' + 2 .. Len(fps)}
    BY <1>1, <2>1
  <2> QED
    BY <1>1, <2>1, <2>2 DEF Control
<1>8. CASE InitHeap
  <2>1. /\ idx \in -1 .. Len(fps) - 1 /\ handed = {fps[k] : k \in idx + 2 .. Len(fps)}
        /\ GetFree(2, "unmap") /\ halt = "no" /\ pc = "heap" /\ 2 \in Nat
        /\ idx = Len(fps) - 1
    BY <1>8 DEF Control, InitHeap
  <2>2. \/ halt' = "oom" /\ UNCHANGED <<idx, handed, pc>>
        \/ /\ idx' = idx - 2 /\ idx' \in -1 .. Len(fps) - 1 /\ pc' = "unmap" /\ halt' = halt
           /\ handed' = {fps[k] : k \in idx' + 2 .. Len(fps)}
    BY <1>1, <2>1, TakesTop
  <2> QED
    BY <1>1, <1>8, <2>1, <2>2 DEF Control, InitHeap
<1>9. CASE UnmapIdentity
  BY <1>1, <1>9 DEF Control, UnmapIdentity
<1>10. CASE TextModeVideo_PostMMInit
  <2>1. /\ idx \in -1 .. Len(fps) - 1 /\ handed = {fps[k] : k \in idx + 2 .. Len(fps)}
        /\ GetFree(1, "running") /\ halt = "no" /\ pc = "video" /\ 1 \in Nat
    BY <1>10 DEF Control, TextModeVideo_PostMMInit
  <2>2. \/ halt' = "oom" /\ UNCHANGED <<idx, handed, pc>>
        \/ /\ idx' = idx - 1 /\ idx' \in -1 .. Len(fps) - 1 /\ pc' = "running" /\ halt' = halt
           /\ handed' = {fps[k] : k \in idx' + 2 .. Len(fps)}
    BY <1>1, <2>1, TakesTop
  <2> QED
    BY <1>1, <1>10, <2>1, <2>2 DEF Control, TextModeVideo_PostMMInit
<1>11. CASE UNCHANGED vars
  BY <1>11 DEF Control, vars
<1> QED
  BY <1>2, <1>3, <1>4, <1>5, <1>6, <1>7, <1>8, <1>9, <1>10, <1>11 DEF Next

\* The course of MM_Init.
THEOREM Course == Spec => []Control
<1>1. Control /\ [Next]_vars => Control'
  BY ControlStep
<1> QED
  BY <1>1, InitControl, PTL DEF Spec

\* Counters stay in their ranges; the index of the free page stack never leaves
\* the stack by more than the one that says that it is empty.
THEOREM TypeCorrect == Spec => []TypeOK
<1>1. Control => TypeOK
  <2> SUFFICES ASSUME Control PROVE TypeOK
    OBVIOUS
  <2>1. Len(fps) \in Nat /\ Len(map) \in Nat
    BY MemoryInitAssumption, LenProperties DEF Control
  <2>2. \A k \in 1 .. Len(fps) : fps[k] \in AllPages
    BY ElementOfSeq DEF Control
  <2>3. handed \subseteq AllPages
    <3>1. CASE Filled
      <4>1. /\ idx \in -1 .. Len(fps) - 1
            /\ handed = {fps[k] : k \in idx + 2 .. Len(fps)}
        BY <3>1 DEF Control
      <4>2. \A k \in idx + 2 .. Len(fps) : k \in 1 .. Len(fps)
        BY <2>1, <4>1
      <4> QED
        BY <2>2, <4>1, <4>2
    <3>2. CASE ~Filled
      BY <3>2 DEF Control
    <3> QED
      BY <3>1, <3>2
  <2>4. idx \in -1 .. Len(fps)
    BY <2>1 DEF Control, Step, Filled
  <2> QED
    BY <2>1, <2>3, <2>4 DEF Control, TypeOK, Step
<1> QED
  BY <1>1, Course, PTL

----------------------------------------------------------------------------
(* The room for the stack.                                                 *)

Pages(e) == IF IsRAM(e) THEN nLen(e) ELSE 0

\* S is the number of pages in the first entries of a map, for each number of
\* entries up to n.
Sums(m, S, n) ==
  /\ S \in [0 .. n -> Nat] /\ S[0] = 0
  /\ \A k \in 1 .. n : S[k] = S[k - 1] + Pages(m[k])
  /\ \A k \in 0 .. n : S[k] <= S[n]

\* While it counts, nPages is the sum so far; the stack is given the pages that
\* the whole sum takes, and no more is pushed than was counted up to here.
Room ==
  /\ pc \in {"check", "count"} => \E S : Sums(map, S, i - 1) /\ nPages = S[i - 1]
  /\ pc \notin {"check", "count"} =>
       \E S : /\ Sums(map, S, Len(map)) /\ nPages = PagesFor(S[Len(map)])
              /\ Len(fps) <= S[i - 1] + j
              /\ i <= Len(map) => j <= Pages(map[i])

\* One entry more.
LEMMA OneMoreEntry ==
  ASSUME NEW m, NEW S, NEW n \in Nat, Sums(m, S, n), Pages(m[n + 1]) \in Nat
  PROVE  \E T : Sums(m, T, n + 1) /\ T[n + 1] = S[n] + Pages(m[n + 1])
<1> DEFINE p == Pages(m[n + 1])
           T == [k \in 0 .. n + 1 |-> IF k = n + 1 THEN S[n] + p ELSE S[k]]
<1>1. /\ \A k \in 0 .. n : S[k] \in Nat /\ S[k] <= S[n]
      /\ \A k \in 1 .. n : S[k] = S[k - 1] + Pages(m[k])
      /\ S[0] = 0
  BY DEF Sums
<1>2. \A k \in 0 .. n : T[k] = S[k] /\ T[k] \in Nat
  BY <1>1
<1>3. T[n + 1] = S[n] + p /\ S[n] \in Nat /\ p \in Nat
  BY <1>1
<1>4. T \in [0 .. n + 1 -> Nat]
  <2>1. ASSUME NEW k \in 0 .. n + 1
        PROVE  (IF k = n + 1 THEN S[n] + p ELSE S[k]) \in Nat
    BY <1>1, <1>3
  <2> QED
    BY <2>1
<1> HIDE DEF T, p
<1>5. ASSUME NEW k \in 1 .. n + 1
      PROVE  T[k] = T[k - 1] + Pages(m[k])
  <2>1. CASE k = n + 1
    <3>1. k - 1 = n /\ n \in 0 .. n
      BY <2>1
    <3> QED
      BY <1>2, <1>3, <2>1, <3>1 DEF p
  <2>2. CASE k # n + 1
    <3>1. k \in 1 .. n /\ k \in 0 .. n /\ k - 1 \in 0 .. n
      BY <2>2
    <3> QED
      BY <1>1, <1>2, <3>1
  <2> QED
    BY <2>1, <2>2
<1>6. ASSUME NEW k \in 0 .. n + 1
      PROVE  T[k] <= T[n + 1]
  <2>1. CASE k = n + 1
    BY <1>3, <2>1
  <2>2. CASE k # n + 1
    <3>1. k \in 0 .. n
      BY <2>2
    <3> QED
      BY <1>1, <1>2, <1>3, <3>1
  <2> QED
    BY <2>1, <2>2
<1>7. T[0] = 0
  BY <1>1, <1>2
<1>8. Sums(m, T, n + 1)
  BY <1>4, <1>5, <1>6, <1>7 DEF Sums
<1> QED
  BY <1>3, <1>8 DEF p

\* So many entries fit the pages they take.
LEMMA EntriesFit ==
  ASSUME NEW n \in Nat
  PROVE  PagesFor(n) \in Nat /\ n <= PagesFor(n) * EntriesPerPage
<1> USE Numbers
<1>1. n + EntriesPerPage - 1 \in Nat
  OBVIOUS
<1>2. ASSUME NEW q, q = (n + EntriesPerPage - 1) \div EntriesPerPage
      PROVE  q \in Nat /\ n <= q * EntriesPerPage
  <2>1. q \in Nat /\ n + EntriesPerPage - 1 < EntriesPerPage * (q + 1)
    BY <1>1, <1>2, Quotient
  <2>2. EntriesPerPage * (q + 1) = q * EntriesPerPage + EntriesPerPage /\ q * EntriesPerPage \in Nat
    BY <2>1
  <2> QED
    BY <2>1, <2>2
<1> QED
  BY <1>2 DEF PagesFor

\* The first state.
LEMMA InitRoom == Init => Room
<1> SUFFICES ASSUME Init PROVE Room
  OBVIOUS
<1> DEFINE S == [k \in 0 .. 0 |-> 0]
<1>1. Sums(map, S, 0) /\ S[0] = 0
  BY DEF Sums
<1>2. i - 1 = 0 /\ nPages = 0 /\ pc = "check"
  BY DEF Init
<1> QED
  BY <1>1, <1>2 DEF Room

\* Every step keeps to the room.
LEMMA RoomStep ==
  ASSUME Control, Room, [Next]_vars
  PROVE  Room'
<1>1. /\ map \in Maps /\ Len(map) \in Nat /\ DOMAIN map = 1 .. Len(map)
      /\ i \in 1 .. Len(map) + 1 /\ j \in Nat /\ fps \in Seq(AllPages) /\ Len(fps) \in Nat
  BY MemoryInitAssumption, LenProperties DEF Control
<1>2. \A k \in 1 .. Len(map) : Pages(map[k]) \in Nat
  BY <1>1, EntryNumbers DEF Pages
<1>3. ASSUME NEW present \in BOOLEAN, CheckMap(present)
      PROVE  Room'
  <2>1. pc = "check" /\ pc' \in {"check", "count"} /\ UNCHANGED <<map, i, nPages>>
    BY <1>3 DEF CheckMap
  <2> QED
    BY <2>1 DEF Room, Sums
<1>4. CASE CountEntry
  <2>1. /\ pc = "count" /\ pc' = pc /\ map' = map /\ i \in 1 .. Len(map)
        /\ \/ UNCHANGED <<i, nPages>>
           \/ i' = i + 1 /\ nPages' = nPages + Pages(map[i])
    BY <1>1, <1>4 DEF CountEntry, Pages
  <2>2. CASE UNCHANGED <<i, nPages>>
    BY <2>1, <2>2 DEF Room, Sums
  <2>3. CASE i' = i + 1 /\ nPages' = nPages + Pages(map[i])
    <3>1. PICK S : Sums(map, S, i - 1) /\ nPages = S[i - 1]
      BY <2>1 DEF Room
    <3>2. i - 1 \in Nat /\ (i - 1) + 1 = i /\ i' - 1 = i
      BY <2>1, <2>3
    <3>3. \E T : Sums(map, T, i) /\ T[i] = S[i - 1] + Pages(map[i])
      BY <1>2, <2>1, <3>1, <3>2, OneMoreEntry
    <3>4. PICK T : Sums(map, T, i) /\ T[i] = S[i - 1] + Pages(map[i])
      BY <3>3
    <3>5. Sums(map', T, i' - 1)
      BY <2>1, <3>2, <3>4
    <3> QED
      BY <2>1, <2>3, <3>1, <3>2, <3>4, <3>5 DEF Room
  <2> QED
    BY <2>1, <2>2, <2>3
<1>5. CASE MapStack
  <2>1. /\ pc = "count" /\ i = Len(map) + 1 /\ nPages' = PagesFor(nPages)
        /\ i' = 1 /\ j' = 0 /\ pc' = "fill" /\ map' = map /\ fps' = fps /\ fps = <<>>
    BY <1>1, <1>5 DEF MapStack, Control
  <2>2. PICK S : Sums(map, S, i - 1) /\ nPages = S[i - 1]
    BY <2>1 DEF Room
  <2>3. i - 1 = Len(map) /\ i' - 1 = 0 /\ Len(fps') = 0
    BY <1>1, <2>1
  <2>4. Sums(map, S, Len(map)) /\ nPages' = PagesFor(S[Len(map)]) /\ S[0] = 0
    BY <2>1, <2>2, <2>3 DEF Sums
  <2>5. Len(fps') <= S[0] + j'
    BY <2>1, <2>3, <2>4
  <2>6. 1 <= Len(map) => j' <= Pages(map[1])
    BY <1>1, <1>2, <2>1
  <2>7. Sums(map', S, Len(map'))
    BY <2>1, <2>4
  <2> QED
    BY <2>1, <2>3, <2>4, <2>5, <2>6, <2>7 DEF Room, PagesFor, Pages
<1>6. ASSUME pc = "fill", i \in 1 .. Len(map), pc' = "fill", map' = map, nPages' = nPages,
             \/ /\ i' = i /\ j' = j + 1 /\ j + 1 <= Pages(map[i])
                /\ Len(fps') \in Nat /\ Len(fps') <= Len(fps) + 1
             \/ i' = i + 1 /\ j' = 0 /\ fps' = fps
      PROVE  Room'
  <2>1. PICK S : /\ Sums(map, S, Len(map)) /\ nPages = PagesFor(S[Len(map)])
                 /\ Len(fps) <= S[i - 1] + j /\ j <= Pages(map[i])
    BY <1>1, <1>6 DEF Room
  <2>2. S[i - 1] \in Nat /\ S[i] \in Nat /\ S[i] = S[i - 1] + Pages(map[i])
    <3>1. i - 1 \in 0 .. Len(map) /\ i \in 0 .. Len(map)
      BY <1>1, <1>6
    <3> QED
      BY <1>6, <2>1, <3>1 DEF Sums
  <2>3. Sums(map', S, Len(map'))
    BY <1>6, <2>1
  <2>4. nPages' = PagesFor(S[Len(map')])
    BY <1>6, <2>1
  <2>5. Len(fps') <= S[i' - 1] + j' /\ (i' <= Len(map) => j' <= Pages(map[i']))
    <3>1. CASE i' = i
      BY <1>1, <1>2, <1>6, <2>1, <2>2, <3>1
    <3>2. CASE i' = i + 1 /\ j' = 0 /\ fps' = fps
      <4>1. i' - 1 = i /\ Len(fps') <= S[i]
        BY <1>1, <1>2, <1>6, <2>1, <2>2, <3>2
      <4>2. i' <= Len(map) => Pages(map[i']) \in Nat
        BY <1>1, <1>2, <3>2
      <4> QED
        BY <2>2, <3>2, <4>1, <4>2
    <3> QED
      BY <1>6, <3>1, <3>2
  <2> QED
    BY <1>6, <2>3, <2>4, <2>5 DEF Room, PagesFor, Pages
<1>7. CASE FillPage
  <2> DEFINE p == ((nAddr(map[i]) + j * UnitsPerPage) % Word) \div UnitsPerPage
  <2>1. /\ pc = "fill" /\ i \in 1 .. Len(map) /\ pc' = "fill" /\ map' = map /\ nPages' = nPages
        /\ i' = i /\ j' = j + 1 /\ j < Pages(map[i])
        /\ fps' = fps \/ fps' = Append(fps, p)
    BY <1>1, <1>7 DEF FillPage, Pages
  <2>2. p \in AllPages
    BY <1>1, <2>1, EntryNumbers
  <2> HIDE DEF p
  <2>3. Append(fps, p) \in Seq(AllPages) /\ Len(Append(fps, p)) = Len(fps) + 1
    BY <1>1, <2>2, AppendProperties
  <2>4. Len(fps') \in Nat /\ Len(fps') <= Len(fps) + 1
    BY <1>1, <2>1, <2>3
  <2>5. j + 1 <= Pages(map[i])
    BY <1>1, <1>2, <2>1
  <2> QED
    BY <1>6, <2>1, <2>4, <2>5
<1>8. CASE FillNextEntry
  <2>1. /\ pc = "fill" /\ i \in 1 .. Len(map) /\ pc' = "fill" /\ map' = map /\ nPages' = nPages
        /\ i' = i + 1 /\ j' = 0 /\ fps' = fps
    BY <1>1, <1>8 DEF FillNextEntry
  <2> QED
    BY <1>6, <2>1
<1>9. ASSUME pc \notin {"check", "count"}, pc' \notin {"check", "count"},
             UNCHANGED <<map, i, j, nPages, fps>>
      PROVE  Room'
  BY <1>9 DEF Room, Sums, PagesFor, Pages
<1>10. CASE FillDone \/ InitHeap \/ UnmapIdentity \/ TextModeVideo_PostMMInit
  <2>1. /\ pc \notin {"check", "count"} /\ pc' \notin {"check", "count"}
        /\ UNCHANGED <<map, i, j, nPages, fps>>
    BY <1>10 DEF FillDone, InitHeap, UnmapIdentity, TextModeVideo_PostMMInit, GetFree
  <2> QED
    BY <1>9, <2>1
<1>11. CASE UNCHANGED vars
  BY <1>11 DEF Room, vars, Sums, PagesFor, Pages
<1> QED
  BY <1>3, <1>4, <1>5, <1>7, <1>8, <1>10, <1>11 DEF Next

\* The pages mapped for the free page stack are enough, however many entries the
\* memory map has: MM_Init counts no less than it pushes.
THEOREM StackHasRoom == Spec => []StackFits
<1>1. Control /\ Room => StackFits
  <2> SUFFICES ASSUME Control, Room, pc \notin {"check", "count"}
               PROVE  Len(fps) <= nPages * EntriesPerPage
    BY DEF StackFits
  <2>1. PICK S : /\ Sums(map, S, Len(map)) /\ nPages = PagesFor(S[Len(map)])
                 /\ Len(fps) <= S[i - 1] + j /\ (i <= Len(map) => j <= Pages(map[i]))
    BY DEF Room
  <2>2. /\ Len(map) \in Nat /\ Len(fps) \in Nat /\ i \in 1 .. Len(map) + 1 /\ j \in Nat
        /\ DOMAIN map = 1 .. Len(map) /\ map \in Maps
    BY MemoryInitAssumption, LenProperties DEF Control
  <2>3. Len(fps) <= S[Len(map)] /\ S[Len(map)] \in Nat
    <3>1. \A k \in 0 .. Len(map) : S[k] \in Nat /\ S[k] <= S[Len(map)]
      BY <2>1 DEF Sums
    <3>2. i - 1 \in 0 .. Len(map) /\ Len(map) \in 0 .. Len(map)
      BY <2>2
    <3>3. CASE i <= Len(map)
      <4>1. i \in 1 .. Len(map) /\ i \in 0 .. Len(map) /\ Pages(map[i]) \in Nat
        BY <2>2, <3>3, EntryNumbers DEF Pages
      <4>2. S[i] = S[i - 1] + Pages(map[i])
        BY <2>1, <4>1 DEF Sums
      <4> QED
        BY <2>1, <2>2, <3>1, <3>2, <3>3, <4>1, <4>2
    <3>4. CASE i > Len(map)
      <4>1. j = 0
        BY <3>4 DEF Control, Filled, Step
      <4> QED
        BY <2>1, <2>2, <3>1, <3>2, <4>1
    <3> QED
      BY <2>2, <3>3, <3>4
  <2>4. S[Len(map)] <= nPages * EntriesPerPage /\ nPages \in Nat
    BY <2>1, <2>3, EntriesFit
  <2>5. nPages * EntriesPerPage \in Nat
    BY <2>4, Numbers
  <2> QED
    BY <2>2, <2>3, <2>4, <2>5
<1>2. Control /\ Room /\ [Next]_vars => Room'
  BY RoomStep
<1> QED
  BY <1>1, <1>2, InitRoom, Course, PTL DEF Spec

----------------------------------------------------------------------------
(* What is on the stack.                                                   *)

\* Page q is in one of the entries before n, or among the first c pages of n.
SeenUpTo(m, n, c, q) ==
  \E k \in DOMAIN m :
    /\ IsRAM(m[k])
    /\ \/ k < n /\ Within(q, FirstPage(m[k]), nLen(m[k]))
       \/ k = n /\ Within(q, FirstPage(m[k]), c)

Holds(stack, q) == \E x \in DOMAIN stack : stack[x] = q

Distinct(stack) == \A x, y \in DOMAIN stack : stack[x] = stack[y] => x = y

AllUsable(m) == \A k \in DOMAIN m : IsRAM(m[k]) => Usable(m[k])

\* The entries that were counted are on a page boundary; the stack has the pages
\* seen so far but those that are excluded, each of them once.
Contents ==
  /\ pc = "count" => \A k \in 1 .. i - 1 : IsRAM(map[k]) => Usable(map[k])
  /\ pc \notin {"check", "count"} =>
       /\ AllUsable(map) /\ Distinct(fps)
       /\ \A q \in AllPages : Holds(fps, q) <=> SeenUpTo(map, i, j, q) /\ ~Excluded(q, nPages)

\* No page is in two entries.
LEMMA OwnPages ==
  ASSUME NEW m \in Maps, NEW k \in DOMAIN m, NEW l \in DOMAIN m, k # l,
         Usable(m[k]), Usable(m[l]), NEW q \in Nat,
         Within(q, FirstPage(m[k]), nLen(m[k])), Within(q, FirstPage(m[l]), nLen(m[l]))
  PROVE  FALSE
<1> USE Numbers
<1>1. /\ m[k].base <= q * UnitsPerPage /\ (q + 1) * UnitsPerPage <= m[k].base + m[k].len
      /\ m[l].base <= q * UnitsPerPage /\ (q + 1) * UnitsPerPage <= m[l].base + m[l].len
  BY UsablePages
<1>2. \/ m[k].base + m[k].len <= m[l].base
      \/ m[l].base + m[l].len <= m[k].base
  BY MapsAssumption
<1>3. (q + 1) * UnitsPerPage = q * UnitsPerPage + UnitsPerPage /\ q * UnitsPerPage \in Nat
  OBVIOUS
<1>4. /\ m[k].base \in Int /\ m[k].len \in Int /\ m[l].base \in Int /\ m[l].len \in Int
  BY EntryFields
<1> QED
  BY <1>1, <1>2, <1>3, <1>4

\* The next page of an entry was not seen before.
LEMMA NotSeen ==
  ASSUME NEW m \in Maps, AllUsable(m), NEW n \in DOMAIN m, IsRAM(m[n]),
         NEW c \in Nat, c < nLen(m[n])
  PROVE  ~SeenUpTo(m, n, c, FirstPage(m[n]) + c)
<1> DEFINE q == FirstPage(m[n]) + c
<1>1. FirstPage(m[n]) \in Nat /\ nLen(m[n]) \in Nat /\ Usable(m[n])
  BY UsablePages DEF AllUsable
<1>2. q \in Nat /\ Within(q, FirstPage(m[n]), nLen(m[n])) /\ ~Within(q, FirstPage(m[n]), c)
  BY <1>1 DEF Within
<1> HIDE DEF q
<1>3. ASSUME NEW k \in DOMAIN m, IsRAM(m[k]), k < n, Within(q, FirstPage(m[k]), nLen(m[k]))
      PROVE  FALSE
  <2>1. k # n
    BY <1>3, EntryFields
  <2> QED
    BY <1>1, <1>2, <1>3, <2>1, OwnPages DEF AllUsable
<1> QED
  BY <1>2, <1>3 DEF SeenUpTo, q

\* One page more of an entry.
LEMMA SeenOneMore ==
  ASSUME NEW m \in Maps, NEW n \in DOMAIN m, Usable(m[n]), NEW c \in Nat, NEW q \in Nat
  PROVE  SeenUpTo(m, n, c + 1, q) <=> SeenUpTo(m, n, c, q) \/ q = FirstPage(m[n]) + c
<1>1. FirstPage(m[n]) \in Nat /\ IsRAM(m[n])
  BY UsablePages DEF Usable
<1>2. Within(q, FirstPage(m[n]), c + 1)
        <=> Within(q, FirstPage(m[n]), c) \/ q = FirstPage(m[n]) + c
  BY <1>1 DEF Within
<1> QED
  BY <1>1, <1>2 DEF SeenUpTo

\* On to the next entry.
LEMMA SeenNext ==
  ASSUME NEW m \in Maps, AllUsable(m), NEW n \in DOMAIN m, NEW c \in Nat,
         IsRAM(m[n]) => c = nLen(m[n]), NEW q \in Nat
  PROVE  SeenUpTo(m, n + 1, 0, q) <=> SeenUpTo(m, n, c, q)
<1>1. ASSUME NEW k \in DOMAIN m, IsRAM(m[k])
      PROVE  /\ ~Within(q, FirstPage(m[k]), 0)
             /\ k < n + 1 <=> k < n \/ k = n
  <2>1. FirstPage(m[k]) \in Nat
    BY <1>1, UsablePages DEF AllUsable
  <2>2. k \in Int /\ n \in Int
    BY EntryFields
  <2> QED
    BY <2>1, <2>2 DEF Within
<1> QED
  BY <1>1 DEF SeenUpTo

\* A new page pushed.
LEMMA PushPage ==
  ASSUME NEW s \in Seq(AllPages), Distinct(s), NEW p \in AllPages, ~Holds(s, p)
  PROVE  /\ Distinct(Append(s, p))
         /\ \A q : Holds(Append(s, p), q) <=> Holds(s, q) \/ q = p
<1> DEFINE t == Append(s, p)
           n == Len(s)
<1>1. n \in Nat /\ DOMAIN s = 1 .. n
  BY LenProperties
<1>2. /\ DOMAIN t = 1 .. n + 1 /\ t[n + 1] = p
      /\ \A x \in 1 .. n : t[x] = s[x]
  BY <1>1, AppendProperties
<1> HIDE DEF t, n
<1>3. 1 .. n + 1 = (1 .. n) \cup {n + 1} /\ n + 1 \notin 1 .. n
  BY <1>1
<1>4. \A q : Holds(t, q) <=> Holds(s, q) \/ q = p
  BY <1>1, <1>2, <1>3 DEF Holds
<1>5. Distinct(t)
  <2>1. \A x \in 1 .. n : t[x] # p
    BY <1>1, <1>2 DEF Holds
  <2> QED
    BY <1>1, <1>2, <1>3, <2>1 DEF Distinct
<1> QED
  BY <1>4, <1>5 DEF t

\* Every step keeps to the contents.
LEMMA ContentsStep ==
  ASSUME Control, Contents, [Next]_vars
  PROVE  Contents'
<1>1. /\ map \in Maps /\ Len(map) \in Nat /\ DOMAIN map = 1 .. Len(map)
      /\ i \in 1 .. Len(map) + 1 /\ j \in Nat /\ fps \in Seq(AllPages)
  BY MemoryInitAssumption, LenProperties DEF Control
<1>2. \A q \in AllPages : q \in Nat
  BY Numbers DEF AllPages
<1>3. ASSUME NEW present \in BOOLEAN, CheckMap(present)
      PROVE  Contents'
  <2>1. pc = "check" /\ i = 1 /\ pc' \in {"check", "count"} /\ i' = i
    BY <1>3 DEF CheckMap, Control
  <2> QED
    BY <2>1 DEF Contents
<1>4. CASE CountEntry
  <2>1. /\ pc = "count" /\ pc' = pc /\ map' = map
        /\ \/ i' = i
           \/ i' = i + 1 /\ (IsRAM(map[i]) => Usable(map[i]))
    BY <1>4 DEF CountEntry, Usable
  <2>2. \A k \in 1 .. i - 1 : IsRAM(map[k]) => Usable(map[k])
    BY <2>1 DEF Contents
  <2>3. \A k \in 1 .. i' - 1 : IsRAM(map[k]) => Usable(map[k])
    <3>1. CASE i' = i
      BY <2>2, <3>1
    <3>2. CASE i' = i + 1 /\ (IsRAM(map[i]) => Usable(map[i]))
      <4>1. \A k \in 1 .. i' - 1 : k \in 1 .. i - 1 \/ k = i
        BY <1>1, <3>2
      <4> QED
        BY <2>2, <3>2, <4>1
    <3> QED
      BY <2>1, <3>1, <3>2
  <2> QED
    BY <2>1, <2>3 DEF Contents
<1>5. CASE MapStack
  <2>1. /\ pc = "count" /\ i = Len(map) + 1 /\ i' = 1 /\ j' = 0 /\ pc' = "fill" /\ map' = map
        /\ fps' = <<>>
    BY <1>1, <1>5 DEF MapStack, Control
  <2>2. AllUsable(map)
    <3>1. i - 1 = Len(map)
      BY <1>1, <2>1
    <3> QED
      BY <1>1, <2>1, <3>1 DEF Contents, AllUsable
  <2>3. Distinct(fps') /\ \A q : ~Holds(fps', q)
    BY <2>1 DEF Distinct, Holds
  <2>4. ASSUME NEW q \in AllPages PROVE ~SeenUpTo(map, 1, 0, q)
    <3>1. ASSUME NEW k \in DOMAIN map, IsRAM(map[k])
          PROVE  ~(k < 1) /\ ~Within(q, FirstPage(map[k]), 0)
      <4>1. FirstPage(map[k]) \in Nat /\ q \in Nat
        BY <1>1, <1>2, <2>2, <3>1, UsablePages DEF AllUsable
      <4> QED
        BY <1>1, <4>1 DEF Within
    <3> QED
      BY <3>1 DEF SeenUpTo
  <2> QED
    BY <2>1, <2>2, <2>3, <2>4 DEF Contents
<1>6. CASE FillPage
  <2> DEFINE p == ((nAddr(map[i]) + j * UnitsPerPage) % Word) \div UnitsPerPage
             b == FirstPage(map[i])
  <2>1. /\ pc = "fill" /\ pc' = "fill" /\ i \in DOMAIN map /\ IsRAM(map[i]) /\ j < nLen(map[i])
        /\ IF Excluded(p, nPages) THEN fps' = fps ELSE fps' = Append(fps, p)
        /\ j' = j + 1 /\ UNCHANGED <<map, i, nPages>>
    BY <1>1, <1>6 DEF FillPage
  <2>2. /\ AllUsable(map) /\ Distinct(fps) /\ Usable(map[i])
        /\ \A q \in AllPages : Holds(fps, q) <=> SeenUpTo(map, i, j, q) /\ ~Excluded(q, nPages)
    BY <2>1 DEF Contents, AllUsable
  <2>3. p = b + j
    BY <1>1, <2>1, <2>2, UsablePages
  <2>4. p \in AllPages
    BY <1>1, <2>1, EntryNumbers
  <2> HIDE DEF p, b
  <2>5. ~SeenUpTo(map, i, j, p)
    BY <1>1, <2>1, <2>2, <2>3, NotSeen DEF b
  <2>6. ASSUME NEW q \in AllPages
        PROVE  SeenUpTo(map, i, j + 1, q) <=> SeenUpTo(map, i, j, q) \/ q = p
    BY <1>1, <1>2, <2>1, <2>2, <2>3, SeenOneMore DEF b
  <2>7. CASE Excluded(p, nPages)
    <3>1. fps' = fps
      BY <2>1, <2>7
    <3> QED
      BY <2>1, <2>2, <2>6, <2>7, <3>1 DEF Contents
  <2>8. CASE ~Excluded(p, nPages)
    <3>1. fps' = Append(fps, p)
      BY <2>1, <2>8
    <3>2. /\ Distinct(Append(fps, p))
          /\ \A q : Holds(Append(fps, p), q) <=> Holds(fps, q) \/ q = p
      BY <1>1, <2>2, <2>4, <2>5, PushPage
    <3> QED
      BY <2>1, <2>2, <2>4, <2>6, <2>8, <3>1, <3>2 DEF Contents
  <2> QED
    BY <2>7, <2>8
<1>7. CASE FillNextEntry
  <2>1. /\ pc = "fill" /\ pc' = "fill" /\ i \in DOMAIN map /\ (IsRAM(map[i]) => j = nLen(map[i]))
        /\ i' = i + 1 /\ j' = 0 /\ UNCHANGED <<map, fps, nPages>>
    BY <1>1, <1>7 DEF FillNextEntry
  <2>2. AllUsable(map)
    BY <2>1 DEF Contents
  <2>3. \A q \in AllPages : SeenUpTo(map, i + 1, 0, q) <=> SeenUpTo(map, i, j, q)
    BY <1>1, <1>2, <2>1, <2>2, SeenNext
  <2> QED
    BY <2>1, <2>3 DEF Contents
<1>8. CASE FillDone \/ InitHeap \/ UnmapIdentity \/ TextModeVideo_PostMMInit
  <2>1. /\ pc \notin {"check", "count"} /\ pc' \notin {"check", "count"}
        /\ UNCHANGED <<map, i, j, nPages, fps>>
    BY <1>8 DEF FillDone, InitHeap, UnmapIdentity, TextModeVideo_PostMMInit, GetFree
  <2> QED
    BY <2>1 DEF Contents
<1>9. CASE UNCHANGED vars
  BY <1>9 DEF Contents, vars
<1> QED
  BY <1>3, <1>4, <1>5, <1>6, <1>7, <1>8, <1>9 DEF Next

\* Between the steps the stack holds what was seen.
LEMMA ContentsHold == Spec => [](Control /\ Contents)
<1>1. Init => Contents
  BY DEF Init, Contents
<1>2. Control /\ Contents /\ [Next]_vars => Contents'
  BY ContentsStep
<1> QED
  BY <1>1, <1>2, Course, PTL DEF Spec

\* A page that the code excludes is one in use.
LEMMA ExcludedInUse ==
  ASSUME NEW q \in AllPages, nPages \in Nat
  PROVE  q \in InUse <=> Excluded(q, nPages)
<1>1. q \in Nat
  BY Numbers DEF AllPages
<1>2. q \in {PageDirectory, CorePageTable} \/ Within(q, Stack, StackPages)
        <=> Within(q, PageDirectory, 2 + StackPages)
  BY <1>1, Numbers DEF Within
<1> QED
  BY <1>2 DEF InUse, Excluded

\* Behind the last entry, what was seen is all memory.
LEMMA AllSeen ==
  ASSUME map \in Maps, AllUsable(map), NEW n, n = Len(map) + 1, NEW c, NEW q \in AllPages
  PROVE  q \in RAM <=> SeenUpTo(map, n, c, q)
<1>1. q \in Nat
  BY Numbers DEF AllPages
<1>2. ASSUME NEW k \in DOMAIN map, IsRAM(map[k])
      PROVE  /\ k < n /\ k # n
             /\ Within(q, FirstPage(map[k]), nLen(map[k]))
                  <=> /\ map[k].baseHigh = 0 /\ map[k].base <= q * UnitsPerPage
                      /\ (q + 1) * UnitsPerPage
                           <= map[k].base + map[k].len + map[k].lenHigh * Word
  <2>1. k < n /\ k # n
    BY EntryFields
  <2>2. Usable(map[k])
    BY <1>2 DEF AllUsable
  <2>3. map[k].baseHigh = 0 /\ map[k].lenHigh = 0
    BY <2>2, UsableEntry
  <2>4. map[k].base + map[k].len + map[k].lenHigh * Word = map[k].base + map[k].len
    <3>1. map[k].base \in Int /\ map[k].len \in Int /\ Word \in Int
      BY EntryFields, Numbers
    <3> QED
      BY <2>3, <3>1
  <2>5. /\ map[k].base <= q * UnitsPerPage
        /\ (q + 1) * UnitsPerPage <= map[k].base + map[k].len
        <=> Within(q, FirstPage(map[k]), nLen(map[k]))
    BY <1>1, <2>2, UsablePages
  <2> QED
    BY <2>1, <2>3, <2>4, <2>5
<1> QED
  BY <1>2 DEF RAM, SeenUpTo

\* The free page stack and what was taken from it are all the memory that is not
\* in use, no frame twice and none lost: the loops of MM_Init over any memory map
\* whose entries do not overlap.
THEOREM FreeMemoryOnStack == Spec => []StackIsFreeRAM
<1>1. Control /\ Contents => StackIsFreeRAM
  <2> SUFFICES ASSUME Control, Contents, Filled
               PROVE  /\ \A k, l \in DOMAIN fps : fps[k] = fps[l] => k = l
                      /\ OnStack \cap handed = {}
                      /\ OnStack \cup handed = RAM \ InUse
    BY DEF StackIsFreeRAM
  <2>1. /\ AllUsable(map) /\ Distinct(fps)
        /\ \A q \in AllPages : Holds(fps, q) <=> SeenUpTo(map, i, j, q) /\ ~Excluded(q, nPages)
    BY DEF Contents, Filled
  <2>2. /\ map \in Maps /\ i = Len(map) + 1 /\ idx \in -1 .. Len(fps) - 1 /\ nPages \in Nat
        /\ handed = {fps[k] : k \in idx + 2 .. Len(fps)} /\ fps \in Seq(AllPages)
    BY DEF Control
  <2>3. /\ Len(fps) \in Nat /\ DOMAIN fps = 1 .. Len(fps)
        /\ \A x \in 1 .. Len(fps) : fps[x] \in AllPages
    BY <2>2, LenProperties, ElementOfSeq
  <2>4. OnStack = {fps[x] : x \in 1 .. idx + 1}
    <3>1. ASSUME NEW k \in 0 .. idx
          PROVE  k + 1 \in 1 .. idx + 1
      BY <2>2, <2>3
    <3>2. ASSUME NEW x \in 1 .. idx + 1
          PROVE  x - 1 \in 0 .. idx /\ (x - 1) + 1 = x
      BY <2>2, <2>3
    <3> QED
      BY <3>1, <3>2 DEF OnStack
  <2>5. /\ \A x \in 1 .. idx + 1 : x \in DOMAIN fps /\ x \notin idx + 2 .. Len(fps)
        /\ \A x \in idx + 2 .. Len(fps) : x \in DOMAIN fps
        /\ \A x \in DOMAIN fps : x \in 1 .. idx + 1 \/ x \in idx + 2 .. Len(fps)
    BY <2>2, <2>3
  <2>6. OnStack \cap handed = {}
    BY <2>1, <2>2, <2>4, <2>5 DEF Distinct
  <2>7. OnStack \cup handed = {q \in AllPages : Holds(fps, q)}
    BY <2>2, <2>3, <2>4, <2>5 DEF Holds
  <2>8. \A q \in AllPages : Holds(fps, q) <=> q \in RAM /\ q \notin InUse
    BY <2>1, <2>2, AllSeen, ExcludedInUse
  <2>9. RAM \subseteq AllPages
    BY DEF RAM
  <2> QED
    BY <2>1, <2>6, <2>7, <2>8, <2>9 DEF Distinct
<1> QED
  BY <1>1, ContentsHold, PTL

----------------------------------------------------------------------------
(* The table of the identity mapping.                                      *)

\* The entry goes on for two pages after the table.
Reaches(e) ==
  /\ Usable(e) /\ FirstPage(e) <= ZeroPageTable
  /\ ZeroPageTable + 3 <= FirstPage(e) + nLen(e)

\* Two frames are on top of the table's on the stack, or as many as the loop went
\* on from it.
TableDeep ==
  pc \notin {"check", "count"} =>
    \A x \in DOMAIN fps : fps[x] = ZeroPageTable =>
      \/ x + 2 <= Len(fps)
      \/ /\ i \in DOMAIN map /\ Reaches(map[i])
         /\ ZeroPageTable < FirstPage(map[i]) + j
         /\ x + (FirstPage(map[i]) + j - (ZeroPageTable + 1)) <= Len(fps)

\* The entry the table is in is the one that reaches.
LEMMA TableEntry ==
  ASSUME NEW m \in Maps, NEW n \in DOMAIN m, Usable(m[n]),
         Within(ZeroPageTable, FirstPage(m[n]), nLen(m[n]))
  PROVE  Reaches(m[n])
<1> USE Numbers
<1>1. PICK k \in DOMAIN m : /\ Usable(m[k]) /\ m[k].base <= ZeroPageTable * UnitsPerPage
                            /\ (ZeroPageTable + 3) * UnitsPerPage <= m[k].base + m[k].len
  BY ReachAssumption
<1>2. FirstPage(m[k]) \in Nat /\ nLen(m[k]) \in Nat
  BY <1>1, UsablePages
<1>3. m[k].base \in Int /\ m[k].len \in Int
  BY EntryFields
<1>4. /\ ZeroPageTable * UnitsPerPage \in Nat
      /\ (ZeroPageTable + 1) * UnitsPerPage = ZeroPageTable * UnitsPerPage + UnitsPerPage
      /\ (ZeroPageTable + 2) * UnitsPerPage = ZeroPageTable * UnitsPerPage + 2 * UnitsPerPage
      /\ (ZeroPageTable + 3) * UnitsPerPage = ZeroPageTable * UnitsPerPage + 3 * UnitsPerPage
  OBVIOUS
<1>5. Within(ZeroPageTable, FirstPage(m[k]), nLen(m[k]))
  <2>1. (ZeroPageTable + 1) * UnitsPerPage <= m[k].base + m[k].len
    BY <1>1, <1>3, <1>4
  <2> QED
    BY <1>1, <2>1, UsablePages
<1>6. Within(ZeroPageTable + 2, FirstPage(m[k]), nLen(m[k]))
  <2>1. /\ m[k].base <= (ZeroPageTable + 2) * UnitsPerPage
        /\ ((ZeroPageTable + 2) + 1) * UnitsPerPage <= m[k].base + m[k].len
    BY <1>1, <1>3, <1>4
  <2>2. ZeroPageTable + 2 \in Nat
    OBVIOUS
  <2> QED
    BY <1>1, <2>1, <2>2, UsablePages
<1>7. Reaches(m[k])
  BY <1>1, <1>2, <1>5, <1>6 DEF Reaches, Within
<1>8. k = n
  BY <1>1, <1>5, OwnPages
<1> QED
  BY <1>7, <1>8

\* Every step keeps the table deep.
LEMMA TableStep ==
  ASSUME Control, Contents, TableDeep, [Next]_vars
  PROVE  TableDeep'
<1> DEFINE Z == ZeroPageTable
<1>1. /\ map \in Maps /\ Len(map) \in Nat /\ DOMAIN map = 1 .. Len(map)
      /\ i \in 1 .. Len(map) + 1 /\ j \in Nat /\ fps \in Seq(AllPages)
      /\ Len(fps) \in Nat /\ DOMAIN fps = 1 .. Len(fps) /\ Z \in Nat
  BY MemoryInitAssumption, LenProperties, Numbers DEF Control
<1>2. CASE pc' \in {"check", "count"}
  BY <1>2 DEF TableDeep
<1>3. CASE MapStack
  <2>1. fps' = <<>>
    BY <1>3 DEF MapStack, Control
  <2> QED
    BY <2>1 DEF TableDeep
<1>4. CASE FillPage
  <2> DEFINE p == ((nAddr(map[i]) + j * UnitsPerPage) % Word) \div UnitsPerPage
             b == FirstPage(map[i])
             n == Len(fps)
  <2>1. /\ pc = "fill" /\ i \in DOMAIN map /\ IsRAM(map[i]) /\ j < nLen(map[i])
        /\ IF Excluded(p, nPages) THEN fps' = fps ELSE fps' = Append(fps, p)
        /\ j' = j + 1 /\ UNCHANGED <<map, i, nPages>>
    BY <1>1, <1>4 DEF FillPage
  <2>2. Usable(map[i])
    BY <2>1 DEF Contents, AllUsable
  <2>3. p = b + j /\ b \in Nat /\ nLen(map[i]) \in Nat
    BY <1>1, <2>1, <2>2, UsablePages
  <2>4. p \in AllPages
    BY <1>1, <2>1, EntryNumbers
  <2> HIDE DEF p, b
  <2>5. p \in {Z + 1, Z + 2} => ~Excluded(p, nPages)
    BY <2>3, Numbers DEF Excluded, Within
  <2>6. /\ Append(fps, p) \in Seq(AllPages) /\ Len(Append(fps, p)) = n + 1
        /\ DOMAIN Append(fps, p) = 1 .. n + 1 /\ Append(fps, p)[n + 1] = p
        /\ \A x \in 1 .. n : Append(fps, p)[x] = fps[x]
    BY <1>1, <2>4, AppendProperties
  <2>7. ASSUME NEW x \in DOMAIN fps', fps'[x] = Z
        PROVE  \/ x + 2 <= Len(fps')
               \/ Reaches(map[i]) /\ Z < b + (j + 1) /\ x + (b + (j + 1) - (Z + 1)) <= Len(fps')
    <3>1. CASE x \in DOMAIN fps
      <4>1. fps[x] = Z /\ Len(fps') \in {n, n + 1} /\ (~Excluded(p, nPages) => Len(fps') = n + 1)
        BY <1>1, <2>1, <2>6, <2>7, <3>1
      <4>2. CASE x + 2 <= n
        BY <1>1, <4>1, <4>2
      <4>3. CASE Reaches(map[i]) /\ Z < b + j /\ x + (b + j - (Z + 1)) <= n
        <5>1. CASE p \in {Z + 1, Z + 2}
          <6>1. Len(fps') = n + 1
            BY <2>5, <4>1, <5>1
          <6> QED
            BY <1>1, <2>3, <4>3, <6>1
        <5>2. CASE p \notin {Z + 1, Z + 2}
          <6>1. Z + 3 <= b + j
            BY <1>1, <2>3, <4>3, <5>2
          <6>2. x + 2 <= n
            BY <1>1, <2>3, <4>3, <6>1
          <6> QED
            BY <1>1, <4>1, <6>2
        <5> QED
          BY <5>1, <5>2
      <4> QED
        BY <2>1, <4>1, <4>2, <4>3, <3>1 DEF TableDeep, b
    <3>2. CASE x \notin DOMAIN fps
      <4>1. fps' = Append(fps, p)
        BY <2>1, <2>7, <3>2
      <4>2. x = n + 1 /\ p = Z /\ Len(fps') = n + 1
        BY <1>1, <2>6, <2>7, <3>2, <4>1
      <4>3. Within(Z, b, nLen(map[i]))
        BY <1>1, <2>1, <2>3, <4>2 DEF Within
      <4>4. Reaches(map[i])
        BY <1>1, <2>1, <2>2, <4>3, TableEntry DEF b
      <4> QED
        BY <1>1, <2>3, <4>2, <4>4
    <3> QED
      BY <3>1, <3>2
  <2> QED
    BY <2>1, <2>7 DEF TableDeep, b
<1>5. CASE FillNextEntry
  <2>1. /\ pc = "fill" /\ i \in DOMAIN map /\ (IsRAM(map[i]) => j = nLen(map[i]))
        /\ UNCHANGED fps
    BY <1>1, <1>5 DEF FillNextEntry
  <2>2. ASSUME NEW x \in DOMAIN fps, fps[x] = Z
        PROVE  x + 2 <= Len(fps)
    <3>1. CASE /\ Reaches(map[i])
               /\ x + (FirstPage(map[i]) + j - (Z + 1)) <= Len(fps)
      <4>1. j = nLen(map[i]) /\ FirstPage(map[i]) \in Nat
        BY <1>1, <2>1, <3>1, UsablePages DEF Reaches, Usable
      <4>2. Z + 3 <= FirstPage(map[i]) + j
        BY <3>1, <4>1 DEF Reaches
      <4> QED
        BY <1>1, <3>1, <4>1, <4>2
    <3> QED
      BY <2>1, <2>2, <3>1 DEF TableDeep
  <2> QED
    BY <2>1, <2>2 DEF TableDeep
<1>6. CASE FillDone \/ InitHeap \/ UnmapIdentity \/ TextModeVideo_PostMMInit
  <2>1. pc \notin {"check", "count"} /\ UNCHANGED <<map, i, j, fps>>
    BY <1>6 DEF FillDone, InitHeap, UnmapIdentity, TextModeVideo_PostMMInit
  <2> QED
    BY <2>1 DEF TableDeep, Reaches, Usable, IsRAM, OnBoundary, nAddr, nLen, FirstPage
<1>7. CASE UNCHANGED vars
  BY <1>7 DEF TableDeep, vars, Reaches, Usable, IsRAM, OnBoundary, nAddr, nLen, FirstPage
<1>8. CASE (\E present \in BOOLEAN : CheckMap(present)) \/ CountEntry
  <2>1. pc' \in {"check", "count"}
    BY <1>8 DEF CheckMap, CountEntry
  <2> QED
    BY <1>2, <2>1
<1> QED
  BY <1>3, <1>4, <1>5, <1>6, <1>7, <1>8 DEF Next

\* While the page directory still uses the table of the identity mapping, its frame
\* is not taken, though it is on the stack: the two frames the heap takes lie over it.
THEOREM TableNotTaken == Spec => []IdentityTableKept
<1>1. Init => TableDeep
  BY DEF Init, TableDeep
<1>2. Control /\ Contents /\ TableDeep /\ [Next]_vars => TableDeep'
  BY TableStep
<1>3. Control /\ TableDeep => IdentityTableKept
  <2> SUFFICES ASSUME Control, TableDeep, identity, ZeroPageTable \in handed
               PROVE  FALSE
    BY DEF IdentityTableKept
  <2>1. Filled /\ pc \in {"heap", "unmap"}
    BY DEF Control, Filled, Step
  <2>2. /\ handed = {fps[k] : k \in idx + 2 .. Len(fps)} /\ i = Len(map) + 1
        /\ idx >= Len(fps) - 3 /\ Len(fps) \in Nat /\ Len(map) \in Nat
        /\ idx \in -1 .. Len(fps) - 1
        /\ DOMAIN map = 1 .. Len(map) /\ DOMAIN fps = 1 .. Len(fps)
    BY <2>1, MemoryInitAssumption, LenProperties DEF Control
  <2>3. PICK x \in idx + 2 .. Len(fps) : fps[x] = ZeroPageTable
    BY <2>2
  <2>4. x \in DOMAIN fps /\ ~(x + 2 <= Len(fps)) /\ i \notin DOMAIN map
    BY <2>2, <2>3
  <2> QED
    BY <2>1, <2>3, <2>4 DEF TableDeep
<1> QED
  BY <1>1, <1>2, <1>3, ContentsHold, PTL DEF Spec
=============================================================================
