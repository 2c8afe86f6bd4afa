---------------------------- MODULE MCMemoryInit ----------------------------
(* MemoryInit on a machine of 48 pages of 16 units: the kernel at page 6,  *)
(* the page directory at page 10, the identity table at page 14 and the    *)
(* free page stack at page 17, with two free pages before it.              *)
EXTENDS MemoryInit

Region(base, len, type) ==
  [base |-> base, baseHigh |-> 0, len |-> len, lenHigh |-> 0, type |-> type]

\* Three and a half pages below a hole, and memory from page 6 on.
Low  == Region(0, 56, 1)
Hole == Region(56, 40, 2)
High(n) == Region(96, n, 1)

\* From a memory that ends with the free page stack to one that needs three
\* pages for it, with and without part of a page at the end.
Plain == {<<Low, Hole, High(12 * 16 + n * 24)>> : n \in 0 .. 16}

\* More memory behind a hole, an empty region, memory that is not on a page
\* boundary, and memory at 4 GB.
Others ==
  {<<Low, Hole, High(14 * 16), Region(22 * 16, 32, 1)>>,
   <<Low, Hole, High(15 * 16), Region(23 * 16, 0, 1)>>,
   <<Low, Region(60, 32, 1), High(16 * 16)>>,
   <<Low, Hole, High(16 * 16), [Region(0, 64, 1) EXCEPT !.baseHigh = 1]>>}

MC_Maps == Plain \cup Others
=============================================================================
