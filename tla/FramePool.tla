----------------------------- MODULE FramePool -----------------------------
(***************************************************************************)
(* What the page manager of src/mm_page.c promises about the frames that   *)
(* MM_Init put on the free page stack: a frame goes to a page or becomes a *)
(* page table only when it is free; a page table is one for ever; and the  *)
(* frame of a page is its own until it is given back, or lost because the  *)
(* page was unmapped or mapped to something else.                          *)
(***************************************************************************)
CONSTANT Pool   \* the frames

VARIABLES
  free,     \* frames nobody has
  tables,   \* frames that are page tables
  pages,    \* frames that are mapped
  lost      \* frames nobody can name any more

pool == <<free, tables, pages, lost>>

\* MM_GetPTAddress makes a page table.
TakeTable(f) ==
  /\ f \in free
  /\ free' = free \ {f} /\ tables' = tables \cup {f} /\ UNCHANGED <<pages, lost>>

\* MM_Page_Allocate maps a page.
TakePage(f) ==
  /\ f \in free
  /\ free' = free \ {f} /\ pages' = pages \cup {f} /\ UNCHANGED <<tables, lost>>

\* A fault in a page without a table takes both.
TakeBoth(f, g) ==
  /\ f \in free /\ g \in free \ {f}
  /\ free' = free \ {f, g} /\ tables' = tables \cup {f} /\ pages' = pages \cup {g}
  /\ UNCHANGED lost

\* MM_Page_Free gives a page's frame back.
Give(f) ==
  /\ f \in pages
  /\ free' = free \cup {f} /\ pages' = pages \ {f} /\ UNCHANGED <<tables, lost>>

\* MM_Page_Map, MM_Page_MapZeroFill and MM_Page_Unmap overwrite its entry.
Lose(f) ==
  /\ f \in pages
  /\ pages' = pages \ {f} /\ lost' = lost \cup {f} /\ UNCHANGED <<free, tables>>

Init == free = Pool /\ tables = {} /\ pages = {} /\ lost = {}

Next ==
  \/ \E f \in free : TakeTable(f) \/ TakePage(f)
  \/ \E f, g \in free : TakeBoth(f, g)
  \/ \E f \in pages : Give(f) \/ Lose(f)

Spec == Init /\ [][Next]_pool
=============================================================================
