--------------------------- MODULE MCPageManager ---------------------------
(* PageManager on two page tables of two entries, the second one all heap. *)
EXTENDS PageManager

MC_Heap  == {3}
MC_Perms == {{"rw"}}
============================================================================
