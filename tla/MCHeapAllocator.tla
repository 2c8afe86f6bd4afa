-------------------------- MODULE MCHeapAllocator --------------------------
(* HeapAllocator with blocks of three and four words.                      *)
EXTENDS HeapAllocator

MC_Requests == {1, 5}
MC_Extras   == {1}
============================================================================
