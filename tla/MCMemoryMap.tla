---------------------------- MODULE MCMemoryMap ----------------------------
(* Instances of MemoryMap for TLC. *)
EXTENDS MemoryMap

CONSTANTS t1, t2

\* One global of two words, behind the heap.
MCGlobals == 8 :> 2

Symmetry == Permutations(Threads)
=============================================================================
