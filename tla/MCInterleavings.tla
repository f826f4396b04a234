--------------------------- MODULE MCInterleavings ---------------------------
(***************************************************************************)
(* Three threads; x and y share a slot of the table, m has its own.         *)
(***************************************************************************)
EXTENDS Interleavings, TLC

CONSTANTS t1, t2, t3, x, y, m

MCSlot == (x :> x) @@ (y :> x) @@ (m :> m)
MCAccesses == {[op |-> "READ", addr |-> x, ipc |-> 1],
               [op |-> "WRITE", addr |-> x, ipc |-> 2],
               [op |-> "WRITE", addr |-> y, ipc |-> 3]}
MCOthers == {[op |-> "pthread_mutex_lock", addr |-> m, ipc |-> 4]}
Symmetry == Permutations(Threads)
=============================================================================
