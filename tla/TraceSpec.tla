------------------------------ MODULE TraceSpec ------------------------------
(***************************************************************************)
(* What racedet.trace promises its reader: one row after the other with     *)
(* increasing timestamps, the mutex rows of each thread in the order        *)
(* request, get, unlock, no mutex held by two threads at once, and every    *)
(* access to a guarded variable between the get and the unlock of its       *)
(* guards.  The recorder (Recorder) is shown to implement this module.      *)
(***************************************************************************)
EXTENDS Naturals, TraceGrammar

VARIABLE out      \* the last row written

traceVars == <<grammarVars, out>>

Row == [ts : Nat, op : LockOps \cup AccessOps \cup HeapOps \cup LifeOps,
        thread : Threads, addr : Mutexes \cup Vars \cup {None}]

\* The header line of the file, before any row.
Header == [ts |-> 0, op |-> "header", thread |-> None, addr |-> None]

TraceInit == GrammarInit /\ out = Header

WriteRow ==
    /\ out' \in Row
    /\ out'.ts > out.ts
    /\ Follows(out')

TraceSpecification == TraceInit /\ [][WriteRow]_traceVars
=============================================================================
