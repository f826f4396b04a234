------------------------------- MODULE Analysis -------------------------------
(***************************************************************************)
(* The analyzer reading a trace as the recorder writes it: every row that   *)
(* may follow by TraceGrammar is read as soon as it is there.  (The real    *)
(* analyzer reads the file afterwards; it sees the same rows in the same    *)
(* order.)  With Untraced the program may also take mutexes by a call that  *)
(* leaves no row, like pthread_mutex_trylock.                               *)
(***************************************************************************)
EXTENDS Analyzer

CONSTANTS
    Mutexes, Vars, Guard, Nesting, Untraced,
    Rows              \* the rows the traced program can produce

ASSUME AnalysisAssumption ==
    /\ Addresses = Mutexes \cup Vars \cup {None}
    /\ Mutexes \cap Vars = {}
    /\ Rows \subseteq RowType
    /\ Guard \in [Vars -> SUBSET Mutexes]
    /\ {Nesting, Untraced, Windowed} \subseteq BOOLEAN
    /\ None \notin Mutexes \cup Vars \cup Threads \cup Access \cup (Access \X Access)

VARIABLES
    status, wanted, held,   \* the trace so far (TraceGrammar)
    recent                  \* history: recent[a], the last row on a in the window

G == INSTANCE TraceGrammar

traceVars == <<status, wanted, held>>
vars == <<analyzerVars, traceVars, recent>>

Init == AnalyzerInit /\ G!GrammarInit /\ recent = [a \in Addresses |-> None]

\* The unlock row of a mutex that was taken without a row.
Strays(r) ==
    /\ Untraced
    /\ r.op = "pthread_mutex_unlock"
    /\ G!Running(r.thread)
    /\ r.addr \in Mutexes \ held[r.thread]
    /\ UNCHANGED traceVars

ReadRow(r) ==
    /\ G!Follows(r) \/ Strays(r)
    /\ Read(r)
    /\ recent' = IF inWindow' /\ state' = "reading"
                 THEN [recent EXCEPT ![r.addr] = Current(r)] ELSE recent

StopReading == Stop /\ UNCHANGED <<traceVars, recent>>

Next == (\E r \in Rows : ReadRow(r)) \/ StopReading

Spec == Init /\ [][Next]_vars

-----------------------------------------------------------------------------
TypeOK ==
    /\ locks \in [Threads -> Seq(Entry)]
    /\ access \in [Addresses -> Access \cup {None}]
    /\ threadpairs \in [Threads \X Threads -> (Access \X Access) \cup {None}]
    /\ \A i \in found : /\ i.type \in {0, 1, 2, 4}
                        /\ i.history \in Access \X Access
                        /\ i.last \in Access \X Access
    /\ inWindow \in BOOLEAN
    /\ state \in {"reading", "finished", "aborted"}

\* The analyzer's list of a thread's mutexes is what the trace says the
\* thread holds, each once, whatever the order of the unlocks and also for
\* the rows before the window.
LockView ==
    \A t \in Threads :
        /\ {e.addr : e \in ToSet(locks[t])} = held[t]
        /\ \A i, j \in DOMAIN locks[t] :
               locks[t][i].addr = locks[t][j].addr => i = j

\* A trace without untraced acquisitions is read to the end.
NeverAborts == state = "aborted" => Untraced

\* The unlock of a mutex that was taken without a row always ends the
\* analysis: it is never taken for the unlock of another mutex.
StrayUnlockCaught ==
    [][\A r \in Rows : Strays(r) /\ ReadRow(r) => state' = "aborted"]_vars

\* No "missing lock" (type 0) on a variable whose accesses are all guarded.
\* It needs a program that never nests its critical sections.
NoFalseMissingLock ==
    \A i \in found : i.type = 0 => Guard[i.last[2].addr] = {}

\* Ax, Bx and the two accesses after them are by two threads, in the order
\* A, B, B, A, for the three types that speak of a reversal.
TwoThreadReversal ==
    \A i \in found : i.type # 0 =>
        /\ i.history[1].thread # i.history[2].thread
        /\ i.last[1].thread = i.history[2].thread
        /\ i.last[2].thread = i.history[1].thread

\* Two threads have one history, whichever of them came first.
PairCanonical ==
    \A t, u \in Threads :
        threadpairs[<<t, u>>] # None =>
            /\ threadpairs[<<u, t>>] = None
            /\ {threadpairs[<<t, u>>][1].thread, threadpairs[<<t, u>>][2].thread} = {t, u}

\* When two consecutive accesses in the window are an idiom of two threads
\* that have a history, and one of them holds no mutex, some issue is
\* confirmed.  The `continue' statements break it: they leave an older row in
\* access, and the pair is never looked at.
MissingLockReported ==
    [][\A r \in Rows :
         LET p == recent[r.addr]
         IN /\ p # None
            /\ IsIdiom(p, r)
            /\ threadpairs[Pair(p.thread, r.thread)] # None
            /\ ReadRow(r) /\ inWindow' /\ state' = "reading"
            /\ Unprotected(<<p, Current(r)>>)
            => found' # {}]_vars

-----------------------------------------------------------------------------
(* The invariants the proofs go by induction on (AnalysisProofs). *)

\* A thread holds nothing before it starts, and at most one mutex at a time
\* when critical sections are not nested.
HeldInv ==
    \A t \in Threads :
        /\ status[t] = "absent" => held[t] = {}
        /\ ~Nesting => /\ wanted[t] # None => held[t] = {}
                       /\ \A m, n \in held[t] : m = n

\* The access noted on a guarded variable carries its guard as the innermost
\* mutex, whatever rows the analyzer has skipped since.
NotedUnderGuard ==
    \A a \in Vars : \A m \in Guard[a] :
        access[a] # None /\ access[a].op \in AccessOps => access[a].lock.addr = m
=============================================================================
