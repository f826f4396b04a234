------------------------------- MODULE Analyzer -------------------------------
(***************************************************************************)
(* validate_ax_bx of analyzer/analyzer.py: the loop that reads              *)
(* racedet.trace row by row, keeps the mutexes each thread holds, the last  *)
(* access to every address and the last interleaving of every two threads,  *)
(* and confirms issues of the types 0, 1, 2 and 4 on them.                  *)
(*                                                                         *)
(* A row is a record [op, thread, addr, ipc, ts].  The window of timestamps *)
(* (-s, -e) is a phase: which rows lie before it and where it ends is       *)
(* chosen freely when Windowed holds.  found has the issues the last row    *)
(* raised; counting and writing them is module Report.                     *)
(***************************************************************************)
EXTENDS Naturals, SequencesExt

CONSTANTS
    Threads, Addresses, Ipcs,
    Stamps,           \* the timestamps rows may carry
    Windowed,         \* are the options -s and -e used?
    KnownIssues,      \* rows of knownissues.csv: <<type, ax, bx, cx, dx>>
    None

VARIABLES
    locks,            \* locks[t]: the lock, lock_addr and lockstate lists of t
    access,           \* access[a]: the last access noted on a
    threadpairs,      \* threadpairs[<<t, u>>]: the last idiom of t and u
    found,            \* the issues confirmed on the last row
    inWindow,         \* has start_timestamp been reached?
    state             \* "reading", or how the loop ended

analyzerVars == <<locks, access, threadpairs, found, inWindow, state>>

Entry  == [addr : Addresses, ipc : Ipcs, ts : Stamps]
NoLock == [addr |-> None, ipc |-> None, ts |-> None]

AccessOps == {"READ", "WRITE"}
RowOps == AccessOps \cup {"malloc", "free", "THREADSTART", "THREADEND",
           "pthread_mutex_lock", "pthread_mutex_lock@get", "pthread_mutex_unlock"}

RowType == [op : RowOps, thread : Threads, addr : Addresses, ipc : Ipcs, ts : Stamps]
Access == [op : RowOps, thread : Threads, addr : Addresses, ipc : Ipcs, ts : Stamps,
           lock : Entry \cup {NoLock}]

AnalyzerInit ==
    /\ locks = [t \in Threads |-> <<>>]
    /\ access = [a \in Addresses |-> None]
    /\ threadpairs = [p \in Threads \X Threads |-> None]
    /\ found = {}
    /\ inWindow = FALSE
    /\ state = "reading"

-----------------------------------------------------------------------------
(* The mutexes of a thread. *)

\* Mutant: an unlock matches every get of its kind.
PositionsOfAny(t, a) == DOMAIN locks[t]

Positions(t, a) == {i \in DOMAIN locks[t] : locks[t][i].addr = a}

\* The three ways in which an unlock row ends the analysis: no mutex held at
\* all, none of its kind, or not this one.
Unmatched(r) == r.op = "pthread_mutex_unlock" /\ Positions(r.thread, r.addr) = {}

Opened(r) == Append(locks[r.thread], [addr |-> r.addr, ipc |-> r.ipc, ts |-> r.ts])

\* Mutant: the last mutex got is closed, whichever is unlocked.
ClosedLast(r) == Front(locks[r.thread])

\* The search runs backwards, so the latest get of the mutex is closed.
Closed(r) == RemoveAt(locks[r.thread], Max(Positions(r.thread, r.addr)))

\* Mutant: the lock rows before the window are not read.
TrackLocksInWindow(r) ==
    locks' = CASE ~inWindow                       -> locks
               [] r.op = "THREADSTART"            -> [locks EXCEPT ![r.thread] = <<>>]
               [] r.op = "pthread_mutex_lock@get" -> [locks EXCEPT ![r.thread] = Opened(r)]
               [] r.op = "pthread_mutex_unlock"   -> [locks EXCEPT ![r.thread] = Closed(r)]
               [] OTHER                           -> locks

TrackLocks(r) ==
    locks' = CASE r.op = "THREADSTART"            -> [locks EXCEPT ![r.thread] = <<>>]
               [] r.op = "pthread_mutex_lock@get" -> [locks EXCEPT ![r.thread] = Opened(r)]
               [] r.op = "pthread_mutex_unlock"   -> [locks EXCEPT ![r.thread] = Closed(r)]
               [] OTHER                           -> locks

\* curr_access: the row with the innermost mutex its thread holds.
Current(r) == [op |-> r.op, thread |-> r.thread, addr |-> r.addr, ipc |-> r.ipc,
               ts |-> r.ts,
               lock |-> IF locks'[r.thread] = <<>> THEN NoLock
                                                   ELSE Last(locks'[r.thread])]

-----------------------------------------------------------------------------
(* Interleavings: l is the idiom just seen, <<prev_access, curr_access>>,   *)
(* and h the one remembered for the same two threads.                       *)

IsIdiom(p, c) == p.thread # c.thread /\ {p.op, c.op} = AccessOps

\* Mutant: the history of two threads is kept once per order.
PairOrdered(t, u) == <<t, u>>

\* The key under which the history of two threads is kept: whichever of the
\* two orders came first.
Pair(t, u) == IF threadpairs[<<t, u>>] = None /\ threadpairs[<<u, t>>] # None
              THEN <<u, t>> ELSE <<t, u>>

\* Mutant: Bx -> Ax may be by any thread.
ReversibleByAny(h, l) ==
    /\ h[1].addr = l[2].addr
    /\ h[2].ipc = l[1].ipc
    /\ h[1].ipc = l[2].ipc

\* Ax -> Bx was followed by Bx -> Ax, by the same instructions.
Reversible(h, l) ==
    /\ h[1].addr = l[2].addr
    /\ h[2].thread = l[1].thread
    /\ h[2].ipc = l[1].ipc
    /\ h[1].ipc = l[2].ipc

\* Mutant: the get rows are compared, not the mutexes.
UnprotectedByGet(l) == l[1].lock = NoLock \/ l[2].lock = NoLock \/ l[1].lock # l[2].lock

Unprotected(l) ==
    \/ l[1].lock = NoLock
    \/ l[2].lock = NoLock
    \/ l[1].lock.addr # l[2].lock.addr

\* The thread of Bx went on with Cx or Cy, at other instructions.
Crossed(h, l) ==
    /\ h[2].thread = l[1].thread
    /\ h[2].ipc # l[1].ipc \/ h[1].ipc # l[2].ipc

\* All four accesses hold mutexes, got pairwise at the same instructions.
SameLocking(h, l) ==
    /\ \A i \in 1..2 : h[i].lock # NoLock /\ l[i].lock # NoLock
    /\ h[1].lock.ipc = l[2].lock.ipc
    /\ l[1].lock.ipc = h[2].lock.ipc

Issue(type, h, l) == [type |-> type, history |-> h, last |-> l]

\* Mutant: a missing lock counts only where the accesses are reversed.
PairIssueReversed(h, l) ==
    IF Reversible(h, l) THEN {Issue(1, h, l)}
    ELSE IF h[2].thread = l[1].thread /\ Unprotected(l) THEN {Issue(0, h, l)}
    ELSE {}

\* The issue on the last two accesses alone, if any (at most one).
PairIssue(h, l) ==
    IF Reversible(h, l)    THEN {Issue(1, h, l)}
    ELSE IF Unprotected(l) THEN {Issue(0, h, l)}
    ELSE {}

\* The issue on the last four accesses, if any: type 2 on one address, type 4
\* on two.
CrossIssue(h, l) ==
    IF Crossed(h, l)
    THEN {Issue(IF h[1].addr = l[2].addr THEN 2 ELSE 4, h, l)}
    ELSE {}

IssueKey(i) ==
    IF i.type \in {0, 1}
    THEN <<i.type, i.last[1].ipc, i.last[2].ipc, 0, 0>>
    ELSE <<i.type, i.history[1].ipc, i.history[2].ipc, i.last[1].ipc, i.last[2].ipc>>

Known(S) == \E i \in S : IssueKey(i) \in KnownIssues

\* The `continue' statements: the rest of the iteration is skipped.
CrossSkips(h, l) == Crossed(h, l) /\ (SameLocking(h, l) \/ Known(CrossIssue(h, l)))
Skips(h, l) == Known(PairIssue(h, l)) \/ CrossSkips(h, l)

Reports(h, l) ==
    IF Known(PairIssue(h, l)) THEN {}
    ELSE PairIssue(h, l) \cup (IF CrossSkips(h, l) THEN {} ELSE CrossIssue(h, l))

-----------------------------------------------------------------------------
(* One iteration of the loop. *)

\* The unlock row is not matched: the message names variables that do not
\* exist (timestamp, paired_op), so a NameError or the exit after it ends the
\* program; no report is written.
Abort(r) ==
    /\ Unmatched(r)
    /\ state' = "aborted"
    /\ found' = {}
    /\ UNCHANGED <<locks, access, threadpairs, inWindow>>

\* end_timestamp is reached: the row's lock operation is the last thing done.
EndWindow(r) ==
    /\ Windowed
    /\ state' = "finished"
    /\ found' = {}
    /\ UNCHANGED <<access, threadpairs, inWindow>>

BeforeWindow(r) ==
    /\ Windowed
    /\ ~inWindow
    /\ found' = {}
    /\ UNCHANGED <<access, threadpairs, inWindow, state>>

\* Mutant: the row is noted without its lock columns.
NoteBare(r) == access' = [access EXCEPT ![r.addr] = r]

Note(r) == access' = [access EXCEPT ![r.addr] = Current(r)]

\* The first row on an address, or a row that makes no idiom with the last.
Plain(r) ==
    /\ access[r.addr] # None => ~IsIdiom(access[r.addr], r)
    /\ Note(r)
    /\ found' = {}
    /\ UNCHANGED threadpairs

FirstIdiom(r) ==
    /\ access[r.addr] # None
    /\ IsIdiom(access[r.addr], r)
    /\ LET p == access[r.addr]
           k == Pair(p.thread, r.thread)
       IN /\ threadpairs[k] = None
          /\ threadpairs' = [threadpairs EXCEPT ![k] = <<p, Current(r)>>]
    /\ Note(r)
    /\ found' = {}

Examine(r) ==
    /\ access[r.addr] # None
    /\ IsIdiom(access[r.addr], r)
    /\ LET p == access[r.addr]
           k == Pair(p.thread, r.thread)
           h == threadpairs[k]
           l == <<p, Current(r)>>
       IN /\ h # None
          /\ found' = Reports(h, l)
          /\ IF Skips(h, l)
             THEN UNCHANGED <<access, threadpairs>>
             ELSE Note(r) /\ threadpairs' = [threadpairs EXCEPT ![k] = l]

InWindow(r) ==
    /\ inWindow' = TRUE
    /\ Plain(r) \/ FirstIdiom(r) \/ Examine(r)
    /\ UNCHANGED state

Read(r) ==
    /\ state = "reading"
    /\ \/ Abort(r)
       \/ /\ ~Unmatched(r)
          /\ TrackLocks(r)
          /\ EndWindow(r) \/ BeforeWindow(r) \/ InWindow(r)

\* The end of the file, or the timeout at the end of an iteration.
Stop ==
    /\ state = "reading"
    /\ state' = "finished"
    /\ found' = {}
    /\ UNCHANGED <<locks, access, threadpairs, inWindow>>
=============================================================================
