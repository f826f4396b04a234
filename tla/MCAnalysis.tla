----------------------------- MODULE MCAnalysis -----------------------------
(* Instances of Analysis for TLC. *)
EXTENDS Analysis

CONSTANTS t1, t2, t3, m1, m2, x, y

MCIpcs == 0..4

\* knownissues.csv: none, or one pair of instructions that may reverse.
NoKnownIssues == {}
OneKnownIssue == {<<1, 2, 1, 0, 0>>}

\* x is guarded by m1 and y by nothing.
MCGuard == (x :> {m1}) @@ (y :> {})
Unguarded == (x :> {}) @@ (y :> {})

Row(op, addr, ipc) == {[op |-> op, thread |-> t, addr |-> addr, ipc |-> ipc, ts |-> 0] :
                        t \in Threads}

\* The program's threads live from the first row to the last, take m with the
\* get row at ipc, ...
Life == Row("THREADSTART", None, 0) \cup Row("THREADEND", None, 0)
Locking(m, ipc) == Row("pthread_mutex_lock", m, 0) \cup Row("pthread_mutex_lock@get", m, ipc)
                   \cup Row("pthread_mutex_unlock", m, 0)
\* ... and read and write v at instructions of their own.
Sharing(v, r, w) == Row("READ", v, r) \cup Row("WRITE", v, w)

\* The threads call pthread_mutex_lock at instructions of their own, too.
Calls == {r \in Locking(m1, 3) \cup Locking(m1, 4) :
            r.op = "pthread_mutex_lock@get" => (r.ipc = 4 <=> r.thread = t1)}

OneLock   == Life \cup Calls \cup Sharing(x, 1, 2) \cup Sharing(y, 3, 3)
TwoLocks  == Row("THREADSTART", None, 0) \cup Locking(m1, 4) \cup Locking(m2, 3) \cup Sharing(x, 1, 2)
TwoWrites == Row("THREADSTART", None, 0) \cup Locking(m1, 4) \cup Sharing(x, 1, 2) \cup Row("WRITE", x, 3)

\* One thread takes mutexes, nested and in any order; the others take none.
OneLocker == Row("THREADSTART", None, 0) \cup Sharing(x, 1, 2) \cup Row("malloc", x, 0)
              \cup Row("free", x, 0)
              \cup {r \in Locking(m1, 4) \cup Locking(m2, 3) : r.thread = t1}
=============================================================================
