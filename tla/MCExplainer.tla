------------------------------ MODULE MCExplainer ------------------------------
(***************************************************************************)
(* Instances of Explainer: two threads, and traces of seven or eight rows.    *)
(* A trace ends at the last timestamp, if not before.                       *)
(***************************************************************************)
EXTENDS Explainer

CONSTANTS t1, t2, m1, x, y

MCIpcs == 0 .. 5
MCGuard == [v \in Vars |-> {}]
MCStamps == 1 .. 8
MCFewStamps == 1 .. 7
NoKnownIssues == {}

Row(op, t, addr, ipc) ==
    [op : {op}, thread : {t}, addr : {addr}, ipc : {ipc}, ts : Stamps]

\* Both threads write x at the same instruction and t2 reads it; on y t1 reads
\* and t2 writes.  t1 may hold the mutex from the fourth row on, and may have
\* taken it by a call that leaves no row.
MCRows ==
    {r \in Row("THREADSTART", t1, None, 0) : r.ts = 1}
    \cup {r \in Row("THREADSTART", t2, None, 0) : r.ts = 2}
    \cup Row("WRITE", t1, x, 2) \cup Row("READ", t2, x, 1)
    \cup {r \in Row("WRITE", t2, x, 2) : r.ts < 8}
    \cup {r \in Row("READ", t1, y, 3) \cup Row("WRITE", t2, y, 4) : r.ts < 7}
    \cup {r \in Row("pthread_mutex_lock", t1, m1, 0) : r.ts = 3}
    \cup {r \in Row("pthread_mutex_lock@get", t1, m1, 5) : r.ts = 4}
    \cup Row("pthread_mutex_unlock", t1, m1, 0)

\* No mutexes; t1 writes x at two instructions and t2 reads it at one.
MCBareRows ==
    UNION {Row("THREADSTART", t, None, 0) : t \in Threads}
    \cup Row("WRITE", t1, x, 1) \cup Row("WRITE", t1, x, 2) \cup Row("READ", t2, x, 3)
    \cup Row("READ", t1, y, 4)

MCWindows == {<<1, 1>>, <<0, 2>>}
MCNarrow == {<<1, 1>>}
=============================================================================
