------------------------------- MODULE Explainer -------------------------------
(***************************************************************************)
(* analyzer/grapher.py on the files of Report: grapher draws the rows of a  *)
(* trace, explainer those around the accesses of one issue of the report.   *)
(* Both read the trace row by row and keep, for each thread, a graph whose  *)
(* nodes are the states (rows without their timestamp) it went through.     *)
(*                                                                         *)
(* They read the file from its first row to its last, also the rows behind  *)
(* the one at which the analyzer stopped.  Left out as layout: the counts on *)
(* the edges, the labels, and the blocks that cluster the nodes of one      *)
(* window.                                                                 *)
(***************************************************************************)
EXTENDS Report, Integers

CONSTANTS
    Windows,          \* values of the options -b and -a, in pairs
    Froms             \* values of the option -s for grapher

ASSUME ExplainerAssumption == Windows \subseteq Nat \X Nat /\ Froms \subseteq Nat

VARIABLES
    job,              \* what grapher.py was called for
    phase,            \* "none", "reading", "read" and "written", or "exited"
                      \* or "crashed" before anything is written
    pos,              \* rows read
    mutexes,          \* the explainer's lock lists, like the analyzer's locks
    recording,
    graph,            \* graph[t]: state -> timestamp of the row kept for it
    lastState,        \* graph_last_state[t]
    transitions,      \* transitions[t]: pairs of states
    lastOn,           \* the last row noted on an address
    interleavings,    \* pairs of states
    nolock,           \* the thread named in the one no_lock record
    shown             \* history: the timestamps of the rows drawn

pictureVars == <<graph, lastState, transitions, lastOn, interleavings, nolock, shown>>
drawingVars == <<job, phase, pos, mutexes, recording, pictureVars>>
explainerVars == <<reportVars, drawingVars>>

Drawing == INSTANCE Analyzer WITH locks <- mutexes

ExplainerInit ==
    /\ ReportInit
    /\ job = None /\ phase = "none" /\ pos = 0
    /\ mutexes = [t \in Threads |-> <<>>]
    /\ recording = FALSE
    /\ graph = [t \in Threads |-> <<>>]
    /\ lastState = [t \in Threads |-> None]
    /\ transitions = [t \in Threads |-> {}]
    /\ lastOn = [a \in Addresses |-> None]
    /\ interleavings = {}
    /\ nolock = None
    /\ shown = {}

-----------------------------------------------------------------------------
(* The issue to explain. *)

Issued == csv[job.id]
Targets == {Issued.accesses[1].thread, Issued.accesses[2].thread}

\* The timestamps of the report row; cx and dx of type 0 are 0.
Times ==
    LET q == Issued.accesses
        written == [n \in DOMAIN q |-> q[n].ts]
    IN IF Issued.type = 0 THEN written \o <<0, 0>> ELSE written

\* starts, sorted: each time once, in an order in which they ascend.
Starts ==
    LET times == Times
        Ascends(p) == \A m, n \in DOMAIN p : m < n => times[p[m]] <= times[p[n]]
        order == CHOOSE p \in Surjection(DOMAIN times, DOMAIN times) : Ascends(p)
    IN [n \in DOMAIN times |-> times[order[n]] - job.before]

\* Mutant: a window is closed although the next one has begun.
EndsEarly == {Times[n] + job.after : n \in 1 .. Len(Times) - 1}

\* ends without the last: those of the windows that end before the next one
\* starts.  For the types 2 and 4 the test takes the start of the window.
Ends ==
    LET pair == Issued.type \in {0, 1}
        Closes(n) == IF pair THEN Times[n] + job.after < Starts[n + 1]
                             ELSE Starts[n] + job.after < Starts[n + 1]
    IN {Times[n] + job.after : n \in {m \in 1 .. (IF pair THEN 1 ELSE 3) : Closes(m)}}

LastEnd == Times[IF Issued.type \in {0, 1} THEN 2 ELSE 4] + job.after

StartExplainer ==
    /\ txt # None
    /\ phase = "none"
    /\ \E id \in DOMAIN csv, w \in Windows :
         job' = [tool |-> "explainer", id |-> id, before |-> w[1], after |-> w[2]]
    /\ phase' = "reading"
    /\ UNCHANGED <<reportVars, pos, mutexes, recording, pictureVars>>

StartGrapher ==
    /\ txt # None
    /\ phase = "none"
    /\ \E f \in Froms : job' = [tool |-> "grapher", from |-> f]
    /\ phase' = "reading"
    /\ UNCHANGED <<reportVars, pos, mutexes, recording, pictureVars>>

-----------------------------------------------------------------------------
(* Drawing one row. *)

State(r) == [op |-> r.op, thread |-> r.thread, addr |-> r.addr, ipc |-> r.ipc]

\* The absence of a state is told from the states.
ASSUME NoneAssumption == None \notin Rows \cup {State(r) : r \in Rows}

\* A state's node keeps the timestamp of the first row that made it.
AddNode(g, s, ts) == [x \in DOMAIN g \cup {s} |-> IF x \in DOMAIN g THEN g[x] ELSE ts]

\* Mutant: the access is noted only when it starts an address.
NoteFirst(r) == lastOn' = [lastOn EXCEPT ![r.addr] = IF @ = None THEN r ELSE @]

NoteLast(r) == lastOn' = [lastOn EXCEPT ![r.addr] = r]

\* Mutant: the state the thread is in is not moved on.
StayIn(r, prev) == transitions' = [transitions EXCEPT ![r.thread] = @ \cup {<<prev, State(r)>>}]
                   /\ lastState' = [lastState EXCEPT ![r.thread] = prev]

\* A transition of the row's thread from its last state.
MoveOn(r, prev) == transitions' = [transitions EXCEPT ![r.thread] = @ \cup {<<prev, State(r)>>}]
                   /\ lastState' = [lastState EXCEPT ![r.thread] = State(r)]

\* An edge between two threads, from the last row noted on the address, when
\* both states are nodes of some thread's graph.
AddInterleaving(r) ==
    LET p == lastOn[r.addr]
        IsNode(s) == \E t \in Threads : s \in DOMAIN graph'[t]
    IN interleavings' =
         IF p # None /\ IsIdiom(p, r) /\ IsNode(State(p)) /\ IsNode(State(r))
         THEN interleavings \cup {<<State(p), State(r)>>} ELSE interleavings

\* The mutex the thread got last, or the shared no_lock record, which is made
\* to name the thread.
LockState(t) ==
    IF mutexes'[t] = <<>>
    THEN [op |-> "no_lock", thread |-> t, addr |-> None, ipc |-> 0]
    ELSE [op |-> "pthread_mutex_lock@get", thread |-> t,
          addr |-> Last(mutexes'[t]).addr, ipc |-> Last(mutexes'[t]).ipc]
LockStamp(t) == IF mutexes'[t] = <<>> THEN 0 ELSE Last(mutexes'[t]).ts

\* Mutant: the first row of a thread is a node and nothing more.
DrawWithoutMutex(r) ==
    LET t == r.thread
    IN /\ graph' = [graph EXCEPT ![t] = AddNode(graph[t], State(r), r.ts)]
       /\ IF lastState[t] = None
          THEN /\ lastState' = [lastState EXCEPT ![t] = State(r)]
               /\ UNCHANGED transitions
          ELSE MoveOn(r, lastState[t])
       /\ AddInterleaving(r) /\ NoteLast(r)
       /\ shown' = shown \cup {r.ts}
       /\ UNCHANGED nolock

\* Mutant: the first row of a thread makes the node of the mutex only.
DrawMutexOnly(r) ==
    LET t == r.thread
        first == DOMAIN graph[t] = {}
    IN /\ graph' = [graph EXCEPT ![t] = IF first THEN AddNode(@, LockState(t), LockStamp(t))
                                                 ELSE AddNode(@, State(r), r.ts)]
       /\ nolock' = IF first /\ mutexes'[t] = <<>> THEN t ELSE nolock
       /\ MoveOn(r, IF first THEN LockState(t) ELSE lastState[t])
       /\ AddInterleaving(r) /\ NoteLast(r)
       /\ shown' = shown \cup {r.ts}

\* The first row of a thread is preceded by a node for its innermost mutex.
DrawExplained(r) ==
    LET t == r.thread
        first == DOMAIN graph[t] = {}
        before == IF first THEN AddNode(graph[t], LockState(t), LockStamp(t)) ELSE graph[t]
    IN /\ graph' = [graph EXCEPT ![t] = AddNode(before, State(r), r.ts)]
       /\ nolock' = IF first /\ mutexes'[t] = <<>> THEN t ELSE nolock
       /\ MoveOn(r, IF first THEN LockState(t) ELSE lastState[t])
       /\ AddInterleaving(r)
       /\ NoteLast(r)
       /\ shown' = shown \cup {r.ts}

\* In grapher the first row of a thread is a node and nothing more.
DrawPlain(r) ==
    LET t == r.thread
    IN /\ graph' = [graph EXCEPT ![t] = AddNode(graph[t], State(r), r.ts)]
       /\ IF lastState[t] = None
          THEN /\ lastState' = [lastState EXCEPT ![t] = State(r)]
               /\ UNCHANGED <<transitions, interleavings, lastOn>>
          ELSE MoveOn(r, lastState[t]) /\ AddInterleaving(r) /\ NoteLast(r)
       /\ shown' = shown \cup {r.ts}
       /\ UNCHANGED nolock

-----------------------------------------------------------------------------
(* Reading the trace. *)

NextRow == trace[pos + 1]

Reads(tool) == phase = "reading" /\ pos < Len(trace) /\ job.tool = tool

\* Mutant: the lists of mutexes are kept in the windows only.
ExplainWindows ==
    /\ Reads("explainer")
    /\ ~Drawing!Unmatched(NextRow)
    /\ pos' = pos + 1
    /\ recording' = /\ recording \/ NextRow.ts \in ToSet(Starts)
                    /\ NextRow.ts \notin Ends \cup {LastEnd}
    /\ IF recording' THEN Drawing!TrackLocks(NextRow) ELSE UNCHANGED mutexes
    /\ phase' = IF NextRow.ts = LastEnd THEN "read" ELSE "reading"
    /\ IF recording' /\ NextRow.thread \in Targets
       THEN DrawExplained(NextRow) ELSE UNCHANGED pictureVars
    /\ UNCHANGED <<reportVars, job>>

\* The explainer keeps the lists of mutexes from the first row on and leaves
\* the trace at its last end.
Explain ==
    /\ Reads("explainer")
    /\ ~Drawing!Unmatched(NextRow)
    /\ pos' = pos + 1
    /\ Drawing!TrackLocks(NextRow)
    /\ recording' = /\ recording \/ NextRow.ts \in ToSet(Starts)
                    /\ NextRow.ts \notin Ends \cup {LastEnd}
    /\ phase' = IF NextRow.ts = LastEnd THEN "read" ELSE "reading"
    /\ IF recording' /\ NextRow.thread \in Targets
       THEN DrawExplained(NextRow) ELSE UNCHANGED pictureVars
    /\ UNCHANGED <<reportVars, job>>

\* Like the analyzer, it gives up on an unlock row without an open get row.
ExitExplainer ==
    /\ Reads("explainer")
    /\ Drawing!Unmatched(NextRow)
    /\ phase' = "exited"
    /\ UNCHANGED <<reportVars, job, pos, mutexes, recording, pictureVars>>

Graph ==
    /\ Reads("grapher")
    /\ pos' = pos + 1
    /\ IF NextRow.ts >= job.from THEN DrawPlain(NextRow) ELSE UNCHANGED pictureVars
    /\ UNCHANGED <<reportVars, job, phase, mutexes, recording>>

\* racedet.dot, when the loop has been left or ends before: with the trace, by
\* the timeout or at the timestamp of the option -e.  A thread that has a node
\* but no transition is a KeyError.
Write ==
    /\ phase \in {"reading", "read"}
    /\ phase' = IF \E t \in Threads : DOMAIN graph[t] # {} /\ transitions[t] = {}
                THEN "crashed" ELSE "written"
    /\ UNCHANGED <<reportVars, job, pos, mutexes, recording, pictureVars>>

ExplainerNext ==
    \/ ReportNext /\ UNCHANGED drawingVars
    \/ StartExplainer \/ StartGrapher \/ Explain \/ ExitExplainer \/ Graph \/ Write

ExplainerSpec == ExplainerInit /\ [][ExplainerNext]_explainerVars

-----------------------------------------------------------------------------
(* What is written: a node is named by its state, the thread in its record   *)
(* and its timestamp; the ends of an edge take the thread from the state.    *)

Nodes == {<<s, IF s.op = "no_lock" THEN nolock ELSE s.thread>> :
             s \in UNION {DOMAIN graph[t] : t \in Threads}}
EdgeEnds == {e[n] : n \in 1..2, e \in interleavings \cup (UNION {transitions[t] : t \in Threads})}

-----------------------------------------------------------------------------
(* Properties. *)

ExplainerTypeOK ==
    /\ phase \in {"none", "reading", "read", "written", "exited", "crashed"}
    /\ pos \in 0 .. Len(trace)
    /\ mutexes \in [Threads -> Seq(Entry)]
    /\ recording \in BOOLEAN
    /\ \A t \in Threads : \A s \in DOMAIN graph[t] : s.thread = t /\ graph[t][s] \in Nat
    /\ \A t \in Threads : lastState[t] \in DOMAIN graph[t] \cup {None}
    /\ \A a \in Addresses : lastOn[a] = None \/ lastOn[a].addr = a
    /\ nolock \in Threads \cup {None}
    /\ shown \subseteq {trace[n].ts : n \in 1 .. pos}

Explaining == phase # "none" /\ job.tool = "explainer"

\* Every timestamp the explainer waits for has a row, unless the trace is over
\* before.
OnTime ==
    /\ Times[1] > job.before
    /\ \A s \in ToSet(Starts) \cup Ends \cup {LastEnd} :
           s > 0 => s > LastStamp \/ \E r \in ToSet(trace) : r.ts = s

\* The rows of the two threads within the timestamps, as far as they are read.
TargetRows(from, to) ==
    {r \in ToSet(SubSeq(trace, 1, pos)) :
        r.thread \in Targets /\ from <= r.ts /\ r.ts <= to}

\* Of an issue of type 0 or 1, each access is drawn with all that its two
\* threads did from `before' timestamps ahead of it, unless no row of the trace
\* has that very timestamp.  (With -a 0 a window ends at its access.)
BeforeShown ==
    Explaining /\ Issued.type \in {0, 1} /\ job.after > 0 =>
        \A n \in 1..2 :
            (\E r \in ToSet(trace) : r.ts = Times[n] - job.before) =>
                {r.ts : r \in TargetRows(Times[n] - job.before, Times[n])} \subseteq shown

\* The explainer that has read on to its last timestamp has drawn all that the
\* two threads of an issue of type 0 or 1 did from `before' timestamps ahead of
\* an access to `after' behind it.
ContextShown ==
    Explaining /\ OnTime /\ phase = "read" /\ Issued.type \in {0, 1} =>
        \A n \in 1..2 :
            {r.ts : r \in TargetRows(Times[n] - job.before, Times[n] + job.after)} \subseteq shown

\* The explainer that has read on to its last timestamp has drawn all the
\* accesses of the issue.
IssueShown ==
    Explaining /\ OnTime /\ job.after > 0 /\ pos > 0 /\ trace[pos].ts = LastEnd =>
        \A n \in DOMAIN Issued.accesses : Issued.accesses[n].ts \in shown

\* The rows drawn so far, by their places in the trace.
Drawn == {k \in 1 .. pos : trace[k].ts \in shown}
DrawnOf(t) == {k \in Drawn : trace[k].thread = t}

\* The row of K that comes first, if any.
Firsts(K) == {k \in K : \A j \in K : k <= j}

\* The pairs of rows of K that come next to each other.
Neighbours(K) == {d \in K \X K : d[1] < d[2] /\ \A k \in K : ~(d[1] < k /\ k < d[2])}

\* The get rows of t that are open at the row at k.
OpenRows(t, k) ==
    {j \in 1 .. k : /\ trace[j].op = "pthread_mutex_lock@get"
                    /\ trace[j].thread = t
                    /\ \A n \in j .. k : ~ /\ trace[n].op = "pthread_mutex_unlock"
                                           /\ trace[n].thread = t
                                           /\ trace[n].addr = trace[j].addr}

\* The mutex that is innermost when t comes to the row at k.
Innermost(t, k) ==
    IF OpenRows(t, k) = {} THEN [op |-> "no_lock", thread |-> t, addr |-> None, ipc |-> 0]
                           ELSE State(trace[Max(OpenRows(t, k))])

\* A thread's graph is its path through the drawn part of the trace, nothing
\* added and nothing skipped; in the explainer's picture it comes from the mutex
\* that the thread had got last before its first row.
PathExact ==
    phase # "none" =>
        \A t \in Threads :
            LET entry == IF job.tool = "explainer" THEN Firsts(DrawnOf(t)) ELSE {}
            IN /\ DOMAIN graph[t] = {State(trace[k]) : k \in DrawnOf(t)}
                                    \cup {Innermost(t, k) : k \in entry}
               /\ transitions[t] = {<<State(trace[d[1]]), State(trace[d[2]])>> :
                                        d \in Neighbours(DrawnOf(t))}
                                   \cup {<<Innermost(t, k), State(trace[k])>> : k \in entry}

\* The drawn rows that are noted as the last on their address: grapher leaves
\* out the first row of every thread.
NotedRows == {k \in Drawn : job.tool = "explainer"
                            \/ \E j \in Drawn : j < k /\ trace[j].thread = trace[k].thread}
NotedOn(a) == {k \in NotedRows : trace[k].addr = a}

\* The edges between threads are those between a drawn access and the next one
\* drawn on the address, when it is by another thread and one of them writes.
InterleavingsExact ==
    phase # "none" =>
        interleavings =
            {<<State(trace[d[1]]), State(trace[d[2]])>> :
                d \in {e \in UNION {Neighbours(NotedOn(a)) : a \in Addresses} :
                           IsIdiom(trace[e[1]], trace[e[2]])}}

\* Every edge joins nodes that are drawn, but for the no_lock node of a thread
\* after which another one without a mutex has put its name in the record.
EdgesJoinNodes ==
    \A s \in EdgeEnds :
        \/ <<s, s.thread>> \in Nodes
        \/ s.op = "no_lock" /\ nolock # s.thread

\* The explainer never fails on the missing transitions of a thread, as grapher
\* does when a thread has one row in the window.
ExplainerNeverCrashes == Explaining => phase # "crashed"

\* It gives up only behind the last row that the analyzer has read: as far as
\* that, the two agree on the mutexes the threads hold.
ExitsUnread == phase = "exited" => pos >= Len(trace) - unread
=============================================================================
