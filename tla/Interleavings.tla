---------------------------- MODULE Interleavings ----------------------------
(***************************************************************************)
(* The option -g of racedet.cpp: an execution graph for each thread, the    *)
(* table with one access per slot, and the two lists of interleavings that  *)
(* Fini writes (racedet.id and the red edges of racedet_overall.dot).       *)
(*                                                                         *)
(* A callback holds the PIN lock from its count of the timestamp to its     *)
(* last change of these variables (module Recorder), so it is one step;     *)
(* ThreadStart is two, because ThreadFini saves a graph after it has given  *)
(* the lock back and may meet the insertion into thread_graphs half done.   *)
(* The hash of a row's label is taken to tell labels apart.                 *)
(***************************************************************************)
EXTENDS Naturals, SequencesExt

CONSTANTS
    Threads,
    Addresses,
    Slot,             \* Slot[a]: addr & HASH_MASK
    Accesses,         \* [op, addr, ipc]: what instructions of the program do
    Others,           \* [op, addr, ipc]: the rows of LockBefore, LockAfter, UnlockBefore
    MaxRows,          \* bound: rows of the trace
    None

AccessOps == {"READ", "WRITE"}
LockOps == {"pthread_mutex_lock", "pthread_mutex_lock@get", "pthread_mutex_unlock"}
ThreadOps == {"THREADSTART", "THREADEND"}

Labels == [op : AccessOps \cup LockOps, thread : Threads, addr : Addresses, ipc : Nat]
          \cup [op : ThreadOps, thread : Threads, addr : {None}, ipc : {0}]
Noted == [row : {l \in Labels : l.op \in AccessOps}, ts : Nat]

ASSUME InterleavingsAssumption ==
    /\ None \notin Threads \cup Noted
    /\ Slot \in [Addresses -> Addresses]
    /\ Accesses \subseteq [op : AccessOps, addr : Addresses, ipc : Nat]
    /\ Others \subseteq [op : LockOps, addr : Addresses, ipc : Nat]
    /\ MaxRows \in Nat

VARIABLES
    rows,             \* racedet.trace; a row's timestamp is its index
    graphs,           \* thread_graphs: t -> nodes, and edges with their cost (partial)
    lastState,        \* thread_state[t]
    table,            \* table[s]: an access of a row, or None
    idioms,           \* pairs of nodes
    interleavings,    \* pairs of accesses
    inserting,        \* the thread in graph_create
    ended,            \* threads whose ThreadFini has given the lock back
    saved,            \* racedet_<t>.dot (partial)
    raced             \* history: threads that saved while one was inserting

graphVars == <<graphs, lastState>>
tableVars == <<table, idioms, interleavings>>
endVars == <<inserting, ended, saved, raced>>
vars == <<rows, graphVars, tableVars, endVars>>

EmptyGraph == [nodes |-> {}, edges |-> EmptyBag]
Put(f, k, v) == [x \in DOMAIN f \cup {k} |-> IF x = k THEN v ELSE f[x]]

Init ==
    /\ rows = <<>>
    /\ graphs = [t \in {} |-> EmptyGraph]
    /\ lastState = [t \in Threads |-> None]
    /\ table = [s \in {Slot[a] : a \in Addresses} |-> None]
    /\ idioms = <<>> /\ interleavings = <<>>
    /\ inserting = None /\ ended = {}
    /\ saved = [t \in {} |-> EmptyGraph]
    /\ raced = {}

Label(op, t, addr, ipc) == [op |-> op, thread |-> t, addr |-> addr, ipc |-> ipc]

Running(t) ==
    /\ inserting = None
    /\ t \in DOMAIN graphs
    /\ t \notin ended
    /\ Len(rows) < MaxRows

-----------------------------------------------------------------------------
(* The graph of a thread. *)

\* Mutant: the last state is not set.
GraphStepInPlace(t, id) ==
    /\ graphs' = [graphs EXCEPT ![t] =
           [nodes |-> @.nodes \cup {id},
            edges |-> @.edges (+) SetToBag({<<lastState[t], id>>})]]
    /\ UNCHANGED lastState

\* Mutant: the node is not added.
GraphStepBare(t, id) ==
    /\ graphs' = [graphs EXCEPT ![t].edges = @ (+) SetToBag({<<lastState[t], id>>})]
    /\ lastState' = [lastState EXCEPT ![t] = id]

\* A node for id unless there is one, and an edge to it from the last state
\* or one more on the edge's cost.
GraphStep(t, id) ==
    /\ graphs' = [graphs EXCEPT ![t] =
           [nodes |-> @.nodes \cup {id},
            edges |-> @.edges (+) SetToBag({<<lastState[t], id>>})]]
    /\ lastState' = [lastState EXCEPT ![t] = id]

ThreadStart(t) ==
    /\ inserting = None
    /\ t \notin DOMAIN graphs
    /\ Len(rows) < MaxRows
    /\ inserting' = t
    /\ UNCHANGED <<rows, graphVars, tableVars, ended, saved, raced>>

\* The end of graph_create and of ThreadStart.
Created(t) ==
    /\ inserting = t
    /\ LET id == Label("THREADSTART", t, None, 0)
       IN /\ graphs' = Put(graphs, t, [EmptyGraph EXCEPT !.nodes = {id}])
          /\ lastState' = [lastState EXCEPT ![t] = id]
          /\ rows' = Append(rows, id)
    /\ inserting' = None
    /\ UNCHANGED <<tableVars, ended, saved, raced>>

LockRow(t, o) ==
    /\ Running(t)
    /\ LET id == Label(o.op, t, o.addr, o.ipc)
       IN GraphStep(t, id) /\ rows' = Append(rows, id)
    /\ UNCHANGED <<tableVars, endVars>>

\* Mutant: the row gets its node, but no edge.
ThreadFiniBare(t) ==
    /\ Running(t)
    /\ graphs' = [graphs EXCEPT ![t].nodes = @ \cup {Label("THREADEND", t, None, 0)}]
    /\ rows' = Append(rows, Label("THREADEND", t, None, 0))
    /\ ended' = ended \cup {t}
    /\ UNCHANGED <<lastState, tableVars, inserting, saved, raced>>

\* The label is hashed before it is written: what is on the stack may be the
\* label of an earlier row of the thread, whose node then stands for this one.
ThreadFini(t) ==
    /\ Running(t)
    /\ \E id \in graphs[t].nodes \cup {Label("THREADEND", t, None, 0)} : GraphStep(t, id)
    /\ rows' = Append(rows, Label("THREADEND", t, None, 0))
    /\ ended' = ended \cup {t}
    /\ UNCHANGED <<tableVars, inserting, saved, raced>>

\* graph_exists and save_to_dot without the lock: while another thread inserts,
\* the map may deny the graph or operator[] make a new one: nothing is saved.
SaveGraph(t) ==
    /\ t \in ended \ DOMAIN saved
    /\ \E g \in {graphs[t]} \cup (IF inserting = None THEN {} ELSE {EmptyGraph}) :
         saved' = Put(saved, t, g)
    /\ raced' = IF inserting = None THEN raced ELSE raced \cup {t}
    /\ UNCHANGED <<rows, graphVars, tableVars, inserting, ended>>

-----------------------------------------------------------------------------
(* The table of accesses. *)

\* Mutant: the list is not searched.
NewIdiomUnsearched(e, id) == e.row \in graphs'[e.row.thread].nodes /\ id \in graphs'[id.thread].nodes

\* find_idiom(...) = -1: both nodes exist and no idiom joins them.
NewIdiom(e, id) ==
    /\ e.row \in graphs'[e.row.thread].nodes
    /\ id \in graphs'[id.thread].nodes
    /\ <<e.row, id>> \notin ToSet(idioms)

\* The entry is followed by the access n of another thread, and replaced.
Follow(e, n) ==
    /\ table' = [table EXCEPT ![Slot[n.row.addr]] = n]
    /\ IF NewIdiom(e, n.row)
       THEN /\ idioms' = Append(idioms, <<e.row, n.row>>)
            /\ interleavings' = Append(interleavings, <<e, n>>)
       ELSE UNCHANGED <<idioms, interleavings>>

\* The first access of a slot.  (find_idiom returns -4 for a read, whose entry
\* has no thread yet.)
Fill(n) ==
    /\ table' = [table EXCEPT ![Slot[n.row.addr]] = n]
    /\ UNCHANGED <<idioms, interleavings>>

\* Mutant: a read takes the place of another thread's read.
ReadTakesAny(e, n) ==
    IF e = None THEN Fill(n)
    ELSE IF e.row.thread # n.row.thread THEN Follow(e, n)
    ELSE UNCHANGED tableVars

\* The entry stays after accesses of its own thread, and a read stays after reads.
ReadTakes(e, n) ==
    IF e = None THEN Fill(n)
    ELSE IF e.row.thread # n.row.thread /\ e.row.op # "READ" THEN Follow(e, n)
    ELSE UNCHANGED tableVars

\* Mutant: the entry is replaced only when the idiom is a new one.
WriteTakesNew(e, n) ==
    IF e = None THEN Fill(n)
    ELSE IF e.row.thread # n.row.thread /\ NewIdiom(e, n.row) THEN Follow(e, n)
    ELSE UNCHANGED tableVars

WriteTakes(e, n) ==
    IF e = None THEN Fill(n)
    ELSE IF e.row.thread # n.row.thread THEN Follow(e, n)
    ELSE UNCHANGED tableVars

RecordMem(t, a) ==
    /\ Running(t)
    /\ LET id == Label(a.op, t, a.addr, a.ipc)
           e == table[Slot[a.addr]]
           n == [row |-> id, ts |-> Len(rows) + 1]
       IN /\ GraphStep(t, id)
          /\ rows' = Append(rows, id)
          /\ IF a.op = "READ" THEN ReadTakes(e, n) ELSE WriteTakes(e, n)
    /\ UNCHANGED endVars

Next ==
    \E t \in Threads :
        \/ ThreadStart(t) \/ Created(t) \/ ThreadFini(t) \/ SaveGraph(t)
        \/ \E o \in Others : LockRow(t, o)
        \/ \E a \in Accesses : RecordMem(t, a)

Spec == Init /\ [][Next]_vars

-----------------------------------------------------------------------------
(* Properties. *)

TypeOK ==
    /\ rows \in Seq(Labels)
    /\ DOMAIN graphs \subseteq Threads
    /\ \A t \in DOMAIN graphs :
           graphs[t].nodes \subseteq {l \in Labels : l.thread = t} /\ lastState[t] \in graphs[t].nodes
    /\ \A s \in DOMAIN table : table[s] # None =>
           table[s] \in Noted /\ table[s].ts \in DOMAIN rows /\ Slot[table[s].row.addr] = s
    /\ inserting \in Threads \cup {None}
    /\ ended \subseteq DOMAIN graphs /\ raced \subseteq DOMAIN saved /\ DOMAIN saved \subseteq ended

\* A pair of nodes is recorded once, the two lists that are written to two
\* files agree, and each end is a node of its thread's graph.
OncePerPair ==
    /\ IsInjective(idioms)
    /\ Len(idioms) = Len(interleavings)
    /\ \A n \in DOMAIN idioms :
           /\ idioms[n] = <<interleavings[n][1].row, interleavings[n][2].row>>
           /\ \A k \in 1..2 : idioms[n][k] \in graphs[idioms[n][k].thread].nodes

\* An interleaving joins accesses of the trace by two threads, one of them a
\* write; between them only the first thread has used the slot or, when the
\* first access is a read, others have read it.
Witnessed ==
    \A n \in DOMAIN interleavings :
        LET e == interleavings[n][1]
            l == interleavings[n][2]
            InSlot(k) == rows[k].op \in AccessOps /\ Slot[rows[k].addr] = Slot[l.row.addr]
        IN /\ e.ts < l.ts
           /\ rows[e.ts] = e.row /\ rows[l.ts] = l.row
           /\ e.row.thread # l.row.thread
           /\ "WRITE" \in {e.row.op, l.row.op}
           /\ InSlot(e.ts)
           /\ \A k \in e.ts + 1 .. l.ts - 1 :
                  InSlot(k) => \/ rows[k].thread = e.row.thread
                               \/ rows[k].op = "READ" /\ e.row.op = "READ"

\* When a thread overwrites what another one wrote last, an interleaving from
\* that thread to the write is on the list, although the entry may be an older
\* access of the thread.
OverwriteNoted ==
    \A j, k \in DOMAIN rows :
        /\ j < k
        /\ rows[j].op = "WRITE" /\ rows[k].op = "WRITE"
        /\ rows[j].thread # rows[k].thread
        /\ Slot[rows[j].addr] = Slot[rows[k].addr]
        /\ \A i \in j + 1 .. k - 1 :
               rows[i].op \in AccessOps => Slot[rows[i].addr] # Slot[rows[k].addr]
        => \E n \in DOMAIN idioms : idioms[n][1].thread = rows[j].thread /\ idioms[n][2] = rows[k]

RowsOf(t) == {k \in DOMAIN rows : rows[k].thread = t}

\* The pairs of rows of t without a row of t between.
Steps(t) ==
    {d \in RowsOf(t) \X RowsOf(t) :
        d[1] < d[2] /\ \A k \in RowsOf(t) : ~(d[1] < k /\ k < d[2])}

\* The state each row is for, when id stands for the ends of threads.
States(id) == [k \in DOMAIN rows |-> IF rows[k].op = "THREADEND" THEN id ELSE rows[k]]

\* How often the steps S take each edge between the states p.
Passed(p, S) ==
    LET Edge(d) == <<p[d[1]], p[d[2]]>>
    IN [e \in {Edge(d) : d \in S} |-> Cardinality({d \in S : Edge(d) = e})]

\* g is t's path through p.
IsPath(g, t, p) == /\ g.nodes = {p[k] : k \in RowsOf(t)}
                   /\ g.edges = Passed(p, Steps(t))

\* A thread's graph is the path of its rows, whatever the other threads do; only
\* the node of its end may be that of an earlier row.
GraphIsPath ==
    \A t \in DOMAIN graphs : \E id \in graphs[t].nodes : IsPath(graphs[t], t, States(id))

\* The graph is saved after the lock is given back; unless a thread starts at
\* that moment, the file has all of it, the end included.
SavedWhole ==
    \A t \in DOMAIN saved \ raced :
        /\ \E k \in RowsOf(t) : rows[k].op = "THREADEND"
        /\ \E id \in graphs[t].nodes : IsPath(saved[t], t, States(id))
=============================================================================
