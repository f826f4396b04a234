------------------------- MODULE InterleavingsProofs -------------------------
(***************************************************************************)
(* What -g promises, for any number of threads, any program, any hash of    *)
(* addresses and any length of the trace: each thread's graph is the path   *)
(* of its rows, and the lists of interleavings name pairs of accesses that  *)
(* the trace has, each once, the overwritten writes among them.             *)
(*                                                                         *)
(* The table is all that a callback knows of the past.  The invariant says  *)
(* how much that is: the entry of a slot stands for everything that has     *)
(* been done to the slot since (EntryInv), the thread that wrote last is    *)
(* the entry's (WriterInv), and the graph goes on from the thread's last    *)
(* row (GraphInv).                                                         *)
(***************************************************************************)
EXTENDS Interleavings, FiniteSetTheorems, TLAPS

\* One more step takes its edge once more.
LEMMA OneMoreStep ==
  ASSUME NEW S, IsFiniteSet(S), NEW d, d \notin S, NEW p
  PROVE  Passed(p, S \cup {d}) = Passed(p, S) (+) SetToBag({<<p[d[1]], p[d[2]]>>})
<1> DEFINE Edge(c) == <<p[c[1]], p[c[2]]>>
           T == S \cup {d}
           old == Passed(p, S)
           new == Passed(p, T)
           At(R, e) == {c \in R : Edge(c) = e}
<1>1. /\ new = [e \in {Edge(c) : c \in T} |-> Cardinality(At(T, e))]
      /\ old = [e \in {Edge(c) : c \in S} |-> Cardinality(At(S, e))]
  BY DEF Passed
<1>2. \A e : IsFiniteSet(At(S, e))
  BY FS_Subset
<1>3. At(T, Edge(d)) = At(S, Edge(d)) \cup {d} /\ d \notin At(S, Edge(d))
  OBVIOUS
<1>4. Cardinality(At(T, Edge(d))) = Cardinality(At(S, Edge(d))) + 1
  <2> HIDE DEF At, Edge, T
  <2>1. PICK R : R = At(S, Edge(d))
    OBVIOUS
  <2>2. IsFiniteSet(R) /\ d \notin R
    BY <1>2, <1>3, <2>1
  <2>3. Cardinality(R \cup {d}) = Cardinality(R) + 1
    BY <2>2, FS_AddElement
  <2> QED
    BY <1>3, <2>1, <2>3
<1>5. \A e : e # Edge(d) => At(T, e) = At(S, e)
  OBVIOUS
<1>6. Edge(d) \notin {Edge(c) : c \in S} => Cardinality(At(S, Edge(d))) = 0
  BY FS_EmptySet
<1>7. {Edge(c) : c \in T} = {Edge(c) : c \in S} \cup {Edge(d)}
  OBVIOUS
<1>8. \A e \in {Edge(c) : c \in S} : Cardinality(At(S, e)) \in Nat
  BY <1>2, FS_CardinalityType
<1> DEFINE sum == old (+) SetToBag({Edge(d)})
<1>9. sum = [e \in {Edge(c) : c \in S} \cup {Edge(d)} |->
               (IF e \in {Edge(c) : c \in S} THEN Cardinality(At(S, e)) ELSE 0)
               + (IF e = Edge(d) THEN 1 ELSE 0)]
  <2> HIDE DEF At, Edge
  <2> QED
    BY <1>1 DEF (+), SetToBag
<1>10. new = sum
  <2> HIDE DEF At, Edge, T, new, sum
  <2>1. \A e \in {Edge(c) : c \in T} : new[e] = sum[e]
    BY <1>1, <1>4, <1>5, <1>6, <1>7, <1>8, <1>9
  <2> QED
    BY <1>1, <1>7, <1>9, <2>1
<1> QED
  BY <1>10

\* The count depends on the states at the ends of the steps only.
LEMMA SameSteps ==
  ASSUME NEW S, NEW p, NEW q, \A d \in S : q[d[1]] = p[d[1]] /\ q[d[2]] = p[d[2]]
  PROVE  Passed(q, S) = Passed(p, S)
<1>1. {<<q[d[1]], q[d[2]]>> : d \in S} = {<<p[d[1]], p[d[2]]>> : d \in S}
  OBVIOUS
<1>2. \A e : {d \in S : <<q[d[1]], q[d[2]]>> = e} = {d \in S : <<p[d[1]], p[d[2]]>> = e}
  OBVIOUS
<1>3. /\ Passed(q, S) = [e \in {<<q[d[1]], q[d[2]]>> : d \in S} |->
             Cardinality({d \in S : <<q[d[1]], q[d[2]]>> = e})]
      /\ Passed(p, S) = [e \in {<<p[d[1]], p[d[2]]>> : d \in S} |->
             Cardinality({d \in S : <<p[d[1]], p[d[2]]>> = e})]
  BY DEF Passed
<1> QED
  BY <1>1, <1>2, <1>3, SMTT(30)

-----------------------------------------------------------------------------
(* The inductive invariant. *)

InSlot(k, s) == rows[k].op \in AccessOps /\ Slot[rows[k].addr] = s

\* Every access recorded is that of its row.
IsRow(e) == e \in Noted /\ e.ts \in DOMAIN rows /\ rows[e.ts] = e.row

\* Since e no thread but e's has used the slot, unless all of them only read.
Stands(e, s, last) ==
    \A k \in e.ts + 1 .. last :
        InSlot(k, s) => \/ rows[k].thread = e.row.thread
                        \/ rows[k].op = "READ" /\ e.row.op = "READ"

\* t has put id into its graph.
IsNode(id) == id.thread \in DOMAIN graphs /\ id \in graphs[id.thread].nodes

Shapes ==
    /\ rows \in Seq(Labels)
    /\ DOMAIN graphs \subseteq Threads /\ DOMAIN lastState = Threads
    /\ DOMAIN table = {Slot[a] : a \in Addresses}
    /\ idioms \in Seq(Labels \X Labels)
    /\ interleavings \in Seq(Noted \X Noted)
    /\ inserting \in {None} \cup (Threads \ DOMAIN graphs)
    /\ ended \subseteq DOMAIN graphs
    /\ raced \subseteq DOMAIN saved /\ DOMAIN saved \subseteq ended

\* A thread has rows once it has a graph, an end once it has ended; its graph
\* goes on from its last row.
GraphInv ==
    /\ \A t \in Threads \ DOMAIN graphs : RowsOf(t) = {}
    /\ \A t \in DOMAIN graphs :
           /\ graphs[t].nodes \subseteq {l \in Labels : l.thread = t}
           /\ lastState[t] \in graphs[t].nodes
           /\ \E id \in graphs[t].nodes : IsPath(graphs[t], t, States(id))
           /\ t \in ended <=> \E k \in RowsOf(t) : rows[k].op = "THREADEND"
    /\ \A t \in DOMAIN graphs \ ended :
           \E k \in RowsOf(t) : rows[k] = lastState[t] /\ \A j \in RowsOf(t) : j <= k

\* The entry of a slot stands for the last accesses of the slot.
EntryInv ==
    \A s \in DOMAIN table : table[s] # None =>
        /\ IsRow(table[s]) /\ InSlot(table[s].ts, s)
        /\ IsNode(table[s].row)
        /\ Stands(table[s], s, Len(rows))

\* The thread that has written last is the entry's.
WriterInv ==
    \A j \in DOMAIN rows :
        LET s == Slot[rows[j].addr]
        IN rows[j].op = "WRITE" /\ (\A k \in j + 1 .. Len(rows) : ~InSlot(k, s)) =>
               table[s] # None /\ table[s].row.thread = rows[j].thread

ListInv ==
    /\ Len(idioms) = Len(interleavings)
    /\ IsInjective(idioms)
    /\ \A n \in DOMAIN idioms :
           LET e == interleavings[n][1]
               l == interleavings[n][2]
           IN /\ idioms[n] = <<e.row, l.row>>
              /\ IsNode(e.row) /\ IsNode(l.row)
              /\ IsRow(e) /\ IsRow(l) /\ e.ts < l.ts
              /\ e.row.thread # l.row.thread
              /\ "WRITE" \in {e.row.op, l.row.op}
              /\ Slot[e.row.addr] = Slot[l.row.addr]
              /\ Stands(e, Slot[l.row.addr], l.ts - 1)

Inv == Shapes /\ GraphInv /\ EntryInv /\ WriterInv /\ ListInv

-----------------------------------------------------------------------------
(* A row more. *)

\* What LockRow, ThreadFini and RecordMem do to the trace and the graph of t:
\* row is the new row and id the state it makes.
Recorded(t, row, id) ==
    /\ Running(t) /\ GraphStep(t, id) /\ rows' = Append(rows, row)
    /\ row \in Labels /\ row.thread = t
    /\ id \in Labels /\ id.thread = t
    /\ UNCHANGED <<inserting, saved, raced>>
    /\ \/ id = row /\ row.op # "THREADEND" /\ UNCHANGED ended
       \/ row.op = "THREADEND" /\ ended' = ended \cup {t}

LEMMA Records ==
  ASSUME Inv, NEW t \in Threads,
         ThreadFini(t) \/ (\E o \in Others : LockRow(t, o)) \/ (\E a \in Accesses : RecordMem(t, a))
  PROVE  \E row, id \in Labels : Recorded(t, row, id)
<1>1. CASE ThreadFini(t)
  <2> DEFINE row == Label("THREADEND", t, None, 0)
  <2>1. row \in Labels /\ row.thread = t /\ row.op = "THREADEND"
    BY DEF Label, Labels, ThreadOps
  <2>2. PICK id \in graphs[t].nodes \cup {row} : GraphStep(t, id)
    BY <1>1 DEF ThreadFini
  <2>3. id \in Labels /\ id.thread = t
    BY <1>1, <2>1 DEF ThreadFini, Running, Inv, GraphInv
  <2> QED
    BY <1>1, <2>1, <2>2, <2>3 DEF ThreadFini, Recorded
<1>2. ASSUME NEW o \in Others, LockRow(t, o)
      PROVE  \E row, id \in Labels : Recorded(t, row, id)
  <2> DEFINE row == Label(o.op, t, o.addr, o.ipc)
  <2>1. row \in Labels /\ row.thread = t /\ row.op # "THREADEND"
    BY InterleavingsAssumption DEF Label, Labels, LockOps, ThreadOps
  <2> QED
    BY <1>2, <2>1 DEF LockRow, Recorded, endVars
<1>3. ASSUME NEW a \in Accesses, RecordMem(t, a)
      PROVE  \E row, id \in Labels : Recorded(t, row, id)
  <2> DEFINE row == Label(a.op, t, a.addr, a.ipc)
  <2>1. row \in Labels /\ row.thread = t /\ row.op # "THREADEND"
    BY InterleavingsAssumption DEF Label, Labels, AccessOps, ThreadOps
  <2> QED
    BY <1>3, <2>1 DEF RecordMem, Recorded, endVars
<1> QED
  BY <1>1, <1>2, <1>3

\* The rows before stay where they are.
LEMMA RowsBefore ==
  ASSUME rows \in Seq(Labels), NEW row \in Labels, rows' = Append(rows, row)
  PROVE  /\ rows' \in Seq(Labels)
         /\ Len(rows) \in Nat /\ DOMAIN rows = 1 .. Len(rows)
         /\ Len(rows') = Len(rows) + 1
         /\ DOMAIN rows' = 1 .. Len(rows) + 1
         /\ rows'[Len(rows) + 1] = row
         /\ \A k \in 1 .. Len(rows) : rows'[k] = rows[k]
  OBVIOUS

\* The address of an access is that of an object, never a thread row's None.
LEMMA AccessAddress ==
  ASSUME NEW l \in Labels, l.op \in AccessOps
  PROVE  l.addr \in Addresses
  BY DEF Labels, AccessOps, ThreadOps

\* The new row is its thread's last and the other threads' rows are as before.
LEMMA RowsOfAfter ==
  ASSUME rows \in Seq(Labels), NEW row \in Labels, rows' = Append(rows, row), NEW u
  PROVE  RowsOf(u)' = IF u = row.thread THEN RowsOf(u) \cup {Len(rows) + 1} ELSE RowsOf(u)
  BY RowsBefore DEF RowsOf

\* The path of a thread with no new row is as before.
LEMMA PathStays ==
  ASSUME rows \in Seq(Labels), NEW row \in Labels, rows' = Append(rows, row),
         NEW u, u # row.thread, NEW g, NEW id
  PROVE  IsPath(g, u, States(id)) => IsPath(g, u, States(id))'
<1>1. RowsOf(u)' = RowsOf(u)
  BY RowsOfAfter
<1>2. Steps(u)' = Steps(u)
  BY <1>1 DEF Steps
<1>3. \A k \in RowsOf(u) : States(id)'[k] = States(id)[k]
  BY RowsBefore DEF States, RowsOf
<1>4. {States(id)'[k] : k \in RowsOf(u)} = {States(id)[k] : k \in RowsOf(u)}
  BY <1>3
<1>5. Passed(States(id)', Steps(u)) = Passed(States(id), Steps(u))
  BY <1>3, SameSteps DEF Steps
<1> QED
  BY <1>1, <1>2, <1>4, <1>5 DEF IsPath

\* The step to the new row is the only new one.
LEMMA StepsAfter ==
  ASSUME rows \in Seq(Labels), NEW row \in Labels, rows' = Append(rows, row),
         NEW last \in RowsOf(row.thread), \A j \in RowsOf(row.thread) : j <= last
  PROVE  /\ Steps(row.thread)' = Steps(row.thread) \cup {<<last, Len(rows) + 1>>}
         /\ <<last, Len(rows) + 1>> \notin Steps(row.thread)
         /\ IsFiniteSet(Steps(row.thread))
<1> DEFINE t == row.thread
           n == Len(rows) + 1
           R == RowsOf(t)
<1>1. R' = R \cup {n} /\ R \subseteq 1 .. Len(rows) /\ n \notin R
  BY RowsOfAfter, RowsBefore DEF RowsOf
<1>2. Steps(t)' = {d \in (R \cup {n}) \X (R \cup {n}) :
                      d[1] < d[2] /\ \A k \in R \cup {n} : ~(d[1] < k /\ k < d[2])}
  BY <1>1 DEF Steps
<1>3. Steps(t) = {d \in R \X R : d[1] < d[2] /\ \A k \in R : ~(d[1] < k /\ k < d[2])}
  BY DEF Steps
<1>4. n \in Nat /\ last \in Nat /\ last < n /\ R \subseteq Nat /\ \A k \in R : k <= last
  BY <1>1
<1>5. Steps(t)' = Steps(t) \cup {<<last, n>>}
  <2> HIDE DEF n, R, t
  <2>1. Steps(t)' \subseteq Steps(t) \cup {<<last, n>>}
    <3> SUFFICES ASSUME NEW d \in Steps(t)', d # <<last, n>> PROVE d \in Steps(t)
      OBVIOUS
    <3>1. PICK i \in R \cup {n}, j \in R \cup {n} :
             d = <<i, j>> /\ i < j /\ \A k \in R \cup {n} : ~(i < k /\ k < j)
      BY <1>2
    <3>2. i \in R
      BY <1>4, <3>1
    <3>3. j # n
      BY <1>4, <3>1, <3>2 DEF R, t
    <3> QED
      BY <1>3, <3>1, <3>2, <3>3
  <2>2. Steps(t) \subseteq Steps(t)'
    <3> SUFFICES ASSUME NEW d \in Steps(t) PROVE d \in Steps(t)'
      OBVIOUS
    <3>1. PICK i \in R, j \in R : d = <<i, j>> /\ i < j /\ \A k \in R : ~(i < k /\ k < j)
      BY <1>3
    <3>2. ~(n < j)
      BY <1>4 DEF R, t
    <3> QED
      BY <1>2, <3>1, <3>2
  <2>3. <<last, n>> \in Steps(t)'
    BY <1>2, <1>4 DEF R, t
  <2> QED
    BY <2>1, <2>2, <2>3
<1>6. <<last, n>> \notin Steps(t)
  BY <1>1, <1>3
<1>7. IsFiniteSet(Steps(t))
  <2>1. IsFiniteSet(1 .. Len(rows))
    BY FS_Interval, RowsBefore
  <2>2. IsFiniteSet((1 .. Len(rows)) \X (1 .. Len(rows)))
    BY <2>1, FS_Product
  <2>3. Steps(t) \in SUBSET ((1 .. Len(rows)) \X (1 .. Len(rows)))
    BY <1>1, <1>3
  <2> QED
    BY <2>2, <2>3, FS_Subset
<1> QED
  BY <1>5, <1>6, <1>7

\* The graph of the thread with the new row has one more step of the path.
LEMMA PathGrows ==
  ASSUME Inv, NEW t \in Threads, NEW row, NEW id, Recorded(t, row, id)
  PROVE  IsPath(graphs[t], t, States(id))'
<1> DEFINE n == Len(rows) + 1
           q == States(id)'
<1>1. /\ rows \in Seq(Labels) /\ row \in Labels /\ row.thread = t /\ rows' = Append(rows, row)
      /\ t \in DOMAIN graphs \ ended
  BY DEF Recorded, Running, Inv, Shapes
<1>2. PICK last \in RowsOf(t) : rows[last] = lastState[t] /\ \A j \in RowsOf(t) : j <= last
  BY <1>1 DEF Inv, GraphInv
<1>3. PICK old \in graphs[t].nodes : IsPath(graphs[t], t, States(old))
  BY <1>1 DEF Inv, GraphInv
<1>4. \A k \in RowsOf(t) : States(old)[k] = rows[k] /\ q[k] = rows[k]
  BY <1>1, RowsBefore DEF Inv, GraphInv, States, RowsOf
<1>5. q[n] = id
  BY <1>1, RowsBefore DEF States, Recorded
<1>6. /\ RowsOf(t)' = RowsOf(t) \cup {n}
      /\ Steps(t)' = Steps(t) \cup {<<last, n>>}
      /\ <<last, n>> \notin Steps(t)
      /\ IsFiniteSet(Steps(t))
  BY <1>1, <1>2, RowsOfAfter, StepsAfter
<1>7. /\ graphs'[t].nodes = graphs[t].nodes \cup {id}
      /\ graphs'[t].edges = graphs[t].edges (+) SetToBag({<<lastState[t], id>>})
  BY <1>1 DEF Recorded, GraphStep
<1>8. graphs'[t].nodes = {q[k] : k \in RowsOf(t)'}
  BY <1>3, <1>4, <1>5, <1>6, <1>7 DEF IsPath
<1>9. graphs[t].edges = Passed(q, Steps(t))
  BY <1>3, <1>4, SameSteps DEF IsPath, Steps
<1>10. graphs'[t].edges = Passed(q, Steps(t)')
  <2> HIDE DEF q, n
  <2> DEFINE S == Steps(t)
             d == <<last, n>>
  <2>1. Passed(q, S \cup {d}) = Passed(q, S) (+) SetToBag({<<q[last], q[n]>>})
    <3>1. d \notin S /\ IsFiniteSet(S)
      BY <1>6
    <3>2. d[1] = last /\ d[2] = n
      OBVIOUS
    <3> HIDE DEF S, d
    <3> QED
      BY <3>1, <3>2, OneMoreStep
  <2>2. <<q[last], q[n]>> = <<lastState[t], id>>
    BY <1>2, <1>4, <1>5
  <2> QED
    BY <1>6, <1>7, <1>9, <2>1, <2>2
<1> QED
  BY <1>8, <1>10 DEF IsPath

\* A row and its step keep every thread's graph the path of its rows.
LEMMA RecordedGraph ==
  ASSUME Inv, NEW t \in Threads, NEW row, NEW id, Recorded(t, row, id)
  PROVE  GraphInv'
<1>1. /\ rows \in Seq(Labels) /\ row \in Labels /\ row.thread = t /\ rows' = Append(rows, row)
      /\ id \in Labels /\ id.thread = t
      /\ t \in DOMAIN graphs \ ended /\ ended \subseteq ended'
  BY DEF Recorded, Running, Inv, Shapes
<1>2. /\ DOMAIN graphs' = DOMAIN graphs
      /\ graphs'[t].nodes = graphs[t].nodes \cup {id}
      /\ lastState'[t] = id
      /\ \A u \in DOMAIN graphs : u # t => graphs'[u] = graphs[u] /\ lastState'[u] = lastState[u]
      /\ ended' \ ended \subseteq {t}
  BY <1>1 DEF Recorded, GraphStep, Inv, Shapes
<1>3. \A u : u # t => RowsOf(u)' = RowsOf(u)
  BY <1>1, RowsOfAfter
<1>4. \A u : \A k \in RowsOf(u) : k \in 1 .. Len(rows) /\ rows'[k] = rows[k]
  BY <1>1, RowsBefore DEF RowsOf
<1>5. /\ RowsOf(t)' = RowsOf(t) \cup {Len(rows) + 1}
      /\ rows'[Len(rows) + 1] = row /\ Len(rows) \in Nat
  BY <1>1, RowsOfAfter, RowsBefore
<1>6. \A u \in Threads \ DOMAIN graphs' : RowsOf(u)' = {}
  BY <1>1, <1>2, <1>3 DEF Inv, GraphInv
<1>7. ASSUME NEW u \in DOMAIN graphs, u # t
      PROVE  /\ graphs'[u].nodes \subseteq {l \in Labels : l.thread = u}
             /\ lastState'[u] \in graphs'[u].nodes
             /\ \E i \in graphs'[u].nodes : IsPath(graphs[u], u, States(i))'
             /\ u \in ended' <=> \E k \in RowsOf(u)' : rows'[k].op = "THREADEND"
             /\ u \notin ended' => \E k \in RowsOf(u)' : /\ rows'[k] = lastState'[u]
                                                         /\ \A j \in RowsOf(u)' : j <= k
  <2>1. PICK i \in graphs[u].nodes : IsPath(graphs[u], u, States(i))
    BY <1>7 DEF Inv, GraphInv
  <2>2. IsPath(graphs[u], u, States(i))' 
    <3>1. PICK g : g = graphs[u]
      OBVIOUS
    <3>2. IsPath(g, u, States(i))'
      BY <1>1, <1>7, <2>1, <3>1, PathStays
    <3>3. graphs'[u] = g
      BY <1>2, <1>7, <3>1
    <3> QED
      BY <3>2, <3>3 DEF IsPath
  <2>3. RowsOf(u)' = RowsOf(u) /\ graphs'[u] = graphs[u] /\ lastState'[u] = lastState[u]
    BY <1>2, <1>3, <1>7
  <2>4. u \in ended' <=> \E k \in RowsOf(u)' : rows'[k].op = "THREADEND"
    <3>1. u \in ended' <=> u \in ended
      BY <1>1, <1>2, <1>7
    <3>2. u \in ended <=> \E k \in RowsOf(u) : rows[k].op = "THREADEND"
      BY DEF Inv, GraphInv
    <3> QED
      BY <1>4, <2>3, <3>1, <3>2
  <2>5. u \notin ended' => \E k \in RowsOf(u)' : /\ rows'[k] = lastState'[u]
                                                /\ \A j \in RowsOf(u)' : j <= k
    BY <1>1, <1>4, <2>3 DEF Inv, GraphInv
  <2>6. /\ graphs'[u].nodes \subseteq {l \in Labels : l.thread = u}
        /\ lastState'[u] \in graphs'[u].nodes
        /\ \E j \in graphs'[u].nodes : IsPath(graphs[u], u, States(j))'
    BY <2>1, <2>2, <2>3 DEF Inv, GraphInv
  <2> QED
    BY <2>4, <2>5, <2>6
<1>8. /\ graphs'[t].nodes \subseteq {l \in Labels : l.thread = t}
      /\ lastState'[t] \in graphs'[t].nodes
      /\ \E i \in graphs'[t].nodes : IsPath(graphs[t], t, States(i))'
  BY <1>1, <1>2, PathGrows DEF Inv, GraphInv
<1>9. t \in ended' <=> \E k \in RowsOf(t)' : rows'[k].op = "THREADEND"
  BY <1>1, <1>4, <1>5 DEF Inv, GraphInv, Recorded
<1>10. t \notin ended' => \E k \in RowsOf(t)' : /\ rows'[k] = lastState'[t]
                                                /\ \A j \in RowsOf(t)' : j <= k
  BY <1>2, <1>4, <1>5 DEF Recorded
<1> QED
  BY <1>2, <1>6, <1>7, <1>8, <1>9, <1>10 DEF GraphInv

\* The end of graph_create makes a path of one row and leaves the others alone.
LEMMA CreatedGraph ==
  ASSUME Inv, NEW t \in Threads, Created(t)
  PROVE  /\ GraphInv'
         /\ \E row \in Labels : rows' = Append(rows, row) /\ row.op \notin AccessOps
         /\ t \notin DOMAIN graphs /\ DOMAIN graphs' = DOMAIN graphs \cup {t}
         /\ \A u \in DOMAIN graphs : graphs'[u] = graphs[u]
<1> DEFINE row == Label("THREADSTART", t, None, 0)
           n == Len(rows) + 1
<1>1. /\ rows \in Seq(Labels) /\ rows' = Append(rows, row)
      /\ row \in Labels /\ row.thread = t /\ row.op = "THREADSTART" /\ row.op \notin AccessOps
  BY DEF Created, Inv, Shapes, Label, Labels, ThreadOps, AccessOps
<1>2. t \notin DOMAIN graphs /\ ended' = ended /\ ended \subseteq DOMAIN graphs
  BY InterleavingsAssumption DEF Created, Inv, Shapes
<1>3. /\ DOMAIN graphs' = DOMAIN graphs \cup {t}
      /\ graphs'[t] = [nodes |-> {row}, edges |-> EmptyBag]
      /\ lastState'[t] = row
      /\ \A u \in DOMAIN graphs : graphs'[u] = graphs[u] /\ lastState'[u] = lastState[u]
  BY <1>2 DEF Created, Put, EmptyGraph, Inv, Shapes
<1>4. /\ \A u : u # t => RowsOf(u)' = RowsOf(u)
      /\ RowsOf(t)' = {n} /\ n \in Nat
      /\ \A u : \A k \in RowsOf(u) : k \in 1 .. Len(rows) /\ rows'[k] = rows[k]
      /\ rows'[n] = row
  <2>1. RowsOf(t) = {}
    BY <1>2 DEF Inv, GraphInv
  <2> QED
    BY <1>1, <2>1, RowsOfAfter, RowsBefore DEF RowsOf
<1>5. IsPath(graphs[t], t, States(row))'
  <2> DEFINE q == States(row)'
  <2>1. q[n] = row
    BY <1>1, RowsBefore DEF States
  <2>2. Steps(t)' = {}
    BY <1>4 DEF Steps
  <2> HIDE DEF q
  <2>3. Passed(q, {}) = EmptyBag
    BY DEF Passed, EmptyBag, SetToBag
  <2>4. Passed(q, Steps(t)') = EmptyBag
    BY <2>2, <2>3
  <2>5. {q[k] : k \in RowsOf(t)'} = {row}
    BY <1>4, <2>1
  <2> QED
    BY <1>3, <2>4, <2>5 DEF IsPath, q
<1>6. ASSUME NEW u \in DOMAIN graphs
      PROVE  /\ graphs'[u].nodes \subseteq {l \in Labels : l.thread = u}
             /\ lastState'[u] \in graphs'[u].nodes
             /\ \E i \in graphs'[u].nodes : IsPath(graphs[u], u, States(i))'
             /\ u \in ended' <=> \E k \in RowsOf(u)' : rows'[k].op = "THREADEND"
             /\ u \notin ended' => \E k \in RowsOf(u)' : /\ rows'[k] = lastState'[u]
                                                         /\ \A j \in RowsOf(u)' : j <= k
  <2>1. PICK i \in graphs[u].nodes : IsPath(graphs[u], u, States(i))
    BY DEF Inv, GraphInv
  <2>2. IsPath(graphs[u], u, States(i))'
    <3>1. PICK g : g = graphs[u]
      OBVIOUS
    <3>2. IsPath(g, u, States(i))'
      BY <1>1, <1>2, <2>1, <3>1, PathStays
    <3>3. graphs'[u] = g
      BY <1>3, <3>1
    <3> QED
      BY <3>2, <3>3 DEF IsPath
  <2>3. RowsOf(u)' = RowsOf(u) /\ graphs'[u] = graphs[u] /\ lastState'[u] = lastState[u]
    BY <1>2, <1>3, <1>4
  <2> QED
    BY <1>2, <1>4, <2>1, <2>2, <2>3 DEF Inv, GraphInv
<1>7. \A u \in Threads \ DOMAIN graphs' : RowsOf(u)' = {}
  BY <1>3, <1>4 DEF Inv, GraphInv
<1>8. GraphInv'
  <2>1. /\ graphs'[t].nodes \subseteq {l \in Labels : l.thread = t}
        /\ lastState'[t] \in graphs'[t].nodes
        /\ \E i \in graphs'[t].nodes : IsPath(graphs[t], t, States(i))'
    BY <1>1, <1>3, <1>5
  <2>2. \A k \in RowsOf(t)' : rows'[k].op # "THREADEND"
    BY <1>1, <1>4
  <2>3. \E k \in RowsOf(t)' : rows'[k] = lastState'[t] /\ \A j \in RowsOf(t)' : j <= k
    BY <1>3, <1>4
  <2>4. ASSUME NEW u \in DOMAIN graphs'
        PROVE  /\ graphs'[u].nodes \subseteq {l \in Labels : l.thread = u}
               /\ lastState'[u] \in graphs'[u].nodes
               /\ \E i \in graphs'[u].nodes : IsPath(graphs[u], u, States(i))'
               /\ u \in ended' <=> \E k \in RowsOf(u)' : rows'[k].op = "THREADEND"
               /\ u \notin ended' => \E k \in RowsOf(u)' : /\ rows'[k] = lastState'[u]
                                                           /\ \A j \in RowsOf(u)' : j <= k
    <3>1. CASE u = t
      <4>1. u \notin ended'
        BY <1>2, <3>1
      <4> QED
        BY <2>1, <2>2, <2>3, <3>1, <4>1
    <3>2. CASE u \in DOMAIN graphs
      BY <1>6, <3>2
    <3> QED
      BY <1>3, <3>1, <3>2
  <2> QED
    BY <1>7, <2>4 DEF GraphInv
<1> QED
  BY <1>1, <1>2, <1>3, <1>8

-----------------------------------------------------------------------------
(* The table and the lists. *)

\* What is said of rows so far stays true.
LEMMA SaidStays ==
  ASSUME rows \in Seq(Labels), NEW row \in Labels, rows' = Append(rows, row),
         NEW e, IsRow(e), NEW s, NEW last \in Nat, last <= Len(rows), Stands(e, s, last)
  PROVE  IsRow(e)' /\ Stands(e, s, last)' /\ (\A k \in DOMAIN rows : InSlot(k, s)' <=> InSlot(k, s))
<1>1. IsRow(e)'
  BY RowsBefore DEF IsRow
<1>2. \A k \in DOMAIN rows : (InSlot(k, s)' <=> InSlot(k, s)) /\ rows'[k] = rows[k]
  BY RowsBefore DEF InSlot
<1>3. \A k \in e.ts + 1 .. last : k \in DOMAIN rows
  BY RowsBefore DEF IsRow
<1> QED
  BY <1>1, <1>2, <1>3 DEF Stands

\* The lists stay true when they are not appended to.
LEMMA ListStays ==
  ASSUME Inv, NEW row \in Labels, rows' = Append(rows, row),
         \A id : IsNode(id) => IsNode(id)', UNCHANGED <<idioms, interleavings>>
  PROVE  ListInv'
<1>1. ASSUME NEW n \in DOMAIN idioms, NEW e, NEW l, e = interleavings[n][1], l = interleavings[n][2]
      PROVE  /\ idioms[n] = <<e.row, l.row>>
             /\ IsNode(e.row)' /\ IsNode(l.row)'
             /\ IsRow(e)' /\ IsRow(l)' /\ e.ts < l.ts
             /\ e.row.thread # l.row.thread
             /\ "WRITE" \in {e.row.op, l.row.op}
             /\ Slot[e.row.addr] = Slot[l.row.addr]
             /\ Stands(e, Slot[l.row.addr], l.ts - 1)'
  <2>1. /\ idioms[n] = <<e.row, l.row>>
        /\ IsNode(e.row) /\ IsNode(l.row)
        /\ IsRow(e) /\ IsRow(l) /\ e.ts < l.ts
        /\ e.row.thread # l.row.thread
        /\ "WRITE" \in {e.row.op, l.row.op}
        /\ Slot[e.row.addr] = Slot[l.row.addr]
        /\ Stands(e, Slot[l.row.addr], l.ts - 1)
    BY <1>1 DEF Inv, ListInv
  <2>2. rows \in Seq(Labels)
    BY DEF Inv, Shapes
  <2>3. l.ts - 1 \in Nat /\ l.ts - 1 <= Len(rows)
    BY <2>1, <2>2, RowsBefore DEF IsRow
  <2>4. IsRow(l)'
    BY <2>1, <2>2, RowsBefore DEF IsRow
  <2> QED
    BY <2>1, <2>2, <2>3, <2>4, SaidStays
<1> QED
  BY <1>1 DEF Inv, ListInv

\* A row elsewhere, of the entry's thread, or a read after reads leaves the entry
\* standing.
LEMMA EntryStays ==
  ASSUME Inv, NEW row \in Labels, rows' = Append(rows, row),
         \A id : IsNode(id) => IsNode(id)',
         NEW s \in DOMAIN table, table'[s] = table[s], table[s] # None,
         row.op \in AccessOps /\ Slot[row.addr] = s =>
             \/ row.thread = table[s].row.thread
             \/ row.op = "READ" /\ table[s].row.op = "READ"
  PROVE  /\ IsRow(table[s])' /\ InSlot(table[s].ts, s)'
         /\ IsNode(table[s].row)'
         /\ Stands(table[s], s, Len(rows))'
<1> DEFINE e == table[s]
<1>1. /\ rows \in Seq(Labels) /\ Len(rows) \in Nat
      /\ IsRow(e) /\ InSlot(e.ts, s) /\ IsNode(e.row) /\ Stands(e, s, Len(rows))
  BY DEF Inv, Shapes, EntryInv
<1>2. PICK f : f = e
  OBVIOUS
<1>3. IsRow(f)' /\ Stands(f, s, Len(rows)) /\ InSlot(f.ts, s)'
  BY <1>1, <1>2, SaidStays DEF IsRow
<1>4. \A k \in f.ts + 1 .. Len(rows) + 1 :
          InSlot(k, s)' => \/ rows'[k].thread = f.row.thread
                           \/ rows'[k].op = "READ" /\ f.row.op = "READ"
  <2> SUFFICES ASSUME NEW k \in f.ts + 1 .. Len(rows) + 1, InSlot(k, s)'
               PROVE  \/ rows'[k].thread = f.row.thread
                      \/ rows'[k].op = "READ" /\ f.row.op = "READ"
    OBVIOUS
  <2>1. f.ts \in Nat
    BY <1>1, <1>2 DEF IsRow, Noted
  <2>2. CASE k = Len(rows) + 1
    BY <1>1, <1>2, <2>2, RowsBefore DEF InSlot
  <2>3. CASE k \in f.ts + 1 .. Len(rows)
    BY <1>1, <1>2, <2>1, <2>3, RowsBefore DEF InSlot, Stands
  <2> QED
    BY <1>1, <2>1, <2>2, <2>3
<1>5. Len(rows') = Len(rows) + 1
  BY <1>1, RowsBefore
<1>6. table'[s] = f
  BY <1>2
<1>7. IsNode(f.row)'
  BY <1>1, <1>2
<1> QED
  BY <1>3, <1>4, <1>5, <1>6, <1>7 DEF IsRow, InSlot, IsNode, Stands

\* A row that is no access leaves the table and the lists true.
LEMMA TableStays ==
  ASSUME Inv, NEW row \in Labels, rows' = Append(rows, row), row.op \notin AccessOps,
         \A id : IsNode(id) => IsNode(id)', UNCHANGED tableVars
  PROVE  EntryInv' /\ WriterInv' /\ ListInv'
<1>1. EntryInv'
  BY EntryStays DEF EntryInv, tableVars
<1>2. WriterInv'
  <2>1. rows \in Seq(Labels)
    BY DEF Inv, Shapes
  <2> SUFFICES ASSUME NEW j \in DOMAIN rows', NEW s, s = Slot[rows'[j].addr],
                      rows'[j].op = "WRITE", \A k \in j + 1 .. Len(rows') : ~InSlot(k, s)'
               PROVE  table[s] # None /\ table[s].row.thread = rows'[j].thread
    BY DEF WriterInv, tableVars
  <2>2. j \in DOMAIN rows /\ rows'[j] = rows[j]
    BY <2>1, RowsBefore DEF AccessOps
  <2>3. \A k \in j + 1 .. Len(rows) : ~InSlot(k, s)
    BY <2>1, <2>2, RowsBefore DEF InSlot
  <2> QED
    BY <2>2, <2>3 DEF Inv, WriterInv
<1>3. ListInv'
  BY ListStays DEF tableVars
<1> QED
  BY <1>1, <1>2, <1>3

\* An access becomes the entry of its slot or the entry keeps standing for it.
LEMMA AccessTable ==
  ASSUME Inv, NEW row \in Labels, rows' = Append(rows, row), row.op \in AccessOps,
         \A id : IsNode(id) => IsNode(id)', IsNode(row)',
         NEW s, s = Slot[row.addr], s \in DOMAIN table,
         NEW n, n = [row |-> row, ts |-> Len(rows) + 1],
         \/ table' = [table EXCEPT ![s] = n]
         \/ /\ UNCHANGED table
            /\ table[s] # None
            /\ \/ row.thread = table[s].row.thread
               \/ row.op = "READ" /\ table[s].row.op = "READ"
  PROVE  EntryInv' /\ WriterInv'
<1>1. rows \in Seq(Labels) /\ Len(rows) \in Nat /\ n \in Noted
  BY DEF Inv, Shapes, Noted
<1>2. /\ DOMAIN table' = DOMAIN table
      /\ \A r \in DOMAIN table : r # s => table'[r] = table[r]
      /\ \/ table'[s] = n
         \/ /\ table'[s] = table[s] /\ table[s] # None
            /\ \/ row.thread = table[s].row.thread
               \/ row.op = "READ" /\ table[s].row.op = "READ"
  OBVIOUS
<1>3. IsRow(n)' /\ InSlot(n.ts, s)' /\ Stands(n, s, Len(rows))'
  BY <1>1, RowsBefore DEF IsRow, InSlot, Stands
<1>4. ASSUME NEW r \in DOMAIN table', table'[r] # None
      PROVE  /\ IsRow(table[r])' /\ InSlot(table[r].ts, r)'
             /\ IsNode(table[r].row)'
             /\ Stands(table[r], r, Len(rows))'
  <2>1. CASE table'[r] = n /\ r = s
    BY <1>3, <2>1 DEF IsRow, InSlot, Stands, IsNode
  <2>2. CASE r # s \/ table'[r] # n
    BY <1>2, <1>4, <2>2, EntryStays
  <2> QED
    BY <2>1, <2>2
<1>5. EntryInv'
  BY <1>4 DEF EntryInv
<1>6. WriterInv'
  <2> SUFFICES ASSUME NEW j \in DOMAIN rows', NEW r, r = Slot[rows'[j].addr],
                      rows'[j].op = "WRITE", \A k \in j + 1 .. Len(rows') : ~InSlot(k, r)'
               PROVE  table'[r] # None /\ table'[r].row.thread = rows'[j].thread
    BY DEF WriterInv
  <2>1. CASE j = Len(rows) + 1
    <3>1. r = s /\ rows'[j] = row
      BY <1>1, <2>1, RowsBefore
    <3>2. n # None
      BY <1>1, InterleavingsAssumption
    <3> QED
      BY <1>2, <2>1, <3>1, <3>2
  <2>2. CASE j # Len(rows) + 1
    <3>1. j \in DOMAIN rows /\ rows'[j] = rows[j]
      BY <1>1, <2>2, RowsBefore
    <3>2. r # s
      <4>1. PICK k : k = Len(rows) + 1
        OBVIOUS
      <4>2. k \in j + 1 .. Len(rows')
        BY <1>1, <3>1, <4>1, RowsBefore
      <4>3. InSlot(k, s)'
        BY <1>1, <4>1, RowsBefore DEF InSlot
      <4> QED
        BY <4>2, <4>3
    <3>3. \A k \in j + 1 .. Len(rows) : ~InSlot(k, r)
      BY <1>1, <3>1, RowsBefore DEF InSlot
    <3>4. table[r] # None /\ table[r].row.thread = rows[j].thread
      BY <3>1, <3>3 DEF Inv, WriterInv
    <3>5. r \in DOMAIN table
      <4>1. rows[j].addr \in Addresses
        BY <1>1, <3>1, AccessAddress DEF AccessOps
      <4> QED
        BY <3>1, <4>1 DEF Inv, Shapes
    <3> QED
      BY <1>2, <3>1, <3>2, <3>4, <3>5
  <2> QED
    BY <2>1, <2>2
<1> QED
  BY <1>5, <1>6

\* A pair that follows on the lists.
LEMMA FollowLists ==
  ASSUME Inv, NEW row \in Labels, rows' = Append(rows, row), row.op \in AccessOps,
         \A id : IsNode(id) => IsNode(id)', IsNode(row)',
         NEW s, s = Slot[row.addr], s \in DOMAIN table,
         NEW n, n = [row |-> row, ts |-> Len(rows) + 1],
         NEW e, e = table[s], e # None, e.row.thread # row.thread,
         "WRITE" \in {e.row.op, row.op},
         idioms' = Append(idioms, <<e.row, row>>),
         interleavings' = Append(interleavings, <<e, n>>),
         <<e.row, row>> \notin ToSet(idioms)
  PROVE  ListInv'
<1>1. /\ rows \in Seq(Labels) /\ Len(rows) \in Nat
      /\ idioms \in Seq(Labels \X Labels) /\ interleavings \in Seq(Noted \X Noted)
      /\ Len(idioms) = Len(interleavings) /\ IsInjective(idioms)
  BY SMTT(30) DEF Inv, Shapes, ListInv
<1>2. /\ IsRow(e) /\ InSlot(e.ts, s) /\ IsNode(e.row) /\ Stands(e, s, Len(rows))
      /\ e \in Noted /\ n \in Noted /\ e.row \in Labels
  BY <1>1 DEF Inv, EntryInv, IsRow, Noted
<1>3. /\ DOMAIN idioms = 1 .. Len(idioms) /\ Len(idioms) \in Nat
      /\ DOMAIN interleavings = 1 .. Len(idioms)
      /\ Len(idioms') = Len(idioms) + 1 /\ DOMAIN idioms' = 1 .. Len(idioms) + 1
      /\ \A k \in 1 .. Len(idioms) : /\ idioms'[k] = idioms[k]
                                     /\ interleavings'[k] = interleavings[k]
      /\ idioms'[Len(idioms) + 1] = <<e.row, row>>
      /\ interleavings'[Len(idioms) + 1] = <<e, n>>
      /\ Len(interleavings') = Len(idioms) + 1
  BY <1>1, <1>2
<1>4. IsInjective(idioms')
  <2>1. \A k \in 1 .. Len(idioms) : idioms[k] # <<e.row, row>>
    BY <1>3 DEF ToSet
  <2>2. \A k, l \in 1 .. Len(idioms) : idioms[k] = idioms[l] => k = l
    BY <1>1, <1>3 DEF IsInjective
  <2> SUFFICES ASSUME NEW k \in DOMAIN idioms', NEW l \in DOMAIN idioms', idioms'[k] = idioms'[l]
               PROVE  k = l
    BY DEF IsInjective
  <2>3. CASE k \in 1 .. Len(idioms) /\ l \in 1 .. Len(idioms)
    BY <1>3, <2>2, <2>3
  <2>4. CASE k = Len(idioms) + 1 /\ l \in 1 .. Len(idioms)
    BY <1>3, <2>1, <2>4
  <2>5. CASE l = Len(idioms) + 1 /\ k \in 1 .. Len(idioms)
    BY <1>3, <2>1, <2>5
  <2>6. \A m \in DOMAIN idioms' : m \in 1 .. Len(idioms) \/ m = Len(idioms) + 1
    BY <1>3
  <2> QED
    BY <2>3, <2>4, <2>5, <2>6
<1>5. ASSUME NEW k \in DOMAIN idioms', NEW c, NEW l,
             c = interleavings'[k][1], l = interleavings'[k][2]
      PROVE  /\ idioms'[k] = <<c.row, l.row>>
             /\ IsNode(c.row)' /\ IsNode(l.row)'
             /\ IsRow(c)' /\ IsRow(l)' /\ c.ts < l.ts
             /\ c.row.thread # l.row.thread
             /\ "WRITE" \in {c.row.op, l.row.op}
             /\ Slot[c.row.addr] = Slot[l.row.addr]
             /\ Stands(c, Slot[l.row.addr], l.ts - 1)'
  <2>1. CASE k = Len(idioms) + 1
    <3>1. c = e /\ l = n /\ idioms'[k] = <<c.row, l.row>>
      BY <1>3, <1>5, <2>1
    <3>2. IsRow(c)' /\ Stands(c, s, l.ts - 1)'
      BY <1>1, <1>2, <3>1, SaidStays
    <3>3. IsRow(l)'
      BY <1>1, <1>2, <3>1, RowsBefore DEF IsRow
    <3>4. c.ts < l.ts /\ Slot[c.row.addr] = s
      BY <1>1, <1>2, <3>1, RowsBefore DEF IsRow, InSlot
    <3> QED
      BY <1>2, <3>1, <3>2, <3>3, <3>4
  <2>2. CASE k \in DOMAIN idioms
    <3>1. c = interleavings[k][1] /\ l = interleavings[k][2] /\ idioms'[k] = idioms[k]
      BY <1>3, <1>5, <2>2
    <3>2. /\ idioms[k] = <<c.row, l.row>>
          /\ IsNode(c.row) /\ IsNode(l.row)
          /\ IsRow(c) /\ IsRow(l) /\ c.ts < l.ts
          /\ c.row.thread # l.row.thread
          /\ "WRITE" \in {c.row.op, l.row.op}
          /\ Slot[c.row.addr] = Slot[l.row.addr]
          /\ Stands(c, Slot[l.row.addr], l.ts - 1)
      BY <2>2, <3>1 DEF Inv, ListInv
    <3>3. l.ts - 1 \in Nat /\ l.ts - 1 <= Len(rows)
      BY <1>1, <3>2, RowsBefore DEF IsRow
    <3>4. IsRow(l)'
      BY <1>1, <3>2, RowsBefore DEF IsRow
    <3> QED
      BY <1>1, <3>1, <3>2, <3>3, <3>4, SaidStays
  <2> QED
    BY <1>3, <2>1, <2>2
<1> QED
  BY <1>3, <1>4, <1>5, ZenonT(30) DEF ListInv

-----------------------------------------------------------------------------
(* The steps. *)

\* With no rows there is nothing to be said.
LEMMA InitInv == Init => Inv
<1> SUFFICES ASSUME Init PROVE Inv
  OBVIOUS
<1>1. Shapes
  BY DEF Init, Shapes
<1>2. GraphInv
  BY DEF Init, GraphInv, RowsOf
<1>3. EntryInv /\ WriterInv
  BY DEF Init, EntryInv, WriterInv
<1>4. ListInv
  BY DEF Init, ListInv, IsInjective
<1> QED
  BY <1>1, <1>2, <1>3, <1>4 DEF Inv

\* Nodes stay nodes, and the new state is one.
LEMMA NodesStay ==
  ASSUME Inv, NEW t \in Threads, NEW row, NEW id, Recorded(t, row, id)
  PROVE  (\A i : IsNode(i) => IsNode(i)') /\ IsNode(id)'
  BY DEF Recorded, Running, GraphStep, IsNode

\* The types after a row.
LEMMA RecordedShapes ==
  ASSUME Inv, NEW t \in Threads, NEW row, NEW id, Recorded(t, row, id)
  PROVE  /\ rows' \in Seq(Labels)
         /\ DOMAIN graphs' \subseteq Threads /\ DOMAIN lastState' = Threads
         /\ inserting' \in {None} \cup (Threads \ DOMAIN graphs')
         /\ ended' \subseteq DOMAIN graphs'
         /\ raced' \subseteq DOMAIN saved' /\ DOMAIN saved' \subseteq ended'
<1>1. rows' \in Seq(Labels)
  BY RowsBefore DEF Recorded, Inv, Shapes
<1>2. DOMAIN graphs' = DOMAIN graphs /\ DOMAIN lastState' = DOMAIN lastState /\ t \in DOMAIN graphs
  BY DEF Recorded, Running, GraphStep
<1> QED
  BY <1>1, <1>2 DEF Recorded, Inv, Shapes

\* The rows of locks and of a thread's end.
LEMMA OtherRowInv ==
  ASSUME Inv, NEW t \in Threads, ThreadFini(t) \/ \E o \in Others : LockRow(t, o)
  PROVE  Inv'
<1>1. PICK row, id \in Labels : Recorded(t, row, id)
  BY Records
<1>2. row.op \notin AccessOps
  <2>1. rows' = Append(rows, row) /\ rows \in Seq(Labels)
    BY <1>1 DEF Recorded, Inv, Shapes
  <2>2. rows'[Len(rows) + 1] = row
    BY <2>1, RowsBefore
  <2>3. CASE ThreadFini(t)
    BY <2>1, <2>2, <2>3 DEF ThreadFini, Label, AccessOps
  <2>4. CASE \E o \in Others : LockRow(t, o)
    BY <2>1, <2>2, <2>4, InterleavingsAssumption DEF LockRow, Label, AccessOps, LockOps
  <2> QED
    BY <2>3, <2>4
<1>3. UNCHANGED tableVars
  BY DEF ThreadFini, LockRow
<1>4. Shapes'
  BY <1>1, <1>3, RecordedShapes DEF Inv, Shapes, tableVars
<1>5. GraphInv'
  BY <1>1, RecordedGraph
<1>6. EntryInv' /\ WriterInv' /\ ListInv'
  BY <1>1, <1>2, <1>3, NodesStay, TableStays DEF Recorded
<1> QED
  BY <1>4, <1>5, <1>6 DEF Inv

\* ThreadStart keeps the invariant.
LEMMA CreatedInv ==
  ASSUME Inv, NEW t \in Threads, Created(t)
  PROVE  Inv'
<1>1. PICK row \in Labels : rows' = Append(rows, row) /\ row.op \notin AccessOps
  BY CreatedGraph
<1>2. /\ GraphInv'
      /\ t \notin DOMAIN graphs /\ DOMAIN graphs' = DOMAIN graphs \cup {t}
      /\ \A u \in DOMAIN graphs : graphs'[u] = graphs[u]
  BY CreatedGraph
<1>3. \A id : IsNode(id) => IsNode(id)'
  BY <1>2 DEF IsNode
<1>4. EntryInv' /\ WriterInv' /\ ListInv'
  BY <1>1, <1>3, TableStays DEF Created
<1>5. Shapes'
  BY <1>1, <1>2, RowsBefore DEF Created, tableVars, Inv, Shapes
<1> QED
  BY <1>2, <1>4, <1>5 DEF Inv

\* GraphInv speaks of rows, graphs, states and ends only.
LEMMA GraphStays ==
  ASSUME Inv, UNCHANGED <<rows, graphs, lastState, ended>>
  PROVE  GraphInv'
<1>1. \A u : RowsOf(u)' = RowsOf(u)
  BY DEF RowsOf
<1>2. \A u : Steps(u)' = Steps(u)
  BY <1>1 DEF Steps
<1>3. \A id : States(id)' = States(id)
  BY DEF States
<1>4. ASSUME NEW u, NEW id, IsPath(graphs[u], u, States(id))
      PROVE  IsPath(graphs[u], u, States(id))'
  BY <1>1, <1>2, <1>3, <1>4 DEF IsPath
<1> QED
  BY <1>1, <1>4 DEF Inv, GraphInv

\* Nothing the invariant speaks of but the files and inserting changes.
LEMMA QuietInv ==
  ASSUME Inv, NEW t \in Threads, ThreadStart(t) \/ SaveGraph(t)
  PROVE  Inv'
<1>1. UNCHANGED <<rows, graphVars, tableVars, ended>>
  BY DEF ThreadStart, SaveGraph
<1>2. Shapes'
  BY <1>1 DEF ThreadStart, SaveGraph, Put, graphVars, tableVars, Inv, Shapes
<1>3. GraphInv'
  BY <1>1, GraphStays DEF graphVars
<1>4. EntryInv' /\ WriterInv' /\ ListInv'
  BY <1>1, SMTT(30) DEF graphVars, tableVars, Inv, EntryInv, WriterInv, ListInv, InSlot, IsRow, IsNode, Stands
<1> QED
  BY <1>2, <1>3, <1>4 DEF Inv

\* A read or a write keeps the invariant, whatever it does to the table.
LEMMA RecordMemInv ==
  ASSUME Inv, NEW t \in Threads, NEW a \in Accesses, RecordMem(t, a)
  PROVE  Inv'
<1>1. PICK row, s, e, n : /\ row = Label(a.op, t, a.addr, a.ipc)
                          /\ s = Slot[a.addr] /\ e = table[s]
                          /\ n = [row |-> row, ts |-> Len(rows) + 1]
  OBVIOUS
<1>2. /\ rows \in Seq(Labels) /\ rows' = Append(rows, row)
      /\ row \in Labels /\ row.thread = t /\ row.op = a.op /\ row.addr = a.addr
      /\ a.op \in {"READ", "WRITE"} /\ row.op \in AccessOps
      /\ s \in DOMAIN table /\ s = Slot[row.addr]
      /\ n \in Noted /\ n.row = row
      /\ GraphStep(t, row)
  BY <1>1, InterleavingsAssumption DEF RecordMem, Inv, Shapes, Label, Labels, Noted, AccessOps
<1>3. Recorded(t, row, row)
  BY <1>2 DEF RecordMem, Recorded, endVars, AccessOps
<1>4. GraphInv' /\ (\A i : IsNode(i) => IsNode(i)') /\ IsNode(row)'
  BY <1>3, RecordedGraph, NodesStay
<1>5. \/ /\ UNCHANGED tableVars /\ e # None
         /\ row.thread = e.row.thread \/ (row.op = "READ" /\ e.row.op = "READ")
      \/ Fill(n)
      \/ /\ Follow(e, n) /\ e # None
         /\ e.row.thread # row.thread /\ "WRITE" \in {e.row.op, row.op}
  <2>1. IF a.op = "READ" THEN ReadTakes(e, n) ELSE WriteTakes(e, n)
    BY <1>1 DEF RecordMem
  <2>2. e # None => e.row.op \in {"READ", "WRITE"}
    BY <1>1, <1>2 DEF Inv, EntryInv, IsRow, Noted, AccessOps
  <2>3. CASE a.op = "READ"
    BY <1>2, <2>1, <2>2, <2>3 DEF ReadTakes
  <2>4. CASE a.op = "WRITE"
    BY <1>2, <2>1, <2>4 DEF WriteTakes
  <2> QED
    BY <1>2, <2>3, <2>4
<1>6. \/ table' = [table EXCEPT ![s] = n]
      \/ /\ UNCHANGED table /\ e # None
         /\ row.thread = e.row.thread \/ (row.op = "READ" /\ e.row.op = "READ")
  BY <1>1, <1>2, <1>5 DEF Fill, Follow, tableVars
<1>7. EntryInv' /\ WriterInv'
  BY <1>1, <1>2, <1>4, <1>6, AccessTable
<1>8. \/ UNCHANGED <<idioms, interleavings>>
      \/ /\ idioms' = Append(idioms, <<e.row, row>>)
         /\ interleavings' = Append(interleavings, <<e, n>>)
         /\ <<e.row, row>> \notin ToSet(idioms)
         /\ e # None
         /\ e.row.thread # row.thread /\ "WRITE" \in {e.row.op, row.op}
  <2>1. CASE UNCHANGED tableVars \/ Fill(n)
    BY <2>1 DEF Fill, tableVars
  <2>2. CASE /\ Follow(e, n) /\ e # None
             /\ e.row.thread # row.thread /\ "WRITE" \in {e.row.op, row.op}
    <3>1. CASE NewIdiom(e, row)
      BY <1>2, <2>2, <3>1 DEF Follow, NewIdiom
    <3>2. CASE ~NewIdiom(e, row)
      BY <1>2, <2>2, <3>2 DEF Follow
    <3> QED
      BY <3>1, <3>2
  <2> QED
    BY <1>5, <2>1, <2>2
<1>9. ListInv'
  <2>1. CASE UNCHANGED <<idioms, interleavings>>
    BY <1>2, <1>4, <2>1, ListStays
  <2>2. CASE ~UNCHANGED <<idioms, interleavings>>
    BY <1>1, <1>2, <1>4, <1>8, <2>2, FollowLists
  <2> QED
    BY <2>1, <2>2
<1>10. idioms' \in Seq(Labels \X Labels) /\ interleavings' \in Seq(Noted \X Noted)
  <2>1. idioms \in Seq(Labels \X Labels) /\ interleavings \in Seq(Noted \X Noted)
    BY DEF Inv, Shapes
  <2>2. CASE UNCHANGED <<idioms, interleavings>>
    BY <2>1, <2>2
  <2>3. CASE idioms' = Append(idioms, <<e.row, row>>) /\ interleavings' = Append(interleavings, <<e, n>>)
             /\ e # None
    <3>1. e \in Noted /\ e.row \in Labels
      BY <1>1, <1>2, <2>3 DEF Inv, EntryInv, IsRow, Noted
    <3>2. <<e.row, row>> \in Labels \X Labels /\ <<e, n>> \in Noted \X Noted
      BY <1>2, <3>1
    <3> QED
      BY <2>1, <2>3, <3>2
  <2> QED
    BY <1>8, <2>2, <2>3
<1>11. Shapes'
  <2>1. DOMAIN table' = DOMAIN table
    BY <1>6
  <2> QED
    BY <1>3, <1>10, <2>1, RecordedShapes DEF Inv, Shapes
<1> QED
  BY <1>4, <1>7, <1>9, <1>11 DEF Inv

\* The invariant is inductive.
LEMMA NextInv == Inv /\ [Next]_vars => Inv'
<1> SUFFICES ASSUME Inv, [Next]_vars PROVE Inv'
  OBVIOUS
<1>1. CASE UNCHANGED vars
  <2>1. UNCHANGED <<rows, graphs, lastState, table, idioms, interleavings, inserting, ended, saved, raced>>
    BY <1>1 DEF vars, graphVars, tableVars, endVars
  <2>2. GraphInv'
    BY <2>1, GraphStays
  <2> QED
    BY <2>1, <2>2, SMTT(30) DEF Inv, Shapes, EntryInv, WriterInv, ListInv, InSlot, IsRow, IsNode, Stands
<1>2. CASE Next
  BY <1>2, OtherRowInv, CreatedInv, QuietInv, RecordMemInv DEF Next
<1> QED
  BY <1>1, <1>2

\* It holds always.
LEMMA AlwaysInv == Spec => []Inv
  BY InitInv, NextInv, PTL DEF Spec

-----------------------------------------------------------------------------
(* What is promised. *)

\* The graphs, the table and the lists of interleavings are well formed.
THEOREM InterleavingsTyped == Spec => []TypeOK
<1>1. Inv => TypeOK
  <2> SUFFICES ASSUME Inv PROVE TypeOK
    OBVIOUS
  <2>1. \A s \in DOMAIN table : table[s] # None =>
           table[s] \in Noted /\ table[s].ts \in DOMAIN rows /\ Slot[table[s].row.addr] = s
    BY DEF Inv, EntryInv, IsRow, InSlot
  <2> QED
    BY <2>1 DEF TypeOK, Inv, Shapes, GraphInv
<1> QED
  BY <1>1, AlwaysInv, PTL

\* Every pair of accesses is on both lists once, at the same place, and is
\* drawn between nodes.
THEOREM EachPairOnce == Spec => []OncePerPair
<1>1. Inv => OncePerPair
  <2> SUFFICES ASSUME Inv PROVE OncePerPair
    OBVIOUS
  <2>1. ASSUME NEW n \in DOMAIN idioms
        PROVE  /\ idioms[n] = <<interleavings[n][1].row, interleavings[n][2].row>>
               /\ IsNode(idioms[n][1]) /\ IsNode(idioms[n][2])
    BY DEF Inv, ListInv
  <2> QED
    BY <2>1 DEF OncePerPair, Inv, ListInv, IsNode
<1> QED
  BY <1>1, AlwaysInv, PTL

\* Every interleaving recorded is in the trace.
THEOREM InterleavingsWitnessed == Spec => []Witnessed
<1>1. Inv => Witnessed
  <2> SUFFICES ASSUME Inv, NEW n \in DOMAIN interleavings, NEW e, NEW l,
                      e = interleavings[n][1], l = interleavings[n][2]
               PROVE  /\ e.ts < l.ts
                      /\ rows[e.ts] = e.row /\ rows[l.ts] = l.row
                      /\ e.row.thread # l.row.thread
                      /\ "WRITE" \in {e.row.op, l.row.op}
                      /\ InSlot(e.ts, Slot[l.row.addr])
                      /\ \A k \in e.ts + 1 .. l.ts - 1 :
                             InSlot(k, Slot[l.row.addr]) =>
                                 \/ rows[k].thread = e.row.thread
                                 \/ rows[k].op = "READ" /\ e.row.op = "READ"
    BY DEF Witnessed, InSlot
  <2>1. n \in DOMAIN idioms
    BY DEF Inv, Shapes, ListInv
  <2>2. /\ IsRow(e) /\ IsRow(l) /\ e.ts < l.ts
        /\ e.row.thread # l.row.thread
        /\ "WRITE" \in {e.row.op, l.row.op}
        /\ Slot[e.row.addr] = Slot[l.row.addr]
        /\ Stands(e, Slot[l.row.addr], l.ts - 1)
    BY <2>1 DEF Inv, ListInv
  <2> QED
    BY <2>2 DEF IsRow, InSlot, Stands, Noted
<1> QED
  BY <1>1, AlwaysInv, PTL

\* Every thread's graph is the path of its rows.
THEOREM GraphsArePaths == Spec => []GraphIsPath
<1>1. Inv => GraphIsPath
  BY DEF GraphIsPath, Inv, GraphInv
<1> QED
  BY <1>1, AlwaysInv, PTL

\* What a step adds to the trace and the list of idioms: the write of another
\* thread than the entry's is on the list after it.
LEMMA NextRow ==
  ASSUME Inv, Next
  PROVE  \/ UNCHANGED <<rows, idioms>>
         \/ \E row \in Labels :
              /\ rows' = Append(rows, row)
              /\ \A n \in DOMAIN idioms : n \in DOMAIN idioms' /\ idioms'[n] = idioms[n]
              /\ row.op = "WRITE" =>
                   LET e == table[Slot[row.addr]]
                   IN e # None /\ e.row.thread # row.thread =>
                        \E n \in DOMAIN idioms' : idioms'[n] = <<e.row, row>>
<1>1. PICK t \in Threads :
        \/ ThreadStart(t) \/ Created(t) \/ ThreadFini(t) \/ SaveGraph(t)
        \/ \E o \in Others : LockRow(t, o)
        \/ \E a \in Accesses : RecordMem(t, a)
  BY DEF Next
<1>2. CASE ThreadStart(t) \/ SaveGraph(t)
  BY <1>2 DEF ThreadStart, SaveGraph, tableVars
<1>3. CASE Created(t)
  <2>1. PICK row \in Labels : rows' = Append(rows, row) /\ row.op \notin AccessOps
    BY <1>3, CreatedGraph
  <2> QED
    BY <1>3, <2>1 DEF Created, tableVars, AccessOps
<1>4. CASE ThreadFini(t) \/ \E o \in Others : LockRow(t, o)
  <2>1. PICK row \in Labels : rows' = Append(rows, row) /\ row.op \notin AccessOps
    <3>1. CASE ThreadFini(t)
      BY <3>1 DEF ThreadFini, Label, Labels, ThreadOps, AccessOps
    <3>2. CASE \E o \in Others : LockRow(t, o)
      BY <3>2, InterleavingsAssumption DEF LockRow, Label, Labels, LockOps, AccessOps
    <3> QED
      BY <1>4, <3>1, <3>2
  <2> QED
    BY <1>4, <2>1 DEF ThreadFini, LockRow, tableVars, AccessOps
<1>5. ASSUME NEW a \in Accesses, RecordMem(t, a)
      PROVE  \E row \in Labels :
              /\ rows' = Append(rows, row)
              /\ \A n \in DOMAIN idioms : n \in DOMAIN idioms' /\ idioms'[n] = idioms[n]
              /\ row.op = "WRITE" =>
                   LET e == table[Slot[row.addr]]
                   IN e # None /\ e.row.thread # row.thread =>
                        \E n \in DOMAIN idioms' : idioms'[n] = <<e.row, row>>
  <2>1. PICK row, e, n : /\ row = Label(a.op, t, a.addr, a.ipc)
                         /\ e = table[Slot[a.addr]]
                         /\ n = [row |-> row, ts |-> Len(rows) + 1]
    OBVIOUS
  <2>2. /\ row \in Labels /\ rows' = Append(rows, row)
        /\ row.op = a.op /\ row.addr = a.addr /\ row.thread = t /\ n.row = row
        /\ Slot[a.addr] \in DOMAIN table
        /\ Recorded(t, row, row)
    BY <1>5, <2>1, InterleavingsAssumption
       DEF RecordMem, Inv, Shapes, Label, Labels, AccessOps, Recorded, endVars
  <2>3. IF a.op = "READ" THEN ReadTakes(e, n) ELSE WriteTakes(e, n)
    BY <1>5, <2>1 DEF RecordMem
  <2>4. UNCHANGED idioms \/ idioms' = Append(idioms, <<e.row, row>>)
    BY <2>2, <2>3 DEF ReadTakes, WriteTakes, Fill, Follow, tableVars
  <2>5. e # None => <<e.row, row>> \in Labels \X Labels
    BY <2>1, <2>2 DEF Inv, EntryInv, IsRow, Noted
  <2>6. idioms \in Seq(Labels \X Labels)
    BY DEF Inv, Shapes
  <2>7. UNCHANGED idioms \/ (idioms' = Append(idioms, <<e.row, row>>) /\ e # None)
    BY <2>2, <2>3 DEF ReadTakes, WriteTakes, Fill, Follow, tableVars
  <2>8. \A k \in DOMAIN idioms : k \in DOMAIN idioms' /\ idioms'[k] = idioms[k]
    BY <2>5, <2>6, <2>7
  <2>9. ASSUME a.op = "WRITE", e # None, e.row.thread # t
        PROVE  \E k \in DOMAIN idioms' : idioms'[k] = <<e.row, row>>
    <3>1. Follow(e, n)
      BY <2>2, <2>3, <2>9 DEF WriteTakes
    <3>2. IsNode(e.row)' /\ IsNode(row)'
      BY <2>1, <2>2, <2>9, NodesStay DEF Inv, EntryInv
    <3>3. CASE NewIdiom(e, row)
      <4>1. idioms' = Append(idioms, <<e.row, row>>)
        BY <2>2, <3>1, <3>3 DEF Follow
      <4> QED
        BY <2>5, <2>6, <2>9, <4>1
    <3>4. CASE ~NewIdiom(e, row)
      <4>1. <<e.row, row>> \in ToSet(idioms)
        BY <3>2, <3>4 DEF NewIdiom, IsNode
      <4> QED
        BY <2>8, <4>1 DEF ToSet
    <3> QED
      BY <3>3, <3>4
  <2> QED
    BY <2>1, <2>2, <2>8, <2>9
<1> QED
  BY <1>1, <1>2, <1>3, <1>4, <1>5

\* When a write of one thread is overwritten by another thread, an interleaving
\* from the one to the other is on the list.
THEOREM OverwritesNoted == Spec => []OverwriteNoted
<1>1. Init => OverwriteNoted
  BY DEF Init, OverwriteNoted
<1>2. Inv /\ OverwriteNoted /\ [Next]_vars => OverwriteNoted'
  <2> SUFFICES ASSUME Inv, OverwriteNoted, [Next]_vars,
                      NEW j \in DOMAIN rows', NEW k \in DOMAIN rows', j < k,
                      rows'[j].op = "WRITE", rows'[k].op = "WRITE",
                      rows'[j].thread # rows'[k].thread,
                      Slot[rows'[j].addr] = Slot[rows'[k].addr],
                      \A i \in j + 1 .. k - 1 :
                          rows'[i].op \in AccessOps => Slot[rows'[i].addr] # Slot[rows'[k].addr]
               PROVE  \E n \in DOMAIN idioms' :
                          idioms'[n][1].thread = rows'[j].thread /\ idioms'[n][2] = rows'[k]
    BY DEF OverwriteNoted
  <2>1. CASE UNCHANGED <<rows, idioms>>
    BY <2>1 DEF OverwriteNoted
  <2>2. ASSUME NEW row \in Labels, rows' = Append(rows, row),
               \A n \in DOMAIN idioms : n \in DOMAIN idioms' /\ idioms'[n] = idioms[n],
               NEW e, e = table[Slot[row.addr]],
               row.op = "WRITE" /\ e # None /\ e.row.thread # row.thread =>
                        \E n \in DOMAIN idioms' : idioms'[n] = <<e.row, row>>
        PROVE  \E n \in DOMAIN idioms' :
                   idioms'[n][1].thread = rows'[j].thread /\ idioms'[n][2] = rows'[k]
    <3>1. rows \in Seq(Labels) /\ j \in DOMAIN rows /\ rows'[j] = rows[j] /\ Len(rows) \in Nat
      BY <2>2, RowsBefore DEF Inv, Shapes
    <3>2. CASE k \in DOMAIN rows
      <4>1. \A i \in j + 1 .. k : i \in DOMAIN rows /\ rows'[i] = rows[i]
        BY <2>2, <3>1, <3>2, RowsBefore
      <4>2. /\ rows[j].op = "WRITE" /\ rows[k].op = "WRITE"
            /\ rows[j].thread # rows[k].thread
            /\ Slot[rows[j].addr] = Slot[rows[k].addr]
            /\ rows'[k] = rows[k]
        BY <2>2, <3>1, <3>2, RowsBefore
      <4>3. \A i \in j + 1 .. k - 1 : rows[i].op \in AccessOps => Slot[rows[i].addr] # Slot[rows[k].addr]
        BY <3>1, <3>2, <4>1, <4>2
      <4>4. PICK n \in DOMAIN idioms : idioms[n][1].thread = rows[j].thread /\ idioms[n][2] = rows[k]
        BY <3>1, <3>2, <4>2, <4>3 DEF OverwriteNoted
      <4> QED
        BY <2>2, <3>1, <4>2, <4>4
    <3>3. CASE k = Len(rows) + 1
      <4>1. rows'[k] = row
        BY <2>2, <3>1, <3>3, RowsBefore
      <4>2. \A i \in j + 1 .. Len(rows) : ~InSlot(i, Slot[rows[j].addr])
        BY <2>2, <3>1, <3>3, RowsBefore DEF InSlot
      <4>3. e # None /\ e.row.thread = rows[j].thread
        BY <2>2, <3>1, <4>1, <4>2 DEF Inv, WriterInv
      <4> QED
        BY <2>2, <3>1, <4>1, <4>3
    <3> QED
      BY <2>2, <3>1, <3>2, <3>3, RowsBefore
  <2>3. CASE Next
    BY <2>1, <2>2, <2>3, NextRow
  <2> QED
    BY <2>1, <2>3 DEF vars, tableVars
<1> QED
  BY <1>1, <1>2, AlwaysInv, PTL DEF Spec

\* A saved graph is the path of its thread to the end, unless a thread was
\* starting when it was saved.
THEOREM SavedGraphsWhole == Spec => []SavedWhole
<1>1. Init => SavedWhole
  BY DEF Init, SavedWhole
<1>2. Inv /\ SavedWhole /\ [Next]_vars => SavedWhole'
  <2> SUFFICES ASSUME Inv, SavedWhole, [Next]_vars, NEW u \in DOMAIN saved' \ raced'
               PROVE  /\ \E k \in RowsOf(u)' : rows'[k].op = "THREADEND"
                      /\ \E id \in graphs'[u].nodes : IsPath(saved[u], u, States(id))'
    BY DEF SavedWhole
  <2>1. CASE u \in DOMAIN saved
    <3>1. u \in DOMAIN graphs /\ u \in ended /\ u \notin raced
      BY <2>1 DEF Inv, Shapes, Next, vars, endVars, ThreadStart, Created, ThreadFini, SaveGraph,
                  LockRow, RecordMem
    <3>2. PICK k \in RowsOf(u) : rows[k].op = "THREADEND"
      BY <2>1, <3>1 DEF SavedWhole
    <3> PICK g : g = saved[u]
      OBVIOUS
    <3>3. PICK id \in graphs[u].nodes : IsPath(g, u, States(id))
      BY <2>1, <3>1 DEF SavedWhole
    <3>4. saved'[u] = g
      BY <2>1, <3>3 DEF Next, vars, endVars, ThreadStart, Created, ThreadFini, SaveGraph, Put,
                  LockRow, RecordMem
    <3>5. CASE UNCHANGED <<rows, graphs>>
      <4>1. RowsOf(u)' = RowsOf(u) /\ Steps(u)' = Steps(u) /\ States(id)' = States(id)
        BY <3>5 DEF RowsOf, Steps, States
      <4>2. IsPath(saved[u], u, States(id))'
        BY <3>3, <3>4, <4>1 DEF IsPath
      <4> QED
        BY <3>2, <3>5, <4>1, <4>2
    <3>6. ASSUME NEW row \in Labels, rows' = Append(rows, row), row.thread # u, graphs'[u] = graphs[u]
          PROVE  /\ \E i \in RowsOf(u)' : rows'[i].op = "THREADEND"
                 /\ \E i \in graphs'[u].nodes : IsPath(saved[u], u, States(i))'
      <4>1. rows \in Seq(Labels)
        BY DEF Inv, Shapes
      <4>2. k \in RowsOf(u)' /\ rows'[k] = rows[k]
        BY <3>6, <4>1, RowsOfAfter, RowsBefore DEF RowsOf
      <4>3. IsPath(g, u, States(id))'
        BY <3>3, <3>6, <4>1, PathStays
      <4>4. IsPath(saved[u], u, States(id))'
        BY <3>4, <4>3 DEF IsPath
      <4> QED
        BY <3>2, <3>6, <4>2, <4>4
    <3>7. ASSUME NEW t \in Threads, Created(t)
          PROVE  \E row \in Labels : rows' = Append(rows, row) /\ row.thread # u /\ graphs'[u] = graphs[u]
      <4>1. t # u /\ graphs'[u] = graphs[u]
        BY <3>1, <3>7, CreatedGraph
      <4> QED
        BY <3>7, <4>1 DEF Created, Label, Labels, ThreadOps
    <3>8. ASSUME NEW t \in Threads, NEW row, NEW i, Recorded(t, row, i)
          PROVE  row \in Labels /\ rows' = Append(rows, row) /\ row.thread # u /\ graphs'[u] = graphs[u]
      BY <3>1, <3>8 DEF Recorded, Running, GraphStep
    <3>9. CASE Next
      <4>1. PICK t \in Threads :
              \/ ThreadStart(t) \/ Created(t) \/ ThreadFini(t) \/ SaveGraph(t)
              \/ \E o \in Others : LockRow(t, o)
              \/ \E a \in Accesses : RecordMem(t, a)
        BY <3>9 DEF Next
      <4>2. CASE ThreadStart(t) \/ SaveGraph(t)
        BY <3>5, <4>2 DEF ThreadStart, SaveGraph, graphVars
      <4>3. CASE Created(t)
        BY <3>6, <3>7, <4>3
      <4>4. CASE \/ ThreadFini(t) \/ \E o \in Others : LockRow(t, o)
                 \/ \E a \in Accesses : RecordMem(t, a)
        BY <3>6, <3>8, <4>4, Records
      <4> QED
        BY <4>1, <4>2, <4>3, <4>4
    <3> QED
      BY <3>5, <3>9 DEF vars, graphVars
  <2>2. CASE u \notin DOMAIN saved
    <3>1. SaveGraph(u)
      <4>1. saved' # saved
        BY <2>2
      <4>2. PICK t \in Threads : SaveGraph(t)
        BY <4>1 DEF Next, vars, endVars, ThreadStart, Created, ThreadFini, LockRow, RecordMem
      <4>3. DOMAIN saved' = DOMAIN saved \cup {t}
        BY <4>2 DEF SaveGraph, Put
      <4> QED
        BY <2>2, <4>2, <4>3
    <3>2. u \in ended /\ u \in DOMAIN graphs /\ inserting = None
      BY <3>1 DEF SaveGraph, Inv, Shapes
    <3>3. saved'[u] = graphs[u] /\ UNCHANGED <<rows, graphs>>
      BY <3>1, <3>2 DEF SaveGraph, Put, graphVars
    <3>4. PICK id \in graphs[u].nodes : IsPath(graphs[u], u, States(id))
      BY <3>2 DEF Inv, GraphInv
    <3>5. RowsOf(u)' = RowsOf(u) /\ Steps(u)' = Steps(u) /\ States(id)' = States(id)
      BY <3>3 DEF RowsOf, Steps, States
    <3>6. IsPath(saved[u], u, States(id))'
      BY <3>3, <3>4, <3>5 DEF IsPath
    <3>7. \E k \in RowsOf(u) : rows[k].op = "THREADEND"
      BY <3>2 DEF Inv, GraphInv
    <3> QED
      BY <3>3, <3>4, <3>5, <3>6, <3>7
  <2> QED
    BY <2>1, <2>2
<1> QED
  BY <1>1, <1>2, AlwaysInv, PTL DEF Spec
=============================================================================
