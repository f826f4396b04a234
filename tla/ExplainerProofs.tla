--------------------------- MODULE ExplainerProofs ---------------------------
(***************************************************************************)
(* What the picture of an issue shows, for any trace, any number of threads *)
(* and any window: what led up to its accesses, each thread's path through  *)
(* the rows drawn, the edges between the threads, and nothing else.         *)
(*                                                                         *)
(* The invariant ties every table to the rows of the trace read so far, by  *)
(* their places in it: the lock lists are the get rows that are open        *)
(* (OrderInv, ListInv), recording and shown are what the starts and ends    *)
(* leave (WindowInv), a graph is the path through the rows drawn (PathInv), *)
(* and an edge between threads joins two noted rows that follow each other  *)
(* on an address (WovenInv).  One row on, each of these sets grows by that  *)
(* row or stays.                                                           *)
(***************************************************************************)
EXTENDS Explainer, ReportProofs, LeastNumber

-----------------------------------------------------------------------------
(* The analyzer and its reports. *)

\* Drawing leaves the analyzer and its reports alone.
LEMMA ExplainerRefines == ExplainerSpec => ReportSpec
<1>1. ExplainerInit => ReportInit
  BY DEF ExplainerInit
<1>2. [ExplainerNext]_explainerVars => [ReportNext]_reportVars
  BY DEF ExplainerNext, StartExplainer, StartGrapher, Explain, ExitExplainer, Graph, Write,
     explainerVars
<1> QED
  BY <1>1, <1>2, PTL DEF ExplainerSpec, ReportSpec

-----------------------------------------------------------------------------
(* The mutexes that are open in a trace. *)

IsGet(r) == r.op = "pthread_mutex_lock@get"
IsUnlock(r) == r.op = "pthread_mutex_unlock"
Unlocks(r, t, a) == IsUnlock(r) /\ r.thread = t /\ r.addr = a

\* OpenRows in any trace q.
OpenIn(q, t, k) ==
    {j \in 1 .. k : /\ IsGet(q[j]) /\ q[j].thread = t
                    /\ \A n \in j .. k : ~Unlocks(q[n], t, q[j].addr)}

LEMMA OpenRowsIn == \A t, k : OpenRows(t, k) = OpenIn(trace, t, k)
  BY DEF OpenRows, OpenIn, IsGet, IsUnlock, Unlocks

\* One row on, what it unlocks is no longer open, and what it gets is.
OpenNext(q, t, k) ==
    {j \in OpenIn(q, t, k) : ~Unlocks(q[k + 1], t, q[j].addr)}
    \cup (IF IsGet(q[k + 1]) /\ q[k + 1].thread = t THEN {k + 1} ELSE {})

LEMMA OpenStep ==
  ASSUME NEW q, NEW k \in Nat, NEW t
  PROVE  OpenIn(q, t, k + 1) = OpenNext(q, t, k)
<1> PICK r : r = q[k + 1]
  OBVIOUS
<1>0. IsGet(r) => \A a : ~Unlocks(r, t, a)
  BY DEF IsGet, IsUnlock, Unlocks
<1> USE DEF OpenIn
<1>1. ASSUME NEW j \in OpenIn(q, t, k + 1)
      PROVE  \/ j \in OpenIn(q, t, k) /\ ~Unlocks(r, t, q[j].addr)
             \/ j = k + 1 /\ IsGet(r) /\ r.thread = t
  OBVIOUS
<1>2. ASSUME NEW j \in OpenIn(q, t, k), ~Unlocks(r, t, q[j].addr)
      PROVE  j \in OpenIn(q, t, k + 1)
  <2>1. j \in 1 .. k + 1 /\ \A n \in j .. k + 1 : n \in j .. k \/ n = k + 1
    OBVIOUS
  <2> QED
    BY <1>2, <2>1
<1>3. IsGet(r) /\ r.thread = t => k + 1 \in OpenIn(q, t, k + 1)
  <2>1. k + 1 \in 1 .. k + 1 /\ \A n \in k + 1 .. k + 1 : n = k + 1
    OBVIOUS
  <2> QED
    BY <1>0, <2>1
<1> HIDE DEF OpenIn
<1> QED
  BY <1>1, <1>2, <1>3 DEF OpenNext

\* It depends on no later rows.
LEMMA OpenPrefix ==
  ASSUME NEW p, NEW q, NEW k \in Nat, \A j \in 1 .. k : p[j] = q[j], NEW t
  PROVE  OpenIn(p, t, k) = OpenIn(q, t, k)
  BY DEF OpenIn

\* The row may come next for a thread whose gets at the rows in K are open: it
\* gets no mutex that is open, and starts without any.
Fits(q, r, K) ==
    /\ r.op = "THREADSTART" => K = {}
    /\ IsGet(r) => \A j \in K : q[j].addr # r.addr

WellOrdered(q) == \A k \in DOMAIN q : Fits(q, q[k], OpenIn(q, q[k].thread, k - 1))

\* What the row unlocks is open at the rows in K.
IsMatched(q, r, K) == IsUnlock(r) => \E j \in K : q[j].addr = r.addr

\* Up to the row at n nothing is unlocked that is not open.
Matched(q, n) == \A k \in 1 .. n : IsMatched(q, q[k], OpenIn(q, q[k].thread, k - 1))

\* The mutexes open at the end of the trace are those the threads hold by its
\* rows.
OpenHeld(q) == \A t \in Threads : {q[j].addr : j \in OpenIn(q, t, Len(q))} = held[t]

\* Of the rows the analyzer has read, it has found every unlock row's get row.
OrderInv ==
    state # "aborted" =>
        /\ WellOrdered(trace) /\ OpenHeld(trace)
        /\ unread \in Nat /\ unread <= Len(trace) /\ (state = "reading" => unread = 0)
        /\ Matched(trace, Len(trace) - unread)

LEMMA OrderStep ==
  ASSUME NEW q \in Seq(Rows), NEW r \in Rows, WellOrdered(q),
         NEW n, n = Len(q), NEW p, p = Append(q, r),
         Fits(q, r, OpenIn(q, r.thread, n))
  PROVE  WellOrdered(p)
<1>1. /\ n \in Nat /\ DOMAIN q = 1 .. n /\ DOMAIN p = 1 .. n + 1
      /\ p[n + 1] = r /\ \A k \in 1 .. n : p[k] = q[k]
  OBVIOUS
<1>2. ASSUME NEW k \in 1 .. n + 1 PROVE Fits(p, p[k], OpenIn(p, p[k].thread, k - 1))
  <2> PICK s : s = p[k]
    OBVIOUS
  <2> PICK m : m = k - 1
    OBVIOUS
  <2> PICK K : K = OpenIn(q, s.thread, m)
    OBVIOUS
  <2>1. m \in Nat /\ \A j \in 1 .. m : p[j] = q[j]
    BY <1>1
  <2>2. OpenIn(p, s.thread, m) = K
    BY <2>1, OpenPrefix, ZenonT(30)
  <2>3. Fits(q, s, K)
    <3>1. CASE k \in 1 .. n
      BY <1>1, <3>1 DEF WellOrdered
    <3>2. CASE k = n + 1
      <4>1. m = n /\ s = r
        BY <1>1, <3>2
      <4> QED
        BY <4>1
    <3> QED
      BY <1>1, <3>1, <3>2
  <2>4. \A j \in K : p[j] = q[j]
    BY <2>1 DEF OpenIn
  <2>5. Fits(p, s, K)
    BY <2>3, <2>4 DEF Fits
  <2> QED
    BY <2>2, <2>5
<1> QED
  BY <1>1, <1>2 DEF WellOrdered

\* What was unlocked before is matched as well one row on.
LEMMA MatchedStays ==
  ASSUME NEW q \in Seq(Rows), NEW r \in Rows, NEW m \in Nat, m <= Len(q), Matched(q, m),
         NEW p, p = Append(q, r)
  PROVE  Matched(p, m)
<1> PICK n : n = Len(q)
  OBVIOUS
<1>1. n \in Nat /\ m <= n /\ \A k \in 1 .. n : p[k] = q[k]
  OBVIOUS
<1>2. ASSUME NEW k \in 1 .. m PROVE IsMatched(p, p[k], OpenIn(p, p[k].thread, k - 1))
  <2> PICK s : s = q[k]
    OBVIOUS
  <2> PICK K : K = OpenIn(q, s.thread, k - 1)
    OBVIOUS
  <2>1. k - 1 \in Nat /\ p[k] = s /\ \A j \in 1 .. k - 1 : p[j] = q[j]
    BY <1>1
  <2>2. OpenIn(p, s.thread, k - 1) = K
    BY <2>1, OpenPrefix, ZenonT(30)
  <2>3. IsMatched(q, s, K)
    BY DEF Matched
  <2>4. \A j \in K : p[j] = q[j]
    BY <2>1 DEF OpenIn
  <2>5. IsMatched(p, s, K)
    BY <2>3, <2>4 DEF IsMatched
  <2> QED
    BY <2>1, <2>2, <2>5
<1> QED
  BY <1>2 DEF Matched

\* A row that follows, or strays, keeps the order; one that follows is matched.
LEMMA RowOrder ==
  ASSUME TraceInv, StampsRise, WellOrdered(trace), OpenHeld(trace),
         NEW r \in Rows, IsNextLine(r), G!Follows(r) \/ Strays(r),
         NEW n, n = Len(trace), NEW p, p = trace'
  PROVE  /\ WellOrdered(p)
         /\ \A t \in Threads : {p[j].addr : j \in OpenIn(p, t, n + 1)} = held'[t]
         /\ G!Follows(r) => IsMatched(p, r, OpenIn(p, r.thread, n))
<1>1. /\ trace \in Seq(Rows) /\ p = Append(trace, r) /\ p \in Seq(Rows)
      /\ n \in Nat /\ DOMAIN trace = 1 .. n /\ Len(p) = n + 1
      /\ p[n + 1] = r /\ \A k \in 1 .. n : p[k] = trace[k]
  BY DEF StampsRise, IsNextLine
<1>4. WellOrdered(trace) /\ \A t \in Threads : {trace[j].addr : j \in OpenIn(trace, t, n)} = held[t]
  BY DEF OpenHeld
<1>5. /\ r.thread \in Threads /\ held \in [Threads -> SUBSET Mutexes]
      /\ status[r.thread] = "absent" => held[r.thread] = {}
  BY AnalysisAssumption DEF RowType, TraceInv, G!GrammarTypeOK, HeldInv
<1> DEFINE Facts == /\ r.op = "THREADSTART" => held[r.thread] = {}
                    /\ IsGet(r) => r.addr \notin held[r.thread]
                    /\ G!Follows(r) /\ IsUnlock(r) => r.addr \in held[r.thread]
                    /\ held' = [held EXCEPT ![r.thread] =
                                   IF IsGet(r) THEN @ \cup {r.addr}
                                   ELSE IF IsUnlock(r) THEN @ \ {r.addr} ELSE @]
<1>6. ASSUME G!Follows(r) PROVE Facts
  <2>1. /\ r.op = "THREADSTART" => held[r.thread] = {}
        /\ IsGet(r) => r.addr \notin held[r.thread]
        /\ IsUnlock(r) => r.addr \in held[r.thread]
    BY <1>5, <1>6 DEF G!Follows, G!Starts, G!Ends, G!Requests, G!Gets, G!Unlocks, G!Touches, G!Manages,
       G!AccessOps, G!HeapOps, IsGet, IsUnlock
  <2>2. held' = [held EXCEPT ![r.thread] = IF IsGet(r) THEN @ \cup {r.addr}
                                           ELSE IF IsUnlock(r) THEN @ \ {r.addr} ELSE @]
    BY <1>5, <1>6 DEF G!Follows, G!Starts, G!Ends, G!Requests, G!Gets, G!Unlocks, G!Touches, G!Manages,
       G!AccessOps, G!HeapOps, G!grammarVars, IsGet, IsUnlock
  <2> QED
    BY <2>1, <2>2
<1>7. ASSUME Strays(r), ~G!Follows(r) PROVE Facts
  <2>1. IsUnlock(r) /\ ~IsGet(r) /\ r.addr \notin held[r.thread] /\ held' = held
    BY <1>7 DEF Strays, IsUnlock, IsGet, traceVars
  <2>2. held' = [held EXCEPT ![r.thread] = @ \ {r.addr}]
    BY <1>5, <2>1
  <2> QED
    BY <1>7, <2>1, <2>2 DEF IsUnlock
<1>9. Facts
  BY <1>6, <1>7
<1> PICK K : K = OpenIn(trace, r.thread, n)
  OBVIOUS
<1>10. {trace[j].addr : j \in K} = held[r.thread] /\ \A j \in K : j \in 1 .. n
  BY <1>4, <1>5 DEF OpenIn
<1>11. WellOrdered(p)
  <2>2. Fits(trace, r, OpenIn(trace, r.thread, n))
    BY <1>9, <1>10 DEF Fits
  <2> QED
    BY <1>1, <1>4, <2>2, OrderStep
<1>12. ASSUME NEW t \in Threads
       PROVE  {p[j].addr : j \in OpenIn(p, t, n + 1)} = held'[t]
  <2> PICK J : J = OpenIn(trace, t, n)
    OBVIOUS
  <2>1. /\ \A j \in J : p[j] = trace[j]
        /\ {trace[j].addr : j \in J} = held[t]
    BY <1>1, <1>4 DEF OpenIn
  <2>2. OpenIn(p, t, n + 1) =
          {j \in J : ~Unlocks(r, t, p[j].addr)} \cup (IF IsGet(r) /\ r.thread = t THEN {n + 1} ELSE {})
    <3>1. n \in Nat /\ r = p[n + 1] /\ \A j \in 1 .. n : p[j] = trace[j]
      BY <1>1
    <3>2. OpenIn(p, t, n) = J
      BY ONLY <3>1, J = OpenIn(trace, t, n), OpenPrefix, Zenon
    <3>3. OpenIn(p, t, n + 1) = OpenNext(p, t, n)
      BY <3>1, OpenStep
    <3> QED
      BY <3>1, <3>2, <3>3 DEF OpenNext
  <2>3. held'[t] = IF t = r.thread /\ IsGet(r) THEN held[t] \cup {r.addr}
                   ELSE IF t = r.thread /\ IsUnlock(r) THEN held[t] \ {r.addr} ELSE held[t]
    BY <1>5, <1>9
  <2> PICK O : O = OpenIn(p, t, n + 1)
    OBVIOUS
  <2>5. ASSUME NEW a, a \in held'[t] PROVE \E j \in O : p[j].addr = a
    <3>1. CASE a \in held[t]
      <4>1. PICK j \in J : trace[j].addr = a
        BY <2>1, <3>1
      <4>2. ~Unlocks(r, t, a)
        BY <2>3, <2>5 DEF Unlocks, IsUnlock, IsGet
      <4> QED
        BY <2>1, <2>2, <4>1, <4>2
    <3>2. CASE a \notin held[t]
      BY <1>1, <2>2, <2>3, <2>5, <3>2
    <3> QED
      BY <3>1, <3>2
  <2>6. ASSUME NEW j \in O PROVE p[j].addr \in held'[t]
    <3>1. CASE j \in J /\ ~Unlocks(r, t, p[j].addr)
      BY <2>1, <2>3, <3>1 DEF Unlocks
    <3>2. CASE j = n + 1 /\ IsGet(r) /\ r.thread = t
      BY <1>1, <2>3, <3>2
    <3> QED
      BY <2>2, <2>6, <3>1, <3>2
  <2> QED
    BY <2>5, <2>6
<1>13. ASSUME G!Follows(r) PROVE IsMatched(p, r, OpenIn(p, r.thread, n))
  <2>1. OpenIn(p, r.thread, n) = K
    BY ONLY <1>1, K = OpenIn(trace, r.thread, n), OpenPrefix, Zenon
  <2>2. IsUnlock(r) => \E j \in K : trace[j].addr = r.addr
    BY <1>9, <1>10, <1>13
  <2> QED
    BY <1>1, <1>10, <2>1, <2>2 DEF IsMatched
<1> QED
  BY <1>11, <1>12, <1>13

LEMMA ReadOrder ==
  ASSUME AnalyzerInv, StampsRise, OrderInv, NEW r \in Rows, ReadTrace(r)
  PROVE  OrderInv'
<1> SUFFICES ASSUME state' # "aborted" PROVE OrderInv'
  BY DEF OrderInv
<1> PICK n, p : n = Len(trace) /\ p = trace'
  OBVIOUS
<1>1. ReadRow(r) /\ Read(r) /\ state = "reading" /\ p = Append(trace, r) /\ unread' = unread
  BY DEF ReadTrace, IsNextLine, ReadRow, Read
<1>2. G!Follows(r)
  <2>1. ~Abort(r)
    BY DEF Abort
  <2>2. ~Strays(r)
    BY <1>1, <2>1, StrayUnmatched DEF Read, AnalyzerInv
  <2> QED
    BY <1>1, <2>2 DEF ReadRow
<1>3. /\ WellOrdered(trace) /\ OpenHeld(trace) /\ unread = 0 /\ Matched(trace, n)
  <2>1. WellOrdered(trace) /\ OpenHeld(trace) /\ unread = 0 /\ Matched(trace, n - unread)
    BY <1>1 DEF OrderInv
  <2>2. n - unread = n
    BY <2>1 DEF StampsRise
  <2> QED
    BY <2>1, <2>2
<1>4. /\ trace \in Seq(Rows) /\ n \in Nat /\ Len(p) = n + 1 /\ p[n + 1] = r
  BY <1>1 DEF StampsRise
<1>5. /\ WellOrdered(p)
      /\ \A t \in Threads : {p[j].addr : j \in OpenIn(p, t, n + 1)} = held'[t]
      /\ IsMatched(p, r, OpenIn(p, r.thread, n))
  <2>1. TraceInv /\ IsNextLine(r)
    BY DEF ReadTrace, AnalyzerInv
  <2> QED
    BY <1>2, <1>3, <2>1, RowOrder
<1>6. Matched(p, n)
  <2>1. n \in Nat /\ n <= Len(trace) /\ trace \in Seq(Rows) /\ p = Append(trace, r)
    BY <1>1, <1>4
  <2> QED
    BY ONLY r \in Rows, <1>3, <2>1, MatchedStays, Zenon
<1>7. Matched(p, n + 1)
  <2>1. ASSUME NEW k \in 1 .. n + 1 PROVE IsMatched(p, p[k], OpenIn(p, p[k].thread, k - 1))
    <3>1. CASE k \in 1 .. n
      BY <1>6, <3>1 DEF Matched
    <3>2. CASE k = n + 1
      <4>1. p[k] = r /\ k - 1 = n
        BY <1>4, <3>2
      <4> QED
        BY <1>5, <4>1
    <3> QED
      BY <1>4, <3>1, <3>2
  <2> QED
    BY <2>1 DEF Matched
<1>8. OpenHeld(trace)'
  BY <1>4, <1>5 DEF OpenHeld
<1>9. Len(p) - unread' = n + 1 /\ unread' = 0
  BY <1>1, <1>3, <1>4
<1>10. Matched(p, Len(p) - unread')
  BY <1>7, <1>9
<1> QED
  BY <1>4, <1>5, <1>8, <1>9, <1>10 DEF OrderInv

\* The rows behind are in order, too, but for unlock rows that match none.
LEMMA UnreadOrder ==
  ASSUME TraceInv, StampsRise, OrderInv, NEW r \in Rows, Unread(r)
  PROVE  OrderInv'
<1> PICK n, p : n = Len(trace) /\ p = trace'
  OBVIOUS
<1>1. /\ G!Follows(r) \/ Strays(r)
      /\ state = "finished" /\ state' = state /\ p = Append(trace, r) /\ unread' = unread + 1
  BY DEF Unread, IsNextLine, analyzerVars
<1>2. /\ WellOrdered(trace) /\ OpenHeld(trace)
      /\ unread \in Nat /\ unread <= n /\ Matched(trace, n - unread)
  BY <1>1 DEF OrderInv
<1>3. /\ trace \in Seq(Rows) /\ n \in Nat /\ Len(p) = n + 1
  BY <1>1 DEF StampsRise
<1>4. /\ WellOrdered(p)
      /\ \A t \in Threads : {p[j].addr : j \in OpenIn(p, t, n + 1)} = held'[t]
  <2>1. IsNextLine(r) /\ (G!Follows(r) \/ Strays(r))
    BY DEF Unread
  <2> QED
    BY <1>2, <2>1, RowOrder
<1>5. n - unread \in Nat /\ n - unread <= n /\ Len(p) - unread' = n - unread
      /\ unread' \in Nat /\ unread' <= Len(p)
  BY <1>1, <1>2, <1>3
<1>6. Matched(p, n - unread)
  BY <1>1, <1>2, <1>3, <1>5, MatchedStays
<1>7. OpenHeld(trace)'
  BY <1>3, <1>4 DEF OpenHeld
<1>8. Matched(p, Len(p) - unread')
  BY <1>5, <1>6
<1> QED
  BY <1>1, <1>4, <1>5, <1>7, <1>8 DEF OrderInv

-----------------------------------------------------------------------------
(* The explainer's lists of mutexes. *)

EntryOf(r) == [addr |-> r.addr, ipc |-> r.ipc, ts |-> r.ts]

\* The list s has the entries of the get rows in K, in order.
IsList(s, q, K) ==
    /\ s \in Seq(Entry) /\ Once(s)
    /\ \A i \in DOMAIN s : \E j \in K : s[i] = EntryOf(q[j])
    /\ \A j \in K : \E i \in DOMAIN s : s[i] = EntryOf(q[j])
    /\ \A i, j \in DOMAIN s : i < j => s[i].ts < s[j].ts

Rising(q) == q \in Seq(Rows) /\ \A m, n \in DOMAIN q : m < n => q[m].ts < q[n].ts

LEMMA RowTyped ==
  ASSUME NEW r \in Rows
  PROVE  /\ r.thread \in Threads /\ r.addr \in Addresses /\ r.ts \in Stamps /\ r.ts \in Nat
         /\ EntryOf(r) \in Entry
         /\ EntryOf(r).addr = r.addr /\ EntryOf(r).ts = r.ts /\ EntryOf(r).ipc = r.ipc
  BY AnalysisAssumption, ReportAssumption DEF RowType, EntryOf, Entry

LEMMA ListAddrs ==
  ASSUME NEW s, NEW q, NEW K, IsList(s, q, K)
  PROVE  \A a : a \in Addrs(s) <=> \E j \in K : q[j].addr = a
<1>1. s \in Seq(Entry) /\ DOMAIN s = 1 .. Len(s)
  BY DEF IsList
<1>2. \A r : EntryOf(r).addr = r.addr
  BY DEF EntryOf
<1> QED
  BY <1>1, <1>2, AddrsElements DEF IsList

LEMMA GotList ==
  ASSUME NEW s, NEW q, NEW K, Rising(q), NEW n \in DOMAIN q, K \subseteq 1 .. n - 1,
         IsList(s, q, K), \A j \in K : q[j].addr # q[n].addr
  PROVE  IsList(Append(s, EntryOf(q[n])), q, K \cup {n})
<1>0. \A a : a \in Addrs(s) => \E j \in K : q[j].addr = a
  <2>1. IsList(s, q, K)
    OBVIOUS
  <2> QED
    BY ONLY <2>1, ListAddrs
<1> PICK e : e = EntryOf(q[n])
  OBVIOUS
<1> PICK p : p = Append(s, e)
  OBVIOUS
<1>1. e \in Entry /\ e.addr = q[n].addr /\ e.ts = q[n].ts /\ n \in Nat /\ e.ts \in Nat
  BY RowTyped DEF Rising
<1>2. s \in Seq(Entry) /\ Once(s)
  BY DEF IsList
<1>3. e.addr \notin Addrs(s)
  BY <1>0, <1>1
<1>4. p \in Seq(Entry) /\ Once(p)
  BY <1>1, <1>2, <1>3, OpenedList
<1> PICK m : m = Len(s)
  OBVIOUS
<1>5. /\ m \in Nat /\ DOMAIN s = 1 .. m /\ DOMAIN p = 1 .. m + 1
      /\ p[m + 1] = e /\ \A i \in 1 .. m : p[i] = s[i]
  BY <1>1, <1>2
<1>6. \A i \in 1 .. m : s[i].ts \in Nat /\ s[i].ts < e.ts
  <2> SUFFICES ASSUME NEW i \in 1 .. m PROVE s[i].ts \in Nat /\ s[i].ts < e.ts
    OBVIOUS
  <2>1. PICK j \in K : s[i] = EntryOf(q[j])
    BY <1>5 DEF IsList
  <2>2. j \in DOMAIN q /\ j < n
    BY <1>1 DEF Rising
  <2>3. q[j].ts < q[n].ts /\ q[j] \in Rows
    BY <2>2 DEF Rising
  <2> QED
    BY <1>1, <2>1, <2>3, RowTyped
<1>7. \A i \in DOMAIN p : \E j \in K \cup {n} : p[i] = EntryOf(q[j])
  <2>1. \A i \in 1 .. m : \E j \in K : s[i] = EntryOf(q[j])
    BY <1>5 DEF IsList
  <2>2. \A i \in DOMAIN p : i \in 1 .. m \/ i = m + 1
    BY <1>5
  <2> QED
    BY <1>5, <2>1, <2>2
<1>8. \A j \in K \cup {n} : \E i \in DOMAIN p : p[i] = EntryOf(q[j])
  <2>1. \A j \in K : \E i \in 1 .. m : p[i] = EntryOf(q[j])
    BY <1>5 DEF IsList
  <2>2. \A i \in 1 .. m : i \in DOMAIN p
    BY <1>5
  <2>3. m + 1 \in DOMAIN p
    BY <1>5
  <2> QED
    BY <1>5, <2>1, <2>2, <2>3
<1>9. \A i, j \in DOMAIN p : i < j => p[i].ts < p[j].ts
  <2> SUFFICES ASSUME NEW i \in 1 .. m + 1, NEW j \in 1 .. m + 1, i < j PROVE p[i].ts < p[j].ts
    BY <1>5
  <2>1. i \in 1 .. m
    BY <1>5
  <2>2. CASE j \in 1 .. m
    BY <1>5, <2>1, <2>2 DEF IsList
  <2>3. CASE j = m + 1
    BY <1>5, <1>6, <2>1, <2>3
  <2> QED
    BY <1>5, <2>2, <2>3
<1> QED
  BY <1>4, <1>7, <1>8, <1>9 DEF IsList

Without(s, a) == RemoveAt(s, Max({i \in DOMAIN s : s[i].addr = a}))
Others(q, K, a) == {j \in K : q[j].addr # a}

LEMMA UnlockedList ==
  ASSUME NEW s, NEW q, NEW K, IsList(s, q, K), NEW a, \E j \in K : q[j].addr = a
  PROVE  IsList(Without(s, a), q, Others(q, K, a))
<1> PICK J : J = Others(q, K, a)
  OBVIOUS
<1>0. \A j : j \in J <=> j \in K /\ q[j].addr # a
  BY DEF Others
<1>1. s \in Seq(Entry) /\ Once(s) /\ Len(s) \in Nat /\ DOMAIN s = 1 .. Len(s)
  BY DEF IsList
<1>2. a \in Addrs(s)
  BY ListAddrs
<1>3. PICK k \in 1 .. Len(s) : s[k].addr = a
  BY <1>1, <1>2, AddrsElements
<1>4. \A i \in 1 .. Len(s) : s[i].addr = a => i = k
  BY <1>1, <1>3 DEF Once
<1>5. Max({i \in DOMAIN s : s[i].addr = a}) = k
  <2>1. {i \in DOMAIN s : s[i].addr = a} = {k}
    BY <1>1, <1>3, <1>4
  <2> QED
    BY <2>1, MaxOfOne
<1> PICK p : p = RemoveAt(s, k)
  OBVIOUS
<1> PICK m : m = Len(s) - 1
  OBVIOUS
<1>6. /\ p \in Seq(Entry) /\ m \in Nat /\ DOMAIN p = 1 .. m
      /\ \A j \in 1 .. m : p[j] = IF j < k THEN s[j] ELSE s[j + 1]
  <2>1. /\ p \in Seq(Entry) /\ Len(p) = m
        /\ \A j \in 1 .. Len(s) - 1 : p[j] = IF j < k THEN s[j] ELSE s[j + 1]
    BY <1>1, <1>3, RemoveAtElements
  <2>2. m \in Nat
    BY <1>1, <1>3
  <2> QED
    BY <2>1, <2>2
<1>7. Once(p)
  BY <1>1, <1>2, <1>5, ClosedList
<1>8. \A r : EntryOf(r).addr = r.addr
  BY DEF EntryOf
<1>9. \A i \in DOMAIN p : \E j \in J : p[i] = EntryOf(q[j])
  <2> SUFFICES ASSUME NEW i \in 1 .. m
               PROVE  \E j \in J : p[i] = EntryOf(q[j])
    BY <1>6
  <2>1. PICK l \in 1 .. Len(s) : p[i] = s[l] /\ l # k
    <3>1. CASE i < k
      BY <1>1, <1>3, <1>6, <3>1
    <3>2. CASE ~(i < k)
      <4>1. i + 1 \in 1 .. Len(s) /\ i + 1 # k
        BY <1>1, <1>3, <1>6, <3>2
      <4> QED
        BY <1>6, <3>2, <4>1
    <3> QED
      BY <3>1, <3>2
  <2>2. PICK j \in K : s[l] = EntryOf(q[j])
    BY <1>1 DEF IsList
  <2>3. q[j].addr # a
    BY <1>4, <1>8, <2>1, <2>2
  <2> QED
    BY <1>0, <2>1, <2>2, <2>3
<1>10. \A j \in J : \E i \in DOMAIN p : p[i] = EntryOf(q[j])
  <2> SUFFICES ASSUME NEW j \in K, q[j].addr # a PROVE \E i \in 1 .. m : p[i] = EntryOf(q[j])
    BY <1>0, <1>6
  <2>1. PICK l \in 1 .. Len(s) : s[l] = EntryOf(q[j])
    BY <1>1 DEF IsList
  <2>2. l # k
    BY <1>3, <1>8, <2>1
  <2>3. CASE l < k
    <3>1. l \in 1 .. m
      BY <1>1, <1>3, <2>3
    <3> QED
      BY <1>6, <2>1, <2>3, <3>1
  <2>4. CASE l > k
    <3>1. l - 1 \in 1 .. m /\ ~(l - 1 < k) /\ (l - 1) + 1 = l
      BY <1>1, <1>3, <2>4
    <3> QED
      BY <1>6, <2>1, <3>1
  <2> QED
    BY <1>3, <2>2, <2>3, <2>4
<1>11. \A i, j \in DOMAIN p : i < j => p[i].ts < p[j].ts
  <2> SUFFICES ASSUME NEW i \in 1 .. m, NEW j \in 1 .. m, i < j PROVE p[i].ts < p[j].ts
    BY <1>6
  <2> DEFINE at(x) == IF x < k THEN x ELSE x + 1
  <2>1. p[i] = s[at(i)] /\ p[j] = s[at(j)] /\ at(i) \in 1 .. Len(s) /\ at(j) \in 1 .. Len(s)
    BY <1>1, <1>3, <1>6
  <2>2. at(i) < at(j)
    BY <1>3
  <2> HIDE DEF at
  <2> QED
    BY <1>1, <2>1, <2>2 DEF IsList
<1>12. p = Without(s, a)
  BY <1>5 DEF Without
<1> QED
  BY <1>0, <1>6, <1>7, <1>9, <1>10, <1>11, <1>12 DEF IsList

\* The innermost mutex is the one got last.
LEMMA LastOfList ==
  ASSUME NEW s, NEW q, NEW K, Rising(q), K \subseteq DOMAIN q, IsList(s, q, K)
  PROVE  /\ s = <<>> <=> K = {}
         /\ s # <<>> => Max(K) \in K /\ Last(s) = EntryOf(q[Max(K)])
<1>1. s \in Seq(Entry) /\ Len(s) \in Nat /\ DOMAIN s = 1 .. Len(s)
  BY DEF IsList
<1>2. ASSUME s # <<>>
      PROVE  Max(K) \in K /\ Last(s) = EntryOf(q[Max(K)])
  <2>1. Len(s) \in 1 .. Len(s) /\ Last(s) = s[Len(s)]
    BY <1>1, <1>2 DEF Last
  <2>2. PICK k \in K : s[Len(s)] = EntryOf(q[k])
    BY <1>1, <2>1 DEF IsList
  <2>3. \A j \in K : j <= k
    <3> SUFFICES ASSUME NEW j \in K, j > k PROVE FALSE
      BY DEF Rising
    <3>1. q[k].ts < q[j].ts /\ q[k] \in Rows /\ q[j] \in Rows
      BY DEF Rising
    <3>2. PICK i \in 1 .. Len(s) : s[i] = EntryOf(q[j])
      BY <1>1 DEF IsList
    <3>3. s[i].ts = q[j].ts /\ s[Len(s)].ts = q[k].ts /\ q[k].ts \in Nat /\ q[j].ts \in Nat
      BY <2>2, <3>1, <3>2, RowTyped
    <3>4. i = Len(s) \/ s[i].ts < s[Len(s)].ts
      <4> PICK l : l = Len(s)
        OBVIOUS
      <4>1. i = l \/ i < l
        BY <1>1, <3>2
      <4> QED
        BY <1>1, <2>1, <3>2, <4>1 DEF IsList
    <3> QED
      BY <3>1, <3>3, <3>4
  <2>4. Max(K) = k
    <3>1. \A j \in K : j \in Int
      BY DEF Rising
    <3> QED
      BY <2>3, <3>1 DEF Max
  <2> QED
    BY <2>1, <2>2, <2>4
<1>3. s = <<>> <=> K = {}
  <2>1. s # <<>> => 1 \in DOMAIN s
    BY <1>1
  <2>2. s = <<>> => DOMAIN s = {}
    BY <1>1
  <2> QED
    BY <2>1, <2>2 DEF IsList
<1> QED
  BY <1>2, <1>3

-----------------------------------------------------------------------------
(* The phases. *)

\* Nothing is drawn before the reports are written and a job is given.
StartInv ==
    phase = "none" =>
        /\ pos = 0 /\ shown = {} /\ recording = FALSE /\ interleavings = {} /\ nolock = None
        /\ mutexes = [t \in Threads |-> <<>>]
        /\ graph = [t \in Threads |-> <<>>]
        /\ lastState = [t \in Threads |-> None]
        /\ transitions = [t \in Threads |-> {}]
        /\ lastOn = [a \in Addresses |-> None]

JobInv ==
    phase # "none" =>
        /\ phase \in {"reading", "read", "written", "exited", "crashed"}
        /\ txt # None
        /\ \/ job.tool = "grapher"
           \/ /\ job.tool = "explainer" /\ job.id \in DOMAIN csv
              /\ job.before \in Nat /\ job.after \in Nat

\* The explainer's lists of mutexes are those of the trace up to pos.
ListInv ==
    Explaining =>
        /\ mutexes \in [Threads -> Seq(Entry)]
        /\ \A t \in Threads : IsList(mutexes[t], trace, OpenIn(trace, t, pos))

\* Once both are written, the reports stay, and so does the trace they are about.
LEMMA Frozen ==
  ASSUME ReportInv, txt # None, [ReportNext]_reportVars
  PROVE  UNCHANGED reportVars
<1>1. state = "finished" /\ csv # None /\ place = None
  BY DEF ReportInv, WrittenInv
<1>2. ~\E r \in Rows : ReadTrace(r) \/ Unread(r)
  BY <1>1 DEF ReadTrace, ReadRow, Read, Unread
<1>3. ~StopTrace /\ ~WriteCsv /\ ~WriteText
  BY <1>1 DEF StopTrace, StopReading, Stop, WriteCsv, WriteText
<1> QED
  BY <1>2, <1>3 DEF ReportNext

LEMMA NextOrder ==
  ASSUME ReadInv, ReportInv, OrderInv, [ReportNext]_reportVars
  PROVE  OrderInv'
<1>1. ASSUME NEW r \in Rows, ReadTrace(r) PROVE OrderInv'
  BY <1>1, ReadOrder, StepAnalyzed DEF ReportInv
<1>2. ASSUME NEW r \in Rows, Unread(r) PROVE OrderInv'
  BY <1>2, UnreadOrder DEF ReportInv, ReadInv
<1>3. CASE StopTrace \/ WriteCsv \/ WriteText \/ UNCHANGED reportVars
  <2>1. /\ UNCHANGED <<trace, unread, held>>
        /\ state' # "aborted" => state # "aborted"
        /\ state' = "reading" => state = "reading"
    BY <1>3 DEF StopTrace, StopReading, Stop, WriteCsv, WriteText, reportVars, vars, analyzerVars,
       traceVars
  <2>2. OpenHeld(trace) => OpenHeld(trace)'
    BY <2>1 DEF OpenHeld
  <2> QED
    BY <2>1, <2>2 DEF OrderInv
<1> QED
  BY <1>1, <1>2, <1>3 DEF ReportNext

LEMMA InitOrder == ReportInit => OrderInv
<1> SUFFICES ASSUME ReportInit PROVE OrderInv
  OBVIOUS
<1>1. trace = <<>> /\ held = [t \in Threads |-> {}] /\ unread = 0
  BY DEF ReportInit, Init, G!GrammarInit
<1>2. Len(trace) = 0 /\ DOMAIN trace = {}
  BY <1>1
<1>3. \A t : OpenIn(trace, t, 0) = {}
  BY DEF OpenIn
<1> QED
  BY <1>1, <1>2, <1>3 DEF OrderInv, OpenHeld, WellOrdered, Matched

\* What holds at every row that is drawn: the trace is over, and in order.
LEMMA TraceRead ==
  ASSUME ReportInv, OrderInv, JobInv, phase # "none"
  PROVE  /\ Rising(trace) /\ WellOrdered(trace)
         /\ DOMAIN trace = 1 .. Len(trace) /\ Len(trace) \in Nat
         /\ unread \in Nat /\ Matched(trace, Len(trace) - unread)
<1>1. csv # None /\ state = "finished"
  BY DEF JobInv, ReportInv, WrittenInv
<1>2. StampsRise
  BY DEF ReportInv
<1> QED
  BY <1>1, <1>2 DEF OrderInv, StampsRise, Rising

\* The phases of a step.
LEMMA NextPhase ==
  ASSUME ReportInv, StartInv, JobInv, [ExplainerNext]_explainerVars
  PROVE  /\ StartInv' /\ JobInv'
         /\ phase # "none" => UNCHANGED <<reportVars, job>>
<1>1. CASE ReportNext /\ UNCHANGED drawingVars
  <2>1. UNCHANGED <<pictureVars, phase, job, pos, mutexes, recording>>
    BY <1>1 DEF drawingVars
  <2>2. txt # None => UNCHANGED reportVars
    BY <1>1, Frozen
  <2>3. txt # None => csv' = csv /\ txt' = txt
    BY <2>2 DEF reportVars, writtenVars
  <2> QED
    BY <2>1, <2>2, <2>3 DEF pictureVars, StartInv, JobInv
<1>2. CASE StartExplainer
  <2>1. PICK id \in DOMAIN csv, w \in Windows :
          job' = [tool |-> "explainer", id |-> id, before |-> w[1], after |-> w[2]]
    BY <1>2 DEF StartExplainer
  <2>2. w[1] \in Nat /\ w[2] \in Nat
    BY <2>1, ExplainerAssumption
  <2>3. phase' = "reading" /\ csv' = csv /\ txt' = txt /\ txt # None /\ phase = "none"
    BY <1>2 DEF StartExplainer, reportVars, writtenVars
  <2> QED
    BY <2>1, <2>2, <2>3 DEF StartInv, JobInv
<1>3. CASE StartGrapher
  BY <1>3 DEF StartGrapher, StartInv, JobInv, reportVars, writtenVars
<1>4. CASE Explain \/ ExitExplainer \/ Graph \/ Write
  <2>1. UNCHANGED <<reportVars, job>> /\ phase \in {"reading", "read"}
    BY <1>4 DEF Explain, ExitExplainer, Graph, Write, Reads
  <2>2. phase' \in {"reading", "read", "written", "exited", "crashed"}
    BY <1>4 DEF Explain, ExitExplainer, Graph, Write, Reads
  <2>3. csv' = csv /\ txt' = txt
    BY <2>1 DEF reportVars, writtenVars
  <2> QED
    BY <2>1, <2>2, <2>3 DEF StartInv, JobInv
<1>5. CASE UNCHANGED explainerVars
  <2>1. UNCHANGED <<reportVars, pictureVars, phase, job, pos, mutexes, recording>>
    BY <1>5 DEF explainerVars, drawingVars
  <2>2. csv' = csv /\ txt' = txt
    BY <2>1 DEF reportVars, writtenVars
  <2> QED
    BY <2>1, <2>2 DEF pictureVars, StartInv, JobInv
<1> QED
  BY <1>1, <1>2, <1>3, <1>4, <1>5 DEF ExplainerNext

\* Once the reports are written, a step starts to draw, reads a row, writes the
\* picture or gives it up, or changes nothing.
Rests == UNCHANGED <<reportVars, job, pos, mutexes, recording, pictureVars>>

LEMMA StepKinds ==
  ASSUME ReportInv, JobInv, [ExplainerNext]_explainerVars, phase' # "none"
  PROVE  \/ phase = "none" /\ (StartExplainer \/ StartGrapher)
         \/ phase # "none" /\ (Explain \/ Graph)
         \/ phase # "none" /\ (Write \/ ExitExplainer \/ (Rests /\ phase' = phase))
<1>1. CASE ReportNext /\ UNCHANGED drawingVars
  <2>1. phase # "none"
    BY <1>1 DEF drawingVars
  <2>2. UNCHANGED reportVars
    BY <1>1, <2>1, Frozen DEF JobInv
  <2> QED
    BY <1>1, <2>1, <2>2 DEF drawingVars, Rests
<1>2. CASE StartExplainer \/ StartGrapher
  BY <1>2 DEF StartExplainer, StartGrapher
<1>3. CASE Explain \/ Graph
  BY <1>3 DEF Explain, Graph, Reads
<1>4. CASE Write \/ ExitExplainer
  BY <1>4 DEF Write, ExitExplainer, Reads
<1>5. CASE UNCHANGED explainerVars
  BY <1>5 DEF explainerVars, drawingVars, Rests
<1> QED
  BY <1>1, <1>2, <1>3, <1>4, <1>5 DEF ExplainerNext

\* An address is in a list when the row of one of its entries is on it.
LEMMA ListMatched ==
  ASSUME NEW s, NEW q, NEW K, IsList(s, q, K), NEW a
  PROVE  (\E i \in DOMAIN s : s[i].addr = a) <=> \E j \in K : q[j].addr = a
<1>1. s \in Seq(Entry) /\ DOMAIN s = 1 .. Len(s)
  BY DEF IsList
<1>2. a \in Addrs(s) <=> \E j \in K : q[j].addr = a
  BY ListAddrs
<1>3. a \in Addrs(s) <=> \E i \in DOMAIN s : s[i].addr = a
  BY <1>1, AddrsElements
<1> QED
  BY <1>2, <1>3

\* The row is taken from the list or added to it as from the trace.
LEMMA ExplainList ==
  ASSUME Rising(trace), WellOrdered(trace), Explaining, ListInv, NEW n, n = pos + 1,
         pos \in Nat, n \in DOMAIN trace, NEW r, r = trace[n], Drawing!TrackLocks(r),
         ~Drawing!Unmatched(r)
  PROVE  /\ mutexes' \in [Threads -> Seq(Entry)]
         /\ \A t \in Threads : IsList(mutexes'[t], trace, OpenIn(trace, t, n))
<1> PICK u : u = r.thread
  OBVIOUS
<1> PICK s : s = mutexes[u]
  OBVIOUS
<1> PICK K : K = OpenIn(trace, u, pos)
  OBVIOUS
<1>0. n - 1 = pos /\ K \subseteq 1 .. n - 1
  BY DEF OpenIn
<1>1. /\ r \in Rows /\ u \in Threads /\ s \in Seq(Entry) /\ IsList(s, trace, K)
      /\ mutexes \in [Threads -> Seq(Entry)]
  <2>1. r \in Rows
    BY DEF Rising
  <2> QED
    BY <2>1, RowTyped DEF ListInv
<1>2. \A t : OpenIn(trace, t, n) = OpenNext(trace, t, pos)
  BY OpenStep
<1>3. Fits(trace, r, K)
  BY <1>0, <1>1 DEF WellOrdered
<1>4. ASSUME NEW t \in Threads, t # u
      PROVE  OpenIn(trace, t, n) = OpenIn(trace, t, pos)
  BY <1>2, <1>4 DEF OpenNext, Unlocks
<1>5. ASSUME NEW l \in Seq(Entry), mutexes' = [mutexes EXCEPT ![u] = l],
             IsList(l, trace, OpenIn(trace, u, n))
      PROVE  /\ mutexes' \in [Threads -> Seq(Entry)]
             /\ \A t \in Threads : IsList(mutexes'[t], trace, OpenIn(trace, t, n))
  BY <1>1, <1>4, <1>5 DEF ListInv
<1>6. CASE r.op = "THREADSTART"
  <2>1. mutexes' = [mutexes EXCEPT ![u] = <<>>]
    BY <1>6 DEF Drawing!TrackLocks
  <2>2. K = {}
    BY <1>3, <1>6 DEF Fits
  <2>3. OpenIn(trace, u, n) = {}
    BY <1>2, <1>6, <2>2 DEF OpenNext, IsGet
  <2>4. <<>> \in Seq(Entry) /\ IsList(<<>>, trace, {})
    BY DEF IsList, Once
  <2> QED
    BY <1>5, <2>1, <2>3, <2>4
<1>7. CASE r.op = "pthread_mutex_lock@get"
  <2> PICK e : e = EntryOf(r)
    OBVIOUS
  <2>1. mutexes' = [mutexes EXCEPT ![u] = Append(s, e)]
    BY <1>7 DEF Drawing!TrackLocks, Drawing!Opened, EntryOf
  <2>2. \A j \in K : trace[j].addr # r.addr
    BY <1>3, <1>7 DEF Fits, IsGet
  <2>3. OpenIn(trace, u, n) = K \cup {n}
    BY <1>2, <1>7 DEF OpenNext, IsGet, Unlocks, IsUnlock
  <2>4. IsList(Append(s, e), trace, K \cup {n})
    BY <1>0, <1>1, <2>2, GotList
  <2>5. Append(s, e) \in Seq(Entry)
    BY <2>4 DEF IsList
  <2> QED
    BY <1>5, <2>1, <2>3, <2>4, <2>5
<1>8. CASE r.op = "pthread_mutex_unlock"
  <2> PICK l : l = Without(s, r.addr)
    OBVIOUS
  <2>1. mutexes' = [mutexes EXCEPT ![u] = l]
    <3>1. Drawing!Closed(r) = l
      <4>1. Drawing!Positions(u, r.addr) = {i \in DOMAIN s : s[i].addr = r.addr}
        BY DEF Drawing!Positions
      <4>2. \A S : Drawing!Max(S) = Max(S)
        BY Zenon DEF Drawing!Max, Max
      <4>3. \A q, i : Drawing!RemoveAt(q, i) = RemoveAt(q, i)
        BY Zenon DEF Drawing!RemoveAt, RemoveAt
      <4> QED
        BY <4>1, <4>2, <4>3 DEF Drawing!Closed, Without
    <3> QED
      BY <1>8, <3>1 DEF Drawing!TrackLocks
  <2>2. \E j \in K : trace[j].addr = r.addr
    <3>1. \E i \in DOMAIN s : s[i].addr = r.addr
      BY <1>8 DEF Drawing!Unmatched, Drawing!Positions
    <3>2. IsList(s, trace, K)
      BY <1>1
    <3> QED
      BY ONLY <3>1, <3>2, ListMatched
  <2>3. OpenIn(trace, u, n) = Others(trace, K, r.addr)
    BY <1>2, <1>8 DEF Others, OpenNext, IsGet, Unlocks, IsUnlock
  <2>4. IsList(l, trace, Others(trace, K, r.addr))
    BY <1>1, <2>2, UnlockedList
  <2>5. l \in Seq(Entry)
    BY <2>4 DEF IsList
  <2> QED
    BY <1>5, <2>1, <2>3, <2>4, <2>5
<1>9. CASE r.op \notin {"THREADSTART", "pthread_mutex_lock@get", "pthread_mutex_unlock"}
  <2>1. mutexes' = mutexes
    BY <1>9, Zenon DEF Drawing!TrackLocks
  <2>2. OpenIn(trace, u, n) = K
    BY <1>2, <1>9, ZenonT(30) DEF OpenNext, IsGet, Unlocks, IsUnlock
  <2> QED
    BY <1>1, <1>4, <2>1, <2>2 DEF ListInv
<1> QED
  BY <1>6, <1>7, <1>8, <1>9

-----------------------------------------------------------------------------
(* Paths through the rows of a set. *)

IsLast(k, K) == k \in K /\ \A j \in K : j <= k

LEMMA NeighboursGrow ==
  ASSUME NEW K \in SUBSET Nat, NEW n \in Nat, \A j \in K : j < n
  PROVE  /\ K = {} => Neighbours(K \cup {n}) = {} /\ Neighbours(K) = {}
         /\ \A k : IsLast(k, K) => Neighbours(K \cup {n}) = Neighbours(K) \cup {<<k, n>>}
<1>1. ASSUME K = {} PROVE Neighbours(K \cup {n}) = {} /\ Neighbours(K) = {}
  <2>1. K \cup {n} = {n}
    BY <1>1
  <2>2. \A d \in {n} \X {n} : ~(d[1] < d[2])
    OBVIOUS
  <2> QED
    BY <1>1, <2>1, <2>2 DEF Neighbours
<1>2. ASSUME NEW k, IsLast(k, K) PROVE Neighbours(K \cup {n}) = Neighbours(K) \cup {<<k, n>>}
  <2>0. k \in K /\ (\A j \in K : j <= k) /\ k \in Nat
    BY <1>2 DEF IsLast
  <2>1. ASSUME NEW d \in Neighbours(K \cup {n}) PROVE d \in Neighbours(K) \cup {<<k, n>>}
    <3>1. /\ d \in (K \cup {n}) \X (K \cup {n}) /\ d[1] < d[2]
          /\ \A j \in K \cup {n} : ~(d[1] < j /\ j < d[2])
      BY DEF Neighbours
    <3>2. d = <<d[1], d[2]>> /\ d[1] \in K \cup {n} /\ d[2] \in K \cup {n}
      BY <3>1
    <3> PICK x : x = d[1]
      OBVIOUS
    <3> PICK y : y = d[2]
      OBVIOUS
    <3>3. x \in K /\ x \in Nat /\ y \in Nat /\ x < y
      <4>1. x \in K \cup {n} /\ y \in K \cup {n} /\ x < y
        BY <3>1, <3>2
      <4>2. x \in Nat /\ y \in Nat /\ y <= n
        <5>1. \A j \in K \cup {n} : j \in Nat /\ j <= n
          OBVIOUS
        <5> QED
          BY ONLY <4>1, <5>1
      <4>3. x # n
        BY <4>1, <4>2
      <4> QED
        BY <4>1, <4>2, <4>3
    <3>4. CASE d[2] \in K
      BY <3>1, <3>2, <3>3, <3>4 DEF Neighbours
    <3>5. CASE d[2] = n
      <4>1. ~(x < k)
        BY <2>0, <3>1, <3>5
      <4>2. x = k
        BY <2>0, <3>3, <4>1
      <4> QED
        BY <3>2, <3>5, <4>2
    <3> QED
      BY <3>2, <3>4, <3>5
  <2>2. ASSUME NEW d \in Neighbours(K) PROVE d \in Neighbours(K \cup {n})
    <3>1. /\ d \in K \X K /\ d[1] < d[2]
          /\ \A j \in K : ~(d[1] < j /\ j < d[2])
      BY DEF Neighbours
    <3>2. d[2] < n /\ d[2] \in Nat
      BY <3>1
    <3> QED
      BY <3>1, <3>2 DEF Neighbours
  <2>3. <<k, n>> \in Neighbours(K \cup {n})
    <3> PICK d : d = <<k, n>>
      OBVIOUS
    <3>1. d \in (K \cup {n}) \X (K \cup {n}) /\ d[1] = k /\ d[2] = n /\ k < n
      BY <2>0
    <3>2. \A j \in K \cup {n} : ~(k < j /\ j < n)
      BY <2>0
    <3> QED
      BY <3>1, <3>2 DEF Neighbours
  <2> QED
    BY <2>1, <2>2, <2>3
<1> QED
  BY <1>1, <1>2

LEMMA FirstsGrow ==
  ASSUME NEW K \in SUBSET Nat, NEW n \in Nat, \A j \in K : j < n
  PROVE  /\ Firsts({}) = {}
         /\ K = {} => Firsts(K \cup {n}) = {n}
         /\ K # {} => Firsts(K \cup {n}) = Firsts(K)
<1>1. ASSUME K # {} PROVE Firsts(K \cup {n}) = Firsts(K)
  <2>1. PICK k \in K : k < n /\ k \in Nat
    BY <1>1
  <2>2. n \notin Firsts(K \cup {n})
    BY <2>1 DEF Firsts
  <2>3. \A j \in K : j <= n
    OBVIOUS
  <2> QED
    BY <2>2, <2>3 DEF Firsts
<1> QED
  BY <1>1 DEF Firsts

Steps(q, K) == {<<State(q[d[1]]), State(q[d[2]])>> : d \in Neighbours(K)}
States(q, K) == {State(q[k]) : k \in K}

InnermostIn(q, t, k) ==
    IF OpenIn(q, t, k) = {} THEN [op |-> "no_lock", thread |-> t, addr |-> None, ipc |-> 0]
                            ELSE State(q[Max(OpenIn(q, t, k))])

Entries(tool, K) == IF tool = "explainer" THEN Firsts(K) ELSE {}
Entered(q, tool, t, K) == {InnermostIn(q, t, k) : k \in Entries(tool, K)}
Entering(q, tool, t, K) == {<<InnermostIn(q, t, k), State(q[k])>> : k \in Entries(tool, K)}

\* The nodes and edges of a thread t that went through the rows of K, and the
\* state it is in.
IsPathOf(q, tool, t, K, nodes, edges, last) ==
    /\ nodes = States(q, K) \cup Entered(q, tool, t, K)
    /\ edges = Steps(q, K) \cup Entering(q, tool, t, K)
    /\ \/ K = {} /\ last = None
       \/ \E k \in K : IsLast(k, K) /\ last = State(q[k])

LEMMA StepsGrow ==
  ASSUME NEW q, NEW K \in SUBSET Nat, NEW n \in Nat, \A j \in K : j < n
  PROVE  /\ K = {} => Steps(q, K \cup {n}) = {} /\ Steps(q, K) = {}
         /\ \A k : IsLast(k, K) =>
              Steps(q, K \cup {n}) = Steps(q, K) \cup {<<State(q[k]), State(q[n])>>}
         /\ States(q, K \cup {n}) = States(q, K) \cup {State(q[n])}
<1>1. ASSUME K = {} PROVE Steps(q, K \cup {n}) = {} /\ Steps(q, K) = {}
  BY <1>1, NeighboursGrow DEF Steps
<1>2. ASSUME NEW k, IsLast(k, K)
      PROVE  Steps(q, K \cup {n}) = Steps(q, K) \cup {<<State(q[k]), State(q[n])>>}
  <2> PICK N : N = Neighbours(K)
    OBVIOUS
  <2> PICK M : M = Neighbours(K \cup {n})
    OBVIOUS
  <2>1. M = N \cup {<<k, n>>}
    BY <1>2, NeighboursGrow
  <2>2. <<k, n>>[1] = k /\ <<k, n>>[2] = n
    OBVIOUS
  <2>3. {<<State(q[d[1]]), State(q[d[2]])>> : d \in M}
          = {<<State(q[d[1]]), State(q[d[2]])>> : d \in N} \cup {<<State(q[k]), State(q[n])>>}
    BY <2>1, <2>2
  <2> QED
    BY <2>3 DEF Steps
<1>3. States(q, K \cup {n}) = States(q, K) \cup {State(q[n])}
  BY DEF States
<1> QED
  BY <1>1, <1>2, <1>3

\* A path goes on with the state of its next row.
LEMMA PathGrow ==
  ASSUME NEW q, NEW tool, NEW t, NEW K \in SUBSET Nat, NEW n \in Nat, \A j \in K : j < n,
         NEW nodes, NEW edges, NEW last, IsPathOf(q, tool, t, K, nodes, edges, last),
         NEW s, s = State(q[n])
  PROVE  /\ K # {} => IsPathOf(q, tool, t, K \cup {n}, nodes \cup {s}, edges \cup {<<last, s>>}, s)
         /\ K = {} /\ tool # "explainer" =>
              IsPathOf(q, tool, t, K \cup {n}, nodes \cup {s}, edges, s)
         /\ K = {} /\ tool = "explainer" =>
              IsPathOf(q, tool, t, K \cup {n}, nodes \cup {InnermostIn(q, t, n)} \cup {s},
                       edges \cup {<<InnermostIn(q, t, n), s>>}, s)
<1> PICK L : L = K \cup {n}
  OBVIOUS
<1>1. IsLast(n, L) /\ n \in L
  BY DEF IsLast
<1>2. States(q, L) = States(q, K) \cup {s}
  BY StepsGrow
<1>3. ASSUME K # {} PROVE IsPathOf(q, tool, t, L, nodes \cup {s}, edges \cup {<<last, s>>}, s)
  <2>1. PICK k \in K : IsLast(k, K) /\ last = State(q[k])
    BY <1>3 DEF IsPathOf
  <2>2. Steps(q, L) = Steps(q, K) \cup {<<last, s>>}
    BY <2>1, StepsGrow
  <2>3. Entries(tool, L) = Entries(tool, K)
    BY <1>3, FirstsGrow DEF Entries
  <2>4. Entered(q, tool, t, L) = Entered(q, tool, t, K) /\ Entering(q, tool, t, L) = Entering(q, tool, t, K)
    BY <2>3 DEF Entered, Entering
  <2> QED
    BY <1>1, <1>2, <2>2, <2>4 DEF IsPathOf
<1>4. ASSUME K = {}
      PROVE  /\ Steps(q, L) = Steps(q, K) /\ Entries(tool, K) = {}
             /\ Entries(tool, L) = IF tool = "explainer" THEN {n} ELSE {}
  <2>1. Steps(q, L) = {} /\ Steps(q, K) = {}
    BY <1>4, StepsGrow
  <2>2. Firsts(K) = {} /\ Firsts(L) = {n}
    BY <1>4, FirstsGrow
  <2> QED
    BY <2>1, <2>2 DEF Entries
<1>5. ASSUME K = {}, tool # "explainer"
      PROVE  IsPathOf(q, tool, t, L, nodes \cup {s}, edges, s)
  <2>1. Entered(q, tool, t, L) = Entered(q, tool, t, K) /\ Entering(q, tool, t, L) = Entering(q, tool, t, K)
    BY <1>4, <1>5 DEF Entered, Entering
  <2> QED
    BY <1>1, <1>2, <1>4, <1>5, <2>1 DEF IsPathOf
<1>6. ASSUME K = {}, tool = "explainer"
      PROVE  IsPathOf(q, tool, t, L, nodes \cup {InnermostIn(q, t, n)} \cup {s},
                      edges \cup {<<InnermostIn(q, t, n), s>>}, s)
  <2> PICK i : i = InnermostIn(q, t, n)
    OBVIOUS
  <2>1. Entered(q, tool, t, K) = {} /\ Entering(q, tool, t, K) = {}
    BY <1>4, <1>6 DEF Entered, Entering
  <2>2. Entered(q, tool, t, L) = {i} /\ Entering(q, tool, t, L) = {<<i, s>>}
    BY <1>4, <1>6 DEF Entered, Entering
  <2> QED
    BY <1>1, <1>2, <1>4, <1>6, <2>1, <2>2 DEF IsPathOf
<1> QED
  BY <1>3, <1>5, <1>6

\* A path through no rows.
LEMMA NoPath ==
  ASSUME NEW q, NEW tool, NEW t
  PROVE  IsPathOf(q, tool, t, {}, {}, {}, None)
<1>1. Neighbours({}) = {} /\ Firsts({}) = {}
  BY DEF Neighbours, Firsts
<1> QED
  BY <1>1 DEF IsPathOf, States, Entered, Steps, Entering, Entries

-----------------------------------------------------------------------------
(* The edges between the rows of a set, on each address. *)

NotedAt(q, N, a) == {k \in N : q[k].addr = a}

\* The pairs of rows of N that are an idiom on some address.
Idioms(q, N) ==
    {e \in UNION {Neighbours(NotedAt(q, N, a)) : a \in Addresses} : IsIdiom(q[e[1]], q[e[2]])}
EdgesOf(q, E) == {<<State(q[d[1]]), State(q[d[2]])>> : d \in E}

IsWoven(q, N, edges, last) ==
    /\ edges = EdgesOf(q, Idioms(q, N))
    /\ \A a \in Addresses :
           \/ NotedAt(q, N, a) = {} /\ last[a] = None
           \/ \E k \in NotedAt(q, N, a) : IsLast(k, NotedAt(q, N, a)) /\ last[a] = q[k]

LEMMA EdgesGrow ==
  ASSUME NEW q, NEW E, NEW d
  PROVE  EdgesOf(q, E \cup {d}) = EdgesOf(q, E) \cup {<<State(q[d[1]]), State(q[d[2]])>>}
  BY DEF EdgesOf

\* A row is noted after the last one on its address, if any.
LEMMA IdiomsGrow ==
  ASSUME NEW q, NEW N \in SUBSET Nat, NEW n \in Nat, \A j \in N : j < n, q[n].addr \in Addresses,
         NEW K, K = NotedAt(q, N, q[n].addr)
  PROVE  /\ K = {} => Idioms(q, N \cup {n}) = Idioms(q, N)
         /\ \A k : IsLast(k, K) =>
              Idioms(q, N \cup {n}) = Idioms(q, N) \cup (IF IsIdiom(q[k], q[n]) THEN {<<k, n>>} ELSE {})
<1> DEFINE At(a) == Neighbours(NotedAt(q, N, a))
           After(a) == Neighbours(NotedAt(q, N \cup {n}, a))
<1>1. ASSUME NEW a, a # q[n].addr PROVE After(a) = At(a)
  <2>1. NotedAt(q, N \cup {n}, a) = NotedAt(q, N, a)
    BY <1>1 DEF NotedAt
  <2> QED
    BY <2>1
<1>2. NotedAt(q, N \cup {n}, q[n].addr) = K \cup {n} /\ K \in SUBSET Nat /\ \A j \in K : j < n
  BY DEF NotedAt
<1>3. ASSUME K = {} PROVE After(q[n].addr) = At(q[n].addr)
  BY <1>2, <1>3, NeighboursGrow
<1>4. ASSUME NEW k, IsLast(k, K) PROVE After(q[n].addr) = At(q[n].addr) \cup {<<k, n>>}
  <2>1. Neighbours(K \cup {n}) = Neighbours(K) \cup {<<k, n>>}
    BY <1>2, <1>4, NeighboursGrow
  <2> QED
    BY <1>2, <2>1
<1> PICK old : old = UNION {At(a) : a \in Addresses}
  OBVIOUS
<1> PICK new : new = UNION {After(a) : a \in Addresses}
  OBVIOUS
<1>0. /\ Idioms(q, N) = {e \in old : IsIdiom(q[e[1]], q[e[2]])}
      /\ Idioms(q, N \cup {n}) = {e \in new : IsIdiom(q[e[1]], q[e[2]])}
  BY DEF Idioms
<1> HIDE DEF At, After
<1>5. ASSUME K = {} PROVE Idioms(q, N \cup {n}) = Idioms(q, N)
  <2>1. \A a : After(a) = At(a)
    BY <1>1, <1>3, <1>5
  <2>2. new = old
    BY <2>1
  <2> QED
    BY <1>0, <2>2
<1>6. ASSUME NEW k, IsLast(k, K)
      PROVE  Idioms(q, N \cup {n}) = Idioms(q, N) \cup (IF IsIdiom(q[k], q[n]) THEN {<<k, n>>} ELSE {})
  <2>1. new = old \cup {<<k, n>>}
    <3>1. After(q[n].addr) = At(q[n].addr) \cup {<<k, n>>}
      BY <1>4, <1>6
    <3>2. ASSUME NEW e \in new PROVE e \in old \cup {<<k, n>>}
      <4>1. PICK a \in Addresses : e \in After(a)
        OBVIOUS
      <4> QED
        BY <1>1, <3>1, <4>1
    <3>3. ASSUME NEW e \in old PROVE e \in new
      <4>1. PICK a \in Addresses : e \in At(a)
        OBVIOUS
      <4>2. e \in After(a)
        BY <1>1, <3>1, <4>1
      <4> QED
        BY <4>2
    <3>4. <<k, n>> \in new
      BY <3>1
    <3> QED
      BY <3>2, <3>3, <3>4
  <2>2. <<k, n>>[1] = k /\ <<k, n>>[2] = n
    OBVIOUS
  <2>3. {e \in old \cup {<<k, n>>} : IsIdiom(q[e[1]], q[e[2]])} =
          {e \in old : IsIdiom(q[e[1]], q[e[2]])} \cup (IF IsIdiom(q[k], q[n]) THEN {<<k, n>>} ELSE {})
    BY <2>2
  <2> QED
    BY <1>0, <2>1, <2>3
<1> QED
  BY <1>5, <1>6

LEMMA WovenGrow ==
  ASSUME NEW q, NEW N \in SUBSET Nat, NEW n \in Nat, \A j \in N : j < n,
         NEW a, a = q[n].addr, a \in Addresses, None \notin {q[j] : j \in N},
         NEW edges, NEW last, IsWoven(q, N, edges, last),
         NEW after, NEW noted,
         \A b \in Addresses : noted[b] = IF b = a THEN q[n] ELSE last[b],
         after = IF last[a] # None /\ IsIdiom(last[a], q[n])
                 THEN edges \cup {<<State(last[a]), State(q[n])>>} ELSE edges
  PROVE  IsWoven(q, N \cup {n}, after, noted)
<1> PICK K : K = NotedAt(q, N, a)
  OBVIOUS
<1> PICK M : M = N \cup {n}
  OBVIOUS
<1>1. \A b : NotedAt(q, M, b) = IF b = a THEN K \cup {n} ELSE NotedAt(q, N, b)
  BY DEF NotedAt
<1>2. \A j \in K : j \in N /\ j < n /\ j <= n
  BY DEF NotedAt
<1>3. ASSUME NEW b \in Addresses
      PROVE  \/ NotedAt(q, M, b) = {} /\ noted[b] = None
             \/ \E k \in NotedAt(q, M, b) : IsLast(k, NotedAt(q, M, b)) /\ noted[b] = q[k]
  <2>1. CASE b = a
    <3>1. NotedAt(q, M, b) = K \cup {n} /\ noted[b] = q[n]
      BY <1>1, <2>1
    <3>2. IsLast(n, K \cup {n})
      BY <1>2 DEF IsLast
    <3> QED
      BY <3>1, <3>2
  <2>2. CASE b # a
    <3>1. NotedAt(q, M, b) = NotedAt(q, N, b) /\ noted[b] = last[b]
      BY <1>1, <2>2
    <3> QED
      BY <3>1, SMTT(30) DEF IsWoven
  <2> QED
    BY <2>1, <2>2
<1>4. after = EdgesOf(q, Idioms(q, M))
  <2>1. CASE K = {} /\ last[a] = None
    <3>1. K = {} => Idioms(q, M) = Idioms(q, N)
      BY IdiomsGrow
    <3> QED
      BY <2>1, <3>1 DEF IsWoven
  <2>2. ASSUME NEW k \in K, IsLast(k, K), last[a] = q[k] PROVE after = EdgesOf(q, Idioms(q, M))
    <3> PICK I : I = Idioms(q, N)
      OBVIOUS
    <3>1. Idioms(q, M) = I \cup (IF IsIdiom(q[k], q[n]) THEN {<<k, n>>} ELSE {})
      BY <2>2, IdiomsGrow
    <3>2. q[k] # None
      BY <1>2
    <3>3. edges = EdgesOf(q, I)
      BY DEF IsWoven
    <3>4. CASE IsIdiom(q[k], q[n])
      <4>1. Idioms(q, M) = I \cup {<<k, n>>}
        BY <3>1, <3>4
      <4>2. EdgesOf(q, I \cup {<<k, n>>}) = EdgesOf(q, I) \cup {<<State(q[k]), State(q[n])>>}
        <5> PICK d : d = <<k, n>>
          OBVIOUS
        <5>1. EdgesOf(q, I \cup {d}) = EdgesOf(q, I) \cup {<<State(q[d[1]]), State(q[d[2]])>>}
          BY ONLY EdgesGrow
        <5> QED
          BY <5>1
      <4>3. after = edges \cup {<<State(q[k]), State(q[n])>>}
        BY <2>2, <3>2, <3>4
      <4> QED
        BY <3>3, <4>1, <4>2, <4>3
    <3>5. CASE ~IsIdiom(q[k], q[n])
      <4>1. Idioms(q, M) = I
        BY <3>1, <3>5
      <4>2. after = edges
        BY <2>2, <3>5
      <4> QED
        BY <3>3, <4>1, <4>2
    <3> QED
      BY <3>4, <3>5
  <2>3. \/ K = {} /\ last[a] = None
        \/ \E k \in K : IsLast(k, K) /\ last[a] = q[k]
    BY DEF IsWoven
  <2> QED
    BY <2>1, <2>2, <2>3
<1> QED
  BY <1>3, <1>4 DEF IsWoven

\* Nothing noted.
LEMMA NotWoven ==
  ASSUME NEW q, NEW last, \A a \in Addresses : last[a] = None
  PROVE  IsWoven(q, {}, {}, last)
<1>1. Neighbours({}) = {} /\ \A a : NotedAt(q, {}, a) = {}
  BY DEF Neighbours, NotedAt
<1>2. Idioms(q, {}) = {}
  BY <1>1 DEF Idioms
<1> QED
  BY <1>1, <1>2 DEF IsWoven, EdgesOf

-----------------------------------------------------------------------------
(* Drawing the rows of the trace. *)

PosInv ==
    /\ pos \in 0 .. Len(trace)
    /\ shown \subseteq {trace[n].ts : n \in 1 .. pos}

ShapeInv ==
    /\ DOMAIN graph = Threads /\ DOMAIN lastState = Threads /\ DOMAIN transitions = Threads
    /\ DOMAIN lastOn = Addresses

\* Each thread's graph is a path through its rows.
PathInv ==
    phase # "none" =>
        \A t \in Threads :
            IsPathOf(trace, job.tool, t, DrawnOf(t), DOMAIN graph[t], transitions[t], lastState[t])

\* The edges between threads join what is noted next to each other.
WovenInv == phase # "none" => IsWoven(trace, NotedRows, interleavings, lastOn)

\* The next row is drawn or not.
LEMMA NextDrawn ==
  ASSUME Rising(trace), PosInv, pos < Len(trace), pos' = pos + 1, trace' = trace,
         NEW n, n = pos + 1, NEW ts, ts = trace[n].ts
  PROVE  /\ n \in DOMAIN trace /\ n \in Nat /\ pos \in Nat
         /\ Drawn \in SUBSET Nat /\ \A j \in Drawn : j < n /\ j \in DOMAIN trace
         /\ shown' = shown => PosInv' /\ Drawn' = Drawn
         /\ shown' = shown \cup {ts} => PosInv' /\ Drawn' = Drawn \cup {n}
<1>1. /\ Len(trace) \in Nat /\ DOMAIN trace = 1 .. Len(trace)
      /\ pos \in Nat /\ n \in 1 .. Len(trace) /\ pos' = n
  BY DEF Rising, PosInv
<1>2. \A m \in 1 .. pos : trace[m].ts < ts /\ trace[m].ts \in Nat /\ ts \in Nat
  <2> SUFFICES ASSUME NEW m \in 1 .. pos PROVE trace[m].ts < ts /\ trace[m].ts \in Nat /\ ts \in Nat
    OBVIOUS
  <2>1. m \in DOMAIN trace /\ n \in DOMAIN trace /\ m < n
    BY <1>1
  <2>2. trace[m] \in Rows /\ trace[n] \in Rows /\ trace[m].ts < trace[n].ts
    BY <2>1 DEF Rising
  <2> QED
    BY <2>2, RowTyped
<1>3. ts \notin shown
  <2> SUFFICES ASSUME ts \in shown PROVE FALSE
    OBVIOUS
  <2>1. PICK m \in 1 .. pos : ts = trace[m].ts
    BY DEF PosInv
  <2> QED
    BY <1>2, <2>1
<1>4. Drawn = {k \in 1 .. pos : trace[k].ts \in shown} /\ Drawn' = {k \in 1 .. n : trace[k].ts \in shown'}
  BY <1>1 DEF Drawn
<1>5. \A k \in 1 .. n : k \in 1 .. pos \/ k = n
  BY <1>1
<1>6. n \notin 1 .. pos /\ n \in 1 .. n /\ \A k \in 1 .. pos : k \in 1 .. n
  BY <1>1
<1>7. \A k \in 1 .. pos : trace[k].ts # ts
  BY <1>2
<1>8. ASSUME shown' = shown PROVE PosInv' /\ Drawn' = Drawn
  <2>1. Drawn' = Drawn
    BY <1>3, <1>4, <1>5, <1>6, <1>8
  <2>2. PosInv'
    BY <1>1, <1>6, <1>8 DEF PosInv
  <2> QED
    BY <2>1, <2>2
<1>9. ASSUME shown' = shown \cup {ts} PROVE PosInv' /\ Drawn' = Drawn \cup {n}
  <2>1. Drawn' = Drawn \cup {n}
    BY <1>4, <1>5, <1>6, <1>7, <1>9
  <2>2. PosInv'
    BY <1>1, <1>6, <1>9 DEF PosInv
  <2> QED
    BY <2>1, <2>2
<1>10. Drawn \in SUBSET Nat /\ \A j \in Drawn : j < n /\ j \in DOMAIN trace
  BY <1>1, <1>4
<1> QED
  BY <1>1, <1>8, <1>9, <1>10

\* What the steps that draw a row have in common: the row n of the trace by u.
Draws(n, r, u) ==
    /\ Rising(trace) /\ PosInv /\ ShapeInv
    /\ phase # "none" /\ phase' # "none"
    /\ pos < Len(trace) /\ pos' = pos + 1 /\ n = pos + 1
    /\ r = trace[n] /\ u = r.thread
    /\ trace' = trace /\ job' = job
    /\ shown' = shown \cup {r.ts}

LEMMA DrawnThreads ==
  ASSUME NEW n, NEW r, NEW u, Draws(n, r, u)
  PROVE  /\ r \in Rows /\ u \in Threads /\ r.addr \in Addresses /\ r.ts \in Nat
         /\ n \in Nat /\ Drawn \in SUBSET Nat /\ \A j \in Drawn : j < n /\ trace[j] \in Rows
         /\ Drawn' = Drawn \cup {n}
         /\ \A t : /\ DrawnOf(t) \in SUBSET Nat /\ \A j \in DrawnOf(t) : j < n
                   /\ DrawnOf(t)' = IF t = u THEN DrawnOf(t) \cup {n} ELSE DrawnOf(t)
<1>1. /\ n \in DOMAIN trace /\ n \in Nat /\ Drawn \in SUBSET Nat
      /\ \A j \in Drawn : j < n /\ j \in DOMAIN trace
      /\ Drawn' = Drawn \cup {n}
  <2>1. /\ Rising(trace) /\ PosInv /\ pos < Len(trace) /\ pos' = pos + 1 /\ trace' = trace
        /\ n = pos + 1 /\ r.ts = trace[n].ts /\ shown' = shown \cup {r.ts}
    BY DEF Draws
  <2> PICK ts : ts = r.ts
    OBVIOUS
  <2>2. ts = trace[n].ts /\ shown' = shown \cup {ts}
    BY <2>1
  <2> QED
    BY <2>1, <2>2, NextDrawn
<1>2. r \in Rows /\ r = trace[n] /\ \A j \in Drawn : trace[j] \in Rows
  BY <1>1 DEF Draws, Rising
<1>3. ASSUME NEW t
      PROVE  /\ DrawnOf(t) \in SUBSET Nat /\ \A j \in DrawnOf(t) : j < n
             /\ DrawnOf(t)' = IF t = u THEN DrawnOf(t) \cup {n} ELSE DrawnOf(t)
  <2>1. DrawnOf(t) = {k \in Drawn : trace[k].thread = t}
    BY DEF DrawnOf
  <2>2. DrawnOf(t)' = {k \in Drawn \cup {n} : trace[k].thread = t}
    BY <1>1 DEF DrawnOf, Draws
  <2>3. trace[n].thread = u
    BY DEF Draws
  <2> QED
    BY <1>1, <2>1, <2>2, <2>3
<1> QED
  BY <1>1, <1>2, <1>3, RowTyped DEF Draws

\* A thread has no node as long as it has no row.
LEMMA FirstRow ==
  ASSUME NEW q, NEW tool, NEW t, NEW K, NEW nodes, NEW edges, NEW last,
         IsPathOf(q, tool, t, K, nodes, edges, last)
  PROVE  nodes = {} <=> K = {}
<1>1. nodes = States(q, K) \cup Entered(q, tool, t, K)
  BY DEF IsPathOf
<1>2. K # {} => States(q, K) # {}
  BY DEF States
<1>3. K = {} => States(q, K) = {} /\ Entered(q, tool, t, K) = {}
  BY DEF States, Entered, Entries, Firsts
<1> QED
  BY <1>1, <1>2, <1>3

\* The thread u has gone on.
Moves(u, nodes, edges, last) ==
    \A t \in Threads : /\ DOMAIN graph'[t] = IF t = u THEN nodes ELSE DOMAIN graph[t]
                       /\ transitions'[t] = IF t = u THEN edges ELSE transitions[t]
                       /\ lastState'[t] = IF t = u THEN last ELSE lastState[t]

\* The other threads' paths stay.
LEMMA OtherPaths ==
  ASSUME NEW n, NEW r, NEW u, Draws(n, r, u), PathInv, NEW nodes, NEW edges, NEW last,
         IsPathOf(trace, job.tool, u, DrawnOf(u) \cup {n}, nodes, edges, last),
         Moves(u, nodes, edges, last)
  PROVE  PathInv'
<1> SUFFICES ASSUME NEW t \in Threads
             PROVE  IsPathOf(trace, job.tool, t, DrawnOf(t)', DOMAIN graph'[t],
                             transitions'[t], lastState'[t])
  BY DEF PathInv, Draws
<1>1. ShapeInv /\ phase # "none" /\ u \in Threads
  BY DrawnThreads DEF Draws
<1>2. CASE t = u
  <2>1. DOMAIN graph'[t] = nodes /\ transitions'[t] = edges /\ lastState'[t] = last
    BY <1>2 DEF Moves
  <2>2. DrawnOf(t)' = DrawnOf(u) \cup {n}
    BY <1>2, DrawnThreads
  <2> QED
    BY <1>2, <2>1, <2>2
<1>3. CASE t # u
  <2>1. /\ DOMAIN graph'[t] = DOMAIN graph[t]
        /\ transitions'[t] = transitions[t] /\ lastState'[t] = lastState[t]
    BY <1>3 DEF Moves
  <2>2. DrawnOf(t)' = DrawnOf(t)
    BY <1>3, DrawnThreads
  <2> QED
    BY <1>1, <2>1, <2>2 DEF PathInv
<1> QED
  BY <1>2, <1>3

LEMMA NodesAfter == \A g, s, ts : DOMAIN AddNode(g, s, ts) = DOMAIN g \cup {s}
  BY DEF AddNode

\* The explainer's list names the mutex the trace shows as innermost.
LEMMA LockStateIs ==
  ASSUME Rising(trace), NEW n \in DOMAIN trace, NEW u,
         IsList(mutexes'[u], trace, OpenIn(trace, u, n))
  PROVE  LockState(u) = InnermostIn(trace, u, n)
<1> PICK l : l = mutexes'[u]
  OBVIOUS
<1> PICK O : O = OpenIn(trace, u, n)
  OBVIOUS
<1> PICK m : m = Max(O)
  OBVIOUS
<1>1. /\ l = <<>> <=> O = {}
      /\ l # <<>> => m \in O /\ Last(l) = EntryOf(trace[m])
  <2>1. O \subseteq DOMAIN trace /\ IsList(l, trace, O)
    BY DEF OpenIn, Rising
  <2> QED
    BY <2>1, LastOfList
<1>2. CASE l = <<>>
  BY <1>1, <1>2 DEF LockState, InnermostIn
<1>3. CASE l # <<>>
  <2>1. m \in O /\ Last(l) = EntryOf(trace[m]) /\ O # {}
    BY <1>1, <1>3
  <2>2. trace[m].op = "pthread_mutex_lock@get" /\ trace[m].thread = u
    BY <2>1 DEF OpenIn, IsGet
  <2>3. Last(l).addr = trace[m].addr /\ Last(l).ipc = trace[m].ipc
    BY <2>1 DEF EntryOf
  <2>4. LockState(u) = State(trace[m])
    BY <1>3, <2>2, <2>3 DEF LockState, State
  <2>5. InnermostIn(trace, u, n) = State(trace[m])
    BY <2>1 DEF InnermostIn
  <2> QED
    BY <2>4, <2>5
<1> QED
  BY <1>2, <1>3

LEMMA ExplainedPath ==
  ASSUME NEW n, NEW r, NEW u, Draws(n, r, u), PathInv, job.tool = "explainer",
         IsList(mutexes'[u], trace, OpenIn(trace, u, n)), DrawExplained(r)
  PROVE  PathInv'
<1> PICK K : K = DrawnOf(u)
  OBVIOUS
<1> PICK s : s = State(r)
  OBVIOUS
<1> PICK lock : lock = LockState(u)
  OBVIOUS
<1>1. /\ r = trace[n] /\ r.thread = u /\ u \in Threads /\ K \in SUBSET Nat /\ n \in Nat
      /\ \A j \in K : j < n
      /\ Rising(trace) /\ n \in DOMAIN trace /\ phase # "none" /\ ShapeInv
  <2>1. n \in DOMAIN trace
    BY DEF Draws, PosInv, Rising
  <2> QED
    BY <2>1, DrawnThreads DEF Draws
<1>2. lock = InnermostIn(trace, u, n)
  BY <1>1, LockStateIs
<1>3. IsPathOf(trace, job.tool, u, K, DOMAIN graph[u], transitions[u], lastState[u])
  BY <1>1 DEF PathInv
<1>4. DOMAIN graph[u] = {} <=> K = {}
  BY <1>3, FirstRow
<1>5. CASE K = {}
  <2>0. DOMAIN graph[u] = {}
    BY <1>4, <1>5
  <2> PICK g : g = AddNode(AddNode(graph[u], lock, LockStamp(u)), s, r.ts)
    OBVIOUS
  <2>1. graph' = [graph EXCEPT ![u] = g]
    BY <1>1, <2>0 DEF DrawExplained
  <2>2. DOMAIN g = DOMAIN graph[u] \cup {lock} \cup {s}
    <3> PICK f : f = AddNode(graph[u], lock, LockStamp(u))
      OBVIOUS
    <3>1. DOMAIN f = DOMAIN graph[u] \cup {lock}
      BY NodesAfter
    <3>2. DOMAIN g = DOMAIN f \cup {s}
      BY NodesAfter
    <3> QED
      BY <3>1, <3>2
  <2>3. /\ transitions' = [transitions EXCEPT ![u] = transitions[u] \cup {<<lock, s>>}]
        /\ lastState' = [lastState EXCEPT ![u] = s]
    BY <1>1, <2>0 DEF DrawExplained, MoveOn
  <2> PICK nodes : nodes = DOMAIN graph[u] \cup {lock} \cup {s}
    OBVIOUS
  <2> PICK edges : edges = transitions[u] \cup {<<lock, s>>}
    OBVIOUS
  <2>4. IsPathOf(trace, job.tool, u, K \cup {n}, nodes, edges, s)
    BY <1>1, <1>2, <1>3, <1>5, PathGrow
  <2>5. Moves(u, nodes, edges, s)
    BY <1>1, <2>1, <2>2, <2>3 DEF Moves, ShapeInv
  <2> QED
    BY <2>4, <2>5, OtherPaths
<1>6. CASE K # {}
  <2>0. DOMAIN graph[u] # {}
    BY <1>4, <1>6
  <2> PICK g : g = AddNode(graph[u], s, r.ts)
    OBVIOUS
  <2>1. graph' = [graph EXCEPT ![u] = g]
    BY <1>1, <2>0 DEF DrawExplained
  <2>2. DOMAIN g = DOMAIN graph[u] \cup {s}
    BY NodesAfter
  <2>3. /\ transitions' = [transitions EXCEPT ![u] = transitions[u] \cup {<<lastState[u], s>>}]
        /\ lastState' = [lastState EXCEPT ![u] = s]
    BY <1>1, <2>0 DEF DrawExplained, MoveOn
  <2> PICK nodes : nodes = DOMAIN graph[u] \cup {s}
    OBVIOUS
  <2> PICK edges : edges = transitions[u] \cup {<<lastState[u], s>>}
    OBVIOUS
  <2>4. IsPathOf(trace, job.tool, u, K \cup {n}, nodes, edges, s)
    BY <1>1, <1>3, <1>6, PathGrow
  <2>5. Moves(u, nodes, edges, s)
    BY <1>1, <2>1, <2>2, <2>3 DEF Moves, ShapeInv
  <2> QED
    BY <2>4, <2>5, OtherPaths
<1> QED
  BY <1>5, <1>6

LEMMA PlainPath ==
  ASSUME NEW n, NEW r, NEW u, Draws(n, r, u), PathInv, job.tool # "explainer", DrawPlain(r)
  PROVE  PathInv' /\ (lastState[u] = None <=> DrawnOf(u) = {})
<1> PICK K : K = DrawnOf(u)
  OBVIOUS
<1> PICK s : s = State(r)
  OBVIOUS
<1>1. /\ r = trace[n] /\ r.thread = u /\ u \in Threads /\ K \in SUBSET Nat /\ n \in Nat
      /\ \A j \in K : j < n
      /\ phase # "none" /\ ShapeInv
  BY DrawnThreads DEF Draws
<1>2. IsPathOf(trace, job.tool, u, K, DOMAIN graph[u], transitions[u], lastState[u])
  BY <1>1 DEF PathInv
<1>3. lastState[u] = None <=> K = {}
  <2>1. \A k \in K : State(trace[k]) # None
    <3>1. \A k \in K : trace[k] \in Rows
      BY DrawnThreads DEF DrawnOf
    <3> QED
      BY <3>1, NoneAssumption
  <2> QED
    BY <1>2, <2>1 DEF IsPathOf
<1> PICK g : g = AddNode(graph[u], s, r.ts)
  OBVIOUS
<1>4. graph' = [graph EXCEPT ![u] = g] /\ DOMAIN g = DOMAIN graph[u] \cup {s}
  BY <1>1, NodesAfter DEF DrawPlain
<1>5. CASE K = {}
  <2>1. transitions' = transitions /\ lastState' = [lastState EXCEPT ![u] = s]
    BY <1>1, <1>3, <1>5 DEF DrawPlain
  <2> PICK nodes : nodes = DOMAIN graph[u] \cup {s}
    OBVIOUS
  <2>2. IsPathOf(trace, job.tool, u, K \cup {n}, nodes, transitions[u], s)
    BY <1>1, <1>2, <1>5, PathGrow
  <2>3. Moves(u, nodes, transitions[u], s)
    BY <1>1, <1>4, <2>1 DEF Moves, ShapeInv
  <2> QED
    BY <1>3, <2>2, <2>3, OtherPaths
<1>6. CASE K # {}
  <2>1. /\ transitions' = [transitions EXCEPT ![u] = transitions[u] \cup {<<lastState[u], s>>}]
        /\ lastState' = [lastState EXCEPT ![u] = s]
    BY <1>1, <1>3, <1>6 DEF DrawPlain, MoveOn
  <2> PICK nodes : nodes = DOMAIN graph[u] \cup {s}
    OBVIOUS
  <2> PICK edges : edges = transitions[u] \cup {<<lastState[u], s>>}
    OBVIOUS
  <2>2. IsPathOf(trace, job.tool, u, K \cup {n}, nodes, edges, s)
    BY <1>1, <1>2, <1>6, PathGrow
  <2>3. Moves(u, nodes, edges, s)
    BY <1>1, <1>4, <2>1 DEF Moves, ShapeInv
  <2> QED
    BY <1>3, <2>2, <2>3, OtherPaths
<1> QED
  BY <1>5, <1>6

\* A row that is noted is woven into the edges.
LEMMA NotedRow ==
  ASSUME NEW n, NEW r, NEW u, Draws(n, r, u), PathInv', WovenInv,
         NotedRows' = NotedRows \cup {n}, AddInterleaving(r), NoteLast(r)
  PROVE  WovenInv'
<1> PICK N : N = NotedRows
  OBVIOUS
<1> PICK a : a = r.addr
  OBVIOUS
<1> PICK after : after = interleavings'
  OBVIOUS
<1> PICK noted : noted = lastOn'
  OBVIOUS
<1>1. /\ r \in Rows /\ a \in Addresses /\ u \in Threads /\ n \in Nat
      /\ N \in SUBSET Nat /\ \A j \in N : j < n /\ trace[j] \in Rows /\ j \in Drawn
      /\ r = trace[n] /\ trace' = trace /\ phase # "none" /\ phase' # "none" /\ ShapeInv
      /\ Drawn' = Drawn \cup {n} /\ job' = job
  BY DrawnThreads DEF NotedRows, Draws
<1>2. IsWoven(trace, N, interleavings, lastOn)
  BY <1>1 DEF WovenInv
<1>3. None \notin {trace[j] : j \in N}
  BY <1>1, NoneAssumption
<1>4. \A b \in Addresses : noted[b] = IF b = a THEN trace[n] ELSE lastOn[b]
  BY <1>1 DEF NoteLast, ShapeInv
<1>5. ASSUME NEW k \in Drawn \cup {n} PROVE \E t \in Threads : State(trace[k]) \in DOMAIN graph'[t]
  <2>1. trace[k] \in Rows /\ k \in Drawn'
    BY <1>1, DrawnThreads
  <2> PICK t : t = trace[k].thread
    OBVIOUS
  <2>2. t \in Threads
    BY <2>1, RowTyped
  <2>3. k \in DrawnOf(t)'
    BY <1>1, <2>1 DEF DrawnOf
  <2>4. DOMAIN graph'[t] = States(trace, DrawnOf(t)') \cup Entered(trace, job.tool, t, DrawnOf(t)')
    BY <1>1, <2>2 DEF PathInv, IsPathOf
  <2> PICK D : D = DrawnOf(t)'
    OBVIOUS
  <2>5. State(trace[k]) \in States(trace, D)
    BY <2>3 DEF States
  <2> QED
    BY <2>2, <2>4, <2>5
<1>6. lastOn[a] # None => \E k \in N : lastOn[a] = trace[k]
  BY <1>1, <1>2 DEF IsWoven, NotedAt
<1>7. after = IF lastOn[a] # None /\ IsIdiom(lastOn[a], trace[n])
              THEN interleavings \cup {<<State(lastOn[a]), State(trace[n])>>} ELSE interleavings
  <2>1. \E t \in Threads : State(r) \in DOMAIN graph'[t]
    BY <1>1, <1>5
  <2>2. lastOn[a] # None => \E t \in Threads : State(lastOn[a]) \in DOMAIN graph'[t]
    BY <1>1, <1>5, <1>6
  <2> QED
    BY <1>1, <2>1, <2>2 DEF AddInterleaving
<1>8. IsWoven(trace, N \cup {n}, after, noted)
  <2>1. \A j \in N : j < n
    BY <1>1
  <2>2. a = trace[n].addr /\ a \in Addresses
    BY <1>1
  <2> QED
    BY <1>1, <1>2, <1>3, <1>4, <1>7, <2>1, <2>2, WovenGrow
<1> QED
  BY <1>1, <1>8 DEF WovenInv

LEMMA ExplainedWoven ==
  ASSUME NEW n, NEW r, NEW u, Draws(n, r, u), PathInv', WovenInv, job.tool = "explainer",
         DrawExplained(r)
  PROVE  WovenInv'
<1>1. NotedRows = Drawn /\ NotedRows' = Drawn'
  BY DEF NotedRows, Draws
<1>2. NotedRows' = NotedRows \cup {n}
  BY <1>1, DrawnThreads
<1> QED
  BY <1>2, NotedRow DEF DrawExplained

LEMMA PlainWoven ==
  ASSUME NEW n, NEW r, NEW u, Draws(n, r, u), PathInv', WovenInv, job.tool # "explainer",
         DrawPlain(r), lastState[u] = None <=> DrawnOf(u) = {}
  PROVE  WovenInv'
<1>1. /\ Drawn \in SUBSET Nat /\ n \in Nat /\ \A j \in Drawn : j < n
      /\ Drawn' = Drawn \cup {n}
      /\ trace' = trace /\ job' = job /\ r = trace[n] /\ r.thread = u
      /\ phase # "none" /\ phase' # "none"
  BY DrawnThreads DEF Draws
<1>2. NotedRows' = NotedRows \cup (IF DrawnOf(u) = {} THEN {} ELSE {n})
  <2> DEFINE Behind(k, D) == \E j \in D : j < k /\ trace[j].thread = trace[k].thread
  <2>1. NotedRows = {k \in Drawn : Behind(k, Drawn)}
    BY DEF NotedRows
  <2>2. NotedRows' = {k \in Drawn \cup {n} : Behind(k, Drawn \cup {n})}
    BY <1>1 DEF NotedRows
  <2>3. \A k \in Drawn \cup {n} : ~(n < k)
    BY <1>1
  <2>4. \A k \in Drawn \cup {n} : Behind(k, Drawn \cup {n}) <=> Behind(k, Drawn)
    BY <2>3
  <2>5. Behind(n, Drawn) <=> DrawnOf(u) # {}
    BY <1>1 DEF DrawnOf
  <2>6. n \notin Drawn
    BY <1>1
  <2> HIDE DEF Behind
  <2> QED
    BY <2>1, <2>2, <2>4, <2>5
<1>3. CASE DrawnOf(u) = {}
  <2>1. UNCHANGED <<interleavings, lastOn>>
    BY <1>1, <1>3 DEF DrawPlain
  <2>2. NotedRows' = NotedRows
    BY <1>2, <1>3
  <2> QED
    BY <1>1, <2>1, <2>2 DEF WovenInv
<1>4. CASE DrawnOf(u) # {}
  <2>1. AddInterleaving(r) /\ NoteLast(r)
    BY <1>1, <1>4 DEF DrawPlain
  <2>2. NotedRows' = NotedRows \cup {n}
    BY <1>2, <1>4
  <2> QED
    BY <2>1, <2>2, NotedRow
<1> QED
  BY <1>3, <1>4

-----------------------------------------------------------------------------
(* The picture. *)

NodeInv ==
    /\ \A t \in Threads : \A s \in DOMAIN graph[t] : s.thread = t /\ graph[t][s] \in Nat
    /\ nolock \in Threads \cup {None}
    /\ recording \in BOOLEAN
    /\ mutexes \in [Threads -> Seq(Entry)]

PictureInv ==
    /\ StartInv /\ JobInv /\ PosInv /\ ShapeInv
    /\ ListInv /\ NodeInv /\ PathInv /\ WovenInv
    /\ ExplainerNeverCrashes

LEMMA InitPicture == ExplainerInit => PictureInv
<1> SUFFICES ASSUME ExplainerInit PROVE PictureInv
  OBVIOUS
<1> USE DEF ExplainerInit
<1>1. trace = <<>> /\ Len(trace) = 0
  BY DEF ReportInit
<1>2. StartInv /\ JobInv /\ ShapeInv /\ ListInv /\ PathInv /\ WovenInv /\ ExplainerNeverCrashes
  BY DEF StartInv, JobInv, ShapeInv, ListInv, PathInv, WovenInv, ExplainerNeverCrashes, Explaining
<1>3. PosInv
  BY <1>1 DEF PosInv
<1>4. NodeInv
  <2>1. \A t \in Threads : DOMAIN graph[t] = {}
    OBVIOUS
  <2>2. mutexes \in [Threads -> Seq(Entry)]
    OBVIOUS
  <2> QED
    BY <2>1, <2>2 DEF NodeInv
<1> QED
  BY <1>2, <1>3, <1>4 DEF PictureInv

\* Before the first row there is no node and no edge.
LEMMA StartPicture ==
  ASSUME ReportInv, PictureInv, phase = "none", phase' = "reading",
         UNCHANGED <<reportVars, pos, mutexes, recording, pictureVars>>,
         JobInv', StartInv'
  PROVE  PictureInv'
<1>1. /\ pos = 0 /\ shown = {} /\ interleavings = {}
      /\ mutexes = [t \in Threads |-> <<>>]
      /\ graph = [t \in Threads |-> <<>>]
      /\ lastState = [t \in Threads |-> None]
      /\ transitions = [t \in Threads |-> {}]
      /\ lastOn = [a \in Addresses |-> None]
  BY DEF PictureInv, StartInv
<1>2. /\ UNCHANGED <<pos, mutexes, recording, trace, csv>>
      /\ UNCHANGED <<graph, lastState, transitions, lastOn, interleavings, nolock, shown>>
  BY DEF reportVars, writtenVars, pictureVars
<1>3. PosInv' /\ ShapeInv' /\ NodeInv'
  BY <1>2 DEF PictureInv, PosInv, ShapeInv, NodeInv
<1>4. Drawn' = {}
  BY <1>1, <1>2 DEF Drawn
<1>5. \A t : DrawnOf(t)' = {}
  BY <1>4 DEF DrawnOf
<1>6. NotedRows' = {}
  BY <1>4 DEF NotedRows
<1>7. PathInv'
  <2> PICK tool : tool = job'.tool
    OBVIOUS
  <2>1. \A t \in Threads : DOMAIN graph'[t] = {} /\ transitions'[t] = {} /\ lastState'[t] = None
    BY <1>1, <1>2
  <2>2. \A t \in Threads : IsPathOf(trace, tool, t, {}, {}, {}, None)
    BY NoPath
  <2>3. \A t \in Threads : IsPathOf(trace', tool, t, DrawnOf(t)', DOMAIN graph'[t],
                                    transitions'[t], lastState'[t])
    BY <1>2, <1>5, <2>1, <2>2
  <2> QED
    BY <2>3 DEF PathInv
<1>8. WovenInv'
  <2>1. IsWoven(trace, {}, {}, lastOn)
    BY <1>1, NotWoven
  <2> QED
    BY <1>1, <1>2, <1>6, <2>1 DEF WovenInv
<1>9. ListInv'
  <2>1. \A t : OpenIn(trace', t, pos') = {}
    BY <1>1, <1>2 DEF OpenIn
  <2>2. \A q : IsList(<<>>, q, {})
    BY DEF IsList, Once
  <2>3. \A t \in Threads : mutexes'[t] = <<>>
    BY <1>1, <1>2
  <2> QED
    BY <1>3, <2>1, <2>2, <2>3 DEF ListInv, NodeInv
<1>10. ExplainerNeverCrashes'
  BY DEF ExplainerNeverCrashes
<1> QED
  BY <1>3, <1>7, <1>8, <1>9, <1>10 DEF PictureInv

\* Nothing but the phase changes.
LEMMA RestPicture ==
  ASSUME PictureInv, Rests, phase # "none", JobInv', StartInv', ExplainerNeverCrashes'
  PROVE  PictureInv'
<1>1. /\ UNCHANGED <<job, pos, mutexes, recording, trace>>
      /\ UNCHANGED <<graph, lastState, transitions, lastOn, interleavings, nolock, shown>>
  BY DEF Rests, reportVars, pictureVars
<1>2. PosInv' /\ ShapeInv' /\ NodeInv'
  BY <1>1 DEF PictureInv, PosInv, ShapeInv, NodeInv
<1>3. Drawn' = Drawn /\ NotedRows' = NotedRows /\ \A t : DrawnOf(t)' = DrawnOf(t)
  BY <1>1 DEF Drawn, NotedRows, DrawnOf
<1>4. PathInv'
  BY <1>1, <1>3 DEF PictureInv, PathInv
<1>5. WovenInv'
  BY <1>1, <1>3 DEF PictureInv, WovenInv
<1>6. ListInv'
  BY <1>1 DEF PictureInv, ListInv, Explaining
<1> QED
  BY <1>2, <1>4, <1>5, <1>6 DEF PictureInv

\* A row that is not drawn.
LEMMA SkipPicture ==
  ASSUME Rising(trace), PictureInv, phase # "none", phase' \in {"reading", "read"},
         pos < Len(trace), pos' = pos + 1,
         UNCHANGED <<reportVars, job, pictureVars>>,
         JobInv', StartInv', ListInv', NodeInv'
  PROVE  PictureInv'
<1>1. /\ UNCHANGED <<job, trace>>
      /\ UNCHANGED <<graph, lastState, transitions, lastOn, interleavings, nolock, shown>>
  BY DEF reportVars, pictureVars
<1>2. PosInv' /\ Drawn' = Drawn
  BY <1>1, NextDrawn DEF PictureInv
<1>3. NotedRows' = NotedRows /\ \A t : DrawnOf(t)' = DrawnOf(t)
  BY <1>1, <1>2 DEF NotedRows, DrawnOf
<1>4. PathInv' /\ ShapeInv'
  BY <1>1, <1>3 DEF PictureInv, PathInv, ShapeInv
<1>5. WovenInv'
  BY <1>1, <1>3 DEF PictureInv, WovenInv
<1>6. ExplainerNeverCrashes'
  BY DEF ExplainerNeverCrashes
<1> QED
  BY <1>2, <1>4, <1>5, <1>6 DEF PictureInv

LEMMA NodesTyped ==
  ASSUME NEW g, NEW s, NEW ts \in Nat, NEW t, s.thread = t,
         \A x \in DOMAIN g : x.thread = t /\ g[x] \in Nat
  PROVE  \A x \in DOMAIN AddNode(g, s, ts) : x.thread = t /\ AddNode(g, s, ts)[x] \in Nat
  BY DEF AddNode

LEMMA ExplainPicture ==
  ASSUME Rising(trace), WellOrdered(trace), PictureInv, Explain, JobInv', StartInv'
  PROVE  PictureInv'
<1> PICK n : n = pos + 1
  OBVIOUS
<1> PICK r : r = trace[n]
  OBVIOUS
<1> PICK u : u = r.thread
  OBVIOUS
<1>1. /\ phase = "reading" /\ phase' \in {"reading", "read"} /\ pos < Len(trace) /\ pos' = pos + 1
      /\ job.tool = "explainer" /\ UNCHANGED <<reportVars, job>>
      /\ Drawing!TrackLocks(r) /\ ~Drawing!Unmatched(r)
      /\ DrawExplained(r) \/ UNCHANGED pictureVars
      /\ recording' \in BOOLEAN
  BY DEF Explain, Reads, NextRow
<1>2. trace' = trace /\ job' = job
  BY <1>1 DEF reportVars
<1>3. /\ n \in DOMAIN trace /\ pos \in Nat /\ r \in Rows /\ u \in Threads /\ r.ts \in Nat
  <2>1. n \in DOMAIN trace /\ pos \in Nat
    BY <1>1 DEF PictureInv, PosInv, Rising
  <2>2. r \in Rows
    BY <2>1 DEF Rising
  <2> QED
    BY <2>1, <2>2, RowTyped
<1>4. /\ mutexes' \in [Threads -> Seq(Entry)]
      /\ \A t \in Threads : IsList(mutexes'[t], trace, OpenIn(trace, t, n))
  BY <1>1, <1>3, ExplainList DEF PictureInv, Explaining
<1>5. ListInv'
  BY <1>1, <1>2, <1>4 DEF ListInv
<1>6. CASE UNCHANGED pictureVars
  <2>1. NodeInv'
    BY <1>1, <1>4, <1>6 DEF PictureInv, NodeInv, pictureVars
  <2> QED
    BY <1>1, <1>2, <1>5, <1>6, <2>1, SkipPicture
<1>7. CASE DrawExplained(r)
  <2>1. shown' = shown \cup {r.ts} /\ MoveOn(r, IF DOMAIN graph[u] = {} THEN LockState(u) ELSE lastState[u])
    BY <1>7 DEF DrawExplained
  <2>2. Draws(n, r, u)
    BY <1>1, <1>2, <2>1 DEF Draws, PictureInv
  <2>3. IsList(mutexes'[u], trace, OpenIn(trace, u, n))
    BY <1>3, <1>4
  <2>4. PathInv'
    BY <1>1, <1>7, <2>2, <2>3, ExplainedPath DEF PictureInv
  <2>5. WovenInv'
    BY <1>1, <1>7, <2>2, <2>4, ExplainedWoven DEF PictureInv
  <2>6. PosInv'
    <3> PICK ts : ts = r.ts
      OBVIOUS
    <3> QED
      BY <1>1, <1>2, <2>1, NextDrawn DEF PictureInv
  <2>7. ShapeInv'
    BY <1>7 DEF PictureInv, ShapeInv, DrawExplained, MoveOn, NoteLast
  <2>8. LockState(u).thread = u /\ LockStamp(u) \in Nat /\ State(r).thread = u
    <3>1. mutexes'[u] \in Seq(Entry)
      BY <1>3, <1>4
    <3>2. mutexes'[u] # <<>> => Last(mutexes'[u]) \in Entry
      BY <3>1 DEF Last
    <3>3. LockStamp(u) \in Nat
      BY <3>2, ReportAssumption DEF LockStamp, Entry
    <3> QED
      BY <3>3 DEF LockState, State
  <2>9. NodeInv'
    <3> PICK f : f = IF DOMAIN graph[u] = {} THEN AddNode(graph[u], LockState(u), LockStamp(u)) ELSE graph[u]
      OBVIOUS
    <3> PICK g : g = AddNode(f, State(r), r.ts)
      OBVIOUS
    <3>1. graph' = [graph EXCEPT ![u] = g]
      BY <1>7 DEF DrawExplained
    <3>2. \A x \in DOMAIN graph[u] : x.thread = u /\ graph[u][x] \in Nat
      BY <1>3 DEF PictureInv, NodeInv
    <3>3. \A x \in DOMAIN f : x.thread = u /\ f[x] \in Nat
      BY <2>8, <3>2, NodesTyped
    <3>4. \A x \in DOMAIN g : x.thread = u /\ g[x] \in Nat
      BY <1>3, <2>8, <3>3, NodesTyped
    <3>5. \A t \in Threads : \A s \in DOMAIN graph'[t] : s.thread = t /\ graph'[t][s] \in Nat
      <4>1. \A t \in Threads : graph'[t] = IF t = u THEN g ELSE graph[t]
        BY <1>3, <3>1 DEF PictureInv, ShapeInv
      <4> QED
        BY <3>4, <4>1 DEF PictureInv, NodeInv
    <3>6. nolock' \in Threads \cup {None}
      BY <1>3, <1>7 DEF DrawExplained, PictureInv, NodeInv
    <3> QED
      BY <1>1, <1>4, <3>5, <3>6 DEF NodeInv
  <2>10. ExplainerNeverCrashes'
    BY <1>1 DEF ExplainerNeverCrashes
  <2> QED
    BY <1>5, <2>4, <2>5, <2>6, <2>7, <2>9, <2>10 DEF PictureInv
<1> QED
  BY <1>1, <1>6, <1>7

LEMMA GraphPicture ==
  ASSUME Rising(trace), PictureInv, Graph, JobInv', StartInv'
  PROVE  PictureInv'
<1> PICK n : n = pos + 1
  OBVIOUS
<1> PICK r : r = trace[n]
  OBVIOUS
<1> PICK u : u = r.thread
  OBVIOUS
<1>1. /\ phase = "reading" /\ phase' = "reading" /\ pos < Len(trace) /\ pos' = pos + 1
      /\ job.tool # "explainer" /\ UNCHANGED <<reportVars, job, mutexes, recording>>
      /\ DrawPlain(r) \/ UNCHANGED pictureVars
  BY DEF Graph, Reads, NextRow
<1>2. trace' = trace /\ job' = job
  BY <1>1 DEF reportVars
<1>3. /\ n \in DOMAIN trace /\ pos \in Nat /\ r \in Rows /\ u \in Threads /\ r.ts \in Nat
  <2>1. n \in DOMAIN trace /\ pos \in Nat
    BY <1>1 DEF PictureInv, PosInv, Rising
  <2>2. r \in Rows
    BY <2>1 DEF Rising
  <2> QED
    BY <2>1, <2>2, RowTyped
<1>5. ListInv'
  BY <1>1, <1>2 DEF ListInv, Explaining
<1>6. CASE UNCHANGED pictureVars
  <2>1. NodeInv'
    BY <1>1, <1>6 DEF PictureInv, NodeInv, pictureVars
  <2> QED
    BY <1>1, <1>2, <1>5, <1>6, <2>1, SkipPicture
<1>7. CASE DrawPlain(r)
  <2>1. shown' = shown \cup {r.ts}
    BY <1>7 DEF DrawPlain
  <2>2. Draws(n, r, u)
    BY <1>1, <1>2, <2>1 DEF Draws, PictureInv
  <2>4. PathInv' /\ (lastState[u] = None <=> DrawnOf(u) = {})
    BY <1>1, <1>7, <2>2, PlainPath DEF PictureInv
  <2>5. WovenInv'
    BY <1>1, <1>7, <2>2, <2>4, PlainWoven DEF PictureInv
  <2>6. PosInv'
    <3> PICK ts : ts = r.ts
      OBVIOUS
    <3> QED
      BY <1>1, <1>2, <2>1, NextDrawn DEF PictureInv
  <2>7. ShapeInv'
    BY <1>7 DEF PictureInv, ShapeInv, DrawPlain, MoveOn, NoteLast
  <2>9. NodeInv'
    <3> PICK g : g = AddNode(graph[u], State(r), r.ts)
      OBVIOUS
    <3>1. graph' = [graph EXCEPT ![u] = g] /\ nolock' = nolock
      BY <1>7 DEF DrawPlain
    <3>2. State(r).thread = u
      BY DEF State
    <3>3. \A x \in DOMAIN graph[u] : x.thread = u /\ graph[u][x] \in Nat
      BY <1>3 DEF PictureInv, NodeInv
    <3>4. \A x \in DOMAIN g : x.thread = u /\ g[x] \in Nat
      BY <1>3, <3>2, <3>3, NodesTyped
    <3>5. \A t \in Threads : \A s \in DOMAIN graph'[t] : s.thread = t /\ graph'[t][s] \in Nat
      BY <1>3, <3>1, <3>4 DEF PictureInv, NodeInv, ShapeInv
    <3> QED
      BY <1>1, <3>1, <3>5 DEF PictureInv, NodeInv
  <2>10. ExplainerNeverCrashes'
    BY <1>1 DEF ExplainerNeverCrashes
  <2> QED
    BY <1>5, <2>4, <2>5, <2>6, <2>7, <2>9, <2>10 DEF PictureInv
<1> QED
  BY <1>1, <1>6, <1>7

\* The first row of a thread has an edge that leads to it.
LEMMA EntryEdge ==
  ASSUME NEW q, NEW t, NEW K \in SUBSET Nat, NEW nodes, NEW edges, NEW last,
         IsPathOf(q, "explainer", t, K, nodes, edges, last), nodes # {}
  PROVE  edges # {}
<1>1. K # {}
  BY FirstRow
<1>2. PICK k \in K : \A j \in K : k <= j
  BY <1>1, Least
<1>3. k \in Entries("explainer", K)
  BY <1>2 DEF Entries, Firsts
<1>4. <<InnermostIn(q, t, k), State(q[k])>> \in Entering(q, "explainer", t, K)
  BY <1>3 DEF Entering
<1> QED
  BY <1>4 DEF IsPathOf

LEMMA WritePicture ==
  ASSUME Rising(trace), PictureInv, Write, JobInv', StartInv'
  PROVE  PictureInv'
<1>1. phase \in {"reading", "read"} /\ phase # "none" /\ Rests
  BY DEF Write, Rests
<1>2. ExplainerNeverCrashes'
  <2> SUFFICES ASSUME Explaining', phase' = "crashed" PROVE FALSE
    BY DEF ExplainerNeverCrashes
  <2>1. job.tool = "explainer"
    BY DEF Explaining, Write
  <2>2. PICK t \in Threads : DOMAIN graph[t] # {} /\ transitions[t] = {}
    BY DEF Write
  <2>3. IsPathOf(trace, "explainer", t, DrawnOf(t), DOMAIN graph[t], transitions[t], lastState[t])
    BY <1>1, <2>1 DEF PictureInv, PathInv
  <2>4. DrawnOf(t) \in SUBSET Nat
    BY DEF DrawnOf, Drawn
  <2> QED
    BY <2>2, <2>3, <2>4, EntryEdge
<1> QED
  BY <1>1, <1>2, RestPicture

LEMMA NextPicture ==
  ASSUME ReportInv, ReportInv', OrderInv, PictureInv, [ExplainerNext]_explainerVars
  PROVE  PictureInv'
<1>1. /\ StartInv' /\ JobInv'
      /\ phase # "none" => UNCHANGED <<reportVars, job>>
      /\ StartInv /\ JobInv
  BY NextPhase DEF PictureInv
<1>2. phase # "none" => Rising(trace) /\ WellOrdered(trace)
  BY <1>1, TraceRead
<1>3. CASE phase' = "none"
  <2>1. /\ pos' = 0 /\ shown' = {} /\ recording' = FALSE /\ nolock' = None
        /\ mutexes' = [t \in Threads |-> <<>>]
        /\ graph' = [t \in Threads |-> <<>>]
        /\ lastState' = [t \in Threads |-> None]
        /\ transitions' = [t \in Threads |-> {}]
        /\ lastOn' = [a \in Addresses |-> None]
    BY <1>1, <1>3 DEF StartInv
  <2>2. ListInv' /\ PathInv' /\ WovenInv' /\ ExplainerNeverCrashes'
    BY <1>3 DEF ListInv, PathInv, WovenInv, ExplainerNeverCrashes, Explaining
  <2>3. ShapeInv'
    BY <2>1 DEF ShapeInv
  <2>4. NodeInv'
    <3>1. \A t \in Threads : DOMAIN graph'[t] = {}
      BY <2>1
    <3>2. mutexes' \in [Threads -> Seq(Entry)]
      BY <2>1
    <3> QED
      BY <2>1, <3>1, <3>2 DEF NodeInv
  <2>5. PosInv'
    <3>1. Len(trace') \in Nat
      BY DEF ReportInv, StampsRise
    <3> QED
      BY <2>1, <3>1 DEF PosInv
  <2> QED
    BY <1>1, <2>2, <2>3, <2>4, <2>5 DEF PictureInv
<1>4. CASE phase' # "none"
  <2>1. CASE phase = "none" /\ (StartExplainer \/ StartGrapher)
    <3>1. phase' = "reading" /\ UNCHANGED <<reportVars, pos, mutexes, recording, pictureVars>>
      BY <2>1 DEF StartExplainer, StartGrapher
    <3> QED
      BY <1>1, <2>1, <3>1, StartPicture
  <2>2. CASE phase # "none" /\ Explain
    BY <1>1, <1>2, <2>2, ExplainPicture
  <2>3. CASE phase # "none" /\ Graph
    BY <1>1, <1>2, <2>3, GraphPicture
  <2>4. CASE Write
    BY <1>1, <1>2, <2>4, WritePicture DEF Write
  <2>5. CASE phase # "none" /\ (ExitExplainer \/ (Rests /\ phase' = phase))
    <3>1. ExplainerNeverCrashes' /\ Rests
      BY <2>5 DEF PictureInv, ExplainerNeverCrashes, Explaining, ExitExplainer, Rests
    <3> QED
      BY <1>1, <2>5, <3>1, RestPicture
  <2> QED
    BY <1>1, <1>4, <2>1, <2>2, <2>3, <2>4, <2>5, StepKinds
<1> QED
  BY <1>3, <1>4

LEMMA AlwaysPicture == ExplainerSpec => [](ReportInv /\ OrderInv /\ PictureInv)
<1>1. ExplainerInit => OrderInv /\ PictureInv
  BY InitOrder, InitPicture DEF ExplainerInit
<1>2. /\ ReportInv /\ ReportInv' /\ ReadInv /\ OrderInv /\ PictureInv
      /\ [ReportNext]_reportVars /\ [ExplainerNext]_explainerVars
      => OrderInv' /\ PictureInv'
  BY NextOrder, NextPicture
<1>3. ReportSpec => [](ReadInv /\ ReportInv)
  BY AlwaysRead, AlwaysReport, PTL
<1>4. ReportSpec => [][ReportNext]_reportVars
  BY PTL DEF ReportSpec
<1> QED
  BY <1>1, <1>2, <1>3, <1>4, ExplainerRefines, PTL DEF ExplainerSpec

-----------------------------------------------------------------------------
(* What is drawn. *)

LEMMA InnermostIs == \A t, k : Innermost(t, k) = InnermostIn(trace, t, k)
  BY OpenRowsIn DEF Innermost, InnermostIn

\* The graph of a thread is its path, from its mutex on.
THEOREM PathsAreExact == ExplainerSpec => []PathExact
<1>1. PictureInv => PathExact
  <2> SUFFICES ASSUME PictureInv, phase # "none", NEW t \in Threads, NEW K, K = DrawnOf(t),
                      NEW E, E = IF job.tool = "explainer" THEN Firsts(K) ELSE {}
               PROVE  /\ DOMAIN graph[t] = {State(trace[k]) : k \in K} \cup {Innermost(t, k) : k \in E}
                      /\ transitions[t] = {<<State(trace[d[1]]), State(trace[d[2]])>> : d \in Neighbours(K)}
                                          \cup {<<Innermost(t, k), State(trace[k])>> : k \in E}
    BY DEF PathExact
  <2>1. IsPathOf(trace, job.tool, t, K, DOMAIN graph[t], transitions[t], lastState[t])
    BY DEF PictureInv, PathInv
  <2>2. E = Entries(job.tool, K)
    BY DEF Entries
  <2>3. /\ {Innermost(t, k) : k \in E} = Entered(trace, job.tool, t, K)
        /\ {<<Innermost(t, k), State(trace[k])>> : k \in E} = Entering(trace, job.tool, t, K)
    BY <2>2, InnermostIs DEF Entered, Entering
  <2> QED
    BY <2>1, <2>3 DEF IsPathOf, States, Steps
<1> QED
  BY <1>1, AlwaysPicture, PTL

\* The edges between threads are those between consecutive accesses.
THEOREM EdgesAreExact == ExplainerSpec => []InterleavingsExact
<1>1. PictureInv => InterleavingsExact
  <2> SUFFICES ASSUME PictureInv, phase # "none"
               PROVE  interleavings =
                        {<<State(trace[d[1]]), State(trace[d[2]])>> :
                            d \in {e \in UNION {Neighbours(NotedOn(a)) : a \in Addresses} :
                                       IsIdiom(trace[e[1]], trace[e[2]])}}
    BY DEF InterleavingsExact
  <2>1. interleavings = EdgesOf(trace, Idioms(trace, NotedRows))
    BY DEF PictureInv, WovenInv, IsWoven
  <2>2. \A a : NotedAt(trace, NotedRows, a) = NotedOn(a)
    BY DEF NotedAt, NotedOn
  <2>3. {Neighbours(NotedAt(trace, NotedRows, a)) : a \in Addresses} = {Neighbours(NotedOn(a)) : a \in Addresses}
    BY <2>2
  <2> QED
    BY <2>1, <2>3 DEF EdgesOf, Idioms
<1> QED
  BY <1>1, AlwaysPicture, PTL

\* No thread of the explainer's picture is without an edge.
THEOREM ExplainerWrites == ExplainerSpec => []ExplainerNeverCrashes
  BY AlwaysPicture, PTL DEF PictureInv

\* The ends of the edges are states of some graph.
LEMMA EndsAreNodes ==
  ASSUME ReportInv, PictureInv
  PROVE  \A s \in EdgeEnds : \E t \in Threads : s \in DOMAIN graph[t]
<1>1. CASE phase = "none"
  <2>1. interleavings = {} /\ \A t \in Threads : transitions[t] = {}
    BY <1>1 DEF PictureInv, StartInv
  <2> QED
    BY <2>1 DEF EdgeEnds
<1>2. CASE phase # "none"
  <2>1. ASSUME NEW K, NEW d \in Neighbours(K) PROVE d[1] \in K /\ d[2] \in K
    BY DEF Neighbours
  <2>2. ASSUME NEW t \in Threads, NEW e \in transitions[t]
        PROVE  e[1] \in DOMAIN graph[t] /\ e[2] \in DOMAIN graph[t]
    <3> PICK K : K = DrawnOf(t)
      OBVIOUS
    <3>1. IsPathOf(trace, job.tool, t, K, DOMAIN graph[t], transitions[t], lastState[t])
      BY <1>2 DEF PictureInv, PathInv
    <3>2. CASE e \in Steps(trace, K)
      <4>1. PICK d \in Neighbours(K) : e = <<State(trace[d[1]]), State(trace[d[2]])>>
        BY <3>2 DEF Steps
      <4>2. State(trace[d[1]]) \in States(trace, K) /\ State(trace[d[2]]) \in States(trace, K)
        BY <2>1, <4>1 DEF States
      <4> QED
        BY <3>1, <4>1, <4>2 DEF IsPathOf
    <3>3. CASE e \in Entering(trace, job.tool, t, K)
      <4>1. PICK k \in Entries(job.tool, K) : e = <<InnermostIn(trace, t, k), State(trace[k])>>
        BY <3>3 DEF Entering
      <4>2. InnermostIn(trace, t, k) \in Entered(trace, job.tool, t, K) /\ State(trace[k]) \in States(trace, K)
        BY <4>1 DEF Entered, States, Entries, Firsts
      <4> QED
        BY <3>1, <4>1, <4>2 DEF IsPathOf
    <3> QED
      BY <3>1, <3>2, <3>3 DEF IsPathOf
  <2>3. ASSUME NEW e \in interleavings, NEW i \in 1 .. 2
        PROVE  \E t \in Threads : e[i] \in DOMAIN graph[t]
    <3>1. interleavings = EdgesOf(trace, Idioms(trace, NotedRows))
      BY <1>2 DEF PictureInv, WovenInv, IsWoven
    <3>2. PICK d \in Idioms(trace, NotedRows) : e = <<State(trace[d[1]]), State(trace[d[2]])>>
      BY <3>1 DEF EdgesOf
    <3>3. PICK a \in Addresses : d \in Neighbours(NotedAt(trace, NotedRows, a))
      BY <3>2 DEF Idioms
    <3>4. d[1] \in NotedRows /\ d[2] \in NotedRows
      BY <2>1, <3>3 DEF NotedAt
    <3>5. PICK k \in NotedRows : e[i] = State(trace[k])
      BY <3>2, <3>4
    <3>6. k \in Drawn /\ k \in DOMAIN trace /\ trace[k] \in Rows
      <4>1. k \in Drawn
        BY <3>5 DEF NotedRows
      <4>2. pos \in Nat /\ pos <= Len(trace) /\ trace \in Seq(Rows)
        BY DEF PictureInv, PosInv, ReportInv, StampsRise
      <4>3. k \in 1 .. pos
        BY <4>1 DEF Drawn
      <4>4. k \in 1 .. Len(trace)
        BY <4>2, <4>3
      <4> QED
        BY <4>1, <4>2, <4>4
    <3> PICK t : t = trace[k].thread
      OBVIOUS
    <3>7. t \in Threads /\ k \in DrawnOf(t)
      BY <3>6, RowTyped DEF DrawnOf
    <3>8. State(trace[k]) \in States(trace, DrawnOf(t))
      BY <3>7 DEF States
    <3> QED
      BY <1>2, <3>5, <3>7, <3>8 DEF PictureInv, PathInv, IsPathOf
  <2>4. ASSUME NEW s \in EdgeEnds PROVE \E t \in Threads : s \in DOMAIN graph[t]
    <3>1. PICK i \in 1 .. 2, e \in interleavings \cup (UNION {transitions[t] : t \in Threads}) : s = e[i]
      BY DEF EdgeEnds
    <3>2. CASE e \in interleavings
      BY <2>3, <3>1, <3>2
    <3>3. CASE e \notin interleavings
      <4>1. PICK t \in Threads : e \in transitions[t]
        BY <3>1, <3>3
      <4>2. i = 1 \/ i = 2
        BY <3>1
      <4> QED
        BY <2>2, <3>1, <4>1, <4>2
    <3> QED
      BY <3>2, <3>3
  <2> QED
    BY <2>4
<1> QED
  BY <1>1, <1>2

\* No edge hangs in the air, but where another thread has taken the no_lock node.
THEOREM EdgesHaveNodes == ExplainerSpec => []EdgesJoinNodes
<1>1. ReportInv /\ PictureInv => EdgesJoinNodes
  <2> SUFFICES ASSUME ReportInv, PictureInv, NEW s \in EdgeEnds, ~(s.op = "no_lock" /\ nolock # s.thread)
               PROVE  <<s, s.thread>> \in Nodes
    BY DEF EdgesJoinNodes
  <2>1. PICK t \in Threads : s \in DOMAIN graph[t]
    BY EndsAreNodes
  <2>2. s \in UNION {DOMAIN graph[u] : u \in Threads}
    BY <2>1
  <2> QED
    BY <2>2 DEF Nodes
<1> QED
  BY <1>1, AlwaysPicture, PTL

\* The explainer's state has its types: a node belongs to the thread of its
\* graph, a thread's last state is one of its nodes, and what is drawn was read.
THEOREM ExplainerTyped == ExplainerSpec => []ExplainerTypeOK
<1>1. PictureInv => ExplainerTypeOK
  <2> SUFFICES ASSUME PictureInv PROVE ExplainerTypeOK
    OBVIOUS
  <2>1. CASE phase = "none"
    BY <2>1 DEF PictureInv, StartInv, NodeInv, PosInv, ExplainerTypeOK
  <2>2. CASE phase # "none"
    <3>1. ASSUME NEW t \in Threads PROVE lastState[t] \in DOMAIN graph[t] \cup {None}
      BY <2>2 DEF PictureInv, PathInv, IsPathOf, States
    <3>2. ASSUME NEW a \in Addresses PROVE lastOn[a] = None \/ lastOn[a].addr = a
      BY <2>2 DEF PictureInv, WovenInv, IsWoven, NotedAt
    <3> QED
      BY <2>2, <3>1, <3>2 DEF PictureInv, JobInv, NodeInv, PosInv, ExplainerTypeOK
  <2> QED
    BY <2>1, <2>2
<1> QED
  BY <1>1, AlwaysPicture, PTL

-----------------------------------------------------------------------------
(* The windows. *)

\* There is a start at or before the row at k, and no end from it on.
Recorded(q, S, E, k) == \E n \in 1 .. k : q[n].ts \in S /\ \A j \in n .. k : q[j].ts \notin E

LEMMA RecordedStep ==
  ASSUME NEW q, NEW S, NEW E, NEW k \in Nat, NEW n, n = k + 1
  PROVE  Recorded(q, S, E, n) <=> (Recorded(q, S, E, k) \/ q[n].ts \in S) /\ q[n].ts \notin E
<1>1. \A i \in 1 .. n : (i \in 1 .. k \/ i = n) /\ n \in i .. n
  OBVIOUS
<1>2. \A i \in 1 .. k : i \in 1 .. n /\ \A j \in i .. n : j \in i .. k \/ j = n
  OBVIOUS
<1>3. \A i \in 1 .. k : \A j \in i .. k : j \in i .. n
  OBVIOUS
<1>4. n \in 1 .. n /\ \A j \in n .. n : j = n
  OBVIOUS
<1>5. ASSUME Recorded(q, S, E, n)
      PROVE  (Recorded(q, S, E, k) \/ q[n].ts \in S) /\ q[n].ts \notin E
  <2>1. PICK i \in 1 .. n : q[i].ts \in S /\ \A j \in i .. n : q[j].ts \notin E
    BY <1>5 DEF Recorded
  <2>2. i \in 1 .. k => Recorded(q, S, E, k)
    BY <1>3, <2>1 DEF Recorded
  <2> QED
    BY <1>1, <2>1, <2>2
<1>6. ASSUME Recorded(q, S, E, k), q[n].ts \notin E
      PROVE  Recorded(q, S, E, n)
  <2>1. PICK i \in 1 .. k : q[i].ts \in S /\ \A j \in i .. k : q[j].ts \notin E
    BY <1>6 DEF Recorded
  <2> QED
    BY <1>2, <1>6, <2>1 DEF Recorded
<1>7. ASSUME q[n].ts \in S, q[n].ts \notin E
      PROVE  Recorded(q, S, E, n)
  BY <1>4, <1>7 DEF Recorded
<1> QED
  BY <1>5, <1>6, <1>7

\* The rows of the threads in T that are recorded.
RecordedRows(q, S, E, T, k) == {q[n].ts : n \in {j \in 1 .. k : Recorded(q, S, E, j) /\ q[j].thread \in T}}

LEMMA RowsStep ==
  ASSUME NEW q, NEW S, NEW E, NEW T, NEW k \in Nat, NEW n, n = k + 1
  PROVE  RecordedRows(q, S, E, T, n) =
             IF Recorded(q, S, E, n) /\ q[n].thread \in T
             THEN RecordedRows(q, S, E, T, k) \cup {q[n].ts} ELSE RecordedRows(q, S, E, T, k)
<1>1. \A i : i \in 1 .. n <=> i \in 1 .. k \/ i = n
  OBVIOUS
<1> QED
  BY <1>1, Zenon DEF RecordedRows

-----------------------------------------------------------------------------
(* What is recorded. *)

StopStamps == Ends \cup {LastEnd}

WindowInv ==
    Explaining =>
        /\ recording <=> Recorded(trace, ToSet(Starts), StopStamps, pos)
        /\ shown = RecordedRows(trace, ToSet(Starts), StopStamps, Targets, pos)

StartsOf(times, before) ==
    LET Ascends(p) == \A m, n \in DOMAIN p : m < n => times[p[m]] <= times[p[n]]
        order == CHOOSE p \in Surjection(DOMAIN times, DOMAIN times) : Ascends(p)
    IN [n \in DOMAIN times |-> times[order[n]] - before]

\* The window depends on the job and the reports alone.
LEMMA WindowStays ==
  ASSUME csv' = csv, job' = job
  PROVE  Starts' = Starts /\ StopStamps' = StopStamps /\ Targets' = Targets
<1>1. Issued' = Issued
  BY DEF Issued
<1>2. Times' = Times
  BY <1>1 DEF Times
<1>3. Starts' = Starts
  <2>1. Starts = StartsOf(Times, job.before)
    BY Zenon DEF Starts, StartsOf
  <2>2. Starts' = StartsOf(Times', job'.before)
    BY Zenon DEF Starts, StartsOf
  <2> QED
    BY <1>2, <2>1, <2>2
<1>4. Ends' = Ends /\ LastEnd' = LastEnd
  BY <1>1, <1>2, <1>3 DEF Ends, LastEnd
<1> QED
  BY <1>1, <1>3, <1>4 DEF StopStamps, Targets

LEMMA NextWindow ==
  ASSUME ReportInv, PictureInv, WindowInv, [ExplainerNext]_explainerVars
  PROVE  WindowInv'
<1>1. JobInv /\ JobInv' /\ StartInv /\ (phase # "none" => UNCHANGED <<reportVars, job>>)
  BY NextPhase DEF PictureInv
<1> SUFFICES ASSUME Explaining'
             PROVE  /\ recording' <=> Recorded(trace, ToSet(Starts), StopStamps, pos)'
                    /\ shown' = RecordedRows(trace, ToSet(Starts), StopStamps, Targets, pos)'
  BY DEF WindowInv
<1>2. CASE phase = "none"
  <2>1. StartExplainer \/ StartGrapher
    BY <1>1, <1>2, StepKinds DEF Explaining
  <2>2. UNCHANGED <<pos, recording, shown>>
    BY <2>1 DEF StartExplainer, StartGrapher, pictureVars
  <2>3. pos' = 0 /\ recording' = FALSE /\ shown' = {}
    BY <1>1, <1>2, <2>2 DEF StartInv
  <2>4. \A q, S, E : ~Recorded(q, S, E, 0)
    BY DEF Recorded
  <2>5. \A q, S, E, T : RecordedRows(q, S, E, T, 0) = {}
    BY DEF RecordedRows
  <2> QED
    BY <2>3, <2>4, <2>5
<1>3. CASE phase # "none"
  <2>1. csv' = csv /\ job' = job /\ trace' = trace /\ Explaining
    BY <1>1, <1>3 DEF reportVars, writtenVars, Explaining
  <2> PICK q, S, E, T : q = trace /\ S = ToSet(Starts) /\ E = StopStamps /\ T = Targets
    OBVIOUS
  <2>2. q = trace' /\ S = ToSet(Starts)' /\ E = StopStamps' /\ T = Targets'
    BY <2>1, WindowStays DEF ToSet
  <2>3. (recording <=> Recorded(q, S, E, pos)) /\ shown = RecordedRows(q, S, E, T, pos)
    BY <2>1 DEF WindowInv
  <2> SUFFICES (recording' <=> Recorded(q, S, E, pos')) /\ shown' = RecordedRows(q, S, E, T, pos')
    BY <2>2
  <2>4. CASE Explain
    <3> PICK n, k : n = pos + 1 /\ k = pos
      OBVIOUS
    <3> PICK r : r = q[n]
      OBVIOUS
    <3>1. k \in Nat /\ n = k + 1 /\ pos' = n
      BY <2>4 DEF Explain, Reads, PictureInv, PosInv, ReportInv, StampsRise
    <3>2. NextRow = r
      BY DEF NextRow
    <3>3. recording' <=> (recording \/ r.ts \in S) /\ r.ts \notin E
      BY <2>4, <3>2 DEF Explain, StopStamps
    <3>4. shown' = IF recording' /\ r.thread \in T THEN shown \cup {r.ts} ELSE shown
      BY <2>4, <3>2 DEF Explain, DrawExplained, pictureVars
    <3>5. recording' <=> Recorded(q, S, E, n)
      BY <2>3, <3>1, <3>3, RecordedStep
    <3>6. shown' = RecordedRows(q, S, E, T, n)
      <4>1. RecordedRows(q, S, E, T, n) =
                IF Recorded(q, S, E, n) /\ q[n].thread \in T
                THEN RecordedRows(q, S, E, T, k) \cup {q[n].ts} ELSE RecordedRows(q, S, E, T, k)
        BY ONLY <3>1, RowsStep
      <4>2. shown = RecordedRows(q, S, E, T, k)
        BY <2>3
      <4> QED
        BY <3>4, <3>5, <4>1, <4>2, Zenon
    <3> QED
      BY <3>1, <3>5, <3>6
  <2>5. CASE ~Explain
    <3>1. Graph \/ Write \/ ExitExplainer \/ Rests
      BY <1>1, <1>3, <2>5, StepKinds DEF Explaining
    <3>2. ~Graph
      BY <2>1 DEF Graph, Reads, Explaining
    <3>3. UNCHANGED <<pos, recording, shown>>
      BY <3>1, <3>2 DEF Write, ExitExplainer, Rests, pictureVars
    <3> QED
      BY <2>3, <3>3
  <2> QED
    BY <2>4, <2>5
<1> QED
  BY <1>2, <1>3

-----------------------------------------------------------------------------
(* The windows of an issue of type 0 or 1. *)

\* starts is some ascending order of the times, when there is one.
LEMMA StartsSorted ==
  ASSUME NEW T, NEW b, NEW D, D = DOMAIN T,
         NEW p \in Surjection(D, D), \A m, n \in D : m < n => T[p[m]] <= T[p[n]]
  PROVE  \E o \in Surjection(D, D) : /\ \A m, n \in D : m < n => T[o[m]] <= T[o[n]]
                                     /\ StartsOf(T, b) = [n \in D |-> T[o[n]] - b]
<1> DEFINE Ascends(o) == \A m, n \in DOMAIN o : m < n => T[o[m]] <= T[o[n]]
           order == CHOOSE o \in Surjection(DOMAIN T, DOMAIN T) : Ascends(o)
<1>1. \A o \in Surjection(D, D) : DOMAIN o = D
  BY DEF Surjection
<1>2. Ascends(p)
  BY <1>1
<1>3. order \in Surjection(D, D) /\ Ascends(order)
  BY <1>2, Zenon
<1>4. StartsOf(T, b) = [n \in DOMAIN T |-> T[order[n]] - b]
  BY Zenon DEF StartsOf
<1> QED
  BY <1>1, <1>3, <1>4, Zenon

\* The starts for two accesses.
LEMMA StartsOfTwo ==
  ASSUME NEW T, DOMAIN T = 1 .. 2, NEW b \in Nat, T[1] \in Nat, T[2] \in Nat, T[1] < T[2]
  PROVE  /\ ToSet(StartsOf(T, b)) = {T[1] - b, T[2] - b}
         /\ StartsOf(T, b)[2] = T[2] - b
<1>1. PICK D : D = 1 .. 2
  OBVIOUS
<1>2. D = {1, 2}
  BY <1>1
<1> DEFINE id == [n \in D |-> n]
<1>3. id \in Surjection(D, D) /\ \A m, n \in D : m < n => T[id[m]] <= T[id[n]]
  BY <1>2 DEF Surjection
<1>4. PICK o \in Surjection(D, D) : /\ \A m, n \in D : m < n => T[o[m]] <= T[o[n]]
                                    /\ StartsOf(T, b) = [n \in D |-> T[o[n]] - b]
  BY <1>1, <1>3, StartsSorted
<1>5. o[1] \in {1, 2} /\ o[2] \in {1, 2} /\ \A t \in D : \E s \in D : o[s] = t
  BY <1>2, <1>4 DEF Surjection
<1>6. o[1] = 1 /\ o[2] = 2
  <2>1. T[o[1]] <= T[o[2]]
    BY <1>2, <1>4
  <2>2. o[1] # o[2]
    BY <1>2, <1>5
  <2> QED
    BY <1>5, <2>1, <2>2
<1>7. /\ DOMAIN StartsOf(T, b) = {1, 2}
      /\ StartsOf(T, b)[1] = T[1] - b /\ StartsOf(T, b)[2] = T[2] - b
  BY <1>2, <1>4, <1>6
<1> QED
  BY <1>7 DEF ToSet

\* The starts for two accesses and the two zeros that stand for the others.
LEMMA StartsOfFour ==
  ASSUME NEW T, DOMAIN T = 1 .. 4, NEW b \in Nat, T[1] \in Nat, T[2] \in Nat, T[1] < T[2],
         T[3] = 0, T[4] = 0
  PROVE  /\ ToSet(StartsOf(T, b)) = {T[1] - b, T[2] - b, 0 - b}
         /\ StartsOf(T, b)[2] = 0 - b
<1>1. PICK D : D = 1 .. 4
  OBVIOUS
<1>2. D = {1, 2, 3, 4}
  BY <1>1
<1> DEFINE turned == [n \in D |-> IF n <= 2 THEN n + 2 ELSE n - 2]
<1>3. turned \in Surjection(D, D) /\ \A m, n \in D : m < n => T[turned[m]] <= T[turned[n]]
  <2>1. turned \in [D -> D] /\ turned[1] = 3 /\ turned[2] = 4 /\ turned[3] = 1 /\ turned[4] = 2
    BY <1>2
  <2> HIDE DEF turned
  <2>2. turned \in Surjection(D, D)
    BY <1>2, <2>1 DEF Surjection
  <2>3. \A m, n \in D : m < n => T[turned[m]] <= T[turned[n]]
    BY <1>2, <2>1
  <2> QED
    BY <2>2, <2>3
<1>4. PICK o \in Surjection(D, D) : /\ \A m, n \in D : m < n => T[o[m]] <= T[o[n]]
                                    /\ StartsOf(T, b) = [n \in D |-> T[o[n]] - b]
  BY <1>1, <1>3, StartsSorted
<1>5. o \in [D -> D] /\ \A t \in D : \E s \in D : o[s] = t
  BY <1>4 DEF Surjection
<1>6. T[o[2]] = 0
  <2>1. PICK i \in D, j \in D : o[i] = 3 /\ o[j] = 4
    BY <1>2, <1>5
  <2>2. PICK n \in D : n >= 2 /\ o[n] \in {3, 4}
    BY <1>2, <2>1
  <2>3. T[o[2]] <= T[o[n]] \/ n = 2
    BY <1>2, <1>4, <2>2
  <2>4. o[2] \in {1, 2, 3, 4}
    BY <1>2, <1>5
  <2>5. T[o[2]] \in Nat
    BY <2>4
  <2> QED
    BY <2>2, <2>3, <2>5
<1>7. ToSet(StartsOf(T, b)) = {T[n] - b : n \in D}
  <2>1. ToSet(StartsOf(T, b)) = {T[o[n]] - b : n \in D}
    BY <1>4 DEF ToSet
  <2> QED
    BY <1>5, <2>1
<1>8. {T[n] - b : n \in D} = {T[1] - b, T[2] - b, 0 - b}
  BY <1>2
<1>9. StartsOf(T, b)[2] = 0 - b
  BY <1>2, <1>4, <1>6
<1> QED
  BY <1>7, <1>8, <1>9

\* The accesses of the issue, in order.
LEMMA IssueTimes ==
  ASSUME ReportInv, JobInv, Explaining, Issued.type \in {0, 1}
  PROVE  /\ Times[1] \in Nat /\ Times[2] \in Nat /\ Times[1] < Times[2]
         /\ Issued.type = 1 => DOMAIN Times = 1 .. 2
         /\ Issued.type = 0 => DOMAIN Times = 1 .. 4 /\ Times[3] = 0 /\ Times[4] = 0
<1>1. IsReport(csv) /\ job.id \in DOMAIN csv
  BY DEF JobInv, Explaining, ReportInv, WrittenInv
<1>2. PICK i \in raised : Issued.type = i.type /\ Issued.accesses = Stored(i)
  BY <1>1, ReportRows DEF Issued
<1>3. IsGood(i)
  BY <1>2 DEF ReportInv, RaisedInv
<1> PICK q : q = Issued.accesses
  OBVIOUS
<1>4. DOMAIN q = 1 .. 2 /\ (q = i.last \/ q = i.history)
  BY <1>2, <1>3, StoredAccesses
<1>5. IsSeen(q)
  BY <1>3, <1>4 DEF IsGood
<1>6. q[1].ts \in Nat /\ q[2].ts \in Nat /\ q[1].ts < q[2].ts
  <2>1. \A n \in DOMAIN trace : trace[n].ts \in Nat
    BY RowTyped DEF ReportInv, StampsRise
  <2> QED
    BY <1>5, <2>1 DEF IsSeen, IsRow
<1> DEFINE w == [n \in DOMAIN q |-> q[n].ts]
<1>7. w \in Seq(Nat) /\ Len(w) = 2 /\ DOMAIN w = 1 .. 2 /\ w[1] = q[1].ts /\ w[2] = q[2].ts
  <2>1. \A n \in 1 .. 2 : q[n].ts \in Nat
    <3>1. \A n \in 1 .. 2 : n = 1 \/ n = 2
      OBVIOUS
    <3> QED
      BY <1>6, <3>1
  <2>2. w \in [1 .. 2 -> Nat]
    BY <1>4, <2>1
  <2> QED
    BY <1>4, <2>2
<1>8. Times = IF Issued.type = 0 THEN w \o <<0, 0>> ELSE w
  BY DEF Times
<1> HIDE DEF w
<1>9. CASE Issued.type = 1
  BY <1>6, <1>7, <1>8, <1>9
<1>10. CASE Issued.type = 0
  <2> PICK u, z : u = w /\ z = <<0, 0>>
    OBVIOUS
  <2>1. u \in Seq(Nat) /\ z \in Seq(Nat) /\ Len(u) = 2 /\ Len(z) = 2 /\ z[1] = 0 /\ z[2] = 0
    BY <1>7
  <2> PICK c : c = u \o z
    OBVIOUS
  <2>3. /\ c \in Seq(Nat) /\ Len(c) = Len(u) + Len(z)
        /\ \A n \in 1 .. Len(u) + Len(z) : c[n] = IF n <= Len(u) THEN u[n] ELSE z[n - Len(u)]
    <3>1. /\ u \o z \in Seq(Nat) /\ Len(u \o z) = Len(u) + Len(z)
          /\ \A n \in 1 .. Len(u) + Len(z) :
                 (u \o z)[n] = IF n <= Len(u) THEN u[n] ELSE z[n - Len(u)]
      BY ONLY <2>1, ConcatProperties
    <3> QED
      BY ONLY <3>1, c = u \o z
  <2>4. DOMAIN c = 1 .. 4 /\ c[1] = u[1] /\ c[2] = u[2] /\ c[3] = 0 /\ c[4] = 0
    <3>1. Len(u) = 2 /\ Len(z) = 2
      BY <2>1
    <3> QED
      BY <2>1, <2>3, <3>1
  <2>5. Times = c
    BY <1>8, <1>10
  <2> QED
    BY <1>6, <1>7, <1>10, <2>4, <2>5
<1> QED
  BY <1>9, <1>10

\* The stamps that start and stop the recording.
LEMMA WindowStamps ==
  ASSUME ReportInv, JobInv, Explaining, Issued.type \in {0, 1},
         NEW x, x = Times[1], NEW y, y = Times[2], NEW a, a = job.after, NEW b, b = job.before
  PROVE  /\ x \in Nat /\ y \in Nat /\ x < y /\ a \in Nat /\ b \in Nat /\ LastEnd = y + a
         /\ Issued.type = 0 => ToSet(Starts) = {x - b, y - b, 0 - b} /\ StopStamps = {y + a}
         /\ Issued.type = 1 => /\ ToSet(Starts) = {x - b, y - b}
                               /\ StopStamps = IF x + a < y - b THEN {x + a, y + a} ELSE {y + a}
<1>1. x \in Nat /\ y \in Nat /\ x < y /\ a \in Nat /\ b \in Nat
  BY IssueTimes DEF JobInv, Explaining
<1>2. LastEnd = y + a
  BY DEF LastEnd
<1>3. Starts = StartsOf(Times, b)
  <2>1. Starts = StartsOf(Times, job.before)
    BY Zenon DEF Starts, StartsOf
  <2> QED
    BY <2>1
<1>4. Ends = IF x + a < Starts[2] THEN {x + a} ELSE {}
  <2>1. \A n : n \in 1 .. 1 <=> n = 1
    OBVIOUS
  <2> QED
    BY <2>1 DEF Ends
<1> PICK T : T = Times
  OBVIOUS
<1>5. CASE Issued.type = 0
  <2>1. /\ DOMAIN T = 1 .. 4 /\ T[1] = x /\ T[2] = y /\ T[3] = 0 /\ T[4] = 0
    BY <1>5, IssueTimes
  <2>2. ToSet(StartsOf(T, b)) = {x - b, y - b, 0 - b} /\ StartsOf(T, b)[2] = 0 - b
    BY <1>1, <2>1, StartsOfFour
  <2>3. Ends = {}
    BY <1>1, <1>3, <1>4, <2>2
  <2> QED
    BY <1>1, <1>2, <1>3, <1>5, <2>2, <2>3 DEF StopStamps
<1>6. CASE Issued.type = 1
  <2>1. DOMAIN T = 1 .. 2 /\ T[1] = x /\ T[2] = y
    BY <1>6, IssueTimes
  <2>2. ToSet(StartsOf(T, b)) = {x - b, y - b} /\ StartsOf(T, b)[2] = y - b
    BY <1>1, <2>1, StartsOfTwo
  <2>3. Ends = IF x + a < y - b THEN {x + a} ELSE {}
    BY <1>3, <1>4, <2>2
  <2> QED
    BY <1>1, <1>2, <1>3, <1>6, <2>2, <2>3 DEF StopStamps
<1> QED
  BY <1>5, <1>6

LEMMA AlwaysWindow == ExplainerSpec => [](ReportInv /\ OrderInv /\ PictureInv /\ WindowInv)
<1>1. ExplainerInit => WindowInv
  BY DEF ExplainerInit, WindowInv, Explaining
<1>2. ReportInv /\ PictureInv /\ WindowInv /\ [ExplainerNext]_explainerVars => WindowInv'
  BY NextWindow
<1> QED
  BY <1>1, <1>2, AlwaysPicture, PTL DEF ExplainerSpec

\* From a row on which the recording starts it goes on as long as no row has a
\* timestamp at which it stops.
LEMMA RecordedFrom ==
  ASSUME NEW q, Rising(q), NEW S, NEW E, NEW m \in DOMAIN q, NEW k \in DOMAIN q,
         q[m].ts \in S, q[m].ts <= q[k].ts,
         \A v \in Nat : q[m].ts <= v /\ v <= q[k].ts => v \notin E
  PROVE  Recorded(q, S, E, k)
<1>1. /\ DOMAIN q = 1 .. Len(q) /\ Len(q) \in Nat
      /\ \A n \in DOMAIN q : q[n] \in Rows /\ q[n].ts \in Nat
  BY RowTyped DEF Rising
<1>2. m <= k
  <2> SUFFICES ASSUME k < m PROVE FALSE
    BY <1>1
  <2>1. q[k].ts < q[m].ts
    BY DEF Rising
  <2> QED
    BY <1>1, <2>1
<1>3. ASSUME NEW j \in m .. k PROVE q[j].ts \notin E
  <2>1. j \in DOMAIN q
    BY <1>1
  <2>2. q[m].ts <= q[j].ts
    <3>1. m = j \/ m < j
      BY <1>1
    <3> QED
      BY <1>1, <2>1, <3>1 DEF Rising
  <2>3. q[j].ts <= q[k].ts
    <3>1. j = k \/ j < k
      BY <1>1
    <3> QED
      BY <1>1, <2>1, <3>1 DEF Rising
  <2> QED
    BY <1>1, <2>1, <2>2, <2>3
<1>4. m \in 1 .. k
  BY <1>1, <1>2
<1> QED
  BY <1>3, <1>4 DEF Recorded

\* What led up to an access of an issue of type 0 or 1 is drawn.
THEOREM WhatLedUpIsDrawn == ExplainerSpec => []BeforeShown
<1>1. ReportInv /\ OrderInv /\ PictureInv /\ WindowInv => BeforeShown
  <2> SUFFICES ASSUME ReportInv, OrderInv, PictureInv, WindowInv,
                      Explaining, Issued.type \in {0, 1}, job.after > 0,
                      NEW n \in 1 .. 2, NEW z, z = Times[n], NEW b, b = job.before,
                      NEW s \in ToSet(trace), s.ts = z - b,
                      NEW r \in ToSet(SubSeq(trace, 1, pos)),
                      r.thread \in Targets, z - b <= r.ts, r.ts <= z
               PROVE  r.ts \in shown
    BY DEF BeforeShown, TargetRows
  <2>1. JobInv /\ Rising(trace) /\ DOMAIN trace = 1 .. Len(trace) /\ Len(trace) \in Nat
    BY TraceRead DEF PictureInv, Explaining
  <2>2. pos \in Nat /\ pos <= Len(trace) /\ 1 .. pos \subseteq DOMAIN trace
    BY <2>1 DEF PictureInv, PosInv
  <2>3. PICK k \in 1 .. pos : r = trace[k]
    <3>1. trace \in Seq(Rows)
      BY <2>1 DEF Rising
    <3>2. /\ DOMAIN SubSeq(trace, 1, pos) = 1 .. pos
          /\ \A k \in 1 .. pos : SubSeq(trace, 1, pos)[k] = trace[k]
      BY <2>2, <3>1
    <3> QED
      BY <3>2 DEF ToSet
  <2>4. PICK m \in DOMAIN trace : s = trace[m]
    BY DEF ToSet
  <2> PICK S, E, x, y, a : S = ToSet(Starts) /\ E = StopStamps
                           /\ x = Times[1] /\ y = Times[2] /\ a = job.after
    OBVIOUS
  <2>5. /\ x \in Nat /\ y \in Nat /\ x < y /\ a \in Nat /\ b \in Nat /\ a > 0
        /\ Issued.type = 0 => S = {x - b, y - b, 0 - b} /\ E = {y + a}
        /\ Issued.type = 1 => /\ S = {x - b, y - b}
                              /\ E = IF x + a < y - b THEN {x + a, y + a} ELSE {y + a}
    BY <2>1, WindowStamps
  <2>6. z \in {x, y}
    <3>1. n = 1 \/ n = 2
      OBVIOUS
    <3> QED
      BY <3>1
  <2>7. z - b \in S
    BY <2>5, <2>6
  <2>8. \A v \in Nat : z - b <= v /\ v <= z => v \notin E
    <3>1. E = {y + a} \/ (x + a < y - b /\ E = {x + a, y + a})
      BY <2>5
    <3> QED
      BY <2>5, <2>6, <3>1
  <2>9. trace[k].ts \in Nat /\ trace[m].ts = z - b /\ k \in DOMAIN trace
    BY <2>1, <2>2, <2>3, <2>4, RowTyped DEF Rising
  <2>10. Recorded(trace, S, E, k)
    <3>1. \A v \in Nat : trace[m].ts <= v /\ v <= trace[k].ts => v \notin E
      <4> SUFFICES ASSUME NEW v \in Nat, z - b <= v, v <= trace[k].ts PROVE v \notin E
        BY <2>9
      <4>1. v <= z
        BY <2>3, <2>5, <2>6, <2>9
      <4> QED
        BY <2>8, <4>1
    <3> QED
      BY <2>1, <2>3, <2>7, <2>9, <3>1, RecordedFrom
  <2>11. shown = RecordedRows(trace, S, E, Targets, pos)
    BY DEF WindowInv
  <2> QED
    BY <2>3, <2>10, <2>11 DEF RecordedRows
<1> QED
  BY <1>1, AlwaysWindow, PTL

-----------------------------------------------------------------------------
(* The exit. *)

\* The explainer follows the analyzer's rows to their end.
THEOREM ExitsBehind == ExplainerSpec => []ExitsUnread
<1>1. ExplainerInit => ExitsUnread
  BY DEF ExplainerInit, ExitsUnread
<1>2. ASSUME ReportInv, OrderInv, PictureInv, ExitsUnread, [ExplainerNext]_explainerVars
      PROVE  ExitsUnread'
  <2> SUFFICES ASSUME phase' = "exited" PROVE pos' >= Len(trace') - unread'
    BY DEF ExitsUnread
  <2>1. JobInv /\ (phase # "none" => UNCHANGED <<reportVars, job>>)
    BY <1>2, NextPhase DEF PictureInv
  <2>2. phase # "none" /\ (ExitExplainer \/ (Rests /\ phase' = phase))
    BY <1>2, <2>1, StepKinds DEF StartExplainer, StartGrapher, Explain, Graph, Reads, Write
  <2>3. trace' = trace /\ unread' = unread /\ pos' = pos
    BY <2>1, <2>2 DEF reportVars, ExitExplainer, Rests
  <2>4. CASE phase' = phase
    BY <1>2, <2>3, <2>4 DEF ExitsUnread
  <2>5. CASE ExitExplainer
    <3> PICK n, r : n = pos + 1 /\ r = trace[n]
      OBVIOUS
    <3> PICK K : K = OpenIn(trace, r.thread, pos)
      OBVIOUS
    <3>1. /\ Rising(trace) /\ DOMAIN trace = 1 .. Len(trace) /\ Len(trace) \in Nat
          /\ unread \in Nat /\ Matched(trace, Len(trace) - unread)
      BY <1>2, <2>1, <2>2, TraceRead
    <3>2. Explaining /\ pos < Len(trace) /\ Drawing!Unmatched(r)
      BY <2>2, <2>5 DEF ExitExplainer, Reads, NextRow, Explaining
    <3>3. pos \in Nat /\ n - 1 = pos /\ n \in DOMAIN trace /\ r \in Rows /\ r.thread \in Threads
      BY <3>1, <3>2, RowTyped, <1>2 DEF PictureInv, PosInv, Rising
    <3>4. IsList(mutexes[r.thread], trace, K)
      BY <1>2, <3>2, <3>3 DEF PictureInv, ListInv
    <3>5. ~\E j \in K : trace[j].addr = r.addr
      <4> PICK s : s = mutexes[r.thread]
        OBVIOUS
      <4>1. ~\E i \in DOMAIN s : s[i].addr = r.addr
        BY <3>2 DEF Drawing!Unmatched, Drawing!Positions
      <4> QED
        BY <3>4, <4>1, ListMatched
    <3>6. ~IsMatched(trace, r, K)
      BY <3>2, <3>5 DEF IsMatched, IsUnlock, Drawing!Unmatched
    <3>7. n \notin 1 .. Len(trace) - unread
      BY <3>1, <3>3, <3>6 DEF Matched
    <3> QED
      BY <2>3, <3>1, <3>3, <3>7
  <2> QED
    BY <2>2, <2>4, <2>5
<1> QED
  BY <1>1, <1>2, AlwaysPicture, PTL DEF ExplainerSpec
=============================================================================
