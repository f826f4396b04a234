----------------------------- MODULE ReportProofs -----------------------------
(***************************************************************************)
(* What the two reports promise, for any trace the analyzer reads to its    *)
(* end or leaves before, any number of threads and any known issues: every  *)
(* issue confirmed is in both, counted, and names rows of the trace.        *)
(*                                                                         *)
(* The invariant follows an issue from the row that raised it to the        *)
(* reports: the accesses noted are rows of the trace (NotedInv), so are     *)
(* those of the issues raised on them (RaisedInv), each dictionary has what *)
(* was raised (CountInv), and the reports list the dictionaries             *)
(* (WrittenInv).                                                           *)
(***************************************************************************)
EXTENDS Report, AnalysisProofs, FiniteSetTheorems, SequenceTheorems

\* The access is that of a row of the trace.
IsRow(q) ==
    \E n \in DOMAIN trace : /\ q.op = trace[n].op     /\ q.thread = trace[n].thread
                            /\ q.addr = trace[n].addr /\ q.ipc = trace[n].ipc
                            /\ q.ts = trace[n].ts

\* The idiom is two rows of the trace on one address, in order.
IsSeen(p) ==
    /\ IsRow(p[1]) /\ IsRow(p[2])
    /\ p[1].addr = p[2].addr
    /\ p[1].ts < p[2].ts

StampsRise ==
    /\ trace \in Seq(Rows)
    /\ \A m, n \in DOMAIN trace : m < n => trace[m].ts < trace[n].ts

\* What is noted is in the trace, and on the address of the last access of a
\* history nothing older is.
NotedInv ==
    /\ \A a \in Addresses : access[a] # None => IsRow(access[a])
    /\ \A k \in Threads \X Threads : threadpairs[k] # None =>
           LET h == threadpairs[k]
           IN /\ IsSeen(h)
              /\ access[h[2].addr] # None
              /\ h[2].ts <= access[h[2].addr].ts

\* An issue is on two idioms of the trace, the later one ending after the other.
IsGood(i) ==
    /\ i.type \in {0, 1, 2, 4}
    /\ i.history \in Access \X Access /\ i.last \in Access \X Access
    /\ IsSeen(i.history) /\ IsSeen(i.last)
    /\ i.history[2].ts < i.last[2].ts
    /\ i.history[2].addr = i.last[1].addr => i.history[2].ts <= i.last[1].ts
    /\ i.type = 1 => Reversible(i.history, i.last) /\ i.history[1].thread = i.last[2].thread
    /\ i.type = 2 => i.history[1].addr = i.last[2].addr

RaisedInv == IsFiniteSet(raised) /\ \A i \in raised : IsGood(i)

\* There is an entry for each heading of what was raised, with the accesses of
\* one such issue and the number of them.
CountInv ==
    /\ DOMAIN confirmed = {Heading(i) : i \in raised}
    /\ \A k \in DOMAIN confirmed :
           /\ DOMAIN confirmed[k] = {"accesses", "count"}
           /\ confirmed[k].count = Cardinality(Under(k, raised))
           /\ \E i \in Under(k, raised) : confirmed[k].accesses = Stored(i)

\* A report lists what was counted when the trace was over, in some order of
\* the dictionaries' values.
Places == Injection(DOMAIN confirmed, 1 .. Cardinality(DOMAIN confirmed))
IsReport(report) == \E p \in Places : \E l \in Listings(p) : report = ListOf(l)

WrittenInv ==
    /\ csv # None => state = "finished" /\ IsReport(csv)
    /\ txt # None => csv # None /\ place = None /\ IsReport(txt)
    /\ place # None => state = "finished" /\ IsReport(csv) /\ place \in Places

ReportInv == StampsRise /\ NotedInv /\ RaisedInv /\ CountInv /\ WrittenInv

-----------------------------------------------------------------------------
(* The analyzer's own invariant. *)

\* What is left of AnalyzerInv when the trace goes on behind the last row that
\* the analyzer reads: its lists of mutexes are then no longer those of the trace.
ReadInv == TraceInv /\ NoteInv /\ (state = "reading" => ViewInv)

\* A row the analyzer reads, or its stop, is a step of Analysis.
LEMMA StepAnalyzed ==
  ASSUME ReadInv, \/ \E r \in Rows : ReadTrace(r)
                  \/ StopTrace
  PROVE  AnalyzerInv /\ AnalyzerInv'
<1>1. state = "reading" /\ [Next]_vars
  BY DEF ReadTrace, ReadRow, Read, StopTrace, StopReading, Stop, Next
<1>2. TraceInv' /\ ViewInv' /\ NoteInv'
  BY <1>1, NextTrace, NextView, NextNote DEF ReadInv
<1> QED
  BY <1>1, <1>2 DEF ReadInv, AnalyzerInv

LEMMA NextRead == ReadInv /\ [ReportNext]_reportVars => ReadInv'
<1> SUFFICES ASSUME ReadInv, [ReportNext]_reportVars PROVE ReadInv'
  OBVIOUS
<1>1. CASE (\E r \in Rows : ReadTrace(r)) \/ StopTrace
  BY <1>1, StepAnalyzed DEF ReadInv, AnalyzerInv
<1>2. ASSUME NEW r \in Rows, Unread(r) PROVE ReadInv'
  <2>1. TraceInv'
    BY <1>2, FollowsTrace, QuietTrace DEF Unread, Strays, ReadInv
  <2>2. UNCHANGED analyzerVars /\ state = "finished"
    BY <1>2 DEF Unread
  <2> QED
    BY <2>1, <2>2 DEF ReadInv, NoteInv, analyzerVars
<1>3. CASE WriteCsv \/ WriteText \/ UNCHANGED reportVars
  <2>1. UNCHANGED <<analyzerVars, traceVars>>
    BY <1>3 DEF WriteCsv, WriteText, reportVars, vars
  <2> QED
    BY <2>1, QuietTrace DEF ReadInv, NoteInv, ViewInv, analyzerVars, traceVars
<1> QED
  BY <1>1, <1>2, <1>3 DEF ReportNext

LEMMA AlwaysRead == ReportSpec => []ReadInv
<1>1. ReportInit => ReadInv
  BY InitTrace, InitView, InitNote DEF ReportInit, ReadInv
<1> QED
  BY <1>1, NextRead, PTL DEF ReportSpec

-----------------------------------------------------------------------------
(* The next row. *)

\* The rows before stay, and the new one is later than all of them.
LEMMA NextStamp ==
  ASSUME StampsRise, NEW r \in Rows, r.ts > LastStamp, trace' = Append(trace, r)
  PROVE  /\ StampsRise'
         /\ r.ts \in Nat
         /\ Len(trace) \in Nat
         /\ DOMAIN trace' = 1 .. Len(trace) + 1 /\ trace'[Len(trace) + 1] = r
         /\ \A n \in DOMAIN trace : n \in DOMAIN trace' /\ trace'[n] = trace[n]
         /\ \A n \in DOMAIN trace : trace[n].ts \in Nat /\ trace[n].ts < r.ts
<1>1. \A s \in Rows : s.ts \in Nat
  BY AnalysisAssumption, ReportAssumption DEF RowType
<1>2. /\ trace \in Seq(Rows) /\ trace' \in Seq(Rows) /\ Len(trace) \in Nat
      /\ DOMAIN trace = 1 .. Len(trace)
      /\ DOMAIN trace' = 1 .. Len(trace) + 1 /\ trace'[Len(trace) + 1] = r
      /\ \A n \in DOMAIN trace : n \in DOMAIN trace' /\ trace'[n] = trace[n]
  BY DEF StampsRise
<1>3. \A n \in DOMAIN trace : trace[n].ts \in Nat /\ trace[n].ts < r.ts
  <2> SUFFICES ASSUME NEW n \in DOMAIN trace PROVE trace[n].ts \in Nat /\ trace[n].ts < r.ts
    OBVIOUS
  <2>1. trace # <<>> /\ LastStamp = trace[Len(trace)].ts
    BY <1>2 DEF LastStamp, Last
  <2>2. n = Len(trace) \/ trace[n].ts < trace[Len(trace)].ts
    BY <1>2 DEF StampsRise
  <2>3. trace[n].ts \in Nat /\ trace[Len(trace)].ts \in Nat /\ r.ts \in Nat
    BY <1>1, <1>2
  <2> QED
    BY <2>1, <2>2, <2>3
<1>4. StampsRise'
  BY <1>2, <1>3 DEF StampsRise
<1> QED
  BY <1>1, <1>2, <1>3, <1>4

\* What is in the trace stays there.
LEMMA RowsStay ==
  ASSUME \A n \in DOMAIN trace : n \in DOMAIN trace' /\ trace'[n] = trace[n]
  PROVE  /\ \A q : IsRow(q) => IsRow(q)'
         /\ \A p : IsSeen(p) => IsSeen(p)'
         /\ \A i : IsGood(i) => IsGood(i)'
<1>1. ASSUME NEW q, IsRow(q) PROVE IsRow(q)'
  BY <1>1 DEF IsRow
<1>2. ASSUME NEW p, IsSeen(p) PROVE IsSeen(p)'
  BY <1>1, <1>2 DEF IsSeen
<1>3. ASSUME NEW i, IsGood(i) PROVE IsGood(i)'
  BY <1>2, <1>3 DEF IsGood
<1> QED
  BY <1>1, <1>2, <1>3

\* The current access is the new row, and later than every noted one.
LEMMA CurrentIsRow ==
  ASSUME StampsRise, NEW r \in Rows, r.ts > LastStamp, trace' = Append(trace, r),
         NEW c, c = Current(r)
  PROVE  /\ IsRow(c)'
         /\ c.ts = r.ts /\ r.ts \in Nat
         /\ \A q : IsRow(q) => q.ts \in Nat /\ q.ts < r.ts
<1>1. c.op = r.op /\ c.thread = r.thread /\ c.addr = r.addr /\ c.ipc = r.ipc /\ c.ts = r.ts
  BY DEF Current
<1>2. IsRow(c)'
  BY <1>1, NextStamp DEF IsRow
<1>3. ASSUME NEW q, IsRow(q) PROVE q.ts \in Nat /\ q.ts < r.ts
  <2>1. PICK n \in DOMAIN trace : q.ts = trace[n].ts
    BY <1>3 DEF IsRow
  <2> QED
    BY <2>1, NextStamp
<1> QED
  BY <1>1, <1>2, <1>3, NextStamp

-----------------------------------------------------------------------------
(* What is noted. *)

\* What a row finds: the access p noted on its address, the row c itself, and
\* the history h of the two threads.
Finds(r, c, p, h) ==
    /\ c = Current(r)
    /\ p = access[r.addr] /\ p # None /\ IsIdiom(p, r)
    /\ h = threadpairs[Pair(p.thread, r.thread)]

LEMMA Found ==
  ASSUME AnalyzerInv, AnalyzerInv', StampsRise, NotedInv, NEW r \in Rows, r.ts > LastStamp,
         trace' = Append(trace, r), NEW c, NEW p, NEW h, Finds(r, c, p, h)
  PROVE  /\ c \in Access /\ p \in Access
         /\ IsSeen(<<p, c>>)'
         /\ p.addr = r.addr /\ c.addr = r.addr /\ c.ts = r.ts /\ r.ts \in Nat
         /\ p.thread \in Threads /\ r.thread \in Threads /\ c.thread = r.thread
         /\ Pair(p.thread, r.thread) \in Threads \X Threads
         /\ h # None => /\ h \in Access \X Access /\ IsSeen(h)
                        /\ \/ h[1].thread = p.thread /\ h[2].thread = r.thread
                           \/ h[1].thread = r.thread /\ h[2].thread = p.thread
<1>1. c \in Access /\ c.thread = r.thread /\ c.addr = r.addr
  BY CurrentTyped DEF Finds, AnalyzerInv
<1>2. r.addr \in Addresses /\ r.thread \in Threads
  BY AnalysisAssumption DEF RowType
<1>3. p \in Access /\ p.addr = r.addr /\ p.thread \in Threads
  BY <1>2 DEF Finds, AnalyzerInv, NoteInv, Access
<1>4. IsRow(c)' /\ c.ts = r.ts /\ r.ts \in Nat
  BY CurrentIsRow DEF Finds
<1>5. IsRow(p) /\ p.ts < r.ts
  BY <1>2, CurrentIsRow DEF Finds, NotedInv
<1>6. IsRow(p)'
  BY <1>5, RowsStay, NextStamp
<1>7. IsSeen(<<p, c>>)'
  BY <1>1, <1>3, <1>4, <1>5, <1>6 DEF IsSeen
<1>8. Pair(p.thread, r.thread) \in Threads \X Threads
  BY <1>2, <1>3 DEF Pair
<1>9. ASSUME h # None
      PROVE  /\ h \in Access \X Access /\ IsSeen(h)
             /\ \/ h[1].thread = p.thread /\ h[2].thread = r.thread
                \/ h[1].thread = r.thread /\ h[2].thread = p.thread
  <2>1. h = threadpairs[Pair(p.thread, r.thread)]
    BY DEF Finds
  <2>2. h \in Access \X Access
    BY <1>8, <1>9, <2>1 DEF AnalyzerInv, NoteInv
  <2>3. IsSeen(h)
    BY <1>8, <1>9, <2>1 DEF NotedInv
  <2>4. \/ h[1].thread = p.thread /\ h[2].thread = r.thread
        \/ h[1].thread = r.thread /\ h[2].thread = p.thread
    BY <1>2, <1>3, <1>9, <2>1, HistoryThreads DEF AnalyzerInv
  <2> QED
    BY <2>2, <2>3, <2>4
<1> QED
  BY <1>1, <1>2, <1>3, <1>4, <1>7, <1>8, <1>9

\* A row is noted, remembered as the end of an idiom, or neither.
LEMMA ReadNoted ==
  ASSUME AnalyzerInv, AnalyzerInv', StampsRise, NotedInv, NEW r \in Rows, r.ts > LastStamp,
         trace' = Append(trace, r), Effect(r)
  PROVE  NotedInv'
<1> PICK c : c = Current(r)
  OBVIOUS
<1>1. /\ r.addr \in Addresses /\ r.thread \in Threads
      /\ IsRow(c)' /\ c.ts = r.ts /\ r.ts \in Nat /\ c # None
      /\ \A q : IsRow(q) => q.ts \in Nat /\ q.ts < r.ts
      /\ \A q : IsRow(q) => IsRow(q)'
      /\ \A q : IsSeen(q) => IsSeen(q)'
      /\ c.addr = r.addr
  BY CurrentIsRow, CurrentTyped, RowsStay, NextStamp, AnalysisAssumption DEF RowType, AnalyzerInv
<1>2. access' = access \/ access' = [access EXCEPT ![r.addr] = c]
  BY DEF Effect
<1>3. access \in [Addresses -> Access \cup {None}]
  BY DEF AnalyzerInv, NoteInv
<1>4. \A a \in Addresses : access'[a] # None => IsRow(access[a])'
  <2> SUFFICES ASSUME NEW a \in Addresses, access'[a] # None PROVE IsRow(access[a])'
    OBVIOUS
  <2>1. access'[a] = access[a] \/ access'[a] = c
    BY <1>2, <1>3
  <2> PICK q : q = access'[a]
    OBVIOUS
  <2>2. IsRow(q)'
    BY <1>1, <2>1 DEF NotedInv
  <2> QED
    BY <2>2 DEF IsRow
<1>5. \A a \in Addresses : access[a] # None =>
         access'[a] # None /\ access[a].ts <= access'[a].ts
  <2> SUFFICES ASSUME NEW a \in Addresses, access[a] # None
               PROVE  access'[a] # None /\ access[a].ts <= access'[a].ts
    OBVIOUS
  <2>1. access'[a] = access[a] \/ access'[a] = c
    BY <1>2, <1>3
  <2>2. access[a].ts \in Nat /\ access[a].ts < c.ts
    BY <1>1 DEF NotedInv
  <2> QED
    BY <1>1, <2>1, <2>2
<1>6. ASSUME NEW k \in Threads \X Threads, threadpairs'[k] # None, threadpairs'[k] = threadpairs[k],
             NEW h, h = threadpairs'[k]
      PROVE  /\ IsSeen(h)'
             /\ access'[h[2].addr] # None
             /\ h[2].ts <= access'[h[2].addr].ts
  <2>1. /\ IsSeen(h) /\ h \in Access \X Access
        /\ access[h[2].addr] # None
        /\ h[2].ts <= access[h[2].addr].ts
    BY <1>6 DEF NotedInv, AnalyzerInv, NoteInv
  <2>2. h[2].addr \in Addresses
    BY <2>1 DEF Access
  <2>3. /\ access'[h[2].addr] # None
        /\ access[h[2].addr].ts <= access'[h[2].addr].ts
    BY <1>5, <2>1, <2>2
  <2>4. access[h[2].addr].ts \in Nat /\ h[2].ts \in Nat
    BY <1>1, <2>1, <2>2 DEF NotedInv, IsSeen
  <2>5. access'[h[2].addr].ts \in Nat
    BY <1>1, <1>2, <1>3, <2>2, <2>4
  <2> QED
    BY <1>1, <2>1, <2>3, <2>4, <2>5
<1>7. ASSUME NEW k \in Threads \X Threads, threadpairs'[k] # None, threadpairs'[k] # threadpairs[k],
             NEW h, h = threadpairs'[k]
      PROVE  /\ IsSeen(h)'
             /\ access'[h[2].addr] # None
             /\ h[2].ts <= access'[h[2].addr].ts
  <2> PICK p : p = access[r.addr]
    OBVIOUS
  <2>1. /\ p # None /\ IsIdiom(p, r)
        /\ access' = [access EXCEPT ![r.addr] = c]
        /\ threadpairs' = [threadpairs EXCEPT ![Pair(p.thread, r.thread)] = <<p, c>>]
    BY <1>7 DEF Effect
  <2>2. h = <<p, c>>
    BY <1>7, <2>1 DEF AnalyzerInv, NoteInv
  <2>3. IsSeen(<<p, c>>)'
    BY <2>1, Found DEF Finds
  <2>4. access'[h[2].addr] = c
    BY <1>1, <1>3, <2>1, <2>2
  <2> QED
    BY <1>1, <2>2, <2>3, <2>4
<1>8. ASSUME NEW k \in Threads \X Threads, threadpairs'[k] # None
      PROVE  /\ IsSeen(threadpairs[k])'
             /\ access'[threadpairs'[k][2].addr] # None
             /\ threadpairs'[k][2].ts <= access'[threadpairs'[k][2].addr].ts
  <2> PICK h : h = threadpairs'[k]
    OBVIOUS
  <2>1. /\ IsSeen(h)'
        /\ access'[h[2].addr] # None
        /\ h[2].ts <= access'[h[2].addr].ts
    BY <1>6, <1>7, <1>8
  <2> QED
    BY <2>1 DEF IsSeen, IsRow
<1> QED
  BY <1>4, <1>8 DEF NotedInv

\* The issues a row raises are good, and new: none raised before ends at the row.
LEMMA ReadRaises ==
  ASSUME AnalyzerInv, AnalyzerInv', StampsRise, NotedInv, RaisedInv, NEW r \in Rows,
         r.ts > LastStamp, trace' = Append(trace, r), Effect(r), NEW i \in found'
  PROVE  IsGood(i)' /\ i \notin raised
<1> PICK c : c = Current(r)
  OBVIOUS
<1> PICK p : p = access[r.addr]
  OBVIOUS
<1> PICK h : h = threadpairs[Pair(p.thread, r.thread)]
  OBVIOUS
<1>1. Finds(r, c, p, h) /\ h # None /\ i \in Reports(h, <<p, c>>)
  BY DEF Effect, Finds
<1>2. /\ c \in Access /\ p \in Access
      /\ IsSeen(<<p, c>>)'
      /\ p.addr = r.addr /\ c.addr = r.addr /\ c.ts = r.ts /\ r.ts \in Nat
      /\ c.thread = r.thread /\ p.thread # r.thread
      /\ Pair(p.thread, r.thread) \in Threads \X Threads
      /\ h \in Access \X Access /\ IsSeen(h)
      /\ \/ h[1].thread = p.thread /\ h[2].thread = r.thread
         \/ h[1].thread = r.thread /\ h[2].thread = p.thread
  BY <1>1, Found DEF Finds, IsIdiom
<1>3. /\ i.history = h /\ i.last = <<p, c>> /\ i.type \in {0, 1, 2, 4}
      /\ i.type = 1 => Reversible(h, <<p, c>>)
      /\ i.type = 2 => h[1].addr = c.addr
  BY <1>1, ReportedIssue
<1>4. IsSeen(h)' /\ h[2].ts < c.ts
  BY <1>2, RowsStay, NextStamp, CurrentIsRow DEF IsSeen
<1>5. h[2].addr = p.addr => h[2].ts <= p.ts
  BY <1>1, <1>2 DEF Finds, NotedInv
<1>6. i.type = 1 => h[1].thread = c.thread
  BY <1>2, <1>3 DEF Reversible
<1>7. IsGood(i)'
  <2> PICK l : l = <<p, c>>
    OBVIOUS
  <2>1. l \in Access \X Access /\ IsSeen(l)' /\ l[1] = p /\ l[2] = c
    BY <1>2
  <2>2. i.history = h /\ i.last = l
    BY <1>3
  <2>3. i.type = 1 => Reversible(h, l) /\ h[1].thread = l[2].thread
    BY <1>3, <1>6, <2>1
  <2>4. IsSeen(i.history)' /\ IsSeen(i.last)'
    BY <1>4, <2>1, <2>2
  <2>5. /\ i.history[2].ts < i.last[2].ts
        /\ i.history[2].addr = i.last[1].addr => i.history[2].ts <= i.last[1].ts
        /\ i.type = 1 => Reversible(i.history, i.last) /\ i.history[1].thread = i.last[2].thread
        /\ i.type = 2 => i.history[1].addr = i.last[2].addr
    BY <1>3, <1>4, <1>5, <2>1, <2>2, <2>3
  <2> QED
    BY <1>2, <1>3, <2>1, <2>2, <2>4, <2>5 DEF IsGood
<1>8. i \notin raised
  <2> SUFFICES ASSUME i \in raised PROVE FALSE
    OBVIOUS
  <2>1. IsRow(c)
    BY <1>3 DEF RaisedInv, IsGood, IsSeen
  <2> QED
    BY <1>1, <1>2, <2>1, CurrentIsRow, SMTT(30) DEF Finds
<1> QED
  BY <1>7, <1>8

-----------------------------------------------------------------------------
(* What is counted. *)

\* A row raises finitely many issues, and no two under one heading.
LEMMA OneOfEach ==
  ASSUME NEW r \in Rows, Effect(r)
  PROVE  /\ IsFiniteSet(found')
         /\ \A i, j \in found' : Heading(i) = Heading(j) => i = j
<1>1. CASE found' = {}
  BY <1>1, FS_EmptySet
<1>2. ASSUME NEW h, NEW l, found' = Reports(h, l)
      PROVE  /\ IsFiniteSet(found')
             /\ \A i, j \in found' : Heading(i) = Heading(j) => i = j
  <2>1. \A i \in found' : i \in {Issue(t, h, l) : t \in 0 .. 4} /\ i = Issue(i.type, h, l)
    BY <1>2, ReportedIssue
  <2>2. IsFiniteSet({Issue(t, h, l) : t \in 0 .. 4})
    <3> DEFINE f == [t \in 0 .. 4 |-> Issue(t, h, l)]
    <3>1. f \in Surjection(0 .. 4, {Issue(t, h, l) : t \in 0 .. 4})
      BY DEF Surjection
    <3>2. IsFiniteSet(0 .. 4)
      <4>1. 0 \in Int /\ 4 \in Int
        OBVIOUS
      <4> QED
        BY <4>1, FS_Interval, Zenon
    <3> QED
      BY <3>1, <3>2, FS_Surjection
  <2>3. IsFiniteSet(found')
    BY <2>1, <2>2, FS_Subset
  <2>4. ASSUME NEW i \in found', NEW j \in found', Heading(i) = Heading(j)
        PROVE  i = j
    <3>1. i.type = j.type
      BY <2>4 DEF Heading
    <3> QED
      BY <2>1, <3>1
  <2> QED
    BY <2>3, <2>4
<1> QED
  BY <1>1, <1>2 DEF Effect

\* Counting a row keeps the dictionaries those of what has been raised.
LEMMA CountGrows ==
  ASSUME CountInv, IsFiniteSet(raised), IsFiniteSet(found'), \A i \in found' : i \notin raised,
         \A i, j \in found' : Heading(i) = Heading(j) => i = j,
         Count, raised' = raised \cup found'
  PROVE  CountInv'
<1>1. /\ DOMAIN confirmed' = DOMAIN confirmed \cup {Heading(i) : i \in found'}
      /\ DOMAIN confirmed' = {Heading(i) : i \in raised'}
  BY DEF Count, CountInv
<1>2. ASSUME NEW k \in DOMAIN confirmed'
      PROVE  /\ DOMAIN confirmed'[k] = {"accesses", "count"}
             /\ confirmed'[k].count = Cardinality(Under(k, raised'))
             /\ \E i \in Under(k, raised') : confirmed'[k].accesses = Stored(i)
  <2> DEFINE old == Under(k, raised)
             new == Under(k, found')
  <2>1. Under(k, raised') = old \cup new
    BY DEF Under
  <2>2. IsFiniteSet(old) /\ Cardinality(old) \in Nat
    BY FS_Subset, FS_CardinalityType DEF Under
  <2>3. k \in DOMAIN confirmed =>
          /\ DOMAIN confirmed[k] = {"accesses", "count"}
          /\ confirmed[k].count = Cardinality(old)
          /\ \E i \in old : confirmed[k].accesses = Stored(i)
          /\ confirmed'[k] = [confirmed[k] EXCEPT !.count = IF new = {} THEN @ ELSE @ + 1]
    BY <1>1 DEF Count, CountInv
  <2>4. k \notin DOMAIN confirmed =>
          /\ old = {}
          /\ confirmed'[k] = [accesses |-> Stored(CHOOSE i \in new : TRUE), count |-> 1]
    BY <1>1 DEF Count, CountInv, Under
  <2>5. CASE new = {}
    <3>1. k \in DOMAIN confirmed
      BY <1>1, <2>5 DEF Under
    <3>2. old \cup new = old
      BY <2>5
    <3> HIDE DEF old, new
    <3>3. /\ DOMAIN confirmed'[k] = {"accesses", "count"}
          /\ confirmed'[k].count = confirmed[k].count
          /\ confirmed'[k].accesses = confirmed[k].accesses
      BY <2>3, <2>5, <3>1
    <3> QED
      BY <2>1, <2>3, <3>1, <3>2, <3>3
  <2>6. CASE new # {}
    <3>1. PICK i \in new : TRUE
      BY <2>6
    <3>2. new = {i} /\ i \notin old /\ i \in found'
      BY <3>1 DEF Under
    <3> HIDE DEF old, new
    <3>3. Cardinality(old \cup new) = Cardinality(old) + 1
      BY <2>2, <3>2, FS_AddElement
    <3>4. CASE k \in DOMAIN confirmed
      <4>1. /\ DOMAIN confirmed'[k] = {"accesses", "count"}
            /\ confirmed'[k].count = confirmed[k].count + 1
            /\ confirmed'[k].accesses = confirmed[k].accesses
        BY <2>3, <2>6, <3>4
      <4> QED
        BY <2>1, <2>3, <3>3, <3>4, <4>1
    <3>5. CASE k \notin DOMAIN confirmed
      <4>1. (CHOOSE j \in new : TRUE) = i
        BY <3>2
      <4>2. confirmed'[k] = [accesses |-> Stored(i), count |-> 1]
        BY <2>4, <3>5, <4>1
      <4>3. Cardinality(old) = 0
        BY <2>4, <3>5, FS_EmptySet
      <4> QED
        BY <2>1, <3>2, <3>3, <4>2, <4>3
    <3> QED
      BY <3>4, <3>5
  <2> QED
    BY <2>5, <2>6
<1> QED
  BY <1>1, <1>2 DEF CountInv

-----------------------------------------------------------------------------
(* The steps. *)

\* Nothing is noted, raised or written of a trace without rows.
LEMMA InitReport == ReportInit => ReportInv
<1> SUFFICES ASSUME ReportInit PROVE ReportInv
  OBVIOUS
<1>1. /\ trace = <<>> /\ raised = {} /\ DOMAIN confirmed = {} /\ csv = None /\ txt = None /\ place = None
      /\ \A a \in Addresses : access[a] = None
      /\ \A k \in Threads \X Threads : threadpairs[k] = None
  BY DEF ReportInit, Init, AnalyzerInit
<1>2. StampsRise /\ NotedInv /\ WrittenInv
  BY <1>1 DEF StampsRise, NotedInv, WrittenInv
<1>3. RaisedInv /\ CountInv
  BY <1>1, FS_EmptySet DEF RaisedInv, CountInv
<1> QED
  BY <1>2, <1>3 DEF ReportInv

\* The invariant is kept by a row of the trace.
LEMMA ReadReport ==
  ASSUME AnalyzerInv, AnalyzerInv', ReportInv, NEW r \in Rows, ReadTrace(r)
  PROVE  ReportInv'
<1>1. /\ r.ts > LastStamp /\ trace' = Append(trace, r) /\ Count
      /\ raised' = raised \cup found' /\ csv' = csv /\ txt' = txt /\ place' = place
      /\ Effect(r) /\ state = "reading"
  BY ReadEffect DEF ReadTrace, IsNextLine, ReadRow, Read, writtenVars
<1>2. StampsRise' /\ NotedInv'
  BY <1>1, NextStamp, ReadNoted DEF ReportInv
<1>3. \A i \in found' : IsGood(i)' /\ i \notin raised
  BY <1>1, ReadRaises DEF ReportInv
<1>4. IsFiniteSet(raised) /\ \A i \in raised : IsGood(i)'
  BY <1>1, NextStamp, RowsStay DEF ReportInv, RaisedInv
<1>5. /\ IsFiniteSet(found')
      /\ \A i, j \in found' : Heading(i) = Heading(j) => i = j
  BY <1>1, OneOfEach
<1>6. RaisedInv'
  <2>1. IsFiniteSet(raised')
    BY <1>1, <1>4, <1>5, FS_Union
  <2> QED
    BY <1>1, <1>3, <1>4, <2>1 DEF RaisedInv
<1>7. CountInv'
  BY <1>1, <1>3, <1>4, <1>5, CountGrows DEF ReportInv
<1>8. WrittenInv'
  <2>1. csv = None /\ txt = None /\ place = None
    BY <1>1 DEF ReportInv, WrittenInv
  <2> QED
    BY <1>1, <2>1 DEF WrittenInv
<1> QED
  BY <1>2, <1>6, <1>7, <1>8 DEF ReportInv

\* A step that reads no row changes nothing of what is noted and counted.
LEMMA QuietReport ==
  ASSUME ReportInv, UNCHANGED <<access, threadpairs, trace, confirmed, raised>>
  PROVE  StampsRise' /\ NotedInv' /\ RaisedInv' /\ CountInv'
<1>1. StampsRise'
  BY DEF ReportInv, StampsRise
<1>2. \A i : IsGood(i) => IsGood(i)'
  BY RowsStay
<1>3. RaisedInv'
  BY <1>2 DEF ReportInv, RaisedInv
<1>4. NotedInv'
  BY DEF ReportInv, NotedInv, IsSeen, IsRow
<1>5. CountInv'
  BY DEF ReportInv, CountInv
<1> QED
  BY <1>1, <1>3, <1>4, <1>5

\* The lists of the same dictionaries are the same.
LEMMA ListsStay ==
  ASSUME confirmed' = confirmed
  PROVE  /\ Places' = Places
         /\ \A p : Listings(p)' = Listings(p)
         /\ \A l : ListOf(l)' = ListOf(l)
         /\ \A report : IsReport(report) => IsReport(report)'
<1>1. /\ Places' = Places
      /\ \A p : Listings(p)' = Listings(p)
      /\ \A l : ListOf(l)' = ListOf(l)
  BY DEF Places, Listings, Precedes, ListOf
<1> QED
  BY <1>1 DEF IsReport

\* The trace goes on without the analyzer.
LEMMA UnreadReport ==
  ASSUME ReportInv, NEW r \in Rows, Unread(r)
  PROVE  ReportInv'
<1>1. /\ r.ts > LastStamp /\ trace' = Append(trace, r)
      /\ UNCHANGED <<access, threadpairs, state, confirmed, raised, csv, txt, place>>
  BY DEF Unread, IsNextLine, analyzerVars, writtenVars
<1>2. StampsRise' /\ \A n \in DOMAIN trace : n \in DOMAIN trace' /\ trace'[n] = trace[n]
  BY <1>1, NextStamp DEF ReportInv
<1>3. /\ \A q : IsRow(q) => IsRow(q)'
      /\ \A p : IsSeen(p) => IsSeen(p)'
      /\ \A i : IsGood(i) => IsGood(i)'
  BY <1>2, RowsStay
<1>4. NotedInv'
  <2>1. ASSUME NEW a \in Addresses, access[a] # None PROVE IsRow(access[a])'
    <3> PICK q : q = access[a]
      OBVIOUS
    <3>1. IsRow(q)'
      BY <1>3, <2>1 DEF ReportInv, NotedInv
    <3> QED
      BY <1>1, <3>1 DEF IsRow
  <2>2. ASSUME NEW k \in Threads \X Threads, threadpairs[k] # None PROVE IsSeen(threadpairs[k])'
    <3> PICK h : h = threadpairs[k]
      OBVIOUS
    <3>1. IsSeen(h)'
      BY <1>3, <2>2 DEF ReportInv, NotedInv
    <3> QED
      BY <1>1, <3>1 DEF IsSeen, IsRow
  <2> QED
    BY <1>1, <2>1, <2>2 DEF ReportInv, NotedInv
<1>5. RaisedInv'
  BY <1>1, <1>3 DEF ReportInv, RaisedInv
<1>6. CountInv'
  BY <1>1 DEF ReportInv, CountInv
<1>7. WrittenInv'
  BY <1>1, ListsStay DEF ReportInv, WrittenInv, IsReport
<1> QED
  BY <1>2, <1>4, <1>5, <1>6, <1>7 DEF ReportInv

LEMMA NextReport == ReadInv /\ ReportInv /\ [ReportNext]_reportVars => ReportInv'
<1> SUFFICES ASSUME ReadInv, ReportInv, [ReportNext]_reportVars
             PROVE  ReportInv'
  OBVIOUS
<1>1. ASSUME NEW r \in Rows, ReadTrace(r) PROVE ReportInv'
  BY <1>1, ReadReport, StepAnalyzed
<1>2. ASSUME NEW r \in Rows, Unread(r) PROVE ReportInv'
  BY <1>2, UnreadReport
<1>3. ASSUME UNCHANGED <<access, threadpairs, trace, confirmed, raised>>, WrittenInv'
      PROVE  ReportInv'
  BY <1>3, QuietReport DEF ReportInv
<1>4. CASE StopTrace
  <2>1. /\ UNCHANGED <<access, threadpairs, trace, confirmed, raised, csv, txt, place>>
        /\ csv = None /\ txt = None /\ place = None
    BY <1>4 DEF StopTrace, StopReading, Stop, ReportInv, WrittenInv, writtenVars
  <2> QED
    BY <1>3, <2>1 DEF WrittenInv
<1>5. CASE WriteCsv
  <2>1. /\ UNCHANGED <<access, threadpairs, trace, confirmed, raised, txt>>
        /\ state' = "finished" /\ csv = None /\ txt = None
    BY <1>5 DEF WriteCsv, vars, analyzerVars, ReportInv, WrittenInv
  <2>2. PICK p \in Places : place' = p /\ \E l \in Listings(p) : csv' = ListOf(l)
    BY <1>5 DEF WriteCsv, Places
  <2> PICK c : c = csv'
    OBVIOUS
  <2>3. IsReport(c)' /\ place' \in Places'
    BY <2>1, <2>2, ListsStay DEF IsReport
  <2>4. IsReport(csv)'
    BY <2>3 DEF IsReport
  <2> QED
    BY <1>3, <2>1, <2>3, <2>4 DEF WrittenInv
<1>6. CASE WriteText
  <2>1. /\ UNCHANGED <<access, threadpairs, trace, confirmed, raised, csv, state>>
        /\ csv # None /\ place # None /\ place' = None
    BY <1>6 DEF WriteText, vars, analyzerVars
  <2>2. PICK l \in Listings(place) : txt' = ListOf(l)
    BY <1>6 DEF WriteText
  <2>3. place \in Places /\ IsReport(csv) /\ state = "finished"
    BY <2>1 DEF ReportInv, WrittenInv
  <2> PICK c, t : c = csv /\ t = txt'
    OBVIOUS
  <2>4. IsReport(c)' /\ IsReport(t)'
    BY <2>1, <2>2, <2>3, ListsStay DEF IsReport
  <2>5. IsReport(csv)' /\ IsReport(txt)'
    BY <2>1, <2>4 DEF IsReport
  <2>6. WrittenInv'
    BY <2>1, <2>3, <2>5 DEF WrittenInv
  <2> QED
    BY <1>3, <2>1, <2>6
<1>7. CASE UNCHANGED reportVars
  <2>1. UNCHANGED <<access, threadpairs, trace, confirmed, raised, csv, txt, place, state>>
    BY <1>7 DEF reportVars, writtenVars, vars, analyzerVars
  <2>2. WrittenInv'
    BY <2>1, ListsStay DEF ReportInv, WrittenInv, IsReport
  <2> QED
    BY <1>3, <2>1, <2>2
<1> QED
  BY <1>1, <1>2, <1>4, <1>5, <1>6, <1>7 DEF ReportNext

LEMMA AlwaysReport == ReportSpec => []ReportInv
  BY InitReport, NextReport, AlwaysRead, PTL DEF ReportSpec

-----------------------------------------------------------------------------
(* The lists of issues. *)

\* A list of a finite set has each of its elements once.
LEMMA ListedOnce ==
  ASSUME NEW S, IsFiniteSet(S), NEW l \in SetToSeqs(S)
  PROVE  /\ Cardinality(S) \in Nat
         /\ DOMAIN l = 1 .. Cardinality(S) /\ Len(l) = Cardinality(S)
         /\ \A n \in DOMAIN l : l[n] \in S
         /\ \A m, n \in DOMAIN l : l[m] = l[n] => m = n
         /\ \A x \in S : \E n \in DOMAIN l : l[n] = x
<1> DEFINE D == 1 .. Cardinality(S)
<1>1. Cardinality(S) \in Nat
  BY FS_CardinalityType
<1>2. l \in [D -> S] /\ \A m, n \in D : l[m] = l[n] => m = n
  BY DEF SetToSeqs
<1>3. l \in Injection(D, S)
  BY <1>2 DEF Injection, IsInjective
<1>4. IsFiniteSet(D) /\ Cardinality(D) = Cardinality(S)
  BY <1>1, FS_Interval
<1>5. l \in Surjection(D, S)
  BY <1>3, <1>4, FS_Injection
<1> QED
  BY <1>1, <1>2, <1>5 DEF Surjection

\* The dictionaries are finite and their counts are numbers.
LEMMA FiniteCounts ==
  ASSUME RaisedInv, CountInv
  PROVE  /\ IsFiniteSet(DOMAIN confirmed)
         /\ \A k \in DOMAIN confirmed : confirmed[k].count \in Nat
<1> DEFINE f == [i \in raised |-> Heading(i)]
<1>1. f \in Surjection(raised, DOMAIN confirmed)
  BY DEF CountInv, Surjection
<1>2. IsFiniteSet(DOMAIN confirmed)
  BY <1>1, FS_Surjection DEF RaisedInv
<1>3. \A k : IsFiniteSet(Under(k, raised))
  BY FS_Subset DEF RaisedInv, Under
<1> QED
  BY <1>2, <1>3, FS_CardinalityType DEF CountInv

\* The accesses stored are the good issue's, two or four of them.
LEMMA StoredAccesses ==
  ASSUME NEW i, IsGood(i), NEW q, q = Stored(i)
  PROVE  /\ i.type = 0 => q = i.last
         /\ i.type = 1 => q = i.history
         /\ i.type \in {0, 1} => DOMAIN q = 1 .. 2
         /\ i.type \in {2, 4} => /\ DOMAIN q = 1 .. 4
                                 /\ q[1] = i.history[1] /\ q[2] = i.history[2]
                                 /\ q[3] = i.last[1] /\ q[4] = i.last[2]
<1>1. i.history \in Access \X Access /\ i.last \in Access \X Access
  BY DEF IsGood
<1>2. /\ i.history \in Seq(Access) /\ Len(i.history) = 2 /\ DOMAIN i.history = 1 .. 2
      /\ i.last \in Seq(Access) /\ Len(i.last) = 2 /\ DOMAIN i.last = 1 .. 2
  <2>1. ASSUME NEW p \in Access \X Access
        PROVE  p \in Seq(Access) /\ Len(p) = 2 /\ DOMAIN p = 1 .. 2
    <3>1. p = <<p[1], p[2]>> /\ p[1] \in Access /\ p[2] \in Access
      OBVIOUS
    <3>2. ASSUME NEW a \in Access, NEW b \in Access
          PROVE  <<a, b>> \in Seq(Access) /\ Len(<<a, b>>) = 2 /\ DOMAIN <<a, b>> = 1 .. 2
      OBVIOUS
    <3> QED
      BY <3>1, <3>2, Zenon
  <2> QED
    BY <1>1, <2>1
<1>0. PICK c : c = i.history \o i.last
  OBVIOUS
<1>3. DOMAIN c = 1 .. 4 /\ c[1] = i.history[1] /\ c[2] = i.history[2]
                        /\ c[3] = i.last[1] /\ c[4] = i.last[2]
  <2>0. PICK h, l : h = i.history /\ l = i.last
    OBVIOUS
  <2>1. h \in Seq(Access) /\ l \in Seq(Access) /\ Len(h) = 2 /\ Len(l) = 2 /\ c = h \o l
    BY <1>0, <1>2, <2>0
  <2>2. /\ c \in Seq(Access) /\ Len(c) = Len(h) + Len(l)
        /\ \A n \in 1 .. Len(h) + Len(l) : c[n] = IF n <= Len(h) THEN h[n] ELSE l[n - Len(h)]
    BY <2>1, ConcatProperties
  <2>3. DOMAIN c = 1 .. 4 /\ c[1] = h[1] /\ c[2] = h[2] /\ c[3] = l[1] /\ c[4] = l[2]
    <3>1. Len(h) = 2 /\ Len(l) = 2
      BY <2>1
    <3> QED
      BY <2>2, <3>1
  <2> QED
    BY <2>0, <2>3
<1>4. /\ i.type = 0 => q = i.last
      /\ i.type = 1 => q = i.history
      /\ i.type \in {2, 4} => q = c
  <2>1. CASE i.type = 0
    BY <2>1 DEF Stored
  <2>2. CASE i.type = 1
    BY <2>2 DEF Stored
  <2>3. CASE i.type \in {2, 4}
    <3>1. i.type # 0 /\ i.type # 1
      BY <2>3
    <3>2. Stored(i) = c
      BY <1>0, <3>1, Zenon DEF Stored
    <3> QED
      BY <3>1, <3>2
  <2> QED
    BY <2>1, <2>2, <2>3 DEF IsGood
<1> QED
  BY <1>2, <1>3, <1>4

\* A report has a row for each heading, and no others.
LEMMA ReportRows ==
  ASSUME ReportInv, NEW report, IsReport(report)
  PROVE  /\ Len(report) = Cardinality(DOMAIN confirmed)
         /\ \A n \in DOMAIN report : \E i \in raised :
              /\ report[n].type = i.type /\ report[n].accesses = Stored(i)
         /\ \A i \in raised : \E n \in DOMAIN report : \E j \in Under(Heading(i), raised) :
              /\ report[n].type = j.type /\ report[n].accesses = Stored(j)
              /\ report[n].count = Cardinality(Under(Heading(i), raised))
<1>1. RaisedInv /\ CountInv
  BY DEF ReportInv
<1>2. PICK p \in Places : \E l \in Listings(p) : report = ListOf(l)
  BY DEF IsReport
<1>3. PICK l \in Listings(p) : report = ListOf(l)
  BY <1>2
<1> DEFINE N == Cardinality(DOMAIN confirmed)
           Listed(k) == [type |-> k[1], count |-> confirmed[k].count,
                         accesses |-> confirmed[k].accesses]
<1>4. /\ N \in Nat /\ DOMAIN l = 1 .. N
      /\ \A n \in DOMAIN l : l[n] \in DOMAIN confirmed
      /\ \A k \in DOMAIN confirmed : \E n \in DOMAIN l : l[n] = k
  BY <1>1, FiniteCounts, ListedOnce DEF Listings
<1> HIDE DEF N
<1>5. /\ DOMAIN report = 1 .. N /\ Len(report) = N
      /\ \A n \in DOMAIN report : report[n] = Listed(l[n])
  BY <1>3, <1>4 DEF ListOf
<1>6. ASSUME NEW k \in DOMAIN confirmed
      PROVE  \E j \in Under(k, raised) :
                 /\ Listed(k).type = j.type /\ Listed(k).accesses = Stored(j)
                 /\ Listed(k).count = Cardinality(Under(k, raised))
  <2>1. PICK j \in Under(k, raised) : confirmed[k].accesses = Stored(j)
    BY <1>1 DEF CountInv
  <2>2. confirmed[k].count = Cardinality(Under(k, raised))
    BY <1>1 DEF CountInv
  <2>3. k[1] = j.type
    BY <2>1 DEF Under, Heading
  <2> QED
    BY <2>1, <2>2, <2>3
<1> HIDE DEF Listed
<1>7. ASSUME NEW i \in raised
      PROVE  \E n \in DOMAIN report : \E j \in Under(Heading(i), raised) :
                 /\ report[n].type = j.type /\ report[n].accesses = Stored(j)
                 /\ report[n].count = Cardinality(Under(Heading(i), raised))
  <2>1. PICK k \in DOMAIN confirmed : k = Heading(i)
    BY <1>1 DEF CountInv
  <2>2. PICK n \in DOMAIN report : report[n] = Listed(k)
    BY <1>4, <1>5
  <2> QED
    BY <1>6, <2>1, <2>2
<1>8. ASSUME NEW n \in DOMAIN report
      PROVE  \E i \in raised : report[n].type = i.type /\ report[n].accesses = Stored(i)
  <2>1. PICK k \in DOMAIN confirmed : report[n] = Listed(k)
    BY <1>4, <1>5, <1>8
  <2> QED
    BY <1>6, <2>1 DEF Under
<1> QED
  BY <1>5, <1>7, <1>8 DEF N

-----------------------------------------------------------------------------
(* What is promised. *)

\* In neither report an issue is lost or counted twice.
THEOREM IssuesAreCounted == ReportSpec => []EveryIssueCounted
<1>1. ASSUME ReportInv, NEW report, IsReport(report) PROVE ListsAll(report)
  <2>1. Len(report) = Cardinality({Heading(i) : i \in raised})
    BY <1>1, ReportRows DEF ReportInv, CountInv
  <2>2. ASSUME NEW i \in raised
        PROVE  \E n \in DOMAIN report : /\ IsFor(report[n], Heading(i))
                                        /\ report[n].count = Cardinality(Under(Heading(i), raised))
    <3>1. PICK n \in DOMAIN report, j \in Under(Heading(i), raised) :
            /\ report[n].type = j.type /\ report[n].accesses = Stored(j)
            /\ report[n].count = Cardinality(Under(Heading(i), raised))
      BY <1>1, ReportRows
    <3>2. IsGood(j) /\ Heading(j) = Heading(i)
      BY <1>1 DEF ReportInv, RaisedInv, Under
    <3> DEFINE q == Stored(j)
    <3>3. CASE j.type = 0
      <4>1. Heading(j) = <<0, Interleaving(q)>>
        BY <3>2, <3>3, StoredAccesses DEF Heading
      <4> QED
        BY <3>1, <3>2, <3>3, <4>1 DEF IsFor
    <3>4. CASE j.type = 1
      <4>1. Heading(j) = <<1, Interleaving(j.last)>> /\ q = j.history
        BY <3>2, <3>4, StoredAccesses DEF Heading
      <4>2. /\ q[1].addr = j.last[2].addr /\ q[1].thread = j.last[2].thread /\ q[1].ipc = j.last[2].ipc
            /\ q[2].addr = j.last[1].addr /\ q[2].thread = j.last[1].thread /\ q[2].ipc = j.last[1].ipc
        BY <3>2, <3>4, <4>1 DEF IsGood, IsSeen, Reversible
      <4> QED
        BY <3>1, <3>2, <3>4, <4>1, <4>2, SMTT(30) DEF IsFor, Interleaving
    <3>5. CASE j.type \in {2, 4}
      <4>1. Heading(j) = <<j.type, Interleaving(j.history)>>
        BY <3>5 DEF Heading
      <4>2. q[1] = j.history[1] /\ q[2] = j.history[2]
        BY <3>2, <3>5, StoredAccesses
      <4>3. Interleaving(q) = Interleaving(j.history)
        BY <4>2 DEF Interleaving
      <4> QED
        BY <3>1, <3>2, <3>5, <4>1, <4>3 DEF IsFor
    <3> QED
      BY <3>1, <3>2, <3>3, <3>4, <3>5 DEF IsGood
  <2> QED
    BY <2>1, <2>2 DEF ListsAll
<1>2. ReportInv => EveryIssueCounted
  BY <1>1 DEF ReportInv, WrittenInv, Reported, EveryIssueCounted
<1> QED
  BY <1>2, AlwaysReport, PTL

\* The rows printed for an issue are rows of the trace, in the order printed.
THEOREM AccessesInOrder == ReportSpec => []InOrder
<1>1. ReportInv => InOrder
  <2> SUFFICES ASSUME ReportInv, Reported, NEW n \in DOMAIN csv
               PROVE  LET q == csv[n].accesses
                          type == csv[n].type
                      IN  /\ \A m \in DOMAIN q :
                               \E r \in ToSet(trace) :
                                   q[m].ts = r.ts /\ q[m].thread = r.thread /\ q[m].ipc = r.ipc
                          /\ q[1].ts < q[2].ts
                          /\ type \in {2, 4} => q[3].ts < q[4].ts /\ q[2].ts < q[4].ts
                          /\ type = 2 => q[2].ts <= q[3].ts
    BY DEF InOrder
  <2> DEFINE q == csv[n].accesses
             type == csv[n].type
  <2>1. PICK i \in raised : type = i.type /\ q = Stored(i)
    BY ReportRows DEF ReportInv, WrittenInv, Reported
  <2>2. IsGood(i)
    BY DEF ReportInv, RaisedInv
  <2>3. \A p : IsRow(p) => \E r \in ToSet(trace) : p.ts = r.ts /\ p.thread = r.thread /\ p.ipc = r.ipc
    BY DEF IsRow, ToSet
  <2>4. /\ i.history[1].ts < i.history[2].ts /\ i.last[1].ts < i.last[2].ts
        /\ \A m \in 1 .. 2 : IsRow(i.history[m]) /\ IsRow(i.last[m])
    BY <2>2 DEF IsGood, IsSeen
  <2>5. i.type = 2 => i.history[2].ts <= i.last[1].ts
    BY <2>2 DEF IsGood, IsSeen
  <2>6. /\ i.type = 0 => q = i.last
        /\ i.type = 1 => q = i.history
        /\ i.type \in {0, 1} => DOMAIN q = 1 .. 2
        /\ i.type \in {2, 4} => /\ DOMAIN q = 1 .. 4
                                /\ q[1] = i.history[1] /\ q[2] = i.history[2]
                                /\ q[3] = i.last[1] /\ q[4] = i.last[2]
    BY <2>1, <2>2, StoredAccesses
  <2>7. type \in {0, 1, 2, 4} /\ i.history[2].ts < i.last[2].ts
    BY <2>1, <2>2 DEF IsGood
  <2> HIDE DEF q, type
  <2>8. \A m \in DOMAIN q : IsRow(q[m])
    BY <2>1, <2>4, <2>6, <2>7
  <2>9. q[1].ts < q[2].ts
    BY <2>1, <2>4, <2>6, <2>7
  <2>10. /\ type \in {2, 4} => q[3].ts < q[4].ts /\ q[2].ts < q[4].ts
         /\ type = 2 => q[2].ts <= q[3].ts
    BY <2>1, <2>4, <2>5, <2>6, <2>7
  <2> QED
    BY <2>3, <2>8, <2>9, <2>10 DEF q, type
<1> QED
  BY <1>1, AlwaysReport, PTL

\* An issue of type 1 is a reversal that the trace has.
THEOREM ReversalsAreWitnessed == ReportSpec => []ReversalWitnessed
<1>1. ReportInv => ReversalWitnessed
  <2> SUFFICES ASSUME ReportInv, Reported, NEW n \in DOMAIN csv, csv[n].type = 1,
                      NEW q, q = csv[n].accesses
               PROVE  \E j, k \in DOMAIN trace :
                          /\ j < k
                          /\ trace[j].ts >= q[2].ts
                          /\ trace[j].thread = q[2].thread /\ trace[j].ipc = q[2].ipc
                          /\ trace[k].thread = q[1].thread /\ trace[k].ipc = q[1].ipc
                          /\ trace[j].addr = q[1].addr /\ trace[k].addr = q[1].addr
    BY DEF ReversalWitnessed
  <2>0. IsReport(csv)
    BY DEF ReportInv, WrittenInv, Reported
  <2>1. PICK i \in raised : i.type = 1 /\ q = i.history /\ IsGood(i)
    <3>1. PICK i \in raised : csv[n].type = i.type /\ q = Stored(i)
      BY <2>0, ReportRows
    <3>2. IsGood(i)
      BY DEF ReportInv, RaisedInv
    <3> QED
      BY <3>1, <3>2, StoredAccesses
  <2> DEFINE l == i.last
  <2>2. /\ Reversible(q, l) /\ q[1].thread = l[2].thread
        /\ IsSeen(q) /\ IsSeen(l)
    BY <2>1 DEF IsGood
  <2>3. /\ q[1].addr = q[2].addr /\ l[1].addr = l[2].addr /\ q[1].addr = l[2].addr
        /\ q[2].thread = l[1].thread /\ q[2].ipc = l[1].ipc /\ q[1].ipc = l[2].ipc
        /\ l[1].ts < l[2].ts
    BY <2>2 DEF Reversible, IsSeen
  <2>4. q[2].ts <= l[1].ts
    BY <2>1, <2>3 DEF IsGood
  <2>5. PICK j \in DOMAIN trace : /\ l[1].thread = trace[j].thread /\ l[1].addr = trace[j].addr
                                  /\ l[1].ipc = trace[j].ipc /\ l[1].ts = trace[j].ts
    BY <2>2 DEF IsSeen, IsRow
  <2>6. PICK k \in DOMAIN trace : /\ l[2].thread = trace[k].thread /\ l[2].addr = trace[k].addr
                                  /\ l[2].ipc = trace[k].ipc /\ l[2].ts = trace[k].ts
    BY <2>2 DEF IsSeen, IsRow
  <2>7. trace \in Seq(Rows) /\ \A s \in Rows : s.ts \in Nat
    BY AnalysisAssumption, ReportAssumption DEF RowType, ReportInv, StampsRise
  <2>8. j < k
    <3>1. trace[j].ts \in Nat /\ trace[k].ts \in Nat /\ j \in Nat /\ k \in Nat
      BY <2>7
    <3>2. trace[j].ts < trace[k].ts
      BY <2>3, <2>5, <2>6
    <3>3. k < j => trace[k].ts < trace[j].ts
      BY DEF ReportInv, StampsRise
    <3> QED
      BY <3>1, <3>2, <3>3
  <2>9. trace[j].ts >= q[2].ts
    <3>1. PICK m \in DOMAIN trace : q[2].ts = trace[m].ts
      BY <2>2 DEF IsSeen, IsRow
    <3>2. q[2].ts \in Nat /\ trace[j].ts \in Nat
      BY <2>7, <3>1
    <3> QED
      BY <2>4, <2>5, <3>2
  <2> HIDE DEF l
  <2> QED
    BY <2>2, <2>3, <2>5, <2>6, <2>8, <2>9
<1> QED
  BY <1>1, AlwaysReport, PTL
=============================================================================
