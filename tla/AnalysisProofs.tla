--------------------------- MODULE AnalysisProofs ---------------------------
(***************************************************************************)
(* Theorems about Analysis: what the analyzer concludes from any trace that *)
(* TraceGrammar allows, of any number of threads, mutexes and variables.    *)
(***************************************************************************)
EXTENDS Analysis, SequenceTheorems, TLAPS

-----------------------------------------------------------------------------
(* Sequences. *)

\* RemoveAt drops one element and keeps the others in order.
LEMMA RemoveAtElements ==
  ASSUME NEW S, NEW s \in Seq(S), NEW i \in 1 .. Len(s)
  PROVE  /\ RemoveAt(s, i) \in Seq(S)
         /\ Len(RemoveAt(s, i)) = Len(s) - 1
         /\ \A j \in 1 .. Len(s) - 1 :
              RemoveAt(s, i)[j] = IF j < i THEN s[j] ELSE s[j + 1]
<1> DEFINE l == SubSeq(s, 1, i - 1)
           r == SubSeq(s, i + 1, Len(s))
<1>0. Len(s) \in Nat /\ i \in Int /\ 1 <= i /\ i <= Len(s)
  OBVIOUS
<1>1. /\ l \in Seq(S) /\ Len(l) = i - 1
      /\ \A j \in 1 .. i - 1 : l[j] = s[j]
  OBVIOUS
<1>2. /\ r \in Seq(S) /\ Len(r) = Len(s) - i
      /\ \A j \in 1 .. Len(s) - i : r[j] = s[i + j]
  OBVIOUS
<1> HIDE DEF l, r
<1>3. /\ l \o r \in Seq(S) /\ Len(l \o r) = Len(l) + Len(r)
      /\ \A j \in 1 .. Len(l) + Len(r) :
           (l \o r)[j] = IF j <= Len(l) THEN l[j] ELSE r[j - Len(l)]
  BY <1>1, <1>2, ConcatProperties
<1>4. ASSUME NEW j \in 1 .. Len(s) - 1
      PROVE  (l \o r)[j] = IF j < i THEN s[j] ELSE s[j + 1]
  <2>1. CASE j < i
    BY <1>0, <1>1, <1>2, <1>3, <2>1
  <2>2. CASE j >= i
    <3>1. j - (i - 1) \in 1 .. Len(s) - i
      BY <1>0, <2>2
    <3>2. (l \o r)[j] = r[j - (i - 1)]
      BY <1>0, <1>1, <1>2, <1>3, <2>2
    <3>3. r[j - (i - 1)] = s[i + (j - (i - 1))]
      BY <1>2, <3>1
    <3>4. i + (j - (i - 1)) = j + 1
      BY <1>0
    <3> QED
      BY <1>0, <2>2, <3>2, <3>3, <3>4
  <2>3. j < i \/ j >= i
    BY <1>0
  <2> QED
    BY <2>1, <2>2, <2>3
<1>5. Len(l \o r) = Len(s) - 1
  BY <1>0, <1>1, <1>2, <1>3
<1> QED
  BY <1>3, <1>4, <1>5 DEF RemoveAt, l, r

\* Maximum of a set with one element.
LEMMA MaxOfOne == ASSUME NEW i \in Int PROVE Max({i}) = i
  BY DEF Max

-----------------------------------------------------------------------------
(* The list of a thread's mutexes. *)

Addrs(s) == {e.addr : e \in ToSet(s)}
Once(s) == \A i, j \in DOMAIN s : s[i].addr = s[j].addr => i = j

LEMMA AddrsElements ==
  ASSUME NEW s \in Seq(Entry), NEW a
  PROVE  a \in Addrs(s) <=> \E i \in 1 .. Len(s) : s[i].addr = a
  BY DEF Addrs, ToSet

\* A get row of a mutex the thread does not hold.
LEMMA OpenedList ==
  ASSUME NEW s \in Seq(Entry), NEW e \in Entry, Once(s), e.addr \notin Addrs(s)
  PROVE  /\ Append(s, e) \in Seq(Entry)
         /\ Addrs(Append(s, e)) = Addrs(s) \cup {e.addr}
         /\ Once(Append(s, e))
<1> DEFINE q == Append(s, e)
<1>1. /\ q \in Seq(Entry) /\ Len(q) = Len(s) + 1 /\ Len(s) \in Nat
      /\ q[Len(s) + 1] = e
      /\ \A i \in 1 .. Len(s) : q[i] = s[i]
  OBVIOUS
<1>2. DOMAIN q = 1 .. Len(s) + 1 /\ DOMAIN s = 1 .. Len(s)
  BY <1>1
<1> HIDE DEF q
<1>3. ASSUME NEW a PROVE a \in Addrs(q) <=> a \in Addrs(s) \cup {e.addr}
  BY <1>1, AddrsElements
<1>4. Once(q)
  <2> SUFFICES ASSUME NEW i \in 1 .. Len(s) + 1, NEW j \in 1 .. Len(s) + 1,
                      q[i].addr = q[j].addr
               PROVE  i = j
    BY <1>2 DEF Once
  <2>1. CASE i \in 1 .. Len(s) /\ j \in 1 .. Len(s)
    BY <1>1, <1>2, <2>1 DEF Once
  <2>2. CASE i = Len(s) + 1 /\ j \in 1 .. Len(s)
    BY <1>1, <2>2, AddrsElements
  <2>3. CASE j = Len(s) + 1 /\ i \in 1 .. Len(s)
    BY <1>1, <2>3, AddrsElements
  <2> QED
    BY <1>1, <2>1, <2>2, <2>3
<1> QED
  BY <1>1, <1>3, <1>4 DEF q

\* An unlock row of a mutex the thread holds.
LEMMA ClosedList ==
  ASSUME NEW s \in Seq(Entry), NEW a \in Addrs(s), Once(s)
  PROVE  LET k == Max({i \in DOMAIN s : s[i].addr = a})
         IN /\ RemoveAt(s, k) \in Seq(Entry)
            /\ Addrs(RemoveAt(s, k)) = Addrs(s) \ {a}
            /\ Once(RemoveAt(s, k))
<1>1. PICK k \in 1 .. Len(s) : s[k].addr = a
  BY AddrsElements
<1>2. {i \in DOMAIN s : s[i].addr = a} = {k}
  BY <1>1 DEF Once
<1>3. Max({i \in DOMAIN s : s[i].addr = a}) = k
  BY <1>2, MaxOfOne
<1> DEFINE q == RemoveAt(s, k)
<1>4. /\ q \in Seq(Entry) /\ Len(q) = Len(s) - 1 /\ Len(s) \in Nat
      /\ \A j \in 1 .. Len(s) - 1 : q[j] = IF j < k THEN s[j] ELSE s[j + 1]
  BY RemoveAtElements
<1> HIDE DEF q
<1>5. ASSUME NEW b, b \in Addrs(q) PROVE b \in Addrs(s) \ {a}
  <2>1. PICK j \in 1 .. Len(s) - 1 : q[j].addr = b
    BY <1>4, <1>5, AddrsElements
  <2>2. PICK i \in 1 .. Len(s) : q[j] = s[i] /\ i # k
    BY <1>4
  <2> QED
    BY <1>1, <2>1, <2>2, AddrsElements DEF Once
<1>6. ASSUME NEW b \in Addrs(s), b # a PROVE b \in Addrs(q)
  <2>1. PICK i \in 1 .. Len(s) : s[i].addr = b
    BY AddrsElements
  <2>2. i # k
    BY <1>1, <1>6, <2>1
  <2>3. PICK j \in 1 .. Len(s) - 1 : q[j] = s[i]
    <3>1. CASE i < k
      BY <1>4, <3>1
    <3>2. CASE i > k
      <4>1. i - 1 \in 1 .. Len(s) - 1 /\ ~(i - 1 < k) /\ (i - 1) + 1 = i
        BY <3>2
      <4> QED
        BY <1>4, <4>1
    <3> QED
      BY <2>2, <3>1, <3>2
  <2> QED
    BY <1>4, <2>1, <2>3, AddrsElements
<1>7. Once(q)
  <2> SUFFICES ASSUME NEW i \in 1 .. Len(s) - 1, NEW j \in 1 .. Len(s) - 1,
                      q[i].addr = q[j].addr
               PROVE  i = j
    BY <1>4 DEF Once
  <2> DEFINE at(x) == IF x < k THEN x ELSE x + 1
  <2>1. q[i] = s[at(i)] /\ q[j] = s[at(j)] /\ at(i) \in 1 .. Len(s) /\ at(j) \in 1 .. Len(s)
    BY <1>4
  <2>2. at(i) = at(j)
    BY <2>1 DEF Once
  <2> QED
    BY <2>2
<1> QED
  BY <1>3, <1>4, <1>5, <1>6, <1>7 DEF q

-----------------------------------------------------------------------------
(* The analyzer's view of the mutexes. *)

TraceInv == G!GrammarTypeOK /\ HeldInv

LEMMA InitTrace == Init => TraceInv
  BY AnalysisAssumption DEF Init, G!GrammarInit, TraceInv, G!GrammarTypeOK, HeldInv

LEMMA FollowsTrace ==
  ASSUME TraceInv, NEW r \in Rows, G!Follows(r)
  PROVE  TraceInv'
<1> USE AnalysisAssumption DEF TraceInv, G!GrammarTypeOK, HeldInv, RowType
<1>1. CASE G!Starts(r)
  BY <1>1 DEF G!Starts
<1>2. CASE G!Ends(r)
  BY <1>2 DEF G!Ends, G!Running
<1>3. CASE G!Requests(r)
  BY <1>3 DEF G!Requests, G!Running
<1>4. CASE G!Gets(r)
  BY <1>4 DEF G!Gets
<1>5. CASE G!Unlocks(r)
  BY <1>5 DEF G!Unlocks, G!Running
<1>6. CASE G!Touches(r) \/ G!Manages(r)
  BY <1>6 DEF G!Touches, G!Manages, G!grammarVars
<1> QED
  BY <1>1, <1>2, <1>3, <1>4, <1>5, <1>6 DEF G!Follows

\* Only a row that follows changes what the trace shows.
LEMMA QuietTrace ==
  ASSUME TraceInv, UNCHANGED traceVars
  PROVE  TraceInv'
  BY DEF traceVars, TraceInv, G!GrammarTypeOK, HeldInv

LEMMA NextTrace == TraceInv /\ [Next]_vars => TraceInv'
  BY FollowsTrace, QuietTrace DEF Next, ReadRow, Strays, StopReading, vars

ViewInv ==
    /\ locks \in [Threads -> Seq(Entry)]
    /\ \A t \in Threads : Addrs(locks[t]) = held[t] /\ Once(locks[t])

LEMMA InitView == Init => ViewInv
  BY DEF Init, AnalyzerInit, G!GrammarInit, ViewInv, Addrs, Once, ToSet

\* No row of a well-formed trace aborts the analysis.
LEMMA AlwaysMatched ==
  ASSUME TraceInv, ViewInv, NEW r \in Rows, G!Follows(r)
  PROVE  ~Unmatched(r)
<1> SUFFICES ASSUME r.op = "pthread_mutex_unlock" PROVE Positions(r.thread, r.addr) # {}
  BY DEF Unmatched
<1>1. r.thread \in Threads
  BY AnalysisAssumption DEF RowType
<1>2. r.addr \in held[r.thread]
  BY DEF G!Follows, G!Starts, G!Ends, G!Requests, G!Gets, G!Unlocks, G!Touches, G!Manages,
     G!AccessOps, G!HeapOps
<1>3. locks[r.thread] \in Seq(Entry) /\ r.addr \in Addrs(locks[r.thread])
  BY <1>1, <1>2 DEF ViewInv
<1> QED
  BY <1>3, AddrsElements DEF Positions

LEMMA ReadView ==
  ASSUME TraceInv, ViewInv, NEW r \in Rows, G!Follows(r), TrackLocks(r)
  PROVE  ViewInv'
<1> DEFINE t == r.thread
<1>1. t \in Threads /\ r.addr \in Addresses /\ r.ipc \in Ipcs /\ r.ts \in Stamps
  BY AnalysisAssumption DEF RowType
<1>2. locks[t] \in Seq(Entry) /\ Once(locks[t]) /\ Addrs(locks[t]) = held[t]
  BY <1>1 DEF ViewInv
<1>3. ASSUME NEW s \in Seq(Entry), Once(s), locks' = [locks EXCEPT ![t] = s],
             held' = [held EXCEPT ![t] = Addrs(s)]
      PROVE  ViewInv'
  BY <1>1, <1>3 DEF ViewInv, TraceInv, G!GrammarTypeOK
<1>4. CASE G!Starts(r)
  <2>1. locks' = [locks EXCEPT ![t] = <<>>] /\ held' = held /\ held[t] = {}
    BY <1>1, <1>4 DEF G!Starts, TrackLocks, TraceInv, HeldInv
  <2>2. <<>> \in Seq(Entry) /\ Once(<<>>) /\ Addrs(<<>>) = {}
    BY DEF Once, Addrs, ToSet
  <2>3. held' = [held EXCEPT ![t] = Addrs(<<>>)]
    BY <1>1, <2>1, <2>2 DEF TraceInv, G!GrammarTypeOK
  <2> QED
    BY <1>3, <2>1, <2>2, <2>3
<1>5. CASE G!Gets(r)
  <2> DEFINE e == [addr |-> r.addr, ipc |-> r.ipc, ts |-> r.ts]
  <2>1. e \in Entry /\ e.addr \notin Addrs(locks[t])
    BY <1>1, <1>2, <1>5 DEF Entry, G!Gets
  <2>2. locks' = [locks EXCEPT ![t] = Append(locks[t], e)]
    BY <1>5 DEF G!Gets, TrackLocks, Opened
  <2>3. held' = [held EXCEPT ![t] = Addrs(Append(locks[t], e))]
    BY <1>1, <1>2, <1>5, <2>1, OpenedList DEF G!Gets, TraceInv, G!GrammarTypeOK
  <2> QED
    BY <1>2, <1>3, <2>1, <2>2, <2>3, OpenedList
<1>6. CASE G!Unlocks(r)
  <2>1. r.addr \in Addrs(locks[t])
    BY <1>1, <1>2, <1>6 DEF G!Unlocks
  <2>2. /\ Closed(r) \in Seq(Entry)
        /\ Addrs(Closed(r)) = Addrs(locks[t]) \ {r.addr}
        /\ Once(Closed(r))
    BY <1>2, <2>1, ClosedList DEF Closed, Positions
  <2>3. locks' = [locks EXCEPT ![t] = Closed(r)]
    BY <1>6 DEF G!Unlocks, TrackLocks
  <2>4. held' = [held EXCEPT ![t] = Addrs(Closed(r))]
    BY <1>1, <1>2, <1>6, <2>2 DEF G!Unlocks, TraceInv, G!GrammarTypeOK
  <2> QED
    BY <1>3, <2>2, <2>3, <2>4
<1>7. CASE G!Ends(r) \/ G!Requests(r) \/ G!Touches(r) \/ G!Manages(r)
  <2>1. locks' = locks /\ held' = held
    BY <1>7 DEF G!Ends, G!Requests, G!Touches, G!Manages, G!AccessOps, G!HeapOps,
       G!grammarVars, TrackLocks
  <2> QED
    BY <2>1 DEF ViewInv
<1> QED
  BY <1>4, <1>5, <1>6, <1>7 DEF G!Follows

\* A stray unlock row changes neither list nor trace.
LEMMA StrayUnmatched ==
  ASSUME TraceInv, ViewInv, NEW r \in Rows, Strays(r)
  PROVE  Unmatched(r)
<1> SUFFICES Positions(r.thread, r.addr) = {}
  BY DEF Strays, Unmatched
<1>1. r.thread \in Threads /\ r.addr \notin held[r.thread]
  BY AnalysisAssumption DEF RowType, Strays
<1>2. locks[r.thread] \in Seq(Entry) /\ r.addr \notin Addrs(locks[r.thread])
  BY <1>1 DEF ViewInv
<1> QED
  BY <1>2, AddrsElements DEF Positions

LEMMA NextView == TraceInv /\ ViewInv /\ [Next]_vars => ViewInv'
<1> SUFFICES ASSUME TraceInv, ViewInv, [Next]_vars PROVE ViewInv'
  OBVIOUS
<1>1. ASSUME NEW r \in Rows, Read(r), G!Follows(r) PROVE ViewInv'
  <2>1. TrackLocks(r)
    BY <1>1, AlwaysMatched DEF Read, Abort
  <2> QED
    BY <1>1, <2>1, ReadView
<1>2. ASSUME NEW r \in Rows, Read(r), Strays(r) PROVE ViewInv'
  BY <1>2, StrayUnmatched DEF Read, Abort, Strays, traceVars, ViewInv
<1>3. CASE StopReading \/ UNCHANGED vars
  BY <1>3 DEF StopReading, Stop, vars, analyzerVars, traceVars, ViewInv
<1> QED
  BY <1>1, <1>2, <1>3 DEF Next, ReadRow

LEMMA AlwaysViewed == Spec => [](TraceInv /\ ViewInv)
  BY InitTrace, NextTrace, InitView, NextView, PTL DEF Spec

\* The analyzer knows at every row which mutexes each thread holds, in any
\* order of unlocks and at any depth of nesting.
THEOREM LocksViewed == Spec => []LockView
<1>1. ViewInv => LockView
  BY DEF ViewInv, LockView, Addrs, Once
<1> QED
  BY AlwaysViewed, <1>1, PTL

\* Only a mutex taken without a row ends the analysis before the trace does.
THEOREM WellFormedIsRead == Spec => []NeverAborts
<1>1. Init => NeverAborts
  BY DEF Init, AnalyzerInit, NeverAborts
<1>2. TraceInv /\ ViewInv /\ NeverAborts /\ [Next]_vars => NeverAborts'
  <2> SUFFICES ASSUME TraceInv, ViewInv, NeverAborts, [Next]_vars, state' = "aborted"
               PROVE  Untraced
    BY DEF NeverAborts
  <2>1. ASSUME NEW r \in Rows, Read(r), G!Follows(r) PROVE Untraced
    BY <2>1, AlwaysMatched DEF Read, Abort, EndWindow, BeforeWindow, InWindow, NeverAborts
  <2>2. ASSUME NEW r \in Rows, Strays(r) PROVE Untraced
    BY <2>2 DEF Strays
  <2>3. CASE StopReading \/ UNCHANGED vars
    BY <2>3 DEF StopReading, Stop, vars, analyzerVars, NeverAborts
  <2> QED
    BY <2>1, <2>2, <2>3 DEF Next, ReadRow
<1> QED
  BY <1>1, <1>2, AlwaysViewed, PTL DEF Spec

\* ... and it always does.
THEOREM StraysAreCaught == Spec => StrayUnlockCaught
<1>1. TraceInv /\ ViewInv =>
        \A r \in Rows : Strays(r) /\ ReadRow(r) => state' = "aborted"
  BY StrayUnmatched DEF ReadRow, Read, Abort
<1> QED
  BY <1>1, AlwaysViewed, PTL DEF StrayUnlockCaught

-----------------------------------------------------------------------------
(* The accesses and idioms noted. *)

\* What one iteration of the loop does with the noted accesses and idioms.
Effect(r) ==
    /\ \/ access' = access
       \/ access' = [access EXCEPT ![r.addr] = Current(r)]
    /\ \/ UNCHANGED threadpairs
       \/ /\ access[r.addr] # None
          /\ IsIdiom(access[r.addr], r)
          /\ access' = [access EXCEPT ![r.addr] = Current(r)]
          /\ threadpairs' = [threadpairs EXCEPT
                ![Pair(access[r.addr].thread, r.thread)] = <<access[r.addr], Current(r)>>]
    /\ \/ found' = {}
       \/ /\ access[r.addr] # None
          /\ IsIdiom(access[r.addr], r)
          /\ threadpairs[Pair(access[r.addr].thread, r.thread)] # None
          /\ found' = Reports(threadpairs[Pair(access[r.addr].thread, r.thread)],
                              <<access[r.addr], Current(r)>>)

LEMMA ReadEffect ==
  ASSUME NEW r \in Rows, Read(r)
  PROVE  Effect(r)
  BY DEF Read, Abort, EndWindow, BeforeWindow, InWindow, Plain, FirstIdiom, Examine,
     Note, Effect

LEMMA CurrentTyped ==
  ASSUME ViewInv', NEW r \in Rows
  PROVE  /\ Current(r) \in Access
         /\ Current(r).op = r.op /\ Current(r).thread = r.thread
         /\ Current(r).addr = r.addr /\ Current(r).ipc = r.ipc
<1>1. r \in RowType /\ r.thread \in Threads
  BY AnalysisAssumption DEF RowType
<1>2. locks'[r.thread] \in Seq(Entry)
  BY <1>1 DEF ViewInv
<1>3. locks'[r.thread] # <<>> => Last(locks'[r.thread]) \in Entry
  BY <1>2 DEF Last
<1> QED
  BY <1>1, <1>3 DEF Current, Access, RowType

NoteInv ==
    /\ access \in [Addresses -> Access \cup {None}]
    /\ \A a \in Addresses : access[a] # None => access[a].addr = a
    /\ threadpairs \in [Threads \X Threads -> (Access \X Access) \cup {None}]
    /\ \A t, u \in Threads : threadpairs[<<t, u>>] # None =>
          /\ threadpairs[<<u, t>>] = None
          /\ \/ threadpairs[<<t, u>>][1].thread = t /\ threadpairs[<<t, u>>][2].thread = u
             \/ threadpairs[<<t, u>>][1].thread = u /\ threadpairs[<<t, u>>][2].thread = t

LEMMA InitNote == Init => NoteInv
  BY DEF Init, AnalyzerInit, NoteInv

LEMMA PairTyped ==
  ASSUME NEW t \in Threads, NEW u \in Threads
  PROVE  /\ Pair(t, u) \in {<<t, u>>, <<u, t>>}
         /\ threadpairs[Pair(t, u)] = None
            => threadpairs[<<t, u>>] = None /\ threadpairs[<<u, t>>] = None
  BY DEF Pair

LEMMA EffectNote ==
  ASSUME ViewInv', NoteInv, NEW r \in Rows, Effect(r)
  PROVE  NoteInv'
<1> DEFINE c == Current(r)
           p == access[r.addr]
           k == Pair(p.thread, r.thread)
<1>1. /\ c \in Access /\ c.thread = r.thread /\ c.addr = r.addr
      /\ r.thread \in Threads /\ r.addr \in Addresses
  BY CurrentTyped, AnalysisAssumption DEF RowType
<1>2. /\ access' \in [Addresses -> Access \cup {None}]
      /\ \A a \in Addresses : access'[a] # None => access'[a].addr = a
  BY <1>1 DEF Effect, NoteInv
<1>3. CASE threadpairs' = threadpairs
  BY <1>2, <1>3 DEF NoteInv
<1>4. CASE p # None /\ IsIdiom(p, r) /\ threadpairs' = [threadpairs EXCEPT ![k] = <<p, c>>]
  <2>1. p \in Access /\ p.thread \in Threads /\ p.thread # r.thread
    BY <1>1, <1>4 DEF NoteInv, Access, IsIdiom
  <2>2. k \in {<<p.thread, r.thread>>, <<r.thread, p.thread>>}
    BY <1>1, <2>1, PairTyped
  <2>3. threadpairs' \in [Threads \X Threads -> (Access \X Access) \cup {None}]
    BY <1>1, <1>4, <2>1, <2>2 DEF NoteInv
  <2>4. \A q \in Threads \X Threads :
           threadpairs'[q] = IF q = k THEN <<p, c>> ELSE threadpairs[q]
    BY <1>4 DEF NoteInv
  <2>5. /\ k = <<p.thread, r.thread>> => threadpairs[<<r.thread, p.thread>>] = None
        /\ k = <<r.thread, p.thread>> => threadpairs[<<p.thread, r.thread>>] = None
    BY <1>1, <2>1 DEF Pair, NoteInv
  <2>6. ASSUME NEW t \in Threads, NEW u \in Threads, threadpairs'[<<t, u>>] # None
        PROVE  /\ threadpairs'[<<u, t>>] = None
               /\ \/ /\ threadpairs'[<<t, u>>][1].thread = t
                     /\ threadpairs'[<<t, u>>][2].thread = u
                  \/ /\ threadpairs'[<<t, u>>][1].thread = u
                     /\ threadpairs'[<<t, u>>][2].thread = t
    <3>1. CASE <<t, u>> = k
      <4>1. <<u, t>> # k
        BY <2>1, <2>2, <3>1
      <4>2. threadpairs'[<<u, t>>] = None
        BY <2>2, <2>4, <2>5, <3>1, <4>1
      <4>3. threadpairs'[<<t, u>>] = <<p, c>>
        BY <2>4, <3>1
      <4> QED
        BY <1>1, <2>2, <3>1, <4>2, <4>3
    <3>2. CASE <<t, u>> # k
      <4>1. threadpairs'[<<t, u>>] = threadpairs[<<t, u>>]
        BY <2>4, <3>2
      <4>2. <<u, t>> # k
        BY <2>2, <2>5, <2>6, <3>2, <4>1
      <4>3. threadpairs'[<<u, t>>] = threadpairs[<<u, t>>]
        BY <2>4, <4>2
      <4> QED
        BY <2>6, <4>1, <4>3 DEF NoteInv
    <3> QED
      BY <3>1, <3>2
  <2> QED
    BY <1>2, <2>3, <2>6 DEF NoteInv
<1> QED
  BY <1>3, <1>4 DEF Effect

LEMMA NextNote == ViewInv' /\ NoteInv /\ [Next]_vars => NoteInv'
<1> SUFFICES ASSUME ViewInv', NoteInv, [Next]_vars PROVE NoteInv'
  OBVIOUS
<1>1. ASSUME NEW r \in Rows, ReadRow(r) PROVE NoteInv'
  BY <1>1, ReadEffect, EffectNote DEF ReadRow
<1>2. CASE StopReading \/ UNCHANGED vars
  BY <1>2 DEF StopReading, Stop, vars, analyzerVars, NoteInv
<1> QED
  BY <1>1, <1>2 DEF Next

AnalyzerInv == TraceInv /\ ViewInv /\ NoteInv

LEMMA AlwaysAnalyzerInv == Spec => []AnalyzerInv
  BY InitTrace, NextTrace, InitView, NextView, InitNote, NextNote, PTL DEF Spec, AnalyzerInv

\* Two threads never have two histories, and a history is theirs.
THEOREM OneHistory == Spec => []PairCanonical
<1>1. NoteInv => PairCanonical
  BY DEF NoteInv, PairCanonical
<1> QED
  BY AlwaysAnalyzerInv, <1>1, PTL DEF AnalyzerInv

-----------------------------------------------------------------------------
(* The issues confirmed. *)

\* What the type of an issue says of the two idioms it was raised on.
LEMMA ReportedIssue ==
  ASSUME NEW h, NEW l, NEW i \in Reports(h, l)
  PROVE  /\ i.history = h /\ i.last = l
         /\ i.type \in {0, 1, 2, 4} /\ i = Issue(i.type, h, l)
         /\ i.type = 0 => Unprotected(l)
         /\ i.type = 1 => Reversible(h, l)
         /\ i.type \in {2, 4} => Crossed(h, l)
         /\ i.type = 2 => h[1].addr = l[2].addr
<1>1. i \in PairIssue(h, l) \cup CrossIssue(h, l)
  BY DEF Reports
<1>2. CASE i \in PairIssue(h, l)
  BY <1>2 DEF PairIssue, Issue
<1>3. CASE i \in CrossIssue(h, l)
  BY <1>3 DEF CrossIssue, Issue
<1> QED
  BY <1>1, <1>2, <1>3

FoundInv ==
    /\ \A i \in found : /\ i.type \in {0, 1, 2, 4}
                        /\ i.history \in Access \X Access
                        /\ i.last \in Access \X Access
    /\ inWindow \in BOOLEAN
    /\ state \in {"reading", "finished", "aborted"}

LEMMA NextFound == ViewInv' /\ NoteInv /\ FoundInv /\ [Next]_vars => FoundInv'
<1> SUFFICES ASSUME ViewInv', NoteInv, FoundInv, [Next]_vars PROVE FoundInv'
  OBVIOUS
<1>1. ASSUME NEW r \in Rows, Read(r) PROVE FoundInv'
  <2> DEFINE p == access[r.addr]
             h == threadpairs[Pair(p.thread, r.thread)]
  <2>1. /\ inWindow' \in BOOLEAN
        /\ state' \in {"reading", "finished", "aborted"}
    BY <1>1 DEF FoundInv, Read, Abort, EndWindow, BeforeWindow, InWindow
  <2>2. ASSUME NEW i \in found'
        PROVE  /\ i.type \in {0, 1, 2, 4}
               /\ i.history \in Access \X Access /\ i.last \in Access \X Access
    <3>1. p # None /\ h # None /\ i \in Reports(h, <<p, Current(r)>>)
      BY <1>1, <2>2, ReadEffect DEF Effect
    <3>2. r.addr \in Addresses /\ r.thread \in Threads /\ Current(r) \in Access
      BY CurrentTyped, AnalysisAssumption DEF RowType
    <3>3. p \in Access /\ p.thread \in Threads
      BY <3>1, <3>2 DEF NoteInv, Access
    <3>4. h \in Access \X Access
      <4>1. Pair(p.thread, r.thread) \in {<<p.thread, r.thread>>, <<r.thread, p.thread>>}
        BY DEF Pair
      <4>2. Pair(p.thread, r.thread) \in Threads \X Threads
        BY <3>2, <3>3, <4>1
      <4> QED
        BY <3>1, <4>2 DEF NoteInv
    <3>5. i.history = h /\ i.last = <<p, Current(r)>> /\ i.type \in {0, 1, 2, 4}
      BY <3>1, ReportedIssue
    <3> QED
      BY <3>2, <3>3, <3>4, <3>5
  <2> QED
    BY <2>1, <2>2 DEF FoundInv
<1>2. CASE StopReading \/ UNCHANGED vars
  BY <1>2 DEF StopReading, Stop, vars, analyzerVars, FoundInv
<1> QED
  BY <1>1, <1>2 DEF Next, ReadRow

\* The analyzer keeps whole accesses and no others: what it notes, remembers of
\* two threads and reports has all its columns, the mutex included.
THEOREM AnalysisTyped == Spec => []TypeOK
<1>1. Init => FoundInv
  BY DEF Init, AnalyzerInit, FoundInv
<1>2. AnalyzerInv /\ FoundInv => TypeOK
  BY DEF AnalyzerInv, ViewInv, NoteInv, FoundInv, TypeOK
<1> QED
  BY <1>1, <1>2, NextFound, AlwaysAnalyzerInv, PTL DEF Spec, AnalyzerInv

\* The two idioms of a history are by the two threads it is kept for.
LEMMA HistoryThreads ==
  ASSUME NoteInv, NEW t \in Threads, NEW u \in Threads, NEW h, h = threadpairs[Pair(t, u)],
         h # None
  PROVE  \/ h[1].thread = t /\ h[2].thread = u
         \/ h[1].thread = u /\ h[2].thread = t
<1> DEFINE Of(f, a, b) == \/ f[1].thread = a /\ f[2].thread = b
                          \/ f[1].thread = b /\ f[2].thread = a
<1>1. \A a, b \in Threads : threadpairs[<<a, b>>] # None => Of(threadpairs[<<a, b>>], a, b)
  BY DEF NoteInv
<1>2. h = threadpairs[<<t, u>>] \/ h = threadpairs[<<u, t>>]
  BY PairTyped
<1>3. CASE h = threadpairs[<<t, u>>]
  <2> HIDE DEF Of
  <2>1. Of(h, t, u)
    BY <1>1, <1>3
  <2> QED
    BY <2>1 DEF Of
<1>4. CASE h = threadpairs[<<u, t>>]
  <2> HIDE DEF Of
  <2>1. Of(h, u, t)
    BY <1>1, <1>4
  <2> QED
    BY <2>1 DEF Of
<1> QED
  BY <1>2, <1>3, <1>4

LEMMA EffectReversal ==
  ASSUME ViewInv', NoteInv, NEW r \in Rows, Effect(r)
  PROVE  TwoThreadReversal'
<1> DEFINE p == access[r.addr]
           c == Current(r)
           h == threadpairs[Pair(p.thread, r.thread)]
           l == <<p, c>>
<1> SUFFICES ASSUME NEW i \in found', i.type # 0
             PROVE  /\ i.history[1].thread # i.history[2].thread
                    /\ i.last[1].thread = i.history[2].thread
                    /\ i.last[2].thread = i.history[1].thread
  BY DEF TwoThreadReversal
<1>1. p # None /\ IsIdiom(p, r) /\ h # None /\ i \in Reports(h, l)
  BY DEF Effect
<1>2. c.thread = r.thread /\ r.thread \in Threads /\ r.addr \in Addresses
  BY CurrentTyped, AnalysisAssumption DEF RowType
<1>3. p.thread \in Threads /\ p.thread # r.thread
  BY <1>1, <1>2 DEF NoteInv, Access, IsIdiom
<1>4. \/ h[1].thread = p.thread /\ h[2].thread = r.thread
      \/ h[1].thread = r.thread /\ h[2].thread = p.thread
  BY <1>1, <1>2, <1>3, HistoryThreads
<1>5. i.history = h /\ i.last = l /\ h[2].thread = l[1].thread
  BY <1>1, ReportedIssue DEF Reversible, Crossed
<1> HIDE DEF h, c
<1>6. l[1].thread = p.thread /\ l[2].thread = r.thread
  BY <1>2
<1> QED
  BY <1>3, <1>4, <1>5, <1>6

\* An issue that speaks of a reversal is on two threads that swapped roles.
THEOREM ReversalsAreOfTwoThreads == Spec => []TwoThreadReversal
<1>1. Init => TwoThreadReversal
  BY DEF Init, AnalyzerInit, TwoThreadReversal
<1>2. ViewInv' /\ NoteInv /\ TwoThreadReversal /\ [Next]_vars => TwoThreadReversal'
  <2> SUFFICES ASSUME ViewInv', NoteInv, TwoThreadReversal, [Next]_vars
               PROVE  TwoThreadReversal'
    OBVIOUS
  <2>1. ASSUME NEW r \in Rows, ReadRow(r) PROVE TwoThreadReversal'
    BY <2>1, ReadEffect, EffectReversal DEF ReadRow
  <2>2. CASE StopReading \/ UNCHANGED vars
    BY <2>2 DEF StopReading, Stop, vars, analyzerVars, TwoThreadReversal
  <2> QED
    BY <2>1, <2>2 DEF Next
<1> QED
  BY <1>1, <1>2, AlwaysAnalyzerInv, PTL DEF Spec, AnalyzerInv

-----------------------------------------------------------------------------
(* Guarded variables. *)

\* Without nesting, an access to a guarded variable is noted with its guard.
LEMMA CurrentGuarded ==
  ASSUME ~Nesting, TraceInv, ViewInv, ViewInv', NEW r \in Rows, G!Follows(r),
         TrackLocks(r), r.op \in AccessOps
  PROVE  r.addr \in Vars /\ \A m \in Guard[r.addr] : Current(r).lock.addr = m
<1> DEFINE t == r.thread
<1>1. G!Touches(r) /\ t \in Threads
  BY AnalysisAssumption DEF G!Follows, G!Starts, G!Ends, G!Requests, G!Gets, G!Unlocks,
     G!Touches, G!Manages, G!HeapOps, AccessOps, RowType
<1>2. /\ r.addr \in Vars /\ Guard[r.addr] \subseteq held[t]
      /\ held' = held /\ locks' = locks
  BY <1>1 DEF G!Touches, G!AccessOps, G!grammarVars, TrackLocks
<1> SUFFICES ASSUME NEW m \in Guard[r.addr] PROVE Current(r).lock.addr = m
  BY <1>2
<1>3. locks[t] \in Seq(Entry) /\ Addrs(locks[t]) = held[t] /\ m \in held[t]
  BY <1>1, <1>2 DEF ViewInv
<1>4. PICK k \in 1 .. Len(locks[t]) : locks[t][k].addr = m
  BY <1>3, AddrsElements
<1>5. locks[t] # <<>> /\ Len(locks[t]) \in 1 .. Len(locks[t])
  BY <1>3, <1>4
<1>6. locks[t][Len(locks[t])].addr \in held[t]
  BY <1>3, <1>5, AddrsElements
<1>7. locks[t][Len(locks[t])].addr = m
  BY <1>1, <1>3, <1>6 DEF TraceInv, HeldInv
<1> QED
  BY <1>2, <1>5, <1>7 DEF Current, Last

GuardedInv == NotedUnderGuard /\ NoFalseMissingLock

LEMMA EffectGuarded ==
  ASSUME ~Nesting, TraceInv, ViewInv, ViewInv', NoteInv, GuardedInv, NEW r \in Rows,
         G!Follows(r), TrackLocks(r), Effect(r)
  PROVE  GuardedInv'
<1> DEFINE p == access[r.addr]
           c == Current(r)
           h == threadpairs[Pair(p.thread, r.thread)]
           l == <<p, c>>
<1>1. c.op = r.op /\ c.addr = r.addr /\ r.addr \in Addresses
  BY CurrentTyped, AnalysisAssumption DEF RowType
<1>2. NotedUnderGuard'
  <2> SUFFICES ASSUME NEW a \in Vars, NEW m \in Guard[a], access'[a] # None,
                      access'[a].op \in AccessOps
               PROVE  access'[a].lock.addr = m
    BY DEF NotedUnderGuard
  <2>1. a \in Addresses
    BY AnalysisAssumption
  <2>2. CASE access'[a] = access[a]
    BY <2>2 DEF GuardedInv, NotedUnderGuard
  <2>3. CASE a = r.addr /\ access'[a] = c
    BY <1>1, <2>3, CurrentGuarded
  <2> QED
    BY <2>1, <2>2, <2>3 DEF Effect, NoteInv
<1>3. NoFalseMissingLock'
  <2> SUFFICES ASSUME NEW i \in found', i.type = 0
               PROVE  Guard[i.last[2].addr] = {}
    BY DEF NoFalseMissingLock
  <2>1. p # None /\ IsIdiom(p, r) /\ i \in Reports(h, l)
    BY DEF Effect
  <2>2. i.last = l /\ Unprotected(l)
    BY <2>1, ReportedIssue
  <2>3. r.op \in AccessOps /\ p.op \in AccessOps
    BY <2>1 DEF IsIdiom, AccessOps
  <2>4. r.addr \in Vars
    BY <2>3, CurrentGuarded
  <2>5. i.last[2].addr = r.addr
    BY <1>1, <2>2
  <2>6. ASSUME NEW m \in Guard[r.addr] PROVE FALSE
    <3>1. m # None
      BY <2>4, <2>6, AnalysisAssumption
    <3>2. c.lock.addr = m
      BY <2>3, <2>6, CurrentGuarded
    <3>3. p.lock.addr = m
      BY <2>1, <2>3, <2>4, <2>6 DEF GuardedInv, NotedUnderGuard
    <3> HIDE DEF c
    <3> QED
      BY <2>2, <3>1, <3>2, <3>3 DEF Unprotected, NoLock
  <2> QED
    BY <2>5, <2>6
<1> QED
  BY <1>2, <1>3 DEF GuardedInv

LEMMA AlwaysGuarded == ASSUME ~Nesting PROVE Spec => []GuardedInv
<1>1. Init => GuardedInv
  BY AnalysisAssumption DEF Init, AnalyzerInit, GuardedInv, NotedUnderGuard, NoFalseMissingLock
<1>2. AnalyzerInv /\ ViewInv' /\ GuardedInv /\ [Next]_vars => GuardedInv'
  <2> SUFFICES ASSUME AnalyzerInv, ViewInv', GuardedInv, [Next]_vars PROVE GuardedInv'
    OBVIOUS
  <2>1. ASSUME NEW r \in Rows, Read(r), G!Follows(r) PROVE GuardedInv'
    <3>1. TrackLocks(r) /\ Effect(r)
      BY <2>1, AlwaysMatched, ReadEffect DEF AnalyzerInv, Read, Abort
    <3> QED
      BY <2>1, <3>1, EffectGuarded DEF AnalyzerInv
  <2>3. ASSUME NEW r \in Rows, Read(r), Strays(r) PROVE GuardedInv'
    BY <2>3, StrayUnmatched DEF AnalyzerInv, Read, Abort, GuardedInv, NotedUnderGuard,
       NoFalseMissingLock
  <2>2. CASE StopReading \/ UNCHANGED vars
    BY <2>2 DEF StopReading, Stop, vars, analyzerVars, GuardedInv, NotedUnderGuard,
       NoFalseMissingLock
  <2> QED
    BY <2>1, <2>2, <2>3 DEF Next, ReadRow
<1> QED
  BY <1>1, <1>2, AlwaysAnalyzerInv, PTL DEF Spec, AnalyzerInv

\* Whatever rows the analyzer has skipped, an access it remembers to a guarded
\* variable carries the guard as the innermost mutex.
THEOREM NotedWithGuard == ASSUME ~Nesting PROVE Spec => []NotedUnderGuard
<1>1. GuardedInv => NotedUnderGuard
  BY DEF GuardedInv
<1> QED
  BY AlwaysGuarded, <1>1, PTL

\* In a program that never nests its critical sections, no variable is
\* reported as missing a lock while it has one.
THEOREM GuardedIsNotReported ==
  ASSUME ~Nesting PROVE Spec => []NoFalseMissingLock
<1>1. GuardedInv => NoFalseMissingLock
  BY DEF GuardedInv
<1> QED
  BY AlwaysGuarded, <1>1, PTL

-----------------------------------------------------------------------------
(* Missing locks. *)

\* The program has a row in which t gets a mutex.
Locks(t) == \E r \in Rows : r.op = "pthread_mutex_lock@get" /\ r.thread = t

LoneLocker == \A t, u \in Threads : Locks(t) /\ Locks(u) => t = u

\* What was read last on an address is what is noted of it; mutexes are held by
\* the threads that get some.
RecentInv ==
    /\ recent = access
    /\ \A t \in Threads : held[t] # {} => Locks(t)
    /\ \A a \in Addresses :
           access[a] # None /\ access[a].lock # NoLock => Locks(access[a].thread)

LEMMA NextHeld ==
  ASSUME TraceInv, RecentInv, [Next]_vars
  PROVE  \A t \in Threads : held'[t] # {} => Locks(t)
<1> USE AnalysisAssumption DEF TraceInv, G!GrammarTypeOK, RowType
<1>1. ASSUME NEW r \in Rows, G!Follows(r)
      PROVE  \A t \in Threads : held'[t] # {} => Locks(t)
  <2>1. CASE G!Gets(r)
    <3>1. Locks(r.thread) /\ \A t \in Threads : t # r.thread => held'[t] = held[t]
      BY <2>1 DEF G!Gets, Locks
    <3> QED
      BY <3>1 DEF RecentInv
  <2>2. CASE ~G!Gets(r)
    <3>1. \A t \in Threads : held'[t] \subseteq held[t]
      BY <1>1, <2>2 DEF G!Follows, G!Starts, G!Ends, G!Requests, G!Unlocks, G!Touches,
         G!Manages, G!grammarVars
    <3> QED
      BY <3>1 DEF RecentInv
  <2> QED
    BY <2>1, <2>2
<1>2. CASE UNCHANGED traceVars
  BY <1>2 DEF traceVars, RecentInv
<1> QED
  BY <1>1, <1>2 DEF Next, ReadRow, Strays, StopReading, vars

LEMMA CurrentLock ==
  ASSUME ViewInv', \A t \in Threads : held'[t] # {} => Locks(t), NEW r \in Rows
  PROVE  Current(r).lock # NoLock => Locks(r.thread)
<1>1. r.thread \in Threads
  BY AnalysisAssumption DEF RowType
<1>2. ASSUME locks'[r.thread] # <<>> PROVE held'[r.thread] # {}
  <2> PICK s : s = locks'[r.thread]
    OBVIOUS
  <2>1. s \in Seq(Entry) /\ s # <<>> /\ Addrs(s) = held'[r.thread]
    BY <1>1, <1>2 DEF ViewInv
  <2>2. s[1].addr \in Addrs(s)
    <3>1. s \in Seq(Entry) /\ 1 \in 1 .. Len(s)
      BY <2>1
    <3> QED
      BY ONLY <3>1, AddrsElements
  <2> QED
    BY <2>1, <2>2
<1> QED
  BY <1>1, <1>2 DEF Current

\* No iteration is left early when two threads never both hold mutexes.
LEMMA NothingSkipped ==
  ASSUME KnownIssues = {}, LoneLocker, NEW h, NEW p, NEW c, NEW l, l = <<p, c>>,
         p.thread \in Threads, c.thread \in Threads, p.thread # c.thread,
         p.lock # NoLock => Locks(p.thread), c.lock # NoLock => Locks(c.thread)
  PROVE  ~Skips(h, l) /\ PairIssue(h, l) \subseteq Reports(h, l)
<1>1. \A S : ~Known(S)
  BY DEF Known
<1>2. ~SameLocking(h, l)
  <2>1. l[1] = p /\ l[2] = c
    OBVIOUS
  <2>2. SameLocking(h, l) => p.lock # NoLock /\ c.lock # NoLock
    <3>1. 1 \in 1 .. 2 /\ 2 \in 1 .. 2
      OBVIOUS
    <3> QED
      BY <2>1, <3>1, Zenon DEF SameLocking
  <2> QED
    BY <2>2 DEF LoneLocker
<1>3. ~CrossSkips(h, l)
  BY <1>1, <1>2 DEF CrossSkips
<1> QED
  BY <1>1, <1>3 DEF Skips, Reports

LEMMA ReadRecent ==
  ASSUME KnownIssues = {}, LoneLocker, AnalyzerInv, ViewInv', RecentInv,
         \A t \in Threads : held'[t] # {} => Locks(t), NEW r \in Rows, ReadRow(r)
  PROVE  RecentInv'
<1> PICK c : c = Current(r)
  OBVIOUS
<1>1. /\ c \in Access /\ c.thread = r.thread /\ r.thread \in Threads /\ r.addr \in Addresses
      /\ c.lock # NoLock => Locks(c.thread)
  BY CurrentTyped, CurrentLock, AnalysisAssumption DEF RowType
<1>2. access \in [Addresses -> Access \cup {None}] /\ recent = access
  BY DEF AnalyzerInv, NoteInv, RecentInv
<1>3. recent' = access'
  <2>1. CASE Abort(r)
    BY <1>2, <2>1 DEF Abort, ReadRow
  <2>2. CASE EndWindow(r)
    BY <1>2, <2>2 DEF EndWindow, ReadRow
  <2>3. CASE BeforeWindow(r)
    BY <1>2, <2>3 DEF BeforeWindow, ReadRow
  <2>4. CASE InWindow(r) /\ state = "reading"
    <3>1. recent' = [recent EXCEPT ![r.addr] = c]
      BY <2>4 DEF InWindow, ReadRow
    <3>2. CASE Plain(r) \/ FirstIdiom(r)
      BY <1>2, <3>1, <3>2 DEF Plain, FirstIdiom, Note
    <3>3. CASE Examine(r)
      <4> PICK p : p = access[r.addr]
        OBVIOUS
      <4> PICK h : h = threadpairs[Pair(p.thread, r.thread)]
        OBVIOUS
      <4>1. p # None /\ p.thread # c.thread
        BY <1>1, <3>3 DEF Examine, IsIdiom
      <4>2. p.thread \in Threads /\ (p.lock # NoLock => Locks(p.thread))
        BY <1>1, <1>2, <4>1 DEF RecentInv, Access
      <4>3. ~Skips(h, <<p, c>>)
        BY <1>1, <4>1, <4>2, NothingSkipped
      <4>4. Note(r)
        BY <3>3, <4>3 DEF Examine
      <4> QED
        BY <1>2, <3>1, <4>4 DEF Note
    <3> QED
      BY <2>4, <3>2, <3>3 DEF InWindow
  <2> QED
    BY <2>1, <2>2, <2>3, <2>4 DEF ReadRow, Read
<1>4. access' = access \/ access' = [access EXCEPT ![r.addr] = c]
  BY ReadEffect DEF ReadRow, Effect
<1>5. \A a \in Addresses :
          access'[a] # None /\ access'[a].lock # NoLock => Locks(access'[a].thread)
  BY <1>1, <1>2, <1>4 DEF RecentInv
<1> QED
  BY <1>3, <1>5 DEF RecentInv

\* When at most one thread of the program gets mutexes, and no issue is known
\* beforehand, the analyzer misses no pair of accesses of which one holds none:
\* what makes it miss one is an iteration left for four accesses under mutexes.
THEOREM LoneLockerReported ==
  ASSUME KnownIssues = {}, LoneLocker PROVE Spec => MissingLockReported
<1>1. Init => RecentInv
  BY AnalysisAssumption DEF Init, AnalyzerInit, G!GrammarInit, RecentInv
<1>2. AnalyzerInv /\ ViewInv' /\ RecentInv /\ [Next]_vars => RecentInv'
  <2> SUFFICES ASSUME AnalyzerInv, ViewInv', RecentInv, [Next]_vars PROVE RecentInv'
    OBVIOUS
  <2>1. \A t \in Threads : held'[t] # {} => Locks(t)
    BY NextHeld DEF AnalyzerInv
  <2>2. ASSUME NEW r \in Rows, ReadRow(r) PROVE RecentInv'
    BY <2>1, <2>2, ReadRecent
  <2>3. CASE StopReading \/ UNCHANGED vars
    BY <2>1, <2>3 DEF StopReading, Stop, vars, analyzerVars, RecentInv
  <2> QED
    BY <2>2, <2>3 DEF Next
<1>3. AnalyzerInv /\ ViewInv' /\ RecentInv /\ [Next]_vars =>
        \A r \in Rows :
          LET p == recent[r.addr]
          IN /\ p # None
             /\ IsIdiom(p, r)
             /\ threadpairs[Pair(p.thread, r.thread)] # None
             /\ ReadRow(r) /\ inWindow' /\ state' = "reading"
             /\ Unprotected(<<p, Current(r)>>)
             => found' # {}
  <2> SUFFICES ASSUME AnalyzerInv, ViewInv', RecentInv, [Next]_vars, NEW r \in Rows,
                      NEW p, p = recent[r.addr], NEW c, c = Current(r),
                      p # None, IsIdiom(p, r), threadpairs[Pair(p.thread, r.thread)] # None,
                      ReadRow(r), inWindow', state' = "reading", Unprotected(<<p, c>>)
               PROVE  found' # {}
    OBVIOUS
  <2> PICK h : h = threadpairs[Pair(p.thread, r.thread)]
    OBVIOUS
  <2>1. p = access[r.addr] /\ r.addr \in Addresses /\ c.thread = r.thread /\ r.thread \in Threads
    BY CurrentTyped, AnalysisAssumption DEF RecentInv, RowType
  <2>2. c.lock # NoLock => Locks(c.thread)
    BY <2>1, CurrentLock, NextHeld DEF AnalyzerInv
  <2>3. p.thread \in Threads /\ p.thread # c.thread /\ (p.lock # NoLock => Locks(p.thread))
    BY <2>1 DEF AnalyzerInv, NoteInv, RecentInv, Access, IsIdiom
  <2>4. InWindow(r)
    BY DEF ReadRow, Read, Abort, EndWindow, BeforeWindow
  <2>5. Examine(r)
    BY <2>1, <2>4 DEF InWindow, Plain, FirstIdiom
  <2>6. found' = Reports(h, <<p, c>>)
    BY <2>1, <2>5 DEF Examine
  <2>7. PairIssue(h, <<p, c>>) # {}
    BY DEF PairIssue
  <2>8. PairIssue(h, <<p, c>>) \subseteq Reports(h, <<p, c>>)
    BY <2>1, <2>2, <2>3, NothingSkipped
  <2> QED
    BY <2>6, <2>7, <2>8
<1> QED
  BY <1>1, <1>2, <1>3, AlwaysAnalyzerInv, PTL DEF Spec, AnalyzerInv, MissingLockReported
=============================================================================
