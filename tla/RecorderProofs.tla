--------------------------- MODULE RecorderProofs ---------------------------
(***************************************************************************)
(* Theorems about Recorder, for every program, every number of threads and  *)
(* mutexes and every bound on their operations.                             *)
(***************************************************************************)
EXTENDS Recorder, TLAPS

\* The invariant of the callbacks, whatever the program uses of Pthreads.
Inv == TypeOK /\ CallbackInv

LEMMA InitInv == Init => Inv
  BY RecorderAssumption DEF Init, Inv, TypeOK, CallbackInv, Callbacks, Header,
     OnMutex, OnMemory, AccessCallbacks, HeapCallbacks

LEMMA NextInv == Inv /\ [Next]_vars => Inv'
<1> SUFFICES ASSUME Inv, [Next]_vars PROVE Inv'
  OBVIOUS
<1> USE RecorderAssumption
<1> USE DEF Inv, TypeOK, CallbackInv, Callbacks, AccessCallbacks, HeapCallbacks,
        ProgramPoints, OnMutex, OnMemory, Discarded, Goto, Owned, program, tool, history
<1>1. ASSUME NEW t \in Threads, CallLock(t) PROVE Inv'
  BY <1>1 DEF CallLock, Call, RowType, Header
<1>2. ASSUME NEW t \in Threads, CallAccess(t) PROVE Inv'
  BY <1>2 DEF CallAccess, Call, FirstCallback, RowType, Header
<1>3. ASSUME NEW t \in Threads, CallUnlock(t) PROVE Inv'
  BY <1>3 DEF CallUnlock, RowType, Header
<1>4. ASSUME NEW t \in Threads, Acquire(t) PROVE Inv'
  BY <1>4 DEF Acquire, RowType, Header
<1>5. ASSUME NEW t \in Threads, Release(t) PROVE Inv'
  BY <1>5 DEF Release, RowType, Header
<1>6. ASSUME NEW t \in Threads, Execute(t) PROVE Inv'
  BY <1>6 DEF Execute, RowType, Header
<1>7. ASSUME NEW t \in Threads, Exit(t) PROVE Inv'
  BY <1>7 DEF Exit, RowType, Header
<1>8. ASSUME NEW t \in Threads, TryLock(t) PROVE Inv'
  BY <1>8 DEF TryLock, RowType, Header
<1>9. ASSUME NEW t \in Threads, CondWait(t) PROVE Inv'
  BY <1>9 DEF CondWait, Call, RowType, Header
<1>10. ASSUME NEW t \in Threads, Wakeup(t) PROVE Inv'
  BY <1>10 DEF Wakeup, RowType, Header
<1>11. ASSUME NEW t \in Threads, LockFails(t) PROVE Inv'
  BY <1>11 DEF LockFails, RowType, Header
<1>12. ASSUME NEW t \in Threads, Enter(t) PROVE Inv'
  BY <1>12 DEF Enter, RowType, Header
<1>13. ASSUME NEW t \in Threads, ThreadStart(t) PROVE Inv'
  BY <1>13 DEF ThreadStart, WriteAndLeave, RowType, Header
<1>14. ASSUME NEW t \in Threads, ThreadFini(t) PROVE Inv'
  BY <1>14 DEF ThreadFini, WriteAndLeave, RowType, Header
<1>15. ASSUME NEW t \in Threads, LockBefore(t) PROVE Inv'
  BY <1>15 DEF LockBefore, WriteAndLeave, RowType, Header
<1>16. ASSUME NEW t \in Threads, LockAfter(t) PROVE Inv'
  BY <1>16 DEF LockAfter, WriteAndLeave, RowType, Header
<1>17. ASSUME NEW t \in Threads, UnlockBefore(t) PROVE Inv'
  BY <1>17 DEF UnlockBefore, WriteAndLeave, RowType, Header
<1>18. ASSUME NEW t \in Threads, RecordMemRead(t) PROVE Inv'
  BY <1>18 DEF RecordMemRead, WriteAndLeave, AfterRead, RowType, Header
<1>19. ASSUME NEW t \in Threads, RecordMemWrite(t) PROVE Inv'
  BY <1>19 DEF RecordMemWrite, WriteAndLeave, RowType, Header
<1>20. ASSUME NEW t \in Threads, Discard(t) PROVE Inv'
  BY <1>20 DEF Discard, AfterRead, RowType, Header
<1>21. ASSUME NEW t \in Threads, CallHeap(t) PROVE Inv'
  BY <1>21 DEF CallHeap, Call, RowType, Header
<1>22. ASSUME NEW t \in Threads, MallocAfter(t) PROVE Inv'
  BY <1>22 DEF MallocAfter, WriteAndLeave, RowType, Header
<1>23. ASSUME NEW t \in Threads, FreeBefore(t) PROVE Inv'
  BY <1>23 DEF FreeBefore, WriteAndLeave, RowType, Header
<1>24. ASSUME NEW t \in Threads, FreeUnknown(t) PROVE Inv'
  BY <1>24 DEF FreeUnknown, RowType, Header
<1>25. CASE UNCHANGED vars
  BY <1>25 DEF vars, RowType, Header
<1>26. QED
  BY <1>1, <1>2, <1>3, <1>4, <1>5, <1>6, <1>7, <1>8, <1>9, <1>10, <1>11,
     <1>12, <1>13, <1>14, <1>15, <1>16, <1>17, <1>18, <1>19, <1>20, <1>21, <1>22,
     <1>23, <1>24, <1>25 DEF Next, ProgramStep, ToolStep, Callback

THEOREM TypeCorrect == Spec => []TypeOK
<1>1. Inv => TypeOK
  BY DEF Inv
<1>2. QED
  BY InitInv, NextInv, <1>1, PTL DEF Spec

\* A thread in the PIN lock is in a callback with the operand of its kind, and
\* LockAfter finds the mutex its own thread has noted, whatever runs between.
THEOREM CallbacksAgree == Spec => []CallbackInv
<1>1. Inv => CallbackInv
  BY DEF Inv
<1>2. QED
  BY InitInv, NextInv, <1>1, PTL DEF Spec

\* Timestamps and rows come in one order, whatever the program does.
THEOREM StampsIncrease == Spec => StampOrder
<1>1. Inv /\ [Next]_vars => [out' # out => out'.ts > out.ts]_vars
  <2> SUFFICES ASSUME Inv, Next PROVE out' # out => out'.ts > out.ts
    BY DEF vars
  <2>1. ASSUME NEW t \in Threads, ProgramStep(t) PROVE out' = out
    BY <2>1 DEF ProgramStep, CallLock, CallAccess, CallHeap, CallUnlock, Acquire,
       Release, Execute, Exit, TryLock, CondWait, Wakeup, LockFails, tool
  <2>2. ASSUME NEW t \in Threads, Enter(t) \/ FreeUnknown(t) \/ Discard(t) PROVE out' = out
    BY <2>2 DEF Enter, FreeUnknown, Discard, tool
  <2>3. ASSUME NEW t \in Threads, Callback(t) PROVE out'.ts > out.ts
    <3>1. lock = t /\ out'.ts = timestamp
      BY <2>3 DEF Callback, ThreadStart, ThreadFini, LockBefore, LockAfter,
         UnlockBefore, RecordMemRead, RecordMemWrite, MallocAfter, FreeBefore, WriteAndLeave
    <3>2. out.ts \in Nat /\ timestamp \in Nat /\ out.ts < timestamp
      BY <3>1, RecorderAssumption DEF Inv, TypeOK, CallbackInv, RowType, Header
    <3> QED
      BY <3>1, <3>2
  <2> QED
    BY <2>1, <2>2, <2>3 DEF Next, ToolStep
<1>2. QED
  BY InitInv, NextInv, <1>1, PTL DEF Spec, StampOrder

-----------------------------------------------------------------------------
(* Guarded variables. *)

LEMMA InitGuard == Init => GuardInv
  BY RecorderAssumption DEF Init, GuardInv, OnMemory, AccessCallbacks, HeapCallbacks

LEMMA NextGuard == Inv /\ Inv' /\ GuardInv /\ [Next]_vars => GuardInv'
<1> SUFFICES ASSUME Inv, Inv', GuardInv, [Next]_vars PROVE GuardInv'
  OBVIOUS
<1> USE RecorderAssumption
<1> USE DEF Inv, TypeOK, CallbackInv, GuardInv, Callbacks, AccessCallbacks,
        HeapCallbacks, ProgramPoints, OnMutex, OnMemory, Goto, Owned, program, tool, history
<1>1. ASSUME NEW t \in Threads, CallLock(t) PROVE GuardInv'
  BY <1>1 DEF CallLock, Call
<1>2. ASSUME NEW t \in Threads, CallAccess(t) PROVE GuardInv'
  BY <1>2 DEF CallAccess, Call, FirstCallback
<1>3. ASSUME NEW t \in Threads, CallUnlock(t) PROVE GuardInv'
  BY <1>3 DEF CallUnlock
<1>4. ASSUME NEW t \in Threads, Acquire(t) PROVE GuardInv'
  BY <1>4 DEF Acquire
<1>5. ASSUME NEW t \in Threads, Release(t) PROVE GuardInv'
  BY <1>5 DEF Release
<1>6. ASSUME NEW t \in Threads, Execute(t) PROVE GuardInv'
  BY <1>6 DEF Execute
<1>7. ASSUME NEW t \in Threads, Exit(t) PROVE GuardInv'
  BY <1>7 DEF Exit
<1>8. ASSUME NEW t \in Threads, TryLock(t) PROVE GuardInv'
  BY <1>8 DEF TryLock
<1>9. ASSUME NEW t \in Threads, CondWait(t) PROVE GuardInv'
  BY <1>9 DEF CondWait, Call
<1>10. ASSUME NEW t \in Threads, Wakeup(t) PROVE GuardInv'
  BY <1>10 DEF Wakeup
<1>11. ASSUME NEW t \in Threads, LockFails(t) PROVE GuardInv'
  BY <1>11 DEF LockFails
<1>12. ASSUME NEW t \in Threads, Enter(t) PROVE GuardInv'
  BY <1>12 DEF Enter
<1>13. ASSUME NEW t \in Threads, ThreadStart(t) PROVE GuardInv'
  BY <1>13 DEF ThreadStart, WriteAndLeave
<1>14. ASSUME NEW t \in Threads, ThreadFini(t) PROVE GuardInv'
  BY <1>14 DEF ThreadFini, WriteAndLeave
<1>15. ASSUME NEW t \in Threads, LockBefore(t) PROVE GuardInv'
  BY <1>15 DEF LockBefore, WriteAndLeave
<1>16. ASSUME NEW t \in Threads, LockAfter(t) PROVE GuardInv'
  BY <1>16 DEF LockAfter, WriteAndLeave
<1>17. ASSUME NEW t \in Threads, UnlockBefore(t) PROVE GuardInv'
  BY <1>17 DEF UnlockBefore, WriteAndLeave
<1>18. ASSUME NEW t \in Threads, RecordMemRead(t) PROVE GuardInv'
  BY <1>18 DEF RecordMemRead, WriteAndLeave, AfterRead
<1>19. ASSUME NEW t \in Threads, RecordMemWrite(t) PROVE GuardInv'
  BY <1>19 DEF RecordMemWrite, WriteAndLeave
<1>20. ASSUME NEW t \in Threads, Discard(t) PROVE GuardInv'
  <2>1. PICK l \in {"RecordMemWrite", "executing"} : pc' = [pc EXCEPT ![t] = l]
    BY <1>20 DEF Discard, AfterRead
  <2>2. /\ pc[t] \in OnMemory /\ arg[t] \notin Recorded
        /\ UNCHANGED <<arg, owner, timestamp, stamp, executed>>
    BY <1>20 DEF Discard, Discarded
  <2> QED
    BY <2>1, <2>2
<1>21. ASSUME NEW t \in Threads, CallHeap(t) PROVE GuardInv'
  BY <1>21 DEF CallHeap, Call
<1>22. ASSUME NEW t \in Threads, MallocAfter(t) PROVE GuardInv'
  BY <1>22 DEF MallocAfter, WriteAndLeave
<1>23. ASSUME NEW t \in Threads, FreeBefore(t) PROVE GuardInv'
  BY <1>23 DEF FreeBefore, WriteAndLeave
<1>24. ASSUME NEW t \in Threads, FreeUnknown(t) PROVE GuardInv'
  BY <1>24 DEF FreeUnknown
<1>25. CASE UNCHANGED vars
  BY <1>25 DEF vars
<1>26. QED
  BY <1>1, <1>2, <1>3, <1>4, <1>5, <1>6, <1>7, <1>8, <1>9, <1>10, <1>11,
     <1>12, <1>13, <1>14, <1>15, <1>16, <1>17, <1>18, <1>19, <1>20, <1>21, <1>22,
     <1>23, <1>24, <1>25 DEF Next, ProgramStep, ToolStep, Callback

\* Accesses to a guarded variable happen in the order of their rows, also
\* when the program uses trylock and condition variables behind the
\* recorder's back: the order comes from the mutex, not from the trace.
THEOREM GuardedAccessesInOrder == Spec => GuardedOrder
<1>1. Inv /\ GuardInv /\ [Next]_vars
      => [\A a \in Vars : Guard[a] # {} => executed'[a] >= executed[a]]_vars
  <2> SUFFICES ASSUME Inv, GuardInv, Next, NEW a \in Vars, Guard[a] # {}
               PROVE executed'[a] >= executed[a]
    BY DEF vars
  <2>1. ASSUME NEW t \in Threads, Execute(t) PROVE executed'[a] >= executed[a]
    <3>1. executed \in [Vars -> Nat] /\ stamp \in [Threads -> Nat]
      BY DEF Inv, TypeOK
    <3>2. CASE arg[t] \in Recorded /\ arg[t].addr = a
      <4>1. executed[a] <= stamp[t]
        BY <2>1, <3>2 DEF Execute, GuardInv
      <4>2. executed' = [executed EXCEPT ![a] = stamp[t]]
        BY <2>1, <3>2 DEF Execute
      <4> QED
        BY <3>1, <4>1, <4>2
    <3>3. CASE ~(arg[t] \in Recorded /\ arg[t].addr = a)
      BY <2>1, <3>1, <3>3 DEF Execute
    <3> QED
      BY <3>2, <3>3
  <2>2. ASSUME NEW t \in Threads, ProgramStep(t), ~Execute(t) PROVE executed' = executed
    BY <2>2 DEF ProgramStep, CallLock, CallAccess, CallHeap, CallUnlock, Acquire,
       Release, Exit, TryLock, CondWait, Wakeup, LockFails, history
  <2>3. ASSUME NEW t \in Threads, ToolStep(t) PROVE executed' = executed
    BY <2>3 DEF ToolStep, Enter, FreeUnknown, Discard, Callback, ThreadStart, ThreadFini,
       LockBefore, LockAfter, UnlockBefore, RecordMemRead, RecordMemWrite,
       MallocAfter, FreeBefore, WriteAndLeave, history
  <2>4. executed[a] \in Nat
    BY DEF Inv, TypeOK
  <2> QED
    BY <2>1, <2>2, <2>3, <2>4 DEF Next
<1>2. QED
  BY InitInv, NextInv, InitGuard, NextGuard, <1>1, PTL DEF Spec, GuardedOrder

-----------------------------------------------------------------------------
(* Programs that lock with pthread_mutex_lock alone. *)

\* No mutex changes hands behind the recorder's back.
OnlyMutexLock == Features \subseteq {"nested"}

TraceInv == HeldMeansOwned /\ MutexInv

LEMMA InitTrace == Init => TraceInv
  BY RecorderAssumption DEF Init, TraceInv, HeldMeansOwned, MutexInv, Owned

LEMMA NextTrace ==
  ASSUME OnlyMutexLock
  PROVE  Inv /\ Inv' /\ GuardInv /\ TraceInv /\ [Next]_vars => TraceInv'
<1> SUFFICES ASSUME Inv, Inv', GuardInv, TraceInv, [Next]_vars PROVE TraceInv'
  OBVIOUS
<1> USE RecorderAssumption, OnlyMutexLock DEF OnlyMutexLock
<1> USE DEF Inv, TypeOK, CallbackInv, GuardInv, TraceInv, HeldMeansOwned, MutexInv,
        Callbacks, AccessCallbacks, HeapCallbacks, ProgramPoints, OnMutex, Goto,
        Owned, program, tool, history
<1>1. ASSUME NEW t \in Threads, CallLock(t) PROVE TraceInv'
  BY <1>1 DEF CallLock, Call
<1>2. ASSUME NEW t \in Threads, CallAccess(t) PROVE TraceInv'
  BY <1>2 DEF CallAccess, Call, FirstCallback
<1>3. ASSUME NEW t \in Threads, CallUnlock(t) PROVE TraceInv'
  BY <1>3 DEF CallUnlock
<1>4. ASSUME NEW t \in Threads, Acquire(t) PROVE TraceInv'
  BY <1>4 DEF Acquire
<1>5. ASSUME NEW t \in Threads, Release(t) PROVE TraceInv'
  BY <1>5 DEF Release
<1>6. ASSUME NEW t \in Threads, Execute(t) PROVE TraceInv'
  BY <1>6 DEF Execute
<1>7. ASSUME NEW t \in Threads, Exit(t) PROVE TraceInv'
  BY <1>7 DEF Exit
<1>8. ASSUME NEW t \in Threads, TryLock(t) PROVE TraceInv'
  BY <1>8 DEF TryLock
<1>9. ASSUME NEW t \in Threads, CondWait(t) PROVE TraceInv'
  BY <1>9 DEF CondWait, Call
<1>10. ASSUME NEW t \in Threads, Wakeup(t) PROVE TraceInv'
  BY <1>10 DEF Wakeup
<1>11. ASSUME NEW t \in Threads, LockFails(t) PROVE TraceInv'
  BY <1>11 DEF LockFails
<1>12. ASSUME NEW t \in Threads, Enter(t) PROVE TraceInv'
  BY <1>12 DEF Enter
<1>13. ASSUME NEW t \in Threads, ThreadStart(t) PROVE TraceInv'
  BY <1>13 DEF ThreadStart, WriteAndLeave
<1>14. ASSUME NEW t \in Threads, ThreadFini(t) PROVE TraceInv'
  BY <1>14 DEF ThreadFini, WriteAndLeave
<1>15. ASSUME NEW t \in Threads, LockBefore(t) PROVE TraceInv'
  BY <1>15 DEF LockBefore, WriteAndLeave
<1>16. ASSUME NEW t \in Threads, LockAfter(t) PROVE TraceInv'
  BY <1>16 DEF LockAfter, WriteAndLeave
<1>17. ASSUME NEW t \in Threads, UnlockBefore(t) PROVE TraceInv'
  BY <1>17 DEF UnlockBefore, WriteAndLeave
<1>18. ASSUME NEW t \in Threads, RecordMemRead(t) PROVE TraceInv'
  BY <1>18 DEF RecordMemRead, WriteAndLeave, AfterRead
<1>19. ASSUME NEW t \in Threads, RecordMemWrite(t) PROVE TraceInv'
  BY <1>19 DEF RecordMemWrite, WriteAndLeave
<1>20. ASSUME NEW t \in Threads, Discard(t) PROVE TraceInv'
  <2>1. PICK l \in {"RecordMemWrite", "executing"} : pc' = [pc EXCEPT ![t] = l]
    BY <1>20 DEF Discard, AfterRead
  <2>2. pc[t] \in AccessCallbacks /\ UNCHANGED <<arg, owner, held>>
    BY <1>20 DEF Discard, Discarded
  <2> QED
    BY <2>1, <2>2
<1>21. ASSUME NEW t \in Threads, CallHeap(t) PROVE TraceInv'
  BY <1>21 DEF CallHeap, Call
<1>22. ASSUME NEW t \in Threads, MallocAfter(t) PROVE TraceInv'
  BY <1>22 DEF MallocAfter, WriteAndLeave
<1>23. ASSUME NEW t \in Threads, FreeBefore(t) PROVE TraceInv'
  BY <1>23 DEF FreeBefore, WriteAndLeave
<1>24. ASSUME NEW t \in Threads, FreeUnknown(t) PROVE TraceInv'
  BY <1>24 DEF FreeUnknown
<1>25. CASE UNCHANGED vars
  BY <1>25 DEF vars
<1>26. QED
  BY <1>1, <1>2, <1>3, <1>4, <1>5, <1>6, <1>7, <1>8, <1>9, <1>10, <1>11,
     <1>12, <1>13, <1>14, <1>15, <1>16, <1>17, <1>18, <1>19, <1>20, <1>21, <1>22,
     <1>23, <1>24, <1>25 DEF Next, ProgramStep, ToolStep, Callback

AllInv == Inv /\ GuardInv /\ TraceInv

LEMMA AlwaysAllInv == ASSUME OnlyMutexLock PROVE Spec => []AllInv
<1>1. Init => AllInv
  BY InitInv, InitGuard, InitTrace DEF AllInv
<1>2. AllInv /\ [Next]_vars => AllInv'
  BY NextInv, NextGuard, NextTrace DEF AllInv
<1> QED
  BY <1>1, <1>2, PTL DEF Spec

\* What the trace shows as held is owned, so the critical sections of a mutex
\* never overlap in the trace.
THEOREM HeldIsOwned == ASSUME OnlyMutexLock PROVE Spec => []HeldMeansOwned
<1>1. AllInv => HeldMeansOwned
  BY DEF AllInv, TraceInv
<1> QED
  BY AlwaysAllInv, <1>1, PTL

\* The trace lags behind the program, or runs ahead of it, by one mutex of a
\* thread at most: the one it is about to note or to give back.
THEOREM MutexesAgree == ASSUME OnlyMutexLock PROVE Spec => []MutexInv
<1>1. AllInv => MutexInv
  BY DEF AllInv, TraceInv
<1> QED
  BY AlwaysAllInv, <1>1, PTL

\* Every unlock row closes a get row of the same thread.
THEOREM UnlockRowsMatch == ASSUME OnlyMutexLock PROVE Spec => UnlocksMatched
<1>1. AllInv /\ [Next]_vars
      => [out' # out /\ out'.op = "pthread_mutex_unlock"
          => out'.addr \in held[out'.thread]]_vars
  <2> SUFFICES ASSUME AllInv, Next, out' # out, out'.op = "pthread_mutex_unlock"
               PROVE  out'.addr \in held[out'.thread]
    BY DEF vars
  <2>1. ASSUME NEW t \in Threads, UnlockBefore(t) PROVE out'.addr \in held[out'.thread]
    <3>1. out'.addr = arg[t] /\ out'.thread = t /\ owner[arg[t]] = t /\ arg[t] \in Mutexes
      BY <2>1 DEF UnlockBefore, WriteAndLeave, AllInv, Inv, CallbackInv, GuardInv, OnMutex
    <3>2. arg[t] \in held[t]
      BY <2>1, <3>1 DEF UnlockBefore, AllInv, TraceInv, MutexInv
    <3> QED
      BY <3>1, <3>2
  <2>2. ASSUME NEW t \in Threads, ProgramStep(t) \/ Enter(t) \/ FreeUnknown(t) \/ Discard(t)
        PROVE  out' = out
    BY <2>2 DEF ProgramStep, CallLock, CallAccess, CallHeap, CallUnlock, Acquire, Release,
       Execute, Exit, TryLock, CondWait, Wakeup, LockFails, Enter, FreeUnknown, Discard, tool
  <2>3. ASSUME NEW t \in Threads, Callback(t), ~UnlockBefore(t)
        PROVE  out'.op # "pthread_mutex_unlock"
    BY <2>3 DEF Callback, ThreadStart, ThreadFini, LockBefore, LockAfter, RecordMemRead,
       RecordMemWrite, MallocAfter, FreeBefore, WriteAndLeave
  <2> QED
    BY <2>1, <2>2, <2>3 DEF Next, ToolStep
<1> QED
  BY AlwaysAllInv, <1>1, PTL DEF Spec, UnlocksMatched

-----------------------------------------------------------------------------
(* The recorder implements TraceSpec. *)

LEMMA InitRefines == Init => TS!TraceInit
  BY DEF Init, Header, TS!TraceInit, TS!GrammarInit, TS!Header, shownStatus, shownWanted

\* Outside the callbacks nothing happens that the trace would show.
LEMMA HiddenSteps ==
  ASSUME Inv, NEW t \in Threads, ProgramStep(t) \/ Enter(t) \/ FreeUnknown(t) \/ Discard(t)
  PROVE  UNCHANGED <<out, held, shownStatus, shownWanted>>
<1>1. UNCHANGED <<out, held>>
  BY DEF ProgramStep, CallLock, CallAccess, CallHeap, CallUnlock, Acquire, Release,
     Execute, Exit, TryLock, CondWait, Wakeup, LockFails, Enter, FreeUnknown, Discard,
     tool, history
<1> USE DEF Inv, TypeOK
<1>2. ASSUME NEW l \in Callbacks \cup ProgramPoints, pc' = [pc EXCEPT ![t] = l],
             pc[t] \notin {"ThreadStart", "ended", "locking", "LockAfter"},
             l \notin {"ThreadStart", "ended", "locking", "LockAfter"},
             \A u \in Threads \ {t} : arg'[u] = arg[u]
      PROVE  UNCHANGED <<shownStatus, shownWanted>>
  BY <1>2 DEF shownStatus, shownWanted
<1>3. ASSUME pc[t] = "locking", pc' = [pc EXCEPT ![t] = "LockAfter"], UNCHANGED arg
      PROVE  UNCHANGED <<shownStatus, shownWanted>>
  BY <1>3 DEF shownStatus, shownWanted
<1>4. CASE Acquire(t) \/ LockFails(t)
  BY <1>1, <1>3, <1>4 DEF Acquire, LockFails, Goto, program
<1>5. CASE TryLock(t) \/ Enter(t)
  BY <1>1, <1>5 DEF TryLock, Enter, program, shownStatus, shownWanted
<1>6. CASE Release(t) \/ Execute(t) \/ Exit(t) \/ Wakeup(t) \/ CallUnlock(t)
  BY <1>1, <1>2, <1>6 DEF Release, Execute, Exit, Wakeup, CallUnlock, Goto, program,
     Callbacks, ProgramPoints
<1>7. CASE CallLock(t) \/ CallAccess(t) \/ CondWait(t)
  BY <1>1, <1>2, <1>7 DEF CallLock, CallAccess, CondWait, Call, FirstCallback, Goto,
     Callbacks, AccessCallbacks, ProgramPoints
<1>8. CASE Discard(t)
  <2>1. PICK l \in {"RecordMemWrite", "executing"} : pc' = [pc EXCEPT ![t] = l]
    BY <1>8 DEF Discard, AfterRead, Goto
  <2>2. pc[t] \in AccessCallbacks /\ UNCHANGED arg
    BY <1>8 DEF Discard, Discarded, program
  <2> QED
    BY <1>1, <1>2, <2>1, <2>2 DEF Callbacks, AccessCallbacks, ProgramPoints
<1>9. CASE CallHeap(t)
  <2>1. PICK a \in Heap, cb \in HeapCallbacks : Call(t, a, cb)
    BY <1>9 DEF CallHeap
  <2> QED
    BY <1>1, <1>2, <2>1 DEF Call, Goto, Callbacks, HeapCallbacks
<1>10. CASE FreeUnknown(t)
  BY <1>1, <1>2, <1>10 DEF FreeUnknown, Goto, program, ProgramPoints
<1> QED
  BY <1>4, <1>5, <1>6, <1>7, <1>8, <1>9, <1>10 DEF ProgramStep

\* The row of every callback is one that may follow, at a later timestamp.
LEMMA CallbackSteps ==
  ASSUME OnlyMutexLock, AllInv, Inv', NEW t \in Threads, Callback(t)
  PROVE  TS!WriteRow
<1> USE RecorderAssumption
<1>1. out'.ts > out.ts /\ out'.thread = t
  BY DEF Callback, ThreadStart, ThreadFini, LockBefore, LockAfter, UnlockBefore,
     RecordMemRead, RecordMemWrite, MallocAfter, FreeBefore, WriteAndLeave, AllInv, Inv,
     TypeOK, CallbackInv, RowType, Header
<1>2. out' \in TS!Row
  <2>1. out' # Header
    BY <1>1 DEF Header
  <2> QED
    BY <2>1 DEF Inv, TypeOK, RowType, TS!Row, TS!LockOps, TS!AccessOps, TS!HeapOps,
       TS!LifeOps
<1> USE DEF AllInv, Inv, TypeOK, TraceInv, Goto
<1>3. CASE ThreadStart(t)
  <2>1. /\ shownStatus[t] = "absent"
        /\ shownStatus' = [shownStatus EXCEPT ![t] = "running"]
        /\ UNCHANGED <<shownWanted, held>>
    BY <1>3 DEF ThreadStart, WriteAndLeave, program, shownStatus, shownWanted
  <2>2. out'.op = "THREADSTART"
    BY <1>3 DEF ThreadStart, WriteAndLeave
  <2> QED
    BY <1>1, <1>2, <2>1, <2>2 DEF TS!WriteRow, TS!Follows, TS!Starts
<1>4. CASE ThreadFini(t)
  <2>1. /\ shownStatus[t] = "running" /\ shownWanted[t] = None
        /\ shownStatus' = [shownStatus EXCEPT ![t] = "ended"]
        /\ UNCHANGED <<shownWanted, held>>
    BY <1>4 DEF ThreadFini, WriteAndLeave, program, shownStatus, shownWanted
  <2>2. out'.op = "THREADEND"
    BY <1>4 DEF ThreadFini, WriteAndLeave
  <2> QED
    BY <1>1, <1>2, <2>1, <2>2 DEF TS!WriteRow, TS!Follows, TS!Ends, TS!Running
<1>5. CASE LockBefore(t)
  <2>1. /\ shownStatus[t] = "running" /\ shownWanted[t] = None
        /\ shownWanted' = [shownWanted EXCEPT ![t] = arg[t]]
        /\ UNCHANGED <<shownStatus, held>>
    BY <1>5 DEF LockBefore, WriteAndLeave, program, shownStatus, shownWanted
  <2>2. out'.op = "pthread_mutex_lock" /\ out'.addr = arg[t]
    BY <1>5 DEF LockBefore, WriteAndLeave
  <2>3. arg[t] \in Mutexes
    BY <1>5 DEF LockBefore, CallbackInv, OnMutex
  <2>4. "nested" \in Features \/ held[t] = {}
    BY <1>5 DEF LockBefore, HeldMeansOwned, MutexInv, Owned
  <2> QED
    BY <1>1, <1>2, <2>1, <2>2, <2>3, <2>4 DEF TS!WriteRow, TS!Follows, TS!Requests, TS!Running
<1>6. CASE LockAfter(t)
  <2>1. /\ shownStatus[t] = "running" /\ shownWanted[t] = arg[t]
        /\ shownWanted' = [shownWanted EXCEPT ![t] = None]
        /\ UNCHANGED shownStatus
    BY <1>6 DEF LockAfter, WriteAndLeave, program, shownStatus, shownWanted
  <2>2. pthreads_lock_refs[t] = arg[t] /\ arg[t] \in Mutexes
    BY <1>6 DEF LockAfter, CallbackInv, OnMutex
  <2>3. /\ out'.op = "pthread_mutex_lock@get" /\ out'.addr = arg[t]
        /\ held' = [held EXCEPT ![t] = @ \cup {arg[t]}]
    BY <1>6, <2>2 DEF LockAfter, WriteAndLeave
  <2>4. \A u \in Threads : arg[t] \notin held[u]
    BY <1>6, <2>2 DEF LockAfter, HeldMeansOwned, MutexInv, Owned
  <2> QED
    BY <1>1, <1>2, <2>1, <2>2, <2>3, <2>4 DEF TS!WriteRow, TS!Follows, TS!Gets
<1>7. CASE UnlockBefore(t)
  <2>1. /\ shownStatus[t] = "running" /\ shownWanted[t] = None
        /\ UNCHANGED <<shownStatus, shownWanted>>
    BY <1>7 DEF UnlockBefore, WriteAndLeave, program, shownStatus, shownWanted
  <2>2. /\ out'.op = "pthread_mutex_unlock" /\ out'.addr = arg[t]
        /\ held' = [held EXCEPT ![t] = @ \ {arg[t]}]
    BY <1>7 DEF UnlockBefore, WriteAndLeave
  <2>3. arg[t] \in held[t]
    BY <1>7 DEF UnlockBefore, CallbackInv, GuardInv, MutexInv, OnMutex
  <2> QED
    BY <1>1, <1>2, <2>1, <2>2, <2>3 DEF TS!WriteRow, TS!Follows, TS!Unlocks, TS!Running
<1>8. CASE RecordMemRead(t) \/ RecordMemWrite(t)
  <2>1. pc[t] \in AccessCallbacks
    BY <1>8 DEF RecordMemRead, RecordMemWrite, AccessCallbacks
  <2>2. PICK l \in {"RecordMemWrite", "executing"} : pc' = [pc EXCEPT ![t] = l]
    BY <1>8 DEF RecordMemRead, RecordMemWrite, AfterRead, WriteAndLeave
  <2>3. out'.op \in TS!AccessOps /\ out'.addr = arg[t].addr /\ UNCHANGED <<arg, held>>
    BY <1>8 DEF RecordMemRead, RecordMemWrite, WriteAndLeave, TS!AccessOps, program
  <2>4. /\ shownStatus[t] = "running" /\ shownWanted[t] = None
        /\ UNCHANGED <<shownStatus, shownWanted>>
    BY <2>1, <2>2, <2>3 DEF AccessCallbacks, shownStatus, shownWanted
  <2>5. arg[t] \in Instructions /\ Guard[arg[t].addr] \subseteq Owned(t)
    BY <2>1 DEF CallbackInv, GuardInv, OnMemory
  <2>6. arg[t].addr \in Vars /\ Guard[arg[t].addr] \subseteq Mutexes
    BY <2>5
  <2>7. Guard[arg[t].addr] \subseteq held[t]
    BY <2>1, <2>5, <2>6 DEF MutexInv, Owned, AccessCallbacks
  <2> QED
    BY <1>1, <1>2, <2>3, <2>4, <2>6, <2>7 DEF TS!WriteRow, TS!Follows, TS!Touches,
       TS!Running, TS!grammarVars
<1>9. CASE MallocAfter(t) \/ FreeBefore(t)
  <2>1. /\ out'.op \in TS!HeapOps /\ out'.addr = arg[t] /\ UNCHANGED <<arg, held>>
        /\ pc' = [pc EXCEPT ![t] = "running"]
        /\ pc[t] \in HeapCallbacks
    BY <1>9 DEF MallocAfter, FreeBefore, WriteAndLeave, TS!HeapOps, program, HeapCallbacks
  <2>2. /\ shownStatus[t] = "running" /\ shownWanted[t] = None
        /\ UNCHANGED <<shownStatus, shownWanted>>
    BY <2>1 DEF HeapCallbacks, shownStatus, shownWanted
  <2>3. arg[t] \in Vars
    BY <2>1 DEF CallbackInv
  <2> QED
    BY <1>1, <1>2, <2>1, <2>2, <2>3 DEF TS!WriteRow, TS!Follows, TS!Manages,
       TS!Running, TS!grammarVars
<1> QED
  BY <1>3, <1>4, <1>5, <1>6, <1>7, <1>8, <1>9 DEF Callback

\* racedet.trace is what TraceSpec says, when the program locks with
\* pthread_mutex_lock alone.
THEOREM RecorderImplementsTrace == ASSUME OnlyMutexLock PROVE Spec => TraceSpecHolds
<1>1. AllInv /\ AllInv' /\ [Next]_vars => [TS!WriteRow]_(TS!traceVars)
  <2> SUFFICES ASSUME AllInv, AllInv', [Next]_vars PROVE [TS!WriteRow]_(TS!traceVars)
    OBVIOUS
  <2>1. CASE UNCHANGED vars
    BY <2>1 DEF vars, tool, history, shownStatus, shownWanted, program,
       TS!traceVars, TS!grammarVars
  <2>2. ASSUME NEW t \in Threads, ProgramStep(t) \/ Enter(t) \/ FreeUnknown(t) \/ Discard(t)
        PROVE  UNCHANGED TS!traceVars
    BY <2>2, HiddenSteps DEF AllInv, TS!traceVars, TS!grammarVars
  <2>3. ASSUME NEW t \in Threads, Callback(t) PROVE TS!WriteRow
    BY <2>3, CallbackSteps DEF AllInv
  <2> QED
    BY <2>1, <2>2, <2>3 DEF Next, ToolStep
<1> QED
  BY InitRefines, AlwaysAllInv, <1>1, PTL DEF TraceSpecHolds, TS!TraceSpecification, Spec
=============================================================================
