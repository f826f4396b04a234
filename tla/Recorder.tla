------------------------------ MODULE Recorder ------------------------------
(***************************************************************************)
(* The callbacks of instrumenter/racedet.cpp that write racedet.trace, run  *)
(* by the threads of a traced Pthreads program.                             *)
(*                                                                         *)
(* A callback takes the PIN lock (Enter), counts the timestamp up, writes   *)
(* one row with the global timestamp and gives the lock back (the action    *)
(* named after the callback).  Between two callbacks the program itself     *)
(* runs: it takes and gives back mutexes and executes the instructions      *)
(* whose accesses were recorded before they happened (IPOINT_BEFORE).       *)
(* That part, Pin and libpthread are external: modelled from how the        *)
(* instrumentation is inserted (Instruction, ImageLoad).                    *)
(*                                                                         *)
(* What MallocBefore, MallocAfter and FreeBefore do to the memory map is in *)
(* MemoryMap; here they are the rows they write.                            *)
(***************************************************************************)
EXTENDS Naturals

CONSTANTS
    Threads,        \* PIN thread uids
    Mutexes,        \* addresses of pthread_mutex_t objects
    Instructions,   \* memory instructions: [addr : Vars, ops : SUBSET accesses]
    Recorded,       \* those whose callback passes its early returns
    Vars, Guard,    \* the program touches a only while it owns Guard[a]
    Heap,           \* those of Vars that malloc returns and free takes
    Features,       \* what else of Pthreads the program uses
    MaxOps,         \* bound: lock calls, instructions and heap calls of a thread
    None

AccessOps == {"READ", "WRITE"}

ASSUME RecorderAssumption ==
    /\ Instructions \subseteq [addr : Vars, ops : (SUBSET AccessOps) \ {{}}]
    /\ Guard \in [Vars -> SUBSET Mutexes]
    /\ Heap \subseteq Vars
    /\ Features \subseteq {"nested", "trylock", "cond_wait", "lock_error"}
    /\ MaxOps \in Nat
    /\ None \notin Threads \cup Mutexes \cup Instructions \cup Vars

VARIABLES
    pc,                  \* pc[t]: the callback t is about to run, or where in
                         \* the program it is
    arg,                 \* arg[t]: the mutex, instruction or block t is busy with
    ops,                 \* ops[t]: operations t has begun (bounded by MaxOps)
    owner,               \* owner[m]: the thread that owns the mutex m
    lock,                \* the PIN lock: the thread inside a callback
    timestamp,           \* the global event counter
    pthreads_lock_refs,  \* address handed from LockBefore to LockAfter, per uid
    out,                 \* the last row of racedet.trace
    held,                \* history: mutexes the rows so far say t holds
    stamp,               \* history: timestamp of t's last access row
    executed             \* history: stamp of the last executed access to a

program == <<arg, ops, owner>>
tool    == <<lock, timestamp, pthreads_lock_refs, out>>
history == <<held, stamp, executed>>
vars    == <<pc, program, tool, history>>

AccessCallbacks == {"RecordMemRead", "RecordMemWrite"}
HeapCallbacks   == {"MallocAfter", "FreeBefore"}
Callbacks == {"ThreadStart", "LockBefore", "LockAfter", "UnlockBefore",
              "ThreadFini"} \cup AccessCallbacks \cup HeapCallbacks
ProgramPoints == {"running", "locking", "unlocking", "executing", "waiting",
                  "ended"}

RowType == [ts : Nat, thread : Threads, addr : Mutexes \cup Vars \cup {None},
            op : {"THREADSTART", "THREADEND", "READ", "WRITE", "malloc", "free",
                  "pthread_mutex_lock", "pthread_mutex_lock@get",
                  "pthread_mutex_unlock"}]
Header == [ts |-> 0, op |-> "header", thread |-> None, addr |-> None]

TypeOK ==
    /\ pc \in [Threads -> Callbacks \cup ProgramPoints]
    /\ arg \in [Threads -> Mutexes \cup Instructions \cup Heap \cup {None}]
    /\ ops \in [Threads -> 0..MaxOps]
    /\ owner \in [Mutexes -> Threads \cup {None}]
    /\ lock \in Threads \cup {None}
    /\ timestamp \in Nat
    /\ pthreads_lock_refs \in [Threads -> Mutexes \cup {None}]
    /\ out \in RowType \cup {Header}
    /\ held \in [Threads -> SUBSET Mutexes]
    /\ stamp \in [Threads -> Nat]
    /\ executed \in [Vars -> Nat]

Init ==
    /\ pc = [t \in Threads |-> "ThreadStart"]
    /\ arg = [t \in Threads |-> None]
    /\ ops = [t \in Threads |-> 0]
    /\ owner = [m \in Mutexes |-> None]
    /\ lock = None
    /\ timestamp = 0
    /\ pthreads_lock_refs = [t \in Threads |-> None]
    /\ out = Header
    /\ held = [t \in Threads |-> {}]
    /\ stamp = [t \in Threads |-> 0]
    /\ executed = [a \in Vars |-> 0]

Owned(t) == {m \in Mutexes : owner[m] = t}
Goto(t, l) == pc' = [pc EXCEPT ![t] = l]

-----------------------------------------------------------------------------
(* The traced program (external). *)

\* t begins an operation on x; the callback cb of the operation comes first.
Call(t, x, cb) ==
    /\ pc[t] = "running"
    /\ ops[t] < MaxOps
    /\ ops' = [ops EXCEPT ![t] = @ + 1]
    /\ arg' = [arg EXCEPT ![t] = x]
    /\ Goto(t, cb)

CallLock(t) ==
    /\ "nested" \in Features \/ Owned(t) = {}
    /\ \E m \in Mutexes : Call(t, m, "LockBefore")
    /\ UNCHANGED <<owner, tool, history>>

\* Instruction: the read callback of an instruction is inserted before its
\* write callback.
FirstCallback(i) == IF "READ" \in i.ops THEN "RecordMemRead" ELSE "RecordMemWrite"

CallAccess(t) ==
    /\ \E i \in Instructions :
         /\ Guard[i.addr] \subseteq Owned(t)
         /\ Call(t, i, FirstCallback(i))
    /\ UNCHANGED <<owner, tool, history>>

\* malloc has returned the block a (a malloc that fails writes no row), or a
\* is about to be freed.
CallHeap(t) ==
    /\ \E a \in Heap, cb \in HeapCallbacks : Call(t, a, cb)
    /\ UNCHANGED <<owner, tool, history>>

\* Only the owner unlocks; anything else is undefined for a default mutex.
CallUnlock(t) ==
    /\ pc[t] = "running"
    /\ \E m \in Owned(t) : arg' = [arg EXCEPT ![t] = m]
    /\ Goto(t, "UnlockBefore")
    /\ UNCHANGED <<ops, owner, tool, history>>

\* Inside pthread_mutex_lock: the mutex is free and becomes t's.
Acquire(t) ==
    /\ pc[t] = "locking"
    /\ owner[arg[t]] = None
    /\ owner' = [owner EXCEPT ![arg[t]] = t]
    /\ Goto(t, "LockAfter")
    /\ UNCHANGED <<arg, ops, tool, history>>

\* Inside pthread_mutex_unlock.
Release(t) ==
    /\ pc[t] = "unlocking"
    /\ owner' = [owner EXCEPT ![arg[t]] = None]
    /\ Goto(t, "running")
    /\ UNCHANGED <<arg, ops, tool, history>>

\* The access happens, after its rows were written.
Execute(t) ==
    /\ pc[t] = "executing"
    /\ executed' = IF arg[t] \in Recorded
                   THEN [executed EXCEPT ![arg[t].addr] = stamp[t]]
                   ELSE executed
    /\ Goto(t, "running")
    /\ UNCHANGED <<program, tool, held, stamp>>

Exit(t) ==
    /\ pc[t] = "running"
    /\ Goto(t, "ThreadFini")
    /\ UNCHANGED <<program, tool, history>>

\* pthread_mutex_trylock is not instrumented: no callback runs.
TryLock(t) ==
    /\ "trylock" \in Features
    /\ pc[t] = "running"
    /\ ops[t] < MaxOps
    /\ ops' = [ops EXCEPT ![t] = @ + 1]
    /\ \E m \in Mutexes : owner[m] = None /\ owner' = [owner EXCEPT ![m] = t]
    /\ UNCHANGED <<pc, arg, tool, history>>

\* pthread_cond_wait gives the mutex back, and takes it again, inside
\* libpthread, without a call to the two instrumented functions.
CondWait(t) ==
    /\ "cond_wait" \in Features
    /\ \E m \in Owned(t) : Call(t, m, "waiting") /\ owner' = [owner EXCEPT ![m] = None]
    /\ UNCHANGED <<tool, history>>

Wakeup(t) ==
    /\ pc[t] = "waiting"
    /\ owner[arg[t]] = None
    /\ owner' = [owner EXCEPT ![arg[t]] = t]
    /\ Goto(t, "running")
    /\ UNCHANGED <<arg, ops, tool, history>>

\* pthread_mutex_lock returns an error and does not take the mutex (a
\* robust mutex nobody recovered, a priority above the ceiling).
LockFails(t) ==
    /\ "lock_error" \in Features
    /\ pc[t] = "locking"
    /\ Goto(t, "LockAfter")
    /\ UNCHANGED <<program, tool, history>>

ProgramStep(t) ==
    \/ CallLock(t) \/ CallAccess(t) \/ CallUnlock(t) \/ CallHeap(t)
    \/ Acquire(t)  \/ Release(t)    \/ Execute(t) \/ Exit(t)
    \/ TryLock(t)  \/ CondWait(t)   \/ Wakeup(t)  \/ LockFails(t)

-----------------------------------------------------------------------------
(* The callbacks. *)

\* What pc tells of the callbacks that return before they take the lock: the
\* address is in no known region, or the instruction not in the main image.
Discarded(t) == pc[t] \in AccessCallbacks /\ arg[t] \notin Recorded

\* Mutant: one pthreads_lock_refs for all threads.
EnterSharedNote(t) ==
    /\ pc[t] \in Callbacks
    /\ ~Discarded(t)
    /\ lock = None
    /\ lock' = t
    /\ timestamp' = timestamp + 1
    /\ pthreads_lock_refs' = IF pc[t] = "LockBefore" THEN [u \in Threads |-> arg[t]]
                             ELSE pthreads_lock_refs
    /\ UNCHANGED <<pc, program, out, history>>

\* Mutant: LockBefore takes no note.
EnterWithoutNote(t) ==
    /\ pc[t] \in Callbacks
    /\ ~Discarded(t)
    /\ lock = None
    /\ lock' = t
    /\ timestamp' = timestamp + 1
    /\ UNCHANGED <<pc, program, pthreads_lock_refs, out, history>>

\* Mutant: UnlockBefore does not count the timestamp up.
EnterUncounted(t) ==
    /\ pc[t] \in Callbacks
    /\ ~Discarded(t)
    /\ lock = None
    /\ lock' = t
    /\ timestamp' = IF pc[t] = "UnlockBefore" THEN timestamp ELSE timestamp + 1
    /\ pthreads_lock_refs' = IF pc[t] = "LockBefore"
                             THEN [pthreads_lock_refs EXCEPT ![t] = arg[t]]
                             ELSE pthreads_lock_refs
    /\ UNCHANGED <<pc, program, out, history>>

\* Mutant: ThreadStart sets the timestamp back.
EnterResets(t) ==
    /\ pc[t] \in Callbacks
    /\ ~Discarded(t)
    /\ lock = None
    /\ lock' = t
    /\ timestamp' = IF pc[t] = "ThreadStart" THEN 1 ELSE timestamp + 1
    /\ pthreads_lock_refs' = IF pc[t] = "LockBefore"
                             THEN [pthreads_lock_refs EXCEPT ![t] = arg[t]]
                             ELSE pthreads_lock_refs
    /\ UNCHANGED <<pc, program, out, history>>

\* PIN_GetLock, the note LockBefore takes for LockAfter, and timestamp++.
Enter(t) ==
    /\ pc[t] \in Callbacks
    /\ ~Discarded(t)
    /\ lock = None
    /\ lock' = t
    /\ timestamp' = timestamp + 1
    /\ pthreads_lock_refs' = IF pc[t] = "LockBefore"
                             THEN [pthreads_lock_refs EXCEPT ![t] = arg[t]]
                             ELSE pthreads_lock_refs
    /\ UNCHANGED <<pc, program, out, history>>

\* Mutant: the read callback returns with the PIN lock.
WriteAndStay(t, op, addr, l) ==
    /\ lock = t
    /\ out' = [ts |-> timestamp, op |-> op, thread |-> t, addr |-> addr]
    /\ lock' = IF op = "READ" THEN t ELSE None
    /\ Goto(t, l)
    /\ UNCHANGED <<program, timestamp, pthreads_lock_refs, executed>>

\* fprintf of the row, PIN_ReleaseLock, and back to the program at l.
WriteAndLeave(t, op, addr, l) ==
    /\ lock = t
    /\ out' = [ts |-> timestamp, op |-> op, thread |-> t, addr |-> addr]
    /\ lock' = None
    /\ Goto(t, l)
    /\ UNCHANGED <<program, timestamp, pthreads_lock_refs, executed>>

ThreadStart(t) ==
    /\ pc[t] = "ThreadStart"
    /\ WriteAndLeave(t, "THREADSTART", None, "running")
    /\ UNCHANGED <<held, stamp>>

ThreadFini(t) ==
    /\ pc[t] = "ThreadFini"
    /\ WriteAndLeave(t, "THREADEND", None, "ended")
    /\ UNCHANGED <<held, stamp>>

\* Mutant: LockAfter is inserted before the call as well.
LockBeforeGets(t) ==
    /\ pc[t] = "LockBefore"
    /\ WriteAndLeave(t, "pthread_mutex_lock", arg[t], "LockAfter")
    /\ UNCHANGED <<held, stamp>>

LockBefore(t) ==
    /\ pc[t] = "LockBefore"
    /\ WriteAndLeave(t, "pthread_mutex_lock", arg[t], "locking")
    /\ UNCHANGED <<held, stamp>>

\* The mutex is not among LockAfter's arguments: it prints the one noted.
LockAfter(t) ==
    /\ pc[t] = "LockAfter"
    /\ WriteAndLeave(t, "pthread_mutex_lock@get", pthreads_lock_refs[t], "running")
    /\ held' = [held EXCEPT ![t] = @ \cup {pthreads_lock_refs[t]}]
    /\ UNCHANGED stamp

\* Mutant: the unlock row names the mutex noted at the last lock call.
UnlockBeforeNoted(t) ==
    /\ pc[t] = "UnlockBefore"
    /\ WriteAndLeave(t, "pthread_mutex_unlock", pthreads_lock_refs[t], "unlocking")
    /\ held' = [held EXCEPT ![t] = @ \ {pthreads_lock_refs[t]}]
    /\ UNCHANGED stamp

UnlockBefore(t) ==
    /\ pc[t] = "UnlockBefore"
    /\ WriteAndLeave(t, "pthread_mutex_unlock", arg[t], "unlocking")
    /\ held' = [held EXCEPT ![t] = @ \ {arg[t]}]
    /\ UNCHANGED stamp

\* Where the instruction goes on after its read callback.
AfterRead(i) == IF "WRITE" \in i.ops THEN "RecordMemWrite" ELSE "executing"

RecordMemRead(t) ==
    /\ pc[t] = "RecordMemRead"
    /\ WriteAndLeave(t, "READ", arg[t].addr, AfterRead(arg[t]))
    /\ stamp' = [stamp EXCEPT ![t] = timestamp]
    /\ UNCHANGED held

RecordMemWrite(t) ==
    /\ pc[t] = "RecordMemWrite"
    /\ WriteAndLeave(t, "WRITE", arg[t].addr, "executing")
    /\ stamp' = [stamp EXCEPT ![t] = timestamp]
    /\ UNCHANGED held

MallocAfter(t) ==
    /\ pc[t] = "MallocAfter"
    /\ WriteAndLeave(t, "malloc", arg[t], "running")
    /\ UNCHANGED <<held, stamp>>

FreeBefore(t) ==
    /\ pc[t] = "FreeBefore"
    /\ WriteAndLeave(t, "free", arg[t], "running")
    /\ UNCHANGED <<held, stamp>>

\* FreeBefore of a region the memory map does not know: the timestamp it
\* counted is used by no row.
FreeUnknown(t) ==
    /\ pc[t] = "FreeBefore"
    /\ lock = t
    /\ lock' = None
    /\ Goto(t, "running")
    /\ UNCHANGED <<program, timestamp, pthreads_lock_refs, out, history>>

\* The early returns: no row, no timestamp.
Discard(t) ==
    /\ Discarded(t)
    /\ Goto(t, IF pc[t] = "RecordMemRead" THEN AfterRead(arg[t]) ELSE "executing")
    /\ UNCHANGED <<program, tool, history>>

Callback(t) ==
    \/ ThreadStart(t)  \/ ThreadFini(t)
    \/ LockBefore(t)   \/ LockAfter(t)     \/ UnlockBefore(t)
    \/ RecordMemRead(t) \/ RecordMemWrite(t)
    \/ MallocAfter(t)  \/ FreeBefore(t)

ToolStep(t) == Enter(t) \/ Callback(t) \/ FreeUnknown(t) \/ Discard(t)

Next == \E t \in Threads : ProgramStep(t) \/ ToolStep(t)

Spec == Init /\ [][Next]_vars

\* The scheduler runs every thread that is inside the tool, and the PIN lock
\* is handed to a thread that waits for it as long as it stays free.
Fairness == \A t \in Threads : WF_vars(ToolStep(t))

FairSpec == Spec /\ Fairness

-----------------------------------------------------------------------------
(* Properties. *)

\* A thread that holds a mutex by the rows written so far owns it: the @get
\* row comes after the acquisition and the unlock row before the release, so
\* no two threads hold a mutex in the trace at once (LockAfter, UnlockBefore).
HeldMeansOwned == \A t \in Threads : held[t] \subseteq Owned(t)

\* The rows are written in the order of their timestamps and no timestamp is
\* used twice: counting and writing are one critical section of the PIN lock.
StampOrder == [][out' # out => out'.ts > out.ts]_vars

\* Every unlock row closes a get row of the same thread and mutex; the
\* analyzer gives up on a trace where one does not.
UnlocksMatched ==
    [][out' # out /\ out'.op = "pthread_mutex_unlock"
       => out'.addr \in held[out'.thread]]_vars

\* Rows are written before the accesses they stand for.  For a variable the
\* program guards with a mutex the accesses still happen in the order of
\* their rows.
GuardedOrder ==
    [][\A a \in Vars : Guard[a] # {} => executed'[a] >= executed[a]]_vars

\* The trace is a well-formed history of the program's mutexes: TraceSpec,
\* with the state it speaks of read off the program points.
shownStatus ==
    [t \in Threads |-> CASE pc[t] = "ThreadStart" -> "absent"
                         [] pc[t] = "ended"       -> "ended"
                         [] OTHER                 -> "running"]
shownWanted ==
    [t \in Threads |-> IF pc[t] \in {"locking", "LockAfter"} THEN arg[t] ELSE None]

TS == INSTANCE TraceSpec WITH status <- shownStatus, wanted <- shownWanted,
                              Nesting <- ("nested" \in Features)

TraceSpecHolds == TS!TraceSpecification

\* A mutex the program has just taken is sooner or later taken in the trace:
\* no callback is kept out of the PIN lock or forgets to give it back.
AcquisitionsRecorded ==
    \A t \in Threads, m \in Mutexes :
        (pc[t] = "LockAfter" /\ arg[t] = m) ~> (m \in held[t])

-----------------------------------------------------------------------------
(* The invariants the proofs go by induction on (RecorderProofs). *)

OnMutex  == {"LockBefore", "locking", "LockAfter", "UnlockBefore", "unlocking", "waiting"}
OnMemory == AccessCallbacks \cup {"executing"}

\* A thread is in the PIN lock only inside a callback that writes a row, works
\* on something of the right kind, finds in pthreads_lock_refs the mutex it
\* noted there, and the row under way will have a new timestamp.
CallbackInv ==
    /\ lock # None => pc[lock] \in Callbacks /\ ~Discarded(lock)
    /\ \A t \in Threads : /\ pc[t] \in OnMutex => arg[t] \in Mutexes
                          /\ pc[t] \in OnMemory => arg[t] \in Instructions
                          /\ pc[t] \in HeapCallbacks => arg[t] \in Heap
                          /\ \/ pc[t] \in {"locking", "LockAfter"}
                             \/ pc[t] = "LockBefore" /\ lock = t
                             => pthreads_lock_refs[t] = arg[t]
    /\ IF lock = None THEN out.ts <= timestamp ELSE out.ts < timestamp

\* A thread owns the mutex it is giving back and the guards of what it
\* touches; a guarded variable was last executed before the row of the access
\* that is under way.
GuardInv ==
    /\ \A t \in Threads :
         /\ pc[t] \in {"UnlockBefore", "unlocking"} => owner[arg[t]] = t
         /\ pc[t] \in OnMemory => Guard[arg[t].addr] \subseteq Owned(t)
         /\ stamp[t] <= timestamp
    /\ \A a \in Vars : executed[a] <= timestamp
    /\ \A t \in Threads :
         pc[t] = "executing" /\ arg[t] \in Recorded /\ Guard[arg[t].addr] # {}
         => executed[arg[t].addr] <= stamp[t]

\* Where the trace and the program may differ about a mutex: between its
\* acquisition and the @get row, and between the unlock row and its release.
MutexInv ==
    \A t \in Threads :
        /\ pc[t] # "waiting"
        /\ pc[t] = "LockBefore" => "nested" \in Features \/ Owned(t) = {}
        /\ pc[t] = "LockAfter" => owner[arg[t]] = t
        /\ pc[t] \in {"LockAfter", "unlocking"} => arg[t] \notin held[t]
        /\ \A m \in Mutexes :
             owner[m] = t => \/ m \in held[t]
                             \/ pc[t] \in {"LockAfter", "unlocking"} /\ arg[t] = m
=============================================================================
