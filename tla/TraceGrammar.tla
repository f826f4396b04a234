---------------------------- MODULE TraceGrammar ----------------------------
(***************************************************************************)
(* The vocabulary of racedet.trace and the order in which its rows may      *)
(* come when the traced program uses its mutexes as POSIX asks.  This is    *)
(* what the analyzer takes for granted of its input; TraceSpec turns it     *)
(* into the specification the recorder is checked against, and Analysis     *)
(* feeds it to the analyzer.                                                *)
(*                                                                         *)
(* A row r is a record with at least the columns r.op, r.thread and r.addr. *)
(***************************************************************************)
CONSTANTS
    Threads,      \* PIN thread uids
    Mutexes,      \* addresses of pthread_mutex_t objects
    Vars,         \* addresses of the memory the program shares
    Guard,        \* Guard[a]: (SUBSET Mutexes) those the program holds whenever
                  \* it touches a
    Nesting,      \* may a thread ask for a mutex while it holds another?
    None          \* no mutex, no thread

VARIABLES
    status,       \* status[t]: which part of the life of t the rows have shown
    wanted,       \* wanted[t]: the mutex t has requested and not yet got
    held          \* held[t]: mutexes got and not yet unlocked, by the rows so far

grammarVars == <<status, wanted, held>>

LockOps   == {"pthread_mutex_lock", "pthread_mutex_lock@get",
              "pthread_mutex_unlock"}
AccessOps == {"READ", "WRITE"}
HeapOps   == {"malloc", "free"}
LifeOps   == {"THREADSTART", "THREADEND"}

GrammarTypeOK ==
    /\ status \in [Threads -> {"absent", "running", "ended"}]
    /\ wanted \in [Threads -> Mutexes \cup {None}]
    /\ held \in [Threads -> SUBSET Mutexes]

GrammarInit ==
    /\ status = [t \in Threads |-> "absent"]
    /\ wanted = [t \in Threads |-> None]
    /\ held = [t \in Threads |-> {}]

\* t has started, has not ended and is not inside pthread_mutex_lock.
Running(t) == status[t] = "running" /\ wanted[t] = None

Starts(r) ==
    /\ r.op = "THREADSTART"
    /\ status[r.thread] = "absent"
    /\ status' = [status EXCEPT ![r.thread] = "running"]
    /\ UNCHANGED <<wanted, held>>

Ends(r) ==
    /\ r.op = "THREADEND"
    /\ Running(r.thread)
    /\ status' = [status EXCEPT ![r.thread] = "ended"]
    /\ UNCHANGED <<wanted, held>>

Requests(r) ==
    /\ r.op = "pthread_mutex_lock"
    /\ r.addr \in Mutexes
    /\ Running(r.thread)
    /\ Nesting \/ held[r.thread] = {}
    /\ wanted' = [wanted EXCEPT ![r.thread] = r.addr]
    /\ UNCHANGED <<status, held>>

\* A mutex is got by the thread that asked for it, when no thread holds it.
Gets(r) ==
    /\ r.op = "pthread_mutex_lock@get"
    /\ r.addr \in Mutexes
    /\ status[r.thread] = "running"
    /\ wanted[r.thread] = r.addr
    /\ \A u \in Threads : r.addr \notin held[u]
    /\ wanted' = [wanted EXCEPT ![r.thread] = None]
    /\ held' = [held EXCEPT ![r.thread] = @ \cup {r.addr}]
    /\ UNCHANGED status

Unlocks(r) ==
    /\ r.op = "pthread_mutex_unlock"
    /\ Running(r.thread)
    /\ r.addr \in held[r.thread]
    /\ held' = [held EXCEPT ![r.thread] = @ \ {r.addr}]
    /\ UNCHANGED <<status, wanted>>

\* A guarded variable is touched inside the critical sections that guard it.
Touches(r) ==
    /\ r.op \in AccessOps
    /\ r.addr \in Vars
    /\ Running(r.thread)
    /\ Guard[r.addr] \subseteq held[r.thread]
    /\ UNCHANGED grammarVars

Manages(r) ==
    /\ r.op \in HeapOps
    /\ r.addr \in Vars
    /\ Running(r.thread)
    /\ UNCHANGED grammarVars

\* The row r may come next.
Follows(r) ==
    \/ Starts(r)   \/ Ends(r)
    \/ Requests(r) \/ Gets(r)  \/ Unlocks(r)
    \/ Touches(r)  \/ Manages(r)
=============================================================================
