------------------------------ MODULE MemoryMap ------------------------------
(***************************************************************************)
(* The recorder's memory map (instrumenter/racedet.cpp): the regions that   *)
(* MallocBefore, MallocAfter, FreeBefore and read_symbol_list enter, and    *)
(* the search by which RecordMemRead and RecordMemWrite tell "globals and   *)
(* heap" from other memory.                                                *)
(*                                                                         *)
(* The allocator and the program are external; so are the ways to get or    *)
(* move a block that the tool does not see (Untraced).  Uses of a std::map  *)
(* without the PIN lock race with its insertions; the uses named in Races   *)
(* may then miss or lose a node, the others are atomic.                     *)
(* The rows and the timestamps of these callbacks are Recorder's concern.   *)
(***************************************************************************)
EXTENDS Integers, SequencesExt

CONSTANTS
    Threads,
    Globals,      \* symbol list: address -> size of the global variables
    Starts,       \* addresses at which the allocator may place a block
    Sizes,        \* sizes the program asks for
    Width,        \* number of values of an unsigned int (2^32)
    HeapEnd,      \* first address after the heap
    MemoryEnd,    \* first address after all memory
    Untraced,     \* ways of allocation without a request
    MaxCalls,     \* bound: calls of malloc, calloc and realloc
    Races,        \* the unlocked uses of a map that may be torn
    None, Image   \* no thread, argument or miss; a miss of the image test

ASSUME MemoryMapAssumption ==
    /\ DOMAIN Globals \subseteq Nat /\ IsFiniteSet(DOMAIN Globals)
    /\ \A g \in DOMAIN Globals :
           /\ Globals[g] \in Nat \ {0}
           /\ \A h \in DOMAIN Globals : g < h => g + Globals[g] <= h
           /\ \A b \in Starts : g + Globals[g] <= b \/ HeapEnd <= g
    /\ Starts \subseteq 0 .. HeapEnd - 1 /\ Sizes \subseteq Nat \ {0}
    /\ Width \in Nat \ {0} /\ HeapEnd \in Nat /\ MemoryEnd \in Nat
    /\ MaxCalls \in Nat
    /\ Untraced \subseteq {"START_MALLOCS_ADDR", "calloc", "realloc"}
    /\ Races \subseteq {"lookup", "count", "request"}
    /\ {None, Image} \cap Nat = {} /\ None # Image

VARIABLES
    pc, arg,              \* where thread t is, and with what size or address
    lock,                 \* the PIN lock
    memory_map,           \* start -> size of every region ever entered
    memory_map_state,     \* start -> "GLOBAL", "ALLOCATED" or "DELETED"
    memory_req_state,     \* uid -> "REQUEST" or "NONE" (partial)
    mem_asked,            \* uid -> size of the malloc under way (partial)
    calls,                \* how often the program has asked for memory
    live,                 \* the allocator's blocks: start -> size
    untraced,             \* history: starts got or given up without a request
    missed,               \* history: why the access just made has no row
    torn                  \* history: the races that some use has lost

maps == <<memory_map, memory_map_state, memory_req_state, mem_asked>>
vars == <<pc, arg, lock, maps, calls, live, untraced, missed, torn>>

Span(b, size) == b .. b + size - 1
Put(f, k, v) == [x \in DOMAIN f \cup {k} |-> IF x = k THEN v ELSE f[x]]
Without(f, k) == [x \in DOMAIN f \ {k} |-> f[x]]

\* What an unsigned int holds of a size, and the 0 of a request that is over.
AskedSizes == {s % Width : s \in Sizes} \cup {0}

TypeOK ==
    /\ pc \in [Threads -> {"running", "MallocBefore", "MallocBeforeStart", "allocating",
                           "allocatingStart", "MallocAfter", "record", "FreeBefore",
                           "known", "unknown", "freeing"}]
    /\ arg \in [Threads -> Starts \cup Sizes \cup {None}]
    /\ lock \in Threads \cup {None}
    /\ DOMAIN memory_map = DOMAIN Globals \cup (DOMAIN memory_map \cap Starts)
    /\ DOMAIN memory_map_state = DOMAIN memory_map
    /\ \A b \in DOMAIN memory_map \ DOMAIN Globals : memory_map[b] \in AskedSizes
    /\ DOMAIN memory_req_state \subseteq Threads /\ DOMAIN mem_asked \subseteq Threads
    /\ \A t \in DOMAIN mem_asked : mem_asked[t] \in AskedSizes
    /\ DOMAIN live \subseteq Starts /\ \A b \in DOMAIN live : live[b] \in Sizes
    /\ calls \in 0 .. MaxCalls /\ untraced \subseteq Starts /\ torn \subseteq Races

Init ==
    /\ pc = [t \in Threads |-> "running"]
    /\ arg = [t \in Threads |-> None]
    /\ lock = None
    /\ memory_map = Globals
    /\ memory_map_state = [g \in DOMAIN Globals |-> "GLOBAL"]
    /\ memory_req_state = [t \in {} |-> "NONE"]
    /\ mem_asked = [t \in {} |-> 0]
    /\ calls = 0
    /\ live = [b \in {} |-> 0]
    /\ untraced = {}
    /\ missed = None
    /\ torn = {}

Goto(t, l) == pc' = [pc EXCEPT ![t] = l]
With(t, x) == arg' = [arg EXCEPT ![t] = x]

-----------------------------------------------------------------------------
(* binary_search(memory_map.begin(), memory_map.end(), addr, CompareAddr()) *)

Regions(map) ==
    CHOOSE key \in SetToSeqs(DOMAIN map) : \A m, n \in DOMAIN key : m < n => key[m] < key[n]

\* Mutant: regions are compared by their starts alone.
RegionBeforeByStart(map, b, addr) == b < addr

\* CompareAddr: a region lies before an address when it ends before it; the
\* address just after the region still counts as in it.
RegionBefore(map, b, addr) == b + map[b] < addr

\* Positions, from the first on, of as many of n regions as len says.
Ranges(n) == {p \in (1 .. n + 1) \X (0 .. n) : p[1] + p[2] <= n + 1}

\* std::lower_bound on a range of the regions, which the search halves.
LowerBound(map, key, addr) ==
    LET lb[p \in Ranges(Len(key))] ==
            LET half == p[2] \div 2
            IN IF p[2] = 0 THEN p[1]
               ELSE IF RegionBefore(map, key[p[1] + half], addr)
               THEN lb[<<p[1] + half + 1, p[2] - half - 1>>]
               ELSE lb[<<p[1], half>>]
    IN lb[<<1, Len(key)>>]

\* Mutant: an address equal to the start found is taken to lie before it.
BinarySearchStrict(map, addr) ==
    LET key == Regions(map)
        i == LowerBound(map, key, addr)
    IN i <= Len(key) /\ key[i] < addr

\* Mutant: std::lower_bound without the comparison that follows it.
BinarySearchUnchecked(map, addr) ==
    LET key == Regions(map) IN LowerBound(map, key, addr) <= Len(key)

BinarySearch(map, addr) ==
    LET key == Regions(map)
        i == LowerBound(map, key, addr)
    IN i <= Len(key) /\ ~(addr < key[i])

-----------------------------------------------------------------------------
(* Uses of a map without the lock. *)

\* Thread u is about to add a node to the map behind race: MallocAfter's
\* memory_req_state[uid] adds the key, without the lock, when it is not there.
Inserts(u, race) ==
    IF race = "request"
    THEN /\ u \notin DOMAIN memory_req_state
         /\ pc[u] = "MallocAfter" \/ (pc[u] = "MallocBefore" /\ lock = u)
    ELSE pc[u] = "record" /\ lock = u /\ arg[u] \notin DOMAIN memory_map

\* Thread t's use of the map says said where an atomic one gives the answer:
\* with an insertion under way it may miss a key that is there, but it
\* compares keys and finds none that is not.
Says(t, race, said, answer) ==
    /\ said # answer => /\ ~said /\ race \in Races
                        /\ \E u \in Threads \ {t} : Inserts(u, race)
    /\ torn' = IF said = answer THEN torn ELSE torn \cup {race}

-----------------------------------------------------------------------------
(* The traced program and the allocator (external). *)

\* The blocks malloc has returned and nobody has begun to free.
Usable == {b \in DOMAIN live :
             \A t \in Threads : arg[t] = b =>
                 pc[t] \notin {"MallocAfter", "record", "FreeBefore", "known", "unknown",
                              "freeing"}}

\* A call of malloc, or of the malloc that lies at START_MALLOCS_ADDR.
CallMalloc(t) ==
    /\ pc[t] = "running"
    /\ \E s \in Sizes : With(t, s)
    /\ \/ Goto(t, "MallocBefore")
       \/ "START_MALLOCS_ADDR" \in Untraced /\ Goto(t, "MallocBeforeStart")
    /\ missed' = None
    /\ calls < MaxCalls /\ calls' = calls + 1
    /\ UNCHANGED <<lock, maps, live, untraced, torn>>

\* A block of size s at b overlaps no other.
Fits(blocks, b, s) ==
    /\ b + s <= HeapEnd
    /\ \A c \in DOMAIN blocks : Span(b, s) \cap Span(c, blocks[c]) = {}

\* malloc returns a new block or NULL.
Allocate(t) ==
    /\ pc[t] \in {"allocating", "allocatingStart"}
    /\ \/ With(t, None) /\ UNCHANGED <<live, untraced>>
       \/ \E b \in Starts :
            /\ Fits(live, b, arg[t])
            /\ live' = Put(live, b, arg[t])
            /\ With(t, b)
            /\ untraced' = IF pc[t] = "allocating" THEN untraced \ {b} ELSE untraced \cup {b}
    /\ Goto(t, "MallocAfter")
    /\ missed' = None
    /\ UNCHANGED <<lock, maps, torn, calls>>

\* calloc is not instrumented: the block is there and no callback runs.
Calloc(t) ==
    /\ "calloc" \in Untraced
    /\ pc[t] = "running"
    /\ \E b \in Starts, s \in Sizes :
         /\ Fits(live, b, s)
         /\ live' = Put(live, b, s)
         /\ untraced' = untraced \cup {b}
    /\ missed' = None
    /\ calls < MaxCalls /\ calls' = calls + 1
    /\ UNCHANGED <<pc, arg, lock, maps, torn>>

\* Nor is realloc: a block changes its size, and its place if need be.
Realloc(t) ==
    /\ "realloc" \in Untraced
    /\ pc[t] = "running"
    /\ \E b \in Usable, c \in Starts, s \in Sizes :
         /\ Fits(Without(live, b), c, s)
         /\ live' = Put(Without(live, b), c, s)
         /\ untraced' = untraced \cup {b, c}
    /\ missed' = None
    /\ calls < MaxCalls /\ calls' = calls + 1
    /\ UNCHANGED <<pc, arg, lock, maps, torn>>

CallFree(t) ==
    /\ pc[t] = "running"
    /\ \E b \in Usable : With(t, b)
    /\ Goto(t, "FreeBefore")
    /\ missed' = None
    /\ UNCHANGED <<lock, maps, live, untraced, torn, calls>>

Deallocate(t) ==
    /\ pc[t] = "freeing"
    /\ live' = Without(live, arg[t])
    /\ untraced' = untraced \ {arg[t]}
    /\ With(t, None)
    /\ Goto(t, "running")
    /\ missed' = None
    /\ UNCHANGED <<lock, maps, torn, calls>>

Shared == (UNION {Span(b, live[b]) : b \in Usable})
          \cup (UNION {Span(g, Globals[g]) : g \in DOMAIN Globals})

-----------------------------------------------------------------------------
(* The callbacks. *)

\* The tests at the head of RecordMemRead and RecordMemWrite, in this order:
\* the address must be found, the instruction be one of the main executable.
Access(t) ==
    /\ pc[t] = "running"
    /\ \E a \in Shared, main \in BOOLEAN, found \in BOOLEAN :
         /\ Says(t, "lookup", found, BinarySearch(memory_map, a))
         /\ missed' = IF ~found THEN a ELSE IF ~main THEN Image ELSE None
    /\ UNCHANGED <<pc, arg, lock, maps, live, untraced, calls>>

\* PIN_GetLock in MallocBefore, MallocAfter and FreeBefore.
Enter(t) ==
    /\ pc[t] \in {"MallocBefore", "record", "known", "unknown"}
    /\ lock = None
    /\ lock' = t
    /\ missed' = None
    /\ UNCHANGED <<pc, arg, maps, live, untraced, torn, calls>>

\* PIN_ReleaseLock.
Leave(t, l) == lock = t /\ lock' = None /\ Goto(t, l)

\* Mutant: one mem_asked for all threads.
MallocBeforeShared(t) ==
    /\ pc[t] = "MallocBefore"
    /\ memory_req_state' = Put(memory_req_state, t, "REQUEST")
    /\ mem_asked' = [u \in Threads |-> arg[t] % Width]
    /\ Leave(t, "allocating")
    /\ missed' = None
    /\ UNCHANGED <<arg, memory_map, memory_map_state, live, untraced, torn, calls>>

\* At START_MALLOCS_ADDR nothing is noted; elsewhere the request is, and its
\* size as an unsigned int.  The node of a first request may be lost to an
\* insertion without the lock.
MallocBefore(t) ==
    /\ \/ /\ pc[t] = "MallocBeforeStart"
          /\ Goto(t, "allocatingStart")
          /\ UNCHANGED <<lock, memory_req_state, mem_asked, torn>>
       \/ /\ pc[t] = "MallocBefore"
          /\ \E kept \in BOOLEAN :
               /\ t \in DOMAIN memory_req_state => kept
               /\ Says(t, "request", kept, TRUE)
               /\ memory_req_state' = IF kept THEN Put(memory_req_state, t, "REQUEST")
                                      ELSE memory_req_state
          /\ mem_asked' = Put(mem_asked, t, arg[t] % Width)
          /\ Leave(t, "allocating")
    /\ missed' = None
    /\ UNCHANGED <<arg, memory_map, memory_map_state, live, untraced, calls>>

Requested(t) == t \in DOMAIN memory_req_state /\ memory_req_state[t] = "REQUEST"

\* Mutant: a NULL return is recorded like any other.
CheckRequestOnly(t) ==
    /\ pc[t] = "MallocAfter"
    /\ Requested(t)
    /\ Goto(t, "record")
    /\ missed' = None
    /\ UNCHANGED <<arg, lock, maps, live, untraced, torn, calls>>

\* MallocAfter before its lock: the request is looked up, and there is one
\* (NONE) afterwards.  A NULL return clears the size but leaves the request
\* standing; the next block that is got at START_MALLOCS_ADDR then meets it.
CheckRequest(t) ==
    /\ pc[t] = "MallocAfter"
    /\ \E requested \in BOOLEAN :
         /\ Says(t, "request", requested, Requested(t))
         /\ mem_asked' = IF requested /\ arg[t] = None THEN Put(mem_asked, t, 0)
                                                       ELSE mem_asked
         /\ IF requested /\ arg[t] # None
            THEN Goto(t, "record") /\ UNCHANGED arg
            ELSE Goto(t, "running") /\ With(t, None)
    /\ memory_req_state' = IF t \in DOMAIN memory_req_state THEN memory_req_state
                           ELSE Put(memory_req_state, t, "NONE")
    /\ missed' = None
    /\ UNCHANGED <<lock, memory_map, memory_map_state, live, untraced, calls>>

MallocAfter(t) ==
    /\ pc[t] = "record"
    /\ memory_map' = Put(memory_map, arg[t], mem_asked[t])
    /\ memory_map_state' = Put(memory_map_state, arg[t], "ALLOCATED")
    /\ memory_req_state' = Put(memory_req_state, t, "NONE")
    /\ mem_asked' = Put(mem_asked, t, 0)
    /\ Leave(t, "running")
    /\ With(t, None)
    /\ missed' = None
    /\ UNCHANGED <<live, untraced, torn, calls>>

\* FreeBefore before its lock: memory_map.count(param).
CountRegion(t) ==
    /\ pc[t] = "FreeBefore"
    /\ \E known \in BOOLEAN :
         /\ Says(t, "count", known, arg[t] \in DOMAIN memory_map)
         /\ Goto(t, IF known THEN "known" ELSE "unknown")
    /\ missed' = None
    /\ UNCHANGED <<arg, lock, maps, live, untraced, calls>>

\* Mutant: the test on the count is inverted.
FreeBeforeInverted(t) ==
    /\ pc[t] \in {"known", "unknown"}
    /\ memory_map_state' = IF pc[t] = "known" THEN memory_map_state
                           ELSE Put(memory_map_state, arg[t], "DELETED")
    /\ Leave(t, "freeing")
    /\ missed' = None
    /\ UNCHANGED <<arg, memory_map, memory_req_state, mem_asked, live, untraced, torn, calls>>

FreeBefore(t) ==
    /\ pc[t] \in {"known", "unknown"}
    /\ memory_map_state' = IF pc[t] = "known"
                           THEN Put(memory_map_state, arg[t], "DELETED")
                           ELSE memory_map_state
    /\ Leave(t, "freeing")
    /\ missed' = None
    /\ UNCHANGED <<arg, memory_map, memory_req_state, mem_asked, live, untraced, torn, calls>>

Next ==
    \E t \in Threads :
        \/ CallMalloc(t)   \/ Allocate(t)    \/ Calloc(t)      \/ Realloc(t)
        \/ CallFree(t)     \/ Deallocate(t)  \/ Access(t)      \/ Enter(t)
        \/ MallocBefore(t) \/ CheckRequest(t) \/ MallocAfter(t)
        \/ CountRegion(t)  \/ FreeBefore(t)

Spec == Init /\ [][Next]_vars

-----------------------------------------------------------------------------
(* Properties. *)

\* The map knows every block the program has got by a request and may use, as
\* allocated and with its size, cut to an unsigned int: a request is matched
\* with the return value of the same thread's malloc, and neither a late free
\* nor a request left behind by a failed malloc spoils the block's entry.
\* Only a request that has met another thread's insertion is lost.
LiveBlockIsAllocated ==
    "request" \notin torn => \A b \in Usable \ untraced :
        /\ b \in DOMAIN memory_map
        /\ memory_map[b] = live[b] % Width
        /\ memory_map_state[b] = "ALLOCATED"

\* racedet.mem says "not freed" only of blocks that are not, unless realloc has
\* given the block up, or a free has counted the region while another thread
\* inserted one.
FreedIsDeleted ==
    "count" \notin torn => \A b \in DOMAIN memory_map \ untraced :
        memory_map_state[b] = "ALLOCATED" => b \in DOMAIN live

\* Without the knob -am, every access of the main executable to a global or to
\* the heap is recorded.
SharedAccessRecorded == missed \in {None, Image}

\* Why the search does not find a word of the block b: it has no region of its
\* own size, or a stale region lies inside it and ends before the word, so
\* that the search, which takes regions to be in order, goes past the block.
Hidden(b, addr) ==
    \/ b \in untraced
    \/ live[b] >= Width
    \/ \E c \in DOMAIN memory_map \ DOMAIN live : b < c /\ c + memory_map[c] < addr

\* An access to a word the program may use has no row only when its instruction
\* is not in the main executable, when the search, or the look-up of a request
\* before it, met the insertion of another thread, or when the word's block
\* hides it.  A word of a global is never missed for the blocks' sake.
MissExplained ==
    missed \notin {None, Image} =>
        \/ torn \cap {"lookup", "request"} # {}
        \/ \E b \in Usable : missed \in Span(b, live[b]) /\ Hidden(b, missed)

\* The search finds the start of every region ever entered, although stale
\* regions may overlap and the regions are then not ordered as it assumes.
StartAlwaysFound == \A b \in DOMAIN memory_map : BinarySearch(memory_map, b)

\* What the search finds is in some region, or the word just after its end
\* (CompareAddr compares with <): never in the gap between two regions.
FoundIsInRegion ==
    \A a \in 0 .. MemoryEnd :
        BinarySearch(memory_map, a) =>
            \E b \in DOMAIN memory_map : b <= a /\ a <= b + memory_map[b]

-----------------------------------------------------------------------------
(* The invariant the proofs go by induction on (MemoryMapProofs). *)

\* Where a thread has a block of its own, and where its size.
Holding == {"MallocAfter", "record", "FreeBefore", "known", "unknown", "freeing"}
Sizing  == {"MallocBefore", "MallocBeforeStart", "allocating", "allocatingStart"}

\* The request of t is noted, for a block of the given size.
Noted(t, size) == Requested(t) /\ mem_asked[t] = size % Width

\* The block a thread has got from malloc or is about to free is live and no
\* other thread's; the size it has noted, if it has, is the block's; and what
\* it has read of the maps before the lock still holds when it has the lock.
BlockInv ==
    \A t \in Threads :
        /\ pc[t] \in Sizing => arg[t] \in Sizes
        /\ pc[t] \in Holding => \/ arg[t] \in DOMAIN live
                                \/ pc[t] = "MallocAfter" /\ arg[t] = None
        /\ \A u \in Threads \ {t} :
               pc[t] \in Holding /\ pc[u] \in Holding /\ arg[t] # None => arg[t] # arg[u]
        /\ (Requested(t) \/ pc[t] = "record") => t \in DOMAIN mem_asked
        /\ "request" \notin torn =>
               /\ pc[t] = "allocating" => Noted(t, arg[t])
               /\ pc[t] \in {"MallocAfter", "record"} /\ arg[t] \in DOMAIN live \ untraced
                  => Noted(t, live[arg[t]])
        /\ pc[t] = "known" => arg[t] \in DOMAIN memory_map
        /\ "count" \notin torn =>
               /\ pc[t] = "unknown" => arg[t] \notin DOMAIN memory_map
               /\ pc[t] = "freeing" /\ arg[t] \in DOMAIN memory_map
                  => memory_map_state[arg[t]] = "DELETED"

\* No two blocks overlap.
Disjoint ==
    \A b, c \in DOMAIN live : b # c => Span(b, live[b]) \cap Span(c, live[c]) = {}
=============================================================================
