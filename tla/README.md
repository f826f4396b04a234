# A formal model of pthreads-race-detector

The tool finds data races in Pthreads programs in two stages. A Pin tool
(`instrumenter/racedet.cpp`) runs inside the traced program and writes
`racedet.trace`, one row per memory access, mutex call, malloc, free, thread
start and thread end. A Python program (`analyzer/analyzer.py`) reads the
trace row by row and confirms suspicious interleavings; a second one
(`analyzer/grapher.py`) explains one of them. This directory models the two
stages, the trace between them and the reports and pictures at the end, checks
the models with TLC and proves what matters most with TLAPS.

All line numbers are those of the source files named.

## Inventory

| component | state | operations | modelled in |
|---|---|---|---|
| Recorder callbacks (`racedet.cpp` 259-763, inserted by 547-581 and 888-987) | the PIN lock, `timestamp`, `out`, `pthreads_lock_refs` | `ThreadStart`, `ThreadFini`, `LockBefore`, `LockAfter`, `UnlockBefore`, `RecordMemRead`, `RecordMemWrite`, the rows of `MallocAfter`, `FreeBefore` | `Recorder` |
| The trace | the rows written so far | one more row | `TraceGrammar`, `TraceSpec` (abstract) |
| Memory map (`racedet.cpp` 48-77, 348-363, 448-460, 782-881, 899-930, 1095-1125) | `memory_map`, `memory_map_state`, `memory_req_state`, `mem_asked` | `MallocBefore`, `MallocAfter`, `FreeBefore`, `read_symbol_list`, the search and the test of the image | `MemoryMap` |
| Analyzer loop (`analyzer.py` 52-454) | `threads[t]["lock"]` and its two parallel lists, `access`, `threadpairs` | one iteration per row | `Analyzer`, run by `Analysis` |
| Reports (`analyzer.py` 254-439, 456-724) | the four dictionaries of confirmed issues | counting, sorting, numbering, CSV, TXT | `Report` |
| Execution graphs and interleavings, knob -g (`racedet.cpp` 132-247 and the `generate_graph` branches, `comm_graph.cpp`) | `table`, `idioms`, `interleavings`, `thread_graphs`, `thread_state` | `graph_create`, `add_node`, `add_edge`, `find_idiom`, `add_idiom`, saving a graph | `Interleavings` |
| Explainer, grapher (`grapher.py`) | `starts`, `ends`, `recording`, the lock lists, `graph`, `graph_last_state`, `transitions`, `interleavings`, `access`, `nolock` | reading the window, drawing it | `Explainer` |
| `find_unsynch_accesses` (`analyzer.py` 728-915) | - | nothing calls it | no |
| Command lines, `Fini`, `file_hash`, lock function table, vendored FNV hash, test programs | - | file input and output, constants | no |

How they interact. Pin calls the recorder's callbacks on the threads of the
traced program, before and after two functions of libpthread, around malloc,
before free, and before every instruction that touches memory. The callbacks
share everything under one PIN lock, but several reads are outside it. The
rows are read back in the order they were written; the analyzer relies on that
order, on the get and unlock rows of each thread matching, and on nothing else.
It writes its issues twice, as a text for the reader and as a table for
`grapher.py`, which is given a number from the text, looks it up in the table
and reads the trace again. With -g the recorder also draws, while the program
runs, one graph per thread and the interleavings it sees through a table with
one access per slot.

What is hard here:

* rows and the operations they stand for are not atomic: an access row is
  written before the access, a `@get` row after the acquisition, an unlock row
  before the release, and other threads run in between;
* `LockAfter` does not see the mutex; it finds it in a map filled by
  `LockBefore` before the thread blocked;
* Pthreads functions nobody instrumented (`pthread_mutex_trylock`,
  `pthread_cond_wait`, which `Test3/pi.c:47` uses) change owners without a row;
* the memory map is searched and tested without the lock, keeps freed regions
  and is searched by an order that overlapping regions do not have; it holds
  sizes of 64 bits in 32, and does not see every way to get or move a block;
* with -g a slot of the table is shared by addresses and not updated by the
  thread that is in it, and a graph is saved after the lock is given back;
* the explainer starts and stops on exact timestamps of windows that overlap,
  keeps its tables over the gaps between them, and uses one record for all
  threads without a mutex;
* the analyzer has a window, exits in the middle of a trace, compares only
  innermost mutexes, and leaves an iteration early in six places, with stale
  data in its tables.

`PROJECT.json` lists each hazard at its line with the properties that watch it.

## Modules

### TraceGrammar and TraceSpec: what a trace promises

`TraceGrammar` says which row may come next: a thread starts once, requests a
mutex, gets it when no thread holds it, unlocks only what it holds, and
touches a guarded variable only while it holds the guards (`Follows`).
`TraceSpec` adds increasing timestamps and is the abstract specification of
the recorder. Nothing in them is translated from code: they are the contract.

### Recorder: who writes the rows

A thread's `pc` is either a point of the program or the callback it is about to
run. A callback is two steps: `Enter` takes the PIN lock, counts the timestamp
up and takes `LockBefore`'s note; the action named after the callback writes
the row and gives the lock back. `Discard` is the early return of the access
callbacks (the address is in no known region, the instruction not in the main
image): which instructions pass is the constant `Recorded`. The heap callbacks
appear here with their rows and timestamps; which of them find a region to
speak of is `MemoryMap`'s matter, so `FreeBefore` may write its row or, for an
unknown region, none (`FreeUnknown`). A `malloc` that fails and `MallocBefore`
touch nothing of this module and are not actions of it. The program's own
steps (`ProgramStep`) are external: mutexes that behave as POSIX says, guards
it respects, and, by `Features`, nesting, `pthread_mutex_trylock`,
`pthread_cond_wait` and lock calls that fail. `held`, `stamp` and `executed`
are history variables that the properties compare with the program's state.

### MemoryMap: what counts as globals and heap

One action per callback, with the part of `MallocAfter` and of `FreeBefore`
that runs before the lock as a step of its own (`CheckRequest`,
`CountRegion`). `MallocBefore` has both its branches: a call from
`START_MALLOCS_ADDR` notes nothing (826-828), any other notes a request and its
size, cut to an unsigned int (`Width` is 2^32 of the code; 54, 58, 833). A
`malloc` that fails leaves its request standing with size 0, and `MallocAfter`
of a later call without a request of its own is matched with it. `Access` is
the head of `RecordMemRead` and `RecordMemWrite`: the search, and then the test
whether the instruction is in the main executable (359-363, 456-460); `missed`
says which of the two let the access go. The search is `std::binary_search` as
the library does it: `Regions` lists the starts in order and `LowerBound` halves
a range of them with `CompareAddr`, as a recursive function on positions and
lengths of ranges. The symbol list names finitely many globals
(`MemoryMapAssumption`).

The allocator is external: it returns any free place of `Starts`, or NULL.
`calloc` and `realloc` are not instrumented (899-930), so they change the
program's blocks and nothing of the tool; they and `START_MALLOCS_ADDR` are the
three ways of `Untraced`, and `untraced` collects the places they have touched.
An unlocked use of a map named in `Races` that meets the insertion of another
thread may miss a key that is there, or lose the one it adds (`Says`); it finds
none that is not, for it compares keys. What an unsynchronised use of a
`std::map` may do beyond that (follow a pointer just freed) is not modelled.
`missed`, `untraced` and `torn` are history variables: the properties say what
holds unless a use was torn or a block was got without a request.

### Analyzer and Analysis: what is concluded

`Analyzer` is one iteration of the loop of `validate_ax_bx`: the lock lists
(`TrackLocks`), the end on an unmatched unlock (`Abort`: a NameError, as the messages name
undefined variables, or the exit behind it; both without a report), the window (`BeforeWindow`, `EndWindow`),
and the idioms with their four types of issue (`Reports`). The three parallel
lists of a thread are one sequence of pairs (address, instruction of the get).
Every name of a lock function but the Pthreads ones is left out (the recorder
writes no others). The text printed is left out;
`found` holds the issues confirmed on the last row, which `Report` counts. The `continue` statements
are `Skips`: nothing of the iteration is stored. The exception that ends the run
when a source file cannot be opened for quoting (`get_line`) is not modelled.

`Analysis` feeds it every trace `TraceGrammar` allows, one row at a time, with
any window and any point at which the timeout strikes. With `Untraced` the
program also takes mutexes by uninstrumented calls, which shows as `Strays`.

### Report: what is written

`Report` extends `Analysis`: every row read gets a timestamp, and the issues it
raises are counted in `confirmed`, keyed as the code keys them (`Heading`) with
the accesses the code stores (`Stored`) - for type 1 not the same idiom. The
analyzer may stop before the end of the file, by its timeout or at -e; up to
`MaxUnread` rows may lie behind (`Unread`), for the tools that read the file
after it. When the loop has ended, `WriteCsv` writes the table, one dictionary
after the other, each sorted by count with a stable sort (`Precedes`,
`Listings`), and `WriteText` sorts them again for the text. The order in which
Python lists a dictionary's values is any (`place`), but the same in both
passes, as the dictionaries are not changed in between. That the two reports
then agree is a fact about stable sorts and not a property checked here; each is
compared with the trace (`EveryIssueCounted`). Quirks kept: issues of types 2
and 4 that differ in Cx or Dx alone share a row (`EveryIssueCounted` says so),
Cy may precede Bx (`InOrder`).

### Explainer: what is drawn

`Explainer` extends `Report`: after the reports are written, `grapher.py` is
called, for any issue and any of `Windows` (-b, -a), or for the whole trace from
a timestamp (-s). `Explain` and `Graph` are one iteration of the two loops,
with the same lock lists as the analyzer's (`Drawing == INSTANCE Analyzer WITH
locks <- mutexes`); `ExitExplainer` is the exit on an unlock row without a get
row (456-497), which happens behind the last row the analyzer has read.
`Starts` takes the times of the issue's accesses once each, in ascending order.
The properties speak of the rows drawn by their places in the trace (`DrawnOf`
a thread, `Neighbours` on an address, the `Innermost` mutex at a row) and not
of the explainer's tables. `NoneAssumption` says that `None` is told from rows
and states. A node is a state, a row without its timestamp; source positions
are functions of the instruction. `Write` may come after any row: at the end of
the trace, by the timeout or at -e.

What the windows draw is stated by three properties, after src/README.md:96 and
101. `BeforeShown` (what led up to an access is drawn) holds for the types 0
and 1; `ContextShown` (AFTER events behind it as well) is violated by a row;
`IssueShown` (the accesses themselves) fails for types 2 and 4. What they do
not promise, because the code does not do it:

* a window opens on the row with the very timestamp of its start: an access
  within the first BEFORE timestamps of the trace, or BEFORE after a timestamp
  that has no row, opens none (`BeforeShown` says so in its premise);
* nothing is said against drawing too much: for type 0 two zeros are appended
  for Cx and Dx (322-324), so the sorted starts tested at 332 are those zeros,
  the first window never closes, and all rows of the two threads between Ax and
  Bx are drawn.

Quirks kept, each visible in a property: a picture starts with a node for the
thread's innermost mutex (`PathExact`); edges join neighbours among the rows
drawn, also over a gap (`InterleavingsExact`); the one `nolock` record bears
the name of the last thread that used it (`EdgesJoinNodes`); `grapher` fails
with a KeyError on a thread with a single row and leaves every thread's first
row out of the edges between threads (`ExplainerNeverCrashes` is of the
explainer alone, `InterleavingsExact` of both).

### Interleavings: what -g records

The callbacks of `Recorder` once more, each one step (the PIN lock is held from
the timestamp to the last change), with what their `generate_graph` branches
do: `GraphStep` for the node and the edge, `ReadTakes` and `WriteTakes` for the
slot, `Follow` with `find_idiom` and `add_idiom`. `ThreadStart` takes two steps and
`SaveGraph` is one of its own, because `ThreadFini` saves after it has given
the lock back and may meet an insertion. `ThreadFini` hashes a label that is
not written yet: the model lets its node be any earlier one of the thread.
`Slot` is the mask on the address; the hash of a label is taken to tell labels
apart. A graph is its set of nodes and the cost of each edge; `GraphIsPath`
compares it with the path through the thread's rows (`States`), where the cost of
an edge is the number of its steps in the path.

### The proofs

`RecorderProofs`, `AnalysisProofs`, `MemoryMapProofs`, `ReportProofs`,
`ExplainerProofs` and `InterleavingsProofs` each extend the module they are
named after; `ReportProofs` extends `AnalysisProofs` too, and `ExplainerProofs`
extends `ReportProofs`, as the modules do. `LeastNumber` has the fact about
numbers that stands in for induction in two of them.

Operators named "Mutant" in a comment are faulty variants of the definition
they precede, kept to show that the properties notice such a fault.

## Runs

`tlc -config <cfg> <module>`; the cfg's name begins with the module's.
Deadlock is not checked: every system here ends (threads exit, the trace stops,
`MaxOps` is used up).

| cfg | question | result |
|---|---|---|
| `MCRecorder_nested` | two mutexes, nested, unlocked in any order; does the recorder implement `TraceSpec`? | holds, 2.4 million states |
| `MCRecorder_untraced` | uninstrumented and failing calls; do guarded accesses keep the order of their rows, does each acquisition get its row? | holds, 253 thousand states |
| `MCAnalysis_guarded` | one mutex, a guarded and an unguarded variable, a known issue | holds, 756 thousand states |
| `MCAnalysis_lone` | one thread with two mutexes, nested, unlocked in any order or taken without a row, another without; heap rows between | holds, 156 thousand states |
| `MCAnalysis_innermost` | `NoFalseMissingLock` with nesting | violated |
| `MCAnalysis_stale` | `MissingLockReported` with two write instructions and a lock | violated |
| `MCMemoryMap_mixed` | blocks of three sizes at two places, one too large for `Width`, got by a request or without, torn uses of the maps | holds, 455 thousand states |
| `MCMemoryMap_staleregion` | `SharedAccessRecorded` with a block over a smaller freed one; no torn uses, every block by a request | violated |
| `MCExplainer_explained` | traces of up to eight timestamps with a row behind the analyzer's last, their reports, and the picture of each issue | holds, 642 thousand states |
| `MCExplainer_context` | `ContextShown` for an issue with two accesses | violated |
| `MCExplainer_window` | `IssueShown` for an issue with four accesses | violated |
| `MCInterleavings` | three threads on two addresses that share a slot | holds, 1.4 million states |

What the violated runs show:

* **innermost**: two threads under the guard of a variable, one of them with
  another mutex nested inside: reported as a missing lock.
* **stale**: a skipped iteration does not store its access; the next access is
  compared with an older one, and an unprotected idiom goes by.
* **staleregion**: free leaves the region in the map. A block of one word is
  freed and a block of four is placed over it: the stale region now lies inside
  the live one and ends before most of its words. For such a word
  `binary_search` meets the stale region, goes past the block, and live words
  are taken for foreign memory.
* **context**: the row AFTER timestamps behind an access ends the recording
  before it is drawn (505-510, 512), so one event fewer is shown than
  src/README.md:101 says, and none with AFTER = 1.
* **window**: for types 2 and 4 `explainer` decides whether to close a window
  by its start instead of its access (the right tests stand commented out above
  the wrong ones). It closes one on the first row of the next, and the last
  access of the issue is not drawn.

And what the holding ones say that is not obvious:

* `MissExplained`: an access of the main executable to live memory is lost after
  a torn use of a map, or because its block was got without a request, is too
  large for an unsigned int or has a stale region inside it. Words of globals
  are never lost for the blocks' sake.
* `LiveBlockIsAllocated`: untraced calls, failed calls with their stale requests
  and frees under way do not spoil what a request has entered, the remainder
  of its size included.
* `ExitsUnread`: as far as the analyzer has read, the explainer's lists of mutexes
  never contradict it; it exits only behind.
* `UnlocksMatched` holds without `pthread_mutex_trylock` and
  `pthread_cond_wait` only: the unlock of a mutex taken by an uninstrumented
  call has no get row, and `StrayUnlockCaught` says that the analyzer then
  always exits. (`lock_functions.cpp` already names the functions.)
* `GuardedOrder`: rows are written before the accesses, so for unguarded
  variables, those the tool looks for, the order of the rows need not be that
  of the accesses; for guarded ones it is.
* `ReversalWitnessed`: a type 1 row prints the accesses of the earlier idiom
  under the ops of the later one's key, and still is of a real reversal.
* `OverwriteNoted` and `Witnessed` say how much -g sees: an overwrite of another
  thread's value is on the list, perhaps with an older access of that
  thread; a read after a write may be missing, when the write did not take the
  slot.

### Bounds and why they are enough

* Two threads show every race between two actors, and one pair of threads every
  history of a pair: histories of other pairs are kept apart (`PairCanonical`).
  The proofs do not depend on the number.
* `MCAnalysis_lone` lets one thread take mutexes: with two, the `continue` of
  four accesses under mutexes occurs and `MissingLockReported` fails
  (`MCAnalysis_stale`).
* `MaxOps` bounds the lock calls, instructions and heap calls a thread begins: 3 with two
  mutexes (nest two and touch, or unlock and relock), 2 elsewhere. An unlock
  needs no bound, as each follows a lock.
* The instructions are one that reads and writes the shared variable, a load,
  and one whose accesses are filtered out.
* The analyzer's state is finite without a bound: traces are unbounded. It sees
  one or two variables, and instructions numbered by what they do; two writes at
  different instructions (`TwoWrites`) make histories of types 2 and 4.
* `MaxCalls` bounds the calls for memory to three: enough to get, free and get
  again over it, or to fail one, leave the request standing and get a block
  at `START_MALLOCS_ADDR`. `Width` is 5 and the largest size 5, so that its remainder
  is 0. Two starts next to each other with sizes 1 and 4 let a live
  block and a stale region overlap both ways round; a third start or a fourth
  call adds no other order of two regions. The proofs do not depend on them.
* A trace of seven rows holds two threads' starts, an idiom, a second one that
  reverses it and rows between; in `MCExplainer_explained` there are eight
  timestamps, of which one may have no row, and one thread may also take a mutex
  or unlock one it took without a row. `MaxUnread` is 1: one row behind the
  analyzer's last is enough for an unlock that only the explainer reads. Issues of the types 0, 1
  and 4 occur; type 2 needs two write instructions and is in
  `MCExplainer_window` and `MCExplainer_context`.
  Windows of one row before and after, or two after, let the two windows
  overlap, touch and lie apart.
* `MaxRows` bounds the rows of `Interleavings` to seven: three starts and four
  accesses, or two threads with five. Addresses are two in one slot and one
  in another; the instructions a read and two writes.

### Fairness

Only `AcquisitionsRecorded` needs it: `WF_vars(ToolStep(t))` for every thread.
A thread inside a callback is scheduled by the operating system, and the PIN
lock is taken by a waiting thread when it stays free. The other threads make
finitely many rows under `MaxOps`; for an endless program the property rests on
the PIN lock being handed over fairly, for which the code does nothing. No fairness is assumed of the program: a mutex may never be given
back.

## Proofs

The theorems hold for any number of threads, mutexes, variables, instructions,
blocks, windows and rows, from the assumptions named in the modules
(`RecorderAssumption`, `AnalysisAssumption`, `MemoryMapAssumption`,
`ReportAssumption`, `ExplainerAssumption`, `NoneAssumption`,
`InterleavingsAssumption`: the shape of the constants) and, where said, from
`OnlyMutexLock` (no features but nesting), `~Nesting` or `LoneLocker`. Each
goes by an inductive invariant, named here with the reason it is needed; the
property itself is seldom inductive.

**Recorder**

* `TypeCorrect`, `StampsIncrease` and `GuardedAccessesInOrder` are for every
  program. `TypeOK` is not inductive: `LockAfter` writes what it finds in
  `pthreads_lock_refs`, so `CallbackInv` says that between `LockBefore` and
  `LockAfter` the note is the mutex asked for, and that the row under way has a
  timestamp larger than the last row's, which gives `StampOrder`. `GuardInv`
  says that a thread owns the guards of what it touches and that the variable
  was last executed before the row under way; two threads with an access under
  way to one guarded variable would both own the guard.
* `HeldIsOwned`, `UnlockRowsMatch` and `RecorderImplementsTrace` need
  `OnlyMutexLock` (the trylock run shows why). `MutexInv` names the two moments
  at which trace and program may disagree about an owner: from the acquisition
  to the `@get` row and from the unlock row to the release. The refinement
  proof shows that every `Callback` step is a `WriteRow` step and every other
  step leaves the abstract state alone.
* `CallbacksAgree` and `MutexesAgree` state these two invariants for
  themselves, as the runs check them.

**Memory map**

* `MapTyped`, `LiveBlocksKnown`, `FreedBlocksDeleted`: `BlockInv`, the block a
  thread has got from malloc or is about to free is live and no other thread's,
  the size noted for the thread is the block's (cut to an unsigned int) when
  it was asked for by a request that was kept, and what `FreeBefore` read
  before the lock still holds when it has the lock. It is needed because both
  theorems are about steps that act on what was read before the lock.
  `LiveBlocksKnown` then rests on a block becoming usable only when its own
  thread has recorded it, or by a way that puts it into `untraced`, and
  `FreedBlocksDeleted` on the region being marked before the block is given back.
* `StartsAreFound`, `FoundIsInside`, `MissesExplained` are about the search, over
  any number of regions that may overlap in any way. `RegionsSorted`: the list
  of starts exists and ascends. `LowerBoundStops`: wherever the halving stops,
  the region before the place lies before the address and the one at it does
  not, for both have been compared; that needs no order of the regions. An
  address is then found when every region below one around it lies before it and
  none above does, as for the start of a region and for a word of a global or
  of a block that hides nothing (`Hidden`). `MissesExplained` joins this to
  `LiveBlocksKnown`.

**Analyzer**

* `LocksViewed`: `ViewInv`, each thread's list has exactly the addresses the
  trace says it holds, each once; the lemmas `OpenedList` and `ClosedList` do
  the work on sequences. `WellFormedIsRead` and `StraysAreCaught` follow: an
  unlock row aborts exactly when nothing opened it.
* `OneHistory` and `ReversalsAreOfTwoThreads`: `NoteInv`, a history is kept
  under one of the two orders and is by these two threads.
* `AnalysisTyped`: `FoundInv`, an issue is made of accesses that were noted.
* `GuardedIsNotReported` and `NotedWithGuard` (under `~Nesting`): what is in the
  access table carries its guard as innermost mutex, whatever was skipped. With
  nesting the first is false (run `MCAnalysis_innermost`).
* `LoneLockerReported`: with no known issues and at most one thread that gets
  mutexes (`LoneLocker`, any number of threads without), `MissingLockReported`
  holds. The run `MCAnalysis_stale` refutes it in general by an iteration left
  for four accesses under mutexes; the proof shows that these iterations are all
  there is: without them the access table has the last access of every address
  (`RecentInv`).

**Reports**

The invariant follows an issue from the row that raised it to the reports.

* `StampsRise` and `NotedInv`: what the analyzer has noted are rows of the trace,
  and a history ends no later than what is noted on its address. `RaisedInv`: so
  are the accesses of an issue, and its two idioms are in order.
  `AccessesInOrder` and `ReversalsAreWitnessed` are read off that and off
  `CountInv`: an entry has the accesses of one issue raised under its heading.
* `IssuesAreCounted`, of both reports: `CountInv`, a dictionary has an entry for each heading of what
  was raised, with the number of issues under it. An issue is raised once:
  it ends at the row just read (`ReadRaises`) and no two of a row share a
  heading (`OneOfEach`).

**Explainer**

`ExplainerRefines`: drawing leaves the analyzer and its reports alone, so their
theorems hold here. Each table is then tied to the trace by places of rows.

* `PathsAreExact`: `ListInv`, the explainer's lists of mutexes are the get rows
  that are open where it reads (`OrderInv` is the order the analyzer has found
  in the whole trace), so the node a picture starts with is the innermost
  mutex; `PathInv`, a graph is the path through the rows drawn so far.
* `EdgesAreExact`: `WovenInv`, the edges between threads join the rows noted that
  come next to each other on an address, and the last of them is kept.
* `EdgesHaveNodes`, `ExplainerWrites`, `ExplainerTyped`: the same invariant, with
  `NodeInv` for the nodes and `nolock`. A thread that is drawn has an
  edge into its first row from the node of its mutex or of `no_lock`; that is
  why the explainer, unlike `grapher`, never fails on a single row.
* `WhatLedUpIsDrawn`: `WindowInv`, `recording` and `shown` are what the starts and the
  ends met so far leave: a row is recorded when it has a start at or before it
  and no end in between. For types 0 and 1 no end lies between the start before
  an access and the access. It is false for 2 and 4, whose windows are closed
  too early (run `MCExplainer_window`).
* `ExitsBehind`: in the part of the trace the analyzer has read every unlock row
  has an open get row, or it would not have reported; `ListInv` carries that to
  the explainer's lists.

**Execution graphs and interleavings**

* `GraphsArePaths` and `SavedGraphsWhole`: `GraphInv`, a thread's graph is the path
  of its rows and goes on from its last one. `PathGrows` counts the steps of the
  path, so that the costs of the edges are right as well as the edges. A save
  that meets another thread's insertion is the exception stated.
* `InterleavingsWitnessed`, `OverwritesNoted`: all a callback knows of the past is
  the entry of the slot. `EntryInv`: the entry stands for everything done to the
  slot since, which leaves only accesses of its own thread and reads after a
  read. `WriterInv`: the thread that has written last is the entry's, although
  the entry may be older than its last write.
* `EachPairOnce`, `InterleavingsTyped`: `ListInv`, the two lists go in step and
  name nodes.

### What stays with TLC

* `AcquisitionsRecorded`: liveness under fairness is out of the prover's reach. It
  is the only property of a passing run without a theorem.
* `NoFalseMissingLock` with nesting, `MissingLockReported` with two lockers,
  `SharedAccessRecorded`, `ContextShown` and `IssueShown` are false, and their runs show it.
* Induction on data. The induction theorems of the library take a predicate as a
  parameter, which the provers cannot instantiate. Where a proof needs
  induction over numbers or sequences (the search, the list of starts, the
  sorted times) it takes the least counterexample: `Least` in `LeastNumber`, a
  fact about sets. The recursive functions of the models can be proved about
  that way.
* That the interesting cases happen: the mutants named in `PROJECT.json` show
  it, no theorem does.

## Not modelled

* Source positions, file names and their hashes, everything printed, the
  quoting of source lines; the layout of all .dot files, the counts on the
  edges `grapher.py` draws and the clusters of its windows.
* The knob `-am` (record everything: `Recorded` is then all of the main image);
  the lock functions of other libraries the analyzer's lists name.
* The end of the program (`Fini` writes the files of the memory map, the
  sources and the lists of interleavings) and the reading of those files:
  input and output, one statement per column.
* `find_unsynch_accesses` (`analyzer.py` 728-915): nothing calls it.
* Collisions of the hash of a label in -g: two labels of one thread with one
  hash would share a node.
* A run that composes `Recorder` and `Analysis`: the recorder is shown to
  implement the grammar of traces (`RecorderImplementsTrace`) and the analysis
  reads every trace of that grammar, so the composition adds no behaviour.
