--------------------------- MODULE MemoryMapProofs ---------------------------
(***************************************************************************)
(* What MemoryMap promises for any number of threads, any globals, block    *)
(* sizes and addresses, whatever unlocked uses may be torn and whatever     *)
(* memory is got without a request: the map is well typed, and says of live *)
(* and of freed blocks what it should; and why an access has no row.        *)
(***************************************************************************)
EXTENDS MemoryMap, FiniteSetTheorems, LeastNumber, TLAPS

Inv == TypeOK /\ BlockInv

LEMMA InitInv == Init => Inv
<1> SUFFICES ASSUME Init PROVE Inv
  OBVIOUS
<1>1. TypeOK
  <2>1. /\ DOMAIN memory_req_state = {} /\ DOMAIN mem_asked = {} /\ DOMAIN live = {}
        /\ DOMAIN memory_map_state = DOMAIN Globals /\ memory_map = Globals
    BY DEF Init
  <2>2. calls \in 0 .. MaxCalls
    BY MemoryMapAssumption DEF Init
  <2> QED
    BY <2>1, <2>2 DEF Init, TypeOK
<1>2. BlockInv
  BY DEF Init, BlockInv, Holding, Sizing, Requested, Noted
<1> QED
  BY <1>1, <1>2 DEF Inv

LEMMA NoneIsNew == None \notin Starts /\ None \notin Sizes /\ Starts \cap DOMAIN Globals = {}
<1>1. Starts \subseteq Nat /\ Sizes \subseteq Nat /\ None \notin Nat
  BY MemoryMapAssumption
<1>2. ASSUME NEW g \in Starts, g \in DOMAIN Globals PROVE FALSE
  <2>1. /\ g \in Nat /\ HeapEnd \in Nat /\ g < HeapEnd /\ Globals[g] \in Nat /\ Globals[g] > 0
        /\ g + Globals[g] <= g \/ HeapEnd <= g
    BY <1>2, MemoryMapAssumption
  <2> QED
    BY <2>1
<1> QED
  BY <1>1, <1>2

LEMMA SizesPositive ==
  /\ Width \in Nat /\ Width > 0
  /\ \A s \in Sizes : s \in Nat /\ s > 0 /\ s % Width \in Nat
<1>1. Width \in Nat /\ Width > 0 /\ Sizes \subseteq Nat \ {0}
  BY MemoryMapAssumption
<1>2. ASSUME NEW s \in Sizes PROVE s \in Nat /\ s > 0 /\ s % Width \in Nat
  <2>1. s \in Nat /\ s > 0
    BY <1>1
  <2> QED
    BY <1>1, <2>1
<1> QED
  BY <1>1, <1>2

\* A thread past malloc's NULL test, or freeing, has a live block to itself.
LEMMA OwnBlock ==
  ASSUME Inv, NEW t \in Threads, pc[t] \in Holding \ {"MallocAfter"}
  PROVE  /\ arg[t] \in DOMAIN live /\ arg[t] \in Starts /\ arg[t] # None
         /\ \A u \in Threads \ {t} : pc[u] \in Holding => arg[u] # arg[t]
<1>1. arg[t] \in DOMAIN live
  BY DEF Inv, BlockInv
<1>2. arg[t] \in Starts
  BY <1>1 DEF Inv, TypeOK
<1>3. arg[t] # None
  BY <1>2, NoneIsNew
<1>4. \A u \in Threads \ {t} : pc[u] \in Holding => arg[u] # arg[t]
  BY <1>3 DEF Inv, BlockInv
<1> QED
  BY <1>1, <1>2, <1>3, <1>4

-----------------------------------------------------------------------------
(* The steps of the program and of the allocator. *)

\* A block that is usable is in no thread's hands.
LEMMA UsableFree ==
  ASSUME TypeOK, NEW b \in Usable, NEW t \in Threads, pc[t] \in Holding
  PROVE  b \in DOMAIN live /\ b \in Starts /\ arg[t] # b
  BY DEF Usable, Holding, TypeOK

LEMMA CallsInv ==
  ASSUME Inv, NEW t \in Threads, CallMalloc(t) \/ CallFree(t)
  PROVE  Inv'
<1> USE MemoryMapAssumption DEF Inv, TypeOK, BlockInv, Goto, With, maps, Requested, Noted
<1>1. CASE CallMalloc(t)
  BY <1>1 DEF CallMalloc, Holding, Sizing
<1>2. CASE CallFree(t)
  <2>1. PICK b \in Usable : arg' = [arg EXCEPT ![t] = b]
    BY <1>2 DEF CallFree
  <2>2. b \in DOMAIN live /\ b \in Starts
    BY <2>1 DEF Usable
  <2>3. \A u \in Threads : pc[u] \in Holding => arg[u] # b
    BY <2>1, UsableFree
  <2> QED
    BY <1>2, <2>1, <2>2, <2>3 DEF CallFree, Holding, Sizing
<1> QED
  BY <1>1, <1>2

\* A new block is none of those that are live.
LEMMA FreshBlock ==
  ASSUME NEW blocks, NEW b \in Starts, NEW s \in Sizes, Fits(blocks, b, s),
         \A c \in DOMAIN blocks : blocks[c] \in Sizes
  PROVE  b \notin DOMAIN blocks
<1> SUFFICES ASSUME b \in DOMAIN blocks PROVE FALSE
  OBVIOUS
<1>1. b \in Nat /\ s \in Nat /\ s > 0 /\ blocks[b] \in Nat /\ blocks[b] > 0
  <2>1. \A n \in Sizes : n \in Nat /\ n > 0
    BY MemoryMapAssumption
  <2>2. blocks[b] \in Sizes
    OBVIOUS
  <2>3. b \in Nat
    BY MemoryMapAssumption
  <2> QED
    BY <2>1, <2>2, <2>3
<1>2. ASSUME NEW n \in Nat, n > 0
      PROVE  b \in Span(b, n)
  <2>1. b <= b + n - 1
    BY <1>1, <1>2
  <2> QED
    BY <1>1, <1>2, <2>1 DEF Span
<1>3. b \in Span(b, s) \cap Span(b, blocks[b])
  BY <1>1, <1>2
<1> QED
  BY <1>3 DEF Fits

LEMMA AllocateInv ==
  ASSUME Inv, NEW t \in Threads, Allocate(t)
  PROVE  Inv'
<1> USE DEF Inv, TypeOK, BlockInv, Goto, With, maps, Requested, Noted
<1>1. arg[t] \in Sizes
  BY DEF Allocate, Sizing
<1>2. CASE With(t, None) /\ UNCHANGED <<live, untraced>>
  <2>1. \A u \in Threads \ {t} : arg[u] \in DOMAIN live => arg[u] # None
    BY NoneIsNew
  <2> QED
    BY <1>2, <2>1, NoneIsNew DEF Allocate, Holding, Sizing
<1>3. ASSUME NEW b \in Starts, Fits(live, b, arg[t]), live' = Put(live, b, arg[t]), With(t, b),
             untraced' = IF pc[t] = "allocating" THEN untraced \ {b} ELSE untraced \cup {b}
      PROVE  Inv'
  <2>1. b \notin DOMAIN live
    BY <1>1, <1>3, FreshBlock
  <2>2. /\ DOMAIN live' = DOMAIN live \cup {b} /\ live'[b] = arg[t]
        /\ \A c \in DOMAIN live : live'[c] = live[c]
    BY <1>3, <2>1 DEF Put
  <2>3. TypeOK'
    BY <1>1, <1>3, <2>2 DEF Allocate
  <2>4. \A u \in Threads : pc[u] \in Holding => arg[u] # b
    BY <2>1, NoneIsNew DEF Holding
  <2>5. BlockInv'
    BY <1>1, <1>3, <2>1, <2>2, <2>4, NoneIsNew DEF Allocate, Holding, Sizing
  <2> QED
    BY <2>3, <2>5
<1> QED
  BY <1>2, <1>3 DEF Allocate

\* What calloc and realloc do to the blocks: those in some thread's hands stay.
LEMMA UntracedStep ==
  ASSUME Inv, NEW t \in Threads, Calloc(t) \/ Realloc(t)
  PROVE  /\ DOMAIN live' \subseteq Starts /\ \A b \in DOMAIN live' : live'[b] \in Sizes
         /\ untraced' \subseteq Starts /\ untraced \subseteq untraced'
         /\ \A b \in Starts \ untraced' : b \in DOMAIN live <=> b \in DOMAIN live'
         /\ \A b \in Starts \ untraced' : b \in DOMAIN live => live'[b] = live[b]
         /\ \A u \in Threads : pc[u] \in Holding /\ arg[u] \in DOMAIN live =>
                /\ arg[u] \in DOMAIN live' /\ live'[arg[u]] = live[arg[u]]
                /\ arg[u] \in untraced' => arg[u] \in untraced
<1>1. CASE Calloc(t)
  <2>1. PICK b \in Starts, s \in Sizes : /\ Fits(live, b, s)
                                         /\ live' = Put(live, b, s)
                                         /\ untraced' = untraced \cup {b}
    BY <1>1 DEF Calloc
  <2>2. b \notin DOMAIN live
    BY <2>1, FreshBlock DEF Inv, TypeOK
  <2> QED
    BY <2>1, <2>2 DEF Put, Inv, TypeOK
<1>2. CASE Realloc(t)
  <2>1. PICK b \in Usable, c \in Starts, s \in Sizes :
             /\ Fits(Without(live, b), c, s)
             /\ live' = Put(Without(live, b), c, s)
             /\ untraced' = untraced \cup {b, c}
    BY <1>2 DEF Realloc
  <2>2. b \in DOMAIN live /\ b \in Starts
    BY <2>1 DEF Usable, Inv, TypeOK
  <2>3. /\ DOMAIN Without(live, b) = DOMAIN live \ {b}
        /\ \A d \in DOMAIN live \ {b} : Without(live, b)[d] = live[d]
    BY DEF Without
  <2>4. c \notin DOMAIN live \ {b}
    BY <2>1, <2>3, FreshBlock DEF Inv, TypeOK
  <2>5. /\ DOMAIN live' = (DOMAIN live \ {b}) \cup {c} /\ live'[c] = s
        /\ \A d \in DOMAIN live \ {b} : d # c => live'[d] = live[d]
    BY <2>1, <2>3 DEF Put
  <2>6. \A u \in Threads : pc[u] \in Holding => arg[u] # b
    BY <2>1, UsableFree DEF Inv
  <2> QED
    BY <2>1, <2>2, <2>4, <2>5, <2>6 DEF Inv, TypeOK
<1> QED
  BY <1>1, <1>2

LEMMA UntracedInv ==
  ASSUME Inv, NEW t \in Threads, Calloc(t) \/ Realloc(t)
  PROVE  Inv'
<1>1. /\ UNCHANGED <<pc, arg, lock, maps, torn>> /\ pc[t] = "running"
      /\ calls < MaxCalls /\ calls' = calls + 1
  BY DEF Calloc, Realloc
<1>2. TypeOK'
  BY <1>1, UntracedStep, MemoryMapAssumption DEF Inv, TypeOK, maps
<1>3. BlockInv'
  <2> SUFFICES ASSUME NEW u \in Threads PROVE BlockInv!(u)'
    BY DEF BlockInv
  <2>1. pc'[u] = pc[u] /\ arg'[u] = arg[u]
    BY <1>1
  <2>2. pc[u] \in Holding /\ arg[u] \in DOMAIN live =>
                /\ arg[u] \in DOMAIN live' /\ live'[arg[u]] = live[arg[u]]
                /\ arg[u] \in untraced' => arg[u] \in untraced
    BY UntracedStep
  <2>3. pc[u] \in {"MallocAfter", "record"} /\ arg[u] \in DOMAIN live' \ untraced'
        => arg[u] \in DOMAIN live \ untraced
    BY UntracedStep DEF Inv, TypeOK
  <2> QED
    BY <1>1, <2>1, <2>2, <2>3 DEF Inv, BlockInv, Requested, Noted, maps, Holding
<1> QED
  BY <1>2, <1>3 DEF Inv

LEMMA DeallocateInv ==
  ASSUME Inv, NEW t \in Threads, Deallocate(t)
  PROVE  Inv'
<1> USE DEF Inv, TypeOK, Goto, With, maps
<1>1. /\ DOMAIN live' = DOMAIN live \ {arg[t]}
      /\ \A c \in DOMAIN live' : live'[c] = live[c]
      /\ pc[t] = "freeing" /\ arg[t] \in DOMAIN live
      /\ untraced' = untraced \ {arg[t]}
  BY DEF Deallocate, BlockInv, Holding, Without
<1>2. TypeOK'
  BY <1>1 DEF Deallocate
<1>3. \A u \in Threads \ {t} : pc[u] \in Holding => arg[u] # arg[t]
  BY <1>1, OwnBlock DEF Holding
<1>4. BlockInv'
  BY <1>1, <1>3, NoneIsNew DEF Deallocate, BlockInv, Holding, Sizing, Requested, Noted
<1> QED
  BY <1>2, <1>4

-----------------------------------------------------------------------------
(* The steps of the callbacks. *)

LEMMA UnlockedInv ==
  ASSUME Inv, NEW t \in Threads, Access(t) \/ Enter(t) \/ CountRegion(t)
  PROVE  Inv'
<1> USE DEF Inv, TypeOK, BlockInv, Goto, With, maps, Requested, Noted
<1>1. CASE Access(t)
  BY <1>1 DEF Access, Says, Holding, Sizing
<1>2. CASE Enter(t)
  BY <1>2 DEF Enter, Holding, Sizing
<1>3. CASE CountRegion(t)
  BY <1>3 DEF CountRegion, Says, Holding, Sizing
<1> QED
  BY <1>1, <1>2, <1>3

\* What MallocAfter's look-up leaves of the requests and of the sizes.
LEMMA LookUp ==
  ASSUME Inv, NEW t \in Threads, CheckRequest(t)
  PROVE  /\ DOMAIN memory_req_state' = DOMAIN memory_req_state \cup {t}
         /\ \A u \in DOMAIN memory_req_state : memory_req_state'[u] = memory_req_state[u]
         /\ t \notin DOMAIN memory_req_state => memory_req_state'[t] = "NONE"
         /\ DOMAIN mem_asked' = DOMAIN mem_asked /\ \A u \in DOMAIN mem_asked : mem_asked'[u] \in AskedSizes
         /\ \A u \in DOMAIN mem_asked : u # t => mem_asked'[u] = mem_asked[u]
         /\ arg[t] # None => mem_asked' = mem_asked
         /\ torn \subseteq torn' /\ torn' \subseteq Races
         /\ UNCHANGED <<lock, memory_map, memory_map_state, live, untraced, calls>>
         /\ \/ /\ pc' = [pc EXCEPT ![t] = "record"] /\ UNCHANGED arg
               /\ arg[t] # None /\ Requested(t)
            \/ /\ pc' = [pc EXCEPT ![t] = "running"] /\ arg' = [arg EXCEPT ![t] = None]
               /\ "request" \notin torn' => ~Requested(t) \/ arg[t] = None
<1>1. PICK requested \in BOOLEAN :
        /\ Says(t, "request", requested, Requested(t))
        /\ mem_asked' = IF requested /\ arg[t] = None THEN Put(mem_asked, t, 0)
                                                       ELSE mem_asked
        /\ IF requested /\ arg[t] # None
           THEN Goto(t, "record") /\ UNCHANGED arg
           ELSE Goto(t, "running") /\ With(t, None)
  BY DEF CheckRequest
<1>2. requested => Requested(t)
  BY <1>1 DEF Says, Requested
<1>3. "request" \notin torn' => requested = Requested(t)
  BY <1>1 DEF Says
<1>4. /\ DOMAIN mem_asked' = DOMAIN mem_asked
      /\ \A u \in DOMAIN mem_asked : mem_asked'[u] \in AskedSizes
      /\ \A u \in DOMAIN mem_asked : u # t => mem_asked'[u] = mem_asked[u]
      /\ arg[t] # None => mem_asked' = mem_asked
  <2>1. requested => t \in DOMAIN mem_asked
    BY <1>2 DEF Inv, BlockInv
  <2> QED
    BY <1>1, <2>1 DEF Put, AskedSizes, Inv, TypeOK
<1>5. /\ DOMAIN memory_req_state' = DOMAIN memory_req_state \cup {t}
      /\ \A u \in DOMAIN memory_req_state : memory_req_state'[u] = memory_req_state[u]
      /\ t \notin DOMAIN memory_req_state => memory_req_state'[t] = "NONE"
  BY DEF CheckRequest, Put
<1>6. torn \subseteq torn' /\ torn' \subseteq Races
  BY <1>1 DEF Says, Inv, TypeOK
<1>7. UNCHANGED <<lock, memory_map, memory_map_state, live, untraced, calls>>
  BY DEF CheckRequest
<1> QED
  BY <1>1, <1>2, <1>3, <1>4, <1>5, <1>6, <1>7 DEF Goto, With

LEMMA CheckRequestInv ==
  ASSUME Inv, NEW t \in Threads, CheckRequest(t)
  PROVE  Inv'
<1>1. TypeOK'
  BY LookUp DEF Inv, TypeOK
<1>2. \A u \in Threads : Requested(u)' <=> Requested(u)
  BY LookUp DEF Requested
<1>3. \A u \in Threads \ {t} : /\ pc'[u] = pc[u] /\ arg'[u] = arg[u]
                               /\ u \in DOMAIN mem_asked => mem_asked'[u] = mem_asked[u]
  <2>1. PICK l \in {"record", "running"} : pc' = [pc EXCEPT ![t] = l]
    BY LookUp
  <2>2. arg' = arg \/ arg' = [arg EXCEPT ![t] = None]
    BY LookUp
  <2>3. \A u \in DOMAIN mem_asked : u # t => mem_asked'[u] = mem_asked[u]
    BY LookUp
  <2> QED
    BY <2>1, <2>2, <2>3 DEF Inv, TypeOK
<1>4. pc[t] = "MallocAfter"
  BY DEF CheckRequest
<1>5. BlockInv'
  <2> SUFFICES ASSUME NEW u \in Threads PROVE BlockInv!(u)'
    BY DEF BlockInv
  <2>1. CASE u # t
    <3>1. pc'[u] = pc[u] /\ arg'[u] = arg[u]
      BY <1>3, <2>1
    <3>2. \A size : Noted(u, size) => Noted(u, size)'
      BY <1>2, <1>3, <2>1 DEF Noted, Inv, BlockInv
    <3>3. \A v \in Threads \ {u} :
             pc'[u] \in Holding /\ pc'[v] \in Holding /\ arg'[u] # None => arg'[u] # arg'[v]
      <4>1. pc'[t] \in Holding => arg'[t] = arg[t]
        BY LookUp DEF Inv, TypeOK, Holding
      <4> QED
        BY <1>3, <1>4, <3>1, <4>1 DEF Inv, BlockInv, Holding
    <3> QED
      BY <1>2, <3>1, <3>2, <3>3, LookUp DEF Inv, BlockInv
  <2>2. CASE u = t /\ pc' = [pc EXCEPT ![t] = "record"] /\ UNCHANGED arg
    <3>1. pc'[t] = "record" /\ arg'[t] = arg[t] /\ arg[t] # None /\ Requested(t)
      BY <2>2, <1>4, LookUp DEF Inv, TypeOK
    <3>2. mem_asked' = mem_asked
      BY <3>1, LookUp
    <3>3. \A v \in Threads \ {t} :
             pc'[v] \in Holding => arg'[t] # arg'[v]
      BY <1>3, <1>4, <3>1 DEF Inv, BlockInv, Holding
    <3>4. arg'[t] \in DOMAIN live' /\ t \in DOMAIN mem_asked'
      BY <1>4, <3>1, <3>2, LookUp DEF Inv, BlockInv, Holding
    <3>5. ("request" \notin torn /\ arg[t] \in DOMAIN live \ untraced
           => Noted(t, live[arg[t]]))'
      <4>1. "request" \notin torn /\ arg[t] \in DOMAIN live \ untraced
            => Noted(t, live[arg[t]])
        BY <1>4 DEF Inv, BlockInv
      <4>2. live' = live /\ untraced' = untraced /\ torn \subseteq torn'
        BY LookUp
      <4> QED
        BY <1>2, <3>1, <3>2, <4>1, <4>2 DEF Noted
    <3> QED
      BY <2>2, <3>1, <3>3, <3>4, <3>5 DEF Holding, Sizing
  <2>3. CASE u = t /\ pc' = [pc EXCEPT ![t] = "running"] /\ arg' = [arg EXCEPT ![t] = None]
    <3>1. pc'[t] = "running"
      BY <2>3 DEF Inv, TypeOK
    <3>2. Requested(t)' => t \in DOMAIN mem_asked'
      BY <1>2, LookUp DEF Inv, BlockInv
    <3> QED
      BY <2>3, <3>1, <3>2 DEF Holding, Sizing
  <2> QED
    BY <2>1, <2>2, <2>3, LookUp
<1> QED
  BY <1>1, <1>5 DEF Inv

LEMMA MallocBeforeInv ==
  ASSUME Inv, NEW t \in Threads, MallocBefore(t)
  PROVE  Inv'
<1> USE DEF Inv, TypeOK, Goto, With, Leave
<1>1. CASE /\ pc[t] = "MallocBeforeStart" /\ Goto(t, "allocatingStart")
           /\ UNCHANGED <<lock, memory_req_state, mem_asked, torn>>
  BY <1>1 DEF MallocBefore, BlockInv, Holding, Sizing, Requested, Noted
<1>2. ASSUME pc[t] = "MallocBefore", NEW kept \in BOOLEAN, Says(t, "request", kept, TRUE),
             memory_req_state' = IF kept THEN Put(memory_req_state, t, "REQUEST")
                                 ELSE memory_req_state,
             mem_asked' = Put(mem_asked, t, arg[t] % Width), Leave(t, "allocating")
      PROVE  Inv'
  <2>1. /\ DOMAIN memory_req_state' \subseteq DOMAIN memory_req_state \cup {t}
        /\ \A u \in Threads \ {t} : Requested(u)' <=> Requested(u)
        /\ "request" \notin torn' => Requested(t)'
        /\ torn \subseteq torn' /\ torn' \subseteq Races
        /\ "count" \in torn <=> "count" \in torn'
    BY <1>2 DEF Put, Says, Requested
  <2>2. /\ DOMAIN mem_asked' = DOMAIN mem_asked \cup {t} /\ mem_asked'[t] = arg[t] % Width
        /\ \A u \in DOMAIN mem_asked : u # t => mem_asked'[u] = mem_asked[u]
    BY <1>2 DEF Put
  <2>3. arg[t] \in Sizes
    BY <1>2 DEF BlockInv, Sizing
  <2>4. TypeOK'
    BY <1>2, <2>1, <2>2, <2>3 DEF MallocBefore, AskedSizes
  <2>5. BlockInv'
    <3> SUFFICES ASSUME NEW u \in Threads PROVE BlockInv!(u)'
      BY DEF BlockInv
    <3>1. CASE u = t
      BY <1>2, <2>1, <2>2, <2>3, <3>1 DEF MallocBefore, BlockInv, Holding, Sizing, Noted
    <3>2. CASE u # t
      <4>1. pc'[u] = pc[u] /\ arg' = arg /\ live' = live /\ untraced' = untraced
            /\ memory_map' = memory_map /\ memory_map_state' = memory_map_state
        BY <1>2, <3>2 DEF MallocBefore
      <4>2. \A size : t # u /\ u \in DOMAIN mem_asked /\ Noted(u, size) => Noted(u, size)'
        BY <2>1, <2>2, <3>2 DEF Noted
      <4>3. \A v \in Threads \ {u} :
             pc'[u] \in Holding /\ pc'[v] \in Holding /\ arg'[u] # None => arg'[u] # arg'[v]
        BY <1>2, <4>1 DEF BlockInv, Holding
      <4>4. Requested(u) \/ pc[u] = "record" => u \in DOMAIN mem_asked
        BY DEF BlockInv
      <4> QED
        BY <1>2, <2>1, <2>2, <3>2, <4>1, <4>2, <4>3, <4>4 DEF BlockInv, Noted
    <3> QED
      BY <3>1, <3>2
  <2> QED
    BY <2>4, <2>5
<1> QED
  BY <1>1, <1>2 DEF MallocBefore

\* What MallocAfter does to the maps, its block being live.
LEMMA RecordBlock ==
  ASSUME Inv, NEW t \in Threads, MallocAfter(t)
  PROVE  /\ arg[t] \in DOMAIN live /\ arg[t] \in Starts /\ arg[t] # None
         /\ DOMAIN memory_map' = DOMAIN memory_map \cup {arg[t]}
         /\ memory_map'[arg[t]] \in AskedSizes
         /\ "request" \notin torn /\ arg[t] \notin untraced
            => memory_map'[arg[t]] = live[arg[t]] % Width
         /\ \A b \in DOMAIN memory_map : b # arg[t] => memory_map'[b] = memory_map[b]
         /\ DOMAIN memory_map_state' = DOMAIN memory_map_state \cup {arg[t]}
         /\ memory_map_state'[arg[t]] = "ALLOCATED"
         /\ \A b \in DOMAIN memory_map_state :
                b # arg[t] => memory_map_state'[b] = memory_map_state[b]
<1>1. arg[t] \in DOMAIN live /\ arg[t] \in Starts /\ arg[t] # None
  BY OwnBlock DEF MallocAfter, Holding
<1>2. t \in DOMAIN mem_asked /\ mem_asked[t] \in AskedSizes
  BY DEF MallocAfter, Inv, BlockInv, TypeOK
<1>3. "request" \notin torn /\ arg[t] \notin untraced => mem_asked[t] = live[arg[t]] % Width
  BY <1>1 DEF MallocAfter, Inv, BlockInv, Noted
<1> QED
  BY <1>1, <1>2, <1>3 DEF MallocAfter, Put

LEMMA MallocAfterInv ==
  ASSUME Inv, NEW t \in Threads, MallocAfter(t)
  PROVE  Inv'
<1> USE DEF Inv, TypeOK, Goto, With, Leave
<1>1. /\ DOMAIN memory_req_state' = DOMAIN memory_req_state \cup {t}
      /\ memory_req_state'[t] = "NONE"
      /\ \A u \in DOMAIN memory_req_state : u # t => memory_req_state'[u] = memory_req_state[u]
  BY DEF Put, MallocAfter
<1>2. /\ DOMAIN mem_asked' = DOMAIN mem_asked \cup {t} /\ mem_asked'[t] = 0
      /\ \A u \in DOMAIN mem_asked : u # t => mem_asked'[u] = mem_asked[u]
  BY DEF Put, MallocAfter
<1>3. TypeOK'
  <2>1. /\ DOMAIN memory_map' = DOMAIN Globals \cup (DOMAIN memory_map' \cap Starts)
        /\ DOMAIN memory_map_state' = DOMAIN memory_map'
        /\ \A b \in DOMAIN memory_map' \ DOMAIN Globals : memory_map'[b] \in AskedSizes
    <3> DEFINE b == arg[t]
    <3>1. /\ DOMAIN memory_map' = DOMAIN memory_map \cup {b}
          /\ DOMAIN memory_map_state' = DOMAIN memory_map \cup {b}
          /\ b \in Starts
          /\ memory_map'[b] \in AskedSizes
          /\ \A c \in DOMAIN memory_map : c # b => memory_map'[c] = memory_map[c]
      BY RecordBlock
    <3>2. DOMAIN memory_map' = DOMAIN Globals \cup (DOMAIN memory_map' \cap Starts)
      BY <3>1
    <3>3. \A c \in DOMAIN memory_map' \ DOMAIN Globals : memory_map'[c] \in AskedSizes
      BY <3>1
    <3> QED
      BY <3>1, <3>2, <3>3
  <2> QED
    BY <1>1, <1>2, <2>1 DEF MallocAfter, AskedSizes
<1>4. \A u \in Threads \ {t} : pc[u] \in Holding => arg[u] # arg[t]
  BY OwnBlock DEF MallocAfter, Holding
<1>5. BlockInv'
  <2> DEFINE b == arg[t]
  <2>1. /\ pc' = [pc EXCEPT ![t] = "running"] /\ arg' = [arg EXCEPT ![t] = None]
        /\ live' = live /\ torn' = torn /\ untraced' = untraced
    BY DEF MallocAfter
  <2>2. /\ DOMAIN memory_map' = DOMAIN memory_map \cup {b}
        /\ \A c \in DOMAIN memory_map_state :
               c # b => memory_map_state'[c] = memory_map_state[c]
        /\ DOMAIN memory_map_state = DOMAIN memory_map
    <3>1. DOMAIN memory_map_state = DOMAIN memory_map
      OBVIOUS
    <3> HIDE DEF Inv, TypeOK
    <3> QED
      BY <3>1, RecordBlock
  <2> SUFFICES ASSUME NEW u \in Threads, u # t PROVE BlockInv!(u)'
    BY <1>1, <1>2, <2>1 DEF BlockInv, Holding, Sizing, Requested
  <2>3. pc'[u] = pc[u] /\ arg'[u] = arg[u]
    BY <2>1
  <2>4. /\ pc'[u] \in Sizing => arg'[u] \in Sizes
        /\ pc'[u] \in Holding => \/ arg'[u] \in DOMAIN live'
                                 \/ pc'[u] = "MallocAfter" /\ arg'[u] = None
    BY <2>1, <2>3 DEF BlockInv
  <2>5. \A v \in Threads \ {u} :
           pc'[u] \in Holding /\ pc'[v] \in Holding /\ arg'[u] # None => arg'[u] # arg'[v]
    BY <2>1, <2>3 DEF BlockInv, Holding
  <2>6. (Requested(u) \/ pc[u] = "record" => u \in DOMAIN mem_asked)'
    BY <1>1, <1>2, <2>3 DEF BlockInv, Requested
  <2>7. \A size : u \in DOMAIN mem_asked /\ Noted(u, size) => Noted(u, size)'
    BY <1>1, <1>2 DEF Noted, Requested
  <2>8. ("request" \notin torn =>
               /\ pc[u] = "allocating" => Noted(u, arg[u])
               /\ pc[u] \in {"MallocAfter", "record"} /\ arg[u] \in DOMAIN live \ untraced
                  => Noted(u, live[arg[u]]))'
    BY <2>1, <2>3, <2>7 DEF BlockInv, Noted
  <2>9. pc'[u] = "known" => arg'[u] \in DOMAIN memory_map'
    BY <2>2, <2>3 DEF BlockInv
  <2>10. pc[u] \in Holding => arg[u] # b
    BY <1>4
  <2>11. "count" \notin torn' =>
               /\ pc'[u] = "unknown" => arg'[u] \notin DOMAIN memory_map'
               /\ pc'[u] = "freeing" /\ arg'[u] \in DOMAIN memory_map'
                  => memory_map_state'[arg'[u]] = "DELETED"
    BY <2>1, <2>2, <2>3, <2>10 DEF BlockInv, Holding
  <2> QED
    BY <2>4, <2>5, <2>6, <2>8, <2>9, <2>11 DEF BlockInv
<1> QED
  BY <1>3, <1>5

LEMMA FreeBeforeInv ==
  ASSUME Inv, NEW t \in Threads, FreeBefore(t)
  PROVE  Inv'
<1> USE DEF Inv, TypeOK, Goto, With, Leave
<1>1. /\ DOMAIN memory_map_state' = DOMAIN memory_map_state
      /\ pc[t] = "known" => memory_map_state'[arg[t]] = "DELETED"
      /\ \A b \in DOMAIN memory_map_state :
             b # arg[t] => memory_map_state'[b] = memory_map_state[b]
  BY SMTT(30) DEF Put, FreeBefore, BlockInv
<1>2. TypeOK'
  BY <1>1 DEF FreeBefore
<1>3. \A u \in Threads \ {t} : pc[u] \in Holding => arg[u] # arg[t]
  BY OwnBlock DEF FreeBefore, Holding
<1>4. BlockInv'
  BY <1>1, <1>3 DEF FreeBefore, BlockInv, Holding, Sizing, Requested, Noted
<1> QED
  BY <1>2, <1>4

LEMMA NextInv == Inv /\ [Next]_vars => Inv'
<1> SUFFICES ASSUME Inv, [Next]_vars PROVE Inv'
  OBVIOUS
<1>1. CASE UNCHANGED vars
  BY <1>1 DEF vars, maps, Inv, TypeOK, BlockInv, Requested, Noted
<1>2. CASE Next
  BY <1>2, CallsInv, AllocateInv, UntracedInv, DeallocateInv, UnlockedInv, CheckRequestInv,
     MallocBeforeInv, MallocAfterInv, FreeBeforeInv DEF Next
<1> QED
  BY <1>1, <1>2

LEMMA AlwaysInv == Spec => []Inv
  BY InitInv, NextInv, PTL DEF Spec

\* The maps of regions keep one domain, globals and blocks apart; a region's
\* size is a size that was asked for, as an unsigned int, or 0.
THEOREM MapTyped == Spec => []TypeOK
<1>1. Inv => TypeOK
  BY DEF Inv
<1> QED
  BY AlwaysInv, <1>1, PTL

-----------------------------------------------------------------------------
(* What the map says of live blocks and of freed ones. *)

\* No step takes a race back.
LEMMA TornGrows ==
  ASSUME Inv, [Next]_vars
  PROVE  torn \subseteq torn'
BY DEF Next, vars, CallMalloc, Allocate, Calloc, Realloc, CallFree, Deallocate, Access, Enter,
   MallocBefore, CheckRequest, MallocAfter, CountRegion, FreeBefore, Says

\* A block got by a request that the program may use after a step it could use
\* before, or the step has recorded it; otherwise its request has been missed.
LEMMA UsableStep ==
  ASSUME Inv, NEW t \in Threads, NEW b \in Usable' \ untraced', "request" \notin torn',
         \/ CallMalloc(t) \/ Allocate(t) \/ Calloc(t) \/ Realloc(t) \/ CallFree(t)
         \/ Deallocate(t) \/ Access(t) \/ Enter(t) \/ MallocBefore(t)
         \/ CheckRequest(t) \/ CountRegion(t) \/ FreeBefore(t)
  PROVE  b \in Usable \ untraced /\ live'[b] = live[b]
<1> USE DEF Usable, Inv, TypeOK, Goto, With, Leave
<1>1. CASE CallMalloc(t) \/ CallFree(t) \/ Enter(t) \/ MallocBefore(t)
           \/ CountRegion(t) \/ FreeBefore(t)
  BY <1>1 DEF CallMalloc, CallFree, Enter, MallocBefore, CountRegion, FreeBefore
<1>2. CASE Access(t)
  BY <1>2 DEF Access
<1>3. CASE Allocate(t)
  <2>1. CASE UNCHANGED <<live, untraced>>
    BY <1>3, <2>1 DEF Allocate
  <2>2. ASSUME NEW c \in Starts, live' = Put(live, c, arg[t]), With(t, c),
               untraced' = IF pc[t] = "allocating" THEN untraced \ {c} ELSE untraced \cup {c}
        PROVE  b \in Usable \ untraced /\ live'[b] = live[b]
    <3>1. b # c
      BY <1>3, <2>2 DEF Allocate
    <3>2. b \in DOMAIN live /\ live'[b] = live[b] /\ b \notin untraced
      BY <2>2, <3>1 DEF Put
    <3> QED
      BY <1>3, <2>2, <3>1, <3>2 DEF Allocate
  <2> QED
    BY <1>3, <2>1, <2>2 DEF Allocate
<1>4. CASE Calloc(t) \/ Realloc(t)
  <2>1. b \in Starts \ untraced' /\ b \in DOMAIN live'
    BY <1>4, UntracedStep
  <2>2. b \in DOMAIN live /\ live'[b] = live[b] /\ b \notin untraced
    BY <1>4, <2>1, UntracedStep
  <2>3. pc' = pc /\ arg' = arg
    BY <1>4 DEF Calloc, Realloc
  <2> QED
    BY <2>2, <2>3
<1>5. CASE Deallocate(t)
  <2>1. b \in DOMAIN live /\ b # arg[t] /\ live'[b] = live[b] /\ b \notin untraced
    BY <1>5 DEF Deallocate, Without
  <2> QED
    BY <1>5, <2>1 DEF Deallocate
<1>6. CASE CheckRequest(t)
  <2>1. /\ torn \subseteq torn' /\ live' = live /\ untraced' = untraced /\ pc[t] = "MallocAfter"
        /\ \/ /\ pc' = [pc EXCEPT ![t] = "record"] /\ UNCHANGED arg
           \/ /\ pc' = [pc EXCEPT ![t] = "running"] /\ arg' = [arg EXCEPT ![t] = None]
              /\ ~Requested(t) \/ arg[t] = None
    BY <1>6, LookUp DEF CheckRequest
  <2>2. b # None /\ b \in DOMAIN live
    BY <2>1, NoneIsNew
  <2>3. CASE pc' = [pc EXCEPT ![t] = "record"] /\ UNCHANGED arg
    BY <2>1, <2>2, <2>3
  <2>4. CASE ~Requested(t) \/ arg[t] = None
    <3>1. b # arg[t]
      BY <2>1, <2>2, <2>4 DEF BlockInv, Noted
    <3>2. \A u \in Threads \ {t} : pc'[u] = pc[u] /\ arg'[u] = arg[u]
      BY <2>1
    <3> QED
      BY <2>1, <2>2, <3>1, <3>2
  <2> QED
    BY <2>1, <2>3, <2>4
<1> QED
  BY <1>1, <1>2, <1>3, <1>4, <1>5, <1>6

LEMMA LiveStep ==
  ASSUME Inv, LiveBlockIsAllocated, [Next]_vars
  PROVE  LiveBlockIsAllocated'
<1> SUFFICES ASSUME "request" \notin torn', NEW b \in Usable' \ untraced'
             PROVE  /\ b \in DOMAIN memory_map'
                    /\ memory_map'[b] = live'[b] % Width
                    /\ memory_map_state'[b] = "ALLOCATED"
  BY DEF LiveBlockIsAllocated
<1>1. "request" \notin torn
  BY TornGrows
<1>2. b \in Usable \ untraced =>
                     /\ b \in DOMAIN memory_map
                     /\ memory_map[b] = live[b] % Width
                     /\ memory_map_state[b] = "ALLOCATED"
  BY <1>1 DEF LiveBlockIsAllocated
<1>3. CASE UNCHANGED vars
  BY <1>2, <1>3 DEF vars, maps, Usable
<1>4. ASSUME NEW t \in Threads, MallocAfter(t)
      PROVE  /\ b \in DOMAIN memory_map'
             /\ memory_map'[b] = live'[b] % Width
             /\ memory_map_state'[b] = "ALLOCATED"
  <2>1. live' = live /\ untraced' = untraced
    BY <1>4 DEF MallocAfter
  <2>2. CASE b = arg[t]
    BY <1>1, <1>4, <2>1, <2>2, RecordBlock, ZenonT(30)
  <2>3. CASE b # arg[t]
    <3>1. b \in Usable
      BY <1>4, <2>3 DEF MallocAfter, Usable, Leave, Goto, With, Inv, TypeOK
    <3>2. DOMAIN memory_map_state = DOMAIN memory_map
      BY DEF Inv, TypeOK
    <3> QED
      BY <1>2, <1>4, <2>1, <2>3, <3>1, <3>2, RecordBlock
  <2> QED
    BY <2>2, <2>3
<1>5. ASSUME NEW t \in Threads,
             \/ CallMalloc(t) \/ Allocate(t) \/ Calloc(t) \/ Realloc(t) \/ CallFree(t)
             \/ Deallocate(t) \/ Access(t) \/ Enter(t) \/ MallocBefore(t)
             \/ CheckRequest(t) \/ CountRegion(t) \/ FreeBefore(t)
      PROVE  /\ b \in DOMAIN memory_map'
             /\ memory_map'[b] = live'[b] % Width
             /\ memory_map_state'[b] = "ALLOCATED"
  <2>1. b \in Usable \ untraced /\ live'[b] = live[b]
    BY <1>5, UsableStep
  <2>2. memory_map' = memory_map
    BY <1>5 DEF CallMalloc, Allocate, Calloc, Realloc, CallFree, Deallocate, Access, Enter,
       MallocBefore, CheckRequest, CountRegion, FreeBefore, maps
  <2>3. CASE memory_map_state' = memory_map_state
    BY <1>2, <2>1, <2>2, <2>3
  <2>4. CASE FreeBefore(t)
    <3>1. b # arg[t]
      BY <2>1, <2>4, UsableFree DEF FreeBefore, Holding, Inv
    <3>2. memory_map_state'[b] = memory_map_state[b]
      <4>1. DOMAIN memory_map_state = DOMAIN memory_map
        BY DEF Inv, TypeOK
      <4> QED
        BY <1>2, <2>1, <2>4, <3>1, <4>1 DEF FreeBefore, Put
    <3> QED
      BY <1>2, <2>1, <2>2, <3>2
  <2> QED
    BY <1>5, <2>3, <2>4 DEF CallMalloc, Allocate, Calloc, Realloc, CallFree, Deallocate, Access,
       Enter, MallocBefore, CheckRequest, CountRegion, maps
<1> QED
  BY <1>3, <1>4, <1>5 DEF Next

\* Every block the program has got by a request and may use is in the map, as
\* allocated and with the size asked for it cut to an unsigned int, as long as
\* no request has been missed.
THEOREM LiveBlocksKnown == Spec => []LiveBlockIsAllocated
<1>1. Init => LiveBlockIsAllocated
  BY DEF Init, LiveBlockIsAllocated, Usable
<1>2. Inv /\ LiveBlockIsAllocated /\ [Next]_vars => LiveBlockIsAllocated'
  BY LiveStep
<1> QED
  BY <1>1, <1>2, AlwaysInv, PTL DEF Spec

LEMMA FreedStep ==
  ASSUME Inv, FreedIsDeleted, [Next]_vars
  PROVE  FreedIsDeleted'
<1> SUFFICES ASSUME "count" \notin torn', NEW b \in DOMAIN memory_map' \ untraced',
                    memory_map_state'[b] = "ALLOCATED"
             PROVE  b \in DOMAIN live'
  BY DEF FreedIsDeleted
<1>1. "count" \notin torn
  BY TornGrows
<1>2. b \in DOMAIN memory_map \ untraced /\ memory_map_state[b] = "ALLOCATED" => b \in DOMAIN live
  BY <1>1 DEF FreedIsDeleted
<1>3. CASE UNCHANGED vars
  BY <1>2, <1>3 DEF vars, maps
<1>4. ASSUME NEW t \in Threads, MallocAfter(t)
      PROVE  b \in DOMAIN live'
  <2>1. live' = live /\ untraced' = untraced /\ DOMAIN memory_map_state = DOMAIN memory_map
    BY <1>4 DEF MallocAfter, Inv, TypeOK
  <2>2. CASE b = arg[t]
    BY <1>4, <2>1, <2>2, RecordBlock
  <2>3. CASE b # arg[t]
    BY <1>2, <1>4, <2>1, <2>3, RecordBlock, ZenonT(30)
  <2> QED
    BY <2>2, <2>3
<1>5. ASSUME NEW t \in Threads, FreeBefore(t)
      PROVE  b \in DOMAIN live'
  <2>1. /\ memory_map' = memory_map /\ live' = live /\ untraced' = untraced
        /\ DOMAIN memory_map_state = DOMAIN memory_map
    BY <1>5 DEF FreeBefore, Inv, TypeOK
  <2>2. memory_map_state[b] = "ALLOCATED"
    BY <1>5, <2>1 DEF FreeBefore, Put
  <2> QED
    BY <1>2, <2>1, <2>2
<1>6. ASSUME NEW t \in Threads, Deallocate(t)
      PROVE  b \in DOMAIN live'
  <2>1. /\ pc[t] = "freeing" /\ DOMAIN live' = DOMAIN live \ {arg[t]}
        /\ untraced' = untraced \ {arg[t]}
        /\ memory_map' = memory_map /\ memory_map_state' = memory_map_state
    BY <1>6 DEF Deallocate, Without, maps
  <2>2. b # arg[t]
    BY <1>1, <2>1 DEF Inv, BlockInv
  <2> QED
    BY <1>2, <2>1, <2>2
<1>7. ASSUME NEW t \in Threads, Allocate(t)
      PROVE  b \in DOMAIN live'
  <2>1. memory_map' = memory_map /\ memory_map_state' = memory_map_state
    BY <1>7 DEF Allocate, maps
  <2>2. CASE UNCHANGED <<live, untraced>>
    BY <1>2, <2>1, <2>2
  <2>3. ASSUME NEW c \in Starts, live' = Put(live, c, arg[t]),
               untraced' = IF pc[t] = "allocating" THEN untraced \ {c} ELSE untraced \cup {c}
        PROVE  b \in DOMAIN live'
    BY <1>2, <2>1, <2>3 DEF Put
  <2> QED
    BY <1>7, <2>2, <2>3 DEF Allocate
<1>8. ASSUME NEW t \in Threads, Calloc(t) \/ Realloc(t)
      PROVE  b \in DOMAIN live'
  <2>1. memory_map' = memory_map /\ memory_map_state' = memory_map_state
    BY <1>8 DEF Calloc, Realloc, maps
  <2>2. b \notin untraced
    BY <1>8, UntracedStep
  <2>3. b \in DOMAIN live
    BY <1>2, <2>1, <2>2
  <2>4. b \in Starts
    BY <2>3 DEF Inv, TypeOK
  <2> QED
    BY <1>8, <2>3, <2>4, UntracedStep
<1>9. ASSUME NEW t \in Threads,
             \/ CallMalloc(t) \/ CallFree(t) \/ Access(t) \/ Enter(t)
             \/ MallocBefore(t) \/ CheckRequest(t) \/ CountRegion(t)
      PROVE  b \in DOMAIN live'
  BY <1>2, <1>9 DEF CallMalloc, CallFree, Access, Enter, MallocBefore,
     CheckRequest, CountRegion, maps
<1> QED
  BY <1>3, <1>4, <1>5, <1>6, <1>7, <1>8, <1>9 DEF Next

\* A region the map calls allocated is a live block's, as long as no free has
\* missed its region in the count and realloc has not given the block up.
THEOREM FreedBlocksDeleted == Spec => []FreedIsDeleted
<1>1. Init => FreedIsDeleted
  BY DEF Init, FreedIsDeleted
<1>2. Inv /\ FreedIsDeleted /\ [Next]_vars => FreedIsDeleted'
  BY FreedStep
<1> QED
  BY <1>1, <1>2, AlwaysInv, PTL DEF Spec

-----------------------------------------------------------------------------
(* The regions in order. *)

\* key lists S in increasing order.
IsListing(key, S) ==
    key \in SetToSeqs(S) /\ \A m, n \in DOMAIN key : m < n => key[m] < key[n]

\* A finite set of addresses can be listed in order.
LEMMA ListingExists ==
  ASSUME NEW D \in SUBSET Nat, IsFiniteSet(D)
  PROVE  \E key : IsListing(key, D)
<1> DEFINE Fails == {n \in Nat : \E S \in SUBSET Nat :
                        /\ IsFiniteSet(S) /\ Cardinality(S) = n
                        /\ ~ \E key : IsListing(key, S)}
<1>1. SUFFICES ASSUME Fails # {} PROVE FALSE
  <2>1. Cardinality(D) \in Nat
    BY FS_CardinalityType
  <2> QED
    BY <1>1, <2>1
<1>2. PICK n \in Fails : \A m \in Fails : n <= m
  <2> Fails \in SUBSET Nat
    OBVIOUS
  <2> HIDE DEF Fails
  <2> QED
    BY <1>1, Least
<1>3. PICK S \in SUBSET Nat : /\ IsFiniteSet(S) /\ Cardinality(S) = n /\ n \in Nat
                              /\ ~ \E key : IsListing(key, S)
  BY <1>2
<1>4. S # {}
  <2> SUFFICES ASSUME S = {} PROVE FALSE
    OBVIOUS
  <2>1. Cardinality(S) = 0
    BY FS_EmptySet
  <2>2. 1 .. Cardinality(S) = {}
    BY <2>1
  <2>3. IsListing(<<>>, S)
    <3>1. DOMAIN <<>> = {}
      OBVIOUS
    <3>2. <<>> \in [1 .. Cardinality(S) -> S]
      BY <2>2, <3>1
    <3> QED
      BY <2>2, <3>1, <3>2 DEF IsListing, SetToSeqs
  <2> QED
    BY <1>3, <2>3
<1>5. PICK b \in S : \A c \in S : b <= c
  BY <1>4, Least
<1> DEFINE R == S \ {b}
<1>6. IsFiniteSet(R) /\ Cardinality(R) = n - 1 /\ n - 1 \in Nat
  <2>1. IsFiniteSet(R) /\ Cardinality(R) = n - 1
    BY <1>3, <1>5, FS_RemoveElement
  <2>2. Cardinality(R) \in Nat
    BY <2>1, FS_CardinalityType
  <2> QED
    BY <2>1, <2>2
<1>7. PICK rest : IsListing(rest, R)
  <2>1. n - 1 \notin Fails
    BY <1>2, <1>3, <1>6
  <2> QED
    BY <1>6, <2>1
<1> DEFINE key == [m \in 1 .. n |-> IF m = 1 THEN b ELSE rest[m - 1]]
<1>8. IsListing(key, S)
  <2>1. /\ rest \in [1 .. n - 1 -> R]
        /\ \A m, k \in 1 .. n - 1 : m < k => rest[m] < rest[k]
    BY <1>6, <1>7, Zenon DEF IsListing, SetToSeqs
  <2>2. \A m \in 1 .. n : m # 1 => m - 1 \in 1 .. n - 1 /\ rest[m - 1] \in R
    BY <1>3, <2>1
  <2>3. key \in [1 .. n -> S]
    BY <1>5, <2>2
  <2>4. \A c \in R : b < c
    BY <1>5
  <2>5. ASSUME NEW m \in 1 .. n, NEW k \in 1 .. n, m < k PROVE key[m] < key[k]
    <3>1. k # 1 /\ k - 1 \in 1 .. n - 1 /\ key[k] = rest[k - 1] /\ rest[k - 1] \in R
      BY <1>3, <2>2, <2>5
    <3>2. CASE m = 1
      BY <2>4, <3>1, <3>2
    <3>3. CASE m # 1
      <4>1. m - 1 \in 1 .. n - 1 /\ m - 1 < k - 1
        BY <1>3, <2>2, <2>5, <3>3
      <4> QED
        BY <2>1, <3>1, <3>3, <4>1
    <3> QED
      BY <3>2, <3>3
  <2>6. \A m, k \in 1 .. n : m # k => key[m] # key[k]
    <3> SUFFICES ASSUME NEW m \in 1 .. n, NEW k \in 1 .. n, m # k PROVE key[m] # key[k]
      OBVIOUS
    <3>1. key[m] \in Nat /\ key[k] \in Nat
      BY <2>3
    <3>2. m < k \/ k < m
      BY <1>3
    <3> QED
      BY <2>5, <3>1, <3>2
  <2>7. DOMAIN key = 1 .. n
    OBVIOUS
  <2> HIDE DEF key
  <2> QED
    BY <1>3, <2>3, <2>5, <2>6, <2>7 DEF IsListing, SetToSeqs
<1> QED
  BY <1>3, <1>8

\* Regions lists the starts of all regions in increasing order.
LEMMA RegionsSorted ==
  ASSUME NEW map, DOMAIN map \in SUBSET Nat, IsFiniteSet(DOMAIN map)
  PROVE  LET key == Regions(map) IN
         /\ Len(key) \in Nat /\ DOMAIN key = 1 .. Len(key)
         /\ \A n \in 1 .. Len(key) : key[n] \in DOMAIN map
         /\ \A m, n \in 1 .. Len(key) : m < n => key[m] < key[n]
         /\ \A b \in DOMAIN map : \E n \in 1 .. Len(key) : key[n] = b
<1> DEFINE D == DOMAIN map  N == Cardinality(D)
<1>1. PICK key : key = Regions(map)
  OBVIOUS
<1>2. IsListing(key, D)
  BY <1>1, ListingExists, Zenon DEF Regions, IsListing
<1>3. N \in Nat
  BY FS_CardinalityType
<1>4. key \in [1 .. N -> D] /\ \A m, n \in 1 .. N : m # n => key[m] # key[n]
  BY <1>2, Zenon DEF IsListing, SetToSeqs
<1>5. Len(key) = N
  BY <1>3, <1>4
<1>6. ASSUME NEW b \in D
      PROVE  \E n \in 1 .. N : key[n] = b
  <2>1. key \in Injection(1 .. N, D)
    BY <1>4, Zenon DEF Injection, IsInjective
  <2>2. IsFiniteSet(1 .. N) /\ Cardinality(1 .. N) = N
    BY <1>3, FS_Interval
  <2>3. key \in Surjection(1 .. N, D)
    BY <2>1, <2>2, FS_Injection
  <2> QED
    BY <2>3, Zenon DEF Surjection
<1>7. \A m, n \in 1 .. N : m < n => key[m] < key[n]
  BY <1>2, <1>4 DEF IsListing
<1> QED
  BY <1>1, <1>3, <1>4, <1>5, <1>6, <1>7, Zenon

-----------------------------------------------------------------------------
(* std::lower_bound. *)

\* The two parts of a range are ranges, and shorter.
LEMMA Halves ==
  ASSUME NEW n \in Nat, NEW p \in Ranges(n), p[2] # 0, NEW half, half = p[2] \div 2
  PROVE  /\ p[1] \in Nat /\ p[2] \in Nat /\ half \in Nat /\ p[1] + half \in 1 .. n
         /\ <<p[1], half>> \in Ranges(n) /\ half < p[2]
         /\ <<p[1] + half + 1, p[2] - half - 1>> \in Ranges(n) /\ p[2] - half - 1 < p[2]
         /\ p[2] - half - 1 \in Nat
<1>1. p[1] \in 1 .. n + 1 /\ p[2] \in 0 .. n /\ p[1] + p[2] <= n + 1 /\ p[2] > 0
  BY DEF Ranges
<1>2. half \in Nat /\ half < p[2] /\ 2 * half <= p[2]
  BY <1>1
<1> QED
  BY <1>1, <1>2 DEF Ranges

\* What one round makes of the range p, when lb is what later rounds make of
\* the shorter ones.
Round(map, key, addr, lb, p) ==
    LET half == p[2] \div 2
    IN IF p[2] = 0 THEN p[1]
       ELSE IF RegionBefore(map, key[p[1] + half], addr)
       THEN lb[<<p[1] + half + 1, p[2] - half - 1>>]
       ELSE lb[<<p[1], half>>]

IsSearch(lb, map, key, addr, n) == lb = [p \in Ranges(n) |-> Round(map, key, addr, lb, p)]

LEMMA SearchExists ==
  ASSUME NEW map, NEW key, NEW addr, NEW n \in Nat
  PROVE  \E lb : IsSearch(lb, map, key, addr, n)
<1> DEFINE Short(l) == {p \in Ranges(n) : p[2] <= l}
           Good(lb, l) == lb = [p \in Short(l) |-> Round(map, key, addr, lb, p)]
           Fails == {l \in Nat : ~ \E lb : Good(lb, l)}
<1>1. ASSUME Fails # {} PROVE FALSE
  <2>1. PICK l \in Fails : \A m \in Fails : l <= m
    <3> Fails \in SUBSET Nat
      OBVIOUS
    <3> HIDE DEF Fails
    <3> QED
      BY <1>1, Least
  <2>2. CASE l = 0
    <3> DEFINE f == [p \in Short(0) |-> p[1]]
    <3>1. \A p \in Short(0) : p[2] = 0
      BY DEF Ranges
    <3>2. \A p \in Short(0) : Round(map, key, addr, f, p) = p[1]
      BY <3>1 DEF Round
    <3>3. Good(f, 0)
      BY <3>2, Zenon
    <3> QED
      BY <2>1, <2>2, <3>3
  <2>3. CASE l # 0
    <3>1. l \in Nat /\ l - 1 \in Nat /\ l - 1 \notin Fails
      <4>1. l \in Nat
        BY <2>1
      <4>2. l - 1 \in Nat /\ ~(l <= l - 1)
        BY <2>3, <4>1
      <4> HIDE DEF Fails
      <4> QED
        BY <2>1, <4>1, <4>2
    <3>2. PICK g : Good(g, l - 1)
      BY <3>1
    <3> DEFINE f == [p \in Short(l) |-> Round(map, key, addr, g, p)]
    <3>3. \A p \in Short(l - 1) : p \in Short(l)
      BY <3>1 DEF Ranges
    <3>4. \A p \in Short(l - 1) : f[p] = g[p]
      <4>1. \A p \in Short(l - 1) : g[p] = Round(map, key, addr, g, p)
        BY <3>2, Zenon
      <4> QED
        BY <3>3, <4>1, Zenon
    <3>5. ASSUME NEW p \in Short(l) PROVE Round(map, key, addr, f, p) = Round(map, key, addr, g, p)
      <4>1. CASE p[2] = 0
        BY <4>1 DEF Round
      <4>2. CASE p[2] # 0
        <5>1. PICK half : half = p[2] \div 2
          OBVIOUS
        <5>2. /\ <<p[1], half>> \in Short(l - 1)
              /\ <<p[1] + half + 1, p[2] - half - 1>> \in Short(l - 1)
          <6> p \in Ranges(n) /\ p[2] <= l
            OBVIOUS
          <6> HIDE DEF f, Fails, Good
          <6>1. /\ <<p[1], half>> \in Ranges(n) /\ half \in Nat /\ half < p[2] /\ p[2] \in Nat
                /\ <<p[1] + half + 1, p[2] - half - 1>> \in Ranges(n) /\ p[2] - half - 1 < p[2]
                /\ p[2] - half - 1 \in Nat
            BY <4>2, <5>1, Halves
          <6>2. half <= l - 1 /\ p[2] - half - 1 <= l - 1
            BY <3>1, <6>1
          <6> QED
            BY <6>1, <6>2
        <5>3. /\ f[<<p[1], half>>] = g[<<p[1], half>>]
              /\ f[<<p[1] + half + 1, p[2] - half - 1>>] = g[<<p[1] + half + 1, p[2] - half - 1>>]
          BY <3>4, <5>2, Zenon
        <5> HIDE DEF f
        <5> QED
          BY <5>1, <5>3, Zenon DEF Round
      <4> QED
        BY <4>1, <4>2
    <3>6. Good(f, l)
      BY <3>5, Zenon
    <3> QED
      BY <2>1, <3>6, Zenon
  <2> QED
    BY <2>2, <2>3
<1>2. PICK lb : Good(lb, n)
  BY <1>1
<1>3. Short(n) = Ranges(n)
  BY DEF Ranges
<1> QED
  BY <1>2, <1>3, Zenon DEF IsSearch

\* lower_bound stops at the first region, or behind the last, such that the
\* one before lies before the address and it does not: it has compared both.
LEMMA LowerBoundStops ==
  ASSUME NEW map, NEW key, NEW addr, Len(key) \in Nat
  PROVE  LET i == LowerBound(map, key, addr) IN
         /\ i \in 1 .. Len(key) + 1
         /\ i <= Len(key) => ~RegionBefore(map, key[i], addr)
         /\ i > 1 => RegionBefore(map, key[i - 1], addr)
<1> DEFINE n == Len(key)
           Before(i) == RegionBefore(map, key[i], addr)
<1>1. PICK lb : /\ lb = [p \in Ranges(n) |-> Round(map, key, addr, lb, p)]
                /\ LowerBound(map, key, addr) = lb[<<1, n>>]
  <2>1. \E lb : IsSearch(lb, map, key, addr, n)
    <3> n \in Nat
      OBVIOUS
    <3> HIDE DEF n
    <3> QED
      BY SearchExists
  <2> QED
    BY <2>1, Zenon DEF LowerBound, Round, IsSearch
<1> DEFINE Stops(p) == /\ lb[p] \in p[1] .. p[1] + p[2]
                       /\ lb[p] < p[1] + p[2] => ~Before(lb[p])
                       /\ lb[p] > p[1] => Before(lb[p] - 1)
           Fails == {l \in Nat : \E p \in Ranges(n) : p[2] = l /\ ~Stops(p)}
<1>2. ASSUME Fails # {} PROVE FALSE
  <2>1. PICK l \in Fails : \A m \in Fails : l <= m
    <3> Fails \in SUBSET Nat
      OBVIOUS
    <3> HIDE DEF Fails
    <3> QED
      BY <1>2, Least
  <2>2. PICK p \in Ranges(n) : p[2] = l /\ ~Stops(p) /\ l \in Nat
    BY <2>1
  <2>3. p[1] \in Nat /\ p[2] \in Nat
    BY <2>2 DEF Ranges
  <2>4. \A q \in Ranges(n) : q[2] < l => Stops(q)
    <3> SUFFICES ASSUME NEW q \in Ranges(n), q[2] < l, ~Stops(q) PROVE FALSE
      OBVIOUS
    <3>1. q[2] \in Nat
      BY DEF Ranges
    <3>2. q[2] \in Fails
      BY <3>1
    <3> HIDE DEF Fails, Stops
    <3> QED
      BY <2>1, <2>2, <3>1, <3>2
  <2>5. lb[p] = Round(map, key, addr, lb, p)
    BY <1>1, Zenon
  <2>6. Stops(p)
    <3>1. CASE p[2] = 0
      BY <2>3, <2>5, <3>1 DEF Round
    <3>2. CASE p[2] # 0
      <4>1. PICK half : half = p[2] \div 2
        OBVIOUS
      <4>2. PICK left, right : /\ left = <<p[1], half>>
                               /\ right = <<p[1] + half + 1, p[2] - half - 1>>
        OBVIOUS
      <4>3. /\ half \in Nat
            /\ left \in Ranges(n) /\ right \in Ranges(n)
            /\ half < l /\ p[2] - half - 1 < l
        <5> HIDE DEF Stops, Fails
        <5> QED
          BY <2>2, <3>2, <4>1, <4>2, Halves
      <4>4. /\ left[1] = p[1] /\ left[2] = half
            /\ right[1] = p[1] + half + 1 /\ right[2] = p[2] - half - 1
        BY <4>2
      <4>5. Stops(left) /\ Stops(right)
        <5> HIDE DEF Stops
        <5> QED
          BY <2>4, <4>3, <4>4
      <4>6. lb[p] = IF Before(p[1] + half) THEN lb[right] ELSE lb[left]
        BY <2>5, <3>2, <4>1, <4>2 DEF Round
      <4>7. CASE Before(p[1] + half)
        <5>1. lb[p] = lb[right]
          BY <4>6, <4>7
        <5>2. /\ lb[p] \in p[1] + half + 1 .. p[1] + p[2]
              /\ lb[p] < p[1] + p[2] => ~Before(lb[p])
              /\ lb[p] > p[1] + half + 1 => Before(lb[p] - 1)
          <6> HIDE DEF Before
          <6> QED
            BY <2>3, <4>3, <4>4, <4>5, <5>1, SMTT(30)
        <5>3. lb[p] = p[1] + half + 1 => lb[p] - 1 = p[1] + half
          BY <2>3, <4>3
        <5> HIDE DEF Before
        <5> QED
          BY <2>3, <4>3, <4>7, <5>2, <5>3, SMTT(30)
      <4>8. CASE ~Before(p[1] + half)
        <5>1. lb[p] = lb[left]
          BY <4>6, <4>8
        <5>2. /\ lb[p] \in p[1] .. p[1] + half
              /\ lb[p] < p[1] + half => ~Before(lb[p])
              /\ lb[p] > p[1] => Before(lb[p] - 1)
          BY <4>4, <4>5, <5>1
        <5> HIDE DEF Before
        <5> QED
          BY <2>2, <2>3, <4>3, <4>8, <5>2
      <4> QED
        BY <4>7, <4>8
    <3> QED
      BY <3>1, <3>2
  <2> HIDE DEF Stops
  <2> QED
    BY <2>2, <2>6
<1>3. PICK p : p = <<1, n>>
  OBVIOUS
<1>4. p \in Ranges(n) /\ p[1] = 1 /\ p[2] = n
  BY <1>3 DEF Ranges
<1>5. Stops(p)
  <2> HIDE DEF Stops
  <2> QED
    BY <1>2, <1>4
<1>6. PICK i : i = LowerBound(map, key, addr)
  OBVIOUS
<1>7. i \in 1 .. n + 1 /\ (i <= n => ~Before(i)) /\ (i > 1 => Before(i - 1))
  <2>1. i = lb[p]
    BY <1>1, <1>3, <1>6, Zenon
  <2> HIDE DEF Before
  <2> QED
    BY <1>4, <1>5, <2>1
<1> QED
  BY <1>6, <1>7, Zenon

-----------------------------------------------------------------------------
(* What is found and what is missed. *)

\* The regions are those of the globals, unchanged, and finitely many more.
MapInv ==
    /\ DOMAIN memory_map \in SUBSET Nat /\ IsFiniteSet(DOMAIN memory_map)
    /\ \A b \in DOMAIN memory_map : memory_map[b] \in Nat
    /\ \A g \in DOMAIN Globals : g \in DOMAIN memory_map /\ memory_map[g] = Globals[g]

LEMMA MapInvStep ==
  ASSUME Inv, MapInv, [Next]_vars
  PROVE  MapInv'
<1>1. CASE UNCHANGED memory_map
  BY <1>1 DEF MapInv
<1>2. ASSUME NEW t \in Threads, MallocAfter(t)
      PROVE  MapInv'
  <2>1. arg[t] \in Starts /\ t \in DOMAIN mem_asked /\ mem_asked[t] \in AskedSizes
    BY <1>2, OwnBlock DEF MallocAfter, Inv, TypeOK, BlockInv, Holding
  <2>2. AskedSizes \subseteq Nat
    BY SizesPositive DEF AskedSizes
  <2>3. arg[t] \in Nat /\ mem_asked[t] \in Nat /\ arg[t] \notin DOMAIN Globals
    <3>1. Starts \subseteq Nat
      BY MemoryMapAssumption
    <3> QED
      BY <2>1, <2>2, <3>1, NoneIsNew
  <2>4. /\ DOMAIN memory_map' = DOMAIN memory_map \cup {arg[t]}
        /\ \A b \in DOMAIN memory_map' :
               memory_map'[b] = IF b = arg[t] THEN mem_asked[t] ELSE memory_map[b]
    BY <1>2 DEF MallocAfter, Put
  <2>5. IsFiniteSet(DOMAIN memory_map')
    BY <2>4, FS_AddElement DEF MapInv
  <2> QED
    BY <2>3, <2>4, <2>5 DEF MapInv
<1>3. ASSUME NEW t \in Threads,
             \/ CallMalloc(t) \/ Allocate(t) \/ Calloc(t) \/ Realloc(t) \/ CallFree(t)
             \/ Deallocate(t) \/ Access(t) \/ Enter(t) \/ MallocBefore(t)
             \/ CheckRequest(t) \/ CountRegion(t) \/ FreeBefore(t)
      PROVE  UNCHANGED memory_map
  BY <1>3 DEF CallMalloc, Allocate, Calloc, Realloc, CallFree, Deallocate, Access, Enter,
     MallocBefore, CheckRequest, CountRegion, FreeBefore, maps
<1> QED
  BY <1>1, <1>2, <1>3 DEF Next, vars, maps

LEMMA AlwaysMapInv == Spec => []MapInv
<1>1. Init => MapInv
  BY MemoryMapAssumption DEF Init, MapInv
<1>2. Inv /\ MapInv /\ [Next]_vars => MapInv'
  BY MapInvStep
<1> QED
  BY <1>1, <1>2, AlwaysInv, PTL DEF Spec

\* An address in a region of its own is not found only for the sake of another
\* region, that starts inside the first and ends before the address.
LEMMA SearchFinds ==
  ASSUME MapInv, NEW a \in Nat, NEW b \in DOMAIN memory_map, b <= a, a <= b + memory_map[b],
         \A c \in DOMAIN memory_map : b < c => ~(c + memory_map[c] < a)
  PROVE  BinarySearch(memory_map, a)
<1> PICK key, i : key = Regions(memory_map) /\ i = LowerBound(memory_map, key, a)
  OBVIOUS
<1>1. /\ Len(key) \in Nat
      /\ \A n \in 1 .. Len(key) : key[n] \in DOMAIN memory_map /\ key[n] \in Nat
      /\ \A m, n \in 1 .. Len(key) : m < n => key[m] < key[n]
      /\ \E n \in 1 .. Len(key) : key[n] = b
  BY RegionsSorted DEF MapInv
<1>2. /\ i \in 1 .. Len(key) + 1
      /\ i <= Len(key) => ~RegionBefore(memory_map, key[i], a)
      /\ i > 1 => RegionBefore(memory_map, key[i - 1], a)
  BY <1>1, LowerBoundStops
<1>3. PICK n \in 1 .. Len(key) : key[n] = b
  BY <1>1
<1>4. \A c \in DOMAIN memory_map : b <= c => ~RegionBefore(memory_map, c, a)
  <2> SUFFICES ASSUME NEW c \in DOMAIN memory_map, b <= c
               PROVE  ~(c + memory_map[c] < a)
    BY DEF RegionBefore
  <2>1. b \in Nat /\ c \in Nat /\ memory_map[b] \in Nat
    BY DEF MapInv
  <2>2. CASE b = c
    BY <2>1, <2>2
  <2>3. CASE b < c
    BY <2>3
  <2> QED
    BY <2>1, <2>2, <2>3
<1>5. i <= n
  <2> SUFFICES ASSUME i > n PROVE FALSE
    BY <1>1, <1>2
  <2>1. i - 1 \in 1 .. Len(key) /\ n <= i - 1
    BY <1>1, <1>2, <1>3
  <2>2. key[i - 1] \in DOMAIN memory_map /\ b <= key[i - 1]
    BY <1>1, <1>3, <2>1
  <2> QED
    BY <1>2, <1>4, <2>1, <2>2
<1>6. i \in 1 .. Len(key) /\ key[i] <= b /\ key[i] \in Nat /\ b \in Nat
  BY <1>1, <1>2, <1>3, <1>5
<1>7. i <= Len(key) /\ ~(a < key[i])
  BY <1>6
<1> QED
  BY <1>7, Zenon DEF BinarySearch

\* The search finds the start of every region, whatever overlaps it.
THEOREM StartsAreFound == Spec => []StartAlwaysFound
<1>1. MapInv => StartAlwaysFound
  <2> SUFFICES ASSUME MapInv, NEW b \in DOMAIN memory_map
               PROVE  BinarySearch(memory_map, b)
    BY DEF StartAlwaysFound
  <2>1. b \in Nat /\ b <= b /\ b <= b + memory_map[b]
    BY DEF MapInv
  <2>2. \A c \in DOMAIN memory_map : b < c => ~(c + memory_map[c] < b)
    BY <2>1 DEF MapInv
  <2> QED
    BY <2>1, <2>2, SearchFinds
<1> QED
  BY <1>1, AlwaysMapInv, PTL

\* What the search finds is in a region or just after its end.
THEOREM FoundIsInside == Spec => []FoundIsInRegion
<1>1. MapInv => FoundIsInRegion
  <2> SUFFICES ASSUME MapInv, NEW a \in 0 .. MemoryEnd, BinarySearch(memory_map, a)
               PROVE  \E b \in DOMAIN memory_map : b <= a /\ a <= b + memory_map[b]
    BY DEF FoundIsInRegion
  <2> PICK key, i : key = Regions(memory_map) /\ i = LowerBound(memory_map, key, a)
    OBVIOUS
  <2>1. /\ Len(key) \in Nat
        /\ \A n \in 1 .. Len(key) : key[n] \in DOMAIN memory_map
    BY RegionsSorted DEF MapInv
  <2>2. /\ i \in 1 .. Len(key) + 1
        /\ i <= Len(key) => ~RegionBefore(memory_map, key[i], a)
    BY <2>1, LowerBoundStops
  <2>3. i <= Len(key) /\ ~(a < key[i])
    BY Zenon DEF BinarySearch
  <2>4. key[i] \in DOMAIN memory_map /\ ~RegionBefore(memory_map, key[i], a)
    BY <2>1, <2>2, <2>3
  <2>5. a \in Int
    BY MemoryMapAssumption
  <2>6. key[i] <= a /\ a <= key[i] + memory_map[key[i]]
    BY <2>3, <2>4, <2>5 DEF MapInv, RegionBefore
  <2> QED
    BY <2>4, <2>6
<1> QED
  BY <1>1, AlwaysMapInv, PTL

-----------------------------------------------------------------------------
(* Why an access has no row. *)

\* The space of a block is not empty, and no other block's.
LEMMA DisjointStep ==
  ASSUME Inv, Disjoint, [Next]_vars
  PROVE  Disjoint'
<1>1. CASE UNCHANGED live
  BY <1>1 DEF Disjoint
<1>2. ASSUME NEW blocks, NEW b \in Starts, NEW s \in Sizes, Fits(blocks, b, s),
             live' = Put(blocks, b, s), DOMAIN blocks \subseteq DOMAIN live,
             \A c \in DOMAIN blocks : blocks[c] = live[c]
      PROVE  Disjoint'
  <2>1. b \notin DOMAIN blocks
    BY <1>2, FreshBlock DEF Inv, TypeOK
  <2>2. /\ DOMAIN live' = DOMAIN blocks \cup {b} /\ live'[b] = s
        /\ \A c \in DOMAIN blocks : live'[c] = live[c]
    BY <1>2, <2>1 DEF Put
  <2>3. \A c \in DOMAIN blocks : Span(b, live'[b]) \cap Span(c, live'[c]) = {}
    BY <1>2, <2>2 DEF Fits
  <2>4. \A c, d \in DOMAIN blocks : c # d => Span(c, live'[c]) \cap Span(d, live'[d]) = {}
    BY <1>2, <2>2 DEF Disjoint
  <2> QED
    BY <2>2, <2>3, <2>4 DEF Disjoint
<1>3. ASSUME NEW b PROVE /\ DOMAIN Without(live, b) = DOMAIN live \ {b}
                         /\ \A c \in DOMAIN live \ {b} : Without(live, b)[c] = live[c]
  BY DEF Without
<1>4. ASSUME NEW t \in Threads, Allocate(t) \/ Calloc(t) PROVE Disjoint'
  <2>1. CASE UNCHANGED live
    BY <1>1, <2>1
  <2>2. CASE \E b \in Starts, s \in Sizes : Fits(live, b, s) /\ live' = Put(live, b, s)
    BY <1>2, <2>2
  <2>3. pc[t] \in {"allocating", "allocatingStart"} => arg[t] \in Sizes
    BY DEF Inv, BlockInv, Sizing
  <2> QED
    BY <1>4, <2>1, <2>2, <2>3 DEF Allocate, Calloc
<1>5. ASSUME NEW t \in Threads, Realloc(t) PROVE Disjoint'
  <2>1. PICK b \in Usable, c \in Starts, s \in Sizes :
             Fits(Without(live, b), c, s) /\ live' = Put(Without(live, b), c, s)
    BY <1>5 DEF Realloc
  <2> QED
    BY <1>2, <1>3, <2>1
<1>6. ASSUME NEW t \in Threads, Deallocate(t) PROVE Disjoint'
  <2>1. live' = Without(live, arg[t])
    BY <1>6 DEF Deallocate
  <2>2. DOMAIN live' \subseteq DOMAIN live /\ \A c \in DOMAIN live' : live'[c] = live[c]
    BY <2>1 DEF Without
  <2> QED
    BY <2>2 DEF Disjoint
<1>7. ASSUME NEW t \in Threads,
             \/ CallMalloc(t) \/ CallFree(t) \/ Access(t) \/ Enter(t) \/ MallocBefore(t)
             \/ CheckRequest(t) \/ MallocAfter(t) \/ CountRegion(t) \/ FreeBefore(t)
      PROVE  UNCHANGED live
  BY <1>7 DEF CallMalloc, CallFree, Access, Enter, MallocBefore, CheckRequest, MallocAfter,
     CountRegion, FreeBefore
<1> QED
  BY <1>1, <1>4, <1>5, <1>6, <1>7 DEF Next, vars

LEMMA AlwaysDisjoint == Spec => []Disjoint
<1>1. Init => Disjoint
  BY DEF Init, Disjoint
<1>2. Inv /\ Disjoint /\ [Next]_vars => Disjoint'
  BY DisjointStep
<1> QED
  BY <1>1, <1>2, AlwaysInv, PTL DEF Spec

\* No region starts inside a global.
LEMMA GlobalAlone ==
  ASSUME Inv, MapInv, NEW g \in DOMAIN Globals, NEW c \in DOMAIN memory_map, g < c
  PROVE  g + Globals[g] <= c
<1>1. g \in Nat /\ c \in Nat /\ Globals[g] \in Nat
  BY DEF MapInv
<1>2. CASE c \in DOMAIN Globals
  BY <1>2, MemoryMapAssumption
<1>3. CASE c \in Starts
  <2>1. c < HeapEnd /\ HeapEnd \in Nat
    BY <1>3, MemoryMapAssumption
  <2>2. g + Globals[g] <= c \/ HeapEnd <= g
    BY <1>3, MemoryMapAssumption
  <2> QED
    BY <1>1, <2>1, <2>2
<1> QED
  BY <1>2, <1>3 DEF Inv, TypeOK

\* A word of a global is found; so is a word of a block got by a request and
\* smaller than Width, unless a stale region inside the block ends before it.
LEMMA SharedIsFound ==
  ASSUME Inv, MapInv, Disjoint, LiveBlockIsAllocated, "request" \notin torn, NEW a \in Shared,
         \A b \in Usable : a \in Span(b, live[b]) => ~Hidden(b, a)
  PROVE  BinarySearch(memory_map, a)
<1>1. CASE \E g \in DOMAIN Globals : a \in Span(g, Globals[g])
  <2>1. PICK g \in DOMAIN Globals : a \in Span(g, Globals[g])
    BY <1>1
  <2>2. g \in DOMAIN memory_map /\ memory_map[g] = Globals[g] /\ g \in Nat /\ Globals[g] \in Nat
    BY DEF MapInv
  <2>3. a \in Nat /\ g <= a /\ a <= g + memory_map[g] /\ a < g + Globals[g]
    BY <2>1, <2>2 DEF Span
  <2>4. ASSUME NEW c \in DOMAIN memory_map, g < c PROVE ~(c + memory_map[c] < a)
    <3>1. c \in Nat /\ memory_map[c] \in Nat /\ g + Globals[g] <= c
      BY <2>4, GlobalAlone DEF MapInv
    <3> QED
      BY <2>2, <2>3, <3>1
  <2> QED
    BY <2>2, <2>3, <2>4, SearchFinds
<1>2. CASE \E b \in Usable : a \in Span(b, live[b])
  <2>1. PICK b \in Usable : a \in Span(b, live[b])
    BY <1>2
  <2>2. /\ b \notin untraced /\ ~(live[b] >= Width)
        /\ \A c \in DOMAIN memory_map \ DOMAIN live : b < c => ~(c + memory_map[c] < a)
    BY <2>1 DEF Hidden
  <2>3. b \in DOMAIN memory_map /\ memory_map[b] = live[b] % Width
    BY <2>2 DEF LiveBlockIsAllocated
  <2>4. /\ b \in DOMAIN live /\ b \in Nat /\ live[b] \in Nat /\ live[b] > 0
        /\ Width \in Nat /\ Width > 0
    <3>1. b \in DOMAIN live /\ live[b] \in Sizes
      BY DEF Usable, Inv, TypeOK
    <3>2. b \in Nat
      BY <2>3 DEF MapInv
    <3> QED
      BY <3>1, <3>2, SizesPositive
  <2>5. memory_map[b] = live[b]
    BY <2>2, <2>3, <2>4
  <2>6. a \in Nat /\ b <= a /\ a <= b + memory_map[b] /\ a \in Int
    BY <2>1, <2>4, <2>5 DEF Span
  <2>7. ASSUME NEW c \in DOMAIN memory_map, b < c, c + memory_map[c] < a PROVE FALSE
    <3>1. c \in DOMAIN live
      BY <2>2, <2>7
    <3>2. c \in Nat /\ memory_map[c] \in Nat /\ live[c] \in Nat /\ live[c] > 0
      <4>1. live[c] \in Sizes
        BY <3>1 DEF Inv, TypeOK
      <4> QED
        BY <4>1, SizesPositive DEF MapInv
    <3>3. c \in Span(c, live[c])
      BY <3>2 DEF Span
    <3>4. c \in Span(b, live[b])
      <4>1. a <= b + live[b] - 1
        BY <2>1 DEF Span
      <4> QED
        BY <2>4, <2>6, <2>7, <3>2, <4>1 DEF Span
    <3>5. b # c
      BY <2>4, <2>7, <3>2
    <3> QED
      BY <2>4, <3>1, <3>3, <3>4, <3>5 DEF Disjoint
  <2> QED
    BY <2>3, <2>6, <2>7, SearchFinds
<1> QED
  BY <1>1, <1>2 DEF Shared

\* An access has no row only for its image, for a race, or for the block of
\* its word, which has no region of its size or a stale one inside.
THEOREM MissesExplained == Spec => []MissExplained
<1>1. Init => MissExplained
  BY DEF Init, MissExplained
<1>2. Inv /\ MapInv /\ Disjoint /\ LiveBlockIsAllocated /\ MissExplained /\ [Next]_vars
      => MissExplained'
  <2> SUFFICES ASSUME Inv, MapInv, Disjoint, LiveBlockIsAllocated, MissExplained, [Next]_vars,
                      missed' \notin {None, Image}, torn' \cap {"lookup", "request"} = {}
               PROVE  (\E b \in Usable : missed \in Span(b, live[b]) /\ Hidden(b, missed))'
    BY DEF MissExplained
  <2>1. CASE UNCHANGED vars
    BY <2>1 DEF vars, maps, MissExplained, Usable, Hidden
  <2>2. CASE Next
    <3>1. PICK t \in Threads : Access(t)
      BY <2>2 DEF Next, CallMalloc, Allocate, Calloc, Realloc, CallFree, Deallocate, Enter,
         MallocBefore, CheckRequest, MallocAfter, CountRegion, FreeBefore
    <3>2. PICK a \in Shared, main \in BOOLEAN, found \in BOOLEAN :
               /\ Says(t, "lookup", found, BinarySearch(memory_map, a))
               /\ missed' = IF ~found THEN a ELSE IF ~main THEN Image ELSE None
      BY <3>1 DEF Access
    <3>3. ~found /\ missed' = a
      BY <3>2
    <3>4. found = BinarySearch(memory_map, a)
      BY <3>2 DEF Says
    <3>5. "request" \notin torn
      BY TornGrows
    <3>6. PICK b \in Usable : a \in Span(b, live[b]) /\ Hidden(b, a)
      BY <3>3, <3>4, <3>5, SharedIsFound
    <3>7. UNCHANGED <<pc, arg, maps, live, untraced>>
      BY <3>1 DEF Access
    <3> QED
      BY <3>3, <3>6, <3>7 DEF Usable, Hidden, maps
  <2> QED
    BY <2>1, <2>2
<1> QED
  BY <1>1, <1>2, AlwaysInv, AlwaysMapInv, AlwaysDisjoint, LiveBlocksKnown, PTL DEF Spec
=============================================================================
