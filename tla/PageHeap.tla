------------------------------ MODULE PageHeap ------------------------------
(***************************************************************************)
(* The reference-counted page heap of the Umka virtual machine             *)
(* (src/src/umka_vm.c, HeapPages).  Chunks are carved out of pages by a    *)
(* bump pointer and are never reused one by one: a page is given up as a   *)
(* whole when the counts of all its chunks have dropped to zero, and then  *)
(* it is either recycled (its memory may be handed out again at once) or,  *)
(* if some stack slot still looks like a pointer into it, blacklisted.     *)
(*                                                                         *)
(* The program that drives the heap is abstracted to the steps compiled    *)
(* code takes: counted variables (Vars) are assigned and collected, and    *)
(* uncounted copies of pointers (temporaries) live in the stack slots of   *)
(* fibers.  Sizes are in granules; an address is a block (one malloc'ed    *)
(* region) and a chunk number, every interior pointer standing for its     *)
(* chunk as pageGetChunk makes it.                                         *)
(***************************************************************************)
EXTENDS Integers, Sequences, FiniteSets, FiniteSetsExt

CONSTANTS
  Blocks,          \* the regions malloc can return, numbered by address
  Vars,            \* variables that hold counted pointers
  Weaks,           \* variables that hold weak pointers
  Fibers, Root,    \* fibers, and the main fiber
  Parent,          \* Parent[f] is the fiber that created f (f # Root)
  Chain,           \* Chain[f] is f with all its ancestors
  Slots,           \* stack slots for temporaries, per fiber
  ChunkSizes,      \* the chunk sizes the program asks for, in granules
  PageSize,        \* MEM_MIN_HEAP_PAGE, in granules
  MaxBlacklisted,  \* MEM_MAX_BLACKLISTED, in granules
  FinalizerChoices,\* may a chunk have an onFree callback
  TempsAcrossYield,\* may a fiber be suspended in the middle of an expression while
                   \* a fiber that is not its descendant runs
  MaxAllocs,       \* bound on the number of allocations
  Null             \* the null pointer

\* 0 stands for a NULL page pointer, so it is not the number of a block
NoPage == 0

ASSUME BlocksAssumption ==
  /\ Blocks \subseteq Nat \ {0}
  /\ IsFiniteSet(Blocks)

ASSUME ProgramAssumption ==
  /\ IsFiniteSet(Vars)
  /\ FinalizerChoices \subseteq BOOLEAN
  /\ TempsAcrossYield \in BOOLEAN
  /\ MaxAllocs \in Nat

ASSUME SizesAssumption ==
  /\ ChunkSizes \subseteq Nat \ {0}
  /\ PageSize \in Nat \ {0}
  /\ MaxBlacklisted \in Nat

ASSUME FibersAssumption ==
  /\ Root \in Fibers
  /\ \A f \in Fibers : Chain[f] \subseteq Fibers
  /\ Chain[Root] = {Root}
  /\ \A f \in Fibers \ {Root} :
       Parent[f] \in Fibers /\ Chain[f] = {f} \cup Chain[Parent[f]]

VARIABLES
  page,            \* per block, the HeapPage and chunk headers in its memory
  live,            \* the reference-counted list, pages->first
  recycled,        \* the stack of recycled pages, pages->firstRecycled
  blacklisted,     \* the blacklisted list, pages->firstBlacklisted
  lastAccessed,    \* pages->lastAccessed
  lowest, highest, \* pages->lowest, pages->highest
  freeId,          \* pages->freeId
  blacklistedSize, \* pages->blacklistedSize
  totalSize,       \* pages->totalSize
  cap,             \* per block, the bytes malloc gave, 0 if not mapped
  ref,             \* the counted pointers, per variable
  weak,            \* the weak pointers
  temp,            \* the temporaries of every fiber
  cur,             \* the running fiber, pages->fiber
  nextObj,         \* ghost: serial number of the next chunk
  status           \* "running", "dangling" (a runtime error), "freed"

lists == <<live, recycled, blacklisted, blacklistedSize>>
dims  == <<lowest, highest, freeId, totalSize, cap>>
prog  == <<ref, weak, temp, cur>>
vars  == <<page, lists, lastAccessed, dims, prog, nextObj, status>>

(***************************************************************************)
(* Data.                                                                   *)
(***************************************************************************)
\* A chunk header.  obj (ghost) names the allocation, calls (ghost) counts
\* the invocations of its onFree callback.
Chunk == [refCnt : Int, onFree : BOOLEAN, obj : Nat, calls : Nat]

\* A page header; numOccupiedChunks is Len(chunks).
Page == [id : Nat, refCnt : Int, numChunks : Nat, chunkSize : Nat,
         numOnFree : Int, chunks : Seq(Chunk)]

\* A pointer; obj (ghost) is the allocation it was made to point to.
Ptr == [b : Blocks, c : Nat \ {0}, obj : Nat]

ASSUME NullAssumption == Null \notin Ptr

\* A weak pointer stores the page's id and an offset.
Weak == [id : Nat, c : Nat \ {0}, obj : Nat]

EmptyPage == [id |-> 0, refCnt |-> 0, numChunks |-> 0, chunkSize |-> 0,
              numOnFree |-> 0, chunks |-> <<>>]

Dim(p) == p.numChunks * p.chunkSize

\* The chunk header a pointer leads to, pageGetChunk
ChunkAt(pg, p) == pg[p.b].chunks[p.c]

Init ==
  /\ page = [b \in Blocks |-> EmptyPage]
  /\ live = {} /\ recycled = <<>> /\ blacklisted = {}
  /\ lastAccessed = NoPage
  /\ lowest = 0 /\ highest = 0
  /\ freeId = 1
  /\ blacklistedSize = 0 /\ totalSize = 0
  /\ cap = [b \in Blocks |-> 0]
  /\ ref = [v \in Vars |-> Null]
  /\ weak = [w \in Weaks |-> Null]
  /\ temp = [f \in Fibers |-> [s \in Slots |-> Null]]
  /\ cur = Root
  /\ nextObj = 0
  /\ status = "running"

(***************************************************************************)
(* Looking pages up.                                                       *)
(***************************************************************************)
\* New pages are pushed at the head of the list with a fresh id, so the list
\* is in the order of decreasing ids and its head has the largest.
Heads(pg, S) ==
  IF S = {} THEN {NoPage}
  ELSE {b \in S : \A c \in S : pg[c].id <= pg[b].id}

\* The early exits of pageFind
OutOfBounds(b) ==
  \/ lowest # 0 /\ b < lowest
  \/ highest # 0 /\ b >= highest

\* Does pageFind see the page of p?  lastAccessed is tried before the list.
Found(p) == ~OutOfBounds(p.b) /\ p.b \in live \cup {lastAccessed}

\* The runtime error of pageContainsPtr
IsDangling(p) == Found(p) /\ ChunkAt(page, p).refCnt <= 0

\* Mutant: only the running fiber is scanned
ScanRunningFiberOnly(b) ==
  \E s \in Slots : temp[cur][s] # Null /\ temp[cur][s].b = b

\* The conservative scan: some slot of the running fiber or of one of its
\* ancestors looks like a pointer into the page.
PageMayBeReferencedByTemporaries(b) ==
  \E f \in Chain[cur], s \in Slots : temp[f][s] # Null /\ temp[f][s].b = b

\* pageFindForAlloc: pages with room; the first exact fit, or else the first
\* of the smallest chunk size that is large enough
Fitting(size) ==
  {b \in live : Len(page[b].chunks) < page[b].numChunks /\ page[b].chunkSize >= size}

BestFits(size) ==
  {b \in Fitting(size) : \A c \in Fitting(size) :
     \/ page[b].chunkSize < page[c].chunkSize
     \/ page[b].chunkSize = page[c].chunkSize /\ page[b].id >= page[c].id}

(***************************************************************************)
(* Reference counts.                                                       *)
(***************************************************************************)
\* chunkRefCnt with a positive delta
Incremented(pg, p) ==
  IF p = Null THEN pg
  ELSE [pg EXCEPT ![p.b].refCnt = @ + 1, ![p.b].chunks[p.c].refCnt = @ + 1]

\* Mutant: the callback is not taken off the page's account
DecrementedKeepingOnFree(pg, p) ==
  LET chunk == ChunkAt(pg, p)
      last  == chunk.refCnt = 1 /\ chunk.onFree
  IN  [pg EXCEPT ![p.b].refCnt = @ - 1,
                 ![p.b].chunks[p.c] =
                    [chunk EXCEPT !.refCnt = @ - 1,
                                  !.calls = IF last THEN @ + 1 ELSE @]]

\* chunkRefCnt with a negative delta: the callback runs first, on the last count
Decremented(pg, p) ==
  LET chunk == ChunkAt(pg, p)
      last  == chunk.refCnt = 1 /\ chunk.onFree
  IN  [pg EXCEPT ![p.b].refCnt = @ - 1,
                 ![p.b].numOnFree = IF last THEN @ - 1 ELSE @,
                 ![p.b].chunks[p.c] =
                    [chunk EXCEPT !.refCnt = @ - 1,
                                  !.calls = IF last THEN @ + 1 ELSE @]]

\* All the orders in which the elements of a finite set can be visited
Orders(S) ==
  {q \in [1..Cardinality(S) -> S] :
     \A x \in S : \E i \in 1..Cardinality(S) :
        q[i] = x /\ \A j \in 1..Cardinality(S) : q[j] = x => j = i}

\* pageMoveBlacklistedToRecycled: the blacklisted pages that are given back.
\* The order of the blacklist is left open.
Released == IF blacklistedSize < MaxBlacklisted THEN {}
            ELSE {b \in blacklisted : ~PageMayBeReferencedByTemporaries(b)}

SizeOf(pg, S) == MapThenSumSet(LAMBDA b : Dim(pg[b]), S)

MoveToRecycled(b) ==
  /\ recycled' = <<b>> \o recycled
  /\ UNCHANGED <<blacklisted, blacklistedSize>>

\* Mutant: the pages given back are not unlinked from the blacklist
MoveToBlacklistedKeepingReleased(pg, b) ==
  /\ \E q \in Orders(Released) : recycled' = q \o recycled
  /\ blacklisted' = blacklisted \cup {b}
  /\ blacklistedSize' = blacklistedSize - SizeOf(pg, Released) + Dim(pg[b])

MoveToBlacklisted(pg, b) ==
  /\ \E q \in Orders(Released) : recycled' = q \o recycled
  /\ blacklisted' = (blacklisted \ Released) \cup {b}
  /\ blacklistedSize' = blacklistedSize - SizeOf(pg, Released) + Dim(pg[b])

\* Mutant: lastAccessed is left alone
PageRemoveKeepingLastAccessed(pg, b) ==
  /\ live' = live \ {b}
  /\ lastAccessed' = b
  /\ IF PageMayBeReferencedByTemporaries(b)
     THEN MoveToBlacklisted(pg, b)
     ELSE MoveToRecycled(b)

\* pageRemove, on the page at block b; pageFind has just made it lastAccessed
PageRemove(pg, b) ==
  /\ live' = live \ {b}
  /\ lastAccessed' \in Heads(pg, live \ {b})
  /\ IF PageMayBeReferencedByTemporaries(b)
     THEN MoveToBlacklisted(pg, b)
     ELSE MoveToRecycled(b)

\* doRefCntImpl(--) for a pointer that pageFind finds, chunkRefCnt included
DecRef(pg, p) ==
  LET dec == Decremented(pg, p)
  IN  /\ page' = dec
      /\ IF dec[p.b].refCnt = 0
         THEN PageRemove(dec, p.b)
         ELSE lastAccessed' = p.b /\ UNCHANGED lists

RuntimeError ==
  /\ status' = "dangling"
  /\ UNCHANGED <<page, lists, lastAccessed, dims, prog, nextObj>>

(***************************************************************************)
(* Allocation, chunkAlloc.                                                 *)
(***************************************************************************)
NewChunk(onFree) == [refCnt |-> 1, onFree |-> onFree, obj |-> nextObj, calls |-> 0]

\* A chunk is added to the page at block b of pg, and v holds the one
\* reference to it: compiled code stores the result of an allocation in a
\* variable, named or temporary, before anything else can run.
AddChunk(pg, b, v, onFree) ==
  /\ page' = [pg EXCEPT ![b].chunks = Append(@, NewChunk(onFree)),
                        ![b].refCnt = @ + 1,
                        ![b].numOnFree = IF onFree THEN @ + 1 ELSE @]
  /\ ref' = [ref EXCEPT ![v] = [b |-> b, c |-> Len(pg[b].chunks) + 1, obj |-> nextObj]]
  /\ lastAccessed' = b
  /\ nextObj' = nextObj + 1
  /\ UNCHANGED <<weak, temp, cur, status, blacklisted, blacklistedSize>>

\* A page with room is found
AllocInPage(v, size, onFree) ==
  /\ \E b \in BestFits(size) : AddChunk(page, b, v, onFree)
  /\ UNCHANGED <<live, recycled, dims>>

\* Mutant: a chunk larger than a page gets a page with no chunks
ChunksPerPageRoundedDown(size) == PageSize \div size

\* numChunks of a new page
ChunksPerPage(size) == IF PageSize \div size = 0 THEN 1 ELSE PageSize \div size

NewPage(size) ==
  [EmptyPage EXCEPT !.id = freeId, !.numChunks = ChunksPerPage(size), !.chunkSize = size]

\* pageAdd, once the memory of the page is known to be block b
PageAdd(b, v, size, onFree) ==
  /\ AddChunk([page EXCEPT ![b] = NewPage(size)], b, v, onFree)
  /\ live' = live \cup {b}
  /\ freeId' = freeId + 1
  /\ lowest' = IF lowest = 0 \/ lowest > b THEN b ELSE lowest
  /\ highest' = IF highest = 0 \/ highest < b + 1 THEN b + 1 ELSE highest

\* pageFindRecycled pops pages, freeing the ones that are too small
BigEnough(size) ==
  {i \in DOMAIN recycled : Dim(page[recycled[i]]) >= ChunksPerPage(size) * size}

Popped(n) == {recycled[i] : i \in 1..n}

\* A recycled page is large enough: its memory is used again
AllocRecycled(v, size, onFree) ==
  /\ Fitting(size) = {}
  /\ \E i \in BigEnough(size) :
       /\ \A j \in BigEnough(size) : i <= j
       /\ PageAdd(recycled[i], v, size, onFree)
       /\ recycled' = SubSeq(recycled, i + 1, Len(recycled))
       /\ cap' = [b \in Blocks |-> IF b \in Popped(i - 1) THEN 0 ELSE cap[b]]
       /\ totalSize' = totalSize - SizeOf(page, Popped(i - 1))

\* None is: all of them have been freed, and malloc provides a new region
AllocFresh(v, size, onFree) ==
  /\ Fitting(size) = {} /\ BigEnough(size) = {}
  /\ \E b \in {x \in Blocks : cap[x] = 0} \cup Popped(Len(recycled)) :
       /\ PageAdd(b, v, size, onFree)
       /\ cap' = [x \in Blocks |->
                    IF x = b THEN ChunksPerPage(size) * size
                    ELSE IF x \in Popped(Len(recycled)) THEN 0 ELSE cap[x]]
  /\ recycled' = <<>>
  /\ totalSize' = totalSize - SizeOf(page, Popped(Len(recycled)))
                  + ChunksPerPage(size) * size

CanAlloc(v) == status = "running" /\ ref[v] = Null /\ nextObj < MaxAllocs

Alloc(v, size, onFree) ==
  /\ CanAlloc(v)
  /\ \/ AllocInPage(v, size, onFree)
     \/ AllocRecycled(v, size, onFree)
     \/ AllocFresh(v, size, onFree)

(***************************************************************************)
(* The steps of compiled code.                                             *)
(***************************************************************************)
\* Mutant: the old left side is released before the right side is counted
AssignReleasingFirst(u, v) ==
  /\ status = "running" /\ ref[v] # Null
  /\ ref' = [ref EXCEPT ![u] = ref[v]]
  /\ IF ref[u] # Null /\ Found(ref[u])
     THEN LET dec == Decremented(page, ref[u])
          IN  /\ page' = Incremented(dec, ref[v])
              /\ IF dec[ref[u].b].refCnt = 0
                 THEN PageRemove(dec, ref[u].b)
                 ELSE UNCHANGED <<lists, lastAccessed>>
     ELSE page' = Incremented(page, ref[v]) /\ UNCHANGED <<lists, lastAccessed>>
  /\ UNCHANGED <<dims, weak, temp, cur, nextObj, status>>

\* The copy u := v, an OP_REF_CNT_ASSIGN with the value just loaded: count
\* the right side, release the old left side, store.
Assign(u, v) ==
  /\ status = "running" /\ ref[v] # Null
  /\ IF IsDangling(ref[v]) THEN RuntimeError
     ELSE LET inc  == IF Found(ref[v]) THEN Incremented(page, ref[v]) ELSE page
              old  == ref[u]
          IN  /\ ref' = [ref EXCEPT ![u] = ref[v]]
              /\ IF old # Null /\ Found(old)
                 THEN DecRef(inc, old)
                 ELSE /\ page' = inc
                      /\ lastAccessed' = IF Found(ref[v]) THEN ref[v].b ELSE lastAccessed
                      /\ UNCHANGED lists
              /\ UNCHANGED <<dims, weak, temp, cur, nextObj, status>>

\* doGarbageCollection emits OP_REF_CNT_LOCAL/GLOBAL(--) when v leaves its
\* scope; v := null releases the old value in the same way
Collect(v) ==
  /\ status = "running" /\ ref[v] # Null
  /\ IF IsDangling(ref[v]) THEN RuntimeError
     ELSE /\ ref' = [ref EXCEPT ![v] = Null]
          /\ IF Found(ref[v]) THEN DecRef(page, ref[v])
             ELSE UNCHANGED <<page, lists, lastAccessed>>
          /\ UNCHANGED <<dims, weak, temp, cur, nextObj, status>>

\* An operand is pushed on the stack of the running fiber: not counted
Load(s, v) ==
  /\ status = "running" /\ ref[v] # Null /\ temp[cur][s] = Null
  /\ temp' = [temp EXCEPT ![cur][s] = ref[v]]
  /\ UNCHANGED <<page, lists, lastAccessed, dims, ref, weak, cur, nextObj, status>>

\* and consumed
Drop(s) ==
  /\ status = "running" /\ temp[cur][s] # Null
  /\ temp' = [temp EXCEPT ![cur][s] = Null]
  /\ UNCHANGED <<page, lists, lastAccessed, dims, ref, weak, cur, nextObj, status>>

\* doWeakenPtr
Weaken(w, v) ==
  /\ status = "running" /\ ref[v] # Null /\ Found(ref[v])
  /\ IF IsDangling(ref[v]) THEN RuntimeError
     ELSE /\ weak' = [weak EXCEPT ![w] =
                        [id |-> page[ref[v].b].id, c |-> ref[v].c, obj |-> ref[v].obj]]
          /\ lastAccessed' = ref[v].b
          /\ UNCHANGED <<page, lists, dims, ref, temp, cur, nextObj, status>>

\* Mutant: the count of the chunk is not looked at
StrengthenedDeadToo(w) ==
  {[b |-> b, c |-> w.c, obj |-> page[b].chunks[w.c].obj] :
     b \in {x \in live : page[x].id = w.id}}

\* doStrengthenPtr: the pointers w may lead to, through pageFindById
Strengthened(w) ==
  {[b |-> b, c |-> w.c, obj |-> page[b].chunks[w.c].obj] :
     b \in {x \in live : page[x].id = w.id /\ page[x].chunks[w.c].refCnt # 0}}

\* The result is a temporary on the stack; null when the chunk is gone
Strengthen(s, w) ==
  /\ status = "running" /\ weak[w] # Null /\ temp[cur][s] = Null
  /\ \E p \in Strengthened(weak[w]) : temp' = [temp EXCEPT ![cur][s] = p]
  /\ UNCHANGED <<page, lists, lastAccessed, dims, ref, weak, cur, nextObj, status>>

\* doBuiltinResume, or the end of a fiber, switches to another fiber
Resume(f) ==
  /\ status = "running" /\ f # cur
  /\ TempsAcrossYield \/ \A g \in Chain[cur] \ Chain[f], s \in Slots : temp[g][s] = Null
  /\ cur' = f
  /\ UNCHANGED <<page, lists, lastAccessed, dims, ref, weak, temp, nextObj, status>>

\* vmFree, pageFree: the callbacks of the chunks still referenced are called,
\* at most numChunksWithOnFree of them per page, and all the memory is freed
Unfinalized(p) == {c \in DOMAIN p.chunks : p.chunks[c].refCnt # 0 /\ p.chunks[c].onFree}

Finalize(p) ==
  LET called == {c \in Unfinalized(p) :
                   Cardinality({d \in Unfinalized(p) : d < c}) < p.numOnFree}
  IN  [p EXCEPT !.chunks = [c \in DOMAIN p.chunks |->
                    IF c \in called THEN [p.chunks[c] EXCEPT !.calls = @ + 1]
                    ELSE p.chunks[c]],
                !.numOnFree = @ - Cardinality(called)]

Free ==
  /\ status \in {"running", "dangling"}
  /\ page' = [b \in Blocks |-> IF b \in live THEN Finalize(page[b]) ELSE page[b]]
  /\ live' = {} /\ recycled' = <<>> /\ blacklisted' = {}
  /\ cap' = [b \in Blocks |-> 0]
  /\ status' = "freed"
  /\ UNCHANGED <<lastAccessed, lowest, highest, freeId, blacklistedSize, totalSize,
                 prog, nextObj>>

Next ==
  \/ \E v \in Vars, size \in ChunkSizes, onFree \in FinalizerChoices : Alloc(v, size, onFree)
  \/ \E u, v \in Vars : Assign(u, v)
  \/ \E v \in Vars : Collect(v)
  \/ \E s \in Slots, v \in Vars : Load(s, v)
  \/ \E s \in Slots : Drop(s)
  \/ \E w \in Weaks, v \in Vars : Weaken(w, v)
  \/ \E s \in Slots, w \in Weaks : Strengthen(s, w)
  \/ \E f \in Fibers : Resume(f)
  \/ Free

Spec == Init /\ [][Next]_vars

(***************************************************************************)
(* Properties.                                                             *)
(***************************************************************************)
\* The heap and the program have the shape the C declarations give them, and the
\* bump pointer of a page never runs past its last chunk.
TypeOK ==
  /\ page \in [Blocks -> Page]
  /\ live \subseteq Blocks /\ blacklisted \subseteq Blocks
  /\ recycled \in Seq(Blocks)
  /\ lastAccessed \in Blocks \cup {NoPage}
  /\ lowest \in Nat /\ highest \in Nat
  /\ freeId \in Nat \ {0}
  /\ cap \in [Blocks -> Nat]
  /\ ref \in [Vars -> Ptr \cup {Null}]
  /\ weak \in [Weaks -> Weak \cup {Null}]
  /\ temp \in [Fibers -> [Slots -> Ptr \cup {Null}]]
  /\ cur \in Fibers
  /\ nextObj \in Nat
  /\ status \in {"running", "dangling", "freed"}
  /\ \A b \in live : Len(page[b].chunks) <= page[b].numChunks

\* The variables that point to chunk c of the page at block b, and into that page,
\* when the pointers are r
Holders(r, b, c) == {v \in Vars : r[v] # Null /\ r[v].b = b /\ r[v].c = c}
PageHolders(r, b) == {v \in Vars : r[v] # Null /\ r[v].b = b}

\* A chunk's count is the number of variables that point to it, a page's count
\* the number of variables that point into it, and a page stays listed exactly
\* as long as that is not zero.
CountsExact ==
  \A b \in live :
    /\ page[b].refCnt = Cardinality(PageHolders(ref, b))
    /\ page[b].refCnt > 0
    /\ \A c \in DOMAIN page[b].chunks :
         page[b].chunks[c].refCnt = Cardinality(Holders(ref, b, c))

\* No page is in two of the three lists, or twice in one, and the listed pages are
\* the mapped ones.
ListsDisjoint ==
  /\ live \cap blacklisted = {}
  /\ \A i \in DOMAIN recycled : recycled[i] \notin live \cup blacklisted
  /\ \A i, j \in DOMAIN recycled : recycled[i] = recycled[j] => i = j
  /\ \A b \in Blocks :
       cap[b] # 0 <=> \/ b \in live \cup blacklisted
                      \/ \E i \in DOMAIN recycled : recycled[i] = b

\* Every mapped page is in exactly one of the three lists, and once: pages are
\* neither leaked nor listed twice, which would free them twice in pageFree; and
\* blacklistedSize, which decides when blacklisted pages are given back, is what
\* they occupy.
ListsPartition ==
  status # "freed" =>
    ListsDisjoint /\ blacklistedSize = SizeOf(page, blacklisted)

\* The object a pointer was made for is still in memory: its block has been
\* neither freed nor given to new chunks.
Intact(p) ==
  /\ cap[p.b] # 0
  /\ p.c \in DOMAIN page[p.b].chunks
  /\ page[p.b].chunks[p.c].obj = p.obj

\* A program that counts every pointer it stores never meets the "Dangling
\* pointer" error of pageContainsPtr, and the memory behind each of its variables
\* still holds the object the variable was given.
RefsIntact ==
  /\ status # "dangling"
  /\ status = "running" =>
       \A v \in Vars : ref[v] # Null => ref[v].b \in live /\ Intact(ref[v])

\* What a temporary of the running fiber or of one of its ancestors points to
\* may be dead, but it is never in the recycled memory that pageAdd hands out:
\* the purpose of the conservative scan and of the blacklist.
ChainTempsProtected ==
  status = "running" =>
    \A f \in Chain[cur], s \in Slots :
      temp[f][s] # Null =>
        temp[f][s].b \in live \cup blacklisted /\ Intact(temp[f][s])

\* A weak pointer leads to the object it was made from as long as some variable
\* holds that object, and to nothing from then on, however often the memory
\* of its page is used again.
WeakExact ==
  status = "running" =>
    \A w \in Weaks : weak[w] # Null =>
      /\ Strengthened(weak[w]) # {}
           <=> \E v \in Vars : ref[v] # Null /\ ref[v].obj = weak[w].obj
      /\ \A p \in Strengthened(weak[w]) : p.obj = weak[w].obj

\* The caches of pageFind are never stale: lastAccessed is a listed page, and
\* every listed page lies between lowest and highest.
CachesCurrent ==
  status # "freed" =>
    /\ lastAccessed \in live \cup {NoPage}
    /\ \A b \in live : ~OutOfBounds(b)

\* numChunksWithOnFree counts the callbacks still due, and every callback runs
\* exactly once: when the last reference goes, or in pageFree.
FinalizedOnce ==
  \A b \in Blocks :
    /\ b \in live => page[b].numOnFree = Cardinality(Unfinalized(page[b]))
    /\ \A c \in DOMAIN page[b].chunks :
         page[b].chunks[c].calls =
           IF page[b].chunks[c].onFree /\ (page[b].chunks[c].refCnt = 0 \/ status = "freed")
           THEN 1 ELSE 0

=============================================================================
