------------------------------- MODULE RefCount -------------------------------
(***************************************************************************)
(* Reference counting of object graphs in the Umka virtual machine         *)
(* (src/src/umka_vm.c: doRefCntImpl and its callers).  One iteration of    *)
(* its loop over the stack of candidates is one step, because the loop is  *)
(* interrupted by onFree callbacks, which are native code and may call     *)
(* umkaDecRef(): this enters doRefCntImpl again, and there is only one     *)
(* stack of candidates.                                                    *)
(*                                                                         *)
(* An object is a chunk of the page heap.  A composite has Width items     *)
(* that hold pointers (the fields of a structure, the items of an array or *)
(* of a dynamic array, the parts of a map node or of a closure); a handle  *)
(* is native data with an onFree callback and no items.  The memory of     *)
(* dead objects keeps what was in it: PageHeap is about its reuse.         *)
(***************************************************************************)
EXTENDS Integers, Sequences, FiniteSets, SequencesExt

CONSTANTS
  Objs,           \* the objects that can be allocated
  Handles,        \* those of them that are native data; the others are composites
  Vars,           \* variables that hold a pointer
  HostVars,       \* those of them that belong to native code
  HostKept,       \* the objects that native code keeps pointers to
  Width,          \* the number of items of a composite
  Addressed,      \* the items whose addresses the program takes
  AddressesKept,  \* does the program store these addresses in items, or in variables only
  Null,           \* the null pointer
  StaleLhs,       \* may a function let go of the object that the left side of the
                  \* assignment it is called in is a part of
  CountsInOnFree  \* do onFree callbacks call umkaDecRef()

ASSUME RefCountAssumption ==
  /\ IsFiniteSet(Objs) /\ IsFiniteSet(Vars)
  /\ Objs \cap Vars = {}
  /\ Handles \subseteq Objs /\ HostKept \subseteq Objs /\ HostVars \subseteq Vars
  /\ Width \in Nat \ {0} /\ Addressed \subseteq 1 .. Width
  /\ AddressesKept \in BOOLEAN
  /\ StaleLhs \in BOOLEAN /\ CountsInOnFree \in BOOLEAN

VARIABLES
  made,       \* the objects that have been allocated
  count,      \* chunk->refCnt
  mem,        \* the cells of the objects and of the variables
  cstack,     \* the C stack: doRefCntImpl(--) and the callbacks it has called
  candidates, \* pages->refCntCandidates
  lhs,        \* the address on the stack that is to be assigned to, or Null
  store,      \* the doAssignImpl that is left to do, or Null
  calls,      \* ghost: how often the onFree callback of each object has run
  status      \* "running", or "error": a dangling pointer or a wrong count

vars == <<made, count, mem, cstack, candidates, lhs, store, calls, status>>

(***************************************************************************)
(* Data.                                                                   *)
(***************************************************************************)
Cells == 1 .. Width

\* A pointer to an object (cell 0) or to one of its items
Ptr == [obj : Objs, cell : 0 .. Width]

\* Where a store goes: an object or a variable, and what its cells become
Store == [of : Objs \cup Vars, new : UNION {[D -> Ptr \cup {Null}] : D \in SUBSET Cells}]

ASSUME NullAssumption == Null \notin Ptr \cup Objs \cup Store

\* A candidate is a pointer; a deferred one has had its object's items pushed above it
Candidate == [ptr : Ptr \cup {Null}, deferred : BOOLEAN]

\* C frames: doRefCntImpl, or the onFree callback of an object
Frame == [fn : {"release"}] \cup [fn : {"onFree"}, obj : Objs]

Release == [fn |-> "release"]
Idle == cstack = <<>>
Top == Last(cstack)
Releasing == ~Idle /\ Top.fn = "release"

Init ==
  /\ made = {}
  /\ count = [o \in Objs |-> 0]
  /\ mem = [w \in Objs \cup Vars |-> [i \in Cells |-> Null]]
  /\ cstack = <<>> /\ candidates = <<>>
  /\ lhs = Null /\ store = Null
  /\ calls = [o \in Objs |-> 0]
  /\ status = "running"

(***************************************************************************)
(* Reachability.                                                           *)
(***************************************************************************)
\* A value that leads to o
Refers(p, o) == p # Null /\ p.obj = o

\* The objects that a set of objects holds, in one step
ItemsOf(S) == {o \in Objs : \E w \in S, i \in Cells : Refers(mem[w][i], o)}

ReachableFrom(S) ==
  {o \in Objs : \A T \in SUBSET Objs : S \subseteq T /\ ItemsOf(T) \subseteq T => o \in T}

Held == {o \in Objs : \E v \in Vars : Refers(mem[v][1], o)}

(***************************************************************************)
(* doRefCntImpl(--).                                                       *)
(***************************************************************************)
\* Pointers as candidates
Candidates(ptrs) == [i \in DOMAIN ptrs |-> [ptr |-> ptrs[i], deferred |-> FALSE]]

\* Mutant: the type of the pointer decides, not the type in the chunk header
ChildrenByPointer(p) ==
  IF p.obj \in Handles THEN <<>>
  ELSE Candidates(IF p.cell = 0 THEN mem[p.obj] ELSE <<mem[p.obj][p.cell]>>)

\* What is released with the last reference to an object, however it was pointed to
Children(p) == IF p.obj \in Handles THEN <<>> ELSE Candidates(mem[p.obj])

\* pageFind of a dead object: an error if its page is still listed, or else it is
\* taken for memory that is not on the heap.  chunkRefCnt of one is always an error.
Dangles ==
  \/ status' = "error" /\ UNCHANGED <<made, count, mem, cstack, candidates, store, calls>>
  \/ candidates' = Front(candidates)
     /\ UNCHANGED <<made, count, mem, cstack, store, calls, status>>

\* chunkRefCnt(-1); rest is the stack below the candidate
Decrement(o, rest) ==
  /\ candidates' = rest
  /\ IF o \in Handles /\ count[o] = 1
     THEN /\ cstack' = Append(cstack, [fn |-> "onFree", obj |-> o])
          /\ calls' = [calls EXCEPT ![o] = @ + 1]
          /\ UNCHANGED count
     ELSE /\ count' = [count EXCEPT ![o] = @ - 1]
          /\ UNCHANGED <<cstack, calls>>
  /\ UNCHANGED <<made, mem, store, status>>

\* Null is not found by pageFind
SkipNull ==
  /\ candidates' = Front(candidates)
  /\ UNCHANGED <<made, count, mem, cstack, store, calls, status>>

\* Mutant: a last reference is dropped with the items still counted
IterateNotTraversing ==
  /\ Releasing /\ candidates # <<>>
  /\ LET c == Last(candidates)
     IN  IF c.ptr = Null THEN SkipNull
         ELSE IF count[c.ptr.obj] <= 0 THEN Dangles
         ELSE Decrement(c.ptr.obj, Front(candidates))
  /\ UNCHANGED lhs

\* One iteration of the loop.  The last reference to an object is put back, and its
\* items are released first: their memory must not go before they have been read.
Iterate ==
  /\ Releasing /\ candidates # <<>>
  /\ LET c == Last(candidates)
         o == c.ptr.obj
         rest == Front(candidates)
     IN  IF c.ptr = Null THEN SkipNull
         ELSE IF count[o] <= 0 THEN Dangles /\ (c.deferred => status' = "error")
         ELSE IF c.deferred \/ count[o] > 1 THEN Decrement(o, rest)
         ELSE /\ candidates' = Append(rest, [ptr |-> c.ptr, deferred |-> TRUE]) \o Children(c.ptr)
              /\ UNCHANGED <<made, count, mem, cstack, store, calls, status>>
  /\ UNCHANGED lhs

\* The loop is done: back to native code that called umkaDecRef(), or to
\* doRefCntAssign, which stores the right side
ReleaseReturns ==
  /\ Releasing /\ candidates = <<>>
  /\ cstack' = Front(cstack)
  /\ IF Len(cstack) = 1 /\ store # Null
     THEN /\ mem' = [mem EXCEPT ![store.of] =
                     [i \in Cells |-> IF i \in DOMAIN store.new THEN store.new[i] ELSE @[i]]]
          /\ store' = Null
     ELSE UNCHANGED <<mem, store>>
  /\ UNCHANGED <<made, count, candidates, lhs, calls, status>>

(***************************************************************************)
(* Native code.                                                            *)
(***************************************************************************)
Running == Idle /\ status = "running"
InOnFree == ~Idle /\ Top.fn = "onFree"

\* umkaIncRef(): a native function keeps a pointer it was given
HostIncRef(h, v) ==
  /\ Running /\ mem[h][1] = Null
  /\ mem[v][1] # Null /\ mem[v][1].obj \in HostKept
  /\ mem' = [mem EXCEPT ![h][1] = mem[v][1]]
  /\ count' = [count EXCEPT ![mem[v][1].obj] = @ + 1]
  /\ UNCHANGED <<made, cstack, candidates, lhs, store, calls, status>>

\* umkaDecRef(): and gives it up, in a native function or in a callback.  The stack of
\* candidates is reset, with whatever an interrupted loop had left to do.
HostDecRef(h) ==
  /\ status = "running" /\ (~Idle => InOnFree /\ CountsInOnFree)
  /\ mem[h][1] # Null
  /\ mem' = [mem EXCEPT ![h][1] = Null]
  /\ candidates' = Candidates(<<mem[h][1]>>)
  /\ cstack' = Append(cstack, Release)
  /\ UNCHANGED <<made, count, lhs, store, calls, status>>

\* The callback returns to chunkRefCnt, which goes on
OnFreeReturns ==
  /\ InOnFree
  /\ cstack' = Front(cstack)
  /\ count' = [count EXCEPT ![Top.obj] = @ - 1]
  /\ UNCHANGED <<made, mem, candidates, lhs, store, calls, status>>

(***************************************************************************)
(* Compiled code.                                                          *)
(***************************************************************************)
\* The number of pointers to o among the values of a function
Occurrences(o, values) == Cardinality({i \in DOMAIN values : Refers(values[i], o)})

\* Mutant: the right side is taken for a value whose reference is moved
RefCntAssignMoving(w, old, new) ==
  /\ candidates' = Candidates(old)
  /\ cstack' = <<Release>>
  /\ store' = [of |-> w, new |-> new]
  /\ UNCHANGED <<made, count, mem, calls, status>>

\* doRefCntAssign of these values to the cells of w that have the values old: the right
\* side is counted, which traverses nothing, and the release of the left side begins
RefCntAssign(w, old, new) ==
  /\ count' = [o \in Objs |-> count[o] + Occurrences(o, new)]
  /\ candidates' = Candidates(old)
  /\ cstack' = <<Release>>
  /\ store' = [of |-> w, new |-> new]
  /\ UNCHANGED <<made, mem, calls, status>>

\* The cells that p gives access to
Reach(p) ==
  IF p.obj \in Handles THEN {}
  ELSE IF p.cell = 0 THEN Cells ELSE {p.cell}

\* The values of expressions: null, a variable, an item through a pointer, and the
\* address of an item
Readable == {p \in {mem[v][1] : v \in Vars \ HostVars} : p # Null}
Direct == {Null} \cup Readable \cup UNION {{mem[p.obj][i] : i \in Reach(p)} : p \in Readable}
Addresses ==
  UNION {{[obj |-> p.obj, cell |-> i] : i \in Reach(p) \cap Addressed} : p \in Readable}

\* v := new(T), make(T, n), or native data
New(v, o) ==
  /\ Running /\ mem[v][1] = Null
  /\ o \notin made
  /\ made' = made \cup {o}
  /\ count' = [count EXCEPT ![o] = 1]
  /\ mem' = [mem EXCEPT ![v][1] = [obj |-> o, cell |-> 0]]
  /\ UNCHANGED <<cstack, candidates, lhs, store, calls, status>>

\* v := p, and v := null at the end of the scope of v
AssignVar(v, p) ==
  /\ Running
  /\ RefCntAssign(v, <<mem[v][1]>>, [i \in {1} |-> p])
  /\ UNCHANGED lhs

\* p[i] := ..., or p.i := ...: the address is pushed, and then the right side is
\* evaluated, which may take any number of steps of functions
PushLhs(p, i) ==
  /\ Running /\ lhs = Null
  /\ lhs' = [obj |-> p.obj, cell |-> i]
  /\ UNCHANGED <<made, count, mem, cstack, candidates, store, calls, status>>

\* ... := p
AssignLhs(p) ==
  /\ Running /\ lhs # Null
  /\ p # Null /\ p.cell # 0 => AddressesKept
  /\ ~StaleLhs => lhs.obj \in ReachableFrom(Held)
  /\ RefCntAssign(lhs.obj, <<mem[lhs.obj][lhs.cell]>>, [i \in {lhs.cell} |-> p])
  /\ lhs' = Null

\* ^p := ^q, the assignment of a structure or an array: the release of what p held may
\* free q, but dead memory keeps its contents, so they are what they were before
Copy(p, q) ==
  /\ Running
  /\ p.cell = 0 /\ q.cell = 0 /\ Reach(p) # {} /\ Reach(q) # {}
  /\ RefCntAssign(p.obj, mem[p.obj], mem[q.obj])
  /\ UNCHANGED lhs

Next ==
  \/ Iterate \/ ReleaseReturns \/ OnFreeReturns
  \/ \E h \in HostVars : HostDecRef(h)
  \/ \E h \in HostVars, v \in Vars \ HostVars : HostIncRef(h, v)
  \/ \E v \in Vars \ HostVars, o \in Objs : New(v, o)
  \/ \E v \in Vars \ HostVars, p \in Direct \cup Addresses : AssignVar(v, p)
  \/ \E p \in Readable : \E i \in Reach(p) : PushLhs(p, i)
  \/ \E p \in Direct : AssignLhs(p)
  \/ \E p, q \in Readable : Copy(p, q)

Spec == Init /\ [][Next]_vars

(***************************************************************************)
(* Properties.                                                             *)
(***************************************************************************)
TypeOK ==
  /\ made \subseteq Objs
  /\ count \in [Objs -> Nat]
  /\ mem \in [Objs \cup Vars -> [Cells -> Ptr \cup {Null}]]
  /\ cstack \in Seq(Frame)
  /\ candidates \in Seq(Candidate)
  /\ lhs \in Ptr \cup {Null}
  /\ store \in Store \cup {Null}
  /\ calls \in [Objs -> Nat]
  /\ status \in {"running", "error"}
  /\ Idle => store = Null

\* Objects whose items are being released
Dying == {candidates[i].ptr.obj : i \in {j \in DOMAIN candidates : candidates[j].deferred}}

\* The cells that own what they point to: of variables and of live objects, but not
\* the ones that a store in progress has already released
Owning ==
  {c \in (Vars \cup ({o \in Objs : count[o] > 0} \ Dying)) \X Cells :
     store # Null => ~(c[1] = store.of /\ c[2] \in DOMAIN store.new)}

\* A count is the number of owning cells, values about to be stored, candidates and
\* callbacks that refer to the object: at every point of a release, nothing is forgotten
\* and nothing is released twice.
CountsExact ==
  /\ TypeOK
  /\ \A o \in Objs :
       count[o] =
         Cardinality({c \in Owning : Refers(mem[c[1]][c[2]], o)})
         + (IF store = Null THEN 0 ELSE Occurrences(o, store.new))
         + Cardinality({i \in DOMAIN candidates : Refers(candidates[i].ptr, o)})
         + Cardinality({i \in DOMAIN cstack : cstack[i].fn = "onFree" /\ cstack[i].obj = o})

\* No release ever meets a dead object, and whatever the program can reach through its
\* variables is alive when it goes on.
ReachableAlive ==
  /\ status = "running"
  /\ Idle => \A o \in ReachableFrom(Held) : count[o] > 0

\* What the program can no longer reach is freed when the release is over, with the
\* exception of cycles and of what they hold.
ReclaimedWhenIdle ==
  Idle =>
    \A o \in Objs :
      count[o] > 0 /\ o \notin ReachableFrom(Held) =>
        \E d \in Objs : count[d] > 0 /\ d \in ReachableFrom(ItemsOf({d}))
                        /\ o \in ReachableFrom({d})

\* The callback of native data runs once, when its last reference goes.
OnFreeOnce ==
  \A o \in Objs :
    calls[o] = IF o \in Handles \cap made /\ (count[o] = 0 \/ [fn |-> "onFree", obj |-> o] \in ToSet(cstack))
               THEN 1 ELSE 0

\* Both: nothing is left over by a release, and nothing is finalized in vain, however its
\* callbacks interleave with it.
ReclaimedOnce == ReclaimedWhenIdle /\ OnFreeOnce

=============================================================================
