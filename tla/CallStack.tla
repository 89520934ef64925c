----------------------------- MODULE CallStack -----------------------------
(***************************************************************************)
(* Call frames and the detection of escaping pointers                      *)
(* (src/src/umka_vm.c: doEnterFrame, doLeaveFrame, stackUpdateFrameRefCnt).*)
(*                                                                         *)
(* A variable of a function lives in its frame, and a program may take its *)
(* address.  Each frame counts the pointers that lead into it; a function  *)
(* that returns while the count is not zero ends with the run-time error   *)
(* "Pointer to a local variable escapes from the function".  To find the   *)
(* frame of a pointer, the stacks of the running fiber and of its ancestors*)
(* are unwound, which cannot go past a call that was made by C code.       *)
(*                                                                         *)
(* Every frame has one variable of a type `struct {p: ^T}' called T: it can*)
(* hold a pointer, and it can be pointed to.                               *)
(***************************************************************************)
EXTENDS Integers, Sequences, FiniteSets, SequencesExt

CONSTANTS
  Fibers, Root,     \* fibers, and the main fiber
  Parent,           \* Parent[f] is the fiber that creates f (f # Root)
  Chain,            \* Chain[f] is f with all its ancestors
  Shared,           \* variables outside the stacks: global ones, or in the heap
  Null,
  CallbackPointers, \* may a function that C code called count pointers to its callers
  LocalsLeftBehind, \* may control leave a fiber that others have pointers into
  MaxFrames         \* bound on the frames of all stacks

\* A pointer to the variable of a frame; frames are of the same size, and the one
\* that is `depth' deep always has the same address
Pointer == [fiber : Fibers, depth : 1..MaxFrames]

ASSUME CallStackAssumption ==
  /\ IsFiniteSet(Fibers) /\ IsFiniteSet(Shared) /\ MaxFrames \in Nat \ {0}
  /\ Null \notin Shared \cup Pointer /\ Shared \cap Pointer = {}
  /\ Root \in Fibers
  /\ Chain[Root] = {Root}
  /\ \A f \in Fibers \ {Root} :
       Parent[f] \in Fibers /\ Chain[f] = {f} \cup Chain[Parent[f]]
  /\ CallbackPointers \in BOOLEAN /\ LocalsLeftBehind \in BOOLEAN

VARIABLES
  stack,   \* the frames of each fiber, the newest last; <<>> if it is not alive
  shared,  \* the pointers in the shared variables
  made,    \* the fibers that exist
  cur,     \* the running fiber, vm->fiber and pages->fiber
  result,  \* the pointer in REG_RESULT that the caller has not taken yet
  status   \* "running", "done", or the run-time error: "escape", "illegal"

vars == <<stack, shared, made, cur, result, status>>

(***************************************************************************)
(* Data.                                                                   *)
(***************************************************************************)
\* `refs' is the frame reference count, `var' the pointer in the variable; `fromC'
\* if the return address is RETURN_FROM_VM or RETURN_FROM_FIBER
NewFrame(fromC) == [refs |-> 0, var |-> Null, fromC |-> fromC]

Depth(f) == Len(stack[f])
Alive(f) == stack[f] # <<>>
TopVar == [fiber |-> cur, depth |-> Depth(cur)]

\* What the variable at this place holds
Held(place) ==
  IF place \in Shared THEN shared[place] ELSE stack[place.fiber][place.depth].var

\* What the running function can name: its own variable, the shared ones, and the
\* variable that its own one points to
Writable ==
  IF status = "running" THEN (Shared \cup {TopVar, Held(TopVar)}) \ {Null} ELSE {}
Readable == {Held(place) : place \in Writable} \cup {TopVar, Null}

Init ==
  /\ stack = [f \in Fibers |-> IF f = Root THEN <<NewFrame(TRUE)>> ELSE <<>>]
  /\ shared = [s \in Shared |-> Null]
  /\ made = {Root}
  /\ cur = Root
  /\ result = Null
  /\ status = "running"

(***************************************************************************)
(* Counting.                                                               *)
(***************************************************************************)
\* Mutant: only the stack of the running fiber is looked at
SeenRunningOnly(st, p) == p # Null /\ p.fiber = cur /\ p.depth <= Len(st[p.fiber])

\* The loop of chunkRefCnt, and the first test of stackUpdateFrameRefCnt: the pointer
\* leads between the top and the bottom of the stack of a fiber in the chain
Seen(st, p) == p # Null /\ p.fiber \in Chain[cur] /\ p.depth <= Len(st[p.fiber])

\* stackUnwind fails before the frame is found: "Illegal stack pointer"
Unreachable(st, p) ==
  Seen(st, p) /\ \E i \in (p.depth + 1)..Len(st[p.fiber]) : st[p.fiber][i].fromC

\* stackUpdateFrameRefCnt
Counted(st, p, delta) ==
  IF Seen(st, p) THEN [st EXCEPT ![p.fiber][p.depth].refs = @ + delta] ELSE st

\* Unless CallbackPointers, a program counts no pointer that makes unwinding fail
Allowed(st, p) == CallbackPointers \/ ~Unreachable(st, p)

Fail(error) ==
  /\ status' = error
  /\ UNCHANGED <<stack, shared, made, cur, result>>

\* The pointer p is put to the place, the counts being those of st
Store(st, place, p) ==
  IF place \in Shared
  THEN shared' = [shared EXCEPT ![place] = p] /\ stack' = st
  ELSE stack' = [st EXCEPT ![place.fiber][place.depth].var = p] /\ UNCHANGED shared

(***************************************************************************)
(* Operations.                                                             *)
(***************************************************************************)
Running == status = "running" /\ result = Null

FrameFree == Cardinality({p \in Pointer : p.depth <= Depth(p.fiber)}) < MaxFrames

\* doRefCntAssign
Assign(place, p) ==
  /\ Running
  /\ Allowed(stack, p) /\ Allowed(stack, Held(place))
  /\ IF Unreachable(stack, p) \/ Unreachable(stack, Held(place))
     THEN Fail("illegal")
     ELSE /\ Store(Counted(Counted(stack, p, 1), Held(place), -1), place, p)
          /\ UNCHANGED <<made, cur, result, status>>

\* doRefCntAssign for "--": the result of a call is assigned, its count taken over
TakeResult(place) ==
  /\ status = "running" /\ result # Null
  /\ Allowed(stack, Held(place))
  /\ IF Unreachable(stack, Held(place))
     THEN Fail("illegal")
     ELSE /\ Store(Counted(stack, Held(place), -1), place, result)
          /\ result' = Null
          /\ UNCHANGED <<made, cur, status>>

\* The result of a call is not used: the block that called releases it
DropResult ==
  /\ status = "running" /\ result # Null
  /\ Allowed(stack, result)
  /\ IF Unreachable(stack, result)
     THEN Fail("illegal")
     ELSE /\ stack' = Counted(stack, result, -1)
          /\ result' = Null
          /\ UNCHANGED <<shared, made, cur, status>>

\* doEnterFrame: a frame is pushed, its count and variable being zero
Pushed(fromC) == [stack EXCEPT ![cur] = Append(@, NewFrame(fromC))]

\* A function is called: by bytecode (doCall), p being an argument; or by sort() or a
\* native function (qsortCompare), p being a variable that the closure has captured,
\* copied when the function begins
Enter(fromC, p) ==
  /\ Running
  /\ FrameFree
  /\ Allowed(Pushed(fromC), p)
  /\ IF Unreachable(Pushed(fromC), p)
     THEN Fail("illegal")
     ELSE /\ Store(Counted(Pushed(fromC), p, 1), [TopVar EXCEPT !.depth = @ + 1], p)
          /\ UNCHANGED <<made, cur, result, status>>

\* Mutant: the result is counted after the frame has been checked
ReleasedResultLater(r) == Counted(stack, Held(TopVar), -1)

\* Mutant: the variable is released after the frame has been checked
ReleasedTooLate(r) == Counted(stack, r, 1)

\* The epilogue of a function that returns r: the result is counted, and then the
\* variable is released
Released(r) == Counted(Counted(stack, r, 1), Held(TopVar), -1)

\* doLeaveFrame after the epilogue, and doReturn; the first function of a fiber, and
\* one that sort() calls, returns no pointer.  A fiber ends after the fibers it has made
\* (OrphansAllowed = FALSE in Fibers).
Leave(r) ==
  /\ Running
  /\ Last(stack[cur]).fromC => r = Null
  /\ \A c \in made \ {Root} : Depth(cur) = 1 /\ Alive(c) => Parent[c] # cur
  /\ Allowed(stack, r) /\ Allowed(stack, Held(TopVar))
  /\ IF Unreachable(stack, r) \/ Unreachable(stack, Held(TopVar))
     THEN Fail("illegal")
     ELSE IF Last(Released(r)[cur]).refs # 0
     THEN /\ status' = "escape"
          /\ result' = r
          /\ stack' = [Released(r) EXCEPT ![cur][Depth(cur)].var = Null]
          /\ UNCHANGED <<shared, made, cur>>
     ELSE /\ stack' = [Released(r) EXCEPT ![cur] = Front(@)]
          /\ result' = r
          /\ cur' = IF Depth(cur) = 1 /\ cur # Root THEN Parent[cur] ELSE cur
          /\ status' = IF Depth(cur) = 1 /\ cur = Root THEN "done" ELSE "running"
          /\ UNCHANGED <<shared, made>>

\* make(fiber, ...): doAllocFiber, with the captured variable p.  The closure and the
\* copy of p that the function of the fiber makes are one holder of p.
Make(c, p) ==
  /\ Running
  /\ c \notin made /\ Parent[c] = cur /\ FrameFree
  /\ Allowed(stack, p)
  /\ IF Unreachable(stack, p)
     THEN Fail("illegal")
     ELSE /\ made' = made \cup {c}
          /\ stack' = [Counted(stack, p, 1) EXCEPT
                         ![c] = <<[NewFrame(TRUE) EXCEPT !.var = p]>>]
          /\ UNCHANGED <<shared, cur, result, status>>

\* The places that hold the pointer p
Holders(p) ==
  {s \in Shared : shared[s] = p} \cup
  UNION {{[fiber |-> f, depth |-> i] : i \in {i \in DOMAIN stack[f] : stack[f][i].var = p}} :
         f \in Fibers}

\* Unless LocalsLeftBehind, a fiber out of the chain of g is pointed to by its own
\* variables only
LeftAlone(g) ==
  \A f \in Fibers \ Chain[g], i \in 1..MaxFrames :
    \A h \in Holders([fiber |-> f, depth |-> i]) : h \notin Shared /\ h.fiber = f

\* resume(g), or resume() if g is the parent.  Fibers is about switches in functions
\* that C code has called.
Switch(g) ==
  /\ Running
  /\ g \in made \ {cur} /\ Alive(g)
  /\ g = Root => Parent[cur] = Root
  /\ \A i \in 2..Depth(cur) : ~stack[cur][i].fromC
  /\ LocalsLeftBehind \/ LeftAlone(g)
  /\ cur' = g
  /\ UNCHANGED <<stack, shared, made, result, status>>

Next ==
  \/ \E place \in Writable, p \in Readable : Assign(place, p)
  \/ \E place \in Writable : TakeResult(place)
  \/ DropResult
  \/ \E fromC \in BOOLEAN, p \in Readable : Enter(fromC, p)
  \/ \E p \in Readable : Leave(p)
  \/ \E c \in Fibers, p \in Readable : Make(c, p)
  \/ \E g \in Fibers : Switch(g)

Spec == Init /\ [][Next]_vars

(***************************************************************************)
(* Properties.                                                             *)
(***************************************************************************)
TypeOK ==
  /\ stack \in [Fibers -> Seq([refs : Nat, var : Pointer \cup {Null}, fromC : BOOLEAN])]
  /\ shared \in [Shared -> Pointer \cup {Null}]
  /\ made \subseteq Fibers /\ cur \in made
  /\ result \in Pointer \cup {Null}
  /\ status \in {"running", "done", "escape", "illegal"}

\* While a program runs, the count of every frame is the number of variables, on all
\* stacks and elsewhere, that point into it, whichever fiber and function assigned
\* them (stackUpdateFrameRefCnt); and the variables have their types.
FramesCounted ==
  /\ TypeOK
  /\ status = "running" =>
       \A f \in Fibers : \A i \in DOMAIN stack[f] :
         LET p == [fiber |-> f, depth |-> i]
         IN  stack[f][i].refs = Cardinality(Holders(p)) + IF result = p THEN 1 ELSE 0

\* No pointer outlives the frame it leads into: the check of doLeaveFrame has found
\* all those left behind, the result of the function included.
PointersLive ==
  status = "running" =>
    \A f \in Fibers, i \in 1..MaxFrames :
      LET p == [fiber |-> f, depth |-> i]
      IN  Holders(p) # {} \/ result = p => i <= Depth(f)

\* A program is ended for a reason: its pointers can always be counted ("Illegal stack
\* pointer" never comes up), and when doLeaveFrame says that a pointer to a local
\* variable escapes, one is the result or in a variable that outlives the function.
AlarmsTrue ==
  /\ status # "illegal"
  /\ status = "escape" => result = TopVar \/ Holders(TopVar) \ {TopVar} # {}

=============================================================================
