------------------------------- MODULE Fibers -------------------------------
(***************************************************************************)
(* The fibers of the Umka virtual machine and the C code around them       *)
(* (src/src/umka_vm.c: vmLoop, doBuiltinResume, doReturn, qsortCompare,    *)
(* doCallExtern, vmCall, vmResumeHostFiberValue).                          *)
(*                                                                         *)
(* Each fiber has a stack of its own, but they all run on the one C stack  *)
(* of the thread.  vmLoop switches fibers by assigning its local variable  *)
(* `fiber' and vm->fiber, and it is re-entered from C: by sort() for every *)
(* comparison, and by a native function that calls umkaCall() or           *)
(* umkaResumeFiber().  A loop ends when the running fiber pops the address *)
(* RETURN_FROM_VM, or when control reaches a fiber that waits for the host *)
(* or is dead: nothing in the code relates the loop that ends to the loop  *)
(* that the address was pushed for.                                        *)
(***************************************************************************)
EXTENDS Integers, Sequences, FiniteSets, SequencesExt

CONSTANTS
  Fibers, Main,    \* fibers, and vm->mainFiber
  Boundary,        \* hostBoundary, the fiber on the C stack of umkaResumeFiber()
  NoFiber,         \* NULL
  OrphansAllowed,  \* may a fiber end while fibers it has made are alive
  YieldInNested,   \* may a fiber switch leave the loop of a comparison or a callback
  MaxNesting,      \* bound on the frames of the C stack
  MaxCalls         \* bound on the return addresses on the stack of a fiber

ASSUME FibersAssumption ==
  /\ IsFiniteSet(Fibers)
  /\ Main \in Fibers
  /\ Boundary \notin Fibers /\ NoFiber \notin Fibers /\ Boundary # NoFiber
  /\ OrphansAllowed \in BOOLEAN /\ YieldInNested \in BOOLEAN

VARIABLES
  made,     \* the fibers that are allocated
  alive,    \* fiber->alive
  parent,   \* fiber->parent
  ip,       \* "vm" if fiber->ip is RETURN_FROM_VM, or else "code"
  ret,      \* the return addresses on the stack of each fiber
  cstack,   \* the C stack: activations of vmLoop and of the native code between them
  vmFiber,  \* vm->fiber, and pages->fiber
  host      \* vm->hostResumeActive, ...Fiber, ...Parent, ...Current

vars == <<made, alive, parent, ip, ret, cstack, vmFiber, host>>

(***************************************************************************)
(* Data.                                                                   *)
(***************************************************************************)
AnyFiber == Fibers \cup {Boundary, NoFiber}

\* Return addresses: into a function, RETURN_FROM_FIBER, or RETURN_FROM_VM.  The
\* last is the depth of the C stack (ghost) at which vmLoop was called for it.
IntoFunction == 0
ReturnFromFiber == -1

\* A frame of the C stack: a vmLoop, whose local `fiber' this is, called by
\* vmCall, by vmResumeHostFiberValue or by qsortCompare; or a sort() or a native
\* function, called by this fiber.
LoopKinds == {"call", "resume", "compare"}
Frame == [kind : LoopKinds \cup {"sort", "extern"}, fiber : Fibers]

NoHost == [active |-> FALSE, fiber |-> NoFiber, parent |-> NoFiber, current |-> NoFiber]

Depth == Len(cstack)
Top == Last(cstack)

Init ==
  /\ made = {Main}
  /\ alive = [f \in Fibers |-> f = Main]
  /\ parent = [f \in Fibers |-> NoFiber]
  /\ ip = [f \in Fibers |-> "code"]
  /\ ret = [f \in Fibers |-> <<>>]
  /\ cstack = <<>>
  /\ vmFiber = Main
  /\ host = NoHost

(***************************************************************************)
(* The program whose code is executed.                                     *)
(***************************************************************************)
\* The fiber that executes bytecode
Runs(f) == Depth > 0 /\ Top.kind \in LoopKinds /\ Top.fiber = f

\* Native code that may use the API: the host program, or a function it registered
Native == Depth > 0 => Top.kind = "extern"

ResumeDepths == {i \in DOMAIN cstack : cstack[i].kind = "resume"}

\* The loops that wait for fiber g to get control, or for the host to
Home(g) ==
  IF host.active /\ g \in {Boundary, host.current} THEN ResumeDepths
  ELSE {ret[g][i] : i \in DOMAIN ret[g]} \ {IntoFunction, ReturnFromFiber}

\* Unless YieldInNested, comparisons and callbacks do not switch away for good:
\* control goes neither to a fiber that only outer loops wait for nor back to the
\* host through the loop of a comparison.
StaysInLoop(g) == YieldInNested \/ Home(g) = {} \/ Depth \in Home(g)

\* Unless OrphansAllowed, a fiber ends after the fibers it has made
Childless(f) == OrphansAllowed \/ \A c \in made : alive[c] => parent[c] # f

(***************************************************************************)
(* vmLoop: leaving it and switching fibers.                                *)
(***************************************************************************)
WaitsForHost(g) == g = Boundary \/ ip[g] = "vm"

\* Mutant: the fields are cleared before they are read
FinishClearingFirst ==
  /\ parent' = [parent EXCEPT ![host.fiber] = host.parent]
  /\ vmFiber' = NoHost.current
  /\ host' = NoHost

\* vmFinishHostFiberResume
FinishHostFiberResume ==
  /\ parent' = [parent EXCEPT ![host.fiber] = host.parent]
  /\ vmFiber' = host.current
  /\ host' = NoHost

\* The topmost vmLoop returns to its C caller, ips being the ip's of the fibers and
\* g being vm->fiber.  qsortCompare restores the ip of the fiber that sorts, and
\* vmResumeHostFiberValue undoes the host resume (vmFinishHostFiberResume).
LoopReturns(ips, g) ==
  /\ cstack' = Front(cstack)
  /\ \/ /\ Top.kind = "call"
        /\ ip' = ips /\ vmFiber' = g
        /\ UNCHANGED <<parent, host>>
     \/ /\ Top.kind = "compare"
        /\ ip' = [ips EXCEPT ![cstack[Depth - 1].fiber] = "code"]
        /\ vmFiber' = g
        /\ UNCHANGED <<parent, host>>
     \/ /\ Top.kind = "resume"
        /\ ip' = ips
        /\ FinishHostFiberResume

\* Mutant: only the local variable of vmLoop is assigned
SwitchToLocally(g, lives) ==
  IF g # Boundary /\ lives[g] /\ ~WaitsForHost(g)
  THEN /\ cstack' = [cstack EXCEPT ![Depth].fiber = g]
       /\ UNCHANGED <<vmFiber, parent, ip, host>>
  ELSE LoopReturns(ip, g)

\* Control goes from the running fiber to g; lives says who is alive.  The loop goes
\* on with g, or ends if g is dead or waits for the host.
SwitchTo(g, lives) ==
  IF g # Boundary /\ lives[g] /\ ~WaitsForHost(g)
  THEN /\ cstack' = [cstack EXCEPT ![Depth].fiber = g]
       /\ vmFiber' = g
       /\ UNCHANGED <<parent, ip, host>>
  ELSE LoopReturns(ip, g)

(***************************************************************************)
(* Bytecode.                                                               *)
(***************************************************************************)
\* Mutant: the parent that the copied context had is kept
MakeSibling(f, c) ==
  /\ Runs(f) /\ c \notin made
  /\ made' = made \cup {c}
  /\ alive' = [alive EXCEPT ![c] = alive[f]]
  /\ parent' = [parent EXCEPT ![c] = parent[f]]
  /\ ip' = [ip EXCEPT ![c] = "code"]
  /\ ret' = [ret EXCEPT ![c] = <<ReturnFromFiber>>]
  /\ UNCHANGED <<cstack, vmFiber, host>>

\* make(fiber, fn): doAllocFiber copies the context of the running fiber
Make(f, c) ==
  /\ Runs(f) /\ c \notin made
  /\ made' = made \cup {c}
  /\ alive' = [alive EXCEPT ![c] = alive[f]]
  /\ parent' = [parent EXCEPT ![c] = f]
  /\ ip' = [ip EXCEPT ![c] = "code"]
  /\ ret' = [ret EXCEPT ![c] = <<ReturnFromFiber>>]
  /\ UNCHANGED <<cstack, vmFiber, host>>

\* The last reference to a dead fiber goes: its memory may become another fiber.
\* (The last reference to one that is alive is a runtime error.)
Destroy(c) ==
  /\ Depth > 0
  /\ c \in made /\ c # Main /\ ~alive[c] /\ c # vmFiber
  /\ \A i \in DOMAIN cstack : cstack[i].fiber # c
  /\ made' = made \ {c}
  /\ UNCHANGED <<alive, parent, ip, ret, cstack, vmFiber, host>>

Call(f) ==
  /\ Runs(f) /\ Len(ret[f]) < MaxCalls
  /\ ret' = [ret EXCEPT ![f] = Append(@, IntoFunction)]
  /\ UNCHANGED <<made, alive, parent, ip, cstack, vmFiber, host>>

\* doReturn, by the kind of the return address
Return(f) ==
  /\ Runs(f) /\ ret[f] # <<>>
  /\ ret' = [ret EXCEPT ![f] = Front(@)]
  /\ \/ /\ Last(ret[f]) = IntoFunction
        /\ UNCHANGED <<alive, parent, ip, cstack, vmFiber, host>>
     \/ /\ Last(ret[f]) = ReturnFromFiber
        /\ Childless(f) /\ StaysInLoop(parent[f])
        /\ alive' = [alive EXCEPT ![f] = FALSE]
        /\ SwitchTo(parent[f], alive')
     \/ /\ Last(ret[f]) > 0
        /\ LoopReturns([ip EXCEPT ![f] = "vm"], f)
        /\ UNCHANGED alive
  /\ UNCHANGED made

\* doBuiltinResume: the fiber that goes on
Target(f, c) ==
  IF c # NoFiber /\ alive[c] THEN c
  ELSE IF c = NoFiber /\ parent[f] # NoFiber THEN parent[f] ELSE f

\* resume(c), or resume() if c is NULL
Resume(f, c) ==
  /\ Runs(f)
  /\ StaysInLoop(Target(f, c))
  /\ SwitchTo(Target(f, c), alive)
  /\ UNCHANGED <<made, alive, ret>>

\* sort() with a comparison function, doBuiltinSort
Sort(f) ==
  /\ Runs(f) /\ Depth < MaxNesting
  /\ cstack' = Append(cstack, [kind |-> "sort", fiber |-> f])
  /\ UNCHANGED <<made, alive, parent, ip, ret, vmFiber, host>>

\* Mutant: RETURN_FROM_VM is not pushed
CompareReturningToFunction ==
  /\ Depth > 0 /\ Depth < MaxNesting /\ Top.kind = "sort" /\ Len(ret[Top.fiber]) < MaxCalls
  /\ ret' = [ret EXCEPT ![Top.fiber] = Append(@, IntoFunction)]
  /\ ip' = [ip EXCEPT ![Top.fiber] = "code"]
  /\ cstack' = Append(cstack, [kind |-> "compare", fiber |-> vmFiber])
  /\ UNCHANGED <<made, alive, parent, vmFiber, host>>

\* qsortCompare: the call is set up on the stack of the fiber that sorts, and vmLoop
\* starts with vm->fiber
Compare ==
  /\ Depth > 0 /\ Depth < MaxNesting /\ Top.kind = "sort" /\ Len(ret[Top.fiber]) < MaxCalls
  /\ ret' = [ret EXCEPT ![Top.fiber] = Append(@, Depth + 1)]
  /\ ip' = [ip EXCEPT ![Top.fiber] = "code"]
  /\ cstack' = Append(cstack, [kind |-> "compare", fiber |-> vmFiber])
  /\ UNCHANGED <<made, alive, parent, vmFiber, host>>

\* The sort is done: OP_CALL_BUILTIN goes on in the loop that called it, with the
\* fiber that loop had
SortDone ==
  /\ Depth > 0 /\ Top.kind = "sort"
  /\ cstack' = Front(cstack)
  /\ UNCHANGED <<made, alive, parent, ip, ret, vmFiber, host>>

\* A native function is called, doCallExtern
Extern(f) ==
  /\ Runs(f) /\ Depth < MaxNesting
  /\ cstack' = Append(cstack, [kind |-> "extern", fiber |-> f])
  /\ UNCHANGED <<made, alive, parent, ip, ret, vmFiber, host>>

\* and returns
ExternReturns ==
  /\ Depth > 0 /\ Top.kind = "extern"
  /\ cstack' = Front(cstack)
  /\ ip' = [ip EXCEPT ![Top.fiber] = "code"]
  /\ UNCHANGED <<made, alive, parent, ret, vmFiber, host>>

\* Mutant: umkaResumeFiber() returns the error without undoing the host resume
ErrorKeepingResume(f) ==
  /\ Depth > 0 /\ Top.fiber = f
  /\ \/ alive' = [alive EXCEPT ![Main] = FALSE]
     \/ Runs(f) /\ alive' = [alive EXCEPT ![Main] = FALSE, ![f] = FALSE]
  /\ cstack' = <<>>
  /\ UNCHANGED <<made, parent, ip, ret, vmFiber, host>>

\* A runtime error, exit() or an interrupt: vmKill, then a longjmp to the API function
\* that entered the VM first.  Only umkaResumeFiber() undoes a host resume there.
Error(f) ==
  /\ Depth > 0 /\ Top.fiber = f
  /\ \/ alive' = [alive EXCEPT ![Main] = FALSE]
     \/ Runs(f) /\ alive' = [alive EXCEPT ![Main] = FALSE, ![f] = FALSE]
  /\ cstack' = <<>>
  /\ IF cstack[1].kind = "resume"
     THEN FinishHostFiberResume
     ELSE UNCHANGED <<parent, vmFiber, host>>
  /\ UNCHANGED <<made, ip, ret>>

(***************************************************************************)
(* The API.                                                                *)
(***************************************************************************)
\* umkaRun, umkaCall: vmCall, for as long as umkaAlive.  "Cannot run a dead fiber"
\* is its one error.
HostCall ==
  /\ Native /\ alive[Main] /\ alive[vmFiber]
  /\ Depth < MaxNesting /\ Len(ret[vmFiber]) < MaxCalls
  /\ ret' = [ret EXCEPT ![vmFiber] = Append(@, Depth + 1)]
  /\ ip' = [ip EXCEPT ![vmFiber] = "code"]
  /\ cstack' = Append(cstack, [kind |-> "call", fiber |-> vmFiber])
  /\ UNCHANGED <<made, alive, parent, vmFiber, host>>

\* Mutant: the fiber may be dead
ResumableDeadToo(c) ==
  /\ ~host.active /\ alive[Main]
  /\ c \in made
  /\ alive[vmFiber] /\ ip[vmFiber] = "vm" /\ c # vmFiber
  /\ parent[c] = vmFiber

\* The fibers that vmResumeHostFiberValue accepts
Resumable(c) ==
  /\ ~host.active /\ alive[Main]
  /\ c \in made /\ alive[c]
  /\ alive[vmFiber] /\ ip[vmFiber] = "vm" /\ c # vmFiber
  /\ parent[c] = vmFiber

\* umkaResumeFiber, umkaResumeFiberValue
HostResume(c) ==
  /\ Native /\ Depth < MaxNesting
  /\ Resumable(c) /\ StaysInLoop(c)
  /\ host' = [active |-> TRUE, fiber |-> c, parent |-> parent[c], current |-> vmFiber]
  /\ parent' = [parent EXCEPT ![c] = Boundary]
  /\ vmFiber' = c
  /\ cstack' = Append(cstack, [kind |-> "resume", fiber |-> c])
  /\ UNCHANGED <<made, alive, ip, ret>>

\* umkaFree: vmCleanup runs up to OP_HALT, doHalt
Cleanup ==
  /\ Depth = 0 /\ alive[Main]
  /\ alive' = [alive EXCEPT ![vmFiber] = FALSE]
  /\ UNCHANGED <<made, parent, ip, ret, cstack, vmFiber, host>>

Next ==
  \/ \E f, c \in Fibers : Make(f, c)
  \/ \E c \in Fibers : Destroy(c)
  \/ \E f \in Fibers : Call(f)
  \/ \E f \in Fibers : Return(f)
  \/ \E f \in Fibers, c \in (made \ {Main}) \cup {NoFiber} : Resume(f, c)
  \/ \E f \in Fibers : Sort(f)
  \/ Compare
  \/ SortDone
  \/ \E f \in Fibers : Extern(f)
  \/ ExternReturns
  \/ \E f \in Fibers : Error(f)
  \/ HostCall
  \/ \E c \in Fibers : HostResume(c)
  \/ Cleanup

Spec == Init /\ [][Next]_vars

(***************************************************************************)
(* Properties.                                                             *)
(***************************************************************************)
\* The fibers have the shape of the C declarations, and the C stack alternates as the
\* code nests: a sort contains only comparisons, and a comparison is only in a sort.
TypeOK ==
  /\ made \subseteq Fibers /\ Main \in made
  /\ alive \in [Fibers -> BOOLEAN]
  /\ parent \in [Fibers -> AnyFiber]
  /\ ip \in [Fibers -> {"code", "vm"}]
  /\ ret \in [Fibers -> Seq(Nat \cup {ReturnFromFiber})]
  /\ cstack \in Seq(Frame)
  /\ vmFiber \in AnyFiber \ {NoFiber}
  /\ host \in [active : BOOLEAN, fiber : AnyFiber, parent : AnyFiber, current : AnyFiber]
  /\ \A i \in DOMAIN cstack :
       cstack[i].kind = "compare" <=> i > 1 /\ cstack[i - 1].kind = "sort"

\* A loop is left through the RETURN_FROM_VM that was pushed when it was entered:
\* control comes back to C in the call of vmLoop that C is waiting for.
ReturnsMatch ==
  \A f \in Fibers :
    Runs(f) /\ ret[f] # <<>> /\ Last(ret[f]) > 0 => Last(ret[f]) = Depth

\* Whatever is on top of the C stack runs on vm->fiber: the fiber whose stack
\* umkaCall() and the runtime errors use is the one the C code holds in a local
\* variable, it is allocated and alive, and inside its code.
RunningIsVmFiber ==
  Depth > 0 =>
    /\ Top.fiber = vmFiber
    /\ vmFiber \in made /\ alive[vmFiber]
    /\ Top.kind \in LoopKinds => ip[vmFiber] = "code"

\* As long as umkaAlive(), the next umkaCall() finds the main fiber ready, with the
\* stack as deep as it was left: nothing that ran before has leaked a return address.
CallRunnable ==
  alive[Main] /\ Depth = 0 => vmFiber = Main /\ ret[Main] = <<>>

\* The boundary fiber, which lives on the C stack of umkaResumeFiber(), is reachable
\* only from the resumed fiber, and only until that call returns.
BoundaryScoped ==
  alive[Main] =>
    /\ vmFiber # Boundary
    /\ host.active <=> ResumeDepths # {}
    /\ \A f \in made : parent[f] = Boundary => host.active /\ f = host.fiber

\* When umkaResumeFiber() ends, whether its loop returns or an error lands in it, the
\* fiber that called it (the main fiber, if the host program did) is vm->fiber and the
\* parent of the resumed fiber again, and no fiber has the boundary as its parent.
\* An error that lands in umkaCall() below it passes it by: nothing is asked then.
ResumeUndone ==
  \A d \in ResumeDepths : ResumeDepths' = {} /\ (d = 1 \/ alive'[Main]) =>
    LET caller == IF d = 1 THEN Main ELSE cstack[d - 1].fiber
    IN  /\ ~host'.active
        /\ vmFiber' = caller /\ parent'[host.fiber] = caller
        /\ \A f \in made' : parent'[f] # Boundary

\* A call from the host leaves nothing behind.  As long as the interpreter lives the
\* machine is ready for the next call, with neither the record of a resume nor a
\* boundary fiber; and if an error ends umkaResumeFiber(), and the interpreter with it,
\* the family of the resumed fiber is repaired all the same.
HostLeavesNoTrace == [](CallRunnable /\ BoundaryScoped) /\ [][ResumeUndone]_vars

\* umkaResumeFiber() changes nothing about whose child the fiber is: the parent of
\* every live fiber is, or will be again when the host resume ends, a live fiber.
FamilyKept ==
  alive[Main] =>
    \A f \in made \ {Main} : alive[f] =>
      LET p == IF host.active /\ f = host.fiber THEN host.parent ELSE parent[f]
      IN  p \in made /\ alive[p]

\* resume(c), or resume() if c is NULL, in fiber f asks for a fiber that is dead or does
\* not exist
Absent(f, c) ==
  IF c # NoFiber THEN ~alive[c]
  ELSE parent[f] = NoFiber \/ (parent[f] \in Fibers /\ ~alive[parent[f]])

\* A dead fiber stays dead and nothing is ever executed on its stack again, however
\* many references to it the program resumes: the fiber that asks for it goes on.
DeadIsFinal ==
  [][/\ \A f \in made \cap made' :
          ~alive[f] => ~alive'[f] /\ UNCHANGED <<ret[f], ip[f]>> /\ (vmFiber' = f => vmFiber = f)
     /\ \A f \in Fibers, c \in (made \ {Main}) \cup {NoFiber} :
          Resume(f, c) /\ Absent(f, c) => cstack' = cstack /\ vmFiber' = f]_vars

=============================================================================
