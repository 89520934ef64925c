------------------------------- MODULE Session -------------------------------
(***************************************************************************)
(* One interpreter as its host uses it (src/src/umka_api.c: umkaCompile,   *)
(* umkaRun, umkaCall, umkaResumeFiber, umkaFree, umka...Interrupt; their   *)
(* counterparts in umka_compiler.c and umka_vm.c).                         *)
(*                                                                         *)
(* Errors travel by longjmp to the one jump buffer of the interpreter,     *)
(* error.jumper.  The API function that enters the VM first arms it; those *)
(* entered from native code below it do not, which error.jumperNesting     *)
(* tells them.  Nothing takes the buffer back when its function returns.   *)
(* Another thread may request an interrupt at any time: the VM looks at    *)
(* the request before each instruction and turns it into an error.         *)
(* Native code that the cleanup calls is taken not to enter the VM.        *)
(***************************************************************************)
EXTENDS Integers, Sequences, FiniteSets, SequencesExt

CONSTANTS
  Messages,    \* texts of interrupt requests
  NoMessage,   \* the empty text, for which INTERRUPT_DEFAULT_MSG is reported
  Unruly,      \* what the environment does although nothing catches its errors:
               \* requests during umkaFree(), failing cleanup code, failing API calls
               \* of the host program, umkaRun() in native code
  MaxDepth     \* bound on the frames of the C stack

ASSUME SessionAssumption ==
  /\ NoMessage \notin Messages
  /\ Unruly \subseteq {"request", "fail", "host", "run"}
  /\ MaxDepth \in Nat

VARIABLES
  phase,       \* how far the interpreter is between umkaInit() and umkaFree()
  cstack,      \* the C stack: API functions, and the native functions between them
  nesting,     \* error.jumperNesting
  alive,       \* vm->mainFiber->alive
  waiting,     \* vm->fiber->ip = RETURN_FROM_VM
  resuming,    \* vm->hostResumeActive
  flag, msg,   \* vm->interruptRequested and vm->interruptMsg
  requester,   \* the requesting thread: idle, or about to set the flag
  clearing,    \* the host's thread is in vmClearInterrupt(), the flag cleared
  saved,       \* the request that vmCleanup() has put aside
  expected     \* the messages that an interrupt may report (ghost)

host == <<phase, cstack, nesting, alive, waiting, resuming>>
interrupt == <<flag, msg, requester, clearing, saved, expected>>
vars == <<host, interrupt>>

(***************************************************************************)
(* Data.                                                                   *)
(***************************************************************************)
\* A C activation.  The one that is armed is where longjmp(error.jumper) goes; if
\* there is none, the function that filled error.jumper has returned.
Entries == {"run", "call", "resume"}
Kinds == Entries \cup {"compile", "native", "cleanup"}
Frame == [kind : Kinds, armed : BOOLEAN]

Depth == Len(cstack)
Top == Last(cstack)
ArmedFrames == {i \in DOMAIN cstack : cstack[i].armed}
EntryFrames == {i \in DOMAIN cstack : cstack[i].kind \in Entries}

\* vmLoop() executes bytecode
InLoop ==
  /\ phase # "crashed" /\ ~clearing
  /\ Depth > 0 /\ Top.kind \in Entries \cup {"cleanup"}

\* Host code that may use the API: the host program, or a function the VM has called
HostRuns ==
  /\ phase \notin {"freed", "crashed"} /\ ~clearing
  /\ Depth > 0 => Top.kind = "native"

Init ==
  /\ phase = "initialized"
  /\ cstack = <<>> /\ nesting = 0
  /\ alive = TRUE /\ waiting = FALSE /\ resuming = FALSE
  /\ flag = FALSE /\ msg = NoMessage
  /\ requester = "idle" /\ clearing = FALSE
  /\ saved = <<FALSE, NoMessage>> /\ expected = {}

(***************************************************************************)
(* Frames and jumps.                                                       *)
(***************************************************************************)
\* setjmp(error.jumper) in a new frame: frames that were armed are no longer
PushArmed(kind) ==
  cstack' = Append([i \in DOMAIN cstack |-> [cstack[i] EXCEPT !.armed = FALSE]],
                   [kind |-> kind, armed |-> TRUE])

\* setjmp(dummyJumper), or no setjmp
PushUnarmed(kind) == cstack' = Append(cstack, [kind |-> kind, armed |-> FALSE])

\* Mutant: every call sets the jumper
PushEntryArmed(kind) ==
  /\ Depth < MaxDepth
  /\ PushArmed(kind)
  /\ nesting' = nesting + 1

\* umkaCall, apiResumeFiber: nested calls do not touch the jumper
PushEntry(kind) ==
  /\ Depth < MaxDepth
  /\ IF nesting = 0 THEN PushArmed(kind) ELSE PushUnarmed(kind)
  /\ nesting' = nesting + 1

\* Mutant: each entry catches the errors that are raised in it
JumpToTop ==
  /\ alive' = FALSE
  /\ \/ /\ EntryFrames = {}
        /\ phase' = "crashed"
        /\ UNCHANGED cstack
     \/ \E i \in EntryFrames :
          /\ \A j \in EntryFrames : j <= i
          /\ cstack' = SubSeq(cstack, 1, i - 1)
          /\ UNCHANGED phase
  /\ UNCHANGED <<nesting, resuming, waiting>>

\* longjmp(error.jumper), after vmKill.  The function that it lands in returns the
\* error; apiResumeFiber also undoes the host resume and the nesting.  Landing in a
\* function that has returned is undefined: the phase is then "crashed".
Jump ==
  /\ alive' = FALSE
  /\ \/ /\ ArmedFrames = {}
        /\ phase' = "crashed"
        /\ UNCHANGED <<cstack, nesting, resuming>>
     \/ \E i \in ArmedFrames :
          /\ cstack' = SubSeq(cstack, 1, i - 1)
          /\ IF cstack[i].kind = "resume"
             THEN resuming' = FALSE /\ nesting' = nesting - 1
             ELSE UNCHANGED <<resuming, nesting>>
          /\ UNCHANGED phase
  /\ UNCHANGED waiting

(***************************************************************************)
(* The host's thread.                                                      *)
(***************************************************************************)
Compile ==
  /\ phase = "initialized" /\ HostRuns
  /\ phase' = "compiling"
  /\ PushArmed("compile")
  /\ UNCHANGED <<nesting, alive, waiting, resuming, interrupt>>

Compiled ==
  /\ phase = "compiling" /\ alive
  /\ phase' = "ready"
  /\ cstack' = Front(cstack)
  /\ UNCHANGED <<nesting, alive, waiting, resuming, interrupt>>

\* compileError
CompileError ==
  /\ phase = "compiling" /\ alive
  /\ Jump
  /\ UNCHANGED interrupt

\* umkaRun sets the jumper whatever the nesting
Run ==
  /\ phase = "ready" /\ alive /\ HostRuns /\ Depth < MaxDepth
  /\ Depth > 0 => "run" \in Unruly
  /\ PushArmed("run")
  /\ nesting' = nesting + 1
  /\ waiting' = FALSE
  /\ UNCHANGED <<phase, alive, resuming, interrupt>>

Call ==
  /\ phase = "ready" /\ alive /\ HostRuns
  /\ PushEntry("call")
  /\ waiting' = FALSE
  /\ UNCHANGED <<phase, alive, resuming, interrupt>>

\* umkaResumeFiber of a fiber that can be resumed, vmResumeHostFiberValue.  The fiber
\* that was current keeps its ip; the resumed one is inside its code.  (A resume that
\* is refused leaves all this as it was.)
Resume ==
  /\ phase = "ready" /\ alive /\ HostRuns
  /\ ~resuming /\ waiting
  /\ PushEntry("resume")
  /\ resuming' = TRUE
  /\ waiting' = FALSE
  /\ UNCHANGED <<phase, alive, interrupt>>

\* Unless "request" \in Unruly, the other thread is done when umkaFree() is called
MayFree == Depth = 0 /\ HostRuns /\ (requester = "flag" => "request" \in Unruly)

\* What may be reported after a request has been cleared: nothing, unless its flag is
\* still to be set; its message is lost
Cleared == IF requester = "flag" THEN {NoMessage} ELSE {}

\* umkaFree of a live interpreter: vmCleanup puts the request aside, begins to clear it
\* (ClearMessage ends that) and then runs the cleanup code, with no jumper of its own
Free ==
  /\ phase = "ready" /\ alive /\ MayFree
  /\ phase' = "cleanup"
  /\ PushUnarmed("cleanup")
  /\ waiting' = FALSE
  /\ saved' = <<flag, msg>>
  /\ flag' = FALSE /\ clearing' = TRUE
  /\ expected' = Cleared
  /\ UNCHANGED <<nesting, alive, resuming, msg, requester>>

\* umkaFree of a terminated one: only vmFree
FreeDead ==
  /\ phase \in {"compiling", "ready"} /\ ~alive /\ MayFree
  /\ phase' = "freed"
  /\ UNCHANGED <<cstack, nesting, alive, waiting, resuming, interrupt>>

\* An API function other than those below fails, such as umkaMakeStr, umkaAllocData,
\* umkaGetFunc or umkaAddModule: compileError or runtimeError, whether a native
\* function has called it or, with nothing of Umka on the C stack, the host program
ApiFails ==
  /\ HostRuns
  /\ Depth = 0 => "host" \in Unruly
  /\ phase = "cleanup" => "fail" \in Unruly
  /\ Jump
  /\ UNCHANGED interrupt

NativeReturns ==
  /\ HostRuns /\ Depth > 0
  /\ cstack' = Front(cstack)
  /\ waiting' = FALSE
  /\ UNCHANGED <<phase, nesting, alive, resuming, interrupt>>

(***************************************************************************)
(* The VM.                                                                 *)
(***************************************************************************)
\* Mutant: the request is looked at in the outermost loop only
DispatchesNested == InLoop /\ (flag => Depth > 1)

\* An instruction is dispatched: no interrupt is pending.  Those that are not modelled
\* below leave all this as it is.
Dispatches == InLoop /\ ~flag

\* OP_CALL_EXTERN, or an onFree function: a native function is called
Native ==
  /\ Dispatches /\ Depth < MaxDepth
  /\ PushUnarmed("native")
  /\ UNCHANGED <<phase, nesting, alive, waiting, resuming, interrupt>>

\* Mutant: the nesting is left as it is when a function returns normally
LoopReturnsNested ==
  /\ Dispatches /\ Top.kind # "cleanup"
  /\ cstack' = Front(cstack)
  /\ waiting' = TRUE
  /\ resuming' = (resuming /\ Top.kind # "resume")
  /\ UNCHANGED <<phase, alive, nesting, interrupt>>

\* vmLoop ends and the API function returns
LoopReturns ==
  /\ Dispatches /\ Top.kind # "cleanup"
  /\ cstack' = Front(cstack)
  /\ nesting' = nesting - 1
  /\ waiting' = TRUE
  /\ resuming' = (resuming /\ Top.kind # "resume")
  /\ UNCHANGED <<phase, alive, interrupt>>

\* OP_HALT ends the cleanup, doHalt.  vmCleanup puts the request back; vmFree.
Halt ==
  /\ Dispatches /\ Top.kind = "cleanup"
  /\ cstack' = Front(cstack)
  /\ alive' = FALSE
  /\ phase' = "freed"
  /\ flag' = saved[1] /\ msg' = saved[2]
  /\ UNCHANGED <<nesting, waiting, resuming, requester, clearing, saved, expected>>

\* An instruction fails, or is exit()
Fail ==
  /\ Dispatches
  /\ phase = "cleanup" => "fail" \in Unruly
  /\ Jump
  /\ UNCHANGED interrupt

\* doCheckInterrupt: the error reports the message
Interrupted ==
  /\ InLoop /\ flag
  /\ Jump
  /\ UNCHANGED interrupt

(***************************************************************************)
(* Interrupts.                                                             *)
(***************************************************************************)
\* Mutant: the flag is written first, and the message may come too late
RequestFlagFirst(m) ==
  /\ phase \in {"initialized", "compiling", "ready"} /\ requester = "idle"
  /\ flag' = TRUE /\ requester' = "flag"
  /\ expected' = {m}
  /\ UNCHANGED <<host, msg, clearing, saved>>

\* vmRequestInterrupt writes the message,
Request(m) ==
  /\ \/ phase \in {"initialized", "compiling", "ready"}
     \/ phase = "cleanup" /\ "request" \in Unruly
  /\ requester = "idle"
  /\ msg' = m
  /\ requester' = "flag"
  /\ expected' = {m} \cup (IF clearing THEN {NoMessage} ELSE {})
  /\ UNCHANGED <<host, flag, clearing, saved>>

\* then the flag
RequestFlag ==
  /\ requester = "flag" /\ phase # "crashed"
  /\ flag' = TRUE
  /\ requester' = "idle"
  /\ UNCHANGED <<host, msg, clearing, saved, expected>>

\* vmClearInterrupt clears the flag,
Clear ==
  /\ HostRuns
  /\ flag' = FALSE
  /\ clearing' = TRUE
  /\ expected' = Cleared
  /\ UNCHANGED <<host, msg, requester, saved>>

\* then the message
ClearMessage ==
  /\ clearing
  /\ msg' = NoMessage
  /\ clearing' = FALSE
  /\ UNCHANGED <<host, flag, requester, saved, expected>>

Next ==
  \/ Compile \/ Compiled \/ CompileError
  \/ Run \/ Call \/ Resume
  \/ Free \/ FreeDead
  \/ ApiFails \/ NativeReturns
  \/ Native \/ LoopReturns \/ Halt \/ Fail \/ Interrupted
  \/ \E m \in Messages : Request(m)
  \/ RequestFlag \/ Clear \/ ClearMessage

\* The thread of the VM runs, native functions return, and so does vmClearInterrupt
Fairness ==
  /\ WF_vars(Interrupted)
  /\ WF_vars(NativeReturns)
  /\ WF_vars(ClearMessage)

Spec == Init /\ [][Next]_vars /\ Fairness

(***************************************************************************)
(* Properties.                                                             *)
(***************************************************************************)
\* Only the host program's own calls and the cleanup code raise errors that longjmp()
\* takes to a frame that has returned.  Whenever umkaCompile(), umkaRun(), umkaCall() or
\* umkaResumeFiber() is active, at whatever depth below the function that fails, the
\* error lands in an active one.
ErrorsCaught ==
  phase = "crashed" => \A i \in DOMAIN cstack : cstack[i].kind \in {"cleanup", "native"}

\* While the interpreter lives, error.jumperNesting is the number of API functions
\* that have entered the VM, whatever way the inner ones were left, and a host resume
\* is recorded exactly while umkaResumeFiber() is active.
NestingExact ==
  alive =>
    /\ nesting = Cardinality(EntryFrames)
    /\ resuming <=> \E i \in DOMAIN cstack : cstack[i].kind = "resume"

\* A terminated interpreter has left the C stack: an error that is caught ends all the
\* activations of the VM and the native functions between them, so that nothing goes on
\* executing on top of it.
DeadUnwinds == ~alive /\ phase # "crashed" => cstack = <<>>

\* The message that an interrupt reports is that of the latest request; only a request
\* that overlaps umkaClearInterrupt() or the beginning of umkaFree() may be reported with
\* the default message.  A request that was made before either of them ends nothing.
ReportsRequest == InLoop /\ flag => msg \in expected

\* An interrupt that is requested while the VM is in use ends its use, however deep the
\* native callbacks are nested, unless the request is cleared.
InterruptEnds == (flag /\ EntryFrames # {}) ~> (EntryFrames = {} \/ ~flag)

=============================================================================
