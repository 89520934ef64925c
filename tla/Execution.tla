------------------------------ MODULE Execution ------------------------------
(***************************************************************************)
(* The code that the compiler emits for a function, as the virtual machine *)
(* executes it (the interpreter loop of src/src/umka_vm.c), next to what   *)
(* the source of the function means.                                       *)
(*                                                                         *)
(* A variable holds null, or an object whose reference it counts, or, when *)
(* its block has ended, a pointer that is not to be used.  refs is the     *)
(* number of references that the function has counted and not released.    *)
(***************************************************************************)
EXTENDS Compile, Structured

VARIABLES
  vm,    \* the virtual machine
  rest   \* what is left to do of the source

vars == <<umka, open, size, program, vm, rest>>

\* A value that no case names
NoCase == 0
Object == <<"object">>
Null == <<"null">>
Number(n) == <<"number", n>>
Pointer(x) == <<"pointer", x>>
Truth(b) == Number(IF b THEN 1 ELSE 0)

ExecInit ==
  /\ Init
  /\ vm = [status |-> "compiling", ip |-> 0, ops |-> <<>>, slots |-> <<>>, refs |-> 0,
           switch |-> Null, result |-> Null]
  /\ rest = <<>>

(***************************************************************************)
(* An instruction, as vmLoop executes it.  The operand stack has its top   *)
(* at the front.                                                           *)
(***************************************************************************)
Current(m) == umka.code[m.ip + 1]

Push(m, value) == [m EXCEPT !.ops = <<value>> \o @]
Drop(m, n) == [m EXCEPT !.ops = SubSeq(@, n + 1, Len(@))]
Onward(m) == [m EXCEPT !.ip = @ + 1]

\* doGotoIf, doGotoIfNot
Branch(m, dest, taken) == Drop(IF taken THEN [m EXCEPT !.ip = dest] ELSE Onward(m), 1)

\* A slot gives back its reference
Released(m, x) ==
  CASE m.slots[x] = "held" -> [m EXCEPT !.refs = @ - 1, !.slots[x] = "garbage"]
    [] m.slots[x] = "null" -> m
    [] OTHER -> [m EXCEPT !.status = "released twice"]

Held(m, x) == [m EXCEPT !.slots[x] = "held"]
Zeroed(m, x) == [m EXCEPT !.slots[x] = "null"]
Counted(m) == [m EXCEPT !.refs = @ + 1]

\* An assignment: of a value that is counted already to a variable that holds nothing,
\* of a counted value, and of a value to be counted
Assigned(m, op, x) ==
  CASE op = "SWAP_ASSIGN" -> Drop(Held(m, x), 2)
    [] op = "LEFT_REF_CNT_ASSIGN" -> Drop(Held(Released(m, x), x), 2)
    [] OTHER -> Drop(Held(Released(Counted(m), x), x), 2)

\* The function owns its parameter, the others start as null
FrameEntered(m) ==
  [m EXCEPT !.slots = [x \in 1..umka.vars |-> IF x = 1 THEN "held" ELSE "null"], !.refs = 1]

Executed(m) ==
  LET instr == Current(m)
      top == m.ops[1]
      next == Onward(m)
  IN  CASE instr.op = "ENTER_FRAME" -> FrameEntered(next)
        [] instr.op = "LEAVE_FRAME" -> [next EXCEPT !.ops = <<>>]
        [] instr.op = "RETURN" -> [m EXCEPT !.status = "done"]
        [] instr.op = "NOP" -> next
        [] instr.op = "GOTO" -> [m EXCEPT !.ip = instr.arg]
        [] instr.op = "GOTO_IF" -> Branch(m, instr.arg, top = Truth(TRUE))
        [] instr.op = "GOTO_IF_NOT" -> Branch(m, instr.arg, top = Truth(FALSE))
        [] instr.op = "PUSH" -> Push(next, Number(instr.arg))
        [] instr.op = "PUSH_REG" -> Push(next, m.switch)
        [] instr.op = "POP_REG" ->
             Drop(IF instr.arg = "RESULT" THEN [next EXCEPT !.result = top]
                  ELSE [next EXCEPT !.switch = top], 1)
        [] instr.op = "PUSH_LOCAL_PTR" -> Push(next, Pointer(instr.arg))
        [] instr.op = "PUSH_LOCAL_PTR_ZERO" -> Push(Zeroed(next, instr.arg), Pointer(instr.arg))
        [] instr.op = "ZERO" -> Drop(Zeroed(next, top[2]), 1)
        [] instr.op = "DUP" -> Push(next, top)
        [] instr.op = "POP" -> Drop(next, instr.arg)
        [] instr.op = "EQEQ" -> Push(Drop(next, 2), Truth(top = m.ops[2]))
        [] instr.op = "ASSERT_TYPE" ->
             Push(Drop(next, 1), IF top = Number(instr.arg) THEN Object ELSE Null)
        [] instr.op = "NOT_NULL" -> Push(Drop(next, 1), Truth(top # Null))
        [] instr.op = "LOAD" -> Push(next, Object)
        [] instr.op = "CALL" -> Push(Counted(next), Object)
        [] instr.op = "USE" -> Drop(next, 1)
        [] instr.op = "REF_CNT" -> Counted(next)
        [] instr.op = "REF_CNT_LOCAL" -> Released(next, instr.arg)
        [] instr.op \in {"SWAP_ASSIGN", "SWAP_REF_CNT_ASSIGN"} ->
             Assigned(next, instr.op, top[2])
        [] instr.op \in {"REF_CNT_ASSIGN", "LEFT_REF_CNT_ASSIGN"} ->
             Assigned(next, instr.op, m.ops[2][2])

\* vmLoop, up to what can be observed or to the end
RECURSIVE Running(_)
Running(m) ==
  IF m.status = "running" /\ Current(m).op \notin {"DO", "TEST", "SELECT"}
  THEN Running(Executed(m)) ELSE m

(***************************************************************************)
(* The function is called, and what it does is observed.                   *)
(***************************************************************************)
CallFn ==
  /\ program # NotYet /\ vm.status = "compiling"
  /\ vm' = Running([vm EXCEPT !.status = "running"])
  /\ rest' = Settle(program)
  /\ UNCHANGED compileVars

Observed(op, m, value) ==
  /\ vm.status = "running" /\ Current(vm).op = op
  /\ vm' = Running(Onward(m))
  /\ rest' = After(rest, Current(vm).arg, value)
  /\ UNCHANGED compileVars

DoStep == Observed("DO", vm, 0)
TestStep == \E b \in BOOLEAN : Observed("TEST", Push(vm, Truth(b)), b)
SelectStep ==
  \E n \in CaseConstants \cup {NoCase} : Observed("SELECT", Push(vm, Number(n)), n)

ExecNext ==
  \/ Next /\ UNCHANGED <<vm, rest>>
  \/ CallFn \/ DoStep \/ TestStep \/ SelectStep

Spec == ExecInit /\ [][ExecNext]_vars

(***************************************************************************)
(* Properties.                                                             *)
(***************************************************************************)
Statuses == {"compiling", "running", "done", "released twice"}

ExecTypeOK ==
  /\ umka.vars \in Nat /\ umka.ids \in Nat /\ umka.numBlocks \in Nat
  /\ \A instr \in Range(umka.code) : instr = Instr(instr.op, instr.arg, instr.arg2)
  /\ vm.status \in Statuses /\ vm.ip \in Nat /\ vm.refs \in Nat
  /\ Range(vm.slots) \subseteq {"null", "held", "garbage"}

\* The code does what the source says: the steps that can be observed are those of the
\* source, in its order, for all outcomes of its tests, and all of them happen
\* (genIfEpilog, genElseProlog, genCaseBlockEpilog, genForPostStmtEpilog, genGotosEpilog:
\* where each jump leads, with the saved positions nested as the statements are)
FollowsSource ==
  /\ rest # Stuck
  /\ vm.status = "done" => rest = <<>>

\* Whenever a step of the source is reached, on whichever way, the operand stack holds
\* what the enclosing statements have left there and nothing else (genPop of the ways
\* out of a statement; genShortCircuitProlog)
StackBalanced ==
  vm.status = "running" => Len(vm.ops) = Current(vm).arg2

\* Each reference that is counted is given back once, on every way through the function:
\* no variable is released again, or before it has a value, and at the end there is
\* nothing left but the reference of the result (doGarbageCollectionDownToBlock for
\* "break", "continue" and "return", doTryOptimizeIncRefCnt, blocks of operands that may
\* be skipped)
OwnedOnce ==
  /\ vm.status # "released twice"
  /\ vm.status = "done" => vm.refs = IF vm.result = Null THEN 0 ELSE 1

\* Where a jump leads, or may lead when its stub is filled in, no instruction is merged
\* with those before it; and no stub is left in the end (genUpdateLastJump in genSavePos
\* and in the jumps, against getPrevInstr)
Jumps == {"GOTO", "GOTO_IF", "GOTO_IF_NOT"}

LabelsProtected ==
  /\ \A i \in DOMAIN umka.code :
       umka.code[i].op \in Jumps => umka.code[i].arg <= umka.lastJump
  /\ \A position \in Range(umka.stack) : position <= umka.lastJump
  /\ \A i \in DOMAIN open :
       \A start \in Range(open[i].breaks \o open[i].continues) : At(umka, start) = Nop
  /\ program # NotYet => umka.stack = <<>> /\ Nop \notin Range(umka.code)

\* Identifiers are sorted by block, the current one first: that is how the collection of
\* a block finds all of its variables (umka_ident.c, identFindEx: "Identifiers are always
\* sorted by block scope"; identMoveBefore for the result of "?")
IdentsSorted ==
  /\ \A i \in DOMAIN umka.idents : \A j \in 1..i : umka.idents[i].block <= umka.idents[j].block
  /\ \A i \in DOMAIN umka.idents : umka.idents[i].block \in Range(umka.blocks)

\* At every point of the compilation of every function, the labels are protected and the
\* collection of each block would find its variables.
CompilerSound == ExecTypeOK /\ LabelsProtected /\ IdentsSorted

==============================================================================
