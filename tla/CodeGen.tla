------------------------------- MODULE CodeGen -------------------------------
(***************************************************************************)
(* The code generator (src/src/umka_gen.c).  Each function of it that the  *)
(* compiler calls is an operator from the state of the generator, a record *)
(* g, to its next state.  The record may have other fields: the operators  *)
(* leave them alone.                                                       *)
(*                                                                         *)
(* An instruction may be merged with the ones before it (peephole          *)
(* optimization) unless a jump leads between them or may do so later.      *)
(* Jumps forward are emitted as NOP stubs and filled in when their         *)
(* destination is known.                                                   *)
(***************************************************************************)
EXTENDS Integers, Sequences, SequencesExt, FiniteSetsExt

\* An instruction with its operands.  Expressions and statements that are not looked
\* into are single instructions here.
Instr(op, arg, arg2) == [op |-> op, arg |-> arg, arg2 |-> arg2]
Plain(op) == Instr(op, 0, 0)
Nop == Plain("NOP")
NoInstr == Plain("none")

\* genInit: note is the ip of GEN_NOTIFICATION_COPY_RESULT_TO_TEMP_VAR, -1 if there is none
NoNote == -1
InitGen == [code |-> <<>>, lastJump |-> 0, stack |-> <<>>, note |-> NoNote]

\* Addresses start at 0, as in the code
Ip(g) == Len(g.code)
At(g, address) == g.code[address + 1]

(***************************************************************************)
(* Emitting and merging.                                                   *)
(***************************************************************************)
UpdateLastJump(g, address) ==
  [g EXCEPT !.lastJump = IF address > @ THEN address ELSE @]

AddInstr(g, instr) == [g EXCEPT !.code = Append(@, instr), !.note = NoNote]

RemoveInstrs(g, n) == [g EXCEPT !.code = SubSeq(@, 1, Len(@) - n), !.note = NoNote]

\* Mutant: the instruction that the last jump leads to may be merged with those before it
PrevInstrAcrossJump(g, depth) ==
  IF Ip(g) - depth < 0 THEN NoInstr ELSE At(g, Ip(g) - depth)

\* getPrevInstr: no branching within the peephole
PrevInstr(g, depth) ==
  IF Ip(g) - depth < g.lastJump THEN NoInstr ELSE At(g, Ip(g) - depth)

\* Replace the last n instructions by one
Merge(g, n, instr) == AddInstr(RemoveInstrs(g, n), instr)

PushLocalPtr(g, offset) ==
  LET zero == PrevInstr(g, 1)
      push == PrevInstr(g, 2)
  IN  IF zero.op = "ZERO" /\ push = Instr("PUSH_LOCAL_PTR", offset, 0)
      THEN Merge(g, 2, Instr("PUSH_LOCAL_PTR_ZERO", offset, zero.arg))
      ELSE AddInstr(g, Instr("PUSH_LOCAL_PTR", offset, 0))

Pop(g) ==
  LET pop == PrevInstr(g, 1)
  IN  IF pop.op = "POP"
      THEN Merge(g, 1, Instr("POP", pop.arg + 1, 0))
      ELSE AddInstr(g, Instr("POP", 1, 0))

PopReg(g, reg) ==
  IF PrevInstr(g, 1) = Instr("PUSH_REG", reg, 0)
  THEN RemoveInstrs(g, 1)
  ELSE AddInstr(g, Instr("POP_REG", reg, 0))

(***************************************************************************)
(* Jumps.                                                                  *)
(***************************************************************************)
\* genGoto, genGotoIf, genGotoIfNot
Jump(g, op, dest) ==
  AddInstr(UpdateLastJump(UpdateLastJump(g, Ip(g)), dest), Instr(op, dest, 0))

\* genGoFromTo, genGoFromToIf, genGoFromToIfNot: fill in a stub
GoFromTo(g, op, start, dest) ==
  [UpdateLastJump(UpdateLastJump(g, start), dest) EXCEPT
     !.code[start + 1] = Instr(op, dest, 0), !.note = NoNote]

\* Mutant: what follows a saved position may be merged with what is before it
SavePosUnprotected(g) == [g EXCEPT !.stack = Append(@, Ip(g))]

SavePos(g) == [UpdateLastJump(g, Ip(g)) EXCEPT !.stack = Append(@, Ip(g))]

Saved(g, depth) == g.stack[Len(g.stack) - depth + 1]
DropSaved(g, n) == [g EXCEPT !.stack = SubSeq(@, 1, Len(@) - n)]

\* A stub at a saved position
Stub(g) == AddInstr(SavePos(g), Nop)

\* Fill in the last saved stub
Fixup(g, op, dest) == GoFromTo(DropSaved(g, 1), op, Saved(g, 1), dest)

IfCondEpilog(g) == Stub(g)
IfEpilog(g) == Fixup(g, "GOTO_IF_NOT", Ip(g))
ElseProlog(g) == Stub(Fixup(g, "GOTO_IF_NOT", Ip(g) + 1))
IfElseEpilog(g) == Fixup(g, "GOTO", Ip(g))

\* genSwitchCondEpilog
SwitchCondEpilog(g) == PopReg(g, "SWITCH_EXPR")

\* genCaseConstantCheck
CaseConstantCheck(g, constant) ==
  Stub(AddInstr(AddInstr(AddInstr(g,
    Instr("PUSH_REG", "SWITCH_EXPR", 0)), Instr("PUSH", constant, 0)), Plain("EQEQ")))

\* The stubs of all the constants of a case lead to its block
CaseBlockProlog(g, numCaseConstants) ==
  Stub(FoldLeft(LAMBDA h, i : Fixup(h, "GOTO_IF", Ip(g) + 1), g, [i \in 1..numCaseConstants |-> i]))

\* Mutant: the next case begins at the jump that is to skip it
CaseBlockEpilogAtStub(g) == Stub(Fixup(g, "GOTO", Ip(g)))

CaseBlockEpilog(g) == Stub(Fixup(g, "GOTO", Ip(g) + 1))

SwitchEpilog(g, numCases) ==
  FoldLeft(LAMBDA h, i : Fixup(h, "GOTO", Ip(g)), g, [i \in 1..numCases |-> i])

WhileCondProlog(g) == SavePos(g)
WhileCondEpilog(g) == IfCondEpilog(g)

WhileEpilog(g) ==
  LET h == Fixup(g, "GOTO_IF_NOT", Ip(g) + 1)
  IN  Jump(DropSaved(h, 1), "GOTO", Saved(h, 1))

\* Two stubs: to the end of the post-statement, and to the end of the statement
ForCondEpilog(g) == AddInstr(Stub(g), Nop)

ForPostStmtEpilog(g) ==
  LET condEpilog == Saved(g, 1)
      h == Jump(DropSaved(g, 2), "GOTO", Saved(g, 2))
  IN  [GoFromTo(h, "GOTO_IF", condEpilog, Ip(h)) EXCEPT !.stack = Append(@, condEpilog)]

ForEpilog(g) ==
  LET condEpilog == Saved(g, 1)
      h == Jump(DropSaved(g, 1), "GOTO", condEpilog + 2)
  IN  GoFromTo(h, "GOTO", condEpilog + 1, Ip(h))

ShortCircuitProlog(g) == Pop(Stub(AddInstr(g, Plain("DUP"))))

\* op is "and" or "or"
ShortCircuitEpilog(g, op) ==
  Fixup(g, IF op = "and" THEN "GOTO_IF_NOT" ELSE "GOTO_IF", Ip(g))

EnterFrameStub(g) == Stub(g)

\* genLeaveFrameFixup: the saved stub becomes ENTER_FRAME
LeaveFrameFixup(g) ==
  AddInstr([DropSaved(g, 1) EXCEPT !.code[Saved(g, 1) + 1] = Plain("ENTER_FRAME")],
           Plain("LEAVE_FRAME"))

\* genGotosEpilog: fill in the stubs of break, continue or return
GotosEpilog(g, starts) ==
  FoldLeft(LAMBDA h, start : GoFromTo(h, "GOTO", start, Ip(g)), g, starts)

(***************************************************************************)
(* Results of functions in temporary variables.                            *)
(***************************************************************************)
CopyResultToTempVar(g, offset) ==
  LET h == AddInstr(PushLocalPtr(AddInstr(g, Plain("DUP")), offset), Plain("SWAP_ASSIGN"))
  IN  [h EXCEPT !.note = Ip(h)]

\* genTryRemoveCopyResultToTempVar succeeds
ResultJustCopied(g) ==
  /\ g.note = Ip(g)
  /\ PrevInstr(g, 3).op = "DUP"
  /\ PrevInstr(g, 2).op = "PUSH_LOCAL_PTR"
  /\ PrevInstr(g, 1).op = "SWAP_ASSIGN"

=============================================================================
