------------------------------- MODULE Compile -------------------------------
(***************************************************************************)
(* The one-pass compiler at work on the body of a function                 *)
(* (src/src/umka_stmt.c; for conditions and results of functions,          *)
(* umka_expr.c; for blocks and variables, umka_ident.c, umka_common.c).    *)
(*                                                                         *)
(* The source is chosen as it is parsed: an action is a statement, or the  *)
(* beginning, a middle or the end of a compound one, with all the code it  *)
(* emits.  Besides, the actions put together the syntax tree of what has   *)
(* been parsed, which the code is compared with.  All variables are of a   *)
(* reference-counted type; expressions matter for the references they      *)
(* leave on the stack or in temporary variables.                           *)
(***************************************************************************)
EXTENDS CodeGen, FiniteSets

CONSTANTS
  CaseConstants,      \* values that a "case" can name
  ValueForms,         \* the forms of expressions, a subset of AllValueForms
  CondForms,          \* the forms of conditions, a subset of AllCondForms
  MaxSize,            \* bound on the size of the source
  MaxNesting,         \* bound on its nesting
  JumpsInTypeSwitch   \* may a "break" or a "continue" leave a type switch

AllValueForms == {"value", "call", "choice"}
AllCondForms == {"test", "call", "and", "or"}

ASSUME CompileAssumption ==
  /\ CaseConstants \subseteq Nat \ {0} /\ IsFiniteSet(CaseConstants)
  /\ ValueForms \subseteq AllValueForms /\ CondForms \subseteq AllCondForms
  /\ MaxSize \in Nat /\ MaxNesting \in Nat
  /\ JumpsInTypeSwitch \in BOOLEAN

VARIABLES
  umka,     \* the code generator, the blocks, the identifiers, and counters of names
  open,     \* the functions of the parser that are active: statements begun and not ended
  size,     \* the size of the source up to here
  program   \* the syntax tree of the source, when it is complete

compileVars == <<umka, open, size, program>>

(***************************************************************************)
(* Syntax trees.                                                           *)
(***************************************************************************)
\* What can be observed of an expression, or of a statement that is not looked into
Do(id) == [kind |-> "do", id |-> id]
Leave(kind) == [kind |-> kind]   \* break, continue, return
Cond(op, ids) == [op |-> op, ids |-> ids]
If(cond, then, else) == [kind |-> "if", cond |-> cond, then |-> then, else |-> else]
For(cond, body, post) == [kind |-> "for", cond |-> cond, body |-> body, post |-> post]
Switch(id, cases, default) ==
  [kind |-> "switch", id |-> id, cases |-> cases, default |-> default]
Case(constants, body) == [constants |-> constants, body |-> body]
NotYet == <<[kind |-> "unknown"]>>

\* A statement that has begun: what is known of it, its lists of statements that are
\* complete, the one being parsed, the stubs of its break (or return) and continue
\* statements, and the block they leave to
Part(kind, what, block) ==
  [kind |-> kind, what |-> what, done |-> <<>>, stmts |-> <<>>,
   breaks |-> <<>>, continues |-> <<>>, block |-> block]

Init ==
  /\ umka = [code |-> <<>>, lastJump |-> 0, stack |-> <<>>, note |-> NoNote,
             blocks |-> <<>>, numBlocks |-> 1, idents |-> <<>>, unused |-> {},
             lastTemp |-> 0, vars |-> 0, ids |-> 0, operands |-> 0]
  /\ open = <<>>
  /\ size = 0
  /\ program = NotYet

Here == Last(open)
IsOpen(kind) == open # <<>> /\ Here.kind = kind
AddTo(parts, stmts) == [parts EXCEPT ![Len(parts)].stmts = @ \o stmts]

\* Positions of the open statements of some kinds
Parts(kinds) == {i \in DOMAIN open : open[i].kind \in kinds}
Loop == Max(Parts({"for"}))

\* A list of statements is being parsed, and what follows can be reached
InList ==
  /\ open # <<>>
  /\ ~IsOpen("switch") /\ ~IsOpen("type switch")
  /\ Here.stmts # <<>> => Last(Here.stmts).kind \notin {"break", "continue", "return"}

\* A statement: the code and the syntax tree that it adds
Statement(u, stmts, weight) ==
  /\ InList /\ size + weight <= MaxSize
  /\ umka' = u
  /\ open' = AddTo(open, stmts)
  /\ size' = size + weight
  /\ UNCHANGED program

\* A compound statement begins, after the statements of its header
Beginning(u, header, part, weight) ==
  /\ InList /\ Len(open) <= MaxNesting /\ size + weight <= MaxSize
  /\ umka' = u
  /\ open' = Append(AddTo(open, header), part)
  /\ size' = size + weight
  /\ UNCHANGED program

\* The last part of a statement is complete
Ending(u, stmt) ==
  /\ umka' = u
  /\ open' = AddTo(Front(open), <<stmt>>)
  /\ UNCHANGED <<size, program>>

\* The statement goes on with another part
Turning(u, part) ==
  /\ umka' = u
  /\ open' = Append(Front(open), part)
  /\ UNCHANGED <<size, program>>

(***************************************************************************)
(* Blocks and identifiers.                                                 *)
(***************************************************************************)
Block(u) == Last(u.blocks)

BlocksEnter(u) == [u EXCEPT !.blocks = Append(@, u.numBlocks), !.numBlocks = @ + 1]
BlocksLeave(u) == [u EXCEPT !.blocks = Front(@)]

\* identAllocVar: each variable has a stack slot of its own, that it is named after.
\* The latest identifier is the first in the list.
AllocVar(u, kind) ==
  [u EXCEPT !.vars = @ + 1,
            !.idents = <<[var |-> u.vars + 1, kind |-> kind, block |-> Block(u)]>> \o @]

\* identAllocTempVar for the result of a function
AllocTempForResult(u) == [AllocVar(u, "temp") EXCEPT !.lastTemp = u.vars + 1]

\* identMoveBefore: the first identifier is put before the last n
MoveBefore(u, n) ==
  LET from == Len(u.idents) - n
  IN  [u EXCEPT !.idents = SubSeq(@, 2, from) \o <<Head(@)>> \o SubSeq(@, from + 1, Len(@))]

\* identFree
IdentFree(u) ==
  LET isNotOfBlock(ident) == ident.block # Block(u)
      kept == {i \in DOMAIN u.idents : isNotOfBlock(u.idents[i])}
  IN  [u EXCEPT !.idents = IF kept = {} THEN <<>> ELSE SubSeq(@, Min(kept), Len(@))]

\* doGarbageCollectionAt: the identifiers of a block, up to the first one of another,
\* except for temporary variables that are not used
CollectAt(u, block) ==
  LET ofBlock == {i \in DOMAIN u.idents : u.idents[i].block = block}
      ends == {i \in DOMAIN u.idents : u.idents[i].block # block /\ \E j \in ofBlock : j < i}
      last == IF ends = {} THEN Len(u.idents) ELSE Min(ends) - 1
      collected == SelectSeq(SubSeq(u.idents, 1, last),
                     LAMBDA ident : ident.block = block /\ ident.var \notin u.unused)
  IN  FoldLeft(LAMBDA v, ident : AddInstr(v, Instr("REF_CNT_LOCAL", ident.var, 0)), u, collected)

\* doGarbageCollection, identFree, blocksLeave
EndBlock(u) == BlocksLeave(IdentFree(CollectAt(u, Block(u))))

BlocksFrom(u, block) == {i \in DOMAIN u.blocks : u.blocks[i] >= block}

\* doGarbageCollectionDownToBlock
CollectDownToBlock(u, block) ==
  FoldLeft(LAMBDA v, i : CollectAt(v, u.blocks[Len(u.blocks) + 1 - i]), u,
           [i \in 1..Cardinality(BlocksFrom(u, block + 1)) |-> i])

ZeroVar(u, x) == AddInstr(PushLocalPtr(u, x), Instr("ZERO", 1, 0))

\* The value on the stack goes to a variable that holds nothing, or something to release
StoreNew(u, x) == AddInstr(PushLocalPtr(u, x), Plain("SWAP_ASSIGN"))
StoreOver(u, x) == AddInstr(PushLocalPtr(u, x), Plain("SWAP_REF_CNT_ASSIGN"))

(***************************************************************************)
(* Expressions.                                                            *)
(***************************************************************************)
\* Something that can be observed happens, when a number of operands of the enclosing
\* statements are on the stack.  Its name is the new value of ids.
Observable(u, op) == AddInstr([u EXCEPT !.ids = @ + 1], Instr(op, u.ids + 1, u.operands))

WithOperand(u) == [u EXCEPT !.operands = @ + 1]
WithoutOperand(u) == [u EXCEPT !.operands = @ - 1]

\* A call of a function whose result is counted already: a temporary variable of the
\* current block is to release it
CallFunction(u) ==
  LET copyTo(v) == CopyResultToTempVar(v, v.lastTemp)
  IN  copyTo(AllocTempForResult(AddInstr(u, Plain("CALL"))))

LoadValue(u) == AddInstr(u, Plain("LOAD"))
CountValue(u) == AddInstr(u, Instr("REF_CNT", 1, 0))

\* doTryRemoveCopyResultToTempVar, when it succeeds: the temporary variable is not used
RemoveCopy(u) == [RemoveInstrs(u, 3) EXCEPT !.unused = @ \cup {u.lastTemp}]

\* doTryOptimizeIncRefCnt
IncRefCnt(u) == IF ResultJustCopied(u) THEN RemoveCopy(u) ELSE CountValue(u)

\* doTryOptimizeRefCntAssign
RefCntAssign(u) ==
  IF ResultJustCopied(u)
  THEN AddInstr(RemoveCopy(u), Plain("LEFT_REF_CNT_ASSIGN"))
  ELSE AddInstr(u, Plain("REF_CNT_ASSIGN"))

\* The "?" operator of parseExpr: "c ? f() : v".  A variable of the outer block, the
\* latest one that is allocated, keeps the result.
OuterTemp(u, n) ==   \* blocksLeave, blocksReenter
  [MoveBefore(AllocVar(BlocksLeave(u), "temp"), n) EXCEPT !.blocks = u.blocks]

CopyToTemp(u) == StoreNew(CountValue(AddInstr(u, Plain("DUP"))), u.vars)

Choice(u) ==
  LET cond == BlocksEnter(IfCondEpilog(Observable(u, "TEST")))
      left == CopyToTemp(OuterTemp(CallFunction(Observable(cond, "DO")), Len(u.idents)))
      right == LoadValue(Observable(BlocksEnter(ElseProlog(EndBlock(left))), "DO"))
  IN  IfElseEpilog(EndBlock(CopyToTemp(right)))

\* parseExpr, of a reference-counted type: a value, the result of a function, or one
\* or the other
Value(u, form) ==
  CASE form = "value" -> LoadValue(Observable(u, "DO"))
    [] form = "call" -> CallFunction(Observable(u, "DO"))
    [] form = "choice" -> Choice(u)

\* The statements that evaluate a value, for the syntax tree
ValueStmts(u, form) ==
  IF form = "choice"
  THEN <<If(Cond("test", <<u.ids + 1>>), <<Do(u.ids + 2)>>, <<Do(u.ids + 3)>>)>>
  ELSE <<Do(u.ids + 1)>>

\* A Boolean expression that uses the result of a function
TestOfCall(u) == Observable(AddInstr(CallFunction(u), Plain("USE")), "TEST")

\* Mutant: no block for the second operand
LogicalInOneBlock(u, op) ==
  ShortCircuitEpilog(TestOfCall(ShortCircuitProlog(Observable(u, "TEST"))), op)

\* parseLogicalTerm, parseLogicalExpr: the second operand is in a block of its own
Logical(u, op) ==
  ShortCircuitEpilog(EndBlock(TestOfCall(BlocksEnter(
    ShortCircuitProlog(Observable(u, "TEST"))))), op)

Condition(u, form) ==
  CASE form = "test" -> Observable(u, "TEST")
    [] form = "call" -> TestOfCall(u)
    [] OTHER -> Logical(u, form)

CondOf(u, form) ==
  IF form \in {"and", "or"}
  THEN Cond(form, <<u.ids + 1, u.ids + 2>>)
  ELSE Cond("test", <<u.ids + 1>>)

\* The weights of a statement with an expression or a condition
Weight(form) == IF form = "choice" THEN 2 ELSE 1
CondWeight(form) == IF form = "test" THEN 1 ELSE 2

(***************************************************************************)
(* Declarations, assignments, calls, blocks.                               *)
(***************************************************************************)
\* parseSingleDeclAssignmentStmt
StoreInNew(u) == StoreNew(IncRefCnt(u), u.vars)
DeclareVar(u, form) == StoreInNew(AllocVar(Value(u, form), "var"))

Declare(form) == Statement(DeclareVar(umka, form), ValueStmts(umka, form), Weight(form))

\* parseSingleAssignmentStmt, to the latest variable
Assign(form) ==
  LET named == {i \in DOMAIN umka.idents : umka.idents[i].kind = "var"}
      push(u) == WithOperand(PushLocalPtr(u, u.idents[Min(named)].var))
  IN  /\ named # {}
      /\ Statement(WithoutOperand(RefCntAssign(Value(push(umka), form))),
                   ValueStmts(umka, form), Weight(form))

\* parseSimpleStmt: a call, whose result is removed
CallAndPop(u) == Pop(CallFunction(Observable(u, "DO")))
Call == Statement(CallAndPop(umka), <<Do(umka.ids + 1)>>, 1)

\* parseBlock
OpenBlock == Beginning(BlocksEnter(umka), <<>>, Part("block", 0, 0), 1)

CloseBlock ==
  /\ IsOpen("block")
  /\ Ending(EndBlock(umka), [kind |-> "block", body |-> Here.stmts])

\* [shortVarDecl ";"]
Headers == {"none"} \cup (ValueForms \cap {"call"})
Header(u, header) == IF header = "none" THEN u ELSE DeclareVar(u, header)
HeaderStmts(u, header) == IF header = "none" THEN <<>> ELSE ValueStmts(u, header)
HeaderWeight(header) == IF header = "none" THEN 0 ELSE 1

(***************************************************************************)
(* "If" statements.                                                        *)
(***************************************************************************)
\* parseIfStmt
BeginIf(header, form) ==
  LET u == Header(BlocksEnter(umka), header)
  IN  Beginning(BlocksEnter(IfCondEpilog(Condition(u, form))), HeaderStmts(umka, header),
                Part("if", CondOf(u, form), 0), CondWeight(form) + HeaderWeight(header))

Else ==
  /\ IsOpen("if")
  /\ Turning(BlocksEnter(ElseProlog(EndBlock(umka))),
             [Here EXCEPT !.kind = "else", !.done = <<Here.stmts>>, !.stmts = <<>>])

EndIf ==
  \/ /\ IsOpen("if")
     /\ Ending(EndBlock(IfEpilog(EndBlock(umka))), If(Here.what, Here.stmts, <<>>))
  \/ /\ IsOpen("else")
     /\ Ending(EndBlock(IfElseEpilog(EndBlock(umka))),
               If(Here.what, Here.done[1], Here.stmts))

(***************************************************************************)
(* "Switch" statements.  A case is open on top of its statement, which     *)
(* keeps the cases that are complete.                                      *)
(***************************************************************************)
\* parseExprSwitchStmt
BeginSwitch(header) ==
  LET u == Observable(Header(BlocksEnter(umka), header), "SELECT")
  IN  Beginning(SwitchCondEpilog(u), HeaderStmts(umka, header), Part("switch", u.ids, 0),
                1 + HeaderWeight(header))

Named(part) == UNION {case.constants : case \in Range(part.done)}

\* A case of a switch, with the constants or the type that it names.  The first one that
\* a switch names adds nothing to the size of the source.
Naming(u, part) ==
  LET weight == Cardinality(part.what) - (IF Named(Here) = {} THEN 1 ELSE 0)
  IN  /\ part.what # {} /\ part.what \cap Named(Here) = {}
      /\ size + weight <= MaxSize
      /\ umka' = u
      /\ open' = Append(open, part)
      /\ size' = size + weight
      /\ UNCHANGED program

\* parseExprCase, up to the list of statements
BeginCase(constants) ==
  LET checks == FoldLeft(CaseConstantCheck, umka, SetToSortSeq(constants, <))
  IN  /\ IsOpen("switch")
      /\ Naming(BlocksEnter(CaseBlockProlog(checks, Cardinality(constants))),
                Part("case", constants, 0))

AddCase(parts, case) == [parts EXCEPT ![Len(parts)].done = Append(@, case)]

EndCase ==
  /\ IsOpen("case")
  /\ umka' = CaseBlockEpilog(EndBlock(umka))
  /\ open' = AddCase(Front(open), Case(Here.what, Here.stmts))
  /\ UNCHANGED <<size, program>>

\* parseDefault: the statement is "switch default" or "type switch default" then
BeginDefault ==
  /\ IsOpen("switch") \/ IsOpen("type switch")
  /\ Turning(BlocksEnter(umka), [Here EXCEPT !.kind = @ \o " default"])

SwitchOf(part) == Switch(part.what, part.done, part.stmts)

EndSwitch ==
  LET u == IF IsOpen("switch") THEN umka ELSE EndBlock(umka)
  IN  /\ IsOpen("switch") \/ IsOpen("switch default")
      /\ Ending(EndBlock(SwitchEpilog(u, Len(Here.done))), SwitchOf(Here))

\* parseTypeSwitchStmt: the interface stays on the stack to the end of the statement
BeginTypeSwitch ==
  LET u == WithOperand(Observable(BlocksEnter(umka), "SELECT"))
  IN  Beginning(u, <<>>, Part("type switch", u.ids, 0), 1)

\* parseTypeCase: a copy is converted to the type, or to null, and stored in a variable
CheckType(u, type) ==
  AddInstr(AddInstr(AddInstr(AddInstr(u, Plain("DUP")), Instr("ASSERT_TYPE", type, 0)),
                    Plain("DUP")), Plain("NOT_NULL"))

BeginTypeCase(type) ==
  LET u == AllocVar(BlocksEnter(IfCondEpilog(CheckType(umka, type))), "var")
  IN  /\ IsOpen("type switch")
      /\ Naming(StoreOver(ZeroVar(u, u.vars), u.vars), Part("type case", {type}, 0))

EndTypeCase ==
  /\ IsOpen("type case")
  /\ umka' = Pop(ElseProlog(EndBlock(umka)))
  /\ open' = AddCase(Front(open), Case(Here.what, Here.stmts))
  /\ UNCHANGED <<size, program>>

EndTypeSwitch ==
  LET u == IF IsOpen("type switch") THEN umka ELSE EndBlock(umka)
  IN  /\ IsOpen("type switch") \/ IsOpen("type switch default")
      /\ Ending(EndBlock(WithoutOperand(Pop(SwitchEpilog(u, Len(Here.done))))), SwitchOf(Here))

(***************************************************************************)
(* "For" statements.                                                       *)
(***************************************************************************)
\* A statement with a condition only, or with a post-statement in the general case or
\* in the deferred one
ForForms == {"while", "post", "deferred"}

\* parseForHeader, from the condition on
ForCond(u, form) == EndBlock(Condition(BlocksEnter(WhileCondProlog(u)), form))

ForPost(u) == ForPostStmtEpilog(EndBlock(CallAndPop(BlocksEnter(ForCondEpilog(u)))))

\* parseForStmt up to its block
BeginFor(form, header, cond) ==
  LET u == Header(BlocksEnter(umka), header)
      v == ForCond(u, cond)
      w == IF form = "post" THEN ForPost(v) ELSE WhileCondEpilog(v)
      what == [form |-> form, cond |-> CondOf(u, cond),
               post |-> IF form = "post" THEN <<Do(w.ids)>> ELSE <<>>]
  IN  Beginning(BlocksEnter(w), HeaderStmts(umka, header),
                Part("for", what, umka.numBlocks), CondWeight(cond) + HeaderWeight(header))

\* parseForInHeader: a variable holds the collection and another an item of it
ForInHeader(u, form) ==
  LET zeroed(v) == ZeroVar(v, v.vars)
      stored(v) == StoreOver(v, v.vars)
      collection == stored(zeroed(AllocVar(Value(u, form), "collection")))
      item == zeroed(AllocVar(collection, "var"))
  IN  stored(LoadValue(WhileCondEpilog(Observable(WhileCondProlog(item), "TEST"))))

BeginForIn(form) ==
  LET u == ForInHeader(BlocksEnter(umka), form)
      what == [form |-> "deferred", cond |-> Cond("test", <<u.ids>>), post |-> <<>>]
  IN  Beginning(BlocksEnter(u), ValueStmts(umka, form), Part("for", what, umka.numBlocks),
                Weight(form))

EndFor ==
  LET u == GotosEpilog(EndBlock(umka), Here.continues)
      v == IF Here.what.form = "deferred" THEN Observable(u, "DO") ELSE u
      w == IF Here.what.form = "post" THEN ForEpilog(v) ELSE WhileEpilog(v)
      post == IF Here.what.form = "deferred" THEN <<Do(v.ids)>> ELSE Here.what.post
  IN  /\ IsOpen("for")
      /\ Ending(EndBlock(GotosEpilog(w, Here.breaks)), For(Here.what.cond, Here.stmts, post))

(***************************************************************************)
(* "Break", "continue" and "return".                                       *)
(***************************************************************************)
InLoop ==
  /\ Parts({"for"}) # {}
  /\ ~JumpsInTypeSwitch =>
       \A i \in Parts({"type case", "type switch default"}) : i < Loop

\* Alone in a branch of an "if" or a "switch", a jump adds nothing to the size
JumpWeight == IF Here.kind \in {"if", "case"} /\ Here.stmts = <<>> THEN 0 ELSE 1

\* genGotosAddStub
GotoStub(u) == AddInstr(u, Nop)

\* parseBreakStmt, parseContinueStmt
Break ==
  LET u == CollectDownToBlock(umka, open[Loop].block)
  IN  /\ InList /\ InLoop /\ size + JumpWeight <= MaxSize
      /\ umka' = GotoStub(u)
      /\ open' = [AddTo(open, <<Leave("break")>>) EXCEPT ![Loop].breaks = Append(@, Ip(u))]
      /\ size' = size + JumpWeight
      /\ UNCHANGED program

Continue ==
  LET u == CollectDownToBlock(umka, open[Loop].block)
  IN  /\ InList /\ InLoop /\ size + JumpWeight <= MaxSize
      /\ umka' = GotoStub(u)
      /\ open' = [AddTo(open, <<Leave("continue")>>) EXCEPT
                    ![Loop].continues = Append(@, Ip(u))]
      /\ size' = size + JumpWeight
      /\ UNCHANGED program

\* parseReturnStmt
Return(form) ==
  LET result == IF form = "none" THEN umka
                ELSE PopReg(IncRefCnt(Value(umka, form)), "RESULT")
      stmts == IF form = "none" THEN <<>> ELSE ValueStmts(umka, form)
      u == CollectDownToBlock(result, open[1].block)
  IN  /\ InList /\ size + Weight(form) <= MaxSize
      /\ umka' = GotoStub(u)
      /\ open' = [AddTo(open, stmts \o <<Leave("return")>>) EXCEPT
                    ![1].breaks = Append(@, Ip(u))]
      /\ size' = size + Weight(form)
      /\ UNCHANGED program

(***************************************************************************)
(* The function.                                                           *)
(***************************************************************************)
\* parseFnBlock: a block for the parameters, here one, and another for the statements
BeginFn ==
  /\ open = <<>> /\ program = NotYet
  /\ umka' = BlocksEnter(AllocVar(EnterFrameStub(BlocksEnter(umka)), "var"))
  /\ open' = <<Part("fn", 0, umka.numBlocks)>>
  /\ UNCHANGED <<size, program>>

EndFn ==
  LET u == GotosEpilog(EndBlock(umka), Here.breaks)
      v == LeaveFrameFixup(IdentFree(CollectAt(u, Block(u))))
  IN  /\ IsOpen("fn")
      /\ umka' = BlocksLeave(AddInstr(v, Plain("RETURN")))
      /\ open' = <<>>
      /\ program' = Here.stmts
      /\ UNCHANGED size

Next ==
  \/ BeginFn \/ EndFn
  \/ \E form \in ValueForms : Declare(form) \/ Assign(form) \/ BeginForIn(form)
  \/ Call \/ OpenBlock \/ CloseBlock
  \/ \E header \in Headers, form \in CondForms : BeginIf(header, form)
  \/ Else \/ EndIf
  \/ \E header \in Headers : BeginSwitch(header)
  \/ \E constants \in SUBSET CaseConstants : BeginCase(constants)
  \/ EndCase \/ BeginDefault \/ EndSwitch
  \/ BeginTypeSwitch \/ EndTypeCase \/ EndTypeSwitch
  \/ \E type \in CaseConstants : BeginTypeCase(type)
  \/ \E form \in ForForms, header \in Headers, cond \in CondForms : BeginFor(form, header, cond)
  \/ EndFor \/ Break \/ Continue
  \/ \E form \in {"none"} \cup ValueForms : Return(form)

CompileSpec == Init /\ [][Next]_compileVars

=============================================================================
