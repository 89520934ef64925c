------------------------------ MODULE Structured ------------------------------
(***************************************************************************)
(* The meaning of structured programs: what "if", "switch", "for",         *)
(* "break", "continue" and "return" promise (src/doc/lang.md), as a        *)
(* relation between what is left to do and what is observed next.  It is   *)
(* the reference for the code that the compiler emits, and uses nothing    *)
(* of the compiler.                                                        *)
(*                                                                         *)
(* What is left to do is a sequence of statements (as in the syntax trees  *)
(* of Compile), of ends of loop bodies and of conditions.                  *)
(***************************************************************************)
EXTENDS Integers, Sequences, SequencesExt, FiniteSetsExt

LoopEnd(for) == [kind |-> "loop end", for |-> for]
Test(cond, then, else) == [kind |-> "test", cond |-> cond, then |-> then, else |-> else]
Stuck == <<[kind |-> "stuck"]>>

\* What is left from the end of the innermost loop body on
FromLoopEnd(rest) ==
  SubSeq(rest, Min({i \in DOMAIN rest : rest[i].kind = "loop end"}), Len(rest))

\* Go on to the next statement that can be observed
RECURSIVE Settle(_)
Settle(rest) ==
  IF rest = <<>> THEN rest ELSE
  LET first == Head(rest)
      others == Tail(rest)
  IN  CASE first.kind = "block" -> Settle(first.body \o others)
        [] first.kind = "if" -> <<Test(first.cond, first.then, first.else)>> \o others
        [] first.kind = "for" ->
             <<Test(first.cond, first.body \o <<LoopEnd(first)>>, <<>>)>> \o others
        [] first.kind = "loop end" -> Settle(first.for.post \o <<first.for>> \o others)
        [] first.kind = "continue" -> Settle(FromLoopEnd(others))
        [] first.kind = "break" -> Settle(Tail(FromLoopEnd(others)))
        [] first.kind = "return" -> <<>>
        [] OTHER -> rest

\* The statements of a switch for a value
Chosen(switch, value) ==
  LET matching == SelectSeq(switch.cases, LAMBDA case : value \in case.constants)
  IN  IF matching = <<>> THEN switch.default ELSE matching[1].body

\* The outcome of a test, TRUE or FALSE, when its first part has a value: for "and" and
\* "or" that may leave the second part to be tested
AfterTest(test, value, others) ==
  LET settled == test.cond.op = "test" \/ value = (test.cond.op = "or")
  IN  IF settled
      THEN (IF value THEN test.then ELSE test.else) \o others
      ELSE <<[test EXCEPT !.cond = [op |-> "test", ids |-> Tail(@.ids)]]>> \o others

\* What is left after id has been observed, with a value
After(rest, id, value) ==
  IF rest = <<>> THEN Stuck ELSE
  LET first == Head(rest)
      others == Tail(rest)
  IN  CASE first.kind = "do" /\ first.id = id -> Settle(others)
        [] first.kind = "test" /\ first.cond.ids[1] = id -> Settle(AfterTest(first, value, others))
        [] first.kind = "switch" /\ first.id = id -> Settle(Chosen(first, value) \o others)
        [] OTHER -> Stuck

===============================================================================
