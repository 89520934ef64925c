---------------------------- MODULE CallStackMC ----------------------------
(***************************************************************************)
(* A small instance of CallStack for TLC: main makes one other fiber, or   *)
(* two, one of which makes the other.                                      *)
(***************************************************************************)
EXTENDS CallStack

CONSTANTS Child, Grandchild

MCParent == [f \in Fibers \ {Root} |-> IF f = Grandchild THEN Child ELSE Root]
MCChain == [f \in Fibers |-> IF f = Grandchild THEN {f, Child, Root} ELSE {f, Root}]

=============================================================================
