----------------------------- MODULE PageHeapMC -----------------------------
(***************************************************************************)
(* A small instance of PageHeap for TLC: two or three fibers in a chain.   *)
(***************************************************************************)
EXTENDS PageHeap, TLC

CONSTANTS Main, Child

\* Main has created Child
MCParent == [f \in Fibers \ {Root} |-> Root]
MCChain == [f \in Fibers |-> {f, Root}]

\* Variables are interchangeable
MCSymmetry == Permutations(Vars)

=============================================================================
