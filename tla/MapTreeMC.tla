----------------------------- MODULE MapTreeMC -----------------------------
(***************************************************************************)
(* Small instances of MapTree for TLC: keys of three bits.                 *)
(***************************************************************************)
EXTENDS MapTree, TLC

\* Keys no two of which are more than 2^(Width - 1) - 1 apart
CloseKeys == -2 .. 1

\* All the integers of three bits
AllKeys == -4 .. 3

\* The addresses of nodes are interchangeable
MCSymmetry == Permutations(Nodes)

=============================================================================
