------------------------------ MODULE FibersMC ------------------------------
(***************************************************************************)
(* A small instance of Fibers for TLC: main and two or three more fibers. *)
(***************************************************************************)
EXTENDS Fibers, TLC

\* All fibers but the main one are interchangeable
MCSymmetry == Permutations(Fibers \ {Main})

=============================================================================
