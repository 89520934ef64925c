--------------------------- MODULE HostHandlesMC ---------------------------
(***************************************************************************)
(* Small instances of HostHandles for TLC.                                 *)
(***************************************************************************)
EXTENDS HostHandles, TLC

MCSymmetry ==
  Permutations(Strings) \cup Permutations(Boxes) \cup Permutations(Blocks)
  \cup Permutations(Handles) \cup Permutations(AnyCells)

=============================================================================
