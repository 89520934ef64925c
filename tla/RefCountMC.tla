----------------------------- MODULE RefCountMC -----------------------------
(***************************************************************************)
(* Small instances of RefCount for TLC: two or three objects of two items. *)
(***************************************************************************)
EXTENDS RefCount, TLC

\* Objects are interchangeable, and so are the variables that are not native
MCSymmetry ==
  Permutations(Objs \ Handles) \cup Permutations(Handles) \cup Permutations(Vars \ HostVars)

=============================================================================
