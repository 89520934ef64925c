----------------------------- MODULE PlaygroundMC -----------------------------
(***************************************************************************)
(* Small instances of Playground for TLC.                                  *)
(***************************************************************************)
EXTENDS Playground
==============================================================================
