----------------------------- MODULE ExecutionMC -----------------------------
(***************************************************************************)
(* Small instances of Execution for TLC.                                   *)
(***************************************************************************)
EXTENDS Execution

\* The run stops with the function
Done == vm.status = "done" /\ UNCHANGED vars
==============================================================================
