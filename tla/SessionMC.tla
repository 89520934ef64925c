------------------------------ MODULE SessionMC ------------------------------
(* Values of the constants of Session for TLC. *)
EXTENDS Session

\* Everything but umkaRun() in native code
AllButNestedRuns == {"request", "fail", "host"}

\* Also that
Anything == AllButNestedRuns \cup {"run"}

==============================================================================
