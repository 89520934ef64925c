----------------------------- MODULE DynArrayMC -----------------------------
(***************************************************************************)
(* Small instances of DynArray for TLC.                                    *)
(***************************************************************************)
EXTENDS DynArray

CONSTANTS x1, x2

\* The comparison puts null first
MCRank(x) == IF x = Null THEN 0 ELSE IF x = x1 THEN 1 ELSE 2

=============================================================================
