---------------------------- MODULE MCMovedTree ----------------------------
(***************************************************************************)
(* A writer in the run's tree, an audited one, an invariant beside them,   *)
(* an invariant behind the first whose failure goes to a correction.       *)
(***************************************************************************)
EXTENDS MovedTree

MCDeps == <<{}, {}, {}, {1}, {}>>
MCGoto == <<0, 0, 0, 5, 0>>
=============================================================================
