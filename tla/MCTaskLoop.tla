----------------------------- MODULE MCTaskLoop -----------------------------
(* The last of three tasks depends on the first and might touch what the     *)
(* second touches; the first two may share a batch.                          *)
EXTENDS TaskLoop

MCDeps == [t \in Tasks |-> IF t = 3 THEN {1} ELSE {}]
MCMeets == {pair \in {{2, 3}} : pair \subseteq Tasks}
=============================================================================
