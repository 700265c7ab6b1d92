---------------------------- MODULE MCEventStore ----------------------------
(* EventStore for TLC: two connections append to one log of two runs. *)
EXTENDS EventStore, TLC

CONSTANTS created, note

MCDrafts == {created, note}

\* Connections are interchangeable, and so are verifiers.
Symmetry == Permutations(Conns)
=============================================================================
