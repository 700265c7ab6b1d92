-------------------------- MODULE MCProcessRegistry --------------------------
(* The process registry on small instances. *)
EXTENDS ProcessRegistry

CONSTANTS s1, c1

MCGroups == {s1, c1}

MCSessions == {s1}
==============================================================================
