---------------------------- MODULE MCRunEngine -----------------------------
(***************************************************************************)
(* Workflows for TLC, and the values the configurations give RunEngine.    *)
(***************************************************************************)
EXTENDS RunEngine

CONSTANT c1    \* a process that calls on the run

NoNode == [n \in Nodes |-> 0]

Restart == [n \in Nodes |-> "restart_node"]
ThirdUncertain == [Restart EXCEPT ![3] = "fail_if_uncertain"]

\* "ship": 1 plans; the gate 2 approves the plan or has 4, which is outside
\* the main path, amend it; 3 implements, and its failure goes back to the
\* plan, so that the gate between them has to ask again.
ShipDeps == <<{}, {1}, {2}, {}>>
ShipKind == <<"work", "gate", "work", "work">>
ShipGoto == <<0, 0, 1, 0>>
ShipBack == <<0, 4, 0, 0>>

\* "fan": 1 plans, the plan is published for review by 2, changes requested
\* correct it, and 3 implements it; beside them 4 may close with questions.
FanDeps == <<{}, {1}, {2}, {}>>
FanKind == <<"work", "external", "work", "asks">>
FanGoto == <<0, 1, 0, 0>>
=============================================================================
