------------------------------ MODULE Schedule ------------------------------
(***************************************************************************)
(* What a run does next (crates/engine/src/run/schedule.rs and its         *)
(* schedule/ modules): `decide`, a pure function of the workflow, the      *)
(* policy and the state of the log.  Seven questions in a fixed order, the *)
(* first that answers decides.                                             *)
(*                                                                         *)
(* The workflow is the one the run's mode leaves: its nodes in declaration *)
(* order and the dependencies between them.  Not modelled: the question    *)
(* that re-runs a node over a tree that moved (reverify.rs) and the suite  *)
(* measured before the first step (baseline.rs); the workflows here        *)
(* declare neither.                                                        *)
(***************************************************************************)
EXTENDS RunLog, FiniteSets

CONSTANTS
    Deps,         \* Deps[n]: the nodes n waits for
    Kind,         \* Kind[n]: "work" a session or command, "asks" one that
                  \* may close with questions, "gate" an internal gate,
                  \* "external" a gate published on a forge
    Goto,         \* Goto[n]: the target of n's on_failure, 0 without one
    MaxReroutes,  \* Goto's max_reroutes
    SendsBack,    \* SendsBack[n]: where the gate n's option "back" goes, or 0
    OnInterrupt,  \* OnInterrupt[n]: "restart_node" or "fail_if_uncertain"
    OnFailure,    \* defaults.on_failure: "pause", "abort" or "continue"
    MaxParallel   \* max_parallel_nodes

ASSUME WorkflowAssumption ==
    /\ Deps \in [Nodes -> SUBSET Nodes]
    /\ Kind \in [Nodes -> {"work", "asks", "gate", "external"}]
    /\ Goto \in [Nodes -> 0..N] /\ SendsBack \in [Nodes -> 0..N]
    /\ OnInterrupt \in [Nodes -> {"restart_node", "fail_if_uncertain"}]
    /\ OnFailure \in {"pause", "abort", "continue"}
    /\ MaxReroutes \in Nat /\ MaxParallel \in Nat

\* No workflow with a cycle of depends_on is run (check/graph.rs,
\* find_depends_on_cycle).
ASSUME AcyclicAssumption ==
    \A S \in SUBSET Nodes : S # {} => \E n \in S : Deps[n] \cap S = {}

First(S) == CHOOSE n \in S : \A k \in S : n <= k

Decision(do, n) == [do |-> do, node |-> n]

\* `batch` gives the attempt each of its nodes starts at.
Execute(batch) == [do |-> "Execute", batch |-> batch]

Nothing == Decision("Nothing", 0)

is_gate(n) == Kind[n] \in {"gate", "external"}

reroute_only ==
    {t \in Nodes : /\ \E n \in Nodes : t \in {Goto[n], SendsBack[n]}
                   /\ Deps[t] = {}
                   /\ \A n \in Nodes : t \notin Deps[n]}

finished(L, n) == State(L, n) = "finished"

deps_satisfied(L, n) == \A d \in Deps[n] : finished(L, d)

\* Mutant: counts the attempt that is about to start twice.
next_attempt_twice(L, n) == L.node[n].attempts + 2

next_attempt(L, n) == L.node[n].attempts + 1

\* Upstream[n]: the nodes n waits for, directly or through others; those
\* that are in every set which holds what n waits for and what its own wait for.
Upstream ==
    [n \in Nodes |->
        {m \in Nodes : \A S \in SUBSET Nodes :
            Deps[n] \subseteq S /\ (\A k \in S : Deps[k] \subseteq S) => m \in S}]

depends_on(n, on) == on \in Upstream[n]

drive_gate(L, n) ==
    Decision(IF L.gate[n].ref THEN "PollGate"
             ELSE IF Kind[n] = "external" THEN "PublishGate"
             ELSE "ResolveInternalGate", n)

(***************************************************************************)
(* The questions before a failure's.                                       *)
(***************************************************************************)
gate_step(L) ==
    LET open == {n \in Nodes : is_gate(n) /\ State(L, n) = "running"}
    IN  IF open = {} THEN Nothing ELSE drive_gate(L, First(open))

\* What the node waits on decides, never what kind of node it is.
waiting_step(L) ==
    LET parked == {n \in Nodes : State(L, n) \in Waits}
        n == First(parked)
    IN  IF parked = {} THEN Nothing
        ELSE Decision(CASE State(L, n) = "questions" -> "AskQuestions"
                        [] State(L, n) = "pr" -> "PollGate"
                        [] State(L, n) = "gate" /\ Kind[n] = "external" -> "PublishGate"
                        [] OTHER -> "ResolveInternalGate", n)

answered_step(L) ==
    LET owed == {n \in Nodes : answered_unfinished(L, n)}
    IN  IF owed = {} THEN Nothing ELSE Decision("FinishAnswered", First(owed))

orphans(L) == {n \in Nodes : ~is_gate(n) /\ State(L, n) = "running"}

\* Mutant: every orphan restarts.
orphan_step_restarts(L) ==
    IF orphans(L) = {} THEN Nothing
    ELSE Execute([n \in orphans(L) |-> next_attempt(L, n)])

\* One uncertain orphan pauses the whole resume.
orphan_step(L) ==
    IF orphans(L) = {} THEN Nothing
    ELSE IF \E n \in orphans(L) : OnInterrupt[n] = "fail_if_uncertain"
         THEN Decision("Pause", 0)
         ELSE Execute([n \in orphans(L) |-> next_attempt(L, n)])

(***************************************************************************)
(* A failed node (schedule/failure.rs).                                    *)
(***************************************************************************)
correction_can_change(cause) == cause \notin {"reset", "frozen"}

retry_chosen(L, n) == L.node[n].cause = "fixable" /\ run_again_chosen(L, n)

\* Under on_failure: pause.  A gate keeps the plain pause: its own flow
\* re-asks it.
paused_failure(L, n) ==
    LET again == Execute([k \in {n} |-> next_attempt(L, n)])
    IN  CASE L.node[n].cause = "reset" /\ reset_waited(L, n) -> again
          [] L.node[n].cause = "reset" /\ ~reset_waited(L, n) -> Decision("WaitUntil", n)
          [] L.node[n].cause # "reset" /\ is_gate(n) -> Decision("Pause", 0)
          [] L.node[n].cause # "reset" /\ ~is_gate(n) /\ retry_chosen(L, n) -> again
          [] OTHER -> Decision("EscalateFailure", n)

\* Mutants: one reroute too many; `continue` taken for `abort`.
unrerouted_at_cap(L, n) ==
    IF Goto[n] # 0 /\ correction_can_change(L.node[n].cause)
    THEN Decision(IF L.node[n].reroutes <= MaxReroutes THEN "Reroute"
                  ELSE "GateExhaustedReroutes", n)
    ELSE paused_failure(L, n)

unrerouted_aborts(L, n) ==
    IF OnFailure = "pause" THEN paused_failure(L, n) ELSE Decision("Fail", n)

unrerouted(L, n) ==
    IF Goto[n] # 0 /\ correction_can_change(L.node[n].cause)
    THEN Decision(IF L.node[n].reroutes < MaxReroutes THEN "Reroute"
                  ELSE "GateExhaustedReroutes", n)
    ELSE CASE OnFailure = "pause" -> paused_failure(L, n)
           [] OnFailure = "abort" -> Decision("Fail", n)
           [] OTHER -> Nothing

\* The nodes downstream of `to` and upstream of `n`.
between(to, n) ==
    {m \in Nodes \ {to, n} : depends_on(m, to) /\ depends_on(n, m)}

\* Mutant: nothing between the correction and the failure is made again.
stale_between_none(L, to, n) == {}

\* The first of them that finished before the correction did, and whose own
\* inputs between the two are fresh.
stale_between(L, to, n) ==
    LET stale == {m \in between(to, n) : L.node[m].finished < L.node[to].finished}
    IN  {m \in stale : Deps[m] \cap stale = {}}

\* A failure rerouted to `to`: run the correction, then what it made stale,
\* then the failed node again.
after_reroute(L, n) ==
    LET to == L.node[n].rerouteTo
        since == L.node[n].rerouteAt
        stale == stale_between(L, to, n)
        again == IF stale = {} THEN n ELSE First(stale)
    IN  IF L.node[to].finished > since
        THEN IF stale # {} /\ L.node[again].failed > L.node[to].finished THEN Nothing
             ELSE IF is_gate(again) THEN drive_gate(L, again)
             ELSE Execute([k \in {again} |-> next_attempt(L, again)])
        ELSE IF L.node[to].failed > since THEN Nothing
             ELSE Execute([k \in {to} |-> next_attempt(L, to)])

failure_of(L, n) ==
    IF L.node[n].rerouteAt > L.node[n].failed THEN after_reroute(L, n)
                                              ELSE unrerouted(L, n)

failure_step(L) ==
    LET open == {n \in Nodes : State(L, n) = "failed" /\ failure_of(L, n) # Nothing}
    IN  IF open = {} THEN Nothing ELSE failure_of(L, First(open))

(***************************************************************************)
(* What is ready (schedule/ready.rs).                                      *)
(***************************************************************************)
ready(L) ==
    {n \in Nodes : State(L, n) = "none" /\ n \notin reroute_only /\ deps_satisfied(L, n)}

\* Mutant: a gate does not wait for its dependencies.
ready_gates_at_once(L) ==
    {n \in Nodes : is_gate(n) /\ State(L, n) = "none" /\ n \notin reroute_only}

ready_gates(L) == {n \in ready(L) : is_gate(n)}

Capacity == IF MaxParallel > 1 THEN MaxParallel ELSE 1

\* Mutant: a node does not wait for its dependencies.
ready_nodes_at_once(L) ==
    {n \in Nodes : ~is_gate(n) /\ State(L, n) = "none" /\ n \notin reroute_only}

\* Fresh nodes up to capacity, in declaration order.
ready_nodes(L) ==
    LET fresh == ready(L) \ ready_gates(L)
    IN  {n \in fresh : Cardinality({k \in fresh : k < n}) < Capacity}

\* Every node this mode includes counts, but for a reroute's target that
\* was never needed.
unsettled(L) ==
    {n \in Nodes : ~finished(L, n) /\ ~(n \in reroute_only /\ State(L, n) = "none")}

\* Mutant: leaves a run that continues past its failures open.
nothing_runnable_pauses(L) ==
    Decision(IF unsettled(L) = {} THEN "Finish" ELSE "Pause", 0)

nothing_runnable(L) ==
    LET failed == {n \in Nodes : State(L, n) = "failed"}
    IN  IF unsettled(L) = {} THEN Decision("Finish", 0)
        ELSE IF OnFailure = "continue" /\ failed # {} THEN Decision("Fail", First(failed))
        ELSE Decision("Pause", 0)

ready_batch(L) ==
    IF ready_gates(L) # {} THEN drive_gate(L, First(ready_gates(L)))
    ELSE IF ready_nodes(L) # {} THEN Execute([n \in ready_nodes(L) |-> 1])
    ELSE nothing_runnable(L)

\* d.or_else(next)
or_else(d, next) == IF d = Nothing THEN next ELSE d

decide(L) ==
    IF L.broken THEN Decision("Broken", 0)
    ELSE or_else(gate_step(L), or_else(waiting_step(L), or_else(answered_step(L),
         or_else(orphan_step(L), or_else(failure_step(L), ready_batch(L))))))
=============================================================================
