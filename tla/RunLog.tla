------------------------------- MODULE RunLog -------------------------------
(***************************************************************************)
(* What a run's event log means (crates/engine/src/replay.rs, with the     *)
(* ledgers of crates/core/src/events): the state `derive` folds a log      *)
(* into.  A log is modelled by that state, and `apply(L, e)` is the state  *)
(* after one more event.  An event the log cannot take breaks the run:     *)
(* replay stops there, and nothing appended later is ever read.            *)
(*                                                                         *)
(* Kept: every field a scheduling decision reads.  Left out: tokens,       *)
(* clocks, findings, artifacts, tasks, scopes, sessions and child runs,    *)
(* which move no node and end no pause.                                    *)
(***************************************************************************)
EXTENDS Integers

CONSTANT N    \* how many nodes the workflow declares

ASSUME NAssumption == N \in Nat \ {0}

\* A node is its place in the workflow's declaration order.
Nodes == 1..N

\* NodeState: "none" is no state; "gate", "pr" and "questions" are Waiting:
\* on a gate with no external handle, on a published one, on questions.
Waits == {"gate", "pr", "questions"}

NodeStates == {"none", "running", "finished", "failed"} \cup Waits

\* What a failure's menu can do about it (Outlook): "fixable" may be run
\* again by a person's choice, "reset" ends by itself at a known instant,
\* "frozen" reads the same to every attempt, "stuck" offers nothing to run
\* again but a correction may change it.
Causes == {"fixable", "reset", "frozen", "stuck"}

\* What a gate was resolved with: an option a person chose, or the verdict
\* of a review.
Options == {"retry", "promote", "abort", "go", "back"}

Verdicts == {"approved", "changes", "closed"}

\* What the log records, as `apply` reads it.  Seqs start at 1: 0 is none.
Event(kind, n) == [kind |-> kind, node |-> n, attempt |-> 0, with |-> "none", to |-> 0]

Started(n, attempt) == [Event("node_started", n) EXCEPT !.attempt = attempt]
Finished(n) == Event("node_finished", n)
Failed(n, cause) == [Event("node_failed", n) EXCEPT !.with = cause]
Rerouted(n, to, origin) == [Event("node_rerouted", n) EXCEPT !.to = to, !.with = origin]
Waiting(n, on) == [Event("gate_waiting", n) EXCEPT !.with = on]
Resolved(n, how) == [Event("gate_resolved", n) EXCEPT !.with = how]
QuestionsAsked(n) == Event("questions_asked", n)
QuestionsAnswered(n) == Event("questions_answered", n)
\* `n` is the node whose limit the pause awaits the reset of, or 0.
RunPaused(n) == Event("run_paused", n)
RunResumed(when) == [Event("run_resumed", 0) EXCEPT !.with = when]
PromotionSignaled == Event("promotion_signaled", 0)
RunFinished(terminal) == [Event("run_finished", 0) EXCEPT !.with = terminal]

Unrecorded ==
    [state |-> "none", cause |-> "none", attempts |-> 0, finished |-> 0,
     failed |-> 0, reroutes |-> 0, rerouteTo |-> 0, rerouteAt |-> 0,
     pre |-> "none"]

Ungated ==
    [ref |-> FALSE, waiting |-> 0, choice |-> "none", at |-> 0,
     approved |-> FALSE, round |-> "none", answeredAt |-> 0]

\* A run just created: one event, its run_created.
Born ==
    [seq    |-> 1,
     broken |-> FALSE,
     node   |-> [n \in Nodes |-> Unrecorded],
     gate   |-> [n \in Nodes |-> Ungated],
     run    |-> [paused |-> FALSE, pausedAt |-> 0, awaits |-> 0,
                 late |-> FALSE, finished |-> "no", tailPaused |-> FALSE,
                 woken |-> FALSE]]

State(L, n) == L.node[n].state

(***************************************************************************)
(* The refusals.  A terminal needs the start it closes, a question a       *)
(* running node, and an answer a node that waits.                          *)
(***************************************************************************)
refuse(L, e) ==
    \/ /\ e.kind \in {"node_finished", "node_failed", "questions_asked"}
       /\ State(L, e.node) # "running"
    \/ /\ e.kind = "questions_answered"
       /\ State(L, e.node) \notin Waits

\* The state the node had is kept, a wait it was already in included, so
\* that the close of this wait restores it.
park(r, on) == [r EXCEPT !.pre = r.state, !.state = on]

\* Mutant: restores the cause in the state's place.
unpark_cause(r) == [r EXCEPT !.state = r.cause, !.pre = "none"]

unpark(r) == [r EXCEPT !.state = r.pre, !.pre = "none"]

\* A resolution restores only a node that still waits.
apply_node(r, e, seq) ==
    CASE e.kind = "node_started" ->
            [r EXCEPT !.state = "running", !.cause = "none",
                      !.attempts = IF e.attempt > @ THEN e.attempt ELSE @]
      [] e.kind = "node_finished" ->
            [r EXCEPT !.state = "finished", !.finished = seq]
      [] e.kind = "node_failed" ->
            [r EXCEPT !.state = "failed", !.failed = seq, !.cause = e.with]
      [] e.kind = "node_rerouted" ->
            [r EXCEPT !.reroutes = IF e.with = "on_failure" THEN @ + 1 ELSE @,
                      !.rerouteTo = e.to, !.rerouteAt = seq]
      [] e.kind = "gate_waiting" -> park(r, e.with)
      [] e.kind = "gate_resolved" -> IF r.state \in Waits THEN unpark(r) ELSE r
      [] e.kind = "questions_asked" -> park(r, "questions")
      [] e.kind = "questions_answered" -> unpark(r)
      [] OTHER -> r

apply_gate(g, e, seq) ==
    CASE e.kind = "gate_waiting" ->
            [g EXCEPT !.waiting = seq, !.ref = @ \/ e.with = "pr"]
      [] e.kind = "gate_resolved" ->
            [g EXCEPT !.waiting = 0, !.choice = e.with, !.at = seq,
                      !.approved = @ \/ e.with = "approved",
                      !.ref = @ /\ e.with \notin {"changes", "closed"}]
      [] e.kind = "questions_asked" -> [g EXCEPT !.round = "open", !.answeredAt = 0]
      [] e.kind = "questions_answered" ->
            [g EXCEPT !.round = "answered", !.answeredAt = seq]
      [] OTHER -> g

apply_run(r, e, seq, awaited) ==
    CASE e.kind = "run_paused" ->
            [r EXCEPT !.paused = TRUE, !.pausedAt = seq, !.awaits = awaited,
                      !.woken = TRUE]
      [] e.kind = "run_resumed" ->
            [r EXCEPT !.paused = FALSE, !.late = (e.with = "late"), !.woken = TRUE]
      [] e.kind = "run_finished" -> [r EXCEPT !.finished = e.with]
      [] OTHER -> r

\* A refused event moves no ledger, and replay stops at it: the events that
\* follow are on the log, and `derive` never reads them.
apply(L, e) ==
    IF L.broken THEN L
    ELSE IF refuse(L, e) THEN [L EXCEPT !.broken = TRUE]
    ELSE LET seq == L.seq + 1
             about == e.node # 0 /\ e.kind # "run_paused"
             awaited == IF e.node = 0 THEN 0 ELSE L.node[e.node].failed
         IN  [seq    |-> seq,
              broken |-> FALSE,
              node   |-> IF about THEN [L.node EXCEPT ![e.node] = apply_node(@, e, seq)]
                                  ELSE L.node,
              gate   |-> IF about THEN [L.gate EXCEPT ![e.node] = apply_gate(@, e, seq)]
                                  ELSE L.gate,
              run    |-> [apply_run(L.run, e, seq, awaited)
                            EXCEPT !.tailPaused = (e.kind = "run_paused"),
                                   !.woken = @ \/ about]]

(***************************************************************************)
(* What a person decided about a node, read off the log (decisions.rs).    *)
(***************************************************************************)
Later(a, b) == IF a > b THEN a ELSE b

\* Nothing acted on the resolution at `at`: no terminal and no reroute of
\* the node, no pause of the run, and no question standing after it.
unconsumed(L, n, at) ==
    /\ at > Later(L.node[n].finished, L.node[n].failed)
    /\ at > L.node[n].rerouteAt
    /\ at > L.run.pausedAt
    /\ at > L.gate[n].waiting

\* The answer a parked run was handed and nothing has consumed.
pre_seeded(L, n) == L.gate[n].at > 0 /\ unconsumed(L, n, L.gate[n].at)

answer_awaits_its_resume(L) ==
    L.run.paused /\ \E n \in Nodes : pre_seeded(L, n)

run_again_chosen(L, n) == L.gate[n].choice = "retry" /\ pre_seeded(L, n)

\* The run paused for the reset of this failure, and a wake logged after
\* the reset resumed it.
reset_waited(L, n) ==
    /\ L.run.awaits > 0 /\ L.run.awaits = L.node[n].failed
    /\ ~L.run.paused
    /\ L.run.late

\* The node's questions were answered and its terminal is owed.
answered_unfinished(L, n) ==
    /\ L.gate[n].round = "answered"
    /\ L.gate[n].answeredAt > Later(L.node[n].finished, L.node[n].failed)

woken(L) == L.run.woken \/ L.broken
=============================================================================
