----------------------------- MODULE RunEngine ------------------------------
(***************************************************************************)
(* One run: its log, the engine process that drives it, and the calls      *)
(* other processes make on it.  The engine (crates/engine/src/run) wakes,  *)
(* and in a loop reads the log, asks `decide` and takes that step; each    *)
(* event of a step is an append of its own, and the process may die        *)
(* between any two of them.  Beside it, `resolve_gate`, `answer_questions`,*)
(* `close` and `cancel` read the log in a process of their own and append  *)
(* to it later.                                                            *)
(*                                                                         *)
(* What the code does not control is chosen freely: how a session ends,    *)
(* what a person answers, what a forge says, when a process dies.  Every   *)
(* such choice that takes the run no further spends one of MaxSetbacks, so *)
(* that a run is finite and a run that never ends is the engine's doing.   *)
(*                                                                         *)
(* One engine at a time drives a run: the lease that keeps two apart is    *)
(* not modelled.  The workflows have no budget, no tasks and no hooks, and *)
(* an asking_opened or changes_counted event, which moves no ledger read   *)
(* here, is left out.                                                      *)
(***************************************************************************)
EXTENDS Schedule, Sequences

CONSTANTS
    Promotes,     \* whether a later mode follows this run's
    FailCauses,   \* how a session may fail
    Adverse,      \* the setbacks that may happen
    MaxSetbacks,  \* bound: how many of them
    MaxWakes,     \* bound: the invocations
    Calls,        \* the calls of other processes
    Callers,      \* the processes that make them
    MaxCalls,     \* bound: the calls made
    Overlap       \* whether a call may overlap the engine or another call

ASSUME EngineAssumption ==
    /\ Promotes \in BOOLEAN /\ Overlap \in BOOLEAN
    /\ FailCauses \subseteq Causes
    /\ Adverse \subseteq {"crash", "cancel", "fail", "pause", "absent", "offline",
                          "early", "abort", "back", "refused", "pending",
                          "changes", "closed", "drift"}
    /\ Calls \subseteq {"resolve", "answer", "close", "cancel"}
    /\ MaxSetbacks \in Nat /\ MaxWakes \in Nat /\ MaxCalls \in Nat

VARIABLES
    log,       \* the run's log, as the state it derives to
    eng,       \* the engine process
    crashed,   \* whether the registry file names an engine that died
    calls,     \* calls[c]: what caller c has still to append
    setbacks, wakes, made   \* how many of each bound are spent

vars == <<log, eng, crashed, calls, setbacks, wakes, made>>

Working == -1

\* `at`: "down", "wake" before the loop, "loop", "asking" a person at the
\* terminal about the decision `asks`, "ending" once the run paused or
\* closed.  `script`: the events the current step has still to append.
\* `human`, `forge`: whether a person sits at the terminal and a forge is
\* reachable, for this invocation.
\* `batch[n]`: 0, or the attempt n has still to start at, or Working.
Down == [at |-> "down", script |-> <<>>, batch |-> [n \in Nodes |-> 0],
         asks |-> Nothing, human |-> FALSE, forge |-> FALSE, pausing |-> FALSE,
         cancel |-> FALSE]

Init ==
    /\ log = Born
    /\ eng = Down
    /\ crashed = FALSE
    /\ calls = [c \in Callers |-> <<>>]
    /\ setbacks = 0 /\ wakes = 0 /\ made = 0

Setback(kind) == kind \in Adverse /\ setbacks < MaxSetbacks /\ setbacks' = setbacks + 1

NoSetback == UNCHANGED setbacks

NoCalls == \A c \in Callers : calls[c] = <<>>

(***************************************************************************)
(* Waking: exec.rs start, wake.rs, gate_exec.rs recheck_approved_gates.    *)
(***************************************************************************)
\* A wake of a closed run reads the log and ends.  A wake with nobody at the
\* terminal, with no forge, or before the reset the run awaits is a setback.
Wake ==
    /\ eng.at = "down"
    /\ wakes < MaxWakes
    /\ Overlap \/ NoCalls
    /\ \E wake \in {"plain", "absent", "offline", "early"} :
          /\ IF wake = "plain" THEN NoSetback ELSE Setback(wake)
          /\ wake = "early" => log.run.paused /\ log.run.awaits > 0
          /\ eng' = IF log.run.finished # "no" THEN [Down EXCEPT !.at = "ending"]
                    ELSE [Down EXCEPT !.at = "wake",
                            !.human = (wake # "absent"), !.forge = (wake # "offline"),
                            !.script = IF woken(log)
                                       THEN <<RunResumed(IF wake = "early" THEN wake ELSE "late")>>
                                       ELSE <<>>]
    /\ wakes' = IF log.run.finished = "no" THEN wakes + 1 ELSE wakes
    /\ crashed' = FALSE
    /\ UNCHANGED <<log, calls, made>>

\* An approval that no longer covers the pull request's head re-opens its
\* gate; the gates are asked about one after the other.
recheck_approved_gates ==
    /\ eng.at = "wake" /\ eng.script = <<>>
    /\ \/ eng' = [eng EXCEPT !.at = "loop"] /\ NoSetback
       \/ /\ eng.forge
          /\ Setback("drift")
          /\ \E n \in Nodes :
                /\ is_gate(n) /\ finished(log, n)
                /\ log.gate[n].approved /\ log.gate[n].ref
                /\ eng' = [eng EXCEPT !.script = <<Started(n, next_attempt(log, n))>>]
    /\ UNCHANGED <<log, crashed, calls, wakes, made>>

(***************************************************************************)
(* The loop: exec.rs drive and step, one disjunct per decision.            *)
(***************************************************************************)
Landed == \A n \in Nodes : eng.batch[n] = 0

\* Before the next decision: the step before it has appended everything.
Between == eng.at = "loop" /\ eng.script = <<>> /\ Landed

Deciding == Between /\ ~eng.pausing /\ ~eng.cancel

Appends(script) ==
    /\ eng' = [eng EXCEPT !.at = "loop", !.asks = Nothing, !.script = script]
    /\ UNCHANGED <<log, crashed, calls, wakes, made>>

\* A cancellation pauses at the loop's top; a batch with a node that
\* paused pauses once the whole batch landed.
PauseAtTop ==
    /\ Between /\ (eng.pausing \/ eng.cancel)
    /\ Appends(<<RunPaused(0)>>)
    /\ NoSetback

\* The invocation ends on an error, having appended nothing.
Errs ==
    /\ eng' = Down
    /\ UNCHANGED <<log, crashed, calls, setbacks, wakes, made>>

\* A broken log, or a node that is no gate where the scheduler says one
\* waits (internal_gate.rs, InternalGate::of).
StepBroken ==
    /\ Deciding
    /\ \/ decide(log).do = "Broken"
       \/ decide(log).do = "ResolveInternalGate" /\ ~is_gate(decide(log).node)
    /\ Errs

\* The decisions that append and ask nobody.
step(d) ==
    CASE d.do = "Finish" -> <<RunFinished("done")>>
      [] d.do = "Fail" -> <<RunFinished("failed")>>
      [] d.do = "Pause" -> <<RunPaused(0)>>
      [] d.do = "WaitUntil" -> <<RunPaused(d.node)>>
      [] d.do = "Reroute" -> <<Rerouted(d.node, Goto[d.node], "on_failure")>>
      [] d.do = "FinishAnswered" -> <<Finished(d.node)>>

TakeStep ==
    /\ Deciding
    /\ decide(log).do \in {"Finish", "Fail", "Pause", "WaitUntil", "Reroute",
                           "FinishAnswered"}
    /\ Appends(step(decide(log)))
    /\ NoSetback

\* The close of an answered node refuses what its work may not touch: the node
\* fails, and only a correction may change that (node_close.rs).
CloseRefused ==
    /\ Deciding
    /\ decide(log).do = "FinishAnswered"
    /\ Setback("fail")
    /\ Appends(<<Failed(decide(log).node, "stuck")>>)

\* The disk has no room for a batch: none of it starts, and the run pauses.
NoRoom ==
    /\ Deciding
    /\ decide(log).do = "Execute"
    /\ Setback("pause")
    /\ Appends(<<RunPaused(0)>>)

execute_batch ==
    /\ Deciding
    /\ decide(log).do = "Execute"
    /\ LET batch == decide(log).batch
       IN  eng' = [eng EXCEPT !.batch =
                     [n \in Nodes |-> IF n \in DOMAIN batch THEN batch[n] ELSE 0]]
    /\ UNCHANGED <<log, crashed, calls, setbacks, wakes, made>>

(***************************************************************************)
(* Decisions a person takes: escalation.rs decided, internal_gate.rs,      *)
(* console_gate.rs, questions_exec.rs.                                     *)
(***************************************************************************)
\* An external gate without a forge degrades to the console.
AtConsole(d) == d.do \in {"PublishGate", "PollGate"} /\ ~eng.forge

HasMenu(d) ==
    \/ d.do \in {"GateExhaustedReroutes", "EscalateFailure"}
    \/ d.do = "ResolveInternalGate" /\ is_gate(d.node)

Menu(d) ==
    CASE d.do = "GateExhaustedReroutes" ->
            {"retry", "abort"} \cup (IF Promotes THEN {"promote"} ELSE {})
      [] d.do = "EscalateFailure" ->
            {"abort"} \cup (IF log.node[d.node].cause = "fixable" THEN {"retry"} ELSE {})
      [] d.do = "ResolveInternalGate" ->
            {"go", "abort"} \cup (IF SendsBack[d.node] # 0 THEN {"back"} ELSE {})
      [] OTHER -> {"go", "back"}

\* The seeded answer the menu of now still offers (pre_seeded_resolution).
Seeded(d) ==
    HasMenu(d) /\ pre_seeded(log, d.node) /\ log.gate[d.node].choice \in Menu(d)

pair(n, choice) == <<Waiting(n, "gate"), Resolved(n, choice)>>

\* What a choice appends, after `said`: the pair that records it, or nothing
\* when resolve_gate recorded it.
exhausted(d, choice, said) ==
    said \o CASE choice = "retry" -> <<Rerouted(d.node, Goto[d.node], "on_failure")>>
              [] choice = "promote" -> <<PromotionSignaled, RunFinished("promoted")>>
              [] OTHER -> <<RunPaused(0)>>

failure_escalation(d, choice, said) ==
    said \o IF choice = "retry" THEN <<>> ELSE <<RunPaused(0)>>

\* Mutant: does not open the attempt its terminal closes.
internal_gate_unopened(d, choice, said) ==
    said \o IF choice = "abort" THEN <<RunPaused(0)>> ELSE <<Finished(d.node)>>

internal_gate(d, choice, said) ==
    LET n == d.node
        started == <<Started(n, next_attempt(log, n))>>
    IN  CASE choice = "abort" -> said \o <<RunPaused(0)>>
          [] choice = "back" -> started \o said \o
                <<Failed(n, "stuck"), Rerouted(n, SendsBack[n], "gate_choice")>>
          [] OTHER -> started \o said \o <<Finished(n)>>

console_gate(d, choice, said) ==
    said \o <<Started(d.node, next_attempt(log, d.node)),
              IF choice = "go" THEN Finished(d.node) ELSE Failed(d.node, "fixable")>>

Consequence(d, choice, said) ==
    CASE d.do = "GateExhaustedReroutes" -> exhausted(d, choice, said)
      [] d.do = "EscalateFailure" -> failure_escalation(d, choice, said)
      [] d.do = "ResolveInternalGate" -> internal_gate(d, choice, said)
      [] OTHER -> console_gate(d, choice, said)

ConsumeSeeded ==
    /\ Deciding
    /\ Seeded(decide(log))
    /\ Appends(Consequence(decide(log), log.gate[decide(log).node].choice, <<>>))
    /\ NoSetback

PutsToAPerson(d) == HasMenu(d) \/ AtConsole(d) \/ d.do = "AskQuestions"

\* Mutant: pauses before it looks for the decision the log holds.
NobodyToAskFirst ==
    /\ Deciding
    /\ PutsToAPerson(decide(log))
    /\ ~eng.human
    /\ Appends(<<RunPaused(0)>>)
    /\ NoSetback

NobodyToAsk ==
    /\ Deciding
    /\ PutsToAPerson(decide(log)) /\ ~Seeded(decide(log))
    /\ ~eng.human
    /\ Appends(<<RunPaused(0)>>)
    /\ NoSetback

AskHuman ==
    /\ Deciding
    /\ PutsToAPerson(decide(log)) /\ ~Seeded(decide(log))
    /\ eng.human
    /\ eng' = [eng EXCEPT !.at = "asking", !.asks = decide(log)]
    /\ UNCHANGED <<log, crashed, calls, setbacks, wakes, made>>

\* A choice that sends the run back or stops it is a setback.
Chooses(choice) ==
    IF choice \in {"abort", "back"} THEN Setback(choice) ELSE NoSetback

HumanAnswers ==
    /\ eng.at = "asking"
    /\ eng.asks.do # "AskQuestions"
    /\ \E choice \in Menu(eng.asks) :
          /\ Chooses(choice)
          /\ Appends(Consequence(eng.asks, choice, pair(eng.asks.node, choice)))

\* The reply is recorded, or the questions refuse it and the run parks.
HumanReplies ==
    /\ eng.at = "asking"
    /\ eng.asks.do = "AskQuestions"
    /\ \/ Appends(<<QuestionsAnswered(eng.asks.node)>>) /\ NoSetback
       \/ Appends(<<RunPaused(0)>>) /\ Setback("refused")

(***************************************************************************)
(* External gates: gate_exec.rs, gate_publish.rs.  A forge's limit fails   *)
(* the node until it resets, a branch that does not render or an artifact  *)
(* the run does not hold fails it as often as it is asked; a forge's other *)
(* errors end the invocation, as Crash does.                               *)
(***************************************************************************)
publish_gate ==
    /\ Deciding /\ eng.forge
    /\ decide(log).do = "PublishGate"
    /\ LET n == decide(log).node
       IN  \/ Appends(<<Waiting(n, "pr"), RunPaused(0)>>) /\ NoSetback
           \/ /\ Setback("fail")
              /\ \E cause \in FailCauses \cap {"reset", "frozen"} :
                    Appends(<<Started(n, next_attempt(log, n)), Failed(n, cause)>>)

poll_gate ==
    /\ Deciding /\ eng.forge
    /\ decide(log).do = "PollGate"
    /\ LET n == decide(log).node
           started == Started(n, next_attempt(log, n))
       IN  \/ Appends(<<RunPaused(0)>>) /\ Setback("pending")
           \/ Appends(<<started, Resolved(n, "approved"), Finished(n)>>) /\ NoSetback
           \/ /\ Appends(<<started, Resolved(n, "changes"), Failed(n, "fixable")>>)
              /\ Setback("changes")
           \/ Appends(<<Resolved(n, "closed"), RunPaused(0)>>) /\ Setback("closed")

(***************************************************************************)
(* Nodes: node_exec.rs execute_node.  The nodes of a batch run at once.    *)
(***************************************************************************)
NodeStarts(n) ==
    /\ eng.batch[n] > 0
    /\ log' = apply(log, Started(n, eng.batch[n]))
    /\ eng' = [eng EXCEPT !.batch[n] = Working]
    /\ UNCHANGED <<crashed, calls, setbacks, wakes, made>>

\* A node cut by the run's cancellation records no end, and neither does one
\* whose own run paused.
NodeEnds(n) ==
    /\ eng.batch[n] = Working
    /\ \/ log' = apply(log, Finished(n)) /\ NoSetback
       \/ /\ \E cause \in FailCauses : log' = apply(log, Failed(n, cause))
          /\ Setback("fail")
       \/ /\ Kind[n] = "asks"
          /\ log' = apply(log, QuestionsAsked(n))
          /\ NoSetback
       \/ eng.cancel /\ NoSetback /\ UNCHANGED log
    /\ eng' = [eng EXCEPT !.batch[n] = 0]
    /\ UNCHANGED <<crashed, calls, wakes, made>>

NodePauses(n) ==
    /\ eng.batch[n] = Working
    /\ Setback("pause")
    /\ eng' = [eng EXCEPT !.batch[n] = 0, !.pausing = TRUE]
    /\ UNCHANGED <<log, crashed, calls, wakes, made>>

(***************************************************************************)
(* The engine process.                                                     *)
(***************************************************************************)
EngineAppends ==
    /\ eng.script # <<>>
    /\ LET e == Head(eng.script)
       IN  /\ log' = apply(log, e)
           /\ eng' = [eng EXCEPT !.script = Tail(@),
                        !.at = IF e.kind \in {"run_paused", "run_finished"}
                               THEN "ending" ELSE @]
    /\ UNCHANGED <<crashed, calls, setbacks, wakes, made>>

InvocationEnds ==
    /\ eng.at = "ending"
    /\ Errs

\* Ctrl-C, or the SIGINT of `yunta cancel`.
CtrlC ==
    /\ eng.at \in {"wake", "loop"} /\ ~eng.cancel
    /\ Setback("cancel")
    /\ eng' = [eng EXCEPT !.cancel = TRUE]
    /\ UNCHANGED <<log, crashed, calls, wakes, made>>

Crash ==
    /\ eng.at # "down"
    /\ Setback("crash")
    /\ eng' = Down
    /\ crashed' = TRUE
    /\ UNCHANGED <<log, calls, wakes, made>>

(***************************************************************************)
(* Calls of other processes: escalation.rs resolve_gate, answers.rs        *)
(* answer_questions, close.rs close_run, cli cancel.rs settle_crash.       *)
(***************************************************************************)
Call(c, kind) ==
    /\ kind \in Calls /\ made < MaxCalls
    /\ calls[c] = <<>>
    /\ Overlap \/ (eng.at = "down" /\ NoCalls)
    /\ made' = made + 1
    /\ UNCHANGED <<log, eng, crashed, wakes>>

resolve_gate(c) ==
    /\ Call(c, "resolve")
    /\ log.run.tailPaused
    /\ ~answer_awaits_its_resume(log)
    /\ HasMenu(decide(log))
    /\ \E choice \in Menu(decide(log)) :
          /\ Chooses(choice)
          /\ calls' = [calls EXCEPT ![c] = pair(decide(log).node, choice)]

\* The round is open; nothing asks whether an engine is asking it too.
answer_questions(c) ==
    /\ Call(c, "answer")
    /\ \E n \in Nodes :
          /\ log.gate[n].round = "open"
          /\ calls' = [calls EXCEPT ![c] = <<QuestionsAnswered(n)>>]
    /\ NoSetback

\* A run whose engine died is settled first (settle_crash).
close_run(c) ==
    /\ Call(c, "close")
    /\ ~crashed
    /\ log.run.finished = "no" /\ log.run.tailPaused
    /\ calls' = [calls EXCEPT ![c] = <<RunFinished("cancelled")>>]
    /\ NoSetback

CallAppends(c) ==
    /\ calls[c] # <<>>
    /\ log' = apply(log, Head(calls[c]))
    /\ calls' = [calls EXCEPT ![c] = Tail(@)]
    /\ UNCHANGED <<eng, crashed, setbacks, wakes, made>>

CallerDies(c) ==
    /\ calls[c] # <<>>
    /\ Setback("crash")
    /\ calls' = [calls EXCEPT ![c] = <<>>]
    /\ UNCHANGED <<log, eng, crashed, wakes, made>>

\* The pause a dead engine did not record: `cancel` writes it for a run its
\* log says is moving, `close` for any run whose registry names one.
settle_crash ==
    /\ crashed
    /\ \/ "cancel" \in Calls /\ ~log.run.paused /\ log.run.finished = "no" /\ ~log.broken
       \/ "close" \in Calls
    /\ log' = apply(log, RunPaused(0))
    /\ crashed' = FALSE
    /\ UNCHANGED <<eng, calls, setbacks, wakes, made>>

Engine ==
    \/ recheck_approved_gates \/ PauseAtTop \/ StepBroken \/ TakeStep
    \/ CloseRefused \/ NoRoom \/ execute_batch \/ ConsumeSeeded \/ NobodyToAsk \/ AskHuman
    \/ HumanAnswers \/ HumanReplies \/ publish_gate \/ poll_gate
    \/ EngineAppends \/ InvocationEnds
    \/ \E n \in Nodes : NodeStarts(n) \/ NodeEnds(n) \/ NodePauses(n)

Next ==
    \/ Wake \/ Engine \/ CtrlC \/ Crash \/ settle_crash
    \/ \E c \in Callers : \/ resolve_gate(c) \/ answer_questions(c) \/ close_run(c)
                          \/ CallAppends(c) \/ CallerDies(c)

Spec == Init /\ [][Next]_vars

\* An engine that is up goes on, a person at its terminal answers in the
\* end, a call under way ends, and a run that is down and open is woken
\* again.  Nothing is assumed of crashes, cancellations and new calls.
Fairness ==
    /\ WF_vars(Engine)
    /\ WF_vars(Wake)
    /\ \A c \in Callers : WF_vars(CallAppends(c))

FairSpec == Spec /\ Fairness

-----------------------------------------------------------------------------
(***************************************************************************)
(* Properties.                                                             *)
(***************************************************************************)
Seqs == 0..log.seq

TypeOK ==
    /\ log.seq \in Nat \ {0} /\ log.broken \in BOOLEAN
    /\ log.node \in [Nodes ->
          [state : NodeStates, cause : Causes \cup {"none"}, attempts : Nat,
           finished : Seqs, failed : Seqs, reroutes : Nat,
           rerouteTo : 0..N, rerouteAt : Seqs, pre : NodeStates]]
    /\ log.gate \in [Nodes ->
          [ref : BOOLEAN, waiting : Seqs, at : Seqs, approved : BOOLEAN,
           choice : Options \cup Verdicts \cup {"none"},
           round : {"none", "open", "answered"}, answeredAt : Seqs]]
    /\ log.run \in [paused : BOOLEAN, pausedAt : Seqs, awaits : Seqs,
                    late : BOOLEAN, tailPaused : BOOLEAN, woken : BOOLEAN,
                    finished : {"no", "done", "failed", "promoted", "cancelled"}]
    /\ eng.at \in {"down", "wake", "loop", "asking", "ending"}
    /\ eng.batch \in [Nodes -> Nat \cup {Working}]
    /\ eng.human \in BOOLEAN /\ eng.forge \in BOOLEAN /\ eng.pausing \in BOOLEAN /\ eng.cancel \in BOOLEAN
    /\ crashed \in BOOLEAN
    /\ setbacks \in 0..MaxSetbacks /\ wakes \in 0..MaxWakes /\ made \in 0..MaxCalls

\* Whatever dies and whoever else writes, the log stays one that replay can
\* read to its end: no event on it is one `refuse` stops at (refuse.rs).
LogNeverBroken == ~log.broken

\* A session works only while everything it depends on is finished, across
\* reroutes, restarts of orphans and re-opened gates (ready.rs, failure.rs,
\* schedule.rs orphan_step).
WorkFollowsItsInputs ==
    \A n \in Nodes : eng.batch[n] = Working => deps_satisfied(log, n)

\* A node that was sent back is worked on, asked about or published again only
\* after
\* its correction finished and after everything between the two was made
\* again from the correction (failure.rs after_reroute, stale_between).
CorrectedBeforeAgain ==
    \A n \in Nodes :
        LET r == log.node[n]
            again == \/ eng.batch[n] = Working
                     \/ /\ eng.at = "asking" /\ eng.asks.node = n
                        /\ eng.asks.do \in {"ResolveInternalGate", "PublishGate", "PollGate"}
                     \/ eng.script # <<>> /\ Head(eng.script) = Waiting(n, "pr")
            to == r.rerouteTo
        IN  again /\ r.rerouteAt > r.failed =>
                /\ log.node[to].finished > r.rerouteAt
                /\ \A m \in between(to, n) : log.node[m].finished > log.node[to].finished

\* A run closed as done is made of work done in the graph's order: each node
\* finished after the last finish of everything it depends on.  (For
\* workflows whose corrections feed only the node that failed.)
DoneIsFresh ==
    log.run.finished = "done" =>
        \A n \in Nodes \ reroute_only :
            /\ finished(log, n)
            /\ \A d \in Deps[n] : log.node[d].finished < log.node[n].finished

\* Under on_failure: continue a run closes as failed only once every node
\* that is not behind a failure has finished (ready.rs nothing_runnable).
ContinueRunsTheRest ==
    OnFailure = "continue" /\ log.run.finished = "failed" =>
        \A n \in Nodes \ reroute_only :
            \/ finished(log, n)
            \/ \E m \in {n} \cup Upstream[n] : State(log, m) = "failed"

\* An attempt is never spent for nothing: a node's attempts beyond its first
\* are each owed to a setback: a failure, a crash, a cancellation, a person
\* who sent it back.  A choice to retry is consumed once, an answered round
\* costs no second session, and no wake restarts what finished
\* (decisions.rs unconsumed, schedule.rs answered_step).
EffortIsOwed ==
    \A n \in Nodes : ~is_gate(n) => log.node[n].attempts <= 1 + setbacks

\* A reroute past max_reroutes answers one person's `retry` made after that
\* failure (steps.rs gate_exhausted).
CapNeedsAPerson ==
    [][\A n \in Nodes :
          log'.node[n].reroutes > log.node[n].reroutes
          /\ log.node[n].reroutes >= MaxReroutes
            => /\ log.gate[n].choice = "retry"
               /\ unconsumed(log, n, log.gate[n].at)]_vars

\* A node whose interrupted attempt may have had effects, and whose
\* on_interrupt is fail_if_uncertain, is never started over that attempt
\* (schedule.rs orphan_step).
UncertainStaysPut ==
    [][\A n \in Nodes :
          ~is_gate(n) /\ OnInterrupt[n] = "fail_if_uncertain" /\ State(log, n) = "running"
            => log'.node[n].attempts = log.node[n].attempts]_vars

\* Nothing reopens a closed run: its log never changes again (exec.rs start,
\* steps.rs finish, close.rs close_run).  True where `close` meets no crash, no
\* reply and no wake; settling a dead engine breaks it (ProcessRegistry,
\* FinishedIsImmutable).
ClosedIsFinal == [][log.run.finished # "no" => log' = log]_vars

\* A decision that is on the log outlives every pause the scheduler comes to,
\* until the run has acted on it (escalation.rs resolve_gate,
\* pre_seeded_resolution).  Excepted are an abort, which is that pause, and the
\* pauses the run is cut by: a Ctrl-C, a session that paused, a batch the disk
\* has no room for, an engine that died and is settled.  Those void a decision
\* nobody had acted on.
Cut == eng.cancel \/ eng.pausing \/ crashed \/ decide(log).do = "Execute"

DecisionIsKept ==
    [][\A n \in Nodes :
          pre_seeded(log, n) /\ log.gate[n].choice # "abort" /\ ~Cut
            => log'.run.pausedAt = log.run.pausedAt]_vars

\* The engine can take the step the scheduler decides: a node handed to the
\* flow of an internal gate is a gate (internal_gate.rs, InternalGate::of).
StepFitsItsNode ==
    Deciding /\ decide(log).do = "ResolveInternalGate" => is_gate(decide(log).node)

\* A run parked over a failed gate asks about that gate when it is woken,
\* instead of parking again (failure.rs paused_failure).
FailedGateIsAskedAgain ==
    log.run.tailPaused /\ (\E n \in Nodes : is_gate(n) /\ State(log, n) = "failed")
        => decide(log) # Decision("Pause", 0)

\* A run that is woken whenever it parks reaches its close.
Completes == <>(log.run.finished # "no")
-----------------------------------------------------------------------------
(***************************************************************************)
(* A run, and what it promises.                                            *)
(***************************************************************************)
Standing(s) ==
    CASE s = "none" -> "idle"
      [] s = "running" -> "open"
      [] s = "finished" -> "done"
      [] s = "failed" -> "failed"
      [] OTHER -> "waiting"

Standings(L) == [n \in Nodes |-> Standing(State(L, n))]

Attempts(L) == [n \in Nodes |-> L.node[n].attempts]

\* What the last attempt of a node that ended came to.
Outcomes(L) ==
    [n \in Nodes |-> IF L.node[n].finished > L.node[n].failed THEN "done"
                     ELSE IF L.node[n].failed > 0 THEN "failed" ELSE "none"]

\* What a correction of n runs: its target and what lies between the two.
Correction(n) ==
    UNION {{to} \cup between(to, n) : to \in {Goto[n], SendsBack[n]} \ {0}}

R == INSTANCE Run WITH
    Gates     <- {n \in Nodes : is_gate(n)},
    Optional  <- reroute_only,
    Uncertain <- {n \in Nodes : OnInterrupt[n] = "fail_if_uncertain"},
    Redone    <- [n \in Nodes |-> Correction(n)],
    Continues <- (OnFailure = "continue"),
    state     <- Standings(log),
    attempts  <- Attempts(log),
    outcome   <- Outcomes(log),
    over      <- log.run.finished

\* Whatever crashes, wakes, cancellations, corrections and decisions do to its
\* log, a run keeps what Run promises (schedule.rs decide, replay.rs apply,
\* and the appends of exec.rs step in every order a death may cut them).
ImplementsRun == R!Spec
=============================================================================
