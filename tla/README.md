# Yunta, modelled in TLA+

Yunta runs declarative workflows of coding-agent sessions, commands and
human gates.  A run is an append-only event log; everything else is derived by
replaying it, and an engine process that dies is replaced by another that reads
the same log.  This directory models the parts this promise rests on, checks
them with TLC on small instances, and proves with TLAPS, for every instance, the
invariants of the event store, the lock file, the process registry, the checkout
pool, the task loop, the moved tree and the run engine, that the lock file
implements an abstract lock, and that the log of a run implements an abstract run.

    tlc -workers 2 -config Ship.cfg MCRunEngine     # one run
    tlapm TaskLoopProofs.tla                        # the proofs of one module

Paths below are relative to `src/crates/`.

## 1. The system

| Part | State | Operations | Modelled in |
|---|---|---|---|
| Event store (`storage`) | SQLite tables `events` and `run_heads`; a hash chain per run | append, purge, verify, read | `EventStore` |
| Lock files (`engine/src/lock.rs`) | one file holding its owner's pid and start time | acquire (refusing or waiting), steal, release, hand over | `Lock` (what it promises), `FileLock` (what it does) |
| Replay (`engine/src/replay*`, `core/src/events`) | node, gate and run ledgers folded from the log | apply one event, refuse one | `RunLog` |
| Scheduler (`engine/src/run/schedule*`) | none: a pure function | `decide` | `Schedule` |
| Engine (`engine/src/run`) | one process: the step under way, the nodes at work | wake, step, ask, publish, poll, run nodes, pause, close | `Run` (what a run promises), `RunEngine` (what its engine does) |
| Calls on a parked run | none of their own | `resolve_gate`, `answer_questions`, `close`, `cancel` | `RunEngine` (what they append), `ProcessRegistry` (whom they signal) |
| Process registry (`engine/src/process_registry*`, `cli/src/commands/{cancel,close}.rs`) | `engine.json`: the live engine and its process groups | create, register, remove, keep, clear; survey, signal, wait, escalate, settle | `ProcessRegistry` |
| Checkout pool (`engine/src/worktree`, `engine/src/gc`) | numbered checkouts with a record, a lock and a build each; the refs of what units committed | take, add, make room, give back, follow a build, reopen, retire, release, collect | `CheckoutPool` |
| Loop node and task cycle (`engine/src/run/loop_exec`, `engine/src/task_cycle`, `engine/src/scope_expansion.rs`) | the task ledger on the log, the run's tree; per invocation the batch, the walk, what is owed a person | select a batch, run members, integrate, ask, reopen, end | `TaskLoop` |
| Invariants over a moved tree (`engine/src/run/{schedule/reverify,shared_tree,node_start,node_close}.rs`) | the run's tree; the trees the log names | start, land, close, run again | `MovedTree` |
| Parallel and workflow nodes, baseline, promotion's successor, artifacts and findings, run tools, adapters, documents, command line | | | not modelled, see section 7 |

How they meet.  The engine appends every event through the store, each in a
transaction of its own, and reads the whole log back before every decision.
Another process (`yunta resolve-gate`, the MCP control plane, `yunta close`,
`yunta cancel`) reads the same log and appends to it; no lock spans its read and
its append.  A session or a command is a process group that the engine names in
its registry file, by which another process finds and kills it.  A run works in
a checkout of the pool, and each unit of a loop in another; a checkout is held
through a lock file, which a detached engine is handed by its launcher.  A loop
node runs its tasks in such units and lands their work, one at a time, on the
run's tree.

What is hard: each step of the engine is several appends, and the process may die
between any two; the decision that follows is taken from whatever the log then
says.  A person's decision can arrive at the terminal or, while the run is parked,
from another process, and must be acted on exactly once.  Corrections send a run
back, which makes finished work stale.  Wakes re-open approvals, waits end at an
instant, orphans may not be safe to restart.  Locks are stolen from the dead by
processes that race each other, and pids are reused.  The pool is surveyed once
and acted on later, by runs, units, probes and `gc`.  A caller signals by a file
it read a moment ago.  A batch's tasks ask for scope, depart from the plan, run
into limits and conflict with each other's landings while the engine can die at
any point of it.  An invariant judges a tree that other nodes, and a person, change
under it.  `PROJECT.json` lists these hazards, each at its line.

What makes each part correct:

- *Event store*: the seqs of a run are 1..n whatever appends at once; the head
  names the last row; every row chains to the one before; an intact verdict
  covers only rows the engine wrote.
- *Locks*: one holder; its file is never taken while it, or an agent it left
  working, is there; an acquire ends.
- *Replay, scheduler and engine*: the log never holds an event replay refuses; no
  session works before its inputs are finished; nothing is redone over a stale
  correction; no attempt is wasted; a person's decision is neither lost nor applied
  twice; a cap or an uncertain orphan needs a person; and a run that is woken
  whenever it parks closes.
- *Process registry*: what a run left running can be found by its file, but for
  what a failure made it miss; a stop spares what a live engine holds; a closed log
  stays closed (it does not: section 4); a signalled engine stops.
- *Checkout pool*: one user per checkout; none where a session may still write;
  no uncommitted work discarded; committed work the log speaks of reachable.
- *Loop*: a done task's work landed behind what it depends on; no task closes on
  a departure nobody answered; the engine's own grants stay within their cap; a
  decision acts once; every invocation ends, naming what it waits for.
- *Invariants*: a pass that lets anything start, or the run finish, was taken on
  exactly the changes the tree holds; invariants that rewrite the tree do not send
  each other round.

## 2. The modules

`EventStore` is one SQLite file seen by several connections.  `BeginImmediate`,
`InsertRow`, `Commit` and `Rollback` are the steps of `append_at`'s transaction,
`GenesisMissing` its refusal, `PurgeRun` is `purge_run`, `VerifyWalk` and
`VerifyHead` are the two statements of `verify_chain`.  SQLite is external: one
write lock, atomic commit, a snapshot per statement.  A SHA-256 is the record of
what was hashed, so hashes are injective.  `AlterRow`, `LoseRow` and `SwapRows`
damage a file from outside.  `recorded` and `damaged` are history variables.

`Lock` is what the callers of `lock.rs` rely on: ask, take when it is free and
nobody's agents work behind it, give up, pass on, drop.  It knows no file.

`FileLock` is one lock file and the host's processes, for the three kinds of lock
the program takes.  Each await of `acquire` is a step: `CreateRecord`
(`create_new`), `ReadHolder`, `FoundGone` or `FoundPresent` (the probe),
`RemoveStale`, `PollAgain`; so are `SpawnChild` and `HandOver`, and the read and
the removal of `release`.  A hand-over that fails (`HandOffFails`) ends the child
and then releases; with the peril "launcher" the child may outlive it.  The probe's answer is chosen from what the host may
say: a process table may be unreadable, and a reused pid may read as alive.
`ProcessGone` may leave agents, which `keep` asks about.  `L == INSTANCE Lock
WITH ...` maps it to `Lock`: the holder is the process that believes itself under
the lock, whatever the file says, and those asking are those inside `acquire`.

`ProcessRegistry` is one run's `engine.json`, its engine, the groups it spawns and
one command of another process.  `Spawn` and `Register` are two steps, as are all
of a command's: read the log, read the file, signal, poll, escalate, kill, record,
remove, and for `close` read and append.  The engine may hang or be killed anywhere,
between `RecordResume` and `clear` as between `run_finished` and `clear`.  What the
code only warns of is a choice of the step it belongs to, each kind allowed by
`Faults` and all bounded by `MaxFaults`: a `create` that fails leaves an engine that
works with no registry (`eng.writes`), a `commit` that fails leaves the file behind
the engine's state until the next one (`eng.behind`), a `kill` spares the groups that
refuse it and the caller goes on, `liveness` answers "unknown" of a process it cannot
look at, and `Damage` leaves a file that does not read.  `missed` is a history
variable: a group the file was made to miss by one of these.

`CheckoutPool` is the pool under runs, units, probes and `gc`.  A user's survey is
state of its own, acted on a step at a time and by then possibly stale.  A commit is the
set of works it contains, so that "is an ancestor of" is inclusion.  Holding a
checkout is one step, since `FileLock` is about the steps inside.  A take that
fails, or a wake git refuses, ends the process that runs or wakes the run
(`TakeFails`); a checkout `gc` keeps is in the name of a process that is gone when
its pass is.  Following a build is the holds with the detach (`FollowHolds`), the
switch (`FollowTakes`), the end (`FollowEnds`) or the undo (`FollowUndone`), any of
which may fail or be the last thing the engine does.  `gc` holds a checkout and looks
at it again (`GcHold`, `still_free`) in one step and empties or removes it in another
(`GcTidy`), since the two are commands of their own; nothing but a lease keeps an
agent in the tree from writing between them.

`TaskLoop` is a loop node's invocation over a plan of tasks: the reopenings a
decision or a reset causes, `select_batch`, the members at work with the scope
they are granted meanwhile, the walk that settles and integrates them in order,
and the questions of an idle round.  A task cycle is the outcome it hands back.
`loop` is the engine's memory, which a crash loses; the rest is on the log or in
the tree.

`MovedTree` is the run's tree under nodes that work at once: writers in the tree
itself, audited ones that land from a checkout of their own, invariants that judge
it and may rewrite it, corrections.  A tree is the changes each writer and the
person made to it and the invariant that formatted it last; a change is never taken
back, so one put back within an attempt, which leaves the tree as it was, is not
modelled.  `log` keeps what the ledger keeps of trees: the one a start was taken
from, the one a finish left, the newest that counts; a seq is kept as the one
comparison made with it.  A close reads the tree (`Captures`) and is recorded later
(`Closes`), and other nodes work in between.  `decide` is cut down to the questions
that meet a tree: orphans, failures, invariants to run again, what is ready.  A
failure's menu is its retry.  `read` and `rounds` are history variables.

`RunLog` is what a log means: a log is modelled by the state it folds to, and
`apply(L, e)` is that state after one more event.  Seqs are kept, since decisions
compare them.  An event `refuse` stops at sets `broken`, and nothing later is
read.  Of a failure only what its menu may offer is kept (`Causes`): `fixable`,
`reset` (ends at a known instant), `frozen` (reads the same every time), `stuck`.

`Run` is what a run promises whoever starts one: nodes that are idle, open, waiting,
done or failed, attempts counted one by one, what the last of them to end came to, and
how the run closed.  `Begin` needs a reason (its turn, a gate, an attempt cut off that may be
restarted, a failure to retry or one to correct), `End` an open attempt, `Settle` a
wait, `Close` the truth about every node.  It knows no log, no engine, no crash and
no other process.

`Schedule` is `decide(L)`: `gate_step`, `waiting_step`, `answered_step`,
`orphan_step`, `failure_step`, `ready_batch`, in the code's order; the first that
answers decides.  The workflow is given by constants: dependencies, kinds, the
target of a failure, where a gate sends back.

`RunEngine` composes the two with an engine process and callers.  `eng.script` is
what the current step has still to append; `EngineAppends` appends one event of
it, so a crash may fall between any two.  A batch's nodes start and end on their
own.  A call of another process is a read (`resolve_gate`, `answer_questions`,
`close_run`) that leaves its appends in `calls[c]` for later steps.  `crashed`
says that the registry names an engine that died.  Whatever the code does not
control is chosen freely: how a session ends, what a person answers, what a forge
says, who dies when.  `R == INSTANCE Run WITH ...` maps it to `Run` through the log
alone: a node stands as its ledger says (`Standings`), its outcome is that of its
newer terminal (`Outcomes`), and what a correction may run is its target and what
lies between the two (`Correction`).  A wake, a pause, a reroute, a decision, a reply
on the log and a crash are no step of `Run`.

The `MC*` modules give the constants their values.  `MCRunEngine` holds two
workflows:

- *ship*: 1 plans, the gate 2 approves or has 4 (reached only by a reroute) amend,
  3 implements and fails back to 1, so that the gate between must ask again.
- *fan*: 1 plans, 2 is published on a forge, changes requested go back to 1, 3
  implements; beside them 4 may close with questions; under `on_failure:
  continue` with two nodes at a time.

`EventStoreProofs`, `FileLockProofs`, `ProcessRegistryProofs`,
`CheckoutPoolProofs`, `TaskLoopProofs`, `MovedTreeProofs` and `RunEngineProofs` extend the module they are about;
`RunEngineStepProofs` extends `RunEngineProofs` with the theorems about a run's
steps.

Definitions named `..._twice`, `..._unasked`, `EngineSpared` and so on, marked
"Mutant", are faulty variants of the definition that follows them.  No
specification uses them; substituting one must break the property it is listed
with in `PROJECT.json`, which shows that the property can fail.

## 3. The runs

| Run | Configuration | Checks | Result |
|---|---|---|---|
| `event_store` | two runs (one begun before the chain existed), two writers, a verifier, 3 events a run, one damage | `TypeOK`, `LogIsWhole`, `ChainHolds`, `TxIsCurrent`, `IntactRowsWereRecorded` | hold |
| `locks` | the three kinds of lock, three pids, three starts, two exits, agents, hand-overs that may fail | `TypeOK`, `MutualExclusion`, `HolderKeepsFile`, `ImplementsLock` | hold |
| `lock_stealers` | a mutation lock, four starts, where an acquire may act on a record the file no longer holds | `MutualExclusion` | violated |
| `pool` | two runs, a unit of the first, two checkouts, a budget and a disk of one build, one fault | `TypeOK`, `OneUser`, `AgentsKeepCheckout` | hold |
| `pool_gc` | a run, its unit over two attempts, a probe, two checkouts, one fault, one pass of `gc` | `OneUser`, `WorkKept`, `DirtyKept` | hold |
| `cancel` | a session and a command, three wakes, two calls of `cancel` or `close`, one fault of any kind; fair | `TypeOK`, `Reachable`, `StoppedKillsStrays`, `CancelStops` | hold |
| `closed_reopened` | the same with one wake, one call and no fault | `FinishedIsImmutable` | violated |
| `loop` | three tasks, two at once, two iterations, one grant in the run, two faults of any kind; fair | `TypeOK`, `DoneHasLanded`, `OwedNeverDone`, `CapHolds`, `DecisionActsOnce`, `InvocationEnds` | hold |
| `loop_answers` | the same | `DepartureWasAsked` | violated |
| `tree` | a writer, an audited writer, an invariant beside them, one behind the first whose failure goes to a correction, three at a time, two setbacks, one park | `TypeOK`, `PassHolds`, `NeverSentRound` | hold |
| `ship` | ship, with crash, failure, abort, send-back, cancel, pause, absence, early wake; `cancel`, `close` and `resolve_gate` | `TypeOK`, `LogNeverBroken`, `WorkFollowsItsInputs`, `CorrectedBeforeAgain`, `DoneIsFresh`, `UncertainStaysPut`, `DecisionIsKept`, `CapNeedsAPerson` | hold |
| `fan` | fan, with every setback but a send-back and an abort; `answer_questions`; fair | `EffortIsOwed`, `ImplementsRun`, `Completes` | hold |

Deadlock is checked for the event store only.  The other systems stop: every lock
is released, every run closed, every bound spent.

### Bounds

- `event_store`: `MaxSeq` 3 lets a writer append behind another's row and behind a
  lost one.
- `locks`: three starts are three contenders, or a holder whose pid a later
  process has; two exits let a holder and its successor die, and a hand-over that
  fails counts as one.
- `pool`, `pool_gc`: two checkouts are a choice for every take and a place to
  follow a build to; a budget of one build makes a take empty the other.  Two
  attempts let a unit find what an earlier one left.  One fault is a crash with
  leases, a half-added checkout and sessions behind it, or a session that does
  not stop.
- `cancel`: three wakes are an engine that dies, one that wakes over its file, and
  one after a settlement; two calls meet what the first one left.  One fault is each
  way a write, a signal or a look can fail, at every place it can.
- `loop`: the third task depends on the first and might touch what the second
  touches, so a batch of two, a task that waits and a conflict of reach all occur.
  Two faults in any mix make a departure with a crash, two members at the grant
  cap, or a rejected landing with another node's.
- `tree`: three at once are two writers and an invariant between them, or two
  invariants and the writer they judge; one change each is enough to tell a tree
  that holds a writer's work from one that does not.  Two setbacks in any mix are a
  failure and its correction with a killed engine or an edit.
- `ship`, `fan`: `MaxSetbacks` bounds what takes a run no further, in
  any mix: four and two, enough for a failure, its correction, a second failure at
  the cap of one reroute, and a crash in any window of it.  `MaxWakes` bounds the
  invocations; in `fan`, which checks `Completes`, it is larger than any behaviour
  needs, so a run that did not close would be the engine's doing.  `MaxCalls` is
  two in `ship`: a decision, and its repetition after the next pause or a close.
  Four nodes are enough for a chain with one node between a correction and the
  failure it serves, and a node outside it.

### What the runs set aside

Some constants name what is set aside in a passing run because the property is
known to fail there; section 4 gives the trace.

- `FileLock`, `Perils = {}`: no acquire judges gone a record that the file no longer
  holds, or that another acquire is about to remove ("stale"), and no launcher dies
  between its child and the hand-over, or fails to end the child it could not name
  ("launcher").  A process may exit while another is inside `acquire`.
- `ProcessRegistry`, `Perils = {}`: no run wakes while a caller is at work on what
  it read ("meets").  That covers a wake under `close` between its read and its
  append, and one under `cancel` between its reads and its kills.
- `CheckoutPool`, `Perils = {}`: no run enters a checkout under a pass of `gc` ("gc"):
  none is born, wakes or follows a build between the pass's first look and its end.
  Units and probes take and give back under it, and runs at work go on.
- `MovedTree`, `Perils = {}`: no writer beside an invariant is cut off ("cut"), no
  record that names an older tree comes after one that names a newer ("late"), and
  nobody edits the tree while no failure waits ("unseen").
- `RunEngine`, `Overlap = FALSE`: a call on a parked run does not overlap a wake.

### Fairness

`FairSpec` of `RunEngine` assumes that an engine that is up goes on (its loop is a
plain `async` loop; a person at its terminal answers in the end), that a call under
way finishes, and that a run that is down and open is woken again.  The last is the
environment's part: someone, or a scheduled job, runs `yunta resume`.  Nothing is
assumed of crashes, cancellations or new calls, and their number is bounded.
`TaskLoop`'s is on the steps of an invocation: every session has its timeout, and
a person who is not there is an answer too.  `ProcessRegistry`'s is on the caller
alone, which polls on a timer; its engine may hang for ever.  In `FileLock` it is
on the steps of an acquire: a running process goes on and the patience of a
waiting one runs out.

### Refinement

`ImplementsLock` is `L!Spec`: every step of `FileLock` takes, passes on, drops or
gives up the lock of `Lock`, or moves nothing, and whoever asks is answered.  It
says more than `MutualExclusion`: that the lock moves from holder to holder only
through being free or being passed on, and that it is not taken while a gone
holder's agents work behind it.

`ImplementsRun` is `R!Spec`: whatever one event on the log, of the engine or of a
caller, does to the nodes is one step that `Run` allows, or none.  It says of a
whole run what the other properties say of its parts: an attempt begins in its turn
or for a failure it retries or corrects, never over one whose effects are uncertain;
none is skipped or counted twice; a wait gives back what it interrupted and never an
outcome no attempt had; a run closes as done when every node is, as failed or
promoted over a failure, at rest, and under `on_failure: continue` with nothing left
that could run.  `Run` states no fairness: that a run closes is `Completes`.  What
`Run` does not see is checked beside it: a correction is not told from what it makes
stale (`CorrectedBeforeAgain`, `DoneIsFresh`), a restart is not told from one that a
later correction made pointless (`WorkFollowsItsInputs`), and a person's decision is
not a step (`DecisionIsKept`, `CapNeedsAPerson`).

## 4. What does not hold

### The violated runs

- `lock_stealers`: two acquires read the same dead holder; the faster one removes
  it and creates its record, the slower one then removes *that* and creates its
  own.  Both hold the lock.  `create_new` decides between creators, but the
  removal is not tied to the record that was judged.
- `loop_answers`: departures of a batch are asked about on the gate of the whole
  loop, and `decided` takes any answer on that gate nothing consumed.  The answer
  to one task's departure is consumed by nothing, so it settles the next
  departure of the attempt without a question.

### What other configurations of the same models show

Each of these is one change of the constants, or of the property named, of a run
above; three rewriting invariants take a workflow of their own.

- *Event store*, `BrokenOnlyIfDamaged`: `verify_chain` reads rows and head in two
  statements, and an append between them makes an undamaged, live run read as
  broken (`storage/src/store/chain.rs:67`).  And once one event is appended after
  a lost tail, the head no longer shows the loss: an intact verdict says that every
  row is as it was written, not that every row is there.
- *Locks*, `Perils = {"stale"}`, `Kinds = {"none"}`: the same race through
  `hand_over`.  The launcher exits right after it, and an acquire that had read
  the launcher's record removes the child's.  `Perils = {"launcher"}`: a launcher
  that dies between spawning its child and naming it leaves a lock that reads as
  a dead process's while the child works; `MutualExclusion` fails.
- *Registry*, `Perils = {"meets"}`: a run that wakes between a caller's read and its
  signals has its new groups killed, its file removed, or is never signalled
  (`StoppedKillsStrays`, `Reachable`, `CancelStops`).  `Perils = {"late"}`: an
  engine dies between `run_finished` and the removal of its registry; `close` or
  `cancel` then records a pause on the closed log (`ClosedStaysClosed`), although
  "a genuinely finished run is immutable" (`exec.rs`, start).
- *Registry*, what the file misses in any configuration: a group just spawned by
  an engine that is killed before it registers it, and a governed command whose
  kill failed, since `spawn_governed` drops the registration all the same.
  `Reachable` excepts the two by name.
- *Pool*, `GcMeetsRuns = TRUE`, `RunKeepsTree`: `gc` gives back, empties or removes
  a checkout it surveyed before the run woke in it: `gc/mod.rs` looks at the run
  before the pass and not again.  `pool/runs.rs:1-3` has a run's branch keep its
  checkout the run's.
- *Pool*, `GoneHolderTakenOver`: a holder that is gone and left no agents still
  refuses its own run's next engine, because `agents_still_work` takes the
  run's new engine for what keeps it; `pool/slot.rs:4-7` says that such a lock is
  taken over.
- *Pool*, `AgentsAlone`: a session left in the run's own tree, which no lease
  covers, works beside the run's next engine or another's take;
  `pool/release.rs:43-46` keeps such a checkout only in the name of its record.
- *Engine*, `StepFitsItsNode` in `ship`: the pair that records a decision about a
  failed node is two appends.  A crash between them leaves the node waiting;
  `waiting_step` sends it to the internal gate's flow, which refuses a node that is
  no gate.  Every later wake ends on that error (`run/schedule.rs:305`).
- *Engine*, `FailedGateIsAskedAgain` in `ship`: a gate's send-back is
  `node_failed`, then `node_rerouted`.  After a crash between them the gate is
  failed and not rerouted, and the plain pause a failed gate gets repeats at every
  wake (`run/internal_gate.rs:413`).
- *Engine*, `Overlap = TRUE`: `resolve_gate` reads that the run is parked; the
  engine wakes, asks the same question and acts on the answer; the pair lands in
  the middle of that, and the terminal the engine then appends closes a node that
  is not running, which replay refuses (`LogNeverBroken`).  A reply of
  `answer_questions` that overlaps the engine's own question is a second reply,
  refused too.  A `close` that read a parked run while an engine wakes has the
  engine write after `run_finished` (`ClosedIsFinal`).
- *Engine*, `WorkFollowsItsInputs` where an approved head drifts (in `fan`): the
  wake re-opens the gate, the new review requests changes, and an orphan behind the
  gate restarts before the failure is handled, because `orphan_step` comes first.
  Nothing in the repository promises otherwise.
- *Engine*, `Calls = {"answer", "close"}` in `fan`, `ClosedIsFinal`:
  `answer_questions` asks whether the questions still wait, and not whether the run
  is closed.  A run closed while its questions wait takes a reply after
  `run_finished` (`answers.rs:202`).
- *Tree*, `Perils = {"cut"}`, `PassHolds`: a writer changes the tree, an invariant
  beside it passes, and the writer's attempt ends naming no tree: the engine dies,
  or its session could not be stopped.  The attempt that takes its place starts from
  what it left and changes nothing more, so no close leaves another tree than its
  start was taken from, and the pass counts.  `reverify.rs:24-26` has such a pass
  run again.
- *Tree*, `Perils = {"late"}`: a close reads the tree outside the lock under which
  its event would be ordered.  Recorded after a start or a close that saw more, it
  makes an older tree the newest, and a pass on that older one counts.
- *Tree*, `Perils = {"unseen"}`: a wake records the tree it finds only where a
  failure waits, so what a person edits while the run waits for anything else is
  unknown until a node starts; if nothing is left to start, the run finishes on a
  pass that never saw it.
- *Tree*, `NeverSentRound` with `Judges = {1, 2, 3, 4}` and `Rewriters = {1, 2}`:
  `reverify.rs:20-22` leaves an invariant's own close out of what makes a pass stale,
  so that "one that rewrites files never makes another stale and two never send each
  other round".  Its *start* counts (`newest_tree`), and names what the one before it
  rewrote.  With two that rewrite, each its own way, and two behind them that only
  judge, each that runs again makes another's pass stale and the run goes round
  without end; three that rewrite do so alone.  Section 5 says when it is true.
- *Loop*, `LandsWhereJudged` in `loop`: `integrate_task` replays a task's work on
  the run's tree, judges it and lands it without the landing lock that other nodes
  take.  A node beside the loop lands in between, the fast-forward is refused, and
  the engine ends, although `integrate.rs:195-198` has this engine as "the only
  writer of the run's tree between the replay above and here".
- *Loop*, `OwedIsPut`: the scope requests nobody answered in a round are owed in
  memory only.  An ending before the loop's last round (its cap, a stop) fails the
  node with the list of stopped tasks and the question is not put.
- *Loop*, crashes: one part way through reopening after a decision leaves the rest
  blocked, since the restarted attempt reads the decision as acted upon; a task
  whose work was to be continued loses it when the engine dies after `running`;
  and work that landed without its `done` is met by the pre-check, which blocks
  the task.  A decision that cites no task because none was blocked reopens none.
- *Loop*, the cap: two loops at work at once each seed a window of their own from
  the log and can pass `max_per_run` together.  One loop is modelled.

## 5. What is proved

Every theorem is about `Spec`, for any values of the constants that satisfy the
module's assumption, except where a `Perils` is named: there it assumes what
section 3 sets aside.

**`EventStoreProofs`**: `StoreTypeOK`, `StoreTxIsCurrent` (a transaction's seq, row
and hash are still what the log implies when it commits), `StoreLogIsWhole`,
`StoreChainHolds`.  `LogIsWhole` is not inductive alone: a commit writes the row
its transaction computed earlier, so it needs `TxIsCurrent` (nobody else moved the
log since), which in turn needs that an open transaction holds the lock.
`ChainHolds` needs both, because a new row's link is right only if the row before
it is the last.

`StoreIntactRowsWereRecorded` says what `intact` is worth in a log that *was*
damaged: each row below the verdict is one that an append recorded, in its place.
A hash chains every row below it, which suggests an induction along the chain; none
is needed.  The invariant (`VInv`) says of each hash in the tables that whatever rows
verify up to it were all recorded (`Vouched`), whether or not they are there.  An
append vouches for its row's hash by the one it chains onto, and damage moves hashes
and drops them but makes none.  A walk that held keeps what it verified (`WalkHeld`),
and the head it then reads vouches for it.  `NullIsNothing` is assumed: the absent
value is no head and no hash.

**`FileLockProofs`**, for `Perils = {}`: `LockTypeOK`, `LockMutualExclusion`,
`LockAgentsKeepTheLock`, `LockHolderKeepsFile`, and `FileImplementsLock`, the
safety half of `ImplementsLock`.  The invariant adds to the type that times on
record have passed (`Timed`), that the file names whoever has the lock or the
launcher about to name it (`Named`), that what a contender saw is in the file
still or names a process that runs, so that it will not be judged gone
(`Judged`), and that a gone holder's record stays while its agents work
(`Guarded`).  Mutual exclusion follows from `Named` alone: two holders would be
named by one record.  Each step then maps to a step of `Lock` or a stutter under
the mapping.

**`ProcessRegistryProofs`**, for `Perils = {}`: `RegistryTypeOK`,
`RegistryReachable`, `RegistryKillsStrays`, `RegistryClosedStaysClosed`.  The
invariant adds that the file of an engine that is up is its state written out
(`FileIsState`), that a caller who settles read the file as it is, of an engine
that is down, and has killed what it names before it removes it
(`SettlesTheFile`), and where engine and caller may stand at once
(`EngineApart`).  Without the second, the removal could lose a group.

**`CheckoutPoolProofs`**: `PoolTypeOK`, `PoolWorkKept` and `PoolDirtyKept`, for any
constants, and for `GcMeetsRuns = FALSE` `PoolOneUser` and
`PoolAgentsKeepCheckout`, any number of runs, units, probes, checkouts, attempts
and crashes.  No single file says whose a checkout is: its lock, its record, its
branch and the registry of the run behind it do together, and takers read them
one after another.  The invariant says of every holder that the lock lives in its
run's name and the record and kept unit agree (`Leases`), and that no two hold one
checkout (`Apart`).  `Tidy` says what the reads of `CanHold` then rest on: a living
lock is that of an engine at a step that may hold this checkout, and sessions left
behind keep the record, the lock and the registry of their run.  So a lock
that is gone with nobody left at work belongs to no holder, and what is taken is
nobody's, however stale the look.  `Standing` ties users to their engine and names;
`Efforts` follows a unit's commits from its checkout to its ref to its run's branch,
which is `WorkKept` once their log says so.  A run's own tree is held by its
branch and no lock: `Trees`, that it stays on that branch, is the part that needs
`GcMeetsRuns = FALSE`, as a pass of `gc` otherwise gives back the tree of a run
that wakes (section 4: *Pool*).  `WorkKept` and `DirtyKept` do without it: `gc` hands
over only what is clean and committed.

**`TaskLoopProofs`**: `BatchIsReady` (what `select_batch` hands out is ready, and
no two of it might touch one file), `LoopTypeOK`, `LoopDoneHasLanded`,
`LoopOwedNeverDone`, `LoopDecisionActsOnce`, `LoopCapHolds`, for any plan,
concurrency, caps and faults.  The invariant is `Typed`, `Shaped` (what stands with what in the
ledger), `InOrder` (whatever landed has what it depends on behind it, what is done
landed and owes nothing, and what runs has its dependencies done) and `InHand`
(none of what the invocation holds is done, its members have their dependencies
done, and the one about to be recorded landed and owes nothing).
`DoneHasLanded` alone says nothing of a task between its landing and its `done`,
which is where an engine dies or another node lands; `InHand` carries it over
those steps.  `BatchIsReady` rests on `Least`, that a
nonempty set of tasks has a least member.  `CapHolds` needs a count: the grants on
the log and those of the members not yet recorded fit the batch's window
(`Counted`).  The count is carried as a function of partial sums in the order of
declaration, so that no induction over the members is needed: a grant raises the
sums from its member on, and recording a member lowers them.

**`MovedTreeProofs`**: `TreeTypeOK`, for any perils, and `TreePassHolds`, for
`Perils = {}`.  `PassHolds` speaks of the moment a pass counts; the invariant
accounts for every change the pass did not see.  `Standing` says what those at work
in the tree have seen of it.  `Telling` says that all records of one tree agree, and
that a tree the log does not know of is owed by somebody at work who will record
it.  `Blaming` says that a change made since the start of a pass is the doing of a
writer whose close, still to come, leaves another tree than its start and so marks
the pass.  The three perils are the three ways to lose that writer: it is cut off,
its record comes late, or it is a person who records nothing.

`TreeNeverSentRound` needs none of that and holds for any `Perils`, where one
invariant alone rewrites, among any number, or there are two in all; two that rewrite
among four are too many (section 4).  While the engine decides nothing else, its
invariant (`RoundInv`) names the invariant node that ran last and a set `D` of those
that ran again and need not once more: what they passed on is the newest tree the log
names, and nobody runs beside them to mark them.  Whoever is next is not in `D` and
joins it, so the round ends with `D`; the one that rewrites may empty `D`, but only
once, since it leaves the tree as it wants it.  Between two, `D` never has more than
the one before.

**`RunEngineProofs`** and **`RunEngineStepProofs`**: `RunTypeOK`, for any constants
and workflow, and for `Overlap = FALSE` `RunLogNeverBroken`,
`RunUncertainStaysPut`, `RunCapNeedsAPerson` and `RunContinueRunsTheRest` (a run that
continues and closes as failed has finished every node behind no failure).  That a log
is never broken is a fact about what is still to be appended, so the invariant
(`Order`) says of the script of the step under way, and of what a call has left,
that each event of it is one replay takes after those before it, for every place a
crash may cut it (`Scripted`, with `Ledger` and `AtWork` for what the log and the
nodes at work then say).  It needs that a caller at work and an engine that is up
exclude each other (`Apart`, `Quiet`), which is what `Overlap = FALSE` gives; with
the overlap the theorem is false (section 4).  `Capping` adds what a script at a
cap was asked first.  `RunClosedIsFinal` takes the invariant `Sealed`: once the log
is closed no script and no call holds an event.  It assumes that a `close` meets
neither an engine that may die over its registry nor an `answer_questions`; with
either it is false (section 4: *Registry*, late; *Engine*, answer and close).  `Schedule`'s
`AcyclicAssumption`, that any nodes have one among them that waits for none of
them, is what document validation establishes by refusing cycles.

`RunImplementsRun` is the refinement, for any workflow, policy and bounds, where no
call overlaps a wake and `close` meets neither a crash nor an `answer_questions`
(`Alone`).  `Order` says that what is still to be appended will not be refused;
the refinement needs that it is also promised, which is the invariant `Due`.
`Earned` is about the log: a node that is finished, failed or running, or waits and
will be that again, came to it by attempts of its own; without it an answer could
settle a wait as an outcome no attempt had.  `InTurn` is about a batch the engine
has taken and not yet started: each member still has its turn, or serves a failure
that is still there, since nobody at work beside it can finish, fail or reroute what
it stands on.  `Meant` is about scripts and calls, event by event: the one start in a
script counts the next attempt, a close as done or failed comes first and over
nodes at rest, a promotion stands behind the failure it answers, wherever its
pair is cut.  `Due` is inductive beside `Order` and `Sealing`, and an event it
allows (`Lawful`) is a step of `Run` by its kind: `StartMaps`, `EndMaps`, `WaitMaps`,
`SettleMaps`, `CloseMaps`, and `StutterMaps` for the rest.

Only model-checked, and why:

- all liveness, that of `ImplementsLock` included: TLAPS here has no ENABLED and no
  fairness reasoning;
- `WorkFollowsItsInputs`, `CorrectedBeforeAgain`, `DoneIsFresh`, `DecisionIsKept`:
  true of the workflow and the setbacks of their runs, and false of others (a head
  that drifts, a cancellation between a decision and its effect), so there is no
  theorem for all constants;
- `EffortIsOwed`, which counts over a whole history: a correction makes the same node
  stale for several failures at once, and one setback of them would have to be found
  to pay for each attempt.

## 6. Plan

1. Parallel groups with `join: any` and the losers they interrupt; child runs.
2. The questions `decide` still lacks: scope grants and the baseline.

## 7. What is not modelled

- *Data*: payloads, prompts, artifacts, findings, tokens and timestamps other than
  before or after a reset.  A gate's option withheld because of findings is not
  modelled: menus are a function of the node and the failure.
- *Two engines on one run*: the lease that keeps them apart is assumed.
- *Wake's verification* of artifacts and worktree, which can refuse a wake and
  appends nothing.
- *Of the loop*: tests written again after a departure, a criterion no task can
  pass, the contents of what a person grants, and the difference between resuming
  a session and carrying its work into a fresh one.  A scope request comes only
  from a task that blocks on it; whether two tasks may meet is fixed.
- *Of the tree*: a session continued in the checkout it saw, whose start names the
  tree of an earlier opening; commits, which hold what the tree holds; a run in a
  person's own checkout.
- *Of the pool*: what git writes on disk, layouts of older versions, integrity
  checks.  *Of the registry*: pgids given to a later group, and the credentials
  the file names.
- *Components* listed as `not_modelled` in `PROJECT.json`: I/O (adapters,
  subprocesses, git), pure text (documents, rendering), and the planned ones above.
