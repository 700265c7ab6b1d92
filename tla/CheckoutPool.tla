---------------------------- MODULE CheckoutPool ----------------------------
(***************************************************************************)
(* A project's pool of checkouts (crates/engine/src/worktree/pool.rs and   *)
(* pool/): several runs, their units and probes take checkouts, work in    *)
(* them and give them back, while `gc` gives back, empties and removes     *)
(* what it takes for unused.                                               *)
(*                                                                         *)
(* A user ranks the checkouts from ONE look at the pool and acts on it     *)
(* later, so the look is state of its user and may be stale.  What keeps a *)
(* checkout its user's differs: a unit or a probe holds the checkout's     *)
(* lock for as long as it works; a run holds nothing once it has its       *)
(* checkout, and is known by the branch the checkout is on.                *)
(*                                                                         *)
(* Holding a checkout is one step here: the steps of `acquire` are those   *)
(* of FileLock.  A commit is the set of the works it contains, so that     *)
(* "is an ancestor of" is inclusion; a replay makes a work a new one.      *)
(***************************************************************************)
EXTENDS Integers, FiniteSets, FiniteSetsExt

CONSTANTS
    Runs, Units, Probes,  \* who takes checkouts
    RunOf,                \* the run of each unit and probe
    NULL,                 \* nobody, nowhere, nothing
    Budget,               \* how many builds the pool may keep
    Disk,                 \* how many builds the disk has room for
    Perils,               \* what the instance admits: "gc", a run that enters a
                          \* checkout (born, woken, following a build) in a pass of gc
    MaxSlots,             \* bound: the checkouts of the pool
    MaxAttempts,          \* bound: the attempts of a unit
    MaxFaults,            \* bound: engines killed, sessions that do not stop
    MaxPasses             \* bound: the passes of gc

ASSUME PoolAssumption ==
    /\ RunOf \in [Units \cup Probes -> Runs]
    /\ Runs \cap Units = {} /\ Runs \cap Probes = {} /\ Units \cap Probes = {}
    /\ NULL \notin Runs \cup Units \cup Probes \cup Nat
    /\ NULL \notin [by : Runs, lives : BOOLEAN] \cup (Units \X Nat)
    /\ {Budget, Disk, MaxSlots, MaxAttempts, MaxFaults, MaxPasses} \subseteq Nat
    /\ Perils \subseteq {"gc"}

VARIABLES
    slot,    \* slot[n]: checkout n, its record and its build
    lock,    \* lock[n]: the run whose engine wrote the lock file, and whether it lives
    agents,  \* agents[n]: whose session works in n with no engine over it
    run,     \* run[r]: how far the run's life is, its branch's tip, its checkout
    task,    \* task[u]: what the log says of the unit
    refs,    \* the refs that keep what the units committed
    act,     \* act[x]: the step user x is at, and what its look showed it
    gc,      \* the pass of gc under way
    faults, passes

vars == <<slot, lock, agents, run, task, refs, act, gc, faults, passes>>

Slots == 1..MaxSlots
Users == Runs \cup Units \cup Probes
Run(x) == IF x \in Runs THEN x ELSE RunOf[x]

\* A work is a run's own commit, or what an attempt of a unit committed.
Works == Runs \cup [unit : Units, attempt : 1..MaxAttempts, replayed : BOOLEAN]
Base == {}

NoSlot == [at |-> "none", head |-> Base, branch |-> NULL, dirty |-> NULL,
           by |-> NULL, unit |-> NULL, built |-> FALSE]
Idle == [pc |-> "idle", at |-> NULL, base |-> Base, todo |-> [n \in Slots |-> "none"],
         listed |-> {}, emptiable |-> {}, over |-> 0]

Listed == {n \in Slots : slot[n].at = "listed"}
Head(n) == IF slot[n].branch # NULL THEN run[slot[n].branch].tip ELSE slot[n].head
Clean(n) == slot[n].dirty = NULL
Builds == {n \in Listed : slot[n].built}

\* The process groups registered by r still run: no engine is over them.
groups_at_work(r) == \E n \in Slots : agents[n] # NULL /\ Run(agents[n]) = r

\* Mutant: the agents of a gone engine are not asked about.
agents_forgotten(n) == slot[n].by # NULL /\ run[slot[n].by].registry = "alive"

\* agents_still_work: what keeps a gone holder's lock.  The registry asked is
\* that of the run the checkout's record names.
agents_still_work(n) ==
    /\ slot[n].by # NULL
    /\ \/ run[slot[n].by].registry = "alive"
       \/ run[slot[n].by].registry = "dead" /\ groups_at_work(slot[n].by)

Gone(n) == lock[n] # NULL /\ ~lock[n].lives

\* hold with Contention::Refuse: a free lock, or that of a gone holder; the
\* checkout gc holds is known by its pass.
CanHold(n) ==
    /\ gc.at # n
    /\ lock[n] = NULL \/ (Gone(n) /\ ~agents_still_work(n))

-----------------------------------------------------------------------------
(* Whose a checkout is, for its next user: fit.rs *)

claim(x, n) ==
    IF slot[n].branch # NULL
    THEN IF slot[n].branch = x THEN "own" ELSE "none"
    ELSE IF slot[n].unit = NULL THEN "free"
    ELSE IF slot[n].unit[1] = x THEN "own" ELSE "landed"

\* Where a user starts from: a unit from its run's tree, a run that wakes from
\* its branch, a run that is born and a probe from the commit of the project.
Target(x) ==
    IF x \in Units THEN run[RunOf[x]].tip
    ELSE IF x \in Runs THEN run[x].tip ELSE Base

\* The look taken under the hold.
still_fits(x, n) ==
    /\ slot[n].at = "listed"
    /\ Clean(n)
    /\ \/ claim(x, n) \in {"own", "free"}
       \/ claim(x, n) = "landed" /\ Head(n) \subseteq Target(x)

\* emptiable: a build in a checkout on no branch and kept for no unit.
Emptiable == {n \in Builds : slot[n].branch = NULL /\ slot[n].unit = NULL}

-----------------------------------------------------------------------------
(* take and add *)

\* The survey, the ranking, and what keep_within has to empty: the builds over
\* the budget, or in the way of one more build when the best holds none.
SurveyPool(x) ==
    /\ act[x].pc = "taking"
    /\ LET claims == [n \in Slots |-> IF n \in Listed THEN claim(x, n) ELSE "none"]
           best == {n \in Listed : claims[n] =
                       IF \E m \in Listed : claims[m] = "own" THEN "own"
                       ELSE IF \E m \in Listed : claims[m] = "free" THEN "free"
                       ELSE "landed"}
           held == Cardinality(Builds)
       IN  \E spare \in IF best = {} THEN {NULL} ELSE best :
              LET need == IF spare # NULL /\ slot[spare].built THEN 0 ELSE 1
                  over == Max({0, held - Budget, held + need - Disk})
              IN  act' = [act EXCEPT ![x] =
                    [@ EXCEPT !.pc = "surveyed", !.todo = claims,
                              !.listed = Listed, !.over = over,
                              !.emptiable = IF over = 0 THEN {} ELSE Emptiable \ {spare}]]
    /\ UNCHANGED <<slot, lock, agents, run, task, refs, gc, faults, passes>>

\* empty: one build of the look, held for the moment and not looked at again.
MakeRoom(x, n) ==
    /\ act[x].pc = "surveyed" /\ act[x].over > 0
    /\ n \in act[x].emptiable
    /\ IF CanHold(n)
       THEN /\ slot' = [slot EXCEPT ![n].built = FALSE]
            /\ lock' = [lock EXCEPT ![n] = NULL]
            /\ act' = [act EXCEPT ![x].over = @ - 1, ![x].emptiable =
                          IF act[x].over = 1 THEN {} ELSE @ \ {n}]
       ELSE /\ act' = [act EXCEPT ![x].emptiable = @ \ {n}]
            /\ UNCHANGED <<slot, lock>>
    /\ UNCHANGED <<agents, run, task, refs, gc, faults, passes>>

\* A take that fails ends the process that was to run or wake a run.
TakeFails(x) ==
    /\ act' = [act EXCEPT ![x] = Idle]
    /\ run' = IF x \in Runs THEN [run EXCEPT ![x].engine = FALSE] ELSE run

\* NoRoom: nothing more to empty and the disk still short.
NoRoom(x) ==
    /\ act[x].pc = "surveyed" /\ act[x].over > 0 /\ act[x].emptiable = {}
    /\ Cardinality(Builds) >= Disk
    /\ TakeFails(x)
    /\ UNCHANGED <<slot, lock, agents, task, refs, gc, faults, passes>>

Roomy(x) ==
    /\ act[x].pc = "surveyed"
    /\ act[x].over = 0 \/ (act[x].emptiable = {} /\ Cardinality(Builds) < Disk)

\* The order of the candidates: the user's own, the free ones, and those kept
\* for a unit whose work may have landed.
Better(c) == CASE c = "own" -> {} [] c = "free" -> {"own"}
               [] OTHER -> {"own", "free"}

\* One candidate: held, looked at again, and handed out kept for nobody; or
\* let go.  A hold is recorded whether its checkout fits or not.  Of one that
\* went since the survey git cannot answer, which fails the take.
TryTake(x, n) ==
    /\ Roomy(x)
    /\ act[x].todo[n] # "none"
    /\ \A m \in Slots : act[x].todo[m] \notin Better(act[x].todo[n])
    /\ IF CanHold(n) /\ still_fits(x, n)
       THEN /\ slot' = [slot EXCEPT ![n].by = Run(x), ![n].unit = NULL]
            /\ lock' = [lock EXCEPT ![n] = [by |-> Run(x), lives |-> TRUE]]
            /\ act' = [act EXCEPT ![x] = [Idle EXCEPT !.pc = "fitting", !.at = n]]
            /\ UNCHANGED run
       ELSE /\ IF CanHold(n) /\ slot[n].at # "listed"
               THEN TakeFails(x)
               ELSE act' = [act EXCEPT ![x].todo[n] = "none"] /\ UNCHANGED run
            /\ IF CanHold(n)
               THEN /\ slot' = [slot EXCEPT ![n].by = Run(x)]
                    /\ lock' = [lock EXCEPT ![n] = NULL]
               ELSE UNCHANGED <<slot, lock>>
    /\ UNCHANGED <<agents, task, refs, gc, faults, passes>>

\* add: the lowest number the survey did not list and nobody holds.  One that
\* was added since is let go; what a crash left half added is cleared.
AddHold(x, n) ==
    /\ Roomy(x)
    /\ \A m \in Slots : act[x].todo[m] = "none"
    /\ n \notin act[x].listed
    /\ \A m \in Slots \ act[x].listed : n <= m
    /\ IF CanHold(n) /\ slot[n].at # "listed"
       THEN /\ slot' = [slot EXCEPT ![n] = [NoSlot EXCEPT !.by = Run(x)]]
            /\ lock' = [lock EXCEPT ![n] = [by |-> Run(x), lives |-> TRUE]]
            /\ act' = [act EXCEPT ![x] = [Idle EXCEPT !.pc = "making", !.at = n]]
       ELSE /\ act' = [act EXCEPT ![x].listed = @ \cup {n}]
            /\ IF CanHold(n)
               THEN /\ slot' = [slot EXCEPT ![n].by = Run(x)]
                    /\ lock' = [lock EXCEPT ![n] = NULL]
               ELSE UNCHANGED <<slot, lock>>
    /\ UNCHANGED <<agents, run, task, refs, gc, faults, passes>>

\* What a take leaves: the run on its branch with the lease dropped, the unit
\* on its run's tip with its record and its ref, the probe on the base.
Settle(x, n, fresh) ==
    /\ act[x].at = n
    /\ act[x].pc = IF fresh THEN "making" ELSE "fitting"
    /\ LET was == IF fresh THEN [NoSlot EXCEPT !.by = Run(x)] ELSE slot[n]
           now == [was EXCEPT !.at = "listed", !.dirty = NULL,
                              !.head = IF x \in Runs THEN Base ELSE Target(x),
                              !.branch = IF x \in Runs THEN x ELSE NULL]
       IN  \/ /\ x \in Runs
              /\ \A m \in Listed \ {n} : slot[m].branch # x
              /\ slot' = [slot EXCEPT ![n] = now]
              /\ lock' = [lock EXCEPT ![n] = NULL]
              /\ run' = [run EXCEPT ![x].tree = n]
              /\ act' = [act EXCEPT ![x] = [Idle EXCEPT !.pc = "launching"]]
           \/ /\ x \in Units
              /\ slot' = [slot EXCEPT ![n] = [now EXCEPT !.unit = <<x, task[x].attempt>>]]
              /\ act' = [act EXCEPT ![x] = [Idle EXCEPT !.pc = "opened", !.at = n,
                                                        !.base = Target(x)]]
              /\ UNCHANGED <<lock, run>>
           \/ /\ x \in Probes
              /\ slot' = [slot EXCEPT ![n] = now]
              /\ act' = [act EXCEPT ![x] = [Idle EXCEPT !.pc = "working", !.at = n]]
              /\ UNCHANGED <<lock, run>>
    /\ UNCHANGED <<agents, task, refs, gc, faults, passes>>

\* git refuses a branch that is checked out elsewhere: the wake fails, and the
\* lease is dropped.
SettleRefused(r, n) ==
    /\ act[r].pc \in {"making", "fitting"} /\ act[r].at = n
    /\ \E m \in Listed \ {n} : slot[m].branch = r
    /\ lock' = [lock EXCEPT ![n] = NULL]
    /\ TakeFails(r)
    /\ UNCHANGED <<slot, agents, task, refs, gc, faults, passes>>

\* The checkouts users work in: a unit's and a probe's while it holds it, a
\* run's from the moment it has its branch there until it lets it go.
In(x) ==
    IF x \in Runs
    THEN IF act[x].pc \in {"launching", "working"} THEN {run[x].tree}
         ELSE IF act[x].pc = "following" THEN {run[x].tree, act[x].at} ELSE {}
    ELSE IF act[x].pc \in {"idle", "taking", "surveyed"} THEN {} ELSE {act[x].at}

-----------------------------------------------------------------------------
(* A run: born, woken, at work in its checkout, parked, ended *)

Mine(r) == {x \in Units \cup Probes : RunOf[x] = r}
Up(r) == run[r].engine /\ run[r].registry = "alive"
AtWork(r) == Up(r) /\ act[r].pc = "working"

\* The steps at which a run takes a checkout or moves to one, which an
\* instance without "gc" keeps out of gc's pass.
Entering == {"taking", "surveyed", "making", "fitting", "following"}
MayEnter == gc.phase = "idle" \/ "gc" \in Perils

\* `yunta run`: the checkout is taken before the run's directory exists.
Launch(r) ==
    /\ run[r].life = "unborn" /\ ~run[r].engine /\ MayEnter
    /\ run' = [run EXCEPT ![r].engine = TRUE]
    /\ act' = [act EXCEPT ![r] = [Idle EXCEPT !.pc = "taking"]]
    /\ UNCHANGED <<slot, lock, agents, task, refs, gc, faults, passes>>

\* The run's files and its first events, the registry, and the engine.
Open(r) ==
    /\ act[r].pc = "launching"
    /\ run' = [run EXCEPT ![r].life = "open", ![r].named = run[r].tree,
                          ![r].registry = "alive"]
    /\ act' = [act EXCEPT ![r] = [Idle EXCEPT !.pc = "working"]]
    /\ UNCHANGED <<slot, lock, agents, task, refs, gc, faults, passes>>

\* Mutant: a wake works where the log says without asking git.
WakeUnasked(r) ==
    /\ run[r].life = "open" /\ ~run[r].engine /\ MayEnter
    /\ run' = [run EXCEPT ![r].engine = TRUE, ![r].tree = run[r].named]
    /\ act' = [act EXCEPT ![r] = [Idle EXCEPT !.pc = "launching"]]
    /\ UNCHANGED <<slot, lock, agents, task, refs, gc, faults, passes>>

\* `yunta resume`: the checkout the log names while it is still the run's
\* (still_the_runs), or the one the pool finds for the branch.
Wake(r) ==
    /\ run[r].life = "open" /\ ~run[r].engine /\ MayEnter
    /\ LET n == run[r].named
           still == slot[n].at = "listed" /\ slot[n].branch = r
       IN  /\ run' = [run EXCEPT ![r].engine = TRUE,
                                 ![r].tree = IF still THEN n ELSE NULL]
           /\ act' = [act EXCEPT ![r] = [Idle EXCEPT
                        !.pc = IF still THEN "launching" ELSE "taking"]]
    /\ UNCHANGED <<slot, lock, agents, task, refs, gc, faults, passes>>

\* The run's own nodes write in its tree and commit there.
WriteTree(r) ==
    /\ AtWork(r) /\ slot[run[r].tree].at = "listed" /\ Clean(run[r].tree)
    /\ r \notin run[r].tip
    /\ slot' = [slot EXCEPT ![run[r].tree].dirty = r]
    /\ UNCHANGED <<lock, agents, run, task, refs, act, gc, faults, passes>>

CommitTree(r) ==
    /\ AtWork(r) /\ slot[run[r].tree].dirty = r /\ slot[run[r].tree].branch = r
    /\ slot' = [slot EXCEPT ![run[r].tree].dirty = NULL, ![run[r].tree].built = TRUE]
    /\ run' = [run EXCEPT ![r].tip = @ \cup {r}]
    /\ UNCHANGED <<lock, agents, task, refs, act, gc, faults, passes>>

\* follow_build: a free checkout that built where the run stands, held as the
\* run's tree is; the tree lets go of the branch.
FollowHolds(r, m) ==
    /\ AtWork(r) /\ MayEnter
    /\ \A x \in Mine(r) : act[x].pc = "idle"
    /\ LET n == run[r].tree
       IN  /\ m # n /\ CanHold(n) /\ CanHold(m)
           /\ slot[n].branch = r /\ Clean(n)
           /\ m \in Emptiable /\ Clean(m) /\ Head(m) = run[r].tip
           /\ slot' = [slot EXCEPT ![n].branch = NULL, ![n].head = run[r].tip]
           /\ lock' = [lock EXCEPT ![n] = [by |-> r, lives |-> TRUE],
                                   ![m] = [by |-> r, lives |-> TRUE]]
    /\ act' = [act EXCEPT ![r] = [Idle EXCEPT !.pc = "following", !.at = m]]
    /\ UNCHANGED <<agents, run, task, refs, gc, faults, passes>>

Following(r) == act[r].pc = "following"
Moved(r) == slot[act[r].at].branch = r

\* The checkout it follows to takes the branch.
FollowTakes(r) ==
    /\ Following(r) /\ ~Moved(r)
    /\ slot' = [slot EXCEPT ![act[r].at].branch = r]
    /\ UNCHANGED <<lock, agents, run, task, refs, act, gc, faults, passes>>

\* Both leases of a follow drop.
FollowDrops(r) ==
    lock' = [n \in Slots |-> IF n \in In(r) THEN NULL ELSE lock[n]]

\* The move's record, and the tree given back with its build.  The log names
\* the new tree in a later step.
FollowEnds(r) ==
    /\ Following(r) /\ Moved(r)
    /\ slot' = [slot EXCEPT ![run[r].tree].by = r, ![run[r].tree].built = TRUE,
                            ![act[r].at].by = r]
    /\ run' = [run EXCEPT ![r].tree = act[r].at]
    /\ FollowDrops(r)
    /\ act' = [act EXCEPT ![r] = [Idle EXCEPT !.pc = "working"]]
    /\ UNCHANGED <<agents, task, refs, gc, faults, passes>>

\* git refuses the branch there: the tree takes it back and the run stays.
FollowUndone(r) ==
    /\ Following(r) /\ ~Moved(r)
    /\ faults < MaxFaults /\ faults' = faults + 1
    /\ slot' = [slot EXCEPT ![run[r].tree].branch = r]
    /\ FollowDrops(r)
    /\ act' = [act EXCEPT ![r] = [Idle EXCEPT !.pc = "working"]]
    /\ UNCHANGED <<agents, run, task, refs, gc, passes>>

\* The undo, or the give-back, fails: the invocation ends on its error, with
\* the branch in neither checkout or in the one the log does not name.
FollowFails(r) ==
    /\ Following(r)
    /\ faults < MaxFaults /\ faults' = faults + 1
    /\ FollowDrops(r)
    /\ act' = [act EXCEPT ![r] = [Idle EXCEPT !.pc = "clearing"]]
    /\ UNCHANGED <<slot, agents, run, task, refs, gc, passes>>

RecordMove(r) ==
    /\ AtWork(r) /\ run[r].named # run[r].tree
    /\ run' = [run EXCEPT ![r].named = run[r].tree]
    /\ UNCHANGED <<slot, lock, agents, task, refs, act, gc, faults, passes>>

\* Mutant: the leases a gone engine kept are taken for those of a live one.
ExitHolding(r) ==
    /\ lock' = lock
    /\ act' = [act EXCEPT ![r] = Idle]

\* The engine's way out: its registry keeps the groups that still run, and the
\* leases it kept stay in its name.
Exit(r) ==
    /\ lock' = [n \in Slots |-> IF lock[n] # NULL /\ lock[n].by = r
                                THEN [lock[n] EXCEPT !.lives = FALSE] ELSE lock[n]]
    /\ act' = [act EXCEPT ![r] = Idle]

Park(r) ==
    /\ AtWork(r) /\ \A x \in Mine(r) : act[x].pc = "idle"
    /\ run[r].named = run[r].tree
    /\ run' = [run EXCEPT ![r].engine = FALSE,
                  ![r].registry = IF groups_at_work(r) THEN "dead" ELSE "none"]
    /\ Exit(r)
    /\ UNCHANGED <<slot, agents, task, refs, gc, faults, passes>>

\* The run's end is logged first; `close` ends a run no engine drives.  Then
\* free_units_of surveys the pool for what the run's units keep.
Finish(r) ==
    /\ run[r].life = "open"
    /\ IF run[r].engine
       THEN AtWork(r) /\ \A x \in Mine(r) : act[x].pc = "idle"
       ELSE run[r].registry = "none" \/ ~groups_at_work(r)
    /\ run' = [run EXCEPT ![r].life = "closed", ![r].engine = TRUE,
                          ![r].registry = IF run[r].engine THEN @ ELSE "none",
                          ![r].tree = run[r].named]
    /\ act' = [act EXCEPT ![r] = [Idle EXCEPT !.pc = "ending",
                  !.listed = {n \in Listed : slot[n].unit # NULL
                                             /\ RunOf[slot[n].unit[1]] = r}]]
    /\ UNCHANGED <<slot, lock, agents, task, refs, gc, faults, passes>>

\* Lets a unit's checkout go if it is clean and can be held; its record is
\* not read again under the hold.
LetGo(n) ==
    IF CanHold(n) /\ slot[n].at = "listed"
    THEN /\ slot' = [slot EXCEPT ![n].unit = IF Clean(n) THEN NULL ELSE @]
         /\ lock' = [lock EXCEPT ![n] = NULL]
    ELSE UNCHANGED <<slot, lock>>

FreeUnit(r, n) ==
    /\ act[r].pc = "ending" /\ n \in act[r].listed
    /\ LetGo(n)
    /\ act' = [act EXCEPT ![r].listed = @ \ {n}]
    /\ UNCHANGED <<agents, run, task, refs, gc, faults, passes>>

\* Mutant: every ref of the run's units goes as the run ends.
ForgetEvery(r) ==
    /\ act[r].pc = "ending" /\ act[r].listed = {}
    /\ refs' = {f \in refs : RunOf[f.unit] # r}
    /\ act' = [act EXCEPT ![r].pc = "releasing"]
    /\ UNCHANGED <<slot, lock, agents, run, task, gc, faults, passes>>

\* The refs whose work is in the run's tree go; a blocked task's stays.
ForgetMerged(r) ==
    /\ act[r].pc = "ending" /\ act[r].listed = {}
    /\ refs' = {f \in refs : RunOf[f.unit] # r \/ ~(f.commit \subseteq run[r].tip)}
    /\ act' = [act EXCEPT ![r].pc = "releasing"]
    /\ UNCHANGED <<slot, lock, agents, run, task, gc, faults, passes>>

\* release_run_checkout of the checkout n run r worked in.  What it keeps is
\* in the name of the process that released, which gc's is only for its pass.
Release(r, n, lives) ==
    IF ~CanHold(n) \/ slot[n].at # "listed" THEN UNCHANGED <<slot, lock>>
    ELSE IF slot[n].by # NULL /\ groups_at_work(slot[n].by)
    THEN /\ lock' = [lock EXCEPT ![n] = [by |-> r, lives |-> lives]]
         /\ UNCHANGED slot
    ELSE /\ lock' = [lock EXCEPT ![n] = NULL]
         /\ slot' = [slot EXCEPT ![n] =
                       IF Clean(n) /\ @.branch = r
                       THEN [@ EXCEPT !.branch = NULL, !.head = run[r].tip] ELSE @]

ReleaseTree(r) ==
    /\ act[r].pc = "releasing"
    /\ Release(r, run[r].tree, TRUE)
    /\ act' = [act EXCEPT ![r].pc = "clearing"]
    /\ UNCHANGED <<agents, run, task, refs, gc, faults, passes>>

ClearRegistry(r) ==
    /\ act[r].pc = "clearing"
    /\ run' = [run EXCEPT ![r].engine = FALSE,
                  ![r].registry = IF groups_at_work(r) THEN "dead" ELSE "none"]
    /\ Exit(r)
    /\ UNCHANGED <<slot, agents, task, refs, gc, faults, passes>>

-----------------------------------------------------------------------------
(* A unit: opened or reopened, at work, landed, blocked or interrupted *)

\* The checkouts kept for a unit's attempts.
Kept(u) == {n \in Listed : slot[n].unit # NULL /\ slot[n].unit[1] = u}

StartUnit(u) ==
    /\ AtWork(RunOf[u]) /\ act[u].pc = "idle"
    /\ task[u].status \in {"pending", "running"} /\ task[u].attempt < MaxAttempts
    /\ ~task[u].resumes
    /\ task' = [task EXCEPT ![u].attempt = @ + 1]
    /\ act' = [act EXCEPT ![u] = [Idle EXCEPT !.pc = "taking"]]
    /\ UNCHANGED <<slot, lock, agents, run, refs, gc, faults, passes>>

\* reopen_unit: the checkout that holds what the blocked attempt left, with the
\* work put back as uncommitted changes on the commit it was made on.
ReopenUnit(u, n) ==
    /\ AtWork(RunOf[u]) /\ act[u].pc = "idle" /\ task[u].resumes
    /\ n \in Kept(u) /\ CanHold(n) /\ Head(n) = task[u].left
    /\ LET base == {w \in task[u].left : w \notin Runs => w.unit # u}
       IN  /\ slot' = [slot EXCEPT ![n].head = base, ![n].dirty = u,
                                   ![n].by = RunOf[u]]
           /\ act' = [act EXCEPT ![u] = [Idle EXCEPT !.pc = "opened", !.at = n,
                                                     !.base = base]]
    /\ lock' = [lock EXCEPT ![n] = [by |-> RunOf[u], lives |-> TRUE]]
    /\ UNCHANGED <<agents, run, task, refs, gc, faults, passes>>

\* No such checkout: a fresh unit carries the work.
ReopenNothing(u) ==
    /\ AtWork(RunOf[u]) /\ act[u].pc = "idle" /\ task[u].resumes
    /\ \A n \in Kept(u) : CanHold(n) /\ Head(n) # task[u].left
    /\ task' = [task EXCEPT ![u].resumes = FALSE]
    /\ UNCHANGED <<slot, lock, agents, run, refs, act, gc, faults, passes>>

\* CheckoutHeld: the lock did not come free in the moment given.
ReopenRefused(u) ==
    /\ AtWork(RunOf[u]) /\ act[u].pc = "idle" /\ task[u].resumes
    /\ \E n \in Kept(u) : ~CanHold(n)

\* The node fails on a refused checkout, and the run stops.
FailOnRefused(u) ==
    /\ ReopenRefused(u)
    /\ \A x \in Mine(RunOf[u]) : act[x].pc = "idle"
    /\ run' = [run EXCEPT ![RunOf[u]].engine = FALSE,
          ![RunOf[u]].registry = IF groups_at_work(RunOf[u]) THEN "dead" ELSE "none"]
    /\ Exit(RunOf[u])
    /\ UNCHANGED <<slot, agents, task, refs, gc, faults, passes>>

At(x, n, pc) == act[x].pc = pc /\ act[x].at = n

\* The task is running on the log, which says no more what was left of it; a
\* fresh unit carries that in (carry_work), or cannot.
RecordRunning(u, n) ==
    /\ At(u, n, "opened")
    /\ \E carried \in IF task[u].left = NULL \/ ~Clean(n) THEN {slot[n].dirty}
                     ELSE {NULL, u} : slot' = [slot EXCEPT ![n].dirty = carried]
    /\ task' = [task EXCEPT ![u].status = "running", ![u].left = NULL,
                            ![u].resumes = FALSE]
    /\ act' = [act EXCEPT ![u].pc = "working"]
    /\ UNCHANGED <<lock, agents, run, refs, gc, faults, passes>>

Write(x, n) ==
    /\ x \in Units \cup Probes /\ At(x, n, "working")
    /\ slot[n].dirty = NULL
    /\ slot' = [slot EXCEPT ![n].dirty = x]
    /\ UNCHANGED <<lock, agents, run, task, refs, act, gc, faults, passes>>

\* give_back: the build recorded, the lease dropped.
GiveBack(x, n, rest) ==
    /\ slot' = [slot EXCEPT ![n] = [rest EXCEPT !.built = TRUE]]
    /\ lock' = [lock EXCEPT ![n] = NULL]
    /\ act' = [act EXCEPT ![x] = Idle]

Attempted(u, n) == [unit |-> u, attempt |-> slot[n].unit[2], replayed |-> FALSE]

\* commit_work: what the unit did, kept by its ref.  A unit that changed
\* nothing commits nothing.
CommitWork(u, n, next) ==
    /\ At(u, n, "working")
    /\ LET work == IF Clean(n) THEN slot[n].head ELSE slot[n].head \cup {Attempted(u, n)}
       IN  /\ slot' = [slot EXCEPT ![n].dirty = NULL, ![n].head = work]
           /\ refs' = IF Clean(n) THEN refs
                      ELSE {f \in refs : ~(f.unit = u /\ f.attempt = slot[n].unit[2])}
                           \cup {[unit |-> u, attempt |-> slot[n].unit[2],
                                  commit |-> work]}
    /\ act' = [act EXCEPT ![u].pc = next]
    /\ UNCHANGED <<lock, agents, run, task, gc, faults, passes>>

\* A blocked task: what it left is on the log, and its checkout stays its own.
\* A person has the next attempt continue from it, in its session or afresh.
Block(u, n) ==
    /\ At(u, n, "blocking")
    /\ task' = [task EXCEPT ![u].status = "blocked",
                  ![u].left = IF slot[n].head = act[u].base THEN NULL ELSE slot[n].head]
    /\ GiveBack(u, n, slot[n])
    /\ UNCHANGED <<agents, run, refs, gc, faults, passes>>

Answer(u, resumes) ==
    /\ task[u].status = "blocked" /\ run[RunOf[u]].life = "open"
    /\ task[u].left = NULL => ~resumes
    /\ task' = [task EXCEPT ![u].status = "pending", ![u].resumes = resumes]
    /\ UNCHANGED <<slot, lock, agents, run, refs, act, gc, faults, passes>>

\* rebase_onto the run's tree as it stands: a work replayed elsewhere is a new
\* commit.  A conflict leaves the unit as it was, its task to be done again.
Replay(u, n) ==
    /\ At(u, n, "committed")
    /\ LET tip == run[RunOf[u]].tip
           own == slot[n].head \ act[u].base
       IN  slot' = [slot EXCEPT ![n].head = IF tip = act[u].base THEN @ ELSE
                       tip \cup {[w EXCEPT !.replayed = TRUE] : w \in own}]
    /\ act' = [act EXCEPT ![u].pc = "replayed", ![u].base = run[RunOf[u]].tip]
    /\ UNCHANGED <<lock, agents, run, task, refs, gc, faults, passes>>

Reject(u, n) ==
    /\ \/ At(u, n, "committed") /\ run[RunOf[u]].tip # act[u].base
       \/ At(u, n, "replayed")
    /\ task' = [task EXCEPT ![u].status = "pending"]
    /\ GiveBack(u, n, slot[n])
    /\ UNCHANGED <<agents, run, refs, gc, faults, passes>>

\* land: the run's tree moves onto the unit's work, fast-forward only.  The
\* tree is on the run's branch, or the branch does not move.
Land(u, n) ==
    LET r == RunOf[u] IN
    /\ At(u, n, "replayed")
    /\ run[r].tip \subseteq slot[n].head
    /\ slot[run[r].tree].branch = r
    /\ run' = [run EXCEPT ![r].tip = slot[n].head]
    /\ act' = [act EXCEPT ![u].pc = "landed"]
    /\ UNCHANGED <<slot, lock, agents, task, refs, gc, faults, passes>>

\* retire: the refs of the unit's attempts go and its checkout is nobody's.
Retire(u, n) ==
    /\ At(u, n, "landed")
    /\ refs' = {f \in refs : f.unit # u}
    /\ slot' = [slot EXCEPT ![n].unit = NULL]
    /\ act' = [act EXCEPT ![u].pc = "retired"]
    /\ UNCHANGED <<lock, agents, run, task, gc, faults, passes>>

Done(u, n) ==
    /\ At(u, n, "retired")
    /\ task' = [task EXCEPT ![u].status = "done", ![u].landed = slot[n].head]
    /\ GiveBack(u, n, slot[n])
    /\ UNCHANGED <<agents, run, refs, gc, faults, passes>>

\* A stop reaches the unit at work: nothing is recorded, its lease drops.
Interrupt(u, n) ==
    /\ At(u, n, "working")
    /\ lock' = [lock EXCEPT ![n] = NULL]
    /\ act' = [act EXCEPT ![u] = Idle]
    /\ UNCHANGED <<slot, agents, run, task, refs, gc, faults, passes>>

\* A session the engine could not stop still writes there: the lease is kept.
LeaveRunning(u, n) ==
    /\ At(u, n, "working") /\ agents[n] = NULL
    /\ faults < MaxFaults /\ faults' = faults + 1
    /\ agents' = [agents EXCEPT ![n] = u]
    /\ act' = [act EXCEPT ![u] = Idle]
    /\ UNCHANGED <<slot, lock, run, task, refs, gc, passes>>

\* The same in the run's own tree, which no lease covers.
LeaveInTree(r) ==
    /\ AtWork(r) /\ agents[run[r].tree] = NULL
    /\ faults < MaxFaults /\ faults' = faults + 1
    /\ agents' = [agents EXCEPT ![run[r].tree] = r]
    /\ UNCHANGED <<slot, lock, run, task, refs, act, gc, passes>>

\* A probe's checkout is cleared and given back, or stays out of the pool.
Probe(m) ==
    /\ AtWork(RunOf[m]) /\ act[m].pc = "idle"
    /\ run[RunOf[m]].tip = Base
    /\ act' = [act EXCEPT ![m] = [Idle EXCEPT !.pc = "taking"]]
    /\ UNCHANGED <<slot, lock, agents, run, task, refs, gc, faults, passes>>

PutBack(m, n) ==
    /\ m \in Probes /\ At(m, n, "working")
    /\ \/ GiveBack(m, n, [slot[n] EXCEPT !.dirty = NULL])
       \/ /\ lock' = [lock EXCEPT ![n] = NULL]
          /\ act' = [act EXCEPT ![m] = Idle]
          /\ UNCHANGED slot
    /\ UNCHANGED <<agents, run, task, refs, gc, faults, passes>>

-----------------------------------------------------------------------------
(* Crashes *)

\* An engine, or a launcher, is killed outright.  Its leases stay as the locks
\* of a process that is gone, what it was adding may be half there, and the
\* sessions it ran may outlive it.
Crash(r, half, left) ==
    /\ faults < MaxFaults /\ run[r].engine
    /\ faults' = faults + 1
    /\ LET making == {act[x].at : x \in {y \in Mine(r) \cup {r} : act[y].pc = "making"}}
           open == {x \in Mine(r) \cup {r} : act[x].pc = "working"}
       IN  /\ half \subseteq making
           /\ left \subseteq open
           /\ slot' = [n \in Slots |-> IF n \in half THEN [slot[n] EXCEPT !.at = "half"]
                                       ELSE slot[n]]
           /\ agents' = [n \in Slots |->
                  IF \E x \in left : n \in In(x) THEN CHOOSE x \in left : n \in In(x)
                  ELSE agents[n]]
    /\ lock' = [n \in Slots |-> IF lock[n] # NULL /\ lock[n].by = r
                                THEN [lock[n] EXCEPT !.lives = FALSE] ELSE lock[n]]
    /\ run' = [run EXCEPT ![r].engine = FALSE,
          ![r].registry = IF @ = "alive" THEN "dead" ELSE @]
    /\ act' = [x \in Users |-> IF x \in Mine(r) \cup {r} THEN Idle ELSE act[x]]
    /\ UNCHANGED <<task, refs, gc, passes>>

\* A session with no engine over it ends.
AgentsEnd(n) ==
    /\ agents[n] # NULL
    /\ agents' = [agents EXCEPT ![n] = NULL]
    /\ UNCHANGED <<slot, lock, run, task, refs, act, gc, faults, passes>>

-----------------------------------------------------------------------------
(* gc: one pass, each of its looks acted upon later *)

\* A pass: where it is, what it is to give back and to forget, what its look
\* left to do, and the checkout it holds.
NoPass == [phase |-> "idle", give |-> [r \in Runs |-> NULL], forget |-> {},
           look |-> {}, at |-> NULL]

GcGoes(next) == gc' = [gc EXCEPT !.phase = next, !.look = {}]

\* reclaim: the runs past retention.  A closed run's files go, a parked run's
\* checkout is to be given back; the checkout is the one the log names.  No
\* session outlasts the days of the retention.
GcReclaim(R) ==
    /\ gc.phase = "idle" /\ passes < MaxPasses
    /\ "gc" \in Perils \/ \A r \in Runs : act[r].pc \notin Entering
    /\ \A r \in R : /\ run[r].life \in {"open", "closed"}
                    /\ ~run[r].engine /\ ~groups_at_work(r)
    /\ passes' = passes + 1
    /\ LET closed == {r \in R : run[r].life = "closed"}
       IN  /\ run' = [r \in Runs |-> IF r \in closed
                        THEN [run[r] EXCEPT !.life = "collected", !.registry = "none"]
                        ELSE run[r]]
           /\ gc' = [NoPass EXCEPT !.phase = "forget", !.forget = closed,
                       !.give = [r \in Runs |-> IF r \in R THEN run[r].named ELSE NULL],
                       !.look = {n \in Listed : slot[n].unit # NULL
                                                /\ RunOf[slot[n].unit[1]] \in closed}]
    /\ UNCHANGED <<slot, lock, agents, task, refs, act, faults>>

\* forget_units_of: what a collected run's units kept goes, landed or not.
GcForget(n) ==
    /\ gc.phase = "forget" /\ n \in gc.look
    /\ LetGo(n)
    /\ gc' = [gc EXCEPT !.look = @ \ {n}]
    /\ UNCHANGED <<agents, run, task, refs, act, faults, passes>>

GcForgetRefs ==
    /\ gc.phase = "forget" /\ gc.look = {}
    /\ refs' = {f \in refs : RunOf[f.unit] \notin gc.forget}
    /\ GcGoes("give")
    /\ UNCHANGED <<slot, lock, agents, run, task, act, faults, passes>>

\* The checkout of a run that wakes meanwhile is given back all the same.
GcGive(r) ==
    /\ gc.phase = "give" /\ gc.give[r] # NULL
    /\ gc' = [gc EXCEPT !.give[r] = NULL]
    /\ Release(r, gc.give[r], FALSE)
    /\ UNCHANGED <<agents, run, task, refs, act, faults, passes>>

\* Mutant: the record and the tree are not read again.
still_free_unasked(n) == slot[n].at = "listed"

\* free: on no branch, kept for no unit, clean.
Free == {n \in Listed : slot[n].branch = NULL /\ slot[n].unit = NULL /\ Clean(n)}

\* still_free reads the record and the tree again, and not the branch.
still_free(n) == slot[n].at = "listed" /\ slot[n].unit = NULL /\ Clean(n)

\* The next look, once the pass is through with the one before.
GcLook ==
    /\ gc.look = {} /\ gc.at = NULL
    /\ \/ /\ gc.phase = "give" /\ \A r \in Runs : gc.give[r] = NULL
          /\ gc' = [gc EXCEPT !.phase = "idling", !.look = Free \cap Builds]
       \/ /\ gc.phase = "idling"
          /\ gc' = [gc EXCEPT !.phase = "room", !.look =
                      IF Cardinality(Builds) > Budget THEN Emptiable ELSE {}]
       \/ /\ gc.phase = "room"
          /\ gc' = [gc EXCEPT !.phase = "removing", !.look = Free \ Builds]
       \/ gc.phase = "removing" /\ gc' = NoPass
    /\ UNCHANGED <<slot, lock, agents, run, task, refs, act, faults, passes>>

\* upkeep_hold of a checkout of the look, and the second look under the hold,
\* which a build over the budget is emptied without.
GcHold(n) ==
    /\ gc.phase \in {"idling", "room", "removing"}
    /\ gc.at = NULL /\ n \in gc.look
    /\ gc' = [gc EXCEPT !.look = @ \ {n}, !.at =
                 IF CanHold(n) /\ (gc.phase = "room" \/ still_free(n)) THEN n ELSE NULL]
    /\ lock' = IF CanHold(n) THEN [lock EXCEPT ![n] = NULL] ELSE lock
    /\ UNCHANGED <<slot, agents, run, task, refs, act, faults, passes>>

\* What is done to it after that look, if anything is, before the hold goes.
GcTidy(n) ==
    /\ gc.at = n /\ gc' = [gc EXCEPT !.at = NULL]
    /\ \/ UNCHANGED slot
       \/ gc.phase = "removing" /\ slot' = [slot EXCEPT ![n] = [NoSlot EXCEPT !.by = slot[n].by]]
       \/ gc.phase # "removing" /\ slot' = [slot EXCEPT ![n].built = FALSE]
    /\ UNCHANGED <<lock, agents, run, task, refs, act, faults, passes>>

-----------------------------------------------------------------------------
Init ==
    /\ slot = [n \in Slots |-> NoSlot]
    /\ lock = [n \in Slots |-> NULL]
    /\ agents = [n \in Slots |-> NULL]
    /\ run = [r \in Runs |-> [life |-> "unborn", engine |-> FALSE, registry |-> "none",
                              tip |-> Base, tree |-> NULL, named |-> NULL]]
    /\ task = [u \in Units |-> [status |-> "pending", attempt |-> 0, left |-> NULL,
                                resumes |-> FALSE, landed |-> Base]]
    /\ refs = {}
    /\ act = [x \in Users |-> Idle]
    /\ gc = NoPass
    /\ faults = 0
    /\ passes = 0

\* What a user inside `take` does next.
TakeStep(x) ==
    \/ SurveyPool(x) \/ NoRoom(x)
    \/ \E n \in Slots :
          \/ MakeRoom(x, n) \/ TryTake(x, n) \/ AddHold(x, n)
          \/ \E fresh \in BOOLEAN : Settle(x, n, fresh)

RunStep(r) ==
    \/ Launch(r) \/ Open(r) \/ Wake(r) \/ WriteTree(r) \/ CommitTree(r)
    \/ LeaveInTree(r) \/ RecordMove(r) \/ Park(r) \/ Finish(r) \/ ForgetMerged(r) \/ ReleaseTree(r)
    \/ ClearRegistry(r)
    \/ FollowTakes(r) \/ FollowEnds(r) \/ FollowUndone(r) \/ FollowFails(r)
    \/ \E n \in Slots : FollowHolds(r, n) \/ FreeUnit(r, n) \/ SettleRefused(r, n)

UnitStep(u) ==
    \/ StartUnit(u) \/ ReopenNothing(u) \/ FailOnRefused(u)
    \/ \E resumes \in BOOLEAN : Answer(u, resumes)
    \/ \E n \in Slots :
          \/ ReopenUnit(u, n) \/ RecordRunning(u, n) \/ Write(u, n) \/ Block(u, n) \/ Replay(u, n)
          \/ Reject(u, n) \/ Land(u, n) \/ Retire(u, n) \/ Done(u, n)
          \/ Interrupt(u, n) \/ LeaveRunning(u, n)
          \/ \E next \in {"blocking", "committed"} : CommitWork(u, n, next)

GcStep ==
    \/ \E R \in SUBSET Runs : GcReclaim(R)
    \/ GcForgetRefs \/ GcLook
    \/ \E r \in Runs : GcGive(r)
    \/ \E n \in Slots : GcForget(n) \/ GcHold(n) \/ GcTidy(n)

Next ==
    \/ \E x \in Users : TakeStep(x)
    \/ \E r \in Runs : RunStep(r)
    \/ \E u \in Units : UnitStep(u)
    \/ \E m \in Probes : Probe(m) \/ \E n \in Slots : Write(m, n) \/ PutBack(m, n)
    \/ \E r \in Runs : \E half \in SUBSET Slots, left \in SUBSET Users : Crash(r, half, left)
    \/ \E n \in Slots : AgentsEnd(n)
    \/ GcStep

Spec == Init /\ [][Next]_vars

-----------------------------------------------------------------------------
TypeOK ==
    /\ slot \in [Slots -> [at : {"none", "half", "listed"}, head : SUBSET Works,
                           branch : Runs \cup {NULL}, dirty : Users \cup {NULL},
                           by : Runs \cup {NULL},
                           unit : (Units \X (1..MaxAttempts)) \cup {NULL},
                           built : BOOLEAN]]
    /\ lock \in [Slots -> [by : Runs, lives : BOOLEAN] \cup {NULL}]
    /\ \A n \in Slots : lock[n] # NULL /\ lock[n].lives => run[lock[n].by].engine
    /\ agents \in [Slots -> Users \cup {NULL}]
    /\ \A r \in Runs : run[r].tip \subseteq Works /\ run[r].tree \in Slots \cup {NULL}
    /\ \A u \in Units : task[u].attempt \in 0..MaxAttempts
    /\ \A f \in refs : f.unit \in Units /\ f.commit \subseteq Works
    /\ \A x \in Users : act[x].at \in Slots \cup {NULL} /\ act[x].listed \subseteq Slots

\* A checkout has one user: whatever surveys were stale when they were acted
\* upon, whoever crashed and whatever gc was doing, the pool never hands the
\* checkout one user works in to another.
OneUser == \A x, y \in Users : x # y => In(x) \cap In(y) = {}

Alone(n) ==
    /\ slot[n].at = "listed"
    /\ \A x \in Users : n \in In(x) => Run(x) = Run(agents[n])

\* Where a unit's or a probe's sessions still work with no engine over them, the
\* lock their engine left keeps the checkout theirs: nobody of another run
\* works there, nothing is taken away, and the record by which the next taker
\* asks about them goes on naming their run.
AgentsKeepCheckout ==
    \A n \in Slots : agents[n] \in Units \cup Probes =>
        Alone(n) /\ slot[n].by = Run(agents[n])

\* "A checkout a process group still runs in is kept instead, since a session
\* the engine could not stop may still write there" (pool/release.rs:43-46):
\* the same of every checkout, the run's own among them.
AgentsAlone == \A n \in Slots : agents[n] # NULL => Alone(n)

\* What the log says exists can be reached: what a blocked task left is kept
\* by its ref or is in the run's branch until the run is collected, and what a
\* done task did is in the run's branch.
WorkKept ==
    \A u \in Units :
        LET r == RunOf[u] IN
        run[r].life # "collected" =>
            /\ task[u].left # NULL =>
                  \/ \E f \in refs : f.unit = u /\ f.commit = task[u].left
                  \/ task[u].left \subseteq run[r].tip
            /\ task[u].status = "done" => task[u].landed \subseteq run[r].tip

\* Uncommitted work is nobody's to discard: it leaves a checkout only by a
\* step of the user who wrote it, while that user works there.
DirtyKept ==
    [][\A n \in Slots :
          slot[n].dirty # NULL /\ slot'[n].dirty # slot[n].dirty
              => n \in In(slot[n].dirty) /\ slot'[n].at = "listed" /\ gc' = gc]_vars

\* A run's branch keeps its checkout the run's for as long as the run lives
\* (pool/runs.rs:1-3): an engine at work finds its tree on its branch.
RunKeepsTree ==
    \A r \in Runs : AtWork(r) =>
        slot[run[r].tree].at = "listed" /\ slot[run[r].tree].branch = r

\* "a gone holder's lock is taken over unless the agents it left still work
\* there" (pool/slot.rs:4-7): no unit is refused the checkout kept for it by
\* a holder that is gone and left no agents.
GoneHolderTakenOver ==
    \A u \in Units : ReopenRefused(u) =>
        \E n \in Kept(u) : ~CanHold(n) /\ (~Gone(n) \/ groups_at_work(RunOf[u]))
=============================================================================
