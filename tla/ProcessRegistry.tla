--------------------------- MODULE ProcessRegistry ---------------------------
(***************************************************************************)
(* How another process stops a run: crates/engine/src/process_registry.rs, *)
(* the file `scratch/engine.json` that names the live engine and the       *)
(* process groups it spawned, and the two commands that read it, `yunta    *)
(* cancel` and `yunta close`.                                              *)
(*                                                                         *)
(* One engine drives the run at a time (FileLock promises that); it        *)
(* creates the file as it wakes, rewrites it whole at each registration    *)
(* and deletes it at its end, except for the groups it could not stop.     *)
(* The caller shares no memory with it: it reads the log, then the file,   *)
(* then signals, and the engine goes on in between.  SIGKILL from the host *)
(* may take the engine at any step.                                        *)
(*                                                                         *)
(* What the code only warns of may happen here: a write of the file or a   *)
(* signal is refused, the host does not know a process, the file does not  *)
(* read.  Of the log the run's phase, its close and its last pause are     *)
(* kept.  A pgid is not given to a later group.                            *)
(***************************************************************************)
EXTENDS Integers, FiniteSets

CONSTANTS
    Groups,     \* process groups
    Sessions,   \* the groups that run an agent's session; the others run a
                \* governed command
    NULL,       \* no file
    UNREADABLE, \* a file this binary cannot make sense of
    Callers,    \* the commands other processes run: "cancel", "close"
    Perils,     \* what the callers' reads may miss, see below
    Faults,     \* what may fail, see below
    MaxWakes,   \* bound: the engines that wake the run
    MaxCalls,   \* bound: the commands run
    MaxFaults   \* bound: what fails

ASSUME ProcessRegistryAssumption ==
    /\ Sessions \subseteq Groups
    /\ Callers \subseteq {"cancel", "close"}
    \* "meets": the run wakes while a caller is at work on what it read.
    /\ Perils \subseteq {"meets"}
    \* "create": an engine cannot write its first file; "write": a later
    \* write, or the removal of the file; "kill": a signal is refused;
    \* "unknown": the host cannot tell whether a process runs; "damage": the
    \* file does not read.
    /\ Faults \subseteq {"create", "write", "kill", "unknown", "damage"}
    /\ {MaxWakes, MaxCalls, MaxFaults} \subseteq Nat
    /\ NULL # UNREADABLE
    /\ {NULL, UNREADABLE} \cap [engine : 1..MaxWakes, groups : SUBSET Groups] = {}

VARIABLES
    log,     \* phase: where the log leaves the run; finished: it closed once;
             \* pause: who recorded the last pause
    file,    \* engine.json: the engine it names and its groups, or not
    eng,     \* the engine: where it stands, its id, the groups its own state
             \* names, whether a SIGINT reached it, whether it writes a
             \* registry, and whether the file is behind its state
    group,   \* where each group stands, who in the engine holds it, and
             \* whether the file was ever made to miss it
    caller,  \* the command: where it stands, the registry it read, the groups
             \* it has yet to kill or could not, whether it settles an engine
             \* the host cannot tell about, whether the engine's SIGKILL was
             \* refused, and what it last answered
    wakes, calls, faults

vars == <<log, file, eng, group, caller, wakes, calls, faults>>

Phases == {"open", "paused", "closed"}

Registry == [engine : 1..MaxWakes, groups : SUBSET Groups]

Answers == {"none", "already_stopped", "nothing_running", "unreachable",
            "refused", "cancelled", "crashed", "escalated", "interrupted",
            "closed"}

NoEngine == [at |-> "down", id |-> 0, mem |-> {}, cut |-> FALSE,
             writes |-> FALSE, behind |-> FALSE]

NoCaller == [at |-> "idle", by |-> "none", saw |-> NULL, todo |-> {},
             blind |-> FALSE, spared |-> FALSE, answer |-> "none"]

Runs(g) == group[g].at = "runs"

Init ==
    /\ log = [phase |-> "open", finished |-> FALSE, pause |-> "none"]
    /\ file = NULL
    /\ eng = NoEngine
    /\ group = [g \in Groups |-> [at |-> "unborn", held |-> "none", missed |-> FALSE]]
    /\ caller = NoCaller
    /\ wakes = 0 /\ calls = 0 /\ faults = 0

\* Something fails.
Fault(kind) ==
    /\ kind \in Faults /\ faults < MaxFaults
    /\ faults' = faults + 1

Up == eng.at # "down"

\* Whether the process with this id is the engine that still runs.
Alive(id) == Up /\ eng.id = id

\* What the host says of it.
liveness(id, answer) ==
    \/ answer = (IF Alive(id) THEN "alive" ELSE "dead") /\ UNCHANGED faults
    \/ answer = "unknown" /\ Fault("unknown")

running_groups(G) == {g \in G : Runs(g)}

Reads == file \notin {NULL, UNREADABLE}

\* The groups the file names.
Named == IF Reads THEN file.groups ELSE {}

----------------------------------------------------------------------------
(* The engine.                                                             *)

\* A caller at work between what it read and what it does about it; one that
\* looks for a registry read a run that was moving.
Acting ==
    \/ caller.at \notin {"idle", "looking", "waiting"}
    \/ caller.at = "looking" /\ log.phase # "open"

opened(mem, writes) ==
    [NoEngine EXCEPT !.at = "opened", !.id = wakes + 1, !.mem = mem, !.writes = writes]

\* Mutant: a new engine's file replaces the earlier one and all it named.
create_over ==
    /\ eng' = opened({}, TRUE)
    /\ file' = [engine |-> wakes + 1, groups |-> {}]
    /\ UNCHANGED faults

\* The file of an engine that ends: only the groups that still run.
cleared(id, G) ==
    LET kept == running_groups(G)
    IN  IF kept = {} THEN NULL ELSE [engine |-> id, groups |-> kept]

\* The new engine's file keeps the groups of the earlier one that still run.
\* An engine that cannot write it works without: what it made of its registry
\* is dropped, which clears it, and that may fail too.
create ==
    \/ LET kept == running_groups(Named)
       IN  /\ eng' = opened(kept, TRUE)
           /\ file' = [engine |-> wakes + 1, groups |-> kept]
           /\ UNCHANGED faults
    \/ /\ Fault("create")
       /\ eng' = opened({}, FALSE)
       /\ file' \in {file, cleared(wakes + 1, Named)}

\* The run is woken: for the first time, from a pause, after a crash, or when
\* it has nothing left to do.
Wake ==
    /\ ~Up /\ wakes < MaxWakes
    /\ Acting => "meets" \in Perils
    /\ wakes' = wakes + 1
    /\ create
    /\ UNCHANGED <<log, group, caller, calls>>

RecordResume ==
    /\ eng.at = "opened" /\ ~log.finished
    /\ Acting => "meets" \in Perils
    /\ eng' = [eng EXCEPT !.at = "working"]
    /\ log' = [log EXCEPT !.phase = "open"]
    /\ UNCHANGED <<file, group, caller, wakes, calls, faults>>

\* The run has closed, or what its log says of its artifacts or its worktree
\* does not hold: the invocation ends before the run resumes.
WakeEnds ==
    /\ eng.at = "opened"
    /\ eng' = [eng EXCEPT !.at = "ended"]
    /\ UNCHANGED <<log, file, group, caller, wakes, calls, faults>>

\* A cancellation opens no session; a governed command is still spawned, and
\* then killed.
Spawn(g) ==
    /\ eng.at = "working" /\ group[g].at = "unborn"
    /\ eng.cut => g \notin Sessions
    /\ group' = [group EXCEPT ![g].at = "runs", ![g].held = "spawned"]
    /\ UNCHANGED <<log, file, eng, caller, wakes, calls, faults>>

\* One change of the registry: the engine's state, and then the whole file.  A
\* write that fails is only warned of.
commit(mem) ==
    \/ /\ eng' = [eng EXCEPT !.mem = mem, !.behind = FALSE]
       /\ file' = [engine |-> eng.id, groups |-> mem]
       /\ UNCHANGED faults
    \/ /\ Fault("write")
       /\ eng' = [eng EXCEPT !.mem = mem, !.behind = TRUE]
       /\ UNCHANGED file

\* An engine with no registry registers nothing and removes nothing.
unwritten == ~eng.writes /\ UNCHANGED <<eng, file, faults>>

Register(g) ==
    /\ group[g].held = "spawned"
    /\ group' = [group EXCEPT ![g].held = "guarded", ![g].missed = ~eng.writes]
    /\ unwritten \/ (eng.writes /\ commit(eng.mem \cup {g}))
    /\ UNCHANGED <<log, caller, wakes, calls>>

\* A group ends: by itself, or killed by the engine for a timeout, a spent
\* budget or a cancellation.
GroupEnds(g) ==
    /\ Runs(g)
    /\ group' = [group EXCEPT ![g].at = "gone"]
    /\ UNCHANGED <<log, file, eng, caller, wakes, calls, faults>>

\* The guard of a registration goes: its group has ended.
Release(g) ==
    /\ group[g].at = "gone" /\ group[g].held = "guarded"
    /\ group' = [group EXCEPT ![g].held = "none"]
    /\ unwritten \/ (eng.writes /\ commit(eng.mem \ {g}))
    /\ UNCHANGED <<log, caller, wakes, calls>>

\* A session the engine could not stop: its registration is kept.
NotStopped(g) ==
    /\ Runs(g) /\ group[g].held = "guarded" /\ g \in Sessions
    /\ group' = [group EXCEPT ![g].held = "none"]
    /\ UNCHANGED <<log, file, eng, caller, wakes, calls, faults>>

\* A governed command whose group did not close: its registration goes, and
\* the file misses it.
CommandNotStopped(g) ==
    /\ Runs(g) /\ group[g].held = "guarded" /\ g \notin Sessions
    /\ group' = [group EXCEPT ![g].held = "none", ![g].missed = TRUE]
    /\ unwritten \/ (eng.writes /\ commit(eng.mem \ {g}))
    /\ UNCHANGED <<log, caller, wakes, calls>>

\* The loop ends with the run paused or closed.  A loop that was cut pauses,
\* unless its last step was already the run's close.
Stop ==
    /\ eng.at = "working"
    /\ \A g \in Groups : group[g].held = "none"
    /\ eng' = [eng EXCEPT !.at = "ended"]
    /\ \/ log' = [log EXCEPT !.phase = "paused", !.pause = "own"]
       \/ log' = [log EXCEPT !.phase = "closed", !.finished = TRUE]
    /\ UNCHANGED <<file, group, caller, wakes, calls, faults>>

\* The groups the engine leaves: what it had not registered yet, and what a
\* failed write kept from a file that is now left as it is.
left_missed(written) ==
    [g \in Groups |-> [group[g] EXCEPT
        !.held = "none",
        !.missed = @ \/ group[g].held = "spawned"
                     \/ (eng.behind /\ ~written /\ g \notin Named)]]

clear ==
    /\ eng.at = "ended"
    /\ \E written \in BOOLEAN :
          /\ IF written
             THEN eng.writes /\ file' = cleared(eng.id, eng.mem) /\ UNCHANGED faults
             ELSE /\ UNCHANGED file
                  /\ IF eng.writes THEN Fault("write") ELSE UNCHANGED faults
          /\ group' = left_missed(written)
    /\ eng' = NoEngine
    /\ UNCHANGED <<log, caller, wakes, calls>>

\* Mutant: a killed engine still holds its groups.
killed_holding ==
    /\ eng' = NoEngine
    /\ UNCHANGED group

\* What is left when the engine is killed: its groups run on, held by nobody.
killed ==
    /\ eng' = NoEngine
    /\ group' = left_missed(FALSE)

Crash ==
    /\ Up
    /\ killed
    /\ UNCHANGED <<log, file, caller, wakes, calls, faults>>

\* The file is damaged, or a newer binary wrote it.  A working engine's next
\* write replaces it.
Damage ==
    /\ Reads
    /\ Fault("damage")
    /\ file' = UNREADABLE
    /\ IF Up /\ eng.writes
       THEN eng' = [eng EXCEPT !.behind = TRUE] /\ UNCHANGED group
       ELSE /\ group' = [g \in Groups |-> [group[g] EXCEPT !.missed = @ \/ g \in file.groups]]
            /\ UNCHANGED eng
    /\ UNCHANGED <<log, caller, wakes, calls>>

----------------------------------------------------------------------------
(* `yunta cancel`.                                                         *)

answer(a) == caller' = [NoCaller EXCEPT !.spared = caller.spared, !.answer = a]

\* Mutant: a pause that a later wake resumed still counts.
stopped_once == log.phase # "open" \/ log.pause # "none"

\* Whether the log leaves the run stopped now.
stopped == log.phase # "open"

Cancel ==
    /\ caller.at = "idle" /\ "cancel" \in Callers
    /\ calls < MaxCalls
    /\ calls' = calls + 1
    /\ caller' = [NoCaller EXCEPT !.by = "cancel",
                                  !.at = IF stopped THEN "stopped" ELSE "looking"]
    /\ UNCHANGED <<log, file, eng, group, wakes, faults>>

\* settle_stopped: reads the registry, then kills each group it names until
\* no member of it runs.  A file that does not read names none.
StoppedReads ==
    /\ caller.at = "stopped"
    /\ IF Reads
         THEN caller' = [caller EXCEPT !.at = "killing", !.todo = file.groups]
         ELSE answer("already_stopped")
    /\ UNCHANGED <<log, file, eng, group, wakes, calls, faults>>

\* SIGKILL to each of the groups; those of `refused` it does not stop, of
\* which the person is only told.
kill(G, refused) ==
    /\ refused \subseteq running_groups(G)
    /\ IF refused = {} THEN UNCHANGED faults ELSE Fault("kill")
    /\ group' = [g \in Groups |-> IF g \in G \ refused /\ Runs(g)
                                  THEN [group[g] EXCEPT !.at = "gone"] ELSE group[g]]

force_kill_group(g) ==
    /\ caller.at = "killing" /\ g \in caller.todo
    /\ \E refused \in SUBSET {g} : kill({g}, refused)
    /\ caller' = [caller EXCEPT !.todo = @ \ {g}]
    /\ UNCHANGED <<log, file, eng, wakes, calls>>

StoppedEnds ==
    /\ caller.at = "killing" /\ caller.todo = {}
    /\ answer("already_stopped")
    /\ UNCHANGED <<log, file, eng, group, wakes, calls, faults>>

\* engine_registry: the registry, or a wait for one.  Only an engine the host
\* knows to be alive is signalled; any other is settled as one that crashed.
Registered ==
    /\ caller.at = "looking" /\ Reads
    /\ \E l \in {"alive", "dead", "unknown"} :
          /\ liveness(file.engine, l)
          /\ caller' = [caller EXCEPT !.saw = file, !.blind = (l = "unknown"),
                                      !.at = IF l = "alive" THEN "signal" ELSE "settle"]
    /\ UNCHANGED <<log, file, eng, group, wakes, calls>>

\* A file that does not read is an error, and so is a log with a node in
\* progress and no file; which nodes it holds is not modelled, so either may
\* be the case.  Otherwise 15 s go by, or the run stops.
NotRegistered ==
    /\ caller.at = "looking" /\ ~Reads
    /\ \/ answer("unreachable")
       \/ file = NULL /\ answer("nothing_running")
    /\ UNCHANGED <<log, file, eng, group, wakes, calls, faults>>

Signal ==
    /\ caller.at = "signal"
    /\ \/ /\ Alive(caller.saw.engine)
          /\ eng' = [eng EXCEPT !.cut = TRUE]
          /\ caller' = [caller EXCEPT !.at = "waiting"]
          /\ UNCHANGED faults
       \/ /\ IF Alive(caller.saw.engine) THEN Fault("kill") ELSE UNCHANGED faults
          /\ answer("refused")
          /\ UNCHANGED eng
    /\ UNCHANGED <<log, file, group, wakes, calls>>

\* await_engine: polls the log until the engine recorded its terminal.
Awaited ==
    /\ caller.at = "waiting" /\ stopped
    /\ answer("cancelled")
    /\ UNCHANGED <<log, file, eng, group, wakes, calls, faults>>

WaitInterrupted ==
    /\ caller.at = "waiting"
    /\ answer("interrupted")
    /\ UNCHANGED <<log, file, eng, group, wakes, calls, faults>>

\* 15 s without a terminal: one SIGKILL to each group the registry named when
\* it was read, then one to the engine.
Escalate ==
    /\ caller.at = "waiting" /\ ~stopped
    /\ \E refused \in SUBSET caller.saw.groups : kill(caller.saw.groups, refused)
    /\ caller' = [caller EXCEPT !.at = "escalated"]
    /\ UNCHANGED <<log, file, eng, wakes, calls>>

\* Mutant: the escalation stops at the process groups.
EngineSpared ==
    /\ caller.at = "escalated"
    /\ answer("escalated")
    /\ UNCHANGED <<log, file, eng, group, wakes, calls, faults>>

KillEngine ==
    /\ caller.at = "escalated"
    /\ \/ /\ IF Alive(caller.saw.engine) THEN killed ELSE UNCHANGED <<eng, group>>
          /\ answer("escalated")
          /\ UNCHANGED faults
       \/ /\ Alive(caller.saw.engine) /\ Fault("kill")
          /\ caller' = [NoCaller EXCEPT !.spared = TRUE, !.answer = "escalated"]
          /\ UNCHANGED <<eng, group>>
    /\ UNCHANGED <<log, file, wakes, calls>>

\* settle_crash: the groups the registry names killed, the pause recorded, the
\* file removed, whether each could be killed or not.
SettleKills ==
    /\ caller.at = "settle"
    /\ \E refused \in SUBSET caller.saw.groups :
          /\ kill(caller.saw.groups, refused)
          /\ caller' = [caller EXCEPT !.at = "record", !.todo = refused]
    /\ UNCHANGED <<log, file, eng, wakes, calls>>

SettleRecords ==
    /\ caller.at = "record"
    /\ log' = [log EXCEPT !.phase = "paused", !.pause = "after_crash"]
    /\ caller' = [caller EXCEPT !.at = "remove"]
    /\ UNCHANGED <<file, eng, group, wakes, calls, faults>>

\* The groups that could not be killed go with the file, and where the engine
\* may be alive all it names.
removed ==
    /\ file' = NULL
    /\ eng' = [eng EXCEPT !.behind = @ \/ (caller.blind /\ eng.writes)]
    /\ group' = [g \in Groups |-> [group[g] EXCEPT
                    !.missed = @ \/ g \in caller.todo
                                 \/ (caller.blind /\ ~eng.writes /\ g \in Named)]]
    /\ UNCHANGED faults

SettleRemoves ==
    /\ caller.at = "remove"
    /\ removed \/ (file # NULL /\ Fault("write") /\ UNCHANGED <<file, eng, group>>)
    /\ IF caller.by = "close"
         THEN caller' = [NoCaller EXCEPT !.by = "close", !.at = "closing"]
         ELSE answer("crashed")
    /\ UNCHANGED <<log, wakes, calls>>

----------------------------------------------------------------------------
(* `yunta close`.                                                          *)

\* settled_liveness: a dead engine is settled first, whatever the log says.
Close ==
    /\ caller.at = "idle" /\ "close" \in Callers
    /\ eng.at = "opened" => "meets" \in Perils
    /\ calls < MaxCalls
    /\ \/ /\ Reads /\ liveness(file.engine, "dead")
          /\ caller' = [NoCaller EXCEPT !.by = "close", !.saw = file, !.at = "settle"]
       \/ /\ IF Reads
             THEN \E l \in {"alive", "unknown"} : liveness(file.engine, l)
             ELSE UNCHANGED faults
          /\ caller' = [NoCaller EXCEPT !.by = "close", !.at = "closing"]
    /\ calls' = calls + 1
    /\ UNCHANGED <<log, file, eng, group, wakes>>

\* close_run: only a run that is paused and did not close yet is closed.
CloseReads ==
    /\ caller.at = "closing"
    /\ IF ~log.finished /\ log.phase = "paused"
         THEN caller' = [caller EXCEPT !.at = "appending"]
         ELSE answer("refused")
    /\ UNCHANGED <<log, file, eng, group, wakes, calls, faults>>

CloseAppends ==
    /\ caller.at = "appending"
    /\ log' = [log EXCEPT !.phase = "closed", !.finished = TRUE]
    /\ answer("closed")
    /\ UNCHANGED <<file, eng, group, wakes, calls, faults>>

----------------------------------------------------------------------------
CallerStep ==
    \/ StoppedReads \/ StoppedEnds \/ \E g \in Groups : force_kill_group(g)
    \/ Registered \/ NotRegistered \/ Signal \/ Awaited \/ Escalate \/ KillEngine
    \/ SettleKills \/ SettleRecords \/ SettleRemoves \/ CloseReads \/ CloseAppends

Next ==
    \/ Wake \/ RecordResume \/ WakeEnds \/ Stop \/ clear \/ Crash \/ Damage
    \/ \E g \in Groups : \/ Spawn(g) \/ Register(g) \/ GroupEnds(g) \/ Release(g)
                         \/ NotStopped(g) \/ CommandNotStopped(g)
    \/ Cancel \/ Close \/ CallerStep \/ WaitInterrupted

Spec == Init /\ [][Next]_vars

\* The caller polls on a timer and never waits for the engine without a
\* deadline.  Of the engine nothing is assumed: it may hang for good.
FairSpec == Spec /\ WF_vars(CallerStep)

----------------------------------------------------------------------------
(* Properties.                                                             *)

TypeOK ==
    /\ log \in [phase : Phases, finished : BOOLEAN, pause : {"none", "own", "after_crash"}]
    /\ file \in Registry \cup {NULL, UNREADABLE}
    /\ eng \in [at : {"down", "opened", "working", "ended"}, id : 0..MaxWakes,
                mem : SUBSET Groups, cut : BOOLEAN, writes : BOOLEAN, behind : BOOLEAN]
    /\ group \in [Groups -> [at : {"unborn", "runs", "gone"},
                             held : {"none", "spawned", "guarded"}, missed : BOOLEAN]]
    /\ caller \in [at : {"idle", "stopped", "killing", "looking", "signal", "waiting",
                         "escalated", "settle", "record", "remove", "closing", "appending"},
                   by : Callers \cup {"none"}, saw : Registry \cup {NULL},
                   todo : SUBSET Groups, blind : BOOLEAN, spared : BOOLEAN,
                   answer : Answers]
    /\ wakes \in 0..MaxWakes /\ calls \in 0..MaxCalls /\ faults \in 0..MaxFaults
    \* Only an engine that works holds a group.
    /\ \A g \in Groups : group[g].held # "none" => eng.at = "working"

\* process_registry.rs: the file is what "lets a separate process find and
\* signal a live run's process tree so cancellation can always tear the whole
\* tree down".  Through wakes, crashes, stops and settlements it names the
\* engine that works and every group that runs, but for one the engine has yet
\* to register, one it was made to miss (see `missed`), and while a write that
\* failed has yet to be made good by the engine's next.
Reachable ==
    LET stale == Up /\ eng.behind
    IN  /\ eng.at = "working" /\ eng.writes /\ ~stale => Reads /\ file.engine = eng.id
        /\ \A g \in Groups :
              Runs(g) => \/ g \in Named
                         \/ group[g].held = "spawned"
                         \/ group[g].missed
                         \/ stale

\* cancel.rs, settle_stopped: what `cancel` kills of a run that had stopped
\* are "the process groups a stopped run's engine could not stop": never one
\* an engine holds, unless that engine was settled as crashed while it worked.
StoppedKillsStrays ==
    [][\A g \in Groups :
          Runs(g) /\ group'[g].at = "gone" /\ caller.at = "killing" /\ caller' # caller
              => group[g].held = "none" \/ log.pause = "after_crash"]_vars

\* cancel.rs: a live engine gets a SIGINT, and SIGKILL when its terminal does
\* not arrive in time.  An engine that was signalled stops, even one that
\* never answers again, unless the person stops waiting for it or is told
\* that its SIGKILL was refused.
CancelStops ==
    \A id \in 1..MaxWakes :
        caller.at = "waiting" /\ caller.saw.engine = id
            ~> \/ eng.id # id
               \/ eng.at = "ended"
               \/ caller.answer = "interrupted"
               \/ caller.spared

\* exec.rs, start: "a genuinely finished run is immutable - nothing reopens
\* it, ever": nothing is appended to a log that says how the run closed.
FinishedIsImmutable == [][log.finished => log' = log]_vars
==============================================================================
