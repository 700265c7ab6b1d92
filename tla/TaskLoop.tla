------------------------------ MODULE TaskLoop ------------------------------
(* A loop node: the tasks of its plan, dispatched in batches into checkouts  *)
(* of their own and integrated one at a time onto the run's tree             *)
(* (engine/src/run/loop_exec). The task cycle (engine/src/task_cycle) is the *)
(* outcome it hands back and what its sessions declare and are granted on    *)
(* the way.                                                                  *)
(*                                                                           *)
(* What the log and the run's tree hold outlives the engine; `loop` is the   *)
(* invocation's memory, and a crash loses it. Each append that another       *)
(* append has to follow is a step of its own, so a crash can fall between.   *)
EXTENDS Naturals, FiniteSets, Sequences, Functions

CONSTANTS
    NTasks,         \* the tasks of the plan, numbered as they are declared
    Deps,           \* what each task depends on
    Meets,          \* the pairs of tasks whose reaches might select one file
    Concurrency,    \* the loop's declared concurrency
    MaxIterations,  \* the loop's iteration cap
    MaxPerRun,      \* the most grants the engine makes in the run
    Faults,         \* what may happen on the way, of the kinds below
    MaxFaults       \* how often, in all: the bound of every behaviour

Tasks == 1..NTasks

FaultKinds == {"unmet", "scope", "limit", "unstopped", "depart", "grant",
               "reject", "cancel", "crash", "beside"}

ASSUME LoopAssumption ==
    /\ NTasks \in Nat \ {0} /\ Concurrency \in Nat \ {0} /\ MaxIterations \in Nat \ {0}
    /\ MaxPerRun \in Nat /\ MaxFaults \in Nat
    /\ Deps \in [Tasks -> SUBSET Tasks] /\ \A t \in Tasks : \A d \in Deps[t] : d < t
    /\ Meets \subseteq SUBSET Tasks
    /\ Faults \subseteq FaultKinds

VARIABLES
    task,    \* the ledger: each task's status, its stop, the work it left
    tree,    \* whose work the run's tree holds, in the order it landed
    grants,  \* the engine's scope grants on the log
    node,    \* how the loop's node stands, what its last failure lists, and
             \* whether its attempt reopened what waited for a reset
    choice,  \* what a person chose after that failure, and who cites it
    seed,    \* the latest answer on the node's gate that nothing consumed
    loop,    \* the invocation: where it is, and what it remembers
    faults   \* how often something went wrong

vars == <<task, tree, grants, node, choice, seed, loop, faults>>

logged == <<task, tree, grants, node, choice, seed>>

-----------------------------------------------------------------------------
(* The ledger.                                                               *)

(* Mutant: a status that names no stop keeps the stop before it.           *)
changed_keeping(t, st, stop, left) ==
    [task EXCEPT ![t] = [@ EXCEPT !.st = st, !.left = left]]

(* A status change names the stop it blocks on and the work it leaves or     *)
(* goes on from, and clears each when it names none.                         *)
changed(t, st, stop, left) ==
    [task EXCEPT ![t] = [@ EXCEPT !.st = st, !.stop = stop, !.left = left]]

is(t, st) == task[t].st = st
stops     == {t \in Tasks : is(t, "blocked")}
on(why)   == {t \in stops : task[t].stop = why}

Landed(t) == t \in Range(tree)
least(S)  == CHOOSE t \in S : \A u \in S : t <= u

-----------------------------------------------------------------------------
(* The invocation.                                                           *)

Gone == [pc |-> "down", iter |-> 0, lifted |-> FALSE, owed |-> {}, todo |-> {},
         res |-> [t \in Tasks |-> "none"], got |-> [t \in Tasks |-> 0], fresh |-> {},
         window |-> 0, cancelled |-> FALSE, onto |-> 0,
         asking |-> {}, departs |-> {}, unanswered |-> {}]

NoAnswer == [opt |-> "none", about |-> {}]
NoChoice == [opt |-> "none", cited |-> {}]

Init ==
    /\ task = [t \in Tasks |-> [st |-> "pending", stop |-> "none", left |-> FALSE,
                                owes |-> FALSE]]
    /\ tree = <<>>
    /\ grants = 0
    /\ node = [st |-> "ready", why |-> "none", lists |-> {}, waited |-> FALSE]
    /\ choice = NoChoice
    /\ seed = NoAnswer
    /\ loop = Gone
    /\ faults = 0

at(pc) == loop.pc = pc
up     == ~at("down")
go(pc) == loop' = [loop EXCEPT !.pc = pc]

happens(kind) == kind \in Faults /\ faults < MaxFaults /\ faults' = faults + 1

-----------------------------------------------------------------------------
(* How the node ends. A terminal consumes the answers before it, and so does *)
(* the pause of an invocation that stops with its node open.                 *)

fail(why, lists) ==
    /\ node' = [st |-> "failed", why |-> why, lists |-> lists, waited |-> FALSE]
    /\ choice' = NoChoice
    /\ seed' = NoAnswer
    /\ loop' = Gone

pause == loop' = Gone /\ seed' = NoAnswer /\ UNCHANGED <<node, choice>>

-----------------------------------------------------------------------------
(* The person, and the attempts of the node.                                 *)

listed(why) == node.lists \cap on(why)

(* What the failure's menu offers. A limit offers nothing: it waits.         *)
remedies ==
    CASE node.why = "owed" -> {"grant", "deny"}
      [] node.why = "stopped" ->
            {o \in {"accept", "send_back"} : listed("departs") # {}}
            \cup {o \in {"retry"} : listed("unmet") \cup listed("precheck") # {}}
            \cup {o \in {"continue_work"} : /\ listed("precheck") = {}
                                            /\ \E t \in stops : task[t].left}
      [] node.why \in {"capped", "unstopped", "stalled"} -> {"retry"}
      [] OTHER -> {}

(* A person answers the failure. An answer to departures is one to those the *)
(* failure lists, which is what the person was shown.                        *)
Decide ==
    /\ node.st = "failed" /\ choice = NoChoice /\ ~up
    /\ \E opt \in remedies :
        /\ choice' = [NoChoice EXCEPT !.opt = opt]
        /\ seed' = IF opt \in {"accept", "send_back"}
                   THEN [opt |-> opt, about |-> listed("departs")]
                   ELSE [opt |-> "other", about |-> {}]
    /\ UNCHANGED <<task, tree, grants, node, loop, faults>>

(* An attempt starts: the first, the one a choice runs, the one after a      *)
(* limit's reset, or the restart of one a crash or a pause left open.        *)
Start ==
    /\ ~up
    /\ \/ node.st \in {"ready", "open"}
       \/ node.st = "failed" /\ (choice.opt # "none" \/ node.why = "limit")
    /\ node' = [node EXCEPT !.st = "open", !.waited = @ /\ node.st = "open"]
    /\ loop' = [Gone EXCEPT !.pc = "retry"]
    /\ UNCHANGED <<task, tree, grants, choice, seed, faults>>

-----------------------------------------------------------------------------
(* What goes back to work before the first batch.                            *)

(* Mutant: what an earlier wake reopened is not read from the log.         *)
caused_by_nothing == FALSE

(* Whether a status change of the ledger cites the decision.                 *)
caused_by == choice.cited # {}

(* Under a choice that continues work the task goes on from what its last    *)
(* attempt left, and so does one whose scope request the failure owed.       *)
keeps_work(t) ==
    \/ choice.opt \in {"continue_work", "grant"}
    \/ node.why = "owed" /\ t \in node.lists

(* A choice to run again reopens what is blocked, once: a restart that finds *)
(* it cited reopens nothing. An answer to departures reopens nothing here.   *)
AfterRetry ==
    /\ at("retry")
    /\ loop' = [loop EXCEPT
            !.pc = "reopen",
            !.todo = IF choice.opt \in {"none", "accept", "send_back"} \/ caused_by
                     THEN {} ELSE stops]
    /\ UNCHANGED <<logged, faults>>

ReopenNext ==
    /\ at("reopen") /\ loop.todo # {}
    /\ LET t == least(loop.todo) IN
        /\ task' = changed(t, "pending", "none", task[t].left /\ keeps_work(t))
        /\ choice' = [choice EXCEPT !.cited = @ \cup {t}]
        /\ loop' = [loop EXCEPT !.todo = @ \ {t}]
    /\ UNCHANGED <<tree, grants, node, seed, faults>>

(* The tasks a limit stopped whose reset has come when the attempt started   *)
(* go on from the work they left, once per attempt.                          *)
AfterReset ==
    /\ at("reopen") /\ loop.todo = {}
    /\ \E due \in IF node.waited THEN {{}} ELSE SUBSET on("limit") :
        loop' = [loop EXCEPT !.pc = "due", !.todo = due]
    /\ UNCHANGED <<logged, faults>>

ReopenDue ==
    /\ at("due") /\ loop.todo # {}
    /\ LET t == least(loop.todo) IN
        /\ task' = changed(t, "pending", "none", task[t].left)
        /\ loop' = [loop EXCEPT !.todo = @ \ {t}]
    /\ node' = [node EXCEPT !.waited = TRUE]
    /\ UNCHANGED <<tree, grants, choice, seed, faults>>

EndReopening ==
    /\ at("due") /\ loop.todo = {}
    /\ go("round")
    /\ UNCHANGED <<logged, faults>>

-----------------------------------------------------------------------------
(* One iteration: a batch, or an idle round when nothing is ready.           *)

(* Mutant: a task an engine left running is nobody's to take up again.     *)
ready_pending(t) == is(t, "pending") /\ \A d \in Deps[t] : is(d, "done")

(* Mutant: dependencies are not asked about.                               *)
ready_unmet(t) == is(t, "pending") \/ is(t, "running")

(* Pending with every dependency done, or left running by an engine that is  *)
(* gone.                                                                     *)
ready(t) ==
    \/ is(t, "pending") /\ \A d \in Deps[t] : is(d, "done")
    \/ is(t, "running")

(* A task joins the batch behind those declared before it, while there is    *)
(* room and none of them might touch what it touches.                        *)
joins(t, batch) ==
    LET chosen == {u \in batch : u < t}
    IN  /\ ready(t) /\ Cardinality(chosen) < Concurrency
        /\ \A u \in chosen : {t, u} \notin Meets

select_batch == CHOOSE batch \in SUBSET Tasks :
                    \A t \in Tasks : t \in batch <=> joins(t, batch)

past_cap == loop.iter > MaxIterations /\ ~loop.lifted

Iterate ==
    /\ at("round")
    /\ loop' = [loop EXCEPT !.pc = "select",
                            !.iter = IF @ > MaxIterations THEN @ ELSE @ + 1]
    /\ UNCHANGED <<logged, faults>>

(* A person lets the loop go on past its cap, for this invocation, or it     *)
(* ends there. The answer is the node's own, so it is the latest decision.   *)
PastCap ==
    /\ at("select") /\ select_batch # {} /\ past_cap
    /\ \/ /\ loop' = [loop EXCEPT !.lifted = TRUE]
          /\ seed' = [opt |-> "other", about |-> {}]
          /\ choice' = NoChoice
          /\ UNCHANGED node
       \/ fail("capped", {})
    /\ UNCHANGED <<task, tree, grants, faults>>

(* Mutant: a batch counts its own grants only.                             *)
seeded_afresh == 0

(* The window of a batch starts from the grants the log holds.               *)
seeded == grants

OpenBatch ==
    /\ at("select") /\ select_batch # {} /\ ~past_cap
    /\ loop' = [loop EXCEPT
            !.pc = "dispatch", !.todo = select_batch, !.window = seeded,
            !.res = Gone.res, !.got = Gone.got, !.fresh = {}]
    /\ UNCHANGED <<logged, faults>>

(* Nothing is ready. A departure no person has answered is put again; else   *)
(* the loop ends: on the scope decisions it owes, on every task done, on the *)
(* account's limit, or on what its tasks stopped on.                         *)
IdleRound ==
    /\ at("select") /\ select_batch = {}
    /\ \/ /\ on("departs") # {}
          /\ loop' = [loop EXCEPT !.pc = "depart", !.departs = on("departs"), !.unanswered = {}]
          /\ UNCHANGED <<node, choice, seed>>
       \/ /\ on("departs") = {} /\ loop.owed # {}
          /\ fail("owed", loop.owed)
       \/ /\ on("departs") = {} /\ loop.owed = {} /\ \A t \in Tasks : is(t, "done")
          /\ node' = [st |-> "done", why |-> "none", lists |-> {}, waited |-> FALSE]
          /\ choice' = NoChoice /\ seed' = NoAnswer /\ loop' = Gone
       \/ /\ on("departs") = {} /\ loop.owed = {} /\ on("limit") # {}
          /\ fail("limit", on("limit"))
       \/ /\ on("departs") = {} /\ loop.owed = {} /\ on("limit") = {}
          /\ \E t \in Tasks : ~is(t, "done")
          /\ fail(IF stops # {} THEN "stopped" ELSE "stalled", stops)
    /\ UNCHANGED <<task, tree, grants, faults>>

-----------------------------------------------------------------------------
(* The members of a batch, each in a checkout of its own.                    *)

working(t) == at("dispatch") /\ t \in loop.todo /\ loop.res[t] = "working"

ended(t, res) == loop' = [loop EXCEPT !.res[t] = res]

(* The unit is open and the task is recorded running, which clears the work  *)
(* it goes on from; a task that left none starts from the batch's base.      *)
Dispatch(t) ==
    /\ at("dispatch") /\ t \in loop.todo /\ loop.res[t] = "none"
    /\ task' = changed(t, "running", "none", FALSE)
    /\ loop' = [loop EXCEPT !.res[t] = "working",
                            !.fresh = IF task[t].left THEN @ ELSE @ \cup {t}]
    /\ UNCHANGED <<tree, grants, node, choice, seed, faults>>

(* Its session declares a departure from the plan, on the log at once.       *)
Declare(t) ==
    /\ working(t) /\ ~task[t].owes /\ ~loop.cancelled
    /\ happens("depart")
    /\ task' = [task EXCEPT ![t].owes = TRUE]
    /\ UNCHANGED <<tree, grants, node, choice, seed, loop>>

(* The engine grants its request: counted in the window all members share,   *)
(* on the log only when the member is settled.                               *)
settle(t) ==
    /\ working(t) /\ loop.window < MaxPerRun /\ ~loop.cancelled
    /\ happens("grant")
    /\ loop' = [loop EXCEPT !.window = @ + 1, !.got[t] = @ + 1]
    /\ UNCHANGED logged

(* The cycle ends. A fresh one whose task's work is in the tree already may  *)
(* find its criteria passing before any session opens.                       *)
EndCycle(t) ==
    /\ working(t)
    /\ \/ ~loop.cancelled /\ ended(t, "done") /\ UNCHANGED faults
       \/ loop.cancelled /\ ended(t, "cut") /\ UNCHANGED faults
       \/ /\ ~loop.cancelled /\ t \in loop.fresh /\ Landed(t)
          /\ ended(t, "precheck") /\ UNCHANGED faults
       \/ \E res \in {"unmet", "scope", "limit", "unstopped"} :
            ~loop.cancelled /\ ended(t, res) /\ happens(res)
    /\ UNCHANGED logged

CloseBatch ==
    /\ at("dispatch") /\ \A t \in loop.todo : loop.res[t] \notin {"none", "working"}
    /\ loop' = [loop EXCEPT !.pc = "walk", !.asking = {}, !.departs = {}, !.unanswered = {}]
    /\ UNCHANGED <<logged, faults>>

-----------------------------------------------------------------------------
(* The walk over the batch, in declaration order.                            *)

member == least(loop.todo)
next_member(l) == [l EXCEPT !.pc = "walk", !.todo = @ \ {member}]

walking == at("walk") /\ loop.todo # {}

(* A session that would not stop fails the node, and an interruption, once   *)
(* its attempts are on the log, pauses the run unless one is still to come;  *)
(* the members from here on keep their status.                               *)
StopWalk ==
    /\ \/ walking /\ loop.res[member] = "unstopped"
       \/ at("settle") /\ loop.res[member] = "cut"
    /\ IF \E t \in loop.todo : loop.res[t] = "unstopped"
       THEN fail("unstopped", {})
       ELSE pause
    /\ UNCHANGED <<task, tree, grants, faults>>

RecordAttempts ==
    /\ walking /\ loop.res[member] # "unstopped"
    /\ grants' = grants + loop.got[member]
    /\ go("settle")
    /\ UNCHANGED <<task, tree, node, choice, seed, faults>>

(* Mutant: work that passed closes its task whatever it departed from.     *)
owed_first_unmet(t) == task[t].owes /\ loop.res[t] = "unmet"

(* A departure the task owes an answer for blocks it, whatever its work came *)
(* to, unless the cycle judged no work or a scope answer is due first.       *)
owed_first(t) == task[t].owes /\ loop.res[t] \in {"done", "unmet"}

(* The member is blocked, with what its attempt left committed on its unit.  *)
SettleBlocked ==
    /\ at("settle")
    /\ LET t     == member
           cause == IF owed_first(t) THEN "departs" ELSE loop.res[t]
       IN  /\ cause \notin {"done", "cut"}
           /\ \E left \in {l \in BOOLEAN : cause = "precheck" => ~l} :
                task' = changed(t, "blocked", cause, left)
           /\ loop' = [next_member(loop) EXCEPT
                    !.asking  = IF cause = "scope" THEN @ \cup {t} ELSE @,
                    !.departs = IF cause = "departs" THEN @ \cup {t} ELSE @]
    /\ UNCHANGED <<tree, grants, node, choice, seed, faults>>

(* Its work is replayed onto the run's tree and judged there again, also     *)
(* where the tree stands as the batch found it: what no longer replays or    *)
(* passes goes back to work on the new tree.                                 *)
Reject ==
    /\ at("settle") /\ loop.res[member] = "done" /\ ~owed_first(member)
    /\ happens("reject")
    /\ task' = changed(member, "pending", "none", FALSE)
    /\ loop' = next_member(loop)
    /\ UNCHANGED <<tree, grants, node, choice, seed>>

JudgeRebased ==
    /\ at("settle") /\ loop.res[member] = "done" /\ ~owed_first(member)
    /\ loop' = [loop EXCEPT !.pc = "land", !.onto = Len(tree)]
    /\ UNCHANGED <<logged, faults>>

(* The run's tree fast-forwards onto the judged work, or refuses: then the   *)
(* engine ends on an error of its own.                                       *)
Land ==
    /\ at("land")
    /\ \/ /\ loop.onto = Len(tree)
          /\ tree' = IF Landed(member) THEN tree ELSE Append(tree, member)
          /\ go("landed")
       \/ loop.onto # Len(tree) /\ loop' = Gone /\ UNCHANGED tree
    /\ UNCHANGED <<task, grants, node, choice, seed, faults>>

RecordDone ==
    /\ at("landed")
    /\ task' = changed(member, "done", "none", FALSE)
    /\ loop' = next_member(loop)
    /\ UNCHANGED <<tree, grants, node, choice, seed, faults>>

EndWalk ==
    /\ at("walk") /\ loop.todo = {}
    /\ go("ask")
    /\ UNCHANGED <<logged, faults>>

-----------------------------------------------------------------------------
(* What the batch owes a person: scope requests, then departures.            *)

(* Nobody there, the request is owed, in memory, once nothing else can run.  *)
AskScope ==
    /\ at("ask") /\ loop.asking # {}
    /\ LET t == least(loop.asking) IN
        \/ go("asked") /\ seed' = [opt |-> "other", about |-> {t}]
        \/ /\ loop' = [loop EXCEPT !.asking = @ \ {t}, !.owed = @ \cup {t}]
           /\ UNCHANGED seed
    /\ UNCHANGED <<task, tree, grants, node, choice, faults>>

ReopenAsked ==
    /\ at("asked")
    /\ LET t == least(loop.asking) IN
        /\ task' = changed(t, "pending", "none", task[t].left)
        /\ loop' = [loop EXCEPT !.pc = "ask", !.asking = @ \ {t}]
    /\ UNCHANGED <<tree, grants, node, choice, seed, faults>>

EndAsking ==
    /\ at("ask") /\ loop.asking = {}
    /\ go("depart")
    /\ UNCHANGED <<logged, faults>>

departing == at("depart") /\ loop.departs # {}

(* An answer the gate holds that nothing consumed and the menu offers        *)
(* settles the departure; otherwise a person is asked. Nobody there, the     *)
(* departure stays owed; an abort pauses the run.                            *)
AskDeparture ==
    /\ departing
    /\ LET t == least(loop.departs) IN
        \/ /\ seed.opt \in {"accept", "send_back"}
           /\ go("resolve") /\ UNCHANGED <<node, choice, seed>>
        \/ /\ seed.opt \notin {"accept", "send_back"}
           /\ \/ \E opt \in {"accept", "send_back"} : seed' = [opt |-> opt, about |-> {t}]
                 /\ go("resolve") /\ UNCHANGED <<node, choice>>
              \/ pause
              \/ /\ loop' = [loop EXCEPT !.departs = @ \ {t}, !.unanswered = @ \cup {t}]
                 /\ UNCHANGED <<node, choice, seed>>
    /\ UNCHANGED <<task, tree, grants, faults>>

ResolveDeparture ==
    /\ at("resolve")
    /\ LET t == least(loop.departs) IN
        /\ task' = [task EXCEPT ![t].owes = FALSE]
        /\ seed' = [seed EXCEPT !.about = @ \ {t}]
    /\ go("resolved")
    /\ UNCHANGED <<tree, grants, node, choice, faults>>

ReopenDeparted ==
    /\ at("resolved")
    /\ LET t == least(loop.departs) IN
        /\ task' = changed(t, "pending", "none", task[t].left)
        /\ loop' = [loop EXCEPT !.pc = "depart", !.departs = @ \ {t}]
    /\ UNCHANGED <<tree, grants, node, choice, seed, faults>>

owing == loop.unanswered

EndDepartures ==
    /\ at("depart") /\ loop.departs = {}
    /\ IF owing = {}
       THEN go("round") /\ UNCHANGED <<node, choice, seed>>
       ELSE fail("stopped", owing)
    /\ UNCHANGED <<task, tree, grants, faults>>

-----------------------------------------------------------------------------
(* What the engine does not choose.                                          *)

Cancel ==
    /\ at("dispatch") /\ ~loop.cancelled
    /\ happens("cancel")
    /\ loop' = [loop EXCEPT !.cancelled = TRUE]
    /\ UNCHANGED logged

Crash ==
    /\ up
    /\ happens("crash")
    /\ loop' = Gone
    /\ UNCHANGED logged

(* Another node the scheduler runs at the same time moves the run's tree.    *)
OtherLands ==
    /\ up /\ ~Landed(0)
    /\ happens("beside")
    /\ tree' = Append(tree, 0)
    /\ UNCHANGED <<task, grants, node, choice, seed, loop>>

Step ==
    \/ AfterRetry \/ ReopenNext \/ AfterReset \/ ReopenDue \/ EndReopening
    \/ Iterate \/ PastCap \/ OpenBatch \/ IdleRound
    \/ \E t \in Tasks : Dispatch(t) \/ Declare(t) \/ settle(t) \/ EndCycle(t)
    \/ CloseBatch \/ StopWalk \/ RecordAttempts \/ SettleBlocked
    \/ Reject \/ JudgeRebased \/ Land \/ RecordDone \/ EndWalk
    \/ AskScope \/ ReopenAsked \/ EndAsking
    \/ AskDeparture \/ ResolveDeparture \/ ReopenDeparted \/ EndDepartures

Next == Step \/ Decide \/ Start \/ Cancel \/ Crash \/ OtherLands

Spec == Init /\ [][Next]_vars

(* Nothing waits for ever inside an invocation: every session has its        *)
(* timeout, and a person who is not there is an answer too.                  *)
FairSpec == Spec /\ WF_vars(Step)

-----------------------------------------------------------------------------
(* The shape of the state. A task names why it stopped exactly while it is   *)
(* blocked, which is what a resume reads from the log.                       *)
TypeOK ==
    /\ \A t \in Tasks :
        /\ task[t].st \in {"pending", "running", "blocked", "done"}
        /\ task[t].stop \in {"unmet", "scope", "limit", "precheck", "departs"} <=> is(t, "blocked")
        /\ task[t].left \in BOOLEAN /\ task[t].owes \in BOOLEAN
    /\ Range(tree) \subseteq Tasks \cup {0} /\ IsInjective(tree)
    /\ grants \in Nat /\ faults \in 0..MaxFaults
    /\ node.st \in {"ready", "open", "failed", "done"} /\ node.lists \subseteq Tasks
    /\ choice.opt \in {"none", "retry", "continue_work", "grant", "deny", "accept", "send_back"}
    /\ choice.cited \subseteq Tasks /\ seed.about \subseteq Tasks
    /\ up => node.st = "open"

(* A task recorded done has its work in the run's tree, and everything it    *)
(* depends on landed there before it, whichever engine recorded it and       *)
(* wherever the one before it died.                                          *)
DoneHasLanded ==
    \A t \in Tasks : is(t, "done") =>
        \E i \in DOMAIN tree :
            /\ tree[i] = t
            /\ \A d \in Deps[t] : \E j \in 1..i : tree[j] = d

(* No task closes on a departure from the plan nobody answered.              *)
OwedNeverDone == \A t \in Tasks : is(t, "done") => ~task[t].owes

(* The engine's own grants on the log never pass the cap, however many       *)
(* members of a batch ask at once and however many batches and engines.      *)
CapHolds == grants <= MaxPerRun

(* A decision to run again reopens a task once: what the attempt it started  *)
(* blocks in turn waits for another.                                         *)
DecisionActsOnce ==
    [][\A t \in Tasks :
        at("reopen") /\ is(t, "blocked") /\ task[t].stop # "limit" /\ task'[t].st = "pending"
            => t \notin choice.cited]_vars

(* Every invocation ends: the loop closes, fails naming what it waits for,   *)
(* or leaves its node to a later wake. It never ends saying that nothing is  *)
(* ready with no stop to name, whatever an engine that died left behind.     *)
InvocationEnds == up ~> ~up /\ node.why # "stalled"

(* A departure is settled by an answer to a question that was about it.      *)
DepartureWasAsked ==
    [][\A t \in Tasks : task[t].owes /\ ~task'[t].owes => t \in seed.about]_vars

(* A loop that ends on stopped tasks owes nobody a scope decision: that is   *)
(* what it ends on first.                                                    *)
OwedIsPut == node.st = "failed" /\ node.why = "stopped" => on("scope") = {}

(* Between the replay that judged a task's work and the landing, the run's   *)
(* tree stands still.                                                        *)
LandsWhereJudged == at("land") => loop.onto = Len(tree)
=============================================================================
