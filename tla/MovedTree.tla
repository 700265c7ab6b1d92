----------------------------- MODULE MovedTree -----------------------------
(***************************************************************************)
(* What an invariant's pass is worth while the run's tree moves under it   *)
(* (crates/engine/src/run/schedule/reverify.rs, run/shared_tree.rs,        *)
(* core/src/events/node/ledger.rs).                                        *)
(*                                                                         *)
(* Nodes that write and invariants that judge what is written work at once *)
(* on one tree.  The engine knows the tree only by what the log names: the *)
(* tree a start was taken from, the tree a close left, the tree a wake     *)
(* found.  From these it decides which pass no longer speaks for the tree. *)
(*                                                                         *)
(* A tree is how many changes each writer and the person (0) made to it,   *)
(* and the invariant that rewrote it last, as a formatter does: two trees  *)
(* are equal when their contents are.  A change is never taken back.  A    *)
(* record that may name no tree holds a set of at most one.  Of the seqs   *)
(* the record of a node keeps what they are compared for: who closed since *)
(* it started, whether a tree was recorded since it finished, whether it   *)
(* was sent to its correction since it failed.                             *)
(***************************************************************************)
EXTENDS Integers, FiniteSets

CONSTANTS
    N,            \* the nodes are 1..N, in declaration order
    Deps,         \* Deps[n]: the nodes n waits for
    Judges,       \* the bash or tree-judging check nodes marked invariant
    Rewriters,    \* the invariants that may rewrite the tree
    Own,          \* the audited nodes: they work in a checkout of their own
    Goto,         \* Goto[n]: the correction of n's failure, or 0
    MaxParallel,
    Perils,       \* what the code does not stand: "cut", "late", "unseen"
    MaxChanges,   \* bound: the changes one writer makes
    MaxSetbacks,  \* bound: failures, engines that die, edits of the person
    MaxParks      \* bound: times a failure is left to a later wake

Nodes == 1..N
Writers == Nodes \ Judges
Corrections == {Goto[n] : n \in Nodes} \ {0}

ASSUME TreeAssumption ==
    /\ {N, MaxParallel, MaxChanges} \subseteq Nat \ {0}
    /\ {MaxSetbacks, MaxParks} \subseteq Nat
    /\ Rewriters \subseteq Judges /\ Judges \subseteq Nodes
    /\ Own \subseteq Writers
    /\ Deps \in [Nodes -> SUBSET (Nodes \ Corrections)]
    /\ Goto \in [Nodes -> Writers \cup {0}]
    /\ \A n \in Corrections : Deps[n] = {} /\ Goto[n] = 0
    /\ Perils \subseteq {"cut", "late", "unseen"}

VARIABLES
    tree,    \* the content of the run's tree
    log,     \* what the log folds to: the record of each node, the newest tree
    eng,     \* "up", "down" or "done"
    work,    \* work[n]: where this invocation's attempt at n stands
    read,    \* history: the changes of the tree when invariant n last started
    rounds,  \* history: runs again of invariants since a wake or another decision
    setbacks, parks

vars == <<tree, log, eng, work, read, rounds, setbacks, parks>>

Untouched == [changes |-> [n \in 0..N |-> 0], form |-> 0]
Trees == [changes : [0..N -> 0..MaxChanges + MaxSetbacks], form : Rewriters \cup {0}]
NoTree == {}

Idle == [pc |-> "idle", tree |-> NoTree, verdict |-> "none"]
Unborn == [state |-> "none", from |-> NoTree, left |-> NoTree, beside |-> {},
           moved |-> FALSE, behind |-> FALSE, sent |-> "no"]

Init ==
    /\ tree = Untouched
    /\ log = [node |-> [n \in Nodes |-> Unborn], newest |-> NoTree]
    /\ eng = "up"
    /\ work = [n \in Nodes |-> Idle]
    /\ read = [n \in Judges |-> Untouched.changes]
    /\ rounds = 0 /\ setbacks = 0 /\ parks = 0

Setback == setbacks < MaxSetbacks /\ setbacks' = setbacks + 1

-----------------------------------------------------------------------------
(* Replay: ledger.rs, ledger/spend.rs *)

In(L, state) == {n \in Nodes : L.node[n].state = state}

\* Mutant: the tree recorded before stays beside the newest.
names_beside(L, named) ==
    [node |-> [n \in Nodes |->
                 [L.node[n] EXCEPT !.behind = @ \/ L.node[n].state = "finished"]],
     newest |-> L.newest \cup named]

\* A record that names the tree `named`: it is the newest, and whatever
\* finished did so before it.
names(L, named) ==
    IF named = NoTree THEN L
    ELSE [node |-> [n \in Nodes |->
                      [L.node[n] EXCEPT !.behind = @ \/ L.node[n].state = "finished"]],
          newest |-> named]

started(L, n, from) ==
    [names(L, from) EXCEPT
        !.node[n] = [@ EXCEPT !.state = "running", !.from = from, !.beside = {},
                              !.moved = FALSE, !.sent = "no"]]

\* Mutant: an attempt that closed before the writer did is not marked.
moved_beside_open(L, n, left) ==
    IF left = NoTree \/ L.node[n].from = left THEN {}
    ELSE {m \in In(L, "running") \ {n} : L.node[m].from # left}

\* The attempts that ran beside n's, when n's close left another tree than
\* its start was taken from; one taken from what n left saw the change.
moved_beside(L, n, left) ==
    IF left = NoTree \/ L.node[n].from = left THEN {}
    ELSE {m \in (In(L, "running") \ {n}) \cup L.node[n].beside : L.node[m].from # left}

\* Mutant: an invariant's own close is a record of the run's tree too.
counts_every_close(n) == n \in Nodes

\* An invariant's own close is no record of the run's tree (newest_tree).
counts_close(n) == n \in Writers

ended(r, verdict, left) ==
    [r EXCEPT !.state = verdict, !.behind = FALSE, !.beside = {},
              !.left = IF verdict = "finished" THEN left ELSE @]

closed(L, n, verdict, left) ==
    LET told == IF counts_close(n) THEN names(L, left) ELSE L
        other(m) == [told.node[m] EXCEPT
                       !.moved = @ \/ m \in moved_beside(L, n, left),
                       !.beside = IF told.node[m].state = "running" THEN @ \cup {n} ELSE @,
                       !.sent = IF @ = "sent" /\ Goto[m] = n /\ verdict = "finished"
                                THEN "corrected" ELSE @]
    IN  [told EXCEPT !.node = [m \in Nodes |->
            IF m = n THEN ended(L.node[n], verdict, left) ELSE other(m)]]

-----------------------------------------------------------------------------
(* The scheduler: schedule.rs decide, reverify.rs, failure.rs, ready.rs *)

First(ns) == CHOOSE n \in ns : \A m \in ns : n <= m

\* The invariants whose pass no longer speaks for the run's tree.
stale(L) ==
    {n \in Judges \cap In(L, "finished") :
        \/ L.node[n].moved
        \/ L.node[n].behind /\ L.node[n].left # NoTree /\ L.node[n].left # L.newest}

Decision(do, nodes) == [do |-> do, nodes |-> nodes]

\* A failure with a correction is sent to it once, then run again; any other
\* waits on a person.
failure_of(L, n) ==
    LET sent == L.node[n].sent
        to == Goto[n]
    IN  CASE sent = "corrected" -> Decision("Execute", {n})
          [] sent = "sent" /\ to \in In(L, "failed") -> Decision("None", {})
          [] sent = "sent" /\ to \notin In(L, "failed") -> Decision("Execute", {to})
          [] sent = "no" /\ to # 0 -> Decision("Reroute", {n})
          [] OTHER -> Decision("EscalateFailure", {n})

ready(L) ==
    {n \in In(L, "none") \ Corrections : Deps[n] \subseteq In(L, "finished")}

ready_nodes(L) == {n \in ready(L) : Cardinality({m \in ready(L) : m < n}) < MaxParallel}

\* Orphans, a failure, what has to be judged again, what is ready, in this
\* order.  Nothing is stuck: a run parks over a failure only.
decide(L) ==
    LET open == {n \in In(L, "failed") : failure_of(L, n).do # "None"}
    IN  IF In(L, "running") # {} THEN Decision("Execute", In(L, "running"))
        ELSE IF open # {} THEN failure_of(L, First(open))
        ELSE IF stale(L) # {} THEN Decision("Reverify", {First(stale(L))})
        ELSE IF ready(L) # {} THEN Decision("Fresh", ready_nodes(L))
        ELSE Decision("Finish", {})

-----------------------------------------------------------------------------
(* The engine's loop *)

Landed == \A n \in Nodes : work[n].pc = "idle"
Deciding == eng = "up" /\ Landed

execute(nodes) ==
    /\ work' = [n \in Nodes |-> IF n \in nodes THEN [Idle EXCEPT !.pc = "due"] ELSE Idle]
    /\ UNCHANGED <<tree, log, eng, read, setbacks, parks>>

Executes ==
    /\ Deciding
    /\ decide(log).do \in {"Execute", "Reverify", "Fresh"}
    /\ rounds' = IF decide(log).do = "Reverify" THEN rounds + 1 ELSE 0
    /\ execute(decide(log).nodes)

Reroutes ==
    /\ Deciding
    /\ decide(log).do = "Reroute"
    /\ \E n \in decide(log).nodes : log' = [log EXCEPT !.node[n].sent = "sent"]
    /\ UNCHANGED <<tree, eng, work, read, rounds, setbacks, parks>>

\* A person has the failed node run again.
Retries ==
    /\ Deciding
    /\ decide(log).do = "EscalateFailure"
    /\ rounds' = 0
    /\ execute(decide(log).nodes)

\* Nobody answers: the run parks over the failure.
Parks ==
    /\ Deciding
    /\ decide(log).do = "EscalateFailure"
    /\ parks < MaxParks
    /\ parks' = parks + 1
    /\ eng' = "down"
    /\ UNCHANGED <<tree, log, work, read, rounds, setbacks>>

Finishes ==
    /\ Deciding
    /\ decide(log).do = "Finish"
    /\ eng' = "done"
    /\ UNCHANGED <<tree, log, work, read, rounds, setbacks, parks>>

\* A wake records the tree it finds when a node's failure waits.
Wake ==
    /\ eng = "down"
    /\ eng' = "up"
    /\ log' = names(log, IF In(log, "failed") # {} THEN {tree} ELSE NoTree)
    /\ rounds' = 0
    /\ UNCHANGED <<tree, work, read, setbacks, parks>>

-----------------------------------------------------------------------------
(* Nodes at work: node_exec.rs, node_start.rs, shared_tree.rs, node_close.rs *)

Changed(n) == [tree EXCEPT !.changes[n] = @ + 1]

\* The checkout of an audited node opens on a snapshot of the run's tree.
Opens(n) ==
    /\ n \in Own /\ work[n].pc = "due"
    /\ work' = [work EXCEPT ![n] = [Idle EXCEPT !.pc = "opened", !.tree = {tree}]]
    /\ UNCHANGED <<tree, log, eng, read, rounds, setbacks, parks>>

\* A writer's close that read another tree is still to be recorded.
Overtakes(named) ==
    \E m \in Writers : work[m].pc = "closing" /\ work[m].tree \notin {NoTree, named}

\* Reading the tree and recording the start are one step under the landing
\* lock; an audited node's start names the snapshot.
Starts(n) ==
    /\ work[n].pc = (IF n \in Own THEN "opened" ELSE "due")
    /\ LET from == IF n \in Own THEN work[n].tree ELSE {tree}
       IN  /\ Overtakes(from) => "late" \in Perils
           /\ log' = started(log, n, from)
    /\ work' = [work EXCEPT ![n] = [Idle EXCEPT !.pc = "working"]]
    /\ read' = IF n \in Judges THEN [read EXCEPT ![n] = tree.changes] ELSE read
    /\ UNCHANGED <<tree, eng, rounds, setbacks, parks>>

Writes(n) ==
    /\ n \in Writers \ Own /\ work[n].pc = "working"
    /\ tree.changes[n] < MaxChanges
    /\ tree' = Changed(n)
    /\ UNCHANGED <<log, eng, work, read, rounds, setbacks, parks>>

Rewrites(n) ==
    /\ n \in Rewriters /\ work[n].pc = "working"
    /\ tree.form # n
    /\ tree' = [tree EXCEPT !.form = n]
    /\ UNCHANGED <<log, eng, work, read, rounds, setbacks, parks>>

\* land_unit: the unit's work is replayed on the tree as it is by now.
Lands(n) ==
    /\ n \in Own /\ work[n].pc = "working"
    /\ work' = [work EXCEPT ![n].pc = "landed"]
    /\ \/ tree.changes[n] < MaxChanges /\ tree' = Changed(n)
       \/ UNCHANGED tree
    /\ UNCHANGED <<log, eng, read, rounds, setbacks, parks>>

\* An attempt that ended: an audited node finishes only with its work landed.
Ended(n, verdict) ==
    \/ work[n].pc = (IF n \in Own THEN "landed" ELSE "working")
    \/ work[n].pc = "working" /\ verdict = "failed"

\* An invariant passed beside a writer that is still open.
PassBeside == \E n \in In(log, "running") \cap Writers : log.node[n].beside \cap Judges # {}

\* The close reads the run's tree; the event that names it comes after.
Captures(n) ==
    /\ \E verdict \in {"finished", "failed"} :
          /\ Ended(n, verdict)
          /\ n \in Writers /\ Overtakes({tree}) => "late" \in Perils
          /\ IF verdict = "failed" THEN Setback ELSE UNCHANGED setbacks
          /\ work' = [work EXCEPT ![n] = [pc |-> "closing", tree |-> {tree}, verdict |-> verdict]]
    /\ UNCHANGED <<tree, log, eng, read, rounds, parks>>

\* fail_unstopped: a session that could not be stopped; nothing is read.
FailsUnstopped(n) ==
    /\ n \in Writers /\ work[n].pc = "working"
    /\ PassBeside \/ (\E v \in Judges : work[v].pc \in {"working", "closing"})
          => "cut" \in Perils
    /\ Setback
    /\ work' = [work EXCEPT ![n] = [Idle EXCEPT !.pc = "closing", !.verdict = "failed"]]
    /\ UNCHANGED <<tree, log, eng, read, rounds, parks>>

Closes(n) ==
    /\ work[n].pc = "closing"
    /\ log' = closed(log, n, work[n].verdict, work[n].tree)
    /\ work' = [work EXCEPT ![n] = Idle]
    /\ UNCHANGED <<tree, eng, read, rounds, setbacks, parks>>

\* The engine dies, or a cancellation cuts what is at work.
Cut ==
    /\ eng = "up"
    /\ PassBeside => "cut" \in Perils
    /\ Setback
    /\ eng' = "down"
    /\ work' = [n \in Nodes |-> Idle]
    /\ UNCHANGED <<tree, log, read, rounds, parks>>

\* A person edits the tree while nothing works in it and a failure waits on
\* them, at the terminal or over a parked run.
PersonEdits ==
    /\ eng # "done" /\ Landed
    /\ IF eng = "up" THEN decide(log).do = "EscalateFailure"
       ELSE In(log, "failed") # {} \/ "unseen" \in Perils
    /\ Setback
    /\ tree' = Changed(0)
    /\ UNCHANGED <<log, eng, work, read, rounds, parks>>

Next ==
    \/ Executes \/ Reroutes \/ Retries \/ Parks \/ Finishes \/ Wake \/ Cut \/ PersonEdits
    \/ \E n \in Nodes :
          \/ Opens(n) \/ Starts(n) \/ Writes(n) \/ Rewrites(n) \/ Lands(n)
          \/ Captures(n) \/ FailsUnstopped(n) \/ Closes(n)

Spec == Init /\ [][Next]_vars

-----------------------------------------------------------------------------
(* Properties *)

States == {"none", "running", "finished", "failed"}

AtMostOne(trees) == trees \subseteq Trees /\ Cardinality(trees) <= 1

\* Every record names one tree or none, and every node stands at a step of
\* its attempt.
TypeOK ==
    /\ tree \in Trees
    /\ \A n \in Nodes :
          LET r == log.node[n] IN
          /\ r.state \in States /\ r.sent \in {"no", "sent", "corrected"}
          /\ r.moved \in BOOLEAN /\ r.behind \in BOOLEAN
          /\ r.beside \subseteq Nodes \ {n}
          /\ AtMostOne(r.from) /\ AtMostOne(r.left)
          /\ work[n].pc \in {"idle", "due", "opened", "working", "landed", "closing"}
          /\ AtMostOne(work[n].tree)
    /\ AtMostOne(log.newest)
    /\ eng \in {"up", "down", "done"}
    /\ setbacks \in 0..MaxSetbacks /\ parks \in 0..MaxParks

\* Before anything else starts or the run finishes, every invariant that
\* passed did so on exactly the changes the tree holds, and on them the
\* whole time it worked (reverify.rs).
PassHolds ==
    Deciding /\ decide(log).do \in {"Fresh", "Finish"} =>
        \A v \in Judges \cap In(log, "finished") : read[v] = tree.changes

\* Two invariants that rewrite the tree never send each other round: since
\* the wake or the last other decision they ran again twice each at most,
\* where a round without end passes any bound (reverify.rs).
NeverSentRound == rounds <= 2 * Cardinality(Judges)
=============================================================================
