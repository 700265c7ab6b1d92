------------------------------ MODULE FileLock ------------------------------
(***************************************************************************)
(* The lock file of crates/engine/src/lock.rs: one file whose content is   *)
(* the record of its holder, taken by an atomic create_new, replaced when  *)
(* the host's process table says that the holder is gone, released by its  *)
(* holder, and handed on to a detached child.  There are three kinds:      *)
(*   "none"      the checkout of a run with isolation `none`: a second run *)
(*               is refused, and the holder may hand it to a detached child*)
(*   "pool"      a slot of the checkout pool: kept while the agents of a   *)
(*               gone holder work there, refused or waited for             *)
(*   "mutation"  the changes of a repository's worktrees: waited for       *)
(*                                                                         *)
(* A process is a pid and the time it started; a pid is reused by a later  *)
(* process.  Every await of `acquire` is a step of its own: the file may   *)
(* change between the failed create_new and the read, between the read and *)
(* the probe, and between the probe and the removal.                       *)
(***************************************************************************)
EXTENDS Integers, FiniteSets

CONSTANTS
    Pids,           \* process ids
    NULL,           \* no record, no file
    Kinds,          \* the kinds of lock
    Perils,         \* "stale": an acquire may judge gone a record the file no
                    \* longer holds, or one that another is about to remove;
                    \* "launcher": a launcher may die between spawning its child
                    \* and naming it in the file, or fail to end that child
    MaxStart,       \* bound: the processes started
    MaxExits        \* bound: the processes that exit or are killed

ASSUME FileLockAssumption ==
    /\ Kinds \subseteq {"none", "pool", "mutation"}
    /\ Perils \subseteq {"stale", "launcher"}
    /\ MaxStart \in Nat /\ MaxExits \in Nat
    /\ NULL \notin Pids /\ NULL \notin [pid : Pids, started_at : 1..MaxStart]

VARIABLES
    kind,    \* the kind of this lock
    file,    \* the record in the lock file, or NULL: no file
    proc,    \* proc[p]: the process with pid p
    agents,  \* the gone holders whose agents still work
    started, \* how many processes have started: the time of the next start
    exits    \* how many processes have gone

vars == <<kind, file, proc, agents, started, exits>>

LockOwner == [pid : Pids, started_at : 1..MaxStart]

\* Where a process stands.  "out": it has nothing to do with the lock.
\* "creating", "reading", "probing", "removing", "waiting": inside `acquire`.
\* "held": it took the lock.  "handing": it took the lock and spawned the
\* child that works under it.  "works": that child.  "releasing": `release`
\* has read the file and found the process's own record.  "undoing": a launcher
\* that could not name its child has ended it and releases the lock.
Acquiring == {"creating", "reading", "probing", "removing", "waiting"}

Places == Acquiring \cup {"out", "held", "handing", "works", "releasing",
                        "undoing"}

Out == [start |-> 0, at |-> "out", saw |-> NULL, waits |-> FALSE,
        expired |-> FALSE, child |-> NULL]

\* Mutant: the record is stamped by a run's clock, which stands still.
this_process_by_clock(p) == [pid |-> p, started_at |-> 0]

\* The record a process writes: its pid, and when the process table says it
\* started (taken_at).
this_process(p) == [pid |-> p, started_at |-> proc[p].start]

Alive(p) == proc[p].start > 0

Contenders == {p \in Pids : proc[p].at \in Acquiring}

\* The truth the probe approximates: the process that wrote the record runs.
Present(owner) == proc[owner.pid].start = owner.started_at

\* What the probe may say.  Its answer is "unknown" where the host refuses to
\* tell, and a reused pid reads as alive where the host has no start times.
holder_state(owner) ==
    IF ~Alive(owner.pid) THEN {"dead", "unknown"}
    ELSE IF proc[owner.pid].start > owner.started_at
         THEN {"dead", "alive", "unknown"}
         ELSE {"alive", "unknown"}

\* A gone holder's lock is kept while the agents it left work: the registry
\* of the run that held it last is asked (pool/slot.rs).
keep(owner) == kind = "pool" /\ agents # {}

Go(p, at) == proc' = [proc EXCEPT ![p].at = at]

Leave(p) == proc' = [proc EXCEPT ![p] = [Out EXCEPT !.start = proc[p].start]]

-----------------------------------------------------------------------------
(* The host: processes start, reusing pids, and go. *)

StartProcess(p) ==
    /\ ~Alive(p)
    /\ started < MaxStart
    /\ started' = started + 1
    /\ proc' = [proc EXCEPT ![p] = [Out EXCEPT !.start = started + 1]]
    /\ UNCHANGED <<kind, file, agents, exits>>

\* A process exits or is killed; the agents it spawned may outlive it.
ProcessGone(p, agentsSurvive) ==
    /\ Alive(p)
    /\ exits < MaxExits
    /\ "launcher" \in Perils \/ proc[p].at # "handing"
    /\ exits' = exits + 1
    /\ proc' = [proc EXCEPT ![p] = Out]
    /\ agentsSurvive => proc[p].at \in {"held", "works"}
    /\ agents' = IF agentsSurvive THEN agents \cup {this_process(p)} ELSE agents
    /\ UNCHANGED <<kind, file, started>>

AgentsGone(owner) ==
    /\ owner \in agents
    /\ agents' = agents \ {owner}
    /\ UNCHANGED <<kind, file, proc, started, exits>>

-----------------------------------------------------------------------------
(* acquire *)

\* Called with Contention::Wait (waits) or Contention::Refuse.
Acquire(p, waits) ==
    /\ Alive(p) /\ proc[p].at = "out"
    /\ kind = "none" => ~waits
    /\ kind = "mutation" => waits
    /\ proc' = [proc EXCEPT ![p].at = "creating", ![p].waits = waits]
    /\ UNCHANGED <<kind, file, agents, started, exits>>

\* Mutant: the record is written over whatever file there is.
CreateRecordOver(p) ==
    /\ proc[p].at = "creating"
    /\ file' = this_process(p)
    /\ proc' = [proc EXCEPT ![p] = [Out EXCEPT !.start = proc[p].start,
                                               !.at = "held"]]
    /\ UNCHANGED <<kind, agents, started, exits>>

\* create_record: create_new writes the whole record or finds a file.
CreateRecord(p) ==
    /\ proc[p].at = "creating"
    /\ \/ /\ file = NULL
          /\ file' = this_process(p)
          /\ proc' = [proc EXCEPT ![p] = [Out EXCEPT !.start = proc[p].start,
                                                     !.at = "held"]]
       \/ /\ file # NULL
          /\ Go(p, "reading")
          /\ UNCHANGED file
    /\ UNCHANGED <<kind, agents, started, exits>>

ReadHolder(p) ==
    /\ proc[p].at = "reading"
    /\ proc' = [proc EXCEPT ![p].saw = file, ![p].at = "probing"]
    /\ UNCHANGED <<kind, file, agents, started, exits>>

\* The file still holds the record judged, and nobody else is about to remove it.
Unmoved(p) == file = proc[p].saw /\ \A q \in Pids : proc[q].at # "removing"

\* A gone holder: kept while its agents work, its file removed otherwise.
FoundGone(p) ==
    /\ proc[p].at = "probing"
    /\ proc[p].saw # NULL
    /\ "dead" \in holder_state(proc[p].saw)
    /\ "stale" \in Perils \/ Unmoved(p)
    /\ IF keep(proc[p].saw) THEN Leave(p) ELSE Go(p, "removing")
    /\ UNCHANGED <<kind, file, agents, started, exits>>

\* Mutant: a waiter waits whether its patience has run out or not.
FoundPresentForever(p) ==
    /\ proc[p].at = "probing"
    /\ proc[p].saw # NULL =>
          holder_state(proc[p].saw) \cap {"alive", "unknown"} # {}
    /\ IF proc[p].waits THEN Go(p, "waiting") ELSE Leave(p)
    /\ UNCHANGED <<kind, file, agents, started, exits>>

\* A holder that is alive or unknown, or no readable record: present.  It is
\* refused, waited on, or given up on once the patience has run out.
FoundPresent(p) ==
    /\ proc[p].at = "probing"
    /\ proc[p].saw # NULL =>
          holder_state(proc[p].saw) \cap {"alive", "unknown"} # {}
    /\ IF proc[p].waits /\ ~proc[p].expired THEN Go(p, "waiting") ELSE Leave(p)
    /\ UNCHANGED <<kind, file, agents, started, exits>>

\* remove_stale removes the file by its name, whatever record it holds now.
RemoveStale(p) ==
    /\ proc[p].at = "removing"
    /\ file' = NULL
    /\ Go(p, "creating")
    /\ UNCHANGED <<kind, agents, started, exits>>

\* pause: one poll, or the cancellation of the wait.
PollAgain(p) ==
    /\ proc[p].at = "waiting"
    /\ Go(p, "creating")
    /\ UNCHANGED <<kind, file, agents, started, exits>>

CancelWait(p) ==
    /\ proc[p].at = "waiting"
    /\ Leave(p)
    /\ UNCHANGED <<kind, file, agents, started, exits>>

\* The deadline passes, wherever the acquire stands.
PatienceRunsOut(p) ==
    /\ proc[p].at \in Acquiring
    /\ proc[p].waits /\ ~proc[p].expired
    /\ proc' = [proc EXCEPT ![p].expired = TRUE]
    /\ UNCHANGED <<kind, file, agents, started, exits>>

-----------------------------------------------------------------------------
(* hand_over and release *)

\* `run --detach` spawns the child that works under its lock ...
SpawnChild(p, c) ==
    /\ kind = "none" /\ proc[p].at = "held"
    /\ ~Alive(c)
    /\ started < MaxStart
    /\ started' = started + 1
    /\ proc' = [proc EXCEPT ![p].at = "handing", ![p].child = c,
                            ![c] = [Out EXCEPT !.start = started + 1,
                                               !.at = "works"]]
    /\ UNCHANGED <<kind, file, agents, exits>>

\* ... and writes the child's record over its own.  A child that has gone
\* already is recorded with the clock's time, which no later process has.
HandOver(p) ==
    /\ proc[p].at = "handing"
    /\ LET c == proc[p].child
       IN  file' = [pid |-> c,
                    started_at |-> IF Alive(c) THEN proc[c].start ELSE started]
    /\ Leave(p)
    /\ UNCHANGED <<kind, agents, started, exits>>

\* hand_off: the child's record could not be written.  The child is ended, which
\* may be refused, before the launcher releases what the file says is its own.
HandOffFails(p) ==
    /\ proc[p].at = "handing"
    /\ exits < MaxExits
    /\ exits' = exits + 1
    /\ LET undoing == [proc EXCEPT ![p].at = "undoing"]
       IN  proc' \in {[undoing EXCEPT ![proc[p].child] = Out]}
                       \cup (IF "launcher" \in Perils THEN {undoing} ELSE {})
    /\ UNCHANGED <<kind, file, agents, started>>

\* Mutant: release removes whatever file it finds.
ReleaseUnread(p) ==
    /\ proc[p].at \in {"held", "works"}
    /\ Go(p, "releasing")
    /\ UNCHANGED <<kind, file, agents, started, exits>>

\* release reads the file and leaves a record that is not its own alone.
ReleaseReads(p) ==
    /\ proc[p].at \in {"held", "works"}
    /\ IF file = this_process(p) THEN Go(p, "releasing") ELSE Leave(p)
    /\ UNCHANGED <<kind, file, agents, started, exits>>

ReleaseRemoves(p) ==
    /\ proc[p].at \in {"releasing", "undoing"}
    /\ file' = IF proc[p].at = "undoing" /\ file # this_process(p) THEN file ELSE NULL
    /\ Leave(p)
    /\ UNCHANGED <<kind, agents, started, exits>>

-----------------------------------------------------------------------------
Init ==
    /\ kind \in Kinds
    /\ file = NULL
    /\ proc = [p \in Pids |-> Out]
    /\ agents = {}
    /\ started = 0
    /\ exits = 0

\* What a process inside `acquire`, `hand_over` or `release` does next.
Step(p) ==
    \/ CreateRecord(p) \/ ReadHolder(p) \/ FoundGone(p) \/ FoundPresent(p)
    \/ RemoveStale(p) \/ PollAgain(p) \/ HandOver(p) \/ ReleaseRemoves(p)

Next ==
    \/ \E p \in Pids :
          \/ Step(p)
          \/ StartProcess(p)
          \/ \E survive \in BOOLEAN : ProcessGone(p, survive)
          \/ \E waits \in BOOLEAN : Acquire(p, waits)
          \/ CancelWait(p) \/ PatienceRunsOut(p) \/ ReleaseReads(p)
          \/ HandOffFails(p) \/ \E c \in Pids : SpawnChild(p, c)
    \/ \E owner \in agents : AgentsGone(owner)

\* A process the host keeps running makes progress, and time passes.
Fairness ==
    \A p \in Pids : WF_vars(Step(p)) /\ WF_vars(PatienceRunsOut(p))

Spec == Init /\ [][Next]_vars /\ Fairness

-----------------------------------------------------------------------------
TypeOK ==
    /\ kind \in Kinds
    /\ file \in LockOwner \cup {NULL}
    /\ proc \in [Pids -> [start : 0..MaxStart, at : Places,
                          saw : LockOwner \cup {NULL}, waits : BOOLEAN,
                          expired : BOOLEAN, child : Pids \cup {NULL}]]
    /\ agents \subseteq LockOwner
    /\ started \in 0..MaxStart
    /\ exits \in 0..MaxExits

\* The processes that believe the lock is theirs to work under.  A launcher
\* that has spawned its child leaves the work to it.
Holders == {p \in Pids : proc[p].at \in {"held", "works", "releasing"}}

\* Never two processes under one lock, whatever pids are reused and however
\* acquire, hand_over and release interleave with processes going away.  With
\* "stale" or "launcher" it fails.
MutualExclusion == Cardinality(Holders) <= 1

\* While the agents of a gone holder work in the checkout, nobody else takes
\* the lock: acquire asks `keep` before it touches the file.
AgentsKeepTheLock == kind = "pool" /\ agents # {} => Holders = {}

\* The file that names a process at work under the lock stays as it is until
\* that process gives the lock up or goes: no stealer, no other's release and
\* no hand-over takes a working holder's file away, where what a stealer judged
\* is what the file still holds.
HolderKeepsFile ==
    [][(/\ file # NULL
        /\ Present(file)
        /\ proc[file.pid].at \in {"held", "works"}) => file' = file]_vars

\* The lock as its users see it.  Nobody under it is nobody in the file's
\* words: between a gone holder and the next one the file still stands.
Holder == IF Holders = {} THEN NULL ELSE CHOOSE p \in Holders : TRUE

AgentsWork == kind = "pool" /\ agents # {}

L == INSTANCE Lock WITH
    Processes <- Pids,
    Nobody    <- NULL,
    holder    <- Holder,
    asking    <- Contenders,
    guarded   <- AgentsWork

\* The steps of acquire, hand_over and release, with everything that may
\* happen between them, are steps of a lock: it is taken only when it is free,
\* passed only by its holder, dropped only by it or with it, and an acquire
\* ends taken, refused, timed out or cancelled: stealing does not loop and a
\* wait does not outlive its patience.
ImplementsLock == L!Spec
=============================================================================
