------------------------ MODULE ProcessRegistryProofs ------------------------
(***************************************************************************)
(* Proofs about the process registry: its type, that the file names what   *)
(* runs and that `cancel` spares what an engine holds, for any groups,     *)
(* sessions, faults and bounds, where no run wakes while a caller is at    *)
(* work on what it read (Perils = {}).                                     *)
(***************************************************************************)
EXTENDS ProcessRegistry, TLAPS

\* Where a caller settles an engine.
Settling == {"settle", "record", "remove"}

\* The file that reads is the engine's own, and what it says unless it is behind.
FileIsState ==
    /\ ~Up => ~eng.writes /\ ~eng.behind
    /\ Up => eng.id # 0
    /\ eng.behind => eng.writes
    /\ eng.writes /\ Reads => file.engine = eng.id
    /\ eng.writes /\ ~eng.behind => Reads /\ file.groups = eng.mem

\* The engine's own state names what it has to answer for.
StateNames ==
    eng.writes => \A g \in Groups :
        Runs(g) /\ group[g].held # "spawned" /\ ~group[g].missed => g \in eng.mem

\* Unless it settles blind, a caller that settles has killed what it read, but
\* for what it keeps to itself as refused, and nobody writes the file meanwhile.
SettlesWhatItRead ==
    /\ caller.at \in Settling \cup {"signal", "waiting", "escalated"} => caller.saw # NULL
    /\ caller.at \in Settling /\ ~caller.blind =>
          ~eng.writes /\ file \in {caller.saw, NULL, UNREADABLE}
    /\ caller.at \in {"record", "remove"} /\ ~caller.blind =>
          \A g \in Groups : Runs(g) /\ g \in caller.saw.groups =>
              g \in caller.todo \/ group[g].held = "spawned" \/ group[g].missed

\* An engine works on a run its log leaves stopped only where it was settled as
\* crashed.
WorksOpen ==
    /\ eng.at = "working" /\ log.phase # "open" => log.pause = "after_crash"
    /\ eng.at = "working" /\ caller.at \in {"stopped", "killing", "appending"}
         => log.pause = "after_crash"

IInv == TypeOK /\ Reachable /\ FileIsState /\ StateNames /\ SettlesWhatItRead /\ WorksOpen

LogType == [phase : Phases, finished : BOOLEAN, pause : {"none", "own", "after_crash"}]

EngineType ==
    [at : {"down", "opened", "working", "ended"}, id : 0..MaxWakes,
     mem : SUBSET Groups, cut : BOOLEAN, writes : BOOLEAN, behind : BOOLEAN]

GroupType ==
    [at : {"unborn", "runs", "gone"}, held : {"none", "spawned", "guarded"},
     missed : BOOLEAN]

CallerType ==
    [at : {"idle", "stopped", "killing", "looking", "signal", "waiting",
           "escalated", "settle", "record", "remove", "closing", "appending"},
     by : Callers \cup {"none"}, saw : Registry \cup {NULL},
     todo : SUBSET Groups, blind : BOOLEAN, spared : BOOLEAN, answer : Answers]

LEMMA InitIInv == Init => IInv
  BY ProcessRegistryAssumption
  DEF Init, IInv, TypeOK, Reachable, FileIsState, StateNames, SettlesWhatItRead, WorksOpen,
      NoEngine, NoCaller, Runs, Up, Reads, Named, Registry, Phases, Answers, Settling

LEMMA Counted ==
  ASSUME TypeOK, NEW kind, UNCHANGED faults \/ Fault(kind)
  PROVE  faults' \in 0..MaxFaults
  BY ProcessRegistryAssumption DEF TypeOK, Fault

\* A caller that answers is done.
LEMMA Answered ==
  ASSUME TypeOK, NEW a \in Answers, answer(a)
  PROVE  caller' \in CallerType /\ caller'.at = "idle"
  <1>1. caller.spared \in BOOLEAN
    BY DEF TypeOK
  <1>2. QED
    BY <1>1 DEF answer, NoCaller, CallerType, Answers

\* An engine that is gone is nobody, and writes nothing.
LEMMA NoEngineType ==
  NoEngine \in EngineType /\ NoEngine.at = "down" /\ ~NoEngine.writes /\ ~NoEngine.behind
  BY ProcessRegistryAssumption DEF NoEngine, EngineType

\* What an engine leaves of its groups.
LEMMA LeftMissed ==
  ASSUME TypeOK, NEW written \in BOOLEAN, group' = left_missed(written)
  PROVE  /\ group' \in [Groups -> GroupType]
         /\ \A g \in Groups :
               /\ group'[g].at = group[g].at /\ group'[g].held = "none"
               /\ group'[g].missed <=> \/ group[g].missed
                                       \/ group[g].held = "spawned"
                                       \/ eng.behind /\ ~written /\ g \notin Named
  <1> DEFINE miss(g) == \/ group[g].missed
                        \/ group[g].held = "spawned"
                        \/ (eng.behind /\ ~written /\ g \notin Named)
  <1>1. \A g \in Groups : group'[g] = [group[g] EXCEPT !.held = "none", !.missed = miss(g)]
    BY DEF left_missed
  <1>2. DOMAIN group' = Groups /\ group' = [g \in Groups |-> group'[g]]
    BY DEF left_missed
  <1>3. \A g \in Groups : group[g] \in GroupType
    BY DEF TypeOK, GroupType
  <1>4. \A g \in Groups : miss(g) \in BOOLEAN
    <2>1. eng.behind \in BOOLEAN /\ \A g \in Groups : group[g].missed \in BOOLEAN
      BY DEF TypeOK
    <2>2. QED
      BY <2>1
  <1> HIDE DEF miss
  <1>5. ASSUME NEW g \in Groups
        PROVE  /\ group'[g] \in GroupType
               /\ group'[g].at = group[g].at /\ group'[g].held = "none"
               /\ group'[g].missed = miss(g)
    BY <1>1, <1>3, <1>4 DEF GroupType
  <1>6. QED
    BY <1>2, <1>4, <1>5 DEF miss

\* The groups of which more is missed than before.
LEMMA Missed ==
  ASSUME group \in [Groups -> GroupType], NEW more \in [Groups -> BOOLEAN],
         group' = [g \in Groups |-> [group[g] EXCEPT !.missed = @ \/ more[g]]]
  PROVE  /\ group' \in [Groups -> GroupType]
         /\ \A g \in Groups : /\ group'[g].at = group[g].at /\ group'[g].held = group[g].held
                              /\ group'[g].missed <=> group[g].missed \/ more[g]
  <1>1. ASSUME NEW g \in Groups
        PROVE  /\ group'[g] \in GroupType
               /\ group'[g].at = group[g].at /\ group'[g].held = group[g].held
               /\ group'[g].missed <=> group[g].missed \/ more[g]
    <2>1. group[g] \in GroupType /\ (group[g].missed \/ more[g]) \in BOOLEAN
      BY DEF GroupType
    <2>2. group'[g] = [group[g] EXCEPT !.missed = (group[g].missed \/ more[g])]
      OBVIOUS
    <2>3. QED
      BY <2>1, <2>2 DEF GroupType
  <1>2. QED
    BY <1>1

\* A caller's step that only moves the caller keeps the invariant, where the
\* caller has read what it goes on to use.
LEMMA CallerMoves ==
  ASSUME IInv, UNCHANGED <<log, file, eng, group, wakes>>,
         calls' \in 0..MaxCalls, faults' \in 0..MaxFaults, caller' \in CallerType,
         caller'.at \in {"signal", "waiting", "escalated"} => caller'.saw # NULL,
         caller'.at \in {"stopped", "killing", "appending"} /\ eng.at = "working"
             => log.pause = "after_crash",
         caller'.at \in Settling =>
             /\ caller'.at = "settle" /\ Reads /\ caller'.saw = file
             /\ caller'.blind \/ ~eng.writes
  PROVE  IInv'
  <1> USE DEF IInv
  <1>1. TypeOK'
    BY DEF TypeOK, CallerType
  <1>2. Reachable' /\ FileIsState' /\ StateNames'
    BY DEF Reachable, FileIsState, StateNames, Runs, Up, Reads, Named
  <1>3. SettlesWhatItRead'
    BY DEF SettlesWhatItRead, Settling, Reads, Runs
  <1>4. WorksOpen'
    BY DEF WorksOpen
  <1>5. QED
    BY <1>1, <1>2, <1>3, <1>4

LEMMA RegistryReads ==
  \A r \in Registry : r # NULL /\ r # UNREADABLE
  BY ProcessRegistryAssumption DEF Registry

\* The file of an engine that ended: what it keeps is what runs.
LEMMA Cleared ==
  ASSUME TypeOK, NEW id \in 1..MaxWakes, NEW G \in SUBSET Groups
  PROVE  /\ cleared(id, G) \in Registry \cup {NULL}
         /\ \A g \in G : Runs(g) => cleared(id, G) # NULL /\ g \in cleared(id, G).groups
  <1>1. running_groups(G) \in SUBSET Groups /\ \A g \in G : Runs(g) => g \in running_groups(G)
    BY DEF running_groups
  <1>2. CASE running_groups(G) = {}
    BY <1>1, <1>2 DEF cleared
  <1>3. CASE running_groups(G) # {}
    <2>1. cleared(id, G) = [engine |-> id, groups |-> running_groups(G)]
      BY <1>3 DEF cleared
    <2>2. cleared(id, G) \in Registry /\ cleared(id, G).groups = running_groups(G)
      BY <1>1, <2>1 DEF Registry
    <2>3. QED
      BY <1>1, <2>2, RegistryReads
  <1>4. QED
    BY <1>2, <1>3

\* An engine opens: it names what the earlier file named and still runs, or
\* works without a registry.
LEMMA WakeIInv ==
  ASSUME Perils = {}, IInv, Wake
  PROVE  IInv'
  <1> USE DEF IInv
  <1>1. /\ caller.at \notin Settling \cup {"signal", "escalated", "stopped", "killing", "appending"}
        /\ UNCHANGED <<log, group, caller, calls>> /\ ~Up
        /\ wakes' = wakes + 1 /\ wakes' \in 1..MaxWakes /\ wakes' \in 0..MaxWakes
    BY ProcessRegistryAssumption DEF Wake, Acting, TypeOK, Settling
  <1>2. Named \in SUBSET Groups
    BY DEF Named, Reads, TypeOK, Registry
  <1>3. ASSUME NEW mem \in SUBSET Groups, NEW w \in BOOLEAN, eng' = opened(mem, w)
        PROVE  /\ eng' \in EngineType /\ eng'.at = "opened" /\ eng'.id = wakes'
               /\ eng'.mem = mem /\ eng'.writes = w /\ ~eng'.behind
    <2>1. eng' = [at |-> "opened", id |-> wakes', mem |-> mem, cut |-> FALSE,
                  writes |-> w, behind |-> FALSE]
      BY <1>1, <1>3 DEF opened, NoEngine
    <2>2. wakes' \in 0..MaxWakes
      BY <1>1
    <2>3. QED
      BY <2>1, <2>2 DEF EngineType
  <1>4. CASE /\ eng' = opened(running_groups(Named), TRUE)
             /\ file' = [engine |-> wakes + 1, groups |-> running_groups(Named)]
             /\ UNCHANGED faults
    <2>1. running_groups(Named) \in SUBSET Groups
      BY <1>2 DEF running_groups
    <2>2. /\ eng' \in EngineType /\ eng'.at = "opened" /\ eng'.id = wakes'
          /\ eng'.mem = running_groups(Named) /\ eng'.writes /\ ~eng'.behind
      BY <1>3, <1>4, <2>1
    <2>3. /\ file' \in Registry /\ file'.engine = wakes' /\ file'.groups = running_groups(Named)
          /\ file' # NULL /\ file' # UNREADABLE
      BY <1>1, <1>4, <2>1, RegistryReads DEF Registry
    <2>4. TypeOK'
      BY <1>1, <1>4, <2>2, <2>3 DEF TypeOK, EngineType, Up
    <2>5. \A g \in Groups : Runs(g) => \/ g \in running_groups(Named)
                                       \/ group[g].held = "spawned"
                                       \/ group[g].missed
      BY <1>1 DEF Reachable, running_groups, Up
    <2>6. Reachable' /\ FileIsState' /\ StateNames'
      BY <1>1, <2>2, <2>3, <2>5 DEF Reachable, FileIsState, StateNames, Runs, Up, Reads, Named
    <2>7. SettlesWhatItRead' /\ WorksOpen'
      BY <1>1, <2>2 DEF SettlesWhatItRead, WorksOpen, Settling
    <2>8. QED
      BY <2>4, <2>6, <2>7
  <1>5. CASE /\ Fault("create")
             /\ eng' = opened({}, FALSE)
             /\ file' \in {file, cleared(wakes + 1, Named)}
    <2>1. /\ eng' \in EngineType /\ eng'.at = "opened" /\ eng'.id = wakes'
          /\ ~eng'.writes /\ ~eng'.behind
      BY <1>3, <1>5
    <2>2. \/ file' = file
          \/ /\ file' \in Registry \cup {NULL}
             /\ \A g \in Named : Runs(g) => file' # NULL /\ g \in file'.groups
      BY <1>1, <1>2, <1>5, Cleared
    <2>3. file' \in Registry \cup {NULL, UNREADABLE}
      BY <2>2 DEF TypeOK
    <2>4. TypeOK'
      BY <1>1, <1>5, <2>1, <2>3, Counted DEF TypeOK, EngineType, Up
    <2>5. \A g \in Groups : Runs(g) => \/ g \in Named
                                       \/ group[g].held = "spawned"
                                       \/ group[g].missed
      BY <1>1 DEF Reachable, Up
    <2>6. Reachable' /\ FileIsState' /\ StateNames'
      BY <1>1, <2>1, <2>2, <2>5, RegistryReads
      DEF Reachable, FileIsState, StateNames, Runs, Up, Reads, Named
    <2>7. SettlesWhatItRead' /\ WorksOpen'
      BY <1>1, <2>1 DEF SettlesWhatItRead, WorksOpen, Settling
    <2>8. QED
      BY <2>4, <2>6, <2>7
  <1>6. QED
    BY <1>4, <1>5 DEF Wake, create

\* The engine's registry after one of its changes: written out, or behind.
LEMMA Committed ==
  ASSUME IInv, NEW mem \in SUBSET Groups, eng.at = "working",
         unwritten \/ (eng.writes /\ commit(mem))
  PROVE  /\ eng' \in EngineType /\ file' \in Registry \cup {NULL, UNREADABLE}
         /\ faults' \in 0..MaxFaults
         /\ eng'.at = eng.at /\ eng'.id = eng.id /\ eng'.writes = eng.writes
         /\ \/ ~eng.writes /\ UNCHANGED <<eng, file>>
            \/ /\ eng.writes /\ eng'.mem = mem /\ ~eng'.behind
               /\ file' # NULL /\ file' # UNREADABLE
               /\ file'.engine = eng.id /\ file'.groups = mem
            \/ eng.writes /\ eng'.mem = mem /\ eng'.behind /\ file' = file
  <1> USE DEF IInv
  <1>1. eng \in EngineType /\ faults \in 0..MaxFaults /\ file \in Registry \cup {NULL, UNREADABLE}
    BY DEF TypeOK, EngineType, Up
  <1>2. CASE unwritten
    BY <1>1, <1>2 DEF unwritten
  <1>3. CASE /\ eng.writes /\ eng' = [eng EXCEPT !.mem = mem, !.behind = FALSE]
             /\ file' = [engine |-> eng.id, groups |-> mem] /\ UNCHANGED faults
    <2>1. eng.id \in 1..MaxWakes
      BY <1>1 DEF EngineType, FileIsState, Up
    <2>2. file' \in Registry /\ file'.engine = eng.id /\ file'.groups = mem
      BY <1>3, <2>1 DEF Registry
    <2>3. QED
      BY <1>1, <1>3, <2>2, RegistryReads DEF EngineType
  <1>4. CASE /\ eng.writes /\ Fault("write") /\ UNCHANGED file
             /\ eng' = [eng EXCEPT !.mem = mem, !.behind = TRUE]
    BY <1>1, <1>4, Counted DEF EngineType
  <1>5. QED
    BY <1>2, <1>3, <1>4 DEF commit

\* One registration more or less: the file names what the state names, or is
\* behind it.
LEMMA RegisteredIInv ==
  ASSUME IInv, NEW g \in Groups, eng.at = "working", NEW mem \in SUBSET Groups,
         unwritten \/ (eng.writes /\ commit(mem)),
         UNCHANGED <<log, caller, wakes, calls>>,
         group' \in [Groups -> GroupType], group'[g].held \in {"none", "guarded"},
         group'[g].at = group[g].at,
         \A h \in Groups \ {g} : group'[h] = group[h],
         eng.writes => \A h \in Groups \ {g} : h \in eng.mem => h \in mem,
         Runs(g) => group'[g].missed \/ (eng.writes /\ g \in mem)
  PROVE  IInv'
  <1> USE DEF IInv
  <1>1. /\ eng' \in EngineType /\ file' \in Registry \cup {NULL, UNREADABLE}
        /\ faults' \in 0..MaxFaults
        /\ eng'.at = eng.at /\ eng'.id = eng.id /\ eng'.writes = eng.writes
        /\ \/ ~eng.writes /\ UNCHANGED <<eng, file>>
           \/ /\ eng.writes /\ eng'.mem = mem /\ ~eng'.behind
              /\ file' # NULL /\ file' # UNREADABLE
              /\ file'.engine = eng.id /\ file'.groups = mem
           \/ eng.writes /\ eng'.mem = mem /\ eng'.behind /\ file' = file
    BY Committed
  <1>2. TypeOK'
    BY <1>1 DEF TypeOK, EngineType, GroupType
  <1>3. StateNames'
    BY <1>1 DEF StateNames, Runs
  <1>4. FileIsState'
    BY <1>1 DEF FileIsState, Up, Reads
  <1>5. Reachable'
    <2>1. CASE ~eng.writes /\ UNCHANGED <<eng, file>>
      BY <2>1 DEF Reachable, FileIsState, Runs, Up, Reads, Named
    <2>2. CASE /\ eng.writes /\ eng'.mem = mem /\ ~eng'.behind
               /\ file' # NULL /\ file' # UNREADABLE
               /\ file'.engine = eng.id /\ file'.groups = mem
      BY <1>1, <2>2, <1>3 DEF StateNames, Reachable, Runs, Up, Reads, Named
    <2>3. CASE eng.writes /\ eng'.behind
      BY <1>1, <2>3 DEF Reachable, Up
    <2>4. QED
      BY <1>1, <2>1, <2>2, <2>3
  <1>6. SettlesWhatItRead'
    BY <1>1 DEF SettlesWhatItRead, Settling, Runs
  <1>7. WorksOpen'
    BY <1>1 DEF WorksOpen
  <1>8. QED
    BY <1>2, <1>3, <1>4, <1>5, <1>6, <1>7

\* The engine is gone, and the file as it was: what runs is named or missed.
LEMMA KilledIInv ==
  ASSUME IInv, killed, UNCHANGED <<log, file, wakes, calls>>, faults' \in 0..MaxFaults,
         caller' \in CallerType, caller' = caller \/ caller'.at = "idle"
  PROVE  IInv'
  <1> USE DEF IInv
  <1>1. /\ group' \in [Groups -> GroupType]
        /\ \A g \in Groups :
              /\ group'[g].at = group[g].at /\ group'[g].held = "none"
              /\ group'[g].missed <=> \/ group[g].missed
                                      \/ group[g].held = "spawned"
                                      \/ eng.behind /\ g \notin Named
    <2>1. group' = left_missed(FALSE)
      BY DEF killed
    <2>2. QED
      BY <2>1, LeftMissed
  <1>2. eng' \in EngineType /\ eng'.at = "down" /\ ~eng'.writes /\ ~eng'.behind
    BY NoEngineType DEF killed
  <1>3. TypeOK'
    BY <1>1, <1>2 DEF TypeOK, CallerType, EngineType, GroupType
  <1>4. Reachable'
    BY <1>1, <1>2 DEF Reachable, Runs, Up, Reads, Named
  <1>5. FileIsState' /\ StateNames' /\ WorksOpen'
    BY <1>2 DEF FileIsState, StateNames, WorksOpen, Up
  <1>6. SettlesWhatItRead'
    BY <1>1, <1>2 DEF SettlesWhatItRead, Settling, Runs
  <1>7. QED
    BY <1>3, <1>4, <1>5, <1>6

\* Groups end, and nothing else happens to them or to the engine.
LEMMA EndedIInv ==
  ASSUME IInv, UNCHANGED <<log, file, eng, wakes, calls>>, faults' \in 0..MaxFaults,
         group' \in [Groups -> GroupType],
         \A g \in Groups : /\ group'[g].held = group[g].held
                           /\ group'[g].missed = group[g].missed
                           /\ group'[g].at = "runs" => Runs(g),
         caller' \in CallerType, caller'.at = caller.at
             \/ caller'.at \notin Settling \cup {"stopped", "killing", "appending"},
         caller'.at \in Settling => caller' = caller,
         caller'.at \in {"signal", "waiting", "escalated"} => caller'.saw # NULL
  PROVE  IInv'
  <1> USE DEF IInv
  <1>1. TypeOK'
    BY DEF TypeOK, CallerType, EngineType, GroupType
  <1>2. Reachable' /\ FileIsState' /\ StateNames'
    BY DEF Reachable, FileIsState, StateNames, Runs, Up, Reads, Named
  <1>3. SettlesWhatItRead'
    BY DEF SettlesWhatItRead, Settling, Runs
  <1>4. WorksOpen'
    BY DEF WorksOpen
  <1>5. QED
    BY <1>1, <1>2, <1>3, <1>4

\* SIGKILL to groups: those that are not refused end.
LEMMA Killed ==
  ASSUME TypeOK, NEW G \in SUBSET Groups, NEW refused, kill(G, refused)
  PROVE  /\ group' \in [Groups -> GroupType] /\ faults' \in 0..MaxFaults
         /\ \A g \in Groups : /\ group'[g].held = group[g].held
                              /\ group'[g].missed = group[g].missed
                              /\ group'[g].at = "runs" => Runs(g)
                              /\ group'[g].at = "runs" /\ g \in G => g \in refused
  <1>1. faults' \in 0..MaxFaults
    BY Counted DEF kill
  <1>2. ASSUME NEW g \in Groups
        PROVE  group[g] \in GroupType
    BY DEF TypeOK, GroupType
  <1>3. ASSUME NEW g \in Groups
        PROVE  \/ group'[g] = group[g] /\ ~(g \in G \ refused /\ Runs(g))
               \/ group'[g] = [group[g] EXCEPT !.at = "gone"]
    BY DEF kill
  <1>4. ASSUME NEW g \in Groups
        PROVE  /\ group'[g] \in GroupType
               /\ group'[g].held = group[g].held
               /\ group'[g].missed = group[g].missed
               /\ group'[g].at = "runs" => Runs(g)
               /\ group'[g].at = "runs" /\ g \in G => g \in refused
    BY <1>2, <1>3 DEF GroupType, Runs
  <1>5. DOMAIN group' = Groups /\ group' = [g \in Groups |-> group'[g]]
    BY DEF kill
  <1>6. QED
    BY <1>1, <1>4, <1>5

LEMMA NextIInv ==
  ASSUME Perils = {}, IInv, [Next]_vars
  PROVE  IInv'
  <1> USE DEF IInv
  <1>t. /\ caller \in CallerType /\ eng \in EngineType /\ group \in [Groups -> GroupType]
        /\ faults \in 0..MaxFaults /\ calls \in 0..MaxCalls
        /\ file \in Registry \cup {NULL, UNREADABLE}
    BY DEF TypeOK, CallerType, EngineType, GroupType
  <1>Wake. ASSUME Wake PROVE IInv'
    BY <1>Wake, WakeIInv
  <1>RecordResume. ASSUME RecordResume PROVE IInv'
    <2>1. /\ eng.at = "opened" /\ eng' \in EngineType /\ eng'.at = "working" /\ eng'.id = eng.id
          /\ eng'.mem = eng.mem /\ eng'.writes = eng.writes /\ eng'.behind = eng.behind
          /\ log' = [log EXCEPT !.phase = "open"]
          /\ UNCHANGED <<file, group, caller, wakes, calls, faults>>
          /\ caller.at \in {"idle", "looking", "waiting"}
      BY <1>RecordResume, <1>t DEF RecordResume, Acting, EngineType
    <2>2. log' \in LogType
          /\ log'.phase = "open"
      BY <2>1 DEF TypeOK, LogType, Phases
    <2>3. TypeOK'
      BY <2>1, <2>2 DEF TypeOK, EngineType, LogType
    <2>4. Reachable' /\ FileIsState' /\ StateNames'
      BY <2>1 DEF Reachable, FileIsState, StateNames, Runs, Up, Reads, Named
    <2>5. SettlesWhatItRead' /\ WorksOpen'
      BY <2>1, <2>2 DEF SettlesWhatItRead, WorksOpen, Settling, Runs
    <2>6. QED
      BY <2>3, <2>4, <2>5
  <1>Ends. ASSUME eng' = [eng EXCEPT !.at = "ended"], Up,
                  UNCHANGED <<file, group, caller, wakes, calls, faults>>,
                  \A g \in Groups : group[g].held = "none",
                  log' \in LogType
           PROVE IInv'
    <2>1. /\ eng' \in EngineType /\ eng'.at = "ended" /\ eng'.id = eng.id
          /\ eng'.mem = eng.mem /\ eng'.writes = eng.writes /\ eng'.behind = eng.behind
      BY <1>Ends, <1>t DEF EngineType
    <2>2. TypeOK'
      BY <1>Ends, <2>1 DEF TypeOK, EngineType, LogType
    <2>3. Reachable' /\ FileIsState' /\ StateNames'
      BY <1>Ends, <2>1 DEF Reachable, FileIsState, StateNames, Runs, Up, Reads, Named
    <2>4. SettlesWhatItRead' /\ WorksOpen'
      BY <1>Ends, <2>1 DEF SettlesWhatItRead, WorksOpen, Settling, Runs
    <2>5. QED
      BY <2>2, <2>3, <2>4
  <1>WakeEnds. ASSUME WakeEnds PROVE IInv'
    BY <1>WakeEnds, <1>Ends DEF WakeEnds, Up, TypeOK, LogType
  <1>Stop. ASSUME Stop PROVE IInv'
    BY <1>Stop, <1>Ends DEF Stop, Up, TypeOK, LogType, Phases
  <1>clear. ASSUME clear PROVE IInv'
    <2>1. PICK written \in BOOLEAN :
             /\ IF written
                THEN eng.writes /\ file' = cleared(eng.id, eng.mem) /\ UNCHANGED faults
                ELSE /\ UNCHANGED file
                     /\ IF eng.writes THEN Fault("write") ELSE UNCHANGED faults
             /\ group' = left_missed(written)
      BY <1>clear DEF clear
    <2>2. /\ eng.at = "ended" /\ eng' = NoEngine /\ UNCHANGED <<log, caller, wakes, calls>>
          /\ faults' \in 0..MaxFaults /\ \A g \in Groups : group[g].held = "none"
          /\ eng.id \in 1..MaxWakes /\ eng.mem \in SUBSET Groups
      BY <1>clear, <1>t, <2>1, Counted DEF clear, TypeOK, FileIsState, Up, EngineType
    <2>3. /\ eng' \in EngineType /\ eng'.at = "down" /\ ~eng'.writes /\ ~eng'.behind
      BY <2>2, NoEngineType
    <2>4. /\ group' \in [Groups -> GroupType]
          /\ \A g \in Groups :
                /\ group'[g].at = group[g].at /\ group'[g].held = "none"
                /\ group'[g].missed <=> \/ group[g].missed
                                        \/ eng.behind /\ ~written /\ g \notin Named
      BY <2>1, <2>2, LeftMissed
    <2>5. \/ written /\ eng.writes /\ file' \in Registry \cup {NULL}
             /\ \A g \in eng.mem : Runs(g) => file' # NULL /\ g \in file'.groups
          \/ ~written /\ file' = file
      BY <2>1, <2>2, Cleared
    <2>6. TypeOK'
      BY <2>2, <2>3, <2>4, <2>5 DEF TypeOK, EngineType, GroupType
    <2>7. Reachable'
      <3>1. CASE ~written /\ file' = file
        BY <2>2, <2>3, <2>4, <3>1 DEF Reachable, Runs, Up, Reads, Named
      <3>2. CASE written /\ eng.writes /\ file' \in Registry \cup {NULL}
                 /\ \A g \in eng.mem : Runs(g) => file' # NULL /\ g \in file'.groups
        BY <2>2, <2>3, <2>4, <3>2, RegistryReads DEF Reachable, StateNames, Runs, Up, Reads, Named
      <3>3. QED
        BY <2>5, <3>1, <3>2
    <2>8. FileIsState' /\ StateNames' /\ WorksOpen'
      BY <2>3 DEF FileIsState, StateNames, WorksOpen, Up
    <2>9. SettlesWhatItRead'
      BY <2>2, <2>3, <2>4, <2>5 DEF SettlesWhatItRead, Settling, Runs
    <2>10. QED
      BY <2>6, <2>7, <2>8, <2>9
  <1>Crash. ASSUME Crash PROVE IInv'
    BY <1>Crash, <1>t, KilledIInv DEF Crash
  <1>Damage. ASSUME Damage PROVE IInv'
    <2>1. /\ Reads /\ file' = UNREADABLE /\ faults' \in 0..MaxFaults
          /\ UNCHANGED <<log, caller, wakes, calls>>
      BY <1>Damage, Counted DEF Damage
    <2>2. CASE Up /\ eng.writes
      <3>1. UNCHANGED group /\ eng' = [eng EXCEPT !.behind = TRUE]
        BY <1>Damage, <2>2 DEF Damage
      <3>2. /\ eng' \in EngineType /\ eng'.at = eng.at /\ eng'.id = eng.id /\ eng'.mem = eng.mem
            /\ eng'.writes /\ eng'.behind
        BY <1>t, <2>2, <3>1 DEF EngineType
      <3>3. TypeOK'
        BY <2>1, <3>1, <3>2 DEF TypeOK, EngineType
      <3>4. Reachable' /\ FileIsState' /\ StateNames'
        BY <2>1, <2>2, <3>1, <3>2 DEF Reachable, FileIsState, StateNames, Runs, Up, Reads, Named
      <3>5. SettlesWhatItRead' /\ WorksOpen'
        BY <2>1, <2>2, <3>1, <3>2 DEF SettlesWhatItRead, WorksOpen, Settling, Runs
      <3>6. QED
        BY <3>3, <3>4, <3>5
    <2>3. CASE ~(Up /\ eng.writes)
      <3>1. /\ UNCHANGED eng
            /\ group' = [g \in Groups |-> [group[g] EXCEPT !.missed = @ \/ g \in file.groups]]
        BY <1>Damage, <2>3 DEF Damage
      <3>2. /\ group' \in [Groups -> GroupType]
            /\ \A g \in Groups : /\ group'[g].at = group[g].at /\ group'[g].held = group[g].held
                                 /\ group'[g].missed <=> group[g].missed \/ g \in file.groups
        <4> DEFINE more == [g \in Groups |-> g \in file.groups]
        <4>1. more \in [Groups -> BOOLEAN]
          OBVIOUS
        <4>2. group' = [g \in Groups |-> [group[g] EXCEPT !.missed = @ \/ more[g]]]
          BY <3>1
        <4>3. QED
          BY <1>t, <4>1, <4>2, Missed
      <3>3. TypeOK'
        BY <2>1, <3>1, <3>2 DEF TypeOK, GroupType
      <3>4. Reachable' /\ FileIsState' /\ StateNames'
        BY <2>1, <2>3, <3>1, <3>2 DEF Reachable, FileIsState, StateNames, Runs, Up, Reads, Named
      <3>5. SettlesWhatItRead' /\ WorksOpen'
        BY <2>1, <2>3, <3>1, <3>2 DEF SettlesWhatItRead, WorksOpen, Settling, Runs
      <3>6. QED
        BY <3>3, <3>4, <3>5
    <2>4. QED
      BY <2>2, <2>3
  <1>Spawn. ASSUME NEW g \in Groups, Spawn(g) PROVE IInv'
    <2>1. /\ eng.at = "working" /\ UNCHANGED <<log, file, eng, caller, wakes, calls, faults>>
          /\ group' \in [Groups -> GroupType]
          /\ group'[g].at = "runs" /\ group'[g].held = "spawned"
          /\ \A h \in Groups \ {g} : group'[h] = group[h]
      BY <1>Spawn, <1>t DEF Spawn, GroupType
    <2>2. TypeOK'
      BY <2>1 DEF TypeOK, GroupType
    <2>3. Reachable' /\ FileIsState' /\ StateNames'
      BY <2>1 DEF Reachable, FileIsState, StateNames, Runs, Up, Reads, Named
    <2>4. SettlesWhatItRead' /\ WorksOpen'
      BY <1>Spawn, <2>1 DEF SettlesWhatItRead, WorksOpen, Settling, Runs, Spawn
    <2>5. QED
      BY <2>2, <2>3, <2>4
  <1>GroupEnds. ASSUME NEW g \in Groups, GroupEnds(g) PROVE IInv'
    <2>1. /\ group' \in [Groups -> GroupType]
          /\ \A h \in Groups : /\ group'[h].held = group[h].held
                               /\ group'[h].missed = group[h].missed
                               /\ group'[h].at = "runs" => Runs(h)
      BY <1>GroupEnds, <1>t DEF GroupEnds, GroupType, Runs
    <2>2. QED
      BY <1>GroupEnds, <1>t, <2>1, EndedIInv DEF GroupEnds, SettlesWhatItRead, TypeOK
  <1>NotStopped. ASSUME NEW g \in Groups, NotStopped(g) PROVE IInv'
    <2>1. /\ UNCHANGED <<log, file, eng, caller, wakes, calls, faults>>
          /\ group' \in [Groups -> GroupType] /\ group[g].held # "spawned"
          /\ group'[g].at = group[g].at /\ group'[g].held = "none"
          /\ group'[g].missed = group[g].missed
          /\ \A h \in Groups \ {g} : group'[h] = group[h]
      BY <1>NotStopped, <1>t DEF NotStopped, GroupType
    <2>2. TypeOK'
      BY <2>1 DEF TypeOK, GroupType
    <2>3. Reachable' /\ FileIsState' /\ StateNames'
      BY <2>1 DEF Reachable, FileIsState, StateNames, Runs, Up, Reads, Named
    <2>4. SettlesWhatItRead' /\ WorksOpen'
      BY <2>1 DEF SettlesWhatItRead, WorksOpen, Settling, Runs
    <2>5. QED
      BY <2>2, <2>3, <2>4
  <1>held. ASSUME NEW g \in Groups, group[g].held # "none" PROVE eng.at = "working"
    BY <1>held DEF TypeOK
  <1>Register. ASSUME NEW g \in Groups, Register(g) PROVE IInv'
    <2>1. /\ group' \in [Groups -> GroupType] /\ group'[g].held = "guarded"
          /\ group'[g].at = group[g].at /\ group'[g].missed = ~eng.writes
          /\ \A h \in Groups \ {g} : group'[h] = group[h]
          /\ eng.at = "working"
      BY <1>Register, <1>t, <1>held DEF Register, GroupType, EngineType
    <2>2. eng.mem \cup {g} \in SUBSET Groups
      BY <1>t DEF EngineType
    <2>3. QED
      BY <1>Register, <2>1, <2>2, RegisteredIInv DEF Register
  <1>Release. ASSUME NEW g \in Groups, Release(g) PROVE IInv'
    <2>1. /\ group' \in [Groups -> GroupType] /\ group'[g].held = "none"
          /\ group'[g].at = group[g].at /\ ~Runs(g)
          /\ \A h \in Groups \ {g} : group'[h] = group[h]
          /\ eng.at = "working"
      BY <1>Release, <1>t, <1>held DEF Release, GroupType, Runs
    <2>2. eng.mem \ {g} \in SUBSET Groups
      BY <1>t DEF EngineType
    <2>3. QED
      BY <1>Release, <2>1, <2>2, RegisteredIInv DEF Release
  <1>CommandNotStopped. ASSUME NEW g \in Groups, CommandNotStopped(g) PROVE IInv'
    <2>1. /\ group' \in [Groups -> GroupType] /\ group'[g].held = "none"
          /\ group'[g].at = group[g].at /\ group'[g].missed
          /\ \A h \in Groups \ {g} : group'[h] = group[h]
          /\ eng.at = "working"
      BY <1>CommandNotStopped, <1>t, <1>held DEF CommandNotStopped, GroupType
    <2>2. eng.mem \ {g} \in SUBSET Groups
      BY <1>t DEF EngineType
    <2>3. QED
      BY <1>CommandNotStopped, <2>1, <2>2, RegisteredIInv DEF CommandNotStopped
  <1>Cancel. ASSUME Cancel PROVE IInv'
    <2>1. /\ calls' \in 0..MaxCalls /\ UNCHANGED <<log, file, eng, group, wakes, faults>>
          /\ \/ stopped /\ caller' = [NoCaller EXCEPT !.by = "cancel", !.at = "stopped"]
             \/ ~stopped /\ caller' = [NoCaller EXCEPT !.by = "cancel", !.at = "looking"]
          /\ "cancel" \in Callers
      <3>1. calls' \in 0..MaxCalls
        BY <1>Cancel, <1>t, ProcessRegistryAssumption DEF Cancel
      <3>2. QED
        BY <1>Cancel, <3>1 DEF Cancel
    <2>2. /\ caller' \in CallerType
          /\ caller'.at = "looking" \/ (caller'.at = "stopped" /\ log.phase # "open")
      BY <2>1 DEF NoCaller, CallerType, Answers, stopped
    <2>3. eng.at = "working" /\ log.phase # "open" => log.pause = "after_crash"
      BY DEF WorksOpen
    <2>4. QED
      BY <1>t, <2>1, <2>2, <2>3, CallerMoves DEF Settling
  <1>Close. ASSUME Close PROVE IInv'
    <2>1. /\ calls' \in 0..MaxCalls /\ UNCHANGED <<log, file, eng, group, wakes>> /\ eng.at # "opened"
          /\ "close" \in Callers /\ faults' \in 0..MaxFaults
      BY <1>Close, <1>t, Counted, ProcessRegistryAssumption DEF Close, liveness
    <2>2. \/ /\ Reads /\ ~Alive(file.engine)
             /\ caller' = [NoCaller EXCEPT !.by = "close", !.saw = file, !.at = "settle"]
          \/ caller' = [NoCaller EXCEPT !.by = "close", !.at = "closing"]
      BY <1>Close DEF Close, liveness
    <2>3. /\ caller' \in CallerType
          /\ \/ Reads /\ ~Alive(file.engine) /\ caller'.at = "settle" /\ caller'.saw = file
             \/ caller'.at = "closing"
      BY <1>t, <2>1, <2>2 DEF NoCaller, CallerType, Answers, Reads
    <2>4. Reads /\ ~Alive(file.engine) => ~eng.writes
      BY DEF FileIsState, Alive, Up
    <2>5. QED
      BY <2>1, <2>3, <2>4, CallerMoves DEF Settling
  <1>answers. ASSUME NEW a \in Answers, answer(a), UNCHANGED <<log, file, eng, group, wakes, calls>>,
                     faults' \in 0..MaxFaults
              PROVE IInv'
    BY <1>answers, <1>t, Answered, CallerMoves DEF Settling
  <1>StoppedReads. ASSUME StoppedReads PROVE IInv'
    <2>1. CASE Reads
      <3>1. /\ caller.at = "stopped" /\ caller' = [caller EXCEPT !.at = "killing", !.todo = file.groups]
            /\ UNCHANGED <<log, file, eng, group, wakes, calls, faults>>
        BY <1>StoppedReads, <2>1 DEF StoppedReads
      <3>2. file.groups \in SUBSET Groups
        BY <1>t, <2>1 DEF Reads, Registry
      <3>3. caller' \in CallerType /\ caller'.at = "killing"
        BY <1>t, <3>1, <3>2 DEF CallerType
      <3>4. eng.at = "working" => log.pause = "after_crash"
        BY <3>1 DEF WorksOpen
      <3>5. QED
        BY <1>t, <3>1, <3>3, <3>4, CallerMoves DEF Settling
    <2>2. CASE ~Reads
      BY <1>StoppedReads, <1>t, <1>answers, <2>2 DEF StoppedReads, Answers
    <2>3. QED
      BY <2>1, <2>2
  <1>StoppedEnds. ASSUME StoppedEnds PROVE IInv'
    BY <1>StoppedEnds, <1>t, <1>answers DEF StoppedEnds, Answers
  <1>force_kill_group. ASSUME NEW g \in Groups, force_kill_group(g) PROVE IInv'
    <2>1. /\ group' \in [Groups -> GroupType] /\ faults' \in 0..MaxFaults
          /\ \A h \in Groups : /\ group'[h].held = group[h].held
                               /\ group'[h].missed = group[h].missed
                               /\ group'[h].at = "runs" => Runs(h)
      BY <1>force_kill_group, Killed DEF force_kill_group
    <2>2. caller' \in CallerType /\ caller.at = "killing" /\ caller'.at = "killing"
      BY <1>force_kill_group, <1>t DEF force_kill_group, CallerType
    <2>3. QED
      BY <1>force_kill_group, <2>1, <2>2, EndedIInv DEF force_kill_group, Settling
  <1>Registered. ASSUME Registered PROVE IInv'
    <2>1. PICK l \in {"alive", "dead", "unknown"} :
             /\ liveness(file.engine, l)
             /\ caller' = [caller EXCEPT !.saw = file, !.blind = (l = "unknown"),
                                         !.at = IF l = "alive" THEN "signal" ELSE "settle"]
      BY <1>Registered DEF Registered
    <2>2. /\ Reads /\ file \in Registry /\ file # NULL /\ faults' \in 0..MaxFaults
          /\ UNCHANGED <<log, file, eng, group, wakes, calls>>
      BY <1>Registered, <1>t, <2>1, Counted DEF Registered, Reads, liveness
    <2>3. l = "dead" => ~eng.writes
      BY <2>1, <2>2 DEF liveness, FileIsState, Alive, Up
    <2>4. /\ caller' \in CallerType /\ caller'.at \in {"signal", "settle"} /\ caller'.saw = file
          /\ caller'.at = "settle" => caller'.blind \/ ~eng.writes
      <3>1. CASE l = "alive"
        BY <1>t, <2>1, <2>2, <3>1 DEF CallerType
      <3>2. CASE l = "dead"
        BY <1>t, <2>1, <2>2, <2>3, <3>2 DEF CallerType
      <3>3. CASE l = "unknown"
        BY <1>t, <2>1, <2>2, <3>3 DEF CallerType
      <3>4. QED
        BY <3>1, <3>2, <3>3
    <2>5. QED
      BY <1>t, <2>2, <2>4, CallerMoves DEF Settling
  <1>NotRegistered. ASSUME NotRegistered PROVE IInv'
    BY <1>NotRegistered, <1>t, <1>answers DEF NotRegistered, Answers
  <1>Signal. ASSUME Signal PROVE IInv'
    <2>1. CASE /\ eng' = [eng EXCEPT !.cut = TRUE]
               /\ caller' = [caller EXCEPT !.at = "waiting"]
               /\ UNCHANGED faults
      <3>1. /\ eng' \in EngineType /\ eng'.at = eng.at /\ eng'.id = eng.id
            /\ eng'.mem = eng.mem /\ eng'.writes = eng.writes /\ eng'.behind = eng.behind
        BY <1>t, <2>1 DEF EngineType
      <3>2. /\ caller' \in CallerType /\ caller'.at = "waiting" /\ caller'.saw = caller.saw
            /\ caller.at = "signal" /\ UNCHANGED <<log, file, group, wakes, calls>>
        BY <1>Signal, <1>t, <2>1 DEF Signal, CallerType
      <3>3. TypeOK'
        BY <2>1, <3>1, <3>2 DEF TypeOK, EngineType, CallerType
      <3>4. Reachable' /\ FileIsState' /\ StateNames'
        BY <3>1, <3>2 DEF Reachable, FileIsState, StateNames, Runs, Up, Reads, Named
      <3>5. SettlesWhatItRead' /\ WorksOpen'
        BY <3>1, <3>2 DEF SettlesWhatItRead, WorksOpen, Settling
      <3>6. QED
        BY <3>3, <3>4, <3>5
    <2>2. CASE /\ IF Alive(caller.saw.engine) THEN Fault("kill") ELSE UNCHANGED faults
               /\ answer("refused")
               /\ UNCHANGED eng
      <3>1. faults' \in 0..MaxFaults
        BY <2>2, Counted
      <3>2. QED
        BY <1>Signal, <1>answers, <2>2, <3>1 DEF Signal, Answers
    <2>3. QED
      BY <1>Signal, <2>1, <2>2 DEF Signal
  <1>Awaited. ASSUME Awaited PROVE IInv'
    BY <1>Awaited, <1>t, <1>answers DEF Awaited, Answers
  <1>WaitInterrupted. ASSUME WaitInterrupted PROVE IInv'
    BY <1>WaitInterrupted, <1>t, <1>answers DEF WaitInterrupted, Answers
  <1>saw. ASSUME caller.at \in Settling \cup {"waiting", "escalated"}
          PROVE  caller.saw # NULL /\ caller.saw.groups \in SUBSET Groups
    BY <1>saw, <1>t DEF SettlesWhatItRead, CallerType, Registry
  <1>Escalate. ASSUME Escalate PROVE IInv'
    <2>1. PICK refused \in SUBSET caller.saw.groups : kill(caller.saw.groups, refused)
      BY <1>Escalate DEF Escalate
    <2>2. /\ group' \in [Groups -> GroupType] /\ faults' \in 0..MaxFaults
          /\ \A h \in Groups : /\ group'[h].held = group[h].held
                               /\ group'[h].missed = group[h].missed
                               /\ group'[h].at = "runs" => Runs(h)
      BY <1>Escalate, <1>saw, <2>1, Killed DEF Escalate
    <2>3. caller' \in CallerType /\ caller'.at = "escalated" /\ caller'.saw = caller.saw
      BY <1>Escalate, <1>t DEF Escalate, CallerType
    <2>4. QED
      BY <1>Escalate, <1>saw, <2>2, <2>3, EndedIInv DEF Escalate, Settling
  <1>KillEngine. ASSUME KillEngine PROVE IInv'
    <2>1. /\ caller' \in CallerType /\ caller'.at = "idle" /\ faults' \in 0..MaxFaults
          /\ UNCHANGED <<log, file, wakes, calls>>
          /\ killed \/ UNCHANGED <<eng, group>>
      <3>1. CASE /\ IF Alive(caller.saw.engine) THEN killed ELSE UNCHANGED <<eng, group>>
                 /\ answer("escalated")
                 /\ UNCHANGED faults
        <4>1. caller' \in CallerType /\ caller'.at = "idle"
          BY <3>1, Answered DEF Answers
        <4>2. QED
          BY <1>KillEngine, <1>t, <3>1, <4>1 DEF KillEngine
      <3>2. CASE /\ Fault("kill")
                 /\ caller' = [NoCaller EXCEPT !.spared = TRUE, !.answer = "escalated"]
                 /\ UNCHANGED <<eng, group>>
        <4>1. caller' \in CallerType /\ caller'.at = "idle"
          BY <3>2 DEF NoCaller, CallerType, Answers
        <4>2. QED
          BY <1>KillEngine, <3>2, <4>1, Counted DEF KillEngine
      <3>3. QED
        BY <1>KillEngine, <3>1, <3>2 DEF KillEngine
    <2>2. CASE killed
      BY <2>1, <2>2, KilledIInv
    <2>3. CASE UNCHANGED <<eng, group>>
      BY <1>t, <2>1, <2>3, CallerMoves DEF Settling
    <2>4. QED
      BY <2>1, <2>2, <2>3
  <1>SettleKills. ASSUME SettleKills PROVE IInv'
    <2>1. PICK refused \in SUBSET caller.saw.groups :
             /\ kill(caller.saw.groups, refused)
             /\ caller' = [caller EXCEPT !.at = "record", !.todo = refused]
      BY <1>SettleKills DEF SettleKills
    <2>2. /\ caller.at = "settle" /\ UNCHANGED <<log, file, eng, wakes, calls>>
          /\ group' \in [Groups -> GroupType] /\ faults' \in 0..MaxFaults
          /\ \A h \in Groups :
                /\ group'[h].held = group[h].held
                /\ group'[h].missed = group[h].missed
                /\ group'[h].at = "runs" => Runs(h)
                /\ group'[h].at = "runs" /\ h \in caller.saw.groups => h \in refused
      BY <1>SettleKills, <1>saw, <2>1, Killed DEF SettleKills, Settling
    <2>3. /\ caller' \in CallerType /\ caller'.at = "record" /\ caller'.saw = caller.saw
          /\ caller'.todo = refused /\ caller'.blind = caller.blind
      BY <1>t, <1>saw, <2>1, <2>2 DEF CallerType, Settling
    <2>4. TypeOK'
      BY <2>2, <2>3 DEF TypeOK, CallerType, GroupType
    <2>5. Reachable' /\ FileIsState' /\ StateNames'
      BY <2>2 DEF Reachable, FileIsState, StateNames, Runs, Up, Reads, Named
    <2>6. SettlesWhatItRead' /\ WorksOpen'
      BY <2>2, <2>3 DEF SettlesWhatItRead, WorksOpen, Settling, Runs
    <2>7. QED
      BY <2>4, <2>5, <2>6
  <1>SettleRecords. ASSUME SettleRecords PROVE IInv'
    <2>1. /\ caller' \in CallerType /\ caller'.at = "remove" /\ caller'.saw = caller.saw
          /\ caller'.todo = caller.todo /\ caller'.blind = caller.blind
          /\ log' \in LogType
          /\ log'.pause = "after_crash"
          /\ caller.at = "record" /\ UNCHANGED <<file, eng, group, wakes, calls, faults>>
      BY <1>SettleRecords, <1>t DEF SettleRecords, CallerType, TypeOK, LogType, Phases
    <2>2. TypeOK'
      BY <2>1 DEF TypeOK, CallerType, LogType
    <2>3. Reachable' /\ FileIsState' /\ StateNames'
      BY <2>1 DEF Reachable, FileIsState, StateNames, Runs, Up, Reads, Named
    <2>4. SettlesWhatItRead' /\ WorksOpen'
      BY <2>1 DEF SettlesWhatItRead, WorksOpen, Settling, Runs
    <2>5. QED
      BY <2>2, <2>3, <2>4
  <1>SettleRemoves. ASSUME SettleRemoves PROVE IInv'
    <2>1. /\ caller' \in CallerType /\ caller'.at \in {"idle", "closing"}
          /\ caller.at = "remove" /\ UNCHANGED <<log, wakes, calls>>
      <3>1. CASE caller.by = "close"
        <4>1. caller' = [NoCaller EXCEPT !.by = "close", !.at = "closing"] /\ "close" \in Callers
          BY <1>SettleRemoves, <1>t, <3>1 DEF SettleRemoves, CallerType
        <4>2. QED
          BY <1>SettleRemoves, <4>1 DEF SettleRemoves, NoCaller, CallerType, Answers
      <3>2. CASE caller.by # "close"
        BY <1>SettleRemoves, <3>2, Answered DEF SettleRemoves, Answers
      <3>3. QED
        BY <3>1, <3>2
    <2>2. CASE Fault("write") /\ UNCHANGED <<file, eng, group>>
      BY <1>t, <2>1, <2>2, Counted, CallerMoves DEF Settling
    <2>3. CASE removed
      <3>1. /\ file' = NULL /\ UNCHANGED faults
            /\ eng' = [eng EXCEPT !.behind = @ \/ (caller.blind /\ eng.writes)]
        BY <2>3 DEF removed
      <3>2. /\ eng' \in EngineType /\ eng'.at = eng.at /\ eng'.id = eng.id
            /\ eng'.mem = eng.mem /\ eng'.writes = eng.writes
            /\ eng'.behind <=> eng.behind \/ (caller.blind /\ eng.writes)
        <4>1. (eng.behind \/ (caller.blind /\ eng.writes)) \in BOOLEAN
          BY <1>t DEF EngineType, CallerType
        <4>2. QED
          BY <1>t, <3>1, <4>1 DEF EngineType
      <3>3. /\ group' \in [Groups -> GroupType]
            /\ \A g \in Groups :
                  /\ group'[g].at = group[g].at /\ group'[g].held = group[g].held
                  /\ group'[g].missed <=> \/ group[g].missed
                                          \/ g \in caller.todo
                                          \/ caller.blind /\ ~eng.writes /\ g \in Named
        <4> DEFINE more == [g \in Groups |-> g \in caller.todo
                                             \/ (caller.blind /\ ~eng.writes /\ g \in Named)]
        <4>1. more \in [Groups -> BOOLEAN]
          BY <1>t DEF EngineType, CallerType
        <4>2. group' = [g \in Groups |-> [group[g] EXCEPT !.missed = @ \/ more[g]]]
          BY <2>3 DEF removed
        <4>3. \A g \in Groups : more[g] <=> g \in caller.todo
                                            \/ (caller.blind /\ ~eng.writes /\ g \in Named)
          OBVIOUS
        <4> HIDE DEF more
        <4>4. QED
          BY <1>t, <4>1, <4>2, <4>3, Missed
      <3>4. TypeOK'
        BY <2>1, <3>1, <3>2, <3>3 DEF TypeOK, EngineType, GroupType, CallerType
      <3>5. FileIsState' /\ StateNames'
        BY <2>1, <3>1, <3>2, <3>3 DEF FileIsState, StateNames, SettlesWhatItRead, Settling, Runs, Up, Reads
      <3>6. SettlesWhatItRead' /\ WorksOpen'
        BY <2>1, <3>2 DEF SettlesWhatItRead, WorksOpen, Settling
      <3>7. Reachable'
        <4>1. CASE caller.blind
          BY <2>1, <3>1, <3>2, <3>3, <4>1 DEF Reachable, FileIsState, Runs, Up, Reads, Named
        <4>2. CASE ~caller.blind
          BY <2>1, <3>1, <3>2, <3>3, <4>2
          DEF Reachable, SettlesWhatItRead, Settling, Runs, Up, Reads, Named
        <4>3. QED
          BY <4>1, <4>2
      <3>8. QED
        BY <3>4, <3>5, <3>6, <3>7
    <2>4. QED
      BY <1>SettleRemoves, <2>2, <2>3 DEF SettleRemoves
  <1>CloseReads. ASSUME CloseReads PROVE IInv'
    <2>1. CASE ~log.finished /\ log.phase = "paused"
      <3>1. /\ caller' \in CallerType /\ caller'.at = "appending"
            /\ UNCHANGED <<log, file, eng, group, wakes, calls, faults>>
        BY <1>CloseReads, <1>t, <2>1 DEF CloseReads, CallerType
      <3>2. eng.at = "working" => log.pause = "after_crash"
        BY <2>1 DEF WorksOpen
      <3>3. QED
        BY <1>t, <3>1, <3>2, CallerMoves DEF Settling
    <2>2. CASE ~(~log.finished /\ log.phase = "paused")
      BY <1>CloseReads, <1>t, <1>answers, <2>2 DEF CloseReads, Answers
    <2>3. QED
      BY <2>1, <2>2
  <1>CloseAppends. ASSUME CloseAppends PROVE IInv'
    <2>1. /\ caller' \in CallerType /\ caller'.at = "idle"
          /\ log' \in LogType
          /\ log'.pause = log.pause
          /\ caller.at = "appending" /\ UNCHANGED <<file, eng, group, wakes, calls, faults>>
      BY <1>CloseAppends, Answered DEF CloseAppends, TypeOK, LogType, Phases, Answers
    <2>2. TypeOK'
      BY <2>1 DEF TypeOK, CallerType, LogType
    <2>3. Reachable' /\ FileIsState' /\ StateNames'
      BY <2>1 DEF Reachable, FileIsState, StateNames, Runs, Up, Reads, Named
    <2>4. SettlesWhatItRead' /\ WorksOpen'
      BY <2>1 DEF SettlesWhatItRead, WorksOpen, Settling
    <2>5. QED
      BY <2>2, <2>3, <2>4
  <1>u. CASE UNCHANGED vars
    BY <1>t, <1>u, CallerMoves DEF vars, SettlesWhatItRead, Settling, TypeOK, Reachable,
       FileIsState, StateNames, WorksOpen, Runs, Up, Reads, Named
  <1>q. QED
    BY <1>Wake, <1>RecordResume, <1>WakeEnds, <1>Stop, <1>clear, <1>Crash, <1>Damage, <1>Spawn,
       <1>Register, <1>GroupEnds, <1>Release, <1>NotStopped, <1>CommandNotStopped,
       <1>Cancel, <1>Close, <1>StoppedReads, <1>StoppedEnds, <1>force_kill_group,
       <1>Registered, <1>NotRegistered, <1>Signal, <1>Awaited, <1>Escalate, <1>KillEngine,
       <1>SettleKills, <1>SettleRecords, <1>SettleRemoves, <1>CloseReads, <1>CloseAppends,
       <1>WaitInterrupted, <1>u DEF Next, CallerStep

LEMMA RegistryInvariant == ASSUME Perils = {} PROVE Spec => []IInv
  <1>1. Init => IInv
    BY InitIInv
  <1>2. IInv /\ [Next]_vars => IInv'
    BY NextIInv
  <1>3. QED
    BY <1>1, <1>2, PTL DEF Spec

\* The registry's state keeps its type, whatever fails and whoever is killed
\* when: every group an engine holds is held by one that works.
THEOREM RegistryTypeOK == ASSUME Perils = {} PROVE Spec => []TypeOK
  <1>1. IInv => TypeOK
    BY DEF IInv
  <1>2. QED
    BY <1>1, RegistryInvariant, PTL

\* engine.json names the engine that works and every group that runs, but for
\* those it was made to miss, through wakes, crashes, stops and settlements,
\* failed writes, refused signals and unknown processes.
THEOREM RegistryReachable == ASSUME Perils = {} PROVE Spec => []Reachable
  <1>1. IInv => Reachable
    BY DEF IInv
  <1>2. QED
    BY <1>1, RegistryInvariant, PTL

\* What `cancel` kills of a run that had stopped no engine holds, where no run
\* wakes between its reads and its kills; an engine that was settled as crashed
\* while it worked is the exception.
THEOREM RegistryKillsStrays == ASSUME Perils = {} PROVE Spec => StoppedKillsStrays
  <1>1. ASSUME IInv, NEW g \in Groups, caller.at = "killing"
        PROVE  group[g].held = "none" \/ log.pause = "after_crash"
    BY <1>1 DEF IInv, TypeOK, WorksOpen
  <1>2. IInv => [\A g \in Groups :
          Runs(g) /\ group'[g].at = "gone" /\ caller.at = "killing" /\ caller' # caller
              => group[g].held = "none" \/ log.pause = "after_crash"]_vars
    BY <1>1
  <1>3. QED
    BY <1>2, RegistryInvariant, PTL DEF StoppedKillsStrays
==============================================================================
