---------------------------- MODULE FileLockProofs ----------------------------
(* Proofs about the lock file, for any processes and bounds. All of them      *)
(* assume Perils = {}: no acquire judges gone a record the file no longer     *)
(* holds or that another is about to remove, no launcher dies between its     *)
(* child and the hand-over, and none fails to end a child it could not name.  *)
(* With either peril the lock is open to two holders. Outside them, acquires  *)
(* at once, exits of holders, waiters and children at any step, reused pids   *)
(* and probes that cannot tell are all part of the specification.             *)
EXTENDS FileLock, FiniteSetTheorems, TLAPS

ProcType == [start : 0..MaxStart, at : Places, saw : LockOwner \cup {NULL}, waits : BOOLEAN,
             expired : BOOLEAN, child : Pids \cup {NULL}]

-----------------------------------------------------------------------------
(* The inductive invariant.                                                  *)

(* Every time on record has passed, and only a running process has business  *)
(* with the lock.                                                            *)
Timed ==
    /\ \A p \in Pids : proc[p].start <= started
    /\ \A p \in Pids : proc[p].at # "out" => Alive(p)
    /\ file # NULL => file.started_at <= started

(* The file names whoever has the lock: the process itself, or the launcher  *)
(* that has yet to name its child, or gives up on naming it.                 *)
Named ==
    /\ \A p \in Pids : proc[p].at \in {"held", "releasing", "handing", "undoing"} =>
          file = this_process(p)
    /\ \A c \in Pids : proc[c].at = "works" =>
          \/ file = this_process(c)
          \/ \E p \in Pids : /\ proc[p].at = "handing" /\ proc[p].child = c
                             /\ file = this_process(p)
    /\ \A p \in Pids : proc[p].at = "handing" => proc[p].child \in Pids /\ proc[p].child # p
    /\ \A p \in Pids : proc[p].at \in {"handing", "undoing", "works"} => kind = "none"

(* Only a dead record is about to be removed, by one acquire at a time.      *)
Judged ==
    /\ \A q \in Pids : proc[q].at = "removing" => file # NULL /\ ~Present(file)
    /\ \A q, t \in Pids : proc[q].at = "removing" /\ proc[t].at = "removing" => q = t

(* The record of a gone holder stays while its agents work.                  *)
Guarded ==
    kind = "pool" /\ agents # {} =>
        /\ file # NULL /\ ~Present(file)
        /\ \A q \in Pids : proc[q].at # "removing"

IInv == TypeOK /\ Timed /\ Named /\ Judged /\ Guarded

-----------------------------------------------------------------------------
(* What follows from it.                                                     *)

LEMMA NullRecord == NULL \notin LockOwner /\ NULL \notin Pids
  BY FileLockAssumption DEF LockOwner

(* A process with the lock, or about to hand it on, has a running process    *)
(* named in the file.                                                        *)
LEMMA WithLock ==
  ASSUME IInv, NEW p \in Pids, proc[p].at \in {"held", "works", "releasing", "handing", "undoing"}
  PROVE  file # NULL /\ Present(file)
  <1>1. ASSUME NEW q \in Pids, proc[q].at # "out", file = this_process(q)
        PROVE  file # NULL /\ Present(file)
    <2>1. proc[q].start \in 1..MaxStart
      BY <1>1 DEF IInv, TypeOK, Timed, Alive
    <2>2. this_process(q) \in LockOwner
      BY <2>1 DEF this_process, LockOwner
    <2>3. QED
      BY <1>1, <2>2, NullRecord DEF Present, this_process
  <1>2. QED
    BY <1>1 DEF IInv, Named

(* At most one process has the lock.                                         *)
LEMMA OneHolder ==
  ASSUME IInv, NEW p \in Holders, NEW q \in Holders
  PROVE  p = q
  <1>1. \A r, s \in Pids : this_process(r) = this_process(s) => r = s
    BY DEF this_process
  <1>2. QED
    BY <1>1 DEF IInv, Named, Holders

LEMMA InitIInv == Init => IInv
  <1> SUFFICES ASSUME Init PROVE IInv
    OBVIOUS
  <1>1. Out \in ProcType
    BY FileLockAssumption DEF Out, ProcType, Places
  <1>2. TypeOK
    BY <1>1, FileLockAssumption DEF Init, TypeOK, ProcType
  <1>3. Timed /\ Named /\ Judged /\ Guarded
    BY DEF Init, Out, Timed, Named, Judged, Guarded, Alive, Acquiring
  <1>4. QED
    BY <1>2, <1>3 DEF IInv

(* One process moves: the others stand where they stood.                     *)
LEMMA Moves ==
  ASSUME IInv, NEW p \in Pids, NEW r \in ProcType, proc' = [proc EXCEPT ![p] = r]
  PROVE  /\ proc' \in [Pids -> ProcType] /\ proc'[p] = r
         /\ \A q \in Pids : q # p => proc'[q] = proc[q]
  BY DEF IInv, TypeOK, ProcType

(* A process moves inside acquire, into it or out of it without the lock.    *)
LEMMA Inside ==
  ASSUME IInv, NEW p \in Pids, NEW r \in ProcType, proc' = [proc EXCEPT ![p] = r],
         UNCHANGED <<kind, file, agents, started, exits>>,
         proc[p].at \in Acquiring \cup {"out"}, Alive(p),
         r.at \in Acquiring \cup {"out"}, r.start = proc[p].start,
         r.at = "removing" => /\ file # NULL /\ ~Present(file)
                              /\ \A q \in Pids \ {p} : proc[q].at # "removing"
                              /\ ~(kind = "pool" /\ agents # {})
  PROVE  IInv'
  <1>1. /\ proc' \in [Pids -> ProcType] /\ proc'[p] = r
        /\ \A q \in Pids : q # p => proc'[q] = proc[q]
    BY Moves
  <1>2. \A q \in Pids : proc'[q].start = proc[q].start
    BY <1>1
  <1>3. TypeOK'
    BY <1>1 DEF IInv, TypeOK, ProcType
  <1>4. Timed'
    BY <1>1, <1>2 DEF IInv, Timed, Alive
  <1>5. Named'
    BY <1>1, <1>2 DEF IInv, Named, this_process, Acquiring
  <1>6. \A o \in LockOwner : o.pid \in Pids
    BY DEF LockOwner
  <1>7. file \in LockOwner \cup {NULL}
    BY DEF IInv, TypeOK
  <1>8. file # NULL => (Present(file)' <=> Present(file))
    BY <1>2, <1>6, <1>7 DEF Present
  <1>9. Judged'
    BY <1>1, <1>8 DEF IInv, Judged
  <1>10. Guarded'
    BY <1>1, <1>8 DEF IInv, Guarded
  <1>11. QED
    BY <1>3, <1>4, <1>5, <1>9, <1>10 DEF IInv

(* The record a process starts with.                                         *)
LEMMA Started ==
  ASSUME NEW since \in 0..MaxStart, NEW at \in Places
  PROVE  /\ [Out EXCEPT !.start = since, !.at = at] \in ProcType
         /\ [Out EXCEPT !.start = since, !.at = at].start = since
         /\ [Out EXCEPT !.start = since, !.at = at].at = at
         /\ [Out EXCEPT !.start = since] \in ProcType
         /\ [Out EXCEPT !.start = since].start = since
         /\ [Out EXCEPT !.start = since].at = "out"
  BY FileLockAssumption DEF ProcType, Out, Places

(* The record a step leaves a process with.                                  *)
LEMMA Records ==
  ASSUME IInv, NEW p \in Pids, NEW at \in Places
  PROVE  /\ proc[p] \in ProcType
         /\ [proc[p] EXCEPT !.at = at] \in ProcType
         /\ [Out EXCEPT !.start = proc[p].start, !.at = at] \in ProcType
         /\ [Out EXCEPT !.start = proc[p].start, !.at = at].start = proc[p].start
         /\ [Out EXCEPT !.start = proc[p].start, !.at = at].at = at
         /\ [Out EXCEPT !.start = proc[p].start] \in ProcType
         /\ [Out EXCEPT !.start = proc[p].start].start = proc[p].start
         /\ [Out EXCEPT !.start = proc[p].start].at = "out"
  BY FileLockAssumption DEF IInv, TypeOK, ProcType, Out, Places

LEMMA Runs ==
  ASSUME IInv, NEW p \in Pids, proc[p].at \in Acquiring
  PROVE  Alive(p)
  BY DEF IInv, Timed, Acquiring

-----------------------------------------------------------------------------
(* The steps inside acquire.                                                 *)

LEMMA StepAcquire == ASSUME IInv, NEW p \in Pids, NEW waits \in BOOLEAN, Acquire(p, waits)
                     PROVE  IInv'
  <1> DEFINE r == [proc[p] EXCEPT !.at = "creating", !.waits = waits]
  <1>1. r \in ProcType /\ r.at = "creating" /\ r.start = proc[p].start
    BY DEF IInv, TypeOK, ProcType, Places, Acquiring
  <1>2. proc' = [proc EXCEPT ![p] = r]
    BY DEF Acquire, IInv, TypeOK
  <1> HIDE DEF r
  <1>3. QED
    BY <1>1, <1>2, Inside DEF Acquire, Acquiring

LEMMA StepReadHolder == ASSUME IInv, NEW p \in Pids, ReadHolder(p) PROVE IInv'
  <1> DEFINE r == [proc[p] EXCEPT !.saw = file, !.at = "probing"]
  <1>1. r \in ProcType /\ r.at = "probing" /\ r.start = proc[p].start /\ r.saw = file
    BY DEF IInv, TypeOK, ProcType, Places, Acquiring
  <1>2. proc' = [proc EXCEPT ![p] = r]
    BY DEF ReadHolder, IInv, TypeOK
  <1>3. proc[p].at \in Acquiring
    BY DEF ReadHolder, Acquiring
  <1> HIDE DEF r
  <1>4. QED
    BY <1>1, <1>2, <1>3, Runs, Inside DEF ReadHolder, Acquiring

(* A process that moves on to another place inside acquire, or leaves it.    *)
LEMMA Going ==
  ASSUME IInv, NEW p \in Pids, proc[p].at \in Acquiring,
         NEW at \in Acquiring \cup {"out"},
         at = "removing" => /\ file # NULL /\ ~Present(file)
                            /\ \A q \in Pids \ {p} : proc[q].at # "removing"
                            /\ ~(kind = "pool" /\ agents # {}),
         Go(p, at) \/ Leave(p), UNCHANGED <<kind, file, agents, started, exits>>
  PROVE  IInv'
  <1>1. Alive(p)
    BY Runs
  <1>2. CASE Go(p, at)
    <2> DEFINE r == [proc[p] EXCEPT !.at = at]
    <2>1. r \in ProcType /\ r.at = at /\ r.start = proc[p].start
      <3>1. proc[p] \in ProcType /\ at \in Places
        BY DEF Places, IInv, TypeOK, ProcType
      <3>2. QED
        BY <3>1 DEF ProcType
    <2>2. proc' = [proc EXCEPT ![p] = r]
      BY <1>2 DEF Go
    <2> HIDE DEF r
    <2>3. QED
      BY <1>1, <2>1, <2>2, Inside
  <1>3. CASE Leave(p)
    <2> DEFINE r == [Out EXCEPT !.start = proc[p].start]
    <2>1. r \in ProcType /\ r.at = "out" /\ r.start = proc[p].start
      BY Records DEF Places
    <2>2. proc' = [proc EXCEPT ![p] = r]
      BY <1>3 DEF Leave
    <2> HIDE DEF r
    <2>3. QED
      BY <1>1, <2>1, <2>2, Inside DEF Acquiring
  <1>4. QED
    BY <1>2, <1>3

(* Only a dead record reads as gone, and it is the one in the file.          *)
LEMMA StepFoundGone == ASSUME IInv, Perils = {}, NEW p \in Pids, FoundGone(p) PROVE IInv'
  <1>1. /\ proc[p].at = "probing" /\ proc[p].saw # NULL
        /\ "dead" \in holder_state(proc[p].saw)
        /\ UNCHANGED <<kind, file, agents, started, exits>>
        /\ IF keep(proc[p].saw) THEN Leave(p) ELSE Go(p, "removing")
        /\ file = proc[p].saw /\ \A q \in Pids : proc[q].at # "removing"
    BY DEF FoundGone, Unmoved
  <1>2. proc[p].saw \in LockOwner
    BY <1>1 DEF IInv, TypeOK
  <1>3. ~Present(proc[p].saw)
    BY <1>1, <1>2 DEF holder_state, Alive, Present, LockOwner, IInv, TypeOK
  <1>4. file # NULL /\ ~Present(file)
    BY <1>1, <1>3
  <1>5. CASE keep(proc[p].saw)
    BY <1>1, <1>5, Going DEF Acquiring
  <1>6. CASE ~keep(proc[p].saw)
    BY <1>1, <1>4, <1>6, Going DEF Acquiring, keep
  <1>7. QED
    BY <1>5, <1>6

LEMMA StepFoundPresent == ASSUME IInv, NEW p \in Pids, FoundPresent(p) PROVE IInv'
  <1>1. /\ proc[p].at = "probing" /\ UNCHANGED <<kind, file, agents, started, exits>>
        /\ Go(p, "waiting") \/ Leave(p)
    BY DEF FoundPresent
  <1>2. QED
    BY <1>1, Going DEF Acquiring

LEMMA StepWaiting == ASSUME IInv, NEW p \in Pids, PollAgain(p) \/ CancelWait(p) PROVE IInv'
  <1>1. /\ proc[p].at = "waiting" /\ UNCHANGED <<kind, file, agents, started, exits>>
        /\ Go(p, "creating") \/ Leave(p)
    BY DEF PollAgain, CancelWait
  <1>2. QED
    BY <1>1, Going DEF Acquiring

LEMMA StepPatienceRunsOut == ASSUME IInv, NEW p \in Pids, PatienceRunsOut(p) PROVE IInv'
  <1> DEFINE r == [proc[p] EXCEPT !.expired = TRUE]
  <1>1. proc[p] \in ProcType
    BY DEF IInv, TypeOK, ProcType
  <1>2. r \in ProcType /\ r.at = proc[p].at /\ r.start = proc[p].start /\ r.saw = proc[p].saw
    BY <1>1 DEF ProcType
  <1>3. proc' = [proc EXCEPT ![p] = r] /\ proc[p].at \in Acquiring
    BY DEF PatienceRunsOut
  <1>4. proc[p].at = "removing" => ~(kind = "pool" /\ agents # {})
    BY DEF IInv, Guarded
  <1> HIDE DEF r
  <1>5. QED
    BY <1>2, <1>3, <1>4, Runs, Inside DEF PatienceRunsOut, IInv, Judged

-----------------------------------------------------------------------------
(* The steps that write or remove the file.                                  *)

LEMMA StepCreateRecord == ASSUME IInv, NEW p \in Pids, CreateRecord(p) PROVE IInv'
  <1>1. /\ proc[p].at = "creating" /\ UNCHANGED <<kind, agents, started, exits>>
        /\ proc[p].at \in Acquiring
    BY DEF CreateRecord, Acquiring
  <1>2. CASE Go(p, "reading") /\ UNCHANGED file
    BY <1>1, <1>2, Going DEF Acquiring
  <1>3. CASE /\ file = NULL /\ file' = this_process(p)
             /\ proc' = [proc EXCEPT ![p] = [Out EXCEPT !.start = proc[p].start, !.at = "held"]]
    <2> DEFINE r == [Out EXCEPT !.start = proc[p].start, !.at = "held"]
    <2>1. r \in ProcType /\ r.start = proc[p].start /\ r.at = "held"
      BY Records DEF Places
    <2>2. proc' = [proc EXCEPT ![p] = r]
      BY <1>3
    <2> HIDE DEF r
    <2>3. /\ proc' \in [Pids -> ProcType] /\ proc'[p] = r
          /\ \A q \in Pids : q # p => proc'[q] = proc[q]
      BY <2>1, <2>2, Moves
    <2>4. \A q \in Pids : proc'[q].start = proc[q].start
      BY <2>1, <2>3
    <2>5. \A q \in Pids : proc[q].at \notin {"held", "works", "releasing", "handing", "undoing", "removing"}
      BY <1>3, WithLock DEF IInv, Judged
    <2>6. proc[p].start \in 1..MaxStart /\ proc[p].start <= started
      BY <1>1, Runs DEF IInv, TypeOK, Timed, Alive
    <2>7. this_process(p) \in LockOwner /\ this_process(p).started_at = proc[p].start
          /\ this_process(p).pid = p
      BY <2>6 DEF this_process, LockOwner
    <2>8. file' # NULL /\ Present(file)'
      BY <1>3, <2>4, <2>7, NullRecord DEF Present
    <2>9. TypeOK'
      BY <1>1, <1>3, <2>3, <2>7 DEF IInv, TypeOK, ProcType
    <2>10. Timed'
      BY <1>1, <1>3, <2>1, <2>3, <2>4, <2>6, <2>7 DEF IInv, Timed, Alive
    <2>11. Named'
      BY <1>1, <1>3, <2>1, <2>3, <2>4, <2>5 DEF IInv, Named, this_process
    <2>12. Judged'
      <3>1. \A q \in Pids : proc'[q].at # "removing"
        BY <1>3, <2>3 DEF IInv, Judged
      <3>2. QED
        BY <3>1 DEF Judged
    <2>13. Guarded'
      BY <1>1, <1>3 DEF IInv, Guarded
    <2>14. QED
      BY <2>9, <2>10, <2>11, <2>12, <2>13 DEF IInv
  <1>4. QED
    BY <1>2, <1>3 DEF CreateRecord

LEMMA StepRemoveStale == ASSUME IInv, NEW p \in Pids, RemoveStale(p) PROVE IInv'
  <1>1. /\ proc[p].at = "removing" /\ file' = NULL
        /\ UNCHANGED <<kind, agents, started, exits>>
    BY DEF RemoveStale
  <1> DEFINE r == [proc[p] EXCEPT !.at = "creating"]
  <1>2. r \in ProcType /\ r.start = proc[p].start /\ r.at = "creating"
    <2>1. proc[p] \in ProcType
      BY DEF IInv, TypeOK, ProcType
    <2>2. QED
      BY <2>1 DEF ProcType, Places, Acquiring
  <1>3. proc' = [proc EXCEPT ![p] = r]
    BY DEF RemoveStale, Go
  <1> HIDE DEF r
  <1>4. /\ proc' \in [Pids -> ProcType] /\ proc'[p] = r
        /\ \A q \in Pids : q # p => proc'[q] = proc[q]
    BY <1>2, <1>3, Moves
  <1>5. /\ file # NULL /\ ~Present(file)
        /\ \A q \in Pids : q # p => proc[q].at # "removing"
    BY <1>1 DEF IInv, Judged
  <1>6. \A q \in Pids : proc'[q].at \notin {"held", "works", "releasing", "handing", "undoing", "removing"}
    <2>1. \A q \in Pids : proc[q].at \notin {"held", "works", "releasing", "handing", "undoing"}
      BY <1>5, WithLock
    <2>2. QED
      BY <1>2, <1>4, <1>5, <2>1
  <1>7. TypeOK'
    BY <1>1, <1>4 DEF IInv, TypeOK, ProcType
  <1>8. Timed'
    BY <1>1, <1>2, <1>4 DEF IInv, Timed, Alive
  <1>9. Named'
    BY <1>6 DEF Named
  <1>10. Judged'
    BY <1>6 DEF Judged
  <1>11. Guarded'
    BY <1>1 DEF IInv, Guarded
  <1>12. QED
    BY <1>7, <1>8, <1>9, <1>10, <1>11 DEF IInv

(* A holder that is about to remove its record, or leaves it to another's.   *)
LEMMA Releases ==
  ASSUME IInv, NEW p \in Pids, NEW r \in ProcType, proc' = [proc EXCEPT ![p] = r],
         r.start = proc[p].start, proc[p].at \in {"held", "works"},
         r.at = "out" \/ (r.at = "releasing" /\ file = this_process(p)),
         UNCHANGED <<kind, file, agents, started, exits>>
  PROVE  IInv'
  <1>1. /\ proc' \in [Pids -> ProcType] /\ proc'[p] = r
        /\ \A q \in Pids : q # p => proc'[q] = proc[q]
    BY Moves
  <1>2. \A q \in Pids : proc'[q].start = proc[q].start
    BY <1>1
  <1>3. file # NULL /\ Present(file) /\ file \in LockOwner
    BY WithLock DEF IInv, TypeOK
  <1>4. Present(file)'
    BY <1>2, <1>3 DEF Present, LockOwner
  <1>5. TypeOK'
    BY <1>1 DEF IInv, TypeOK, ProcType
  <1>6. Timed'
    BY <1>1, <1>2 DEF IInv, Timed, Alive
  <1>7. Named'
    BY <1>1, <1>2 DEF IInv, Named, this_process
  <1>8. Judged'
    <2>1. \A q \in Pids : proc'[q].at # "removing"
      BY <1>1, <1>3 DEF IInv, Judged
    <2>2. QED
      BY <2>1 DEF Judged
  <1>9. Guarded'
    BY <1>3 DEF IInv, Guarded
  <1>10. QED
    BY <1>5, <1>6, <1>7, <1>8, <1>9 DEF IInv

LEMMA StepReleaseReads == ASSUME IInv, NEW p \in Pids, ReleaseReads(p) PROVE IInv'
  <1>1. /\ proc[p].at \in {"held", "works"} /\ UNCHANGED <<kind, file, agents, started, exits>>
        /\ \/ file = this_process(p) /\ Go(p, "releasing")
           \/ file # this_process(p) /\ Leave(p)
    BY DEF ReleaseReads
  <1>2. CASE Leave(p)
    <2> DEFINE r == [Out EXCEPT !.start = proc[p].start]
    <2>1. r \in ProcType /\ r.start = proc[p].start /\ r.at = "out"
      BY Records DEF Places
    <2>2. proc' = [proc EXCEPT ![p] = r]
      BY <1>2 DEF Leave
    <2> HIDE DEF r
    <2>3. QED
      BY <1>1, <2>1, <2>2, Releases
  <1>3. CASE file = this_process(p) /\ Go(p, "releasing")
    <2> DEFINE r == [proc[p] EXCEPT !.at = "releasing"]
    <2>1. r \in ProcType /\ r.start = proc[p].start /\ r.at = "releasing"
      <3>1. proc[p] \in ProcType
        BY DEF IInv, TypeOK, ProcType
      <3>2. QED
        BY <3>1 DEF ProcType, Places
    <2>2. proc' = [proc EXCEPT ![p] = r]
      BY <1>3 DEF Go
    <2> HIDE DEF r
    <2>3. QED
      BY <1>1, <1>3, <2>1, <2>2, Releases
  <1>4. QED
    BY <1>1, <1>2, <1>3

LEMMA StepReleaseRemoves == ASSUME IInv, NEW p \in Pids, ReleaseRemoves(p) PROVE IInv'
  <1>1. /\ proc[p].at \in {"releasing", "undoing"} /\ file' = NULL /\ Leave(p)
        /\ UNCHANGED <<kind, agents, started, exits>>
    BY DEF ReleaseRemoves, IInv, Named
  <1> DEFINE r == [Out EXCEPT !.start = proc[p].start]
  <1>2. r \in ProcType /\ r.start = proc[p].start /\ r.at = "out"
    BY Records DEF Places
  <1>3. proc' = [proc EXCEPT ![p] = r]
    BY <1>1 DEF Leave
  <1> HIDE DEF r
  <1>4. /\ proc' \in [Pids -> ProcType] /\ proc'[p] = r
        /\ \A q \in Pids : q # p => proc'[q] = proc[q]
    BY <1>2, <1>3, Moves
  <1>5. \A q \in Pids : proc'[q].start = proc[q].start
    BY <1>2, <1>4
  <1>6. file = this_process(p) /\ file # NULL /\ Present(file)
    BY <1>1, WithLock DEF IInv, Named
  <1>7. \A q \in Pids : proc'[q].at \notin {"held", "works", "releasing", "handing", "undoing", "removing"}
    <2>1. ASSUME NEW q \in Pids, q # p
          PROVE  proc[q].at \notin {"held", "works", "releasing", "handing", "undoing", "removing"}
      BY <1>1, <1>6, <2>1 DEF IInv, Named, Judged, this_process
    <2>2. QED
      BY <1>2, <1>4, <2>1
  <1>8. TypeOK'
    BY <1>1, <1>4 DEF IInv, TypeOK, ProcType
  <1>9. Timed'
    BY <1>1, <1>2, <1>4, <1>5 DEF IInv, Timed, Alive
  <1>10. Named'
    BY <1>7 DEF Named
  <1>11. Judged'
    BY <1>7 DEF Judged
  <1>12. Guarded'
    BY <1>1, <1>6 DEF IInv, Guarded
  <1>13. QED
    BY <1>8, <1>9, <1>10, <1>11, <1>12 DEF IInv

(* The launcher's record gives way to its child's.                           *)
LEMMA StepHandOver == ASSUME IInv, NEW p \in Pids, HandOver(p) PROVE IInv'
  <1> DEFINE c == proc[p].child
             since == IF Alive(c) THEN proc[c].start ELSE started
             r == [Out EXCEPT !.start = proc[p].start]
  <1>1. /\ proc[p].at = "handing" /\ file' = [pid |-> c, started_at |-> since]
        /\ proc' = [proc EXCEPT ![p] = r] /\ UNCHANGED <<kind, agents, started, exits>>
    BY DEF HandOver, Leave
  <1>2. r \in ProcType /\ r.start = proc[p].start /\ r.at = "out"
    BY Records DEF Places
  <1> HIDE DEF r
  <1>3. /\ proc' \in [Pids -> ProcType] /\ proc'[p] = r
        /\ \A q \in Pids : q # p => proc'[q] = proc[q]
    BY <1>1, <1>2, Moves
  <1>4. \A q \in Pids : proc'[q].start = proc[q].start
    BY <1>2, <1>3
  <1>5. file = this_process(p) /\ file # NULL /\ Present(file) /\ c \in Pids /\ kind = "none"
    BY <1>1, WithLock DEF IInv, Named
  <1>6. proc[p].start \in 1..MaxStart /\ proc[p].start <= started
    BY <1>1 DEF IInv, TypeOK, Timed, Alive
  <1>7. since \in 1..MaxStart /\ since <= started
    BY <1>5, <1>6, FileLockAssumption DEF IInv, TypeOK, Timed, Alive
  <1>8. file' \in LockOwner /\ file' # NULL
    BY <1>1, <1>5, <1>7, NullRecord DEF LockOwner
  <1>9. ASSUME NEW q \in Pids, q # p
        PROVE  /\ proc[q].at \notin {"held", "releasing", "handing", "undoing", "removing"}
               /\ proc[q].at = "works" => q = c
    BY <1>1, <1>5, <1>9 DEF IInv, Named, Judged, this_process
  <1>10. Alive(c) => Present(file)'
    BY <1>1, <1>4, <1>5, <1>7 DEF Present
  <1> HIDE DEF c, since
  <1>11. TypeOK'
    BY <1>1, <1>3, <1>8 DEF IInv, TypeOK, ProcType
  <1>12. Timed'
    BY <1>1, <1>2, <1>3, <1>4, <1>7 DEF IInv, Timed, Alive
  <1>13. Named'
    <2>1. ASSUME NEW q \in Pids, proc'[q].at = "works" PROVE file' = this_process(q)'
      <3>1. q = c /\ proc[q].at = "works"
        BY <1>2, <1>3, <1>9, <2>1
      <3>2. Alive(c)
        BY <3>1 DEF IInv, Timed
      <3>3. file' = [pid |-> q, started_at |-> proc'[q].start]
        BY <1>1, <1>4, <3>1, <3>2, <1>5 DEF since
      <3>4. QED
        BY <3>3 DEF this_process
    <2>2. \A q \in Pids : proc'[q].at \notin {"held", "releasing", "handing", "undoing"}
      BY <1>2, <1>3, <1>9
    <2>3. QED
      BY <1>1, <1>5, <2>1, <2>2 DEF Named
  <1>14. Judged'
    <2>1. \A q \in Pids : proc'[q].at # "removing"
      BY <1>2, <1>3, <1>9
    <2>2. QED
      BY <2>1 DEF Judged
  <1>15. Guarded'
    BY <1>1, <1>5 DEF Guarded
  <1>16. QED
    BY <1>11, <1>12, <1>13, <1>14, <1>15 DEF IInv

(* What a failed hand-over does: the launcher is about to release the lock    *)
(* and its child is gone.                                                    *)
LEMMA Undone ==
  ASSUME IInv, Perils = {}, NEW p \in Pids, HandOffFails(p)
  PROVE  /\ proc[p].at = "handing" /\ proc[p].child \in Pids /\ proc[p].child # p
         /\ exits < MaxExits /\ exits' = exits + 1 /\ UNCHANGED <<kind, file, agents, started>>
         /\ proc' \in [Pids -> ProcType]
         /\ proc'[p].at = "undoing" /\ proc'[p].start = proc[p].start
         /\ proc'[proc[p].child] = Out
         /\ \A q \in Pids : q # p /\ q # proc[p].child => proc'[q] = proc[q]
  <1> DEFINE c == proc[p].child
             r == [proc[p] EXCEPT !.at = "undoing"]
  <1>1. /\ proc[p].at = "handing" /\ exits < MaxExits /\ exits' = exits + 1
        /\ UNCHANGED <<kind, file, agents, started>>
        /\ proc' = [[proc EXCEPT ![p].at = "undoing"] EXCEPT ![c] = Out]
    BY DEF HandOffFails
  <1>2. c \in Pids /\ c # p
    BY <1>1 DEF IInv, Named
  <1>3. proc \in [Pids -> ProcType]
    BY DEF IInv, TypeOK, ProcType
  <1>4. r \in ProcType /\ r.at = "undoing" /\ r.start = proc[p].start
    BY <1>3 DEF ProcType, Places
  <1>5. Out \in ProcType
    BY FileLockAssumption DEF Out, ProcType, Places
  <1>6. proc' = [[proc EXCEPT ![p] = r] EXCEPT ![c] = Out]
    BY <1>1
  <1> HIDE DEF c, r
  <1>7. QED
    BY <1>1, <1>2, <1>3, <1>4, <1>5, <1>6 DEF c

LEMMA StepHandOffFails == ASSUME IInv, Perils = {}, NEW p \in Pids, HandOffFails(p) PROVE IInv'
  <1> DEFINE c == proc[p].child
  <1>1. /\ proc[p].at = "handing" /\ c \in Pids /\ c # p
        /\ exits < MaxExits /\ exits' = exits + 1 /\ UNCHANGED <<kind, file, agents, started>>
        /\ proc' \in [Pids -> ProcType]
        /\ proc'[p].at = "undoing" /\ proc'[p].start = proc[p].start
        /\ proc'[c] = Out
        /\ \A q \in Pids : q # p /\ q # c => proc'[q] = proc[q]
    BY Undone
  <1>2. Out.start = 0 /\ Out.at = "out"
    BY DEF Out
  <1>3. file = this_process(p) /\ file # NULL /\ Present(file) /\ kind = "none"
    BY <1>1, WithLock DEF IInv, Named
  <1>4. ASSUME NEW q \in Pids, q # p, q # c
        PROVE  proc'[q].at \notin {"held", "works", "releasing", "handing", "undoing", "removing"}
    <2>1. \A t \in Pids : file = this_process(t) => t = p
      BY <1>3 DEF this_process
    <2>2. proc[q].at \notin {"held", "releasing", "handing", "undoing", "removing"}
      BY <1>3, <1>4, <2>1 DEF IInv, Named, Judged
    <2>3. proc[q].at # "works"
      BY <1>4, <2>1 DEF IInv, Named
    <2>4. QED
      BY <1>1, <1>4, <2>2, <2>3
  <1> HIDE DEF c
  <1>5. TypeOK'
    <2>1. exits' \in 0..MaxExits
      BY <1>1, FileLockAssumption DEF IInv, TypeOK
    <2>2. QED
      BY <1>1, <2>1 DEF IInv, TypeOK, ProcType
  <1>6. Timed'
    <2>1. \A q \in Pids : proc[q].start <= started /\ 0 <= started
      BY DEF IInv, TypeOK, Timed
    <2>2. \A q \in Pids : proc'[q].start \in {0, proc[q].start}
      BY <1>1, <1>2
    <2>3. \A q \in Pids : proc'[q].at # "out" => proc'[q].start = proc[q].start /\ proc[q].at # "out"
      BY <1>1, <1>2
    <2>4. QED
      BY <1>1, <2>1, <2>2, <2>3 DEF IInv, Timed, Alive
  <1>7. Named'
    <2>1. file' = this_process(p)'
      BY <1>1, <1>3 DEF this_process
    <2>2. QED
      BY <1>1, <1>2, <1>3, <1>4, <2>1 DEF Named
  <1>8. Judged'
    BY <1>1, <1>2, <1>4 DEF Judged
  <1>9. Guarded'
    BY <1>1, <1>3 DEF Guarded
  <1>10. QED
    BY <1>5, <1>6, <1>7, <1>8, <1>9 DEF IInv

LEMMA StepSpawnChild == ASSUME IInv, NEW p \in Pids, NEW c \in Pids, SpawnChild(p, c) PROVE IInv'
  <1>1. /\ kind = "none" /\ proc[p].at = "held" /\ ~Alive(c) /\ started < MaxStart
        /\ started' = started + 1 /\ UNCHANGED <<kind, file, agents, exits>>
    BY DEF SpawnChild
  <1>2. c # p
    BY <1>1 DEF IInv, Timed
  <1> DEFINE r == [proc[p] EXCEPT !.at = "handing", !.child = c]
             n == [Out EXCEPT !.start = started + 1, !.at = "works"]
  <1>3. r \in ProcType /\ r.start = proc[p].start /\ r.at = "handing" /\ r.child = c
    <2>1. proc[p] \in ProcType
      BY DEF IInv, TypeOK, ProcType
    <2>2. QED
      BY <2>1 DEF ProcType, Places
  <1>4. n \in ProcType /\ n.start = started + 1 /\ n.at = "works"
    <2>1. started + 1 \in 0..MaxStart /\ "works" \in Places
      BY <1>1, FileLockAssumption DEF IInv, TypeOK, Places
    <2>2. QED
      BY <2>1, Started
  <1>5. proc' = [proc EXCEPT ![p] = r, ![c] = n]
    BY <1>2 DEF SpawnChild, IInv, TypeOK
  <1> HIDE DEF r, n
  <1>6. /\ proc' \in [Pids -> ProcType] /\ proc'[p] = r /\ proc'[c] = n
        /\ \A q \in Pids : q # p /\ q # c => proc'[q] = proc[q]
    BY <1>2, <1>3, <1>4, <1>5 DEF IInv, TypeOK, ProcType
  <1>7. \A q \in Pids : q # c => proc'[q].start = proc[q].start
    BY <1>3, <1>6
  <1>8. file = this_process(p) /\ file # NULL /\ Present(file)
    BY <1>1, WithLock DEF IInv, Named
  <1>9. Present(file)' /\ file' = this_process(p)'
    BY <1>1, <1>2, <1>7, <1>8 DEF Present, this_process
  <1>10. started \in Nat /\ proc[c].start = 0
    BY <1>1, FileLockAssumption DEF IInv, TypeOK, Alive
  <1>11. \A q \in Pids : q # p =>
            proc[q].at \notin {"held", "works", "releasing", "handing", "undoing", "removing"}
    BY <1>1, <1>8 DEF IInv, Named, Judged, this_process
  <1>12. TypeOK'
    BY <1>1, <1>6, <1>10, FileLockAssumption DEF IInv, TypeOK, ProcType
  <1>13. Timed'
    <2>1. \A q \in Pids : proc[q].start \in Nat /\ proc[q].start <= started
      BY FileLockAssumption DEF IInv, TypeOK, Timed
    <2>2. file.started_at = proc[p].start
      BY <1>8 DEF this_process
    <2>3. \A q \in Pids : proc'[q].start <= started' /\ (proc'[q].at # "out" => proc'[q].start > 0)
      BY <1>1, <1>2, <1>3, <1>4, <1>6, <1>10, <2>1 DEF IInv, Timed, Alive
    <2>4. QED
      BY <1>1, <1>10, <2>1, <2>2, <2>3 DEF Timed, Alive
  <1>14. Named'
    <2>1. \A q \in Pids : q # p /\ q # c =>
              proc'[q].at \notin {"held", "works", "releasing", "handing", "undoing"}
      BY <1>6, <1>11
    <2>2. QED
      BY <1>1, <1>3, <1>4, <1>6, <1>9, <2>1 DEF Named
  <1>15. Judged'
    <2>1. \A q \in Pids : proc'[q].at # "removing"
      BY <1>3, <1>4, <1>6, <1>11
    <2>2. QED
      BY <2>1 DEF Judged
  <1>16. Guarded'
    BY <1>1 DEF Guarded
  <1>17. QED
    BY <1>12, <1>13, <1>14, <1>15, <1>16 DEF IInv

-----------------------------------------------------------------------------
(* The host's steps.                                                         *)

(* A new process, on a pid nobody has or one a gone process had: the time it *)
(* starts is on no record.                                                   *)
LEMMA StepStartProcess == ASSUME IInv, NEW p \in Pids, StartProcess(p) PROVE IInv'
  <1> DEFINE r == [Out EXCEPT !.start = started + 1]
  <1>1. /\ ~Alive(p) /\ started < MaxStart /\ started' = started + 1
        /\ proc' = [proc EXCEPT ![p] = r] /\ UNCHANGED <<kind, file, agents, exits>>
    BY DEF StartProcess
  <1>2. r \in ProcType /\ r.start = started + 1 /\ r.at = "out"
    <2>1. started + 1 \in 0..MaxStart /\ "out" \in Places
      BY <1>1, FileLockAssumption DEF IInv, TypeOK, Places
    <2>2. QED
      BY <2>1, Started
  <1> HIDE DEF r
  <1>3. /\ proc' \in [Pids -> ProcType] /\ proc'[p] = r
        /\ \A q \in Pids : q # p => proc'[q] = proc[q]
    BY <1>1, <1>2, Moves
  <1>4. started \in Nat /\ proc[p].start = 0 /\ proc[p].at = "out"
    BY <1>1, FileLockAssumption DEF IInv, TypeOK, Timed, Alive
  <1>5. \A o \in LockOwner : Present(o) => o.pid # p /\ o.pid \in Pids
    BY <1>4 DEF Present, LockOwner
  <1>6. file # NULL => (Present(file)' <=> Present(file))
    <2>1. SUFFICES ASSUME file # NULL PROVE Present(file)' <=> Present(file)
      OBVIOUS
    <2>2. file \in LockOwner /\ file.started_at <= started
      BY <2>1 DEF IInv, TypeOK, Timed
    <2>3. file.pid \in Pids /\ file.started_at \in 1..MaxStart
      BY <2>2 DEF LockOwner
    <2>4. QED
      BY <1>1, <1>2, <1>3, <1>4, <2>2, <2>3 DEF Present
  <1>7. TypeOK'
    BY <1>1, <1>3, <1>4, FileLockAssumption DEF IInv, TypeOK, ProcType
  <1>8. Timed'
    <2>1. \A q \in Pids : proc[q].start \in Nat /\ proc[q].start <= started
      BY FileLockAssumption DEF IInv, TypeOK, Timed
    <2>2. \A q \in Pids : proc'[q].start <= started' /\ (proc'[q].at # "out" => proc'[q].start > 0)
      BY <1>1, <1>2, <1>3, <1>4, <2>1 DEF IInv, Timed, Alive
    <2>3. file # NULL => file.started_at <= started'
      <3>1. SUFFICES ASSUME file # NULL PROVE file.started_at <= started'
        OBVIOUS
      <3>2. file.started_at \in 1..MaxStart /\ file.started_at <= started
        BY <3>1 DEF IInv, TypeOK, Timed, LockOwner
      <3>3. QED
        BY <1>1, <1>4, <3>2, FileLockAssumption
    <2>4. QED
      BY <1>1, <2>2, <2>3 DEF Timed, Alive
  <1>9. Named'
    <2>1. \A q \in Pids : proc'[q].at # "out" => q # p /\ proc'[q] = proc[q]
      BY <1>2, <1>3
    <2>2. QED
      BY <1>1, <1>4, <2>1 DEF IInv, Named, this_process
  <1>10. Judged'
    BY <1>1, <1>2, <1>3, <1>6 DEF IInv, Judged
  <1>11. Guarded'
    BY <1>1, <1>2, <1>3, <1>6 DEF IInv, Guarded
  <1>12. QED
    BY <1>7, <1>8, <1>9, <1>10, <1>11 DEF IInv

LEMMA StepProcessGone ==
  ASSUME IInv, Perils = {}, NEW p \in Pids, NEW survive \in BOOLEAN, ProcessGone(p, survive)
  PROVE  IInv'
  <1>1. /\ Alive(p) /\ exits < MaxExits /\ proc[p].at # "handing"
        /\ exits' = exits + 1 /\ proc' = [proc EXCEPT ![p] = Out]
        /\ survive => proc[p].at \in {"held", "works"}
        /\ agents' = IF survive THEN agents \cup {this_process(p)} ELSE agents
        /\ UNCHANGED <<kind, file, started>>
    BY DEF ProcessGone
  <1>2. Out \in ProcType /\ Out.start = 0 /\ Out.at = "out"
    BY FileLockAssumption DEF Out, ProcType, Places
  <1>3. /\ proc' \in [Pids -> ProcType] /\ proc'[p] = Out
        /\ \A q \in Pids : q # p => proc'[q] = proc[q]
    BY <1>1, <1>2, Moves
  <1>4. exits \in Nat /\ exits' \in 0..MaxExits /\ exits' > 0 /\ exits' # 0
    BY <1>1, FileLockAssumption DEF IInv, TypeOK
  <1>5. this_process(p) \in LockOwner
    BY <1>1 DEF this_process, LockOwner, Alive, IInv, TypeOK
  <1>6. file # NULL /\ ~Present(file) => ~Present(file)'
    <2>1. SUFFICES ASSUME file # NULL, ~Present(file) PROVE ~Present(file)'
      OBVIOUS
    <2>2. file \in LockOwner /\ file.pid \in Pids /\ file.started_at \in 1..MaxStart
      BY <2>1 DEF IInv, TypeOK, LockOwner
    <2>3. QED
      BY <1>1, <1>2, <1>3, <2>1, <2>2 DEF Present
  <1>7. TypeOK'
    BY <1>1, <1>3, <1>4, <1>5 DEF IInv, TypeOK, ProcType
  <1>8. Timed'
    <2>1. 0 <= started
      BY DEF IInv, TypeOK
    <2>2. QED
      BY <1>1, <1>2, <1>3, <2>1 DEF IInv, Timed, Alive
  <1>9. Named'
    <2>1. \A q \in Pids : proc'[q].at # "out" => q # p /\ proc'[q] = proc[q]
      BY <1>2, <1>3
    <2>2. QED
      BY <1>1, <1>2, <1>3, <2>1 DEF IInv, Named, this_process
  <1>10. Judged'
    BY <1>1, <1>2, <1>3, <1>6 DEF IInv, Judged
  <1>11. Guarded'
    <2>1. SUFFICES ASSUME kind = "pool", agents' # {}
                   PROVE  /\ file' # NULL /\ ~Present(file)'
                          /\ \A q \in Pids : proc'[q].at # "removing"
      BY <1>1 DEF Guarded
    <2>2. CASE survive
      <3>1. file = this_process(p) /\ file # NULL /\ Present(file)
        BY <1>1, <2>1, <2>2, WithLock DEF IInv, Named
      <3>2. ~Present(file)'
        BY <1>1, <1>2, <1>3, <1>5, <3>1 DEF Present, this_process, LockOwner
      <3>3. QED
        BY <1>1, <1>2, <1>3, <3>1, <3>2 DEF IInv, Judged
    <2>3. CASE ~survive
      BY <1>1, <1>2, <1>3, <1>6, <2>1, <2>3 DEF IInv, Guarded
    <2>4. QED
      BY <2>2, <2>3
  <1>12. QED
    BY <1>7, <1>8, <1>9, <1>10, <1>11 DEF IInv

LEMMA StepAgentsGone == ASSUME IInv, NEW owner, AgentsGone(owner) PROVE IInv'
  <1>1. owner \in agents /\ agents' = agents \ {owner} /\ UNCHANGED <<kind, file, proc, started, exits>>
    BY DEF AgentsGone
  <1>2. TypeOK' /\ Timed' /\ Named' /\ Judged'
    BY <1>1 DEF IInv, TypeOK, Timed, Named, Judged, Alive, Present, this_process
  <1>3. Guarded'
    BY <1>1 DEF IInv, Guarded, Present
  <1>4. QED
    BY <1>2, <1>3 DEF IInv

LEMMA NextIInv == Perils = {} /\ IInv /\ [Next]_vars => IInv'
  <1> SUFFICES ASSUME Perils = {}, IInv, [Next]_vars PROVE IInv'
    OBVIOUS
  <1>1. ASSUME NEW p \in Pids, Step(p) PROVE IInv'
    BY <1>1, StepCreateRecord, StepReadHolder, StepFoundGone, StepFoundPresent, StepRemoveStale,
       StepWaiting, StepHandOver, StepReleaseRemoves DEF Step
  <1>2. ASSUME NEW p \in Pids,
               \/ StartProcess(p)
               \/ \E survive \in BOOLEAN : ProcessGone(p, survive)
               \/ \E waits \in BOOLEAN : Acquire(p, waits)
               \/ CancelWait(p) \/ PatienceRunsOut(p) \/ ReleaseReads(p)
               \/ HandOffFails(p) \/ \E c \in Pids : SpawnChild(p, c)
        PROVE  IInv'
    BY <1>2, StepStartProcess, StepProcessGone, StepAcquire, StepWaiting, StepPatienceRunsOut,
       StepReleaseReads, StepHandOffFails, StepSpawnChild
  <1>3. ASSUME NEW owner \in agents, AgentsGone(owner) PROVE IInv'
    BY <1>3, StepAgentsGone
  <1>4. CASE UNCHANGED vars
    BY <1>4 DEF vars, IInv, TypeOK, Timed, Named, Judged, Guarded, Alive, Present, this_process
  <1>5. QED
    BY <1>1, <1>2, <1>3, <1>4 DEF Next

LEMMA LockInvariant == ASSUME Perils = {} PROVE Spec => []IInv
  <1>1. IInv /\ [Next]_vars => IInv'
    BY NextIInv
  <1>2. QED
    BY <1>1, InitIInv, PTL DEF Spec

-----------------------------------------------------------------------------
(* The theorems.                                                             *)

(* The file holds a whole record or is absent, and every process stands at a *)
(* step of acquire, hand_over or release with what it saw of that file.      *)
THEOREM LockTypeOK == ASSUME Perils = {} PROVE Spec => []TypeOK
  <1>1. IInv => TypeOK
    BY DEF IInv
  <1>2. QED
    BY <1>1, LockInvariant, PTL

(* Never two processes under one lock, where no acquire acts on a stale      *)
(* record: the record of create_new names the holder until it gives the lock *)
(* up, hands it on or goes.                                                  *)
THEOREM LockMutualExclusion == ASSUME Perils = {} PROVE Spec => []MutualExclusion
  <1>1. IInv => MutualExclusion
    <2>1. SUFFICES ASSUME IInv PROVE MutualExclusion
      OBVIOUS
    <2>2. CASE Holders = {}
      BY <2>2, FS_EmptySet DEF MutualExclusion
    <2>3. CASE \E p : p \in Holders
      <3>1. PICK p : p \in Holders
        BY <2>3
      <3>2. Holders = {p}
        BY <2>1, <3>1, OneHolder
      <3>3. Cardinality(Holders) = 1
        BY <3>2, FS_Singleton
      <3>4. QED
        BY <3>3 DEF MutualExclusion
    <2>4. QED
      BY <2>2, <2>3
  <1>2. QED
    BY <1>1, LockInvariant, PTL

(* Nobody takes a checkout a gone holder's agents still work in.             *)
THEOREM LockAgentsKeepTheLock == ASSUME Perils = {} PROVE Spec => []AgentsKeepTheLock
  <1>1. IInv => AgentsKeepTheLock
    BY WithLock DEF IInv, Guarded, AgentsKeepTheLock, Holders
  <1>2. QED
    BY <1>1, LockInvariant, PTL

(* No release, hand-over or steal takes the file of a holder at work away,   *)
(* where a stealer judged the record the file still holds: the steal that    *)
(* did not is the one lock_stealers shows (lock.rs remove_stale).            *)
THEOREM LockHolderKeepsFile == ASSUME Perils = {} PROVE Spec => HolderKeepsFile
  <1> DEFINE Kept == /\ file # NULL
                     /\ Present(file)
                     /\ proc[file.pid].at \in {"held", "works"}
  <1>1. ASSUME IInv, Next, Kept PROVE file' = file
    <2>1. ASSUME NEW p \in Pids, file' # file
          PROVE  ~(CreateRecord(p) \/ RemoveStale(p) \/ HandOver(p) \/ ReleaseRemoves(p))
      <3>1. ~CreateRecord(p)
        BY <1>1, <2>1 DEF CreateRecord
      <3>2. ~RemoveStale(p)
        BY <1>1 DEF RemoveStale, IInv, Judged
      <3>3. ASSUME proc[p].at \in {"handing", "releasing", "undoing"} PROVE FALSE
        <4>1. file = this_process(p)
          BY <1>1, <3>3 DEF IInv, Named
        <4>2. QED
          BY <1>1, <3>3, <4>1 DEF this_process
      <3>4. QED
        BY <3>1, <3>2, <3>3 DEF HandOver, ReleaseRemoves
    <2>2. QED
      BY <1>1, <2>1 DEF Next, Step, StartProcess, ProcessGone, AgentsGone, Acquire, ReadHolder,
         FoundGone, FoundPresent, PollAgain, CancelWait, PatienceRunsOut, SpawnChild, ReleaseReads,
         HandOffFails
  <1>2. IInv /\ [Next]_vars => [Kept => file' = file]_vars
    BY <1>1
  <1>3. QED
    BY <1>2, LockInvariant, PTL DEF Spec, HolderKeepsFile

-----------------------------------------------------------------------------
(* The file implements the lock.                                             *)

(* The lock's holder, before and after a step.                               *)
LEMMA TheHolder ==
  ASSUME IInv
  PROVE  /\ \A p \in Holders : Holder = p /\ Holders = {p}
         /\ Holders = {} => Holder = NULL
  <1>1. \A p \in Holders : Holders = {p}
    BY OneHolder
  <1>2. \A p \in Holders : Holder = p
    BY <1>1 DEF Holder
  <1>3. QED
    BY <1>1, <1>2 DEF Holder

LEMMA TheNextHolder ==
  /\ \A p \in Pids : Holders' = {p} => Holder' = p
  /\ Holders' = {} => Holder' = NULL
  /\ Holders' = Holders => Holder' = Holder
  <1>1. ASSUME NEW p \in Pids, Holders' = {p} PROVE Holder' = p
    BY <1>1 DEF Holder
  <1>2. Holders' = {} => Holder' = NULL
    BY DEF Holder
  <1>3. ASSUME Holders' = Holders PROVE Holder' = Holder
    BY <1>3 DEF Holder
  <1>4. QED
    BY <1>1, <1>2, <1>3

(* What one process's move makes of the holders and of the contenders.       *)
LEMMA Effect ==
  ASSUME IInv, NEW p \in Pids, NEW r \in ProcType, proc' = [proc EXCEPT ![p] = r]
  PROVE  /\ r.at \in {"held", "works", "releasing"} => Holders' = Holders \cup {p}
         /\ r.at \notin {"held", "works", "releasing"} => Holders' = Holders \ {p}
         /\ r.at \in Acquiring => Contenders' = Contenders \cup {p}
         /\ r.at \notin Acquiring => Contenders' = Contenders \ {p}
  <1>1. /\ proc' \in [Pids -> ProcType] /\ proc'[p] = r
        /\ \A q \in Pids : q # p => proc'[q] = proc[q]
    BY Moves
  <1>2. QED
    BY <1>1 DEF Holders, Contenders

Stutters == UNCHANGED <<Holder, Contenders, AgentsWork>>

(* The moves inside acquire: one asks, gives up, or goes on asking.          *)
LEMMA InsideMaps ==
  ASSUME IInv, NEW p \in Pids, NEW r \in ProcType, proc' = [proc EXCEPT ![p] = r],
         UNCHANGED <<kind, agents>>,
         proc[p].at \in Acquiring \cup {"out"}, r.at \in Acquiring \cup {"out"}
  PROVE  Stutters \/ L!Ask(p) \/ L!GiveUp(p)
  <1>1. p \notin Holders /\ Holders' = Holders
    BY Effect DEF Holders, Acquiring
  <1>2. Holder' = Holder /\ AgentsWork' = AgentsWork
    BY <1>1, TheNextHolder DEF AgentsWork
  <1>3. p \in Contenders <=> proc[p].at \in Acquiring
    BY DEF Contenders
  <1>4. CASE proc[p].at \in Acquiring /\ r.at \in Acquiring
    <2>1. Contenders' = Contenders
      <3>1. Contenders' = Contenders \cup {p} /\ p \in Contenders
        BY <1>3, <1>4, Effect
      <3>2. QED
        BY <3>1
    <2>2. QED
      BY <1>2, <2>1 DEF Stutters
  <1>5. CASE proc[p].at \in Acquiring /\ r.at \notin Acquiring
    <2>1. p \in Contenders /\ Contenders' = Contenders \ {p}
      BY <1>3, <1>5, Effect
    <2>2. QED
      BY <1>2, <2>1 DEF L!GiveUp
  <1>6. CASE proc[p].at \notin Acquiring /\ r.at \in Acquiring
    <2>1. p \notin Contenders /\ Contenders' = Contenders \cup {p}
      BY <1>3, <1>6, Effect
    <2>2. Holder # p
      BY <1>1, TheHolder, NullRecord
    <2>3. QED
      BY <1>2, <2>1, <2>2 DEF L!Ask
  <1>7. CASE proc[p].at \notin Acquiring /\ r.at \notin Acquiring
    <2>1. Contenders' = Contenders
      <3>1. Contenders' = Contenders \ {p} /\ p \notin Contenders
        BY <1>3, <1>7, Effect
      <3>2. QED
        BY <3>1
    <2>2. QED
      BY <1>2, <2>1 DEF Stutters
  <1>8. QED
    BY <1>4, <1>5, <1>6, <1>7

(* The lock is taken when it is free and no agents work behind it.           *)
LEMMA TakeMaps ==
  ASSUME IInv, NEW p \in Pids, CreateRecord(p)
  PROVE  Stutters \/ L!Ask(p) \/ L!GiveUp(p) \/ L!Take(p)
  <1>1. proc[p].at = "creating" /\ UNCHANGED <<kind, agents>> /\ proc[p] \in ProcType
    BY DEF CreateRecord, IInv, TypeOK, ProcType
  <1>2. CASE Go(p, "reading")
    <2> DEFINE r == [proc[p] EXCEPT !.at = "reading"]
    <2>1. r \in ProcType /\ r.at = "reading"
      BY <1>1 DEF ProcType, Places, Acquiring
    <2>2. proc' = [proc EXCEPT ![p] = r]
      BY <1>2 DEF Go
    <2> HIDE DEF r
    <2>3. QED
      BY <1>1, <2>1, <2>2, InsideMaps DEF Acquiring
  <1>3. CASE file = NULL
    <2> DEFINE r == [Out EXCEPT !.start = proc[p].start, !.at = "held"]
    <2>1. r \in ProcType /\ r.at = "held"
      BY Records DEF Places
    <2>2. proc' = [proc EXCEPT ![p] = r]
      BY <1>3 DEF CreateRecord
    <2> HIDE DEF r
    <2>3. Holders = {}
      BY <1>3, WithLock DEF Holders
    <2>4. Holders' = {p} /\ Contenders' = Contenders \ {p}
      BY <2>1, <2>2, <2>3, Effect DEF Acquiring
    <2>5. Holder = NULL /\ Holder' = p
      BY <2>3, <2>4, TheHolder, TheNextHolder
    <2>6. p \in Contenders
      BY <1>1 DEF Contenders, Acquiring
    <2>7. ~AgentsWork /\ AgentsWork' = AgentsWork
      BY <1>1, <1>3 DEF AgentsWork, IInv, Guarded
    <2>8. QED
      BY <2>4, <2>5, <2>6, <2>7 DEF L!Take
  <1>4. QED
    BY <1>2, <1>3 DEF CreateRecord

(* A holder that goes on, hands on, gives up or is gone.                     *)
LEMMA HolderMaps ==
  ASSUME IInv, NEW p \in Pids, NEW r \in ProcType, proc' = [proc EXCEPT ![p] = r],
         proc[p].at \notin Acquiring, r.at \notin Acquiring,
         r.at \in {"held", "works", "releasing"} => p \in Holders,
         UNCHANGED kind, (agents' = agents \/ (p \in Holders /\ r.at = "out"))
  PROVE  Stutters \/ \E left \in BOOLEAN : L!Drop(left)
  <1>1. Contenders' = Contenders
    BY Effect DEF Contenders
  <1>2. CASE p \in Holders /\ r.at \notin {"held", "works", "releasing"}
    <2>1. Holders = {p} /\ Holder = p
      BY <1>2, TheHolder
    <2>2. Holders' = {}
      BY <1>2, <2>1, Effect
    <2>3. Holder' = NULL /\ Holder # NULL
      BY <2>1, <2>2, TheNextHolder, NullRecord
    <2>4. AgentsWork' \in BOOLEAN
      BY DEF AgentsWork
    <2>5. L!Drop(AgentsWork')
      BY <1>1, <2>3 DEF L!Drop
    <2>6. QED
      BY <2>4, <2>5
  <1>3. CASE ~(p \in Holders /\ r.at \notin {"held", "works", "releasing"})
    <2>1. Holders' = Holders
      <3>1. CASE r.at \in {"held", "works", "releasing"}
        <4>1. Holders' = Holders \cup {p} /\ p \in Holders
          BY <3>1, Effect
        <4>2. QED
          BY <4>1
      <3>2. CASE r.at \notin {"held", "works", "releasing"}
        <4>1. Holders' = Holders \ {p} /\ p \notin Holders
          BY <1>3, <3>2, Effect
        <4>2. QED
          BY <4>1
      <3>3. QED
        BY <3>1, <3>2
    <2>2. agents' = agents
      BY <1>3
    <2>3. QED
      BY <1>1, <2>1, <2>2, TheNextHolder DEF Stutters, AgentsWork
  <1>4. QED
    BY <1>2, <1>3

LEMMA GoingMaps ==
  ASSUME IInv, NEW p \in Pids, proc[p].at \in Acquiring, NEW at \in Acquiring,
         Go(p, at) \/ Leave(p), UNCHANGED <<kind, agents>>
  PROVE  Stutters \/ L!Ask(p) \/ L!GiveUp(p)
  <1>1. CASE Go(p, at)
    <2> DEFINE r == [proc[p] EXCEPT !.at = at]
    <2>1. r \in ProcType /\ r.at = at
      <3>1. proc[p] \in ProcType
        BY DEF IInv, TypeOK, ProcType
      <3>2. QED
        BY <3>1 DEF ProcType, Places
    <2>2. proc' = [proc EXCEPT ![p] = r]
      BY <1>1 DEF Go
    <2> HIDE DEF r
    <2>3. QED
      BY <2>1, <2>2, InsideMaps
  <1>2. CASE Leave(p)
    <2> DEFINE r == [Out EXCEPT !.start = proc[p].start]
    <2>1. r \in ProcType /\ r.at = "out"
      BY Records DEF Places
    <2>2. proc' = [proc EXCEPT ![p] = r]
      BY <1>2 DEF Leave
    <2> HIDE DEF r
    <2>3. QED
      BY <2>1, <2>2, InsideMaps
  <1>3. QED
    BY <1>1, <1>2

(* What a process does next inside acquire, hand_over or release.            *)
LEMMA StepMaps ==
  ASSUME IInv, NEW p \in Pids, Step(p)
  PROVE  Stutters \/ L!Ask(p) \/ L!GiveUp(p) \/ L!Take(p) \/ \E left \in BOOLEAN : L!Drop(left)
  <1>1. CASE CreateRecord(p)
    BY <1>1, TakeMaps
  <1>2. CASE ReadHolder(p)
    <2> DEFINE r == [proc[p] EXCEPT !.saw = file, !.at = "probing"]
    <2>1. r \in ProcType /\ r.at = "probing" /\ proc[p].at = "reading"
      <3>1. proc[p] \in ProcType /\ file \in LockOwner \cup {NULL}
        BY DEF IInv, TypeOK, ProcType
      <3>2. QED
        BY <1>2, <3>1 DEF ReadHolder, ProcType, Places, Acquiring
    <2>2. proc' = [proc EXCEPT ![p] = r] /\ UNCHANGED <<kind, agents>>
      BY <1>2 DEF ReadHolder, IInv, TypeOK
    <2> HIDE DEF r
    <2>3. QED
      BY <2>1, <2>2, InsideMaps DEF Acquiring
  <1>3. CASE FoundGone(p)
    BY <1>3, GoingMaps DEF FoundGone, Acquiring
  <1>4. CASE FoundPresent(p)
    BY <1>4, GoingMaps DEF FoundPresent, Acquiring
  <1>5. CASE RemoveStale(p)
    BY <1>5, GoingMaps DEF RemoveStale, Acquiring
  <1>6. CASE PollAgain(p)
    BY <1>6, GoingMaps DEF PollAgain, Acquiring
  <1>7. CASE HandOver(p) \/ ReleaseRemoves(p)
    <2> DEFINE r == [Out EXCEPT !.start = proc[p].start]
    <2>1. r \in ProcType /\ r.at = "out"
      BY Records DEF Places
    <2>2. proc' = [proc EXCEPT ![p] = r] /\ UNCHANGED <<kind, agents>>
          /\ proc[p].at \in {"handing", "releasing", "undoing"}
      BY <1>7 DEF HandOver, ReleaseRemoves, Leave
    <2> HIDE DEF r
    <2>3. QED
      BY <2>1, <2>2, HolderMaps DEF Acquiring
  <1>8. QED
    BY <1>1, <1>2, <1>3, <1>4, <1>5, <1>6, <1>7 DEF Step

LEMMA ReleaseReadsMaps ==
  ASSUME IInv, NEW p \in Pids, ReleaseReads(p)
  PROVE  Stutters \/ \E left \in BOOLEAN : L!Drop(left)
  <1>1. /\ proc[p].at \in {"held", "works"} /\ UNCHANGED <<kind, agents>> /\ p \in Holders
        /\ Go(p, "releasing") \/ Leave(p)
    BY DEF ReleaseReads, Holders
  <1>2. CASE Go(p, "releasing")
    <2> DEFINE r == [proc[p] EXCEPT !.at = "releasing"]
    <2>1. r \in ProcType /\ r.at = "releasing"
      <3>1. proc[p] \in ProcType
        BY DEF IInv, TypeOK, ProcType
      <3>2. QED
        BY <3>1 DEF ProcType, Places
    <2>2. proc' = [proc EXCEPT ![p] = r]
      BY <1>2 DEF Go
    <2> HIDE DEF r
    <2>3. /\ proc[p].at \notin Acquiring /\ r.at \notin Acquiring
          /\ kind' = kind /\ agents' = agents /\ p \in Holders
      BY <1>1, <2>1 DEF Acquiring
    <2>4. Holders' = Holders \cup {p} /\ Contenders' = Contenders \ {p}
      BY <2>1, <2>2, <2>3, Effect
    <2>5. Holders' = Holders /\ Contenders' = Contenders
      BY <2>3, <2>4 DEF Contenders
    <2>6. QED
      BY <2>3, <2>5, TheNextHolder DEF Stutters, AgentsWork
  <1>3. CASE Leave(p)
    <2> DEFINE r == [Out EXCEPT !.start = proc[p].start]
    <2>1. r \in ProcType /\ r.at = "out"
      BY Records DEF Places
    <2>2. proc' = [proc EXCEPT ![p] = r]
      BY <1>3 DEF Leave
    <2> HIDE DEF r
    <2>3. QED
      BY <1>1, <2>1, <2>2, HolderMaps DEF Acquiring
  <1>4. QED
    BY <1>1, <1>2, <1>3

(* The launcher's lock passes to the child it spawned.                       *)
LEMMA SpawnMaps ==
  ASSUME IInv, NEW p \in Pids, NEW c \in Pids, SpawnChild(p, c)
  PROVE  L!PassOn(p, c)
  <1>1. /\ proc[p].at = "held" /\ ~Alive(c) /\ UNCHANGED <<kind, agents>>
        /\ proc[c].at = "out" /\ c # p
    BY DEF SpawnChild, IInv, Timed
  <1>2. Holders = {p} /\ Holder = p
    BY <1>1, TheHolder DEF Holders
  <1>3. /\ proc'[p].at = "handing" /\ proc'[c].at = "works"
        /\ \A q \in Pids : q # p /\ q # c => proc'[q] = proc[q]
    <2>1. proc \in [Pids -> ProcType]
      BY DEF IInv, TypeOK, ProcType
    <2> DEFINE r == [proc[p] EXCEPT !.at = "handing", !.child = c]
               n == [Out EXCEPT !.start = started + 1, !.at = "works"]
    <2>2. proc' = [proc EXCEPT ![p] = r, ![c] = n]
      BY <1>1, <2>1 DEF SpawnChild
    <2>3. r.at = "handing"
      BY <2>1 DEF ProcType
    <2>4. n.at = "works"
      BY DEF Out
    <2> HIDE DEF r, n
    <2>5. QED
      BY <1>1, <2>1, <2>2, <2>3, <2>4
  <1>4. Holders' = {c}
    BY <1>1, <1>2, <1>3 DEF Holders
  <1>5. Contenders' = Contenders /\ c \notin Contenders
    BY <1>1, <1>3 DEF Contenders, Acquiring
  <1>6. Holder' = c /\ AgentsWork' = AgentsWork
    BY <1>1, <1>4, TheNextHolder DEF AgentsWork
  <1>7. QED
    BY <1>1, <1>2, <1>5, <1>6 DEF L!PassOn

(* A child that could not be named is ended, and drops the lock or gives up.  *)
LEMMA HandOffFailsMaps ==
  ASSUME IInv, Perils = {}, NEW p \in Pids, HandOffFails(p)
  PROVE  Stutters \/ (\E c \in Pids : L!GiveUp(c)) \/ \E left \in BOOLEAN : L!Drop(left)
  <1> DEFINE c == proc[p].child
  <1>1. /\ proc[p].at = "handing" /\ c \in Pids /\ UNCHANGED <<kind, agents>>
        /\ proc'[p].at = "undoing" /\ proc'[c].at = "out"
        /\ \A q \in Pids : q # p /\ q # c => proc'[q] = proc[q]
    BY Undone DEF Out
  <1> HIDE DEF c
  <1>2. Holders' = Holders \ {c} /\ Contenders' = Contenders \ {c}
    BY <1>1 DEF Holders, Contenders, Acquiring
  <1>3. AgentsWork' = AgentsWork
    BY <1>1 DEF AgentsWork
  <1>4. CASE c \in Holders
    <2>1. Holders' = {} /\ Holder = c
      BY <1>2, <1>4, TheHolder
    <2>2. c \notin Contenders
      BY <1>4 DEF Holders, Contenders, Acquiring
    <2>3. Contenders' = Contenders
      BY <1>2, <2>2
    <2>4. Holder' = NULL /\ Holder # NULL
      BY <1>1, <2>1, TheNextHolder, NullRecord
    <2>5. AgentsWork' \in BOOLEAN
      BY DEF AgentsWork
    <2>6. L!Drop(AgentsWork')
      BY <2>3, <2>4 DEF L!Drop
    <2>7. QED
      BY <2>5, <2>6
  <1>5. CASE c \notin Holders
    <2>1. Holders' = Holders
      BY <1>2, <1>5
    <2>2. Holder' = Holder
      BY <2>1, TheNextHolder
    <2>3. CASE c \in Contenders
      BY <1>1, <1>2, <1>3, <2>2, <2>3 DEF L!GiveUp
    <2>4. CASE c \notin Contenders
      <3>1. Contenders' = Contenders
        BY <1>2, <2>4
      <3>2. QED
        BY <1>3, <2>2, <3>1 DEF Stutters
    <2>5. QED
      BY <2>3, <2>4
  <1>6. QED
    BY <1>4, <1>5

LEMMA ProcessGoneMaps ==
  ASSUME IInv, NEW p \in Pids, NEW survive \in BOOLEAN, ProcessGone(p, survive)
  PROVE  Stutters \/ L!Ask(p) \/ L!GiveUp(p) \/ \E left \in BOOLEAN : L!Drop(left)
  <1>1. /\ proc' = [proc EXCEPT ![p] = Out] /\ UNCHANGED kind
        /\ survive => proc[p].at \in {"held", "works"}
        /\ agents' = IF survive THEN agents \cup {this_process(p)} ELSE agents
    BY DEF ProcessGone
  <1>2. Out \in ProcType /\ Out.at = "out"
    BY FileLockAssumption DEF Out, ProcType, Places
  <1>3. CASE proc[p].at \in Acquiring
    BY <1>1, <1>2, <1>3, InsideMaps DEF Acquiring
  <1>4. CASE proc[p].at \notin Acquiring
    <2>1. agents' = agents \/ p \in Holders
      BY <1>1 DEF Holders
    <2>2. QED
      BY <1>1, <1>2, <1>4, <2>1, HolderMaps DEF Acquiring
  <1>5. QED
    BY <1>3, <1>4

LEMMA MovesMap ==
  ASSUME IInv, NEW p \in Pids,
         (\E waits \in BOOLEAN : Acquire(p, waits)) \/ CancelWait(p) \/ PatienceRunsOut(p)
  PROVE  Stutters \/ L!Ask(p) \/ L!GiveUp(p)
  <1>1. proc[p] \in ProcType
    BY DEF IInv, TypeOK, ProcType
  <1>2. CASE \E waits \in BOOLEAN : Acquire(p, waits)
    <2>1. PICK waits \in BOOLEAN : Acquire(p, waits)
      BY <1>2
    <2> DEFINE r == [proc[p] EXCEPT !.at = "creating", !.waits = waits]
    <2>2. r \in ProcType /\ r.at = "creating"
      BY <1>1 DEF ProcType, Places, Acquiring
    <2>3. proc' = [proc EXCEPT ![p] = r] /\ UNCHANGED <<kind, agents>> /\ proc[p].at = "out"
      BY <2>1 DEF Acquire, IInv, TypeOK
    <2> HIDE DEF r
    <2>4. QED
      BY <2>2, <2>3, InsideMaps DEF Acquiring
  <1>3. CASE CancelWait(p)
    BY <1>3, GoingMaps DEF CancelWait, Acquiring
  <1>4. CASE PatienceRunsOut(p)
    <2> DEFINE r == [proc[p] EXCEPT !.expired = TRUE]
    <2>1. r \in ProcType /\ r.at = proc[p].at
      BY <1>1 DEF ProcType
    <2>2. proc' = [proc EXCEPT ![p] = r] /\ UNCHANGED <<kind, agents>> /\ proc[p].at \in Acquiring
      BY <1>4 DEF PatienceRunsOut
    <2> HIDE DEF r
    <2>3. QED
      BY <2>1, <2>2, InsideMaps
  <1>5. QED
    BY <1>2, <1>3, <1>4

(* Every step of the file lock is a step of the lock, or nothing to it.      *)
LEMMA NextMaps == ASSUME IInv, Perils = {}, [Next]_vars PROVE [L!Next]_(L!vars)
  <1>1. Stutters => [L!Next]_(L!vars)
    BY DEF Stutters, L!vars
  <1>2. ASSUME NEW p \in Pids, \/ L!Ask(p) \/ L!GiveUp(p) \/ L!Take(p)
                               \/ \E left \in BOOLEAN : L!Drop(left)
                               \/ \E c \in Pids : L!PassOn(p, c)
        PROVE  L!Next
    BY <1>2 DEF L!Next, L!Settle
  <1>3. ASSUME NEW p \in Pids, Step(p) PROVE [L!Next]_(L!vars)
    BY <1>1, <1>2, <1>3, StepMaps
  <1>4. ASSUME NEW p \in Pids,
               (\E waits \in BOOLEAN : Acquire(p, waits)) \/ CancelWait(p) \/ PatienceRunsOut(p)
        PROVE  [L!Next]_(L!vars)
    BY <1>1, <1>2, <1>4, MovesMap
  <1>5. ASSUME NEW p \in Pids, ReleaseReads(p) PROVE [L!Next]_(L!vars)
    BY <1>1, <1>2, <1>5, ReleaseReadsMaps
  <1>6. ASSUME NEW p \in Pids, \E survive \in BOOLEAN : ProcessGone(p, survive)
        PROVE  [L!Next]_(L!vars)
    BY <1>1, <1>2, <1>6, ProcessGoneMaps
  <1>7. ASSUME NEW p \in Pids, \E c \in Pids : SpawnChild(p, c) PROVE [L!Next]_(L!vars)
    BY <1>2, <1>7, SpawnMaps
  <1>8. ASSUME NEW p \in Pids, StartProcess(p) PROVE [L!Next]_(L!vars)
    <2>1. ~Alive(p) /\ proc[p].at = "out" /\ UNCHANGED <<kind, agents>>
      BY <1>8 DEF StartProcess, IInv, Timed
    <2> DEFINE r == [Out EXCEPT !.start = started + 1]
    <2>2. proc' = [proc EXCEPT ![p] = r]
      BY <1>8 DEF StartProcess
    <2>3. started + 1 \in 0..MaxStart /\ "out" \in Places
      BY <1>8, FileLockAssumption DEF StartProcess, IInv, TypeOK, Places
    <2>4. r \in ProcType /\ r.at = "out"
      BY <2>3, Started
    <2> HIDE DEF r
    <2>5. QED
      BY <1>1, <1>2, <2>1, <2>2, <2>4, InsideMaps DEF Acquiring
  <1>9. ASSUME NEW owner \in agents, AgentsGone(owner) PROVE [L!Next]_(L!vars)
    <2>1. Holders' = Holders /\ Contenders' = Contenders
      BY <1>9 DEF AgentsGone, Holders, Contenders
    <2>2. Holder' = Holder
      BY <2>1, TheNextHolder
    <2>3. AgentsWork' = AgentsWork \/ (AgentsWork /\ AgentsWork' = FALSE)
      BY <1>9 DEF AgentsGone, AgentsWork
    <2>4. CASE AgentsWork' = AgentsWork
      BY <1>1, <2>1, <2>2, <2>4 DEF Stutters
    <2>5. CASE AgentsWork /\ AgentsWork' = FALSE
      BY <2>1, <2>2, <2>5 DEF L!Next, L!AgentsEnd
    <2>6. QED
      BY <2>3, <2>4, <2>5
  <1>10. CASE UNCHANGED vars
    <2>1. Holders' = Holders /\ Contenders' = Contenders /\ AgentsWork' = AgentsWork
      BY <1>10 DEF vars, Holders, Contenders, AgentsWork
    <2>2. QED
      BY <1>1, <2>1, TheNextHolder DEF Stutters
  <1>11. ASSUME NEW p \in Pids, HandOffFails(p) PROVE [L!Next]_(L!vars)
    BY <1>1, <1>2, <1>11, HandOffFailsMaps
  <1>12. QED
    BY <1>3, <1>4, <1>5, <1>6, <1>7, <1>8, <1>9, <1>10, <1>11 DEF Next

(* The lock file does what the lock promises: it is taken only when it is    *)
(* free, handed only by its holder to the child it spawned, and let go only  *)
(* by its holder or with it, where no acquire acts on a stale record and the *)
(* launcher lives through its hand-over. That every acquire is answered is   *)
(* checked by TLC, not proved here.                                          *)
THEOREM FileImplementsLock == ASSUME Perils = {} PROVE Spec => L!Init /\ [][L!Next]_(L!vars)
  <1>1. Init => L!Init
    <2>1. SUFFICES ASSUME Init PROVE L!Init
      OBVIOUS
    <2>2. Holders = {} /\ Contenders = {} /\ AgentsWork = FALSE
      BY <2>1 DEF Init, Holders, Contenders, Acquiring, AgentsWork, Out
    <2>3. Holder = NULL
      BY <2>2 DEF Holder
    <2>4. QED
      BY <2>2, <2>3 DEF L!Init
  <1>2. IInv /\ [Next]_vars => [L!Next]_(L!vars)
    BY NextMaps
  <1>3. QED
    BY <1>1, <1>2, LockInvariant, PTL DEF Spec

=============================================================================
