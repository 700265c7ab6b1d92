-------------------------- MODULE MovedTreeProofs --------------------------
(***************************************************************************)
(* Proofs about a tree that moves under its invariants, for every workflow *)
(* and bound: the types of the state, and that no pass that still counts   *)
(* outlives the tree it was given for.  Every change a pass did not see is *)
(* blamed on a writer whose close will mark the pass, and every tree the   *)
(* log does not know of is owed by somebody who will record it.            *)
(***************************************************************************)
EXTENDS MovedTree, FiniteSetTheorems, WellFoundedInduction, TLAPS

-----------------------------------------------------------------------------
(* The types, in a form that an induction keeps *)

\* A record names one tree or none.
OneTree(trees) == \A t, u \in trees : t = u

\* What the log keeps of a node, of the run, and where an attempt stands.
Records ==
    [state : States, from : SUBSET Trees, left : SUBSET Trees, beside : SUBSET Nodes,
     moved : BOOLEAN, behind : BOOLEAN, sent : {"no", "sent", "corrected"}]

Logs == [node : [Nodes -> Records], newest : SUBSET Trees]

Works == [pc : {"idle", "due", "opened", "working", "landed", "closing"},
          tree : SUBSET Trees, verdict : {"none", "finished", "failed"}]

\* The type of each part of the state.
Typed ==
    /\ tree \in Trees
    /\ log \in Logs
    /\ work \in [Nodes -> Works]
    /\ read \in [Judges -> [0..N -> Nat]]
    /\ eng \in {"up", "down", "done"}
    /\ setbacks \in 0..MaxSetbacks /\ parks \in 0..MaxParks

\* No record names two trees, and no node closed beside itself.
Single ==
    /\ OneTree(log.newest)
    /\ \A n \in Nodes :
          /\ OneTree(log.node[n].from) /\ OneTree(log.node[n].left)
          /\ OneTree(work[n].tree)
          /\ n \notin log.node[n].beside

\* The bounds of the changes: a writer's own, and the person's edits among the setbacks.
Counted ==
    /\ tree.changes[0] <= setbacks
    /\ \A n \in Nodes : tree.changes[n] <= MaxChanges

-----------------------------------------------------------------------------
(* Where an attempt stands *)

\* An attempt whose start is recorded and whose close is not; one whose close read the tree.
AtWork(n) == work[n].pc \in {"working", "landed", "closing"}
Closing(n) == work[n].pc = "closing"

\* An attempt under way has a running node with the tree it started from; only an audited
\* node's work is taken in a checkout of its own; only a writer's failure names no tree; only a
\* failure with a correction is sent to it.
Stands(n) ==
    /\ AtWork(n) => log.node[n].state = "running" /\ log.node[n].from # {}
    /\ work[n].pc \in {"opened", "landed"} => n \in Own
    /\ work[n].pc = "opened" => work[n].tree # {}
    /\ work[n].pc = "closing" => work[n].verdict \in {"finished", "failed"}
    /\ work[n].pc = "closing" /\ work[n].tree = {}
          => n \in Writers /\ work[n].verdict = "failed"
    /\ log.node[n].sent # "no" => Goto[n] # 0

\* Attempts are under way only while an engine is up.
Shape ==
    /\ eng # "up" => Landed
    /\ \A n \in Nodes : Stands(n)

\* No change of c is missing from d.
Below(c, d) == \A n \in 0..N : c[n] <= d[n]

\* What a writer's records say of its own changes.
WriterSees(n) ==
    /\ work[n].pc = "opened" => \A t \in work[n].tree : t.changes[n] <= tree.changes[n]
    /\ AtWork(n) => \A f \in log.node[n].from : f.changes[n] <= tree.changes[n]
    /\ work[n].pc = "closing" => \A t \in work[n].tree : t.changes[n] = tree.changes[n]

\* What an invariant's records say of the tree it started on and left.
JudgeSees(v) ==
    /\ AtWork(v) \/ log.node[v].state = "finished" =>
          /\ log.node[v].from # {}
          /\ \A f \in log.node[v].from : f.changes = read[v]
          /\ Below(read[v], tree.changes)
    /\ work[v].pc = "closing" =>
          \A t \in work[v].tree : Below(read[v], t.changes) /\ Below(t.changes, tree.changes)
    /\ log.node[v].state = "finished" =>
          /\ log.node[v].left # {}
          /\ \A t \in log.node[v].left :
                Below(read[v], t.changes) /\ Below(t.changes, tree.changes)

-----------------------------------------------------------------------------
(* Who will still record the tree *)

\* m has still to record the tree as it is: m failed, so a wake or its next start records it; m is to
\* start anew; m is a writer whose close is to come, and if that read the tree already, it still is as
\* it read it or its failure brings another start.
WillName(m) ==
    \/ log.node[m].state = "failed"
    \/ /\ log.node[m].state = "running"
       /\ \/ work[m].pc \in {"idle", "due", "opened"}
          \/ m \in Writers /\ work[m].pc \in {"working", "landed"}
          \/ work[m].pc = "closing" /\ work[m].verdict = "failed"
          \/ /\ m \in Writers /\ work[m].pc = "closing" /\ work[m].tree # {}
             /\ \A t \in work[m].tree : t.changes = tree.changes

\* Somebody will.
Owed == \E m \in Nodes : WillName(m)

\* Two closes still to be recorded read the same tree: a start and a close are one step with what they
\* read under the landing lock, so nothing else is recorded between (shared_tree.rs).
OneTale ==
    \A m, k \in Writers : Closing(m) /\ Closing(k) =>
        \A t \in work[m].tree, u \in work[k].tree : t = u

\* Where a close to be recorded read a tree that is gone, somebody else will record the tree.
OthersName ==
    \A m \in Writers : Closing(m) =>
        \A t \in work[m].tree :
            t.changes # tree.changes => \E w \in Nodes \ {m} : WillName(w)

\* The newest tree of the log is the run's tree, or will be recorded.
Known == (\A t \in log.newest : t.changes = tree.changes) \/ Owed

-----------------------------------------------------------------------------
(* Who changed the tree under an invariant *)

\* A writer that runs changed the tree since its start was taken, and its close will name a tree.
Wrote(n) ==
    /\ n \in Writers /\ AtWork(n) /\ log.node[n].state = "running"
    /\ \A f \in log.node[n].from : f.changes[n] < tree.changes[n]
    /\ work[n].pc = "closing" => work[n].tree # {}

\* What an invariant at work did not see, a writer that will tell it wrote.
Judging(v) ==
    AtWork(v) /\ ~log.node[v].moved =>
        \A n \in 0..N : tree.changes[n] # read[v][n] => Wrote(n)

\* So of one that passed: what was written between its start and its close, a writer that still runs
\* wrote, which knows that it closed beside it.
Passed(v) ==
    log.node[v].state = "finished" /\ ~log.node[v].moved =>
        \A t \in log.node[v].left : \A n \in 0..N :
            t.changes[n] # read[v][n] => Wrote(n) /\ v \in log.node[n].beside

\* A pass that nothing marked holds for the tree, or somebody will record the tree.
Current(v) ==
    log.node[v].state = "finished" /\ ~log.node[v].moved /\ ~log.node[v].behind =>
        read[v] = tree.changes \/ Owed

\* The attempts stand where the log says, and their records bound the changes they saw.
Standing ==
    /\ Shape
    /\ \A n \in Writers : WriterSees(n)
    /\ \A v \in Judges : JudgeSees(v)

\* What the log says of the tree is what it is, or will be.
Telling == OneTale /\ OthersName /\ Known

\* What an invariant missed is blamed on a writer that will tell.
Blaming == \A v \in Judges : Judging(v) /\ Passed(v) /\ Current(v)

-----------------------------------------------------------------------------
(* What replay makes of a record *)

\* K is L with the tree `named` recorded: no node's record changes but for `behind`.
Naming(L, K, named) ==
    /\ K \in Logs
    /\ K.newest = IF named = {} THEN L.newest ELSE named
    /\ \A m \in Nodes :
          LET r == L.node[m]
              q == K.node[m]
          IN  /\ q.state = r.state /\ q.from = r.from /\ q.left = r.left
              /\ q.beside = r.beside /\ q.moved = r.moved /\ q.sent = r.sent
              /\ q.behind = (r.behind \/ (named # {} /\ r.state = "finished"))

\* So names leaves it.
LEMMA NamesFields ==
    ASSUME NEW L \in Logs, NEW named \in SUBSET Trees
    PROVE  Naming(L, names(L, named), named)
<1> USE DEF Naming
<1>1. CASE named = {}
  <2>1. names(L, named) = L
    BY <1>1 DEF names, NoTree
  <2> QED
    BY <1>1, <2>1, Zenon DEF Logs, Records
<1>2. CASE named # {}
  <2> DEFINE late(m) == L.node[m].behind \/ L.node[m].state = "finished"
  <2>1. names(L, named) = [node |-> [m \in Nodes |-> [L.node[m] EXCEPT !.behind = late(m)]],
                           newest |-> named]
    BY <1>2, Zenon DEF names, NoTree
  <2>2. \A m \in Nodes : late(m) \in BOOLEAN
    OBVIOUS
  <2> HIDE DEF late
  <2>3. \A m \in Nodes : [L.node[m] EXCEPT !.behind = late(m)] \in Records
    BY <2>2 DEF Logs, Records
  <2>4. \A m \in Nodes :
           LET r == L.node[m]
               q == [L.node[m] EXCEPT !.behind = late(m)]
           IN  /\ q.state = r.state /\ q.from = r.from /\ q.left = r.left
               /\ q.beside = r.beside /\ q.moved = r.moved /\ q.sent = r.sent
               /\ q.behind = late(m)
    BY <2>2 DEF Logs, Records
  <2>5. \A m \in Nodes : late(m) = (L.node[m].behind \/ (named # {} /\ L.node[m].state = "finished"))
    BY <1>2, Zenon DEF late
  <2>6. \A m \in Nodes : names(L, named).node[m] = [L.node[m] EXCEPT !.behind = late(m)]
    BY <2>1
  <2>7. [m \in Nodes |-> [L.node[m] EXCEPT !.behind = late(m)]] \in [Nodes -> Records]
    BY <2>3
  <2>8. names(L, named) \in Logs /\ names(L, named).newest = named
    <3> DEFINE f == [m \in Nodes |-> [L.node[m] EXCEPT !.behind = late(m)]]
    <3>1. f \in [Nodes -> Records] /\ names(L, named) = [node |-> f, newest |-> named]
      BY <2>1, <2>7
    <3> HIDE DEF f
    <3> QED
      BY <3>1 DEF Logs
  <2> QED
    BY <1>2, <2>4, <2>5, <2>6, <2>8, Zenon
<1> QED
  BY <1>1, <1>2

\* K is L with n started from the tree `from`: the record of n opens anew.
Starting(L, K, n, from) ==
    /\ K \in Logs
    /\ K.newest = IF from = {} THEN L.newest ELSE from
    /\ \A m \in Nodes :
          LET r == L.node[m]
              q == K.node[m]
          IN  /\ m = n => /\ q.state = "running" /\ q.from = from /\ q.beside = {}
                          /\ q.moved = FALSE /\ q.sent = "no"
              /\ m # n => /\ q.state = r.state /\ q.from = r.from /\ q.left = r.left
                          /\ q.beside = r.beside /\ q.moved = r.moved /\ q.sent = r.sent
                          /\ q.behind = (r.behind \/ (from # {} /\ r.state = "finished"))
              /\ q.left = r.left

\* So a start leaves it.
LEMMA StartedFields ==
    ASSUME NEW L \in Logs, NEW n \in Nodes, NEW from \in SUBSET Trees
    PROVE  Starting(L, started(L, n, from), n, from)
<1> USE DEF Naming, Starting
<1> DEFINE K == names(L, from)
           r0 == [K.node[n] EXCEPT !.state = "running", !.from = from, !.beside = {},
                                   !.moved = FALSE, !.sent = "no"]
<1>1. started(L, n, from) = [K EXCEPT !.node[n] = r0]
  BY Zenon DEF started
<1>2. K \in Logs /\ K.newest = (IF from = {} THEN L.newest ELSE from)
  BY NamesFields, Zenon
<1>3. \A m \in Nodes :
         LET r == L.node[m]
             q == K.node[m]
         IN  /\ q.state = r.state /\ q.from = r.from /\ q.left = r.left
             /\ q.beside = r.beside /\ q.moved = r.moved /\ q.sent = r.sent
             /\ q.behind = (r.behind \/ (from # {} /\ r.state = "finished"))
  BY NamesFields, Zenon
<1> HIDE DEF K
<1>a. K.node[n] \in Records
  BY <1>2 DEF Logs
<1>b. "running" \in States /\ {} \in SUBSET Nodes
  BY DEF States
<1> DEFINE k == K.node[n]
<1>c. k \in Records
  BY <1>a
<1> HIDE DEF k
<1>d. /\ [k EXCEPT !.state = "running", !.from = from, !.beside = {}, !.moved = FALSE, !.sent = "no"]
             \in Records
      /\ LET r == [k EXCEPT !.state = "running", !.from = from, !.beside = {},
                            !.moved = FALSE, !.sent = "no"]
         IN  /\ r.state = "running" /\ r.from = from /\ r.beside = {}
             /\ r.moved = FALSE /\ r.sent = "no" /\ r.left = k.left
  BY <1>b, <1>c DEF Records
<1>4. /\ r0 \in Records
      /\ r0.state = "running" /\ r0.from = from /\ r0.beside = {}
      /\ r0.moved = FALSE /\ r0.sent = "no" /\ r0.left = K.node[n].left
  BY <1>d, Zenon DEF k
<1> HIDE DEF r0
<1>5. started(L, n, from) \in Logs /\ started(L, n, from).newest = K.newest
  BY <1>1, <1>2, <1>4 DEF Logs
<1>6. started(L, n, from).node[n] = r0
  BY <1>1, <1>2, <1>4 DEF Logs
<1>7. \A m \in Nodes \ {n} : started(L, n, from).node[m] = K.node[m]
  BY <1>1, <1>2, <1>4 DEF Logs
<1>8. \A m \in Nodes : m # n => started(L, n, from).node[m] = K.node[m]
  BY <1>7
<1>9. started(L, n, from).node[n].left = L.node[n].left
  BY <1>3, <1>4, <1>6, Zenon
<1>10. \A m \in Nodes : m # n =>
          LET r == L.node[m]
              q == started(L, n, from).node[m]
          IN  /\ q.state = r.state /\ q.from = r.from /\ q.left = r.left
              /\ q.beside = r.beside /\ q.moved = r.moved /\ q.sent = r.sent
              /\ q.behind = (r.behind \/ (from # {} /\ r.state = "finished"))
  <2> TAKE m \in Nodes
  <2> HAVE m # n
  <2>1. started(L, n, from).node[m] = K.node[m]
    BY <1>8
  <2> QED
    BY <1>3, <2>1, Zenon
<1>11. LET q == started(L, n, from).node[n]
       IN  q.state = "running" /\ q.from = from /\ q.beside = {} /\ q.moved = FALSE /\ q.sent = "no"
  BY <1>4, <1>6, Zenon
<1>12. ASSUME NEW m \in Nodes
       PROVE  LET r == L.node[m]
                  q == started(L, n, from).node[m]
              IN  /\ m = n => /\ q.state = "running" /\ q.from = from /\ q.beside = {}
                              /\ q.moved = FALSE /\ q.sent = "no"
                  /\ m # n => /\ q.state = r.state /\ q.from = r.from /\ q.left = r.left
                              /\ q.beside = r.beside /\ q.moved = r.moved /\ q.sent = r.sent
                              /\ q.behind = (r.behind \/ (from # {} /\ r.state = "finished"))
                  /\ q.left = r.left
  <2>1. CASE m = n
    BY <1>9, <1>11, <2>1, Zenon
  <2>2. CASE m # n
    BY <1>10, <2>2, Zenon
  <2> QED
    BY <2>1, <2>2
<1> QED
  BY <1>2, <1>5, <1>12, Zenon

\* K is L with n closed: its record ends, every other is told who closed beside it.
Closed(L, K, n, verdict, left) ==
    /\ K \in Logs
    /\ K.newest = IF n \in Writers /\ left # {} THEN left ELSE L.newest
    /\ LET r == L.node[n]
           q == K.node[n]
       IN  /\ q.state = verdict /\ q.from = r.from /\ q.moved = r.moved
           /\ q.sent = r.sent /\ q.behind = FALSE /\ q.beside = {}
           /\ q.left = IF verdict = "finished" THEN left ELSE r.left
    /\ \A m \in Nodes : m # n =>
          LET r == L.node[m]
              q == K.node[m]
          IN  /\ q.state = r.state /\ q.from = r.from /\ q.left = r.left
              /\ q.moved = (r.moved \/ m \in moved_beside(L, n, left))
              /\ q.beside = IF r.state = "running" THEN r.beside \cup {n} ELSE r.beside
              /\ q.sent = IF r.sent = "sent" /\ Goto[m] = n /\ verdict = "finished"
                          THEN "corrected" ELSE r.sent
              /\ q.behind = (r.behind \/ (n \in Writers /\ left # {} /\ r.state = "finished"))

\* So a close leaves it.
LEMMA ClosedFields ==
    ASSUME NEW L \in Logs, NEW n \in Nodes, NEW verdict \in {"finished", "failed"},
           NEW left \in SUBSET Trees
    PROVE  Closed(L, closed(L, n, verdict, left), n, verdict, left)
<1> USE DEF Naming
<1> DEFINE told == IF counts_close(n) THEN names(L, left) ELSE L
           moves(m) == told.node[m].moved \/ m \in moved_beside(L, n, left)
           by(m) == IF told.node[m].state = "running" THEN told.node[m].beside \cup {n}
                    ELSE told.node[m].beside
           sends(m) == IF told.node[m].sent = "sent" /\ Goto[m] = n /\ verdict = "finished"
                       THEN "corrected" ELSE told.node[m].sent
           other(m) == [told.node[m] EXCEPT !.moved = moves(m), !.beside = by(m),
                                            !.sent = sends(m)]
           was == IF verdict = "finished" THEN left ELSE L.node[n].left
           mine == [L.node[n] EXCEPT !.state = verdict, !.behind = FALSE, !.beside = {},
                                     !.left = was]
           f == [m \in Nodes |-> IF m = n THEN mine ELSE other(m)]
<1>1. closed(L, n, verdict, left) = [told EXCEPT !.node = f]
  BY Zenon DEF closed, ended
<1>2. told \in Logs /\ told.newest = (IF n \in Writers /\ left # {} THEN left ELSE L.newest)
  <2>1. CASE n \in Writers
    BY NamesFields, <2>1 DEF counts_close
  <2>2. CASE n \notin Writers
    BY <2>2 DEF counts_close
  <2> QED
    BY <2>1, <2>2
<1>3. \A m \in Nodes :
         LET r == L.node[m]
             q == told.node[m]
         IN  /\ q.state = r.state /\ q.from = r.from /\ q.left = r.left
             /\ q.beside = r.beside /\ q.moved = r.moved /\ q.sent = r.sent
             /\ q.behind = (r.behind \/ (n \in Writers /\ left # {} /\ r.state = "finished"))
  <2>1. CASE n \in Writers
    <3>1. told = names(L, left)
      BY <2>1 DEF counts_close
    <3>a. \A m \in Nodes :
             LET r == L.node[m]
                 q == names(L, left).node[m]
             IN  /\ q.state = r.state /\ q.from = r.from /\ q.left = r.left
                 /\ q.beside = r.beside /\ q.moved = r.moved /\ q.sent = r.sent
                 /\ q.behind = (r.behind \/ (left # {} /\ r.state = "finished"))
      BY NamesFields, Zenon
    <3> HIDE DEF told
    <3> TAKE m \in Nodes
    <3>2. LET r == L.node[m]
              q == told.node[m]
          IN  /\ q.state = r.state /\ q.from = r.from /\ q.left = r.left
              /\ q.beside = r.beside /\ q.moved = r.moved /\ q.sent = r.sent
              /\ q.behind = (r.behind \/ (left # {} /\ r.state = "finished"))
      BY <3>1, <3>a, Zenon
    <3> QED
      BY <2>1, <3>2, Zenon
  <2>2. CASE n \notin Writers
    <3>1. told = L
      BY <2>2 DEF counts_close
    <3> HIDE DEF told
    <3> TAKE m \in Nodes
    <3>2. L.node[m].behind \in BOOLEAN
      BY DEF Logs, Records
    <3> QED
      BY <2>2, <3>1, <3>2, Zenon
  <2> QED
    BY <2>1, <2>2
<1> HIDE DEF told
<1>4. \A m \in Nodes : told.node[m] \in Records
  BY <1>2 DEF Logs
<1>5. \A m \in Nodes : moves(m) \in BOOLEAN /\ by(m) \in SUBSET Nodes
                         /\ sends(m) \in {"no", "sent", "corrected"}
  BY <1>4 DEF Records
<1>6. /\ \A m \in Nodes : L.node[m] \in Records
      /\ was \in SUBSET Trees
  BY DEF Logs, Records
<1> HIDE DEF moves, by, sends, was
<1>7. \A m \in Nodes :
         /\ other(m) \in Records
         /\ other(m).state = told.node[m].state /\ other(m).from = told.node[m].from
         /\ other(m).left = told.node[m].left /\ other(m).behind = told.node[m].behind
         /\ other(m).moved = moves(m) /\ other(m).beside = by(m) /\ other(m).sent = sends(m)
  <2> TAKE m \in Nodes
  <2> DEFINE k == told.node[m]
             a == moves(m)
             b == by(m)
             c == sends(m)
  <2>1. k \in Records /\ a \in BOOLEAN /\ b \in SUBSET Nodes /\ c \in {"no", "sent", "corrected"}
    BY <1>4, <1>5
  <2>2. other(m) = [k EXCEPT !.moved = a, !.beside = b, !.sent = c]
    OBVIOUS
  <2> HIDE DEF k, a, b, c
  <2> DEFINE q == [k EXCEPT !.moved = a, !.beside = b, !.sent = c]
  <2>3. /\ q \in Records
        /\ q.state = k.state /\ q.from = k.from /\ q.left = k.left /\ q.behind = k.behind
        /\ q.moved = a /\ q.beside = b /\ q.sent = c
    BY <2>1 DEF Records
  <2> HIDE DEF q, other
  <2>4. other(m) = q
    BY <2>2 DEF q
  <2> QED
    BY <2>3, <2>4, Zenon DEF k, a, b, c
<1>8. /\ mine \in Records
      /\ mine.state = verdict /\ mine.from = L.node[n].from /\ mine.moved = L.node[n].moved
      /\ mine.sent = L.node[n].sent /\ mine.behind = FALSE /\ mine.beside = {}
      /\ mine.left = was
  <2> DEFINE k == L.node[n]
             q == [k EXCEPT !.state = verdict, !.behind = FALSE, !.beside = {}, !.left = was]
  <2>1. k \in Records /\ verdict \in States /\ {} \in SUBSET Nodes
    BY <1>6 DEF States
  <2>2. mine = q
    OBVIOUS
  <2> HIDE DEF k, mine
  <2>3. /\ q \in Records
        /\ q.state = verdict /\ q.from = k.from /\ q.moved = k.moved /\ q.sent = k.sent
        /\ q.behind = FALSE /\ q.beside = {} /\ q.left = was
    BY <1>6, <2>1 DEF Records
  <2> HIDE DEF q
  <2> QED
    BY <2>2, <2>3, Zenon DEF k
<1> HIDE DEF other, mine
<1>9. f \in [Nodes -> Records]
  BY <1>7, <1>8
<1>10. f[n] = mine /\ \A m \in Nodes : m # n => f[m] = other(m)
  OBVIOUS
<1> HIDE DEF f
<1> DEFINE M == closed(L, n, verdict, left)
<1>11. M \in Logs /\ M.newest = told.newest /\ M.node = f
  <2>1. M = [told EXCEPT !.node = f]
    BY <1>1
  <2> HIDE DEF M
  <2> QED
    BY <1>2, <1>9, <2>1 DEF Logs
<1> HIDE DEF M
<1>12. LET r == L.node[n]
           q == M.node[n]
       IN  /\ q.state = verdict /\ q.from = r.from /\ q.moved = r.moved
           /\ q.sent = r.sent /\ q.behind = FALSE /\ q.beside = {}
           /\ q.left = IF verdict = "finished" THEN left ELSE r.left
  BY <1>8, <1>10, <1>11, Zenon DEF was
<1>13. ASSUME NEW m \in Nodes, m # n
       PROVE  LET r == L.node[m]
                  q == M.node[m]
              IN  /\ q.state = r.state /\ q.from = r.from /\ q.left = r.left
                  /\ q.moved = (r.moved \/ m \in moved_beside(L, n, left))
                  /\ q.beside = IF r.state = "running" THEN r.beside \cup {n} ELSE r.beside
                  /\ q.sent = IF r.sent = "sent" /\ Goto[m] = n /\ verdict = "finished"
                              THEN "corrected" ELSE r.sent
                  /\ q.behind = (r.behind \/ (n \in Writers /\ left # {} /\ r.state = "finished"))
  <2>1. M.node[m] = other(m)
    BY <1>10, <1>11, <1>13, Zenon
  <2>2. /\ moves(m) = (L.node[m].moved \/ m \in moved_beside(L, n, left))
        /\ by(m) = IF L.node[m].state = "running" THEN L.node[m].beside \cup {n}
                   ELSE L.node[m].beside
        /\ sends(m) = IF L.node[m].sent = "sent" /\ Goto[m] = n /\ verdict = "finished"
                      THEN "corrected" ELSE L.node[m].sent
    BY <1>3, Zenon DEF moves, by, sends
  <2>3. /\ M.node[m].state = told.node[m].state /\ M.node[m].from = told.node[m].from
        /\ M.node[m].left = told.node[m].left /\ M.node[m].behind = told.node[m].behind
        /\ M.node[m].moved = moves(m) /\ M.node[m].beside = by(m) /\ M.node[m].sent = sends(m)
    BY <1>7, <2>1, Zenon
  <2>4. /\ told.node[m].state = L.node[m].state /\ told.node[m].from = L.node[m].from
        /\ told.node[m].left = L.node[m].left
        /\ told.node[m].behind =
              (L.node[m].behind \/ (n \in Writers /\ left # {} /\ L.node[m].state = "finished"))
    BY <1>3, Zenon
  <2> QED
    BY <2>2, <2>3, <2>4, Zenon
<1> QED
  BY <1>2, <1>11, <1>12, <1>13, Zenon DEF M, Closed

-----------------------------------------------------------------------------
(* The types *)

\* The types and the bounds, which Shape and they keep.
TInv == Typed /\ Single /\ Counted

\* What the assumption on the constants says of the nodes.
LEMMA Constants ==
    /\ N \in Nat /\ N >= 1 /\ MaxChanges \in Nat /\ MaxSetbacks \in Nat /\ MaxParks \in Nat
    /\ Judges \subseteq Nodes /\ Rewriters \subseteq Judges /\ Own \subseteq Writers
    /\ Writers \subseteq Nodes /\ Nodes = 1..N /\ 0 \notin Nodes
    /\ \A n \in Nodes : Goto[n] \in Writers \cup {0}
    /\ \A n \in Nodes : Goto[n] # 0 => Goto[n] \in Nodes /\ Goto[Goto[n]] = 0
  BY TreeAssumption DEF Nodes, Writers, Corrections

\* A node with no attempt.
LEMMA IdleWork == Idle \in Works /\ Idle.pc = "idle" /\ Idle.tree = {} /\ Idle.verdict = "none"
  BY DEF Idle, Works, NoTree

\* A change counts one more for who made it and leaves the rest of the tree.
LEMMA ChangedTree ==
    ASSUME NEW n \in 0..N, tree \in Trees, tree.changes[n] < MaxChanges + MaxSetbacks
    PROVE  /\ Changed(n) \in Trees /\ Changed(n).form = tree.form
           /\ Changed(n).changes[n] = tree.changes[n] + 1
           /\ \A m \in 0..N : m # n => Changed(n).changes[m] = tree.changes[m]
<1> DEFINE c == [tree.changes EXCEPT ![n] = @ + 1]
           k == MaxChanges + MaxSetbacks
<1>1. k \in Nat /\ tree.changes \in [0..N -> 0..k] /\ tree.form \in Rewriters \cup {0}
  BY Constants DEF Trees
<1>2. c \in [0..N -> 0..k] /\ c[n] = tree.changes[n] + 1
      /\ \A m \in 0..N : m # n => c[m] = tree.changes[m]
  <2> DEFINE e == tree.changes[n] + 1
             d == tree.changes
  <2>1. d \in [0..N -> 0..k]
    BY <1>1
  <2>2. e \in 0..k
    <3>1. k \in Nat /\ tree.changes[n] \in 0..k /\ tree.changes[n] < k
      BY <1>1
    <3> HIDE DEF k
    <3> QED
      BY <3>1
  <2>3. c = [d EXCEPT ![n] = e]
    OBVIOUS
  <2> HIDE DEF c, d, e, k
  <2>4. c \in [0..N -> 0..k] /\ c[n] = e /\ \A m \in 0..N : m # n => c[m] = d[m]
    BY <2>1, <2>2, <2>3
  <2> QED
    BY <2>4 DEF d, e
<1> HIDE DEF c, k
<1>3. Changed(n) = [tree EXCEPT !.changes = c]
  BY Zenon DEF Changed, c
<1>4. tree \in [changes : [0..N -> 0..k], form : Rewriters \cup {0}]
  BY DEF Trees, k
<1>5. [tree EXCEPT !.changes = c] \in [changes : [0..N -> 0..k], form : Rewriters \cup {0}]
      /\ [tree EXCEPT !.changes = c].changes = c
      /\ [tree EXCEPT !.changes = c].form = tree.form
  BY <1>2, <1>4
<1> QED
  BY <1>2, <1>3, <1>5, Zenon DEF Trees, k

\* The types hold at first.
LEMMA TypedInit == Init => TInv
<1> SUFFICES ASSUME Init PROVE TInv
  OBVIOUS
<1>1. Untouched \in Trees /\ Untouched.changes \in [0..N -> Nat]
      /\ \A n \in 0..N : Untouched.changes[n] = 0
  BY Constants DEF Untouched, Trees
<1>2. Unborn \in Records /\ Unborn.from = {} /\ Unborn.left = {} /\ Unborn.beside = {}
  BY DEF Unborn, Records, States, NoTree
<1>3. log \in Logs /\ log.newest = {} /\ \A n \in Nodes : log.node[n] = Unborn
  BY <1>2 DEF Init, Logs, NoTree
<1>4. work \in [Nodes -> Works] /\ \A n \in Nodes : work[n].tree = {}
  BY IdleWork DEF Init
<1>5. Typed
  <2>1. read \in [Judges -> [0..N -> Nat]]
    BY <1>1 DEF Init
  <2>2. tree \in Trees /\ eng = "up" /\ setbacks = 0 /\ parks = 0
    BY <1>1 DEF Init
  <2>3. setbacks \in 0..MaxSetbacks /\ parks \in 0..MaxParks
    BY <2>2, Constants
  <2> QED
    BY <1>3, <1>4, <2>1, <2>2, <2>3 DEF Typed
<1>6. Single
  BY <1>2, <1>3, <1>4 DEF Single, OneTree
<1>7. Counted
  BY <1>1, Constants DEF Init, Counted
<1> QED
  BY <1>5, <1>6, <1>7 DEF TInv

\* A step of one node's attempt writes its place in the work and no other.
LEMMA Placed ==
    ASSUME work \in [Nodes -> Works], NEW n \in Nodes, NEW w \in Works, OneTree(w.tree),
           work' = [work EXCEPT ![n] = w], \A m \in Nodes : OneTree(work[m].tree)
    PROVE  /\ work' \in [Nodes -> Works] /\ \A m \in Nodes : OneTree(work'[m].tree)
           /\ work'[n] = w /\ \A m \in Nodes : m # n => work'[m] = work[m]
  OBVIOUS

\* Every step keeps them.
LEMMA TypedNext == TInv /\ Shape /\ [Next]_vars => TInv'
<1> SUFFICES ASSUME TInv, Shape, [Next]_vars PROVE TInv'
  OBVIOUS
<1> USE DEF TInv
<1>t. /\ tree \in Trees /\ log \in Logs /\ work \in [Nodes -> Works]
      /\ setbacks \in 0..MaxSetbacks /\ parks \in 0..MaxParks
      /\ \A n \in Nodes : OneTree(work[n].tree)
      /\ \A n \in Nodes : work[n].tree \subseteq Trees
  BY DEF Typed, Single, Works
<1>o. \A t \in Trees : OneTree({t}) /\ {t} \in SUBSET Trees
  BY DEF OneTree
<1>w. OneTree({}) /\ OneTree(Idle.tree)
  BY IdleWork DEF OneTree
<1>e. ASSUME NEW S, execute(S) PROVE TInv'
  <2>1. [Idle EXCEPT !.pc = "due"] \in Works /\ [Idle EXCEPT !.pc = "due"].tree = {}
    BY IdleWork DEF Works
  <2>2. work' \in [Nodes -> Works] /\ \A m \in Nodes : OneTree(work'[m].tree)
    BY <1>e, <1>w, <2>1, IdleWork DEF execute
  <2> QED
    BY <1>e, <2>2 DEF execute, Typed, Single, Counted
<1>r. ASSUME log' \in Logs, OneTree(log'.newest),
             \A n \in Nodes : /\ OneTree(log'.node[n].from) /\ OneTree(log'.node[n].left)
                              /\ n \notin log'.node[n].beside,
             UNCHANGED <<tree, read, eng, setbacks, parks>>, work' \in [Nodes -> Works],
             \A n \in Nodes : OneTree(work'[n].tree)
      PROVE  TInv'
  BY <1>r DEF Typed, Single, Counted
<1>p. ASSUME NEW n \in Nodes, NEW w \in Works, OneTree(w.tree), work' = [work EXCEPT ![n] = w]
      PROVE  work' \in [Nodes -> Works] /\ \A m \in Nodes : OneTree(work'[m].tree)
  BY <1>t, <1>p, Placed
<1>1. CASE Executes
  <2>1. execute(decide(log).nodes)
    BY <1>1 DEF Executes
  <2> QED
    BY <1>e, <2>1
<1>2. CASE Reroutes
  <2>1. PICK n \in decide(log).nodes : log' = [log EXCEPT !.node[n].sent = "sent"]
    BY <1>2 DEF Reroutes
  <2>2. /\ log' \in Logs /\ log'.newest = log.newest
        /\ \A m \in Nodes : /\ log'.node[m].from = log.node[m].from
                             /\ log'.node[m].left = log.node[m].left
                             /\ log'.node[m].beside = log.node[m].beside
    <3> DEFINE r == [log.node[n] EXCEPT !.sent = "sent"]
    <3>1. log' = [log EXCEPT !.node[n] = r]
      BY <2>1, Zenon
    <3>2. CASE n \notin Nodes
      <4>1. log' = log
        BY <1>t, <3>1, <3>2 DEF Logs
      <4> QED
        BY <1>t, <4>1
    <3>3. CASE n \in Nodes
      <4>1. r \in Records /\ r.from = log.node[n].from /\ r.left = log.node[n].left
            /\ r.beside = log.node[n].beside
        BY <1>t, <3>3 DEF Logs, Records
      <4> HIDE DEF r
      <4> QED
        BY <1>t, <3>1, <3>3, <4>1 DEF Logs
    <3> QED
      BY <3>2, <3>3
  <2> QED
    BY <1>2, <2>2 DEF Reroutes, Typed, Single, Counted
<1>3. CASE Retries
  <2>1. execute(decide(log).nodes)
    BY <1>3 DEF Retries
  <2> QED
    BY <1>e, <2>1
<1>4. CASE Parks
  <2>1. parks' \in 0..MaxParks
    BY <1>4, <1>t, Constants DEF Parks
  <2> QED
    BY <1>4, <2>1 DEF Parks, Typed, Single, Counted
<1>5. CASE Finishes
  BY <1>5 DEF Finishes, Typed, Single, Counted
<1>6. CASE Wake
  <2> DEFINE named == IF In(log, "failed") # {} THEN {tree} ELSE NoTree
  <2>1. named \in SUBSET Trees /\ OneTree(named) /\ log' = names(log, named)
    BY <1>6, <1>t, <1>o, <1>w DEF Wake, NoTree
  <2> HIDE DEF named
  <2>2. /\ log' \in Logs
        /\ log'.newest = IF named = {} THEN log.newest ELSE named
        /\ \A m \in Nodes : /\ log'.node[m].from = log.node[m].from
                             /\ log'.node[m].left = log.node[m].left
                             /\ log'.node[m].beside = log.node[m].beside
    <3>1. Naming(log, log', named)
      BY <1>t, <2>1, NamesFields, Zenon
    <3> QED
      BY <3>1 DEF Naming
  <2>3. OneTree(log'.newest)
    BY <2>1, <2>2 DEF Single
  <2> QED
    BY <1>6, <2>2, <2>3 DEF Wake, Typed, Single, Counted
<1>7. CASE Cut
  <2>1. work' \in [Nodes -> Works] /\ \A m \in Nodes : OneTree(work'[m].tree)
    BY <1>7, <1>w, IdleWork DEF Cut
  <2>2. setbacks' \in 0..MaxSetbacks /\ setbacks' >= setbacks
    BY <1>7, <1>t, Constants DEF Cut, Setback
  <2>3. tree.changes[0] \in Nat
    BY <1>t, Constants DEF Trees
  <2>4. Counted'
    BY <1>7, <1>t, <2>2, <2>3, Constants DEF Cut, Counted
  <2> QED
    BY <1>7, <2>1, <2>2, <2>4 DEF Cut, Typed, Single
<1>8. CASE PersonEdits
  <2>1. setbacks' \in 0..MaxSetbacks /\ setbacks' = setbacks + 1 /\ setbacks < MaxSetbacks
    BY <1>8, <1>t, Constants DEF PersonEdits, Setback
  <2>2. tree.changes[0] < MaxChanges + MaxSetbacks /\ 0 \in 0..N /\ tree.changes[0] \in Nat
    BY <1>t, <2>1, Constants DEF Counted, Trees
  <2>3. /\ Changed(0) \in Trees /\ Changed(0).changes[0] = tree.changes[0] + 1
        /\ \A m \in 0..N : m # 0 => Changed(0).changes[m] = tree.changes[m]
    BY <1>t, <2>2, ChangedTree
  <2>4. tree' = Changed(0)
    BY <1>8 DEF PersonEdits
  <2>5. Counted'
    BY <1>t, <2>1, <2>2, <2>3, <2>4, Constants DEF Counted
  <2> QED
    BY <1>8, <2>1, <2>3, <2>4, <2>5 DEF PersonEdits, Typed, Single
<1>9. ASSUME NEW n \in Nodes, Opens(n) PROVE TInv'
  <2> DEFINE w == [Idle EXCEPT !.pc = "opened", !.tree = {tree}]
  <2>1. w \in Works /\ w.tree = {tree}
    BY <1>t, IdleWork DEF Works
  <2>2. work' = [work EXCEPT ![n] = w]
    BY <1>9 DEF Opens
  <2>3. work' \in [Nodes -> Works] /\ \A m \in Nodes : OneTree(work'[m].tree)
    BY <1>o, <1>p, <1>t, <2>1, <2>2
  <2> QED
    BY <1>9, <2>3 DEF Opens, Typed, Single, Counted
<1>10. ASSUME NEW n \in Nodes, Starts(n) PROVE TInv'
  <2> DEFINE from == IF n \in Own THEN work[n].tree ELSE {tree}
             w == [Idle EXCEPT !.pc = "working"]
  <2>1. from \in SUBSET Trees /\ OneTree(from)
    BY <1>o, <1>t
  <2>2. log' = started(log, n, from) /\ work' = [work EXCEPT ![n] = w]
        /\ UNCHANGED <<tree, eng, setbacks, parks>>
    BY <1>10 DEF Starts
  <2>3. w \in Works /\ w.tree = {}
    BY IdleWork DEF Works
  <2>4. work' \in [Nodes -> Works] /\ \A m \in Nodes : OneTree(work'[m].tree)
    BY <1>p, <1>w, <2>2, <2>3
  <2> HIDE DEF from
  <2>5. /\ log' \in Logs
        /\ log'.newest = IF from = {} THEN log.newest ELSE from
        /\ \A m \in Nodes :
              /\ m = n => log'.node[m].from = from /\ log'.node[m].beside = {}
              /\ m # n => /\ log'.node[m].from = log.node[m].from
                          /\ log'.node[m].beside = log.node[m].beside
              /\ log'.node[m].left = log.node[m].left
    <3>1. Starting(log, log', n, from)
      BY <1>t, <2>1, <2>2, StartedFields, Zenon
    <3> QED
      BY <3>1 DEF Starting
  <2>6. Single'
    BY <2>1, <2>4, <2>5 DEF Single
  <2>7. read' \in [Judges -> [0..N -> Nat]]
    <3>1. tree.changes \in [0..N -> Nat] /\ read \in [Judges -> [0..N -> Nat]]
      BY <1>t, Constants DEF Trees, Typed
    <3>2. read' = read \/ read' = [read EXCEPT ![n] = tree.changes]
      BY <1>10 DEF Starts
    <3> QED
      BY <3>1, <3>2
  <2> QED
    BY <2>2, <2>4, <2>5, <2>6, <2>7 DEF Typed, Counted
<1>c. ASSUME NEW n \in Nodes, tree.changes[n] < MaxChanges, tree' = Changed(n),
             setbacks' = setbacks
      PROVE  tree' \in Trees /\ Counted'
  <2>1. n \in 0..N /\ n # 0 /\ tree.changes[n] < MaxChanges + MaxSetbacks
        /\ tree.changes[n] \in Nat /\ 0 \in 0..N /\ Nodes \subseteq 0..N
    BY <1>c, <1>t, Constants DEF Trees
  <2>2. /\ Changed(n) \in Trees /\ Changed(n).changes[n] = tree.changes[n] + 1
        /\ \A m \in 0..N : m # n => Changed(n).changes[m] = tree.changes[m]
    BY <1>t, <2>1, ChangedTree
  <2> QED
    BY <1>c, <2>1, <2>2, Constants DEF Counted
<1>11. ASSUME NEW n \in Nodes, Writes(n) PROVE TInv'
  BY <1>11, <1>c DEF Writes, Typed, Single
<1>12. ASSUME NEW n \in Nodes, Rewrites(n) PROVE TInv'
  <2>1. tree' \in Trees /\ tree'.changes = tree.changes
    BY <1>12, <1>t DEF Rewrites, Trees
  <2> QED
    BY <1>12, <2>1 DEF Rewrites, Typed, Single, Counted
<1>13. ASSUME NEW n \in Nodes, Lands(n) PROVE TInv'
  <2> DEFINE w == [work[n] EXCEPT !.pc = "landed"]
  <2>1. w \in Works /\ w.tree = work[n].tree /\ work' = [work EXCEPT ![n] = w]
    BY <1>13, <1>t DEF Lands, Works
  <2>2. work' \in [Nodes -> Works] /\ \A m \in Nodes : OneTree(work'[m].tree)
    BY <1>p, <1>t, <2>1
  <2>3. tree' \in Trees /\ Counted'
    <3>1. CASE UNCHANGED tree
      BY <1>13, <1>t, <3>1 DEF Lands, Counted
    <3>2. CASE tree.changes[n] < MaxChanges /\ tree' = Changed(n)
      BY <1>13, <1>c, <3>2 DEF Lands
    <3> QED
      BY <1>13, <3>1, <3>2 DEF Lands
  <2> QED
    BY <1>13, <2>2, <2>3 DEF Lands, Typed, Single
<1>k. ASSUME UNCHANGED setbacks \/ Setback, tree' = tree
      PROVE  setbacks' \in 0..MaxSetbacks /\ Counted'
  <2>1. setbacks' \in 0..MaxSetbacks /\ setbacks' >= setbacks
    BY <1>k, <1>t, Constants DEF Setback
  <2>2. tree.changes[0] \in Nat
    BY <1>t, Constants DEF Trees
  <2> QED
    BY <1>k, <1>t, <2>1, <2>2, Constants DEF Counted
<1>14. ASSUME NEW n \in Nodes, Captures(n) PROVE TInv'
  <2>1. PICK verdict \in {"finished", "failed"} :
           /\ UNCHANGED setbacks \/ Setback
           /\ work' = [work EXCEPT ![n] = [pc |-> "closing", tree |-> {tree}, verdict |-> verdict]]
    BY <1>14 DEF Captures
  <2> DEFINE w == [pc |-> "closing", tree |-> {tree}, verdict |-> verdict]
  <2>2. w \in Works /\ w.tree = {tree}
    BY <1>t DEF Works
  <2>3. work' \in [Nodes -> Works] /\ \A m \in Nodes : OneTree(work'[m].tree)
    BY <1>o, <1>p, <1>t, <2>1, <2>2
  <2>4. setbacks' \in 0..MaxSetbacks /\ Counted'
    BY <1>14, <1>k, <2>1 DEF Captures
  <2> QED
    BY <1>14, <2>3, <2>4 DEF Captures, Typed, Single
<1>15. ASSUME NEW n \in Nodes, FailsUnstopped(n) PROVE TInv'
  <2> DEFINE w == [Idle EXCEPT !.pc = "closing", !.verdict = "failed"]
  <2>1. w \in Works /\ w.tree = {}
    BY IdleWork DEF Works
  <2>2. work' = [work EXCEPT ![n] = w] /\ Setback
    BY <1>15 DEF FailsUnstopped
  <2>3. work' \in [Nodes -> Works] /\ \A m \in Nodes : OneTree(work'[m].tree)
    BY <1>p, <1>w, <2>1, <2>2
  <2>4. setbacks' \in 0..MaxSetbacks /\ Counted'
    BY <1>15, <1>k, <2>2 DEF FailsUnstopped
  <2> QED
    BY <1>15, <2>3, <2>4 DEF FailsUnstopped, Typed, Single
<1>16. ASSUME NEW n \in Nodes, Closes(n) PROVE TInv'
  <2> DEFINE verdict == work[n].verdict
             left == work[n].tree
  <2>1. verdict \in {"finished", "failed"} /\ left \in SUBSET Trees /\ OneTree(left)
    BY <1>16, <1>t DEF Closes, Shape, Stands
  <2>2. log' = closed(log, n, verdict, left) /\ work' = [work EXCEPT ![n] = Idle]
        /\ UNCHANGED <<tree, eng, read, setbacks, parks>>
    BY <1>16 DEF Closes
  <2>3. work' \in [Nodes -> Works] /\ \A m \in Nodes : OneTree(work'[m].tree)
    BY <1>p, <1>w, <2>2, IdleWork
  <2> HIDE DEF verdict, left
  <2>4. Closed(log, log', n, verdict, left)
    BY <1>t, <2>1, <2>2, ClosedFields, Zenon
  <2>5. log' \in Logs
    BY <2>4 DEF Closed
  <2>6. OneTree(log'.newest)
    BY <2>1, <2>4 DEF Closed, Single
  <2>7. ASSUME NEW m \in Nodes
        PROVE  /\ OneTree(log'.node[m].from) /\ OneTree(log'.node[m].left)
               /\ m \notin log'.node[m].beside
    <3>1. CASE m = n
      BY <2>1, <2>4, <3>1 DEF Closed, Single
    <3>2. CASE m # n
      BY <2>4, <3>2 DEF Closed, Single
    <3> QED
      BY <3>1, <3>2
  <2>8. Single'
    BY <2>3, <2>6, <2>7 DEF Single
  <2>9. Counted'
    BY <2>2 DEF Counted
  <2> QED
    BY <2>2, <2>3, <2>5, <2>8, <2>9 DEF Typed
<1>17. CASE UNCHANGED vars
  BY <1>17 DEF vars, Typed, Single, Counted
<1> QED
  BY <1>1, <1>2, <1>3, <1>4, <1>5, <1>6, <1>7, <1>8, <1>9, <1>10, <1>11, <1>12, <1>13,
     <1>14, <1>15, <1>16, <1>17 DEF Next

-----------------------------------------------------------------------------
(* What each kind of step does, in one place for the three inductions below *)

\* The engine or a person decides: only attempts fall due, where none was under way.
Dues ==
    /\ UNCHANGED <<tree, log, read>> /\ Landed /\ eng = "up" /\ eng' = "up"
    /\ \A m \in Nodes : work'[m].pc \in {"idle", "due"} /\ work'[m].tree = {}

\* The place of n's attempt alone moves, to w.
Steps(n, w) ==
    /\ UNCHANGED <<tree, eng, read>> /\ eng = "up"
    /\ work'[n] = w /\ \A m \in Nodes : m # n => work'[m] = work[m]

\* The tree grows, by a writer at work or by the person while a failure waits.
Grows ==
    /\ UNCHANGED <<log, eng, read>>
    /\ \A m \in Nodes : \/ work'[m] = work[m]
                        \/ /\ m \in Own /\ work[m].pc = "working" /\ work'[m].pc = "landed"
                           /\ work'[m].tree = work[m].tree
    /\ Below(tree.changes, tree'.changes)
    /\ \A k \in 0..N : tree'.changes[k] # tree.changes[k] =>
          \/ k \in Writers /\ work[k].pc = "working" /\ work'[k].pc \in {"working", "landed"}
          \/ /\ k = 0 /\ Landed
             /\ Perils = {} => \E f \in Nodes : log.node[f].state = "failed"

\* n starts from the tree `from`.
Begins(n, from) ==
    /\ UNCHANGED <<tree, eng>> /\ eng = "up"
    /\ from \in SUBSET Trees /\ from # {} /\ OneTree(from)
    /\ IF n \in Own THEN work[n].pc = "opened" /\ from = work[n].tree
       ELSE work[n].pc = "due" /\ from = {tree}
    /\ Starting(log, log', n, from)
    /\ work'[n].pc = "working" /\ work'[n].tree = {}
    /\ \A m \in Nodes : m # n => work'[m] = work[m]
    /\ n \in Judges => read'[n] = tree.changes
    /\ \A v \in Judges : v # n => read'[v] = read[v]
    /\ Perils = {} => \A m \in Writers : Closing(m) => work[m].tree \in {{}, from}

\* n closes as its attempt ended.
Ends(n) ==
    /\ UNCHANGED <<tree, eng, read>> /\ eng = "up"
    /\ work[n].pc = "closing"
    /\ Closed(log, log', n, work[n].verdict, work[n].tree)
    /\ work'[n].pc = "idle" /\ work'[n].tree = {}
    /\ \A m \in Nodes : m # n => work'[m] = work[m]

\* The changes of a tree are counts.
LEMMA Counts ==
    /\ \A t \in Trees : t.changes \in [0..N -> Nat]
    /\ \A t \in Trees : \A n \in 0..N : t.changes[n] \in Nat
    /\ Nodes \subseteq 0..N
  BY Constants DEF Trees

\* A decision to execute, or a person's retry, has attempts fall due.
LEMMA DuesEffect == TInv /\ Shape /\ (Executes \/ Retries) => Dues
<1> SUFFICES ASSUME TInv, Shape, Executes \/ Retries PROVE Dues
  OBVIOUS
<1>1. execute(decide(log).nodes) /\ Landed /\ eng = "up"
  BY DEF Executes, Retries, Deciding
<1>2. [Idle EXCEPT !.pc = "due"].pc = "due" /\ [Idle EXCEPT !.pc = "due"].tree = {}
  BY IdleWork DEF Works
<1> QED
  BY <1>1, <1>2, IdleWork DEF Dues, execute

\* A node whose attempt is under way has an engine over it.
LEMMA UnderWay ==
    ASSUME Shape, NEW n \in Nodes, work[n].pc # "idle" PROVE eng = "up"
  BY DEF Shape, Landed

\* An audited node's checkout opens on the run's tree.
LEMMA OpensEffect ==
    ASSUME TInv, Shape, NEW n \in Nodes, Opens(n)
    PROVE  /\ log' = log /\ n \in Own /\ work[n].pc = "due"
           /\ \E w \in Works : Steps(n, w) /\ w.pc = "opened" /\ w.tree = {tree}
<1> DEFINE w == [Idle EXCEPT !.pc = "opened", !.tree = {tree}]
<1>1. w \in Works /\ w.pc = "opened" /\ w.tree = {tree}
  BY IdleWork DEF Works, TInv, Typed
<1> HIDE DEF w
<1>2. work' = [work EXCEPT ![n] = w] /\ work \in [Nodes -> Works]
  BY DEF Opens, TInv, Typed, w
<1>3. Steps(n, w)
  BY <1>2, UnderWay DEF Opens, Steps
<1> QED
  BY <1>1, <1>3 DEF Opens

\* A close reads the run's tree; a writer's, only what other closes to be recorded read.
LEMMA CapturesEffect ==
    ASSUME TInv, Shape, NEW n \in Nodes, Captures(n)
    PROVE  /\ log' = log /\ work[n].pc \in {"working", "landed"}
           /\ n \in Writers /\ Perils = {} =>
                 \A m \in Writers : Closing(m) => work[m].tree \in {{}, {tree}}
           /\ \E w \in Works : /\ Steps(n, w) /\ w.pc = "closing" /\ w.tree = {tree}
                               /\ w.verdict \in {"finished", "failed"}
<1>1. PICK verdict \in {"finished", "failed"} :
         /\ Ended(n, verdict)
         /\ n \in Writers /\ Overtakes({tree}) => "late" \in Perils
         /\ work' = [work EXCEPT ![n] = [pc |-> "closing", tree |-> {tree}, verdict |-> verdict]]
  BY DEF Captures
<1> DEFINE w == [pc |-> "closing", tree |-> {tree}, verdict |-> verdict]
<1>2. w \in Works /\ w.pc = "closing" /\ w.tree = {tree} /\ w.verdict \in {"finished", "failed"}
  BY DEF Works, TInv, Typed
<1>3. work' = [work EXCEPT ![n] = w] /\ work \in [Nodes -> Works]
  BY <1>1 DEF TInv, Typed
<1> HIDE DEF w
<1>4. work[n].pc \in {"working", "landed"}
  BY <1>1 DEF Ended
<1>5. Steps(n, w)
  BY <1>3, <1>4, UnderWay DEF Captures, Steps
<1>6. n \in Writers /\ Perils = {} =>
         \A m \in Writers : Closing(m) => work[m].tree \in {{}, {tree}}
  BY <1>1 DEF Overtakes, Closing, NoTree
<1> QED
  BY <1>2, <1>4, <1>5, <1>6 DEF Captures

\* A session that could not be stopped fails its node, and nothing is read.
LEMMA UnstoppedEffect ==
    ASSUME TInv, Shape, NEW n \in Nodes, FailsUnstopped(n)
    PROVE  /\ log' = log /\ n \in Writers /\ work[n].pc = "working"
           /\ Perils = {} => /\ ~PassBeside
                             /\ \A v \in Judges : work[v].pc \notin {"working", "closing"}
           /\ \E w \in Works : /\ Steps(n, w) /\ w.pc = "closing" /\ w.tree = {}
                               /\ w.verdict = "failed"
<1> DEFINE w == [Idle EXCEPT !.pc = "closing", !.verdict = "failed"]
<1>1. w \in Works /\ w.pc = "closing" /\ w.tree = {} /\ w.verdict = "failed"
  BY IdleWork DEF Works
<1> HIDE DEF w
<1>2. work' = [work EXCEPT ![n] = w] /\ work \in [Nodes -> Works]
  BY DEF FailsUnstopped, TInv, Typed, w
<1>3. Steps(n, w)
  BY <1>2, UnderWay DEF FailsUnstopped, Steps
<1>4. Perils = {} => ~PassBeside /\ \A v \in Judges : work[v].pc \notin {"working", "closing"}
  BY DEF FailsUnstopped
<1> QED
  BY <1>1, <1>3, <1>4 DEF FailsUnstopped

\* A start names what it was taken from, which closes to be recorded read too.
LEMMA StartsEffect ==
    ASSUME TInv, Shape, NEW n \in Nodes, Starts(n)
    PROVE  \E from \in SUBSET Trees : Begins(n, from)
<1> DEFINE from == IF n \in Own THEN work[n].tree ELSE {tree}
           w == [Idle EXCEPT !.pc = "working"]
<1>1. /\ work[n].pc = (IF n \in Own THEN "opened" ELSE "due")
      /\ Overtakes(from) => "late" \in Perils
      /\ log' = started(log, n, from)
      /\ work' = [work EXCEPT ![n] = w]
      /\ read' = IF n \in Judges THEN [read EXCEPT ![n] = tree.changes] ELSE read
      /\ UNCHANGED <<tree, eng>>
  BY Zenon DEF Starts
<1>2. /\ log \in Logs /\ work \in [Nodes -> Works] /\ tree \in Trees
      /\ read \in [Judges -> [0..N -> Nat]]
  BY DEF TInv, Typed
<1>3. w \in Works /\ w.pc = "working" /\ w.tree = {}
  BY IdleWork DEF Works
<1>4. from \in SUBSET Trees /\ from # {} /\ OneTree(from)
  <2>1. CASE n \in Own
    <3>1. work[n].tree \in SUBSET Trees
      BY <1>2 DEF Works
    <3> QED
      BY <1>1, <2>1, <3>1 DEF TInv, Single, Shape, Stands
  <2>2. CASE n \notin Own
    BY <1>2, <2>2 DEF OneTree
  <2> QED
    BY <2>1, <2>2
<1>5. /\ IF n \in Own THEN work[n].pc = "opened" /\ from = work[n].tree
         ELSE work[n].pc = "due" /\ from = {tree}
      /\ eng = "up"
  BY <1>1, UnderWay
<1> HIDE DEF from, w
<1>6. Starting(log, log', n, from)
  BY <1>1, <1>2, <1>4, StartedFields, Zenon
<1>7. work'[n] = w /\ \A m \in Nodes : m # n => work'[m] = work[m]
  BY <1>1, <1>2
<1>8. /\ n \in Judges => read'[n] = tree.changes
      /\ \A v \in Judges : v # n => read'[v] = read[v]
  BY <1>1, <1>2
<1>9. Perils = {} => \A m \in Writers : Closing(m) => work[m].tree \in {{}, from}
  BY <1>1 DEF Overtakes, Closing, NoTree
<1>10. Begins(n, from)
  BY <1>1, <1>3, <1>4, <1>5, <1>6, <1>7, <1>8, <1>9 DEF Begins
<1> QED
  BY <1>4, <1>10

\* The event of a close is the close its attempt came to.
LEMMA ClosesEffect ==
    ASSUME TInv, Shape, NEW n \in Nodes, Closes(n) PROVE Ends(n)
<1>1. /\ work[n].pc = "closing"
      /\ log' = closed(log, n, work[n].verdict, work[n].tree)
      /\ work' = [work EXCEPT ![n] = Idle]
      /\ UNCHANGED <<tree, eng, read>>
  BY DEF Closes
<1>2. log \in Logs /\ work \in [Nodes -> Works]
  BY DEF TInv, Typed
<1>3. work[n].verdict \in {"finished", "failed"} /\ work[n].tree \in SUBSET Trees /\ eng = "up"
  BY <1>1, <1>2, UnderWay DEF Shape, Stands, Works
<1>4. Closed(log, log', n, work[n].verdict, work[n].tree)
  BY <1>1, <1>2, <1>3, ClosedFields, Zenon
<1>5. work'[n] = Idle /\ \A m \in Nodes : m # n => work'[m] = work[m]
  BY <1>1, <1>2
<1> QED
  BY <1>1, <1>3, <1>4, <1>5, IdleWork DEF Ends

\* Only a failure is put to a person.
LEMMA EscalatesAFailure ==
    decide(log).do = "EscalateFailure" => \E f \in Nodes : log.node[f].state = "failed"
<1> SUFFICES ASSUME decide(log).do = "EscalateFailure", In(log, "failed") = {} PROVE FALSE
  BY DEF In
<1> DEFINE open == {n \in In(log, "failed") : failure_of(log, n).do # "None"}
<1>1. open = {}
  OBVIOUS
<1>2. decide(log).do \in {"Execute", "Reverify", "Fresh", "Finish"}
  BY <1>1 DEF decide, Decision
<1> QED
  BY <1>2

\* The tree moves only under a writer at work, an invariant that rewrites it, or a person whom a
\* failure waits on.
LEMMA GrowsEffect ==
    ASSUME TInv, Shape,
           PersonEdits \/ \E n \in Nodes : Writes(n) \/ Rewrites(n) \/ Lands(n)
    PROVE  Grows
<1>t. tree \in Trees /\ work \in [Nodes -> Works]
  BY DEF TInv, Typed
<1>b. \A k \in 0..N : tree.changes[k] \in Nat
  BY <1>t, Counts
<1>c. ASSUME NEW k \in 0..N, tree' = Changed(k), tree.changes[k] < MaxChanges + MaxSetbacks
      PROVE  /\ Below(tree.changes, tree'.changes)
             /\ \A m \in 0..N : tree'.changes[m] # tree.changes[m] => m = k
  <2>1. /\ Changed(k).changes[k] = tree.changes[k] + 1
        /\ \A m \in 0..N : m # k => Changed(k).changes[m] = tree.changes[m]
    BY <1>t, <1>c, ChangedTree
  <2> QED
    BY <1>b, <1>c, <2>1 DEF Below
<1>s. ASSUME tree'.changes = tree.changes
      PROVE  /\ Below(tree.changes, tree'.changes)
             /\ \A m \in 0..N : tree'.changes[m] = tree.changes[m]
  BY <1>b, <1>s DEF Below
<1>m. \A k \in Nodes : tree.changes[k] < MaxChanges => tree.changes[k] < MaxChanges + MaxSetbacks
  BY <1>b, Constants, Counts
<1>1. CASE PersonEdits
  <2>1. 0 \in 0..N /\ tree.changes[0] < MaxChanges + MaxSetbacks
    BY <1>1, <1>b, Constants DEF PersonEdits, Setback, TInv, Counted, Typed
  <2>2. Perils = {} => \E f \in Nodes : log.node[f].state = "failed"
    BY <1>1, EscalatesAFailure DEF PersonEdits, In
  <2>3. tree' = Changed(0) /\ Landed /\ UNCHANGED <<log, eng, work, read>>
    BY <1>1 DEF PersonEdits
  <2> QED
    BY <1>c, <2>1, <2>2, <2>3 DEF Grows
<1>2. ASSUME NEW n \in Nodes, Writes(n) PROVE Grows
  <2>1. tree.changes[n] < MaxChanges + MaxSetbacks /\ n \in 0..N
    BY <1>2, <1>m, Counts DEF Writes
  <2>2. /\ tree' = Changed(n) /\ UNCHANGED <<log, eng, work, read>>
        /\ n \in Writers /\ work[n].pc = "working"
    BY <1>2 DEF Writes
  <2> QED
    BY <1>c, <2>1, <2>2 DEF Grows
<1>3. ASSUME NEW n \in Nodes, Rewrites(n) PROVE Grows
  <2>1. tree'.changes = tree.changes /\ UNCHANGED <<log, eng, work, read>>
    BY <1>3, <1>t DEF Rewrites, Trees
  <2> QED
    BY <1>s, <2>1 DEF Grows
<1>4. ASSUME NEW n \in Nodes, Lands(n) PROVE Grows
  <2>1. /\ work' = [work EXCEPT ![n].pc = "landed"] /\ UNCHANGED <<log, eng, read>>
        /\ n \in Own /\ work[n].pc = "working" /\ n \in Writers
    BY <1>4, Constants DEF Lands
  <2>2. /\ work'[n].pc = "landed" /\ work'[n].tree = work[n].tree
        /\ \A m \in Nodes : m # n => work'[m] = work[m]
    BY <1>t, <2>1 DEF Works
  <2>3. CASE UNCHANGED tree
    BY <1>s, <2>1, <2>2, <2>3 DEF Grows
  <2>4. CASE tree.changes[n] < MaxChanges /\ tree' = Changed(n)
    <3>1. tree.changes[n] < MaxChanges + MaxSetbacks /\ n \in 0..N
      BY <1>m, <2>4, Counts
    <3> QED
      BY <1>c, <2>1, <2>2, <2>4, <3>1 DEF Grows
  <2> QED
    BY <1>4, <2>3, <2>4 DEF Lands
<1> QED
  BY <1>1, <1>2, <1>3, <1>4

\* Nothing the proofs are about moves.
Still == UNCHANGED <<tree, log, work, read>> /\ (Landed \/ eng' = eng)

\* A failure is sent to its correction.
Rerouted ==
    /\ UNCHANGED <<tree, work, read, eng>>
    /\ log'.newest = log.newest
    /\ \A m \in Nodes :
          LET r == log.node[m]
              q == log'.node[m]
          IN  /\ q.state = r.state /\ q.from = r.from /\ q.left = r.left
              /\ q.beside = r.beside /\ q.moved = r.moved /\ q.behind = r.behind
              /\ q.sent = r.sent \/ Goto[m] # 0

\* A wake records the tree where a failure waits.
Woken ==
    /\ UNCHANGED <<tree, work, read>> /\ Landed
    /\ IF \E f \in Nodes : log.node[f].state = "failed"
       THEN Naming(log, log', {tree}) ELSE Naming(log, log', {})

\* What is at work is cut.
Severed ==
    /\ UNCHANGED <<tree, log, read>>
    /\ \A m \in Nodes : work'[m].pc = "idle" /\ work'[m].tree = {}
    /\ Perils = {} => ~PassBeside

\* Only a failure that has a correction is sent to it.
LEMMA ReroutesEffect == TInv /\ Reroutes => Rerouted
<1> SUFFICES ASSUME TInv, Reroutes PROVE Rerouted
  OBVIOUS
<1>t. log \in Logs
  BY DEF TInv, Typed
<1>1. PICK n \in decide(log).nodes : log' = [log EXCEPT !.node[n].sent = "sent"]
  BY DEF Reroutes
<1>2. Goto[n] # 0
  <2> DEFINE open == {k \in In(log, "failed") : failure_of(log, k).do # "None"}
  <2>1. decide(log).do = "Reroute"
    BY DEF Reroutes
  <2>2. In(log, "running") = {} /\ open # {}
    BY <2>1 DEF decide, Decision
  <2>3. decide(log) = failure_of(log, First(open))
    BY <2>2 DEF decide
  <2> HIDE DEF open
  <2> DEFINE k == First(open)
  <2>4. failure_of(log, k).do = "Reroute" /\ n \in failure_of(log, k).nodes
    BY <2>1, <2>3
  <2> HIDE DEF k
  <2>5. n = k /\ Goto[k] # 0
    BY <2>4 DEF failure_of, Decision
  <2> QED
    BY <2>5
<1> DEFINE r == [log.node[n] EXCEPT !.sent = "sent"]
<1>3. log' = [log EXCEPT !.node[n] = r]
  BY <1>1, Zenon
<1>4. CASE n \notin Nodes
  <2>1. log' = log
    BY <1>t, <1>3, <1>4 DEF Logs
  <2> QED
    BY <2>1 DEF Reroutes, Rerouted
<1>5. CASE n \in Nodes
  <2>1. LET k == log.node[n]
        IN  /\ r \in Records /\ r.state = k.state /\ r.from = k.from /\ r.left = k.left
            /\ r.beside = k.beside /\ r.moved = k.moved /\ r.behind = k.behind
    BY <1>t, <1>5 DEF Logs, Records
  <2> HIDE DEF r
  <2>2. log'.newest = log.newest /\ log'.node[n] = r
        /\ \A m \in Nodes : m # n => log'.node[m] = log.node[m]
    BY <1>t, <1>3, <1>5, <2>1 DEF Logs
  <2> QED
    BY <1>2, <2>1, <2>2 DEF Reroutes, Rerouted
<1> QED
  BY <1>4, <1>5

\* A wake records the tree where a failure waits.
LEMMA WakeEffect == TInv /\ Shape /\ Wake => Woken
<1> SUFFICES ASSUME TInv, Shape, Wake PROVE Woken
  OBVIOUS
<1>1. log \in Logs /\ {tree} \in SUBSET Trees /\ {} \in SUBSET Trees
  BY DEF TInv, Typed
<1>2. Landed /\ UNCHANGED <<tree, work, read>>
  BY DEF Wake, Shape
<1>3. CASE \E f \in Nodes : log.node[f].state = "failed"
  <2>1. log' = names(log, {tree})
    BY <1>3 DEF Wake, In
  <2>2. Naming(log, log', {tree})
    BY <1>1, <2>1, NamesFields, Zenon
  <2> QED
    BY <1>2, <1>3, <2>2 DEF Woken
<1>4. CASE ~\E f \in Nodes : log.node[f].state = "failed"
  <2>1. log' = names(log, {})
    BY <1>4 DEF Wake, In, NoTree
  <2>2. Naming(log, log', {})
    BY <1>1, <2>1, NamesFields, Zenon
  <2> QED
    BY <1>2, <1>4, <2>2 DEF Woken
<1> QED
  BY <1>3, <1>4

\* A step is one of these.
LEMMA StepKinds ==
    ASSUME TInv, Shape, [Next]_vars
    PROVE  \/ Dues \/ Still \/ Rerouted \/ Woken \/ Severed \/ Grows
           \/ \E n \in Nodes : \/ Opens(n) \/ Captures(n) \/ FailsUnstopped(n)
                               \/ Ends(n) \/ \E from \in SUBSET Trees : Begins(n, from)
<1>1. CASE Executes \/ Retries
  BY <1>1, DuesEffect
<1>2. CASE Parks \/ Finishes \/ UNCHANGED vars
  BY <1>2 DEF Parks, Finishes, Deciding, vars, Still
<1>3. CASE Reroutes
  BY <1>3, ReroutesEffect
<1>4. CASE Wake
  BY <1>4, WakeEffect
<1>5. CASE Cut
  BY <1>5, IdleWork DEF Cut, Severed
<1>6. CASE PersonEdits \/ \E n \in Nodes : Writes(n) \/ Rewrites(n) \/ Lands(n)
  BY <1>6, GrowsEffect
<1>7. ASSUME NEW n \in Nodes, Starts(n) PROVE \E from \in SUBSET Trees : Begins(n, from)
  BY <1>7, StartsEffect
<1>8. ASSUME NEW n \in Nodes, Closes(n) PROVE Ends(n)
  BY <1>8, ClosesEffect
<1> QED
  BY <1>1, <1>2, <1>3, <1>4, <1>5, <1>6, <1>7, <1>8 DEF Next

-----------------------------------------------------------------------------
(* Where the attempts stand *)

\* At first nothing is under way.
LEMMA StandingInit == Init => Standing
<1> SUFFICES ASSUME Init PROVE Standing
  OBVIOUS
<1>1. /\ eng = "up" /\ \A n \in Nodes : work[n].pc = "idle"
      /\ \A n \in Nodes : log.node[n].state = "none" /\ log.node[n].sent = "no"
  BY IdleWork DEF Init, Unborn
<1>2. Shape
  BY <1>1 DEF Shape, Stands, AtWork
<1> QED
  BY <1>1, <1>2, Constants DEF Standing, WriterSees, JudgeSees, AtWork

\* Every step leaves the attempts where the log says.
LEMMA ShapeNext ==
    ASSUME TInv, Shape, [Next]_vars PROVE Shape'
<1>t. /\ log \in Logs /\ work \in [Nodes -> Works]
  BY DEF TInv, Typed
<1>s. \A n \in Nodes : Stands(n)
  BY DEF Shape
<1>1. CASE Dues
  <2>1. \A m \in Nodes : Stands(m)'
    BY <1>1, <1>s DEF Dues, Stands, AtWork
  <2> QED
    BY <1>1, <2>1 DEF Dues, Shape
<1>2. CASE Still
  BY <1>2 DEF Still, Shape, Landed, Stands, AtWork
<1>3. CASE Rerouted
  BY <1>3 DEF Rerouted, Shape, Landed, Stands, AtWork
<1>4. CASE Woken
  <2>1. \A m \in Nodes : Stands(m)'
    BY <1>4, <1>s DEF Woken, Naming, Landed, Stands, AtWork
  <2> QED
    BY <1>4, <2>1 DEF Woken, Shape, Landed
<1>5. CASE Severed
  <2>1. \A m \in Nodes : Stands(m)'
    BY <1>5, <1>s DEF Severed, Stands, AtWork
  <2> QED
    BY <1>5, <2>1 DEF Severed, Shape, Landed
<1>6. CASE Grows
  <2>1. \A m \in Nodes : Stands(m)'
    BY <1>6, <1>s, Constants DEF Grows, Stands, AtWork
  <2> QED
    BY <1>6, <2>1 DEF Grows, Shape, Landed
<1>7. ASSUME NEW n \in Nodes, NEW w \in Works, Steps(n, w), log' = log, Stands(n)' PROVE Shape'
  <2>1. \A m \in Nodes : Stands(m)'
    BY <1>7, <1>s DEF Steps, Stands, AtWork
  <2> QED
    BY <1>7, <2>1 DEF Steps, Shape
<1>8. ASSUME NEW n \in Nodes, Opens(n) PROVE Shape'
  <2>1. PICK w \in Works : Steps(n, w) /\ w.pc = "opened" /\ w.tree = {tree}
    BY <1>8, OpensEffect
  <2>2. log' = log /\ n \in Own
    BY <1>8, OpensEffect
  <2>3. Stands(n)'
    BY <1>s, <2>1, <2>2 DEF Steps, Stands, AtWork
  <2> QED
    BY <1>7, <2>1, <2>2, <2>3
<1>9. ASSUME NEW n \in Nodes, Captures(n) PROVE Shape'
  <2>1. PICK w \in Works : /\ Steps(n, w) /\ w.pc = "closing" /\ w.tree = {tree}
                           /\ w.verdict \in {"finished", "failed"}
    BY <1>9, CapturesEffect
  <2>2. log' = log /\ work[n].pc \in {"working", "landed"}
    BY <1>9, CapturesEffect
  <2>3. Stands(n)'
    BY <1>s, <2>1, <2>2 DEF Steps, Stands, AtWork
  <2> QED
    BY <1>7, <2>1, <2>2, <2>3
<1>10. ASSUME NEW n \in Nodes, FailsUnstopped(n) PROVE Shape'
  <2>1. PICK w \in Works : /\ Steps(n, w) /\ w.pc = "closing" /\ w.tree = {}
                           /\ w.verdict = "failed"
    BY <1>10, UnstoppedEffect
  <2>2. log' = log /\ work[n].pc = "working" /\ n \in Writers
    BY <1>10, UnstoppedEffect
  <2>3. Stands(n)'
    BY <1>s, <2>1, <2>2 DEF Steps, Stands, AtWork
  <2> QED
    BY <1>7, <2>1, <2>2, <2>3
<1>11. ASSUME NEW n \in Nodes, Ends(n) PROVE Shape'
  <2>1. Stands(n)'
    BY <1>11, <1>s DEF Ends, Closed, Stands, AtWork
  <2>2. ASSUME NEW m \in Nodes, m # n PROVE Stands(m)'
    <3>1. log'.node[m].sent # "no" => log.node[m].sent # "no"
      BY <1>11, <2>2 DEF Ends, Closed
    <3>2. work'[m] = work[m] /\ log'.node[m].state = log.node[m].state
          /\ log'.node[m].from = log.node[m].from
      BY <1>11, <2>2 DEF Ends, Closed
    <3> QED
      BY <1>s, <3>1, <3>2 DEF Stands, AtWork
  <2> QED
    BY <1>11, <2>1, <2>2 DEF Ends, Shape
<1>12. ASSUME NEW n \in Nodes, NEW from \in SUBSET Trees, Begins(n, from) PROVE Shape'
  <2>1. Stands(n)'
    BY <1>12, <1>s DEF Begins, Starting, Stands, AtWork
  <2>2. ASSUME NEW m \in Nodes, m # n PROVE Stands(m)'
    <3>1. work'[m] = work[m] /\ log'.node[m].state = log.node[m].state
          /\ log'.node[m].from = log.node[m].from /\ log'.node[m].sent = log.node[m].sent
      BY <1>12, <2>2 DEF Begins, Starting
    <3> QED
      BY <1>s, <3>1 DEF Stands, AtWork
  <2> QED
    BY <1>12, <2>1, <2>2 DEF Begins, Shape
<1> QED
  BY <1>1, <1>2, <1>3, <1>4, <1>5, <1>6, <1>8, <1>9, <1>10, <1>11, <1>12, StepKinds

\* What the steps leave alone of one attempt.
LEMMA Sizes ==
    ASSUME TInv
    PROVE  /\ tree.changes \in [0..N -> Nat]
           /\ \A n \in Nodes : /\ work[n].tree \subseteq Trees
                               /\ log.node[n].from \subseteq Trees
                               /\ log.node[n].left \subseteq Trees
           /\ \A v \in Judges : read[v] \in [0..N -> Nat]
  BY Counts DEF TInv, Typed, Logs, Records, Works

\* Below is transitive, and reflexive.
LEMMA BelowTrans ==
    ASSUME NEW c \in [0..N -> Nat], NEW d \in [0..N -> Nat], NEW e \in [0..N -> Nat],
           Below(c, d), Below(d, e)
    PROVE  Below(c, e)
  BY Constants DEF Below

\* A count is below itself.
LEMMA BelowSelf == ASSUME NEW c \in [0..N -> Nat] PROVE Below(c, c)
  BY Constants DEF Below

\* What a writer's records say of its own changes stays true: only it makes them.
LEMMA WriterNext ==
    ASSUME TInv, TInv', Standing, [Next]_vars, NEW n \in Writers PROVE WriterSees(n)'
<1>n. n \in Nodes /\ n \in 0..N /\ WriterSees(n) /\ Shape
  BY Constants DEF Standing
<1>z. /\ tree.changes[n] \in Nat /\ tree'.changes[n] \in Nat
      /\ \A t \in work[n].tree \cup log.node[n].from : t.changes[n] \in Nat
  BY <1>n, Sizes, Counts DEF TInv, Typed
<1>k. ASSUME work'[n] = work[n] \/ work'[n].pc \in {"idle", "due"},
             log'.node[n].from = log.node[n].from, tree' = tree
      PROVE  WriterSees(n)'
  BY <1>k, <1>n DEF WriterSees, AtWork
<1>1. CASE Dues
  BY <1>1, <1>n, <1>k DEF Dues
<1>2. CASE Still
  BY <1>2, <1>k DEF Still
<1>3. CASE Rerouted
  BY <1>3, <1>n, <1>k DEF Rerouted
<1>4. CASE Woken
  BY <1>4, <1>n, <1>k DEF Woken, Naming
<1>5. CASE Severed
  BY <1>5, <1>n, <1>k DEF Severed
<1>6. CASE Grows
  <2>1. tree.changes[n] <= tree'.changes[n] /\ log'.node[n].from = log.node[n].from
    BY <1>6, <1>n DEF Grows, Below
  <2>2. tree'.changes[n] # tree.changes[n] => work[n].pc = "working" \/ Landed
    BY <1>6, <1>n DEF Grows
  <2>3. CASE work'[n] = work[n]
    BY <1>n, <1>z, <2>1, <2>2, <2>3 DEF WriterSees, AtWork, Landed
  <2>4. CASE work[n].pc = "working" /\ work'[n].pc = "landed"
    BY <1>n, <1>z, <2>1, <2>4 DEF WriterSees, AtWork
  <2> QED
    BY <1>6, <1>n, <2>3, <2>4 DEF Grows
<1>7. ASSUME NEW m \in Nodes, NEW w \in Works, Steps(m, w), log' = log, m # n PROVE WriterSees(n)'
  BY <1>7, <1>n, <1>k DEF Steps
<1>8. ASSUME NEW m \in Nodes, Opens(m) PROVE WriterSees(n)'
  <2>1. PICK w \in Works : Steps(m, w) /\ w.pc = "opened" /\ w.tree = {tree}
    BY <1>8, OpensEffect, <1>n
  <2>2. log' = log
    BY <1>8, OpensEffect, <1>n
  <2>3. CASE m = n
    BY <1>z, <2>1, <2>2, <2>3 DEF Steps, WriterSees, AtWork
  <2> QED
    BY <1>7, <2>1, <2>2, <2>3
<1>9. ASSUME NEW m \in Nodes, Captures(m) PROVE WriterSees(n)'
  <2>1. PICK w \in Works : Steps(m, w) /\ w.pc = "closing" /\ w.tree = {tree}
    BY <1>9, CapturesEffect, <1>n
  <2>2. log' = log /\ work[m].pc \in {"working", "landed"}
    BY <1>9, CapturesEffect, <1>n
  <2>3. CASE m = n
    BY <1>n, <1>z, <2>1, <2>2, <2>3 DEF Steps, WriterSees, AtWork
  <2> QED
    BY <1>7, <2>1, <2>2, <2>3
<1>10. ASSUME NEW m \in Nodes, FailsUnstopped(m) PROVE WriterSees(n)'
  <2>1. PICK w \in Works : Steps(m, w) /\ w.pc = "closing" /\ w.tree = {}
    BY <1>10, UnstoppedEffect, <1>n
  <2>2. log' = log /\ work[m].pc = "working"
    BY <1>10, UnstoppedEffect, <1>n
  <2>3. CASE m = n
    BY <1>n, <1>z, <2>1, <2>2, <2>3 DEF Steps, WriterSees, AtWork
  <2> QED
    BY <1>7, <2>1, <2>2, <2>3
<1>11. ASSUME NEW m \in Nodes, Ends(m) PROVE WriterSees(n)'
  <2>1. log'.node[n].from = log.node[n].from /\ tree' = tree
        /\ (work'[n] = work[n] \/ work'[n].pc = "idle")
    BY <1>11, <1>n DEF Ends, Closed
  <2> QED
    BY <1>k, <2>1
<1>12. ASSUME NEW m \in Nodes, NEW from \in SUBSET Trees, Begins(m, from) PROVE WriterSees(n)'
  <2>1. CASE m = n
    <3>1. log'.node[n].from = from /\ work'[n].pc = "working" /\ tree' = tree
      BY <1>12, <1>n, <2>1 DEF Begins, Starting
    <3>2. \A f \in from : f.changes[n] <= tree.changes[n]
      BY <1>12, <1>n, <1>z, <2>1 DEF Begins, WriterSees
    <3> QED
      BY <3>1, <3>2 DEF WriterSees, AtWork
  <2>2. CASE m # n
    <3>1. log'.node[n].from = log.node[n].from /\ work'[n] = work[n] /\ tree' = tree
      BY <1>12, <1>n, <2>2 DEF Begins, Starting
    <3> QED
      BY <1>k, <3>1
  <2> QED
    BY <2>1, <2>2
<1> QED
  BY <1>n, <1>1, <1>2, <1>3, <1>4, <1>5, <1>6, <1>8, <1>9, <1>10, <1>11, <1>12, StepKinds

\* What an invariant's records say stays true: a change is never taken back.
LEMMA JudgeNext ==
    ASSUME TInv, TInv', Standing, [Next]_vars, NEW v \in Judges PROVE JudgeSees(v)'
<1>v. v \in Nodes /\ v \notin Writers /\ v \notin Own /\ JudgeSees(v) /\ Shape /\ Stands(v)
  BY Constants DEF Standing, Writers, Shape
<1>z. /\ tree.changes \in [0..N -> Nat] /\ tree'.changes \in [0..N -> Nat]
      /\ read[v] \in [0..N -> Nat]
      /\ \A t \in work[v].tree \cup log.node[v].left : t.changes \in [0..N -> Nat]
  BY <1>v, Sizes, Counts DEF TInv, Typed
<1>k. ASSUME work'[v] = work[v] \/ work'[v].pc \in {"idle", "due"}, read'[v] = read[v],
             log'.node[v].from = log.node[v].from, log'.node[v].left = log.node[v].left,
             log'.node[v].state = log.node[v].state, Below(tree.changes, tree'.changes)
      PROVE  JudgeSees(v)'
  <2>1. Below(read[v], tree.changes) => Below(read[v], tree'.changes)
    BY <1>k, <1>z, BelowTrans
  <2>2. \A t \in work[v].tree \cup log.node[v].left :
           Below(t.changes, tree.changes) => Below(t.changes, tree'.changes)
    BY <1>k, <1>z, BelowTrans
  <2>3. \A c, d : Below(c, d)' = Below(c, d)
    BY DEF Below
  <2>4. CASE work'[v] = work[v]
    BY <1>k, <1>v, <2>1, <2>2, <2>4 DEF JudgeSees, AtWork, Below
  <2>5. CASE work'[v].pc \in {"idle", "due"}
    BY <1>k, <1>v, <2>1, <2>2, <2>5 DEF JudgeSees, AtWork, Below
  <2> QED
    BY <1>k, <2>4, <2>5
<1>b. tree' = tree => Below(tree.changes, tree'.changes)
  BY <1>z, BelowSelf
<1>1. CASE Dues
  BY <1>1, <1>v, <1>k, <1>b DEF Dues
<1>2. CASE Still
  BY <1>2, <1>k, <1>b DEF Still
<1>3. CASE Rerouted
  BY <1>3, <1>v, <1>k, <1>b DEF Rerouted
<1>4. CASE Woken
  BY <1>4, <1>v, <1>k, <1>b DEF Woken, Naming
<1>5. CASE Severed
  BY <1>5, <1>v, <1>k, <1>b DEF Severed
<1>6. CASE Grows
  <2>1. work'[v] = work[v]
    BY <1>6, <1>v DEF Grows
  <2> QED
    BY <1>6, <1>k, <2>1 DEF Grows
<1>7. ASSUME NEW m \in Nodes, NEW w \in Works, Steps(m, w), log' = log, m # v PROVE JudgeSees(v)'
  BY <1>7, <1>v, <1>k, <1>b DEF Steps
<1>8. ASSUME NEW m \in Nodes, Opens(m) PROVE JudgeSees(v)'
  <2>1. log' = log /\ m # v /\ \E w \in Works : Steps(m, w)
    BY <1>8, <1>v, OpensEffect
  <2> QED
    BY <1>7, <2>1
<1>9. ASSUME NEW m \in Nodes, Captures(m) PROVE JudgeSees(v)'
  <2>1. PICK w \in Works : Steps(m, w) /\ w.pc = "closing" /\ w.tree = {tree}
    BY <1>9, CapturesEffect, <1>v
  <2>2. log' = log /\ work[m].pc \in {"working", "landed"}
    BY <1>9, CapturesEffect, <1>v
  <2>3. CASE m = v
    <3>1. AtWork(v) /\ log.node[v].state = "running"
      BY <1>v, <2>2, <2>3 DEF AtWork, Stands
    <3>2. Below(tree.changes, tree.changes)
      BY <1>z, BelowSelf
    <3> QED
      BY <1>v, <2>1, <2>2, <2>3, <3>1, <3>2 DEF Steps, JudgeSees, AtWork, Below
  <2> QED
    BY <1>7, <2>1, <2>2, <2>3
<1>10. ASSUME NEW m \in Nodes, FailsUnstopped(m) PROVE JudgeSees(v)'
  <2>1. log' = log /\ m # v /\ \E w \in Works : Steps(m, w)
    BY <1>10, <1>v, UnstoppedEffect
  <2> QED
    BY <1>7, <2>1
<1>11. ASSUME NEW m \in Nodes, Ends(m) PROVE JudgeSees(v)'
  <2>1. CASE m = v
    <3>1. /\ work[v].pc = "closing" /\ AtWork(v) /\ work[v].tree # {}
          /\ work[v].verdict \in {"finished", "failed"}
      BY <1>11, <1>v, <2>1 DEF Ends, AtWork, Stands
    <3>2. /\ log'.node[v].state = work[v].verdict /\ log'.node[v].from = log.node[v].from
          /\ work[v].verdict = "finished" => log'.node[v].left = work[v].tree
          /\ work'[v].pc = "idle" /\ tree' = tree /\ read' = read
      BY <1>11, <2>1 DEF Ends, Closed
    <3> QED
      BY <1>v, <3>1, <3>2 DEF JudgeSees, AtWork, Below
  <2>2. CASE m # v
    <3>1. /\ log'.node[v].state = log.node[v].state /\ log'.node[v].from = log.node[v].from
          /\ log'.node[v].left = log.node[v].left
          /\ work'[v] = work[v] /\ tree' = tree /\ read' = read
      BY <1>11, <1>v, <2>2 DEF Ends, Closed
    <3> QED
      BY <1>b, <1>k, <3>1
  <2> QED
    BY <2>1, <2>2
<1>12. ASSUME NEW m \in Nodes, NEW from \in SUBSET Trees, Begins(m, from) PROVE JudgeSees(v)'
  <2>1. CASE m = v
    <3>1. /\ log'.node[v].from = {tree} /\ log'.node[v].state = "running"
          /\ work'[v].pc = "working" /\ tree' = tree /\ read'[v] = tree.changes
      BY <1>12, <1>v, <2>1 DEF Begins, Starting
    <3>2. Below(tree.changes, tree.changes)
      BY <1>z, BelowSelf
    <3> QED
      BY <3>1, <3>2 DEF JudgeSees, AtWork, Below
  <2>2. CASE m # v
    <3>1. /\ log'.node[v].state = log.node[v].state /\ log'.node[v].from = log.node[v].from
          /\ log'.node[v].left = log.node[v].left
          /\ work'[v] = work[v] /\ tree' = tree /\ read'[v] = read[v]
      BY <1>12, <1>v, <2>2 DEF Begins, Starting
    <3> QED
      BY <1>b, <1>k, <3>1
  <2> QED
    BY <2>1, <2>2
<1> QED
  BY <1>v, <1>1, <1>2, <1>3, <1>4, <1>5, <1>6, <1>8, <1>9, <1>10, <1>11, <1>12, StepKinds

\* Together they are kept by every step.
LEMMA StandingNext ==
    ASSUME TInv, Standing, [Next]_vars PROVE TInv' /\ Standing'
<1>1. Shape
  BY DEF Standing
<1>2. TInv' /\ Shape'
  BY <1>1, TypedNext, ShapeNext
<1>3. \A n \in Writers : WriterSees(n)'
  BY <1>2, WriterNext
<1>4. \A v \in Judges : JudgeSees(v)'
  BY <1>2, JudgeNext
<1> QED
  BY <1>2, <1>3, <1>4 DEF Standing

\* Every record of the log names one tree or none, and every node stands at a step of its attempt
\* (ledger.rs, node_exec.rs).
THEOREM TreeTypeOK == Spec => []TypeOK
<1>1. Init => TInv /\ Standing
  BY TypedInit, StandingInit
<1>2. TInv /\ Standing /\ [Next]_vars => (TInv /\ Standing)'
  BY StandingNext
<1>3. TInv => TypeOK
  <2> SUFFICES ASSUME TInv PROVE TypeOK
    OBVIOUS
  <2>1. ASSUME NEW s, s \subseteq Trees, OneTree(s) PROVE AtMostOne(s)
    <3>1. CASE s = {}
      BY <3>1, FS_EmptySet DEF AtMostOne
    <3>2. CASE s # {}
      <4>1. PICK t \in s : TRUE
        BY <3>2
      <4>2. s = {t}
        BY <2>1, <4>1 DEF OneTree
      <4>3. Cardinality(s) = 1
        BY <4>2, FS_Singleton
      <4> QED
        BY <2>1, <4>3 DEF AtMostOne
    <3> QED
      BY <3>1, <3>2
  <2>2. /\ tree \in Trees /\ eng \in {"up", "down", "done"}
        /\ setbacks \in 0..MaxSetbacks /\ parks \in 0..MaxParks
        /\ log.newest \subseteq Trees
    BY DEF TInv, Typed, Logs
  <2>3. AtMostOne(log.newest)
    BY <2>1, <2>2 DEF TInv, Single
  <2>4. ASSUME NEW n \in Nodes
        PROVE  LET r == log.node[n] IN
               /\ r.state \in States /\ r.sent \in {"no", "sent", "corrected"}
               /\ r.moved \in BOOLEAN /\ r.behind \in BOOLEAN
               /\ r.beside \subseteq Nodes \ {n}
               /\ AtMostOne(r.from) /\ AtMostOne(r.left)
               /\ work[n].pc \in {"idle", "due", "opened", "working", "landed", "closing"}
               /\ AtMostOne(work[n].tree)
    <3>1. log.node[n] \in Records /\ work[n] \in Works
      BY DEF TInv, Typed, Logs
    <3>2. AtMostOne(log.node[n].from) /\ AtMostOne(log.node[n].left) /\ AtMostOne(work[n].tree)
      BY <2>1, <3>1 DEF TInv, Single, Records, Works
    <3>3. n \notin log.node[n].beside
      BY DEF TInv, Single
    <3> QED
      BY <3>1, <3>2, <3>3 DEF Records, Works
  <2> QED
    BY <2>2, <2>3, <2>4 DEF TypeOK
<1> QED
  BY <1>1, <1>2, <1>3, PTL DEF Spec

-----------------------------------------------------------------------------
(* Passes and the tree they were given for *)

\* The invariant behind PassHolds.
Tales == TInv /\ Standing /\ Telling /\ Blaming

\* Trees with the same count for everybody hold the same changes.
LEMMA SameCounts ==
    ASSUME NEW c \in [0..N -> Nat], NEW d \in [0..N -> Nat], \A n \in 0..N : c[n] = d[n]
    PROVE  c = d
<1>1. c = [n \in 0..N |-> c[n]] /\ d = [n \in 0..N |-> d[n]]
  OBVIOUS
<1>2. [n \in 0..N |-> c[n]] = [n \in 0..N |-> d[n]]
  OBVIOUS
<1> QED
  BY <1>1, <1>2, Zenon

\* Who will record the tree goes on to, while their attempt and the tree stay.
LEMMA WillStays ==
    ASSUME NEW w \in Nodes, WillName(w), work'[w] = work[w], tree' = tree,
           log'.node[w].state = log.node[w].state
    PROVE  WillName(w)'
  BY DEF WillName

\* Who wrote under an invariant stays known while their attempt goes on.
LEMMA WroteStays ==
    ASSUME TInv, TInv', NEW k \in 0..N, Wrote(k), tree.changes[k] <= tree'.changes[k],
           log'.node[k].state = log.node[k].state, log'.node[k].from = log.node[k].from,
           AtWork(k)', work'[k].pc = "closing" => work'[k].tree # {}
    PROVE  Wrote(k)'
<1>1. k \in Nodes
  BY Constants DEF Wrote
<1>2. /\ tree.changes[k] \in Nat /\ tree'.changes[k] \in Nat
      /\ \A f \in log.node[k].from : f.changes[k] \in Nat
  BY <1>1, Sizes, Counts DEF TInv, Typed
<1>3. \A f \in log'.node[k].from : f.changes[k] < tree'.changes[k]
  BY <1>2 DEF Wrote
<1> QED
  BY <1>3 DEF Wrote

\* Whoever wrote under an invariant will record it, or another does.
LEMMA WroteOwes ==
    ASSUME Standing, Telling, NEW k \in 0..N, Wrote(k) PROVE Owed
<1>1. k \in Writers /\ k \in Nodes /\ log.node[k].state = "running" /\ AtWork(k) /\ Stands(k)
  BY Constants DEF Wrote, Standing, Shape
<1>2. CASE work[k].pc \in {"working", "landed"} \/ (Closing(k) /\ work[k].verdict = "failed")
  BY <1>1, <1>2 DEF WillName, Owed, Closing
<1>3. CASE Closing(k) /\ \A t \in work[k].tree : t.changes = tree.changes
  BY <1>1, <1>3 DEF WillName, Owed, Closing, Wrote
<1>4. CASE Closing(k) /\ \E t \in work[k].tree : t.changes # tree.changes
  BY <1>1, <1>4 DEF Telling, OthersName, Owed
<1> QED
  BY <1>1, <1>2, <1>3, <1>4 DEF AtWork, Closing

\* It holds at first.
LEMMA TalesInit == Init => Tales
<1> SUFFICES ASSUME Init PROVE Tales
  OBVIOUS
<1>1. TInv /\ Standing
  BY TypedInit, StandingInit
<1>2. /\ \A n \in Nodes : work[n].pc = "idle" /\ log.node[n].state = "none"
      /\ log.newest = {}
  BY IdleWork DEF Init, Unborn, NoTree
<1>3. Telling
  BY <1>2, Constants DEF Telling, OneTale, OthersName, Known, Closing
<1>4. Blaming
  BY <1>2, Constants DEF Blaming, Judging, Passed, Current, AtWork
<1> QED
  BY <1>1, <1>3, <1>4 DEF Tales

\* Nothing at work before and after, and neither the tree nor a node's state moved.
LEMMA TalesAtRest ==
    ASSUME Tales, TInv', Standing', UNCHANGED <<tree, read>>,
           \A m \in Nodes : work'[m].pc \in {"idle", "due"},
           \A m \in Nodes : WillName(m) => WillName(m)',
           \A m \in Nodes : log'.node[m].state = log.node[m].state
                            /\ log'.node[m].moved = log.node[m].moved
                            /\ log'.node[m].left = log.node[m].left
                            /\ (log.node[m].behind => log'.node[m].behind),
           \A v \in Judges : \A k \in 0..N : ~(Wrote(k) /\ v \in log.node[k].beside),
           Known'
    PROVE  Telling' /\ Blaming'
<1>1. Telling'
  BY Constants DEF Telling, OneTale, OthersName, Closing
<1>2. ASSUME NEW v \in Judges PROVE Judging(v)' /\ Passed(v)' /\ Current(v)'
  <2>1. v \in Nodes /\ Passed(v) /\ Current(v)
    BY Constants DEF Tales, Blaming
  <2>2. Judging(v)'
    BY <2>1 DEF Judging, AtWork
  <2>3. Passed(v)'
    BY <2>1 DEF Passed
  <2>4. Current(v)'
    <3>1. Owed => Owed'
      BY DEF Owed
    <3>2. log.node[v].behind => log'.node[v].behind
      BY <2>1
    <3> QED
      BY <2>1, <3>1, <3>2 DEF Current
  <2> QED
    BY <2>2, <2>3, <2>4
<1> QED
  BY <1>1, <1>2 DEF Blaming

\* Attempts fall due.
LEMMA TalesDues == ASSUME Tales, TInv', Standing', Dues PROVE Telling' /\ Blaming'
<1>1. \A k \in 0..N : ~Wrote(k)
  BY Constants DEF Wrote, AtWork, Dues, Landed
<1>2. \A m \in Nodes : WillName(m) => WillName(m)'
  BY DEF WillName, Dues, Landed
<1>3. Known'
  BY <1>2 DEF Tales, Telling, Known, Owed, Dues
<1> QED
  BY <1>1, <1>2, <1>3, TalesAtRest DEF Dues

\* What is at work is cut: unless an invariant passed beside a writer that is still open, no pass
\* depended on its close.
LEMMA TalesSevered ==
    ASSUME Tales, TInv', Standing', Perils = {}, Severed PROVE Telling' /\ Blaming'
<1>1. ASSUME NEW v \in Judges, NEW k \in 0..N PROVE ~(Wrote(k) /\ v \in log.node[k].beside)
  BY <1>1, Constants DEF Wrote, Severed, PassBeside, In
<1>2. \A m \in Nodes : WillName(m) => WillName(m)'
  BY DEF WillName, Severed
<1>3. Known'
  BY <1>2 DEF Tales, Telling, Known, Owed, Severed
<1> QED
  BY <1>1, <1>2, <1>3, TalesAtRest DEF Severed

\* A wake records the tree a person may have edited.
LEMMA TalesWoken == ASSUME Tales, TInv', Standing', Woken PROVE Telling' /\ Blaming'
<1>1. \A k \in 0..N : ~Wrote(k)
  BY Constants DEF Wrote, AtWork, Woken, Landed
<1>2. \A m \in Nodes : /\ log'.node[m].state = log.node[m].state
                       /\ log'.node[m].moved = log.node[m].moved
                       /\ log'.node[m].left = log.node[m].left
                       /\ (log.node[m].behind => log'.node[m].behind)
  BY DEF Woken, Naming
<1>3. \A m \in Nodes : WillName(m) => WillName(m)'
  BY <1>2, WillStays DEF Woken
<1>4. Known'
  <2>1. CASE \E f \in Nodes : log.node[f].state = "failed"
    BY <2>1 DEF Woken, Naming, Known
  <2>2. CASE ~\E f \in Nodes : log.node[f].state = "failed"
    BY <1>3, <2>2 DEF Woken, Naming, Known, Tales, Telling, Owed
  <2> QED
    BY <2>1, <2>2
<1> QED
  BY <1>1, <1>2, <1>3, <1>4, TalesAtRest DEF Woken, Landed

\* A step that moves nothing these formulas speak of.
LEMMA TalesStill ==
    ASSUME Tales, Still \/ Rerouted PROVE Telling' /\ Blaming'
<1>1. /\ tree' = tree /\ work' = work /\ read' = read /\ log'.newest = log.newest
      /\ \A m \in Nodes : /\ log'.node[m].state = log.node[m].state
                          /\ log'.node[m].from = log.node[m].from
                          /\ log'.node[m].left = log.node[m].left
                          /\ log'.node[m].moved = log.node[m].moved
                          /\ log'.node[m].behind = log.node[m].behind
                          /\ log'.node[m].beside = log.node[m].beside
  BY DEF Still, Rerouted
<1>2. \A m \in Nodes : WillName(m) <=> WillName(m)'
  BY <1>1 DEF WillName
<1>3. \A k \in 0..N : Wrote(k) => Wrote(k)'
  BY <1>1, Constants DEF Wrote, AtWork
<1>4. Telling'
  BY <1>1, <1>2, Constants DEF Tales, Telling, OneTale, OthersName, Closing, Known, Owed
<1>5. ASSUME NEW v \in Judges PROVE Judging(v)' /\ Passed(v)' /\ Current(v)'
  <2>1. v \in Nodes /\ Judging(v) /\ Passed(v) /\ Current(v)
    BY Constants DEF Tales, Blaming
  <2>2. Judging(v)'
    BY <1>1, <1>3, <2>1 DEF Judging, AtWork
  <2>3. Passed(v)'
    <3>1. \A k \in 0..N : Wrote(k) => log'.node[k].beside = log.node[k].beside
      BY <1>1, Constants DEF Wrote
    <3> QED
      BY <1>1, <1>3, <2>1, <3>1 DEF Passed
  <2>4. Current(v)'
    BY <1>1, <1>2, <2>1 DEF Current, Owed
  <2> QED
    BY <2>2, <2>3, <2>4
<1> QED
  BY <1>4, <1>5 DEF Blaming

\* The tree moves: who moved it will record it.
LEMMA TalesGrows ==
    ASSUME Tales, TInv', Standing', Perils = {}, Grows PROVE Telling' /\ Blaming'
<1>a. /\ UNCHANGED <<log, read>> /\ Below(tree.changes, tree'.changes)
      /\ \A m \in Nodes : /\ work'[m].pc = work[m].pc \/ work[m].pc = "working"
                          /\ Closing(m)' => Closing(m) /\ work'[m] = work[m]
                          /\ work'[m].pc \in {"idle", "due", "opened"} => work'[m] = work[m]
  BY DEF Grows, Closing
<1>b. /\ tree.changes \in [0..N -> Nat] /\ tree'.changes \in [0..N -> Nat]
      /\ \A v \in Judges : read[v] \in [0..N -> Nat]
      /\ \A v \in Judges : \A t \in log.node[v].left : t.changes \in [0..N -> Nat]
  BY Sizes, Counts, Constants DEF Tales, TInv, Typed
\* What the tree gained, someone at work gave it, or a failure will have it recorded.
<1>c. ASSUME tree'.changes # tree.changes
      PROVE  \E w \in Nodes : WillName(w)' /\ \A m \in Nodes : Closing(m) => m # w
  <2>1. PICK k \in 0..N : tree'.changes[k] # tree.changes[k]
    BY <1>b, <1>c, SameCounts
  <2>2. CASE k \in Writers /\ work[k].pc = "working" /\ work'[k].pc \in {"working", "landed"}
    <3>1. k \in Nodes /\ log'.node[k].state = "running"
      BY <1>a, <2>2, Constants DEF Tales, Standing, Shape, Stands, AtWork
    <3>2. WillName(k)'
      BY <2>2, <3>1 DEF WillName
    <3> QED
      BY <2>2, <3>1, <3>2 DEF Closing
  <2>3. CASE Landed /\ \E f \in Nodes : log.node[f].state = "failed"
    BY <1>a, <2>3 DEF WillName, Landed, Closing
  <2> QED
    BY <2>1, <2>2, <2>3 DEF Grows
<1>d. ASSUME tree'.changes = tree.changes, NEW w \in Nodes, WillName(w) PROVE WillName(w)'
  <2>1. work'[w] = work[w] \/ (w \in Writers /\ work[w].pc = "working" /\ work'[w].pc = "landed")
    BY Constants DEF Grows
  <2>2. CASE work'[w] = work[w]
    BY <1>a, <1>d, <2>2 DEF WillName
  <2>3. CASE w \in Writers /\ work[w].pc = "working" /\ work'[w].pc = "landed"
    BY <1>a, <1>d, <2>3 DEF WillName
  <2> QED
    BY <2>1, <2>2, <2>3
<1>e. ASSUME NEW k \in 0..N, Wrote(k) PROVE Wrote(k)'
  <2>1. k \in Nodes /\ AtWork(k)' /\ (work'[k].pc = "closing" => work'[k].tree # {})
    BY <1>a, <1>e, Constants DEF Wrote, AtWork, Closing, Grows
  <2>2. tree.changes[k] <= tree'.changes[k]
    BY <1>a DEF Below
  <2> QED
    BY <1>a, <1>e, <2>1, <2>2, WroteStays DEF Tales
<1>1. OneTale'
  BY <1>a, Constants DEF OneTale, Tales, Telling
<1>2. OthersName'
  <2> SUFFICES ASSUME NEW m \in Writers, Closing(m)', NEW t \in work'[m].tree,
                      t.changes # tree'.changes
               PROVE  \E w \in Nodes \ {m} : WillName(w)'
    BY DEF OthersName
  <2>1. m \in Nodes /\ Closing(m) /\ t \in work[m].tree
    BY <1>a, Constants
  <2>2. CASE tree'.changes = tree.changes
    <3>1. PICK w \in Nodes \ {m} : WillName(w)
      BY <2>1, <2>2 DEF Tales, Telling, OthersName
    <3> QED
      BY <1>d, <2>2, <3>1
  <2>3. CASE tree'.changes # tree.changes
    BY <1>c, <2>1, <2>3
  <2> QED
    BY <2>2, <2>3
<1>3. Known'
  <2>1. CASE tree'.changes = tree.changes
    BY <1>a, <1>d, <2>1 DEF Known, Owed, Tales, Telling
  <2>2. CASE tree'.changes # tree.changes
    BY <1>c, <2>2 DEF Known, Owed
  <2> QED
    BY <2>1, <2>2
<1>4. ASSUME NEW v \in Judges PROVE Judging(v)' /\ Passed(v)' /\ Current(v)'
  <2>1. v \in Nodes /\ Judging(v) /\ Passed(v) /\ Current(v) /\ JudgeSees(v)
    BY Constants DEF Tales, Blaming, Standing
  <2>2. Judging(v)'
    <3> SUFFICES ASSUME AtWork(v)', ~log'.node[v].moved, NEW k \in 0..N,
                        tree'.changes[k] # read'[v][k]
                 PROVE  Wrote(k)'
      BY DEF Judging
    <3>1. work'[v] = work[v] /\ AtWork(v) /\ ~log.node[v].moved /\ read'[v] = read[v]
      BY <1>a, Constants DEF Grows, Writers, AtWork
    <3>2. CASE tree.changes[k] # read[v][k]
      BY <1>e, <2>1, <3>1, <3>2 DEF Judging
    <3>3. CASE tree.changes[k] = read[v][k]
      <4>1. tree'.changes[k] # tree.changes[k] /\ tree.changes[k] <= tree'.changes[k]
        BY <1>a, <3>1, <3>3 DEF Below
      <4>2. ~Landed
        BY <2>1, <3>1 DEF Landed, AtWork
      <4>3. k \in Writers /\ work[k].pc = "working" /\ work'[k].pc \in {"working", "landed"}
        BY <4>1, <4>2 DEF Grows
      <4>4. k \in Nodes /\ WriterSees(k) /\ AtWork(k) /\ log.node[k].state = "running"
        BY <4>3, Constants DEF Tales, Standing, Shape, Stands, AtWork
      <4>5. \A f \in log.node[k].from : f.changes[k] \in Nat /\ f.changes[k] <= tree.changes[k]
        BY <4>4, Sizes, Counts DEF Tales, WriterSees
      <4>6. \A f \in log.node[k].from : f.changes[k] < tree'.changes[k]
        <5>1. tree.changes[k] \in Nat /\ tree'.changes[k] \in Nat
          BY <1>b
        <5>2. tree.changes[k] < tree'.changes[k]
          BY <4>1, <5>1
        <5> QED
          BY <4>5, <5>1, <5>2
      <4> QED
        BY <1>a, <4>3, <4>4, <4>6 DEF Wrote, AtWork
    <3> QED
      BY <3>2, <3>3
  <2>3. Passed(v)'
    BY <1>a, <1>e, <2>1 DEF Passed
  <2>4. Current(v)'
    <3>1. CASE tree'.changes = tree.changes
      BY <1>a, <1>d, <2>1, <3>1 DEF Current, Owed
    <3>2. CASE tree'.changes # tree.changes
      BY <1>c, <3>2 DEF Current, Owed
    <3> QED
      BY <3>1, <3>2
  <2> QED
    BY <2>2, <2>3, <2>4
<1> QED
  BY <1>1, <1>2, <1>3, <1>4 DEF Telling, Blaming

\* A checkout opens.
LEMMA TalesOpens ==
    ASSUME Tales, TInv', Standing', NEW n \in Nodes, Opens(n) PROVE Telling' /\ Blaming'
<1>1. PICK w \in Works : Steps(n, w) /\ w.pc = "opened"
  BY OpensEffect DEF Tales, Standing
<1>2. log' = log /\ n \in Writers /\ work[n].pc = "due"
  BY OpensEffect, Constants DEF Tales, Standing
<1>3. /\ tree' = tree /\ read' = read
      /\ work'[n].pc = "opened" /\ \A m \in Nodes : m # n => work'[m] = work[m]
  BY <1>1 DEF Steps
<1>4. ASSUME NEW m \in Nodes, WillName(m) PROVE WillName(m)'
  <2>1. CASE m = n
    BY <1>2, <1>3, <1>4, <2>1 DEF WillName
  <2>2. CASE m # n
    BY <1>2, <1>3, <1>4, <2>2, WillStays
  <2> QED
    BY <2>1, <2>2
<1>5. ASSUME NEW k \in 0..N, Wrote(k) PROVE Wrote(k)'
  <2>1. k \in Nodes /\ k # n
    BY <1>2, <1>5, Constants DEF Wrote, AtWork
  <2> QED
    BY <1>2, <1>3, <1>5, <2>1 DEF Wrote, AtWork
<1>6. \A m \in Nodes : Closing(m)' => Closing(m) /\ work'[m] = work[m]
  BY <1>3 DEF Closing
<1>7. OneTale' /\ OthersName'
  BY <1>3, <1>4, <1>6, Constants DEF Tales, Telling, OneTale, OthersName
<1>8. Known'
  BY <1>2, <1>3, <1>4 DEF Tales, Telling, Known, Owed
<1>9. ASSUME NEW v \in Judges PROVE Judging(v)' /\ Passed(v)' /\ Current(v)'
  <2>1. v \in Nodes /\ v # n /\ Judging(v) /\ Passed(v) /\ Current(v)
    BY <1>2, Constants DEF Tales, Blaming, Writers
  <2>2. Judging(v)'
    BY <1>2, <1>3, <1>5, <2>1 DEF Judging, AtWork
  <2>3. Passed(v)'
    BY <1>2, <1>3, <1>5, <2>1 DEF Passed
  <2>4. Current(v)'
    BY <1>2, <1>3, <1>4, <2>1 DEF Current, Owed
  <2> QED
    BY <2>2, <2>3, <2>4
<1> QED
  BY <1>7, <1>8, <1>9 DEF Telling, Blaming

\* A close reads the tree.
LEMMA TalesCaptures ==
    ASSUME Tales, TInv', Standing', Perils = {}, NEW n \in Nodes, Captures(n)
    PROVE  Telling' /\ Blaming'
<1>0. TInv /\ Shape
  BY DEF Tales, Standing
<1>1. PICK w \in Works : /\ Steps(n, w) /\ w.pc = "closing" /\ w.tree = {tree}
                         /\ w.verdict \in {"finished", "failed"}
  BY <1>0, CapturesEffect
<1>2. /\ log' = log /\ work[n].pc \in {"working", "landed"}
      /\ n \in Writers => \A m \in Writers : Closing(m) => work[m].tree \in {{}, {tree}}
  BY <1>0, CapturesEffect
<1>3. /\ tree' = tree /\ read' = read
      /\ work'[n].pc = "closing" /\ work'[n].tree = {tree}
      /\ \A m \in Nodes : m # n => work'[m] = work[m]
  BY <1>1 DEF Steps
<1>s. log.node[n].state = "running" /\ AtWork(n)
  BY <1>0, <1>2 DEF Shape, Stands, AtWork
<1>j. n \in Judges => ~WillName(n)
  BY <1>0, <1>2, <1>s, Constants DEF WillName, Writers, Shape, Stands
<1>4. ASSUME NEW m \in Nodes, WillName(m) PROVE WillName(m)'
  <2>1. CASE m = n
    <3>1. n \in Writers
      BY <1>4, <1>j, <2>1 DEF Writers
    <3> QED
      BY <1>2, <1>3, <1>s, <2>1, <3>1 DEF WillName
  <2>2. CASE m # n
    BY <1>2, <1>3, <1>4, <2>2, WillStays
  <2> QED
    BY <2>1, <2>2
<1>5. ASSUME NEW k \in 0..N, Wrote(k) PROVE Wrote(k)'
  <2>1. k \in Nodes
    BY <1>5, Constants DEF Wrote
  <2> QED
    BY <1>2, <1>3, <1>5, <2>1 DEF Wrote, AtWork
<1>7. OneTale'
  <2> SUFFICES ASSUME NEW m \in Writers, NEW k \in Writers, Closing(m)', Closing(k)',
                      NEW t \in work'[m].tree, NEW u \in work'[k].tree
               PROVE  t = u
    BY DEF OneTale
  <2>0. m \in Nodes /\ k \in Nodes
    BY Constants
  <2>1. CASE n \notin Writers
    BY <1>3, <2>0, <2>1 DEF Tales, Telling, OneTale, Closing
  <2>2. CASE n \in Writers
    <3>1. t = tree
      BY <1>2, <1>3, <2>0, <2>2 DEF Closing
    <3>2. u = tree
      BY <1>2, <1>3, <2>0, <2>2 DEF Closing
    <3> QED
      BY <3>1, <3>2
  <2> QED
    BY <2>1, <2>2
<1>8. OthersName'
  <2> SUFFICES ASSUME NEW m \in Writers, Closing(m)', NEW t \in work'[m].tree,
                      t.changes # tree'.changes
               PROVE  \E x \in Nodes \ {m} : WillName(x)'
    BY DEF OthersName
  <2>0. m \in Nodes
    BY Constants
  <2>1. m # n /\ Closing(m) /\ t \in work[m].tree
    BY <1>3, <2>0 DEF Closing
  <2>2. PICK x \in Nodes \ {m} : WillName(x)
    BY <1>3, <2>1 DEF Tales, Telling, OthersName
  <2> QED
    BY <1>4, <2>2
<1>9. Known'
  BY <1>2, <1>3, <1>4 DEF Tales, Telling, Known, Owed
<1>10. ASSUME NEW v \in Judges PROVE Judging(v)' /\ Passed(v)' /\ Current(v)'
  <2>1. v \in Nodes /\ Judging(v) /\ Passed(v) /\ Current(v)
    BY Constants DEF Tales, Blaming
  <2>2. Judging(v)'
    <3>1. AtWork(v)' => AtWork(v)
      BY <1>3, <1>s, <2>1 DEF AtWork
    <3> QED
      BY <1>2, <1>3, <1>5, <2>1, <3>1 DEF Judging
  <2>3. Passed(v)'
    BY <1>2, <1>3, <1>5, <2>1 DEF Passed
  <2>4. Current(v)'
    BY <1>2, <1>3, <1>4, <2>1 DEF Current, Owed
  <2> QED
    BY <2>2, <2>3, <2>4
<1> QED
  BY <1>7, <1>8, <1>9, <1>10 DEF Telling, Blaming

\* A session that could not be stopped reads nothing; nobody judged beside it.
LEMMA TalesUnstopped ==
    ASSUME Tales, TInv', Standing', Perils = {}, NEW n \in Nodes, FailsUnstopped(n)
    PROVE  Telling' /\ Blaming'
<1>0. TInv /\ Shape
  BY DEF Tales, Standing
<1>1. PICK w \in Works : Steps(n, w) /\ w.pc = "closing" /\ w.tree = {} /\ w.verdict = "failed"
  BY <1>0, UnstoppedEffect
<1>2. /\ log' = log /\ n \in Writers /\ work[n].pc = "working" /\ ~PassBeside
      /\ \A v \in Judges : work[v].pc \notin {"working", "closing"}
  BY <1>0, UnstoppedEffect
<1>3. /\ tree' = tree /\ read' = read
      /\ work'[n].pc = "closing" /\ work'[n].tree = {} /\ work'[n].verdict = "failed"
      /\ \A m \in Nodes : m # n => work'[m] = work[m]
  BY <1>1 DEF Steps
<1>s. log.node[n].state = "running"
  BY <1>0, <1>2 DEF Shape, Stands, AtWork
<1>4. ASSUME NEW m \in Nodes, WillName(m) PROVE WillName(m)'
  <2>1. CASE m = n
    BY <1>2, <1>3, <1>s, <2>1 DEF WillName
  <2>2. CASE m # n
    BY <1>2, <1>3, <1>4, <2>2, WillStays
  <2> QED
    BY <2>1, <2>2
<1>7. OneTale' /\ OthersName'
  <2>1. \A m \in Writers : Closing(m)' =>
           \/ work'[m].tree = {}
           \/ Closing(m) /\ work'[m] = work[m]
    BY <1>3, Constants DEF Closing
  <2>2. OneTale'
    BY <2>1 DEF Tales, Telling, OneTale
  <2>3. OthersName'
    BY <1>3, <1>4, <2>1 DEF Tales, Telling, OthersName
  <2> QED
    BY <2>2, <2>3
<1>8. Known'
  BY <1>2, <1>3, <1>4 DEF Tales, Telling, Known, Owed
<1>9. ASSUME NEW v \in Judges PROVE Judging(v)' /\ Passed(v)' /\ Current(v)'
  <2>1. v \in Nodes /\ v # n /\ v \notin Own /\ Passed(v) /\ Current(v) /\ Stands(v)
    BY <1>0, <1>2, Constants DEF Tales, Blaming, Writers, Shape
  <2>2. Judging(v)'
    <3>1. ~AtWork(v)
      BY <1>2, <2>1 DEF AtWork, Stands
    <3>2. ~AtWork(v)'
      BY <1>3, <2>1, <3>1 DEF AtWork
    <3> QED
      BY <3>2 DEF Judging
  <2>3. Passed(v)'
    <3>1. \A k \in 0..N : ~(Wrote(k) /\ v \in log.node[k].beside)
      BY <1>2, Constants DEF Wrote, PassBeside, In
    <3> QED
      BY <1>2, <1>3, <2>1, <3>1 DEF Passed
  <2>4. Current(v)'
    BY <1>2, <1>3, <1>4, <2>1 DEF Current, Owed
  <2> QED
    BY <2>2, <2>3, <2>4
<1> QED
  BY <1>7, <1>8, <1>9 DEF Telling, Blaming

\* A start names its tree, older than the run's when it is an audited node's, which will land.
LEMMA TalesBegins ==
    ASSUME Tales, TInv', Standing', Perils = {}, NEW n \in Nodes, NEW from \in SUBSET Trees,
           Begins(n, from)
    PROVE  Telling' /\ Blaming'
<1>1. /\ tree' = tree /\ from # {}
      /\ work[n].pc \in {"due", "opened"} /\ work'[n].pc = "working"
      /\ \A m \in Nodes : m # n => work'[m] = work[m]
      /\ log'.newest = from /\ log'.node[n].state = "running" /\ log'.node[n].from = from
      /\ n \in Judges => from = {tree} /\ read'[n] = tree.changes
      /\ \A v \in Judges : v # n => read'[v] = read[v]
      /\ \A m \in Writers : Closing(m) => work[m].tree \in {{}, from}
  BY Constants DEF Begins, Starting, Writers
<1>2. \A m \in Nodes : m # n =>
         /\ log'.node[m].state = log.node[m].state /\ log'.node[m].from = log.node[m].from
         /\ log'.node[m].left = log.node[m].left /\ log'.node[m].beside = log.node[m].beside
         /\ log'.node[m].moved = log.node[m].moved
         /\ log.node[m].state = "finished" => log'.node[m].behind
  BY <1>1 DEF Begins, Starting
<1>3. \A m \in Writers : Closing(m)' => Closing(m) /\ m # n /\ work'[m] = work[m]
  BY <1>1, Constants DEF Closing
<1>w. n \in Writers => WillName(n)'
  BY <1>1 DEF WillName
<1>j. n \notin Writers => from = {tree}
  BY <1>1 DEF Writers
<1>4. OneTale'
  BY <1>3 DEF Tales, Telling, OneTale
<1>5. OthersName'
  <2> SUFFICES ASSUME NEW m \in Writers, Closing(m)', NEW t \in work'[m].tree,
                      t.changes # tree'.changes
               PROVE  \E x \in Nodes \ {m} : WillName(x)'
    BY DEF OthersName
  <2>1. Closing(m) /\ m # n /\ t \in from
    BY <1>1, <1>3
  <2>2. from # {tree}
    BY <1>1, <2>1
  <2> QED
    BY <1>j, <1>w, <2>1, <2>2
<1>6. Known'
  BY <1>1, <1>j, <1>w DEF Known, Owed
<1>7. ASSUME NEW k \in 0..N, Wrote(k) PROVE k \in Nodes /\ k # n /\ Wrote(k)'
  <2>1. k \in Nodes /\ k # n
    BY <1>1, <1>7, Constants DEF Wrote, AtWork
  <2> QED
    BY <1>1, <1>2, <1>7, <2>1 DEF Wrote, AtWork
<1>8. ASSUME NEW v \in Judges PROVE Judging(v)' /\ Passed(v)' /\ Current(v)'
  <2>0. v \in Nodes
    BY Constants
  <2>1. CASE v = n
    BY <1>1, <2>1 DEF Judging, Passed, Current
  <2>2. CASE v # n
    <3>1. Judging(v) /\ Passed(v)
      BY DEF Tales, Blaming
    <3>2. Judging(v)'
      BY <1>1, <1>2, <1>7, <2>0, <2>2, <3>1 DEF Judging, AtWork
    <3>3. Passed(v)'
      <4> SUFFICES ASSUME log'.node[v].state = "finished", ~log'.node[v].moved,
                          NEW t \in log'.node[v].left, NEW k \in 0..N,
                          t.changes[k] # read'[v][k]
                   PROVE  Wrote(k)' /\ v \in log'.node[k].beside
        BY DEF Passed
      <4>1. Wrote(k) /\ v \in log.node[k].beside
        BY <1>1, <1>2, <2>0, <2>2, <3>1 DEF Passed
      <4>2. k \in Nodes /\ k # n /\ Wrote(k)'
        BY <1>7, <4>1
      <4> QED
        BY <1>2, <4>1, <4>2
    <3>4. Current(v)'
      BY <1>2, <2>0, <2>2 DEF Current
    <3> QED
      BY <3>2, <3>3, <3>4
  <2> QED
    BY <2>1, <2>2
<1> QED
  BY <1>4, <1>5, <1>6, <1>8 DEF Telling, Blaming

\* An invariant closes: no record of the tree.
LEMMA TalesJudgeEnds ==
    ASSUME Tales, TInv', Standing', NEW n \in Judges, Ends(n) PROVE Telling' /\ Blaming'
<1>0. n \in Nodes /\ n \notin Writers /\ Stands(n) /\ Judging(n) /\ JudgeSees(n)
  BY Constants DEF Writers, Tales, Standing, Shape, Blaming
<1>1. /\ tree' = tree /\ read' = read /\ work[n].pc = "closing" /\ work'[n].pc = "idle"
      /\ \A m \in Nodes : m # n => work'[m] = work[m]
      /\ log'.newest = log.newest /\ log'.node[n].state = work[n].verdict
      /\ log'.node[n].moved = log.node[n].moved
      /\ work[n].verdict = "finished" => log'.node[n].left = work[n].tree
  BY <1>0 DEF Ends, Closed
<1>2. \A m \in Nodes : m # n =>
         LET r == log.node[m]
             q == log'.node[m]
         IN  /\ q.state = r.state /\ q.from = r.from /\ q.left = r.left
             /\ ~q.moved => ~r.moved
             /\ q.beside = IF r.state = "running" THEN r.beside \cup {n} ELSE r.beside
             /\ r.behind => q.behind
  BY <1>0 DEF Ends, Closed
<1>3. ASSUME NEW m \in Nodes, WillName(m) PROVE WillName(m)'
  <2>1. CASE m = n
    <3>1. work[n].verdict = "failed"
      BY <1>0, <1>1, <1>3, <2>1 DEF WillName, Stands, AtWork
    <3> QED
      BY <1>1, <2>1, <3>1 DEF WillName
  <2>2. CASE m # n
    BY <1>1, <1>2, <1>3, <2>2, WillStays
  <2> QED
    BY <2>1, <2>2
<1>4. \A m \in Writers : Closing(m)' => Closing(m) /\ work'[m] = work[m]
  BY <1>1, Constants DEF Closing
<1>5. OneTale' /\ OthersName'
  BY <1>1, <1>3, <1>4 DEF Tales, Telling, OneTale, OthersName
<1>6. Known'
  BY <1>1, <1>3 DEF Tales, Telling, Known, Owed
<1>7. ASSUME NEW k \in 0..N, Wrote(k)
      PROVE  Wrote(k)' /\ log'.node[k].beside = log.node[k].beside \cup {n}
  <2>1. k \in Nodes /\ k # n /\ log.node[k].state = "running"
    BY <1>0, <1>7, Constants DEF Wrote
  <2> QED
    BY <1>1, <1>2, <1>7, <2>1 DEF Wrote, AtWork
<1>8. ASSUME NEW v \in Judges, v # n PROVE Judging(v)' /\ Passed(v)' /\ Current(v)'
  <2>1. v \in Nodes /\ Judging(v) /\ Passed(v) /\ Current(v)
    BY Constants DEF Tales, Blaming
  <2>2. Judging(v)'
    BY <1>1, <1>2, <1>7, <1>8, <2>1 DEF Judging, AtWork
  <2>3. Passed(v)'
    BY <1>1, <1>2, <1>7, <1>8, <2>1 DEF Passed
  <2>4. Current(v)'
    BY <1>1, <1>2, <1>3, <1>8, <2>1 DEF Current, Owed
  <2> QED
    BY <2>2, <2>3, <2>4
\* What its pass does not speak for, someone at work wrote and will record.
<1>9. Judging(n)' /\ Passed(n)' /\ Current(n)'
  <2>1. AtWork(n) /\ \A k \in 0..N :
           ~log.node[n].moved /\ tree.changes[k] # read[n][k] => Wrote(k)
    BY <1>0, <1>1 DEF Judging, AtWork
  <2>z. /\ tree.changes \in [0..N -> Nat] /\ read[n] \in [0..N -> Nat]
        /\ \A t \in work[n].tree : t.changes \in [0..N -> Nat]
    BY <1>0, Sizes, Counts DEF Tales
  <2>2. Judging(n)'
    BY <1>1 DEF Judging, AtWork
  <2>3. Passed(n)'
    <3> SUFFICES ASSUME log'.node[n].state = "finished", ~log'.node[n].moved,
                        NEW t \in log'.node[n].left, NEW k \in 0..N,
                        t.changes[k] # read'[n][k]
                 PROVE  Wrote(k)' /\ n \in log'.node[k].beside
      BY DEF Passed
    <3>1. t \in work[n].tree /\ ~log.node[n].moved /\ t.changes[k] # read[n][k]
      BY <1>1
    <3>2. read[n][k] <= t.changes[k] /\ t.changes[k] <= tree.changes[k]
      BY <1>0, <1>1, <3>1 DEF JudgeSees, Below
    <3>3. read[n][k] \in Nat /\ t.changes[k] \in Nat /\ tree.changes[k] \in Nat
      BY <2>z, <3>1
    <3>4. tree.changes[k] # read[n][k]
      BY <3>1, <3>2, <3>3
    <3>5. Wrote(k)
      BY <2>1, <3>1, <3>4
    <3> QED
      BY <1>7, <3>5
  <2>4. Current(n)'
    <3> SUFFICES ASSUME ~log'.node[n].moved, ~Owed'
                 PROVE  read'[n] = tree'.changes
      BY DEF Current
    <3>1. ~Owed
      BY <1>3 DEF Owed
    <3>2. \A k \in 0..N : ~Wrote(k)
      BY <3>1, WroteOwes DEF Tales
    <3>3. \A k \in 0..N : read[n][k] = tree.changes[k]
      BY <1>1, <2>1, <3>2
    <3> QED
      BY <1>1, <2>z, <3>3, SameCounts
  <2> QED
    BY <2>2, <2>3, <2>4
<1>10. Blaming'
  BY <1>8, <1>9 DEF Blaming
<1> QED
  BY <1>5, <1>6, <1>10 DEF Telling

\* A writer's close is recorded: it marks the invariants whose start missed what it wrote, and
\* whoever changed the tree since it was read will record it.
LEMMA TalesWriterEnds ==
    ASSUME Tales, TInv', Standing', NEW n \in Writers, Ends(n) PROVE Telling' /\ Blaming'
<1>0. n \in Nodes /\ n \in 0..N /\ n \notin Judges /\ Stands(n) /\ WriterSees(n) /\ AtWork(n)
  BY Constants DEF Writers, Tales, Standing, Shape, Ends, AtWork
<1>1. /\ tree' = tree /\ read' = read /\ work[n].pc = "closing" /\ work'[n].pc = "idle"
      /\ \A m \in Nodes : m # n => work'[m] = work[m]
      /\ log'.newest = IF work[n].tree # {} THEN work[n].tree ELSE log.newest
      /\ log'.node[n].state = work[n].verdict /\ log.node[n].state = "running"
      /\ work[n].tree = {} => work[n].verdict = "failed"
  BY <1>0 DEF Ends, Closed, Stands
<1>2. \A m \in Nodes : m # n =>
         LET r == log.node[m]
             q == log'.node[m]
         IN  /\ q.state = r.state /\ q.from = r.from /\ q.left = r.left
             /\ ~q.moved => ~r.moved /\ m \notin moved_beside(log, n, work[n].tree)
             /\ q.beside = IF r.state = "running" THEN r.beside \cup {n} ELSE r.beside
             /\ r.behind => q.behind
             /\ work[n].tree # {} /\ r.state = "finished" => q.behind
  BY <1>0 DEF Ends, Closed
<1>f. work[n].verdict = "failed" => WillName(n)'
  BY <1>1 DEF WillName
<1>3. ASSUME NEW m \in Nodes, WillName(m), m # n PROVE WillName(m)'
  BY <1>1, <1>2, <1>3, WillStays
<1>4. \A m \in Writers : Closing(m)' => Closing(m) /\ m # n /\ work'[m] = work[m]
  BY <1>1, Constants DEF Closing
<1>5. OneTale'
  BY <1>4 DEF Tales, Telling, OneTale
<1>6. OthersName'
  <2> SUFFICES ASSUME NEW m \in Writers, Closing(m)', NEW t \in work'[m].tree,
                      t.changes # tree'.changes
               PROVE  \E x \in Nodes \ {m} : WillName(x)'
    BY DEF OthersName
  <2>1. Closing(m) /\ m # n /\ t \in work[m].tree /\ t.changes # tree.changes
    BY <1>1, <1>4
  <2>2. PICK x \in Nodes \ {m} : WillName(x)
    BY <2>1 DEF Tales, Telling, OthersName
  <2>3. CASE x # n
    BY <1>3, <2>2, <2>3
  <2>4. CASE x = n
    <3>1. work[n].verdict = "failed"
      <4> SUFFICES ASSUME work[n].verdict # "failed" PROVE FALSE
        OBVIOUS
      <4>1. work[n].tree # {} /\ \A u \in work[n].tree : u.changes = tree.changes
        BY <1>1, <2>2, <2>4 DEF WillName
      <4>2. \A u \in work[n].tree : u = t
        BY <1>1, <2>1 DEF Tales, Telling, OneTale, Closing
      <4> QED
        BY <2>1, <4>1, <4>2
    <3> QED
      BY <1>0, <1>f, <2>1, <3>1
  <2> QED
    BY <2>3, <2>4
<1>7. Known'
  <2>1. CASE work[n].verdict = "failed"
    BY <1>0, <1>f, <2>1 DEF Known, Owed
  <2>2. CASE work[n].tree # {} /\ \A u \in work[n].tree : u.changes = tree.changes
    BY <1>1, <2>2 DEF Known
  <2>3. CASE \E u \in work[n].tree : u.changes # tree.changes
    <3>1. PICK x \in Nodes \ {n} : WillName(x)
      BY <1>1, <2>3 DEF Tales, Telling, OthersName, Closing
    <3> QED
      BY <1>3, <3>1 DEF Known, Owed
  <2> QED
    BY <1>1, <2>1, <2>2, <2>3
\* A change of n's own that an invariant did not see marks it now.
<1>m. ASSUME NEW v \in Judges, ~log'.node[v].moved, Wrote(n), log.node[v].from # {},
             \A f \in log.node[v].from : f.changes = read[v], read[v][n] # tree.changes[n],
             log.node[v].state = "running" \/ v \in log.node[n].beside
      PROVE  FALSE
  <2>0. v \in Nodes /\ v # n
    BY <1>0, Constants
  <2>1. PICK f \in log.node[n].from : f.changes[n] < tree.changes[n]
    BY <1>0, <1>m DEF Wrote, Stands
  <2>2. PICK t \in work[n].tree : t.changes[n] = tree.changes[n]
    BY <1>0, <1>1, <1>m DEF Wrote, WriterSees
  <2>3. f.changes[n] \in Nat /\ tree.changes[n] \in Nat
    BY <1>0, Sizes, Counts DEF Tales
  <2>4. log.node[n].from # work[n].tree
    <3>1. \A u \in work[n].tree : u.changes[n] = tree.changes[n]
      BY <1>0, <1>1 DEF WriterSees
    <3> QED
      BY <2>1, <2>3, <3>1
  <2>5. log.node[v].from # work[n].tree
    BY <1>m, <2>2
  <2>6. v \in moved_beside(log, n, work[n].tree)
    BY <1>m, <2>0, <2>2, <2>4, <2>5 DEF moved_beside, In, NoTree
  <2> QED
    BY <1>2, <1>m, <2>0, <2>6
<1>8. ASSUME NEW k \in 0..N, Wrote(k), k # n
      PROVE  Wrote(k)' /\ log'.node[k].beside = log.node[k].beside \cup {n}
  <2>1. k \in Nodes /\ log.node[k].state = "running"
    BY <1>8, Constants DEF Wrote
  <2> QED
    BY <1>1, <1>2, <1>8, <2>1 DEF Wrote, AtWork
<1>9. ASSUME NEW v \in Judges PROVE Judging(v)' /\ Passed(v)' /\ Current(v)'
  <2>1. /\ v \in Nodes /\ v # n /\ Judging(v) /\ Passed(v) /\ Current(v)
        /\ JudgeSees(v) /\ Stands(v)
    BY <1>0, Constants DEF Tales, Blaming, Standing, Shape
  <2>z. /\ tree.changes \in [0..N -> Nat] /\ read[v] \in [0..N -> Nat]
        /\ \A t \in log.node[v].left : t.changes \in [0..N -> Nat]
    BY <2>1, Sizes, Counts DEF Tales
  <2>2. Judging(v)'
    <3> SUFFICES ASSUME AtWork(v)', ~log'.node[v].moved, NEW k \in 0..N,
                        tree'.changes[k] # read'[v][k]
                 PROVE  Wrote(k)'
      BY DEF Judging
    <3>1. AtWork(v) /\ ~log.node[v].moved /\ tree.changes[k] # read[v][k]
      BY <1>1, <1>2, <2>1 DEF AtWork
    <3>2. Wrote(k) /\ log.node[v].state = "running"
      BY <2>1, <3>1 DEF Judging, Stands
    <3>3. k # n
      BY <1>m, <2>1, <3>1, <3>2 DEF JudgeSees
    <3> QED
      BY <1>8, <3>2, <3>3
  <2>3. Passed(v)'
    <3> SUFFICES ASSUME log'.node[v].state = "finished", ~log'.node[v].moved,
                        NEW t \in log'.node[v].left, NEW k \in 0..N,
                        t.changes[k] # read'[v][k]
                 PROVE  Wrote(k)' /\ v \in log'.node[k].beside
      BY DEF Passed
    <3>1. /\ log.node[v].state = "finished" /\ ~log.node[v].moved
          /\ t \in log.node[v].left /\ t.changes[k] # read[v][k]
      BY <1>1, <1>2, <2>1
    <3>2. Wrote(k) /\ v \in log.node[k].beside
      BY <2>1, <3>1 DEF Passed
    <3>3. k # n
      <4>1. read[v][k] <= t.changes[k] /\ t.changes[k] <= tree.changes[k]
        BY <2>1, <3>1 DEF JudgeSees, Below
      <4>2. read[v][k] \in Nat /\ t.changes[k] \in Nat /\ tree.changes[k] \in Nat
        BY <2>z, <3>1
      <4>3. read[v][k] # tree.changes[k]
        BY <3>1, <4>1, <4>2
      <4>4. log.node[v].from # {} /\ \A f \in log.node[v].from : f.changes = read[v]
        BY <2>1, <3>1 DEF JudgeSees
      <4> QED
        BY <1>m, <3>2, <4>3, <4>4
    <3> QED
      BY <1>8, <3>2, <3>3
  <2>4. Current(v)'
    <3>1. CASE work[n].tree # {}
      BY <1>2, <2>1, <3>1 DEF Current
    <3>2. CASE work[n].tree = {}
      BY <1>0, <1>1, <1>f, <3>2 DEF Current, Owed
    <3> QED
      BY <3>1, <3>2
  <2> QED
    BY <2>2, <2>3, <2>4
<1> QED
  BY <1>5, <1>6, <1>7, <1>9 DEF Telling, Blaming

\* Every step keeps the invariant, where nothing the code does not stand happens.
LEMMA TalesNext == ASSUME Perils = {}, Tales, [Next]_vars PROVE Tales'
<1>1. TInv' /\ Standing' /\ TInv /\ Shape
  BY StandingNext DEF Tales, Standing
<1>2. Telling' /\ Blaming'
  <2>1. CASE Dues
    BY <1>1, <2>1, TalesDues
  <2>2. CASE Still \/ Rerouted
    BY <2>2, TalesStill
  <2>3. CASE Woken
    BY <1>1, <2>3, TalesWoken
  <2>4. CASE Severed
    BY <1>1, <2>4, TalesSevered
  <2>5. CASE Grows
    BY <1>1, <2>5, TalesGrows
  <2>6. ASSUME NEW n \in Nodes, Opens(n) PROVE Telling' /\ Blaming'
    BY <1>1, <2>6, TalesOpens
  <2>7. ASSUME NEW n \in Nodes, Captures(n) PROVE Telling' /\ Blaming'
    BY <1>1, <2>7, TalesCaptures
  <2>8. ASSUME NEW n \in Nodes, FailsUnstopped(n) PROVE Telling' /\ Blaming'
    BY <1>1, <2>8, TalesUnstopped
  <2>9. ASSUME NEW n \in Nodes, Ends(n) PROVE Telling' /\ Blaming'
    <3>1. CASE n \in Writers
      BY <1>1, <2>9, <3>1, TalesWriterEnds
    <3>2. CASE n \in Judges
      BY <1>1, <2>9, <3>2, TalesJudgeEnds
    <3> QED
      BY <3>1, <3>2 DEF Writers
  <2>10. ASSUME NEW n \in Nodes, NEW from \in SUBSET Trees, Begins(n, from)
         PROVE  Telling' /\ Blaming'
    BY <1>1, <2>10, TalesBegins
  <2> QED
    BY <1>1, <2>1, <2>2, <2>3, <2>4, <2>5, <2>6, <2>7, <2>8, <2>9, <2>10, StepKinds
<1> QED
  BY <1>1, <1>2, StandingNext DEF Tales

\* Nothing is judged again, started or finished before nothing runs and nothing failed.
LEMMA NothingOpen ==
    ASSUME TInv, Shape, decide(log).do \in {"Reverify", "Fresh", "Finish"}
    PROVE  \A n \in Nodes : log.node[n].state \notin {"running", "failed"}
<1> DEFINE open == {n \in In(log, "failed") : failure_of(log, n).do # "None"}
<1>1. \A n : failure_of(log, n).do \in {"Execute", "None", "Reroute", "EscalateFailure"}
  BY DEF failure_of, Decision
<1>2. In(log, "running") = {}
  BY DEF decide, Decision
<1>3. open = {}
  <2> SUFFICES ASSUME open # {} PROVE FALSE
    OBVIOUS
  <2>1. decide(log) = failure_of(log, First(open))
    BY <1>2 DEF decide
  <2> QED
    BY <1>1, <2>1
<1>4. ASSUME NEW n \in Nodes, log.node[n].state = "failed" PROVE FALSE
  <2>1. failure_of(log, n).do = "None" /\ n \in In(log, "failed")
    BY <1>3, <1>4 DEF In
  <2>2. Goto[n] \in In(log, "failed")
    BY <2>1 DEF failure_of, Decision
  <2> DEFINE k == Goto[n]
  <2>3. k \in Nodes /\ Goto[k] = 0 /\ log.node[k].state = "failed"
    BY <2>2, Constants DEF In
  <2> HIDE DEF k
  <2>4. log.node[k].sent = "no"
    BY <2>3 DEF Shape, Stands
  <2>5. failure_of(log, k).do = "EscalateFailure"
    BY <2>3, <2>4 DEF failure_of, Decision
  <2>6. k \in open
    BY <2>3, <2>5 DEF In
  <2> QED
    BY <1>3, <2>6
<1> QED
  BY <1>2, <1>4 DEF In

\* Nor is anything started or finished while a pass is stale.
LEMMA Settled ==
    ASSUME TInv, Shape, decide(log).do \in {"Fresh", "Finish"}
    PROVE  /\ \A n \in Nodes : log.node[n].state \notin {"running", "failed"}
           /\ stale(log) = {}
<1>1. \A n \in Nodes : log.node[n].state \notin {"running", "failed"}
  BY NothingOpen
<1>2. In(log, "running") = {} /\ In(log, "failed") = {}
  BY <1>1 DEF In
<1> QED
  BY <1>1, <1>2 DEF decide, Decision

\* Before anything else starts or the run finishes, every invariant that passed did so on the changes the
\* tree holds and on them the whole time it worked (reverify.rs), where none of the Perils happens:
\* each of them breaks it.
THEOREM TreePassHolds == Perils = {} => (Spec => []PassHolds)
<1>1. Init => Tales
  BY TalesInit
<1>2. Perils = {} /\ Tales /\ [Next]_vars => Tales'
  BY TalesNext
<1>3. Tales => PassHolds
  <2> SUFFICES ASSUME Tales, Deciding, decide(log).do \in {"Fresh", "Finish"},
                      NEW v \in Judges \cap In(log, "finished")
               PROVE  read[v] = tree.changes
    BY DEF PassHolds
  <2>1. /\ v \in Nodes /\ log.node[v].state = "finished"
        /\ Passed(v) /\ Current(v) /\ JudgeSees(v)
    BY Constants DEF In, Tales, Blaming, Standing
  <2>2. /\ \A n \in Nodes : log.node[n].state \notin {"running", "failed"}
        /\ stale(log) = {}
    BY Settled DEF Tales, Standing
  <2>3. ~Owed /\ \A k \in 0..N : ~Wrote(k)
    BY <2>2, Constants DEF Owed, WillName, Wrote
  <2>4. ~log.node[v].moved
    BY <2>1, <2>2 DEF stale, In
  <2>5. CASE ~log.node[v].behind
    BY <2>1, <2>3, <2>4, <2>5 DEF Current
  <2>6. CASE log.node[v].behind
    <3>1. log.node[v].left = log.newest /\ log.node[v].left # {}
      BY <2>1, <2>2, <2>6 DEF stale, In, NoTree, JudgeSees
    <3>2. PICK t \in log.node[v].left : t.changes = tree.changes
      BY <2>3, <3>1 DEF Tales, Telling, Known
    <3>3. \A k \in 0..N : t.changes[k] = read[v][k]
      BY <2>1, <2>3, <2>4 DEF Passed
    <3>4. t.changes \in [0..N -> Nat] /\ read[v] \in [0..N -> Nat]
      BY <2>1, Sizes, Counts DEF Tales
    <3>5. t.changes = read[v]
      BY <3>3, <3>4, SameCounts
    <3> QED
      BY <3>2, <3>5
  <2> QED
    BY <2>5, <2>6
<1>4. CASE Perils = {}
  BY <1>1, <1>2, <1>3, <1>4, PTL DEF Spec
<1> QED
  BY <1>4

-----------------------------------------------------------------------------
(* Invariants that run again: since a wake or another decision, the round is  *)
(* a set of invariants that were judged again and need not be once more.     *)

\* Few invariants rewrite: one among any number, or two in all.
OneRewriter == Cardinality(Rewriters) <= 1
TwoJudges == Cardinality(Judges) <= 2

\* What m passed on, if it did, is the tree `trees`, and nothing marked the pass.
Holds(m, trees) ==
    log.node[m].state = "finished" => ~log.node[m].moved /\ log.node[m].left = trees

\* The invariants in D and k more ran again in this round; where one alone rewrites and the tree is
\* as it leaves it, every invariant may have run before that.
Allowance == IF OneRewriter /\ tree.form # 0 THEN Cardinality(Judges) ELSE 0
Spent(D, k) == rounds <= Cardinality(D) + k + Allowance

\* Nothing but n is at work, runs or failed.
Only(n) ==
    \A m \in Nodes \ {n} : work[m].pc = "idle" /\ log.node[m].state \in {"none", "finished"}

\* n is to run again on the tree that those in D passed on.
AgainDue(n, D) ==
    /\ work[n].pc = "due" /\ n \notin D
    /\ \A m \in D : Holds(m, {tree})
    /\ Spent(D, 1)

\* n runs again; the one that rewrites may have changed the tree meanwhile.
AgainAtWork(n, D) ==
    /\ work[n].pc \in {"working", "closing"} /\ n \notin D
    /\ log.node[n].state = "running" /\ log.node[n].beside = {} /\ ~log.node[n].moved
    /\ work[n].pc = "closing" /\ work[n].verdict = "finished" => work[n].tree = {tree}
    /\ \A m \in D : Holds(m, log.newest)
    /\ OneRewriter => D = {} \/ log.newest = {tree}
    /\ Spent(D, 1)

\* n ran again and passed on the tree as it is.
AgainPassed(n, D) ==
    /\ work[n].pc = "idle" /\ n \in D
    /\ log.node[n].state = "finished" /\ ~log.node[n].moved /\ ~log.node[n].behind
    /\ log.node[n].left = {tree}
    /\ \A m \in D \ {n} : Holds(m, log.newest)
    /\ OneRewriter => D = {n} \/ log.newest = {tree}
    /\ Spent(D, 0)

\* n ran again and failed, which ends the round.
AgainFailed(n) == work[n].pc = "idle" /\ log.node[n].state = "failed"

Sending(n, D) ==
    Only(n) /\ (AgainDue(n, D) \/ AgainAtWork(n, D) \/ AgainPassed(n, D) \/ AgainFailed(n))

\* A round under way has an invariant that ran last and the set that need not again.
RoundInv ==
    /\ rounds \in Nat /\ rounds <= 2 * Cardinality(Judges)
    /\ eng = "up" /\ rounds > 0 => \E n \in Judges : \E D \in SUBSET Judges : Sending(n, D)

\* What the invariants count to.
LEMMA JudgeCounts ==
    /\ Cardinality(Judges) \in Nat
    /\ \A D \in SUBSET Judges : Cardinality(D) \in Nat /\ Cardinality(D) <= Cardinality(Judges)
    /\ \A D \in SUBSET Judges : \A n \in Judges \ D :
          /\ Cardinality(D \cup {n}) = Cardinality(D) + 1
          /\ Cardinality(D) + 1 <= Cardinality(Judges)
    /\ Cardinality({}) = 0
<1>1. IsFiniteSet(Judges)
  <2>1. IsFiniteSet(1..N)
    BY Constants, FS_Interval
  <2> QED
    BY <2>1, Constants, FS_Subset
<1>2. ASSUME NEW D \in SUBSET Judges
      PROVE  /\ IsFiniteSet(D) /\ Cardinality(D) \in Nat
             /\ Cardinality(D) <= Cardinality(Judges)
  BY <1>1, FS_Subset, FS_CardinalityType
<1>3. ASSUME NEW D \in SUBSET Judges, NEW n \in Judges \ D
      PROVE  /\ Cardinality(D \cup {n}) = Cardinality(D) + 1
             /\ Cardinality(D) + 1 <= Cardinality(Judges)
  <2>1. Cardinality(D \cup {n}) = Cardinality(D) + 1
    BY <1>2, FS_AddElement
  <2>2. D \cup {n} \in SUBSET Judges
    BY <1>3
  <2> QED
    BY <1>2, <2>1, <2>2
<1> QED
  BY <1>1, <1>2, <1>3, FS_CardinalityType, FS_EmptySet

\* One invariant that rewrites is no other, and of two in all there is no third.
LEMMA Few ==
    /\ OneRewriter => \A x, y \in Rewriters : x = y
    /\ TwoJudges => \A x, y, z \in Judges : x = y \/ x = z \/ y = z
<1>1. IsFiniteSet(Judges) /\ IsFiniteSet(Rewriters)
  <2>1. IsFiniteSet(1..N)
    BY Constants, FS_Interval
  <2>2. IsFiniteSet(Judges)
    BY <2>1, Constants, FS_Subset
  <2> QED
    BY <2>2, Constants, FS_Subset
<1>2. ASSUME NEW x, NEW y, x # y PROVE IsFiniteSet({x, y}) /\ Cardinality({x, y}) = 2
  <2>1. IsFiniteSet({x}) /\ Cardinality({x}) = 1
    BY FS_Singleton
  <2>2. {x} \cup {y} = {x, y} /\ y \notin {x}
    BY <1>2
  <2> QED
    BY <2>1, <2>2, FS_AddElement
<1>3. ASSUME OneRewriter, NEW x \in Rewriters, NEW y \in Rewriters, x # y PROVE FALSE
  <2>1. {x, y} \in SUBSET Rewriters /\ Cardinality({x, y}) = 2
    BY <1>2, <1>3
  <2>2. 2 <= Cardinality(Rewriters) /\ Cardinality(Rewriters) \in Nat
    BY <1>1, <2>1, FS_Subset, FS_CardinalityType
  <2> QED
    BY <1>3, <2>2 DEF OneRewriter
<1>4. ASSUME TwoJudges, NEW x \in Judges, NEW y \in Judges, NEW z \in Judges,
             x # y, x # z, y # z
      PROVE  FALSE
  <2>1. IsFiniteSet({x, y}) /\ Cardinality({x, y}) = 2 /\ z \notin {x, y}
    BY <1>2, <1>4
  <2>2. Cardinality({x, y} \cup {z}) = 3 /\ {x, y} \cup {z} \in SUBSET Judges
    BY <2>1, <1>4, FS_AddElement
  <2>3. 3 <= Cardinality(Judges) /\ Cardinality(Judges) \in Nat
    BY <1>1, <2>2, FS_Subset, FS_CardinalityType
  <2> QED
    BY <1>4, <2>3 DEF TwoJudges
<1> QED
  BY <1>3, <1>4

\* A nonempty set of nodes has a first.
LEMMA FirstIsIn ==
    ASSUME NEW S \in SUBSET Nodes, S # {} PROVE First(S) \in S
<1> DEFINE Less == {ss \in Nat \X Nat : ss[1] < ss[2]}
<1>1. IsWellFoundedOn(Less, Nat)
  BY NatLessThanWellFounded DEF OpToRel
<1>2. S \subseteq Nat
  BY Constants
<1>3. \E x \in S : \A y \in S : ~ (<<y, x>> \in Less)
  <2> HIDE DEF Less
  <2> QED
    BY <1>1, <1>2, WFMin
<1>4. PICK x \in S : \A y \in S : ~ (<<y, x>> \in Less)
  BY <1>3
<1>5. ASSUME NEW y \in S PROVE x <= y
  <2>1. <<y, x>> \in Nat \X Nat /\ <<y, x>>[1] = y /\ <<y, x>>[2] = x
    BY <1>2
  <2> QED
    BY <1>2, <1>4, <2>1
<1> QED
  BY <1>5 DEF First

\* Who moves in a round is the invariant that runs again.
LEMMA OnlyOneMoves ==
    ASSUME RoundInv, eng = "up", rounds > 0, NEW n \in Nodes, work[n].pc # "idle"
    PROVE  /\ n \in Judges /\ Only(n)
           /\ \E D \in SUBSET Judges : AgainDue(n, D) \/ AgainAtWork(n, D)
<1>1. PICK m \in Judges, D \in SUBSET Judges : Sending(m, D)
  BY DEF RoundInv
<1>2. n = m
  BY <1>1 DEF Sending, Only
<1> QED
  BY <1>1, <1>2 DEF Sending, AgainPassed, AgainFailed

\* A decision that finds nothing failed, in a round, finds an invariant that passed.
LEMMA AtRestInARound ==
    ASSUME RoundInv, Deciding, rounds > 0
    PROVE  \E n \in Judges : /\ Only(n)
                             /\ AgainFailed(n) \/ \E D \in SUBSET Judges : AgainPassed(n, D)
<1>1. PICK n \in Judges, D \in SUBSET Judges : Sending(n, D)
  BY DEF RoundInv, Deciding
<1>2. work[n].pc = "idle"
  BY Constants DEF Deciding, Landed
<1> QED
  BY <1>1, <1>2 DEF Sending, AgainDue, AgainAtWork

\* A round goes on with an invariant that did not pass on the tree as it is.
LEMMA RoundReverifies ==
    ASSUME TInv, Shape, OneRewriter \/ TwoJudges, RoundInv, Executes,
           decide(log).do = "Reverify"
    PROVE  RoundInv'
<1>1. \A m \in Nodes : log.node[m].state \notin {"running", "failed"}
  BY NothingOpen
<1>2. stale(log) # {} /\ decide(log).nodes = {First(stale(log))}
  <2>1. In(log, "running") = {} /\ In(log, "failed") = {}
    BY <1>1 DEF In
  <2> QED
    BY <2>1 DEF decide, Decision
<1>3. PICK n \in stale(log) : decide(log).nodes = {n}
  <2>1. stale(log) \in SUBSET Nodes
    BY Constants DEF stale
  <2> QED
    BY <1>2, <2>1, FirstIsIn
<1>4. /\ n \in Judges /\ n \in Nodes
      /\ \/ log.node[n].moved
         \/ log.node[n].behind /\ log.node[n].left # log.newest
  BY <1>3, Constants DEF stale
<1>5. /\ eng' = "up" /\ UNCHANGED <<tree, log>> /\ rounds' = rounds + 1
      /\ work'[n].pc = "due" /\ \A m \in Nodes \ {n} : work'[m].pc = "idle"
  <2>1. execute({n}) /\ rounds' = rounds + 1 /\ eng = "up"
    BY <1>3 DEF Executes, Deciding
  <2>2. [Idle EXCEPT !.pc = "due"].pc = "due"
    BY IdleWork DEF Works
  <2> QED
    BY <1>4, <2>1, <2>2, IdleWork DEF execute
<1>6. Only(n)'
  <2>1. \A m \in Nodes : log.node[m].state \in {"none", "finished"}
    BY <1>1 DEF TInv, Typed, Logs, Records, States
  <2> QED
    BY <1>5, <2>1 DEF Only
<1>7. Allowance' = Allowance /\ Allowance \in Nat /\ Allowance <= Cardinality(Judges)
  BY <1>5, JudgeCounts DEF Allowance
<1>8. \E D \in SUBSET (Judges \ {n}) :
         rounds <= Cardinality(D) + Allowance /\ \A m \in D : Holds(m, {tree})
  <2>1. CASE rounds = 0
    <3>1. {} \in SUBSET (Judges \ {n}) /\ rounds <= Cardinality({}) + Allowance
      BY <1>7, <2>1, JudgeCounts
    <3> QED
      BY <3>1
  <2>2. CASE rounds > 0
    <3>1. PICK p \in Judges : Only(p) /\ (AgainFailed(p) \/ \E D \in SUBSET Judges : AgainPassed(p, D))
      BY <2>2, AtRestInARound DEF Executes
    <3>2. PICK D \in SUBSET Judges : AgainPassed(p, D)
      BY <1>1, <3>1, Constants DEF AgainFailed
    <3>3. n \notin D
      <4>1. n # p
        BY <1>4, <3>2 DEF AgainPassed
      <4>2. n \in D \ {p} => Holds(n, log.newest)
        BY <3>2 DEF AgainPassed
      <4>3. log.node[n].state = "finished"
        BY <1>3 DEF stale, In
      <4> QED
        BY <1>4, <4>1, <4>2, <4>3 DEF Holds
    <3>4. D = {p} \/ log.newest = {tree}
      <4>1. CASE OneRewriter
        BY <3>2, <4>1 DEF AgainPassed
      <4>2. CASE TwoJudges
        BY <1>4, <3>2, <3>3, <4>2, Few DEF AgainPassed
      <4> QED
        BY <4>1, <4>2
    <3>5. ASSUME NEW m \in D PROVE Holds(m, {tree})
      <4>1. CASE m = p
        BY <3>2, <4>1 DEF AgainPassed, Holds
      <4>2. CASE m # p
        BY <3>2, <3>4, <4>2 DEF AgainPassed
      <4> QED
        BY <4>1, <4>2
    <3>6. rounds <= Cardinality(D) + Allowance
      BY <3>2, <1>7, JudgeCounts DEF AgainPassed, Spent
    <3> QED
      BY <3>3, <3>5, <3>6
  <2>3. rounds = 0 \/ rounds > 0
    BY DEF RoundInv
  <2> QED
    BY <2>1, <2>2, <2>3
<1>9. PICK D \in SUBSET (Judges \ {n}) :
         rounds <= Cardinality(D) + Allowance /\ \A m \in D : Holds(m, {tree})
  BY <1>8
<1>10. Cardinality(D) \in Nat /\ Cardinality(D) + 1 <= Cardinality(Judges) /\ rounds \in Nat
  BY <1>4, JudgeCounts DEF RoundInv
<1>11. AgainDue(n, D)'
  <2>1. \A m \in D : Holds(m, {tree})'
    BY <1>5, <1>9 DEF Holds
  <2>2. Spent(D, 1)'
    BY <1>5, <1>7, <1>9, <1>10, JudgeCounts DEF Spent
  <2> QED
    BY <1>5, <2>1, <2>2 DEF AgainDue
<1>12. rounds' \in Nat /\ rounds' <= 2 * Cardinality(Judges)
  BY <1>5, <1>7, <1>9, <1>10, JudgeCounts
<1> QED
  BY <1>4, <1>6, <1>11, <1>12 DEF RoundInv, Sending

\* The start of an invariant in a round is on the tree that the others passed on.
LEMMA RoundBegins ==
    ASSUME TInv, Shape, RoundInv, NEW n \in Nodes, Starts(n)
    PROVE  RoundInv'
<1>1. PICK from \in SUBSET Trees : Begins(n, from)
  BY StartsEffect
<1>2. UNCHANGED <<tree, eng, rounds>> /\ eng = "up" /\ work[n].pc # "idle"
  BY <1>1 DEF Begins, Starts
<1>3. CASE rounds = 0
  BY <1>2, <1>3 DEF RoundInv
<1>4. CASE rounds > 0
  <2>1. n \in Judges /\ Only(n) /\ n \notin Own
    BY <1>2, <1>4, OnlyOneMoves, Constants DEF Writers
  <2>2. work[n].pc = "due" /\ from = {tree} /\ work'[n].pc = "working"
    BY <1>1, <2>1 DEF Begins
  <2>3. PICK D \in SUBSET Judges : AgainDue(n, D)
    BY <1>2, <1>4, <2>2, OnlyOneMoves DEF AgainAtWork
  <2>4. /\ log'.newest = {tree'}
        /\ log'.node[n].state = "running" /\ log'.node[n].beside = {} /\ ~log'.node[n].moved
        /\ \A m \in Nodes \ {n} : /\ log'.node[m].state = log.node[m].state
                                  /\ log'.node[m].left = log.node[m].left
                                  /\ log'.node[m].moved = log.node[m].moved
                                  /\ work'[m] = work[m]
    BY <1>1, <1>2, <2>2 DEF Begins, Starting
  <2>5. Only(n)'
    BY <2>1, <2>4 DEF Only
  <2>6. \A m \in D : Holds(m, log.newest)'
    BY <1>2, <2>3, <2>4, Constants DEF AgainDue, Holds
  <2>7. Spent(D, 1)'
    BY <1>2, <2>3 DEF AgainDue, Spent, Allowance
  <2>8. AgainAtWork(n, D)'
    BY <2>2, <2>3, <2>4, <2>6, <2>7 DEF AgainDue, AgainAtWork
  <2> QED
    BY <1>2, <2>1, <2>5, <2>8 DEF RoundInv, Sending
<1> QED
  BY <1>3, <1>4 DEF RoundInv

\* The one invariant that rewrites has the round begin again, once: it leaves the tree as it wants it.
LEMMA RoundRewrites ==
    ASSUME TInv, Shape, RoundInv, NEW n \in Nodes, Rewrites(n)
    PROVE  RoundInv'
<1>1. /\ UNCHANGED <<log, eng, work, rounds>> /\ work[n].pc = "working" /\ n \in Rewriters
      /\ tree.form # n /\ tree' = [tree EXCEPT !.form = n]
  BY DEF Rewrites
<1>2. eng = "up" /\ n # 0
  BY <1>1, UnderWay, Constants
<1>3. tree.form \in Rewriters \cup {0} /\ tree'.form = n
  BY <1>1 DEF TInv, Typed, Trees
<1>4. CASE rounds = 0
  BY <1>1, <1>4 DEF RoundInv
<1>5. CASE rounds > 0
  <2>1. n \in Judges /\ Only(n)
    BY <1>1, <1>2, <1>5, OnlyOneMoves
  <2>2. PICK D \in SUBSET Judges : AgainAtWork(n, D)
    BY <1>1, <1>2, <1>5, OnlyOneMoves DEF AgainDue
  <2>3. Only(n)'
    BY <1>1, <2>1 DEF Only
  <2>4. \A m \in D : Holds(m, log.newest)'
    BY <1>1, <2>2 DEF AgainAtWork, Holds
  <2>5. CASE OneRewriter
    <3>1. tree.form = 0
      BY <1>1, <1>3, <2>5, Few
    <3>2. Allowance = 0 /\ Allowance' = Cardinality(Judges)
      BY <1>2, <1>3, <2>5, <3>1 DEF Allowance
    <3>3. rounds <= Cardinality(D) + 1 /\ rounds \in Nat
      BY <2>2, <3>2, JudgeCounts DEF AgainAtWork, Spent, RoundInv
    <3>4. Cardinality(D) + 1 <= Cardinality(Judges) /\ Cardinality(D) \in Nat
      BY <2>1, <2>2, JudgeCounts DEF AgainAtWork
    <3>5. Spent({}, 1)'
      BY <1>1, <3>2, <3>3, <3>4, JudgeCounts DEF Spent
    <3>6. AgainAtWork(n, {})'
      BY <1>1, <2>2, <3>5 DEF AgainAtWork
    <3> QED
      BY <1>1, <2>1, <2>3, <3>6 DEF RoundInv, Sending
  <2>6. CASE ~OneRewriter
    <3>1. Allowance' = Allowance
      BY <2>6 DEF Allowance
    <3>2. Spent(D, 1)'
      BY <1>1, <2>2, <3>1 DEF AgainAtWork, Spent
    <3>3. AgainAtWork(n, D)'
      BY <1>1, <2>2, <2>4, <2>6, <3>2 DEF AgainAtWork
    <3> QED
      BY <1>1, <2>1, <2>3, <3>3 DEF RoundInv, Sending
  <2> QED
    BY <2>5, <2>6
<1> QED
  BY <1>4, <1>5 DEF RoundInv

\* The close of an invariant reads the tree it leaves.
LEMMA RoundCaptures ==
    ASSUME TInv, Shape, RoundInv, NEW n \in Nodes, Captures(n)
    PROVE  RoundInv'
<1>1. PICK w \in Works : /\ Steps(n, w) /\ w.pc = "closing" /\ w.tree = {tree}
                         /\ w.verdict \in {"finished", "failed"}
  BY CapturesEffect
<1>2. /\ UNCHANGED <<tree, log, eng, rounds>> /\ eng = "up"
      /\ work'[n] = w /\ \A m \in Nodes : m # n => work'[m] = work[m]
      /\ work[n].pc \in {"working", "landed"}
  BY <1>1, CapturesEffect DEF Steps, Captures
<1>3. CASE rounds = 0
  BY <1>2, <1>3 DEF RoundInv
<1>4. CASE rounds > 0
  <2>1. n \in Judges /\ Only(n)
    BY <1>2, <1>4, OnlyOneMoves
  <2>2. PICK D \in SUBSET Judges : AgainAtWork(n, D)
    BY <1>2, <1>4, OnlyOneMoves DEF AgainDue
  <2>3. Only(n)'
    BY <1>2, <2>1 DEF Only
  <2>4. \A m \in D : Holds(m, log.newest)'
    BY <1>2, <2>2 DEF AgainAtWork, Holds
  <2>5. Spent(D, 1)'
    BY <1>2, <2>2 DEF AgainAtWork, Spent, Allowance
  <2>6. AgainAtWork(n, D)'
    BY <1>1, <1>2, <2>2, <2>4, <2>5 DEF AgainAtWork
  <2> QED
    BY <1>2, <2>1, <2>3, <2>6 DEF RoundInv, Sending
<1> QED
  BY <1>3, <1>4 DEF RoundInv

\* The close of an invariant marks no other, since nothing ran beside it.
LEMMA RoundEnds ==
    ASSUME TInv, Shape, RoundInv, NEW n \in Nodes, Closes(n)
    PROVE  RoundInv'
<1>1. Ends(n)
  BY ClosesEffect
<1>2. /\ UNCHANGED <<tree, eng, rounds>> /\ eng = "up"
      /\ work[n].pc = "closing" /\ work'[n].pc = "idle"
      /\ \A m \in Nodes : m # n => work'[m] = work[m]
      /\ Closed(log, log', n, work[n].verdict, work[n].tree)
  BY <1>1 DEF Ends, Closes
<1>3. CASE rounds = 0
  BY <1>2, <1>3 DEF RoundInv
<1>4. CASE rounds > 0
  <2>1. n \in Judges /\ n \notin Writers /\ Only(n)
    BY <1>2, <1>4, OnlyOneMoves DEF Writers
  <2>2. PICK D \in SUBSET Judges : AgainAtWork(n, D)
    BY <1>2, <1>4, OnlyOneMoves DEF AgainDue
  <2>3. moved_beside(log, n, work[n].tree) = {}
    <3>1. In(log, "running") \ {n} = {} /\ log.node[n].beside = {}
      BY <2>1, <2>2 DEF Only, In, AgainAtWork
    <3> QED
      BY <3>1 DEF moved_beside
  <2>4. /\ log'.newest = log.newest
        /\ log'.node[n].state = work[n].verdict /\ ~log'.node[n].moved /\ ~log'.node[n].behind
        /\ work[n].verdict = "finished" => log'.node[n].left = work[n].tree
    BY <1>2, <2>1, <2>2 DEF Closed, AgainAtWork
  <2>5. \A m \in Nodes \ {n} : /\ log'.node[m].state = log.node[m].state
                               /\ log'.node[m].left = log.node[m].left
                               /\ log'.node[m].moved = log.node[m].moved
    <3>1. \A m \in Nodes : log.node[m].moved \in BOOLEAN
      BY DEF TInv, Typed, Logs, Records
    <3> QED
      BY <1>2, <2>3, <3>1 DEF Closed
  <2>6. Only(n)'
    BY <1>2, <2>1, <2>5 DEF Only
  <2>7. CASE work[n].verdict = "failed"
    <3>1. AgainFailed(n)'
      BY <1>2, <2>4, <2>7 DEF AgainFailed
    <3> QED
      BY <1>2, <2>1, <2>6, <3>1 DEF RoundInv, Sending
  <2>8. CASE work[n].verdict = "finished"
    <3> DEFINE E == D \cup {n}
    <3>1. E \in SUBSET Judges /\ E \ {n} = D /\ n \in E /\ Cardinality(E) = Cardinality(D) + 1
      BY <2>1, <2>2, JudgeCounts DEF AgainAtWork
    <3>2. \A m \in D : Holds(m, log.newest)'
      BY <2>2, <2>4, <2>5, Constants DEF AgainAtWork, Holds
    <3>3. Spent(E, 0)'
      <4>1. rounds <= Cardinality(D) + 1 + Allowance /\ Allowance' = Allowance
        BY <1>2, <2>2 DEF AgainAtWork, Spent, Allowance
      <4>2. Cardinality(D) \in Nat /\ Allowance \in Nat
        BY JudgeCounts DEF Allowance
      <4> HIDE DEF E
      <4> QED
        BY <1>2, <3>1, <4>1, <4>2 DEF Spent
    <3>4. OneRewriter => E = {n} \/ log'.newest = {tree'}
      BY <1>2, <2>2, <2>4 DEF AgainAtWork
    <3> HIDE DEF E
    <3>5. AgainPassed(n, E)'
      BY <1>2, <2>2, <2>4, <2>8, <3>1, <3>2, <3>3, <3>4 DEF AgainPassed, AgainAtWork
    <3> QED
      BY <1>2, <2>1, <2>6, <3>1, <3>5 DEF RoundInv, Sending
  <2>9. work[n].verdict \in {"finished", "failed"}
    BY <1>2 DEF Shape, Stands
  <2> QED
    BY <2>7, <2>8, <2>9
<1> QED
  BY <1>3, <1>4 DEF RoundInv

\* Where an invariant that ran again failed, a correction or a person is next, and leaves the round.
LEMMA RoundStays ==
    ASSUME TInv, RoundInv, Deciding, \E f \in Nodes : log.node[f].state = "failed",
           UNCHANGED <<work, eng, rounds>>,
           \A m \in Nodes : log'.node[m].state = log.node[m].state
    PROVE  RoundInv'
<1>1. CASE rounds = 0
  BY <1>1 DEF RoundInv
<1>2. CASE rounds > 0
  <2>1. PICK n \in Judges : Only(n) /\ (AgainFailed(n) \/ \E D \in SUBSET Judges : AgainPassed(n, D))
    BY <1>2, AtRestInARound
  <2>2. AgainFailed(n)
    BY <2>1 DEF Only, AgainPassed
  <2>3. Only(n)' /\ AgainFailed(n)'
    BY <2>1, <2>2, Constants DEF Only, AgainFailed
  <2> QED
    BY <2>3 DEF RoundInv, Sending
<1> QED
  BY <1>1, <1>2 DEF RoundInv

\* A failure is sent to its correction only where there is one.
LEMMA ReroutesAFailure ==
    decide(log).do = "Reroute" => \E f \in Nodes : log.node[f].state = "failed"
<1> SUFFICES ASSUME decide(log).do = "Reroute", In(log, "failed") = {} PROVE FALSE
  BY DEF In
<1> DEFINE open == {n \in In(log, "failed") : failure_of(log, n).do # "None"}
<1>1. open = {}
  OBVIOUS
<1>2. decide(log).do \in {"Execute", "Reverify", "Fresh", "Finish"}
  BY <1>1 DEF decide, Decision
<1> QED
  BY <1>2

\* Every step keeps the round.
LEMMA RoundNext ==
    ASSUME TInv, Shape, OneRewriter \/ TwoJudges, RoundInv, [Next]_vars
    PROVE  RoundInv'
<1>z. ASSUME rounds' = 0 PROVE RoundInv'
  BY <1>z, JudgeCounts DEF RoundInv
<1>d. ASSUME rounds' = rounds, eng' # "up" PROVE RoundInv'
  BY <1>d DEF RoundInv
<1>w. ASSUME NEW n \in Nodes, n \in Writers, work[n].pc # "idle", rounds' = rounds
      PROVE  RoundInv'
  <2>1. eng = "up"
    BY <1>w, UnderWay
  <2>2. rounds = 0
    BY <1>w, <2>1, OnlyOneMoves DEF RoundInv, Writers
  <2> QED
    BY <1>w, <1>z, <2>2
<1>1. CASE Executes
  <2>1. CASE decide(log).do = "Reverify"
    BY <1>1, <2>1, RoundReverifies
  <2>2. CASE decide(log).do # "Reverify"
    BY <1>1, <1>z, <2>2 DEF Executes
  <2> QED
    BY <2>1, <2>2
<1>2. CASE Retries \/ Wake
  BY <1>2, <1>z DEF Retries, Wake
<1>3. CASE Parks \/ Finishes \/ Cut
  BY <1>3, <1>d DEF Parks, Finishes, Cut
<1>4. CASE Reroutes
  <2>1. Rerouted
    BY <1>4, ReroutesEffect
  <2>2. \E f \in Nodes : log.node[f].state = "failed"
    BY <1>4, ReroutesAFailure DEF Reroutes
  <2> QED
    BY <1>4, <2>1, <2>2, RoundStays DEF Rerouted, Reroutes
<1>5. CASE PersonEdits
  <2>1. CASE eng = "up"
    <3>1. \E f \in Nodes : log.node[f].state = "failed"
      BY <1>5, <2>1, EscalatesAFailure DEF PersonEdits
    <3> QED
      BY <1>5, <2>1, <3>1, RoundStays DEF PersonEdits, Deciding
  <2>2. CASE eng # "up"
    BY <1>5, <2>2, <1>d DEF PersonEdits
  <2> QED
    BY <2>1, <2>2
<1>6. ASSUME NEW n \in Nodes, Opens(n) \/ Writes(n) \/ Lands(n) \/ FailsUnstopped(n)
      PROVE  RoundInv'
  <2>1. n \in Writers /\ work[n].pc # "idle" /\ rounds' = rounds
    BY <1>6, Constants DEF Opens, Writes, Lands, FailsUnstopped
  <2> QED
    BY <1>w, <2>1
<1>7. ASSUME NEW n \in Nodes, Starts(n) \/ Rewrites(n) \/ Captures(n) \/ Closes(n)
      PROVE  RoundInv'
  BY <1>7, RoundBegins, RoundRewrites, RoundCaptures, RoundEnds
<1>8. CASE UNCHANGED vars
  BY <1>8 DEF vars, RoundInv, Sending, Only, AgainDue, AgainAtWork, AgainPassed, AgainFailed,
              Holds, Spent, Allowance
<1> QED
  BY <1>1, <1>2, <1>3, <1>4, <1>5, <1>6, <1>7, <1>8 DEF Next

\* Invariants that rewrite never send each other round, whatever else happens (reverify.rs), where one
\* alone rewrites, among any number, or there are two in all: of two that rewrite before two others
\* it is false.
THEOREM TreeNeverSentRound ==
    OneRewriter \/ TwoJudges => (Spec => []NeverSentRound)
<1>1. Init => TInv /\ Standing /\ RoundInv
  <2>1. Init => RoundInv
    BY JudgeCounts DEF Init, RoundInv
  <2> QED
    BY <2>1, TypedInit, StandingInit
<1>2. (OneRewriter \/ TwoJudges) /\ TInv /\ Standing /\ RoundInv /\ [Next]_vars
         => (TInv /\ Standing /\ RoundInv)'
  BY StandingNext, RoundNext DEF Standing
<1>3. RoundInv => NeverSentRound
  BY DEF RoundInv, NeverSentRound
<1>4. CASE OneRewriter \/ TwoJudges
  BY <1>1, <1>2, <1>3, <1>4, PTL DEF Spec
<1> QED
  BY <1>4
=============================================================================
