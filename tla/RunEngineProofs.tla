--------------------------- MODULE RunEngineProofs ---------------------------
(***************************************************************************)
(* Proofs about one run: the type of its state, and that its log stays one *)
(* replay reads to its end, for any workflow, policy, faults and bounds.   *)
(* A sequence of events still to append may be cut by a death after any of *)
(* them, so what it will meet on the log is part of the invariant.         *)
(***************************************************************************)
EXTENDS RunEngine, WellFoundedInduction, SequenceTheorems, TLAPS

-----------------------------------------------------------------------------
\* The events that close an attempt, those that may open or move one, and the ends of a run.
Terminals == {"node_finished", "node_failed"}
Openings == {"node_started", "gate_waiting", "gate_resolved"}
Closes == {"done", "failed", "promoted", "cancelled"}

\* The events a log of this model may hold, those about a node, and what one may carry.
Kinds == Terminals \cup Openings \cup
    {"node_rerouted", "questions_asked", "questions_answered", "run_paused",
     "run_resumed", "promotion_signaled", "run_finished"}

OfNodes == Kinds \ {"run_paused", "run_resumed", "promotion_signaled", "run_finished"}

Withs == Causes \cup Waits \cup Options \cup Verdicts \cup Closes
           \cup {"none", "on_failure", "gate_choice", "late", "early"}

\* An event is about a node where its kind says so, and carries what its kind allows.
Events ==
    {e \in [kind : Kinds, node : 0..N, attempt : Nat, with : Withs, to : 0..N] :
        /\ e.kind \in OfNodes => e.node \in Nodes
        /\ e.kind = "node_failed" => e.with \in Causes
        /\ e.kind = "gate_waiting" => e.with \in {"gate", "pr"}
        /\ e.kind = "gate_resolved" => e.with \in Options \cup Verdicts
        /\ e.kind = "node_rerouted" => e.to \in Nodes
        /\ e.kind = "run_finished" => e.with \in Closes}

\* The ledgers of a log of k events: a recorded seq is one of them.
NodeRecord(k) ==
    {r \in [state : NodeStates, cause : Causes \cup {"none"}, attempts : Nat,
            finished : 0..k, failed : 0..k, reroutes : Nat,
            rerouteTo : 0..N, rerouteAt : 0..k, pre : NodeStates] :
        r.rerouteAt > 0 => r.rerouteTo \in Nodes}

GateRecord(k) ==
    [ref : BOOLEAN, waiting : 0..k, at : 0..k, approved : BOOLEAN,
     choice : Options \cup Verdicts \cup {"none"},
     round : {"none", "open", "answered"}, answeredAt : 0..k]

RunRecord(k) ==
    [paused : BOOLEAN, pausedAt : 0..k, awaits : 0..k, late : BOOLEAN,
     tailPaused : BOOLEAN, woken : BOOLEAN, finished : Closes \cup {"no"}]

\* A log is the state some sequence of events derives to (replay.rs).
Recorded(L) ==
    /\ DOMAIN L = {"seq", "broken", "node", "gate", "run"}
    /\ L.seq \in Nat \ {0} /\ L.broken \in BOOLEAN
    /\ L.node \in [Nodes -> NodeRecord(L.seq)]
    /\ L.gate \in [Nodes -> GateRecord(L.seq)]
    /\ L.run \in RunRecord(L.seq)

\* What the engine may put to a person.
Asked(d) ==
    /\ d.do \in {"AskQuestions", "PublishGate", "PollGate", "ResolveInternalGate",
                 "GateExhaustedReroutes", "EscalateFailure"}
    /\ d.node \in Nodes
    /\ d.do = "GateExhaustedReroutes" => Goto[d.node] # 0

\* The type of each part of the state. TypeOK follows from them: `script`, `calls` and `asks`
\* are what a step reads, and TypeOK says nothing of them.
EngineTyped ==
    /\ DOMAIN eng = {"at", "script", "batch", "asks", "human", "forge", "pausing", "cancel"}
    /\ eng.at \in {"down", "wake", "loop", "asking", "ending"}
    /\ eng.script \in Seq(Events)
    /\ eng.batch \in [Nodes -> Nat \cup {Working}]
    /\ eng.at = "asking" => Asked(eng.asks)
    /\ eng.human \in BOOLEAN /\ eng.forge \in BOOLEAN
    /\ eng.pausing \in BOOLEAN /\ eng.cancel \in BOOLEAN

CallsTyped == calls \in [Callers -> Seq(Events)]

Spent == setbacks \in 0..MaxSetbacks /\ wakes \in 0..MaxWakes /\ made \in 0..MaxCalls

Typed == Recorded(log) /\ EngineTyped /\ CallsTyped /\ crashed \in BOOLEAN /\ Spent

\* One actor at a time
Apart ==
    /\ eng.at = "down" => eng = Down
    /\ crashed => eng.at = "down"
    /\ \A c \in Callers : calls[c] # <<>> => eng.at = "down"
    /\ \A b, c \in Callers : calls[b] # <<>> /\ calls[c] # <<>> => b = c

\* What the engine does excludes the rest: it decides, asks or appends only once its batch landed,
\* and what it asks is still what the log decides.
Quiet ==
    /\ eng.script # <<>> => eng.at # "asking" /\ Landed
    /\ ~Landed => eng.at = "loop"
    /\ eng.at = "asking" => eng.asks = decide(log) /\ PutsToAPerson(eng.asks)

\* Nothing is owed to n: no round is open, no answered round waits for its terminal.
Loose(L, n) == L.gate[n].round # "open" /\ ~answered_unfinished(L, n)

\* The ledgers of a log that replay read to its end agree with each other: a round is open exactly
\* while its node waits for the questions, that node was running, an answered round's node runs
\* again, and only a gate waits on a published review.
Ledger(L) ==
    \A n \in Nodes :
        /\ (L.gate[n].round = "open") <=> (State(L, n) = "questions")
        /\ State(L, n) = "questions" => L.node[n].pre = "running"
        /\ L.gate[n].round # "none" => Kind[n] = "asks"
        /\ answered_unfinished(L, n) => State(L, n) = "running"
        /\ L.node[n].pre # "questions"
        /\ "pr" \in {State(L, n), L.node[n].pre} => is_gate(n)

\* A session runs only over a running node, and an attempt not started yet may be: its node owes
\* nothing, and is started over a running one only where that is allowed.
AtWork ==
    \A n \in Nodes :
        /\ eng.batch[n] = Working => State(log, n) = "running"
        /\ eng.batch[n] > 0 =>
              /\ Loose(log, n)
              /\ State(log, n) = "running" => (is_gate(n) \/ OnInterrupt[n] = "restart_node")

\* The i-th event of s is of this kind and about n.
Is(s, i, kind, n) == i \in 1..Len(s) /\ s[i].kind = kind /\ s[i].node = n

\* n is running when the i-th event of s comes
Open(L, s, i, n) ==
    \/ i = 1 /\ State(L, n) = "running"
    \/ Is(s, i - 1, "node_started", n)

\* The resolution before the i-th event of s gives n back the attempt its wait interrupted.
Restored(L, s, i, n) ==
    /\ Is(s, i - 1, "gate_resolved", n)
    /\ \/ Open(L, s, i - 1, n)
       \/ i = 2 /\ State(L, n) \in Waits /\ L.node[n].pre = "running"
       \/ Is(s, i - 2, "gate_waiting", n) /\ Open(L, s, i - 2, n)

\* What an actor has still to append fits the log it will meet: every terminal closes the attempt its
\* own start, or the resolution of its wait, left open.
Sound(L, s) ==
    \A i \in 1..Len(s) :
        LET n == s[i].node
        IN  /\ s[i].kind \in Terminals => Open(L, s, i, n) \/ Restored(L, s, i, n)
            /\ s[i].kind \in Openings => Loose(L, n)
            /\ s[i].kind = "node_started" => is_gate(n)
            /\ s[i].kind = "gate_waiting" /\ s[i].with = "pr" => is_gate(n)
            /\ s[i].kind = "questions_answered" =>
                  Len(s) = 1 /\ L.gate[n].round = "open"
            /\ s[i].kind # "questions_asked"

\* The engine and the calls hold such events only.
Scripted == Sound(log, eng.script) /\ \A c \in Callers : Sound(log, calls[c])

-----------------------------------------------------------------------------
\* A nonempty set of nodes has a first in declaration order.
LEMMA FirstIsLeast ==
  ASSUME NEW S \in SUBSET Nodes, S # {}
  PROVE  First(S) \in S /\ \A k \in S : First(S) <= k
  <1> DEFINE Less == {ss \in Nat \X Nat : ss[1] < ss[2]}
  <1>1. IsWellFoundedOn(OpToRel(<, Nat), Nat)
    BY NatLessThanWellFounded
  <1>2. IsWellFoundedOn(Less, Nat)
    BY <1>1 DEF OpToRel
  <1>3. S \in SUBSET Nat
    BY NAssumption DEF Nodes
  <1>4. \E x \in S : \A y \in S : ~ (<<y, x>> \in Less)
    <2> HIDE DEF Less
    <2>1. QED
      BY <1>2, <1>3, WFMin
  <1>5. PICK x \in S : \A y \in S : ~ (<<y, x>> \in Less)
    BY <1>4
  <1>6. ASSUME NEW y \in S PROVE x <= y
    <2>1. <<y, x>> \in Nat \X Nat /\ <<y, x>>[1] = y /\ <<y, x>>[2] = x
      BY <1>3
    <2>2. ~(y < x)
      BY <1>5, <2>1
    <2>3. QED
      BY <2>2, <1>3
  <1>7. QED
    BY <1>6 DEF First

-----------------------------------------------------------------------------
\* An event about a node, and the failure a pause awaits the reset of.
About(e) == e.node # 0 /\ e.kind # "run_paused"

Awaited(L, e) == IF e.node = 0 THEN 0 ELSE L.node[e.node].failed

\* An event about a node names one.
LEMMA AboutNodes ==
  ASSUME NEW e \in Events
  PROVE  About(e) => e.node \in Nodes
  BY NAssumption DEF About, Events, Nodes

\* M is the log L with the event e read behind it, one ledger at a time.
Reads(L, e, M) ==
    /\ DOMAIN M = {"seq", "broken", "node", "gate", "run"}
    /\ M.seq = L.seq + 1 /\ M.broken = FALSE
    /\ M.run = [apply_run(L.run, e, L.seq + 1, Awaited(L, e))
                  EXCEPT !.tailPaused = (e.kind = "run_paused"),
                         !.woken = @ \/ About(e)]
    /\ M.node = [n \in Nodes |->
          IF About(e) /\ n = e.node
          THEN apply_node(L.node[n], e, L.seq + 1) ELSE L.node[n]]
    /\ M.gate = [n \in Nodes |->
          IF About(e) /\ n = e.node
          THEN apply_gate(L.gate[n], e, L.seq + 1) ELSE L.gate[n]]

\* An event the log takes is read that way.
LEMMA Applied ==
  ASSUME NEW L, Recorded(L), ~L.broken, NEW e \in Events, ~refuse(L, e)
  PROVE  Reads(L, e, apply(L, e))
  <1> DEFINE M == apply(L, e)
  <1>1. M = [seq    |-> L.seq + 1,
             broken |-> FALSE,
             node   |-> IF About(e) THEN [L.node EXCEPT ![e.node] = apply_node(@, e, L.seq + 1)]
                                    ELSE L.node,
             gate   |-> IF About(e) THEN [L.gate EXCEPT ![e.node] = apply_gate(@, e, L.seq + 1)]
                                    ELSE L.gate,
             run    |-> [apply_run(L.run, e, L.seq + 1, Awaited(L, e))
                            EXCEPT !.tailPaused = (e.kind = "run_paused"),
                                   !.woken = @ \/ About(e)]]
    BY DEF apply, About, Awaited
  <1>2. L.node = [n \in Nodes |-> L.node[n]] /\ L.gate = [n \in Nodes |-> L.gate[n]]
    BY DEF Recorded
  <1>3. M.node = [n \in Nodes |->
               IF About(e) /\ n = e.node
               THEN apply_node(L.node[n], e, L.seq + 1) ELSE L.node[n]]
    <2>1. M.node = IF About(e) THEN [L.node EXCEPT ![e.node] = apply_node(@, e, L.seq + 1)]
                                    ELSE L.node
      BY <1>1
    <2>2. QED
      BY <1>2, <2>1
  <1>4. M.gate = [n \in Nodes |->
               IF About(e) /\ n = e.node
               THEN apply_gate(L.gate[n], e, L.seq + 1) ELSE L.gate[n]]
    <2>1. M.gate = IF About(e) THEN [L.gate EXCEPT ![e.node] = apply_gate(@, e, L.seq + 1)]
                                    ELSE L.gate
      BY <1>1
    <2>2. QED
      BY <1>2, <2>1
  <1> HIDE DEF M
  <1>5. QED
    BY <1>1, <1>3, <1>4 DEF Reads, M

\* Reading an event keeps the type of the record of its node, of its gate and of the run.
LEMMA NodeTyped ==
  ASSUME NEW k \in Nat, NEW r \in NodeRecord(k), NEW e \in Events, About(e), NEW seq \in 0..k
  PROVE  apply_node(r, e, seq) \in NodeRecord(k)
  <1>2. CASE e.kind = "node_started"
    BY <1>2 DEF apply_node, NodeRecord, Events, NodeStates
  <1>3. CASE e.kind = "node_finished"
    BY <1>3 DEF apply_node, NodeRecord, Events, NodeStates
  <1>4. CASE e.kind = "node_failed"
    BY <1>4 DEF apply_node, NodeRecord, Events, NodeStates
  <1>5. CASE e.kind = "node_rerouted"
    <2> DEFINE much == IF e.with = "on_failure" THEN r.reroutes + 1 ELSE r.reroutes
    <2>1. e.to \in Nodes /\ e.to \in 0..N
      BY <1>5 DEF Events
    <2>2. much \in Nat
      BY DEF NodeRecord
    <2>3. e.kind \notin {"node_started", "node_finished", "node_failed"}
      BY <1>5
    <2>4. apply_node(r, e, seq) =
            [r EXCEPT !.reroutes = much, !.rerouteTo = e.to, !.rerouteAt = seq]
      BY <1>5, <2>3, Zenon DEF apply_node
    <2> HIDE DEF much
    <2>5. QED
      BY <2>1, <2>2, <2>4 DEF NodeRecord
  <1>6. CASE e.kind = "gate_waiting"
    BY <1>6 DEF apply_node, park, NodeRecord, Events, NodeStates, Waits
  <1>7. CASE e.kind = "gate_resolved"
    BY <1>7 DEF apply_node, unpark, NodeRecord, Events, NodeStates
  <1>8. CASE e.kind = "questions_asked"
    BY <1>8 DEF apply_node, park, NodeRecord, Events, NodeStates, Waits
  <1>9. CASE e.kind = "questions_answered"
    BY <1>9 DEF apply_node, unpark, NodeRecord, Events, NodeStates
  <1>10. CASE e.kind \notin OfNodes
    BY <1>10 DEF apply_node, OfNodes, Kinds, Terminals, Openings, Events
  <1>11. QED
    BY <1>2, <1>3, <1>4, <1>5, <1>6, <1>7, <1>8, <1>9, <1>10
       DEF OfNodes, Kinds, Terminals, Openings, Events

LEMMA GateTyped ==
  ASSUME NEW k \in Nat, NEW g \in GateRecord(k), NEW e \in Events, NEW seq \in 0..k
  PROVE  apply_gate(g, e, seq) \in GateRecord(k)
  <1>1. ASSUME NEW ref \in BOOLEAN, NEW approved \in BOOLEAN, NEW with \in Options \cup Verdicts
        PROVE  /\ [g EXCEPT !.waiting = seq, !.ref = ref] \in GateRecord(k)
               /\ [g EXCEPT !.waiting = 0, !.choice = with, !.at = seq,
                            !.approved = approved, !.ref = ref] \in GateRecord(k)
    <2>1. [g EXCEPT !.waiting = seq, !.ref = ref] \in GateRecord(k)
      BY DEF GateRecord
    <2>2. ASSUME NEW zero \in 0..k, NEW w \in Options \cup Verdicts \cup {"none"}
          PROVE [g EXCEPT !.waiting = zero, !.choice = w, !.at = seq,
                            !.approved = approved, !.ref = ref] \in GateRecord(k)
      BY DEF GateRecord
    <2>3. 0 \in 0..k
      OBVIOUS
    <2>4. QED
      BY <2>1, <2>2, <2>3
  <1>2. CASE e.kind = "gate_waiting"
    <2>1. (g.ref \/ e.with = "pr") \in BOOLEAN
      OBVIOUS
    <2>2. e.kind = "gate_waiting" =>
            apply_gate(g, e, seq) = [g EXCEPT !.waiting = seq, !.ref = (g.ref \/ e.with = "pr")]
      BY Zenon DEF apply_gate
    <2>3. QED
      BY <1>1, <1>2, <2>1, <2>2 DEF Options
  <1>3. CASE e.kind = "gate_resolved"
    <2> DEFINE approved == g.approved \/ e.with = "approved"
               ref == g.ref /\ e.with \notin {"changes", "closed"}
    <2>1. approved \in BOOLEAN /\ ref \in BOOLEAN
      OBVIOUS
    <2>2. e.with \in Options \cup Verdicts
      BY <1>3 DEF Events
    <2>3. e.kind # "gate_waiting"
      BY <1>3
    <2>4. apply_gate(g, e, seq) = [g EXCEPT !.waiting = 0, !.choice = e.with, !.at = seq,
                      !.approved = approved, !.ref = ref]
      BY <1>3, <2>3, Zenon DEF apply_gate
    <2> HIDE DEF approved, ref
    <2>5. [g EXCEPT !.waiting = 0, !.choice = e.with, !.at = seq,
                    !.approved = approved, !.ref = ref] \in GateRecord(k)
      BY <1>1, <2>1, <2>2, Zenon
    <2>6. QED
      BY <2>4, <2>5, Zenon
  <1>4. CASE e.kind = "questions_asked"
    <2>1. ASSUME NEW zero \in 0..k
          PROVE [g EXCEPT !.round = "open", !.answeredAt = zero] \in GateRecord(k)
      BY DEF GateRecord
    <2>2. 0 \in 0..k
      OBVIOUS
    <2>3. apply_gate(g, e, seq) = [g EXCEPT !.round = "open", !.answeredAt = 0]
      BY <1>4 DEF apply_gate
    <2>4. QED
      BY <2>1, <2>2, <2>3
  <1>5. CASE e.kind = "questions_answered"
    BY <1>5 DEF apply_gate, GateRecord
  <1>6. QED
    BY <1>2, <1>3, <1>4, <1>5 DEF apply_gate

LEMMA RunTyped ==
  ASSUME NEW k \in Nat, NEW r \in RunRecord(k), NEW e \in Events, NEW a \in 0..k, NEW seq \in 0..k
  PROVE  apply_run(r, e, seq, a) \in RunRecord(k)
  <1>2. CASE e.kind = "run_paused"
    BY <1>2 DEF apply_run, RunRecord
  <1>3. CASE e.kind = "run_resumed"
    <2>1. ASSUME NEW late \in BOOLEAN
          PROVE  [r EXCEPT !.paused = FALSE, !.late = late, !.woken = TRUE] \in RunRecord(k)
      BY DEF RunRecord
    <2>2. e.kind # "run_paused"
      BY <1>3
    <2>3. apply_run(r, e, seq, a) =
            [r EXCEPT !.paused = FALSE, !.late = (e.with = "late"), !.woken = TRUE]
      BY <1>3, <2>2, Zenon DEF apply_run
    <2>4. QED
      BY <2>1, <2>3
  <1>4. CASE e.kind = "run_finished"
    BY <1>4 DEF apply_run, RunRecord, Events
  <1>5. QED
    BY <1>2, <1>3, <1>4 DEF apply_run

\* A log stays typed.
LEMMA AppliedRecorded ==
  ASSUME NEW L, Recorded(L), NEW e \in Events
  PROVE  Recorded(apply(L, e))
  <1> DEFINE M == apply(L, e)
  <1>1. CASE L.broken
    BY <1>1 DEF apply
  <1>2. CASE ~L.broken /\ refuse(L, e)
    <2>1. M = [L EXCEPT !.broken = TRUE]
      BY <1>2, Zenon DEF apply
    <2>2. QED
      BY <2>1 DEF Recorded
  <1>3. CASE ~L.broken /\ ~refuse(L, e)
    <2> DEFINE k == L.seq + 1
    <2>1. Reads(L, e, M)
      BY <1>3, Applied
    <2> HIDE DEF M
    <2>12. /\ DOMAIN M = {"seq", "broken", "node", "gate", "run"}
          /\ M.seq = k /\ M.broken = FALSE
          /\ M.node = [n \in Nodes |->
                IF About(e) /\ n = e.node THEN apply_node(L.node[n], e, k) ELSE L.node[n]]
          /\ M.gate = [n \in Nodes |->
                IF About(e) /\ n = e.node THEN apply_gate(L.gate[n], e, k) ELSE L.gate[n]]
      BY <2>1, Zenon DEF Reads
    <2>2. /\ L.seq \in Nat \ {0} /\ L.node \in [Nodes -> NodeRecord(L.seq)]
          /\ L.gate \in [Nodes -> GateRecord(L.seq)] /\ L.run \in RunRecord(L.seq)
      BY DEF Recorded
    <2>3. k \in Nat \ {0} /\ k \in 0..k /\ 0..L.seq \subseteq 0..k
      BY <2>2
    <2>4. /\ NodeRecord(L.seq) \subseteq NodeRecord(k)
          /\ GateRecord(L.seq) \subseteq GateRecord(k)
          /\ RunRecord(L.seq) \subseteq RunRecord(k)
      <3> HIDE DEF k
      <3>1. QED
        BY <2>3 DEF NodeRecord, GateRecord, RunRecord
    <2> HIDE DEF k
    <2>5. \A n \in Nodes : M.node[n] \in NodeRecord(k)
      BY <2>12, <2>2, <2>3, <2>4, NodeTyped
    <2>6. \A n \in Nodes : M.gate[n] \in GateRecord(k)
      BY <2>12, <2>2, <2>3, <2>4, GateTyped
    <2>7. Awaited(L, e) \in 0..k
      <3>1. e.node \in 0..N
        BY DEF Events
      <3>2. e.node # 0 => e.node \in Nodes
        BY <3>1, NAssumption DEF Nodes
      <3>3. QED
        BY <2>2, <2>3, <3>2 DEF Awaited, NodeRecord
    <2>8. apply_run(L.run, e, k, Awaited(L, e)) \in RunRecord(k)
      BY <2>2, <2>3, <2>4, <2>7, RunTyped
    <2>9. M.run \in RunRecord(k)
      <3>1. ASSUME NEW r \in RunRecord(k), NEW tail \in BOOLEAN, NEW woke \in BOOLEAN
            PROVE  [r EXCEPT !.tailPaused = tail, !.woken = woke] \in RunRecord(k)
        BY DEF RunRecord
      <3> DEFINE r == apply_run(L.run, e, k, Awaited(L, e))
      <3>2. M.run = [r EXCEPT !.tailPaused = (e.kind = "run_paused"),
                              !.woken = (r.woken \/ About(e))]
        BY <2>1, Zenon DEF Reads, k
      <3>3. (e.kind = "run_paused") \in BOOLEAN /\ (r.woken \/ About(e)) \in BOOLEAN
        OBVIOUS
      <3> HIDE DEF r
      <3>4. QED
        BY <2>8, <3>1, <3>2, <3>3, Zenon DEF r
    <2>10. M.node \in [Nodes -> NodeRecord(k)] /\ M.gate \in [Nodes -> GateRecord(k)]
      BY <2>12, <2>5, <2>6
    <2>11. QED
      <3>1. M.seq \in Nat \ {0} /\ M.broken \in BOOLEAN
        BY <2>12, <2>3
      <3>2. QED
        BY <2>12, <2>9, <2>10, <3>1, Zenon DEF Recorded, M
  <1>4. QED
    BY <1>1, <1>2, <1>3
-----------------------------------------------------------------------------
\* Past the questions before a failure's: nobody runs, waits or owes a terminal.
Settled(L) ==
    \A n \in Nodes : /\ State(L, n) \in {"none", "finished", "failed"}
                     /\ ~answered_unfinished(L, n)

\* What each question of the scheduler may decide: a gate is driven,
OnGate(d) ==
    d.do \in {"PollGate", "PublishGate", "ResolveInternalGate"} /\ d.node \in Nodes /\ is_gate(d.node)

\* a node that waits is asked about,
OnWait(L, d) ==
    /\ d.node \in Nodes
    /\ \/ d.do = "ResolveInternalGate" /\ State(L, d.node) = "gate"
       \/ d.do = "AskQuestions" /\ State(L, d.node) = "questions"
       \/ d.do = "PollGate" /\ State(L, d.node) = "pr"

\* an answered round is finished,
OnAnswer(L, d) == d.do = "FinishAnswered" /\ d.node \in Nodes /\ answered_unfinished(L, d.node)

\* nodes that nothing waits for start at their next attempt,
OnBatch(L, d) ==
    /\ d.do = "Execute" /\ DOMAIN d.batch \in SUBSET Nodes
    /\ \A n \in DOMAIN d.batch :
          /\ d.batch[n] \in Nat \ {0}
          /\ State(L, n) \notin Waits /\ ~answered_unfinished(L, n)
          /\ State(L, n) = "running" => OnInterrupt[n] = "restart_node"

\* a failed node is rerouted, asked about or given up,
OnFailed(L, d) ==
    /\ Settled(L)
    /\ d.node \in Nodes /\ State(L, d.node) = "failed"
    /\ \/ d.do = "Reroute" /\ Goto[d.node] # 0 /\ L.node[d.node].reroutes < MaxReroutes
       \/ d.do = "GateExhaustedReroutes" /\ Goto[d.node] # 0
       \/ d.do \in {"EscalateFailure", "WaitUntil", "Fail"}

\* or the run pauses, or finishes with nobody at work.
OnNone(L, d) ==
    \/ d = Decision("Pause", 0)
    \/ d = Decision("Finish", 0) /\ Settled(L)

\* One of these is decided.
Decided(L, d) ==
    \/ OnGate(d) \/ OnWait(L, d) \/ OnAnswer(L, d) \/ OnBatch(L, d)
    \/ OnFailed(L, d) \/ OnNone(L, d)

\* Each question answers within its kind or passes the log on with what it rules out.
LEMMA DriveGate ==
  ASSUME NEW L, NEW n \in Nodes, is_gate(n)
  PROVE  OnGate(drive_gate(L, n)) /\ drive_gate(L, n) # Nothing
  BY DEF drive_gate, Decision, OnGate, Nothing

\* No answer of the gates leaves no gate at work (schedule.rs, gate_step).
LEMMA GateStep ==
  ASSUME NEW L
  PROVE  IF gate_step(L) = Nothing
         THEN \A n \in Nodes : is_gate(n) => State(L, n) # "running"
         ELSE OnGate(gate_step(L))
  <1> DEFINE open == {n \in Nodes : is_gate(n) /\ State(L, n) = "running"}
  <1>1. CASE open = {}
    BY <1>1 DEF gate_step
  <1>2. CASE open # {}
    <2>1. First(open) \in open
      BY <1>2, FirstIsLeast
    <2>2. gate_step(L) = drive_gate(L, First(open))
      BY <1>2 DEF gate_step
    <2>3. QED
      BY <2>1, <2>2, DriveGate
  <1>3. QED
    BY <1>1, <1>2

\* No answer of the waits leaves nobody waiting (waiting_step).
LEMMA WaitingStep ==
  ASSUME NEW L
  PROVE  IF waiting_step(L) = Nothing
         THEN \A n \in Nodes : State(L, n) \notin Waits
         ELSE OnWait(L, waiting_step(L)) \/ OnGate(waiting_step(L))
  <1> DEFINE parked == {n \in Nodes : State(L, n) \in Waits}
             n == First(parked)
  <1>1. CASE parked = {}
    BY <1>1 DEF waiting_step
  <1>2. CASE parked # {}
    <2>1. n \in parked
      BY <1>2, FirstIsLeast
    <2>2. waiting_step(L) =
            Decision(CASE State(L, n) = "questions" -> "AskQuestions"
                       [] State(L, n) = "pr" -> "PollGate"
                       [] State(L, n) = "gate" /\ Kind[n] = "external" -> "PublishGate"
                       [] OTHER -> "ResolveInternalGate", n)
      BY <1>2 DEF waiting_step
    <2>3. n \in Nodes /\ State(L, n) \in Waits
      BY <2>1
    <2> HIDE DEF n
    <2>4. waiting_step(L).do # "Nothing"
      BY <2>2, <2>3 DEF Decision, Waits
    <2>5. waiting_step(L) # Nothing
      BY <2>4 DEF Nothing, Decision
    <2>6. OnWait(L, waiting_step(L)) \/ OnGate(waiting_step(L))
      BY <2>2, <2>3 DEF Decision, Waits, OnWait, OnGate, is_gate
    <2>7. QED
      BY <2>5, <2>6
  <1>3. QED
    BY <1>1, <1>2

\* No answer of the answered rounds leaves none without its terminal (answered_step).
LEMMA AnsweredStep ==
  ASSUME NEW L
  PROVE  IF answered_step(L) = Nothing
         THEN \A n \in Nodes : ~answered_unfinished(L, n)
         ELSE OnAnswer(L, answered_step(L))
  <1> DEFINE owed == {n \in Nodes : answered_unfinished(L, n)}
  <1>1. CASE owed = {}
    BY <1>1 DEF answered_step
  <1>2. CASE owed # {}
    <2>1. First(owed) \in owed
      BY <1>2, FirstIsLeast
    <2>2. answered_step(L) = Decision("FinishAnswered", First(owed))
      BY <1>2 DEF answered_step
    <2>3. OnAnswer(L, answered_step(L)) /\ answered_step(L) # Nothing
      BY <2>1, <2>2 DEF Decision, OnAnswer, Nothing
    <2>4. QED
      BY <2>3
  <1>3. QED
    BY <1>1, <1>2

\* Attempts count from one.
LEMMA NextAttempt ==
  ASSUME NEW L, Recorded(L), NEW n \in Nodes
  PROVE  next_attempt(L, n) \in Nat \ {0}
  BY DEF next_attempt, Recorded, NodeRecord

\* A batch is an answer.
LEMMA ExecuteIsNotNothing ==
  ASSUME NEW batch
  PROVE  Execute(batch) # Nothing /\ Execute(batch).do = "Execute" /\ Execute(batch).batch = batch
  BY DEF Execute, Nothing, Decision

\* No answer of the orphans leaves nobody at work (orphan_step).
LEMMA OrphanStep ==
  ASSUME NEW L, Recorded(L), \A n \in Nodes : State(L, n) \notin Waits /\ ~answered_unfinished(L, n)
  PROVE  IF orphan_step(L) = Nothing
         THEN \A n \in Nodes : ~is_gate(n) => State(L, n) # "running"
         ELSE OnBatch(L, orphan_step(L)) \/ OnNone(L, orphan_step(L))
  <1> DEFINE batch == [n \in orphans(L) |-> next_attempt(L, n)]
  <1>1. CASE orphans(L) = {}
    BY <1>1 DEF orphan_step, orphans
  <1>2. CASE orphans(L) # {} /\ \E n \in orphans(L) : OnInterrupt[n] = "fail_if_uncertain"
    BY <1>2 DEF orphan_step, OnNone, Decision, Nothing
  <1>3. CASE orphans(L) # {} /\ ~ \E n \in orphans(L) : OnInterrupt[n] = "fail_if_uncertain"
    <2>1. orphan_step(L) = Execute(batch)
      BY <1>3 DEF orphan_step
    <2>2. orphans(L) \in SUBSET Nodes
      BY DEF orphans
    <2>3. \A n \in orphans(L) : OnInterrupt[n] = "restart_node"
      BY <1>3, <2>2, WorkflowAssumption
    <2>4. \A n \in orphans(L) : batch[n] \in Nat \ {0}
      BY <2>2, NextAttempt
    <2>5. DOMAIN batch = orphans(L)
      OBVIOUS
    <2> HIDE DEF batch
    <2>6. QED
      BY <2>1, <2>2, <2>3, <2>4, <2>5, ExecuteIsNotNothing DEF OnBatch
  <1>4. QED
    BY <1>1, <1>2, <1>3

-----------------------------------------------------------------------------
\* One settled node that starts again is a batch.
LEMMA OneAgain ==
  ASSUME NEW L, Recorded(L), Settled(L), NEW n \in Nodes
  PROVE  LET d == Execute([k \in {n} |-> next_attempt(L, n)])
         IN  OnBatch(L, d) /\ d # Nothing
  <1> DEFINE batch == [k \in {n} |-> next_attempt(L, n)]
  <1>1. DOMAIN batch = {n} /\ batch[n] \in Nat \ {0}
    BY NextAttempt
  <1> HIDE DEF batch
  <1>2. QED
    BY <1>1, ExecuteIsNotNothing DEF OnBatch, Settled, Waits, batch

\* A failure that was not rerouted (failure.rs).
LEMMA Unrerouted ==
  ASSUME NEW L, Recorded(L), Settled(L), NEW n \in Nodes, State(L, n) = "failed"
  PROVE  LET d == unrerouted(L, n)
         IN  d = Nothing \/ OnBatch(L, d) \/ OnFailed(L, d) \/ OnNone(L, d)
  <1> DEFINE again == Execute([k \in {n} |-> next_attempt(L, n)])
  <1>1. OnBatch(L, again)
    BY OneAgain
  <1>2. paused_failure(L, n) \in {again, Decision("WaitUntil", n), Decision("Pause", 0),
                                  Decision("EscalateFailure", n)}
    <2> HIDE DEF again
    <2>1. QED
      BY DEF paused_failure, again
  <1> HIDE DEF again
  <1>3. unrerouted(L, n) \in {paused_failure(L, n), Decision("Fail", n), Nothing} \/
        /\ Goto[n] # 0
        /\ unrerouted(L, n) = Decision(IF L.node[n].reroutes < MaxReroutes THEN "Reroute"
                  ELSE "GateExhaustedReroutes", n)
    BY DEF unrerouted
  <1>4. \A d : d \in {Decision("WaitUntil", n), Decision("EscalateFailure", n), Decision("Fail", n)}
          => OnFailed(L, d)
    BY DEF OnFailed, Decision
  <1>5. Goto[n] # 0 => OnFailed(L, Decision(IF L.node[n].reroutes < MaxReroutes THEN "Reroute"
                  ELSE "GateExhaustedReroutes", n))
    BY DEF OnFailed, Decision
  <1>6. OnNone(L, Decision("Pause", 0))
    BY DEF OnNone
  <1>7. QED
    BY <1>1, <1>2, <1>3, <1>4, <1>5, <1>6

\* A failure that was rerouted: its correction, what is stale, or the node again.
LEMMA AfterReroute ==
  ASSUME NEW L, Recorded(L), Settled(L), NEW n \in Nodes,
         L.node[n].rerouteAt > L.node[n].failed
  PROVE  LET d == after_reroute(L, n)
         IN  d = Nothing \/ OnBatch(L, d) \/ OnGate(d)
  <1> DEFINE to == L.node[n].rerouteTo
             stale == stale_between(L, to, n)
             again == IF stale = {} THEN n ELSE First(stale)
  <1>1. to \in Nodes
    BY DEF Recorded, NodeRecord
  <1>2. stale \in SUBSET Nodes
    BY DEF stale_between, between
  <1>3. again \in Nodes
    <2>1. stale # {} => First(stale) \in stale
      BY <1>2, FirstIsLeast
    <2>2. QED
      BY <1>2, <2>1
  <1>4. after_reroute(L, n) \in
          {Nothing, drive_gate(L, again), Execute([k \in {again} |-> next_attempt(L, again)]),
           Execute([k \in {to} |-> next_attempt(L, to)])}
        /\ (after_reroute(L, n) = drive_gate(L, again) =>
              is_gate(again) \/ after_reroute(L, n) \in {Nothing,
                Execute([k \in {again} |-> next_attempt(L, again)]),
                Execute([k \in {to} |-> next_attempt(L, to)])})
    BY DEF after_reroute
  <1> HIDE DEF to, again, stale
  <1>5. QED
    BY <1>1, <1>3, <1>4, OneAgain, DriveGate

\* The failures together, the first that answers.
LEMMA FailureStep ==
  ASSUME NEW L, Recorded(L), Settled(L)
  PROVE  LET d == failure_step(L)
         IN  d = Nothing \/ OnBatch(L, d) \/ OnGate(d) \/ OnFailed(L, d) \/ OnNone(L, d)
  <1> DEFINE open == {n \in Nodes : State(L, n) = "failed" /\ failure_of(L, n) # Nothing}
  <1>1. CASE open = {}
    BY <1>1 DEF failure_step
  <1>2. CASE open # {}
    <2>1. First(open) \in open
      BY <1>2, FirstIsLeast
    <2>2. failure_step(L) = failure_of(L, First(open))
      BY <1>2 DEF failure_step
    <2>3. QED
      BY <2>1, <2>2, Unrerouted, AfterReroute DEF failure_of
  <1>3. QED
    BY <1>1, <1>2

\* What is ready, or how the run ends (ready.rs).
LEMMA ReadyBatch ==
  ASSUME NEW L, Recorded(L), Settled(L)
  PROVE  LET d == ready_batch(L)
         IN  OnBatch(L, d) \/ OnGate(d) \/ OnFailed(L, d) \/ OnNone(L, d)
  <1>1. CASE ready_gates(L) # {}
    <2>1. ready_gates(L) \in SUBSET Nodes /\ \A n \in ready_gates(L) : is_gate(n)
      BY DEF ready_gates, ready
    <2>2. First(ready_gates(L)) \in ready_gates(L)
      BY <1>1, <2>1, FirstIsLeast
    <2>3. ready_batch(L) = drive_gate(L, First(ready_gates(L)))
      BY <1>1 DEF ready_batch
    <2>4. QED
      BY <2>1, <2>2, <2>3, DriveGate
  <1>2. CASE ready_gates(L) = {} /\ ready_nodes(L) # {}
    <2> DEFINE batch == [n \in ready_nodes(L) |-> 1]
    <2>1. ready_nodes(L) \in SUBSET Nodes
      BY DEF ready_nodes, ready
    <2>2. ready_batch(L) = Execute(batch)
      BY <1>2 DEF ready_batch
    <2>3. DOMAIN batch = ready_nodes(L) /\ \A n \in ready_nodes(L) : batch[n] = 1
      OBVIOUS
    <2> HIDE DEF batch
    <2>4. QED
      BY <2>1, <2>2, <2>3, ExecuteIsNotNothing DEF OnBatch, Settled, Waits
  <1>3. CASE ready_gates(L) = {} /\ ready_nodes(L) = {}
    <2> DEFINE failed == {n \in Nodes : State(L, n) = "failed"}
    <2>1. ready_batch(L) = nothing_runnable(L)
      BY <1>3 DEF ready_batch
    <2>2. failed # {} => First(failed) \in failed
      BY FirstIsLeast
    <2>3. \/ OnNone(L, nothing_runnable(L))
          \/ failed # {} /\ nothing_runnable(L) = Decision("Fail", First(failed))
      BY DEF nothing_runnable, OnNone
    <2>4. failed # {} => OnFailed(L, Decision("Fail", First(failed)))
      BY <2>2 DEF OnFailed, Decision
    <2>5. QED
      BY <2>1, <2>3, <2>4
  <1>4. QED
    BY <1>1, <1>2, <1>3

\* `decide` answers one of the kinds above for every log replay can read.
LEMMA Decides ==
  ASSUME NEW L, Recorded(L), ~L.broken
  PROVE  Decided(L, decide(L))
  <1>1. decide(L) = or_else(gate_step(L), or_else(waiting_step(L), or_else(answered_step(L),
         or_else(orphan_step(L), or_else(failure_step(L), ready_batch(L))))))
    BY DEF decide
  <1>2. CASE gate_step(L) # Nothing
    BY <1>1, <1>2, GateStep DEF or_else, Decided
  <1>3. CASE gate_step(L) = Nothing /\ waiting_step(L) # Nothing
    BY <1>1, <1>3, WaitingStep DEF or_else, Decided
  <1>4. CASE gate_step(L) = Nothing /\ waiting_step(L) = Nothing /\ answered_step(L) # Nothing
    BY <1>1, <1>4, AnsweredStep DEF or_else, Decided
  <1>5. CASE /\ gate_step(L) = Nothing /\ waiting_step(L) = Nothing
             /\ answered_step(L) = Nothing
    <2>1. \A n \in Nodes : State(L, n) \notin Waits /\ ~answered_unfinished(L, n)
      BY <1>5, WaitingStep, AnsweredStep
    <2>2. CASE orphan_step(L) # Nothing
      BY <1>1, <1>5, <2>1, <2>2, OrphanStep DEF or_else, Decided
    <2>3. CASE orphan_step(L) = Nothing
      <3>1. \A n \in Nodes : State(L, n) # "running"
        BY <1>5, <2>1, <2>3, GateStep, OrphanStep
      <3>2. Settled(L)
        BY <2>1, <3>1 DEF Settled, State, Recorded, NodeRecord, NodeStates, Waits
      <3>3. decide(L) \in {failure_step(L), ready_batch(L)}
            /\ (decide(L) = Nothing => decide(L) = ready_batch(L))
        BY <1>1, <1>5, <2>3 DEF or_else
      <3>4. QED
        BY <3>2, <3>3, FailureStep, ReadyBatch DEF Decided
    <2>4. QED
      BY <2>2, <2>3
  <1>6. QED
    BY <1>2, <1>3, <1>4, <1>5
-----------------------------------------------------------------------------
\* What the engine and the calls say is an event.
LEMMA NodeEvents ==
  ASSUME NEW n \in Nodes
  PROVE  /\ \A k \in Nat : Started(n, k) \in Events
         /\ Finished(n) \in Events /\ QuestionsAsked(n) \in Events
         /\ QuestionsAnswered(n) \in Events
         /\ \A cause \in Causes : Failed(n, cause) \in Events
         /\ \A on \in {"gate", "pr"} : Waiting(n, on) \in Events
         /\ \A how \in Options \cup Verdicts : Resolved(n, how) \in Events
         /\ \A to \in Nodes : \A origin \in {"on_failure", "gate_choice"} :
               Rerouted(n, to, origin) \in Events
  <1> USE NAssumption DEF Nodes
  <1>1. n \in 0..N
    OBVIOUS
  <1>2. \A k \in Nat : Started(n, k) \in Events
    BY <1>1 DEF Started, Event, Events, Kinds, OfNodes, Openings, Withs
  <1>3. Finished(n) \in Events
    BY <1>1 DEF Finished, Event, Events, Kinds, OfNodes, Terminals, Withs
  <1>4. QuestionsAsked(n) \in Events /\ QuestionsAnswered(n) \in Events
    BY <1>1 DEF QuestionsAsked, QuestionsAnswered, Event, Events, Kinds, OfNodes, Withs
  <1>5. \A cause \in Causes : Failed(n, cause) \in Events
    BY <1>1 DEF Failed, Event, Events, Kinds, OfNodes, Terminals, Withs
  <1>6. \A on \in {"gate", "pr"} : Waiting(n, on) \in Events
    BY <1>1 DEF Waiting, Event, Events, Kinds, OfNodes, Openings, Withs, Waits
  <1>7. \A how \in Options \cup Verdicts : Resolved(n, how) \in Events
    BY <1>1 DEF Resolved, Event, Events, Kinds, OfNodes, Openings, Withs
  <1>8. \A to \in Nodes : \A origin \in {"on_failure", "gate_choice"} :
               Rerouted(n, to, origin) \in Events
    <2>1. ASSUME NEW to \in Nodes, NEW origin \in {"on_failure", "gate_choice"}
          PROVE  Rerouted(n, to, origin) \in Events
      <3> DEFINE r == Rerouted(n, to, origin)
      <3>1. origin \in Withs /\ to \in 0..N
        BY DEF Withs
      <3>2. Event("node_rerouted", n) \in [kind : Kinds, node : 0..N, attempt : Nat, with : Withs, to : 0..N]
        BY <1>1 DEF Event, Kinds, Withs
      <3>3. r \in [kind : Kinds, node : 0..N, attempt : Nat, with : Withs, to : 0..N]
        BY <3>1, <3>2 DEF Rerouted
      <3>4. r.kind = "node_rerouted" /\ r.node = n /\ r.to = to
        BY DEF Rerouted, Event
      <3>5. QED
        BY <3>3, <3>4 DEF Events
    <2>2. QED
      BY <2>1
  <1>9. QED
    BY <1>2, <1>3, <1>4, <1>5, <1>6, <1>7, <1>8

\* So is what they say of the run.
LEMMA RunEvents ==
  /\ \A n \in 0..N : RunPaused(n) \in Events
  /\ \A when \in {"late", "early"} : RunResumed(when) \in Events
  /\ PromotionSignaled \in Events
  /\ \A terminal \in Closes : RunFinished(terminal) \in Events
  <1>1. 0 \in 0..N
    BY NAssumption
  <1>2. \A n \in 0..N : RunPaused(n) \in Events
    BY <1>1 DEF RunPaused, Event, Events, Kinds, OfNodes, Openings, Terminals, Withs
  <1>3. \A when \in {"late", "early"} : RunResumed(when) \in Events
    BY <1>1 DEF RunResumed, Event, Events, Kinds, OfNodes, Openings, Terminals, Withs
  <1>4. PromotionSignaled \in Events
    BY <1>1 DEF PromotionSignaled, Event, Events, Kinds, OfNodes, Openings, Terminals, Withs
  <1>5. \A terminal \in Closes : RunFinished(terminal) \in Events
    BY <1>1 DEF RunFinished, Event, Events, Kinds, OfNodes, Openings, Terminals, Withs
  <1>6. QED
    BY <1>2, <1>3, <1>4, <1>5

\* What a decision about a node appends is events, whatever was chosen.
LEMMA ConsequenceTyped ==
  ASSUME Recorded(log), NEW d, Asked(d), NEW choice \in Menu(d), NEW said \in Seq(Events)
  PROVE  Consequence(d, choice, said) \in Seq(Events) /\ choice \in Options
  <1> DEFINE n == d.node
  <1>1. n \in Nodes
    BY DEF Asked
  <1>2. choice \in Options /\ (choice = "back" /\ d.do = "ResolveInternalGate" => SendsBack[n] # 0)
    BY DEF Menu, Options
  <1>3. Started(n, next_attempt(log, n)) \in Events
    BY <1>1, NextAttempt, NodeEvents
  <1>4. RunPaused(0) \in Events /\ RunFinished("promoted") \in Events /\ PromotionSignaled \in Events
    BY NAssumption, RunEvents DEF Closes
  <1>5. Finished(n) \in Events /\ Failed(n, "stuck") \in Events /\ Failed(n, "fixable") \in Events
    BY <1>1, NodeEvents DEF Causes
  <1>6. \A to \in 0..N : to # 0 => to \in Nodes
    BY NAssumption DEF Nodes
  <1>7. CASE d.do = "GateExhaustedReroutes"
    <2>1. Goto[n] \in Nodes
      BY <1>1, <1>6, <1>7, WorkflowAssumption DEF Asked
    <2>2. Rerouted(n, Goto[n], "on_failure") \in Events
      BY <1>1, <2>1, NodeEvents
    <2>3. exhausted(d, choice, said) \in Seq(Events)
      BY <1>4, <2>2 DEF exhausted
    <2>4. QED
      BY <1>2, <1>7, <2>3 DEF Consequence
  <1>8. CASE d.do = "EscalateFailure"
    BY <1>2, <1>4, <1>8 DEF Consequence, failure_escalation
  <1>9. CASE d.do = "ResolveInternalGate"
    <2>1. choice = "back" => Rerouted(n, SendsBack[n], "gate_choice") \in Events
      BY <1>1, <1>2, <1>6, <1>9, WorkflowAssumption, NodeEvents
    <2>2. internal_gate(d, choice, said) \in Seq(Events)
      <3> HIDE DEF n
      <3>1. QED
        BY <1>3, <1>4, <1>5, <2>1 DEF internal_gate, n
    <2>3. QED
      BY <1>2, <1>9, <2>2 DEF Consequence
  <1>10. CASE d.do \notin {"GateExhaustedReroutes", "EscalateFailure", "ResolveInternalGate"}
    <2>1. console_gate(d, choice, said) \in Seq(Events)
      BY <1>3, <1>5 DEF console_gate
    <2>2. QED
      BY <1>2, <1>10, <2>1 DEF Consequence
  <1>11. QED
    BY <1>7, <1>8, <1>9, <1>10
-----------------------------------------------------------------------------
\* A log that replay refused is decided upon by nothing else.
LEMMA BrokenDecides ==
  ASSUME NEW L, L.broken
  PROVE  decide(L) = Decision("Broken", 0)
  BY DEF decide

\* What is put to a person is about a node of a log that was read.
LEMMA AskedDecision ==
  ASSUME Recorded(log), PutsToAPerson(decide(log))
  PROVE  Asked(decide(log)) /\ ~log.broken
  <1>1. ~log.broken
    BY BrokenDecides DEF PutsToAPerson, HasMenu, AtConsole, Decision
  <1>2. Decided(log, decide(log))
    BY <1>1, Decides
  <1>3. QED
    BY <1>1, <1>2 DEF Decided, OnGate, OnWait, OnAnswer, OnBatch, OnFailed, OnNone, Decision,
                      PutsToAPerson, HasMenu, AtConsole, Asked

\* The engine that is down.
LEMMA DownTyped ==
  /\ DOMAIN Down = {"at", "script", "batch", "asks", "human", "forge", "pausing", "cancel"}
  /\ Down.at = "down" /\ Down.script = <<>> /\ Down.batch = [n \in Nodes |-> 0]
  /\ Down.human = FALSE /\ Down.forge = FALSE /\ Down.pausing = FALSE /\ Down.cancel = FALSE
  BY DEF Down

\* The first state is typed.
LEMMA InitTyped == Init => Typed
  <1> SUFFICES ASSUME Init PROVE Typed
    OBVIOUS
  <1>1. Recorded(log)
    <2>1. Unrecorded \in NodeRecord(1)
      BY NAssumption DEF Unrecorded, NodeRecord, NodeStates
    <2>2. Ungated \in GateRecord(1)
      BY DEF Ungated, GateRecord
    <2>3. Born.run \in RunRecord(1)
      BY DEF Born, RunRecord
    <2>4. /\ Born.seq = 1 /\ Born.broken = FALSE /\ Born.node = [n \in Nodes |-> Unrecorded]
          /\ Born.gate = [n \in Nodes |-> Ungated]
          /\ DOMAIN Born = {"seq", "broken", "node", "gate", "run"}
      BY DEF Born
    <2>5. Recorded(Born)
      <3>1. Born.node \in [Nodes -> NodeRecord(Born.seq)] /\ Born.gate \in [Nodes -> GateRecord(Born.seq)]
        BY <2>1, <2>2, <2>4
      <3>2. Born.run \in RunRecord(Born.seq)
        BY <2>3, <2>4
      <3>3. Born.seq \in Nat \ {0} /\ Born.broken \in BOOLEAN
        BY DEF Born
      <3>4. QED
        BY <2>4, <3>1, <3>2, <3>3, Zenon DEF Recorded
    <2>6. QED
      BY <2>5 DEF Init
  <1>2. EngineTyped
    <2>1. eng = Down
      BY DEF Init
    <2>2. <<>> \in Seq(Events) /\ [n \in Nodes |-> 0] \in [Nodes -> Nat \cup {Working}]
      OBVIOUS
    <2>3. QED
      BY <2>1, <2>2, DownTyped DEF EngineTyped
  <1>3. CallsTyped /\ crashed \in BOOLEAN /\ Spent
    <2>1. CallsTyped
      BY DEF Init, CallsTyped
    <2>2. setbacks = 0 /\ wakes = 0 /\ made = 0
      BY DEF Init
    <2>3. MaxSetbacks \in Nat /\ MaxWakes \in Nat /\ MaxCalls \in Nat
      BY EngineAssumption
    <2>4. Spent
      BY <2>2, <2>3 DEF Spent
    <2>5. crashed \in BOOLEAN
      BY DEF Init
    <2>6. QED
      BY <2>1, <2>4, <2>5
  <1>4. QED
    BY <1>1, <1>2, <1>3 DEF Typed

\* The engine's memory after a step that appends a script, and after one that ends it.
LEMMA AppendsTyped ==
  ASSUME Typed, NEW s \in Seq(Events), Appends(s)
  PROVE  /\ EngineTyped' /\ eng'.at = "loop" /\ eng'.script = s /\ eng'.batch = eng.batch
         /\ Recorded(log)' /\ CallsTyped' /\ crashed' \in BOOLEAN
         /\ wakes' \in 0..MaxWakes /\ made' \in 0..MaxCalls
  <1>1. eng' = [eng EXCEPT !.at = "loop", !.asks = Nothing, !.script = s]
        /\ UNCHANGED <<log, crashed, calls, wakes, made>>
    BY DEF Appends
  <1>2. EngineTyped' /\ eng'.at = "loop" /\ eng'.script = s /\ eng'.batch = eng.batch
    BY <1>1 DEF Typed, EngineTyped
  <1>3. QED
    BY <1>1, <1>2 DEF Typed, CallsTyped, Spent

\* A setback stays within its bound.
LEMMA SetbackTyped ==
  ASSUME Typed, NEW kind, Setback(kind) \/ NoSetback
  PROVE  setbacks' \in 0..MaxSetbacks
  BY EngineAssumption DEF Setback, NoSetback, Typed, Spent

\* What the decisions that ask nobody append.
LEMMA StepTyped ==
  ASSUME Typed, decide(log).do \in {"Finish", "Fail", "Pause", "WaitUntil", "Reroute",
                           "FinishAnswered"}
  PROVE  step(decide(log)) \in Seq(Events) /\ ~log.broken
  <1> DEFINE d == decide(log)
  <1>1. ~log.broken
    BY BrokenDecides DEF Decision
  <1>2. Decided(log, d)
    BY <1>1, Decides DEF Typed
  <1> HIDE DEF d
  <1>3. d.do \in {"WaitUntil", "Reroute", "FinishAnswered"} => d.node \in Nodes
    BY <1>2 DEF Decided, OnGate, OnWait, OnAnswer, OnBatch, OnFailed, OnNone, Decision
  <1>4. d.do = "Reroute" => Goto[d.node] # 0
    BY <1>2 DEF Decided, OnGate, OnWait, OnAnswer, OnBatch, OnFailed, OnNone, Decision
  <1>5. d.do = "Reroute" => Goto[d.node] \in Nodes
    BY <1>3, <1>4, NAssumption, WorkflowAssumption DEF Nodes
  <1>6. d.do = "Reroute" => Rerouted(d.node, Goto[d.node], "on_failure") \in Events
    BY <1>3, <1>5, NodeEvents
  <1>7. d.do = "FinishAnswered" => Finished(d.node) \in Events
    BY <1>3, NodeEvents
  <1>8. d.do = "WaitUntil" => RunPaused(d.node) \in Events
    BY <1>3, NAssumption, RunEvents DEF Nodes
  <1>9. RunPaused(0) \in Events /\ RunFinished("done") \in Events /\ RunFinished("failed") \in Events
    BY NAssumption, RunEvents DEF Closes
  <1>10. step(d) \in Seq(Events)
    BY <1>6, <1>7, <1>8, <1>9 DEF step, d
  <1>11. QED
    BY <1>1, <1>10 DEF d

\* Where the answer that a step finishes, or refuses to, finds its node.
LEMMA AnsweredNode ==
  ASSUME Typed, decide(log).do = "FinishAnswered"
  PROVE  OnAnswer(log, decide(log)) /\ decide(log).node \in Nodes
  <1>1. ~log.broken
    BY BrokenDecides DEF Decision
  <1>2. Decided(log, decide(log))
    BY <1>1, Decides DEF Typed
  <1>3. QED
    BY <1>2 DEF Decided, OnGate, OnWait, OnAnswer, OnBatch, OnFailed, OnNone, Decision

\* Each group of actions keeps the type: waking;
LEMMA WakeTyped ==
  ASSUME Typed, Wake
  PROVE  Typed'
  <1>1. PICK wake \in {"plain", "absent", "offline", "early"} :
          /\ IF wake = "plain" THEN NoSetback ELSE Setback(wake)
          /\ eng' = IF log.run.finished # "no" THEN [Down EXCEPT !.at = "ending"]
                    ELSE [Down EXCEPT !.at = "wake",
                            !.human = (wake # "absent"), !.forge = (wake # "offline"),
                            !.script = IF woken(log)
                                       THEN <<RunResumed(IF wake = "early" THEN wake ELSE "late")>>
                                       ELSE <<>>]
    BY Zenon DEF Wake
  <1>2. EngineTyped'
    <2> DEFINE human == wake # "absent"
               forge == wake # "offline"
               script == IF woken(log)
                         THEN <<RunResumed(IF wake = "early" THEN wake ELSE "late")>> ELSE <<>>
    <2>1. script \in Seq(Events)
      BY RunEvents
    <2>2. human \in BOOLEAN /\ forge \in BOOLEAN
      OBVIOUS
    <2>3. CASE log.run.finished # "no"
      <3>1. eng' = [Down EXCEPT !.at = "ending"]
        BY <1>1, <2>3
      <3>2. <<>> \in Seq(Events) /\ [n \in Nodes |-> 0] \in [Nodes -> Nat \cup {Working}]
        OBVIOUS
      <3>3. QED
        BY <3>1, <3>2, DownTyped DEF EngineTyped
    <2>4. CASE log.run.finished = "no"
      <3>1. eng' = [Down EXCEPT !.at = "wake", !.human = human, !.forge = forge, !.script = script]
        BY <1>1, <2>4, Zenon
      <3>2. [n \in Nodes |-> 0] \in [Nodes -> Nat \cup {Working}]
        OBVIOUS
      <3> HIDE DEF human, forge, script
      <3>3. QED
        BY <2>1, <2>2, <3>1, <3>2, DownTyped DEF EngineTyped
    <2>5. QED
      BY <2>3, <2>4
  <1>3. setbacks' \in 0..MaxSetbacks
    BY <1>1, SetbackTyped
  <1>4. wakes' \in 0..MaxWakes /\ UNCHANGED <<log, calls, made>> /\ crashed' = FALSE
    BY EngineAssumption DEF Wake, Typed, Spent
  <1>5. QED
    BY <1>2, <1>3, <1>4 DEF Typed, Spent, CallsTyped

\* the decisions that ask nobody;
LEMMA DecidingTyped ==
  ASSUME Typed,
         \/ recheck_approved_gates \/ PauseAtTop \/ StepBroken \/ TakeStep
         \/ CloseRefused \/ NoRoom \/ execute_batch
  PROVE  Typed'
  <1>1. CASE recheck_approved_gates
    <2>1. EngineTyped'
      <3>1. CASE eng' = [eng EXCEPT !.at = "loop"]
        BY <3>1 DEF Typed, EngineTyped
      <3>2. ASSUME NEW n \in Nodes, eng' = [eng EXCEPT !.script = <<Started(n, next_attempt(log, n))>>]
            PROVE  EngineTyped'
        <4>1. <<Started(n, next_attempt(log, n))>> \in Seq(Events)
          BY NextAttempt, NodeEvents DEF Typed
        <4>2. QED
          BY <3>2, <4>1 DEF Typed, EngineTyped
      <3>3. QED
        BY <1>1, <3>1, <3>2 DEF recheck_approved_gates
    <2>2. setbacks' \in 0..MaxSetbacks
      BY <1>1, SetbackTyped DEF recheck_approved_gates
    <2>3. QED
      BY <1>1, <2>1, <2>2 DEF recheck_approved_gates, Typed, CallsTyped, Spent
  <1>2. CASE PauseAtTop
    <2>1. <<RunPaused(0)>> \in Seq(Events)
      BY NAssumption, RunEvents
    <2>2. QED
      BY <1>2, <2>1, AppendsTyped, SetbackTyped DEF PauseAtTop, Typed, Spent
  <1>3. CASE StepBroken
    <2>1. eng' = Down /\ UNCHANGED <<log, crashed, calls, setbacks, wakes, made>>
      BY <1>3 DEF StepBroken, Errs
    <2>2. EngineTyped'
      <3>1. <<>> \in Seq(Events) /\ [n \in Nodes |-> 0] \in [Nodes -> Nat \cup {Working}]
        OBVIOUS
      <3>2. QED
        BY <2>1, <3>1, DownTyped DEF EngineTyped
    <2>3. QED
      BY <2>1, <2>2 DEF Typed, CallsTyped, Spent
  <1>4. CASE TakeStep
    BY <1>4, StepTyped, AppendsTyped, SetbackTyped DEF TakeStep, Typed, Spent
  <1>5. CASE execute_batch
    <2> DEFINE d == decide(log)
               batch == [n \in Nodes |-> IF n \in DOMAIN d.batch THEN d.batch[n] ELSE 0]
    <2>1. eng' = [eng EXCEPT !.batch = batch]
          /\ UNCHANGED <<log, crashed, calls, setbacks, wakes, made>>
      BY <1>5 DEF execute_batch
    <2>2. ~log.broken /\ d.do = "Execute"
      BY <1>5, BrokenDecides DEF execute_batch, Decision
    <2>3. OnBatch(log, d)
      BY <2>2, Decides DEF Typed, Decided, OnGate, OnWait, OnAnswer, OnFailed, OnNone, Decision
    <2>4. batch \in [Nodes -> Nat \cup {Working}]
      BY <2>3 DEF OnBatch
    <2>5. EngineTyped'
      <3> HIDE DEF batch
      <3>1. QED
        BY <2>1, <2>4 DEF Typed, EngineTyped
    <2>6. QED
      BY <2>1, <2>5 DEF Typed, CallsTyped, Spent
  <1>6. CASE CloseRefused
    <2>1. <<Failed(decide(log).node, "stuck")>> \in Seq(Events)
      BY <1>6, AnsweredNode, NodeEvents DEF CloseRefused, Causes
    <2>2. QED
      BY <1>6, <2>1, AppendsTyped, SetbackTyped DEF CloseRefused, Typed, Spent
  <1>7. CASE NoRoom
    <2>1. <<RunPaused(0)>> \in Seq(Events)
      BY NAssumption, RunEvents
    <2>2. QED
      BY <1>7, <2>1, AppendsTyped, SetbackTyped DEF NoRoom, Typed, Spent
  <1>8. QED
    BY <1>1, <1>2, <1>3, <1>4, <1>5, <1>6, <1>7

\* those put to a person or a forge;
LEMMA AskingTyped ==
  ASSUME Typed,
         \/ ConsumeSeeded \/ NobodyToAsk \/ AskHuman \/ HumanAnswers \/ HumanReplies
         \/ publish_gate \/ poll_gate
  PROVE  Typed'
  <1>1. <<RunPaused(0)>> \in Seq(Events)
    BY NAssumption, RunEvents
  <1>2. CASE ConsumeSeeded
    <2> DEFINE d == decide(log)
    <2>1. Seeded(d) /\ Appends(Consequence(d, log.gate[d.node].choice, <<>>)) /\ NoSetback
      BY <1>2 DEF ConsumeSeeded
    <2>2. Asked(d) /\ log.gate[d.node].choice \in Menu(d)
      BY <2>1, AskedDecision DEF Seeded, PutsToAPerson, Typed
    <2>3. Consequence(d, log.gate[d.node].choice, <<>>) \in Seq(Events)
      <3>1. <<>> \in Seq(Events)
        OBVIOUS
      <3>2. QED
        BY <2>2, <3>1, ConsequenceTyped DEF Typed
    <2>4. QED
      BY <2>1, <2>3, AppendsTyped, SetbackTyped DEF Typed, Spent
  <1>3. CASE NobodyToAsk
    BY <1>1, <1>3, AppendsTyped, SetbackTyped DEF NobodyToAsk, Typed, Spent
  <1>4. CASE AskHuman
    <2>1. Asked(decide(log))
      BY <1>4, AskedDecision DEF AskHuman, Typed
    <2>2. EngineTyped'
      BY <1>4, <2>1 DEF AskHuman, Typed, EngineTyped
    <2>3. QED
      BY <1>4, <2>2 DEF AskHuman, Typed, CallsTyped, Spent
  <1>5. CASE HumanAnswers
    <2>1. Asked(eng.asks)
      BY <1>5 DEF HumanAnswers, Typed, EngineTyped
    <2>2. PICK choice \in Menu(eng.asks) :
            /\ Chooses(choice)
            /\ Appends(Consequence(eng.asks, choice, pair(eng.asks.node, choice)))
      BY <1>5 DEF HumanAnswers
    <2>3. choice \in Options
      BY <2>2 DEF Menu, Options
    <2>4. pair(eng.asks.node, choice) \in Seq(Events)
      BY <2>1, <2>3, NodeEvents DEF pair, Asked
    <2>5. Consequence(eng.asks, choice, pair(eng.asks.node, choice)) \in Seq(Events)
      BY <2>1, <2>2, <2>4, ConsequenceTyped DEF Typed
    <2>6. setbacks' \in 0..MaxSetbacks
      BY <2>2, SetbackTyped DEF Chooses
    <2>7. QED
      BY <2>2, <2>5, <2>6, AppendsTyped DEF Typed, Spent
  <1>6. CASE HumanReplies
    <2>1. Asked(eng.asks)
      BY <1>6 DEF HumanReplies, Typed, EngineTyped
    <2>2. <<QuestionsAnswered(eng.asks.node)>> \in Seq(Events)
      BY <2>1, NodeEvents DEF Asked
    <2>3. setbacks' \in 0..MaxSetbacks
      BY <1>6, SetbackTyped DEF HumanReplies
    <2>4. QED
      BY <1>1, <1>6, <2>2, <2>3, AppendsTyped DEF HumanReplies, Typed, Spent
  <1>7. ASSUME Deciding, decide(log).do \in {"PublishGate", "PollGate"}
        PROVE  decide(log).node \in Nodes
    <2>1. ~log.broken
      BY <1>7, BrokenDecides DEF Decision
    <2>2. QED
      BY <1>7, <2>1, Decides DEF Typed, Decided, OnGate, OnWait, OnAnswer, OnBatch, OnFailed,
                                 OnNone, Decision
  <1>8. ASSUME NEW n \in Nodes
        PROVE  /\ \A on \in {"gate", "pr"} : Waiting(n, on) \in Events
               /\ Started(n, next_attempt(log, n)) \in Events /\ Finished(n) \in Events
               /\ \A cause \in Causes : Failed(n, cause) \in Events
               /\ Failed(n, "fixable") \in Events
               /\ \A how \in Verdicts : Resolved(n, how) \in Events
    BY NextAttempt, NodeEvents DEF Typed, Causes
  <1>9. CASE publish_gate
    <2> DEFINE n == decide(log).node
    <2>1. n \in Nodes
      BY <1>7, <1>9 DEF publish_gate
    <2>2. /\ <<Waiting(n, "pr"), RunPaused(0)>> \in Seq(Events)
          /\ \A cause \in FailCauses \cap {"reset", "frozen"} :
                <<Started(n, next_attempt(log, n)), Failed(n, cause)>> \in Seq(Events)
      <3> HIDE DEF n
      <3>1. \A cause \in FailCauses : cause \in Causes
        BY EngineAssumption
      <3>2. QED
        BY <1>8, <2>1, <3>1, NAssumption, RunEvents
    <2>3. setbacks' \in 0..MaxSetbacks
      BY <1>9, SetbackTyped DEF publish_gate
    <2>4. QED
      BY <1>9, <2>2, <2>3, AppendsTyped DEF publish_gate, Typed, Spent
  <1>10. CASE poll_gate
    <2> DEFINE n == decide(log).node
               started == Started(n, next_attempt(log, n))
    <2>1. n \in Nodes
      BY <1>7, <1>10 DEF poll_gate
    <2>2. /\ <<started, Resolved(n, "approved"), Finished(n)>> \in Seq(Events)
          /\ <<started, Resolved(n, "changes"), Failed(n, "fixable")>> \in Seq(Events)
          /\ <<Resolved(n, "closed"), RunPaused(0)>> \in Seq(Events)
      <3>1. {"approved", "changes", "closed"} \subseteq Verdicts
        BY DEF Verdicts
      <3>2. started \in Events
        BY <1>8, <2>1
      <3> HIDE DEF n, started
      <3>3. QED
        BY <1>8, <2>1, <3>1, <3>2, NAssumption, RunEvents
    <2>3. setbacks' \in 0..MaxSetbacks
      BY <1>10, SetbackTyped DEF poll_gate
    <2>4. QED
      BY <1>1, <1>10, <2>2, <2>3, AppendsTyped DEF poll_gate, Typed, Spent
  <1>11. QED
    BY <1>2, <1>3, <1>4, <1>5, <1>6, <1>9, <1>10

\* the nodes of a batch;
LEMMA WorkTyped ==
  ASSUME Typed, NEW n \in Nodes, NodeStarts(n) \/ NodeEnds(n) \/ NodePauses(n)
  PROVE  Typed'
  <1>1. CASE NodeStarts(n)
    <2>1. eng.batch[n] \in Nat
      BY <1>1 DEF NodeStarts, Typed, EngineTyped, Working
    <2>2. Recorded(log)'
      <3>1. Started(n, eng.batch[n]) \in Events
        BY <2>1, NodeEvents
      <3>2. QED
        BY <1>1, <3>1, AppliedRecorded DEF NodeStarts, Typed
    <2>3. EngineTyped'
      BY <1>1 DEF NodeStarts, Typed, EngineTyped
    <2>4. QED
      BY <1>1, <2>2, <2>3 DEF NodeStarts, Typed, CallsTyped, Spent
  <1>2. CASE NodeEnds(n)
    <2>1. \/ \E e \in Events : log' = apply(log, e)
          \/ UNCHANGED log
      <3>1. FailCauses \subseteq Causes
        BY EngineAssumption
      <3>2. QED
        BY <1>2, <3>1, NodeEvents DEF NodeEnds
    <2>2. Recorded(log)'
      BY <2>1, AppliedRecorded DEF Typed
    <2>3. eng' = [eng EXCEPT !.batch[n] = 0] /\ UNCHANGED <<crashed, calls, wakes, made>>
      BY <1>2 DEF NodeEnds
    <2>4. EngineTyped'
      BY <2>3 DEF Typed, EngineTyped
    <2>5. setbacks' \in 0..MaxSetbacks
      BY <1>2, SetbackTyped DEF NodeEnds
    <2>6. QED
      BY <2>2, <2>3, <2>4, <2>5 DEF Typed, CallsTyped, Spent
  <1>3. CASE NodePauses(n)
    <2>1. EngineTyped'
      BY <1>3 DEF NodePauses, Typed, EngineTyped
    <2>2. setbacks' \in 0..MaxSetbacks
      BY <1>3, SetbackTyped DEF NodePauses
    <2>3. QED
      BY <1>3, <2>1, <2>2 DEF NodePauses, Typed, CallsTyped, Spent
  <1>4. QED
    BY <1>1, <1>2, <1>3

\* the life of the engine process;
LEMMA ProcessTyped ==
  ASSUME Typed, EngineAppends \/ InvocationEnds \/ CtrlC \/ Crash \/ settle_crash
  PROVE  Typed'
  <1>1. ASSUME eng' = Down PROVE EngineTyped'
    <2>1. <<>> \in Seq(Events) /\ [n \in Nodes |-> 0] \in [Nodes -> Nat \cup {Working}]
      OBVIOUS
    <2>2. QED
      BY <1>1, <2>1, DownTyped DEF EngineTyped
  <1>2. CASE EngineAppends
    <2> DEFINE e == Head(eng.script)
    <2>1. /\ eng.script # <<>> /\ log' = apply(log, e)
          /\ eng' = [eng EXCEPT !.script = Tail(@),
                       !.at = IF e.kind \in {"run_paused", "run_finished"} THEN "ending" ELSE @]
          /\ UNCHANGED <<crashed, calls, setbacks, wakes, made>>
      BY <1>2 DEF EngineAppends
    <2>2. e \in Events /\ Tail(eng.script) \in Seq(Events)
      BY <2>1 DEF Typed, EngineTyped
    <2>3. EngineTyped'
      <3> DEFINE at == IF e.kind \in {"run_paused", "run_finished"} THEN "ending" ELSE eng.at
      <3>1. eng' = [eng EXCEPT !.script = Tail(eng.script), !.at = at]
        BY <2>1
      <3>2. at \in {"ending", eng.at}
        OBVIOUS
      <3> HIDE DEF at
      <3>3. QED
        BY <2>2, <3>1, <3>2 DEF Typed, EngineTyped
    <2>4. Recorded(log)'
      BY <2>1, <2>2, AppliedRecorded DEF Typed
    <2>5. QED
      BY <2>1, <2>3, <2>4 DEF Typed, CallsTyped, Spent
  <1>3. CASE InvocationEnds
    BY <1>1, <1>3 DEF InvocationEnds, Errs, Typed, CallsTyped, Spent
  <1>4. CASE CtrlC
    <2>1. EngineTyped'
      BY <1>4 DEF CtrlC, Typed, EngineTyped
    <2>2. QED
      BY <1>4, <2>1, SetbackTyped DEF CtrlC, Typed, CallsTyped, Spent
  <1>5. CASE Crash
    BY <1>1, <1>5, SetbackTyped DEF Crash, Typed, CallsTyped, Spent
  <1>6. CASE settle_crash
    <2>1. Recorded(log)'
      BY <1>6, NAssumption, RunEvents, AppliedRecorded DEF settle_crash, Typed
    <2>2. QED
      BY <1>6, <2>1 DEF settle_crash, Typed, EngineTyped, CallsTyped, Spent
  <1>7. QED
    BY <1>2, <1>3, <1>4, <1>5, <1>6

\* and the calls of other processes.
LEMMA CallerTyped ==
  ASSUME Typed, NEW c \in Callers,
         \/ resolve_gate(c) \/ answer_questions(c) \/ close_run(c)
         \/ CallAppends(c) \/ CallerDies(c)
  PROVE  Typed'
  <1>1. ASSUME NEW kind, Call(c, kind), NEW s \in Seq(Events), calls' = [calls EXCEPT ![c] = s],
               setbacks' \in 0..MaxSetbacks
        PROVE  Typed'
    <2>1. made' \in 0..MaxCalls /\ UNCHANGED <<log, eng, crashed, wakes>>
      BY <1>1, EngineAssumption DEF Call, Typed, Spent
    <2>2. CallsTyped'
      BY <1>1 DEF Typed, CallsTyped
    <2>3. QED
      BY <1>1, <2>1, <2>2 DEF Typed, EngineTyped, Spent
  <1>2. CASE resolve_gate(c)
    <2> DEFINE d == decide(log)
    <2>1. PICK choice \in Menu(d) :
            Chooses(choice) /\ calls' = [calls EXCEPT ![c] = pair(d.node, choice)]
      BY <1>2 DEF resolve_gate
    <2>2. Asked(d)
      BY <1>2, AskedDecision DEF resolve_gate, PutsToAPerson, Typed
    <2>3. choice \in Options
      BY <2>1 DEF Menu, Options
    <2>4. pair(d.node, choice) \in Seq(Events)
      BY <2>2, <2>3, NodeEvents DEF pair, Asked
    <2>5. setbacks' \in 0..MaxSetbacks
      BY <2>1, SetbackTyped DEF Chooses
    <2>6. Call(c, "resolve")
      BY <1>2 DEF resolve_gate
    <2> HIDE DEF d
    <2>7. QED
      BY <1>1, <2>1, <2>4, <2>5, <2>6
  <1>3. CASE answer_questions(c)
    <2>1. PICK n \in Nodes : calls' = [calls EXCEPT ![c] = <<QuestionsAnswered(n)>>]
      BY <1>3 DEF answer_questions
    <2>2. <<QuestionsAnswered(n)>> \in Seq(Events)
      BY NodeEvents
    <2>3. setbacks' \in 0..MaxSetbacks /\ Call(c, "answer")
      BY <1>3, SetbackTyped DEF answer_questions
    <2>4. QED
      BY <1>1, <2>1, <2>2, <2>3
  <1>4. CASE close_run(c)
    <2>1. <<RunFinished("cancelled")>> \in Seq(Events)
      BY RunEvents DEF Closes
    <2>2. setbacks' \in 0..MaxSetbacks /\ Call(c, "close")
      BY <1>4, SetbackTyped DEF close_run
    <2>3. QED
      BY <1>1, <1>4, <2>1, <2>2 DEF close_run
  <1>5. CASE CallAppends(c)
    <2>1. Head(calls[c]) \in Events /\ Tail(calls[c]) \in Seq(Events)
      BY <1>5 DEF CallAppends, Typed, CallsTyped
    <2>2. Recorded(log)'
      BY <1>5, <2>1, AppliedRecorded DEF CallAppends, Typed
    <2>3. CallsTyped'
      BY <1>5, <2>1 DEF CallAppends, Typed, CallsTyped
    <2>4. QED
      BY <1>5, <2>2, <2>3 DEF CallAppends, Typed, EngineTyped, Spent
  <1>6. CASE CallerDies(c)
    <2>1. CallsTyped'
      BY <1>6 DEF CallerDies, Typed, CallsTyped
    <2>2. QED
      BY <1>6, <2>1, SetbackTyped DEF CallerDies, Typed, EngineTyped, Spent
  <1>7. QED
    BY <1>2, <1>3, <1>4, <1>5, <1>6

\* Typed is inductive,
LEMMA NextTyped == Typed /\ [Next]_vars => Typed'
  <1> SUFFICES ASSUME Typed, [Next]_vars PROVE Typed'
    OBVIOUS
  <1>1. CASE Wake
    BY <1>1, WakeTyped
  <1>2. CASE Engine
    BY <1>2, DecidingTyped, AskingTyped, WorkTyped, ProcessTyped DEF Engine
  <1>3. CASE CtrlC \/ Crash \/ settle_crash
    BY <1>3, ProcessTyped
  <1>4. ASSUME NEW c \in Callers,
               \/ resolve_gate(c) \/ answer_questions(c) \/ close_run(c)
               \/ CallAppends(c) \/ CallerDies(c)
        PROVE  Typed'
    BY <1>4, CallerTyped
  <1>5. CASE UNCHANGED vars
    BY <1>5 DEF vars, Typed, EngineTyped, CallsTyped, Spent
  <1>6. QED
    BY <1>1, <1>2, <1>3, <1>4, <1>5 DEF Next

\* so it always holds,
LEMMA AlwaysTyped == Spec => []Typed
  BY InitTyped, NextTyped, PTL DEF Spec

\* and it says more than the type invariant does.
LEMMA TypedIsTypeOK == Typed => TypeOK
  <1> SUFFICES ASSUME Typed PROVE TypeOK
    OBVIOUS
  <1>1. log.seq \in Nat \ {0} /\ log.broken \in BOOLEAN
    BY DEF Typed, Recorded
  <1>2. log.node \in [Nodes ->
          [state : NodeStates, cause : Causes \cup {"none"}, attempts : Nat,
           finished : Seqs, failed : Seqs, reroutes : Nat,
           rerouteTo : 0..N, rerouteAt : Seqs, pre : NodeStates]]
    BY DEF Typed, Recorded, NodeRecord, Seqs
  <1>3. log.gate \in [Nodes ->
          [ref : BOOLEAN, waiting : Seqs, at : Seqs, approved : BOOLEAN,
           choice : Options \cup Verdicts \cup {"none"},
           round : {"none", "open", "answered"}, answeredAt : Seqs]]
    BY DEF Typed, Recorded, GateRecord, Seqs
  <1>4. log.run \in [paused : BOOLEAN, pausedAt : Seqs, awaits : Seqs,
                    late : BOOLEAN, tailPaused : BOOLEAN, woken : BOOLEAN,
                    finished : {"no", "done", "failed", "promoted", "cancelled"}]
    BY DEF Typed, Recorded, RunRecord, Seqs, Closes
  <1>5. QED
    BY <1>1, <1>2, <1>3, <1>4 DEF Typed, EngineTyped, Spent, TypeOK

\* Whatever is appended, by whomever, dies or is cancelled, every part of the state keeps its type:
\* no step looks up a node, an answer or a decision that is not there (replay.rs, schedule.rs).
THEOREM RunTypeOK == Spec => []TypeOK
  BY AlwaysTyped, TypedIsTypeOK, PTL

-----------------------------------------------------------------------------
\* An event that replay takes and that keeps the ledger in order.
Fit(L, e) ==
    /\ e.kind \in Terminals => State(L, e.node) = "running"
    /\ e.kind \in Openings => Loose(L, e.node)
    /\ e.kind = "gate_waiting" /\ e.with = "pr" => is_gate(e.node)
    /\ e.kind = "questions_asked" => State(L, e.node) = "running" /\ Kind[e.node] = "asks"
    /\ e.kind = "questions_answered" => L.gate[e.node].round = "open"

\* A log takes an event that fits (refuse.rs).
LEMMA FitIsTaken ==
  ASSUME NEW L, Recorded(L), ~L.broken, Ledger(L), NEW e \in Events, Fit(L, e)
  PROVE  ~refuse(L, e)
  <1>1. e.kind \in {"node_finished", "node_failed", "questions_asked"} => State(L, e.node) = "running"
    BY DEF Fit, Terminals
  <1>2. e.kind = "questions_answered" => e.node \in Nodes
    BY DEF Events, OfNodes, Kinds
  <1>3. e.kind = "questions_answered" => State(L, e.node) = "questions"
    BY <1>2 DEF Fit, Ledger
  <1>4. QED
    BY <1>1, <1>3 DEF refuse, Waits

\* What one event does to the state of a node and to its questions.
LEMMA NodeAfter ==
  ASSUME NEW L, Recorded(L), ~L.broken, Ledger(L), NEW e \in Events, Fit(L, e),
         NEW M, M = apply(L, e), NEW n \in Nodes
  PROVE  /\ M.seq = L.seq + 1 /\ ~M.broken
         /\ ~(About(e) /\ n = e.node) => M.node[n] = L.node[n] /\ M.gate[n] = L.gate[n]
         /\ About(e) /\ n = e.node =>
              M.node[n] = apply_node(L.node[n], e, M.seq) /\ M.gate[n] = apply_gate(L.gate[n], e, M.seq)
  <1>1. Reads(L, e, M)
    BY FitIsTaken, Applied
  <1>2. /\ M.seq = L.seq + 1 /\ M.broken = FALSE
        /\ M.node = [k \in Nodes |-> IF About(e) /\ k = e.node
              THEN apply_node(L.node[k], e, L.seq + 1) ELSE L.node[k]]
        /\ M.gate = [k \in Nodes |-> IF About(e) /\ k = e.node
              THEN apply_gate(L.gate[k], e, L.seq + 1) ELSE L.gate[k]]
    BY <1>1, Zenon DEF Reads
  <1>3. QED
    BY <1>2

\* The state of the node the event is about, and its ledger, after it.
LEMMA StateAfter ==
  ASSUME NEW L, Recorded(L), ~L.broken, Ledger(L), NEW e \in Events, Fit(L, e),
         NEW M, M = apply(L, e), NEW n \in Nodes, About(e), n = e.node
  PROVE  /\ State(M, n) = CASE e.kind = "node_started" -> "running"
                            [] e.kind = "node_finished" -> "finished"
                            [] e.kind = "node_failed" -> "failed"
                            [] e.kind = "gate_waiting" -> e.with
                            [] e.kind = "gate_resolved" /\ State(L, n) \in Waits -> L.node[n].pre
                            [] e.kind = "questions_asked" -> "questions"
                            [] e.kind = "questions_answered" -> "running"
                            [] OTHER -> State(L, n)
         /\ M.node[n].pre = CASE e.kind \in {"gate_waiting", "questions_asked"} -> State(L, n)
                              [] e.kind = "gate_resolved" /\ State(L, n) \in Waits -> "none"
                              [] e.kind = "questions_answered" -> "none"
                              [] OTHER -> L.node[n].pre
         /\ M.gate[n].round = CASE e.kind = "questions_asked" -> "open"
                                [] e.kind = "questions_answered" -> "answered"
                                [] OTHER -> L.gate[n].round
         /\ M.gate[n].answeredAt = CASE e.kind = "questions_asked" -> 0
                                     [] e.kind = "questions_answered" -> M.seq
                                     [] OTHER -> L.gate[n].answeredAt
         /\ M.node[n].finished = IF e.kind = "node_finished" THEN M.seq ELSE L.node[n].finished
         /\ M.node[n].failed = IF e.kind = "node_failed" THEN M.seq ELSE L.node[n].failed
  <1> DEFINE r == L.node[n]
             g == L.gate[n]
             k == M.seq
  <1>1. M.node[n] = apply_node(r, e, k) /\ M.gate[n] = apply_gate(g, e, k)
    BY NodeAfter
  <1>2. r \in NodeRecord(L.seq) /\ g \in GateRecord(L.seq)
    BY DEF Recorded
  <1>3. e.kind = "questions_answered" => r.pre = "running"
    BY DEF Fit, Ledger, State
  <1>4. State(L, n) = r.state /\ State(M, n) = M.node[n].state
    BY DEF State
  <1> HIDE DEF r, g, k
  <1>5. /\ M.node[n].state = CASE e.kind = "node_started" -> "running"
                            [] e.kind = "node_finished" -> "finished"
                            [] e.kind = "node_failed" -> "failed"
                            [] e.kind = "gate_waiting" -> e.with
                            [] e.kind = "gate_resolved" /\ r.state \in Waits -> r.pre
                            [] e.kind = "questions_asked" -> "questions"
                            [] e.kind = "questions_answered" -> "running"
                            [] OTHER -> r.state
        /\ M.node[n].pre = CASE e.kind \in {"gate_waiting", "questions_asked"} -> r.state
                              [] e.kind = "gate_resolved" /\ r.state \in Waits -> "none"
                              [] e.kind = "questions_answered" -> "none"
                              [] OTHER -> r.pre
        /\ M.node[n].finished = IF e.kind = "node_finished" THEN k ELSE r.finished
        /\ M.node[n].failed = IF e.kind = "node_failed" THEN k ELSE r.failed
    BY <1>1, <1>2, <1>3 DEF apply_node, park, unpark, NodeRecord
  <1>6. /\ M.gate[n].round = CASE e.kind = "questions_asked" -> "open"
                                [] e.kind = "questions_answered" -> "answered"
                                [] OTHER -> g.round
        /\ M.gate[n].answeredAt = CASE e.kind = "questions_asked" -> 0
                                     [] e.kind = "questions_answered" -> k
                                     [] OTHER -> g.answeredAt
    BY <1>1, <1>2 DEF apply_gate, GateRecord
  <1>7. QED
    BY <1>4, <1>5, <1>6 DEF r, g, k

\* The ledgers agree after an event that fits.
LEMMA LedgerKept ==
  ASSUME NEW L, Recorded(L), ~L.broken, Ledger(L), NEW e \in Events, Fit(L, e),
         NEW M, M = apply(L, e)
  PROVE  Ledger(M) /\ ~M.broken
  <1> SUFFICES ASSUME NEW n \in Nodes
               PROVE  /\ (M.gate[n].round = "open") <=> (State(M, n) = "questions")
                      /\ State(M, n) = "questions" => M.node[n].pre = "running"
                      /\ M.gate[n].round # "none" => Kind[n] = "asks"
                      /\ answered_unfinished(M, n) => State(M, n) = "running"
                      /\ M.node[n].pre # "questions"
                      /\ "pr" \in {State(M, n), M.node[n].pre} => is_gate(n)
    <2>1. ~M.broken
      BY NodeAfter, NAssumption DEF Nodes
    <2>2. QED
      BY <2>1 DEF Ledger
  <1>1. CASE ~(About(e) /\ n = e.node)
    <2>1. M.node[n] = L.node[n] /\ M.gate[n] = L.gate[n]
      BY <1>1, NodeAfter
    <2>2. QED
      BY <2>1 DEF Ledger, State, answered_unfinished
  <1>2. CASE About(e) /\ n = e.node
    <2>1. /\ State(L, n) \in NodeStates /\ L.node[n].pre \in NodeStates
          /\ L.gate[n].round \in {"none", "open", "answered"}
          /\ L.seq \in Nat /\ L.node[n].finished \in 0..L.seq /\ L.node[n].failed \in 0..L.seq
          /\ L.gate[n].answeredAt \in 0..L.seq /\ M.seq = L.seq + 1
      BY NodeAfter DEF Recorded, NodeRecord, GateRecord, State
    <2>2. e.kind = "gate_waiting" => e.with \in {"gate", "pr"}
      BY DEF Events
    <2>3. /\ (L.gate[n].round = "open") <=> (State(L, n) = "questions")
          /\ State(L, n) = "questions" => L.node[n].pre = "running"
          /\ L.gate[n].round # "none" => Kind[n] = "asks"
          /\ answered_unfinished(L, n) => State(L, n) = "running"
          /\ L.node[n].pre # "questions"
          /\ "pr" \in {State(L, n), L.node[n].pre} => is_gate(n)
      BY DEF Ledger
    <2>4. CASE e.kind = "node_started"
      <3>1. /\ State(M, n) = "running"
            /\ M.node[n].pre = L.node[n].pre
            /\ M.gate[n].round = L.gate[n].round /\ M.gate[n].answeredAt = L.gate[n].answeredAt
            /\ M.node[n].finished = L.node[n].finished /\ M.node[n].failed = L.node[n].failed
        BY <1>2, <2>4, StateAfter
      <3>2. L.gate[n].round # "open"
        BY <1>2, <2>4 DEF Fit, Openings, Loose
      <3>3. QED
        BY <2>1, <2>2, <2>3, <3>1, <3>2 DEF answered_unfinished, Later, Loose
    <2>5. CASE e.kind \in Terminals
      <3>1. /\ State(M, n) \in {"finished", "failed"}
            /\ M.node[n].pre = L.node[n].pre
            /\ M.gate[n].round = L.gate[n].round /\ M.gate[n].answeredAt = L.gate[n].answeredAt
            /\ M.node[n].finished = M.seq \/ M.node[n].failed = M.seq
            /\ M.node[n].finished \in {M.seq, L.node[n].finished}
            /\ M.node[n].failed \in {M.seq, L.node[n].failed}
        BY <1>2, <2>5, StateAfter DEF Terminals
      <3>2. State(L, n) = "running"
        BY <1>2, <2>5 DEF Fit
      <3>3. QED
        BY <2>1, <2>2, <2>3, <3>1, <3>2 DEF answered_unfinished, Later, Loose
    <2>6. CASE e.kind = "gate_waiting"
      <3>1. /\ State(M, n) = e.with
            /\ M.node[n].pre = State(L, n)
            /\ M.gate[n].round = L.gate[n].round /\ M.gate[n].answeredAt = L.gate[n].answeredAt
            /\ M.node[n].finished = L.node[n].finished /\ M.node[n].failed = L.node[n].failed
        BY <1>2, <2>6, StateAfter
      <3>2. /\ Loose(L, n) /\ (e.with = "pr" => is_gate(n))
        BY <1>2, <2>6 DEF Fit, Openings
      <3>3. QED
        BY <2>1, <2>2, <2>3, <2>6, <3>1, <3>2 DEF answered_unfinished, Loose
    <2>7. CASE e.kind = "gate_resolved"
      <3>1. /\ State(M, n) = IF State(L, n) \in Waits THEN L.node[n].pre ELSE State(L, n)
            /\ M.node[n].pre \in {"none", L.node[n].pre}
            /\ M.gate[n].round = L.gate[n].round /\ M.gate[n].answeredAt = L.gate[n].answeredAt
            /\ M.node[n].finished = L.node[n].finished /\ M.node[n].failed = L.node[n].failed
        BY <1>2, <2>7, StateAfter
      <3>2. Loose(L, n)
        BY <1>2, <2>7 DEF Fit, Openings
      <3>3. QED
        BY <2>1, <2>2, <2>3, <3>1, <3>2 DEF answered_unfinished, Later, Loose
    <2>8. CASE e.kind = "questions_asked"
      <3>1. /\ State(M, n) = "questions" /\ M.node[n].pre = State(L, n)
            /\ M.gate[n].round = "open" /\ M.gate[n].answeredAt = 0
        BY <1>2, <2>8, StateAfter
      <3>2. State(L, n) = "running" /\ Kind[n] = "asks"
        BY <1>2, <2>8 DEF Fit
      <3>3. QED
        BY <2>1, <2>2, <2>3, <3>1, <3>2 DEF answered_unfinished, Later
    <2>9. CASE e.kind = "questions_answered"
      <3>1. /\ State(M, n) = "running" /\ M.node[n].pre = "none"
            /\ M.gate[n].round = "answered" /\ M.gate[n].answeredAt = M.seq
            /\ M.node[n].finished = L.node[n].finished /\ M.node[n].failed = L.node[n].failed
        BY <1>2, <2>9, StateAfter
      <3>2. L.gate[n].round = "open"
        BY <1>2, <2>9 DEF Fit
      <3>3. QED
        BY <2>1, <2>2, <2>3, <3>1, <3>2 DEF answered_unfinished, Later
    <2>10. CASE e.kind \notin Terminals \cup Openings \cup {"questions_asked", "questions_answered"}
      <3>1. /\ State(M, n) = State(L, n)
            /\ M.node[n].pre = L.node[n].pre
            /\ M.gate[n].round = L.gate[n].round /\ M.gate[n].answeredAt = L.gate[n].answeredAt
            /\ M.node[n].finished = L.node[n].finished /\ M.node[n].failed = L.node[n].failed
        BY <1>2, <2>10, StateAfter DEF Terminals, Openings
      <3>2. QED
        BY <2>1, <2>3, <3>1 DEF answered_unfinished, Later
    <2>11. QED
      BY <2>4, <2>5, <2>6, <2>7, <2>8, <2>9, <2>10 DEF Openings
  <1>3. QED
    BY <1>1, <1>2

\* Only its own questions leave a node owing a terminal.
LEMMA LooseKept ==
  ASSUME NEW L, Recorded(L), ~L.broken, Ledger(L), NEW e \in Events, Fit(L, e),
         NEW M, M = apply(L, e), NEW n \in Nodes, Loose(L, n),
         e.kind = "questions_asked" => e.node # n
  PROVE  Loose(M, n)
  <1>1. CASE ~(About(e) /\ n = e.node)
    BY <1>1, NodeAfter DEF Loose, answered_unfinished
  <1>2. CASE About(e) /\ n = e.node
    <2>1. /\ L.seq \in Nat /\ L.node[n].finished \in 0..L.seq /\ L.node[n].failed \in 0..L.seq
          /\ L.gate[n].answeredAt \in 0..L.seq /\ M.seq = L.seq + 1
      BY NodeAfter DEF Recorded, NodeRecord, GateRecord
    <2>2. e.kind # "questions_answered"
      BY <1>2 DEF Fit, Loose
    <2>3. QED
      BY <1>2, <2>1, <2>2, StateAfter DEF Loose, answered_unfinished, Later
  <1>3. QED
    BY <1>1, <1>2

-----------------------------------------------------------------------------
\* Kinds about a node name one.
LEMMA NodesNotZero ==
  ASSUME NEW e \in Events, e.kind \in OfNodes
  PROVE  About(e) /\ e.node \in Nodes
  BY NAssumption DEF Events, About, Nodes, OfNodes

\* The next event of a sound script fits, and what is left of it is sound.
LEMMA SoundHead ==
  ASSUME NEW L, Ledger(L), NEW s \in Seq(Events), s # <<>>, Sound(L, s)
  PROVE  Fit(L, Head(s))
  <1>1. 1 \in 1..Len(s) /\ Head(s) = s[1]
    OBVIOUS
  <1>2. ~ (1 - 1 \in 1..Len(s))
    OBVIOUS
  <1>3. /\ s[1].kind \in Terminals => State(L, s[1].node) = "running"
        /\ s[1].kind \in Openings => Loose(L, s[1].node)
        /\ s[1].kind = "gate_waiting" /\ s[1].with = "pr" => is_gate(s[1].node)
        /\ s[1].kind = "questions_answered" => L.gate[s[1].node].round = "open"
        /\ s[1].kind # "questions_asked"
    BY <1>1, <1>2 DEF Sound, Open, Restored, Is
  <1>4. QED
    BY <1>1, <1>3 DEF Fit

\* What is left to append fits the log the first of it leaves.
LEMMA SoundTail ==
  ASSUME NEW L, Recorded(L), ~L.broken, Ledger(L), NEW s \in Seq(Events), s # <<>>, Sound(L, s),
         NEW M, M = apply(L, Head(s))
  PROVE  Sound(M, Tail(s))
  <1> DEFINE t == Tail(s)
             e == Head(s)
  <1>1. /\ t \in Seq(Events) /\ Len(t) = Len(s) - 1 /\ Len(s) \in Nat /\ e \in Events
        /\ e = s[1] /\ \A i \in 1..Len(t) : t[i] = s[i + 1] /\ i + 1 \in 1..Len(s)
    OBVIOUS
  <1>2. Fit(L, e)
    BY SoundHead
  <1> HIDE DEF t, e
  <1>3. SUFFICES ASSUME NEW i \in 1..Len(t), NEW n, n = t[i].node
        PROVE  /\ t[i].kind \in Terminals => Open(M, t, i, n) \/ Restored(M, t, i, n)
               /\ t[i].kind \in Openings => Loose(M, n)
               /\ t[i].kind = "node_started" => is_gate(n)
               /\ t[i].kind = "gate_waiting" /\ t[i].with = "pr" => is_gate(n)
               /\ t[i].kind = "questions_answered" => Len(t) = 1 /\ M.gate[n].round = "open"
               /\ t[i].kind # "questions_asked"
    BY DEF Sound, t
  <1>4. /\ s[i + 1].kind \in Terminals => Open(L, s, i + 1, n) \/ Restored(L, s, i + 1, n)
        /\ s[i + 1].kind \in Openings => Loose(L, n)
        /\ s[i + 1].kind = "node_started" => is_gate(n)
        /\ s[i + 1].kind = "gate_waiting" /\ s[i + 1].with = "pr" => is_gate(n)
        /\ s[i + 1].kind = "questions_answered" => Len(s) = 1
        /\ s[i + 1].kind # "questions_asked"
    BY <1>1, <1>3 DEF Sound
  <1>5. t[i] \in Events /\ t[i] = s[i + 1]
    BY <1>1
  <1>6. e.kind # "questions_asked"
    <2>1. 1 \in 1..Len(s)
      BY <1>1
    <2>2. QED
      BY <1>1, <2>1 DEF Sound
  <1>7. t[i].kind \in Openings => Loose(M, n)
    <2>1. t[i].kind \in Openings => n \in Nodes
      BY <1>3, <1>5, NodesNotZero DEF OfNodes, Kinds, Openings
    <2>2. QED
      BY <1>1, <1>2, <1>4, <1>5, <1>6, <2>1, LooseKept DEF e
  <1>8. ASSUME t[i].kind \in Terminals
        PROVE  Open(M, t, i, n) \/ Restored(M, t, i, n)
    <2>1. n \in Nodes
      BY <1>3, <1>5, <1>8, NodesNotZero DEF OfNodes, Kinds, Terminals
    <2>2. M = apply(L, e)
      BY DEF e
    <2>3. e.kind = "node_started" /\ e.node = n => State(M, n) = "running"
      BY <1>1, <1>2, <2>1, <2>2, StateAfter, NodesNotZero DEF OfNodes, Kinds, Openings, Terminals
    <2>4. e.kind = "gate_resolved" /\ e.node = n
            /\ (State(L, n) = "running" \/ (State(L, n) \in Waits /\ L.node[n].pre = "running"))
            => State(M, n) = "running"
      BY <1>1, <1>2, <2>1, <2>2, StateAfter, NodesNotZero DEF OfNodes, Kinds, Openings, Terminals, Waits
    <2>5. e.kind = "gate_waiting" /\ e.node = n /\ State(L, n) = "running"
            => State(M, n) \in Waits /\ M.node[n].pre = "running"
      <3>1. e.kind = "gate_waiting" => e.with \in Waits
        BY <1>1 DEF Events, Waits
      <3>2. QED
        BY <1>1, <1>2, <2>1, <2>2, <3>1, StateAfter, NodesNotZero DEF OfNodes, Kinds, Openings, Terminals
    <2>6. \A kind, j \in 1..Len(s) : Is(s, j, kind, n) /\ j # 1 => Is(t, j - 1, kind, n)
      BY <1>1 DEF Is
    <2>7. \A kind : Is(s, 1, kind, n) => e.kind = kind /\ e.node = n
      BY <1>1 DEF Is
    <2>8. CASE i = 1
      <3>1. CASE Is(s, 1, "node_started", n)
        BY <2>3, <2>7, <2>8, <3>1 DEF Open
      <3>2. ASSUME /\ Is(s, 1, "gate_resolved", n)
                   /\ \/ State(L, n) = "running"
                      \/ State(L, n) \in Waits /\ L.node[n].pre = "running"
            PROVE  Open(M, t, i, n)
        <4>1. e.kind = "gate_resolved" /\ e.node = n
          BY <2>7, <3>2, Zenon
        <4>2. State(M, n) = "running"
          BY <2>4, <3>2, <4>1, Zenon
        <4>3. QED
          BY <2>8, <4>2 DEF Open
      <3>3. i + 1 \in Nat /\ i + 1 = 2 /\ i + 1 # 1 /\ (i + 1) - 1 = 1
        BY <2>8
      <3>4. ASSUME NEW j \in Nat, j = 2, Restored(L, s, j, n)
            PROVE  /\ Is(s, 1, "gate_resolved", n)
                   /\ \/ State(L, n) = "running"
                      \/ State(L, n) \in Waits /\ L.node[n].pre = "running"
        <4>1. j = 2 /\ Restored(L, s, j, n)
          BY <3>4
        <4>2. ~Is(s, j - 2, "gate_waiting", n) /\ ~Is(s, (j - 1) - 1, "node_started", n)
          BY <1>1, <4>1 DEF Is
        <4>3. /\ Is(s, j - 1, "gate_resolved", n)
              /\ \/ Open(L, s, j - 1, n)
                 \/ State(L, n) \in Waits /\ L.node[n].pre = "running"
          BY <4>1, <4>2 DEF Restored
        <4>4. Open(L, s, j - 1, n) => State(L, n) = "running"
          BY <4>2 DEF Open
        <4>5. Is(s, 1, "gate_resolved", n)
          BY <4>1, <4>3 DEF Is
        <4>6. QED
          BY <4>3, <4>4, <4>5
      <3>5. CASE Open(L, s, i + 1, n)
        <4>1. Is(s, (i + 1) - 1, "node_started", n)
          BY <3>3, <3>5 DEF Open
        <4>2. Is(s, 1, "node_started", n)
          BY <3>3, <4>1 DEF Is
        <4>3. QED
          BY <3>1, <4>2
      <3>6. CASE Restored(L, s, i + 1, n)
        <4> DEFINE j == i + 1
        <4>1. j \in Nat /\ j = 2 /\ Restored(L, s, j, n)
          BY <3>3, <3>6
        <4> HIDE DEF j
        <4>2. /\ Is(s, 1, "gate_resolved", n)
              /\ \/ State(L, n) = "running"
                 \/ State(L, n) \in Waits /\ L.node[n].pre = "running"
          BY <3>4, <4>1
        <4>3. QED
          BY <3>2, <4>2
      <3>7. QED
        BY <1>4, <1>5, <1>8, <3>5, <3>6
    <2>9. CASE i # 1
      <3>1. i + 1 \in Nat /\ i - 1 \in Nat \ {0} /\ i \in Nat
        BY <1>3, <2>9
      <3>2. Open(L, s, i + 1, n) => Open(M, t, i, n)
        <4>1. Open(L, s, i + 1, n) => Is(s, i, "node_started", n)
          BY <3>1, <2>9 DEF Open
        <4>2. Is(s, i, "node_started", n) => Is(t, i - 1, "node_started", n)
          BY <1>1, <2>9, <3>1 DEF Is
        <4>3. QED
          BY <4>1, <4>2 DEF Open
      <3>3. Restored(L, s, i + 1, n) => Restored(M, t, i, n)
        <4>1. SUFFICES ASSUME Restored(L, s, i + 1, n) PROVE Restored(M, t, i, n)
          OBVIOUS
        <4>2. Is(s, i, "gate_resolved", n) /\ Is(t, i - 1, "gate_resolved", n)
          BY <1>1, <2>9, <3>1, <4>1 DEF Restored, Is
        <4>3. \/ Open(L, s, i, n)
              \/ Is(s, i - 1, "gate_waiting", n) /\ Open(L, s, i - 1, n)
          BY <2>9, <3>1, <4>1 DEF Restored
        <4>4. CASE Open(L, s, i, n)
          <5>1. Is(s, i - 1, "node_started", n)
            BY <2>9, <4>4 DEF Open
          <5>2. CASE i = 2
            <6>1. State(M, n) = "running"
              BY <2>3, <2>7, <5>1, <5>2
            <6>2. QED
              BY <4>2, <5>2, <6>1 DEF Restored, Open
          <5>3. CASE i # 2
            <6>1. Is(t, i - 2, "node_started", n)
              BY <1>1, <3>1, <5>1, <5>3 DEF Is
            <6>2. QED
              BY <3>1, <4>2, <6>1 DEF Restored, Open
          <5>4. QED
            BY <5>2, <5>3
        <4>5. CASE Is(s, i - 1, "gate_waiting", n) /\ Open(L, s, i - 1, n)
          <5>1. CASE i = 2
            <6>1. State(L, n) = "running"
              BY <4>5, <5>1 DEF Open, Is
            <6>2. State(M, n) \in Waits /\ M.node[n].pre = "running"
              BY <2>5, <2>7, <4>5, <5>1, <6>1
            <6>3. QED
              BY <4>2, <5>1, <6>2 DEF Restored
          <5>2. CASE i # 2
            <6>1. Is(t, i - 2, "gate_waiting", n)
              BY <1>1, <3>1, <4>5, <5>2 DEF Is
            <6>2. Is(s, i - 2, "node_started", n)
              BY <3>1, <4>5, <5>2, <2>9 DEF Open
            <6>3. Open(M, t, i - 2, n)
              <7>1. CASE i = 3
                BY <2>3, <2>7, <6>2, <7>1 DEF Open
              <7>2. CASE i # 3
                <8>1. Is(t, i - 3, "node_started", n)
                  BY <1>1, <3>1, <5>2, <6>2, <7>2 DEF Is
                <8>2. QED
                  BY <3>1, <8>1 DEF Open
              <7>3. QED
                BY <7>1, <7>2
            <6>4. QED
              BY <4>2, <6>1, <6>3 DEF Restored
          <5>3. QED
            BY <5>1, <5>2
        <4>6. QED
          BY <4>3, <4>4, <4>5
      <3>4. QED
        BY <1>4, <1>5, <1>8, <3>2, <3>3
    <2>10. QED
      BY <2>8, <2>9
  <1>9. QED
    BY <1>1, <1>4, <1>5, <1>7, <1>8

-----------------------------------------------------------------------------
\* The kinds of the events the engine and its callers write.
LEMMA Said ==
  ASSUME NEW n, NEW x
  PROVE  /\ Started(n, x).kind = "node_started" /\ Started(n, x).node = n
         /\ Finished(n).kind = "node_finished" /\ Finished(n).node = n
         /\ Failed(n, x).kind = "node_failed" /\ Failed(n, x).node = n
         /\ Waiting(n, x).kind = "gate_waiting" /\ Waiting(n, x).node = n /\ Waiting(n, x).with = x
         /\ Resolved(n, x).kind = "gate_resolved" /\ Resolved(n, x).node = n /\ Resolved(n, x).with = x
         /\ QuestionsAsked(n).kind = "questions_asked" /\ QuestionsAsked(n).node = n
         /\ QuestionsAnswered(n).kind = "questions_answered" /\ QuestionsAnswered(n).node = n
         /\ RunPaused(n).kind = "run_paused" /\ RunResumed(x).kind = "run_resumed"
         /\ PromotionSignaled.kind = "promotion_signaled"
         /\ RunFinished(x).kind = "run_finished" /\ RunFinished(x).with = x
  BY DEF Started, Finished, Failed, Waiting, Resolved, QuestionsAsked, QuestionsAnswered, RunPaused,
         RunResumed, PromotionSignaled, RunFinished, Event

\* What a reroute says.
LEMMA SaidRerouted ==
  ASSUME NEW n, NEW to, NEW origin
  PROVE  /\ Rerouted(n, to, origin).kind = "node_rerouted" /\ Rerouted(n, to, origin).node = n
         /\ Rerouted(n, to, origin).with = origin
  BY DEF Rerouted, Event

\* Events no other one has to precede, and the roles of the others.
Plain(e) == e.kind \notin Terminals \cup Openings \cup {"questions_asked", "questions_answered"}

\* A terminal, or its absence, before the last events of a script.
Ends(e, n) == e.node = n /\ e.kind \in Terminals

\* n starts,
Opens(e, n) == e.node = n /\ e.kind = "node_started"

\* n waits on a person,
Waited(e, n) == e.node = n /\ e.kind = "gate_waiting" /\ e.with = "gate"

\* and n's wait ends.
Resolves(e, n) == e.node = n /\ e.kind = "gate_resolved"

\* Scripts of each shape the engine and the calls make are sound: events that need no other,
LEMMA PlainSound ==
  ASSUME NEW L, NEW p, Plain(p), NEW q, Plain(q)
  PROVE  Sound(L, <<>>) /\ Sound(L, <<p>>) /\ Sound(L, <<p, q>>)
  <1> USE DEF Plain, Terminals, Openings
  <1>1. Sound(L, <<>>)
    BY DEF Sound
  <1>2. Sound(L, <<p>>)
    BY DEF Sound
  <1>3. Sound(L, <<p, q>>)
    BY DEF Sound
  <1>4. QED
    BY <1>1, <1>2, <1>3

\* the terminal of a running node,
LEMMA TerminalSound ==
  ASSUME NEW L, NEW n, State(L, n) = "running", NEW f, Ends(f, n)
  PROVE  Sound(L, <<f>>)
  BY DEF Sound, Ends, Open, Terminals, Openings

\* the answer to an open round,
LEMMA AnswerSound ==
  ASSUME NEW L, NEW n, L.gate[n].round = "open", NEW a, a.node = n, a.kind = "questions_answered"
  PROVE  Sound(L, <<a>>)
  BY DEF Sound, Terminals, Openings

\* the pair that records a decision, with what follows it,
LEMMA PairSound ==
  ASSUME NEW L, NEW n, Loose(L, n), NEW w, Waited(w, n), NEW r, Resolves(r, n),
         NEW p, Plain(p), NEW q, Plain(q)
  PROVE  /\ Sound(L, <<w, r>>) /\ Sound(L, <<w, r, p>>) /\ Sound(L, <<w, r, p, q>>)
         /\ Sound(L, <<r, p>>)
  BY DEF Sound, Waited, Resolves, Plain, Terminals, Openings

\* and a gate's attempt from its start to its terminal.
LEMMA StartSound ==
  ASSUME NEW L, NEW n, Loose(L, n), is_gate(n), NEW o, Opens(o, n), NEW f, Ends(f, n),
         NEW w, Waited(w, n), NEW r, Resolves(r, n), NEW p, Plain(p)
  PROVE  /\ Sound(L, <<o>>) /\ Sound(L, <<o, f>>) /\ Sound(L, <<o, f, p>>)
         /\ Sound(L, <<o, r, f>>)
         /\ Sound(L, <<o, w, r, f>>) /\ Sound(L, <<o, w, r, f, p>>)
         /\ Sound(L, <<w, r, o, f>>)
  <1> USE DEF Opens, Ends, Waited, Resolves, Plain, Terminals, Openings
  <1>1. Sound(L, <<o>>)
    BY DEF Sound
  <1>2. Sound(L, <<o, f>>)
    BY DEF Sound, Open, Is
  <1>3. Sound(L, <<o, f, p>>)
    BY DEF Sound, Open, Is
  <1>4. Sound(L, <<o, r, f>>)
    BY DEF Sound, Open, Restored, Is
  <1>5. Sound(L, <<o, w, r, f>>)
    BY DEF Sound, Open, Restored, Is
  <1>6. Sound(L, <<o, w, r, f, p>>)
    BY DEF Sound, Open, Restored, Is
  <1>7. Sound(L, <<w, r, o, f>>)
    BY DEF Sound, Open, Is
  <1>8. QED
    BY <1>1, <1>2, <1>3, <1>4, <1>5, <1>6, <1>7

-----------------------------------------------------------------------------
\* Concatenations of short sequences, written out.
LEMMA JoinLong ==
  ASSUME NEW S, NEW s \in Seq(S), NEW t \in Seq(S), NEW u \in Seq(S), Len(u) = Len(s) + Len(t),
     \A i \in 1..Len(s) : u[i] = s[i],
     \A i \in 1..Len(t) : u[Len(s) + i] = t[i]
  PROVE s \o t = u
  <1>1. s \o t \in Seq(S) /\ Len(s \o t) = Len(u)
    OBVIOUS
  <1>2. ASSUME NEW i \in 1..Len(u) PROVE (s \o t)[i] = u[i]
    <2>1. CASE i <= Len(s)
      BY <2>1
    <2>2. CASE i > Len(s)
      <3>1. i - Len(s) \in 1..Len(t) /\ i = Len(s) + (i - Len(s))
        BY <2>2
      <3>2. QED BY <2>2, <3>1
    <2>3. QED BY <2>1, <2>2
  <1>3. QED BY <1>1, <1>2, SeqEqual

\* One and one,
LEMMA Join11 ==
  ASSUME NEW a, NEW b
  PROVE  <<a>> \o <<b>> = <<a, b>>
  <1> DEFINE S == {a, b}
             s == <<a>>
             t == <<b>>
             u == <<a, b>>
  <1>1. s \in Seq(S) /\ t \in Seq(S) /\ u \in Seq(S) /\ Len(u) = Len(s) + Len(t)
    OBVIOUS
  <1>2. /\ \A i \in 1..Len(s) : u[i] = s[i]
        /\ \A i \in 1..Len(t) : u[Len(s) + i] = t[i]
    <2>1. \A i \in 1..1 : i = 1 /\ 1 + i = 2
      OBVIOUS
    <2>2. Len(s) = 1 /\ Len(t) = 1 /\ u[1] = a /\ u[2] = b /\ s[1] = a /\ t[1] = b
      OBVIOUS
    <2>3. QED
      BY <2>1, <2>2
  <1> HIDE DEF s, t, u, S
  <1>3. s \o t = u
    BY <1>1, <1>2, JoinLong, Zenon
  <1>4. QED
    BY <1>3 DEF s, t, u

\* one and two,
LEMMA Join12 ==
  ASSUME NEW a, NEW b, NEW c
  PROVE  <<a>> \o <<b, c>> = <<a, b, c>>
  <1> DEFINE S == {a, b, c}
             s == <<a>>
             t == <<b, c>>
             u == <<a, b, c>>
  <1>1. s \in Seq(S) /\ t \in Seq(S) /\ u \in Seq(S) /\ Len(u) = Len(s) + Len(t)
    OBVIOUS
  <1>2. /\ \A i \in 1..Len(s) : u[i] = s[i]
        /\ \A i \in 1..Len(t) : u[Len(s) + i] = t[i]
    OBVIOUS
  <1> HIDE DEF s, t, u, S
  <1>3. s \o t = u
    BY <1>1, <1>2, JoinLong, Zenon
  <1>4. QED
    BY <1>3 DEF s, t, u

\* two and one,
LEMMA Join21 ==
  ASSUME NEW a, NEW b, NEW c
  PROVE  <<a, b>> \o <<c>> = <<a, b, c>>
  <1> DEFINE S == {a, b, c}
             s == <<a, b>>
             t == <<c>>
             u == <<a, b, c>>
  <1>1. s \in Seq(S) /\ t \in Seq(S) /\ u \in Seq(S) /\ Len(u) = Len(s) + Len(t)
    OBVIOUS
  <1>2. /\ \A i \in 1..Len(s) : u[i] = s[i]
        /\ \A i \in 1..Len(t) : u[Len(s) + i] = t[i]
    OBVIOUS
  <1> HIDE DEF s, t, u, S
  <1>3. s \o t = u
    BY <1>1, <1>2, JoinLong, Zenon
  <1>4. QED
    BY <1>3 DEF s, t, u

\* two and two,
LEMMA Join22 ==
  ASSUME NEW a, NEW b, NEW c, NEW d
  PROVE  <<a, b>> \o <<c, d>> = <<a, b, c, d>>
  <1> DEFINE S == {a, b, c, d}
             s == <<a, b>>
             t == <<c, d>>
             u == <<a, b, c, d>>
  <1>1. s \in Seq(S) /\ t \in Seq(S) /\ u \in Seq(S) /\ Len(u) = Len(s) + Len(t)
    OBVIOUS
  <1>2. /\ \A i \in 1..Len(s) : u[i] = s[i]
        /\ \A i \in 1..Len(t) : u[Len(s) + i] = t[i]
    OBVIOUS
  <1> HIDE DEF s, t, u, S
  <1>3. s \o t = u
    BY <1>1, <1>2, JoinLong, Zenon
  <1>4. QED
    BY <1>3 DEF s, t, u

\* three and one,
LEMMA Join31 ==
  ASSUME NEW a, NEW b, NEW c, NEW d
  PROVE  <<a, b, c>> \o <<d>> = <<a, b, c, d>>
  <1> DEFINE S == {a, b, c, d}
             s == <<a, b, c>>
             t == <<d>>
             u == <<a, b, c, d>>
  <1>1. s \in Seq(S) /\ t \in Seq(S) /\ u \in Seq(S) /\ Len(u) = Len(s) + Len(t)
    OBVIOUS
  <1>2. /\ \A i \in 1..Len(s) : u[i] = s[i]
        /\ \A i \in 1..Len(t) : u[Len(s) + i] = t[i]
    OBVIOUS
  <1> HIDE DEF s, t, u, S
  <1>3. s \o t = u
    BY <1>1, <1>2, JoinLong, Zenon
  <1>4. QED
    BY <1>3 DEF s, t, u

\* three and two.
LEMMA Join32 ==
  ASSUME NEW a, NEW b, NEW c, NEW d, NEW e
  PROVE  <<a, b, c>> \o <<d, e>> = <<a, b, c, d, e>>
  <1> DEFINE S == {a, b, c, d, e}
             s == <<a, b, c>>
             t == <<d, e>>
             u == <<a, b, c, d, e>>
  <1>1. s \in Seq(S) /\ t \in Seq(S) /\ u \in Seq(S) /\ Len(u) = Len(s) + Len(t)
    OBVIOUS
  <1>2. /\ \A i \in 1..Len(s) : u[i] = s[i]
        /\ \A i \in 1..Len(t) : u[Len(s) + i] = t[i]
    OBVIOUS
  <1> HIDE DEF s, t, u, S
  <1>3. s \o t = u
    BY <1>1, <1>2, JoinLong, Zenon
  <1>4. QED
    BY <1>3 DEF s, t, u

\* A node that is a gate, or that neither runs nor asks, has no round to keep.
LEMMA LooseNode ==
  ASSUME NEW L, Ledger(L), NEW n \in Nodes,
         is_gate(n) \/ State(L, n) \notin {"running", "questions"}
  PROVE  Loose(L, n)
  BY DEF Ledger, Loose, is_gate, answered_unfinished

\* A review that is published, or polled.
LEMMA ReviewSound ==
  ASSUME NEW L, NEW n, Loose(L, n), is_gate(n), NEW p, Plain(p)
  PROVE  Sound(L, <<Waiting(n, "pr"), p>>)
  BY Said DEF Sound, Plain, Terminals, Openings

\* The inductive invariant.
Order ==
    /\ Apart /\ Quiet /\ ~log.broken /\ Ledger(log) /\ AtWork /\ Scripted

\* A step that gives the engine a sound script keeps it.
LEMMA AppendsKept ==
  ASSUME Typed, Order, NEW s \in Seq(Events), Sound(log, s), eng.at # "down", Landed, Appends(s)
  PROVE  Order'
  <1>1. /\ eng' = [eng EXCEPT !.at = "loop", !.asks = Nothing, !.script = s]
        /\ UNCHANGED <<log, crashed, calls>>
    BY DEF Appends
  <1>2. eng'.at = "loop" /\ eng'.script = s /\ eng'.batch = eng.batch
    BY <1>1 DEF Typed, EngineTyped
  <1>3. Apart' /\ Quiet'
    BY <1>1, <1>2 DEF Order, Apart, Quiet, Landed
  <1>4. AtWork'
    BY <1>1, <1>2 DEF Order, AtWork, Landed, Working
  <1>5. Scripted'
    BY <1>1, <1>2 DEF Order, Scripted
  <1>6. QED
    BY <1>1, <1>3, <1>4, <1>5 DEF Order

\* A pause of the run,
LEMMA PauseSaid == RunPaused(0) \in Events /\ RunPaused(0).kind = "run_paused"
  <1>1. RunPaused(0) \in Events
    BY NAssumption, RunEvents
  <1>2. RunPaused(0).kind = "run_paused"
    BY Said
  <1>3. QED
    BY <1>1, <1>2

\* which always fits.
LEMMA PauseSound ==
  ASSUME NEW L
  PROVE  <<RunPaused(0)>> \in Seq(Events) /\ Sound(L, <<RunPaused(0)>>)
  <1>1. RunPaused(0) \in Events
    BY NAssumption, RunEvents
  <1>2. Plain(RunPaused(0))
    BY Said DEF Plain, Terminals, Openings
  <1>3. Sound(L, <<RunPaused(0)>>)
    BY <1>2, PlainSound
  <1>4. QED
    BY <1>1, <1>3

\* What a step that asks nobody appends.
LEMMA StepSound ==
  ASSUME Typed, Order, decide(log).do \in {"Finish", "Fail", "Pause", "WaitUntil", "Reroute",
                           "FinishAnswered"}
  PROVE  Sound(log, step(decide(log)))
  <1> DEFINE d == decide(log)
  <1>1. Decided(log, d)
    BY Decides DEF Typed, Order
  <1> HIDE DEF d
  <1>2. CASE d.do = "FinishAnswered"
    <2>1. OnAnswer(log, d)
      BY <1>1, <1>2 DEF Decided, OnGate, OnWait, OnBatch, OnFailed, OnNone, Decision
    <2>2. State(log, d.node) = "running"
      BY <2>1 DEF OnAnswer, Order, Ledger
    <2>3. step(d) = <<Finished(d.node)>>
      BY <1>2 DEF step
    <2>4. Ends(Finished(d.node), d.node)
      BY Said DEF Ends, Terminals
    <2>5. QED
      BY <2>2, <2>3, <2>4, TerminalSound DEF d
  <1>3. CASE d.do = "Reroute"
    <2>1. step(d) = <<Rerouted(d.node, Goto[d.node], "on_failure")>>
      BY <1>3 DEF step
    <2>2. Plain(Rerouted(d.node, Goto[d.node], "on_failure"))
      BY SaidRerouted DEF Plain, Terminals, Openings
    <2>3. QED
      BY <2>1, <2>2, PlainSound DEF d
  <1>4. CASE d.do \in {"Finish", "Fail", "Pause", "WaitUntil"}
    <2>1. PICK p : step(d) = <<p>> /\ p.kind \in {"run_finished", "run_paused"}
      BY <1>4, Said DEF step
    <2>2. Plain(p)
      BY <2>1 DEF Plain, Terminals, Openings
    <2>3. QED
      BY <2>1, <2>2, PlainSound DEF d
  <1>5. QED
    BY <1>2, <1>3, <1>4 DEF d

\* Where a decision that a person takes finds its node.
LEMMA AskedNode ==
  ASSUME Typed, Order, NEW d, d = decide(log), PutsToAPerson(d)
  PROVE  /\ d.node \in Nodes
         /\ d.do = "AskQuestions" => log.gate[d.node].round = "open"
         /\ d.do # "AskQuestions" => Loose(log, d.node)
         /\ d.do \in {"ResolveInternalGate", "PublishGate", "PollGate"} => is_gate(d.node)
  <1>1. Decided(log, d)
    BY Decides DEF Typed, Order
  <1>2. Asked(d)
    BY AskedDecision DEF Typed
  <1>3. CASE d.do = "AskQuestions"
    <2>1. OnWait(log, d)
      BY <1>1, <1>3 DEF Decided, OnGate, OnAnswer, OnBatch, OnFailed, OnNone, Decision
    <2>2. QED
      BY <1>2, <1>3, <2>1 DEF OnWait, Order, Ledger, Asked
  <1>4. CASE d.do = "ResolveInternalGate"
    <2>1. is_gate(d.node)
      BY <1>4 DEF PutsToAPerson, HasMenu, AtConsole
    <2>2. QED
      BY <1>2, <1>4, <2>1, LooseNode DEF Order, Asked
  <1>5. CASE d.do \in {"PublishGate", "PollGate"}
    <2>1. OnGate(d) \/ (OnWait(log, d) /\ State(log, d.node) = "pr")
      BY <1>1, <1>5 DEF Decided, OnWait, OnAnswer, OnBatch, OnFailed, OnNone, Decision
    <2>2. is_gate(d.node)
      BY <1>2, <2>1 DEF OnGate, Order, Ledger, Asked
    <2>3. QED
      BY <1>2, <1>5, <2>2, LooseNode DEF Order, Asked
  <1>6. CASE d.do \in {"GateExhaustedReroutes", "EscalateFailure"}
    <2>1. OnFailed(log, d)
      BY <1>1, <1>6 DEF Decided, OnGate, OnWait, OnAnswer, OnBatch, OnNone, Decision
    <2>2. Loose(log, d.node)
      BY <2>1, LooseNode DEF OnFailed, Order
    <2>3. QED
      BY <1>2, <1>6, <2>2 DEF Asked
  <1>7. QED
    BY <1>2, <1>3, <1>4, <1>5, <1>6 DEF Asked

\* What a choice appends fits, with the pair before it or with that of resolve_gate on the log.
LEMMA ConsequenceSound ==
  ASSUME Typed, Order, NEW d, d = decide(log), PutsToAPerson(d), d.do # "AskQuestions",
         NEW choice \in Menu(d), NEW said, (said = <<>> /\ HasMenu(d)) \/ said = pair(d.node, choice)
  PROVE  Sound(log, Consequence(d, choice, said))
  <1> DEFINE n == d.node
             w == Waiting(n, "gate")
             r == Resolved(n, choice)
             o == Started(n, next_attempt(log, n))
             p == RunPaused(0)
  <1>1. n \in Nodes /\ Loose(log, n)
    BY AskedNode
  <1>2. d.do \in {"ResolveInternalGate", "PublishGate", "PollGate"} => is_gate(n)
    BY AskedNode
  <1>3. said \in {<<>>, <<w, r>>} /\ (~HasMenu(d) => said = <<w, r>>)
    BY DEF pair
  <1>4. /\ Waited(w, n) /\ Resolves(r, n) /\ Opens(o, n) /\ Plain(p) /\ Plain(PromotionSignaled)
        /\ \A terminal : Plain(RunFinished(terminal))
    BY Said DEF Waited, Resolves, Opens, Plain, Terminals, Openings
  <1>5. \A to, origin : Plain(Rerouted(n, to, origin))
    BY SaidRerouted DEF Plain, Terminals, Openings
  <1>6. Ends(Finished(n), n) /\ \A cause : Ends(Failed(n, cause), n)
    BY Said DEF Ends, Terminals
  <1> HIDE DEF w, r, p, n
  <1>7. ASSUME NEW q, Plain(q)
        PROVE  Sound(log, said \o <<q>>)
    <2>1. said \o <<q>> \in {<<q>>, <<w, r, q>>}
      <3>1. <<>> \o <<q>> = <<q>>
        OBVIOUS
      <3>2. <<w, r>> \o <<q>> = <<w, r, q>>
        BY Join11, Join12, Join21, Join22, Join31, Join32
      <3>3. QED
        BY <1>3, <3>1, <3>2
    <2>2. QED
      BY <1>1, <1>4, <1>7, <2>1, PlainSound, PairSound
  <1>8. Sound(log, said \o <<>>)
    <2>1. said \o <<>> \in {<<>>, <<w, r>>}
      BY <1>3
    <2>2. QED
      BY <1>1, <1>4, <2>1, PlainSound, PairSound
  <1>9. CASE d.do = "GateExhaustedReroutes"
    <2>1. Sound(log, said \o <<PromotionSignaled, RunFinished("promoted")>>)
      <3>1. said \o <<PromotionSignaled, RunFinished("promoted")>> \in
               {<<PromotionSignaled, RunFinished("promoted")>>,
                <<w, r, PromotionSignaled, RunFinished("promoted")>>}
        <4> DEFINE x == PromotionSignaled
                   y == RunFinished("promoted")
        <4> HIDE DEF x, y
        <4>1. <<>> \o <<x, y>> = <<x, y>>
          OBVIOUS
        <4>2. <<w, r>> \o <<x, y>> = <<w, r, x, y>>
          BY Join11, Join12, Join21, Join22, Join31, Join32
        <4>3. QED
          BY <1>3, <4>1, <4>2 DEF x, y
      <3>2. QED
        BY <1>1, <1>4, <3>1, PlainSound, PairSound
    <2>2. Consequence(d, choice, said) = exhausted(d, choice, said)
      BY <1>9 DEF Consequence
    <2>3. Sound(log, said \o <<Rerouted(n, Goto[n], "on_failure")>>) /\ Sound(log, said \o <<p>>)
      BY <1>4, <1>5, <1>7
    <2>4. QED
      BY <2>1, <2>2, <2>3 DEF exhausted, p, n
  <1>10. CASE d.do = "EscalateFailure"
    <2>1. Consequence(d, choice, said) = failure_escalation(d, choice, said)
      BY <1>10 DEF Consequence
    <2>2. Sound(log, said \o <<p>>)
      BY <1>4, <1>7
    <2>3. QED
      BY <1>8, <2>1, <2>2 DEF failure_escalation, p
  <1>11. CASE d.do = "ResolveInternalGate"
    <2> DEFINE back == Failed(n, "stuck")
               route == Rerouted(n, SendsBack[n], "gate_choice")
               end == Finished(n)
    <2>1. Consequence(d, choice, said) = internal_gate(d, choice, said)
      BY <1>11 DEF Consequence
    <2>2. internal_gate(d, choice, said) \in
            {said \o <<p>>, <<o>> \o said \o <<back, route>>, <<o>> \o said \o <<end>>}
      BY DEF internal_gate, n, p
    <2>3. Ends(back, n) /\ Plain(route) /\ Ends(end, n) /\ is_gate(n)
      BY <1>2, <1>5, <1>6, <1>11
    <2> HIDE DEF o, back, route, end
    <2>4. /\ <<o>> \o said \in {<<o>>, <<o, w, r>>}
          /\ <<o>> \o <<back, route>> = <<o, back, route>>
          /\ <<o>> \o <<end>> = <<o, end>>
      <3>1. <<o>> \o <<>> = <<o>>
        OBVIOUS
      <3>2. /\ <<o>> \o <<end>> = <<o, end>> /\ <<o>> \o <<w, r>> = <<o, w, r>>
            /\ <<o>> \o <<back, route>> = <<o, back, route>>
        BY Join11, Join12, Join21, Join22, Join31, Join32
      <3>3. QED
        BY <1>3, <3>1, <3>2
    <2>5. /\ <<o>> \o said \o <<back, route>> \in {<<o, back, route>>, <<o, w, r, back, route>>}
          /\ <<o>> \o said \o <<end>> \in {<<o, end>>, <<o, w, r, end>>}
      <3>1. /\ <<o, w, r>> \o <<back, route>> = <<o, w, r, back, route>>
            /\ <<o, w, r>> \o <<end>> = <<o, w, r, end>>
        BY Join11, Join12, Join21, Join22, Join31, Join32
      <3>2. QED
        BY <2>4, <3>1
    <2>6. /\ Sound(log, <<o, back, route>>) /\ Sound(log, <<o, w, r, back, route>>)
          /\ Sound(log, <<o, end>>) /\ Sound(log, <<o, w, r, end>>)
      BY <1>1, <1>4, <2>3, StartSound
    <2>7. Sound(log, said \o <<p>>)
      BY <1>4, <1>7
    <2>8. QED
      BY <2>1, <2>2, <2>5, <2>6, <2>7
  <1>12. CASE d.do \notin {"GateExhaustedReroutes", "EscalateFailure", "ResolveInternalGate"}
    <2> DEFINE end == IF choice = "go" THEN Finished(n) ELSE Failed(n, "fixable")
    <2>1. Consequence(d, choice, said) = said \o <<o, end>>
      BY <1>12 DEF Consequence, console_gate, n
    <2>2. ~HasMenu(d) /\ d.do \in {"PublishGate", "PollGate"}
      BY <1>12 DEF PutsToAPerson, HasMenu, AtConsole
    <2>3. Ends(end, n) /\ is_gate(n)
      BY <1>2, <1>6, <2>2
    <2> HIDE DEF o, end
    <2>4. said \o <<o, end>> = <<w, r, o, end>>
      <3>1. <<w, r>> \o <<o, end>> = <<w, r, o, end>>
        BY Join11, Join12, Join21, Join22, Join31, Join32
      <3>2. QED
        BY <1>3, <2>2, <3>1
    <2>5. QED
      BY <1>1, <1>4, <2>1, <2>3, <2>4, StartSound
  <1>13. QED
    BY <1>9, <1>10, <1>11, <1>12

\* An engine that wakes or is down keeps the invariant.
LEMMA DownKept ==
  ASSUME Typed, Order, NEW s \in Seq(Events), Sound(log, s), NoCalls, eng'.at # "asking",
         eng'.at = "down" => eng' = Down, eng'.script = s, eng'.batch = [n \in Nodes |-> 0],
         log' = log, calls' = calls, crashed' = FALSE
  PROVE  Order'
  <1>1. Landed'
    BY DEF Landed
  <1>2. Apart'
    BY DEF Apart, NoCalls
  <1>3. Quiet' /\ AtWork'
    BY <1>1 DEF Quiet, AtWork, Landed, Working
  <1>4. Scripted' /\ Ledger(log)' /\ ~log'.broken
    BY DEF Order, Scripted
  <1>5. QED
    BY <1>2, <1>3, <1>4 DEF Order

\* The process is gone; what it had still to append is lost with it.
LEMMA GoneKept ==
  ASSUME Typed, Order, eng' = Down, log' = log, calls' = calls, crashed' \in BOOLEAN
  PROVE  Order'
  <1>1. eng'.at = "down" /\ eng'.script = <<>> /\ eng'.batch = [n \in Nodes |-> 0]
    BY DownTyped
  <1>2. Apart' /\ Quiet' /\ AtWork'
    BY <1>1 DEF Order, Apart, Quiet, AtWork, Landed, Working
  <1>3. Sound(log', <<>>)
    BY DEF Sound
  <1>4. Scripted'
    BY <1>1, <1>3 DEF Order, Scripted
  <1>5. QED
    BY <1>2, <1>4 DEF Order

\* Each group of actions keeps it: waking, which meets no call;
LEMMA WakeKept ==
  ASSUME Overlap = FALSE, Typed, Order, Wake
  PROVE  Order'
  <1>1. PICK wake \in {"plain", "absent", "offline", "early"} :
          eng' = IF log.run.finished # "no" THEN [Down EXCEPT !.at = "ending"]
                    ELSE [Down EXCEPT !.at = "wake",
                            !.human = (wake # "absent"), !.forge = (wake # "offline"),
                            !.script = IF woken(log)
                                       THEN <<RunResumed(IF wake = "early" THEN wake ELSE "late")>>
                                       ELSE <<>>]
    BY Zenon DEF Wake
  <1>2. NoCalls /\ log' = log /\ calls' = calls /\ crashed' = FALSE
    BY DEF Wake
  <1> DEFINE human == wake # "absent"
             forge == wake # "offline"
             e == RunResumed(IF wake = "early" THEN wake ELSE "late")
             script == IF woken(log) THEN <<e>> ELSE <<>>
  <1>3. script \in Seq(Events) /\ <<>> \in Seq(Events)
    BY RunEvents
  <1>4. Sound(log, script) /\ Sound(log, <<>>)
    <2>1. Plain(e)
      BY Said DEF Plain, Terminals, Openings
    <2>2. QED
      BY <2>1, PlainSound
  <1>5. CASE log.run.finished # "no"
    <2>1. eng' = [Down EXCEPT !.at = "ending"]
      BY <1>1, <1>5
    <2>2. eng'.at = "ending" /\ eng'.script = <<>> /\ eng'.batch = [n \in Nodes |-> 0]
      BY <2>1, DownTyped
    <2>3. QED
      BY <1>2, <1>3, <1>4, <2>2, DownKept
  <1>6. CASE log.run.finished = "no"
    <2>1. eng' = [Down EXCEPT !.at = "wake", !.human = human, !.forge = forge, !.script = script]
      BY <1>1, <1>6, Zenon
    <2> HIDE DEF human, forge, script
    <2>2. eng'.at = "wake" /\ eng'.script = script /\ eng'.batch = [n \in Nodes |-> 0]
      BY <2>1, DownTyped
    <2>3. QED
      BY <1>2, <1>3, <1>4, <2>2, DownKept
  <1>7. QED
    BY <1>5, <1>6

\* the decisions that ask nobody;
LEMMA DecidingKept ==
  ASSUME Typed, Order,
         \/ recheck_approved_gates \/ PauseAtTop \/ StepBroken \/ TakeStep
         \/ CloseRefused \/ NoRoom \/ execute_batch
  PROVE  Order'
  <1>1. CASE recheck_approved_gates
    <2>1. UNCHANGED <<log, crashed, calls>> /\ eng.at = "wake" /\ eng.script = <<>> /\ NoCalls
      BY <1>1 DEF recheck_approved_gates, Order, Apart, NoCalls
    <2>2. Landed
      BY <2>1 DEF Order, Quiet
    <2>3. \A s \in Seq(Events) :
            /\ Sound(log, s) /\ eng'.script = s /\ eng'.batch = eng.batch /\ eng'.at \in {"wake", "loop"}
            => Order'
      <3>1. SUFFICES ASSUME NEW s \in Seq(Events), Sound(log, s), eng'.script = s,
                            eng'.batch = eng.batch, eng'.at \in {"wake", "loop"}
                     PROVE  Order'
        OBVIOUS
      <3>2. Apart' /\ Quiet' /\ AtWork'
        BY <2>1, <2>2, <3>1 DEF Order, Apart, Quiet, AtWork, Landed, NoCalls, Working
      <3>3. Scripted'
        BY <2>1, <3>1 DEF Order, Scripted
      <3>4. QED
        BY <2>1, <3>2, <3>3 DEF Order
    <2>4. CASE eng' = [eng EXCEPT !.at = "loop"]
      <3>1. eng'.at = "loop" /\ eng'.script = eng.script /\ eng'.batch = eng.batch
        BY <2>4 DEF Typed, EngineTyped
      <3>2. eng.script \in Seq(Events) /\ Sound(log, eng.script)
        BY DEF Typed, EngineTyped, Order, Scripted
      <3>3. QED
        BY <2>3, <3>1, <3>2
    <2>5. ASSUME NEW n \in Nodes, is_gate(n),
                 eng' = [eng EXCEPT !.script = <<Started(n, next_attempt(log, n))>>]
          PROVE  Order'
      <3> DEFINE o == Started(n, next_attempt(log, n))
      <3>1. <<o>> \in Seq(Events)
        BY NextAttempt, NodeEvents DEF Typed
      <3>2. Sound(log, <<o>>)
        <4>1. Loose(log, n)
          BY <2>5, LooseNode DEF Order
        <4>2. o.kind = "node_started" /\ o.node = n
          BY Said
        <4> HIDE DEF o
        <4>3. QED
          BY <2>5, <4>1, <4>2 DEF Sound, Terminals, Openings
      <3> HIDE DEF o
      <3>3. eng'.at = "wake" /\ eng'.script = <<o>> /\ eng'.batch = eng.batch
        BY <2>1, <2>5 DEF Typed, EngineTyped, o
      <3>4. QED
        BY <2>3, <3>1, <3>2, <3>3
    <2>6. QED
      BY <1>1, <2>4, <2>5 DEF recheck_approved_gates
  <1>2. CASE PauseAtTop
    <2>1. <<RunPaused(0)>> \in Seq(Events) /\ Sound(log, <<RunPaused(0)>>)
      BY PauseSound
    <2>2. QED
      BY <1>2, <2>1, AppendsKept DEF PauseAtTop, Between
  <1>3. CASE StepBroken
    BY <1>3, GoneKept DEF StepBroken, Errs, Typed
  <1>4. CASE TakeStep
    BY <1>4, StepTyped, StepSound, AppendsKept DEF TakeStep, Deciding, Between
  <1>5. CASE execute_batch
    <2> DEFINE d == decide(log)
               batch == [n \in Nodes |-> IF n \in DOMAIN d.batch THEN d.batch[n] ELSE 0]
    <2>1. eng' = [eng EXCEPT !.batch = batch] /\ UNCHANGED <<log, crashed, calls>>
      BY <1>5 DEF execute_batch
    <2>2. eng.at = "loop" /\ eng.script = <<>> /\ d.do = "Execute"
      BY <1>5 DEF execute_batch, Deciding, Between
    <2>3. OnBatch(log, d)
      BY <2>2, Decides DEF Typed, Order, Decided, OnGate, OnWait, OnAnswer, OnFailed, OnNone, Decision
    <2>4. \A n \in Nodes : batch[n] # 0 =>
            /\ batch[n] \in Nat /\ Loose(log, n)
            /\ State(log, n) = "running" => OnInterrupt[n] = "restart_node"
      <3>1. ASSUME NEW n \in DOMAIN d.batch, n \in Nodes
            PROVE  Loose(log, n)
        BY <2>3 DEF OnBatch, Loose, Order, Ledger, Waits
      <3>2. QED
        BY <2>3, <3>1 DEF OnBatch
    <2> HIDE DEF batch, d
    <2>5. eng'.at = "loop" /\ eng'.script = <<>> /\ eng'.batch = batch
      BY <2>1, <2>2 DEF Typed, EngineTyped
    <2>6. Apart' /\ Quiet'
      BY <2>1, <2>2, <2>5 DEF Order, Apart, Quiet
    <2>7. AtWork'
      BY <2>1, <2>4, <2>5 DEF AtWork, Working
    <2>8. Scripted'
      BY <2>1, <2>2, <2>5 DEF Order, Scripted
    <2>9. QED
      BY <2>1, <2>6, <2>7, <2>8 DEF Order
  <1>6. CASE CloseRefused
    <2> DEFINE n == decide(log).node
               f == Failed(n, "stuck")
    <2>1. OnAnswer(log, decide(log)) /\ n \in Nodes
      BY <1>6, AnsweredNode DEF CloseRefused
    <2>2. State(log, n) = "running"
      BY <2>1 DEF OnAnswer, Order, Ledger
    <2>3. Ends(f, n)
      BY Said DEF Ends, Terminals
    <2>4. <<f>> \in Seq(Events)
      BY <2>1, NodeEvents DEF Causes
    <2>5. Deciding /\ Appends(<<f>>)
      BY <1>6 DEF CloseRefused
    <2> HIDE DEF n, f
    <2>6. Sound(log, <<f>>)
      BY <2>2, <2>3, TerminalSound
    <2>7. QED
      BY <2>4, <2>5, <2>6, AppendsKept DEF Deciding, Between
  <1>7. CASE NoRoom
    <2>1. <<RunPaused(0)>> \in Seq(Events) /\ Sound(log, <<RunPaused(0)>>)
      BY PauseSound
    <2>2. QED
      BY <1>7, <2>1, AppendsKept DEF NoRoom, Deciding, Between
  <1>8. QED
    BY <1>1, <1>2, <1>3, <1>4, <1>5, <1>6, <1>7

\* those put to a person or a forge;
LEMMA AskingKept ==
  ASSUME Typed, Order,
         \/ ConsumeSeeded \/ NobodyToAsk \/ AskHuman \/ HumanAnswers \/ HumanReplies
         \/ publish_gate \/ poll_gate
  PROVE  Order'
  <1> DEFINE d == decide(log)
  <1>1. Deciding => eng.at # "down" /\ Landed
    BY DEF Deciding, Between
  <1>2. eng.at = "asking" => Landed /\ eng.at # "down" /\ eng.asks = d /\ PutsToAPerson(d)
    BY DEF Order, Quiet
  <1>3. CASE ConsumeSeeded
    <2> DEFINE choice == log.gate[d.node].choice
    <2>1. /\ Deciding /\ HasMenu(d) /\ choice \in Menu(d)
          /\ Appends(Consequence(d, choice, <<>>))
      BY <1>3 DEF ConsumeSeeded, Seeded
    <2>2. PutsToAPerson(d) /\ d.do # "AskQuestions"
      BY <2>1 DEF PutsToAPerson, HasMenu
    <2>3. Consequence(d, choice, <<>>) \in Seq(Events)
      <3>1. Asked(d) /\ <<>> \in Seq(Events)
        BY <2>2, AskedDecision DEF Typed
      <3>2. QED
        BY <2>1, <3>1, ConsequenceTyped DEF Typed
    <2>4. Sound(log, Consequence(d, choice, <<>>))
      BY <2>1, <2>2, ConsequenceSound
    <2>5. QED
      BY <1>1, <2>1, <2>3, <2>4, AppendsKept
  <1>4. CASE NobodyToAsk
    BY <1>1, <1>4, PauseSound, AppendsKept DEF NobodyToAsk
  <1>5. CASE AskHuman
    <2>1. /\ Deciding /\ PutsToAPerson(d)
          /\ eng' = [eng EXCEPT !.at = "asking", !.asks = d] /\ UNCHANGED <<log, crashed, calls>>
      BY <1>5 DEF AskHuman
    <2>2. /\ eng'.at = "asking" /\ eng'.script = eng.script /\ eng'.batch = eng.batch
          /\ eng'.asks = d /\ eng'.forge = eng.forge
      BY <2>1 DEF Typed, EngineTyped
    <2>3. Apart' /\ AtWork'
      BY <2>1, <2>2 DEF Deciding, Between, Order, Apart, AtWork, Landed, Working
    <2>4. Scripted'
      BY <2>1, <2>2 DEF Order, Scripted
    <2>5. Quiet'
      <3>1. eng'.script = <<>> /\ Landed' /\ decide(log') = d
        BY <2>1, <2>2 DEF Deciding, Between, Landed
      <3>2. PutsToAPerson(eng.asks)'
        BY <2>1, <2>2 DEF PutsToAPerson, HasMenu, AtConsole
      <3>3. QED
        BY <2>2, <3>1, <3>2 DEF Quiet
    <2>6. QED
      BY <2>1, <2>3, <2>4, <2>5 DEF Order
  <1>6. CASE HumanAnswers
    <2>1. eng.at = "asking" /\ eng.asks = d /\ d.do # "AskQuestions" /\ PutsToAPerson(d)
      BY <1>2, <1>6 DEF HumanAnswers
    <2>2. PICK choice \in Menu(d) : Appends(Consequence(d, choice, pair(d.node, choice)))
      BY <1>6, <2>1 DEF HumanAnswers
    <2>3. Asked(d)
      BY <2>1, AskedDecision DEF Typed
    <2>4. pair(d.node, choice) \in Seq(Events)
      <3>1. choice \in Options
        BY <2>2 DEF Menu, Options
      <3>2. QED
        BY <2>3, <3>1, NodeEvents DEF pair, Asked
    <2>5. Consequence(d, choice, pair(d.node, choice)) \in Seq(Events)
      BY <2>2, <2>3, <2>4, ConsequenceTyped DEF Typed
    <2>6. Sound(log, Consequence(d, choice, pair(d.node, choice)))
      BY <2>1, <2>2, ConsequenceSound
    <2>7. QED
      BY <1>2, <2>1, <2>2, <2>5, <2>6, AppendsKept
  <1>7. CASE HumanReplies
    <2> DEFINE a == QuestionsAnswered(d.node)
    <2>1. eng.at = "asking" /\ eng.asks = d /\ d.do = "AskQuestions" /\ PutsToAPerson(d)
      BY <1>2, <1>7 DEF HumanReplies
    <2>2. d.node \in Nodes /\ log.gate[d.node].round = "open"
      BY <2>1, AskedNode
    <2>3. <<a>> \in Seq(Events) /\ Sound(log, <<a>>)
      BY <2>2, NodeEvents, Said, AnswerSound
    <2>4. Appends(<<a>>) \/ Appends(<<RunPaused(0)>>)
      BY <1>7, <2>1 DEF HumanReplies
    <2>5. QED
      BY <1>2, <2>1, <2>3, <2>4, PauseSound, AppendsKept
  <1>8. ASSUME Deciding, d.do \in {"PublishGate", "PollGate"}
        PROVE  d.node \in Nodes /\ is_gate(d.node) /\ Loose(log, d.node)
    <2>1. Decided(log, d)
      BY Decides DEF Typed, Order
    <2>2. OnGate(d) \/ (OnWait(log, d) /\ State(log, d.node) = "pr")
      BY <1>8, <2>1 DEF Decided, OnWait, OnAnswer, OnBatch, OnFailed, OnNone, Decision
    <2>3. d.node \in Nodes /\ is_gate(d.node)
      BY <2>2 DEF OnGate, OnWait, Order, Ledger
    <2>4. QED
      BY <2>3, LooseNode DEF Order
  <1>9. ASSUME NEW n \in Nodes
        PROVE  /\ Waiting(n, "pr") \in Events /\ Started(n, next_attempt(log, n)) \in Events
               /\ Finished(n) \in Events /\ Failed(n, "fixable") \in Events
               /\ \A cause \in Causes : Failed(n, cause) \in Events
               /\ \A how \in Verdicts : Resolved(n, how) \in Events
               /\ RunPaused(0) \in Events
    BY NextAttempt, NodeEvents, NAssumption, RunEvents DEF Typed, Causes
  <1>10. Plain(RunPaused(0))
    BY Said DEF Plain, Terminals, Openings
  <1>11. CASE publish_gate
    <2> DEFINE n == d.node
               o == Started(n, next_attempt(log, n))
               f(cause) == Failed(n, cause)
    <2>1. Deciding /\ d.do = "PublishGate"
      BY <1>11 DEF publish_gate
    <2>2. n \in Nodes /\ is_gate(n) /\ Loose(log, n)
      BY <1>8, <2>1
    <2>3. Opens(o, n) /\ \A cause : Ends(f(cause), n)
      BY Said DEF Opens, Ends, Terminals
    <2>4. Sound(log, <<Waiting(n, "pr"), RunPaused(0)>>)
          /\ \A cause : Sound(log, <<o, f(cause)>>)
      <3>1. \A w, r, cause : Waited(w, n) /\ Resolves(r, n) => Sound(log, <<o, f(cause)>>)
        BY <1>10, <2>2, <2>3, StartSound
      <3>2. Waited(Waiting(n, "gate"), n) /\ Resolves(Resolved(n, "go"), n)
        BY Said DEF Waited, Resolves
      <3>3. QED
        BY <1>10, <2>2, <3>1, <3>2, ReviewSound
    <2>5. <<Waiting(n, "pr"), RunPaused(0)>> \in Seq(Events)
          /\ \A cause \in FailCauses : <<o, f(cause)>> \in Seq(Events)
      <3>1. \A cause \in FailCauses : cause \in Causes
        BY EngineAssumption
      <3> HIDE DEF n
      <3>2. QED
        BY <1>9, <2>2, <3>1
    <2>6. Appends(<<Waiting(n, "pr"), RunPaused(0)>>) \/ \E cause \in FailCauses : Appends(<<o, f(cause)>>)
      BY <1>11 DEF publish_gate
    <2>7. QED
      BY <1>1, <2>1, <2>4, <2>5, <2>6, AppendsKept
  <1>12. CASE poll_gate
    <2> DEFINE n == d.node
               o == Started(n, next_attempt(log, n))
               r(how) == Resolved(n, how)
               ok == Finished(n)
               ko == Failed(n, "fixable")
               p == RunPaused(0)
    <2>1. Deciding /\ d.do = "PollGate"
      BY <1>12 DEF poll_gate
    <2>2. n \in Nodes /\ is_gate(n) /\ Loose(log, n)
      BY <1>8, <2>1
    <2>3. \/ Appends(<<p>>) \/ Appends(<<o, r("approved"), ok>>)
          \/ Appends(<<o, r("changes"), ko>>) \/ Appends(<<r("closed"), p>>)
      BY <1>12 DEF poll_gate
    <2>4. /\ Opens(o, n) /\ Ends(ok, n) /\ Ends(ko, n) /\ Plain(p)
          /\ Resolves(r("approved"), n) /\ Resolves(r("changes"), n) /\ Resolves(r("closed"), n)
          /\ Waited(Waiting(n, "gate"), n)
      BY <1>10, Said DEF Opens, Ends, Terminals, Resolves, Waited
    <2>5. /\ o \in Events /\ ok \in Events /\ ko \in Events /\ p \in Events
          /\ r("approved") \in Events /\ r("changes") \in Events /\ r("closed") \in Events
      BY <1>9, <2>2 DEF Verdicts
    <2> HIDE DEF n, o, r, ok, ko, p
    <2>6. /\ Sound(log, <<o, r("approved"), ok>>) /\ Sound(log, <<o, r("changes"), ko>>)
          /\ Sound(log, <<r("closed"), p>>)
      BY <2>2, <2>4, StartSound, PairSound
    <2>7. /\ <<o, r("approved"), ok>> \in Seq(Events) /\ <<o, r("changes"), ko>> \in Seq(Events)
          /\ <<r("closed"), p>> \in Seq(Events) /\ <<p>> \in Seq(Events)
      BY <2>5
    <2>8. Sound(log, <<p>>)
      BY PauseSound DEF p
    <2>9. QED
      BY <1>1, <2>1, <2>3, <2>6, <2>7, <2>8, AppendsKept
  <1>13. QED
    BY <1>3, <1>4, <1>5, <1>6, <1>7, <1>11, <1>12

\* the nodes of a batch;
LEMMA WorkKept ==
  ASSUME Typed, Order, NEW n \in Nodes, NodeStarts(n) \/ NodeEnds(n) \/ NodePauses(n)
  PROVE  Order'
  <1>1. /\ eng.batch[n] # 0 /\ ~Landed
        /\ UNCHANGED <<crashed, calls>>
    BY DEF NodeStarts, NodeEnds, NodePauses, Landed, Working
  <1>2. eng.at = "loop" /\ eng.script = <<>> /\ ~crashed /\ NoCalls
    BY <1>1 DEF Order, Quiet, Apart, NoCalls
  <1>3. ASSUME eng'.at = "loop", eng'.script = <<>>
        PROVE  Apart' /\ Quiet'
    BY <1>1, <1>2, <1>3 DEF Apart, Quiet, NoCalls
  <1>4. ASSUME eng'.script = <<>> PROVE Scripted'
    BY <1>1, <1>2, <1>4 DEF Scripted, NoCalls, Sound
  <1>5. CASE NodeStarts(n)
    <2> DEFINE e == Started(n, eng.batch[n])
    <2>1. /\ log' = apply(log, e) /\ eng' = [eng EXCEPT !.batch[n] = Working] /\ eng.batch[n] > 0
      BY <1>5 DEF NodeStarts
    <2>2. eng.batch[n] \in Nat
      BY <2>1 DEF Typed, EngineTyped, Working
    <2>3. e \in Events /\ e.kind = "node_started" /\ e.node = n /\ About(e)
      BY <2>2, NodeEvents, Said, NAssumption DEF About, Nodes
    <2>4. Fit(log, e)
      BY <2>1, <2>3 DEF Fit, Order, AtWork, Terminals, Openings
    <2> HIDE DEF e
    <2>5. Ledger(log)' /\ ~log'.broken
      BY <2>1, <2>3, <2>4, LedgerKept DEF Typed, Order
    <2>6. State(log', n) = "running"
      BY <2>1, <2>3, <2>4, StateAfter DEF Typed, Order
    <2>7. \A m \in Nodes : m # n => log'.node[m] = log.node[m] /\ log'.gate[m] = log.gate[m]
      BY <2>1, <2>3, <2>4, NodeAfter DEF Typed, Order
    <2>8. /\ eng'.at = "loop" /\ eng'.script = <<>>
          /\ \A m \in Nodes : eng'.batch[m] = IF m = n THEN Working ELSE eng.batch[m]
      BY <1>2, <2>1 DEF Typed, EngineTyped
    <2>9. AtWork'
      BY <2>6, <2>7, <2>8 DEF Order, AtWork, Loose, State, answered_unfinished, Working
    <2>10. QED
      BY <1>3, <1>4, <2>5, <2>8, <2>9 DEF Order
  <1>6. CASE NodeEnds(n)
    <2>1. eng' = [eng EXCEPT !.batch[n] = 0] /\ eng.batch[n] = Working
      BY <1>6 DEF NodeEnds
    <2>2. State(log, n) = "running"
      BY <2>1 DEF Order, AtWork
    <2>3. \/ \E e \in Events : /\ log' = apply(log, e) /\ e.node = n
                               /\ \/ e.kind \in Terminals
                                  \/ e.kind = "questions_asked" /\ Kind[n] = "asks"
          \/ UNCHANGED log
      <3>1. FailCauses \subseteq Causes
        BY EngineAssumption
      <3>2. /\ Finished(n) \in Events /\ Finished(n).node = n /\ Finished(n).kind \in Terminals
            /\ \A cause \in FailCauses : /\ Failed(n, cause) \in Events /\ Failed(n, cause).node = n
                                         /\ Failed(n, cause).kind \in Terminals
            /\ QuestionsAsked(n) \in Events /\ QuestionsAsked(n).node = n
            /\ QuestionsAsked(n).kind = "questions_asked"
        BY <3>1, NodeEvents, Said DEF Terminals
      <3>3. QED
        BY <1>6, <3>2 DEF NodeEnds
    <2>4. /\ eng'.at = "loop" /\ eng'.script = <<>>
          /\ \A m \in Nodes : eng'.batch[m] = IF m = n THEN 0 ELSE eng.batch[m]
      BY <1>2, <2>1 DEF Typed, EngineTyped
    <2>5. CASE UNCHANGED log
      <3>1. AtWork'
        BY <2>4, <2>5 DEF Order, AtWork, Working
      <3>2. QED
        BY <1>3, <1>4, <2>4, <2>5, <3>1 DEF Order
    <2>6. ASSUME NEW e \in Events, log' = apply(log, e), e.node = n,
                 \/ e.kind \in Terminals
                 \/ e.kind = "questions_asked" /\ Kind[n] = "asks"
          PROVE  Order'
      <3>1. Fit(log, e)
        BY <2>2, <2>6 DEF Fit, Terminals, Openings
      <3>2. Ledger(log)' /\ ~log'.broken
        BY <2>6, <3>1, LedgerKept DEF Typed, Order
      <3>3. \A m \in Nodes : m # n => log'.node[m] = log.node[m] /\ log'.gate[m] = log.gate[m]
        BY <2>6, <3>1, NodeAfter DEF Typed, Order
      <3>4. AtWork'
        BY <2>4, <3>3 DEF Order, AtWork, Loose, State, answered_unfinished, Working
      <3>5. QED
        BY <1>3, <1>4, <2>4, <3>2, <3>4 DEF Order
    <2>7. QED
      BY <2>3, <2>5, <2>6
  <1>7. CASE NodePauses(n)
    <2>1. eng' = [eng EXCEPT !.batch[n] = 0, !.pausing = TRUE] /\ log' = log
      BY <1>7 DEF NodePauses
    <2>2. /\ eng'.at = "loop" /\ eng'.script = <<>>
          /\ \A m \in Nodes : eng'.batch[m] = IF m = n THEN 0 ELSE eng.batch[m]
      BY <1>2, <2>1 DEF Typed, EngineTyped
    <2>3. AtWork'
      BY <2>1, <2>2 DEF Order, AtWork, Working
    <2>4. QED
      BY <1>3, <1>4, <2>1, <2>2, <2>3 DEF Order
  <1>8. QED
    BY <1>5, <1>6, <1>7

\* the life of the engine process;
LEMMA ProcessKept ==
  ASSUME Typed, Order, EngineAppends \/ InvocationEnds \/ CtrlC \/ Crash \/ settle_crash
  PROVE  Order'
  <1>1. CASE EngineAppends
    <2> DEFINE e == Head(eng.script)
               at == IF e.kind \in {"run_paused", "run_finished"} THEN "ending" ELSE eng.at
    <2>1. /\ eng.script # <<>> /\ log' = apply(log, e) /\ UNCHANGED <<crashed, calls>>
          /\ eng' = [eng EXCEPT !.script = Tail(eng.script), !.at = at]
      BY <1>1 DEF EngineAppends
    <2>2. /\ e \in Events /\ eng.script \in Seq(Events) /\ eng.at # "asking" /\ Landed
          /\ Sound(log, eng.script)
      BY <2>1 DEF Typed, EngineTyped, Order, Quiet, Scripted
    <2>3. eng.at # "down"
      BY <2>1, DownTyped DEF Order, Apart
    <2>4. at # "asking" /\ at # "down"
      BY <2>2, <2>3
    <2> HIDE DEF at
    <2>5. eng'.at = at /\ eng'.script = Tail(eng.script) /\ eng'.batch = eng.batch
      BY <2>1 DEF Typed, EngineTyped
    <2>6. NoCalls /\ ~crashed
      BY <2>3 DEF Order, Apart, NoCalls
    <2>7. Fit(log, e)
      BY <2>1, <2>2, SoundHead DEF Order
    <2>8. Ledger(log)' /\ ~log'.broken
      BY <2>1, <2>2, <2>7, LedgerKept DEF Typed, Order
    <2>9. Sound(log', Tail(eng.script))
      BY <2>1, <2>2, SoundTail DEF Typed, Order
    <2>10. Apart' /\ AtWork'
      BY <2>1, <2>2, <2>4, <2>5, <2>6 DEF Apart, AtWork, NoCalls, Landed, Working
    <2>11. Quiet'
      BY <2>2, <2>4, <2>5 DEF Quiet, Landed
    <2>12. Scripted'
      BY <2>1, <2>5, <2>6, <2>9 DEF Scripted, NoCalls, Sound
    <2>13. QED
      BY <2>8, <2>10, <2>11, <2>12 DEF Order
  <1>2. CASE InvocationEnds
    BY <1>2, GoneKept DEF InvocationEnds, Errs, Typed
  <1>3. CASE CtrlC
    <2>1. /\ eng.at \in {"wake", "loop"} /\ eng' = [eng EXCEPT !.cancel = TRUE]
          /\ UNCHANGED <<log, crashed, calls>>
      BY <1>3 DEF CtrlC
    <2>2. eng'.at = eng.at /\ eng'.script = eng.script /\ eng'.batch = eng.batch
      BY <2>1 DEF Typed, EngineTyped
    <2>3. Apart' /\ Quiet' /\ AtWork'
      BY <2>1, <2>2 DEF Order, Apart, Quiet, AtWork, Landed
    <2>4. Scripted'
      BY <2>1, <2>2 DEF Order, Scripted
    <2>5. QED
      BY <2>1, <2>3, <2>4 DEF Order
  <1>4. CASE Crash
    BY <1>4, GoneKept DEF Crash
  <1>5. CASE settle_crash
    <2> DEFINE e == RunPaused(0)
    <2>1. crashed /\ log' = apply(log, e) /\ crashed' = FALSE /\ UNCHANGED <<eng, calls>>
      BY <1>5 DEF settle_crash
    <2>2. e \in Events /\ e.kind = "run_paused"
      BY NAssumption, RunEvents, Said
    <2>3. Fit(log, e) /\ ~About(e)
      BY <2>2 DEF Fit, About, Terminals, Openings
    <2> HIDE DEF e
    <2>4. Ledger(log)' /\ ~log'.broken
      BY <2>1, <2>2, <2>3, LedgerKept DEF Typed, Order
    <2>5. \A n \in Nodes : log'.node[n] = log.node[n] /\ log'.gate[n] = log.gate[n]
      BY <2>1, <2>2, <2>3, NodeAfter DEF Typed, Order
    <2>6. eng = Down
      BY <2>1 DEF Order, Apart
    <2>7. Apart' /\ Quiet' /\ AtWork'
      BY <2>1, <2>6, DownTyped DEF Order, Apart, Quiet, AtWork, Landed, Working
    <2>8. log'.node = log.node /\ log'.gate = log.gate
      BY <2>1, <2>2, <2>3, <2>5, AppliedRecorded DEF Typed, Recorded
    <2>9. \A s : Sound(log, s) => Sound(log', s)
      BY <2>8 DEF Sound, Open, Restored, Loose, State, answered_unfinished
    <2>10. Scripted'
      BY <2>1, <2>9 DEF Order, Scripted
    <2>11. QED
      BY <2>4, <2>7, <2>10 DEF Order
  <1>6. QED
    BY <1>1, <1>2, <1>3, <1>4, <1>5

\* and the calls, made while the engine is down.
LEMMA CallerKept ==
  ASSUME Overlap = FALSE, Typed, Order, NEW c \in Callers,
         \/ resolve_gate(c) \/ answer_questions(c) \/ close_run(c)
         \/ CallAppends(c) \/ CallerDies(c)
  PROVE  Order'
  <1>1. ASSUME NEW kind, Call(c, kind), NEW s, Sound(log, s), calls' = [calls EXCEPT ![c] = s]
        PROVE  Order'
    <2>1. UNCHANGED <<log, eng, crashed>> /\ eng.at = "down" /\ NoCalls
      BY <1>1 DEF Call
    <2>2. \A b \in Callers : calls'[b] = IF b = c THEN s ELSE <<>>
      BY <1>1, <2>1 DEF Typed, CallsTyped, NoCalls
    <2>3. Apart' /\ Quiet' /\ AtWork'
      BY <2>1, <2>2 DEF Order, Apart, Quiet, AtWork, Landed
    <2>4. Scripted'
      BY <1>1, <2>1, <2>2 DEF Order, Scripted, Sound
    <2>5. QED
      BY <2>1, <2>3, <2>4 DEF Order
  <1>2. ASSUME calls[c] # <<>>
        PROVE  eng = Down /\ \A b \in Callers : b # c => calls[b] = <<>>
    BY <1>2 DEF Order, Apart
  <1>3. CASE resolve_gate(c)
    <2> DEFINE d == decide(log)
               n == d.node
    <2>1. PICK choice \in Menu(d) : calls' = [calls EXCEPT ![c] = pair(n, choice)]
      BY <1>3 DEF resolve_gate
    <2>2. PutsToAPerson(d) /\ d.do # "AskQuestions" /\ Call(c, "resolve")
      BY <1>3 DEF resolve_gate, PutsToAPerson, HasMenu
    <2>3. Loose(log, n)
      BY <2>2, AskedNode
    <2> DEFINE w == Waiting(n, "gate")
               r == Resolved(n, choice)
               p == RunPaused(0)
    <2>4. Waited(w, n) /\ Resolves(r, n) /\ Plain(p)
      BY Said DEF Waited, Resolves, Plain, Terminals, Openings
    <2>5. Sound(log, pair(n, choice))
      <3>1. pair(n, choice) = <<w, r>>
        BY DEF pair
      <3> HIDE DEF w, r, n, p
      <3>2. QED
        BY <2>3, <2>4, <3>1, PairSound
    <2>6. QED
      BY <1>1, <2>1, <2>2, <2>5
  <1>4. CASE answer_questions(c)
    <2>1. PICK n \in Nodes : /\ log.gate[n].round = "open"
                             /\ calls' = [calls EXCEPT ![c] = <<QuestionsAnswered(n)>>]
      BY <1>4 DEF answer_questions
    <2>2. Sound(log, <<QuestionsAnswered(n)>>)
      BY <2>1, Said, AnswerSound
    <2>3. QED
      BY <1>1, <1>4, <2>1, <2>2 DEF answer_questions
  <1>5. CASE close_run(c)
    <2>1. Plain(RunFinished("cancelled"))
      BY Said DEF Plain, Terminals, Openings
    <2>2. Sound(log, <<RunFinished("cancelled")>>)
      BY <2>1, PlainSound
    <2>3. QED
      BY <1>1, <1>5, <2>2 DEF close_run
  <1>6. CASE CallAppends(c)
    <2> DEFINE e == Head(calls[c])
    <2>1. /\ calls[c] # <<>> /\ log' = apply(log, e) /\ UNCHANGED <<eng, crashed>>
          /\ calls' = [calls EXCEPT ![c] = Tail(calls[c])]
      BY <1>6 DEF CallAppends
    <2>2. e \in Events /\ calls[c] \in Seq(Events) /\ Sound(log, calls[c])
      BY <2>1 DEF Typed, CallsTyped, Order, Scripted
    <2>3. Fit(log, e)
      BY <2>1, <2>2, SoundHead DEF Order
    <2>4. Ledger(log)' /\ ~log'.broken
      BY <2>1, <2>2, <2>3, LedgerKept DEF Typed, Order
    <2>5. Sound(log', Tail(calls[c]))
      BY <2>1, <2>2, SoundTail DEF Typed, Order
    <2>6. \A b \in Callers : calls'[b] = IF b = c THEN Tail(calls[c]) ELSE <<>>
      BY <1>2, <2>1 DEF Typed, CallsTyped
    <2>7. eng = Down
      BY <1>2, <2>1
    <2>8. Apart' /\ Quiet' /\ AtWork'
      BY <2>1, <2>6, <2>7, DownTyped DEF Order, Apart, Quiet, AtWork, Landed, Working
    <2>9. Scripted'
      <3>1. Sound(log', <<>>)
        BY DEF Sound
      <3>2. \A b \in Callers : Sound(log', calls'[b])
        BY <2>5, <2>6, <3>1
      <3>3. Sound(log', eng'.script)
        BY <2>1, <2>7, <3>1, DownTyped
      <3>4. QED
        BY <3>2, <3>3 DEF Scripted
    <2>10. QED
      BY <2>4, <2>8, <2>9 DEF Order
  <1>7. CASE CallerDies(c)
    <2>1. calls[c] # <<>> /\ UNCHANGED <<log, eng, crashed>> /\ calls' = [calls EXCEPT ![c] = <<>>]
      BY <1>7 DEF CallerDies
    <2>2. \A b \in Callers : calls'[b] = <<>>
      BY <1>2, <2>1 DEF Typed, CallsTyped
    <2>3. Apart' /\ Quiet' /\ AtWork'
      BY <2>1, <2>2 DEF Order, Apart, Quiet, AtWork, Landed
    <2>4. Scripted'
      BY <2>1, <2>2 DEF Order, Scripted, Sound
    <2>5. QED
      BY <2>1, <2>3, <2>4 DEF Order
  <1>8. QED
    BY <1>3, <1>4, <1>5, <1>6, <1>7

\* The first state keeps the order.
LEMMA InitOrder == Init => Order
  <1> SUFFICES ASSUME Init PROVE Order
    OBVIOUS
  <1>1. eng = Down /\ log = Born /\ crashed = FALSE /\ calls = [c \in Callers |-> <<>>]
    BY DEF Init
  <1>2. \A c \in Callers : calls[c] = <<>>
    BY <1>1
  <1>3. Apart /\ Quiet /\ AtWork
    BY <1>1, <1>2, DownTyped DEF Apart, Quiet, AtWork, Landed, Working
  <1>4. Scripted
    BY <1>1, <1>2, DownTyped DEF Scripted, Sound
  <1>5. /\ log.broken = FALSE /\ log.node = [n \in Nodes |-> Unrecorded]
        /\ log.gate = [n \in Nodes |-> Ungated]
    BY <1>1 DEF Born
  <1>6. Ledger(log)
    BY <1>5 DEF Ledger, State, answered_unfinished, Unrecorded, Ungated
  <1>7. QED
    BY <1>3, <1>4, <1>5, <1>6 DEF Order

\* Order is inductive, given the type.
LEMMA NextOrder ==
  ASSUME Overlap = FALSE, Typed, Order, [Next]_vars
  PROVE  Order'
  <1>1. CASE Wake
    BY <1>1, WakeKept
  <1>2. CASE Engine
    BY <1>2, DecidingKept, AskingKept, WorkKept, ProcessKept DEF Engine
  <1>3. CASE CtrlC \/ Crash \/ settle_crash
    BY <1>3, ProcessKept
  <1>4. ASSUME NEW c \in Callers,
               \/ resolve_gate(c) \/ answer_questions(c) \/ close_run(c)
               \/ CallAppends(c) \/ CallerDies(c)
        PROVE  Order'
    BY <1>4, CallerKept
  <1>5. CASE UNCHANGED vars
    <2>1. UNCHANGED <<log, eng, crashed, calls>>
      BY <1>5 DEF vars
    <2>2. Apart' /\ Quiet' /\ AtWork'
      BY <2>1 DEF Order, Apart, Quiet, AtWork, Landed, PutsToAPerson, HasMenu, AtConsole
    <2>3. Scripted'
      BY <2>1 DEF Order, Scripted
    <2>4. QED
      BY <2>1, <2>2, <2>3 DEF Order
  <1>6. QED
    BY <1>1, <1>2, <1>3, <1>4, <1>5 DEF Next

\* Wherever the engine dies, and whatever calls are made on the parked run, replay can read the whole
\* log: no terminal without its start, no answer to a node that does not wait (refuse.rs).
THEOREM RunLogNeverBroken ==
  ASSUME Overlap = FALSE
  PROVE  Spec => []LogNeverBroken
  <1>1. Init => Order
    BY InitOrder
  <1>2. Typed /\ Order /\ [Next]_vars => Order'
    BY NextOrder
  <1>3. Order => LogNeverBroken
    BY DEF Order, LogNeverBroken
  <1>4. QED
    BY AlwaysTyped, <1>1, <1>2, <1>3, PTL DEF Spec
=============================================================================
