------------------------- MODULE RunEngineStepProofs -------------------------
(***************************************************************************)
(* Proofs about what a run's steps may never do: start an attempt whose    *)
(* effects are uncertain, reroute past the cap, append to a closed run,    *)
(* and give up a run that continues while something could still be done;   *)
(* and that every step of the engine and of its callers is a step of the   *)
(* abstract Run or none.  They rest on the invariants `Typed` and `Order`  *)
(* of RunEngineProofs.                                                     *)
(***************************************************************************)
EXTENDS RunEngineProofs, FiniteSetTheorems

-----------------------------------------------------------------------------
\* Only its start counts an attempt of a node, and only its reroute on failure a reroute.
LEMMA CountsKept ==
  ASSUME NEW L, Recorded(L), NEW e \in Events, NEW M, M = apply(L, e), NEW n \in Nodes
  PROVE  /\ M.node[n].attempts # L.node[n].attempts => e.kind = "node_started" /\ e.node = n
         /\ M.node[n].reroutes # L.node[n].reroutes =>
              e.kind = "node_rerouted" /\ e.node = n /\ e.with = "on_failure"
  <1>1. CASE L.broken
    BY <1>1 DEF apply
  <1>2. CASE ~L.broken /\ refuse(L, e)
    <2>1. M = [L EXCEPT !.broken = TRUE]
      BY <1>2, Zenon DEF apply
    <2>2. M.node = L.node
      BY <2>1 DEF Recorded
    <2>3. QED
      BY <2>2
  <1>3. CASE ~L.broken /\ ~refuse(L, e)
    <2> DEFINE r == L.node[n]
    <2>1. M.node = [k \in Nodes |-> IF About(e) /\ k = e.node
              THEN apply_node(L.node[k], e, L.seq + 1) ELSE L.node[k]]
      <3>1. Reads(L, e, M)
        BY <1>3, Applied
      <3>2. QED
        BY <3>1, Zenon DEF Reads
    <2>2. M.node[n] = IF About(e) /\ n = e.node THEN apply_node(r, e, L.seq + 1) ELSE r
      BY <2>1
    <2>3. r \in NodeRecord(L.seq)
      BY DEF Recorded
    <2> HIDE DEF r
    <2>4. \A k : /\ e.kind # "node_started" => apply_node(r, e, k).attempts = r.attempts
                 /\ ~(e.kind = "node_rerouted" /\ e.with = "on_failure") =>
                       apply_node(r, e, k).reroutes = r.reroutes
      <3>1. ASSUME NEW k
            PROVE  /\ e.kind # "node_started" => apply_node(r, e, k).attempts = r.attempts
                   /\ ~(e.kind = "node_rerouted" /\ e.with = "on_failure") =>
                         apply_node(r, e, k).reroutes = r.reroutes
        BY <2>3 DEF apply_node, park, unpark, NodeRecord
      <3>2. QED
        BY <3>1
    <2>5. QED
      BY <2>2, <2>4 DEF r
  <1>4. QED
    BY <1>1, <1>2, <1>3

\* What a step of the run appends to its log, and who may append it.
LEMMA AppendedBy ==
  ASSUME Typed, Order, [Next]_vars
  PROVE  \/ UNCHANGED log
         \/ eng.script # <<>> /\ log' = apply(log, Head(eng.script))
         \/ \E c \in Callers : calls[c] # <<>> /\ log' = apply(log, Head(calls[c]))
         \/ log' = apply(log, RunPaused(0))
         \/ \E n \in Nodes : eng.batch[n] > 0 /\ log' = apply(log, Started(n, eng.batch[n]))
         \/ \E n \in Nodes : \E e \in Events :
               /\ eng.batch[n] = Working /\ log' = apply(log, e)
               /\ e.node = n /\ e.kind \in Terminals \cup {"questions_asked"}
               /\ e.kind = "questions_asked" => Kind[n] = "asks"
  <1>1. ASSUME NEW n \in Nodes, NodeEnds(n)
        PROVE  \/ UNCHANGED log
               \/ \E e \in Events :
                    /\ eng.batch[n] = Working /\ log' = apply(log, e)
                    /\ e.node = n /\ e.kind \in Terminals \cup {"questions_asked"}
                    /\ e.kind = "questions_asked" => Kind[n] = "asks"
    <2>1. FailCauses \subseteq Causes
      BY EngineAssumption
    <2>2. /\ Finished(n) \in Events /\ Finished(n).node = n /\ Finished(n).kind \in Terminals
          /\ \A cause \in FailCauses : /\ Failed(n, cause) \in Events /\ Failed(n, cause).node = n
                                       /\ Failed(n, cause).kind \in Terminals
          /\ QuestionsAsked(n) \in Events /\ QuestionsAsked(n).node = n
          /\ QuestionsAsked(n).kind = "questions_asked"
      BY <2>1, NodeEvents, Said DEF Terminals
    <2>3. "questions_asked" \notin Terminals
      BY DEF Terminals
    <2>4. QED
      BY <1>1, <2>2, <2>3 DEF NodeEnds
  <1>2. CASE Wake \/ CtrlC \/ Crash
    BY <1>2 DEF Wake, CtrlC, Crash
  <1>3. CASE \/ recheck_approved_gates \/ PauseAtTop \/ StepBroken \/ TakeStep
             \/ CloseRefused \/ NoRoom \/ execute_batch \/ ConsumeSeeded \/ NobodyToAsk \/ AskHuman
    BY <1>3 DEF recheck_approved_gates, PauseAtTop, StepBroken, Errs, TakeStep, execute_batch,
                CloseRefused, NoRoom, ConsumeSeeded, NobodyToAsk, AskHuman, Appends
  <1>4. CASE HumanAnswers \/ HumanReplies \/ publish_gate \/ poll_gate \/ InvocationEnds
    BY <1>4 DEF HumanAnswers, HumanReplies, publish_gate, poll_gate, InvocationEnds, Errs, Appends
  <1>5. CASE EngineAppends
    BY <1>5 DEF EngineAppends
  <1>6. CASE settle_crash
    BY <1>6 DEF settle_crash
  <1>7. CASE \E n \in Nodes : NodeStarts(n) \/ NodeEnds(n) \/ NodePauses(n)
    BY <1>1, <1>7 DEF NodeStarts, NodePauses
  <1>8. CASE \E c \in Callers : \/ resolve_gate(c) \/ answer_questions(c) \/ close_run(c)
                                \/ CallAppends(c) \/ CallerDies(c)
    BY <1>8 DEF resolve_gate, answer_questions, close_run, Call, CallAppends, CallerDies
  <1>9. CASE UNCHANGED vars
    BY <1>9 DEF vars
  <1>10. QED
    BY <1>2, <1>3, <1>4, <1>5, <1>6, <1>7, <1>8, <1>9 DEF Next, Engine

\* Whoever appends the next event, it does not start that node.
LEMMA UncertainStays ==
  ASSUME Typed, Order, [Next]_vars, NEW n \in Nodes,
         ~is_gate(n), OnInterrupt[n] = "fail_if_uncertain", State(log, n) = "running"
  PROVE  log'.node[n].attempts = log.node[n].attempts
  <1>1. ASSUME NEW e \in Events, log' = apply(log, e), e.kind # "node_started" \/ e.node # n
        PROVE  log'.node[n].attempts = log.node[n].attempts
    BY <1>1, CountsKept DEF Typed
  <1>2. ASSUME NEW s \in Seq(Events), s # <<>>, Sound(log, s)
        PROVE  Head(s) \in Events /\ (Head(s).kind # "node_started" \/ Head(s).node # n)
    <2>1. 1 \in 1..Len(s) /\ Head(s) = s[1] /\ Head(s) \in Events
      BY <1>2
    <2>2. s[1].kind = "node_started" => is_gate(s[1].node)
      BY <1>2, <2>1 DEF Sound
    <2>3. QED
      BY <2>1, <2>2
  <1>3. CASE eng.script # <<>> /\ log' = apply(log, Head(eng.script))
    BY <1>1, <1>2, <1>3 DEF Typed, EngineTyped, Order, Scripted
  <1>4. CASE \E c \in Callers : calls[c] # <<>> /\ log' = apply(log, Head(calls[c]))
    BY <1>1, <1>2, <1>4 DEF Typed, CallsTyped, Order, Scripted
  <1>5. CASE log' = apply(log, RunPaused(0))
    <2>1. RunPaused(0) \in Events /\ RunPaused(0).kind = "run_paused"
      BY NAssumption, RunEvents, Said
    <2>2. QED
      BY <1>1, <1>5, <2>1
  <1>6. ASSUME NEW m \in Nodes, eng.batch[m] > 0, log' = apply(log, Started(m, eng.batch[m]))
        PROVE  log'.node[n].attempts = log.node[n].attempts
    <2>1. m # n
      BY <1>6 DEF Order, AtWork
    <2>2. eng.batch[m] \in Nat
      BY <1>6 DEF Typed, EngineTyped, Working
    <2>3. QED
      BY <1>1, <1>6, <2>1, <2>2, NodeEvents, Said
  <1>7. ASSUME NEW e \in Events, log' = apply(log, e), e.kind \in Terminals \cup {"questions_asked"}
        PROVE  log'.node[n].attempts = log.node[n].attempts
    BY <1>1, <1>7 DEF Terminals
  <1>8. QED
    BY <1>3, <1>4, <1>5, <1>6, <1>7, AppendedBy

\* A node that was interrupted and must not be repeated is not started over its attempt, by a restart,
\* a retry or a reroute (schedule.rs, orphan_step).
THEOREM RunUncertainStaysPut ==
  ASSUME Overlap = FALSE
  PROVE  Spec => UncertainStaysPut
  <1>1. Init => Order
    BY InitOrder
  <1>2. Typed /\ Order /\ [Next]_vars => Order'
    BY NextOrder
  <1>3. Typed /\ Order /\ [Next]_vars =>
          [\A n \in Nodes :
              ~is_gate(n) /\ OnInterrupt[n] = "fail_if_uncertain" /\ State(log, n) = "running"
                => log'.node[n].attempts = log.node[n].attempts]_vars
    BY UncertainStays
  <1>4. QED
    BY AlwaysTyped, <1>1, <1>2, <1>3, PTL DEF Spec, UncertainStaysPut

-----------------------------------------------------------------------------
\* A reroute on failure is below the cap, or answers a `retry` nothing has consumed: the log's, or the
\* one just appended before it.
Capped(L, s) ==
    \A i \in 1..Len(s) :
        (s[i].kind = "node_rerouted" /\ s[i].with = "on_failure") =>
           (LET n == s[i].node
            IN  \/ i = 1 /\ L.node[n].reroutes < MaxReroutes
                \/ i = 1 /\ L.gate[n].choice = "retry" /\ unconsumed(L, n, L.gate[n].at)
                \/ i \in {2, 3} /\ Is(s, i - 1, "gate_resolved", n) /\ s[i - 1].with = "retry")

\* Calls reroute nothing.
NoReroutes(s) == \A i \in 1..Len(s) : s[i].kind # "node_rerouted"

\* Capping is inductive beside Order.
Capping == Capped(log, eng.script) /\ \A c \in Callers : NoReroutes(calls[c])

\* A resolution is unconsumed where it is appended.
LEMMA ResolvedAfter ==
  ASSUME NEW L, Recorded(L), ~L.broken, NEW e \in Events, e.kind = "gate_resolved",
         NEW M, M = apply(L, e), NEW n, n = e.node
  PROVE  M.gate[n].choice = e.with /\ unconsumed(M, n, M.gate[n].at)
  <1>1. n \in Nodes /\ About(e)
    BY NodesNotZero DEF OfNodes, Kinds, Openings
  <1>2. ~refuse(L, e)
    BY DEF refuse
  <1>3. Reads(L, e, M)
    BY <1>2, Applied
  <1> DEFINE r == L.node[n]
             g == L.gate[n]
             k == L.seq + 1
  <1>4. r \in NodeRecord(L.seq) /\ g \in GateRecord(L.seq) /\ L.run \in RunRecord(L.seq) /\ L.seq \in Nat
    BY <1>1 DEF Recorded
  <1>5. M.node[n] = apply_node(r, e, k) /\ M.gate[n] = apply_gate(g, e, k)
    <2>1. /\ M.node = [m \in Nodes |-> IF About(e) /\ m = e.node
               THEN apply_node(L.node[m], e, L.seq + 1) ELSE L.node[m]]
          /\ M.gate = [m \in Nodes |-> IF About(e) /\ m = e.node
               THEN apply_gate(L.gate[m], e, L.seq + 1) ELSE L.gate[m]]
      BY <1>3, Zenon DEF Reads
    <2>2. QED
      BY <1>1, <2>1
  <1>6. M.run.pausedAt = L.run.pausedAt
    <2> DEFINE tail == e.kind = "run_paused"
               run == apply_run(L.run, e, L.seq + 1, Awaited(L, e))
               woke == run.woken \/ About(e)
    <2>1. M.run = [run EXCEPT !.tailPaused = tail, !.woken = woke]
      BY <1>3, Zenon DEF Reads
    <2>2. run = L.run
      BY DEF apply_run
    <2> HIDE DEF tail, woke, run
    <2>3. QED
      BY <1>4, <2>1, <2>2 DEF RunRecord
  <1> HIDE DEF r, g, k
  <1>7. M.node[n].finished = r.finished /\ M.node[n].failed = r.failed /\ M.node[n].rerouteAt = r.rerouteAt
    BY <1>4, <1>5 DEF apply_node, unpark, NodeRecord
  <1>8. M.gate[n].choice = e.with /\ M.gate[n].at = k /\ M.gate[n].waiting = 0
    <2> DEFINE approved == g.approved \/ e.with = "approved"
               ref == g.ref /\ e.with \notin {"changes", "closed"}
    <2>1. M.gate[n] = [g EXCEPT !.waiting = 0, !.choice = e.with, !.at = k,
                                !.approved = approved, !.ref = ref]
      BY <1>5, Zenon DEF apply_gate
    <2> HIDE DEF approved, ref
    <2>2. QED
      BY <1>4, <2>1 DEF GateRecord
  <1>9. /\ k \in Nat /\ k > L.seq /\ r.finished \in 0..L.seq /\ r.failed \in 0..L.seq
        /\ r.rerouteAt \in 0..L.seq /\ L.run.pausedAt \in 0..L.seq /\ L.seq \in Nat
    BY <1>4 DEF k, NodeRecord, RunRecord
  <1>10. unconsumed(M, n, k)
    BY <1>6, <1>7, <1>8, <1>9 DEF unconsumed, Later
  <1>11. QED
    BY <1>8, <1>10

\* What is left to append is capped behind the first of it.
LEMMA CappedTail ==
  ASSUME NEW L, Recorded(L), ~L.broken, NEW s \in Seq(Events), s # <<>>, Capped(L, s),
         NEW M, M = apply(L, Head(s))
  PROVE  Capped(M, Tail(s))
  <1> DEFINE t == Tail(s)
             e == Head(s)
  <1>1. /\ t \in Seq(Events) /\ Len(t) = Len(s) - 1 /\ Len(s) \in Nat /\ e \in Events
        /\ e = s[1] /\ \A i \in 1..Len(t) : t[i] = s[i + 1] /\ i + 1 \in 1..Len(s)
    OBVIOUS
  <1>2. M = apply(L, e)
    OBVIOUS
  <1> HIDE DEF t, e
  <1>3. SUFFICES ASSUME NEW i \in 1..Len(t), t[i].kind = "node_rerouted", t[i].with = "on_failure",
                        NEW n, n = t[i].node
        PROVE  \/ i = 1 /\ M.node[n].reroutes < MaxReroutes
               \/ i = 1 /\ M.gate[n].choice = "retry" /\ unconsumed(M, n, M.gate[n].at)
               \/ i \in {2, 3} /\ Is(t, i - 1, "gate_resolved", n) /\ t[i - 1].with = "retry"
    BY DEF Capped, t
  <1>4. i + 1 \in 1..Len(s) /\ t[i] = s[i + 1] /\ i \in Nat /\ i # 0
    BY <1>1, <1>3
  <1>5. i + 1 # 1 /\ (i + 1) - 1 = i
    BY <1>4
  <1>6. i + 1 \in {2, 3} /\ Is(s, i, "gate_resolved", n) /\ s[i].with = "retry"
    BY <1>3, <1>4, <1>5 DEF Capped
  <1>7. CASE i = 1
    <2>1. e.kind = "gate_resolved" /\ e.node = n /\ e.with = "retry"
      BY <1>1, <1>6, <1>7 DEF Is
    <2>2. QED
      BY <1>1, <1>2, <1>7, <2>1, ResolvedAfter
  <1>8. CASE i = 2
    <2>1. i - 1 = 1 /\ 1 \in 1..Len(t) /\ t[1] = s[2]
      BY <1>1, <1>3, <1>8
    <2>2. Is(t, i - 1, "gate_resolved", n) /\ t[i - 1].with = "retry"
      BY <1>6, <1>8, <2>1 DEF Is
    <2>3. QED
      BY <1>8, <2>2
  <1>9. QED
    BY <1>4, <1>6, <1>7, <1>8

\* An event no cap counts.
Uncapped(e) == e.kind # "node_rerouted" \/ e.with # "on_failure"

\* Scripts without a reroute on failure are capped.
LEMMA UncappedScripts ==
  ASSUME NEW L
  PROVE  /\ Capped(L, <<>>)
         /\ \A a : Uncapped(a) => Capped(L, <<a>>)
         /\ \A a, b : Uncapped(a) /\ Uncapped(b) => Capped(L, <<a, b>>)
         /\ \A a, b, c : Uncapped(a) /\ Uncapped(b) /\ Uncapped(c) => Capped(L, <<a, b, c>>)
         /\ \A a, b, c, d : Uncapped(a) /\ Uncapped(b) /\ Uncapped(c) /\ Uncapped(d)
               => Capped(L, <<a, b, c, d>>)
         /\ \A a, b, c, d, e :
               Uncapped(a) /\ Uncapped(b) /\ Uncapped(c) /\ Uncapped(d) /\ Uncapped(e)
               => Capped(L, <<a, b, c, d, e>>)
  <1>1. Capped(L, <<>>)
    BY DEF Capped
  <1>2. ASSUME NEW a, Uncapped(a) PROVE Capped(L, <<a>>)
    BY <1>2 DEF Capped, Uncapped
  <1>3. ASSUME NEW a, NEW b, Uncapped(a), Uncapped(b) PROVE Capped(L, <<a, b>>)
    BY <1>3 DEF Capped, Uncapped
  <1>4. ASSUME NEW a, NEW b, NEW c, Uncapped(a), Uncapped(b), Uncapped(c)
        PROVE  Capped(L, <<a, b, c>>)
    BY <1>4 DEF Capped, Uncapped
  <1>5. ASSUME NEW a, NEW b, NEW c, NEW d, Uncapped(a), Uncapped(b), Uncapped(c), Uncapped(d)
        PROVE  Capped(L, <<a, b, c, d>>)
    BY <1>5 DEF Capped, Uncapped
  <1>6. ASSUME NEW a, NEW b, NEW c, NEW d, NEW e,
               Uncapped(a), Uncapped(b), Uncapped(c), Uncapped(d), Uncapped(e)
        PROVE  Capped(L, <<a, b, c, d, e>>)
    BY <1>6 DEF Capped, Uncapped
  <1>7. QED
    BY <1>1, <1>2, <1>3, <1>4, <1>5, <1>6, Zenon

\* A reroute on failure is appended below the cap, or behind a person's retry.
LEMMA CappedReroute ==
  ASSUME NEW L, NEW n, NEW e, e.kind = "node_rerouted", e.node = n
  PROVE  /\ L.node[n].reroutes < MaxReroutes => Capped(L, <<e>>)
         /\ L.gate[n].choice = "retry" /\ unconsumed(L, n, L.gate[n].at) => Capped(L, <<e>>)
         /\ \A w, r : /\ Waited(w, n) /\ Resolves(r, n) /\ r.with = "retry"
                      => Capped(L, <<w, r, e>>)
  <1>1. L.node[n].reroutes < MaxReroutes => Capped(L, <<e>>)
    BY DEF Capped
  <1>2. L.gate[n].choice = "retry" /\ unconsumed(L, n, L.gate[n].at) => Capped(L, <<e>>)
    BY DEF Capped
  <1>3. ASSUME NEW w, NEW r, Waited(w, n), Resolves(r, n), r.with = "retry"
        PROVE  Capped(L, <<w, r, e>>)
    BY <1>3 DEF Capped, Waited, Resolves, Is
  <1>4. QED
    BY <1>1, <1>2, <1>3

\* What a choice appends is capped.
LEMMA ConsequenceCapped ==
  ASSUME NEW d, NEW choice,
         NEW said, (said = <<>> /\ Seeded(d) /\ choice = log.gate[d.node].choice)
                    \/ said = pair(d.node, choice)
  PROVE  Capped(log, Consequence(d, choice, said))
  <1> DEFINE n == d.node
             w == Waiting(n, "gate")
             r == Resolved(n, choice)
             o == Started(n, next_attempt(log, n))
             p == RunPaused(0)
  <1>1. said \in {<<>>, <<w, r>>}
    BY DEF pair
  <1>2. /\ Waited(w, n) /\ Resolves(r, n) /\ r.with = choice
        /\ Uncapped(w) /\ Uncapped(r) /\ Uncapped(o) /\ Uncapped(p) /\ Uncapped(PromotionSignaled)
    <2>1. /\ w.kind = "gate_waiting" /\ w.node = n /\ w.with = "gate"
          /\ r.kind = "gate_resolved" /\ r.node = n /\ r.with = choice
          /\ o.kind = "node_started" /\ p.kind = "run_paused"
          /\ PromotionSignaled.kind = "promotion_signaled"
      BY Said
    <2> HIDE DEF w, r, o, p
    <2>2. QED
      BY <2>1 DEF Waited, Resolves, Uncapped
  <1>3. \A to : Uncapped(Rerouted(n, to, "gate_choice"))
    BY SaidRerouted DEF Uncapped
  <1>4. Uncapped(Finished(n)) /\ \A cause : Uncapped(Failed(n, cause))
    BY Said DEF Uncapped
  <1> HIDE DEF w, r, p, n
  <1>5. ASSUME NEW q, Uncapped(q)
        PROVE  Capped(log, said \o <<q>>)
    <2>1. said \o <<q>> \in {<<q>>, <<w, r, q>>}
      <3>1. <<>> \o <<q>> = <<q>>
        OBVIOUS
      <3>2. <<w, r>> \o <<q>> = <<w, r, q>>
        BY Join21
      <3>3. QED
        BY <1>1, <3>1, <3>2
    <2>2. QED
      BY <1>2, <1>5, <2>1, UncappedScripts
  <1>6. Capped(log, said \o <<>>)
    <2>1. said \o <<>> \in {<<>>, <<w, r>>}
      BY <1>1
    <2>2. QED
      BY <1>2, <2>1, UncappedScripts
  <1>7. CASE d.do = "GateExhaustedReroutes"
    <2> DEFINE x == PromotionSignaled
               y == RunFinished("promoted")
               e == Rerouted(n, Goto[n], "on_failure")
    <2>1. Capped(log, said \o <<x, y>>)
      <3>1. Uncapped(x) /\ Uncapped(y)
        BY Said DEF Uncapped
      <3> HIDE DEF x, y
      <3>2. said \o <<x, y>> \in {<<x, y>>, <<w, r, x, y>>}
        <4>1. <<>> \o <<x, y>> = <<x, y>>
          OBVIOUS
        <4>2. <<w, r>> \o <<x, y>> = <<w, r, x, y>>
          BY Join22
        <4>3. QED
          BY <1>1, <4>1, <4>2
      <3>3. QED
        BY <1>2, <3>1, <3>2, UncappedScripts
    <2>2. Consequence(d, choice, said) = exhausted(d, choice, said)
      BY <1>7 DEF Consequence
    <2>3. choice = "retry" => Capped(log, said \o <<e>>)
      <3>1. e.kind = "node_rerouted" /\ e.node = n
        BY SaidRerouted
      <3> HIDE DEF e
      <3>2. <<>> \o <<e>> = <<e>> /\ <<w, r>> \o <<e>> = <<w, r, e>>
        BY Join21
      <3>3. choice = "retry" /\ said = <<>> => Capped(log, <<e>>)
        <4>1. said = <<>> => Seeded(d) /\ choice = log.gate[n].choice
          <5>1. pair(d.node, choice) # <<>>
            BY DEF pair
          <5>2. QED
            BY <5>1 DEF n
        <4>2. Seeded(d) => unconsumed(log, n, log.gate[n].at)
          BY DEF Seeded, pre_seeded, n
        <4>3. QED
          BY <3>1, <4>1, <4>2, CappedReroute
      <3>4. choice = "retry" => Capped(log, <<w, r, e>>)
        BY <1>2, <3>1, CappedReroute
      <3>5. QED
        BY <1>1, <3>2, <3>3, <3>4
    <2>4. Capped(log, said \o <<p>>)
      BY <1>2, <1>5
    <2>5. QED
      BY <2>1, <2>2, <2>3, <2>4 DEF exhausted, p, n
  <1>8. CASE d.do = "EscalateFailure"
    <2>1. Consequence(d, choice, said) = failure_escalation(d, choice, said)
      BY <1>8 DEF Consequence
    <2>2. Capped(log, said \o <<p>>)
      BY <1>2, <1>5
    <2>3. QED
      BY <1>6, <2>1, <2>2 DEF failure_escalation, p
  <1>9. CASE d.do = "ResolveInternalGate"
    <2> DEFINE back == Failed(n, "stuck")
               route == Rerouted(n, SendsBack[n], "gate_choice")
               end == Finished(n)
    <2>1. Consequence(d, choice, said) = internal_gate(d, choice, said)
      BY <1>9 DEF Consequence
    <2>2. internal_gate(d, choice, said) \in
            {said \o <<p>>, <<o>> \o said \o <<back, route>>, <<o>> \o said \o <<end>>}
      BY DEF internal_gate, n, p
    <2>3. Uncapped(back) /\ Uncapped(route) /\ Uncapped(end)
      BY <1>3, <1>4
    <2> HIDE DEF o, back, route, end
    <2>4. <<o>> \o said \in {<<o>>, <<o, w, r>>}
      <3>1. <<o>> \o <<>> = <<o>>
        OBVIOUS
      <3>2. <<o>> \o <<w, r>> = <<o, w, r>>
        BY Join12
      <3>3. QED
        BY <1>1, <3>1, <3>2
    <2>5. /\ <<o>> \o said \o <<back, route>> \in {<<o, back, route>>, <<o, w, r, back, route>>}
          /\ <<o>> \o said \o <<end>> \in {<<o, end>>, <<o, w, r, end>>}
      <3>1. /\ <<o, w, r>> \o <<back, route>> = <<o, w, r, back, route>>
            /\ <<o, w, r>> \o <<end>> = <<o, w, r, end>>
            /\ <<o>> \o <<back, route>> = <<o, back, route>> /\ <<o>> \o <<end>> = <<o, end>>
        BY Join11, Join12, Join31, Join32
      <3>2. QED
        BY <2>4, <3>1
    <2>6. /\ Capped(log, <<o, back, route>>) /\ Capped(log, <<o, w, r, back, route>>)
          /\ Capped(log, <<o, end>>) /\ Capped(log, <<o, w, r, end>>)
      BY <1>2, <2>3, UncappedScripts
    <2>7. Capped(log, said \o <<p>>)
      BY <1>2, <1>5
    <2>8. QED
      BY <2>1, <2>2, <2>5, <2>6, <2>7
  <1>10. CASE d.do \notin {"GateExhaustedReroutes", "EscalateFailure", "ResolveInternalGate"}
    <2> DEFINE end == IF choice = "go" THEN Finished(n) ELSE Failed(n, "fixable")
    <2>1. Consequence(d, choice, said) = said \o <<o, end>>
      BY <1>10 DEF Consequence, console_gate, n
    <2>2. Uncapped(end)
      BY <1>4
    <2> HIDE DEF o, end
    <2>3. said \o <<o, end>> \in {<<o, end>>, <<w, r, o, end>>}
      <3>1. <<w, r>> \o <<o, end>> = <<w, r, o, end>> /\ <<>> \o <<o, end>> = <<o, end>>
        BY Join22
      <3>2. QED
        BY <1>1, <3>1
    <2>4. QED
      BY <1>2, <2>1, <2>2, <2>3, UncappedScripts
  <1>11. QED
    BY <1>7, <1>8, <1>9, <1>10

\* What the scheduler decides alone is capped (failure.rs, unrerouted).
LEMMA StepCapped ==
  ASSUME Typed, Order, decide(log).do \in {"Finish", "Fail", "Pause", "WaitUntil", "Reroute",
                           "FinishAnswered"}
  PROVE  Capped(log, step(decide(log)))
  <1> DEFINE d == decide(log)
  <1>1. Decided(log, d)
    BY Decides DEF Typed, Order
  <1> HIDE DEF d
  <1>2. CASE d.do = "Reroute"
    <2> DEFINE e == Rerouted(d.node, Goto[d.node], "on_failure")
    <2>1. log.node[d.node].reroutes < MaxReroutes
      BY <1>1, <1>2 DEF Decided, OnGate, OnWait, OnAnswer, OnBatch, OnFailed, OnNone, Decision
    <2>2. step(d) = <<e>> /\ e.kind = "node_rerouted" /\ e.node = d.node
      BY <1>2, SaidRerouted DEF step
    <2> HIDE DEF e
    <2>3. QED
      BY <2>1, <2>2, CappedReroute DEF d
  <1>3. CASE d.do \in {"Finish", "Fail", "Pause", "WaitUntil", "FinishAnswered"}
    <2>1. PICK p : step(d) = <<p>> /\ p.kind \in {"run_finished", "run_paused", "node_finished"}
      BY <1>3, Said DEF step
    <2>2. Uncapped(p)
      BY <2>1 DEF Uncapped
    <2>3. QED
      BY <2>1, <2>2, UncappedScripts DEF d
  <1>4. QED
    BY <1>2, <1>3 DEF d

\* Every script of the engine is capped where it is made.
LEMMA ScriptCapped ==
  ASSUME Typed, Order, Capped(log, eng.script), Engine \/ Wake \/ Crash \/ CtrlC
  PROVE  Capped(log', eng'.script)
  <1>1. \A L : Capped(L, <<>>)
    BY UncappedScripts
  <1>2. eng' = Down => eng'.script = <<>>
    BY DownTyped
  <1>3. ASSUME NEW s, Appends(s), Capped(log, s)
        PROVE  Capped(log', eng'.script)
    BY <1>3 DEF Appends, Typed, EngineTyped
  <1>4. Capped(log, <<RunPaused(0)>>)
    BY UncappedScripts, Said DEF Uncapped
  <1>5. CASE Wake
    <2>1. PICK wake \in {"plain", "absent", "offline", "early"} :
            eng' = IF log.run.finished # "no" THEN [Down EXCEPT !.at = "ending"]
                    ELSE [Down EXCEPT !.at = "wake",
                            !.human = (wake # "absent"), !.forge = (wake # "offline"),
                            !.script = IF woken(log)
                                       THEN <<RunResumed(IF wake = "early" THEN wake ELSE "late")>>
                                       ELSE <<>>]
      BY <1>5, Zenon DEF Wake
    <2> DEFINE human == wake # "absent"
               forge == wake # "offline"
               e == RunResumed(IF wake = "early" THEN wake ELSE "late")
               script == IF woken(log) THEN <<e>> ELSE <<>>
    <2>2. Capped(log, script)
      BY <1>1, UncappedScripts, Said DEF Uncapped
    <2>3. eng'.script \in {<<>>, script}
      <3>1. \/ eng' = [Down EXCEPT !.at = "ending"]
            \/ eng' = [Down EXCEPT !.at = "wake", !.human = human, !.forge = forge, !.script = script]
        BY <2>1, Zenon
      <3> HIDE DEF human, forge, script
      <3>2. QED
        BY <3>1, DownTyped
    <2>4. log' = log
      BY <1>5 DEF Wake
    <2> HIDE DEF script
    <2>5. QED
      BY <1>1, <2>2, <2>3, <2>4
  <1>6. CASE Crash \/ StepBroken \/ InvocationEnds
    BY <1>1, <1>2, <1>6 DEF Crash, StepBroken, InvocationEnds, Errs
  <1>7. CASE CtrlC \/ execute_batch \/ AskHuman
    <2>1. eng'.script = eng.script /\ log' = log
      BY <1>7 DEF CtrlC, execute_batch, AskHuman, Typed, EngineTyped
    <2>2. QED
      BY <2>1
  <1>8. CASE recheck_approved_gates
    <2>1. \/ eng'.script = eng.script
          \/ \E n \in Nodes : eng'.script = <<Started(n, next_attempt(log, n))>>
      BY <1>8 DEF recheck_approved_gates, Typed, EngineTyped
    <2>2. \A n : Capped(log, <<Started(n, next_attempt(log, n))>>)
      BY UncappedScripts, Said DEF Uncapped
    <2>3. log' = log
      BY <1>8 DEF recheck_approved_gates
    <2>4. QED
      BY <2>1, <2>2, <2>3
  <1>9. CASE PauseAtTop \/ NobodyToAsk \/ NoRoom
    BY <1>3, <1>4, <1>9 DEF PauseAtTop, NobodyToAsk, NoRoom
  <1>10. CASE TakeStep
    BY <1>3, <1>10, StepCapped DEF TakeStep
  <1>11. CASE ConsumeSeeded
    <2> DEFINE d == decide(log)
    <2>1. Seeded(d) /\ Appends(Consequence(d, log.gate[d.node].choice, <<>>))
      BY <1>11 DEF ConsumeSeeded
    <2> HIDE DEF d
    <2>2. QED
      BY <1>3, <2>1, ConsequenceCapped
  <1>12. CASE HumanAnswers
    <2>1. PICK choice \in Menu(eng.asks) :
            Appends(Consequence(eng.asks, choice, pair(eng.asks.node, choice)))
      BY <1>12 DEF HumanAnswers
    <2>2. QED
      BY <1>3, <2>1, ConsequenceCapped
  <1>13. CASE HumanReplies
    <2>1. Capped(log, <<QuestionsAnswered(eng.asks.node)>>)
      BY UncappedScripts, Said DEF Uncapped
    <2>2. QED
      BY <1>3, <1>4, <1>13, <2>1 DEF HumanReplies
  <1>14. CASE publish_gate \/ poll_gate
    <2> DEFINE n == decide(log).node
    <2>1. \A x, y : Uncapped(Started(n, x)) /\ Uncapped(Failed(n, x)) /\ Uncapped(Waiting(n, x))
                    /\ Uncapped(Resolved(n, x)) /\ Uncapped(Finished(n)) /\ Uncapped(RunPaused(0))
      BY Said DEF Uncapped
    <2> DEFINE o == Started(n, next_attempt(log, n))
               r(how) == Resolved(n, how)
    <2>2. /\ Uncapped(o) /\ \A how : Uncapped(r(how)) /\ Uncapped(Failed(n, how))
          /\ Uncapped(Finished(n)) /\ Uncapped(RunPaused(0)) /\ Uncapped(Waiting(n, "pr"))
      BY <2>1
    <2> HIDE DEF n, o, r
    <2>3. CASE publish_gate
      <3>1. Appends(<<Waiting(n, "pr"), RunPaused(0)>>) \/ \E cause : Appends(<<o, Failed(n, cause)>>)
        BY <2>3 DEF publish_gate, n, o
      <3>2. /\ Capped(log, <<Waiting(n, "pr"), RunPaused(0)>>)
            /\ \A cause : Capped(log, <<o, Failed(n, cause)>>)
        BY <2>2, UncappedScripts
      <3>3. QED
        BY <1>3, <3>1, <3>2
    <2>4. CASE poll_gate
      <3>1. \/ Appends(<<RunPaused(0)>>) \/ Appends(<<o, r("approved"), Finished(n)>>)
            \/ Appends(<<o, r("changes"), Failed(n, "fixable")>>)
            \/ Appends(<<r("closed"), RunPaused(0)>>)
        BY <2>4 DEF poll_gate, n, o, r
      <3>2. /\ Capped(log, <<o, r("approved"), Finished(n)>>)
            /\ Capped(log, <<o, r("changes"), Failed(n, "fixable")>>)
            /\ Capped(log, <<r("closed"), RunPaused(0)>>)
        BY <2>2, UncappedScripts
      <3>3. QED
        BY <1>3, <1>4, <3>1, <3>2
    <2>5. QED
      BY <1>14, <2>3, <2>4
  <1>15. CASE EngineAppends
    <2>1. eng.script # <<>> /\ log' = apply(log, Head(eng.script)) /\ eng'.script = Tail(eng.script)
      BY <1>15 DEF EngineAppends, Typed, EngineTyped
    <2>2. QED
      BY <2>1, CappedTail DEF Typed, EngineTyped, Order
  <1>16. ASSUME NEW n \in Nodes, NodeStarts(n) \/ NodeEnds(n) \/ NodePauses(n)
         PROVE  Capped(log', eng'.script)
    <2>1. ~Landed
      BY <1>16 DEF NodeStarts, NodeEnds, NodePauses, Landed, Working
    <2>2. eng.script = <<>>
      BY <2>1 DEF Order, Quiet
    <2>3. eng'.script = eng.script
      BY <1>16 DEF NodeStarts, NodeEnds, NodePauses, Typed, EngineTyped
    <2>4. QED
      BY <1>1, <2>2, <2>3
  <1>17. CASE CloseRefused
    <2>1. Capped(log, <<Failed(decide(log).node, "stuck")>>)
      BY UncappedScripts, Said DEF Uncapped
    <2>2. QED
      BY <1>3, <1>17, <2>1 DEF CloseRefused
  <1>18. QED
    BY <1>5, <1>6, <1>7, <1>8, <1>9, <1>10, <1>11, <1>12, <1>13, <1>14, <1>15, <1>16, <1>17 DEF Engine

\* No call ever reroutes.
LEMMA CallsReroute ==
  ASSUME Typed, Order, \A c \in Callers : NoReroutes(calls[c]), [Next]_vars
  PROVE  \A c \in Callers : NoReroutes(calls'[c])
  <1>1. ASSUME UNCHANGED calls PROVE \A c \in Callers : NoReroutes(calls'[c])
    BY <1>1
  <1>2. ASSUME NEW c \in Callers, NEW s, NoReroutes(s), calls' = [calls EXCEPT ![c] = s]
        PROVE  \A b \in Callers : NoReroutes(calls'[b])
    BY <1>2 DEF Typed, CallsTyped
  <1>3. \A n, x : /\ NoReroutes(pair(n, x)) /\ NoReroutes(<<QuestionsAnswered(n)>>)
                  /\ NoReroutes(<<RunFinished(x)>>) /\ NoReroutes(<<>>)
    <2>1. ASSUME NEW n, NEW x
          PROVE  /\ NoReroutes(pair(n, x)) /\ NoReroutes(<<QuestionsAnswered(n)>>)
                 /\ NoReroutes(<<RunFinished(x)>>) /\ NoReroutes(<<>>)
      <3> DEFINE w == Waiting(n, "gate")
                 r == Resolved(n, x)
      <3>1. w.kind = "gate_waiting" /\ r.kind = "gate_resolved"
        BY Said
      <3>2. pair(n, x) = <<w, r>>
        BY DEF pair
      <3> HIDE DEF w, r
      <3>3. NoReroutes(pair(n, x))
        BY <3>1, <3>2 DEF NoReroutes
      <3>4. NoReroutes(<<QuestionsAnswered(n)>>) /\ NoReroutes(<<RunFinished(x)>>) /\ NoReroutes(<<>>)
        BY Said DEF NoReroutes
      <3>5. QED
        BY <3>3, <3>4
    <2>2. QED
      BY <2>1
  <1>4. CASE Wake \/ CtrlC \/ Crash \/ settle_crash
    BY <1>1, <1>4 DEF Wake, CtrlC, Crash, settle_crash
  <1>5. CASE Engine
    BY <1>1, <1>5 DEF Engine, recheck_approved_gates, PauseAtTop, StepBroken, Errs, TakeStep, execute_batch,
                CloseRefused, NoRoom, ConsumeSeeded, NobodyToAsk, AskHuman, Appends,
                HumanAnswers, HumanReplies, publish_gate, poll_gate, InvocationEnds,
                EngineAppends, NodeStarts, NodeEnds, NodePauses
  <1>6. ASSUME NEW c \in Callers,
               resolve_gate(c) \/ answer_questions(c) \/ close_run(c) \/ CallerDies(c)
        PROVE  \A b \in Callers : NoReroutes(calls'[b])
    BY <1>2, <1>3, <1>6 DEF resolve_gate, answer_questions, close_run, CallerDies
  <1>7. ASSUME NEW c \in Callers, CallAppends(c)
        PROVE  \A b \in Callers : NoReroutes(calls'[b])
    <2>1. calls[c] # <<>> /\ calls' = [calls EXCEPT ![c] = Tail(calls[c])] /\ calls[c] \in Seq(Events)
      BY <1>7 DEF CallAppends, Typed, CallsTyped
    <2>2. NoReroutes(Tail(calls[c]))
      BY <2>1 DEF NoReroutes
    <2>3. QED
      BY <1>2, <2>1, <2>2
  <1>8. CASE UNCHANGED vars
    BY <1>1, <1>8 DEF vars
  <1>9. QED
    BY <1>4, <1>5, <1>6, <1>7, <1>8 DEF Next

\* Capping is inductive, given the type and the order.
LEMMA NextCapping == Typed /\ Order /\ Capping /\ [Next]_vars => Capping'
  <1> SUFFICES ASSUME Typed, Order, Capping, [Next]_vars PROVE Capping'
    OBVIOUS
  <1>1. \A c \in Callers : NoReroutes(calls'[c])
    BY CallsReroute DEF Capping
  <1>2. CASE Engine \/ Wake \/ Crash \/ CtrlC
    BY <1>1, <1>2, ScriptCapped DEF Capping
  <1>3. CASE settle_crash \/ \E c \in Callers : \/ resolve_gate(c) \/ answer_questions(c) \/ close_run(c)
                                                \/ CallAppends(c) \/ CallerDies(c)
    <2>1. eng' = eng
      BY <1>3 DEF settle_crash, resolve_gate, answer_questions, close_run, Call, CallAppends, CallerDies
    <2>2. CASE log' = log
      BY <1>1, <2>1, <2>2 DEF Capping
    <2>3. CASE settle_crash \/ \E c \in Callers : CallAppends(c)
      <3>1. eng.at = "down"
        BY <2>3 DEF settle_crash, CallAppends, Order, Apart
      <3>2. eng.script = <<>>
        BY <3>1, DownTyped DEF Order, Apart
      <3>3. QED
        BY <1>1, <2>1, <3>2, UncappedScripts DEF Capping
    <2>4. QED
      BY <1>3, <2>2, <2>3 DEF resolve_gate, answer_questions, close_run, Call, CallerDies
  <1>4. CASE UNCHANGED vars
    BY <1>4 DEF vars, Capping
  <1>5. QED
    BY <1>2, <1>3, <1>4 DEF Next

\* The reroute past the cap is a person's.
LEMMA CapHeld ==
  ASSUME Typed, Order, Capping, [Next]_vars, NEW n \in Nodes,
         log'.node[n].reroutes > log.node[n].reroutes, log.node[n].reroutes >= MaxReroutes
  PROVE  log.gate[n].choice = "retry" /\ unconsumed(log, n, log.gate[n].at)
  <1>1. log.node[n].reroutes \in Nat /\ MaxReroutes \in Nat
    BY WorkflowAssumption DEF Typed, Recorded, NodeRecord
  <1>2. log'.node[n].reroutes # log.node[n].reroutes
    BY <1>1
  <1>3. ASSUME NEW e \in Events, log' = apply(log, e)
        PROVE  e.kind = "node_rerouted" /\ e.node = n /\ e.with = "on_failure"
    BY <1>2, <1>3, CountsKept DEF Typed
  <1>4. CASE eng.script # <<>> /\ log' = apply(log, Head(eng.script))
    <2>1. Head(eng.script) \in Events /\ Head(eng.script) = eng.script[1] /\ 1 \in 1..Len(eng.script)
      BY <1>4 DEF Typed, EngineTyped
    <2>2. eng.script[1].kind = "node_rerouted" /\ eng.script[1].node = n /\ eng.script[1].with = "on_failure"
      BY <1>3, <1>4, <2>1
    <2>3. 1 \notin {2, 3}
      OBVIOUS
    <2>4. \/ log.node[n].reroutes < MaxReroutes
          \/ log.gate[n].choice = "retry" /\ unconsumed(log, n, log.gate[n].at)
      BY <2>1, <2>2, <2>3 DEF Capping, Capped
    <2>5. QED
      BY <1>1, <2>4
  <1>5. ~ \E c \in Callers : calls[c] # <<>> /\ log' = apply(log, Head(calls[c]))
    <2>1. SUFFICES ASSUME NEW c \in Callers, calls[c] # <<>>, log' = apply(log, Head(calls[c]))
                   PROVE  FALSE
      OBVIOUS
    <2>2. Head(calls[c]) \in Events /\ Head(calls[c]) = calls[c][1] /\ 1 \in 1..Len(calls[c])
      BY <2>1 DEF Typed, CallsTyped
    <2>3. QED
      BY <1>3, <2>1, <2>2 DEF Capping, NoReroutes
  <1>6. log' # apply(log, RunPaused(0))
    <2>1. RunPaused(0) \in Events /\ RunPaused(0).kind = "run_paused"
      BY PauseSaid
    <2>2. QED
      BY <1>3, <2>1
  <1>7. ~ \E m \in Nodes : eng.batch[m] > 0 /\ log' = apply(log, Started(m, eng.batch[m]))
    <2>1. SUFFICES ASSUME NEW m \in Nodes, eng.batch[m] > 0, log' = apply(log, Started(m, eng.batch[m]))
                   PROVE  FALSE
      OBVIOUS
    <2>2. eng.batch[m] \in Nat
      BY <2>1 DEF Typed, EngineTyped, Working
    <2>3. Started(m, eng.batch[m]) \in Events /\ Started(m, eng.batch[m]).kind = "node_started"
      BY <2>2, NodeEvents, Said
    <2>4. QED
      BY <1>3, <2>1, <2>3
  <1>8. ~ \E m \in Nodes : \E e \in Events :
               /\ eng.batch[m] = Working /\ log' = apply(log, e)
               /\ e.node = m /\ e.kind \in Terminals \cup {"questions_asked"}
    BY <1>3 DEF Terminals
  <1>9. QED
    BY <1>2, <1>4, <1>5, <1>6, <1>7, <1>8, AppendedBy

\* A failure is rerouted past max_reroutes only for a `retry` a person chose since, that nothing acted
\* upon yet (steps.rs, gate_exhausted).
THEOREM RunCapNeedsAPerson ==
  ASSUME Overlap = FALSE
  PROVE  Spec => CapNeedsAPerson
  <1>1. Init => Order
    BY InitOrder
  <1>2. Init => Capping
    <2>1. \A L : Capped(L, <<>>)
      BY UncappedScripts
    <2>2. QED
      BY <2>1, DownTyped DEF Init, Capping, NoReroutes
  <1>3. Typed /\ Order /\ [Next]_vars => Order'
    BY NextOrder
  <1>4. Typed /\ Order /\ Capping /\ [Next]_vars => Capping'
    BY NextCapping
  <1>5. Typed /\ Order /\ Capping /\ [Next]_vars =>
          [\A n \in Nodes :
             log'.node[n].reroutes > log.node[n].reroutes
             /\ log.node[n].reroutes >= MaxReroutes
               => /\ log.gate[n].choice = "retry"
                  /\ unconsumed(log, n, log.gate[n].at)]_vars
    BY CapHeld
  <1>6. QED
    BY AlwaysTyped, <1>1, <1>2, <1>3, <1>4, <1>5, PTL DEF Spec, CapNeedsAPerson
-----------------------------------------------------------------------------
\* The run closed as failed only when its on_failure lets it: under
\* `continue`, once everything that is not behind a failure has finished.
RestRan(L) ==
    OnFailure = "continue" =>
        \A n \in Nodes \ reroute_only :
            \/ finished(L, n)
            \/ \E m \in {n} \cup Upstream[n] : State(L, m) = "failed"

\* No round of questions is open.
NoRound(L) == \A n \in Nodes : L.gate[n].round # "open"

\* The close of a run is the last event of what its engine appends.
Closing(L, s) ==
    \A i \in 1..Len(s) :
        s[i].kind = "run_finished" =>
            /\ i = Len(s) /\ NoRound(L)
            /\ s[i].with = "failed" => i = 1 /\ RestRan(L)

\* What a caller appends closes a run only when it is `close`.
ClosedByCall(s) ==
    \A i \in 1..Len(s) :
        s[i].kind = "run_finished" => i = Len(s) /\ "close" \in Calls /\ s[i].with # "failed"

\* Nobody who could append to a closed run is left.
Sealed ==
    log.run.finished # "no" =>
        /\ eng.at \in {"down", "ending"} /\ eng.script = <<>> /\ Landed
        /\ NoCalls /\ ~log.run.tailPaused
        /\ "answer" \in Calls => NoRound(log)
        /\ log.run.finished = "failed" => RestRan(log)

\* What closes a run, who may, and that it is sealed once it is closed.
Sealing ==
    /\ Closing(log, eng.script)
    /\ \A c \in Callers : ClosedByCall(calls[c])
    /\ "close" \in Calls => ~crashed
    /\ Sealed

\* `close` stands beside no crash and no reply.
Alone == Overlap = FALSE /\ ("close" \in Calls => "crash" \notin Adverse /\ "answer" \notin Calls)

-----------------------------------------------------------------------------
\* Who waits for a node waits for what that one waits for.
LEMMA UpstreamCloses ==
  ASSUME NEW n \in Nodes
  PROVE  /\ Upstream[n] \subseteq Nodes /\ Deps[n] \subseteq Upstream[n]
         /\ \A d \in Upstream[n] : Deps[d] \subseteq Upstream[n] /\ Upstream[d] \subseteq Upstream[n]
  <1>1. \A k \in Nodes : Deps[k] \subseteq Nodes
    BY WorkflowAssumption
  <1>2. Upstream[n] \subseteq Nodes /\ Deps[n] \subseteq Upstream[n]
    BY <1>1 DEF Upstream
  <1>3. ASSUME NEW d \in Upstream[n] PROVE Deps[d] \subseteq Upstream[n]
    BY <1>1, <1>2, <1>3 DEF Upstream
  <1>4. ASSUME NEW d \in Upstream[n] PROVE Upstream[d] \subseteq Upstream[n]
    <2>1. Deps[d] \subseteq Upstream[n] /\ \A k \in Upstream[n] : Deps[k] \subseteq Upstream[n]
      BY <1>3, <1>4
    <2>2. Upstream[n] \in SUBSET Nodes /\ d \in Nodes
      BY <1>2, <1>4
    <2> DEFINE U == Upstream[n]
    <2> HIDE DEF U
    <2>3. U \in SUBSET Nodes /\ Deps[d] \subseteq U /\ \A k \in U : Deps[k] \subseteq U
      BY <2>1, <2>2 DEF U
    <2>4. Upstream[d] \subseteq U
      BY <2>2, <2>3 DEF Upstream
    <2>5. QED
      BY <2>4 DEF U
  <1>5. QED
    BY <1>2, <1>3, <1>4

\* Nothing of the batch that capacity cuts means nothing ready at all.
LEMMA NothingReady ==
  ASSUME NEW L, ready_gates(L) = {}, ready_nodes(L) = {}
  PROVE  ready(L) = {}
  <1>1. SUFFICES ASSUME ready(L) # {} PROVE FALSE
    OBVIOUS
  <1> DEFINE fresh == ready(L) \ ready_gates(L)
             n == First(fresh)
  <1>2. fresh # {} /\ fresh \in SUBSET Nodes
    BY <1>1 DEF ready
  <1> HIDE DEF fresh
  <1>3. n \in fresh /\ \A k \in fresh : n <= k
    BY <1>2, FirstIsLeast
  <1> HIDE DEF n
  <1>4. {k \in fresh : k < n} = {}
    <2>1. ASSUME NEW k \in fresh PROVE ~(k < n)
      <3>1. k \in Int /\ n \in Int /\ n <= k
        BY <1>2, <1>3, <2>1, NAssumption DEF Nodes
      <3>2. QED
        BY <3>1
    <2>2. QED
      BY <2>1
  <1>5. Cardinality({k \in fresh : k < n}) = 0
    BY <1>4, FS_EmptySet
  <1>6. Capacity > 0
    BY WorkflowAssumption DEF Capacity
  <1>7. n \in {k \in fresh : Cardinality({j \in fresh : j < k}) < Capacity}
    BY <1>3, <1>5, <1>6
  <1>8. QED
    BY <1>7 DEF ready_nodes, fresh

\* Under `continue` a failure alone never closes the run.
LEMMA FailureContinues ==
  ASSUME NEW L, OnFailure = "continue", failure_step(L) # Nothing
  PROVE  failure_step(L).do # "Fail"
  <1>1. ASSUME NEW n PROVE drive_gate(L, n).do # "Fail"
    BY DEF drive_gate, Decision
  <1>2. ASSUME NEW n PROVE unrerouted(L, n) = Nothing \/ unrerouted(L, n).do # "Fail"
    BY DEF unrerouted, Decision
  <1>3. ASSUME NEW n PROVE after_reroute(L, n) = Nothing \/ after_reroute(L, n).do # "Fail"
    BY <1>1 DEF after_reroute, Execute
  <1>4. \A n : failure_of(L, n) = Nothing \/ failure_of(L, n).do # "Fail"
    BY <1>2, <1>3 DEF failure_of
  <1>5. QED
    BY <1>4 DEF failure_step

\* Under `continue`, a run is given up as failed once nothing is ready and nobody is at work.
LEMMA FailLeavesNothing ==
  ASSUME NEW L, Recorded(L), ~L.broken, OnFailure = "continue", decide(L).do = "Fail"
  PROVE  Settled(L) /\ ready(L) = {}
  <1>1. /\ \A d : OnGate(d) => d.do # "Fail"
        /\ \A d : OnWait(L, d) => d.do # "Fail"
        /\ \A d : OnAnswer(L, d) => d.do # "Fail"
        /\ \A d : OnBatch(L, d) => d.do # "Fail"
        /\ \A d : OnNone(L, d) => d.do # "Fail"
    BY DEF OnGate, OnWait, OnAnswer, OnBatch, OnNone, Decision
  <1> DEFINE f == or_else(failure_step(L), ready_batch(L))
             o == or_else(orphan_step(L), f)
             a == or_else(answered_step(L), o)
             w == or_else(waiting_step(L), a)
  <1>2. decide(L) = or_else(gate_step(L), w)
    BY DEF decide
  <1>3. gate_step(L) = Nothing /\ decide(L) = w
    BY <1>1, <1>2, GateStep DEF or_else
  <1>4. waiting_step(L) = Nothing /\ decide(L) = a
    BY <1>1, <1>3, WaitingStep DEF or_else
  <1>5. answered_step(L) = Nothing /\ decide(L) = o
    BY <1>1, <1>4, AnsweredStep DEF or_else
  <1>6. \A n \in Nodes : State(L, n) \notin Waits /\ ~answered_unfinished(L, n)
    BY <1>4, <1>5, WaitingStep, AnsweredStep
  <1>7. orphan_step(L) = Nothing /\ decide(L) = f
    BY <1>1, <1>5, <1>6, OrphanStep DEF or_else
  <1>8. \A n \in Nodes : State(L, n) # "running"
    BY <1>3, <1>6, <1>7, GateStep, OrphanStep
  <1>9. Settled(L)
    <2>1. \A n \in Nodes : State(L, n) \in NodeStates
      BY DEF Recorded, NodeRecord, State
    <2>2. QED
      BY <1>6, <1>8, <2>1 DEF Settled, NodeStates
  <1>10. failure_step(L) = Nothing /\ decide(L) = ready_batch(L)
    BY <1>7, FailureContinues DEF or_else
  <1>11. ready_gates(L) = {}
    <2>1. \A n : drive_gate(L, n).do # "Fail"
      BY DEF drive_gate, Decision
    <2>2. QED
      BY <1>10, <2>1 DEF ready_batch
  <1>12. ready_nodes(L) = {}
    BY <1>10, <1>11 DEF ready_batch, Execute
  <1>13. QED
    BY <1>9, <1>11, <1>12, NothingReady

\* A node that neither finished nor failed, behind no failure, waits for such
\* a node: without a cycle there is none.
LEMMA FailRanTheRest ==
  ASSUME NEW L, Recorded(L), ~L.broken, decide(L).do = "Fail"
  PROVE  RestRan(L)
  <1>1. SUFFICES ASSUME OnFailure = "continue"
        PROVE  \A n \in Nodes \ reroute_only :
                 \/ finished(L, n)
                 \/ \E m \in {n} \cup Upstream[n] : State(L, m) = "failed"
    BY DEF RestRan
  <1> DEFINE left == {n \in Nodes \ reroute_only :
                        /\ ~finished(L, n)
                        /\ \A m \in {n} \cup Upstream[n] : State(L, m) # "failed"}
  <1>2. Settled(L) /\ ready(L) = {}
    BY <1>1, FailLeavesNothing
  <1>3. ASSUME NEW n \in left PROVE \E d \in Deps[n] : d \in left
    <2>1. /\ n \in Nodes /\ n \notin reroute_only /\ ~finished(L, n)
          /\ \A m \in {n} \cup Upstream[n] : State(L, m) # "failed"
      BY <1>3
    <2>2. State(L, n) = "none"
      BY <1>2, <2>1 DEF Settled, finished
    <2>3. ~deps_satisfied(L, n)
      BY <1>2, <2>1, <2>2 DEF ready
    <2>4. PICK d \in Deps[n] : ~finished(L, d)
      BY <2>3 DEF deps_satisfied
    <2>5. d \in Upstream[n] /\ d \in Nodes /\ Upstream[d] \subseteq Upstream[n]
      BY <2>1, <2>4, UpstreamCloses
    <2>6. d \notin reroute_only
      BY <2>1, <2>4 DEF reroute_only
    <2>7. \A m \in {d} \cup Upstream[d] : State(L, m) # "failed"
      BY <2>1, <2>5
    <2>8. QED
      BY <2>4, <2>5, <2>6, <2>7
  <1>4. left \in SUBSET Nodes
    OBVIOUS
  <1> HIDE DEF left
  <1>5. left = {}
    BY <1>3, <1>4, AcyclicAssumption
  <1>6. QED
    BY <1>5 DEF left

-----------------------------------------------------------------------------
\* Only its run_finished closes a run, and it moves no other ledger.
LEMMA FinishedBy ==
  ASSUME NEW L, Recorded(L), NEW e \in Events, NEW M, M = apply(L, e),
         M.run.finished # L.run.finished
  PROVE  /\ e.kind = "run_finished" /\ M.run.finished = e.with /\ ~M.run.tailPaused
         /\ M.node = L.node /\ M.gate = L.gate
  <1> DEFINE r == apply_run(L.run, e, L.seq + 1, Awaited(L, e))
             tail == e.kind = "run_paused"
             woke == r.woken \/ About(e)
  <1>1. ~L.broken
    BY DEF apply
  <1>2. ~refuse(L, e)
    <2>1. refuse(L, e) => M = [L EXCEPT !.broken = TRUE]
      BY <1>1, Zenon DEF apply
    <2>2. refuse(L, e) => M.run = L.run
      BY <2>1 DEF Recorded
    <2>3. QED
      BY <2>2
  <1>3. Reads(L, e, M)
    BY <1>1, <1>2, Applied
  <1>4. M.run = [r EXCEPT !.tailPaused = tail, !.woken = woke]
    BY <1>3, Zenon DEF Reads
  <1>5. L.run \in RunRecord(L.seq)
    BY DEF Recorded
  <1>6. ASSUME NEW k, NEW a
        PROVE  /\ DOMAIN apply_run(L.run, e, k, a) = DOMAIN L.run
               /\ apply_run(L.run, e, k, a).finished =
                     IF e.kind = "run_finished" THEN e.with ELSE L.run.finished
    BY <1>5 DEF apply_run, RunRecord
  <1>7. /\ DOMAIN r = DOMAIN L.run
        /\ r.finished = IF e.kind = "run_finished" THEN e.with ELSE L.run.finished
    BY <1>6
  <1>8. {"finished", "tailPaused", "woken"} \subseteq DOMAIN L.run
    BY <1>5 DEF RunRecord
  <1> HIDE DEF r, woke
  <1>9. M.run.finished = r.finished /\ M.run.tailPaused = tail
    BY <1>4, <1>7, <1>8
  <1>10. e.kind = "run_finished" /\ M.run.finished = e.with /\ ~M.run.tailPaused
    BY <1>7, <1>9
  <1>11. \A q, k : apply_node(q, e, k) = q /\ apply_gate(q, e, k) = q
    BY <1>10 DEF apply_node, apply_gate
  <1>12. M.node = [n \in Nodes |-> L.node[n]] /\ M.gate = [n \in Nodes |-> L.gate[n]]
    BY <1>3, <1>11 DEF Reads
  <1>13. QED
    BY <1>10, <1>12 DEF Recorded

\* Only questions_asked opens a round.
LEMMA NoRoundKept ==
  ASSUME NEW L, Recorded(L), ~L.broken, Ledger(L), NEW e \in Events, Fit(L, e),
         NEW M, M = apply(L, e), NoRound(L), e.kind # "questions_asked"
  PROVE  NoRound(M)
  <1>1. SUFFICES ASSUME NEW n \in Nodes PROVE M.gate[n].round # "open"
    BY DEF NoRound
  <1>2. L.gate[n].round # "open"
    BY DEF NoRound
  <1>3. CASE About(e) /\ n = e.node
    BY <1>2, <1>3, StateAfter
  <1>4. CASE ~(About(e) /\ n = e.node)
    BY <1>2, <1>4, NodeAfter
  <1>5. QED
    BY <1>3, <1>4

\* What is left to append closes the run last.
LEMMA ClosingTail ==
  ASSUME NEW L, Recorded(L), ~L.broken, Ledger(L), NEW s \in Seq(Events), s # <<>>, Sound(L, s),
         Closing(L, s), NEW M, M = apply(L, Head(s))
  PROVE  Closing(M, Tail(s))
  <1> DEFINE t == Tail(s)
             e == Head(s)
  <1>1. /\ t \in Seq(Events) /\ Len(t) = Len(s) - 1 /\ Len(s) \in Nat /\ e \in Events
        /\ e = s[1] /\ 1 \in 1..Len(s) /\ \A i \in 1..Len(t) : t[i] = s[i + 1] /\ i + 1 \in 1..Len(s)
    OBVIOUS
  <1>2. M = apply(L, e) /\ Fit(L, e)
    BY SoundHead
  <1>3. e.kind # "questions_asked"
    BY <1>1 DEF Sound
  <1> HIDE DEF t, e
  <1>4. SUFFICES ASSUME NEW i \in 1..Len(t), t[i].kind = "run_finished"
        PROVE  i = Len(t) /\ NoRound(M) /\ t[i].with # "failed"
    BY DEF Closing, t
  <1>5. i + 1 \in 1..Len(s) /\ t[i] = s[i + 1] /\ i + 1 # 1
    BY <1>1, <1>4
  <1>6. i + 1 = Len(s) /\ NoRound(L) /\ t[i].with # "failed"
    BY <1>4, <1>5 DEF Closing
  <1>7. i = Len(t)
    BY <1>1, <1>6
  <1>8. NoRound(M)
    BY <1>1, <1>2, <1>3, <1>6, NoRoundKept
  <1>9. QED
    BY <1>6, <1>7, <1>8

\* What closes nothing.
Ongoing == {e \in Events : e.kind # "run_finished"}

\* A script that closes nothing,
LEMMA OngoingCloses ==
  ASSUME NEW L, NEW s \in Seq(Ongoing)
  PROVE  Closing(L, s) /\ ClosedByCall(s)
  <1>1. \A i \in 1..Len(s) : s[i].kind # "run_finished"
    BY DEF Ongoing
  <1>2. QED
    BY <1>1 DEF Closing, ClosedByCall

\* made of what is said of a node
LEMMA OngoingSaid ==
  ASSUME NEW n \in Nodes
  PROVE  /\ \A k \in Nat : Started(n, k) \in Ongoing
         /\ Finished(n) \in Ongoing /\ QuestionsAnswered(n) \in Ongoing
         /\ \A cause \in Causes : Failed(n, cause) \in Ongoing
         /\ \A on \in {"gate", "pr"} : Waiting(n, on) \in Ongoing
         /\ \A how \in Options \cup Verdicts : Resolved(n, how) \in Ongoing
         /\ \A to \in Nodes : \A origin \in {"on_failure", "gate_choice"} :
               Rerouted(n, to, origin) \in Ongoing
  BY NodeEvents, Said, SaidRerouted DEF Ongoing

\* or of the run.
LEMMA OngoingRun ==
  /\ \A n \in 0..N : RunPaused(n) \in Ongoing
  /\ \A when \in {"late", "early"} : RunResumed(when) \in Ongoing
  /\ PromotionSignaled \in Ongoing
  BY RunEvents, Said DEF Ongoing

\* A pause closes nothing.
LEMMA PauseOngoing == RunPaused(0) \in Ongoing
  <1>1. 0 \in 0..N
    BY NAssumption
  <1>2. QED
    BY <1>1, OngoingRun

\* With nobody waiting, no round is open.
LEMMA SettledNoRound ==
  ASSUME NEW L, Ledger(L), Settled(L)
  PROVE  NoRound(L)
  BY DEF Ledger, Settled, NoRound

\* A cap reached, or a failure given up, finds nobody at work.
LEMMA DecidedFailed ==
  ASSUME NEW L, Recorded(L), ~L.broken, decide(L).do \in {"GateExhaustedReroutes", "Fail"}
  PROVE  Settled(L)
  BY Decides DEF Decided, OnGate, OnWait, OnAnswer, OnBatch, OnFailed, OnNone, Decision

\* A person's choice closes the run by a promotion only.
LEMMA ConsequenceCloses ==
  ASSUME Typed, Order, NEW d, d = decide(log), Asked(d), NEW choice \in Menu(d),
         NEW said \in {<<>>, pair(d.node, choice)}
  PROVE  Closing(log, Consequence(d, choice, said))
  <1> DEFINE n == d.node
  <1>1. n \in Nodes
    BY DEF Asked
  <1>2. choice \in Options /\ (choice = "back" /\ d.do = "ResolveInternalGate" => SendsBack[n] # 0)
    BY DEF Menu, Options
  <1>3. Started(n, next_attempt(log, n)) \in Ongoing
    BY <1>1, NextAttempt, OngoingSaid DEF Typed
  <1>4. RunPaused(0) \in Ongoing /\ PromotionSignaled \in Ongoing
    BY PauseOngoing, OngoingRun
  <1>5. Finished(n) \in Ongoing /\ Failed(n, "stuck") \in Ongoing /\ Failed(n, "fixable") \in Ongoing
    BY <1>1, OngoingSaid DEF Causes
  <1>6. \A to \in 0..N : to # 0 => to \in Nodes
    BY NAssumption DEF Nodes
  <1>7. said \in Seq(Ongoing)
    <2> DEFINE w == Waiting(n, "gate")
               r == Resolved(n, choice)
    <2>1. w \in Ongoing /\ r \in Ongoing
      BY <1>1, <1>2, OngoingSaid
    <2>2. said \in {<<>>, <<w, r>>}
      BY DEF pair
    <2> HIDE DEF w, r
    <2>3. <<>> \in Seq(Ongoing) /\ <<w, r>> \in Seq(Ongoing)
      BY <2>1
    <2>4. QED
      BY <2>2, <2>3
  <1>8. CASE d.do = "GateExhaustedReroutes" /\ choice = "promote"
    <2> DEFINE w == Waiting(n, "gate")
               r == Resolved(n, choice)
               x == PromotionSignaled
               y == RunFinished("promoted")
    <2>1. NoRound(log)
      BY <1>8, DecidedFailed, SettledNoRound DEF Typed, Order
    <2>2. /\ x.kind # "run_finished" /\ y.with # "failed"
          /\ w.kind # "run_finished" /\ r.kind # "run_finished"
      BY Said
    <2>3. Consequence(d, choice, said) = said \o <<x, y>>
      BY <1>8 DEF Consequence, exhausted
    <2>4. said \in {<<>>, <<w, r>>}
      BY DEF pair
    <2> HIDE DEF w, r, x, y
    <2>5. Consequence(d, choice, said) \in {<<x, y>>, <<w, r, x, y>>}
      <3>1. <<>> \o <<x, y>> = <<x, y>>
        OBVIOUS
      <3>2. <<w, r>> \o <<x, y>> = <<w, r, x, y>>
        BY Join22
      <3>3. QED
        BY <2>3, <2>4, <3>1, <3>2
    <2>6. Closing(log, <<x, y>>) /\ Closing(log, <<w, r, x, y>>)
      BY <2>1, <2>2 DEF Closing
    <2>7. QED
      BY <2>5, <2>6
  <1>9. SUFFICES ASSUME ~(d.do = "GateExhaustedReroutes" /\ choice = "promote")
        PROVE  Consequence(d, choice, said) \in Seq(Ongoing)
    BY <1>8, OngoingCloses
  <1>10. CASE d.do = "GateExhaustedReroutes"
    <2>1. Goto[n] \in Nodes
      BY <1>1, <1>6, <1>10, WorkflowAssumption DEF Asked
    <2>2. Rerouted(n, Goto[n], "on_failure") \in Ongoing
      BY <1>1, <2>1, OngoingSaid
    <2>3. exhausted(d, choice, said) \in Seq(Ongoing)
      BY <1>4, <1>7, <1>9, <1>10, <2>2 DEF exhausted
    <2>4. QED
      BY <1>10, <2>3 DEF Consequence
  <1>11. CASE d.do = "EscalateFailure"
    BY <1>4, <1>7, <1>11 DEF Consequence, failure_escalation
  <1>12. CASE d.do = "ResolveInternalGate"
    <2>1. choice = "back" => Rerouted(n, SendsBack[n], "gate_choice") \in Ongoing
      BY <1>1, <1>2, <1>6, <1>12, WorkflowAssumption, OngoingSaid
    <2>2. internal_gate(d, choice, said) \in Seq(Ongoing)
      <3> HIDE DEF n
      <3>1. QED
        BY <1>3, <1>4, <1>5, <1>7, <2>1 DEF internal_gate, n
    <2>3. QED
      BY <1>12, <2>2 DEF Consequence
  <1>13. CASE d.do \notin {"GateExhaustedReroutes", "EscalateFailure", "ResolveInternalGate"}
    <2>1. console_gate(d, choice, said) \in Seq(Ongoing)
      BY <1>3, <1>5, <1>7 DEF console_gate
    <2>2. QED
      BY <1>13, <2>1 DEF Consequence
  <1>14. QED
    BY <1>10, <1>11, <1>12, <1>13

\* The scheduler closes it with nobody at work.
LEMMA StepCloses ==
  ASSUME Typed, Order, decide(log).do \in {"Finish", "Fail", "Pause", "WaitUntil", "Reroute",
                           "FinishAnswered"}
  PROVE  Closing(log, step(decide(log)))
  <1> DEFINE d == decide(log)
  <1>1. Decided(log, d) /\ Recorded(log) /\ ~log.broken /\ Ledger(log)
    BY Decides DEF Typed, Order
  <1>2. d.do = "Fail" => RestRan(log)
    BY <1>1, FailRanTheRest
  <1> HIDE DEF d
  <1>3. CASE d.do \in {"Finish", "Fail"}
    <2>1. Settled(log)
      BY <1>1, <1>3 DEF Decided, OnGate, OnWait, OnAnswer, OnBatch, OnFailed, OnNone, Decision
    <2>2. NoRound(log)
      BY <1>1, <2>1, SettledNoRound
    <2>3. PICK p : step(d) = <<p>> /\ (p.with = "failed" => d.do = "Fail")
      BY <1>3, Said DEF step
    <2>4. Closing(log, <<p>>)
      BY <1>2, <2>2, <2>3 DEF Closing
    <2>5. QED
      BY <2>3, <2>4 DEF d
  <1>4. CASE d.do \in {"Pause", "WaitUntil", "Reroute", "FinishAnswered"}
    <2>1. PICK p : step(d) = <<p>> /\ p.kind # "run_finished"
      BY <1>4, Said, SaidRerouted DEF step
    <2>2. Closing(log, <<p>>)
      BY <2>1 DEF Closing
    <2>3. QED
      BY <2>1, <2>2 DEF d
  <1>5. QED
    BY <1>3, <1>4 DEF d

\* Every script of the engine closes the run with its last event, if at all.
LEMMA ScriptCloses ==
  ASSUME Typed, Order, Closing(log, eng.script), Engine \/ Wake \/ Crash \/ CtrlC
  PROVE  Closing(log', eng'.script)
  <1>1. \A L : Closing(L, <<>>)
    BY DEF Closing
  <1>2. eng' = Down => eng'.script = <<>>
    BY DownTyped
  <1>3. ASSUME NEW s, Appends(s), Closing(log, s)
        PROVE  Closing(log', eng'.script)
    BY <1>3 DEF Appends, Typed, EngineTyped
  <1>4. ASSUME NEW e, e.kind # "run_finished"
        PROVE  \A L : Closing(L, <<e>>)
    BY <1>4 DEF Closing
  <1>5. Closing(log, <<RunPaused(0)>>)
    BY <1>4, PauseSaid
  <1>6. CASE Wake
    <2>1. PICK wake \in {"plain", "absent", "offline", "early"} :
            eng' = IF log.run.finished # "no" THEN [Down EXCEPT !.at = "ending"]
                    ELSE [Down EXCEPT !.at = "wake",
                            !.human = (wake # "absent"), !.forge = (wake # "offline"),
                            !.script = IF woken(log)
                                       THEN <<RunResumed(IF wake = "early" THEN wake ELSE "late")>>
                                       ELSE <<>>]
      BY <1>6, Zenon DEF Wake
    <2> DEFINE human == wake # "absent"
               forge == wake # "offline"
               e == RunResumed(IF wake = "early" THEN wake ELSE "late")
               script == IF woken(log) THEN <<e>> ELSE <<>>
    <2>2. Closing(log, script)
      BY <1>1, <1>4, Said
    <2>3. eng'.script \in {<<>>, script}
      <3>1. \/ eng' = [Down EXCEPT !.at = "ending"]
            \/ eng' = [Down EXCEPT !.at = "wake", !.human = human, !.forge = forge, !.script = script]
        BY <2>1, Zenon
      <3> HIDE DEF human, forge, script
      <3>2. QED
        BY <3>1, DownTyped
    <2>4. log' = log
      BY <1>6 DEF Wake
    <2> HIDE DEF script
    <2>5. QED
      BY <1>1, <2>2, <2>3, <2>4
  <1>7. CASE Crash \/ StepBroken \/ InvocationEnds
    BY <1>1, <1>2, <1>7 DEF Crash, StepBroken, InvocationEnds, Errs
  <1>8. CASE CtrlC \/ execute_batch \/ AskHuman
    <2>1. eng'.script = eng.script /\ log' = log
      BY <1>8 DEF CtrlC, execute_batch, AskHuman, Typed, EngineTyped
    <2>2. QED
      BY <2>1
  <1>9. CASE recheck_approved_gates
    <2>1. \/ eng'.script = eng.script
          \/ \E n \in Nodes : eng'.script = <<Started(n, next_attempt(log, n))>>
      BY <1>9 DEF recheck_approved_gates, Typed, EngineTyped
    <2>2. \A n : Closing(log, <<Started(n, next_attempt(log, n))>>)
      BY <1>4, Said
    <2>3. log' = log
      BY <1>9 DEF recheck_approved_gates
    <2>4. QED
      BY <2>1, <2>2, <2>3
  <1>10. CASE PauseAtTop \/ NobodyToAsk \/ NoRoom
    BY <1>3, <1>5, <1>10 DEF PauseAtTop, NobodyToAsk, NoRoom
  <1>11. CASE TakeStep
    BY <1>3, <1>11, StepCloses DEF TakeStep
  <1>12. CASE ConsumeSeeded
    <2> DEFINE d == decide(log)
    <2>1. Seeded(d) /\ Appends(Consequence(d, log.gate[d.node].choice, <<>>))
      BY <1>12 DEF ConsumeSeeded
    <2>2. Asked(d) /\ log.gate[d.node].choice \in Menu(d)
      BY <2>1, AskedDecision DEF Seeded, PutsToAPerson, Typed
    <2>3. d = decide(log)
      OBVIOUS
    <2> HIDE DEF d
    <2>4. Closing(log, Consequence(d, log.gate[d.node].choice, <<>>))
      BY <2>2, <2>3, ConsequenceCloses
    <2>5. QED
      BY <1>3, <2>1, <2>4
  <1>13. CASE HumanAnswers
    <2>1. PICK choice \in Menu(eng.asks) :
            Appends(Consequence(eng.asks, choice, pair(eng.asks.node, choice)))
      BY <1>13 DEF HumanAnswers
    <2>2. Asked(eng.asks) /\ eng.asks = decide(log)
      BY <1>13 DEF HumanAnswers, Typed, EngineTyped, Order, Quiet
    <2>3. Closing(log, Consequence(eng.asks, choice, pair(eng.asks.node, choice)))
      BY <2>2, ConsequenceCloses
    <2>4. QED
      BY <1>3, <2>1, <2>3
  <1>14. CASE HumanReplies
    <2>1. Closing(log, <<QuestionsAnswered(eng.asks.node)>>)
      BY <1>4, Said
    <2>2. QED
      BY <1>3, <1>5, <1>14, <2>1 DEF HumanReplies
  <1>15. CASE publish_gate \/ poll_gate
    <2> DEFINE n == decide(log).node
               o == Started(n, next_attempt(log, n))
               r(how) == Resolved(n, how)
               w == Waiting(n, "pr")
               f(cause) == Failed(n, cause)
               end == Finished(n)
               p == RunPaused(0)
    <2>1. /\ o.kind # "run_finished" /\ w.kind # "run_finished" /\ end.kind # "run_finished"
          /\ p.kind # "run_finished"
          /\ \A x : r(x).kind # "run_finished" /\ f(x).kind # "run_finished"
      BY Said
    <2>2. publish_gate => Appends(<<w, p>>) \/ \E cause : Appends(<<o, f(cause)>>)
      BY DEF publish_gate
    <2>3. poll_gate => \/ Appends(<<p>>) \/ Appends(<<o, r("approved"), end>>)
                       \/ Appends(<<o, r("changes"), f("fixable")>>)
                       \/ Appends(<<r("closed"), p>>)
      BY DEF poll_gate
    <2> HIDE DEF n, o, r, w, f, end, p
    <2>4. ASSUME NEW a, NEW b, a.kind # "run_finished", b.kind # "run_finished"
          PROVE  Closing(log, <<a, b>>)
      BY <2>4 DEF Closing
    <2>5. ASSUME NEW a, NEW b, NEW c, a.kind # "run_finished", b.kind # "run_finished",
                 c.kind # "run_finished"
          PROVE  Closing(log, <<a, b, c>>)
      BY <2>5 DEF Closing
    <2>6. publish_gate => Closing(log', eng'.script)
      BY <1>3, <2>1, <2>2, <2>4
    <2>7. poll_gate => Closing(log', eng'.script)
      BY <1>3, <1>4, <2>1, <2>3, <2>4, <2>5
    <2>8. QED
      BY <1>15, <2>6, <2>7
  <1>16. CASE EngineAppends
    <2>1. eng.script # <<>> /\ log' = apply(log, Head(eng.script)) /\ eng'.script = Tail(eng.script)
      BY <1>16 DEF EngineAppends, Typed, EngineTyped
    <2>2. QED
      BY <2>1, ClosingTail DEF Typed, EngineTyped, Order, Scripted
  <1>17. ASSUME NEW n \in Nodes, NodeStarts(n) \/ NodeEnds(n) \/ NodePauses(n)
         PROVE  Closing(log', eng'.script)
    <2>1. ~Landed
      BY <1>17 DEF NodeStarts, NodeEnds, NodePauses, Landed, Working
    <2>2. eng.script = <<>>
      BY <2>1 DEF Order, Quiet
    <2>3. eng'.script = eng.script
      BY <1>17 DEF NodeStarts, NodeEnds, NodePauses, Typed, EngineTyped
    <2>4. QED
      BY <1>1, <2>2, <2>3
  <1>18. CASE CloseRefused
    <2>1. Closing(log, <<Failed(decide(log).node, "stuck")>>)
      BY <1>4, Said
    <2>2. QED
      BY <1>3, <1>18, <2>1 DEF CloseRefused
  <1>19. QED
    BY <1>6, <1>7, <1>8, <1>9, <1>10, <1>11, <1>12, <1>13, <1>14, <1>15, <1>16, <1>17, <1>18 DEF Engine

\* Only `close` closes a run from outside.
LEMMA CallsClose ==
  ASSUME Typed, Order, \A c \in Callers : ClosedByCall(calls[c]), [Next]_vars
  PROVE  \A c \in Callers : ClosedByCall(calls'[c])
  <1>1. ASSUME UNCHANGED calls PROVE \A c \in Callers : ClosedByCall(calls'[c])
    BY <1>1
  <1>2. ASSUME NEW c \in Callers, NEW s, ClosedByCall(s), calls' = [calls EXCEPT ![c] = s]
        PROVE  \A b \in Callers : ClosedByCall(calls'[b])
    BY <1>2 DEF Typed, CallsTyped
  <1>3. \A n, x : ClosedByCall(pair(n, x)) /\ ClosedByCall(<<QuestionsAnswered(n)>>)
    <2>1. ASSUME NEW n, NEW x
          PROVE  ClosedByCall(pair(n, x)) /\ ClosedByCall(<<QuestionsAnswered(n)>>)
      <3> DEFINE w == Waiting(n, "gate")
                 r == Resolved(n, x)
      <3>1. w.kind = "gate_waiting" /\ r.kind = "gate_resolved"
        BY Said
      <3>2. pair(n, x) = <<w, r>>
        BY DEF pair
      <3> HIDE DEF w, r
      <3>3. ClosedByCall(pair(n, x))
        BY <3>1, <3>2 DEF ClosedByCall
      <3>4. ClosedByCall(<<QuestionsAnswered(n)>>)
        BY Said DEF ClosedByCall
      <3>5. QED
        BY <3>3, <3>4
    <2>2. QED
      BY <2>1
  <1>4. CASE Wake \/ CtrlC \/ Crash \/ settle_crash
    BY <1>1, <1>4 DEF Wake, CtrlC, Crash, settle_crash
  <1>5. CASE Engine
    BY <1>1, <1>5 DEF Engine, recheck_approved_gates, PauseAtTop, StepBroken, Errs, TakeStep, execute_batch,
                CloseRefused, NoRoom, ConsumeSeeded, NobodyToAsk, AskHuman, Appends,
                HumanAnswers, HumanReplies, publish_gate, poll_gate, InvocationEnds,
                EngineAppends, NodeStarts, NodeEnds, NodePauses
  <1>6. ASSUME NEW c \in Callers, resolve_gate(c) \/ answer_questions(c)
        PROVE  \A b \in Callers : ClosedByCall(calls'[b])
    BY <1>2, <1>3, <1>6 DEF resolve_gate, answer_questions
  <1>7. ASSUME NEW c \in Callers, close_run(c) \/ CallerDies(c)
        PROVE  \A b \in Callers : ClosedByCall(calls'[b])
    <2>1. ClosedByCall(<<>>)
      BY DEF ClosedByCall
    <2>2. "close" \in Calls => ClosedByCall(<<RunFinished("cancelled")>>)
      BY Said DEF ClosedByCall
    <2>3. QED
      BY <1>2, <1>7, <2>1, <2>2 DEF close_run, Call, CallerDies
  <1>8. ASSUME NEW c \in Callers, CallAppends(c)
        PROVE  \A b \in Callers : ClosedByCall(calls'[b])
    <2>1. calls[c] # <<>> /\ calls' = [calls EXCEPT ![c] = Tail(calls[c])] /\ calls[c] \in Seq(Events)
      BY <1>8 DEF CallAppends, Typed, CallsTyped
    <2>2. ClosedByCall(Tail(calls[c]))
      BY <2>1 DEF ClosedByCall
    <2>3. QED
      BY <1>2, <2>1, <2>2
  <1>9. CASE UNCHANGED vars
    BY <1>1, <1>9 DEF vars
  <1>10. QED
    BY <1>4, <1>5, <1>6, <1>7, <1>8, <1>9 DEF Next

\* Who is left beside a closed run appends nothing to it.
LEMMA ClosedStays ==
  ASSUME Sealing, [Next]_vars, log.run.finished # "no"
  PROVE  log' = log
  <1>1. /\ eng.at \in {"down", "ending"} /\ eng.script = <<>> /\ Landed /\ NoCalls
        /\ "close" \in Calls => ~crashed
    BY DEF Sealing, Sealed
  <1>2. CASE Wake \/ CtrlC \/ Crash
    BY <1>2 DEF Wake, CtrlC, Crash
  <1>3. CASE settle_crash
    BY <1>1, <1>3 DEF settle_crash
  <1>4. CASE \E c \in Callers : \/ resolve_gate(c) \/ answer_questions(c) \/ close_run(c)
                                \/ CallAppends(c) \/ CallerDies(c)
    BY <1>1, <1>4 DEF resolve_gate, answer_questions, close_run, Call, CallAppends, CallerDies, NoCalls
  <1>5. CASE \/ recheck_approved_gates \/ PauseAtTop \/ StepBroken \/ TakeStep
             \/ CloseRefused \/ NoRoom \/ execute_batch \/ ConsumeSeeded \/ NobodyToAsk \/ AskHuman
    BY <1>5 DEF recheck_approved_gates, PauseAtTop, StepBroken, Errs, TakeStep, execute_batch,
                CloseRefused, NoRoom, ConsumeSeeded, NobodyToAsk, AskHuman, Appends
  <1>6. CASE HumanAnswers \/ HumanReplies \/ publish_gate \/ poll_gate \/ InvocationEnds
    BY <1>6 DEF HumanAnswers, HumanReplies, publish_gate, poll_gate, InvocationEnds, Errs, Appends
  <1>7. ~EngineAppends
    BY <1>1 DEF EngineAppends
  <1>8. \A n \in Nodes : ~NodeStarts(n) /\ ~NodeEnds(n) /\ ~NodePauses(n)
    BY <1>1 DEF NodeStarts, NodeEnds, NodePauses, Landed, Working
  <1>9. CASE UNCHANGED vars
    BY <1>9 DEF vars
  <1>10. QED
    BY <1>2, <1>3, <1>4, <1>5, <1>6, <1>7, <1>8, <1>9 DEF Next, Engine

\* A run that is closed stays sealed.
LEMMA SealedStays ==
  ASSUME Alone, Typed, Order, Sealing, [Next]_vars, log.run.finished # "no"
  PROVE  Sealed'
  <1>1. /\ eng.at \in {"down", "ending"} /\ eng.script = <<>> /\ Landed /\ NoCalls
        /\ ~log.run.tailPaused /\ ("answer" \in Calls => NoRound(log))
        /\ "close" \in Calls => ~crashed
    BY DEF Sealing, Sealed
  <1>2. log' = log
    BY ClosedStays
  <1>3. SUFFICES ASSUME TRUE
        PROVE  eng'.at \in {"down", "ending"} /\ eng'.script = <<>> /\ Landed' /\ NoCalls'
    BY <1>2 DEF Sealing, Sealed
  <1>4. ASSUME UNCHANGED <<eng, calls>>
        PROVE  eng'.at \in {"down", "ending"} /\ eng'.script = <<>> /\ Landed' /\ NoCalls'
    BY <1>1, <1>4 DEF Landed, NoCalls
  <1>5. CASE InvocationEnds \/ Crash
    BY <1>1, <1>5, DownTyped DEF InvocationEnds, Errs, Crash, Landed, NoCalls
  <1>6. CASE Wake
    <2>1. eng' = [Down EXCEPT !.at = "ending"] /\ calls' = calls
      BY <1>6 DEF Wake
    <2>2. eng'.at = "ending" /\ eng'.script = <<>> /\ eng'.batch = [n \in Nodes |-> 0]
      BY <2>1, DownTyped
    <2>3. QED
      BY <1>1, <2>1, <2>2 DEF Landed, NoCalls
  <1>7. CASE settle_crash
    BY <1>4, <1>7 DEF settle_crash
  <1>8. \A c \in Callers : ~resolve_gate(c) /\ ~close_run(c) /\ ~CallAppends(c) /\ ~CallerDies(c)
    BY <1>1 DEF resolve_gate, close_run, CallAppends, CallerDies, NoCalls
  <1>9. \A c \in Callers : ~answer_questions(c)
    BY <1>1 DEF answer_questions, Call, NoRound
  <1>10. ~CtrlC
    BY <1>1 DEF CtrlC
  <1>11. /\ ~recheck_approved_gates /\ ~PauseAtTop /\ ~StepBroken /\ ~TakeStep
         /\ ~CloseRefused /\ ~NoRoom /\ ~execute_batch /\ ~ConsumeSeeded /\ ~NobodyToAsk /\ ~AskHuman
         /\ ~HumanAnswers /\ ~HumanReplies /\ ~publish_gate /\ ~poll_gate /\ ~EngineAppends
    BY <1>1 DEF recheck_approved_gates, PauseAtTop, StepBroken, TakeStep, execute_batch,
                CloseRefused, NoRoom, ConsumeSeeded, NobodyToAsk, AskHuman, Deciding, Between,
                HumanAnswers, HumanReplies, publish_gate, poll_gate, EngineAppends
  <1>12. \A n \in Nodes : ~NodeStarts(n) /\ ~NodeEnds(n) /\ ~NodePauses(n)
    BY <1>1 DEF NodeStarts, NodeEnds, NodePauses, Landed, Working
  <1>13. CASE UNCHANGED vars
    BY <1>4, <1>13 DEF vars
  <1>14. QED
    BY <1>5, <1>6, <1>7, <1>8, <1>9, <1>10, <1>11, <1>12, <1>13 DEF Next, Engine

\* Nothing follows the only event of a script.
LEMMA TailOfOne ==
  ASSUME NEW s \in Seq(Events), s # <<>>, 1 = Len(s)
  PROVE  Tail(s) = <<>>
  <1>1. Tail(s) \in Seq(Events) /\ Len(Tail(s)) = 0
    OBVIOUS
  <1>2. QED
    BY <1>1, EmptySeq

\* The step that closes a run seals it.
LEMMA CloseSeals ==
  ASSUME Alone, Typed, Order, Sealing, [Next]_vars, log.run.finished = "no", log'.run.finished # "no"
  PROVE  Sealed'
  <1>1. ASSUME NEW e \in Events, log' = apply(log, e)
        PROVE  /\ e.kind = "run_finished" /\ log'.run.finished = e.with /\ ~log'.run.tailPaused
               /\ log'.node = log.node /\ log'.gate = log.gate
    BY <1>1, FinishedBy DEF Typed
  <1>2. log' # log
    OBVIOUS
  <1>3. ASSUME log'.node = log.node, log'.gate = log.gate
        PROVE  (NoRound(log) => NoRound(log')) /\ (RestRan(log) => RestRan(log'))
    BY <1>3 DEF NoRound, RestRan, finished, State
  <1>4. CASE EngineAppends
    <2> DEFINE s == eng.script
               e == Head(s)
    <2>1. /\ s # <<>> /\ s \in Seq(Events) /\ log' = apply(log, e) /\ calls' = calls
          /\ eng'.script = Tail(s) /\ eng'.batch = eng.batch
          /\ eng'.at = IF e.kind \in {"run_paused", "run_finished"} THEN "ending" ELSE eng.at
      BY <1>4 DEF EngineAppends, Typed, EngineTyped
    <2>2. e \in Events /\ e = s[1] /\ 1 \in 1..Len(s)
      BY <2>1
    <2>3. /\ e.kind = "run_finished" /\ log'.run.finished = e.with /\ ~log'.run.tailPaused
          /\ log'.node = log.node /\ log'.gate = log.gate
      BY <1>1, <2>1, <2>2
    <2>4. 1 = Len(s) /\ NoRound(log) /\ (e.with = "failed" => RestRan(log))
      BY <2>2, <2>3 DEF Sealing, Closing
    <2>5. Tail(s) = <<>>
      BY <2>1, <2>4, TailOfOne
    <2>6. Landed /\ NoCalls
      <3>1. Landed /\ eng.at # "down"
        BY <2>1, DownTyped DEF Order, Quiet, Apart
      <3>2. QED
        BY <3>1 DEF Order, Apart, NoCalls
    <2> HIDE DEF s, e
    <2>7. eng'.at = "ending" /\ eng'.script = <<>> /\ Landed' /\ NoCalls'
      BY <2>1, <2>3, <2>5, <2>6 DEF Landed, NoCalls
    <2>8. NoRound(log') /\ (e.with = "failed" => RestRan(log'))
      BY <1>3, <2>3, <2>4
    <2>9. QED
      BY <2>3, <2>7, <2>8 DEF Sealed
  <1>5. ASSUME NEW c \in Callers, CallAppends(c)
        PROVE  Sealed'
    <2> DEFINE s == calls[c]
               e == Head(s)
    <2>1. /\ s # <<>> /\ s \in Seq(Events) /\ log' = apply(log, e)
          /\ calls' = [calls EXCEPT ![c] = Tail(s)] /\ eng' = eng
      BY <1>5 DEF CallAppends, Typed, CallsTyped
    <2>2. e \in Events /\ e = s[1] /\ 1 \in 1..Len(s)
      BY <2>1
    <2>3. e.kind = "run_finished" /\ log'.run.finished = e.with /\ ~log'.run.tailPaused
      BY <1>1, <2>1, <2>2
    <2>4. 1 = Len(s) /\ "close" \in Calls /\ e.with # "failed"
      BY <2>2, <2>3 DEF Sealing, ClosedByCall
    <2>5. Tail(s) = <<>>
      BY <2>1, <2>4, TailOfOne
    <2>6. eng.at = "down" /\ eng.script = <<>> /\ Landed
      <3>1. eng = Down
        BY <2>1 DEF Order, Apart
      <3>2. QED
        BY <3>1, DownTyped DEF Landed
    <2>7. \A b \in Callers : b # c => calls[b] = <<>>
      BY <2>1 DEF Order, Apart
    <2> HIDE DEF s, e
    <2>8. NoCalls'
      BY <2>1, <2>5, <2>7 DEF NoCalls, Typed, CallsTyped
    <2>9. "answer" \notin Calls
      BY <2>4 DEF Alone
    <2>10. QED
      BY <2>1, <2>3, <2>4, <2>6, <2>8, <2>9 DEF Sealed, Landed
  <1>6. ASSUME NEW n \in Nodes, NodeStarts(n) \/ NodeEnds(n) \/ NodePauses(n) PROVE FALSE
    <2>1. NodeStarts(n) => Started(n, eng.batch[n]) \in Events /\ Started(n, eng.batch[n]).kind = "node_started"
      <3>1. NodeStarts(n) => eng.batch[n] \in Nat
        BY DEF NodeStarts, Typed, EngineTyped, Working
      <3>2. QED
        BY <3>1, NodeEvents, Said
    <2>2. ~NodeStarts(n)
      BY <1>1, <2>1 DEF NodeStarts
    <2>3. FailCauses \subseteq Causes
      BY EngineAssumption
    <2>4. /\ Finished(n) \in Events /\ Finished(n).kind # "run_finished"
          /\ \A cause \in FailCauses : Failed(n, cause) \in Events /\ Failed(n, cause).kind # "run_finished"
          /\ QuestionsAsked(n) \in Events /\ QuestionsAsked(n).kind # "run_finished"
      BY <2>3, NodeEvents, Said
    <2>5. ~NodeEnds(n)
      BY <1>1, <1>2, <2>4 DEF NodeEnds
    <2>6. QED
      BY <1>2, <1>6, <2>2, <2>5 DEF NodePauses
  <1>7. ~settle_crash
    BY <1>1, PauseSaid DEF settle_crash
  <1>8. ~(Wake \/ CtrlC \/ Crash)
    BY <1>2 DEF Wake, CtrlC, Crash
  <1>9. ~(\/ recheck_approved_gates \/ PauseAtTop \/ StepBroken \/ TakeStep
          \/ CloseRefused \/ NoRoom \/ execute_batch \/ ConsumeSeeded \/ NobodyToAsk \/ AskHuman)
    BY <1>2 DEF recheck_approved_gates, PauseAtTop, StepBroken, Errs, TakeStep, execute_batch,
                CloseRefused, NoRoom, ConsumeSeeded, NobodyToAsk, AskHuman, Appends
  <1>10. ~(HumanAnswers \/ HumanReplies \/ publish_gate \/ poll_gate \/ InvocationEnds)
    BY <1>2 DEF HumanAnswers, HumanReplies, publish_gate, poll_gate, InvocationEnds, Errs, Appends
  <1>11. \A c \in Callers : ~resolve_gate(c) /\ ~answer_questions(c) /\ ~close_run(c) /\ ~CallerDies(c)
    BY <1>2 DEF resolve_gate, answer_questions, close_run, Call, CallerDies
  <1>12. ~UNCHANGED vars
    BY <1>2 DEF vars
  <1>13. QED
    BY <1>4, <1>5, <1>6, <1>7, <1>8, <1>9, <1>10, <1>11, <1>12 DEF Next, Engine

\* Sealing is inductive, given the type and the order.
LEMMA NextSealing ==
  ASSUME Alone, Typed, Order, Sealing, [Next]_vars
  PROVE  Sealing'
  <1>1. \A c \in Callers : ClosedByCall(calls'[c])
    BY CallsClose DEF Sealing
  <1>2. Sealed'
    BY SealedStays, CloseSeals DEF Sealed
  <1>3. "close" \in Calls => ~crashed'
    <2>1. SUFFICES ASSUME "close" \in Calls PROVE ~crashed'
      OBVIOUS
    <2>2. ~crashed /\ ~Crash
      BY <2>1 DEF Sealing, Alone, Crash, Setback
    <2>3. crashed' = crashed \/ crashed' = FALSE
      BY <2>2 DEF Next, vars, Wake, CtrlC, settle_crash, Engine, recheck_approved_gates, PauseAtTop,
                StepBroken, Errs, TakeStep, execute_batch,
                CloseRefused, NoRoom, ConsumeSeeded, NobodyToAsk, AskHuman, Appends,
                HumanAnswers, HumanReplies, publish_gate, poll_gate, InvocationEnds,
                EngineAppends, NodeStarts, NodeEnds, NodePauses,
                resolve_gate, answer_questions, close_run, Call, CallAppends, CallerDies
    <2>4. QED
      BY <2>2, <2>3
  <1>4. Closing(log', eng'.script)
    <2>1. CASE Engine \/ Wake \/ Crash \/ CtrlC
      BY <2>1, ScriptCloses DEF Sealing
    <2>2. CASE settle_crash \/ \E c \in Callers : \/ resolve_gate(c) \/ answer_questions(c) \/ close_run(c)
                                                  \/ CallAppends(c) \/ CallerDies(c)
      <3>1. eng' = eng
        BY <2>2 DEF settle_crash, resolve_gate, answer_questions, close_run, Call, CallAppends, CallerDies
      <3>2. CASE log' = log
        BY <3>1, <3>2 DEF Sealing
      <3>3. CASE settle_crash \/ \E c \in Callers : CallAppends(c)
        <4>1. eng.script = <<>>
          BY <3>3, DownTyped DEF settle_crash, CallAppends, Order, Apart
        <4>2. QED
          BY <3>1, <4>1 DEF Closing
      <3>4. QED
        BY <2>2, <3>2, <3>3 DEF resolve_gate, answer_questions, close_run, Call, CallerDies
    <2>3. CASE UNCHANGED vars
      BY <2>3 DEF vars, Sealing
    <2>4. QED
      BY <2>1, <2>2, <2>3 DEF Next
  <1>5. QED
    BY <1>1, <1>2, <1>3, <1>4 DEF Sealing

\* The first state is open.
LEMMA InitSealing == Init => Sealing
  BY DownTyped DEF Init, Sealing, Sealed, Closing, ClosedByCall, Born

\* Where `close` stands beside no crash and no reply, the log of a closed run never changes, however
\* it was closed.
THEOREM RunClosedIsFinal ==
  ASSUME Alone
  PROVE  Spec => ClosedIsFinal
  <1>1. Init => Order /\ Sealing
    BY InitOrder, InitSealing
  <1>2. Typed /\ Order /\ [Next]_vars => Order'
    BY NextOrder DEF Alone
  <1>3. Typed /\ Order /\ Sealing /\ [Next]_vars => Sealing'
    BY NextSealing
  <1>4. Sealing /\ [Next]_vars => [log.run.finished # "no" => log' = log]_vars
    BY ClosedStays
  <1>5. QED
    BY AlwaysTyped, <1>1, <1>2, <1>3, <1>4, PTL DEF Spec, ClosedIsFinal

\* A run that continues past its failures ran everything that could run, under the same.
THEOREM RunContinueRunsTheRest ==
  ASSUME Alone
  PROVE  Spec => []ContinueRunsTheRest
  <1>1. Init => Order /\ Sealing
    BY InitOrder, InitSealing
  <1>2. Typed /\ Order /\ [Next]_vars => Order'
    BY NextOrder DEF Alone
  <1>3. Typed /\ Order /\ Sealing /\ [Next]_vars => Sealing'
    BY NextSealing
  <1>4. Sealing => ContinueRunsTheRest
    BY DEF Sealing, Sealed, RestRan, ContinueRunsTheRest
  <1>5. QED
    BY AlwaysTyped, <1>1, <1>2, <1>3, <1>4, PTL DEF Spec
-----------------------------------------------------------------------------
\* What a node is, or its wait will give back, it came to by an attempt of its own.
Earns(r, state) ==
    /\ state = "finished" => r.finished > r.failed
    /\ state = "failed" => r.failed > r.finished
    /\ state = "running" => r.attempts > 0

\* Work that is no gate waits over an open attempt or a failure, and a correction goes where the
\* workflow sends it.
EarnedBy(r, n) ==
    /\ Earns(r, r.state)
    /\ r.state \in Waits => Earns(r, r.pre) /\ (is_gate(n) \/ r.pre \in {"running", "failed"})
    /\ r.state = "none" => is_gate(n) \/ r.attempts = 0
    /\ r.rerouteAt > 0 => r.rerouteTo \in {Goto[n], SendsBack[n]}

Earned(L) == \A n \in Nodes : EarnedBy(L.node[n], n)

\* A failure that a correction serves by running n.
Corrected(L, n) == \E m \in Nodes : State(L, m) = "failed" /\ n \in Correction(m)

\* Who starts next is a gate, or runs again, or is a correction, or has its turn, which nobody at
\* work beside it can take from it.
TurnOf(L, batch, n) ==
    /\ State(L, n) \notin Waits
    /\ State(L, n) \in {"none", "finished"} =>
          \/ /\ State(L, n) = "none" /\ deps_satisfied(L, n)
             /\ \A m \in Deps[n] : batch[m] = 0
          \/ Corrected(L, n) /\ \A m \in Nodes : m # n => batch[m] = 0

InTurn(L, batch) ==
    \A n \in Nodes :
        batch[n] > 0 => batch[n] = next_attempt(L, n) /\ (is_gate(n) \/ TurnOf(L, batch, n))

\* Nobody is at work and nobody waits.
Rested(L) == \A n \in Nodes : State(L, n) \in {"none", "finished", "failed"}

\* The i-th event of s promotes the run over the failure of n: the answer that does was on the log,
\* or is the pair before it.
Promoting(L, s, i, n) ==
    /\ \A m \in Nodes : m # n => State(L, m) \in {"none", "finished", "failed"}
    /\ \/ State(L, n) = "failed" /\ (i = 1 \/ (i = 2 /\ s[1].kind = "promotion_signaled"))
       \/ /\ i = 3 /\ State(L, n) \in Waits /\ L.node[n].pre = "failed"
          /\ Is(s, 1, "gate_resolved", n) /\ s[2].kind = "promotion_signaled"
       \/ /\ i = 4 /\ State(L, n) = "failed" /\ Is(s, 1, "gate_waiting", n)
          /\ Is(s, 2, "gate_resolved", n) /\ s[3].kind = "promotion_signaled"

\* What is still to be appended keeps the promises of a run when its turn comes.
MeantAt(L, s, i) ==
    LET e == s[i]
        n == e.node
    IN  /\ e.kind = "node_started" =>
              /\ e.attempt = next_attempt(L, n)
              /\ \A j \in 1..Len(s) : s[j].kind = "node_started" => j = i
        /\ e.kind = "gate_waiting" => is_gate(n) \/ (i = 1 /\ State(L, n) = "failed")
        /\ e.kind = "node_rerouted" => e.to \in {Goto[n], SendsBack[n]}
        /\ e.kind = "run_finished" /\ e.with = "done" => i = 1 /\ Rested(L) /\ unsettled(L) = {}
        /\ e.kind = "run_finished" /\ e.with = "failed" =>
              i = 1 /\ Rested(L) /\ \E m \in Nodes : State(L, m) = "failed"
        /\ e.kind = "run_finished" /\ e.with = "promoted" =>
              Promotes /\ \E m \in Nodes : Promoting(L, s, i, m)

Meant(L, s) == \A i \in 1..Len(s) : MeantAt(L, s, i)

\* Due is inductive beside Order and Sealing.
Due ==
    /\ Earned(log) /\ InTurn(log, eng.batch) /\ Meant(log, eng.script)
    /\ \A c \in Callers : Meant(log, calls[c])

\* n may start.
Begins(L, n) ==
    \/ is_gate(n)
    \/ State(L, n) = "running" /\ OnInterrupt[n] = "restart_node"
    \/ State(L, n) = "failed"
    \/ State(L, n) = "none" /\ deps_satisfied(L, n) /\ L.node[n].attempts = 0
    \/ State(L, n) \in {"none", "finished"} /\ Corrected(L, n)

\* The run may close so.
ClosesSo(L, how) ==
    /\ how \in {"done", "failed", "promoted"} => Rested(L)
    /\ how = "done" => unsettled(L) = {}
    /\ how \in {"failed", "promoted"} => \E n \in Nodes : State(L, n) = "failed"
    /\ how = "failed" => RestRan(L)
    /\ how = "promoted" => Promotes

\* An event that keeps the promises of a run.
Lawful(L, e) ==
    /\ Fit(L, e)
    /\ e.kind = "node_started" => e.attempt = next_attempt(L, e.node) /\ Begins(L, e.node)
    /\ e.kind = "gate_waiting" => is_gate(e.node) \/ State(L, e.node) = "failed"
    /\ e.kind = "node_rerouted" => e.to \in {Goto[e.node], SendsBack[e.node]}
    /\ e.kind = "run_finished" => ClosesSo(L, e.with)

-----------------------------------------------------------------------------
\* One event keeps what its node has earned.
LEMMA EarnedNode ==
  ASSUME NEW n \in Nodes, NEW k \in Nat, NEW r \in NodeRecord(k), EarnedBy(r, n), NEW e \in Events,
         e.kind \in Terminals \cup {"questions_asked"} => r.state = "running",
         e.kind = "questions_answered" => r.pre = "running" /\ r.state \in Waits,
         e.kind = "node_started" => e.attempt > 0,
         e.kind = "gate_waiting" => is_gate(n) \/ r.state = "failed",
         e.kind = "node_rerouted" => e.to \in {Goto[n], SendsBack[n]}
  PROVE  EarnedBy(apply_node(r, e, k + 1), n)
  <1> DEFINE q == apply_node(r, e, k + 1)
  <1>1. /\ r.state \in NodeStates /\ r.pre \in NodeStates /\ r.attempts \in Nat
        /\ r.finished \in 0..k /\ r.failed \in 0..k /\ k + 1 > r.finished /\ k + 1 > r.failed
    BY DEF NodeRecord
  <1>2. e.attempt \in Nat
    BY DEF Events
  <1>3. CASE e.kind = "node_started"
    <2>1. /\ q.state = "running" /\ q.rerouteAt = r.rerouteAt /\ q.rerouteTo = r.rerouteTo
          /\ q.attempts = IF e.attempt > r.attempts THEN e.attempt ELSE r.attempts
      BY <1>3 DEF apply_node, NodeRecord
    <2> HIDE DEF q
    <2>2. q.attempts > 0
      BY <1>1, <1>2, <1>3, <2>1
    <2>3. QED
      BY <2>1, <2>2 DEF EarnedBy, Earns, Waits, q
  <1>4. CASE e.kind \in Terminals
    <2>1. /\ q.state = (IF e.kind = "node_finished" THEN "finished" ELSE "failed")
          /\ e.kind = "node_finished" => q.finished = k + 1 /\ q.failed = r.failed
          /\ e.kind # "node_finished" => q.failed = k + 1 /\ q.finished = r.finished
          /\ q.rerouteAt = r.rerouteAt /\ q.rerouteTo = r.rerouteTo
      BY <1>4 DEF apply_node, NodeRecord, Terminals
    <2> HIDE DEF q
    <2>2. QED
      BY <1>1, <2>1 DEF EarnedBy, Earns, Waits, q
  <1>5. CASE e.kind \in {"gate_waiting", "questions_asked"}
    <2>1. /\ q.state \in Waits /\ q.pre = r.state /\ q.attempts = r.attempts
          /\ q.finished = r.finished /\ q.failed = r.failed
          /\ q.rerouteAt = r.rerouteAt /\ q.rerouteTo = r.rerouteTo
      BY <1>5 DEF apply_node, park, NodeRecord, Events, Waits
    <2> HIDE DEF q
    <2>2. QED
      BY <1>5, <2>1 DEF EarnedBy, Earns, Waits, q
  <1>6. CASE e.kind \in {"gate_resolved", "questions_answered"} /\ r.state \in Waits
    <2>1. /\ q.state = r.pre /\ q.pre = "none" /\ q.attempts = r.attempts
          /\ q.finished = r.finished /\ q.failed = r.failed
          /\ q.rerouteAt = r.rerouteAt /\ q.rerouteTo = r.rerouteTo
      BY <1>6 DEF apply_node, unpark, NodeRecord
    <2> HIDE DEF q
    <2>2. QED
      BY <1>6, <2>1 DEF EarnedBy, Earns, Waits, q
  <1>7. CASE e.kind = "node_rerouted"
    <2>1. /\ q.state = r.state /\ q.pre = r.pre /\ q.attempts = r.attempts
          /\ q.finished = r.finished /\ q.failed = r.failed /\ q.rerouteTo = e.to
      BY <1>7 DEF apply_node, NodeRecord
    <2> HIDE DEF q
    <2>2. QED
      BY <1>7, <2>1 DEF EarnedBy, Earns, q
  <1>8. CASE e.kind \notin Terminals \cup {"node_started", "gate_waiting", "questions_asked",
                 "questions_answered", "node_rerouted"} /\ ~(e.kind = "gate_resolved" /\ r.state \in Waits)
    BY <1>8 DEF apply_node, Terminals
  <1>9. QED
    BY <1>3, <1>4, <1>5, <1>6, <1>7, <1>8

\* A lawful event keeps what every node has earned.
LEMMA EarnedKept ==
  ASSUME NEW L, Recorded(L), ~L.broken, Ledger(L), Earned(L), NEW e \in Events, Lawful(L, e),
         NEW M, M = apply(L, e)
  PROVE  Earned(M)
  <1>1. SUFFICES ASSUME NEW n \in Nodes PROVE EarnedBy(M.node[n], n)
    BY DEF Earned
  <1>2. EarnedBy(L.node[n], n) /\ L.node[n] \in NodeRecord(L.seq) /\ L.seq \in Nat
    BY DEF Earned, Recorded
  <1>3. Fit(L, e)
    BY DEF Lawful
  <1>4. CASE ~(About(e) /\ n = e.node)
    BY <1>2, <1>3, <1>4, NodeAfter
  <1>5. CASE About(e) /\ n = e.node
    <2>1. M.node[n] = apply_node(L.node[n], e, L.seq + 1)
      BY <1>3, <1>5, NodeAfter
    <2>2. /\ e.kind \in Terminals \cup {"questions_asked"} => L.node[n].state = "running"
          /\ e.kind = "questions_answered" => L.node[n].pre = "running" /\ L.node[n].state \in Waits
      BY <1>3, <1>5 DEF Fit, Ledger, State, Waits
    <2>3. e.kind = "node_started" => e.attempt > 0
      <3>1. next_attempt(L, n) \in Nat \ {0}
        BY NextAttempt
      <3>2. QED
        BY <1>5, <3>1 DEF Lawful
    <2>4. /\ e.kind = "gate_waiting" => is_gate(n) \/ L.node[n].state = "failed"
          /\ e.kind = "node_rerouted" => e.to \in {Goto[n], SendsBack[n]}
      BY <1>5 DEF Lawful, State
    <2>5. QED
      BY <1>2, <2>1, <2>2, <2>3, <2>4, EarnedNode
  <1>6. QED
    BY <1>4, <1>5

\* The next event of a script that is meant is lawful.
LEMMA HeadLawful ==
  ASSUME NEW L, Ledger(L), NEW s \in Seq(Events), s # <<>>, Sound(L, s), Meant(L, s),
         Closing(L, s) \/ ClosedByCall(s)
  PROVE  Head(s) \in Events /\ Lawful(L, Head(s))
  <1> DEFINE e == Head(s)
  <1>1. 1 \in 1..Len(s) /\ e = s[1] /\ e \in Events /\ Len(s) \in Nat
    OBVIOUS
  <1>2. Fit(L, e)
    BY SoundHead
  <1>3. MeantAt(L, s, 1)
    BY <1>1 DEF Meant
  <1>4. e.kind = "node_started" => is_gate(e.node)
    BY <1>1 DEF Sound
  <1>5. e.kind = "run_finished" /\ e.with = "failed" => RestRan(L)
    BY <1>1 DEF Closing, ClosedByCall
  <1>6. e.kind = "run_finished" => e.with \in Closes
    BY <1>1 DEF Events
  <1> HIDE DEF e
  <1>7. e.kind = "run_finished" /\ e.with = "promoted" =>
          Rested(L) /\ Promotes /\ \E n \in Nodes : State(L, n) = "failed"
    <2>1. SUFFICES ASSUME e.kind = "run_finished", e.with = "promoted"
          PROVE  Rested(L) /\ Promotes /\ \E n \in Nodes : State(L, n) = "failed"
      OBVIOUS
    <2>2. PICK n \in Nodes : Promoting(L, s, 1, n)
      BY <1>1, <1>3, <2>1 DEF MeantAt
    <2>3. State(L, n) = "failed" /\ \A m \in Nodes : m # n => State(L, m) \in {"none", "finished", "failed"}
      BY <2>2 DEF Promoting
    <2>4. Promotes
      BY <1>1, <1>3, <2>1 DEF MeantAt
    <2>5. QED
      BY <2>3, <2>4 DEF Rested
  <1>8. e.kind = "run_finished" => ClosesSo(L, e.with)
    BY <1>1, <1>3, <1>5, <1>6, <1>7 DEF MeantAt, ClosesSo, Closes
  <1>9. QED
    BY <1>1, <1>2, <1>3, <1>4, <1>8 DEF Lawful, MeantAt, Begins, e

\* What is still to be appended reads the nodes alone.
LEMMA MeantSame ==
  ASSUME NEW L, NEW M, M.node = L.node, NEW s, Meant(L, s)
  PROVE  Meant(M, s)
  <1>1. /\ \A n : State(M, n) = State(L, n) /\ next_attempt(M, n) = next_attempt(L, n)
        /\ Rested(M) = Rested(L)
    BY DEF State, next_attempt, Rested
  <1>2. unsettled(M) = unsettled(L)
    BY <1>1 DEF unsettled, finished
  <1>3. \A i, n : Promoting(L, s, i, n) => Promoting(M, s, i, n)
    BY <1>1 DEF Promoting
  <1>4. QED
    BY <1>1, <1>2, <1>3 DEF Meant, MeantAt

\* What is left is still meant behind the first of it.
LEMMA MeantTail ==
  ASSUME NEW L, Recorded(L), ~L.broken, Ledger(L), NEW s \in Seq(Events), s # <<>>,
         Fit(L, Head(s)), Meant(L, s), NEW M, M = apply(L, Head(s))
  PROVE  Meant(M, Tail(s))
  <1> DEFINE t == Tail(s)
             e == Head(s)
  <1>1. /\ t \in Seq(Events) /\ Len(t) = Len(s) - 1 /\ Len(s) \in Nat /\ e \in Events
        /\ e = s[1] /\ \A i \in 1..Len(t) : t[i] = s[i + 1] /\ i + 1 \in 1..Len(s)
    OBVIOUS
  <1>2. Fit(L, e) /\ M = apply(L, e)
    OBVIOUS
  <1> HIDE DEF t, e
  <1>3. SUFFICES ASSUME NEW i \in 1..Len(t) PROVE MeantAt(M, t, i)
    BY DEF Meant, t
  <1>4. /\ i \in Nat /\ i + 1 \in 1..Len(s) /\ i + 1 # 1 /\ t[i] = s[i + 1] /\ t[i] \in Events
        /\ MeantAt(L, s, i + 1)
    BY <1>1, <1>3 DEF Meant
  <1> DEFINE n == t[i].node
  <1>5. ASSUME t[i].kind = "node_started"
        PROVE  /\ t[i].attempt = next_attempt(M, n)
               /\ \A j \in 1..Len(t) : t[j].kind = "node_started" => j = i
    <2>1. /\ t[i].attempt = next_attempt(L, n)
          /\ \A j \in 1..Len(s) : s[j].kind = "node_started" => j = i + 1
      BY <1>4, <1>5 DEF MeantAt
    <2>2. e.kind # "node_started"
      <3>1. 1 \in 1..Len(s)
        BY <1>1, <1>4
      <3>2. QED
        BY <1>1, <1>4, <2>1, <3>1
    <2>3. n \in Nodes
      BY <1>4, <1>5, NodesNotZero DEF OfNodes, Kinds, Openings, Terminals
    <2>4. M.node[n].attempts = L.node[n].attempts
      BY <1>1, <1>2, <2>2, <2>3, CountsKept
    <2>5. ASSUME NEW j \in 1..Len(t), t[j].kind = "node_started" PROVE j = i
      <3>1. t[j] = s[j + 1] /\ j + 1 \in 1..Len(s) /\ j \in Nat
        BY <1>1
      <3>2. j + 1 = i + 1
        BY <2>1, <2>5, <3>1
      <3>3. QED
        BY <1>4, <3>1, <3>2
    <2>6. QED
      BY <2>1, <2>4, <2>5 DEF next_attempt
  <1>6. ASSUME t[i].kind = "run_finished", t[i].with = "promoted"
        PROVE  Promotes /\ \E m \in Nodes : Promoting(M, t, i, m)
    <2>1. Promotes /\ \E m \in Nodes : Promoting(L, s, i + 1, m)
      BY <1>4, <1>6 DEF MeantAt
    <2>2. PICK m \in Nodes : Promoting(L, s, i + 1, m)
      BY <2>1
    <2>3. e.kind = "promotion_signaled" \/ e.node = m
      BY <1>1, <1>4, <2>2 DEF Promoting, Is
    <2>4. \A k \in Nodes : k # m => State(M, k) = State(L, k)
      <3>1. ASSUME NEW k \in Nodes, k # m PROVE State(M, k) = State(L, k)
        <4>1. CASE ~(About(e) /\ k = e.node)
          BY <1>1, <1>2, <4>1, NodeAfter DEF State
        <4>2. CASE About(e) /\ k = e.node
          <5>1. e.kind = "promotion_signaled"
            BY <2>3, <3>1, <4>2
          <5>2. e \in Events /\ Fit(L, e) /\ M = apply(L, e)
            BY <1>1, <1>2
          <5>3. QED
            BY <4>2, <5>1, <5>2, StateAfter
        <4>3. QED
          BY <4>1, <4>2
      <3>2. QED
        BY <3>1
    <2>5. CASE i + 1 = 2 /\ State(L, m) = "failed" /\ e.kind = "promotion_signaled"
      <3>1. State(M, m) = "failed"
        <4>1. CASE ~(About(e) /\ m = e.node)
          BY <1>1, <1>2, <2>5, <4>1, NodeAfter DEF State
        <4>2. CASE About(e) /\ m = e.node
          BY <1>1, <1>2, <2>5, <4>2, StateAfter
        <4>3. QED
          BY <4>1, <4>2
      <3>2. i = 1
        BY <1>4, <2>5
      <3>3. QED
        BY <2>1, <2>2, <2>4, <3>1, <3>2 DEF Promoting
    <2>6. CASE /\ i + 1 = 3 /\ State(L, m) \in Waits /\ L.node[m].pre = "failed"
               /\ Is(s, 1, "gate_resolved", m) /\ s[2].kind = "promotion_signaled"
      <3>1. e.kind = "gate_resolved" /\ e.node = m
        BY <1>1, <2>6 DEF Is
      <3>2. State(M, m) = "failed"
        BY <1>1, <1>2, <2>6, <3>1, StateAfter, NodesNotZero DEF OfNodes, Kinds, Openings, Terminals
      <3>3. i = 2 /\ 1 \in 1..Len(t) /\ t[1].kind = "promotion_signaled"
        <4>1. i = 2
          BY <1>4, <2>6
        <4>2. 1 \in 1..Len(t) /\ 1 + 1 = 2
          BY <1>1, <1>3, <4>1
        <4>3. QED
          BY <1>1, <2>6, <4>1, <4>2
      <3>4. QED
        BY <2>1, <2>2, <2>4, <3>2, <3>3 DEF Promoting
    <2>7. CASE /\ i + 1 = 4 /\ State(L, m) = "failed" /\ Is(s, 1, "gate_waiting", m)
               /\ Is(s, 2, "gate_resolved", m) /\ s[3].kind = "promotion_signaled"
      <3>1. e.kind = "gate_waiting" /\ e.node = m /\ e.with \in Waits
        BY <1>1, <2>7 DEF Is, Events, Waits
      <3>2. State(M, m) \in Waits /\ M.node[m].pre = "failed"
        <4>1. About(e)
          BY <1>1, <3>1, NodesNotZero DEF OfNodes, Kinds, Openings
        <4>2. State(M, m) = e.with /\ M.node[m].pre = State(L, m)
          BY <1>1, <1>2, <3>1, <4>1, StateAfter
        <4>3. QED
          BY <2>7, <3>1, <4>2
      <3>3. /\ i = 3 /\ Is(t, 1, "gate_resolved", m) /\ t[2].kind = "promotion_signaled"
        <4>1. i = 3
          BY <1>4, <2>7
        <4>2. 1 \in 1..Len(t) /\ 2 \in 1..Len(t) /\ 1 + 1 = 2 /\ 2 + 1 = 3
          BY <1>1, <1>3, <4>1
        <4>3. t[1] = s[2] /\ t[2] = s[3]
          BY <1>1, <4>2
        <4>4. QED
          BY <2>7, <4>1, <4>2, <4>3 DEF Is
      <3>4. QED
        BY <2>1, <2>2, <2>4, <3>2, <3>3 DEF Promoting
    <2>8. QED
      BY <1>1, <1>4, <2>2, <2>5, <2>6, <2>7 DEF Promoting
  <1>7. /\ t[i].kind = "gate_waiting" => is_gate(n)
        /\ t[i].kind = "node_rerouted" => t[i].to \in {Goto[n], SendsBack[n]}
        /\ t[i].kind = "run_finished" => t[i].with \notin {"done", "failed"}
    BY <1>4 DEF MeantAt
  <1>8. QED
    BY <1>5, <1>6, <1>7 DEF MeantAt

-----------------------------------------------------------------------------
\* An event that may stand first in what is to be appended, and one that may stand anywhere.
Leads(L, e) ==
    /\ e.kind = "node_started" => e.attempt = next_attempt(L, e.node)
    /\ e.kind = "gate_waiting" => is_gate(e.node) \/ State(L, e.node) = "failed"
    /\ e.kind = "node_rerouted" => e.to \in {Goto[e.node], SendsBack[e.node]}
    /\ e.kind # "run_finished"

\* Behind the first no failure is put to a person and no run closes.
Follows(e) ==
    /\ e.kind = "gate_waiting" => is_gate(e.node)
    /\ e.kind = "node_rerouted" => e.to \in {Goto[e.node], SendsBack[e.node]}
    /\ e.kind \notin {"node_started", "run_finished"}

\* Scripts of each shape that start one attempt at most are meant.
LEMMA MeantScripts ==
  ASSUME NEW L
  PROVE  /\ Meant(L, <<>>)
         /\ \A a : Leads(L, a) => Meant(L, <<a>>)
         /\ \A a, b : Leads(L, a) /\ Follows(b) => Meant(L, <<a, b>>)
         /\ \A a, b, c : Leads(L, a) /\ Follows(b) /\ Follows(c) => Meant(L, <<a, b, c>>)
         /\ \A a, b, c, d : Leads(L, a) /\ Follows(b) /\ Follows(c) /\ Follows(d)
               => Meant(L, <<a, b, c, d>>)
         /\ \A a, b, c, d, e :
               Leads(L, a) /\ Follows(b) /\ Follows(c) /\ Follows(d) /\ Follows(e)
               => Meant(L, <<a, b, c, d, e>>)
         /\ \A a, b, c, d : Follows(a) /\ Follows(b) /\ Leads(L, c) /\ c.kind = "node_started"
               /\ Follows(d) => Meant(L, <<a, b, c, d>>)
  <1>1. Meant(L, <<>>)
    BY DEF Meant
  <1>2. ASSUME NEW a, Leads(L, a) PROVE Meant(L, <<a>>)
    BY <1>2 DEF Meant, MeantAt, Leads
  <1>3. ASSUME NEW a, NEW b, Leads(L, a), Follows(b) PROVE Meant(L, <<a, b>>)
    BY <1>3 DEF Meant, MeantAt, Leads, Follows
  <1>4. ASSUME NEW a, NEW b, NEW c, Leads(L, a), Follows(b), Follows(c)
        PROVE  Meant(L, <<a, b, c>>)
    BY <1>4 DEF Meant, MeantAt, Leads, Follows
  <1>5. ASSUME NEW a, NEW b, NEW c, NEW d, Leads(L, a), Follows(b), Follows(c), Follows(d)
        PROVE  Meant(L, <<a, b, c, d>>)
    BY <1>5 DEF Meant, MeantAt, Leads, Follows
  <1>6. ASSUME NEW a, NEW b, NEW c, NEW d, NEW e,
               Leads(L, a), Follows(b), Follows(c), Follows(d), Follows(e)
        PROVE  Meant(L, <<a, b, c, d, e>>)
    BY <1>6 DEF Meant, MeantAt, Leads, Follows
  <1>7. ASSUME NEW a, NEW b, NEW c, NEW d, Follows(a), Follows(b), Leads(L, c),
               c.kind = "node_started", Follows(d)
        PROVE  Meant(L, <<a, b, c, d>>)
    BY <1>7 DEF Meant, MeantAt, Leads, Follows
  <1>8. QED
    BY <1>1, <1>2, <1>3, <1>4, <1>5, <1>6, <1>7, Zenon

\* A run closes as promoted behind the answer that says so.
LEMMA MeantPromotion ==
  ASSUME NEW L, NEW n \in Nodes, State(L, n) = "failed", Promotes,
         \A m \in Nodes : State(L, m) \in {"none", "finished", "failed"},
         NEW w, Waited(w, n), NEW r, Resolves(r, n),
         NEW x, x.kind = "promotion_signaled", NEW y, y.kind = "run_finished", y.with = "promoted"
  PROVE  Meant(L, <<x, y>>) /\ Meant(L, <<w, r, x, y>>)
  <1>1. Promoting(L, <<x, y>>, 2, n)
    BY DEF Promoting
  <1>2. Promoting(L, <<w, r, x, y>>, 4, n)
    BY DEF Promoting, Is, Waited, Resolves
  <1>3. Meant(L, <<x, y>>)
    BY <1>1 DEF Meant, MeantAt
  <1>4. Meant(L, <<w, r, x, y>>)
    BY <1>2 DEF Meant, MeantAt, Waited, Resolves
  <1>5. QED
    BY <1>3, <1>4

\* A run finishes with nothing unsettled (ready.rs, nothing_runnable).
LEMMA FinishSettled ==
  ASSUME NEW L, Recorded(L), ~L.broken, decide(L).do = "Finish"
  PROVE  Settled(L) /\ unsettled(L) = {}
  <1>1. Settled(L)
    BY Decides DEF Decided, OnGate, OnWait, OnAnswer, OnBatch, OnFailed, OnNone, Decision
  <1>2. /\ \A n : drive_gate(L, n).do # "Finish"
        /\ gate_step(L).do # "Finish" /\ waiting_step(L).do # "Finish" /\ answered_step(L).do # "Finish"
        /\ orphan_step(L).do # "Finish"
    BY DEF drive_gate, gate_step, waiting_step, answered_step, orphan_step, Decision, Execute, Nothing
  <1>3. failure_step(L).do # "Finish"
    <2>1. \A n : paused_failure(L, n).do # "Finish"
      BY DEF paused_failure, Decision, Execute
    <2>2. \A n : unrerouted(L, n).do # "Finish"
      BY <2>1 DEF unrerouted, Decision, Nothing
    <2>3. \A n : after_reroute(L, n).do # "Finish"
      BY <1>2 DEF after_reroute, Decision, Execute, Nothing
    <2>4. QED
      BY <2>2, <2>3 DEF failure_step, failure_of, Decision, Nothing
  <1>4. ready_batch(L).do = "Finish"
    BY <1>2, <1>3 DEF decide, or_else
  <1>5. nothing_runnable(L).do = "Finish"
    BY <1>2, <1>4 DEF ready_batch, Execute
  <1>6. QED
    BY <1>1, <1>5 DEF nothing_runnable, Decision

\* What a choice appends is meant.
LEMMA ConsequenceMeant ==
  ASSUME Typed, Order, NEW d, d = decide(log), PutsToAPerson(d), d.do # "AskQuestions",
         NEW choice \in Menu(d), NEW said \in {<<>>, pair(d.node, choice)}
  PROVE  Meant(log, Consequence(d, choice, said))
  <1> DEFINE n == d.node
             w == Waiting(n, "gate")
             r == Resolved(n, choice)
             o == Started(n, next_attempt(log, n))
             p == RunPaused(0)
             x == PromotionSignaled
  <1>1. said \in {<<>>, <<w, r>>} /\ n \in Nodes
    BY AskedNode DEF pair
  <1>2. d.do \in {"ResolveInternalGate", "PublishGate", "PollGate"} => is_gate(n)
    BY AskedNode
  <1>3. d.do \in {"GateExhaustedReroutes", "EscalateFailure"} => Settled(log) /\ State(log, n) = "failed"
    <2>1. Decided(log, d)
      BY Decides DEF Typed, Order
    <2>2. QED
      BY <2>1 DEF Decided, OnGate, OnWait, OnAnswer, OnBatch, OnFailed, OnNone, Decision
  <1>4. /\ Waited(w, n) /\ Resolves(r, n) /\ w.kind = "gate_waiting" /\ r.kind = "gate_resolved"
        /\ o.kind = "node_started" /\ o.node = n /\ p.kind = "run_paused"
        /\ x.kind = "promotion_signaled" /\ o.attempt = next_attempt(log, n)
    BY Said DEF Waited, Resolves, Started, Event
  <1>5. d.do \in {"GateExhaustedReroutes", "EscalateFailure", "ResolveInternalGate", "PublishGate", "PollGate"}
    BY DEF PutsToAPerson, HasMenu, AtConsole
  <1>6. \A cause : Follows(Finished(n)) /\ Follows(Failed(n, cause))
    BY Said DEF Follows
  <1>7. \A origin : \A to \in {Goto[n], SendsBack[n]} : Follows(Rerouted(n, to, origin))
    BY SaidRerouted DEF Follows, Rerouted, Event
  <1> HIDE DEF w, r, o, p, x, n
  <1>8. /\ Leads(log, w) /\ Leads(log, r) /\ Leads(log, o) /\ Follows(r) /\ Follows(p)
        /\ is_gate(n) => Follows(w)
    BY <1>2, <1>3, <1>4, <1>5 DEF Leads, Follows, Waited
  <1>9. \A q : Follows(q) => Leads(log, q)
    BY DEF Leads, Follows
  <1>10. ASSUME NEW q, Follows(q)
         PROVE  Meant(log, said \o <<q>>)
    <2>1. said \o <<q>> \in {<<q>>, <<w, r, q>>}
      <3>1. <<>> \o <<q>> = <<q>>
        OBVIOUS
      <3>2. <<w, r>> \o <<q>> = <<w, r, q>>
        BY Join21
      <3>3. QED
        BY <1>1, <3>1, <3>2
    <2>2. QED
      BY <1>8, <1>9, <1>10, <2>1, MeantScripts
  <1>11. Meant(log, said \o <<>>)
    <2>1. said \o <<>> \in {<<>>, <<w, r>>}
      BY <1>1
    <2>2. QED
      BY <1>8, <2>1, MeantScripts
  <1>12. CASE d.do = "GateExhaustedReroutes"
    <2> DEFINE y == RunFinished("promoted")
    <2>1. Consequence(d, choice, said) \in {said \o <<p>>, said \o <<x, y>>,
              said \o <<Rerouted(n, Goto[n], "on_failure")>>}
      BY <1>12 DEF Consequence, exhausted, p, x, n
    <2>2. choice = "promote" => Promotes
      BY <1>12 DEF Menu
    <2>3. choice # "promote" => Consequence(d, choice, said) \in {said \o <<p>>,
              said \o <<Rerouted(n, Goto[n], "on_failure")>>}
      BY <1>12 DEF Consequence, exhausted, p, n
    <2>4. ASSUME Promotes PROVE Meant(log, said \o <<x, y>>)
      <3>1. y.kind = "run_finished" /\ y.with = "promoted"
        BY Said
      <3> HIDE DEF y
      <3>2. said \o <<x, y>> \in {<<x, y>>, <<w, r, x, y>>}
        <4>1. <<>> \o <<x, y>> = <<x, y>>
          OBVIOUS
        <4>2. <<w, r>> \o <<x, y>> = <<w, r, x, y>>
          BY Join22
        <4>3. QED
          BY <1>1, <4>1, <4>2
      <3>3. \A m \in Nodes : State(log, m) \in {"none", "finished", "failed"}
        BY <1>3, <1>12 DEF Settled
      <3>4. Meant(log, <<x, y>>) /\ Meant(log, <<w, r, x, y>>)
        BY <1>1, <1>3, <1>4, <1>12, <2>4, <3>1, <3>3, MeantPromotion
      <3>5. QED
        BY <3>2, <3>4
    <2>5. Meant(log, said \o <<p>>) /\ Meant(log, said \o <<Rerouted(n, Goto[n], "on_failure")>>)
      BY <1>7, <1>8, <1>10
    <2>6. QED
      BY <2>1, <2>2, <2>3, <2>4, <2>5
  <1>13. CASE d.do = "EscalateFailure"
    <2>1. Consequence(d, choice, said) \in {said \o <<>>, said \o <<p>>}
      BY <1>13 DEF Consequence, failure_escalation, p
    <2>2. QED
      BY <1>8, <1>10, <1>11, <2>1
  <1>14. CASE d.do = "ResolveInternalGate"
    <2> DEFINE back == Failed(n, "stuck")
               route == Rerouted(n, SendsBack[n], "gate_choice")
               end == Finished(n)
    <2>1. Consequence(d, choice, said) = internal_gate(d, choice, said)
      BY <1>14 DEF Consequence
    <2>2. internal_gate(d, choice, said) \in
            {said \o <<p>>, <<o>> \o said \o <<back, route>>, <<o>> \o said \o <<end>>}
      BY DEF internal_gate, n, p, o
    <2>3. Follows(back) /\ Follows(route) /\ Follows(end)
      BY <1>6, <1>7
    <2> HIDE DEF back, route, end
    <2>4. <<o>> \o said \in {<<o>>, <<o, w, r>>}
      <3>1. <<o>> \o <<>> = <<o>>
        OBVIOUS
      <3>2. <<o>> \o <<w, r>> = <<o, w, r>>
        BY Join12
      <3>3. QED
        BY <1>1, <3>1, <3>2
    <2>5. /\ <<o>> \o said \o <<back, route>> \in {<<o, back, route>>, <<o, w, r, back, route>>}
          /\ <<o>> \o said \o <<end>> \in {<<o, end>>, <<o, w, r, end>>}
      <3>1. /\ <<o, w, r>> \o <<back, route>> = <<o, w, r, back, route>>
            /\ <<o, w, r>> \o <<end>> = <<o, w, r, end>>
            /\ <<o>> \o <<back, route>> = <<o, back, route>> /\ <<o>> \o <<end>> = <<o, end>>
        BY Join11, Join12, Join31, Join32
      <3>2. QED
        BY <2>4, <3>1
    <2>6. /\ Meant(log, <<o, back, route>>) /\ Meant(log, <<o, w, r, back, route>>)
          /\ Meant(log, <<o, end>>) /\ Meant(log, <<o, w, r, end>>)
      BY <1>2, <1>8, <1>14, <2>3, MeantScripts
    <2>7. Meant(log, said \o <<p>>)
      BY <1>8, <1>10
    <2>8. QED
      BY <2>1, <2>2, <2>5, <2>6, <2>7
  <1>15. CASE d.do \in {"PublishGate", "PollGate"}
    <2> DEFINE end == IF choice = "go" THEN Finished(n) ELSE Failed(n, "fixable")
    <2>1. Consequence(d, choice, said) = said \o <<o, end>>
      BY <1>15 DEF Consequence, console_gate, n, o
    <2>2. Follows(end)
      BY <1>6
    <2> HIDE DEF end
    <2>3. said \o <<o, end>> \in {<<o, end>>, <<w, r, o, end>>}
      <3>1. <<w, r>> \o <<o, end>> = <<w, r, o, end>> /\ <<>> \o <<o, end>> = <<o, end>>
        BY Join22
      <3>2. QED
        BY <1>1, <3>1
    <2>4. QED
      BY <1>2, <1>4, <1>8, <1>15, <2>1, <2>2, <2>3, MeantScripts
  <1>16. QED
    BY <1>5, <1>12, <1>13, <1>14, <1>15

\* What the scheduler decides alone is meant.
LEMMA StepMeant ==
  ASSUME Typed, Order, decide(log).do \in {"Finish", "Fail", "Pause", "WaitUntil", "Reroute",
                           "FinishAnswered"}
  PROVE  Meant(log, step(decide(log)))
  <1> DEFINE d == decide(log)
  <1>1. Decided(log, d)
    BY Decides DEF Typed, Order
  <1> HIDE DEF d
  <1>2. CASE d.do = "Reroute"
    <2> DEFINE e == Rerouted(d.node, Goto[d.node], "on_failure")
    <2>1. step(d) = <<e>> /\ e.kind = "node_rerouted" /\ e.node = d.node /\ e.to = Goto[d.node]
      BY <1>2, SaidRerouted DEF step, Rerouted, Event
    <2> HIDE DEF e
    <2>2. Leads(log, e)
      BY <2>1 DEF Leads
    <2>3. QED
      BY <2>1, <2>2, MeantScripts DEF d
  <1>3. CASE d.do \in {"Pause", "WaitUntil", "FinishAnswered"}
    <2>1. PICK p : step(d) = <<p>> /\ p.kind \in {"run_paused", "node_finished"}
      BY <1>3, Said DEF step
    <2>2. Leads(log, p)
      BY <2>1 DEF Leads
    <2>3. QED
      BY <2>1, <2>2, MeantScripts DEF d
  <1>4. CASE d.do = "Finish"
    <2>1. PICK p : step(d) = <<p>> /\ p.kind = "run_finished" /\ p.with = "done"
      BY <1>4, Said DEF step
    <2>2. Settled(log) /\ unsettled(log) = {}
      BY <1>4, FinishSettled DEF d, Typed, Order
    <2>3. Rested(log)
      BY <2>2 DEF Settled, Rested
    <2>4. Meant(log, <<p>>)
      BY <2>1, <2>2, <2>3 DEF Meant, MeantAt
    <2>5. QED
      BY <2>1, <2>4 DEF d
  <1>5. CASE d.do = "Fail"
    <2>1. PICK p : step(d) = <<p>> /\ p.kind = "run_finished" /\ p.with = "failed"
      BY <1>5, Said DEF step
    <2>2. Settled(log) /\ d.node \in Nodes /\ State(log, d.node) = "failed"
      BY <1>1, <1>5 DEF Decided, OnGate, OnWait, OnAnswer, OnBatch, OnFailed, OnNone, Decision
    <2>3. Rested(log)
      BY <2>2 DEF Settled, Rested
    <2>4. Meant(log, <<p>>)
      BY <2>1, <2>2, <2>3 DEF Meant, MeantAt
    <2>5. QED
      BY <2>1, <2>4 DEF d
  <1>6. QED
    BY <1>2, <1>3, <1>4, <1>5 DEF d

\* Everything the engine has still to append is meant where it is made.
LEMMA ScriptMeant ==
  ASSUME Typed, Order, Meant(log, eng.script), Engine \/ Wake \/ Crash \/ CtrlC
  PROVE  Meant(log', eng'.script)
  <1>1. \A L : Meant(L, <<>>)
    BY MeantScripts
  <1>2. eng' = Down => eng'.script = <<>>
    BY DownTyped
  <1>3. ASSUME NEW s, Appends(s), Meant(log, s)
        PROVE  Meant(log', eng'.script)
    BY <1>3 DEF Appends, Typed, EngineTyped
  <1>4. ASSUME NEW e, e.kind \notin {"node_started", "gate_waiting", "node_rerouted", "run_finished"}
        PROVE  Follows(e) /\ \A L : Leads(L, e) /\ Meant(L, <<e>>)
    BY <1>4, MeantScripts DEF Follows, Leads
  <1>5. Meant(log, <<RunPaused(0)>>)
    BY <1>4, PauseSaid
  <1>6. \A n : Leads(log, Started(n, next_attempt(log, n))) /\ Meant(log, <<Started(n, next_attempt(log, n))>>)
    <2>1. ASSUME NEW n
          PROVE  Leads(log, Started(n, next_attempt(log, n))) /\ Meant(log, <<Started(n, next_attempt(log, n))>>)
      <3> DEFINE o == Started(n, next_attempt(log, n))
      <3>1. o.kind = "node_started" /\ o.node = n /\ o.attempt = next_attempt(log, n)
        BY Said DEF Started, Event
      <3> HIDE DEF o
      <3>2. Leads(log, o)
        BY <3>1 DEF Leads
      <3>3. Meant(log, <<o>>)
        BY <3>2, MeantScripts
      <3>4. QED
        BY <3>2, <3>3 DEF o
    <2>2. QED
      BY <2>1
  <1>7. CASE Wake
    <2>1. PICK wake \in {"plain", "absent", "offline", "early"} :
            eng' = IF log.run.finished # "no" THEN [Down EXCEPT !.at = "ending"]
                    ELSE [Down EXCEPT !.at = "wake",
                            !.human = (wake # "absent"), !.forge = (wake # "offline"),
                            !.script = IF woken(log)
                                       THEN <<RunResumed(IF wake = "early" THEN wake ELSE "late")>>
                                       ELSE <<>>]
      BY <1>7, Zenon DEF Wake
    <2> DEFINE human == wake # "absent"
               forge == wake # "offline"
               e == RunResumed(IF wake = "early" THEN wake ELSE "late")
               script == IF woken(log) THEN <<e>> ELSE <<>>
    <2>2. Meant(log, script)
      <3>1. Meant(log, <<e>>)
        BY <1>4, Said
      <3>2. QED
        BY <1>1, <3>1
    <2>3. eng'.script \in {<<>>, script}
      <3>1. \/ eng' = [Down EXCEPT !.at = "ending"]
            \/ eng' = [Down EXCEPT !.at = "wake", !.human = human, !.forge = forge, !.script = script]
        BY <2>1, Zenon
      <3> HIDE DEF human, forge, script
      <3>2. QED
        BY <3>1, DownTyped
    <2>4. log' = log
      BY <1>7 DEF Wake
    <2> HIDE DEF script
    <2>5. QED
      BY <1>1, <2>2, <2>3, <2>4
  <1>8. CASE Crash \/ StepBroken \/ InvocationEnds
    BY <1>1, <1>2, <1>8 DEF Crash, StepBroken, InvocationEnds, Errs
  <1>9. CASE CtrlC \/ execute_batch \/ AskHuman
    <2>1. eng'.script = eng.script /\ log' = log
      BY <1>9 DEF CtrlC, execute_batch, AskHuman, Typed, EngineTyped
    <2>2. QED
      BY <2>1
  <1>10. CASE recheck_approved_gates
    <2>1. \/ eng'.script = eng.script
          \/ \E n \in Nodes : eng'.script = <<Started(n, next_attempt(log, n))>>
      BY <1>10 DEF recheck_approved_gates, Typed, EngineTyped
    <2>2. log' = log
      BY <1>10 DEF recheck_approved_gates
    <2>3. QED
      BY <1>6, <2>1, <2>2
  <1>11. CASE PauseAtTop \/ NobodyToAsk \/ NoRoom
    BY <1>3, <1>5, <1>11 DEF PauseAtTop, NobodyToAsk, NoRoom
  <1>12. CASE TakeStep
    BY <1>3, <1>12, StepMeant DEF TakeStep
  <1>13. CASE ConsumeSeeded
    <2> DEFINE d == decide(log)
    <2>1. Seeded(d) /\ Appends(Consequence(d, log.gate[d.node].choice, <<>>))
      BY <1>13 DEF ConsumeSeeded
    <2>2. PutsToAPerson(d) /\ d.do # "AskQuestions" /\ log.gate[d.node].choice \in Menu(d)
      BY <2>1 DEF Seeded, PutsToAPerson, HasMenu
    <2>3. d = decide(log)
      OBVIOUS
    <2> HIDE DEF d
    <2>4. Meant(log, Consequence(d, log.gate[d.node].choice, <<>>))
      BY <2>2, <2>3, ConsequenceMeant
    <2>5. QED
      BY <1>3, <2>1, <2>4
  <1>14. CASE HumanAnswers
    <2>1. PICK choice \in Menu(eng.asks) :
            Appends(Consequence(eng.asks, choice, pair(eng.asks.node, choice)))
      BY <1>14 DEF HumanAnswers
    <2>2. PutsToAPerson(eng.asks) /\ eng.asks = decide(log) /\ eng.asks.do # "AskQuestions"
      BY <1>14 DEF HumanAnswers, Order, Quiet
    <2>3. Meant(log, Consequence(eng.asks, choice, pair(eng.asks.node, choice)))
      BY <2>2, ConsequenceMeant
    <2>4. QED
      BY <1>3, <2>1, <2>3
  <1>15. CASE HumanReplies
    <2>1. Meant(log, <<QuestionsAnswered(eng.asks.node)>>)
      BY <1>4, Said
    <2>2. QED
      BY <1>3, <1>5, <1>15, <2>1 DEF HumanReplies
  <1>16. CASE publish_gate \/ poll_gate
    <2> DEFINE n == decide(log).node
               o == Started(n, next_attempt(log, n))
               r(how) == Resolved(n, how)
               w == Waiting(n, "pr")
               f(cause) == Failed(n, cause)
               end == Finished(n)
               p == RunPaused(0)
    <2>1. /\ Follows(end) /\ Follows(p) /\ Leads(log, o)
          /\ \A x : Follows(r(x)) /\ Leads(log, r(x)) /\ Follows(f(x))
      BY <1>4, <1>6, Said
    <2>2. publish_gate => Leads(log, w)
      <3>1. SUFFICES ASSUME publish_gate PROVE Leads(log, w)
        OBVIOUS
      <3>2. Decided(log, decide(log)) /\ decide(log).do = "PublishGate"
        BY <3>1, Decides DEF publish_gate, Typed, Order
      <3>3. is_gate(n)
        BY <3>2 DEF Decided, OnGate, OnWait, OnAnswer, OnBatch, OnFailed, OnNone, Decision
      <3>4. w.kind = "gate_waiting" /\ w.node = n
        BY Said
      <3> HIDE DEF w, n
      <3>5. QED
        BY <3>3, <3>4 DEF Leads
    <2>3. publish_gate => Appends(<<w, p>>) \/ \E cause : Appends(<<o, f(cause)>>)
      BY DEF publish_gate
    <2>4. poll_gate => \/ Appends(<<p>>) \/ Appends(<<o, r("approved"), end>>)
                       \/ Appends(<<o, r("changes"), f("fixable")>>)
                       \/ Appends(<<r("closed"), p>>)
      BY DEF poll_gate
    <2> HIDE DEF n, o, r, w, f, end, p
    <2>5. publish_gate => Meant(log, <<w, p>>) /\ \A cause : Meant(log, <<o, f(cause)>>)
      BY <2>1, <2>2, MeantScripts
    <2>6. /\ Meant(log, <<o, r("approved"), end>>) /\ Meant(log, <<o, r("changes"), f("fixable")>>)
          /\ Meant(log, <<r("closed"), p>>)
      BY <2>1, MeantScripts
    <2>7. publish_gate => Meant(log', eng'.script)
      BY <1>3, <2>3, <2>5
    <2>8. poll_gate => Meant(log', eng'.script)
      BY <1>3, <1>5, <2>4, <2>6 DEF p
    <2>9. QED
      BY <1>16, <2>7, <2>8
  <1>17. CASE EngineAppends
    <2>1. eng.script # <<>> /\ log' = apply(log, Head(eng.script)) /\ eng'.script = Tail(eng.script)
      BY <1>17 DEF EngineAppends, Typed, EngineTyped
    <2>2. Fit(log, Head(eng.script))
      BY <2>1, SoundHead DEF Typed, EngineTyped, Order, Scripted
    <2>3. QED
      BY <2>1, <2>2, MeantTail DEF Typed, EngineTyped, Order
  <1>18. ASSUME NEW n \in Nodes, NodeStarts(n) \/ NodeEnds(n) \/ NodePauses(n)
         PROVE  Meant(log', eng'.script)
    <2>1. ~Landed
      BY <1>18 DEF NodeStarts, NodeEnds, NodePauses, Landed, Working
    <2>2. eng.script = <<>>
      BY <2>1 DEF Order, Quiet
    <2>3. eng'.script = eng.script
      BY <1>18 DEF NodeStarts, NodeEnds, NodePauses, Typed, EngineTyped
    <2>4. QED
      BY <1>1, <2>2, <2>3
  <1>19. CASE CloseRefused
    <2>1. Meant(log, <<Failed(decide(log).node, "stuck")>>)
      BY <1>4, Said
    <2>2. QED
      BY <1>3, <1>19, <2>1 DEF CloseRefused
  <1>20. QED
    BY <1>7, <1>8, <1>9, <1>10, <1>11, <1>12, <1>13, <1>14, <1>15, <1>16, <1>17, <1>18, <1>19 DEF Engine

\* The call that answers a parked run answers a gate, or what becomes of a failure.
LEMMA PairMeant ==
  ASSUME Typed, Order, NEW d, d = decide(log), HasMenu(d), NEW choice
  PROVE  Meant(log, pair(d.node, choice))
  <1> DEFINE n == d.node
             w == Waiting(n, "gate")
             r == Resolved(n, choice)
  <1>1. d.do \in {"GateExhaustedReroutes", "EscalateFailure"} \/ is_gate(n)
    BY DEF HasMenu
  <1>2. d.do \in {"GateExhaustedReroutes", "EscalateFailure"} => State(log, n) = "failed"
    <2>1. Decided(log, d)
      BY Decides DEF Typed, Order
    <2>2. QED
      BY <2>1 DEF Decided, OnGate, OnWait, OnAnswer, OnBatch, OnFailed, OnNone, Decision
  <1>3. w.kind = "gate_waiting" /\ w.node = n /\ r.kind = "gate_resolved" /\ pair(n, choice) = <<w, r>>
    BY Said DEF pair
  <1> HIDE DEF w, r, n
  <1>4. Leads(log, w) /\ Follows(r)
    BY <1>1, <1>2, <1>3 DEF Leads, Follows
  <1>5. QED
    BY <1>3, <1>4, MeantScripts DEF n

\* Everything a call has still to append is meant.
LEMMA CallsMeant ==
  ASSUME Overlap = FALSE, Typed, Order, \A c \in Callers : Meant(log, calls[c]), [Next]_vars
  PROVE  \A c \in Callers : Meant(log', calls'[c])
  <1>1. \A L : Meant(L, <<>>)
    BY MeantScripts
  <1>2. CASE UNCHANGED <<log, calls>>
    BY <1>2
  <1>3. ASSUME NoCalls, UNCHANGED calls PROVE \A c \in Callers : Meant(log', calls'[c])
    BY <1>1, <1>3 DEF NoCalls
  <1>4. ASSUME NEW c \in Callers, NEW s, Meant(log, s), log' = log, calls' = [calls EXCEPT ![c] = s]
        PROVE  \A b \in Callers : Meant(log', calls'[b])
    BY <1>4 DEF Typed, CallsTyped
  <1>5. CASE \/ Wake \/ CtrlC \/ Crash
             \/ recheck_approved_gates \/ PauseAtTop \/ StepBroken \/ TakeStep
             \/ CloseRefused \/ NoRoom \/ execute_batch \/ ConsumeSeeded \/ NobodyToAsk \/ AskHuman
             \/ HumanAnswers \/ HumanReplies \/ publish_gate \/ poll_gate \/ InvocationEnds
    <2>1. UNCHANGED <<log, calls>>
      BY <1>5 DEF Wake, CtrlC, Crash, recheck_approved_gates, PauseAtTop, StepBroken, Errs, TakeStep,
                execute_batch, CloseRefused, NoRoom, ConsumeSeeded, NobodyToAsk, AskHuman, Appends,
                HumanAnswers, HumanReplies, publish_gate, poll_gate, InvocationEnds
    <2>2. QED
      BY <1>2, <2>1
  <1>6. CASE EngineAppends \/ \E n \in Nodes : NodeStarts(n) \/ NodeEnds(n) \/ NodePauses(n)
    <2>1. UNCHANGED calls
      BY <1>6 DEF EngineAppends, NodeStarts, NodeEnds, NodePauses
    <2>2. eng.at # "down"
      <3>1. EngineAppends => eng.at # "down"
        BY DownTyped DEF EngineAppends, Order, Apart
      <3>2. ASSUME NEW n \in Nodes, NodeStarts(n) \/ NodeEnds(n) \/ NodePauses(n)
            PROVE  eng.at # "down"
        <4>1. ~Landed
          BY <3>2 DEF NodeStarts, NodeEnds, NodePauses, Landed, Working
        <4>2. QED
          BY <4>1 DEF Order, Quiet
      <3>3. QED
        BY <1>6, <3>1, <3>2
    <2>3. NoCalls
      BY <2>2 DEF Order, Apart, NoCalls
    <2>4. QED
      BY <1>3, <2>1, <2>3
  <1>7. CASE settle_crash
    <2>1. UNCHANGED calls /\ log' = apply(log, RunPaused(0))
      BY <1>7 DEF settle_crash
    <2>2. log'.node = log.node
      <3>1. RunPaused(0) \in Events /\ Fit(log, RunPaused(0)) /\ ~About(RunPaused(0))
        BY PauseSaid DEF Fit, About, Terminals, Openings
      <3>2. Reads(log, RunPaused(0), log')
        BY <2>1, <3>1, FitIsTaken, Applied DEF Typed, Order
      <3>3. log'.node = [n \in Nodes |-> log.node[n]]
        BY <3>1, <3>2, Zenon DEF Reads
      <3>4. QED
        BY <3>3 DEF Typed, Recorded
    <2>3. QED
      BY <2>1, <2>2, MeantSame
  <1>8. ASSUME NEW c \in Callers, resolve_gate(c) PROVE \A b \in Callers : Meant(log', calls'[b])
    <2>1. PICK choice : calls' = [calls EXCEPT ![c] = pair(decide(log).node, choice)]
      BY <1>8 DEF resolve_gate
    <2>2. Meant(log, pair(decide(log).node, choice))
      BY <1>8, PairMeant DEF resolve_gate
    <2>3. QED
      BY <1>4, <1>8, <2>1, <2>2 DEF resolve_gate, Call
  <1>9. ASSUME NEW c \in Callers, answer_questions(c) PROVE \A b \in Callers : Meant(log', calls'[b])
    <2>1. PICK n \in Nodes : calls' = [calls EXCEPT ![c] = <<QuestionsAnswered(n)>>]
      BY <1>9 DEF answer_questions
    <2>2. Leads(log, QuestionsAnswered(n))
      BY Said DEF Leads
    <2>3. Meant(log, <<QuestionsAnswered(n)>>)
      BY <2>2, MeantScripts
    <2>4. QED
      BY <1>4, <1>9, <2>1, <2>3 DEF answer_questions, Call
  <1>10. ASSUME NEW c \in Callers, close_run(c) PROVE \A b \in Callers : Meant(log', calls'[b])
    <2>1. calls' = [calls EXCEPT ![c] = <<RunFinished("cancelled")>>]
      BY <1>10 DEF close_run
    <2>2. Meant(log, <<RunFinished("cancelled")>>)
      <3> DEFINE y == RunFinished("cancelled")
      <3>1. y.kind = "run_finished" /\ y.with = "cancelled"
        BY Said
      <3> HIDE DEF y
      <3>2. Meant(log, <<y>>)
        BY <3>1 DEF Meant, MeantAt
      <3>3. QED
        BY <3>2 DEF y
    <2>3. QED
      BY <1>4, <1>10, <2>1, <2>2 DEF close_run, Call
  <1>11. ASSUME NEW c \in Callers, CallerDies(c) PROVE \A b \in Callers : Meant(log', calls'[b])
    BY <1>1, <1>4, <1>11 DEF CallerDies
  <1>12. ASSUME NEW c \in Callers, CallAppends(c) PROVE \A b \in Callers : Meant(log', calls'[b])
    <2> DEFINE s == calls[c]
    <2>1. s # <<>> /\ log' = apply(log, Head(s)) /\ calls' = [calls EXCEPT ![c] = Tail(s)] /\ s \in Seq(Events)
      BY <1>12 DEF CallAppends, Typed, CallsTyped
    <2>2. \A b \in Callers : b # c => calls[b] = <<>>
      BY <2>1 DEF Order, Apart
    <2>3. Fit(log, Head(s)) /\ Meant(log, s)
      BY <2>1, SoundHead DEF Order, Scripted
    <2> HIDE DEF s
    <2>4. Meant(log', Tail(s))
      BY <2>1, <2>3, MeantTail DEF Typed, Order
    <2>5. QED
      BY <1>1, <2>1, <2>2, <2>4 DEF Typed, CallsTyped
  <1>13. CASE UNCHANGED vars
    BY <1>2, <1>13 DEF vars
  <1>14. QED
    BY <1>5, <1>6, <1>7, <1>8, <1>9, <1>10, <1>11, <1>12, <1>13 DEF Next, Engine

-----------------------------------------------------------------------------
\* The attempt each node of a batch has to start at, 0 beside it (execute_batch).
Filled(b) == [n \in Nodes |-> IF n \in DOMAIN b THEN b[n] ELSE 0]

\* One that runs again or corrects another starts in turn.
LEMMA OneInTurn ==
  ASSUME NEW L, Recorded(L), NEW x \in Nodes, State(L, x) \notin Waits,
         State(L, x) \in {"none", "finished"} => Corrected(L, x),
         NEW d, d = Execute([k \in {x} |-> next_attempt(L, x)])
  PROVE  InTurn(L, Filled(d.batch))
  <1> DEFINE b == [k \in {x} |-> next_attempt(L, x)]
             f == Filled(b)
  <1>1. d.batch = b /\ DOMAIN b = {x} /\ b[x] = next_attempt(L, x)
    BY ExecuteIsNotNothing
  <1> HIDE DEF b
  <1>2. f[x] = next_attempt(L, x) /\ \A n \in Nodes : n # x => f[n] = 0
    BY <1>1 DEF Filled
  <1> HIDE DEF f
  <1>3. TurnOf(L, f, x)
    BY <1>2 DEF TurnOf
  <1>4. InTurn(L, f)
    BY <1>2, <1>3 DEF InTurn
  <1>5. QED
    BY <1>1, <1>4 DEF f

\* Work cut off starts again (schedule.rs, orphan_step).
LEMMA OrphansInTurn ==
  ASSUME NEW L, Recorded(L), orphan_step(L).do = "Execute"
  PROVE  InTurn(L, Filled(orphan_step(L).batch))
  <1> DEFINE b == [n \in orphans(L) |-> next_attempt(L, n)]
             f == Filled(b)
  <1>1. orphan_step(L) = Execute(b)
    BY DEF orphan_step, Nothing, Decision
  <1>2. DOMAIN b = orphans(L) /\ \A n \in orphans(L) : b[n] = next_attempt(L, n)
    OBVIOUS
  <1> HIDE DEF b
  <1>3. \A n \in Nodes : f[n] > 0 => f[n] = next_attempt(L, n) /\ State(L, n) = "running"
    BY <1>2 DEF Filled, orphans
  <1>4. InTurn(L, f)
    BY <1>3 DEF InTurn, TurnOf, Waits
  <1>5. QED
    BY <1>1, <1>4, ExecuteIsNotNothing DEF f

\* A failed node runs again, or what its correction names (failure.rs).
LEMMA FailedInTurn ==
  ASSUME NEW L, Recorded(L), Earned(L), Settled(L), failure_step(L).do = "Execute"
  PROVE  InTurn(L, Filled(failure_step(L).batch))
  <1> DEFINE open == {n \in Nodes : State(L, n) = "failed" /\ failure_of(L, n) # Nothing}
             n == First(open)
             One(x) == Execute([k \in {x} |-> next_attempt(L, x)])
  <1>1. open # {}
    BY DEF failure_step, Nothing, Decision
  <1>2. n \in Nodes /\ State(L, n) = "failed" /\ failure_step(L) = failure_of(L, n)
    <2>1. n \in open
      BY <1>1, FirstIsLeast
    <2>2. failure_step(L) = failure_of(L, n)
      BY <1>1 DEF failure_step
    <2>3. QED
      BY <2>1, <2>2
  <1> HIDE DEF n, open
  <1>3. ASSUME NEW x \in Nodes, failure_step(L) = One(x), x = n \/ x \in Correction(n)
        PROVE  InTurn(L, Filled(failure_step(L).batch))
    <2>1. State(L, x) \notin Waits
      BY DEF Settled, Waits
    <2>2. State(L, x) \in {"none", "finished"} => Corrected(L, x)
      BY <1>2, <1>3 DEF Corrected
    <2>3. QED
      BY <1>3, <2>1, <2>2, OneInTurn
  <1>4. CASE L.node[n].rerouteAt > L.node[n].failed
    <2> DEFINE to == L.node[n].rerouteTo
               stale == stale_between(L, to, n)
               again == IF stale = {} THEN n ELSE First(stale)
    <2>1. to \in Nodes /\ to \in {Goto[n], SendsBack[n]} /\ to # 0
      <3>1. L.node[n] \in NodeRecord(L.seq) /\ L.node[n].failed \in Nat /\ L.node[n].rerouteAt \in Nat
        BY <1>2 DEF Recorded, NodeRecord
      <3>2. L.node[n].rerouteAt > 0
        BY <1>4, <3>1
      <3>3. QED
        BY <1>2, <3>1, <3>2, NAssumption DEF NodeRecord, Earned, EarnedBy, Nodes
    <2>2. stale \subseteq between(to, n) /\ between(to, n) \subseteq Nodes
      BY DEF stale_between, between
    <2>3. to \in Correction(n) /\ between(to, n) \subseteq Correction(n)
      BY <2>1 DEF Correction
    <2>4. again = n \/ (again \in Nodes /\ again \in Correction(n))
      <3>1. stale # {} => First(stale) \in stale
        BY <2>2, FirstIsLeast
      <3>2. QED
        BY <2>2, <2>3, <3>1
    <2>5. failure_step(L) \in {Nothing, drive_gate(L, again), One(again), One(to)}
      <3>1. failure_step(L) = after_reroute(L, n)
        BY <1>2, <1>4 DEF failure_of
      <3>2. QED
        BY <3>1 DEF after_reroute
    <2>6. Nothing.do # "Execute" /\ drive_gate(L, again).do # "Execute"
      BY DEF Nothing, Decision, drive_gate
    <2> HIDE DEF to, again, stale, One
    <2>7. failure_step(L) \in {One(again), One(to)}
      BY <2>5, <2>6
    <2>8. QED
      BY <1>2, <1>3, <2>1, <2>3, <2>4, <2>7
  <1>5. CASE ~(L.node[n].rerouteAt > L.node[n].failed)
    <2>1. failure_step(L) = unrerouted(L, n)
      BY <1>2, <1>5 DEF failure_of
    <2>2. failure_step(L) = paused_failure(L, n)
      BY <2>1 DEF unrerouted, Decision, Nothing
    <2>3. paused_failure(L, n) \in {One(n), Decision("WaitUntil", n), Decision("Pause", 0),
                                    Decision("EscalateFailure", n)}
      <3> DEFINE again == Execute([k \in {n} |-> next_attempt(L, n)])
      <3>1. again = One(n)
        OBVIOUS
      <3>2. paused_failure(L, n) \in {again, Decision("WaitUntil", n), Decision("Pause", 0),
                                      Decision("EscalateFailure", n)}
        <4> HIDE DEF again
        <4>1. QED
          BY DEF paused_failure, again
      <3>3. QED
        BY <3>1, <3>2
    <2>4. failure_step(L) = One(n)
      BY <2>2, <2>3 DEF Decision
    <2>5. QED
      BY <1>2, <1>3, <2>4
  <1>6. QED
    BY <1>4, <1>5

\* Fresh nodes start when all they wait for is done (ready.rs).
LEMMA ReadyInTurn ==
  ASSUME NEW L, Recorded(L), Earned(L), ready_batch(L).do = "Execute"
  PROVE  InTurn(L, Filled(ready_batch(L).batch))
  <1> DEFINE b == [n \in ready_nodes(L) |-> 1]
             f == Filled(b)
  <1>1. ready_batch(L) = Execute(b)
    BY DEF ready_batch, drive_gate, nothing_runnable, Decision
  <1>2. DOMAIN b = ready_nodes(L) /\ \A n \in ready_nodes(L) : b[n] = 1
    OBVIOUS
  <1> HIDE DEF b
  <1>3. \A n \in ready_nodes(L) : /\ n \in Nodes /\ State(L, n) = "none" /\ ~is_gate(n)
                                  /\ deps_satisfied(L, n)
    BY DEF ready_nodes, ready_gates, ready
  <1>4. \A n \in Nodes : f[n] > 0 => n \in ready_nodes(L) /\ f[n] = 1
    BY <1>2 DEF Filled
  <1>5. \A n \in Nodes : n \notin ready_nodes(L) => f[n] = 0
    BY <1>2 DEF Filled
  <1> HIDE DEF f
  <1>6. ASSUME NEW n \in Nodes, f[n] > 0
        PROVE  f[n] = next_attempt(L, n) /\ TurnOf(L, f, n)
    <2>1. n \in ready_nodes(L) /\ f[n] = 1
      BY <1>4, <1>6
    <2>2. L.node[n].attempts = 0
      BY <1>3, <2>1 DEF Earned, EarnedBy, State
    <2>3. \A m \in Deps[n] : m \in Nodes /\ m \notin ready_nodes(L)
      BY <1>3, <2>1, WorkflowAssumption DEF deps_satisfied, finished
    <2>4. QED
      BY <1>3, <1>5, <2>1, <2>2, <2>3 DEF next_attempt, TurnOf, Waits
  <1>7. InTurn(L, f)
    BY <1>6 DEF InTurn
  <1>8. QED
    BY <1>1, <1>7, ExecuteIsNotNothing DEF f

\* Whatever the scheduler starts, it starts in turn.
LEMMA ExecuteInTurn ==
  ASSUME NEW L, Recorded(L), ~L.broken, Earned(L), decide(L).do = "Execute"
  PROVE  InTurn(L, Filled(decide(L).batch))
  <1>1. gate_step(L).do # "Execute" /\ waiting_step(L).do # "Execute" /\ answered_step(L).do # "Execute"
    BY DEF drive_gate, gate_step, waiting_step, answered_step, Decision, Nothing
  <1>2. decide(L) = or_else(gate_step(L), or_else(waiting_step(L), or_else(answered_step(L),
         or_else(orphan_step(L), or_else(failure_step(L), ready_batch(L))))))
    BY DEF decide
  <1>3. gate_step(L) = Nothing /\ waiting_step(L) = Nothing /\ answered_step(L) = Nothing
    BY <1>1, <1>2 DEF or_else
  <1>4. CASE orphan_step(L) # Nothing
    BY <1>2, <1>3, <1>4, OrphansInTurn DEF or_else
  <1>5. CASE orphan_step(L) = Nothing
    <2>1. \A n \in Nodes : State(L, n) \notin Waits /\ ~answered_unfinished(L, n)
      BY <1>3, WaitingStep, AnsweredStep
    <2>2. \A n \in Nodes : State(L, n) # "running"
      BY <1>3, <1>5, <2>1, GateStep, OrphanStep
    <2>3. Settled(L)
      BY <2>1, <2>2 DEF Settled, State, Recorded, NodeRecord, NodeStates, Waits
    <2>4. decide(L) = failure_step(L) \/ decide(L) = ready_batch(L)
      BY <1>2, <1>3, <1>5 DEF or_else
    <2>5. QED
      BY <2>3, <2>4, FailedInTurn, ReadyInTurn
  <1>6. QED
    BY <1>4, <1>5

\* Who starts, ends or pauses takes nobody's turn.
LEMMA TurnKept ==
  ASSUME NEW L, NEW M, NEW batch \in [Nodes -> Nat \cup {Working}], InTurn(L, batch),
         NEW n \in Nodes, batch[n] # 0, NEW x \in {0, Working},
         \A m \in Nodes : m # n => M.node[m] = L.node[m]
  PROVE  InTurn(M, [batch EXCEPT ![n] = x])
  <1> DEFINE now == [batch EXCEPT ![n] = x]
  <1>1. now[n] = x /\ (\A m \in Nodes : m # n => now[m] = batch[m]) /\ ~(x > 0)
    BY DEF Working
  <1> HIDE DEF now
  <1>2. ASSUME NEW m \in Nodes, now[m] > 0
        PROVE  now[m] = next_attempt(M, m) /\ (is_gate(m) \/ TurnOf(M, now, m))
    <2>1. m # n /\ M.node[m] = L.node[m] /\ now[m] = batch[m]
      BY <1>1, <1>2
    <2>2. batch[m] = next_attempt(L, m) /\ (is_gate(m) \/ TurnOf(L, batch, m))
      BY <1>2, <2>1 DEF InTurn
    <2>3. State(M, m) = State(L, m) /\ next_attempt(M, m) = next_attempt(L, m)
      BY <2>1 DEF State, next_attempt
    <2>4. ASSUME TurnOf(L, batch, m) PROVE TurnOf(M, now, m)
      <3>1. ~ \A k \in Nodes : k # m => batch[k] = 0
        BY <2>1
      <3>2. State(L, m) \in {"none", "finished"} =>
              /\ State(L, m) = "none" /\ deps_satisfied(L, m)
              /\ \A k \in Deps[m] : batch[k] = 0
        BY <2>4, <3>1 DEF TurnOf
      <3>3. ASSUME deps_satisfied(L, m), \A k \in Deps[m] : batch[k] = 0
            PROVE  deps_satisfied(M, m) /\ \A k \in Deps[m] : now[k] = 0
        <4>1. \A k \in Deps[m] : k \in Nodes /\ k # n
          BY <3>3, WorkflowAssumption
        <4>2. QED
          BY <1>1, <3>3, <4>1 DEF deps_satisfied, finished, State
      <3>4. QED
        BY <2>3, <2>4, <3>2, <3>3 DEF TurnOf
    <2>5. QED
      BY <2>1, <2>2, <2>3, <2>4
  <1>3. QED
    BY <1>2 DEF InTurn, now

\* Who is still to start keeps its turn until it does.
LEMMA NextInTurn ==
  ASSUME Overlap = FALSE, Typed, Order, Earned(log), InTurn(log, eng.batch), [Next]_vars
  PROVE  InTurn(log', eng'.batch)
  <1>1. ASSUME NEW b, \A n \in Nodes : b[n] = 0 PROVE \A L : InTurn(L, b)
    BY <1>1 DEF InTurn
  <1>2. CASE log' = log /\ eng'.batch = eng.batch
    BY <1>2
  <1>3. CASE eng' = Down
    BY <1>1, <1>3, DownTyped
  <1>4. CASE Landed /\ eng'.batch = eng.batch
    BY <1>1, <1>4 DEF Landed
  <1>5. CASE Wake
    <2>1. PICK wake \in {"plain", "absent", "offline", "early"} :
            eng' = IF log.run.finished # "no" THEN [Down EXCEPT !.at = "ending"]
                    ELSE [Down EXCEPT !.at = "wake",
                            !.human = (wake # "absent"), !.forge = (wake # "offline"),
                            !.script = IF woken(log)
                                       THEN <<RunResumed(IF wake = "early" THEN wake ELSE "late")>>
                                       ELSE <<>>]
      BY <1>5, Zenon DEF Wake
    <2>2. eng'.batch = Down.batch
      BY <2>1 DEF Down
    <2>3. QED
      BY <1>1, <2>2, DownTyped
  <1>6. CASE execute_batch
    <2>1. /\ eng'.batch = Filled(decide(log).batch) /\ log' = log /\ decide(log).do = "Execute"
      BY <1>6 DEF execute_batch, Filled, Typed, EngineTyped
    <2>2. QED
      BY <2>1, ExecuteInTurn DEF Typed, Order
  <1>7. ASSUME NEW n \in Nodes, NodeStarts(n) \/ NodeEnds(n) \/ NodePauses(n)
        PROVE  InTurn(log', eng'.batch)
    <2>1. eng.batch[n] # 0 /\ eng.batch \in [Nodes -> Nat \cup {Working}]
      BY <1>7 DEF NodeStarts, NodeEnds, NodePauses, Working, Typed, EngineTyped
    <2>2. PICK x \in {0, Working} : eng'.batch = [eng.batch EXCEPT ![n] = x]
      BY <1>7 DEF NodeStarts, NodeEnds, NodePauses, Typed, EngineTyped
    <2>3. \A m \in Nodes : m # n => log'.node[m] = log.node[m]
      <3>1. ASSUME NEW e \in Events, e.node = n, Fit(log, e), log' = apply(log, e)
            PROVE  \A m \in Nodes : m # n => log'.node[m] = log.node[m]
        BY <3>1, NodeAfter DEF Typed, Order
      <3>2. CASE NodeStarts(n)
        <4>1. eng.batch[n] \in Nat
          BY <2>1, <3>2 DEF NodeStarts, Working
        <4>2. Started(n, eng.batch[n]) \in Events /\ Started(n, eng.batch[n]).node = n
              /\ Started(n, eng.batch[n]).kind = "node_started"
          BY <4>1, NodeEvents, Said
        <4>3. Loose(log, n)
          BY <3>2 DEF NodeStarts, Order, AtWork
        <4>4. Fit(log, Started(n, eng.batch[n]))
          BY <4>2, <4>3 DEF Fit, Terminals
        <4>5. QED
          BY <3>1, <3>2, <4>2, <4>4 DEF NodeStarts
      <3>3. CASE NodeEnds(n)
        <4>1. State(log, n) = "running"
          BY <3>3 DEF NodeEnds, Order, AtWork
        <4>2. FailCauses \subseteq Causes
          BY EngineAssumption
        <4>3. /\ Finished(n) \in Events /\ Finished(n).node = n /\ Finished(n).kind \in Terminals
              /\ \A cause \in FailCauses : /\ Failed(n, cause) \in Events /\ Failed(n, cause).node = n
                                           /\ Failed(n, cause).kind \in Terminals
              /\ QuestionsAsked(n) \in Events /\ QuestionsAsked(n).node = n
              /\ QuestionsAsked(n).kind = "questions_asked"
          BY <4>2, NodeEvents, Said DEF Terminals
        <4>4. \/ UNCHANGED log
              \/ \E e \in Events : /\ e.node = n /\ log' = apply(log, e)
                                   /\ e.kind \in Terminals \cup {"questions_asked"}
                                   /\ e.kind = "questions_asked" => Kind[n] = "asks"
          BY <3>3, <4>3 DEF NodeEnds, Terminals
        <4>5. \A e \in Events :
                /\ e.node = n /\ e.kind \in Terminals \cup {"questions_asked"}
                /\ e.kind = "questions_asked" => Kind[n] = "asks"
                => Fit(log, e)
          BY <4>1 DEF Fit, Terminals, Openings
        <4>6. QED
          BY <3>1, <4>4, <4>5
      <3>4. CASE NodePauses(n)
        BY <3>4 DEF NodePauses
      <3>5. QED
        BY <1>7, <3>2, <3>3, <3>4
    <2>4. InTurn(log, eng.batch) /\ n \in Nodes
      OBVIOUS
    <2>5. ASSUME NEW M, \A m \in Nodes : m # n => M.node[m] = log.node[m]
          PROVE  InTurn(M, [eng.batch EXCEPT ![n] = x])
      BY <2>1, <2>4, <2>5, TurnKept
    <2>6. InTurn(log', [eng.batch EXCEPT ![n] = x])
      BY <2>3, <2>5
    <2>7. QED
      BY <2>2, <2>6
  <1>8. CASE Crash \/ StepBroken \/ InvocationEnds
    BY <1>3, <1>8 DEF Crash, StepBroken, InvocationEnds, Errs
  <1>9. CASE \/ CtrlC \/ recheck_approved_gates \/ PauseAtTop \/ TakeStep \/ CloseRefused \/ NoRoom
             \/ ConsumeSeeded \/ NobodyToAsk \/ AskHuman
             \/ HumanAnswers \/ HumanReplies \/ publish_gate \/ poll_gate
    <2>1. log' = log /\ eng'.batch = eng.batch
      <3>1. ASSUME NEW s, Appends(s) PROVE log' = log /\ eng'.batch = eng.batch
        BY <3>1 DEF Appends, Typed, EngineTyped
      <3>2. CASE CtrlC \/ recheck_approved_gates \/ AskHuman
        BY <3>2 DEF CtrlC, recheck_approved_gates, AskHuman, Typed, EngineTyped
      <3>3. QED
        BY <1>9, <3>1, <3>2 DEF PauseAtTop, TakeStep, CloseRefused, NoRoom, ConsumeSeeded, NobodyToAsk, HumanAnswers,
                                HumanReplies, publish_gate, poll_gate
    <2>2. QED
      BY <1>2, <2>1
  <1>10. CASE EngineAppends
    <2>1. Landed /\ eng'.batch = eng.batch
      BY <1>10 DEF EngineAppends, Order, Quiet, Typed, EngineTyped
    <2>2. QED
      BY <1>4, <2>1
  <1>11. CASE settle_crash \/ \E c \in Callers : \/ resolve_gate(c) \/ answer_questions(c) \/ close_run(c)
                                                 \/ CallAppends(c) \/ CallerDies(c)
    <2>1. eng' = eng
      BY <1>11 DEF settle_crash, resolve_gate, answer_questions, close_run, Call, CallAppends, CallerDies
    <2>2. CASE log' = log
      BY <1>2, <2>1, <2>2
    <2>3. CASE settle_crash \/ \E c \in Callers : CallAppends(c)
      <3>1. eng = Down
        BY <2>3 DEF settle_crash, CallAppends, Order, Apart
      <3>2. QED
        BY <1>3, <2>1, <3>1
    <2>4. QED
      BY <1>11, <2>2, <2>3 DEF resolve_gate, answer_questions, close_run, Call, CallerDies
  <1>12. CASE UNCHANGED vars
    BY <1>2, <1>12 DEF vars
  <1>13. QED
    BY <1>5, <1>6, <1>7, <1>8, <1>9, <1>10, <1>11, <1>12 DEF Next, Engine

\* Whatever a step of the run appends is lawful.
LEMMA NextLawful ==
  ASSUME Typed, Order, Sealing, Due, [Next]_vars
  PROVE  UNCHANGED log \/ \E e \in Events : Lawful(log, e) /\ log' = apply(log, e)
  <1>1. CASE eng.script # <<>> /\ log' = apply(log, Head(eng.script))
    <2>1. Head(eng.script) \in Events /\ Lawful(log, Head(eng.script))
      BY <1>1, HeadLawful DEF Typed, EngineTyped, Order, Scripted, Sealing, Due
    <2>2. QED
      BY <1>1, <2>1
  <1>2. ASSUME NEW c \in Callers, calls[c] # <<>>, log' = apply(log, Head(calls[c]))
        PROVE  \E e \in Events : Lawful(log, e) /\ log' = apply(log, e)
    <2>1. Head(calls[c]) \in Events /\ Lawful(log, Head(calls[c]))
      BY <1>2, HeadLawful DEF Typed, CallsTyped, Order, Scripted, Sealing, Due
    <2>2. QED
      BY <1>2, <2>1
  <1>3. CASE log' = apply(log, RunPaused(0))
    <2>1. RunPaused(0) \in Events /\ Lawful(log, RunPaused(0))
      BY PauseSaid DEF Lawful, Fit, Terminals, Openings
    <2>2. QED
      BY <1>3, <2>1
  <1>4. ASSUME NEW n \in Nodes, eng.batch[n] > 0, log' = apply(log, Started(n, eng.batch[n]))
        PROVE  \E e \in Events : Lawful(log, e) /\ log' = apply(log, e)
    <2> DEFINE e == Started(n, eng.batch[n])
    <2>1. eng.batch[n] \in Nat
      BY <1>4 DEF Typed, EngineTyped, Working
    <2>2. e \in Events /\ e.node = n /\ e.kind = "node_started" /\ e.attempt = eng.batch[n]
      BY <2>1, NodeEvents, Said DEF Started, Event
    <2>3. log' = apply(log, e)
      BY <1>4
    <2> HIDE DEF e
    <2>4. Loose(log, n) /\ (State(log, n) = "running" => (is_gate(n) \/ OnInterrupt[n] = "restart_node"))
      BY <1>4 DEF Order, AtWork
    <2>5. e.attempt = next_attempt(log, n) /\ (is_gate(n) \/ TurnOf(log, eng.batch, n))
      BY <1>4, <2>2 DEF Due, InTurn
    <2>6. Begins(log, n)
      <3>1. CASE is_gate(n)
        BY <3>1 DEF Begins
      <3>2. CASE ~is_gate(n)
        <4>1. State(log, n) \in NodeStates
          BY DEF Typed, Recorded, NodeRecord, State
        <4>2. State(log, n) \in {"none", "finished", "running", "failed"}
          BY <2>5, <3>2, <4>1 DEF TurnOf, NodeStates
        <4>3. State(log, n) = "none" => log.node[n].attempts = 0
          BY <3>2 DEF Due, Earned, EarnedBy, State
        <4>4. QED
          BY <2>4, <2>5, <3>2, <4>2, <4>3 DEF TurnOf, Begins
      <3>3. QED
        BY <3>1, <3>2
    <2>7. Lawful(log, e)
      BY <2>2, <2>4, <2>5, <2>6 DEF Lawful, Fit, Terminals
    <2>8. QED
      BY <2>2, <2>3, <2>7
  <1>5. ASSUME NEW n \in Nodes, NEW e \in Events, eng.batch[n] = Working, log' = apply(log, e),
               e.node = n, e.kind \in Terminals \cup {"questions_asked"},
               e.kind = "questions_asked" => Kind[n] = "asks"
        PROVE  Lawful(log, e)
    <2>1. State(log, n) = "running"
      BY <1>5 DEF Order, AtWork
    <2>2. QED
      BY <1>5, <2>1 DEF Lawful, Fit, Terminals, Openings
  <1>6. QED
    BY <1>1, <1>2, <1>3, <1>4, <1>5, AppendedBy

\* Due is inductive, given the type, the order and the sealing.
LEMMA NextDue ==
  ASSUME Overlap = FALSE, Typed, Order, Sealing, Due, [Next]_vars
  PROVE  Due'
  <1>1. Earned(log')
    BY NextLawful, EarnedKept DEF Typed, Order, Due
  <1>2. InTurn(log', eng'.batch)
    BY NextInTurn DEF Due
  <1>3. \A c \in Callers : Meant(log', calls'[c])
    BY CallsMeant DEF Due
  <1>4. Meant(log', eng'.script)
    <2>1. CASE Engine \/ Wake \/ Crash \/ CtrlC
      BY <2>1, ScriptMeant DEF Due
    <2>2. CASE settle_crash \/ \E c \in Callers : \/ resolve_gate(c) \/ answer_questions(c) \/ close_run(c)
                                                  \/ CallAppends(c) \/ CallerDies(c)
      <3>1. eng' = eng
        BY <2>2 DEF settle_crash, resolve_gate, answer_questions, close_run, Call, CallAppends, CallerDies
      <3>2. CASE log' = log
        BY <3>1, <3>2 DEF Due
      <3>3. CASE settle_crash \/ \E c \in Callers : CallAppends(c)
        <4>1. eng.script = <<>>
          BY <3>3, DownTyped DEF settle_crash, CallAppends, Order, Apart
        <4>2. QED
          BY <3>1, <4>1, MeantScripts
      <3>4. QED
        BY <2>2, <3>2, <3>3 DEF resolve_gate, answer_questions, close_run, Call, CallerDies
    <2>3. CASE UNCHANGED vars
      BY <2>3 DEF vars, Due
    <2>4. QED
      BY <2>1, <2>2, <2>3 DEF Next
  <1>5. QED
    BY <1>1, <1>2, <1>3, <1>4 DEF Due

\* A run just created is due.
LEMMA InitDue == Init => Due
  <1> SUFFICES ASSUME Init PROVE Due
    OBVIOUS
  <1>1. log = Born /\ eng = Down /\ calls = [c \in Callers |-> <<>>]
    BY DEF Init
  <1>2. Earned(log)
    BY <1>1 DEF Earned, EarnedBy, Earns, Born, Unrecorded, Waits
  <1>3. InTurn(log, eng.batch)
    BY <1>1 DEF Down, InTurn
  <1>4. Meant(log, eng.script) /\ \A c \in Callers : Meant(log, calls[c])
    BY <1>1, MeantScripts DEF Down
  <1>5. QED
    BY <1>2, <1>3, <1>4 DEF Due

-----------------------------------------------------------------------------
\* What a run comes to is what its nodes come to, one by one.
LEMMA Stands ==
  ASSUME NEW L, Recorded(L), NEW M, Recorded(M), NEW n \in Nodes,
         \A m \in Nodes : m # n => M.node[m] = L.node[m]
  PROVE  /\ Standings(M) = [Standings(L) EXCEPT ![n] = Standing(State(M, n))]
         /\ Attempts(M) = [Attempts(L) EXCEPT ![n] = M.node[n].attempts]
         /\ Outcomes(M) = [Outcomes(L) EXCEPT ![n] = Outcomes(M)[n]]
         /\ Standings(L)[n] = Standing(State(L, n)) /\ Attempts(L)[n] = L.node[n].attempts
  <1>1. Standings(M) = [Standings(L) EXCEPT ![n] = Standing(State(M, n))]
    BY DEF Standings, State
  <1>2. Attempts(M) = [Attempts(L) EXCEPT ![n] = M.node[n].attempts]
    BY DEF Attempts
  <1>3. Outcomes(M) = [Outcomes(L) EXCEPT ![n] = Outcomes(M)[n]]
    BY DEF Outcomes
  <1>4. QED
    BY <1>1, <1>2, <1>3 DEF Standings, Attempts

\* Same ledgers of its nodes, same run.
LEMMA StandsSame ==
  ASSUME NEW L, NEW M, \A m \in Nodes : M.node[m] = L.node[m]
  PROVE  Standings(M) = Standings(L) /\ Attempts(M) = Attempts(L) /\ Outcomes(M) = Outcomes(L)
  BY DEF Standings, Attempts, Outcomes, State

\* An event that closes no run leaves it open or closed.
LEMMA StaysOpen ==
  ASSUME NEW L, Recorded(L), NEW e \in Events, e.kind # "run_finished", NEW M, M = apply(L, e)
  PROVE  M.run.finished = L.run.finished
  BY FinishedBy

\* An attempt begins.
LEMMA StartMaps ==
  ASSUME Typed, Order, Due, NEW e \in Events, Lawful(log, e), log' = apply(log, e), Typed',
         log.run.finished = "no", e.kind = "node_started"
  PROVE  R!Begin(e.node)
  <1> DEFINE n == e.node
  <1>1. n \in Nodes /\ About(e)
    BY NodesNotZero DEF OfNodes, Kinds, Openings
  <1>2. Fit(log, e) /\ e.attempt = next_attempt(log, n) /\ Begins(log, n)
    BY DEF Lawful
  <1>3. Recorded(log) /\ ~log.broken /\ Ledger(log) /\ Recorded(log')
    BY DEF Typed, Order
  <1>4. State(log', n) = "running" /\ log'.node[n].finished = log.node[n].finished
        /\ log'.node[n].failed = log.node[n].failed
    BY <1>1, <1>2, <1>3, StateAfter
  <1>5. log'.node[n].attempts = log.node[n].attempts + 1
    <2>1. log'.node[n] = apply_node(log.node[n], e, log'.seq)
      BY <1>1, <1>2, <1>3, NodeAfter
    <2>2. log.node[n].attempts \in Nat /\ log.node[n] \in NodeRecord(log.seq)
      BY <1>1, <1>3 DEF Recorded, NodeRecord
    <2>3. log'.node[n].attempts = IF e.attempt > log.node[n].attempts THEN e.attempt
                                  ELSE log.node[n].attempts
      BY <2>1, <2>2 DEF apply_node, NodeRecord
    <2>4. QED
      BY <1>2, <2>2, <2>3 DEF next_attempt
  <1>6. \A m \in Nodes : m # n => log'.node[m] = log.node[m]
    BY <1>2, <1>3, NodeAfter
  <1> HIDE DEF n
  <1>7. /\ Standings(log') = [Standings(log) EXCEPT ![n] = "open"]
        /\ Attempts(log') = [Attempts(log) EXCEPT ![n] = @ + 1]
        /\ Standings(log)[n] = Standing(State(log, n)) /\ Attempts(log)[n] = log.node[n].attempts
    BY <1>1, <1>3, <1>4, <1>5, <1>6, Stands DEF Standing
  <1>8. Outcomes(log') = Outcomes(log)
    BY <1>4, <1>6 DEF Outcomes
  <1>9. log'.run.finished = log.run.finished
    BY <1>3, StaysOpen
  <1>10. R!MayBegin(n)
    <2>1. CASE is_gate(n)
      BY <1>1, <2>1 DEF R!MayBegin
    <2>2. CASE State(log, n) = "running" /\ OnInterrupt[n] = "restart_node"
      BY <1>7, <2>2 DEF R!MayBegin, Standing
    <2>3. CASE State(log, n) = "failed"
      BY <1>7, <2>3 DEF R!MayBegin, Standing
    <2>4. CASE State(log, n) = "none" /\ deps_satisfied(log, n) /\ log.node[n].attempts = 0
      <3>1. \A d \in Deps[n] : Standings(log)[d] = "done"
        BY <1>1, <2>4, WorkflowAssumption DEF Standings, Standing, deps_satisfied, finished
      <3>2. QED
        BY <1>7, <2>4, <3>1 DEF R!MayBegin, R!ItsTurn, Standing
    <2>5. CASE State(log, n) \in {"none", "finished"} /\ Corrected(log, n)
      <3>1. PICK m \in Nodes : State(log, m) = "failed" /\ n \in Correction(m)
        BY <2>5 DEF Corrected
      <3>2. Standings(log)[m] = "failed"
        BY <3>1 DEF Standings, Standing
      <3>3. R!Corrects(n)
        BY <3>1, <3>2 DEF R!Corrects
      <3>4. Standings(log)[n] \in {"idle", "done"}
        BY <1>7, <2>5 DEF Standing
      <3>5. QED
        BY <3>3, <3>4 DEF R!MayBegin
    <2>6. QED
      BY <1>2, <2>1, <2>2, <2>3, <2>4, <2>5 DEF Begins
  <1>11. QED
    BY <1>7, <1>8, <1>9, <1>10 DEF R!Begin, n

\* An attempt ends.
LEMMA EndMaps ==
  ASSUME Typed, Order, Due, NEW e \in Events, Lawful(log, e), log' = apply(log, e), Typed',
         log.run.finished = "no", e.kind \in Terminals
  PROVE  \E how \in {"done", "failed"} : R!End(e.node, how)
  <1> DEFINE n == e.node
             how == IF e.kind = "node_finished" THEN "done" ELSE "failed"
  <1>1. n \in Nodes /\ About(e) /\ e.kind # "run_finished"
    BY NodesNotZero DEF OfNodes, Kinds, Terminals
  <1>2. Fit(log, e) /\ State(log, n) = "running"
    BY DEF Lawful, Fit
  <1>3. Recorded(log) /\ ~log.broken /\ Ledger(log) /\ Recorded(log')
    BY DEF Typed, Order
  <1>4. /\ State(log', n) = IF e.kind = "node_finished" THEN "finished" ELSE "failed"
        /\ log'.node[n].finished = IF e.kind = "node_finished" THEN log'.seq ELSE log.node[n].finished
        /\ log'.node[n].failed = IF e.kind = "node_failed" THEN log'.seq ELSE log.node[n].failed
        /\ log'.seq = log.seq + 1
    BY <1>1, <1>2, <1>3, StateAfter, NodeAfter DEF Terminals
  <1>5. log'.node[n].attempts = log.node[n].attempts
    BY <1>1, <1>3, CountsKept DEF Terminals
  <1>6. \A m \in Nodes : m # n => log'.node[m] = log.node[m]
    BY <1>2, <1>3, NodeAfter
  <1>7. Outcomes(log')[n] = how
    <2>1. /\ log.seq \in Nat /\ log.node[n].finished \in 0..log.seq /\ log.node[n].failed \in 0..log.seq
      BY <1>1, <1>3 DEF Recorded, NodeRecord
    <2>2. /\ e.kind = "node_finished" => log'.node[n].finished > log'.node[n].failed
          /\ e.kind = "node_failed" => ~(log'.node[n].finished > log'.node[n].failed) /\ log'.node[n].failed > 0
      BY <1>4, <2>1
    <2>3. e.kind = "node_finished" \/ e.kind = "node_failed"
      BY DEF Terminals
    <2>4. QED
      BY <1>1, <2>2, <2>3 DEF Outcomes
  <1>8. Standing(State(log', n)) = how
    BY <1>4 DEF Standing
  <1>9. how \in {"done", "failed"}
    OBVIOUS
  <1> HIDE DEF n, how
  <1>10. /\ Standings(log') = [Standings(log) EXCEPT ![n] = how]
         /\ Attempts(log') = Attempts(log)
         /\ Outcomes(log') = [Outcomes(log) EXCEPT ![n] = how]
         /\ Standings(log)[n] = "open"
    <2>1. Standings(log)[n] = "open"
      BY <1>1, <1>2 DEF Standings, Standing
    <2>2. Attempts(log') = Attempts(log)
      BY <1>5, <1>6 DEF Attempts
    <2>3. /\ Standings(log') = [Standings(log) EXCEPT ![n] = Standing(State(log', n))]
          /\ Outcomes(log') = [Outcomes(log) EXCEPT ![n] = Outcomes(log')[n]]
      BY <1>1, <1>3, <1>6, Stands
    <2>4. QED
      BY <1>7, <1>8, <2>1, <2>2, <2>3
  <1>11. log'.run.finished = log.run.finished
    BY <1>1, <1>3, StaysOpen
  <1>12. R!End(n, how)
    BY <1>10, <1>11 DEF R!End
  <1>13. QED
    BY <1>9, <1>12 DEF n

\* A node waits, from where its wait gives it back.
LEMMA WaitMaps ==
  ASSUME Typed, Order, Due, NEW e \in Events, Lawful(log, e), log' = apply(log, e), Typed',
         log.run.finished = "no", e.kind \in {"gate_waiting", "questions_asked"}
  PROVE  R!Wait(e.node)
  <1> DEFINE n == e.node
  <1>1. n \in Nodes /\ About(e) /\ e.kind # "run_finished" /\ e.kind \notin Terminals
    BY NodesNotZero DEF OfNodes, Kinds, Terminals, Openings
  <1>2. Fit(log, e)
    BY DEF Lawful
  <1>3. Recorded(log) /\ ~log.broken /\ Ledger(log) /\ Recorded(log')
    BY DEF Typed, Order
  <1>4. /\ State(log', n) = IF e.kind = "gate_waiting" THEN e.with ELSE "questions"
        /\ log'.node[n].finished = log.node[n].finished
        /\ log'.node[n].failed = log.node[n].failed
    BY <1>1, <1>2, <1>3, StateAfter DEF Terminals
  <1>5. log'.node[n].attempts = log.node[n].attempts
    BY <1>1, <1>3, CountsKept
  <1>6. \A m \in Nodes : m # n => log'.node[m] = log.node[m]
    BY <1>2, <1>3, NodeAfter
  <1>7. Standing(State(log', n)) = "waiting"
    <2>1. e.kind = "gate_waiting" => e.with \in {"gate", "pr"}
      BY DEF Events
    <2>2. QED
      BY <1>4, <2>1 DEF Standing
  <1>8. is_gate(n) \/ State(log, n) \in {"running", "failed"}
    BY DEF Lawful, Fit
  <1> HIDE DEF n
  <1>9. /\ Standings(log') = [Standings(log) EXCEPT ![n] = "waiting"]
        /\ Attempts(log') = Attempts(log) /\ Outcomes(log') = Outcomes(log)
    <2>1. Attempts(log') = Attempts(log)
      BY <1>5, <1>6 DEF Attempts
    <2>2. Outcomes(log') = Outcomes(log)
      BY <1>4, <1>6 DEF Outcomes
    <2>3. Standings(log') = [Standings(log) EXCEPT ![n] = Standing(State(log', n))]
      BY <1>1, <1>3, <1>6, Stands
    <2>4. QED
      BY <1>7, <2>1, <2>2, <2>3
  <1>10. is_gate(n) \/ Standings(log)[n] \in {"open", "failed"}
    BY <1>1, <1>8 DEF Standings, Standing
  <1>11. log'.run.finished = log.run.finished
    BY <1>1, <1>3, StaysOpen
  <1>12. QED
    BY <1>1, <1>9, <1>10, <1>11 DEF R!Wait, n

\* A wait gives back what it interrupted.
LEMMA SettleMaps ==
  ASSUME Typed, Order, Due, NEW e \in Events, Lawful(log, e), log' = apply(log, e), Typed',
         log.run.finished = "no",
         e.kind \in {"gate_resolved", "questions_answered"}, State(log, e.node) \in Waits
  PROVE  UNCHANGED R!vars \/ \E as \in {"idle", "open", "done", "failed"} : R!Settle(e.node, as)
  <1> DEFINE n == e.node
             r == log.node[n]
             as == Standing(State(log', n))
  <1>1. n \in Nodes /\ About(e) /\ e.kind # "run_finished" /\ e.kind \notin Terminals
    BY NodesNotZero DEF OfNodes, Kinds, Terminals, Openings
  <1>2. Fit(log, e)
    BY DEF Lawful
  <1>3. Recorded(log) /\ ~log.broken /\ Ledger(log) /\ Recorded(log')
    BY DEF Typed, Order
  <1>4. /\ e.kind = "gate_resolved" => State(log', n) = r.pre
        /\ e.kind = "questions_answered" => State(log', n) = "running"
        /\ log'.node[n].finished = r.finished
        /\ log'.node[n].failed = r.failed
    BY <1>1, <1>2, <1>3, StateAfter DEF Terminals
  <1>5. log'.node[n].attempts = r.attempts
    BY <1>1, <1>3, CountsKept
  <1>6. \A m \in Nodes : m # n => log'.node[m] = log.node[m]
    BY <1>2, <1>3, NodeAfter
  <1>7. State(log', n) = r.pre
    <2>1. e.kind = "questions_answered" => State(log, n) = "questions"
      BY <1>1, <1>2, <1>3 DEF Fit, Ledger
    <2>2. e.kind = "questions_answered" => r.pre = "running"
      BY <1>1, <1>3, <2>1 DEF Ledger
    <2>3. QED
      BY <1>4, <2>2
  <1>8. Earns(r, r.pre) /\ (is_gate(n) \/ r.pre \in {"running", "failed"})
    BY <1>1 DEF Due, Earned, EarnedBy, State
  <1>9. r \in NodeRecord(log.seq) /\ r.pre \in NodeStates /\ r.finished \in Nat /\ r.failed \in Nat
    BY <1>1, <1>3 DEF Recorded, NodeRecord
  <1> HIDE DEF n, r
  <1>10. /\ Standings(log') = [Standings(log) EXCEPT ![n] = as]
         /\ Attempts(log') = Attempts(log) /\ Outcomes(log') = Outcomes(log)
         /\ Standings(log)[n] = "waiting"
    <2>1. Attempts(log') = Attempts(log)
      BY <1>5, <1>6 DEF Attempts, r
    <2>2. Outcomes(log') = Outcomes(log)
      BY <1>4, <1>6 DEF Outcomes, r
    <2>3. Standings(log') = [Standings(log) EXCEPT ![n] = as]
      BY <1>1, <1>3, <1>6, Stands
    <2>4. Standings(log)[n] = "waiting"
      BY <1>1 DEF Standings, Standing, Waits, n
    <2>5. QED
      BY <2>1, <2>2, <2>3, <2>4
  <1>11. log'.run.finished = log.run.finished
    BY <1>1, <1>3, StaysOpen
  <1>12. CASE r.pre \in Waits
    <2>1. as = "waiting"
      BY <1>7, <1>12 DEF Standing, Waits
    <2>2. Standings(log') = Standings(log)
      BY <1>1, <1>10, <2>1 DEF Standings
    <2>3. QED
      BY <1>10, <1>11, <2>2 DEF R!vars
  <1>13. CASE r.pre \notin Waits
    <2>1. r.pre \in {"none", "running", "finished", "failed"}
      BY <1>9, <1>13 DEF NodeStates
    <2>2. as = CASE r.pre = "none" -> "idle" [] r.pre = "running" -> "open"
                 [] r.pre = "finished" -> "done" [] OTHER -> "failed"
      BY <1>7, <2>1 DEF Standing
    <2>3. /\ r.pre = "running" => Attempts(log)[n] > 0
          /\ r.pre = "finished" => Outcomes(log)[n] = "done"
          /\ r.pre = "failed" => Outcomes(log)[n] = "failed"
      <3>1. r.pre = "failed" => ~(r.finished > r.failed) /\ r.failed > 0
        BY <1>8, <1>9 DEF Earns
      <3>2. QED
        BY <1>1, <1>8, <3>1 DEF Earns, Attempts, Outcomes, r
    <2> HIDE DEF as
    <2>4. /\ \/ as = "idle" /\ is_gate(n)
             \/ as = "open" /\ Attempts(log)[n] > 0
             \/ as \in {"done", "failed"} /\ as = Outcomes(log)[n]
          /\ as \in {"idle", "open", "done", "failed"}
      BY <1>8, <2>1, <2>2, <2>3
    <2>5. R!Settle(n, as)
      BY <1>1, <1>10, <1>11, <2>4 DEF R!Settle
    <2>6. QED
      BY <2>4, <2>5 DEF n
  <1>14. QED
    BY <1>12, <1>13

\* A run closes.
LEMMA CloseMaps ==
  ASSUME Typed, Order, NEW e \in Events, Lawful(log, e), log' = apply(log, e),
         log.run.finished = "no", e.kind = "run_finished"
  PROVE  \E how \in {"done", "failed", "promoted", "cancelled"} : R!Close(how)
  <1> DEFINE how == e.with
  <1>1. how \in {"done", "failed", "promoted", "cancelled"}
    BY DEF Events, Closes
  <1>2. ClosesSo(log, how)
    BY DEF Lawful
  <1>3. log'.run.finished = how /\ \A m \in Nodes : log'.node[m] = log.node[m]
    <2>1. ~log.broken /\ Recorded(log) /\ Ledger(log) /\ Fit(log, e)
      BY DEF Typed, Order, Lawful
    <2>2. Reads(log, e, log')
      BY <2>1, FitIsTaken, Applied
    <2>3. log'.run = [apply_run(log.run, e, log.seq + 1, Awaited(log, e))
                        EXCEPT !.tailPaused = (e.kind = "run_paused"), !.woken = @ \/ About(e)]
      BY <2>2, Zenon DEF Reads
    <2>4. log.run \in RunRecord(log.seq)
      BY <2>1 DEF Recorded
    <2>5. log'.run.finished = how
      BY <2>3, <2>4 DEF apply_run, RunRecord
    <2>6. log'.run.finished # log.run.finished
      BY <1>1, <2>5
    <2>7. log'.node = log.node
      BY <2>1, <2>6, FinishedBy
    <2>8. QED
      BY <2>5, <2>7
  <1> HIDE DEF how
  <1>4. UNCHANGED <<Standings(log), Attempts(log), Outcomes(log)>>
    BY <1>3, StandsSame
  <1>5. Rested(log) => R!AtRest
    BY DEF R!AtRest, Rested, Standings, Standing
  <1>6. unsettled(log) = {} =>
          \A n \in Nodes : Standings(log)[n] = "done" \/ (n \in reroute_only /\ Standings(log)[n] = "idle")
    BY DEF unsettled, finished, Standings, Standing
  <1>7. (\E n \in Nodes : State(log, n) = "failed") => \E n \in Nodes : Standings(log)[n] = "failed"
    BY DEF Standings, Standing
  <1>8. RestRan(log) /\ OnFailure = "continue" => R!RestRan
    <2>1. SUFFICES ASSUME RestRan(log), OnFailure = "continue", NEW n \in Nodes \ reroute_only
          PROVE  Standings(log)[n] = "done" \/ \E m \in {n} \cup Upstream[n] : Standings(log)[m] = "failed"
      BY DEF R!RestRan
    <2>2. finished(log, n) \/ \E m \in {n} \cup Upstream[n] : State(log, m) = "failed"
      BY <2>1 DEF RestRan
    <2>3. {n} \cup Upstream[n] \subseteq Nodes
      BY UpstreamCloses
    <2>4. QED
      BY <2>2, <2>3 DEF finished, Standings, Standing
  <1>9. R!Close(how)
    BY <1>2, <1>3, <1>4, <1>5, <1>6, <1>7, <1>8 DEF ClosesSo, R!Close
  <1>10. QED
    BY <1>1, <1>9

\* What else an event says moves no node: a pause, a wake, a reroute, a promotion announced.
LEMMA StutterMaps ==
  ASSUME Typed, Order, NEW e \in Events, Lawful(log, e), log' = apply(log, e),
         e.kind \notin Terminals \cup {"node_started", "gate_waiting", "questions_asked", "run_finished"},
         e.kind \in {"gate_resolved", "questions_answered"} => State(log, e.node) \notin Waits
  PROVE  UNCHANGED R!vars
  <1>1. Recorded(log) /\ ~log.broken /\ Ledger(log) /\ Fit(log, e)
    BY DEF Typed, Order, Lawful
  <1>2. ASSUME NEW m \in Nodes
        PROVE  /\ State(log', m) = State(log, m)
               /\ log'.node[m].finished = log.node[m].finished
               /\ log'.node[m].failed = log.node[m].failed
               /\ log'.node[m].attempts = log.node[m].attempts
    <2>1. log'.node[m].attempts = log.node[m].attempts
      BY <1>1, CountsKept
    <2>2. CASE ~(About(e) /\ m = e.node)
      BY <1>1, <2>1, <2>2, NodeAfter DEF State
    <2>3. CASE About(e) /\ m = e.node
      <3>1. e.kind # "questions_answered"
        BY <1>1, <2>3 DEF Fit, Ledger, Waits
      <3>2. QED
        BY <1>1, <2>1, <2>3, <3>1, StateAfter DEF Terminals
    <2>4. QED
      BY <2>2, <2>3
  <1>3. UNCHANGED <<Standings(log), Attempts(log), Outcomes(log)>>
    BY <1>2 DEF Standings, Attempts, Outcomes
  <1>4. log'.run.finished = log.run.finished
    BY <1>1, StaysOpen
  <1>5. QED
    BY <1>3, <1>4 DEF R!vars

\* Every step of the run is one of what a run promises, or none at all.
LEMMA StepMaps ==
  ASSUME Typed, Order, Sealing, Due, [Next]_vars, Typed'
  PROVE  [R!Next]_(R!vars)
  <1>1. CASE UNCHANGED log
    BY <1>1 DEF R!vars
  <1>2. CASE log.run.finished # "no"
    <2>1. log' = log
      BY <1>2, ClosedStays
    <2>2. QED
      BY <1>1, <2>1
  <1>3. ASSUME log.run.finished = "no", NEW e \in Events, Lawful(log, e), log' = apply(log, e)
        PROVE  [R!Next]_(R!vars)
    <2>1. CASE e.kind = "node_started"
      BY <1>3, <2>1, StartMaps, NodesNotZero DEF R!Next, OfNodes, Kinds, Openings
    <2>2. CASE e.kind \in Terminals
      BY <1>3, <2>2, EndMaps, NodesNotZero DEF R!Next, OfNodes, Kinds, Terminals
    <2>3. CASE e.kind \in {"gate_waiting", "questions_asked"}
      BY <1>3, <2>3, WaitMaps, NodesNotZero DEF R!Next, OfNodes, Kinds, Openings
    <2>4. CASE e.kind \in {"gate_resolved", "questions_answered"} /\ State(log, e.node) \in Waits
      BY <1>3, <2>4, SettleMaps, NodesNotZero DEF R!Next, OfNodes, Kinds, Openings
    <2>5. CASE e.kind = "run_finished"
      BY <1>3, <2>5, CloseMaps DEF R!Next
    <2>6. CASE /\ e.kind \notin Terminals \cup {"node_started", "gate_waiting", "questions_asked", "run_finished"}
               /\ e.kind \in {"gate_resolved", "questions_answered"} => State(log, e.node) \notin Waits
      BY <1>3, <2>6, StutterMaps
    <2>7. QED
      BY <2>1, <2>2, <2>3, <2>4, <2>5, <2>6
  <1>4. QED
    BY <1>1, <1>2, <1>3, NextLawful

\* A run just created is a run that has not begun.
LEMMA InitMaps == Init => R!Init
  <1> SUFFICES ASSUME Init PROVE R!Init
    OBVIOUS
  <1>1. log = Born
    BY DEF Init
  <1>2. \A n \in Nodes : log.node[n] = Unrecorded
    BY <1>1 DEF Born
  <1>3. Standings(log) = [n \in Nodes |-> "idle"]
    BY <1>2 DEF Standings, State, Standing, Unrecorded
  <1>4. Attempts(log) = [n \in Nodes |-> 0]
    BY <1>2 DEF Attempts, Unrecorded
  <1>5. Outcomes(log) = [n \in Nodes |-> "none"]
    BY <1>2 DEF Outcomes, Unrecorded
  <1>6. log.run.finished = "no"
    BY <1>1 DEF Born
  <1>7. QED
    BY <1>3, <1>4, <1>5, <1>6 DEF R!Init

\* A run keeps what it promises whatever crashes, wakes, cancellations, setbacks, corrections and
\* decisions its log is cut by: nothing begins out of its turn without a failure it corrects, no end
\* lacks its attempt, no wait gives an outcome nobody had, and the close is true of every node.
THEOREM RunImplementsRun ==
  ASSUME Alone
  PROVE  Spec => ImplementsRun
  <1>1. Init => Order /\ Sealing /\ Due /\ R!Init
    BY InitOrder, InitSealing, InitDue, InitMaps
  <1>2. Typed /\ Order /\ [Next]_vars => Order'
    BY NextOrder DEF Alone
  <1>3. Typed /\ Order /\ Sealing /\ [Next]_vars => Sealing'
    BY NextSealing
  <1>4. Typed /\ Order /\ Sealing /\ Due /\ [Next]_vars => Due'
    BY NextDue DEF Alone
  <1>5. Typed /\ Typed' /\ Order /\ Sealing /\ Due /\ [Next]_vars => [R!Next]_(R!vars)
    BY StepMaps
  <1>6. QED
    BY AlwaysTyped, <1>1, <1>2, <1>3, <1>4, <1>5, PTL DEF Spec, ImplementsRun, R!Spec
=============================================================================
