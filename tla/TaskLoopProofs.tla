---------------------------- MODULE TaskLoopProofs ----------------------------
(* Proofs about a loop's tasks, for any plan, concurrency, caps and faults:   *)
(* the ledger keeps its type, a done task landed after what it depends on,    *)
(* no task closes on a departure nobody answered, a decision to run again     *)
(* reopens a task once, and the engine's own grants stay under their cap.     *)
(* Crashes, cancellations and the landing of another node at every step are   *)
(* part of the specification.                                                 *)
EXTENDS TaskLoop, WellFoundedInduction, TLAPS

-----------------------------------------------------------------------------
(* The least of a set of tasks is one of them.                               *)

LEMMA Least ==
  ASSUME NEW S \in SUBSET Nat, S # {}
  PROVE  least(S) \in S /\ \A u \in S : least(S) <= u
  <1> DEFINE R == {ss \in Nat \X Nat : ss[1] < ss[2]}
  <1>1. IsWellFoundedOn(OpToRel(<, Nat), Nat)
    BY NatLessThanWellFounded
  <1>2. IsWellFoundedOn(R, Nat)
    BY <1>1 DEF OpToRel
  <1>3. \E x \in S : \A y \in S : ~ (<<y, x>> \in R)
    <2> HIDE DEF R
    <2>1. QED
      BY <1>2, WFMin
  <1>4. \E x \in S : \A y \in S : x <= y
    <2>1. PICK x \in S : \A y \in S : ~ (<<y, x>> \in R)
      BY <1>3
    <2>2. ASSUME NEW y \in S PROVE x <= y
      <3>1. <<y, x>> \in Nat \X Nat /\ <<y, x>>[1] = y /\ <<y, x>>[2] = x
        OBVIOUS
      <3>2. ~(y < x)
        BY <2>1, <3>1
      <3>3. QED
        BY <3>2
    <2>3. QED
      BY <2>2
  <1>5. QED
    BY <1>4 DEF least

(* There is one batch in the order of declaration: the least number up to    *)
(* which there were none would have one below it to extend.                  *)
UpTo(n, batch) ==
    /\ batch \subseteq 1..n
    /\ \A t \in 1..n : t \in batch <=> joins(t, batch)

LEMMA BatchExists ==
  ASSUME NTasks \in Nat
  PROVE  \E batch \in SUBSET Tasks : \A t \in Tasks : t \in batch <=> joins(t, batch)
  <1> DEFINE Missing == {n \in 0..NTasks : ~ \E batch : UpTo(n, batch)}
  <1>1. Missing = {}
    <2>1. SUFFICES ASSUME Missing # {} PROVE FALSE
      OBVIOUS
    <2>2. PICK n \in Missing : \A m \in Missing : n <= m
      <3>1. Missing \in SUBSET Nat
        OBVIOUS
      <3>2. QED
        BY <2>1, <3>1, Least
    <2>3. n # 0
      <3>1. UpTo(0, {})
        BY DEF UpTo
      <3>2. QED
        BY <3>1
    <2>4. PICK batch : UpTo(n - 1, batch)
      <3>1. n - 1 \in 0..NTasks /\ n - 1 \notin Missing
        BY <2>2, <2>3
      <3>2. QED
        BY <3>1
    <2>5. ASSUME NEW more, more = batch \/ more = batch \cup {n},
                 NEW t \in 1..n
          PROVE  joins(t, more) <=> joins(t, batch)
      <3>1. {u \in more : u < t} = {u \in batch : u < t}
        BY <2>4, <2>5 DEF UpTo
      <3>2. QED
        BY <3>1 DEF joins
    <2>6. CASE joins(n, batch)
      <3>1. UpTo(n, batch \cup {n})
        BY <2>3, <2>4, <2>5, <2>6 DEF UpTo
      <3>2. QED
        BY <3>1
    <2>7. CASE ~joins(n, batch)
      <3>1. UpTo(n, batch)
        BY <2>3, <2>4, <2>5, <2>7 DEF UpTo
      <3>2. QED
        BY <3>1
    <2>8. QED
      BY <2>6, <2>7
  <1>2. PICK batch : UpTo(NTasks, batch)
    BY <1>1
  <1>3. QED
    BY <1>2 DEF UpTo, Tasks

(* What select_batch hands out is ready, and no two of it might meet.        *)
THEOREM BatchIsReady ==
  /\ select_batch \subseteq Tasks
  /\ \A t \in select_batch : ready(t)
  /\ \A t, u \in select_batch : u < t => {t, u} \notin Meets
  <1>1. \E batch \in SUBSET Tasks : \A t \in Tasks : t \in batch <=> joins(t, batch)
    BY LoopAssumption, BatchExists
  <1>2. select_batch \in SUBSET Tasks /\ \A t \in Tasks : t \in select_batch <=> joins(t, select_batch)
    BY <1>1 DEF select_batch
  <1>3. QED
    BY <1>2 DEF joins

-----------------------------------------------------------------------------
(* The inductive invariant.                                                  *)

Stati   == {"pending", "running", "blocked", "done"}
Stops   == {"unmet", "scope", "limit", "precheck", "departs"}
Results == {"none", "working", "cut", "unstopped", "done"} \cup Stops
TaskType == [st : Stati, stop : Stops \cup {"none"}, left : BOOLEAN, owes : BOOLEAN]
LoopType ==
    [pc : {"down", "retry", "reopen", "due", "round", "select", "dispatch", "walk", "settle",
           "land", "landed", "ask", "asked", "depart", "resolve", "resolved"},
     iter : Nat, lifted : BOOLEAN, owed : SUBSET Tasks, todo : SUBSET Tasks,
     res : [Tasks -> Results], got : [Tasks -> Nat], fresh : SUBSET Tasks,
     window : Nat, cancelled : BOOLEAN, onto : Nat, asking : SUBSET Tasks,
     departs : SUBSET Tasks, unanswered : SUBSET Tasks]

NodeType == [st : {"ready", "open", "failed", "done"},
             why : {"none", "owed", "limit", "stopped", "stalled", "capped", "unstopped"},
             lists : SUBSET Tasks, waited : BOOLEAN]
ChoiceType == [opt : {"none", "retry", "continue_work", "grant", "deny", "accept", "send_back"},
               cited : SUBSET Tasks]
SeedType == [opt : {"none", "accept", "send_back", "other"}, about : SUBSET Tasks]

Typed ==
    /\ task \in [Tasks -> TaskType] /\ tree \in Seq(Tasks \cup {0}) /\ grants \in Nat
    /\ node \in NodeType /\ choice \in ChoiceType /\ seed \in SeedType
    /\ loop \in LoopType /\ faults \in 0..MaxFaults

(* A task names its stop exactly while it is blocked, the tree holds nothing *)
(* twice, and only an invocation at work holds the node open.                *)
Shaped ==
    /\ \A t \in Tasks : task[t].stop \in Stops <=> is(t, "blocked")
    /\ IsInjective(tree)
    /\ up => node.st = "open"

(* Whatever landed has behind it what it depends on.                         *)
Behind(t) ==
    \E i \in DOMAIN tree :
        /\ tree[i] = t
        /\ \A d \in Deps[t] : \E j \in 1..i : tree[j] = d

(* A task starts on done dependencies, done tasks are in the tree, and what  *)
(* is in the tree landed in order.                                           *)
InOrder ==
    /\ \A t \in Tasks : Landed(t) => Behind(t)
    /\ \A t \in Tasks : is(t, "done") => Landed(t) /\ ~task[t].owes
    /\ \A t \in Tasks : is(t, "running") => \A d \in Deps[t] : is(d, "done")

Walking   == {"walk", "settle", "land", "landed"}
Answering == Walking \cup {"ask", "asked", "depart", "resolve", "resolved"}

(* What the invocation has in hand. None of it is done; a batch's members    *)
(* have their dependencies done and are settled one at a time.               *)
InHand ==
    /\ at("reopen") \/ at("due") \/ at("dispatch") \/ loop.pc \in Walking =>
          \A t \in loop.todo : ~is(t, "done")
    /\ at("reopen") => loop.todo \cap choice.cited = {}
    /\ at("dispatch") \/ loop.pc \in Walking =>
          \A t \in loop.todo : \A d \in Deps[t] : is(d, "done")
    /\ loop.pc \in Walking =>
          /\ loop.todo \cap (loop.asking \cup loop.departs) = {}
          /\ \A t \in loop.todo : loop.res[t] \notin {"none", "working"}
    /\ loop.pc \in Walking \cup {"ask", "asked"} => \A t \in loop.asking : ~is(t, "done")
    /\ loop.pc \in Answering => \A t \in loop.departs : ~is(t, "done")
    /\ loop.pc \in {"settle", "land", "landed"} =>
          loop.todo # {} /\ loop.res[member] # "unstopped"
    /\ loop.pc \in {"land", "landed"} => ~task[member].owes
    /\ at("landed") => Landed(member)
    /\ at("asked") => loop.asking # {}
    /\ loop.pc \in {"resolve", "resolved"} => loop.departs # {}

IInv == Typed /\ Shaped /\ InOrder /\ InHand

LEMMA InitIInv == Init => IInv
  <1> SUFFICES ASSUME Init PROVE IInv
    OBVIOUS
  <1> USE LoopAssumption
  <1>1. Typed
    BY DEF Init, Typed, TaskType, LoopType, NodeType, ChoiceType, SeedType, Gone, NoAnswer,
           NoChoice, Stati, Stops, Results
  <1>2. Shaped
    BY DEF Init, Shaped, is, up, at, Gone, Stops, IsInjective
  <1>3. InOrder
    BY DEF Init, InOrder, Landed, Range, is
  <1>4. InHand
    BY DEF Init, InHand, at, Gone, Walking, Answering
  <1>5. QED
    BY <1>1, <1>2, <1>3, <1>4 DEF IInv

-----------------------------------------------------------------------------
(* What recurs in the steps.                                                 *)

(* The least of a nonempty set of tasks is one of them.                      *)
LEMMA LeastTask ==
  ASSUME NEW S \in SUBSET Tasks, S # {}
  PROVE  least(S) \in S
  <1>1. S \in SUBSET Nat
    BY LoopAssumption DEF Tasks
  <1>2. QED
    BY <1>1, Least

(* A status change leaves every other task and what is owed alone.           *)
LEMMA Changed ==
  ASSUME task \in [Tasks -> TaskType], NEW t \in Tasks, NEW st \in Stati,
         NEW stop \in Stops \cup {"none"}, NEW left \in BOOLEAN,
         task' = changed(t, st, stop, left)
  PROVE  /\ task' \in [Tasks -> TaskType]
         /\ task'[t].st = st /\ task'[t].stop = stop /\ task'[t].owes = task[t].owes
         /\ \A u \in Tasks : u # t => task'[u] = task[u]
  <1> DEFINE r == [task[t] EXCEPT !.st = st, !.stop = stop, !.left = left]
  <1>1. task[t] \in TaskType
    OBVIOUS
  <1>2. r \in TaskType /\ r.st = st /\ r.stop = stop /\ r.owes = task[t].owes
    BY <1>1 DEF TaskType
  <1>3. task' = [task EXCEPT ![t] = r]
    BY DEF changed
  <1> HIDE DEF r
  <1>4. QED
    BY <1>2, <1>3

(* A task that is not done and does not start running disturbs no order.     *)
LEMMA Back ==
  ASSUME Typed, Shaped, InOrder, NEW t \in Tasks, ~is(t, "done"),
         NEW st \in {"pending", "blocked"}, NEW stop \in Stops \cup {"none"},
         NEW left \in BOOLEAN, st = "blocked" <=> stop \in Stops,
         task' = changed(t, st, stop, left), tree' = tree
  PROVE  /\ task' \in [Tasks -> TaskType] /\ InOrder'
         /\ \A u \in Tasks : task'[u].stop \in Stops <=> is(u, "blocked")'
         /\ \A u \in Tasks : is(u, "done")' <=> is(u, "done")
         /\ \A u \in Tasks : task'[u].owes = task[u].owes
  <1> DEFINE Alone == \A u \in Tasks : u # t => task'[u] = task[u]
  <1>1. task' \in [Tasks -> TaskType] /\ task'[t].st = st /\ task'[t].stop = stop
        /\ task'[t].owes = task[t].owes /\ Alone
    BY Changed DEF Typed, Stati
  <1>2. \A u \in Tasks : is(u, "done")' <=> is(u, "done")
    BY <1>1 DEF is
  <1>3. \A u \in Tasks : is(u, "running")' => is(u, "running")
    BY <1>1 DEF is
  <1>4. \A u \in Tasks : task'[u].stop \in Stops <=> is(u, "blocked")'
    BY <1>1 DEF is, Shaped
  <1>5. \A u \in Tasks : task'[u].owes = task[u].owes
    BY <1>1
  <1>6. \A u \in Tasks : Deps[u] \subseteq Tasks
    BY LoopAssumption
  <1>7. \A u \in Tasks : (Landed(u)' <=> Landed(u)) /\ (Behind(u)' <=> Behind(u))
    BY DEF Landed, Behind
  <1>8. InOrder'
    BY <1>2, <1>3, <1>5, <1>6, <1>7 DEF InOrder
  <1>9. QED
    BY <1>1, <1>2, <1>4, <1>5, <1>8

(* A step that leaves the ledger and the tree keeps what holds of them.      *)
LEMMA Still ==
  ASSUME Shaped, InOrder, task' = task, tree' = tree, up' => node'.st = "open"
  PROVE  Shaped' /\ InOrder'
  <1>1. Shaped'
    BY DEF Shaped, is
  <1>2. InOrder'
    BY DEF InOrder, Landed, Behind, is
  <1>3. QED
    BY <1>1, <1>2

(* An invocation that ended has nothing in hand.                             *)
LEMMA GoneHolds ==
  ASSUME loop' = Gone
  PROVE  InHand' /\ ~up' /\ loop' \in LoopType
  <1>1. loop'.pc = "down"
    BY DEF Gone
  <1>2. InHand' /\ ~up'
    BY <1>1 DEF InHand, at, up, Walking, Answering
  <1>3. loop' \in LoopType
    BY DEF Gone, LoopType, Results
  <1>4. QED
    BY <1>2, <1>3

-----------------------------------------------------------------------------
(* The steps of the invariant, by phase. First what goes back to work.       *)

LEMMA StepAfterRetry == IInv /\ AfterRetry => IInv'
  <1> SUFFICES ASSUME IInv, AfterRetry PROVE IInv'
    OBVIOUS
  <1> USE DEF IInv, at
  <1> DEFINE todo == IF choice.opt \in {"none", "accept", "send_back"} \/ caused_by THEN {} ELSE stops
  <1>1. todo \in SUBSET Tasks /\ (\A t \in todo : ~is(t, "done")) /\ todo \cap choice.cited = {}
    <2>1. CASE caused_by
      BY <2>1
    <2>2. CASE ~caused_by
      BY <2>2 DEF caused_by, stops, is
    <2>3. QED
      BY <2>1, <2>2
  <1>2. loop' = [loop EXCEPT !.pc = "reopen", !.todo = todo]
    BY DEF AfterRetry
  <1> HIDE DEF todo
  <1>3. loop' \in LoopType /\ loop'.pc = "reopen" /\ loop'.todo = todo
    BY <1>1, <1>2 DEF Typed, LoopType
  <1>4. UNCHANGED <<task, tree, grants, node, choice, seed, faults>>
    BY DEF AfterRetry, logged
  <1>5. Typed'
    BY <1>3, <1>4 DEF Typed
  <1>6. up' => node'.st = "open"
    BY <1>4 DEF AfterRetry, Shaped, up
  <1>7. InHand'
    BY <1>1, <1>3, <1>4 DEF InHand, Walking, Answering, is
  <1>8. QED
    BY <1>4, <1>5, <1>6, <1>7, Still

LEMMA StepReopenNext == IInv /\ ReopenNext => IInv'
  <1> SUFFICES ASSUME IInv, ReopenNext PROVE IInv'
    OBVIOUS
  <1> USE DEF IInv, at
  <1> DEFINE t == least(loop.todo)
             left == task[t].left /\ keeps_work(t)
  <1>1. t \in loop.todo /\ t \in Tasks /\ loop.todo \subseteq Tasks
    BY LeastTask DEF ReopenNext, Typed, LoopType
  <1>2. ~is(t, "done")
    BY <1>1 DEF ReopenNext, InHand
  <1>3. /\ task' = changed(t, "pending", "none", left)
        /\ choice' = [choice EXCEPT !.cited = @ \cup {t}]
        /\ loop' = [loop EXCEPT !.todo = @ \ {t}]
        /\ loop.pc = "reopen" /\ UNCHANGED <<tree, grants, node, seed, faults>>
    BY DEF ReopenNext
  <1>4. left \in BOOLEAN
    BY DEF keeps_work
  <1> HIDE DEF t, left
  <1>5. /\ task' \in [Tasks -> TaskType] /\ InOrder'
        /\ \A u \in Tasks : task'[u].stop \in Stops <=> is(u, "blocked")'
        /\ \A u \in Tasks : is(u, "done")' <=> is(u, "done")
    BY <1>1, <1>2, <1>3, <1>4, Back DEF Stops
  <1>6. /\ loop' \in LoopType /\ loop'.pc = "reopen" /\ loop'.todo = loop.todo \ {t}
        /\ choice' \in ChoiceType /\ choice'.cited = choice.cited \cup {t}
    BY <1>1, <1>3 DEF Typed, LoopType, ChoiceType
  <1>7. Typed'
    BY <1>3, <1>5, <1>6 DEF Typed
  <1>8. Shaped'
    BY <1>3, <1>5, <1>6 DEF Shaped, up
  <1>9. InHand'
    BY <1>1, <1>3, <1>5, <1>6 DEF InHand, Walking, Answering
  <1>10. QED
    BY <1>5, <1>7, <1>8, <1>9

LEMMA StepAfterReset == IInv /\ AfterReset => IInv'
  <1> SUFFICES ASSUME IInv, AfterReset PROVE IInv'
    OBVIOUS
  <1> USE DEF IInv, at
  <1>1. PICK due \in IF node.waited THEN {{}} ELSE SUBSET on("limit") :
                loop' = [loop EXCEPT !.pc = "due", !.todo = due]
    BY DEF AfterReset
  <1>2. due \in SUBSET Tasks /\ \A t \in due : ~is(t, "done")
    BY <1>1 DEF on, stops, is
  <1>3. loop' \in LoopType /\ loop'.pc = "due" /\ loop'.todo = due
    BY <1>1, <1>2 DEF Typed, LoopType
  <1>4. UNCHANGED <<task, tree, grants, node, choice, seed, faults>> /\ node.st = "open"
    BY DEF AfterReset, logged, Shaped, up
  <1>5. Typed'
    BY <1>3, <1>4 DEF Typed
  <1>6. InHand'
    BY <1>2, <1>3, <1>4 DEF InHand, Walking, Answering, is
  <1>7. QED
    BY <1>4, <1>5, <1>6, Still

LEMMA StepReopenDue == IInv /\ ReopenDue => IInv'
  <1> SUFFICES ASSUME IInv, ReopenDue PROVE IInv'
    OBVIOUS
  <1> USE DEF IInv, at
  <1> DEFINE t == least(loop.todo)
             left == task[t].left
  <1>1. t \in loop.todo /\ t \in Tasks /\ loop.todo \subseteq Tasks
    BY LeastTask DEF ReopenDue, Typed, LoopType
  <1>2. ~is(t, "done")
    BY <1>1 DEF ReopenDue, InHand
  <1>3. /\ task' = changed(t, "pending", "none", left)
        /\ node' = [node EXCEPT !.waited = TRUE]
        /\ loop' = [loop EXCEPT !.todo = @ \ {t}]
        /\ loop.pc = "due" /\ UNCHANGED <<tree, grants, choice, seed, faults>>
    BY DEF ReopenDue
  <1>4. left \in BOOLEAN
    BY <1>1 DEF Typed, TaskType
  <1> HIDE DEF t, left
  <1>5. /\ task' \in [Tasks -> TaskType] /\ InOrder'
        /\ \A u \in Tasks : task'[u].stop \in Stops <=> is(u, "blocked")'
        /\ \A u \in Tasks : is(u, "done")' <=> is(u, "done")
    BY <1>1, <1>2, <1>3, <1>4, Back DEF Stops
  <1>6. /\ loop' \in LoopType /\ loop'.pc = "due" /\ loop'.todo = loop.todo \ {t}
        /\ node' \in NodeType /\ node'.st = node.st
    BY <1>1, <1>3 DEF Typed, LoopType, NodeType
  <1>7. Typed'
    BY <1>3, <1>5, <1>6 DEF Typed
  <1>8. Shaped'
    BY <1>3, <1>5, <1>6 DEF Shaped, up
  <1>9. InHand'
    BY <1>1, <1>3, <1>5, <1>6 DEF InHand, Walking, Answering
  <1>10. QED
    BY <1>5, <1>7, <1>8, <1>9

(* Steps that move the invocation on and touch neither ledger nor tree.      *)
LEMMA StepOnwards == IInv /\ (EndReopening \/ Iterate \/ EndWalk \/ EndAsking \/ CloseBatch) => IInv'
  <1> SUFFICES ASSUME IInv, EndReopening \/ Iterate \/ EndWalk \/ EndAsking \/ CloseBatch PROVE IInv'
    OBVIOUS
  <1> USE DEF IInv, at
  <1>1. UNCHANGED <<task, tree, grants, node, choice, seed, faults>> /\ node.st = "open"
    BY DEF EndReopening, Iterate, EndWalk, EndAsking, CloseBatch, logged, Shaped, up
  <1>2. loop' \in LoopType /\ InHand'
    <2>1. CASE EndReopening
      <3>1. loop' \in LoopType /\ loop'.pc = "round"
        BY <2>1 DEF EndReopening, go, Typed, LoopType
      <3>2. QED
        BY <3>1 DEF InHand, Walking, Answering
    <2>2. CASE Iterate
      <3> DEFINE i == IF loop.iter > MaxIterations THEN loop.iter ELSE loop.iter + 1
      <3>1. i \in Nat
        BY DEF Typed, LoopType
      <3>2. loop' = [loop EXCEPT !.pc = "select", !.iter = i]
        BY <2>2 DEF Iterate
      <3> HIDE DEF i
      <3>3. loop' \in LoopType /\ loop'.pc = "select"
        BY <3>1, <3>2 DEF Typed, LoopType
      <3>4. QED
        BY <3>3 DEF InHand, Walking, Answering
    <2>3. CASE EndWalk
      <3>1. loop' = [loop EXCEPT !.pc = "ask"] /\ loop.pc = "walk"
        BY <2>3 DEF EndWalk, go
      <3>2. loop' \in LoopType /\ loop'.pc = "ask" /\ loop'.asking = loop.asking
            /\ loop'.departs = loop.departs
        BY <3>1 DEF Typed, LoopType
      <3>3. QED
        BY <1>1, <3>1, <3>2 DEF InHand, Walking, Answering, is
    <2>4. CASE EndAsking
      <3>1. loop' = [loop EXCEPT !.pc = "depart"] /\ loop.pc = "ask"
        BY <2>4 DEF EndAsking, go
      <3>2. loop' \in LoopType /\ loop'.pc = "depart" /\ loop'.asking = loop.asking
            /\ loop'.departs = loop.departs
        BY <3>1 DEF Typed, LoopType
      <3>3. QED
        BY <1>1, <3>1, <3>2 DEF InHand, Walking, Answering, is
    <2>5. CASE CloseBatch
      <3>1. /\ loop' = [loop EXCEPT !.pc = "walk", !.asking = {}, !.departs = {}, !.unanswered = {}]
            /\ loop.pc = "dispatch" /\ \A t \in loop.todo : loop.res[t] \notin {"none", "working"}
        BY <2>5 DEF CloseBatch
      <3>2. /\ loop' \in LoopType /\ loop'.pc = "walk" /\ loop'.todo = loop.todo
            /\ loop'.res = loop.res /\ loop'.asking = {} /\ loop'.departs = {}
        BY <3>1 DEF Typed, LoopType
      <3>3. QED
        BY <1>1, <3>1, <3>2 DEF InHand, Walking, Answering, is
    <2>6. QED
      BY <2>1, <2>2, <2>3, <2>4, <2>5
  <1>3. Typed'
    BY <1>1, <1>2 DEF Typed
  <1>4. QED
    BY <1>1, <1>2, <1>3, Still

-----------------------------------------------------------------------------
(* How the node ends, the iteration and the members of a batch.              *)

LEMMA Failing ==
  ASSUME IInv, NEW why \in {"owed", "limit", "stopped", "stalled", "capped", "unstopped"},
         NEW lists \in SUBSET Tasks, fail(why, lists), UNCHANGED <<task, tree, grants, faults>>
  PROVE  IInv'
  <1>1. loop' = Gone /\ node' \in NodeType /\ choice' \in ChoiceType /\ seed' \in SeedType
    BY DEF fail, NodeType, ChoiceType, SeedType, NoChoice, NoAnswer
  <1>2. InHand' /\ ~up' /\ loop' \in LoopType
    BY <1>1, GoneHolds
  <1>3. Typed'
    BY <1>1, <1>2 DEF IInv, Typed
  <1>4. QED
    BY <1>2, <1>3, Still DEF IInv

LEMMA Pausing ==
  ASSUME IInv, pause, UNCHANGED <<task, tree, grants, faults>>
  PROVE  IInv'
  <1>1. loop' = Gone /\ seed' \in SeedType /\ UNCHANGED <<node, choice>>
    BY DEF pause, SeedType, NoAnswer
  <1>2. InHand' /\ ~up' /\ loop' \in LoopType
    BY <1>1, GoneHolds
  <1>3. Typed'
    BY <1>1, <1>2 DEF IInv, Typed
  <1>4. QED
    BY <1>2, <1>3, Still DEF IInv

LEMMA StepPastCap == IInv /\ PastCap => IInv'
  <1> SUFFICES ASSUME IInv, PastCap PROVE IInv'
    OBVIOUS
  <1>1. UNCHANGED <<task, tree, grants, faults>> /\ loop.pc = "select"
    BY DEF PastCap, at
  <1>2. CASE fail("capped", {})
    BY <1>1, <1>2, Failing
  <1>3. CASE /\ loop' = [loop EXCEPT !.lifted = TRUE]
             /\ seed' = [opt |-> "other", about |-> {}]
             /\ choice' = NoChoice /\ UNCHANGED node
    <2>1. /\ loop' \in LoopType /\ loop'.pc = "select"
          /\ seed' \in SeedType /\ choice' \in ChoiceType
      BY <1>1, <1>3 DEF IInv, Typed, LoopType, SeedType, ChoiceType, NoChoice
    <2>2. Typed'
      BY <1>1, <1>3, <2>1 DEF IInv, Typed
    <2>3. InHand'
      BY <2>1 DEF InHand, at, Walking, Answering
    <2>4. up' => node'.st = "open"
      BY <1>1, <1>3 DEF IInv, Shaped, up, at
    <2>5. QED
      BY <1>1, <2>2, <2>3, <2>4, Still DEF IInv
  <1>4. QED
    BY <1>2, <1>3 DEF PastCap

(* A batch opens on ready tasks, so none of them is done and what each       *)
(* depends on is.                                                            *)
LEMMA StepOpenBatch == IInv /\ OpenBatch => IInv'
  <1> SUFFICES ASSUME IInv, OpenBatch PROVE IInv'
    OBVIOUS
  <1> USE DEF IInv, at
  <1>1. /\ loop' = [loop EXCEPT
                !.pc = "dispatch", !.todo = select_batch, !.window = seeded,
                !.res = Gone.res, !.got = Gone.got, !.fresh = {}]
        /\ UNCHANGED <<task, tree, grants, node, choice, seed, faults>> /\ node.st = "open"
    BY DEF OpenBatch, logged, Shaped, up
  <1>2. select_batch \subseteq Tasks /\ \A t \in select_batch : ready(t)
    BY BatchIsReady
  <1>3. \A t \in select_batch : ~is(t, "done") /\ \A d \in Deps[t] : is(d, "done")
    BY <1>2 DEF ready, is, InOrder
  <1>4. seeded \in Nat
    BY DEF Typed, seeded
  <1>5. Gone.res \in [Tasks -> Results] /\ Gone.got \in [Tasks -> Nat]
    BY DEF Gone, Results
  <1>6. loop' \in LoopType /\ loop'.pc = "dispatch" /\ loop'.todo = select_batch
    <2> HIDE DEF select_batch, seeded, Gone
    <2>1. QED
      BY <1>1, <1>2, <1>4, <1>5 DEF Typed, LoopType
  <1>7. Typed'
    BY <1>1, <1>6 DEF Typed
  <1>8. InHand'
    BY <1>1, <1>3, <1>6 DEF InHand, Walking, Answering, is
  <1>9. QED
    BY <1>1, <1>7, <1>8, Still

LEMMA StepIdleRound == IInv /\ IdleRound => IInv'
  <1> SUFFICES ASSUME IInv, IdleRound PROVE IInv'
    OBVIOUS
  <1>1. UNCHANGED <<task, tree, grants, faults>> /\ loop.pc = "select" /\ node.st = "open"
    BY DEF IdleRound, at, IInv, Shaped, up
  <1>2. \A why \in Stops : on(why) \subseteq Tasks /\ \A t \in on(why) : ~is(t, "done")
    BY DEF on, stops, is
  <1>3. CASE /\ loop' = [loop EXCEPT !.pc = "depart", !.departs = on("departs"), !.unanswered = {}]
             /\ UNCHANGED <<node, choice, seed>>
    <2>1. on("departs") \subseteq Tasks /\ \A t \in on("departs") : ~is(t, "done")
      BY <1>2 DEF Stops
    <2>2. /\ loop' \in LoopType /\ loop'.pc = "depart" /\ loop'.departs = on("departs")
      BY <1>1, <1>3, <2>1 DEF IInv, Typed, LoopType
    <2>3. InHand'
      BY <1>1, <2>1, <2>2 DEF InHand, at, Walking, Answering, is
    <2>4. Typed'
      BY <1>1, <1>3, <2>2 DEF IInv, Typed
    <2>5. QED
      BY <1>1, <1>3, <2>3, <2>4, Still DEF IInv
  <1>4. CASE loop.owed # {} /\ fail("owed", loop.owed)
    <2>1. loop.owed \subseteq Tasks
      BY DEF IInv, Typed, LoopType
    <2>2. QED
      BY <1>1, <1>4, <2>1, Failing
  <1>5. CASE /\ node' = [st |-> "done", why |-> "none", lists |-> {}, waited |-> FALSE]
             /\ choice' = NoChoice /\ seed' = NoAnswer /\ loop' = Gone
    <2>1. node' \in NodeType /\ choice' \in ChoiceType /\ seed' \in SeedType
      BY <1>5 DEF NodeType, ChoiceType, SeedType, NoChoice, NoAnswer
    <2>2. InHand' /\ ~up' /\ loop' \in LoopType
      BY <1>5, GoneHolds
    <2>3. Typed'
      BY <1>1, <2>1, <2>2 DEF IInv, Typed
    <2>4. QED
      BY <1>1, <2>2, <2>3, Still DEF IInv
  <1>6. CASE fail("limit", on("limit"))
    BY <1>1, <1>2, <1>6, Failing DEF Stops
  <1>7. CASE fail(IF stops # {} THEN "stopped" ELSE "stalled", stops)
    <2>1. stops \subseteq Tasks
      BY DEF stops
    <2>2. QED
      BY <1>1, <1>7, <2>1, Failing
  <1>8. QED
    BY <1>3, <1>4, <1>5, <1>6, <1>7 DEF IdleRound

LEMMA StepDispatch == ASSUME IInv, NEW t \in Tasks, Dispatch(t) PROVE IInv'
  <1> USE DEF IInv, at
  <1> DEFINE fresh == IF task[t].left THEN loop.fresh ELSE loop.fresh \cup {t}
  <1>1. /\ loop.pc = "dispatch" /\ t \in loop.todo
        /\ task' = changed(t, "running", "none", FALSE)
        /\ loop' = [loop EXCEPT !.res[t] = "working", !.fresh = fresh]
        /\ UNCHANGED <<tree, grants, node, choice, seed, faults>>
    BY DEF Dispatch
  <1>2. fresh \in SUBSET Tasks
    BY DEF Typed, LoopType
  <1> HIDE DEF fresh
  <1>3. /\ loop' \in LoopType /\ loop'.pc = "dispatch" /\ loop'.todo = loop.todo
    <2>1. [loop.res EXCEPT ![t] = "working"] \in [Tasks -> Results]
      BY DEF Typed, LoopType, Results
    <2>2. QED
      BY <1>1, <1>2, <2>1 DEF Typed, LoopType
  <1>4. ~is(t, "done") /\ \A d \in Deps[t] : is(d, "done")
    BY <1>1 DEF InHand
  <1>5. /\ task' \in [Tasks -> TaskType]
        /\ task'[t].st = "running" /\ task'[t].stop = "none" /\ task'[t].owes = task[t].owes
        /\ \A u \in Tasks : u # t => task'[u] = task[u]
    BY <1>1, Changed DEF Typed, Stati
  <1>6. \A u \in Tasks : is(u, "done")' <=> is(u, "done")
    BY <1>4, <1>5 DEF is
  <1>7. \A u \in Tasks : Deps[u] \subseteq Tasks
    BY LoopAssumption
  <1>8. Typed'
    BY <1>1, <1>3, <1>5 DEF Typed
  <1>9. Shaped'
    BY <1>1, <1>3, <1>5 DEF Shaped, up, is, Stops
  <1>10. InOrder'
    <2>1. \A u \in Tasks : (Landed(u)' <=> Landed(u)) /\ (Behind(u)' <=> Behind(u))
      BY <1>1 DEF Landed, Behind
    <2>2. \A u \in Tasks : is(u, "running")' => \A d \in Deps[u] : is(d, "done")
      BY <1>4, <1>5 DEF is, InOrder
    <2>3. QED
      BY <1>5, <1>6, <1>7, <2>1, <2>2 DEF InOrder
  <1>11. InHand'
    <2>1. \A u \in loop.todo : u \in Tasks
      BY DEF Typed, LoopType
    <2>2. QED
      BY <1>1, <1>3, <1>6, <1>7, <2>1 DEF InHand, Walking, Answering
  <1>12. QED
    BY <1>8, <1>9, <1>10, <1>11

(* A departure is declared by a session, so its task is not done.            *)
LEMMA StepDeclare == ASSUME IInv, NEW t \in Tasks, Declare(t) PROVE IInv'
  <1> USE DEF IInv, at
  <1>1. /\ loop.pc = "dispatch" /\ t \in loop.todo
        /\ task' = [task EXCEPT ![t].owes = TRUE]
        /\ faults' = faults + 1 /\ faults < MaxFaults
        /\ UNCHANGED <<tree, grants, node, choice, seed, loop>>
    BY DEF Declare, working, happens
  <1>2. /\ task' \in [Tasks -> TaskType]
        /\ \A u \in Tasks : task'[u].st = task[u].st /\ task'[u].stop = task[u].stop
        /\ \A u \in Tasks : u # t => task'[u].owes = task[u].owes
    <2>1. [task[t] EXCEPT !.owes = TRUE] \in TaskType
          /\ [task[t] EXCEPT !.owes = TRUE].st = task[t].st
          /\ [task[t] EXCEPT !.owes = TRUE].stop = task[t].stop
      BY DEF Typed, TaskType
    <2> DEFINE r == [task[t] EXCEPT !.owes = TRUE]
    <2>2. task' = [task EXCEPT ![t] = r]
      BY <1>1
    <2> HIDE DEF r
    <2>3. QED
      BY <2>1, <2>2 DEF Typed, r
  <1>3. ~is(t, "done")
    BY <1>1 DEF InHand
  <1>4. \A u \in Tasks : \A st \in Stati : is(u, st)' <=> is(u, st)
    BY <1>2 DEF is
  <1>5. \A u \in Tasks : (Landed(u)' <=> Landed(u)) /\ (Behind(u)' <=> Behind(u))
    BY <1>1 DEF Landed, Behind
  <1>6. \A u \in Tasks : Deps[u] \subseteq Tasks
    BY LoopAssumption
  <1>7. Typed'
    BY <1>1, <1>2, LoopAssumption DEF Typed
  <1>8. Shaped'
    BY <1>1, <1>2, <1>4 DEF Shaped, up, Stati
  <1>9. InOrder'
    BY <1>2, <1>3, <1>4, <1>5, <1>6 DEF InOrder, Stati
  <1>10. InHand'
    <2>1. loop.todo \subseteq Tasks
      BY DEF Typed, LoopType
    <2>2. QED
      BY <1>1, <1>4, <1>6, <2>1 DEF InHand, Walking, Answering, Stati
  <1>11. QED
    BY <1>7, <1>8, <1>9, <1>10

(* What a member's session is granted and comes to touches only its result.  *)
LEMMA StepMember == ASSUME IInv, NEW t \in Tasks, settle(t) \/ EndCycle(t) PROVE IInv'
  <1> USE DEF IInv, at
  <1>1. /\ loop.pc = "dispatch" /\ node.st = "open"
        /\ UNCHANGED <<task, tree, grants, node, choice, seed>>
    BY DEF settle, EndCycle, working, logged, Shaped, up
  <1>2. faults' \in 0..MaxFaults
    BY LoopAssumption DEF settle, EndCycle, happens, Typed
  <1>3. loop' \in LoopType /\ loop'.pc = "dispatch" /\ loop'.todo = loop.todo
    <2>1. CASE settle(t)
      <3> DEFINE got == [loop.got EXCEPT ![t] = @ + 1]
      <3>1. got \in [Tasks -> Nat] /\ loop.window + 1 \in Nat
        BY DEF Typed, LoopType
      <3>2. loop' = [loop EXCEPT !.window = loop.window + 1, !.got = got]
        BY <2>1 DEF settle
      <3> HIDE DEF got
      <3>3. QED
        BY <1>1, <3>1, <3>2 DEF Typed, LoopType
    <2>2. CASE EndCycle(t)
      <3>1. PICK res \in Results : ended(t, res)
        BY <2>2 DEF EndCycle, Results, Stops
      <3>2. [loop.res EXCEPT ![t] = res] \in [Tasks -> Results]
        BY DEF Typed, LoopType
      <3>3. QED
        BY <1>1, <3>1, <3>2 DEF ended, Typed, LoopType
    <2>3. QED
      BY <2>1, <2>2
  <1>4. Typed'
    BY <1>1, <1>2, <1>3 DEF Typed
  <1>5. InHand'
    BY <1>1, <1>3 DEF InHand, Walking, Answering, is
  <1>6. QED
    BY <1>1, <1>4, <1>5, Still

-----------------------------------------------------------------------------
(* The walk over a batch.                                                    *)

LEMMA StepStopWalk == IInv /\ StopWalk => IInv'
  <1> SUFFICES ASSUME IInv, StopWalk PROVE IInv'
    OBVIOUS
  <1>1. UNCHANGED <<task, tree, grants, faults>> /\ (fail("unstopped", {}) \/ pause)
    BY DEF StopWalk
  <1>2. QED
    BY <1>1, Failing, Pausing

(* The member in hand is one of those left.                                  *)
LEMMA InTurn ==
  ASSUME IInv, loop.pc \in Walking, loop.todo # {}
  PROVE  /\ member \in loop.todo /\ member \in Tasks /\ loop.todo \subseteq Tasks
         /\ ~is(member, "done") /\ \A d \in Deps[member] : is(d, "done")
  <1>1. loop.todo \in SUBSET Tasks
    BY DEF IInv, Typed, LoopType
  <1>2. member \in loop.todo
    BY <1>1, LeastTask DEF member
  <1>3. QED
    BY <1>1, <1>2 DEF IInv, InHand

LEMMA StepRecordAttempts == IInv /\ RecordAttempts => IInv'
  <1> SUFFICES ASSUME IInv, RecordAttempts PROVE IInv'
    OBVIOUS
  <1>1. /\ loop.pc = "walk" /\ loop.todo # {} /\ loop.res[member] # "unstopped"
        /\ grants' = grants + loop.got[member] /\ loop' = [loop EXCEPT !.pc = "settle"]
        /\ UNCHANGED <<task, tree, node, choice, seed, faults>> /\ node.st = "open"
    BY DEF RecordAttempts, walking, go, at, IInv, Shaped, up
  <1>2. member \in Tasks
    BY <1>1, InTurn DEF Walking
  <1>3. /\ loop' \in LoopType /\ loop'.pc = "settle" /\ loop'.todo = loop.todo
        /\ loop'.res = loop.res /\ loop'.asking = loop.asking /\ loop'.departs = loop.departs
    BY <1>1 DEF IInv, Typed, LoopType
  <1>4. grants' \in Nat
    <2> HIDE DEF member
    <2>1. grants \in Nat /\ loop.got[member] \in Nat
      BY <1>2 DEF IInv, Typed, LoopType
    <2>2. QED
      BY <1>1, <2>1
  <1>5. Typed'
    BY <1>1, <1>3, <1>4 DEF IInv, Typed
  <1>6. member' = member
    BY <1>3 DEF member
  <1>7. InHand'
    <2> HIDE DEF member
    <2>1. QED
      BY <1>1, <1>3, <1>6 DEF IInv, InHand, at, Walking, Answering, is
  <1>8. QED
    BY <1>1, <1>5, <1>7, Still DEF IInv

(* A member that goes back or is blocked leaves the rest of the walk alone.  *)
LEMMA Onwards ==
  ASSUME IInv, NEW m, m = member, loop.pc \in Walking, loop.todo # {},
         loop' \in LoopType, loop'.pc = "walk", loop'.todo = loop.todo \ {m},
         loop'.res = loop.res,
         loop'.asking \subseteq loop.asking \cup {m},
         loop'.departs \subseteq loop.departs \cup {m},
         \A u \in Tasks : u # m => (is(u, "done")' <=> is(u, "done")),
         is(m, "done")' => loop'.asking = loop.asking /\ loop'.departs = loop.departs
  PROVE  InHand'
  <1>1. \A u \in Tasks : is(u, "done") => is(u, "done")'
    <2>1. ~is(m, "done")
      BY InTurn
    <2>2. QED
      BY <2>1
  <1>2. \A u \in Tasks : Deps[u] \subseteq Tasks
    BY LoopAssumption
  <1>3. m \in loop.todo /\ loop.todo \subseteq Tasks
        /\ loop.asking \subseteq Tasks /\ loop.departs \subseteq Tasks
    BY InTurn DEF IInv, Typed, LoopType
  <1>4. /\ loop.todo \cap (loop.asking \cup loop.departs) = {}
        /\ \A t \in loop.todo : loop.res[t] \notin {"none", "working"}
        /\ \A t \in loop.asking \cup loop.departs : ~is(t, "done")
        /\ \A t \in loop.todo : ~is(t, "done") /\ \A d \in Deps[t] : is(d, "done")
    BY DEF IInv, InHand, Walking, Answering
  <1>5. \A t \in loop'.todo : ~is(t, "done")' /\ \A d \in Deps[t] : is(d, "done")'
    BY <1>1, <1>2, <1>3, <1>4
  <1>6. loop'.todo \cap (loop'.asking \cup loop'.departs) = {}
    BY <1>4
  <1>7. ASSUME NEW t \in loop'.asking \cup loop'.departs PROVE ~is(t, "done")'
    <2>1. CASE t \in loop.asking \cup loop.departs
      <3>1. t \in Tasks /\ t # m /\ ~is(t, "done")
        BY <1>3, <1>4, <2>1
      <3>2. QED
        BY <3>1
    <2>2. CASE t \notin loop.asking \cup loop.departs
      <3>1. t = m /\ ~(loop'.asking = loop.asking /\ loop'.departs = loop.departs)
        BY <2>2
      <3>2. QED
        BY <3>1
    <2>3. QED
      BY <2>1, <2>2
  <1>8. QED
    BY <1>4, <1>5, <1>6, <1>7 DEF InHand, at, Walking, Answering

LEMMA StepSettleBlocked == IInv /\ SettleBlocked => IInv'
  <1> SUFFICES ASSUME IInv, SettleBlocked PROVE IInv'
    OBVIOUS
  <1> DEFINE t     == member
             cause == IF owed_first(t) THEN "departs" ELSE loop.res[t]
             asking == IF cause = "scope" THEN loop.asking \cup {t} ELSE loop.asking
             departs == IF cause = "departs" THEN loop.departs \cup {t} ELSE loop.departs
  <1>1. PICK left \in BOOLEAN : task' = changed(t, "blocked", cause, left)
    BY DEF SettleBlocked
  <1>2. /\ loop.pc = "settle" /\ cause \notin {"done", "cut"}
        /\ loop' = [loop EXCEPT !.pc = "walk", !.todo = @ \ {t}, !.asking = asking,
                                !.departs = departs]
        /\ UNCHANGED <<tree, grants, node, choice, seed, faults>>
    BY DEF SettleBlocked, next_member, at
  <1>3. node.st = "open" /\ loop.todo # {} /\ loop.res[member] # "unstopped"
    BY <1>2 DEF IInv, Shaped, InHand, up, at
  <1>4. member \in loop.todo /\ member \in Tasks /\ ~is(member, "done")
    BY <1>2, <1>3, InTurn DEF Walking
  <1> HIDE DEF member
  <1>5. cause \in Stops
    <2>1. loop.res[member] \in Results /\ loop.res[member] \notin {"none", "working"}
      BY <1>2, <1>4 DEF IInv, Typed, LoopType, InHand, Walking
    <2>2. QED
      BY <1>2, <1>3, <2>1 DEF Results, Stops
  <1>6. asking \in SUBSET Tasks /\ departs \in SUBSET Tasks
        /\ asking \subseteq loop.asking \cup {member} /\ departs \subseteq loop.departs \cup {member}
    BY <1>4 DEF IInv, Typed, LoopType
  <1> HIDE DEF cause, asking, departs
  <1>7. /\ loop' \in LoopType /\ loop'.pc = "walk" /\ loop'.todo = loop.todo \ {member}
        /\ loop'.res = loop.res /\ loop'.asking = asking /\ loop'.departs = departs
    BY <1>2, <1>6 DEF IInv, Typed, LoopType
  <1>8. /\ task' \in [Tasks -> TaskType] /\ InOrder'
        /\ \A u \in Tasks : task'[u].stop \in Stops <=> is(u, "blocked")'
        /\ \A u \in Tasks : is(u, "done")' <=> is(u, "done")
    BY <1>1, <1>2, <1>4, <1>5, Back DEF IInv
  <1>9. Typed'
    BY <1>2, <1>7, <1>8 DEF IInv, Typed
  <1>10. Shaped'
    BY <1>2, <1>3, <1>8 DEF IInv, Shaped
  <1>11. InHand'
    <2>1. PICK m \in Tasks : m = member
      BY <1>4
    <2>2. loop.pc \in Walking /\ ~is(m, "done")'
      BY <1>2, <1>4, <1>8, <2>1 DEF Walking
    <2>3. QED
      BY <1>3, <1>6, <1>7, <1>8, <2>1, <2>2, Onwards
  <1>12. QED
    BY <1>8, <1>9, <1>10, <1>11 DEF IInv

LEMMA StepReject == IInv /\ Reject => IInv'
  <1> SUFFICES ASSUME IInv, Reject PROVE IInv'
    OBVIOUS
  <1>1. /\ loop.pc = "settle"
        /\ loop' = [loop EXCEPT !.pc = "walk", !.todo = @ \ {member}]
        /\ task' = changed(member, "pending", "none", FALSE)
        /\ faults' = faults + 1 /\ faults < MaxFaults
        /\ UNCHANGED <<tree, grants, node, choice, seed>>
    BY DEF Reject, next_member, at, happens
  <1>2. node.st = "open" /\ loop.todo # {}
    BY <1>1 DEF IInv, Shaped, InHand, up, at
  <1>3. member \in loop.todo /\ member \in Tasks /\ ~is(member, "done")
    BY <1>1, <1>2, InTurn DEF Walking
  <1> HIDE DEF member
  <1>4. /\ loop' \in LoopType /\ loop'.pc = "walk" /\ loop'.todo = loop.todo \ {member}
        /\ loop'.res = loop.res /\ loop'.asking = loop.asking /\ loop'.departs = loop.departs
    BY <1>1 DEF IInv, Typed, LoopType
  <1>5. /\ task' \in [Tasks -> TaskType] /\ InOrder'
        /\ \A u \in Tasks : task'[u].stop \in Stops <=> is(u, "blocked")'
        /\ \A u \in Tasks : is(u, "done")' <=> is(u, "done")
    BY <1>1, <1>3, Back DEF IInv, Stops
  <1>6. Typed'
    <2>1. faults' \in 0..MaxFaults
      BY <1>1, LoopAssumption DEF IInv, Typed
    <2>2. QED
      BY <1>1, <1>4, <1>5, <2>1 DEF IInv, Typed
  <1>7. Shaped'
    BY <1>1, <1>2, <1>5 DEF IInv, Shaped
  <1>8. InHand'
    BY <1>1, <1>2, <1>3, <1>4, <1>5, Onwards DEF Walking
  <1>9. QED
    BY <1>5, <1>6, <1>7, <1>8 DEF IInv

LEMMA StepJudgeRebased == IInv /\ JudgeRebased => IInv'
  <1> SUFFICES ASSUME IInv, JudgeRebased PROVE IInv'
    OBVIOUS
  <1>1. /\ loop.pc = "settle" /\ loop.res[member] = "done" /\ ~owed_first(member)
        /\ loop' = [loop EXCEPT !.pc = "land", !.onto = Len(tree)]
        /\ UNCHANGED <<task, tree, grants, node, choice, seed, faults>>
    BY DEF JudgeRebased, logged, at
  <1>2. node.st = "open" /\ loop.todo # {}
    BY <1>1 DEF IInv, Shaped, InHand, up, at
  <1>3. ~task[member].owes
    <2>1. task[member].owes \in BOOLEAN
      BY <1>1, <1>2, InTurn DEF IInv, Typed, TaskType, Walking
    <2>2. QED
      BY <1>1 DEF owed_first
  <1>4. Len(tree) \in Nat
    BY DEF IInv, Typed
  <1>5. /\ loop' \in LoopType /\ loop'.pc = "land" /\ loop'.todo = loop.todo
        /\ loop'.res = loop.res /\ loop'.asking = loop.asking /\ loop'.departs = loop.departs
    BY <1>1, <1>4 DEF IInv, Typed, LoopType
  <1>6. member' = member
    BY <1>5 DEF member
  <1>7. Typed'
    BY <1>1, <1>5 DEF IInv, Typed
  <1>8. InHand'
    <2> HIDE DEF member
    <2>1. QED
      BY <1>1, <1>3, <1>5, <1>6 DEF IInv, InHand, at, Walking, Answering, is
  <1>9. QED
    BY <1>1, <1>2, <1>7, <1>8, Still DEF IInv

(* Work that lands has behind it what it depends on: those tasks are done,   *)
(* so they landed.                                                           *)
LEMMA Appending ==
  ASSUME IInv, NEW t \in Tasks \cup {0}, ~Landed(t),
         t \in Tasks => \A d \in Deps[t] : is(d, "done"),
         tree' = Append(tree, t), task' = task
  PROVE  /\ tree' \in Seq(Tasks \cup {0}) /\ IsInjective(tree') /\ InOrder'
         /\ Landed(t)' /\ \A u \in Tasks : Landed(u) => Landed(u)'
  <1> USE DEF IInv
  <1>1. tree \in Seq(Tasks \cup {0}) /\ IsInjective(tree)
    BY DEF Typed, Shaped
  <1>2. /\ tree' \in Seq(Tasks \cup {0}) /\ Len(tree') = Len(tree) + 1
        /\ DOMAIN tree = 1..Len(tree) /\ DOMAIN tree' = 1..(Len(tree) + 1)
        /\ \A i \in 1..Len(tree) : tree'[i] = tree[i]
        /\ tree'[Len(tree) + 1] = t /\ Len(tree) \in Nat
    BY <1>1
  <1>3. \A i \in 1..Len(tree) : tree[i] # t
    BY <1>2 DEF Landed, Range
  <1>4. IsInjective(tree')
    BY <1>1, <1>2, <1>3 DEF IsInjective
  <1>5. Landed(t)'
    BY <1>2 DEF Landed, Range
  <1>6. ASSUME NEW u \in Tasks, Landed(u) PROVE Landed(u)'
    <2>1. PICK i \in 1..Len(tree) : tree[i] = u
      BY <1>2, <1>6 DEF Landed, Range
    <2>2. i \in DOMAIN tree' /\ tree'[i] = u
      BY <1>2, <2>1
    <2>3. QED
      BY <2>2 DEF Landed, Range
  <1>7. ASSUME NEW u \in Tasks, Landed(u)' PROVE Behind(u)'
    <2>1. CASE Landed(u)
      <3>1. PICK i \in DOMAIN tree : tree[i] = u /\ \A d \in Deps[u] : \E j \in 1..i : tree[j] = d
        BY <2>1 DEF InOrder, Behind
      <3>2. i \in DOMAIN tree' /\ tree'[i] = u
        BY <1>2, <3>1
      <3>3. \A d \in Deps[u] : \E j \in 1..i : tree'[j] = d
        BY <1>2, <3>1
      <3>4. QED
        BY <3>2, <3>3 DEF Behind
    <2>2. CASE ~Landed(u)
      <3>1. u = t
        BY <1>2, <1>7, <2>2 DEF Landed, Range
      <3>2. ASSUME NEW d \in Deps[u] PROVE \E j \in 1..(Len(tree) + 1) : tree'[j] = d
        <4>1. d \in Tasks /\ is(d, "done")
          BY <3>1, LoopAssumption
        <4>2. PICK j \in 1..Len(tree) : tree[j] = d
          BY <1>2, <4>1 DEF InOrder, Landed, Range
        <4>3. j \in 1..(Len(tree) + 1) /\ tree'[j] = d
          BY <1>2, <4>2
        <4>4. QED
          BY <4>3
      <3>3. Len(tree) + 1 \in DOMAIN tree' /\ tree'[Len(tree) + 1] = u
        BY <1>2, <3>1
      <3>4. QED
        BY <3>2, <3>3 DEF Behind
    <2>3. QED
      BY <2>1, <2>2
  <1>8. InOrder'
    BY <1>6, <1>7 DEF InOrder, is
  <1>9. QED
    BY <1>2, <1>4, <1>5, <1>6, <1>8

LEMMA StepLand == IInv /\ Land => IInv'
  <1> SUFFICES ASSUME IInv, Land PROVE IInv'
    OBVIOUS
  <1>1. /\ loop.pc = "land" /\ UNCHANGED <<task, grants, node, choice, seed, faults>>
    BY DEF Land, at
  <1>2. /\ node.st = "open" /\ loop.todo # {} /\ ~task[member].owes
        /\ loop.res[member] # "unstopped"
    BY <1>1 DEF IInv, Shaped, InHand, up, at
  <1>3. member \in Tasks /\ \A d \in Deps[member] : is(d, "done")
    BY <1>1, <1>2, InTurn DEF Walking
  <1>4. CASE loop' = Gone /\ UNCHANGED tree
    <2>1. InHand' /\ ~up' /\ loop' \in LoopType
      BY <1>4, GoneHolds
    <2>2. Typed'
      BY <1>1, <1>4, <2>1 DEF IInv, Typed
    <2>3. QED
      BY <1>1, <1>4, <2>1, <2>2, Still DEF IInv
  <1>5. CASE /\ tree' = IF Landed(member) THEN tree ELSE Append(tree, member)
             /\ loop' = [loop EXCEPT !.pc = "landed"]
    <2>1. /\ loop' \in LoopType /\ loop'.pc = "landed" /\ loop'.todo = loop.todo
          /\ loop'.res = loop.res /\ loop'.asking = loop.asking /\ loop'.departs = loop.departs
      BY <1>5 DEF IInv, Typed, LoopType
    <2>2. member' = member
      BY <2>1 DEF member
    <2> HIDE DEF member
    <2>3. PICK m \in Tasks : m = member
      BY <1>3
    <2>4. tree' \in Seq(Tasks \cup {0}) /\ IsInjective(tree') /\ InOrder' /\ Landed(m)'
      <3>1. CASE Landed(m)
        <4>1. tree' = tree
          BY <1>5, <2>3, <3>1
        <4>2. Landed(m)'
          BY <3>1, <4>1 DEF Landed
        <4>3. InOrder'
          BY <1>1, <4>1 DEF IInv, InOrder, Landed, Behind, is
        <4>4. QED
          BY <4>1, <4>2, <4>3 DEF IInv, Typed, Shaped
      <3>2. CASE ~Landed(m)
        <4>1. tree' = Append(tree, m)
          BY <1>5, <2>3, <3>2
        <4>2. QED
          BY <1>1, <1>3, <2>3, <3>2, <4>1, Appending
      <3>3. QED
        BY <3>1, <3>2
    <2>5. Landed(member)'
      BY <2>2, <2>3, <2>4 DEF Landed
    <2>6. Typed'
      BY <1>1, <2>1, <2>4 DEF IInv, Typed
    <2>7. Shaped'
      BY <1>1, <1>2, <2>4 DEF IInv, Shaped, is
    <2>8. InHand'
      BY <1>1, <1>2, <2>1, <2>2, <2>5 DEF IInv, InHand, at, Walking, Answering, is
    <2>9. QED
      BY <2>4, <2>6, <2>7, <2>8 DEF IInv
  <1>6. QED
    BY <1>4, <1>5 DEF Land, go

LEMMA StepRecordDone == IInv /\ RecordDone => IInv'
  <1> SUFFICES ASSUME IInv, RecordDone PROVE IInv'
    OBVIOUS
  <1>1. /\ loop.pc = "landed" /\ task' = changed(member, "done", "none", FALSE)
        /\ loop' = [loop EXCEPT !.pc = "walk", !.todo = @ \ {member}]
        /\ UNCHANGED <<tree, grants, node, choice, seed, faults>>
    BY DEF RecordDone, next_member, at
  <1>2. node.st = "open" /\ loop.todo # {} /\ Landed(member) /\ ~task[member].owes
    BY <1>1 DEF IInv, Shaped, InHand, up, at
  <1>3. member \in loop.todo /\ member \in Tasks /\ ~is(member, "done")
    BY <1>1, <1>2, InTurn DEF Walking
  <1> HIDE DEF member
  <1>4. /\ loop' \in LoopType /\ loop'.pc = "walk" /\ loop'.todo = loop.todo \ {member}
        /\ loop'.res = loop.res /\ loop'.asking = loop.asking /\ loop'.departs = loop.departs
    BY <1>1 DEF IInv, Typed, LoopType
  <1>5. PICK m \in Tasks : m = member
    BY <1>3
  <1>6. /\ task' \in [Tasks -> TaskType]
        /\ task'[m].st = "done" /\ task'[m].stop = "none" /\ task'[m].owes = task[m].owes
        /\ \A u \in Tasks : u # m => task'[u] = task[u]
    BY <1>1, <1>5, Changed DEF IInv, Typed, Stati
  <1>7. \A u \in Tasks : is(u, "done") => is(u, "done")'
    BY <1>6 DEF is
  <1>8. \A u \in Tasks : Deps[u] \subseteq Tasks
    BY LoopAssumption
  <1>9. Typed'
    BY <1>1, <1>4, <1>6 DEF IInv, Typed
  <1>10. Shaped'
    BY <1>1, <1>2, <1>6 DEF IInv, Shaped, is, Stops
  <1>11. InOrder'
    <2>1. \A u \in Tasks : (Landed(u)' <=> Landed(u)) /\ (Behind(u)' <=> Behind(u))
      BY <1>1 DEF Landed, Behind
    <2>2. \A u \in Tasks : is(u, "done")' => Landed(u)' /\ ~task'[u].owes
      BY <1>2, <1>5, <1>6, <2>1 DEF IInv, InOrder, is
    <2>3. \A u \in Tasks : is(u, "running")' => is(u, "running")
      BY <1>6 DEF is
    <2>4. QED
      BY <1>7, <1>8, <2>1, <2>2, <2>3 DEF IInv, InOrder
  <1>12. InHand'
    <2>1. \A u \in Tasks : u # m => (is(u, "done")' <=> is(u, "done"))
      BY <1>6 DEF is
    <2>2. loop.pc \in Walking
      BY <1>1 DEF Walking
    <2>3. QED
      BY <1>2, <1>4, <1>5, <2>1, <2>2, Onwards
  <1>13. QED
    BY <1>9, <1>10, <1>11, <1>12 DEF IInv

-----------------------------------------------------------------------------
(* What a batch owes a person.                                               *)

LEMMA StepAskScope == IInv /\ AskScope => IInv'
  <1> SUFFICES ASSUME IInv, AskScope PROVE IInv'
    OBVIOUS
  <1> DEFINE t == least(loop.asking)
  <1>1. /\ loop.pc = "ask" /\ loop.asking # {} /\ node.st = "open"
        /\ UNCHANGED <<task, tree, grants, node, choice, faults>>
    BY DEF AskScope, at, IInv, Shaped, up
  <1>2. t \in loop.asking /\ t \in Tasks
    BY <1>1, LeastTask DEF IInv, Typed, LoopType
  <1>3. \/ loop' = [loop EXCEPT !.pc = "asked"] /\ seed' = [opt |-> "other", about |-> {t}]
        \/ /\ loop' = [loop EXCEPT !.asking = @ \ {t}, !.owed = @ \cup {t}]
           /\ UNCHANGED seed
    BY DEF AskScope, go
  <1> HIDE DEF t
  <1>4. /\ loop' \in LoopType /\ seed' \in SeedType /\ loop'.pc \in {"ask", "asked"}
        /\ loop'.asking \subseteq loop.asking /\ loop'.departs = loop.departs
        /\ loop'.pc = "asked" => loop'.asking = loop.asking
    <2>1. CASE loop' = [loop EXCEPT !.pc = "asked"] /\ seed' = [opt |-> "other", about |-> {t}]
      <3>1. /\ loop' \in LoopType /\ loop'.pc = "asked"
            /\ loop'.asking = loop.asking /\ loop'.departs = loop.departs
        BY <2>1 DEF IInv, Typed, LoopType
      <3>2. seed' \in SeedType
        BY <1>2, <2>1 DEF SeedType
      <3>3. QED
        BY <3>1, <3>2
    <2>2. CASE /\ loop' = [loop EXCEPT !.asking = @ \ {t}, !.owed = @ \cup {t}]
               /\ UNCHANGED seed
      <3>1. /\ loop' \in LoopType /\ loop'.pc = "ask"
            /\ loop'.asking = loop.asking \ {t} /\ loop'.departs = loop.departs
        BY <1>1, <1>2, <2>2 DEF IInv, Typed, LoopType
      <3>2. seed' \in SeedType
        BY <2>2 DEF IInv, Typed
      <3>3. QED
        BY <3>1, <3>2
    <2>3. QED
      BY <1>3, <2>1, <2>2
  <1>5. Typed'
    BY <1>1, <1>4 DEF IInv, Typed
  <1>6. InHand'
    BY <1>1, <1>4 DEF IInv, InHand, at, Walking, Answering, is
  <1>7. QED
    BY <1>1, <1>5, <1>6, Still DEF IInv

LEMMA StepReopenAsked == IInv /\ ReopenAsked => IInv'
  <1> SUFFICES ASSUME IInv, ReopenAsked PROVE IInv'
    OBVIOUS
  <1> DEFINE t == least(loop.asking)
             left == task[t].left
  <1>1. /\ loop.pc = "asked" /\ loop.asking # {} /\ node.st = "open"
        /\ task' = changed(t, "pending", "none", left)
        /\ loop' = [loop EXCEPT !.pc = "ask", !.asking = @ \ {t}]
        /\ UNCHANGED <<tree, grants, node, choice, seed, faults>>
    BY DEF ReopenAsked, at, IInv, Shaped, InHand, up
  <1>2. t \in loop.asking /\ t \in Tasks
    BY <1>1, LeastTask DEF IInv, Typed, LoopType
  <1>3. ~is(t, "done") /\ left \in BOOLEAN
    BY <1>1, <1>2 DEF IInv, InHand, Typed, TaskType
  <1> HIDE DEF t, left
  <1>4. /\ loop' \in LoopType /\ loop'.pc = "ask" /\ loop'.asking \subseteq loop.asking
        /\ loop'.departs = loop.departs
    BY <1>1 DEF IInv, Typed, LoopType
  <1>5. /\ task' \in [Tasks -> TaskType] /\ InOrder'
        /\ \A u \in Tasks : task'[u].stop \in Stops <=> is(u, "blocked")'
        /\ \A u \in Tasks : is(u, "done")' <=> is(u, "done")
    BY <1>1, <1>2, <1>3, Back DEF IInv, Stops
  <1>6. Typed'
    BY <1>1, <1>4, <1>5 DEF IInv, Typed
  <1>7. Shaped'
    BY <1>1, <1>5 DEF IInv, Shaped
  <1>8. InHand'
    <2>1. loop.asking \subseteq Tasks /\ loop.departs \subseteq Tasks
      BY DEF IInv, Typed, LoopType
    <2>2. QED
      BY <1>1, <1>4, <1>5, <2>1 DEF IInv, InHand, at, Walking, Answering
  <1>9. QED
    BY <1>5, <1>6, <1>7, <1>8 DEF IInv

LEMMA StepAskDeparture == IInv /\ AskDeparture => IInv'
  <1> SUFFICES ASSUME IInv, AskDeparture PROVE IInv'
    OBVIOUS
  <1> DEFINE t == least(loop.departs)
  <1>1. /\ loop.pc = "depart" /\ loop.departs # {} /\ node.st = "open"
        /\ UNCHANGED <<task, tree, grants, faults>>
    BY DEF AskDeparture, departing, at, IInv, Shaped, up
  <1>2. t \in loop.departs /\ t \in Tasks
    BY <1>1, LeastTask DEF IInv, Typed, LoopType
  <1>3. CASE pause
    BY <1>1, <1>3, Pausing
  <1>4. CASE /\ UNCHANGED <<node, choice>> /\ seed' \in SeedType
             /\ \/ loop' = [loop EXCEPT !.pc = "resolve"]
                \/ loop' = [loop EXCEPT !.departs = @ \ {t}, !.unanswered = @ \cup {t}]
    <2> HIDE DEF t
    <2>1. /\ loop' \in LoopType /\ loop'.pc \in {"depart", "resolve"}
          /\ loop'.departs \subseteq loop.departs
          /\ loop'.pc = "resolve" => loop'.departs = loop.departs
      <3>1. CASE loop' = [loop EXCEPT !.pc = "resolve"]
        <4>1. loop' \in LoopType /\ loop'.pc = "resolve" /\ loop'.departs = loop.departs
          BY <3>1 DEF IInv, Typed, LoopType
        <4>2. QED
          BY <4>1
      <3>2. CASE loop' = [loop EXCEPT !.departs = @ \ {t}, !.unanswered = @ \cup {t}]
        <4>1. /\ loop' \in LoopType /\ loop'.pc = "depart"
              /\ loop'.departs = loop.departs \ {t}
          BY <1>1, <1>2, <3>2 DEF IInv, Typed, LoopType
        <4>2. QED
          BY <4>1
      <3>3. QED
        BY <1>4, <3>1, <3>2
    <2>2. Typed'
      BY <1>1, <1>4, <2>1 DEF IInv, Typed
    <2>3. InHand'
      BY <1>1, <2>1 DEF IInv, InHand, at, Walking, Answering, is
    <2>4. QED
      BY <1>1, <1>4, <2>2, <2>3, Still DEF IInv
  <1>5. pause \/ /\ UNCHANGED <<node, choice>> /\ seed' \in SeedType
                 /\ \/ loop' = [loop EXCEPT !.pc = "resolve"]
                    \/ loop' = [loop EXCEPT !.departs = @ \ {t}, !.unanswered = @ \cup {t}]
    <2>1. seed \in SeedType
      BY DEF IInv, Typed
    <2>2. \A opt \in {"accept", "send_back"} : [opt |-> opt, about |-> {t}] \in SeedType
      BY <1>2 DEF SeedType
    <2> HIDE DEF t
    <2>3. QED
      BY <2>1, <2>2 DEF AskDeparture, go, t
  <1>6. QED
    BY <1>3, <1>4, <1>5

LEMMA StepResolveDeparture == IInv /\ ResolveDeparture => IInv'
  <1> SUFFICES ASSUME IInv, ResolveDeparture PROVE IInv'
    OBVIOUS
  <1> DEFINE t == least(loop.departs)
             r == [task[t] EXCEPT !.owes = FALSE]
  <1>1. /\ loop.pc = "resolve" /\ loop.departs # {} /\ node.st = "open"
        /\ task' = [task EXCEPT ![t] = r]
        /\ seed' = [seed EXCEPT !.about = @ \ {t}]
        /\ loop' = [loop EXCEPT !.pc = "resolved"]
        /\ UNCHANGED <<tree, grants, node, choice, faults>>
    BY DEF ResolveDeparture, go, at, IInv, Shaped, InHand, up
  <1>2. t \in loop.departs /\ t \in Tasks
    BY <1>1, LeastTask DEF IInv, Typed, LoopType
  <1>3. r \in TaskType /\ r.st = task[t].st /\ r.stop = task[t].stop /\ r.owes = FALSE
    <2>1. task[t] \in TaskType
      BY <1>2 DEF IInv, Typed
    <2> HIDE DEF t
    <2>2. QED
      BY <2>1 DEF TaskType
  <1> HIDE DEF t, r
  <1>4. /\ loop' \in LoopType /\ loop'.pc = "resolved" /\ loop'.departs = loop.departs
        /\ seed' \in SeedType
    BY <1>1 DEF IInv, Typed, LoopType, SeedType
  <1>5. PICK m \in Tasks : m = t
    BY <1>2
  <1>6. /\ task' \in [Tasks -> TaskType]
        /\ \A u \in Tasks : task'[u].st = task[u].st /\ task'[u].stop = task[u].stop
        /\ \A u \in Tasks : task'[u].owes => task[u].owes
    <2>1. task \in [Tasks -> TaskType] /\ task' = [task EXCEPT ![m] = r] /\ r = task'[m]
      BY <1>1, <1>5 DEF IInv, Typed
    <2>2. \A u \in Tasks : u # m => task'[u] = task[u]
      BY <2>1
    <2>3. task'[m].st = task[m].st /\ task'[m].stop = task[m].stop /\ ~task'[m].owes
      BY <1>3, <1>5, <2>1
    <2>4. QED
      BY <1>3, <2>1, <2>2, <2>3
  <1>7. \A u \in Tasks : \A st \in Stati : is(u, st)' <=> is(u, st)
    BY <1>6 DEF is
  <1>8. \A u \in Tasks : (Landed(u)' <=> Landed(u)) /\ (Behind(u)' <=> Behind(u))
    BY <1>1 DEF Landed, Behind
  <1>9. \A u \in Tasks : Deps[u] \subseteq Tasks
    BY LoopAssumption
  <1>10. Typed'
    BY <1>1, <1>4, <1>6 DEF IInv, Typed
  <1>11. Shaped'
    BY <1>1, <1>6, <1>7 DEF IInv, Shaped, Stati
  <1>12. InOrder'
    BY <1>6, <1>7, <1>8, <1>9 DEF IInv, InOrder, Stati
  <1>13. InHand'
    <2>1. loop.departs \subseteq Tasks
      BY DEF IInv, Typed, LoopType
    <2>2. QED
      BY <1>1, <1>4, <1>7, <2>1 DEF IInv, InHand, at, Walking, Answering, Stati
  <1>14. QED
    BY <1>10, <1>11, <1>12, <1>13 DEF IInv

LEMMA StepReopenDeparted == IInv /\ ReopenDeparted => IInv'
  <1> SUFFICES ASSUME IInv, ReopenDeparted PROVE IInv'
    OBVIOUS
  <1> DEFINE t == least(loop.departs)
             left == task[t].left
  <1>1. /\ loop.pc = "resolved" /\ loop.departs # {} /\ node.st = "open"
        /\ task' = changed(t, "pending", "none", left)
        /\ loop' = [loop EXCEPT !.pc = "depart", !.departs = @ \ {t}]
        /\ UNCHANGED <<tree, grants, node, choice, seed, faults>>
    BY DEF ReopenDeparted, at, IInv, Shaped, InHand, up
  <1>2. t \in loop.departs /\ t \in Tasks
    BY <1>1, LeastTask DEF IInv, Typed, LoopType
  <1>3. ~is(t, "done") /\ left \in BOOLEAN
    BY <1>1, <1>2 DEF IInv, InHand, Typed, TaskType, Answering
  <1> HIDE DEF t, left
  <1>4. loop' \in LoopType /\ loop'.pc = "depart" /\ loop'.departs \subseteq loop.departs
    BY <1>1 DEF IInv, Typed, LoopType
  <1>5. /\ task' \in [Tasks -> TaskType] /\ InOrder'
        /\ \A u \in Tasks : task'[u].stop \in Stops <=> is(u, "blocked")'
        /\ \A u \in Tasks : is(u, "done")' <=> is(u, "done")
    BY <1>1, <1>2, <1>3, Back DEF IInv, Stops
  <1>6. Typed'
    BY <1>1, <1>4, <1>5 DEF IInv, Typed
  <1>7. Shaped'
    BY <1>1, <1>5 DEF IInv, Shaped
  <1>8. InHand'
    <2>1. loop.departs \subseteq Tasks
      BY DEF IInv, Typed, LoopType
    <2>2. QED
      BY <1>1, <1>4, <1>5, <2>1 DEF IInv, InHand, at, Walking, Answering
  <1>9. QED
    BY <1>5, <1>6, <1>7, <1>8 DEF IInv

LEMMA StepEndDepartures == IInv /\ EndDepartures => IInv'
  <1> SUFFICES ASSUME IInv, EndDepartures PROVE IInv'
    OBVIOUS
  <1>1. /\ loop.pc = "depart" /\ node.st = "open" /\ UNCHANGED <<task, tree, grants, faults>>
    BY DEF EndDepartures, at, IInv, Shaped, up
  <1>2. CASE owing = {}
    <2>1. loop' = [loop EXCEPT !.pc = "round"] /\ UNCHANGED <<node, choice, seed>>
      BY <1>2 DEF EndDepartures, go
    <2>2. loop' \in LoopType /\ loop'.pc = "round"
      BY <2>1 DEF IInv, Typed, LoopType
    <2>3. Typed'
      BY <1>1, <2>1, <2>2 DEF IInv, Typed
    <2>4. InHand'
      BY <2>2 DEF InHand, at, Walking, Answering
    <2>5. QED
      BY <1>1, <2>1, <2>3, <2>4, Still DEF IInv
  <1>3. CASE owing # {}
    <2>1. owing \in SUBSET Tasks
      BY DEF owing, IInv, Typed, LoopType
    <2>2. fail("stopped", owing)
      BY <1>3 DEF EndDepartures
    <2>3. QED
      BY <1>1, <2>1, <2>2, Failing
  <1>4. QED
    BY <1>2, <1>3

-----------------------------------------------------------------------------
(* What the loop does not choose.                                            *)

LEMMA StepDecide == IInv /\ Decide => IInv'
  <1> SUFFICES ASSUME IInv, Decide PROVE IInv'
    OBVIOUS
  <1>1. UNCHANGED <<task, tree, grants, node, loop, faults>> /\ loop.pc = "down"
    BY DEF Decide, up, at
  <1>2. PICK opt \in remedies :
          /\ choice' = [NoChoice EXCEPT !.opt = opt]
          /\ seed' = IF opt \in {"accept", "send_back"}
                     THEN [opt |-> opt, about |-> listed("departs")]
                     ELSE [opt |-> "other", about |-> {}]
    BY DEF Decide
  <1>3. opt \in {"retry", "continue_work", "grant", "deny", "accept", "send_back"}
    BY <1>2 DEF remedies
  <1>4. choice' \in ChoiceType
    BY <1>2, <1>3 DEF NoChoice, ChoiceType
  <1>5. seed' \in SeedType
    <2>1. listed("departs") \in SUBSET Tasks
      BY DEF listed, on, stops
    <2>2. CASE opt \in {"accept", "send_back"}
      BY <1>2, <2>1, <2>2 DEF SeedType
    <2>3. CASE opt \notin {"accept", "send_back"}
      BY <1>2, <2>3 DEF SeedType
    <2>4. QED
      BY <2>2, <2>3
  <1>6. Typed'
    BY <1>1, <1>4, <1>5 DEF IInv, Typed
  <1>7. InHand'
    BY <1>1 DEF InHand, at, Walking, Answering
  <1>8. up' => node'.st = "open"
    BY <1>1 DEF up, at
  <1>9. QED
    BY <1>1, <1>6, <1>7, <1>8, Still DEF IInv

LEMMA StepStart == IInv /\ Start => IInv'
  <1> SUFFICES ASSUME IInv, Start PROVE IInv'
    OBVIOUS
  <1> DEFINE waited == node.waited /\ node.st = "open"
  <1>1. /\ UNCHANGED <<task, tree, grants, choice, seed, faults>>
        /\ node' = [node EXCEPT !.st = "open", !.waited = waited]
        /\ loop' = [Gone EXCEPT !.pc = "retry"]
    BY DEF Start
  <1>2. waited \in BOOLEAN
    OBVIOUS
  <1> HIDE DEF waited
  <1>3. node' \in NodeType /\ node'.st = "open"
    BY <1>1, <1>2 DEF IInv, Typed, NodeType
  <1>4. loop' \in LoopType /\ loop'.pc = "retry"
    <2>1. Gone \in LoopType
      BY DEF Gone, LoopType, Results
    <2> HIDE DEF Gone
    <2>2. QED
      BY <1>1, <2>1 DEF LoopType
  <1>5. Typed'
    BY <1>1, <1>3, <1>4 DEF IInv, Typed
  <1>6. InHand'
    BY <1>4 DEF InHand, at, Walking, Answering
  <1>7. QED
    BY <1>1, <1>3, <1>5, <1>6, Still DEF IInv

LEMMA StepCancel == IInv /\ Cancel => IInv'
  <1> SUFFICES ASSUME IInv, Cancel PROVE IInv'
    OBVIOUS
  <1>1. /\ loop.pc = "dispatch" /\ loop' = [loop EXCEPT !.cancelled = TRUE]
        /\ UNCHANGED <<task, tree, grants, node, choice, seed>> /\ node.st = "open"
    BY DEF Cancel, logged, at, IInv, Shaped, up
  <1>2. faults' \in 0..MaxFaults
    BY LoopAssumption DEF Cancel, happens, IInv, Typed
  <1>3. loop' \in LoopType /\ loop'.pc = "dispatch" /\ loop'.todo = loop.todo
    BY <1>1 DEF IInv, Typed, LoopType
  <1>4. Typed'
    BY <1>1, <1>2, <1>3 DEF IInv, Typed
  <1>5. InHand'
    BY <1>1, <1>3 DEF IInv, InHand, at, Walking, Answering, is
  <1>6. QED
    BY <1>1, <1>4, <1>5, Still DEF IInv

LEMMA StepCrash == IInv /\ Crash => IInv'
  <1> SUFFICES ASSUME IInv, Crash PROVE IInv'
    OBVIOUS
  <1>1. loop' = Gone /\ UNCHANGED <<task, tree, grants, node, choice, seed>>
    BY DEF Crash, logged
  <1>2. faults' \in 0..MaxFaults
    BY LoopAssumption DEF Crash, happens, IInv, Typed
  <1>3. InHand' /\ ~up' /\ loop' \in LoopType
    BY <1>1, GoneHolds
  <1>4. Typed'
    BY <1>1, <1>2, <1>3 DEF IInv, Typed
  <1>5. QED
    BY <1>1, <1>3, <1>4, Still DEF IInv

LEMMA StepOtherLands == IInv /\ OtherLands => IInv'
  <1> SUFFICES ASSUME IInv, OtherLands PROVE IInv'
    OBVIOUS
  <1>1. /\ tree' = Append(tree, 0) /\ ~Landed(0)
        /\ UNCHANGED <<task, grants, node, choice, seed, loop>>
    BY DEF OtherLands
  <1>2. 0 \notin Tasks
    BY DEF Tasks
  <1>3. /\ tree' \in Seq(Tasks \cup {0}) /\ IsInjective(tree') /\ InOrder'
        /\ \A u \in Tasks : Landed(u) => Landed(u)'
    BY <1>1, <1>2, Appending
  <1>4. faults' \in 0..MaxFaults
    BY LoopAssumption DEF OtherLands, happens, IInv, Typed
  <1>5. Typed'
    BY <1>1, <1>3, <1>4 DEF IInv, Typed
  <1>6. Shaped'
    BY <1>1, <1>3 DEF IInv, Shaped, is, up, at
  <1>7. InHand'
    <2>1. member' = member
      BY <1>1 DEF member
    <2>2. at("landed") => member \in Tasks
      BY InTurn DEF IInv, InHand, at, Walking
    <2> HIDE DEF member
    <2>3. at("landed") => Landed(member)'
      <3>1. SUFFICES ASSUME at("landed") PROVE Landed(member)'
        OBVIOUS
      <3>2. PICK m \in Tasks : m = member /\ Landed(m)
        BY <2>2, <3>1 DEF IInv, InHand
      <3>3. Landed(m)'
        BY <1>3, <3>2
      <3>4. QED
        BY <2>1, <3>2, <3>3 DEF Landed
    <2>4. QED
      BY <1>1, <2>1, <2>3 DEF IInv, InHand, at, Walking, Answering, is
  <1>8. QED
    BY <1>3, <1>5, <1>6, <1>7 DEF IInv

LEMMA NextIInv == IInv /\ [Next]_vars => IInv'
  <1> SUFFICES ASSUME IInv, [Next]_vars PROVE IInv'
    OBVIOUS
  <1>1. CASE AfterRetry \/ ReopenNext \/ AfterReset \/ ReopenDue
    BY <1>1, StepAfterRetry, StepReopenNext, StepAfterReset, StepReopenDue
  <1>2. CASE EndReopening \/ Iterate \/ EndWalk \/ EndAsking \/ CloseBatch
    BY <1>2, StepOnwards
  <1>3. CASE PastCap \/ OpenBatch \/ IdleRound
    BY <1>3, StepPastCap, StepOpenBatch, StepIdleRound
  <1>4. CASE \E t \in Tasks : Dispatch(t) \/ Declare(t) \/ settle(t) \/ EndCycle(t)
    BY <1>4, StepDispatch, StepDeclare, StepMember
  <1>5. CASE StopWalk \/ RecordAttempts \/ SettleBlocked \/ Reject \/ JudgeRebased \/ Land \/ RecordDone
    BY <1>5, StepStopWalk, StepRecordAttempts, StepSettleBlocked, StepReject, StepJudgeRebased,
       StepLand, StepRecordDone
  <1>6. CASE AskScope \/ ReopenAsked \/ AskDeparture \/ ResolveDeparture \/ ReopenDeparted \/ EndDepartures
    BY <1>6, StepAskScope, StepReopenAsked, StepAskDeparture, StepResolveDeparture,
       StepReopenDeparted, StepEndDepartures
  <1>7. CASE Decide \/ Start \/ Cancel \/ Crash \/ OtherLands
    BY <1>7, StepDecide, StepStart, StepCancel, StepCrash, StepOtherLands
  <1>8. CASE UNCHANGED vars
    <2>1. Typed'
      BY <1>8 DEF vars, IInv, Typed
    <2>2. Shaped' /\ InOrder'
      BY <1>8, Still DEF vars, IInv, Shaped, up, at
    <2>3. member' = member
      BY <1>8 DEF vars, member
    <2>4. InHand'
      <3> HIDE DEF member
      <3>1. QED
        BY <1>8, <2>3 DEF vars, IInv, InHand, at, Walking, Answering, is, Landed
    <2>5. QED
      BY <2>1, <2>2, <2>4 DEF IInv
  <1>9. QED
    BY <1>1, <1>2, <1>3, <1>4, <1>5, <1>6, <1>7, <1>8 DEF Next, Step

LEMMA LoopInvariant == Spec => []IInv
  <1>1. QED
    BY InitIInv, NextIInv, PTL DEF Spec

-----------------------------------------------------------------------------
(* The theorems.                                                             *)

(* The state keeps its shape: a task names why it stopped exactly while it   *)
(* is blocked, so what a resume reads from the log is what is true.          *)
THEOREM LoopTypeOK == Spec => []TypeOK
  <1>1. IInv => TypeOK
    <2> SUFFICES ASSUME IInv PROVE TypeOK
      OBVIOUS
    <2>1. ASSUME NEW t \in Tasks
          PROVE  /\ task[t].st \in {"pending", "running", "blocked", "done"}
                 /\ task[t].stop \in {"unmet", "scope", "limit", "precheck", "departs"} <=> is(t, "blocked")
                 /\ task[t].left \in BOOLEAN /\ task[t].owes \in BOOLEAN
      <3>1. task[t] \in TaskType
        BY DEF IInv, Typed
      <3>2. QED
        BY <3>1 DEF IInv, Shaped, TaskType, Stati, Stops
    <2>2. Range(tree) \subseteq Tasks \cup {0} /\ IsInjective(tree)
      BY DEF IInv, Typed, Shaped, Range
    <2>3. node.st \in {"ready", "open", "failed", "done"} /\ node.lists \subseteq Tasks
      BY DEF IInv, Typed, NodeType
    <2>4. /\ choice.opt \in {"none", "retry", "continue_work", "grant", "deny", "accept", "send_back"}
          /\ choice.cited \subseteq Tasks /\ seed.about \subseteq Tasks
      BY DEF IInv, Typed, ChoiceType, SeedType
    <2>5. QED
      BY <2>1, <2>2, <2>3, <2>4 DEF TypeOK, IInv, Typed, Shaped
  <1>2. QED
    BY <1>1, LoopInvariant, PTL

(* A task recorded done has its work in the run's tree behind everything it  *)
(* depends on, wherever engines crash between the landing and its record and *)
(* whatever another node lands beside the loop.                              *)
THEOREM LoopDoneHasLanded == Spec => []DoneHasLanded
  <1>1. IInv => DoneHasLanded
    BY DEF IInv, InOrder, DoneHasLanded, Behind
  <1>2. QED
    BY <1>1, LoopInvariant, PTL

(* No task closes on a departure from the plan that nobody answered.         *)
THEOREM LoopOwedNeverDone == Spec => []OwedNeverDone
  <1>1. IInv => OwedNeverDone
    BY DEF IInv, InOrder, OwedNeverDone
  <1>2. QED
    BY <1>1, LoopInvariant, PTL

(* A decision to run again reopens a task once, on however many restarts.    *)
THEOREM LoopDecisionActsOnce == Spec => DecisionActsOnce
  <1> DEFINE Once(t) == at("reopen") /\ is(t, "blocked") /\ task[t].stop # "limit" /\ task'[t].st = "pending"
                            => t \notin choice.cited
  <1>1. ASSUME IInv, Next PROVE \A t \in Tasks : Once(t)
    <2>1. CASE loop.pc # "reopen"
      BY <2>1 DEF at
    <2>2. CASE task' = task
      BY <2>2 DEF is
    <2>3. CASE ReopenNext
      <3>1. PICK m \in Tasks : m = least(loop.todo) /\ m \in loop.todo
        BY <1>1, <2>3, LeastTask DEF ReopenNext, IInv, Typed, LoopType
      <3>2. m \notin choice.cited
        BY <1>1, <2>3, <3>1 DEF ReopenNext, IInv, InHand
      <3>3. \A u \in Tasks : u # m => task'[u] = task[u]
        BY <1>1, <2>3, <3>1 DEF ReopenNext, changed, IInv, Typed
      <3>4. QED
        BY <3>2, <3>3 DEF is
    <2>4. loop.pc # "reopen" \/ task' = task \/ ReopenNext
      BY <1>1 DEF Next, Step, AfterRetry, AfterReset, ReopenDue, EndReopening, Iterate, PastCap,
         OpenBatch, IdleRound, Dispatch, Declare, working, settle, EndCycle, CloseBatch, StopWalk,
         walking, RecordAttempts, SettleBlocked, Reject, JudgeRebased, Land, RecordDone, EndWalk,
         AskScope, ReopenAsked, EndAsking, AskDeparture, departing, ResolveDeparture,
         ReopenDeparted, EndDepartures, Decide, Start, Cancel, Crash, OtherLands, logged, at
    <2>5. QED
      BY <2>1, <2>2, <2>3, <2>4
  <1>2. IInv /\ [Next]_vars => [\A t \in Tasks : Once(t)]_vars
    BY <1>1
  <1>3. QED
    BY <1>2, LoopInvariant, PTL DEF Spec, DecisionActsOnce


-----------------------------------------------------------------------------
(* The grants. The window of a batch holds what the log counts and what its  *)
(* members were granted and is not yet recorded. A sum over the members is a *)
(* function that adds them up in the order they were declared, each count no *)
(* less than the one before: taking a member out of it takes the same from   *)
(* every later count.                                                        *)

Sums(s, S, g) ==
    /\ s \in [0..NTasks -> Nat]
    /\ s[0] = 0
    /\ \A k \in Tasks : s[k] = s[k - 1] + (IF k \in S THEN g[k] ELSE 0)
    /\ \A i, j \in 0..NTasks : i <= j => s[i] <= s[j]

(* Where a batch has members at work or to settle.                           *)
Busy == {"dispatch"} \cup Walking

(* The members whose grants the log does not hold yet.                       *)
unrecorded == IF loop.pc \in {"settle", "land", "landed"} THEN loop.todo \ {member} ELSE loop.todo

Counts == \E s : Sums(s, unrecorded, loop.got) /\ grants + s[NTasks] <= loop.window

Counted ==
    /\ grants <= MaxPerRun
    /\ loop.pc \in Busy => loop.window <= MaxPerRun /\ Counts

(* Members that were granted nothing add up to nothing.                      *)
LEMMA SumsOfNone ==
  ASSUME NEW S \in SUBSET Tasks, NEW g \in [Tasks -> Nat], \A t \in Tasks : g[t] = 0
  PROVE  /\ Sums([k \in 0..NTasks |-> 0], S, g)
         /\ [k \in 0..NTasks |-> 0][NTasks] = 0
  <1>1. NTasks \in 0..NTasks /\ 0 \in 0..NTasks /\ \A k \in Tasks : k \in 0..NTasks /\ k - 1 \in 0..NTasks
    BY LoopAssumption DEF Tasks
  <1>2. QED
    BY <1>1 DEF Sums

(* A grant to one member raises the count from it onwards by one.            *)
LEMMA SumsOfOneMore ==
  ASSUME NEW S \in SUBSET Tasks, NEW g \in [Tasks -> Nat], NEW t \in S, NEW s, Sums(s, S, g)
  PROVE  \E r : Sums(r, S, [g EXCEPT ![t] = @ + 1]) /\ r[NTasks] = s[NTasks] + 1
  <1> DEFINE r == [k \in 0..NTasks |-> IF t <= k THEN s[k] + 1 ELSE s[k]]
             h == [g EXCEPT ![t] = @ + 1]
  <1>1. /\ NTasks \in Nat /\ t \in Nat /\ t <= NTasks /\ t # 0 /\ t \in Tasks
        /\ \A k \in Tasks : k \in Nat /\ k # 0 /\ k \in 0..NTasks /\ k - 1 \in 0..NTasks
    BY LoopAssumption DEF Tasks
  <1>2. s \in [0..NTasks -> Nat] /\ s[0] = 0 /\ \A i, j \in 0..NTasks : i <= j => s[i] <= s[j]
    BY DEF Sums
  <1>3. \A k \in 0..NTasks : s[k] \in Nat /\ r[k] = IF t <= k THEN s[k] + 1 ELSE s[k]
    BY <1>2
  <1>4. r \in [0..NTasks -> Nat]
    BY <1>2
  <1>5. \A k \in Tasks : h[k] = IF k = t THEN g[k] + 1 ELSE g[k]
    BY <1>1
  <1> HIDE DEF r, h
  <1>6. \A k \in Tasks : r[k] = r[k - 1] + (IF k \in S THEN h[k] ELSE 0)
    <2> TAKE k \in Tasks
    <2>1. s[k] = s[k - 1] + (IF k \in S THEN g[k] ELSE 0)
      BY DEF Sums
    <2>2. k \in Nat /\ k # 0 /\ s[k] \in Nat /\ s[k - 1] \in Nat /\ g[k] \in Nat
      BY <1>1, <1>3
    <2>3. r[k] = (IF t <= k THEN s[k] + 1 ELSE s[k])
      BY <1>1, <1>3
    <2>4. r[k - 1] = (IF t <= k - 1 THEN s[k - 1] + 1 ELSE s[k - 1])
      BY <1>1, <1>3
    <2>5. CASE k = t
      BY <1>1, <1>5, <2>1, <2>2, <2>3, <2>4, <2>5
    <2>6. CASE k # t
      BY <1>1, <1>5, <2>1, <2>2, <2>3, <2>4, <2>6
    <2>7. QED
      BY <2>5, <2>6
  <1>7. \A i, j \in 0..NTasks : i <= j => r[i] <= r[j]
    <2> TAKE i, j \in 0..NTasks
    <2>1. i <= j => s[i] <= s[j]
      BY <1>2
    <2>2. i \in Nat /\ j \in Nat
      BY <1>1
    <2>3. QED
      BY <1>1, <1>3, <2>1, <2>2
  <1>8. r[0] = 0 /\ r[NTasks] = s[NTasks] + 1
    BY <1>1, <1>2, <1>3
  <1>9. Sums(r, S, h)
    BY <1>4, <1>6, <1>7, <1>8 DEF Sums
  <1>10. QED
    BY <1>8, <1>9 DEF h

(* Taking a member out lowers the count from it onwards by what it had.      *)
LEMMA SumsOfTheRest ==
  ASSUME NEW S \in SUBSET Tasks, NEW g \in [Tasks -> Nat], NEW t \in S, NEW s, Sums(s, S, g)
  PROVE  \E r : Sums(r, S \ {t}, g) /\ r[NTasks] + g[t] = s[NTasks]
  <1> DEFINE r == [k \in 0..NTasks |-> IF t <= k THEN s[k] - g[t] ELSE s[k]]
  <1>1. /\ NTasks \in Nat /\ t \in Nat /\ t <= NTasks /\ t # 0 /\ t \in Tasks /\ t - 1 \in 0..NTasks
        /\ \A k \in Tasks : k \in Nat /\ k # 0 /\ k \in 0..NTasks /\ k - 1 \in 0..NTasks
    BY LoopAssumption DEF Tasks
  <1>2. s \in [0..NTasks -> Nat] /\ s[0] = 0 /\ \A i, j \in 0..NTasks : i <= j => s[i] <= s[j]
    BY DEF Sums
  <1>3. g[t] \in Nat /\ s[t - 1] \in Nat /\ s[t] = s[t - 1] + g[t]
    BY <1>1, <1>2 DEF Sums
  <1>4. \A k \in 0..NTasks : s[k] \in Nat /\ r[k] = IF t <= k THEN s[k] - g[t] ELSE s[k]
    BY <1>2
  <1>5. \A k \in 0..NTasks : t <= k => g[t] <= s[k] /\ s[t - 1] <= s[k] - g[t]
    <2> TAKE k \in 0..NTasks
    <2>1. t <= k => s[t] <= s[k]
      BY <1>1, <1>2
    <2>2. s[k] \in Nat
      BY <1>4
    <2>3. QED
      BY <1>3, <2>1, <2>2
  <1>6. r \in [0..NTasks -> Nat]
    <2>1. \A k \in 0..NTasks : (IF t <= k THEN s[k] - g[t] ELSE s[k]) \in Nat
      BY <1>3, <1>4, <1>5
    <2>2. QED
      BY <2>1
  <1> HIDE DEF r
  <1>7. \A k \in Tasks : r[k] = r[k - 1] + (IF k \in S \ {t} THEN g[k] ELSE 0)
    <2> TAKE k \in Tasks
    <2>1. s[k] = s[k - 1] + (IF k \in S THEN g[k] ELSE 0)
      BY DEF Sums
    <2>2. k \in Nat /\ k # 0 /\ s[k] \in Nat /\ s[k - 1] \in Nat /\ g[k] \in Nat
      BY <1>1, <1>4
    <2>3. r[k] = (IF t <= k THEN s[k] - g[t] ELSE s[k])
      BY <1>1, <1>4
    <2>4. r[k - 1] = (IF t <= k - 1 THEN s[k - 1] - g[t] ELSE s[k - 1])
      BY <1>1, <1>4
    <2>5. CASE k = t
      BY <1>1, <1>3, <2>2, <2>3, <2>4, <2>5
    <2>6. CASE k # t
      BY <1>1, <1>3, <2>1, <2>2, <2>3, <2>4, <2>6
    <2>7. QED
      BY <2>5, <2>6
  <1>8. \A i, j \in 0..NTasks : i <= j => r[i] <= r[j]
    <2> TAKE i, j \in 0..NTasks
    <2>1. i <= j => s[i] <= s[j]
      BY <1>2
    <2>2. i \in Nat /\ j \in Nat /\ s[i] \in Nat /\ s[j] \in Nat
      BY <1>1, <1>4
    <2>3. i < t => s[i] <= s[t - 1]
      BY <1>1, <1>2, <2>2
    <2>4. t <= j => s[t - 1] <= s[j] - g[t]
      BY <1>5
    <2>5. r[i] = (IF t <= i THEN s[i] - g[t] ELSE s[i]) /\ r[j] = (IF t <= j THEN s[j] - g[t] ELSE s[j])
      BY <1>4
    <2>6. QED
      BY <1>1, <1>3, <2>1, <2>2, <2>3, <2>4, <2>5
  <1>9. r[0] = 0 /\ r[NTasks] + g[t] = s[NTasks]
    BY <1>1, <1>2, <1>3, <1>4
  <1>10. Sums(r, S \ {t}, g)
    BY <1>6, <1>7, <1>8, <1>9 DEF Sums
  <1>11. QED
    BY <1>9, <1>10

(* A step that grants nothing, records nothing and loses no member keeps the *)
(* count, and where no batch is at hand there is none.                       *)
LEMMA CountStays ==
  ASSUME Counted, grants' = grants,
         loop'.pc \in Busy =>
            /\ loop.pc \in Busy /\ loop'.window = loop.window /\ loop'.got = loop.got
            /\ unrecorded' = unrecorded
  PROVE  Counted'
  <1> HIDE DEF unrecorded, Busy
  <1>1. QED
    BY DEF Counted, Counts, Sums

LEMMA StepCounted == IInv /\ Counted /\ [Next]_vars => Counted'
  <1> SUFFICES ASSUME IInv, Counted, [Next]_vars PROVE Counted'
    OBVIOUS
  <1> USE DEF at
  <1>1. /\ loop \in LoopType /\ grants \in Nat /\ loop.todo \in SUBSET Tasks
        /\ loop.got \in [Tasks -> Nat] /\ loop.window \in Nat /\ MaxPerRun \in Nat
    BY LoopAssumption DEF IInv, Typed, LoopType
  <1>2. ASSUME loop' = Gone, grants' = grants PROVE Counted'
    BY <1>2, CountStays DEF Gone, Busy, Walking
  <1>3. ASSUME loop' = loop, grants' = grants PROVE Counted'
    BY <1>3, CountStays DEF unrecorded, member
  <1>4. ASSUME loop'.pc \notin Busy, grants' = grants PROVE Counted'
    BY <1>4, CountStays
  <1>5. CASE AfterRetry \/ ReopenNext \/ AfterReset \/ ReopenDue \/ EndReopening \/ Iterate
    <2>1. loop'.pc \in {"reopen", "due", "round", "select"} /\ grants' = grants
      BY <1>1, <1>5
         DEF AfterRetry, ReopenNext, AfterReset, ReopenDue, EndReopening, Iterate, go, logged, LoopType
    <2>2. QED
      BY <1>4, <2>1 DEF Busy, Walking
  <1>6. CASE PastCap
    <2>1. grants' = grants /\ (loop' = Gone \/ loop'.pc = "select")
      BY <1>1, <1>6 DEF PastCap, fail, LoopType
    <2>2. QED
      BY <1>2, <1>4, <2>1 DEF Busy, Walking
  <1>7. CASE IdleRound
    <2>1. grants' = grants /\ (loop' = Gone \/ loop'.pc = "depart")
      BY <1>1, <1>7 DEF IdleRound, fail, LoopType
    <2>2. QED
      BY <1>2, <1>4, <2>1 DEF Busy, Walking
  <1>8. CASE OpenBatch
    <2>1. /\ grants' = grants /\ loop'.pc = "dispatch" /\ loop'.window = grants
          /\ loop'.got = [t \in Tasks |-> 0]
      BY <1>1, <1>8 DEF OpenBatch, logged, seeded, LoopType, Gone
    <2>2. loop' \in LoopType
      BY <1>8, StepOpenBatch DEF IInv, Typed
    <2>3. unrecorded' \in SUBSET Tasks
      BY <2>1, <2>2 DEF unrecorded, LoopType
    <2>4. Sums([k \in 0..NTasks |-> 0], unrecorded', loop'.got) /\ [k \in 0..NTasks |-> 0][NTasks] = 0
      BY <2>1, <2>3, SumsOfNone
    <2>5. grants' + [k \in 0..NTasks |-> 0][NTasks] <= loop'.window
      BY <1>1, <2>1, <2>4
    <2>6. Counts'
      BY <2>4, <2>5 DEF Counts, Sums
    <2>7. QED
      BY <2>1, <2>6 DEF Counted
  <1>9. ASSUME NEW t \in Tasks, settle(t) PROVE Counted'
    <2>1. /\ loop.pc = "dispatch" /\ loop'.pc = "dispatch" /\ loop'.todo = loop.todo /\ t \in loop.todo
          /\ loop'.got = [loop.got EXCEPT ![t] = @ + 1] /\ loop'.window = loop.window + 1
          /\ loop.window < MaxPerRun /\ grants' = grants
      BY <1>1, <1>9 DEF settle, working, logged, LoopType
    <2>2. unrecorded = loop.todo /\ unrecorded' = loop.todo
      BY <2>1 DEF unrecorded
    <2>3. PICK s : Sums(s, loop.todo, loop.got) /\ grants + s[NTasks] <= loop.window
      BY <2>1, <2>2 DEF Counted, Counts, Busy
    <2>4. PICK r : Sums(r, loop.todo, loop'.got) /\ r[NTasks] = s[NTasks] + 1
      BY <1>1, <2>1, <2>3, SumsOfOneMore
    <2>5. s[NTasks] \in Nat
      BY <2>3, LoopAssumption DEF Sums
    <2>6. grants' + r[NTasks] <= loop'.window /\ loop'.window <= MaxPerRun
      BY <1>1, <2>1, <2>3, <2>4, <2>5
    <2>7. Counts'
      BY <2>2, <2>4, <2>6 DEF Counts, Sums
    <2>8. QED
      BY <2>1, <2>6, <2>7 DEF Counted
  <1>10. ASSUME NEW t \in Tasks, Dispatch(t) \/ Declare(t) \/ EndCycle(t) PROVE Counted'
    <2>1. /\ loop.pc = "dispatch" /\ loop'.pc = "dispatch" /\ loop'.todo = loop.todo
          /\ loop'.got = loop.got /\ loop'.window = loop.window /\ grants' = grants
      BY <1>1, <1>10 DEF Dispatch, Declare, EndCycle, working, ended, logged, LoopType
    <2>2. unrecorded' = unrecorded
      BY <2>1 DEF unrecorded
    <2>3. QED
      BY <2>1, <2>2, CountStays DEF Busy
  <1>11. CASE CloseBatch \/ Cancel
    <2>1. /\ loop.pc = "dispatch" /\ loop'.pc \in {"dispatch", "walk"} /\ loop'.todo = loop.todo
          /\ loop'.got = loop.got /\ loop'.window = loop.window /\ grants' = grants
      BY <1>1, <1>11 DEF CloseBatch, Cancel, logged, LoopType
    <2>2. unrecorded' = unrecorded
      BY <2>1 DEF unrecorded
    <2>3. QED
      BY <2>1, <2>2, CountStays DEF Busy
  <1>12. CASE StopWalk
    BY <1>2, <1>12 DEF StopWalk, fail, pause
  <1>13. CASE RecordAttempts
    <2>1. /\ loop.pc = "walk" /\ loop.todo # {} /\ grants' = grants + loop.got[member]
          /\ loop'.pc = "settle" /\ loop'.todo = loop.todo /\ loop'.got = loop.got
          /\ loop'.window = loop.window
      BY <1>1, <1>13 DEF RecordAttempts, walking, go, LoopType
    <2>2. member \in loop.todo /\ member' = member
      BY <2>1, InTurn DEF Walking, member
    <2>3. unrecorded = loop.todo /\ unrecorded' = loop.todo \ {member}
      BY <2>1, <2>2 DEF unrecorded
    <2> HIDE DEF member
    <2>4. PICK s : Sums(s, loop.todo, loop.got) /\ grants + s[NTasks] <= loop.window
      BY <2>1, <2>3 DEF Counted, Counts, Busy, Walking
    <2>5. PICK r : Sums(r, loop.todo \ {member}, loop.got) /\ r[NTasks] + loop.got[member] = s[NTasks]
      BY <1>1, <2>2, <2>4, SumsOfTheRest
    <2>6. s[NTasks] \in Nat /\ r[NTasks] \in Nat /\ loop.got[member] \in Nat
      BY <1>1, <2>2, <2>4, <2>5, LoopAssumption DEF Sums
    <2>7. loop.window <= MaxPerRun
      BY <2>1 DEF Counted, Busy, Walking
    <2>8. grants' + r[NTasks] <= loop'.window /\ grants' <= MaxPerRun
      BY <1>1, <2>1, <2>4, <2>5, <2>6, <2>7
    <2>9. Counts'
      BY <2>1, <2>3, <2>5, <2>8 DEF Counts, Sums
    <2>10. QED
      BY <2>1, <2>7, <2>8, <2>9 DEF Counted
  <1>14. CASE SettleBlocked \/ Reject \/ RecordDone
    <2>1. /\ loop.pc \in {"settle", "landed"} /\ loop'.pc = "walk" /\ loop'.todo = loop.todo \ {member}
          /\ loop'.got = loop.got /\ loop'.window = loop.window /\ grants' = grants
      BY <1>1, <1>14 DEF SettleBlocked, Reject, RecordDone, next_member, LoopType
    <2>2. unrecorded' = unrecorded
      BY <2>1 DEF unrecorded
    <2>3. QED
      BY <2>1, <2>2, CountStays DEF Busy, Walking
  <1>15. CASE JudgeRebased \/ Land
    <2>1. CASE loop' = Gone
      BY <1>2, <1>15, <2>1 DEF JudgeRebased, Land, logged
    <2>2. CASE loop' # Gone
      <3>1. /\ loop.pc \in {"settle", "land"} /\ loop'.pc \in {"land", "landed"} /\ loop'.todo = loop.todo
            /\ loop'.got = loop.got /\ loop'.window = loop.window /\ grants' = grants
        BY <1>1, <1>15, <2>2 DEF JudgeRebased, Land, go, logged, LoopType
      <3>2. unrecorded' = unrecorded
        BY <3>1 DEF unrecorded, member
      <3>3. QED
        BY <3>1, <3>2, CountStays DEF Busy, Walking
    <2>3. QED
      BY <2>1, <2>2
  <1>16. CASE EndWalk \/ AskScope \/ ReopenAsked \/ EndAsking
    <2>1. loop'.pc \in {"ask", "asked", "depart"} /\ grants' = grants
      BY <1>1, <1>16 DEF EndWalk, AskScope, ReopenAsked, EndAsking, go, logged, LoopType
    <2>2. QED
      BY <1>4, <2>1 DEF Busy, Walking
  <1>17. CASE AskDeparture \/ ResolveDeparture \/ ReopenDeparted \/ EndDepartures
    <2>1. grants' = grants /\ (loop' = Gone \/ loop'.pc \in {"depart", "resolve", "resolved", "round"})
      BY <1>1, <1>17 DEF AskDeparture, ResolveDeparture, ReopenDeparted, EndDepartures, departing,
                         go, fail, pause, LoopType
    <2>2. QED
      BY <1>2, <1>4, <2>1 DEF Busy, Walking
  <1>18. CASE Decide \/ OtherLands \/ UNCHANGED vars
    BY <1>3, <1>18 DEF Decide, OtherLands, vars
  <1>19. CASE Start
    <2>1. loop'.pc = "retry" /\ grants' = grants
      BY <1>19 DEF Start, Gone
    <2>2. QED
      BY <1>4, <2>1 DEF Busy, Walking
  <1>20. CASE Crash
    BY <1>2, <1>20 DEF Crash, logged
  <1>21. QED
    BY <1>5, <1>6, <1>7, <1>8, <1>9, <1>10, <1>11, <1>12, <1>13, <1>14, <1>15, <1>16, <1>17, <1>18,
       <1>19, <1>20 DEF Next, Step

(* The engine's own grants never pass the cap of the run, however many       *)
(* members of a batch ask at once: they share one window, which a batch      *)
(* opens on what the log holds whoever recorded it.                          *)
THEOREM LoopCapHolds == Spec => []CapHolds
  <1>1. Init => Counted
    BY LoopAssumption DEF Init, Counted, Gone, Busy, Walking
  <1>2. IInv /\ Counted /\ [Next]_vars => Counted'
    BY StepCounted
  <1>3. Counted => CapHolds
    BY DEF Counted, CapHolds
  <1>4. QED
    BY <1>1, <1>2, <1>3, LoopInvariant, PTL DEF Spec
=============================================================================
