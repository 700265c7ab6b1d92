------------------------ MODULE CheckoutPoolProofs ------------------------
(*************************************************************************)
(* Proofs about the pool of checkouts, for any users, disk, budget and   *)
(* faults. Inv is inductive: who holds a checkout holds it by a lock     *)
(* that lives in its run's name (Leases), alone (Apart); a lock lives    *)
(* only by an engine that may hold that checkout, and where sessions     *)
(* were left at work the record and the lock stay their run's, which is  *)
(* what CanHold reads (Tidy); no user works without its engine           *)
(* (Standing); what a unit did is in its checkout, its ref or its run's  *)
(* branch at every step (Efforts).                                       *)
(*                                                                       *)
(* A run's own tree is held by no lock, and a pass of gc acts on looks   *)
(* that are over.  So what a run writes is safe only while a pass meets  *)
(* no run that enters a checkout: born, woken, or following a build.     *)
(* That is Perils = {}, which every theorem here assumes.  Under it a    *)
(* run's tree stays on its branch (Trees), a pass gives back no tree in  *)
(* use and goes for no checkout on a branch (Aside), what it is to       *)
(* remove is clean and held by nobody (Swept), and a run between two     *)
(* checkouts holds both (Pairs).                                         *)
(*************************************************************************)
EXTENDS CheckoutPool, FiniteSetTheorems, TLAPS

-----------------------------------------------------------------------------
(* What a state is made of *)

UnitWorks == [unit : Units, attempt : 1..MaxAttempts, replayed : BOOLEAN]

Commits == SUBSET Works

Slot == [at : {"none", "half", "listed"}, head : Commits,
         branch : Runs \cup {NULL}, dirty : Users \cup {NULL},
         by : Runs \cup {NULL}, unit : (Units \X (1..MaxAttempts)) \cup {NULL},
         built : BOOLEAN]
Lock == [by : Runs, lives : BOOLEAN]
RunState == [life : {"unborn", "open", "closed", "collected"}, engine : BOOLEAN,
             registry : {"none", "alive", "dead"}, tip : Commits,
             tree : Slots \cup {NULL}, named : Slots \cup {NULL}]
Task == [status : {"pending", "running", "blocked", "done"}, attempt : 0..MaxAttempts,
         left : Commits \cup {NULL}, resumes : BOOLEAN, landed : Commits]
Ref == [unit : Units, attempt : 1..MaxAttempts, commit : Commits]

\* The steps at which a user holds the checkout it is at.
Takes == {"making", "fitting"}
UnitHolds == {"opened", "working", "blocking", "committed", "replayed", "landed", "retired"}
Looks == {"idle", "taking", "surveyed"}
RunPcs == Looks \cup Takes
          \cup {"launching", "working", "following", "ending", "releasing", "clearing"}
UnitPcs == Looks \cup Takes \cup UnitHolds
ProbePcs == Looks \cup Takes \cup {"working"}
Act == [pc : RunPcs \cup UnitPcs, at : Slots \cup {NULL}, base : Commits,
        todo : [Slots -> {"none", "own", "free", "landed"}], listed : SUBSET Slots,
        emptiable : SUBSET Slots, over : Int]
Pass == [phase : {"idle", "forget", "give", "idling", "room", "removing"},
         give : [Runs -> Slots \cup {NULL}], forget : SUBSET Runs, look : SUBSET Slots,
         at : Slots \cup {NULL}]

Typed ==
    /\ slot \in [Slots -> Slot]
    /\ lock \in [Slots -> Lock \cup {NULL}]
    /\ agents \in [Slots -> Users \cup {NULL}]
    /\ run \in [Runs -> RunState]
    /\ task \in [Units -> Task]
    /\ refs \subseteq Ref
    /\ act \in [Users -> Act]
    /\ gc \in Pass
    /\ \A r \in Runs : act[r].pc \in RunPcs
    /\ \A u \in Units : act[u].pc \in UnitPcs
    /\ \A m \in Probes : act[m].pc \in ProbePcs

Holding(x) == act[x].pc \in IF x \in Runs THEN Takes ELSE Takes \cup UnitHolds

\* How far a run's life and its process are.
Living(r) ==
    /\ act[r].pc # "idle" => run[r].engine
    /\ act[r].pc \in {"working", "following"} => run[r].registry = "alive"
    /\ act[r].pc \in {"launching", "working", "following", "ending", "releasing"} =>
          run[r].tree \in Slots
    /\ run[r].life # "unborn" => run[r].named \in Slots
    /\ run[r].life = "collected" => ~run[r].engine
    /\ \A x \in Mine(r) : act[x].pc # "idle" => act[r].pc = "working"

\* The engine of run r is there and at a step at which it may hold checkout n.
Drives(r, n) ==
    /\ run[r].engine
    /\ \/ act[r].pc \in {"working", "following", "ending", "releasing", "clearing"}
       \/ act[r].pc \in Takes /\ act[r].at = n

\* What stands with what in a checkout, its lock and those left working in it.
Kempt(n) ==
    /\ slot[n].at # "listed" =>
          slot[n].branch = NULL /\ slot[n].unit = NULL /\ slot[n].dirty = NULL
    /\ slot[n].unit # NULL =>
          slot[n].branch = NULL /\ slot[n].dirty \in {NULL, slot[n].unit[1]}
    /\ lock[n] # NULL /\ lock[n].lives => Drives(lock[n].by, n)
    /\ agents[n] # NULL => run[Run(agents[n])].registry # "none"
    /\ agents[n] \in Units \cup Probes =>
          /\ slot[n].at = "listed" /\ slot[n].branch = NULL
          /\ slot[n].by = Run(agents[n])
          /\ lock[n] # NULL /\ lock[n].by = Run(agents[n])

\* What a user holds is its own: the lock lives in its run's name, nobody was
\* left there, and the checkout is what its step has made of it.
Leased(x) ==
    LET n == act[x].at p == act[x].pc IN
    /\ n \in Slots
    /\ lock[n] = [by |-> Run(x), lives |-> TRUE]
    /\ slot[n].by = Run(x)
    /\ agents[n] \notin Units \cup Probes
    /\ (p = "making") <=> (slot[n].at # "listed")
    /\ p = "fitting" => /\ slot[n].unit = NULL /\ slot[n].dirty = NULL
                        /\ slot[n].branch \in {NULL, x}
    /\ p \in UnitHolds => slot[n].branch = NULL
    /\ p \in UnitHolds \ {"retired"} /\ x \in Units =>
          slot[n].unit # NULL /\ slot[n].unit[1] = x
    /\ p = "retired" \/ (p = "working" /\ x \in Probes) => slot[n].unit = NULL
    /\ slot[n].dirty \in IF p \in {"opened", "working"} THEN {NULL, x} ELSE {NULL}

Leases == \A x \in Users : Holding(x) => Leased(x)
Apart == \A x, y \in Users : x # y /\ Holding(x) /\ Holding(y) => act[x].at # act[y].at

\* Where a run works is on its branch.
OnBranch(r) ==
    act[r].pc \in {"launching", "working"} =>
        slot[run[r].tree].at = "listed" /\ slot[run[r].tree].branch = r

Tidy == \A n \in Slots : Kempt(n)
Standing == \A r \in Runs : Living(r)
Trees == \A r \in Runs : OnBranch(r)

\* What a unit did is on its branch or in its run's, at every step.
Worked(u) ==
    LET n == act[u].at p == act[u].pc IN
    /\ p \in {"taking", "surveyed", "making", "fitting"} => task[u].attempt # 0
    /\ p \in {"opened", "working"} => slot[n].head = act[u].base
    /\ p = "blocking" => \/ slot[n].head = act[u].base
                         \/ \E f \in refs : f.unit = u /\ f.commit = slot[n].head
    /\ p = "committed" => slot[n].head \ act[u].base \subseteq UnitWorks
    /\ p \in {"landed", "retired"} => slot[n].head \subseteq run[RunOf[u]].tip
    /\ p \in UnitHolds \ {"opened"} => task[u].left = NULL

\* What its log says of it can be reached until its run is collected.
Saved(u) ==
    run[RunOf[u]].life # "collected" =>
        /\ task[u].left # NULL =>
              \/ \E f \in refs : f.unit = u /\ f.commit = task[u].left
              \/ task[u].left \subseteq run[RunOf[u]].tip
        /\ task[u].status = "done" => task[u].landed \subseteq run[RunOf[u]].tip

Efforts == \A u \in Units : Worked(u) /\ Saved(u)
Forgotten == \A r \in gc.forget : run[r].life = "collected"

Inv == Typed /\ Leases /\ Apart /\ Tidy /\ Standing /\ Efforts /\ Forgotten

\* A run that follows a build holds its tree and where it goes, which only the
\* run's branch tells apart.
Paired(r) ==
    act[r].pc = "following" =>
        LET n == run[r].tree m == act[r].at IN
        /\ n \in Slots /\ m \in Slots /\ n # m
        /\ slot[n].branch = NULL /\ slot[m].branch \in {NULL, r}
        /\ \A k \in {n, m} :
              /\ lock[k] = [by |-> r, lives |-> TRUE]
              /\ agents[k] \notin Units \cup Probes
              /\ slot[k].at = "listed" /\ slot[k].unit = NULL

\* Nobody enters a checkout under a pass of gc, which gives back the trees of
\* runs not at work and goes for checkouts on no branch.
Tidying == {"idling", "room", "removing"}
Aside ==
    /\ gc.phase # "idle" =>
          \A r \in Runs : /\ act[r].pc \notin Entering
                          /\ gc.give[r] # NULL => act[r].pc \notin {"launching", "working"}
    /\ gc.phase \in Tidying =>
          \A n \in Slots : n \in gc.look \/ gc.at = n => slot[n].branch = NULL

\* What a pass holds nobody else does, and what it is to remove is clean.
Swept ==
    \A n \in Slots : gc.at = n =>
        /\ lock[n] = NULL /\ gc.phase \in Tidying
        /\ gc.phase # "room" => slot[n].dirty = NULL

Pairs == \A r \in Runs : Paired(r)
Passes == Aside /\ Swept /\ Pairs

-----------------------------------------------------------------------------
(* What a step leaves alone *)

SlotsSame(S) == \A n \in Slots \ S :
                   slot'[n] = slot[n] /\ lock'[n] = lock[n] /\ agents'[n] = agents[n]
UsersSame(X) == \A y \in Users \ X : act'[y] = act[y]

\* Nobody but X holds any of S.
Clear(X, S) == \A y \in Users \ X : Holding(y) => act[y].at \notin S

\* The runs and their engines stay as they are.
RunsStand ==
    \A r \in Runs :
        /\ run'[r].life = run[r].life /\ run'[r].engine = run[r].engine
        /\ run'[r].registry = run[r].registry
        /\ run'[r].tree = run[r].tree /\ run'[r].named = run[r].named
        /\ act'[r].pc = act[r].pc /\ act'[r].at = act[r].at

\* No run that has sessions left loses the registry they are found by.
Registered ==
    \A r \in Runs : run[r].registry # "none" =>
        run'[r].registry # "none" \/ ~groups_at_work(r)

\* A checkout that is changed is nobody's tree, or stays on its branch.
TreeStays(n) ==
    \/ slot[n].at # "listed" \/ slot[n].branch = NULL
    \/ slot'[n].at = slot[n].at /\ slot'[n].branch = slot[n].branch

\* Branches only grow, and what is collected stays so.
Grows ==
    \A r \in Runs : /\ run[r].tip \subseteq run'[r].tip
                    /\ run[r].life = "collected" => run'[r].life = "collected"

\* A ref of unit u stays for as long as it is needed.
RefsStay(u) ==
    \A f \in refs : f.unit = u =>
        \/ f \in refs'
        \/ /\ act[u].pc = "idle"
           /\ \/ f.commit \subseteq run[RunOf[u]].tip
              \/ run[RunOf[u]].life = "collected"

\* What DirtyKept asks of a step.
DirtyStays(n) ==
    slot[n].dirty # NULL /\ slot'[n].dirty # slot[n].dirty
        => n \in In(slot[n].dirty) /\ slot'[n].at = "listed" /\ gc' = gc

\* A step of run r, or of its units and probes, may change checkout n: it can be
\* held or they hold it, or it is the run's tree; and only a run that enters it
\* brings a branch there.
Touches(r, n) ==
    /\ \/ CanHold(n)
       \/ lock[n] # NULL /\ lock[n].lives /\ lock[n].by = r
       \/ act[r].pc = "working" /\ slot[n].branch = r
       \/ slot'[n] = slot[n] /\ lock'[n] = lock[n] /\ agents'[n] = agents[n]
    /\ slot'[n].branch \in {slot[n].branch, NULL} \/ act[r].pc \in Entering

\* A run comes to a checkout, and to work there, only where it may.
Enters(r) ==
    /\ act'[r].pc \in Entering => act[r].pc \in Entering \/ MayEnter
    /\ act'[r].pc \in {"launching", "working"} =>
          act[r].pc \in Entering \cup {"launching", "working"} \/ MayEnter

\* What is shown of every step, and of every step that is not of gc.
Stands ==
    /\ Inv'
    /\ Trees => Trees'
    /\ \A n \in Slots : DirtyStays(n)
Keeps == Stands /\ (Perils = {} /\ Passes => Passes')

-----------------------------------------------------------------------------
(* Who is who *)

\* No name stands for two things, and a unit or a probe is of a run.
LEMMA Names ==
  /\ Runs \cap Units = {} /\ Runs \cap Probes = {} /\ Units \cap Probes = {}
  /\ NULL \notin Users /\ NULL \notin Slots /\ NULL \notin Lock
  /\ NULL \notin Units \X (1..MaxAttempts)
  /\ \A x \in Units \cup Probes : RunOf[x] \in Runs
  BY PoolAssumption DEF Users, Slots, Lock

\* Whom a user works for.
LEMMA RunOfUsers ==
  ASSUME NEW x \in Users
  PROVE  /\ Run(x) \in Runs
         /\ x \in Runs => Run(x) = x
         /\ x \in Units \cup Probes => Run(x) = RunOf[x]
  BY Names DEF Users, Run

\* The parts of the state of one checkout.
LEMMA Slotted ==
  ASSUME Typed, NEW n \in Slots
  PROVE  /\ slot[n] \in Slot /\ lock[n] \in Lock \cup {NULL} /\ agents[n] \in Users \cup {NULL}
         /\ slot[n].branch \in Runs \cup {NULL} /\ slot[n].dirty \in Users \cup {NULL}
         /\ slot[n].by \in Runs \cup {NULL}
         /\ slot[n].unit \in (Units \X (1..MaxAttempts)) \cup {NULL}
         /\ slot[n].head \in Commits
  BY DEF Typed, Slot

\* A lock's record is a lock, and says whose it is.
LEMMA Leases1 ==
  ASSUME NEW r \in Runs, NEW b \in BOOLEAN
  PROVE  /\ [by |-> r, lives |-> b] \in Lock /\ [by |-> r, lives |-> b] # NULL
         /\ [by |-> r, lives |-> b].by = r /\ [by |-> r, lives |-> b].lives = b
  <1>1. [by |-> r, lives |-> b] \in Lock
    BY DEF Lock
  <1> QED
    BY <1>1, Names

\* Of a checkout that can be held nobody holds the lock, and nobody was left in it.
LEMMA FreeOfUsers ==
  ASSUME Typed, Leases, Tidy, NEW n \in Slots, CanHold(n)
  PROVE  /\ \A y \in Users : Holding(y) => act[y].at # n
         /\ agents[n] \notin Units \cup Probes
         /\ lock[n] # NULL => ~lock[n].lives
  <1>1. lock[n] # NULL => ~lock[n].lives
    BY DEF CanHold, Gone
  <1>2. ASSUME NEW y \in Users, Holding(y), act[y].at = n PROVE FALSE
    <2>1. lock[n] = [by |-> Run(y), lives |-> TRUE]
      BY <1>2 DEF Leases, Leased
    <2>2. lock[n].lives
      BY <2>1
    <2>3. Run(y) \in Runs
      BY RunOfUsers
    <2>4. [by |-> Run(y), lives |-> TRUE] # NULL
      BY <2>3, Leases1
    <2> QED
      BY <1>1, <2>1, <2>2, <2>4
  <1>3. ASSUME agents[n] \in Units \cup Probes PROVE FALSE
    <2>1. /\ Kempt(n) /\ agents[n] \in Users /\ agents[n] # NULL
      BY <1>3, Names DEF Tidy, Users
    <2>2. /\ slot[n].by = Run(agents[n]) /\ lock[n] # NULL
          /\ run[Run(agents[n])].registry # "none"
      BY <1>3, <2>1 DEF Kempt
    <2>3. Run(agents[n]) \in Runs /\ slot[n].by # NULL
      BY <2>1, <2>2, RunOfUsers, Names DEF Users
    <2>4. run[slot[n].by].registry \in {"alive", "dead"}
      BY <2>2, <2>3 DEF Typed, RunState
    <2>5. groups_at_work(slot[n].by)
      BY <2>1, <2>2 DEF groups_at_work
    <2>6. agents_still_work(n)
      BY <2>3, <2>4, <2>5 DEF agents_still_work
    <2> QED
      BY <2>2, <2>6 DEF CanHold
  <1> QED
    BY <1>1, <1>2, <1>3

-----------------------------------------------------------------------------
(* Frames: what a step leaves alone keeps its part of the invariant *)

\* Users out of X keep their leases in a step that changes none of what they hold.
LEMMA LeasesFrame ==
  ASSUME Leases, NEW X \in SUBSET Users, NEW S \in SUBSET Slots,
         SlotsSame(S), UsersSame(X), Clear(X, S),
         \A x \in X : Holding(x)' => Leased(x)'
  PROVE  Leases'
  <1> SUFFICES ASSUME NEW y \in Users \ X, Holding(y)' PROVE Leased(y)'
    BY DEF Leases
  <1>1. act'[y] = act[y]
    BY DEF UsersSame
  <1>2. Holding(y)
    BY <1>1 DEF Holding
  <1>3. Leased(y) /\ act[y].at \in Slots \ S
    BY <1>2 DEF Leases, Leased, Clear
  <1>4. /\ slot'[act[y].at] = slot[act[y].at] /\ lock'[act[y].at] = lock[act[y].at]
        /\ agents'[act[y].at] = agents[act[y].at]
    BY <1>3 DEF SlotsSame
  <1> QED
    BY <1>1, <1>3, <1>4 DEF Leased

\* One user moves, and to a checkout that nobody else holds.
LEMMA ApartFrame ==
  ASSUME Apart, NEW x \in Users, UsersSame({x}),
         Holding(x)' => \/ Holding(x) /\ act'[x].at = act[x].at
                        \/ \A y \in Users \ {x} : Holding(y) => act[y].at # act'[x].at
  PROVE  Apart'
  <1>1. \A y \in Users \ {x} : act'[y] = act[y] /\ (Holding(y)' <=> Holding(y))
    BY DEF UsersSame, Holding
  <1>2. ASSUME NEW y \in Users \ {x}, Holding(x)', Holding(y)' PROVE act'[x].at # act'[y].at
    BY <1>1, <1>2 DEF Apart
  <1>3. ASSUME NEW y \in Users \ {x}, NEW z \in Users \ {x}, y # z, Holding(y)', Holding(z)'
        PROVE  act'[y].at # act'[z].at
    BY <1>1, <1>3 DEF Apart
  <1> QED
    BY <1>2, <1>3 DEF Apart

\* Checkouts out of S stay tidy while the engines their locks live by go on.
LEMMA TidyFrame ==
  ASSUME Typed, Tidy, NEW S \in SUBSET Slots, SlotsSame(S), Registered,
         \A n \in Slots \ S : lock[n] # NULL /\ lock[n].lives => Drives(lock[n].by, n)',
         \A n \in S : Kempt(n)'
  PROVE  Tidy'
  <1> SUFFICES ASSUME NEW n \in Slots \ S PROVE Kempt(n)'
    BY DEF Tidy
  <1>1. slot'[n] = slot[n] /\ lock'[n] = lock[n] /\ agents'[n] = agents[n] /\ Kempt(n)
    BY DEF SlotsSame, Tidy
  <1>2. lock[n] # NULL /\ lock[n].lives => Drives(lock[n].by, n)'
    OBVIOUS
  <1>3. ASSUME agents[n] # NULL PROVE run'[Run(agents[n])].registry # "none"
    <2>1. agents[n] \in Users /\ run[Run(agents[n])].registry # "none"
      BY <1>1, <1>3 DEF Kempt, Typed
    <2>2. groups_at_work(Run(agents[n]))
      BY <1>3 DEF groups_at_work
    <2> QED
      BY <2>1, <2>2, RunOfUsers DEF Registered
  <1> QED
    BY <1>1, <1>2, <1>3 DEF Kempt, Drives

\* They do so where every run and engine stays as it is.
LEMMA TidyQuiet ==
  ASSUME Typed, Tidy, NEW S \in SUBSET Slots, SlotsSame(S), RunsStand,
         \A n \in S : Kempt(n)'
  PROVE  Tidy'
  <1>1. Registered
    BY DEF Registered, RunsStand
  <1>2. ASSUME NEW n \in Slots \ S, lock[n] # NULL, lock[n].lives PROVE Drives(lock[n].by, n)'
    <2>1. lock[n].by \in Runs /\ Drives(lock[n].by, n) /\ lock'[n] = lock[n]
      BY <1>2 DEF Tidy, Kempt, Typed, Lock, SlotsSame
    <2> QED
      BY <2>1 DEF Drives, RunsStand
  <1> QED
    BY <1>1, <1>2, TidyFrame

\* Where the runs stand, only a user of a run at work may leave its idle step.
LEMMA StandingQuiet ==
  ASSUME Standing, RunsStand,
         \A x \in Units \cup Probes :
            act'[x].pc # "idle" => act[x].pc # "idle" \/ act[RunOf[x]].pc = "working"
  PROVE  Standing'
  <1> SUFFICES ASSUME NEW r \in Runs PROVE Living(r)'
    BY DEF Standing
  <1>1. Living(r)
    BY DEF Standing
  <1>2. ASSUME NEW x \in Mine(r), act'[x].pc # "idle" PROVE act'[r].pc = "working"
    BY <1>1, <1>2 DEF Living, Mine, RunsStand
  <1>3. Mine(r)' = Mine(r)
    BY DEF Mine
  <1> QED
    BY <1>1, <1>2, <1>3 DEF Living, RunsStand

\* Where the runs stand, their trees stay on their branches.
LEMMA TreesQuiet ==
  ASSUME Standing, Trees, NEW S \in SUBSET Slots, SlotsSame(S), RunsStand,
         \A n \in S : TreeStays(n)
  PROVE  Trees'
  <1> SUFFICES ASSUME NEW r \in Runs, act'[r].pc \in {"launching", "working"}
               PROVE  slot'[run'[r].tree].at = "listed" /\ slot'[run'[r].tree].branch = r
    BY DEF Trees, OnBranch
  <1> DEFINE t == run[r].tree
  <1>1. /\ run'[r].tree = t /\ t \in Slots
        /\ slot[t].at = "listed" /\ slot[t].branch = r /\ r # NULL
    BY Names DEF RunsStand, Standing, Living, Trees, OnBranch, Users
  <1> HIDE DEF t
  <1>2. CASE t \in S
    BY <1>1, <1>2 DEF TreeStays
  <1>3. CASE t \notin S
    BY <1>1, <1>3 DEF SlotsSame
  <1> QED
    BY <1>1, <1>2, <1>3

\* Units out of X lose nothing of what they did when branches only grow and no ref they
\* need goes.
LEMMA EffortsFrame ==
  ASSUME Typed, Leases, Efforts, NEW X \in SUBSET Users, NEW S \in SUBSET Slots,
         \A n \in Slots \ S : slot'[n] = slot[n], UsersSame(X), Clear(X, S), Grows,
         \A u \in Units \ X : task'[u] = task[u] /\ RefsStay(u),
         \A u \in Units \cap X : Worked(u)' /\ Saved(u)'
  PROVE  Efforts'
  <1> SUFFICES ASSUME NEW u \in Units \ X PROVE Worked(u)' /\ Saved(u)'
    BY DEF Efforts
  <1>1. /\ u \in Users /\ u \notin Runs /\ RunOf[u] \in Runs
        /\ act'[u] = act[u] /\ task'[u] = task[u] /\ RefsStay(u)
    BY Names DEF UsersSame, Users
  <1>2. Worked(u) /\ Saved(u)
    BY DEF Efforts
  <1>3. /\ run[RunOf[u]].tip \subseteq run'[RunOf[u]].tip
        /\ run[RunOf[u]].life = "collected" => run'[RunOf[u]].life = "collected"
    BY <1>1 DEF Grows
  <1>4. ASSUME act[u].pc \in UnitHolds PROVE slot'[act[u].at] = slot[act[u].at]
    <2>1. Holding(u)
      BY <1>1, <1>4 DEF Holding
    <2>2. act[u].at \in Slots \ S
      BY <1>1, <2>1 DEF Leases, Leased, Clear
    <2> QED
      BY <2>2
  <1>5. ASSUME act[u].pc = "blocking", NEW f \in refs, f.unit = u PROVE f \in refs'
    BY <1>1, <1>5 DEF RefsStay
  <1>6. Worked(u)'
    BY <1>1, <1>2, <1>3, <1>4, <1>5 DEF Worked, UnitHolds
  <1>7. Saved(u)'
    BY <1>1, <1>2, <1>3 DEF Saved, RefsStay
  <1> QED
    BY <1>6, <1>7

\* A pass of gc, and a run that follows a build, lose nothing by the step of another.
LEMMA PassesFrame ==
  ASSUME Inv, NEW r \in Runs, NEW S \in SUBSET Slots, SlotsSame(S), gc' = gc,
         \A n \in S : Touches(r, n),
         \A q \in Runs \ {r} : /\ run'[q].tree = run[q].tree
                              /\ act'[q].pc = act[q].pc /\ act'[q].at = act[q].at,
         Enters(r), Paired(r)', Perils = {}, Passes
  PROVE  Passes'
  <1>1. gc.phase = "idle" \/ ~MayEnter
    BY DEF MayEnter
  <1>2. ASSUME gc.phase # "idle", NEW q \in Runs
        PROVE  /\ act'[q].pc \notin Entering
               /\ gc.give[q] # NULL => act'[q].pc \notin {"launching", "working"}
    <2>1. /\ act[q].pc \notin Entering
          /\ gc.give[q] # NULL => act[q].pc \notin {"launching", "working"}
      BY <1>2 DEF Passes, Aside
    <2>2. CASE q = r
      BY <1>1, <1>2, <2>1, <2>2 DEF Enters
    <2>3. CASE q # r
      BY <2>1, <2>3
    <2> QED
      BY <2>2, <2>3
  \* What the pass holds or looks at is on no branch, and stays so.
  <1>3. ASSUME gc.phase # "idle", NEW n \in Slots, slot[n].branch = NULL PROVE slot'[n].branch = NULL
    <2>1. act[r].pc \notin Entering
      BY <1>3 DEF Passes, Aside
    <2>2. CASE n \in S
      BY <1>3, <2>1, <2>2 DEF Touches
    <2>3. CASE n \notin S
      BY <1>3, <2>3 DEF SlotsSame
    <2> QED
      BY <2>2, <2>3
  <1>4. Aside'
    <2>1. gc.phase \in Tidying => gc.phase # "idle"
      BY DEF Tidying
    <2>2. ASSUME gc.phase \in Tidying, NEW n \in Slots, n \in gc.look \/ gc.at = n
          PROVE  slot'[n].branch = NULL
      BY <1>3, <2>1, <2>2 DEF Passes, Aside
    <2> QED
      BY <1>2, <2>2 DEF Aside
  \* It changes nothing of what the pass holds, nor of what another run follows with.
  <1>5. ASSUME NEW n \in Slots, gc.at = n
        PROVE  slot'[n] = slot[n] /\ lock'[n] = lock[n]
    <2>1. lock[n] = NULL /\ gc.phase \in Tidying /\ slot[n].branch = NULL
      BY <1>5 DEF Passes, Swept, Aside
    <2>2. ~CanHold(n) /\ slot[n].branch # r
      BY <1>5, <2>1, Names DEF CanHold, Users
    <2>3. CASE n \in S
      BY <2>1, <2>2, <2>3 DEF Touches
    <2>4. CASE n \notin S
      BY <2>4 DEF SlotsSame
    <2> QED
      BY <2>3, <2>4
  <1>6. Swept'
    BY <1>5 DEF Passes, Swept
  <1>7. ASSUME NEW q \in Runs \ {r}, act[q].pc = "following", NEW n \in Slots,
               n = run[q].tree \/ n = act[q].at
        PROVE  slot'[n] = slot[n] /\ lock'[n] = lock[n] /\ agents'[n] = agents[n]
    <2>1. lock[n] = [by |-> q, lives |-> TRUE] /\ slot[n].branch \in {NULL, q}
      BY <1>7 DEF Passes, Pairs, Paired
    <2>2. lock[n] # NULL /\ lock[n].by = q /\ lock[n].lives
      BY <2>1, Leases1
    <2>3. ~CanHold(n) /\ lock[n].by # r /\ slot[n].branch # r
      BY <2>1, <2>2, Names DEF CanHold, Gone, Users
    <2>4. CASE n \in S
      BY <2>3, <2>4 DEF Touches
    <2>5. CASE n \notin S
      BY <2>5 DEF SlotsSame
    <2> QED
      BY <2>4, <2>5
  <1>8. Pairs'
    <2> SUFFICES ASSUME NEW q \in Runs \ {r}, act'[q].pc = "following" PROVE Paired(q)'
      BY DEF Pairs, Paired
    <2>1. act[q].pc = "following" /\ Paired(q)
      BY DEF Passes, Pairs
    <2> PICK n \in Slots, m \in Slots : n = run[q].tree /\ m = act[q].at
      BY <2>1 DEF Paired
    <2>2. /\ slot'[n] = slot[n] /\ lock'[n] = lock[n] /\ agents'[n] = agents[n]
          /\ slot'[m] = slot[m] /\ lock'[m] = lock[m] /\ agents'[m] = agents[m]
      BY <1>7, <2>1
    <2>3. run'[q].tree = n /\ act'[q].at = m
      OBVIOUS
    <2> QED
      BY <2>1, <2>2, <2>3 DEF Paired
  <1> QED
    BY <1>4, <1>6, <1>8 DEF Passes

\* What a run, or a unit or a probe of it, holds by its lease it may change.
LEMMA LeaseTouches ==
  ASSUME NEW r \in Runs, NEW n \in Slots, lock[n] = [by |-> r, lives |-> TRUE],
         slot'[n].branch \in {slot[n].branch, NULL} \/ act[r].pc \in Entering
  PROVE  Touches(r, n)
  <1>1. lock[n] # NULL /\ lock[n].lives /\ lock[n].by = r
    BY Leases1
  <1> QED
    BY <1>1 DEF Touches

-----------------------------------------------------------------------------
(* The shapes of steps *)

\* A step of a unit or a probe, which changes at most checkouts only it may hold.
LEMMA UserKeeps ==
  ASSUME Inv, Typed', NEW x \in Units \cup Probes, NEW S \in SUBSET Slots,
         SlotsSame(S), UsersSame({x}), Clear({x}, S), RunsStand, Grows, gc' = gc,
         \A u \in Units \ {x} : task'[u] = task[u] /\ RefsStay(u),
         x \in Units => Worked(x)' /\ Saved(x)',
         act[RunOf[x]].pc = "working", \A n \in S : Touches(RunOf[x], n),
         Holding(x)' => \/ Holding(x) /\ act'[x].at = act[x].at
                        \/ act'[x].at \in S,
         Holding(x)' => Leased(x)',
         \A n \in S : Kempt(n)' /\ TreeStays(n) /\ DirtyStays(n)
  PROVE  Keeps
  <1>1. x \in Users /\ x \notin Runs
    BY Names DEF Users
  <1>2. Leases'
    BY <1>1, LeasesFrame DEF Inv
  <1>3. Apart'
    BY <1>1, ApartFrame DEF Inv, Clear
  <1>4. Tidy'
    BY TidyQuiet DEF Inv
  <1>5. Standing'
    <2>1. \A y \in Units \cup Probes : y # x => act'[y] = act[y]
      BY DEF UsersSame, Users
    <2> QED
      BY <2>1, StandingQuiet DEF Inv
  <1>6. Efforts'
    BY <1>1, EffortsFrame DEF Inv, SlotsSame
  <1>7. Forgotten'
    BY DEF Inv, Forgotten, RunsStand, Typed, Pass
  <1>8. Trees => Trees'
    BY TreesQuiet DEF Inv
  <1>9. \A n \in Slots : DirtyStays(n)
    BY DEF SlotsSame, DirtyStays
  <1>10. ASSUME Perils = {}, Passes PROVE Passes'
    <2>1. RunOf[x] \in Runs
      BY Names
    <2>2. \A q \in Runs : /\ run'[q].tree = run[q].tree
                          /\ act'[q].pc = act[q].pc /\ act'[q].at = act[q].at
      BY DEF RunsStand
    <2>3. Enters(RunOf[x]) /\ Paired(RunOf[x])'
      BY <2>1, <2>2 DEF Enters, Paired, Entering
    <2> QED
      BY <1>10, <2>1, <2>2, <2>3, PassesFrame
  <1> QED
    BY <1>2, <1>3, <1>4, <1>5, <1>6, <1>7, <1>8, <1>9, <1>10 DEF Keeps, Stands, Inv

\* A step that leaves every user where it is.
LEMMA StillKeeps ==
  ASSUME Inv, Typed', NEW S \in SUBSET Slots, NEW X \in SUBSET Units,
         SlotsSame(S), act' = act, Clear({}, S), RunsStand, Grows, Forgotten',
         \A u \in Units \ X : task'[u] = task[u] /\ RefsStay(u),
         \A u \in X : Worked(u)' /\ Saved(u)',
         \A n \in S : Kempt(n)' /\ TreeStays(n) /\ DirtyStays(n)
  PROVE  Stands
  <1>1. UsersSame({})
    BY DEF UsersSame
  <1>2. Leases'
    BY <1>1, LeasesFrame DEF Inv
  <1>3. Apart'
    BY DEF Inv, Apart, Holding
  <1>4. Tidy'
    BY TidyQuiet DEF Inv
  <1>5. Standing'
    BY StandingQuiet DEF Inv
  <1>6. Efforts'
    <2>1. X \in SUBSET Users /\ UsersSame(X) /\ Clear(X, S)
      BY <1>1 DEF UsersSame, Clear, Users
    <2> QED
      BY <2>1, EffortsFrame DEF Inv, SlotsSame
  <1>7. Trees => Trees'
    BY TreesQuiet DEF Inv
  <1>8. \A n \in Slots : DirtyStays(n)
    BY DEF SlotsSame, DirtyStays
  <1> QED
    BY <1>2, <1>3, <1>4, <1>5, <1>6, <1>7, <1>8 DEF Stands, Inv

\* A step of a run and its engine, which changes at most checkouts nobody else holds.
LEMMA RunStands ==
  ASSUME Inv, Typed', NEW r \in Runs, NEW S \in SUBSET Slots,
         SlotsSame(S), UsersSame({r}), Clear({r}, S), Registered, Grows, Forgotten',
         task' = task, \A u \in Units : RefsStay(u),
         \A q \in Runs \ {r} : run'[q] = run[q],
         Living(r)',
         Trees => OnBranch(r)',
         Holding(r)' => \/ Holding(r) /\ act'[r].at = act[r].at
                        \/ act'[r].at \in S,
         Holding(r)' => Leased(r)',
         \A n \in Slots \ S : lock[n] # NULL /\ lock[n].lives /\ lock[n].by = r => Drives(r, n)',
         \A n \in S : Kempt(n)' /\ DirtyStays(n),
         \A n \in S : TreeStays(n) \/ slot[n].branch = r
  PROVE  Stands
  <1>1. r \in Users /\ r \notin Units \cup Probes
    BY Names DEF Users
  <1>2. Leases'
    BY <1>1, LeasesFrame DEF Inv
  <1>3. Apart'
    BY <1>1, ApartFrame DEF Inv, Clear
  <1>4. \A q \in Runs \ {r} : run'[q] = run[q] /\ act'[q] = act[q]
    BY DEF UsersSame, Users
  <1>5. Tidy'
    <2>1. ASSUME NEW n \in Slots \ S, lock[n] # NULL, lock[n].lives PROVE Drives(lock[n].by, n)'
      <3>1. lock[n].by \in Runs /\ Drives(lock[n].by, n) /\ lock'[n] = lock[n]
        BY <2>1 DEF Inv, Tidy, Kempt, Typed, Lock, SlotsSame
      <3>2. CASE lock[n].by = r
        BY <2>1, <3>1, <3>2
      <3>3. CASE lock[n].by # r
        BY <3>1, <3>3, <1>4 DEF Drives
      <3> QED
        BY <3>2, <3>3
    <2> QED
      BY <2>1, TidyFrame DEF Inv
  <1>6. Standing'
    <2> SUFFICES ASSUME NEW q \in Runs \ {r} PROVE Living(q)'
      BY DEF Standing
    <2>1. \A x \in Units \cup Probes : act'[x] = act[x]
      BY <1>1 DEF UsersSame, Users
    <2>2. Living(q)
      BY DEF Inv, Standing
    <2> QED
      BY <2>1, <2>2, <1>4 DEF Living, Mine
  <1>7. Efforts'
    BY <1>1, EffortsFrame DEF Inv, SlotsSame
  <1>8. ASSUME Trees PROVE Trees'
    <2> SUFFICES ASSUME NEW q \in Runs \ {r}, act'[q].pc \in {"launching", "working"}
                 PROVE  slot'[run'[q].tree].at = "listed" /\ slot'[run'[q].tree].branch = q
      BY <1>8 DEF Trees, OnBranch
    <2> DEFINE t == run[q].tree
    <2>1. /\ run'[q].tree = t /\ t \in Slots
          /\ slot[t].at = "listed" /\ slot[t].branch = q /\ q # NULL
      BY <1>4, <1>8, Names DEF Inv, Standing, Living, Trees, OnBranch, Users
    <2> HIDE DEF t
    <2>2. CASE t \in S
      BY <2>1, <2>2 DEF TreeStays
    <2>3. CASE t \notin S
      BY <2>1, <2>3 DEF SlotsSame
    <2> QED
      BY <2>1, <2>2, <2>3
  <1>9. \A n \in Slots : DirtyStays(n)
    BY DEF SlotsSame, DirtyStays
  <1> QED
    BY <1>2, <1>3, <1>5, <1>6, <1>7, <1>8, <1>9 DEF Stands, Inv

\* The same, where the step is not gc's.
LEMMA RunKeeps ==
  ASSUME Inv, Typed', NEW r \in Runs, NEW S \in SUBSET Slots,
         SlotsSame(S), UsersSame({r}), Clear({r}, S), Registered, Grows, Forgotten',
         task' = task, \A u \in Units : RefsStay(u),
         \A q \in Runs \ {r} : run'[q] = run[q],
         Living(r)',
         Trees => OnBranch(r)',
         Holding(r)' => \/ Holding(r) /\ act'[r].at = act[r].at
                        \/ act'[r].at \in S,
         Holding(r)' => Leased(r)',
         \A n \in Slots \ S : lock[n] # NULL /\ lock[n].lives /\ lock[n].by = r => Drives(r, n)',
         \A n \in S : Kempt(n)' /\ DirtyStays(n),
         \A n \in S : TreeStays(n) \/ slot[n].branch = r,
         gc' = gc, \A n \in S : Touches(r, n), Enters(r), Paired(r)'
  PROVE  Keeps
  <1>1. Stands
    BY RunStands
  <1>2. \A q \in Runs \ {r} : act'[q] = act[q]
    BY Names DEF UsersSame, Users
  <1>3. ASSUME Perils = {}, Passes PROVE Passes'
    BY <1>2, <1>3, PassesFrame
  <1> QED
    BY <1>1, <1>3 DEF Keeps

-----------------------------------------------------------------------------
(* Units and probes at work *)

\* Who holds a checkout holds it alone, in the name of its run, whose engine works.
LEMMA Hold ==
  ASSUME Inv, NEW x \in Units \cup Probes, NEW n \in Slots,
         act[x].at = n, act[x].pc \in Takes \cup UnitHolds
  PROVE  /\ x \in Users /\ x \notin Runs /\ RunOf[x] \in Runs
         /\ Holding(x) /\ Clear({x}, {n}) /\ Leased(x)
         /\ lock[n] = [by |-> RunOf[x], lives |-> TRUE] /\ lock[n] # NULL
         /\ lock[n].by = RunOf[x]
         /\ slot[n].by = RunOf[x] /\ agents[n] \notin Units \cup Probes
         /\ act[RunOf[x]].pc = "working" /\ run[RunOf[x]].engine
         /\ run[RunOf[x]].registry = "alive"
         /\ act[x].pc # "making" => slot[n].at = "listed"
         /\ act[x].pc \in UnitHolds => slot[n].branch = NULL
         /\ n \in In(x)
  <1>1. x \in Users /\ x \notin Runs /\ RunOf[x] \in Runs /\ Run(x) = RunOf[x]
    BY Names, RunOfUsers DEF Users
  <1>2. Holding(x)
    BY <1>1 DEF Holding
  <1>3. Leased(x)
    BY <1>1, <1>2 DEF Inv, Leases
  <1>4. Clear({x}, {n})
    BY <1>1, <1>2 DEF Inv, Apart, Clear
  <1>5. lock[n] = [by |-> RunOf[x], lives |-> TRUE] /\ slot[n].by = RunOf[x]
        /\ agents[n] \notin Units \cup Probes
    BY <1>1, <1>3 DEF Leased
  <1>6. lock[n] # NULL
    BY <1>1, <1>5, Leases1
  <1>7. lock[n].by = RunOf[x]
    BY <1>5
  <1>8. act[RunOf[x]].pc = "working" /\ run[RunOf[x]].engine /\ run[RunOf[x]].registry = "alive"
    <2>1. Living(RunOf[x]) /\ x \in Mine(RunOf[x]) /\ act[x].pc # "idle"
      BY <1>1 DEF Inv, Standing, Mine, Takes, UnitHolds
    <2> QED
      BY <2>1 DEF Living
  <1>9. /\ act[x].pc # "making" => slot[n].at = "listed"
        /\ act[x].pc \in UnitHolds => slot[n].branch = NULL
    BY <1>3 DEF Leased
  <1>10. n \in In(x)
    BY <1>1 DEF In, Takes, UnitHolds
  <1> QED
    BY <1>1, <1>2, <1>3, <1>4, <1>5, <1>6, <1>7, <1>8, <1>9, <1>10

\* So the run of who holds a checkout works, and may change it.
LEMMA HoldTouches ==
  ASSUME Inv, NEW x \in Units \cup Probes, NEW n \in Slots,
         act[x].at = n, act[x].pc \in Takes \cup UnitHolds,
         slot'[n].branch = slot[n].branch
  PROVE  act[RunOf[x]].pc = "working" /\ Touches(RunOf[x], n)
  <1>1. act[RunOf[x]].pc = "working" /\ Leased(x)
    BY Hold
  <1>2. RunOf[x] \in Runs /\ Run(x) = RunOf[x]
    BY Names, RunOfUsers DEF Users
  <1>3. lock[n] = [by |-> RunOf[x], lives |-> TRUE]
    BY <1>1, <1>2 DEF Leased
  <1> QED
    BY <1>1, <1>2, <1>3, LeaseTouches

\* An idle user is a user's state.
LEMMA IdleAct == Idle \in Act /\ Idle.pc = "idle"
  BY DEF Idle, Act, Base, Commits, RunPcs, UnitPcs, Looks

\* So is an idle one sent to a step, to a checkout, from a commit.
LEMMA StepAct ==
  ASSUME NEW p \in RunPcs \cup UnitPcs, NEW n \in Slots, NEW b \in Commits
  PROVE  /\ [Idle EXCEPT !.pc = p] \in Act
         /\ [Idle EXCEPT !.pc = p, !.at = n] \in Act
         /\ [Idle EXCEPT !.pc = p, !.at = n, !.base = b] \in Act
  <1>1. Idle \in Act
    BY IdleAct
  <1> QED
    BY <1>1 DEF Act

\* A user that works in a checkout leaves it, and drops its lease.
LEMMA LeavesKeeps ==
  ASSUME Inv, Typed', NEW x \in Units \cup Probes, NEW n \in Slots,
         act[x].at = n, act[x].pc \in UnitHolds,
         act' = [act EXCEPT ![x] = Idle], lock' = [lock EXCEPT ![n] = NULL],
         agents' = agents, run' = run, refs' = refs, gc' = gc,
         \A m \in Slots \ {n} : slot'[m] = slot[m],
         slot'[n].at = slot[n].at, slot'[n].branch = slot[n].branch,
         slot'[n].unit = slot[n].unit,
         slot'[n].dirty \in {slot[n].dirty, NULL},
         \A u \in Units \ {x} : task'[u] = task[u],
         x \in Units => Saved(x)'
  PROVE  Keeps
  <1>1. /\ x \in Users /\ x \notin Runs /\ Clear({x}, {n}) /\ Leased(x)
        /\ slot[n].branch = NULL /\ n \in In(x)
    BY Hold
  <1>2. act'[x].pc = "idle" /\ UsersSame({x})
    BY <1>1, IdleAct DEF UsersSame, Inv, Typed
  <1>3. SlotsSame({n}) /\ lock'[n] = NULL
    BY DEF SlotsSame, Inv, Typed
  <1>4. RunsStand
    BY <1>1, <1>2 DEF RunsStand, UsersSame, Users
  <1>5. Grows
    BY DEF Grows
  <1>6. ~Holding(x)'
    BY <1>1, <1>2 DEF Holding, Takes, UnitHolds
  <1>7. x \in Units => Worked(x)'
    BY <1>2 DEF Worked, UnitHolds
  <1>8. slot[n].dirty \in {NULL, x}
    BY <1>1 DEF Leased
  <1>9. Kempt(n)'
    <2>1. Kempt(n)
      BY DEF Inv, Tidy
    <2>2. agents[n] \notin Units \cup Probes
      BY <1>1 DEF Leased
    <2> QED
      BY <1>3, <1>4, <2>1, <2>2 DEF Kempt
  <1>10. DirtyStays(n)
    <2>1. act[x].pc \in Takes \cup UnitHolds /\ act[x].pc # "making"
      BY DEF UnitHolds
    <2>2. slot[n].at = "listed"
      BY <2>1, Hold
    <2> QED
      BY <1>1, <1>8, <2>2, <2>1 DEF DirtyStays
  <1>11. TreeStays(n)
    BY <1>1 DEF TreeStays
  <1>12. \A u \in Units \ {x} : task'[u] = task[u] /\ RefsStay(u)
    BY DEF RefsStay
  <1>13. act[RunOf[x]].pc = "working" /\ Touches(RunOf[x], n)
    <2>1. act[x].pc \in Takes \cup UnitHolds /\ slot'[n].branch = slot[n].branch
      OBVIOUS
    <2> QED
      BY <2>1, HoldTouches
  <1> QED
    BY <1>1, <1>2, <1>3, <1>4, <1>5, <1>6, <1>7, <1>9, <1>10, <1>11, <1>12, <1>13, UserKeeps

\* The type of a step of one user: its own state, and what it holds.
LEMMA ActTyped ==
  ASSUME Typed, NEW x \in Users, NEW a \in Act, act' = [act EXCEPT ![x] = a],
         a.pc \in IF x \in Runs THEN RunPcs ELSE IF x \in Units THEN UnitPcs ELSE ProbePcs
  PROVE  /\ act' \in [Users -> Act] /\ act'[x] = a /\ UsersSame({x})
         /\ \A r \in Runs : act'[r].pc \in RunPcs
         /\ \A u \in Units : act'[u].pc \in UnitPcs
         /\ \A m \in Probes : act'[m].pc \in ProbePcs
  BY Names DEF Typed, Users, UsersSame

\* A user that ends is idle, and the others are where they were.
LEMMA IdleTyped ==
  ASSUME Typed, NEW x \in Users, act' = [act EXCEPT ![x] = Idle]
  PROVE  /\ act' \in [Users -> Act] /\ act'[x].pc = "idle" /\ UsersSame({x})
         /\ \A r \in Runs : act'[r].pc \in RunPcs
         /\ \A u \in Units : act'[u].pc \in UnitPcs
         /\ \A m \in Probes : act'[m].pc \in ProbePcs
  BY ActTyped, IdleAct DEF RunPcs, UnitPcs, ProbePcs, Looks

\* One checkout is rewritten.
LEMMA SlotTyped ==
  ASSUME Typed, NEW n \in Slots, NEW s \in Slot, slot' = [slot EXCEPT ![n] = s]
  PROVE  /\ slot' \in [Slots -> Slot] /\ slot'[n] = s
         /\ \A m \in Slots \ {n} : slot'[m] = slot[m]
  BY DEF Typed

\* One lock is rewritten.
LEMMA LockTyped ==
  ASSUME Typed, NEW n \in Slots, NEW l \in Lock \cup {NULL}, lock' = [lock EXCEPT ![n] = l]
  PROVE  /\ lock' \in [Slots -> Lock \cup {NULL}] /\ lock'[n] = l
         /\ \A m \in Slots \ {n} : lock'[m] = lock[m]
  BY DEF Typed

\* One task's record is rewritten.
LEMMA TaskTyped ==
  ASSUME Typed, NEW u \in Units, NEW t \in Task, task' = [task EXCEPT ![u] = t]
  PROVE  /\ task' \in [Units -> Task] /\ task'[u] = t
         /\ \A v \in Units \ {u} : task'[v] = task[v]
  BY DEF Typed

\* A checkout given back has its build, and all else as it is left.
LEMMA GivesBack ==
  ASSUME Typed, NEW n \in Slots, NEW s \in Slot,
         slot' = [slot EXCEPT ![n] = [s EXCEPT !.built = TRUE]]
  PROVE  /\ slot' \in [Slots -> Slot]
         /\ \A m \in Slots \ {n} : slot'[m] = slot[m]
         /\ slot'[n].at = s.at /\ slot'[n].branch = s.branch /\ slot'[n].unit = s.unit
         /\ slot'[n].dirty = s.dirty /\ slot'[n].head = s.head /\ slot'[n].by = s.by
  <1>1. [s EXCEPT !.built = TRUE] \in Slot
    BY DEF Slot
  <1>2. slot' \in [Slots -> Slot] /\ slot'[n] = [s EXCEPT !.built = TRUE]
        /\ \A m \in Slots \ {n} : slot'[m] = slot[m]
    BY <1>1, SlotTyped
  <1> QED
    BY <1>2 DEF Slot

\* Block: a unit that stops has its log name the commit a ref keeps, and gives its checkout back.
LEMMA BlockKeeps ==
  ASSUME Inv, NEW u \in Units, NEW n \in Slots, Block(u, n)
  PROVE  Keeps
  <1> DEFINE left == IF slot[n].head = act[u].base THEN NULL ELSE slot[n].head
             t == [task[u] EXCEPT !.status = "blocked", !.left = left]
  <1>1. /\ act[u].at = n /\ act[u].pc = "blocking" /\ u \in Users
        /\ act' = [act EXCEPT ![u] = Idle] /\ lock' = [lock EXCEPT ![n] = NULL]
        /\ slot' = [slot EXCEPT ![n] = [slot[n] EXCEPT !.built = TRUE]]
        /\ agents' = agents /\ run' = run /\ refs' = refs /\ gc' = gc
    BY DEF Block, At, GiveBack, Users
  <1>2. task' = [task EXCEPT ![u] = t]
    BY DEF Block
  <1>3. slot[n].head \in Commits /\ slot[n] \in Slot
    BY Slotted DEF Inv
  <1>4. t \in Task /\ t.left = left /\ t.status = "blocked"
    <2>1. slot[n].head \in Commits /\ task[u] \in Task
      BY <1>3 DEF Inv, Typed
    <2>2. CASE slot[n].head = act[u].base
      BY <2>1, <2>2 DEF Task
    <2>3. CASE slot[n].head # act[u].base
      BY <2>1, <2>3 DEF Task
    <2> QED
      BY <2>2, <2>3
  <1> HIDE DEF t
  <1>5. task' \in [Units -> Task] /\ task'[u] = t /\ \A v \in Units \ {u} : task'[v] = task[v]
    BY <1>2, <1>4, TaskTyped DEF Inv
  <1>6. Typed'
    BY <1>1, <1>3, <1>5, GivesBack, IdleTyped, LockTyped DEF Inv, Typed
  <1>7. Saved(u)'
    <2>1. left # NULL => \E f \in refs : f.unit = u /\ f.commit = left
      BY <1>1 DEF Inv, Efforts, Worked
    <2> HIDE DEF left
    <2> QED
      BY <1>1, <1>4, <1>5, <2>1 DEF Saved
  <1>8. /\ \A m \in Slots \ {n} : slot'[m] = slot[m]
        /\ slot'[n].at = slot[n].at /\ slot'[n].branch = slot[n].branch
        /\ slot'[n].unit = slot[n].unit /\ slot'[n].dirty = slot[n].dirty
    BY <1>1, <1>3, GivesBack DEF Inv
  <1> QED
    BY <1>1, <1>5, <1>6, <1>7, <1>8, LeavesKeeps DEF UnitHolds

\* Reject: a unit whose work is refused is pending again, and its checkout given back.
LEMMA RejectKeeps ==
  ASSUME Inv, NEW u \in Units, NEW n \in Slots, Reject(u, n)
  PROVE  Keeps
  <1> DEFINE t == [task[u] EXCEPT !.status = "pending"]
  <1>1. /\ act[u].at = n /\ act[u].pc \in {"committed", "replayed"} /\ u \in Users
        /\ act' = [act EXCEPT ![u] = Idle] /\ lock' = [lock EXCEPT ![n] = NULL]
        /\ slot' = [slot EXCEPT ![n] = [slot[n] EXCEPT !.built = TRUE]]
        /\ agents' = agents /\ run' = run /\ refs' = refs /\ gc' = gc
        /\ task' = [task EXCEPT ![u] = t]
    BY DEF Reject, At, GiveBack, Users
  <1>2. slot[n] \in Slot
    BY Slotted DEF Inv
  <1>3. t \in Task /\ t.left = task[u].left /\ t.status = "pending"
    BY DEF Inv, Typed, Task
  <1> HIDE DEF t
  <1>4. task' \in [Units -> Task] /\ task'[u] = t /\ \A v \in Units \ {u} : task'[v] = task[v]
    BY <1>1, <1>3, TaskTyped DEF Inv
  <1>5. Typed'
    BY <1>1, <1>2, <1>4, GivesBack, IdleTyped, LockTyped DEF Inv, Typed
  <1>6. Saved(u)'
    BY <1>1, <1>3, <1>4 DEF Inv, Efforts, Saved
  <1>7. /\ \A m \in Slots \ {n} : slot'[m] = slot[m]
        /\ slot'[n].at = slot[n].at /\ slot'[n].branch = slot[n].branch
        /\ slot'[n].unit = slot[n].unit /\ slot'[n].dirty = slot[n].dirty
    BY <1>1, <1>2, GivesBack DEF Inv
  <1> QED
    BY <1>1, <1>4, <1>5, <1>6, <1>7, LeavesKeeps DEF UnitHolds

\* Done: a landed unit's checkout goes back once it is on its run's branch.
LEMMA DoneKeeps ==
  ASSUME Inv, NEW u \in Units, NEW n \in Slots, Done(u, n)
  PROVE  Keeps
  <1> DEFINE t == [task[u] EXCEPT !.status = "done", !.landed = slot[n].head]
  <1>1. /\ act[u].at = n /\ act[u].pc = "retired" /\ u \in Users
        /\ act' = [act EXCEPT ![u] = Idle] /\ lock' = [lock EXCEPT ![n] = NULL]
        /\ slot' = [slot EXCEPT ![n] = [slot[n] EXCEPT !.built = TRUE]]
        /\ agents' = agents /\ run' = run /\ refs' = refs /\ gc' = gc
        /\ task' = [task EXCEPT ![u] = t]
    BY DEF Done, At, GiveBack, Users
  <1>2. slot[n] \in Slot /\ slot[n].head \in Commits
    BY Slotted DEF Inv
  <1>3. t \in Task /\ t.left = task[u].left /\ t.landed = slot[n].head
    BY <1>2 DEF Inv, Typed, Task
  <1> HIDE DEF t
  <1>4. task' \in [Units -> Task] /\ task'[u] = t /\ \A v \in Units \ {u} : task'[v] = task[v]
    BY <1>1, <1>3, TaskTyped DEF Inv
  <1>5. Typed'
    BY <1>1, <1>2, <1>4, GivesBack, IdleTyped, LockTyped DEF Inv, Typed
  <1>6. Saved(u)'
    BY <1>1, <1>3, <1>4 DEF Inv, Efforts, Saved, Worked
  <1>7. /\ \A m \in Slots \ {n} : slot'[m] = slot[m]
        /\ slot'[n].at = slot[n].at /\ slot'[n].branch = slot[n].branch
        /\ slot'[n].unit = slot[n].unit /\ slot'[n].dirty = slot[n].dirty
    BY <1>1, <1>2, GivesBack DEF Inv
  <1> QED
    BY <1>1, <1>4, <1>5, <1>6, <1>7, LeavesKeeps DEF UnitHolds

\* Interrupt: a unit that is cut off drops its lock, and leaves its checkout kept for it.
LEMMA InterruptKeeps ==
  ASSUME Inv, NEW u \in Units, NEW n \in Slots, Interrupt(u, n)
  PROVE  Keeps
  <1>1. /\ act[u].at = n /\ act[u].pc = "working" /\ u \in Users
        /\ act' = [act EXCEPT ![u] = Idle] /\ lock' = [lock EXCEPT ![n] = NULL]
        /\ slot' = slot /\ agents' = agents /\ run' = run /\ refs' = refs /\ gc' = gc
        /\ task' = task
    BY DEF Interrupt, At, Users
  <1>2. Typed'
    BY <1>1, IdleTyped, LockTyped DEF Inv, Typed
  <1>3. Saved(u)'
    BY <1>1 DEF Inv, Efforts, Saved
  <1> QED
    BY <1>1, <1>2, <1>3, LeavesKeeps DEF UnitHolds, Inv

\* PutBack: a probe's checkout is cleared and given back, or stays out of the pool.
LEMMA PutBackKeeps ==
  ASSUME Inv, NEW m \in Probes, NEW n \in Slots, PutBack(m, n)
  PROVE  Keeps
  <1> DEFINE s == [slot[n] EXCEPT !.dirty = NULL]
  <1>1. /\ act[m].at = n /\ act[m].pc = "working" /\ m \in Users /\ m \notin Units
        /\ act' = [act EXCEPT ![m] = Idle] /\ lock' = [lock EXCEPT ![n] = NULL]
        /\ slot' = slot \/ slot' = [slot EXCEPT ![n] = [s EXCEPT !.built = TRUE]]
        /\ agents' = agents /\ run' = run /\ refs' = refs /\ gc' = gc /\ task' = task
    BY Names DEF PutBack, At, GiveBack, Users
  <1>2. s \in Slot /\ s.at = slot[n].at /\ s.branch = slot[n].branch /\ s.unit = slot[n].unit
        /\ s.dirty = NULL
    BY Slotted DEF Inv, Slot
  <1> HIDE DEF s
  <1>3. /\ slot' \in [Slots -> Slot]
        /\ \A k \in Slots \ {n} : slot'[k] = slot[k]
        /\ slot'[n].at = slot[n].at /\ slot'[n].branch = slot[n].branch
        /\ slot'[n].unit = slot[n].unit /\ slot'[n].dirty \in {slot[n].dirty, NULL}
    BY <1>1, <1>2, GivesBack DEF Inv, Typed
  <1>4. Typed'
    BY <1>1, <1>3, IdleTyped, LockTyped DEF Inv, Typed
  <1> QED
    BY <1>1, <1>3, <1>4, LeavesKeeps DEF UnitHolds, Inv

\* What is left of a step of unit or probe x in checkout n that goes on working there: the
\* checkout is as its step must find it.
LEMMA WorksKeeps ==
  ASSUME Inv, Typed', NEW x \in Units \cup Probes, NEW n \in Slots,
         act[x].at = n, act[x].pc \in UnitHolds, act'[x].pc \in UnitHolds, act'[x].at = n,
         UsersSame({x}), lock' = lock, agents' = agents, gc' = gc,
         RunsStand, Grows,
         \A m \in Slots \ {n} : slot'[m] = slot[m],
         slot'[n].at = slot[n].at, slot'[n].branch = slot[n].branch, slot'[n].by = slot[n].by,
         IF act'[x].pc = "retired" THEN slot'[n].unit = NULL ELSE slot'[n].unit = slot[n].unit,
         act[x].pc # "retired",
         slot'[n].dirty \in IF act'[x].pc \in {"opened", "working"} THEN {NULL, x} ELSE {NULL},
         \A u \in Units \ {x} : task'[u] = task[u] /\ RefsStay(u),
         x \in Units => Worked(x)' /\ Saved(x)',
         x \in Probes => act'[x].pc = "working"
  PROVE  Keeps
  <1>1. /\ x \in Users /\ x \notin Runs /\ Clear({x}, {n}) /\ Leased(x) /\ Holding(x)
        /\ slot[n].branch = NULL /\ slot[n].at = "listed" /\ n \in In(x) /\ RunOf[x] \in Runs
        /\ lock[n] = [by |-> RunOf[x], lives |-> TRUE]
    BY Hold DEF UnitHolds
  <1>2. SlotsSame({n})
    BY DEF SlotsSame
  <1>3. slot[n].dirty \in {NULL, x}
    BY <1>1 DEF Leased
  <1>4. x \in Units => slot[n].unit # NULL /\ slot[n].unit[1] = x
    BY <1>1 DEF Leased
  <1>5. x \in Probes => slot[n].unit = NULL
    <2>1. ASSUME x \in Probes PROVE act[x].pc = "working"
      BY <2>1 DEF Inv, Typed, ProbePcs, Looks, Takes, UnitHolds
    <2> QED
      BY <1>1, <2>1 DEF Leased
  <1>6. Leased(x)'
    <2>1. /\ lock'[n] = [by |-> Run(x), lives |-> TRUE] /\ slot'[n].by = Run(x)
          /\ agents'[n] \notin Units \cup Probes
      BY <1>1 DEF Leased
    <2>2. /\ slot'[n].at = "listed" /\ slot'[n].branch = NULL
          /\ act'[x].pc \notin Takes
      BY <1>1 DEF Takes, UnitHolds
    <2>3. act'[x].pc \in UnitHolds \ {"retired"} /\ x \in Units =>
            slot'[n].unit # NULL /\ slot'[n].unit[1] = x
      BY <1>4
    <2>4. act'[x].pc = "retired" \/ (act'[x].pc = "working" /\ x \in Probes) => slot'[n].unit = NULL
      BY <1>5
    <2> QED
      BY <2>1, <2>2, <2>3, <2>4 DEF Leased, Takes
  <1>7. Kempt(n)'
    <2>1. Kempt(n)
      BY DEF Inv, Tidy
    <2>2. /\ slot'[n].at = "listed" /\ slot'[n].branch = NULL
          /\ agents'[n] \notin Units \cup Probes
      BY <1>1 DEF Leased
    <2>3. slot'[n].unit # NULL => slot'[n].dirty \in {NULL, slot'[n].unit[1]}
      BY <1>4, <1>5, <1>1 DEF UnitHolds
    <2>4. lock[n] # NULL /\ lock[n].lives => Drives(lock[n].by, n)'
      <3> SUFFICES ASSUME lock[n] # NULL, lock[n].lives PROVE Drives(lock[n].by, n)'
        OBVIOUS
      <3>1. lock[n].by \in Runs /\ Drives(lock[n].by, n) /\ lock'[n] = lock[n]
        BY <2>1 DEF Kempt, Inv, Typed, Lock
      <3> QED
        BY <3>1 DEF Drives, RunsStand
    <2>5. agents'[n] # NULL => run'[Run(agents'[n])].registry # "none"
      <3> SUFFICES ASSUME agents[n] # NULL PROVE run'[Run(agents[n])].registry # "none"
        OBVIOUS
      <3>1. agents[n] \in Users /\ run[Run(agents[n])].registry # "none"
        BY <2>1 DEF Kempt, Inv, Typed
      <3> QED
        BY <3>1, RunOfUsers DEF RunsStand
    <2> QED
      BY <2>2, <2>3, <2>4, <2>5 DEF Kempt
  <1>8. DirtyStays(n) /\ TreeStays(n)
    BY <1>1, <1>3 DEF DirtyStays, TreeStays
  <1>9. act[RunOf[x]].pc = "working" /\ Touches(RunOf[x], n)
    <2>1. act[RunOf[x]].pc = "working" /\ RunOf[x] \in Runs
          /\ lock[n] = [by |-> RunOf[x], lives |-> TRUE]
      BY <1>1, Hold DEF UnitHolds
    <2> QED
      BY <1>1, Hold, <2>1, LeaseTouches
  <1> QED
    BY <1>1, <1>2, <1>6, <1>7, <1>8, <1>9, UserKeeps

\* Write: who holds a checkout to work in it leaves work there uncommitted.
LEMMA WriteKeeps ==
  ASSUME Inv, NEW x \in Units \cup Probes, NEW n \in Slots, Write(x, n)
  PROVE  Keeps
  <1> DEFINE s == [slot[n] EXCEPT !.dirty = x]
  <1>1. /\ act[x].at = n /\ act[x].pc = "working" /\ x \in Users /\ x \notin Runs
        /\ act' = act /\ lock' = lock /\ agents' = agents /\ run' = run /\ refs' = refs
        /\ gc' = gc /\ task' = task /\ slot' = [slot EXCEPT ![n] = s]
    BY Names DEF Write, At, Users
  <1>2. /\ s \in Slot /\ s.at = slot[n].at /\ s.branch = slot[n].branch /\ s.unit = slot[n].unit
        /\ s.dirty = x /\ s.head = slot[n].head /\ s.by = slot[n].by
    BY <1>1, Slotted DEF Inv, Slot
  <1> HIDE DEF s
  <1>3. /\ slot' \in [Slots -> Slot] /\ slot'[n] = s
        /\ \A m \in Slots \ {n} : slot'[m] = slot[m]
    BY <1>1, <1>2, SlotTyped DEF Inv
  <1>4. Typed'
    BY <1>1, <1>3 DEF Inv, Typed
  <1>5. UsersSame({x}) /\ RunsStand /\ Grows
    BY <1>1 DEF UsersSame, RunsStand, Grows
  <1>6. x \in Units => Worked(x)' /\ Saved(x)'
    BY <1>1, <1>2, <1>3 DEF Inv, Efforts, Worked, Saved
  <1>7. \A u \in Units \ {x} : task'[u] = task[u] /\ RefsStay(u)
    BY <1>1 DEF RefsStay
  <1> QED
    BY <1>1, <1>2, <1>3, <1>4, <1>5, <1>6, <1>7, WorksKeeps DEF UnitHolds

\* A user goes to another step of its own.
LEMMA PcTyped ==
  ASSUME Typed, NEW x \in Users, NEW p, act' = [act EXCEPT ![x].pc = p],
         p \in IF x \in Runs THEN RunPcs ELSE IF x \in Units THEN UnitPcs ELSE ProbePcs
  PROVE  /\ act' \in [Users -> Act] /\ UsersSame({x})
         /\ act'[x].pc = p /\ act'[x].at = act[x].at /\ act'[x].base = act[x].base
         /\ act'[x].listed = act[x].listed
         /\ \A r \in Runs : act'[r].pc \in RunPcs
         /\ \A u \in Units : act'[u].pc \in UnitPcs
         /\ \A m \in Probes : act'[m].pc \in ProbePcs
  <1> DEFINE a == [act[x] EXCEPT !.pc = p]
  <1>1. act[x] \in Act /\ p \in RunPcs \cup UnitPcs
    BY DEF Typed, ProbePcs, RunPcs, UnitPcs, UnitHolds
  <1>2. /\ a \in Act /\ a.pc = p /\ a.at = act[x].at /\ a.base = act[x].base
        /\ a.listed = act[x].listed
    BY <1>1 DEF Act
  <1>3. act' = [act EXCEPT ![x] = a]
    OBVIOUS
  <1> HIDE DEF a
  <1> QED
    BY <1>2, <1>3, ActTyped

\* The runs stay where they are when a unit or a probe moves.
LEMMA RunsStandAside ==
  ASSUME NEW x \in Units \cup Probes, UsersSame({x}), run' = run
  PROVE  RunsStand /\ Grows
  BY Names DEF UsersSame, RunsStand, Grows, Users

\* RecordRunning: a unit's log says it runs once its checkout is its own.
LEMMA RecordRunningKeeps ==
  ASSUME Inv, NEW u \in Units, NEW n \in Slots, RecordRunning(u, n)
  PROVE  Keeps
  <1>1. PICK carried \in IF task[u].left = NULL \/ ~Clean(n) THEN {slot[n].dirty} ELSE {NULL, u} :
          slot' = [slot EXCEPT ![n].dirty = carried]
    BY DEF RecordRunning
  <1> DEFINE s == [slot[n] EXCEPT !.dirty = carried]
             t == [task[u] EXCEPT !.status = "running", !.left = NULL, !.resumes = FALSE]
  <1>2. /\ act[u].at = n /\ act[u].pc = "opened" /\ u \in Users /\ u \notin Runs /\ u \notin Probes
        /\ act' = [act EXCEPT ![u].pc = "working"] /\ lock' = lock /\ agents' = agents
        /\ run' = run /\ refs' = refs /\ gc' = gc
        /\ task' = [task EXCEPT ![u] = t] /\ slot' = [slot EXCEPT ![n] = s]
    BY <1>1, Names DEF RecordRunning, At, Users
  <1>3. Leased(u)
    BY <1>2, Hold DEF UnitHolds
  <1>4. carried \in {NULL, u}
    BY <1>2, <1>3 DEF Leased
  <1>5. /\ s \in Slot /\ s.at = slot[n].at /\ s.branch = slot[n].branch /\ s.unit = slot[n].unit
        /\ s.dirty = carried /\ s.head = slot[n].head /\ s.by = slot[n].by
    BY <1>2, <1>4, Slotted DEF Inv, Slot
  <1>6. t \in Task /\ t.left = NULL /\ t.status = "running"
    BY DEF Inv, Typed, Task
  <1> HIDE DEF s, t
  <1>7. /\ slot' \in [Slots -> Slot] /\ slot'[n] = s
        /\ \A m \in Slots \ {n} : slot'[m] = slot[m]
    BY <1>2, <1>5, SlotTyped DEF Inv
  <1>8. task' \in [Units -> Task] /\ task'[u] = t /\ \A v \in Units \ {u} : task'[v] = task[v]
    BY <1>2, <1>6, TaskTyped DEF Inv
  <1>9. /\ act' \in [Users -> Act] /\ UsersSame({u})
        /\ act'[u].pc = "working" /\ act'[u].at = n /\ act'[u].base = act[u].base
        /\ \A r \in Runs : act'[r].pc \in RunPcs
        /\ \A v \in Units : act'[v].pc \in UnitPcs
        /\ \A m \in Probes : act'[m].pc \in ProbePcs
    BY <1>2, PcTyped DEF Inv, UnitPcs, UnitHolds
  <1>10. Typed'
    BY <1>2, <1>7, <1>8, <1>9 DEF Inv, Typed
  <1>11. Worked(u)' /\ Saved(u)'
    BY <1>2, <1>5, <1>6, <1>7, <1>8, <1>9 DEF Inv, Efforts, Worked, Saved
  <1>12. \A v \in Units \ {u} : task'[v] = task[v] /\ RefsStay(v)
    BY <1>2, <1>8 DEF RefsStay
  <1>13. RunsStand /\ Grows
    BY <1>2, <1>9, RunsStandAside
  <1> QED
    BY <1>2, <1>4, <1>5, <1>7, <1>9, <1>10, <1>11, <1>12, <1>13, WorksKeeps DEF UnitHolds

\* Replay: a unit's commit is replayed on its run's branch.
LEMMA ReplayKeeps ==
  ASSUME Inv, NEW u \in Units, NEW n \in Slots, Replay(u, n)
  PROVE  Keeps
  <1> DEFINE tip == run[RunOf[u]].tip
             own == slot[n].head \ act[u].base
             head == IF tip = act[u].base THEN slot[n].head
                     ELSE tip \cup {[w EXCEPT !.replayed = TRUE] : w \in own}
             s == [slot[n] EXCEPT !.head = head]
             a == [act[u] EXCEPT !.pc = "replayed", !.base = tip]
  <1>1. /\ act[u].at = n /\ act[u].pc = "committed" /\ u \in Users /\ u \notin Runs /\ u \notin Probes
        /\ lock' = lock /\ agents' = agents
        /\ run' = run /\ refs' = refs /\ gc' = gc /\ task' = task /\ RunOf[u] \in Runs
    BY Names DEF Replay, At, Users
  <1>2. act' = [act EXCEPT ![u] = a] /\ slot' = [slot EXCEPT ![n] = s]
    BY DEF Replay
  <1>3. Leased(u)
    BY <1>1, Hold DEF UnitHolds
  <1>4. own \subseteq UnitWorks
    BY <1>1 DEF Inv, Efforts, Worked
  <1>5. tip \in Commits /\ slot[n].head \in Commits
    BY <1>1, Slotted DEF Inv, Typed, RunState
  <1>6. head \in Commits
    <2>1. \A w \in own : [w EXCEPT !.replayed = TRUE] \in UnitWorks
      BY <1>4 DEF UnitWorks
    <2>2. UnitWorks \subseteq Works
      BY DEF UnitWorks, Works
    <2> HIDE DEF own, tip
    <2>3. tip \cup {[w EXCEPT !.replayed = TRUE] : w \in own} \in Commits
      BY <1>5, <2>1, <2>2 DEF Commits
    <2> QED
      BY <1>5, <2>3
  <1> HIDE DEF head
  <1>7. /\ s \in Slot /\ s.at = slot[n].at /\ s.branch = slot[n].branch /\ s.unit = slot[n].unit
        /\ s.dirty = slot[n].dirty /\ s.head = head /\ s.by = slot[n].by
    BY <1>6, Slotted DEF Inv, Slot
  <1>8. a \in Act /\ a.pc = "replayed" /\ a.at = n
    <2>1. act[u] \in Act
      BY <1>1 DEF Inv, Typed
    <2> HIDE DEF tip
    <2> QED
      BY <1>1, <1>5, <2>1 DEF Act, UnitPcs, UnitHolds
  <1> HIDE DEF s, a
  <1>9. /\ slot' \in [Slots -> Slot] /\ slot'[n] = s
        /\ \A m \in Slots \ {n} : slot'[m] = slot[m]
    BY <1>2, <1>7, SlotTyped DEF Inv
  <1>10. /\ act' \in [Users -> Act] /\ UsersSame({u}) /\ act'[u] = a
         /\ \A r \in Runs : act'[r].pc \in RunPcs
         /\ \A v \in Units : act'[v].pc \in UnitPcs
         /\ \A m \in Probes : act'[m].pc \in ProbePcs
    BY <1>1, <1>2, <1>8, ActTyped DEF Inv, UnitPcs, UnitHolds
  <1>11. Typed'
    BY <1>1, <1>9, <1>10 DEF Inv, Typed
  <1>12. Worked(u)' /\ Saved(u)'
    BY <1>1, <1>8, <1>10 DEF Inv, Efforts, Worked, Saved, UnitHolds
  <1>13. \A v \in Units \ {u} : task'[v] = task[v] /\ RefsStay(v)
    BY <1>1 DEF RefsStay
  <1>14. RunsStand /\ Grows
    BY <1>1, <1>10, RunsStandAside
  <1>15. slot[n].dirty = NULL
    BY <1>1, <1>3 DEF Leased
  <1>16. act'[u].pc = "replayed" /\ act'[u].at = n
    BY <1>8, <1>10
  <1> QED
    BY <1>1, <1>7, <1>9, <1>10, <1>11, <1>12, <1>13, <1>14, <1>15, <1>16, WorksKeeps DEF UnitHolds

\* Retire: what landed needs its branch no more.
LEMMA RetireKeeps ==
  ASSUME Inv, NEW u \in Units, NEW n \in Slots, Retire(u, n)
  PROVE  Keeps
  <1> DEFINE s == [slot[n] EXCEPT !.unit = NULL]
  <1>1. /\ act[u].at = n /\ act[u].pc = "landed" /\ u \in Users /\ u \notin Runs /\ u \notin Probes
        /\ act' = [act EXCEPT ![u].pc = "retired"] /\ lock' = lock /\ agents' = agents
        /\ run' = run /\ refs' = {f \in refs : f.unit # u} /\ gc' = gc /\ task' = task
        /\ slot' = [slot EXCEPT ![n] = s]
    BY Names DEF Retire, At, Users
  <1>2. Leased(u)
    BY <1>1, Hold DEF UnitHolds
  <1>3. /\ s \in Slot /\ s.at = slot[n].at /\ s.branch = slot[n].branch /\ s.unit = NULL
        /\ s.dirty = slot[n].dirty /\ s.head = slot[n].head /\ s.by = slot[n].by
    BY Slotted DEF Inv, Slot
  <1> HIDE DEF s
  <1>4. /\ slot' \in [Slots -> Slot] /\ slot'[n] = s
        /\ \A m \in Slots \ {n} : slot'[m] = slot[m]
    BY <1>1, <1>3, SlotTyped DEF Inv
  <1>5. /\ act' \in [Users -> Act] /\ UsersSame({u})
        /\ act'[u].pc = "retired" /\ act'[u].at = n /\ act'[u].base = act[u].base
        /\ \A r \in Runs : act'[r].pc \in RunPcs
        /\ \A v \in Units : act'[v].pc \in UnitPcs
        /\ \A m \in Probes : act'[m].pc \in ProbePcs
    BY <1>1, PcTyped DEF Inv, UnitPcs, UnitHolds
  <1>6. Typed'
    <2>1. refs' \subseteq Ref
      BY <1>1 DEF Inv, Typed
    <2> QED
      BY <2>1, <1>1, <1>4, <1>5 DEF Inv, Typed
  <1>7. Worked(u)' /\ Saved(u)'
    <2>1. Worked(u) /\ Saved(u) /\ task[u].left = NULL /\ slot[n].head \subseteq run[RunOf[u]].tip
      BY <1>1 DEF Inv, Efforts, Worked, UnitHolds
    <2> QED
      BY <1>1, <1>3, <1>4, <1>5, <2>1 DEF Worked, Saved
  <1>8. \A v \in Units \ {u} : task'[v] = task[v] /\ RefsStay(v)
    BY <1>1 DEF RefsStay
  <1>9. RunsStand /\ Grows
    BY <1>1, <1>5, RunsStandAside
  <1>10. slot[n].dirty = NULL
    BY <1>1, <1>2 DEF Leased
  <1> QED
    BY <1>1, <1>3, <1>4, <1>5, <1>6, <1>7, <1>8, <1>9, <1>10, WorksKeeps DEF UnitHolds

\* CommitWork: what a unit wrote becomes a commit on its branch.
LEMMA CommitWorkKeeps ==
  ASSUME Inv, NEW u \in Units, NEW n \in Slots, NEW next \in {"blocking", "committed"},
         CommitWork(u, n, next)
  PROVE  Keeps
  <1> DEFINE k == slot[n].unit[2]
             work == IF Clean(n) THEN slot[n].head ELSE slot[n].head \cup {Attempted(u, n)}
             s == [slot[n] EXCEPT !.dirty = NULL, !.head = work]
             ref == [unit |-> u, attempt |-> k, commit |-> work]
  <1>1. /\ act[u].at = n /\ act[u].pc = "working" /\ u \in Users /\ u \notin Runs /\ u \notin Probes
        /\ act' = [act EXCEPT ![u].pc = next] /\ lock' = lock /\ agents' = agents
        /\ run' = run /\ gc' = gc /\ task' = task /\ slot' = [slot EXCEPT ![n] = s]
        /\ refs' = IF Clean(n) THEN refs
                   ELSE {f \in refs : ~(f.unit = u /\ f.attempt = k)} \cup {ref}
    BY Names DEF CommitWork, At, Users
  <1>2. Leased(u)
    BY <1>1, Hold DEF UnitHolds
  <1>3. slot[n].unit \in Units \X (1..MaxAttempts) /\ slot[n].head \in Commits
    BY <1>1, <1>2, Slotted DEF Inv, Leased, UnitHolds
  <1>4. Attempted(u, n) \in UnitWorks
    BY <1>3 DEF Attempted, UnitWorks
  <1>5. work \in Commits
    <2>1. UnitWorks \subseteq Works
      BY DEF UnitWorks, Works
    <2> QED
      BY <1>3, <1>4, <2>1 DEF Commits
  <1>6. work \ slot[n].head \subseteq UnitWorks
    BY <1>4
  <1>7. Clean(n) => work = slot[n].head
    OBVIOUS
  <1> HIDE DEF work
  <1>8. /\ s \in Slot /\ s.at = slot[n].at /\ s.branch = slot[n].branch /\ s.unit = slot[n].unit
        /\ s.dirty = NULL /\ s.head = work /\ s.by = slot[n].by
    BY <1>5, Slotted DEF Inv, Slot
  <1>9. ref \in Ref /\ ref.unit = u /\ ref.commit = work
    BY <1>3, <1>5 DEF Ref
  <1> HIDE DEF s, ref
  <1>10. /\ slot' \in [Slots -> Slot] /\ slot'[n] = s
         /\ \A m \in Slots \ {n} : slot'[m] = slot[m]
    BY <1>1, <1>8, SlotTyped DEF Inv
  <1>11. /\ act' \in [Users -> Act] /\ UsersSame({u})
         /\ act'[u].pc = next /\ act'[u].at = n /\ act'[u].base = act[u].base
         /\ \A r \in Runs : act'[r].pc \in RunPcs
         /\ \A v \in Units : act'[v].pc \in UnitPcs
         /\ \A m \in Probes : act'[m].pc \in ProbePcs
    BY <1>1, PcTyped DEF Inv, UnitPcs, UnitHolds
  <1>12. refs' \subseteq Ref
    BY <1>1, <1>9 DEF Inv, Typed
  <1>13. Typed'
    BY <1>1, <1>10, <1>11, <1>12 DEF Inv, Typed
  <1>14. slot[n].head = act[u].base /\ task[u].left = NULL /\ Saved(u)
    BY <1>1 DEF Inv, Efforts, Worked, UnitHolds
  <1>15. work = slot[n].head \/ (ref \in refs')
    BY <1>1, <1>7
  <1>16. Worked(u)' /\ Saved(u)'
    <2>1. next = "blocking" => work = act[u].base \/ \E f \in refs' : f.unit = u /\ f.commit = work
      BY <1>9, <1>14, <1>15
    <2>2. next = "committed" => work \ act[u].base \subseteq UnitWorks
      BY <1>6, <1>14
    <2> QED
      BY <1>1, <1>8, <1>10, <1>11, <1>14, <2>1, <2>2 DEF Worked, Saved, UnitHolds
  <1>17. \A v \in Units \ {u} : task'[v] = task[v] /\ RefsStay(v)
    BY <1>1 DEF RefsStay
  <1>18. RunsStand /\ Grows
    BY <1>1, <1>11, RunsStandAside
  <1>19. act'[u].pc \in UnitHolds \ {"retired", "opened", "working"} /\ act[u].pc \in UnitHolds \ {"retired"}
    BY <1>1, <1>11 DEF UnitHolds
  <1> QED
    BY <1>1, <1>8, <1>10, <1>11, <1>13, <1>16, <1>17, <1>18, <1>19, WorksKeeps

\* Land: the run's branch moves on to the unit's commit.
LEMMA LandKeeps ==
  ASSUME Inv, NEW u \in Units, NEW n \in Slots, Land(u, n)
  PROVE  Keeps
  <1> DEFINE r == RunOf[u]
             q == [run[r] EXCEPT !.tip = slot[n].head]
  <1>1. /\ act[u].at = n /\ act[u].pc = "replayed" /\ u \in Users /\ u \notin Runs /\ u \notin Probes
        /\ act' = [act EXCEPT ![u].pc = "landed"] /\ lock' = lock /\ agents' = agents
        /\ slot' = slot /\ refs' = refs /\ gc' = gc /\ task' = task /\ r \in Runs
        /\ run' = [run EXCEPT ![r] = q] /\ run[r].tip \subseteq slot[n].head
    BY Names DEF Land, At, Users
  <1> HIDE DEF r
  <1>2. Leased(u)
    BY <1>1, Hold DEF UnitHolds
  <1>3. slot[n].head \in Commits
    BY Slotted DEF Inv
  <1>4. /\ q \in RunState /\ q.life = run[r].life /\ q.engine = run[r].engine
        /\ q.registry = run[r].registry /\ q.tip = slot[n].head
        /\ q.tree = run[r].tree /\ q.named = run[r].named
    BY <1>1, <1>3 DEF Inv, Typed, RunState
  <1> HIDE DEF q
  <1>5. run' \in [Runs -> RunState] /\ run'[r] = q /\ \A p \in Runs \ {r} : run'[p] = run[p]
    BY <1>1, <1>4 DEF Inv, Typed
  <1>6. /\ act' \in [Users -> Act] /\ UsersSame({u})
        /\ act'[u].pc = "landed" /\ act'[u].at = n /\ act'[u].base = act[u].base
        /\ \A p \in Runs : act'[p].pc \in RunPcs
        /\ \A v \in Units : act'[v].pc \in UnitPcs
        /\ \A m \in Probes : act'[m].pc \in ProbePcs
    BY <1>1, PcTyped DEF Inv, UnitPcs, UnitHolds
  <1>7. Typed'
    BY <1>1, <1>5, <1>6 DEF Inv, Typed
  <1>8. RunsStand
    <2>1. \A p \in Runs : act'[p] = act[p]
      BY <1>1, <1>6 DEF UsersSame, Users
    <2>2. \A p \in Runs : /\ run'[p].life = run[p].life /\ run'[p].engine = run[p].engine
                          /\ run'[p].registry = run[p].registry
                          /\ run'[p].tree = run[p].tree /\ run'[p].named = run[p].named
      BY <1>4, <1>5
    <2> QED
      BY <2>1, <2>2 DEF RunsStand
  <1>9. Grows
    BY <1>1, <1>4, <1>5 DEF Grows
  <1>10. Worked(u)' /\ Saved(u)'
    <2>1. Worked(u) /\ Saved(u) /\ task[u].left = NULL
      BY <1>1 DEF Inv, Efforts, Worked, UnitHolds
    <2>2. run[RunOf[u]].tip \subseteq run'[RunOf[u]].tip /\ run'[RunOf[u]].tip = slot[n].head
          /\ run'[RunOf[u]].life = run[RunOf[u]].life
      BY <1>1, <1>4, <1>5 DEF r
    <2> QED
      BY <1>1, <1>6, <2>1, <2>2 DEF Worked, Saved
  <1>11. \A v \in Units \ {u} : task'[v] = task[v] /\ RefsStay(v)
    BY <1>1 DEF RefsStay
  <1>12. slot[n].dirty = NULL
    BY <1>1, <1>2 DEF Leased
  <1> QED
    BY <1>1, <1>6, <1>7, <1>8, <1>9, <1>10, <1>11, <1>12, WorksKeeps DEF UnitHolds

\* LeaveRunning: a unit leaves its checkout with its log saying that it runs.
LEMMA LeaveRunningKeeps ==
  ASSUME Inv, NEW u \in Units, NEW n \in Slots, LeaveRunning(u, n)
  PROVE  Keeps
  <1>1. /\ act[u].at = n /\ act[u].pc = "working" /\ u \in Users /\ u \notin Runs /\ u \notin Probes
        /\ act' = [act EXCEPT ![u] = Idle] /\ lock' = lock
        /\ agents' = [agents EXCEPT ![n] = u]
        /\ run' = run /\ refs' = refs /\ gc' = gc /\ task' = task /\ slot' = slot
        /\ Run(u) = RunOf[u]
    BY Names, RunOfUsers DEF LeaveRunning, At, Users
  <1>2. /\ Leased(u) /\ Clear({u}, {n}) /\ slot[n].at = "listed" /\ slot[n].branch = NULL
        /\ lock[n] # NULL /\ lock[n].by = RunOf[u] /\ slot[n].by = RunOf[u]
        /\ run[RunOf[u]].registry = "alive"
    <2>1. act[u].at = n /\ act[u].pc \in Takes \cup UnitHolds /\ act[u].pc \in UnitHolds
          /\ act[u].pc # "making" /\ u \in Units \cup Probes
      BY <1>1 DEF UnitHolds
    <2>2. Leased(u)
      BY <2>1, Hold
    <2>3. Clear({u}, {n})
      BY <2>1, Hold
    <2>5. lock[n] # NULL
      BY <2>1, Hold
    <2>6. lock[n].by = RunOf[u]
      BY <2>1, Hold
    <2>7. slot[n].by = RunOf[u]
      BY <2>1, Hold
    <2>8. slot[n].at = "listed"
      BY <1>1, <2>2 DEF Leased
    <2>9. slot[n].branch = NULL
      BY <2>1, Hold
    <2>4. run[RunOf[u]].registry = "alive"
      BY <2>1, Hold
    <2> QED
      BY <2>2, <2>3, <2>4, <2>5, <2>6, <2>7, <2>8, <2>9
  <1>3. agents' \in [Slots -> Users \cup {NULL}] /\ agents'[n] = u
        /\ \A m \in Slots \ {n} : agents'[m] = agents[m]
    BY <1>1 DEF Inv, Typed
  <1>4. /\ act' \in [Users -> Act] /\ UsersSame({u}) /\ act'[u].pc = "idle"
        /\ \A p \in Runs : act'[p].pc \in RunPcs
        /\ \A v \in Units : act'[v].pc \in UnitPcs
        /\ \A m \in Probes : act'[m].pc \in ProbePcs
    BY <1>1, IdleTyped DEF Inv
  <1>5. Typed'
    BY <1>1, <1>3, <1>4 DEF Inv, Typed
  <1>6. RunsStand /\ Grows
    BY <1>1, <1>4, RunsStandAside
  <1>7. SlotsSame({n})
    BY <1>1, <1>3 DEF SlotsSame
  <1>8. ~Holding(u)'
    BY <1>1, <1>4 DEF Holding, Takes, UnitHolds
  <1>9. Worked(u)' /\ Saved(u)'
    BY <1>1, <1>4 DEF Inv, Efforts, Worked, Saved, UnitHolds
  <1>10. Kempt(n)'
    <2>1. Kempt(n)
      BY DEF Inv, Tidy
    <2>2. lock[n] # NULL /\ lock[n].lives => Drives(lock[n].by, n)'
      <3>1. RunOf[u] \in Runs /\ (Drives(lock[n].by, n) \/ lock[n] = NULL \/ ~lock[n].lives)
        BY <2>1, <1>2, Names DEF Kempt
      <3> QED
        BY <1>1, <1>2, <1>6, <3>1, Names DEF Drives, RunsStand
    <2> QED
      BY <1>1, <1>2, <1>3, <2>1, <2>2 DEF Kempt
  <1>11. DirtyStays(n) /\ TreeStays(n)
    BY <1>1 DEF DirtyStays, TreeStays
  <1>12. \A v \in Units \ {u} : task'[v] = task[v] /\ RefsStay(v)
    BY <1>1 DEF RefsStay
  <1>13. act[RunOf[u]].pc = "working" /\ Touches(RunOf[u], n)
    <2>1. act[u].pc \in Takes \cup UnitHolds /\ act[u].at = n /\ u \in Units \cup Probes
          /\ slot'[n].branch = slot[n].branch
      BY <1>1 DEF UnitHolds
    <2> QED
      BY <2>1, HoldTouches
  <1> QED
    BY <1>1, <1>2, <1>4, <1>5, <1>6, <1>7, <1>8, <1>9, <1>10, <1>11, <1>12, <1>13, UserKeeps

-----------------------------------------------------------------------------
(* Units and probes that start *)

\* StartUnit: an attempt of a task starts with a look for a checkout.
LEMMA StartUnitKeeps ==
  ASSUME Inv, NEW u \in Units, StartUnit(u)
  PROVE  Keeps
  <1> DEFINE t == [task[u] EXCEPT !.attempt = task[u].attempt + 1]
             a == [Idle EXCEPT !.pc = "taking"]
  <1>1. /\ u \in Users /\ u \notin Runs /\ u \notin Probes
        /\ act' = [act EXCEPT ![u] = a]
        /\ task' = [task EXCEPT ![u] = t] /\ task[u].attempt < MaxAttempts
        /\ lock' = lock /\ agents' = agents /\ run' = run /\ refs' = refs /\ gc' = gc /\ slot' = slot
        /\ act[RunOf[u]].pc = "working"
    BY Names DEF StartUnit, AtWork, Users
  <1>2. a \in Act /\ a.pc = "taking"
    BY IdleAct DEF Act, RunPcs, Looks
  <1> HIDE DEF a
  <1>3. /\ act' \in [Users -> Act] /\ UsersSame({u}) /\ act'[u].pc = "taking"
        /\ \A p \in Runs : act'[p].pc \in RunPcs
        /\ \A v \in Units : act'[v].pc \in UnitPcs
        /\ \A m \in Probes : act'[m].pc \in ProbePcs
    BY <1>1, <1>2, ActTyped DEF Inv, UnitPcs, Looks
  <1>4. /\ t \in Task /\ t.attempt = task[u].attempt + 1 /\ task[u].attempt \in Nat
        /\ t.left = task[u].left /\ t.status = task[u].status /\ t.landed = task[u].landed
    <2>1. task[u] \in Task /\ task[u].attempt \in 0..MaxAttempts /\ MaxAttempts \in Nat
      BY PoolAssumption DEF Inv, Typed, Task
    <2>2. task[u].attempt + 1 \in 0..MaxAttempts
      BY <1>1, <2>1
    <2> QED
      BY <2>1, <2>2 DEF Task
  <1> HIDE DEF t
  <1>5. task' \in [Units -> Task] /\ task'[u] = t /\ \A v \in Units \ {u} : task'[v] = task[v]
    BY <1>1, <1>4, TaskTyped DEF Inv
  <1>6. Typed'
    BY <1>1, <1>3, <1>5 DEF Inv, Typed
  <1>7. Worked(u)' /\ Saved(u)'
    <2>1. Worked(u)'
      BY <1>3, <1>4, <1>5 DEF Worked, UnitHolds
    <2>2. Saved(u)'
      BY <1>1, <1>4, <1>5 DEF Inv, Efforts, Saved
    <2> QED
      BY <2>1, <2>2
  <1>8. RunsStand /\ Grows
    BY <1>1, <1>3, RunsStandAside
  <1>9. ~Holding(u)'
    BY <1>1, <1>3 DEF Holding, Takes, UnitHolds
  <1>10. SlotsSame({}) /\ Clear({u}, {}) /\ \A v \in Units \ {u} : task'[v] = task[v] /\ RefsStay(v)
    BY <1>1, <1>5 DEF SlotsSame, Clear, RefsStay
  <1> QED
    BY <1>1, <1>3, <1>6, <1>7, <1>8, <1>9, <1>10, UserKeeps

\* Probe: a probe of a run at work looks for a checkout.
LEMMA ProbeKeeps ==
  ASSUME Inv, NEW m \in Probes, Probe(m)
  PROVE  Keeps
  <1> DEFINE a == [Idle EXCEPT !.pc = "taking"]
  <1>1. /\ m \in Users /\ m \notin Runs /\ m \notin Units
        /\ act' = [act EXCEPT ![m] = a]
        /\ task' = task
        /\ lock' = lock /\ agents' = agents /\ run' = run /\ refs' = refs /\ gc' = gc /\ slot' = slot
        /\ act[RunOf[m]].pc = "working"
    BY Names DEF Probe, AtWork, Users
  <1>2. a \in Act /\ a.pc = "taking"
    BY IdleAct DEF Act, RunPcs, Looks
  <1> HIDE DEF a
  <1>3. /\ act' \in [Users -> Act] /\ UsersSame({m}) /\ act'[m].pc = "taking"
        /\ \A p \in Runs : act'[p].pc \in RunPcs
        /\ \A v \in Units : act'[v].pc \in UnitPcs
        /\ \A q \in Probes : act'[q].pc \in ProbePcs
    BY <1>1, <1>2, ActTyped DEF Inv, ProbePcs, Looks
  <1>4. Typed'
    BY <1>1, <1>3 DEF Inv, Typed
  <1>5. RunsStand /\ Grows
    BY <1>1, <1>3, RunsStandAside
  <1>6. ~Holding(m)'
    BY <1>1, <1>3 DEF Holding, Takes, UnitHolds
  <1>7. SlotsSame({}) /\ Clear({m}, {}) /\ \A v \in Units \ {m} : task'[v] = task[v] /\ RefsStay(v)
    BY <1>1 DEF SlotsSame, Clear, RefsStay
  <1> QED
    BY <1>1, <1>3, <1>4, <1>5, <1>6, <1>7, UserKeeps

\* A task's record changes, and nothing else.
LEMMA TaskKeeps ==
  ASSUME Inv, NEW u \in Units, NEW t \in Task, task' = [task EXCEPT ![u] = t],
         t.attempt = task[u].attempt, t.left = task[u].left, t.landed = task[u].landed,
         t.status \in {task[u].status, "pending"},
         UNCHANGED <<slot, lock, agents, run, refs, act, gc>>
  PROVE  Keeps
  <1>1. task' \in [Units -> Task] /\ task'[u] = t /\ \A v \in Units \ {u} : task'[v] = task[v]
    BY TaskTyped DEF Inv
  <1>2. Typed'
    BY <1>1 DEF Inv, Typed
  <1>3. RunsStand /\ Grows /\ SlotsSame({}) /\ Clear({}, {}) /\ Forgotten' /\ act' = act
    BY DEF RunsStand, Grows, SlotsSame, Clear, Inv, Forgotten
  <1>4. Worked(u)' /\ Saved(u)'
    BY <1>1 DEF Inv, Efforts, Worked, Saved
  <1>5. \A v \in Units \ {u} : task'[v] = task[v] /\ RefsStay(v)
    BY <1>1 DEF RefsStay
  <1>6. \A v \in {u} : Worked(v)' /\ Saved(v)'
    BY <1>4
  <1>7. Stands
    BY <1>2, <1>3, <1>5, <1>6, StillKeeps
  <1>8. Passes => Passes'
    BY DEF Passes, Aside, Swept, Pairs, Paired
  <1> QED
    BY <1>7, <1>8 DEF Keeps

\* ReopenNothing: nothing that was kept for a task is what its log says it left.
LEMMA ReopenNothingKeeps ==
  ASSUME Inv, NEW u \in Units, ReopenNothing(u)
  PROVE  Keeps
  <1> DEFINE t == [task[u] EXCEPT !.resumes = FALSE]
  <1>1. task' = [task EXCEPT ![u] = t] /\ UNCHANGED <<slot, lock, agents, run, refs, act, gc>>
    BY DEF ReopenNothing
  <1>2. /\ t \in Task /\ t.attempt = task[u].attempt /\ t.left = task[u].left
        /\ t.landed = task[u].landed /\ t.status = task[u].status
    BY DEF Inv, Typed, Task
  <1> HIDE DEF t
  <1> QED
    BY <1>1, <1>2, TaskKeeps

\* Answer: a person sends a blocked task to run again.
LEMMA AnswerKeeps ==
  ASSUME Inv, NEW u \in Units, NEW resumes \in BOOLEAN, Answer(u, resumes)
  PROVE  Keeps
  <1> DEFINE t == [task[u] EXCEPT !.status = "pending", !.resumes = resumes]
  <1>1. task' = [task EXCEPT ![u] = t] /\ UNCHANGED <<slot, lock, agents, run, refs, act, gc>>
    BY DEF Answer
  <1>2. /\ t \in Task /\ t.attempt = task[u].attempt /\ t.left = task[u].left
        /\ t.landed = task[u].landed /\ t.status = "pending"
    BY DEF Inv, Typed, Task
  <1> HIDE DEF t
  <1> QED
    BY <1>1, <1>2, TaskKeeps

\* ReopenUnit: a task to run again finds what was kept for it.
LEMMA ReopenUnitKeeps ==
  ASSUME Inv, NEW u \in Units, NEW n \in Slots, ReopenUnit(u, n)
  PROVE  Keeps
  <1> DEFINE r == RunOf[u]
             base == {w \in task[u].left : w \notin Runs => w.unit # u}
             s == [slot[n] EXCEPT !.head = base, !.dirty = u, !.by = r]
             a == [Idle EXCEPT !.pc = "opened", !.at = n, !.base = base]
             l == [by |-> r, lives |-> TRUE]
  <1>1. /\ u \in Users /\ u \notin Runs /\ u \notin Probes /\ r \in Runs /\ Run(u) = r
        /\ act[u].pc = "idle" /\ AtWork(r)
        /\ act' = [act EXCEPT ![u] = a] /\ slot' = [slot EXCEPT ![n] = s]
        /\ lock' = [lock EXCEPT ![n] = l]
        /\ agents' = agents /\ run' = run /\ refs' = refs /\ gc' = gc /\ task' = task
        /\ n \in Kept(u) /\ CanHold(n) /\ Head(n) = task[u].left
    BY Names, RunOfUsers DEF ReopenUnit, Users
  <1>2. slot[n].at = "listed" /\ slot[n].unit # NULL /\ slot[n].unit[1] = u
    BY <1>1 DEF Kept, Listed
  <1>3. Kempt(n) /\ slot[n].branch = NULL /\ slot[n].dirty \in {NULL, u}
    BY <1>2 DEF Inv, Tidy, Kempt
  <1>4. base \in Commits
    <2>1. task[u].left = slot[n].head /\ slot[n].head \in Commits
      BY <1>1, <1>3, Slotted DEF Head, Inv
    <2> QED
      BY <2>1 DEF Commits
  <1> HIDE DEF base, r
  <1>5. /\ s \in Slot /\ s.at = "listed" /\ s.branch = NULL /\ s.unit = slot[n].unit
        /\ s.dirty = u /\ s.head = base /\ s.by = r
    <2>1. slot[n] \in Slot
      BY Slotted DEF Inv
    <2>2. s \in Slot
      BY <1>1, <1>4, <2>1 DEF Slot
    <2> QED
      BY <1>2, <1>3, <2>1, <2>2 DEF Slot
  <1>6. a \in Act /\ a.pc = "opened" /\ a.at = n /\ a.base = base
    <2>1. Idle \in Act
      BY IdleAct
    <2> QED
      BY <1>4, <2>1 DEF Act, UnitPcs, UnitHolds
  <1>7. l \in Lock /\ l # NULL /\ l.by = r /\ l = [by |-> Run(u), lives |-> TRUE]
    BY <1>1, Leases1
  <1> HIDE DEF s, a, l
  <1>8. slot' \in [Slots -> Slot] /\ slot'[n] = s /\ \A m \in Slots \ {n} : slot'[m] = slot[m]
    BY <1>1, <1>5, SlotTyped DEF Inv
  <1>9. lock' \in [Slots -> Lock \cup {NULL}] /\ lock'[n] = l /\ \A m \in Slots \ {n} : lock'[m] = lock[m]
    BY <1>1, <1>7, LockTyped DEF Inv
  <1>10. /\ act' \in [Users -> Act] /\ UsersSame({u}) /\ act'[u] = a
         /\ \A p \in Runs : act'[p].pc \in RunPcs
         /\ \A v \in Units : act'[v].pc \in UnitPcs
         /\ \A m \in Probes : act'[m].pc \in ProbePcs
    BY <1>1, <1>6, ActTyped DEF Inv, UnitPcs, UnitHolds
  <1>11. Typed'
    BY <1>1, <1>8, <1>9, <1>10 DEF Inv, Typed
  <1>12. Worked(u)' /\ Saved(u)'
    <2>1. Worked(u)'
      BY <1>5, <1>6, <1>8, <1>10 DEF Worked
    <2>2. Saved(u)'
      BY <1>1 DEF Inv, Efforts, Saved
    <2> QED
      BY <2>1, <2>2
  <1>13. RunsStand /\ Grows
    BY <1>1, <1>10, RunsStandAside
  <1>14. /\ \A y \in Users : Holding(y) => act[y].at # n
         /\ agents[n] \notin Units \cup Probes
    BY <1>1, FreeOfUsers DEF Inv
  <1>15. SlotsSame({n}) /\ Clear({u}, {n}) /\ \A v \in Units \ {u} : task'[v] = task[v] /\ RefsStay(v)
    BY <1>1, <1>8, <1>9, <1>14 DEF SlotsSame, Clear, RefsStay
  <1>16. Leased(u)'
    BY <1>1, <1>2, <1>5, <1>6, <1>7, <1>8, <1>9, <1>10, <1>14 DEF Leased, Takes, UnitHolds
  <1>17. Kempt(n)'
    <2>1. Drives(r, n)'
      BY <1>1, <1>13 DEF AtWork, Up, Drives, RunsStand
    <2> QED
      BY <1>1, <1>2, <1>3, <1>5, <1>7, <1>8, <1>9, <1>14, <2>1 DEF Kempt
  <1>18. DirtyStays(n) /\ TreeStays(n)
    BY <1>3, <1>5, <1>8 DEF DirtyStays, TreeStays
  <1>19. act'[u].at \in {n} /\ act[RunOf[u]].pc = "working" /\ gc' = gc
    BY <1>1, <1>6, <1>10 DEF AtWork, r
  <1>20. \A m \in {n} : Kempt(m)' /\ TreeStays(m) /\ DirtyStays(m)
    BY <1>17, <1>18
  <1>21. Touches(RunOf[u], n)
    BY <1>1, <1>3, <1>5, <1>8 DEF Touches
  <1> QED
    BY <1>10, <1>11, <1>12, <1>13, <1>15, <1>16, <1>19, <1>20, <1>21, UserKeeps

-----------------------------------------------------------------------------
(* Taking a checkout *)

\* A step of a user that looks for a checkout and holds none yet.
LEMMA LookerKeeps ==
  ASSUME Inv, Typed', NEW x \in Users, NEW S \in SUBSET Slots,
         act[x].pc \in {"taking", "surveyed"}, act'[x].pc \in Looks \cup Takes,
         SlotsSame(S), UsersSame({x}), Clear({x}, S), task' = task, refs' = refs, gc' = gc,
         \/ run' = run
         \/ x \in Runs /\ act'[x].pc = "idle" /\ run' = [run EXCEPT ![x].engine = FALSE],
         Holding(x)' => Leased(x)' /\ act'[x].at \in S,
         \A n \in S : Kempt(n)' /\ TreeStays(n) /\ DirtyStays(n),
         \A n \in S : CanHold(n) /\ slot'[n].branch \in {slot[n].branch, NULL}
  PROVE  Keeps
  <1>1. \A u \in Units : task'[u] = task[u] /\ RefsStay(u)
    BY DEF RefsStay
  <1>2. CASE x \in Units \cup Probes
    <2>1. x \notin Runs /\ RunOf[x] \in Runs
      BY <1>2, Names
    <2>2. run' = run
      BY <2>1
    <2>3. RunsStand /\ Grows
      BY <1>2, <2>2, RunsStandAside
    <2>4. ASSUME x \in Units PROVE Worked(x)' /\ Saved(x)'
      <3>1. Worked(x) /\ Saved(x)
        BY <2>4 DEF Inv, Efforts
      <3>2. Worked(x)'
        BY <3>1 DEF Worked, Looks, Takes, UnitHolds
      <3>3. Saved(x)'
        BY <2>2, <3>1 DEF Saved
      <3> QED
        BY <3>2, <3>3
    <2>5. act[RunOf[x]].pc = "working"
      <3>1. Living(RunOf[x]) /\ x \in Mine(RunOf[x]) /\ act[x].pc # "idle"
        BY <1>2, <2>1 DEF Inv, Standing, Mine
      <3> QED
        BY <3>1 DEF Living
    <2>6. \A n \in S : Touches(RunOf[x], n)
      BY DEF Touches
    <2> QED
      BY <1>1, <1>2, <2>3, <2>4, <2>5, <2>6, UserKeeps
  <1>3. CASE x \in Runs
    <2>1. /\ run'[x].life = run[x].life /\ run'[x].registry = run[x].registry
          /\ run'[x].tip = run[x].tip /\ run'[x].tree = run[x].tree /\ run'[x].named = run[x].named
          /\ act'[x].pc # "idle" => run'[x].engine = run[x].engine
          /\ run[x].life = "collected" => run'[x].engine = run[x].engine \/ ~run'[x].engine
          /\ \A q \in Runs \ {x} : run'[q] = run[q]
      BY <1>3 DEF Inv, Typed, RunState
    <2>2. Registered /\ Grows
      BY <2>1 DEF Registered, Grows
    <2>3. Forgotten'
      BY <2>1 DEF Inv, Forgotten, Typed, Pass
    <2>4. Living(x)
      BY <1>3 DEF Inv, Standing
    <2>5. \A y \in Mine(x) : act'[y].pc = "idle"
      <3>1. \A y \in Mine(x) : act[y].pc = "idle" /\ act'[y] = act[y]
        BY <1>3, <2>4, Names DEF Living, Mine, UsersSame, Users
      <3> QED
        BY <3>1
    <2>6. Living(x)'
      <3>1. act'[x].pc \notin {"launching", "working", "following", "ending", "releasing"}
        BY DEF Looks, Takes
      <3> QED
        BY <2>1, <2>4, <2>5, <3>1 DEF Living, Mine
    <2>7. OnBranch(x)'
      BY DEF OnBranch, Looks, Takes
    <2>8. ASSUME NEW n \in Slots \ S, lock[n] # NULL, lock[n].lives, lock[n].by = x PROVE FALSE
      <3>1. Drives(x, n)
        BY <2>8 DEF Inv, Tidy, Kempt
      <3> QED
        BY <3>1 DEF Drives, Takes
    <2>9. /\ \A n \in S : Touches(x, n)
          /\ Enters(x) /\ Paired(x)'
      BY DEF Touches, Enters, Paired, Entering, Looks, Takes
    <2> QED
      BY <1>1, <1>3, <2>1, <2>2, <2>3, <2>6, <2>7, <2>8, <2>9, RunKeeps
  <1> QED
    BY <1>2, <1>3 DEF Users

\* A user that gives up its look changes no checkout.
LEMMA LookTyped ==
  ASSUME Typed, NEW x \in Users, NEW a \in Act, act' = [act EXCEPT ![x] = a],
         a.pc \in Looks \cup Takes
  PROVE  /\ act' \in [Users -> Act] /\ act'[x] = a /\ UsersSame({x})
         /\ \A r \in Runs : act'[r].pc \in RunPcs
         /\ \A u \in Units : act'[u].pc \in UnitPcs
         /\ \A m \in Probes : act'[m].pc \in ProbePcs
  BY ActTyped DEF RunPcs, UnitPcs, ProbePcs

\* What a look finds of a checkout.
LEMMA Claims ==
  ASSUME NEW x \in Users, NEW n \in Slots
  PROVE  claim(x, n) \in {"none", "own", "free", "landed"}
  BY DEF claim

\* What a look is over by is a number.
LEMMA Most ==
  ASSUME NEW a \in Int, NEW b \in Int
  PROVE  Max({0, a, b}) \in Int
  <1>1. \E m \in {0, a, b} : \A k \in {0, a, b} : m >= k
    <2>1. CASE a >= b /\ a >= 0
      BY <2>1
    <2>2. CASE b >= a /\ b >= 0
      BY <2>2
    <2>3. CASE 0 >= a /\ 0 >= b
      BY <2>3
    <2> QED
      BY <2>1, <2>2, <2>3
  <1> QED
    BY <1>1 DEF Max

\* The builds of the pool are finitely many.
LEMMA BuildsCount == Cardinality(Builds) \in Nat
  <1>1. IsFiniteSet(Slots)
    <2>1. MaxSlots \in Int
      BY PoolAssumption
    <2> QED
      BY <2>1, FS_Interval DEF Slots
  <1>2. Builds \subseteq Slots
    BY DEF Builds, Listed
  <1> QED
    BY <1>1, <1>2, FS_Subset, FS_CardinalityType

\* SurveyPool: the look at the pool, without a lock, binds nobody.
LEMMA SurveyPoolKeeps ==
  ASSUME Inv, NEW x \in Users, SurveyPool(x)
  PROVE  Keeps
  <1> DEFINE claims == [n \in Slots |-> IF n \in Listed THEN claim(x, n) ELSE "none"]
             Over(spare) == Max({0, Cardinality(Builds) - Budget,
                                 Cardinality(Builds)
                                   + (IF spare # NULL /\ slot[spare].built THEN 0 ELSE 1) - Disk})
             Look(spare) == [act[x] EXCEPT
                 !.pc = "surveyed", !.todo = claims, !.listed = Listed, !.over = Over(spare),
                 !.emptiable = IF Over(spare) = 0 THEN {} ELSE Emptiable \ {spare}]
  <1>1. PICK spare : act' = [act EXCEPT ![x] = Look(spare)]
    BY DEF SurveyPool
  <1>2. /\ act[x].pc = "taking" /\ slot' = slot /\ lock' = lock /\ agents' = agents
        /\ run' = run /\ task' = task /\ refs' = refs /\ gc' = gc
    BY DEF SurveyPool
  <1>3. Over(spare) \in Int
    <2>1. Cardinality(Builds) \in Int /\ Budget \in Int /\ Disk \in Int
      BY BuildsCount, PoolAssumption
    <2>2. \A k \in Int : k + (IF spare # NULL /\ slot[spare].built THEN 0 ELSE 1) - Disk \in Int
      BY <2>1
    <2> QED
      BY <2>1, <2>2, Most
  <1>4. claims \in [Slots -> {"none", "own", "free", "landed"}]
    BY Claims
  <1>5. Listed \subseteq Slots /\ Emptiable \subseteq Slots
    BY DEF Listed, Emptiable, Builds
  <1> HIDE DEF claims, Over
  <1>6. Look(spare) \in Act /\ Look(spare).pc = "surveyed"
    <2>1. act[x] \in Act
      BY DEF Inv, Typed
    <2> DEFINE e == IF Over(spare) = 0 THEN {} ELSE Emptiable \ {spare}
    <2>2. e \in SUBSET Slots
      BY <1>5
    <2> HIDE DEF e
    <2> QED
      BY <1>3, <1>4, <1>5, <2>1, <2>2 DEF Act, RunPcs, Looks
  <1> HIDE DEF Look
  <1>7. /\ act' \in [Users -> Act] /\ act'[x] = Look(spare) /\ UsersSame({x})
        /\ \A r \in Runs : act'[r].pc \in RunPcs
        /\ \A u \in Units : act'[u].pc \in UnitPcs
        /\ \A m \in Probes : act'[m].pc \in ProbePcs
    BY <1>1, <1>6, LookTyped DEF Inv, Looks
  <1>8. Typed'
    BY <1>2, <1>7 DEF Inv, Typed
  <1>9. act'[x].pc = "surveyed" /\ ~Holding(x)'
    BY <1>6, <1>7 DEF Holding, Takes, UnitHolds
  <1>10. SlotsSame({}) /\ Clear({x}, {})
    BY <1>2 DEF SlotsSame, Clear
  <1> QED
    BY <1>2, <1>7, <1>8, <1>9, <1>10, LookerKeeps DEF Looks

\* A checkout nobody was left in, once its lock is nobody's or its holder's.
LEMMA KemptAfter ==
  ASSUME Inv, NEW n \in Slots, agents'[n] = agents[n], agents[n] \notin Units \cup Probes, Registered,
         slot'[n].at # "listed" =>
             slot'[n].branch = NULL /\ slot'[n].unit = NULL /\ slot'[n].dirty = NULL,
         slot'[n].unit # NULL =>
             slot'[n].branch = NULL /\ slot'[n].dirty \in {NULL, slot'[n].unit[1]},
         (lock[n] # NULL /\ lock[n].lives => Drives(lock[n].by, n))'
  PROVE  Kempt(n)'
  <1>1. ASSUME agents[n] # NULL PROVE run'[Run(agents[n])].registry # "none"
    <2>1. agents[n] \in Users /\ run[Run(agents[n])].registry # "none"
      BY <1>1 DEF Inv, Tidy, Kempt, Typed
    <2>2. groups_at_work(Run(agents[n]))
      BY <1>1 DEF groups_at_work
    <2> QED
      BY <2>1, <2>2, RunOfUsers DEF Registered
  <1>2. agents'[n] # NULL => run'[Run(agents'[n])].registry # "none"
    BY <1>1
  <1>3. agents'[n] \notin Units \cup Probes
    OBVIOUS
  <1> QED
    BY <1>2, <1>3 DEF Kempt

\* A checkout that was free, and of which only the build, the record and whom it is kept for change.
LEMMA FreeStays ==
  ASSUME Inv, NEW n \in Slots, CanHold(n), agents' = agents, Registered,
         slot'[n].at = slot[n].at, slot'[n].branch = slot[n].branch, slot'[n].dirty = slot[n].dirty,
         slot'[n].unit \in {slot[n].unit, NULL},
         (lock[n] # NULL /\ lock[n].lives => Drives(lock[n].by, n))'
  PROVE  Kempt(n)' /\ TreeStays(n) /\ DirtyStays(n)
  <1>1. Kempt(n) /\ agents[n] \notin Units \cup Probes
    BY FreeOfUsers DEF Inv, Tidy
  <1>2. /\ slot'[n].at # "listed" =>
             slot'[n].branch = NULL /\ slot'[n].unit = NULL /\ slot'[n].dirty = NULL
        /\ slot'[n].unit # NULL =>
             slot'[n].branch = NULL /\ slot'[n].dirty \in {NULL, slot'[n].unit[1]}
    <2>1. /\ slot[n].at # "listed" =>
                slot[n].branch = NULL /\ slot[n].unit = NULL /\ slot[n].dirty = NULL
          /\ slot[n].unit # NULL =>
                slot[n].branch = NULL /\ slot[n].dirty \in {NULL, slot[n].unit[1]}
      BY <1>1 DEF Kempt
    <2>2. CASE slot'[n].unit = NULL
      BY <2>1, <2>2
    <2>3. CASE slot'[n].unit # NULL
      <3>1. slot'[n].unit = slot[n].unit
        BY <2>3
      <3> QED
        BY <2>1, <3>1
    <2> QED
      BY <2>2, <2>3
  <1>3. Kempt(n)'
    BY <1>1, <1>2, KemptAfter
  <1> QED
    BY <1>3 DEF TreeStays, DirtyStays

\* A look takes no registry away.
LEMMA LookStays ==
  ASSUME Inv, NEW x \in Users, run' = run
  PROVE  Registered
  BY DEF Registered

\* MakeRoom: a build emptied to make room is one nobody holds.
LEMMA MakeRoomKeeps ==
  ASSUME Inv, NEW x \in Users, NEW n \in Slots, MakeRoom(x, n)
  PROVE  Keeps
  <1>1. /\ act[x].pc = "surveyed" /\ agents' = agents /\ run' = run /\ task' = task
        /\ refs' = refs /\ gc' = gc /\ act[x] \in Act
    BY DEF MakeRoom, Inv, Typed
  <1>2. PICK o \in Int, e \in SUBSET Slots :
          act' = [act EXCEPT ![x] = [act[x] EXCEPT !.over = o, !.emptiable = e]]
    <2>1. act[x].over \in Int /\ act[x].emptiable \in SUBSET Slots
      BY <1>1 DEF Act
    <2>2. CASE CanHold(n)
      <3> DEFINE e == IF act[x].over = 1 THEN {} ELSE act[x].emptiable \ {n}
                 o == act[x].over - 1
      <3>1. e \in SUBSET Slots /\ o \in Int
        BY <2>1
      <3>2. act' = [act EXCEPT ![x] = [act[x] EXCEPT !.over = o, !.emptiable = e]]
        BY <1>1, <2>2 DEF MakeRoom, Inv, Typed
      <3> QED
        BY <3>1, <3>2
    <2>3. CASE ~CanHold(n)
      <3> DEFINE e == act[x].emptiable \ {n}
                 o == act[x].over
      <3>1. e \in SUBSET Slots /\ o \in Int
        BY <2>1
      <3>2. act' = [act EXCEPT ![x] = [act[x] EXCEPT !.emptiable = e]]
        BY <2>3 DEF MakeRoom
      <3>3. [act[x] EXCEPT !.emptiable = e] = [act[x] EXCEPT !.over = o, !.emptiable = e]
        BY <1>1 DEF Act
      <3> QED
        BY <3>1, <3>2, <3>3
    <2> QED
      BY <2>2, <2>3
  <1> DEFINE a == [act[x] EXCEPT !.over = o, !.emptiable = e]
  <1>3. a \in Act /\ a.pc = "surveyed"
    BY <1>1 DEF Act
  <1> HIDE DEF a
  <1>4. /\ act' \in [Users -> Act] /\ act'[x] = a /\ UsersSame({x})
        /\ \A r \in Runs : act'[r].pc \in RunPcs
        /\ \A u \in Units : act'[u].pc \in UnitPcs
        /\ \A m \in Probes : act'[m].pc \in ProbePcs
    BY <1>2, <1>3, LookTyped DEF Inv, Looks, a
  <1>5. act'[x].pc = "surveyed" /\ ~Holding(x)'
    BY <1>3, <1>4 DEF Holding, Takes, UnitHolds
  <1>6. CASE ~CanHold(n)
    <2>1. slot' = slot /\ lock' = lock
      BY <1>6 DEF MakeRoom
    <2>2. Typed'
      BY <1>1, <1>4, <2>1 DEF Inv, Typed
    <2>3. SlotsSame({}) /\ Clear({x}, {})
      BY <1>1, <2>1 DEF SlotsSame, Clear
    <2> QED
      BY <1>1, <1>4, <1>5, <2>2, <2>3, LookerKeeps DEF Looks
  <1>7. CASE CanHold(n)
    <2> DEFINE s == [slot[n] EXCEPT !.built = FALSE]
    <2>1. slot' = [slot EXCEPT ![n] = s] /\ lock' = [lock EXCEPT ![n] = NULL]
      BY <1>7 DEF MakeRoom
    <2>2. /\ s \in Slot /\ s.at = slot[n].at /\ s.branch = slot[n].branch
          /\ s.dirty = slot[n].dirty /\ s.unit = slot[n].unit
      BY Slotted DEF Inv, Slot
    <2> HIDE DEF s
    <2>3. slot' \in [Slots -> Slot] /\ slot'[n] = s /\ \A m \in Slots \ {n} : slot'[m] = slot[m]
      BY <2>1, <2>2, SlotTyped DEF Inv
    <2>4. /\ lock' \in [Slots -> Lock \cup {NULL}] /\ lock'[n] = NULL
          /\ \A m \in Slots \ {n} : lock'[m] = lock[m]
      BY <2>1, LockTyped DEF Inv
    <2>5. Typed'
      BY <1>1, <1>4, <2>3, <2>4 DEF Inv, Typed
    <2>6. SlotsSame({n}) /\ Clear({x}, {n})
      BY <1>1, <1>7, <2>3, <2>4, FreeOfUsers DEF SlotsSame, Clear, Inv
    <2>7. Kempt(n)' /\ TreeStays(n) /\ DirtyStays(n) /\ slot'[n].branch = slot[n].branch
      BY <1>1, <1>7, <2>2, <2>3, <2>4, LookStays, FreeStays
    <2> QED
      BY <1>1, <1>4, <1>5, <1>7, <2>5, <2>6, <2>7, LookerKeeps DEF Looks
  <1> QED
    BY <1>6, <1>7

\* A take that fails ends its process, and nothing else.
LEMMA Fails ==
  ASSUME Inv, NEW x \in Users, TakeFails(x)
  PROVE  /\ act' \in [Users -> Act] /\ act'[x].pc = "idle" /\ UsersSame({x}) /\ ~Holding(x)'
         /\ \A r \in Runs : act'[r].pc \in RunPcs
         /\ \A u \in Units : act'[u].pc \in UnitPcs
         /\ \A m \in Probes : act'[m].pc \in ProbePcs
         /\ run' \in [Runs -> RunState]
         /\ run' = run \/ (x \in Runs /\ run' = [run EXCEPT ![x].engine = FALSE])
         /\ Registered
  <1>1. run' = run \/ (x \in Runs /\ run' = [run EXCEPT ![x].engine = FALSE])
    BY DEF TakeFails
  <1>2. run' \in [Runs -> RunState] /\ \A r \in Runs : run'[r].registry = run[r].registry
    <2>1. CASE run' = run
      BY <2>1 DEF Inv, Typed
    <2>2. CASE x \in Runs /\ run' = [run EXCEPT ![x].engine = FALSE]
      <3> DEFINE q == [run[x] EXCEPT !.engine = FALSE]
      <3>1. q \in RunState /\ q.registry = run[x].registry
        BY <2>2 DEF Inv, Typed, RunState
      <3>2. run' = [run EXCEPT ![x] = q]
        BY <2>2
      <3> HIDE DEF q
      <3> QED
        BY <2>2, <3>1, <3>2 DEF Inv, Typed
    <2> QED
      BY <1>1, <2>1, <2>2
  <1>3. /\ act' \in [Users -> Act] /\ act'[x].pc = "idle" /\ UsersSame({x})
        /\ \A r \in Runs : act'[r].pc \in RunPcs
        /\ \A u \in Units : act'[u].pc \in UnitPcs
        /\ \A m \in Probes : act'[m].pc \in ProbePcs
    BY IdleTyped DEF TakeFails, Inv
  <1>4. ~Holding(x)'
    BY <1>3 DEF Holding, Takes, UnitHolds
  <1> QED
    BY <1>1, <1>2, <1>3, <1>4 DEF Registered

\* NoRoom: the disk is short with nothing more to empty.
LEMMA NoRoomKeeps ==
  ASSUME Inv, NEW x \in Users, NoRoom(x)
  PROVE  Keeps
  <1>1. /\ act[x].pc = "surveyed" /\ TakeFails(x) /\ slot' = slot /\ lock' = lock
        /\ agents' = agents /\ task' = task /\ refs' = refs /\ gc' = gc
    BY DEF NoRoom
  <1>2. Typed'
    BY <1>1, Fails DEF Inv, Typed
  <1>3. SlotsSame({}) /\ Clear({x}, {})
    BY <1>1 DEF SlotsSame, Clear
  <1>4. /\ act'[x].pc = "idle" /\ UsersSame({x}) /\ ~Holding(x)'
        /\ run' = run \/ (x \in Runs /\ run' = [run EXCEPT ![x].engine = FALSE])
    BY <1>1, Fails
  <1> QED
    BY <1>1, <1>2, <1>3, <1>4, LookerKeeps DEF Looks

\* A hold that finds nothing to hand out: the record names its taker, and the lock is nobody's.
LEMMA PassesOn ==
  ASSUME Inv, NEW x \in Users, NEW n \in Slots, CanHold(n), agents' = agents, Registered,
         slot' = [slot EXCEPT ![n].by = Run(x)], lock' = [lock EXCEPT ![n] = NULL]
  PROVE  /\ slot' \in [Slots -> Slot] /\ lock' \in [Slots -> Lock \cup {NULL}]
         /\ SlotsSame({n}) /\ Clear({x}, {n})
         /\ Kempt(n)' /\ TreeStays(n) /\ DirtyStays(n) /\ slot'[n].branch = slot[n].branch
  <1> DEFINE s == [slot[n] EXCEPT !.by = Run(x)]
  <1>1. slot' = [slot EXCEPT ![n] = s]
    OBVIOUS
  <1>2. /\ s \in Slot /\ s.at = slot[n].at /\ s.branch = slot[n].branch
        /\ s.dirty = slot[n].dirty /\ s.unit = slot[n].unit
    BY Slotted, RunOfUsers DEF Inv, Slot
  <1> HIDE DEF s
  <1>3. slot' \in [Slots -> Slot] /\ slot'[n] = s /\ \A m \in Slots \ {n} : slot'[m] = slot[m]
    BY <1>1, <1>2, SlotTyped DEF Inv
  <1>4. /\ lock' \in [Slots -> Lock \cup {NULL}] /\ lock'[n] = NULL
        /\ \A m \in Slots \ {n} : lock'[m] = lock[m]
    BY LockTyped DEF Inv
  <1>5. SlotsSame({n}) /\ Clear({x}, {n})
    BY <1>3, <1>4, FreeOfUsers DEF SlotsSame, Clear, Inv
  <1>6. Kempt(n)' /\ TreeStays(n) /\ DirtyStays(n)
    BY <1>2, <1>3, <1>4, FreeStays
  <1> QED
    BY <1>2, <1>3, <1>4, <1>5, <1>6

\* A user that takes a hold to keep does so in the name of an engine that is there.
LEMMA TakesHold ==
  ASSUME Inv, NEW x \in Users, NEW n \in Slots, act[x].pc \in {"taking", "surveyed"},
         UsersSame({x}), act'[x].pc \in Takes, act'[x].at = n, run' = run
  PROVE  Drives(Run(x), n)'
  <1>1. CASE x \in Runs
    <2>1. Living(x) /\ Run(x) = x
      BY <1>1, RunOfUsers DEF Inv, Standing
    <2>2. run[x].engine
      BY <2>1 DEF Living
    <2> QED
      BY <2>1, <2>2 DEF Drives
  <1>2. CASE x \in Units \cup Probes
    <2>1. RunOf[x] \in Runs /\ Run(x) = RunOf[x] /\ x \in Mine(RunOf[x]) /\ RunOf[x] # x
      BY <1>2, RunOfUsers, Names DEF Mine
    <2>2. act[RunOf[x]].pc = "working" /\ run[RunOf[x]].engine
      BY <2>1 DEF Inv, Standing, Living
    <2>3. act'[RunOf[x]] = act[RunOf[x]]
      BY <2>1 DEF UsersSame, Users
    <2> QED
      BY <2>1, <2>2, <2>3 DEF Drives
  <1> QED
    BY <1>1, <1>2 DEF Users

\* A look that loses a candidate goes on.
LEMMA LooksOn ==
  ASSUME Typed, NEW x \in Users, NEW n \in Slots, act[x].pc = "surveyed",
         \/ act' = [act EXCEPT ![x].todo[n] = "none"]
         \/ act' = [act EXCEPT ![x].listed = @ \cup {n}]
  PROVE  /\ act' \in [Users -> Act] /\ act'[x].pc = "surveyed" /\ UsersSame({x}) /\ ~Holding(x)'
         /\ \A r \in Runs : act'[r].pc \in RunPcs
         /\ \A u \in Units : act'[u].pc \in UnitPcs
         /\ \A m \in Probes : act'[m].pc \in ProbePcs
  <1> DEFINE todo == [act[x].todo EXCEPT ![n] = "none"]
             listed == act[x].listed \cup {n}
  <1>1. act[x] \in Act
    BY DEF Typed
  <1>2. todo \in [Slots -> {"none", "own", "free", "landed"}] /\ listed \in SUBSET Slots
    BY <1>1 DEF Act
  <1> HIDE DEF todo, listed
  <1> DEFINE a == [act[x] EXCEPT !.todo = todo]
             b == [act[x] EXCEPT !.listed = listed]
  <1>3. a \in Act /\ a.pc = "surveyed" /\ b \in Act /\ b.pc = "surveyed"
    BY <1>1, <1>2 DEF Act
  <1>4. act' = [act EXCEPT ![x] = a] \/ act' = [act EXCEPT ![x] = b]
    BY DEF todo, listed
  <1> HIDE DEF a, b
  <1>5. PICK c \in {a, b} : act' = [act EXCEPT ![x] = c]
    BY <1>4
  <1>6. /\ act' \in [Users -> Act] /\ act'[x] = c /\ UsersSame({x})
        /\ \A r \in Runs : act'[r].pc \in RunPcs
        /\ \A u \in Units : act'[u].pc \in UnitPcs
        /\ \A m \in Probes : act'[m].pc \in ProbePcs
    BY <1>3, <1>5, LookTyped DEF Looks
  <1>7. act'[x].pc = "surveyed"
    BY <1>3, <1>5, <1>6
  <1>8. ~Holding(x)'
    BY <1>7 DEF Holding, Takes, UnitHolds
  <1> QED
    BY <1>6, <1>7, <1>8

\* TryTake: a candidate is looked at again under its lock, whatever the look said of it.
LEMMA TryTakeKeeps ==
  ASSUME Inv, NEW x \in Users, NEW n \in Slots, TryTake(x, n)
  PROVE  Keeps
  <1>1. /\ act[x].pc = "surveyed" /\ agents' = agents /\ task' = task /\ refs' = refs /\ gc' = gc
    BY DEF TryTake, Roomy
  <1>2. CASE CanHold(n) /\ still_fits(x, n)
    <2> DEFINE s == [slot[n] EXCEPT !.by = Run(x), !.unit = NULL]
               l == [by |-> Run(x), lives |-> TRUE]
               a == [Idle EXCEPT !.pc = "fitting", !.at = n]
    <2>1. /\ slot' = [slot EXCEPT ![n] = s] /\ lock' = [lock EXCEPT ![n] = l]
          /\ act' = [act EXCEPT ![x] = a] /\ run' = run
      BY <1>2 DEF TryTake
    <2>2. slot[n].at = "listed" /\ slot[n].dirty = NULL /\ slot[n].branch \in {NULL, x}
      BY <1>2 DEF still_fits, Clean, claim
    <2>3. /\ s \in Slot /\ s.at = slot[n].at /\ s.branch = slot[n].branch
          /\ s.dirty = slot[n].dirty /\ s.unit = NULL /\ s.by = Run(x)
      BY Slotted, RunOfUsers DEF Inv, Slot
    <2>4. l \in Lock /\ l # NULL /\ l.by = Run(x)
      BY Leases1, RunOfUsers
    <2>5. a \in Act /\ a.pc = "fitting" /\ a.at = n
      BY IdleAct DEF Act, RunPcs, Takes
    <2> HIDE DEF s, a
    <2>6. slot' \in [Slots -> Slot] /\ slot'[n] = s /\ \A m \in Slots \ {n} : slot'[m] = slot[m]
      BY <2>1, <2>3, SlotTyped DEF Inv
    <2>7. /\ lock' \in [Slots -> Lock \cup {NULL}] /\ lock'[n] = l
          /\ \A m \in Slots \ {n} : lock'[m] = lock[m]
      BY <2>1, <2>4, LockTyped DEF Inv
    <2>8. /\ act' \in [Users -> Act] /\ act'[x] = a /\ UsersSame({x})
          /\ \A r \in Runs : act'[r].pc \in RunPcs
          /\ \A u \in Units : act'[u].pc \in UnitPcs
          /\ \A m \in Probes : act'[m].pc \in ProbePcs
      BY <2>1, <2>5, LookTyped DEF Inv, Takes
    <2>9. Typed'
      BY <1>1, <2>1, <2>6, <2>7, <2>8 DEF Inv, Typed
    <2>10. SlotsSame({n}) /\ Clear({x}, {n}) /\ agents[n] \notin Units \cup Probes
      BY <1>1, <1>2, <2>6, <2>7, FreeOfUsers DEF SlotsSame, Clear, Inv
    <2>11. act'[x].pc \in Takes /\ act'[x].at = n /\ act'[x].pc = "fitting"
      BY <2>5, <2>8 DEF Takes
    <2>12. Leased(x)'
      BY <1>1, <2>2, <2>3, <2>6, <2>7, <2>10, <2>11 DEF Leased, UnitHolds
    <2>13. Kempt(n)' /\ TreeStays(n) /\ DirtyStays(n)
      <3>1. Drives(Run(x), n)'
        BY <1>1, <2>1, <2>8, <2>11, TakesHold
      <3>2. (lock[n] # NULL /\ lock[n].lives => Drives(lock[n].by, n))'
        BY <2>4, <2>7, <3>1
      <3>3. Registered
        BY <2>1 DEF Registered
      <3> QED
        BY <1>1, <1>2, <2>3, <2>6, <3>2, <3>3, FreeStays
    <2>14. slot'[n].branch = slot[n].branch
      BY <2>3, <2>6
    <2> QED
      BY <1>1, <1>2, <2>1, <2>8, <2>9, <2>10, <2>11, <2>12, <2>13, <2>14, LookerKeeps
  <1>3. CASE ~CanHold(n)
    <2>1. slot' = slot /\ lock' = lock /\ run' = run /\ act' = [act EXCEPT ![x].todo[n] = "none"]
      BY <1>3 DEF TryTake
    <2>2. /\ act' \in [Users -> Act] /\ act'[x].pc = "surveyed" /\ UsersSame({x}) /\ ~Holding(x)'
          /\ \A r \in Runs : act'[r].pc \in RunPcs
          /\ \A u \in Units : act'[u].pc \in UnitPcs
          /\ \A m \in Probes : act'[m].pc \in ProbePcs
      BY <1>1, <2>1, LooksOn DEF Inv
    <2>3. Typed'
      BY <1>1, <2>1, <2>2 DEF Inv, Typed
    <2>4. SlotsSame({}) /\ Clear({x}, {})
      BY <1>1, <2>1 DEF SlotsSame, Clear
    <2> QED
      BY <1>1, <2>1, <2>2, <2>3, <2>4, LookerKeeps DEF Looks
  <1>4. CASE CanHold(n) /\ ~still_fits(x, n)
    <2>1. slot' = [slot EXCEPT ![n].by = Run(x)] /\ lock' = [lock EXCEPT ![n] = NULL]
      BY <1>4 DEF TryTake
    <2>2. \/ TakeFails(x)
          \/ act' = [act EXCEPT ![x].todo[n] = "none"] /\ run' = run
      BY <1>4 DEF TryTake
    <2>3. /\ act' \in [Users -> Act] /\ act'[x].pc \in {"idle", "surveyed"}
          /\ UsersSame({x}) /\ ~Holding(x)'
          /\ \A r \in Runs : act'[r].pc \in RunPcs
          /\ \A u \in Units : act'[u].pc \in UnitPcs
          /\ \A m \in Probes : act'[m].pc \in ProbePcs
          /\ run' \in [Runs -> RunState] /\ Registered
          /\ \/ run' = run
             \/ x \in Runs /\ act'[x].pc = "idle" /\ run' = [run EXCEPT ![x].engine = FALSE]
      <3>1. CASE TakeFails(x)
        BY <3>1, Fails
      <3>2. CASE act' = [act EXCEPT ![x].todo[n] = "none"] /\ run' = run
        <4>1. run' \in [Runs -> RunState] /\ Registered
          BY <3>2 DEF Registered, Inv, Typed
        <4> QED
          BY <1>1, <3>2, <4>1, LooksOn DEF Inv
      <3> QED
        BY <2>2, <3>1, <3>2
    <2>4. /\ slot' \in [Slots -> Slot] /\ lock' \in [Slots -> Lock \cup {NULL}]
          /\ SlotsSame({n}) /\ Clear({x}, {n})
          /\ Kempt(n)' /\ TreeStays(n) /\ DirtyStays(n) /\ slot'[n].branch = slot[n].branch
      BY <1>1, <1>4, <2>1, <2>3, PassesOn
    <2>5. Typed'
      BY <1>1, <2>3, <2>4 DEF Inv, Typed
    <2> QED
      BY <1>1, <1>4, <2>3, <2>4, <2>5, LookerKeeps DEF Looks
  <1> QED
    BY <1>2, <1>3, <1>4

\* AddHold: a slot nobody has is made.
LEMMA AddHoldKeeps ==
  ASSUME Inv, NEW x \in Users, NEW n \in Slots, AddHold(x, n)
  PROVE  Keeps
  <1>1. /\ act[x].pc = "surveyed" /\ agents' = agents /\ task' = task /\ refs' = refs
        /\ gc' = gc /\ run' = run /\ Registered
    BY DEF AddHold, Roomy, Registered
  <1>2. CASE CanHold(n) /\ slot[n].at # "listed"
    <2> DEFINE s == [NoSlot EXCEPT !.by = Run(x)]
               l == [by |-> Run(x), lives |-> TRUE]
               a == [Idle EXCEPT !.pc = "making", !.at = n]
    <2>1. /\ slot' = [slot EXCEPT ![n] = s] /\ lock' = [lock EXCEPT ![n] = l]
          /\ act' = [act EXCEPT ![x] = a]
      BY <1>2 DEF AddHold
    <2>2. slot[n].dirty = NULL
      BY <1>2 DEF Inv, Tidy, Kempt
    <2>3. /\ s \in Slot /\ s.at = "none" /\ s.branch = NULL
          /\ s.dirty = NULL /\ s.unit = NULL /\ s.by = Run(x)
      BY RunOfUsers DEF NoSlot, Slot, Base, Commits
    <2>4. l \in Lock /\ l # NULL /\ l.by = Run(x)
      BY Leases1, RunOfUsers
    <2>5. a \in Act /\ a.pc = "making" /\ a.at = n
      BY IdleAct DEF Act, RunPcs, Takes
    <2> HIDE DEF s, a
    <2>6. slot' \in [Slots -> Slot] /\ slot'[n] = s /\ \A m \in Slots \ {n} : slot'[m] = slot[m]
      BY <2>1, <2>3, SlotTyped DEF Inv
    <2>7. /\ lock' \in [Slots -> Lock \cup {NULL}] /\ lock'[n] = l
          /\ \A m \in Slots \ {n} : lock'[m] = lock[m]
      BY <2>1, <2>4, LockTyped DEF Inv
    <2>8. /\ act' \in [Users -> Act] /\ act'[x] = a /\ UsersSame({x})
          /\ \A r \in Runs : act'[r].pc \in RunPcs
          /\ \A u \in Units : act'[u].pc \in UnitPcs
          /\ \A m \in Probes : act'[m].pc \in ProbePcs
      BY <2>1, <2>5, LookTyped DEF Inv, Takes
    <2>9. Typed'
      BY <1>1, <2>6, <2>7, <2>8 DEF Inv, Typed
    <2>10. SlotsSame({n}) /\ Clear({x}, {n}) /\ agents[n] \notin Units \cup Probes
      BY <1>1, <1>2, <2>6, <2>7, FreeOfUsers DEF SlotsSame, Clear, Inv
    <2>11. act'[x].pc \in Takes /\ act'[x].at = n /\ act'[x].pc = "making"
      BY <2>5, <2>8 DEF Takes
    <2>12. Leased(x)'
      BY <1>1, <2>3, <2>6, <2>7, <2>10, <2>11 DEF Leased, UnitHolds
    <2>13. Kempt(n)'
      <3>1. Drives(Run(x), n)'
        BY <1>1, <2>8, <2>11, TakesHold
      <3>2. (lock[n] # NULL /\ lock[n].lives => Drives(lock[n].by, n))'
        BY <2>4, <2>7, <3>1
      <3> QED
        BY <1>1, <2>3, <2>6, <2>10, <3>2, KemptAfter
    <2>14. TreeStays(n) /\ DirtyStays(n)
      BY <1>2, <2>2 DEF TreeStays, DirtyStays
    <2>15. slot'[n].branch = NULL
      BY <2>3, <2>6
    <2> QED
      BY <1>1, <1>2, <2>15, <2>8, <2>9, <2>10, <2>11, <2>12, <2>13, <2>14, LookerKeeps
  <1>3. CASE ~(CanHold(n) /\ slot[n].at # "listed")
    <2>1. act' = [act EXCEPT ![x].listed = @ \cup {n}]
      BY <1>3 DEF AddHold
    <2>2. /\ act' \in [Users -> Act] /\ act'[x].pc = "surveyed" /\ UsersSame({x}) /\ ~Holding(x)'
          /\ \A r \in Runs : act'[r].pc \in RunPcs
          /\ \A u \in Units : act'[u].pc \in UnitPcs
          /\ \A m \in Probes : act'[m].pc \in ProbePcs
      BY <1>1, <2>1, LooksOn DEF Inv
    <2>3. CASE ~CanHold(n)
      <3>1. slot' = slot /\ lock' = lock
        BY <2>3 DEF AddHold
      <3>2. Typed'
        BY <1>1, <2>2, <3>1 DEF Inv, Typed
      <3>3. SlotsSame({}) /\ Clear({x}, {})
        BY <1>1, <3>1 DEF SlotsSame, Clear
      <3> QED
        BY <1>1, <2>2, <3>2, <3>3, LookerKeeps DEF Looks
    <2>4. CASE CanHold(n)
      <3>1. slot' = [slot EXCEPT ![n].by = Run(x)] /\ lock' = [lock EXCEPT ![n] = NULL]
        BY <1>3, <2>4 DEF AddHold
      <3>2. /\ slot' \in [Slots -> Slot] /\ lock' \in [Slots -> Lock \cup {NULL}]
            /\ SlotsSame({n}) /\ Clear({x}, {n})
            /\ Kempt(n)' /\ TreeStays(n) /\ DirtyStays(n) /\ slot'[n].branch = slot[n].branch
        BY <1>1, <2>4, <3>1, PassesOn
      <3>3. Typed'
        BY <1>1, <2>2, <3>2 DEF Inv, Typed
      <3> QED
        BY <1>1, <2>2, <2>4, <3>2, <3>3, LookerKeeps DEF Looks
    <2> QED
      BY <2>3, <2>4
  <1> QED
    BY <1>2, <1>3

\* A run that takes a checkout holds it alone, and none of its units is there yet.
LEMMA RunHold ==
  ASSUME Inv, NEW r \in Runs, NEW n \in Slots, act[r].pc \in Takes, act[r].at = n
  PROVE  /\ r \in Users /\ r \notin Units \cup Probes /\ r # NULL /\ Run(r) = r
         /\ Holding(r) /\ Leased(r) /\ Clear({r}, {n})
         /\ agents[n] \notin Units \cup Probes
         /\ Living(r) /\ run[r].engine /\ run[r].life # "collected"
         /\ \A x \in Mine(r) : act[x].pc = "idle"
         /\ slot[n].dirty = NULL
         /\ \A m \in Slots \ {n} : ~(lock[m] # NULL /\ lock[m].lives /\ lock[m].by = r)
  <1>1. r \in Users /\ r \notin Units \cup Probes /\ r # NULL /\ Run(r) = r
    BY Names, RunOfUsers DEF Users
  <1>2. Holding(r)
    BY DEF Holding
  <1>3. Leased(r) /\ Clear({r}, {n})
    BY <1>1, <1>2 DEF Inv, Leases, Apart, Clear
  <1>4. Living(r) /\ act[r].pc # "idle" /\ act[r].pc # "working"
    BY DEF Inv, Standing, Takes
  <1>5. run[r].engine /\ run[r].life # "collected" /\ \A x \in Mine(r) : act[x].pc = "idle"
    BY <1>4 DEF Living
  <1>6. ASSUME NEW m \in Slots \ {n}, lock[m] # NULL, lock[m].lives, lock[m].by = r PROVE FALSE
    <2>1. Drives(r, m)
      BY <1>6 DEF Inv, Tidy, Kempt
    <2> QED
      BY <2>1 DEF Drives, Takes
  <1>7. slot[n].dirty = NULL /\ agents[n] \notin Units \cup Probes
    BY <1>3 DEF Leased, Takes
  <1> QED
    BY <1>1, <1>2, <1>3, <1>4, <1>5, <1>6, <1>7

\* What a take leaves in the checkout, before its record says whom it is kept for.
Settled(x, n, fresh) ==
    [IF fresh THEN [NoSlot EXCEPT !.by = Run(x)] ELSE slot[n] EXCEPT
        !.at = "listed", !.dirty = NULL, !.head = IF x \in Runs THEN Base ELSE Target(x),
        !.branch = IF x \in Runs THEN x ELSE NULL]

\* A checkout made ready is listed, clean, and on what its taker works from.
LEMMA SettledTyped ==
  ASSUME Inv, NEW x \in Users, NEW n \in Slots, NEW fresh \in BOOLEAN,
         act[x].at = n, act[x].pc = IF fresh THEN "making" ELSE "fitting"
  PROVE  LET s == Settled(x, n, fresh) IN
         /\ s \in Slot /\ s.at = "listed" /\ s.dirty = NULL /\ s.unit = NULL /\ s.by = Run(x)
         /\ s.head = IF x \in Runs THEN Base ELSE Target(x)
         /\ s.branch = IF x \in Runs THEN x ELSE NULL
         /\ Target(x) \in Commits
  <1>1. Target(x) \in Commits
    BY Names DEF Target, Base, Commits, Inv, Typed, RunState, Users
  <1>2. Run(x) \in Runs
    BY RunOfUsers
  <1> DEFINE w == IF fresh THEN [NoSlot EXCEPT !.by = Run(x)] ELSE slot[n]
             h == IF x \in Runs THEN Base ELSE Target(x)
             b == IF x \in Runs THEN x ELSE NULL
  <1>3. w \in Slot /\ w.unit = NULL /\ w.by = Run(x)
    <2>1. CASE fresh
      BY <1>2, <2>1 DEF NoSlot, Slot, Base, Commits
    <2>2. CASE ~fresh
      <3>1. act[x].pc = "fitting" /\ Holding(x)
        BY <2>2 DEF Holding, Takes
      <3>2. Leased(x)
        BY <3>1 DEF Inv, Leases
      <3> QED
        BY <2>2, <3>1, <3>2, Slotted DEF Leased, Inv
    <2> QED
      BY <2>1, <2>2
  <1>4. h \in Commits /\ b \in Runs \cup {NULL}
    BY <1>1 DEF Base, Commits
  <1>5. Settled(x, n, fresh) =
          [w EXCEPT !.at = "listed", !.dirty = NULL, !.head = h, !.branch = b]
    BY DEF Settled
  <1> HIDE DEF w, h, b
  <1>6. /\ Settled(x, n, fresh) \in Slot /\ Settled(x, n, fresh).at = "listed"
        /\ Settled(x, n, fresh).dirty = NULL
        /\ Settled(x, n, fresh).unit = NULL /\ Settled(x, n, fresh).by = Run(x)
        /\ Settled(x, n, fresh).head = h /\ Settled(x, n, fresh).branch = b
    BY <1>3, <1>4, <1>5 DEF Slot
  <1> QED
    BY <1>1, <1>6 DEF h, b

\* Settle: a run's checkout is ready, on its branch.
LEMMA SettleRunKeeps ==
  ASSUME Inv, NEW r \in Runs, NEW n \in Slots, NEW fresh \in BOOLEAN, Settle(r, n, fresh)
  PROVE  Keeps
  <1> DEFINE s == Settled(r, n, fresh)
             a == [Idle EXCEPT !.pc = "launching"]
             q == [run[r] EXCEPT !.tree = n]
  <1>1. /\ act[r].at = n /\ act[r].pc = IF fresh THEN "making" ELSE "fitting"
        /\ r \in Users /\ act[r].pc \in Takes
        /\ agents' = agents /\ task' = task /\ refs' = refs /\ gc' = gc
    BY DEF Settle, Users, Takes
  <1>2. /\ slot' = [slot EXCEPT ![n] = s] /\ lock' = [lock EXCEPT ![n] = NULL]
        /\ run' = [run EXCEPT ![r] = q] /\ act' = [act EXCEPT ![r] = a]
    BY Names DEF Settle, Settled
  <1>3. /\ s \in Slot /\ s.at = "listed" /\ s.dirty = NULL /\ s.unit = NULL /\ s.branch = r
    BY <1>1, SettledTyped
  <1>4. /\ Leased(r) /\ Clear({r}, {n}) /\ agents[n] \notin Units \cup Probes
        /\ Living(r) /\ run[r].engine /\ run[r].life # "collected"
        /\ \A x \in Mine(r) : act[x].pc = "idle"
        /\ slot[n].dirty = NULL /\ r # NULL /\ r \notin Units \cup Probes
        /\ \A m \in Slots \ {n} : ~(lock[m] # NULL /\ lock[m].lives /\ lock[m].by = r)
    BY <1>1, RunHold
  <1>5. a \in Act /\ a.pc = "launching"
    BY IdleAct DEF Act, RunPcs
  <1>6. /\ q \in RunState /\ q.life = run[r].life /\ q.engine = run[r].engine /\ q.tip = run[r].tip
        /\ q.registry = run[r].registry /\ q.tree = n /\ q.named = run[r].named
    BY DEF Inv, Typed, RunState
  <1> HIDE DEF s, a, q
  <1>7. slot' \in [Slots -> Slot] /\ slot'[n] = s /\ \A m \in Slots \ {n} : slot'[m] = slot[m]
    BY <1>2, <1>3, SlotTyped DEF Inv
  <1>8. /\ lock' \in [Slots -> Lock \cup {NULL}] /\ lock'[n] = NULL
        /\ \A m \in Slots \ {n} : lock'[m] = lock[m]
    BY <1>2, LockTyped DEF Inv
  <1>9. run' \in [Runs -> RunState] /\ run'[r] = q /\ \A p \in Runs \ {r} : run'[p] = run[p]
    BY <1>2, <1>6 DEF Inv, Typed
  <1>10. /\ act' \in [Users -> Act] /\ UsersSame({r}) /\ act'[r] = a
         /\ \A p \in Runs : act'[p].pc \in RunPcs
         /\ \A v \in Units : act'[v].pc \in UnitPcs
         /\ \A m \in Probes : act'[m].pc \in ProbePcs
    BY <1>1, <1>2, <1>5, ActTyped DEF Inv, RunPcs
  <1>11. Typed'
    BY <1>1, <1>7, <1>8, <1>9, <1>10 DEF Inv, Typed
  <1>12. Registered /\ Grows /\ Forgotten'
    <2>1. \A p \in Runs : /\ run'[p].registry = run[p].registry /\ run'[p].tip = run[p].tip
                          /\ run'[p].life = run[p].life
      BY <1>6, <1>9
    <2> QED
      BY <1>1, <2>1 DEF Registered, Grows, Inv, Forgotten, Typed, Pass
  <1>13. Living(r)'
    <2>1. \A x \in Mine(r) : act'[x].pc = "idle"
      BY <1>4, <1>10 DEF UsersSame, Mine, Users
    <2> QED
      BY <1>4, <1>5, <1>6, <1>9, <1>10, <2>1 DEF Living, Mine
  <1>14. OnBranch(r)'
    BY <1>3, <1>6, <1>7, <1>9 DEF OnBranch
  <1>15. ~Holding(r)'
    BY <1>5, <1>10 DEF Holding, Takes
  <1>16. Kempt(n)' /\ DirtyStays(n)
    BY <1>1, <1>3, <1>4, <1>7, <1>8, <1>12, KemptAfter DEF DirtyStays
  <1>17. TreeStays(n) \/ slot[n].branch = r
    BY <1>1, <1>4 DEF Leased, TreeStays, Takes
  <1>18. SlotsSame({n})
    BY <1>1, <1>7, <1>8 DEF SlotsSame
  <1>19. \A u \in Units : RefsStay(u)
    BY <1>1 DEF RefsStay
  <1>20. Touches(r, n) /\ Enters(r) /\ Paired(r)'
    <2>1. lock[n] = [by |-> r, lives |-> TRUE]
      <3>1. Leased(r) /\ Run(r) = r /\ act[r].at = n
        BY <1>1, RunHold
      <3> QED
        BY <3>1 DEF Leased
    <2>2. lock[n] # NULL /\ lock[n].lives /\ lock[n].by = r
      BY <2>1, Leases1
    <2>3. act[r].pc \in Entering /\ act'[r].pc = "launching"
      BY <1>1, <1>5, <1>10 DEF Takes, Entering
    <2> QED
      BY <2>2, <2>3 DEF Touches, Enters, Paired, Entering
  <1> QED
    BY <1>20, <1>1, <1>4, <1>9, <1>10, <1>11, <1>12, <1>13, <1>14, <1>15, <1>16, <1>17, <1>18, <1>19, RunKeeps

\* A unit or a probe whose checkout is ready goes to work there.
LEMMA SettleUserKeeps ==
  ASSUME Inv, NEW x \in Units \cup Probes, NEW n \in Slots, NEW fresh \in BOOLEAN,
         Settle(x, n, fresh)
  PROVE  Keeps
  <1> DEFINE s == Settled(x, n, fresh)
             k == IF x \in Units THEN <<x, task[x].attempt>> ELSE NULL
             w == [s EXCEPT !.unit = k]
             a == IF x \in Units
                  THEN [Idle EXCEPT !.pc = "opened", !.at = n, !.base = Target(x)]
                  ELSE [Idle EXCEPT !.pc = "working", !.at = n]
  <1>1. /\ act[x].at = n /\ act[x].pc = IF fresh THEN "making" ELSE "fitting"
        /\ x \in Users /\ x \notin Runs /\ act[x].pc \in Takes
        /\ act[x].pc \in Takes \cup UnitHolds
        /\ lock' = lock /\ run' = run
        /\ agents' = agents /\ task' = task /\ refs' = refs /\ gc' = gc
    BY Names DEF Settle, Users, Takes
  <1>2. /\ s \in Slot /\ s.at = "listed" /\ s.dirty = NULL /\ s.unit = NULL /\ s.by = Run(x)
        /\ s.head = Target(x) /\ s.branch = NULL /\ Target(x) \in Commits
    BY <1>1, SettledTyped
  <1>3. slot' = [slot EXCEPT ![n] = w] /\ act' = [act EXCEPT ![x] = a]
    <2>1. CASE x \in Units
      BY <1>1, <2>1, Names DEF Settle, Settled
    <2>2. CASE x \in Probes
      <3>1. slot' = [slot EXCEPT ![n] = s] /\ act' = [act EXCEPT ![x] = a]
        BY <1>1, <2>2, Names DEF Settle, Settled
      <3> HIDE DEF s
      <3>2. w = s
        BY <1>2, <2>2, Names DEF Slot
      <3> QED
        BY <3>1, <3>2
    <2> QED
      BY <2>1, <2>2
  <1>4. Leased(x) /\ Clear({x}, {n}) /\ n \in In(x) /\ slot[n].by = RunOf[x]
        /\ lock[n] = [by |-> RunOf[x], lives |-> TRUE] /\ agents[n] \notin Units \cup Probes
    BY <1>1, Hold
  <1>5. Run(x) = RunOf[x] /\ RunOf[x] \in Runs
    BY RunOfUsers, <1>1, Names
  <1>6. k \in (Units \X (1..MaxAttempts)) \cup {NULL} /\ (x \in Probes => k = NULL)
        /\ (x \in Units => k # NULL /\ k[1] = x)
    <2>1. CASE x \in Units
      <3>1. task[x].attempt # 0 /\ task[x].attempt \in 0..MaxAttempts /\ MaxAttempts \in Nat
        BY <1>1, <2>1, PoolAssumption DEF Inv, Efforts, Worked, Takes, Typed, Task
      <3>2. task[x].attempt \in 1..MaxAttempts
        BY <3>1
      <3> QED
        BY <2>1, <3>2, Names
    <2>2. CASE x \in Probes
      BY <2>2, Names
    <2> QED
      BY <2>1, <2>2
  <1> HIDE DEF s, k
  <1>7. /\ w \in Slot /\ w.at = "listed" /\ w.dirty = NULL /\ w.unit = k /\ w.by = Run(x)
        /\ w.head = Target(x) /\ w.branch = NULL
    BY <1>2, <1>6 DEF Slot
  <1>8. /\ a \in Act /\ a.at = n
        /\ x \in Units => a.pc = "opened" /\ a.base = Target(x)
        /\ x \in Probes => a.pc = "working"
    <2>1. Idle \in Act
      BY IdleAct
    <2>2. CASE x \in Units
      BY <1>2, <2>1, <2>2, Names DEF Act, UnitPcs, UnitHolds
    <2>3. CASE x \in Probes
      BY <2>1, <2>3, Names DEF Act, UnitPcs, UnitHolds
    <2> QED
      BY <2>2, <2>3
  <1> HIDE DEF w, a
  <1>9. slot' \in [Slots -> Slot] /\ slot'[n] = w /\ \A m \in Slots \ {n} : slot'[m] = slot[m]
    BY <1>3, <1>7, SlotTyped DEF Inv
  <1>10. /\ act' \in [Users -> Act] /\ UsersSame({x}) /\ act'[x] = a
         /\ \A p \in Runs : act'[p].pc \in RunPcs
         /\ \A v \in Units : act'[v].pc \in UnitPcs
         /\ \A m \in Probes : act'[m].pc \in ProbePcs
    <2>1. a.pc \in IF x \in Runs THEN RunPcs ELSE IF x \in Units THEN UnitPcs ELSE ProbePcs
      BY <1>1, <1>8 DEF UnitPcs, ProbePcs, UnitHolds
    <2> QED
      BY <1>1, <1>3, <1>8, <2>1, ActTyped DEF Inv
  <1>11. Typed'
    BY <1>1, <1>9, <1>10 DEF Inv, Typed
  <1>12. RunsStand /\ Grows
    BY <1>1, <1>10, RunsStandAside
  <1>13. x \in Units => Worked(x)' /\ Saved(x)'
    BY <1>1, <1>7, <1>8, <1>9, <1>10 DEF Inv, Efforts, Worked, Saved, UnitHolds
  <1>14. act'[x].pc = (IF x \in Units THEN "opened" ELSE "working") /\ act'[x].at = n
    BY <1>8, <1>10
  <1>15. Leased(x)'
    BY <1>1, <1>4, <1>5, <1>6, <1>7, <1>9, <1>14, Names DEF Leased, UnitHolds, Takes
  <1>16. slot[n].dirty = NULL /\ (slot[n].at # "listed" \/ slot[n].branch \in {NULL, x})
    BY <1>1, <1>4 DEF Leased, Takes
  <1>17. Kempt(n)'
    <2>1. (lock[n] # NULL /\ lock[n].lives => Drives(lock[n].by, n))'
      <3>1. lock[n].by = RunOf[x] /\ lock[n].lives /\ lock[n] # NULL
        BY <1>4, <1>5, Leases1
      <3>2. Drives(RunOf[x], n)
        BY <3>1 DEF Inv, Tidy, Kempt
      <3> QED
        BY <1>1, <1>5, <1>12, <3>1, <3>2 DEF Drives, RunsStand
    <2>2. Registered
      BY <1>1 DEF Registered
    <2> QED
      BY <1>1, <1>4, <1>7, <1>9, <2>1, <2>2, KemptAfter
  <1>18. DirtyStays(n) /\ TreeStays(n)
    <2>1. slot[n].branch \in Runs \cup {NULL}
      BY Slotted DEF Inv
    <2> QED
      BY <1>1, <1>16, <2>1 DEF DirtyStays, TreeStays
  <1>19. /\ SlotsSame({n}) /\ \A u \in Units \ {x} : task'[u] = task[u] /\ RefsStay(u)
    BY <1>1, <1>9 DEF SlotsSame, RefsStay
  <1>20. \A m \in {n} : Kempt(m)' /\ TreeStays(m) /\ DirtyStays(m)
    BY <1>17, <1>18
  <1>21. act[RunOf[x]].pc = "working" /\ Touches(RunOf[x], n)
    <2>1. act[RunOf[x]].pc = "working" /\ RunOf[x] \in Runs
          /\ lock[n] = [by |-> RunOf[x], lives |-> TRUE]
      BY <1>1, <1>4, <1>5, <1>7, <1>9, Hold DEF UnitHolds
    <2> QED
      BY <1>1, <1>4, <1>5, <1>7, <1>9, Hold, <2>1, LeaseTouches
  <1> QED
    BY <1>1, <1>4, <1>10, <1>11, <1>12, <1>13, <1>14, <1>15, <1>19, <1>20, <1>21, UserKeeps

\* SettleRefused: what a run took to wake in cannot be its tree.
LEMMA SettleRefusedKeeps ==
  ASSUME Inv, NEW r \in Runs, NEW n \in Slots, SettleRefused(r, n)
  PROVE  Keeps
  <1>1. /\ act[r].at = n /\ act[r].pc \in Takes /\ r \in Users
        /\ agents' = agents /\ task' = task /\ refs' = refs /\ gc' = gc /\ slot' = slot
        /\ lock' = [lock EXCEPT ![n] = NULL] /\ TakeFails(r)
    BY DEF SettleRefused, Users, Takes
  <1>2. /\ Leased(r) /\ Clear({r}, {n}) /\ agents[n] \notin Units \cup Probes
        /\ Living(r) /\ \A x \in Mine(r) : act[x].pc = "idle"
        /\ \A m \in Slots \ {n} : ~(lock[m] # NULL /\ lock[m].lives /\ lock[m].by = r)
    BY <1>1, RunHold
  <1>3. /\ act' \in [Users -> Act] /\ act'[r].pc = "idle" /\ UsersSame({r}) /\ ~Holding(r)'
        /\ \A p \in Runs : act'[p].pc \in RunPcs
        /\ \A u \in Units : act'[u].pc \in UnitPcs
        /\ \A m \in Probes : act'[m].pc \in ProbePcs
        /\ run' \in [Runs -> RunState] /\ Registered
    BY <1>1, Fails
  <1>4. run' = [run EXCEPT ![r].engine = FALSE]
    BY <1>1 DEF TakeFails
  <1>5. /\ run'[r].life = run[r].life /\ run'[r].registry = run[r].registry
        /\ run'[r].tip = run[r].tip /\ run'[r].tree = run[r].tree /\ run'[r].named = run[r].named
        /\ ~run'[r].engine /\ \A q \in Runs \ {r} : run'[q] = run[q]
    BY <1>4 DEF Inv, Typed, RunState
  <1>6. /\ lock' \in [Slots -> Lock \cup {NULL}] /\ lock'[n] = NULL
        /\ \A m \in Slots \ {n} : lock'[m] = lock[m]
    BY <1>1, LockTyped DEF Inv
  <1>7. Typed'
    BY <1>1, <1>3, <1>6 DEF Inv, Typed
  <1>8. Grows /\ Forgotten'
    BY <1>1, <1>5 DEF Grows, Inv, Forgotten, Typed, Pass
  <1>9. Living(r)'
    <2>1. \A x \in Mine(r) : act'[x].pc = "idle"
      BY <1>2, <1>3, Names DEF UsersSame, Mine, Users
    <2> QED
      BY <1>2, <1>3, <1>5, <2>1 DEF Living, Mine
  <1>10. OnBranch(r)'
    BY <1>3 DEF OnBranch
  <1>11. Kempt(n)' /\ DirtyStays(n) /\ TreeStays(n)
    <2>1. Kempt(n)
      BY DEF Inv, Tidy
    <2>2. /\ slot'[n].at # "listed" =>
               slot'[n].branch = NULL /\ slot'[n].unit = NULL /\ slot'[n].dirty = NULL
          /\ slot'[n].unit # NULL =>
               slot'[n].branch = NULL /\ slot'[n].dirty \in {NULL, slot'[n].unit[1]}
      BY <1>1, <2>1 DEF Kempt
    <2> QED
      BY <1>1, <1>2, <1>3, <1>6, <2>2, KemptAfter DEF DirtyStays, TreeStays
  <1>12. SlotsSame({n}) /\ \A u \in Units : RefsStay(u)
    BY <1>1, <1>6 DEF SlotsSame, RefsStay
  <1>13. Touches(r, n) /\ Enters(r) /\ Paired(r)'
    <2>1. lock[n] = [by |-> r, lives |-> TRUE]
      <3>1. Leased(r) /\ Run(r) = r /\ act[r].at = n
        BY <1>1, RunHold
      <3> QED
        BY <3>1 DEF Leased
    <2>2. lock[n] # NULL /\ lock[n].lives /\ lock[n].by = r
      BY <2>1, Leases1
    <2> QED
      BY <1>1, <1>3, <2>2 DEF Touches, Enters, Paired, Entering
  <1> QED
    BY <1>13, <1>1, <1>2, <1>3, <1>5, <1>7, <1>8, <1>9, <1>10, <1>11, <1>12, RunKeeps

-----------------------------------------------------------------------------
(* Runs that are born, wake, work and move *)

\* One run's record is rewritten.
LEMMA RunTyped ==
  ASSUME Typed, NEW r \in Runs, NEW q \in RunState, run' = [run EXCEPT ![r] = q]
  PROVE  run' \in [Runs -> RunState] /\ run'[r] = q /\ \A p \in Runs \ {r} : run'[p] = run[p]
  BY DEF Typed

\* A run without an engine does nothing, nor do its units and probes.
LEMMA Off ==
  ASSUME Inv, NEW r \in Runs
  PROVE  /\ act[r].pc # "working" => \A x \in Mine(r) : act[x].pc = "idle"
         /\ ~run[r].engine =>
              /\ act[r].pc = "idle"
              /\ \A n \in Slots : ~(lock[n] # NULL /\ lock[n].lives /\ lock[n].by = r)
         /\ act[r].pc # "idle" => run[r].engine /\ run[r].life # "collected"
  <1>1. Living(r)
    BY DEF Inv, Standing
  <1>2. ASSUME ~run[r].engine, NEW n \in Slots, lock[n] # NULL, lock[n].lives, lock[n].by = r PROVE FALSE
    <2>1. Drives(r, n)
      BY <1>2 DEF Inv, Tidy, Kempt
    <2> QED
      BY <1>2, <2>1 DEF Drives
  <1> QED
    BY <1>1, <1>2 DEF Living

\* A step that leaves runs' branches, lives and registries as they are.
LEMMA Same ==
  ASSUME Inv, \A p \in Runs : run'[p].registry = run[p].registry /\ run[p].tip \subseteq run'[p].tip
                              /\ run'[p].life = run[p].life,
         gc'.forget = gc.forget
  PROVE  Registered /\ Grows /\ Forgotten'
  BY DEF Registered, Grows, Inv, Forgotten, Typed, Pass

\* Launch: a process looks for the checkout its run is to be born in.
LEMMA LaunchKeeps ==
  ASSUME Inv, NEW r \in Runs, Launch(r)
  PROVE  Keeps
  <1> DEFINE a == [Idle EXCEPT !.pc = "taking"]
             q == [run[r] EXCEPT !.engine = TRUE]
  <1>1. /\ r \in Users /\ run[r].life = "unborn" /\ ~run[r].engine
        /\ run' = [run EXCEPT ![r] = q] /\ act' = [act EXCEPT ![r] = a]
        /\ slot' = slot /\ lock' = lock /\ agents' = agents /\ task' = task
        /\ refs' = refs /\ gc' = gc /\ MayEnter
    BY DEF Launch, Users
  <1>2. a \in Act /\ a.pc = "taking"
    BY IdleAct DEF Act, RunPcs, Looks
  <1>3. /\ q \in RunState /\ q.life = run[r].life /\ q.engine /\ q.tip = run[r].tip
        /\ q.registry = run[r].registry /\ q.tree = run[r].tree /\ q.named = run[r].named
    BY DEF Inv, Typed, RunState
  <1> HIDE DEF a, q
  <1>4. run' \in [Runs -> RunState] /\ run'[r] = q /\ \A p \in Runs \ {r} : run'[p] = run[p]
    BY <1>1, <1>3, RunTyped DEF Inv
  <1>5. /\ act' \in [Users -> Act] /\ UsersSame({r}) /\ act'[r] = a
        /\ \A p \in Runs : act'[p].pc \in RunPcs
        /\ \A v \in Units : act'[v].pc \in UnitPcs
        /\ \A m \in Probes : act'[m].pc \in ProbePcs
    BY <1>1, <1>2, LookTyped DEF Inv, Looks
  <1>6. Typed'
    BY <1>1, <1>4, <1>5 DEF Inv, Typed
  <1>7. Registered /\ Grows /\ Forgotten'
    BY <1>1, <1>3, <1>4, Same
  <1>8. Living(r)'
    <2>1. \A x \in Mine(r) : act'[x].pc = "idle"
      BY <1>1, <1>5, Off, Names DEF UsersSame, Mine, Users
    <2> QED
      BY <1>1, <1>2, <1>3, <1>4, <1>5, <2>1 DEF Living, Mine
  <1>9. ~Holding(r)' /\ OnBranch(r)'
    BY <1>2, <1>5 DEF Holding, Takes, OnBranch
  <1>10. SlotsSame({}) /\ Clear({r}, {}) /\ \A u \in Units : RefsStay(u)
    BY <1>1 DEF SlotsSame, Clear, RefsStay
  <1>11. \A n \in Slots : ~(lock[n] # NULL /\ lock[n].lives /\ lock[n].by = r)
    BY <1>1, Off
  <1>12. Enters(r) /\ Paired(r)'
    BY <1>1, <1>2, <1>5 DEF Enters, Paired
  <1> QED
    BY <1>12, <1>1, <1>4, <1>5, <1>6, <1>7, <1>8, <1>9, <1>10, <1>11, RunKeeps

\* Open: the run's log is opened, and its engine registered.
LEMMA OpenKeeps ==
  ASSUME Inv, NEW r \in Runs, Open(r)
  PROVE  Keeps
  <1> DEFINE a == [Idle EXCEPT !.pc = "working"]
             q == [run[r] EXCEPT !.life = "open", !.named = run[r].tree, !.registry = "alive"]
  <1>1. /\ r \in Users /\ act[r].pc = "launching"
        /\ run' = [run EXCEPT ![r] = q] /\ act' = [act EXCEPT ![r] = a]
        /\ slot' = slot /\ lock' = lock /\ agents' = agents /\ task' = task
        /\ refs' = refs /\ gc' = gc
    BY DEF Open, Users
  <1>2. a \in Act /\ a.pc = "working"
    BY IdleAct DEF Act, RunPcs, Looks
  <1>3. Living(r) /\ run[r].engine /\ run[r].life # "collected" /\ run[r].tree \in Slots
    BY <1>1, Off DEF Inv, Standing, Living
  <1>4. /\ q \in RunState /\ q.life = "open" /\ q.engine /\ q.tip = run[r].tip
        /\ q.registry = "alive" /\ q.tree = run[r].tree /\ q.named = run[r].tree
    BY <1>3 DEF Inv, Typed, RunState
  <1> HIDE DEF a, q
  <1>5. run' \in [Runs -> RunState] /\ run'[r] = q /\ \A p \in Runs \ {r} : run'[p] = run[p]
    BY <1>1, <1>4, RunTyped DEF Inv
  <1>6. /\ act' \in [Users -> Act] /\ UsersSame({r}) /\ act'[r] = a
        /\ \A p \in Runs : act'[p].pc \in RunPcs
        /\ \A v \in Units : act'[v].pc \in UnitPcs
        /\ \A m \in Probes : act'[m].pc \in ProbePcs
    BY <1>1, <1>2, ActTyped DEF Inv, RunPcs
  <1>7. Typed'
    BY <1>1, <1>5, <1>6 DEF Inv, Typed
  <1>8. Registered /\ Grows
    BY <1>3, <1>4, <1>5 DEF Registered, Grows
  <1>9. Forgotten'
    <2>1. r \notin gc.forget
      BY <1>3 DEF Inv, Forgotten
    <2> QED
      BY <1>1, <1>5, <2>1 DEF Inv, Forgotten, Typed, Pass
  <1>10. Living(r)'
    <2>1. \A x \in Mine(r) : act'[x].pc = "idle"
      BY <1>1, <1>6, Off, Names DEF UsersSame, Mine, Users
    <2> QED
      BY <1>2, <1>3, <1>4, <1>5, <1>6, <2>1 DEF Living, Mine
  <1>11. Trees => OnBranch(r)'
    BY <1>1, <1>4, <1>5 DEF Trees, OnBranch
  <1>12. ~Holding(r)'
    BY <1>2, <1>6 DEF Holding, Takes
  <1>13. SlotsSame({}) /\ Clear({r}, {}) /\ \A u \in Units : RefsStay(u)
    BY <1>1 DEF SlotsSame, Clear, RefsStay
  <1>14. \A n \in Slots : Drives(r, n)'
    BY <1>2, <1>4, <1>5, <1>6 DEF Drives
  <1>15. Enters(r) /\ Paired(r)'
    BY <1>1, <1>2, <1>6 DEF Enters, Paired, Entering
  <1> QED
    BY <1>15, <1>1, <1>5, <1>6, <1>7, <1>8, <1>9, <1>10, <1>11, <1>12, <1>13, <1>14, RunKeeps

\* Wake: an engine comes back to the tree its run has, or looks for one.
LEMMA WakeKeeps ==
  ASSUME Inv, NEW r \in Runs, Wake(r)
  PROVE  Keeps
  <1> DEFINE still == slot[run[r].named].at = "listed" /\ slot[run[r].named].branch = r
             a == [Idle EXCEPT !.pc = IF still THEN "launching" ELSE "taking"]
             q == [run[r] EXCEPT !.engine = TRUE, !.tree = IF still THEN run[r].named ELSE NULL]
  <1>1. /\ r \in Users /\ run[r].life = "open" /\ ~run[r].engine
        /\ run' = [run EXCEPT ![r] = q] /\ act' = [act EXCEPT ![r] = a]
        /\ slot' = slot /\ lock' = lock /\ agents' = agents /\ task' = task
        /\ refs' = refs /\ gc' = gc /\ MayEnter
    BY DEF Wake, Users
  <1>2. still \in BOOLEAN
    OBVIOUS
  <1>3. run[r].named \in Slots /\ Living(r)
    BY <1>1 DEF Inv, Standing, Living
  <1>4. a \in Act /\ a.pc = IF still THEN "launching" ELSE "taking"
    <2> HIDE DEF still
    <2> QED
      BY IdleAct DEF Act, RunPcs, Looks
  <1>5. /\ q \in RunState /\ q.life = run[r].life /\ q.engine /\ q.tip = run[r].tip
        /\ q.registry = run[r].registry /\ q.named = run[r].named
        /\ q.tree = IF still THEN run[r].named ELSE NULL
    <2> HIDE DEF still
    <2> QED
      BY <1>3 DEF Inv, Typed, RunState
  <1> HIDE DEF a, q
  <1>6. run' \in [Runs -> RunState] /\ run'[r] = q /\ \A p \in Runs \ {r} : run'[p] = run[p]
    BY <1>1, <1>5, RunTyped DEF Inv
  <1>7. /\ act' \in [Users -> Act] /\ UsersSame({r}) /\ act'[r] = a
        /\ \A p \in Runs : act'[p].pc \in RunPcs
        /\ \A v \in Units : act'[v].pc \in UnitPcs
        /\ \A m \in Probes : act'[m].pc \in ProbePcs
    <2>1. a.pc \in RunPcs
      BY <1>4 DEF RunPcs, Looks
    <2> QED
      BY <1>1, <1>4, <2>1, ActTyped DEF Inv
  <1>8. Typed'
    BY <1>1, <1>6, <1>7 DEF Inv, Typed
  <1>9. Registered /\ Grows /\ Forgotten'
    BY <1>1, <1>5, <1>6, Same
  <1>10. Living(r)'
    <2>1. \A x \in Mine(r) : act'[x].pc = "idle"
      BY <1>1, <1>7, Off, Names DEF UsersSame, Mine, Users
    <2> HIDE DEF still
    <2> QED
      BY <1>1, <1>3, <1>4, <1>5, <1>6, <1>7, <2>1 DEF Living, Mine
  <1>11. OnBranch(r)'
    BY <1>1, <1>4, <1>5, <1>6, <1>7 DEF OnBranch
  <1>12. ~Holding(r)'
    BY <1>4, <1>7 DEF Holding, Takes
  <1>13. SlotsSame({}) /\ Clear({r}, {}) /\ \A u \in Units : RefsStay(u)
    BY <1>1 DEF SlotsSame, Clear, RefsStay
  <1>14. \A n \in Slots : ~(lock[n] # NULL /\ lock[n].lives /\ lock[n].by = r)
    BY <1>1, Off
  <1>15. Enters(r) /\ Paired(r)'
    <2>1. act'[r].pc # "following"
      BY <1>4, <1>7
    <2> QED
      BY <1>1, <2>1 DEF Enters, Paired
  <1> QED
    BY <1>15, <1>1, <1>6, <1>7, <1>8, <1>9, <1>10, <1>11, <1>12, <1>13, <1>14, RunKeeps

\* A checkout on a run's branch is held by nobody but that run, and kept for no unit.
LEMMA Branched ==
  ASSUME Inv, NEW n \in Slots, NEW r \in Runs, slot[n].branch = r
  PROVE  /\ Clear({r}, {n}) /\ slot[n].unit = NULL /\ slot[n].at = "listed"
         /\ agents[n] \notin Units \cup Probes
  <1>1. Kempt(n) /\ r # NULL
    BY Names DEF Inv, Tidy, Users
  <1>2. ASSUME NEW y \in Users \ {r}, Holding(y), act[y].at = n PROVE FALSE
    <2>1. Leased(y)
      BY <1>2 DEF Inv, Leases
    <2>2. act[y].pc \in Takes \cup UnitHolds
      BY <1>2 DEF Holding
    <2> QED
      BY <1>1, <1>2, <2>1, <2>2 DEF Kempt, Leased, Takes
  <1> QED
    BY <1>1, <1>2 DEF Kempt, Clear

\* A step of a run at work that changes its tree, and nobody's place.
LEMMA TreeKeeps ==
  ASSUME Inv, NEW r \in Runs, AtWork(r), slot[run[r].tree].branch = r,
         NEW s \in Slot, slot' = [slot EXCEPT ![run[r].tree] = s],
         s.at = slot[run[r].tree].at, s.branch = r, s.unit = slot[run[r].tree].unit,
         slot[run[r].tree].dirty # NULL /\ s.dirty # slot[run[r].tree].dirty =>
             slot[run[r].tree].dirty = r,
         run' \in [Runs -> RunState], RunsStand, Grows,
         UNCHANGED <<lock, agents, task, refs, act, gc>>
  PROVE  Keeps
  <1>0. run[r].tree \in Slots
    BY DEF AtWork, Inv, Standing, Living
  <1> PICK t \in Slots : t = run[r].tree
    BY <1>0
  <1>1. act[r].pc = "working" /\ t \in Slots /\ r \in Users
    BY DEF AtWork, Users
  <1>2. t \in In(r)
    BY <1>1 DEF In
  <1>3. /\ Clear({r}, {t}) /\ slot[t].unit = NULL /\ slot[t].at = "listed"
        /\ agents[t] \notin Units \cup Probes
    BY <1>1, Branched
  <1>4. slot' \in [Slots -> Slot] /\ slot'[t] = s /\ \A m \in Slots \ {t} : slot'[m] = slot[m]
    BY <1>1, SlotTyped DEF Inv
  <1>5. Typed'
    BY <1>4 DEF Inv, Typed
  <1>6. SlotsSame({t}) /\ act' = act /\ \A u \in Units : task'[u] = task[u] /\ RefsStay(u)
    BY <1>4 DEF SlotsSame, RefsStay
  <1>7. ~Holding(r)
    BY <1>1 DEF Holding, Takes
  <1>8. Clear({}, {t})
    BY <1>3, <1>7 DEF Clear
  <1>9. Forgotten'
    BY DEF Inv, Forgotten, RunsStand, Typed, Pass
  <1>10. Kempt(t)'
    <2>1. Registered
      BY DEF Registered, RunsStand
    <2>2. (lock[t] # NULL /\ lock[t].lives => Drives(lock[t].by, t))'
      <3>1. lock[t] # NULL /\ lock[t].lives => lock[t].by \in Runs /\ Drives(lock[t].by, t)
        BY DEF Inv, Tidy, Kempt, Typed, Lock
      <3>2. lock' = lock
        OBVIOUS
      <3> QED
        BY <3>1, <3>2 DEF Drives, RunsStand
    <2>3. slot'[t].at = "listed" /\ slot'[t].unit = NULL /\ agents' = agents
      BY <1>3, <1>4
    <2> QED
      BY <1>1, <1>3, <2>1, <2>2, <2>3, KemptAfter
  <1>11. TreeStays(t) /\ DirtyStays(t)
    BY <1>2, <1>3, <1>4 DEF TreeStays, DirtyStays
  <1>12. \A m \in {t} : Kempt(m)' /\ TreeStays(m) /\ DirtyStays(m)
    <2> SUFFICES ASSUME NEW m \in {t} PROVE Kempt(m)' /\ TreeStays(m) /\ DirtyStays(m)
      OBVIOUS
    <2>1. m = t
      OBVIOUS
    <2> QED
      BY <1>10, <1>11, <2>1
  <1>13. {t} \in SUBSET Slots /\ {} \in SUBSET Units
    BY <1>1
  <1>14. Stands
    BY <1>5, <1>6, <1>8, <1>9, <1>12, <1>13, StillKeeps
  <1>15. ASSUME Perils = {}, Passes PROVE Passes'
    <2>1. Touches(r, t) /\ Enters(r) /\ Paired(r)'
      BY <1>1, <1>4, <1>6 DEF Touches, Enters, Paired, Entering
    <2>2. /\ \A q \in Runs \ {r} : /\ run'[q].tree = run[q].tree
                                 /\ act'[q].pc = act[q].pc /\ act'[q].at = act[q].at
          /\ \A m \in {t} : Touches(r, m)
      BY <2>1 DEF RunsStand
    <2> QED
      BY <1>6, <1>13, <1>15, <2>1, <2>2, PassesFrame
  <1> QED
    BY <1>14, <1>15 DEF Keeps

\* WriteTree: a run's session writes in the run's tree.
LEMMA WriteTreeKeeps ==
  ASSUME Inv, Trees, NEW r \in Runs, WriteTree(r)
  PROVE  Keeps
  <1> DEFINE t == run[r].tree
             s == [slot[t] EXCEPT !.dirty = r]
  <1>1. /\ AtWork(r) /\ slot[t].branch = r /\ slot[t].dirty = NULL /\ t \in Slots
        /\ slot' = [slot EXCEPT ![t] = s] /\ run' = run
        /\ UNCHANGED <<lock, agents, task, refs, act, gc>>
    BY DEF WriteTree, AtWork, Clean, Inv, Standing, Living, Trees, OnBranch
  <1> HIDE DEF t
  <1>2. s \in Slot /\ s.at = slot[t].at /\ s.branch = slot[t].branch /\ s.unit = slot[t].unit
    BY <1>1, Slotted DEF Inv, Slot, Users
  <1> HIDE DEF s
  <1>3. run' \in [Runs -> RunState] /\ RunsStand /\ Grows
    BY <1>1 DEF RunsStand, Grows, Inv, Typed
  <1> QED
    BY <1>1, <1>2, <1>3, TreeKeeps DEF t

\* CommitTree: what was written in a run's tree becomes a commit of its branch.
LEMMA CommitTreeKeeps ==
  ASSUME Inv, NEW r \in Runs, CommitTree(r)
  PROVE  Keeps
  <1> DEFINE t == run[r].tree
             s == [slot[t] EXCEPT !.dirty = NULL, !.built = TRUE]
             tip == run[r].tip \cup {r}
             q == [run[r] EXCEPT !.tip = tip]
  <1>1. /\ AtWork(r) /\ slot[t].branch = r /\ slot[t].dirty = r /\ t \in Slots
        /\ slot' = [slot EXCEPT ![t] = s] /\ run' = [run EXCEPT ![r] = q]
        /\ UNCHANGED <<lock, agents, task, refs, act, gc>>
    BY DEF CommitTree, AtWork, Inv, Standing, Living
  <1> HIDE DEF t
  <1>2. s \in Slot /\ s.at = slot[t].at /\ s.branch = slot[t].branch /\ s.unit = slot[t].unit
    BY <1>1, Slotted DEF Inv, Slot
  <1>3. tip \in Commits /\ run[r].tip \subseteq tip
    BY DEF Inv, Typed, RunState, Commits, Works
  <1> HIDE DEF s, tip
  <1>4. /\ q \in RunState /\ q.life = run[r].life /\ q.engine = run[r].engine /\ q.tip = tip
        /\ q.registry = run[r].registry /\ q.tree = run[r].tree /\ q.named = run[r].named
    BY <1>3 DEF Inv, Typed, RunState
  <1> HIDE DEF q
  <1>5. run' \in [Runs -> RunState] /\ run'[r] = q /\ \A p \in Runs \ {r} : run'[p] = run[p]
    BY <1>1, <1>4, RunTyped DEF Inv
  <1>6. RunsStand /\ Grows
    BY <1>1, <1>3, <1>4, <1>5 DEF RunsStand, Grows
  <1> QED
    BY <1>1, <1>2, <1>5, <1>6, TreeKeeps DEF t

\* LeaveInTree: a session goes on in the run's tree with no engine over it.
LEMMA LeaveInTreeKeeps ==
  ASSUME Inv, NEW r \in Runs, LeaveInTree(r)
  PROVE  Keeps
  <1> DEFINE t == run[r].tree
  <1>1. /\ AtWork(r) /\ t \in Slots /\ agents' = [agents EXCEPT ![t] = r] /\ r \in Users
        /\ UNCHANGED <<slot, lock, run, task, refs, act, gc>>
    BY DEF LeaveInTree, AtWork, Inv, Standing, Living, Users
  <1> HIDE DEF t
  <1>2. agents' \in [Slots -> Users \cup {NULL}] /\ agents'[t] = r
        /\ \A m \in Slots \ {t} : agents'[m] = agents[m]
    BY <1>1 DEF Inv, Typed
  <1>3. Typed'
    BY <1>1, <1>2 DEF Inv, Typed
  <1>4. r \notin Units \cup Probes /\ Run(r) = r
    BY Names, RunOfUsers, <1>1
  <1>5. Leases'
    <2> SUFFICES ASSUME NEW y \in Users, Holding(y)' PROVE Leased(y)'
      BY DEF Leases
    <2>1. Leased(y) /\ act' = act /\ slot' = slot /\ lock' = lock
      BY <1>1 DEF Inv, Leases, Holding
    <2>2. agents'[act[y].at] \notin Units \cup Probes
      BY <1>2, <1>4, <2>1 DEF Leased
    <2> QED
      BY <2>1, <2>2 DEF Leased
  <1>6. Apart' /\ Standing' /\ Efforts' /\ Forgotten'
    BY <1>1 DEF Inv, Apart, Holding, Standing, Living, Efforts, Worked, Saved, Forgotten
  <1>7. Tidy'
    <2> SUFFICES ASSUME NEW n \in Slots PROVE Kempt(n)'
      BY DEF Tidy
    <2>1. Kempt(n) /\ slot' = slot /\ lock' = lock /\ run' = run /\ act' = act
      BY <1>1 DEF Inv, Tidy
    <2>2. CASE n # t
      BY <1>2, <2>1, <2>2 DEF Kempt, Drives
    <2>3. CASE n = t
      <3>1. agents'[n] = r /\ run'[Run(agents'[n])].registry # "none"
        BY <1>1, <1>2, <1>4, <2>3 DEF AtWork, Up
      <3> QED
        BY <1>4, <2>1, <3>1 DEF Kempt, Drives
    <2> QED
      BY <2>2, <2>3
  <1>8. Trees => Trees'
    BY <1>1 DEF Trees, OnBranch
  <1>9. \A n \in Slots : DirtyStays(n)
    BY <1>1 DEF DirtyStays
  <1>10. Passes => Passes'
    <2>1. \A n \in Slots : agents'[n] \in {agents[n], r}
      BY <1>2
    <2> QED
      BY <1>1, <1>4, <2>1 DEF Passes, Aside, Swept, Pairs, Paired
  <1> QED
    BY <1>3, <1>5, <1>6, <1>7, <1>8, <1>9, <1>10 DEF Keeps, Stands, Inv

\* A step of a run that follows a build changes nothing but the two checkouts it holds.
LEMMA FollowFrame ==
  ASSUME Inv, Typed', NEW r \in Runs, NEW n \in Slots, NEW m \in Slots,
         SlotsSame({n, m}), UsersSame({r}), UNCHANGED <<agents, task, refs, gc>>,
         \A p \in Runs \ {r} : run'[p] = run[p],
         run'[r].registry = run[r].registry, run'[r].tip = run[r].tip, run'[r].life = run[r].life,
         Living(r)', OnBranch(r)', ~Holding(r)', \A k \in Slots : Drives(r, k)',
         \A k \in {n, m} :
            /\ \A y \in Users \ {r} : Holding(y) => act[y].at # k
            /\ agents[k] \notin Units \cup Probes /\ slot[k].branch \in {NULL, r}
            /\ slot'[k].at = "listed" /\ slot'[k].unit = NULL /\ slot'[k].dirty = slot[k].dirty
            /\ lock'[k] \in {NULL, [by |-> r, lives |-> TRUE]} /\ Touches(r, k),
         Enters(r), Paired(r)'
  PROVE  Keeps
  <1>1. Registered /\ Grows /\ Forgotten'
    BY Same
  <1>2. Clear({r}, {n, m}) /\ \A u \in Units : RefsStay(u)
    BY DEF Clear, RefsStay
  <1>3. ASSUME NEW k \in {n, m} PROVE Kempt(k)'
    <2>1. (lock[k] # NULL /\ lock[k].lives => Drives(lock[k].by, k))'
      <3>1. lock'[k] # NULL => lock'[k].by = r
        BY Leases1
      <3> QED
        BY <3>1
    <2>2. k \in Slots /\ agents'[k] = agents[k]
      OBVIOUS
    <2> QED
      BY <1>1, <2>1, <2>2, KemptAfter
  <1>4. \A k \in {n, m} : Kempt(k)' /\ DirtyStays(k)
    BY <1>3 DEF DirtyStays
  <1>5. \A k \in {n, m} : TreeStays(k) \/ slot[k].branch = r
    BY DEF TreeStays
  <1>6. {n, m} \in SUBSET Slots /\ task' = task
    OBVIOUS
  <1> QED
    BY <1>1, <1>2, <1>4, <1>5, <1>6, RunKeeps

\* FollowHolds: a run holds its tree and the checkout that has its build.
LEMMA FollowHoldsKeeps ==
  ASSUME Inv, NEW r \in Runs, NEW m \in Slots, FollowHolds(r, m)
  PROVE  Keeps
  <1>0. run[r].tree \in Slots /\ Living(r)
    BY DEF FollowHolds, AtWork, Inv, Standing, Living
  <1> PICK n \in Slots : n = run[r].tree
    BY <1>0
  <1> DEFINE sn == [slot[n] EXCEPT !.branch = NULL, !.head = run[r].tip]
             l == [by |-> r, lives |-> TRUE]
             a == [Idle EXCEPT !.pc = "following", !.at = m]
  <1>1. /\ r \in Users /\ AtWork(r) /\ act[r].pc = "working" /\ run[r].engine
        /\ \A x \in Mine(r) : act[x].pc = "idle"
        /\ m # n /\ CanHold(n) /\ CanHold(m) /\ MayEnter
        /\ slot[n].branch = r /\ slot[m].at = "listed" /\ slot[m].branch = NULL /\ slot[m].unit = NULL
        /\ act' = [act EXCEPT ![r] = a] /\ slot' = [slot EXCEPT ![n] = sn]
        /\ UNCHANGED <<agents, run, task, refs, gc>>
    BY DEF FollowHolds, AtWork, Up, Emptiable, Builds, Listed, Users, Inv, Typed
  <1>2. lock' = [lock EXCEPT ![n] = l, ![m] = l]
    BY DEF FollowHolds
  <1>3. sn \in Slot /\ sn.at = slot[n].at /\ sn.branch = NULL /\ sn.unit = slot[n].unit
        /\ sn.dirty = slot[n].dirty
    <2>1. slot[n] \in Slot /\ run[r].tip \in Commits
      BY Slotted DEF Inv, Typed, RunState
    <2> QED
      BY <2>1 DEF Slot
  <1>4. l \in Lock
    BY Leases1
  <1>5. a \in Act /\ a.pc = "following" /\ a.at = m
    <2>1. "following" \in RunPcs \cup UnitPcs /\ Idle \in Act
      BY IdleAct DEF RunPcs
    <2> QED
      BY <2>1, StepAct DEF Act
  <1> HIDE DEF sn, l, a
  <1>6. /\ slot' \in [Slots -> Slot] /\ slot'[n] = sn
        /\ \A k \in Slots \ {n} : slot'[k] = slot[k]
    BY <1>1, <1>3, SlotTyped DEF Inv
  <1>7. /\ lock' \in [Slots -> Lock \cup {NULL}] /\ lock'[n] = l /\ lock'[m] = l
        /\ \A k \in Slots \ {n, m} : lock'[k] = lock[k]
    BY <1>1, <1>2, <1>4 DEF Inv, Typed
  <1>8. /\ act' \in [Users -> Act] /\ act'[r] = a /\ UsersSame({r})
        /\ \A p \in Runs : act'[p].pc \in RunPcs
        /\ \A u \in Units : act'[u].pc \in UnitPcs
        /\ \A k \in Probes : act'[k].pc \in ProbePcs
    <2>1. a.pc \in RunPcs
      BY <1>5 DEF RunPcs
    <2> QED
      BY <1>1, <1>5, <2>1, ActTyped DEF Inv
  <1>9. Typed'
    BY <1>1, <1>6, <1>7, <1>8 DEF Inv, Typed
  <1>10. Living(r)'
    <2>1. \A x \in Mine(r) : act'[x].pc = "idle"
      BY <1>1, <1>8, Names DEF UsersSame, Mine, Users
    <2>2. run[r].registry = "alive"
      BY <1>1 DEF AtWork, Up
    <2> QED
      BY <1>0, <1>1, <1>5, <1>8, <2>1, <2>2 DEF Living, Mine
  <1>11. OnBranch(r)' /\ ~Holding(r)' /\ \A k \in Slots : Drives(r, k)'
    BY <1>1, <1>5, <1>8 DEF OnBranch, Holding, Takes, Drives
  <1>12. /\ \A y \in Users : Holding(y) => act[y].at \notin {n, m}
         /\ agents[n] \notin Units \cup Probes /\ agents[m] \notin Units \cup Probes
    BY <1>1, FreeOfUsers DEF Inv
  <1>13. SlotsSame({n, m})
    BY <1>1, <1>6, <1>7 DEF SlotsSame
  <1>14. slot[n].unit = NULL /\ slot[n].at = "listed"
    BY <1>1, Branched
  <1>15. ASSUME NEW k \in {n, m}
         PROVE  /\ \A y \in Users \ {r} : Holding(y) => act[y].at # k
                /\ agents[k] \notin Units \cup Probes /\ slot[k].branch \in {NULL, r}
                /\ slot'[k].at = "listed" /\ slot'[k].unit = NULL /\ slot'[k].dirty = slot[k].dirty
                /\ slot'[k].branch = NULL /\ lock'[k] = [by |-> r, lives |-> TRUE]
                /\ Touches(r, k)
    <2>1. lock'[k] = [by |-> r, lives |-> TRUE]
      BY <1>7 DEF l
    <2>2. CASE k = n
      BY <1>1, <1>3, <1>6, <1>12, <1>14, <2>1, <2>2 DEF Touches
    <2>3. CASE k = m
      BY <1>1, <1>6, <1>12, <2>1, <2>3 DEF Touches
    <2> QED
      BY <2>2, <2>3
  <1>16. Enters(r)
    BY <1>1, <1>5, <1>8 DEF Enters
  <1>17. Paired(r)'
    <2>1. run'[r].tree = n /\ act'[r].at = m /\ agents' = agents
      BY <1>1, <1>5, <1>8
    <2>2. \A k \in {n, m} : agents'[k] \notin Units \cup Probes
      BY <1>15, <2>1
    <2> QED
      BY <1>1, <1>15, <2>1, <2>2 DEF Paired
  <1>18. /\ \A p \in Runs \ {r} : run'[p] = run[p]
         /\ run'[r].registry = run[r].registry /\ run'[r].tip = run[r].tip
         /\ run'[r].life = run[r].life
    BY <1>1
  <1> QED
    BY <1>1, <1>8, <1>9, <1>10, <1>11, <1>13, <1>15, <1>16, <1>17, <1>18, FollowFrame

\* What a run that follows a build holds, and that it holds it alone.
LEMMA Pair ==
  ASSUME Inv, NEW r \in Runs, Paired(r), Following(r)
  PROVE  \E n, m \in Slots :
           /\ n = run[r].tree /\ m = act[r].at /\ n # m /\ In(r) = {n, m}
           /\ slot[n].branch = NULL /\ slot[m].branch \in {NULL, r}
           /\ \A k \in {n, m} :
                 /\ \A y \in Users \ {r} : Holding(y) => act[y].at # k
                 /\ agents[k] \notin Units \cup Probes
                 /\ slot[k].at = "listed" /\ slot[k].unit = NULL
                 /\ lock[k] = [by |-> r, lives |-> TRUE]
           /\ run[r].engine /\ run[r].registry = "alive" /\ r \in Users
           /\ \A x \in Mine(r) : act[x].pc = "idle"
  <1>1. act[r].pc = "following" /\ Living(r) /\ r \in Users
    BY DEF Following, Inv, Standing, Users
  <1> PICK n \in Slots, m \in Slots : n = run[r].tree /\ m = act[r].at
    BY <1>1 DEF Paired
  <1>2. /\ n # m /\ slot[n].branch = NULL /\ slot[m].branch \in {NULL, r}
        /\ \A k \in {n, m} : /\ lock[k] = [by |-> r, lives |-> TRUE]
                             /\ agents[k] \notin Units \cup Probes
                             /\ slot[k].at = "listed" /\ slot[k].unit = NULL
    BY <1>1 DEF Paired
  <1>3. In(r) = {n, m}
    BY <1>1 DEF In
  <1>4. \A x \in Mine(r) : act[x].pc = "idle"
    BY <1>1 DEF Living
  <1>5. ASSUME NEW k \in {n, m}, NEW y \in Users \ {r}, Holding(y), act[y].at = k PROVE FALSE
    <2>1. lock[k] = [by |-> Run(y), lives |-> TRUE]
      BY <1>5 DEF Inv, Leases, Leased
    <2>2. Run(y) = r
      BY <1>2, <2>1
    <2>3. y \in Mine(r)
      BY <2>2, RunOfUsers DEF Mine, Users
    <2> QED
      BY <1>4, <1>5, <2>3 DEF Holding, Takes, UnitHolds
  <1> QED
    BY <1>1, <1>2, <1>3, <1>4, <1>5 DEF Living

\* The leases of a follow drop, and no other.
LEMMA Drops ==
  ASSUME Typed, NEW r \in Runs, FollowDrops(r), NEW n \in Slots, NEW m \in Slots, In(r) = {n, m}
  PROVE  /\ lock' \in [Slots -> Lock \cup {NULL}] /\ lock'[n] = NULL /\ lock'[m] = NULL
         /\ \A k \in Slots \ {n, m} : lock'[k] = lock[k]
  BY DEF FollowDrops, Typed

\* FollowTakes: the branch comes to the checkout that has the build.
LEMMA FollowTakesKeeps ==
  ASSUME Inv, NEW r \in Runs, Paired(r), FollowTakes(r)
  PROVE  Keeps
  <1>1. /\ act[r].pc = "following" /\ slot' = [slot EXCEPT ![act[r].at].branch = r]
        /\ UNCHANGED <<lock, agents, run, task, refs, act, gc>>
    BY DEF FollowTakes, Following
  <1> PICK n \in Slots, m \in Slots :
           /\ n = run[r].tree /\ m = act[r].at /\ n # m /\ In(r) = {n, m}
           /\ slot[n].branch = NULL /\ slot[m].branch \in {NULL, r}
           /\ \A k \in {n, m} :
                 /\ \A y \in Users \ {r} : Holding(y) => act[y].at # k
                 /\ agents[k] \notin Units \cup Probes
                 /\ slot[k].at = "listed" /\ slot[k].unit = NULL
                 /\ lock[k] = [by |-> r, lives |-> TRUE]
           /\ run[r].engine /\ run[r].registry = "alive" /\ r \in Users
           /\ \A x \in Mine(r) : act[x].pc = "idle"
    BY <1>1, Pair DEF Following
  <1> DEFINE s == [slot[m] EXCEPT !.branch = r]
  <1>2. s \in Slot /\ s.at = slot[m].at /\ s.unit = slot[m].unit /\ s.dirty = slot[m].dirty
        /\ s.branch = r /\ slot' = [slot EXCEPT ![m] = s]
    BY <1>1, Slotted DEF Inv, Typed, Slot
  <1> HIDE DEF s
  <1>3. slot' \in [Slots -> Slot] /\ slot'[m] = s /\ \A k \in Slots \ {m} : slot'[k] = slot[k]
    BY <1>2, SlotTyped DEF Inv
  <1>4. Typed' /\ SlotsSame({n, m}) /\ UsersSame({r})
    BY <1>1, <1>3 DEF Inv, Typed, SlotsSame, UsersSame
  <1>5. Living(r)' /\ OnBranch(r)' /\ ~Holding(r)' /\ \A k \in Slots : Drives(r, k)'
    BY <1>1 DEF Inv, Standing, Living, Mine, OnBranch, Holding, Takes, Drives
  <1>6. \A k \in {n, m} :
            /\ slot[k].branch \in {NULL, r}
            /\ slot'[k].at = "listed" /\ slot'[k].unit = NULL /\ slot'[k].dirty = slot[k].dirty
            /\ lock'[k] = [by |-> r, lives |-> TRUE]
    BY <1>1, <1>2, <1>3
  <1>7. \A k \in {n, m} : Touches(r, k)
    <2>1. act[r].pc \in Entering
      BY <1>1 DEF Entering
    <2> QED
      BY <2>1, LeaseTouches
  <1>8. Enters(r) /\ run' = run /\ gc' = gc
    BY <1>1 DEF Enters, Entering
  <1>9. Paired(r)'
    BY <1>1, <1>2, <1>3, <1>6 DEF Paired
  <1> QED
    BY <1>1, <1>4, <1>5, <1>6, <1>7, <1>8, <1>9, FollowFrame

\* A run that followed a build, or did not, is at work again, or on its way out.
LEMMA FollowLeaves ==
  ASSUME Inv, NEW r \in Runs, Paired(r), Following(r), FollowDrops(r),
         NEW p \in {"working", "clearing"}, act' = [act EXCEPT ![r] = [Idle EXCEPT !.pc = p]],
         NEW t \in Slots, run' = [run EXCEPT ![r].tree = t],
         UNCHANGED <<agents, task, refs, gc>>,
         slot' \in [Slots -> Slot], \A k \in Slots \ In(r) : slot'[k] = slot[k],
         \A k \in In(r) : /\ slot'[k].at = slot[k].at /\ slot'[k].unit = slot[k].unit
                          /\ slot'[k].dirty = slot[k].dirty,
         p = "working" => slot'[t].at = "listed" /\ slot'[t].branch = r
  PROVE  Keeps
  <1> PICK n \in Slots, m \in Slots :
           /\ n = run[r].tree /\ m = act[r].at /\ n # m /\ In(r) = {n, m}
           /\ slot[n].branch = NULL /\ slot[m].branch \in {NULL, r}
           /\ \A k \in {n, m} :
                 /\ \A y \in Users \ {r} : Holding(y) => act[y].at # k
                 /\ agents[k] \notin Units \cup Probes
                 /\ slot[k].at = "listed" /\ slot[k].unit = NULL
                 /\ lock[k] = [by |-> r, lives |-> TRUE]
           /\ run[r].engine /\ run[r].registry = "alive" /\ r \in Users
           /\ \A x \in Mine(r) : act[x].pc = "idle"
    BY Pair
  <1> DEFINE q == [run[r] EXCEPT !.tree = t]
             a == [Idle EXCEPT !.pc = p]
  <1>1. run' = [run EXCEPT ![r] = q] /\ act' = [act EXCEPT ![r] = a]
    OBVIOUS
  <1>0. act[r].pc = "following"
    BY DEF Following
  <1>2. /\ q \in RunState /\ q.life = run[r].life /\ q.engine = run[r].engine /\ q.tip = run[r].tip
        /\ q.registry = run[r].registry /\ q.tree = t /\ q.named = run[r].named
    <2>1. run[r] \in RunState /\ t \in Slots \cup {NULL}
      BY DEF Inv, Typed
    <2> QED
      BY <2>1 DEF RunState
  <1>3. a \in Act /\ a.pc = p
    BY IdleAct, StepAct DEF Act, RunPcs
  <1> HIDE DEF q, a
  <1>4. run' \in [Runs -> RunState] /\ run'[r] = q /\ \A k \in Runs \ {r} : run'[k] = run[k]
    BY <1>1, <1>2, RunTyped DEF Inv
  <1>5. /\ act' \in [Users -> Act] /\ act'[r] = a /\ UsersSame({r})
        /\ \A k \in Runs : act'[k].pc \in RunPcs
        /\ \A u \in Units : act'[u].pc \in UnitPcs
        /\ \A k \in Probes : act'[k].pc \in ProbePcs
    <2>1. a.pc \in RunPcs
      BY <1>3 DEF RunPcs
    <2> QED
      <3>1. r \in Users /\ a.pc \in IF r \in Runs THEN RunPcs ELSE IF r \in Units THEN UnitPcs ELSE ProbePcs
        BY <2>1 DEF Users
      <3>2. Typed /\ act' = [act EXCEPT ![r] = a] /\ a \in Act
        BY <1>1, <1>3 DEF Inv
      <3> QED
        BY <3>1, <3>2, ActTyped
  <1>6. /\ lock' \in [Slots -> Lock \cup {NULL}] /\ lock'[n] = NULL /\ lock'[m] = NULL
        /\ \A k \in Slots \ {n, m} : lock'[k] = lock[k]
    BY Drops DEF Inv
  <1>7. Typed' /\ SlotsSame({n, m})
    BY <1>4, <1>5, <1>6 DEF Inv, Typed, SlotsSame
  <1>8. Living(r)'
    <2>1. Living(r) /\ \A x \in Mine(r) : act'[x].pc = "idle"
      BY <1>5, Names DEF UsersSame, Mine, Users, Inv, Standing
    <2> QED
      BY <1>2, <1>3, <1>4, <1>5, <2>1 DEF Living, Mine
  <1>9. OnBranch(r)' /\ ~Holding(r)' /\ \A k \in Slots : Drives(r, k)'
    BY <1>2, <1>3, <1>4, <1>5 DEF OnBranch, Holding, Takes, Drives
  <1>10. \A k \in {n, m} :
            /\ slot[k].branch \in {NULL, r} /\ lock'[k] = NULL
            /\ slot'[k].at = "listed" /\ slot'[k].unit = NULL /\ slot'[k].dirty = slot[k].dirty
    BY <1>6
  <1>11. \A k \in {n, m} : Touches(r, k)
    <2>1. act[r].pc \in Entering
      BY <1>0 DEF Entering
    <2> QED
      BY <2>1, LeaseTouches
  <1>12. Enters(r) /\ Paired(r)'
    BY <1>0, <1>3, <1>5 DEF Enters, Paired, Entering
  <1> QED
    BY <1>11, <1>12, <1>2, <1>4, <1>5, <1>7, <1>8, <1>9, <1>10, FollowFrame

\* FollowEnds: the run works where its build is, and its tree is given back.
LEMMA FollowEndsKeeps ==
  ASSUME Inv, NEW r \in Runs, Paired(r), FollowEnds(r)
  PROVE  Keeps
  <1>0. Following(r)
    BY DEF FollowEnds
  <1> PICK n \in Slots, m \in Slots :
           /\ n = run[r].tree /\ m = act[r].at /\ n # m /\ In(r) = {n, m}
           /\ slot[n].branch = NULL /\ slot[m].branch \in {NULL, r}
           /\ \A k \in {n, m} :
                 /\ \A y \in Users \ {r} : Holding(y) => act[y].at # k
                 /\ agents[k] \notin Units \cup Probes
                 /\ slot[k].at = "listed" /\ slot[k].unit = NULL
                 /\ lock[k] = [by |-> r, lives |-> TRUE]
           /\ run[r].engine /\ run[r].registry = "alive" /\ r \in Users
           /\ \A x \in Mine(r) : act[x].pc = "idle"
    BY <1>0, Pair
  <1>1. /\ Following(r) /\ slot[m].branch = r /\ FollowDrops(r)
        /\ act' = [act EXCEPT ![r] = [Idle EXCEPT !.pc = "working"]]
        /\ run' = [run EXCEPT ![r].tree = m]
        /\ UNCHANGED <<agents, task, refs, gc>>
        /\ slot' = [slot EXCEPT ![n].by = r, ![n].built = TRUE, ![m].by = r]
    BY DEF FollowEnds, Moved
  <1> DEFINE sn == [slot[n] EXCEPT !.by = r, !.built = TRUE]
             sm == [slot[m] EXCEPT !.by = r]
  <1>2. slot' = [slot EXCEPT ![n] = sn, ![m] = sm]
    BY <1>1 DEF Inv, Typed
  <1>3. sn \in Slot /\ sn.at = slot[n].at /\ sn.unit = slot[n].unit /\ sn.dirty = slot[n].dirty
    <2>1. slot[n] \in Slot /\ r \in Runs \cup {NULL}
      BY Slotted DEF Inv
    <2> QED
      BY <2>1 DEF Slot
  <1>4. sm \in Slot /\ sm.at = slot[m].at /\ sm.unit = slot[m].unit /\ sm.dirty = slot[m].dirty
        /\ sm.branch = slot[m].branch
    <2>1. slot[m] \in Slot /\ r \in Runs \cup {NULL}
      BY Slotted DEF Inv
    <2> QED
      BY <2>1 DEF Slot
  <1> HIDE DEF sn, sm
  <1>5. /\ slot' \in [Slots -> Slot] /\ slot'[n] = sn /\ slot'[m] = sm
        /\ \A k \in Slots \ {n, m} : slot'[k] = slot[k]
    BY <1>2, <1>3, <1>4 DEF Inv, Typed
  <1>6. /\ \A k \in Slots \ In(r) : slot'[k] = slot[k]
        /\ \A k \in In(r) : /\ slot'[k].at = slot[k].at /\ slot'[k].unit = slot[k].unit
                            /\ slot'[k].dirty = slot[k].dirty
        /\ slot'[m].at = "listed" /\ slot'[m].branch = r
    BY <1>1, <1>3, <1>4, <1>5
  <1> QED
    BY <1>1, <1>5, <1>6, FollowLeaves

\* FollowUndone: a run that could not move is back on its branch in its tree.
LEMMA FollowUndoneKeeps ==
  ASSUME Inv, NEW r \in Runs, Paired(r), FollowUndone(r)
  PROVE  Keeps
  <1>0. Following(r)
    BY DEF FollowUndone
  <1> PICK n \in Slots, m \in Slots :
           /\ n = run[r].tree /\ m = act[r].at /\ n # m /\ In(r) = {n, m}
           /\ slot[n].branch = NULL /\ slot[m].branch \in {NULL, r}
           /\ \A k \in {n, m} :
                 /\ \A y \in Users \ {r} : Holding(y) => act[y].at # k
                 /\ agents[k] \notin Units \cup Probes
                 /\ slot[k].at = "listed" /\ slot[k].unit = NULL
                 /\ lock[k] = [by |-> r, lives |-> TRUE]
           /\ run[r].engine /\ run[r].registry = "alive" /\ r \in Users
           /\ \A x \in Mine(r) : act[x].pc = "idle"
    BY <1>0, Pair
  <1> DEFINE s == [slot[n] EXCEPT !.branch = r]
  <1>1. /\ Following(r) /\ FollowDrops(r)
        /\ act' = [act EXCEPT ![r] = [Idle EXCEPT !.pc = "working"]]
        /\ run' = [run EXCEPT ![r].tree = n]
        /\ UNCHANGED <<agents, task, refs, gc>>
        /\ slot' = [slot EXCEPT ![n] = s]
    BY DEF FollowUndone, Inv, Typed, RunState
  <1>2. s \in Slot /\ s.at = slot[n].at /\ s.unit = slot[n].unit /\ s.dirty = slot[n].dirty
        /\ s.branch = r
    BY Slotted DEF Inv, Slot
  <1> HIDE DEF s
  <1>3. slot' \in [Slots -> Slot] /\ slot'[n] = s /\ \A k \in Slots \ {n} : slot'[k] = slot[k]
    BY <1>1, <1>2, SlotTyped DEF Inv
  <1>4. /\ \A k \in Slots \ In(r) : slot'[k] = slot[k]
        /\ \A k \in In(r) : /\ slot'[k].at = slot[k].at /\ slot'[k].unit = slot[k].unit
                            /\ slot'[k].dirty = slot[k].dirty
        /\ slot'[n].at = "listed" /\ slot'[n].branch = r
    BY <1>2, <1>3
  <1> QED
    BY <1>1, <1>3, <1>4, FollowLeaves

\* FollowFails: an engine that could not take its branch back is on its way out.
LEMMA FollowFailsKeeps ==
  ASSUME Inv, NEW r \in Runs, Paired(r), FollowFails(r)
  PROVE  Keeps
  <1> PICK n \in Slots : n = run[r].tree
    BY Pair DEF FollowFails, Following
  <1>1. /\ Following(r) /\ FollowDrops(r)
        /\ act' = [act EXCEPT ![r] = [Idle EXCEPT !.pc = "clearing"]]
        /\ run' = [run EXCEPT ![r].tree = n] /\ slot' = slot
        /\ UNCHANGED <<agents, task, refs, gc>>
    BY DEF FollowFails, Inv, Typed, RunState
  <1> QED
    BY <1>1, FollowLeaves DEF Inv, Typed

\* A step of a run that changes no checkout, while its engine goes on or has held nothing.
LEMMA MovesKeeps ==
  ASSUME Inv, Typed', NEW r \in Runs, UNCHANGED <<slot, lock, agents, task>>,
         UsersSame({r}), Registered, Grows, Forgotten', \A u \in Units : RefsStay(u),
         \A p \in Runs \ {r} : run'[p] = run[p],
         Living(r)', Trees => OnBranch(r)', ~Holding(r)', gc' = gc,
         run'[r].engine, act'[r].pc \in {"working", "ending", "releasing", "clearing"},
         act'[r].pc = "working" => act[r].pc = "working"
  PROVE  Keeps
  <1>1. SlotsSame({}) /\ Clear({r}, {}) /\ task' = task
    BY DEF SlotsSame, Clear
  <1>2. ASSUME NEW n \in Slots, lock[n] # NULL, lock[n].lives, lock[n].by = r PROVE Drives(r, n)'
    BY <1>2 DEF Drives
  <1>3. Enters(r) /\ Paired(r)'
    BY DEF Enters, Paired, Entering
  <1> QED
    BY <1>1, <1>2, <1>3, RunKeeps

\* RecordMove: the run's log names the tree it moved to.
LEMMA RecordMoveKeeps ==
  ASSUME Inv, NEW r \in Runs, RecordMove(r)
  PROVE  Keeps
  <1> DEFINE q == [run[r] EXCEPT !.named = run[r].tree]
  <1>1. /\ r \in Users /\ act[r].pc = "working" /\ run[r].engine
        /\ run' = [run EXCEPT ![r] = q]
        /\ UNCHANGED <<slot, lock, agents, task, refs, act, gc>>
    BY DEF RecordMove, AtWork, Up, Users
  <1>2. run[r].tree \in Slots /\ Living(r)
    BY <1>1 DEF Inv, Standing, Living
  <1>3. /\ q \in RunState /\ q.life = run[r].life /\ q.engine = run[r].engine /\ q.tip = run[r].tip
        /\ q.registry = run[r].registry /\ q.tree = run[r].tree /\ q.named = run[r].tree
    BY <1>2 DEF Inv, Typed, RunState
  <1> HIDE DEF q
  <1>4. run' \in [Runs -> RunState] /\ run'[r] = q /\ \A p \in Runs \ {r} : run'[p] = run[p]
    BY <1>1, <1>3, RunTyped DEF Inv
  <1>5. Typed'
    BY <1>1, <1>4 DEF Inv, Typed
  <1>6. Registered /\ Grows /\ Forgotten'
    BY <1>1, <1>3, <1>4, Same
  <1>7. Living(r)' /\ ~Holding(r)'
    BY <1>1, <1>2, <1>3, <1>4 DEF Living, Mine, Holding, Takes
  <1>8. Trees => OnBranch(r)'
    BY <1>1, <1>3, <1>4 DEF Trees, OnBranch
  <1>9. UsersSame({r}) /\ \A u \in Units : RefsStay(u)
    BY <1>1 DEF UsersSame, RefsStay
  <1>10. run'[r].engine /\ act'[r].pc = "working"
    BY <1>1, <1>3, <1>4
  <1> QED
    BY <1>1, <1>4, <1>5, <1>6, <1>7, <1>8, <1>9, <1>10, MovesKeeps

\* Finish: a run ends, by its engine or by `close`, with none of its units or probes at work.
LEMMA FinishKeeps ==
  ASSUME Inv, NEW r \in Runs, Finish(r)
  PROVE  Keeps
  <1> DEFINE g == IF run[r].engine THEN run[r].registry ELSE "none"
             q == [run[r] EXCEPT !.life = "closed", !.engine = TRUE, !.registry = g,
                                 !.tree = run[r].named]
             left == {n \in Listed : slot[n].unit # NULL /\ RunOf[slot[n].unit[1]] = r}
             a == [Idle EXCEPT !.pc = "ending", !.listed = left]
  <1>1. /\ r \in Users /\ run[r].life = "open" /\ act' = [act EXCEPT ![r] = a]
        /\ run' = [run EXCEPT ![r] = q]
        /\ UNCHANGED <<slot, lock, agents, task, refs, gc>>
    BY DEF Finish, Users
  <1>2. /\ run[r].engine \/ run[r].registry = "none" \/ ~groups_at_work(r)
        /\ \A x \in Mine(r) : act[x].pc = "idle"
        /\ ~run[r].engine \/ act[r].pc = "working"
    BY Off DEF Finish, AtWork
  <1>3. run[r].named \in Slots /\ Living(r)
    BY <1>1 DEF Inv, Standing, Living
  <1>4. left \in SUBSET Slots
    BY DEF Listed
  <1> HIDE DEF left
  <1>5. a \in Act /\ a.pc = "ending"
    BY <1>4, IdleAct DEF Act, RunPcs
  <1>6. g \in {"none", "alive", "dead"} /\ (g # "none" \/ run[r].registry = "none" \/ ~groups_at_work(r))
    BY <1>2 DEF Inv, Typed, RunState
  <1> HIDE DEF g
  <1>7. /\ q \in RunState /\ q.life = "closed" /\ q.engine /\ q.tip = run[r].tip
        /\ q.registry = g /\ q.tree = run[r].named /\ q.named = run[r].named
    BY <1>3, <1>6 DEF Inv, Typed, RunState
  <1> HIDE DEF q, a
  <1>8. run' \in [Runs -> RunState] /\ run'[r] = q /\ \A p \in Runs \ {r} : run'[p] = run[p]
    BY <1>1, <1>7, RunTyped DEF Inv
  <1>9. /\ act' \in [Users -> Act] /\ UsersSame({r}) /\ act'[r] = a
        /\ \A p \in Runs : act'[p].pc \in RunPcs
        /\ \A v \in Units : act'[v].pc \in UnitPcs
        /\ \A m \in Probes : act'[m].pc \in ProbePcs
    BY <1>1, <1>5, ActTyped DEF Inv, RunPcs
  <1>10. Typed'
    BY <1>1, <1>8, <1>9 DEF Inv, Typed
  <1>11. Registered /\ Grows
    BY <1>1, <1>6, <1>7, <1>8 DEF Registered, Grows
  <1>12. Forgotten'
    <2>1. r \notin gc.forget
      BY <1>1 DEF Inv, Forgotten
    <2> QED
      BY <1>1, <1>8, <2>1 DEF Inv, Forgotten, Typed, Pass
  <1>13. Living(r)'
    <2>1. \A x \in Mine(r) : act'[x].pc = "idle"
      BY <1>2, <1>9, Names DEF UsersSame, Mine, Users
    <2> QED
      BY <1>3, <1>5, <1>7, <1>8, <1>9, <2>1 DEF Living, Mine
  <1>14. ~Holding(r)' /\ OnBranch(r)'
    BY <1>5, <1>9 DEF Holding, Takes, OnBranch
  <1>15. \A u \in Units : RefsStay(u)
    BY <1>1 DEF RefsStay
  <1>16. run'[r].engine /\ act'[r].pc = "ending"
    BY <1>5, <1>7, <1>8, <1>9
  <1> QED
    BY <1>1, <1>8, <1>9, <1>10, <1>11, <1>12, <1>13, <1>14, <1>15, <1>16, MovesKeeps

\* An engine's way out, once nothing of its run is at work: the leases it kept are a gone one's.
LEMMA ExitKeeps ==
  ASSUME Inv, NEW r \in Runs, Exit(r), \A x \in Mine(r) : act[x].pc = "idle",
         run' = [run EXCEPT ![r].engine = FALSE,
                    ![r].registry = IF groups_at_work(r) THEN "dead" ELSE "none"],
         UNCHANGED <<slot, agents, task, refs, gc>>
  PROVE  Keeps
  <1> DEFINE g == IF groups_at_work(r) THEN "dead" ELSE "none"
             q == [run[r] EXCEPT !.engine = FALSE, !.registry = g]
             S == {n \in Slots : lock[n] # NULL /\ lock[n].by = r}
  <1>1. r \in Users /\ act' = [act EXCEPT ![r] = Idle] /\ run' = [run EXCEPT ![r] = q]
    BY DEF Exit, Users
  <1>2. \A n \in Slots : lock'[n] = IF n \in S THEN [lock[n] EXCEPT !.lives = FALSE] ELSE lock[n]
    BY DEF Exit
  <1>3. lock' \in [Slots -> Lock \cup {NULL}]
    <2>1. \A n \in S : [lock[n] EXCEPT !.lives = FALSE] \in Lock
      BY DEF Inv, Typed, Lock
    <2>2. lock' = [n \in Slots |-> IF n \in S THEN [lock[n] EXCEPT !.lives = FALSE] ELSE lock[n]]
      BY DEF Exit
    <2> HIDE DEF S
    <2> QED
      BY <2>1, <2>2 DEF Inv, Typed
  <1>4. \A n \in S : /\ lock'[n] # NULL /\ lock'[n].by = lock[n].by /\ ~lock'[n].lives
    <2> SUFFICES ASSUME NEW n \in S PROVE lock'[n] # NULL /\ lock'[n].by = lock[n].by /\ ~lock'[n].lives
      OBVIOUS
    <2>1. lock[n] \in Lock /\ lock'[n] = [lock[n] EXCEPT !.lives = FALSE]
      BY <1>2 DEF Inv, Typed
    <2>2. lock'[n] \in Lock /\ lock'[n].by = lock[n].by /\ ~lock'[n].lives
      BY <2>1 DEF Lock
    <2> QED
      BY <2>2, Names
  <1>5. g \in {"none", "dead"} /\ (g # "none" \/ ~groups_at_work(r))
    OBVIOUS
  <1> HIDE DEF g
  <1>6. /\ q \in RunState /\ q.life = run[r].life /\ ~q.engine /\ q.tip = run[r].tip
        /\ q.registry = g /\ q.tree = run[r].tree /\ q.named = run[r].named
    BY <1>5 DEF Inv, Typed, RunState
  <1> HIDE DEF q
  <1>7. run' \in [Runs -> RunState] /\ run'[r] = q /\ \A p \in Runs \ {r} : run'[p] = run[p]
    BY <1>1, <1>6, RunTyped DEF Inv
  <1>8. /\ act' \in [Users -> Act] /\ act'[r].pc = "idle" /\ UsersSame({r})
        /\ \A p \in Runs : act'[p].pc \in RunPcs
        /\ \A u \in Units : act'[u].pc \in UnitPcs
        /\ \A m \in Probes : act'[m].pc \in ProbePcs
    BY <1>1, IdleTyped DEF Inv
  <1>9. Typed'
    BY <1>3, <1>7, <1>8 DEF Inv, Typed
  <1>10. Registered /\ Grows
    BY <1>5, <1>6, <1>7 DEF Registered, Grows
  <1>11. Forgotten'
    BY <1>6, <1>7 DEF Inv, Forgotten, Typed, Pass
  <1>12. Living(r)'
    <2>1. Living(r)
      BY DEF Inv, Standing
    <2>2. \A x \in Mine(r) : act'[x].pc = "idle"
      BY <1>8, Names DEF UsersSame, Mine, Users
    <2> QED
      BY <1>6, <1>7, <1>8, <2>1, <2>2 DEF Living, Mine
  <1>13. ~Holding(r)' /\ OnBranch(r)'
    BY <1>8 DEF Holding, Takes, OnBranch
  <1>14. Clear({r}, S)
    <2> SUFFICES ASSUME NEW y \in Users \ {r}, Holding(y), act[y].at \in S PROVE FALSE
      BY DEF Clear
    <2>1. lock[act[y].at] = [by |-> Run(y), lives |-> TRUE]
      BY DEF Inv, Leases, Leased
    <2>2. Run(y) = r
      BY <2>1
    <2>3. y \in Mine(r)
      BY <2>2, RunOfUsers DEF Mine, Users
    <2> QED
      BY <2>3 DEF Holding, Takes, UnitHolds
  <1>15. SlotsSame(S) /\ \A u \in Units : RefsStay(u)
    BY <1>2 DEF SlotsSame, RefsStay
  <1>16. \A n \in S : Kempt(n)' /\ DirtyStays(n) /\ TreeStays(n)
    <2> SUFFICES ASSUME NEW n \in Slots, n \in S PROVE Kempt(n)' /\ DirtyStays(n) /\ TreeStays(n)
      OBVIOUS
    <2>1. Kempt(n)
      BY DEF Inv, Tidy
    <2>2. lock'[n] # NULL /\ lock'[n].by = lock[n].by /\ ~lock'[n].lives
      BY <1>4
    <2>3. agents[n] # NULL => run'[Run(agents[n])].registry # "none"
      <3> SUFFICES ASSUME agents[n] # NULL PROVE run'[Run(agents[n])].registry # "none"
        OBVIOUS
      <3>1. agents[n] \in Users /\ run[Run(agents[n])].registry # "none"
        BY <2>1 DEF Kempt, Inv, Typed
      <3>2. groups_at_work(Run(agents[n]))
        BY DEF groups_at_work
      <3> QED
        BY <1>10, <3>1, <3>2, RunOfUsers DEF Registered
    <2>4. slot' = slot /\ agents' = agents
      OBVIOUS
    <2> HIDE DEF S
    <2>5. Kempt(n)'
      BY <2>1, <2>2, <2>3, <2>4 DEF Kempt
    <2> QED
      BY <2>4, <2>5 DEF DirtyStays, TreeStays
  <1>17. S \in SUBSET Slots /\ \A n \in Slots \ S : ~(lock[n] # NULL /\ lock[n].by = r)
    OBVIOUS
  <1>18. task' = task /\ gc' = gc
    OBVIOUS
  <1>19. \A n \in S : Touches(r, n)
    <2> SUFFICES ASSUME NEW n \in S PROVE Touches(r, n)
      OBVIOUS
    <2>1. lock[n] \in Lock /\ lock[n] # NULL /\ lock[n].by = r
          /\ lock'[n] = [lock[n] EXCEPT !.lives = FALSE]
      BY <1>2 DEF Inv, Typed
    <2>2. lock[n].lives \/ lock'[n] = lock[n]
      BY <2>1 DEF Lock
    <2>3. slot' = slot /\ agents' = agents
      OBVIOUS
    <2> QED
      BY <2>1, <2>2, <2>3 DEF Touches
  <1>20. Enters(r) /\ Paired(r)'
    BY <1>8 DEF Enters, Paired, Entering
  <1> HIDE DEF S
  <1> QED
    BY <1>19, <1>20, <1>7, <1>8, <1>9, <1>10, <1>11, <1>12, <1>13, <1>14, <1>15, <1>16, <1>17, <1>18, RunKeeps

\* Park: an engine leaves its run to be woken.
LEMMA ParkKeeps ==
  ASSUME Inv, NEW r \in Runs, Park(r)
  PROVE  Keeps
  BY ExitKeeps DEF Park

\* ClearRegistry: the last step of a run that ended is its process's way out.
LEMMA ClearRegistryKeeps ==
  ASSUME Inv, NEW r \in Runs, ClearRegistry(r)
  PROVE  Keeps
  BY Off, ExitKeeps DEF ClearRegistry

\* FailOnRefused: an engine that cannot reopen a unit's checkout ends.
LEMMA FailOnRefusedKeeps ==
  ASSUME Inv, NEW u \in Units, FailOnRefused(u)
  PROVE  Keeps
  BY Names, ExitKeeps DEF FailOnRefused

\* A unit's checkout is let go of, or left as it is.
LEMMA LetsGo ==
  ASSUME Inv, NEW n \in Slots, LetGo(n), agents' = agents, Registered
  PROVE  /\ slot' \in [Slots -> Slot] /\ lock' \in [Slots -> Lock \cup {NULL}]
         /\ \E S \in SUBSET Slots :
               /\ SlotsSame(S) /\ Clear({}, S)
               /\ \A m \in S : Kempt(m)' /\ TreeStays(m) /\ DirtyStays(m)
               /\ \A m \in S : CanHold(m) /\ slot'[m].branch \in {slot[m].branch, NULL}
  <1>1. CASE CanHold(n) /\ slot[n].at = "listed"
    <2> DEFINE u == IF Clean(n) THEN NULL ELSE slot[n].unit
               s == [slot[n] EXCEPT !.unit = u]
    <2>1. slot' = [slot EXCEPT ![n] = s] /\ lock' = [lock EXCEPT ![n] = NULL]
      BY <1>1 DEF LetGo
    <2>2. u \in {slot[n].unit, NULL} /\ u \in (Units \X (1..MaxAttempts)) \cup {NULL}
      BY Slotted DEF Inv
    <2> HIDE DEF u
    <2>3. s \in Slot /\ s.at = slot[n].at /\ s.branch = slot[n].branch
          /\ s.dirty = slot[n].dirty /\ s.unit = u
      BY <2>2, Slotted DEF Inv, Slot
    <2> HIDE DEF s
    <2>4. slot' \in [Slots -> Slot] /\ slot'[n] = s /\ \A m \in Slots \ {n} : slot'[m] = slot[m]
      BY <2>1, <2>3, SlotTyped DEF Inv
    <2>5. /\ lock' \in [Slots -> Lock \cup {NULL}] /\ lock'[n] = NULL
          /\ \A m \in Slots \ {n} : lock'[m] = lock[m]
      BY <2>1, LockTyped DEF Inv
    <2>6. SlotsSame({n}) /\ Clear({}, {n})
      BY <1>1, <2>4, <2>5, FreeOfUsers DEF SlotsSame, Clear, Inv
    <2>7. Kempt(n)' /\ TreeStays(n) /\ DirtyStays(n)
      BY <1>1, <2>2, <2>3, <2>4, <2>5, FreeStays
    <2>8. /\ \A m \in {n} : Kempt(m)' /\ TreeStays(m) /\ DirtyStays(m)
          /\ \A m \in {n} : CanHold(m) /\ slot'[m].branch \in {slot[m].branch, NULL}
      BY <1>1, <2>3, <2>4, <2>7
    <2> QED
      BY <2>4, <2>5, <2>6, <2>8
  <1>2. CASE ~(CanHold(n) /\ slot[n].at = "listed")
    <2>1. slot' = slot /\ lock' = lock
      BY <1>2 DEF LetGo
    <2>2. SlotsSame({}) /\ Clear({}, {})
      BY <2>1 DEF SlotsSame, Clear
    <2> QED
      BY <2>1, <2>2 DEF Inv, Typed
  <1> QED
    BY <1>1, <1>2

\* FreeUnit: what was kept for a unit that needs it no more is given back.
LEMMA FreeUnitKeeps ==
  ASSUME Inv, NEW r \in Runs, NEW n \in Slots, FreeUnit(r, n)
  PROVE  Keeps
  <1> DEFINE left == act[r].listed \ {n}
             a == [act[r] EXCEPT !.listed = left]
  <1>1. /\ r \in Users /\ act[r].pc = "ending" /\ act' = [act EXCEPT ![r] = a] /\ LetGo(n)
        /\ agents' = agents /\ run' = run /\ task' = task /\ refs' = refs /\ gc' = gc
    BY DEF FreeUnit, Users
  <1>2. act[r] \in Act /\ left \in SUBSET Slots
    BY <1>1 DEF Inv, Typed, Act
  <1> HIDE DEF left
  <1>3. a \in Act /\ a.pc = "ending"
    BY <1>1, <1>2 DEF Act
  <1> HIDE DEF a
  <1>4. /\ act' \in [Users -> Act] /\ UsersSame({r}) /\ act'[r] = a
        /\ \A p \in Runs : act'[p].pc \in RunPcs
        /\ \A v \in Units : act'[v].pc \in UnitPcs
        /\ \A m \in Probes : act'[m].pc \in ProbePcs
    BY <1>1, <1>3, ActTyped DEF Inv, RunPcs
  <1>5. Registered /\ Grows /\ Forgotten'
    BY <1>1, Same
  <1>6. slot' \in [Slots -> Slot] /\ lock' \in [Slots -> Lock \cup {NULL}]
    BY <1>1, <1>5, LetsGo
  <1>7. PICK S \in SUBSET Slots :
          /\ SlotsSame(S) /\ Clear({}, S)
          /\ \A m \in S : Kempt(m)' /\ TreeStays(m) /\ DirtyStays(m)
          /\ \A m \in S : CanHold(m) /\ slot'[m].branch \in {slot[m].branch, NULL}
    BY <1>1, <1>5, LetsGo
  <1>8. Typed'
    BY <1>1, <1>4, <1>6 DEF Inv, Typed
  <1>9. run[r].engine /\ act'[r].pc = "ending"
    BY <1>1, <1>3, <1>4, Off
  <1>10. Living(r)'
    <2>1. Living(r) /\ \A x \in Mine(r) : act'[x].pc = "idle"
      BY <1>1, <1>4, Off, Names DEF UsersSame, Mine, Users, Inv, Standing
    <2> QED
      BY <1>1, <1>9, <2>1 DEF Living, Mine
  <1>11. ~Holding(r)' /\ OnBranch(r)'
    BY <1>9 DEF Holding, Takes, OnBranch
  <1>12. \A m \in Slots : Drives(r, m)'
    BY <1>1, <1>9 DEF Drives
  <1>13. Clear({r}, S) /\ \A u \in Units : RefsStay(u)
    BY <1>1, <1>7 DEF Clear, RefsStay
  <1>14. (\A m \in S : Touches(r, m)) /\ Enters(r) /\ Paired(r)'
    BY <1>7, <1>9 DEF Touches, Enters, Paired, Entering
  <1> QED
    BY <1>1, <1>4, <1>5, <1>7, <1>8, <1>10, <1>11, <1>12, <1>13, <1>14, RunKeeps

\* ForgetMerged: a ref goes once its commit is in its run's branch.
LEMMA ForgetMergedKeeps ==
  ASSUME Inv, NEW r \in Runs, ForgetMerged(r)
  PROVE  Keeps
  <1>1. /\ r \in Users /\ act[r].pc = "ending" /\ act' = [act EXCEPT ![r].pc = "releasing"]
        /\ refs' = {f \in refs : RunOf[f.unit] # r \/ ~(f.commit \subseteq run[r].tip)}
        /\ UNCHANGED <<slot, lock, agents, run, task, gc>>
    BY DEF ForgetMerged, Users
  <1>2. /\ act' \in [Users -> Act] /\ UsersSame({r}) /\ act'[r].pc = "releasing"
        /\ \A p \in Runs : act'[p].pc \in RunPcs
        /\ \A v \in Units : act'[v].pc \in UnitPcs
        /\ \A m \in Probes : act'[m].pc \in ProbePcs
    BY <1>1, PcTyped DEF Inv, RunPcs
  <1>3. refs' \subseteq Ref
    BY <1>1 DEF Inv, Typed
  <1>4. Typed'
    BY <1>1, <1>2, <1>3 DEF Inv, Typed
  <1>5. Registered /\ Grows /\ Forgotten'
    BY <1>1, Same
  <1>6. run[r].engine /\ \A x \in Mine(r) : act[x].pc = "idle"
    BY <1>1, Off
  <1>7. Living(r)'
    <2>1. Living(r) /\ \A x \in Mine(r) : act'[x].pc = "idle"
      BY <1>2, <1>6, Names DEF UsersSame, Mine, Users, Inv, Standing
    <2> QED
      BY <1>1, <1>2, <1>6, <2>1 DEF Living, Mine
  <1>8. ~Holding(r)' /\ OnBranch(r)'
    BY <1>2 DEF Holding, Takes, OnBranch
  <1>9. \A u \in Units : RefsStay(u)
    <2> SUFFICES ASSUME NEW u \in Units, NEW f \in refs, f.unit = u, f \notin refs'
                 PROVE  act[u].pc = "idle" /\ f.commit \subseteq run[RunOf[u]].tip
      BY DEF RefsStay
    <2>1. RunOf[u] = r /\ f.commit \subseteq run[r].tip
      BY <1>1
    <2> QED
      BY <1>6, <2>1 DEF Mine
  <1>10. run'[r].engine
    BY <1>1, <1>6
  <1> QED
    BY <1>1, <1>2, <1>4, <1>5, <1>7, <1>8, <1>9, <1>10, MovesKeeps

\* A run's checkout goes back to the pool, is kept in the name of who released it, or is left.
LEMMA Releases ==
  ASSUME Inv, NEW r \in Runs, NEW n \in Slots, NEW lives \in BOOLEAN, Release(r, n, lives),
         agents' = agents, Registered, lives => Drives(r, n)'
  PROVE  /\ slot' \in [Slots -> Slot] /\ lock' \in [Slots -> Lock \cup {NULL}]
         /\ \E S \in SUBSET Slots :
               /\ SlotsSame(S) /\ Clear({}, S)
               /\ \A m \in S : Kempt(m)' /\ DirtyStays(m)
               /\ \A m \in S : TreeStays(m) \/ slot[m].branch = r
               /\ \A m \in S : CanHold(m) /\ slot'[m].branch \in {slot[m].branch, NULL}
  <1>1. CASE ~CanHold(n) \/ slot[n].at # "listed"
    <2>1. slot' = slot /\ lock' = lock
      BY <1>1 DEF Release
    <2>2. SlotsSame({}) /\ Clear({}, {})
      BY <2>1 DEF SlotsSame, Clear
    <2> QED
      BY <2>1, <2>2 DEF Inv, Typed
  <1>2. CASE CanHold(n) /\ slot[n].at = "listed"
    <2>1. /\ \A y \in Users : Holding(y) => act[y].at # n
          /\ agents[n] \notin Units \cup Probes /\ Kempt(n) /\ r # NULL
      BY <1>2, FreeOfUsers, Names DEF Inv, Tidy, Users
    <2>2. CASE slot[n].by # NULL /\ groups_at_work(slot[n].by)
      <3> DEFINE l == [by |-> r, lives |-> lives]
      <3>1. lock' = [lock EXCEPT ![n] = l] /\ slot' = slot
        BY <1>2, <2>2 DEF Release
      <3>2. l \in Lock /\ l # NULL /\ l.by = r /\ l.lives = lives
        BY Leases1
      <3> HIDE DEF l
      <3>3. /\ lock' \in [Slots -> Lock \cup {NULL}] /\ lock'[n] = l
            /\ \A m \in Slots \ {n} : lock'[m] = lock[m]
        BY <3>1, <3>2, LockTyped DEF Inv
      <3>4. SlotsSame({n}) /\ Clear({}, {n})
        BY <2>1, <3>1, <3>3 DEF SlotsSame, Clear
      <3>5. (lock[n] # NULL /\ lock[n].lives => Drives(lock[n].by, n))'
        BY <3>2, <3>3
      <3>6. Kempt(n)' /\ TreeStays(n) /\ DirtyStays(n)
        BY <1>2, <3>1, <3>5, FreeStays
      <3>7. /\ \A m \in {n} : Kempt(m)' /\ TreeStays(m) /\ DirtyStays(m)
            /\ \A m \in {n} : CanHold(m) /\ slot'[m].branch \in {slot[m].branch, NULL}
        BY <1>2, <3>1, <3>6
      <3> QED
        BY <3>1, <3>3, <3>4, <3>7 DEF Inv, Typed
    <2>3. CASE ~(slot[n].by # NULL /\ groups_at_work(slot[n].by))
      <3> DEFINE t == [slot[n] EXCEPT !.branch = NULL, !.head = run[r].tip]
                 s == IF slot[n].dirty = NULL /\ slot[n].branch = r THEN t ELSE slot[n]
      <3>1. lock' = [lock EXCEPT ![n] = NULL] /\ slot' = [slot EXCEPT ![n] = s]
        BY <1>2, <2>3 DEF Release, Clean
      <3>2. /\ t \in Slot /\ t.at = slot[n].at /\ t.branch = NULL /\ t.unit = slot[n].unit
            /\ t.dirty = slot[n].dirty
        <4>1. slot[n] \in Slot /\ run[r].tip \in Commits
          BY Slotted DEF Inv, Typed, RunState
        <4> QED
          BY <4>1 DEF Slot
      <3> HIDE DEF t
      <3>3. /\ s \in Slot /\ s.at = slot[n].at /\ s.unit = slot[n].unit /\ s.dirty = slot[n].dirty
            /\ s.branch = slot[n].branch \/ (s.branch = NULL /\ slot[n].branch = r)
        BY <3>2, Slotted DEF Inv
      <3> HIDE DEF s
      <3>4. slot' \in [Slots -> Slot] /\ slot'[n] = s /\ \A m \in Slots \ {n} : slot'[m] = slot[m]
        BY <3>1, <3>3, SlotTyped DEF Inv
      <3>5. /\ lock' \in [Slots -> Lock \cup {NULL}] /\ lock'[n] = NULL
            /\ \A m \in Slots \ {n} : lock'[m] = lock[m]
        BY <3>1, LockTyped DEF Inv
      <3>6. SlotsSame({n}) /\ Clear({}, {n})
        BY <2>1, <3>4, <3>5 DEF SlotsSame, Clear
      <3>7. Kempt(n)'
        BY <1>2, <2>1, <3>3, <3>4, <3>5, KemptAfter DEF Kempt
      <3>8. DirtyStays(n) /\ (TreeStays(n) \/ slot[n].branch = r)
        BY <3>3, <3>4 DEF DirtyStays, TreeStays
      <3>9. /\ \A m \in {n} : Kempt(m)' /\ DirtyStays(m)
            /\ \A m \in {n} : TreeStays(m) \/ slot[m].branch = r
            /\ \A m \in {n} : CanHold(m) /\ slot'[m].branch \in {slot[m].branch, NULL}
        BY <1>2, <3>3, <3>4, <3>7, <3>8
      <3> QED
        BY <3>4, <3>5, <3>6, <3>9
    <2> QED
      BY <2>2, <2>3
  <1> QED
    BY <1>1, <1>2

\* ReleaseTree: a run that ended gives its tree back, or keeps it.
LEMMA ReleaseTreeKeeps ==
  ASSUME Inv, NEW r \in Runs, ReleaseTree(r)
  PROVE  Keeps
  <1>1. /\ r \in Users /\ act[r].pc = "releasing" /\ act' = [act EXCEPT ![r].pc = "clearing"]
        /\ Release(r, run[r].tree, TRUE)
        /\ UNCHANGED <<agents, run, task, refs, gc>>
    BY DEF ReleaseTree, Users
  <1>2. /\ act' \in [Users -> Act] /\ UsersSame({r}) /\ act'[r].pc = "clearing"
        /\ \A p \in Runs : act'[p].pc \in RunPcs
        /\ \A v \in Units : act'[v].pc \in UnitPcs
        /\ \A m \in Probes : act'[m].pc \in ProbePcs
    BY <1>1, PcTyped DEF Inv, RunPcs
  <1>3. run[r].engine /\ \A x \in Mine(r) : act[x].pc = "idle"
    BY <1>1, Off
  <1>4. \A m \in Slots : Drives(r, m)'
    BY <1>1, <1>2, <1>3 DEF Drives
  <1>5. run[r].tree \in Slots /\ Living(r)
    BY <1>1 DEF Inv, Standing, Living
  <1>6. PICK t \in Slots : t = run[r].tree
    BY <1>5
  <1>7. Registered /\ Grows /\ Forgotten'
    BY <1>1, Same
  <1>8. Release(r, t, TRUE) /\ Drives(r, t)' /\ agents' = agents
    BY <1>1, <1>4, <1>6
  <1>9. slot' \in [Slots -> Slot] /\ lock' \in [Slots -> Lock \cup {NULL}]
    BY <1>7, <1>8, Releases
  <1>10. PICK S \in SUBSET Slots :
           /\ SlotsSame(S) /\ Clear({}, S)
           /\ \A m \in S : Kempt(m)' /\ DirtyStays(m)
           /\ \A m \in S : TreeStays(m) \/ slot[m].branch = r
           /\ \A m \in S : CanHold(m) /\ slot'[m].branch \in {slot[m].branch, NULL}
    BY <1>7, <1>8, Releases
  <1>11. Typed'
    BY <1>1, <1>2, <1>9 DEF Inv, Typed
  <1>12. Living(r)'
    <2>1. \A x \in Mine(r) : act'[x].pc = "idle"
      BY <1>2, <1>3, Names DEF UsersSame, Mine, Users
    <2> QED
      BY <1>1, <1>2, <1>3, <1>5, <2>1 DEF Living, Mine
  <1>13. ~Holding(r)' /\ OnBranch(r)'
    BY <1>2 DEF Holding, Takes, OnBranch
  <1>14. Clear({r}, S) /\ \A u \in Units : RefsStay(u)
    BY <1>1, <1>10 DEF Clear, RefsStay
  <1>15. task' = task /\ \A p \in Runs \ {r} : run'[p] = run[p]
    BY <1>1
  <1>16. gc' = gc /\ (\A m \in S : Touches(r, m)) /\ Enters(r) /\ Paired(r)'
    BY <1>1, <1>2, <1>10 DEF Touches, Enters, Paired, Entering
  <1> QED
    BY <1>16, <1>2, <1>4, <1>7, <1>10, <1>11, <1>12, <1>13, <1>14, <1>15, RunKeeps

-----------------------------------------------------------------------------
(* Sessions that end, passes of gc, crashes *)

\* AgentsEnd: the last session left in a checkout ends.
LEMMA AgentsEndKeeps ==
  ASSUME Inv, NEW n \in Slots, AgentsEnd(n)
  PROVE  Keeps
  <1>1. /\ agents' = [agents EXCEPT ![n] = NULL] /\ NULL \notin Units \cup Probes
        /\ UNCHANGED <<slot, lock, run, task, refs, act, gc>>
    BY Names DEF AgentsEnd, Users
  <1>2. agents' \in [Slots -> Users \cup {NULL}] /\ agents'[n] = NULL
        /\ \A m \in Slots \ {n} : agents'[m] = agents[m]
    BY <1>1 DEF Inv, Typed
  <1>3. Typed'
    BY <1>1, <1>2 DEF Inv, Typed
  <1>4. Leases'
    <2> SUFFICES ASSUME NEW y \in Users, Holding(y)' PROVE Leased(y)'
      BY DEF Leases
    <2>1. Leased(y) /\ act' = act /\ slot' = slot /\ lock' = lock
      BY <1>1 DEF Inv, Leases, Holding
    <2>2. agents'[act[y].at] \notin Units \cup Probes
      BY <1>1, <1>2, <2>1 DEF Leased
    <2> QED
      BY <2>1, <2>2 DEF Leased
  <1>5. Apart' /\ Standing' /\ Efforts' /\ Forgotten'
    BY <1>1 DEF Inv, Apart, Holding, Standing, Living, Efforts, Worked, Saved, Forgotten
  <1>6. Tidy'
    <2> SUFFICES ASSUME NEW m \in Slots PROVE Kempt(m)'
      BY DEF Tidy
    <2>1. Kempt(m) /\ slot' = slot /\ lock' = lock /\ run' = run /\ act' = act
      BY <1>1 DEF Inv, Tidy
    <2>2. agents'[m] = agents[m] \/ agents'[m] = NULL
      BY <1>2
    <2> QED
      BY <1>1, <2>1, <2>2 DEF Kempt, Drives
  <1>7. Trees => Trees'
    BY <1>1 DEF Trees, OnBranch
  <1>8. \A m \in Slots : DirtyStays(m)
    BY <1>1 DEF DirtyStays
  <1>9. Passes => Passes'
    <2>1. \A m \in Slots : agents'[m] \in {agents[m], NULL}
      BY <1>2
    <2> QED
      BY <1>1, <2>1 DEF Passes, Aside, Swept, Pairs, Paired
  <1> QED
    BY <1>3, <1>4, <1>5, <1>6, <1>7, <1>8, <1>9 DEF Keeps, Stands, Inv

\* A step of gc that changes checkouts that can be held, none of them a tree.
LEMMA GcKeeps ==
  ASSUME Inv, gc' \in Pass, Forgotten', UNCHANGED <<agents, run, task, act>>, refs' \subseteq refs,
         slot' \in [Slots -> Slot], lock' \in [Slots -> Lock \cup {NULL}],
         NEW S \in SUBSET Slots, SlotsSame(S), Clear({}, S),
         \A m \in S : Kempt(m)' /\ TreeStays(m) /\ DirtyStays(m),
         \A u \in Units : RefsStay(u)
  PROVE  Stands
  <1>1. Typed'
    BY DEF Inv, Typed
  <1>2. RunsStand /\ Grows /\ act' = act /\ \A u \in Units \ {} : task'[u] = task[u] /\ RefsStay(u)
    BY DEF RunsStand, Grows
  <1>3. {} \in SUBSET Units /\ \A u \in {} : Worked(u)' /\ Saved(u)'
    OBVIOUS
  <1> QED
    BY <1>1, <1>2, <1>3, StillKeeps

\* The same, where run r may lose its branch's checkout.
LEMMA GcTakes ==
  ASSUME Inv, gc' \in Pass, Forgotten', UNCHANGED <<agents, run, task, refs, act>>,
         slot' \in [Slots -> Slot], lock' \in [Slots -> Lock \cup {NULL}],
         NEW r \in Runs, act[r].pc \notin {"launching", "working"},
         NEW S \in SUBSET Slots, SlotsSame(S), Clear({}, S),
         \A m \in S : Kempt(m)' /\ DirtyStays(m),
         \A m \in S : TreeStays(m) \/ slot[m].branch = r
  PROVE  Stands
  <1>1. Typed'
    BY DEF Inv, Typed
  <1>2. Registered /\ Grows /\ UsersSame({r}) /\ Clear({r}, S) /\ \A u \in Units : RefsStay(u)
    BY DEF Registered, Grows, UsersSame, Clear, RefsStay
  <1>3. Living(r)'
    BY DEF Inv, Standing, Living, Mine
  <1>4. OnBranch(r)'
    BY DEF OnBranch
  <1>5. ASSUME Holding(r)' PROVE Holding(r) /\ act'[r].at = act[r].at /\ Leased(r)'
    <2>1. r \in Users
      BY DEF Users
    <2>2. Holding(r)
      BY <1>5 DEF Holding
    <2>3. Leased(r) /\ act[r].at \in Slots \ S
      BY <2>1, <2>2 DEF Inv, Leases, Leased, Clear
    <2>4. slot'[act[r].at] = slot[act[r].at] /\ lock'[act[r].at] = lock[act[r].at]
      BY <2>3 DEF SlotsSame
    <2>5. act' = act /\ agents' = agents
      OBVIOUS
    <2> QED
      BY <2>2, <2>3, <2>4, <2>5 DEF Leased
  <1>6. \A n \in Slots : lock[n] # NULL /\ lock[n].lives /\ lock[n].by = r => Drives(r, n)'
    BY DEF Inv, Tidy, Kempt, Drives
  <1>7. task' = task /\ \A q \in Runs \ {r} : run'[q] = run[q]
    OBVIOUS
  <1> QED
    BY <1>1, <1>2, <1>3, <1>4, <1>5, <1>6, <1>7, RunStands

\* A pass has one thing less to do.
LEMMA PassTyped ==
  ASSUME Typed
  PROVE  /\ \A n \in Slots : [gc EXCEPT !.look = @ \ {n}] \in Pass
                             /\ [gc EXCEPT !.look = @ \ {n}].forget = gc.forget
         /\ \A r \in Runs : [gc EXCEPT !.give[r] = NULL] \in Pass
                            /\ [gc EXCEPT !.give[r] = NULL].forget = gc.forget
  <1>1. gc \in Pass
    BY DEF Typed
  <1>2. ASSUME NEW n \in Slots
        PROVE  [gc EXCEPT !.look = @ \ {n}] \in Pass /\ [gc EXCEPT !.look = @ \ {n}].forget = gc.forget
    <2> DEFINE look == gc.look \ {n}
    <2>1. look \in SUBSET Slots
      BY <1>1 DEF Pass
    <2>2. [gc EXCEPT !.look = @ \ {n}] = [gc EXCEPT !.look = look]
      OBVIOUS
    <2> HIDE DEF look
    <2> QED
      BY <1>1, <2>1, <2>2 DEF Pass
  <1>3. ASSUME NEW r \in Runs
        PROVE  [gc EXCEPT !.give[r] = NULL] \in Pass /\ [gc EXCEPT !.give[r] = NULL].forget = gc.forget
    <2> DEFINE give == [gc.give EXCEPT ![r] = NULL]
    <2>1. give \in [Runs -> Slots \cup {NULL}]
      BY <1>1 DEF Pass
    <2>2. [gc EXCEPT !.give[r] = NULL] = [gc EXCEPT !.give = give]
      OBVIOUS
    <2> HIDE DEF give
    <2> QED
      BY <1>1, <2>1, <2>2 DEF Pass
  <1> QED
    BY <1>2, <1>3

\* GcForget: a pass lets go of what a unit of a collected run kept.
LEMMA GcForgetStands ==
  ASSUME Inv, NEW n \in Slots, GcForget(n)
  PROVE  Stands
  <1>1. /\ LetGo(n) /\ gc' = [gc EXCEPT !.look = @ \ {n}] /\ agents' = agents
        /\ UNCHANGED <<agents, run, task, refs, act>>
    BY DEF GcForget
  <1>2. gc' \in Pass /\ gc'.forget = gc.forget
    BY <1>1, PassTyped DEF Inv
  <1>3. Registered /\ Forgotten'
    BY <1>1, <1>2, Same
  <1>4. slot' \in [Slots -> Slot] /\ lock' \in [Slots -> Lock \cup {NULL}]
    BY <1>1, <1>3, LetsGo
  <1>5. PICK S \in SUBSET Slots :
          /\ SlotsSame(S) /\ Clear({}, S)
          /\ \A m \in S : Kempt(m)' /\ TreeStays(m) /\ DirtyStays(m)
    BY <1>1, <1>3, LetsGo
  <1>6. refs' \subseteq refs /\ \A u \in Units : RefsStay(u)
    BY <1>1 DEF RefsStay
  <1> QED
    BY <1>1, <1>2, <1>3, <1>4, <1>5, <1>6, GcKeeps

\* GcForgetRefs: the refs of collected runs go.
LEMMA GcForgetRefsStands ==
  ASSUME Inv, GcForgetRefs
  PROVE  Stands
  <1>1. /\ gc' = [gc EXCEPT !.phase = "give", !.look = {}]
        /\ refs' = {f \in refs : RunOf[f.unit] \notin gc.forget}
        /\ UNCHANGED <<slot, lock, agents, run, task, act>>
    BY DEF GcForgetRefs, GcGoes
  <1>2. gc' \in Pass /\ gc'.forget = gc.forget
    <2>1. gc \in Pass
      BY DEF Inv, Typed
    <2> QED
      BY <1>1, <2>1 DEF Pass
  <1>3. Forgotten'
    BY <1>1, <1>2, Same
  <1>4. \A u \in Units : RefsStay(u)
    <2> SUFFICES ASSUME NEW u \in Units, NEW f \in refs, f.unit = u, f \notin refs'
                 PROVE  act[u].pc = "idle" /\ run[RunOf[u]].life = "collected"
      BY DEF RefsStay
    <2>1. RunOf[u] \in gc.forget /\ RunOf[u] \in Runs
      BY <1>1, Names
    <2>2. run[RunOf[u]].life = "collected"
      BY <2>1 DEF Inv, Forgotten
    <2>3. act[RunOf[u]].pc = "idle"
      BY <2>1, <2>2, Off
    <2>4. u \in Mine(RunOf[u])
      BY DEF Mine
    <2> QED
      BY <2>1, <2>2, <2>3, <2>4, Off
  <1>5. SlotsSame({}) /\ Clear({}, {}) /\ refs' \subseteq refs
    BY <1>1 DEF SlotsSame, Clear
  <1>6. slot' \in [Slots -> Slot] /\ lock' \in [Slots -> Lock \cup {NULL}]
    BY <1>1 DEF Inv, Typed
  <1> QED
    BY <1>1, <1>2, <1>3, <1>4, <1>5, <1>6, GcKeeps

\* GcGive: a pass gives back the tree of a run that is not at work.
LEMMA GcGiveStands ==
  ASSUME Inv, Aside, NEW r \in Runs, GcGive(r)
  PROVE  Stands
  <1>1. /\ gc' = [gc EXCEPT !.give[r] = NULL] /\ gc.give[r] # NULL /\ gc.phase = "give"
        /\ UNCHANGED <<agents, run, task, refs, act>>
    BY DEF GcGive
  <1>2. gc' \in Pass /\ gc'.forget = gc.forget /\ gc.give[r] \in Slots
    BY <1>1, PassTyped DEF Inv, Typed, Pass
  <1>3. Registered /\ Forgotten'
    BY <1>1, <1>2, Same
  <1> PICK n \in Slots : n = gc.give[r]
    BY <1>2
  <1>4. Release(r, n, FALSE) /\ agents' = agents
    BY <1>1 DEF GcGive
  <1>5. slot' \in [Slots -> Slot] /\ lock' \in [Slots -> Lock \cup {NULL}]
    BY <1>3, <1>4, Releases
  <1>6. PICK S \in SUBSET Slots :
          /\ SlotsSame(S) /\ Clear({}, S)
          /\ \A m \in S : Kempt(m)' /\ DirtyStays(m)
          /\ \A m \in S : TreeStays(m) \/ slot[m].branch = r
    BY <1>3, <1>4, Releases
  <1>7. act[r].pc \notin {"launching", "working"}
    BY <1>1 DEF Aside
  <1> QED
    BY <1>1, <1>2, <1>3, <1>5, <1>6, <1>7, GcTakes

\* No pass forgets nothing.
LEMMA NoPassTyped == NoPass \in Pass /\ NoPass.forget = {}
  <1> DEFINE give == [r \in Runs |-> NULL]
  <1>1. give \in [Runs -> Slots \cup {NULL}]
    OBVIOUS
  <1>2. NoPass = [phase |-> "idle", give |-> give, forget |-> {}, look |-> {}, at |-> NULL]
    BY DEF NoPass
  <1> HIDE DEF give
  <1> QED
    BY <1>1, <1>2 DEF Pass

\* GcLook: a pass looks at the pool, and changes nothing of it.
LEMMA GcLookStands ==
  ASSUME Inv, GcLook
  PROVE  Stands
  <1>1. UNCHANGED <<slot, lock, agents, run, task, refs, act>>
    BY DEF GcLook
  <1>2. gc' \in Pass /\ (gc'.forget = gc.forget \/ gc'.forget = {})
    <2>1. Free \cap Builds \in SUBSET Slots /\ Free \ Builds \in SUBSET Slots /\ Emptiable \in SUBSET Slots
      BY DEF Free, Builds, Listed, Emptiable
    <2>2. PICK p \in {"idling", "room", "removing"}, look \in SUBSET Slots :
            gc' = [gc EXCEPT !.phase = p, !.look = look] \/ gc' = NoPass
      <3>1. {} \in SUBSET Slots
        OBVIOUS
      <3> HIDE DEF NoPass
      <3> QED
        BY <2>1, <3>1 DEF GcLook
    <2>3. CASE gc' = [gc EXCEPT !.phase = p, !.look = look]
      <3>1. gc \in Pass
        BY DEF Inv, Typed
      <3> QED
        BY <2>3, <3>1 DEF Pass
    <2>4. CASE gc' = NoPass
      BY <2>4, NoPassTyped
    <2> QED
      BY <2>2, <2>3, <2>4
  <1>3. Forgotten'
    BY <1>1, <1>2 DEF Inv, Forgotten
  <1>4. SlotsSame({}) /\ Clear({}, {}) /\ refs' \subseteq refs /\ \A u \in Units : RefsStay(u)
    BY <1>1 DEF SlotsSame, Clear, RefsStay
  <1>5. slot' \in [Slots -> Slot] /\ lock' \in [Slots -> Lock \cup {NULL}]
    BY <1>1 DEF Inv, Typed
  <1> QED
    BY <1>1, <1>2, <1>3, <1>4, <1>5, GcKeeps

\* GcHold: a pass holds a checkout it can, or lets it be.
LEMMA GcHoldStands ==
  ASSUME Inv, NEW n \in Slots, GcHold(n)
  PROVE  Stands
  <1> DEFINE at == IF CanHold(n) /\ (gc.phase = "room" \/ still_free(n)) THEN n ELSE NULL
             look == gc.look \ {n}
  <1>1. /\ gc' = [gc EXCEPT !.look = look, !.at = at]
        /\ UNCHANGED <<slot, agents, run, task, refs, act>>
        /\ lock' = IF CanHold(n) THEN [lock EXCEPT ![n] = NULL] ELSE lock
    BY DEF GcHold
  <1>2. gc' \in Pass /\ gc'.forget = gc.forget
    <2>1. gc \in Pass /\ at \in Slots \cup {NULL}
      BY DEF Inv, Typed
    <2>2. look \in SUBSET Slots
      BY <2>1 DEF Pass
    <2> HIDE DEF at, look
    <2> QED
      BY <1>1, <2>1, <2>2 DEF Pass
  <1> HIDE DEF at, look
  <1>3. Registered /\ Forgotten' /\ refs' \subseteq refs /\ \A u \in Units : RefsStay(u)
    BY <1>1, <1>2, Same DEF RefsStay
  <1>4. slot' \in [Slots -> Slot] /\ lock' \in [Slots -> Lock \cup {NULL}]
    BY <1>1, LockTyped DEF Inv, Typed
  <1>5. CASE ~CanHold(n)
    <2>1. SlotsSame({}) /\ Clear({}, {})
      BY <1>1, <1>5 DEF SlotsSame, Clear
    <2> QED
      BY <1>1, <1>2, <1>3, <1>4, <2>1, GcKeeps
  <1>6. CASE CanHold(n)
    <2>1. lock'[n] = NULL /\ \A m \in Slots \ {n} : lock'[m] = lock[m]
      BY <1>1, <1>6 DEF Inv, Typed
    <2>2. Clear({}, {n})
      BY <1>6, FreeOfUsers DEF Clear, Inv
    <2>3. Kempt(n)' /\ TreeStays(n) /\ DirtyStays(n)
      BY <1>1, <1>3, <1>6, <2>1, FreeStays
    <2>4. SlotsSame({n}) /\ \A m \in {n} : Kempt(m)' /\ TreeStays(m) /\ DirtyStays(m)
      BY <1>1, <2>1, <2>3 DEF SlotsSame
    <2> QED
      BY <1>1, <1>2, <1>3, <1>4, <2>2, <2>4, GcKeeps
  <1> QED
    BY <1>5, <1>6

\* Of a checkout whose lock is free nobody holds it, and nobody was left in it.
LEMMA Unlocked ==
  ASSUME Inv, NEW n \in Slots, lock[n] = NULL
  PROVE  Clear({}, {n}) /\ agents[n] \notin Units \cup Probes
  <1>1. ASSUME NEW y \in Users, Holding(y), act[y].at = n PROVE FALSE
    <2>1. lock[n] = [by |-> Run(y), lives |-> TRUE]
      BY <1>1 DEF Inv, Leases, Leased
    <2> QED
      BY <2>1, RunOfUsers, Leases1
  <1> QED
    BY <1>1 DEF Clear, Inv, Tidy, Kempt

\* GcTidy: a pass empties or removes the checkout it holds, or leaves it.
LEMMA GcTidyStands ==
  ASSUME Inv, Aside, Swept, NEW n \in Slots, GcTidy(n)
  PROVE  Stands
  <1> DEFINE gone == [NoSlot EXCEPT !.by = slot[n].by]
             s == [slot[n] EXCEPT !.built = FALSE]
  <1>1. /\ gc.at = n /\ gc' = [gc EXCEPT !.at = NULL]
        /\ UNCHANGED <<lock, agents, run, task, refs, act>>
        /\ \/ slot' = slot \/ slot' = [slot EXCEPT ![n] = s]
           \/ gc.phase = "removing" /\ slot' = [slot EXCEPT ![n] = gone]
    BY DEF GcTidy, Inv, Typed
  <1>2. gc' \in Pass /\ gc'.forget = gc.forget
    <2>1. gc \in Pass
      BY DEF Inv, Typed
    <2> QED
      BY <1>1, <2>1 DEF Pass
  <1>3. Registered /\ Forgotten' /\ refs' \subseteq refs /\ \A u \in Units : RefsStay(u)
    BY <1>1, <1>2, Same DEF RefsStay
  <1>4. /\ lock[n] = NULL /\ gc.phase \in Tidying /\ slot[n].branch = NULL
        /\ gc.phase # "room" => slot[n].dirty = NULL
    BY <1>1 DEF Swept, Aside
  <1>5. Clear({}, {n}) /\ agents[n] \notin Units \cup Probes /\ lock'[n] = NULL
    BY <1>1, <1>4, Unlocked
  <1>6. lock' \in [Slots -> Lock \cup {NULL}]
    BY <1>1 DEF Inv, Typed
  <1>7. /\ s \in Slot /\ s.at = slot[n].at /\ s.branch = slot[n].branch
        /\ s.dirty = slot[n].dirty /\ s.unit = slot[n].unit
    BY Slotted DEF Inv, Slot
  <1>8. /\ gone \in Slot /\ gone.at = "none" /\ gone.branch = NULL /\ gone.dirty = NULL
        /\ gone.unit = NULL
    <2>1. slot[n].by \in Runs \cup {NULL} /\ {} \in Commits
      BY Slotted DEF Inv, Commits
    <2> QED
      BY <2>1 DEF NoSlot, Slot, Base
  <1> HIDE DEF s, gone
  <1>9. PICK t \in Slot : /\ slot' = [slot EXCEPT ![n] = t]
                          /\ \/ t = slot[n] \/ t = s
                             \/ t = gone /\ gc.phase = "removing"
    <2>1. slot[n] \in Slot /\ slot = [slot EXCEPT ![n] = slot[n]]
      BY DEF Inv, Typed
    <2> QED
      BY <1>1, <1>7, <1>8, <2>1
  <1>10. slot' \in [Slots -> Slot] /\ slot'[n] = t /\ \A m \in Slots \ {n} : slot'[m] = slot[m]
    BY <1>9, SlotTyped DEF Inv
  <1>11. /\ t.branch = NULL /\ t.dirty = slot[n].dirty
         /\ \/ t.at = slot[n].at /\ t.unit = slot[n].unit
            \/ t.at # "listed" /\ t.unit = NULL /\ t.dirty = NULL
    BY <1>4, <1>7, <1>8, <1>9 DEF Tidying
  <1>12. Kempt(n)'
    <2>1. Kempt(n)
      BY DEF Inv, Tidy
    <2>2. /\ slot'[n].at # "listed" =>
               slot'[n].branch = NULL /\ slot'[n].unit = NULL /\ slot'[n].dirty = NULL
          /\ slot'[n].unit # NULL =>
               slot'[n].branch = NULL /\ slot'[n].dirty \in {NULL, slot'[n].unit[1]}
      BY <1>10, <1>11, <2>1 DEF Kempt
    <2> QED
      BY <1>1, <1>3, <1>5, <2>2, KemptAfter
  <1>13. TreeStays(n) /\ DirtyStays(n)
    BY <1>4, <1>10, <1>11 DEF TreeStays, DirtyStays
  <1>14. SlotsSame({n}) /\ \A m \in {n} : Kempt(m)' /\ TreeStays(m) /\ DirtyStays(m)
    BY <1>1, <1>10, <1>12, <1>13 DEF SlotsSame
  <1> QED
    BY <1>1, <1>2, <1>3, <1>5, <1>6, <1>10, <1>14, GcKeeps

\* GcReclaim: a pass collects runs that ended.
LEMMA GcReclaimStands ==
  ASSUME Inv, NEW R \in SUBSET Runs, GcReclaim(R)
  PROVE  Stands
  <1> DEFINE closed == {r \in R : run[r].life = "closed"}
             give == [r \in Runs |-> IF r \in R THEN run[r].named ELSE NULL]
             look == {n \in Listed : slot[n].unit # NULL /\ RunOf[slot[n].unit[1]] \in closed}
             Past(r) == [run[r] EXCEPT !.life = "collected", !.registry = "none"]
  <1>1. /\ \A r \in R : /\ run[r].life \in {"open", "closed"}
                        /\ ~run[r].engine /\ ~groups_at_work(r)
        /\ UNCHANGED <<slot, lock, agents, task, refs, act>>
        /\ run' = [r \in Runs |-> IF r \in closed THEN Past(r) ELSE run[r]]
        /\ gc' = [NoPass EXCEPT !.phase = "forget", !.forget = closed, !.give = give, !.look = look]
    BY DEF GcReclaim
  <1>2. closed \in SUBSET Runs /\ look \in SUBSET Slots
    BY DEF Listed
  <1>3. give \in [Runs -> Slots \cup {NULL}]
    BY DEF Inv, Typed, RunState
  <1>4. \A r \in closed : ~run[r].engine /\ ~groups_at_work(r) /\ run[r].life = "closed"
    BY <1>1
  <1> HIDE DEF closed, give, look
  <1>5. gc' \in Pass /\ gc'.forget = closed
    BY <1>1, <1>2, <1>3, NoPassTyped DEF Pass
  <1>6. \A r \in Runs : /\ Past(r) \in RunState /\ Past(r).life = "collected"
                        /\ Past(r).registry = "none" /\ Past(r).engine = run[r].engine
                        /\ Past(r).tip = run[r].tip /\ Past(r).tree = run[r].tree
                        /\ Past(r).named = run[r].named
    BY DEF Inv, Typed, RunState
  <1> HIDE DEF Past
  <1>7. /\ \A r \in Runs : run'[r] = IF r \in closed THEN Past(r) ELSE run[r]
        /\ run' \in [Runs -> RunState]
    BY <1>1, <1>6 DEF Inv, Typed
  <1>8. \A r \in Runs : /\ run'[r].engine = run[r].engine /\ run'[r].tip = run[r].tip
                        /\ run'[r].tree = run[r].tree /\ run'[r].named = run[r].named
                        /\ r \notin closed => run'[r] = run[r]
                        /\ r \in closed => run'[r].life = "collected" /\ run'[r].registry = "none"
    BY <1>6, <1>7
  <1>9. Typed'
    BY <1>1, <1>5, <1>7 DEF Inv, Typed
  <1>10. Registered /\ Grows /\ Forgotten'
    BY <1>2, <1>4, <1>5, <1>8 DEF Registered, Grows, Forgotten
  <1>11. UsersSame({}) /\ SlotsSame({}) /\ Clear({}, {}) /\ \A u \in Units : RefsStay(u)
    BY <1>1 DEF UsersSame, SlotsSame, Clear, RefsStay
  <1>12. Leases'
    BY <1>11, LeasesFrame DEF Inv
  <1>13. Apart'
    BY <1>1 DEF Inv, Apart, Holding
  <1>14. Tidy'
    <2>1. ASSUME NEW n \in Slots, lock[n] # NULL, lock[n].lives PROVE Drives(lock[n].by, n)'
      <3>1. lock[n].by \in Runs /\ Drives(lock[n].by, n) /\ lock'[n] = lock[n] /\ act' = act
        BY <1>1, <2>1 DEF Inv, Tidy, Kempt, Typed, Lock
      <3> QED
        BY <1>8, <3>1 DEF Drives
    <2> QED
      BY <1>10, <1>11, <2>1, TidyFrame DEF Inv
  <1>15. Standing'
    <2> SUFFICES ASSUME NEW r \in Runs PROVE Living(r)'
      BY DEF Standing
    <2>1. Living(r) /\ act' = act
      BY <1>1 DEF Inv, Standing
    <2>2. CASE r \notin closed
      BY <1>8, <2>1, <2>2 DEF Living, Mine
    <2>3. CASE r \in closed
      <3>1. ~run[r].engine /\ act[r].pc = "idle" /\ run[r].life = "closed"
        BY <1>4, <2>3, Off
      <3> QED
        BY <1>8, <2>1, <2>3, <3>1 DEF Living, Mine
    <2> QED
      BY <2>2, <2>3
  <1>16. Efforts'
    BY <1>1, <1>10, <1>11, EffortsFrame DEF Inv
  <1>17. Trees => Trees'
    BY <1>1, <1>8 DEF Trees, OnBranch
  <1>18. \A n \in Slots : DirtyStays(n)
    BY <1>1 DEF DirtyStays
  <1> QED
    BY <1>9, <1>10, <1>12, <1>13, <1>14, <1>15, <1>16, <1>17, <1>18 DEF Stands, Inv

\* A pass under way meets no run that enters a checkout, so its looks stay true.
LEMMA GcGoesOn ==
  ASSUME Perils = {}, Inv, Passes, act' = act, gc.phase # "idle",
         \A r \in Runs : gc'.give[r] # NULL => gc.give[r] # NULL,
         \A n \in Slots : gc'.phase \in Tidying /\ (n \in gc'.look \/ gc'.at = n)
                            => slot'[n].branch = NULL,
         Swept'
  PROVE  Passes'
  <1>1. \A r \in Runs : /\ act[r].pc \notin Entering
                        /\ gc.give[r] # NULL => act[r].pc \notin {"launching", "working"}
    BY DEF Passes, Aside
  <1>2. Aside'
    BY <1>1 DEF Aside
  <1>3. Pairs'
    BY <1>1 DEF Pairs, Paired, Entering
  <1> QED
    BY <1>2, <1>3 DEF Passes

\* Every step of a pass keeps what its own looks showed it.
LEMMA GcPasses ==
  ASSUME Perils = {}, Inv, Passes, GcStep
  PROVE  Passes'
  <1>0. gc \in Pass /\ NULL \notin Slots
    BY Names DEF Inv, Typed
  <1>1. ASSUME NEW R \in SUBSET Runs, GcReclaim(R) PROVE Passes'
    <2> DEFINE give == [r \in Runs |-> IF r \in R THEN run[r].named ELSE NULL]
    <2>1. /\ act' = act /\ gc'.phase = "forget" /\ gc'.at = NULL /\ gc'.give = give
          /\ \A r \in Runs : act[r].pc \notin Entering
          /\ \A r \in R : ~run[r].engine
      BY <1>1 DEF GcReclaim, NoPass
    <2>2. \A r \in Runs : give[r] # NULL => act[r].pc = "idle"
      BY <2>1, Off
    <2> HIDE DEF give
    <2> QED
      BY <1>0, <2>1, <2>2 DEF Passes, Aside, Swept, Pairs, Paired, Tidying, Entering
  <1>2. ASSUME NEW n \in Slots, GcForget(n) PROVE Passes'
    <2>1. /\ act' = act /\ gc.phase = "forget" /\ gc'.phase = "forget" /\ gc'.give = gc.give
          /\ gc'.at = gc.at
      BY <1>0, <1>2 DEF GcForget, Pass
    <2>2. Swept'
      BY <2>1 DEF Swept, Passes, Tidying
    <2> QED
      BY <2>1, <2>2, GcGoesOn DEF Tidying
  <1>3. CASE GcForgetRefs
    <2>1. /\ act' = act /\ gc.phase = "forget" /\ gc'.phase = "give" /\ gc'.give = gc.give
          /\ gc'.at = gc.at
      BY <1>0, <1>3 DEF GcForgetRefs, GcGoes, Pass
    <2>2. Swept'
      BY <2>1 DEF Swept, Passes, Tidying
    <2> QED
      BY <2>1, <2>2, GcGoesOn DEF Tidying
  <1>4. ASSUME NEW r \in Runs, GcGive(r) PROVE Passes'
    <2>1. /\ act' = act /\ gc.phase = "give" /\ gc'.phase = "give" /\ gc'.at = gc.at
          /\ gc'.give = [gc.give EXCEPT ![r] = NULL] /\ gc.give \in [Runs -> Slots \cup {NULL}]
      BY <1>0, <1>4 DEF GcGive, Pass
    <2>2. Swept'
      BY <2>1 DEF Swept, Passes, Tidying
    <2> QED
      BY <2>1, <2>2, GcGoesOn DEF Tidying
  <1>5. CASE GcLook
    <2>0. act' = act /\ slot' = slot /\ gc.phase # "idle" /\ gc.at = NULL
      BY <1>5 DEF GcLook
    <2> PICK look \in SUBSET (Free \cup Emptiable) :
          gc' = NoPass \/ \E p \in {"idling", "room", "removing"} :
                            gc' = [gc EXCEPT !.phase = p, !.look = look]
      <3> HIDE DEF NoPass
      <3>1. /\ Free \cap Builds \in SUBSET (Free \cup Emptiable)
            /\ Free \ Builds \in SUBSET (Free \cup Emptiable)
            /\ (IF Cardinality(Builds) > Budget THEN Emptiable ELSE {})
                  \in SUBSET (Free \cup Emptiable)
        OBVIOUS
      <3> QED
        BY <1>5, <3>1 DEF GcLook
    <2>1. /\ act' = act /\ slot' = slot /\ gc.phase # "idle" /\ gc'.at = NULL
          /\ \A r \in Runs : gc'.give[r] # NULL => gc.give[r] # NULL
          /\ gc'.look \subseteq Free \cup Emptiable
      <3>1. CASE gc' = NoPass
        BY <2>0, <3>1 DEF NoPass
      <3>2. ASSUME NEW p \in {"idling", "room", "removing"},
                   gc' = [gc EXCEPT !.phase = p, !.look = look]
            PROVE  gc'.at = gc.at /\ gc'.give = gc.give /\ gc'.look = look
        BY <1>0, <3>2 DEF Pass
      <3> QED
        BY <2>0, <3>1, <3>2
    <2>2. \A n \in gc'.look : slot'[n].branch = NULL
      BY <2>1 DEF Free, Emptiable
    <2>3. Swept'
      BY <1>0, <2>1 DEF Swept
    <2> QED
      BY <1>0, <2>1, <2>2, <2>3, GcGoesOn
  <1>6. ASSUME NEW n \in Slots, GcHold(n) PROVE Passes'
    <2> DEFINE at == IF CanHold(n) /\ (gc.phase = "room" \/ still_free(n)) THEN n ELSE NULL
    <2>1. /\ act' = act /\ slot' = slot /\ gc.phase \in Tidying /\ gc'.phase = gc.phase
          /\ gc'.give = gc.give /\ gc'.look = gc.look \ {n} /\ n \in gc.look /\ gc'.at = at
      BY <1>0, <1>6 DEF GcHold, Pass, Tidying
    <2>2. \A m \in Slots : m \in gc'.look \/ gc'.at = m => slot'[m].branch = NULL
      <3>1. \A m \in Slots : m \in gc'.look \/ gc'.at = m => m \in gc.look
        BY <1>0, <2>1
      <3> QED
        BY <2>1, <3>1 DEF Passes, Aside
    <2>3. Swept'
      <3> SUFFICES ASSUME NEW m \in Slots, gc'.at = m
                   PROVE  /\ lock'[m] = NULL /\ gc'.phase \in Tidying
                          /\ gc'.phase # "room" => slot'[m].dirty = NULL
        BY DEF Swept
      <3>1. m = n /\ CanHold(n) /\ (gc.phase = "room" \/ still_free(n))
        BY <1>0, <2>1
      <3>2. lock'[n] = NULL
        BY <1>6, <3>1 DEF GcHold, Inv, Typed
      <3> QED
        BY <2>1, <3>1, <3>2 DEF still_free, Clean
    <2> HIDE DEF at
    <2>4. gc.phase # "idle"
      BY <2>1 DEF Tidying
    <2> QED
      BY <2>1, <2>2, <2>3, <2>4, GcGoesOn
  <1>7. ASSUME NEW n \in Slots, GcTidy(n) PROVE Passes'
    <2>1. /\ act' = act /\ gc.at = n /\ gc'.at = NULL /\ gc'.phase = gc.phase
          /\ gc'.give = gc.give /\ gc'.look = gc.look
      BY <1>0, <1>7 DEF GcTidy, Pass
    <2>2. gc.phase \in Tidying /\ slot[n].branch = NULL
      BY <2>1 DEF Passes, Aside, Swept
    <2>3. \A m \in Slots : slot'[m].branch = slot[m].branch
      <3>1. /\ [slot[n] EXCEPT !.built = FALSE].branch = NULL
            /\ [NoSlot EXCEPT !.by = slot[n].by].branch = NULL
        BY <2>2, Slotted DEF Inv, Slot, NoSlot
      <3> QED
        BY <1>7, <2>2, <3>1 DEF GcTidy, Inv, Typed
    <2>4. Swept'
      BY <1>0, <2>1 DEF Swept
    <2>5. \A m \in Slots : m \in gc'.look => slot'[m].branch = NULL
      BY <2>1, <2>2, <2>3 DEF Passes, Aside
    <2>6. gc.phase # "idle"
      BY <2>2 DEF Tidying
    <2> QED
      BY <1>0, <2>1, <2>4, <2>5, <2>6, GcGoesOn
  <1> QED
    BY <1>1, <1>2, <1>3, <1>4, <1>5, <1>6, <1>7 DEF GcStep

\* Crash: an engine dies with all it held, some of its sessions living on in checkouts, and
\* some of what it was making half made.
LEMMA CrashKeeps ==
  ASSUME Inv, NEW r \in Runs, NEW half \in SUBSET Slots, NEW left \in SUBSET Users,
         Crash(r, half, left)
  PROVE  Keeps
  <1> DEFINE M == Mine(r) \cup {r}
             g == IF run[r].registry = "alive" THEN "dead" ELSE run[r].registry
             q == [run[r] EXCEPT !.engine = FALSE, !.registry = g]
             Torn(n) == [slot[n] EXCEPT !.at = "half"]
             Dead(n) == [lock[n] EXCEPT !.lives = FALSE]
             ours == {n \in Slots : lock[n] # NULL /\ lock[n].by = r}
             Where(n) == \E x \in left : n \in In(x)
             Who(n) == CHOOSE x \in left : n \in In(x)
             S == ours \cup half
  <1>1. /\ UNCHANGED <<task, refs, gc>>
        /\ run' = [run EXCEPT ![r] = q] /\ run[r].engine
        /\ slot' = [n \in Slots |-> IF n \in half THEN Torn(n) ELSE slot[n]]
        /\ lock' = [n \in Slots |-> IF n \in ours THEN Dead(n) ELSE lock[n]]
        /\ agents' = [n \in Slots |-> IF Where(n) THEN Who(n) ELSE agents[n]]
        /\ act' = [x \in Users |-> IF x \in M THEN Idle ELSE act[x]]
    BY DEF Crash, Inv, Typed
  <1>2. /\ \A n \in half : \E x \in M : act[x].pc = "making" /\ act[x].at = n
        /\ \A x \in left : x \in M /\ act[x].pc = "working"
    BY DEF Crash
  <1>3. /\ M \subseteq Users /\ \A x \in M : Run(x) = r
        /\ \A x \in Users : Run(x) = r => x \in M
        /\ r \notin Units \cup Probes /\ NULL \notin Users
    BY RunOfUsers, Names DEF Mine, Users
  <1>4. \A n \in Slots : /\ Torn(n) \in Slot /\ Torn(n).at = "half"
                         /\ Torn(n).branch = slot[n].branch /\ Torn(n).unit = slot[n].unit
                         /\ Torn(n).dirty = slot[n].dirty /\ Torn(n).head = slot[n].head
                         /\ Torn(n).by = slot[n].by
    BY Slotted DEF Inv, Slot
  <1>5. \A n \in ours : Dead(n) \in Lock /\ Dead(n).by = r /\ ~Dead(n).lives
    BY DEF Inv, Typed, Lock
  <1>6. g \in {"none", "alive", "dead"} /\ (run[r].registry # "none" => g # "none")
    BY DEF Inv, Typed, RunState
  <1>7. /\ ours \in SUBSET Slots
        /\ \A n \in Slots \ ours : lock[n] = NULL \/ lock[n].by # r
        /\ \A n \in ours : lock[n] # NULL /\ lock[n].by = r
    OBVIOUS
  <1> HIDE DEF g
  <1>8. /\ q \in RunState /\ q.life = run[r].life /\ ~q.engine /\ q.tip = run[r].tip
        /\ q.registry = g /\ q.tree = run[r].tree /\ q.named = run[r].named
    BY <1>6 DEF Inv, Typed, RunState
  <1>9. \A n \in Slots : Where(n) => Who(n) \in left /\ n \in In(Who(n))
    OBVIOUS
  <1> HIDE DEF q, Torn, Dead, Where, Who, ours
  <1>10. run' \in [Runs -> RunState] /\ run'[r] = q /\ \A p \in Runs \ {r} : run'[p] = run[p]
    BY <1>1, <1>8, RunTyped DEF Inv
  <1>11. /\ slot' \in [Slots -> Slot]
         /\ \A n \in half : slot'[n] = Torn(n)
         /\ \A n \in Slots \ half : slot'[n] = slot[n]
    BY <1>1, <1>4 DEF Inv, Typed
  <1>12. /\ lock' \in [Slots -> Lock \cup {NULL}]
         /\ \A n \in ours : lock'[n] = Dead(n)
         /\ \A n \in Slots \ ours : lock'[n] = lock[n]
    BY <1>1, <1>5, <1>7 DEF Inv, Typed
  <1>13. /\ agents' \in [Slots -> Users \cup {NULL}]
         /\ \A n \in Slots : \/ agents'[n] = agents[n]
                             \/ agents'[n] \in left /\ n \in In(agents'[n])
    BY <1>1, <1>9 DEF Inv, Typed
  <1>14. /\ \A x \in M : act'[x] = Idle
         /\ \A x \in Users \ M : act'[x] = act[x]
         /\ act' \in [Users -> Act]
    <2>1. Idle \in Act
      BY IdleAct
    <2> HIDE DEF M
    <2> QED
      BY <1>1, <1>3, <2>1 DEF Inv, Typed
  <1>15. \A x \in M : act'[x].pc = "idle" /\ ~Holding(x)'
    BY <1>14, IdleAct DEF Holding, Takes, UnitHolds
  <1>16. Typed'
    <2>1. \A x \in Users : act'[x] = Idle \/ act'[x] = act[x]
      BY <1>14
    <2>2. /\ \A p \in Runs : act'[p].pc \in RunPcs
          /\ \A u \in Units : act'[u].pc \in UnitPcs
          /\ \A m \in Probes : act'[m].pc \in ProbePcs
      BY <2>1, IdleAct DEF Inv, Typed, Users, RunPcs, UnitPcs, ProbePcs, Looks
    <2> QED
      BY <1>1, <1>10, <1>11, <1>12, <1>13, <1>14, <2>2 DEF Inv, Typed
  <1>17. Registered /\ Grows /\ Forgotten'
    <2>1. \A p \in Runs : /\ run'[p].tip = run[p].tip /\ run'[p].life = run[p].life
                          /\ run[p].registry # "none" => run'[p].registry # "none"
      BY <1>6, <1>8, <1>10
    <2> QED
      BY <1>1, <2>1 DEF Registered, Grows, Inv, Forgotten, Typed, Pass
  \* What is torn was being made by what dies.
  <1>18. ASSUME NEW n \in half
         PROVE  /\ slot[n].at # "listed" /\ slot[n].branch = NULL /\ slot[n].unit = NULL
                /\ slot[n].dirty = NULL
                /\ \E x \in M : Holding(x) /\ act[x].at = n
    <2>1. PICK x \in M : act[x].pc = "making" /\ act[x].at = n
      BY <1>2
    <2>2. Holding(x)
      BY <2>1 DEF Holding, Takes
    <2>3. Leased(x)
      BY <1>3, <2>2 DEF Inv, Leases
    <2>4. slot[n].at # "listed" /\ Kempt(n)
      BY <2>1, <2>3 DEF Leased, Inv, Tidy
    <2> QED
      BY <2>1, <2>2, <2>4 DEF Kempt
  <1>19. ASSUME NEW y \in Users \ M, Holding(y) PROVE act[y].at \notin ours \cup half
    <2>1. lock[act[y].at] = [by |-> Run(y), lives |-> TRUE]
      BY <1>19 DEF Inv, Leases, Leased
    <2>2. Run(y) # r
      BY <1>3
    <2>3. act[y].at \notin ours
      BY <1>7, <2>1, <2>2
    <2>4. act[y].at \notin half
      BY <1>3, <1>18, <1>19 DEF Inv, Apart
    <2> QED
      BY <2>3, <2>4
  \* A unit or a probe that is left works in the checkout it holds.
  <1>20. ASSUME NEW n \in Slots, agents'[n] \in left, n \in In(agents'[n])
         PROVE  /\ Run(agents'[n]) = r /\ agents'[n] \in M
                /\ run'[r].registry # "none"
                /\ agents'[n] \in Units \cup Probes =>
                     /\ Holding(agents'[n]) /\ act[agents'[n]].at = n
                     /\ slot[n].at = "listed" /\ slot[n].branch = NULL /\ slot[n].by = r
                     /\ lock[n] # NULL /\ lock[n].by = r
    <2> PICK x \in left : x = agents'[n]
      BY <1>20
    <2>1. x \in M /\ act[x].pc = "working" /\ Run(x) = r
      BY <1>2, <1>3
    <2>2. Living(r)
      BY DEF Inv, Standing
    <2>3. act[r].pc = "working"
      BY <2>1, <2>2 DEF Living
    <2>4. run[r].registry = "alive"
      BY <2>2, <2>3 DEF Living
    <2>5. run'[r].registry # "none"
      BY <1>6, <1>8, <1>10, <2>4
    <2>6. ASSUME x \in Units \cup Probes
          PROVE  /\ Holding(x) /\ act[x].at = n
                 /\ slot[n].at = "listed" /\ slot[n].branch = NULL /\ slot[n].by = r
                 /\ lock[n] # NULL /\ lock[n].by = r
      <3>1. x \notin Runs /\ RunOf[x] = r
        BY <1>3, <2>1, <2>6, Names DEF Run
      <3>2. act[x].at = n
        BY <1>20, <2>1, <3>1 DEF In
      <3>3. act[x].pc \in Takes \cup UnitHolds /\ act[x].pc \in UnitHolds /\ act[x].pc # "making"
        BY <2>1 DEF UnitHolds
      <3>4. Leased(x) /\ Holding(x)
        <4>1. Holding(x)
          BY <2>6, <3>1, <3>3 DEF Holding
        <4> QED
          BY <1>3, <2>1, <4>1 DEF Inv, Leases
      <3>5. slot[n].at = "listed" /\ slot[n].branch = NULL /\ slot[n].by = r
            /\ lock[n] = [by |-> r, lives |-> TRUE]
        BY <2>1, <3>2, <3>3, <3>4 DEF Leased
      <3>6. lock[n] # NULL /\ lock[n].by = r
        <4>1. [by |-> r, lives |-> TRUE] # NULL /\ [by |-> r, lives |-> TRUE].by = r
          BY Leases1
        <4> QED
          BY <3>5, <4>1
      <3> QED
        BY <3>2, <3>4, <3>5, <3>6
    <2> QED
      BY <2>1, <2>5, <2>6
  <1>21. Leases'
    <2> SUFFICES ASSUME NEW y \in Users, Holding(y)' PROVE Leased(y)'
      BY DEF Leases
    <2>1. y \notin M
      BY <1>15
    <2>2. act'[y] = act[y]
      BY <1>14, <2>1
    <2>3. Holding(y)
      BY <2>2 DEF Holding
    <2>4. Leased(y) /\ act[y].at \in Slots
      BY <2>3 DEF Inv, Leases, Leased
    <2>5. slot'[act[y].at] = slot[act[y].at] /\ lock'[act[y].at] = lock[act[y].at]
      BY <1>11, <1>12, <1>19, <2>1, <2>3, <2>4
    <2>6. agents'[act[y].at] \notin Units \cup Probes
      <3> SUFFICES ASSUME agents'[act[y].at] \in Units \cup Probes PROVE FALSE
        OBVIOUS
      <3> PICK n \in Slots : n = act[y].at
        BY <2>4
      <3>1. agents'[n] # agents[n]
        BY <2>4 DEF Leased
      <3>2. agents'[n] \in left /\ n \in In(agents'[n])
        BY <1>13, <3>1
      <3>3. agents'[n] \in M /\ Holding(agents'[n]) /\ act[agents'[n]].at = n
        BY <1>20, <3>2
      <3> QED
        BY <1>3, <2>1, <2>3, <3>3 DEF Inv, Apart
    <2> QED
      BY <2>2, <2>4, <2>5, <2>6 DEF Leased
  <1>22. Apart'
    <2>1. \A y \in Users : Holding(y)' => Holding(y) /\ act'[y].at = act[y].at
      BY <1>14, <1>15 DEF Holding
    <2> QED
      BY <2>1 DEF Inv, Apart
  <1>23. Tidy'
    <2> SUFFICES ASSUME NEW n \in Slots PROVE Kempt(n)'
      BY DEF Tidy
    <2>1. Kempt(n)
      BY DEF Inv, Tidy
    <2>2. /\ slot'[n].branch = slot[n].branch /\ slot'[n].unit = slot[n].unit
          /\ slot'[n].dirty = slot[n].dirty /\ slot'[n].by = slot[n].by
          /\ slot'[n].at = slot[n].at \/ n \in half
      BY <1>4, <1>11
    <2>3. /\ slot'[n].at # "listed" =>
               slot'[n].branch = NULL /\ slot'[n].unit = NULL /\ slot'[n].dirty = NULL
          /\ slot'[n].unit # NULL =>
               slot'[n].branch = NULL /\ slot'[n].dirty \in {NULL, slot'[n].unit[1]}
      BY <1>18, <2>1, <2>2 DEF Kempt
    <2>4. /\ lock[n] # NULL <=> lock'[n] # NULL
          /\ lock[n] # NULL => lock'[n].by = lock[n].by
          /\ lock'[n] # NULL /\ lock'[n].lives => lock'[n] = lock[n] /\ lock[n].by # r
      <3>1. CASE n \in ours
        BY <1>5, <1>7, <1>12, <3>1, Names
      <3>2. CASE n \notin ours
        BY <1>7, <1>12, <3>2
      <3> QED
        BY <3>1, <3>2
    <2>5. (lock[n] # NULL /\ lock[n].lives => Drives(lock[n].by, n))'
      <3>1. ASSUME lock'[n] # NULL, lock'[n].lives
            PROVE  lock'[n] = lock[n] /\ lock[n].by \in Runs \ {r} /\ Drives(lock[n].by, n)
        BY <2>1, <2>4, <3>1 DEF Kempt, Inv, Typed, Lock
      <3>2. \A p \in Runs \ {r} : act'[p] = act[p] /\ run'[p] = run[p]
        BY <1>3, <1>10, <1>14, RunOfUsers DEF Users
      <3> QED
        BY <3>1, <3>2 DEF Drives
    <2>6. agents'[n] # NULL => run'[Run(agents'[n])].registry # "none"
      <3>1. CASE agents'[n] = agents[n]
        <4> SUFFICES ASSUME agents[n] # NULL PROVE run'[Run(agents[n])].registry # "none"
          BY <3>1
        <4>1. agents[n] \in Users /\ run[Run(agents[n])].registry # "none"
          BY <2>1 DEF Kempt, Inv, Typed
        <4>2. groups_at_work(Run(agents[n]))
          BY DEF groups_at_work
        <4> QED
          BY <1>17, <4>1, <4>2, RunOfUsers DEF Registered
      <3>2. CASE agents'[n] \in left /\ n \in In(agents'[n])
        BY <1>20, <3>2
      <3> QED
        BY <1>13, <3>1, <3>2
    <2>7. ASSUME agents'[n] \in Units \cup Probes
          PROVE  /\ slot'[n].at = "listed" /\ slot'[n].branch = NULL
                 /\ slot'[n].by = Run(agents'[n])
                 /\ lock'[n] # NULL /\ lock'[n].by = Run(agents'[n])
      <3>1. CASE agents'[n] = agents[n]
        BY <1>18, <2>1, <2>2, <2>4, <2>7, <3>1 DEF Kempt
      <3>2. CASE agents'[n] \in left /\ n \in In(agents'[n])
        BY <1>18, <1>20, <2>2, <2>4, <2>7, <3>2
      <3> QED
        BY <1>13, <3>1, <3>2
    <2> QED
      BY <2>3, <2>5, <2>6, <2>7 DEF Kempt
  <1>24. Standing'
    <2> SUFFICES ASSUME NEW p \in Runs PROVE Living(p)'
      BY DEF Standing
    <2>1. Living(p)
      BY DEF Inv, Standing
    <2>2. CASE p = r
      <3>1. act'[r].pc = "idle" /\ \A x \in Mine(r) : act'[x].pc = "idle"
        BY <1>15
      <3> QED
        BY <1>8, <1>10, <2>1, <2>2, <3>1 DEF Living, Mine
    <2>3. CASE p # r
      <3>1. p \in Users \ M /\ \A x \in Mine(p) : x \in Users \ M
        BY <1>3, <2>3, RunOfUsers DEF Mine, Users
      <3>2. act'[p] = act[p] /\ run'[p] = run[p] /\ \A x \in Mine(p) : act'[x] = act[x]
        BY <1>10, <1>14, <2>3, <3>1
      <3> HIDE DEF M
      <3> QED
        BY <2>1, <3>2 DEF Living, Mine
    <2> QED
      BY <2>2, <2>3
  <1>25. Efforts'
    <2>1. \A n \in Slots \ half : slot'[n] = slot[n]
      BY <1>11
    <2>2. UsersSame(M) /\ Clear(M, half) /\ M \in SUBSET Users
      BY <1>3, <1>14, <1>19 DEF UsersSame, Clear
    <2>3. \A u \in Units \ M : task'[u] = task[u] /\ RefsStay(u)
      BY <1>1 DEF RefsStay
    <2>4. \A u \in Units \cap M : Worked(u)' /\ Saved(u)'
      <3> SUFFICES ASSUME NEW u \in Units, u \in M PROVE Worked(u)' /\ Saved(u)'
        OBVIOUS
      <3>1. Worked(u) /\ Saved(u) /\ RunOf[u] \in Runs
        BY Names DEF Inv, Efforts
      <3>2. act'[u].pc = "idle"
        BY <1>15
      <3>3. Worked(u)'
        BY <3>2 DEF Worked, UnitHolds
      <3>4. run'[RunOf[u]].tip = run[RunOf[u]].tip /\ run'[RunOf[u]].life = run[RunOf[u]].life
        BY <1>8, <1>10, <3>1
      <3>5. Saved(u)'
        BY <1>1, <3>1, <3>4 DEF Saved
      <3> QED
        BY <3>3, <3>5
    <2> HIDE DEF M
    <2> QED
      BY <1>17, <2>1, <2>2, <2>3, <2>4, EffortsFrame DEF Inv
  <1>26. Trees => Trees'
    <2> SUFFICES ASSUME Trees, NEW p \in Runs, act'[p].pc \in {"launching", "working"}
                 PROVE  slot'[run'[p].tree].at = "listed" /\ slot'[run'[p].tree].branch = p
      BY DEF Trees, OnBranch
    <2>1. p # r /\ p \notin M
      BY <1>15
    <2>2. act'[p] = act[p] /\ run'[p] = run[p]
      BY <1>10, <1>14, <2>1 DEF Users
    <2>3. /\ run[p].tree \in Slots /\ slot[run[p].tree].at = "listed"
          /\ slot[run[p].tree].branch = p
      BY <2>2 DEF Trees, OnBranch, Inv, Standing, Living
    <2>4. run[p].tree \notin half
      BY <1>18, <2>3
    <2> QED
      BY <1>11, <2>2, <2>3, <2>4
  <1>27. \A n \in Slots : DirtyStays(n)
    BY <1>4, <1>11 DEF DirtyStays
  \* A run that follows a build, and a pass of gc, hold what is not torn.
  <1>28. ASSUME Passes PROVE Passes'
    <2>1. \A p \in Runs : act'[p].pc = "idle" \/ (act'[p] = act[p] /\ run'[p] = run[p] /\ p # r)
      BY <1>10, <1>14, <1>15 DEF Users
    <2>2. \A n \in Slots : /\ slot'[n].branch = slot[n].branch /\ slot'[n].dirty = slot[n].dirty
                           /\ lock[n] = NULL => lock'[n] = NULL
      BY <1>4, <1>7, <1>11, <1>12
    <2>3. Aside'
      BY <1>1, <1>28, <2>1, <2>2 DEF Passes, Aside, Entering
    <2>4. Swept'
      BY <1>1, <1>28, <2>2 DEF Passes, Swept
    <2>5. ASSUME NEW p \in Runs, act'[p].pc = "following" PROVE Paired(p)'
      <3>1. act'[p] = act[p] /\ run'[p] = run[p] /\ p # r /\ Paired(p) /\ act[p].pc = "following"
        BY <1>28, <2>1, <2>5 DEF Passes, Pairs
      <3> PICK n \in Slots, m \in Slots : n = run[p].tree /\ m = act[p].at
        BY <3>1 DEF Paired
      <3>2. \A k \in {n, m} : /\ lock[k] = [by |-> p, lives |-> TRUE] /\ slot[k].at = "listed"
                              /\ agents[k] \notin Units \cup Probes
        BY <3>1 DEF Paired
      <3>3. \A k \in {n, m} : k \notin ours /\ k \notin half
        BY <1>7, <1>18, <3>1, <3>2
      <3>4. \A k \in {n, m} : slot'[k] = slot[k] /\ lock'[k] = lock[k]
        BY <1>11, <1>12, <3>3
      <3>5. ASSUME NEW k \in {n, m} PROVE agents'[k] \notin Units \cup Probes
        <4>1. k \in Slots /\ lock[k].by # r
          BY <3>1, <3>2
        <4> QED
          BY <1>13, <1>20, <3>2, <4>1
      <3> QED
        BY <3>1, <3>4, <3>5 DEF Paired
    <2>6. Pairs'
      BY <2>5 DEF Pairs, Paired
    <2> QED
      BY <2>3, <2>4, <2>6 DEF Passes
  <1> QED
    BY <1>16, <1>17, <1>21, <1>22, <1>23, <1>24, <1>25, <1>26, <1>27, <1>28 DEF Keeps, Stands, Inv

-----------------------------------------------------------------------------
(* Every behaviour *)

\* A pool that nobody used yet.
LEMMA Start ==
  ASSUME Init
  PROVE  Inv /\ Trees /\ Passes
  <1>1. NoSlot \in Slot
    BY DEF NoSlot, Slot, Base, Commits
  <1> DEFINE q == [life |-> "unborn", engine |-> FALSE, registry |-> "none", tip |-> Base,
                   tree |-> NULL, named |-> NULL]
             t == [status |-> "pending", attempt |-> 0, left |-> NULL, resumes |-> FALSE,
                   landed |-> Base]
  <1>2. q \in RunState /\ q.life = "unborn" /\ ~q.engine
    BY DEF RunState, Base, Commits
  <1>3. t \in Task /\ t.left = NULL /\ t.status = "pending"
    <2>1. 0 \in 0..MaxAttempts
      BY PoolAssumption
    <2> QED
      BY <2>1 DEF Task, Base, Commits
  <1>4. /\ slot = [n \in Slots |-> NoSlot] /\ lock = [n \in Slots |-> NULL]
        /\ agents = [n \in Slots |-> NULL] /\ run = [r \in Runs |-> q]
        /\ task = [u \in Units |-> t] /\ refs = {} /\ act = [x \in Users |-> Idle]
        /\ gc = NoPass
    BY DEF Init
  <1> HIDE DEF q, t
  <1>5. \A x \in Users : act[x] \in Act /\ act[x].pc = "idle"
    BY <1>4, IdleAct
  <1>6. Runs \subseteq Users /\ Units \subseteq Users /\ Probes \subseteq Users /\ NULL \notin Users
    BY Names DEF Users
  <1>7. Typed
    <2>1. /\ \A r \in Runs : act[r].pc \in RunPcs
          /\ \A u \in Units : act[u].pc \in UnitPcs
          /\ \A m \in Probes : act[m].pc \in ProbePcs
      BY <1>5, <1>6 DEF RunPcs, UnitPcs, ProbePcs, Looks
    <2>2. gc \in Pass
      BY <1>4, NoPassTyped
    <2>3. act \in [Users -> Act]
      BY <1>4, IdleAct
    <2> QED
      BY <1>1, <1>2, <1>3, <1>4, <2>1, <2>2, <2>3 DEF Typed
  <1>8. \A x \in Users : ~Holding(x)
    BY <1>5 DEF Holding, Takes, UnitHolds
  <1>9. Leases /\ Apart
    BY <1>8 DEF Leases, Apart
  <1>10. Tidy
    BY <1>4, <1>6 DEF Tidy, Kempt, NoSlot, Users
  <1>11. Standing
    BY <1>2, <1>4, <1>5, <1>6 DEF Standing, Living, Mine
  <1>12. Trees
    BY <1>5, <1>6 DEF Trees, OnBranch
  <1>13. Efforts
    <2>1. \A u \in Units : act[u].pc = "idle" /\ task[u].left = NULL /\ task[u].status = "pending"
      BY <1>3, <1>4, <1>5, <1>6
    <2> QED
      BY <2>1 DEF Efforts, Worked, Saved, UnitHolds
  <1>14. Forgotten
    BY <1>4, NoPassTyped DEF Forgotten
  <1>15. Passes
    <2>1. gc.phase = "idle" /\ gc.at = NULL /\ NULL \notin Slots
      BY <1>4, Names DEF NoPass
    <2>2. \A r \in Runs : act[r].pc = "idle"
      BY <1>5, <1>6
    <2> QED
      BY <2>1, <2>2 DEF Passes, Aside, Swept, Pairs, Paired, Tidying
  <1> QED
    BY <1>7, <1>9, <1>10, <1>11, <1>12, <1>13, <1>14, <1>15 DEF Inv

\* Steps of a take.
LEMMA TakeStepKeeps ==
  ASSUME Inv, NEW x \in Users, TakeStep(x)
  PROVE  Keeps
  <1>1. CASE SurveyPool(x)
    BY <1>1, SurveyPoolKeeps
  <1>2. CASE NoRoom(x)
    BY <1>2, NoRoomKeeps
  <1>3. ASSUME NEW n \in Slots, MakeRoom(x, n) PROVE Keeps
    BY <1>3, MakeRoomKeeps
  <1>4. ASSUME NEW n \in Slots, TryTake(x, n) PROVE Keeps
    BY <1>4, TryTakeKeeps
  <1>5. ASSUME NEW n \in Slots, AddHold(x, n) PROVE Keeps
    BY <1>5, AddHoldKeeps
  <1>6. ASSUME NEW n \in Slots, NEW fresh \in BOOLEAN, Settle(x, n, fresh) PROVE Keeps
    <2>1. CASE x \in Runs
      BY <1>6, <2>1, SettleRunKeeps
    <2>2. CASE x \in Units \cup Probes
      BY <1>6, <2>2, SettleUserKeeps
    <2> QED
      BY <2>1, <2>2 DEF Users
  <1> QED
    BY <1>1, <1>2, <1>3, <1>4, <1>5, <1>6 DEF TakeStep

\* Steps of a run's engine.
LEMMA RunStepKeeps ==
  ASSUME Inv, Trees, Pairs, NEW r \in Runs, RunStep(r)
  PROVE  Keeps
  <1>1. CASE Launch(r) \/ Open(r) \/ Wake(r) \/ WriteTree(r) \/ CommitTree(r)
    BY <1>1, LaunchKeeps, OpenKeeps, WakeKeeps, WriteTreeKeeps, CommitTreeKeeps
  <1>2. CASE \/ LeaveInTree(r) \/ RecordMove(r) \/ Park(r) \/ Finish(r) \/ ForgetMerged(r)
             \/ ReleaseTree(r) \/ ClearRegistry(r)
    BY <1>2, LeaveInTreeKeeps, RecordMoveKeeps, ParkKeeps, FinishKeeps, ForgetMergedKeeps,
       ReleaseTreeKeeps, ClearRegistryKeeps
  <1>3. ASSUME NEW n \in Slots, FollowHolds(r, n) \/ FreeUnit(r, n) \/ SettleRefused(r, n)
        PROVE  Keeps
    BY <1>3, FollowHoldsKeeps, FreeUnitKeeps, SettleRefusedKeeps
  <1>4. CASE FollowTakes(r) \/ FollowEnds(r) \/ FollowUndone(r) \/ FollowFails(r)
    BY <1>4, FollowTakesKeeps, FollowEndsKeeps, FollowUndoneKeeps, FollowFailsKeeps DEF Pairs
  <1> QED
    BY <1>1, <1>2, <1>3, <1>4 DEF RunStep

\* Steps of a unit.
LEMMA UnitStepKeeps ==
  ASSUME Inv, NEW u \in Units, UnitStep(u)
  PROVE  Keeps
  <1>1. CASE StartUnit(u) \/ ReopenNothing(u) \/ FailOnRefused(u)
    BY <1>1, StartUnitKeeps, ReopenNothingKeeps, FailOnRefusedKeeps
  <1>2. ASSUME NEW resumes \in BOOLEAN, Answer(u, resumes) PROVE Keeps
    BY <1>2, AnswerKeeps
  <1>3. ASSUME NEW n \in Slots,
               \/ ReopenUnit(u, n) \/ RecordRunning(u, n) \/ Write(u, n) \/ Block(u, n)
               \/ Replay(u, n) \/ Reject(u, n)
        PROVE  Keeps
    BY <1>3, ReopenUnitKeeps, RecordRunningKeeps, WriteKeeps, BlockKeeps, ReplayKeeps, RejectKeeps
  <1>4. ASSUME NEW n \in Slots,
               \/ Land(u, n) \/ Retire(u, n) \/ Done(u, n) \/ Interrupt(u, n) \/ LeaveRunning(u, n)
        PROVE  Keeps
    BY <1>4, LandKeeps, RetireKeeps, DoneKeeps, InterruptKeeps, LeaveRunningKeeps
  <1>5. ASSUME NEW n \in Slots, NEW next \in {"blocking", "committed"}, CommitWork(u, n, next)
        PROVE  Keeps
    BY <1>5, CommitWorkKeeps
  <1> QED
    BY <1>1, <1>2, <1>3, <1>4, <1>5 DEF UnitStep

\* Steps of a pass of gc.
LEMMA GcStepKeeps ==
  ASSUME Inv, Passes, Perils = {}, GcStep
  PROVE  Keeps
  <1>1. Stands
    BY GcReclaimStands, GcForgetRefsStands, GcLookStands, GcGiveStands, GcForgetStands,
       GcHoldStands, GcTidyStands DEF GcStep, Passes
  <1> QED
    BY <1>1, GcPasses DEF Keeps

\* Every step of the pool's users, of gc and of those who kill them keeps the invariant.
LEMMA NextKeeps ==
  ASSUME Inv, Trees, Passes, Perils = {}, [Next]_vars
  PROVE  Keeps
  <1>1. CASE UNCHANGED vars
    <2>1. UNCHANGED <<slot, lock, agents, run, task, refs, act, gc>>
      BY <1>1 DEF vars
    <2>2. Typed'
      BY <2>1 DEF Inv, Typed
    <2>3. Leases'
      BY <2>1 DEF Inv, Leases, Holding, Leased
    <2>4. Apart'
      BY <2>1 DEF Inv, Apart, Holding
    <2>5. Tidy'
      BY <2>1 DEF Inv, Tidy, Kempt, Drives
    <2>6. Standing'
      BY <2>1 DEF Inv, Standing, Living, Mine
    <2>7. Efforts'
      BY <2>1 DEF Inv, Efforts, Worked, Saved
    <2>8. Forgotten'
      BY <2>1 DEF Inv, Forgotten
    <2>9. Inv'
      BY <2>2, <2>3, <2>4, <2>5, <2>6, <2>7, <2>8 DEF Inv
    <2> QED
      BY <2>1, <2>9 DEF Keeps, Stands, Trees, OnBranch, DirtyStays, Passes, Aside, Swept, Pairs, Paired
  <1>2. ASSUME NEW x \in Users, TakeStep(x) PROVE Keeps
    BY <1>2, TakeStepKeeps
  <1>3. ASSUME NEW r \in Runs, RunStep(r) PROVE Keeps
    BY <1>3, RunStepKeeps DEF Passes
  <1>4. ASSUME NEW u \in Units, UnitStep(u) PROVE Keeps
    BY <1>4, UnitStepKeeps
  <1>5. ASSUME NEW m \in Probes, Probe(m) PROVE Keeps
    BY <1>5, ProbeKeeps
  <1>6. ASSUME NEW m \in Probes, NEW n \in Slots, Write(m, n) \/ PutBack(m, n) PROVE Keeps
    BY <1>6, WriteKeeps, PutBackKeeps
  <1>7. ASSUME NEW r \in Runs, NEW half \in SUBSET Slots, NEW left \in SUBSET Users,
               Crash(r, half, left)
        PROVE  Keeps
    BY <1>7, CrashKeeps
  <1>8. ASSUME NEW n \in Slots, AgentsEnd(n) PROVE Keeps
    BY <1>8, AgentsEndKeeps
  <1>9. CASE GcStep
    BY <1>9, GcStepKeeps
  <1> QED
    BY <1>1, <1>2, <1>3, <1>4, <1>5, <1>6, <1>7, <1>8, <1>9 DEF Next

\* While no run enters a checkout under a pass of gc, all of it is inductive.
LEMMA Invariant ==
  ASSUME Perils = {}
  PROVE  Spec => [](Inv /\ Trees /\ Passes)
  <1>1. Init => Inv /\ Trees /\ Passes
    BY Start
  <1>2. (Inv /\ Trees /\ Passes) /\ [Next]_vars => (Inv /\ Trees /\ Passes)'
    BY NextKeeps DEF Keeps, Stands
  <1> QED
    BY <1>1, <1>2, PTL DEF Spec

\* While no run enters a checkout under a pass of gc, the record, the lock and the registry of the
\* pool stay what the code reads them as, and a lock that lives is that of an engine that runs.
THEOREM PoolTypeOK ==
  ASSUME Perils = {}
  PROVE  Spec => []TypeOK
  <1>1. Inv => TypeOK
    <2> SUFFICES ASSUME Inv PROVE TypeOK
      OBVIOUS
    <2>1. Typed
      BY DEF Inv
    <2>2. slot \in [Slots -> [at : {"none", "half", "listed"}, head : SUBSET Works,
                              branch : Runs \cup {NULL}, dirty : Users \cup {NULL},
                              by : Runs \cup {NULL},
                              unit : (Units \X (1..MaxAttempts)) \cup {NULL},
                              built : BOOLEAN]]
      BY <2>1 DEF Typed, Slot, Commits
    <2>3. lock \in [Slots -> [by : Runs, lives : BOOLEAN] \cup {NULL}]
      BY <2>1 DEF Typed, Lock
    <2>4. \A n \in Slots : lock[n] # NULL /\ lock[n].lives => run[lock[n].by].engine
      BY DEF Inv, Tidy, Kempt, Drives
    <2>5. \A r \in Runs : run[r].tip \subseteq Works /\ run[r].tree \in Slots \cup {NULL}
      BY <2>1 DEF Typed, RunState, Commits
    <2>6. \A u \in Units : task[u].attempt \in 0..MaxAttempts
      BY <2>1 DEF Typed, Task
    <2>7. \A f \in refs : f.unit \in Units /\ f.commit \subseteq Works
      BY <2>1 DEF Typed, Ref, Commits
    <2>8. \A x \in Users : act[x].at \in Slots \cup {NULL} /\ act[x].listed \subseteq Slots
      BY <2>1 DEF Typed, Act
    <2>9. agents \in [Slots -> Users \cup {NULL}]
      BY <2>1 DEF Typed
    <2> QED
      BY <2>2, <2>3, <2>4, <2>5, <2>6, <2>7, <2>8, <2>9 DEF TypeOK
  <1> QED
    BY <1>1, Invariant, PTL

\* Who works in a checkout has its branch there, or holds it by a lock in its run's name.
LEMMA WhereUsersWork ==
  ASSUME Inv, Trees, Pairs, NEW x \in Users, NEW n, n \in In(x)
  PROVE  /\ n \in Slots
         /\ x \in Runs => \/ slot[n].branch = x
                         \/ /\ slot[n].branch = NULL /\ lock[n] = [by |-> x, lives |-> TRUE]
                            /\ agents[n] \notin Units \cup Probes
                            /\ \A y \in Users \ {x} : Holding(y) => act[y].at # n
         /\ x \notin Runs => Holding(x) /\ act[x].at = n /\ Leased(x)
  <1>1. CASE x \in Runs /\ act[x].pc # "following"
    BY <1>1 DEF In, Trees, OnBranch, Inv, Standing, Living
  <1>2. CASE x \in Runs /\ act[x].pc = "following"
    <2>1. Following(x) /\ Paired(x)
      BY <1>2 DEF Following, Pairs
    <2> PICK k \in Slots, m \in Slots :
             /\ In(x) = {k, m} /\ slot[k].branch = NULL /\ slot[m].branch \in {NULL, x}
             /\ \A c \in {k, m} :
                   /\ \A y \in Users \ {x} : Holding(y) => act[y].at # c
                   /\ agents[c] \notin Units \cup Probes
                   /\ slot[c].at = "listed"
                   /\ lock[c] = [by |-> x, lives |-> TRUE]
      BY <1>2, <2>1, Pair
    <2>2. n = k \/ n = m
      OBVIOUS
    <2> QED
      BY <1>2, <2>2
  <1>3. CASE x \notin Runs
    <2>1. act[x].at = n /\ act[x].pc \notin Looks
      BY <1>3 DEF In, Looks
    <2>2. Holding(x)
      BY <1>3, <2>1 DEF Holding, Users, Inv, Typed, UnitPcs, ProbePcs, UnitHolds
    <2> QED
      BY <1>3, <2>1, <2>2 DEF Inv, Leases, Leased
  <1> QED
    BY <1>1, <1>2, <1>3

\* While no run enters a checkout under a pass of gc, two users never work in one checkout,
\* whatever looks were stale and whoever crashed: who holds it holds it alone, and what is on a
\* run's branch is held by nobody else.
THEOREM PoolOneUser ==
  ASSUME Perils = {}
  PROVE  Spec => []OneUser
  <1>1. Inv /\ Trees /\ Passes => OneUser
    <2> SUFFICES ASSUME Inv, Trees, Pairs, NEW x \in Users, NEW y \in Users, x # y,
                        NEW n, n \in In(x), n \in In(y)
                 PROVE  FALSE
      BY DEF OneUser, Passes
    <2>1. ASSUME NEW r \in Runs, NEW u \in Users \ Runs, n \in In(r), n \in In(u) PROVE FALSE
      <3>1. n \in Slots /\ r \in Users
        BY <2>1, WhereUsersWork DEF Users
      <3>2. Holding(u) /\ act[u].at = n
        BY <2>1, WhereUsersWork
      <3>3. CASE slot[n].branch = r
        BY <2>1, <3>1, <3>2, <3>3, Branched DEF Clear
      <3>4. CASE slot[n].branch # r
        <4>1. \A z \in Users \ {r} : Holding(z) => act[z].at # n
          BY <2>1, <3>1, <3>4, WhereUsersWork
        <4>2. u \in Users \ {r}
          BY <2>1
        <4> QED
          BY <3>2, <4>1, <4>2
      <3> QED
        BY <3>3, <3>4
    <2>2. CASE x \in Runs /\ y \in Runs
      <3>1. n \in Slots /\ x # NULL /\ y # NULL
        BY WhereUsersWork, Names
      <3>2. /\ slot[n].branch = x \/ (slot[n].branch = NULL /\ lock[n] = [by |-> x, lives |-> TRUE])
            /\ slot[n].branch = y \/ (slot[n].branch = NULL /\ lock[n] = [by |-> y, lives |-> TRUE])
        BY <2>2, WhereUsersWork
      <3>3. [by |-> x, lives |-> TRUE] # [by |-> y, lives |-> TRUE]
        BY <2>2, Leases1
      <3> QED
        BY <3>1, <3>2, <3>3
    <2>3. CASE x \notin Runs /\ y \notin Runs
      <3>1. Holding(x) /\ act[x].at = n /\ Holding(y) /\ act[y].at = n
        BY <2>3, WhereUsersWork
      <3> QED
        BY <3>1 DEF Inv, Apart
    <2> QED
      BY <2>1, <2>2, <2>3
  <1> QED
    BY <1>1, Invariant, PTL

\* While no run enters a checkout under a pass of gc, the checkout in which the sessions of a unit
\* or a probe go on with no engine over them keeps their run's record and lock, and nobody of
\* another run comes to work there.
THEOREM PoolAgentsKeepCheckout ==
  ASSUME Perils = {}
  PROVE  Spec => []AgentsKeepCheckout
  <1>1. Inv /\ Trees /\ Passes => AgentsKeepCheckout
    <2> SUFFICES ASSUME Inv, Trees, Pairs, NEW n \in Slots, agents[n] \in Units \cup Probes
                 PROVE  Alone(n) /\ slot[n].by = Run(agents[n])
      BY DEF AgentsKeepCheckout, Passes
    <2>1. slot[n].at = "listed" /\ slot[n].branch = NULL /\ slot[n].by = Run(agents[n])
      BY Names DEF Inv, Tidy, Kempt, Users
    <2>2. ASSUME NEW x \in Users, n \in In(x) PROVE FALSE
      <3>1. x \notin Runs
        BY <2>1, <2>2, WhereUsersWork, Names
      <3>2. Leased(x) /\ act[x].at = n
        BY <2>2, <3>1, WhereUsersWork
      <3>3. agents[n] \notin Units \cup Probes
        BY <3>2 DEF Leased
      <3> QED
        BY <3>3
    <2> QED
      BY <2>1, <2>2 DEF Alone
  <1> QED
    BY <1>1, Invariant, PTL

\* While no run enters a checkout under a pass of gc, what the log says a task left is kept by its
\* ref or in its run's branch, and what a done task did is in the branch, until gc collects the run.
THEOREM PoolWorkKept ==
  ASSUME Perils = {}
  PROVE  Spec => []WorkKept
  <1>1. Inv => WorkKept
    BY DEF Inv, Efforts, Saved, WorkKept
  <1> QED
    BY <1>1, Invariant, PTL

\* While no run enters a checkout under a pass of gc, no step but one of the user who wrote it, at
\* work there, takes uncommitted work from a checkout: no step of the pass does.
THEOREM PoolDirtyKept ==
  ASSUME Perils = {}
  PROVE  Spec => DirtyKept
  <1>1. (Inv /\ Trees /\ Passes) /\ [Next]_vars =>
          [\A n \in Slots : slot[n].dirty # NULL /\ slot'[n].dirty # slot[n].dirty
                              => n \in In(slot[n].dirty) /\ slot'[n].at = "listed"
                                 /\ gc' = gc]_vars
    BY NextKeeps DEF Keeps, Stands, DirtyStays
  <1> QED
    BY <1>1, Invariant, PTL DEF Spec, DirtyKept
=============================================================================
