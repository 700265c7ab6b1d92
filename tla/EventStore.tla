----------------------------- MODULE EventStore -----------------------------
(***************************************************************************)
(* The event log in SQLite (crates/storage): the `events` table with one   *)
(* row per event, the `run_heads` table with the last row of each run, and *)
(* the hash chain over a run's rows.                                       *)
(*                                                                         *)
(* Every call of the async handle opens a connection of its own, so any    *)
(* number of connections append, verify and purge at once.  SQLite itself  *)
(* is external: it is modelled by what the code relies on, one write lock  *)
(* taken by BEGIN IMMEDIATE, a transaction whose writes appear at COMMIT   *)
(* and disappear with its process, and statements that each read one       *)
(* committed snapshot.  SHA-256 is modelled as injective: a hash is the    *)
(* record of what was hashed.                                              *)
(***************************************************************************)
EXTENDS Integers, FiniteSets, FiniteSetsExt

CONSTANTS
    Runs,        \* run ids
    Conns,       \* connections that append
    Verifiers,   \* connections that walk a chain
    Drafts,      \* what an event says, its node and time included
    Created,     \* the draft of a run_created event, with its manifest hash
    Legacy,      \* runs whose first row was written before the chain existed
    NULL,        \* an absent value: SQL NULL, a lock nobody holds
    MaxSeq,      \* bound: the seqs a run may use
    MaxDamage    \* bound: how often a row is damaged outside the engine

ASSUME EventStoreAssumption ==
    /\ Created \in Drafts
    /\ Legacy \subseteq Runs
    /\ NULL \notin Conns
    /\ NULL \notin Runs
    /\ MaxSeq \in Nat \ {0}
    /\ MaxDamage \in Nat

VARIABLES
    events,    \* events[r]: the rows of run r, a function of their seq
    heads,     \* heads[r]: the row of run_heads, or NULL
    writer,    \* the connection holding SQLite's write lock, or NULL
    tx,        \* tx[c]: what connection c's open transaction has done
    verify,    \* verify[v]: where verifier v's walk stands
    recorded,  \* history: the rows the engine committed, per run
    damaged,   \* history: runs damaged outside the engine since their creation
    damages    \* how many times a row was damaged

vars == <<events, heads, writer, tx, verify, recorded, damaged, damages>>

(***************************************************************************)
(* The chain.  An absent hash (a row older than the chain) anchors its     *)
(* successor on the empty string, which NULL stands for.                   *)
(***************************************************************************)
genesis_hash(draft) == [manifest |-> draft]

chain_hash(prev, r, seq, draft) ==
    [prev |-> prev, run |-> r, seq |-> seq, draft |-> draft]

\* SELECT COALESCE(MAX(seq), 0) + 1
NextSeq(rows) == IF DOMAIN rows = {} THEN 1 ELSE Max(DOMAIN rows) + 1

\* The hash the row at `seq` chains onto; the caller has refused a first
\* row that is not run_created.
previous_hash(rows, seq, draft) ==
    IF seq = 1 THEN genesis_hash(draft) ELSE rows[seq - 1].hash

\* Mutant: every row chains onto the genesis.
StoredRowUnlinked(rows, r, draft) ==
    [draft |-> draft,
     hash  |-> chain_hash(genesis_hash(draft), r, NextSeq(rows), draft)]

StoredRow(rows, r, draft) ==
    LET seq == NextSeq(rows)
    IN  [draft |-> draft,
         hash  |-> chain_hash(previous_hash(rows, seq, draft), r, seq, draft)]

NoTx == [run |-> NULL, draft |-> NULL, seq |-> 0, row |-> NULL, step |-> "idle"]

-----------------------------------------------------------------------------
(* append_at: one IMMEDIATE transaction. *)

\* Mutant: a deferred transaction, which reads before it takes the lock.
BeginDeferred(c, r, d) ==
    /\ tx[c].step = "idle"
    /\ NextSeq(events[r]) \in 1..MaxSeq
    /\ writer' = c
    /\ tx' = [tx EXCEPT ![c] = [NoTx EXCEPT !.run = r, !.draft = d,
                                           !.step = "begun"]]
    /\ UNCHANGED <<events, heads, verify, recorded, damaged, damages>>

\* BEGIN IMMEDIATE waits for the write lock; the lock is held to the end.
BeginImmediate(c, r, d) ==
    /\ tx[c].step = "idle"
    /\ writer = NULL
    /\ NextSeq(events[r]) \in 1..MaxSeq
    /\ writer' = c
    /\ tx' = [tx EXCEPT ![c] = [NoTx EXCEPT !.run = r, !.draft = d,
                                           !.step = "begun"]]
    /\ UNCHANGED <<events, heads, verify, recorded, damaged, damages>>

\* previous_hash refuses a run whose first event is not run_created, and
\* dropping the transaction rolls it back.
GenesisMissing(c) ==
    /\ tx[c].step = "begun"
    /\ NextSeq(events[tx[c].run]) = 1
    /\ tx[c].draft # Created
    /\ writer' = NULL
    /\ tx' = [tx EXCEPT ![c] = NoTx]
    /\ UNCHANGED <<events, heads, verify, recorded, damaged, damages>>

\* The read of MAX(seq) and of the previous hash, and the INSERT, which no
\* other connection sees before the COMMIT.
InsertRow(c) ==
    /\ tx[c].step = "begun"
    /\ NextSeq(events[tx[c].run]) # 1 \/ tx[c].draft = Created
    /\ tx' = [tx EXCEPT ![c].step = "inserted",
                        ![c].seq  = NextSeq(events[tx[c].run]),
                        ![c].row  = StoredRow(events[tx[c].run], tx[c].run,
                                              tx[c].draft)]
    /\ UNCHANGED <<events, heads, writer, verify, recorded, damaged, damages>>

\* Mutant: the head names the seq after the row's.
CommitHeadOffByOne(c) ==
    /\ tx[c].step = "inserted"
    /\ LET r == tx[c].run
       IN  /\ events' = [events EXCEPT ![r] =
                            [s \in DOMAIN events[r] \cup {tx[c].seq} |->
                                IF s = tx[c].seq THEN tx[c].row ELSE events[r][s]]]
           /\ heads' = [heads EXCEPT ![r] = [seq  |-> tx[c].seq + 1,
                                             hash |-> tx[c].row.hash]]
           /\ recorded' = [recorded EXCEPT ![r] = @ \cup {<<tx[c].seq, tx[c].draft>>}]
    /\ writer' = NULL
    /\ tx' = [tx EXCEPT ![c] = NoTx]
    /\ UNCHANGED <<verify, damaged, damages>>

\* The UPSERT of run_heads and the COMMIT that publishes row and head.
Commit(c) ==
    /\ tx[c].step = "inserted"
    /\ LET r   == tx[c].run
           seq == tx[c].seq
           row == tx[c].row
       IN  /\ events' = [events EXCEPT ![r] =
                            [s \in DOMAIN events[r] \cup {seq} |->
                                IF s = seq THEN row ELSE events[r][s]]]
           /\ heads' = [heads EXCEPT ![r] = [seq |-> seq, hash |-> row.hash]]
           /\ recorded' = [recorded EXCEPT ![r] = @ \cup {<<seq, tx[c].draft>>}]
    /\ writer' = NULL
    /\ tx' = [tx EXCEPT ![c] = NoTx]
    /\ UNCHANGED <<verify, damaged, damages>>

\* The process dies, or a statement fails: the transaction is rolled back.
Rollback(c) ==
    /\ tx[c].step # "idle"
    /\ writer' = NULL
    /\ tx' = [tx EXCEPT ![c] = NoTx]
    /\ UNCHANGED <<events, heads, verify, recorded, damaged, damages>>

\* Mutant: the head outlives the rows it names.
PurgeKeepsHead(r) ==
    /\ writer = NULL
    /\ DOMAIN events[r] # {}
    /\ events' = [events EXCEPT ![r] = [s \in {} |-> NULL]]
    /\ recorded' = [recorded EXCEPT ![r] = {}]
    /\ damaged' = damaged \ {r}
    /\ UNCHANGED <<heads, writer, tx, verify, damages>>

\* purge_run: one IMMEDIATE transaction that deletes the rows and the head.
PurgeRun(r) ==
    /\ writer = NULL
    /\ DOMAIN events[r] # {}
    /\ events' = [events EXCEPT ![r] = [s \in {} |-> NULL]]
    /\ heads' = [heads EXCEPT ![r] = NULL]
    /\ recorded' = [recorded EXCEPT ![r] = {}]
    /\ damaged' = damaged \ {r}
    /\ UNCHANGED <<writer, tx, verify, damages>>

-----------------------------------------------------------------------------
(* verify_chain: the walk of the rows, then the stored head. *)

Idle == [run |-> NULL, rows |-> {}, last |-> NULL, stage |-> "idle"]

Pairs(rows) == {<<s, rows[s].draft>> : s \in DOMAIN rows}

\* Mutant: the walk checks the seqs and the presence of a hash only.
judge_seq(rows, r, seq) ==
    /\ seq = 1 \/ seq - 1 \in DOMAIN rows
    /\ rows[seq].hash # NULL

\* judge_row for the row at `seq`, after every smaller one held: its seq is
\* the next one, and its hash is that of its own fields and of the hash its
\* predecessor stores.  A NULL hash is the hash of nothing.
judge_row(rows, r, seq) ==
    /\ seq = 1 => rows[1].draft = Created
    /\ seq = 1 \/ seq - 1 \in DOMAIN rows
    /\ rows[seq].hash =
         chain_hash(previous_hash(rows, seq, rows[seq].draft), r, seq,
                    rows[seq].draft)

\* The walk over one snapshot of the rows; a run with no row is an error
\* (VerifyUnknownRun) and gives no verdict.
VerifyWalk(v, r) ==
    /\ verify[v].stage = "idle"
    /\ DOMAIN events[r] # {}
    /\ verify' = [verify EXCEPT ![v] =
         [run   |-> r,
          rows  |-> Pairs(events[r]),
          last  |-> [seq  |-> Max(DOMAIN events[r]),
                     hash |-> events[r][Max(DOMAIN events[r])].hash],
          stage |-> IF \A s \in DOMAIN events[r] : judge_row(events[r], r, s)
                      THEN "walked" ELSE "broken"]]
    /\ UNCHANGED <<events, heads, writer, tx, recorded, damaged, damages>>

\* judge_head, a statement of its own: it reads the head as committed now.
VerifyHead(v) ==
    /\ verify[v].stage = "walked"
    /\ verify' = [verify EXCEPT ![v].stage =
                     IF heads[verify[v].run] = verify[v].last
                       THEN "intact" ELSE "broken"]
    /\ UNCHANGED <<events, heads, writer, tx, recorded, damaged, damages>>

VerifyDone(v) ==
    /\ verify[v].stage \in {"intact", "broken"}
    /\ verify' = [verify EXCEPT ![v] = Idle]
    /\ UNCHANGED <<events, heads, writer, tx, recorded, damaged, damages>>

-----------------------------------------------------------------------------
(* What happens to the file outside the engine: a row altered, lost, or    *)
(* two rows exchanged.                                                     *)

Damage(r, rows) ==
    /\ writer = NULL
    /\ damages < MaxDamage
    /\ damages' = damages + 1
    /\ events' = [events EXCEPT ![r] = rows]
    /\ damaged' = damaged \cup {r}
    /\ UNCHANGED <<heads, writer, tx, verify, recorded>>

AlterRow(r) ==
    \E s \in DOMAIN events[r], d \in Drafts :
        /\ events[r][s].draft # d
        /\ Damage(r, [events[r] EXCEPT ![s].draft = d])

LoseRow(r) ==
    \E s \in DOMAIN events[r] :
        Damage(r, [t \in DOMAIN events[r] \ {s} |-> events[r][t]])

SwapRows(r) ==
    \E s, t \in DOMAIN events[r] :
        /\ s < t
        /\ events[r][s].draft # events[r][t].draft
        /\ Damage(r, [events[r] EXCEPT ![s] = events[r][t],
                                       ![t] = events[r][s]])

-----------------------------------------------------------------------------

Init ==
    /\ events = [r \in Runs |->
         IF r \in Legacy THEN [s \in {1} |-> [draft |-> Created, hash |-> NULL]]
                         ELSE [s \in {} |-> NULL]]
    /\ heads = [r \in Runs |-> NULL]
    /\ writer = NULL
    /\ tx = [c \in Conns |-> NoTx]
    /\ verify = [v \in Verifiers |-> Idle]
    /\ recorded = [r \in Runs |-> IF r \in Legacy THEN {<<1, Created>>} ELSE {}]
    /\ damaged = {}
    /\ damages = 0

Next ==
    \/ \E c \in Conns, r \in Runs, d \in Drafts : BeginImmediate(c, r, d)
    \/ \E c \in Conns : GenesisMissing(c)
    \/ \E c \in Conns : InsertRow(c)
    \/ \E c \in Conns : Commit(c)
    \/ \E c \in Conns : Rollback(c)
    \/ \E r \in Runs : PurgeRun(r)
    \/ \E v \in Verifiers, r \in Runs : VerifyWalk(v, r)
    \/ \E v \in Verifiers : VerifyHead(v)
    \/ \E v \in Verifiers : VerifyDone(v)
    \/ \E r \in Runs : AlterRow(r)
    \/ \E r \in Runs : LoseRow(r)
    \/ \E r \in Runs : SwapRows(r)

Spec == Init /\ [][Next]_vars

-----------------------------------------------------------------------------
(* Properties. *)

TypeOK ==
    /\ DOMAIN events = Runs /\ DOMAIN heads = Runs /\ DOMAIN recorded = Runs
    /\ DOMAIN tx = Conns /\ DOMAIN verify = Verifiers
    /\ \A r \in Runs :
         /\ DOMAIN events[r] \subseteq 1..MaxSeq
         /\ \A s \in DOMAIN events[r] : events[r][s].draft \in Drafts
         /\ heads[r] # NULL => heads[r].seq \in 1..MaxSeq
    /\ writer \in Conns \cup {NULL}
    /\ \A c \in Conns :
         /\ DOMAIN tx[c] = DOMAIN NoTx
         /\ tx[c].step \in {"idle", "begun", "inserted"}
         /\ tx[c].step # "idle" => tx[c].run \in Runs /\ tx[c].draft \in Drafts
    /\ \A v \in Verifiers :
         /\ DOMAIN verify[v] = DOMAIN Idle
         /\ verify[v].stage \in {"idle", "walked", "intact", "broken"}
         /\ verify[v].stage # "idle" => verify[v].run \in Runs
    /\ damaged \subseteq Runs
    /\ damages \in 0..MaxDamage

\* Whatever connections append at once, the seqs of a run's log are 1..n
\* with no gap, every committed event is there once and where its append
\* said, and the head names the last row: the IMMEDIATE transaction is what
\* keeps seq assignment right across connections (append_at).
LogIsWhole ==
    \A r \in Runs \ damaged :
        \E n \in 0..MaxSeq :
            /\ DOMAIN events[r] = 1..n
            /\ Pairs(events[r]) = recorded[r]
            /\ \/ n > 0 /\ heads[r] = [seq |-> n, hash |-> events[r][n].hash]
               \/ heads[r] = NULL /\ (n = 0 \/ r \in Legacy)

\* A transaction that is open holds the write lock, and what it read of its
\* run when it inserted its row is still what the log says: the reason why
\* append_at takes the lock before it reads.
TxIsCurrent ==
    \A c \in Conns : tx[c].step # "idle" =>
        /\ writer = c
        /\ NextSeq(events[tx[c].run]) \in 1..MaxSeq
        /\ tx[c].step = "inserted" =>
             /\ tx[c].seq = NextSeq(events[tx[c].run])
             /\ tx[c].seq # 1 \/ tx[c].draft = Created
             /\ tx[c].row = StoredRow(events[tx[c].run], tx[c].run, tx[c].draft)

\* Every link of an undamaged log is the one judge_row recomputes, except
\* for a row written before the chain existed.
ChainHolds ==
    \A r \in Runs \ damaged :
        \A s \in DOMAIN events[r] :
            judge_row(events[r], r, s) \/ (r \in Legacy /\ events[r][s].hash = NULL)

\* An intact verdict covers no row that is not as some append committed it:
\* a row altered or exchanged, or lost from inside the log, is reported
\* whatever was appended after it (verify_chain).
IntactRowsWereRecorded ==
    [][\A v \in Verifiers :
         verify[v].stage = "walked" /\ verify'[v].stage = "intact"
           => verify[v].rows \subseteq recorded[verify[v].run]]_vars

\* verify_chain reports a break only in a log that was damaged, or that
\* holds rows older than the chain (a log purged under the walk aside).
BrokenOnlyIfDamaged ==
    [][\A v \in Verifiers :
         (/\ verify[v].stage # "broken" /\ verify'[v].stage = "broken"
          /\ heads[verify'[v].run] # NULL)
           => verify'[v].run \in damaged \cup Legacy]_vars
=============================================================================
