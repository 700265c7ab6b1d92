-------------------------- MODULE EventStoreProofs --------------------------
(***************************************************************************)
(* Proofs about the event store: its type invariant, that an undamaged log *)
(* is whole and that its chain holds, and that what verify_chain calls     *)
(* intact is what was committed, for any number of runs, connections and   *)
(* verifiers and any bound on the seqs.                                    *)
(***************************************************************************)
EXTENDS EventStore, WellFoundedInduction, TLAPS

\* The greatest seq of a log without gaps is the number of its rows.
LEMMA MaxOfInterval ==
  ASSUME NEW n \in Nat \ {0}
  PROVE  Max(1..n) = n
  <1>1. n \in 1..n /\ \A y \in 1..n : n >= y
    OBVIOUS
  <1>2. \E x \in 1..n : \A y \in 1..n : x >= y
    BY <1>1
  <1>3. Max(1..n) \in 1..n /\ \A y \in 1..n : Max(1..n) >= y
    BY <1>2, Zenon DEF Max
  <1>4. QED
    BY <1>1, <1>3

\* append_at gives the event after the last row the next number.
LEMMA NextSeqOfWhole ==
  ASSUME NEW rows, NEW n \in Nat, DOMAIN rows = 1..n
  PROVE  NextSeq(rows) = n + 1
  <1>1. CASE n = 0
    BY <1>1 DEF NextSeq
  <1>2. CASE n # 0
    <2>1. Max(DOMAIN rows) = n
      BY <1>2, MaxOfInterval
    <2>2. 1 \in DOMAIN rows
      BY <1>2
    <2>3. QED
      BY <2>1, <2>2 DEF NextSeq
  <1>3. QED
    BY <1>1, <1>2

IInv == TypeOK /\ TxIsCurrent /\ LogIsWhole /\ ChainHolds

\* The part of the inductive invariant about one undamaged log.
WholeLog(r) ==
    \E n \in 0..MaxSeq :
        /\ DOMAIN events[r] = 1..n
        /\ Pairs(events[r]) = recorded[r]
        /\ \/ n > 0 /\ heads[r] = [seq |-> n, hash |-> events[r][n].hash]
           \/ heads[r] = NULL /\ (n = 0 \/ r \in Legacy)

LinkedLog(r) ==
    \A s \in DOMAIN events[r] :
        judge_row(events[r], r, s) \/ (r \in Legacy /\ events[r][s].hash = NULL)

\* A step that leaves a run's rows, head and history alone keeps its log
\* whole and linked.
LEMMA UntouchedLog ==
  ASSUME NEW r \in Runs, WholeLog(r), LinkedLog(r),
         events'[r] = events[r], heads'[r] = heads[r], recorded'[r] = recorded[r]
  PROVE  WholeLog(r)' /\ LinkedLog(r)'
  BY DEF WholeLog, LinkedLog, Pairs, judge_row, chain_hash, previous_hash, genesis_hash

LEMMA InitIInv == Init => IInv
  <1> SUFFICES ASSUME Init PROVE IInv
    OBVIOUS
  <1> USE EventStoreAssumption
  <1>1. TypeOK
    BY DEF Init, TypeOK, NoTx, Idle
  <1>2. TxIsCurrent
    BY DEF Init, TxIsCurrent, NoTx
  <1>3. ASSUME NEW r \in Runs PROVE WholeLog(r)
    <2>1. CASE r \in Legacy
      <3>1. DOMAIN events[r] = 1..1 /\ 1 \in 0..MaxSeq
        BY <2>1 DEF Init
      <3>2. Pairs(events[r]) = recorded[r]
        BY <2>1 DEF Init, Pairs
      <3>3. QED
        BY <3>1, <3>2, <2>1 DEF WholeLog, Init
    <2>2. CASE r \notin Legacy
      <3>1. DOMAIN events[r] = 1..0 /\ 0 \in 0..MaxSeq
        BY <2>2 DEF Init
      <3>2. Pairs(events[r]) = recorded[r]
        BY <2>2 DEF Init, Pairs
      <3>3. QED
        BY <3>1, <3>2, <2>2 DEF WholeLog, Init
    <2>3. QED
      BY <2>1, <2>2
  <1>4. LogIsWhole
    BY <1>3 DEF LogIsWhole, WholeLog
  <1>5. ChainHolds
    BY DEF Init, ChainHolds
  <1>6. QED
    BY <1>1, <1>2, <1>4, <1>5 DEF IInv

\* The steps that change no row, head or history of any run.
LEMMA LogsUntouched ==
  ASSUME IInv, TypeOK', UNCHANGED <<events, heads, recorded, damaged>>
  PROVE  LogIsWhole' /\ ChainHolds'
  <1>1. \A r \in Runs \ damaged : WholeLog(r) /\ LinkedLog(r)
    BY DEF IInv, LogIsWhole, ChainHolds, WholeLog, LinkedLog
  <1>2. \A r \in Runs \ damaged : WholeLog(r)' /\ LinkedLog(r)'
    BY <1>1, UntouchedLog
  <1>3. QED
    BY <1>2 DEF LogIsWhole, ChainHolds, WholeLog, LinkedLog

\* Commit publishes one row after the last one, linked to it, and the head
\* that names it.
LEMMA CommitKeepsLogs ==
  ASSUME IInv, NEW c \in Conns, Commit(c)
  PROVE  LogIsWhole' /\ ChainHolds'
  <1> USE EventStoreAssumption
  <1>0. tx[c].run \in Runs
    BY DEF IInv, TypeOK, Commit
  <1>r. PICK R \in Runs : R = tx[c].run
    BY <1>0
  <1>s. PICK S : S = tx[c].seq
    OBVIOUS
  <1>1. R \in Runs /\ tx[c].draft \in Drafts
    BY <1>r DEF IInv, TypeOK, Commit
  <1>2. /\ S = NextSeq(events[R]) /\ S \in 1..MaxSeq
        /\ S # 1 \/ tx[c].draft = Created
        /\ tx[c].row = StoredRow(events[R], R, tx[c].draft)
    BY <1>r, <1>s DEF IInv, TxIsCurrent, Commit
  <1>3. /\ events' = [events EXCEPT ![R] =
                        [s \in DOMAIN events[R] \cup {S} |->
                            IF s = S THEN tx[c].row ELSE events[R][s]]]
        /\ heads' = [heads EXCEPT ![R] = [seq |-> S, hash |-> tx[c].row.hash]]
        /\ recorded' = [recorded EXCEPT ![R] = @ \cup {<<S, tx[c].draft>>}]
        /\ damaged' = damaged
    BY <1>r, <1>s DEF Commit
  <1>4. DOMAIN events = Runs /\ DOMAIN heads = Runs /\ DOMAIN recorded = Runs
    BY DEF IInv, TypeOK
  <1>5. ASSUME NEW r \in Runs \ damaged
        PROVE  WholeLog(r) /\ LinkedLog(r)
    BY DEF IInv, LogIsWhole, ChainHolds, WholeLog, LinkedLog
  <1>6. ASSUME NEW r \in Runs \ damaged, r # R
        PROVE  WholeLog(r)' /\ LinkedLog(r)'
    <2>1. events'[r] = events[r] /\ heads'[r] = heads[r] /\ recorded'[r] = recorded[r]
      BY <1>1, <1>3, <1>4, <1>6
    <2>2. QED
      BY <2>1, <1>5, UntouchedLog
  <1>7. ASSUME R \notin damaged
        PROVE  WholeLog(R)' /\ LinkedLog(R)'
    <2>1. PICK n \in 0..MaxSeq :
             /\ DOMAIN events[R] = 1..n
             /\ Pairs(events[R]) = recorded[R]
      BY <1>1, <1>5, <1>7 DEF WholeLog
    <2>2. S = n + 1
      BY <1>2, <2>1, NextSeqOfWhole
    <2>3. DOMAIN events'[R] = 1..S /\ S \in 0..MaxSeq /\ S > 0
      <3>1. DOMAIN events'[R] = 1..n \cup {n + 1}
        BY <1>1, <1>3, <1>4, <2>1, <2>2
      <3>2. 1..n \cup {n + 1} = 1..(n + 1)
        OBVIOUS
      <3>3. QED
        BY <1>2, <2>2, <3>1, <3>2
    <2>4. /\ events'[R][S] = tx[c].row
          /\ \A s \in 1..n : events'[R][s] = events[R][s]
      BY <1>1, <1>2, <1>3, <1>4, <2>1, <2>2
    <2>5. heads'[R] = [seq |-> S, hash |-> events'[R][S].hash]
      BY <1>1, <1>3, <1>4, <2>4
    <2>6. tx[c].row.draft = tx[c].draft
      BY <1>2 DEF StoredRow
    <2>8. Pairs(events'[R]) = recorded'[R]
      <3>1. recorded'[R] = recorded[R] \cup {<<S, tx[c].draft>>}
        BY <1>1, <1>3, <1>4
      <3>2. Pairs(events'[R]) = {<<s, events'[R][s].draft>> : s \in 1..S}
        BY <2>3 DEF Pairs
      <3>3. Pairs(events[R]) = {<<s, events[R][s].draft>> : s \in 1..n}
        BY <2>1 DEF Pairs
      <3>4. \A s \in 1..S : s \in 1..n \/ s = S
        BY <2>2
      <3>5. \A s \in 1..n : s \in 1..S
        BY <2>2
      <3>6. {<<s, events'[R][s].draft>> : s \in 1..S}
              = {<<s, events[R][s].draft>> : s \in 1..n} \cup {<<S, tx[c].draft>>}
        BY <2>3, <2>4, <2>6, <3>4, <3>5, S \in 1..S
      <3>7. QED
        BY <3>1, <3>2, <3>3, <3>6, <2>1
    <2>9. WholeLog(R)'
      BY <2>3, <2>5, <2>8 DEF WholeLog
    <2>10. ASSUME NEW s \in 1..n
           PROVE  \/ judge_row(events'[R], R, s)
                  \/ R \in Legacy /\ events'[R][s].hash = NULL
      <3>1. judge_row(events[R], R, s) \/ (R \in Legacy /\ events[R][s].hash = NULL)
        BY <1>1, <1>5, <1>7, <2>1 DEF LinkedLog
      <3>2. events'[R][s] = events[R][s]
        BY <2>4
      <3>3. s = 1 \/ (s - 1 \in 1..n /\ events'[R][s - 1] = events[R][s - 1])
        BY <2>4
      <3>4. s = 1 \/ (s - 1 \in DOMAIN events'[R] /\ s - 1 \in DOMAIN events[R])
        BY <2>1, <2>2, <2>3
      <3>5. QED
        BY <3>1, <3>2, <3>3, <3>4 DEF judge_row, previous_hash
    <2>11. judge_row(events'[R], R, S)
      <3>1. tx[c].row.hash
              = chain_hash(previous_hash(events[R], S, tx[c].draft), R, S, tx[c].draft)
        BY <1>2 DEF StoredRow
      <3>2. previous_hash(events'[R], S, tx[c].draft)
              = previous_hash(events[R], S, tx[c].draft)
        BY <2>2, <2>4 DEF previous_hash
      <3>3. S = 1 \/ S - 1 \in DOMAIN events'[R]
        BY <2>2, <2>3
      <3>4. QED
        BY <1>2, <2>4, <2>6, <3>1, <3>2, <3>3 DEF judge_row
    <2>12. LinkedLog(R)'
      BY <2>2, <2>3, <2>10, <2>11 DEF LinkedLog
    <2>13. QED
      BY <2>9, <2>12
  <1>8. \A r \in Runs \ damaged' : WholeLog(r)' /\ LinkedLog(r)'
    BY <1>3, <1>6, <1>7
  <1>9. QED
    BY <1>8 DEF LogIsWhole, ChainHolds, WholeLog, LinkedLog

\* Every step keeps the state well typed.
LEMMA NextTypeOK ==
  ASSUME IInv, [Next]_vars
  PROVE  TypeOK'
  <1> USE EventStoreAssumption DEF NoTx, Idle
  <1>0. TypeOK /\ TxIsCurrent
    BY DEF IInv
  <1>1. ASSUME NEW c \in Conns, NEW r \in Runs, NEW d \in Drafts, BeginImmediate(c, r, d)
        PROVE  TypeOK'
    BY <1>0, <1>1 DEF TypeOK, BeginImmediate
  <1>2. ASSUME NEW c \in Conns, GenesisMissing(c) PROVE TypeOK'
    BY <1>0, <1>2 DEF TypeOK, GenesisMissing
  <1>3. ASSUME NEW c \in Conns, InsertRow(c) PROVE TypeOK'
    BY <1>0, <1>3 DEF TypeOK, InsertRow
  <1>4. ASSUME NEW c \in Conns, Commit(c) PROVE TypeOK'
    <2>1. /\ tx[c].run \in Runs /\ tx[c].draft \in Drafts
          /\ tx[c].seq \in 1..MaxSeq
          /\ tx[c].row.draft = tx[c].draft
      <3>1. tx[c].step = "inserted"
        BY <1>4 DEF Commit
      <3>2. tx[c].run \in Runs /\ tx[c].draft \in Drafts
        BY <1>0, <3>1 DEF TypeOK
      <3>3. /\ tx[c].seq \in 1..MaxSeq
            /\ tx[c].row = StoredRow(events[tx[c].run], tx[c].run, tx[c].draft)
        BY <1>0, <3>1 DEF TxIsCurrent
      <3>4. tx[c].row.draft = tx[c].draft
        BY <3>3 DEF StoredRow
      <3>5. QED
        BY <3>2, <3>3, <3>4
    <2>2. ASSUME NEW r \in Runs
          PROVE  /\ DOMAIN events'[r] \subseteq 1..MaxSeq
                 /\ \A s \in DOMAIN events'[r] : events'[r][s].draft \in Drafts
                 /\ heads'[r] # NULL => heads'[r].seq \in 1..MaxSeq
      <3>1. CASE r = tx[c].run
        BY <1>0, <1>4, <2>1, <3>1 DEF TypeOK, Commit
      <3>2. CASE r # tx[c].run
        BY <1>0, <1>4, <2>1, <3>2 DEF TypeOK, Commit
      <3>3. QED
        BY <3>1, <3>2
    <2>3. QED
      BY <1>0, <1>4, <2>2 DEF TypeOK, Commit
  <1>5. ASSUME NEW c \in Conns, Rollback(c) PROVE TypeOK'
    BY <1>0, <1>5 DEF TypeOK, Rollback
  <1>6. ASSUME NEW r \in Runs, PurgeRun(r) PROVE TypeOK'
    BY <1>0, <1>6 DEF TypeOK, PurgeRun
  <1>7. ASSUME NEW v \in Verifiers, NEW r \in Runs, VerifyWalk(v, r) PROVE TypeOK'
    BY <1>0, <1>7 DEF TypeOK, VerifyWalk
  <1>8. ASSUME NEW v \in Verifiers, VerifyHead(v) PROVE TypeOK'
    BY <1>0, <1>8 DEF TypeOK, VerifyHead
  <1>9. ASSUME NEW v \in Verifiers, VerifyDone(v) PROVE TypeOK'
    BY <1>0, <1>9 DEF TypeOK, VerifyDone
  <1>10. ASSUME NEW r \in Runs, AlterRow(r) PROVE TypeOK'
    <2>1. PICK s \in DOMAIN events[r], d \in Drafts :
             Damage(r, [events[r] EXCEPT ![s].draft = d])
      BY <1>10 DEF AlterRow
    <2>2. \A t \in DOMAIN events[r] : events[r][t].draft \in Drafts
      BY <1>0 DEF TypeOK
    <2>3. QED
      BY <1>0, <2>1, <2>2 DEF TypeOK, Damage
  <1>11. ASSUME NEW r \in Runs, LoseRow(r) PROVE TypeOK'
    BY <1>0, <1>11 DEF TypeOK, LoseRow, Damage
  <1>12. ASSUME NEW r \in Runs, SwapRows(r) PROVE TypeOK'
    BY <1>0, <1>12 DEF TypeOK, SwapRows, Damage
  <1>13. CASE UNCHANGED vars
    BY <1>0, <1>13 DEF TypeOK, vars
  <1>14. QED
    BY <1>1, <1>2, <1>3, <1>4, <1>5, <1>6, <1>7, <1>8, <1>9, <1>10, <1>11, <1>12,
       <1>13 DEF Next

\* Every step keeps what an open transaction read true: only the connection
\* that holds the write lock changes a log.
LEMMA NextTxIsCurrent ==
  ASSUME IInv, [Next]_vars
  PROVE  TxIsCurrent'
  <1> USE EventStoreAssumption DEF NoTx
  <1>0. TypeOK /\ TxIsCurrent
    BY DEF IInv
  <1>1. ASSUME NEW c \in Conns, NEW r \in Runs, NEW d \in Drafts, BeginImmediate(c, r, d)
        PROVE  TxIsCurrent'
    BY <1>0, <1>1 DEF TypeOK, TxIsCurrent, BeginImmediate
  <1>2. ASSUME NEW c \in Conns, GenesisMissing(c) PROVE TxIsCurrent'
    BY <1>0, <1>2 DEF TypeOK, TxIsCurrent, GenesisMissing
  <1>3. ASSUME NEW c \in Conns, InsertRow(c) PROVE TxIsCurrent'
    BY <1>0, <1>3 DEF TypeOK, TxIsCurrent, InsertRow
  <1>4. ASSUME NEW c \in Conns, Commit(c) PROVE TxIsCurrent'
    BY <1>0, <1>4 DEF TypeOK, TxIsCurrent, Commit
  <1>5. ASSUME NEW c \in Conns, Rollback(c) PROVE TxIsCurrent'
    BY <1>0, <1>5 DEF TypeOK, TxIsCurrent, Rollback
  <1>6. ASSUME writer = NULL, UNCHANGED <<writer, tx>> PROVE TxIsCurrent'
    BY <1>0, <1>6 DEF TxIsCurrent
  <1>7. ASSUME NEW r \in Runs, PurgeRun(r) PROVE TxIsCurrent'
    BY <1>6, <1>7 DEF PurgeRun
  <1>8. ASSUME NEW r \in Runs, AlterRow(r) \/ LoseRow(r) \/ SwapRows(r) PROVE TxIsCurrent'
    BY <1>6, <1>8 DEF AlterRow, LoseRow, SwapRows, Damage
  <1>9. ASSUME UNCHANGED <<events, writer, tx>> PROVE TxIsCurrent'
    BY <1>0, <1>9 DEF TxIsCurrent
  <1>10. ASSUME NEW v \in Verifiers, VerifyHead(v) \/ VerifyDone(v) PROVE TxIsCurrent'
    BY <1>9, <1>10 DEF VerifyHead, VerifyDone
  <1>11. ASSUME NEW v \in Verifiers, NEW r \in Runs, VerifyWalk(v, r) PROVE TxIsCurrent'
    BY <1>9, <1>11 DEF VerifyWalk
  <1>12. CASE UNCHANGED vars
    BY <1>9, <1>12 DEF vars
  <1>13. QED
    BY <1>1, <1>2, <1>3, <1>4, <1>5, <1>7, <1>8, <1>10, <1>11, <1>12 DEF Next

\* Every step keeps the undamaged logs whole and linked.
LEMMA NextLogs ==
  ASSUME IInv, [Next]_vars
  PROVE  LogIsWhole' /\ ChainHolds'
  <1> USE EventStoreAssumption
  <1>0. TypeOK /\ TypeOK'
    BY NextTypeOK DEF IInv
  <1>1. ASSUME NEW r \in Runs \ damaged PROVE WholeLog(r) /\ LinkedLog(r)
    BY DEF IInv, LogIsWhole, ChainHolds, WholeLog, LinkedLog
  <1>2. ASSUME UNCHANGED <<events, heads, recorded, damaged>>
        PROVE  LogIsWhole' /\ ChainHolds'
    BY <1>0, <1>2, LogsUntouched
  <1>3. ASSUME NEW r \in Runs, PurgeRun(r) PROVE LogIsWhole' /\ ChainHolds'
    <2>1. DOMAIN events'[r] = {} /\ heads'[r] = NULL /\ recorded'[r] = {}
      BY <1>0, <1>3 DEF TypeOK, PurgeRun
    <2>2. WholeLog(r)' /\ LinkedLog(r)'
      <3>1. DOMAIN events'[r] = 1..0 /\ 0 \in 0..MaxSeq
        BY <2>1
      <3>2. Pairs(events'[r]) = recorded'[r]
        BY <2>1 DEF Pairs
      <3>3. WholeLog(r)'
        BY <2>1, <3>1, <3>2 DEF WholeLog
      <3>4. LinkedLog(r)'
        BY <2>1 DEF LinkedLog
      <3>5. QED
        BY <3>3, <3>4
    <2>3. ASSUME NEW q \in Runs \ damaged, q # r PROVE WholeLog(q)' /\ LinkedLog(q)'
      <3>1. events'[q] = events[q] /\ heads'[q] = heads[q] /\ recorded'[q] = recorded[q]
        BY <1>0, <1>3, <2>3 DEF TypeOK, PurgeRun
      <3>2. QED
        BY <1>1, <3>1, UntouchedLog
    <2>4. \A q \in Runs \ damaged' : WholeLog(q)' /\ LinkedLog(q)'
      BY <1>3, <2>2, <2>3 DEF PurgeRun
    <2>5. QED
      BY <2>4 DEF LogIsWhole, ChainHolds, WholeLog, LinkedLog
  <1>4. ASSUME NEW r \in Runs, NEW rows, Damage(r, rows) PROVE LogIsWhole' /\ ChainHolds'
    <2>1. ASSUME NEW q \in Runs \ damaged, q # r PROVE WholeLog(q)' /\ LinkedLog(q)'
      <3>1. events'[q] = events[q] /\ heads'[q] = heads[q] /\ recorded'[q] = recorded[q]
        BY <1>0, <1>4, <2>1 DEF TypeOK, Damage
      <3>2. QED
        BY <1>1, <3>1, UntouchedLog
    <2>2. \A q \in Runs \ damaged' : WholeLog(q)' /\ LinkedLog(q)'
      BY <1>4, <2>1 DEF Damage
    <2>3. QED
      BY <2>2 DEF LogIsWhole, ChainHolds, WholeLog, LinkedLog
  <1>5. ASSUME NEW r \in Runs, AlterRow(r) \/ LoseRow(r) \/ SwapRows(r)
        PROVE  LogIsWhole' /\ ChainHolds'
    BY <1>4, <1>5, Zenon DEF AlterRow, LoseRow, SwapRows
  <1>6. ASSUME NEW c \in Conns, Commit(c) PROVE LogIsWhole' /\ ChainHolds'
    BY <1>6, CommitKeepsLogs
  <1>7. ASSUME NEW c \in Conns, GenesisMissing(c) \/ InsertRow(c) \/ Rollback(c)
        PROVE  LogIsWhole' /\ ChainHolds'
    BY <1>2, <1>7 DEF GenesisMissing, InsertRow, Rollback
  <1>8. ASSUME NEW c \in Conns, NEW r \in Runs, NEW d \in Drafts, BeginImmediate(c, r, d)
        PROVE  LogIsWhole' /\ ChainHolds'
    BY <1>2, <1>8 DEF BeginImmediate
  <1>9. ASSUME NEW v \in Verifiers, NEW r \in Runs,
               VerifyWalk(v, r) \/ VerifyHead(v) \/ VerifyDone(v)
        PROVE  LogIsWhole' /\ ChainHolds'
    BY <1>2, <1>9 DEF VerifyWalk, VerifyHead, VerifyDone
  <1>10. ASSUME NEW v \in Verifiers, VerifyHead(v) \/ VerifyDone(v)
        PROVE  LogIsWhole' /\ ChainHolds'
    BY <1>2, <1>10 DEF VerifyHead, VerifyDone
  <1>11. CASE UNCHANGED vars
    BY <1>2, <1>11 DEF vars
  <1>12. QED
    BY <1>3, <1>5, <1>6, <1>7, <1>8, <1>9, <1>10, <1>11 DEF Next

LEMMA IInvInductive == Spec => []IInv
  <1>1. Init => IInv
    BY InitIInv
  <1>2. IInv /\ [Next]_vars => IInv'
    BY NextTypeOK, NextTxIsCurrent, NextLogs DEF IInv
  <1>3. QED
    BY <1>1, <1>2, PTL DEF Spec

\* Type correctness of the store, for every set of runs and connections.
THEOREM StoreTypeOK == Spec => []TypeOK
  <1>1. IInv => TypeOK
    BY DEF IInv
  <1>2. QED
    BY <1>1, IInvInductive, PTL

\* Concurrent appends never skip, reuse or overwrite a seq of a run, and the
\* head always names the last row (Storage::append_at).
THEOREM StoreLogIsWhole == Spec => []LogIsWhole
  <1>1. IInv => LogIsWhole
    BY DEF IInv
  <1>2. QED
    BY <1>1, IInvInductive, PTL

\* Every link an append writes is the one verify_chain recomputes.
THEOREM StoreChainHolds == Spec => []ChainHolds
  <1>1. IInv => ChainHolds
    BY DEF IInv
  <1>2. QED
    BY <1>1, IInvInductive, PTL

\* An open transaction holds the write lock and what it read is current.
THEOREM StoreTxIsCurrent == Spec => []TxIsCurrent
  <1>1. IInv => TxIsCurrent
    BY DEF IInv
  <1>2. QED
    BY <1>1, IInvInductive, PTL
-----------------------------------------------------------------------------
(***************************************************************************)
(* What an intact verdict says.  A hash tells every row below it, so a     *)
(* hash is vouched for by what it can be the last hash of, and no          *)
(* induction along the chain is needed: an append vouches for its row's    *)
(* hash by the vouched hash it chains onto.                                *)
(***************************************************************************)

\* The absent value is neither a row of run_heads nor a hash.
NullIsNothing ==
    /\ \A seq, hash : NULL # [seq |-> seq, hash |-> hash]
    /\ \A prev, r, seq, draft : NULL # chain_hash(prev, r, seq, draft)

\* verify_chain's walk over n rows of r holds, and ends on the hash h.
Verifies(rows, r, n, h) ==
    DOMAIN rows = 1..n /\ (\A s \in 1..n : judge_row(rows, r, s)) /\ rows[n].hash = h

\* Rows of r that verify up to h are among those of `committed`, whoever stored them.
Vouched(committed, r, h) ==
    \A n \in Nat \ {0} : \A rows :
        Verifies(rows, r, n, h) => Pairs(rows) \subseteq committed

VouchedLog(r) ==
    /\ \A s \in DOMAIN events[r] :
          DOMAIN events[r][s] = {"draft", "hash"} /\ Vouched(recorded[r], r, events[r][s].hash)
    /\ heads[r] # NULL => Vouched(recorded[r], r, heads[r].hash)

\* What a walk that held has read.
WalkHeld(v) ==
    verify[v].stage = "walked" =>
        \E n \in Nat \ {0} : \E rows, h :
            /\ Verifies(rows, verify[v].run, n, h)
            /\ verify[v].rows = Pairs(rows)
            /\ verify[v].last = [seq |-> n, hash |-> h]

VInv == (\A r \in Runs : VouchedLog(r)) /\ (\A v \in Verifiers : WalkHeld(v))

\* The last hash of rows that verify tells the last row and the hash before it.
LEMMA HashTells ==
  ASSUME NEW rows, NEW r, NEW n \in Nat \ {0}, NEW prev, NEW m, NEW d,
         Verifies(rows, r, n, chain_hash(prev, r, m, d))
  PROVE  n = m /\ rows[n].draft = d /\ (n # 1 => rows[n - 1].hash = prev)
  <1>1. /\ rows[n].hash = chain_hash(prev, r, m, d)
        /\ rows[n].hash = chain_hash(previous_hash(rows, n, rows[n].draft), r, n, rows[n].draft)
    BY DEF Verifies, judge_row
  <1>2. n = m /\ rows[n].draft = d /\ previous_hash(rows, n, rows[n].draft) = prev
    BY <1>1 DEF chain_hash
  <1>3. QED
    BY <1>2 DEF previous_hash

\* Rows that verify, verify without the last of them.
LEMMA PrefixVerifies ==
  ASSUME NEW rows, NEW r, NEW n \in Nat \ {0, 1}, NEW h, Verifies(rows, r, n, h)
  PROVE  \E less : /\ Verifies(less, r, n - 1, rows[n - 1].hash)
                   /\ Pairs(rows) = Pairs(less) \cup {<<n, rows[n].draft>>}
  <1> DEFINE less == [s \in 1..(n - 1) |-> rows[s]]
  <1>1. DOMAIN less = 1..(n - 1) /\ \A s \in 1..(n - 1) : less[s] = rows[s]
    OBVIOUS
  <1>2. DOMAIN rows = 1..n /\ \A s \in 1..n : judge_row(rows, r, s)
    BY DEF Verifies
  <1> HIDE DEF less
  <1>3. ASSUME NEW s \in 1..(n - 1) PROVE judge_row(less, r, s)
    <2>1. judge_row(rows, r, s)
      BY <1>2
    <2>2. less[s] = rows[s] /\ (s # 1 => s - 1 \in 1..(n - 1))
      BY <1>1
    <2>3. s # 1 => less[s - 1] = rows[s - 1]
      BY <1>1, <2>2
    <2>4. QED
      BY <1>1, <2>1, <2>2, <2>3 DEF judge_row, previous_hash
  <1>4. Verifies(less, r, n - 1, rows[n - 1].hash)
    BY <1>1, <1>3, n - 1 \in 1..(n - 1) DEF Verifies
  <1>5. Pairs(rows) = Pairs(less) \cup {<<n, rows[n].draft>>}
    <2>1. Pairs(rows) = {<<s, rows[s].draft>> : s \in 1..n}
      BY <1>2 DEF Pairs
    <2>2. Pairs(less) = {<<s, less[s].draft>> : s \in 1..(n - 1)}
      BY <1>1 DEF Pairs
    <2>3. \A s \in 1..n : s \in 1..(n - 1) \/ s = n
      OBVIOUS
    <2>4. \A s \in 1..(n - 1) : s \in 1..n
      OBVIOUS
    <2>5. QED
      BY <1>1, <2>1, <2>2, <2>3, <2>4, n \in 1..n
  <1>6. QED
    BY <1>4, <1>5

\* Some of the seqs there are have a least one.
LEMMA LeastSeq ==
  ASSUME NEW S \in SUBSET Nat, S # {}
  PROVE  \E x \in S : \A y \in S : x <= y
  <1> DEFINE Less == {ss \in Nat \X Nat : ss[1] < ss[2]}
  <1>1. IsWellFoundedOn(OpToRel(<, Nat), Nat)
    BY NatLessThanWellFounded
  <1>2. IsWellFoundedOn(Less, Nat)
    BY <1>1 DEF OpToRel
  <1>3. \E x \in S : \A y \in S : ~ (<<y, x>> \in Less)
    <2> HIDE DEF Less
    <2>1. QED
      BY <1>2, WFMin
  <1>4. PICK x \in S : \A y \in S : ~ (<<y, x>> \in Less)
    BY <1>3
  <1>5. ASSUME NEW y \in S PROVE x <= y
    <2>1. <<y, x>> \in Nat \X Nat /\ <<y, x>>[1] = y /\ <<y, x>>[2] = x
      OBVIOUS
    <2>2. ~(y < x)
      BY <1>4, <2>1
    <2>3. QED
      BY <2>2
  <1>6. QED
    BY <1>5

\* The greatest of some seqs is one of them.
LEMMA MaxSeqIsOne ==
  ASSUME NEW D, D # {}, NEW top \in Nat, D \subseteq 1..top
  PROVE  Max(D) \in D /\ \A y \in D : Max(D) >= y
  <1>1. \E x \in D : \A y \in D : x >= y
    <2> DEFINE Above == {k \in Nat : \A y \in D : y <= k}
    <2>1. top \in Above /\ Above \in SUBSET Nat
      OBVIOUS
    <2>2. PICK k \in Above : \A j \in Above : k <= j
      BY LeastSeq, <2>1
    <2>3. k \in D
      <3>1. SUFFICES ASSUME k \notin D PROVE FALSE
        OBVIOUS
      <3>2. k \in Nat /\ \A y \in D : y <= k /\ y \in Nat \ {0}
        BY <2>2
      <3>3. \A y \in D : y <= k - 1
        BY <3>1, <3>2
      <3>4. k - 1 \in Nat
        <4>1. PICK y \in D : TRUE
          OBVIOUS
        <4>2. y \in Nat \ {0} /\ y <= k
          BY <3>2
        <4>3. QED
          BY <3>2, <4>2
      <3>5. k - 1 \in Above
        BY <3>3, <3>4
      <3>6. QED
        BY <2>2, <3>2, <3>5
    <2>4. QED
      BY <2>2, <2>3
  <1>2. QED
    BY <1>1, Zenon DEF Max

\* The seqs of rows that verify are 1..n: one that is missing below another is missed.
LEMMA WalkIsWhole ==
  ASSUME NEW rows, NEW r, DOMAIN rows # {}, DOMAIN rows \subseteq 1..MaxSeq,
         \A s \in DOMAIN rows : judge_row(rows, r, s)
  PROVE  /\ Max(DOMAIN rows) \in Nat \ {0}
         /\ DOMAIN rows = 1..Max(DOMAIN rows)
  <1> DEFINE D == DOMAIN rows
             m == Max(D)
  <1>1. \A S \in SUBSET Nat : S # {} => \E x \in S : \A y \in S : x <= y
    BY LeastSeq
  <1>2. D \subseteq Nat \ {0} /\ D # {} /\ D \subseteq 1..MaxSeq /\ MaxSeq \in Nat
    BY EventStoreAssumption
  <1>3. \A s \in D : s = 1 \/ s - 1 \in D
    BY DEF judge_row
  <1> HIDE DEF D
  <1>4. m \in D /\ \A y \in D : m >= y
    BY <1>2, MaxSeqIsOne
  <1> HIDE DEF m
  <1>5. m \in Nat \ {0} /\ D \subseteq 1..m
    BY <1>2, <1>4
  <1>6. ASSUME NEW s \in 1..m, s \notin D PROVE FALSE
    <2> DEFINE Over == {k \in Nat : k > s /\ k \in D}
    <2>1. m \in Over /\ Over \in SUBSET Nat
      BY <1>4, <1>5, <1>6
    <2>2. PICK k \in Over : \A j \in Over : k <= j
      BY <1>1, <2>1
    <2>3. k \in Nat /\ k > s /\ k \in D /\ k # 1 /\ s \in Nat
      BY <1>6, <2>2
    <2>4. k - 1 \in D /\ k - 1 \in Nat
      BY <1>3, <2>3
    <2>5. k - 1 > s
      BY <1>6, <2>3, <2>4
    <2>6. k - 1 \in Over
      BY <2>4, <2>5
    <2>7. QED
      BY <2>2, <2>3, <2>6
  <1>7. D = 1..m
    BY <1>5, <1>6
  <1>8. QED
    BY <1>5, <1>7 DEF D, m

\* A hash chained onto a vouched one is vouched for once its row is committed.
LEMMA LinkVouched ==
  ASSUME NEW committed, NEW r, NEW prev, NEW m \in Nat \ {0}, NEW d,
         m # 1 => Vouched(committed, r, prev)
  PROVE  Vouched(committed \cup {<<m, d>>}, r, chain_hash(prev, r, m, d))
  <1>1. SUFFICES ASSUME NEW n \in Nat \ {0}, NEW rows,
                        Verifies(rows, r, n, chain_hash(prev, r, m, d))
                 PROVE  Pairs(rows) \subseteq committed \cup {<<m, d>>}
    BY DEF Vouched
  <1>2. n = m /\ rows[n].draft = d /\ (n # 1 => rows[n - 1].hash = prev)
    BY <1>1, HashTells
  <1>3. CASE n = 1
    <2>1. DOMAIN rows = {1}
      BY <1>1, <1>3 DEF Verifies
    <2>2. Pairs(rows) = {<<1, d>>}
      BY <1>2, <1>3, <2>1 DEF Pairs
    <2>3. QED
      BY <1>2, <1>3, <2>2
  <1>4. CASE n # 1
    <2>1. PICK less : /\ Verifies(less, r, n - 1, prev)
                      /\ Pairs(rows) = Pairs(less) \cup {<<n, d>>}
      BY <1>1, <1>2, <1>4, PrefixVerifies
    <2>2. n - 1 \in Nat \ {0} /\ Vouched(committed, r, prev)
      BY <1>2, <1>4
    <2>3. Pairs(less) \subseteq committed
      BY <2>1, <2>2 DEF Vouched
    <2>4. QED
      BY <1>2, <2>1, <2>3
  <1>5. QED
    BY <1>3, <1>4

\* What was vouched for stays so while nothing committed is forgotten.
LEMMA StaysVouched ==
  ASSUME NEW committed, NEW more, committed \subseteq more, NEW r, NEW h, Vouched(committed, r, h)
  PROVE  Vouched(more, r, h)
  BY DEF Vouched

\* Rows that keep the hashes they had, whatever else became of them, keep them vouched for.
LEMMA VouchedUntouched ==
  ASSUME NEW r \in Runs, VouchedLog(r), heads'[r] = heads[r], recorded'[r] = recorded[r],
         \A s \in DOMAIN events'[r] :
            /\ DOMAIN events'[r][s] = {"draft", "hash"}
            /\ \E t \in DOMAIN events[r] : events'[r][s].hash = events[r][t].hash
  PROVE  VouchedLog(r)'
  BY DEF VouchedLog

\* Commit stores a hash chained onto the last one, and the head names it.
LEMMA VouchedByCommit ==
  ASSUME IInv, NEW c \in Conns, Commit(c), NEW r \in Runs, VouchedLog(r)
  PROVE  VouchedLog(r)'
  <1>1. /\ tx[c].run \in Runs /\ tx[c].seq \in 1..MaxSeq
        /\ tx[c].seq = NextSeq(events[tx[c].run])
        /\ tx[c].row = StoredRow(events[tx[c].run], tx[c].run, tx[c].draft)
        /\ DOMAIN events[tx[c].run] \subseteq 1..MaxSeq
    BY DEF IInv, TypeOK, TxIsCurrent, Commit
  <1>2. DOMAIN events = Runs /\ DOMAIN heads = Runs /\ DOMAIN recorded = Runs
    BY DEF IInv, TypeOK
  <1>3. CASE r # tx[c].run
    <2>1. events'[r] = events[r] /\ heads'[r] = heads[r] /\ recorded'[r] = recorded[r]
      BY <1>1, <1>2, <1>3 DEF Commit
    <2>2. QED
      BY <2>1 DEF VouchedLog
  <1>4. CASE r = tx[c].run
    <2> DEFINE seq == tx[c].seq
               d == tx[c].draft
               prev == previous_hash(events[r], seq, d)
               h == chain_hash(prev, r, seq, d)
    <2>1. /\ events'[r] = [s \in DOMAIN events[r] \cup {seq} |->
                             IF s = seq THEN tx[c].row ELSE events[r][s]]
          /\ heads'[r] = [seq |-> seq, hash |-> tx[c].row.hash]
          /\ recorded'[r] = recorded[r] \cup {<<seq, d>>}
      BY <1>1, <1>2, <1>4 DEF Commit
    <2>2. tx[c].row = [draft |-> d, hash |-> h]
      BY <1>1, <1>4 DEF StoredRow
    <2>3. seq # 1 => seq - 1 \in DOMAIN events[r]
      <3>1. SUFFICES ASSUME seq # 1 PROVE seq - 1 \in DOMAIN events[r]
        OBVIOUS
      <3>2. DOMAIN events[r] # {} /\ seq = Max(DOMAIN events[r]) + 1
        BY <1>1, <1>4, <3>1 DEF NextSeq
      <3>3. Max(DOMAIN events[r]) \in DOMAIN events[r]
        BY <1>1, <1>4, <3>2, MaxSeqIsOne, EventStoreAssumption
      <3>4. Max(DOMAIN events[r]) \in Nat
        BY <1>1, <1>4, <3>3
      <3>5. QED
        BY <3>2, <3>3, <3>4
    <2>4. seq # 1 => Vouched(recorded[r], r, prev)
      BY <2>3 DEF VouchedLog, previous_hash
    <2>5. Vouched(recorded'[r], r, h)
      <3>1. seq \in Nat \ {0}
        BY <1>1
      <3> HIDE DEF prev, d, seq
      <3>2. Vouched(recorded[r] \cup {<<seq, d>>}, r, h)
        BY <2>4, <3>1, LinkVouched
      <3>3. QED
        BY <2>1, <3>2
    <2>6. \A k : Vouched(recorded[r], r, k) => Vouched(recorded'[r], r, k)
      BY <2>1, StaysVouched
    <2> HIDE DEF h, prev, d, seq
    <2>7. ASSUME NEW s \in DOMAIN events'[r]
          PROVE  /\ DOMAIN events'[r][s] = {"draft", "hash"}
                 /\ Vouched(recorded'[r], r, events'[r][s].hash)
      <3>1. CASE s = seq
        <4>1. events'[r][s] = [draft |-> d, hash |-> h]
          BY <2>1, <2>2, <3>1
        <4>2. QED
          BY <2>5, <4>1
      <3>2. CASE s # seq
        <4>1. s \in DOMAIN events[r] /\ events'[r][s] = events[r][s]
          BY <2>1, <2>7, <3>2
        <4>2. QED
          BY <2>6, <4>1 DEF VouchedLog
      <3>3. QED
        BY <3>1, <3>2
    <2>8. heads'[r].hash = h
      BY <2>1, <2>2
    <2>9. QED
      BY <2>5, <2>7, <2>8 DEF VouchedLog
  <1>5. QED
    BY <1>3, <1>4

LEMMA InitVInv ==
  ASSUME NullIsNothing, Init
  PROVE  VInv
  <1>1. ASSUME NEW r \in Runs PROVE VouchedLog(r)
    <2>1. heads[r] = NULL
      BY DEF Init
    <2>2. CASE r \in Legacy
      <3>1. events[r] = [s \in {1} |-> [draft |-> Created, hash |-> NULL]]
        BY <2>2 DEF Init
      <3>2. \A n \in Nat \ {0} : \A rows : ~Verifies(rows, r, n, NULL)
        BY DEF Verifies, judge_row, NullIsNothing
      <3>3. Vouched(recorded[r], r, NULL)
        BY <3>2 DEF Vouched
      <3>4. QED
        BY <2>1, <3>1, <3>3 DEF VouchedLog
    <2>3. CASE r \notin Legacy
      BY <2>1, <2>3 DEF Init, VouchedLog
    <2>4. QED
      BY <2>2, <2>3
  <1>2. ASSUME NEW v \in Verifiers PROVE WalkHeld(v)
    BY DEF Init, WalkHeld, Idle
  <1>3. QED
    BY <1>1, <1>2 DEF VInv

\* No step stores a hash that nothing vouches for: damage moves and drops hashes and makes none.
LEMMA NextVouchedLog ==
  ASSUME IInv, [Next]_vars, NEW r \in Runs, VouchedLog(r)
  PROVE  VouchedLog(r)'
  <1>0. DOMAIN events = Runs /\ DOMAIN heads = Runs /\ DOMAIN recorded = Runs
    BY DEF IInv, TypeOK
  <1>1. ASSUME events'[r] = events[r], heads'[r] = heads[r], recorded'[r] = recorded[r]
        PROVE  VouchedLog(r)'
    BY <1>1 DEF VouchedLog
  <1>2. ASSUME NEW c \in Conns, Commit(c) PROVE VouchedLog(r)'
    BY <1>2, VouchedByCommit
  <1>3. ASSUME NEW q \in Runs, PurgeRun(q) PROVE VouchedLog(r)'
    <2>1. CASE q = r
      <3>1. DOMAIN events'[r] = {} /\ heads'[r] = NULL
        BY <1>0, <1>3, <2>1 DEF PurgeRun
      <3>2. QED
        BY <3>1 DEF VouchedLog
    <2>2. CASE q # r
      BY <1>0, <1>1, <1>3, <2>2 DEF PurgeRun
    <2>3. QED
      BY <2>1, <2>2
  <1>4. ASSUME NEW q \in Runs, NEW rows, Damage(q, rows), q # r PROVE VouchedLog(r)'
    BY <1>0, <1>1, <1>4 DEF Damage
  <1>5. ASSUME NEW rows, Damage(r, rows)
        PROVE  events'[r] = rows /\ heads'[r] = heads[r] /\ recorded'[r] = recorded[r]
    BY <1>0, <1>5 DEF Damage
  <1>6. \A s \in DOMAIN events[r] : DOMAIN events[r][s] = {"draft", "hash"}
    BY DEF VouchedLog
  <1>7. CASE AlterRow(r)
    <2>1. PICK s \in DOMAIN events[r], d \in Drafts :
             Damage(r, [events[r] EXCEPT ![s].draft = d])
      BY <1>7 DEF AlterRow
    <2>2. events'[r] = [events[r] EXCEPT ![s].draft = d] /\ heads'[r] = heads[r]
          /\ recorded'[r] = recorded[r]
      BY <1>5, <2>1
    <2>3. ASSUME NEW t \in DOMAIN events'[r]
          PROVE  /\ DOMAIN events'[r][t] = {"draft", "hash"}
                 /\ events'[r][t].hash = events[r][t].hash /\ t \in DOMAIN events[r]
      <3>1. t \in DOMAIN events[r]
        BY <2>2
      <3>2. CASE t = s
        <4>1. events'[r][t] = [events[r][s] EXCEPT !.draft = d]
          BY <2>2, <3>1, <3>2
        <4>2. QED
          BY <1>6, <3>1, <3>2, <4>1
      <3>3. CASE t # s
        BY <1>6, <2>2, <3>1, <3>3
      <3>4. QED
        BY <3>2, <3>3
    <2>4. QED
      BY <2>2, <2>3, VouchedUntouched
  <1>8. CASE LoseRow(r)
    <2>1. PICK s \in DOMAIN events[r] :
             Damage(r, [t \in DOMAIN events[r] \ {s} |-> events[r][t]])
      BY <1>8 DEF LoseRow
    <2>2. events'[r] = [t \in DOMAIN events[r] \ {s} |-> events[r][t]]
          /\ heads'[r] = heads[r] /\ recorded'[r] = recorded[r]
      BY <1>5, <2>1
    <2>3. \A t \in DOMAIN events'[r] : t \in DOMAIN events[r] /\ events'[r][t] = events[r][t]
      BY <2>2
    <2>4. QED
      BY <1>6, <2>2, <2>3, VouchedUntouched
  <1>9. CASE SwapRows(r)
    <2>1. PICK s \in DOMAIN events[r], t \in DOMAIN events[r] :
             Damage(r, [events[r] EXCEPT ![s] = events[r][t], ![t] = events[r][s]])
      BY <1>9 DEF SwapRows
    <2>2. events'[r] = [events[r] EXCEPT ![s] = events[r][t], ![t] = events[r][s]]
          /\ heads'[r] = heads[r] /\ recorded'[r] = recorded[r]
      BY <1>5, <2>1
    <2>3. \A u \in DOMAIN events'[r] :
             \E k \in DOMAIN events[r] : events'[r][u] = events[r][k]
      BY <2>2
    <2>4. QED
      BY <1>6, <2>2, <2>3, VouchedUntouched
  <1>10. ASSUME NEW q \in Runs, AlterRow(q) \/ LoseRow(q) \/ SwapRows(q) PROVE VouchedLog(r)'
    <2>1. CASE q = r
      BY <1>7, <1>8, <1>9, <1>10, <2>1
    <2>2. CASE q # r
      BY <1>4, <1>10, <2>2, Zenon DEF AlterRow, LoseRow, SwapRows
    <2>3. QED
      BY <2>1, <2>2
  <1>11. ASSUME UNCHANGED <<events, heads, recorded>> PROVE VouchedLog(r)'
    BY <1>1, <1>11
  <1>12. ASSUME NEW c \in Conns, GenesisMissing(c) \/ InsertRow(c) \/ Rollback(c)
         PROVE  VouchedLog(r)'
    BY <1>11, <1>12 DEF GenesisMissing, InsertRow, Rollback
  <1>13. ASSUME NEW c \in Conns, NEW q \in Runs, NEW d \in Drafts, BeginImmediate(c, q, d)
         PROVE  VouchedLog(r)'
    BY <1>11, <1>13 DEF BeginImmediate
  <1>14. ASSUME NEW v \in Verifiers, NEW q \in Runs, VerifyWalk(v, q) PROVE VouchedLog(r)'
    BY <1>11, <1>14 DEF VerifyWalk
  <1>15. ASSUME NEW v \in Verifiers, VerifyHead(v) \/ VerifyDone(v) PROVE VouchedLog(r)'
    BY <1>11, <1>15 DEF VerifyHead, VerifyDone
  <1>16. CASE UNCHANGED vars
    BY <1>11, <1>16 DEF vars
  <1>17. QED
    BY <1>2, <1>3, <1>10, <1>12, <1>13, <1>14, <1>15, <1>16 DEF Next

\* What a walk read it keeps, whatever is appended, purged or damaged after it.
LEMMA NextWalkHeld ==
  ASSUME IInv, [Next]_vars, NEW v \in Verifiers, WalkHeld(v)
  PROVE  WalkHeld(v)'
  <1>0. /\ DOMAIN verify = Verifiers
        /\ \A r \in Runs : DOMAIN events[r] \subseteq 1..MaxSeq
    BY DEF IInv, TypeOK
  <1>1. ASSUME verify'[v] = verify[v] \/ verify'[v].stage # "walked" PROVE WalkHeld(v)'
    BY <1>1 DEF WalkHeld
  <1>2. ASSUME NEW r \in Runs, VerifyWalk(v, r) PROVE WalkHeld(v)'
    <2> DEFINE rows == events[r]
               n == Max(DOMAIN rows)
    <2>1. verify'[v] = [run |-> r, rows |-> Pairs(rows),
                        last |-> [seq |-> n, hash |-> rows[n].hash],
                        stage |-> IF \A s \in DOMAIN rows : judge_row(rows, r, s)
                                  THEN "walked" ELSE "broken"]
          /\ DOMAIN rows # {}
      BY <1>0, <1>2 DEF VerifyWalk
    <2>2. CASE ~(\A s \in DOMAIN rows : judge_row(rows, r, s))
      <3>1. verify'[v].stage # "walked"
        BY <2>1, <2>2
      <3>2. QED
        BY <1>1, <3>1
    <2>3. CASE \A s \in DOMAIN rows : judge_row(rows, r, s)
      <3>1. n \in Nat \ {0} /\ DOMAIN rows = 1..n
        BY <1>0, <2>1, <2>3, WalkIsWhole
      <3>2. Verifies(rows, r, n, rows[n].hash)
        BY <2>3, <3>1 DEF Verifies
      <3>3. /\ verify'[v].run = r /\ verify'[v].rows = Pairs(rows)
            /\ verify'[v].last = [seq |-> n, hash |-> rows[n].hash]
        BY <2>1
      <3> HIDE DEF n, rows
      <3>4. \E k \in Nat \ {0} : \E some, h :
               /\ Verifies(some, verify'[v].run, k, h)
               /\ verify'[v].rows = Pairs(some)
               /\ verify'[v].last = [seq |-> k, hash |-> h]
        BY <3>1, <3>2, <3>3, Zenon
      <3>5. QED
        BY <3>4 DEF WalkHeld
    <2>4. QED
      BY <2>2, <2>3
  <1>3. ASSUME NEW w \in Verifiers, VerifyHead(w) \/ VerifyDone(w) PROVE WalkHeld(v)'
    <2>1. CASE w = v
      <3>1. verify'[v].stage # "walked"
        BY <1>0, <1>3, <2>1 DEF VerifyHead, VerifyDone, Idle, IInv, TypeOK
      <3>2. QED
        BY <1>1, <3>1
    <2>2. CASE w # v
      <3>1. verify'[v] = verify[v]
        BY <1>0, <1>3, <2>2 DEF VerifyHead, VerifyDone
      <3>2. QED
        BY <1>1, <3>1
    <2>3. QED
      BY <2>1, <2>2
  <1>4. ASSUME NEW w \in Verifiers, NEW r \in Runs, VerifyWalk(w, r) PROVE WalkHeld(v)'
    <2>1. CASE w = v
      BY <1>2, <1>4, <2>1
    <2>2. CASE w # v
      <3>1. verify'[v] = verify[v]
        BY <1>0, <1>4, <2>2 DEF VerifyWalk
      <3>2. QED
        BY <1>1, <3>1
    <2>3. QED
      BY <2>1, <2>2
  <1>5. ASSUME UNCHANGED verify PROVE WalkHeld(v)'
    BY <1>1, <1>5
  <1>6. ASSUME NEW c \in Conns, NEW r \in Runs, NEW d \in Drafts, BeginImmediate(c, r, d)
        PROVE  WalkHeld(v)'
    BY <1>5, <1>6 DEF BeginImmediate
  <1>7. ASSUME NEW c \in Conns, GenesisMissing(c) \/ InsertRow(c) \/ Commit(c) \/ Rollback(c)
        PROVE  WalkHeld(v)'
    BY <1>5, <1>7 DEF GenesisMissing, InsertRow, Commit, Rollback
  <1>8. ASSUME NEW r \in Runs, PurgeRun(r) \/ AlterRow(r) \/ LoseRow(r) \/ SwapRows(r)
        PROVE  WalkHeld(v)'
    BY <1>5, <1>8 DEF PurgeRun, AlterRow, LoseRow, SwapRows, Damage
  <1>9. CASE UNCHANGED vars
    BY <1>5, <1>9 DEF vars
  <1>10. QED
    BY <1>3, <1>4, <1>6, <1>7, <1>8, <1>9 DEF Next

\* The head that a verdict compares with vouches for what was walked.
LEMMA IntactWasCommitted ==
  ASSUME NullIsNothing, IInv, VInv, [Next]_vars, NEW v \in Verifiers,
         verify[v].stage = "walked", verify'[v].stage = "intact"
  PROVE  verify[v].rows \subseteq recorded[verify[v].run]
  <1>0. DOMAIN verify = Verifiers /\ verify[v].run \in Runs
    BY DEF IInv, TypeOK
  <1>1. heads[verify[v].run] = verify[v].last
    <2>1. ASSUME NEW w \in Verifiers, VerifyHead(w) PROVE w = v /\ VerifyHead(v)
      <3>1. CASE w # v
        <4>1. verify'[v] = verify[v]
          BY <1>0, <2>1, <3>1 DEF VerifyHead
        <4>2. QED
          BY <4>1
      <3>2. QED
        BY <2>1, <3>1
    <2>2. CASE VerifyHead(v)
      <3>1. verify'[v].stage = IF heads[verify[v].run] = verify[v].last THEN "intact" ELSE "broken"
        BY <1>0, <2>2 DEF VerifyHead, IInv, TypeOK, Idle
      <3>2. QED
        BY <3>1
    <2>3. ASSUME NEW w \in Verifiers, VerifyDone(w) PROVE FALSE
      <3>1. CASE w = v
        BY <2>3, <3>1 DEF VerifyDone
      <3>2. CASE w # v
        <4>1. verify'[v] = verify[v]
          BY <1>0, <2>3, <3>2 DEF VerifyDone
        <4>2. QED
          BY <4>1
      <3>3. QED
        BY <3>1, <3>2
    <2>4. ASSUME NEW w \in Verifiers, NEW r \in Runs, VerifyWalk(w, r) PROVE FALSE
      <3>1. CASE w = v
        BY <2>4, <3>1 DEF VerifyWalk
      <3>2. CASE w # v
        <4>1. verify'[v] = verify[v]
          BY <1>0, <2>4, <3>2 DEF VerifyWalk
        <4>2. QED
          BY <4>1
      <3>3. QED
        BY <3>1, <3>2
    <2>5. verify' # verify
      OBVIOUS
    <2>6. QED
      BY <2>1, <2>2, <2>3, <2>4, <2>5 DEF Next, vars, BeginImmediate, GenesisMissing, InsertRow,
         Commit, Rollback, PurgeRun, AlterRow, LoseRow, SwapRows, Damage
  <1>2. PICK n \in Nat \ {0} : \E rows, h :
           /\ Verifies(rows, verify[v].run, n, h)
           /\ verify[v].rows = Pairs(rows)
           /\ verify[v].last = [seq |-> n, hash |-> h]
    BY DEF VInv, WalkHeld
  <1>3. PICK rows, h :
           /\ Verifies(rows, verify[v].run, n, h)
           /\ verify[v].rows = Pairs(rows)
           /\ verify[v].last = [seq |-> n, hash |-> h]
    BY <1>2
  <1>4. heads[verify[v].run] # NULL /\ heads[verify[v].run].hash = h
    BY <1>1, <1>3 DEF NullIsNothing
  <1>5. Vouched(recorded[verify[v].run], verify[v].run, h)
    BY <1>0, <1>4 DEF VInv, VouchedLog
  <1>6. QED
    BY <1>3, <1>5 DEF Vouched

\* Every row under an intact verdict is as some append committed it, for any runs, connections,
\* verifiers and damage, and whatever is appended to what was damaged (Storage::verify_chain).
THEOREM StoreIntactRowsWereRecorded ==
  ASSUME NullIsNothing
  PROVE  Spec => IntactRowsWereRecorded
  <1>1. Init => VInv
    BY InitVInv
  <1>2. IInv /\ VInv /\ [Next]_vars => VInv'
    BY NextVouchedLog, NextWalkHeld DEF VInv
  <1>3. IInv /\ VInv /\ [Next]_vars =>
          [\A v \in Verifiers :
             verify[v].stage = "walked" /\ verify'[v].stage = "intact"
               => verify[v].rows \subseteq recorded[verify[v].run]]_vars
    BY IntactWasCommitted
  <1>4. QED
    BY IInvInductive, <1>1, <1>2, <1>3, PTL DEF Spec, IntactRowsWereRecorded
=============================================================================
