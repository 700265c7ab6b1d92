-------------------------------- MODULE Run ---------------------------------
(***************************************************************************)
(* What a run promises whoever starts one, without its log, its engine and *)
(* the processes that call on it: work begins in its turn or for a reason, *)
(* attempts are counted one by one, an end closes an attempt, a wait gives *)
(* back what it interrupted, and a run closes once, on what its nodes came *)
(* to.  RunEngine implements it: its crashes, wakes, pauses, reroutes and  *)
(* decisions are steps of a run or none at all.                            *)
(***************************************************************************)
EXTENDS Integers

CONSTANTS
    Nodes,
    Deps,        \* Deps[n]: the nodes n waits for
    Upstream,    \* Upstream[n]: those, and the nodes they wait for in turn
    Gates,       \* the nodes that a person or a reviewer decides
    Optional,    \* the nodes only a correction reaches
    Uncertain,   \* the nodes that are not begun over an attempt cut off
    Redone,      \* Redone[n]: what a correction of n may run
    Continues,   \* whether a run goes on past its failures
    Promotes     \* whether a later mode follows this run's

VARIABLES
    state,       \* state[n]: "idle", "open", "waiting", "done" or "failed"
    attempts,    \* attempts[n]: how many n has begun
    outcome,     \* outcome[n]: what the last of them to end came to
    over         \* "no", or how the run closed

vars == <<state, attempts, outcome, over>>

Init ==
    /\ state = [n \in Nodes |-> "idle"]
    /\ attempts = [n \in Nodes |-> 0]
    /\ outcome = [n \in Nodes |-> "none"]
    /\ over = "no"

\* It is n's first time and all it waits for is done.
ItsTurn(n) ==
    state[n] = "idle" /\ attempts[n] = 0 /\ \A d \in Deps[n] : state[d] = "done"

\* A failed node is corrected by running n.
Corrects(n) == \E m \in Nodes : state[m] = "failed" /\ n \in Redone[m]

MayBegin(n) ==
    \/ n \in Gates
    \/ state[n] = "open" /\ n \notin Uncertain
    \/ state[n] = "failed"
    \/ state[n] \in {"idle", "done"} /\ (ItsTurn(n) \/ Corrects(n))

Begin(n) ==
    /\ over = "no"
    /\ MayBegin(n)
    /\ state' = [state EXCEPT ![n] = "open"]
    /\ attempts' = [attempts EXCEPT ![n] = @ + 1]
    /\ UNCHANGED <<outcome, over>>

End(n, how) ==
    /\ over = "no"
    /\ state[n] = "open"
    /\ state' = [state EXCEPT ![n] = how]
    /\ outcome' = [outcome EXCEPT ![n] = how]
    /\ UNCHANGED <<attempts, over>>

\* A gate waits for its decision, work for the answer to its questions or for
\* a person to say what becomes of its failure.
Wait(n) ==
    /\ over = "no"
    /\ n \in Gates \/ state[n] \in {"open", "failed"}
    /\ state' = [state EXCEPT ![n] = "waiting"]
    /\ UNCHANGED <<attempts, outcome, over>>

\* A wait gives no outcome that no attempt had.
Settle(n, as) ==
    /\ over = "no"
    /\ state[n] = "waiting"
    /\ \/ as = "idle" /\ n \in Gates
       \/ as = "open" /\ attempts[n] > 0
       \/ as \in {"done", "failed"} /\ as = outcome[n]
    /\ state' = [state EXCEPT ![n] = as]
    /\ UNCHANGED <<attempts, outcome, over>>

\* Nobody is at work or waits.
AtRest == \A n \in Nodes : state[n] \in {"idle", "done", "failed"}

\* Everything ran but what waits for a failure.
RestRan ==
    \A n \in Nodes \ Optional :
        state[n] = "done" \/ \E m \in {n} \cup Upstream[n] : state[m] = "failed"

Close(how) ==
    /\ over = "no"
    /\ how \in {"done", "failed", "promoted"} => AtRest
    /\ how = "done" => \A n \in Nodes : state[n] = "done" \/ (n \in Optional /\ state[n] = "idle")
    /\ how \in {"failed", "promoted"} => \E n \in Nodes : state[n] = "failed"
    /\ how = "failed" /\ Continues => RestRan
    /\ how = "promoted" => Promotes
    /\ over' = how
    /\ UNCHANGED <<state, attempts, outcome>>

Next ==
    \/ \E n \in Nodes : \/ Begin(n) \/ Wait(n)
                        \/ \E how \in {"done", "failed"} : End(n, how)
                        \/ \E as \in {"idle", "open", "done", "failed"} : Settle(n, as)
    \/ \E how \in {"done", "failed", "promoted", "cancelled"} : Close(how)

Spec == Init /\ [][Next]_vars
=============================================================================
