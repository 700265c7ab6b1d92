-------------------------------- MODULE Lock --------------------------------
(***************************************************************************)
(* What the lock file of crates/engine/src/lock.rs promises, without the   *)
(* file: at most one holder, none while the agents of a gone holder still  *)
(* work behind the lock, and an answer for whoever asks.  FileLock         *)
(* implements it.                                                          *)
(***************************************************************************)
CONSTANTS
    Processes,
    Nobody

VARIABLES
    holder,   \* the process that works under the lock, or Nobody
    asking,   \* the processes inside `acquire`
    guarded   \* whether a gone holder's agents still work behind the lock

vars == <<holder, asking, guarded>>

Init ==
    /\ holder = Nobody
    /\ asking = {}
    /\ guarded = FALSE

Ask(p) ==
    /\ p \notin asking /\ holder # p
    /\ asking' = asking \cup {p}
    /\ UNCHANGED <<holder, guarded>>

\* The only way to the lock: it is free and nobody's agents work behind it.
Take(p) ==
    /\ p \in asking /\ holder = Nobody /\ ~guarded
    /\ holder' = p
    /\ asking' = asking \ {p}
    /\ UNCHANGED guarded

\* Refused, timed out, cancelled or gone.
GiveUp(p) ==
    /\ p \in asking
    /\ asking' = asking \ {p}
    /\ UNCHANGED <<holder, guarded>>

\* A launcher leaves its work and its lock to the child it spawned.
PassOn(p, child) ==
    /\ holder = p /\ child # p /\ child \notin asking
    /\ holder' = child
    /\ UNCHANGED <<asking, guarded>>

\* Released, or its holder is gone, whose agents may go on working.
Drop(left) ==
    /\ holder # Nobody
    /\ holder' = Nobody
    /\ guarded' = left
    /\ UNCHANGED asking

AgentsEnd ==
    /\ guarded
    /\ guarded' = FALSE
    /\ UNCHANGED <<holder, asking>>

Settle(p) == Take(p) \/ GiveUp(p)

Next ==
    \/ \E p \in Processes : Ask(p) \/ Settle(p) \/ \E child \in Processes : PassOn(p, child)
    \/ \E left \in BOOLEAN : Drop(left)
    \/ AgentsEnd

\* Whoever asks is answered.
Spec == Init /\ [][Next]_vars /\ \A p \in Processes : WF_vars(Settle(p))
=============================================================================
