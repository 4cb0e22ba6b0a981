------------------------------ MODULE TaskLife ------------------------------
(***************************************************************************)
(* What the scheduler promises to the tasks of a multiprocessor, without   *)
(* any of its queues and locks: a task is asleep, waits for a CPU or runs  *)
(* on one; a CPU runs at most one task; and a sleeping task for which an   *)
(* event was posted is woken.  SmpWake implements this specification.      *)
(***************************************************************************)
CONSTANTS Tasks, Cpus

VARIABLES
    where,  \* task -> "asleep", "ready", or the CPU it runs on
    event   \* task -> whether an event was posted and not yet taken

lifeVars == <<where, event>>

Init ==
    /\ where = [t \in Tasks |-> "ready"]
    /\ event = [t \in Tasks |-> FALSE]

Post(t) == event' = [event EXCEPT ![t] = TRUE] /\ UNCHANGED where

\* Only a running task takes its event.
Take(t) ==
    /\ where[t] \in Cpus
    /\ event' = [event EXCEPT ![t] = FALSE]
    /\ UNCHANGED where

\* A CPU gives up its task, if it has one, and takes a ready one or none.
Switch(c) ==
    /\ \E after \in {"asleep", "ready"}, next \in {t \in Tasks : where[t] = "ready"} \cup {"none"} :
         where' = [t \in Tasks |-> IF t = next THEN c
                                   ELSE IF where[t] = c THEN after ELSE where[t]]
    /\ UNCHANGED event

\* One interrupt may wake several tasks.
Wake(W) ==
    /\ \A t \in W : where[t] = "asleep"
    /\ where' = [t \in Tasks |-> IF t \in W THEN "ready" ELSE where[t]]
    /\ UNCHANGED event

Step ==
    \/ \E t \in Tasks : Post(t) \/ Take(t)
    \/ \E W \in SUBSET Tasks : Wake(W)
    \/ \E c \in Cpus : Switch(c)

Safety == Init /\ [][Step]_lifeVars

Spec == Safety /\ \A t \in Tasks : WF_lifeVars(event[t] /\ \E W \in SUBSET Tasks : t \in W /\ Wake(W))

=============================================================================
