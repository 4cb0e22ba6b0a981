------------------------------ MODULE MCSmpWake ------------------------------
(***************************************************************************)
(* Two CPUs that share no cache and two tasks, one of which sleeps         *)
(* uninterruptibly.  Either masks change, or a CPU goes down and up while  *)
(* the other one wakes a task bound to it: sched_setaffinity locks hotplug *)
(* out, so the two meet only through the masks.                            *)
(***************************************************************************)
EXTENDS SmpWake, TLC

CONSTANTS c1, c2, t1, t2

VARIABLE scenario

MCCache == c1 :> 1 @@ c2 :> 2
MCMasks == t1 :> {{c1}, {c1, c2}} @@ t2 :> {}
MCFirstMask == t1 :> {c2} @@ t2 :> {c1, c2}
MCSleepState == t1 :> "uninterruptible" @@ t2 :> "interruptible"

MCInit == SwInit /\ scenario \in {"affinity", "hotplug"}

MCNext ==
    \/ UNCHANGED scenario /\ \E c \in SwCpus : SwCpu(c)
    \/ UNCHANGED scenario /\ scenario = "affinity" /\ \E c \in SwCpus : SwWakeUp(c)
    \/ UNCHANGED scenario /\ scenario = "affinity" /\ SwAffinity
    \/ UNCHANGED scenario /\ scenario = "hotplug" /\ wake_up(c1, t1)
    \/ UNCHANGED scenario /\ scenario = "hotplug" /\ SwHotplug

MCSpec == MCInit /\ [][MCNext]_<<swVars, scenario>> /\ SwFairness

=============================================================================
