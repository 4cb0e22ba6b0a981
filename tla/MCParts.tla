------------------------------ MODULE MCParts ------------------------------
(***************************************************************************)
(* Eight components that share no state, for TLC: the scheduling classes,  *)
(* completions, the shell, the sysctl handlers, CFS bandwidth control, the *)
(* load of a CPU, the average of all and the shares of groups.  One of     *)
(* them moves in a behaviour, the others stay in one of their initial      *)
(* states.                                                                 *)
(***************************************************************************)
EXTENDS Sched, Completion, Shell, Sysctl, Bandwidth, CpuLoad, Avenrun, GroupShares, TLC

VARIABLE focus   \* the component that moves

-----------------------------------------------------------------------------
mcVars == <<focus, vars, coVars, shVars, syVars, bwVars, clVars, avVars, gsVars>>

MCInit ==
    /\ focus \in {"sched", "completion", "shell", "sysctl", "bandwidth", "cpu_load", "avenrun", "shares"}
    /\ IF focus = "sched" THEN TRUE
       ELSE prio = [p \in All |-> IF p \in BootTasks THEN Min(BootPrios) ELSE DEFAULT_PRIO]
    /\ IF focus = "sysctl" THEN TRUE ELSE kind = "string"
    /\ IF focus = "avenrun" THEN TRUE ELSE exp = Min(EXPs)
    /\ IF focus = "shares" THEN TRUE ELSE gshares = [g \in GsGroups |-> Min(ShareValues)]
    /\ Init /\ CoInit /\ ShInit /\ SyInit /\ BwInit /\ ClInit /\ AvInit /\ GsInit

MCNext ==
    /\ UNCHANGED focus
    /\ \/ focus = "sched" /\ Next /\ UNCHANGED <<coVars, shVars, syVars, bwVars, clVars, avVars, gsVars>>
       \/ focus = "completion" /\ CoNext /\ UNCHANGED <<vars, shVars, syVars, bwVars, clVars, avVars, gsVars>>
       \/ focus = "shell" /\ ShNext /\ UNCHANGED <<vars, coVars, syVars, bwVars, clVars, avVars, gsVars>>
       \/ focus = "sysctl" /\ SyNext /\ UNCHANGED <<vars, coVars, shVars, bwVars, clVars, avVars, gsVars>>
       \/ focus = "bandwidth" /\ BwNext /\ UNCHANGED <<vars, coVars, shVars, syVars, clVars, avVars, gsVars>>
       \/ focus = "cpu_load" /\ ClNext /\ UNCHANGED <<vars, coVars, shVars, syVars, bwVars, avVars, gsVars>>
       \/ focus = "avenrun" /\ AvNext /\ UNCHANGED <<vars, coVars, shVars, syVars, bwVars, clVars, gsVars>>
       \/ focus = "shares" /\ GsNext /\ UNCHANGED <<vars, coVars, shVars, syVars, bwVars, clVars, avVars>>

MCSpec == MCInit /\ [][MCNext]_mcVars

-----------------------------------------------------------------------------
\* The averages move towards what they average and never past it, a constant load is
\* reached in spite of the rounding, and catching up at once with many missed ticks
\* or samples gives what one at a time gives, up to the rounding (core.c:2274,
\* 2472, 2500).
AveragesMove ==
    [][/\ ClTypeOK' /\ AvTypeOK'
       /\ NeverStuck /\ CatchUpClose
       /\ NeverPastTheCount /\ BulkIsSteps]_<<clVars, avVars>>
=============================================================================
