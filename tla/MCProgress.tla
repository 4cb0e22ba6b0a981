---------------------------- MODULE MCProgress -----------------------------
(***************************************************************************)
(* Components that share no state, for TLC: what must happen in the end in *)
(* the dummy scheduler, in completions, in the FUSE driver and in the nohz *)
(* idle balancer, and the hierarchy of throttled groups.  One of them      *)
(* moves in a behaviour, the others stay in one of their initial states.   *)
(***************************************************************************)
EXTENDS Sched, Completion, Vfat, NohzBalance, Throttle, TLC

VARIABLE focus   \* the component that moves

-----------------------------------------------------------------------------
\* A FAT12, a FAT16 and two FAT32 volumes, one of them without its signature.
Volume(tot16, tot32, fat16, fat32, rootEnt, spc, sig) ==
    [BytsPerSec |-> 512, SecPerClus |-> spc, RsvdSecCnt |-> 32, NumFATs |-> 2,
     RootEntCnt |-> rootEnt, FATSz16 |-> fat16, FATSz32 |-> fat32,
     TotSec16 |-> tot16, TotSec32 |-> tot32, Sig |-> sig]

Unsigned == Volume(0, 66581, 0, 512, 0, 1, 0)

MCVolumes ==
    {Volume(2880, 0, 9, 0, 224, 1, VFAT_SIGNATURE),
     Volume(20000, 0, 80, 0, 512, 1, VFAT_SIGNATURE),
     Unsigned,
     Volume(0, 66581, 0, 512, 0, 1, VFAT_SIGNATURE)}

\* Directories with every kind of slot, a file of three clusters and an empty one,
\* and requests around the cluster size.
MCDirectories == {<<"lfn", "A", "free", "blank", "B">>, <<"free">>}
MCChains == {<<5, 3, 7>>, <<>>}
MCRequests ==
    {<<511, 0>>, <<512, 0>>, <<1025, 0>>, <<513, 511>>, <<1100, 1>>, <<600, 513>>, <<5, 5>>}
\* Groups a > b > c below the root, with tasks in c, in b and in the root.
MCParent ==
    "a" :> "root" @@ "b" :> "a" @@ "c" :> "b"
      @@ "t1" :> "c" @@ "t2" :> "b" @@ "t3" :> "c" @@ "t4" :> "root"
-----------------------------------------------------------------------------
mcVars == <<focus, vars, coVars, vfVars, nzVars, thVars>>

MCInit ==
    /\ focus \in {"sched", "completion", "vfat", "nohz", "throttle"}
    /\ IF focus = "sched" THEN TRUE
       ELSE prio = [p \in All |-> IF p \in BootTasks THEN Min(BootPrios) ELSE DEFAULT_PRIO]
    /\ Init
    /\ CoInit
    /\ IF focus = "vfat" THEN TRUE ELSE chain = <<>> /\ dir = <<"free">> /\ bs = Unsigned
    /\ VfInit
    /\ NzInit /\ ThInit

MCNext ==
    /\ UNCHANGED focus
    /\ \/ focus = "sched" /\ Next /\ UNCHANGED <<coVars, vfVars, nzVars, thVars>>
       \/ focus = "completion" /\ CoNext /\ UNCHANGED <<vars, vfVars, nzVars, thVars>>
       \/ focus = "vfat" /\ VfNext /\ UNCHANGED <<vars, coVars, nzVars, thVars>>
       \/ focus = "nohz" /\ NzNext /\ UNCHANGED <<vars, coVars, vfVars, thVars>>
       \/ focus = "throttle" /\ ThNext /\ UNCHANGED <<vars, coVars, vfVars, nzVars>>

\* The fairness of completions and of the driver, when they move. The scheduler and the
\* nohz balancer have theirs in their properties.
MCFairness ==
    /\ \A w \in Waiters : WF_coVars(focus = "completion" /\ resume(w))
    /\ \A t \in Threads : WF_vfVars(focus = "vfat" /\ Steps(t))

MCSpec == MCInit /\ [][MCNext]_mcVars /\ MCFairness

-----------------------------------------------------------------------------
\* Ageing prevents starvation (NoStarvation of Sched), under Sched's Fairness.
TasksGetTheCpu ==
    /\ WF_vars(focus = "sched" /\ scheduler_tick)
    /\ WF_vars(focus = "sched" /\ cond_resched)
    /\ WF_vars(focus = "sched" /\ (curr = Idle \/ state[curr] = "DEAD") /\ schedule)
    => NoStarvation
=============================================================================
