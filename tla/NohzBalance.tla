---------------------------- MODULE NohzBalance ----------------------------
(***************************************************************************)
(* Balancing on behalf of CPUs that sleep without a tick                   *)
(* (kernel/sched/fair.c, the CONFIG_NO_HZ part): idle CPUs register in     *)
(* nohz.idle_cpus_mask, a busy CPU that notices an overload in its tick    *)
(* kicks the first of them with a reschedule interrupt, and that one       *)
(* balances for all of them in its softirq.                                *)
(*                                                                         *)
(* Each CPU's own flags are changed by that CPU only, except               *)
(* NOHZ_BALANCE_KICK. What calls set_cpu_sd_state_idle and                 *)
(* nohz_balance_enter_idle (the tick code) is modelled from how they are   *)
(* used: in this order, by an idle CPU, the second when it stops its tick. *)
(* A CPU that is going down still passes there on its way to its death.    *)
(* One group of CPUs shares a cache. Whether it is time to balance is      *)
(* chosen in every tick.                                                   *)
(***************************************************************************)
EXTENDS Integers, FiniteSets, FiniteSetsExt

CONSTANTS
    NzCpus,             \* numbers: the idle load balancer is the smallest
    Pluggable,          \* the CPUs that may go down
    MaxRunning,         \* bound: tasks on all CPUs together
    MaxHotplug          \* bound: how often CPUs go down

VARIABLES
    ncpu,               \* per CPU: nr_running, the flags NOHZ_TICK_STOPPED (stopped),
                        \* NOHZ_IDLE (idle) and NOHZ_BALANCE_KICK (kick), whether the tick
                        \* runs, rq->idle_balance, a pending interrupt and softirq, and
                        \* pc: where its tick or softirq is (pos: in the loop over the mask)
    nohz,               \* idle_cpus_mask and nr_cpus
    nr_busy_cpus,       \* of the group
    activeCpus, onlineCpus,
    builtIdle,          \* ghost: CPUs marked idle when the domains were last built
    hotplugs

nzVars == <<ncpu, nohz, nr_busy_cpus, activeCpus, onlineCpus, builtIdle, hotplugs>>
nzHotplug == <<activeCpus, onlineCpus, builtIdle, hotplugs>>

IdleCpu(c) == ncpu[c].nr_running = 0

NzInit ==
    /\ ncpu = [c \in NzCpus |-> [nr_running |-> 0, stopped |-> FALSE, idle |-> FALSE,
                                 kick |-> FALSE, tick |-> TRUE, idle_balance |-> FALSE,
                                 ipi |-> FALSE, softirq |-> FALSE, pc |-> "none", pos |-> -1]]
    /\ nohz = [idle_cpus_mask |-> {}, nr_cpus |-> 0]
    /\ nr_busy_cpus = Cardinality(NzCpus)
    /\ activeCpus = NzCpus /\ onlineCpus = NzCpus
    /\ builtIdle = {} /\ hotplugs = 0
-----------------------------------------------------------------------------
(***************************************************************************)
(* Tasks come and go                                                       *)
(***************************************************************************)
nz_wake(c) ==
    /\ c \in activeCpus
    /\ MapThenSumSet(LAMBDA d : ncpu[d].nr_running, NzCpus) < MaxRunning
    /\ ncpu' = [ncpu EXCEPT ![c].nr_running = @ + 1, ![c].tick = TRUE]
    /\ UNCHANGED <<nohz, nr_busy_cpus, nzHotplug>>

nz_sleep(c) ==
    /\ ncpu[c].nr_running > 0
    /\ ncpu' = [ncpu EXCEPT ![c].nr_running = @ - 1]
    /\ UNCHANGED <<nohz, nr_busy_cpus, nzHotplug>>
-----------------------------------------------------------------------------
(***************************************************************************)
(* Registering                                                             *)
(***************************************************************************)
set_cpu_sd_state_idle(c) ==
    /\ IdleCpu(c) /\ ncpu[c].pc = "none"
    /\ ~ncpu[c].idle
    /\ ncpu' = [ncpu EXCEPT ![c].idle = TRUE]
    /\ nr_busy_cpus' = IF c \in activeCpus THEN nr_busy_cpus - 1 ELSE nr_busy_cpus
    /\ UNCHANGED <<nohz, nzHotplug>>

nohz_balance_enter_idle(c) ==
    /\ IdleCpu(c) /\ ncpu[c].pc = "none"
    /\ ncpu[c].idle /\ ncpu[c].tick
    /\ IF c \in activeCpus /\ ~ncpu[c].stopped
       THEN /\ nohz' = [idle_cpus_mask |-> nohz.idle_cpus_mask \cup {c},
                        nr_cpus |-> nohz.nr_cpus + 1]
            /\ ncpu' = [ncpu EXCEPT ![c].stopped = TRUE, ![c].tick = FALSE]
       ELSE /\ ncpu' = [ncpu EXCEPT ![c].tick = FALSE]
            /\ UNCHANGED nohz
    /\ UNCHANGED <<nr_busy_cpus, nzHotplug>>

\* What nohz_balance_exit_idle leaves of the registration of c, whose flags are f.
nohz_balance_exit_idle(c, f) ==
    nohz' = IF f.stopped
            THEN [idle_cpus_mask |-> nohz.idle_cpus_mask \ {c}, nr_cpus |-> nohz.nr_cpus - 1]
            ELSE nohz

\* Mutant: without the test of NOHZ_IDLE.
BusyAgain(c, f) ==
    nr_busy_cpus' = IF c \in activeCpus THEN nr_busy_cpus + 1 ELSE nr_busy_cpus

\* The group of c, if c has one, has one more busy CPU unless it was counted already.
set_cpu_sd_state_busy(c, f) ==
    nr_busy_cpus' = IF f.idle /\ c \in activeCpus THEN nr_busy_cpus + 1 ELSE nr_busy_cpus
-----------------------------------------------------------------------------
(***************************************************************************)
(* The tick of a CPU and the kick                                          *)
(***************************************************************************)

\* Is there reason to kick, once c has counted itself as busy? due: it is time.
nohz_kick_needed(c, due) ==
    /\ nohz'.nr_cpus > 0 /\ due
    /\ ncpu[c].nr_running >= 2 \/ nr_busy_cpus' > 1

\* trigger_load_balance, called at the end of scheduler_tick.
trigger_load_balance(c, due, raise) ==
    LET f == ncpu[c]
        on_null_domain == c \notin activeCpus
    IN /\ c \in onlineCpus /\ f.pc = "none" /\ f.tick
       /\ raise => ~on_null_domain
       /\ IF IdleCpu(c)
          THEN /\ ncpu' = [ncpu EXCEPT ![c].idle_balance = TRUE, ![c].softirq = @ \/ raise]
               /\ UNCHANGED <<nohz, nr_busy_cpus>>
          ELSE /\ set_cpu_sd_state_busy(c, f)
               /\ nohz_balance_exit_idle(c, f)
               /\ ncpu' = [ncpu EXCEPT ![c].idle_balance = FALSE, ![c].softirq = @ \/ raise,
                                       ![c].idle = FALSE, ![c].stopped = FALSE,
                                       ![c].pc = IF nohz_kick_needed(c, due) /\ ~on_null_domain
                                                 THEN "kick" ELSE "none"]
       /\ UNCHANGED nzHotplug

\* The first registered CPU, if it is idle.
find_new_ilb ==
    LET first == {c \in nohz.idle_cpus_mask : \A d \in nohz.idle_cpus_mask : c <= d}
    IN {c \in first : IdleCpu(c)}

\* test_and_set_bit and the interrupt.
nohz_balancer_kick(c) ==
    /\ ncpu[c].pc = "kick"
    /\ ncpu' = [d \in NzCpus |->
                  LET f == IF d = c THEN [ncpu[d] EXCEPT !.pc = "none"] ELSE ncpu[d]
                  IN IF d \in find_new_ilb /\ ~f.kick
                     THEN [f EXCEPT !.kick = TRUE, !.ipi = TRUE] ELSE f]
    /\ UNCHANGED <<nohz, nr_busy_cpus, nzHotplug>>

\* scheduler_ipi: the softirq is raised only if the CPU is still idle.
nz_scheduler_ipi(c) ==
    LET f == ncpu[c]
        got_nohz_idle_kick == IdleCpu(c) /\ f.kick
    IN /\ f.ipi /\ c \in onlineCpus
       /\ ncpu' = [ncpu EXCEPT ![c].ipi = FALSE,
                               ![c].idle_balance = @ \/ got_nohz_idle_kick,
                               ![c].softirq = @ \/ got_nohz_idle_kick]
       /\ UNCHANGED <<nohz, nr_busy_cpus, nzHotplug>>
-----------------------------------------------------------------------------
(***************************************************************************)
(* The softirq                                                             *)
(***************************************************************************)
\* What a pass for d may do (LoadBalance has the details): pull a task from a CPU that
\* has two, if d is idle and has a domain, or find nothing it can move.
rebalance_domains(d) ==
    {ncpu} \cup
    {[ncpu EXCEPT ![x].nr_running = @ - 1, ![d].nr_running = 1, ![d].tick = TRUE] :
        x \in {y \in activeCpus : ncpu[y].nr_running > 1 /\ IdleCpu(d) /\ d \in activeCpus}}

\* A pass for c itself; then go through the mask, or just clear the kick.
run_rebalance_domains(c) ==
    LET f == ncpu[c]
    IN /\ f.softirq /\ f.pc = "none" /\ c \in onlineCpus
       /\ \E n \in rebalance_domains(c) :
            ncpu' = IF f.idle_balance /\ f.kick
                    THEN [n EXCEPT ![c].softirq = FALSE, ![c].pc = "ilb"]
                    ELSE [n EXCEPT ![c].softirq = FALSE, ![c].kick = FALSE]
       /\ UNCHANGED <<nohz, nr_busy_cpus, nzHotplug>>


\* One round of the loop of nohz_idle_balance over the mask as it is now: the loop ends,
\* or skips the next CPU, or makes a pass for it.
nohz_idle_balance(c) ==
    LET rest == {d \in nohz.idle_cpus_mask : d > ncpu[c].pos}
        next == {d \in rest : \A e \in rest : d <= e}
        pass == {d \in next : d # c /\ IdleCpu(d)}
        need_resched == ~IdleCpu(c)
    IN /\ ncpu[c].pc = "ilb"
       /\ \/ /\ next = {} \/ (pass # {} /\ need_resched)
             /\ ncpu' = [ncpu EXCEPT ![c].pc = "none", ![c].pos = -1, ![c].kick = FALSE]
          \/ \E d \in next \ pass : ncpu' = [ncpu EXCEPT ![c].pos = d]
          \/ /\ ~need_resched
             /\ \E d \in pass : \E n \in rebalance_domains(d) :
                  ncpu' = [n EXCEPT ![c].pos = d]
       /\ UNCHANGED <<nohz, nr_busy_cpus, nzHotplug>>
-----------------------------------------------------------------------------
(***************************************************************************)
(* CPU hotplug                                                             *)
(***************************************************************************)

\* New domains for the CPUs S: init_sched_groups_power counts all of them as busy.
build_sched_domains(S) ==
    /\ nr_busy_cpus' = Cardinality(S)
    /\ builtIdle' = {c \in S : ncpu[c].idle}

\* CPU_DOWN_PREPARE: c is no longer active and the domains are built without it.
nz_cpu_inactive(c) ==
    /\ hotplugs < MaxHotplug /\ c \in activeCpus \cap Pluggable
    /\ activeCpus' = activeCpus \ {c}
    /\ build_sched_domains(activeCpus \ {c})
    /\ hotplugs' = hotplugs + 1
    /\ UNCHANGED <<ncpu, nohz, onlineCpus>>

\* CPU_DYING, on c itself, once its tasks have been moved away.
sched_ilb_notifier(c) ==
    LET f == ncpu[c]
    IN /\ c \in onlineCpus \ activeCpus /\ IdleCpu(c) /\ f.pc = "none" /\ ~f.softirq
       /\ onlineCpus' = onlineCpus \ {c}
       /\ nohz_balance_exit_idle(c, f)
       /\ ncpu' = [ncpu EXCEPT ![c].stopped = FALSE]
       /\ UNCHANGED <<nr_busy_cpus, activeCpus, builtIdle, hotplugs>>

nz_cpu_online(c) ==
    /\ c \notin onlineCpus
    /\ onlineCpus' = onlineCpus \cup {c} /\ activeCpus' = activeCpus \cup {c}
    /\ build_sched_domains(activeCpus \cup {c})
    /\ ncpu' = [ncpu EXCEPT ![c].tick = TRUE, ![c].ipi = FALSE]
    /\ UNCHANGED <<nohz, hotplugs>>
-----------------------------------------------------------------------------
NzTick(c) == \E due, raise \in BOOLEAN : trigger_load_balance(c, due, raise)

NzNext ==
    \E c \in NzCpus :
        \/ nz_wake(c) \/ nz_sleep(c)
        \/ set_cpu_sd_state_idle(c) \/ nohz_balance_enter_idle(c)
        \/ NzTick(c) \/ nohz_balancer_kick(c) \/ nz_scheduler_ipi(c)
        \/ run_rebalance_domains(c) \/ nohz_idle_balance(c)
        \/ nz_cpu_inactive(c) \/ sched_ilb_notifier(c) \/ nz_cpu_online(c)

NzSpec == NzInit /\ [][NzNext]_nzVars
-----------------------------------------------------------------------------
(***************************************************************************)
(* Properties                                                              *)
(***************************************************************************)
\* Values have their types, and the mask, its counter and the flags of the CPUs
\* tell the same story.
NzTypeOK ==
    /\ \A c \in NzCpus : ncpu[c].nr_running \in 0 .. MaxRunning /\ ncpu[c].pc \in {"none", "kick", "ilb"}
    /\ nohz.idle_cpus_mask = {c \in NzCpus : ncpu[c].stopped}
    /\ nohz.nr_cpus = Cardinality(nohz.idle_cpus_mask)

\* A CPU that is down is never chosen as idle load balancer: it leaves the mask
\* in CPU_DYING and does not enter it again when it idles for the last time
\* (fair.c:5441).
NoDeadIlb == nohz.idle_cpus_mask \subseteq onlineCpus

\* The number of busy CPUs of the group is that of its CPUs not marked idle, plus
\* those that were marked idle when the domains were last built: these count twice
\* from then on (core.c:5903 sets the number, nobody clears their marks).
BusyCount ==
    nr_busy_cpus = Cardinality({c \in activeCpus : ~ncpu[c].idle}) + Cardinality(builtIdle)

\* Interrupts are handled, loops go on, and a softirq does not stay pending for ever:
\* it runs after one of the interrupts or in ksoftirqd.
NzFairness ==
    \A c \in NzCpus :
        /\ WF_nzVars(nz_scheduler_ipi(c))
        /\ []<><<ncpu[c].softirq /\ c \in onlineCpus => run_rebalance_domains(c)>>_nzVars
        /\ WF_nzVars(nohz_idle_balance(c))
        /\ WF_nzVars(nohz_balancer_kick(c))


\* The mask of tickless CPUs, its counter and the CPUs' own flags agree, no CPU
\* that is down is in it, and the number of busy CPUs is off by exactly those that
\* were idle when the domains were last built (fair.c:5393, 5436, core.c:5888).
IdleMaskRight ==
    /\ NzTypeOK
    /\ NoDeadIlb
    /\ BusyCount

=============================================================================
