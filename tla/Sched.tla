------------------------------- MODULE Sched -------------------------------
(***************************************************************************)
(* The uniprocessor scheduler core of kernel/sched/core.c with the dummy   *)
(* class plugged in: task creation and exit, sleeping and waking, the      *)
(* timer tick, yielding, priority changes and the scheduling pass itself.  *)
(*                                                                         *)
(* The build is ARCH=um: one CPU, so every function that holds rq->lock    *)
(* with interrupts off is one action.  resched_task(p) sets                *)
(* TIF_NEED_RESCHED of p itself (core.c:652).                              *)
(***************************************************************************)
EXTENDS RunQueue

CONSTANTS
    DEFAULT_PRIO,    \* NICE_TO_PRIO(0) (120)
    NormalPrios,     \* static priorities that set_user_nice is called with
    BootPrios,       \* static priorities of the tasks that exist at the start
    BootTasks,       \* those tasks
    Policies,        \* policies that sched_setscheduler is called with
    BoostPrios,      \* priorities that waiters on an rt_mutex may lend
    Timeslices,      \* values written to sched_dummy_timeslice
    Thresholds       \* values written to sched_dummy_age_threshold

All == Tasks \cup {Idle}

ASSUME SchedAssumption ==
    /\ NormalPrios \subseteq MAX_RT_PRIO .. MAX_PRIO - 1
    /\ DEFAULT_PRIO \in MAX_RT_PRIO .. MAX_PRIO - 1
    /\ BootPrios \subseteq MAX_RT_PRIO .. MAX_PRIO - 1
    /\ BootTasks \subseteq Tasks
    /\ Policies \subseteq {"NORMAL", "BATCH", "FIFO"}
    /\ BoostPrios \subseteq 0 .. MAX_PRIO - 1
    /\ Timeslices \subseteq 0..UINT_MAX
    /\ Thresholds \subseteq 0..UINT_MAX

VARIABLES
    state,          \* p->state; "FREE" for a task_struct not in use
    on_rq,          \* the set of tasks with p->on_rq (never the idle task)
    newborn,        \* forked, wake_up_new_task not yet called
    prio,           \* p->prio, the effective priority
    static_prio,    \* p->static_prio, from the nice value
    policy,         \* p->policy; BATCH stands for IDLE too, FIFO for RR
    rt_priority,    \* p->rt_priority
    reset_on_fork,  \* the set of tasks with p->sched_reset_on_fork
    sched_class,    \* p->sched_class
    need_resched,   \* the set of tasks with TIF_NEED_RESCHED
    curr,           \* rq->curr
    looping,        \* curr, just switched to, was already flagged:
                    \* __schedule goes round again before curr gets anywhere
    rq,             \* the queues of the classes (RunQueue)
    nr_uninterruptible,
    timeslice,      \* sysctl_sched_dummy_timeslice
    age_threshold,  \* sysctl_sched_dummy_age_threshold
    oops            \* the kernel followed a bad pointer; nothing runs on

attrs  == <<prio, static_prio, policy, rt_priority, reset_on_fork, sched_class>>
life   == <<state, on_rq, newborn, nr_uninterruptible>>
sysctl == <<timeslice, age_threshold>>
vars   == <<attrs, life, sysctl, need_resched, curr, looping, rq, oops>>

States == {"RUNNING", "INTERRUPTIBLE", "UNINTERRUPTIBLE", "DEAD", "FREE"}

Exists(p) == state[p] # "FREE"

-----------------------------------------------------------------------------
\* p->normal_prio, which the code recomputes whenever one of its inputs changes.
normal_prio(pol, rtp, stat) ==
    IF pol = "FIFO" THEN MAX_RT_PRIO - 1 - rtp ELSE stat

NormalPrio(p) == normal_prio(policy[p], rt_priority[p], static_prio[p])

\* A real-time priority, lent or own, survives a change of the nice value.
effective_prio(p, stat) ==
    IF rt_prio(prio[p]) THEN prio[p]
    ELSE normal_prio(policy[p], rt_priority[p], stat)

\* Mutant: the task that woke up is flagged, not the one that is running.
FlagWoken(cl, pr, p) ==
    {IF Outranks(cl[p], cl[curr]) THEN {p} ELSE {}}

\* check_preempt_curr: the sets of tasks that p's arrival may flag, given the
\* classes cl and priorities pr.  Whether a fair task preempts another is a
\* matter of vruntime, which the model leaves open.
check_preempt_curr(cl, pr, p) ==
    IF cl[p] = cl[curr]
    THEN CASE cl[p] = "dummy" -> {IF check_preempt_curr_dummy(pr[p], pr[curr])
                                  THEN {p} ELSE {}}
           [] cl[p] = "fair"  -> IF p = curr THEN {{}} ELSE {{}, {curr}}
           [] OTHER           -> {IF pr[p] < pr[curr] THEN {curr} ELSE {}}
    ELSE {IF Outranks(cl[p], cl[curr]) THEN {curr} ELSE {}}

\* p->sched_class->switched_to, for a p that has just entered class cl[p].
switched_to(cl, pr, p) ==
    IF p \notin on_rq THEN {{}}
    ELSE CASE cl[p] = "rt"    -> {IF p # curr /\ pr[p] < pr[curr] THEN {curr} ELSE {}}
           [] cl[p] = "fair"  -> IF p = curr THEN {{curr}}
                                 ELSE check_preempt_curr(cl, pr, p)
           [] cl[p] = "dummy" -> IF p = curr THEN {{curr}}
                                 ELSE {IF check_preempt_curr_dummy(pr[p], pr[curr])
                                       THEN {p} ELSE {}}

prio_changed(cl, pr, p) ==
    IF p \notin on_rq THEN {{}}
    ELSE IF p = curr THEN {IF pr[p] > prio[p] THEN {p} ELSE {}}
    ELSE CASE cl[p] = "rt"    -> {IF pr[p] < pr[curr] THEN {curr} ELSE {}}
           [] cl[p] = "fair"  -> check_preempt_curr(cl, pr, p)
           [] cl[p] = "dummy" -> {IF check_preempt_curr_dummy(pr[p], pr[curr])
                                  THEN {p} ELSE {}}

check_class_changed(cl, pr, p) ==
    IF cl[p] # sched_class[p] THEN switched_to(cl, pr, p)
    ELSE IF pr[p] # prio[p] THEN prio_changed(cl, pr, p)
    ELSE {{}}

\* The step faults: what follows depends on the memory that was hit.
Fault == oops' = TRUE /\ UNCHANGED <<attrs, life, sysctl, need_resched, curr, looping, rq>>

\* The current task executes code of its own.
InTask == ~oops /\ curr \in Tasks /\ state[curr] # "DEAD" /\ ~looping

-----------------------------------------------------------------------------
Init ==
    /\ \E f \in [BootTasks -> BootPrios] :
          prio = [p \in All |-> IF p \in BootTasks THEN f[p] ELSE DEFAULT_PRIO]
    /\ static_prio = prio
    /\ policy = [p \in All |-> "NORMAL"]
    /\ rt_priority = [p \in All |-> 0]
    /\ reset_on_fork = {}
    /\ sched_class = [p \in All |-> IF p = Idle THEN "idle" ELSE ClassOf(prio[p])]
    /\ state = [p \in All |-> IF p \in BootTasks \cup {Idle} THEN "RUNNING" ELSE "FREE"]
    /\ on_rq = {}
    /\ newborn = BootTasks
    /\ nr_uninterruptible = 0
    /\ need_resched = {}
    /\ curr = Idle
    /\ looping = FALSE
    /\ rq = init_rq
    /\ timeslice \in Timeslices
    /\ age_threshold \in Thresholds
    /\ oops = FALSE

-----------------------------------------------------------------------------
(***************************************************************************)
(* One pass of __schedule over run queue r, with the flags in need already *)
(* raised.  active is PREEMPT_ACTIVE: the task is preempted, so it keeps   *)
(* its place even if it was about to sleep.  A pending signal also keeps   *)
(* an interruptible sleeper awake.  finish_task_switch frees a dead task.  *)
(***************************************************************************)
deactivate_task(r, p) == dequeue_task(r, p, sched_class[p])

__schedule(r, need, active) ==
    \E signal \in IF state[curr] = "INTERRUPTIBLE" THEN BOOLEAN ELSE {FALSE} :
    LET prev   == curr
        wants  == state[prev] # "RUNNING" /\ ~active
        leaves == wants /\ ~signal
        r1 == IF leaves THEN deactivate_task(r, prev) ELSE r
        r2 == put_prev_task(r1, prev, sched_class[prev])
    IN  IF (leaves => CanDequeue(r, prev, sched_class[prev])) /\ CanPick(r2)
        THEN \E next \in Candidates(r2, prio) :
               /\ rq' = pick_next_task(r2, next)
               /\ curr' = next
               /\ need_resched' = need \ {prev}
               /\ looping' = (next \in need_resched')
               /\ on_rq' = IF leaves THEN on_rq \ {prev} ELSE on_rq
               /\ state' = [state EXCEPT ![prev] =
                              IF wants /\ signal THEN "RUNNING"
                              ELSE IF leaves /\ @ = "DEAD" THEN "FREE" ELSE @]
               /\ nr_uninterruptible' = IF leaves /\ state[prev] = "UNINTERRUPTIBLE"
                                        THEN nr_uninterruptible + 1
                                        ELSE nr_uninterruptible
               /\ UNCHANGED <<attrs, newborn, sysctl, oops>>
        ELSE Fault

\* schedule(), called by the current task; the idle loop calls it when flagged.
schedule ==
    /\ ~oops /\ ~looping
    /\ curr = Idle => curr \in need_resched
    /\ __schedule(rq, need_resched, FALSE)

\* The flag is seen in cond_resched, on the way back to user space, or at the
\* end of __schedule itself.
cond_resched ==
    /\ ~oops
    /\ curr \in need_resched
    /\ curr # Idle
    /\ state[curr] # "DEAD"
    /\ __schedule(rq, need_resched, TRUE)

\* Mutant: yielding asks for a pass of the scheduler but keeps the place.
YieldInPlace(r, p) == r

\* sched_yield: the class's yield_task, then schedule with interrupts still off.
yield_task_dummy(r, p) ==
    [r EXCEPT !.dummy = requeue_task_dummy(@, p, prio[p])]

sched_yield ==
    /\ InTask
    /\ state[curr] = "RUNNING"
    /\ IF sched_class[curr] = "dummy"
       THEN __schedule(yield_task_dummy(rq, curr), need_resched \cup {curr}, FALSE)
       ELSE __schedule(rq, need_resched, FALSE)

\* The current task declares that it will sleep, or changes its mind.
set_current_state(s) ==
    /\ InTask
    /\ state[curr] # s
    /\ state' = [state EXCEPT ![curr] = s]
    /\ UNCHANGED <<attrs, on_rq, newborn, nr_uninterruptible, sysctl,
                   need_resched, curr, looping, rq, oops>>

\* do_exit: the last thing the task does before its final schedule().
do_exit ==
    /\ InTask
    /\ state[curr] = "RUNNING"
    /\ state' = [state EXCEPT ![curr] = "DEAD"]
    /\ UNCHANGED <<attrs, on_rq, newborn, nr_uninterruptible, sysctl,
                   need_resched, curr, looping, rq, oops>>

-----------------------------------------------------------------------------
\* sched_fork: p becomes a copy of the current task, less what was lent to it.
sched_fork(p) ==
    LET reset == curr \in reset_on_fork
        wasrt == policy[curr] = "FIFO"
        pol   == IF reset /\ wasrt THEN "NORMAL" ELSE policy[curr]
        stat  == IF reset /\ (wasrt \/ static_prio[curr] < DEFAULT_PRIO)
                 THEN DEFAULT_PRIO ELSE static_prio[curr]
        pr    == IF reset THEN stat ELSE NormalPrio(curr)
        class == IF rt_prio(pr) THEN sched_class[curr] ELSE ClassOf(pr)
    IN  /\ InTask
        /\ state[curr] = "RUNNING"
        /\ state[p] = "FREE"
        /\ state' = [state EXCEPT ![p] = "RUNNING"]
        /\ newborn' = newborn \cup {p}
        /\ policy' = [policy EXCEPT ![p] = pol]
        /\ static_prio' = [static_prio EXCEPT ![p] = stat]
        /\ rt_priority' = [rt_priority EXCEPT ![p] = IF reset /\ wasrt THEN 0
                                                       ELSE rt_priority[curr]]
        /\ prio' = [prio EXCEPT ![p] = pr]
        /\ sched_class' = [sched_class EXCEPT ![p] = class]
        /\ reset_on_fork' = reset_on_fork \ {p}
        \* task_fork_fair flags the parent when the child is to run first
        /\ \E first \in IF class = "fair" THEN BOOLEAN ELSE {FALSE} :
             need_resched' = (need_resched \ {p}) \cup (IF first THEN {curr} ELSE {})
        /\ UNCHANGED <<on_rq, nr_uninterruptible, sysctl, curr, looping, rq, oops>>

\* Put p on the queue and see whether it preempts.
activate_task(p) ==
    IF CanEnqueue(sched_class[p], prio[p])
    THEN /\ rq' = enqueue_task(rq, p, sched_class[p], prio[p])
         /\ on_rq' = on_rq \cup {p}
         /\ \E F \in check_preempt_curr(sched_class, prio, p) :
              need_resched' = need_resched \cup F
         /\ state' = [state EXCEPT ![p] = "RUNNING"]
         /\ newborn' = newborn \ {p}
         /\ nr_uninterruptible' = IF state[p] = "UNINTERRUPTIBLE"
                                  THEN nr_uninterruptible - 1
                                  ELSE nr_uninterruptible
         /\ UNCHANGED <<attrs, sysctl, curr, looping, oops>>
    ELSE Fault

wake_up_new_task(p) == ~oops /\ p \in newborn /\ activate_task(p)

\* Mutant: the light wake-up also counts the task out of uninterruptible sleep.
LightWakeCounts(p) ==
    /\ state' = [state EXCEPT ![p] = "RUNNING"]
    /\ nr_uninterruptible' = IF state[p] = "UNINTERRUPTIBLE"
                             THEN nr_uninterruptible - 1 ELSE nr_uninterruptible
    /\ UNCHANGED <<attrs, on_rq, newborn, sysctl, need_resched, curr, looping, rq, oops>>

\* A task that declared it would sleep but is still queued needs only its
\* state back.
ttwu_remote(p) ==
    /\ \E F \in check_preempt_curr(sched_class, prio, p) :
         need_resched' = need_resched \cup F
    /\ state' = [state EXCEPT ![p] = "RUNNING"]
    /\ UNCHANGED <<attrs, on_rq, newborn, nr_uninterruptible, sysctl, curr,
                   looping, rq, oops>>

\* Mutant: every wake-up is a light one.
AlwaysLight(p) ==
    /\ ~oops
    /\ state[p] \in {"INTERRUPTIBLE", "UNINTERRUPTIBLE"}
    /\ ttwu_remote(p)

try_to_wake_up(p) ==
    /\ ~oops
    /\ state[p] \in {"INTERRUPTIBLE", "UNINTERRUPTIBLE"}
    /\ IF p \in on_rq THEN ttwu_remote(p) ELSE activate_task(p)

-----------------------------------------------------------------------------
\* The timer interrupt.  A dummy tick flags the tasks it moves up and the
\* current one when its slice is over; a fair tick may flag the current one
\* only if it has company.
Ticked ==
    CASE sched_class[curr] = "dummy" ->
           {Aged(rq.dummy, age_threshold)
              \cup (IF SliceOver(rq.dummy, timeslice) THEN {curr} ELSE {})}
      [] sched_class[curr] = "fair" ->
           IF Cardinality(rq.cfs.on) > 1 THEN {{}, {curr}} ELSE {{}}
      [] sched_class[curr] = "rt" -> {{}, {curr}}
      [] OTHER -> {{}}

scheduler_tick ==
    /\ ~oops
    /\ rq' = IF sched_class[curr] = "dummy"
             THEN [rq EXCEPT !.dummy = task_tick_dummy(@, curr, prio[curr],
                                                       timeslice, age_threshold)]
             ELSE rq
    /\ \E F \in Ticked : need_resched' = need_resched \cup F
    /\ UNCHANGED <<attrs, life, sysctl, curr, looping, oops>>

-----------------------------------------------------------------------------
\* Mutant: a queued task is given its new priority without being requeued.
NiceInPlace(p, stat) ==
    /\ InTask /\ state[curr] = "RUNNING"
    /\ Exists(p)
    /\ static_prio[p] # stat
    /\ static_prio' = [static_prio EXCEPT ![p] = stat]
    /\ prio' = [prio EXCEPT ![p] = effective_prio(p, stat)]
    /\ UNCHANGED <<policy, rt_priority, reset_on_fork, sched_class, life, sysctl,
                   need_resched, curr, looping, rq, oops>>

\* set_user_nice: the class follows the new priority into the dummy range but
\* not out of it, and put_prev_task/set_curr_task are not called.
set_user_nice(p, stat) ==
    LET new   == effective_prio(p, stat)
        class == IF dummy_prio(new) THEN "dummy" ELSE sched_class[p]
        on    == p \in on_rq
    IN  /\ InTask /\ state[curr] = "RUNNING"
        /\ Exists(p)
        /\ static_prio[p] # stat
        /\ IF policy[p] = "FIFO"
           THEN /\ static_prio' = [static_prio EXCEPT ![p] = stat]
                /\ UNCHANGED <<prio, policy, rt_priority, reset_on_fork, sched_class,
                               life, sysctl, need_resched, curr, looping, rq, oops>>
           ELSE IF on => CanDequeue(rq, p, sched_class[p]) /\ CanEnqueue(class, new)
           THEN /\ static_prio' = [static_prio EXCEPT ![p] = stat]
                /\ prio' = [prio EXCEPT ![p] = new]
                /\ sched_class' = [sched_class EXCEPT ![p] = class]
                /\ rq' = IF on THEN enqueue_task(dequeue_task(rq, p, sched_class[p]),
                                                 p, class, new)
                         ELSE rq
                /\ need_resched' = IF on /\ (new < prio[p] \/ (new > prio[p] /\ p = curr))
                                   THEN need_resched \cup {curr} ELSE need_resched
                /\ UNCHANGED <<policy, rt_priority, reset_on_fork, life, sysctl,
                               curr, looping, oops>>
           ELSE Fault

\* The common part of rt_mutex_setprio and __sched_setscheduler: take p off its
\* queue, give it priority new and the class that goes with it, put it back.
Reclass(p, new) ==
    LET on    == p \in on_rq
        class == ClassOf(new)
        r1 == IF on THEN dequeue_task(rq, p, sched_class[p]) ELSE rq
        r2 == IF p = curr THEN put_prev_task(r1, p, sched_class[p]) ELSE r1
        r3 == IF p = curr THEN set_curr_task(r2, p, class) ELSE r2
    IN  /\ prio' = [prio EXCEPT ![p] = new]
        /\ sched_class' = [sched_class EXCEPT ![p] = class]
        /\ rq' = IF on THEN enqueue_task(r3, p, class, new) ELSE r3
        /\ \E F \in check_class_changed(sched_class', prio', p) :
             need_resched' = need_resched \cup F
        /\ UNCHANGED <<static_prio, life, sysctl, curr, looping, oops>>

CanReclass(p) == p \in on_rq => CanDequeue(rq, p, sched_class[p])

\* Priority inheritance: the waiters of p's rt_mutexes lend p a priority that
\* is better than its own, or take it back.
rt_mutex_setprio(p, new) ==
    /\ InTask
    /\ Exists(p)
    /\ new # prio[p]
    /\ new <= NormalPrio(p)
    /\ IF CanReclass(p)
       THEN Reclass(p, new) /\ UNCHANGED <<policy, rt_priority, reset_on_fork>>
       ELSE Fault

\* sched_setscheduler returns early when neither the policy nor the real-time
\* priority changes.  rt_mutex_getprio may find a waiter that lends priority.
sched_setscheduler(p, pol, rtp, reset) ==
    LET normal == normal_prio(pol, rtp, static_prio[p]) IN
    /\ InTask /\ state[curr] = "RUNNING"
    /\ Exists(p)
    /\ (pol = "FIFO") = (rtp # 0)
    /\ pol # policy[p] \/ (pol = "FIFO" /\ rtp # rt_priority[p])
    /\ IF CanReclass(p)
       THEN /\ policy' = [policy EXCEPT ![p] = pol]
            /\ rt_priority' = [rt_priority EXCEPT ![p] = rtp]
            /\ reset_on_fork' = IF reset THEN reset_on_fork \cup {p}
                                ELSE reset_on_fork \ {p}
            /\ \E new \in {b \in BoostPrios : b < normal} \cup {normal} : Reclass(p, new)
       ELSE Fault

\* A write to /proc/sys/kernel: proc_dointvec takes any value.
proc_dointvec ==
    /\ InTask /\ state[curr] = "RUNNING"
    /\ timeslice' \in Timeslices
    /\ age_threshold' \in Thresholds
    /\ UNCHANGED <<attrs, life, need_resched, curr, looping, rq, oops>>

-----------------------------------------------------------------------------
Interrupt ==
    \/ scheduler_tick
    \/ \E p \in Tasks : try_to_wake_up(p)

Switch == schedule \/ cond_resched \/ sched_yield

Lifecycle ==
    \/ do_exit
    \/ \E s \in {"RUNNING", "INTERRUPTIBLE", "UNINTERRUPTIBLE"} : set_current_state(s)
    \/ \E p \in Tasks : sched_fork(p) \/ wake_up_new_task(p)

Priority ==
    \E p \in Tasks :
      \/ \E n \in NormalPrios : set_user_nice(p, n)
      \/ \E b \in BoostPrios \cup {NormalPrio(p)} : rt_mutex_setprio(p, b)
      \/ \E pol \in Policies, rtp \in 0 .. MAX_RT_PRIO - 1, reset \in BOOLEAN :
           sched_setscheduler(p, pol, rtp, reset)

Crashed == oops /\ UNCHANGED vars

Next == Interrupt \/ Switch \/ Lifecycle \/ Priority \/ proc_dointvec \/ Crashed

Spec == Init /\ [][Next]_vars

-----------------------------------------------------------------------------
(***************************************************************************)
(* Properties.  A state with oops is one where the kernel has already      *)
(* followed a bad pointer: nothing is claimed of the memory behind it, and *)
(* the model leaves the other variables as they were before.               *)
(***************************************************************************)

\* Every field of the run queue and of the tasks keeps its type.
TypeOK ==
    /\ state \in [All -> States]
    /\ on_rq \subseteq Tasks
    /\ newborn \subseteq Tasks
    /\ prio \in [All -> 0 .. MAX_PRIO - 1]
    /\ static_prio \in [All -> MAX_RT_PRIO .. MAX_PRIO - 1]
    /\ policy \in [All -> {"NORMAL", "BATCH", "FIFO"}]
    /\ rt_priority \in [All -> Nat]
    /\ reset_on_fork \subseteq Tasks
    /\ sched_class \in [All -> {"rt", "fair", "dummy", "idle"}]
    /\ need_resched \subseteq All
    /\ curr \in All
    /\ looping \in BOOLEAN
    /\ rq \in RunQueues
    /\ nr_uninterruptible \in Int
    /\ timeslice \in 0..UINT_MAX
    /\ age_threshold \in 0..UINT_MAX
    /\ oops \in BOOLEAN

InClass(c) == {p \in on_rq : sched_class[p] = c}

\* The queues agree with p->on_rq: a task is queued if and only if its on_rq
\* flag is set, on a queue of its own class, a dummy task on exactly one list
\* and once, and rq->nr_running counts them all.  (enqueue, dequeue, requeue,
\* ageing and every change of class must keep the flag, the lists and the
\* counter together.)
QueuesMatchRunnable ==
    /\ Linked(rq.dummy) = InClass("dummy")
    /\ \A i, j \in Levels :
         i # j => Range(rq.dummy.queues[i]) \cap Range(rq.dummy.queues[j]) = {}
    /\ \A i \in Levels : IsInjective(rq.dummy.queues[i])
    /\ rq.cfs.on = InClass("fair")
    /\ rq.rt = InClass("rt")
    /\ rq.nr = Cardinality(on_rq)

\* core.c:1419: the current thread is always on the run queue.  A task that is
\* ready to run is never left off it, so no wake-up is lost, and nothing that
\* is asleep, dead or not yet started is on it except the current task on its
\* way out and tasks preempted on theirs.
NoLostTask ==
    /\ curr \in on_rq \cup {Idle}
    /\ \A p \in Tasks : /\ state[p] = "RUNNING" => p \in on_rq \cup newborn
                        /\ state[p] = "FREE"    => p \notin on_rq
                        /\ state[p] = "DEAD"    => p = curr
    /\ newborn \cap on_rq = {}

\* Ageing only ever moves a task up: it is never on a list below the one of
\* its own priority.
NeverBelowBase ==
    \A i \in Levels : \A p \in Range(rq.dummy.queues[i]) :
        Level(prio[p]) \in Levels /\ i <= Level(prio[p])

\* When a task of a better class is queued than the one that is running, the
\* running task is flagged, so it gives up the CPU at the next opportunity;
\* the idle task is flagged whenever anything is queued.
ClassPreemption ==
    \A p \in on_rq : Outranks(sched_class[p], sched_class[curr])
                        => curr \in need_resched

\* rq->nr_uninterruptible, which feeds the load average, is the number of
\* tasks in uninterruptible sleep.
LoadCountExact ==
    nr_uninterruptible =
        Cardinality({p \in Tasks \ on_rq : state[p] = "UNINTERRUPTIBLE"})

\* Whatever is on the cfs_rq is in the tree or is cfs_rq->curr, never both, so
\* pick_next_entity finds every runnable fair task (enqueue_entity leaves curr
\* out of the tree, put_prev_entity puts it back).
FairTreeComplete ==
    /\ rq.cfs.on \subseteq rq.cfs.tree \cup {rq.cfs.curr}
    /\ rq.cfs.tree \subseteq rq.cfs.on \ {rq.cfs.curr}

\* kernel/sched/sched.h:219: cfs_rq->curr points to the running entity of the
\* cfs_rq, and is NULL when none of its entities is running.
CfsCurrIsRunning ==
    rq.cfs.curr = IF sched_class[curr] = "fair" THEN curr ELSE None

\* While set_user_nice does not take a running task out of its class, the tree and
\* cfs_rq->curr together hold exactly the fair tasks and curr is the one that
\* runs (rt_mutex_setprio and sched_setscheduler put the task back first).
FairClassExact == FairTreeComplete /\ CfsCurrIsRunning

\* dummy.c:2: the class is mapped to the last levels of SCHED_NORMAL: every task
\* of the class has one of those priorities.
DummyPrioInRange ==
    \A p \in Tasks : Exists(p) /\ sched_class[p] = "dummy" => Level(prio[p]) \in Levels

\* tests/test1/README:1: no ageing takes place among tasks of one priority that
\* share the CPU by round robin: each is on the list of its priority.
NoAgeing ==
    \A i \in Levels : \A p \in Range(rq.dummy.queues[i]) : i = Level(prio[p])

\* While a task waits on a list that ages, its counter stays within one of the
\* largest threshold ever set, so the unsigned counter never wraps to 0 and
\* cancels the wait (the test is >, not ==, and runs before the increment).
AgeBounded ==
    \A p \in Waiting(rq.dummy), m \in Thresholds :
        (\A t \in Thresholds : t <= m) => rq.dummy.age[p] <= m + 1

Before(d, i, p, q) ==
    \E m, n \in DOMAIN d.queues[i] : m < n /\ d.queues[i][m] = p /\ d.queues[i][n] = q

\* While no priority changes, a task that is not running keeps its place: nobody
\* gets ahead of it on its list, it never moves down, and moves up one list at a
\* time (list_add_tail everywhere, and the ascending scan of task_tick_dummy).
ListOrder ==
    [][UNCHANGED attrs =>
         \A p \in Tasks \ {curr} : \A i, j \in Levels :
           (p \in Range(rq.dummy.queues[i]) /\ p \in Range(rq'.dummy.queues[j])) =>
             /\ j \in {i, i - 1}
             /\ j = i => \A q \in Tasks : Before(rq'.dummy, i, q, p)
                                           => Before(rq.dummy, i, q, p)]_vars

\* tests/test3/README: a task that yields gives way when a dummy task of at
\* least its own importance is ready, unless the pass itself faults.
YieldGivesWay ==
    [][(sched_yield /\ ~oops' /\ sched_class[curr] = "dummy"
        /\ \E i \in Levels : /\ i <= Level(prio[curr])
                             /\ Range(rq.dummy.queues[i]) \ {curr} # {})
       => curr' # curr]_vars

\* tests/test5/README:5: "You shouldn't have the situation where B is executing
\* while A is awake": waking a more important dummy task flags the running one.
WakeupPreempts ==
    [][\A p \in Tasks :
         (/\ try_to_wake_up(p)
          /\ sched_class[p] = "dummy" /\ sched_class[curr] = "dummy"
          /\ prio[p] < prio[curr])
         => curr \in need_resched']_vars

-----------------------------------------------------------------------------
(***************************************************************************)
(* Fairness: the timer interrupt keeps coming, a flagged task gets to a    *)
(* point where it looks at its flag, a dying task makes its last call of   *)
(* schedule, and the idle loop looks at its flag.                          *)
(***************************************************************************)
Fairness ==
    /\ WF_vars(scheduler_tick)
    /\ WF_vars(cond_resched)
    /\ WF_vars((curr = Idle \/ state[curr] = "DEAD") /\ schedule)

FairSpec == Spec /\ Fairness

\* Ageing prevents starvation: a dummy task that is ready gets the CPU, however
\* long more important tasks stay ready and whenever they sleep, wake and yield.
NoStarvation ==
    \A p \in Tasks : (sched_class[p] = "dummy" /\ p \in on_rq /\ ~oops) ~> (curr = p)

=============================================================================
