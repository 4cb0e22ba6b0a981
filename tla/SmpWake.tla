------------------------------- MODULE SmpWake -------------------------------
(***************************************************************************)
(* Waking, placing and migrating tasks on a multiprocessor                 *)
(* (kernel/sched/core.c, CONFIG_SMP): try_to_wake_up with its lockless     *)
(* wait for ->on_cpu and its remote wake lists, schedule() and the end of  *)
(* the context switch, set_cpus_allowed_ptr with the stopper threads, and  *)
(* the CPU hotplug notifiers.                                              *)
(*                                                                         *)
(* What runs under one rq->lock is one step, except schedule(), whose lock *)
(* is held from the choice of the next task to the end of the switch.      *)
(* p->pi_lock is held by a CPU that is inside try_to_wake_up; that CPU has *)
(* its interrupts off, so it neither schedules nor takes an IPI.           *)
(***************************************************************************)
EXTENDS Integers, FiniteSets, FiniteSetsExt

CONSTANTS
    SwTasks, SwCpus,
    Cache,      \* CPU -> the cache it shares (sd_llc_id)
    Setters,    \* callers of sched_setaffinity
    Masks,      \* task -> the CPU masks they ask for
    SleepState, \* task -> the state in which it sleeps
    Boot,       \* the CPU every task starts on
    FirstMask,  \* task -> its first CPU mask
    Hotplug,    \* the CPUs that may be taken down
    Idle, Stop, \* the idle task and the stopper of a CPU
    Word        \* unsigned long counts modulo Word

ASSUME SmpWakeAssumption ==
    /\ Hotplug \subseteq SwCpus /\ Boot \in SwCpus
    /\ FirstMask \in [SwTasks -> SUBSET SwCpus] /\ \A t \in SwTasks : Boot \in FirstMask[t]
    /\ Masks \in [SwTasks -> SUBSET ((SUBSET SwCpus) \ {{}})]
    /\ SleepState \in [SwTasks -> {"interruptible", "uninterruptible"}]
    /\ {Idle, Stop, "nobody", "none"} \cap SwTasks = {} /\ Idle # Stop
    /\ {"nobody", "ready", "asleep"} \cap SwCpus = {}
    /\ IsFiniteSet(SwTasks)
    /\ Word \in Nat \ {0} /\ Word > Cardinality({t \in SwTasks : SleepState[t] = "uninterruptible"})

VARIABLES
    task,    \* task -> its fields, and where it is in its own code
    cpu,     \* CPU -> rq->curr and what the CPU is executing
    rq,      \* CPU -> the tasks enqueued on its run queue
    wakeList,\* CPU -> the tasks on rq->wake_list
    setter,  \* caller of sched_setaffinity -> its state
    online, active, hot  \* cpu masks, and the CPU that is being taken down

swVars == <<task, cpu, rq, wakeList, setter, online, active, hot>>

Nobody == "nobody"

SwInit ==
    /\ task = [t \in SwTasks |->
                 [state |-> "running", on_rq |-> TRUE, on_cpu |-> FALSE, cpu |-> Boot,
                  allowed |-> FirstMask[t], load |-> FALSE, late |-> FALSE,
                  event |-> FALSE, code |-> "work"]]
    /\ rq = [c \in SwCpus |-> IF c = Boot THEN SwTasks ELSE {}]
    /\ cpu = [c \in SwCpus |->
                [pc |-> "run", curr |-> Idle, prev |-> Idle, need |-> rq[c] # {},
                 p |-> Nobody, ipi |-> FALSE, uninterruptible |-> 0]]
    /\ wakeList = [c \in SwCpus |-> {}]
    /\ setter = [s \in Setters |-> [p |-> Nobody]]
    /\ online = SwCpus /\ active = SwCpus /\ hot = Nobody

-----------------------------------------------------------------------------
Runs(c) == c \in online /\ cpu[c].pc = "run"
RqFree(c) == cpu[c].pc # "switch"                       \* rq->lock
PiFree(p) == \A c \in SwCpus : cpu[c].pc \in {"run", "switch", "lock"} \/ cpu[c].p # p

\* Work for the stopper of c: a migration, or stop_machine of a CPU going down.
StopWanted(c) ==
    \/ hot # Nobody
    \/ \E s \in Setters : setter[s].p # Nobody /\ setter[s].src = c

\* enqueue_task and check_preempt_curr: the idle task always gives way.
Noticed(cc, c) == [cc EXCEPT ![c].need = @ \/ cc[c].curr = Idle]

\* Mutant: the load the task contributed where it slept is not taken back.
ActivateKeepsLoad(t, c, cc) ==
    /\ task' = [task EXCEPT ![t].on_rq = TRUE, ![t].state = "running", ![t].load = FALSE]
    /\ rq' = [rq EXCEPT ![c] = @ \cup {t}]
    /\ cpu' = Noticed(cc, c)

\* ttwu_do_activate: enqueue, and take back the load the task contributed.
ttwu_do_activate(t, c, cc) ==
    /\ task' = [task EXCEPT ![t].on_rq = TRUE, ![t].state = "running", ![t].load = FALSE]
    /\ rq' = [rq EXCEPT ![c] = @ \cup {t}]
    /\ cpu' = Noticed([cc EXCEPT ![c].uninterruptible =
                                     IF task[t].load THEN (@ - 1) % Word ELSE @], c)

Done(c) == [cpu EXCEPT ![c].pc = "run", ![c].p = Nobody]

-----------------------------------------------------------------------------
(* A task's own code: announce the sleep, look for the event, schedule.    *)

Current(t, c) == Runs(c) /\ cpu[c].curr = t

set_current_state(t, c) ==
    /\ Current(t, c) /\ task[t].code = "work"
    /\ task' = [task EXCEPT ![t].state = SleepState[t], ![t].code = "look"]
    /\ UNCHANGED <<cpu, rq, wakeList, setter, online, active, hot>>

look(t, c) ==
    /\ Current(t, c) /\ task[t].code = "look"
    /\ task' = IF task[t].event
               THEN [task EXCEPT ![t].state = "running", ![t].event = FALSE, ![t].code = "work"]
               ELSE [task EXCEPT ![t].code = "sleep"]
    /\ UNCHANGED <<cpu, rq, wakeList, setter, online, active, hot>>

\* pick_next_task: the stopper, then the tasks, then the idle task.
Pick(c, q) == IF StopWanted(c) THEN {Stop} ELSE IF q # {} THEN q ELSE {Idle}

\* __schedule(): a task that announced a sleep is taken off the queue, unless
\* it is being preempted.  rq->lock is kept until finish_lock_switch.
__schedule(c, preempt) ==
    LET prev == cpu[c].curr
        sleeps == prev \in SwTasks /\ ~preempt /\ task[prev].state # "running"
        q == IF sleeps THEN rq[c] \ {prev} ELSE rq[c]
    IN  \E next \in Pick(c, q) :
          /\ rq' = [rq EXCEPT ![c] = q]
          /\ task' = [t \in SwTasks |->
                        [task[t] EXCEPT !.on_rq = @ /\ ~(sleeps /\ t = prev),
                                        !.on_cpu = @ \/ t = next,
                                        !.code = IF t = prev /\ ~preempt THEN "work" ELSE @]]
          /\ cpu' = [cpu EXCEPT ![c].curr = next, ![c].prev = prev, ![c].need = FALSE,
                                ![c].pc = IF next = prev THEN "run" ELSE "switch",
                                ![c].uninterruptible =
                                    IF sleeps /\ task[prev].state = "uninterruptible"
                                    THEN (@ + 1) % Word ELSE @]
          /\ UNCHANGED <<wakeList, setter, online, active, hot>>

schedule(t, c) == Current(t, c) /\ task[t].code = "sleep" /\ __schedule(c, FALSE)

preempt_schedule(t, c) ==
    Current(t, c) /\ (StopWanted(c) \/ rq[c] # {t}) /\ __schedule(c, TRUE)

\* The idle loop and the stopper thread.
cpu_idle(c) ==
    /\ Runs(c)
    /\ \/ cpu[c].curr = Idle /\ (cpu[c].need \/ StopWanted(c))
       \/ cpu[c].curr = Stop /\ ~StopWanted(c)
    /\ __schedule(c, FALSE)

\* finish_lock_switch: from here on prev may be moved to another CPU.
finish_lock_switch(c) ==
    /\ cpu[c].pc = "switch"
    /\ cpu' = [cpu EXCEPT ![c].pc = "run", ![c].prev = Idle]
    /\ task' = [t \in SwTasks |-> [task[t] EXCEPT !.on_cpu = @ /\ t # cpu[c].prev]]
    /\ UNCHANGED <<rq, wakeList, setter, online, active, hot>>

-----------------------------------------------------------------------------
(* try_to_wake_up, by whatever runs on CPU c.                              *)

\* The event is posted, then try_to_wake_up is called.
wake_up(c, p) ==
    /\ Runs(c) /\ cpu[c].curr # Stop
    /\ task' = [task EXCEPT ![p].event = TRUE]
    /\ cpu' = [cpu EXCEPT ![c].pc = "lock", ![c].p = p]
    /\ UNCHANGED <<rq, wakeList, setter, online, active, hot>>

\* Take p->pi_lock; a task that is running or already being woken is left.
\* p->on_rq is read without the run queue's lock.
try_to_wake_up(c) ==
    LET p == cpu[c].p IN
    /\ cpu[c].pc = "lock" /\ PiFree(p)
    /\ cpu' = IF task[p].state \in {"interruptible", "uninterruptible"}
              THEN [cpu EXCEPT ![c].pc = IF task[p].on_rq THEN "remote" ELSE "on_cpu"]
              ELSE Done(c)
    /\ UNCHANGED <<task, rq, wakeList, setter, online, active, hot>>

\* Still queued: flip its state.
ttwu_remote(c) ==
    LET p == cpu[c].p IN
    /\ cpu[c].pc = "remote" /\ RqFree(task[p].cpu)
    /\ IF task[p].on_rq
       THEN /\ task' = [task EXCEPT ![p].state = "running"]
            /\ cpu' = Done(c)
       ELSE cpu' = [cpu EXCEPT ![c].pc = "on_cpu"] /\ UNCHANGED task
    /\ UNCHANGED <<rq, wakeList, setter, online, active, hot>>

\* select_fallback_rq: an active CPU it may use, or else every CPU is allowed.
select_fallback_rq(p) ==
    IF task[p].allowed \cap active # {}
    THEN [cpus |-> task[p].allowed \cap active, mask |-> task[p].allowed]
    ELSE [cpus |-> active, mask |-> SwCpus]

\* select_task_rq: the class's choice, if it is allowed and online.
select_task_rq(p) ==
    LET good == task[p].allowed \cap online IN
    IF good = {} \/ task[p].cpu \notin good
    THEN [cpus |-> good \cup select_fallback_rq(p).cpus, mask |-> select_fallback_rq(p).mask]
    ELSE [cpus |-> good, mask |-> task[p].allowed]

\* Mutant: the task is placed while its old CPU still runs on its stack.
SelectAtOnce(c) ==
    LET p == cpu[c].p IN
    /\ cpu[c].pc = "on_cpu"
    /\ \E d \in select_task_rq(p).cpus :
         task' = [task EXCEPT ![p].load = task[p].state = "uninterruptible",
                              ![p].state = "waking", ![p].late = FALSE, ![p].cpu = d,
                              ![p].allowed = select_task_rq(p).mask]
    /\ cpu' = [cpu EXCEPT ![c].pc = "queue"]
    /\ UNCHANGED <<rq, wakeList, setter, online, active, hot>>

\* Wait until p's old CPU has switched away from it, then place it.
ttwu_select(c) ==
    LET p == cpu[c].p IN
    /\ cpu[c].pc = "on_cpu" /\ ~task[p].on_cpu
    /\ \E d \in select_task_rq(p).cpus :
         task' = [task EXCEPT ![p].load = task[p].state = "uninterruptible",
                              ![p].state = "waking", ![p].late = FALSE, ![p].cpu = d,
                              ![p].allowed = select_task_rq(p).mask]
    /\ cpu' = [cpu EXCEPT ![c].pc = "queue"]
    /\ UNCHANGED <<rq, wakeList, setter, online, active, hot>>

\* Mutant: an interrupt for every task but the first.
QueueLateIpi(c) ==
    LET p == cpu[c].p
        d == task[p].cpu
    IN  /\ cpu[c].pc = "queue"
        /\ IF Cache[c] # Cache[d]
           THEN /\ wakeList' = [wakeList EXCEPT ![d] = @ \cup {p}]
                /\ cpu' = [Done(c) EXCEPT ![d].ipi = @ \/ wakeList[d] # {}]
                /\ UNCHANGED <<task, rq>>
           ELSE RqFree(d) /\ ttwu_do_activate(p, d, Done(c)) /\ UNCHANGED wakeList
        /\ UNCHANGED <<setter, online, active, hot>>

\* ttwu_queue: a CPU of another cache activates the task itself; the first task
\* on its list is worth an interrupt.
ttwu_queue(c) ==
    LET p == cpu[c].p
        d == task[p].cpu
    IN  /\ cpu[c].pc = "queue"
        /\ IF Cache[c] # Cache[d]
           THEN /\ wakeList' = [wakeList EXCEPT ![d] = @ \cup {p}]
                /\ cpu' = [Done(c) EXCEPT ![d].ipi = @ \/ wakeList[d] = {}]
                /\ UNCHANGED <<task, rq>>
           ELSE RqFree(d) /\ ttwu_do_activate(p, d, Done(c)) /\ UNCHANGED wakeList
        /\ UNCHANGED <<setter, online, active, hot>>

Ttwu(c) ==
    \/ try_to_wake_up(c) \/ ttwu_remote(c)
    \/ ttwu_select(c) \/ ttwu_queue(c)

\* What activating every task on c's wake list leaves (sched_ttwu_pending).
Activated(c) ==
    [task |-> [t \in SwTasks |->
                 IF t \in wakeList[c]
                 THEN [task[t] EXCEPT !.on_rq = TRUE, !.state = "running", !.load = FALSE]
                 ELSE task[t]],
     load |-> Cardinality({t \in wakeList[c] : task[t].load}),
     rq |-> rq[c] \cup wakeList[c]]

\* Mutant: the interrupt is for an idle CPU only.
IpiOnlyIdle(c) ==
    /\ Runs(c) /\ cpu[c].ipi /\ cpu[c].curr = Idle
    /\ task' = Activated(c).task
    /\ rq' = [rq EXCEPT ![c] = Activated(c).rq]
    /\ wakeList' = [wakeList EXCEPT ![c] = {}]
    /\ cpu' = [cpu EXCEPT ![c].ipi = FALSE, ![c].need = @ \/ wakeList[c] # {},
                          ![c].uninterruptible = (@ - Activated(c).load) % Word]
    /\ UNCHANGED <<setter, online, active, hot>>

\* The reschedule interrupt: activate all that is on the wake list.
scheduler_ipi(c) ==
    /\ Runs(c) /\ cpu[c].ipi
    /\ task' = Activated(c).task
    /\ rq' = [rq EXCEPT ![c] = Activated(c).rq]
    /\ wakeList' = [wakeList EXCEPT ![c] = {}]
    /\ cpu' = [cpu EXCEPT ![c].ipi = FALSE, ![c].need = @ \/ (cpu[c].curr = Idle /\ wakeList[c] # {}),
                          ![c].uninterruptible = (@ - Activated(c).load) % Word]
    /\ UNCHANGED <<setter, online, active, hot>>

-----------------------------------------------------------------------------
(* set_cpus_allowed_ptr, called with CPU hotplug locked out.               *)

set_cpus_allowed_ptr(s, p, mask) ==
    /\ setter[s].p = Nobody /\ hot = Nobody
    /\ PiFree(p) /\ RqFree(task[p].cpu)
    /\ mask # task[p].allowed /\ mask \cap active # {}
    /\ task' = [task EXCEPT ![p].allowed = mask,
                            ![p].late = task[p].state = "waking" /\ task[p].cpu \notin mask]
    /\ IF task[p].cpu \in mask \/ ~task[p].on_rq
       THEN UNCHANGED setter
       ELSE \E d \in mask \cap active :
              setter' = [setter EXCEPT ![s] = [p |-> p, dest |-> d, src |-> task[p].cpu]]
    /\ UNCHANGED <<cpu, rq, wakeList, online, active, hot>>

\* The stopper of the task's CPU moves it, if it is still there and still may
\* not stay (__migrate_task).
migration_cpu_stop(c) ==
    /\ Runs(c) /\ cpu[c].curr = Stop
    /\ \E s \in Setters :
         LET p == setter[s].p
             d == setter[s].dest
         IN  /\ p # Nobody /\ setter[s].src = c
             /\ PiFree(p) /\ RqFree(d)
             /\ IF task[p].cpu = c /\ d \in task[p].allowed /\ d \in active /\ task[p].on_rq
                THEN /\ rq' = [rq EXCEPT ![c] = @ \ {p}, ![d] = @ \cup {p}]
                     /\ task' = [task EXCEPT ![p].cpu = d]
                     /\ cpu' = Noticed(cpu, d)
                ELSE UNCHANGED <<rq, task, cpu>>
             /\ setter' = [setter EXCEPT ![s] = [p |-> Nobody]]
    /\ UNCHANGED <<wakeList, online, active, hot>>

-----------------------------------------------------------------------------
(* CPU hotplug.                                                            *)

\* CPU_DOWN_PREPARE; then stop_machine waits for every CPU's stopper.
sched_cpu_inactive(c) ==
    /\ hot = Nobody /\ \A s \in Setters : setter[s].p = Nobody
    /\ c \in active /\ active # {c}
    /\ active' = active \ {c} /\ hot' = c
    /\ UNCHANGED <<task, cpu, rq, wakeList, setter, online>>

\* CPU_DOWN_FAILED.
sched_cpu_active(c) ==
    /\ hot = c
    /\ active' = active \cup {c} /\ hot' = Nobody
    /\ UNCHANGED <<task, cpu, rq, wakeList, setter, online>>

\* CPU_DYING, inside stop_machine: activate what is on the wake list, then send
\* every task of the queue to a CPU that select_fallback_rq finds
\* (migrate_tasks).
migration_call_dying(c) ==
    LET left == Activated(c).rq
        fb(t) == select_fallback_rq(t)
    IN  /\ hot = c /\ \A d \in online : cpu[d].curr = Stop /\ cpu[d].pc = "run"
        /\ online' = online \ {c}
        /\ \E dest \in [left -> active] :
             /\ \A t \in left : dest[t] \in fb(t).cpus
             /\ task' = [t \in SwTasks |->
                           IF t \in left
                           THEN [Activated(c).task[t] EXCEPT !.cpu = dest[t], !.allowed = fb(t).mask,
                                                             !.late = FALSE]
                           ELSE task[t]]
             /\ rq' = [d \in SwCpus |-> IF d = c THEN {}
                                        ELSE rq[d] \cup {t \in left : dest[t] = d}]
        /\ wakeList' = [wakeList EXCEPT ![c] = {}]
        /\ cpu' = [cpu EXCEPT ![c].curr = Idle, ![c].ipi = FALSE, ![c].need = FALSE,
                              ![c].uninterruptible = (@ - Activated(c).load) % Word]
        /\ hot' = Nobody
        /\ UNCHANGED <<setter, active>>

\* CPU_STARTING and CPU_ONLINE.
migration_call_online(c) ==
    /\ hot = Nobody /\ c \notin online
    /\ \A s \in Setters : setter[s].p = Nobody
    /\ online' = online \cup {c} /\ active' = active \cup {c}
    /\ UNCHANGED <<task, cpu, rq, wakeList, setter, hot>>

-----------------------------------------------------------------------------
SwCpu(c) ==
    \/ \E t \in SwTasks :
         set_current_state(t, c) \/ look(t, c) \/ schedule(t, c) \/ preempt_schedule(t, c)
    \/ cpu_idle(c) \/ finish_lock_switch(c) \/ Ttwu(c)
    \/ scheduler_ipi(c) \/ migration_cpu_stop(c)

SwWakeUp(c) == \E t \in SwTasks : wake_up(c, t)

SwAffinity ==
    \E s \in Setters, p \in SwTasks : \E mask \in Masks[p] : set_cpus_allowed_ptr(s, p, mask)

SwHotplug ==
    \E c \in Hotplug :
        \/ sched_cpu_inactive(c) \/ sched_cpu_active(c)
        \/ migration_call_dying(c) \/ migration_call_online(c)

SwNext == (\E c \in SwCpus : SwCpu(c) \/ SwWakeUp(c)) \/ SwAffinity \/ SwHotplug

\* A CPU finishes the switch it is in; spinlocks are fair, and a pending
\* interrupt is taken once the CPU has interrupts on.
SwFairness ==
    \A c \in SwCpus :
        /\ WF_swVars(finish_lock_switch(c))
        /\ SF_swVars(Ttwu(c))
        /\ SF_swVars(scheduler_ipi(c))

SwSpec == SwInit /\ [][SwNext]_swVars /\ SwFairness

-----------------------------------------------------------------------------
SwTypeOK ==
    /\ \A t \in SwTasks :
         /\ task[t].state \in {"running", "interruptible", "uninterruptible", "waking"}
         /\ task[t].code \in {"work", "look", "sleep"}
         /\ task[t].cpu \in SwCpus /\ task[t].allowed \in (SUBSET SwCpus) \ {{}}
    /\ \A c \in SwCpus :
         /\ cpu[c].curr \in SwTasks \cup {Idle, Stop}
         /\ cpu[c].pc \in {"run", "switch", "lock", "remote", "on_cpu", "queue"}
    /\ active \subseteq SwCpus /\ online \subseteq SwCpus /\ active # {}

\* A task is enqueued where its on_rq and its task_cpu say, and nowhere else.
QueuedOnce ==
    \A t \in SwTasks, c \in SwCpus :
        t \in rq[c] <=> task[t].on_rq /\ task[t].cpu = c

\* No task runs on two CPUs, nor on one while another still switches away from
\* it: what the wait for ->on_cpu in try_to_wake_up is for.
RunsOnce ==
    \A t \in SwTasks :
        Cardinality({c \in SwCpus : cpu[c].curr = t \/ (cpu[c].pc = "switch" /\ cpu[c].prev = t)})
            = IF task[t].on_cpu THEN 1 ELSE 0

\* A posted event finds a sleeping task only while its wake-up is under way: a
\* CPU is inside try_to_wake_up for it, or it is on the wake list of a CPU that
\* has been sent an interrupt.
WakeupUnderWay ==
    \A t \in SwTasks :
        task[t].event /\ ~task[t].on_rq =>
            \/ \E c \in SwCpus : cpu[c].p = t
            \/ \E c \in online : t \in wakeList[c] /\ cpu[c].ipi

\* An idle CPU with a task on its queue has been told to reschedule.
IdleIsTold ==
    \A c \in online : Runs(c) /\ cpu[c].curr = Idle /\ rq[c] # {} => cpu[c].need

\* Over all CPUs, nr_uninterruptible counts the tasks in uninterruptible sleep,
\* including those whose wake-up is on its way, although a task is counted on
\* the CPU it slept on and discounted on the CPU it wakes on.
UninterruptibleExact ==
    MapThenSumSet(LAMBDA c : cpu[c].uninterruptible, SwCpus) % Word =
        Cardinality({t \in SwTasks : ~task[t].on_rq /\
                        (task[t].state = "uninterruptible" \/ task[t].load)})

\* Nothing is left on a CPU that is offline.
DeadCpuEmpty ==
    \A c \in SwCpus \ online : rq[c] = {} /\ wakeList[c] = {} /\ cpu[c].curr = Idle

\* A task is queued on a CPU it may not use only while the call that forbade it
\* still waits for the migration; a task whose mask changed while it was being
\* woken is the exception.
AffinityUnlessWaking ==
    \A t \in SwTasks :
        task[t].on_rq /\ task[t].cpu \notin task[t].allowed =>
            task[t].late \/ \E s \in Setters : setter[s].p = t

\* The multiprocessor scheduler implements TaskLife.
Where(t) ==
    IF \E c \in SwCpus : cpu[c].curr = t THEN CHOOSE c \in SwCpus : cpu[c].curr = t
    ELSE IF task[t].on_rq THEN "ready" ELSE "asleep"

Life == INSTANCE TaskLife WITH
            Tasks <- SwTasks, Cpus <- SwCpus,
            where <- [t \in SwTasks |-> Where(t)],
            event <- [t \in SwTasks |-> task[t].event]

\* Every step of the queues, locks and interrupts is a step of a task's life,
\* and a sleeping task for which an event was posted is woken.
ImplementsTaskLife == Life!Spec

\* Every task is queued where its fields say, runs on one CPU at most, is not left
\* on a CPU that is down and not kept on one it may no longer use: the wait for
\* ->on_cpu, the stopper and CPU hotplug agree on where a task is (core.c:1448,
\* 4779, 5128).
PlacedOnce ==
    /\ SwTypeOK
    /\ QueuedOnce
    /\ RunsOnce
    /\ DeadCpuEmpty
    /\ AffinityUnlessWaking

\* A wake-up that has begun reaches its task: it is inside try_to_wake_up or on the
\* wake list of a CPU that will look there, and an idle CPU that was given a task
\* is told (core.c:1384, 1353).
WakeupsArrive == WakeupUnderWay /\ IdleIsTold

=============================================================================
