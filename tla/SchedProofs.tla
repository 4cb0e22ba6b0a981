----------------------------- MODULE SchedProofs -----------------------------
(***************************************************************************)
(* The safety properties of Sched, for every set of tasks, every number of *)
(* lists and every value of the tunables: each follows from IInv, which    *)
(* every step keeps.                                                       *)
(***************************************************************************)
EXTENDS SchedInv

-----------------------------------------------------------------------------
(***************************************************************************)
(* The other steps                                                         *)
(***************************************************************************)

LEMMA ForkStep ==
  ASSUME IInv, NEW p \in Tasks, sched_fork(p)
  PROVE  IInv'
<1> USE RunQueueAssumption
<1> DEFINE reset == curr \in reset_on_fork
           wasrt == policy[curr] = "FIFO"
           pol   == IF reset /\ wasrt THEN "NORMAL" ELSE policy[curr]
           stat  == IF reset /\ (wasrt \/ static_prio[curr] < DEFAULT_PRIO)
                    THEN DEFAULT_PRIO ELSE static_prio[curr]
           pr    == IF reset THEN stat ELSE NormalPrio(curr)
           class == IF rt_prio(pr) THEN sched_class[curr] ELSE ClassOf(pr)
           rtp   == IF reset /\ wasrt THEN 0 ELSE rt_priority[curr]
<1>1. /\ InTask /\ state[p] = "FREE"
      /\ state' = [state EXCEPT ![p] = "RUNNING"]
      /\ newborn' = newborn \cup {p}
      /\ policy' = [policy EXCEPT ![p] = pol]
      /\ static_prio' = [static_prio EXCEPT ![p] = stat]
      /\ rt_priority' = [rt_priority EXCEPT ![p] = rtp]
      /\ prio' = [prio EXCEPT ![p] = pr]
      /\ sched_class' = [sched_class EXCEPT ![p] = class]
      /\ reset_on_fork' = reset_on_fork \ {p}
      /\ UNCHANGED <<on_rq, nr_uninterruptible, timeslice, age_threshold, curr,
                     looping, rq, oops>>
  BY Zenon DEF sched_fork, sysctl
<1>2. /\ need_resched \ {p} \subseteq need_resched'
      /\ need_resched' \subseteq need_resched \cup {curr}
  <2>1. PICK first \in BOOLEAN :
          need_resched' = (need_resched \ {p}) \cup (IF first THEN {curr} ELSE {})
    BY Zenon DEF sched_fork
  <2> QED BY Zenon, <2>1
<1>3. /\ TypeOK /\ AttrOK /\ NoLostTask /\ ClassPreemption
      /\ state[Idle] = "RUNNING" /\ curr \in Tasks /\ curr \in on_rq /\ p \notin on_rq
      /\ p # curr /\ p # Idle /\ p \in All /\ curr \in All /\ Idle \in All
      /\ nr_uninterruptible = Cardinality(Sleepers)
      /\ RqOK(rq, on_rq, sched_class, prio)
  BY <1>1, Zenon DEF IInv, NoLostTask, InTask, All
<1>4. /\ stat \in MAX_RT_PRIO .. MAX_PRIO - 1 /\ rtp \in Nat
      /\ pol \in {"NORMAL", "BATCH", "FIFO"}
  BY <1>3, SchedAssumption, Zenon DEF TypeOK
<1>5. /\ NormalPrio(curr) \in 0 .. MAX_PRIO - 1
      /\ rt_prio(NormalPrio(curr)) <=> policy[curr] = "FIFO"
  <2>1. /\ rt_priority[curr] \in Nat
        /\ static_prio[curr] \in MAX_RT_PRIO .. MAX_PRIO - 1
        /\ policy[curr] = "FIFO" => rt_priority[curr] \in 1 .. MAX_RT_PRIO - 1
    BY <1>3, Zenon DEF TypeOK, AttrOK
  <2> QED BY <2>1, NormalPrioType, Zenon DEF NormalPrio
<1>6. /\ pr \in 0 .. MAX_PRIO - 1
      /\ rt_prio(pr) <=> pol = "FIFO"
  <2>1. stat \in 0 .. MAX_PRIO - 1 /\ ~rt_prio(stat)
    BY <1>4, DummyRqAssumption DEF rt_prio, MAX_PRIO
  <2> HIDE DEF stat
  <2> QED BY Zenon, <1>5, <2>1
<1>7. /\ class \in {"rt", "fair", "dummy"}
      /\ class = "rt" <=> rt_prio(pr)
      /\ class = "fair" => ~dummy_prio(pr)
      /\ pol = "FIFO" => rtp \in 1 .. MAX_RT_PRIO - 1
  <2>1. pol = "FIFO" => /\ policy[curr] = "FIFO" /\ sched_class[curr] = "rt"
                        /\ rt_priority[curr] \in 1 .. MAX_RT_PRIO - 1
                        /\ rtp = rt_priority[curr]
    BY <1>3, Zenon DEF AttrOK
  <2>2. dummy_prio(pr) => ~rt_prio(pr)
    BY <1>6, DummyRqAssumption DEF dummy_prio, rt_prio, MAX_PRIO
  <2> HIDE DEF pr, pol, rtp
  <2> QED BY <1>6, <2>1, <2>2, Zenon DEF ClassOf
<1> HIDE DEF reset, wasrt, pol, stat, pr, class, rtp
<1>8. TypeOK'
  <2>1. /\ state' \in [All -> States]
        /\ policy' \in [All -> {"NORMAL", "BATCH", "FIFO"}]
        /\ static_prio' \in [All -> MAX_RT_PRIO .. MAX_PRIO - 1]
    BY <1>1, <1>3, <1>4, Zenon DEF TypeOK, States
  <2>2. /\ rt_priority' \in [All -> Nat]
        /\ prio' \in [All -> 0 .. MAX_PRIO - 1]
        /\ sched_class' \in [All -> {"rt", "fair", "dummy", "idle"}]
    BY <1>1, <1>3, <1>4, <1>6, <1>7 DEF TypeOK
  <2>3. need_resched' \subseteq All
    BY <1>2, <1>3, Zenon DEF TypeOK
  <2> QED BY <1>1, <1>3, <2>1, <2>2, <2>3 DEF TypeOK
<1>9. /\ prio'[p] = pr /\ sched_class'[p] = class /\ policy'[p] = pol
      /\ rt_priority'[p] = rtp /\ state'[p] = "RUNNING"
      /\ \A q \in All : q # p => /\ prio'[q] = prio[q] /\ sched_class'[q] = sched_class[q]
                                 /\ policy'[q] = policy[q] /\ state'[q] = state[q]
                                 /\ rt_priority'[q] = rt_priority[q]
  BY <1>1, <1>3, Zenon DEF TypeOK
<1>10. \A q \in on_rq : q \in All /\ q # p
  BY <1>3, Zenon DEF TypeOK, All
<1>11. RqOK(rq, on_rq, sched_class, prio)'
  <2>1. RqOK(rq, on_rq, sched_class', prio')
    BY <1>3, <1>9, <1>10, RestRqOK
  <2> QED BY Zenon, <1>1, <2>1
<1>12. AttrOK'
  BY <1>3, <1>6, <1>7, <1>9 DEF AttrOK, All
<1>13. state'[Idle] = "RUNNING"
  BY Zenon, <1>3, <1>9
<1>14. NoLostTask'
  BY <1>1, <1>3, <1>9, <1>10 DEF NoLostTask, All
<1>15. ClassPreemption'
  BY <1>1, <1>2, <1>3, <1>9, <1>10, Zenon DEF ClassPreemption
<1>16. Sleepers' = Sleepers
  BY <1>1, <1>3, <1>9, Zenon DEF Sleepers, All
<1> QED BY <1>1, <1>3, <1>8, <1>11, <1>12, <1>13, <1>14, <1>15, <1>16 DEF IInv

LEMMA TickStep ==
  ASSUME IInv, scheduler_tick
  PROVE  IInv'
<1> USE RunQueueAssumption
<1>1. /\ TypeOK /\ AttrOK /\ NoLostTask /\ ClassPreemption
      /\ RqOK(rq, on_rq, sched_class, prio)
      /\ curr \in All
  BY Zenon DEF IInv, TypeOK
<1>2. /\ UNCHANGED <<prio, static_prio, policy, rt_priority, reset_on_fork, sched_class>>
      /\ UNCHANGED <<state, on_rq, newborn, nr_uninterruptible>>
      /\ UNCHANGED <<timeslice, age_threshold, curr, looping, oops>>
  BY Zenon DEF scheduler_tick, attrs, life, sysctl
<1>3. PICK F \in Ticked : need_resched' = need_resched \cup F
  BY Zenon DEF scheduler_tick
<1>4. F \subseteq All
  <2>1. Aged(rq.dummy, age_threshold) \subseteq Tasks
    <3>1. \A i \in Levels : Range(rq.dummy.queues[i]) \subseteq on_rq
      BY <1>1, Zenon DEF RqOK, DummyOK, Of
    <3> QED BY <1>1, <3>1 DEF Aged, Waiting, TypeOK
  <2> QED BY <1>1, <2>1, Zenon DEF Ticked, All
<1>5. RqOK(rq, on_rq, sched_class, prio)'
  <2>1. CASE sched_class[curr] = "dummy"
    <3>1. curr \in on_rq /\ timeslice \in 0..UINT_MAX
      BY <1>1, <2>1, Zenon DEF NoLostTask, AttrOK, TypeOK
    <3>2. rq' = [rq EXCEPT !.dummy = task_tick_dummy(@, curr, prio[curr],
                                                    timeslice, age_threshold)]
      BY <2>1, Zenon DEF scheduler_tick
    <3>3. RqOK([rq EXCEPT !.dummy = task_tick_dummy(@, curr, prio[curr],
                                                    timeslice, age_threshold)],
               on_rq, sched_class, prio)
      BY Zenon, <1>1, <2>1, <3>1, RunningDummyRqOK
    <3> QED BY Zenon, <1>2, <3>2, <3>3
  <2>2. CASE sched_class[curr] # "dummy"
    BY <1>1, <1>2, <2>2, Zenon DEF scheduler_tick
  <2> QED BY Zenon, <2>1, <2>2
<1>6. rq' \in RunQueues
  BY <1>5, Zenon DEF RqOK
<1>7. TypeOK'
  BY <1>1, <1>2, <1>3, <1>4, <1>6 DEF TypeOK
<1>8. AttrOK' /\ ClassPreemption'
  BY <1>1, <1>2, <1>3, Zenon DEF AttrOK, ClassPreemption
<1>9. /\ state'[Idle] = "RUNNING" /\ NoLostTask'
      /\ nr_uninterruptible' = Cardinality(Sleepers')
  BY Zenon, <1>2, QuietLife
<1> QED BY <1>5, <1>7, <1>8, <1>9, Zenon DEF IInv

LEMMA SwitchStep ==
  ASSUME IInv, Switch
  PROVE  IInv'
<1>1. /\ RqOK(rq, on_rq, sched_class, prio) /\ need_resched \in SUBSET All
      /\ NoLostTask /\ AttrOK /\ curr \in All /\ timeslice \in 0..UINT_MAX
  BY Zenon DEF IInv, TypeOK
<1>2. CASE schedule
  <2>1. __schedule(rq, need_resched, FALSE)
    BY Zenon, <1>2 DEF schedule
  <2> QED BY Zenon, <1>1, <2>1, ScheduleStep
<1>3. CASE cond_resched
  <2>1. __schedule(rq, need_resched, TRUE) /\ state[curr] # "DEAD"
    BY Zenon, <1>3 DEF cond_resched
  <2> QED BY Zenon, <1>1, <2>1, ScheduleStep
<1>4. CASE sched_yield
  <2>1. CASE sched_class[curr] # "dummy"
    <3>1. __schedule(rq, need_resched, FALSE)
      BY Zenon, <1>4, <2>1 DEF sched_yield
    <3> QED BY Zenon, <1>1, <3>1, ScheduleStep
  <2>2. CASE sched_class[curr] = "dummy"
    <3>1. curr \in on_rq
      BY <1>1, <2>2, Zenon DEF NoLostTask, AttrOK
    <3>2. RqOK(yield_task_dummy(rq, curr), on_rq, sched_class, prio)
      <4>1. RqOK([rq EXCEPT !.dummy = requeue_task_dummy(@, curr, prio[curr])],
                 on_rq, sched_class, prio)
        BY Zenon, <1>1, <2>2, <3>1, RunningDummyRqOK
      <4> QED BY <4>1, Zenon DEF yield_task_dummy
    <3>3. /\ __schedule(yield_task_dummy(rq, curr), need_resched \cup {curr}, FALSE)
          /\ need_resched \cup {curr} \in SUBSET All
      BY Zenon, <1>1, <1>4, <2>2 DEF sched_yield
    <3> QED BY Zenon, <3>2, <3>3, ScheduleStep
  <2> QED BY <2>1, <2>2
<1> QED BY <1>2, <1>3, <1>4, Zenon DEF Switch

LEMMA LifecycleStep ==
  ASSUME IInv, Lifecycle
  PROVE  IInv'
<1>1. NoLostTask /\ TypeOK
  BY Zenon DEF IInv
<1>2. InTask => curr \in on_rq
  BY <1>1, RunQueueAssumption, Zenon DEF InTask, NoLostTask
<1>3. CASE do_exit
  <2>1. /\ curr \in on_rq /\ state' = [state EXCEPT ![curr] = "DEAD"]
        /\ UNCHANGED <<attrs, on_rq, newborn, nr_uninterruptible, sysctl, curr,
                       looping, rq, oops>>
        /\ need_resched' = need_resched
    BY <1>2, <1>3, Zenon DEF do_exit
  <2>2. need_resched \subseteq need_resched' /\ need_resched' \subseteq All
    BY <1>1, <2>1, Zenon DEF TypeOK
  <2>3. "DEAD" \in States \ {"FREE"}
    BY Zenon DEF States
  <2> QED BY Zenon, <2>1, <2>2, <2>3, StateStep
<1>4. ASSUME NEW s \in {"RUNNING", "INTERRUPTIBLE", "UNINTERRUPTIBLE"}, set_current_state(s)
      PROVE  IInv'
  <2>1. /\ curr \in on_rq /\ state' = [state EXCEPT ![curr] = s]
        /\ UNCHANGED <<attrs, on_rq, newborn, nr_uninterruptible, sysctl, curr,
                       looping, rq, oops>>
        /\ need_resched' = need_resched
    BY <1>2, <1>4, Zenon DEF set_current_state
  <2>2. need_resched \subseteq need_resched' /\ need_resched' \subseteq All
    BY <1>1, <2>1, Zenon DEF TypeOK
  <2>3. s \in States \ {"FREE"} /\ s # "DEAD"
    BY Zenon DEF States
  <2> QED BY Zenon, <2>1, <2>2, <2>3, StateStep
<1>5. ASSUME NEW p \in Tasks, wake_up_new_task(p)
      PROVE  IInv'
  BY <1>1, <1>5, ActivateStep, Zenon DEF wake_up_new_task, NoLostTask
<1> QED BY <1>3, <1>4, <1>5, ForkStep DEF Lifecycle

LEMMA InterruptStep ==
  ASSUME IInv, Interrupt
  PROVE  IInv'
<1>1. NoLostTask /\ TypeOK
  BY Zenon DEF IInv
<1>2. ASSUME NEW p \in Tasks, try_to_wake_up(p)
      PROVE  IInv'
  <2>1. CASE p \notin on_rq
    BY <1>2, <2>1, ActivateStep, Zenon DEF try_to_wake_up
  <2>2. CASE p \in on_rq
    <3>1. /\ state' = [state EXCEPT ![p] = "RUNNING"]
          /\ UNCHANGED <<attrs, on_rq, newborn, nr_uninterruptible, sysctl, curr,
                         looping, rq, oops>>
      BY <1>2, <2>2, Zenon DEF try_to_wake_up, ttwu_remote
    <3>2. PICK F \in check_preempt_curr(sched_class, prio, p) :
            need_resched' = need_resched \cup F
      BY <1>2, <2>2, Zenon DEF try_to_wake_up, ttwu_remote
    <3>3. F \subseteq All
      <4>1. p \in All /\ curr \in All
        BY <1>1, Zenon DEF TypeOK, All
      <4> QED BY Zenon, <4>1, CheckPreempt
    <3>4. need_resched \subseteq need_resched' /\ need_resched' \subseteq All
      BY <1>1, <3>2, <3>3, Zenon DEF TypeOK
    <3>5. "RUNNING" \in States \ {"FREE"} /\ "RUNNING" # "DEAD"
      BY Zenon DEF States
    <3> QED BY Zenon, <2>2, <3>1, <3>4, <3>5, StateStep
  <2> QED BY Zenon, <2>1, <2>2
<1> QED BY <1>2, TickStep, Zenon DEF Interrupt

LEMMA SysctlStep ==
  ASSUME IInv, proc_dointvec
  PROVE  IInv'
<1>1. /\ UNCHANGED <<prio, static_prio, policy, rt_priority, reset_on_fork, sched_class>>
      /\ UNCHANGED <<state, on_rq, newborn, nr_uninterruptible>>
      /\ UNCHANGED <<need_resched, curr, looping, rq, oops>>
      /\ timeslice' \in 0..UINT_MAX /\ age_threshold' \in 0..UINT_MAX
  BY SchedAssumption DEF proc_dointvec, attrs, life
<1>2. TypeOK' /\ AttrOK' /\ ClassPreemption' /\ RqOK(rq, on_rq, sched_class, prio)'
  BY <1>1, Zenon DEF IInv, TypeOK, AttrOK, ClassPreemption
<1>3. /\ state'[Idle] = "RUNNING" /\ NoLostTask'
      /\ nr_uninterruptible' = Cardinality(Sleepers')
  BY Zenon, <1>1, QuietLife
<1> QED BY <1>2, <1>3 DEF IInv

-----------------------------------------------------------------------------
(***************************************************************************)
(* The theorems                                                            *)
(***************************************************************************)

\* Every step of the scheduler keeps the inductive invariant.
LEMMA NextIInv ==
  ASSUME IInv, [Next]_vars
  PROVE  IInv'
<1>1. CASE UNCHANGED vars
  BY <1>1, Zenon DEF vars, attrs, life, sysctl, IInv, TypeOK, AttrOK, NoLostTask,
              ClassPreemption, Sleepers
<1>2. CASE Priority
  BY <1>2, SetUserNiceStep, RtMutexStep, SetSchedulerStep DEF Priority
<1>3. CASE Next
  BY <1>1, <1>2, <1>3, InterruptStep, SwitchStep, LifecycleStep, SysctlStep DEF Next, Crashed
<1> QED BY Zenon, <1>1, <1>3

\* The inductive invariant holds in every state of every behaviour.
THEOREM Invariance == Spec => []IInv
BY InitIInv, NextIInv, PTL DEF Spec

\* Type correctness of the run queue, the task attributes and the tunables,
\* for any number of tasks, lists and priorities (core.c, dummy.c).
THEOREM TypeCorrect == Spec => []TypeOK
<1>1. IInv => TypeOK
  BY Zenon DEF IInv
<1> QED BY <1>1, Invariance, PTL

\* The queues of the three classes, the on_rq flags and nr_running always agree,
\* through every enqueue, dequeue, requeue, ageing and change of class.
THEOREM QueuesMatch == Spec => []QueuesMatchRunnable
<1>1. IInv => QueuesMatchRunnable
  <2> SUFFICES ASSUME IInv PROVE QueuesMatchRunnable
    BY Zenon
  <2>1. \A c : Of(on_rq, sched_class, c) = InClass(c)
    BY Zenon DEF Of, InClass
  <2>2. RqOK(rq, on_rq, sched_class, prio)
    BY Zenon DEF IInv
  <2>3. DummyOK(rq.dummy, InClass("dummy"), prio)
    BY <2>1, <2>2, Zenon DEF RqOK
  <2>4. Linked(rq.dummy) = InClass("dummy")
    BY Zenon, <2>3, LinkedIsS
  <2> QED BY <2>1, <2>2, <2>3, <2>4, Zenon DEF RqOK, DummyOK, QueuesMatchRunnable
<1> QED BY <1>1, Invariance, PTL

\* No wake-up is lost: a task that is ready is queued, and nothing is queued that
\* is free (try_to_wake_up and __schedule, whichever comes first).
THEOREM NothingLost == Spec => []NoLostTask
<1>1. IInv => NoLostTask
  BY Zenon DEF IInv
<1> QED BY <1>1, Invariance, PTL

\* Ageing never leaves a task below the list of its own priority, and every
\* task that is linked has a priority that a list exists for.
THEOREM AgeingUpwards == Spec => []NeverBelowBase
<1>1. IInv => NeverBelowBase
  BY Zenon DEF IInv, RqOK, DummyOK, NeverBelowBase
<1> QED BY <1>1, Invariance, PTL

\* A queued task of a better class than the running one always finds the running
\* one flagged: by check_preempt_curr, switched_to, or set_user_nice.
THEOREM BetterClassPreempts == Spec => []ClassPreemption
<1>1. IInv => ClassPreemption
  BY Zenon DEF IInv
<1> QED BY <1>1, Invariance, PTL

\* rq->nr_uninterruptible counts the tasks in uninterruptible sleep exactly,
\* through light wake-ups, preempted sleepers and pending signals.
THEOREM LoadCount == Spec => []LoadCountExact
<1>1. IInv => LoadCountExact
  BY Zenon DEF IInv, LoadCountExact, Sleepers
<1> QED BY <1>1, Invariance, PTL

-----------------------------------------------------------------------------
(***************************************************************************)
(* The lists over time: who keeps their place, and how long they wait      *)
(***************************************************************************)

\* A pass of __schedule disturbs nobody but the task it takes the CPU from.
LEMMA ScheduleLists ==
  ASSUME IInv, NEW r, NEW need, NEW active \in BOOLEAN,
         RqOK(r, on_rq, sched_class, prio), __schedule(r, need, active)
  PROVE  rq' = rq \/ Undisturbed(r.dummy, rq'.dummy, {curr})
<1> DEFINE leaves(sg) == (state[curr] # "RUNNING" /\ ~active) /\ ~sg
           r1(sg) == IF leaves(sg) THEN deactivate_task(r, curr) ELSE r
           r2(sg) == put_prev_task(r1(sg), curr, sched_class[curr])
<1>1. \/ Fault
      \/ \E sg \in BOOLEAN : \E next \in Candidates(r2(sg), prio) :
           rq' = pick_next_task(r2(sg), next)
  BY Zenon DEF __schedule
<1>2. CASE Fault
  BY <1>2, Zenon DEF Fault
<1>3. ASSUME NEW sg \in BOOLEAN, NEW next, rq' = pick_next_task(r2(sg), next)
      PROVE  Undisturbed(r.dummy, rq'.dummy, {curr})
  <2>1. r \in RunQueues
    BY Zenon DEF RqOK
  <2>2. r1(sg) \in RunQueues /\ Undisturbed(r.dummy, r1(sg).dummy, {curr})
    <3>1. CASE leaves(sg)
      <4>1. curr \in on_rq
        BY <3>1, Zenon DEF IInv, NoLostTask
      <4>2. sched_class[curr] \in {"rt", "fair", "dummy"}
        BY <4>1, Zenon DEF RqOK
      <4>3. RqOK(dequeue_task(r, curr, sched_class[curr]), on_rq \ {curr}, sched_class, prio)
        BY <4>1, DequeueRqOK, Zenon
      <4>4. dequeue_task(r, curr, sched_class[curr]) \in RunQueues
        BY <4>3, Zenon DEF RqOK
      <4>5. Undisturbed(r.dummy, dequeue_task(r, curr, sched_class[curr]).dummy, {curr})
        BY <2>1, <4>2, DequeueLists, Zenon
      <4> QED BY <3>1, <4>4, <4>5, Zenon DEF deactivate_task
    <3>2. CASE ~leaves(sg)
      BY <2>1, <3>2, UndisturbedLists, Zenon
    <3> QED BY Zenon, <3>1, <3>2
  <2>3. r2(sg) \in RunQueues /\ r2(sg).dummy = r1(sg).dummy
    <3>1. \E S : RqOK(r1(sg), S, sched_class, prio)
      <4>1. CASE leaves(sg)
        <5>1. curr \in on_rq
          BY <4>1, Zenon DEF IInv, NoLostTask
        <5>2. RqOK(dequeue_task(r, curr, sched_class[curr]), on_rq \ {curr}, sched_class, prio)
          BY <5>1, DequeueRqOK, Zenon
        <5> QED BY <4>1, <5>2, Zenon DEF deactivate_task
      <4>2. CASE ~leaves(sg)
        BY <4>2, Zenon
      <4> QED BY Zenon, <4>1, <4>2
    <3> HIDE DEF r1
    <3>2. \E S : RqOK(r2(sg), S, sched_class, prio)
      BY <3>1, PutPrevRqOK, Zenon
    <3>3. r2(sg) \in RunQueues
      BY <3>2, Zenon DEF RqOK
    <3>4. r2(sg).dummy = r1(sg).dummy
      BY <2>2, PutPrevLists, Zenon
    <3> QED BY Zenon, <3>3, <3>4
  <2> HIDE DEF r1, r2
  <2>4. Undisturbed(r2(sg).dummy, rq'.dummy, {curr})
    BY <1>3, <2>3, PickLists, Zenon
  <2> QED BY <2>2, <2>3, <2>4, UndisturbedTrans, Zenon
<1> QED BY <1>1, <1>2, <1>3, Zenon

\* ... neither does a change of priority, but the task that it is given to.
LEMMA ReclassLists ==
  ASSUME IInv, NEW p \in Tasks, NEW new, Reclass(p, new)
  PROVE  Undisturbed(rq.dummy, rq'.dummy, {p})
<1> DEFINE on == p \in on_rq
           class == ClassOf(new)
           r1 == IF on THEN dequeue_task(rq, p, sched_class[p]) ELSE rq
           r2 == IF p = curr THEN put_prev_task(r1, p, sched_class[p]) ELSE r1
           r3 == IF p = curr THEN set_curr_task(r2, p, class) ELSE r2
<1>1. RqOK(rq, on_rq, sched_class, prio)
  BY Zenon DEF IInv
<1>2. rq \in RunQueues /\ (on => sched_class[p] \in {"rt", "fair", "dummy"})
  BY <1>1, Zenon DEF RqOK
<1>3. rq' = IF on THEN enqueue_task(r3, p, class, new) ELSE r3
  BY Zenon DEF Reclass
<1>4. class \in {"rt", "fair", "dummy"}
  BY Zenon DEF ClassOf
<1>5. RqOK(r1, on_rq \ {p}, sched_class, prio)
  <2>1. CASE on
    BY <1>1, <2>1, DequeueRqOK, Zenon
  <2>2. CASE ~on
    <3>1. on_rq \ {p} = on_rq
      BY Zenon, <2>2
    <3> QED BY <1>1, <2>2, <3>1, Zenon
  <2> QED BY Zenon, <2>1, <2>2
<1>6. Undisturbed(rq.dummy, r1.dummy, {p})
  <2>1. CASE on
    BY <1>2, <2>1, DequeueLists, Zenon
  <2>2. CASE ~on
    BY <2>2, UndisturbedLists, Zenon
  <2> QED BY Zenon, <2>1, <2>2
<1> HIDE DEF class, r1
<1>7. RqOK(r2, on_rq \ {p}, sched_class, prio)
  BY <1>5, PutPrevRqOK, Zenon
<1>8. r2.dummy = r1.dummy
  <2>1. r1 \in RunQueues
    BY <1>5, Zenon DEF RqOK
  <2> QED BY <2>1, PutPrevLists, Zenon
<1> HIDE DEF r2
<1>9. RqOK(r3, on_rq \ {p}, sched_class, prio)
  BY <1>7, SetCurrRqOK, Zenon
<1>10. r3.dummy = r1.dummy /\ r3 \in RunQueues
  <2>1. r2 \in RunQueues /\ r3 \in RunQueues
    BY <1>7, <1>9, Zenon DEF RqOK
  <2>2. r3.dummy = r2.dummy
    BY <2>1, SetCurrLists, Zenon
  <2> QED BY Zenon, <1>8, <2>1, <2>2
<1> HIDE DEF r3
<1>11. CASE on
  <2>1. Undisturbed(r3.dummy, enqueue_task(r3, p, class, new).dummy, {p})
    BY <1>4, <1>10, EnqueueLists, Zenon
  <2> QED BY <1>3, <1>6, <1>10, <1>11, <2>1, UndisturbedTrans, Zenon
<1>12. CASE ~on
  BY <1>3, <1>6, <1>10, <1>12, Zenon
<1> QED BY Zenon, <1>11, <1>12

\* ... nor does set_user_nice.
LEMMA NiceLists ==
  ASSUME IInv, NEW p \in Tasks, NEW stat \in NormalPrios, set_user_nice(p, stat)
  PROVE  rq' = rq \/ (Undisturbed(rq.dummy, rq'.dummy, {p}) /\ ~UNCHANGED attrs)
<1> DEFINE new == effective_prio(p, stat)
           class == IF dummy_prio(new) THEN "dummy" ELSE sched_class[p]
           r1 == dequeue_task(rq, p, sched_class[p])
<1>1. \/ rq' = rq
      \/ /\ p \in on_rq /\ static_prio[p] # stat
         /\ static_prio' = [static_prio EXCEPT ![p] = stat]
         /\ rq' = enqueue_task(r1, p, class, new)
  BY Zenon DEF set_user_nice, Fault
<1>2. CASE /\ p \in on_rq /\ static_prio[p] # stat
           /\ static_prio' = [static_prio EXCEPT ![p] = stat]
           /\ rq' = enqueue_task(r1, p, class, new)
  <2>1. RqOK(rq, on_rq, sched_class, prio)
    BY Zenon DEF IInv
  <2>2. rq \in RunQueues /\ sched_class[p] \in {"rt", "fair", "dummy"}
    BY <1>2, <2>1, Zenon DEF RqOK
  <2>3. Undisturbed(rq.dummy, r1.dummy, {p})
    BY <2>2, DequeueLists, Zenon
  <2>4. r1 \in RunQueues
    <3>1. RqOK(r1, on_rq \ {p}, sched_class, prio)
      BY <1>2, <2>1, DequeueRqOK, Zenon
    <3> HIDE DEF r1
    <3> QED BY <3>1, Zenon DEF RqOK
  <2>5. class \in {"rt", "fair", "dummy"}
    BY Zenon, <2>2
  <2>6. static_prio' # static_prio
    <3>1. static_prio \in [All -> MAX_RT_PRIO .. MAX_PRIO - 1] /\ p \in All
      BY Zenon DEF IInv, TypeOK, All
    <3> QED BY Zenon, <1>2, <3>1
  <2> HIDE DEF r1, class, new
  <2>7. Undisturbed(r1.dummy, enqueue_task(r1, p, class, new).dummy, {p})
    BY <2>4, <2>5, EnqueueLists, Zenon
  <2>8. Undisturbed(rq.dummy, rq'.dummy, {p})
    BY <1>2, <2>3, <2>7, UndisturbedTrans, Zenon
  <2> QED BY <2>6, <2>8, Zenon DEF attrs
<1> QED BY Zenon, <1>1, <1>2

\* What every step but the tick does to the lists: at most one task is disturbed,
\* and while no priority changes that one is running, or was not queued.
OneMoved ==
    \E x : /\ Undisturbed(rq.dummy, rq'.dummy, {x})
           /\ UNCHANGED attrs => x = curr \/ x \notin on_rq

LEMMA StillLists ==
  ASSUME rq' = rq
  PROVE  OneMoved
<1>1. Undisturbed(rq.dummy, rq'.dummy, {curr})
  BY UndisturbedLists, Zenon
<1> QED BY <1>1, Zenon DEF OneMoved

LEMMA SwitchMoves ==
  ASSUME IInv, Switch
  PROVE  OneMoved
<1>1. /\ RqOK(rq, on_rq, sched_class, prio) /\ NoLostTask /\ AttrOK
      /\ timeslice \in 0..UINT_MAX
  BY Zenon DEF IInv, TypeOK
<1>2. ASSUME NEW need, NEW active \in BOOLEAN, __schedule(rq, need, active)
      PROVE  OneMoved
  <2>1. rq' = rq \/ Undisturbed(rq.dummy, rq'.dummy, {curr})
    BY <1>1, <1>2, ScheduleLists, Zenon
  <2> QED BY <2>1, StillLists, Zenon DEF OneMoved
<1>3. CASE schedule
  BY <1>2, <1>3, Zenon DEF schedule
<1>4. CASE cond_resched
  BY <1>2, <1>4, Zenon DEF cond_resched
<1>5. CASE sched_yield /\ sched_class[curr] # "dummy"
  BY <1>2, <1>5, Zenon DEF sched_yield
<1>6. CASE sched_yield /\ sched_class[curr] = "dummy"
  <2> DEFINE r == yield_task_dummy(rq, curr)
  <2>1. curr \in on_rq /\ curr \in Tasks
    BY <1>1, <1>6, Zenon DEF NoLostTask, AttrOK, RqOK
  <2>2. RqOK(r, on_rq, sched_class, prio)
    <3>1. RqOK([rq EXCEPT !.dummy = requeue_task_dummy(@, curr, prio[curr])],
               on_rq, sched_class, prio)
      BY Zenon, <1>1, <1>6, <2>1, RunningDummyRqOK
    <3> QED BY <3>1, Zenon DEF yield_task_dummy
  <2>3. r.dummy = requeue_task_dummy(rq.dummy, curr, prio[curr])
    BY <1>1, Zenon DEF RqOK, RunQueues, yield_task_dummy
  <2>4. Undisturbed(rq.dummy, r.dummy, {curr})
    <3>1. DummyOK(rq.dummy, Of(on_rq, sched_class, "dummy"), prio)
      BY <1>1, Zenon DEF RqOK
    <3> HIDE DEF r
    <3> QED BY <2>1, <2>3, <3>1, RequeueUndisturbed, Zenon
  <2>5. __schedule(r, need_resched \cup {curr}, FALSE)
    BY <1>6, Zenon DEF sched_yield
  <2> HIDE DEF r
  <2>6. rq' = rq \/ Undisturbed(r.dummy, rq'.dummy, {curr})
    BY <2>2, <2>5, ScheduleLists, Zenon
  <2>7. rq' = rq \/ Undisturbed(rq.dummy, rq'.dummy, {curr})
    BY <2>4, <2>6, UndisturbedTrans, Zenon
  <2> QED BY <2>7, StillLists, Zenon DEF OneMoved
<1> QED BY <1>3, <1>4, <1>5, <1>6, Zenon DEF Switch

\* A task that is woken was not queued.
LEMMA ActivateMoves ==
  ASSUME IInv, NEW p \in Tasks, p \notin on_rq, activate_task(p)
  PROVE  OneMoved
<1>1. rq' = rq \/ rq' = enqueue_task(rq, p, sched_class[p], prio[p])
  BY Zenon DEF activate_task, Fault
<1>2. CASE rq' = enqueue_task(rq, p, sched_class[p], prio[p])
  <2>1. rq \in RunQueues /\ sched_class[p] \in {"rt", "fair", "dummy"}
    BY Zenon DEF IInv, TypeOK, AttrOK, All
  <2>2. Undisturbed(rq.dummy, rq'.dummy, {p})
    BY <1>2, <2>1, EnqueueLists, Zenon
  <2> QED BY <2>2, Zenon DEF OneMoved
<1> QED BY Zenon, <1>1, <1>2, StillLists

LEMMA LifecycleMoves ==
  ASSUME IInv, Lifecycle
  PROVE  OneMoved
<1>1. CASE do_exit
  BY <1>1, StillLists, Zenon DEF do_exit
<1>2. ASSUME NEW s, set_current_state(s)
      PROVE  OneMoved
  BY <1>2, StillLists, Zenon DEF set_current_state
<1>3. ASSUME NEW p \in Tasks, sched_fork(p)
      PROVE  OneMoved
  BY <1>3, StillLists, Zenon DEF sched_fork
<1>4. ASSUME NEW p \in Tasks, wake_up_new_task(p)
      PROVE  OneMoved
  <2>1. p \notin on_rq
    BY <1>4, Zenon DEF IInv, NoLostTask, wake_up_new_task
  <2> QED BY <1>4, <2>1, ActivateMoves, Zenon DEF wake_up_new_task
<1> QED BY <1>1, <1>2, <1>3, <1>4, Zenon DEF Lifecycle

LEMMA PriorityMoves ==
  ASSUME IInv, Priority
  PROVE  OneMoved
<1>1. \A p \in Tasks : p \in All
  BY Zenon DEF All
<1>2. /\ prio \in [All -> 0 .. MAX_PRIO - 1]
      /\ static_prio \in [All -> MAX_RT_PRIO .. MAX_PRIO - 1]
      /\ policy \in [All -> {"NORMAL", "BATCH", "FIFO"}]
      /\ rt_priority \in [All -> Nat]
      /\ AttrOK
  BY Zenon DEF IInv, TypeOK
<1>3. ASSUME NEW p \in Tasks, NEW n \in NormalPrios, set_user_nice(p, n)
      PROVE  OneMoved
  <2>1. rq' = rq \/ (Undisturbed(rq.dummy, rq'.dummy, {p}) /\ ~UNCHANGED attrs)
    BY <1>3, NiceLists, Zenon
  <2> QED BY <2>1, StillLists, Zenon DEF OneMoved
<1>4. ASSUME NEW p \in Tasks, NEW new \in BoostPrios \cup {NormalPrio(p)},
             rt_mutex_setprio(p, new)
      PROVE  OneMoved
  <2>1. rq' = rq \/ (new # prio[p] /\ Reclass(p, new))
    BY <1>4, Zenon DEF rt_mutex_setprio, Fault
  <2>2. ASSUME new # prio[p], Reclass(p, new) PROVE OneMoved
    <3>1. Undisturbed(rq.dummy, rq'.dummy, {p})
      BY <2>2, ReclassLists, Zenon
    <3>2. prio' = [prio EXCEPT ![p] = new]
      BY <2>2, Zenon DEF Reclass
    <3>3. prio'[p] # prio[p]
      BY Zenon, <1>1, <1>2, <2>2, <3>2
    <3>4. ~UNCHANGED attrs
      BY <3>3, Zenon DEF attrs
    <3> QED BY <3>1, <3>4, Zenon DEF OneMoved
  <2> QED BY <2>1, <2>2, StillLists, Zenon
<1>5. ASSUME NEW p \in Tasks, NEW pol \in Policies, NEW rtp \in 0 .. MAX_RT_PRIO - 1,
             NEW reset \in BOOLEAN, sched_setscheduler(p, pol, rtp, reset)
      PROVE  OneMoved
  <2>1. \/ rq' = rq
        \/ /\ pol # policy[p] \/ rtp # rt_priority[p]
           /\ policy' = [policy EXCEPT ![p] = pol]
           /\ rt_priority' = [rt_priority EXCEPT ![p] = rtp]
           /\ \E new : Reclass(p, new)
    BY <1>5, Zenon DEF sched_setscheduler, Fault
  <2>2. ASSUME pol # policy[p] \/ rtp # rt_priority[p],
               policy' = [policy EXCEPT ![p] = pol],
               rt_priority' = [rt_priority EXCEPT ![p] = rtp],
               NEW new, Reclass(p, new)
        PROVE  OneMoved
    <3>1. Undisturbed(rq.dummy, rq'.dummy, {p})
      BY <2>2, ReclassLists, Zenon
    <3>2. policy'[p] # policy[p] \/ rt_priority'[p] # rt_priority[p]
      BY Zenon, <1>1, <1>2, <2>2
    <3>3. ~UNCHANGED attrs
      BY <3>2, Zenon DEF attrs
    <3> QED BY <3>1, <3>3, Zenon DEF OneMoved
  <2> QED BY <2>1, <2>2, StillLists, Zenon
<1> QED BY <1>3, <1>4, <1>5, Zenon DEF Priority

\* Every step but the tick.
LEMMA NextMoves ==
  ASSUME IInv, Next
  PROVE  scheduler_tick \/ OneMoved
<1>1. ASSUME NEW p \in Tasks, try_to_wake_up(p)
      PROVE  OneMoved
  <2>1. CASE p \in on_rq
    BY <1>1, <2>1, StillLists, Zenon DEF try_to_wake_up, ttwu_remote
  <2>2. CASE p \notin on_rq
    BY <1>1, <2>2, ActivateMoves, Zenon DEF try_to_wake_up
  <2> QED BY Zenon, <2>1, <2>2
<1>2. proc_dointvec => rq' = rq
  BY Zenon DEF proc_dointvec
<1>3. Crashed => rq' = rq
  BY Zenon DEF Crashed, vars
<1> QED BY <1>1, <1>2, <1>3, StillLists, SwitchMoves, LifecycleMoves, PriorityMoves, Zenon
        DEF Next, Interrupt

\* The tick, when the running task is one of the dummy class.
LEMMA TickMoves ==
  ASSUME IInv, scheduler_tick, sched_class[curr] = "dummy"
  PROVE  MovedUp(rq.dummy, rq'.dummy, {curr}) /\ AgesUpTo(rq'.dummy, age_threshold + 1)
<1>1. RqOK(rq, on_rq, sched_class, prio) /\ AttrOK /\ TypeOK
  BY Zenon DEF IInv
<1>2. rq \in RunQueues /\ DummyOK(rq.dummy, Of(on_rq, sched_class, "dummy"), prio)
  BY <1>1, Zenon DEF RqOK
<1>3. curr \in Tasks
  BY <1>1, Zenon DEF TypeOK, AttrOK, All
<1>4. rq' = [rq EXCEPT !.dummy = task_tick_dummy(@, curr, prio[curr], timeslice,
                                                 age_threshold)]
  BY Zenon DEF scheduler_tick
<1>5. rq'.dummy = task_tick_dummy(rq.dummy, curr, prio[curr], timeslice, age_threshold)
  BY <1>2, <1>4, Zenon DEF RunQueues
<1>6. age_threshold \in 0..UINT_MAX
  BY <1>1, Zenon DEF TypeOK
<1> QED BY <1>2, <1>3, <1>5, <1>6, TaskTickMoves, Zenon

-----------------------------------------------------------------------------
(* Ages.                                                                   *)

AgesInv == AgeBounded /\ age_threshold \in Thresholds

LEMMA InitAges == Init => AgesInv
<1> SUFFICES ASSUME Init PROVE AgesInv
  BY Zenon
<1>1. \A i \in Levels : rq.dummy.queues[i] = <<>>
  BY Zenon DEF Init, init_rq, init_dummy_rq
<1>2. Range(<<>>) = {}
  BY DEF Range
<1>3. Waiting(rq.dummy) = {}
  BY <1>1, <1>2, Zenon DEF Waiting
<1> QED BY <1>3, Zenon DEF AgesInv, AgeBounded, Init

\* Only a write to /proc/sys changes the thresholds.
LEMMA SysctlMoves ==
  ASSUME Next
  PROVE  proc_dointvec \/ age_threshold' = age_threshold
<1>1. Fault => age_threshold' = age_threshold
  BY Zenon DEF Fault, sysctl
<1>2. ASSUME NEW r, NEW need, NEW active, __schedule(r, need, active)
      PROVE  age_threshold' = age_threshold
  BY <1>1, <1>2, Zenon DEF __schedule, sysctl
<1>3. ASSUME NEW p, activate_task(p)
      PROVE  age_threshold' = age_threshold
  BY <1>1, <1>3, Zenon DEF activate_task, sysctl
<1>4. ASSUME NEW p, NEW new, Reclass(p, new)
      PROVE  age_threshold' = age_threshold
  BY <1>4, Zenon DEF Reclass, sysctl
<1>5. CASE Interrupt
  BY <1>3, <1>5, Zenon DEF Interrupt, scheduler_tick, try_to_wake_up, ttwu_remote, sysctl
<1>6. CASE Switch
  BY <1>2, <1>6, Zenon DEF Switch, schedule, cond_resched, sched_yield
<1>7. CASE Lifecycle
  <2>1. ASSUME NEW p, sched_fork(p) PROVE age_threshold' = age_threshold
    BY <2>1, Zenon DEF sched_fork, sysctl
  <2> QED BY <1>3, <1>7, <2>1, Zenon
          DEF Lifecycle, do_exit, set_current_state, wake_up_new_task, sysctl
<1>8. CASE Priority
  <2>1. ASSUME NEW p, NEW n, set_user_nice(p, n) PROVE age_threshold' = age_threshold
    BY <1>1, <2>1, Zenon DEF set_user_nice, sysctl
  <2>2. ASSUME NEW p, NEW b, rt_mutex_setprio(p, b) PROVE age_threshold' = age_threshold
    BY <1>1, <1>4, <2>2, Zenon DEF rt_mutex_setprio
  <2>3. ASSUME NEW p, NEW pol, NEW rtp, NEW reset, sched_setscheduler(p, pol, rtp, reset)
        PROVE  age_threshold' = age_threshold
    BY <1>1, <1>4, <2>3, Zenon DEF sched_setscheduler
  <2> QED BY <1>8, <2>1, <2>2, <2>3, Zenon DEF Priority
<1>9. CASE Crashed
  BY <1>9, Zenon DEF Crashed, vars, sysctl
<1> QED BY <1>5, <1>6, <1>7, <1>8, <1>9 DEF Next

LEMMA AgesStep ==
  ASSUME IInv, AgesInv, Next
  PROVE  AgesInv'
<1>1. age_threshold' \in Thresholds
  BY SysctlMoves, Zenon DEF AgesInv, proc_dointvec
<1>2. ASSUME NEW p \in Waiting(rq'.dummy), NEW m \in Thresholds,
             \A t \in Thresholds : t <= m
      PROVE  rq'.dummy.age[p] <= m + 1
  <2>1. m \in Nat /\ age_threshold \in Nat /\ age_threshold <= m
    BY <1>2, SchedAssumption DEF AgesInv
  <2>2. CASE OneMoved
    <3>1. \/ rq'.dummy.age[p] = 0
          \/ p \in Waiting(rq.dummy) /\ rq'.dummy.age[p] = rq.dummy.age[p]
      BY <1>2, <2>2, Zenon DEF OneMoved, Undisturbed
    <3>2. p \in Waiting(rq.dummy) => rq.dummy.age[p] <= m + 1
      BY <1>2, Zenon DEF AgesInv, AgeBounded
    <3>3. 0 <= m + 1
      BY <2>1
    <3> QED BY Zenon, <3>1, <3>2, <3>3
  <2>3. CASE scheduler_tick /\ sched_class[curr] = "dummy"
    <3>1. \A q \in Waiting(rq'.dummy) : rq'.dummy.age[q] <= age_threshold + 1
      BY <2>3, TickMoves, Zenon DEF AgesUpTo
    <3>2. rq'.dummy.age[p] \in Nat
      <4>1. rq' \in RunQueues
        BY NextIInv, Zenon DEF IInv, TypeOK
      <4>2. rq'.dummy \in DummyRqs
        BY <4>1, Zenon DEF RunQueues
      <4>3. p \in Tasks
        BY <1>2, <4>2 DEF Waiting, DummyRqs, Range
      <4> QED BY <4>2, <4>3, DummyRqAssumption DEF DummyRqs
    <3> QED BY <1>2, <2>1, <3>1, <3>2
  <2>4. CASE scheduler_tick /\ sched_class[curr] # "dummy"
    <3>1. rq' = rq
      BY <2>4, Zenon DEF scheduler_tick
    <3> QED BY <1>2, <3>1, Zenon DEF AgesInv, AgeBounded
  <2> QED BY Zenon, <2>2, <2>3, <2>4, NextMoves
<1> QED BY <1>1, <1>2, Zenon DEF AgesInv, AgeBounded

\* While a task waits on a list that ages, its counter stays within one of the
\* largest threshold ever set: task_tick_dummy tests before it counts, and
\* whoever comes to a list starts from 0, so the counter never wraps.
THEOREM AgesBounded == Spec => []AgeBounded
<1>1. IInv /\ AgesInv /\ UNCHANGED vars => AgesInv'
  BY Zenon DEF AgesInv, AgeBounded, vars, sysctl
<1>2. AgesInv => AgeBounded
  BY Zenon DEF AgesInv
<1> QED BY <1>1, <1>2, InitAges, AgesStep, Invariance, PTL DEF Spec

-----------------------------------------------------------------------------
(* Places.                                                                 *)

\* While no priority changes, a task that is not running keeps its place: nobody
\* gets ahead of it on its list, it never moves down, and moves up one list at a
\* time (list_add_tail everywhere, and the ascending scan of task_tick_dummy).
THEOREM PlacesKept == Spec => ListOrder
<1> DEFINE kept ==
        UNCHANGED attrs =>
          \A p \in Tasks \ {curr} : \A i, j \in Levels :
            (p \in Range(rq.dummy.queues[i]) /\ p \in Range(rq'.dummy.queues[j])) =>
              /\ j \in {i, i - 1}
              /\ j = i => \A q \in Tasks : Before(rq'.dummy, i, q, p)
                                            => Before(rq.dummy, i, q, p)
<1>0. \A d, k, q, p : Before(d, k, q, p) <=> Ahead(d.queues[k], q, p)
  BY Zenon DEF Before, Ahead
<1>1. ASSUME IInv, OneMoved PROVE kept
  <2> SUFFICES ASSUME UNCHANGED attrs, NEW p \in Tasks \ {curr},
                      NEW i \in Levels, NEW j \in Levels,
                      p \in Range(rq.dummy.queues[i]), p \in Range(rq'.dummy.queues[j])
               PROVE  /\ j = i
                      /\ \A q \in Tasks : Ahead(rq'.dummy.queues[i], q, p)
                                           => Ahead(rq.dummy.queues[i], q, p)
    BY Zenon, <1>0
  <2>1. DummyOK(rq.dummy, Of(on_rq, sched_class, "dummy"), prio)
    BY <1>1, Zenon DEF IInv, RqOK
  <2>2. PICK x : /\ Undisturbed(rq.dummy, rq'.dummy, {x})
                 /\ x = curr \/ x \notin on_rq
    BY <1>1, Zenon DEF OneMoved
  <2>3. p # x
    <3>1. p \in on_rq
      BY <2>1, Zenon DEF DummyOK, Of
    <3> QED BY Zenon, <2>2, <3>1
  <2>4. /\ p \in Range(rq.dummy.queues[j])
        /\ \A q \in Tasks : Ahead(rq'.dummy.queues[j], q, p)
                             => Ahead(rq.dummy.queues[j], q, p)
    <3>1. p \in Range(rq'.dummy.queues[j]) \ {x}
      BY Zenon, <2>3
    <3> QED BY <2>2, <3>1, Zenon DEF Undisturbed
  <2>5. j = i
    BY <2>1, <2>4, Zenon DEF DummyOK
  <2> QED BY Zenon, <2>4, <2>5
<1>2. ASSUME IInv, scheduler_tick PROVE kept
  <2>1. CASE sched_class[curr] = "dummy"
    <3>1. MovedUp(rq.dummy, rq'.dummy, {curr})
      BY <1>2, <2>1, TickMoves, Zenon
    <3> QED BY <3>1 DEF MovedUp, Before, Ahead
  <2>2. CASE sched_class[curr] # "dummy"
    <3>1. rq' = rq
      BY <1>2, <2>2, Zenon DEF scheduler_tick
    <3>2. OneMoved
      BY Zenon, <3>1, StillLists
    <3> QED BY Zenon, <1>1, <1>2, <3>2
  <2> QED BY Zenon, <2>1, <2>2
<1>3. ASSUME IInv, UNCHANGED vars PROVE kept
  <2>1. OneMoved
    BY <1>3, StillLists, Zenon DEF vars
  <2> QED BY Zenon, <1>1, <1>3, <2>1
<1>4. IInv /\ [Next]_vars => [kept]_vars
  BY Zenon, <1>1, <1>2, NextMoves
<1> QED BY <1>4, Invariance, PTL DEF Spec, ListOrder

\* A task that yields gives way to a dummy task of at least its own importance:
\* yield_task_dummy has put it last on the list of its own priority, and
\* pick_next_task_dummy takes the first task of the first list.
LEMMA YieldPicks ==
  ASSUME IInv, sched_yield, ~oops', sched_class[curr] = "dummy",
         NEW i \in Levels, i <= Level(prio[curr]),
         NEW q \in Range(rq.dummy.queues[i]), q # curr
  PROVE  curr' # curr
<1> DEFINE S == Of(on_rq, sched_class, "dummy")
           r == yield_task_dummy(rq, curr)
<1>1. /\ RqOK(rq, on_rq, sched_class, prio) /\ NoLostTask /\ AttrOK
      /\ timeslice \in 0..UINT_MAX
  BY Zenon DEF IInv, TypeOK
<1>2. curr \in on_rq /\ curr \in Tasks
  BY <1>1, Zenon DEF NoLostTask, AttrOK, RqOK
<1>3. RqOK(r, on_rq, sched_class, prio)
  <2>1. RqOK([rq EXCEPT !.dummy = requeue_task_dummy(@, curr, prio[curr])],
             on_rq, sched_class, prio)
    BY Zenon, <1>1, <1>2, RunningDummyRqOK
  <2> QED BY <2>1, Zenon DEF yield_task_dummy
<1>4. r.dummy = requeue_task_dummy(rq.dummy, curr, prio[curr])
  BY <1>1, Zenon DEF RqOK, RunQueues, yield_task_dummy
<1>5. DummyOK(rq.dummy, S, prio) /\ curr \in S
  BY <1>1, <1>2, Zenon DEF RqOK, Of
<1>6. Level(prio[curr]) \in Levels
  BY <1>5, Zenon DEF DummyOK
<1>7. pick_next_task_dummy(r.dummy) # curr
  <2> HIDE DEF r, S
  <2> QED BY <1>2, <1>4, <1>5, <1>6, RequeuePick, Zenon
<1>8. curr' \in Candidates(r, prio)
  <2>1. state[curr] = "RUNNING" /\ __schedule(r, need_resched \cup {curr}, FALSE)
    BY Zenon DEF sched_yield
  <2>2. put_prev_task(r, curr, sched_class[curr]) = r
    BY Zenon DEF put_prev_task
  <2> HIDE DEF r
  <2>3. Fault => oops'
    BY Zenon DEF Fault
  <2> QED BY <2>1, <2>2, <2>3, Zenon DEF __schedule
<1> HIDE DEF r, S
<1>9. PickClass(r) \in {"rt", "fair", "dummy", "idle"}
  BY Zenon DEF PickClass
<1>10. CASE PickClass(r) = "rt"
  <2>1. curr' \in r.rt
    BY <1>8, <1>10, Zenon DEF Candidates
  <2> QED BY <1>3, <2>1, Zenon DEF RqOK, Of
<1>11. CASE PickClass(r) = "fair"
  <2>1. curr' \in r.cfs.tree
    BY <1>8, <1>11, Zenon DEF Candidates
  <2> QED BY <1>3, <2>1, Zenon DEF RqOK, Of
<1>12. CASE PickClass(r) = "dummy"
  BY <1>7, <1>8, <1>12, Zenon DEF Candidates
<1>13. CASE PickClass(r) = "idle"
  BY <1>2, <1>8, <1>13, RunQueueAssumption, Zenon DEF Candidates
<1> QED BY <1>9, <1>10, <1>11, <1>12, <1>13

\* sched_yield gives the CPU away when there is a dummy task to give it to.
THEOREM YieldsGiveWay == Spec => YieldGivesWay
<1> DEFINE gives ==
        (sched_yield /\ ~oops' /\ sched_class[curr] = "dummy"
         /\ \E i \in Levels : /\ i <= Level(prio[curr])
                              /\ Range(rq.dummy.queues[i]) \ {curr} # {})
        => curr' # curr
<1>1. IInv => gives
  <2> SUFFICES ASSUME IInv, sched_yield, ~oops', sched_class[curr] = "dummy",
                      NEW i \in Levels, i <= Level(prio[curr]),
                      Range(rq.dummy.queues[i]) \ {curr} # {}
               PROVE  curr' # curr
    BY Zenon
  <2>1. PICK q \in Range(rq.dummy.queues[i]) : q # curr
    BY Zenon
  <2> QED BY <2>1, YieldPicks, Zenon
<1>2. IInv /\ [Next]_vars => [gives]_vars
  BY Zenon, <1>1
<1> QED BY <1>2, Invariance, PTL DEF Spec, YieldGivesWay

=============================================================================
