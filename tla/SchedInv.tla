------------------------------ MODULE SchedInv -------------------------------
(***************************************************************************)
(* The inductive invariant of Sched, and that the initial states, the pass *)
(* of __schedule, the wake-ups and the changes of priority keep it.  None  *)
(* of the safety properties of Sched is inductive by itself: IInv adds     *)
(* that class and priority of a task go together, and that the tree of the *)
(* fair class holds queued entities only.                                  *)
(***************************************************************************)
EXTENDS Sched, RunQueueProofs

\* A real-time priority means the rt class, a priority of the dummy range is
\* never one of the fair class (the converse fails: set_user_nice takes a
\* task out of the dummy range and not out of the dummy class).
AttrOK ==
    /\ sched_class[Idle] = "idle"
    /\ \A p \in Tasks :
         /\ sched_class[p] # "idle"
         /\ sched_class[p] = "rt" <=> rt_prio(prio[p])
         /\ sched_class[p] = "fair" => ~dummy_prio(prio[p])
         /\ policy[p] = "FIFO" => /\ rt_prio(prio[p])
                                  /\ rt_priority[p] \in 1 .. MAX_RT_PRIO - 1

Sleepers == {p \in Tasks \ on_rq : state[p] = "UNINTERRUPTIBLE"}

IInv ==
    /\ TypeOK
    /\ RqOK(rq, on_rq, sched_class, prio)
    /\ AttrOK
    /\ state[Idle] = "RUNNING"
    /\ NoLostTask
    /\ ClassPreemption
    /\ nr_uninterruptible = Cardinality(Sleepers)

LEMMA InitIInv == Init => IInv
<1> SUFFICES ASSUME Init PROVE IInv
  BY Zenon
<1> USE DummyRqAssumption, RunQueueAssumption, SchedAssumption
<1>1. PICK f \in [BootTasks -> BootPrios] :
        prio = [p \in All |-> IF p \in BootTasks THEN f[p] ELSE DEFAULT_PRIO]
  BY Zenon DEF Init
<1>2. prio \in [All -> MAX_RT_PRIO .. MAX_PRIO - 1]
  BY Zenon, <1>1 DEF MAX_PRIO
<1>3. RqOK(rq, on_rq, sched_class, prio)
  BY InitRqOK, Zenon DEF Init
<1>4. \A p \in Tasks : /\ ~rt_prio(prio[p])
                       /\ sched_class[p] = IF dummy_prio(prio[p]) THEN "dummy" ELSE "fair"
  BY <1>2 DEF Init, All, ClassOf, rt_prio, MAX_PRIO
<1>5. sched_class \in [All -> {"rt", "fair", "dummy", "idle"}]
  BY <1>4, Zenon DEF Init, All
<1>6. TypeOK
  <2>1. rq \in RunQueues
    BY <1>3, Zenon DEF RqOK
  <2>2. prio \in [All -> 0 .. MAX_PRIO - 1]
    BY <1>2 DEF MAX_PRIO
  <2>3. state \in [All -> States]
    BY Zenon DEF Init, States, All
  <2>4. /\ policy \in [All -> {"NORMAL", "BATCH", "FIFO"}]
        /\ rt_priority \in [All -> Nat]
        /\ curr \in All
    BY Zenon DEF Init, All
  <2>5. static_prio \in [All -> MAX_RT_PRIO .. MAX_PRIO - 1]
    BY <1>2, Zenon DEF Init
  <2>6. /\ on_rq \subseteq Tasks /\ newborn \subseteq Tasks
        /\ reset_on_fork \subseteq Tasks /\ need_resched \subseteq All
        /\ nr_uninterruptible \in Int
    BY DEF Init
  <2>7. timeslice \in 0..UINT_MAX /\ age_threshold \in 0..UINT_MAX
    BY Zenon DEF Init
  <2>8. looping \in BOOLEAN /\ oops \in BOOLEAN
    BY Zenon DEF Init
  <2> QED BY <1>5, <2>1, <2>2, <2>3, <2>4, <2>5, <2>6, <2>7, <2>8, Zenon DEF TypeOK
<1>7. AttrOK
  BY <1>4, Zenon DEF Init, AttrOK, All
<1>8. NoLostTask /\ ClassPreemption /\ state[Idle] = "RUNNING"
  BY Zenon DEF Init, NoLostTask, ClassPreemption, All
<1>9. nr_uninterruptible = Cardinality(Sleepers)
  <2>1. Sleepers = {}
    BY Zenon DEF Init, Sleepers, All
  <2> QED BY <2>1, FS_EmptySet, Zenon DEF Init
<1> QED BY <1>3, <1>6, <1>7, <1>8, <1>9 DEF IInv

LEMMA FaultStep ==
  ASSUME IInv, Fault
  PROVE  IInv'
BY Zenon DEF IInv, Fault, TypeOK, AttrOK, NoLostTask, ClassPreemption, Sleepers,
       attrs, life, sysctl

\* One pass of __schedule, over queues that agree with on_rq.
LEMMA ScheduleStep ==
  ASSUME IInv, NEW r, NEW need \in SUBSET All, NEW active \in BOOLEAN,
         RqOK(r, on_rq, sched_class, prio),
         active => state[curr] # "DEAD",
         __schedule(r, need, active)
  PROVE  IInv'
<1> DEFINE wants == state[curr] # "RUNNING" /\ ~active
           leaves(sg) == wants /\ ~sg
           r1(sg) == IF leaves(sg) THEN deactivate_task(r, curr) ELSE r
           r2(sg) == put_prev_task(r1(sg), curr, sched_class[curr])
           can(sg) == /\ leaves(sg) => CanDequeue(r, curr, sched_class[curr])
                      /\ CanPick(r2(sg))
           to(sg, next) ==
               /\ rq' = pick_next_task(r2(sg), next)
               /\ curr' = next
               /\ need_resched' = need \ {curr}
               /\ looping' = (next \in need_resched')
               /\ on_rq' = IF leaves(sg) THEN on_rq \ {curr} ELSE on_rq
               /\ state' = [state EXCEPT ![curr] =
                              IF wants /\ sg THEN "RUNNING"
                              ELSE IF leaves(sg) /\ @ = "DEAD" THEN "FREE" ELSE @]
               /\ nr_uninterruptible' = IF leaves(sg) /\ state[curr] = "UNINTERRUPTIBLE"
                                        THEN nr_uninterruptible + 1
                                        ELSE nr_uninterruptible
               /\ UNCHANGED <<attrs, newborn, sysctl, oops>>
<1>1. PICK sg \in BOOLEAN :
        /\ sg => state[curr] = "INTERRUPTIBLE"
        /\ IF can(sg) THEN \E next \in Candidates(r2(sg), prio) : to(sg, next)
                      ELSE Fault
  BY Zenon DEF __schedule
<1> USE RunQueueAssumption
<1>2. CASE ~can(sg)
  BY Zenon, <1>1, <1>2, FaultStep
<1>3. CASE can(sg)
  <2>1. PICK next \in Candidates(r2(sg), prio) : to(sg, next)
    BY Zenon, <1>1, <1>3
  <2> DEFINE S == IF leaves(sg) THEN on_rq \ {curr} ELSE on_rq
  <2>2. /\ leaves(sg) => curr \in on_rq
        /\ TypeOK /\ AttrOK /\ NoLostTask /\ state[Idle] = "RUNNING"
        /\ nr_uninterruptible = Cardinality(Sleepers)
    BY Zenon DEF IInv, NoLostTask
  <2>3. RqOK(r1(sg), S, sched_class, prio)
    BY <2>2, DequeueRqOK, Zenon DEF deactivate_task
  <2>4. RqOK(r2(sg), S, sched_class, prio)
    <3> HIDE DEF r1, S
    <3> QED BY Zenon, <2>3, PutPrevRqOK
  <2> HIDE DEF r1, r2, can
  <2>5. /\ next \in S \cup {Idle}
        /\ \A q \in S : ~Outranks(sched_class[q], sched_class[next])
        /\ RqOK(pick_next_task(r2(sg), next), S, sched_class, prio)
    <3> HIDE DEF S
    <3>1. sched_class[Idle] = "idle"
      BY <2>2, Zenon DEF AttrOK
    <3> QED BY Zenon, <2>4, <3>1, PickRqOK
  <2>6. /\ rq' = pick_next_task(r2(sg), next) /\ on_rq' = S /\ curr' = next
        /\ UNCHANGED <<prio, static_prio, policy, rt_priority, reset_on_fork, sched_class>>
        /\ UNCHANGED <<newborn, timeslice, age_threshold, oops>>
    BY <2>1, Zenon DEF attrs, sysctl
  <2>7. RqOK(rq, on_rq, sched_class, prio)'
    BY Zenon, <2>5, <2>6
  <2>8. AttrOK'
    BY <2>2, <2>6, Zenon DEF AttrOK
  <2>9. ClassPreemption'
    BY <2>5, <2>6, Zenon DEF ClassPreemption
  <2>10. /\ state' \in [All -> States]
         /\ \A q \in All \ {curr} : state'[q] = state[q]
         /\ curr \in All
         /\ leaves(sg) => /\ state[curr] # "RUNNING"
                          /\ state'[curr] # "RUNNING" /\ state'[curr] # "DEAD"
                          /\ state[curr] = "UNINTERRUPTIBLE"
                               <=> state'[curr] = "UNINTERRUPTIBLE"
         /\ ~leaves(sg) => state'[curr] # "DEAD"
                           /\ (state'[curr] = "FREE" => state[curr] = "FREE")
    BY <1>1, <2>1, <2>2, Zenon DEF TypeOK, States
  <2>11. state'[Idle] = "RUNNING"
    BY <2>1, <2>2, <2>10, Zenon DEF All
  <2>12. TypeOK'
    <3>1. need_resched' \subseteq All /\ looping' \in BOOLEAN
      BY <2>1
    <3>2. nr_uninterruptible' \in Int
      BY <2>1, <2>2 DEF TypeOK
    <3>3. on_rq' \subseteq Tasks /\ curr' \in All
      BY <2>2, <2>5, <2>6, Zenon DEF TypeOK, All
    <3>4. rq' \in RunQueues
      BY <2>7, Zenon DEF RqOK
    <3> QED BY <2>2, <2>6, <2>10, <3>1, <3>2, <3>3, <3>4 DEF TypeOK
  <2>13. NoLostTask'
    <3>1. \A p \in Tasks : p # curr => p \in All \ {curr}
      BY Zenon DEF All
    <3>2. /\ curr' \in on_rq' \cup {Idle}
          /\ newborn' \cap on_rq' = {}
      BY <2>2, <2>5, <2>6, Zenon DEF NoLostTask
    <3>3. ASSUME NEW p \in Tasks
          PROVE  /\ state'[p] = "RUNNING" => p \in on_rq' \cup newborn'
                 /\ state'[p] = "FREE" => p \notin on_rq'
                 /\ state'[p] = "DEAD" => p = curr'
      <4>1. CASE p # curr
        <5>1. state'[p] = state[p]
          BY Zenon, <2>10, <3>1, <4>1
        <5>2. p \in on_rq <=> p \in on_rq'
          BY Zenon, <2>6, <4>1
        <5>3. state[p] # "DEAD"
          BY <2>2, <4>1, Zenon DEF NoLostTask
        <5> QED BY <2>2, <2>6, <5>1, <5>2, <5>3, Zenon DEF NoLostTask
      <4>2. CASE p = curr /\ leaves(sg)
        <5>1. p \notin on_rq'
          BY Zenon, <2>6, <4>2
        <5> QED BY Zenon, <2>10, <4>2, <5>1
      <4>3. CASE p = curr /\ ~leaves(sg)
        <5>1. p \in on_rq
          BY <2>2, <4>3, Zenon DEF NoLostTask
        <5>2. p \in on_rq'
          BY Zenon, <2>6, <4>3, <5>1
        <5>3. state[p] # "FREE"
          BY <2>2, <5>1, Zenon DEF NoLostTask
        <5> QED BY Zenon, <2>10, <4>3, <5>2, <5>3
      <4> QED BY Zenon, <4>1, <4>2, <4>3
    <3> QED BY <3>2, <3>3, Zenon DEF NoLostTask
  <2>14. nr_uninterruptible' = Cardinality(Sleepers')
    <3>1. \A p \in Tasks : p # curr => p \in All \ {curr}
      BY Zenon DEF All
    <3>2. CASE leaves(sg) /\ state[curr] = "UNINTERRUPTIBLE"
      <4>1. Sleepers' = Sleepers \cup {curr} /\ curr \notin Sleepers
        BY <2>2, <2>6, <2>10, <3>1, <3>2, Zenon DEF Sleepers, TypeOK
      <4>2. IsFiniteSet(Sleepers)
        BY FS_Subset, Zenon DEF Sleepers
      <4>3. Cardinality(Sleepers') = Cardinality(Sleepers) + 1
        BY Zenon, <4>1, <4>2, FS_AddElement
      <4> QED BY <2>1, <2>2, <3>2, <4>3
    <3>3. CASE ~(leaves(sg) /\ state[curr] = "UNINTERRUPTIBLE")
      <4>1. Sleepers' = Sleepers
        <5>1. curr \notin Sleepers /\ curr \notin Sleepers'
          BY <2>2, <2>6, <2>10, <3>3, Zenon DEF Sleepers, NoLostTask
        <5>2. \A p \in Tasks : p # curr => (p \in Sleepers <=> p \in Sleepers')
          BY <2>6, <2>10, <3>1, Zenon DEF Sleepers
        <5> QED BY <5>1, <5>2, Zenon DEF Sleepers
      <4> QED BY <2>1, <2>2, <3>3, <4>1
    <3> QED BY <3>2, <3>3
  <2> QED BY <2>7, <2>8, <2>9, <2>11, <2>12, <2>13, <2>14 DEF IInv
<1> QED BY Zenon, <1>2, <1>3

\* What no step but those of __schedule and of the life cycle touches.
LEMMA QuietLife ==
  ASSUME IInv, UNCHANGED <<state, on_rq, newborn, nr_uninterruptible, curr>>
  PROVE  /\ state'[Idle] = "RUNNING" /\ NoLostTask'
         /\ nr_uninterruptible' = Cardinality(Sleepers')
BY Zenon DEF IInv, NoLostTask, Sleepers

\* A step of the current task that changes nothing but its own state.
LEMMA StateStep ==
  ASSUME IInv, NEW s \in States \ {"FREE"}, NEW p \in on_rq,
         s = "DEAD" => p = curr,
         state' = [state EXCEPT ![p] = s],
         need_resched \subseteq need_resched', need_resched' \subseteq All,
         UNCHANGED <<attrs, on_rq, newborn, nr_uninterruptible, sysctl, curr,
                     looping, rq, oops>>
  PROVE  IInv'
<1> USE RunQueueAssumption
<1>1. /\ TypeOK /\ NoLostTask /\ p \in Tasks /\ p \in All /\ p # Idle
      /\ state[Idle] = "RUNNING"
  BY Zenon DEF IInv, TypeOK, All
<1>2. /\ state' \in [All -> States] /\ state'[p] = s
      /\ \A q \in All : q # p => state'[q] = state[q]
  BY <1>1, Zenon DEF TypeOK
<1>3. RqOK(rq, on_rq, sched_class, prio)' /\ AttrOK'
  BY Zenon DEF IInv, attrs, AttrOK
<1>4. TypeOK'
  BY <1>1, <1>2, Zenon DEF TypeOK, attrs, sysctl
<1>5. state'[Idle] = "RUNNING"
  BY <1>1, <1>2, Zenon DEF All
<1>6. NoLostTask'
  BY <1>1, <1>2, Zenon DEF NoLostTask, All, States
<1>7. ClassPreemption'
  BY Zenon DEF IInv, ClassPreemption, attrs
<1>8. Sleepers' = Sleepers
  BY <1>1, <1>2, Zenon DEF Sleepers, All
<1> QED BY <1>3, <1>4, <1>5, <1>6, <1>7, <1>8, Zenon DEF IInv

\* Every set of tasks that check_preempt_curr may flag has only tasks in it,
\* and the current one if the arrival is of a better class.
LEMMA CheckPreempt ==
  ASSUME NEW cl, NEW pr, NEW p \in All, NEW F \in check_preempt_curr(cl, pr, p),
         curr \in All
  PROVE  /\ F \subseteq All
         /\ cl[p] # cl[curr] /\ Outranks(cl[p], cl[curr]) => curr \in F
BY Zenon DEF check_preempt_curr

\* A task that was not queued is queued.
LEMMA ActivateStep ==
  ASSUME IInv, NEW p \in Tasks, p \notin on_rq, activate_task(p)
  PROVE  IInv'
<1> USE RunQueueAssumption
<1>1. CASE ~CanEnqueue(sched_class[p], prio[p])
  BY <1>1, FaultStep, Zenon DEF activate_task
<1>2. CASE CanEnqueue(sched_class[p], prio[p])
  <2>1. /\ rq' = enqueue_task(rq, p, sched_class[p], prio[p])
        /\ on_rq' = on_rq \cup {p}
        /\ state' = [state EXCEPT ![p] = "RUNNING"]
        /\ newborn' = newborn \ {p}
        /\ nr_uninterruptible' = IF state[p] = "UNINTERRUPTIBLE"
                                 THEN nr_uninterruptible - 1 ELSE nr_uninterruptible
        /\ UNCHANGED <<prio, static_prio, policy, rt_priority, reset_on_fork, sched_class>>
        /\ UNCHANGED <<timeslice, age_threshold, curr, looping, oops>>
    BY <1>2, Zenon DEF activate_task, attrs, sysctl
  <2>2. PICK F \in check_preempt_curr(sched_class, prio, p) :
          need_resched' = need_resched \cup F
    BY <1>2, Zenon DEF activate_task
  <2>3. /\ TypeOK /\ AttrOK /\ NoLostTask /\ ClassPreemption /\ p \in All /\ p # Idle
        /\ p # curr /\ state[Idle] = "RUNNING" /\ curr \in All
        /\ nr_uninterruptible = Cardinality(Sleepers)
        /\ RqOK(rq, on_rq, sched_class, prio)
    BY Zenon DEF IInv, TypeOK, All, NoLostTask
  <2>4. F \subseteq All /\ (Outranks(sched_class[p], sched_class[curr]) => curr \in F)
    <3>1. Outranks(sched_class[p], sched_class[curr]) => sched_class[p] # sched_class[curr]
      BY <2>3 DEF Outranks, TypeOK, ClassRank
    <3> QED BY Zenon, <2>3, <3>1, CheckPreempt
  <2>5. RqOK(rq, on_rq, sched_class, prio)'
    <3>1. sched_class[p] \in {"rt", "fair", "dummy"}
      BY <2>3, Zenon DEF TypeOK, AttrOK
    <3>2. RqOK(enqueue_task(rq, p, sched_class[p], prio[p]), on_rq \cup {p},
               sched_class, prio)
      BY Zenon, <1>2, <2>3, <3>1, EnqueueRqOK
    <3> QED BY Zenon, <2>1, <3>2
  <2>6. AttrOK'
    BY <2>1, <2>3 DEF AttrOK
  <2>7. /\ state' \in [All -> States] /\ state'[p] = "RUNNING"
        /\ \A q \in All : q # p => state'[q] = state[q]
    BY <2>1, <2>3, Zenon DEF TypeOK, States
  <2>8. state'[Idle] = "RUNNING"
    BY <2>3, <2>7, Zenon DEF All
  <2>9. TypeOK'
    <3>1. nr_uninterruptible' \in Int
      BY <2>1, <2>3 DEF TypeOK
    <3>2. rq' \in RunQueues
      BY <2>5, Zenon DEF RqOK
    <3> QED BY <2>1, <2>2, <2>3, <2>4, <2>7, <3>1, <3>2, Zenon DEF TypeOK
  <2>10. NoLostTask'
    BY Zenon, <2>1, <2>3, <2>7 DEF NoLostTask, All
  <2>11. ClassPreemption'
    BY <2>1, <2>2, <2>3, <2>4, Zenon DEF ClassPreemption
  <2>12. nr_uninterruptible' = Cardinality(Sleepers')
    <3>1. Sleepers' = Sleepers \ {p}
      BY <2>1, <2>3, <2>7, Zenon DEF Sleepers, All
    <3>2. IsFiniteSet(Sleepers)
      BY FS_Subset, Zenon DEF Sleepers
    <3>3. CASE state[p] = "UNINTERRUPTIBLE"
      <4>1. p \in Sleepers
        BY <3>3, Zenon DEF Sleepers
      <4>2. Cardinality(Sleepers \ {p}) = Cardinality(Sleepers) - 1
        BY Zenon, <3>2, <4>1, FS_RemoveElement
      <4> QED BY Zenon, <2>1, <2>3, <3>1, <3>3, <4>2
    <3>4. CASE state[p] # "UNINTERRUPTIBLE"
      <4>1. Sleepers \ {p} = Sleepers
        BY <3>4, Zenon DEF Sleepers
      <4> QED BY <2>1, <2>3, <3>1, <3>4, <4>1
    <3> QED BY Zenon, <3>3, <3>4
  <2> QED BY <2>5, <2>6, <2>8, <2>9, <2>10, <2>11, <2>12 DEF IInv
<1> QED BY Zenon, <1>1, <1>2

-----------------------------------------------------------------------------
(***************************************************************************)
(* Changes of priority                                                     *)
(***************************************************************************)

\* NormalPrio is a priority, a real-time one exactly for the FIFO policy.
LEMMA NormalPrioType ==
  ASSUME NEW pol, NEW rtp \in Nat, NEW stat \in MAX_RT_PRIO .. MAX_PRIO - 1,
         pol = "FIFO" => rtp \in 1 .. MAX_RT_PRIO - 1
  PROVE  /\ normal_prio(pol, rtp, stat) \in 0 .. MAX_PRIO - 1
         /\ rt_prio(normal_prio(pol, rtp, stat)) <=> pol = "FIFO"
BY DummyRqAssumption, RunQueueAssumption DEF normal_prio, rt_prio, MAX_PRIO

\* The part common to all changes of priority: p has a new priority and a
\* class to go with it, and is back on a queue if it was on one.
LEMMA AttrStep ==
  ASSUME IInv, NEW p \in Tasks, NEW new \in 0 .. MAX_PRIO - 1,
         NEW class \in {"rt", "fair", "dummy"},
         class = "rt" <=> rt_prio(new),
         class = "fair" => ~dummy_prio(new),
         prio' = [prio EXCEPT ![p] = new],
         sched_class' = [sched_class EXCEPT ![p] = class],
         static_prio' \in [All -> MAX_RT_PRIO .. MAX_PRIO - 1],
         policy' \in [All -> {"NORMAL", "BATCH", "FIFO"}],
         rt_priority' \in [All -> Nat],
         reset_on_fork' \subseteq Tasks,
         \A q \in Tasks : q # p => /\ policy'[q] = policy[q]
                                   /\ rt_priority'[q] = rt_priority[q],
         policy'[p] = "FIFO" => /\ rt_prio(new)
                                /\ rt_priority'[p] \in 1 .. MAX_RT_PRIO - 1,
         RqOK(rq', on_rq, sched_class', prio'),
         need_resched \subseteq need_resched', need_resched' \subseteq All,
         p \in on_rq /\ p # curr /\ Outranks(class, sched_class[curr])
             => curr \in need_resched',
         p = curr /\ class # sched_class[p] /\ class # "rt" => curr \in need_resched',
         UNCHANGED <<life, sysctl, curr, looping, oops>>
  PROVE  IInv'
<1> USE RunQueueAssumption
<1>1. /\ TypeOK /\ AttrOK /\ ClassPreemption /\ p \in All /\ p # Idle /\ Idle \in All
      /\ curr \in All
  BY Zenon DEF IInv, All, TypeOK
<1>2. /\ UNCHANGED <<state, on_rq, newborn, nr_uninterruptible>>
      /\ UNCHANGED <<timeslice, age_threshold, curr, looping, oops>>
  BY Zenon DEF life, sysctl
<1>3. /\ prio'[p] = new /\ sched_class'[p] = class
      /\ \A q \in All : q # p => prio'[q] = prio[q] /\ sched_class'[q] = sched_class[q]
  BY <1>1, Zenon DEF TypeOK
<1>4. TypeOK'
  <2>1. rq' \in RunQueues
    BY Zenon DEF RqOK
  <2>2. /\ prio' \in [All -> 0 .. MAX_PRIO - 1]
        /\ sched_class' \in [All -> {"rt", "fair", "dummy", "idle"}]
    BY <1>1, Zenon DEF TypeOK
  <2> QED BY <1>1, <1>2, <2>1, <2>2 DEF TypeOK
<1>5. AttrOK'
  BY <1>1, <1>3 DEF AttrOK, All
<1>6. ClassPreemption'
  <2> SUFFICES ASSUME NEW q \in on_rq, Outranks(sched_class'[q], sched_class'[curr])
               PROVE  curr \in need_resched'
    BY <1>2, Zenon DEF ClassPreemption
  <2>1. q \in All /\ q \in Tasks
    BY <1>1, Zenon DEF TypeOK, All
  <2>2. CASE p # curr /\ q # p
    BY <1>1, <1>3, <2>1, <2>2, Zenon DEF ClassPreemption
  <2>3. CASE p # curr /\ q = p
    BY Zenon, <1>1, <1>3, <2>3
  <2>4. CASE p = curr
    <3>1. q # p
      BY <2>4, <1>3 DEF Outranks, ClassRank
    <3>2. CASE class = sched_class[p]
      BY <1>1, <1>3, <2>1, <2>4, <3>1, <3>2, Zenon DEF ClassPreemption
    <3>3. CASE class = "rt"
      <4>1. sched_class[q] \in {"rt", "fair", "dummy", "idle"}
        BY <1>1, <2>1, Zenon DEF TypeOK
      <4> QED BY <1>3, <2>1, <2>4, <3>1, <3>3, <4>1 DEF Outranks, ClassRank
    <3> QED BY <2>4, <3>2, <3>3
  <2> QED BY Zenon, <2>2, <2>3, <2>4
<1>7. /\ state'[Idle] = "RUNNING" /\ NoLostTask'
      /\ nr_uninterruptible' = Cardinality(Sleepers')
  BY Zenon, <1>2, QuietLife
<1>8. RqOK(rq, on_rq, sched_class, prio)'
  BY Zenon, <1>2
<1> QED BY <1>4, <1>5, <1>6, <1>7, <1>8 DEF IInv

\* A priority of the dummy range has a list.
LEMMA ClassOfFacts ==
  ASSUME NEW new \in 0 .. MAX_PRIO - 1
  PROVE  /\ ClassOf(new) \in {"rt", "fair", "dummy"}
         /\ ClassOf(new) = "rt" <=> rt_prio(new)
         /\ ClassOf(new) = "fair" => ~dummy_prio(new)
         /\ CanEnqueue(ClassOf(new), new)
<1>1. dummy_prio(new) => Level(new) \in Levels
  BY DummyRqAssumption DEF dummy_prio, Level, Levels, MAX_PRIO, DUMMY_PRIORITY_MIN
<1> QED BY <1>1, Zenon DEF ClassOf, CanEnqueue

LEMMA ReclassStep ==
  ASSUME IInv, NEW p \in Tasks, NEW new \in 0 .. MAX_PRIO - 1,
         InTask, Reclass(p, new),
         policy' \in [All -> {"NORMAL", "BATCH", "FIFO"}],
         rt_priority' \in [All -> Nat],
         reset_on_fork' \subseteq Tasks,
         \A q \in Tasks : q # p => /\ policy'[q] = policy[q]
                                   /\ rt_priority'[q] = rt_priority[q],
         policy'[p] = "FIFO" => /\ rt_prio(new)
                                /\ rt_priority'[p] \in 1 .. MAX_RT_PRIO - 1
  PROVE  IInv'
<1> USE RunQueueAssumption
<1> DEFINE on    == p \in on_rq
           class == ClassOf(new)
           r1 == IF on THEN dequeue_task(rq, p, sched_class[p]) ELSE rq
           r2 == IF p = curr THEN put_prev_task(r1, p, sched_class[p]) ELSE r1
           r3 == IF p = curr THEN set_curr_task(r2, p, class) ELSE r2
           S  == on_rq \ {p}
<1>1. /\ prio' = [prio EXCEPT ![p] = new]
      /\ sched_class' = [sched_class EXCEPT ![p] = class]
      /\ rq' = IF on THEN enqueue_task(r3, p, class, new) ELSE r3
      /\ UNCHANGED <<static_prio, life, sysctl, curr, looping, oops>>
  BY Zenon DEF Reclass
<1>2. PICK F \in check_class_changed(sched_class', prio', p) :
        need_resched' = need_resched \cup F
  BY Zenon DEF Reclass
<1>3. /\ TypeOK /\ AttrOK /\ RqOK(rq, on_rq, sched_class, prio)
      /\ p \in All /\ curr \in Tasks /\ curr \in All /\ curr \in on_rq /\ curr # Idle
  BY Zenon DEF IInv, All, TypeOK, NoLostTask, InTask
<1>4. /\ class \in {"rt", "fair", "dummy"}
      /\ class = "rt" <=> rt_prio(new)
      /\ class = "fair" => ~dummy_prio(new)
      /\ CanEnqueue(class, new)
  BY ClassOfFacts, Zenon
<1>5. /\ prio'[p] = new /\ sched_class'[p] = class
      /\ \A q \in All : q # p => prio'[q] = prio[q] /\ sched_class'[q] = sched_class[q]
  BY <1>1, <1>3, Zenon DEF TypeOK
<1> HIDE DEF class
<1>6. RqOK(rq', on_rq, sched_class', prio')
  <2>1. RqOK(r1, S, sched_class, prio)
    <3>1. CASE on
      BY Zenon, <1>3, <3>1, DequeueRqOK
    <3>2. CASE ~on
      <4>1. S = on_rq
        BY Zenon, <3>2
      <4> QED BY Zenon, <1>3, <3>2, <4>1
    <3> QED BY Zenon, <3>1, <3>2
  <2> HIDE DEF r1, S
  <2>2. RqOK(r2, S, sched_class, prio)
    BY <2>1, PutPrevRqOK, Zenon
  <2> HIDE DEF r2
  <2>3. RqOK(r3, S, sched_class, prio)
    BY Zenon, <2>2, SetCurrRqOK
  <2> HIDE DEF r3
  <2>4. RqOK(r3, S, sched_class', prio')
    <3>1. \A q \in S : sched_class'[q] = sched_class[q] /\ prio'[q] = prio[q]
      BY <1>3, <1>5, Zenon DEF S, TypeOK, All
    <3> QED BY <2>3, <3>1, RestRqOK
  <2>5. CASE on
    <3>1. p \notin S /\ S \cup {p} = on_rq
      BY Zenon, <2>5 DEF S
    <3>2. RqOK(enqueue_task(r3, p, sched_class'[p], prio'[p]), S \cup {p},
               sched_class', prio')
      BY Zenon, <1>4, <1>5, <2>4, <3>1, EnqueueRqOK
    <3> QED BY Zenon, <1>1, <1>5, <2>5, <3>1, <3>2
  <2>6. CASE ~on
    <3>1. S = on_rq
      BY <2>6, Zenon DEF S
    <3> QED BY <1>1, <2>4, <2>6, <3>1, Zenon
  <2> QED BY <2>5, <2>6, Zenon
<1> HIDE DEF r1, r2, r3
<1>7. F \subseteq All
  <2>1. \A G \in check_preempt_curr(sched_class', prio', p) : G \subseteq All
    BY <1>3, CheckPreempt, Zenon
  <2>2. \A G \in switched_to(sched_class', prio', p) : G \subseteq All
    BY <1>3, <1>4, <1>5, <2>1, Zenon DEF switched_to
  <2>3. \A G \in prio_changed(sched_class', prio', p) : G \subseteq All
    BY <1>3, <1>4, <1>5, <2>1, Zenon DEF prio_changed
  <2> QED BY <1>2, <2>2, <2>3, Zenon DEF check_class_changed
<1>8. p \in on_rq /\ p # curr /\ Outranks(class, sched_class[curr])
         => curr \in need_resched'
  <2> SUFFICES ASSUME p \in on_rq, p # curr, Outranks(class, sched_class[curr])
               PROVE  curr \in need_resched'
    BY Zenon
  <2>0. /\ sched_class[curr] \in {"rt", "fair", "dummy"}
        /\ sched_class'[curr] = sched_class[curr] /\ prio'[curr] = prio[curr]
        /\ sched_class[curr] # "rt" => ~rt_prio(prio[curr])
        /\ prio[curr] \in Int
    <3>1. sched_class'[curr] = sched_class[curr] /\ prio'[curr] = prio[curr]
      BY Zenon, <1>3, <1>5
    <3>2. /\ sched_class[curr] \in {"rt", "fair", "dummy"}
          /\ sched_class[curr] # "rt" => ~rt_prio(prio[curr])
      <4>1. sched_class[curr] \in {"rt", "fair", "dummy", "idle"}
        BY Zenon, <1>3 DEF TypeOK
      <4>2. /\ sched_class[curr] # "idle"
            /\ sched_class[curr] # "rt" => ~rt_prio(prio[curr])
        BY Zenon, <1>3 DEF AttrOK
      <4> QED BY Zenon, <4>1, <4>2
    <3>3. prio[curr] \in 0 .. MAX_PRIO - 1
      BY Zenon, <1>3 DEF TypeOK
    <3>4. prio[curr] \in Int
      BY <3>3
    <3> QED BY Zenon, <3>1, <3>2, <3>4
  <2>1. CASE class = sched_class[p]
    <3>1. curr \in need_resched
      BY Zenon, <2>1 DEF IInv, ClassPreemption
    <3> QED BY Zenon, <1>2, <3>1
  <2>2. CASE class # sched_class[p] /\ class = "rt"
    <3>1. F \in {IF p # curr /\ prio'[p] < prio'[curr] THEN {curr} ELSE {}}
      BY <1>2, <1>5, <2>2, Zenon DEF check_class_changed, switched_to
    <3>2. prio'[p] < prio'[curr]
      <4>1. rt_prio(new) /\ ~rt_prio(prio[curr])
        BY <1>4, <2>0, <2>2 DEF Outranks, ClassRank
      <4> QED BY <1>5, <2>0, <4>1 DEF rt_prio
    <3> QED BY Zenon, <1>2, <3>1, <3>2
  <2>3. CASE class # sched_class[p] /\ class = "fair"
    <3>1. F \in check_preempt_curr(sched_class', prio', p)
      BY <1>2, <1>5, <2>3, Zenon DEF check_class_changed, switched_to
    <3>2. class # sched_class[curr]
      BY <2>0 DEF Outranks, ClassRank
    <3>3. sched_class'[p] = class /\ p \in All /\ curr \in All
      BY <1>3, <1>5, Zenon
    <3>4. curr \in F
      <4>1. /\ sched_class'[p] # sched_class'[curr]
            /\ Outranks(sched_class'[p], sched_class'[curr])
        BY <2>0, <3>2, <3>3, Zenon
      <4> QED BY <3>1, <3>3, <4>1, CheckPreempt, Zenon
    <3> QED BY <1>2, <3>4, Zenon
  <2>4. CASE class = "dummy"
    BY <2>0, <2>4 DEF Outranks, ClassRank
  <2> QED BY Zenon, <1>4, <2>1, <2>2, <2>3, <2>4
<1>9. p = curr /\ class # sched_class[p] /\ class # "rt" => curr \in need_resched'
  BY <1>2, <1>3, <1>4, <1>5 DEF check_class_changed, switched_to
<1>10. /\ need_resched \subseteq need_resched' /\ need_resched' \subseteq All
       /\ static_prio' \in [All -> MAX_RT_PRIO .. MAX_PRIO - 1]
  BY <1>1, <1>2, <1>3, <1>7, Zenon DEF TypeOK
<1> QED BY Zenon, <1>1, <1>4, <1>6, <1>8, <1>9, <1>10, AttrStep

LEMMA SetUserNiceStep ==
  ASSUME IInv, NEW p \in Tasks, NEW stat \in NormalPrios, set_user_nice(p, stat)
  PROVE  IInv'
<1> USE RunQueueAssumption
<1> DEFINE new   == effective_prio(p, stat)
           class == IF dummy_prio(new) THEN "dummy" ELSE sched_class[p]
           on    == p \in on_rq
           can   == on => CanDequeue(rq, p, sched_class[p]) /\ CanEnqueue(class, new)
<1>1. /\ TypeOK /\ AttrOK /\ RqOK(rq, on_rq, sched_class, prio)
      /\ p \in All /\ curr \in Tasks /\ curr \in All /\ curr \in on_rq /\ curr # Idle
      /\ ClassPreemption
  BY Zenon DEF IInv, All, TypeOK, NoLostTask, InTask, set_user_nice
<1>2. stat \in MAX_RT_PRIO .. MAX_PRIO - 1
  BY Zenon, SchedAssumption
<1>3. static_prio' = [static_prio EXCEPT ![p] = stat]
        => static_prio' \in [All -> MAX_RT_PRIO .. MAX_PRIO - 1]
  BY <1>1, <1>2 DEF TypeOK
<1>4. CASE policy[p] = "FIFO"
  <2>1. /\ static_prio' \in [All -> MAX_RT_PRIO .. MAX_PRIO - 1]
        /\ UNCHANGED <<prio, policy, rt_priority, reset_on_fork, sched_class>>
        /\ UNCHANGED <<state, on_rq, newborn, nr_uninterruptible>>
        /\ UNCHANGED <<timeslice, age_threshold, need_resched, curr, looping, rq, oops>>
    BY Zenon, <1>3, <1>4 DEF set_user_nice, life, sysctl
  <2>2. TypeOK' /\ AttrOK' /\ ClassPreemption' /\ RqOK(rq, on_rq, sched_class, prio)'
    BY <1>1, <2>1, Zenon DEF TypeOK, AttrOK, ClassPreemption
  <2>3. /\ state'[Idle] = "RUNNING" /\ NoLostTask'
        /\ nr_uninterruptible' = Cardinality(Sleepers')
    BY Zenon, <2>1, QuietLife
  <2> QED BY Zenon, <2>2, <2>3 DEF IInv
<1>5. CASE policy[p] # "FIFO" /\ ~can
  BY Zenon, <1>5, FaultStep DEF set_user_nice
<1>6. CASE policy[p] # "FIFO" /\ can
  <2>1. /\ static_prio' = [static_prio EXCEPT ![p] = stat]
        /\ prio' = [prio EXCEPT ![p] = new]
        /\ sched_class' = [sched_class EXCEPT ![p] = class]
        /\ rq' = IF on THEN enqueue_task(dequeue_task(rq, p, sched_class[p]), p, class, new)
                       ELSE rq
        /\ need_resched' = IF on /\ (new < prio[p] \/ (new > prio[p] /\ p = curr))
                           THEN need_resched \cup {curr} ELSE need_resched
        /\ UNCHANGED <<policy, rt_priority, reset_on_fork, life, sysctl, curr, looping, oops>>
    BY Zenon, <1>6 DEF set_user_nice
  <2>2. /\ new \in 0 .. MAX_PRIO - 1
        /\ rt_prio(new) <=> rt_prio(prio[p])
    <3>1. prio[p] \in 0 .. MAX_PRIO - 1
      BY <1>1, Zenon DEF TypeOK
    <3>2. CASE rt_prio(prio[p])
      <4>1. new = prio[p]
        BY Zenon, <3>2 DEF effective_prio
      <4> QED BY Zenon, <3>1, <3>2, <4>1
    <3>3. CASE ~rt_prio(prio[p])
      <4>1. new = stat
        BY Zenon, <1>6, <3>3 DEF effective_prio, normal_prio
      <4>2. stat \in 0 .. MAX_PRIO - 1 /\ ~rt_prio(stat)
        BY <1>2 DEF rt_prio
      <4> QED BY Zenon, <3>3, <4>1, <4>2
    <3> QED BY Zenon, <3>2, <3>3
  <2>3. prio[p] \in Int /\ (dummy_prio(new) => ~rt_prio(new))
    BY <1>1, <2>2, DummyRqAssumption DEF TypeOK, MAX_PRIO, dummy_prio, rt_prio
  <2>4. /\ class \in {"rt", "fair", "dummy"}
        /\ class = "rt" <=> rt_prio(new)
        /\ class = "fair" => ~dummy_prio(new)
        /\ class # sched_class[p] => class = "dummy" /\ sched_class[p] = "fair" /\ new > prio[p]
    <3>1. /\ sched_class[p] \in {"rt", "fair", "dummy"}
          /\ sched_class[p] = "rt" <=> rt_prio(prio[p])
          /\ sched_class[p] = "fair" => ~dummy_prio(prio[p])
      BY <1>1, Zenon DEF AttrOK, TypeOK
    <3>2. dummy_prio(new) /\ ~dummy_prio(prio[p]) => new > prio[p]
      BY <2>2, <2>3, DummyRqAssumption DEF dummy_prio, MAX_PRIO
    <3> HIDE DEF new
    <3> QED BY Zenon, <2>2, <2>3, <3>1, <3>2
  <2> HIDE DEF new, class
  <2>5. /\ prio'[p] = new /\ sched_class'[p] = class
        /\ \A q \in All : q # p => prio'[q] = prio[q] /\ sched_class'[q] = sched_class[q]
    BY <1>1, <2>1, Zenon DEF TypeOK
  <2>6. RqOK(rq', on_rq, sched_class', prio')
    <3> DEFINE S == on_rq \ {p}
               r1 == dequeue_task(rq, p, sched_class[p])
    <3>1. \A q \in S : sched_class'[q] = sched_class[q] /\ prio'[q] = prio[q]
      BY <1>1, <2>5, Zenon DEF TypeOK, All
    <3>2. CASE on
      <4>1. p \notin S /\ S \cup {p} = on_rq
        BY Zenon, <3>2
      <4>2. RqOK(r1, S, sched_class, prio)
        BY <1>1, <3>2, DequeueRqOK, Zenon
      <4> HIDE DEF r1, S
      <4>3. RqOK(r1, S, sched_class', prio')
        BY Zenon, <3>1, <4>2, RestRqOK
      <4>4. CanEnqueue(class, new)
        BY Zenon, <1>6, <3>2
      <4>5. RqOK(enqueue_task(r1, p, sched_class'[p], prio'[p]), S \cup {p},
                 sched_class', prio')
        BY Zenon, <2>4, <2>5, <4>1, <4>3, <4>4, EnqueueRqOK
      <4> QED BY Zenon, <2>1, <2>5, <3>2, <4>1, <4>5 DEF r1
    <3>3. CASE ~on
      <4>1. \A q \in on_rq : sched_class'[q] = sched_class[q] /\ prio'[q] = prio[q]
        BY Zenon, <3>1, <3>3
      <4>2. RqOK(rq, on_rq, sched_class', prio')
        BY <1>1, <4>1, RestRqOK, Zenon
      <4> QED BY Zenon, <2>1, <3>3, <4>2
    <3> QED BY Zenon, <3>2, <3>3
  <2>7. /\ need_resched \subseteq need_resched' /\ need_resched' \subseteq All
    BY <1>1, <2>1, Zenon DEF TypeOK
  <2>8. p \in on_rq /\ p # curr /\ Outranks(class, sched_class[curr])
          => curr \in need_resched'
    <3>1. Outranks(class, sched_class[curr]) => Outranks(sched_class[p], sched_class[curr])
      <4>1. sched_class[curr] \in {"rt", "fair", "dummy"}
        BY <1>1, Zenon DEF AttrOK, TypeOK
      <4> QED BY <2>4, <4>1 DEF Outranks, ClassRank
    <3> QED BY Zenon, <1>1, <2>7, <3>1 DEF ClassPreemption
  <2>9. p = curr /\ class # sched_class[p] /\ class # "rt" => curr \in need_resched'
    BY Zenon, <1>1, <2>1, <2>4
  <2>10. /\ policy' \in [All -> {"NORMAL", "BATCH", "FIFO"}]
         /\ rt_priority' \in [All -> Nat]
         /\ reset_on_fork' \subseteq Tasks
         /\ \A q \in Tasks : policy'[q] = policy[q] /\ rt_priority'[q] = rt_priority[q]
         /\ policy'[p] # "FIFO"
    BY <1>1, <1>6, <2>1, Zenon DEF TypeOK
  <2>11. /\ static_prio' \in [All -> MAX_RT_PRIO .. MAX_PRIO - 1]
         /\ UNCHANGED <<life, sysctl, curr, looping, oops>>
    BY Zenon, <1>3, <2>1
  <2> QED BY Zenon, <2>1, <2>2, <2>4, <2>6, <2>7, <2>8, <2>9, <2>10, <2>11, AttrStep
<1> QED BY <1>4, <1>5, <1>6, Zenon

LEMMA RtMutexStep ==
  ASSUME IInv, NEW p \in Tasks, NEW new \in BoostPrios \cup {NormalPrio(p)},
         rt_mutex_setprio(p, new)
  PROVE  IInv'
<1>1. TypeOK /\ AttrOK /\ InTask /\ new <= NormalPrio(p) /\ p \in All
  BY Zenon DEF IInv, rt_mutex_setprio, All
<1>2. CASE ~CanReclass(p)
  BY <1>2, FaultStep, Zenon DEF rt_mutex_setprio
<1>3. CASE CanReclass(p)
  <2>1. Reclass(p, new) /\ UNCHANGED <<policy, rt_priority, reset_on_fork>>
    BY <1>3, Zenon DEF rt_mutex_setprio
  <2>2. /\ NormalPrio(p) \in 0 .. MAX_PRIO - 1
        /\ rt_prio(NormalPrio(p)) <=> policy[p] = "FIFO"
    <3>1. /\ rt_priority[p] \in Nat /\ static_prio[p] \in MAX_RT_PRIO .. MAX_PRIO - 1
          /\ policy[p] = "FIFO" => rt_priority[p] \in 1 .. MAX_RT_PRIO - 1
      BY <1>1, Zenon DEF TypeOK, AttrOK
    <3> QED BY <3>1, NormalPrioType, Zenon DEF NormalPrio
  <2>3. new \in 0 .. MAX_PRIO - 1
    BY Zenon, <2>2, SchedAssumption
  <2>4. policy[p] = "FIFO" => /\ rt_prio(new)
                              /\ rt_priority[p] \in 1 .. MAX_RT_PRIO - 1
    <3>1. policy[p] = "FIFO" => rt_prio(new)
      BY <1>1, <2>2, <2>3, DummyRqAssumption, RunQueueAssumption DEF rt_prio, MAX_PRIO
    <3> QED BY <1>1, <3>1, Zenon DEF AttrOK
  <2>5. /\ policy' \in [All -> {"NORMAL", "BATCH", "FIFO"}]
        /\ rt_priority' \in [All -> Nat]
        /\ reset_on_fork' \subseteq Tasks
        /\ \A q \in Tasks : policy'[q] = policy[q] /\ rt_priority'[q] = rt_priority[q]
    BY <1>1, <2>1, Zenon DEF TypeOK
  <2> QED BY Zenon, <1>1, <2>1, <2>3, <2>4, <2>5, ReclassStep
<1> QED BY Zenon, <1>2, <1>3

LEMMA SetSchedulerStep ==
  ASSUME IInv, NEW p \in Tasks, NEW pol \in Policies, NEW rtp \in 0 .. MAX_RT_PRIO - 1,
         NEW reset \in BOOLEAN, sched_setscheduler(p, pol, rtp, reset)
  PROVE  IInv'
<1> DEFINE normal == normal_prio(pol, rtp, static_prio[p])
<1>1. TypeOK /\ AttrOK /\ InTask /\ p \in All /\ ((pol = "FIFO") = (rtp # 0))
  BY Zenon DEF IInv, sched_setscheduler, All
<1>2. CASE ~CanReclass(p)
  BY <1>2, FaultStep, Zenon DEF sched_setscheduler
<1>3. CASE CanReclass(p)
  <2>1. /\ policy' = [policy EXCEPT ![p] = pol]
        /\ rt_priority' = [rt_priority EXCEPT ![p] = rtp]
        /\ reset_on_fork' = IF reset THEN reset_on_fork \cup {p} ELSE reset_on_fork \ {p}
    BY <1>3, Zenon DEF sched_setscheduler
  <2>2. PICK new \in {b \in BoostPrios : b < normal} \cup {normal} : Reclass(p, new)
    BY <1>3, Zenon DEF sched_setscheduler
  <2>3. rtp \in Nat /\ (pol = "FIFO" => rtp \in 1 .. MAX_RT_PRIO - 1)
    BY <1>1, RunQueueAssumption
  <2>4. /\ normal \in 0 .. MAX_PRIO - 1
        /\ rt_prio(normal) <=> pol = "FIFO"
    <3>1. static_prio[p] \in MAX_RT_PRIO .. MAX_PRIO - 1
      BY <1>1, Zenon DEF TypeOK
    <3> QED BY Zenon, <2>3, <3>1, NormalPrioType
  <2> HIDE DEF normal
  <2>5. new \in 0 .. MAX_PRIO - 1
    BY Zenon, <2>2, <2>4, SchedAssumption
  <2>6. pol = "FIFO" => rt_prio(new)
    BY <2>2, <2>4, <2>5, DummyRqAssumption, RunQueueAssumption DEF rt_prio, MAX_PRIO
  <2>7. /\ policy' \in [All -> {"NORMAL", "BATCH", "FIFO"}]
        /\ policy'[p] = pol
        /\ \A q \in Tasks : q # p => policy'[q] = policy[q]
    BY <1>1, <2>1, SchedAssumption DEF TypeOK
  <2>8. /\ rt_priority' \in [All -> Nat]
        /\ rt_priority'[p] = rtp
        /\ \A q \in Tasks : q # p => rt_priority'[q] = rt_priority[q]
    BY <1>1, <2>1, <2>3 DEF TypeOK
  <2>9. reset_on_fork' \subseteq Tasks
    BY <1>1, <2>1, Zenon DEF TypeOK
  <2> QED BY <1>1, <2>2, <2>3, <2>5, <2>6, <2>7, <2>8, <2>9, ReclassStep, Zenon
<1> QED BY Zenon, <1>2, <1>3

=============================================================================
