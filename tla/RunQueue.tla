------------------------------ MODULE RunQueue ------------------------------
(***************************************************************************)
(* The run queue of the one CPU: the dispatch of kernel/sched/core.c to    *)
(* the scheduling classes rt > fair > dummy > idle.  A run queue is the    *)
(* record                                                                  *)
(*   dummy  the lists of the dummy class (DummyRq),                        *)
(*   cfs    the entities of the fair class (CfsRq),                        *)
(*   rt     the tasks queued in the rt class (kernel/sched/rt.c is not in  *)
(*          this repository: an external priority queue),                  *)
(*   nr     rq->nr_running.                                                *)
(***************************************************************************)
EXTENDS DummyRq, CfsRq

CONSTANTS
    Idle,           \* rq->idle, the idle task of the CPU
    MAX_RT_PRIO     \* priorities below it are real time (100)

ASSUME RunQueueAssumption ==
    /\ MAX_RT_PRIO \in Nat
    /\ MAX_RT_PRIO < MIN_DUMMY_PRIO
    /\ IsFiniteSet(Tasks)
    /\ Idle \notin Tasks
    /\ None \notin Tasks \cup {Idle}

RunQueues == [dummy : DummyRqs,
              cfs   : [on : SUBSET Tasks, tree : SUBSET Tasks, curr : Tasks \cup {None}],
              rt    : SUBSET Tasks,
              nr    : Nat]

\* The place of each class in the list that for_each_class walks.
ClassRank == [rt |-> 1, fair |-> 2, dummy |-> 3, idle |-> 4]

rt_prio(prio) == prio < MAX_RT_PRIO

\* The three-way choice of sched_fork, rt_mutex_setprio and __setscheduler.
ClassOf(prio) ==
    IF rt_prio(prio) THEN "rt"
    ELSE IF dummy_prio(prio) THEN "dummy" ELSE "fair"

\* for_each_class reaches class c before class d.
Outranks(c, d) == ClassRank[c] < ClassRank[d]

init_rq == [dummy |-> init_dummy_rq, cfs |-> init_cfs_rq, rt |-> {}, nr |-> 0]

\* queues[p->prio - DUMMY_PRIORITY_MIN] is a list of the array.
CanEnqueue(class, prio) == class = "dummy" => Level(prio) \in Levels

enqueue_task(r, p, class, prio) ==
    CASE class = "dummy" -> [r EXCEPT !.dummy = enqueue_task_dummy(@, p, prio),
                                      !.nr = @ + 1]
      [] class = "fair"  -> [r EXCEPT !.cfs = enqueue_task_fair(@, p),
                                      !.nr = @ + 1]
      [] class = "rt"    -> [r EXCEPT !.rt = @ \cup {p},
                                      !.nr = @ + 1]

CanDequeue(r, p, class) == class = "fair" => CanDequeueFair(r.cfs, p)

dequeue_task(r, p, class) ==
    CASE class = "dummy" -> [r EXCEPT !.dummy = dequeue_task_dummy(@, p),
                                      !.nr = @ - 1]
      [] class = "fair"  -> [r EXCEPT !.cfs = dequeue_task_fair(@, p),
                                      !.nr = @ - 1]
      [] class = "rt"    -> [r EXCEPT !.rt = @ \ {p},
                                      !.nr = @ - 1]

\* put_prev_task and set_curr_task do nothing in the other classes.
put_prev_task(r, p, class) ==
    IF class = "fair" THEN [r EXCEPT !.cfs = put_prev_task_fair(@, p)] ELSE r

set_curr_task(r, p, class) ==
    IF class = "fair" THEN [r EXCEPT !.cfs = set_next_entity(@, p)] ELSE r

\* The class that pick_next_task takes the next task from.
PickClass(r) ==
    IF r.rt # {} THEN "rt"
    ELSE IF r.cfs.on # {} THEN "fair"
    ELSE IF Linked(r.dummy) # {} THEN "dummy" ELSE "idle"

CanPick(r) == PickClass(r) = "fair" => CanPickFair(r.cfs)

\* The tasks pick_next_task may return.
Candidates(r, prio) ==
    CASE PickClass(r) = "rt"    -> {p \in r.rt : \A q \in r.rt : prio[p] <= prio[q]}
      [] PickClass(r) = "fair"  -> r.cfs.tree
      [] PickClass(r) = "dummy" -> {pick_next_task_dummy(r.dummy)}
      [] PickClass(r) = "idle"  -> {Idle}

\* ... and what picking p does to the queues.
pick_next_task(r, p) ==
    CASE PickClass(r) = "fair"  -> [r EXCEPT !.cfs = set_next_entity(@, p)]
      [] PickClass(r) = "dummy" -> [r EXCEPT !.dummy = set_next_dummy(@, p)]
      [] OTHER                  -> r

=============================================================================
