---------------------------- MODULE LoadTracking ----------------------------
(***************************************************************************)
(* The load averages of a task group's run queues (kernel/sched/fair.c):   *)
(* what the queued tasks contribute (runnable_load_avg), what the sleeping *)
(* ones still contribute while it decays (blocked_load_avg), and what a    *)
(* task that is woken up elsewhere leaves behind (removed_load, added      *)
(* without the lock of the run queue).                                     *)
(*                                                                         *)
(* A contribution is recomputed to any value of Contribs (RunnableAvg has  *)
(* the arithmetic); a decay of n periods divides by 2^n.                   *)
(***************************************************************************)
EXTENDS Integers, FiniteSets, FiniteSetsExt

CONSTANTS
    LtCpus, LtTasks,
    FirstCpu,           \* where the tasks start
    Contribs,           \* what a recomputed contribution may be
    MaxClock,           \* bound on the decay counters
    LtMaxMoves            \* bound on migrations and class changes

VARIABLES
    ltq,        \* per CPU: runnable, blocked, removed, counter (decay_counter), behind
                \* (periods the clock is ahead of last_decay), contrib (tg_load_contrib)
    ltse,       \* per task: cpu, state, contrib (load_avg_contrib), count (decay_count)
    load_avg,   \* of the task group
    ltmoves     \* ghost: migrations and class changes so far

ltVars == <<ltq, ltse, load_avg, ltmoves>>

LtInit ==
    /\ ltq = [c \in LtCpus |-> [runnable |-> 0, blocked |-> 0, removed |-> 0, counter |-> 1,
                                behind |-> 0, contrib |-> 0]]
    /\ ltse \in [LtTasks -> [cpu : {FirstCpu}, state : {"new"}, contrib : {0}, count : {0}]]
    /\ load_avg = 0 /\ ltmoves = 0
-----------------------------------------------------------------------------
decay(v, n) == v \div 2 ^ n
Magnitude(x) == IF x < 0 THEN -x ELSE x

subtract_blocked_load_contrib(q, contrib) ==
    [q EXCEPT !.blocked = IF contrib < @ THEN @ - contrib ELSE 0]

\* The entity s of queue q decays as its queue has since it went to sleep. An entity
\* that is up to date is left as it is, its count included.
__synchronize_entity_decay(q, s) ==
    IF q.counter = s.count THEN s
    ELSE [s EXCEPT !.contrib = decay(@, q.counter - s.count), !.count = 0]

\* Fold what was removed, decay what is blocked.
update_cfs_rq_blocked_load(q, force) ==
    LET less == [subtract_blocked_load_contrib(q, q.removed) EXCEPT !.removed = 0]
    IN IF q.behind = 0 /\ ~force THEN q
       ELSE [less EXCEPT !.blocked = decay(@, q.behind), !.counter = @ + q.behind,
                         !.behind = 0]

\* How much the group's load_avg and the queue's share of it change at the end of that.
__update_cfs_rq_tg_load_contrib(q, force) ==
    LET change == q.runnable + q.blocked - q.contrib
    IN IF force \/ Magnitude(change) > q.contrib \div 8 THEN change ELSE 0

\* Queue c becomes q, updated: update_cfs_rq_blocked_load and what follows in it.
Update(c, q, force) ==
    LET new    == update_cfs_rq_blocked_load(q, force)
        change == IF q.behind = 0 /\ ~force THEN 0
                  ELSE __update_cfs_rq_tg_load_contrib(new, force)
    IN [queue |-> [new EXCEPT !.contrib = @ + change], change |-> change]

\* What update_entity_load_avg may make of the contribution: the same, if no period
\* is over, or another one.
update_entity_load_avg(s) == {s} \cup {[s EXCEPT !.contrib = k] : k \in Contribs}
-----------------------------------------------------------------------------
\* Mutant: the contribution is added before it is recomputed.
EnqueueOld(t, s, wakeup) ==
    LET c       == s.cpu
        moved   == s.count <= 0
        synced  == IF moved THEN s ELSE __synchronize_entity_decay(ltq[c], s)
        waking  == wakeup /\ ~moved
        left    == IF waking THEN subtract_blocked_load_contrib(ltq[c], synced.contrib)
                   ELSE ltq[c]
        updated == IF waking \/ s.count < 0 THEN update_entity_load_avg(synced) ELSE {synced}
    IN \E u \in updated :
         LET r == Update(c, [left EXCEPT !.runnable = @ + synced.contrib], ~waking)
         IN /\ ltq' = [ltq EXCEPT ![c] = r.queue]
            /\ ltse' = [ltse EXCEPT ![t] = [u EXCEPT !.state = "queued",
                                                     !.count = IF moved THEN 0 ELSE @]]
            /\ load_avg' = load_avg + r.change

\* enqueue_entity_load_avg: the queue after s is put into it, waking up or moved.
enqueue_entity_load_avg(t, s, wakeup) ==
    LET c       == s.cpu
        moved   == s.count <= 0
        synced  == IF moved THEN s ELSE __synchronize_entity_decay(ltq[c], s)
        waking  == wakeup /\ ~moved
        left    == IF waking THEN subtract_blocked_load_contrib(ltq[c], synced.contrib)
                   ELSE ltq[c]
        updated == IF waking \/ s.count < 0 THEN update_entity_load_avg(synced) ELSE {synced}
    IN \E u \in updated :
         LET r == Update(c, [left EXCEPT !.runnable = @ + u.contrib], ~waking)
         IN /\ ltq' = [ltq EXCEPT ![c] = r.queue]
            /\ ltse' = [ltse EXCEPT ![t] = [u EXCEPT !.state = "queued",
                                                     !.count = IF moved THEN 0 ELSE @]]
            /\ load_avg' = load_avg + r.change

\* A task of contribution k leaves queue q, to sleep or not.
Dequeued(c, t, k, sleep) ==
    Update(c, [ltq[c] EXCEPT !.runnable = @ + k - ltse[t].contrib], ~sleep)

lt_wake_up_new_task(t) ==
    /\ ltse[t].state = "new"
    /\ enqueue_entity_load_avg(t, ltse[t], FALSE)
    /\ UNCHANGED ltmoves

\* dequeue_entity_load_avg with sleep = 1.
lt_sleep(t) ==
    LET c == ltse[t].cpu
    IN /\ ltse[t].state = "queued"
       /\ \E s \in update_entity_load_avg(ltse[t]) :
            LET r == Dequeued(c, t, s.contrib, TRUE)
            IN /\ ltq' = [ltq EXCEPT ![c] = [r.queue EXCEPT !.runnable = @ - s.contrib,
                                                            !.blocked = @ + s.contrib]]
               /\ ltse' = [ltse EXCEPT ![t] = [s EXCEPT !.state = "asleep",
                                                        !.count = r.queue.counter]]
               /\ load_avg' = load_avg + r.change
       /\ UNCHANGED ltmoves

\* A wake-up on the CPU it slept on, or on the one the migration below has chosen.
lt_wake(t) ==
    /\ ltse[t].state \in {"asleep", "migrated"}
    /\ enqueue_entity_load_avg(t, ltse[t], TRUE)
    /\ UNCHANGED ltmoves

\* The task as migrate_task_rq_fair makes it: synchronised, the decays since then kept
\* as a negative count.
Migrating(q, s) ==
    LET synced == __synchronize_entity_decay(q, s)
    IN IF s.count = 0 THEN s
       ELSE [synced EXCEPT !.count = IF q.counter = s.count THEN 0
                                     ELSE s.count - q.counter]

\* A wake-up that goes to another CPU: migrate_task_rq_fair runs without the lock of
\* the run queue the task slept on, reads its decay_counter first ...
migrate_task_rq_fair(t) ==
    /\ ltse[t].state = "asleep" /\ ltmoves < LtMaxMoves
    /\ ltse' = [ltse EXCEPT ![t] = [Migrating(ltq[ltse[t].cpu], ltse[t])
                                        EXCEPT !.state = "migrating"]]
    /\ ltmoves' = ltmoves + 1
    /\ UNCHANGED <<ltq, load_avg>>

\* ... and adds the contribution to its removed_load later.
atomic64_add_removed_load(t, c) ==
    LET s == ltse[t]
    IN /\ s.state = "migrating" /\ c # s.cpu
       /\ ltq' = [ltq EXCEPT ![s.cpu].removed = @ + s.contrib]
       /\ ltse' = [ltse EXCEPT ![t].state = "migrated", ![t].cpu = c]
       /\ UNCHANGED <<load_avg, ltmoves>>

\* The load balancer moves a queued task, with both run queues locked: dequeued without
\* sleep, set_task_cpu with its migrate_task_rq_fair, enqueued without wake-up.
lt_move_task(t, c) ==
    LET old == ltse[t].cpu
    IN /\ ltse[t].state = "queued" /\ c # old /\ ltmoves < LtMaxMoves
       /\ \E s \in update_entity_load_avg(ltse[t]) :
            LET out  == Dequeued(old, t, s.contrib, FALSE)
                src  == [out.queue EXCEPT !.runnable = @ - s.contrib]
                m    == Migrating(src, s)
                gone == IF s.count = 0 THEN 0 ELSE m.contrib
                in   == Update(c, [ltq[c] EXCEPT !.runnable = @ + m.contrib], TRUE)
            IN /\ ltq' = [ltq EXCEPT ![old] = [src EXCEPT !.removed = @ + gone],
                                     ![c] = in.queue]
               /\ ltse' = [ltse EXCEPT ![t] = [m EXCEPT !.cpu = c, !.count = 0]]
               /\ load_avg' = load_avg + out.change + in.change
       /\ ltmoves' = ltmoves + 1

\* The tick (entity_tick) and __update_blocked_averages_cpu: the latter without a task.
entity_tick(c) ==
    \E cur \in {t \in LtTasks : ltse[t].state = "queued" /\ ltse[t].cpu = c} :
       \E s \in update_entity_load_avg(ltse[cur]) :
          LET r == Update(c, [ltq[c] EXCEPT !.runnable = @ + s.contrib - ltse[cur].contrib], TRUE)
          IN /\ ltq' = [ltq EXCEPT ![c] = r.queue]
             /\ ltse' = [ltse EXCEPT ![cur] = s]
             /\ load_avg' = load_avg + r.change
             /\ UNCHANGED ltmoves

__update_blocked_averages_cpu(c) ==
    LET r == Update(c, ltq[c], TRUE)
    IN /\ ltq' = [ltq EXCEPT ![c] = r.queue]
       /\ load_avg' = load_avg + r.change
       /\ UNCHANGED <<ltse, ltmoves>>

\* A period of CPU c's clock.
lt_clock(c) ==
    /\ ltq[c].counter + ltq[c].behind < MaxClock
    /\ ltq' = [ltq EXCEPT ![c].behind = @ + 1]
    /\ UNCHANGED <<ltse, load_avg, ltmoves>>

\* A sleeping task leaves the class for good.
lt_switched_from_fair(t) ==
    LET s == __synchronize_entity_decay(ltq[ltse[t].cpu], ltse[t])
    IN /\ ltse[t].state = "asleep" /\ ltmoves < LtMaxMoves
       /\ ltq' = [ltq EXCEPT ![s.cpu] = subtract_blocked_load_contrib(@, s.contrib)]
       /\ ltse' = [ltse EXCEPT ![t] = [s EXCEPT !.state = "left"]]
       /\ ltmoves' = ltmoves + 1
       /\ UNCHANGED load_avg

LtNext ==
    \/ \E t \in LtTasks :
          \/ lt_wake_up_new_task(t) \/ lt_sleep(t) \/ lt_wake(t) \/ migrate_task_rq_fair(t)
          \/ lt_switched_from_fair(t)
          \/ \E c \in LtCpus : atomic64_add_removed_load(t, c) \/ lt_move_task(t, c)
    \/ \E c \in LtCpus : entity_tick(c) \/ __update_blocked_averages_cpu(c) \/ lt_clock(c)

LtSpec == LtInit /\ [][LtNext]_ltVars
-----------------------------------------------------------------------------
On(c, states) == {t \in LtTasks : ltse[t].cpu = c /\ ltse[t].state \in states}
Total(S, F(_)) == MapThenSumSet(F, S)

\* No average is negative, and the load of the group is what its queues contributed
\* to it, however their updates interleave.
LtTypeOK ==
    /\ \A c \in LtCpus : ltq[c].runnable >= 0 /\ ltq[c].blocked >= 0 /\ ltq[c].removed >= 0
    /\ load_avg = Total(LtCpus, LAMBDA c : ltq[c].contrib)

\* runnable_load_avg of a queue is exactly the sum of the contributions of the tasks
\* in it: no order of wake-ups, sleeps, moves and updates leaves some behind.
RunnableExact ==
    \A c \in LtCpus : ltq[c].runnable = Total(On(c, {"queued"}), LAMBDA t : ltse[t].contrib)

\* What a sleeping task contributes after the decays of its queue.
Decayed(t) == decay(ltse[t].contrib, ltq[ltse[t].cpu].counter - ltse[t].count)

\* blocked_load_avg is at most what the tasks that sleep there, are on their way or have
\* been reported as removed contribute, and the rounding of the decays: the load of a task
\* that woke up, moved or left does not stay behind.
NothingStaysBehind ==
    \A c \in LtCpus :
        ltq[c].blocked <= ltq[c].removed + Total(On(c, {"asleep"}), Decayed)
                          + Total(On(c, {"migrating"}), LAMBDA t : ltse[t].contrib)
                          + Cardinality(LtTasks)

\* The sums of a queue are those of its tasks, and nothing of a task stays behind
\* where it no longer is, however wake-ups, migrations and updates interleave
\* (fair.c:1473, 1504, 3417).
LoadsExact ==
    /\ LtTypeOK
    /\ RunnableExact
    /\ NothingStaysBehind

=============================================================================
