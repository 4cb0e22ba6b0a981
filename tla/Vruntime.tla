------------------------------ MODULE Vruntime ------------------------------
(***************************************************************************)
(* Virtual time in the fair class (kernel/sched/fair.c), without groups:   *)
(* vruntime and min_vruntime as unsigned numbers of a small width that     *)
(* wrap, the normalised form a task carries between two run queues, the    *)
(* placement of sleepers and children, the buddies, and the preemption     *)
(* checks of the tick and of a wake-up.                                    *)
(*                                                                         *)
(* The unit of time is the tick.  An operation that calls update_curr may  *)
(* find the time since the last tick (early) and charge it; the tick       *)
(* charges what is left.  calc_delta_mine is an exact division, rounded to *)
(* the nearest.                                                            *)
(***************************************************************************)
EXTENDS Integers, FiniteSets, FiniteSetsExt

CONSTANTS
    VrCpus, VrTasks, VrNone,
    Weight,          \* task -> load weight
    Policy,          \* task -> "normal", "batch" or "idle"
    Allowed,         \* task -> the CPUs it may run on
    NICE_0_LOAD,
    U64,             \* the number of values of a u64
    StartMins,       \* min_vruntime at the start: just below 0 at boot, or any later value
    sysctl_sched_latency, sysctl_sched_min_granularity,
    sysctl_sched_wakeup_granularity, sched_nr_latency,
    sysctl_sched_child_runs_first,
    First,           \* the task that is there at the start
    Horizon,         \* bound on min_vruntime, from its start: then no time passes
    MaxOps,          \* bound on the sleeps, exits, forks, moves, yields and class changes
    MaxMoves         \* bound on the moves of a task that stays behind min_vruntime

ASSUME VruntimeAssumption ==
    /\ Weight \in [VrTasks -> Nat \ {0}] /\ VrNone \notin VrTasks
    /\ Allowed \in [VrTasks -> (SUBSET VrCpus) \ {{}}]
    /\ Policy \in [VrTasks -> {"normal", "batch", "idle"}]
    /\ {NICE_0_LOAD, U64, sysctl_sched_latency, sysctl_sched_min_granularity,
        sysctl_sched_wakeup_granularity, sched_nr_latency} \subseteq Nat \ {0}
    /\ StartMins \subseteq 0 .. U64 - 1 /\ First \in VrTasks
    /\ {MaxOps, MaxMoves} \subseteq Nat \ {0} /\ Horizon \in 0 .. U64 \div 2
    /\ sysctl_sched_child_runs_first \in BOOLEAN

VARIABLES
    vrq,  \* CPU -> its cfs_rq, rq->curr and TIF_NEED_RESCHED
    start, \* where min_vruntime started
    ops,  \* what is left of MaxOps
    vse   \* task -> its sched_entity, its class and its state

vrVars == <<vrq, vse, start, ops>>

Fresh ==
    [cpu |-> CHOOSE c \in VrCpus : TRUE, vruntime |-> 0, on_rq |-> FALSE, fair |-> TRUE,
     ran |-> 0,         \* sum_exec_runtime - prev_sum_exec_runtime, while it runs
     moves |-> 0,       \* history: enqueues without a wake-up, while it is behind
     state |-> "none"]  \* "run", "sleep", "waking" and "forked" are the others

VrInit ==
    /\ ops = MaxOps
    /\ start \in StartMins
    /\ vrq = [c \in VrCpus |->
               [min_vruntime |-> start,
                curr |-> VrNone,      \* cfs_rq->curr
                running |-> VrNone,   \* rq->curr, if it is one of the tasks
                next |-> VrNone, last |-> VrNone, skip |-> VrNone,
                resched |-> FALSE, early |-> FALSE]]
    /\ vse = [p \in VrTasks |-> [Fresh EXCEPT !.state = IF p = First THEN "forked" ELSE "none"]]

-----------------------------------------------------------------------------
Div(a, b) == (a + b \div 2) \div b   \* rounded to the nearest
Minus(a, b) == (a - b) % U64
Signed(a, b) == LET d == (a - b) % U64 IN IF d < U64 \div 2 THEN d ELSE d - U64

max_vruntime(a, b) == IF Signed(b, a) > 0 THEN b ELSE a
min_vruntime(a, b) == IF Signed(b, a) < 0 THEN b ELSE a
entity_before(s, a, b) == Signed(s.se[a].vruntime, s.se[b].vruntime) < 0

\* The state as one record, so that the helpers compose.
Now == [rq |-> vrq, se |-> vse]
Queued(s, c) == {p \in VrTasks : s.se[p].cpu = c /\ s.se[p].on_rq /\ s.se[p].fair}
Tree(s, c) == Queued(s, c) \ {s.rq[c].curr}

\* Nodes with the same key stay in the order they came; any of them here.
Leftmost(s, c, T) == {p \in T : \A r \in T : ~entity_before(s, r, p)}

\* curr counts even when it is off the queue.
update_min_vruntime(s, c) ==
    LET vs == {s.se[p].vruntime : p \in Tree(s, c) \cup ({s.rq[c].curr} \ {VrNone})} IN
    IF vs = {} THEN s
    ELSE [s EXCEPT !.rq[c].min_vruntime =
             max_vruntime(@, CHOOSE v \in vs : \A u \in vs : min_vruntime(v, u) = v)]

calc_delta_fair(delta, p) == Div(delta * NICE_0_LOAD, Weight[p])

__sched_period(n) ==
    IF n > sched_nr_latency THEN sysctl_sched_min_granularity * n ELSE sysctl_sched_latency

sched_slice(s, c, p) ==
    LET q == Queued(s, c) \cup {p} IN
    Div(__sched_period(Cardinality(q)) * Weight[p], MapThenSumSet(LAMBDA r : Weight[r], q))

sched_vslice(s, c, p) == calc_delta_fair(sched_slice(s, c, p), p)

update_curr(s, c, delta) ==
    LET p == s.rq[c].curr IN
    IF p = VrNone \/ delta = 0 THEN s
    ELSE update_min_vruntime(
           [s EXCEPT !.se[p].vruntime = (@ + calc_delta_fair(delta, p)) % U64,
                     !.se[p].ran = @ + delta], c)

\* Mutant: a sleeper is placed at its bonus, wherever it was.
PlaceBack(s, c, p, initial) ==
    LET v == IF initial THEN s.rq[c].min_vruntime + sched_vslice(s, c, p)
             ELSE Minus(s.rq[c].min_vruntime, sysctl_sched_latency \div 2)
    IN  [s EXCEPT !.se[p].vruntime = v % U64]

\* START_DEBIT and GENTLE_FAIR_SLEEPERS are set.
place_entity(s, c, p, initial) ==
    LET v == IF initial THEN (s.rq[c].min_vruntime + sched_vslice(s, c, p)) % U64
             ELSE Minus(s.rq[c].min_vruntime, sysctl_sched_latency \div 2)
    IN  [s EXCEPT !.se[p].vruntime = max_vruntime(@, v)]

clear_buddies(s, c, p) ==
    [s EXCEPT !.rq[c].last = IF @ = p THEN VrNone ELSE @,
              !.rq[c].next = IF @ = p THEN VrNone ELSE @,
              !.rq[c].skip = IF @ = p THEN VrNone ELSE @]

\* wakeup and waking are ENQUEUE_WAKEUP and ENQUEUE_WAKING.
enqueue_entity(s, c, p, wakeup, waking, delta) ==
    LET added == IF ~wakeup \/ waking
                 THEN [s EXCEPT !.se[p].vruntime = (@ + s.rq[c].min_vruntime) % U64] ELSE s
        charged == update_curr(added, c, delta)
        placed == IF wakeup THEN place_entity(charged, c, p, FALSE) ELSE charged
    IN  [placed EXCEPT !.se[p].on_rq = TRUE, !.se[p].cpu = c,
                       !.se[p].moves = IF wakeup THEN 0 ELSE @ + 1]

\* Mutant: an entity that moves is not normalised.
DequeueKeeps(s, c, p, sleep, delta) ==
    update_min_vruntime([clear_buddies(update_curr(s, c, delta), c, p)
                            EXCEPT !.se[p].on_rq = FALSE], c)

dequeue_entity(s, c, p, sleep, delta) ==
    LET off == [clear_buddies(update_curr(s, c, delta), c, p) EXCEPT !.se[p].on_rq = FALSE]
        normed == IF sleep THEN off
                  ELSE [off EXCEPT !.se[p].vruntime = Minus(@, off.rq[c].min_vruntime)]
    IN  update_min_vruntime(normed, c)

\* The step to s; a task that is not behind min_vruntime starts counting afresh.
Become(s) ==
    /\ vrq' = s.rq
    /\ vse' = [p \in VrTasks |->
                 IF s.se[p].on_rq /\ s.se[p].fair
                      /\ Signed(s.se[p].vruntime, s.rq[s.se[p].cpu].min_vruntime) >= 0
                 THEN [s.se[p] EXCEPT !.moves = 0] ELSE s.se[p]]

-----------------------------------------------------------------------------
wakeup_gran(p) == calc_delta_fair(sysctl_sched_wakeup_granularity, p)

wakeup_preempt_entity(s, curr, p) ==
    LET vdiff == Signed(s.se[curr].vruntime, s.se[p].vruntime) IN
    IF vdiff <= 0 THEN -1 ELSE IF vdiff > wakeup_gran(p) THEN 1 ELSE 0

resched_task(s, c) == [s EXCEPT !.rq[c].resched = TRUE]
set_next_buddy(s, c, p) == IF Policy[p] = "idle" THEN s ELSE [s EXCEPT !.rq[c].next = p]
set_last_buddy(s, c, p) == IF Policy[p] = "idle" THEN s ELSE [s EXCEPT !.rq[c].last = p]

\* Wake-up preemption of the running task by p; NEXT_BUDDY is not set.  For a
\* running task of another class check_preempt_curr does not come here.
check_preempt_wakeup(s, c, p) ==
    LET curr == s.rq[c].running
        scale == Cardinality(Queued(s, c)) >= sched_nr_latency
        preempt(u) == LET r == resched_task(u, c)
                      IN  IF s.se[curr].on_rq /\ scale THEN set_last_buddy(r, c, curr) ELSE r
    IN  IF curr = VrNone THEN resched_task(s, c)   \* the idle task
        ELSE IF curr = p \/ ~s.se[curr].fair \/ s.rq[c].resched THEN s
        ELSE IF Policy[curr] = "idle" /\ Policy[p] # "idle" THEN preempt(s)
        ELSE IF Policy[p] # "normal" THEN s
        ELSE IF wakeup_preempt_entity(s, curr, p) = 1 THEN preempt(set_next_buddy(s, c, p))
        ELSE s

check_preempt_tick(s, c, p) ==
    LET ideal == sched_slice(s, c, p)
        ran == s.se[p].ran
        left == CHOOSE r \in Leftmost(s, c, Tree(s, c)) : TRUE
        delta == Signed(s.se[p].vruntime, s.se[left].vruntime)
    IN  IF ran > ideal THEN clear_buddies(resched_task(s, c), c, p)
        ELSE IF ran < sysctl_sched_min_granularity THEN s
        ELSE IF delta > ideal THEN resched_task(s, c) ELSE s

\* The entities pick_next_entity may return.
pick_next_entity(s, c) ==
    LET T == Tree(s, c)
        fine(p, left) == wakeup_preempt_entity(s, p, left) < 1
        first(left) == IF s.rq[c].skip = left /\ T # {left}
                       THEN {IF fine(r, left) THEN r ELSE left :
                               r \in Leftmost(s, c, T \ {left})}
                       ELSE {left}
        buddy(b, left, else) == IF b # VrNone /\ fine(b, left) THEN {b} ELSE else
    IN  UNION {buddy(s.rq[c].next, left, buddy(s.rq[c].last, left, first(left))) :
                 left \in Leftmost(s, c, T)}

set_next_entity(s, c, p) ==
    [s EXCEPT !.rq[c].curr = p, !.rq[c].running = p, !.se[p].ran = 0]

put_prev_entity(s, c, p, delta) ==
    LET u == IF s.se[p].on_rq THEN update_curr(s, c, delta) ELSE s IN
    [u EXCEPT !.rq[c].curr = VrNone, !.se[p].ran = 0]

-----------------------------------------------------------------------------
\* The time an operation may find since the last tick.
TimePasses(c) == Signed(vrq[c].min_vruntime, start) < Horizon
Delta(c) == IF vrq[c].early \/ vrq[c].curr = VrNone \/ ~TimePasses(c) THEN {0} ELSE {0, 1}
Charged(s, c, d) == [s EXCEPT !.rq[c].early = @ \/ d = 1]
At(c) == vrq[c].running

\* scheduler_tick; the reschedule it asks for comes before the next one.
task_tick_fair(c) ==
    /\ vrq[c].curr # VrNone /\ ~vrq[c].resched /\ TimePasses(c)
    /\ LET p == vrq[c].curr
           s == update_curr(Now, c, IF vrq[c].early THEN 0 ELSE 1)
           k == IF Cardinality(Queued(s, c)) > 1 THEN check_preempt_tick(s, c, p) ELSE s
       IN  Become([k EXCEPT !.rq[c].early = FALSE])

\* Tasks of the other classes that are ready to run here come first.
Others(s, c) == {p \in VrTasks : s.se[p].cpu = c /\ s.se[p].on_rq /\ ~s.se[p].fair}

pick_next_task(s, c) ==
    IF Others(s, c) # {} THEN {[s EXCEPT !.rq[c].running = p] : p \in Others(s, c)}
    ELSE IF Queued(s, c) = {} THEN {[s EXCEPT !.rq[c].running = VrNone, !.rq[c].early = FALSE]}
    ELSE {set_next_entity(clear_buddies(s, c, p), c, p) : p \in pick_next_entity(s, c)}

\* __schedule, with the running task going to sleep, exiting or preempted.
schedule(c, how) ==
    \E d \in Delta(c) :
        LET p == At(c)
            stays == p = VrNone \/ how = "preempt"
            off == IF stays THEN Now
                   ELSE IF vse[p].fair THEN dequeue_entity(Now, c, p, TRUE, d)
                   ELSE [Now EXCEPT !.se[p].on_rq = FALSE]
            gone == IF stays THEN off ELSE [off EXCEPT !.se[p].state = how]
            put == IF p # VrNone /\ vse[p].fair
                   THEN put_prev_entity(gone, c, p, IF stays THEN d ELSE 0) ELSE gone
            left == IF how = "none" THEN [put EXCEPT !.se[p] = Fresh] ELSE put
        IN  /\ how = "none" => \E r \in VrTasks \ {p} : vse[r].state # "none"
            /\ IF p = VrNone THEN how = "preempt" /\ \E r \in VrTasks : vse[r].on_rq /\ vse[r].cpu = c
               ELSE how = "preempt" => vrq[c].resched
            /\ \E s \in pick_next_task(Charged(left, c, d), c) :
                  Become([s EXCEPT !.rq[c].resched = FALSE])

\* try_to_wake_up: the vruntime is normalised without the run queue's lock...
task_waking_fair(p) ==
    /\ vse[p].state = "sleep"
    /\ vse' = [vse EXCEPT ![p].state = "waking",
                          ![p].vruntime = IF vse[p].fair
                                          THEN Minus(@, vrq[vse[p].cpu].min_vruntime) ELSE @]
    /\ UNCHANGED vrq

\* ...and put back on the run queue of the CPU that was selected.
ttwu_do_activate(p, c) ==
    /\ vse[p].state = "waking"
    /\ \E d \in Delta(c) :
          LET s == [Now EXCEPT !.se[p].state = "run", !.se[p].cpu = c]
              e == IF vse[p].fair THEN enqueue_entity(s, c, p, TRUE, TRUE, d)
                   ELSE [s EXCEPT !.se[p].on_rq = TRUE]
          IN  Become(Charged(IF vse[p].fair THEN check_preempt_wakeup(e, c, p)
                             ELSE resched_task(e, c), c, d))

\* The running task forks p.
task_fork_fair(c, p) ==
    /\ vrq[c].curr # VrNone /\ vse[p].state = "none"
    /\ \E d \in Delta(c) :
          LET curr == vrq[c].curr
              s == update_curr([Now EXCEPT !.se[p].cpu = c], c, d)
              placed == place_entity([s EXCEPT !.se[p].vruntime = s.se[curr].vruntime], c, p, TRUE)
              swaps == sysctl_sched_child_runs_first /\ entity_before(placed, curr, p)
              k == IF swaps
                   THEN resched_task([placed EXCEPT
                          !.se[p].vruntime = placed.se[curr].vruntime,
                          !.se[curr].vruntime = placed.se[p].vruntime], c)
                   ELSE placed
          IN  Become(Charged([k EXCEPT !.se[p].state = "forked", !.se[p].fair = TRUE,
                       !.se[p].vruntime = Minus(@, k.rq[c].min_vruntime)], c, d))

wake_up_new_task(p, c) ==
    /\ vse[p].state = "forked"
    /\ \E d \in Delta(c) :
          LET e == enqueue_entity([Now EXCEPT !.se[p].state = "run", !.se[p].cpu = c],
                                  c, p, FALSE, FALSE, d)
          IN  Become(Charged(check_preempt_wakeup(e, c, p), c, d))

\* Load balancing or a change of affinity takes p, which is not running, to c.
move_task(p, c) ==
    /\ vse[p].on_rq /\ vse[p].fair /\ vse[p].cpu # c /\ At(vse[p].cpu) # p
    /\ vse[p].moves < MaxMoves
    /\ LET from == vse[p].cpu IN
       \E d \in Delta(from), e \in Delta(c) :
          LET s == dequeue_entity(Now, from, p, FALSE, d)
              k == enqueue_entity([s EXCEPT !.se[p].cpu = c], c, p, FALSE, FALSE, e)
          IN  Become(Charged(Charged(check_preempt_wakeup(k, c, p), from, d), c, e))

\* sched_yield, without the schedule that follows: the task is marked.
YieldTask(s, c, d) ==
    LET p == s.rq[c].curr
        cleared == clear_buddies(s, c, p)
        charged == IF Policy[p] = "batch" THEN cleared ELSE update_curr(cleared, c, d)
    IN  IF Cardinality(Queued(s, c)) = 1 THEN s
        ELSE [Charged(charged, c, IF Policy[p] = "batch" THEN 0 ELSE d) EXCEPT !.rq[c].skip = p]

yield_task_fair(c) ==
    /\ vrq[c].curr # VrNone
    /\ \E d \in Delta(c) : Become(resched_task(YieldTask(Now, c, d), c))

\* yield_to a task that is not running, on any CPU.
yield_to_task_fair(c, p) ==
    /\ vrq[c].curr # VrNone
    /\ vse[p].on_rq /\ vse[p].fair /\ At(vse[p].cpu) # p
    /\ \E d \in Delta(c), preempt \in BOOLEAN :
          LET to == vse[p].cpu
              s == YieldTask(set_next_buddy(Now, to, p), c, d)
          IN  Become(resched_task(IF preempt /\ to # c THEN resched_task(s, to) ELSE s, c))

\* sched_setscheduler takes p out of the fair class.
switched_from_fair(p) ==
    LET c == vse[p].cpu IN
    /\ vse[p].fair /\ vse[p].state \in {"run", "sleep"}
    /\ \E d \in Delta(c) :
          LET off == IF vse[p].on_rq THEN dequeue_entity(Now, c, p, FALSE, d) ELSE Now
              put == IF vrq[c].curr = p THEN put_prev_entity(off, c, p, 0) ELSE off
              placed == IF vse[p].on_rq THEN put
                        ELSE LET k == place_entity(put, c, p, FALSE)
                             IN  [k EXCEPT !.se[p].vruntime = Minus(@, k.rq[c].min_vruntime)]
              s == [placed EXCEPT !.se[p].fair = FALSE, !.se[p].on_rq = vse[p].on_rq]
          IN  Become(Charged(IF vse[p].on_rq THEN resched_task(s, c) ELSE s, c, d))

\* ...and brings it back; p may be running, waiting or asleep.
switched_to_fair(p) ==
    LET c == vse[p].cpu IN
    /\ ~vse[p].fair /\ vse[p].state \in {"run", "sleep"} /\ vse[p].moves < MaxMoves
    /\ \E d \in Delta(c) :
          LET s == [Now EXCEPT !.se[p].fair = TRUE, !.se[p].on_rq = FALSE]
              set == IF At(c) = p THEN set_next_entity(s, c, p) ELSE s
              e == IF vse[p].on_rq THEN enqueue_entity(set, c, p, FALSE, FALSE, d) ELSE set
          IN  Become(Charged(IF ~vse[p].on_rq THEN e
                             ELSE IF At(c) = p THEN resched_task(e, c)
                             ELSE check_preempt_wakeup(e, c, p), c, d))

-----------------------------------------------------------------------------
VrNext ==
    /\ UNCHANGED start
    /\ \/ /\ UNCHANGED ops
          /\ \/ \E c \in VrCpus : task_tick_fair(c) \/ schedule(c, "preempt")
             \/ \E p \in VrTasks : task_waking_fair(p)
             \/ \E p \in VrTasks : \E c \in Allowed[p] : ttwu_do_activate(p, c) \/ wake_up_new_task(p, c)
       \/ /\ ops > 0 /\ ops' = ops - 1
          /\ \/ \E c \in VrCpus : yield_task_fair(c) \/ schedule(c, "sleep") \/ schedule(c, "none")
             \/ \E p \in VrTasks : switched_from_fair(p) \/ switched_to_fair(p)
             \/ \E p \in VrTasks, c \in VrCpus : task_fork_fair(c, p) \/ yield_to_task_fair(c, p)
             \/ \E p \in VrTasks : \E c \in Allowed[p] : move_task(p, c)

VrSpec == VrInit /\ [][VrNext]_vrVars

-----------------------------------------------------------------------------
VrTypeOK ==
    /\ \A c \in VrCpus : vrq[c].min_vruntime \in 0 .. U64 - 1
    /\ \A c \in VrCpus : vrq[c].curr \in {VrNone, vrq[c].running}
    /\ \A p \in VrTasks :
          /\ vse[p].vruntime \in 0 .. U64 - 1 /\ vse[p].cpu \in VrCpus
          /\ vse[p].on_rq <=> vse[p].state = "run"

\* The buddies are entities of the queue they are named on: pick_next_entity
\* never hands the CPU to a task that sleeps, has moved or is of another class.
BuddiesQueued ==
    \A c \in VrCpus : {vrq[c].next, vrq[c].last, vrq[c].skip} \subseteq Queued(Now, c) \cup {VrNone}

SleeperBonus == sysctl_sched_latency \div 2

\* What can be ahead of min_vruntime: a whole period in virtual time of the
\* lightest task, the wake-up granularity and the time until a tick is served.
Ahead ==
    LET lightest == Min({Weight[p] : p \in VrTasks})
        n == Cardinality(VrTasks)
        period == Max({sysctl_sched_latency, sysctl_sched_min_granularity * n})
    IN  Div((2 * period + sysctl_sched_wakeup_granularity + 2) * NICE_0_LOAD, lightest)

\* How far an enqueue can find min_vruntime behind: it adds min_vruntime before
\* update_curr moves it.
Stale == Ahead + 1

\* Every queued task, and every task on its way between two queues, is within
\* a fixed distance of min_vruntime, whatever order of sleeping, waking, forking,
\* moving and changing class brought it there.  The distance is below half of
\* the range, so (s64)(a - b) orders the tree correctly although vruntime wraps.
SpreadBounded ==
    \A p \in VrTasks :
        LET v == vse[p].vruntime
            lag == IF vse[p].on_rq /\ vse[p].fair
                   THEN Signed(v, vrq[vse[p].cpu].min_vruntime) ELSE Signed(v, 0)
        IN  \/ vse[p].state = "none" \/ (vse[p].state = "sleep" /\ vse[p].fair)
            \/ lag >= (IF vse[p].state = "waking" THEN -(U64 \div 2)
                        ELSE -(SleeperBonus + vse[p].moves * Stale))
                 /\ lag <= Ahead

\* min_vruntime never goes backwards.
MinMonotone ==
    \A c \in VrCpus : Signed(vrq'[c].min_vruntime, vrq[c].min_vruntime) >= 0

\* Sleeping gains no time: a task that wakes is never placed before the place it
\* left, as the distance to min_vruntime it carries to its new queue has it.
NoGain ==
    \A p \in VrTasks, c \in VrCpus :
        vse[p].state = "waking" /\ vse[p].fair /\ ttwu_do_activate(p, c) =>
           Signed(vse'[p].vruntime, (vse[p].vruntime + vrq[c].min_vruntime) % U64) >= 0

\* Whoever a CPU switches to is at most the wake-up granularity ahead of a most
\* deserving task, however many buddies are named.
PickFair ==
    \A c \in VrCpus :
        LET p == vrq'[c].curr
            s == [rq |-> vrq', se |-> vse']
        IN  p # VrNone /\ vrq[c].resched /\ ~vrq'[c].resched =>
              \E left \in Leftmost(s, c, Queued(s, c)) :
                  wakeup_preempt_entity(s, p, left) < 1

\* Virtual times on a queue stay close enough together for the signed comparison to
\* order them, and the buddies are on the queue, through sleeping, waking,
\* forking, moving and changing class (fair.c:452, 1654, 1758).
QueuesOrdered ==
    /\ VrTypeOK
    /\ BuddiesQueued
    /\ SpreadBounded

\* Nobody gains by sleeping, min_vruntime only moves forward, and the CPU goes to
\* a most deserving task up to the wake-up granularity (fair.c:458, 1654, 1897).
FairPlay == [][MinMonotone /\ NoGain /\ PickFair]_vrVars

=============================================================================
