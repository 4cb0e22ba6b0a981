---------------------------- MODULE LoadBalance ----------------------------
(***************************************************************************)
(* Load balancing between run queues (kernel/sched/fair.c, load_balance):  *)
(* a CPU reads the statistics of its domain without a lock, locks itself   *)
(* and the queue it chose, pulls tasks, and repeats that for a sibling or  *)
(* without a queue whose tasks are pinned. After enough failures it asks   *)
(* the stopper thread of the busiest CPU to push the task that runs there. *)
(*                                                                         *)
(* Balancers on different CPUs interleave with each other and with tasks   *)
(* that are forked and exit; a task runs until it exits or is pushed. When *)
(* a domain is due is up to time,                                         *)
(* and so is whether a task is cache hot: both are chosen. balance_interval*)
(* only says when the next pass is due and is left out.                    *)
(***************************************************************************)
EXTENDS BusiestGroup

CONSTANTS
    LbTasks,
    CpusAllowed,        \* the CPUs a task may run on
    TaskWeight,
    Home,               \* where a task is put when it is forked
    Sleepers,           \* tasks that may exit; the others run all the time
    LbGroups,           \* the groups of the domain
    cache_nice_tries,
    sysctl_sched_nr_migrate, sched_nr_migrate_break,
    MaxBalancers        \* bound: balancers under way at a time

VARIABLES
    lbrq,               \* per CPU: tasks (the list cfs_tasks), curr, active_balance,
                        \* push_cpu and the works queued at its stopper
    failed,             \* per CPU, nr_balance_failed of its domain
    lbenv,              \* per CPU, its balancing pass
    forked              \* the tasks there have been

lbVars == <<lbrq, failed, lbenv, forked>>

\* The CPU is in schedule(), between two tasks; the CPU runs its idle task.
Nobody == "nobody"
Idler == "idle"

\* nr_balance_failed beyond this makes no difference.
MaxFailed == cache_nice_tries + 3

\* The domain of each CPU: a ring of groups, the CPU's own group first.
LbSd ==
    [c \in LbCpus |->
        LET own == CHOOSE g \in LbGroups : c \in g
        IN [groups |-> <<own>> \o SetToSeq(LbGroups \ {own}),
            asym |-> FALSE, sibling |-> FALSE, smt |-> FALSE, orig |-> SCALE, pct |-> 125]]

\* What the loops over the CPUs read.
LbStats ==
    LET load == [c \in LbCpus |-> MapThenSumSet(LAMBDA t : TaskWeight[t], Range(lbrq[c].tasks))]
    IN [load |-> load, nr |-> [c \in LbCpus |-> Len(lbrq[c].tasks)],
        past |-> load, power |-> [c \in LbCpus |-> SCALE]]

NoPass == [pc |-> "none"]

LbInit ==
    /\ lbrq = [c \in LbCpus |-> [tasks |-> <<>>, curr |-> Idler, active_balance |-> FALSE,
                                 push_cpu |-> 0, works |-> 0]]
    /\ failed = [c \in LbCpus |-> 0]
    /\ lbenv = [c \in LbCpus |-> NoPass]
    /\ forked = {}
-----------------------------------------------------------------------------
(***************************************************************************)
(* Tasks come, go and are switched                                         *)
(***************************************************************************)
lb_fork(t) ==
    /\ t \notin forked /\ forked' = forked \cup {t}
    /\ lbrq' = [lbrq EXCEPT ![Home[t]].tasks = <<t>> \o @]
    /\ UNCHANGED <<failed, lbenv>>

\* c itself is not busy balancing: only the pass of an idle CPU may be run by
\* another one (nohz_idle_balance).
Free(c) == IF lbenv[c].pc = "none" THEN TRUE ELSE lbenv[c].idle = "idle"

\* A task exits: it is not woken again.
lb_exit(c) ==
    /\ Free(c)
    /\ lbrq[c].curr \in Sleepers
    /\ lbrq' = [lbrq EXCEPT ![c].tasks = SelectSeq(@, LAMBDA t : t # lbrq[c].curr),
                            ![c].curr = Nobody]
    /\ UNCHANGED <<failed, lbenv, forked>>

lb_switch(c) ==
    /\ Free(c)
    /\ \/ /\ lbrq[c].curr \in {Nobody, Idler}
          /\ \E t \in Range(lbrq[c].tasks) : lbrq' = [lbrq EXCEPT ![c].curr = t]
       \/ /\ lbrq[c].curr = Nobody /\ lbrq[c].tasks = <<>> /\ lbenv[c].pc = "none"
          /\ lbrq' = [lbrq EXCEPT ![c].curr = Idler]
    /\ UNCHANGED <<failed, lbenv, forked>>
-----------------------------------------------------------------------------
(***************************************************************************)
(* Moving tasks, both run queues locked                                    *)
(***************************************************************************)

\* The outcome for task t: "move", "stay", or, when its affinity is in the way,
\* "pinned".
can_migrate_task(t, dst, running, hot, tries) ==
    CASE dst \notin CpusAllowed[t] -> "pinned"
      [] dst \in CpusAllowed[t] /\ t = running -> "stay"
      [] OTHER -> IF t \notin hot \/ tries > cache_nice_tries THEN "move" ELSE "stay"

\* A task that may not run on dst: remember the first other CPU of the group where
\* it may.
Pinned(s, e, t, grpmask) ==
    LET other == grpmask \cap CpusAllowed[t]
    IN IF s.some \/ other = {} THEN s
       ELSE [s EXCEPT !.some = TRUE, !.new_dst = Min(other)]

\* One pass of move_tasks over the list of the source, from state s: from and to
\* are the two lists, the rest is of the lb_env.
RECURSIVE move_tasks(_, _, _, _, _)
move_tasks(s, e, running, hot, tries) ==
    LET t    == Head(s.from)
        loop == s.loop + 1
        next == [s EXCEPT !.loop = loop, !.from = Append(Tail(s.from), t)]
        may  == can_migrate_task(t, e.dst, running, hot, tries)
    IN CASE s.imb <= 0 \/ s.from = <<>> -> s
         [] s.imb > 0 /\ s.from # <<>> /\ loop > e.loop_max -> [s EXCEPT !.loop = loop]
         [] s.imb > 0 /\ s.from # <<>> /\ loop <= e.loop_max /\ loop > s.loop_break ->
                [s EXCEPT !.loop = loop, !.loop_break = @ + sched_nr_migrate_break,
                          !.need_break = TRUE]
         [] OTHER ->
                IF TaskWeight[t] \div 2 > s.imb THEN move_tasks(next, e, running, hot, tries)
                ELSE CASE may = "pinned" ->
                            move_tasks(Pinned(next, e, t, e.grpmask), e, running, hot, tries)
                       [] may = "stay" ->
                            move_tasks([next EXCEPT !.all = FALSE], e, running, hot, tries)
                       [] may = "move" ->
                            move_tasks([s EXCEPT !.loop = loop, !.all = FALSE,
                                                 !.from = Tail(s.from), !.to = <<t>> \o @,
                                                 !.imb = @ - TaskWeight[t],
                                                 !.pulled = @ + 1], e, running, hot, tries)
-----------------------------------------------------------------------------
(***************************************************************************)
(* load_balance                                                            *)
(***************************************************************************)

\* The end of a pass: with the domain balanced or tasks moved (n = 0), or not.
LbOut(c, n) ==
    /\ failed' = [failed EXCEPT ![c] = n]
    /\ lbenv' = [lbenv EXCEPT ![c] = NoPass]

\* What is still needed of the lb_env once nothing could be moved.
Unmoved(e, src) == [pc |-> "unmoved", idle |-> e.idle, src |-> src]

\* rebalance_domains and idle_balance: c's domain is due.
load_balance(c, idle) ==
    /\ lbenv[c].pc = "none"
    /\ Cardinality({d \in LbCpus : lbenv[d].pc # "none"}) < MaxBalancers
    /\ idle = CASE lbrq[c].curr = Idler -> "idle"
                [] lbrq[c].curr = Nobody /\ lbrq[c].tasks = <<>> -> "newly_idle"
                [] OTHER -> "not_idle"
    /\ lbenv' = [lbenv EXCEPT ![c] =
                    [pc |-> "redo", idle |-> idle, dst |-> c, cpus |-> LbCpus,
                     all |-> FALSE, some |-> FALSE, new_dst |-> c, src |-> c, imb |-> 0,
                     loop |-> 0, loop_break |-> sched_nr_migrate_break, loop_max |-> 0,
                     iterations |-> 1, moved |-> 0]]
    /\ UNCHANGED <<lbrq, failed, forked>>

\* redo: choose the queue to pull from.
redo(c) ==
    LET e   == lbenv[c]
        env == [dst |-> e.dst, idle |-> e.idle, cpus |-> e.cpus]
    IN /\ e.pc = "redo"
       /\ \E r \in {find_busiest_group(LbStats, LbSd[c], env)} :
          \E b \in {find_busiest_queue(LbStats, LbSd[c], env, r.group, r.imbalance)} :
             \/ /\ r.group = {} \/ b = {}
                /\ LbOut(c, 0)
             \/ /\ r.group # {} /\ b # {}
                /\ LET src == Min(b)
                       nr  == Len(lbrq[src].tasks)
                       f   == [e EXCEPT !.src = src, !.imb = r.imbalance, !.moved = 0,
                                        !.iterations = 1]
                   IN lbenv' = [lbenv EXCEPT ![c] =
                        IF nr > 1 THEN [f EXCEPT !.pc = "more_balance", !.all = TRUE,
                                                 !.loop_max = Min({sysctl_sched_nr_migrate, nr})]
                        ELSE Unmoved(e, src)]
                /\ UNCHANGED failed
       /\ UNCHANGED <<lbrq, forked>>

\* What follows a pass of move_tasks that left s, f being the lb_env after it.
AfterMove(c, s, f) ==
    CASE s.need_break ->
            lbenv' = [lbenv EXCEPT ![c] = f] /\ UNCHANGED failed
      [] ~s.need_break /\ f.some /\ f.imb > 0
         /\ f.iterations < Cardinality(LbSd[c].groups[1]) ->
            /\ lbenv' = [lbenv EXCEPT ![c] = [f EXCEPT !.dst = f.new_dst, !.some = FALSE,
                            !.loop = 0, !.loop_break = sched_nr_migrate_break,
                            !.iterations = @ + 1]]
            /\ UNCHANGED failed
      [] OTHER ->
            LET rest == f.cpus \ {f.src}
            IN CASE f.all /\ rest # {} ->
                      /\ lbenv' = [lbenv EXCEPT ![c] = [f EXCEPT !.pc = "redo", !.cpus = rest,
                                      !.loop = 0, !.loop_break = sched_nr_migrate_break,
                                      !.imb = 0, !.loop_max = 0]]
                      /\ UNCHANGED failed
                 [] f.all /\ rest = {} -> LbOut(c, 0)
                 [] ~f.all /\ f.moved = 0 ->
                      lbenv' = [lbenv EXCEPT ![c] = Unmoved(f, f.src)] /\ UNCHANGED failed
                 [] ~f.all /\ f.moved > 0 ->
                      LbOut(c, 0)

\* more_balance: lock both queues, move tasks, unlock.
more_balance(c, hot) ==
    LET e == lbenv[c]
        start == [from |-> lbrq[e.src].tasks, to |-> lbrq[e.dst].tasks, imb |-> e.imb,
                  loop |-> e.loop, loop_break |-> e.loop_break, need_break |-> FALSE,
                  all |-> e.all, some |-> e.some, new_dst |-> e.new_dst, pulled |-> 0]
        env == [dst |-> e.dst, loop_max |-> e.loop_max, grpmask |-> LbSd[c].groups[1]]
    IN /\ e.pc = "more_balance"
       /\ \E s \in {move_tasks(start, env, lbrq[e.src].curr, hot, failed[c])} :
             /\ lbrq' = [lbrq EXCEPT ![e.src].tasks = s.from, ![e.dst].tasks = s.to]
             /\ AfterMove(c, s, [e EXCEPT !.imb = s.imb, !.loop = s.loop,
                                          !.loop_break = s.loop_break, !.all = s.all,
                                          !.some = s.some, !.new_dst = s.new_dst,
                                          !.moved = @ + s.pulled])
       /\ UNCHANGED forked

\* active_balance is not looked at before the work is used.
UnmovedAgain(c) ==
    LET e == lbenv[c]
    IN /\ e.pc = "unmoved" /\ UNCHANGED forked
       /\ lbrq' = [lbrq EXCEPT ![e.src].active_balance = TRUE, ![e.src].push_cpu = c]
       /\ failed' = [failed EXCEPT ![c] = cache_nice_tries + 1]
       /\ lbenv' = [lbenv EXCEPT ![c] = [pc |-> "kick", idle |-> e.idle, src |-> e.src]]

\* Failures are not counted.
UnmovedUncounted(c) ==
    /\ lbenv[c].pc = "unmoved"
    /\ LbOut(c, failed[c])
    /\ UNCHANGED <<lbrq, forked>>

\* Nothing moved: count the failure and, after enough of them, ask for a push.
unmoved(c) ==
    LET e == lbenv[c]
        b == lbrq[e.src]
        n == IF e.idle # "newly_idle" THEN Min({failed[c] + 1, MaxFailed}) ELSE failed[c]
        need_active_balance == n > cache_nice_tries + 2
        pushable == IF b.curr \in LbTasks THEN c \in CpusAllowed[b.curr] ELSE FALSE
    IN /\ e.pc = "unmoved" /\ UNCHANGED forked
       /\ \/ /\ need_active_balance => ~pushable
             /\ LbOut(c, n)
             /\ UNCHANGED lbrq
          \/ /\ need_active_balance /\ pushable /\ b.active_balance
             /\ LbOut(c, cache_nice_tries + 1)
             /\ UNCHANGED lbrq
          \/ /\ need_active_balance /\ pushable /\ ~b.active_balance
             /\ lbrq' = [lbrq EXCEPT ![e.src].active_balance = TRUE, ![e.src].push_cpu = c]
             /\ failed' = [failed EXCEPT ![c] = cache_nice_tries + 1]
             /\ lbenv' = [lbenv EXCEPT ![c] = [pc |-> "kick", idle |-> e.idle, src |-> e.src]]

\* The lock is released; the work is handed to the stopper of the busiest CPU.
stop_one_cpu_nowait(c) ==
    /\ lbenv[c].pc = "kick"
    /\ lbrq' = [lbrq EXCEPT ![lbenv[c].src].works = @ + 1]
    /\ lbenv' = [lbenv EXCEPT ![c] = NoPass]
    /\ UNCHANGED <<failed, forked>>

\* The stopper of b runs in place of b's task and pushes one task to push_cpu. The
\* stopper itself counts as running, so one task is enough.
active_load_balance_cpu_stop(b, hot) ==
    LET q == lbrq[b]
        movable == SelectSeq(q.tasks, LAMBDA t :
                       can_migrate_task(t, q.push_cpu, Nobody, hot, failed[q.push_cpu]) = "move")
        done == [q EXCEPT !.works = @ - 1, !.active_balance = FALSE]
    IN /\ q.works > 0 /\ Free(b)
       /\ IF q.active_balance /\ movable # <<>>
          THEN lbrq' = [lbrq EXCEPT
                   ![b] = [done EXCEPT !.tasks = SelectSeq(@, LAMBDA t : t # movable[1]),
                                       !.curr = IF @ = movable[1] THEN Nobody ELSE @],
                   ![q.push_cpu].tasks = <<movable[1]>> \o @]
          ELSE lbrq' = [lbrq EXCEPT ![b] = done]
       /\ UNCHANGED <<failed, lbenv, forked>>
-----------------------------------------------------------------------------
HotSets == {{}, LbTasks}

LbPass(c) == redo(c) \/ (\E hot \in HotSets : more_balance(c, hot)) \/ unmoved(c)
             \/ stop_one_cpu_nowait(c)
LbStop(c) == \E hot \in HotSets : active_load_balance_cpu_stop(c, hot)

LbNext ==
    \/ \E t \in LbTasks : lb_fork(t)
    \/ \E c \in LbCpus : lb_exit(c) \/ lb_switch(c) \/ LbPass(c) \/ LbStop(c)
    \/ \E c \in LbCpus, idle \in IdleTypes : load_balance(c, idle)

LbSpec == LbInit /\ [][LbNext]_lbVars
-----------------------------------------------------------------------------
(***************************************************************************)
(* Properties                                                              *)
(***************************************************************************)

\* A task is on one queue at most, of a CPU it may use, and a CPU runs a task of
\* its own queue, whatever balancers and stoppers move at the same time.
LbTypeOK ==
    /\ \A t \in LbTasks : Cardinality({c \in LbCpus : t \in Range(lbrq[c].tasks)}) <= 1
    /\ \A c \in LbCpus :
          /\ IsInjective(lbrq[c].tasks)
          /\ \A t \in Range(lbrq[c].tasks) : c \in CpusAllowed[t]
          /\ lbrq[c].curr \in Range(lbrq[c].tasks) \cup {Nobody, Idler}
          /\ lbrq[c].push_cpu \in LbCpus /\ lbrq[c].works \in Nat
          /\ failed[c] \in 0 .. MaxFailed
          /\ lbenv[c].pc \in {"none", "redo", "more_balance", "unmoved", "kick"}

\* Neither BUG_ON is reached (fair.c:5041, 5304): a balancer that pulls for a
\* sibling, or that starts again without the queues it gave up on, never pulls from
\* the queue it pulls to, and no CPU is asked to push to itself.
NoSelfPull ==
    \A c \in LbCpus :
        /\ lbenv[c].pc = "more_balance" => lbenv[c].src # lbenv[c].dst
        /\ lbrq[c].active_balance => lbrq[c].push_cpu # c

\* The one stopper work of a CPU is in use at most once: active_balance is set
\* exactly from the time a balancer reserves the work, before it queues it, to the
\* time the stopper is done with it (fair.c:5156).
StopperOnce ==
    \A b \in LbCpus :
        lbrq[b].works + Cardinality({c \in LbCpus : lbenv[c].pc = "kick" /\ lbenv[c].src = b})
            = IF lbrq[b].active_balance THEN 1 ELSE 0

\* A pass goes on, a stopper runs, a CPU with tasks runs one, and time makes every
\* domain due again and again.
LbFairness ==
    \A c \in LbCpus :
        /\ []<><<lbenv[c].pc # "none" => lbenv'[c] # lbenv[c]>>_lbVars
        /\ []<><<lbrq[c].works > 0 => lbrq'[c].works < lbrq[c].works>>_lbVars
        /\ []<><<lbrq[c].curr = Nobody \/ (lbrq[c].curr = Idler /\ lbrq[c].tasks # <<>>)
                   => lbrq'[c].curr # lbrq[c].curr>>_lbVars
        /\ []<><<lbenv[c].pc = "none" /\ lbenv'[c].pc = "redo"
                  /\ lbenv'[c].idle # "newly_idle">>_lbVars

\* A pass ends, however often it starts again without a pinned queue or for a
\* sibling, and however many tasks other CPUs move meanwhile.
PassEnds == LbFairness => \A c \in LbCpus : lbenv[c].pc # "none" ~> lbenv[c].pc = "none"

\* The first idle CPU of a group does not stay idle beside a queue of another group
\* with two tasks, one of which may run on it: the task is pulled, or pushed if it is
\* the one that runs. (Another idle CPU of the group may: nobody else balances for it,
\* and the first one asks for a push only if it may run the task itself.)
Idles(c) == lbrq[c].tasks = <<>>
CouldTake(c) ==
    /\ Idles(c) /\ \A d \in LbSd[c].groups[1] : Idles(d) => c <= d
    /\ \E d \in LbCpus \ LbSd[c].groups[1] :
          /\ Len(lbrq[d].tasks) > 1
          /\ \E t \in Range(lbrq[d].tasks) : c \in CpusAllowed[t]
WorkConserving == LbFairness => \A c \in LbCpus : CouldTake(c) ~> ~CouldTake(c)

\* Balancers on several CPUs, stoppers and context switches together keep every
\* task on one queue it may be on, never pull from a queue to itself, and use the
\* stopper of a CPU once at a time (fair.c:4998, 5274).
PullsSafe ==
    /\ LbTypeOK
    /\ NoSelfPull
    /\ StopperOnce

\* Every pass ends, and balancing brings work to a CPU that could take it.
BalancingHelps == PassEnds /\ WorkConserving

=============================================================================
