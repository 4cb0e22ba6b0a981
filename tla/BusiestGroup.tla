---------------------------- MODULE BusiestGroup ----------------------------
(***************************************************************************)
(* How a CPU that balances chooses where to pull from and how much: the    *)
(* statistics of the groups of its scheduling domain, the busiest group,   *)
(* the amount of load to move and the busiest queue in that group          *)
(* (kernel/sched/fair.c, find_busiest_group and find_busiest_queue).       *)
(*                                                                         *)
(* q   what the loops read of the run queues, without a lock: load[c] the  *)
(*     weighted load, nr[c] the number of tasks, past[c] the decayed load  *)
(*     cpu_load[idx - 1], power[c] the cpu_power.                          *)
(* sd  the domain: groups, a sequence that starts with the group of the    *)
(*     balancing CPU, and the flags asym (SD_ASYM_PACKING), sibling (the   *)
(*     child has SD_PREFER_SIBLING), smt (SD_SHARE_CPUPOWER) with orig,    *)
(*     the power_orig of a sibling, pct (imbalance_pct).                   *)
(* e   the lb_env: dst, idle, cpus.                                        *)
(*                                                                         *)
(* unsigned long is ULONG wide, a small power of two, and wraps.           *)
(***************************************************************************)
EXTENDS Integers, Sequences, FiniteSets, FiniteSetsExt, SequencesExt

CONSTANTS
    LbCpus,             \* the CPUs, numbers: "first" in a mask is the smallest
    SCALE,              \* SCHED_POWER_SCALE = SCHED_LOAD_SCALE
    ULONG,              \* the range of unsigned long
    Queues,             \* what may be on a CPU: records [nr, load]
    Pasts,              \* decayed loads of the one CPU whose load has just changed
    Windows,            \* what real-time tasks took: records [total, avg]
    LbDomains           \* the domains of a balancing CPU: records sd, dst \in sd.groups[1]

ASSUME LbAssumption == LbCpus \subseteq Nat /\ SCALE \in Nat \ {0}

IdleTypes == {"not_idle", "idle", "newly_idle"}

Sub(x, y) == (x - y) % ULONG
Mul(x, y) == (x * y) % ULONG
RoundClosest(x, y) == (x + (y \div 2)) \div y

\* total is the window sched_avg_period() + clock - age_stamp, avg the time that
\* real-time tasks took of it: what is left of it, in units of SCALE.
scale_rt_power(total, avg) ==
    LET available == IF total < avg THEN 0 ELSE total - avg
    IN available \div (Max({total, SCALE}) \div SCALE)

\* The power of a CPU whose siblings share `orig` and whose real-time tasks
\* leave `rt` of it: never 0, it is a divisor.
update_cpu_power(orig, rt) ==
    Max({1, (((orig * SCALE) \div SCALE) * rt) \div SCALE})

GroupPower(q, g) == MapThenSumSet(LAMBDA c : q.power[c], g)

source_load(q, c) == Min({q.past[c], q.load[c]})
target_load(q, c) == Max({q.past[c], q.load[c]})

idle_cpu(q, c) == q.nr[c] = 0

cpu_avg_load_per_task(q, c) == IF q.nr[c] = 0 THEN 0 ELSE q.load[c] \div q.nr[c]

\* A sibling of almost full power counts as one CPU although it rounds to none.
fix_small_capacity(q, sd, g) ==
    IF sd.smt /\ GroupPower(q, g) * 32 > sd.orig * 29 THEN 1 ELSE 0

\* The CPU of the local group that is to balance for it: the first idle one, or
\* the first one.
balance_cpu(q, e, g) ==
    LET idle == {c \in g \cap e.cpus : idle_cpu(q, c)}
    IN IF idle # {} THEN Min(idle) ELSE Min(g)

\* max - min in unsigned arithmetic; over no CPU at all it is 0 - ~0UL.
Spread(S) == IF S = {} THEN Sub(0, ULONG - 1) ELSE Max(S) - Min(S)

update_sg_lb_stats(q, sd, e, g) ==
    LET cpus  == g \cap e.cpus
        local == e.dst \in g
        load  == [c \in cpus |-> IF local THEN target_load(q, c) ELSE source_load(q, c)]
        group_load  == MapThenSumSet(LAMBDA c : load[c], cpus)
        nr          == MapThenSumSet(LAMBDA c : q.nr[c], cpus)
        weighted    == MapThenSumSet(LAMBDA c : q.load[c], cpus)
        per_task    == IF nr = 0 THEN 0 ELSE weighted \div nr
        whole       == RoundClosest(GroupPower(q, g), SCALE)
        capacity    == IF whole = 0 THEN fix_small_capacity(q, sd, g) ELSE whole
    IN [group        |-> g,
        group_load   |-> group_load,
        nr           |-> nr,
        weighted     |-> weighted,
        idle_cpus    |-> Cardinality({c \in cpus : idle_cpu(q, c)}),
        avg_load     |-> (group_load * SCALE) \div GroupPower(q, g),
        imb          |-> /\ ~local
                         /\ Spread({load[c] : c \in cpus}) >= per_task
                         /\ Spread({q.nr[c] : c \in cpus}) > 1,
        capacity     |-> capacity,
        has_capacity |-> capacity > nr]

NoGroup == [group |-> {}, avg_load |-> 0]

\* Is s busier than the busiest group so far?
update_sd_pick_busiest(sd, e, busiest, s) ==
    /\ s.avg_load > busiest.avg_load
    /\ \/ s.nr > s.capacity
       \/ s.imb
       \/ /\ sd.asym /\ s.nr > 0 /\ e.dst < Min(s.group)
          /\ \/ busiest.group = {}
             \/ Min(busiest.group) > Min(s.group)

\* The local group is the first of the ring, so that whether it has room is known
\* when the others are looked at.
update_sd_lb_stats(q, sd, e) ==
    LET Summary(stats, this) ==
            LET Lowered(s) == IF sd.sibling /\ this.has_capacity
                              THEN [s EXCEPT !.capacity = Min({s.capacity, 1})] ELSE s
                Busier(b, s) == IF update_sd_pick_busiest(sd, e, b, s) THEN s ELSE b
                load  == FoldLeft(LAMBDA n, s : n + s.group_load, 0, stats)
                power == FoldLeft(LAMBDA n, s : n + GroupPower(q, s.group), 0, stats)
            IN [this |-> this,
                busiest |-> FoldLeft(LAMBDA b, s : Busier(b, Lowered(s)), NoGroup, Tail(stats)),
                avg_load |-> (SCALE * load) \div power]
        stats == [i \in DOMAIN sd.groups |-> update_sg_lb_stats(q, sd, e, sd.groups[i])]
    IN Summary(stats, stats[1])

\* The number of tasks is too small for a proportional pull: move one task of
\* average size when the groups are a whole task apart or when the CPUs get more
\* work done that way.
fix_small_imbalance(q, e, sds, per_task, imbalance) ==
    LET b == sds.busiest
        t == sds.this
        bp == GroupPower(q, b.group)
        tp == GroupPower(q, t.group)
        this_per_task == IF t.nr > 0 THEN t.weighted \div t.nr
                         ELSE cpu_avg_load_per_task(q, e.dst)
        imbn   == IF t.nr > 0 /\ per_task > this_per_task THEN 1 ELSE 2
        scaled == (per_task * SCALE) \div bp
        now    == (bp * Min({per_task, b.avg_load}) + tp * Min({this_per_task, t.avg_load}))
                      \div SCALE
        added  == (IF b.avg_load * bp < per_task * SCALE
                   THEN b.avg_load * bp ELSE per_task * SCALE) \div tp
        kept   == IF b.avg_load > scaled
                  THEN bp * Min({per_task, b.avg_load - scaled}) ELSE 0
        moved  == (kept + tp * Min({this_per_task, t.avg_load + added})) \div SCALE
    IN IF (Sub(b.avg_load, t.avg_load) + scaled) % ULONG >= scaled * imbn \/ moved > now
       THEN per_task ELSE imbalance

\* The whole difference between the two groups is pulled.
ImbalanceWhole(q, e, sds) ==
    LET b == sds.busiest
        t == sds.this
        difference == ((b.avg_load - t.avg_load) * GroupPower(q, b.group)) \div SCALE
    IN Max({difference, b.weighted \div b.nr})

\* As much as brings this group up to the average and the busiest one down to
\* it, whichever is less.
calculate_imbalance(q, e, sds) ==
    LET b == sds.busiest
        t == sds.this
        average   == b.weighted \div b.nr
        per_task  == IF b.imb THEN Min({average, sds.avg_load}) ELSE average
        above     == IF b.imb THEN ULONG - 1
                     ELSE Mul(Sub(b.nr, b.capacity), SCALE * SCALE) \div GroupPower(q, b.group)
        max_pull  == Min({Sub(b.avg_load, sds.avg_load), above})
        imbalance == Min({Mul(max_pull, GroupPower(q, b.group)),
                          Mul(Sub(sds.avg_load, t.avg_load), GroupPower(q, t.group))})
                         \div SCALE
    IN CASE b.avg_load < sds.avg_load -> fix_small_imbalance(q, e, sds, per_task, 0)
         [] b.avg_load >= sds.avg_load /\ imbalance < per_task ->
                fix_small_imbalance(q, e, sds, per_task, imbalance)
         [] OTHER -> imbalance

check_asym_packing(sd, e, sds) ==
    /\ e.idle # "not_idle" /\ sd.asym
    /\ sds.busiest.group # {}
    /\ e.dst <= Min(sds.busiest.group)

\* Is there reason to pull from the busiest group?
Unbalanced(sd, e, sds) ==
    LET b == sds.busiest
        t == sds.this
    IN /\ b.group # {} /\ b.nr > 0
       /\ \/ b.imb
          \/ e.idle = "newly_idle" /\ t.has_capacity /\ ~b.has_capacity
          \/ /\ t.avg_load < b.avg_load
             /\ t.avg_load < sds.avg_load
             /\ IF e.idle = "idle"
                THEN t.idle_cpus > b.idle_cpus + 1 \/ b.nr > Cardinality(b.group)
                ELSE 100 * b.avg_load > sd.pct * t.avg_load

\* balance is FALSE when another CPU of the group is to balance for it.
find_busiest_group(q, sd, e) ==
    LET Outcome(sds, b) ==
            CASE e.idle # "newly_idle" /\ balance_cpu(q, e, sds.this.group) # e.dst ->
                    [balance |-> FALSE, group |-> {}, imbalance |-> 0]
              [] check_asym_packing(sd, e, sds) ->
                    [balance |-> TRUE, group |-> b.group,
                     imbalance |-> RoundClosest(b.avg_load * GroupPower(q, b.group), SCALE)]
              [] Unbalanced(sd, e, sds) ->
                    [balance |-> TRUE, group |-> b.group,
                     imbalance |-> calculate_imbalance(q, e, sds)]
              [] OTHER -> [balance |-> TRUE, group |-> {}, imbalance |-> 0]
        sds == update_sd_lb_stats(q, sd, e)
    IN Outcome(sds, sds.busiest)

\* The CPU of g with the largest load for its power, or {} when every queue is a
\* single task too large to move.
find_busiest_queue(q, sd, e, g, imbalance) ==
    LET capacity(c) == IF RoundClosest(q.power[c], SCALE) = 0
                       THEN fix_small_capacity(q, sd, g) ELSE RoundClosest(q.power[c], SCALE)
        scaled(c) == (q.load[c] * SCALE) \div q.power[c]
        eligible  == {c \in g \cap e.cpus :
                         /\ ~(capacity(c) > 0 /\ q.nr[c] = 1 /\ q.load[c] > imbalance)
                         /\ scaled(c) > 0}
        heaviest  == {c \in eligible : \A d \in eligible : scaled(d) <= scaled(c)}
    IN IF eligible = {} THEN {} ELSE {Min(heaviest)}
-----------------------------------------------------------------------------
VARIABLES
    bgq,                \* what the run queues hold
    decided             \* what a CPU made of it: {} or one decision

bgVars == <<bgq, decided>>

BgInit ==
    /\ \E on \in [LbCpus -> Queues], lag \in LbCpus, was \in Pasts, rt \in Windows,
          orig \in {sd.orig : sd \in LbDomains} :
          bgq = [load  |-> [c \in LbCpus |-> on[c].load],
                 nr    |-> [c \in LbCpus |-> on[c].nr],
                 past  |-> [c \in LbCpus |-> IF c = lag THEN was ELSE on[c].load],
                 power |-> [c \in LbCpus |-> update_cpu_power(orig,
                               IF c = 0 THEN scale_rt_power(rt.total, rt.avg) ELSE SCALE)]]
    /\ decided = {}

\* load_balance up to the choice of the queue to pull from.
Decide(sd, dst, idle) ==
    LET e == [dst |-> dst, idle |-> idle, cpus |-> LbCpus]
    IN /\ decided = {}
       /\ \E r \in {find_busiest_group(bgq, sd, e)} :
             decided' = {[sd |-> sd, e |-> e, found |-> r,
                          queue |-> IF r.group = {} THEN {}
                                    ELSE find_busiest_queue(bgq, sd, e, r.group, r.imbalance)]}
       /\ UNCHANGED bgq

BgNext ==
    \E sd \in LbDomains : \E dst \in sd.groups[1], idle \in IdleTypes : Decide(sd, dst, idle)

BgSpec == BgInit /\ [][BgNext]_bgVars
-----------------------------------------------------------------------------
(***************************************************************************)
(* Properties                                                              *)
(***************************************************************************)

\* The power of a CPU is at least 1, it is divided by, and an imbalance is an
\* amount of load that fits the signed field that holds it.
BgTypeOK ==
    /\ \A c \in LbCpus : bgq.power[c] \in 1 .. SCALE
    /\ \A d \in decided : d.found.imbalance \in 0 .. (ULONG \div 2) - 1

\* A CPU is never told to pull more load than the busiest group has, whatever
\* the unsigned differences between loads that are above or below the average
\* come to ("Be careful of negative numbers", fair.c:4787).
NeverMoreThanThere ==
    \A d \in decided : d.found.imbalance <= MapThenSumSet(LAMBDA c : bgq.load[c], d.found.group)

\* The CPUs the statistics speak of are of equal power and their tasks of equal
\* size, and the decayed loads are those of the moment.
Uniform ==
    /\ \A c \in LbCpus : bgq.past[c] = bgq.load[c] /\ bgq.power[c] = SCALE
    /\ \A c \in LbCpus : bgq.load[c] = bgq.nr[c] * SCALE

\* A CPU out of work finds some: if it is idle, is the one to balance for its
\* group, the group has fewer tasks than CPUs and another one more, then it is
\* pointed at a queue with a task that waits, and the imbalance is large enough for
\* move_tasks to take one.
IdleCpuFindsWork ==
    \A d \in decided :
        /\ Uniform /\ idle_cpu(bgq, d.e.dst) /\ d.e.idle # "not_idle" /\ d.found.balance
        /\ MapThenSumSet(LAMBDA c : bgq.nr[c], d.sd.groups[1]) < Cardinality(d.sd.groups[1])
        /\ \E i \in DOMAIN d.sd.groups :
              MapThenSumSet(LAMBDA c : bgq.nr[c], d.sd.groups[i]) > Cardinality(d.sd.groups[i])
        => /\ d.found.imbalance >= SCALE \div 2
           /\ \E c \in d.queue : bgq.nr[c] > 1

\* Pulling overshoots by less than a task: up to the last of the tasks that
\* move_tasks would take for this imbalance, the busiest group has more tasks per
\* CPU than the one that pulls. (A group that is unbalanced within itself is pulled
\* from whatever its load: there a CPU may take a task from a group that has fewer.)
NoReversal ==
    \A d \in decided :
        Uniform /\ d.found.group # {} /\ ~d.sd.asym /\ d.e.idle = "not_idle"
        /\ ~update_sd_lb_stats(bgq, d.sd, d.e).busiest.imb =>
            LET this == d.sd.groups[1]
                that == d.found.group
                nr(g) == MapThenSumSet(LAMBDA c : bgq.nr[c], g)
                n    == (d.found.imbalance + SCALE - 1) \div SCALE
                gap(k) == (nr(that) - k) * Cardinality(this) - (nr(this) + k) * Cardinality(that)
            IN gap(n - 1) > 0

\* What find_busiest_group tells a CPU to pull is there, is enough for an idle CPU
\* to get a task, and does not turn the imbalance round (fair.c:4742, 4810).
PullsRight ==
    /\ BgTypeOK
    /\ NeverMoreThanThere
    /\ IdleCpuFindsWork
    /\ NoReversal

=============================================================================
