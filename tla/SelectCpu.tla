----------------------------- MODULE SelectCpu -----------------------------
(***************************************************************************)
(* Where the fair class puts a task that wakes up or is forked             *)
(* (kernel/sched/fair.c, select_task_rq_fair): next to the waker if that   *)
(* does not unbalance the CPUs, on an idle CPU that shares the cache, or,  *)
(* down the domains, in the idlest group and on its idlest CPU.            *)
(*                                                                         *)
(* q is what the functions read of the run queues, as in BusiestGroup. A   *)
(* topology t gives every CPU its domains, the lowest first, and llc, how  *)
(* many of them share the last level cache. A domain has its span, its     *)
(* groups (a sequence, the group of the CPU first), its flags and idx,     *)
(* whether it uses the decayed loads. No cgroups: effective_load is the    *)
(* change itself (GroupShares has the other case).                         *)
(***************************************************************************)
EXTENDS BusiestGroup

CONSTANTS
    ScCpus,             \* the CPUs, numbers
    Topologies,         \* by name: records [dom, llc]
    ScQueues,           \* what may be on a CPU: records [nr, load, curr], curr the weight
                        \* of the running task
    ScPowers,           \* the power of CPU 0 (the others have SCALE)
    TaskWeights,        \* of the task to place
    Affinities,         \* sets of CPUs: p->cpus_allowed
    imbalance_pct

VARIABLES
    selq,               \* the run queues
    selected            \* the last request and its answer

scVars == <<selq, selected>>

At0(q, sd) == IF sd.idx = 0 THEN [q EXCEPT !.past = q.load] ELSE q

\* Is the waking CPU, with p added to it, not much heavier than prev with p?
wake_affine(q, sd, p, cpu, prev, sync) ==
    LET r         == At0(q, sd)
        load      == source_load(r, prev)
        this_load == target_load(r, cpu) - (IF sync THEN q.curr[cpu] ELSE 0)
        balanced  == \/ this_load <= 0
                     \/ 100 * q.power[prev] * (this_load + p.weight)
                          <= (100 + (imbalance_pct - 100) \div 2) * q.power[cpu] * load
    IN \/ balanced
       \/ /\ this_load <= load
          /\ this_load + target_load(r, prev) <= cpu_avg_load_per_task(q, cpu)

\* The group of sd with the least load per power, {} if it is the local one or not
\* enough lighter than that.
find_idlest_group(q, sd, p, cpu) ==
    LET r      == At0(q, sd)
        groups == SelectSeq(sd.groups, LAMBDA g : g \cap p.allowed # {})
        local(g) == cpu \in g
        avg(g) == (MapThenSumSet(LAMBDA c : IF local(g) THEN source_load(r, c)
                                            ELSE target_load(r, c), g) * SCALE)
                      \div GroupPower(q, g)
        this_load == FoldLeft(LAMBDA n, g : IF local(g) THEN avg(g) ELSE n, 0, groups)
        idlest == FoldLeft(LAMBDA b, g : IF local(g) THEN b
                                         ELSE IF b = {} \/ avg(g) < avg(b) THEN g ELSE b,
                           {}, groups)
        imbalance == 100 + (imbalance_pct - 100) \div 2
    IN IF idlest = {} \/ 100 * this_load < imbalance * avg(idlest) THEN {} ELSE idlest

\* The allowed CPU of group g with the least load, the last one that is `cpu` or the
\* first one; -1 if there is none.
find_idlest_cpu(q, g, p, cpu) ==
    LET S    == g \cap p.allowed
        best == {c \in S : \A d \in S : q.load[c] <= q.load[d]}
    IN IF S = {} THEN -1 ELSE IF cpu \in best THEN cpu ELSE Min(best)

\* The groups of the domains below the last level cache of `target`, in the order
\* of the search.
SiblingGroups(t, target) ==
    FoldLeft(LAMBDA s, i : s \o t.dom[target][t.llc + 1 - i].groups, <<>>,
             [i \in 1 .. t.llc |-> i])

\* Mutant: only the lowest domain is searched.
SiblingTopOnly(q, t, p, cpu, prev, target) ==
    LET whole == SelectSeq(t.dom[target][1].groups,
                           LAMBDA g : /\ g \cap p.allowed # {}
                                      /\ \A c \in g : idle_cpu(q, c))
    IN IF target \in {cpu, prev} /\ idle_cpu(q, target) THEN target
       ELSE IF whole = <<>> THEN target
       ELSE Min(whole[1] \cap p.allowed)

select_idle_sibling(q, t, p, cpu, prev, target) ==
    LET whole == SelectSeq(SiblingGroups(t, target),
                           LAMBDA g : /\ g \cap p.allowed # {}
                                      /\ \A c \in g : idle_cpu(q, c))
    IN IF target \in {cpu, prev} /\ idle_cpu(q, target) THEN target
       ELSE IF whole = <<>> THEN target
       ELSE Min(whole[1] \cap p.allowed)

\* The while loop: from domain i of cpu downwards, new is new_cpu so far.
RECURSIVE Descend(_, _, _, _, _, _, _)
Descend(q, t, p, flag, cpu, i, new) ==
    IF i = 0 THEN new
    ELSE LET sd    == t.dom[cpu][i]
             group == IF flag \in sd.flags THEN find_idlest_group(q, sd, p, cpu) ELSE {}
             found == find_idlest_cpu(q, group, p, cpu)
             lower == {k \in DOMAIN t.dom[found] :
                         /\ flag \in t.dom[found][k].flags
                         /\ \A l \in 1 .. k : Cardinality(t.dom[found][l].span)
                                                < Cardinality(sd.span)}
         IN IF group = {} THEN Descend(q, t, p, flag, cpu, i - 1, new)
            ELSE IF found \in {-1, cpu} THEN Descend(q, t, p, flag, cpu, i - 1, found)
            ELSE Descend(q, t, p, flag, found, Max(lower \cup {0}), found)

select_task_rq_fair(q, t, p, cpu, prev, flag, sync) ==
    LET doms     == t.dom[cpu]
        balanced == {i \in DOMAIN doms : "load_balance" \in doms[i].flags}
        affine   == {i \in balanced : /\ flag = "wake" /\ cpu \in p.allowed
                                      /\ "affine" \in doms[i].flags /\ prev \in doms[i].span}
        target   == IF cpu # prev /\ wake_affine(q, doms[Min(affine)], p, cpu, prev, sync)
                    THEN cpu ELSE prev
        start    == Max({i \in balanced : flag \in doms[i].flags} \cup {0})
    IN IF Cardinality(p.allowed) = 1 THEN prev
       ELSE IF affine # {} THEN select_idle_sibling(q, t, p, cpu, prev, target)
       ELSE Descend(q, t, p, flag, cpu, start, IF flag = "wake" THEN prev ELSE cpu)
-----------------------------------------------------------------------------
NotAsked == [flag |-> "none"]

ScInit ==
    /\ \E s \in [ScCpus -> ScQueues], w \in ScPowers, lag \in BOOLEAN :
         selq = [nr    |-> [c \in ScCpus |-> s[c].nr],
                 load  |-> [c \in ScCpus |-> s[c].load],
                 curr  |-> [c \in ScCpus |-> s[c].curr],
                 past  |-> [c \in ScCpus |-> IF lag /\ c = 0 THEN SCALE ELSE s[c].load],
                 power |-> [c \in ScCpus |-> IF c = 0 THEN w ELSE SCALE]]
    /\ selected = NotAsked

\* Somebody on `cpu` wakes up a task that last ran on prev, or forks one there.
Place(t, allowed, weight, cpu, prev, flag, sync) ==
    /\ flag = "fork" => prev = cpu /\ ~sync
    /\ sync => selq.nr[cpu] > 0
    /\ selected' = [flag |-> flag, t |-> t, allowed |-> allowed, weight |-> weight,
                    cpu |-> cpu, prev |-> prev, sync |-> sync,
                    answer |->
              select_task_rq_fair(selq, Topologies[t], [allowed |-> allowed, weight |-> weight],
                                  cpu, prev, flag, sync)]
    /\ UNCHANGED selq

ScNext ==
    /\ selected = NotAsked
    /\ \E t \in DOMAIN Topologies, allowed \in Affinities, weight \in TaskWeights,
          cpu, prev \in ScCpus, flag \in {"wake", "fork"}, sync \in BOOLEAN :
           Place(t, allowed, weight, cpu, prev, flag, sync)

ScSpec == ScInit /\ [][ScNext /\ UNCHANGED bgVars]_<<scVars, bgVars>>
-----------------------------------------------------------------------------
Asked(flag) == selected.flag = flag
IdleNow(c) == idle_cpu(selq, c)

\* The answer is a CPU: the loop over the domains never ends with the -1 of a group
\* in which the task may not run.
ScTypeOK == selected = NotAsked \/ selected.answer \in ScCpus

\* A task that may run where it is gets a CPU it may run on, whichever way the
\* search goes; the waker's CPU is never taken when the mask forbids it.
StaysAllowed ==
    (selected # NotAsked /\ selected.prev \in selected.allowed)
        => selected.answer \in selected.allowed

\* A wake-up with the waker and the previous CPU in one cache gets an idle CPU whenever
\* a whole group of that cache, a core, is idle and the task may run in it, whichever of
\* the two CPUs wake_affine prefers. (A core of which only a part is idle may be missed.)
IdleFound ==
    LET r     == selected
        cache == Topologies[r.t].dom[r.cpu][Topologies[r.t].llc]
    IN (Asked("wake") /\ {r.cpu, r.prev} \subseteq r.allowed \cap cache.span
        /\ "affine" \in cache.flags /\ Cardinality(r.allowed) > 1
        /\ \E g \in Range(cache.groups) : g \cap r.allowed # {} /\ \A c \in g : IdleNow(c))
          => IdleNow(r.answer)

\* A task whose previous CPU is idle, and has been for a while, is not woken on a busy
\* one, wherever the waker runs, unless that one is about to go idle itself (sync).
IdleNotLeft ==
    LET r == selected
    IN (Asked("wake") /\ ~r.sync /\ {r.cpu, r.prev} \subseteq r.allowed
        /\ IdleNow(r.prev) /\ selq.past[r.prev] = 0
        /\ \E sd \in Range(Topologies[r.t].dom[r.cpu]) : "affine" \in sd.flags /\ r.prev \in sd.span)
          => IdleNow(r.answer)

\* A forked task does not go to a CPU that is busier than every CPU its parent's
\* group has at the highest level it balances, as long as current loads are used, the
\* CPUs are equally strong and it may run on all of them (the load of a group includes
\* the CPUs the task may not use).
ForkLighter ==
    LET r   == selected
        top == Max({i \in DOMAIN Topologies[r.t].dom[r.cpu] : "fork" \in Topologies[r.t].dom[r.cpu][i].flags} \cup {0})
    IN (Asked("fork") /\ r.allowed = ScCpus /\ top > 0
        /\ \A c \in ScCpus : selq.power[c] = SCALE /\ selq.past[c] = selq.load[c])
          => \E c \in Topologies[r.t].dom[r.cpu][top].groups[1] : selq.load[r.answer] <= selq.load[c]

\* The CPU chosen for a task is one it may use, an idle one where the search
\* promises one, and for a fork not busier than the parent's group (fair.c:3092,
\* 3179, 3255, 3315).
ChoosesWell ==
    /\ ScTypeOK
    /\ StaysAllowed
    /\ IdleFound /\ IdleNotLeft
    /\ ForkLighter

=============================================================================
