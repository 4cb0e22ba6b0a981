---------------------------- MODULE GroupShares ----------------------------
(***************************************************************************)
(* How the shares of a task group are spread over its entities, one per    *)
(* CPU, and what wake_affine expects to change when a task wakes up        *)
(* (kernel/sched/fair.c: calc_cfs_shares, update_cfs_shares,               *)
(* effective_load). GsGroups form a path: the last one is a child of the     *)
(* root group. Other load of a CPU at the root does not matter here.       *)
(***************************************************************************)
EXTENDS Integers, Sequences, FiniteSets, FiniteSetsExt, SequencesExt

CONSTANTS
    GsCpus,
    Depth,              \* groups on the path, 1 is the innermost
    GsWeight,           \* weight of a task
    ShareValues,        \* what an administrator may set
    MAX_SHARES,
    GsMaxTasks          \* bound: tasks of a group on a CPU

VARIABLES
    gtasks,             \* gtasks[g][c]: tasks of group g itself on CPU c
    gshares,            \* tg->shares
    gweight,            \* se->load.weight of tg->se[c]
    gcontrib            \* tg_load_contrib of tg->cfs_rq[c]; tg->load_avg is their sum

gsVars == <<gtasks, gshares, gweight, gcontrib>>

GsGroups == 1 .. Depth
MIN_SHARES == 2
Clamp(x, low, high) == Max({low, Min({x, high})})

\* cfs_rq->load.weight: the tasks and, if it is queued, the entity of the child.
Load(tasks, weight, g, c) ==
    tasks[g][c] * GsWeight
      + (IF g > 1 /\ (\E k \in 1 .. g - 1 : tasks[k][c] > 0) THEN weight[g - 1][c] ELSE 0)

GroupLoad(g, c) == Load(gtasks, gweight, g, c)

\* The group's load, with the actual one of this CPU.
calc_tg_weight(contrib, g, c, load) ==
    MapThenSumSet(LAMBDA d : IF d = c THEN load ELSE contrib[g][d], GsCpus)


calc_cfs_shares(contrib, shares, g, c, load) ==
    LET tg_weight == calc_tg_weight(contrib, g, c, load)
        share == IF tg_weight > 0 THEN (shares[g] * load) \div tg_weight ELSE shares[g] * load
    IN Min({shares[g], Max({MIN_SHARES, share})})

\* The weights of the entities on CPU c after update_cfs_shares from g outwards, as the
\* loops over the hierarchy in enqueue_task_fair and sched_group_set_shares do it.
update_cfs_shares(tasks, shares, first, c) ==
    FoldLeft(LAMBDA w, g : IF g < first THEN w
                           ELSE [w EXCEPT ![g][c] = calc_cfs_shares(gcontrib, shares, g, c,
                                                                    Load(tasks, w, g, c))],
             gweight, [g \in GsGroups |-> g])

\* The change of load of CPU c as seen from the root when wl is added to group 1 there
\* and wg to all of it.
effective_load(c, wl, wg) ==
    FoldLeft(LAMBDA d, g :
                LET W == (IF g = 1 THEN wg ELSE 0)
                            + calc_tg_weight(gcontrib, g, c, GroupLoad(g, c))
                    w == GroupLoad(g, c) + d
                    s == IF W > 0 /\ w < W THEN (w * gshares[g]) \div W ELSE gshares[g]
                IN Max({MIN_SHARES, s}) - gweight[g][c],
             wl, [g \in GsGroups |-> g])
-----------------------------------------------------------------------------
GsInit ==
    /\ gtasks = [g \in GsGroups |-> [c \in GsCpus |-> 0]]
    /\ gshares \in [GsGroups -> ShareValues]
    /\ gweight = [g \in GsGroups |-> [c \in GsCpus |-> 0]]
    /\ gcontrib = [g \in GsGroups |-> [c \in GsCpus |-> 0]]

gs_enqueue(g, c) ==
    /\ gtasks[g][c] < GsMaxTasks
    /\ gtasks' = [gtasks EXCEPT ![g][c] = @ + 1]
    /\ gweight' = update_cfs_shares(gtasks', gshares, g, c)
    /\ UNCHANGED <<gshares, gcontrib>>

gs_dequeue(g, c) ==
    /\ gtasks[g][c] > 0
    /\ gtasks' = [gtasks EXCEPT ![g][c] = @ - 1]
    /\ gweight' = update_cfs_shares(gtasks', gshares, g, c)
    /\ UNCHANGED <<gshares, gcontrib>>

\* The average of a queue reaches its load (LoadTracking has the steps), and its
\* entities are weighed again.
gs_contribute(c) ==
    /\ gcontrib' = [g \in GsGroups |-> [gcontrib[g] EXCEPT ![c] = GroupLoad(g, c)]]
    /\ gweight' = update_cfs_shares(gtasks, gshares, 1, c)
    /\ UNCHANGED <<gtasks, gshares>>

\* sched_group_set_shares: the entities of all CPUs, from the group outwards.
sched_group_set_shares(g, value) ==
    LET shares == [gshares EXCEPT ![g] = Clamp(value, MIN_SHARES, MAX_SHARES)]
    IN /\ value # gshares[g]
       /\ gshares' = shares
       /\ gweight' = [h \in GsGroups |-> [c \in GsCpus |->
                        update_cfs_shares(gtasks, shares, g, c)[h][c]]]
       /\ UNCHANGED <<gtasks, gcontrib>>

GsNext ==
    \/ \E g \in GsGroups, c \in GsCpus : gs_enqueue(g, c) \/ gs_dequeue(g, c)
    \/ \E c \in GsCpus : gs_contribute(c)
    \/ \E g \in GsGroups, v \in ShareValues : sched_group_set_shares(g, v)

GsSpec == GsInit /\ [][GsNext]_gsVars
-----------------------------------------------------------------------------
\* Every entity that was ever queued weighs at least MIN_SHARES and at most what its
\* group is given now.
GsTypeOK ==
    \A g \in GsGroups : /\ gshares[g] \in MIN_SHARES .. MAX_SHARES
                      /\ \A c \in GsCpus : gweight[g][c] \in {0} \cup MIN_SHARES .. gshares[g]

UpToDate ==
    /\ \A g \in GsGroups, c \in GsCpus : gcontrib[g][c] = GroupLoad(g, c)
    /\ \A c \in GsCpus : update_cfs_shares(gtasks, gshares, 1, c) = gweight

\* Once the averages are up to date, the entities of a group together weigh no more
\* than its shares, but for the least weight that every entity has.
SharesRespected ==
    \A g \in GsGroups :
        \/ MapThenSumSet(LAMBDA c : gweight[g][c], GsCpus)
              <= gshares[g] + MIN_SHARES * Cardinality(GsCpus)
        \/ ~UpToDate

Gain(c) == MapThenSumSet(LAMBDA d : effective_load(d, IF d = c THEN GsWeight ELSE 0, GsWeight),
                         GsCpus)

\* "Adding load to a group doesn't make a group heavier" (fair.c:2981): what effective_load
\* answers for all CPUs adds up to nothing, but for rounding, wherever the task wakes up.
NotHeavier ==
    ((\E c \in GsCpus : gtasks[1][c] > 0) /\ UpToDate) =>
        \A c \in GsCpus : Gain(c) <= MIN_SHARES * Depth * Cardinality(GsCpus)


=============================================================================
