------------------------------ MODULE Throttle ------------------------------
(***************************************************************************)
(* Group scheduling on one CPU with throttling: what enqueue_task_fair,    *)
(* dequeue_task_fair, throttle_cfs_rq and unthrottle_cfs_rq                *)
(* (kernel/sched/fair.c) do to the hierarchy of cfs_rqs and its counters.  *)
(*                                                                         *)
(* An entity is a task or a group; Parent[e] is the group whose cfs_rq it  *)
(* is queued on.  Whether a cfs_rq is out of runtime is Bandwidth's        *)
(* matter: here it may be whenever the code asks.                          *)
(***************************************************************************)
EXTENDS Integers, Sequences, FiniteSets, FiniteSetsExt, SequencesExt

CONSTANTS
    ThTasks,
    ThGroups,   \* groups other than the root group
    Root,
    Parent    \* entity -> group

ASSUME ThrottleAssumption ==
    /\ Root \notin ThGroups /\ ThTasks \cap (ThGroups \cup {Root}) = {}
    /\ Parent \in [ThTasks \cup ThGroups -> ThGroups \cup {Root}]

AllGroups == ThGroups \cup {Root}

VARIABLES
    h  \* the hierarchy: [queued, h_nr_running, nr_running, throttled, throttle_count]

thVars == <<h>>

ThInit ==
    h = [queued |-> [g \in AllGroups |-> {}],      \* entities with on_rq set, by cfs_rq
         h_nr_running |-> [g \in AllGroups |-> 0],
         nr_running |-> 0,                          \* of the run queue
         throttled |-> [g \in AllGroups |-> FALSE],
         throttle_count |-> [g \in AllGroups |-> 0]]

-----------------------------------------------------------------------------
RECURSIVE PathOf(_)
PathOf(e) == IF Parent[e] = Root THEN <<e>> ELSE <<e>> \o PathOf(Parent[e])

\* for_each_sched_entity: from e up to the entity on the root's cfs_rq.
Path(e) == IF e = Root THEN <<>> ELSE PathOf(e)

OnRq(s, e) == e \in s.queued[Parent[e]]

\* The groups at and below g (walk_tg_tree_from).
Subtree(g) == {k \in AllGroups : k = g \/ g = Root \/ g \in ToSet(Path(k))}

\* throttle_cfs_rq: take the group's entity off, and every ancestor that is
\* empty then; the walk ends at an entity that is not queued.
throttle_step(s, e) ==
    IF s.stop THEN s
    ELSE IF ~OnRq(s.h, e) THEN [s EXCEPT !.stop = TRUE]
    ELSE LET p == Parent[e]
             q == IF s.move THEN s.h.queued[p] \ {e} ELSE s.h.queued[p]
         IN  [s EXCEPT !.h.queued[p] = q,
                       !.h.h_nr_running[p] = @ - s.delta,
                       !.move = @ /\ q = {}]

Walk(hh, delta) == [h |-> hh, delta |-> delta, move |-> TRUE, stop |-> FALSE]

throttle_cfs_rq(hh, g) ==
    LET counted == [hh EXCEPT !.throttle_count =
                       [k \in AllGroups |-> IF k \in Subtree(g) THEN @[k] + 1 ELSE @[k]]]
        w == FoldLeft(throttle_step, Walk(counted, hh.h_nr_running[g]), Path(g))
    IN  [w.h EXCEPT !.throttled[g] = TRUE,
                    !.nr_running = IF w.stop THEN @ ELSE @ - w.delta]

\* th_enqueue_entity: the first entity of a cfs_rq makes the kernel look at its
\* runtime (check_enqueue_throttle); out is the set of groups without any.
th_enqueue_entity(hh, e, out) ==
    LET p == Parent[e]
        q == [hh EXCEPT !.queued[p] = @ \cup {e}]
    IN  IF Cardinality(q.queued[p]) = 1 /\ p \in out /\ ~hh.throttled[p]
        THEN throttle_cfs_rq(q, p) ELSE q

\* unthrottle_cfs_rq: put the entity back, and every ancestor that is off; the
\* walk ends below a throttled ancestor.
unthrottle_cfs_rq(hh, g, out) ==
    LET step(s, e) ==
            LET p == Parent[e]
                move == s.move /\ ~OnRq(s.h, e)
                n == IF move THEN th_enqueue_entity(s.h, e, out) ELSE s.h
            IN  IF s.stop THEN s
                ELSE [s EXCEPT !.h = [n EXCEPT !.h_nr_running[p] = @ + s.delta],
                               !.move = move, !.stop = n.throttled[p]]
        counted == [hh EXCEPT !.throttled[g] = FALSE, !.throttle_count =
                       [k \in AllGroups |-> IF k \in Subtree(g) THEN @[k] - 1 ELSE @[k]]]
        w == FoldLeft(step, Walk(counted, hh.h_nr_running[g]), Path(g))
    IN  IF hh.queued[g] = {} THEN counted
        ELSE [w.h EXCEPT !.nr_running = IF w.stop THEN @ ELSE @ + w.delta]

\* enqueue_task_fair: queue the task and its ancestors up to one that is queued,
\* then only count; nothing is counted above a throttled cfs_rq.
th_enqueue_task_fair(hh, t, out) ==
    LET step(s, e) ==
            LET p == Parent[e]
                move == s.move /\ ~OnRq(s.h, e)
                n == IF move THEN th_enqueue_entity(s.h, e, out) ELSE s.h
            IN  IF s.stop THEN s
                ELSE [s EXCEPT !.h = [n EXCEPT !.h_nr_running[p] = @ + 1],
                               !.move = move, !.stop = n.throttled[p]]
        w == FoldLeft(step, Walk(hh, 1), Path(t))
    IN  [w.h EXCEPT !.nr_running = IF w.stop THEN @ ELSE @ + 1]

\* Mutant: an ancestor is dequeued although it has other entities.
DequeueAll(hh, t) ==
    LET step(s, e) ==
            LET p == Parent[e] IN
            IF s.stop THEN s
            ELSE [s EXCEPT !.h.queued[p] = @ \ {e}, !.h.h_nr_running[p] = @ - 1,
                           !.stop = s.h.throttled[p]]
        w == FoldLeft(step, Walk(hh, 1), Path(t))
    IN  [w.h EXCEPT !.nr_running = IF w.stop THEN @ ELSE @ - 1]

\* dequeue_task_fair: dequeue the task and every ancestor that is empty then,
\* then only count; again up to a throttled cfs_rq.
th_dequeue_task_fair(hh, t) ==
    LET step(s, e) ==
            LET p == Parent[e]
                q == IF s.move THEN s.h.queued[p] \ {e} ELSE s.h.queued[p]
            IN  IF s.stop THEN s
                ELSE [s EXCEPT !.h.queued[p] = q, !.h.h_nr_running[p] = @ - 1,
                               !.move = @ /\ q = {}, !.stop = s.h.throttled[p]]
        w == FoldLeft(step, Walk(hh, 1), Path(t))
    IN  [w.h EXCEPT !.nr_running = IF w.stop THEN @ ELSE @ - 1]

-----------------------------------------------------------------------------
wake(t) ==
    /\ ~OnRq(h, t)
    /\ \E out \in SUBSET ThGroups : h' = th_enqueue_task_fair(h, t, out)

sleep(t) == OnRq(h, t) /\ h' = th_dequeue_task_fair(h, t)

\* check_cfs_rq_runtime of a group that has run.
throttle(g) == ~h.throttled[g] /\ h' = throttle_cfs_rq(h, g)

unthrottle(g) ==
    /\ h.throttled[g]
    /\ \E out \in SUBSET (ThGroups \ {g}) : h' = unthrottle_cfs_rq(h, g, out)

ThNext ==
    \/ \E t \in ThTasks : wake(t) \/ sleep(t)
    \/ \E g \in ThGroups : throttle(g) \/ unthrottle(g)

-----------------------------------------------------------------------------
ThTypeOK ==
    /\ \A g \in AllGroups : \A e \in h.queued[g] : Parent[e] = g
    /\ h.h_nr_running \in [AllGroups -> 0 .. Cardinality(ThTasks)]
    /\ h.nr_running \in 0 .. Cardinality(ThTasks)
    /\ h.throttled \in [AllGroups -> BOOLEAN]

Above(e) == ToSet(Tail(Path(e)))

\* The queued tasks below g that no throttled group between them and g hides.
Counted(g) ==
    {t \in ThTasks : /\ OnRq(h, t)
                     /\ g = Root \/ g \in Above(t)
                     /\ \A k \in Above(t) : g \in {Root} \cup Above(k) => ~h.throttled[k]}

\* Every h_nr_running counts exactly the runnable tasks below it that are not
\* hidden by a throttled group, and rq->nr_running those that can run at all:
\* nobody is counted twice or forgotten when tasks come and go below throttled
\* groups and the groups are throttled and unthrottled in any order.
CountsExact ==
    /\ \A g \in AllGroups : h.h_nr_running[g] = Cardinality(Counted(g))
    /\ h.nr_running = h.h_nr_running[Root]

\* A group's entity is queued exactly when its cfs_rq has something to run and
\* is not throttled: no runnable group is lost, and none is picked in vain.
EntityQueuedRight ==
    \A g \in ThGroups : OnRq(h, g) <=> h.queued[g] # {} /\ ~h.throttled[g]

\* throttle_count is the number of throttled groups at and above a group, so
\* that load balancing and the clock of a group stop exactly while one of them
\* is throttled.
ThrottleCountExact ==
    \A g \in ThGroups :
        h.throttle_count[g] = Cardinality({k \in ThGroups : h.throttled[k] /\ g \in Subtree(k)})

\* Tasks come and go and groups are throttled and unthrottled in any order, and the
\* counts, the queued entities and the nesting of throttled groups stay exact
\* (fair.c:2234, 2273, 2794, 2844).
HierarchyExact ==
    /\ ThTypeOK
    /\ CountsExact
    /\ EntityQueuedRight
    /\ ThrottleCountExact

=============================================================================
