------------------------------- MODULE MCFair -------------------------------
(***************************************************************************)
(* Seven components of the fair class and its balancing that share no      *)
(* state, for TLC.  One of them moves in a behaviour, the others stay in   *)
(* one of their initial states.                                            *)
(***************************************************************************)
EXTENDS Vruntime, LoadTracking, RunnableAvg, LoadAvg, SelectCpu, NohzBalance, TLC

VARIABLE focus   \* the component that moves

-----------------------------------------------------------------------------
\* Task c is light, of policy SCHED_IDLE and bound to CPU 1 like b.
MCWeight == [p \in VrTasks |-> IF p = "c" THEN 1 ELSE 2]
MCPolicy == [p \in VrTasks |-> IF p = "c" THEN "idle" ELSE "normal"]
MCAllowed == [p \in VrTasks |-> IF p = "a" THEN {1, 2} ELSE {1}]

\* Run queues, real-time shares and domains in which balancing takes its decisions.
MCQueues ==
    {[nr |-> 0, load |-> 0], [nr |-> 1, load |-> 4], [nr |-> 2, load |-> 8],
     [nr |-> 3, load |-> 12], [nr |-> 3, load |-> 6]}
MCWindows == {[total |-> 8, avg |-> 0], [total |-> 8, avg |-> 9]}

Sd(groups, asym, sibling, smt, orig) ==
    [groups |-> groups, asym |-> asym, sibling |-> sibling, smt |-> smt, orig |-> orig,
     pct |-> 125]

MCDomains ==
    {Sd(<<{0, 1}, {2}>>, FALSE, FALSE, FALSE, 4), Sd(<<{0, 1}, {2}>>, FALSE, TRUE, FALSE, 4),
     Sd(<<{2}, {0, 1}>>, FALSE, TRUE, FALSE, 4), Sd(<<{2}, {0, 1}>>, FALSE, FALSE, FALSE, 4),
     Sd(<<{0}, {1}, {2}>>, TRUE, FALSE, TRUE, 2), Sd(<<{0}, {1}, {2}>>, FALSE, FALSE, FALSE, 4)}

\* Two pairs of CPUs; the caches are shared by all or by a pair, the wider domain
\* takes part in affine wake-ups or in balancing wake-ups.
Half(c) == IF c < 2 THEN {0, 1} ELSE {2, 3}
Singles(S) == SetToSortSeq({{c} : c \in S}, LAMBDA a, b : Min(a) < Min(b))
FromOwn(groups, c) ==
    LET i == CHOOSE i \in DOMAIN groups : c \in groups[i]
    IN SubSeq(groups, i, Len(groups)) \o SubSeq(groups, 1, i - 1)
Domain(c, span, groups, flags, idx) ==
    [span |-> span, groups |-> FromOwn(groups, c), flags |-> flags \cup {"load_balance", "fork"},
     idx |-> idx]
Topology(llc, low, high, idx) ==
    [llc |-> llc,
     dom |-> [c \in ScCpus |-> <<Domain(c, Half(c), Singles(Half(c)), low, 0),
                                 Domain(c, ScCpus, <<{0, 1}, {2, 3}>>, high, idx)>>]]

MCTopologies ==
    [one   |-> Topology(2, {"affine"}, {"affine"}, 0),
     two   |-> Topology(1, {"affine"}, {"affine"}, 1),
     three |-> Topology(1, {"affine", "wake"}, {"wake"}, 0)]

MCScQueues ==
    {[nr |-> 0, load |-> 0, curr |-> 0], [nr |-> 1, load |-> 4, curr |-> 4],
     [nr |-> 1, load |-> 2, curr |-> 2], [nr |-> 3, load |-> 9, curr |-> 4]}
MCAffinities == {{0, 1, 2, 3}, {0, 2}}
-----------------------------------------------------------------------------
mcVars == <<focus, vrVars, ltVars, raVars, laVars, bgVars, scVars, nzVars>>

MCInit ==
    /\ focus \in {"vruntime", "tracking", "average", "load_avg", "group", "select", "nohz"}
    /\ IF focus = "vruntime" THEN TRUE ELSE start = Min(StartMins)
    /\ VrInit /\ LtInit /\ RaInit /\ LaInit /\ NzInit
    /\ IF focus = "group" THEN BgInit
       ELSE bgq = [power |-> [c \in LbCpus |-> SCALE]] /\ decided = {}
    /\ IF focus = "select" THEN ScInit ELSE selq = <<>> /\ selected = NotAsked

MCNext ==
    /\ UNCHANGED focus
    /\ \/ /\ focus = "vruntime" /\ VrNext
          /\ UNCHANGED <<ltVars, raVars, laVars, bgVars, scVars, nzVars>>
       \/ /\ focus = "tracking" /\ LtNext
          /\ UNCHANGED <<vrVars, raVars, laVars, bgVars, scVars, nzVars>>
       \/ /\ focus = "average" /\ RaNext
          /\ UNCHANGED <<vrVars, ltVars, laVars, bgVars, scVars, nzVars>>
       \/ /\ focus = "load_avg" /\ LaNext
          /\ UNCHANGED <<vrVars, ltVars, raVars, bgVars, scVars, nzVars>>
       \/ /\ focus = "group" /\ BgNext
          /\ UNCHANGED <<vrVars, ltVars, raVars, laVars, scVars, nzVars>>
       \/ /\ focus = "select" /\ ScNext
          /\ UNCHANGED <<vrVars, ltVars, raVars, laVars, bgVars, nzVars>>
       \/ /\ focus = "nohz" /\ NzNext
          /\ UNCHANGED <<vrVars, ltVars, raVars, laVars, bgVars, scVars>>

MCSpec == MCInit /\ [][MCNext]_mcVars

-----------------------------------------------------------------------------
\* Load tracking is right in what it adds up and where: the sums of a queue are those
\* of its tasks however they move, and the decaying sums are what adding period after
\* period gives (fair.c:1182, 1231, 1473, 1504).
TrackingRight == LoadsExact /\ DecaySound

=============================================================================
