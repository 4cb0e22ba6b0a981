------------------------------ MODULE Bandwidth ------------------------------
(***************************************************************************)
(* CFS bandwidth control (kernel/sched/fair.c, CONFIG_CFS_BANDWIDTH): one  *)
(* task group with a quota, its cfs_rq on every CPU, the period timer that *)
(* refills the pool and pays throttled cfs_rqs, the slack timer, and       *)
(* tg_set_cfs_bandwidth.                                                   *)
(*                                                                         *)
(* A step is what happens under one hold of cfs_b->lock.  A CPU holds its  *)
(* rq->lock over several of them: rqLock says in which part of the code.   *)
(* Expiry times are only compared, so a cfs_rq's runtime_expires is kept   *)
(* relative to the pool's: "same", "ext" (extended past it) or "old".      *)
(***************************************************************************)
EXTENDS Integers, Sequences, FiniteSets, FiniteSetsExt, SequencesExt

CONSTANTS
    Cpus,               \* a set of numbers
    Quotas,             \* the quotas user space writes; RUNTIME_INF for none
    FirstQuota,         \* the one it writes before the group has a task
    RUNTIME_INF,
    BandwidthSlice,     \* sched_cfs_bandwidth_slice()
    MinCfsRqRuntime,    \* min_cfs_rq_runtime
    MaxDelta,           \* bound: the longest time a CPU runs between two ticks
    MaxDebt,            \* bound: a CPU that far in debt is rescheduled
    MaxUpdates,         \* bound: how often the CPUs account running time
    AdminCost           \* bound: a write of the quota, or a CPU going offline,
                        \* takes the place of that many of them

ASSUME BandwidthAssumption ==
    /\ Cpus \subseteq Nat /\ BandwidthSlice \in Nat \ {0} /\ MinCfsRqRuntime \in Nat
    /\ MaxDelta \in Nat /\ MaxDebt \in Nat /\ MaxUpdates \in Nat /\ AdminCost \in Nat \ {0}
    /\ RUNTIME_INF \in Nat /\ FirstQuota \in Quotas /\ \A q \in Quotas : q \in 1 .. RUNTIME_INF

VARIABLES
    pool,     \* struct cfs_bandwidth: [quota, runtime, idle, timer_active]
    throttledList,  \* cfs_b->throttled_cfs_rq
    period,   \* the period timer: its hrtimer state, and the callback's progress
    slack,    \* the slack timer, likewise
    cfs,      \* cfs_rq of each CPU: [runtime_remaining, runtime_expires, runtime_enabled, throttled]
    group,    \* the group on each CPU: "none" (no task to run), "ready" (it runs
              \* whenever it is not throttled) or "forced" (runs although throttled)
    rqLock,   \* where the holder of rq->lock is: [at, to]; at = "free": not held
    setter,   \* tg_set_cfs_bandwidth: where it is, the quota, the CPUs it has yet to visit
    budget,   \* what is left of MaxUpdates
    stale,    \* the timers whose callback holds runtime of an earlier period
    issued,   \* runtime issued from the pool for the present period (history)
    muddled   \* has runtime from elsewhere been mixed with this period's? (history)

bwVars == <<pool, throttledList, period, slack, cfs, group, rqLock, setter, budget, stale,
            issued, muddled>>

\* A timer: its hrtimer state and, while its callback distributes runtime, what
\* is left, the rest of the list and the last cfs_rq visited.
NoWork == [left |-> 0, todo |-> <<>>, last |-> -1]
Timer(hr, at, work) == [hr |-> hr, at |-> at, work |-> work]

\* A group without tasks: init_cfs_bandwidth, and the first write of the quota.
BwInit ==
    /\ pool = [quota |-> FirstQuota, idle |-> FALSE, timer_active |-> FALSE,
               runtime |-> IF FirstQuota = RUNTIME_INF THEN 0 ELSE FirstQuota]
    /\ throttledList = <<>>
    /\ period = Timer("inactive", "end", NoWork) /\ slack = Timer("inactive", "end", NoWork)
    /\ cfs = [c \in Cpus |-> [runtime_remaining |-> 0, runtime_expires |-> "old",
                              runtime_enabled |-> FirstQuota # RUNTIME_INF, throttled |-> FALSE]]
    /\ group = [c \in Cpus |-> "none"]
    /\ rqLock = [c \in Cpus |-> [at |-> "free", to |-> "none"]]
    /\ setter = [at |-> "idle", todo |-> {}]
    /\ budget = MaxUpdates /\ stale = {} /\ issued = 0 /\ muddled = FALSE

-----------------------------------------------------------------------------
\* The local clock may have passed the local deadline: then either it runs fast
\* and the deadline is extended, or the runtime has expired.
expire_cfs_rq_runtime(q) ==
    {q} \cup IF q.runtime_remaining < 0 THEN {}
             ELSE IF q.runtime_expires = "old" THEN {[q EXCEPT !.runtime_remaining = 0]}
             ELSE {[q EXCEPT !.runtime_expires = "ext"]}

\* assign_cfs_rq_runtime once the timer is active.
Taken(p, q) ==
    LET want == BandwidthSlice - q.runtime_remaining
        amount == IF p.quota = RUNTIME_INF THEN want
                  ELSE IF p.runtime < want THEN p.runtime ELSE want
    IN  [pool |-> IF p.quota = RUNTIME_INF \/ p.runtime = 0 THEN p
                  ELSE [p EXCEPT !.runtime = @ - amount, !.idle = FALSE],
         amount |-> amount,
         cfs |-> [q EXCEPT !.runtime_remaining = @ + amount,
                           !.runtime_expires = IF @ = "old" THEN "same" ELSE @]]

\* Where the holder of rq->lock goes after update_curr, by what it is doing.
AfterUpdate(to) == IF to = "tick" THEN "free" ELSE "check"

Held(c, at, to) == rqLock' = [rqLock EXCEPT ![c] = [at |-> at, to |-> to]]

\* start_bandwidth_timer starts a timer that is not active.
Started(t) == IF t.hr = "inactive" THEN [t EXCEPT !.hr = "queued"] ELSE t

\* The rest of assign_cfs_rq_runtime, with pool p and cfs_rqs cf; total is the
\* runtime issued before.
Assign(c, p, cf, total, to) ==
    LET t == Taken(p, cf[c]) IN
    /\ pool' = t.pool
    /\ cfs' = [cf EXCEPT ![c] = t.cfs]
    /\ issued' = IF p.quota = RUNTIME_INF THEN total ELSE total + t.amount
    /\ Held(c, AfterUpdate(to), to)

\* A refill: all runtime issued before is of an earlier period now.
Refilled(p) == IF p.quota = RUNTIME_INF THEN p ELSE [p EXCEPT !.runtime = p.quota]
SliceAged(cf) == [c \in Cpus |-> [cf[c] EXCEPT !.runtime_expires = "old"]]
OldSlack == IF slack.work.left > 0 THEN {"slack"} ELSE {}
Refill ==
    /\ stale' = (IF period.work.left > 0 THEN {"period"} ELSE {}) \cup OldSlack
    /\ muddled' = (period.work.left > 0)

\* assign_cfs_rq_runtime of cfs_rq q.  Without an active timer the pool is
\* refilled and the timer started, which takes longer if it is still active.
assign_cfs_rq_runtime(c, q, to) ==
    LET cf == [cfs EXCEPT ![c] = q] IN
    IF pool.quota = RUNTIME_INF \/ pool.timer_active
    THEN Assign(c, pool, cf, issued, to) /\ UNCHANGED <<period, stale, muddled>>
    ELSE /\ Refill
         /\ IF period.hr = "inactive"
            THEN /\ period' = Started(period)
                 /\ Assign(c, [Refilled(pool) EXCEPT !.timer_active = TRUE], SliceAged(cf), 0, to)
            ELSE /\ pool' = Refilled(pool) /\ cfs' = SliceAged(cf) /\ issued' = 0
                 /\ Held(c, "cancel", to)
                 /\ UNCHANGED period

\* __account_cfs_rq_runtime: dock, expire, and ask the pool for more.
account_cfs_rq_runtime(c, delta, to) ==
    /\ rqLock[c].at = "free"
    /\ delta <= cfs[c].runtime_remaining + MaxDebt
    /\ IF ~cfs[c].runtime_enabled
       THEN Held(c, AfterUpdate(to), to) /\ UNCHANGED <<pool, cfs, period, stale, issued, muddled>>
       ELSE \E q \in expire_cfs_rq_runtime([cfs[c] EXCEPT !.runtime_remaining = @ - delta]) :
            \/ /\ q.runtime_remaining > 0
               /\ cfs' = [cfs EXCEPT ![c] = q]
               /\ Held(c, AfterUpdate(to), to)
               /\ UNCHANGED <<pool, period, stale, issued, muddled>>
            \/ q.runtime_remaining <= 0 /\ assign_cfs_rq_runtime(c, q, to)
    /\ UNCHANGED <<throttledList, slack, setter>>

Runs(c) == group[c] = "forced" \/ (group[c] = "ready" /\ ~cfs[c].throttled)

\* update_curr at a tick, when the group is put, when its last task sleeps, and
\* when a task is put and set current again.
update_curr(c) ==
    /\ Runs(c)
    /\ budget > 0 /\ budget' = budget - 1
    /\ \E delta \in 0 .. MaxDelta, to \in {"tick", "put", "sleep", "setcurr"} :
           account_cfs_rq_runtime(c, delta, to)
    /\ UNCHANGED group

\* enqueue_entity of the group's first task; check_enqueue_throttle.
enqueue(c) ==
    /\ group[c] = "none"
    /\ group' = [group EXCEPT ![c] = "ready"]
    /\ IF cfs[c].throttled
       THEN /\ rqLock[c].at = "free"
            /\ UNCHANGED <<pool, throttledList, period, slack, cfs, rqLock, setter, stale, issued, muddled>>
       ELSE account_cfs_rq_runtime(c, 0, "put")
    /\ UNCHANGED budget

-----------------------------------------------------------------------------
\* __start_cfs_bandwidth with the hrtimer active: give up cfs_b->lock and cancel
\* it, which waits for a running callback; with the lock again, stop if somebody
\* else has started the timer, start it, or cancel it once more.
hrtimer_cancel == period.hr # "running" /\ period' = Timer("inactive", "end", NoWork)

start_cancel(c) ==
    /\ rqLock[c].at = "cancel"
    /\ hrtimer_cancel
    /\ Held(c, "cancelled", rqLock[c].to)
    /\ UNCHANGED <<pool, throttledList, slack, cfs, group, setter, budget, stale, issued, muddled>>

__start_cfs_bandwidth(c) ==
    LET to == rqLock[c].to IN
    /\ rqLock[c].at = "cancelled"
    /\ IF pool.timer_active
       THEN Assign(c, pool, cfs, issued, to) /\ UNCHANGED period
       ELSE IF period.hr = "inactive"
       THEN /\ period' = Started(period)
            /\ Assign(c, [pool EXCEPT !.timer_active = TRUE], cfs, issued, to)
       ELSE Held(c, "cancel", to) /\ UNCHANGED <<pool, cfs, period, issued>>
    /\ UNCHANGED <<throttledList, slack, group, setter, budget, stale, muddled>>

-----------------------------------------------------------------------------
\* Is the period about to end?  It is while the callback runs; otherwise it may be.
runtime_refresh_within == IF period.hr = "running" THEN {TRUE} ELSE BOOLEAN

\* A distribution that has just visited c finds the end of the list behind it,
\* since c is now the last one.
Overtaken(t, c) == IF t.work.last = c THEN [t EXCEPT !.work.todo = <<>>] ELSE t

throttle_cfs_rq(c, cf) ==
    /\ cfs' = [cf EXCEPT ![c].throttled = TRUE]
    /\ throttledList' = Append(throttledList, c)
    /\ period' = Overtaken(period, c)

\* return_cfs_rq_runtime: when the last task is gone, what is above the minimum
\* goes back to the pool if it is of this period, and may start the slack timer.
Surplus(c) ==
    IF rqLock[c].to = "sleep" /\ cfs[c].runtime_enabled
         /\ cfs[c].runtime_remaining > MinCfsRqRuntime
    THEN cfs[c].runtime_remaining - MinCfsRqRuntime ELSE 0

return_cfs_rq_runtime(c, throttles) ==
    LET back == IF pool.quota # RUNTIME_INF /\ cfs[c].runtime_expires = "same"
                THEN Surplus(c) ELSE 0
    IN  /\ pool' = [pool EXCEPT !.runtime = @ + back]
        /\ issued' = issued - back
        /\ \E soon \in runtime_refresh_within :
             LET t == IF back > 0 /\ pool.runtime + back > BandwidthSlice
                           /\ throttledList # <<>> /\ ~soon
                      THEN Started(slack) ELSE slack
             IN  slack' = IF throttles THEN Overtaken(t, c) ELSE t

\* The end of dequeue_entity, put_prev_entity and check_enqueue_throttle:
\* check_cfs_rq_runtime.  set_curr_task makes the group current again, throttled
\* or not.
check_cfs_rq_runtime(c) ==
    LET to == rqLock[c].to
        cf == [cfs EXCEPT ![c].runtime_remaining = @ - Surplus(c)]
        throttles == cf[c].runtime_enabled /\ cf[c].runtime_remaining <= 0 /\ ~cf[c].throttled
    IN  /\ rqLock[c].at = "check"
        /\ return_cfs_rq_runtime(c, throttles)
        /\ IF throttles
           THEN throttle_cfs_rq(c, cf)
           ELSE cfs' = cf /\ UNCHANGED <<throttledList, period>>
        /\ group' = [group EXCEPT ![c] = IF to = "sleep" THEN "none"
                                         ELSE IF to = "setcurr" /\ cfs'[c].throttled THEN "forced"
                                         ELSE "ready"]
        /\ Held(c, "free", "none")
        /\ UNCHANGED <<setter, budget, stale, muddled>>

\* unthrottle_cfs_rq takes the cfs_rq off the list.
unthrottle_cfs_rq(c) == throttledList' = SelectSeq(throttledList, LAMBDA d : d # c)

-----------------------------------------------------------------------------
\* The part of the list behind c.
Behind(c) ==
    SubSeq(throttledList, SelectInSeq(throttledList, LAMBDA d : d = c) + 1, Len(throttledList))

\* Mutant: the debt and not one more.
PaymentShort(w, c) ==
    LET debt == -cfs[c].runtime_remaining
    IN  IF debt < 0 \/ debt > w.left THEN w.left ELSE debt

\* distribute_cfs_runtime visits c with work w: pay its debt and one more; if its
\* balance is positive the unsigned difference wraps round and it takes all.
Payment(w, c) ==
    LET debt == 1 - cfs[c].runtime_remaining
    IN  IF debt < 0 \/ debt > w.left THEN w.left ELSE debt

Visited(w, c) ==
    IF cfs[c].throttled
    THEN [left |-> w.left - Payment(w, c), todo |-> Behind(c), last |-> c]
    ELSE [w EXCEPT !.todo = Tail(@), !.last = c]

Visit(w, c, timer) ==
    LET paid == cfs[c].runtime_remaining + Payment(w, c) IN
    /\ w.left > 0 /\ w.todo # <<>> /\ c = Head(w.todo)
    /\ rqLock[c].at = "free"
    /\ IF cfs[c].throttled
       THEN /\ cfs' = [cfs EXCEPT ![c].runtime_remaining = paid,
                                  ![c].runtime_expires = IF timer \in stale THEN "old" ELSE "same",
                                  ![c].throttled = paid <= 0]
            /\ IF paid > 0 THEN unthrottle_cfs_rq(c) ELSE UNCHANGED throttledList
            /\ issued' = IF timer \in stale THEN issued ELSE issued + Payment(w, c)
       ELSE UNCHANGED <<cfs, throttledList, issued>>
    /\ UNCHANGED <<pool, group, rqLock, setter, budget, muddled>>

PassOver(w) == w.left = 0 \/ w.todo = <<>>

\* No period timer is needed without a quota, or after an idle period.
GoesIdle == pool.quota = RUNTIME_INF \/ (pool.idle /\ throttledList = <<>>)

\* do_sched_cfs_period_timer up to the distribution, when the timer fires and
\* when the period has ended again during the callback.
do_sched_cfs_period_timer ==
    /\ period.hr = "queued" \/ period.at \in {"idle", "restart"}
    /\ \/ /\ GoesIdle
          /\ pool' = [pool EXCEPT !.timer_active = FALSE]
          /\ period' = Timer("running", "idle", NoWork)
          /\ UNCHANGED <<cfs, stale, issued, muddled>>
       \/ /\ ~GoesIdle /\ throttledList = <<>>
          /\ pool' = [Refilled(pool) EXCEPT !.idle = TRUE]
          /\ cfs' = SliceAged(cfs) /\ issued' = 0
          /\ Refill
          /\ period' = Timer("running", "restart", NoWork)
       \/ /\ ~GoesIdle /\ throttledList # <<>>
          /\ pool' = [pool EXCEPT !.runtime = 0]
          /\ cfs' = SliceAged(cfs) /\ issued' = 0
          /\ stale' = OldSlack /\ muddled' = FALSE
          /\ period' = Timer("running", "dist",
                             [left |-> pool.quota, todo |-> throttledList, last |-> -1])
    /\ UNCHANGED <<throttledList, slack, group, rqLock, setter, budget>>

period_visit(c) ==
    /\ period.at = "dist"
    /\ Visit(period.work, c, "period")
    /\ period' = [period EXCEPT !.work = Visited(@, c)]
    /\ UNCHANGED <<slack, stale>>

\* After a pass over the list: another one, or the rest goes back to the pool.
period_redo ==
    /\ period.at = "dist" /\ PassOver(period.work)
    /\ IF throttledList # <<>> /\ period.work.left > 0
       THEN /\ period' = [period EXCEPT !.work.todo = throttledList]
            /\ UNCHANGED <<pool, stale>>
       ELSE /\ pool' = [pool EXCEPT !.runtime = period.work.left, !.idle = FALSE]
            /\ period' = Timer("running", "restart", NoWork)
            /\ stale' = stale \ {"period"}
    /\ UNCHANGED <<throttledList, slack, cfs, group, rqLock, setter, budget, issued, muddled>>

\* sched_cfs_period_timer ends: the timer is queued again, or stops if its last
\* turn found it idle.
sched_cfs_period_timer ==
    /\ period.at \in {"idle", "restart"}
    /\ period' = Timer(IF period.at = "idle" THEN "inactive" ELSE "queued", "end", NoWork)
    /\ UNCHANGED <<pool, throttledList, slack, cfs, group, rqLock, setter, budget, stale, issued, muddled>>

\* do_sched_cfs_slack_timer takes the whole pool, unless a refill is near.
do_sched_cfs_slack_timer ==
    /\ slack.hr = "queued"
    /\ \E soon \in runtime_refresh_within :
         IF ~soon /\ pool.quota # RUNTIME_INF /\ pool.runtime > BandwidthSlice
         THEN /\ slack' = Timer("running", "dist",
                                [left |-> pool.runtime, todo |-> throttledList, last |-> -1])
              /\ pool' = [pool EXCEPT !.runtime = 0]
              /\ stale' = stale \ {"slack"}
         ELSE slack' = Timer("inactive", "end", NoWork) /\ UNCHANGED <<pool, stale>>
    /\ UNCHANGED <<throttledList, period, cfs, group, rqLock, setter, budget, issued, muddled>>

slack_visit(c) ==
    /\ slack.at = "dist"
    /\ Visit(slack.work, c, "slack")
    /\ slack' = [slack EXCEPT !.work = Visited(@, c)]
    /\ UNCHANGED <<period, stale>>

\* Mutant: what is left goes into the pool of a later period too.
SlackEndLate ==
    /\ slack.at = "dist" /\ PassOver(slack.work)
    /\ pool' = [pool EXCEPT !.runtime = slack.work.left]
    /\ slack' = Timer("inactive", "end", NoWork)
    /\ stale' = stale \ {"slack"}
    /\ UNCHANGED <<throttledList, period, cfs, group, rqLock, setter, budget, issued, muddled>>

\* What is left replaces the pool, if it is still the same period's.
slack_end ==
    /\ slack.at = "dist" /\ PassOver(slack.work)
    /\ pool' = IF "slack" \in stale THEN pool ELSE [pool EXCEPT !.runtime = slack.work.left]
    /\ slack' = Timer("inactive", "end", NoWork)
    /\ stale' = stale \ {"slack"}
    /\ UNCHANGED <<throttledList, period, cfs, group, rqLock, setter, budget, issued, muddled>>

-----------------------------------------------------------------------------
\* tg_set_cfs_bandwidth: the new quota and a refill; a timer that is active is
\* programmed anew; then every CPU starts from nothing, unthrottled.
tg_set_cfs_bandwidth(q) ==
    /\ setter.at = "idle"
    /\ budget >= AdminCost /\ budget' = budget - AdminCost
    /\ LET p == [pool EXCEPT !.quota = q] IN
       IF q = RUNTIME_INF
       THEN /\ pool' = p
            /\ setter' = [at |-> "cpus", todo |-> Cpus]
            /\ UNCHANGED <<cfs, period, stale, issued, muddled>>
       ELSE /\ cfs' = SliceAged(cfs) /\ issued' = 0
            /\ Refill
            /\ IF ~pool.timer_active
               THEN /\ pool' = Refilled(p) /\ UNCHANGED period
                    /\ setter' = [at |-> "cpus", todo |-> Cpus]
               ELSE IF period.hr = "inactive"
               THEN /\ pool' = Refilled(p) /\ period' = Started(period)
                    /\ setter' = [at |-> "cpus", todo |-> Cpus]
               ELSE /\ pool' = [Refilled(p) EXCEPT !.timer_active = FALSE] /\ UNCHANGED period
                    /\ setter' = [at |-> "cancel", todo |-> Cpus]
    /\ UNCHANGED <<throttledList, slack, group, rqLock>>

set_cancel ==
    /\ setter.at = "cancel"
    /\ hrtimer_cancel
    /\ setter' = [setter EXCEPT !.at = "cancelled"]
    /\ UNCHANGED <<pool, throttledList, slack, cfs, group, rqLock, budget, stale, issued, muddled>>

set_start ==
    /\ setter.at = "cancelled"
    /\ IF pool.timer_active
       THEN setter' = [setter EXCEPT !.at = "cpus"] /\ UNCHANGED <<pool, period>>
       ELSE IF period.hr # "inactive"
       THEN setter' = [setter EXCEPT !.at = "cancel"] /\ UNCHANGED <<pool, period>>
       ELSE /\ pool' = [pool EXCEPT !.timer_active = TRUE]
            /\ period' = Started(period)
            /\ setter' = [setter EXCEPT !.at = "cpus"]
    /\ UNCHANGED <<throttledList, slack, cfs, group, rqLock, budget, stale, issued, muddled>>

set_cpu(c) ==
    /\ setter.at = "cpus" /\ setter.todo # {} /\ c = Min(setter.todo)
    /\ rqLock[c].at = "free"
    /\ cfs' = [cfs EXCEPT ![c].runtime_enabled = (pool.quota # RUNTIME_INF),
                          ![c].runtime_remaining = 0, ![c].throttled = FALSE]
    /\ unthrottle_cfs_rq(c)
    /\ setter' = [at |-> IF setter.todo = {c} THEN "idle" ELSE "cpus", todo |-> setter.todo \ {c}]
    /\ UNCHANGED <<pool, period, slack, group, rqLock, budget, stale, issued, muddled>>

\* A CPU goes offline: its cfs_rq gets a whole quota, so that it can be emptied;
\* no quota at all is -1 as a signed number.
unthrottle_offline_cfs_rqs(c) ==
    /\ rqLock[c].at = "free" /\ group[c] # "forced"
    /\ cfs[c].runtime_enabled
    /\ budget >= AdminCost /\ budget' = budget - AdminCost
    /\ cfs' = [cfs EXCEPT ![c].runtime_remaining =
                                    IF pool.quota = RUNTIME_INF THEN -1 ELSE pool.quota,
                          ![c].throttled = FALSE]
    /\ unthrottle_cfs_rq(c)
    /\ muddled' = TRUE
    /\ UNCHANGED <<pool, period, slack, group, rqLock, setter, stale, issued>>

PeriodStep ==
    \/ do_sched_cfs_period_timer \/ period_redo \/ sched_cfs_period_timer
    \/ \E c \in Cpus : period_visit(c)

SlackStep ==
    \/ do_sched_cfs_slack_timer \/ slack_end
    \/ \E c \in Cpus : slack_visit(c)

\* What the holder of rq->lock does until it gives it up.
LockedStep(c) ==
    \/ start_cancel(c)
    \/ __start_cfs_bandwidth(c)
    \/ check_cfs_rq_runtime(c)

SetStep == set_cancel \/ set_start \/ \E c \in Cpus : set_cpu(c)

BwNext ==
    \/ PeriodStep
    \/ SlackStep
    \/ SetStep
    \/ \E q \in Quotas : tg_set_cfs_bandwidth(q)
    \/ \E c \in Cpus :
         \/ update_curr(c)
         \/ enqueue(c)
         \/ LockedStep(c)
         \/ unthrottle_offline_cfs_rqs(c)

\* Timers that are due expire and their callbacks, the writer of the quota and
\* whoever holds a run queue's lock go on.
BwFairness ==
    /\ WF_bwVars(PeriodStep) /\ WF_bwVars(SlackStep) /\ WF_bwVars(SetStep)
    /\ \A c \in Cpus : WF_bwVars(LockedStep(c))

BwSpec == BwInit /\ [][BwNext]_bwVars /\ BwFairness
-----------------------------------------------------------------------------
BwTypeOK ==
    /\ pool.quota \in Quotas \cup {RUNTIME_INF} /\ pool.runtime \in Nat
    /\ period.hr \in {"inactive", "queued", "running"}
    /\ slack.hr \in {"inactive", "queued", "running"}
    /\ (period.hr = "running") = (period.at # "end")
    /\ group \in [Cpus -> {"none", "ready", "forced"}]
    /\ \A c \in Cpus : cfs[c].runtime_remaining \in -MaxDebt .. 2 * RUNTIME_INF

\* A cfs_rq is on the pool's list exactly when it is throttled, and only once:
\* throttle_cfs_rq, distribute_cfs_runtime, tg_set_cfs_bandwidth and the CPU
\* hotplug path agree, in whatever order they reach it.
ThrottledListed ==
    /\ IsInjective(throttledList)
    /\ \A c \in Cpus : cfs[c].throttled <=> c \in ToSet(throttledList)

\* In one period the group gets no more than its quota: what has been issued,
\* what a callback holds and what is in the pool never exceed it, unless a
\* refill crossed a distribution or a CPU has gone offline.
QuotaRespected ==
    pool.quota # RUNTIME_INF /\ ~muddled =>
        issued + pool.runtime
          + (IF "period" \in stale THEN 0 ELSE period.work.left)
          + (IF "slack" \in stale THEN 0 ELSE slack.work.left) <= pool.quota

\* Without a quota nothing of the group stays throttled once the write is done.
NoQuotaNoThrottle ==
    pool.quota = RUNTIME_INF /\ setter.at = "idle" => throttledList = <<>>

TimerRuns ==
    /\ pool.timer_active /\ period.hr # "inactive"
    /\ \A d \in Cpus : rqLock[d].at # "cancel"

\* As long as the period timer runs and no CPU waits for its callback, every
\* throttled cfs_rq is paid in the end and runs again, unless one with a positive
\* balance takes it all (Payment).
ThrottledPaid ==
    \A c \in Cpus :
        cfs[c].throttled /\ TimerRuns
          ~> \/ ~cfs[c].throttled
             \/ ~TimerRuns
             \/ \E d \in Cpus : cfs[d].throttled /\ cfs[d].runtime_remaining > 1

\* Timers, throttling and payment, a change of the quota and a CPU going down, in
\* any order: the list holds the throttled queues, a period hands out no more
\* than the quota, and without a quota nothing is throttled (fair.c:2069, 2234,
\* 2318, core.c:7659).
QuotaKept ==
    /\ BwTypeOK
    /\ ThrottledListed
    /\ QuotaRespected
    /\ NoQuotaNoThrottle

=============================================================================
