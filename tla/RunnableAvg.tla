---------------------------- MODULE RunnableAvg ----------------------------
(***************************************************************************)
(* The decaying average of how much an entity was runnable                 *)
(* (kernel/sched/fair.c, __update_entity_runnable_avg), with the kernel's  *)
(* own constants and tables. Time is in units of about a microsecond       *)
(* (1024 ns), 1024 of them are a period, and what happened 32 periods ago  *)
(* counts half. u32 products are computed in parts that fit TLC's          *)
(* integers.                                                               *)
(***************************************************************************)
EXTENDS Integers, Sequences

CONSTANTS
    Deltas,         \* the times between two updates
    RaWeights,      \* weights of the task
    MaxUpdates,     \* bound on the number of updates
    MaxPeriods      \* bound on the periods summed up one by one

VARIABLES
    sa,             \* runnable_avg_sum and runnable_avg_period of the entity
    always,         \* ghost: it has been runnable from the start
    gapped,         \* ghost: an update came LOAD_AVG_MAX_N periods late or more
    updates,
    whole           \* the sum over n periods, one at a time

raVars == <<sa, always, gapped, updates, whole>>

LOAD_AVG_PERIOD == 32
LOAD_AVG_MAX == 47742
LOAD_AVG_MAX_N == 345

\* The upper and the lower half of the entries of runnable_avg_yN_inv.
InvHigh == <<65535, 64131, 62757, 61412, 60096, 58809, 57548, 56315, 55108, 53928, 52772,
             51641, 50535, 49452, 48392, 47355, 46340, 45347, 44376, 43425, 42494, 41584,
             40693, 39821, 38967, 38132, 37315, 36516, 35733, 34968, 34218, 33485>>
InvLow == <<65535, 45786, 32020, 47514, 50918, 1766, 57067, 46998, 64713, 7569, 35860,
            48517, 10768, 19657, 41886, 44870, 62259, 62849, 16105, 23220, 54953, 17154,
            12895, 14777, 61520, 61352, 54131, 14730, 49635, 3712, 50023, 34456>>

\* runnable_avg_yN_sum
YNSum == <<0, 1002, 1982, 2941, 3880, 4798, 5697, 6576, 7437, 8279, 9103, 9909, 10698,
           11470, 12226, 12966, 13690, 14398, 15091, 15769, 16433, 17082, 17718, 18340,
           18949, 19545, 20128, 20698, 21256, 21802, 22336, 22859, 23371>>

\* (val * inv) >> 32 for val < 2^16, where inv has the halves hi and lo.
Scaled(val, hi, lo) ==
    LET Shift(x) == (val \div 256) * x + ((val % 256) * x) \div 256
        carry    == Shift(lo) \div 256
    IN ((val \div 256) * hi + ((val % 256) * hi + carry) \div 256) \div 256

\* val * y^n, rounded down.
decay_load(val, n) ==
    IF n = 0 THEN val
    ELSE IF n > LOAD_AVG_PERIOD * 63 THEN 0
    ELSE LET i == 1 + (n % LOAD_AVG_PERIOD)
             halves == n \div LOAD_AVG_PERIOD
         IN Scaled(IF halves > 16 THEN 0 ELSE val \div 2 ^ halves, InvHigh[i], InvLow[i])

\* The loop of __compute_runnable_contrib after k rounds.
Halved[k \in 0 .. LOAD_AVG_MAX_N \div LOAD_AVG_PERIOD] ==
    IF k = 0 THEN 0 ELSE Halved[k - 1] \div 2 + YNSum[LOAD_AVG_PERIOD + 1]

\* Mutant: the last period of the rest is left out.
ContribOneLess(n) ==
    LET rounds == (n - 1) \div LOAD_AVG_PERIOD
        rest   == n - rounds * LOAD_AVG_PERIOD
    IN IF n <= LOAD_AVG_PERIOD THEN YNSum[n + 1]
       ELSE IF n >= LOAD_AVG_MAX_N THEN LOAD_AVG_MAX
       ELSE decay_load(Halved[rounds], rest) + YNSum[rest]

\* The sum of 1024 * y^k for 1 <= k <= n.
__compute_runnable_contrib(n) ==
    LET rounds == (n - 1) \div LOAD_AVG_PERIOD
        rest   == n - rounds * LOAD_AVG_PERIOD
    IN IF n <= LOAD_AVG_PERIOD THEN YNSum[n + 1]
       ELSE IF n >= LOAD_AVG_MAX_N THEN LOAD_AVG_MAX
       ELSE decay_load(Halved[rounds], rest) + YNSum[rest + 1]

\* s after delta units; u is 1 if the entity was runnable in them.
__update_entity_runnable_avg(s, delta, u) ==
    LET left    == 1024 - (s.period % 1024)
        periods == (delta - left) \div 1024
        contrib == __compute_runnable_contrib(periods)
        rest    == (delta - left) % 1024
    IN IF delta < left
       THEN [sum |-> s.sum + u * delta, period |-> s.period + delta]
       ELSE [sum    |-> decay_load(s.sum + u * left, periods + 1) + u * (contrib + rest),
             period |-> decay_load(s.period + left, periods + 1) + contrib + rest]

\* The contribution of a task of weight w: a product of 32 bits, of which the upper
\* 24 are kept apart, divided by the period.
__update_task_entity_contrib(s, w) ==
    LET low  == s.sum * (w % 256)
        high == (s.sum * (w \div 256) + low \div 256) % 2 ^ 24
        d    == s.period + 1
    IN (high \div d) * 256 + ((high % d) * 256 + (low % 256)) \div d

-----------------------------------------------------------------------------
RaInit ==
    /\ sa = [sum |-> 0, period |-> 0]
    /\ always = TRUE /\ gapped = FALSE /\ updates = 0
    /\ whole = [n |-> 0, sum |-> 0]

\* update_entity_load_avg, delta units after the last time.
ra_update(delta, u) ==
    /\ updates < MaxUpdates
    /\ sa' = __update_entity_runnable_avg(sa, delta, u)
    /\ always' = (always /\ u = 1)
    /\ gapped' = (gapped \/ delta >= 1024 * LOAD_AVG_MAX_N)
    /\ updates' = updates + 1
    /\ UNCHANGED whole

\* The reference for __compute_runnable_contrib: a whole period is added and decays.
NextPeriod ==
    /\ updates = 0 /\ whole.n < MaxPeriods
    /\ whole' = [n |-> whole.n + 1, sum |-> decay_load(whole.sum + 1024, 1)]
    /\ UNCHANGED <<sa, always, gapped, updates>>

RaNext ==
    \/ whole.n = 0 /\ \E delta \in Deltas, u \in {0, 1} : ra_update(delta, u)
    \/ NextPeriod

RaSpec == RaInit /\ [][RaNext]_raVars
-----------------------------------------------------------------------------
Dist(x, y) == IF x < y THEN y - x ELSE x - y

\* The averages fit the u32 they are kept in, with room for LOAD_AVG_MAX, what is left
\* of the past and a period that has begun, and an entity was never runnable for longer
\* than there was time.
RaTypeOK ==
    /\ sa.period \in 0 .. LOAD_AVG_MAX + 2 * 1024
    /\ sa.sum \in 0 .. sa.period

\* A task that has always been runnable counts (almost) with its whole weight: the
\* product of 32 bits in __update_task_entity_contrib does not wrap even for the heaviest
\* weight, as long as no update comes LOAD_AVG_MAX_N periods late.
FullyRunnable ==
    (always /\ updates > 0 /\ ~gapped) =>
        \A w \in RaWeights : 3 * __update_task_entity_contrib(sa, w) >= w

\* The table and the loop of __compute_runnable_contrib give, up to rounding, what
\* adding and decaying one period after the other gives, below the number of periods
\* at which LOAD_AVG_MAX takes over.
ContribClose ==
    whole.n < LOAD_AVG_MAX_N =>
        Dist(__compute_runnable_contrib(whole.n), whole.sum) <= 4

\* The decaying sums fit their 32 bits, a task that always runs keeps its weight,
\* and the tables give what adding period after period gives (fair.c:1182, 1231,
\* 1402).
DecaySound ==
    /\ RaTypeOK
    /\ FullyRunnable
    /\ ContribClose

=============================================================================
