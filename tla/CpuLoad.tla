------------------------------- MODULE CpuLoad -------------------------------
(***************************************************************************)
(* The decaying averages of a run queue's load, rq->cpu_load[1..4]         *)
(* (kernel/sched/core.c): one update per tick, and one for all the ticks   *)
(* missed while the CPU was idle without a tick.                           *)
(***************************************************************************)
EXTENDS Integers, Sequences

CONSTANTS
    Weights,     \* the values of rq->load.weight; 0 is among them
    Missed       \* how many ticks an idle CPU may miss

ASSUME CpuLoadAssumption ==
    /\ Weights \subseteq Nat /\ 0 \in Weights /\ Missed \subseteq Nat \ {0}

VARIABLES
    cpu_load,   \* index -> average; index i is also a shift by i
    weight,     \* rq->load.weight
    pending     \* ticks since last_load_update_tick, while the CPU has none

clVars == <<cpu_load, weight, pending>>

Index == 1 .. 4
DEGRADE_SHIFT == 7

degrade_zero_ticks == <<8, 32, 64, 128>>

\* Columns past the initialisers are zero.
degrade_factor == << <<64, 32, 8, 0, 0, 0, 0, 0>>,
                     <<96, 72, 40, 12, 1, 0, 0, 0>>,
                     <<112, 98, 75, 43, 15, 1, 0, 0>>,
                     <<120, 112, 98, 76, 45, 16, 2, 0>> >>

ClInit ==
    /\ cpu_load = [i \in Index |-> 0]
    /\ weight = 0 /\ pending = 0

-----------------------------------------------------------------------------
RECURSIVE Degrade(_, _, _, _)
Degrade(load, missed, idx, j) ==
    IF missed = 0 THEN load
    ELSE Degrade(IF missed % 2 = 1 THEN (load * degrade_factor[idx][j + 1]) \div 2 ^ DEGRADE_SHIFT
                 ELSE load,
                 missed \div 2, idx, j + 1)

\* The load after missed ticks that added nothing, by the table.
decay_load_missed(load, missed, idx) ==
    IF missed = 0 THEN load
    ELSE IF missed >= degrade_zero_ticks[idx] THEN 0
    ELSE IF idx = 1 THEN load \div 2 ^ missed
    ELSE Degrade(load, missed, idx, 0)

\* The averages after n ticks of which all but the last found no load.
__update_cpu_load(this, n) ==
    [i \in Index |->
        LET old == decay_load_missed(cpu_load[i], n - 1, i)
            new == IF this > old THEN this + 2 ^ i - 1 ELSE this
        IN  (old * (2 ^ i - 1) + new) \div 2 ^ i]

-----------------------------------------------------------------------------
set_load(w) == w # weight /\ weight' = w /\ UNCHANGED <<cpu_load, pending>>

update_cpu_load_active ==
    /\ pending = 0
    /\ cpu_load' = __update_cpu_load(weight, 1)
    /\ UNCHANGED <<weight, pending>>

\* The idle CPU goes without a tick for a while.
sleep_ticks(n) ==
    /\ pending = 0 /\ weight = 0
    /\ pending' = n
    /\ UNCHANGED <<cpu_load, weight>>

\* Before idle balancing, on behalf of an idle CPU; not if it has load.
update_idle_cpu_load ==
    /\ pending > 0 /\ weight = 0
    /\ cpu_load' = __update_cpu_load(0, pending)
    /\ pending' = 0
    /\ UNCHANGED weight

\* The CPU has its tick again: it was idle, so its load was 0 all along.
update_cpu_load_nohz ==
    /\ pending > 0
    /\ cpu_load' = __update_cpu_load(0, pending)
    /\ pending' = 0
    /\ UNCHANGED weight

ClNext ==
    \/ \E w \in Weights : set_load(w)
    \/ update_cpu_load_active \/ (\E n \in Missed : sleep_ticks(n))
    \/ update_idle_cpu_load \/ update_cpu_load_nohz

ClSpec == ClInit /\ [][ClNext]_clVars

-----------------------------------------------------------------------------
ClTypeOK ==
    /\ cpu_load \in [Index -> Nat]
    /\ weight \in Weights /\ pending \in {0} \cup Missed

\* A tick moves every average towards the load, and never leaves it where it is
\* short of it: "prevents us from getting stuck on 9 if the load is 10".
NeverStuck ==
    clVars' # clVars /\ update_cpu_load_active =>
        \A i \in Index :
           \/ cpu_load[i] < weight /\ cpu_load'[i] > cpu_load[i] /\ cpu_load'[i] <= weight
           \/ cpu_load[i] > weight /\ cpu_load'[i] < cpu_load[i] /\ cpu_load'[i] >= weight
           \/ cpu_load[i] = weight /\ cpu_load'[i] = weight

\* The average after n idle ticks, one at a time.
RECURSIVE IdleTicks(_, _, _)
IdleTicks(load, i, n) ==
    IF n = 0 THEN load ELSE IdleTicks((load * (2 ^ i - 1)) \div 2 ^ i, i, n - 1)

\* Missed ticks are caught up in one update: what is left is what a tick at a
\* time would have left, up to one unit less and up to the fractions that a tick
\* at a time drops more.
CatchUpClose ==
    clVars' # clVars /\ update_cpu_load_nohz =>
        \A i \in Index :
           LET exact == IdleTicks(cpu_load[i], i, pending)
           IN  cpu_load'[i] \in exact - 1 .. exact + 2 ^ i - 1

=============================================================================
