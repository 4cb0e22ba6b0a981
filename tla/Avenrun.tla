------------------------------- MODULE Avenrun -------------------------------
(***************************************************************************)
(* The fixed-point arithmetic of the load average (kernel/sched/core.c):   *)
(* calc_load for one sample, calc_load_n for the samples missed while the  *)
(* machine was idle.                                                       *)
(***************************************************************************)
EXTENDS Integers

CONSTANTS
    FSHIFT,     \* bits of the fraction
    EXPs,       \* the decay factors, out of 2^FSHIFT
    MaxLoad,    \* bound on calc_load_tasks
    MaxCycles   \* bound on the samples missed

ASSUME AvenrunAssumption ==
    /\ FSHIFT \in Nat \ {0} /\ EXPs \subseteq 1 .. 2 ^ FSHIFT - 1
    /\ MaxLoad \in Nat /\ MaxCycles \in Nat

VARIABLES
    avenrun,  \* one of the three averages
    exp       \* its factor

avVars == <<avenrun, exp>>

FIXED_1 == 2 ^ FSHIFT

AvInit == avenrun = 0 /\ exp \in EXPs

\* (x * y), rounded to the nearest, in fixed point.
Times(x, y) == (x * y + FIXED_1 \div 2) \div FIXED_1

calc_load(load, e, active) ==
    (load * e + active * (FIXED_1 - e) + FIXED_1 \div 2) \div FIXED_1

RECURSIVE PowerLoop(_, _, _)
PowerLoop(result, x, n) ==
    LET r == IF n % 2 = 1 THEN Times(result, x) ELSE result IN
    IF n \div 2 = 0 THEN r ELSE PowerLoop(r, Times(x, x), n \div 2)

\* Mutant: the last square is left out.
PowerHalf(x, n) == IF n = 0 THEN FIXED_1 ELSE PowerLoop(FIXED_1, x, (n + 1) \div 2)

fixed_power_int(x, n) == IF n = 0 THEN FIXED_1 ELSE PowerLoop(FIXED_1, x, n)

calc_load_n(load, e, active, n) == calc_load(load, fixed_power_int(e, n), active)

\* calc_global_load with active tasks; then calc_global_nohz, which reads the
\* count again, when n further samples are overdue.
take_sample(active, again, n) ==
    LET one == calc_load(avenrun, exp, active * FIXED_1) IN
    /\ avenrun' = IF n = 0 THEN one ELSE calc_load_n(one, exp, again * FIXED_1, n)
    /\ UNCHANGED exp

AvNext ==
    \E active, again \in 0 .. MaxLoad, n \in 0 .. MaxCycles : take_sample(active, again, n)

AvSpec == AvInit /\ [][AvNext]_avVars

-----------------------------------------------------------------------------
AvTypeOK == avenrun \in 0 .. MaxLoad * FIXED_1 /\ exp \in EXPs

\* Samples that find the same count move the average towards it and never past
\* it, in whichever way calc_load and calc_load_n round.
NeverPastTheCount ==
    avVars' # avVars =>
        \A active \in 0 .. MaxLoad, n \in 0 .. MaxCycles :
           take_sample(active, active, n) =>
              \/ avenrun <= avenrun' /\ avenrun' <= active * FIXED_1
              \/ avenrun >= avenrun' /\ avenrun' >= active * FIXED_1

\* The average after n samples, one at a time.
RECURSIVE Samples(_, _, _)
Samples(av, active, n) ==
    IF n = 0 THEN av ELSE Samples(calc_load(av, exp, active), active, n - 1)

\* Folding the missed samples at once (calc_load_n) is folding them one by one,
\* up to one unit of rounding for every sample.
BulkIsSteps ==
    avVars' # avVars =>
        \A active \in 0 .. MaxLoad, n \in 0 .. MaxCycles :
           take_sample(active, active, n) =>
              LET steps == Samples(avenrun, active * FIXED_1, n + 1)
              IN  avenrun' \in steps - (n + 1) .. steps + (n + 1)

=============================================================================
