------------------------------- MODULE LoadAvg -------------------------------
(***************************************************************************)
(* The distributed count behind the load average (kernel/sched/core.c):    *)
(* every CPU folds the change of its nr_running + nr_uninterruptible into  *)
(* calc_load_tasks when the sample window opens, or into one of the two    *)
(* idle deltas when it stops its tick (CONFIG_NO_HZ), and the timekeeper   *)
(* samples calc_load_tasks at the end of the window.                       *)
(*                                                                         *)
(* Times are kept relative to calc_load_update: now is jiffies minus it,   *)
(* due[c] is the CPU's own calc_load_update minus it.                      *)
(***************************************************************************)
EXTENDS Integers, FiniteSets, FiniteSetsExt

CONSTANTS
    LaCpus,
    MaxActive,  \* bound on a CPU's nr_running + nr_uninterruptible
    LOAD_FREQ,  \* ticks between two samples
    Window,     \* ticks the CPUs have to fold (10 in the code)
    MaxChanges, \* bound on the load changes and the CPUs that go down
    MaxJump     \* bound on the ticks that pass while every CPU is tickless

ASSUME LoadAvgAssumption ==
    /\ {MaxActive, LOAD_FREQ, Window, MaxChanges, MaxJump} \subseteq Nat \ {0}
    /\ Window < LOAD_FREQ

VARIABLES
    now,     \* jiffies, from calc_load_update
    crq,     \* CPU -> its tick, its counts and its own calc_load_update
    load,    \* calc_load_tasks, calc_load_idle, calc_load_idx
    changes, \* what is left of MaxChanges
    global,  \* where in calc_global_load the timekeeper is, and which CPU it is
    offered  \* ghost: what the CPUs have offered for this sample and the next

laVars == <<now, crq, load, changes, global, offered>>

NoCpu == 0

LaInit ==
    /\ now = -LOAD_FREQ
    /\ crq = [c \in LaCpus |->
               [mode |-> "ticks",  \* "entering", "nohz" and "dead" are the others
                nr |-> 0,          \* nr_running + nr_uninterruptible
                calc_load_active |-> 0, due |-> 0,
                ticked |-> FALSE,  \* it has had the tick of this jiffy
                delta |-> 0, idx |-> 0]]  \* what it is about to add, the index it read
    /\ load = [tasks |-> 0, idle |-> [i \in {0, 1} |-> 0], idx |-> 0]
    /\ changes = MaxChanges /\ global = [pc |-> "none", cpu |-> NoCpu]
    /\ offered = [this |-> 0, next |-> 0, raced |-> 0, right |-> TRUE]

Sum(f(_)) == MapThenSumSet(f, LaCpus)

\* A CPU's own steps: it is not in the middle of calc_global_load.
Own(c) == global.cpu # c

-----------------------------------------------------------------------------
\* Tasks come, go and sleep on c.  Nobody reads the count of a CPU that does not
\* tick, so its changes can wait until it does.
load_change(c) ==
    /\ crq[c].mode = "ticks" /\ changes > 0 /\ changes' = changes - 1
    /\ \E n \in 0 .. MaxActive : n # crq[c].nr /\ crq' = [crq EXCEPT ![c].nr = n]
    /\ UNCHANGED <<now, load, global, offered>>

\* calc_load_fold_active.
Nr(c) == crq[c].nr - crq[c].calc_load_active

\* calc_load_account_active, from the tick of c.
calc_load_account_active(c) ==
    /\ Own(c) /\ crq[c].mode = "ticks" /\ now >= crq[c].due /\ ~crq[c].ticked
    /\ load' = [load EXCEPT !.tasks = @ + Nr(c)]
    /\ crq' = [crq EXCEPT ![c].calc_load_active = crq[c].nr, ![c].due = @ + LOAD_FREQ,
                          ![c].ticked = TRUE]
    /\ offered' = [offered EXCEPT !.this = @ + Nr(c)]
    /\ UNCHANGED <<now, global, changes>>

\* c stops its tick; it reads the index here and the time in the next step.
calc_load_enter_idle(c) ==
    /\ Own(c) /\ crq[c].mode = "ticks"
    /\ crq' = [crq EXCEPT ![c].mode = "entering", ![c].delta = Nr(c), ![c].idx = load.idx,
                          ![c].calc_load_active = crq[c].nr]
    /\ UNCHANGED <<now, load, global, offered, changes>>

\* Mutant: what goes idle inside the window goes into the sample being taken.
WriteIdxSame(c) == crq[c].idx

\* calc_load_write_idx: inside the window, the other delta.
calc_load_write_idx(c) == IF now >= 0 THEN 1 - crq[c].idx ELSE crq[c].idx

enter_idle_add(c) ==
    /\ crq[c].mode = "entering"
    /\ crq' = [crq EXCEPT ![c].mode = "nohz", ![c].delta = 0, ![c].idx = 0]
    /\ load' = [load EXCEPT !.idle[calc_load_write_idx(c)] = @ + crq[c].delta]
    /\ offered' = [offered EXCEPT
                     !.this = IF now < 0 THEN @ + crq[c].delta ELSE @,
                     !.next = IF now < 0 THEN @ ELSE @ + crq[c].delta,
                     !.raced = IF global.pc # "none" \/ crq[c].idx # load.idx THEN 2 ELSE @]
    /\ UNCHANGED <<now, global, changes>>

\* c starts its tick again; inside the window it skips the sample.
calc_load_exit_idle(c) ==
    /\ Own(c) /\ crq[c].mode = "nohz"
    /\ crq' = [crq EXCEPT ![c].mode = "ticks",
                          ![c].due = IF now < @ THEN @
                                     ELSE IF now < Window THEN LOAD_FREQ ELSE 0]
    /\ UNCHANGED <<now, load, global, offered, changes>>

\* CPU_DEAD: what is left is folded at once; CPU_UP_PREPARE starts afresh.
calc_load_migrate(c) ==
    /\ Own(c) /\ crq[c].mode = "ticks" /\ changes > 0 /\ changes' = changes - 1
    /\ \E d \in LaCpus \ {c} : crq[d].mode # "dead"
    /\ load' = [load EXCEPT !.tasks = @ + Nr(c)]
    /\ crq' = [crq EXCEPT ![c].mode = "dead", ![c].calc_load_active = crq[c].nr]
    /\ offered' = [offered EXCEPT !.this = @ + Nr(c)]
    /\ UNCHANGED <<now, global>>

cpu_up_prepare(c) ==
    /\ crq[c].mode = "dead"
    /\ crq' = [crq EXCEPT ![c].mode = "ticks", ![c].due = 0]
    /\ UNCHANGED <<now, load, global, offered, changes>>

-----------------------------------------------------------------------------
\* Moving calc_load_update by n periods, seen from it.
Advance(n) ==
    /\ now' = now - n * LOAD_FREQ
    /\ crq' = [c \in LaCpus |-> [crq[c] EXCEPT !.due = Max({@ - n * LOAD_FREQ, -LOAD_FREQ})]]

\* calc_load_fold_idle and the sample at the end of the window.
Sample ==
    LET active == load.tasks + load.idle[load.idx] IN
    /\ load' = [load EXCEPT !.tasks = active, !.idle[load.idx] = 0]
    /\ offered' = [offered EXCEPT
                     !.right = offered.raced > 0
                                 \/ Max({0, active}) = Max({0, offered.this}),
                     !.raced = Max({0, @ - 1})]

\* do_timer on CPU c moves jiffies, then calc_global_load looks at the window.
\* More than one tick passes only while no CPU ticks; every CPU that ticks has
\* had its tick before the window ends.
calc_global_load(c) ==
    /\ global.pc = "none" /\ crq[c].mode \in {"ticks", "nohz"}
    /\ \E n \in 1 .. MaxJump :
         /\ n > 1 => \A d \in LaCpus : crq[d].mode \in {"nohz", "dead"}
         /\ now + n >= Window =>
              \A d \in LaCpus : crq[d].mode \in {"ticks", "entering"} => crq[d].due > now
         /\ now' = now + n
         /\ IF now + n >= Window
            THEN Sample /\ global' = [pc |-> "time", cpu |-> c]
            ELSE UNCHANGED <<load, offered, global>>
    /\ crq' = [d \in LaCpus |-> [crq[d] EXCEPT !.ticked = FALSE]]
    /\ UNCHANGED changes

\* calc_load_update moves on; what was offered inside the window is for the next.
calc_load_update ==
    /\ global.pc = "time" /\ global' = [global EXCEPT !.pc = "nohz"]
    /\ Advance(1)
    /\ offered' = [offered EXCEPT !.this = @ + offered.next, !.next = 0]
    /\ UNCHANGED <<load, changes>>

\* calc_global_nohz: catch up with the periods that were missed.
calc_global_nohz ==
    /\ global.pc = "nohz" /\ global' = [global EXCEPT !.pc = "flip"]
    /\ IF now >= Window THEN Advance(1 + (now - Window) \div LOAD_FREQ)
       ELSE UNCHANGED <<now, crq>>
    /\ UNCHANGED <<load, offered, changes>>

flip_idx ==
    /\ global.pc = "flip" /\ global' = [pc |-> "none", cpu |-> NoCpu]
    /\ load' = [load EXCEPT !.idx = 1 - @]
    /\ UNCHANGED <<now, crq, offered, changes>>

LaNext ==
    \/ \E c \in LaCpus :
         \/ load_change(c) \/ calc_load_account_active(c)
         \/ calc_load_enter_idle(c) \/ enter_idle_add(c) \/ calc_load_exit_idle(c)
         \/ calc_load_migrate(c) \/ cpu_up_prepare(c) \/ calc_global_load(c)
    \/ calc_load_update \/ calc_global_nohz \/ flip_idx

LaSpec == LaInit /\ [][LaNext]_laVars

-----------------------------------------------------------------------------
LaTypeOK ==
    /\ now \in -LOAD_FREQ .. Window + MaxJump
    /\ global.pc = "none" => now < Window
    /\ \A c \in LaCpus :
         /\ crq[c].due \in -LOAD_FREQ .. 2 * LOAD_FREQ
         /\ {crq[c].nr, crq[c].calc_load_active} \subseteq 0 .. MaxActive
    /\ load.idx \in {0, 1}

\* No change is lost or counted twice: the global count, the two idle deltas and
\* what a CPU is about to add make up what the CPUs have folded.
NothingLost ==
    load.tasks + load.idle[0] + load.idle[1] + Sum(LAMBDA c : crq[c].delta)
        = Sum(LAMBDA c : crq[c].calc_load_active)

\* A sample is the sum of what the CPUs offered for it: their count at the tick
\* in the window, or when they went idle before it; going idle inside the window
\* neither adds to the sample nor takes from it.  Only the two samples after an
\* idle entry that met the flip of the index in flight may be off.
SampleAsOffered == offered.right

\* However it slept and woke around the windows, a CPU that ticks takes part in
\* this sample or the next one: it never skips two.
SkipsAtMostOne ==
    global.pc = "none" => \A c \in LaCpus : crq[c].mode = "ticks" => crq[c].due <= LOAD_FREQ

\* Tickless CPUs and the flip of the index lose no change of the count, a sample is
\* what the CPUs offered for it, and no CPU skips two (core.c:2186, 2211, 2227,
\* 2335).
SamplesExact ==
    /\ LaTypeOK
    /\ NothingLost
    /\ SampleAsOffered
    /\ SkipsAtMostOne

=============================================================================
