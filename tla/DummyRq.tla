------------------------------ MODULE DummyRq ------------------------------
(***************************************************************************)
(* The dummy scheduling class of kernel/sched/dummy.c: DUMMY_QUEUE_SIZE    *)
(* FIFO lists, one per priority of the class, list 0 the most important.   *)
(* A task is linked on the list of its priority, stays linked while it     *)
(* runs, and is moved one list up when it has waited too long.             *)
(*                                                                         *)
(* A dummy_rq is the record                                                *)
(*   queues  the lists,                                                    *)
(*   age     dummy_age_tick of every task,                                 *)
(*   slice   dummy_timeslice, the ticks used of the current time slice.    *)
(***************************************************************************)
EXTENDS ListOps

CONSTANTS
    Tasks,              \* the task_structs
    MIN_DUMMY_PRIO,     \* first priority of the class (135)
    DUMMY_QUEUE_SIZE,   \* number of lists (5)
    UINT_MAX            \* largest unsigned int: dummy_age_tick wraps after it

ASSUME DummyRqAssumption ==
    /\ MIN_DUMMY_PRIO \in Nat
    /\ DUMMY_QUEUE_SIZE \in Nat \ {0}
    /\ UINT_MAX \in Nat \ {0}

Levels == 0 .. DUMMY_QUEUE_SIZE - 1

MAX_PRIO == MIN_DUMMY_PRIO + DUMMY_QUEUE_SIZE

\* DUMMY_PRIORITY_MIN of sched.h; the same number as MIN_DUMMY_PRIO.
DUMMY_PRIORITY_MIN == MIN_DUMMY_PRIO

dummy_prio(prio) == prio >= MIN_DUMMY_PRIO

\* The list that _enqueue_task_dummy indexes.
Level(prio) == prio - DUMMY_PRIORITY_MIN

DummyRqs == [queues : [Levels -> Seq(Tasks)],
             age    : [Tasks -> 0..UINT_MAX],
             slice  : 0..UINT_MAX]

Linked(d) == UNION {Range(d.queues[i]) : i \in Levels}

init_dummy_rq == [queues |-> [i \in Levels |-> <<>>],
                  age    |-> [p \in Tasks |-> 0],
                  slice  |-> 0]

\* Mutant: list_add for list_add_tail.
EnqueueHead(d, p, prio) ==
    [d EXCEPT !.age[p] = 0,
              !.queues[Level(prio)] = <<p>> \o @]

\* The caller must know that Level(prio) \in Levels: the code does not check.
enqueue_task_dummy(d, p, prio) ==
    [queues |-> [d.queues EXCEPT ![Level(prio)] = Append(@, p)],
     age    |-> [d.age EXCEPT ![p] = 0],
     slice  |-> d.slice]

dequeue_task_dummy(d, p) ==
    [d EXCEPT !.queues = [i \in Levels |-> ListDel(d.queues[i], p)]]

\* Mutant: the old link is not undone.
RequeueLinked(d, p, prio) == enqueue_task_dummy(d, p, prio)

\* Back to the tail of the list of its own priority, wherever ageing had
\* taken it.
requeue_task_dummy(d, p, prio) ==
    enqueue_task_dummy(dequeue_task_dummy(d, p), p, prio)

\* The first task of the first list that is not empty; it stays linked.
FirstLevel(d) ==
    CHOOSE i \in Levels : /\ d.queues[i] # <<>>
                          /\ \A j \in Levels : j < i => d.queues[j] = <<>>

pick_next_task_dummy(d) == Head(d.queues[FirstLevel(d)])

set_next_dummy(d, p) == [d EXCEPT !.age[p] = 0]

\* The tasks that this tick moves up: every list but list 0 is scanned, the
\* running task's included.
Waiting(d) == UNION {Range(d.queues[i]) : i \in Levels \ {0}}

\* Mutants: an exact test, which a lowered threshold can jump over; no ageing.
AgedExactly(d, threshold) == {p \in Waiting(d) : d.age[p] = threshold}

AgedNever(d, threshold) == {}

Aged(d, threshold) == {p \in Waiting(d) : d.age[p] > threshold}

\* The lists are scanned in ascending order and a moved task goes to the
\* list just scanned, so no task moves twice.
age_tasks(d, threshold) ==
    LET up == Aged(d, threshold) IN
    [queues |-> [i \in Levels |->
                   KeepIn(d.queues[i], Tasks \ up)
                   \o IF i + 1 \in Levels THEN KeepIn(d.queues[i + 1], up)
                                          ELSE <<>>],
     age    |-> [p \in Tasks |->
                   CASE p \in up              -> 0
                     [] p \in Waiting(d) \ up -> (d.age[p] + 1) % (UINT_MAX + 1)
                     [] OTHER                 -> d.age[p]],
     slice  |-> d.slice]

\* dummy_timeslice++ >= get_timeslice()
SliceOver(d, timeslice) == d.slice >= timeslice

\* Mutant: the slice counter is not reset.
TickNoReset(d, p, prio, timeslice, threshold) ==
    LET a == age_tasks(d, threshold) IN
    [(IF SliceOver(a, timeslice) THEN requeue_task_dummy(a, p, prio) ELSE a)
        EXCEPT !.slice = @ + 1]

task_tick_dummy(d, p, prio, timeslice, threshold) ==
    LET a == age_tasks(d, threshold) IN
    IF SliceOver(a, timeslice)
    THEN [requeue_task_dummy(a, p, prio) EXCEPT !.slice = 0]
    ELSE [a EXCEPT !.slice = @ + 1]

\* The comparison as the code has it: a larger value is a less important task.
check_preempt_curr_dummy(pprio, cprio) == pprio > cprio

=============================================================================
