----------------------------- MODULE Completion -----------------------------
(***************************************************************************)
(* Completions of kernel/sched/core.c: complete, complete_all,             *)
(* do_wait_for_common with its timeouts and signals, and the non-blocking  *)
(* try_wait_for_completion.                                                *)
(*                                                                         *)
(* x->wait.lock is held with interrupts off wherever x is read or written, *)
(* so a step is what happens between two releases of the lock: a waiter    *)
(* takes one step to enter and one each time schedule_timeout returns.     *)
(* Between the two it is in the queue, either asleep or awake and on its   *)
(* way to the lock.                                                        *)
(***************************************************************************)
EXTENDS ListOps

CONSTANTS
    Waiters,     \* the tasks that call wait_for_completion and its variants
    DONE_MAX     \* x->done is an unsigned int

ASSUME CompletionAssumption ==
    /\ IsFiniteSet(Waiters)
    /\ DONE_MAX \in Nat \ {0}

ERESTARTSYS == 1

VARIABLES
    done,        \* x->done
    queue,       \* x->wait.task_list; every entry is exclusive
    asleep,      \* waiters that a wake-up would find not TASK_RUNNING
    timed,       \* waiters that called a variant with a timeout
    intr,        \* waiters that called an interruptible or killable variant
    expired,     \* waiters whose timeout has run out
    signalled,   \* waiters with a signal pending
    ret          \* what wait_for_common has just returned, if the last step did (history)

coVars == <<done, queue, asleep, timed, intr, expired, signalled, ret>>

NoReturn == [val |-> 1, took |-> TRUE, timed |-> FALSE, intr |-> FALSE]

Queued == Range(queue)
Awake  == Queued \ asleep

CoInit ==
    /\ done = 0
    /\ queue = <<>>
    /\ asleep = {} /\ timed = {} /\ intr = {}
    /\ expired = {} /\ signalled = {}
    /\ ret = NoReturn

-----------------------------------------------------------------------------
\* Mutants: the scan stops at the first entry whether or not it was asleep; the
\* scan starts at the tail.
WakeFirstOnly(q, S, nr) ==
    {w \in S : nr = 0 \/ (q # <<>> /\ w = q[1])}

WakeLast(q, S, nr) ==
    {w \in S : \E i \in DOMAIN q :
        q[i] = w /\ (nr = 0 \/ Cardinality({j \in DOMAIN q : j > i /\ q[j] \in S}) < nr)}

\* The entries that __wake_up_common wakes: the scan goes on past a task that is
\* awake already, and stops when nr exclusive ones have been woken (0: never).
__wake_up_common(q, S, nr) ==
    {w \in S : \E i \in DOMAIN q :
        q[i] = w /\ (nr = 0 \/ Cardinality({j \in 1 .. i - 1 : q[j] \in S}) < nr)}

\* x->done += n and the wake-up, with the lock held.
Signal(n, nr) ==
    /\ done' = (done + n) % (DONE_MAX + 1)
    /\ asleep' = asleep \ __wake_up_common(queue, asleep, nr)
    /\ ret' = NoReturn
    /\ UNCHANGED <<queue, timed, intr, expired, signalled>>

complete     == Signal(1, 1)
complete_all == Signal(DONE_MAX \div 2, 0)

\* try_wait_for_completion, by anyone: takes an event only if there is one.
try_wait_for_completion ==
    /\ done > 0
    /\ done' = done - 1
    /\ ret' = NoReturn
    /\ UNCHANGED <<queue, asleep, timed, intr, expired, signalled>>

-----------------------------------------------------------------------------
\* A call by w of the variant t, i returns v and has or has not taken an event.
Returns(w, v, taken, t, i) ==
    /\ ret' = [val |-> v, took |-> taken, timed |-> t, intr |-> i]
    /\ timed' = timed \ {w} /\ intr' = intr \ {w}
    /\ queue' = ListDel(queue, w)

\* Mutant: "return timeout" for "return timeout ?: 1".
LeaveRaw(w, timeout, t, i) ==
    /\ done' = IF done = 0 THEN 0 ELSE done - 1
    /\ Returns(w, timeout, done > 0, t, i)
    /\ asleep' = asleep \ {w}
    /\ expired' = expired \ {w}
    /\ signalled' = signalled \ {w}

\* The end of do_wait_for_common, with the lock held: an event that is there is
\* taken even if the timeout has run out.
Leave(w, timeout, t, i) ==
    /\ done' = IF done = 0 THEN 0 ELSE done - 1
    /\ Returns(w, IF done > 0 /\ timeout = 0 THEN 1 ELSE timeout, done > 0, t, i)
    /\ asleep' = asleep \ {w}
    /\ expired' = expired \ {w}
    /\ signalled' = signalled \ {w}

\* One turn of the loop, up to schedule_timeout.
Sleep(w) ==
    /\ asleep' = asleep \cup {w}
    /\ ret' = NoReturn
    /\ UNCHANGED <<done, expired, signalled>>

\* wait_for_completion and its variants.
wait_for_common(w, t, i) ==
    /\ w \notin Queued
    /\ IF done > 0 \/ (i /\ w \in signalled)
       THEN Leave(w, IF done > 0 THEN 1 ELSE -ERESTARTSYS, t, i)
       ELSE /\ Sleep(w) /\ queue' = Append(queue, w)
            /\ timed' = IF t THEN timed \cup {w} ELSE timed
            /\ intr' = IF i THEN intr \cup {w} ELSE intr

\* Mutant: a waiter that times out does not look at x->done again.
ResumeTimedOut(w) ==
    /\ w \in Awake
    /\ IF w \in expired
       THEN /\ Returns(w, 0, FALSE, TRUE, w \in intr)
            /\ expired' = expired \ {w}
            /\ UNCHANGED <<done, asleep, signalled>>
       ELSE IF done > 0 THEN Leave(w, 1, w \in timed, w \in intr)
       ELSE IF w \in intr \cap signalled THEN Leave(w, -ERESTARTSYS, w \in timed, TRUE)
       ELSE Sleep(w) /\ UNCHANGED <<queue, timed, intr>>

\* schedule_timeout has returned and the lock is taken again: leave the loop if
\* there is an event or no time left, else look at the signals and sleep again.
resume(w) ==
    /\ w \in Awake
    /\ IF done > 0 \/ w \in expired
       THEN Leave(w, IF w \in expired THEN 0 ELSE 1, w \in timed, w \in intr)
       ELSE IF w \in intr \cap signalled THEN Leave(w, -ERESTARTSYS, w \in timed, TRUE)
       ELSE Sleep(w) /\ UNCHANGED <<queue, timed, intr>>

\* The timer of schedule_timeout fires, or its time is up while the waiter is
\* on its way to the lock.
expire(w) ==
    /\ w \in (Queued \cap timed) \ expired
    /\ expired' = expired \cup {w}
    /\ asleep' = asleep \ {w}
    /\ ret' = NoReturn
    /\ UNCHANGED <<done, queue, timed, intr, signalled>>

\* A signal arrives; it wakes only an interruptible sleep.
signal(w) ==
    /\ w \notin signalled
    /\ signalled' = signalled \cup {w}
    /\ asleep' = IF w \in intr THEN asleep \ {w} ELSE asleep
    /\ ret' = NoReturn
    /\ UNCHANGED <<done, queue, timed, intr, expired>>

CoNext ==
    \/ complete
    \/ complete_all
    \/ try_wait_for_completion
    \/ \E w \in Waiters :
         \/ \E t, i \in BOOLEAN : wait_for_common(w, t, i)
         \/ resume(w)
         \/ expire(w)
         \/ signal(w)

CoSpec == CoInit /\ [][CoNext]_coVars

\* A waiter that is awake runs again and gets the lock.
CoFairness == \A w \in Waiters : WF_coVars(resume(w))

-----------------------------------------------------------------------------
\* The counter fits an unsigned int, and only queued tasks sleep here, once each.
CoTypeOK ==
    /\ done \in 0..DONE_MAX
    /\ queue \in Seq(Waiters)
    /\ IsInjective(queue)
    /\ asleep \subseteq Queued
    /\ timed \subseteq Queued /\ intr \subseteq Queued
    /\ expired \subseteq timed /\ signalled \subseteq Waiters
    /\ ret \in [val : {-1, 0, 1}, took : BOOLEAN, timed : BOOLEAN, intr : BOOLEAN]

\* No event waits for a sleeper: as long as anyone sleeps, every event that
\* complete counted has an awake waiter on its way to take it, whatever late
\* arrivals, timeouts, signals and non-blocking callers take in between.
EveryEventHasATaker ==
    asleep # {} => done <= Cardinality(Awake)

\* The value returned tells the truth: positive exactly when the call took an
\* event, 0 only if it had a timeout, -ERESTARTSYS only if it could be interrupted
\* (core.c:3337 "0 if timed out, and positive ... if completed"), even when the
\* event, the timeout and a signal race.
ReturnValueTruthful ==
    /\ ret.val > 0 <=> ret.took
    /\ ret.val = 0 => ret.timed
    /\ ret.val < 0 => ret.intr

\* core.c:3238: complete wakes the waiters in the order in which they queued.
WokenInOrder ==
    [][complete =>
         \A i, j \in DOMAIN queue :
            (i < j /\ queue[j] \in asleep \ asleep') => queue[i] \notin asleep']_coVars

\* An event does not sit beside a queue for ever: it is taken or the queue
\* empties.
EventsAreTaken == (done > 0 /\ queue # <<>>) ~> (done = 0 \/ queue = <<>>)

\* The counter, the queue and the sleepers stay consistent, and no event waits
\* beside a sleeper without an awake waiter on its way to it (core.c:3245, 3256,
\* 3277).
EventsCounted == CoTypeOK /\ EveryEventHasATaker

=============================================================================
