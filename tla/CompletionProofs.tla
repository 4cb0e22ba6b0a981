-------------------------- MODULE CompletionProofs --------------------------
(***************************************************************************)
(* Proofs about Completion, for any set of waiters and any width of        *)
(* x->done: no event is left beside a sleeper, return values tell the      *)
(* truth, and complete() wakes in the order of the queue.                  *)
(***************************************************************************)
EXTENDS Completion, ListOpsProofs, WellFoundedInduction

-----------------------------------------------------------------------------
(***************************************************************************)
(* The scan of the queue                                                   *)
(***************************************************************************)

\* The positions before i at which the scan has already woken somebody.
Earlier(q, S, i) == {j \in 1 .. i - 1 : q[j] \in S}

\* Fewer than one exclusive entry woken means that none was.
LEMMA EarlierEmpty ==
  ASSUME NEW q, NEW S, NEW i \in Nat
  PROVE  Cardinality(Earlier(q, S, i)) < 1 <=> Earlier(q, S, i) = {}
<1> DEFINE E == Earlier(q, S, i)
<1>1. IsFiniteSet(1 .. i - 1)
  BY FS_Interval
<1>2. IsFiniteSet(E)
  BY <1>1, FS_Subset DEF Earlier
<1>3. Cardinality(E) \in Nat /\ (Cardinality(E) = 0 <=> E = {})
  BY <1>2, FS_CardinalityType, FS_EmptySet
<1> QED BY <1>3

\* With nr = 0 the scan wakes every sleeper that is queued.
LEMMA WakeAll ==
  ASSUME NEW q, NEW S, S \subseteq Range(q)
  PROVE  __wake_up_common(q, S, 0) = S
BY DEF __wake_up_common, Range

\* With nr = 1 it wakes the sleeper that comes first in the queue: whoever stands
\* before one that is woken does not sleep.
LEMMA WakeFirst ==
  ASSUME NEW T, NEW q \in Seq(T), IsInjective(q), NEW S,
         NEW j \in DOMAIN q, q[j] \in __wake_up_common(q, S, 1)
  PROVE  \A i \in DOMAIN q : i < j => q[i] \notin S
<1>1. PICK k \in DOMAIN q : q[k] = q[j] /\ Cardinality({n \in 1 .. k - 1 : q[n] \in S}) < 1
  <2>1. \E k \in DOMAIN q :
           q[k] = q[j] /\ (1 = 0 \/ Cardinality({n \in 1 .. k - 1 : q[n] \in S}) < 1)
    BY Zenon DEF __wake_up_common
  <2>2. ~(1 = 0)
    OBVIOUS
  <2> QED BY <2>1, <2>2, Zenon
<1>2. k = j
  BY <1>1 DEF IsInjective
<1>3. DOMAIN q = 1 .. Len(q) /\ Len(q) \in Nat
  OBVIOUS
<1>4. Earlier(q, S, j) = {}
  BY <1>1, <1>2, <1>3, EarlierEmpty DEF Earlier
<1> QED BY <1>3, <1>4 DEF Earlier

\* ... and exactly one, if there is one.
LEMMA WakeOne ==
  ASSUME NEW T, NEW q \in Seq(T), IsInjective(q), NEW S, S \subseteq Range(q), S # {}
  PROVE  \E w \in S : __wake_up_common(q, S, 1) = {w}
<1> DEFINE P == {i \in DOMAIN q : q[i] \in S}
<1>1. DOMAIN q = 1 .. Len(q) /\ Len(q) \in Nat
  OBVIOUS
<1>2. P # {} /\ P \subseteq Nat
  BY <1>1 DEF Range
<1>3. \E i \in P : \A j \in P : ~(<<j, i>> \in OpToRel(<, Nat))
  <2> HIDE DEF P
  <2> QED BY <1>2, NatLessThanWellFounded, WFMin, Zenon
<1>4. PICK i \in P : \A j \in P : ~(j < i)
  BY <1>2, <1>3, Zenon DEF OpToRel
<1>5. q[i] \in __wake_up_common(q, S, 1)
  <2>1. Earlier(q, S, i) = {}
    BY <1>1, <1>4 DEF Earlier
  <2>2. Cardinality({n \in 1 .. i - 1 : q[n] \in S}) < 1
    BY <2>1, <1>2, EarlierEmpty, Zenon DEF Earlier
  <2> QED BY <2>2, Zenon DEF __wake_up_common
<1>6. ASSUME NEW w \in __wake_up_common(q, S, 1) PROVE w = q[i]
  <2>1. w \in S /\ \E j \in DOMAIN q : q[j] = w
    BY Zenon DEF __wake_up_common
  <2>2. PICK j \in DOMAIN q : q[j] = w
    BY <2>1
  <2>3. j \in P /\ ~(j < i)
    BY <2>1, <2>2, <1>4
  <2>4. ~(i < j)
    BY <2>2, <1>4, WakeFirst
  <2> QED BY <2>2, <2>3, <2>4, <1>2
<1> QED BY <1>4, <1>5, <1>6

-----------------------------------------------------------------------------
(***************************************************************************)
(* The inductive invariant                                                 *)
(***************************************************************************)

\* EventsCounted is inductive as it stands; what the return value is worth needs
\* only that it was so before the step.
CoInv == EventsCounted /\ ReturnValueTruthful

\* The set of queued waiters is finite, so those awake can be counted.
LEMMA AwakeFinite ==
  ASSUME CoTypeOK
  PROVE  /\ IsFiniteSet(Queued) /\ IsFiniteSet(Awake)
         /\ Cardinality(Awake) \in Nat
         /\ Queued \subseteq Waiters
<1>1. Queued \subseteq Waiters
  BY DEF CoTypeOK, Queued, Range
<1>2. IsFiniteSet(Queued) /\ IsFiniteSet(Awake)
  BY <1>1, CompletionAssumption, FS_Subset DEF Awake
<1> QED BY <1>1, <1>2, FS_CardinalityType

\* A step that adds no event and takes no waiter away from those awake, while nobody
\* falls asleep, leaves a taker for every event.
LEMMA MoreAwake ==
  ASSUME CoTypeOK, CoTypeOK', EveryEventHasATaker, done' <= done,
         asleep' \subseteq asleep, Awake \subseteq Awake'
  PROVE  EveryEventHasATaker'
<1>1. /\ IsFiniteSet(Awake') /\ Cardinality(Awake') \in Nat
      /\ Cardinality(Awake) \in Nat
  <2>1. IsFiniteSet(Queued')
    <3>1. Queued' \subseteq Waiters
      BY DEF CoTypeOK, Queued, Range
    <3> QED BY <3>1, CompletionAssumption, FS_Subset
  <2> QED BY <2>1, AwakeFinite, FS_Subset, FS_CardinalityType DEF Awake
<1>2. Cardinality(Awake) <= Cardinality(Awake')
  BY <1>1, FS_Subset
<1>3. done \in Nat /\ done' \in Nat
  BY CompletionAssumption DEF CoTypeOK
<1> QED BY <1>1, <1>2, <1>3 DEF EveryEventHasATaker

-----------------------------------------------------------------------------
(***************************************************************************)
(* Types                                                                   *)
(***************************************************************************)

\* Whatever do_wait_for_common ends with, the caller has left the queue and every
\* set about it.
LEMMA LeaveType ==
  ASSUME CoTypeOK, NEW w \in Waiters, NEW v \in {-1, 0, 1}, NEW t \in BOOLEAN,
         NEW i \in BOOLEAN, Leave(w, v, t, i)
  PROVE  CoTypeOK' /\ Queued' = Queued \ {w}
<1>1. /\ queue' \in Seq(Waiters) /\ Queued' = Queued \ {w}
      /\ IsInjective(queue')
  <2>1. queue \in Seq(Waiters) /\ IsInjective(queue) /\ queue' = ListDel(queue, w)
    BY DEF CoTypeOK, Leave, Returns
  <2> QED BY <2>1, ListDelFacts DEF Queued
<1>2. done' \in 0 .. DONE_MAX
  BY CompletionAssumption DEF CoTypeOK, Leave
<1>3. /\ asleep' \subseteq Queued' /\ timed' \subseteq Queued' /\ intr' \subseteq Queued'
      /\ expired' \subseteq timed' /\ signalled' \subseteq Waiters
  BY <1>1 DEF CoTypeOK, Leave, Returns
<1>4. ret' \in [val : {-1, 0, 1}, took : BOOLEAN, timed : BOOLEAN, intr : BOOLEAN]
  <2>1. (done > 0) \in BOOLEAN
    OBVIOUS
  <2> QED BY <2>1 DEF Leave, Returns
<1> QED BY <1>1, <1>2, <1>3, <1>4 DEF CoTypeOK

\* A step in which no call returns leaves an ended-call record that says so.
LEMMA NoReturnType ==
  NoReturn \in [val : {-1, 0, 1}, took : BOOLEAN, timed : BOOLEAN, intr : BOOLEAN]
BY DEF NoReturn

\* complete and complete_all: the counter wraps within its width.
LEMMA SignalType ==
  ASSUME CoTypeOK, NEW n \in Nat, NEW nr, Signal(n, nr)
  PROVE  CoTypeOK' /\ Queued' = Queued
<1>1. done' \in 0 .. DONE_MAX
  <2>1. done + n \in Nat /\ DONE_MAX + 1 \in Nat /\ DONE_MAX + 1 > 0
    BY CompletionAssumption DEF CoTypeOK
  <2>2. (done + n) % (DONE_MAX + 1) \in 0 .. DONE_MAX
    BY <2>1, CompletionAssumption
  <2> QED BY <2>2 DEF Signal
<1>2. asleep' \subseteq Queued /\ Queued' = Queued
  BY DEF Signal, CoTypeOK, Queued
<1> QED BY <1>1, <1>2, NoReturnType DEF Signal, CoTypeOK, Queued

\* The counter, the queue and the sets keep their types in every step.
LEMMA CoTypeStep ==
  ASSUME CoTypeOK, [CoNext]_coVars
  PROVE  CoTypeOK'
<1>1. CASE complete
  BY <1>1, SignalType DEF complete
<1>2. CASE complete_all
  <2>1. DONE_MAX \div 2 \in Nat
    BY CompletionAssumption
  <2> QED BY <1>2, <2>1, SignalType DEF complete_all
<1>3. CASE try_wait_for_completion
  <2>1. done' \in 0 .. DONE_MAX
    BY <1>3, CompletionAssumption DEF CoTypeOK, try_wait_for_completion
  <2> QED BY <1>3, <2>1, NoReturnType DEF CoTypeOK, try_wait_for_completion, Queued
<1>4. ASSUME NEW w \in Waiters, NEW t \in BOOLEAN, NEW i \in BOOLEAN, wait_for_common(w, t, i)
      PROVE  CoTypeOK'
  <2>1. CASE done > 0 \/ (i /\ w \in signalled)
    <3>1. Leave(w, IF done > 0 THEN 1 ELSE -1, t, i)
      BY <1>4, <2>1 DEF wait_for_common, ERESTARTSYS
    <3>2. (IF done > 0 THEN 1 ELSE -1) \in {-1, 0, 1}
      OBVIOUS
    <3> QED BY <3>1, <3>2, LeaveType
  <2>2. CASE ~(done > 0 \/ (i /\ w \in signalled))
    <3>1. /\ Sleep(w) /\ queue' = Append(queue, w) /\ w \notin Range(queue)
          /\ timed' = IF t THEN timed \cup {w} ELSE timed
          /\ intr' = IF i THEN intr \cup {w} ELSE intr
      BY <1>4, <2>2 DEF wait_for_common, Queued
    <3>2. /\ queue' \in Seq(Waiters) /\ Queued' = Queued \cup {w} /\ IsInjective(queue')
      BY <3>1, AppendFacts DEF CoTypeOK, Queued
    <3>3. /\ asleep' \subseteq Queued' /\ timed' \subseteq Queued' /\ intr' \subseteq Queued'
          /\ expired' \subseteq timed' /\ signalled' \subseteq Waiters
      BY <3>1, <3>2 DEF CoTypeOK, Sleep
    <3> QED BY <3>1, <3>2, <3>3, NoReturnType DEF CoTypeOK, Sleep
  <2> QED BY <2>1, <2>2
<1>5. ASSUME NEW w \in Waiters, resume(w) PROVE CoTypeOK'
  <2>0. (w \in timed) \in BOOLEAN /\ (w \in intr) \in BOOLEAN
    OBVIOUS
  <2>1. CASE done > 0 \/ w \in expired
    <3>1. Leave(w, IF w \in expired THEN 0 ELSE 1, w \in timed, w \in intr)
      BY <1>5, <2>1, Zenon DEF resume
    <3>2. (IF w \in expired THEN 0 ELSE 1) \in {-1, 0, 1}
      OBVIOUS
    <3> QED BY <3>1, <3>2, <2>0, LeaveType, Zenon
  <2>2. CASE ~(done > 0 \/ w \in expired) /\ w \in intr \cap signalled
    <3>1. Leave(w, -1, w \in timed, TRUE)
      BY <1>5, <2>2, Zenon DEF resume, ERESTARTSYS
    <3> QED BY <3>1, <2>0, LeaveType, Zenon
  <2>3. CASE ~(done > 0 \/ w \in expired) /\ w \notin intr \cap signalled
    <3>1. Sleep(w) /\ UNCHANGED <<queue, timed, intr>> /\ w \in Queued
      BY <1>5, <2>3, Zenon DEF resume, Awake
    <3> QED BY <3>1, NoReturnType DEF CoTypeOK, Sleep, Queued
  <2> QED BY <2>1, <2>2, <2>3
<1>6. ASSUME NEW w \in Waiters, expire(w) PROVE CoTypeOK'
  BY <1>6, NoReturnType DEF CoTypeOK, expire, Queued
<1>7. ASSUME NEW w \in Waiters, signal(w) PROVE CoTypeOK'
  BY <1>7, NoReturnType DEF CoTypeOK, signal, Queued
<1>8. CASE UNCHANGED coVars
  BY <1>8 DEF CoTypeOK, coVars, Queued
<1> QED BY <1>1, <1>2, <1>3, <1>4, <1>5, <1>6, <1>7, <1>8 DEF CoNext

-----------------------------------------------------------------------------
(***************************************************************************)
(* Events and their takers                                                 *)
(***************************************************************************)

\* complete() adds an event and, if anyone sleeps, wakes one waiter to take it.
LEMMA CompleteTaker ==
  ASSUME CoTypeOK, EveryEventHasATaker, complete
  PROVE  EveryEventHasATaker'
<1> SUFFICES ASSUME asleep' # {} PROVE done' <= Cardinality(Awake')
  BY DEF EveryEventHasATaker
<1>1. /\ done' = (done + 1) % (DONE_MAX + 1) /\ queue' = queue
      /\ asleep' = asleep \ __wake_up_common(queue, asleep, 1)
  BY DEF complete, Signal
<1>2. asleep # {}
  BY <1>1
<1>3. PICK w \in asleep : __wake_up_common(queue, asleep, 1) = {w}
  BY <1>2, WakeOne DEF CoTypeOK, Queued
<1>4. Awake' = Awake \cup {w} /\ w \notin Awake
  BY <1>1, <1>3 DEF CoTypeOK, Awake, Queued
<1>5. IsFiniteSet(Awake) /\ Cardinality(Awake) \in Nat
  BY AwakeFinite
<1>6. Cardinality(Awake') = Cardinality(Awake) + 1
  BY <1>4, <1>5, FS_AddElement, Zenon
<1>7. done <= Cardinality(Awake) /\ done \in Nat
  BY <1>2 DEF EveryEventHasATaker, CoTypeOK
<1>8. done' <= done + 1
  <2>1. done \in 0 .. DONE_MAX /\ DONE_MAX \in Nat
    BY CompletionAssumption DEF CoTypeOK
  <2>2. CASE done = DONE_MAX
    BY <1>1, <2>1, <2>2
  <2>3. CASE done < DONE_MAX
    BY <1>1, <2>1, <2>3
  <2> QED BY <2>1, <2>2, <2>3
<1>9. done' \in Nat
  BY <1>1, <1>7, CompletionAssumption
<1> QED BY <1>5, <1>6, <1>7, <1>8, <1>9

\* A waiter that leaves takes an event if there is one, and was not among the
\* sleepers.
LEMMA LeaveTaker ==
  ASSUME CoTypeOK, CoTypeOK', EveryEventHasATaker, NEW w \in Waiters, w \notin asleep,
         NEW v, NEW t, NEW i, Leave(w, v, t, i), Queued' = Queued \ {w}
  PROVE  EveryEventHasATaker'
<1>1. asleep' = asleep /\ Awake' = Awake \ {w}
  BY DEF Leave, Awake
<1>2. IsFiniteSet(Awake) /\ Cardinality(Awake) \in Nat
  BY AwakeFinite
<1>3. /\ IsFiniteSet(Awake') /\ Cardinality(Awake') \in Nat
      /\ Cardinality(Awake') \in {Cardinality(Awake), Cardinality(Awake) - 1}
  BY <1>1, <1>2, FS_RemoveElement, FS_CardinalityType
<1>4. done \in Nat /\ done' = IF done = 0 THEN 0 ELSE done - 1
  BY CompletionAssumption DEF CoTypeOK, Leave
<1> QED BY <1>1, <1>2, <1>3, <1>4 DEF EveryEventHasATaker

\* Who goes to sleep has found no event.
LEMMA SleepTaker ==
  ASSUME CoTypeOK', done = 0, NEW w, Sleep(w)
  PROVE  EveryEventHasATaker'
<1>1. IsFiniteSet(Awake')
  <2>1. Queued' \subseteq Waiters
    BY DEF CoTypeOK, Queued, Range
  <2> QED BY <2>1, CompletionAssumption, FS_Subset DEF Awake
<1>2. Cardinality(Awake') \in Nat
  BY <1>1, FS_CardinalityType
<1> QED BY <1>2 DEF EveryEventHasATaker, Sleep

\* Every step of the completion leaves a taker for every event.
LEMMA EventStep ==
  ASSUME CoTypeOK, CoTypeOK', EveryEventHasATaker, [CoNext]_coVars
  PROVE  EveryEventHasATaker'
<1>0. done \in Nat
  BY CompletionAssumption DEF CoTypeOK
<1>1. CASE complete
  BY <1>1, CompleteTaker
<1>2. CASE complete_all
  <2>1. asleep' = {}
    BY <1>2, WakeAll DEF complete_all, Signal, CoTypeOK, Queued
  <2> QED BY <2>1 DEF EveryEventHasATaker
<1>3. CASE try_wait_for_completion
  <2>1. done' <= done /\ asleep' = asleep /\ Awake' = Awake
    BY <1>0, <1>3 DEF try_wait_for_completion, Awake, Queued
  <2> QED BY <2>1, MoreAwake
<1>4. ASSUME NEW w \in Waiters, NEW t \in BOOLEAN, NEW i \in BOOLEAN, wait_for_common(w, t, i)
      PROVE  EveryEventHasATaker'
  <2>1. CASE done > 0 \/ (i /\ w \in signalled)
    <3>1. w \notin Queued /\ Leave(w, IF done > 0 THEN 1 ELSE -1, t, i)
      BY <1>4, <2>1 DEF wait_for_common, ERESTARTSYS
    <3>2. (IF done > 0 THEN 1 ELSE -1) \in {-1, 0, 1}
      OBVIOUS
    <3>3. Queued' = Queued \ {w} /\ w \notin asleep
      BY <3>1, <3>2, LeaveType DEF CoTypeOK
    <3> QED BY <3>1, <3>3, LeaveTaker
  <2>2. CASE ~(done > 0 \/ (i /\ w \in signalled))
    <3>1. Sleep(w) /\ done = 0
      BY <1>0, <1>4, <2>2 DEF wait_for_common
    <3> QED BY <3>1, SleepTaker
  <2> QED BY <2>1, <2>2
<1>5. ASSUME NEW w \in Waiters, resume(w) PROVE EveryEventHasATaker'
  <2>0. /\ (w \in timed) \in BOOLEAN /\ (w \in intr) \in BOOLEAN
        /\ w \notin asleep
    BY <1>5 DEF resume, Awake
  <2>1. CASE done > 0 \/ w \in expired
    <3>1. Leave(w, IF w \in expired THEN 0 ELSE 1, w \in timed, w \in intr)
      BY <1>5, <2>1, Zenon DEF resume
    <3>2. (IF w \in expired THEN 0 ELSE 1) \in {-1, 0, 1}
      OBVIOUS
    <3>3. Queued' = Queued \ {w}
      BY <3>1, <3>2, <2>0, LeaveType, Zenon
    <3> QED BY <3>1, <3>3, <2>0, LeaveTaker
  <2>2. CASE ~(done > 0 \/ w \in expired) /\ w \in intr \cap signalled
    <3>1. Leave(w, -1, w \in timed, TRUE)
      BY <1>5, <2>2, Zenon DEF resume, ERESTARTSYS
    <3>2. Queued' = Queued \ {w}
      BY <3>1, <2>0, LeaveType, Zenon
    <3> QED BY <3>1, <3>2, <2>0, LeaveTaker, Zenon
  <2>3. CASE ~(done > 0 \/ w \in expired) /\ w \notin intr \cap signalled
    <3>1. Sleep(w)
      BY <1>5, <2>3, Zenon DEF resume
    <3>2. done = 0
      BY <1>0, <2>3
    <3> QED BY <3>1, <3>2, SleepTaker
  <2> QED BY <2>1, <2>2, <2>3
<1>6. ASSUME NEW w \in Waiters, expire(w) PROVE EveryEventHasATaker'
  <2>1. done' <= done /\ asleep' \subseteq asleep /\ Awake \subseteq Awake'
    BY <1>0, <1>6 DEF expire, Awake, Queued
  <2> QED BY <2>1, MoreAwake
<1>7. ASSUME NEW w \in Waiters, signal(w) PROVE EveryEventHasATaker'
  <2>1. done' <= done /\ asleep' \subseteq asleep /\ Awake \subseteq Awake'
    BY <1>0, <1>7 DEF signal, Awake, Queued
  <2> QED BY <2>1, MoreAwake
<1>8. CASE UNCHANGED coVars
  BY <1>8 DEF EveryEventHasATaker, coVars, Awake, Queued
<1> QED BY <1>1, <1>2, <1>3, <1>4, <1>5, <1>6, <1>7, <1>8 DEF CoNext

-----------------------------------------------------------------------------
(***************************************************************************)
(* Return values                                                           *)
(***************************************************************************)

\* A call that leaves with an event returns a positive value, also when its time
\* had run out: "return timeout ?: 1".
LEMMA LeaveWithEvent ==
  ASSUME done > 0, NEW w, NEW v \in {0, 1}, NEW t, NEW i, Leave(w, v, t, i)
  PROVE  ReturnValueTruthful'
<1>1. ret'.val = IF done > 0 /\ v = 0 THEN 1 ELSE v
  BY Zenon DEF Leave, Returns
<1>2. ret'.took = (done > 0)
  BY Zenon DEF Leave, Returns
<1>3. ret'.took
  BY <1>2, Zenon
<1>4. ret'.val = 1
  BY <1>1
<1> QED BY <1>3, <1>4 DEF ReturnValueTruthful

\* Without an event it returns what it was given, and has taken nothing.
LEMMA LeaveWithout ==
  ASSUME done = 0, NEW w, NEW v \in {-1, 0}, NEW t, NEW i, Leave(w, v, t, i),
         v = 0 => t, v = -1 => i
  PROVE  ReturnValueTruthful'
<1>1. ret'.val = IF done > 0 /\ v = 0 THEN 1 ELSE v
  BY Zenon DEF Leave, Returns
<1>2. ret'.took = (done > 0) /\ ret'.timed = t /\ ret'.intr = i
  BY Zenon DEF Leave, Returns
<1>3. ~(done > 0)
  OBVIOUS
<1>4. ~ret'.took /\ (v = 0 => ret'.timed) /\ (v = -1 => ret'.intr)
  BY <1>2, <1>3, Zenon
<1>5. ret'.val = v
  BY <1>1
<1>6. (ret'.val < 0 => v = -1) /\ ~(ret'.val > 0)
  BY <1>5
<1>7. ret'.val = 0 => ret'.timed
  BY <1>4, <1>5, Zenon
<1>8. ret'.val < 0 => ret'.intr
  BY <1>4, <1>6, Zenon
<1> QED BY <1>4, <1>6, <1>7, <1>8, Zenon DEF ReturnValueTruthful

\* What no call returned cannot be untruthful.
LEMMA NoReturnTruthful ==
  ASSUME ret' = NoReturn
  PROVE  ReturnValueTruthful'
BY DEF ReturnValueTruthful, NoReturn

\* Every step that ends a call returns the truth about it.
LEMMA ReturnStep ==
  ASSUME CoTypeOK, ReturnValueTruthful, [CoNext]_coVars
  PROVE  ReturnValueTruthful'
<1>0. done \in Nat
  BY CompletionAssumption DEF CoTypeOK
<1>1. CASE complete \/ complete_all \/ try_wait_for_completion
  BY <1>1, NoReturnTruthful DEF complete, complete_all, Signal, try_wait_for_completion
<1>2. ASSUME NEW w \in Waiters, NEW t \in BOOLEAN, NEW i \in BOOLEAN, wait_for_common(w, t, i)
      PROVE  ReturnValueTruthful'
  <2>1. CASE done > 0
    <3>1. Leave(w, IF done > 0 THEN 1 ELSE -ERESTARTSYS, t, i)
      BY <1>2, <2>1, Zenon DEF wait_for_common
    <3>2. (IF done > 0 THEN 1 ELSE -ERESTARTSYS) \in {0, 1}
      BY <2>1
    <3> QED BY <3>1, <3>2, <2>1, LeaveWithEvent, Zenon
  <2>2. CASE done = 0 /\ i /\ w \in signalled
    <3>1. Leave(w, IF done > 0 THEN 1 ELSE -ERESTARTSYS, t, i) /\ i
      BY <1>2, <2>2, Zenon DEF wait_for_common
    <3>2. (IF done > 0 THEN 1 ELSE -ERESTARTSYS) = -1
      BY <2>2 DEF ERESTARTSYS
    <3>3. -1 \in {-1, 0} /\ ~(-1 = 0)
      OBVIOUS
    <3> QED BY <3>1, <3>2, <3>3, <2>2, LeaveWithout, Zenon
  <2>3. CASE done = 0 /\ ~(i /\ w \in signalled)
    <3>1. ~(done > 0)
      BY <2>3
    <3> QED BY <1>2, <2>3, <3>1, NoReturnTruthful, Zenon DEF wait_for_common, Sleep
  <2> QED BY <1>0, <2>1, <2>2, <2>3
<1>3. ASSUME NEW w \in Waiters, resume(w) PROVE ReturnValueTruthful'
  <2>1. CASE done > 0
    <3>1. Leave(w, IF w \in expired THEN 0 ELSE 1, w \in timed, w \in intr)
      BY <1>3, <2>1, Zenon DEF resume
    <3>2. (IF w \in expired THEN 0 ELSE 1) \in {0, 1}
      OBVIOUS
    <3> QED BY <3>1, <3>2, <2>1, LeaveWithEvent, Zenon
  <2>2. CASE done = 0 /\ w \in expired
    <3>1. Leave(w, IF w \in expired THEN 0 ELSE 1, w \in timed, w \in intr) /\ w \in timed
      BY <1>3, <2>2, Zenon DEF resume, CoTypeOK
    <3>2. (IF w \in expired THEN 0 ELSE 1) = 0 /\ 0 \in {-1, 0} /\ ~(0 = -1)
      BY <2>2
    <3> QED BY <3>1, <3>2, <2>2, LeaveWithout, Zenon
  <2>3. CASE done = 0 /\ w \notin expired
    <3>0. ~(done > 0)
      BY <2>3
    <3>1. CASE w \in intr \cap signalled
      <4>1. Leave(w, -ERESTARTSYS, w \in timed, TRUE)
        BY <1>3, <2>3, <3>0, <3>1, Zenon DEF resume
      <4>2. -ERESTARTSYS = -1 /\ -1 \in {-1, 0} /\ ~(-1 = 0)
        BY DEF ERESTARTSYS
      <4> QED BY <4>1, <4>2, <2>3, LeaveWithout, Zenon
    <3>2. CASE w \notin intr \cap signalled
      BY <1>3, <2>3, <3>0, <3>2, NoReturnTruthful, Zenon DEF resume, Sleep
    <3> QED BY <3>1, <3>2
  <2> QED BY <1>0, <2>1, <2>2, <2>3
<1>4. ASSUME NEW w \in Waiters, expire(w) \/ signal(w) PROVE ReturnValueTruthful'
  BY <1>4, NoReturnTruthful DEF expire, signal
<1>5. CASE UNCHANGED coVars
  BY <1>5 DEF ReturnValueTruthful, coVars
<1> QED BY <1>1, <1>2, <1>3, <1>4, <1>5 DEF CoNext

-----------------------------------------------------------------------------
(***************************************************************************)
(* Theorems                                                                *)
(***************************************************************************)

\* A completion starts with no event, nobody queued and no call ended.
LEMMA CoInitially == ASSUME CoInit PROVE CoInv
<1>1. Queued = {} /\ queue \in Seq(Waiters) /\ IsInjective(queue)
  BY DEF CoInit, Queued, Range, IsInjective
<1>2. CoTypeOK
  BY <1>1, NoReturnType, CompletionAssumption DEF CoInit, CoTypeOK
<1>3. EveryEventHasATaker
  BY DEF CoInit, EveryEventHasATaker
<1>4. ReturnValueTruthful
  BY DEF CoInit, ReturnValueTruthful, NoReturn
<1> QED BY <1>2, <1>3, <1>4 DEF CoInv, EventsCounted

\* CoInv is inductive.
LEMMA CoInductive == ASSUME CoInv, [CoNext]_coVars PROVE CoInv'
BY CoTypeStep, EventStep, ReturnStep DEF CoInv, EventsCounted

\* The counter, the queue and the sleepers stay consistent, and as long as anyone
\* sleeps on a completion, every event that complete() counted has an awake waiter
\* on its way to it (complete, do_wait_for_common, try_wait_for_completion).
THEOREM EventsCountedAlways == CoSpec => []EventsCounted
<1>1. CoInit => CoInv
  BY CoInitially
<1>2. CoInv /\ [CoNext]_coVars => CoInv'
  BY CoInductive
<1>3. CoInv => EventsCounted
  BY DEF CoInv
<1> QED BY <1>1, <1>2, <1>3, PTL DEF CoSpec

\* wait_for_completion and its variants return a positive value exactly when they
\* took an event, 0 only with a timeout and -ERESTARTSYS only if interruptible,
\* however events, timeouts and signals race.
THEOREM ReturnsTruthfulAlways == CoSpec => []ReturnValueTruthful
<1>1. CoInit => CoInv
  BY CoInitially
<1>2. CoInv /\ [CoNext]_coVars => CoInv'
  BY CoInductive
<1>3. CoInv => ReturnValueTruthful
  BY DEF CoInv
<1> QED BY <1>1, <1>2, <1>3, PTL DEF CoSpec

\* complete() wakes waiters in the order in which they queued, whoever of them has
\* been woken already by a timeout or a signal (__wake_up_common).
THEOREM WokenInOrderAlways == CoSpec => WokenInOrder
<1> DEFINE InOrder ==
      complete =>
         \A i, j \in DOMAIN queue :
            (i < j /\ queue[j] \in asleep \ asleep') => queue[i] \notin asleep'
<1>1. CoInit => CoInv
  BY CoInitially
<1>2. CoInv /\ [CoNext]_coVars => CoInv'
  BY CoInductive
<1>3. ASSUME CoInv, complete, NEW i \in DOMAIN queue, NEW j \in DOMAIN queue,
             i < j, queue[j] \in asleep \ asleep'
      PROVE  queue[i] \notin asleep'
  <2>1. asleep' = asleep \ __wake_up_common(queue, asleep, 1)
    BY <1>3 DEF complete, Signal
  <2>2. queue[j] \in __wake_up_common(queue, asleep, 1)
    BY <1>3, <2>1
  <2>3. queue \in Seq(Waiters) /\ IsInjective(queue)
    BY <1>3 DEF CoInv, EventsCounted, CoTypeOK
  <2>4. queue[i] \notin asleep
    BY <1>3, <2>2, <2>3, WakeFirst
  <2> QED BY <2>1, <2>4
<1>4. CoInv => [InOrder]_coVars
  BY <1>3
<1> QED BY <1>1, <1>2, <1>4, PTL DEF CoSpec, WokenInOrder

=============================================================================
