--------------------------- MODULE RunQueueProofs ---------------------------
(***************************************************************************)
(* What the operations of the dummy class do to its lists, and those of    *)
(* the run queue to the queues of all classes.                             *)
(*                                                                         *)
(* DummyOK is the invariant of the dummy class by itself: the tasks in S,  *)
(* and no others, are each on exactly one list and once, never below the   *)
(* list of their own priority pr.  RqOK is the invariant of the run queue: *)
(* the tasks in S, and no others, are queued, each with its class cl, and  *)
(* nr counts them.  Every operation keeps both, for the set S it is meant  *)
(* to.                                                                     *)
(***************************************************************************)
EXTENDS RunQueue, ListOpsProofs, WellFoundedInduction

-----------------------------------------------------------------------------
(* The dummy class.                                                        *)

DummyOK(d, S, pr) ==
    /\ d \in DummyRqs
    /\ \A i \in Levels : Range(d.queues[i]) \subseteq S
    /\ \A p \in S : \E i \in Levels : p \in Range(d.queues[i])
    /\ \A i, j \in Levels :
         i # j => Range(d.queues[i]) \cap Range(d.queues[j]) = {}
    /\ \A i \in Levels : IsInjective(d.queues[i])
    /\ \A i \in Levels : \A p \in Range(d.queues[i]) :
         Level(pr[p]) \in Levels /\ i <= Level(pr[p])

\* The linked tasks are the members of S.
LEMMA LinkedIsS ==
  ASSUME NEW d, NEW S, NEW pr, DummyOK(d, S, pr)
  PROVE  Linked(d) = S
<1>1. Linked(d) \subseteq S
  BY DEF Linked, DummyOK
<1>2. S \subseteq Linked(d)
  BY DEF Linked, DummyOK
<1> QED BY <1>1, <1>2

LEMMA InitDummyOK ==
  ASSUME NEW pr
  PROVE  DummyOK(init_dummy_rq, {}, pr)
<1>1. Range(<<>>) = {} /\ IsInjective(<<>>) /\ <<>> \in Seq(Tasks)
  BY DEF Range, IsInjective
<1>2. init_dummy_rq \in DummyRqs
  BY DummyRqAssumption DEF init_dummy_rq, DummyRqs
<1>3. \A i \in Levels : init_dummy_rq.queues[i] = <<>>
  BY DEF init_dummy_rq
<1> QED BY <1>1, <1>2, <1>3 DEF DummyOK

\* enqueue_task_dummy links one more task, at the tail of its own list.
LEMMA EnqueueDummyOK ==
  ASSUME NEW d, NEW S, NEW pr, DummyOK(d, S, pr),
         NEW p \in Tasks, p \notin S, Level(pr[p]) \in Levels
  PROVE  DummyOK(enqueue_task_dummy(d, p, pr[p]), S \cup {p}, pr)
<1> DEFINE e == enqueue_task_dummy(d, p, pr[p])
           k == Level(pr[p])
<1>1. /\ d \in DummyRqs
      /\ \A i \in Levels : d.queues[i] \in Seq(Tasks)
  BY DEF DummyOK, DummyRqs
<1>2. /\ k \in Levels
      /\ e.queues = [d.queues EXCEPT ![k] = Append(d.queues[k], p)]
      /\ e.age = [d.age EXCEPT ![p] = 0]
      /\ e.slice = d.slice
      /\ e = [queues |-> e.queues, age |-> e.age, slice |-> e.slice]
  BY <1>1 DEF enqueue_task_dummy, DummyRqs
<1>3. /\ Append(d.queues[k], p) \in Seq(Tasks)
      /\ Range(Append(d.queues[k], p)) = Range(d.queues[k]) \cup {p}
      /\ IsInjective(d.queues[k]) /\ p \notin Range(d.queues[k])
           => IsInjective(Append(d.queues[k], p))
  BY <1>1, <1>2, AppendFacts
<1>k. Level(pr[p]) = k
  OBVIOUS
<1> HIDE DEF e, k
<1>4. e \in DummyRqs
  <2>1. e.queues \in [Levels -> Seq(Tasks)]
    BY <1>1, <1>2, <1>3 DEF DummyRqs
  <2>2. e.age \in [Tasks -> 0..UINT_MAX]
    BY <1>1, <1>2, DummyRqAssumption DEF DummyRqs
  <2>3. e.slice \in 0..UINT_MAX
    BY <1>1, <1>2 DEF DummyRqs
  <2> QED BY <1>2, <2>1, <2>2, <2>3, Zenon DEF DummyRqs
<1>5. p \notin Range(d.queues[k])
  BY <1>2 DEF DummyOK
<1>6. /\ e.queues[k] = Append(d.queues[k], p)
      /\ \A i \in Levels : i # k => e.queues[i] = d.queues[i]
  BY <1>1, <1>2 DEF DummyRqs
<1>7. /\ Range(e.queues[k]) = Range(d.queues[k]) \cup {p}
      /\ \A i \in Levels : i # k => Range(e.queues[i]) = Range(d.queues[i])
  BY <1>3, <1>6
<1>8. \A i \in Levels : IsInjective(e.queues[i])
  BY <1>3, <1>5, <1>6, Zenon DEF DummyOK
<1>9. \A i \in Levels : \A q \in Range(e.queues[i]) :
        Level(pr[q]) \in Levels /\ i <= Level(pr[q])
  <2> SUFFICES ASSUME NEW i \in Levels, NEW q \in Range(e.queues[i])
               PROVE  Level(pr[q]) \in Levels /\ i <= Level(pr[q])
    OBVIOUS
  <2>1. CASE q \in Range(d.queues[i])
    BY <2>1 DEF DummyOK
  <2>2. CASE q \notin Range(d.queues[i])
    <3>1. i = k /\ q = p
      BY <2>2, <1>7
    <3>2. Level(pr[q]) = i /\ i \in Levels
      BY <3>1, <1>k
    <3>3. i <= i
      BY DummyRqAssumption DEF Levels
    <3> QED BY <3>2, <3>3
  <2> QED BY <2>1, <2>2
<1>10. /\ \A i \in Levels : Range(e.queues[i]) \subseteq S \cup {p}
       /\ \A q \in S \cup {p} : \E i \in Levels : q \in Range(e.queues[i])
       /\ \A i, j \in Levels :
            i # j => Range(e.queues[i]) \cap Range(e.queues[j]) = {}
  <2>1. \A i \in Levels : Range(e.queues[i]) \subseteq S \cup {p}
    BY <1>7 DEF DummyOK
  <2>2. \A q \in S \cup {p} : \E i \in Levels : q \in Range(e.queues[i])
    BY <1>2, <1>7 DEF DummyOK
  <2>3. \A i \in Levels : p \notin Range(d.queues[i])
    BY DEF DummyOK
  <2>4. ASSUME NEW i \in Levels, NEW j \in Levels, i # j
        PROVE  Range(e.queues[i]) \cap Range(e.queues[j]) = {}
    <3>1. Range(d.queues[i]) \cap Range(d.queues[j]) = {}
      BY <2>4 DEF DummyOK
    <3> QED BY <3>1, <2>3, <2>4, <1>7
  <2> QED BY <2>1, <2>2, <2>4
<1>11. DummyOK(e, S \cup {p}, pr)
  BY <1>4, <1>8, <1>9, <1>10 DEF DummyOK
<1> QED BY <1>11 DEF e

\* dequeue_task_dummy unlinks the task, whichever list it is on.
LEMMA DequeueDummyOK ==
  ASSUME NEW d, NEW S, NEW pr, DummyOK(d, S, pr), NEW p
  PROVE  DummyOK(dequeue_task_dummy(d, p), S \ {p}, pr)
<1> DEFINE e == dequeue_task_dummy(d, p)
<1>1. /\ d \in DummyRqs
      /\ \A i \in Levels : d.queues[i] \in Seq(Tasks)
  BY DEF DummyOK, DummyRqs
<1>2. /\ e.queues = [i \in Levels |-> ListDel(d.queues[i], p)]
      /\ e.age = d.age
      /\ e.slice = d.slice
      /\ e = [queues |-> e.queues, age |-> e.age, slice |-> e.slice]
  BY <1>1 DEF dequeue_task_dummy, DummyRqs
<1> HIDE DEF e
<1>3. \A i \in Levels : /\ e.queues[i] \in Seq(Tasks)
                        /\ Range(e.queues[i]) = Range(d.queues[i]) \ {p}
                        /\ IsInjective(d.queues[i]) => IsInjective(e.queues[i])
  <2> TAKE i \in Levels
  <2>1. e.queues[i] = ListDel(d.queues[i], p)
    BY <1>2
  <2>2. /\ ListDel(d.queues[i], p) \in Seq(Tasks)
        /\ Range(ListDel(d.queues[i], p)) = Range(d.queues[i]) \ {p}
        /\ IsInjective(d.queues[i]) => IsInjective(ListDel(d.queues[i], p))
    BY <1>1, ListDelFacts
  <2> QED BY <2>1, <2>2
<1>4. e \in DummyRqs
  BY <1>1, <1>2, <1>3 DEF DummyRqs
<1>5. DummyOK(e, S \ {p}, pr)
  BY <1>3, <1>4, Zenon DEF DummyOK
<1> QED BY <1>5 DEF e

\* requeue_task_dummy keeps a linked task linked.
LEMMA RequeueDummyOK ==
  ASSUME NEW d, NEW S, NEW pr, DummyOK(d, S, pr),
         NEW p \in Tasks, p \in S, Level(pr[p]) \in Levels
  PROVE  DummyOK(requeue_task_dummy(d, p, pr[p]), S, pr)
<1>1. DummyOK(dequeue_task_dummy(d, p), S \ {p}, pr)
  BY DequeueDummyOK
<1>2. DummyOK(enqueue_task_dummy(dequeue_task_dummy(d, p), p, pr[p]),
              (S \ {p}) \cup {p}, pr)
  BY <1>1, EnqueueDummyOK
<1>3. (S \ {p}) \cup {p} = S
  OBVIOUS
<1> QED BY <1>2, <1>3 DEF requeue_task_dummy

\* On list i of e are tasks that were on the same list, or on the next, of d,
\* and nobody of the same list has got ahead of anybody, the tasks in X apart.
MovedUp(d, e, X) ==
    \A i, j \in Levels : \A p \in (Range(d.queues[i]) \cap Range(e.queues[j])) \ X :
      /\ j \in {i, i - 1}
      /\ j = i => \A q \in Tasks : Ahead(e.queues[i], q, p) => Ahead(d.queues[i], q, p)

\* A scheduling tick of ageing keeps the same tasks linked, each once, and
\* moves tasks upwards only, one list at a time.
LEMMA AgeTasksDummyOK ==
  ASSUME NEW d, NEW S, NEW pr, DummyOK(d, S, pr), NEW threshold
  PROVE  /\ DummyOK(age_tasks(d, threshold), S, pr)
         /\ MovedUp(d, age_tasks(d, threshold), {})
<1> DEFINE e  == age_tasks(d, threshold)
           up == Aged(d, threshold)
           lo(i) == KeepIn(d.queues[i], Tasks \ up)
           hi(i) == IF i + 1 \in Levels THEN KeepIn(d.queues[i + 1], up) ELSE <<>>
           R(i)  == Range(d.queues[i])
<1>1. /\ d \in DummyRqs
      /\ \A i \in Levels : d.queues[i] \in Seq(Tasks)
  BY DEF DummyOK, DummyRqs
<1>2. /\ e.queues = [i \in Levels |-> lo(i) \o hi(i)]
      /\ e.age \in [Tasks -> 0..UINT_MAX]
      /\ e.slice = d.slice
      /\ e = [queues |-> e.queues, age |-> e.age, slice |-> e.slice]
  <2>1. \A p \in Tasks : (d.age[p] + 1) % (UINT_MAX + 1) \in 0..UINT_MAX
    BY <1>1, DummyRqAssumption DEF DummyRqs
  <2> DEFINE a == [p \in Tasks |->
                    CASE p \in up              -> 0
                      [] p \in Waiting(d) \ up -> (d.age[p] + 1) % (UINT_MAX + 1)
                      [] OTHER                 -> d.age[p]]
             q == [i \in Levels |-> lo(i) \o hi(i)]
  <2>2. a \in [Tasks -> 0..UINT_MAX]
    BY <1>1, <2>1, DummyRqAssumption DEF DummyRqs
  <2>3. e = [queues |-> q, age |-> a, slice |-> d.slice]
    BY DEF age_tasks
  <2> HIDE DEF a, q, e
  <2>4. e.queues = q /\ e.age = a /\ e.slice = d.slice
    BY <2>3
  <2>5. e = [queues |-> e.queues, age |-> e.age, slice |-> e.slice]
    BY <2>3, <2>4
  <2> QED BY <2>2, <2>4, <2>5, Zenon DEF q
<1>3. \A p \in up : p \in Waiting(d)
  BY DEF Aged
<1>4. up \cap R(0) = {}
  BY <1>3, DummyRqAssumption DEF Waiting, DummyOK, Levels
<1>5. \A i \in Levels : R(i) \subseteq Tasks
  BY <1>1, KeepInFacts DEF Range
<1> HIDE DEF up, e
<1>6. \A i \in Levels : /\ lo(i) \in Seq(Tasks)
                        /\ Range(lo(i)) = R(i) \ up
                        /\ IsInjective(d.queues[i]) => IsInjective(lo(i))
  <2> TAKE i \in Levels
  <2>1. /\ lo(i) \in Seq(Tasks)
        /\ Range(lo(i)) = Range(d.queues[i]) \cap (Tasks \ up)
        /\ IsInjective(d.queues[i]) => IsInjective(lo(i))
    BY <1>1, KeepInFacts
  <2> QED BY <2>1, <1>5, Zenon
<1>7. \A i \in Levels : /\ hi(i) \in Seq(Tasks)
                        /\ i + 1 \in Levels => Range(hi(i)) = R(i + 1) \cap up
                        /\ i + 1 \notin Levels => Range(hi(i)) = {}
                        /\ IsInjective(hi(i))
  <2> TAKE i \in Levels
  <2>1. CASE i + 1 \in Levels
    <3>1. hi(i) = KeepIn(d.queues[i + 1], up)
      BY <2>1
    <3>2. IsInjective(d.queues[i + 1])
      BY <2>1 DEF DummyOK
    <3>3. /\ KeepIn(d.queues[i + 1], up) \in Seq(Tasks)
          /\ Range(KeepIn(d.queues[i + 1], up)) = R(i + 1) \cap up
          /\ IsInjective(KeepIn(d.queues[i + 1], up))
      BY <1>1, <2>1, <3>2, KeepInFacts
    <3> HIDE DEF hi
    <3> QED BY <3>1, <3>3, <2>1
  <2>2. CASE i + 1 \notin Levels
    <3>1. hi(i) = <<>>
      BY <2>2
    <3>2. Range(<<>>) = {} /\ IsInjective(<<>>) /\ <<>> \in Seq(Tasks)
      BY DEF Range, IsInjective
    <3> HIDE DEF hi
    <3> QED BY <3>1, <3>2, <2>2
  <2> QED BY <2>1, <2>2
<1>8. \A i \in Levels : e.queues[i] = lo(i) \o hi(i)
  BY <1>2, Zenon
<1> HIDE DEF lo, hi
<1>9. \A i \in Levels : Range(lo(i)) \cap Range(hi(i)) = {}
  BY <1>6, <1>7
<1>10. \A i \in Levels : /\ e.queues[i] \in Seq(Tasks)
                         /\ Range(e.queues[i]) = Range(lo(i)) \cup Range(hi(i))
                         /\ IsInjective(e.queues[i])
  <2> TAKE i \in Levels
  <2>1. IsInjective(lo(i)) /\ IsInjective(hi(i))
    BY <1>6, <1>7 DEF DummyOK
  <2>2. /\ lo(i) \o hi(i) \in Seq(Tasks)
        /\ Range(lo(i) \o hi(i)) = Range(lo(i)) \cup Range(hi(i))
        /\ IsInjective(lo(i) \o hi(i))
    BY <1>6, <1>7, <1>9, <2>1, ConcatFacts
  <2> QED BY <2>2, <1>8, Zenon
<1>11. e \in DummyRqs
  BY <1>1, <1>2, <1>10, Zenon DEF DummyRqs
\* The list a task is on afterwards, in terms of the list it was on.
<1>12. \A i \in Levels : \A p \in Range(e.queues[i]) :
         \/ p \in R(i) /\ p \notin up
         \/ i + 1 \in Levels /\ p \in R(i + 1) /\ p \in up
  <2> SUFFICES ASSUME NEW i \in Levels, NEW p \in Range(e.queues[i])
               PROVE  \/ p \in R(i) /\ p \notin up
                      \/ i + 1 \in Levels /\ p \in R(i + 1) /\ p \in up
    OBVIOUS
  <2>1. CASE p \in Range(lo(i))
    BY <1>6, <2>1, Zenon
  <2>2. CASE p \in Range(hi(i))
    BY <1>7, <2>2, Zenon
  <2> QED BY <1>10, <2>1, <2>2, Zenon
<1>13. \A i \in Levels : \A p \in R(i) :
         /\ p \notin up => p \in Range(e.queues[i])
         /\ p \in up => i - 1 \in Levels /\ p \in Range(e.queues[i - 1])
  <2> SUFFICES ASSUME NEW i \in Levels, NEW p \in R(i)
               PROVE  /\ p \notin up => p \in Range(e.queues[i])
                      /\ p \in up => i - 1 \in Levels /\ p \in Range(e.queues[i - 1])
    OBVIOUS
  <2>1. p \notin up => p \in Range(e.queues[i])
    BY <1>6, <1>10
  <2>2. ASSUME p \in up
        PROVE  i - 1 \in Levels /\ p \in Range(e.queues[i - 1])
    <3>1. i # 0
      BY <2>2, <1>4
    <3>2. i - 1 \in Levels /\ (i - 1) + 1 = i
      BY <3>1, DummyRqAssumption DEF Levels
    <3>3. Range(hi(i - 1)) = R(i) \cap up
      BY <3>2, <1>7
    <3> QED BY <3>2, <3>3, <2>2, <1>10
  <2> QED BY <2>1, <2>2
<1>14. /\ \A i \in Levels : Range(e.queues[i]) \subseteq S
       /\ \A p \in S : \E i \in Levels : p \in Range(e.queues[i])
  BY <1>12, <1>13 DEF DummyOK
<1>15. \A i, j \in Levels :
         i # j => Range(e.queues[i]) \cap Range(e.queues[j]) = {}
  <2> SUFFICES ASSUME NEW i \in Levels, NEW j \in Levels, i # j,
                      NEW p \in Range(e.queues[i]), p \in Range(e.queues[j])
               PROVE  FALSE
    OBVIOUS
  <2>1. i + 1 # j + 1
    BY DummyRqAssumption DEF Levels
  <2>2. \A m, n \in Levels : m # n => R(m) \cap R(n) = {}
    BY DEF DummyOK
  <2> QED BY <2>1, <2>2, <1>12
<1>16. \A i \in Levels : \A p \in Range(e.queues[i]) :
         Level(pr[p]) \in Levels /\ i <= Level(pr[p])
  <2> SUFFICES ASSUME NEW i \in Levels, NEW p \in Range(e.queues[i])
               PROVE  Level(pr[p]) \in Levels /\ i <= Level(pr[p])
    OBVIOUS
  <2>1. CASE p \in R(i)
    BY <2>1 DEF DummyOK
  <2>2. CASE i + 1 \in Levels /\ p \in R(i + 1)
    <3>1. Level(pr[p]) \in Levels /\ i + 1 <= Level(pr[p])
      BY <2>2 DEF DummyOK
    <3> QED BY <3>1, DummyRqAssumption DEF Levels
  <2> QED BY <2>1, <2>2, <1>12
<1>17. DummyOK(e, S, pr)
  BY <1>10, <1>11, <1>14, <1>15, <1>16 DEF DummyOK
<1>18. MovedUp(d, e, {})
  <2> SUFFICES ASSUME NEW i \in Levels, NEW j \in Levels,
                      NEW p \in R(i) \cap Range(e.queues[j])
               PROVE  /\ j \in {i, i - 1}
                      /\ j = i => \A q \in Tasks : Ahead(e.queues[i], q, p)
                                                    => Ahead(d.queues[i], q, p)
    BY Zenon DEF MovedUp
  <2>1. \A m, n \in Levels : m # n => R(m) \cap R(n) = {}
    BY Zenon DEF DummyOK
  <2>2. j = i \/ j + 1 = i
    BY <1>12, <2>1, Zenon
  <2>3. j \in {i, i - 1}
    BY <2>2, DummyRqAssumption DEF Levels
  <2>4. ASSUME NEW q \in Tasks, Ahead(e.queues[i], q, p)
        PROVE  Ahead(d.queues[i], q, p)
    <3>1. i + 1 # i
      BY DummyRqAssumption DEF Levels
    <3>2. p \notin Range(hi(i))
      <4>1. CASE i + 1 \in Levels
        BY <1>7, <2>1, <3>1, <4>1, Zenon
      <4>2. CASE i + 1 \notin Levels
        BY <1>7, <4>2, Zenon
      <4> QED BY <4>1, <4>2
    <3>3. Ahead(lo(i) \o hi(i), q, p)
      BY <1>8, <2>4, Zenon
    <3>4. Ahead(lo(i), q, p)
      BY <1>6, <1>7, <3>2, <3>3, ConcatOrder, Zenon
    <3>5. Ahead(KeepIn(d.queues[i], Tasks \ up), q, p)
      BY <3>4 DEF lo
    <3> QED BY <1>1, <3>5, KeepInOrder, Zenon
  <2> QED BY <2>3, <2>4
<1> QED BY <1>17, <1>18 DEF e

\* The rest of task_tick_dummy: a task whose slice is over goes to the tail.
LEMMA TaskTickDummyOK ==
  ASSUME NEW d, NEW S, NEW pr, DummyOK(d, S, pr),
         NEW p \in Tasks, p \in S, Level(pr[p]) \in Levels,
         NEW timeslice \in 0..UINT_MAX, NEW threshold
  PROVE  DummyOK(task_tick_dummy(d, p, pr[p], timeslice, threshold), S, pr)
<1> DEFINE a == age_tasks(d, threshold)
           b == requeue_task_dummy(a, p, pr[p])
<1>1. DummyOK(a, S, pr)
  BY AgeTasksDummyOK
<1>2. DummyOK(b, S, pr)
  BY <1>1, RequeueDummyOK
<1>3. \A n \in 0..UINT_MAX : \A f : DummyOK(f, S, pr) => DummyOK([f EXCEPT !.slice = n], S, pr)
  <2> SUFFICES ASSUME NEW n \in 0..UINT_MAX, NEW f, DummyOK(f, S, pr)
               PROVE  DummyOK([f EXCEPT !.slice = n], S, pr)
    OBVIOUS
  <2>1. f \in DummyRqs
    BY DEF DummyOK
  <2>2. /\ [f EXCEPT !.slice = n] \in DummyRqs
        /\ [f EXCEPT !.slice = n].queues = f.queues
    BY <2>1, Zenon DEF DummyRqs
  <2> QED BY <2>2 DEF DummyOK
<1>4. task_tick_dummy(d, p, pr[p], timeslice, threshold) =
        IF SliceOver(a, timeslice) THEN [b EXCEPT !.slice = 0]
        ELSE [a EXCEPT !.slice = @ + 1]
  BY DEF task_tick_dummy
<1> HIDE DEF a, b
<1>5. CASE SliceOver(a, timeslice)
  <2>1. 0 \in 0..UINT_MAX
    BY DummyRqAssumption
  <2> QED BY <1>2, <1>3, <1>4, <1>5, <2>1
<1>6. CASE ~SliceOver(a, timeslice)
  <2>1. a.slice \in 0..UINT_MAX
    BY <1>1 DEF DummyOK, DummyRqs
  <2>2. a.slice + 1 \in 0..UINT_MAX
    BY <2>1, <1>6, DummyRqAssumption DEF SliceOver
  <2> QED BY <1>1, <1>3, <1>4, <1>6, <2>2
<1> QED BY <1>5, <1>6

\* Picking resets the age of the task and leaves the lists alone.
LEMMA SetNextDummyOK ==
  ASSUME NEW d, NEW S, NEW pr, DummyOK(d, S, pr), NEW p
  PROVE  DummyOK(set_next_dummy(d, p), S, pr)
<1>1. d \in DummyRqs
  BY DEF DummyOK
<1>2. 0 \in 0..UINT_MAX
  BY DummyRqAssumption
<1>3. /\ set_next_dummy(d, p) \in DummyRqs
      /\ set_next_dummy(d, p).queues = d.queues
  BY <1>1, <1>2, Zenon DEF DummyRqs, set_next_dummy
<1> QED BY <1>3 DEF DummyOK

\* When some list is not empty, FirstLevel is the first such list.
LEMMA FirstLevelFacts ==
  ASSUME NEW d \in DummyRqs, \E i \in Levels : d.queues[i] # <<>>
  PROVE  /\ FirstLevel(d) \in Levels
         /\ d.queues[FirstLevel(d)] # <<>>
         /\ \A j \in Levels : j < FirstLevel(d) => d.queues[j] = <<>>
<1> DEFINE T == {i \in Levels : d.queues[i] # <<>>}
<1>1. T # {}
  OBVIOUS
<1>2. T \subseteq Nat
  BY DummyRqAssumption DEF Levels
<1>3. \E i \in T : \A j \in T : ~(<<j, i>> \in OpToRel(<, Nat))
  <2> HIDE DEF T
  <2> QED BY <1>1, <1>2, NatLessThanWellFounded, WFMin, Zenon
<1>4. PICK i \in T : \A j \in T : ~(j < i)
  BY <1>2, <1>3, Zenon DEF OpToRel
<1>5. \E k \in Levels : /\ d.queues[k] # <<>>
                        /\ \A j \in Levels : j < k => d.queues[j] = <<>>
  BY <1>4
<1> QED BY <1>5, Zenon DEF FirstLevel

\* pick_next_task_dummy returns a linked task whenever there is one.
LEMMA PickDummyOK ==
  ASSUME NEW d, NEW S, NEW pr, DummyOK(d, S, pr), S # {}
  PROVE  pick_next_task_dummy(d) \in S
<1>1. d \in DummyRqs /\ \A i \in Levels : d.queues[i] \in Seq(Tasks)
  BY DEF DummyOK, DummyRqs
<1>2. \E i \in Levels : d.queues[i] # <<>>
  <2>1. PICK p \in S : TRUE
    OBVIOUS
  <2>2. PICK i \in Levels : p \in Range(d.queues[i])
    BY DEF DummyOK
  <2>3. d.queues[i] # <<>>
    BY <2>2, <1>1 DEF Range
  <2> QED BY <2>3
<1>3. FirstLevel(d) \in Levels /\ d.queues[FirstLevel(d)] # <<>>
  BY <1>1, <1>2, FirstLevelFacts, Zenon
<1>4. Head(d.queues[FirstLevel(d)]) \in Range(d.queues[FirstLevel(d)])
  BY <1>1, <1>3, HeadInRange
<1> QED BY <1>3, <1>4 DEF pick_next_task_dummy, DummyOK

\* A task that goes to the tail of its own list is not the one picked, if another
\* task is on that list or on a better one.
LEMMA RequeuePick ==
  ASSUME NEW d, NEW S, NEW pr, DummyOK(d, S, pr), NEW p \in Tasks, p \in S,
         Level(pr[p]) \in Levels,
         NEW i \in Levels, i <= Level(pr[p]), NEW q \in Range(d.queues[i]), q # p
  PROVE  pick_next_task_dummy(requeue_task_dummy(d, p, pr[p])) # p
<1> DEFINE c == dequeue_task_dummy(d, p)
           e == requeue_task_dummy(d, p, pr[p])
           k == Level(pr[p])
           n == FirstLevel(e)
<1>1. DummyOK(c, S \ {p}, pr) /\ DummyOK(e, S, pr)
  BY DequeueDummyOK, RequeueDummyOK, Zenon
<1>2. d.queues[i] \in Seq(Tasks)
  BY DEF DummyOK, DummyRqs
<1>3. /\ c.queues = [j \in Levels |-> ListDel(d.queues[j], p)]
      /\ e.queues = [c.queues EXCEPT ![k] = Append(c.queues[k], p)]
  <2>1. d \in DummyRqs
    BY DEF DummyOK
  <2>2. c.queues = [j \in Levels |-> ListDel(d.queues[j], p)]
    BY <2>1 DEF dequeue_task_dummy, DummyRqs
  <2> HIDE DEF c
  <2>3. e.queues = [c.queues EXCEPT ![k] = Append(c.queues[k], p)]
    BY DEF requeue_task_dummy, enqueue_task_dummy, c
  <2> QED BY <2>2, <2>3
<1> HIDE DEF c, e, k, n
<1>4. q \in Range(c.queues[i])
  <2>1. c.queues[i] = ListDel(d.queues[i], p)
    BY <1>3
  <2>2. Range(ListDel(d.queues[i], p)) = Range(d.queues[i]) \ {p}
    BY <1>2, ListDelFacts
  <2> QED BY <2>1, <2>2
<1>5. /\ \A j \in Levels : c.queues[j] \in Seq(Tasks) /\ p \notin Range(c.queues[j])
      /\ \A j \in Levels : e.queues[j] \in Seq(Tasks)
      /\ e \in DummyRqs
  BY <1>1, Zenon DEF DummyOK, DummyRqs
<1>6. \A j \in Levels : e.queues[j] = IF j = k THEN Append(c.queues[j], p) ELSE c.queues[j]
  BY <1>3, Zenon
<1>7. e.queues[i] # <<>> /\ c.queues[i] # <<>>
  <2>1. c.queues[i] # <<>>
    BY <1>4, <1>5 DEF Range
  <2>2. Append(c.queues[i], p) # <<>>
    <3> DEFINE s == c.queues[i]
    <3>1. s \in Seq(Tasks)
      BY <1>5
    <3> HIDE DEF s
    <3>2. Append(s, p) # <<>>
      BY <3>1
    <3> QED BY <3>2 DEF s
  <2> QED BY <1>6, <2>1, <2>2, Zenon
<1>8. /\ n \in Levels /\ e.queues[n] # <<>>
      /\ \A j \in Levels : j < n => e.queues[j] = <<>>
  BY <1>5, <1>7, FirstLevelFacts, Zenon DEF n
<1>9. SUFFICES ASSUME Head(e.queues[n]) = p PROVE FALSE
  BY DEF pick_next_task_dummy, e, n
<1>10. p \in Range(e.queues[n])
  BY <1>5, <1>8, <1>9, HeadInRange, Zenon
<1>11. n = k
  BY <1>5, <1>6, <1>8, <1>10, Zenon
<1>12. i = k
  <2>1. ~(i < n)
    BY <1>7, <1>8, Zenon
  <2> QED BY <2>1, <1>8, <1>11, DummyRqAssumption DEF k, Levels
<1>13. Head(Append(c.queues[i], p)) = Head(c.queues[i])
  BY <1>5, <1>7
<1>14. Head(c.queues[i]) \in Range(c.queues[i])
  BY <1>5, <1>7, HeadInRange, Zenon
<1> QED BY <1>5, <1>6, <1>9, <1>11, <1>12, <1>13, <1>14, Zenon

\* The priority of a task that is not linked does not matter.
LEMMA PrioDummyOK ==
  ASSUME NEW d, NEW S, NEW pr, DummyOK(d, S, pr), NEW pr2,
         \A p \in S : pr2[p] = pr[p]
  PROVE  DummyOK(d, S, pr2)
<1>1. \A i \in Levels : \A p \in Range(d.queues[i]) : pr2[p] = pr[p]
  BY DEF DummyOK
<1> QED BY <1>1 DEF DummyOK

-----------------------------------------------------------------------------
(* What an operation of the dummy class leaves alone.                      *)

\* The tasks in X may have been unlinked, or linked at the tail of a list.
\* Nobody else was linked, moved or overtaken, and whoever waits has waited as
\* long as before, or starts anew.
Undisturbed(d, e, X) ==
    /\ \A i \in Levels : \A p \in Range(e.queues[i]) \ X :
         /\ p \in Range(d.queues[i])
         /\ \A q \in Tasks : Ahead(e.queues[i], q, p) => Ahead(d.queues[i], q, p)
    /\ \A p \in Waiting(e) :
         e.age[p] = 0 \/ (p \in Waiting(d) /\ e.age[p] = d.age[p])

LEMMA UndisturbedTrans ==
  ASSUME NEW c, NEW d, NEW e, NEW X, Undisturbed(c, d, X), Undisturbed(d, e, X)
  PROVE  Undisturbed(c, e, X)
<1>1. ASSUME NEW i \in Levels, NEW p \in Range(e.queues[i]) \ X
      PROVE  /\ p \in Range(c.queues[i])
             /\ \A q \in Tasks : Ahead(e.queues[i], q, p) => Ahead(c.queues[i], q, p)
  <2>1. /\ p \in Range(d.queues[i]) \ X
        /\ \A q \in Tasks : Ahead(e.queues[i], q, p) => Ahead(d.queues[i], q, p)
    BY <1>1, Zenon DEF Undisturbed
  <2>2. /\ p \in Range(c.queues[i])
        /\ \A q \in Tasks : Ahead(d.queues[i], q, p) => Ahead(c.queues[i], q, p)
    BY <2>1, Zenon DEF Undisturbed
  <2> QED BY <2>1, <2>2, Zenon
<1>2. ASSUME NEW p \in Waiting(e)
      PROVE  e.age[p] = 0 \/ (p \in Waiting(c) /\ e.age[p] = c.age[p])
  BY <1>2, Zenon DEF Undisturbed
<1> QED BY <1>1, <1>2, Zenon DEF Undisturbed

\* An operation that leaves the lists alone and resets ages only.
LEMMA UndisturbedLists ==
  ASSUME NEW d, NEW e, NEW X, e.queues = d.queues,
         \A p \in Waiting(e) : e.age[p] = 0 \/ e.age[p] = d.age[p]
  PROVE  Undisturbed(d, e, X)
<1>1. Waiting(e) = Waiting(d)
  BY DEF Waiting
<1> QED BY <1>1, Zenon DEF Undisturbed

LEMMA EnqueueUndisturbed ==
  ASSUME NEW d \in DummyRqs, NEW p \in Tasks, NEW prio
  PROVE  Undisturbed(d, enqueue_task_dummy(d, p, prio), {p})
<1> DEFINE e == enqueue_task_dummy(d, p, prio)
           k == Level(prio)
<1>1. /\ \A i \in Levels : d.queues[i] \in Seq(Tasks)
      /\ d.queues \in [Levels -> Seq(Tasks)] /\ d.age \in [Tasks -> 0..UINT_MAX]
  BY DEF DummyRqs
<1>2. /\ e.queues = [d.queues EXCEPT ![k] = Append(d.queues[k], p)]
      /\ e.age = [d.age EXCEPT ![p] = 0]
  BY DEF enqueue_task_dummy
<1> HIDE DEF e, k
<1>3. \A i \in Levels : e.queues[i] = IF i = k THEN Append(d.queues[i], p) ELSE d.queues[i]
  BY <1>1, <1>2
<1>4. e.age[p] = 0 /\ \A q \in Tasks : q # p => e.age[q] = d.age[q]
  BY <1>1, <1>2
<1>5. \A i \in Levels : Range(e.queues[i]) \subseteq Range(d.queues[i]) \cup {p}
  <2> TAKE i \in Levels
  <2>1. Range(Append(d.queues[i], p)) = Range(d.queues[i]) \cup {p}
    BY <1>1, AppendFacts
  <2> QED BY <1>3, <2>1
<1>6. ASSUME NEW i \in Levels, NEW q \in Range(e.queues[i]) \ {p}
      PROVE  /\ q \in Range(d.queues[i])
             /\ \A x \in Tasks : Ahead(e.queues[i], x, q) => Ahead(d.queues[i], x, q)
  <2>1. q \in Range(d.queues[i])
    BY <1>5, <1>6
  <2>2. ASSUME NEW x \in Tasks, Ahead(e.queues[i], x, q) PROVE Ahead(d.queues[i], x, q)
    <3>1. CASE i = k
      <4>1. Ahead(Append(d.queues[i], p), x, q)
        BY <1>3, <2>2, <3>1
      <4> QED BY <1>1, <1>6, <4>1, AppendOrder
    <3>2. CASE i # k
      BY <1>3, <2>2, <3>2
    <3> QED BY <3>1, <3>2
  <2> QED BY <2>1, <2>2
<1>7. ASSUME NEW q \in Waiting(e)
      PROVE  e.age[q] = 0 \/ (q \in Waiting(d) /\ e.age[q] = d.age[q])
  <2>1. PICK i \in Levels \ {0} : q \in Range(e.queues[i])
    BY <1>7, Zenon DEF Waiting
  <2>2. CASE q = p
    BY <1>4, <2>2
  <2>3. CASE q # p
    <3>1. q \in Range(d.queues[i])
      BY <1>5, <2>1, <2>3
    <3>2. q \in Tasks
      BY <1>1, <3>1 DEF Range
    <3>3. q \in Waiting(d)
      BY <2>1, <3>1, Zenon DEF Waiting
    <3> QED BY <1>4, <2>3, <3>2, <3>3
  <2> QED BY <2>2, <2>3
<1>8. Undisturbed(d, e, {p})
  BY <1>6, <1>7, Zenon DEF Undisturbed
<1> QED BY <1>8 DEF e

LEMMA DequeueUndisturbed ==
  ASSUME NEW d \in DummyRqs, NEW p
  PROVE  Undisturbed(d, dequeue_task_dummy(d, p), {p})
<1> DEFINE e == dequeue_task_dummy(d, p)
<1>1. \A i \in Levels : d.queues[i] \in Seq(Tasks)
  BY DEF DummyRqs
<1>2. e.queues = [i \in Levels |-> ListDel(d.queues[i], p)] /\ e.age = d.age
  BY DEF dequeue_task_dummy, DummyRqs
<1> HIDE DEF e
<1>3. \A i \in Levels : e.queues[i] = ListDel(d.queues[i], p)
  BY <1>2, Zenon
<1>4. \A i \in Levels : Range(e.queues[i]) \subseteq Range(d.queues[i])
  <2> TAKE i \in Levels
  <2>1. Range(ListDel(d.queues[i], p)) = Range(d.queues[i]) \ {p}
    BY <1>1, ListDelFacts
  <2> QED BY <1>3, <2>1
<1>5. ASSUME NEW i \in Levels, NEW q, NEW x, Ahead(e.queues[i], x, q)
      PROVE  Ahead(d.queues[i], x, q)
  <2>1. Ahead(KeepIn(d.queues[i], Range(d.queues[i]) \ {p}), x, q)
    BY <1>3, <1>5, Zenon DEF ListDel
  <2> QED BY <1>1, <2>1, KeepInOrder, Zenon
<1>6. ASSUME NEW q \in Waiting(e) PROVE q \in Waiting(d)
  BY <1>4, <1>6, Zenon DEF Waiting
<1>7. Undisturbed(d, e, {p})
  BY <1>2, <1>4, <1>5, <1>6, Zenon DEF Undisturbed
<1> QED BY <1>7 DEF e

LEMMA RequeueUndisturbed ==
  ASSUME NEW d, NEW S, NEW pr, DummyOK(d, S, pr), NEW p \in Tasks, NEW prio
  PROVE  Undisturbed(d, requeue_task_dummy(d, p, prio), {p})
<1> DEFINE c == dequeue_task_dummy(d, p)
<1>1. d \in DummyRqs /\ c \in DummyRqs
  <2>1. DummyOK(c, S \ {p}, pr)
    BY DequeueDummyOK, Zenon
  <2> HIDE DEF c
  <2> QED BY <2>1, Zenon DEF DummyOK
<1>2. Undisturbed(d, c, {p})
  BY <1>1, DequeueUndisturbed
<1> HIDE DEF c
<1>3. Undisturbed(c, enqueue_task_dummy(c, p, prio), {p})
  BY <1>1, EnqueueUndisturbed
<1>4. Undisturbed(d, enqueue_task_dummy(c, p, prio), {p})
  BY <1>2, <1>3, UndisturbedTrans
<1> QED BY <1>4 DEF requeue_task_dummy, c

LEMMA SetNextUndisturbed ==
  ASSUME NEW d \in DummyRqs, NEW p, NEW X
  PROVE  Undisturbed(d, set_next_dummy(d, p), X)
<1> DEFINE e == set_next_dummy(d, p)
<1>1. e.queues = d.queues /\ e.age = [d.age EXCEPT ![p] = 0]
  BY DEF set_next_dummy, DummyRqs
<1> HIDE DEF e
<1>2. \A q \in Tasks : e.age[q] = 0 \/ e.age[q] = d.age[q]
  BY <1>1 DEF DummyRqs
<1>3. Waiting(e) \subseteq Tasks
  <2>1. \A i \in Levels : Range(d.queues[i]) \subseteq Tasks
    BY DEF DummyRqs, Range
  <2> QED BY <1>1, <2>1, Zenon DEF Waiting
<1>4. Undisturbed(d, e, X)
  BY <1>1, <1>2, <1>3, UndisturbedLists, Zenon
<1> QED BY <1>4 DEF e

AgesUpTo(d, n) == \A p \in Waiting(d) : d.age[p] <= n

\* The scan of task_tick_dummy counts on only up to the threshold.
LEMMA AgeTasksAges ==
  ASSUME NEW d, NEW S, NEW pr, DummyOK(d, S, pr), NEW threshold \in 0..UINT_MAX,
         NEW p \in Waiting(age_tasks(d, threshold))
  PROVE  age_tasks(d, threshold).age[p] <= threshold + 1
<1> DEFINE e == age_tasks(d, threshold)
           up == Aged(d, threshold)
<1>1. d \in DummyRqs /\ DummyOK(e, S, pr) /\ MovedUp(d, e, {})
  <2>1. d \in DummyRqs
    BY Zenon DEF DummyOK
  <2> QED BY <2>1, AgeTasksDummyOK, Zenon
<1>2. e.age = [q \in Tasks |->
                   CASE q \in up              -> 0
                     [] q \in Waiting(d) \ up -> (d.age[q] + 1) % (UINT_MAX + 1)
                     [] OTHER                 -> d.age[q]]
  BY DEF age_tasks
<1> HIDE DEF e
<1>3. PICK j \in Levels \ {0} : p \in Range(e.queues[j])
  BY Zenon DEF Waiting, e
<1>4. PICK i \in Levels : p \in Range(d.queues[i])
  BY <1>1, <1>3, Zenon DEF DummyOK
<1>5. p \in Waiting(d)
  <2>1. j \in {i, i - 1}
    BY <1>1, <1>3, <1>4 DEF MovedUp
  <2>2. i # 0
    BY <1>3, <2>1, DummyRqAssumption DEF Levels
  <2> QED BY <1>4, <2>2, Zenon DEF Waiting
<1>6. p \in Tasks
  BY <1>1, <1>4 DEF DummyRqs, Range
<1>7. d.age[p] \in 0..UINT_MAX
  BY <1>1, <1>6 DEF DummyRqs
<1>8. CASE p \in up
  <2>1. e.age[p] = 0
    BY <1>2, <1>6, <1>8
  <2> QED BY <2>1 DEF e
<1>9. CASE p \notin up
  <2>1. d.age[p] <= threshold
    BY <1>5, <1>7, <1>9 DEF Aged
  <2>2. e.age[p] = (d.age[p] + 1) % (UINT_MAX + 1)
    BY <1>2, <1>5, <1>6, <1>9
  <2>3. ASSUME NEW a \in 0..UINT_MAX PROVE (a + 1) % (UINT_MAX + 1) <= a + 1
    <3>1. CASE a = UINT_MAX
      BY <3>1, DummyRqAssumption
    <3>2. CASE a # UINT_MAX
      <4>1. a + 1 \in 0..UINT_MAX
        BY <3>2, DummyRqAssumption
      <4> QED BY <4>1, DummyRqAssumption
    <3> QED BY <3>1, <3>2
  <2>4. e.age[p] <= d.age[p] + 1
    BY <1>7, <2>2, <2>3
  <2>5. e.age[p] \in 0..UINT_MAX
    BY <1>1, <1>6 DEF DummyOK, DummyRqs
  <2>6. e.age[p] <= threshold + 1
    BY <1>7, <2>1, <2>4, <2>5, DummyRqAssumption
  <2> QED BY <2>6 DEF e
<1> QED BY <1>8, <1>9

\* The whole tick: only the running task p may lose its place, and whoever waits
\* has counted at most one tick past the threshold.
LEMMA TaskTickMoves ==
  ASSUME NEW d, NEW S, NEW pr, DummyOK(d, S, pr), NEW p \in Tasks,
         NEW timeslice, NEW threshold \in 0..UINT_MAX, NEW e,
         e = task_tick_dummy(d, p, pr[p], timeslice, threshold)
  PROVE  MovedUp(d, e, {p}) /\ AgesUpTo(e, threshold + 1)
<1> DEFINE a == age_tasks(d, threshold)
           b == requeue_task_dummy(a, p, pr[p])
           f == IF SliceOver(a, timeslice) THEN b ELSE a
<1>1. DummyOK(a, S, pr) /\ MovedUp(d, a, {})
  BY AgeTasksDummyOK, Zenon
<1>2. \A q \in Waiting(a) : a.age[q] <= threshold + 1
  BY AgeTasksAges, Zenon
<1>3. e = IF SliceOver(a, timeslice) THEN [b EXCEPT !.slice = 0]
          ELSE [a EXCEPT !.slice = @ + 1]
  BY DEF task_tick_dummy
<1>4. b = [queues |-> b.queues, age |-> b.age, slice |-> b.slice]
  BY DEF requeue_task_dummy, enqueue_task_dummy
<1>5. a = [queues |-> a.queues, age |-> a.age, slice |-> a.slice]
  BY DEF age_tasks
<1>6. Undisturbed(a, b, {p})
  <2> HIDE DEF a
  <2> QED BY <1>1, RequeueUndisturbed, Zenon
<1> HIDE DEF a, b
<1>7. e.queues = f.queues /\ e.age = f.age
  BY <1>3, <1>4, <1>5
<1>8. Undisturbed(a, f, {p})
  <2>1. Undisturbed(a, a, {p})
    BY UndisturbedLists
  <2> QED BY <1>6, <2>1
<1> HIDE DEF f
<1>9. ASSUME NEW i \in Levels, NEW j \in Levels,
             NEW q \in (Range(d.queues[i]) \cap Range(e.queues[j])) \ {p}
      PROVE  /\ j \in {i, i - 1}
             /\ j = i => \A x \in Tasks : Ahead(e.queues[i], x, q)
                                          => Ahead(d.queues[i], x, q)
  <2>1. /\ q \in Range(a.queues[j])
        /\ \A x \in Tasks : Ahead(e.queues[j], x, q) => Ahead(a.queues[j], x, q)
    BY <1>7, <1>8, <1>9, Zenon DEF Undisturbed
  <2>2. q \in Range(d.queues[i]) \cap Range(a.queues[j])
    BY <1>9, <2>1
  <2>3. /\ j \in {i, i - 1}
        /\ j = i => \A x \in Tasks : Ahead(a.queues[i], x, q) => Ahead(d.queues[i], x, q)
    BY <1>1, <2>2 DEF MovedUp
  <2> QED BY <2>1, <2>3, Zenon
<1>10. ASSUME NEW q \in Waiting(e) PROVE e.age[q] <= threshold + 1
  <2>1. q \in Waiting(f)
    BY <1>7, <1>10, Zenon DEF Waiting
  <2>2. e.age[q] = 0 \/ (q \in Waiting(a) /\ e.age[q] = a.age[q])
    BY <1>7, <1>8, <2>1, Zenon DEF Undisturbed
  <2>3. 0 <= threshold + 1
    OBVIOUS
  <2> QED BY <1>2, <2>2, <2>3, Zenon
<1> QED BY <1>9, <1>10, Zenon DEF MovedUp, AgesUpTo

-----------------------------------------------------------------------------
(* The run queue of a CPU.                                                 *)

Of(S, cl, c) == {p \in S : cl[p] = c}

RqOK(r, S, cl, pr) ==
    /\ r \in RunQueues
    /\ S \subseteq Tasks
    /\ \A p \in S : cl[p] \in {"rt", "fair", "dummy"}
    /\ DummyOK(r.dummy, Of(S, cl, "dummy"), pr)
    /\ r.cfs.on = Of(S, cl, "fair")
    /\ r.cfs.tree \subseteq r.cfs.on
    /\ r.cfs.curr \notin r.cfs.tree
    /\ r.rt = Of(S, cl, "rt")
    /\ r.nr = Cardinality(S)

CfsRqs == [on : SUBSET Tasks, tree : SUBSET Tasks, curr : Tasks \cup {None}]

\* Replacing one queue and the counter, and two fields of a cfs_rq.
LEMMA RqDummyUpdate ==
  ASSUME NEW r \in RunQueues, NEW v, NEW n
  PROVE  [r EXCEPT !.dummy = v, !.nr = n] = [dummy |-> v, cfs |-> r.cfs, rt |-> r.rt, nr |-> n]
<1> DEFINE a == [r EXCEPT !.dummy = v]
<1>1. a = [dummy |-> v, cfs |-> r.cfs, rt |-> r.rt, nr |-> r.nr]
  BY DEF RunQueues
<1> HIDE DEF a
<1>2. [a EXCEPT !.nr = n] = [dummy |-> v, cfs |-> r.cfs, rt |-> r.rt, nr |-> n]
  BY <1>1
<1> QED BY <1>2 DEF a

LEMMA RqCfsUpdate ==
  ASSUME NEW r \in RunQueues, NEW v, NEW n
  PROVE  [r EXCEPT !.cfs = v, !.nr = n] = [dummy |-> r.dummy, cfs |-> v, rt |-> r.rt, nr |-> n]
<1> DEFINE a == [r EXCEPT !.cfs = v]
<1>1. a = [dummy |-> r.dummy, cfs |-> v, rt |-> r.rt, nr |-> r.nr]
  BY DEF RunQueues
<1> HIDE DEF a
<1>2. [a EXCEPT !.nr = n] = [dummy |-> r.dummy, cfs |-> v, rt |-> r.rt, nr |-> n]
  BY <1>1
<1> QED BY <1>2 DEF a

LEMMA RqRtUpdate ==
  ASSUME NEW r \in RunQueues, NEW v, NEW n
  PROVE  [r EXCEPT !.rt = v, !.nr = n] = [dummy |-> r.dummy, cfs |-> r.cfs, rt |-> v, nr |-> n]
<1> DEFINE a == [r EXCEPT !.rt = v]
<1>1. a = [dummy |-> r.dummy, cfs |-> r.cfs, rt |-> v, nr |-> r.nr]
  BY DEF RunQueues
<1> HIDE DEF a
<1>2. [a EXCEPT !.nr = n] = [dummy |-> r.dummy, cfs |-> r.cfs, rt |-> v, nr |-> n]
  BY <1>1
<1> QED BY <1>2 DEF a

LEMMA CfsTreeUpdate ==
  ASSUME NEW c \in CfsRqs, NEW v, NEW w
  PROVE  [c EXCEPT !.on = v, !.tree = w] = [on |-> v, tree |-> w, curr |-> c.curr]
<1> DEFINE a == [c EXCEPT !.on = v]
<1>1. a = [on |-> v, tree |-> c.tree, curr |-> c.curr]
  BY DEF CfsRqs
<1> HIDE DEF a
<1>2. [a EXCEPT !.tree = w] = [on |-> v, tree |-> w, curr |-> c.curr]
  BY <1>1
<1> QED BY <1>2 DEF a

LEMMA CfsCurrUpdate ==
  ASSUME NEW c \in CfsRqs, NEW v, NEW w
  PROVE  [c EXCEPT !.tree = v, !.curr = w] = [on |-> c.on, tree |-> v, curr |-> w]
<1> DEFINE a == [c EXCEPT !.tree = v]
<1>1. a = [on |-> c.on, tree |-> v, curr |-> c.curr]
  BY DEF CfsRqs
<1> HIDE DEF a
<1>2. [a EXCEPT !.curr = w] = [on |-> c.on, tree |-> v, curr |-> w]
  BY <1>1
<1> QED BY <1>2 DEF a

LEMMA InitRqOK ==
  ASSUME NEW cl, NEW pr
  PROVE  RqOK(init_rq, {}, cl, pr)
<1>1. DummyOK(init_dummy_rq, {}, pr)
  BY InitDummyOK
<1>2. init_dummy_rq \in DummyRqs
  BY <1>1 DEF DummyOK
<1>3. Cardinality({}) = 0
  BY FS_EmptySet
<1>4. /\ init_rq.dummy = init_dummy_rq /\ init_rq.rt = {} /\ init_rq.nr = 0
      /\ init_rq.cfs = [on |-> {}, tree |-> {}, curr |-> None]
  BY DEF init_rq, init_cfs_rq
<1>5. init_rq \in RunQueues
  BY <1>2 DEF init_rq, init_cfs_rq, RunQueues
<1>6. \A c : Of({}, cl, c) = {}
  BY DEF Of
<1> QED BY <1>1, <1>3, <1>4, <1>5, <1>6 DEF RqOK

\* Classes and priorities matter for the queued tasks only.
LEMMA RestRqOK ==
  ASSUME NEW r, NEW S, NEW cl, NEW pr, RqOK(r, S, cl, pr), NEW cl2, NEW pr2,
         \A p \in S : cl2[p] = cl[p] /\ pr2[p] = pr[p]
  PROVE  RqOK(r, S, cl2, pr2)
<1>1. \A c : Of(S, cl2, c) = Of(S, cl, c)
  BY DEF Of
<1>2. DummyOK(r.dummy, Of(S, cl, "dummy"), pr2)
  <2>1. DummyOK(r.dummy, Of(S, cl, "dummy"), pr)
    BY DEF RqOK
  <2>2. \A p \in Of(S, cl, "dummy") : pr2[p] = pr[p]
    BY DEF Of
  <2> QED BY <2>1, <2>2, PrioDummyOK
<1> QED BY <1>1, <1>2 DEF RqOK

LEMMA EnqueueRqOK ==
  ASSUME NEW r, NEW S, NEW cl, NEW pr, RqOK(r, S, cl, pr),
         NEW p \in Tasks, p \notin S,
         cl[p] \in {"rt", "fair", "dummy"}, CanEnqueue(cl[p], pr[p])
  PROVE  RqOK(enqueue_task(r, p, cl[p], pr[p]), S \cup {p}, cl, pr)
<1> DEFINE e == enqueue_task(r, p, cl[p], pr[p])
<1>1. /\ r \in RunQueues /\ S \subseteq Tasks /\ IsFiniteSet(S)
      /\ DummyOK(r.dummy, Of(S, cl, "dummy"), pr)
  BY FS_Subset, RunQueueAssumption DEF RqOK
<1>2. /\ Cardinality(S \cup {p}) = Cardinality(S) + 1
      /\ Cardinality(S) \in Nat
  BY <1>1, FS_AddElement, FS_CardinalityType
<1>3. \A c : Of(S \cup {p}, cl, c) =
               IF c = cl[p] THEN Of(S, cl, c) \cup {p} ELSE Of(S, cl, c)
  BY DEF Of
<1>4. CASE cl[p] = "dummy"
  <2>1. DummyOK(enqueue_task_dummy(r.dummy, p, pr[p]), Of(S, cl, "dummy") \cup {p}, pr)
    <3>1. p \notin Of(S, cl, "dummy") /\ Level(pr[p]) \in Levels
      BY <1>4 DEF Of, CanEnqueue
    <3> QED BY <1>1, <3>1, EnqueueDummyOK
  <2>2. enqueue_task_dummy(r.dummy, p, pr[p]) \in DummyRqs
    BY <2>1 DEF DummyOK
  <2>3. e = [dummy |-> enqueue_task_dummy(r.dummy, p, pr[p]), cfs |-> r.cfs,
             rt |-> r.rt, nr |-> r.nr + 1]
    <3>1. e = [r EXCEPT !.dummy = enqueue_task_dummy(@, p, pr[p]), !.nr = @ + 1]
      BY <1>4 DEF enqueue_task
    <3> QED BY <1>1, <3>1, RqDummyUpdate, Zenon
  <2> HIDE DEF e
  <2>4. /\ e \in RunQueues
        /\ e.dummy = enqueue_task_dummy(r.dummy, p, pr[p])
        /\ e.cfs = r.cfs /\ e.rt = r.rt /\ e.nr = r.nr + 1
    BY <1>1, <2>2, <2>3 DEF RunQueues
  <2>5. RqOK(e, S \cup {p}, cl, pr)
    <3>1. /\ Of(S \cup {p}, cl, "dummy") = Of(S, cl, "dummy") \cup {p}
          /\ Of(S \cup {p}, cl, "fair") = Of(S, cl, "fair")
          /\ Of(S \cup {p}, cl, "rt") = Of(S, cl, "rt")
      BY <1>3, <1>4, Zenon
    <3> QED BY <1>2, <1>4, <3>1, <2>1, <2>4, Zenon DEF RqOK
  <2> QED BY <2>5 DEF e
<1>5. CASE cl[p] = "fair"
  <2> DEFINE c == enqueue_task_fair(r.cfs, p)
  <2>1. e = [dummy |-> r.dummy, cfs |-> c, rt |-> r.rt, nr |-> r.nr + 1]
    <3>1. e = [r EXCEPT !.cfs = enqueue_task_fair(@, p), !.nr = @ + 1]
      BY <1>5 DEF enqueue_task
    <3> QED BY <1>1, <3>1, RqCfsUpdate, Zenon
  <2>2. c = [on |-> r.cfs.on \cup {p},
             tree |-> IF p = r.cfs.curr THEN r.cfs.tree ELSE r.cfs.tree \cup {p},
             curr |-> r.cfs.curr]
    <3>1. r.cfs \in CfsRqs
      BY <1>1 DEF RunQueues, CfsRqs
    <3> DEFINE in == r.cfs.on \cup {p}
               tr == IF p = r.cfs.curr THEN r.cfs.tree ELSE r.cfs.tree \cup {p}
               cf == r.cfs
    <3>2. c = [cf EXCEPT !.on = in, !.tree = tr]
      BY DEF enqueue_task_fair
    <3> HIDE DEF c, in, tr
    <3>3. c = [on |-> in, tree |-> tr, curr |-> cf.curr]
      <4> HIDE DEF cf
      <4>1. cf \in CfsRqs
        BY <3>1 DEF cf
      <4> QED BY <3>2, <4>1, CfsTreeUpdate, Zenon
    <3> QED BY <3>3 DEF in, tr
  <2> HIDE DEF c
  <2> HIDE DEF e
  <2>3. /\ e \in RunQueues
        /\ e.cfs = c
        /\ e.dummy = r.dummy /\ e.rt = r.rt /\ e.nr = r.nr + 1
    BY <1>1, <2>1, <2>2 DEF RunQueues
  <2>4. /\ c.tree \subseteq c.on
        /\ c.curr \notin c.tree
        /\ c.on = Of(S \cup {p}, cl, "fair")
    <3>1. r.cfs.tree \subseteq r.cfs.on /\ r.cfs.curr \notin r.cfs.tree
      BY DEF RqOK
    <3>2. r.cfs.on = Of(S, cl, "fair")
      BY DEF RqOK
    <3> QED BY <1>3, <1>5, <2>2, <3>1, <3>2
  <2>5. RqOK(e, S \cup {p}, cl, pr)
    <3>1. /\ Of(S \cup {p}, cl, "dummy") = Of(S, cl, "dummy")
          /\ Of(S \cup {p}, cl, "fair") = Of(S, cl, "fair") \cup {p}
          /\ Of(S \cup {p}, cl, "rt") = Of(S, cl, "rt")
      BY <1>3, <1>5, Zenon
    <3> QED BY <1>2, <1>5, <3>1, <2>3, <2>4, Zenon DEF RqOK
  <2> QED BY <2>5 DEF e
<1>6. CASE cl[p] = "rt"
  <2>1. e = [dummy |-> r.dummy, cfs |-> r.cfs, rt |-> r.rt \cup {p}, nr |-> r.nr + 1]
    <3>1. e = [r EXCEPT !.rt = @ \cup {p}, !.nr = @ + 1]
      BY <1>6 DEF enqueue_task
    <3> QED BY <1>1, <3>1, RqRtUpdate, Zenon
  <2> HIDE DEF e
  <2>2. /\ e \in RunQueues
        /\ e.rt = r.rt \cup {p}
        /\ e.dummy = r.dummy /\ e.cfs = r.cfs /\ e.nr = r.nr + 1
    BY <1>1, <2>1 DEF RunQueues
  <2>3. RqOK(e, S \cup {p}, cl, pr)
    <3>1. /\ Of(S \cup {p}, cl, "dummy") = Of(S, cl, "dummy")
          /\ Of(S \cup {p}, cl, "fair") = Of(S, cl, "fair")
          /\ Of(S \cup {p}, cl, "rt") = Of(S, cl, "rt") \cup {p}
      BY <1>3, <1>6, Zenon
    <3> QED BY <1>2, <1>6, <3>1, <2>2, Zenon DEF RqOK
  <2> QED BY <2>3 DEF e
<1> QED BY <1>4, <1>5, <1>6

LEMMA DequeueRqOK ==
  ASSUME NEW r, NEW S, NEW cl, NEW pr, RqOK(r, S, cl, pr), NEW p \in S
  PROVE  RqOK(dequeue_task(r, p, cl[p]), S \ {p}, cl, pr)
<1> DEFINE e == dequeue_task(r, p, cl[p])
<1>1. /\ r \in RunQueues /\ S \subseteq Tasks /\ IsFiniteSet(S)
      /\ DummyOK(r.dummy, Of(S, cl, "dummy"), pr)
      /\ cl[p] \in {"rt", "fair", "dummy"}
  BY FS_Subset, RunQueueAssumption DEF RqOK
<1>2. /\ Cardinality(S \ {p}) = Cardinality(S) - 1
      /\ Cardinality(S \ {p}) \in Nat /\ Cardinality(S) \in Nat
  BY <1>1, FS_RemoveElement, FS_CardinalityType
<1>3. \A c : Of(S \ {p}, cl, c) =
               IF c = cl[p] THEN Of(S, cl, c) \ {p} ELSE Of(S, cl, c)
  BY DEF Of
<1>n. r.nr - 1 = Cardinality(S \ {p}) /\ r.nr - 1 \in Nat
  BY <1>2 DEF RqOK
<1>4. CASE cl[p] = "dummy"
  <2>1. DummyOK(dequeue_task_dummy(r.dummy, p), Of(S, cl, "dummy") \ {p}, pr)
    BY <1>1, DequeueDummyOK
  <2>2. dequeue_task_dummy(r.dummy, p) \in DummyRqs
    BY <2>1 DEF DummyOK
  <2>3. e = [dummy |-> dequeue_task_dummy(r.dummy, p), cfs |-> r.cfs,
             rt |-> r.rt, nr |-> r.nr - 1]
    <3>1. e = [r EXCEPT !.dummy = dequeue_task_dummy(@, p), !.nr = @ - 1]
      BY <1>4 DEF dequeue_task
    <3> QED BY <1>1, <3>1, RqDummyUpdate, Zenon
  <2> HIDE DEF e
  <2>4. /\ e \in RunQueues
        /\ e.dummy = dequeue_task_dummy(r.dummy, p)
        /\ e.cfs = r.cfs /\ e.rt = r.rt /\ e.nr = r.nr - 1
    BY <1>1, <1>n, <2>2, <2>3 DEF RunQueues
  <2>5. RqOK(e, S \ {p}, cl, pr)
    <3>1. /\ Of(S \ {p}, cl, "dummy") = Of(S, cl, "dummy") \ {p}
          /\ Of(S \ {p}, cl, "fair") = Of(S, cl, "fair")
          /\ Of(S \ {p}, cl, "rt") = Of(S, cl, "rt")
      BY <1>3, <1>4, Zenon
    <3> QED BY <1>n, <1>4, <3>1, <2>1, <2>4, Zenon DEF RqOK
  <2> QED BY <2>5 DEF e
<1>5. CASE cl[p] = "fair"
  <2> DEFINE c == dequeue_task_fair(r.cfs, p)
  <2>1. e = [dummy |-> r.dummy, cfs |-> c, rt |-> r.rt, nr |-> r.nr - 1]
    <3>1. e = [r EXCEPT !.cfs = dequeue_task_fair(@, p), !.nr = @ - 1]
      BY <1>5 DEF dequeue_task
    <3> QED BY <1>1, <3>1, RqCfsUpdate, Zenon
  <2>2. c = [on |-> r.cfs.on \ {p},
             tree |-> IF p = r.cfs.curr THEN r.cfs.tree ELSE r.cfs.tree \ {p},
             curr |-> r.cfs.curr]
    <3>1. r.cfs \in CfsRqs
      BY <1>1 DEF RunQueues, CfsRqs
    <3> DEFINE out == r.cfs.on \ {p}
               tr == IF p = r.cfs.curr THEN r.cfs.tree ELSE r.cfs.tree \ {p}
               cf == r.cfs
    <3>2. c = [cf EXCEPT !.on = out, !.tree = tr]
      BY DEF dequeue_task_fair
    <3> HIDE DEF c, out, tr
    <3>3. c = [on |-> out, tree |-> tr, curr |-> cf.curr]
      <4> HIDE DEF cf
      <4>1. cf \in CfsRqs
        BY <3>1 DEF cf
      <4> QED BY <3>2, <4>1, CfsTreeUpdate, Zenon
    <3> QED BY <3>3 DEF out, tr
  <2> HIDE DEF c
  <2> HIDE DEF e
  <2>3. /\ e \in RunQueues
        /\ e.cfs = c
        /\ e.dummy = r.dummy /\ e.rt = r.rt /\ e.nr = r.nr - 1
    BY <1>1, <1>n, <2>1, <2>2 DEF RunQueues
  <2>4. /\ c.tree \subseteq c.on
        /\ c.curr \notin c.tree
        /\ c.on = Of(S \ {p}, cl, "fair")
    <3>1. r.cfs.tree \subseteq r.cfs.on /\ r.cfs.curr \notin r.cfs.tree
      BY DEF RqOK
    <3>2. r.cfs.on = Of(S, cl, "fair")
      BY DEF RqOK
    <3> QED BY <1>3, <1>5, <2>2, <3>1, <3>2
  <2>5. RqOK(e, S \ {p}, cl, pr)
    <3>1. /\ Of(S \ {p}, cl, "dummy") = Of(S, cl, "dummy")
          /\ Of(S \ {p}, cl, "fair") = Of(S, cl, "fair") \ {p}
          /\ Of(S \ {p}, cl, "rt") = Of(S, cl, "rt")
      BY <1>3, <1>5, Zenon
    <3> QED BY <1>n, <1>5, <3>1, <2>3, <2>4, Zenon DEF RqOK
  <2> QED BY <2>5 DEF e
<1>6. CASE cl[p] = "rt"
  <2>1. e = [dummy |-> r.dummy, cfs |-> r.cfs, rt |-> r.rt \ {p}, nr |-> r.nr - 1]
    <3>1. e = [r EXCEPT !.rt = @ \ {p}, !.nr = @ - 1]
      BY <1>6 DEF dequeue_task
    <3> QED BY <1>1, <3>1, RqRtUpdate, Zenon
  <2> HIDE DEF e
  <2>2. /\ e \in RunQueues
        /\ e.rt = r.rt \ {p}
        /\ e.dummy = r.dummy /\ e.cfs = r.cfs /\ e.nr = r.nr - 1
    BY <1>1, <1>n, <2>1 DEF RunQueues
  <2>3. RqOK(e, S \ {p}, cl, pr)
    <3>1. /\ Of(S \ {p}, cl, "dummy") = Of(S, cl, "dummy")
          /\ Of(S \ {p}, cl, "fair") = Of(S, cl, "fair")
          /\ Of(S \ {p}, cl, "rt") = Of(S, cl, "rt") \ {p}
      BY <1>3, <1>6, Zenon
    <3> QED BY <1>n, <1>6, <3>1, <2>2, Zenon DEF RqOK
  <2> QED BY <2>3 DEF e
<1> QED BY <1>1, <1>4, <1>5, <1>6

\* A change of the fair queue that only moves tasks between tree and curr.
LEMMA CfsMoveRqOK ==
  ASSUME NEW r, NEW S, NEW cl, NEW pr, RqOK(r, S, cl, pr), NEW c \in CfsRqs,
         c.on = r.cfs.on, c.tree \subseteq c.on, c.curr \notin c.tree
  PROVE  RqOK([r EXCEPT !.cfs = c], S, cl, pr)
<1> DEFINE e == [r EXCEPT !.cfs = c]
<1>1. r \in RunQueues
  BY DEF RqOK
<1>2. /\ e \in RunQueues /\ e.cfs = c
      /\ e.dummy = r.dummy /\ e.rt = r.rt /\ e.nr = r.nr
  BY <1>1 DEF RunQueues, CfsRqs
<1> HIDE DEF e
<1>3. RqOK(e, S, cl, pr)
  BY <1>2 DEF RqOK
<1> QED BY <1>3 DEF e

\* ... and one of the lists of the dummy class.
LEMMA DummyMoveRqOK ==
  ASSUME NEW r, NEW S, NEW cl, NEW pr, RqOK(r, S, cl, pr), NEW d,
         DummyOK(d, Of(S, cl, "dummy"), pr)
  PROVE  RqOK([r EXCEPT !.dummy = d], S, cl, pr)
<1> DEFINE e == [r EXCEPT !.dummy = d]
<1>1. r \in RunQueues /\ d \in DummyRqs
  BY DEF RqOK, DummyOK
<1>2. /\ e \in RunQueues /\ e.dummy = d
      /\ e.cfs = r.cfs /\ e.rt = r.rt /\ e.nr = r.nr
  BY <1>1 DEF RunQueues
<1> HIDE DEF e
<1>3. RqOK(e, S, cl, pr)
  BY <1>2 DEF RqOK
<1> QED BY <1>3 DEF e

LEMMA PutPrevRqOK ==
  ASSUME NEW r, NEW S, NEW cl, NEW pr, RqOK(r, S, cl, pr), NEW p, NEW class
  PROVE  RqOK(put_prev_task(r, p, class), S, cl, pr)
<1> DEFINE c == put_prev_task_fair(r.cfs, p)
<1>1. r.cfs \in CfsRqs /\ r.cfs.tree \subseteq r.cfs.on
  BY DEF RqOK, RunQueues, CfsRqs
<1>2. c = [on |-> r.cfs.on,
           tree |-> IF p \in r.cfs.on THEN r.cfs.tree \cup {p} ELSE r.cfs.tree,
           curr |-> None]
  <2> DEFINE tr == IF p \in r.cfs.on THEN r.cfs.tree \cup {p} ELSE r.cfs.tree
             cf == r.cfs
  <2>1. c = [cf EXCEPT !.tree = tr, !.curr = None]
    BY DEF put_prev_task_fair
  <2> HIDE DEF c, tr
  <2>2. c = [on |-> cf.on, tree |-> tr, curr |-> None]
    <3> HIDE DEF cf
    <3>1. cf \in CfsRqs
      BY <1>1 DEF cf
    <3> QED BY <2>1, <3>1, CfsCurrUpdate, Zenon
  <2> QED BY <2>2 DEF tr
<1>3. put_prev_task(r, p, class) = IF class = "fair" THEN [r EXCEPT !.cfs = c] ELSE r
  BY DEF put_prev_task
<1> HIDE DEF c
<1>4. c \in CfsRqs /\ c.on = r.cfs.on /\ c.tree \subseteq c.on /\ c.curr \notin c.tree
  BY <1>1, <1>2, RunQueueAssumption DEF CfsRqs
<1>5. RqOK([r EXCEPT !.cfs = c], S, cl, pr)
  BY <1>4, CfsMoveRqOK
<1> QED BY <1>3, <1>5

LEMMA SetNextCfs ==
  ASSUME NEW r, NEW S, NEW cl, NEW pr, RqOK(r, S, cl, pr), NEW p \in Tasks
  PROVE  RqOK([r EXCEPT !.cfs = set_next_entity(@, p)], S, cl, pr)
<1> DEFINE c == set_next_entity(r.cfs, p)
<1>1. r.cfs \in CfsRqs /\ r.cfs.tree \subseteq r.cfs.on
  BY DEF RqOK, RunQueues, CfsRqs
<1>2. c = [on |-> r.cfs.on,
           tree |-> IF p \in r.cfs.on THEN r.cfs.tree \ {p} ELSE r.cfs.tree,
           curr |-> p]
  <2> DEFINE tr == IF p \in r.cfs.on THEN r.cfs.tree \ {p} ELSE r.cfs.tree
             cf == r.cfs
  <2>1. c = [cf EXCEPT !.tree = tr, !.curr = p]
    BY DEF set_next_entity
  <2> HIDE DEF c, tr
  <2>2. c = [on |-> cf.on, tree |-> tr, curr |-> p]
    <3> HIDE DEF cf
    <3>1. cf \in CfsRqs
      BY <1>1 DEF cf
    <3> QED BY <2>1, <3>1, CfsCurrUpdate, Zenon
  <2> QED BY <2>2 DEF tr
<1> HIDE DEF c
<1>4. c \in CfsRqs /\ c.on = r.cfs.on /\ c.tree \subseteq c.on /\ c.curr \notin c.tree
  BY <1>1, <1>2 DEF CfsRqs
<1>5. RqOK([r EXCEPT !.cfs = c], S, cl, pr)
  BY <1>4, CfsMoveRqOK
<1> QED BY <1>5 DEF c

LEMMA SetCurrRqOK ==
  ASSUME NEW r, NEW S, NEW cl, NEW pr, RqOK(r, S, cl, pr), NEW p \in Tasks, NEW class
  PROVE  RqOK(set_curr_task(r, p, class), S, cl, pr)
BY SetNextCfs DEF set_curr_task

\* Whatever pick_next_task returns is queued, and nothing queued is of a better
\* class; the idle task is returned only when nothing is queued.
LEMMA PickRqOK ==
  ASSUME NEW r, NEW S, NEW cl, NEW pr, RqOK(r, S, cl, pr), cl[Idle] = "idle",
         NEW next \in Candidates(r, pr)
  PROVE  /\ next \in S \cup {Idle}
         /\ \A q \in S : ~Outranks(cl[q], cl[next])
         /\ RqOK(pick_next_task(r, next), S, cl, pr)
<1>1. /\ r \in RunQueues /\ S \subseteq Tasks
      /\ DummyOK(r.dummy, Of(S, cl, "dummy"), pr)
      /\ \A q \in S : cl[q] \in {"rt", "fair", "dummy"}
      /\ r.rt = Of(S, cl, "rt") /\ r.cfs.on = Of(S, cl, "fair")
      /\ r.cfs.tree \subseteq r.cfs.on
  BY DEF RqOK
<1>2. Linked(r.dummy) = Of(S, cl, "dummy")
  BY <1>1, LinkedIsS
<1>3. CASE PickClass(r) = "rt"
  <2>1. next \in S /\ cl[next] = "rt"
    BY <1>1, <1>3 DEF Candidates, Of
  <2>2. \A q \in S : ~Outranks(cl[q], cl[next])
    BY <1>1, <2>1 DEF Outranks, ClassRank
  <2>3. pick_next_task(r, next) = r
    BY <1>3 DEF pick_next_task
  <2> QED BY <2>1, <2>2, <2>3
<1>4. CASE PickClass(r) = "fair"
  <2>1. next \in S /\ cl[next] = "fair"
    BY <1>1, <1>4 DEF Candidates, Of
  <2>2. \A q \in S : cl[q] # "rt"
    BY <1>1, <1>4 DEF PickClass, Of
  <2>3. \A q \in S : ~Outranks(cl[q], cl[next])
    BY <1>1, <2>1, <2>2 DEF Outranks, ClassRank
  <2>4. pick_next_task(r, next) = [r EXCEPT !.cfs = set_next_entity(@, next)]
    BY <1>4 DEF pick_next_task
  <2>5. RqOK([r EXCEPT !.cfs = set_next_entity(@, next)], S, cl, pr)
    BY <1>1, <2>1, SetNextCfs
  <2> QED BY <2>1, <2>3, <2>4, <2>5
<1>5. CASE PickClass(r) = "dummy"
  <2>1. Of(S, cl, "dummy") # {} /\ r.rt = {} /\ r.cfs.on = {}
    BY <1>2, <1>5 DEF PickClass
  <2>2. next = pick_next_task_dummy(r.dummy)
    BY <1>5 DEF Candidates
  <2>3. next \in Of(S, cl, "dummy")
    BY <1>1, <2>1, <2>2, PickDummyOK
  <2>4. next \in S /\ cl[next] = "dummy"
    BY <2>3 DEF Of
  <2>5. \A q \in S : cl[q] = "dummy"
    BY <1>1, <2>1 DEF Of
  <2>6. \A q \in S : ~Outranks(cl[q], cl[next])
    BY <2>4, <2>5 DEF Outranks, ClassRank
  <2>7. pick_next_task(r, next) = [r EXCEPT !.dummy = set_next_dummy(@, next)]
    BY <1>5 DEF pick_next_task
  <2>8. RqOK([r EXCEPT !.dummy = set_next_dummy(@, next)], S, cl, pr)
    BY <1>1, SetNextDummyOK, DummyMoveRqOK
  <2> QED BY <2>4, <2>6, <2>7, <2>8
<1>6. CASE PickClass(r) = "idle"
  <2>1. Of(S, cl, "dummy") = {} /\ r.rt = {} /\ r.cfs.on = {}
    BY <1>2, <1>6 DEF PickClass
  <2>2. S = {}
    BY <1>1, <2>1 DEF Of
  <2>3. next = Idle
    BY <1>6 DEF Candidates
  <2>4. pick_next_task(r, next) = r
    BY <1>6 DEF pick_next_task
  <2> QED BY <2>2, <2>3, <2>4
<1> QED BY <1>3, <1>4, <1>5, <1>6 DEF PickClass

\* The two operations on the lists that core.c calls for a running dummy task.
LEMMA RunningDummyRqOK ==
  ASSUME NEW r, NEW S, NEW cl, NEW pr, RqOK(r, S, cl, pr),
         NEW p \in S, cl[p] = "dummy",
         NEW timeslice \in 0..UINT_MAX, NEW threshold
  PROVE  /\ RqOK([r EXCEPT !.dummy = requeue_task_dummy(@, p, pr[p])], S, cl, pr)
         /\ RqOK([r EXCEPT !.dummy = task_tick_dummy(@, p, pr[p], timeslice, threshold)],
                 S, cl, pr)
<1>1. /\ DummyOK(r.dummy, Of(S, cl, "dummy"), pr)
      /\ p \in Of(S, cl, "dummy") /\ p \in Tasks
  BY DEF RqOK, Of
<1>2. Level(pr[p]) \in Levels
  <2>1. PICK i \in Levels : p \in Range(r.dummy.queues[i])
    BY <1>1 DEF DummyOK
  <2> QED BY <1>1, <2>1 DEF DummyOK
<1>3. DummyOK(requeue_task_dummy(r.dummy, p, pr[p]), Of(S, cl, "dummy"), pr)
  BY <1>1, <1>2, RequeueDummyOK
<1>4. DummyOK(task_tick_dummy(r.dummy, p, pr[p], timeslice, threshold),
              Of(S, cl, "dummy"), pr)
  BY <1>1, <1>2, TaskTickDummyOK
<1> QED BY <1>3, <1>4, DummyMoveRqOK

-----------------------------------------------------------------------------
(* What the operations of the run queue do to the lists of the dummy class.*)

LEMMA EnqueueLists ==
  ASSUME NEW r \in RunQueues, NEW p \in Tasks, NEW class \in {"rt", "fair", "dummy"},
         NEW prio
  PROVE  Undisturbed(r.dummy, enqueue_task(r, p, class, prio).dummy, {p})
<1> DEFINE e == enqueue_task(r, p, class, prio)
<1>1. CASE class = "dummy"
  <2>1. e = [r EXCEPT !.dummy = enqueue_task_dummy(r.dummy, p, prio), !.nr = r.nr + 1]
    BY <1>1 DEF enqueue_task
  <2>2. e = [dummy |-> enqueue_task_dummy(r.dummy, p, prio), cfs |-> r.cfs,
             rt |-> r.rt, nr |-> r.nr + 1]
    BY <2>1, RqDummyUpdate, Zenon
  <2>3. e.dummy = enqueue_task_dummy(r.dummy, p, prio)
    BY <2>2
  <2>4. r.dummy \in DummyRqs
    BY DEF RunQueues
  <2> QED BY <2>3, <2>4, EnqueueUndisturbed, Zenon
<1>2. CASE class # "dummy"
  <2>1. e.dummy = r.dummy
    BY <1>2 DEF enqueue_task, RunQueues
  <2> QED BY <2>1, UndisturbedLists, Zenon
<1> QED BY <1>1, <1>2

LEMMA DequeueLists ==
  ASSUME NEW r \in RunQueues, NEW p, NEW class \in {"rt", "fair", "dummy"}
  PROVE  Undisturbed(r.dummy, dequeue_task(r, p, class).dummy, {p})
<1> DEFINE e == dequeue_task(r, p, class)
<1>1. CASE class = "dummy"
  <2>1. e = [r EXCEPT !.dummy = dequeue_task_dummy(r.dummy, p), !.nr = r.nr - 1]
    BY <1>1 DEF dequeue_task
  <2>2. e = [dummy |-> dequeue_task_dummy(r.dummy, p), cfs |-> r.cfs,
             rt |-> r.rt, nr |-> r.nr - 1]
    BY <2>1, RqDummyUpdate, Zenon
  <2>3. e.dummy = dequeue_task_dummy(r.dummy, p)
    BY <2>2
  <2>4. r.dummy \in DummyRqs
    BY DEF RunQueues
  <2> QED BY <2>3, <2>4, DequeueUndisturbed, Zenon
<1>2. CASE class # "dummy"
  <2>1. e.dummy = r.dummy
    BY <1>2 DEF dequeue_task, RunQueues
  <2> QED BY <2>1, UndisturbedLists, Zenon
<1> QED BY <1>1, <1>2

\* put_prev_task, set_curr_task and pick_next_task link and unlink nothing.
LEMMA PutPrevLists ==
  ASSUME NEW r \in RunQueues, NEW p, NEW class
  PROVE  put_prev_task(r, p, class).dummy = r.dummy
BY DEF put_prev_task, RunQueues

LEMMA SetCurrLists ==
  ASSUME NEW r \in RunQueues, NEW p, NEW class
  PROVE  set_curr_task(r, p, class).dummy = r.dummy
BY DEF set_curr_task, RunQueues

LEMMA PickLists ==
  ASSUME NEW r \in RunQueues, NEW p, NEW X
  PROVE  Undisturbed(r.dummy, pick_next_task(r, p).dummy, X)
<1>1. pick_next_task(r, p).dummy \in {r.dummy, set_next_dummy(r.dummy, p)}
  BY DEF pick_next_task, RunQueues
<1>2. Undisturbed(r.dummy, r.dummy, X)
  BY UndisturbedLists, Zenon
<1>3. Undisturbed(r.dummy, set_next_dummy(r.dummy, p), X)
  <2>1. r.dummy \in DummyRqs
    BY DEF RunQueues
  <2> QED BY <2>1, SetNextUndisturbed, Zenon
<1> QED BY <1>1, <1>2, <1>3, Zenon

=============================================================================
