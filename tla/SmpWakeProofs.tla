---------------------------- MODULE SmpWakeProofs ----------------------------
(***************************************************************************)
(* Theorems about SmpWake, for any number of tasks, CPUs and callers of    *)
(* sched_setaffinity: a task is in one place, a wake-up that has begun     *)
(* reaches it, and every step is a step of TaskLife. The last lemmas the   *)
(* invariant needs, those of ttwu_queue, come first.                       *)
(***************************************************************************)
EXTENDS SmpWakeCpus, FiniteSetTheorems

-----------------------------------------------------------------------------
(***************************************************************************)
(* The end of a wake-up: ttwu_queue                                        *)
(***************************************************************************)

\* The task goes to the wake list of a CPU of another cache; the first one there sends the
\* interrupt.
LEMMA QueueRemoteInv ==
  ASSUME SwInv, NEW c \in SwCpus, NEW p \in SwTasks, cpu[c].p = p, NEW d \in SwCpus, task[p].cpu = d,
         ttwu_queue(c), Cache[c] # Cache[d]
  PROVE  SwInv' /\ Seen
<1>0. Basic
  BY Basics, Zenon
<1>a. /\ c \in online /\ cpu[c].pc = "queue" /\ d \in online
      /\ task[p].state = "waking" /\ \A e \in SwCpus : p \notin wakeList[e]
  BY <1>0, Zenon DEF SwInv, ttwu_queue, TtwuOK, Basic
<1>b. d # c /\ ~task[p].on_rq /\ \A e \in SwCpus \ {c} : cpu[e].pc \in Holding => cpu[e].p # p
  BY <1>a, Zenon DEF SwInv, TtwuOK, WakingOK, Holding
<1>c. /\ cpu' \in [SwCpus -> CpuFields]
      /\ \A e \in SwCpus \ {c, d} : cpu'[e] = cpu[e]
      /\ cpu'[c].pc = "run" /\ cpu'[c].p = "nobody" /\ RunKept(c) /\ cpu'[c].ipi = cpu[c].ipi
      /\ TtwuKept(d) /\ RunKept(d) /\ (cpu'[d].ipi <=> cpu[d].ipi \/ wakeList[d] = {})
  <2> DEFINE r == [cpu[c] EXCEPT !.pc = "run", !.p = Nobody]
             q == [cpu[d] EXCEPT !.ipi = @ \/ wakeList[d] = {}]
  <2>1. cpu' = [cpu EXCEPT ![c] = r, ![d] = q]
    BY Typed, Zenon DEF ttwu_queue, Done
  <2>2. cpu[c] \in CpuFields /\ cpu[d] \in CpuFields
    BY Typed, Zenon
  <2>3. /\ r \in CpuFields /\ r.pc = "run" /\ r.p = "nobody" /\ r.ipi = cpu[c].ipi
        /\ r.curr = cpu[c].curr /\ r.prev = cpu[c].prev /\ r.need = cpu[c].need
    BY <2>2, Zenon DEF CpuFields, Nobody
  <2>4. /\ q \in CpuFields /\ q.pc = cpu[d].pc /\ q.p = cpu[d].p
        /\ q.curr = cpu[d].curr /\ q.prev = cpu[d].prev /\ q.need = cpu[d].need
        /\ q.ipi <=> cpu[d].ipi \/ wakeList[d] = {}
    BY <2>2, Zenon DEF CpuFields
  <2> HIDE DEF r, q
  <2> QED BY <2>1, <2>3, <2>4, Typed, Zenon DEF RunKept, TtwuKept
<1>d. /\ wakeList' \in [SwCpus -> SUBSET SwTasks]
      /\ \A e \in SwCpus : wakeList'[e] = IF e = d THEN wakeList[d] \cup {p} ELSE wakeList[e]
  BY Typed DEF ttwu_queue
<1>e. UNCHANGED <<task, rq, setter, online, active, hot>>
  BY Zenon DEF ttwu_queue
<1>1. Types'
  BY <1>c, <1>d, <1>e, Zenon DEF SwInv, Types
<1>2. MasksOK'
  BY <1>a, <1>c, <1>d, <1>e DEF SwInv, MasksOK
<1>3. QueuedOnce'
  BY <1>0, <1>e, Zenon DEF SwInv, QueuedOnce, Basic
<1>4. OnCpuOK'
  BY <1>0, <1>a, <1>c, <1>e DEF SwInv, OnCpuOK, Holds, RunKept, TtwuKept, Basic
<1>5. TtwuOK'
  <2>1. \A e \in SwCpus : cpu'[e].pc \in {"run", "switch"} <=> cpu'[e].p = Nobody
    BY <1>c DEF SwInv, TtwuOK, Holding, Asleep, TtwuKept, Nobody
  <2>2. \A e \in SwCpus : cpu'[e].pc = "remote" => task'[cpu'[e].p].state # "waking"
    BY <1>c, <1>e DEF SwInv, TtwuOK, TtwuKept
  <2>3. \A e \in SwCpus : cpu'[e].pc = "on_cpu" =>
          ~task'[cpu'[e].p].on_rq /\ task'[cpu'[e].p].state \in Asleep
    BY <1>c, <1>e DEF SwInv, TtwuOK, TtwuKept
  <2>4. \A e \in SwCpus : cpu'[e].pc = "queue" =>
          /\ task'[cpu'[e].p].state = "waking" /\ task'[cpu'[e].p].cpu \in online'
          /\ \A f \in SwCpus : cpu'[e].p \notin wakeList'[f]
    BY <1>a, <1>c, <1>d, <1>e DEF SwInv, TtwuOK, Holding, TtwuKept
  <2>5. \A e, f \in SwCpus :
          cpu'[e].pc \in Holding /\ cpu'[f].pc \in Holding /\ cpu'[e].p = cpu'[f].p => e = f
    BY <1>c DEF SwInv, TtwuOK, Holding, TtwuKept
  <2> QED BY <2>1, <2>2, <2>3, <2>4, <2>5, Zenon DEF TtwuOK
<1>6. WakingOK'
  <2>1. \A x \in SwTasks : task'[x].state = "waking" =>
          /\ ~task'[x].on_rq
          /\ task'[x].cpu \in task'[x].allowed \/ task'[x].late
    BY <1>e, Zenon DEF SwInv, WakingOK
  <2>2. \A x \in SwTasks : task'[x].state = "waking" =>
          \/ \E e \in SwCpus : cpu'[e].pc = "queue" /\ cpu'[e].p = x
          \/ x \in wakeList'[task'[x].cpu]
    <3> SUFFICES ASSUME NEW x \in SwTasks, task[x].state = "waking"
                 PROVE  \/ \E e \in SwCpus : cpu'[e].pc = "queue" /\ cpu'[e].p = x
                        \/ x \in wakeList'[task[x].cpu]
      BY <1>e, Zenon
    <3>1. CASE x = p
      BY <1>d, <3>1, Zenon
    <3>2. CASE x # p
      <4>1. CASE x \in wakeList[task[x].cpu]
        <5>1. task[x].cpu \in SwCpus
          BY <1>0, Zenon DEF Basic
        <5> QED BY <1>d, <4>1, <5>1
      <4>2. CASE \E e \in SwCpus : cpu[e].pc = "queue" /\ cpu[e].p = x
        <5>1. PICK e \in SwCpus : cpu[e].pc = "queue" /\ cpu[e].p = x
          BY <4>2, Zenon
        <5>2. cpu'[e].pc = "queue" /\ cpu'[e].p = x
          BY <1>c, <3>2, <5>1 DEF TtwuKept
        <5> QED BY <5>2, Zenon
      <4> QED BY <4>1, <4>2, Zenon DEF SwInv, WakingOK
    <3> QED BY <3>1, <3>2, Zenon
  <2>3. \A x \in SwTasks : task'[x].state = "running" => task'[x].on_rq
    BY <1>e, Zenon DEF SwInv, WakingOK
  <2>4. \A e \in SwCpus, x \in SwTasks : x \in wakeList'[e] =>
          task'[x].state = "waking" /\ task'[x].cpu = e
    BY <1>a, <1>d, <1>e DEF SwInv, WakingOK
  <2>5. \A e \in SwCpus : wakeList'[e] # {} => cpu'[e].ipi
    BY <1>c, <1>d DEF SwInv, WakingOK
  <2> QED BY <2>1, <2>2, <2>3, <2>4, <2>5, Zenon DEF WakingOK
<1>7. EventOK'
  <2>1. \A x \in SwTasks :
          task'[x].event /\ task'[x].on_rq /\ task'[x].code = "sleep" /\ task'[x].state # "running"
             => \E e \in SwCpus : cpu'[e].p = x
    BY <1>b, <1>c, <1>e DEF SwInv, EventOK, TtwuKept
  <2>2. \A x \in SwTasks :
          task'[x].event /\ ~task'[x].on_rq
             => \/ \E e \in SwCpus : cpu'[e].p = x
                \/ x \in wakeList'[task'[x].cpu]
    BY <1>0, <1>c, <1>d, <1>e DEF SwInv, EventOK, TtwuKept, Basic
  <2> QED BY <2>1, <2>2, Zenon DEF EventOK
<1>8. IdleOK'
  BY <1>c, <1>e DEF SwInv, IdleOK, RunKept
<1>9. AffinityOK'
  BY <1>e, Zenon DEF SwInv, AffinityOK
<1>10. Seen
  <2>1. Wakes({})
    BY <1>c, <1>e DEF Wakes, RunKept
  <2>2. {} \in SUBSET SwTasks
    BY Zenon
  <2> QED BY <2>1, Zenon DEF Seen
<1> QED BY <1>1, <1>2, <1>3, <1>4, <1>5, <1>6, <1>7, <1>8, <1>9, <1>10, Zenon DEF SwInv

\* The task is enqueued on its CPU, whose idle task is told.
LEMMA QueueLocalInv ==
  ASSUME SwInv, NEW c \in SwCpus, NEW p \in SwTasks, cpu[c].p = p, NEW d \in SwCpus, task[p].cpu = d,
         ttwu_queue(c), Cache[c] = Cache[d]
  PROVE  SwInv' /\ Seen
<1>0. Basic
  BY Basics, Zenon
<1>a. /\ c \in online /\ cpu[c].pc = "queue" /\ d \in online
      /\ task[p].state = "waking" /\ \A e \in SwCpus : p \notin wakeList[e]
  BY <1>0, Zenon DEF SwInv, ttwu_queue, TtwuOK, Basic
<1>b. \A e \in SwCpus \ {c} : cpu[e].pc \in Holding => cpu[e].p # p
  BY <1>a, Zenon DEF SwInv, TtwuOK, Holding
<1>c. ~task[p].on_rq /\ (d \in task[p].allowed \/ task[p].late)
  BY <1>a, Zenon DEF SwInv, WakingOK
<1>d. /\ task' \in [SwTasks -> TaskFields]
      /\ \A x \in SwTasks :
           /\ MaskKept(x) /\ CodeKept(x) /\ task'[x].on_cpu = task[x].on_cpu
           /\ (x # p => task'[x].state = task[x].state /\ task'[x].on_rq = task[x].on_rq /\ task'[x].cpu = task[x].cpu)
      /\ task'[p].on_rq /\ task'[p].state = "running" /\ task'[p].cpu = d
  <2> DEFINE r == [task[p] EXCEPT !.on_rq = TRUE, !.state = "running", !.load = FALSE]
  <2>1. task' = [task EXCEPT ![p] = r]
    BY Zenon DEF ttwu_queue, ttwu_do_activate
  <2>2. task[p] \in TaskFields
    BY Typed, Zenon
  <2>3. /\ r \in TaskFields
        /\ r.on_rq /\ r.state = "running" /\ r.cpu = d /\ r.on_cpu = task[p].on_cpu
        /\ r.allowed = task[p].allowed /\ r.late = task[p].late /\ r.event = task[p].event
        /\ r.code = task[p].code
    BY <2>2, Zenon DEF TaskFields
  <2> HIDE DEF r
  <2> QED BY <2>1, <2>3, Typed, Zenon DEF MaskKept, CodeKept
<1>e. /\ cpu' \in [SwCpus -> CpuFields]
      /\ \A e \in SwCpus :
            /\ cpu'[e].curr = cpu[e].curr /\ cpu'[e].prev = cpu[e].prev /\ cpu'[e].ipi = cpu[e].ipi
            /\ cpu'[e].pc = IF e = c THEN "run" ELSE cpu[e].pc
            /\ cpu'[e].p = IF e = c THEN "nobody" ELSE cpu[e].p
            /\ cpu'[e].need <=> cpu[e].need \/ (e = d /\ cpu[e].curr = Idle)
  <2> DEFINE k == IF task[p].load THEN (cpu[d].uninterruptible - 1) % Word ELSE cpu[d].uninterruptible
             r == [cpu[c] EXCEPT !.pc = "run", !.p = Nobody]
             q == [(IF d = c THEN r ELSE cpu[d]) EXCEPT !.uninterruptible = k]
             s == [q EXCEPT !.need = @ \/ q.curr = Idle]
  <2>1. cpu[c] \in CpuFields /\ cpu[d] \in CpuFields
    BY Typed, Zenon
  <2>2. k \in Int
    BY <2>1, WordPositive DEF CpuFields
  <2>3. /\ r \in CpuFields /\ r.pc = "run" /\ r.p = "nobody" /\ r.ipi = cpu[c].ipi
        /\ r.curr = cpu[c].curr /\ r.prev = cpu[c].prev /\ r.need = cpu[c].need
        /\ r.uninterruptible = cpu[c].uninterruptible
    BY <2>1, Zenon DEF CpuFields, Nobody
  <2>4. Done(c) \in [SwCpus -> CpuFields] /\ Done(c) = [cpu EXCEPT ![c] = r]
    <3>1. Done(c) = [cpu EXCEPT ![c] = r]
      BY Zenon DEF Done
    <3> HIDE DEF r
    <3> QED BY <2>3, <3>1, Typed, Zenon
  <2>5. cpu' = [[Done(c) EXCEPT ![d] = q] EXCEPT ![d] = s]
    <3>1. Done(c)[d] = IF d = c THEN r ELSE cpu[d]
      <4> HIDE DEF r
      <4> QED BY <2>4, Zenon
    <3>2. Done(c)[d].uninterruptible = cpu[d].uninterruptible
      <4> HIDE DEF r
      <4> QED BY <2>3, <3>1, Zenon
    <3>3. [Done(c) EXCEPT ![d].uninterruptible = IF task[p].load THEN (@ - 1) % Word ELSE @]
            = [Done(c) EXCEPT ![d] = q]
      <4> HIDE DEF r
      <4> QED BY <3>1, <3>2, Zenon
    <3> DEFINE w == [Done(c) EXCEPT ![d] = q]
    <3>7. cpu' = Noticed([Done(c) EXCEPT ![d].uninterruptible =
                              IF task[p].load THEN (@ - 1) % Word ELSE @], d)
      BY Zenon DEF ttwu_queue, ttwu_do_activate
    <3>4. cpu' = [w EXCEPT ![d].need = @ \/ w[d].curr = Idle]
      BY <3>3, <3>7, Zenon DEF Noticed
    <3>5. w[d] = q /\ DOMAIN w = SwCpus
      <4> HIDE DEF q
      <4> QED BY <2>4, Zenon
    <3> HIDE DEF q, w
    <3>6. cpu' = [w EXCEPT ![d] = [q EXCEPT !.need = @ \/ q.curr = Idle]]
      BY <3>4, <3>5, Zenon
    <3> QED BY <3>6, Zenon DEF w
  <2>6. /\ q \in CpuFields
        /\ q.pc = IF d = c THEN "run" ELSE cpu[d].pc
        /\ q.p = IF d = c THEN "nobody" ELSE cpu[d].p
        /\ q.curr = cpu[d].curr /\ q.prev = cpu[d].prev /\ q.need = cpu[d].need /\ q.ipi = cpu[d].ipi
    <3> HIDE DEF r, k
    <3> QED BY <2>1, <2>2, <2>3 DEF CpuFields
  <2>7. /\ s \in CpuFields /\ s.pc = q.pc /\ s.p = q.p /\ s.ipi = q.ipi
        /\ s.curr = q.curr /\ s.prev = q.prev
        /\ s.need <=> q.need \/ q.curr = Idle
    <3> HIDE DEF q
    <3> QED BY <2>6, Zenon DEF CpuFields
  <2> HIDE DEF s, q, r, k
  <2>8. \A e \in SwCpus : cpu'[e] = IF e = d THEN s ELSE IF e = c THEN r ELSE cpu[e]
    BY <2>4, <2>5, Zenon
  <2>9. cpu' \in [SwCpus -> CpuFields]
    BY <2>4, <2>5, <2>7, Zenon
  <2> QED BY <2>3, <2>6, <2>7, <2>8, <2>9
<1>f. /\ rq' \in [SwCpus -> SUBSET SwTasks]
      /\ \A e \in SwCpus : rq'[e] = IF e = d THEN rq[d] \cup {p} ELSE rq[e]
  BY Typed DEF ttwu_queue, ttwu_do_activate
<1>g. UNCHANGED <<wakeList, setter, online, active, hot>>
  BY Zenon DEF ttwu_queue
<1>1. Types'
  BY <1>d, <1>e, <1>f, <1>g, Zenon DEF SwInv, Types
<1>2. MasksOK'
  <2>1. /\ active' \subseteq online' /\ active' # {}
        /\ hot' # Nobody => /\ hot' \in online' \ active'
                            /\ \A s \in Setters : setter'[s].p = Nobody
    BY <1>g, Zenon DEF SwInv, MasksOK
  <2>2. \A s \in Setters : setter'[s].p # Nobody => setter'[s].dest \in active'
    BY <1>g, Zenon DEF SwInv, MasksOK
  <2>3. \A e \in SwCpus \ online' :
          cpu'[e].pc = "run" /\ cpu'[e].curr = Idle /\ rq'[e] = {} /\ wakeList'[e] = {}
    BY <1>a, <1>e, <1>f, <1>g DEF SwInv, MasksOK
  <2> QED BY <2>1, <2>2, <2>3, Zenon DEF MasksOK
<1>3. QueuedOnce'
  BY <1>d, <1>f DEF SwInv, QueuedOnce
<1>4. OnCpuOK'
  <2>1. \A x \in SwTasks, e \in SwCpus : Holds(e, x)' => task'[x].on_cpu /\ task'[x].cpu = e
    BY <1>d, <1>e DEF SwInv, OnCpuOK, Holds
  <2>2. \A x \in SwTasks : task'[x].on_cpu => Holds(task[x].cpu, x)'
    BY <1>0, <1>a, <1>d, <1>e DEF SwInv, OnCpuOK, Holds, Basic
  <2>3. \A x \in SwTasks, e \in SwCpus : cpu'[e].curr = x => task'[x].on_rq
    BY <1>d, <1>e DEF SwInv, OnCpuOK
  <2>4. \A e \in SwCpus : cpu'[e].pc = "switch" => cpu'[e].prev # cpu'[e].curr
    BY <1>e DEF SwInv, OnCpuOK
  <2> QED BY <2>1, <2>2, <2>3, <2>4, Zenon DEF OnCpuOK
<1>5. TtwuOK'
  <2>1. \A e \in SwCpus : cpu'[e].pc \in {"run", "switch"} <=> cpu'[e].p = Nobody
    BY <1>e DEF SwInv, TtwuOK, Holding, Nobody
  <2>2. \A e \in SwCpus : cpu'[e].pc = "remote" => task'[cpu'[e].p].state # "waking"
    BY <1>0, <1>d, <1>e DEF SwInv, TtwuOK, Basic
  <2>3. \A e \in SwCpus : cpu'[e].pc = "on_cpu" =>
          ~task'[cpu'[e].p].on_rq /\ task'[cpu'[e].p].state \in Asleep
    BY <1>0, <1>b, <1>d, <1>e DEF SwInv, TtwuOK, Basic
  <2>4. \A e \in SwCpus : cpu'[e].pc = "queue" =>
          /\ task'[cpu'[e].p].state = "waking" /\ task'[cpu'[e].p].cpu \in online'
          /\ \A f \in SwCpus : cpu'[e].p \notin wakeList'[f]
    <3> SUFFICES ASSUME NEW e \in SwCpus, cpu'[e].pc = "queue"
                 PROVE  /\ task'[cpu'[e].p].state = "waking" /\ task'[cpu'[e].p].cpu \in online
                        /\ \A f \in SwCpus : cpu'[e].p \notin wakeList[f]
      BY <1>g, Zenon
    <3>1. e # c /\ cpu[e].pc = "queue" /\ cpu'[e].p = cpu[e].p
      BY <1>e
    <3>2. /\ task[cpu[e].p].state = "waking" /\ task[cpu[e].p].cpu \in online
          /\ \A f \in SwCpus : cpu[e].p \notin wakeList[f]
      BY <3>1, Zenon DEF SwInv, TtwuOK
    <3>3. cpu[e].p \in SwTasks \ {p}
      BY <1>0, <1>b, <3>1 DEF Basic, Holding, SwInv, TtwuOK
    <3> QED BY <1>d, <3>1, <3>2, <3>3, Zenon
  <2>5. \A e, f \in SwCpus :
          cpu'[e].pc \in Holding /\ cpu'[f].pc \in Holding /\ cpu'[e].p = cpu'[f].p => e = f
    BY <1>e DEF SwInv, TtwuOK, Holding
  <2> QED BY <2>1, <2>2, <2>3, <2>4, <2>5, Zenon DEF TtwuOK
<1>6. WakingOK'
  <2>1. \A x \in SwTasks : task'[x].state = "waking" =>
          /\ ~task'[x].on_rq
          /\ task'[x].cpu \in task'[x].allowed \/ task'[x].late
          /\ \/ \E e \in SwCpus : cpu'[e].pc = "queue" /\ cpu'[e].p = x
             \/ x \in wakeList'[task'[x].cpu]
    BY <1>d, <1>e, <1>g DEF SwInv, WakingOK, MaskKept
  <2>2. \A x \in SwTasks : task'[x].state = "running" => task'[x].on_rq
    BY <1>b, <1>d DEF SwInv, WakingOK, MaskKept
  <2>3. \A e \in SwCpus, x \in SwTasks : x \in wakeList'[e] =>
          task'[x].state = "waking" /\ task'[x].cpu = e
    BY <1>a, <1>d, <1>g DEF SwInv, WakingOK
  <2>4. \A e \in SwCpus : wakeList'[e] # {} => cpu'[e].ipi
    BY <1>e, <1>g, Zenon DEF SwInv, WakingOK
  <2> QED BY <2>1, <2>2, <2>3, <2>4, Zenon DEF WakingOK
<1>7. EventOK'
  <2>1. \A x \in SwTasks :
          task'[x].event /\ task'[x].on_rq /\ task'[x].code = "sleep" /\ task'[x].state # "running"
             => \E e \in SwCpus : cpu'[e].p = x
    BY <1>d, <1>e DEF SwInv, EventOK, CodeKept
  <2>2. \A x \in SwTasks :
          task'[x].event /\ ~task'[x].on_rq
             => \/ \E e \in SwCpus : cpu'[e].p = x
                \/ x \in wakeList'[task'[x].cpu]
    BY <1>d, <1>e, <1>g DEF SwInv, EventOK, CodeKept
  <2> QED BY <2>1, <2>2, Zenon DEF EventOK
<1>8. IdleOK'
  BY <1>e, <1>f DEF SwInv, IdleOK
<1>9. AffinityOK'
  BY <1>c, <1>d, <1>g DEF SwInv, AffinityOK, MaskKept
<1>10. Seen
  <2>1. Wakes({p})
    BY <1>c, <1>d, <1>e, Zenon DEF Wakes, CodeKept
  <2>2. {p} \in SUBSET SwTasks
    BY Zenon
  <2> QED BY <2>1, Zenon DEF Seen
<1> QED BY <1>1, <1>2, <1>3, <1>4, <1>5, <1>6, <1>7, <1>8, <1>9, <1>10, Zenon DEF SwInv

-----------------------------------------------------------------------------
(***************************************************************************)
(* The theorems                                                            *)
(***************************************************************************)

\* How many uninterruptible sleepers are on a wake list is a number.
LEMMA PendingLoad ==
  ASSUME SwInv, NEW c \in SwCpus
  PROVE  Activated(c).load \in Nat
<1>0. Basic
  BY Zenon, Basics
<1>1. IsFiniteSet(SwTasks) /\ {t \in wakeList[c] : task[t].load} \subseteq SwTasks
  BY <1>0, SmpWakeAssumption, Zenon DEF Basic
<1>2. Cardinality({t \in wakeList[c] : task[t].load}) \in Nat
  BY Zenon, <1>1, FS_Subset, FS_CardinalityType
<1> QED BY <1>2, Zenon DEF Activated

\* All CPUs start idle and all tasks queued on the first CPU.
LEMMA SwInitially == SwInit => SwInv
<1> SUFFICES ASSUME SwInit PROVE SwInv
  BY Zenon
<1>1. Types
  <2> USE DEF SwInit
  <2>1. \A t \in SwTasks :
           [state |-> "running", on_rq |-> TRUE, on_cpu |-> FALSE, cpu |-> Boot,
            allowed |-> FirstMask[t], load |-> FALSE, late |-> FALSE,
            event |-> FALSE, code |-> "work"] \in TaskFields
    BY SmpWakeAssumption, Zenon DEF TaskFields
  <2>2. task \in [SwTasks -> TaskFields]
    BY Zenon, <2>1
  <2>3. \A b \in BOOLEAN :
           [pc |-> "run", curr |-> Idle, prev |-> Idle, need |-> b,
            p |-> Nobody, ipi |-> FALSE, uninterruptible |-> 0] \in CpuFields
    BY DEF CpuFields, Anyone
  <2>4. cpu \in [SwCpus -> CpuFields]
    BY <2>3, Zenon
  <2>5. setter \in [Setters -> SetterFields]
    BY Zenon DEF SetterFields
  <2>6. /\ rq \in [SwCpus -> SUBSET SwTasks] /\ wakeList \in [SwCpus -> SUBSET SwTasks]
        /\ online \in SUBSET SwCpus /\ active \in SUBSET SwCpus /\ hot \in SwCpus \cup {Nobody}
    BY Zenon, SmpWakeAssumption
  <2> QED BY <2>2, <2>4, <2>5, <2>6, Zenon DEF Types
<1> USE SmpWakeAssumption DEF SwInit, Nobody
<1>2. MasksOK
  BY Zenon DEF MasksOK
<1>3. QueuedOnce
  BY Zenon DEF QueuedOnce
<1>4. OnCpuOK
  BY Zenon DEF OnCpuOK, Holds
<1>5. TtwuOK
  BY Zenon DEF TtwuOK, Holding
<1>6. WakingOK
  BY Zenon DEF WakingOK
<1>7. EventOK
  BY Zenon DEF EventOK
<1>8. IdleOK
  BY Zenon DEF IdleOK
<1>9. AffinityOK
  BY Zenon DEF AffinityOK
<1> QED BY <1>1, <1>2, <1>3, <1>4, <1>5, <1>6, <1>7, <1>8, <1>9, Zenon DEF SwInv

\* No step of any CPU, caller or notifier breaks the invariant.
LEMMA SwInductive == SwInv /\ [SwNext]_swVars => SwInv' /\ Seen
<1> SUFFICES ASSUME SwInv, [SwNext]_swVars PROVE SwInv' /\ Seen
  BY Zenon
<1>0. Basic
  BY Zenon, Basics
<1> USE SmpWakeAssumption
<1>1. ASSUME NEW c \in SwCpus, SwCpu(c) PROVE SwInv' /\ Seen
  <2>1. ASSUME NEW t \in SwTasks, set_current_state(t, c) \/ look(t, c) PROVE SwInv' /\ Seen
    BY Zenon, <2>1, SetStateInv, LookInv
  <2>2. CASE \/ cpu_idle(c) \/ \E t \in SwTasks : schedule(t, c) \/ preempt_schedule(t, c)
    BY Zenon, <2>2, ScheduleInv
  <2>3. CASE finish_lock_switch(c)
    BY Zenon, <2>3, FinishInv
  <2>4. CASE Ttwu(c)
    <3>1. cpu[c].pc \in {"lock", "remote", "on_cpu", "queue"}
      BY <2>4, Zenon DEF Ttwu, try_to_wake_up, ttwu_remote, ttwu_select, ttwu_queue
    <3>2. PICK p \in SwTasks : cpu[c].p = p
      BY <3>1, <1>0, Zenon DEF Basic
    <3>3. PICK d \in SwCpus : task[p].cpu = d
      BY <1>0, Zenon DEF Basic
    <3>4. CASE try_to_wake_up(c)
      BY Zenon, <3>2, <3>4, TryInv
    <3>5. CASE ttwu_remote(c)
      BY Zenon, <3>2, <3>5, RemoteQueuedInv, RemoteAsleepInv
    <3>6. CASE ttwu_select(c)
      BY Zenon, <3>2, <3>6, SelectInv
    <3>7. CASE ttwu_queue(c)
      BY <3>2, <3>3, <3>7, QueueRemoteInv, QueueLocalInv
    <3> QED BY <2>4, <3>4, <3>5, <3>6, <3>7, Zenon DEF Ttwu
  <2>5. CASE scheduler_ipi(c) \/ migration_cpu_stop(c)
    BY Zenon, <2>5, PendingLoad, IpiInv, StopInv
  <2> QED BY <1>1, <2>1, <2>2, <2>3, <2>4, <2>5, Zenon DEF SwCpu
<1>2. ASSUME NEW c \in SwCpus, SwWakeUp(c) PROVE SwInv' /\ Seen
  BY <1>2, WakeUpInv, Zenon DEF SwWakeUp
<1>3. CASE SwAffinity
  BY <1>3, SetAllowedInv, Zenon DEF SwAffinity
<1>4. CASE SwHotplug
  BY <1>4, InactiveInv, ActiveInv, DyingInv, PendingLoad, OnlineInv, SmpWakeAssumption, Zenon DEF SwHotplug
<1>5. CASE UNCHANGED swVars
  <2>1. UNCHANGED <<task, cpu, rq, wakeList, setter, online, active, hot>>
    BY <1>5, Zenon DEF swVars
  <2>2. Types'
    BY <2>1, Zenon DEF SwInv, Types
  <2>3. MasksOK'
    BY <2>1, Zenon DEF SwInv, MasksOK
  <2>4. QueuedOnce'
    BY <2>1, Zenon DEF SwInv, QueuedOnce
  <2>5. OnCpuOK'
    BY <2>1 DEF SwInv, OnCpuOK, Holds
  <2>6. TtwuOK'
    BY <2>1, Zenon DEF SwInv, TtwuOK
  <2>7. WakingOK'
    BY <2>1, Zenon DEF SwInv, WakingOK
  <2>8. EventOK'
    BY <2>1, Zenon DEF SwInv, EventOK
  <2>9. IdleOK'
    BY <2>1, Zenon DEF SwInv, IdleOK
  <2>10. AffinityOK'
    BY <2>1, Zenon DEF SwInv, AffinityOK
  <2>11. Wakes({})
    BY <2>1, Zenon DEF Wakes
  <2>12. Seen
    BY <2>11, Zenon DEF Seen
  <2> QED BY <2>2, <2>3, <2>4, <2>5, <2>6, <2>7, <2>8, <2>9, <2>10, <2>12, Zenon DEF SwInv
<1> QED BY <1>1, <1>2, <1>3, <1>4, <1>5, Zenon DEF SwNext

\* The inductive invariant holds in every state.
THEOREM SwInvariant == SwSpec => []SwInv
<1> QED BY SwInitially, SwInductive, PTL DEF SwSpec

\* ->on_cpu counts the CPUs that have the task.
LEMMA OneCpu == SwInv => RunsOnce
<1> SUFFICES ASSUME SwInv, NEW t \in SwTasks
             PROVE  Cardinality({c \in SwCpus : cpu[c].curr = t \/ (cpu[c].pc = "switch" /\ cpu[c].prev = t)})
                       = IF task[t].on_cpu THEN 1 ELSE 0
  BY Zenon DEF RunsOnce
<1>0. Basic
  BY Zenon, Basics
<1> DEFINE H == {c \in SwCpus : cpu[c].curr = t \/ (cpu[c].pc = "switch" /\ cpu[c].prev = t)}
<1>1. CASE task[t].on_cpu
  <2>1. H = {task[t].cpu}
    BY <1>1, <1>0 DEF SwInv, OnCpuOK, Holds, Basic
  <2> QED BY <1>1, <2>1, FS_Singleton, Zenon
<1>2. CASE ~task[t].on_cpu
  <2>1. H = {}
    BY <1>2 DEF SwInv, OnCpuOK, Holds
  <2> QED BY <1>2, <2>1, FS_EmptySet, Zenon
<1> QED BY Zenon, <1>1, <1>2

\* In every state a task is where its fields say, on one CPU at most, not on one that is
\* down, and not kept where it may not be: what the wait for ->on_cpu in try_to_wake_up,
\* the stopper and the hotplug notifiers are for, for any number of tasks and CPUs.
THEOREM TasksPlacedOnce == SwSpec => []PlacedOnce
<1>1. SwInv => PlacedOnce
  <2> SUFFICES ASSUME SwInv PROVE PlacedOnce
    BY Zenon
  <2>1. SwTypeOK
    BY Zenon DEF SwInv, Types, MasksOK, TaskFields, CpuFields, Asleep, Holding, Anyone, SwTypeOK
  <2>2. QueuedOnce /\ RunsOnce
    BY OneCpu, Zenon DEF SwInv
  <2>3. DeadCpuEmpty
    BY Zenon DEF SwInv, MasksOK, DeadCpuEmpty
  <2>4. AffinityUnlessWaking
    BY Zenon DEF SwInv, AffinityOK, AffinityUnlessWaking
  <2> QED BY <2>1, <2>2, <2>3, <2>4, Zenon DEF PlacedOnce
<1> QED BY <1>1, SwInvariant, PTL

\* A posted event never finds its task asleep with nobody on the way to wake it, and an
\* idle CPU with a queue has been told: the lockless checks of try_to_wake_up, the wake
\* lists and their interrupts lose no wake-up.
THEOREM WakeupsNotLost == SwSpec => []WakeupsArrive
<1>1. SwInv => WakeupsArrive
  <2> SUFFICES ASSUME SwInv PROVE WakeupsArrive
    BY Zenon
  <2>1. \A c \in SwCpus : wakeList[c] # {} => c \in online /\ cpu[c].ipi
    BY Zenon DEF SwInv, MasksOK, WakingOK
  <2>2. WakeupUnderWay
    BY <2>1, Basics, Zenon DEF SwInv, EventOK, WakeupUnderWay, Basic
  <2>3. online \subseteq SwCpus
    BY Zenon DEF SwInv, Types
  <2>4. IdleIsTold
    BY <2>3, Zenon DEF SwInv, IdleOK, IdleIsTold
  <2> QED BY <2>2, <2>4, Zenon DEF WakeupsArrive
<1> QED BY <1>1, SwInvariant, PTL

-----------------------------------------------------------------------------
(***************************************************************************)
(* Every step is a step of TaskLife                                        *)
(***************************************************************************)

\* Where a task is, without the choice of its CPU.
WhereIs(t) ==
    /\ \A c \in SwCpus : cpu[c].curr = t => Where(t) = c
    /\ (\A c \in SwCpus : cpu[c].curr # t) =>
          Where(t) = IF task[t].on_rq THEN "ready" ELSE "asleep"

WhereAll == \A t \in SwTasks : WhereIs(t)

\* A task has one place only.
LEMMA WhereTold == SwInv => WhereAll
<1> SUFFICES ASSUME SwInv, NEW t \in SwTasks PROVE WhereIs(t)
  BY Zenon DEF WhereAll
<1>1. ASSUME NEW c \in SwCpus, cpu[c].curr = t PROVE Where(t) = c
  <2>1. \A d \in SwCpus : cpu[d].curr = t => d = c
    BY <1>1 DEF SwInv, OnCpuOK, Holds
  <2>2. (CHOOSE d \in SwCpus : cpu[d].curr = t) = c
    BY Zenon, <1>1, <2>1
  <2> QED BY <1>1, <2>2, Zenon DEF Where
<1> QED BY <1>1, Zenon DEF WhereIs, Where

\* The same after a step.
LEMMA WhereToldNext == SwInv' => WhereAll'
BY WhereTold, PTL

\* Activating the tasks of W wakes them; with none it is a step that nobody notices.
LEMMA LifeWake ==
  ASSUME SwInv, SwInv', NEW W \in SUBSET SwTasks, Wakes(W)
  PROVE  Life!Step
<1>1. ASSUME NEW t \in SwTasks
      PROVE  /\ t \in W => Where(t) = "asleep"
             /\ Where(t)' = IF t \in W THEN "ready" ELSE Where(t)
  <2>1. /\ \A c \in SwCpus : cpu[c].curr = t => Where(t) = c /\ task[t].on_rq
        /\ (\A c \in SwCpus : cpu[c].curr # t) =>
              Where(t) = IF task[t].on_rq THEN "ready" ELSE "asleep"
    BY WhereTold, Zenon DEF WhereAll, WhereIs, SwInv, OnCpuOK
  <2>2. /\ \A c \in SwCpus : cpu'[c].curr = t => Where(t)' = c
        /\ (\A c \in SwCpus : cpu'[c].curr # t) =>
              Where(t)' = IF task'[t].on_rq THEN "ready" ELSE "asleep"
    BY WhereToldNext, Zenon DEF WhereAll, WhereIs
  <2> QED BY <2>1, <2>2, Zenon DEF Wakes
<1>2. Life!Wake(W)
  BY <1>1, Zenon DEF Life!Wake, Wakes
<1> QED BY <1>2, Zenon DEF Life!Step

\* A task stays where it is if no CPU and no queue changes.
LEMMA WhereStays ==
  ASSUME SwInv, SwInv',
         \A x \in SwTasks, d \in SwCpus : cpu'[d].curr = x <=> cpu[d].curr = x,
         \A x \in SwTasks : task'[x].on_rq = task[x].on_rq
  PROVE  \A t \in SwTasks : Where(t)' = Where(t)
<1> SUFFICES ASSUME NEW t \in SwTasks PROVE Where(t)' = Where(t)
  BY Zenon
<1>1. /\ \A c \in SwCpus : cpu[c].curr = t => Where(t) = c
      /\ (\A c \in SwCpus : cpu[c].curr # t) =>
            Where(t) = IF task[t].on_rq THEN "ready" ELSE "asleep"
  BY WhereTold, Zenon DEF WhereAll, WhereIs
<1>2. /\ \A c \in SwCpus : cpu'[c].curr = t => Where(t)' = c
      /\ (\A c \in SwCpus : cpu'[c].curr # t) =>
            Where(t)' = IF task'[t].on_rq THEN "ready" ELSE "asleep"
  BY WhereToldNext, Zenon DEF WhereAll, WhereIs
<1> QED BY <1>1, <1>2

\* The waker posts its event.
LEMMA LifePost ==
  ASSUME SwInv, SwInv', NEW t \in SwTasks, Posts(t)
  PROVE  Life!Step
<1>1. \A x \in SwTasks : Where(x)' = Where(x)
  BY WhereStays, Zenon DEF Posts
<1>2. Life!Post(t)
  BY <1>1, Zenon DEF Life!Post, Posts
<1> QED BY <1>2, Zenon DEF Life!Step

\* A running task takes its event.
LEMMA LifeTake ==
  ASSUME SwInv, SwInv', NEW t \in SwTasks, Takes(t)
  PROVE  Life!Step
<1>1. \A x \in SwTasks : Where(x)' = Where(x)
  BY WhereStays, Zenon DEF Takes
<1>2. Where(t) \in SwCpus
  BY WhereTold, Zenon DEF Takes, WhereAll, WhereIs
<1>3. Life!Take(t)
  BY <1>1, <1>2, Zenon DEF Life!Take, Takes
<1> QED BY <1>3, Zenon DEF Life!Step

\* schedule() takes a queued task that no CPU runs; the task before it waits or sleeps.
LEMMA LifeSwitch ==
  ASSUME SwInv, SwInv', NEW c \in SwCpus,
         NEW off \in SUBSET SwTasks, NEW next \in Anyone, Switches(c, off, next)
  PROVE  Life!Step
<1> USE SmpWakeAssumption
<1> DEFINE prev == cpu[c].curr
           n == IF next \in SwTasks THEN next ELSE "none"
           after == IF off = {} THEN "ready" ELSE "asleep"
<1>1. /\ \A x \in off : x = prev
      /\ next \in SwTasks => next \in rq[c] \ off
      /\ \A x \in SwTasks : /\ task'[x].on_rq <=> task[x].on_rq /\ x \notin off
                            /\ task'[x].event = task[x].event
      /\ \A d \in SwCpus \ {c} : cpu'[d].curr = cpu[d].curr
      /\ cpu'[c].curr = next
  BY Zenon DEF Switches, RunKept
<1>2. CASE next = prev
  <2>1. off = {}
    BY <1>1, <1>2
  <2>2. Wakes({})
    BY <1>1, <1>2, <2>1, Zenon DEF Wakes
  <2> QED BY Zenon, <2>2, LifeWake
<1>3. CASE next # prev
  <2>1. \A x \in SwTasks :
          /\ \A d \in SwCpus : cpu[d].curr = x => Where(x) = d /\ task[x].on_rq /\ task[x].cpu = d
          /\ (\A d \in SwCpus : cpu[d].curr # x) =>
                Where(x) = IF task[x].on_rq THEN "ready" ELSE "asleep"
    <3> TAKE x \in SwTasks
    <3>1. \A d \in SwCpus : cpu[d].curr = x => task[x].on_rq /\ task[x].cpu = d
      BY DEF SwInv, OnCpuOK, Holds
    <3>2. /\ \A d \in SwCpus : cpu[d].curr = x => Where(x) = d
          /\ (\A d \in SwCpus : cpu[d].curr # x) =>
                Where(x) = IF task[x].on_rq THEN "ready" ELSE "asleep"
      BY WhereTold, Zenon DEF WhereAll, WhereIs
    <3> QED BY Zenon, <3>1, <3>2
  <2>2. \A x \in SwTasks :
          /\ \A d \in SwCpus : cpu'[d].curr = x => Where(x)' = d
          /\ (\A d \in SwCpus : cpu'[d].curr # x) =>
                Where(x)' = IF task'[x].on_rq THEN "ready" ELSE "asleep"
    BY WhereToldNext, Zenon DEF WhereAll, WhereIs
  <2>3. next \in SwTasks => task[next].on_rq /\ task[next].cpu = c /\ Where(next) = "ready"
    <3> SUFFICES ASSUME next \in SwTasks
                 PROVE  task[next].on_rq /\ task[next].cpu = c /\ Where(next) = "ready"
      BY Zenon
    <3>1. task[next].on_rq /\ task[next].cpu = c
      BY <1>1, Zenon DEF SwInv, QueuedOnce
    <3>2. \A d \in SwCpus : cpu[d].curr # next
      BY Zenon, <1>3, <2>1, <3>1
    <3> QED BY Zenon, <2>1, <3>1, <3>2
  <2>4. ASSUME NEW x \in SwTasks
        PROVE  Where(x)' = IF x = n THEN c ELSE IF Where(x) = c THEN after ELSE Where(x)
    <3>1. CASE x = next
      BY Zenon, <1>1, <2>2, <3>1
    <3>2. CASE x # next /\ x = prev
      <4>1. \A d \in SwCpus : cpu'[d].curr # x
        BY <1>1, <2>1, <3>2
      <4>2. Where(x) = c /\ task[x].on_rq
        BY Zenon, <2>1, <3>2
      <4>3. x \in off <=> off # {}
        BY <1>1, <3>2
      <4>4. Where(x)' = after
        BY Zenon, <1>1, <2>2, <4>1, <4>2, <4>3
      <4> QED BY <3>2, <4>2, <4>4
    <3>3. CASE x # next /\ x # prev
      <4>1. \A d \in SwCpus : cpu'[d].curr = x <=> cpu[d].curr = x
        BY Zenon, <1>1, <3>3
      <4>2. task'[x].on_rq <=> task[x].on_rq
        BY Zenon, <1>1, <3>3
      <4>3. Where(x)' = Where(x)
        BY <2>1, <2>2, <4>1, <4>2
      <4>4. Where(x) # c
        BY Zenon, <2>1, <3>3
      <4> QED BY Zenon, <3>3, <4>3, <4>4
    <3> QED BY Zenon, <3>1, <3>2, <3>3
  <2>5. Life!Switch(c)
    <3>1. n \in {t \in SwTasks : Where(t) = "ready"} \cup {"none"} /\ after \in {"asleep", "ready"}
      BY Zenon, <2>3
    <3> HIDE DEF n, after
    <3>2. [t \in SwTasks |-> Where(t)'] =
             [t \in SwTasks |-> IF t = n THEN c
                                ELSE IF [x \in SwTasks |-> Where(x)][t] = c THEN after
                                ELSE [x \in SwTasks |-> Where(x)][t]]
      BY <2>4
    <3>3. [t \in SwTasks |-> task'[t].event] = [t \in SwTasks |-> task[t].event]
      BY Zenon, <1>1
    <3>4. n \in {t \in SwTasks : [x \in SwTasks |-> Where(x)][t] = "ready"} \cup {"none"}
      BY Zenon, <3>1
    <3>5. \E a \in {"asleep", "ready"},
             k \in {t \in SwTasks : [x \in SwTasks |-> Where(x)][t] = "ready"} \cup {"none"} :
             [t \in SwTasks |-> Where(t)'] =
                [t \in SwTasks |-> IF t = k THEN c
                                   ELSE IF [x \in SwTasks |-> Where(x)][t] = c THEN a
                                   ELSE [x \in SwTasks |-> Where(x)][t]]
      <4>1. after \in {"asleep", "ready"}
        BY Zenon, <3>1
      <4> WITNESS after \in {"asleep", "ready"},
                  n \in {t \in SwTasks : [x \in SwTasks |-> Where(x)][t] = "ready"} \cup {"none"}
      <4> QED BY Zenon, <3>2
    <3> QED BY <3>3, <3>5, Zenon DEF Life!Switch
  <2> QED BY <2>5, Zenon DEF Life!Step
<1> QED BY Zenon, <1>2, <1>3

\* The scheduler's queues, locks, wake lists and interrupts implement TaskLife but for its
\* fairness: a CPU only takes a task that is ready, so no task runs on two; only a running
\* task goes to sleep or takes its event; only a sleeping task is woken.
THEOREM RefinesTaskLife == SwSpec => Life!Safety
<1>1. SwInit => Life!Init
  <2> SUFFICES ASSUME SwInit PROVE Life!Init
    BY Zenon
  <2>1. \A t \in SwTasks : Where(t) = "ready" /\ task[t].event = FALSE
    BY SwInitially, WhereTold, SmpWakeAssumption, Zenon DEF SwInit, WhereAll, WhereIs
  <2> QED BY <2>1, Zenon DEF Life!Init
<1>2. SwInv /\ SwInv' /\ [SwNext]_swVars => [Life!Step]_(Life!lifeVars)
  BY SwInductive, LifeWake, LifePost, LifeTake, LifeSwitch, Zenon DEF Seen
<1> QED BY <1>1, <1>2, SwInvariant, PTL DEF SwSpec, Life!Safety

=============================================================================
