---------------------------- MODULE SmpWakeCpus -----------------------------
(***************************************************************************)
(* The inductive invariant of SmpWake is kept by what the CPUs do to the   *)
(* tasks they have: the scheduler interrupt, sched_setaffinity and the     *)
(* stopper, CPU hotplug, and the switch from one task to the next.         *)
(***************************************************************************)
EXTENDS SmpWakeInv

\* What activating the tasks of a wake list does to them.
LEMMA ActivatedTask ==
  ASSUME SwInv, NEW c \in SwCpus, NEW x \in SwTasks
  PROVE  /\ Activated(c).task[x] \in TaskFields
         /\ Activated(c).task[x].on_cpu = task[x].on_cpu /\ Activated(c).task[x].cpu = task[x].cpu
         /\ Activated(c).task[x].allowed = task[x].allowed /\ Activated(c).task[x].late = task[x].late
         /\ Activated(c).task[x].event = task[x].event /\ Activated(c).task[x].code = task[x].code
         /\ IF x \in wakeList[c]
            THEN Activated(c).task[x].on_rq /\ Activated(c).task[x].state = "running"
            ELSE Activated(c).task[x] = task[x]
<1> DEFINE r == [task[x] EXCEPT !.on_rq = TRUE, !.state = "running", !.load = FALSE]
<1>1. Activated(c).task[x] = IF x \in wakeList[c] THEN r ELSE task[x]
  BY Zenon DEF Activated
<1>2. task[x] \in TaskFields
  BY Typed, Zenon
<1>3. /\ r \in TaskFields /\ r.on_rq /\ r.state = "running"
      /\ r.on_cpu = task[x].on_cpu /\ r.cpu = task[x].cpu
      /\ r.allowed = task[x].allowed /\ r.late = task[x].late
      /\ r.event = task[x].event /\ r.code = task[x].code
  BY <1>2, Zenon DEF TaskFields
<1> HIDE DEF r
<1> QED BY <1>1, <1>2, <1>3, Zenon

\* The interrupt activates all that is on the wake list: these tasks are held by no waker.
LEMMA IpiInv ==
  ASSUME SwInv, NEW c \in SwCpus, Activated(c).load \in Nat, scheduler_ipi(c)
  PROVE  SwInv' /\ Seen
<1>0. Basic
  BY Basics, Zenon
<1>a. c \in online /\ cpu[c].pc = "run"
  BY Zenon DEF scheduler_ipi, Runs
<1>b. \A x \in wakeList[c] :
        /\ x \in SwTasks /\ task[x].state = "waking" /\ task[x].cpu = c /\ ~task[x].on_rq
        /\ c \in task[x].allowed \/ task[x].late
  BY <1>0 DEF SwInv, WakingOK, Basic
<1>c. /\ task' \in [SwTasks -> TaskFields]
      /\ \A x \in SwTasks :
            /\ task'[x].on_cpu = task[x].on_cpu /\ task'[x].cpu = task[x].cpu
            /\ MaskKept(x) /\ CodeKept(x)
            /\ x \in wakeList[c] => task'[x].on_rq /\ task'[x].state = "running"
            /\ x \notin wakeList[c] => task'[x].on_rq = task[x].on_rq /\ task'[x].state = task[x].state
  <2>1. task' = Activated(c).task /\ task' = [x \in SwTasks |-> Activated(c).task[x]]
    BY Zenon DEF scheduler_ipi, Activated
  <2>2. \A x \in SwTasks : task'[x] = Activated(c).task[x]
    BY <2>1, Zenon
  <2> HIDE DEF Activated
  <2> QED BY <2>1, ActivatedTask DEF MaskKept, CodeKept
<1>n. PICK b \in BOOLEAN, n \in Int :
         /\ b = (cpu[c].need \/ (cpu[c].curr = Idle /\ wakeList[c] # {}))
         /\ n = (cpu[c].uninterruptible - Activated(c).load) % Word
  <2>1. (cpu[c].uninterruptible - Activated(c).load) % Word \in Int
    BY Typed, WordPositive DEF CpuFields
  <2> QED BY <2>1, Zenon
<1>d. /\ cpu' \in [SwCpus -> CpuFields]
      /\ \A e \in SwCpus :
           /\ TtwuKept(e) /\ cpu'[e].curr = cpu[e].curr /\ cpu'[e].prev = cpu[e].prev
           /\ (e # c => cpu'[e].need = cpu[e].need /\ cpu'[e].ipi = cpu[e].ipi)
      /\ cpu'[c].need = b
  <2> DEFINE r == [cpu[c] EXCEPT !.ipi = FALSE, !.need = b, !.uninterruptible = n]
  <2>1. cpu' = [cpu EXCEPT ![c] = r]
    BY <1>n, Zenon DEF scheduler_ipi
  <2>2. cpu[c] \in CpuFields
    BY Typed, Zenon
  <2>3. /\ r \in CpuFields
        /\ r.need = b /\ r.curr = cpu[c].curr /\ r.prev = cpu[c].prev /\ r.pc = cpu[c].pc
        /\ r.p = cpu[c].p
    BY <2>2, Zenon DEF CpuFields
  <2> HIDE DEF r
  <2> QED BY <2>1, <2>3, Typed, Zenon DEF TtwuKept
<1>e. (cpu[c].curr = Idle /\ wakeList[c] # {} => b) /\ (cpu[c].need => b)
  BY <1>n, Zenon
<1>h. rq' = [rq EXCEPT ![c] = rq[c] \cup wakeList[c]] /\ wakeList' = [wakeList EXCEPT ![c] = {}]
  BY Zenon DEF scheduler_ipi, Activated
<1>i. rq' \in [SwCpus -> SUBSET SwTasks] /\ wakeList' \in [SwCpus -> SUBSET SwTasks]
  BY <1>h, Typed, Zenon
<1>f. /\ \A e \in SwCpus \ {c} : rq'[e] = rq[e] /\ wakeList'[e] = wakeList[e]
      /\ \A x \in SwTasks : x \in rq'[c] <=> x \in rq[c] \/ x \in wakeList[c]
      /\ rq'[c] # {} => rq[c] # {} \/ wakeList[c] # {}
      /\ wakeList'[c] = {}
  BY <1>h, Typed, Zenon
<1>g. UNCHANGED <<setter, online, active, hot>>
  BY Zenon DEF scheduler_ipi
<1>1. Types'
  BY <1>c, <1>d, <1>i, <1>g, Zenon DEF SwInv, Types
<1>2. MasksOK'
  BY <1>d, <1>f, <1>g DEF SwInv, MasksOK, TtwuKept
<1>3. QueuedOnce'
  BY <1>b, <1>c, <1>f DEF SwInv, QueuedOnce
<1>4. OnCpuOK'
  <2>1. \A x \in SwTasks, e \in SwCpus : Holds(e, x)' => task'[x].on_cpu /\ task'[x].cpu = e
    BY <1>c, <1>d DEF SwInv, OnCpuOK, Holds, TtwuKept
  <2>2. \A x \in SwTasks : task'[x].on_cpu => Holds(task[x].cpu, x)'
    BY <1>0, <1>c, <1>d DEF SwInv, OnCpuOK, Holds, TtwuKept, Basic
  <2>3. \A x \in SwTasks, e \in SwCpus : cpu'[e].curr = x => task'[x].on_rq
    BY <1>c, <1>d DEF SwInv, OnCpuOK
  <2>4. \A e \in SwCpus : cpu'[e].pc = "switch" => cpu'[e].prev # cpu'[e].curr
    BY <1>d DEF SwInv, OnCpuOK, TtwuKept
  <2> QED BY <2>1, <2>2, <2>3, <2>4, Zenon DEF OnCpuOK
<1>5. TtwuOK'
  <2>1. \A e \in SwCpus : cpu'[e].pc \in {"run", "switch"} <=> cpu'[e].p = Nobody
    BY <1>d DEF SwInv, TtwuOK, TtwuKept
  <2>2. \A e \in SwCpus : cpu'[e].pc = "remote" => task'[cpu'[e].p].state # "waking"
    BY <1>0, <1>c, <1>d DEF SwInv, TtwuOK, TtwuKept, Basic
  <2>3. \A e \in SwCpus : cpu'[e].pc = "on_cpu" =>
          ~task'[cpu'[e].p].on_rq /\ task'[cpu'[e].p].state \in Asleep
    BY <1>0, <1>b, <1>c, <1>d DEF SwInv, TtwuOK, Asleep, TtwuKept, Basic
  <2>4. \A e \in SwCpus : cpu'[e].pc = "queue" =>
          /\ task'[cpu'[e].p].state = "waking" /\ task'[cpu'[e].p].cpu \in online'
          /\ \A f \in SwCpus : cpu'[e].p \notin wakeList'[f]
    BY <1>0, <1>c, <1>d, <1>f, <1>g DEF SwInv, TtwuOK, TtwuKept, Basic
  <2>5. \A e, f \in SwCpus :
          cpu'[e].pc \in Holding /\ cpu'[f].pc \in Holding /\ cpu'[e].p = cpu'[f].p => e = f
    BY <1>d DEF SwInv, TtwuOK, TtwuKept
  <2> QED BY <2>1, <2>2, <2>3, <2>4, <2>5, Zenon DEF TtwuOK
<1>6. WakingOK'
  <2>1. \A x \in SwTasks : task'[x].state = "waking" =>
          /\ ~task'[x].on_rq
          /\ task'[x].cpu \in task'[x].allowed \/ task'[x].late
          /\ \/ \E e \in SwCpus : cpu'[e].pc = "queue" /\ cpu'[e].p = x
             \/ x \in wakeList'[task'[x].cpu]
    BY <1>0, <1>c, <1>d, <1>f DEF SwInv, WakingOK, MaskKept, TtwuKept, Basic
  <2>2. \A x \in SwTasks : task'[x].state = "running" => task'[x].on_rq
    BY <1>0, <1>c, Zenon DEF SwInv, WakingOK, Asleep, Basic
  <2>3. \A e \in SwCpus, x \in SwTasks : x \in wakeList'[e] =>
          task'[x].state = "waking" /\ task'[x].cpu = e
    BY <1>c, <1>f DEF SwInv, WakingOK
  <2>4. \A e \in SwCpus : wakeList'[e] # {} => cpu'[e].ipi
    BY <1>0, <1>a, <1>d, <1>f, Zenon DEF SwInv, WakingOK, Basic
  <2> QED BY <2>1, <2>2, <2>3, <2>4, Zenon DEF WakingOK
<1>7. EventOK'
  <2>1. \A x \in SwTasks :
          task'[x].event /\ task'[x].on_rq /\ task'[x].code = "sleep" /\ task'[x].state # "running"
             => \E e \in SwCpus : cpu'[e].p = x
    BY <1>c, <1>d DEF SwInv, EventOK, CodeKept, TtwuKept
  <2>2. \A x \in SwTasks :
          task'[x].event /\ ~task'[x].on_rq
             => \/ \E e \in SwCpus : cpu'[e].p = x
                \/ x \in wakeList'[task'[x].cpu]
    BY <1>0, <1>c, <1>d, <1>f DEF SwInv, EventOK, CodeKept, TtwuKept, Basic
  <2> QED BY <2>1, <2>2, Zenon DEF EventOK
<1>8. IdleOK'
  BY <1>0, <1>d, <1>e, <1>f, Zenon DEF SwInv, IdleOK, Basic
<1>9. AffinityOK'
  BY <1>b, <1>c, <1>g DEF SwInv, AffinityOK, MaskKept
<1>10. Seen
  <2>1. Wakes(wakeList[c])
    BY <1>b, <1>c, <1>d, Zenon DEF Wakes, CodeKept
  <2>2. wakeList[c] \in SUBSET SwTasks
    BY Typed, Zenon
  <2> QED BY <2>1, <2>2, Zenon DEF Seen
<1> QED BY <1>1, <1>2, <1>3, <1>4, <1>5, <1>6, <1>7, <1>8, <1>9, <1>10, Zenon DEF SwInv

\* A new mask: a task queued on a CPU outside it gets a stopper behind it, one that is being
\* woken is marked late.
LEMMA SetAllowedInv ==
  ASSUME SwInv, NEW s \in Setters, NEW p \in SwTasks, NEW mask \in Masks[p],
         set_cpus_allowed_ptr(s, p, mask)
  PROVE  SwInv' /\ Seen
<1>0. Basic
  BY Basics, Zenon
<1>i. mask \in (SUBSET SwCpus) \ {{}}
  BY SmpWakeAssumption, Zenon
<1>a. setter[s].p = "nobody" /\ hot = "nobody"
  BY Zenon DEF set_cpus_allowed_ptr, Nobody
<1>b. PICK b \in BOOLEAN : b = (task[p].state = "waking" /\ task[p].cpu \notin mask)
  BY Zenon
<1>c. /\ task' \in [SwTasks -> TaskFields]
      /\ \A x \in SwTasks :
           /\ PlaceKept(x) /\ CodeKept(x) /\ task'[x].state = task[x].state
           /\ (x # p => MaskKept(x))
      /\ task'[p].allowed = mask /\ task'[p].late = b
  <2> DEFINE r == [task[p] EXCEPT !.allowed = mask, !.late = b]
  <2>1. task' = [task EXCEPT ![p] = r]
    BY <1>b, Zenon DEF set_cpus_allowed_ptr
  <2>2. task[p] \in TaskFields
    BY Typed, Zenon
  <2>3. /\ r \in TaskFields
        /\ r.allowed = mask /\ r.late = b /\ r.on_rq = task[p].on_rq
        /\ r.on_cpu = task[p].on_cpu /\ r.cpu = task[p].cpu /\ r.event = task[p].event
        /\ r.code = task[p].code /\ r.state = task[p].state
    BY <2>2, <1>i, Zenon DEF TaskFields
  <2> HIDE DEF r
  <2> QED BY <2>1, <2>3, Typed, Zenon DEF PlaceKept, MaskKept, CodeKept
<1>d. task[p].state = "waking" => task[p].cpu \in mask \/ b
  BY <1>b, Zenon
<1>e. PICK q \in SetterFields :
         /\ setter' = [setter EXCEPT ![s] = q]
         /\ \/ q = setter[s] /\ (task[p].cpu \in mask \/ ~task[p].on_rq)
            \/ q.p = p /\ q.src = task[p].cpu /\ q.dest \in mask /\ q.dest \in active
  <2>1. CASE task[p].cpu \in mask \/ ~task[p].on_rq
    <3>1. setter' = [setter EXCEPT ![s] = setter[s]] /\ setter[s] \in SetterFields
      BY <2>1, Typed, Zenon DEF set_cpus_allowed_ptr
    <3> QED BY <2>1, <3>1, Zenon
  <2>2. CASE ~(task[p].cpu \in mask \/ ~task[p].on_rq)
    <3>1. PICK d \in mask \cap active :
             setter' = [setter EXCEPT ![s] = [p |-> p, dest |-> d, src |-> task[p].cpu]]
      BY <2>2, Zenon DEF set_cpus_allowed_ptr
    <3>2. [p |-> p, dest |-> d, src |-> task[p].cpu] \in SetterFields
      BY <1>i, <1>0, Zenon DEF SetterFields, Basic
    <3> QED BY <3>1, <3>2, Zenon
  <2> QED BY <2>1, <2>2, Zenon
<1>h. setter' \in [Setters -> SetterFields]
  BY <1>e, Typed, Zenon
<1>f. /\ \A w \in Setters \ {s} : setter'[w] = setter[w]
      /\ setter'[s].p # "nobody" => setter'[s].dest \in active
      /\ task[p].on_rq /\ task[p].cpu \notin mask =>
            setter'[s].p = p /\ setter'[s].src = task[p].cpu /\ setter'[s].dest \in mask
  BY <1>a, <1>e, Typed, Zenon
<1>g. UNCHANGED <<cpu, rq, wakeList, online, active, hot>>
  BY Zenon DEF set_cpus_allowed_ptr
<1>1. Types'
  BY <1>c, <1>h, <1>g, Zenon DEF SwInv, Types
<1>2. MasksOK'
  BY <1>a, <1>d, <1>f, <1>g, Zenon DEF SwInv, MasksOK
<1>3. QueuedOnce'
  BY <1>c, <1>g DEF SwInv, QueuedOnce, PlaceKept
<1>4. OnCpuOK'
  BY <1>c, <1>g DEF SwInv, OnCpuOK, Holds, PlaceKept
<1>5. TtwuOK'
  <2>1. \A e \in SwCpus : cpu'[e].pc \in {"run", "switch"} <=> cpu'[e].p = Nobody
    BY <1>g, Zenon DEF SwInv, TtwuOK
  <2>2. \A e \in SwCpus : cpu'[e].pc = "remote" => task'[cpu'[e].p].state # "waking"
    BY <1>0, <1>c, <1>g DEF SwInv, TtwuOK, Basic
  <2>3. \A e \in SwCpus : cpu'[e].pc = "on_cpu" =>
          ~task'[cpu'[e].p].on_rq /\ task'[cpu'[e].p].state \in Asleep
    BY <1>0, <1>c, <1>g, Zenon DEF SwInv, TtwuOK, Asleep, PlaceKept, Nobody, Basic
  <2>4. \A e \in SwCpus : cpu'[e].pc = "queue" =>
          /\ task'[cpu'[e].p].state = "waking" /\ task'[cpu'[e].p].cpu \in online'
          /\ \A f \in SwCpus : cpu'[e].p \notin wakeList'[f]
    BY <1>0, <1>c, <1>g DEF SwInv, TtwuOK, PlaceKept, Basic
  <2>5. \A e, f \in SwCpus :
          cpu'[e].pc \in Holding /\ cpu'[f].pc \in Holding /\ cpu'[e].p = cpu'[f].p => e = f
    BY <1>g DEF SwInv, TtwuOK
  <2> QED BY <2>1, <2>2, <2>3, <2>4, <2>5, Zenon DEF TtwuOK
<1>6. WakingOK'
  BY <1>c, <1>d, <1>g DEF SwInv, WakingOK, PlaceKept, MaskKept
<1>7. EventOK'
  BY <1>c, <1>g DEF SwInv, EventOK, PlaceKept, CodeKept
<1>8. IdleOK'
  BY <1>g, Zenon DEF SwInv, IdleOK
<1>9. AffinityOK'
  BY <1>0, <1>a, <1>c, <1>f DEF SwInv, AffinityOK, PlaceKept, MaskKept, Basic
<1>10. Seen
  <2>1. Wakes({})
    BY <1>c, <1>g, Zenon DEF Wakes, PlaceKept, CodeKept
  <2>2. {} \in SUBSET SwTasks
    BY Zenon
  <2> QED BY <2>1, Zenon DEF Seen
<1> QED BY <1>1, <1>2, <1>3, <1>4, <1>5, <1>6, <1>7, <1>8, <1>9, <1>10, Zenon DEF SwInv

\* The stopper runs in place of the tasks of its CPU, so the task it moves is on no stack.
LEMMA StopMovesInv ==
  ASSUME SwInv, NEW c \in SwCpus, NEW s \in Setters, Runs(c), cpu[c].curr = Stop,
         NEW p \in SwTasks, NEW d \in active, setter[s].p = p, task[p].cpu = c,
         d \in task[p].allowed, task[p].on_rq,
         rq' = [rq EXCEPT ![c] = @ \ {p}, ![d] = @ \cup {p}],
         task' = [task EXCEPT ![p].cpu = d], cpu' = Noticed(cpu, d),
         setter' = [setter EXCEPT ![s] = [p |-> Nobody]],
         UNCHANGED <<wakeList, online, active, hot>>
  PROVE  SwInv' /\ Seen
<1>0. Basic
  BY Basics, Zenon
<1>a. d \in SwCpus /\ d \in online /\ c \in online
  BY Typed, Zenon DEF SwInv, MasksOK, Runs
<1>b. ~task[p].on_cpu /\ task[p].state # "waking"
  BY <1>0 DEF SwInv, OnCpuOK, Holds, Runs, WakingOK, Basic
<1>c. /\ task' \in [SwTasks -> TaskFields]
      /\ \A x \in SwTasks :
           /\ MaskKept(x) /\ CodeKept(x) /\ task'[x].on_rq = task[x].on_rq
           /\ task'[x].on_cpu = task[x].on_cpu /\ task'[x].state = task[x].state
           /\ (x # p => task'[x].cpu = task[x].cpu)
      /\ task'[p].cpu = d
  <2> DEFINE r == [task[p] EXCEPT !.cpu = d]
  <2>1. task' = [task EXCEPT ![p] = r]
    BY Zenon
  <2>2. task[p] \in TaskFields
    BY Typed, Zenon
  <2>3. /\ r \in TaskFields
        /\ r.cpu = d /\ r.on_rq = task[p].on_rq /\ r.on_cpu = task[p].on_cpu
        /\ r.allowed = task[p].allowed /\ r.late = task[p].late /\ r.event = task[p].event
        /\ r.code = task[p].code /\ r.state = task[p].state
    BY <2>2, Zenon DEF TaskFields
  <2> HIDE DEF r
  <2> QED BY <2>1, <2>3, Typed DEF MaskKept, CodeKept
<1>h. PICK b \in BOOLEAN : b = (cpu[d].need \/ cpu[d].curr = Idle)
  BY Zenon
<1>d. /\ cpu' \in [SwCpus -> CpuFields]
      /\ \A e \in SwCpus :
           /\ TtwuKept(e) /\ cpu'[e].curr = cpu[e].curr /\ cpu'[e].prev = cpu[e].prev
           /\ cpu'[e].ipi = cpu[e].ipi /\ (e # d => cpu'[e].need = cpu[e].need)
      /\ cpu'[d].need = b
  <2> DEFINE r == [cpu[d] EXCEPT !.need = b]
  <2>1. cpu' = [cpu EXCEPT ![d] = r]
    BY <1>h, Zenon DEF Noticed
  <2>2. cpu[d] \in CpuFields
    BY Typed, Zenon
  <2>3. /\ r \in CpuFields
        /\ r.need = b /\ r.curr = cpu[d].curr /\ r.prev = cpu[d].prev /\ r.pc = cpu[d].pc
        /\ r.p = cpu[d].p /\ r.ipi = cpu[d].ipi
    BY <2>2, Zenon DEF CpuFields
  <2> HIDE DEF r
  <2> QED BY <2>1, <2>3, Typed, Zenon DEF TtwuKept
<1>i. cpu[d].curr = Idle => b
  BY <1>h, Zenon
<1>j. cpu[d].need => b
  BY <1>h, Zenon
<1>e. /\ rq' \in [SwCpus -> SUBSET SwTasks]
      /\ \A e \in SwCpus : rq'[e] = IF e = d THEN rq[d] \cup {p}
                                   ELSE IF e = c THEN rq[c] \ {p} ELSE rq[e]
  <2> DEFINE f == [rq EXCEPT ![c] = rq[c] \ {p}]
  <2>1. rq' = [f EXCEPT ![d] = f[d] \cup {p}]
    BY Zenon
  <2>2. rq \in [SwCpus -> SUBSET SwTasks]
    BY Typed
  <2>3. /\ f \in [SwCpus -> SUBSET SwTasks]
        /\ \A e \in SwCpus : f[e] = IF e = c THEN rq[c] \ {p} ELSE rq[e]
    BY <2>2
  <2> HIDE DEF f
  <2>4. rq' \in [SwCpus -> SUBSET SwTasks]
    BY <1>a, <2>1, <2>3
  <2>5. \A e \in SwCpus : rq'[e] = IF e = d THEN f[d] \cup {p} ELSE f[e]
    BY <2>1, <2>3, Zenon
  <2>6. f[d] \cup {p} = rq[d] \cup {p}
    BY <1>a, <2>3
  <2> QED BY <2>3, <2>4, <2>5, <2>6, Zenon
<1>f. /\ setter' \in [Setters -> SetterFields]
      /\ \A w \in Setters \ {s} : setter'[w] = setter[w]
      /\ setter'[s].p = "nobody"
  <2>1. [p |-> Nobody] \in SetterFields /\ [p |-> Nobody].p = "nobody"
    BY Zenon DEF SetterFields, Nobody
  <2> QED BY <2>1, Typed, Zenon
<1>g. UNCHANGED <<wakeList, online, active, hot>>
  BY Zenon
<1>1. Types'
  BY <1>c, <1>d, <1>e, <1>f, Zenon DEF SwInv, Types
<1>2. MasksOK'
  BY <1>d, <1>e DEF SwInv, MasksOK, TtwuKept
<1>3. QueuedOnce'
  BY <1>c, <1>e DEF SwInv, QueuedOnce
<1>4. OnCpuOK'
  <2>1. \A x \in SwTasks, e \in SwCpus : Holds(e, x)' => task'[x].on_cpu /\ task'[x].cpu = e
    BY <1>b, <1>d DEF SwInv, OnCpuOK, Holds, TtwuKept
  <2>2. \A x \in SwTasks : task'[x].on_cpu => Holds(task[x].cpu, x)'
    BY <1>0, <1>b, <1>d DEF SwInv, OnCpuOK, Holds, TtwuKept, Basic
  <2>3. \A x \in SwTasks, e \in SwCpus : cpu'[e].curr = x => task'[x].on_rq
    BY <1>d DEF SwInv, OnCpuOK
  <2>4. \A e \in SwCpus : cpu'[e].pc = "switch" => cpu'[e].prev # cpu'[e].curr
    BY <1>d DEF SwInv, OnCpuOK, TtwuKept
  <2> QED BY <2>1, <2>2, <2>3, <2>4, Zenon DEF OnCpuOK
<1>5. TtwuOK'
  <2>1. \A e \in SwCpus : cpu'[e].pc \in {"run", "switch"} <=> cpu'[e].p = Nobody
    BY <1>d DEF SwInv, TtwuOK, TtwuKept
  <2>2. \A e \in SwCpus : cpu'[e].pc = "remote" => task'[cpu'[e].p].state # "waking"
    BY <1>d DEF SwInv, TtwuOK, TtwuKept
  <2>3. \A e \in SwCpus : cpu'[e].pc = "on_cpu" =>
          ~task'[cpu'[e].p].on_rq /\ task'[cpu'[e].p].state \in Asleep
    BY <1>d DEF SwInv, TtwuOK, TtwuKept
  <2>4. \A e \in SwCpus : cpu'[e].pc = "queue" =>
          /\ task'[cpu'[e].p].state = "waking" /\ task'[cpu'[e].p].cpu \in online'
          /\ \A f \in SwCpus : cpu'[e].p \notin wakeList'[f]
    BY <1>b, <1>d DEF SwInv, TtwuOK, TtwuKept
  <2>5. \A e, f \in SwCpus :
          cpu'[e].pc \in Holding /\ cpu'[f].pc \in Holding /\ cpu'[e].p = cpu'[f].p => e = f
    BY <1>d DEF SwInv, TtwuOK, TtwuKept
  <2> QED BY <2>1, <2>2, <2>3, <2>4, <2>5, Zenon DEF TtwuOK
<1>6. WakingOK'
  <2>1. \A x \in SwTasks : task'[x].state = "waking" =>
          /\ ~task'[x].on_rq
          /\ task'[x].cpu \in task'[x].allowed \/ task'[x].late
          /\ \/ \E e \in SwCpus : cpu'[e].pc = "queue" /\ cpu'[e].p = x
             \/ x \in wakeList'[task'[x].cpu]
    BY <1>d DEF SwInv, WakingOK, TtwuKept
  <2>2. \A x \in SwTasks : task'[x].state = "running" => task'[x].on_rq
    BY DEF SwInv, WakingOK
  <2>3. \A e \in SwCpus, x \in SwTasks : x \in wakeList'[e] =>
          task'[x].state = "waking" /\ task'[x].cpu = e
    BY DEF SwInv, WakingOK
  <2>4. \A e \in SwCpus : wakeList'[e] # {} => cpu'[e].ipi
    BY <1>d DEF SwInv, WakingOK
  <2> QED BY <2>1, <2>2, <2>3, <2>4, Zenon DEF WakingOK
<1>7. EventOK'
  <2>1. \A x \in SwTasks :
          task'[x].event /\ task'[x].on_rq /\ task'[x].code = "sleep" /\ task'[x].state # "running"
             => \E e \in SwCpus : cpu'[e].p = x
    BY <1>d DEF SwInv, EventOK, TtwuKept
  <2>2. \A x \in SwTasks :
          task'[x].event /\ ~task'[x].on_rq
             => \/ \E e \in SwCpus : cpu'[e].p = x
                \/ x \in wakeList'[task'[x].cpu]
    BY <1>d DEF SwInv, EventOK, TtwuKept
  <2> QED BY <2>1, <2>2, Zenon DEF EventOK
<1>8. IdleOK'
  BY <1>d, <1>i, <1>e DEF SwInv, IdleOK
<1>9. AffinityOK'
  BY <1>c DEF SwInv, AffinityOK
<1>10. Seen
  <2>1. Wakes({})
    BY <1>d DEF Wakes
  <2>2. {} \in SUBSET SwTasks
    BY Zenon
  <2> QED BY <2>1, Zenon DEF Seen
<1> QED BY <1>1, <1>2, <1>3, <1>4, <1>5, <1>6, <1>7, <1>8, <1>9, <1>10, Zenon DEF SwInv

\* The stopper leaves the task where it is only if it may stay there, or another stopper is
\* behind it: this one would have been able to move it.
LEMMA StopLeavesInv ==
  ASSUME SwInv, NEW c \in SwCpus, NEW s \in Setters,
         NEW p \in SwTasks, NEW d \in active, setter[s].p = p, setter[s].dest = d, setter[s].src = c,
         ~(task[p].cpu = c /\ d \in task[p].allowed /\ task[p].on_rq),
         setter' = [setter EXCEPT ![s] = [p |-> Nobody]],
         UNCHANGED <<rq, task, cpu, wakeList, online, active, hot>>
  PROVE  SwInv' /\ Seen
<1>0. Basic
  BY Basics, Zenon
<1>a. /\ setter' \in [Setters -> SetterFields]
      /\ \A w \in Setters \ {s} : setter'[w] = setter[w]
      /\ setter'[s].p = "nobody"
  <2>1. [p |-> Nobody] \in SetterFields /\ [p |-> Nobody].p = "nobody"
    BY Zenon DEF SetterFields, Nobody
  <2> QED BY <2>1, Typed, Zenon
<1>b. UNCHANGED <<task, cpu, rq, wakeList, online, active, hot>>
  BY Zenon
<1>1. Types'
  BY <1>a, Zenon DEF SwInv, Types
<1>2. MasksOK'
  BY <1>a, Zenon DEF SwInv, MasksOK
<1>3. QueuedOnce'
  BY Zenon DEF SwInv, QueuedOnce
<1>4. OnCpuOK'
  BY DEF SwInv, OnCpuOK, Holds
<1>5. TtwuOK'
  BY DEF SwInv, TtwuOK
<1>6. WakingOK'
  BY Zenon DEF SwInv, WakingOK
<1>7. EventOK'
  BY Zenon DEF SwInv, EventOK
<1>8. IdleOK'
  BY Zenon DEF SwInv, IdleOK
<1>9. AffinityOK'
  BY DEF SwInv, AffinityOK
<1>10. Seen
  <2>1. Wakes({})
    BY Zenon DEF Wakes
  <2>2. {} \in SUBSET SwTasks
    BY Zenon
  <2> QED BY <2>1, Zenon DEF Seen
<1> QED BY <1>1, <1>2, <1>3, <1>4, <1>5, <1>6, <1>7, <1>8, <1>9, <1>10, Zenon DEF SwInv

\* The stopper moves the task of one of its callers, or leaves it.
LEMMA StopInv ==
  ASSUME SwInv, NEW c \in SwCpus, migration_cpu_stop(c)
  PROVE  SwInv' /\ Seen
<1>1. Runs(c) /\ cpu[c].curr = Stop /\ UNCHANGED <<wakeList, online, active, hot>>
  BY Zenon DEF migration_cpu_stop
<1>2. PICK s \in Setters :
         /\ setter[s].p # Nobody /\ setter[s].src = c
         /\ IF /\ task[setter[s].p].cpu = c /\ setter[s].dest \in task[setter[s].p].allowed
               /\ setter[s].dest \in active /\ task[setter[s].p].on_rq
            THEN /\ rq' = [rq EXCEPT ![c] = @ \ {setter[s].p},
                                     ![setter[s].dest] = @ \cup {setter[s].p}]
                 /\ task' = [task EXCEPT ![setter[s].p].cpu = setter[s].dest]
                 /\ cpu' = Noticed(cpu, setter[s].dest)
            ELSE UNCHANGED <<rq, task, cpu>>
         /\ setter' = [setter EXCEPT ![s] = [p |-> Nobody]]
  BY Zenon DEF migration_cpu_stop
<1>3. PICK p \in SwTasks, d \in active : p = setter[s].p /\ d = setter[s].dest
  <2>1. setter[s] \in SetterFields /\ setter[s].dest \in active
    BY <1>2, Typed, Zenon DEF SwInv, MasksOK
  <2> QED BY <1>2, <2>1, Zenon DEF SetterFields
<1>4. CASE task[p].cpu = c /\ d \in task[p].allowed /\ task[p].on_rq
  <2>1. /\ rq' = [rq EXCEPT ![c] = @ \ {p}, ![d] = @ \cup {p}]
        /\ task' = [task EXCEPT ![p].cpu = d] /\ cpu' = Noticed(cpu, d)
    BY <1>2, <1>3, <1>4, Zenon
  <2> QED BY <1>1, <1>2, <1>3, <1>4, StopMovesInv, Zenon
<1>5. CASE ~(task[p].cpu = c /\ d \in task[p].allowed /\ task[p].on_rq)
  <2>1. UNCHANGED <<rq, task, cpu>>
    BY <1>2, <1>3, <1>5, Zenon
  <2> QED BY <1>1, <1>2, <1>3, <1>5, StopLeavesInv, Zenon
<1> QED BY <1>4, <1>5, Zenon

\* Another CPU stays active, and no stopper is waited for.
LEMMA InactiveInv ==
  ASSUME SwInv, NEW c \in Hotplug, sched_cpu_inactive(c)
  PROVE  SwInv' /\ Seen
<1>0. Basic
  BY Basics, Zenon
<1>a. /\ c \in active /\ active # {c} /\ active' = active \ {c} /\ hot' = c /\ c \in SwCpus
      /\ \A s \in Setters : setter[s].p = "nobody"
  BY Typed, Zenon DEF sched_cpu_inactive, Nobody
<1>b. UNCHANGED <<task, cpu, rq, wakeList, setter, online>>
  BY Zenon DEF sched_cpu_inactive
<1>1. Types'
  BY <1>a, <1>b, Zenon DEF SwInv, Types
<1>2. MasksOK'
  BY <1>a, <1>b, Zenon DEF SwInv, MasksOK, Nobody
<1>3. QueuedOnce'
  BY <1>b, Zenon DEF SwInv, QueuedOnce
<1>4. OnCpuOK'
  BY <1>b DEF SwInv, OnCpuOK, Holds
<1>5. TtwuOK'
  BY <1>b, Zenon DEF SwInv, TtwuOK
<1>6. WakingOK'
  BY <1>b, Zenon DEF SwInv, WakingOK
<1>7. EventOK'
  BY <1>b, Zenon DEF SwInv, EventOK
<1>8. IdleOK'
  BY <1>b, Zenon DEF SwInv, IdleOK
<1>9. AffinityOK'
  BY <1>b, Zenon DEF SwInv, AffinityOK
<1>10. Seen
  <2>1. Wakes({})
    BY <1>b, Zenon DEF Wakes
  <2>2. {} \in SUBSET SwTasks
    BY Zenon
  <2> QED BY <2>1, Zenon DEF Seen
<1> QED BY <1>1, <1>2, <1>3, <1>4, <1>5, <1>6, <1>7, <1>8, <1>9, <1>10, Zenon DEF SwInv

\* The CPU that was not taken down is still online.
LEMMA ActiveInv ==
  ASSUME SwInv, NEW c \in Hotplug, sched_cpu_active(c)
  PROVE  SwInv' /\ Seen
<1>0. Basic
  BY Basics, Zenon
<1>a. /\ hot = c /\ c \in SwCpus /\ c # "nobody" /\ active' = active \cup {c} /\ hot' = "nobody"
  BY SmpWakeAssumption, Zenon DEF sched_cpu_active, Nobody
<1>b. UNCHANGED <<task, cpu, rq, wakeList, setter, online>>
  BY Zenon DEF sched_cpu_active
<1>1. Types'
  BY <1>a, <1>b, Zenon DEF SwInv, Types, Nobody
<1>2. MasksOK'
  BY <1>a, <1>b, Zenon DEF SwInv, MasksOK, Nobody
<1>3. QueuedOnce'
  BY <1>b, Zenon DEF SwInv, QueuedOnce
<1>4. OnCpuOK'
  BY <1>b DEF SwInv, OnCpuOK, Holds
<1>5. TtwuOK'
  BY <1>b, Zenon DEF SwInv, TtwuOK
<1>6. WakingOK'
  BY <1>b, Zenon DEF SwInv, WakingOK
<1>7. EventOK'
  BY <1>b, Zenon DEF SwInv, EventOK
<1>8. IdleOK'
  BY <1>b, Zenon DEF SwInv, IdleOK
<1>9. AffinityOK'
  BY <1>b, Zenon DEF SwInv, AffinityOK
<1>10. Seen
  <2>1. Wakes({})
    BY <1>b, Zenon DEF Wakes
  <2>2. {} \in SUBSET SwTasks
    BY Zenon
  <2> QED BY <2>1, Zenon DEF Seen
<1> QED BY <1>1, <1>2, <1>3, <1>4, <1>5, <1>6, <1>7, <1>8, <1>9, <1>10, Zenon DEF SwInv

\* A CPU that comes up has nothing.
LEMMA OnlineInv ==
  ASSUME SwInv, NEW c \in Hotplug, migration_call_online(c)
  PROVE  SwInv' /\ Seen
<1>0. Basic
  BY Basics, Zenon
<1>a. /\ c \in SwCpus /\ hot = "nobody" /\ online' = online \cup {c} /\ active' = active \cup {c}
  BY SmpWakeAssumption, Zenon DEF migration_call_online, Nobody
<1>b. UNCHANGED <<task, cpu, rq, wakeList, setter, hot>>
  BY Zenon DEF migration_call_online
<1>1. Types'
  BY <1>a, <1>b, Zenon DEF SwInv, Types
<1>2. MasksOK'
  BY <1>a, <1>b, Zenon DEF SwInv, MasksOK, Nobody
<1>3. QueuedOnce'
  BY <1>b, Zenon DEF SwInv, QueuedOnce
<1>4. OnCpuOK'
  BY <1>b, Zenon DEF SwInv, OnCpuOK, Holds
<1>5. TtwuOK'
  BY <1>a, <1>b, Zenon DEF SwInv, TtwuOK
<1>6. WakingOK'
  BY <1>b, Zenon DEF SwInv, WakingOK
<1>7. EventOK'
  BY <1>b, Zenon DEF SwInv, EventOK
<1>8. IdleOK'
  BY <1>b, Zenon DEF SwInv, IdleOK
<1>9. AffinityOK'
  BY <1>b, Zenon DEF SwInv, AffinityOK
<1>10. Seen
  <2>1. Wakes({})
    BY <1>b, Zenon DEF Wakes
  <2>2. {} \in SUBSET SwTasks
    BY Zenon
  <2> QED BY <2>1, Zenon DEF Seen
<1> QED BY <1>1, <1>2, <1>3, <1>4, <1>5, <1>6, <1>7, <1>8, <1>9, <1>10, Zenon DEF SwInv

\* With every CPU in its stopper no task runs, and none is being woken.
LEMMA Stopped ==
  ASSUME SwInv, \A d \in online : cpu[d].curr = Stop /\ cpu[d].pc = "run"
  PROVE  /\ \A d \in SwCpus : /\ cpu[d].pc = "run" /\ cpu[d].p = Nobody
                              /\ cpu[d].curr = Idle => d \notin online
         /\ \A x \in SwTasks : /\ ~task[x].on_cpu
                               /\ \A d \in SwCpus : cpu[d].curr # x /\ cpu[d].p # x
<1>0. Basic
  BY Basics, Zenon
<1>1. \A d \in SwCpus : cpu[d].pc = "run" /\ cpu[d].curr \in {Idle, Stop}
  BY Zenon DEF SwInv, MasksOK
<1>2. \A d \in SwCpus : cpu[d].p = Nobody
  BY <1>1, Zenon DEF SwInv, TtwuOK
<1>3. \A x \in SwTasks : x # Nobody /\ x # Idle /\ x # Stop
  BY SmpWakeAssumption, Zenon DEF Nobody
<1>4. \A x \in SwTasks : ~task[x].on_cpu
  BY <1>1, <1>0 DEF SwInv, OnCpuOK, Holds, Basic
<1> QED BY <1>1, <1>2, <1>3, <1>4, SmpWakeAssumption, Zenon

\* What is on a queue or a wake list.
Left(c) == rq[c] \cup wakeList[c]

\* migrate_tasks: where the tasks of the CPU that goes down are afterwards.
LEMMA Migrated ==
  ASSUME SwInv, NEW c \in SwCpus, migration_call_dying(c)
  PROVE  /\ task' \in [SwTasks -> TaskFields] /\ rq' \in [SwCpus -> SUBSET SwTasks]
         /\ \A x \in SwTasks :
               /\ task'[x].on_cpu = task[x].on_cpu /\ CodeKept(x)
               /\ x \notin Left(c) => PlaceKept(x) /\ MaskKept(x) /\ task'[x].state = task[x].state
               /\ x \in Left(c) =>
                     /\ task'[x].on_rq /\ task'[x].cpu \in active /\ task'[x].cpu \in task'[x].allowed
                     /\ x \in wakeList[c] => task'[x].state = "running"
                     /\ x \notin wakeList[c] => task'[x].state = task[x].state
         /\ rq'[c] = {}
         /\ \A x \in SwTasks, e \in SwCpus \ {c} :
               x \in rq'[e] <=> x \in rq[e] \/ (x \in Left(c) /\ task'[x].cpu = e)
<1>0. Basic
  BY Basics, Zenon
<1>1. PICK dest \in [Activated(c).rq -> active] :
         /\ \A t \in Activated(c).rq : dest[t] \in select_fallback_rq(t).cpus
         /\ task' = [t \in SwTasks |->
                       IF t \in Activated(c).rq
                       THEN [Activated(c).task[t] EXCEPT !.cpu = dest[t],
                                 !.allowed = select_fallback_rq(t).mask, !.late = FALSE]
                       ELSE task[t]]
         /\ rq' = [e \in SwCpus |-> IF e = c THEN {}
                                    ELSE rq[e] \cup {t \in Activated(c).rq : dest[t] = e}]
  BY Zenon DEF migration_call_dying
<1>8. Activated(c).rq = Left(c)
  BY Zenon DEF Activated, Left
<1>2. Left(c) \subseteq SwTasks /\ \A x \in Left(c) : x \in wakeList[c] \/ task[x].on_rq
  BY <1>0, Zenon DEF SwInv, QueuedOnce, Left, Basic
<1>3. ASSUME NEW x \in SwTasks
      PROVE  /\ task'[x] \in TaskFields
             /\ task'[x].on_cpu = task[x].on_cpu /\ CodeKept(x)
             /\ x \notin Left(c) => PlaceKept(x) /\ MaskKept(x) /\ task'[x].state = task[x].state
             /\ x \in Left(c) =>
                   /\ task'[x].on_rq /\ task'[x].cpu = dest[x] /\ dest[x] \in active
                   /\ dest[x] \in task'[x].allowed
                   /\ x \in wakeList[c] => task'[x].state = "running"
                   /\ x \notin wakeList[c] => task'[x].state = task[x].state
  <2>1. CASE x \notin Left(c)
    <3>1. task'[x] = task[x] /\ task[x] \in TaskFields
      BY <1>8, <1>1, <2>1, Typed, Zenon
    <3> QED BY <2>1, <3>1, Zenon DEF PlaceKept, MaskKept, CodeKept
  <2>2. CASE x \in Left(c)
    <3> DEFINE a == Activated(c).task[x]
               m == select_fallback_rq(x).mask
               r == [a EXCEPT !.cpu = dest[x], !.allowed = m, !.late = FALSE]
    <3>1. task'[x] = r
      BY <1>8, <1>1, <2>2, Zenon
    <3>2. /\ a \in TaskFields
          /\ a.on_cpu = task[x].on_cpu /\ a.event = task[x].event /\ a.code = task[x].code
          /\ a.on_rq /\ x \in wakeList[c] => a.state = "running"
          /\ x \notin wakeList[c] => a.on_rq /\ a.state = task[x].state
      BY <1>2, <2>2, ActivatedTask
    <3>3. a.on_rq
      BY <1>2, <2>2, ActivatedTask, Zenon
    <3>4. dest[x] \in active /\ dest[x] \in SwCpus /\ dest[x] \in m /\ m \in (SUBSET SwCpus) \ {{}}
      <4>1. dest[x] \in active /\ dest[x] \in select_fallback_rq(x).cpus
        BY <1>8, <1>1, <2>2, Zenon
      <4>2. /\ select_fallback_rq(x).cpus \subseteq m /\ m \subseteq SwCpus
        BY FallbackMask, Zenon
      <4>3. active \subseteq SwCpus
        BY Typed, Zenon
      <4> HIDE DEF m
      <4> QED BY <4>1, <4>2, Zenon
    <3> HIDE DEF a, m
    <3>5. /\ r \in TaskFields /\ r.cpu = dest[x] /\ r.allowed = m /\ r.state = a.state
          /\ r.on_cpu = a.on_cpu /\ r.on_rq = a.on_rq /\ r.event = a.event /\ r.code = a.code
      BY <3>2, <3>4, Zenon DEF TaskFields
    <3> HIDE DEF r
    <3> QED BY <2>2, <3>1, <3>2, <3>3, <3>4, <3>5, Zenon DEF CodeKept
  <2> QED BY <2>1, <2>2, Zenon
<1>4. \A e \in SwCpus : rq'[e] = IF e = c THEN {} ELSE rq[e] \cup {t \in Left(c) : dest[t] = e}
  BY <1>8, <1>1, Zenon
<1>5. rq' \in [SwCpus -> SUBSET SwTasks]
  <2>1. rq' = [e \in SwCpus |-> rq'[e]]
    BY <1>1, Zenon
  <2>2. \A e \in SwCpus : rq'[e] \subseteq SwTasks
    BY <1>2, <1>4, <1>0, Zenon DEF Basic
  <2> QED BY <2>1, <2>2, Zenon
<1>6. task' \in [SwTasks -> TaskFields]
  <2>1. task' = [x \in SwTasks |-> task'[x]]
    BY <1>1, Zenon
  <2> QED BY <1>3, <2>1, Zenon
<1>7. \A x \in SwTasks, e \in SwCpus \ {c} :
          x \in rq'[e] <=> x \in rq[e] \/ (x \in Left(c) /\ task'[x].cpu = e)
  <2> SUFFICES ASSUME NEW x \in SwTasks, NEW e \in SwCpus, e # c
               PROVE  x \in rq'[e] <=> x \in rq[e] \/ (x \in Left(c) /\ task'[x].cpu = e)
    BY Zenon
  <2>1. x \in rq'[e] <=> x \in rq[e] \/ (x \in Left(c) /\ dest[x] = e)
    BY <1>4, Zenon
  <2>2. x \in Left(c) => task'[x].cpu = dest[x]
    BY <1>3, Zenon
  <2> QED BY <2>1, <2>2, Zenon
<1> QED BY <1>3, <1>4, <1>5, <1>6, <1>7, Zenon

\* The CPU that goes down leaves nothing behind: what was on its queue and on its wake list is
\* queued on active CPUs it may use, and nothing runs meanwhile.
LEMMA DyingInv ==
  ASSUME SwInv, NEW c \in SwCpus, Activated(c).load \in Nat, migration_call_dying(c)
  PROVE  SwInv' /\ Seen
<1>0. Basic
  BY Basics, Zenon
<1>a. /\ c # "nobody" /\ hot = c /\ c \in online /\ c \notin active
      /\ active \subseteq online /\ active # {} /\ active \subseteq SwCpus /\ online \subseteq SwCpus
      /\ \A s \in Setters : setter[s].p = "nobody"
  BY SmpWakeAssumption, Typed, Zenon DEF SwInv, migration_call_dying, MasksOK, Nobody
<1>b. /\ \A e \in SwCpus : cpu[e].pc = "run" /\ cpu[e].p = "nobody"
      /\ \A e \in SwCpus : cpu[e].curr = Idle => e \notin online
      /\ \A x \in SwTasks : ~task[x].on_cpu
      /\ \A x \in SwTasks, e \in SwCpus : cpu[e].curr # x /\ cpu[e].p # x
  BY Stopped, Zenon DEF migration_call_dying, Nobody
<1>c. \A x \in SwTasks : /\ x \in Left(c) <=> x \in rq[c] \/ x \in wakeList[c]
                         /\ x \in Left(c) => task[x].cpu = c
                         /\ x \in rq[c] => task[x].on_rq /\ task[x].state # "waking"
  BY Zenon DEF SwInv, WakingOK, QueuedOnce, Left
<1>d. /\ \A x \in SwTasks :
            /\ task'[x].on_cpu = task[x].on_cpu /\ CodeKept(x)
            /\ x \notin Left(c) => PlaceKept(x) /\ MaskKept(x) /\ task'[x].state = task[x].state
            /\ x \in Left(c) =>
                  /\ task'[x].on_rq /\ task'[x].cpu \in active /\ task'[x].cpu \in task'[x].allowed
                  /\ x \in wakeList[c] => task'[x].state = "running"
                  /\ x \notin wakeList[c] => task'[x].state = task[x].state
      /\ rq'[c] = {}
      /\ \A x \in SwTasks, e \in SwCpus \ {c} :
            x \in rq'[e] <=> x \in rq[e] \/ (x \in Left(c) /\ task'[x].cpu = e)
  BY Migrated, Zenon
<1>n. PICK n \in Int : n = (cpu[c].uninterruptible - Activated(c).load) % Word
  BY Typed, WordPositive DEF CpuFields
<1>e. /\ cpu' \in [SwCpus -> CpuFields]
      /\ \A e \in SwCpus :
           /\ TtwuKept(e) /\ cpu'[e].prev = cpu[e].prev
           /\ (e # c => cpu'[e].curr = cpu[e].curr /\ cpu'[e].need = cpu[e].need /\ cpu'[e].ipi = cpu[e].ipi)
      /\ cpu'[c].curr = Idle
  <2> DEFINE r == [cpu[c] EXCEPT !.curr = Idle, !.ipi = FALSE, !.need = FALSE, !.uninterruptible = n]
  <2>1. cpu' = [cpu EXCEPT ![c] = r]
    BY <1>n, Zenon DEF migration_call_dying
  <2>2. cpu[c] \in CpuFields
    BY Typed, Zenon
  <2>3. /\ r \in CpuFields
        /\ r.curr = Idle /\ r.pc = cpu[c].pc /\ r.p = cpu[c].p /\ r.prev = cpu[c].prev
    BY <2>2, Zenon DEF CpuFields, Anyone
  <2> HIDE DEF r
  <2> QED BY <2>1, <2>3, Typed, Zenon DEF TtwuKept
<1>h. /\ \A e \in SwCpus : cpu'[e].pc = "run" /\ cpu'[e].p = "nobody"
      /\ \A x \in SwTasks, e \in SwCpus : cpu'[e].curr # x
  BY <1>b, <1>e, <1>0 DEF TtwuKept, Basic
<1>f. wakeList'[c] = {} /\ \A e \in SwCpus \ {c} : wakeList'[e] = wakeList[e]
  BY Typed, Zenon DEF migration_call_dying
<1>g. setter' = setter /\ active' = active /\ online' = online \ {c} /\ hot' = "nobody"
  BY Zenon DEF migration_call_dying, Nobody
<1>i. \A e \in SwCpus \ online' : rq'[e] = {}
  <2>1. \A e \in SwCpus \ online' : e = c \/ (e \notin active /\ rq[e] = {})
    BY <1>g, Zenon DEF SwInv, MasksOK
  <2>2. rq' \in [SwCpus -> SUBSET SwTasks]
    BY Migrated, Zenon
  <2>3. \A e \in SwCpus \ online', x \in SwTasks : x \notin rq'[e]
    BY <1>d, <2>1
  <2> QED BY <2>2, <2>3, Zenon
<1>1. Types'
  <2>1. task' \in [SwTasks -> TaskFields] /\ rq' \in [SwCpus -> SUBSET SwTasks]
    BY Migrated, Zenon
  <2>2. wakeList' \in [SwCpus -> SUBSET SwTasks]
    BY Typed, Zenon DEF migration_call_dying
  <2> QED BY <2>1, <2>2, <1>e, <1>g, Zenon DEF SwInv, Types, Nobody
<1>2. MasksOK'
  BY <1>a, <1>e, <1>f, <1>g, <1>h, <1>i DEF SwInv, MasksOK, Nobody
<1>3. QueuedOnce'
  BY <1>a, <1>c, <1>d DEF SwInv, QueuedOnce, PlaceKept
<1>4. OnCpuOK'
  BY <1>b, <1>d, <1>h DEF OnCpuOK, Holds
<1>5. TtwuOK'
  BY <1>h, Zenon DEF TtwuOK, Holding, Nobody
<1>6. WakingOK'
  <2>1. \A x \in SwTasks : task'[x].state = "waking" => x \notin Left(c)
    BY <1>c, <1>d, Zenon
  <2>2. \A x \in SwTasks : task[x].state = "waking" => x \in wakeList[task[x].cpu]
    BY <1>b, Zenon DEF SwInv, WakingOK
  <2>3. \A x \in SwTasks, e \in SwCpus : x \in wakeList[e] => task[x].state = "waking" /\ task[x].cpu = e
    BY Zenon DEF SwInv, WakingOK
  <2>4. \A x \in SwTasks : task'[x].state = "waking" =>
          /\ ~task'[x].on_rq
          /\ task'[x].cpu \in task'[x].allowed \/ task'[x].late
          /\ x \in wakeList'[task'[x].cpu]
    BY <1>0, <1>c, <1>d, <1>f, <2>2 DEF SwInv, WakingOK, PlaceKept, MaskKept, Basic
  <2>5. \A x \in SwTasks : task'[x].state = "running" => task'[x].on_rq
    BY <1>d, Zenon DEF SwInv, WakingOK, PlaceKept
  <2>6. \A e \in SwCpus, x \in SwTasks : x \in wakeList'[e] =>
          task'[x].state = "waking" /\ task'[x].cpu = e
    BY <1>c, <1>d, <1>f, <2>3 DEF PlaceKept
  <2>7. \A e \in SwCpus : wakeList'[e] # {} => cpu'[e].ipi
    BY <1>e, <1>f, Zenon DEF SwInv, WakingOK
  <2> QED BY <2>4, <2>5, <2>6, <2>7, Zenon DEF WakingOK
<1>7. EventOK'
  <2>1. \A x \in SwTasks :
          ~(task'[x].event /\ task'[x].on_rq /\ task'[x].code = "sleep" /\ task'[x].state # "running")
    BY <1>b, <1>c, <1>d DEF SwInv, EventOK, PlaceKept, CodeKept
  <2>2. \A x \in SwTasks : task'[x].event /\ ~task'[x].on_rq => x \in wakeList'[task'[x].cpu]
    BY <1>0, <1>b, <1>c, <1>d, <1>f DEF SwInv, EventOK, PlaceKept, CodeKept, Basic
  <2> QED BY <2>1, <2>2, Zenon DEF EventOK
<1>8. IdleOK'
  BY <1>b, <1>e, <1>g, <1>i, Zenon DEF IdleOK
<1>9. AffinityOK'
  BY <1>d, <1>g DEF SwInv, AffinityOK, PlaceKept, MaskKept
<1>10. Seen
  <2>1. \A x \in wakeList[c] : ~task[x].on_rq
    BY <1>0, Zenon DEF SwInv, WakingOK, Basic
  <2>2. Wakes(wakeList[c])
    BY <1>b, <1>c, <1>d, <1>h, <2>1 DEF Wakes, PlaceKept, CodeKept
  <2>3. wakeList[c] \in SUBSET SwTasks
    BY Typed, Zenon
  <2> QED BY <2>2, <2>3, Zenon DEF Seen
<1> QED BY <1>1, <1>2, <1>3, <1>4, <1>5, <1>6, <1>7, <1>8, <1>9, <1>10, Zenon DEF SwInv

-----------------------------------------------------------------------------
(***************************************************************************)
(* schedule()                                                              *)
(***************************************************************************)

\* schedule(), called by a task that has decided to sleep, by the idle task or the stopper.
LEMMA Scheduled ==
  ASSUME SwInv, NEW c \in SwCpus, Runs(c), __schedule(c, FALSE),
         cpu[c].curr \in SwTasks => task[cpu[c].curr].code = "sleep"
  PROVE  Types' /\ \E off \in SUBSET SwTasks, next \in Anyone : Switches(c, off, next)
<1>0. Basic
  BY Basics, Zenon
<1> DEFINE prev == cpu[c].curr
           sleeps == prev \in SwTasks /\ ~FALSE /\ task[prev].state # "running"
           off == IF sleeps THEN {prev} ELSE {}
<1>1. PICK next \in Pick(c, IF sleeps THEN rq[c] \ {prev} ELSE rq[c]) :
          /\ rq' = [rq EXCEPT ![c] = IF sleeps THEN rq[c] \ {prev} ELSE rq[c]]
          /\ task' = [t \in SwTasks |->
                        [task[t] EXCEPT !.on_rq = @ /\ ~(sleeps /\ t = prev),
                                        !.on_cpu = @ \/ t = next,
                                        !.code = IF t = prev /\ ~FALSE THEN "work" ELSE @]]
          /\ cpu' = [cpu EXCEPT ![c].curr = next, ![c].prev = prev, ![c].need = FALSE,
                                ![c].pc = IF next = prev THEN "run" ELSE "switch",
                                ![c].uninterruptible =
                                    IF sleeps /\ task[prev].state = "uninterruptible"
                                    THEN (@ + 1) % Word ELSE @]
          /\ UNCHANGED <<wakeList, setter, online, active, hot>>
  BY Zenon DEF __schedule
<1>2. off \in SUBSET SwTasks /\ (IF sleeps THEN rq[c] \ {prev} ELSE rq[c]) = rq[c] \ off
  BY Zenon
<1>3. /\ next \in rq[c] \ off \/ next = Stop \/ (next = Idle /\ rq[c] \subseteq off)
      /\ next \in Anyone /\ prev \in Anyone
  BY <1>0, Zenon DEF Pick, Anyone, Basic
<1>4. \A x \in off : x = prev /\ task[x].state # "running" /\ task[x].code = "sleep"
  BY Zenon
<1>5. \A x \in SwTasks :
          /\ task'[x] \in TaskFields
          /\ task'[x].on_rq <=> task[x].on_rq /\ x \notin off
          /\ task'[x].on_cpu <=> task[x].on_cpu \/ x = next
          /\ task'[x].cpu = task[x].cpu /\ task'[x].state = task[x].state
          /\ MaskKept(x) /\ task'[x].event = task[x].event
          /\ task'[x].code \in {task[x].code, "work"}
  <2> SUFFICES ASSUME NEW x \in SwTasks
               PROVE  /\ task'[x] \in TaskFields
                      /\ task'[x].on_rq <=> task[x].on_rq /\ x \notin off
                      /\ task'[x].on_cpu <=> task[x].on_cpu \/ x = next
                      /\ task'[x].cpu = task[x].cpu /\ task'[x].state = task[x].state
                      /\ MaskKept(x) /\ task'[x].event = task[x].event
                      /\ task'[x].code \in {task[x].code, "work"}
    BY Zenon
  <2>1. task[x] \in TaskFields
    BY Typed, Zenon
  <2>2. task'[x] = [task[x] EXCEPT !.on_rq = @ /\ ~(sleeps /\ x = prev),
                                   !.on_cpu = @ \/ x = next,
                                   !.code = IF x = prev /\ ~FALSE THEN "work" ELSE @]
    BY <1>1, Zenon
  <2>3. x \in off <=> sleeps /\ x = prev
    BY Zenon
  <2> HIDE DEF off, sleeps, prev
  <2> QED BY <2>1, <2>2, <2>3, Zenon DEF TaskFields, MaskKept
<1>6. /\ \A d \in SwCpus : rq'[d] = IF d = c THEN rq[c] \ off ELSE rq[d]
      /\ rq' \in [SwCpus -> SUBSET SwTasks]
  <2> HIDE DEF off, sleeps, prev
  <2> QED BY <1>1, <1>2, Typed, Zenon
<1>7. /\ cpu' \in [SwCpus -> CpuFields]
      /\ \A d \in SwCpus \ {c} : RunKept(d) /\ TtwuKept(d)
      /\ \A d \in SwCpus : cpu'[d].ipi = cpu[d].ipi /\ cpu'[d].p = cpu[d].p
      /\ cpu'[c].curr = next /\ cpu'[c].prev = prev
      /\ cpu'[c].pc = IF next = prev THEN "run" ELSE "switch"
  <2> DEFINE k == IF sleeps /\ task[prev].state = "uninterruptible"
                  THEN (cpu[c].uninterruptible + 1) % Word ELSE cpu[c].uninterruptible
             r == [cpu[c] EXCEPT !.curr = next, !.prev = prev, !.need = FALSE,
                                 !.pc = IF next = prev THEN "run" ELSE "switch",
                                 !.uninterruptible = k]
  <2>1. cpu[c] \in CpuFields
    BY Typed, Zenon
  <2>2. k \in Int
    <3> HIDE DEF sleeps, prev
    <3> QED BY <2>1, WordPositive DEF CpuFields
  <2>3. cpu' = [cpu EXCEPT ![c] = r]
    <3> HIDE DEF sleeps, prev
    <3> QED BY <1>1, Zenon
  <2> HIDE DEF k, prev, sleeps, off
  <2>4. /\ r \in CpuFields /\ r.curr = next /\ r.prev = prev /\ r.ipi = cpu[c].ipi /\ r.p = cpu[c].p
        /\ r.pc = IF next = prev THEN "run" ELSE "switch"
    BY <1>3, <2>1, <2>2, Zenon DEF CpuFields
  <2> HIDE DEF r
  <2> QED BY <2>3, <2>4, Typed, Zenon DEF RunKept, TtwuKept
<1>8. task' \in [SwTasks -> TaskFields]
  <2>1. task' = [x \in SwTasks |-> task'[x]]
    BY <1>1, Zenon
  <2> QED BY <1>5, <2>1, Zenon
<1>9. Types'
  BY <1>1, <1>7, <1>8, Zenon DEF SwInv, Types
<1>10. Switches(c, off, next)
  BY <1>1, <1>3, <1>4, <1>5, <1>6, <1>7, Zenon DEF Switches
<1> QED BY <1>3, <1>9, <1>10, Zenon

\* preempt_schedule(): no task leaves the queue.
LEMMA Preempted ==
  ASSUME SwInv, NEW c \in SwCpus, Runs(c), __schedule(c, TRUE)
  PROVE  Types' /\ \E off \in SUBSET SwTasks, next \in Anyone : Switches(c, off, next)
<1>0. Basic
  BY Basics, Zenon
<1> DEFINE prev == cpu[c].curr
           sleeps == prev \in SwTasks /\ ~TRUE /\ task[prev].state # "running"
           off == IF sleeps THEN {prev} ELSE {}
<1>1. PICK next \in Pick(c, IF sleeps THEN rq[c] \ {prev} ELSE rq[c]) :
          /\ rq' = [rq EXCEPT ![c] = IF sleeps THEN rq[c] \ {prev} ELSE rq[c]]
          /\ task' = [t \in SwTasks |->
                        [task[t] EXCEPT !.on_rq = @ /\ ~(sleeps /\ t = prev),
                                        !.on_cpu = @ \/ t = next,
                                        !.code = IF t = prev /\ ~TRUE THEN "work" ELSE @]]
          /\ cpu' = [cpu EXCEPT ![c].curr = next, ![c].prev = prev, ![c].need = FALSE,
                                ![c].pc = IF next = prev THEN "run" ELSE "switch",
                                ![c].uninterruptible =
                                    IF sleeps /\ task[prev].state = "uninterruptible"
                                    THEN (@ + 1) % Word ELSE @]
          /\ UNCHANGED <<wakeList, setter, online, active, hot>>
  BY Zenon DEF __schedule
<1>2. off \in SUBSET SwTasks /\ (IF sleeps THEN rq[c] \ {prev} ELSE rq[c]) = rq[c] \ off
  BY Zenon
<1>3. /\ next \in rq[c] \ off \/ next = Stop \/ (next = Idle /\ rq[c] \subseteq off)
      /\ next \in Anyone /\ prev \in Anyone
  BY <1>0, Zenon DEF Pick, Anyone, Basic
<1>4. \A x \in off : x = prev /\ task[x].state # "running" /\ task[x].code = "sleep"
  BY Zenon
<1>5. \A x \in SwTasks :
          /\ task'[x] \in TaskFields
          /\ task'[x].on_rq <=> task[x].on_rq /\ x \notin off
          /\ task'[x].on_cpu <=> task[x].on_cpu \/ x = next
          /\ task'[x].cpu = task[x].cpu /\ task'[x].state = task[x].state
          /\ MaskKept(x) /\ task'[x].event = task[x].event
          /\ task'[x].code \in {task[x].code, "work"}
  <2> SUFFICES ASSUME NEW x \in SwTasks
               PROVE  /\ task'[x] \in TaskFields
                      /\ task'[x].on_rq <=> task[x].on_rq /\ x \notin off
                      /\ task'[x].on_cpu <=> task[x].on_cpu \/ x = next
                      /\ task'[x].cpu = task[x].cpu /\ task'[x].state = task[x].state
                      /\ MaskKept(x) /\ task'[x].event = task[x].event
                      /\ task'[x].code \in {task[x].code, "work"}
    BY Zenon
  <2>1. task[x] \in TaskFields
    BY Typed, Zenon
  <2>2. task'[x] = [task[x] EXCEPT !.on_rq = @ /\ ~(sleeps /\ x = prev),
                                   !.on_cpu = @ \/ x = next,
                                   !.code = IF x = prev /\ ~TRUE THEN "work" ELSE @]
    BY <1>1, Zenon
  <2>3. x \in off <=> sleeps /\ x = prev
    BY Zenon
  <2> HIDE DEF off, sleeps, prev
  <2> QED BY <2>1, <2>2, <2>3, Zenon DEF TaskFields, MaskKept
<1>6. /\ \A d \in SwCpus : rq'[d] = IF d = c THEN rq[c] \ off ELSE rq[d]
      /\ rq' \in [SwCpus -> SUBSET SwTasks]
  <2> HIDE DEF off, sleeps, prev
  <2> QED BY <1>1, <1>2, Typed, Zenon
<1>7. /\ cpu' \in [SwCpus -> CpuFields]
      /\ \A d \in SwCpus \ {c} : RunKept(d) /\ TtwuKept(d)
      /\ \A d \in SwCpus : cpu'[d].ipi = cpu[d].ipi /\ cpu'[d].p = cpu[d].p
      /\ cpu'[c].curr = next /\ cpu'[c].prev = prev
      /\ cpu'[c].pc = IF next = prev THEN "run" ELSE "switch"
  <2> DEFINE k == IF sleeps /\ task[prev].state = "uninterruptible"
                  THEN (cpu[c].uninterruptible + 1) % Word ELSE cpu[c].uninterruptible
             r == [cpu[c] EXCEPT !.curr = next, !.prev = prev, !.need = FALSE,
                                 !.pc = IF next = prev THEN "run" ELSE "switch",
                                 !.uninterruptible = k]
  <2>1. cpu[c] \in CpuFields
    BY Typed, Zenon
  <2>2. k \in Int
    <3> HIDE DEF sleeps, prev
    <3> QED BY <2>1, WordPositive DEF CpuFields
  <2>3. cpu' = [cpu EXCEPT ![c] = r]
    <3> HIDE DEF sleeps, prev
    <3> QED BY <1>1, Zenon
  <2> HIDE DEF k, prev, sleeps, off
  <2>4. /\ r \in CpuFields /\ r.curr = next /\ r.prev = prev /\ r.ipi = cpu[c].ipi /\ r.p = cpu[c].p
        /\ r.pc = IF next = prev THEN "run" ELSE "switch"
    BY <1>3, <2>1, <2>2, Zenon DEF CpuFields
  <2> HIDE DEF r
  <2> QED BY <2>3, <2>4, Typed, Zenon DEF RunKept, TtwuKept
<1>8. task' \in [SwTasks -> TaskFields]
  <2>1. task' = [x \in SwTasks |-> task'[x]]
    BY <1>1, Zenon
  <2> QED BY <1>5, <2>1, Zenon
<1>9. Types'
  BY <1>1, <1>7, <1>8, Zenon DEF SwInv, Types
<1>10. Switches(c, off, next)
  BY <1>1, <1>3, <1>5, <1>6, <1>7, Zenon DEF Switches
<1> QED BY <1>3, <1>9, <1>10, Zenon

\* A task that leaves the queue with an event posted has a waker behind it, and the idle task
\* is chosen only when the queue is empty.
LEMMA SwitchInv ==
  ASSUME SwInv, NEW c \in SwCpus, Runs(c), Types',
         NEW off \in SUBSET SwTasks, NEW next \in Anyone, Switches(c, off, next)
  PROVE  SwInv' /\ Seen
<1>0. Basic
  BY Basics, Zenon
<1>a. c \in online /\ cpu[c].pc = "run" /\ cpu[c].p = "nobody"
  BY Zenon DEF SwInv, Runs, TtwuOK, Nobody
<1>b. \A x \in off : /\ x = cpu[c].curr /\ task[x].state # "running" /\ task[x].code = "sleep"
                     /\ task[x].cpu = c
  BY DEF SwInv, Switches, OnCpuOK, Holds
<1>c. /\ next \in rq[c] \ off \/ next = Stop \/ (next = Idle /\ rq[c] \subseteq off)
      /\ next \in SwTasks => task[next].cpu = c /\ task[next].on_rq /\ next \notin off
  BY <1>0 DEF SwInv, Switches, QueuedOnce, Basic
<1>d. \A x \in SwTasks :
        /\ task'[x].on_rq <=> task[x].on_rq /\ x \notin off
        /\ task'[x].on_cpu <=> task[x].on_cpu \/ x = next
        /\ task'[x].cpu = task[x].cpu /\ task'[x].state = task[x].state
        /\ MaskKept(x) /\ task'[x].event = task[x].event
        /\ task'[x].code \in {task[x].code, "work"}
  BY Zenon DEF Switches
<1>e. /\ \A d \in SwCpus : rq'[d] = IF d = c THEN rq[c] \ off ELSE rq[d]
      /\ \A d \in SwCpus \ {c} : RunKept(d) /\ TtwuKept(d)
      /\ \A d \in SwCpus : cpu'[d].ipi = cpu[d].ipi /\ cpu'[d].p = cpu[d].p
  BY Zenon DEF Switches
<1>f. /\ cpu'[c].curr = next /\ cpu'[c].prev = cpu[c].curr
      /\ cpu'[c].pc = IF next = cpu[c].curr THEN "run" ELSE "switch"
  BY Zenon DEF Switches
<1>g. UNCHANGED <<wakeList, setter, online, active, hot>>
  BY Zenon DEF Switches
<1>1. Types'
  BY Zenon
<1>2. MasksOK'
  BY <1>a, <1>e, <1>g DEF SwInv, MasksOK, RunKept, TtwuKept
<1>3. QueuedOnce'
  BY <1>b, <1>d, <1>e DEF SwInv, QueuedOnce
<1>4. OnCpuOK'
  <2>1. \A x \in SwTasks, e \in SwCpus : Holds(e, x)' => task'[x].on_cpu /\ task'[x].cpu = e
    BY <1>c, <1>d, <1>e, <1>f DEF SwInv, OnCpuOK, Holds, RunKept, TtwuKept
  <2>2. \A x \in SwTasks : task'[x].on_cpu => Holds(task[x].cpu, x)'
    BY <1>0, <1>a, <1>c, <1>d, <1>e, <1>f DEF SwInv, OnCpuOK, Holds, RunKept, TtwuKept, Basic
  <2>3. \A x \in SwTasks, e \in SwCpus : cpu'[e].curr = x => task'[x].on_rq
    BY <1>b, <1>c, <1>d, <1>e, <1>f DEF SwInv, OnCpuOK, Holds, RunKept
  <2>4. \A e \in SwCpus : cpu'[e].pc = "switch" => cpu'[e].prev # cpu'[e].curr
    BY <1>e, <1>f DEF SwInv, OnCpuOK, RunKept, TtwuKept
  <2> QED BY <2>1, <2>2, <2>3, <2>4, Zenon DEF OnCpuOK
<1>5. TtwuOK'
  <2>1. \A e \in SwCpus : cpu'[e].pc \in {"run", "switch"} <=> cpu'[e].p = Nobody
    BY <1>a, <1>e, <1>f DEF SwInv, TtwuOK, TtwuKept
  <2>2. \A e \in SwCpus : cpu'[e].pc = "remote" => task'[cpu'[e].p].state # "waking"
    BY <1>0, <1>d, <1>e, <1>f DEF SwInv, TtwuOK, TtwuKept, Basic
  <2>3. \A e \in SwCpus : cpu'[e].pc = "on_cpu" =>
          ~task'[cpu'[e].p].on_rq /\ task'[cpu'[e].p].state \in Asleep
    BY <1>0, <1>d, <1>e, <1>f DEF SwInv, TtwuOK, TtwuKept, Basic
  <2>4. \A e \in SwCpus : cpu'[e].pc = "queue" =>
          /\ task'[cpu'[e].p].state = "waking" /\ task'[cpu'[e].p].cpu \in online'
          /\ \A f \in SwCpus : cpu'[e].p \notin wakeList'[f]
    BY <1>0, <1>d, <1>e, <1>f, <1>g DEF SwInv, TtwuOK, TtwuKept, Basic
  <2>5. \A e, f \in SwCpus :
          cpu'[e].pc \in Holding /\ cpu'[f].pc \in Holding /\ cpu'[e].p = cpu'[f].p => e = f
    BY <1>e, <1>f DEF SwInv, TtwuOK, Holding, TtwuKept
  <2> QED BY <2>1, <2>2, <2>3, <2>4, <2>5, Zenon DEF TtwuOK
<1>6. WakingOK'
  <2>1. \A x \in SwTasks : task'[x].state = "waking" =>
          /\ ~task'[x].on_rq
          /\ task'[x].cpu \in task'[x].allowed \/ task'[x].late
          /\ \/ \E e \in SwCpus : cpu'[e].pc = "queue" /\ cpu'[e].p = x
             \/ x \in wakeList'[task'[x].cpu]
    BY <1>a, <1>d, <1>e, <1>g DEF SwInv, WakingOK, MaskKept, TtwuKept
  <2>2. \A x \in SwTasks : task'[x].state = "running" => task'[x].on_rq
    BY <1>0, <1>b, <1>c, <1>d, <1>f, Zenon DEF SwInv, WakingOK, Asleep, Basic
  <2>3. \A e \in SwCpus, x \in SwTasks : x \in wakeList'[e] =>
          task'[x].state = "waking" /\ task'[x].cpu = e
    BY <1>d, <1>g DEF SwInv, WakingOK
  <2>4. \A e \in SwCpus : wakeList'[e] # {} => cpu'[e].ipi
    BY <1>0, <1>e, <1>g, Zenon DEF SwInv, WakingOK, Basic
  <2> QED BY <2>1, <2>2, <2>3, <2>4, Zenon DEF WakingOK
<1>7. EventOK'
  <2>1. \A x \in SwTasks :
          task'[x].event /\ task'[x].on_rq /\ task'[x].code = "sleep" /\ task'[x].state # "running"
             => \E e \in SwCpus : cpu'[e].p = x
    BY <1>d, <1>e DEF SwInv, EventOK
  <2>2. \A x \in SwTasks :
          task'[x].event /\ ~task'[x].on_rq
             => \/ \E e \in SwCpus : cpu'[e].p = x
                \/ x \in wakeList'[task'[x].cpu]
    BY <1>b, <1>d, <1>e, <1>g DEF SwInv, EventOK
  <2> QED BY <2>1, <2>2, Zenon DEF EventOK
<1>8. IdleOK'
  BY <1>0, <1>c, <1>e, <1>f DEF SwInv, IdleOK, RunKept, Basic
<1>9. AffinityOK'
  BY <1>d, <1>g DEF SwInv, AffinityOK, MaskKept
<1>10. Seen
  BY Zenon DEF Seen
<1> QED BY <1>2, <1>3, <1>4, <1>5, <1>6, <1>7, <1>8, <1>9, <1>10, Zenon DEF SwInv

\* Every way into __schedule keeps the invariant.
LEMMA ScheduleInv ==
  ASSUME SwInv, NEW c \in SwCpus,
         \/ cpu_idle(c)
         \/ \E t \in SwTasks : schedule(t, c) \/ preempt_schedule(t, c)
  PROVE  SwInv' /\ Seen
<1>1. CASE cpu_idle(c)
  <2>1. Runs(c) /\ cpu[c].curr \notin SwTasks /\ __schedule(c, FALSE)
    BY <1>1, SmpWakeAssumption, Zenon DEF cpu_idle
  <2> QED BY <2>1, Scheduled, SwitchInv, Zenon
<1>2. ASSUME NEW t \in SwTasks, schedule(t, c)
      PROVE  SwInv' /\ Seen
  <2>1. Runs(c) /\ cpu[c].curr = t /\ task[t].code = "sleep" /\ __schedule(c, FALSE)
    BY <1>2, Zenon DEF schedule, Current
  <2> QED BY <2>1, Scheduled, SwitchInv, Zenon
<1>3. ASSUME NEW t \in SwTasks, preempt_schedule(t, c)
      PROVE  SwInv' /\ Seen
  <2>1. Runs(c) /\ __schedule(c, TRUE)
    BY <1>3, Zenon DEF preempt_schedule, Current
  <2> QED BY <2>1, Preempted, SwitchInv, Zenon
<1> QED BY <1>1, <1>2, <1>3, Zenon

=============================================================================
