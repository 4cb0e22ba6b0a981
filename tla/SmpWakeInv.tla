------------------------------ MODULE SmpWakeInv ------------------------------
(***************************************************************************)
(* The inductive invariant of SmpWake, and the lemmas of the actions of a  *)
(* task and of the CPU that wakes it, up to where ttwu_queue places it:    *)
(* each keeps the invariant, and Seen says what the tasks notice of it.    *)
(***************************************************************************)
EXTENDS SmpWake, TLAPS

-----------------------------------------------------------------------------
(***************************************************************************)
(* The inductive invariant                                                 *)
(***************************************************************************)
Asleep == {"interruptible", "uninterruptible"}
Holding == {"remote", "on_cpu", "queue"}     \* where p->pi_lock is held
Anyone == SwTasks \cup {Idle, Stop}

TaskFields ==
    [state : Asleep \cup {"running", "waking"}, on_rq : BOOLEAN, on_cpu : BOOLEAN,
     cpu : SwCpus, allowed : (SUBSET SwCpus) \ {{}}, load : BOOLEAN, late : BOOLEAN,
     event : BOOLEAN, code : {"work", "look", "sleep"}]

CpuFields ==
    [pc : {"run", "switch", "lock"} \cup Holding, curr : Anyone, prev : Anyone,
     need : BOOLEAN, p : SwTasks \cup {Nobody}, ipi : BOOLEAN, uninterruptible : Int]

SetterFields == [p : {Nobody}] \cup [p : SwTasks, dest : SwCpus, src : SwCpus]

Types ==
    /\ task \in [SwTasks -> TaskFields]
    /\ cpu \in [SwCpus -> CpuFields]
    /\ rq \in [SwCpus -> SUBSET SwTasks]
    /\ wakeList \in [SwCpus -> SUBSET SwTasks]
    /\ setter \in [Setters -> SetterFields]
    /\ online \in SUBSET SwCpus /\ active \in SUBSET SwCpus
    /\ hot \in SwCpus \cup {Nobody}

\* The masks of CPUs: a CPU that is being taken down is online and not active, and
\* nobody waits for a stopper meanwhile; a stopper sends a task to an active CPU;
\* a CPU that is down does nothing and has nothing.
MasksOK ==
    /\ active \subseteq online /\ active # {}
    /\ hot # Nobody => /\ hot \in online \ active
                       /\ \A s \in Setters : setter[s].p = Nobody
    /\ \A s \in Setters : setter[s].p # Nobody => setter[s].dest \in active
    /\ \A c \in SwCpus \ online :
          cpu[c].pc = "run" /\ cpu[c].curr = Idle /\ rq[c] = {} /\ wakeList[c] = {}

\* CPU c runs t or is still on its stack.
Holds(c, t) == cpu[c].curr = t \/ (cpu[c].pc = "switch" /\ cpu[c].prev = t)

\* ->on_cpu says whether a CPU has the task, and task_cpu which; what runs is queued.
OnCpuOK ==
    /\ \A t \in SwTasks, c \in SwCpus : Holds(c, t) => task[t].on_cpu /\ task[t].cpu = c
    /\ \A t \in SwTasks : task[t].on_cpu => Holds(task[t].cpu, t)
    /\ \A t \in SwTasks, c \in SwCpus : cpu[c].curr = t => task[t].on_rq
    /\ \A c \in SwCpus : cpu[c].pc = "switch" => cpu[c].prev # cpu[c].curr

\* What a CPU inside try_to_wake_up knows of its task: p->pi_lock keeps others away.
TtwuOK ==
    /\ \A c \in SwCpus : cpu[c].pc \in {"run", "switch"} <=> cpu[c].p = Nobody
    /\ \A c \in SwCpus : cpu[c].pc = "remote" => task[cpu[c].p].state # "waking"
    /\ \A c \in SwCpus : cpu[c].pc = "on_cpu" =>
          ~task[cpu[c].p].on_rq /\ task[cpu[c].p].state \in Asleep
    /\ \A c \in SwCpus : cpu[c].pc = "queue" =>
          /\ task[cpu[c].p].state = "waking" /\ task[cpu[c].p].cpu \in online
          /\ \A d \in SwCpus : cpu[c].p \notin wakeList[d]
    /\ \A c, d \in SwCpus :
          cpu[c].pc \in Holding /\ cpu[d].pc \in Holding /\ cpu[c].p = cpu[d].p => c = d

\* A task in TASK_WAKING is held by its waker or on the wake list of its CPU, which
\* has been sent an interrupt.
WakingOK ==
    /\ \A t \in SwTasks : task[t].state = "waking" =>
          /\ ~task[t].on_rq
          /\ task[t].cpu \in task[t].allowed \/ task[t].late
          /\ \/ \E c \in SwCpus : cpu[c].pc = "queue" /\ cpu[c].p = t
             \/ t \in wakeList[task[t].cpu]
    /\ \A t \in SwTasks : task[t].state = "running" => task[t].on_rq
    /\ \A c \in SwCpus, t \in SwTasks : t \in wakeList[c] =>
          task[t].state = "waking" /\ task[t].cpu = c
    /\ \A c \in SwCpus : wakeList[c] # {} => cpu[c].ipi

\* An event posted to a task that will not look for it again has a waker behind it.
EventOK ==
    /\ \A t \in SwTasks :
          task[t].event /\ task[t].on_rq /\ task[t].code = "sleep" /\ task[t].state # "running"
             => \E c \in SwCpus : cpu[c].p = t
    /\ \A t \in SwTasks :
          task[t].event /\ ~task[t].on_rq
             => \/ \E c \in SwCpus : cpu[c].p = t
                \/ t \in wakeList[task[t].cpu]

\* Whatever its CPU is doing, the idle task has been told of the queue.
IdleOK == \A c \in SwCpus : cpu[c].curr = Idle /\ rq[c] # {} => cpu[c].need

\* The migration that will bring a task to an allowed CPU is the right one.
AffinityOK ==
    \A t \in SwTasks :
        task[t].on_rq /\ task[t].cpu \notin task[t].allowed /\ ~task[t].late =>
            \E s \in Setters : /\ setter[s].p = t /\ setter[s].src = task[t].cpu
                               /\ setter[s].dest \in task[t].allowed

SwInv ==
    /\ Types /\ MasksOK /\ QueuedOnce /\ OnCpuOK
    /\ TtwuOK /\ WakingOK /\ EventOK /\ IdleOK /\ AffinityOK

-----------------------------------------------------------------------------
(***************************************************************************)
(* What a step leaves alone, by groups of fields                           *)
(***************************************************************************)
PlaceKept(x) ==
    /\ task'[x].on_rq = task[x].on_rq
    /\ task'[x].on_cpu = task[x].on_cpu
    /\ task'[x].cpu = task[x].cpu
MaskKept(x) == task'[x].allowed = task[x].allowed /\ task'[x].late = task[x].late
CodeKept(x) == task'[x].event = task[x].event /\ task'[x].code = task[x].code

RunKept(d) ==
    /\ cpu'[d].curr = cpu[d].curr
    /\ cpu'[d].prev = cpu[d].prev
    /\ cpu'[d].need = cpu[d].need
TtwuKept(d) == cpu'[d].pc = cpu[d].pc /\ cpu'[d].p = cpu[d].p

\* What the tasks can notice of a step: the tasks of W are queued,
Wakes(W) ==
    /\ \A x \in SwTasks, d \in SwCpus : cpu'[d].curr = x <=> cpu[d].curr = x
    /\ \A x \in SwTasks : /\ task'[x].on_rq <=> task[x].on_rq \/ x \in W
                          /\ x \in W => ~task[x].on_rq
                          /\ task'[x].event = task[x].event

\* an event is posted for t,
Posts(t) ==
    /\ \A x \in SwTasks, d \in SwCpus : cpu'[d].curr = x <=> cpu[d].curr = x
    /\ \A x \in SwTasks : /\ task'[x].on_rq = task[x].on_rq
                          /\ x # t => task'[x].event = task[x].event
    /\ task'[t].event = TRUE

\* t takes its event,
Takes(t) ==
    /\ \A x \in SwTasks, d \in SwCpus : cpu'[d].curr = x <=> cpu[d].curr = x
    /\ \A x \in SwTasks : /\ task'[x].on_rq = task[x].on_rq
                          /\ x # t => task'[x].event = task[x].event
    /\ task'[t].event = FALSE /\ \E d \in SwCpus : cpu[d].curr = t

\* or CPU c calls __schedule: the tasks of off (the one that goes to sleep, or none)
\* leave the queue, and next becomes current.
Switches(c, off, next) ==
    /\ \A x \in off : x = cpu[c].curr /\ task[x].state # "running" /\ task[x].code = "sleep"
    /\ next \in rq[c] \ off \/ next = Stop \/ (next = Idle /\ rq[c] \subseteq off)
    /\ \A x \in SwTasks :
          /\ task'[x].on_rq <=> task[x].on_rq /\ x \notin off
          /\ task'[x].on_cpu <=> task[x].on_cpu \/ x = next
          /\ task'[x].cpu = task[x].cpu /\ task'[x].state = task[x].state
          /\ MaskKept(x) /\ task'[x].event = task[x].event
          /\ task'[x].code \in {task[x].code, "work"}
    /\ \A d \in SwCpus : rq'[d] = IF d = c THEN rq[c] \ off ELSE rq[d]
    /\ \A d \in SwCpus \ {c} : RunKept(d) /\ TtwuKept(d)
    /\ \A d \in SwCpus : cpu'[d].ipi = cpu[d].ipi /\ cpu'[d].p = cpu[d].p
    /\ cpu'[c].curr = next /\ cpu'[c].prev = cpu[c].curr
    /\ cpu'[c].pc = IF next = cpu[c].curr THEN "run" ELSE "switch"
    /\ UNCHANGED <<wakeList, setter, online, active, hot>>

Seen ==
    \/ \E W \in SUBSET SwTasks : Wakes(W)
    \/ \E t \in SwTasks : Posts(t) \/ Takes(t)
    \/ \E c \in SwCpus, off \in SUBSET SwTasks, next \in Anyone : Switches(c, off, next)

\* The counters are taken modulo a positive number.
LEMMA WordPositive == Word \in Nat \ {0} /\ \A i \in Int : i % Word \in Int
BY SmpWakeAssumption

\* The types of the variables, at hand without the rest of the invariant.
LEMMA Typed ==
  ASSUME SwInv
  PROVE  /\ task \in [SwTasks -> TaskFields] /\ cpu \in [SwCpus -> CpuFields]
         /\ rq \in [SwCpus -> SUBSET SwTasks] /\ wakeList \in [SwCpus -> SUBSET SwTasks]
         /\ setter \in [Setters -> SetterFields]
         /\ online \subseteq SwCpus /\ active \subseteq SwCpus
BY Zenon DEF SwInv, Types

\* What the types say of single fields, and which names differ.
Basic ==
    /\ \A x \in SwTasks : /\ x # Idle /\ x # Stop /\ x # "nobody"
                          /\ task[x].cpu \in SwCpus
                          /\ task[x].allowed \in SUBSET SwCpus
                          /\ task[x].state \in Asleep \cup {"running", "waking"}
    /\ \A d \in SwCpus :
          /\ d # "nobody"
          /\ rq[d] \subseteq SwTasks /\ wakeList[d] \subseteq SwTasks
          /\ cpu[d].pc \in {"run", "switch", "lock"} \cup Holding
          /\ cpu[d].pc \notin {"run", "switch"} => cpu[d].p \in SwTasks /\ d \in online
          /\ cpu[d].curr \in Anyone /\ cpu[d].prev \in Anyone
    /\ Idle # Stop

\* What the types say of the fields, and what the names are not.
LEMMA Basics ==
  ASSUME SwInv
  PROVE  Basic
<1>1. \A x \in SwTasks : task[x] \in TaskFields
  BY Typed, Zenon
<1>2. \A d \in SwCpus : cpu[d] \in CpuFields /\ rq[d] \subseteq SwTasks /\ wakeList[d] \subseteq SwTasks
  BY Typed, Zenon
<1>3. \A d \in SwCpus : cpu[d].pc \notin {"run", "switch"} => cpu[d].p # Nobody /\ d \in online
  BY Zenon DEF SwInv, TtwuOK, MasksOK
<1>4. /\ \A x \in SwTasks : x # Idle /\ x # Stop /\ x # "nobody"
      /\ \A d \in SwCpus : d # "nobody"
      /\ Idle # Stop
  BY SmpWakeAssumption, Zenon
<1> QED BY <1>1, <1>2, <1>3, <1>4, Zenon DEF Basic, TaskFields, CpuFields

-----------------------------------------------------------------------------
(***************************************************************************)
(* One lemma per action                                                    *)
(***************************************************************************)

\* A task announces its sleep: it is running, so it is queued and nobody has placed it.
LEMMA SetStateInv ==
  ASSUME SwInv, NEW t \in SwTasks, NEW c \in SwCpus, set_current_state(t, c)
  PROVE  SwInv' /\ Seen
<1>0. Basic
  BY Basics, Zenon
<1>a. task[t].on_rq /\ task[t].state # "waking"
  BY Zenon DEF SwInv, set_current_state, Current, OnCpuOK, WakingOK
<1>b. /\ task' \in [SwTasks -> TaskFields]
      /\ \A x \in SwTasks :
           /\ PlaceKept(x) /\ MaskKept(x) /\ task'[x].event = task[x].event
           /\ (x # t => task'[x].state = task[x].state /\ task'[x].code = task[x].code)
      /\ task'[t].state \in Asleep /\ task'[t].code = "look"
  <2> DEFINE r == [task[t] EXCEPT !.state = SleepState[t], !.code = "look"]
  <2>1. task' = [task EXCEPT ![t] = r]
    BY Zenon DEF set_current_state
  <2>2. task[t] \in TaskFields
    BY Typed, Zenon
  <2>3. /\ r \in TaskFields
        /\ r.state \in Asleep /\ r.code = "look" /\ r.on_rq = task[t].on_rq
        /\ r.on_cpu = task[t].on_cpu /\ r.cpu = task[t].cpu /\ r.allowed = task[t].allowed
        /\ r.late = task[t].late /\ r.event = task[t].event
    BY <2>2, SmpWakeAssumption, Zenon DEF TaskFields, Asleep
  <2> HIDE DEF r
  <2> QED BY <2>1, <2>3, Typed, Zenon DEF PlaceKept, MaskKept
<1>c. UNCHANGED <<cpu, rq, wakeList, setter, online, active, hot>>
  BY Zenon DEF set_current_state
<1>1. Types'
  BY <1>b, <1>c, Zenon DEF SwInv, Types
<1>2. MasksOK'
  BY <1>c, Zenon DEF SwInv, MasksOK
<1>3. QueuedOnce'
  BY <1>b, <1>c DEF SwInv, QueuedOnce, PlaceKept
<1>4. OnCpuOK'
  BY <1>b, <1>c DEF SwInv, OnCpuOK, Holds, PlaceKept
<1>5. TtwuOK'
  BY <1>0, <1>a, <1>b, <1>c DEF SwInv, TtwuOK, Asleep, PlaceKept, Basic
<1>6. WakingOK'
  BY <1>a, <1>b, <1>c DEF SwInv, WakingOK, Asleep, PlaceKept, MaskKept
<1>7. EventOK'
  BY <1>b, <1>c, Zenon DEF SwInv, EventOK, PlaceKept
<1>8. IdleOK'
  BY <1>c, Zenon DEF SwInv, IdleOK
<1>9. AffinityOK'
  BY <1>b, <1>c DEF SwInv, AffinityOK, PlaceKept, MaskKept
<1>10. Seen
  <2>1. Wakes({})
    BY <1>b, <1>c, Zenon DEF Wakes, PlaceKept
  <2>2. {} \in SUBSET SwTasks
    BY Zenon
  <2> QED BY <2>1, Zenon DEF Seen
<1> QED BY <1>1, <1>2, <1>3, <1>4, <1>5, <1>6, <1>7, <1>8, <1>9, <1>10, Zenon DEF SwInv

\* A task looks for its event: it takes it, or will sleep, and then no event was there.
LEMMA LookInv ==
  ASSUME SwInv, NEW t \in SwTasks, NEW c \in SwCpus, look(t, c)
  PROVE  SwInv' /\ Seen
<1>0. Basic
  BY Basics, Zenon
<1>a. task[t].on_rq /\ task[t].state # "waking"
  BY Zenon DEF SwInv, look, Current, OnCpuOK, WakingOK
<1> DEFINE took == [task[t] EXCEPT !.state = "running", !.event = FALSE, !.code = "work"]
           slept == [task[t] EXCEPT !.code = "sleep"]
           r == IF task[t].event THEN took ELSE slept
<1>f. task' = [task EXCEPT ![t] = r]
  BY Zenon DEF look
<1>g. task[t] \in TaskFields
  BY Typed, Zenon
<1>h. /\ took \in TaskFields /\ took.state = "running" /\ took.event = FALSE
      /\ took.code = "work" /\ took.on_rq = task[t].on_rq /\ took.on_cpu = task[t].on_cpu
      /\ took.cpu = task[t].cpu /\ took.allowed = task[t].allowed /\ took.late = task[t].late
  BY <1>g, Zenon DEF TaskFields
<1>i. /\ slept \in TaskFields /\ slept.state = task[t].state /\ slept.event = task[t].event
      /\ slept.on_rq = task[t].on_rq /\ slept.on_cpu = task[t].on_cpu
      /\ slept.cpu = task[t].cpu /\ slept.allowed = task[t].allowed /\ slept.late = task[t].late
  BY <1>g, Zenon DEF TaskFields
<1> HIDE DEF took, slept
<1>j. /\ r \in TaskFields /\ r.on_rq = task[t].on_rq /\ r.on_cpu = task[t].on_cpu
      /\ r.cpu = task[t].cpu /\ r.allowed = task[t].allowed /\ r.late = task[t].late
  BY <1>h, <1>i, Zenon
<1>k. /\ \/ r.state = "running" /\ r.code = "work"
         \/ r.state = task[t].state /\ ~r.event
      /\ (task[t].event => r.event = FALSE) /\ (~task[t].event => r.event = task[t].event)
  BY <1>h, <1>i, Zenon
<1> HIDE DEF r
<1>b. \A x \in SwTasks :
        /\ PlaceKept(x) /\ MaskKept(x)
        /\ x # t => task'[x].state = task[x].state /\ CodeKept(x)
  BY <1>f, <1>j, Typed, Zenon DEF PlaceKept, MaskKept, CodeKept
<1>l. task'[t] = r
  BY <1>f, Typed, Zenon
<1>c. \/ task'[t].state = "running" /\ task'[t].code = "work"
      \/ task'[t].state = task[t].state /\ ~task'[t].event
  BY <1>k, <1>l, Zenon
<1>d. UNCHANGED <<cpu, rq, wakeList, setter, online, active, hot>> /\ task' \in [SwTasks -> TaskFields]
  <2>1. task' \in [SwTasks -> TaskFields]
    BY <1>f, <1>j, Typed, Zenon
  <2> QED BY <2>1, Zenon DEF look
<1>e. (task[t].event => task'[t].event = FALSE) /\ (~task[t].event => task'[t].event = task[t].event)
  BY <1>k, <1>l, Zenon
<1>1. Types'
  BY <1>d, Zenon DEF SwInv, Types
<1>2. MasksOK'
  BY <1>d, Zenon DEF SwInv, MasksOK
<1>3. QueuedOnce'
  BY <1>b, <1>d DEF SwInv, QueuedOnce, PlaceKept
<1>4. OnCpuOK'
  BY <1>b, <1>d DEF SwInv, OnCpuOK, Holds, PlaceKept
<1>5. TtwuOK'
  BY <1>0, <1>a, <1>b, <1>c, <1>d DEF SwInv, TtwuOK, PlaceKept, Basic
<1>6. WakingOK'
  BY <1>a, <1>b, <1>c, <1>d DEF SwInv, WakingOK, PlaceKept, MaskKept
<1>7. EventOK'
  BY <1>a, <1>b, <1>c, <1>d DEF SwInv, EventOK, PlaceKept, CodeKept
<1>8. IdleOK'
  BY <1>d, Zenon DEF SwInv, IdleOK
<1>9. AffinityOK'
  BY <1>b, <1>d DEF SwInv, AffinityOK, PlaceKept, MaskKept
<1>10. Seen
  <2>1. CASE task[t].event
    <3>1. Takes(t)
      BY <1>b, <1>d, <1>e, <2>1, Zenon DEF Takes, PlaceKept, look, Current
    <3> QED BY <3>1, Zenon DEF Seen
  <2>2. CASE ~task[t].event
    <3>1. Wakes({})
      BY <1>b, <1>d, <1>e, <2>2, Zenon DEF Wakes, PlaceKept, CodeKept
    <3> QED BY <3>1, Zenon DEF Seen
  <2> QED BY <2>1, <2>2, Zenon
<1> QED BY <1>1, <1>2, <1>3, <1>4, <1>5, <1>6, <1>7, <1>8, <1>9, <1>10, Zenon DEF SwInv

\* finish_lock_switch lets go of prev: the CPU no longer has it, and no other CPU had.
LEMMA FinishInv ==
  ASSUME SwInv, NEW c \in SwCpus, finish_lock_switch(c)
  PROVE  SwInv' /\ Seen
<1>0. Basic
  BY Basics, Zenon
<1>a. cpu[c].pc = "switch" /\ cpu[c].p = "nobody" /\ c \in online
  BY Zenon DEF SwInv, finish_lock_switch, TtwuOK, MasksOK, Nobody
<1>b. \A x \in SwTasks :
        /\ task'[x] \in TaskFields
        /\ task'[x].on_cpu <=> task[x].on_cpu /\ x # cpu[c].prev
        /\ task'[x].on_rq = task[x].on_rq /\ task'[x].cpu = task[x].cpu
        /\ MaskKept(x) /\ CodeKept(x) /\ task'[x].state = task[x].state
  <2> TAKE x \in SwTasks
  <2>1. task'[x] = [task[x] EXCEPT !.on_cpu = @ /\ x # cpu[c].prev] /\ task[x] \in TaskFields
    BY Typed, Zenon DEF finish_lock_switch
  <2> QED BY <2>1, Zenon DEF TaskFields, MaskKept, CodeKept
<1>c. /\ cpu' \in [SwCpus -> CpuFields]
      /\ \A e \in SwCpus :
           /\ cpu'[e].p = cpu[e].p /\ cpu'[e].ipi = cpu[e].ipi /\ cpu'[e].curr = cpu[e].curr
           /\ cpu'[e].need = cpu[e].need
           /\ (e # c => cpu'[e].pc = cpu[e].pc /\ cpu'[e].prev = cpu[e].prev)
      /\ cpu'[c].pc = "run"
  <2> DEFINE r == [cpu[c] EXCEPT !.pc = "run", !.prev = Idle]
  <2>1. cpu' = [cpu EXCEPT ![c] = r]
    BY Zenon DEF finish_lock_switch
  <2>2. cpu[c] \in CpuFields
    BY Typed, Zenon
  <2>3. /\ r \in CpuFields
        /\ r.pc = "run" /\ r.p = cpu[c].p /\ r.ipi = cpu[c].ipi /\ r.curr = cpu[c].curr
        /\ r.need = cpu[c].need
    BY <2>2, Zenon DEF CpuFields, Anyone
  <2> HIDE DEF r
  <2> QED BY <2>1, <2>3, Typed, Zenon
<1>d. UNCHANGED <<rq, wakeList, setter, online, active, hot>>
  BY Zenon DEF finish_lock_switch
<1>1. Types'
  <2>1. task' \in [SwTasks -> TaskFields]
    BY <1>b, Zenon DEF finish_lock_switch
  <2> QED BY <2>1, <1>c, <1>d, Zenon DEF SwInv, Types
<1>2. MasksOK'
  BY <1>c, <1>d DEF SwInv, MasksOK
<1>3. QueuedOnce'
  BY <1>b, <1>d DEF SwInv, QueuedOnce
<1>4. OnCpuOK'
  BY <1>0, <1>a, <1>b, <1>c DEF SwInv, OnCpuOK, Holds, Basic
<1>5. TtwuOK'
  BY <1>0, <1>a, <1>b, <1>c, <1>d DEF SwInv, TtwuOK, Holding, Basic
<1>6. WakingOK'
  BY <1>a, <1>b, <1>c, <1>d DEF SwInv, WakingOK, MaskKept
<1>7. EventOK'
  BY <1>b, <1>c, <1>d DEF SwInv, EventOK, CodeKept
<1>8. IdleOK'
  BY <1>c, <1>d, Zenon DEF SwInv, IdleOK
<1>9. AffinityOK'
  BY <1>b, <1>d DEF SwInv, AffinityOK, MaskKept
<1>10. Seen
  <2>1. Wakes({})
    BY <1>b, <1>c, Zenon DEF Wakes, CodeKept
  <2>2. {} \in SUBSET SwTasks
    BY Zenon
  <2> QED BY <2>1, Zenon DEF Seen
<1> QED BY <1>1, <1>2, <1>3, <1>4, <1>5, <1>6, <1>7, <1>8, <1>9, <1>10, Zenon DEF SwInv

\* The waker has posted the event before it takes any lock.
LEMMA WakeUpInv ==
  ASSUME SwInv, NEW t \in SwTasks, NEW c \in SwCpus, wake_up(c, t)
  PROVE  SwInv' /\ Seen
<1>0. Basic
  BY Basics, Zenon
<1>a. c \in online /\ cpu[c].pc = "run" /\ cpu[c].p = "nobody"
  BY Zenon DEF SwInv, wake_up, Runs, TtwuOK, Nobody
<1>b. /\ task' \in [SwTasks -> TaskFields]
      /\ \A x \in SwTasks :
           /\ PlaceKept(x) /\ MaskKept(x) /\ task'[x].state = task[x].state
           /\ task'[x].code = task[x].code /\ (x # t => task'[x].event = task[x].event)
      /\ task'[t].event = TRUE
  <2> DEFINE r == [task[t] EXCEPT !.event = TRUE]
  <2>1. task' = [task EXCEPT ![t] = r]
    BY Zenon DEF wake_up
  <2>2. task[t] \in TaskFields
    BY Typed, Zenon
  <2>3. /\ r \in TaskFields
        /\ r.event = TRUE /\ r.on_rq = task[t].on_rq /\ r.on_cpu = task[t].on_cpu
        /\ r.cpu = task[t].cpu /\ r.allowed = task[t].allowed /\ r.late = task[t].late
        /\ r.state = task[t].state /\ r.code = task[t].code
    BY <2>2, Zenon DEF TaskFields
  <2> HIDE DEF r
  <2> QED BY <2>1, <2>3, Typed, Zenon DEF PlaceKept, MaskKept
<1>c. /\ cpu' \in [SwCpus -> CpuFields]
      /\ \A e \in SwCpus :
           /\ RunKept(e) /\ cpu'[e].ipi = cpu[e].ipi /\ (e # c => TtwuKept(e))
      /\ cpu'[c].pc = "lock" /\ cpu'[c].p = t
  <2> DEFINE r == [cpu[c] EXCEPT !.pc = "lock", !.p = t]
  <2>1. cpu' = [cpu EXCEPT ![c] = r]
    BY Zenon DEF wake_up
  <2>2. cpu[c] \in CpuFields
    BY Typed, Zenon
  <2>3. /\ r \in CpuFields
        /\ r.pc = "lock" /\ r.p = t /\ r.curr = cpu[c].curr /\ r.prev = cpu[c].prev
        /\ r.need = cpu[c].need /\ r.ipi = cpu[c].ipi
    BY <2>2, Zenon DEF CpuFields
  <2> HIDE DEF r
  <2> QED BY <2>1, <2>3, Typed, Zenon DEF RunKept, TtwuKept
<1>d. UNCHANGED <<rq, wakeList, setter, online, active, hot>>
  BY Zenon DEF wake_up
<1>1. Types'
  BY <1>b, <1>c, <1>d, Zenon DEF SwInv, Types
<1>2. MasksOK'
  BY <1>a, <1>c, <1>d DEF SwInv, MasksOK, RunKept, TtwuKept
<1>3. QueuedOnce'
  BY <1>b, <1>d DEF SwInv, QueuedOnce, PlaceKept
<1>4. OnCpuOK'
  BY <1>0, <1>a, <1>b, <1>c DEF SwInv, OnCpuOK, Holds, PlaceKept, RunKept, TtwuKept, Basic
<1>5. TtwuOK'
  <2>1. /\ \A e \in SwCpus : e # c => cpu'[e].pc = cpu[e].pc /\ cpu'[e].p = cpu[e].p
        /\ cpu'[c].pc = "lock" /\ cpu'[c].p = t /\ t # "nobody"
    BY <1>0, <1>c, Zenon DEF TtwuKept, Basic
  <2>2. \A x \in SwTasks : /\ task'[x].state = task[x].state
                           /\ task'[x].on_rq = task[x].on_rq /\ task'[x].cpu = task[x].cpu
    BY <1>b, Zenon DEF PlaceKept
  <2>3. TtwuOK /\ \A e \in SwCpus : cpu[e].pc \notin {"run", "switch"} => cpu[e].p \in SwTasks
    BY <1>0, Zenon DEF SwInv, Basic
  <2>4. \A e \in SwCpus : cpu'[e].pc \in {"run", "switch"} <=> cpu'[e].p = Nobody
    BY <2>1, <2>3 DEF TtwuOK, Nobody
  <2>5. \A e \in SwCpus : cpu'[e].pc = "remote" => task'[cpu'[e].p].state # "waking"
    BY <2>1, <2>2, <2>3 DEF TtwuOK
  <2>6. \A e \in SwCpus : cpu'[e].pc = "on_cpu" =>
          ~task'[cpu'[e].p].on_rq /\ task'[cpu'[e].p].state \in Asleep
    BY <2>1, <2>2, <2>3 DEF TtwuOK
  <2>7. \A e \in SwCpus : cpu'[e].pc = "queue" =>
          /\ task'[cpu'[e].p].state = "waking" /\ task'[cpu'[e].p].cpu \in online'
          /\ \A d \in SwCpus : cpu'[e].p \notin wakeList'[d]
    BY <1>d, <2>1, <2>2, <2>3 DEF TtwuOK
  <2>8. \A e, f \in SwCpus :
          cpu'[e].pc \in Holding /\ cpu'[f].pc \in Holding /\ cpu'[e].p = cpu'[f].p => e = f
    BY <2>1, <2>3 DEF TtwuOK, Holding
  <2> QED BY <2>4, <2>5, <2>6, <2>7, <2>8, Zenon DEF TtwuOK
<1>6. WakingOK'
  BY <1>a, <1>b, <1>c, <1>d DEF SwInv, WakingOK, PlaceKept, MaskKept, TtwuKept
<1>7. EventOK'
  BY <1>0, <1>a, <1>b, <1>c, <1>d DEF SwInv, EventOK, PlaceKept, TtwuKept, Basic
<1>8. IdleOK'
  BY <1>c, <1>d, Zenon DEF SwInv, IdleOK, RunKept
<1>9. AffinityOK'
  BY <1>b, <1>d DEF SwInv, AffinityOK, PlaceKept, MaskKept
<1>10. Seen
  <2>1. Posts(t)
    BY <1>b, <1>c, Zenon DEF Posts, PlaceKept, RunKept
  <2> QED BY <2>1, Zenon DEF Seen
<1> QED BY <1>1, <1>2, <1>3, <1>4, <1>5, <1>6, <1>7, <1>8, <1>9, <1>10, Zenon DEF SwInv

\* The lock of the task is free: a task that sleeps is taken on, one that runs or is already
\* being woken is left, and its event with it.
LEMMA TryInv ==
  ASSUME SwInv, NEW c \in SwCpus, NEW p \in SwTasks, cpu[c].p = p, try_to_wake_up(c)
  PROVE  SwInv' /\ Seen
<1>0. Basic
  BY Basics, Zenon
<1>a. c \in online /\ cpu[c].pc = "lock"
  BY <1>0, Zenon DEF try_to_wake_up, Basic
<1>b. \A d \in SwCpus : cpu[d].pc \in Holding => cpu[d].p # p
  BY Zenon DEF try_to_wake_up, PiFree, Holding
<1>c. /\ cpu' \in [SwCpus -> CpuFields]
      /\ \A e \in SwCpus \ {c} : cpu'[e] = cpu[e]
      /\ RunKept(c) /\ cpu'[c].ipi = cpu[c].ipi
      /\ \/ /\ task[p].state \in Asleep /\ cpu'[c].p = p
            /\ cpu'[c].pc = IF task[p].on_rq THEN "remote" ELSE "on_cpu"
         \/ task[p].state \notin Asleep /\ cpu'[c].pc = "run" /\ cpu'[c].p = "nobody"
  <2>1. CASE task[p].state \in Asleep
    <3> DEFINE r == [cpu[c] EXCEPT !.pc = IF task[p].on_rq THEN "remote" ELSE "on_cpu"]
    <3>1. cpu' = [cpu EXCEPT ![c] = r]
      BY <2>1, Zenon DEF try_to_wake_up, Asleep
    <3>2. /\ r \in CpuFields /\ r.p = p /\ r.pc = IF task[p].on_rq THEN "remote" ELSE "on_cpu"
          /\ r.curr = cpu[c].curr /\ r.prev = cpu[c].prev /\ r.need = cpu[c].need /\ r.ipi = cpu[c].ipi
      BY Typed DEF CpuFields, Holding
    <3> HIDE DEF r
    <3> QED BY <2>1, <3>1, <3>2, Typed, Zenon DEF RunKept
  <2>2. CASE task[p].state \notin Asleep
    <3> DEFINE r == [cpu[c] EXCEPT !.pc = "run", !.p = Nobody]
    <3>1. cpu' = [cpu EXCEPT ![c] = r]
      BY <2>2, Zenon DEF try_to_wake_up, Asleep, Done
    <3>2. /\ r \in CpuFields /\ r.p = "nobody" /\ r.pc = "run"
          /\ r.curr = cpu[c].curr /\ r.prev = cpu[c].prev /\ r.need = cpu[c].need /\ r.ipi = cpu[c].ipi
      BY Typed, Zenon DEF CpuFields, Nobody
    <3> HIDE DEF r
    <3> QED BY <2>2, <3>1, <3>2, Typed, Zenon DEF RunKept
  <2> QED BY <2>1, <2>2, Zenon
<1>d. UNCHANGED <<task, rq, wakeList, setter, online, active, hot>>
  BY Zenon DEF try_to_wake_up
<1>1. Types'
  BY <1>c, <1>d, Zenon DEF SwInv, Types
<1>2. MasksOK'
  BY <1>a, <1>c, <1>d DEF SwInv, MasksOK
<1>3. QueuedOnce'
  BY <1>d, Zenon DEF SwInv, QueuedOnce
<1>4. OnCpuOK'
  BY <1>0, <1>a, <1>c, <1>d DEF SwInv, OnCpuOK, Holds, RunKept, Basic
<1>5. TtwuOK'
  BY <1>a, <1>b, <1>c, <1>d DEF SwInv, TtwuOK, Holding, Asleep, Nobody
<1>6. WakingOK'
  BY <1>a, <1>c, <1>d DEF SwInv, WakingOK
<1>7. EventOK'
  BY <1>0, <1>b, <1>c, <1>d DEF SwInv, EventOK, WakingOK, Basic
<1>8. IdleOK'
  BY <1>c, <1>d, Zenon DEF SwInv, IdleOK, RunKept
<1>9. AffinityOK'
  BY <1>d, Zenon DEF SwInv, AffinityOK
<1>10. Seen
  <2>1. Wakes({})
    BY <1>c, <1>d, Zenon DEF Wakes, RunKept
  <2>2. {} \in SUBSET SwTasks
    BY Zenon
  <2> QED BY <2>1, Zenon DEF Seen
<1> QED BY <1>1, <1>2, <1>3, <1>4, <1>5, <1>6, <1>7, <1>8, <1>9, <1>10, Zenon DEF SwInv

\* A task that is still queued is made running under the lock of its queue.
LEMMA RemoteQueuedInv ==
  ASSUME SwInv, NEW c \in SwCpus, NEW p \in SwTasks, cpu[c].p = p, ttwu_remote(c), task[p].on_rq
  PROVE  SwInv' /\ Seen
<1>0. Basic
  BY Basics, Zenon
<1>a. c \in online /\ cpu[c].pc = "remote" /\ task[p].state # "waking"
  BY <1>0, Zenon DEF SwInv, ttwu_remote, TtwuOK, Basic
<1>b. \A e \in SwCpus \ {c} : cpu[e].pc \in Holding => cpu[e].p # p
  BY <1>a, Zenon DEF SwInv, TtwuOK, Holding
<1>c. /\ task' \in [SwTasks -> TaskFields]
      /\ \A x \in SwTasks :
           /\ PlaceKept(x) /\ MaskKept(x) /\ CodeKept(x)
           /\ (x # p => task'[x].state = task[x].state)
      /\ task'[p].state = "running"
  <2> DEFINE r == [task[p] EXCEPT !.state = "running"]
  <2>1. task' = [task EXCEPT ![p] = r]
    BY Zenon DEF ttwu_remote
  <2>2. task[p] \in TaskFields
    BY Typed, Zenon
  <2>3. /\ r \in TaskFields
        /\ r.state = "running" /\ r.on_rq = task[p].on_rq /\ r.on_cpu = task[p].on_cpu
        /\ r.cpu = task[p].cpu /\ r.allowed = task[p].allowed /\ r.late = task[p].late
        /\ r.event = task[p].event /\ r.code = task[p].code
    BY <2>2, Zenon DEF TaskFields
  <2> HIDE DEF r
  <2> QED BY <2>1, <2>3, Typed, Zenon DEF PlaceKept, MaskKept, CodeKept
<1>d. /\ cpu' \in [SwCpus -> CpuFields]
      /\ \A e \in SwCpus :
           /\ RunKept(e) /\ cpu'[e].ipi = cpu[e].ipi /\ (e # c => TtwuKept(e))
      /\ cpu'[c].pc = "run" /\ cpu'[c].p = "nobody"
  <2> DEFINE r == [cpu[c] EXCEPT !.pc = "run", !.p = Nobody]
  <2>1. cpu' = [cpu EXCEPT ![c] = r]
    BY Zenon DEF ttwu_remote, Done
  <2>2. cpu[c] \in CpuFields
    BY Typed, Zenon
  <2>3. /\ r \in CpuFields
        /\ r.pc = "run" /\ r.p = "nobody" /\ r.curr = cpu[c].curr /\ r.prev = cpu[c].prev
        /\ r.need = cpu[c].need /\ r.ipi = cpu[c].ipi
    BY <2>2, Zenon DEF CpuFields, Nobody
  <2> HIDE DEF r
  <2> QED BY <2>1, <2>3, Typed, Zenon DEF RunKept, TtwuKept
<1>e. UNCHANGED <<rq, wakeList, setter, online, active, hot>>
  BY Zenon DEF ttwu_remote
<1>1. Types'
  BY <1>c, <1>d, <1>e, Zenon DEF SwInv, Types
<1>2. MasksOK'
  BY <1>d, <1>e DEF SwInv, MasksOK, RunKept, TtwuKept
<1>3. QueuedOnce'
  BY <1>c, <1>e DEF SwInv, QueuedOnce, PlaceKept
<1>4. OnCpuOK'
  BY <1>0, <1>a, <1>b, <1>c, <1>d DEF SwInv, OnCpuOK, Holds, PlaceKept, RunKept, TtwuKept, Basic
<1>5. TtwuOK'
  <2>1. /\ \A e \in SwCpus : e # c => cpu'[e].pc = cpu[e].pc /\ cpu'[e].p = cpu[e].p
        /\ cpu'[c].pc = "run" /\ cpu'[c].p = "nobody"
    BY <1>d, Zenon DEF TtwuKept
  <2>2. \A x \in SwTasks : /\ x # p => task'[x].state = task[x].state
                           /\ task'[x].on_rq = task[x].on_rq /\ task'[x].cpu = task[x].cpu
    BY <1>c, Zenon DEF PlaceKept
  <2>3. TtwuOK /\ \A e \in SwCpus : cpu[e].pc \notin {"run", "switch"} => cpu[e].p \in SwTasks
    BY <1>0, Zenon DEF SwInv, Basic
  <2>4. \A e \in SwCpus : cpu[e].pc \in Holding /\ e # c => cpu[e].p # p
    BY <1>a, <2>3 DEF TtwuOK, Holding
  <2>5. \A e \in SwCpus : cpu'[e].pc \in {"run", "switch"} <=> cpu'[e].p = Nobody
    BY <2>1, <2>3 DEF TtwuOK, Nobody
  <2>6. \A e \in SwCpus : cpu'[e].pc = "remote" => task'[cpu'[e].p].state # "waking"
    BY <2>1, <2>2, <2>3, <2>4 DEF TtwuOK, Holding
  <2>7. \A e \in SwCpus : cpu'[e].pc = "on_cpu" =>
          ~task'[cpu'[e].p].on_rq /\ task'[cpu'[e].p].state \in Asleep
    BY <2>1, <2>2, <2>3, <2>4 DEF TtwuOK, Holding
  <2>8. \A e \in SwCpus : cpu'[e].pc = "queue" =>
          /\ task'[cpu'[e].p].state = "waking" /\ task'[cpu'[e].p].cpu \in online'
          /\ \A d \in SwCpus : cpu'[e].p \notin wakeList'[d]
    BY <1>e, <2>1, <2>2, <2>3, <2>4 DEF TtwuOK, Holding
  <2>9. \A e, f \in SwCpus :
          cpu'[e].pc \in Holding /\ cpu'[f].pc \in Holding /\ cpu'[e].p = cpu'[f].p => e = f
    BY <2>1, <2>3 DEF TtwuOK, Holding
  <2> QED BY <2>5, <2>6, <2>7, <2>8, <2>9, Zenon DEF TtwuOK
<1>6. WakingOK'
  BY <1>c, <1>d, <1>e DEF SwInv, WakingOK, PlaceKept, MaskKept, TtwuKept
<1>7. EventOK'
  BY <1>c, <1>d, <1>e DEF SwInv, EventOK, PlaceKept, CodeKept, TtwuKept
<1>8. IdleOK'
  BY <1>d, <1>e, Zenon DEF SwInv, IdleOK, RunKept
<1>9. AffinityOK'
  BY <1>c, <1>e DEF SwInv, AffinityOK, PlaceKept, MaskKept
<1>10. Seen
  <2>1. Wakes({})
    BY <1>c, <1>d, Zenon DEF Wakes, PlaceKept, CodeKept, RunKept
  <2>2. {} \in SUBSET SwTasks
    BY Zenon
  <2> QED BY <2>1, Zenon DEF Seen
<1> QED BY <1>1, <1>2, <1>3, <1>4, <1>5, <1>6, <1>7, <1>8, <1>9, <1>10, Zenon DEF SwInv

\* A task that left its queue meanwhile sleeps, and p->pi_lock keeps it so.
LEMMA RemoteAsleepInv ==
  ASSUME SwInv, NEW c \in SwCpus, NEW p \in SwTasks, cpu[c].p = p, ttwu_remote(c), ~task[p].on_rq
  PROVE  SwInv' /\ Seen
<1>0. Basic
  BY Basics, Zenon
<1>a. c \in online /\ cpu[c].pc = "remote" /\ task[p].state # "waking"
  BY <1>0, Zenon DEF SwInv, ttwu_remote, TtwuOK, Basic
<1>b. task[p].state \in Asleep
  BY <1>a, <1>0, Zenon DEF SwInv, WakingOK, Basic
<1>c. /\ cpu' \in [SwCpus -> CpuFields]
      /\ \A e \in SwCpus :
           /\ RunKept(e) /\ cpu'[e].ipi = cpu[e].ipi /\ (e # c => TtwuKept(e))
      /\ cpu'[c].pc = "on_cpu" /\ cpu'[c].p = p
  <2> DEFINE r == [cpu[c] EXCEPT !.pc = "on_cpu"]
  <2>1. cpu' = [cpu EXCEPT ![c] = r]
    BY Zenon DEF ttwu_remote
  <2>2. cpu[c] \in CpuFields
    BY Typed, Zenon
  <2>3. /\ r \in CpuFields
        /\ r.pc = "on_cpu" /\ r.p = p /\ r.curr = cpu[c].curr /\ r.prev = cpu[c].prev
        /\ r.need = cpu[c].need /\ r.ipi = cpu[c].ipi
    BY <2>2, Zenon DEF CpuFields, Holding
  <2> HIDE DEF r
  <2> QED BY <2>1, <2>3, Typed, Zenon DEF RunKept, TtwuKept
<1>d. UNCHANGED <<task, rq, wakeList, setter, online, active, hot>>
  BY Zenon DEF ttwu_remote
<1>1. Types'
  BY <1>c, <1>d, Zenon DEF SwInv, Types
<1>2. MasksOK'
  BY <1>a, <1>c, <1>d DEF SwInv, MasksOK, RunKept, TtwuKept
<1>3. QueuedOnce'
  BY <1>d, Zenon DEF SwInv, QueuedOnce
<1>4. OnCpuOK'
  BY <1>0, <1>a, <1>c, <1>d DEF SwInv, OnCpuOK, Holds, RunKept, TtwuKept, Basic
<1>5. TtwuOK'
  BY <1>0, <1>a, <1>b, <1>c, <1>d DEF SwInv, TtwuOK, TtwuKept, Basic
<1>6. WakingOK'
  BY <1>a, <1>c, <1>d DEF SwInv, WakingOK, TtwuKept
<1>7. EventOK'
  BY <1>c, <1>d DEF SwInv, EventOK, TtwuKept
<1>8. IdleOK'
  BY <1>c, <1>d, Zenon DEF SwInv, IdleOK, RunKept
<1>9. AffinityOK'
  BY <1>d, Zenon DEF SwInv, AffinityOK
<1>10. Seen
  <2>1. Wakes({})
    BY <1>c, <1>d, Zenon DEF Wakes, RunKept
  <2>2. {} \in SUBSET SwTasks
    BY Zenon
  <2> QED BY <2>1, Zenon DEF Seen
<1> QED BY <1>1, <1>2, <1>3, <1>4, <1>5, <1>6, <1>7, <1>8, <1>9, <1>10, Zenon DEF SwInv

\* select_fallback_rq finds an active CPU that is in the mask the task then has.
LEMMA FallbackMask ==
  ASSUME SwInv, NEW p \in SwTasks
  PROVE  /\ select_fallback_rq(p).cpus \subseteq active
         /\ select_fallback_rq(p).cpus \subseteq select_fallback_rq(p).mask
         /\ select_fallback_rq(p).mask \subseteq SwCpus
         /\ task[p].allowed \subseteq select_fallback_rq(p).mask
<1>0. Basic
  BY Basics, Zenon
<1>1. active \subseteq SwCpus /\ task[p].allowed \subseteq SwCpus
  BY Typed, <1>0, Zenon DEF Basic
<1>2. CASE task[p].allowed \cap active # {}
  <2>1. /\ select_fallback_rq(p).cpus = task[p].allowed \cap active
        /\ select_fallback_rq(p).mask = task[p].allowed
    BY <1>2, Zenon DEF select_fallback_rq
  <2> QED BY <1>1, <2>1, Zenon
<1>3. CASE task[p].allowed \cap active = {}
  <2>1. select_fallback_rq(p).cpus = active /\ select_fallback_rq(p).mask = SwCpus
    BY <1>3, Zenon DEF select_fallback_rq
  <2> QED BY <1>1, <2>1, Zenon
<1> QED BY <1>2, <1>3, Zenon

\* select_task_rq finds a CPU that is online and in the mask the task then has.
LEMMA Selected ==
  ASSUME SwInv, NEW p \in SwTasks, NEW d \in select_task_rq(p).cpus
  PROVE  /\ d \in online /\ d \in SwCpus /\ d \in select_task_rq(p).mask
         /\ select_task_rq(p).mask \in (SUBSET SwCpus) \ {{}}
<1>1. active \subseteq online /\ active # {} /\ online \subseteq SwCpus
  BY Typed, Zenon DEF SwInv, MasksOK
<1>2. task[p].allowed \in (SUBSET SwCpus) \ {{}} /\ task[p].cpu \in SwCpus
  BY Typed, Zenon DEF TaskFields
<1>3. /\ select_fallback_rq(p).cpus \subseteq active
      /\ select_fallback_rq(p).cpus \subseteq select_fallback_rq(p).mask
      /\ select_fallback_rq(p).mask \subseteq SwCpus
      /\ task[p].allowed \subseteq select_fallback_rq(p).mask
  BY FallbackMask, Zenon
<1>4. \/ /\ select_task_rq(p).cpus = (task[p].allowed \cap online) \cup select_fallback_rq(p).cpus
         /\ select_task_rq(p).mask = select_fallback_rq(p).mask
      \/ /\ select_task_rq(p).cpus = task[p].allowed \cap online
         /\ select_task_rq(p).mask = task[p].allowed
  BY Zenon DEF select_task_rq
<1>5. /\ d \in online /\ d \in select_task_rq(p).mask
      /\ select_task_rq(p).mask \subseteq SwCpus
  BY <1>1, <1>3, <1>4, Zenon
<1> QED BY <1>5, Zenon

\* The old CPU has switched away from the task, so it is on no queue and on no stack, and may
\* be given to another CPU.
LEMMA SelectInv ==
  ASSUME SwInv, NEW c \in SwCpus, NEW p \in SwTasks, cpu[c].p = p, ttwu_select(c)
  PROVE  SwInv' /\ Seen
<1>0. Basic
  BY Basics, Zenon
<1>a. c \in online /\ cpu[c].pc = "on_cpu" /\ ~task[p].on_cpu
  BY <1>0, Zenon DEF ttwu_select, Basic
<1>b. ~task[p].on_rq /\ task[p].state \in Asleep
  BY <1>a, Zenon DEF SwInv, TtwuOK
<1>c. \A d \in SwCpus \ {c} : cpu[d].pc \in Holding => cpu[d].p # p
  BY <1>a, Zenon DEF SwInv, TtwuOK, Holding
<1>d. PICK d \in select_task_rq(p).cpus :
         task' = [task EXCEPT ![p].load = task[p].state = "uninterruptible",
                              ![p].state = "waking", ![p].late = FALSE, ![p].cpu = d,
                              ![p].allowed = select_task_rq(p).mask]
  BY Zenon DEF ttwu_select
<1>e. PICK m : /\ d \in online /\ d \in SwCpus /\ d \in m
                 /\ m \in (SUBSET SwCpus) \ {{}} /\ m = select_task_rq(p).mask
  BY Selected, Zenon
<1>f. d \in online /\ d \in SwCpus /\ d \in m
  BY <1>e, Zenon
<1>k. PICK b \in BOOLEAN : b = (task[p].state = "uninterruptible")
  BY Zenon
<1>g. /\ task' \in [SwTasks -> TaskFields]
      /\ \A x \in SwTasks :
           /\ CodeKept(x) /\ task'[x].on_rq = task[x].on_rq
           /\ task'[x].on_cpu = task[x].on_cpu
           /\ (x # p => MaskKept(x) /\ task'[x].state = task[x].state /\ task'[x].cpu = task[x].cpu)
      /\ task'[p].state = "waking" /\ task'[p].cpu = d /\ task'[p].allowed = m
  <2> DEFINE r == [task[p] EXCEPT !.load = b, !.state = "waking",
                                     !.late = FALSE, !.cpu = d, !.allowed = m]
  <2>1. task' = [task EXCEPT ![p] = r]
    BY <1>d, <1>e, <1>k, Zenon
  <2>2. task[p] \in TaskFields
    BY Typed, Zenon
  <2>3. r \in TaskFields
    <3>1. [task[p] EXCEPT !.load = b, !.state = "waking", !.late = FALSE] \in TaskFields
      BY <2>2, Zenon DEF TaskFields
    <3> DEFINE q == [task[p] EXCEPT !.load = b, !.state = "waking", !.late = FALSE]
    <3>2. r = [q EXCEPT !.cpu = d, !.allowed = m]
      OBVIOUS
    <3> HIDE DEF q, r
    <3>3. q \in TaskFields
      BY <3>1 DEF q
    <3>4. d \in SwCpus /\ m \in (SUBSET SwCpus) \ {{}}
      BY <1>e, Zenon
    <3>5. [q EXCEPT !.cpu = d, !.allowed = m] \in TaskFields
      BY <3>3, <3>4, Zenon DEF TaskFields
    <3> QED BY <3>2, <3>5, Zenon
  <2>4. /\ r.state = "waking" /\ r.cpu = d /\ r.allowed = m
        /\ r.on_rq = task[p].on_rq /\ r.on_cpu = task[p].on_cpu
    BY <2>2, Zenon DEF TaskFields
  <2>5. r.event = task[p].event /\ r.code = task[p].code
    BY <2>2, Zenon DEF TaskFields
  <2> HIDE DEF r
  <2> QED BY <2>1, <2>3, <2>4, <2>5, Typed DEF MaskKept, CodeKept
<1>h. /\ cpu' \in [SwCpus -> CpuFields]
      /\ \A e \in SwCpus :
           /\ RunKept(e) /\ cpu'[e].ipi = cpu[e].ipi /\ (e # c => TtwuKept(e))
      /\ cpu'[c].pc = "queue" /\ cpu'[c].p = p
  <2> DEFINE r == [cpu[c] EXCEPT !.pc = "queue"]
  <2>1. cpu' = [cpu EXCEPT ![c] = r]
    BY Zenon DEF ttwu_select
  <2>2. cpu[c] \in CpuFields
    BY Typed, Zenon
  <2>3. /\ r \in CpuFields
        /\ r.pc = "queue" /\ r.p = p /\ r.curr = cpu[c].curr /\ r.prev = cpu[c].prev
        /\ r.need = cpu[c].need /\ r.ipi = cpu[c].ipi
    BY <2>2, Zenon DEF CpuFields, Holding
  <2> HIDE DEF r
  <2> QED BY <2>1, <2>3, Typed, Zenon DEF RunKept, TtwuKept
<1>i. UNCHANGED <<rq, wakeList, setter, online, active, hot>>
  BY Zenon DEF ttwu_select
<1>1. Types'
  BY <1>g, <1>h, <1>i, Zenon DEF SwInv, Types
<1>2. MasksOK'
  BY <1>a, <1>h, <1>i DEF SwInv, MasksOK, RunKept, TtwuKept
<1>3. QueuedOnce'
  BY <1>b, <1>g, <1>i DEF SwInv, QueuedOnce
<1>4. OnCpuOK'
  <2>1. \A x \in SwTasks, e \in SwCpus : Holds(e, x)' => task'[x].on_cpu /\ task'[x].cpu = e
    BY <1>a, <1>g, <1>h DEF SwInv, OnCpuOK, Holds, RunKept, TtwuKept
  <2>2. \A x \in SwTasks : task'[x].on_cpu => Holds(task[x].cpu, x)'
    BY <1>0, <1>a, <1>g, <1>h DEF SwInv, OnCpuOK, Holds, RunKept, TtwuKept, Basic
  <2>3. \A x \in SwTasks, e \in SwCpus : cpu'[e].curr = x => task'[x].on_rq
    BY <1>g, <1>h DEF SwInv, OnCpuOK, RunKept
  <2>4. \A e \in SwCpus : cpu'[e].pc = "switch" => cpu'[e].prev # cpu'[e].curr
    BY <1>h DEF SwInv, OnCpuOK, RunKept, TtwuKept
  <2> QED BY <2>1, <2>2, <2>3, <2>4, Zenon DEF OnCpuOK
<1>5. TtwuOK'
  <2>1. \A e \in SwCpus : cpu'[e].pc \in {"run", "switch"} <=> cpu'[e].p = Nobody
    BY <1>a, <1>h DEF SwInv, TtwuOK, TtwuKept
  <2>a. \A e \in SwCpus : cpu'[e].pc \in {"remote", "on_cpu"} =>
          /\ cpu'[e].pc = cpu[e].pc /\ cpu'[e].p = cpu[e].p
          /\ cpu[e].p \in SwTasks /\ cpu[e].p # p
    BY <1>0, <1>c, <1>h DEF TtwuKept, Basic, Holding
  <2>2. \A e \in SwCpus : cpu'[e].pc = "remote" => task'[cpu'[e].p].state # "waking"
    BY <1>g, <2>a DEF SwInv, TtwuOK
  <2>3. \A e \in SwCpus : cpu'[e].pc = "on_cpu" =>
          ~task'[cpu'[e].p].on_rq /\ task'[cpu'[e].p].state \in Asleep
    BY <1>g, <2>a DEF SwInv, TtwuOK
  <2>4. \A e \in SwCpus : cpu'[e].pc = "queue" =>
          /\ task'[cpu'[e].p].state = "waking" /\ task'[cpu'[e].p].cpu \in online'
          /\ \A f \in SwCpus : cpu'[e].p \notin wakeList'[f]
    BY <1>0, <1>b, <1>f, <1>g, <1>h, <1>i DEF SwInv, TtwuOK, Asleep, TtwuKept, WakingOK, Basic
  <2>5. \A e, f \in SwCpus :
          cpu'[e].pc \in Holding /\ cpu'[f].pc \in Holding /\ cpu'[e].p = cpu'[f].p => e = f
    BY <1>c, <1>h DEF SwInv, TtwuOK, TtwuKept
  <2> QED BY <2>1, <2>2, <2>3, <2>4, <2>5, Zenon DEF TtwuOK
<1>6. WakingOK'
  BY <1>b, <1>f, <1>g, <1>h, <1>i DEF SwInv, WakingOK, Asleep, MaskKept, TtwuKept
<1>7. EventOK'
  BY <1>g, <1>h, <1>i DEF SwInv, EventOK, CodeKept, TtwuKept
<1>8. IdleOK'
  BY <1>h, <1>i, Zenon DEF SwInv, IdleOK, RunKept
<1>9. AffinityOK'
  BY <1>a, <1>f, <1>g, <1>i DEF SwInv, AffinityOK, MaskKept
<1>10. Seen
  <2>1. Wakes({})
    BY <1>g, <1>h, Zenon DEF Wakes, CodeKept, RunKept
  <2>2. {} \in SUBSET SwTasks
    BY Zenon
  <2> QED BY <2>1, Zenon DEF Seen
<1> QED BY <1>1, <1>2, <1>3, <1>4, <1>5, <1>6, <1>7, <1>8, <1>9, <1>10, Zenon DEF SwInv

=============================================================================
