------------------------------- MODULE CfsRq -------------------------------
(***************************************************************************)
(* The membership skeleton of the fair class of kernel/sched/fair.c: which *)
(* entities are on the cfs_rq and which of them are in the red-black tree. *)
(* The order of the tree (vruntime) is left out: picking chooses any       *)
(* member.  No task groups and no bandwidth control.                       *)
(*                                                                         *)
(* A cfs_rq is the record                                                  *)
(*   on    the entities with se->on_rq; nr_running is their number,        *)
(*   tree  the entities in tasks_timeline,                                 *)
(*   curr  cfs_rq->curr, None for NULL.                                    *)
(***************************************************************************)
EXTENDS Integers, FiniteSets

CONSTANTS None

init_cfs_rq == [on |-> {}, tree |-> {}, curr |-> None]

enqueue_task_fair(c, p) ==
    [c EXCEPT !.on = @ \cup {p},
              !.tree = IF p = c.curr THEN @ ELSE @ \cup {p}]

dequeue_task_fair(c, p) ==
    [c EXCEPT !.on = @ \ {p},
              !.tree = IF p = c.curr THEN @ ELSE @ \ {p}]

\* dequeue_entity erases from the tree every entity that is not curr.
CanDequeueFair(c, p) == p = c.curr \/ p \in c.tree

\* Mutant: a preempted task is not put back into the tree.
PutPrevDropped(c, p) == [c EXCEPT !.curr = None]

put_prev_task_fair(c, p) ==
    [c EXCEPT !.tree = IF p \in c.on THEN @ \cup {p} ELSE @,
              !.curr = None]

set_next_entity(c, p) ==
    [c EXCEPT !.tree = IF p \in c.on THEN @ \ {p} ELSE @,
              !.curr = p]

\* pick_next_task_fair looks at nr_running only, then takes the leftmost
\* entity of the tree for granted.
CanPickFair(c) == c.tree # {}

=============================================================================
