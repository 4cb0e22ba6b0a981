----------------------------- MODULE MCBalance -----------------------------
(***************************************************************************)
(* Two components that share no state, for TLC: CFS bandwidth control and  *)
(* load balancing.  One of them moves in a behaviour, the other stays in   *)
(* its initial state.                                                      *)
(***************************************************************************)
EXTENDS Bandwidth, LoadBalance, TLC

VARIABLE focus   \* the component that moves

-----------------------------------------------------------------------------
\* Three tasks start on CPU 2 of the groups {0, 1} and {2}; one is bound to it.
MCCpusAllowed == [t \in LbTasks |-> CASE t = "p" -> {1, 2} [] t = "q" -> {2} [] OTHER -> LbCpus]
MCTaskWeight == [t \in LbTasks |-> 4]
MCHome == [t \in LbTasks |-> 2]
-----------------------------------------------------------------------------
mcVars == <<focus, bwVars, lbVars, bgVars>>

MCInit ==
    /\ focus \in {"bandwidth", "balance"}
    /\ BwInit /\ LbInit
    /\ bgq = <<>> /\ decided = {}

MCNext ==
    /\ UNCHANGED <<focus, bgVars>>
    /\ \/ focus = "bandwidth" /\ BwNext /\ UNCHANGED lbVars
       \/ focus = "balance" /\ LbNext /\ UNCHANGED bwVars

\* The fairness of bandwidth control, when it moves. Load balancing states its own in
\* its properties.
MCFairness ==
    /\ WF_bwVars(focus = "bandwidth" /\ PeriodStep)
    /\ WF_bwVars(focus = "bandwidth" /\ SlackStep)
    /\ WF_bwVars(focus = "bandwidth" /\ SetStep)
    /\ \A c \in Cpus : WF_bwVars(focus = "bandwidth" /\ LockedStep(c))

MCSpec == MCInit /\ [][MCNext]_mcVars /\ MCFairness
=============================================================================
