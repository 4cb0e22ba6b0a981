------------------------------ MODULE ListOps ------------------------------
(***************************************************************************)
(* The list_head operations that the dummy scheduling class uses, on       *)
(* sequences.  include/linux/list.h is not part of this repository: the    *)
(* operators are modelled from how kernel/sched/dummy.c uses them.         *)
(* KeepIn is SelectSeq with a set for a test, defined by counting so that  *)
(* the facts about it need no induction.                                   *)
(***************************************************************************)
EXTENDS Integers, Sequences, FiniteSets, Functions

\* The positions of s that hold a member of S, and how many of them are at
\* or before position i.
Positions(s, S) == {i \in DOMAIN s : s[i] \in S}
Rank(s, S, i) == Cardinality({j \in Positions(s, S) : j <= i})

\* The members of S that are on list s, in the order of s.
KeepIn(s, S) ==
    [k \in 1..Cardinality(Positions(s, S)) |->
        s[CHOOSE i \in Positions(s, S) : Rank(s, S, i) = k]]

\* list_del_init: unlink p, wherever it is.
ListDel(s, p) == KeepIn(s, Range(s) \ {p})

=============================================================================
