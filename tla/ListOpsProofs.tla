--------------------------- MODULE ListOpsProofs ---------------------------
(***************************************************************************)
(* What the list operations of ListOps return: the facts that the proofs   *)
(* about the run queue cite.                                               *)
(***************************************************************************)
EXTENDS ListOps, FiniteSetTheorems, FunctionTheorems, TLAPS

\* The positions of a list form a finite set, so counting them is meaningful.
LEMMA PositionsFinite ==
  ASSUME NEW T, NEW s \in Seq(T), NEW S
  PROVE  /\ IsFiniteSet(Positions(s, S))
         /\ Positions(s, S) \in SUBSET (1..Len(s))
         /\ Cardinality(Positions(s, S)) \in Nat
<1>1. Positions(s, S) \in SUBSET (1..Len(s))
  BY DEF Positions
<1>2. IsFiniteSet(1..Len(s))
  BY FS_Interval, Len(s) \in Nat
<1>3. IsFiniteSet(Positions(s, S))
  BY <1>1, <1>2, FS_Subset
<1> QED
  BY <1>1, <1>3, FS_CardinalityType

\* Rank numbers the kept positions 1, 2, ..., n without gaps or repetitions,
\* in the order of the list.
LEMMA RankBijection ==
  ASSUME NEW T, NEW s \in Seq(T), NEW S
  PROVE  LET P == Positions(s, S)
             n == Cardinality(P)
         IN  /\ \A i \in P : Rank(s, S, i) \in 1..n
             /\ \A i, j \in P : i < j => Rank(s, S, i) < Rank(s, S, j)
             /\ \A k \in 1..n : \E i \in P : Rank(s, S, i) = k
<1> DEFINE P == Positions(s, S)
           n == Cardinality(P)
           Upto(i) == {j \in P : j <= i}
           R(i) == Rank(s, S, i)
<1>0. /\ IsFiniteSet(P) /\ n \in Nat
      /\ \A i \in P : i \in Nat
  BY PositionsFinite, Len(s) \in Nat
<1>1. \A i \in P : /\ IsFiniteSet(Upto(i))
                   /\ R(i) = Cardinality(Upto(i))
                   /\ R(i) \in Nat
                   /\ R(i) <= n
  <2> SUFFICES ASSUME NEW i \in P
               PROVE  /\ IsFiniteSet(Upto(i))
                      /\ R(i) = Cardinality(Upto(i))
                      /\ R(i) \in Nat
                      /\ R(i) <= n
    BY Zenon
  <2>1. Upto(i) \in SUBSET P
    OBVIOUS
  <2>2. IsFiniteSet(Upto(i)) /\ Cardinality(Upto(i)) <= Cardinality(P)
    BY <1>0, <2>1, FS_Subset
  <2>3. R(i) = Cardinality(Upto(i))
    BY DEF Rank
  <2> QED
    BY <2>2, <2>3, FS_CardinalityType
<1>a. \A i \in P : \A j \in Upto(i) : j \in P /\ j <= i
  OBVIOUS
<1>b. \A i \in P : \A j \in P : j <= i => j \in Upto(i)
  OBVIOUS
<1>c. \A i \in P : R(i) = Rank(s, S, i)
  OBVIOUS
<1> HIDE DEF P, n, Upto, R
<1>2. \A i \in P : R(i) # 0
  <2> SUFFICES ASSUME NEW i \in P PROVE R(i) # 0
    OBVIOUS
  <2>1. i \in Upto(i)
    BY <1>0, <1>b
  <2> QED
    BY <1>1, <2>1, FS_EmptySet
<1>3. \A i, j \in P : i < j => R(i) < R(j)
  <2> SUFFICES ASSUME NEW i \in P, NEW j \in P, i < j PROVE R(i) < R(j)
    OBVIOUS
  <2>1. Upto(i) \in SUBSET Upto(j)
    BY <1>0, <1>a, <1>b
  <2>2. j \in Upto(j) /\ j \notin Upto(i)
    BY <1>0, <1>a, <1>b
  <2>3. Cardinality(Upto(i)) <= Cardinality(Upto(j))
    BY <1>1, <2>1, FS_Subset
  <2>4. Cardinality(Upto(i)) # Cardinality(Upto(j))
    <3> SUFFICES ASSUME Cardinality(Upto(i)) = Cardinality(Upto(j)) PROVE FALSE
      OBVIOUS
    <3>1. Upto(j) = Upto(i)
      BY <1>1, <2>1, FS_Subset
    <3> QED
      BY <3>1, <2>2
  <2> QED
    BY <1>1, <2>3, <2>4
<1> DEFINE f == [i \in P |-> R(i)]
<1>4. f \in [P -> 1..n]
  BY <1>0, <1>1, <1>2
<1>5. \A i, j \in P : f[i] = f[j] => i = j
  BY <1>0, <1>1, <1>3
<1>6. \A i \in P : f[i] = R(i)
  OBVIOUS
<1> HIDE DEF f
<1>7. f \in Injection(P, 1..n)
  BY <1>4, <1>5, Fun_IsInj, Zenon
<1>8. IsFiniteSet(1..n) /\ Cardinality(1..n) = Cardinality(P)
  BY <1>0, FS_Interval DEF n
<1>9. f \in Surjection(P, 1..n)
  BY <1>7, <1>8, FS_Injection
<1>10. \A k \in 1..n : \E i \in P : f[i] = k
  BY <1>9 DEF Surjection
<1> QED
  BY <1>0, <1>1, <1>2, <1>3, <1>6, <1>10, <1>c DEF P, n

\* KeepIn(s, S) is a list, holds exactly the members of S that s holds, and
\* links nothing twice when s does not.
LEMMA KeepInFacts ==
  ASSUME NEW T, NEW s \in Seq(T), NEW S
  PROVE  /\ KeepIn(s, S) \in Seq(T)
         /\ Range(KeepIn(s, S)) = Range(s) \cap S
         /\ IsInjective(s) => IsInjective(KeepIn(s, S))
<1> DEFINE P == Positions(s, S)
           n == Cardinality(P)
           at(k) == CHOOSE i \in P : Rank(s, S, i) = k
           t == KeepIn(s, S)
<1>1. /\ n \in Nat
      /\ \A i \in P : i \in DOMAIN s /\ s[i] \in S /\ i \in Nat
      /\ \A i \in DOMAIN s : s[i] \in S => i \in P
  <2>1. n \in Nat
    BY PositionsFinite
  <2>2. /\ \A i \in P : i \in DOMAIN s /\ s[i] \in S /\ i \in Nat
        /\ \A i \in DOMAIN s : s[i] \in S => i \in P
    BY DEF Positions
  <2> QED
    BY <2>1, <2>2
<1>2. /\ \A i \in P : Rank(s, S, i) \in 1..n
      /\ \A i, j \in P : i < j => Rank(s, S, i) < Rank(s, S, j)
      /\ \A k \in 1..n : \E i \in P : Rank(s, S, i) = k
  BY RankBijection
<1>3. \A k \in 1..n : at(k) \in P /\ Rank(s, S, at(k)) = k
  BY <1>2
<1>4. \A i \in P : at(Rank(s, S, i)) = i
  <2> SUFFICES ASSUME NEW i \in P PROVE at(Rank(s, S, i)) = i
    OBVIOUS
  <2> DEFINE j == at(Rank(s, S, i))
  <2>1. j \in P /\ Rank(s, S, j) = Rank(s, S, i)
    BY <1>2, <1>3
  <2> HIDE DEF j
  <2>2. ~(i < j) /\ ~(j < i)
    BY <1>2, <2>1
  <2>3. i = j
    BY <1>1, <2>1, <2>2
  <2> QED
    BY <2>3 DEF j
<1>5. t = [k \in 1..n |-> s[at(k)]]
  BY DEF KeepIn
<1> HIDE DEF P, n, at, t
<1>6. \A k \in 1..n : t[k] = s[at(k)] /\ s[at(k)] \in T \cap S
  BY <1>1, <1>3, <1>5
<1>7. t \in Seq(T)
  BY <1>1, <1>5, <1>6
<1>8. DOMAIN t = 1..n
  BY <1>5
<1>9. Range(t) = Range(s) \cap S
  <2>1. ASSUME NEW x \in Range(t) PROVE x \in Range(s) \cap S
    BY <2>1, <1>1, <1>3, <1>6, <1>8 DEF Range
  <2>2. ASSUME NEW x \in Range(s) \cap S PROVE x \in Range(t)
    <3>1. PICK i \in DOMAIN s : x = s[i]
      BY <2>2 DEF Range
    <3>2. i \in P
      BY <3>1, <2>2, <1>1
    <3>3. Rank(s, S, i) \in 1..n /\ t[Rank(s, S, i)] = s[i]
      BY <3>2, <1>2, <1>4, <1>6
    <3> QED
      BY <3>1, <3>3, <1>8 DEF Range
  <2> QED
    BY <2>1, <2>2
<1>10. IsInjective(s) => IsInjective(t)
  <2> SUFFICES ASSUME IsInjective(s), NEW a \in 1..n, NEW b \in 1..n, t[a] = t[b]
               PROVE  a = b
    BY <1>8 DEF IsInjective
  <2>1. at(a) = at(b)
    BY <1>1, <1>3, <1>6 DEF IsInjective
  <2> QED
    BY <2>1, <1>3
<1> QED
  BY <1>7, <1>9, <1>10 DEF t

\* list_del_init removes p and nothing else.
LEMMA ListDelFacts ==
  ASSUME NEW T, NEW s \in Seq(T), NEW p
  PROVE  /\ ListDel(s, p) \in Seq(T)
         /\ Range(ListDel(s, p)) = Range(s) \ {p}
         /\ IsInjective(s) => IsInjective(ListDel(s, p))
<1> DEFINE S == Range(s) \ {p}
<1>1. /\ KeepIn(s, S) \in Seq(T)
      /\ Range(KeepIn(s, S)) = Range(s) \cap S
      /\ IsInjective(s) => IsInjective(KeepIn(s, S))
  BY KeepInFacts
<1>2. ListDel(s, p) = KeepIn(s, S)
  BY DEF ListDel
<1> QED
  BY <1>1, <1>2, Zenon

\* Joining two lists with no common element.
LEMMA ConcatFacts ==
  ASSUME NEW T, NEW s \in Seq(T), NEW t \in Seq(T)
  PROVE  /\ s \o t \in Seq(T)
         /\ Range(s \o t) = Range(s) \cup Range(t)
         /\ IsInjective(s) /\ IsInjective(t) /\ Range(s) \cap Range(t) = {}
              => IsInjective(s \o t)
<1>1. /\ s \o t \in Seq(T)
      /\ DOMAIN (s \o t) = 1..(Len(s) + Len(t))
      /\ \A i \in 1..Len(s) : (s \o t)[i] = s[i]
      /\ \A i \in 1..Len(t) : (s \o t)[Len(s) + i] = t[i]
  OBVIOUS
<1>2. /\ Len(s) \in Nat /\ Len(t) \in Nat
      /\ DOMAIN s = 1..Len(s) /\ DOMAIN t = 1..Len(t)
  OBVIOUS
<1>3. \A i \in 1..(Len(s) + Len(t)) :
         \/ i \in 1..Len(s)
         \/ (i - Len(s)) \in 1..Len(t) /\ i = Len(s) + (i - Len(s))
  BY <1>2
<1>a. /\ \A i \in 1..Len(s) : (s \o t)[i] \in Range(s)
      /\ \A k \in 1..Len(t) : (s \o t)[Len(s) + k] \in Range(t)
  BY <1>1, <1>2, Zenon DEF Range
<1>4. Range(s \o t) = Range(s) \cup Range(t)
  <2>1. ASSUME NEW i \in 1..(Len(s) + Len(t))
        PROVE  (s \o t)[i] \in Range(s) \cup Range(t)
    BY <1>1, <1>2, <1>3 DEF Range
  <2>2. ASSUME NEW i \in 1..Len(s) PROVE s[i] \in Range(s \o t)
    BY <1>1, <1>2 DEF Range
  <2>3. ASSUME NEW i \in 1..Len(t) PROVE t[i] \in Range(s \o t)
    <3>1. Len(s) + i \in DOMAIN (s \o t)
      BY <1>1, <1>2
    <3>2. (s \o t)[Len(s) + i] = t[i]
      BY <1>1
    <3> QED
      BY <3>1, <3>2, Zenon DEF Range
  <2>4. ASSUME NEW x \in Range(s \o t) PROVE x \in Range(s) \cup Range(t)
    <3>1. PICK i \in 1..(Len(s) + Len(t)) : x = (s \o t)[i]
      BY <2>4, <1>1, Zenon DEF Range
    <3> QED
      BY <2>1, <3>1, Zenon
  <2>5. ASSUME NEW x \in Range(s) PROVE x \in Range(s \o t)
    <3>1. PICK i \in 1..Len(s) : x = s[i]
      BY <2>5, <1>2, Zenon DEF Range
    <3> QED
      BY <2>2, <3>1, Zenon
  <2>6. ASSUME NEW x \in Range(t) PROVE x \in Range(s \o t)
    <3>1. PICK i \in 1..Len(t) : x = t[i]
      BY <2>6, <1>2, Zenon DEF Range
    <3> QED
      BY <2>3, <3>1, Zenon
  <2> QED
    BY <2>4, <2>5, <2>6, Zenon
<1>5. ASSUME IsInjective(s), IsInjective(t), Range(s) \cap Range(t) = {}
      PROVE  IsInjective(s \o t)
  <2> SUFFICES ASSUME NEW i \in 1..(Len(s) + Len(t)),
                      NEW j \in 1..(Len(s) + Len(t)),
                      (s \o t)[i] = (s \o t)[j]
               PROVE  i = j
    BY <1>1 DEF IsInjective
  <2>1. CASE i \in 1..Len(s) /\ j \in 1..Len(s)
    BY <2>1, <1>1, <1>2, <1>5 DEF IsInjective
  <2>2. CASE i \in 1..Len(s) /\ (j - Len(s)) \in 1..Len(t)
    <3>1. (s \o t)[i] \in Range(s) /\ (s \o t)[j] \in Range(t)
      BY <2>2, <1>a, <1>2, j = Len(s) + (j - Len(s))
    <3> QED
      BY <3>1, <1>5
  <2>3. CASE (i - Len(s)) \in 1..Len(t) /\ j \in 1..Len(s)
    <3>1. (s \o t)[j] \in Range(s) /\ (s \o t)[i] \in Range(t)
      BY <2>3, <1>a, <1>2, i = Len(s) + (i - Len(s))
    <3> QED
      BY <3>1, <1>5
  <2>4. CASE (i - Len(s)) \in 1..Len(t) /\ (j - Len(s)) \in 1..Len(t)
    <3>1. t[i - Len(s)] = t[j - Len(s)]
      BY <2>4, <1>1, <1>2
    <3>2. i - Len(s) = j - Len(s)
      BY <3>1, <2>4, <1>2, <1>5, Zenon DEF IsInjective
    <3> QED
      BY <3>2, <1>2
  <2> QED
    BY <2>1, <2>2, <2>3, <2>4, <1>3
<1> QED
  BY <1>1, <1>4, <1>5

\* list_add_tail of a task that is not on the list.
LEMMA AppendFacts ==
  ASSUME NEW T, NEW s \in Seq(T), NEW p \in T
  PROVE  /\ Append(s, p) \in Seq(T)
         /\ Range(Append(s, p)) = Range(s) \cup {p}
         /\ IsInjective(s) /\ p \notin Range(s) => IsInjective(Append(s, p))
<1>1. /\ Append(s, p) \in Seq(T)
      /\ DOMAIN Append(s, p) = 1..(Len(s) + 1)
      /\ \A i \in 1..Len(s) : Append(s, p)[i] = s[i]
      /\ Append(s, p)[Len(s) + 1] = p
      /\ Len(s) \in Nat /\ DOMAIN s = 1..Len(s)
  OBVIOUS
<1>2. \A i \in 1..(Len(s) + 1) : i \in 1..Len(s) \/ i = Len(s) + 1
  BY <1>1
<1>3. Range(Append(s, p)) = Range(s) \cup {p}
  <2>1. \A i \in 1..(Len(s) + 1) : Append(s, p)[i] \in Range(s) \cup {p}
    BY <1>1, <1>2 DEF Range
  <2>2. \A i \in 1..Len(s) : s[i] \in Range(Append(s, p))
    BY <1>1 DEF Range
  <2>3. p \in Range(Append(s, p))
    BY <1>1, Len(s) + 1 \in 1..(Len(s) + 1) DEF Range
  <2> QED
    BY <2>1, <2>2, <2>3, <1>1 DEF Range
<1>4. IsInjective(s) /\ p \notin Range(s) => IsInjective(Append(s, p))
  BY <1>1, <1>2 DEF IsInjective, Range
<1> QED
  BY <1>1, <1>3, <1>4

\* The first element of a list is on it.
LEMMA HeadInRange ==
  ASSUME NEW T, NEW s \in Seq(T), s # <<>>
  PROVE  Head(s) \in Range(s)
<1>1. 1 \in DOMAIN s /\ Head(s) = s[1]
  OBVIOUS
<1> QED
  BY <1>1 DEF Range

-----------------------------------------------------------------------------
(* The order of a list.                                                    *)

\* q is on s, ahead of p.
Ahead(s, q, p) == \E m, n \in DOMAIN s : m < n /\ s[m] = q /\ s[n] = p

\* Whatever is left out, nobody gets ahead of anybody.
LEMMA KeepInOrder ==
  ASSUME NEW T, NEW s \in Seq(T), NEW S, NEW q, NEW p, Ahead(KeepIn(s, S), q, p)
  PROVE  Ahead(s, q, p)
<1> DEFINE P == Positions(s, S)
           n == Cardinality(P)
           at(k) == CHOOSE i \in P : Rank(s, S, i) = k
           t == KeepIn(s, S)
<1>1. /\ n \in Nat
      /\ \A i \in P : i \in DOMAIN s /\ i \in Nat
  <2>1. n \in Nat
    BY PositionsFinite
  <2>2. \A i \in P : i \in DOMAIN s /\ i \in Nat
    BY DEF Positions
  <2> QED
    BY <2>1, <2>2
<1>2. /\ \A i \in P : Rank(s, S, i) \in 1..n
      /\ \A i, j \in P : i < j => Rank(s, S, i) < Rank(s, S, j)
      /\ \A k \in 1..n : \E i \in P : Rank(s, S, i) = k
  BY RankBijection
<1>3. \A k \in 1..n : at(k) \in P /\ Rank(s, S, at(k)) = k
  BY <1>2
<1>4. t = [k \in 1..n |-> s[at(k)]]
  BY DEF KeepIn
<1>5. PICK a \in DOMAIN t, b \in DOMAIN t : a < b /\ t[a] = q /\ t[b] = p
  BY Zenon DEF Ahead
<1> HIDE DEF P, n, at, t
<1>6. a \in 1..n /\ b \in 1..n
  BY <1>4
<1>7. s[at(a)] = q /\ s[at(b)] = p
  BY <1>4, <1>5, <1>6
<1>8. at(a) < at(b)
  <2>1. at(a) \in P /\ at(b) \in P /\ Rank(s, S, at(a)) = a /\ Rank(s, S, at(b)) = b
    BY <1>3, <1>6
  <2>2. at(a) # at(b)
    BY <2>1, <1>5, <1>6, <1>1
  <2>3. ~(at(b) < at(a))
    <3>1. at(b) < at(a) => b < a
      BY <1>2, <2>1, Zenon
    <3> QED BY <3>1, <1>1, <1>5, <1>6
  <2> QED BY <1>1, <2>1, <2>2, <2>3
<1>9. at(a) \in DOMAIN s /\ at(b) \in DOMAIN s
  BY <1>1, <1>3, <1>6
<1> QED BY <1>7, <1>8, <1>9, Zenon DEF Ahead

\* Whoever is linked at the tail is ahead of nobody.
LEMMA AppendOrder ==
  ASSUME NEW T, NEW s \in Seq(T), NEW x \in T, NEW q, NEW p, p # x,
         Ahead(Append(s, x), q, p)
  PROVE  Ahead(s, q, p)
<1>1. PICK a \in DOMAIN Append(s, x), b \in DOMAIN Append(s, x) :
        a < b /\ Append(s, x)[a] = q /\ Append(s, x)[b] = p
  BY Zenon DEF Ahead
<1>2. /\ DOMAIN Append(s, x) = 1..(Len(s) + 1)
      /\ \A i \in 1..Len(s) : Append(s, x)[i] = s[i]
      /\ Append(s, x)[Len(s) + 1] = x
      /\ Len(s) \in Nat /\ DOMAIN s = 1..Len(s)
  OBVIOUS
<1>3. b \in 1..Len(s) /\ a \in 1..Len(s)
  BY <1>1, <1>2
<1> QED BY <1>1, <1>2, <1>3, Zenon DEF Ahead

LEMMA ConcatOrder ==
  ASSUME NEW T, NEW s \in Seq(T), NEW t \in Seq(T), NEW q, NEW p, p \notin Range(t),
         Ahead(s \o t, q, p)
  PROVE  Ahead(s, q, p)
<1>1. PICK a \in DOMAIN (s \o t), b \in DOMAIN (s \o t) :
        a < b /\ (s \o t)[a] = q /\ (s \o t)[b] = p
  BY Zenon DEF Ahead
<1>2. /\ DOMAIN (s \o t) = 1..(Len(s) + Len(t))
      /\ \A i \in 1..Len(s) : (s \o t)[i] = s[i]
      /\ \A i \in 1..Len(t) : (s \o t)[Len(s) + i] = t[i]
      /\ Len(s) \in Nat /\ Len(t) \in Nat
      /\ DOMAIN s = 1..Len(s) /\ DOMAIN t = 1..Len(t)
  OBVIOUS
<1>3. b \in 1..Len(s)
  <2>1. \A k \in 1..Len(t) : t[k] # p
    BY <1>2, Zenon DEF Range
  <2>2. CASE b \notin 1..Len(s)
    <3>1. (b - Len(s)) \in 1..Len(t) /\ b = Len(s) + (b - Len(s))
      BY <1>1, <1>2, <2>2
    <3> QED BY <1>1, <1>2, <2>1, <3>1
  <2> QED BY <2>2
<1>4. a \in 1..Len(s)
  BY <1>1, <1>2, <1>3
<1> QED BY <1>1, <1>2, <1>3, <1>4, Zenon DEF Ahead

=============================================================================
