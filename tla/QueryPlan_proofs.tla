-------------------------- MODULE QueryPlan_proofs --------------------------
(***************************************************************************)
(* That the plan of a query never changes its answer: for every collection,*)
(* every set of table options and queries, every length of pages and every *)
(* way of announcing them.                                                 *)
(***************************************************************************)
EXTENDS QueryPlan, FiniteSetTheorems, SequenceTheorems, WellFoundedInduction, TLAPS

-----------------------------------------------------------------------------
\* Numbers.

\* A set of numbers that is not empty has a least one.
LEMMA LeastNumber ==
  ASSUME NEW T, T \subseteq Nat, T # {}
  PROVE  \E m \in T : \A i \in T : m <= i
<1>1. IsWellFoundedOn(OpToRel(<, Nat), Nat)
  BY NatLessThanWellFounded
<1>2. PICK m \in T : \A i \in T : ~(<<i, m>> \in OpToRel(<, Nat))
  BY <1>1, WFMin
<1>3. \A i \in T : ~(i < m)
  BY <1>2 DEF OpToRel
<1>4. QED BY <1>3

\* Of the numbers up to n some have a property: one of them is the last.
LEMMA LastNumber ==
  ASSUME NEW n \in Nat, NEW T, T \subseteq 1..n, T # {}
  PROVE  \E m \in T : \A i \in T : i <= m
<1> DEFINE U == {n - i : i \in T}
<1>1. U \subseteq Nat
  OBVIOUS
<1>2. U # {}
  <2>1. PICK i \in T : TRUE
    OBVIOUS
  <2>2. n - i \in U
    OBVIOUS
  <2> QED BY <2>2
<1>3. PICK u \in U : \A v \in U : u <= v
  BY <1>1, <1>2, LeastNumber
<1>4. PICK m \in T : u = n - m
  OBVIOUS
<1>5. \A i \in T : n - i \in U /\ i \in Int
  OBVIOUS
<1>6. \A i \in T : i <= m
  BY <1>3, <1>4, <1>5
<1>7. QED BY <1>6
-----------------------------------------------------------------------------
\* Members.

\* How many of a set of numbers are not above a number.
Rank(set, i) == Cardinality({j \in set : j <= i})

\* Of a finite set of numbers each has a rank of its own, and every rank is taken.
LEMMA RankFacts ==
  ASSUME NEW n \in Nat, NEW P \in SUBSET (1..n)
  PROVE  /\ IsFiniteSet(P) /\ Cardinality(P) \in Nat
         /\ \A i \in P : Rank(P, i) \in 1..Cardinality(P)
         /\ \A i, j \in P : i < j => Rank(P, i) < Rank(P, j)
         /\ \A i, j \in P : Rank(P, i) = Rank(P, j) => i = j
         /\ \A k \in 1..Cardinality(P) : \E i \in P : Rank(P, i) = k
  <1> DEFINE m == Cardinality(P)
             Upto(x) == {y \in P : y <= x}
             rank == [x \in P |-> Cardinality(Upto(x))]
  <1>1. IsFiniteSet(1..n)
    BY FS_Interval
  <1>2. P \subseteq Int /\ IsFiniteSet(P) /\ m \in Nat
    <2>1. P \subseteq Int
      OBVIOUS
    <2>2. IsFiniteSet(P)
      BY <1>1, FS_Subset
    <2> QED BY <2>1, <2>2, FS_CardinalityType
  <1>3. ASSUME NEW x \in P PROVE IsFiniteSet(Upto(x)) /\ rank[x] \in 1..m
    <2>1. IsFiniteSet(Upto(x)) /\ Cardinality(Upto(x)) <= m
      BY <1>2, FS_Subset
    <2>2. Cardinality(Upto(x)) \in Nat
      BY <2>1, FS_CardinalityType
    <2>3. x \in Upto(x)
      BY <1>2
    <2>4. Cardinality(Upto(x)) # 0
      BY <2>1, <2>3, FS_EmptySet
    <2> QED BY <1>2, <2>1, <2>2, <2>4
  <1>4. ASSUME NEW x \in P, NEW y \in P, x < y PROVE rank[x] < rank[y]
    <2>1. x \in Int /\ y \in Int /\ \A z \in P : z \in Int
      BY <1>2
    <2>2. \A z \in Upto(x) : z \in Upto(y)
      BY <1>4, <2>1
    <2>3. y \in Upto(y) /\ y \notin Upto(x)
      BY <1>4, <2>1
    <2>4. Cardinality(Upto(x)) <= Cardinality(Upto(y)) /\ Cardinality(Upto(x)) # Cardinality(Upto(y))
      BY <1>3, <2>2, <2>3, FS_Subset
    <2> QED BY <1>3, <2>4
  <1>5. \A x, y \in P : rank[x] = rank[y] => x = y
    <2> SUFFICES ASSUME NEW x \in P, NEW y \in P, rank[x] = rank[y] PROVE x = y
      OBVIOUS
    <2>1. x \in Int /\ y \in Int /\ rank[x] \in Int /\ rank[y] \in Int
      BY <1>2, <1>3
    <2>2. ~(x < y) /\ ~(y < x)
      BY <1>4, <2>1
    <2> QED BY <2>1, <2>2
  <1>6. rank \in Injection(P, 1..m)
    <2>1. rank \in [P -> 1..m]
      BY <1>3
    <2> QED BY <1>5, <2>1 DEF Injection, IsInjective
  <1>7. \A k \in 1..m : \E x \in P : rank[x] = k
    <2>1. IsFiniteSet(1..m) /\ Cardinality(1..m) = m
      BY <1>2, FS_Interval
    <2>2. rank \in Surjection(P, 1..m)
      BY <1>2, <1>6, <2>1, FS_Injection
    <2> QED BY <2>2 DEF Surjection
  <1>8. \A x \in P : rank[x] = Rank(P, x)
    BY DEF Rank
  <1> HIDE DEF rank, Upto
  <1>9. \A x \in P : Rank(P, x) \in 1..m
    BY <1>3, <1>8
  <1>10. \A x, y \in P : x < y => Rank(P, x) < Rank(P, y)
    BY <1>4, <1>8
  <1>11. \A x, y \in P : Rank(P, x) = Rank(P, y) => x = y
    BY <1>5, <1>8
  <1>12. \A k \in 1..m : \E x \in P : Rank(P, x) = k
    BY <1>7, <1>8
  <1> QED BY <1>2, <1>9, <1>10, <1>11, <1>12

Kept(sequence, set) == {i \in DOMAIN sequence : sequence[i] \in set}

\* What Members returns: at position k the element with k - 1 before it.
LEMMA MembersFacts ==
  ASSUME NEW D, NEW s \in Seq(D), NEW set
  PROVE  LET P == Kept(s, set)
             t == Members(s, set) IN
         /\ P \in SUBSET (1..Len(s)) /\ Len(s) \in Nat
         /\ t \in Seq(D) /\ Len(t) = Cardinality(P) /\ Len(t) \in Nat
         /\ \A i \in P : Rank(P, i) \in 1..Len(t) /\ t[Rank(P, i)] = s[i]
         /\ \A k \in 1..Len(t) : \E i \in P : Rank(P, i) = k /\ t[k] = s[i]
  <1> DEFINE P == Kept(s, set)
             t == Members(s, set)
             Place(k) == CHOOSE i \in P : Rank(P, i) = k
  <1>1. DOMAIN s = 1..Len(s) /\ Len(s) \in Nat /\ \A i \in 1..Len(s) : s[i] \in D
    OBVIOUS
  <1>2. P \in SUBSET (1..Len(s))
    BY <1>1 DEF Kept
  <1>3. t = [k \in 1..Cardinality(P) |-> s[Place(k)]]
    BY DEF Members, Kept, Rank
  <1> HIDE DEF P, t
  <1>4. /\ Cardinality(P) \in Nat
        /\ \A i \in P : Rank(P, i) \in 1..Cardinality(P)
        /\ \A i, j \in P : Rank(P, i) = Rank(P, j) => i = j
        /\ \A k \in 1..Cardinality(P) : \E i \in P : Rank(P, i) = k
    BY <1>1, <1>2, RankFacts
  <1>5. \A k \in 1..Cardinality(P) : Place(k) \in P /\ Rank(P, Place(k)) = k
    BY <1>4
  <1>6. \A i \in P : Place(Rank(P, i)) = i
    BY <1>4, <1>5
  <1> HIDE DEF Place
  <1>7. \A k \in 1..Cardinality(P) : t[k] = s[Place(k)] /\ t[k] \in D
    BY <1>1, <1>2, <1>3, <1>5
  <1>8. t \in Seq(D) /\ Len(t) = Cardinality(P)
    BY <1>3, <1>4, <1>7
  <1>9. \A i \in P : Rank(P, i) \in 1..Len(t) /\ t[Rank(P, i)] = s[i]
    BY <1>4, <1>6, <1>7, <1>8
  <1>10. \A k \in 1..Len(t) : \E i \in P : Rank(P, i) = k /\ t[k] = s[i]
    BY <1>5, <1>7, <1>8
  <1> QED BY <1>1, <1>2, <1>4, <1>8, <1>9, <1>10 DEF P, t

\* Only the members that are there matter.
LEMMA MembersAlike ==
  ASSUME NEW s, NEW S, NEW T, \A i \in DOMAIN s : s[i] \in S <=> s[i] \in T
  PROVE  Members(s, S) = Members(s, T)
  <1> DEFINE At_(P) == [k \in 1..Cardinality(P) |-> s[CHOOSE i \in P : Rank(P, i) = k]]
  <1>1. Kept(s, S) = Kept(s, T)
    BY DEF Kept
  <1>2. Members(s, S) = At_(Kept(s, S)) /\ Members(s, T) = At_(Kept(s, T))
    BY DEF Members, Kept, Rank
  <1> HIDE DEF At_
  <1> QED BY <1>1, <1>2

\* A sequence of members is kept.
LEMMA MembersAll ==
  ASSUME NEW D, NEW s \in Seq(D), NEW S, \A i \in DOMAIN s : s[i] \in S
  PROVE  Members(s, S) = s
  <1> DEFINE P == Kept(s, S)
             t == Members(s, S)
  <1>1. DOMAIN s = 1..Len(s) /\ Len(s) \in Nat
    OBVIOUS
  <1>2. P = 1..Len(s)
    BY <1>1 DEF Kept
  <1>3. ASSUME NEW i \in 1..Len(s) PROVE Rank(P, i) = i
    <2>1. {j \in 1..Len(s) : j <= i} = 1..i
      BY <1>1
    <2>2. Cardinality(1..i) = i
      BY <1>1, FS_Interval
    <2> QED BY <1>2, <2>1, <2>2 DEF Rank
  <1>4. /\ t \in Seq(D) /\ Len(t) = Cardinality(P)
        /\ \A i \in P : t[Rank(P, i)] = s[i]
    BY MembersFacts
  <1>5. Cardinality(1..Len(s)) = Len(s)
    BY <1>1, FS_Interval
  <1> HIDE DEF P, t
  <1>6. Len(t) = Len(s) /\ \A i \in 1..Len(s) : t[i] = s[i]
    BY <1>2, <1>3, <1>4, <1>5
  <1>7. t = s
    BY <1>4, <1>6
  <1> QED BY <1>7 DEF t

\* Members of members.
LEMMA MembersTwice ==
  ASSUME NEW D, NEW s \in Seq(D), NEW S, NEW T
  PROVE  Members(Members(s, S), T) = Members(s, S \cap T)
  <1> DEFINE t == Members(s, S)
             u == Members(t, T)
             v == Members(s, S \cap T)
             P == Kept(s, S)
             Q == Kept(t, T)
             R == Kept(s, S \cap T)
  <1>1. /\ P \in SUBSET (1..Len(s)) /\ Len(s) \in Nat
        /\ t \in Seq(D) /\ Len(t) = Cardinality(P) /\ Len(t) \in Nat
        /\ \A i \in P : Rank(P, i) \in 1..Len(t) /\ t[Rank(P, i)] = s[i]
        /\ \A k \in 1..Len(t) : \E i \in P : Rank(P, i) = k /\ t[k] = s[i]
    BY MembersFacts
  <1>2. /\ R \in SUBSET (1..Len(s))
        /\ v \in Seq(D) /\ Len(v) = Cardinality(R)
        /\ \A i \in R : Rank(R, i) \in 1..Len(v) /\ v[Rank(R, i)] = s[i]
        /\ \A k \in 1..Len(v) : \E i \in R : Rank(R, i) = k /\ v[k] = s[i]
    <2> DEFINE U == S \cap T
    <2> HIDE DEF U
    <2>1. /\ Kept(s, U) \in SUBSET (1..Len(s))
          /\ Members(s, U) \in Seq(D) /\ Len(Members(s, U)) = Cardinality(Kept(s, U))
          /\ \A i \in Kept(s, U) : Rank(Kept(s, U), i) \in 1..Len(Members(s, U))
                                   /\ Members(s, U)[Rank(Kept(s, U), i)] = s[i]
          /\ \A k \in 1..Len(Members(s, U)) :
               \E i \in Kept(s, U) : Rank(Kept(s, U), i) = k /\ Members(s, U)[k] = s[i]
      BY MembersFacts
    <2> QED BY <2>1 DEF U
  <1>3. R \subseteq P
    BY DEF Kept
  <1>4. DOMAIN t = 1..Len(t)
    BY <1>1
  <1>5. \A i \in P : i \in R <=> Rank(P, i) \in Q
    <2> SUFFICES ASSUME NEW i \in P PROVE i \in R <=> Rank(P, i) \in Q
      OBVIOUS
    <2>1. i \in DOMAIN s /\ s[i] \in S
      BY DEF Kept
    <2>2. Rank(P, i) \in DOMAIN t /\ t[Rank(P, i)] = s[i]
      BY <1>1, <1>4
    <2>3. i \in R <=> s[i] \in T
      BY <2>1 DEF Kept
    <2>4. Rank(P, i) \in Q <=> s[i] \in T
      BY <2>2 DEF Kept
    <2> QED BY <2>3, <2>4
  <1>6. /\ Q \in SUBSET (1..Len(t))
        /\ u \in Seq(D) /\ Len(u) = Cardinality(Q) /\ Len(u) \in Nat
        /\ \A k \in Q : Rank(Q, k) \in 1..Len(u) /\ u[Rank(Q, k)] = t[k]
        /\ \A k \in 1..Len(u) : \E j \in Q : Rank(Q, j) = k /\ u[k] = t[j]
    BY <1>1, MembersFacts
  <1>7. /\ IsFiniteSet(P) /\ \A i, j \in P : Rank(P, i) = Rank(P, j) => i = j
        /\ \A i, j \in P : i < j => Rank(P, i) < Rank(P, j)
    BY <1>1, RankFacts
  <1> HIDE DEF t, u, v, P, Q, R
  <1>8. IsFiniteSet(R) /\ IsFiniteSet(Q)
    <2>1. IsFiniteSet(1..Len(s)) /\ IsFiniteSet(1..Len(t))
      BY <1>1, FS_Interval
    <2> QED BY <1>2, <1>6, <2>1, FS_Subset
  <1>9. ASSUME NEW k \in Q PROVE \E i \in R : Rank(P, i) = k
    BY <1>1, <1>5, <1>6
  \* place maps R on Q, and what is not above i on what is not above its place.
  <1>10. ASSUME NEW A \in SUBSET R, NEW B \in SUBSET Q,
                \A i \in A : Rank(P, i) \in B, \A k \in B : \E i \in A : Rank(P, i) = k
         PROVE  Cardinality(A) = Cardinality(B)
    <2> DEFINE f == [i \in A |-> Rank(P, i)]
    <2>1. f \in Bijection(A, B)
      <3>1. f \in [A -> B]
        BY <1>10
      <3>2. \A i, j \in A : f[i] = f[j] => i = j
        BY <1>3, <1>7
      <3>3. \A k \in B : \E i \in A : f[i] = k
        BY <1>10
      <3> HIDE DEF f
      <3>4. f \in Injection(A, B)
        BY <3>1, <3>2 DEF Injection, IsInjective
      <3>5. f \in Surjection(A, B)
        BY <3>1, <3>3 DEF Surjection
      <3> QED BY <3>4, <3>5 DEF Bijection
    <2>2. IsFiniteSet(A)
      BY <1>8, FS_Subset
    <2> HIDE DEF f
    <2> QED BY <2>1, <2>2, FS_Bijection DEF ExistsBijection
  <1>11. Len(u) = Len(v)
    <2>1. \A i \in R : Rank(P, i) \in Q
      BY <1>3, <1>5
    <2>2. Cardinality(R) = Cardinality(Q)
      BY <1>9, <1>10, <2>1
    <2> QED BY <1>2, <1>6, <2>2
  <1>12. ASSUME NEW i \in R PROVE Rank(Q, Rank(P, i)) = Rank(R, i)
    <2> DEFINE A == {j \in R : j <= i}
               B == {k \in Q : k <= Rank(P, i)}
    <2>1. \A j \in P : j \in Int /\ Rank(P, j) \in Int
      BY <1>1
    <2>2. \A j \in P : j <= i <=> Rank(P, j) <= Rank(P, i)
      BY <1>3, <1>7, <2>1
    <2>3. \A j \in A : Rank(P, j) \in B
      BY <1>3, <1>5, <2>2
    <2>4. \A k \in B : \E j \in A : Rank(P, j) = k
      BY <1>3, <1>9, <2>2
    <2>5. A \in SUBSET R /\ B \in SUBSET Q
      OBVIOUS
    <2> HIDE DEF A, B
    <2>6. Cardinality(A) = Cardinality(B)
      BY <1>10, <2>3, <2>4, <2>5
    <2> QED BY <2>6 DEF Rank, A, B
  <1>13. \A k \in 1..Len(v) : u[k] = v[k]
    <2> SUFFICES ASSUME NEW k \in 1..Len(v) PROVE u[k] = v[k]
      OBVIOUS
    <2>1. PICK i \in R : Rank(R, i) = k /\ v[k] = s[i]
      BY <1>2
    <2>2. Rank(P, i) \in Q /\ Rank(Q, Rank(P, i)) = k
      BY <1>3, <1>5, <1>12, <2>1
    <2>3. u[k] = t[Rank(P, i)] /\ t[Rank(P, i)] = s[i]
      BY <1>1, <1>3, <1>6, <2>2
    <2> QED BY <2>1, <2>3
  <1>14. u = v
    BY <1>2, <1>6, <1>11, <1>13
  <1> QED BY <1>14 DEF t, u, v
-----------------------------------------------------------------------------
\* AtMost.

LEMMA AtMostFacts ==
  ASSUME NEW D, NEW s \in Seq(D), NEW n \in Nat \cup {NoLimit}
  PROVE  LET t == AtMost(n, s) IN
         /\ t \in Seq(D) /\ Len(t) \in Nat
         /\ Len(t) = IF n = NoLimit \/ n >= Len(s) THEN Len(s) ELSE n
         /\ \A i \in 1..Len(t) : i \in 1..Len(s) /\ t[i] = s[i]
<1>1. Len(s) \in Nat /\ NoLimit = -1
  BY DEF NoLimit
<1>2. CASE n = NoLimit \/ n >= Len(s)
  BY <1>1, <1>2 DEF AtMost
<1>3. CASE ~(n = NoLimit \/ n >= Len(s))
  <2>1. n \in Nat /\ n < Len(s) /\ AtMost(n, s) = SubSeq(s, 1, n)
    BY <1>1, <1>3 DEF AtMost
  <2>2. \A i \in 1..n : i \in 1..Len(s) /\ s[i] \in D
    BY <1>1, <2>1
  <2>3. SubSeq(s, 1, n) \in Seq(D) /\ Len(SubSeq(s, 1, n)) = n /\ \A i \in 1..n : SubSeq(s, 1, n)[i] = s[i]
    BY <1>1, <2>1, <2>2
  <2> QED BY <1>3, <2>1, <2>2, <2>3
<1> QED BY <1>2, <1>3

\* Equal sequences.
LEMMA SameSequence ==
  ASSUME NEW D, NEW s \in Seq(D), NEW t \in Seq(D), Len(s) = Len(t), \A i \in 1..Len(s) : s[i] = t[i]
  PROVE  s = t
  OBVIOUS

LEMMA AtMostTwice ==
  ASSUME NEW D, NEW s \in Seq(D), NEW m \in Nat \cup {NoLimit}, NEW n \in Nat \cup {NoLimit},
         m = NoLimit \/ (n # NoLimit /\ n <= m) \/ m >= Len(s)
  PROVE  AtMost(n, AtMost(m, s)) = AtMost(n, s)
<1> DEFINE t == AtMost(m, s)
<1>1. /\ t \in Seq(D) /\ Len(t) \in Nat
      /\ Len(t) = IF m = NoLimit \/ m >= Len(s) THEN Len(s) ELSE m
      /\ \A i \in 1..Len(t) : i \in 1..Len(s) /\ t[i] = s[i]
  BY AtMostFacts
<1> HIDE DEF t
<1>2. /\ AtMost(n, s) \in Seq(D)
      /\ Len(AtMost(n, s)) = IF n = NoLimit \/ n >= Len(s) THEN Len(s) ELSE n
      /\ \A i \in 1..Len(AtMost(n, s)) : i \in 1..Len(s) /\ AtMost(n, s)[i] = s[i]
  BY AtMostFacts
<1>3. /\ AtMost(n, t) \in Seq(D)
      /\ Len(AtMost(n, t)) = IF n = NoLimit \/ n >= Len(t) THEN Len(t) ELSE n
      /\ \A i \in 1..Len(AtMost(n, t)) : i \in 1..Len(t) /\ AtMost(n, t)[i] = t[i]
  BY <1>1, AtMostFacts
<1>4. Len(s) \in Nat /\ NoLimit = -1
  BY DEF NoLimit
<1>5. Len(AtMost(n, t)) = Len(AtMost(n, s))
  BY <1>1, <1>2, <1>3, <1>4
<1>6. \A i \in 1..Len(AtMost(n, t)) : AtMost(n, t)[i] = AtMost(n, s)[i]
  BY <1>1, <1>2, <1>3, <1>5
<1>7. AtMost(n, t) = AtMost(n, s)
  BY <1>2, <1>3, <1>5, <1>6, SameSequence
<1> QED BY <1>7 DEF t

\* A page after the ones before it.
LEMMA NextWindow ==
  ASSUME NEW D, NEW s \in Seq(D), NEW a \in Nat, NEW l \in Nat, a <= l
  PROVE  LET w == SubSeq(AtMost(l, s), a + 1, Len(AtMost(l, s))) IN
         /\ w \in Seq(D) /\ \A i \in 1..Len(w) : \E j \in 1..Len(s) : w[i] = s[j]
         /\ AtMost(a, s) \o w = AtMost(l, s)
         /\ w = <<>> => AtMost(l, s) = AtMost(a, s)
         /\ w = <<>> => a = l \/ a >= Len(s)
<1> DEFINE p == AtMost(a, s)
           q == AtMost(l, s)
           w == SubSeq(q, a + 1, Len(q))
<1>0. Len(s) \in Nat /\ NoLimit = -1
  BY DEF NoLimit
<1>1. /\ p \in Seq(D) /\ Len(p) \in Nat
      /\ Len(p) = IF a >= Len(s) THEN Len(s) ELSE a
      /\ \A i \in 1..Len(p) : i \in 1..Len(s) /\ p[i] = s[i]
  BY <1>0, AtMostFacts
<1>2. /\ q \in Seq(D) /\ Len(q) \in Nat
      /\ Len(q) = IF l >= Len(s) THEN Len(s) ELSE l
      /\ \A i \in 1..Len(q) : i \in 1..Len(s) /\ q[i] = s[i]
  BY <1>0, AtMostFacts
<1> HIDE DEF p, q
<1> DEFINE k == IF Len(q) >= a THEN Len(q) - a ELSE 0
<1>3. w \in Seq(D) /\ Len(w) = k /\ \A i \in 1..k : w[i] = q[a + i]
  <2>1. CASE Len(q) >= a + 1
    <3>1. \A i \in (a + 1)..Len(q) : q[i] \in D
      BY <1>2
    <3>2. Len(w) = Len(q) - (a + 1) + 1 /\ \A i \in 1..Len(w) : w[i] = q[(a + 1) + i - 1]
      BY <1>2, <2>1
    <3>3. k = Len(w) /\ \A i \in 1..k : (a + 1) + i - 1 = a + i /\ a + i \in (a + 1)..Len(q)
      BY <1>2, <2>1, <3>2
    <3>4. \A i \in 1..k : w[i] = q[a + i]
      BY <3>2, <3>3
    <3>5. w \in Seq(D)
      BY <1>2, <2>1, <3>1
    <3> QED BY <3>3, <3>4, <3>5
  <2>2. CASE ~(Len(q) >= a + 1)
    <3>1. w = <<>> /\ k = 0
      BY <1>2, <2>2
    <3> QED BY <3>1
  <2> QED BY <2>1, <2>2
<1> DEFINE lp == Len(p)
           lq == Len(q)
           ls == Len(s)
<1>l1. /\ lp \in Nat /\ lq \in Nat /\ ls \in Nat
         /\ lp = (IF a >= ls THEN ls ELSE a) /\ lq = (IF l >= ls THEN ls ELSE l)
         /\ k = (IF lq >= a THEN lq - a ELSE 0)
  BY <1>0, <1>1, <1>2
<1> HIDE DEF k, lp, lq, ls
<1>l2. k \in Nat /\ lp + k = lq /\ (k > 0 => lp = a) /\ (k = 0 => a = l \/ a >= ls)
  BY <1>l1
<1>4. k \in Nat /\ Len(p) + k = Len(q) /\ (k > 0 => Len(p) = a) /\ (k = 0 => a = l \/ a >= Len(s))
  BY <1>l2 DEF lp, lq, ls
<1>5. \A i \in 1..Len(w) : \E j \in 1..Len(s) : w[i] = s[j]
  <2> TAKE i \in 1..Len(w)
  <2>1. a + i \in 1..Len(q)
    BY <1>2, <1>3
  <2> QED BY <1>2, <1>3, <2>1
<1> HIDE DEF w
<1>6. /\ p \o w \in Seq(D) /\ Len(p \o w) = Len(p) + k
      /\ \A i \in 1..(Len(p) + k) : (p \o w)[i] = IF i <= Len(p) THEN p[i] ELSE w[i - Len(p)]
  <2>1. w \in Seq(D) /\ Len(w) = k
    BY <1>3
  <2>2. /\ p \o w \in Seq(D) /\ Len(p \o w) = Len(p) + Len(w)
        /\ \A i \in 1..(Len(p) + Len(w)) : (p \o w)[i] = IF i <= Len(p) THEN p[i] ELSE w[i - Len(p)]
    BY <1>1, <2>1, ConcatProperties
  <2> QED BY <2>1, <2>2
<1>7. ASSUME NEW i \in 1..(Len(p) + k) PROVE (p \o w)[i] = q[i]
  <2>1. CASE i <= Len(p)
    BY <1>1, <1>2, <1>4, <1>6, <2>1
  <2>2. CASE ~(i <= Len(p))
    <3>1. i - Len(p) \in 1..k /\ k > 0
      BY <1>1, <1>4, <2>2
    <3>2. a + (i - Len(p)) = i
      BY <1>1, <1>4, <3>1
    <3> QED BY <1>3, <1>6, <2>2, <3>1, <3>2
  <2> QED BY <2>1, <2>2
<1>8. p \o w = q
  <2>1. Len(p \o w) = Len(q) /\ \A i \in 1..Len(p \o w) : (p \o w)[i] = q[i]
    BY <1>4, <1>6, <1>7
  <2> QED BY <1>2, <1>6, <2>1, SameSequence
<1>9. w = <<>> => k = 0
  BY <1>3
<1>10. ASSUME k = 0 PROVE p = q
  <2>1. Len(p) = Len(q)
    BY <1>1, <1>4, <1>10
  <2>2. \A i \in 1..Len(p) : p[i] = q[i]
    BY <1>1, <1>2, <2>1
  <2> QED BY <1>1, <1>2, <2>1, <2>2, SameSequence
<1>11. k = 0 => a = l \/ a >= Len(s)
  BY <1>4
<1> QED BY <1>3, <1>5, <1>8, <1>9, <1>10, <1>11 DEF p, q, w

-----------------------------------------------------------------------------
\* How pages are found.

LEMMA LeastFacts ==
  ASSUME NEW P, P \subseteq Nat
  PROVE  Least(P) \subseteq P /\ (P # {} => Least(P) # {})
  BY LeastNumber DEF Least

LEMMA FirstOfFacts ==
  ASSUME NEW pointers, DOMAIN pointers \subseteq Nat, NEW map
  PROVE  /\ FirstOf(pointers, map) \subseteq DOMAIN map
         /\ (\A i \in DOMAIN pointers : pointers[i] \notin DOMAIN map) => FirstOf(pointers, map) = {}
         /\ (\E i \in DOMAIN pointers : pointers[i] \in DOMAIN map) => FirstOf(pointers, map) # {}
<1> DEFINE P == {i \in DOMAIN pointers : pointers[i] \in DOMAIN map}
<1>1. P \subseteq Nat
  OBVIOUS
<1>2. Least(P) \subseteq P /\ (P # {} => Least(P) # {})
  BY <1>1, LeastFacts
<1>3. FirstOf(pointers, map) = {pointers[i] : i \in Least(P)}
  BY DEF FirstOf
<1> QED BY <1>2, <1>3

LEMMA OnePlace ==
  ASSUME NEW pointers, DOMAIN pointers \subseteq Nat, NEW place,
         \E i \in DOMAIN pointers : pointers[i] = place, NEW map, DOMAIN map = {place}
  PROVE  FirstOf(pointers, map) = {place}
<1>1. \E j \in DOMAIN pointers : pointers[j] \in DOMAIN map
  OBVIOUS
<1> QED BY <1>1, FirstOfFacts

\* When all places agree on a token, it is found.
LEMMA FindNextFacts ==
  ASSUME NEW page, NEW options, NEW token,
         \A i \in 1..4 : Candidates(page, options)[i] \subseteq {token}
  PROVE  /\ FindNext(page, options) \subseteq {token}
         /\ (\E i \in 1..4 : token \in Candidates(page, options)[i]) => FindNext(page, options) = {token}
<1> DEFINE candidates == Candidates(page, options)
           P == {j \in DOMAIN candidates : candidates[j] # {}}
<1>1. DOMAIN candidates = 1..4
  BY DEF Candidates
<1> HIDE DEF candidates
<1>2. P \subseteq Nat
  BY <1>1
<1>3. Least(P) \subseteq P /\ (P # {} => Least(P) # {})
  BY <1>2, LeastFacts
<1>4. FindNext(page, options) = UNION {candidates[i] : i \in Least(P)}
  BY DEF FindNext, candidates
<1>5. \A i \in P : candidates[i] = {token}
  BY <1>1 DEF candidates
<1>6. FindNext(page, options) \subseteq {token}
  BY <1>3, <1>4, <1>5
<1>7. ASSUME NEW i \in 1..4, token \in candidates[i] PROVE FindNext(page, options) = {token}
  <2>1. i \in P
    BY <1>1, <1>7
  <2>2. PICK j \in Least(P) : TRUE
    BY <1>3, <2>1
  <2>3. candidates[j] = {token}
    BY <1>3, <1>5, <2>2
  <2>4. token \in FindNext(page, options)
    BY <1>4, <2>2, <2>3
  <2> QED BY <1>6, <2>4
<1> QED BY <1>6, <1>7 DEF candidates

\* The four candidates of a page.
LEMMA CandidateFacts ==
  ASSUME NEW page, NEW options
  PROVE  LET texts == page.body.texts
             candidates == Candidates(page, options) IN
         /\ candidates[1] = {ClassifyToken(texts[pointer]) : pointer \in {options.cursor_path} \cap DOMAIN texts}
         /\ candidates[2] = {UrlToken(text) : text \in page.link}
         /\ candidates[3] = {UrlToken(texts[pointer]) : pointer \in FirstOf(NextUrlPaths, texts)}
         /\ candidates[4] = {CursorToken(texts[pointer]) :
                               pointer \in IF HasMore(page.body) THEN FirstOf(CursorPaths, texts) ELSE {}}
  BY DEF Candidates

LEMMA PathFacts ==
  /\ DOMAIN NextUrlPaths = 1..9 /\ NextUrlPaths[5] = "/links/next" /\ NextUrlPaths[7] = "/next"
  /\ \A i \in 1..9 : NextUrlPaths[i] \notin {"/paging/after", "/next_cursor", "/cursor"}
  /\ DOMAIN HasMorePaths = 1..3 /\ HasMorePaths[3] = "/has_more"
  /\ DOMAIN CursorPaths = 1..4 /\ CursorPaths[3] = "/next_cursor"
<1>1. DOMAIN NextUrlPaths = 1..9 /\ NextUrlPaths[5] = "/links/next" /\ NextUrlPaths[7] = "/next"
  BY DEF NextUrlPaths
<1>2. \A i \in 1..9 : NextUrlPaths[i] \notin {"/paging/after", "/next_cursor", "/cursor"}
  <2> TAKE i \in 1..9
  <2>1. i = 1 \/ i = 2 \/ i = 3 \/ i = 4 \/ i = 5 \/ i = 6 \/ i = 7 \/ i = 8 \/ i = 9
    OBVIOUS
  <2> QED BY <2>1 DEF NextUrlPaths
<1>3. DOMAIN HasMorePaths = 1..3 /\ HasMorePaths[3] = "/has_more"
  BY DEF HasMorePaths
<1>4. DOMAIN CursorPaths = 1..4 /\ CursorPaths[3] = "/next_cursor"
  BY DEF CursorPaths
<1> QED BY <1>1, <1>2, <1>3, <1>4

\* A body that has one of the usual members only.
LEMMA Places ==
  ASSUME NEW map
  PROVE  /\ DOMAIN map = {"/has_more"} => FirstOf(HasMorePaths, map) = {"/has_more"}
         /\ DOMAIN map = {"/next_cursor"} => FirstOf(CursorPaths, map) = {"/next_cursor"}
         /\ DOMAIN map = {"/links/next"} => FirstOf(NextUrlPaths, map) = {"/links/next"}
         /\ DOMAIN map = {"/next"} => FirstOf(NextUrlPaths, map) = {"/next"}
<1>1. DOMAIN HasMorePaths \subseteq Nat /\ DOMAIN CursorPaths \subseteq Nat /\ DOMAIN NextUrlPaths \subseteq Nat
  BY PathFacts
<1>2. /\ \E i \in DOMAIN HasMorePaths : HasMorePaths[i] = "/has_more"
      /\ \E i \in DOMAIN CursorPaths : CursorPaths[i] = "/next_cursor"
      /\ \E i \in DOMAIN NextUrlPaths : NextUrlPaths[i] = "/links/next"
      /\ \E i \in DOMAIN NextUrlPaths : NextUrlPaths[i] = "/next"
  BY PathFacts
<1>3. DOMAIN map = {"/has_more"} => FirstOf(HasMorePaths, map) = {"/has_more"}
  BY <1>1, <1>2, OnePlace
<1>4. DOMAIN map = {"/next_cursor"} => FirstOf(CursorPaths, map) = {"/next_cursor"}
  BY <1>1, <1>2, OnePlace
<1>5. DOMAIN map = {"/links/next"} => FirstOf(NextUrlPaths, map) = {"/links/next"}
  BY <1>1, <1>2, OnePlace
<1>6. DOMAIN map = {"/next"} => FirstOf(NextUrlPaths, map) = {"/next"}
  BY <1>1, <1>2, OnePlace
<1> QED BY <1>3, <1>4, <1>5, <1>6

LEMMA NoFlags == ASSUME NEW page, DOMAIN page.body.flags = {} PROVE ~HasMore(page.body)
<1>1. FirstOf(HasMorePaths, page.body.flags) = {}
  BY PathFacts, FirstOfFacts
<1> QED BY <1>1 DEF HasMore

LEMMA OneFlag ==
  ASSUME NEW page, NEW more \in BOOLEAN,
         DOMAIN page.body.flags = {"/has_more"}, page.body.flags["/has_more"] = more
  PROVE  HasMore(page.body) <=> more
<1> DEFINE flags == page.body.flags
<1>1. DOMAIN flags = {"/has_more"} /\ flags["/has_more"] = more
  OBVIOUS
<1> HIDE DEF flags
<1>2. FirstOf(HasMorePaths, flags) = {"/has_more"}
  BY <1>1, Places
<1>3. HasMore(page.body) <=> \E pointer \in FirstOf(HasMorePaths, flags) : flags[pointer]
  BY DEF HasMore, flags
<1>4. (\E pointer \in FirstOf(HasMorePaths, flags) : flags[pointer]) <=> flags["/has_more"]
  BY <1>2
<1> QED BY <1>1, <1>3, <1>4

\* A page with an address at one of the usual members of its body.
LEMMA AddressInBody ==
  ASSUME NEW served, NEW pointer \in {"/next", "/links/next"}, NEW text, text.form # "plain", NEW options
  PROVE  FindNext(InBody(served, pointer, text), options) = {UrlToken(text)}
<1> DEFINE page == InBody(served, pointer, text)
           texts == page.body.texts
           C == Candidates(page, options)
<1>1. /\ DOMAIN texts = {pointer} /\ texts[pointer] = text
      /\ page.link = {} /\ DOMAIN page.body.flags = {}
  BY DEF InBody, Page
<1> HIDE DEF page
<1>2. ~HasMore(page.body)
  BY <1>1, NoFlags
<1>3. FirstOf(NextUrlPaths, texts) = {pointer}
  BY <1>1, Places
<1>4. ClassifyToken(text) = UrlToken(text)
  BY DEF ClassifyToken
<1>5. C[1] \subseteq {UrlToken(text)}
  BY <1>1, <1>4, CandidateFacts
<1>6. C[2] = {}
  BY <1>1, CandidateFacts
<1>7. C[3] = {UrlToken(text)}
  BY <1>1, <1>3, CandidateFacts
<1>8. C[4] = {}
  BY <1>2, CandidateFacts
<1>9. \A i \in 1..4 : C[i] \subseteq {UrlToken(text)}
  <2> TAKE i \in 1..4
  <2>1. i = 1 \/ i = 2 \/ i = 3 \/ i = 4
    OBVIOUS
  <2> QED BY <1>5, <1>6, <1>7, <1>8, <2>1
<1>10. UrlToken(text) \in C[3]
  BY <1>7
<1> HIDE DEF C
<1>11. FindNext(page, options) = {UrlToken(text)}
  BY <1>9, <1>10, FindNextFacts DEF C
<1> QED BY <1>11 DEF page

\* A page with a cursor at a member of its body.
LEMMA CursorInBody ==
  ASSUME NEW page, NEW pointer \in {"/paging/after", "/next_cursor", "/cursor"}, NEW text, text.form = "plain",
         page.link = {}, DOMAIN page.body.texts = {pointer}, page.body.texts[pointer] = text, NEW options
  PROVE  /\ FindNext(page, options) \subseteq {CursorToken(text)}
         /\ options.cursor_path = pointer => FindNext(page, options) = {CursorToken(text)}
         /\ pointer = "/next_cursor" /\ HasMore(page.body) => FindNext(page, options) = {CursorToken(text)}
<1> DEFINE texts == page.body.texts
           C == Candidates(page, options)
<1>1. DOMAIN texts = {pointer} /\ texts[pointer] = text
  OBVIOUS
<1>3. FirstOf(NextUrlPaths, texts) = {} /\ FirstOf(CursorPaths, texts) \subseteq {pointer}
  <2>1. DOMAIN NextUrlPaths \subseteq Nat /\ \A i \in DOMAIN NextUrlPaths : NextUrlPaths[i] \notin DOMAIN texts
    BY <1>1, PathFacts
  <2>2. FirstOf(NextUrlPaths, texts) = {}
    BY <2>1, FirstOfFacts
  <2>3. FirstOf(CursorPaths, texts) \subseteq DOMAIN texts
    BY PathFacts, FirstOfFacts
  <2> QED BY <1>1, <2>2, <2>3
<1>4. ClassifyToken(text) = CursorToken(text)
  BY DEF ClassifyToken
<1>5. C[1] = IF options.cursor_path = pointer THEN {CursorToken(text)} ELSE {}
  <2>1. C[1] = {ClassifyToken(texts[q]) : q \in {options.cursor_path} \cap DOMAIN texts}
    BY CandidateFacts
  <2>2. CASE options.cursor_path = pointer
    <3>1. {options.cursor_path} \cap DOMAIN texts = {pointer}
      BY <1>1, <2>2
    <3> QED BY <1>1, <1>4, <2>1, <2>2, <3>1
  <2>3. CASE options.cursor_path # pointer
    <3>1. {options.cursor_path} \cap DOMAIN texts = {}
      BY <1>1, <2>3
    <3> QED BY <2>1, <2>3, <3>1
  <2> QED BY <2>2, <2>3
<1>6. C[2] = {}
  BY CandidateFacts
<1>7. C[3] = {}
  BY <1>3, CandidateFacts
<1>8. C[4] \subseteq {CursorToken(text)}
  BY <1>1, <1>3, CandidateFacts
<1>9. \A i \in 1..4 : C[i] \subseteq {CursorToken(text)}
  <2> TAKE i \in 1..4
  <2>1. i = 1 \/ i = 2 \/ i = 3 \/ i = 4
    OBVIOUS
  <2> QED BY <1>5, <1>6, <1>7, <1>8, <2>1
<1>10. ASSUME pointer = "/next_cursor", HasMore(page.body) PROVE CursorToken(text) \in C[4]
  <2>1. FirstOf(CursorPaths, texts) = {pointer}
    BY <1>1, <1>10, Places
  <2> QED BY <1>1, <1>10, <2>1, CandidateFacts
<1> HIDE DEF C
<1>11. /\ FindNext(page, options) \subseteq {CursorToken(text)}
       /\ (\E i \in 1..4 : CursorToken(text) \in C[i]) => FindNext(page, options) = {CursorToken(text)}
  BY <1>9, FindNextFacts DEF C
<1> QED BY <1>5, <1>10, <1>11

\* A page that announces nothing, or an address in a Link header.
LEMMA LinkHeader ==
  ASSUME NEW served, NEW link, NEW options
  PROVE  /\ FindNext(Silent(served), options) = {}
         /\ FindNext(Page(served, {link}, <<>>, <<>>), options) = {UrlToken(link)}
<1>1. ASSUME NEW links, NEW page, page = Page(served, links, <<>>, <<>>)
      PROVE  /\ \A i \in {1, 3, 4} : Candidates(page, options)[i] = {}
             /\ Candidates(page, options)[2] = {UrlToken(text) : text \in links}
  <2>1. DOMAIN page.body.texts = {} /\ page.link = links /\ DOMAIN page.body.flags = {}
    BY <1>1 DEF Page
  <2>2. ~HasMore(page.body) /\ FirstOf(NextUrlPaths, page.body.texts) = {}
    BY <2>1, NoFlags, PathFacts, FirstOfFacts
  <2> QED BY <2>1, <2>2, CandidateFacts
<1>2. FindNext(Silent(served), options) = {}
  <2> DEFINE page == Page(served, {}, <<>>, <<>>)
             C == Candidates(page, options)
  <2>1. C[1] = {} /\ C[2] = {} /\ C[3] = {} /\ C[4] = {}
    BY <1>1
  <2> HIDE DEF page
  <2>2. DOMAIN C = 1..4
    BY DEF Candidates
  <2> HIDE DEF C
  <2>3. {j \in DOMAIN C : C[j] # {}} = {}
    <3> SUFFICES ASSUME NEW j \in 1..4 PROVE C[j] = {}
      BY <2>2
    <3>1. j = 1 \/ j = 2 \/ j = 3 \/ j = 4
      OBVIOUS
    <3> QED BY <2>1, <3>1
  <2>4. Least({}) = {}
    BY DEF Least
  <2>5. FindNext(page, options) = {}
    BY <2>3, <2>4 DEF FindNext, C
  <2> QED BY <2>5 DEF page, Silent
<1>3. FindNext(Page(served, {link}, <<>>, <<>>), options) = {UrlToken(link)}
  <2> DEFINE page == Page(served, {link}, <<>>, <<>>)
             C == Candidates(page, options)
  <2>1. C[1] = {} /\ C[2] = {UrlToken(link)} /\ C[3] = {} /\ C[4] = {}
    BY <1>1
  <2> HIDE DEF page, C
  <2>2. \A i \in 1..4 : C[i] \subseteq {UrlToken(link)}
    <3> TAKE i \in 1..4
    <3>1. i = 1 \/ i = 2 \/ i = 3 \/ i = 4
      OBVIOUS
    <3> QED BY <2>1, <3>1
  <2>3. FindNext(page, options) = {UrlToken(link)}
    BY <2>1, <2>2, FindNextFacts DEF C
  <2> QED BY <2>3 DEF page
<1> QED BY <1>2, <1>3
-----------------------------------------------------------------------------
\* The requests of a scan.

Asks(o, a) == [origin |-> o, path |-> Path, params |-> Params, limit |-> RowsAsked, after |-> a]

First == Asks("base", 0)

\* The rows the requests of a scan select, all pages together.
All == Selected(First)

\* Where a request may go.
Origins == {o \in {"base", "other"} : AllowCrossOrigin \/ o = "base"}

Given == table \in Tables /\ query \in Queries /\ convention \in Conventions /\ Fits(table, convention)

Paged == {"link", "next", "query", "cursor", "pointer", "elsewhere"}

\* What the announcement of a page becomes.
TokenOf(following) ==
  CASE convention = "link" -> UrlToken(Written("absolute", following))
    [] convention = "next" -> UrlToken(Written("rooted", following))
    [] convention = "query" -> UrlToken(Written("query", [following EXCEPT !.path = <<>>]))
    [] convention = "elsewhere" -> UrlToken(Written("absolute", [following EXCEPT !.origin = "other"]))
    [] OTHER -> CursorToken(Written("plain", following))

LEMMA GivenFacts ==
  ASSUME Given
  PROVE  /\ Maximum \in Nat \cup {NoLimit} /\ RowsAsked \in Nat \cup {NoLimit}
         /\ RowsAsked = 0 => Maximum = 0
         /\ convention = "unpaged" => RowsAsked = NoLimit \/ RowsAsked = Maximum
         /\ convention # "unpaged" => convention \in Paged /\ table.pagination = "auto"
         /\ query.quals \in Seq(Qual) /\ query.offset \in Nat /\ query.count \in Nat \cup {NoLimit}
         /\ table.placeholders \subseteq Columns /\ table.omitted \subseteq table.placeholders
         /\ DOMAIN table.query_params \subseteq DOMAIN Filters
<1>1. query.quals \in Seq(Qual) /\ query.offset \in Nat /\ query.count \in Nat \cup {NoLimit}
  BY QueriesAssumption DEF Given, Query
<1>2. /\ table.placeholders \subseteq Columns /\ table.omitted \subseteq table.placeholders
      /\ DOMAIN table.query_params \subseteq DOMAIN Filters
      /\ table.page_size \in (Nat \ {0}) \cup {NoLimit} /\ table.limit_param \in BOOLEAN
  BY TablesAssumption DEF Given
<1>3. Maximum \in Nat \cup {NoLimit}
  BY <1>1 DEF Maximum, NoLimit
<1>4. RowsAsked \in Nat \cup {NoLimit} /\ (RowsAsked = 0 => Maximum = 0)
  BY <1>2, <1>3 DEF RowsAsked, NoLimit
<1>5. convention = "unpaged" => RowsAsked = NoLimit \/ RowsAsked = Maximum
  BY DEF RowsAsked, Given, Fits
<1>6. convention # "unpaged" => convention \in Paged /\ table.pagination = "auto"
  BY OriginAssumption DEF Given, Fits, Paged
<1> QED BY <1>1, <1>2, <1>3, <1>4, <1>5, <1>6

\* All requests of a scan select the same rows.
LEMMA AllFacts ==
  /\ All \in Seq(Rows) /\ Rows \subseteq [Columns -> Int]
  /\ \A o, a : Selected(Asks(o, a)) = All /\ PageLength(Asks(o, a)) = PageLength(First)
  /\ \A i \in 1..Len(All) : All[i] \in Rows /\ At(All[i], Path) /\ Matches(All[i], Params)
<1> DEFINE Chosen == {row \in Rows : At(row, Path) /\ Matches(row, Params)}
<1>1. Collection \in Seq([Columns -> Int]) /\ Rows \subseteq [Columns -> Int]
  BY CollectionAssumption DEF Rows
<1>2. Collection \in Seq(Rows)
  BY <1>1 DEF Rows
<1>3. \A o, a : Selected(Asks(o, a)) = Members(Collection, Chosen)
  BY DEF Selected, Asks
<1>4. \A o, a : PageLength(Asks(o, a)) = PageLength(First)
  BY DEF PageLength, Asks, First
<1>5. All = Members(Collection, Chosen)
  BY <1>3 DEF All, First
<1> HIDE DEF Chosen
<1>6. LET P == Kept(Collection, Chosen) IN
      All \in Seq(Rows) /\ \A k \in 1..Len(All) : \E i \in P : All[k] = Collection[i]
  BY <1>2, <1>5, MembersFacts
<1>7. \A k \in 1..Len(All) : All[k] \in Chosen
  BY <1>6 DEF Kept
<1>8. \A k \in 1..Len(All) : All[k] \in Rows /\ At(All[k], Path) /\ Matches(All[k], Params)
  BY <1>7 DEF Chosen
<1> QED BY <1>1, <1>3, <1>4, <1>5, <1>6, <1>8

LEMMA PageLengthFacts ==
  ASSUME Given
  PROVE  PageLength(First) \in Nat /\ (PageLength(First) = 0 => Maximum = 0)
<1>1. First.limit = RowsAsked
  BY DEF First, Asks
<1> QED BY <1>1, GivenFacts, OriginAssumption DEF PageLength, NoLimit

\* The announcement of a page is found, and only that.
LEMMA AnnouncementFound ==
  ASSUME Given, convention \in Paged, NEW served, NEW following
  PROVE  /\ Announcement(served, following).rows = served
         /\ FindNext(Announcement(served, following), table) = {TokenOf(following)}
<1> DEFINE page == Announcement(served, following)
<1>1. CASE convention = "link"
  <2>1. page = Page(served, {Written("absolute", following)}, <<>>, <<>>)
    BY <1>1 DEF Announcement
  <2>2. TokenOf(following) = UrlToken(Written("absolute", following))
    BY <1>1 DEF TokenOf
  <2> QED BY <2>1, <2>2, LinkHeader DEF Page
<1>2. CASE convention = "next"
  <2>1. page = InBody(served, "/next", Written("rooted", following))
    BY <1>2 DEF Announcement
  <2>2. TokenOf(following) = UrlToken(Written("rooted", following))
    BY <1>2 DEF TokenOf
  <2>3. Written("rooted", following).form # "plain"
    BY DEF Written
  <2>4. page.rows = served
    BY <2>1 DEF InBody, Page
  <2> QED BY <2>1, <2>2, <2>3, <2>4, AddressInBody
<1>3. CASE convention = "query"
  <2> DEFINE text == Written("query", [following EXCEPT !.path = <<>>])
  <2>1. page = InBody(served, "/links/next", text)
    BY <1>3 DEF Announcement
  <2>2. TokenOf(following) = UrlToken(text)
    BY <1>3 DEF TokenOf
  <2>3. text.form # "plain"
    BY DEF Written
  <2>4. page.rows = served
    BY <2>1 DEF InBody, Page
  <2> HIDE DEF text, page
  <2>5. page.rows = served /\ FindNext(page, table) = {TokenOf(following)}
    BY <2>1, <2>2, <2>3, <2>4, AddressInBody
  <2> QED BY <2>5 DEF page
<1>4. CASE convention = "elsewhere"
  <2> DEFINE text == Written("absolute", [following EXCEPT !.origin = "other"])
  <2>1. page = InBody(served, "/next", text)
    BY <1>4 DEF Announcement
  <2>2. TokenOf(following) = UrlToken(text)
    BY <1>4 DEF TokenOf
  <2>3. text.form # "plain"
    BY DEF Written
  <2>4. page.rows = served
    BY <2>1 DEF InBody, Page
  <2> HIDE DEF text, page
  <2>5. page.rows = served /\ FindNext(page, table) = {TokenOf(following)}
    BY <2>1, <2>2, <2>3, <2>4, AddressInBody
  <2> QED BY <2>5 DEF page
<1>5. CASE convention = "pointer"
  <2> DEFINE text == Written("plain", following)
  <2>1. page = InBody(served, "/paging/after", text)
    BY <1>5 DEF Announcement
  <2>2. TokenOf(following) = CursorToken(text)
    BY <1>5 DEF TokenOf
  <2>3. text.form = "plain" /\ table.cursor_path = "/paging/after"
    BY <1>5 DEF Written, Given, Fits
  <2> HIDE DEF text
  <2>4. /\ page.rows = served /\ page.link = {}
        /\ DOMAIN page.body.texts = {"/paging/after"} /\ page.body.texts["/paging/after"] = text
    BY <2>1 DEF InBody, Page
  <2> HIDE DEF page
  <2>5. page.rows = served /\ FindNext(page, table) = {TokenOf(following)}
    BY <2>2, <2>3, <2>4, CursorInBody
  <2> QED BY <2>5 DEF page
<1>6. CASE convention = "cursor"
  <2> DEFINE text == Written("plain", following)
  <2>1. page = WithCursor(served, "/next_cursor", text, TRUE)
    BY <1>6 DEF Announcement
  <2>2. TokenOf(following) = CursorToken(text)
    BY <1>6 DEF TokenOf
  <2>3. text.form = "plain"
    BY DEF Written
  <2> HIDE DEF text
  <2>4. /\ page.rows = served /\ page.link = {}
        /\ DOMAIN page.body.texts = {"/next_cursor"} /\ page.body.texts["/next_cursor"] = text
        /\ DOMAIN page.body.flags = {"/has_more"} /\ page.body.flags["/has_more"] = TRUE
    BY <2>1 DEF WithCursor, Page
  <2> HIDE DEF page
  <2>5. HasMore(page.body)
    BY <2>4, OneFlag
  <2>6. page.rows = served /\ FindNext(page, table) = {TokenOf(following)}
    BY <2>2, <2>3, <2>4, <2>5, CursorInBody
  <2> QED BY <2>6 DEF page
<1> QED BY <1>1, <1>2, <1>3, <1>4, <1>5, <1>6 DEF Paged

\* A page of a paged origin: its window of the rows, and at most one token, which is
\* there as long as rows are left.
LEMMA PagedServe ==
  ASSUME Given, convention \in Paged, NEW o, NEW a \in Nat
  PROVE  LET last == a + PageLength(First)
             page == Serve(Asks(o, a)) IN
         /\ page.rows = SubSeq(AtMost(last, All), a + 1, Len(AtMost(last, All)))
         /\ FindNext(page, table) \subseteq {TokenOf(Asks(o, last))}
         /\ last < Len(All) => FindNext(page, table) # {}
<1> DEFINE last == a + PageLength(First)
           served == SubSeq(AtMost(last, All), a + 1, Len(AtMost(last, All)))
           following == Asks(o, last)
           page == Serve(Asks(o, a))
<1>1. /\ Selected(Asks(o, a)) = All /\ Asks(o, a).after + PageLength(Asks(o, a)) = last
      /\ Asks(o, a).after = a /\ [Asks(o, a) EXCEPT !.after = last] = following
  <2>1. Selected(Asks(o, a)) = All /\ PageLength(Asks(o, a)) = PageLength(First)
    BY AllFacts
  <2>2. Asks(o, a).after = a /\ [Asks(o, a) EXCEPT !.after = last] = following
    BY DEF Asks
  <2> QED BY <2>1, <2>2
<1>2. last \in Nat /\ Len(All) \in Nat /\ convention # "unpaged"
  BY AllFacts, PageLengthFacts DEF Paged
<1> HIDE DEF last
<1>3. /\ last < Len(All) => page = Announcement(served, following)
      /\ last >= Len(All) /\ convention = "cursor" =>
           page = WithCursor(served, "/cursor", Written("plain", following), FALSE)
      /\ last >= Len(All) /\ convention # "cursor" => page = Silent(served)
  <2>1. page = CASE convention = "unpaged" -> Silent(AtMost(Asks(o, a).limit, All))
                 [] convention # "unpaged" /\ last < Len(All) -> Announcement(served, following)
                 [] convention = "cursor" /\ last >= Len(All) ->
                      WithCursor(served, "/cursor", Written("plain", following), FALSE)
                 [] OTHER -> Silent(served)
    BY <1>1 DEF Serve
  <2>2. (last < Len(All)) <=> ~(last >= Len(All))
    BY <1>2
  <2> HIDE DEF served, following, page
  <2>3. last < Len(All) => page = Announcement(served, following)
    BY <1>2, <2>1, <2>2
  <2>4. last >= Len(All) /\ convention = "cursor" =>
          page = WithCursor(served, "/cursor", Written("plain", following), FALSE)
    BY <1>2, <2>1, <2>2
  <2>5. last >= Len(All) /\ convention # "cursor" => page = Silent(served)
    BY <1>2, <2>1, <2>2
  <2> QED BY <2>3, <2>4, <2>5
<1> HIDE DEF served, following, page
<1>4. CASE last < Len(All)
  <2>1. page = Announcement(served, following)
    BY <1>3, <1>4
  <2>2. page.rows = served /\ FindNext(page, table) = {TokenOf(following)}
    BY <2>1, AnnouncementFound
  <2> QED BY <2>2 DEF last, served, following, page
<1>5. CASE last >= Len(All) /\ convention = "cursor"
  <2> DEFINE text == Written("plain", following)
  <2>1. page = WithCursor(served, "/cursor", text, FALSE)
    BY <1>3, <1>5
  <2>2. TokenOf(following) = CursorToken(text)
    BY <1>5 DEF TokenOf
  <2>3. text.form = "plain"
    BY DEF Written
  <2> HIDE DEF text
  <2>4. /\ page.rows = served /\ page.link = {}
        /\ DOMAIN page.body.texts = {"/cursor"} /\ page.body.texts["/cursor"] = text
    BY <2>1 DEF WithCursor, Page
  <2>5. page.rows = served /\ FindNext(page, table) \subseteq {TokenOf(following)} /\ ~(last < Len(All))
    BY <1>2, <1>5, <2>2, <2>3, <2>4, CursorInBody
  <2> QED BY <2>5 DEF last, served, following, page
<1>6. CASE last >= Len(All) /\ convention # "cursor"
  <2>1. page = Silent(served)
    BY <1>3, <1>6
  <2>2. page.rows = served
    BY <2>1 DEF Silent, Page
  <2>3. FindNext(page, table) = {}
    BY <2>1, LinkHeader
  <2>4. ~(last < Len(All))
    BY <1>2, <1>6
  <2> QED BY <2>2, <2>3, <2>4 DEF last, served, following, page
<1> QED BY <1>2, <1>4, <1>5, <1>6

LEMMA UnpagedServe ==
  ASSUME convention = "unpaged", NEW o, NEW a
  PROVE  /\ Serve(Asks(o, a)).rows = AtMost(RowsAsked, All)
         /\ NextOf(Serve(Asks(o, a)), table) = {}
<1>1. Selected(Asks(o, a)) = All /\ Asks(o, a).limit = RowsAsked
  BY AllFacts DEF Asks
<1>2. Serve(Asks(o, a)) = Silent(AtMost(RowsAsked, All))
  BY <1>1 DEF Serve
<1>3. Serve(Asks(o, a)).rows = AtMost(RowsAsked, All)
  BY <1>2 DEF Silent, Page
<1>4. FindNext(Serve(Asks(o, a)), table) = {}
  BY <1>2, LinkHeader
<1> QED BY <1>3, <1>4 DEF NextOf

\* Whatever the announcement, the request it becomes asks for the rows that follow.
LEMMA Resolved ==
  ASSUME Given, convention \in Paged, NEW o \in Origins, NEW a, NEW n, current = Asks(o, a), initial = First
  PROVE  \A request \in Follow(TokenOf(Asks(o, n))) : \E to \in Origins : request = Asks(to, n)
<1> DEFINE following == Asks(o, n)
<1> SUFFICES ASSUME NEW request \in Follow(TokenOf(following)) PROVE \E to \in Origins : request = Asks(to, n)
  OBVIOUS
<1>1. ASSUME NEW text, TokenOf(following) = UrlToken(text)
      PROVE  /\ request = ResolvePageUrl(NoRequest, current, text)
             /\ AllowCrossOrigin \/ request.origin = "base"
  BY <1>1 DEF Follow, UrlToken, SameOrigin, NoRequest
<1>2. NoRequest.origin = "base" /\ current.origin = o /\ current.path = Path
  BY DEF NoRequest, Asks
<1>3. CASE convention = "link"
  <2>1. TokenOf(following) = UrlToken(Written("absolute", following))
    BY <1>3 DEF TokenOf
  <2>2. ResolvePageUrl(NoRequest, current, Written("absolute", following)) = Asks(o, n)
    BY DEF ResolvePageUrl, Written
  <2>3. request = Asks(o, n)
    BY <1>1, <2>1, <2>2
  <2> QED BY <2>3
<1>4. CASE convention = "next"
  <2>1. TokenOf(following) = UrlToken(Written("rooted", following))
    BY <1>4 DEF TokenOf
  <2>2. ResolvePageUrl(NoRequest, current, Written("rooted", following)) = Asks("base", n)
    BY <1>2 DEF ResolvePageUrl, Written, Asks
  <2>3. request = Asks("base", n) /\ "base" \in Origins
    BY <1>1, <2>1, <2>2 DEF Origins
  <2> QED BY <2>3
<1>5. CASE convention = "query"
  <2> DEFINE text == Written("query", [following EXCEPT !.path = <<>>])
  <2>1. TokenOf(following) = UrlToken(text)
    BY <1>5 DEF TokenOf
  <2>2. ResolvePageUrl(NoRequest, current, text) = Asks(o, n)
    BY <1>2 DEF ResolvePageUrl, Written, Asks
  <2> HIDE DEF text
  <2>3. request = Asks(o, n)
    BY <1>1, <2>1, <2>2
  <2> QED BY <2>3
<1>6. CASE convention = "elsewhere"
  <2> DEFINE text == Written("absolute", [following EXCEPT !.origin = "other"])
  <2>1. TokenOf(following) = UrlToken(text)
    BY <1>6 DEF TokenOf
  <2>2. ResolvePageUrl(NoRequest, current, text) = Asks("other", n)
    BY DEF ResolvePageUrl, Written, Asks
  <2> HIDE DEF text
  <2>3. request = Asks("other", n) /\ (AllowCrossOrigin \/ request.origin = "base")
    BY <1>1, <2>1, <2>2
  <2>4. request.origin = "other"
    BY <2>3 DEF Asks
  <2> QED BY <2>3, <2>4 DEF Origins
<1>7. CASE convention \in {"cursor", "pointer"}
  <2>1. TokenOf(following) = CursorToken(Written("plain", following))
    BY <1>7 DEF TokenOf
  <2>2. request = [initial EXCEPT !.after = following.after]
    BY <2>1 DEF Follow, CursorToken, Written
  <2>3. request = Asks("base", n) /\ "base" \in Origins
    BY <2>2 DEF Asks, First, Origins
  <2> QED BY <2>3
<1> QED BY <1>3, <1>4, <1>5, <1>6, <1>7 DEF Paged

\* A field the rows leave out has the value of the placeholder.
LEMMA ProjectedAll ==
  ASSUME Given, injected = Path, NEW row \in [Columns -> Int], At(row, Path)
  PROVE  Projected(row) = row
<1>1. DOMAIN Path = table.placeholders
  BY DEF Path
<1>2. \A c \in Columns : (IF c \in table.omitted THEN injected[c] ELSE row[c]) = row[c]
  BY <1>1, GivenFacts DEF At
<1> QED BY <1>2 DEF Projected
-----------------------------------------------------------------------------
\* One page.

LEMMA ProjectedRows ==
  ASSUME Given, injected = Path, NEW w \in Seq(Rows), \A i \in 1..Len(w) : \E j \in 1..Len(All) : w[i] = All[j]
  PROVE  [i \in DOMAIN w |-> Projected(w[i])] = w
<1>1. \A i \in DOMAIN w : Projected(w[i]) = w[i]
  <2> TAKE i \in DOMAIN w
  <2>1. PICK j \in 1..Len(All) : w[i] = All[j]
    OBVIOUS
  <2>2. w[i] \in [Columns -> Int] /\ At(w[i], Path)
    BY <2>1, AllFacts
  <2> QED BY <2>2, ProjectedAll
<1> QED BY <1>1

\* The scan has the first n rows and gets the page after them: either it goes on, with
\* all rows of both, or it ends with all the rows it may use.
LEMMA PageStep ==
  ASSUME Given, injected = Path, maximum = Maximum, NEW n \in Nat, rows = AtMost(n, All),
         NEW o \in Origins, n = 0 \/ (convention # "unpaged" /\ ~Enough(rows))
  PROVE  LET page == Serve(Asks(o, n))
             last == n + PageLength(First)
             fetched == rows \o [i \in DOMAIN page.rows |-> Projected(page.rows[i])]
         IN  IF NextOf(page, table) = {} \/ Enough(fetched)
             THEN AtMost(maximum, fetched) = AtMost(Maximum, All)
             ELSE /\ convention \in Paged /\ last \in Nat
                  /\ NextOf(page, table) = {TokenOf(Asks(o, last))}
                  /\ AtMost(maximum, fetched) = AtMost(last, All) /\ ~Enough(AtMost(last, All))
<1> DEFINE page == Serve(Asks(o, n))
           last == n + PageLength(First)
           fetched == rows \o [i \in DOMAIN page.rows |-> Projected(page.rows[i])]
<1>1. /\ All \in Seq(Rows) /\ Len(All) \in Nat /\ NoLimit = -1
      /\ Maximum \in Nat \cup {NoLimit} /\ RowsAsked \in Nat \cup {NoLimit}
  BY AllFacts, GivenFacts DEF NoLimit
<1>2. CASE convention = "unpaged"
  <2>1. page.rows = AtMost(RowsAsked, All) /\ NextOf(page, table) = {}
    BY <1>2, UnpagedServe
  <2> HIDE DEF page
  <2> DEFINE w == AtMost(RowsAsked, All)
  <2>2. w \in Seq(Rows) /\ \A i \in 1..Len(w) : i \in 1..Len(All) /\ w[i] = All[i]
    BY <1>1, AtMostFacts
  <2>3. rows = <<>>
    <3>1. rows \in Seq(Rows) /\ Len(rows) = 0
      BY <1>1, <1>2, AtMostFacts
    <3> QED BY <3>1
  <2> HIDE DEF w
  <2>4. \A i \in 1..Len(w) : \E j \in 1..Len(All) : w[i] = All[j]
    BY <2>2
  <2>5. [i \in DOMAIN w |-> Projected(w[i])] = w
    BY <2>2, <2>4, ProjectedRows
  <2>6. fetched = w
    <3>1. fetched = rows \o [i \in DOMAIN w |-> Projected(w[i])]
      BY <2>1 DEF w
    <3> HIDE DEF fetched
    <3>2. fetched = <<>> \o w
      BY <2>3, <2>5, <3>1
    <3>3. <<>> \o w = w
      BY <2>2
    <3> QED BY <3>2, <3>3
  <2>7. AtMost(maximum, w) = AtMost(Maximum, All)
    <3>1. RowsAsked = NoLimit \/ RowsAsked = Maximum
      BY <1>2, GivenFacts
    <3>2. RowsAsked = NoLimit \/ (Maximum # NoLimit /\ Maximum <= RowsAsked) \/ RowsAsked >= Len(All)
      BY <1>1, <3>1
    <3> QED BY <1>1, <3>2, AtMostTwice DEF w
  <2> QED BY <2>1, <2>6, <2>7 DEF page
<1>3. CASE convention # "unpaged"
  <2> DEFINE w == SubSeq(AtMost(last, All), n + 1, Len(AtMost(last, All)))
  <2>1. PageLength(First) \in Nat /\ (PageLength(First) = 0 => Maximum = 0) /\ last \in Nat /\ n <= last
    BY PageLengthFacts
  <2>2. convention \in Paged /\ table.pagination = "auto"
    BY <1>3, GivenFacts
  <2>3. /\ page.rows = w
        /\ FindNext(page, table) \subseteq {TokenOf(Asks(o, last))}
        /\ last < Len(All) => FindNext(page, table) # {}
    BY <2>2, PagedServe
  <2>4. NextOf(page, table) = IF w = <<>> THEN {} ELSE FindNext(page, table)
    BY <2>2, <2>3 DEF NextOf
  <2>0. n = 0 \/ ~Enough(rows)
    BY <1>3
  <2> DEFINE length == PageLength(First)
  <2>l. last = n + length
    OBVIOUS
  <2> HIDE DEF last, page, length
  <2>5. /\ w \in Seq(Rows) /\ \A i \in 1..Len(w) : \E j \in 1..Len(All) : w[i] = All[j]
        /\ rows \o w = AtMost(last, All)
        /\ w = <<>> => n = last \/ n >= Len(All)
    <3> HIDE DEF fetched
    <3>1. All \in Seq(Rows) /\ n \in Nat /\ last \in Nat /\ n <= last
      BY <1>1, <2>1
    <3>2. /\ w \in Seq(Rows) /\ \A i \in 1..Len(w) : \E j \in 1..Len(All) : w[i] = All[j]
          /\ AtMost(n, All) \o w = AtMost(last, All)
          /\ w = <<>> => n = last \/ n >= Len(All)
      BY <3>1, NextWindow
    <3> QED BY <3>2
  <2> HIDE DEF w
  <2>6. fetched = AtMost(last, All)
    <3>1. [i \in DOMAIN w |-> Projected(w[i])] = w
      BY <2>5, ProjectedRows
    <3>2. fetched = rows \o [i \in DOMAIN w |-> Projected(w[i])]
      BY <2>3
    <3> HIDE DEF fetched
    <3> QED BY <2>5, <3>1, <3>2
  <2>7. /\ AtMost(last, All) \in Seq(Rows) /\ Len(AtMost(last, All)) \in Nat
        /\ Len(AtMost(last, All)) = IF last >= Len(All) THEN Len(All) ELSE last
    <3>1. last \in Nat \cup {NoLimit} /\ last # NoLimit
      BY <1>1, <2>1
    <3>2. /\ AtMost(last, All) \in Seq(Rows) /\ Len(AtMost(last, All)) \in Nat
          /\ Len(AtMost(last, All)) = IF last = NoLimit \/ last >= Len(All) THEN Len(All) ELSE last
      BY <1>1, <3>1, AtMostFacts
    <3> QED BY <3>1, <3>2
  <2> HIDE DEF fetched
  <2>8. ASSUME last >= Len(All) \/ (Maximum # NoLimit /\ Maximum <= last)
        PROVE  AtMost(maximum, fetched) = AtMost(Maximum, All)
    BY <1>1, <2>1, <2>6, <2>8, AtMostTwice
  <2>9. CASE Enough(fetched)
    <3>1. maximum # NoLimit /\ Len(fetched) >= maximum
      BY <2>9 DEF Enough
    <3>2. Maximum # NoLimit /\ (last >= Len(All) \/ Maximum <= last)
      BY <1>1, <2>1, <2>6, <2>7, <3>1
    <3> QED BY <2>8, <2>9, <3>2 DEF page, last, fetched
  <2>10. CASE NextOf(page, table) = {}
    <3>1. CASE w = <<>>
      <4>1. CASE n >= Len(All)
        <5>1. last >= Len(All)
          BY <1>1, <2>1, <4>1
        <5> QED BY <2>8, <2>10, <5>1 DEF page, last, fetched
      <4>2. CASE n = last
        <5>1. Maximum = 0 /\ Maximum <= last /\ Maximum # NoLimit
          <6>1. length = 0
            BY <2>1, <2>l, <4>2 DEF length
          <6> QED BY <1>1, <2>1, <6>1 DEF length
        <5> QED BY <2>8, <2>10, <5>1 DEF page, last, fetched
      <4> QED BY <2>5, <3>1, <4>1, <4>2
    <3>2. CASE w # <<>>
      <4>1. last >= Len(All)
        BY <1>1, <2>1, <2>3, <2>4, <2>10, <3>2
      <4> QED BY <2>8, <2>10, <4>1 DEF page, last, fetched
    <3> QED BY <3>1, <3>2
  <2>11. CASE ~(NextOf(page, table) = {} \/ Enough(fetched))
    <3>1. NextOf(page, table) = {TokenOf(Asks(o, last))}
      BY <2>3, <2>4, <2>11
    <3>2. ~Enough(AtMost(last, All))
      BY <2>6, <2>11
    <3>3. AtMost(maximum, fetched) = AtMost(last, All)
      <4>1. maximum = NoLimit \/ maximum >= Len(fetched)
        BY <1>1, <2>6, <2>7, <2>11 DEF Enough
      <4> QED BY <2>6, <4>1 DEF AtMost
    <3> QED BY <2>1, <2>2, <2>11, <3>1, <3>2, <3>3 DEF page, last, fetched
  <2> QED BY <2>9, <2>10, <2>11 DEF page, last, fetched
<1> QED BY <1>2, <1>3

-----------------------------------------------------------------------------
\* The query on the rows that were fetched, and on the whole relation.

LEMMA LastOfFacts ==
  ASSUME Given, NEW P, P \subseteq DOMAIN query.quals, P # {}
  PROVE  \E i \in P : LastOf(P) = ValueOf(query.quals[i])
<1>1. query.quals \in Seq(Qual)
  BY GivenFacts
<1>2. Len(query.quals) \in Nat /\ P \subseteq 1..Len(query.quals)
  BY <1>1
<1>3. \E i \in P : \A j \in P : j <= i
  BY <1>2, LastNumber
<1> DEFINE last == CHOOSE i \in P : \A j \in P : j <= i
<1>4. last \in P
  BY <1>3
<1>5. LastOf(P) = ValueOf(query.quals[last])
  BY DEF LastOf
<1> QED BY <1>4, <1>5

\* A wanted row has the value a usable qual gives.
LEMMA UsableValue ==
  ASSUME Given, NEW row, Wanted(row), NEW i \in DOMAIN query.quals, Usable(query.quals[i])
  PROVE  query.quals[i].field \in Columns /\ row[query.quals[i].field] = ValueOf(query.quals[i])
<1> DEFINE qual == query.quals[i]
<1>1. qual \in Qual
  BY GivenFacts
<1>2. qual.field \in Columns
  BY <1>1 DEF Qual
<1>3. qual.operator = "=" /\ ~qual.or
  BY DEF Usable
<1>4. PICK value \in qual.values : qual.values = {value}
  BY <1>3, QueriesAssumption DEF Given
<1>5. row[qual.field] \in qual.values
  BY <1>3 DEF Wanted, Satisfies
<1>6. ValueOf(qual) = value
  BY <1>4 DEF ValueOf
<1> QED BY <1>2, <1>4, <1>5, <1>6

\* What the origin is asked for keeps every row of the relation that is wanted.
LEMMA PushedSafely ==
  ASSUME Given, Bound, ~Overwrites, NEW row, Wanted(row)
  PROVE  At(row, Path) /\ Matches(row, Params) <=> Matches(row, table.query_params)
<1>1. At(row, Path)
  <2>1. SUFFICES ASSUME NEW c \in table.placeholders PROVE row[c] = Path[c]
    BY DEF At, Path
  <2>2. Positions(c) \subseteq DOMAIN query.quals /\ Positions(c) # {}
    BY DEF Positions, Bound
  <2>3. PICK i \in Positions(c) : LastOf(Positions(c)) = ValueOf(query.quals[i])
    BY <2>2, LastOfFacts
  <2>4. i \in DOMAIN query.quals /\ query.quals[i].field = c /\ Usable(query.quals[i])
    BY <2>3 DEF Positions
  <2>5. row[c] = ValueOf(query.quals[i])
    BY <2>4, UsableValue
  <2> QED BY <2>3, <2>5 DEF Path
<1>2. ASSUME NEW p, Setting(p) # {}, p \in DOMAIN Filters PROVE row[Filters[p]] = LastOf(Setting(p))
  <2>1. Setting(p) \subseteq DOMAIN query.quals
    BY DEF Setting
  <2>2. PICK i \in Setting(p) : LastOf(Setting(p)) = ValueOf(query.quals[i])
    BY <1>2, <2>1, LastOfFacts
  <2>3. i \in DOMAIN query.quals /\ Usable(query.quals[i]) /\ ParamOf(table, query.quals[i].field) = p
    BY <2>2 DEF Setting
  <2>4. query.quals[i].field \in Columns /\ row[query.quals[i].field] = ValueOf(query.quals[i])
    BY <2>3, UsableValue
  <2>5. Filters[p] = query.quals[i].field
    BY <1>2, <2>3, <2>4, TablesAssumption DEF Given
  <2> QED BY <2>2, <2>4, <2>5
<1>3. /\ DOMAIN Params = DOMAIN table.query_params \cup {p \in DOMAIN Filters : Setting(p) # {}}
      /\ \A p \in DOMAIN Params :
           Params[p] = IF Setting(p) # {} THEN LastOf(Setting(p)) ELSE table.query_params[p]
  BY DEF Params
<1>4. \A p \in DOMAIN table.query_params : Setting(p) = {}
  BY DEF Overwrites
<1>5. ASSUME Matches(row, table.query_params) PROVE Matches(row, Params)
  <2>1. SUFFICES ASSUME NEW p \in DOMAIN Params PROVE row[Filters[p]] = Params[p]
    BY DEF Matches
  <2>2. CASE p \in DOMAIN table.query_params
    BY <1>3, <1>4, <1>5, <2>2 DEF Matches
  <2>3. CASE p \in DOMAIN Filters /\ Setting(p) # {}
    BY <1>2, <1>3, <2>3
  <2> QED BY <1>3, <2>2, <2>3
<1>6. ASSUME Matches(row, Params) PROVE Matches(row, table.query_params)
  <2>1. SUFFICES ASSUME NEW p \in DOMAIN table.query_params PROVE row[Filters[p]] = table.query_params[p]
    BY DEF Matches
  <2> QED BY <1>3, <1>4, <1>6 DEF Matches
<1> QED BY <1>1, <1>5, <1>6

WantedRows == {row \in Rows : Wanted(row)}

\* Among the wanted rows, the origin selects those of the relation.
LEMMA SelectedAlike ==
  ASSUME Given, Bound, ~Overwrites
  PROVE  /\ Relation \in Seq(Rows)
         /\ Members(All, WantedRows) = Members(Relation, WantedRows)
         /\ (\A row \in Rows : Wanted(row)) => All = Relation
<1> DEFINE Chosen == {row \in Rows : At(row, Path) /\ Matches(row, Params)}
           Defined == {row \in Rows : Matches(row, table.query_params)}
<1>1. Collection \in Seq(Rows) /\ \A i \in DOMAIN Collection : Collection[i] \in Rows
  BY CollectionAssumption DEF Rows
<1>2. All = Members(Collection, Chosen) /\ Relation = Members(Collection, Defined)
  BY DEF All, First, Selected, Asks, Relation
<1>3. \A row \in Rows : Wanted(row) => (row \in Chosen <=> row \in Defined)
  BY PushedSafely
<1> HIDE DEF Chosen, Defined
<1>4. Relation \in Seq(Rows)
  BY <1>1, <1>2, MembersFacts
<1>5. Members(All, WantedRows) = Members(Relation, WantedRows)
  <2>1. \A i \in DOMAIN Collection :
          Collection[i] \in Chosen \cap WantedRows <=> Collection[i] \in Defined \cap WantedRows
    BY <1>1, <1>3 DEF WantedRows
  <2> DEFINE S == Chosen \cap WantedRows
             T == Defined \cap WantedRows
  <2>2. Members(All, WantedRows) = Members(Collection, S) /\ Members(Relation, WantedRows) = Members(Collection, T)
    BY <1>1, <1>2, MembersTwice
  <2>3. \A i \in DOMAIN Collection : Collection[i] \in S <=> Collection[i] \in T
    BY <2>1
  <2> HIDE DEF S, T
  <2> QED BY <2>2, <2>3, MembersAlike
<1>6. ASSUME \A row \in Rows : Wanted(row) PROVE All = Relation
  <2>1. \A i \in DOMAIN Collection : Collection[i] \in Chosen <=> Collection[i] \in Defined
    BY <1>1, <1>3, <1>6
  <2> QED BY <1>2, <2>1, MembersAlike
<1> QED BY <1>4, <1>5, <1>6

LEMMA Evaluated ==
  ASSUME Given, Bound, ~Overwrites, ~IsOpaque
  PROVE  Evaluation(AtMost(Maximum, All)) = Evaluation(Relation)
<1> DEFINE Finish(wanted) ==
             LET ordered == IF query.sorts THEN Ordered(wanted) ELSE wanted
                 last == IF query.count = NoLimit THEN Len(ordered) ELSE query.offset + query.count
             IN  SubSeq(AtMost(last, ordered), query.offset + 1, Len(AtMost(last, ordered)))
<1>1. \A relation : Evaluation(relation) = Finish(Members(relation, WantedRows))
  BY DEF Evaluation, WantedRows
<1>2. CASE Maximum = NoLimit
  <2>1. AtMost(Maximum, All) = All
    BY <1>2 DEF AtMost
  <2> HIDE DEF Finish
  <2> QED BY <1>1, <2>1, SelectedAlike
<1>3. CASE Maximum # NoLimit
  <2>1. /\ query.count # NoLimit /\ query.quals = <<>> /\ ~query.sorts
        /\ Maximum = query.count + query.offset
    BY <1>3 DEF Maximum
  <2>2. query.offset + query.count = Maximum /\ Maximum \in Nat
    <3>1. query.count \in Nat /\ query.offset \in Nat
      BY <2>1, GivenFacts
    <3> QED BY <2>1, <3>1
  <2>3. \A row \in Rows : Wanted(row)
    BY <2>1 DEF Wanted, IsOpaque
  <2>4. All = Relation /\ All \in Seq(Rows)
    BY <2>3, SelectedAlike, AllFacts
  <2> DEFINE t == AtMost(Maximum, All)
  <2>5. t \in Seq(Rows) /\ AtMost(Maximum, t) = t
    <3>1. t \in Seq(Rows)
      BY <2>2, <2>4, AtMostFacts
    <3>2. AtMost(Maximum, AtMost(Maximum, All)) = AtMost(Maximum, All)
      BY <1>3, <2>2, <2>4, AtMostTwice
    <3> QED BY <3>1, <3>2
  <2>6. \A s \in Seq(Rows) : Members(s, WantedRows) = s
    <3> TAKE s \in Seq(Rows)
    <3>1. \A i \in DOMAIN s : s[i] \in WantedRows
      BY <2>3 DEF WantedRows
    <3> QED BY <3>1, MembersAll
  <2>7. \A s : Finish(s) = SubSeq(AtMost(Maximum, s), query.offset + 1, Len(AtMost(Maximum, s)))
    BY <2>1, <2>2
  <2> HIDE DEF Finish
  <2>8. Evaluation(t) = Finish(t) /\ Evaluation(Relation) = Finish(All)
    BY <1>1, <2>4, <2>5, <2>6
  <2>9. Finish(t) = Finish(All)
    BY <2>5, <2>7
  <2> QED BY <2>8, <2>9
<1> QED BY <1>2, <1>3
-----------------------------------------------------------------------------
\* The inductive invariant.

Begun == initial = First /\ injected = Path /\ maximum = Maximum

\* The last request was one for rows of the same collection.
Asked == \E o \in Origins, a \in Nat : initial = First /\ current = Asks(o, a)

\* A scan that fetches has the rows of its requests so far, from the first on, and
\* knows how to ask for the ones that follow.
Fetching ==
  \E n \in Nat :
    /\ rows = AtMost(n, All)
    /\ \/ n = 0 /\ next = {}
       \/ /\ convention # "unpaged" /\ ~Enough(rows)
          /\ \E o \in Origins, a \in Nat : current = Asks(o, a) /\ next = {TokenOf(Asks(o, n))}

IInv ==
  /\ Given
  /\ pc = "begin" => current = NoRequest /\ next = {} /\ rows = <<>>
  /\ current = NoRequest \/ Asked
  /\ pc = "fetch" => Bound /\ Begun /\ Fetching
  /\ pc = "evaluate" /\ Bound => rows = AtMost(Maximum, All)
  /\ AnswerIsExact

LEMMA Initially == ASSUME Init PROVE IInv
<1>1. Given
  BY DEF Init, Given
<1>2. pc = "begin" /\ next = {} /\ rows = <<>> /\ current = NoRequest
  BY DEF Init
<1> QED BY <1>1, <1>2 DEF IInv, AnswerIsExact

\* What depends on the table, the query and the origin only does not change.
LEMMA Unchanging ==
  ASSUME UNCHANGED <<table, query, convention>>
  PROVE  /\ Given' <=> Given
         /\ Path' = Path /\ Maximum' = Maximum /\ First' = First /\ All' = All
         /\ Bound' = Bound /\ Overwrites' = Overwrites /\ IsOpaque' = IsOpaque
         /\ Evaluation(Relation)' = Evaluation(Relation)
         /\ \A o, a : Asks(o, a)' = Asks(o, a)
         /\ \A o, a : TokenOf(Asks(o, a))' = TokenOf(Asks(o, a))
<1>1. Given' <=> Given
  BY DEF Given, Fits
<1>2. Path' = Path /\ Bound' = Bound
  BY DEF Path, Bound, Positions, LastOf, ValueOf, Usable
<1>3. Params' = Params
  BY DEF Params, Setting, LastOf, ValueOf, Usable, ParamOf
<1>4. RowsAsked' = RowsAsked /\ Maximum' = Maximum
  BY DEF RowsAsked, Maximum
<1>5. \A o, a : Asks(o, a)' = Asks(o, a)
  BY <1>2, <1>3, <1>4 DEF Asks
<1>6. First' = First
  BY <1>2, <1>3, <1>4 DEF First, Asks
<1>7. All' = All
  BY <1>6 DEF All, Selected, At, Matches, Members, Rows
<1>8. Overwrites' = Overwrites /\ IsOpaque' = IsOpaque
  BY DEF Overwrites, IsOpaque, Setting, Usable, ParamOf, Rows
<1>9. Relation' = Relation
  BY DEF Relation, Members, Matches, Rows
<1>10. Evaluation(Relation)' = Evaluation(Relation)
  BY <1>9 DEF Evaluation, AtMost, Members, Wanted, Satisfies, Rows
<1>11. \A o, a : TokenOf(Asks(o, a))' = TokenOf(Asks(o, a))
  BY <1>2, <1>3, <1>4 DEF TokenOf, Asks
<1> QED BY <1>1, <1>2, <1>4, <1>5, <1>6, <1>7, <1>8, <1>10, <1>11

LEMMA BeginUnboundKeeps == ASSUME IInv, BeginUnbound PROVE IInv'
<1>1. /\ pc' = "evaluate" /\ ~Bound /\ UNCHANGED <<table, query, convention>>
      /\ UNCHANGED <<current, rows, initial>> /\ current = NoRequest
  BY DEF BeginUnbound, IInv
<1>2. Given' /\ ~Bound' /\ rows' = <<>>
  BY <1>1, Unchanging DEF IInv, BeginUnbound
<1>3. current' = NoRequest'
  BY <1>1 DEF NoRequest
<1> QED BY <1>1, <1>2, <1>3 DEF IInv, AnswerIsExact

LEMMA BeginScanKeeps == ASSUME IInv, BeginScan PROVE IInv'
<1>1. /\ pc' = "fetch" /\ Bound /\ UNCHANGED <<table, query, convention>>
      /\ next' = {} /\ rows' = <<>> /\ current' = NoRequest
  BY DEF BeginScan, IInv
<1>2. /\ Given' /\ Bound' /\ All' = All /\ First' = First /\ Path' = Path /\ Maximum' = Maximum
  BY <1>1, Unchanging DEF IInv
<1>3. Begun'
  BY <1>2 DEF BeginScan, Begun, First, Asks, NoRequest
<1>4. Fetching'
  <2>1. AtMost(0, All) = <<>>
    <3>1. All \in Seq(Rows) /\ Len(All) \in Nat /\ 0 \in Nat \cup {NoLimit} /\ 0 # NoLimit
      BY AllFacts DEF NoLimit
    <3>2. /\ AtMost(0, All) \in Seq(Rows)
          /\ Len(AtMost(0, All)) = IF 0 = NoLimit \/ 0 >= Len(All) THEN Len(All) ELSE 0
      BY <3>1, AtMostFacts
    <3>3. Len(AtMost(0, All)) = 0
      BY <3>1, <3>2
    <3> QED BY <3>2, <3>3
  <2>2. AtMost(0, All)' = <<>>
    BY <1>2, <2>1 DEF AtMost
  <2> QED BY <1>1, <2>2 DEF Fetching
<1>5. NoRequest' = NoRequest
  BY DEF NoRequest
<1> QED BY <1>1, <1>2, <1>3, <1>4, <1>5 DEF IInv, AnswerIsExact

LEMMA FetchPageKeeps == ASSUME IInv, FetchPage PROVE IInv'
<1>1. /\ pc = "fetch" /\ UNCHANGED <<table, query, convention, initial, injected, maximum>>
      /\ Given /\ Bound /\ Begun
  BY DEF FetchPage, IInv
<1>2. PICK request \in PageRequests :
       LET page == Serve(request)
           fetched == rows \o [i \in DOMAIN page.rows |-> Projected(page.rows[i])]
       IN  /\ current' = request
           /\ next' = NextOf(page, table)
           /\ rows' = AtMost(maximum, fetched)
           /\ pc' = IF next' = {} \/ Enough(fetched) THEN "evaluate" ELSE "fetch"
  BY DEF FetchPage
<1>3. PICK n \in Nat :
        /\ rows = AtMost(n, All)
        /\ \/ n = 0 /\ next = {}
           \/ /\ convention # "unpaged" /\ ~Enough(rows)
              /\ \E o \in Origins, a \in Nat : current = Asks(o, a) /\ next = {TokenOf(Asks(o, n))}
  BY <1>1 DEF FetchPage, IInv, Fetching
<1>4. PICK o \in Origins : request = Asks(o, n)
  <2>1. CASE n = 0 /\ next = {}
    <3>1. request = Asks("base", 0) /\ "base" \in Origins
      BY <1>1, <1>2, <2>1 DEF PageRequests, Begun, First, Origins
    <3> QED BY <2>1, <3>1
  <2>2. CASE convention # "unpaged" /\ ~(n = 0 /\ next = {})
    <3>1. PICK from \in Origins, a \in Nat : current = Asks(from, a) /\ next = {TokenOf(Asks(from, n))}
      BY <1>3, <2>2
    <3>2. request \in Follow(TokenOf(Asks(from, n)))
      BY <1>2, <3>1 DEF PageRequests
    <3>3. convention \in Paged /\ initial = First
      BY <1>1, <2>2, GivenFacts DEF Begun
    <3> QED BY <1>1, <3>1, <3>2, <3>3, Resolved
  <2> QED BY <1>3, <2>1, <2>2
<1>0. PICK last \in Nat : last = n + PageLength(First)
  BY <1>1, PageLengthFacts
<1> DEFINE page == Serve(Asks(o, n))
           fetched == rows \o [i \in DOMAIN page.rows |-> Projected(page.rows[i])]
<1>5. /\ current' = Asks(o, n) /\ next' = NextOf(page, table) /\ rows' = AtMost(maximum, fetched)
      /\ pc' = IF next' = {} \/ Enough(fetched) THEN "evaluate" ELSE "fetch"
  BY <1>2, <1>4
<1>6. IF NextOf(page, table) = {} \/ Enough(fetched)
      THEN AtMost(maximum, fetched) = AtMost(Maximum, All)
      ELSE /\ convention \in Paged /\ last \in Nat
           /\ NextOf(page, table) = {TokenOf(Asks(o, last))}
           /\ AtMost(maximum, fetched) = AtMost(last, All) /\ ~Enough(AtMost(last, All))
  <2>1. injected = Path /\ maximum = Maximum /\ (n = 0 \/ (convention # "unpaged" /\ ~Enough(rows)))
    BY <1>1, <1>3 DEF Begun
  <2> QED BY <1>1, <1>3, <1>0, <2>1, PageStep
<1> HIDE DEF page, fetched
<1>7. /\ Given' /\ Bound' /\ All' = All /\ First' = First /\ Path' = Path /\ Maximum' = Maximum
      /\ Asks(o, n)' = Asks(o, n) /\ Asks(o, last)' = Asks(o, last)
      /\ TokenOf(Asks(o, last))' = TokenOf(Asks(o, last))
  BY <1>1, Unchanging
<1>8. Asked'
  BY <1>1, <1>5, <1>7 DEF Asked, Begun
<1>9. CASE next' = {} \/ Enough(fetched)
  <2>1. pc' = "evaluate" /\ rows' = AtMost(Maximum, All)
    BY <1>5, <1>6, <1>9
  <2>2. AtMost(Maximum, All)' = AtMost(Maximum, All)
    BY <1>7 DEF AtMost
  <2> QED BY <1>7, <1>8, <2>1, <2>2 DEF IInv, AnswerIsExact
<1>10. CASE ~(next' = {} \/ Enough(fetched))
  <2>1. /\ pc' = "fetch" /\ rows' = AtMost(last, All) /\ next' = {TokenOf(Asks(o, last))}
        /\ last \in Nat /\ convention # "unpaged" /\ ~Enough(rows')
    BY <1>5, <1>6, <1>10 DEF Paged
  <2>2. Begun'
    BY <1>1, <1>7 DEF Begun
  <2>3. AtMost(last, All)' = AtMost(last, All) /\ convention' # "unpaged" /\ ~Enough(rows)'
    BY <1>1, <1>7, <2>1 DEF AtMost, Enough
  <2>4. Fetching'
    BY <1>5, <1>7, <2>1, <2>3 DEF Fetching
  <2> QED BY <1>7, <1>8, <2>1, <2>2, <2>4 DEF IInv, AnswerIsExact
<1> QED BY <1>9, <1>10

LEMMA FetchFailsKeeps == ASSUME IInv, FetchFails PROVE IInv'
<1>1. pc' = "failed" /\ UNCHANGED <<table, query, convention, current, initial>>
  BY DEF FetchFails
<1>2. Given' /\ First' = First /\ \A o, a : Asks(o, a)' = Asks(o, a)
  BY <1>1, Unchanging DEF IInv
<1>3. (current = NoRequest \/ Asked)'
  BY <1>1, <1>2 DEF IInv, Asked, NoRequest
<1> QED BY <1>1, <1>2, <1>3 DEF IInv, AnswerIsExact

LEMMA EvaluateKeeps == ASSUME IInv, Evaluate PROVE IInv'
<1>1. /\ pc = "evaluate" /\ pc' = "done" /\ rows' = Evaluation(rows)
      /\ UNCHANGED <<table, query, convention, current, initial>>
  BY DEF Evaluate
<1>2. Given' /\ First' = First /\ \A o, a : Asks(o, a)' = Asks(o, a)
  BY <1>1, Unchanging DEF IInv
<1>3. (current = NoRequest \/ Asked)'
  BY <1>1, <1>2 DEF IInv, Asked, NoRequest
<1>4. AnswerIsExact'
  <2>1. SUFFICES ASSUME Bound, ~Overwrites, ~IsOpaque PROVE rows' = Evaluation(Relation)
    BY <1>1, Unchanging DEF AnswerIsExact
  <2>2. rows = AtMost(Maximum, All) /\ Given
    BY <1>1, <2>1 DEF IInv
  <2> QED BY <1>1, <2>1, <2>2, Evaluated
<1> QED BY <1>1, <1>2, <1>3, <1>4 DEF IInv

LEMMA Stuttering == ASSUME IInv, UNCHANGED vars PROVE IInv'
<1>1. UNCHANGED vars
  OBVIOUS
<1>2. /\ UNCHANGED <<table, query, convention>> /\ UNCHANGED <<initial, current, next, injected>>
      /\ UNCHANGED <<pc, maximum, rows>>
  BY DEF vars
<1>3. /\ Given' <=> Given
      /\ Path' = Path /\ Maximum' = Maximum /\ First' = First /\ All' = All
      /\ Bound' = Bound /\ Overwrites' = Overwrites /\ IsOpaque' = IsOpaque
      /\ Evaluation(Relation)' = Evaluation(Relation)
      /\ \A o, a : Asks(o, a)' = Asks(o, a)
      /\ \A o, a : TokenOf(Asks(o, a))' = TokenOf(Asks(o, a))
  BY <1>2, Unchanging
<1>4. Begun' <=> Begun
  BY <1>2, <1>3 DEF Begun
<1>5. Asked' <=> Asked
  BY <1>2, <1>3 DEF Asked
<1>6. Fetching' <=> Fetching
  BY <1>2, <1>3 DEF Fetching, AtMost, Enough
<1>7. AnswerIsExact' <=> AnswerIsExact
  BY <1>2, <1>3 DEF AnswerIsExact
<1>8. AtMost(Maximum, All)' = AtMost(Maximum, All) /\ NoRequest' = NoRequest
  BY <1>3 DEF AtMost, NoRequest
<1> QED BY <1>2, <1>3, <1>4, <1>5, <1>6, <1>7, <1>8 DEF IInv

LEMMA Inductive == Spec => []IInv
<1>1. Init => IInv
  BY Initially
<1>2. IInv /\ [Next]_vars => IInv'
  BY BeginUnboundKeeps, BeginScanKeeps, FetchPageKeeps, FetchFailsKeeps, EvaluateKeeps, Stuttering DEF Next
<1> QED BY <1>1, <1>2, PTL DEF Spec

\* The answer is the one PostgreSQL would find in the whole relation, whatever is
\* pushed to the origin and however its pages are announced (begin_scan, iter_scan,
\* find_next).
THEOREM ExactAnswers == Spec => []AnswerIsExact
<1>1. IInv => AnswerIsExact
  BY DEF IInv
<1> QED BY <1>1, Inductive, PTL

\* Every page after the first is one of the collection the first request asked for,
\* on the origin of the table (resolve_page_url, ensure_same_origin).
THEOREM OneCollection == Spec => []SameCollection
<1>1. IInv => SameCollection
  <2> SUFFICES ASSUME IInv, current.after > 0 PROVE SameCollection
    BY DEF SameCollection
  <2>1. current # NoRequest
    BY DEF NoRequest
  <2>2. PICK o \in Origins, a \in Nat : initial = First /\ current = Asks(o, a)
    BY <2>1 DEF IInv, Asked
  <2> QED BY <2>2 DEF SameCollection, First, Asks, Origins
<1> QED BY <1>1, Inductive, PTL
=============================================================================
