------------------------- MODULE ImportTable_proofs -------------------------
(***************************************************************************)
(* That an imported table is accepted, reads what its columns stand for,   *)
(* takes its rows where the importer looked for them and writes nothing    *)
(* but what requests may hold: for every set of documents, of components   *)
(* and of names, and every depth of resolution.                            *)
(***************************************************************************)
EXTENDS ImportTable, FiniteSetTheorems, SequenceTheorems, WellFoundedInduction, TLAPS

-----------------------------------------------------------------------------
\* Numbers.

\* A set of numbers that is not empty has a least one.
LEMMA LeastNumber ==
  ASSUME NEW T, T \subseteq Nat, T # {}
  PROVE  \E m \in T : \A i \in T : m <= i
<1>1. IsWellFoundedOn(OpToRel(<, Nat), Nat)
  BY NatLessThanWellFounded
<1>2. PICK m \in T : \A i \in T : ~(<<i, m>> \in OpToRel(<, Nat))
  BY <1>1, WFMin
<1>3. \A i \in T : ~(i < m)
  BY <1>2 DEF OpToRel
<1>4. QED BY <1>3

\* How many of a set of numbers are not above a number.
Rank(set, i) == Cardinality({j \in set : j <= i})

\* Of a finite set of numbers each has a rank of its own, and every rank is taken.
LEMMA RankFacts ==
  ASSUME NEW n \in Nat, NEW P \in SUBSET (1..n)
  PROVE  /\ IsFiniteSet(P) /\ Cardinality(P) \in Nat
         /\ \A i \in P : Rank(P, i) \in 1..Cardinality(P)
         /\ \A i, j \in P : i < j => Rank(P, i) < Rank(P, j)
         /\ \A i, j \in P : Rank(P, i) = Rank(P, j) => i = j
         /\ \A k \in 1..Cardinality(P) : \E i \in P : Rank(P, i) = k
  <1> DEFINE m == Cardinality(P)
             Upto(x) == {y \in P : y <= x}
             rank == [x \in P |-> Cardinality(Upto(x))]
  <1>1. IsFiniteSet(1..n)
    BY FS_Interval
  <1>2. P \subseteq Int /\ IsFiniteSet(P) /\ m \in Nat
    <2>1. P \subseteq Int
      OBVIOUS
    <2>2. IsFiniteSet(P)
      BY <1>1, FS_Subset
    <2> QED BY <2>1, <2>2, FS_CardinalityType
  <1>3. ASSUME NEW x \in P PROVE IsFiniteSet(Upto(x)) /\ rank[x] \in 1..m
    <2>1. IsFiniteSet(Upto(x)) /\ Cardinality(Upto(x)) <= m
      BY <1>2, FS_Subset
    <2>2. Cardinality(Upto(x)) \in Nat
      BY <2>1, FS_CardinalityType
    <2>3. x \in Upto(x)
      BY <1>2
    <2>4. Cardinality(Upto(x)) # 0
      BY <2>1, <2>3, FS_EmptySet
    <2> QED BY <1>2, <2>1, <2>2, <2>4
  <1>4. ASSUME NEW x \in P, NEW y \in P, x < y PROVE rank[x] < rank[y]
    <2>1. x \in Int /\ y \in Int /\ \A z \in P : z \in Int
      BY <1>2
    <2>2. \A z \in Upto(x) : z \in Upto(y)
      BY <1>4, <2>1
    <2>3. y \in Upto(y) /\ y \notin Upto(x)
      BY <1>4, <2>1
    <2>4. Cardinality(Upto(x)) <= Cardinality(Upto(y)) /\ Cardinality(Upto(x)) # Cardinality(Upto(y))
      BY <1>3, <2>2, <2>3, FS_Subset
    <2> QED BY <1>3, <2>4
  <1>5. \A x, y \in P : rank[x] = rank[y] => x = y
    <2> SUFFICES ASSUME NEW x \in P, NEW y \in P, rank[x] = rank[y] PROVE x = y
      OBVIOUS
    <2>1. x \in Int /\ y \in Int /\ rank[x] \in Int /\ rank[y] \in Int
      BY <1>2, <1>3
    <2>2. ~(x < y) /\ ~(y < x)
      BY <1>4, <2>1
    <2> QED BY <2>1, <2>2
  <1>6. rank \in Injection(P, 1..m)
    <2>1. rank \in [P -> 1..m]
      BY <1>3
    <2> QED BY <1>5, <2>1 DEF Injection, IsInjective
  <1>7. \A k \in 1..m : \E x \in P : rank[x] = k
    <2>1. IsFiniteSet(1..m) /\ Cardinality(1..m) = m
      BY <1>2, FS_Interval
    <2>2. rank \in Surjection(P, 1..m)
      BY <1>2, <1>6, <2>1, FS_Injection
    <2> QED BY <2>2 DEF Surjection
  <1>8. \A x \in P : rank[x] = Rank(P, x)
    BY DEF Rank
  <1> HIDE DEF rank, Upto
  <1>9. \A x \in P : Rank(P, x) \in 1..m
    BY <1>3, <1>8
  <1>10. \A x, y \in P : x < y => Rank(P, x) < Rank(P, y)
    BY <1>4, <1>8
  <1>11. \A x, y \in P : Rank(P, x) = Rank(P, y) => x = y
    BY <1>5, <1>8
  <1>12. \A k \in 1..m : \E x \in P : Rank(P, x) = k
    BY <1>7, <1>8
  <1> QED BY <1>2, <1>9, <1>10, <1>11, <1>12

-----------------------------------------------------------------------------
\* Names.

\* The words identifiers begin with: those of names, and those the import has of itself.
Words == {Head(Sanitized[n]) : n \in Names} \cup {"field", "parameter", "attrs", "_attrs"}

Identifiers == Seq(Words \cup Nat)

\* Sorted names are some of the names, each once.
LEMMA SortedFacts ==
  ASSUME NEW names
  PROVE  /\ Sorted(names) \in Seq(Names) /\ Len(Sorted(names)) \in Nat
         /\ \A i, j \in 1..Len(Sorted(names)) : Sorted(names)[i] = Sorted(names)[j] => i = j
         /\ Range(Sorted(names)) = names \cap Names
  <1> DEFINE P == {i \in DOMAIN NameOrder : NameOrder[i] \in names}
             Place(n) == CHOOSE i \in P : Rank(P, i) = n
             m == Cardinality(P)
             t == Sorted(names)
  <1>1. /\ NameOrder \in Seq(STRING) /\ DOMAIN NameOrder = 1..Len(NameOrder) /\ Len(NameOrder) \in Nat
        /\ \A i, j \in DOMAIN NameOrder : NameOrder[i] = NameOrder[j] => i = j
    BY NamesAssumption
  <1>2. P \in SUBSET (1..Len(NameOrder))
    BY <1>1
  <1>3. t = [n \in 1..m |-> NameOrder[Place(n)]]
    BY DEF Sorted, Rank
  <1>4. \A i \in P : i \in DOMAIN NameOrder /\ NameOrder[i] \in names /\ NameOrder[i] \in Names
    BY DEF Names, Range
  <1>5. \A x \in names \cap Names : \E i \in P : NameOrder[i] = x
    BY DEF Names, Range
  <1> HIDE DEF P, t
  <1>6. /\ m \in Nat
        /\ \A i \in P : Rank(P, i) \in 1..m
        /\ \A i, j \in P : Rank(P, i) = Rank(P, j) => i = j
        /\ \A k \in 1..m : \E i \in P : Rank(P, i) = k
    BY <1>1, <1>2, RankFacts
  <1>7. \A k \in 1..m : Place(k) \in P /\ Rank(P, Place(k)) = k
    BY <1>6
  <1>8. \A i \in P : Place(Rank(P, i)) = i
    BY <1>6, <1>7
  <1> HIDE DEF m, Place
  <1>9. t \in Seq(Names) /\ Len(t) = m /\ DOMAIN t = 1..m
    BY <1>3, <1>4, <1>6, <1>7
  <1>10. \A i, j \in 1..m : t[i] = t[j] => i = j
    <2> SUFFICES ASSUME NEW i \in 1..m, NEW j \in 1..m, t[i] = t[j] PROVE i = j
      OBVIOUS
    <2>1. Place(i) = Place(j)
      BY <1>1, <1>3, <1>4, <1>7
    <2> QED BY <1>7, <2>1
  <1>11. Range(t) = names \cap Names
    <2>1. \A k \in 1..m : t[k] \in names \cap Names
      BY <1>3, <1>4, <1>7
    <2>2. ASSUME NEW x \in names \cap Names PROVE \E k \in 1..m : t[k] = x
      <3>1. PICK i \in P : NameOrder[i] = x
        BY <1>5
      <3>2. Rank(P, i) \in 1..m /\ t[Rank(P, i)] = x
        BY <1>3, <1>6, <1>8, <3>1
      <3> QED BY <3>2
    <2> QED BY <1>9, <2>1, <2>2 DEF Range
  <1> QED BY <1>6, <1>9, <1>10, <1>11 DEF t

\* Sequences over a set are sequences over a larger one.
LEMMA Wider ==
  ASSUME NEW D, NEW E, D \subseteq E, NEW s \in Seq(D)
  PROVE  s \in Seq(E)
  <1>1. Len(s) \in Nat /\ s \in [1..Len(s) -> D]
    OBVIOUS
  <1>2. s \in [1..Len(s) -> E]
    BY <1>1
  <1> QED BY <1>1, <1>2

LEMMA Alone ==
  ASSUME NEW D, NEW x \in D
  PROVE  <<x>> \in Seq(D)
  OBVIOUS

\* Identifiers are sequences, whether of a name or of its fallback.
LEMMA IdentifierOfName ==
  ASSUME NEW name \in Names, NEW fallback, <<fallback>> \in Identifiers
  PROVE  OrElse(Sanitized[name], fallback) \in Identifiers
  <1> DEFINE D == Words \cup Nat
             s == Sanitized[name]
  <1>1. CASE s = <<>>
    BY <1>1 DEF OrElse
  <1>2. CASE IsIdentifier(s)
    <2>1. Head(s) \in D /\ Tail(s) \in Seq(D) /\ s = <<Head(s)>> \o Tail(s)
      <3>1. Tail(s) \in Seq(Nat) /\ s = <<Head(s)>> \o Tail(s)
        BY <1>2 DEF IsIdentifier
      <3>2. Tail(s) \in Seq(D)
        BY <3>1, Wider
      <3>3. Head(s) \in D
        BY DEF Words
      <3> QED BY <3>1, <3>2, <3>3
    <2> HIDE DEF D, s
    <2>2. <<Head(s)>> \o Tail(s) \in Seq(D)
      BY <2>1
    <2>3. s \in Identifiers
      BY <2>1, <2>2 DEF Identifiers, D
    <2> QED BY <2>3 DEF OrElse, s
  <1> QED BY <1>1, <1>2, NamesAssumption

\* Words of the import itself are identifiers.
LEMMA Fallbacks ==
  ASSUME NEW word \in {"field", "parameter", "attrs", "_attrs"}
  PROVE  <<word>> \in Identifiers
  <1> DEFINE D == Words \cup Nat
  <1>1. word \in D
    BY DEF Words
  <1> HIDE DEF D
  <1>2. <<word>> \in Seq(D)
    BY <1>1, Alone
  <1> QED BY <1>2 DEF Identifiers, D

\* What was appended to two identifiers can be told.
LEMMA SuffixedApart ==
  ASSUME NEW s \in Identifiers, NEW t \in Identifiers, NEW m \in Nat, NEW n \in Nat,
         Suffixed(s, m) = Suffixed(t, n)
  PROVE  s = t /\ m = n
  <1> DEFINE D == Words \cup Nat
  <1>1. s \in Seq(D) /\ t \in Seq(D) /\ m \in D /\ n \in D
    BY DEF Identifiers
  <1> HIDE DEF D
  <1>2. Append(s, m) = Append(t, n)
    BY DEF Suffixed
  <1>3. /\ Len(s) \in Nat /\ Len(t) \in Nat
        /\ Len(Append(s, m)) = Len(s) + 1 /\ Len(Append(t, n)) = Len(t) + 1
        /\ \A i \in 1..Len(s) : Append(s, m)[i] = s[i]
        /\ \A i \in 1..Len(t) : Append(t, n)[i] = t[i]
        /\ Append(s, m)[Len(s) + 1] = m /\ Append(t, n)[Len(t) + 1] = n
    BY <1>1, AppendProperties
  <1>4. Len(s) = Len(t)
    BY <1>2, <1>3
  <1>5. \A i \in 1..Len(s) : s[i] = t[i]
    BY <1>2, <1>3, <1>4
  <1>6. s = t
    BY <1>1, <1>4, <1>5, SeqEqual
  <1> QED BY <1>2, <1>3, <1>6

\* With its ordinal an identifier is one.
LEMMA SuffixedType ==
  ASSUME NEW s \in Identifiers, NEW n \in Nat
  PROVE  Suffixed(s, n) \in Identifiers
  <1> DEFINE D == Words \cup Nat
  <1>1. s \in Seq(D) /\ n \in D
    BY DEF Identifiers
  <1> HIDE DEF D
  <1>2. Append(s, n) \in Seq(D)
    BY <1>1
  <1> QED BY <1>2 DEF Suffixed, Identifiers, D

-----------------------------------------------------------------------------
\* Columns.

Columns == Seq([name : Identifiers, json : Names])

\* No two of them have one name.
Unique(columns) == \A i, j \in DOMAIN columns : columns[i].name = columns[j].name => i = j

LEMMA ColumnsType ==
  ASSUME NEW columns \in Columns
  PROVE  /\ Len(columns) \in Nat /\ DOMAIN columns = 1..Len(columns)
         /\ \A i \in DOMAIN columns : columns[i].name \in Identifiers /\ columns[i].json \in Names
  <1> DEFINE C == [name : Identifiers, json : Names]
  <1>1. \A c \in C : c.name \in Identifiers /\ c.json \in Names
    OBVIOUS
  <1> HIDE DEF C
  <1>2. /\ Len(columns) \in Nat /\ DOMAIN columns = 1..Len(columns)
        /\ \A i \in DOMAIN columns : columns[i] \in C
    <2>1. columns \in Seq(C)
      BY DEF Columns, C
    <2> QED BY <2>1
  <1> QED BY <1>1, <1>2

LEMMA ColumnType ==
  ASSUME NEW name \in Identifiers, NEW json \in Names
  PROVE  /\ Column(name, json) \in [name : Identifiers, json : Names]
         /\ Column(name, json).name = name /\ Column(name, json).json = json
  BY DEF Column

\* There are as many names in use as columns, if every column has a name of its own.
LEMMA UsedFacts ==
  ASSUME NEW columns \in Columns
  PROVE  /\ IsFiniteSet(Used(columns)) /\ Cardinality(Used(columns)) \in Nat
         /\ Cardinality(Used(columns)) <= Len(columns)
         /\ Cardinality(Used(columns)) = Len(columns) <=> Unique(columns)
  <1> DEFINE f == [i \in 1..Len(columns) |-> columns[i].name]
             n == Len(columns)
  <1>1. n \in Nat /\ DOMAIN columns = 1..n
    BY ColumnsType
  <1>2. Used(columns) = {columns[i].name : i \in 1..n}
    BY <1>1 DEF Used, Range
  <1>3. f \in Surjection(1..n, Used(columns))
    <2>1. f \in [1..n -> Used(columns)]
      BY <1>2
    <2>2. \A x \in Used(columns) : \E i \in 1..n : f[i] = x
      BY <1>2
    <2> QED BY <2>1, <2>2 DEF Surjection
  <1>4. IsFiniteSet(1..n) /\ Cardinality(1..n) = n
    <2> HIDE DEF n
    <2> QED BY <1>1, FS_Interval
  <1>5. f \in Injection(1..n, Used(columns)) <=> Unique(columns)
    BY <1>1, <1>3 DEF Injection, IsInjective, Surjection, Unique
  <1> HIDE DEF f
  <1>6. /\ IsFiniteSet(Used(columns)) /\ Cardinality(Used(columns)) <= n
        /\ Cardinality(Used(columns)) = n <=> f \in Injection(1..n, Used(columns))
    BY <1>3, <1>4, FS_Surjection
  <1>7. Cardinality(Used(columns)) \in Nat
    BY <1>6, FS_CardinalityType
  <1> QED BY <1>5, <1>6, <1>7

\* unique_column_name ends, with a name that is not in use.
LEMMA FreshName ==
  ASSUME NEW columns \in Columns, NEW base \in Identifiers
  PROVE  UniqueColumnName(base, columns) \in Identifiers /\ UniqueColumnName(base, columns) \notin Used(columns)
  <1> DEFINE n == Len(columns)
             S == 2..(n + 2)
             free == {k \in S : Suffixed(base, k) \notin Used(columns)}
             f == [k \in S |-> Suffixed(base, k)]
             least == CHOOSE k \in free : \A m \in free : k <= m
  <1>1. n \in Nat
    BY ColumnsType
  <1>2. IsFiniteSet(S) /\ Cardinality(S) = n + 1
    BY <1>1, FS_Interval
  <1>3. S \subseteq Nat
    BY <1>1
  <1> HIDE DEF n, S
  <1>4. free # {}
    <2> SUFFICES ASSUME free = {} PROVE FALSE
      OBVIOUS
    <2>1. f \in [S -> Used(columns)]
      OBVIOUS
    <2>2. Cardinality(Used(columns)) < Cardinality(S) /\ IsFiniteSet(Used(columns))
      BY <1>1, <1>2, UsedFacts DEF n
    <2>3. \E x, y \in S : x # y /\ f[x] = f[y]
      <3> HIDE DEF f
      <3> QED BY <1>2, <2>1, <2>2, FS_PigeonHole
    <2>4. PICK x \in S, y \in S : x # y /\ f[x] = f[y]
      BY <2>3
    <2>5. Suffixed(base, x) = Suffixed(base, y)
      BY <2>4
    <2> QED BY <1>3, <2>4, <2>5, SuffixedApart
  <1>5. \E k \in free : \A m \in free : k <= m
    BY <1>3, <1>4, LeastNumber
  <1>6. least \in free
    BY <1>5
  <1>7. UniqueColumnName(base, columns) = IF base \notin Used(columns) THEN base ELSE Suffixed(base, least)
    BY DEF UniqueColumnName, S, n
  <1>8. Suffixed(base, least) \in Identifiers /\ Suffixed(base, least) \notin Used(columns)
    <2> HIDE DEF least
    <2> QED BY <1>3, <1>6, SuffixedType
  <1> QED BY <1>7, <1>8

\* The columns of the rows: one for each name, and all of different names or else two
\* properties that are alike.
LEMMA ColumnsOfFacts ==
  ASSUME NEW names \in Seq(Names), \A i, j \in DOMAIN names : names[i] = names[j] => i = j
  PROVE  /\ ColumnsOf(names) \in Columns /\ Len(ColumnsOf(names)) = Len(names)
         /\ \A i \in DOMAIN names : ColumnsOf(names)[i].json = names[i]
         /\ \A i \in DOMAIN names : OrElse(Sanitized[names[i]], "field") \in Used(ColumnsOf(names))
         /\ Unique(ColumnsOf(names)) \/ Lookalike(ColumnsOf(names))
  <1> DEFINE bases == [i \in DOMAIN names |-> OrElse(Sanitized[names[i]], "field")]
             Same(i) == {j \in 1..i : bases[j] = bases[i]}
             n == Len(names)
             columns == ColumnsOf(names)
  <1>1. n \in Nat /\ DOMAIN names = 1..n /\ \A i \in 1..n : names[i] \in Names
    OBVIOUS
  <1>2. \A i \in 1..n : bases[i] = OrElse(Sanitized[names[i]], "field")
    BY <1>1
  <1>3. \A i \in 1..n : OrElse(Sanitized[names[i]], "field") \in Identifiers
    BY <1>1, IdentifierOfName, Fallbacks
  <1>4. columns = [i \in 1..n |-> Column(UniqueIdentifier(bases, i), names[i])]
    BY <1>1 DEF ColumnsOf
  <1>5. \A i \in 1..n : UniqueIdentifier(bases, i) =
          IF Cardinality(Same(i)) = 1 THEN bases[i] ELSE Suffixed(bases[i], Cardinality(Same(i)))
    BY DEF UniqueIdentifier
  <1> HIDE DEF bases, n, columns
  <1>15. \A i \in 1..n : bases[i] \in Identifiers
    BY <1>2, <1>3
  <1>6. ASSUME NEW i \in 1..n
        PROVE  IsFiniteSet(Same(i)) /\ Cardinality(Same(i)) \in 1..i
    <2>1. IsFiniteSet(1..i) /\ Cardinality(1..i) = i
      BY <1>1, FS_Interval
    <2>2. Same(i) \in SUBSET (1..i) /\ i \in Same(i)
      BY <1>1
    <2>3. IsFiniteSet(Same(i)) /\ Cardinality(Same(i)) <= i
      BY <2>1, <2>2, FS_Subset
    <2>4. Cardinality(Same(i)) \in Nat /\ Cardinality(Same(i)) # 0
      BY <2>2, <2>3, FS_CardinalityType, FS_EmptySet
    <2> QED BY <1>1, <2>3, <2>4
  <1>7. ASSUME NEW i \in 1..n, NEW j \in 1..n, i < j, bases[i] = bases[j]
        PROVE  Cardinality(Same(i)) < Cardinality(Same(j))
    <2>1. Same(i) \in SUBSET Same(j)
      BY <1>1, <1>7
    <2>2. j \in Same(j) /\ j \notin Same(i)
      BY <1>1, <1>7
    <2>3. Cardinality(Same(i)) <= Cardinality(Same(j)) /\ Cardinality(Same(i)) # Cardinality(Same(j))
      BY <1>6, <2>1, <2>2, FS_Subset
    <2> QED BY <1>6, <2>3
  <1>8. \A i \in 1..n : UniqueIdentifier(bases, i) \in Identifiers
    <2> SUFFICES ASSUME NEW i \in 1..n PROVE UniqueIdentifier(bases, i) \in Identifiers
      OBVIOUS
    <2>1. bases[i] \in Identifiers /\ Cardinality(Same(i)) \in Nat
      BY <1>1, <1>15, <1>6
    <2>2. Suffixed(bases[i], Cardinality(Same(i))) \in Identifiers
      BY <2>1, SuffixedType
    <2> QED BY <1>5, <2>1, <2>2
  <1>9. columns \in Columns /\ Len(columns) = n
    <2>1. \A i \in 1..n : columns[i] \in [name : Identifiers, json : Names]
      BY <1>1, <1>4, <1>8, ColumnType
    <2> QED BY <1>1, <1>4, <2>1 DEF Columns
  <1>10. \A i \in 1..n : columns[i].json = names[i] /\ columns[i].name = UniqueIdentifier(bases, i)
    BY <1>1, <1>4, <1>8, ColumnType
  <1>11. \A i \in 1..n : columns[i] \in Range(columns)
    BY <1>4 DEF Range
  <1>12. ASSUME NEW i \in 1..n PROVE bases[i] \in Used(columns)
    <2> DEFINE T == Same(i)
    <2>1. T \subseteq Nat /\ T # {}
      BY <1>1
    <2>2. PICK k \in T : \A j \in T : k <= j
      BY <2>1, LeastNumber
    <2>3. k \in 1..n /\ bases[k] = bases[i] /\ k <= i
      BY <1>1, <2>2
    <2>4. Same(k) = {k}
      BY <1>1, <2>2, <2>3
    <2>5. Cardinality(Same(k)) = 1
      BY <2>4, FS_Singleton
    <2>6. columns[k].name = bases[i]
      BY <1>5, <1>10, <2>3, <2>5
    <2> QED BY <1>11, <2>3, <2>6 DEF Used
  <1>13. ASSUME NEW i \in 1..n, NEW j \in 1..n, i < j, columns[i].name = columns[j].name
         PROVE  Lookalike(columns)
    <2>1. UniqueIdentifier(bases, i) = UniqueIdentifier(bases, j)
      BY <1>10, <1>13
    <2> DEFINE p == Cardinality(Same(i))
               q == Cardinality(Same(j))
    <2>2. p \in 1..n /\ q \in 1..n /\ n \in Nat /\ (bases[i] = bases[j] => p < q)
      BY <1>1, <1>6, <1>7, <1>13
    <2>3. bases[i] \in Identifiers /\ bases[j] \in Identifiers
      BY <1>15
    <2>4. /\ p = 1 => UniqueIdentifier(bases, i) = bases[i]
          /\ p # 1 => UniqueIdentifier(bases, i) = Suffixed(bases[i], p)
          /\ q = 1 => UniqueIdentifier(bases, j) = bases[j]
          /\ q # 1 => UniqueIdentifier(bases, j) = Suffixed(bases[j], q)
      BY <1>5
    <2> HIDE DEF p, q
    <2>5. CASE p = 1 /\ q = 1
      BY <2>1, <2>2, <2>4, <2>5
    <2>6. CASE p # 1 /\ q # 1
      <3>1. Suffixed(bases[i], p) = Suffixed(bases[j], q) /\ p \in Nat /\ q \in Nat
        BY <2>1, <2>2, <2>4, <2>6
      <3>2. bases[i] = bases[j] /\ p = q
        BY <2>3, <3>1, SuffixedApart
      <3> QED BY <2>2, <3>2
    <2>7. CASE p = 1 /\ q # 1
      <3>1. bases[i] = Suffixed(bases[j], q) /\ q \in 2..Len(columns)
        BY <1>9, <2>1, <2>2, <2>4, <2>7
      <3> QED BY <1>2, <1>10, <1>11, <3>1 DEF Lookalike
    <2>8. CASE p # 1 /\ q = 1
      <3>1. bases[j] = Suffixed(bases[i], p) /\ p \in 2..Len(columns)
        BY <1>9, <2>1, <2>2, <2>4, <2>8
      <3> QED BY <1>2, <1>10, <1>11, <3>1 DEF Lookalike
    <2> QED BY <2>5, <2>6, <2>7, <2>8
  <1>14. Unique(columns) \/ Lookalike(columns)
    <2>1. DOMAIN columns = 1..n /\ n \in Nat
      BY <1>1, <1>4
    <2> QED BY <1>13, <2>1 DEF Unique
  <1> QED BY <1>1, <1>2, <1>9, <1>10, <1>12, <1>14 DEF columns, n

\* Columns that keep those there were, and that have different names if those had.
Grown(columns, more) ==
  /\ more \in Columns
  /\ Range(columns) \subseteq Range(more) /\ Len(columns) <= Len(more)
  /\ Unique(columns) => Unique(more)

LEMMA GrownItself == ASSUME NEW columns \in Columns PROVE Grown(columns, columns)
  BY ColumnsType DEF Grown

LEMMA GrownTwice ==
  ASSUME NEW a \in Columns, NEW b, NEW c, Grown(a, b), Grown(b, c)
  PROVE  Grown(a, c)
  <1>1. b \in Columns /\ c \in Columns /\ Len(a) \in Nat /\ Len(b) \in Nat /\ Len(c) \in Nat
    BY ColumnsType DEF Grown
  <1> QED BY <1>1 DEF Grown

\* Columns of other names after those there were.
LEMMA GrownBy ==
  ASSUME NEW columns \in Columns, NEW extra \in Columns, Unique(extra),
         \A i \in DOMAIN extra : extra[i].name \notin Used(columns)
  PROVE  Grown(columns, columns \o extra)
  <1> DEFINE more == columns \o extra
             m == Len(columns)
             n == Len(extra)
  <1>1. /\ m \in Nat /\ n \in Nat /\ DOMAIN columns = 1..m /\ DOMAIN extra = 1..n
    BY ColumnsType
  <1>2. /\ more \in Columns /\ Len(more) = m + n /\ DOMAIN more = 1..(m + n)
        /\ \A i \in 1..m : more[i] = columns[i]
        /\ \A i \in (m + 1)..(m + n) : more[i] = extra[i - m]
    <2> DEFINE C == [name : Identifiers, json : Names]
    <2>1. columns \in Seq(C) /\ extra \in Seq(C)
      BY DEF Columns
    <2> HIDE DEF C
    <2>2. /\ more \in Seq(C) /\ Len(more) = m + n
          /\ \A i \in 1..m : more[i] = columns[i]
          /\ \A i \in (m + 1)..(m + n) : more[i] = extra[i - m]
      BY <1>1, <2>1
    <2>3. DOMAIN more = 1..Len(more)
      BY <2>2
    <2> QED BY <2>2, <2>3 DEF Columns, C
  <1> HIDE DEF more, m, n
  <1>3. \A i \in 1..m : columns[i].name \in Used(columns)
    BY <1>1 DEF Used, Range
  <1>4. \A i \in (m + 1)..(m + n) : i - m \in 1..n /\ more[i].name \notin Used(columns)
    BY <1>1, <1>2
  <1>5. \A i \in 1..(m + n) : i \in 1..m \/ i \in (m + 1)..(m + n)
    BY <1>1
  <1>6. Range(columns) \subseteq Range(more)
    <2>1. \A i \in 1..m : i \in 1..(m + n)
      BY <1>1
    <2> QED BY <1>1, <1>2, <2>1 DEF Range
  <1>7. ASSUME Unique(columns), NEW i \in 1..(m + n), NEW j \in 1..(m + n), more[i].name = more[j].name
        PROVE  i = j
    <2>1. CASE i \in 1..m /\ j \in 1..m
      BY <1>1, <1>2, <1>7, <2>1 DEF Unique
    <2>2. CASE i \in (m + 1)..(m + n) /\ j \in (m + 1)..(m + n)
      <3>1. extra[i - m].name = extra[j - m].name /\ i - m \in 1..n /\ j - m \in 1..n
        BY <1>2, <1>4, <1>7, <2>2
      <3>2. i - m = j - m
        BY <1>1, <3>1 DEF Unique
      <3> QED BY <1>1, <3>2
    <2>3. i \in 1..m <=> j \in 1..m
      BY <1>2, <1>3, <1>4, <1>5, <1>7
    <2> QED BY <1>5, <2>1, <2>2, <2>3
  <1>8. Unique(columns) => Unique(more)
    BY <1>2, <1>7 DEF Unique
  <1>9. m <= Len(more)
    BY <1>1, <1>2
  <1> QED BY <1>2, <1>6, <1>8, <1>9 DEF Grown, more, m

\* The parameters of a path are columns of other names.
LEMMA PathParameterFacts ==
  ASSUME NEW parameters \in Seq(Names), NEW columns \in Columns
  PROVE  Grown(columns, columns \o PathParameterColumns(parameters, columns))
  <1> DEFINE name == [p \in Range(parameters) |-> OrElse(Sanitized[p], "parameter")]
             last == {k \in DOMAIN parameters :
                        /\ name[parameters[k]] \notin Used(columns)
                        /\ \A j \in DOMAIN parameters : j > k => name[parameters[j]] # name[parameters[k]]}
             kept == {parameters[i] : i \in last}
             names == Sorted(kept)
             extra == PathParameterColumns(parameters, columns)
  <1>1. /\ DOMAIN parameters = 1..Len(parameters) /\ Len(parameters) \in Nat
        /\ \A i \in DOMAIN parameters : parameters[i] \in Names /\ parameters[i] \in Range(parameters)
    BY DEF Range
  <1>2. \A p \in Range(parameters) : p \in Names
    BY <1>1 DEF Range
  <1>3. \A p \in Names : OrElse(Sanitized[p], "parameter") \in Identifiers
    BY IdentifierOfName, Fallbacks
  <1>4. \A p \in Range(parameters) : name[p] \in Identifiers
    BY <1>2, <1>3
  <1>5. extra = [i \in DOMAIN names |-> Column(name[names[i]], names[i])]
    BY DEF PathParameterColumns
  <1> HIDE DEF name, extra
  <1>6. \A p \in kept : p \in Range(parameters) /\ name[p] \notin Used(columns)
    BY <1>1
  <1>7. \A p, q \in kept : name[p] = name[q] => p = q
    <2> SUFFICES ASSUME NEW k \in last, NEW j \in last, name[parameters[k]] = name[parameters[j]]
                 PROVE  parameters[k] = parameters[j]
      OBVIOUS
    <2>1. k \in Nat /\ j \in Nat /\ ~(j > k) /\ ~(k > j)
      BY <1>1
    <2> QED BY <2>1
  <1> HIDE DEF kept, last
  <1>8. /\ names \in Seq(Names) /\ Len(names) \in Nat /\ DOMAIN names = 1..Len(names)
        /\ \A i, j \in 1..Len(names) : names[i] = names[j] => i = j
        /\ \A i \in 1..Len(names) : names[i] \in kept /\ names[i] \in Names
    BY SortedFacts DEF Range
  <1> HIDE DEF names
  <1>9. \A i \in 1..Len(names) : extra[i] \in [name : Identifiers, json : Names] /\ extra[i].name = name[names[i]]
    BY <1>4, <1>5, <1>6, <1>8, ColumnType
  <1>10. extra \in Columns /\ DOMAIN extra = 1..Len(names)
    BY <1>5, <1>8, <1>9 DEF Columns
  <1>11. Unique(extra)
    BY <1>7, <1>8, <1>9, <1>10 DEF Unique
  <1>12. \A i \in DOMAIN extra : extra[i].name \notin Used(columns)
    BY <1>6, <1>8, <1>9, <1>10
  <1> QED BY <1>10, <1>11, <1>12, GrownBy DEF extra

\* A property of a request that no column stands for becomes one.
LEMMA EnsuredFacts ==
  ASSUME NEW columns \in Columns, NEW json \in Names
  PROVE  Grown(columns, Ensured(columns, json))
  <1> DEFINE fresh == UniqueColumnName(OrElse(Sanitized[json], "field"), columns)
             extra == <<Column(fresh, json)>>
             C == [name : Identifiers, json : Names]
  <1>1. OrElse(Sanitized[json], "field") \in Identifiers
    BY IdentifierOfName, Fallbacks
  <1>2. fresh \in Identifiers /\ fresh \notin Used(columns)
    BY <1>1, FreshName
  <1>3. Ensured(columns, json) = columns \/ Ensured(columns, json) = Append(columns, Column(fresh, json))
    BY DEF Ensured
  <1> HIDE DEF fresh
  <1>4. Column(fresh, json) \in C /\ Column(fresh, json).name = fresh
    BY <1>2, ColumnType
  <1> HIDE DEF C
  <1>5. extra \in Seq(C) /\ DOMAIN extra = {1} /\ extra[1].name = fresh
    BY <1>4
  <1>6. extra \in Columns
    BY <1>5 DEF Columns, C
  <1>7. columns \in Seq(C)
    BY DEF Columns, C
  <1>8. Append(columns, Column(fresh, json)) = columns \o extra
    BY <1>4, <1>7, AppendIsConcat
  <1> HIDE DEF extra
  <1>9. Unique(extra) /\ \A i \in DOMAIN extra : extra[i].name \notin Used(columns)
    BY <1>2, <1>5 DEF Unique
  <1>10. Grown(columns, columns \o extra)
    BY <1>6, <1>9, GrownBy
  <1> QED BY <1>3, <1>8, <1>10, GrownItself

\* The columns after each of the properties of a request.
After(columns, jsons, n, f) == f = [i \in 0..n |-> IF i = 0 THEN columns ELSE Ensured(f[i - 1], jsons[i])]

\* There are such columns, so that the definition of ensure_request_columns has a solution.
LEMMA AfterExists ==
  ASSUME NEW columns, NEW jsons, NEW n \in Nat
  PROVE  \E f : After(columns, jsons, n, f)
  <1> DEFINE T == {k \in Nat : ~\E f : After(columns, jsons, k, f)}
  <1> SUFFICES ASSUME n \in T PROVE FALSE
    OBVIOUS
  <1>1. PICK m \in T : \A k \in T : m <= k
    BY LeastNumber
  <1>2. m \in Nat /\ ~\E f : After(columns, jsons, m, f)
    BY <1>1
  <1>3. CASE m = 0
    <2> DEFINE g == [i \in 0..0 |-> columns]
    <2>1. g = [i \in 0..0 |-> IF i = 0 THEN columns ELSE Ensured(g[i - 1], jsons[i])]
      OBVIOUS
    <2>2. After(columns, jsons, 0, g)
      BY <2>1 DEF After
    <2> QED BY <1>2, <1>3, <2>2
  <1>4. CASE m # 0
    <2>1. m - 1 \in Nat /\ m - 1 \notin T
      BY <1>1, <1>2, <1>4
    <2>2. PICK f : After(columns, jsons, m - 1, f)
      BY <2>1
    <2> DEFINE g == [i \in 0..m |-> IF i = m THEN Ensured(f[m - 1], jsons[m]) ELSE f[i]]
               h == [i \in 0..m |-> IF i = 0 THEN columns ELSE Ensured(g[i - 1], jsons[i])]
    <2>3. \A i \in 0..(m - 1) : f[i] = IF i = 0 THEN columns ELSE Ensured(f[i - 1], jsons[i])
      BY <2>2 DEF After
    <2>4. \A i \in 0..m : i - 1 \in 0..(m - 1) \/ i = 0
      BY <1>2
    <2>5. \A i \in 0..(m - 1) : i \in 0..m /\ g[i] = f[i]
      BY <1>2
    <2>6. m \in 0..m /\ g[m] = Ensured(f[m - 1], jsons[m]) /\ m - 1 \in 0..(m - 1)
      BY <1>2, <2>1
    <2>7. \A i \in 0..m : i \in 0..(m - 1) \/ i = m
      BY <1>2
    <2> HIDE DEF g
    <2>8. ASSUME NEW i \in 0..m PROVE g[i] = IF i = 0 THEN columns ELSE Ensured(g[i - 1], jsons[i])
      <3>1. CASE i = m
        BY <1>4, <2>5, <2>6, <3>1
      <3>2. CASE i \in 0..(m - 1)
        <4>1. i # 0 => i - 1 \in 0..(m - 1)
          BY <2>4
        <4> QED BY <2>3, <2>5, <3>2, <4>1
      <3> QED BY <2>7, <3>1, <3>2
    <2>9. g = h
      BY <2>8 DEF g
    <2>10. After(columns, jsons, m, g)
      BY <2>9 DEF After
    <2> QED BY <1>2, <2>10
  <1> QED BY <1>3, <1>4

\* The properties of a request: the columns there were are kept.
LEMMA EnsureRequestFacts ==
  ASSUME NEW columns \in Columns, NEW names
  PROVE  Grown(columns, EnsureRequestColumns(columns, names))
  <1> DEFINE jsons == Sorted(names)
             n == Len(jsons)
             after == CHOOSE f : After(columns, jsons, n, f)
             T == {k \in 0..n : ~Grown(columns, after[k])}
  <1>1. n \in Nat /\ \A i \in 1..n : jsons[i] \in Names
    BY SortedFacts
  <1>2. EnsureRequestColumns(columns, names) = after[n]
    BY DEF EnsureRequestColumns, After
  <1> HIDE DEF jsons, n
  <1>3. After(columns, jsons, n, after)
    BY <1>1, AfterExists
  <1> HIDE DEF after
  <1>4. \A i \in 0..n : after[i] = IF i = 0 THEN columns ELSE Ensured(after[i - 1], jsons[i])
    BY <1>3 DEF After
  <1>5. T = {}
    <2> SUFFICES ASSUME T # {} PROVE FALSE
      OBVIOUS
    <2>1. PICK k \in T : \A j \in T : k <= j
      <3>1. T \subseteq Nat
        BY <1>1
      <3> QED BY <3>1, LeastNumber
    <2>2. k # 0
      BY <1>1, <1>4, <2>1, GrownItself
    <2>3. k - 1 \in 0..n /\ k \in 1..n /\ k - 1 \notin T
      BY <1>1, <2>1, <2>2
    <2>4. Grown(columns, after[k - 1]) /\ after[k - 1] \in Columns
      BY <2>3 DEF Grown
    <2>5. Grown(after[k - 1], after[k])
      BY <1>1, <1>4, <2>1, <2>2, <2>3, <2>4, EnsuredFacts
    <2>6. Grown(columns, after[k])
      BY <2>4, <2>5, GrownTwice
    <2> QED BY <2>1, <2>6
  <1>6. n \in 0..n
    BY <1>1
  <1> QED BY <1>2, <1>5, <1>6

-----------------------------------------------------------------------------
\* The table of a document.

\* What is alike among some columns is alike among more.
LEMMA StillAlike ==
  ASSUME NEW columns \in Columns, NEW more, Grown(columns, more), Lookalike(columns)
  PROVE  Lookalike(more)
  <1>1. Len(columns) \in Nat /\ Len(more) \in Nat
    BY ColumnsType DEF Grown
  <1>2. 2..Len(columns) \subseteq 2..Len(more)
    BY <1>1 DEF Grown
  <1> QED BY <1>2 DEF Lookalike, Grown

\* The columns of the rows, for the properties an answer may have.
LEMMA RowColumns ==
  ASSUME NEW row
  PROVE  /\ ColumnsFromSchema(row) \in Columns
         /\ Unique(ColumnsFromSchema(row)) \/ Lookalike(ColumnsFromSchema(row))
         /\ \A n \in Readable(ResolveSchema(row)) \cap Names : \E c \in Range(ColumnsFromSchema(row)) :
              c.name = OrElse(Sanitized[n], "field") /\ c.json \in Readable(ResolveSchema(row))
         /\ \A n \in Readable(ResolveSchema(row)) \cap Names :
              \E c \in Range(ColumnsFromSchema(row)) : c.json = n
  <1> DEFINE names == Sorted(Readable(ResolveSchema(row)))
             columns == ColumnsOf(names)
  <1>1. /\ names \in Seq(Names) /\ DOMAIN names = 1..Len(names) /\ Len(names) \in Nat
        /\ \A i, j \in DOMAIN names : names[i] = names[j] => i = j
        /\ Range(names) = Readable(ResolveSchema(row)) \cap Names
    BY SortedFacts
  <1>2. ColumnsFromSchema(row) = columns
    BY DEF ColumnsFromSchema
  <1> HIDE DEF names
  <1>3. /\ columns \in Columns /\ Len(columns) = Len(names)
        /\ \A i \in DOMAIN names : columns[i].json = names[i]
        /\ \A i \in DOMAIN names : OrElse(Sanitized[names[i]], "field") \in Used(columns)
        /\ Unique(columns) \/ Lookalike(columns)
    BY <1>1, ColumnsOfFacts
  <1> HIDE DEF columns
  <1>4. DOMAIN columns = DOMAIN names
    BY <1>1, <1>3, ColumnsType
  <1>5. ASSUME NEW n \in Readable(ResolveSchema(row)) \cap Names
        PROVE  \E c \in Range(columns) :
                 c.name = OrElse(Sanitized[n], "field") /\ c.json \in Readable(ResolveSchema(row))
    <2>1. PICK i \in DOMAIN names : names[i] = n
      BY <1>1 DEF Range
    <2>2. OrElse(Sanitized[n], "field") \in Used(columns)
      BY <1>3, <2>1
    <2>3. PICK c \in Range(columns) : c.name = OrElse(Sanitized[n], "field")
      BY <2>2 DEF Used
    <2>4. PICK j \in DOMAIN columns : c = columns[j]
      BY <2>3 DEF Range
    <2>5. c.json = names[j] /\ names[j] \in Range(names)
      BY <1>3, <1>4, <2>4 DEF Range
    <2> QED BY <1>1, <2>3, <2>5
  <1>6. ASSUME NEW n \in Readable(ResolveSchema(row)) \cap Names
        PROVE  \E c \in Range(columns) : c.json = n
    <2>1. PICK i \in DOMAIN names : names[i] = n
      BY <1>1 DEF Range
    <2>2. columns[i] \in Range(columns) /\ columns[i].json = n
      BY <1>3, <1>4, <2>1 DEF Range
    <2> QED BY <2>2
  <1> QED BY <1>2, <1>3, <1>5, <1>6

LEMMA ScannedFacts ==
  ASSUME NEW d \in Documents, NEW row
  PROVE  Grown(ColumnsFromSchema(row), ScanColumns(d, row))
  <1>1. d.parameters \in Seq(Names)
    BY DocumentsAssumption DEF IsDocument
  <1> QED BY <1>1, RowColumns, PathParameterFacts DEF ScanColumns

\* What the requests of an operation and of its item path may hold.
AcceptedBy(d) ==
  RequestProperties(d.operations, "post")
  \cup UNION {RequestProperties(item.operations, method) : method \in {"patch", "put"},
                item \in {[operations |-> d.operations]} \cup FindItemPath(d)}

\* What mutations may write: named columns of properties that requests may hold, and
\* never the identity.
Writable(d, columns, mutations) ==
  \A name \in mutations.write_columns :
    name # mutations.rowid /\ \E c \in Range(columns) : c.name = name /\ c.json \in AcceptedBy(d)

LEMMA NothingWritable == ASSUME NEW d, NEW columns PROVE Writable(d, columns, NoMutations)
  BY DEF Writable, NoMutations

\* infer_mutations adds columns, and writes only those of the requests.
LEMMA InferFacts ==
  ASSUME NEW d, NEW parameters, NEW scanned \in Columns
  PROVE  LET inferred == Infer(d, parameters, scanned) IN
         /\ Grown(scanned, inferred.columns)
         /\ Writable(d, inferred.columns, inferred.mutations)
  <1> DEFINE items == ItemPath(d, parameters)
             item == IF items = {} THEN [path |-> <<>>, operations |-> <<>>] ELSE CHOOSE i \in items : TRUE
             placeholders == FlattenSeq([i \in DOMAIN item.path |-> item.path[i].parameters])
             rowid == RowidColumn(IF items = {} THEN "id" ELSE placeholders[1], scanned)
             posted == IF parameters = <<>> THEN RequestProperties(d.operations, "post") ELSE {}
             inserting == EnsureRequestColumns(scanned, posted)
             patching == WithRequest(inserting, item.operations, "patch")
             patched == Written(patching, RequestProperties(item.operations, "patch"), rowid)
             putting == WithRequest(patching, item.operations, "put")
             columns == IF patched # {} THEN patching ELSE putting
             updated == IF patched # {} THEN patched
                        ELSE Written(columns, RequestProperties(item.operations, "put"), rowid)
             inserted == Written(columns, posted, rowid)
             deletes == "delete" \in DOMAIN item.operations
             mutations == IF inserted # {} \/ updated # {} \/ deletes
                          THEN [rowid |-> rowid, item |-> item.path, insert |-> inserted # {},
                                update |-> updated # {}, delete |-> deletes,
                                write_columns |-> inserted \cup updated]
                          ELSE NoMutations
  <1>1. Infer(d, parameters, scanned) =
          IF rowid = <<>> THEN [columns |-> scanned, mutations |-> NoMutations]
          ELSE [columns |-> columns, mutations |-> mutations]
    BY DEF Infer
  <1>2. \A names \in {RequestProperties(item.operations, "patch"), RequestProperties(item.operations, "put")} :
          names \subseteq AcceptedBy(d)
    <2>1. CASE items = {}
      <3>1. \A method : RequestProperties(<<>>, method) = {}
        BY DEF RequestProperties
      <3> QED BY <2>1, <3>1
    <2>2. CASE items # {}
      <3>1. item \in items
        BY <2>2
      <3> HIDE DEF item
      <3>2. item \in FindItemPath(d) \/ item.operations = d.operations
        BY <3>1 DEF ItemPath
      <3>3. \E i \in {[operations |-> d.operations]} \cup FindItemPath(d) : i.operations = item.operations
        <4>1. [operations |-> d.operations].operations = d.operations
          OBVIOUS
        <4> QED BY <3>2, <4>1
      <3> QED BY <3>3 DEF AcceptedBy
    <2> QED BY <2>1, <2>2
  <1>3. posted \subseteq AcceptedBy(d)
    BY DEF AcceptedBy
  <1> HIDE DEF items, item, rowid, posted
  <1>4. Grown(scanned, inserting) /\ inserting \in Columns
    BY EnsureRequestFacts DEF Grown
  <1> HIDE DEF inserting
  <1>5. Grown(scanned, patching) /\ patching \in Columns
    BY <1>4, EnsureRequestFacts, GrownTwice DEF Grown, WithRequest
  <1> HIDE DEF patching
  <1>6. Grown(scanned, putting)
    BY <1>5, EnsureRequestFacts, GrownTwice DEF WithRequest
  <1> HIDE DEF putting
  <1>7. Grown(scanned, columns)
    BY <1>5, <1>6
  <1>8. patched # {} => columns = patching
    OBVIOUS
  <1>9. ASSUME NEW names, names \subseteq AcceptedBy(d), NEW name \in Written(columns, names, rowid)
        PROVE  name # rowid /\ \E c \in Range(columns) : c.name = name /\ c.json \in AcceptedBy(d)
    <2> HIDE DEF columns
    <2>1. \E n \in names : \E c \in First(columns, {x \in Range(columns) : x.json = n}) : c.name = name
      BY <1>9 DEF Written
    <2>2. \A n \in names : \A c \in First(columns, {x \in Range(columns) : x.json = n}) :
            c \in Range(columns) /\ c.json = n
      BY DEF First, Range
    <2>3. name # rowid
      BY <1>9 DEF Written
    <2> QED BY <1>9, <2>1, <2>2, <2>3
  <1>10. updated = Written(columns, RequestProperties(item.operations, "patch"), rowid)
         \/ updated = Written(columns, RequestProperties(item.operations, "put"), rowid)
    BY <1>8
  <1> HIDE DEF columns, patched, updated
  <1>11. \A name \in inserted \cup updated :
           name # rowid /\ \E c \in Range(columns) : c.name = name /\ c.json \in AcceptedBy(d)
    <2>1. \A name \in inserted :
            name # rowid /\ \E c \in Range(columns) : c.name = name /\ c.json \in AcceptedBy(d)
      BY <1>3, <1>9
    <2>2. \A name \in updated :
            name # rowid /\ \E c \in Range(columns) : c.name = name /\ c.json \in AcceptedBy(d)
      BY <1>2, <1>9, <1>10
    <2> QED BY <2>1, <2>2
  <1> HIDE DEF inserted, deletes
  <1>12. Writable(d, columns, mutations)
    <2>1. CASE inserted # {} \/ updated # {} \/ deletes
      <3>1. mutations.rowid = rowid /\ mutations.write_columns = inserted \cup updated
        BY <2>1
      <3> QED BY <1>11, <3>1 DEF Writable
    <2> QED BY <2>1, NothingWritable
  <1> HIDE DEF mutations
  <1> QED BY <1>1, <1>7, <1>12, NothingWritable, GrownItself

\* The whole table: the columns of the rows and more, different names unless two are
\* alike, and a catch-all of another name.
LEMMA ImportedFacts ==
  ASSUME NEW d \in Documents
  PROVE  LET t == Imported(d)
             row == RowsOf(d.responses).row
         IN  /\ t.columns \in Columns
             /\ Range(ColumnsFromSchema(row)) \subseteq Range(t.columns)
             /\ Unique(t.columns) \/ Lookalike(t.columns)
             /\ Writable(d, t.columns, t.mutations)
             /\ t.map = {c \in Range(t.columns) : Mapped(c)}
             /\ t.attrs_defined <=> d.include_attrs \/ t.columns = <<>>
             /\ t.attrs_column = (IF d.include_attrs THEN AttrsName(t.columns) ELSE <<"attrs">>)
             /\ t.response_path = RowsOf(d.responses).response_path
  <1> DEFINE rows == RowsOf(d.responses)
             from == ColumnsFromSchema(rows.row)
             scanned == ScanColumns(d, rows.row)
             inferred == InferMutations(d, scanned)
             t == Imported(d)
  <1>1. /\ from \in Columns
        /\ Unique(from) \/ Lookalike(from)
        /\ Grown(from, scanned) /\ scanned \in Columns
    BY RowColumns, ScannedFacts DEF Grown
  <1>2. t = CreateSql(d.include_attrs, rows, inferred.columns, inferred.mutations)
    BY DEF Imported, Endpoint
  <1> HIDE DEF rows, from, scanned, t
  <1>3. Grown(scanned, inferred.columns) /\ Writable(d, inferred.columns, inferred.mutations)
    <2> DEFINE single == {names \in TemplateParameters(d.path) : Len(names) <= 1}
    <2>1. inferred = IF ~d.writable \/ single = {} THEN [columns |-> scanned, mutations |-> NoMutations]
                     ELSE Infer(d, CHOOSE names \in single : TRUE, scanned)
      BY DEF InferMutations
    <2> HIDE DEF inferred, single
    <2> QED BY <1>1, <2>1, InferFacts, GrownItself, NothingWritable
  <1> HIDE DEF inferred
  <1>4. /\ t.columns = inferred.columns /\ t.mutations = inferred.mutations
        /\ t.map = {c \in Range(t.columns) : Mapped(c)}
        /\ t.attrs_defined = (d.include_attrs \/ t.columns = <<>>)
        /\ t.attrs_column = (IF d.include_attrs THEN AttrsName(t.columns) ELSE <<"attrs">>)
        /\ t.response_path = rows.response_path
    BY <1>2 DEF CreateSql
  <1>5. Grown(from, t.columns)
    BY <1>1, <1>3, <1>4, GrownTwice
  <1>6. Unique(t.columns) \/ Lookalike(t.columns)
    BY <1>1, <1>5, StillAlike DEF Grown
  <1> QED BY <1>3, <1>4, <1>5, <1>6 DEF Grown, rows, from, t

\* attrs_name_is_not_a_column.
LEMMA AttrsApart ==
  ASSUME NEW columns \in Columns
  PROVE  AttrsName(columns) \notin Used(columns)
  BY FreshName, Fallbacks DEF AttrsName

-----------------------------------------------------------------------------
\* Answers.

\* The first element of a set: at most one, and one if there is any.
LEMMA FirstFacts ==
  ASSUME NEW sequence, NEW n \in Nat, DOMAIN sequence = 1..n, NEW set
  PROVE  /\ \A x, y \in First(sequence, set) : x = y
         /\ \A x \in First(sequence, set) : x \in set /\ x \in Range(sequence)
         /\ First(sequence, set) = {} => \A x \in Range(sequence) : x \notin set
  <1> DEFINE D == DOMAIN sequence
             found == {j \in D : sequence[j] \in set /\ \A k \in 1..(j - 1) : sequence[k] \notin set}
             T == {j \in D : sequence[j] \in set}
  <1>1. First(sequence, set) = {sequence[i] : i \in found}
    BY DEF First
  <1>2. \A i, j \in found : i = j
    <2> SUFFICES ASSUME NEW i \in found, NEW j \in found, i < j PROVE FALSE
      OBVIOUS
    <2> QED OBVIOUS
  <1>3. \A i \in found : sequence[i] \in set /\ sequence[i] \in Range(sequence)
    BY DEF Range
  <1>4. ASSUME NEW i \in D, sequence[i] \in set PROVE found # {}
    <2>1. T \subseteq Nat /\ i \in T
      BY <1>4
    <2>2. PICK m \in T : \A k \in T : m <= k
      BY <2>1, LeastNumber
    <2>3. m \in D /\ sequence[m] \in set /\ m \in Nat \ {0}
      BY <2>2
    <2>4. \A k \in 1..(m - 1) : k \in D /\ ~(m <= k)
      BY <2>3
    <2>5. \A k \in 1..(m - 1) : sequence[k] \notin set
      BY <2>2, <2>4
    <2> QED BY <2>3, <2>5
  <1> HIDE DEF found
  <1>5. \A x, y \in First(sequence, set) : x = y
    BY <1>1, <1>2
  <1>6. \A x \in First(sequence, set) : x \in set /\ x \in Range(sequence)
    BY <1>1, <1>3
  <1>7. ASSUME First(sequence, set) = {}, NEW x \in Range(sequence) PROVE x \notin set
    <2>1. PICK i \in D : sequence[i] = x
      BY DEF Range
    <2>2. found = {}
      BY <1>1, <1>7
    <2> QED BY <1>4, <2>1, <2>2
  <1> QED BY <1>5, <1>6, <1>7

\* An operation has one schema for its answers, or none.
LEMMA OneSchema ==
  ASSUME NEW d \in Documents
  PROVE  \A x, y \in ResponseSchemaOf(d.responses) : x = y
  <1> DEFINE responses == d.responses
             statuses == First(Statuses, DOMAIN responses)
  <1>1. \A status \in DOMAIN responses : responses[status] \in Seq(Range(responses[status]))
    BY DocumentsAssumption DEF IsDocument
  <1> HIDE DEF responses
  <1>2. DOMAIN Statuses = 1..9
    BY DEF Statuses
  <1>3. /\ \A x, y \in statuses : x = y
        /\ statuses \subseteq DOMAIN responses
    BY <1>2, FirstFacts
  <1> HIDE DEF statuses
  <1>4. ASSUME NEW content, content \in Seq(Range(content))
        PROVE  \A x, y \in MediaSchema(content) : x = y
    <2> DEFINE json == First(content, {media \in Range(content) : media.json})
               media_ == IF json # {} THEN json ELSE {Head(content)}
    <2>1. Len(content) \in Nat /\ DOMAIN content = 1..Len(content)
      BY <1>4
    <2>2. \A x, y \in json : x = y
      BY <2>1, FirstFacts
    <2>3. MediaSchema(content) = IF content = <<>> THEN {} ELSE {media.schema : media \in media_}
      BY DEF MediaSchema
    <2> HIDE DEF json
    <2>4. \A x, y \in media_ : x = y
      BY <2>2
    <2> HIDE DEF media_
    <2> QED BY <2>3, <2>4
  <1>5. ResponseSchemaOf(responses) = UNION {MediaSchema(responses[status]) : status \in statuses}
    BY DEF ResponseSchemaOf, statuses
  <1>6. \A status \in statuses : \A x, y \in MediaSchema(responses[status]) : x = y
    BY <1>1, <1>3, <1>4
  <1>7. ASSUME NEW x \in ResponseSchemaOf(responses), NEW y \in ResponseSchemaOf(responses)
        PROVE  x = y
    <2>1. PICK p \in statuses : x \in MediaSchema(responses[p])
      BY <1>5
    <2>2. PICK q \in statuses : y \in MediaSchema(responses[q])
      BY <1>5
    <2> QED BY <1>3, <1>6, <2>1, <2>2
  <1> QED BY <1>7 DEF responses

\* Where the rows of an answer are looked for, and where they were in its schema.
LEMMA WhereRowsAre ==
  ASSUME NEW raw, NEW answer \in Bodies(raw),
         \A key \in Range(EnvelopeKeys) \cap DOMAIN PropertiesOf(ResolveSchema(raw)) :
           TypeOf(ResolveSchema(PropertiesOf(ResolveSchema(raw))[key])) # "unknown",
         Selection(RowSchema(raw).response_path, answer) # {}
  PROVE  Selection(RowSchema(raw).response_path, answer) = {RowSchema(raw).response_path}
  <1> DEFINE schema == ResolveSchema(raw)
             properties == PropertiesOf(schema)
             Kind(key) == TypeOf(ResolveSchema(properties[key]))
             path == RowSchema(raw).response_path
             members == answer.members
             found == First(EnvelopeKeys, {key \in DOMAIN members : members[key] \in {"array", "object"}})
  <1>1. DOMAIN EnvelopeKeys = 1..7
    BY DEF EnvelopeKeys
  <1>2. \A key \in found : key \in Range(EnvelopeKeys) /\ key \in DOMAIN members /\ members[key] \in {"array", "object"}
    BY <1>1, FirstFacts
  <1>3. found = {} => AutoSelect(answer) = <<>>
    BY DEF AutoSelect
  <1>4. CASE TypeOf(schema) = "array"
    <2>1. path = <<>>
      BY <1>4 DEF RowSchema
    <2>2. members = <<>>
      BY <1>4 DEF Bodies
    <2>3. found = {}
      BY <1>2, <2>2
    <2> QED BY <1>3, <2>1, <2>3 DEF Selection
  <1>5. CASE TypeOf(schema) # "array" /\ Envelope(schema) = {}
    <2>1. path = <<>>
      BY <1>5 DEF RowSchema
    <2>2. \E names \in SUBSET DOMAIN properties :
            \E m \in [names -> {"array", "object", "scalar", "null"}] :
              /\ answer = [kind |-> "object", members |-> m]
              /\ \A n \in names : m[n] \in Kinds(ResolveSchema(properties[n]))
      BY <1>5 DEF Bodies
    <2>3. /\ DOMAIN members \subseteq DOMAIN properties
          /\ \A n \in DOMAIN members : members[n] \in Kinds(ResolveSchema(properties[n]))
      BY <2>2
    <2>4. \A key \in Range(EnvelopeKeys) :
            key \notin {k \in DOMAIN properties : Kind(k) \in {"array", "object"}}
      <3>1. First(EnvelopeKeys, {k \in DOMAIN properties : Kind(k) \in {"array", "object"}}) = {}
        BY <1>5 DEF Envelope
      <3> HIDE DEF properties, Kind
      <3> QED BY <1>1, <3>1, FirstFacts
    <2>5. ASSUME NEW key \in found PROVE FALSE
      <3>1. key \in Range(EnvelopeKeys) /\ key \in DOMAIN properties /\ key \in DOMAIN members
        BY <1>2, <2>3, <2>5
      <3>2. Kind(key) # "unknown" /\ Kind(key) \notin {"array", "object"}
        BY <2>4, <3>1
      <3>3. Kinds(ResolveSchema(properties[key])) = {"scalar", "null"}
        BY <3>2 DEF Kinds
      <3> QED BY <1>2, <2>3, <2>5, <3>1, <3>3
    <2> QED BY <1>3, <2>1, <2>5 DEF Selection
  <1>6. CASE TypeOf(schema) # "array" /\ Envelope(schema) # {}
    <2> DEFINE key == CHOOSE k \in Envelope(schema) : TRUE
    <2>1. path = <<key>>
      BY <1>6 DEF RowSchema, Enclosed
    <2> HIDE DEF key, path
    <2>2. path # <<>> /\ path \in {path}
      BY <2>1
    <2>3. Selection(path, answer) \subseteq {path}
      BY <2>2 DEF Selection
    <2> QED BY <2>3 DEF path
  <1> QED BY <1>4, <1>5, <1>6

-----------------------------------------------------------------------------
\* The steps.

\* The answer came from a schema of the operation, and the rows from the answer.
AnswerInv ==
  selected # {} =>
    /\ pc = "ready"
    /\ \E schema \in ResponseSchemaOf(document.responses) :
         body \in Bodies(schema) /\ selected = Selection(table.response_path, body)

\* Nothing is read but by an accepted table.
ReadInv ==
  \/ read = <<>>
  \/ pc = "ready" /\ read = Projected(table, fields)

\* The table is the one of the document from its import on, and it is ready to be read
\* only if it was accepted.
IInv ==
  /\ document \in Documents
  /\ Created => table = Imported(document)
  /\ pc = "ready" => Distinct(table) /\ Valid(table)
  /\ pc = "rejected" => ~(Distinct(table) /\ Valid(table))
  /\ AnswerInv
  /\ ReadInv

LEMMA InitInv == Init => IInv
  BY DEF Init, IInv, AnswerInv, ReadInv, Created

LEMMA StepInv == IInv /\ [Next]_vars => IInv'
<1> SUFFICES ASSUME IInv, [Next]_vars PROVE IInv'
  OBVIOUS
<1>1. CASE Import
  <2>1. /\ document' \in Documents /\ pc' = "create" /\ table' = Imported(document')
        /\ selected' = {} /\ read' = <<>>
    BY <1>1 DEF Import, IInv, AnswerInv, ReadInv
  <2> QED BY <2>1 DEF IInv, AnswerInv, ReadInv, Created
<1>2. CASE Create
  <2>1. /\ document' = document /\ table' = table /\ selected' = {} /\ read' = <<>>
        /\ document \in Documents /\ table = Imported(document)
        /\ pc' = IF Distinct(table) /\ Valid(table) THEN "ready" ELSE "rejected"
    BY <1>2 DEF Create, IInv, AnswerInv, ReadInv, Created
  <2>2. (Distinct(table) <=> Distinct(table)') /\ (Valid(table) <=> Valid(table)')
    BY <2>1 DEF Distinct, Valid
  <2> QED BY <2>1, <2>2 DEF IInv, AnswerInv, ReadInv, Created
<1>3. CASE FetchPage
  <2>1. /\ document' = document /\ table' = table /\ pc' = pc /\ pc = "ready"
        /\ fields' = fields /\ read' = read
    BY <1>3 DEF FetchPage
  <2>2. AnswerInv'
    <3>1. PICK schema \in ResponseSchemaOf(document.responses) : body' \in Bodies(schema)
      BY <1>3 DEF FetchPage
    <3>2. selected' = Selection(table.response_path, body')
      BY <1>3 DEF FetchPage
    <3> QED BY <2>1, <3>1, <3>2 DEF AnswerInv
  <2>3. ReadInv'
    BY <2>1 DEF IInv, ReadInv
  <2> QED BY <2>1, <2>2, <2>3 DEF IInv, Created
<1>4. CASE ProjectRow
  <2>1. /\ document' = document /\ table' = table /\ pc' = pc /\ pc = "ready"
        /\ body' = body /\ selected' = selected /\ read' = Projected(table, fields')
    BY <1>4 DEF ProjectRow, IInv, AnswerInv
  <2>2. AnswerInv' /\ ReadInv'
    BY <2>1 DEF IInv, AnswerInv, ReadInv
  <2> QED BY <2>1, <2>2 DEF IInv, Created
<1>5. CASE UNCHANGED vars
  BY <1>5 DEF vars, IInv, AnswerInv, ReadInv, Created
<1> QED BY <1>1, <1>2, <1>3, <1>4, <1>5 DEF Next

\* What the properties rest on holds in every reachable state.
LEMMA Invariance == Spec => []IInv
  BY InitInv, StepInv, PTL DEF Spec

-----------------------------------------------------------------------------
\* Properties.

LEMMA WritesDeclaredInv == IInv => WritesDeclared
  <1> SUFFICES ASSUME IInv, Created, NEW name \in table.mutations.write_columns
               PROVE  \E c \in Range(table.columns) :
                        c.name = name /\ c.json \in Accepted /\ name # table.mutations.rowid
    BY DEF WritesDeclared
  <1>1. Writable(document, table.columns, table.mutations)
    BY ImportedFacts DEF IInv
  <1>2. AcceptedBy(document) = Accepted
    BY DEF AcceptedBy, Accepted
  <1> QED BY <1>1, <1>2 DEF Writable

\* The columns that the import lets statements write are those of the properties of the
\* request bodies, and never the identity of a row.
THEOREM WritesAreDeclared == Spec => []WritesDeclared
  BY Invariance, WritesDeclaredInv, PTL

LEMMA RowsAsImportedInv == IInv => RowsAsImported
  <1> DEFINE schemas == {ResolveSchema(schema) : schema \in ResponseSchemaOf(document.responses)}
             unknown == {schema \in schemas : \E key \in Range(EnvelopeKeys) \cap DOMAIN PropertiesOf(schema) :
                           TypeOf(ResolveSchema(PropertiesOf(schema)[key])) = "unknown"}
  <1> SUFFICES ASSUME IInv, selected # {}, unknown = {} PROVE selected = {table.response_path}
    BY DEF RowsAsImported
  <1>1. PICK raw \in ResponseSchemaOf(document.responses) :
          body \in Bodies(raw) /\ selected = Selection(table.response_path, body)
    BY DEF IInv, AnswerInv
  <1>2. document \in Documents /\ table = Imported(document)
    BY DEF IInv, AnswerInv, Created
  <1>3. RowsOf(document.responses) = RowSchema(raw)
    <2>1. (CHOOSE schema \in ResponseSchemaOf(document.responses) : TRUE) = raw
      BY <1>1, <1>2, OneSchema
    <2> QED BY <1>1, <2>1 DEF RowsOf
  <1>4. table.response_path = RowSchema(raw).response_path
    BY <1>2, <1>3, ImportedFacts
  <1>5. ResolveSchema(raw) \in schemas
    BY <1>1
  <1>6. \A key \in Range(EnvelopeKeys) \cap DOMAIN PropertiesOf(ResolveSchema(raw)) :
          TypeOf(ResolveSchema(PropertiesOf(ResolveSchema(raw))[key])) # "unknown"
    BY <1>5
  <1> QED BY <1>1, <1>4, <1>6, WhereRowsAre

\* A scan takes its rows from where the importer found the schema of the columns.
THEOREM RowsAreAsImported == Spec => []RowsAsImported
  BY Invariance, RowsAsImportedInv, PTL

LEMMA ImportAcceptedInv == IInv => ImportAccepted
  <1> SUFFICES ASSUME IInv, pc = "rejected", ~Lookalike(table.columns),
                      \A name \in table.mutations.write_columns : ~Unasked(name)
               PROVE  FALSE
    BY DEF ImportAccepted
  <1> DEFINE row == RowsOf(document.responses).row
  <1>1. document \in Documents /\ table = Imported(document)
    BY DEF IInv, Created
  <1>2. /\ table.columns \in Columns /\ Unique(table.columns)
        /\ Writable(document, table.columns, table.mutations)
        /\ table.attrs_defined <=> document.include_attrs \/ table.columns = <<>>
        /\ table.attrs_column = (IF document.include_attrs THEN AttrsName(table.columns) ELSE <<"attrs">>)
    BY <1>1, ImportedFacts
  <1>3. \A name \in table.mutations.write_columns : name \in Used(table.columns) /\ name # table.mutations.rowid
    BY <1>2 DEF Writable, Used
  <1>4. document.include_attrs => table.attrs_column \notin Used(table.columns)
    BY <1>2, AttrsApart
  <1>5. table.columns = <<>> => Used(table.columns) = {}
    BY DEF Used, Range
  <1>6. Distinct(table)
    BY <1>2, <1>4, <1>5, UsedFacts DEF Distinct
  <1>7. table.attrs_column \notin table.mutations.write_columns
    <2>1. CASE document.include_attrs
      BY <1>3, <1>4, <2>1
    <2>2. CASE ~document.include_attrs
      BY <1>2, <2>2 DEF Unasked
    <2> QED BY <2>1, <2>2
  <1>8. Valid(table)
    BY <1>3, <1>7 DEF Valid
  <1> QED BY <1>6, <1>8 DEF IInv

\* PostgreSQL and the validator accept what the import generates, so that no table makes
\* the others of its document fail.
THEOREM ImportIsAccepted == Spec => []ImportAccepted
  BY Invariance, ImportAcceptedInv, PTL

LEMMA ReadsItsFieldInv == IInv => ReadsItsField
  <1> SUFFICES ASSUME IInv, NEW c \in DOMAIN read, ~Unasked(c.name),
                      fields = Readable(RowOf(document)) \/ c \in table.map
               PROVE  read[c] = IF c.json \in fields THEN c.json ELSE None
    BY DEF ReadsItsField
  <1> DEFINE row == RowsOf(document.responses).row
  <1>1. pc = "ready" /\ read = Projected(table, fields)
    BY DEF IInv, ReadInv
  <1>2. document \in Documents /\ table = Imported(document) /\ Distinct(table)
    BY <1>1 DEF IInv, Created
  <1>3. /\ table.columns \in Columns
        /\ Range(ColumnsFromSchema(row)) \subseteq Range(table.columns)
        /\ table.map = {x \in Range(table.columns) : Mapped(x)}
        /\ table.attrs_defined <=> document.include_attrs \/ table.columns = <<>>
        /\ table.attrs_column = (IF document.include_attrs THEN AttrsName(table.columns) ELSE <<"attrs">>)
    BY <1>2, ImportedFacts
  <1>4. /\ c \in Range(table.columns)
        /\ read[c] = IF c.name = table.attrs_column THEN "row" ELSE ColumnValue(table, c, fields)
    BY <1>1 DEF Projected
  <1>5. c.name \in Used(table.columns)
    BY <1>4 DEF Used
  <1>6. c.name # table.attrs_column
    <2>1. CASE document.include_attrs
      BY <1>3, <1>5, <2>1, AttrsApart
    <2>2. CASE ~document.include_attrs
      BY <1>3, <2>2 DEF Unasked
    <2> QED BY <2>1, <2>2
  <1>7. read[c] = ColumnValue(table, c, fields)
    BY <1>4, <1>6
  <1>8. CASE c \in table.map
    BY <1>7, <1>8 DEF ColumnValue
  <1>9. CASE c \notin table.map /\ fields = Readable(RowOf(document))
    <2> DEFINE own == {n \in fields \cap Plain : Sanitized[n] = c.name}
               like == {n \in fields : Sanitized[n] = c.name}
    <2>1. c.json \in Plain /\ c.name = Sanitized[c.json]
      BY <1>3, <1>4, <1>9 DEF Mapped
    <2>2. \A n \in own : n = c.json
      BY <2>1, NamesAssumption
    <2>3. read[c] = IF own # {} THEN CHOOSE n \in own : TRUE
                    ELSE IF Sorted(like) # <<>> THEN Head(Sorted(like)) ELSE None
      BY <1>7, <1>9 DEF ColumnValue
    <2>4. CASE c.json \in fields
      <3>1. own = {c.json}
        BY <2>1, <2>2, <2>4
      <3> HIDE DEF own, like
      <3> QED BY <2>3, <2>4, <3>1
    <2>5. CASE c.json \notin fields
      <3>1. own = {}
        BY <2>2, <2>5
      <3>2. ASSUME NEW n \in like \cap Names PROVE FALSE
        <4>1. n \in Readable(ResolveSchema(row)) \cap Names /\ Sanitized[n] = c.name /\ c.name # <<>>
          BY <1>9, <2>1, <3>2, NamesAssumption DEF RowOf
        <4>2. PICK x \in Range(ColumnsFromSchema(row)) :
                x.name = OrElse(Sanitized[n], "field") /\ x.json \in Readable(ResolveSchema(row))
          BY <4>1, RowColumns
        <4>3. x \in Range(table.columns) /\ x.name = c.name /\ x.json \in fields
          BY <1>3, <1>9, <4>1, <4>2 DEF OrElse, RowOf
        <4>4. Unique(table.columns)
          BY <1>2, <1>3, UsedFacts DEF Distinct
        <4>5. x = c
          BY <1>4, <4>3, <4>4 DEF Unique, Range
        <4> QED BY <2>5, <4>3, <4>5
      <3>3. Sorted(like) = <<>>
        <4>1. Sorted(like) \in Seq(Names) /\ Range(Sorted(like)) = {}
          BY <3>2, SortedFacts
        <4> HIDE DEF like
        <4>2. ASSUME Sorted(like) # <<>> PROVE FALSE
          <5>1. 1 \in DOMAIN Sorted(like)
            BY <4>1, <4>2
          <5> QED BY <4>1, <5>1 DEF Range
        <4> QED BY <4>2
      <3> HIDE DEF own, like
      <3> QED BY <2>3, <2>5, <3>1, <3>3
    <2> QED BY <2>4, <2>5
  <1> QED BY <1>8, <1>9

\* Every column reads the property it stands for.
THEOREM ColumnsReadTheirFields == Spec => []ReadsItsField
  BY Invariance, ReadsItsFieldInv, PTL

\* However names collide, and whatever parameters and requests add, each property that an
\* answer may have is a column of the table: none is lost between the resolved schema of
\* the rows and the statement (columns_from_schema to create_sql).
THEOREM RowPropertiesAreColumns ==
  Spec => [](Created => \A n \in Readable(RowOf(document)) \cap Names :
                          \E c \in Range(table.columns) : c.json = n)
  <1>1. ASSUME IInv, Created, NEW n \in Readable(RowOf(document)) \cap Names
        PROVE  \E c \in Range(table.columns) : c.json = n
    <2> DEFINE row == RowsOf(document.responses).row
    <2>1. Range(ColumnsFromSchema(row)) \subseteq Range(table.columns)
      BY <1>1, ImportedFacts DEF IInv
    <2>2. \E c \in Range(ColumnsFromSchema(row)) : c.json = n
      BY <1>1, RowColumns DEF RowOf
    <2> QED BY <2>1, <2>2
  <1>2. IInv => (Created => \A n \in Readable(RowOf(document)) \cap Names :
                              \E c \in Range(table.columns) : c.json = n)
    BY <1>1
  <1> QED BY <1>2, Invariance, PTL
=============================================================================
