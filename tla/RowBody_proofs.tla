--------------------------- MODULE RowBody_proofs ---------------------------
(***************************************************************************)
(* Proofs about RowBody: what the body of a mutation is made of, and which *)
(* row its address is of, for every table, every set of options and        *)
(* templates, every column_map and every cell of attrs.                    *)
(***************************************************************************)
EXTENDS RowBody, SequenceTheorems, WellFoundedInduction, TLAPS

(* The inductive invariant. *)

\* Behind the validator the options go together; the row has cells of the table's columns.
Options ==
  /\ IsOptions(table) /\ table.rowid_column \in {"", Identity}
  /\ DOMAIN table.column_map \subseteq Columns /\ Range(table.column_map) \subseteq Paths
  /\ statement \in Kinds
  /\ DOMAIN row \subseteq Columns \ {Attrs} /\ \A c \in DOMAIN row : row[c] \in Objects => row[c] # Nothing
  /\ statement = "delete" => DOMAIN row = {}
  /\ attrs \in IF statement = "delete" THEN {Null} ELSE Objects \cup {Null, NotAnObject}
  /\ pc \in {"begin", "columns", "send", "stored"} => OptionsAccepted(table)
  /\ pc \in {"columns", "send", "stored"} => table.rowid_column = Identity

Writing == pc \in {"columns", "send", "stored"} /\ statement # "delete"

\* The columns still to write are the last ones.
Rest ==
  /\ left \in Seq(Columns)
  /\ pc # "columns" /\ left # <<>> => pc = "failed"
  /\ Writing /\ table.write_mode = "attrs" => left = <<>>
  /\ Writing /\ table.write_mode # "attrs" =>
       /\ Len(left) <= Len(ColumnOrder)
       /\ \A i \in 1..Len(left) : left[i] = ColumnOrder[Len(ColumnOrder) - Len(left) + i]

\* The positions written so far.
Taken ==
  IF table.write_mode = "attrs" THEN {}
  ELSE {i \in 1..(Len(ColumnOrder) - Len(left)) : ~Skipped(ColumnOrder[i])}

Goal(i) == Target(ColumnOrder[i])

Placed(i) == Leaves(Goal(i), row[ColumnOrder[i]])

FromAttrs == table.write_mode \in {"attrs", "merge"} /\ attrs \in Objects

Accounted ==
  Writing =>
    \A p \in DOMAIN body :
      \/ \E i \in Taken : p \in DOMAIN Placed(i) /\ body[p] = Placed(i)[p]
      \/ FromAttrs /\ p \in DOMAIN attrs /\ body[p] = attrs[p]

Kept ==
  Writing /\ FromAttrs =>
    \A p \in DOMAIN attrs :
      \/ p \in DOMAIN body /\ body[p] = attrs[p]
      \/ \E i \in Taken : IsPrefix(Goal(i), p)

\* At and below the place of a position there is what was written, and nothing else.
Stands(i) ==
  /\ \A p \in DOMAIN Placed(i) : p \in DOMAIN body /\ body[p] = Placed(i)[p]
  /\ \A p \in DOMAIN body : IsPrefix(Goal(i), p) => p \in DOMAIN Placed(i)

\* A position goes above the place of another, or into the object there.
Disturbs(j, i) ==
  \/ IsPrefix(Goal(j), Goal(i))
  \/ row[ColumnOrder[i]] \in Objects /\ IsPrefix(Goal(i), Goal(j))

Readable == Writing => \A i \in Taken : Stands(i) \/ \E j \in Taken : i < j /\ Disturbs(j, i)

Filled ==
  /\ pc \in {"validate", "begin"} => body = Nothing
  /\ pc = "columns" => statement # "delete"
  /\ pc \in {"send", "stored"} => ((body = Nothing) <=> statement = "delete")

IInv == Options /\ IsObject(body) /\ Rest /\ Filled /\ Accounted /\ Kept /\ Readable

-----------------------------------------------------------------------------

LEMMA ColumnFacts ==
  /\ Columns \subseteq STRING
  /\ \A c \in Columns : \E i \in 1..Len(ColumnOrder) : ColumnOrder[i] = c
  /\ \A i \in 1..Len(ColumnOrder) : ColumnOrder[i] \in Columns
  /\ ColumnOrder \in Seq(Columns) /\ Len(ColumnOrder) \in Nat
<1>1. /\ DOMAIN ColumnOrder = 1..Len(ColumnOrder) /\ Len(ColumnOrder) \in Nat
      /\ \A i \in 1..Len(ColumnOrder) : ColumnOrder[i] \in STRING
  BY ColumnsAssumption
<1>2. Columns = {ColumnOrder[i] : i \in 1..Len(ColumnOrder)}
  BY <1>1 DEF Columns, Range
<1>3. ColumnOrder \in Seq(Columns)
  BY <1>1, <1>2, ColumnsAssumption
<1>4. QED BY <1>1, <1>2, <1>3

\* Prefixes.
LEMMA PrefixElements ==
  ASSUME NEW p \in Seq(STRING), NEW q \in Seq(STRING)
  PROVE  IsPrefix(p, q) <=> Len(p) <= Len(q) /\ \A i \in 1..Len(p) : p[i] = q[i]
<1>1. Len(p) \in Nat /\ Len(q) \in Nat /\ SubSeq(p, 1, Len(p)) = p
  BY SubSeqFull
<1>2. ASSUME Len(p) <= Len(q)
      PROVE  /\ SubSeq(q, 1, Len(p)) \in Seq(STRING) /\ Len(SubSeq(q, 1, Len(p))) = Len(p)
             /\ \A i \in 1..Len(p) : SubSeq(q, 1, Len(p))[i] = q[i]
  <2> PICK s, l : s = SubSeq(q, 1, l) /\ l = Len(p)
    OBVIOUS
  <2>1. l \in Int /\ 1 \in Int /\ l \in Nat /\ \A i \in 1..l : q[i] \in STRING
    BY <1>1, <1>2
  <2>2. /\ SubSeq(q, 1, l) \in Seq(STRING) /\ Len(SubSeq(q, 1, l)) = IF 1 <= l THEN l - 1 + 1 ELSE 0
        /\ \A i \in 1..(l - 1 + 1) : SubSeq(q, 1, l)[i] = q[1 + i - 1]
    BY <2>1, SubSeqProperties
  <2>3. l - 1 + 1 = l /\ (IF 1 <= l THEN l - 1 + 1 ELSE 0) = l /\ \A i \in 1..l : 1 + i - 1 = i
    BY <2>1
  <2>4. s \in Seq(STRING) /\ Len(s) = l /\ \A i \in 1..l : s[i] = q[i]
    BY <2>2, <2>3
  <2>5. QED BY <2>4
<1>3. CASE Len(p) <= Len(q)
  <2>1. p = SubSeq(q, 1, Len(p)) <=> \A i \in 1..Len(p) : p[i] = q[i]
    BY <1>2, <1>3, SeqEqual
  <2>2. QED BY <1>1, <1>3, <2>1 DEF IsPrefix
<1>4. QED BY <1>3 DEF IsPrefix

LEMMA PrefixOfItself == ASSUME NEW p \in Seq(STRING) PROVE IsPrefix(p, p)
  BY DEF IsPrefix

LEMMA PrefixTransitive ==
  ASSUME NEW p \in Seq(STRING), NEW q \in Seq(STRING), NEW r \in Seq(STRING), IsPrefix(p, q), IsPrefix(q, r)
  PROVE  IsPrefix(p, r)
  BY PrefixElements

LEMMA PrefixesCompare ==
  ASSUME NEW p \in Seq(STRING), NEW q \in Seq(STRING), NEW r \in Seq(STRING), IsPrefix(p, r), IsPrefix(q, r)
  PROVE  IsPrefix(p, q) \/ IsPrefix(q, p)
<1>1. Len(p) \in Nat /\ Len(q) \in Nat
  OBVIOUS
<1>2. CASE Len(p) <= Len(q)
  BY <1>1, <1>2, PrefixElements
<1>3. CASE Len(q) <= Len(p)
  BY <1>1, <1>3, PrefixElements
<1>4. QED BY <1>1, <1>2, <1>3

\* A path below another one: what is above, and what is left below.
LEMMA PathBelow ==
  ASSUME NEW p \in Seq(STRING), NEW q \in Seq(STRING)
  PROVE  /\ p \o q \in Seq(STRING) /\ IsPrefix(p, p \o q)
         /\ Len(p \o q) = Len(p) + Len(q)
         /\ SubSeq(p \o q, Len(p) + 1, Len(p \o q)) = q
         /\ \A o \in Seq(STRING) : IsPrefix(p \o q, p \o o) => IsPrefix(q, o)
<1> PICK s : s = p \o q
  OBVIOUS
<1>1. Len(p) \in Nat /\ Len(q) \in Nat
  OBVIOUS
<1>2. /\ s \in Seq(STRING) /\ Len(s) = Len(p) + Len(q)
      /\ \A i \in 1..(Len(p) + Len(q)) : s[i] = IF i <= Len(p) THEN p[i] ELSE q[i - Len(p)]
  BY ConcatProperties
<1>3. IsPrefix(p, s)
  <2>1. Len(p) <= Len(s) /\ \A i \in 1..Len(p) : i \in 1..(Len(p) + Len(q)) /\ i <= Len(p)
    BY <1>1, <1>2
  <2>2. \A i \in 1..Len(p) : p[i] = s[i]
    BY <1>2, <2>1
  <2>3. QED BY <1>2, <2>1, <2>2, PrefixElements
<1>4. \A i \in 1..Len(q) : Len(p) + i \in 1..(Len(p) + Len(q)) /\ ~(Len(p) + i <= Len(p)) /\ Len(p) + i - Len(p) = i
  BY <1>1
<1>5. \A i \in 1..Len(q) : s[Len(p) + i] = q[i]
  BY <1>2, <1>4
<1>6. SubSeq(s, Len(p) + 1, Len(s)) = q
  <2> PICK m, n, rest : m = Len(p) + 1 /\ n = Len(s) /\ rest = SubSeq(s, m, n)
    OBVIOUS
  <2>1. m \in Int /\ n \in Int /\ m >= 1 /\ n - m + 1 = Len(q) /\ (IF m <= n THEN n - m + 1 ELSE 0) = Len(q)
    BY <1>1, <1>2
  <2>2. \A i \in m..n : s[i] \in STRING
    BY <1>2, <2>1
  <2>3. /\ SubSeq(s, m, n) \in Seq(STRING)
        /\ Len(SubSeq(s, m, n)) = IF m <= n THEN n - m + 1 ELSE 0
        /\ \A i \in 1..(n - m + 1) : SubSeq(s, m, n)[i] = s[m + i - 1]
    BY <2>1, <2>2, SubSeqProperties
  <2>4. \A i \in 1..Len(q) : m + i - 1 = Len(p) + i
    BY <1>1
  <2>5. rest \in Seq(STRING) /\ Len(rest) = Len(q) /\ \A i \in 1..Len(q) : rest[i] = q[i]
    BY <1>5, <2>1, <2>3, <2>4
  <2>6. rest = q
    BY <2>5, SeqEqual
  <2>7. QED BY <2>6
<1>7. ASSUME NEW o \in Seq(STRING), IsPrefix(s, p \o o)
      PROVE  IsPrefix(q, o)
  <2> PICK z : z = p \o o
    OBVIOUS
  <2>1. /\ z \in Seq(STRING) /\ Len(z) = Len(p) + Len(o) /\ Len(o) \in Nat
        /\ \A i \in 1..(Len(p) + Len(o)) : z[i] = IF i <= Len(p) THEN p[i] ELSE o[i - Len(p)]
    BY ConcatProperties
  <2>2. Len(s) <= Len(z) /\ \A i \in 1..Len(s) : s[i] = z[i]
    BY <1>2, <1>7, <2>1, PrefixElements
  <2>3. Len(q) <= Len(o)
    BY <1>1, <1>2, <2>1, <2>2
  <2>4. ASSUME NEW i \in 1..Len(q)
        PROVE  q[i] = o[i]
    <3>1. Len(p) + i \in 1..(Len(p) + Len(o)) /\ Len(p) + i \in 1..Len(s)
      BY <1>1, <1>2, <2>1, <2>3
    <3>2. z[Len(p) + i] = o[i]
      BY <1>4, <2>1, <3>1
    <3>3. QED BY <1>5, <2>2, <3>1, <3>2
  <2>5. QED BY <2>3, <2>4, PrefixElements
<1>8. QED BY <1>2, <1>3, <1>6, <1>7

LEMMA EmptyObject == DOMAIN Nothing = {} /\ IsObject(Nothing)
<1>1. DOMAIN Nothing = {}
  BY DEF Nothing
<1>2. Nothing = [p \in DOMAIN Nothing |-> Nothing[p]]
  BY DEF Nothing
<1>3. QED BY <1>1, <1>2 DEF IsObject

\* An object with no leaf is the empty one.
LEMMA NoLeaves == ASSUME NEW object, IsObject(object), object # Nothing PROVE DOMAIN object # {}
<1> SUFFICES ASSUME DOMAIN object = {} PROVE FALSE
  OBVIOUS
<1>1. object = [p \in {} |-> object[p]] /\ Nothing = [p \in {} |-> Nothing[p]]
  BY EmptyObject DEF IsObject
<1>2. [p \in {} |-> object[p]] = [p \in {} |-> Nothing[p]]
  OBVIOUS
<1>3. QED BY <1>1, <1>2

IsCell(value) == value \in Objects => IsObject(value) /\ value # Nothing

\* What a value consists of at its place.
LEMMA LeavesFacts ==
  ASSUME NEW path \in Paths, NEW value, IsCell(value)
  PROVE  LET leaves == Leaves(path, value) IN
         /\ IsObject(leaves) /\ DOMAIN leaves # {}
         /\ \A p \in DOMAIN leaves : p \in Paths /\ IsPrefix(path, p)
         /\ value \notin Objects => DOMAIN leaves = {path} /\ leaves[path] = value
         /\ value \in Objects =>
              /\ DOMAIN leaves = {path \o q : q \in DOMAIN value} /\ path \notin DOMAIN leaves
              /\ \A q \in DOMAIN value : leaves[path \o q] = value[q]
<1> PICK leaves : leaves = Leaves(path, value)
  OBVIOUS
<1>1. path \in Seq(STRING) /\ path # <<>>
  BY DEF Paths
<1>2. CASE value \notin Objects
  <2>1. leaves = [p \in {path} |-> value]
    BY <1>2 DEF Leaves
  <2>2. DOMAIN leaves = {path} /\ leaves[path] = value
    BY <2>1
  <2>3. leaves = [p \in DOMAIN leaves |-> leaves[p]]
    BY <2>1
  <2>4. IsObject(leaves)
    BY <2>2, <2>3 DEF IsObject
  <2>5. QED BY <1>1, <1>2, <2>2, <2>4, PrefixOfItself
<1>3. CASE value \in Objects
  <2>1. IsObject(value) /\ DOMAIN value # {} /\ DOMAIN value \subseteq Paths
    BY <1>3, NoLeaves DEF IsCell, IsObject
  <2>2. leaves = [p \in {path \o q : q \in DOMAIN value} |-> value[SubSeq(p, Len(path) + 1, Len(p))]]
    BY <1>3 DEF Leaves
  <2>3. DOMAIN leaves = {path \o q : q \in DOMAIN value}
    BY <2>2
  <2>4. leaves = [p \in DOMAIN leaves |-> leaves[p]]
    BY <2>2
  <2>5. ASSUME NEW q \in DOMAIN value
        PROVE  /\ q \in Seq(STRING) /\ Len(q) > 0 /\ Len(path \o q) = Len(path) + Len(q)
               /\ path \o q \in Paths /\ IsPrefix(path, path \o q)
               /\ leaves[path \o q] = value[q]
               /\ \A r \in DOMAIN value : IsPrefix(path \o q, path \o r) => IsPrefix(q, r)
    <3>1. q \in Seq(STRING) /\ q # <<>> /\ \A r \in DOMAIN value : r \in Seq(STRING)
      BY <2>1 DEF Paths
    <3>2. /\ path \o q \in Seq(STRING) /\ IsPrefix(path, path \o q) /\ Len(path \o q) = Len(path) + Len(q)
          /\ SubSeq(path \o q, Len(path) + 1, Len(path \o q)) = q
          /\ \A r \in Seq(STRING) : IsPrefix(path \o q, path \o r) => IsPrefix(q, r)
      BY <1>1, <3>1, PathBelow
    <3>3. Len(q) > 0 /\ Len(path) \in Nat /\ Len(q) \in Nat
      BY <1>1, <3>1, EmptySeq
    <3>4. path \o q # <<>>
      <4>1. Len(path \o q) > 0 /\ Len(<<>>) = 0
        BY <3>2, <3>3, EmptySeq
      <4>2. QED BY <4>1
    <3> PICK below : below = path \o q
      OBVIOUS
    <3>5. below \in DOMAIN leaves
      BY <2>3
    <3>6. leaves[below] = value[SubSeq(below, Len(path) + 1, Len(below))]
      BY <2>2, <2>3, <3>5
    <3>7. QED BY <3>1, <3>2, <3>3, <3>4, <3>6 DEF Paths
  <2>6. IsObject(leaves)
    <3>1. DOMAIN leaves \subseteq Paths
      BY <2>3, <2>5
    <3>2. ASSUME NEW q \in DOMAIN value, NEW r \in DOMAIN value, IsPrefix(path \o q, path \o r) PROVE q = r
      BY <2>1, <2>5, <3>2 DEF IsObject
    <3>3. ASSUME NEW p \in DOMAIN leaves, NEW o \in DOMAIN leaves, IsPrefix(p, o) PROVE p = o
      <4>1. PICK q \in DOMAIN value : p = path \o q
        BY <2>3
      <4>2. PICK r \in DOMAIN value : o = path \o r
        BY <2>3
      <4>3. IsPrefix(path \o q, path \o r)
        BY <3>3, <4>1, <4>2
      <4>4. q = r
        BY <3>2, <4>3
      <4>5. QED BY <4>1, <4>2, <4>4
    <3>4. QED BY <2>4, <3>1, <3>3 DEF IsObject
  <2>7. path \notin DOMAIN leaves
    <3> SUFFICES ASSUME NEW q \in DOMAIN value, path = path \o q PROVE FALSE
      BY <2>3
    <3>1. Len(path) = Len(path) + Len(q) /\ Len(q) > 0
      BY <2>5
    <3>2. Len(path) \in Nat /\ Len(q) \in Nat
      BY <1>1, <2>5
    <3>3. QED BY <3>1, <3>2
  <2>8. DOMAIN leaves # {}
    BY <2>1, <2>3
  <2>9. \A p \in DOMAIN leaves : p \in Paths /\ IsPrefix(path, p)
    BY <2>3, <2>5
  <2>10. \A q \in DOMAIN value : leaves[path \o q] = value[q]
    BY <2>5
  <2>11. QED BY <1>3, <2>3, <2>6, <2>7, <2>8, <2>9, <2>10
<1>4. QED BY <1>2, <1>3

\* New leaves, nothing in the way: an object again.
LEMMA InsertedObject ==
  ASSUME NEW object, NEW path \in Paths, NEW value, IsCell(value), IsObject(object), ~Conflicts(object, path)
  PROVE  LET new == Inserted(object, path, value)
             leaves == Leaves(path, value) IN
         /\ IsObject(new)
         /\ \A p \in DOMAIN leaves : p \in DOMAIN new /\ new[p] = leaves[p]
         /\ \A p \in DOMAIN new :
              p \in DOMAIN leaves \/ (p \in DOMAIN object /\ ~IsPrefix(path, p) /\ new[p] = object[p])
         /\ \A p \in DOMAIN object :
              IsPrefix(path, p) \/ (p \in DOMAIN new /\ new[p] = object[p])
<1> PICK new, leaves : new = Inserted(object, path, value) /\ leaves = Leaves(path, value)
  OBVIOUS
<1>1. new = [p \in {q \in DOMAIN object : ~IsPrefix(path, q)} \cup DOMAIN leaves |->
               IF p \in DOMAIN leaves THEN leaves[p] ELSE object[p]]
  BY DEF Inserted
<1>2. /\ DOMAIN new = {q \in DOMAIN object : ~IsPrefix(path, q)} \cup DOMAIN leaves
      /\ \A p \in DOMAIN new : new[p] = IF p \in DOMAIN leaves THEN leaves[p] ELSE object[p]
      /\ new = [p \in DOMAIN new |-> new[p]]
  BY <1>1
<1>3. DOMAIN object \subseteq Paths /\ \A p, q \in DOMAIN object : IsPrefix(p, q) => p = q
  BY DEF IsObject
<1>4. /\ DOMAIN leaves \subseteq Paths /\ \A p, q \in DOMAIN leaves : IsPrefix(p, q) => p = q
      /\ \A p \in DOMAIN leaves : IsPrefix(path, p)
  BY LeavesFacts DEF IsObject
<1>5. \A p \in DOMAIN object : IsPrefix(p, path) => p = path
  BY DEF Conflicts
<1>6. DOMAIN new \subseteq Paths /\ path \in Seq(STRING) /\ \A p \in Paths : p \in Seq(STRING)
  BY <1>2, <1>3, <1>4 DEF Paths
<1>7. ASSUME NEW p \in DOMAIN new, NEW q \in DOMAIN new, IsPrefix(p, q)
      PROVE  p = q
  <2>1. CASE p \in DOMAIN leaves /\ q \in DOMAIN leaves
    BY <1>4, <1>7, <2>1
  <2>2. CASE p \in DOMAIN leaves /\ q \notin DOMAIN leaves
    <3>1. IsPrefix(path, q)
      BY <1>4, <1>6, <1>7, <2>2, PrefixTransitive
    <3>2. QED BY <1>2, <2>2, <3>1
  <2>3. CASE p \notin DOMAIN leaves /\ q \in DOMAIN leaves
    <3>1. p \in DOMAIN object /\ ~IsPrefix(path, p) /\ IsPrefix(path, q)
      BY <1>2, <1>4, <2>3
    <3>2. IsPrefix(p, path)
      BY <1>6, <1>7, <3>1, PrefixesCompare
    <3>3. p = path
      BY <1>5, <3>1, <3>2
    <3>4. QED BY <1>6, <3>1, <3>3, PrefixOfItself
  <2>4. CASE p \notin DOMAIN leaves /\ q \notin DOMAIN leaves
    BY <1>2, <1>3, <1>7, <2>4
  <2>5. QED BY <2>1, <2>2, <2>3, <2>4
<1>8. IsObject(new)
  BY <1>2, <1>6, <1>7 DEF IsObject
<1>9. ASSUME NEW p \in DOMAIN object, ~IsPrefix(path, p)
      PROVE  p \in DOMAIN new /\ new[p] = object[p]
  BY <1>2, <1>4, <1>9
<1>10. QED BY <1>2, <1>8, <1>9

\* A value that stands at its place, with nothing else below it, is what is found there.
LEMMA FoundValue ==
  ASSUME NEW object, NEW path \in Paths, NEW value, IsCell(value),
         \A p \in DOMAIN Leaves(path, value) : p \in DOMAIN object /\ object[p] = Leaves(path, value)[p],
         \A p \in DOMAIN object : IsPrefix(path, p) => p \in DOMAIN Leaves(path, value)
  PROVE  Found(object, path) = value
<1> PICK leaves : leaves = Leaves(path, value)
  OBVIOUS
<1>0. path \in Seq(STRING)
  BY DEF Paths
<1>1. CASE value \notin Objects
  <2>1. DOMAIN leaves = {path} /\ leaves[path] = value
    BY <1>1, LeavesFacts
  <2>2. QED BY <2>1 DEF Found
<1>2. CASE value \in Objects
  <2>1. /\ DOMAIN leaves = {path \o q : q \in DOMAIN value} /\ path \notin DOMAIN leaves
        /\ \A q \in DOMAIN value : leaves[path \o q] = value[q]
        /\ \A p \in DOMAIN leaves : IsPrefix(path, p)
    BY <1>2, LeavesFacts
  <2>2. IsObject(value)
    BY <1>2 DEF IsCell
  <2>3. path \notin DOMAIN object
    BY <1>0, <2>1, PrefixOfItself
  <2> DEFINE below == {p \in DOMAIN object : IsPrefix(path, p)}
             rests == {SubSeq(q, Len(path) + 1, Len(q)) : q \in below}
  <2>4. below = {path \o q : q \in DOMAIN value}
    BY <2>1
  <2>5. \A q \in DOMAIN value : SubSeq(path \o q, Len(path) + 1, Len(path \o q)) = q
    <3> TAKE q \in DOMAIN value
    <3>1. q \in Seq(STRING)
      BY <2>2 DEF IsObject, Paths
    <3>2. QED BY <1>0, <3>1, PathBelow
  <2>6. Found(object, path) = [p \in rests |-> object[path \o p]]
    BY <2>3 DEF Found
  <2> HIDE DEF below
  <2>7. rests = DOMAIN value
    <3>1. ASSUME NEW r \in rests PROVE r \in DOMAIN value
      <4>1. PICK q \in below : r = SubSeq(q, Len(path) + 1, Len(q))
        OBVIOUS
      <4>2. PICK o \in DOMAIN value : q = path \o o
        BY <2>4
      <4>3. r = SubSeq(path \o o, Len(path) + 1, Len(path \o o))
        BY <4>1, <4>2
      <4>4. QED BY <2>5, <4>3
    <3>2. ASSUME NEW q \in DOMAIN value PROVE q \in rests
      <4>1. path \o q \in below
        BY <2>4
      <4>2. QED BY <2>5, <4>1
    <3>3. QED BY <3>1, <3>2
  <2> HIDE DEF rests
  <2>8. \A q \in DOMAIN value : object[path \o q] = value[q]
    BY <2>1
  <2>9. Found(object, path) = [p \in DOMAIN value |-> value[p]]
    BY <2>6, <2>7, <2>8
  <2>10. QED BY <2>2, <2>9 DEF IsObject
<1>3. QED BY <1>1, <1>2

-----------------------------------------------------------------------------

LEMMA InitIInv == Init => IInv
<1> SUFFICES ASSUME Init PROVE IInv
  OBVIOUS
<1>1. Options
  <2>1. PICK job \in Jobs : table = job.table /\ statement = job.statement /\ rowid = job.rowid
    BY DEF Init
  <2>2. /\ IsOptions(table) /\ table.rowid_column \in {"", Identity}
        /\ DOMAIN table.column_map \subseteq Columns /\ Range(table.column_map) \subseteq Paths
        /\ statement \in Kinds
    BY <2>1, JobsAssumption
  <2>3. PICK columns \in IF statement = "delete" THEN {{}} ELSE SUBSET (Columns \ {Attrs}) :
          row \in {r \in [columns -> UNION {CellsOf(c) : c \in columns}] : \A c \in columns : r[c] \in CellsOf(c)}
    BY DEF Init
  <2>4. /\ DOMAIN row \subseteq Columns \ {Attrs} /\ (statement = "delete" => DOMAIN row = {})
        /\ \A c \in DOMAIN row : row[c] \in Objects => row[c] # Nothing
    <3>1. DOMAIN row = columns /\ \A c \in columns : row[c] \in CellsOf(c)
      BY <2>3
    <3>2. ASSUME NEW c, NEW value \in CellsOf(c), value \in Objects PROVE value # Nothing
      BY <3>2, ObjectsAssumption DEF CellsOf
    <3>3. QED BY <2>3, <3>1, <3>2
  <2>5. attrs \in IF statement = "delete" THEN {Null} ELSE Objects \cup {Null, NotAnObject}
    BY DEF Init
  <2>6. pc = "validate"
    BY DEF Init
  <2>7. QED BY <2>2, <2>4, <2>5, <2>6 DEF Options
<1>2. pc = "validate" /\ left = <<>> /\ body = Nothing
  BY DEF Init
<1>3. QED BY <1>1, <1>2, EmptyObject DEF IInv, Rest, Filled, Accounted, Kept, Readable, Writing

LEMMA CreateTableIInv == IInv /\ CreateTable => IInv'
<1> SUFFICES ASSUME IInv, CreateTable PROVE IInv'
  OBVIOUS
<1>1. /\ pc = "validate" /\ pc' \in {"begin", "rejected"} /\ (pc' = "begin" => OptionsAccepted(table))
      /\ UNCHANGED <<table, statement, rowid, row, attrs, left, body, address>>
  BY DEF CreateTable, given
<1>2. Options'
  BY <1>1 DEF IInv, Options
<1>3. IsObject(body)' /\ Rest' /\ Filled' /\ ~Writing'
  BY <1>1 DEF IInv, Rest, Filled, Writing
<1>4. QED BY <1>2, <1>3 DEF IInv, Accounted, Kept, Readable

\* What the body starts from.
LEMMA StartFacts ==
  ASSUME Options, statement # "delete", Start(table.write_mode, attrs) # NotAnObject
  PROVE  LET start == Start(table.write_mode, attrs) IN
         /\ IsObject(start)
         /\ FromAttrs => start = attrs
         /\ ~FromAttrs => start = Nothing
<1>1. attrs \in Objects \cup {Null, NotAnObject} /\ table.write_mode \in {"", "columns", "attrs", "merge"}
  BY DEF Options, IsOptions
<1>2. CASE table.write_mode \in {"", "columns"}
  BY <1>2, EmptyObject, ObjectsAssumption DEF Start, FromAttrs
<1>3. CASE table.write_mode \in {"attrs", "merge"} /\ attrs = Null
  BY <1>3, EmptyObject, ObjectsAssumption DEF Start, FromAttrs
<1>4. CASE table.write_mode \in {"attrs", "merge"} /\ attrs # Null
  BY <1>1, <1>4, ObjectsAssumption DEF Start, FromAttrs
<1>5. QED BY <1>1, <1>2, <1>3, <1>4

LEMMA BeginIInv == IInv /\ Begin => IInv'
<1> SUFFICES ASSUME IInv, Begin PROVE IInv'
  OBVIOUS
<1> DEFINE start == Start(table.write_mode, attrs)
<1>1. /\ pc = "begin" /\ UNCHANGED <<table, statement, rowid, row, attrs>>
      /\ left = <<>> /\ body = Nothing
  BY DEF Begin, given, IInv, Rest, Filled
<1>2. CASE pc' = "failed" /\ UNCHANGED <<left, body>>
  BY <1>1, <1>2 DEF IInv, Options, Rest, Filled, Accounted, Kept, Readable, Writing
<1>3. ASSUME Possible, pc' \in {"send", "columns"}
      PROVE  Options'
  <2>1. OptionsAccepted(table) /\ table.rowid_column \in {"", Identity}
    BY <1>1 DEF IInv, Options
  <2>2. DOMAIN table.endpoints # {}
    BY <1>3 DEF Possible
  <2>3. table.rowid_column = Identity
    BY <2>1, <2>2 DEF OptionsAccepted
  <2>4. QED BY <1>1, <1>3, <2>1, <2>3 DEF IInv, Options
<1>4. CASE Possible /\ statement = "delete" /\ pc' = "send" /\ UNCHANGED <<left, body>>
  <2>1. Options' /\ ~Writing'
    BY <1>1, <1>3, <1>4 DEF Writing
  <2>2. IsObject(body)' /\ Rest' /\ Filled'
    BY <1>1, <1>4, <2>1 DEF IInv, Rest, Filled
  <2>3. QED BY <2>1, <2>2 DEF IInv, Accounted, Kept, Readable
<1>5. CASE /\ Possible /\ statement # "delete" /\ start # NotAnObject
           /\ pc' = "columns" /\ body' = start
           /\ left' = IF table.write_mode = "attrs" THEN <<>> ELSE ColumnOrder
  <2>1. Options' /\ Options
    BY <1>3, <1>5 DEF IInv
  <2>2. IsObject(body') /\ (FromAttrs => body' = attrs) /\ (~FromAttrs => body' = Nothing)
    BY <1>5, <2>1, StartFacts
  <2>3. Rest'
    <3>1. CASE table.write_mode = "attrs"
      BY <1>1, <1>5, <3>1 DEF Rest
    <3>2. CASE table.write_mode # "attrs"
      <4>1. left' = ColumnOrder /\ ColumnOrder \in Seq(Columns) /\ Len(ColumnOrder) \in Nat
        BY <1>5, <3>2, ColumnFacts
      <4>2. \A i \in 1..Len(ColumnOrder) : Len(ColumnOrder) - Len(ColumnOrder) + i = i
        BY <4>1
      <4>3. QED BY <1>1, <1>5, <3>2, <4>1, <4>2 DEF Rest
    <3>3. QED BY <3>1, <3>2
  <2>4. Taken' = {} /\ Filled' /\ (FromAttrs' <=> FromAttrs)
    BY <1>1, <1>5, ColumnFacts DEF Taken, Filled, FromAttrs
  <2>5. Accounted' /\ Kept' /\ Readable'
    BY <1>1, <2>2, <2>4, EmptyObject DEF Accounted, Kept, Readable
  <2>6. QED BY <2>1, <2>2, <2>3, <2>4, <2>5 DEF IInv, IsObject
<1>6. QED BY <1>2, <1>4, <1>5 DEF Begin

\* One more position, written or not.
LEMMA OneMore ==
  ASSUME IInv, Writing, left # <<>>, left' = Tail(left), UNCHANGED given
  PROVE  LET k == Len(ColumnOrder) - Len(left) + 1 IN
         /\ table.write_mode # "attrs"
         /\ k \in 1..Len(ColumnOrder) /\ Head(left) = ColumnOrder[k]
         /\ Rest' \/ pc' \notin {"columns"}
         /\ \A i \in Taken : i \in 1..Len(ColumnOrder) /\ i < k
         /\ Taken' = Taken \cup (IF Skipped(Head(left)) THEN {} ELSE {k})
<1> DEFINE n == Len(ColumnOrder)
           m == Len(left)
           k == n - m + 1
<1>0. UNCHANGED <<table, statement, rowid, row, attrs>>
  BY DEF given
<1>1. table.write_mode # "attrs" /\ left \in Seq(Columns) /\ n \in Nat /\ m \in Nat /\ m > 0
  BY ColumnFacts DEF IInv, Rest
<1>2. m <= n /\ \A i \in 1..m : left[i] = ColumnOrder[n - m + i]
  BY <1>1 DEF IInv, Rest
<1>3. /\ Tail(left) \in Seq(Columns) /\ Len(Tail(left)) = m - 1
      /\ \A i \in 1..(m - 1) : Tail(left)[i] = left[i + 1]
      /\ Head(left) = left[1]
  BY <1>1
<1> HIDE DEF n, m
<1>4. k \in 1..n /\ Head(left) = ColumnOrder[k]
  BY <1>1, <1>2, <1>3
<1>5. \A i \in 1..(m - 1) : Tail(left)[i] = ColumnOrder[n - (m - 1) + i]
  <2> TAKE i \in 1..(m - 1)
  <2>1. i + 1 \in 1..m /\ n - m + (i + 1) = n - (m - 1) + i
    BY <1>1
  <2>2. QED BY <1>2, <1>3, <2>1
<1>6. Rest' \/ pc' # "columns"
  BY <1>0, <1>1, <1>2, <1>3, <1>5 DEF Rest, n, m, Writing
<1>7. \A i \in Taken : i \in 1..n /\ i < k
  BY <1>1, <1>2 DEF Taken, n, m
<1>8. \A c : Skipped(c)' <=> Skipped(c)
  BY <1>0 DEF Skipped
<1>9. Taken' = {i \in 1..(n - (m - 1)) : ~Skipped(ColumnOrder[i])}
  BY <1>0, <1>1, <1>3, <1>8 DEF Taken, n, m
<1>10. Taken = {i \in 1..(n - m) : ~Skipped(ColumnOrder[i])}
  BY <1>1 DEF Taken, n, m
<1>11. 1..(n - (m - 1)) = (1..(n - m)) \cup {k}
  BY <1>1, <1>2
<1>12. Taken' = Taken \cup (IF Skipped(Head(left)) THEN {} ELSE {k})
  BY <1>4, <1>9, <1>10, <1>11
<1>13. QED BY <1>1, <1>4, <1>6, <1>7, <1>12 DEF n, m

LEMMA OneName == ASSUME NEW S, NEW name \in S PROVE <<name>> \in Seq(S) /\ Len(<<name>>) = 1
<1>1. Len(<<name>>) = 1
  OBVIOUS
<1>2. <<name>> \in Seq(S)
  OBVIOUS
<1>3. QED BY <1>1, <1>2

LEMMA TargetIsPath ==
  ASSUME Options, NEW column \in Columns PROVE Target(column) \in Paths
<1>1. column \in STRING
  BY ColumnFacts
<1>2. DOMAIN table.column_map \subseteq Columns /\ Range(table.column_map) \subseteq Paths
  BY DEF Options
<1>3. CASE column \in DOMAIN table.column_map
  BY <1>2, <1>3 DEF Target, Range
<1>4. CASE column \notin DOMAIN table.column_map
  <2>1. Target(column) = <<column>>
    BY <1>4 DEF Target
  <2>2. \A name \in STRING : <<name>> \in Seq(STRING) /\ Len(<<name>>) = 1
    BY OneName
  <2>3. Len(<<>>) = 0
    OBVIOUS
  <2>4. <<column>> # <<>>
    BY <1>1, <2>2, <2>3
  <2>5. QED BY <1>1, <2>1, <2>2, <2>4 DEF Paths
<1>5. QED BY <1>3, <1>4

LEMMA WriteColumnIInv == IInv /\ WriteColumn => IInv'
<1> SUFFICES ASSUME IInv, WriteColumn PROVE IInv'
  OBVIOUS
<1> DEFINE column == Head(left)
           k == Len(ColumnOrder) - Len(left) + 1
<1>1. /\ pc = "columns" /\ left # <<>> /\ UNCHANGED <<table, statement, rowid, row, attrs, address>>
      /\ UNCHANGED given
  BY DEF WriteColumn, given
<1>2. CASE pc' = "failed" /\ UNCHANGED <<left, body>>
  BY <1>1, <1>2 DEF IInv, Options, Rest, Filled, Accounted, Kept, Readable, Writing
<1>3. statement # "delete"
  BY <1>1 DEF IInv, Filled
<1>4. ASSUME left' = Tail(left), pc' = pc
      PROVE  /\ Options' /\ Rest' /\ Filled' /\ Writing /\ Writing'
             /\ k \in 1..Len(ColumnOrder) /\ column = ColumnOrder[k]
             /\ \A i \in Taken : i \in 1..Len(ColumnOrder) /\ i < k
             /\ Taken' = Taken \cup (IF Skipped(column) THEN {} ELSE {k})
             /\ \A c : Target(c)' = Target(c)
             /\ \A i : Goal(i)' = Goal(i)
             /\ FromAttrs' <=> FromAttrs
  <2>1. Options' /\ Filled' /\ Writing /\ Writing'
    BY <1>1, <1>3, <1>4 DEF IInv, Options, Writing, Filled
  <2>2. /\ k \in 1..Len(ColumnOrder) /\ column = ColumnOrder[k] /\ Rest'
        /\ \A i \in Taken : i \in 1..Len(ColumnOrder) /\ i < k
        /\ Taken' = Taken \cup (IF Skipped(column) THEN {} ELSE {k})
    BY <1>1, <1>4, <2>1, OneMore
  <2>3. /\ \A c : Target(c)' = Target(c)
        /\ FromAttrs' <=> FromAttrs
    BY <1>1 DEF Target, FromAttrs
  <2>4. \A i : Goal(i)' = Goal(i)
    BY <2>3 DEF Goal
  <2>5. QED BY <2>1, <2>2, <2>3, <2>4
<1>5. CASE Skipped(column) /\ left' = Tail(left) /\ UNCHANGED <<pc, body>>
  <2>1. Taken' = Taken
    BY <1>4, <1>5
  <2>2. /\ \A i : Placed(i)' = Placed(i) /\ (Stands(i)' <=> Stands(i))
        /\ \A i, j : Disturbs(j, i)' <=> Disturbs(j, i)
    BY <1>1, <1>4, <1>5 DEF Placed, Stands, Disturbs
  <2>3. Accounted' /\ Kept' /\ Readable'
    BY <1>1, <1>4, <1>5, <2>1, <2>2 DEF IInv, Accounted, Kept, Readable
  <2>4. QED BY <1>4, <1>5, <2>3 DEF IInv, IsObject
<1>6. CASE /\ ~Skipped(column) /\ ~Conflicts(body, Target(column))
           /\ body' = Inserted(body, Target(column), row[column])
           /\ left' = Tail(left) /\ UNCHANGED pc
  <2> DEFINE t == Target(column)
             v == row[column]
  <2>1. t \in Paths
    BY <1>6, TargetIsPath DEF Skipped, IInv, Options
  <2> DEFINE leaves == Leaves(t, v)
  <2>2. /\ IsObject(body')
        /\ \A p \in DOMAIN leaves : p \in DOMAIN body' /\ body'[p] = leaves[p]
        /\ \A p \in DOMAIN body' :
             p \in DOMAIN leaves \/ (p \in DOMAIN body /\ ~IsPrefix(t, p) /\ body'[p] = body[p])
        /\ \A p \in DOMAIN body : IsPrefix(t, p) \/ (p \in DOMAIN body' /\ body'[p] = body[p])
    <3>1. IsCell(v) /\ ~Conflicts(body, t) /\ IsObject(body) /\ body' = Inserted(body, t, v)
      BY <1>6, ObjectsAssumption DEF IsCell, IInv, Options, Skipped
    <3> HIDE DEF t, v
    <3>2. QED BY <2>1, <3>1, InsertedObject
  <2>3. /\ Taken' = Taken \cup {k} /\ Goal(k) = t /\ ColumnOrder[k] = column
        /\ \A p \in DOMAIN leaves : p \in Paths /\ IsPrefix(t, p)
    <3>1. IsCell(v)
      BY <1>6, ObjectsAssumption DEF IsCell, IInv, Options, Skipped
    <3>2. Taken' = Taken \cup {k} /\ Goal(k) = t /\ ColumnOrder[k] = column
      BY <1>4, <1>6 DEF Goal
    <3> HIDE DEF t, v
    <3>3. \A p \in DOMAIN leaves : p \in Paths /\ IsPrefix(t, p)
      BY <2>1, <3>1, LeavesFacts
    <3>4. QED BY <3>2, <3>3
  <2>4. leaves = Placed(k)
    BY <2>3 DEF Placed
  <2>5. \A p \in DOMAIN body : p # t => ~IsPrefix(p, t)
    BY <1>6 DEF Conflicts
  <2>6. \A i \in Taken : Goal(i) \in Paths /\ IsCell(row[ColumnOrder[i]])
    <3> TAKE i \in Taken
    <3>1. ColumnOrder[i] \in DOMAIN row /\ ColumnOrder[i] \in Columns
      BY <1>4, ColumnFacts DEF Taken, Skipped
    <3>2. QED BY <3>1, TargetIsPath, ObjectsAssumption DEF IsCell, IInv, Options, Goal
  <2> HIDE DEF t, v, k, column, leaves
  <2>7. /\ \A i : Goal(i)' = Goal(i) /\ Placed(i)' = Placed(i)
        /\ \A i, j : Disturbs(j, i)' <=> Disturbs(j, i)
        /\ FromAttrs' <=> FromAttrs
        /\ Writing /\ row' = row /\ attrs' = attrs
        /\ \A i \in Taken : i < k
    <3>1. /\ \A i : Goal(i)' = Goal(i)
          /\ FromAttrs' <=> FromAttrs
          /\ Writing /\ row' = row /\ attrs' = attrs
          /\ \A i \in Taken : i < k
      BY <1>1, <1>4, <1>6 DEF column, k
    <3>2. QED BY <3>1 DEF Placed, Disturbs
  <2>8. Accounted'
    <3> SUFFICES ASSUME NEW p \in DOMAIN body'
                 PROVE  \/ \E i \in Taken' : p \in DOMAIN Placed(i) /\ body'[p] = Placed(i)[p]
                        \/ FromAttrs /\ p \in DOMAIN attrs /\ body'[p] = attrs[p]
      BY <2>7 DEF Accounted
    <3>1. CASE p \in DOMAIN leaves
      BY <2>2, <2>3, <2>4, <3>1
    <3>2. CASE p \notin DOMAIN leaves
      <4>1. p \in DOMAIN body /\ body'[p] = body[p]
        BY <2>2, <3>2
      <4>2. \/ \E i \in Taken : p \in DOMAIN Placed(i) /\ body[p] = Placed(i)[p]
            \/ FromAttrs /\ p \in DOMAIN attrs /\ body[p] = attrs[p]
        BY <2>7, <4>1 DEF IInv, Accounted
      <4>3. QED BY <2>3, <4>1, <4>2
    <3>3. QED BY <3>1, <3>2
  <2>9. Kept'
    <3> SUFFICES ASSUME FromAttrs, NEW p \in DOMAIN attrs
                 PROVE  \/ p \in DOMAIN body' /\ body'[p] = attrs[p]
                        \/ \E i \in Taken' : IsPrefix(Goal(i), p)
      BY <2>7 DEF Kept
    <3>1. \/ p \in DOMAIN body /\ body[p] = attrs[p]
          \/ \E i \in Taken : IsPrefix(Goal(i), p)
      BY <2>7 DEF IInv, Kept
    <3>2. QED BY <2>2, <2>3, <3>1
  <2>10. ASSUME NEW i \in Taken, Stands(i), ~Disturbs(k, i)
         PROVE  Stands(i)'
    <3>1. Goal(i) \in Paths /\ IsCell(row[ColumnOrder[i]]) /\ t \in Paths
      BY <2>1, <2>6
    <3>2. ~IsPrefix(t, Goal(i)) /\ (row[ColumnOrder[i]] \in Objects => ~IsPrefix(Goal(i), t))
      BY <2>3, <2>10 DEF Disturbs
    <3>3. ~IsPrefix(Goal(i), t)
      <4>1. CASE row[ColumnOrder[i]] \notin Objects
        <5>1. Goal(i) \in DOMAIN Placed(i)
          BY <3>1, <4>1, LeavesFacts DEF Placed
        <5>2. Goal(i) \in DOMAIN body
          BY <2>10, <5>1 DEF Stands
        <5>3. Goal(i) # t
          BY <3>1, <3>2, PrefixOfItself DEF Paths
        <5>4. QED BY <2>5, <5>2, <5>3
      <4>2. QED BY <3>2, <4>1
    <3>4. ASSUME NEW p \in Paths, IsPrefix(Goal(i), p)
          PROVE  ~IsPrefix(t, p)
      BY <3>1, <3>2, <3>3, <3>4, PrefixesCompare DEF Paths
    <3>5. \A p \in DOMAIN Placed(i) : p \in Paths /\ IsPrefix(Goal(i), p)
      BY <3>1, LeavesFacts DEF Placed
    <3>6. ASSUME NEW p \in DOMAIN Placed(i) PROVE p \in DOMAIN body' /\ body'[p] = Placed(i)[p]
      BY <2>2, <2>10, <3>4, <3>5 DEF Stands
    <3>7. ASSUME NEW p \in DOMAIN body', IsPrefix(Goal(i), p) PROVE p \in DOMAIN Placed(i)
      <4>1. p \in Paths
        BY <2>2 DEF IsObject
      <4>2. p \notin DOMAIN leaves
        BY <2>3, <3>4, <3>7, <4>1
      <4>3. p \in DOMAIN body
        BY <2>2, <4>2
      <4>4. QED BY <2>10, <3>7, <4>3 DEF Stands
    <3>8. QED BY <2>7, <3>6, <3>7 DEF Stands
  <2>11. ASSUME NEW i, i = k
         PROVE  Stands(i)'
    <3>1. ASSUME NEW p \in DOMAIN body', IsPrefix(t, p) PROVE p \in DOMAIN leaves
      BY <2>2, <3>1
    <3>2. Goal(i)' = t /\ Placed(i)' = leaves
      BY <2>3, <2>4, <2>7, <2>11
    <3>3. QED BY <2>2, <3>1, <3>2 DEF Stands
  <2>12. Readable'
    <3> SUFFICES ASSUME NEW i \in Taken'
                 PROVE  Stands(i)' \/ \E j \in Taken' : i < j /\ Disturbs(j, i)
      <4>1. (\A i \in Taken' : Stands(i)' \/ \E j \in Taken' : i < j /\ Disturbs(j, i)') => Readable'
        BY DEF Readable
      <4>2. QED BY <2>7, <4>1
    <3>1. CASE i = k
      BY <2>11, <3>1
    <3>2. CASE i \in Taken
      <4>1. Stands(i) \/ \E j \in Taken : i < j /\ Disturbs(j, i)
        BY <2>7, <3>2 DEF IInv, Readable
      <4>2. CASE Stands(i) /\ Disturbs(k, i)
        <5>1. k \in Taken' /\ i < k
          BY <2>3, <2>7, <3>2
        <5>2. QED BY <4>2, <5>1
      <4>3. CASE Stands(i) /\ ~Disturbs(k, i)
        BY <2>10, <3>2, <4>3
      <4>4. CASE \E j \in Taken : i < j /\ Disturbs(j, i)
        BY <2>3, <4>4
      <4>5. QED BY <4>1, <4>2, <4>3, <4>4
    <3>3. QED BY <2>3, <3>1, <3>2
  <2>13. Options' /\ Rest' /\ Filled'
    BY <1>4, <1>6
  <2>14. QED BY <2>2, <2>8, <2>9, <2>12, <2>13 DEF IInv, IsObject
<1>7. QED BY <1>2, <1>5, <1>6 DEF WriteColumn

LEMMA EndIInv == IInv /\ (EndOfRow \/ Send \/ UNCHANGED vars) => IInv'
<1> SUFFICES ASSUME IInv, EndOfRow \/ Send \/ UNCHANGED vars PROVE IInv'
  OBVIOUS
<1>1. UNCHANGED <<table, statement, rowid, row, attrs, left, body, address>>
  BY DEF EndOfRow, Send, vars, given
<1>2. \/ pc' = pc \/ (pc = "send" /\ pc' = "stored")
      \/ pc = "columns" /\ left = <<>> /\ pc' = "failed"
      \/ pc = "columns" /\ left = <<>> /\ pc' = "send" /\ body # Nothing
  BY DEF EndOfRow, Send, vars
<1>3. /\ Taken' = Taken /\ (FromAttrs' <=> FromAttrs)
      /\ \A i : Goal(i)' = Goal(i) /\ Placed(i)' = Placed(i) /\ (Stands(i)' <=> Stands(i))
      /\ \A i, j : Disturbs(j, i)' <=> Disturbs(j, i)
  BY <1>1 DEF Taken, Skipped, Goal, Target, FromAttrs, Placed, Stands, Disturbs
<1>4. Writing' => Writing
  BY <1>1, <1>2 DEF Writing
<1>5. Options' /\ IsObject(body)' /\ Rest'
  BY <1>1, <1>2, <1>4 DEF IInv, Options, Rest, IsObject
<1>6. Filled'
  BY <1>1, <1>2 DEF IInv, Filled
<1>7. Accounted' /\ Kept' /\ Readable'
  BY <1>1, <1>3, <1>4 DEF IInv, Accounted, Kept, Readable
<1>8. QED BY <1>5, <1>6, <1>7 DEF IInv

LEMMA Invariance == Spec => []IInv
<1>1. ASSUME IInv, [Next]_vars PROVE IInv'
  BY <1>1, CreateTableIInv, BeginIInv, WriteColumnIInv, EndIInv DEF Next
<1>2. QED BY InitIInv, <1>1, PTL DEF Spec

-----------------------------------------------------------------------------

\* What is written is what stands at the positions taken, once all have been.
LEMMA WrittenTaken ==
  ASSUME IInv, pc = "stored"
  PROVE  /\ \A i \in Taken : i \in DOMAIN ColumnOrder /\ ColumnOrder[i] \in Written
         /\ \A c \in Written : \E i \in Taken : ColumnOrder[i] = c
<1>1. table.rowid_column = Identity /\ DOMAIN row \subseteq Columns /\ left = <<>>
  BY DEF IInv, Options, Rest
<1>2. Len(left) = 0 /\ Len(ColumnOrder) - Len(left) = Len(ColumnOrder)
  BY <1>1, ColumnFacts
<1>3. CASE table.write_mode = "attrs"
  BY <1>3 DEF Taken, Written
<1>4. CASE table.write_mode # "attrs"
  <2>1. Taken = {i \in 1..Len(ColumnOrder) : ~Skipped(ColumnOrder[i])}
    BY <1>2, <1>4 DEF Taken
  <2>2. \A c : c \in Written <=> ~Skipped(c)
    BY <1>1, <1>4 DEF Written, Skipped
  <2>3. \A c \in Written : c \in Columns
    BY <1>1 DEF Written
  <2>4. DOMAIN ColumnOrder = 1..Len(ColumnOrder)
    BY ColumnFacts
  <2>5. QED BY <2>1, <2>2, <2>3, <2>4, ColumnFacts
<1>5. QED BY <1>3, <1>4

\* What is being built is an object after every column, whatever the order of the columns
\* and wherever column_map puts them.
THEOREM TypeCorrect == Spec => []TypeOK
<1>1. IInv => TypeOK
  BY DEF IInv, Rest, TypeOK
<1>2. QED BY <1>1, Invariance, PTL

\* Nothing is sent but the columns that may be written and, when the mode says so, the
\* attrs object; no body is empty, and only a DELETE has none.
THEOREM BodyOfColumnsAndAttrs == Spec => []BodyAccounted
<1>1. ASSUME IInv, pc = "stored"
      PROVE  /\ (body = Nothing) = (statement = "delete")
             /\ \A p \in DOMAIN body :
                  \/ \E c \in Written : p \in DOMAIN Leaves(Target(c), row[c]) /\ body[p] = Leaves(Target(c), row[c])[p]
                  \/ FromAttrs /\ p \in DOMAIN attrs /\ body[p] = attrs[p]
  <2>1. (body = Nothing) <=> (statement = "delete")
    BY <1>1 DEF IInv, Filled
  <2>2. ASSUME NEW p \in DOMAIN body
        PROVE  \/ \E c \in Written : p \in DOMAIN Leaves(Target(c), row[c]) /\ body[p] = Leaves(Target(c), row[c])[p]
               \/ FromAttrs /\ p \in DOMAIN attrs /\ body[p] = attrs[p]
    <3>1. Writing
      BY <1>1, <2>1, <2>2, EmptyObject DEF Writing
    <3>2. QED BY <1>1, <3>1, WrittenTaken DEF IInv, Accounted, Goal, Placed
  <2>3. QED BY <2>1, <2>2
<1>2. IInv => BodyAccounted
  BY <1>1 DEF BodyAccounted, FromAttrs
<1>3. QED BY <1>2, Invariance, PTL

\* In attrs and merge mode the keys of attrs that no column writes reach the origin as they are.
THEOREM AttrsKept == Spec => []AttrsPreserved
<1>1. ASSUME IInv, pc = "stored", FromAttrs, NEW p \in DOMAIN attrs
      PROVE  \/ p \in DOMAIN body /\ body[p] = attrs[p]
             \/ \E c \in Written : IsPrefix(Target(c), p)
  <2>1. Writing
    BY <1>1, ObjectsAssumption DEF IInv, Options, Writing, FromAttrs
  <2>2. QED BY <1>1, <2>1, WrittenTaken DEF IInv, Kept, Goal
<1>2. IInv => AttrsPreserved
  BY <1>1 DEF AttrsPreserved, FromAttrs
<1>3. QED BY <1>2, Invariance, PTL

\* A column that was written, a scalar or an object, reads as what was written, unless a
\* later column took its place or went into its object.
THEOREM ReadsBack == Spec => []RoundTrip
<1>1. ASSUME IInv, pc = "stored", NEW c \in Written
      PROVE  \/ ColumnValue(c) = row[c]
             \/ \E d \in Written : Later(c, d) /\ IsPrefix(Target(d), Target(c))
             \/ row[c] \in Objects /\ \E d \in Written : Later(c, d) /\ IsPrefix(Target(c), Target(d))
  <2>1. Writing /\ Options /\ c \in DOMAIN row /\ c \in Columns
    BY <1>1 DEF IInv, Options, Written, Writing
  <2>2. PICK i \in Taken : ColumnOrder[i] = c
    BY <1>1, WrittenTaken
  <2>3. CASE Stands(i)
    <3>1. Target(c) \in Paths /\ IsCell(row[c])
      BY <2>1, TargetIsPath, ObjectsAssumption DEF IsCell, Options
    <3>2. /\ \A p \in DOMAIN Leaves(Target(c), row[c]) : p \in DOMAIN body /\ body[p] = Leaves(Target(c), row[c])[p]
          /\ \A p \in DOMAIN body : IsPrefix(Target(c), p) => p \in DOMAIN Leaves(Target(c), row[c])
      BY <2>2, <2>3 DEF Stands, Placed, Goal
    <3>3. Found(body, Target(c)) = row[c]
      BY <3>1, <3>2, FoundValue
    <3>4. QED BY <3>3 DEF ColumnValue
  <2>4. CASE \E j \in Taken : i < j /\ Disturbs(j, i)
    <3>1. PICK j \in Taken : i < j /\ Disturbs(j, i)
      BY <2>4
    <3>2. ColumnOrder[j] \in Written /\ Later(c, ColumnOrder[j])
      BY <1>1, <2>2, <3>1, WrittenTaken DEF Later
    <3>3. QED BY <2>2, <3>1, <3>2 DEF Disturbs, Goal
  <2>5. QED BY <1>1, <2>1, <2>2, <2>3, <2>4 DEF IInv, Readable
<1>2. IInv => RoundTrip
  BY <1>1 DEF RoundTrip
<1>3. QED BY <1>2, Invariance, PTL

-----------------------------------------------------------------------------
\* Addresses.

\* A set of numbers that is not empty has a least one.
LEMMA LeastNumber ==
  ASSUME NEW T, T \subseteq Nat, T # {}
  PROVE  \E m \in T : \A i \in T : m <= i
<1>1. IsWellFoundedOn(OpToRel(<, Nat), Nat)
  BY NatLessThanWellFounded
<1>2. PICK m \in T : \A i \in T : ~(<<i, m>> \in OpToRel(<, Nat))
  BY <1>1, WFMin
<1>3. \A i \in T : ~(i < m)
  BY <1>2 DEF OpToRel
<1>4. QED BY <1>3

\* The path after each of the first k segments.
Walk(segments, n, k, f) ==
  f = [i \in 0..k |-> IF i = 0 THEN <<>> ELSE Followed(f[i - 1], segments[i], i = n)]

\* There are such paths, so that the definition of the path that is parsed has a solution.
LEMMA WalkExists ==
  ASSUME NEW segments, NEW n, NEW last \in Nat
  PROVE  \E f : Walk(segments, n, last, f)
<1> DEFINE T == {k \in Nat : ~\E f : Walk(segments, n, k, f)}
<1> SUFFICES ASSUME last \in T PROVE FALSE
  OBVIOUS
<1>1. PICK m \in T : \A k \in T : m <= k
  BY LeastNumber
<1>2. m \in Nat /\ ~\E f : Walk(segments, n, m, f)
  BY <1>1
<1>3. CASE m = 0
  <2> DEFINE g == [i \in 0..0 |-> <<>>]
  <2>1. g = [i \in 0..0 |-> IF i = 0 THEN <<>> ELSE Followed(g[i - 1], segments[i], i = n)]
    OBVIOUS
  <2>2. Walk(segments, n, 0, g)
    BY <2>1 DEF Walk
  <2>3. QED BY <1>2, <1>3, <2>2
<1>4. CASE m # 0
  <2>1. m - 1 \in Nat /\ m - 1 \notin T
    BY <1>1, <1>2, <1>4
  <2>2. PICK f : Walk(segments, n, m - 1, f)
    BY <2>1
  <2> DEFINE g == [i \in 0..m |-> IF i = m THEN Followed(f[m - 1], segments[m], m = n) ELSE f[i]]
  <2>3. \A i \in 0..(m - 1) : f[i] = IF i = 0 THEN <<>> ELSE Followed(f[i - 1], segments[i], i = n)
    BY <2>2 DEF Walk
  <2>4. \A i \in 0..m : i - 1 \in 0..(m - 1) \/ i = 0
    BY <1>2
  <2>5. \A i \in 0..(m - 1) : i \in 0..m /\ g[i] = f[i]
    BY <1>2
  <2>6. m \in 0..m /\ g[m] = Followed(f[m - 1], segments[m], m = n) /\ m - 1 \in 0..(m - 1)
    BY <1>2, <2>1
  <2>7. \A i \in 0..m : i \in 0..(m - 1) \/ i = m
    BY <1>2
  <2> HIDE DEF g
  <2>8. ASSUME NEW i \in 0..m
        PROVE  g[i] = IF i = 0 THEN <<>> ELSE Followed(g[i - 1], segments[i], i = n)
    <3>1. CASE i = m
      BY <1>4, <2>5, <2>6, <3>1
    <3>2. CASE i \in 0..(m - 1)
      <4>1. i # 0 => i - 1 \in 0..(m - 1)
        BY <2>4
      <4>2. QED BY <2>3, <2>5, <3>2, <4>1
    <3>3. QED BY <2>7, <3>1, <3>2
  <2>9. g = [i \in 0..m |-> IF i = 0 THEN <<>> ELSE Followed(g[i - 1], segments[i], i = n)]
    BY <2>8 DEF g
  <2>10. Walk(segments, n, m, g)
    BY <2>9 DEF Walk
  <2>11. QED BY <1>2, <2>10
<1>5. QED BY <1>3, <1>4

\* One more segment: the path is not longer than what was read, and shorter once there
\* were dots that did not end it.
LEMMA FollowedFacts ==
  ASSUME NEW T, NEW path \in Seq(T), NEW segment \in T, Empty \in T, NEW final \in BOOLEAN
  PROVE  LET next == Followed(path, segment, final) IN
         /\ next \in Seq(T)
         /\ ~IsDots(segment) => next = Append(path, segment)
         /\ IsDots(segment) /\ ~final => Len(next) <= Len(path)
         /\ IsDots(segment) /\ final => /\ Len(next) \in 1..(Len(path) + 1)
                                        /\ next[Len(next)] = Empty
<1> DEFINE kept == IF DotsOf(segment) = 2 /\ path # <<>> THEN Front(path) ELSE path
           next == Followed(path, segment, final)
<1>1. next = IF ~IsDots(segment) THEN Append(path, segment) ELSE IF final THEN Append(kept, Empty) ELSE kept
  BY DEF Followed
<1>2. kept \in Seq(T) /\ Len(kept) <= Len(path) /\ Len(path) \in Nat /\ Len(kept) \in Nat
  <2>1. CASE path # <<>>
    <3>1. Len(path) \in Nat /\ Len(path) > 0
      BY <2>1
    <3>2. \A i \in 1..(Len(path) - 1) : path[i] \in T
      BY <3>1
    <3> DEFINE last == Len(path) - 1
    <3>3. last \in Int /\ 1 \in Int
      BY <3>1
    <3> HIDE DEF last
    <3>4. /\ SubSeq(path, 1, last) \in Seq(T)
          /\ Len(SubSeq(path, 1, last)) = IF 1 <= last THEN last - 1 + 1 ELSE 0
      BY <3>2, <3>3, SubSeqProperties DEF last
    <3>5. Front(path) = SubSeq(path, 1, last)
      BY DEF Front, last
    <3>6. Front(path) \in Seq(T) /\ Len(Front(path)) = last
      <4>1. last \in Nat
        BY <3>1 DEF last
      <4>2. QED BY <3>4, <3>5, <4>1
    <3>7. QED BY <3>1, <3>6 DEF last
  <2>2. CASE path = <<>>
    BY <2>2
  <2>3. QED BY <2>1, <2>2
<1> HIDE DEF kept, next
<1>3. /\ Append(kept, Empty) \in Seq(T)
      /\ Len(Append(kept, Empty)) = Len(kept) + 1 /\ Append(kept, Empty)[Len(kept) + 1] = Empty
  BY <1>2, AppendProperties
<1>4. Append(path, segment) \in Seq(T)
  BY AppendProperties
<1>5. CASE ~IsDots(segment)
  BY <1>1, <1>4, <1>5 DEF next
<1>6. CASE IsDots(segment) /\ ~final
  BY <1>1, <1>2, <1>6 DEF next
<1>7. CASE IsDots(segment) /\ final
  <2>1. next = Append(kept, Empty)
    BY <1>1, <1>7
  <2>2. Len(next) \in 1..(Len(path) + 1) /\ next[Len(next)] = Empty
    BY <1>2, <1>3, <2>1
  <2>3. QED BY <1>3, <1>7, <2>1, <2>2 DEF next
<1>8. QED BY <1>5, <1>6, <1>7

\* What is parsed of a path: itself if it has no dots, an empty segment at the end if it
\* ends in dots, and otherwise less than there was.
LEMMA ParsedFacts ==
  ASSUME NEW U, NEW segments \in Seq(U)
  PROVE  LET n == Len(segments)
             parsed == ParsedPath(segments)
         IN  \/ (\A i \in 1..n : ~IsDots(segments[i])) /\ parsed = segments
             \/ n > 0 /\ IsDots(segments[n]) /\ Len(parsed) \in 1..n /\ parsed[Len(parsed)] = Empty
             \/ (\E i \in 1..n : IsDots(segments[i])) /\ Len(parsed) < n
<1> DEFINE n == Len(segments)
           T == U \cup {Empty}
           path == CHOOSE f : Walk(segments, n, n, f)
           Clean(k) == \A i \in 1..k : ~IsDots(segments[i])
           Good(k) == /\ path[k] \in Seq(T) /\ Len(path[k]) <= k
                      /\ Clean(k) => Len(path[k]) = k /\ \A i \in 1..k : path[k][i] = segments[i]
                      /\ ~Clean(k) => Len(path[k]) < k
           Bad == {k \in 0..(n - 1) : ~Good(k)}
<1>1. n \in Nat /\ Empty \in T /\ \A i \in 1..n : segments[i] \in T /\ segments[i] \in U
  OBVIOUS
<1>2. ParsedPath(segments) = path[n]
  BY DEF ParsedPath, Walk
<1>3. Walk(segments, n, n, path)
  BY <1>1, WalkExists
<1> HIDE DEF n, path, T
<1>4. \A i \in 0..n : path[i] = IF i = 0 THEN <<>> ELSE Followed(path[i - 1], segments[i], i = n)
  BY <1>3 DEF Walk
<1>5. path[0] = <<>>
  BY <1>1, <1>4
<1>6. ASSUME NEW k \in 1..n
      PROVE  path[k] = Followed(path[k - 1], segments[k], k = n) /\ k - 1 \in 0..(n - 1)
  BY <1>1, <1>4
<1>7. ASSUME NEW k \in 1..(n - 1), Good(k - 1) PROVE Good(k)
  <2>1. k \in 1..n /\ (k = n) = FALSE /\ segments[k] \in T /\ k \in Nat /\ k - 1 \in Nat
    BY <1>1
  <2>2. path[k] = Followed(path[k - 1], segments[k], FALSE)
    BY <1>6, <2>1
  <2>3. path[k - 1] \in Seq(T) /\ Len(path[k - 1]) <= k - 1 /\ Len(path[k - 1]) \in Nat
    BY <1>7
  <2>4. /\ path[k] \in Seq(T)
        /\ ~IsDots(segments[k]) => path[k] = Append(path[k - 1], segments[k])
        /\ IsDots(segments[k]) => Len(path[k]) <= Len(path[k - 1])
    BY <1>1, <2>1, <2>2, <2>3, FollowedFacts
  <2>5. /\ Len(Append(path[k - 1], segments[k])) = Len(path[k - 1]) + 1
        /\ \A i \in 1..Len(path[k - 1]) : Append(path[k - 1], segments[k])[i] = path[k - 1][i]
        /\ Append(path[k - 1], segments[k])[Len(path[k - 1]) + 1] = segments[k]
    BY <2>1, <2>3, AppendProperties
  <2>6. Clean(k) <=> Clean(k - 1) /\ ~IsDots(segments[k])
    <3>1. \A i \in 1..k : i \in 1..(k - 1) \/ i = k
      BY <2>1
    <3>2. (1..(k - 1)) \subseteq 1..k /\ k \in 1..k
      BY <2>1
    <3>3. QED BY <3>1, <3>2
  <2> HIDE DEF Clean
  <2>7. Len(path[k]) \in Nat
    BY <2>4
  <2>8. CASE IsDots(segments[k])
    BY <2>1, <2>3, <2>4, <2>6, <2>7, <2>8
  <2>9. CASE ~IsDots(segments[k]) /\ Clean(k - 1)
    <3>1. Len(path[k - 1]) = k - 1 /\ \A i \in 1..(k - 1) : path[k - 1][i] = segments[i]
      BY <1>7, <2>9
    <3>2. \A i \in 1..k : path[k][i] = segments[i]
      <4>1. \A i \in 1..k : i \in 1..(k - 1) \/ i = k
        BY <2>1
      <4>2. QED BY <2>1, <2>4, <2>5, <2>9, <3>1, <4>1
    <3>3. QED BY <2>1, <2>4, <2>5, <2>6, <2>9, <3>1, <3>2
  <2>10. CASE ~IsDots(segments[k]) /\ ~Clean(k - 1)
    <3>1. Len(path[k - 1]) < k - 1
      BY <1>7, <2>10
    <3>2. QED BY <2>1, <2>3, <2>4, <2>5, <2>6, <2>10, <3>1
  <2>11. QED BY <2>8, <2>9, <2>10
<1>8. Good(0)
  BY <1>5
<1>9. Bad = {}
  <2> SUFFICES ASSUME Bad # {} PROVE FALSE
    OBVIOUS
  <2> HIDE DEF Good
  <2>1. Bad \subseteq Nat
    BY <1>1
  <2>2. PICK k \in Bad : \A j \in Bad : k <= j
    BY <2>1, LeastNumber
  <2>3. k # 0 /\ k \in 0..(n - 1)
    BY <1>8, <2>2
  <2>4. k \in 1..(n - 1) /\ k - 1 \in 0..(n - 1) /\ k - 1 \notin Bad
    BY <1>1, <2>2, <2>3
  <2>5. Good(k - 1)
    BY <2>4
  <2>6. QED BY <1>7, <2>2, <2>4, <2>5
<1>10. CASE n = 0
  <2>1. segments = <<>> /\ \A i \in 1..n : ~IsDots(segments[i])
    BY <1>10 DEF n
  <2>2. QED BY <1>2, <1>5, <1>10, <2>1 DEF n
<1>11. CASE n # 0
  <2>0. PICK before, whole : before = path[n - 1] /\ whole = path[n]
    OBVIOUS
  <2>1. n \in 1..n /\ n - 1 \in 0..(n - 1) /\ n - 1 \in Nat
    BY <1>1, <1>11
  <2>2. Good(n - 1)
    <3> HIDE DEF Good
    <3>1. QED BY <1>9, <2>1
  <2>3. before \in Seq(T) /\ Len(before) <= n - 1 /\ Len(before) \in Nat
    BY <2>0, <2>2
  <2> DEFINE final == n = n
  <2>4. whole = Followed(before, segments[n], final) /\ segments[n] \in T /\ final \in BOOLEAN /\ final
    BY <1>1, <1>6, <2>0, <2>1
  <2> HIDE DEF final
  <2>5. /\ whole \in Seq(T)
        /\ ~IsDots(segments[n]) => whole = Append(before, segments[n])
        /\ IsDots(segments[n]) => /\ Len(whole) \in 1..(Len(before) + 1)
                                  /\ whole[Len(whole)] = Empty
    BY <1>1, <2>3, <2>4, FollowedFacts
  <2>6. CASE IsDots(segments[n])
    <3>1. Len(whole) \in 1..n
      BY <1>1, <2>3, <2>5, <2>6
    <3>2. QED BY <1>1, <1>2, <1>11, <2>0, <2>5, <2>6, <3>1 DEF n
  <2>7. CASE ~IsDots(segments[n])
    <3>1. /\ Len(whole) = Len(before) + 1
          /\ \A i \in 1..Len(before) : whole[i] = before[i]
          /\ whole[Len(before) + 1] = segments[n]
      <4>1. segments[n] \in T /\ whole = Append(before, segments[n])
        BY <2>4, <2>5, <2>7
      <4>2. /\ Len(Append(before, segments[n])) = Len(before) + 1
            /\ \A i \in 1..Len(before) : Append(before, segments[n])[i] = before[i]
            /\ Append(before, segments[n])[Len(before) + 1] = segments[n]
        BY <2>3, <4>1, AppendProperties
      <4>3. QED BY <4>1, <4>2
    <3>2. CASE Clean(n - 1)
      <4>1. Len(before) = n - 1 /\ \A i \in 1..(n - 1) : before[i] = segments[i]
        BY <2>0, <2>2, <3>2
      <4>2. \A i \in 1..n : i \in 1..(n - 1) \/ i = n
        BY <1>1
      <4>3. Len(whole) = n /\ \A i \in 1..n : whole[i] = segments[i]
        BY <1>1, <3>1, <4>1, <4>2
      <4>4. segments \in Seq(T) /\ Len(segments) = n
        BY DEF T, n
      <4>5. whole = segments
        BY <2>5, <4>3, <4>4, SeqEqual
      <4>6. \A i \in 1..n : ~IsDots(segments[i])
        BY <2>7, <3>2, <4>2
      <4>7. QED BY <1>2, <2>0, <4>5, <4>6 DEF n
    <3>3. CASE ~Clean(n - 1)
      <4>1. Len(before) < n - 1
        BY <2>0, <2>2, <3>3
      <4>2. Len(whole) < n
        BY <1>1, <2>3, <3>1, <4>1
      <4>3. \E i \in 1..n : IsDots(segments[i])
        <5>1. (1..(n - 1)) \subseteq 1..n
          BY <1>1
        <5>2. QED BY <3>3, <5>1
      <4>4. QED BY <1>2, <2>0, <4>2, <4>3 DEF n
    <3>4. QED BY <3>2, <3>3
  <2>8. QED BY <2>6, <2>7
<1>12. QED BY <1>10, <1>11

LEMMA DotsFacts ==
  ASSUME NEW text
  PROVE  Dots(text) \in 0..3 /\ Dots("") = 0
  BY DEF Dots

\* An address that keeps its identity is the address of no other one.
LEMMA AddressApart ==
  ASSUME NEW endpoint, endpoint.segments \in Seq(Range(endpoint.segments)),
         PathPlaceholders(endpoint) # {},
         NEW t, KeepsIdentity(endpoint, t),
         NEW i, Address(endpoint, i) = Address(endpoint, t)
  PROVE  i = t
<1> DEFINE segs == endpoint.segments
           n == Len(segs)
           a == Substituted(endpoint, i)
           b == Substituted(endpoint, t)
           Part(k, identity) == IF segs[k].parameter = "" THEN "" ELSE identity
           U == {a[k] : k \in 1..n} \cup {b[k] : k \in 1..n}
<1>1. n \in Nat /\ DOMAIN segs = 1..n /\ \A k \in 1..n : segs[k] \in Range(segs)
  BY DEF Range
<1>2. \A k \in 1..n : /\ a[k] = <<segs[k].before, Part(k, i), segs[k].after>>
                      /\ b[k] = <<segs[k].before, Part(k, t), segs[k].after>>
  BY <1>1 DEF Substituted
<1>3. a \in Seq(U) /\ b \in Seq(U) /\ Len(a) = n /\ Len(b) = n
  <2>1. a \in [1..n -> U] /\ b \in [1..n -> U]
    <3>1. a = [k \in 1..n |-> a[k]] /\ b = [k \in 1..n |-> b[k]]
      BY <1>1 DEF Substituted
    <3> HIDE DEF a, b
    <3>2. QED BY <3>1
  <2> HIDE DEF a, b, U, n
  <2>2. QED BY <1>1, <2>1
<1>4. \A k \in 1..n : a[k][2] = Part(k, i) /\ b[k][2] = Part(k, t)
  <2>1. \A x, y, z : <<x, y, z>>[2] = y
    OBVIOUS
  <2> HIDE DEF a, b, Part, n, segs
  <2>2. QED BY <1>2, <2>1
<1>5. ParsedPath(a) = ParsedPath(b)
  BY DEF Address
<1>6. Dots(t) = 3
  BY DEF KeepsIdentity
<1>7. ASSUME NEW k \in 1..n PROVE ~IsDots(b[k])
  <2>1. CASE segs[k].parameter = ""
    BY <1>1, <1>2, <2>1 DEF KeepsIdentity
  <2>2. CASE segs[k].parameter # ""
    <3>1. b[k][2] = t
      BY <1>4, <2>2
    <3>2. Dots(b[k][1]) \in 0..3 /\ Dots(b[k][3]) \in 0..3 /\ Dots(b[k][2]) = 3
      BY <1>6, <3>1, DotsFacts
    <3>3. DotsOf(b[k]) \notin {1, 2}
      BY <3>2 DEF DotsOf
    <3>4. QED BY <3>3 DEF IsDots
  <2>3. QED BY <2>1, <2>2
<1>8. PICK k \in 1..n : segs[k].parameter # ""
  BY <1>1 DEF PathPlaceholders, Range
<1> HIDE DEF a, b, U
<1>9. ParsedPath(b) = b
  BY <1>1, <1>3, <1>7, ParsedFacts
<1>10. \/ (\A j \in 1..n : ~IsDots(a[j])) /\ ParsedPath(a) = a
       \/ n > 0 /\ IsDots(a[n]) /\ Len(ParsedPath(a)) \in 1..n /\ ParsedPath(a)[Len(ParsedPath(a))] = Empty
       \/ Len(ParsedPath(a)) < n
  BY <1>3, ParsedFacts
<1>11. CASE ParsedPath(a) = a
  <2>1. a[k][2] = b[k][2]
    BY <1>5, <1>9, <1>11
  <2>2. QED BY <1>4, <1>8, <2>1
<1>12. CASE n > 0 /\ IsDots(a[n]) /\ ParsedPath(a)[Len(ParsedPath(a))] = Empty
  <2>1. n \in 1..n /\ b[n] = Empty /\ IsDots(a[n])
    BY <1>1, <1>3, <1>5, <1>9, <1>12
  <2>2. CASE segs[n].parameter = ""
    BY <1>2, <1>7, <2>1, <2>2
  <2>3. CASE segs[n].parameter # ""
    <3>1. b[n][2] = t
      BY <1>4, <2>1, <2>3
    <3>2. Empty[2] = ""
      BY DEF Empty
    <3>3. t = "" /\ Dots("") = 0
      BY <2>1, <3>1, <3>2, DotsFacts
    <3>4. Dots(t) = 0
      BY <3>3
    <3>5. QED BY <1>6, <3>4
  <2>4. QED BY <2>2, <2>3
<1>13. CASE Len(ParsedPath(a)) < n
  BY <1>1, <1>3, <1>5, <1>9, <1>13
<1>14. QED BY <1>10, <1>11, <1>12, <1>13

\* The inductive invariant about the address: from begin_modify on it is the one the
\* template of the statement gives for the identity, and there is an identity where the
\* template asks for one.
Addressed ==
  /\ rowid \in Identities
  /\ pc \in {"columns", "send", "stored"} =>
       Possible /\ address = Address(table.endpoints[statement], TargetRowid)

LEMMA InitAddressed == Init => Addressed
<1> SUFFICES ASSUME Init PROVE Addressed
  OBVIOUS
<1>1. pc = "validate" /\ rowid \in Identities
  BY JobsAssumption DEF Init
<1>2. QED BY <1>1 DEF Addressed

LEMMA NextAddressed == Addressed /\ [Next]_vars => Addressed'
<1> SUFFICES ASSUME Addressed, [Next]_vars PROVE Addressed'
  OBVIOUS
<1>1. UNCHANGED <<table, statement, rowid, row, attrs>>
  BY DEF Next, CreateTable, Begin, WriteColumn, EndOfRow, Send, vars, given
<1>2. /\ TargetRowid' = TargetRowid /\ Possible' <=> Possible
      /\ (rowid \in Identities)'
  <2>1. TargetRowid' = TargetRowid
    BY <1>1 DEF TargetRowid
  <2>2. Possible' <=> Possible
    BY <1>1, <2>1 DEF Possible
  <2>3. QED BY <1>1, <2>1, <2>2 DEF Addressed
<1>3. CASE CreateTable
  BY <1>2, <1>3 DEF CreateTable, Addressed
<1>4. CASE Begin
  <2>1. CASE pc' = "failed"
    BY <1>2, <2>1 DEF Addressed
  <2>2. CASE Possible /\ address' = Address(table.endpoints[statement], TargetRowid)
    BY <1>1, <1>2, <2>2 DEF Addressed
  <2>3. QED BY <1>4, <2>1, <2>2 DEF Begin
<1>5. CASE WriteColumn \/ EndOfRow \/ Send \/ UNCHANGED vars
  <2>1. address' = address /\ (pc' \in {"columns", "send", "stored"} => pc \in {"columns", "send", "stored"})
    BY <1>5 DEF WriteColumn, EndOfRow, Send, vars
  <2>2. QED BY <1>1, <1>2, <2>1 DEF Addressed
<1>6. QED BY <1>3, <1>4, <1>5 DEF Next

\* A table whose options were accepted addresses rows: the template of an UPDATE or DELETE
\* asks for the identity, so that no other identity has the path that is requested.
THEOREM RowIsAddressed == Spec => []RowAddressed
<1>1. ASSUME IInv, Addressed, pc = "stored",
             statement # "insert" \/ PathPlaceholders(table.endpoints["insert"]) # {},
             KeepsIdentity(table.endpoints[statement], TargetRowid)
      PROVE  {i \in Identities : Address(table.endpoints[statement], i) = address} = {TargetRowid}
  <2> DEFINE endpoint == table.endpoints[statement]
  <2>1. /\ Possible /\ address = Address(endpoint, TargetRowid)
        /\ IsOptions(table) /\ OptionsAccepted(table) /\ statement \in Kinds
    BY <1>1 DEF Addressed, IInv, Options
  <2>2. statement \in DOMAIN table.endpoints /\ endpoint.segments \in Seq(Range(endpoint.segments))
    BY <2>1 DEF Possible, IsOptions
  <2>3. PathPlaceholders(endpoint) # {}
    <3>1. CASE statement = "insert"
      BY <1>1, <3>1
    <3>2. CASE statement \in {"update", "delete"}
      <4>1. AsksForIdentity(table, statement)
        BY <2>1, <2>2 DEF OptionsAccepted, OperationAccepted
      <4>2. QED BY <3>2, <4>1 DEF AsksForIdentity
    <3>3. QED BY <2>1, <3>1, <3>2 DEF Kinds
  <2>4. TargetRowid \in Identities
    <3>1. TargetRowid # Null
      BY <2>1, <2>3 DEF Possible
    <3>2. QED BY <1>1, <3>1, IdentitiesAssumption DEF TargetRowid, Addressed
  <2> HIDE DEF endpoint
  <2>5. \A i \in Identities : Address(endpoint, i) = Address(endpoint, TargetRowid) => i = TargetRowid
    BY <1>1, <2>2, <2>3, AddressApart DEF endpoint
  <2>6. {i \in Identities : Address(endpoint, i) = address} = {TargetRowid}
    BY <2>1, <2>4, <2>5 DEF endpoint
  <2>7. QED BY <2>6 DEF endpoint
<1>2. IInv /\ Addressed => RowAddressed
  BY <1>1 DEF RowAddressed
<1>3. QED BY <1>2, InitAddressed, NextAddressed, Invariance, PTL DEF Spec
=============================================================================
