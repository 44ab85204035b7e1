----------------------- MODULE WriteStatement_proofs ------------------------
(***************************************************************************)
(* That a statement over several rows changes each of them once, leaves    *)
(* none out and one at most in doubt, for any number of rows, calls and    *)
(* effects, and whatever the pages do.                                     *)
(***************************************************************************)
EXTENDS WriteStatement, FiniteSetTheorems, TLAPS

\* Calls are made one after the other: those to come are unused.
NumbersOK ==
  /\ calls \in 0..MaxCalls
  /\ first \in Nat \ {0} /\ first <= calls + 1
  /\ pc = "call" => calls \in first..MaxCalls
  /\ effects \in [Calls -> Nat]
  /\ DOMAIN result = Calls

UnusedAfter == \A c \in Calls : c > calls => result[c] = "unused"

\* Between two calls, the last one is carried out too.
CarriedOut ==
  \A c \in first..calls :
    (c # calls \/ pc \in {"scan", "done"}) => result[c] = "ok" /\ effects[c] > 0

IInv == NumbersOK /\ UnusedAfter /\ CarriedOut

LEMMA InitIInv == Init => IInv
  BY BoundsAssumption DEF Init, IInv, NumbersOK, UnusedAfter, CarriedOut, Contract!Init, Calls

\* A step that leaves the calls alone, but to begin or end a statement.
LEMMA Quiet ==
  ASSUME IInv, UNCHANGED <<calls, remote>>, pc # "call", pc' # "call",
         first' = calls + 1 \/ (first' = first /\ (pc' \in {"scan", "done"} => pc = "scan"))
  PROVE  IInv'
  <1>1. NumbersOK'
    BY BoundsAssumption DEF IInv, NumbersOK, remote
  <1>2. UnusedAfter'
    BY DEF IInv, UnusedAfter, remote
  <1>3. CarriedOut'
    BY BoundsAssumption DEF IInv, CarriedOut, NumbersOK, remote
  <1> QED BY <1>1, <1>2, <1>3 DEF IInv

LEMMA SendIInv == IInv /\ Send => IInv'
  <1> SUFFICES ASSUME IInv, Send PROVE IInv'
    OBVIOUS
  <1> USE BoundsAssumption
  <1>1. calls + 1 \in Calls /\ calls' = calls + 1 /\ pc' = "call" /\ first' = first
    BY DEF IInv, NumbersOK, Send, Calls
  <1>2. effects' = effects /\ result' = [result EXCEPT ![calls + 1] = "pending"]
    BY DEF Send, Contract!Start
  <1>3. pc = "scan"
    BY DEF Send
  <1>4. NumbersOK'
    BY <1>1, <1>2 DEF IInv, NumbersOK, Calls
  <1>5. UnusedAfter'
    BY <1>1, <1>2 DEF IInv, NumbersOK, UnusedAfter, Calls
  <1>6. CarriedOut'
    <2>1. SUFFICES ASSUME NEW c \in first..calls
                   PROVE  result'[c] = "ok" /\ effects'[c] > 0
      BY <1>1 DEF CarriedOut, IInv, NumbersOK
    <2>2. result[c] = "ok" /\ effects[c] > 0
      BY <1>3 DEF IInv, CarriedOut
    <2>3. c \in Calls /\ c # calls + 1
      BY DEF IInv, NumbersOK, Calls
    <2> QED BY <1>2, <2>2, <2>3 DEF IInv, NumbersOK
  <1> QED BY <1>4, <1>5, <1>6 DEF IInv

LEMMA ReturnIInv == ASSUME NEW r \in {"ok", "error"}, IInv, Return(r) PROVE IInv'
  <1> USE BoundsAssumption
  <1>1. /\ calls \in Calls /\ calls' = calls /\ first' = first /\ effects' = effects
        /\ result' = [result EXCEPT ![calls] = r]
        /\ r = "ok" => effects[calls] > 0
    BY DEF IInv, NumbersOK, Return, Contract!Return, Calls
  <1>2. pc = "call" /\ ((pc' = "scan" /\ r = "ok") \/ pc' = "failed")
    BY DEF Return, AfterCall
  <1>3. NumbersOK'
    BY <1>1, <1>2 DEF IInv, NumbersOK, Calls
  <1>4. UnusedAfter'
    BY <1>1 DEF IInv, NumbersOK, UnusedAfter, Calls
  <1>5. CarriedOut'
    <2>1. SUFFICES ASSUME NEW c \in first..calls, c # calls \/ pc' = "scan"
                   PROVE  result'[c] = "ok" /\ effects'[c] > 0
      BY <1>1, <1>2 DEF CarriedOut
    <2>2. c \in Calls
      BY DEF IInv, NumbersOK, Calls
    <2>3. CASE c = calls
      BY <1>1, <1>2, <2>1, <2>3 DEF IInv, NumbersOK
    <2>4. CASE c # calls
      BY <1>1, <2>2, <2>4 DEF IInv, NumbersOK, CarriedOut
    <2> QED BY <2>3, <2>4
  <1> QED BY <1>3, <1>4, <1>5 DEF IInv

\* The origin only adds effects.
LEMMA EffectIInv == ASSUME NEW k \in Calls, IInv, Effect(k) PROVE IInv'
  <1>1. UNCHANGED <<pc, calls, first, result>> /\ effects' = [effects EXCEPT ![k] = @ + 1]
    BY DEF Effect, Contract!Effect
  <1>2. NumbersOK'
    BY <1>1 DEF IInv, NumbersOK
  <1>3. UnusedAfter'
    BY <1>1 DEF IInv, UnusedAfter
  <1>4. CarriedOut'
    BY <1>1, BoundsAssumption DEF IInv, NumbersOK, CarriedOut, Calls
  <1> QED BY <1>2, <1>3, <1>4 DEF IInv

LEMMA NextIInv == IInv /\ [Next]_vars => IInv'
  <1> SUFFICES ASSUME IInv, [Next]_vars PROVE IInv'
    OBVIOUS
  <1>1. ASSUME NEW k \in Kinds, Begin(k) PROVE IInv'
    BY <1>1, Quiet DEF Begin, remote
  <1>2. CASE FetchPage
    BY <1>2, Quiet DEF FetchPage, remote
  <1>3. CASE Reject
    BY <1>3, Quiet DEF Reject, remote
  <1>4. CASE Send
    BY <1>4, SendIInv
  <1>5. ASSUME NEW r \in {"ok", "error"}, Return(r) PROVE IInv'
    BY <1>5, ReturnIInv
  <1>6. CASE Finish
    BY <1>6, Quiet DEF Finish, remote
  <1>7. ASSUME NEW c \in Calls, Effect(c) PROVE IInv'
    BY <1>7, EffectIInv
  <1>8. ASSUME NEW id \in Ids, OtherClient(id) PROVE IInv'
    BY <1>8 DEF OtherClient, remote, IInv, NumbersOK, UnusedAfter, CarriedOut
  <1>9. CASE UNCHANGED vars
    BY <1>9 DEF vars, remote, IInv, NumbersOK, UnusedAfter, CarriedOut
  <1> QED
    BY <1>1, <1>2, <1>3, <1>4, <1>5, <1>6, <1>7, <1>8, <1>9 DEF Next, Statement

\* A statement over several rows that stops, whether it fails or not, has carried
\* out every row before the one it stopped at (insert, update and delete, each of
\* which ends the statement when execute_mutation returns an error).
THEOREM OneAtATime == Spec => []OneRowInDoubt
  <1>1. IInv => OneRowInDoubt
    BY DEF IInv, CarriedOut, OneRowInDoubt
  <1> QED BY InitIInv, NextIInv, <1>1, PTL DEF Spec

-----------------------------------------------------------------------------
\* Types.

\* The calls made are about rows and belong to statements.
MadeOK ==
  /\ pc \in {"scan", "call"} => kind \in Kinds
  /\ \A c \in 1..calls : target[c] \in Ids /\ op[c] \in Kinds

TInv == IInv /\ TypeOK /\ MadeOK

LEMMA FiniteIds ==
  ASSUME NEW ids \in SUBSET Ids
  PROVE  IsFiniteSet(ids) /\ Cardinality(ids) \in Nat
  BY IdsAssumption, FS_Subset, FS_CardinalityType

\* A finite set of identities has an order: each one stands at the number of those up to it.
LEMMA OrderedExists ==
  ASSUME NEW ids \in SUBSET Ids
  PROVE  \E s \in [1..Cardinality(ids) -> ids] : \A i, j \in DOMAIN s : i < j => s[i] < s[j]
  <1> DEFINE n == Cardinality(ids)
             upTo(x) == {y \in ids : y <= x}
             rank == [x \in ids |-> Cardinality(upTo(x))]
  <1>1. ids \subseteq Nat /\ IsFiniteSet(ids) /\ n \in Nat
    BY FiniteIds, IdsAssumption
  <1>2. ASSUME NEW x \in ids PROVE IsFiniteSet(upTo(x)) /\ rank[x] \in 1..n
    <2>1. IsFiniteSet(upTo(x)) /\ Cardinality(upTo(x)) <= n
      BY <1>1, FS_Subset
    <2>2. Cardinality(upTo(x)) \in Nat
      BY <2>1, FS_CardinalityType
    <2>3. x \in upTo(x)
      BY <1>1
    <2>4. Cardinality(upTo(x)) # 0
      BY <2>1, <2>3, FS_EmptySet
    <2> QED BY <1>1, <2>1, <2>2, <2>4
  <1>3. ASSUME NEW x \in ids, NEW y \in ids, x < y PROVE rank[x] < rank[y]
    <2>1. upTo(x) \in SUBSET upTo(y) /\ y \in upTo(y) /\ y \notin upTo(x)
      <3>1. x \in Nat /\ y \in Nat /\ \A z \in upTo(x) : z \in Nat /\ z <= x
        BY <1>1
      <3>2. \A z \in upTo(x) : z <= y
        BY <1>3, <3>1
      <3>3. y <= y /\ ~ (y <= x)
        BY <1>3, <3>1
      <3>4. upTo(x) \subseteq ids
        OBVIOUS
      <3>5. upTo(x) \subseteq upTo(y)
        BY <3>2, <3>4
      <3> QED BY <3>3, <3>5
    <2>2. Cardinality(upTo(x)) <= Cardinality(upTo(y)) /\ Cardinality(upTo(x)) # Cardinality(upTo(y))
      BY <1>2, <2>1, FS_Subset
    <2> QED BY <1>2, <2>2
  <1>4. rank \in Injection(ids, 1..n)
    <2>1. rank \in [ids -> 1..n]
      BY <1>2
    <2>2. ASSUME NEW x \in ids, NEW y \in ids, rank[x] = rank[y] PROVE x = y
      BY <1>1, <1>2, <1>3, <2>2
    <2> QED BY <2>1, <2>2 DEF Injection, IsInjective
  <1>5. \A i \in 1..n : \E x \in ids : rank[x] = i
    <2>1. IsFiniteSet(1..n) /\ Cardinality(1..n) = n
      BY <1>1, FS_Interval
    <2>2. rank \in Surjection(ids, 1..n)
      BY <1>4, <2>1, FS_Injection
    <2> QED BY <2>2 DEF Surjection
  <1> DEFINE s == [i \in 1..n |-> CHOOSE x \in ids : rank[x] = i]
  <1>6. \A i \in 1..n : s[i] \in ids /\ rank[s[i]] = i
    BY <1>5
  <1> HIDE DEF rank, n
  <1>7. ASSUME NEW i \in 1..n, NEW j \in 1..n, i < j PROVE s[i] < s[j]
    <2>1. s[i] \in Nat /\ s[j] \in Nat
      BY <1>1, <1>6
    <2>2. CASE s[j] < s[i]
      BY <1>3, <1>6, <1>7, <2>2
    <2>3. CASE s[j] = s[i]
      BY <1>6, <1>7, <2>3
    <2> QED BY <2>1, <2>2, <2>3
  <1>8. s \in [1..n -> ids]
    BY <1>6
  <1> QED BY <1>7, <1>8 DEF n

\* What an ordered set is, whatever set of identities it is.
LEMMA OrderedFacts ==
  ASSUME NEW ids \in SUBSET Ids
  PROVE  /\ Cardinality(ids) \in Nat
         /\ Ordered(ids) \in [1..Cardinality(ids) -> ids]
         /\ \A i, j \in 1..Cardinality(ids) : i < j => Ordered(ids)[i] < Ordered(ids)[j]
         /\ \A id \in ids : \E i \in 1..Cardinality(ids) : Ordered(ids)[i] = id
  <1> DEFINE n == Cardinality(ids)
  <1>1. ids \subseteq Nat /\ IsFiniteSet(ids) /\ n \in Nat
    BY FiniteIds, IdsAssumption
  <1>2. /\ Ordered(ids) \in [1..n -> ids]
        /\ \A i, j \in DOMAIN Ordered(ids) : i < j => Ordered(ids)[i] < Ordered(ids)[j]
    BY OrderedExists DEF Ordered
  <1>3. Ordered(ids) \in Injection(1..n, ids)
    <2>1. ASSUME NEW i \in 1..n, NEW j \in 1..n, Ordered(ids)[i] = Ordered(ids)[j] PROVE i = j
      <3>1. Ordered(ids)[i] \in Nat /\ DOMAIN Ordered(ids) = 1..n
        BY <1>1, <1>2
      <3>2. ~ (i < j) /\ ~ (j < i)
        BY <1>2, <2>1, <3>1
      <3> QED BY <1>1, <3>2
    <2> QED BY <1>2, <2>1 DEF Injection, IsInjective
  <1>4. Ordered(ids) \in Surjection(1..n, ids)
    BY <1>1, <1>3, FS_Injection, FS_Interval
  <1> QED BY <1>1, <1>2, <1>4 DEF Surjection

\* The rows after a position, in the order of the pages.
LEMMA FollowingFacts ==
  ASSUME TypeOK, next \in Nat
  PROVE  /\ Following(next) \in Seq(collection)
         /\ keyset =>
              /\ \A i, j \in 1..Len(Following(next)) : i < j => Following(next)[i] < Following(next)[j]
              /\ \A i \in 1..Len(Following(next)) : Following(next)[i] > next
              /\ \A id \in collection : id > next => \E i \in 1..Len(Following(next)) : Following(next)[i] = id
         /\ ~keyset =>
              /\ Len(Following(next)) = IF next < Cardinality(collection) THEN Cardinality(collection) - next ELSE 0
              /\ \A i \in 1..Len(Following(next)) : Following(next)[i] = Ordered(collection)[next + i]
  <1> DEFINE beyond == {id \in collection : id > next}
             all == Ordered(collection)
             n == Cardinality(collection)
  <1>1. collection \in SUBSET Ids /\ beyond \in SUBSET Ids
    BY DEF TypeOK
  <1>2. CASE keyset
    <2>1. Following(next) = Ordered(beyond)
      BY <1>2 DEF Following
    <2>2. Ordered(beyond) \in [1..Cardinality(beyond) -> beyond] /\ Cardinality(beyond) \in Nat
      BY <1>1, OrderedFacts
    <2>3. Ordered(beyond) \in Seq(collection) /\ Len(Ordered(beyond)) = Cardinality(beyond)
      BY <2>2
    <2>4. \A i \in 1..Cardinality(beyond) : Ordered(beyond)[i] > next
      BY <2>2
    <2>5. /\ \A i, j \in 1..Cardinality(beyond) : i < j => Ordered(beyond)[i] < Ordered(beyond)[j]
          /\ \A id \in beyond : \E i \in 1..Cardinality(beyond) : Ordered(beyond)[i] = id
      BY <1>1, OrderedFacts
    <2> HIDE DEF beyond
    <2>6. \A id \in collection : id > next => id \in beyond
      BY DEF beyond
    <2> QED BY <1>2, <2>1, <2>3, <2>4, <2>5, <2>6
  <1>3. CASE ~keyset
    <2>1. Following(next) = SubSeq(all, next + 1, n)
      BY <1>3 DEF Following
    <2>2. all \in [1..n -> collection] /\ n \in Nat
      BY <1>1, OrderedFacts
    <2>3. all \in Seq(collection) /\ Len(all) = n
      BY <2>2
    <2> HIDE DEF all, n
    <2>4. /\ SubSeq(all, next + 1, n) \in Seq(collection)
          /\ Len(SubSeq(all, next + 1, n)) = IF next < n THEN n - next ELSE 0
          /\ \A i \in 1..Len(SubSeq(all, next + 1, n)) : SubSeq(all, next + 1, n)[i] = all[next + i]
      BY <2>2, <2>3
    <2> QED BY <1>3, <2>1, <2>4 DEF all, n
  <1> QED BY <1>2, <1>3

\* A page is the first rows of those, and its token says where the next one begins.
LEMMA PageFacts ==
  ASSUME TypeOK, FetchPage
  PROVE  /\ next \in Nat /\ Following(next) \in Seq(collection)
         /\ buffered' \in Seq(collection)
         /\ \A i \in 1..Len(buffered') : buffered'[i] = Following(next)[i]
         /\ \/ /\ Len(Following(next)) <= PageRows
               /\ Len(buffered') = Len(Following(next)) /\ next' = None
            \/ /\ Len(Following(next)) > PageRows /\ Len(buffered') = PageRows
               /\ next' = IF keyset THEN buffered'[PageRows] ELSE next + PageRows
  <1> DEFINE rest == Following(next)
             size == IF Len(rest) < PageRows THEN Len(rest) ELSE PageRows
  <1>1. next \in Nat /\ rest \in Seq(collection)
    BY FollowingFacts DEF FetchPage, TypeOK
  <1>2. buffered' = SubSeq(rest, 1, size) /\ next' = Token(buffered', Len(rest) > PageRows)
    BY DEF FetchPage
  <1> HIDE DEF rest
  <1>3. /\ buffered' \in Seq(collection) /\ Len(buffered') = size
        /\ \A i \in 1..Len(buffered') : buffered'[i] = rest[i]
    BY <1>1, <1>2, BoundsAssumption
  <1>4. CASE Len(rest) > PageRows
    BY <1>1, <1>2, <1>3, <1>4, BoundsAssumption DEF Token, Last, rest
  <1>5. CASE Len(rest) <= PageRows
    BY <1>1, <1>2, <1>3, <1>5, BoundsAssumption DEF Token, rest
  <1> QED BY <1>1, <1>3, <1>4, <1>5, BoundsAssumption DEF rest

LEMMA InitTInv == Init => TInv
  <1> SUFFICES ASSUME Init PROVE TypeOK /\ MadeOK
    BY InitIInv DEF TInv
  <1>1. TypeOK
    BY BoundsAssumption DEF Init, TypeOK, Contract!Init, Calls, None
  <1>2. MadeOK
    BY DEF Init, MadeOK
  <1> QED BY <1>1, <1>2

LEMMA NextTInv == TInv /\ [Next]_vars => TInv'
  <1> SUFFICES ASSUME TInv, [Next]_vars PROVE TypeOK' /\ MadeOK'
    BY NextIInv DEF TInv
  <1> USE BoundsAssumption, KindsAssumption DEF TInv
  <1>1. ASSUME NEW k \in Kinds, Begin(k) PROVE TypeOK' /\ MadeOK'
    <2>1. buffered' \in Seq(Ids) /\ next' \in Nat \cup {None}
      <3>1. CASE k = "insert"
        <4>1. PICK new \in SUBSET (Ids \ collection) : buffered' = Ordered(new)
          BY <1>1, <3>1 DEF Begin
        <4>2. Ordered(new) \in [1..Cardinality(new) -> new] /\ Cardinality(new) \in Nat
          BY OrderedFacts
        <4>3. Ordered(new) \in Seq(Ids)
          BY <4>2
        <4> QED BY <1>1, <3>1, <4>1, <4>3 DEF Begin
      <3>2. CASE k # "insert"
        BY <1>1, <3>2 DEF Begin
      <3> QED BY <3>1, <3>2
    <2> QED BY <1>1, <2>1 DEF Begin, TypeOK, MadeOK, remote
  <1>2. CASE FetchPage
    <2>1. buffered' \in Seq(Ids) /\ next' \in Nat \cup {None}
      <3>1. buffered' \in Seq(collection)
        BY <1>2, PageFacts
      <3>2. buffered' \in Seq(Ids)
        BY <3>1 DEF TypeOK
      <3>3. next' = None \/ (Len(buffered') = PageRows /\ next' \in {buffered'[PageRows], next + PageRows})
        BY <1>2, PageFacts
      <3>4. next \in Nat
        BY <1>2, PageFacts
      <3>5. Len(buffered') = PageRows => buffered'[PageRows] \in Ids
        BY <3>2
      <3>6. Ids \subseteq Nat /\ next + PageRows \in Nat
        BY <3>4, IdsAssumption
      <3> QED BY <3>2, <3>3, <3>5, <3>6
    <2> QED BY <1>2, <2>1 DEF FetchPage, TypeOK, MadeOK, remote
  <1>3. CASE Reject
    BY <1>3 DEF Reject, TypeOK, MadeOK, remote
  <1>4. CASE Send
    <2>1. /\ calls + 1 \in Calls /\ calls' = calls + 1 /\ first' = first
          /\ Head(buffered) \in Ids /\ buffered' \in Seq(Ids)
      BY <1>4 DEF Send, TypeOK, Calls
    <2>2. /\ target' = [target EXCEPT ![calls + 1] = Head(buffered)]
          /\ op' = [op EXCEPT ![calls + 1] = kind]
          /\ effects' = effects /\ result' = [result EXCEPT ![calls + 1] = "pending"]
          /\ idempotent' = [idempotent EXCEPT ![calls + 1] = kind \in IdempotentKinds]
          /\ pc' = "call" /\ pc = "scan"
          /\ UNCHANGED <<keyset, collection, kind, next, first, initial, changed, changes>>
      BY <1>4 DEF Send, Contract!Start
    <2>3. /\ target' \in [Calls -> Ids \cup {None}] /\ op' \in [Calls -> Kinds \cup {"none"}]
          /\ result' \in [Calls -> {"unused", "pending", "ok", "error"}]
      BY <2>1, <2>2 DEF TypeOK
    <2>4. idempotent' \in [Calls -> BOOLEAN]
      <3>1. (kind \in IdempotentKinds) \in BOOLEAN
        OBVIOUS
      <3> QED BY <2>2, <3>1 DEF TypeOK
    <2>5. TypeOK'
      BY <2>1, <2>2, <2>3, <2>4 DEF TypeOK, Calls
    <2>6. MadeOK'
      BY <2>1, <2>2 DEF TypeOK, MadeOK, Calls
    <2> QED BY <2>5, <2>6
  <1>5. ASSUME NEW r \in {"ok", "error"}, Return(r) PROVE TypeOK' /\ MadeOK'
    BY <1>5 DEF Return, AfterCall, Contract!Return, TypeOK, MadeOK
  <1>6. CASE Finish
    BY <1>6 DEF Finish, TypeOK, MadeOK, remote
  <1>7. ASSUME NEW c \in Calls, Effect(c) PROVE TypeOK' /\ MadeOK'
    <2>1. c \in 1..calls
      BY <1>7 DEF Effect, Contract!Effect, IInv, UnusedAfter, TypeOK, Calls
    <2>2. target[c] \in Ids /\ op[c] \in {"insert", "update", "delete"}
      BY <2>1 DEF MadeOK
    <2>3. collection' \subseteq Ids /\ changed' \subseteq Ids
      BY <1>7, <2>2 DEF Effect, TypeOK
    <2>4. effects' \in [Calls -> Nat]
      BY <1>7 DEF Effect, Contract!Effect, TypeOK
    <2> QED BY <1>7, <2>3, <2>4 DEF Effect, Contract!Effect, TypeOK, MadeOK
  <1>8. ASSUME NEW id \in Ids, OtherClient(id) PROVE TypeOK' /\ MadeOK'
    BY <1>8 DEF OtherClient, TypeOK, MadeOK, remote
  <1>9. CASE UNCHANGED vars
    BY <1>9 DEF vars, TypeOK, MadeOK, remote
  <1> QED
    BY <1>1, <1>2, <1>3, <1>4, <1>5, <1>6, <1>7, <1>8, <1>9 DEF Next, Statement

-----------------------------------------------------------------------------
\* No row twice.

OneKind == \A c \in first..calls : op[c] = kind

\* The contract of one call: a method that is not idempotent is carried out once.
AtMostOnce ==
  \A c \in Calls : (result[c] = "unused" => effects[c] = 0) /\ (idempotent[c] \/ effects[c] <= 1)

\* Rows are taken in the order of their identities, and those of the pages to come
\* follow the ones of the page at hand.
Ascending ==
  keyset =>
    /\ \A c, d \in first..calls : c < d => target[c] < target[d]
    /\ \A i, j \in 1..Len(buffered) : i < j => buffered[i] < buffered[j]
    /\ \A c \in first..calls, i \in 1..Len(buffered) : target[c] < buffered[i]
    /\ next # None =>
         /\ \A c \in first..calls : target[c] <= next
         /\ \A i \in 1..Len(buffered) : buffered[i] <= next

OInv == OneKind /\ AtMostOnce /\ Ascending

\* A step that takes no row leaves those to come alone.
LEMMA NoRowTaken ==
  ASSUME OInv, UNCHANGED <<keyset, kind, buffered, next, calls, first, target, op>>
  PROVE  OneKind' /\ Ascending'
  BY DEF OInv, OneKind, Ascending

LEMMA NoCallMade ==
  ASSUME OInv, UNCHANGED remote
  PROVE  AtMostOnce'
  BY DEF OInv, AtMostOnce, remote

LEMMA BeginOInv == ASSUME TInv, OInv, NEW k \in Kinds, Begin(k) PROVE OInv'
  <1>1. first' = calls' + 1 /\ calls' \in Nat /\ UNCHANGED <<keyset, remote>>
    BY BoundsAssumption DEF Begin, TInv, TypeOK
  <1>2. first'..calls' = {}
    <2>1. \A n \in Nat : (n + 1)..n = {}
      OBVIOUS
    <2> QED BY <1>1, <2>1
  <1>3. /\ \A i, j \in 1..Len(buffered') : i < j => buffered'[i] < buffered'[j]
        /\ next' # None => buffered' = <<>>
    <2>1. CASE k = "insert"
      <3>1. PICK new \in SUBSET (Ids \ collection) : buffered' = Ordered(new)
        BY <2>1 DEF Begin
      <3>2. /\ Ordered(new) \in [1..Cardinality(new) -> new] /\ Cardinality(new) \in Nat
            /\ \A i, j \in 1..Cardinality(new) : i < j => Ordered(new)[i] < Ordered(new)[j]
        BY OrderedFacts
      <3>3. Len(Ordered(new)) = Cardinality(new)
        BY <3>2
      <3> QED BY <2>1, <3>1, <3>2, <3>3 DEF Begin
    <2>2. CASE k # "insert"
      BY <2>2 DEF Begin
    <2> QED BY <2>1, <2>2
  <1>4. OneKind' /\ Ascending'
    BY <1>2, <1>3 DEF OneKind, Ascending
  <1> QED BY <1>1, <1>4, NoCallMade DEF OInv

LEMMA FetchOInv == ASSUME TInv, OInv, FetchPage PROVE OInv'
  <1>1. /\ UNCHANGED <<keyset, kind, calls, first, target, op, remote>>
        /\ buffered = <<>> /\ next # None
    BY DEF FetchPage
  <1>2. OneKind'
    BY <1>1 DEF OInv, OneKind
  <1>3. ASSUME keyset PROVE Ascending'
    <2> DEFINE rest == Following(next)
    <2>1. TypeOK /\ next \in Nat
      BY PageFacts DEF TInv
    <2>2. /\ rest \in Seq(collection)
          /\ \A i, j \in 1..Len(rest) : i < j => rest[i] < rest[j]
          /\ \A i \in 1..Len(rest) : rest[i] > next
      BY <1>3, <2>1, FollowingFacts
    <2>3. /\ \A i \in 1..Len(buffered') : buffered'[i] = rest[i]
          /\ Len(buffered') \in Nat /\ Len(rest) \in Nat /\ Len(buffered') <= Len(rest)
          /\ next' # None => Len(buffered') = PageRows /\ next' = buffered'[PageRows]
      BY <1>3, <2>1, PageFacts, BoundsAssumption
    <2>4. \A i \in 1..Len(buffered') : buffered'[i] \in Nat /\ buffered'[i] > next
      <3>1. collection \subseteq Nat
        BY IdsAssumption, <2>1 DEF TypeOK
      <3>2. \A i \in 1..Len(buffered') : i \in 1..Len(rest)
        BY <2>3
      <3>3. \A i \in 1..Len(rest) : rest[i] \in collection
        BY <2>2
      <3> HIDE DEF rest
      <3> QED BY <2>2, <2>3, <3>1, <3>2, <3>3
    <2> HIDE DEF rest
    <2>5. \A i, j \in 1..Len(buffered') : i < j => buffered'[i] < buffered'[j]
      BY <2>2, <2>3
    <2>6. \A c \in first..calls : target[c] <= next /\ target[c] \in Nat
      <3>1. \A c \in first..calls : c \in 1..calls
        BY BoundsAssumption DEF TInv, TypeOK
      <3>2. \A c \in first..calls : target[c] \in Nat
        BY <3>1, IdsAssumption DEF TInv, MadeOK
      <3> QED BY <1>1, <1>3, <3>2 DEF OInv, Ascending
    <2>7. \A c \in first..calls, i \in 1..Len(buffered') : target[c] < buffered'[i]
      BY <2>1, <2>4, <2>6
    <2>8. ASSUME next' # None
          PROVE  /\ \A c \in first..calls : target[c] <= next'
                 /\ \A i \in 1..Len(buffered') : buffered'[i] <= next'
      <3>1. PageRows \in 1..Len(buffered') /\ next' = buffered'[PageRows]
        BY <2>3, <2>8, BoundsAssumption
      <3>2. \A c \in first..calls : target[c] <= next'
        BY <2>4, <2>6, <2>7, <3>1
      <3>3. \A i \in 1..Len(buffered') : i < PageRows \/ i = PageRows
        BY <2>3, <2>8, BoundsAssumption
      <3>4. \A i \in 1..Len(buffered') : buffered'[i] <= next'
        BY <2>4, <2>5, <3>1, <3>3
      <3> QED BY <3>2, <3>4
    <2>9. \A c, d \in first..calls : c < d => target[c] < target[d]
      BY <1>3 DEF OInv, Ascending
    <2> QED BY <1>1, <2>5, <2>7, <2>8, <2>9 DEF Ascending
  <1>4. Ascending'
    BY <1>1, <1>3 DEF Ascending
  <1> QED BY <1>1, <1>2, <1>4, NoCallMade DEF OInv

LEMMA SendOInv == ASSUME TInv, OInv, Send PROVE OInv'
  <1> USE BoundsAssumption
  <1>1. /\ calls \in Nat /\ calls + 1 \in Calls /\ calls' = calls + 1
        /\ first \in Nat /\ first <= calls + 1 /\ buffered # <<>> /\ buffered \in Seq(Ids)
        /\ UNCHANGED <<keyset, kind, next, first>>
        /\ target' = [target EXCEPT ![calls + 1] = buffered[1]]
        /\ op' = [op EXCEPT ![calls + 1] = kind]
        /\ buffered' = Tail(buffered)
        /\ effects' = effects /\ result' = [result EXCEPT ![calls + 1] = "pending"]
        /\ idempotent' = [idempotent EXCEPT ![calls + 1] = kind \in IdempotentKinds]
        /\ result[calls + 1] = "unused"
    <2>1. calls \in Nat /\ calls + 1 \in Calls /\ first \in Nat /\ first <= calls + 1 /\ buffered \in Seq(Ids)
      BY DEF Send, TInv, TypeOK, IInv, NumbersOK, Calls
    <2>2. buffered # <<>> => Head(buffered) = buffered[1]
      BY <2>1
    <2> QED BY <2>1, <2>2 DEF Send, Contract!Start
  <1>2. \A c \in first..calls' : c = calls + 1 \/ (c \in first..calls /\ c # calls + 1 /\ c \in Calls)
    <2>1. calls \in Nat /\ calls + 1 \in 1..MaxCalls /\ calls' = calls + 1 /\ first \in Nat \ {0} /\ first' = first
      BY <1>1 DEF Calls, TInv, TypeOK
    <2> QED BY <2>1 DEF Calls
  <1>3. /\ \A c \in first..calls : target'[c] = target[c] /\ op'[c] = op[c]
        /\ target'[calls + 1] = buffered[1] /\ op'[calls + 1] = kind
    BY <1>1 DEF TInv, TypeOK, Calls
  <1>4. OneKind'
    BY <1>1, <1>2, <1>3 DEF OInv, OneKind
  <1>5. AtMostOnce'
    <2> SUFFICES ASSUME NEW c \in Calls
                 PROVE  (result'[c] = "unused" => effects'[c] = 0) /\ (idempotent'[c] \/ effects'[c] <= 1)
      BY DEF AtMostOnce
    <2>1. CASE c = calls + 1
      BY <1>1, <2>1 DEF TInv, TypeOK, OInv, AtMostOnce
    <2>2. CASE c # calls + 1
      BY <1>1, <2>2 DEF TInv, TypeOK, OInv, AtMostOnce
    <2> QED BY <2>1, <2>2
  <1>6. ASSUME keyset PROVE Ascending'
    <2>1. /\ \A c, d \in first..calls : c < d => target[c] < target[d]
          /\ \A i, j \in 1..Len(buffered) : i < j => buffered[i] < buffered[j]
          /\ \A c \in first..calls, i \in 1..Len(buffered) : target[c] < buffered[i]
          /\ next # None =>
               /\ \A c \in first..calls : target[c] <= next
               /\ \A i \in 1..Len(buffered) : buffered[i] <= next
      BY <1>6 DEF OInv, Ascending
    <2>2. /\ Len(buffered') = Len(buffered) - 1 /\ Len(buffered) \in Nat \ {0}
          /\ \A i \in 1..Len(buffered') : buffered'[i] = buffered[i + 1] /\ i + 1 \in 1..Len(buffered) /\ 1 < i + 1
          /\ 1 \in 1..Len(buffered)
      BY <1>1
    <2>3. \A c, d \in first..calls' : c < d => target'[c] < target'[d]
      <3> SUFFICES ASSUME NEW c \in first..calls', NEW d \in first..calls', c < d PROVE target'[c] < target'[d]
        OBVIOUS
      <3>1. c \in first..calls
        BY <1>1
      <3> QED BY <1>2, <1>3, <2>1, <2>2, <3>1
    <2>4. \A i, j \in 1..Len(buffered') : i < j => buffered'[i] < buffered'[j]
      <3> SUFFICES ASSUME NEW i \in 1..Len(buffered'), NEW j \in 1..Len(buffered'), i < j
                   PROVE  buffered'[i] < buffered'[j]
        OBVIOUS
      <3>1. i + 1 < j + 1
        BY <2>2
      <3> QED BY <2>1, <2>2, <3>1
    <2>5. \A c \in first..calls', i \in 1..Len(buffered') : target'[c] < buffered'[i]
      BY <1>2, <1>3, <2>1, <2>2
    <2>6. next # None =>
            /\ \A c \in first..calls' : target'[c] <= next
            /\ \A i \in 1..Len(buffered') : buffered'[i] <= next
      BY <1>2, <1>3, <2>1, <2>2
    <2> QED BY <1>1, <2>3, <2>4, <2>5, <2>6 DEF Ascending
  <1>7. Ascending'
    BY <1>1, <1>6 DEF Ascending
  <1> QED BY <1>4, <1>5, <1>7 DEF OInv

LEMMA EffectOInv == ASSUME TInv, OInv, NEW k \in Calls, Effect(k) PROVE OInv'
  <1>1. /\ UNCHANGED <<keyset, kind, buffered, next, calls, first, target, op, idempotent, result>>
        /\ effects' = [effects EXCEPT ![k] = @ + 1]
        /\ result[k] # "unused" /\ (idempotent[k] \/ effects[k] = 0)
    BY DEF Effect, Contract!Effect
  <1>2. AtMostOnce'
    BY <1>1 DEF TInv, TypeOK, OInv, AtMostOnce
  <1> QED BY <1>1, <1>2, NoRowTaken DEF OInv

LEMMA ReturnOInv == ASSUME TInv, OInv, NEW r \in {"ok", "error"}, Return(r) PROVE OInv'
  <1>1. /\ UNCHANGED <<keyset, kind, buffered, next, calls, first, target, op, idempotent, effects>>
        /\ result' = [result EXCEPT ![calls] = r] /\ calls \in Calls /\ result[calls] = "pending"
    BY DEF Return, Contract!Return, TInv, IInv, NumbersOK, Calls
  <1>2. AtMostOnce'
    BY <1>1 DEF TInv, TypeOK, OInv, AtMostOnce
  <1> QED BY <1>1, <1>2, NoRowTaken DEF OInv

LEMMA InitOInv == Init => OInv
  <1> SUFFICES ASSUME Init PROVE OInv
    OBVIOUS
  <1>1. calls = 0 /\ first = 1 /\ buffered = <<>> /\ next = None
    BY DEF Init
  <1>2. OneKind /\ Ascending
    BY <1>1 DEF OneKind, Ascending
  <1>3. AtMostOnce
    BY DEF Init, Contract!Init, AtMostOnce
  <1> QED BY <1>2, <1>3 DEF OInv

LEMMA NextOInv == TInv /\ OInv /\ [Next]_vars => OInv'
  <1> SUFFICES ASSUME TInv, OInv, [Next]_vars PROVE OInv'
    OBVIOUS
  <1>1. ASSUME Reject \/ Finish \/ (\E id \in Ids : OtherClient(id)) \/ UNCHANGED vars PROVE OInv'
    <2>1. UNCHANGED <<keyset, kind, buffered, next, calls, first, target, op, remote>>
      BY <1>1 DEF Reject, Finish, OtherClient, vars
    <2> QED BY <2>1, NoRowTaken, NoCallMade DEF OInv
  <1> QED BY <1>1, BeginOInv, FetchOInv, SendOInv, ReturnOInv, EffectOInv DEF Next, Statement

-----------------------------------------------------------------------------
\* No row left out.

Reached(id) ==
  \/ \E c \in first..calls : target[c] = id
  \/ \E i \in 1..Len(buffered) : buffered[i] = id

\* What nothing else changed is there, or one of the statement's calls is about it.
Present ==
  kind # "insert" =>
    \A id \in initial \ changed : id \in collection \/ \E c \in first..calls : target[c] = id

\* An UPDATE moves no row.
Unmoved == kind = "update" /\ changed = {} => collection = initial

\* The rows that are not reached yet follow the last one served, or the place of it.
Covered ==
  kind # "insert" /\ keyset =>
    \A id \in initial \ changed : Reached(id) \/ (next # None /\ id > next)

CoveredByPlace ==
  kind = "update" /\ changed = {} /\ ~keyset =>
    \A i \in 1..Cardinality(initial) : Reached(Ordered(initial)[i]) \/ (next # None /\ i > next)

\* A statement is done when it has been given every row of every page.
Ended == pc = "done" => buffered = <<>> /\ next = None

NInv == Present /\ Unmoved /\ Covered /\ CoveredByPlace /\ Ended

LEMMA InitNInv == Init => NInv
  <1> SUFFICES ASSUME Init PROVE NInv
    OBVIOUS
  <1>1. kind = "none" /\ initial = {} /\ pc = "idle"
    BY DEF Init
  <1> QED BY <1>1 DEF NInv, Present, Unmoved, Covered, CoveredByPlace, Ended

\* A step that takes no row and changes none.
LEMMA NothingMoves ==
  ASSUME NInv,
         UNCHANGED <<keyset, collection, kind, buffered, next, calls, first, target, initial, changed>>,
         Ended'
  PROVE  NInv'
  BY DEF NInv, Present, Unmoved, Covered, CoveredByPlace, Reached

LEMMA BeginNInv == ASSUME TInv, NEW k \in Kinds, Begin(k) PROVE NInv'
  <1>1. /\ kind' = k /\ initial' = collection /\ collection' = collection /\ changed' = {} /\ pc' = "scan"
        /\ k # "insert" => next' = 0
    BY DEF Begin
  <1>2. Present' /\ Unmoved' /\ Ended'
    BY <1>1 DEF Present, Unmoved, Ended
  <1>3. Covered'
    <2>1. \A id \in collection : id > 0
      BY IdsAssumption DEF TInv, TypeOK
    <2> QED BY <1>1, <2>1 DEF Covered, None
  <1>4. CoveredByPlace'
    <2>1. \A i \in 1..Cardinality(initial') : i > 0
      OBVIOUS
    <2> QED BY <1>1, <2>1 DEF CoveredByPlace, None
  <1> QED BY <1>2, <1>3, <1>4 DEF NInv

LEMMA FetchNInv == ASSUME TInv, NInv, FetchPage PROVE NInv'
  <1> DEFINE rest == Following(next)
             Ours(id) == \E c \in first..calls : target[c] = id
  <1>1. /\ UNCHANGED <<keyset, collection, pc, kind, calls, first, target, initial, changed>>
        /\ buffered = <<>> /\ next # None /\ pc = "scan"
    BY DEF FetchPage
  <1>2. TypeOK /\ next \in Nat /\ rest \in Seq(collection) /\ Len(rest) \in Nat
    BY PageFacts DEF TInv
  <1>3. /\ buffered' \in Seq(collection) /\ Len(buffered') \in Nat
        /\ \A i \in 1..Len(buffered') : buffered'[i] = rest[i]
        /\ \/ /\ Len(rest) <= PageRows /\ Len(buffered') = Len(rest) /\ next' = None
           \/ /\ Len(rest) > PageRows /\ Len(buffered') = PageRows
              /\ next' = IF keyset THEN buffered'[PageRows] ELSE next + PageRows
    BY <1>2, PageFacts
  <1>4. ASSUME NEW id PROVE Reached(id)' <=> Ours(id) \/ \E i \in 1..Len(buffered') : buffered'[i] = id
    BY <1>1 DEF Reached
  <1>5. ASSUME NEW id PROVE Reached(id) => Ours(id)
    BY <1>1 DEF Reached
  <1>6. Present' /\ Unmoved' /\ Ended'
    BY <1>1 DEF NInv, Present, Unmoved, Ended
  <1>7. Covered'
    <2> SUFFICES ASSUME kind # "insert", keyset, NEW id \in initial \ changed, ~ Ours(id)
                 PROVE  Reached(id)' \/ (next' # None /\ id > next')
      BY <1>1, <1>4 DEF Covered
    <2>1. id > next
      BY <1>5 DEF NInv, Covered
    <2>2. id \in collection
      BY DEF NInv, Present
    <2>3. PICK i \in 1..Len(rest) : rest[i] = id
      BY <1>2, <2>1, <2>2, FollowingFacts
    <2>4. CASE i \in 1..Len(buffered')
      BY <1>3, <1>4, <2>3, <2>4
    <2>5. CASE i \notin 1..Len(buffered')
      <3>1. /\ Len(buffered') = PageRows /\ Len(rest) > PageRows /\ next' = buffered'[PageRows]
            /\ PageRows \in 1..Len(rest) /\ PageRows \in 1..Len(buffered') /\ PageRows < i
        BY <1>2, <1>3, <2>5, BoundsAssumption
      <3>2. next' = rest[PageRows]
        BY <1>3, <3>1
      <3>3. rest[PageRows] < rest[i]
        BY <1>2, <2>3, <3>1, FollowingFacts
      <3>4. rest[PageRows] \in Nat /\ id \in Nat
        <4>1. rest[PageRows] \in collection /\ collection \subseteq Nat
          BY <1>2, <3>1, IdsAssumption DEF TypeOK
        <4> QED BY <2>2, <4>1
      <3> HIDE DEF rest
      <3> QED BY <2>3, <3>2, <3>3, <3>4 DEF None
    <2> QED BY <2>4, <2>5
  <1>8. CoveredByPlace'
    <2> SUFFICES ASSUME kind = "update", changed = {}, ~keyset,
                        NEW i \in 1..Cardinality(initial), ~ Ours(Ordered(initial)[i])
                 PROVE  Reached(Ordered(initial)[i])' \/ (next' # None /\ i > next')
      BY <1>1, <1>4 DEF CoveredByPlace
    <2>1. i > next /\ collection = initial
      BY <1>5 DEF NInv, CoveredByPlace, Unmoved
    <2>2. Cardinality(initial) \in Nat
      BY <1>2, OrderedFacts DEF TypeOK
    <2>3. /\ i - next \in 1..Len(rest)
          /\ \A j \in 1..Len(rest) : rest[j] = Ordered(initial)[next + j]
      <3>1. /\ Len(rest) = IF next < Cardinality(initial) THEN Cardinality(initial) - next ELSE 0
            /\ \A j \in 1..Len(rest) : rest[j] = Ordered(initial)[next + j]
        BY <1>2, <2>1, FollowingFacts
      <3> HIDE DEF rest
      <3> QED BY <1>2, <2>1, <2>2, <3>1
    <2>4. rest[i - next] = Ordered(initial)[i]
      <3>1. next + (i - next) = i
        BY <1>2
      <3> QED BY <2>3, <3>1
    <2> HIDE DEF rest
    <2>5. CASE i - next \in 1..Len(buffered')
      <3>1. buffered'[i - next] = Ordered(initial)[i]
        BY <1>3, <2>4, <2>5
      <3>2. Reached(Ordered(initial)[i])'
        BY <1>1, <2>5, <3>1 DEF Reached
      <3> QED BY <3>2
    <2>6. CASE i - next \notin 1..Len(buffered')
      <3>1. /\ i - next > PageRows /\ next' = next + PageRows
        BY <1>2, <1>3, <2>3, <2>6, BoundsAssumption
      <3> QED BY <1>2, <3>1, BoundsAssumption DEF None
    <2> QED BY <2>5, <2>6
  <1> QED BY <1>6, <1>7, <1>8 DEF NInv

LEMMA SendNInv == ASSUME TInv, NInv, Send PROVE NInv'
  <1>1. /\ calls \in Nat /\ calls' = calls + 1 /\ first \in Nat /\ first <= calls + 1
        /\ buffered # <<>> /\ buffered \in Seq(Ids) /\ buffered' = Tail(buffered)
        /\ UNCHANGED <<keyset, collection, kind, next, first, initial, changed>>
        /\ target' = [target EXCEPT ![calls + 1] = Head(buffered)]
        /\ calls + 1 \in Calls /\ DOMAIN target = Calls /\ pc' = "call"
    BY BoundsAssumption DEF Send, TInv, TypeOK, IInv, NumbersOK, Calls
  <1>2. \A c \in first..calls : c \in first..calls' /\ target'[c] = target[c]
    <2>1. \A c \in first..calls : c \in first..(calls + 1) /\ c # calls + 1 /\ c \in Calls
      <3>1. calls \in Nat /\ calls + 1 \in 1..MaxCalls /\ first \in Nat \ {0}
        BY <1>1 DEF Calls, TInv, TypeOK
      <3> QED BY <3>1, BoundsAssumption DEF Calls
    <2> QED BY <1>1, <2>1
  <1>3. calls + 1 \in first..calls' /\ target'[calls + 1] = buffered[1]
    BY <1>1
  <1>4. ASSUME NEW id, Reached(id) PROVE Reached(id)'
    <2>1. CASE \E c \in first..calls : target[c] = id
      BY <1>1, <1>2, <2>1 DEF Reached
    <2>2. ASSUME NEW i \in 1..Len(buffered), buffered[i] = id PROVE Reached(id)'
      <3>1. CASE i = 1
        BY <1>1, <1>3, <2>2, <3>1 DEF Reached
      <3>2. CASE i # 1
        <4>1. i - 1 \in 1..Len(buffered') /\ buffered'[i - 1] = buffered[i]
          BY <1>1, <3>2
        <4> QED BY <2>2, <4>1 DEF Reached
      <3> QED BY <3>1, <3>2
    <2> QED BY <1>4, <2>1, <2>2 DEF Reached
  <1>5. Present'
    BY <1>1, <1>2 DEF NInv, Present
  <1>6. Unmoved' /\ Ended'
    BY <1>1 DEF NInv, Unmoved, Ended
  <1>7. Covered' /\ CoveredByPlace'
    BY <1>1, <1>4 DEF NInv, Covered, CoveredByPlace
  <1> QED BY <1>5, <1>6, <1>7 DEF NInv

LEMMA EffectNInv == ASSUME TInv, OInv, NInv, NEW k \in Calls, Effect(k) PROVE NInv'
  <1>1. /\ UNCHANGED <<keyset, pc, kind, buffered, next, calls, first, target, initial>>
        /\ changed' = IF k < first THEN changed \cup {target[k]} ELSE changed
        /\ collection' \in {collection, collection \cup {target[k]}, collection \ {target[k]}}
        /\ op[k] = "update" => collection' = collection
        /\ op[k] = "delete" => collection' = collection \ {target[k]}
        /\ k \in 1..calls /\ op[k] \in {"insert", "update", "delete"}
    <2>1. k \in 1..calls
      BY DEF Effect, Contract!Effect, TInv, IInv, UnusedAfter, TypeOK, Calls
    <2>2. op[k] \in {"insert", "update", "delete"}
      BY <2>1, KindsAssumption DEF TInv, MadeOK
    <2> QED BY <2>1, <2>2 DEF Effect
  <1>2. ~ (k < first) => k \in first..calls /\ op[k] = kind
    BY <1>1, BoundsAssumption DEF OInv, OneKind, TInv, TypeOK
  <1>3. Present'
    <2> SUFFICES ASSUME kind # "insert", NEW id \in initial \ changed',
                        ~ \E c \in first..calls : target[c] = id
                 PROVE  id \in collection'
      BY <1>1 DEF Present
    <2>1. id \in collection
      BY <1>1 DEF NInv, Present
    <2>2. CASE k < first
      BY <1>1, <2>1, <2>2
    <2>3. CASE ~ (k < first)
      BY <1>1, <1>2, <2>1, <2>3
    <2> QED BY <2>2, <2>3
  <1>4. Unmoved'
    BY <1>1, <1>2 DEF NInv, Unmoved
  <1>5. Covered' /\ CoveredByPlace' /\ Ended'
    BY <1>1 DEF NInv, Covered, CoveredByPlace, Reached, Ended
  <1> QED BY <1>3, <1>4, <1>5 DEF NInv

LEMMA OtherNInv == ASSUME NInv, NEW id \in Ids, OtherClient(id) PROVE NInv'
  <1>1. /\ UNCHANGED <<keyset, pc, kind, buffered, next, calls, first, target, initial>>
        /\ changed' = changed \cup {id}
        /\ \A other \in collection : other = id \/ other \in collection'
    BY DEF OtherClient
  <1>2. Present' /\ Unmoved'
    BY <1>1 DEF NInv, Present, Unmoved
  <1>3. Covered' /\ CoveredByPlace' /\ Ended'
    BY <1>1 DEF NInv, Covered, CoveredByPlace, Reached, Ended
  <1> QED BY <1>2, <1>3 DEF NInv

LEMMA NextNInv == TInv /\ OInv /\ NInv /\ [Next]_vars => NInv'
  <1> SUFFICES ASSUME TInv, OInv, NInv, [Next]_vars PROVE NInv'
    OBVIOUS
  <1>1. ASSUME Reject \/ Finish \/ (\E r \in {"ok", "error"} : Return(r)) \/ UNCHANGED vars PROVE NInv'
    <2>1. UNCHANGED <<keyset, collection, kind, buffered, next, calls, first, target, initial, changed>>
      BY <1>1 DEF Reject, Finish, Return, vars
    <2>2. Ended'
      BY <1>1 DEF Reject, Finish, Return, AfterCall, Exhausted, vars, NInv, Ended
    <2> QED BY <2>1, <2>2, NothingMoves
  <1> QED BY <1>1, BeginNInv, FetchNInv, SendNInv, EffectNInv, OtherNInv DEF Next, Statement

-----------------------------------------------------------------------------
\* The theorems.

LEMMA Invariance == Spec => [](TInv /\ OInv /\ NInv)
  <1>1. Init => TInv /\ OInv /\ NInv
    BY InitTInv, InitOInv, InitNInv
  <1>2. TInv /\ OInv /\ NInv /\ [Next]_vars => (TInv /\ OInv /\ NInv)'
    BY NextTInv, NextOInv, NextNInv
  <1> QED BY <1>1, <1>2, PTL DEF Spec

\* Every variable stays what it is declared to be: pages hold rows of the origin, and
\* calls are about rows (begin_modify to end_modify).
THEOREM TypeCorrect == Spec => []TypeOK
  <1>1. TInv => TypeOK
    BY DEF TInv
  <1> QED BY <1>1, Invariance, PTL

\* When the pages follow the last row served, no row is given to a statement twice,
\* whatever its own changes and other clients do to the collection meanwhile; and no
\* row is changed twice by a method that is not idempotent (iter_scan under update and
\* delete, execute_mutation).
THEOREM RowsOnce == Spec => []EachRowOnce
  <1>1. TInv /\ OInv => EachRowOnce
    <2> SUFFICES ASSUME TInv, OInv, keyset, NEW id \in Ids
                 PROVE  LET about == {c \in first..calls : target[c] = id /\ op[c] # "insert"}
                        IN  /\ Cardinality(about) <= 1
                            /\ \A c \in about : idempotent[c] \/ effects[c] <= 1
      BY DEF EachRowOnce
    <2> DEFINE about == {c \in first..calls : target[c] = id /\ op[c] # "insert"}
    <2>1. about \subseteq Calls /\ about \subseteq Nat
      BY BoundsAssumption DEF TInv, TypeOK, Calls
    <2>2. ASSUME NEW c \in about, NEW d \in about PROVE c = d
      <3>1. id \in Nat /\ c \in Nat /\ d \in Nat
        BY <2>1, IdsAssumption
      <3>2. ~ (c < d) /\ ~ (d < c)
        BY <3>1 DEF OInv, Ascending
      <3> QED BY <3>1, <3>2
    <2>3. about = {} \/ \E c : about = {c}
      BY <2>2
    <2>4. Cardinality(about) <= 1
      <3>1. CASE about = {}
        BY <3>1, FS_EmptySet
      <3>2. ASSUME NEW c, about = {c} PROVE Cardinality(about) <= 1
        <4>1. Cardinality({c}) = 1
          BY FS_Singleton
        <4> QED BY <3>2, <4>1
      <3> QED BY <2>3, <3>1, <3>2
    <2> QED BY <2>1, <2>4 DEF OInv, AtMostOnce
  <1> QED BY <1>1, Invariance, PTL

\* A statement that succeeds has changed every row that was there when it began and
\* that nothing else changed meanwhile, when pages follow the last row served, or when
\* nothing moves them (iter_scan, which asks for pages until there are no more).
THEOREM NoRowLeft == Spec => []NothingLeft
  <1>1. TInv /\ NInv => NothingLeft
    <2> SUFFICES ASSUME TInv, NInv, pc = "done", kind # "insert",
                        keyset \/ (kind = "update" /\ changed = {}), NEW id \in initial \ changed
                 PROVE  \E c \in first..calls : target[c] = id /\ effects[c] > 0
      BY DEF NothingLeft
    <2>1. \A c \in first..calls : effects[c] > 0
      BY DEF TInv, IInv, CarriedOut
    <2>2. buffered = <<>> /\ next = None
      BY DEF NInv, Ended
    <2>3. Reached(id)
      <3>1. CASE keyset
        BY <2>2, <3>1 DEF NInv, Covered
      <3>2. CASE ~keyset
        <4>1. PICK i \in 1..Cardinality(initial) : Ordered(initial)[i] = id
          BY OrderedFacts DEF TInv, TypeOK
        <4> QED BY <2>2, <3>2, <4>1 DEF NInv, CoveredByPlace
      <3> QED BY <3>1, <3>2
    <2>4. \E c \in first..calls : target[c] = id
      BY <2>2, <2>3 DEF Reached
    <2> QED BY <2>1, <2>4
  <1> QED BY <1>1, Invariance, PTL

=============================================================================
