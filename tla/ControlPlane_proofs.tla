------------------------ MODULE ControlPlane_proofs -------------------------
(***************************************************************************)
(* Theorems about ControlPlane, for every set of names, tables,            *)
(* definitions and requests, every bundle, pool size and number of         *)
(* statements of SQL users.                                                *)
(*                                                                         *)
(* The argument: a transaction holds exactly the servers of the sources it *)
(* has finished, and of the one in hand once it has dropped or created it; *)
(* for the finished ones, what it will commit agrees with the request.     *)
(* What it holds nobody else changes, so the conditions it found when it   *)
(* took a server still hold when it commits.                               *)
(*                                                                         *)
(* At the end, theorems about ImportDialog, the page that sends a bundle.  *)
(***************************************************************************)
EXTENDS ControlPlane, ImportDialog, FiniteSetTheorems, TLAPS

Entries(r) == DOMAIN op[r].bundle

\* The sources of the bundle the handler is done with.
Finished(r) == {i \in Entries(r) : i < at[r] \/ pc[r] = "commit"}

\* The transaction holds the server of the source in hand.
InHand(r) == pc[r] \in {"import", "record"} \/ (pc[r] = "create" /\ Name(r) \in touched[r])

Kind(r) == op[r].kind

\* What the transaction will leave of a server agrees with the request.
AgreesWith(r, i) ==
  LET server == draft[r][op[r].bundle[i].name]
      definition == op[r].bundle[i].definition
  IN  IF Kind(r) = "apply"
      THEN \E tables \in SUBSET Tables :
             Complete(definition, tables) /\ server = ServerOf(definition, tables)
      ELSE server = Absent

Holds(r) ==
  /\ \A i \in Finished(r) :
       /\ op[r].bundle[i].name \in touched[r]
       /\ op[r].bundle[i].name \in recorded[r]
       /\ record[r][op[r].bundle[i].name] = op[r].bundle[i].definition
       /\ AgreesWith(r, i)
  /\ \A n \in touched[r] :
       \E i \in Entries(r) :
         op[r].bundle[i].name = n /\ (i \in Finished(r) \/ (i = at[r] /\ InHand(r)))
  /\ \A n \in recorded[r] : \E i \in Finished(r) : op[r].bundle[i].name = n
  /\ pc[r] \in {"import", "record"} => Name(r) \in touched[r]
  /\ pc[r] = "record" => AgreesWith(r, at[r])
  /\ pc[r] \in {"create", "import"} => Kind(r) = "apply"

\* A handler without a transaction holds nothing, and starts with the first source.
Outside(r) ==
  pc[r] \notin InTransaction =>
    touched[r] = {} /\ recorded[r] = {} /\ (pc[r] # "done" => at[r] = 1)

\* What the transaction found of the servers it holds is still so.
Found(r) ==
  \A n \in touched[r] :
    /\ Kind(r) = "apply" /\ ~op[r].replace => servers[n] = Absent
    /\ MaxSql = 0 => servers[n].wrapper # "other"
    /\ MaxSql = 0 /\ Kind(r) = "delete" => servers[n].wrapper = "openapi_fdw"

\* What the check found is still so when the server is dropped, but for SQL users.
Checked(r) ==
  pc[r] = "drop" =>
    /\ MaxSql = 0 => servers[Name(r)].wrapper # "other"
    /\ Kind(r) = "apply" => op[r].replace

AbsentIsNone == \A n \in Names : servers[n].wrapper = "none" => servers[n] = Absent

\* All there is to say of one handler.
Local(r) ==
  /\ pc[r] \in InTransaction => Holds(r)
  /\ Outside(r)
  /\ Found(r)
  /\ Checked(r)

IInv ==
  /\ TypeOK
  /\ OneOwner
  /\ AbsentIsNone
  /\ RecordsMatch
  /\ TablesMatch
  /\ \A r \in Requests : Local(r)

-----------------------------------------------------------------------------
\* Lemmas.

Same(r) ==
  /\ op'[r] = op[r] /\ pc'[r] = pc[r] /\ at'[r] = at[r]
  /\ touched'[r] = touched[r] /\ draft'[r] = draft[r]
  /\ recorded'[r] = recorded[r] /\ record'[r] = record[r]

LEMMA HoldsFrame ==
  ASSUME NEW r \in Requests, Same(r), pc[r] \in InTransaction => Holds(r)
  PROVE  (pc[r] \in InTransaction => Holds(r))'
  BY DEF Same, Holds, Finished, Entries, InHand, Name, AgreesWith, Kind, InTransaction

LEMMA LocalFrame ==
  ASSUME NEW r \in Requests, Same(r), servers' = servers, Local(r)
  PROVE  Local(r)'
  <1>1. (pc[r] \in InTransaction => Holds(r))'
    BY HoldsFrame DEF Local
  <1>2. Outside(r)'
    BY DEF Local, Same, Outside, InTransaction
  <1>3. Found(r)'
    BY DEF Local, Same, Found, Kind
  <1>4. Checked(r)'
    BY DEF Local, Same, Checked, Name, Kind
  <1>5. QED
    BY <1>1, <1>2, <1>3, <1>4 DEF Local

\* A step of one handler that leaves the committed state alone.
LEMMA StepFrame ==
  ASSUME NEW r \in Requests, IInv, TypeOK',
         servers' = servers, sources' = sources, sql' = sql,
         \A q \in Requests \ {r} : Same(q),
         \A q \in Requests \ {r} : touched'[r] \cap touched[q] = {},
         Local(r)'
  PROVE  IInv'
  <1>1. OneOwner'
    <2> SUFFICES ASSUME NEW p \in Requests, NEW q \in Requests, p # q
                 PROVE  touched'[p] \cap touched'[q] = {}
      BY DEF OneOwner
    <2>1. \A s \in Requests \ {r} : touched'[s] = touched[s]
      BY DEF Same
    <2>2. touched[p] \cap touched[q] = {}
      BY DEF IInv, OneOwner
    <2>3. QED
      BY <2>1, <2>2
  <1>2. AbsentIsNone'
    BY DEF IInv, AbsentIsNone
  <1>3. RecordsMatch'
    BY DEF IInv, RecordsMatch
  <1>4. TablesMatch'
    BY DEF IInv, TablesMatch, Complete
  <1>5. \A q \in Requests : Local(q)'
    BY LocalFrame DEF IInv
  <1>6. QED
    BY <1>1, <1>2, <1>3, <1>4, <1>5 DEF IInv

LEMMA BundleFacts ==
  ASSUME NEW operation \in Operations
  PROVE  /\ operation \in [kind : {"apply", "delete"}, replace : BOOLEAN, bundle : Seq(Entry)]
         /\ Len(operation.bundle) \in Nat /\ DOMAIN operation.bundle = 1..Len(operation.bundle)
         /\ operation.bundle # <<>> /\ 1 \in DOMAIN operation.bundle
         /\ \A i \in DOMAIN operation.bundle :
              /\ operation.bundle[i] \in Entry
              /\ operation.bundle[i].name \in Names
              /\ operation.bundle[i].definition \in Definitions \cup {None}
              /\ operation.kind = "apply" => operation.bundle[i].definition \in Definitions
              /\ operation.kind = "delete" => operation.bundle[i].definition = None
         /\ \A i, j \in DOMAIN operation.bundle :
              operation.bundle[i].name = operation.bundle[j].name => i = j
  <1>1. operation \in [kind : {"apply", "delete"}, replace : BOOLEAN, bundle : Seq(Entry)]
    BY OperationsAssumption
  <1>2. operation.bundle \in Seq(Entry) /\ operation.bundle # <<>>
    BY <1>1, OperationsAssumption
  <1>3. /\ Len(operation.bundle) \in Nat /\ DOMAIN operation.bundle = 1..Len(operation.bundle)
        /\ Len(operation.bundle) > 0
        /\ \A i \in DOMAIN operation.bundle : operation.bundle[i] \in Entry
    BY <1>2
  <1>4. \A i \in DOMAIN operation.bundle :
          /\ operation.bundle[i].name \in Names
          /\ operation.bundle[i].definition \in Definitions \cup {None}
    BY <1>3 DEF Entry
  <1>5. ASSUME NEW i \in DOMAIN operation.bundle, operation.kind = "apply"
        PROVE  operation.bundle[i].definition \in Definitions
    BY <1>4, <1>5, OperationsAssumption
  <1>6. ASSUME NEW i \in DOMAIN operation.bundle, operation.kind = "delete"
        PROVE  operation.bundle[i].definition = None
    <2>1. Len(operation.bundle) = 1 /\ operation.bundle[1].definition = None
      BY <1>6, OperationsAssumption
    <2>2. i = 1
      BY <2>1, <1>3
    <2>3. QED
      BY <2>1, <2>2
  <1>7. QED
    BY <1>1, <1>2, <1>3, <1>4, <1>5, <1>6, OperationsAssumption

LEMMA RequestFacts ==
  ASSUME TypeOK, NEW r \in Requests
  PROVE  /\ op[r] \in Operations
         /\ at[r] \in Nat /\ at[r] \in Entries(r) /\ at[r] <= Len(op[r].bundle)
         /\ Name(r) \in Names /\ Definition(r) \in Definitions \cup {None}
         /\ Kind(r) \in {"apply", "delete"}
         /\ Kind(r) = "apply" => Definition(r) \in Definitions
         /\ Kind(r) = "delete" => Definition(r) = None
  <1>1. op[r] \in Operations /\ at[r] \in Nat /\ at[r] \in Entries(r)
    BY DEF TypeOK, Entries
  <1>2. QED
    BY <1>1, BundleFacts DEF Entries, Name, Definition, Kind

\* A bundle names no source twice: the server in hand is not one of the finished.
LEMMA NotYetHeld ==
  ASSUME IInv, NEW r \in Requests, pc[r] \in {"check", "drop"}
  PROVE  Name(r) \notin touched[r] /\ Visible(r, Name(r)) = servers[Name(r)]
  <1>1. Holds(r)
    BY DEF IInv, Local, InTransaction
  <1>2. op[r] \in Operations /\ at[r] \in Entries(r) /\ at[r] \in Nat
    BY RequestFacts DEF IInv
  <1>3. ~InHand(r)
    BY DEF InHand
  <1>4. ASSUME Name(r) \in touched[r] PROVE FALSE
    <2>1. PICK i \in Entries(r) : op[r].bundle[i].name = Name(r) /\ i \in Finished(r)
      BY <1>1, <1>3, <1>4 DEF Holds
    <2>2. i = at[r]
      BY <1>2, <2>1, BundleFacts DEF Entries, Name
    <2>3. QED
      BY <1>2, <2>1, <2>2 DEF Finished
  <1>5. QED
    BY <1>4 DEF Visible

-----------------------------------------------------------------------------
\* The steps of a handler.

LEMMA SubmitStep ==
  ASSUME IInv, NEW r \in Requests, NEW operation \in Operations, Submit(r, operation)
  PROVE  IInv'
  <1> USE DEF Submit, Goto
  <1>1. touched[r] = {} /\ recorded[r] = {} /\ at[r] = 1
    BY DEF IInv, Local, Outside, InTransaction
  <1>2. op'[r] = operation /\ pc'[r] = "connect" /\ 1 \in DOMAIN operation.bundle
    BY BundleFacts DEF IInv, TypeOK
  <1>3. \A q \in Requests \ {r} : Same(q)
    BY DEF Same, IInv, TypeOK
  <1>4. TypeOK'
    <2>1. op' \in [Requests -> Operations]
      BY DEF IInv, TypeOK
    <2>2. pc' \in [Requests -> InTransaction \cup {"idle", "connect", "done"}]
      BY DEF IInv, TypeOK
    <2>3. \A q \in Requests : at'[q] \in DOMAIN op'[q].bundle
      BY <1>1, <1>2, <1>3 DEF Same, IInv, TypeOK
    <2>4. QED
      BY <2>1, <2>2, <2>3 DEF IInv, TypeOK
  <1>5. Local(r)'
    BY <1>1, <1>2 DEF Local, Outside, Found, Checked, InTransaction
  <1>6. \A q \in Requests \ {r} : touched'[r] \cap touched[q] = {}
    BY <1>1
  <1>7. QED
    BY <1>3, <1>4, <1>5, <1>6, StepFrame

LEMMA ConnectStep ==
  ASSUME IInv, NEW r \in Requests, Connect(r)
  PROVE  IInv'
  <1> USE DEF Connect, Goto, own
  <1>1. touched[r] = {} /\ recorded[r] = {} /\ at[r] = 1
    BY DEF IInv, Local, Outside, InTransaction
  <1>2. pc'[r] = "check"
    BY DEF IInv, TypeOK
  <1>3. \A q \in Requests \ {r} : Same(q)
    BY DEF Same, IInv, TypeOK
  <1>4. TypeOK'
    BY DEF IInv, TypeOK, InTransaction
  <1>5. Holds(r)'
    <2>1. Finished(r)' = {}
      BY <1>1, <1>2, RequestFacts, BundleFacts DEF Finished, Entries, IInv
    <2>2. QED
      BY <1>1, <1>2, <2>1 DEF Holds
  <1>6. Local(r)'
    BY <1>1, <1>2, <1>5 DEF Local, Outside, Found, Checked, InTransaction
  <1>7. \A q \in Requests \ {r} : touched'[r] \cap touched[q] = {}
    BY <1>1
  <1>8. QED
    BY <1>3, <1>4, <1>6, <1>7, StepFrame

LEMMA AbsentIsServer == Absent \in Server
  BY DEF Absent, Server

\* What is left of a transaction that has ended is of its type.
LEMMA ForgetTypes ==
  ASSUME TypeOK, NEW r \in Requests, Forget(r)
  PROVE  /\ op' \in [Requests -> Operations]
         /\ at' \in [Requests -> Nat] /\ \A q \in Requests : at'[q] \in DOMAIN op'[q].bundle
         /\ touched' \in [Requests -> SUBSET Names]
         /\ draft' \in [Requests -> [Names -> Server]]
         /\ recorded' \in [Requests -> SUBSET Names]
         /\ record' \in [Requests -> [Names -> Definitions \cup {None}]]
  <1>1. op' = op /\ \A q \in Requests : 1 \in DOMAIN op[q].bundle
    BY BundleFacts DEF Forget, TypeOK
  <1>2. at' \in [Requests -> Nat] /\ \A q \in Requests : at'[q] \in DOMAIN op'[q].bundle
    BY <1>1 DEF Forget, TypeOK
  <1>3. draft' \in [Requests -> [Names -> Server]]
    <2>1. [n \in Names |-> Absent] \in [Names -> Server]
      BY AbsentIsServer
    <2>2. QED
      BY <2>1 DEF Forget, TypeOK
  <1>4. QED
    BY <1>1, <1>2, <1>3 DEF Forget, TypeOK

LEMMA AbortStep ==
  ASSUME IInv, NEW r \in Requests, Abort(r)
  PROVE  IInv'
  <1> USE DEF Abort, Goto, Forget
  <1>1. touched'[r] = {} /\ recorded'[r] = {} /\ pc'[r] = "done"
    BY DEF IInv, TypeOK
  <1>2. \A q \in Requests \ {r} : Same(q)
    BY DEF Same, IInv, TypeOK
  <1>3. TypeOK'
    <2> HIDE DEF Forget
    <2>1. QED
      BY ForgetTypes DEF IInv, TypeOK, InTransaction
  <1>4. Local(r)'
    BY <1>1 DEF Local, Outside, Found, Checked, InTransaction
  <1>5. QED
    BY <1>1, <1>2, <1>3, <1>4, StepFrame

LEMMA CheckStep ==
  ASSUME IInv, NEW r \in Requests, Check(r), ~Abort(r)
  PROVE  IInv'
  <1> USE DEF Check, Goto, own
  <1>1. pc[r] = "check" /\ ~Refuses(r, servers[Name(r)])
    BY NotYetHeld
  <1>2. pc'[r] = IF servers[Name(r)] # Absent THEN "drop" ELSE "create"
    BY <1>1, NotYetHeld DEF IInv, TypeOK
  <1>3. UNCHANGED <<servers, sources, op, at, touched, draft, recorded, record, response, sql>>
    OBVIOUS
  <1>4. Name(r) \notin touched[r] /\ Holds(r) /\ Local(r)
    BY <1>1, NotYetHeld DEF IInv, Local, InTransaction
  <1>5. Kind(r) \in {"apply", "delete"}
    BY RequestFacts DEF IInv
  <1>6. \A q \in Requests \ {r} : Same(q)
    BY <1>3 DEF Same, IInv, TypeOK
  <1>7. TypeOK'
    <2>1. pc' \in [Requests -> InTransaction \cup {"idle", "connect", "done"}]
      BY NotYetHeld, <1>1 DEF IInv, TypeOK, InTransaction
    <2>2. QED
      BY <1>3, <2>1 DEF IInv, TypeOK
  <1>8. Holds(r)'
    <2>1. Finished(r)' = Finished(r) /\ Entries(r)' = Entries(r)
      BY <1>1, <1>2, <1>3 DEF Finished, Entries
    <2>2. ~InHand(r) /\ ~InHand(r)'
      BY <1>1, <1>2, <1>3, <1>4 DEF InHand, Name
    <2>3. pc'[r] = "create" => Kind(r) = "apply"
      BY <1>1, <1>2, <1>5 DEF Refuses, Kind
    <2>4. QED
      BY <1>1, <1>2, <1>3, <1>4, <2>1, <2>2, <2>3 DEF Holds, AgreesWith, Kind
  <1>9. Checked(r)'
    BY <1>1, <1>2, <1>3 DEF Checked, Refuses, Name, Kind
  <1>10. Local(r)'
    BY <1>1, <1>2, <1>3, <1>4, <1>8, <1>9 DEF Local, Outside, Found, Kind, InTransaction
  <1>11. \A q \in Requests \ {r} : touched'[r] \cap touched[q] = {}
    BY <1>3 DEF IInv, OneOwner
  <1>12. QED
    BY <1>3, <1>6, <1>7, <1>10, <1>11, StepFrame

\* Writing the server in hand leaves what the transaction has of the others.
LEMMA WriteFacts ==
  ASSUME TypeOK, NEW r \in Requests, NEW server \in Server, Write(r, Name(r), server)
  PROVE  /\ touched' \in [Requests -> SUBSET Names] /\ draft' \in [Requests -> [Names -> Server]]
         /\ touched'[r] = touched[r] \cup {Name(r)}
         /\ draft'[r][Name(r)] = server
         /\ \A n \in Names : n # Name(r) => draft'[r][n] = draft[r][n]
         /\ \A q \in Requests \ {r} : touched'[q] = touched[q] /\ draft'[q] = draft[q]
  <1>1. Name(r) \in Names
    BY RequestFacts
  <1>2. QED
    BY <1>1 DEF Write, TypeOK

LEMMA FinishedAreOthers ==
  ASSUME TypeOK, NEW r \in Requests, pc[r] # "commit", NEW i \in Finished(r)
  PROVE  /\ op[r].bundle[i].name \in Names /\ op[r].bundle[i].name # Name(r)
         /\ i \in Entries(r) /\ i # at[r]
  <1>1. i \in Entries(r) /\ i < at[r] /\ i # at[r]
    BY RequestFacts, BundleFacts DEF Finished, Entries
  <1>2. QED
    BY <1>1, RequestFacts, BundleFacts DEF Entries, Name

\* The server in hand is taken, or altered, by a handler that goes on with it.
LEMMA WriteStep ==
  ASSUME IInv, NEW r \in Requests, NEW server \in Server, NEW label \in {"create", "import", "record"},
         pc[r] \in {"drop", "create", "import"},
         Write(r, Name(r), server), Goto(r, label),
         UNCHANGED <<servers, sources, op, at, recorded, record, response, sql>>,
         Owners(r, Name(r)) = {} \/ Name(r) \in touched[r],
         label \in {"create", "import"} => Kind(r) = "apply",
         label = "record" =>
           IF Kind(r) = "apply"
           THEN \E tables \in SUBSET Tables :
                  Complete(Definition(r), tables) /\ server = ServerOf(Definition(r), tables)
           ELSE server = Absent,
         Name(r) \notin touched[r] =>
           /\ Kind(r) = "apply" /\ ~op[r].replace => servers[Name(r)] = Absent
           /\ MaxSql = 0 => servers[Name(r)].wrapper # "other"
           /\ MaxSql = 0 /\ Kind(r) = "delete" => servers[Name(r)].wrapper = "openapi_fdw"
  PROVE  IInv'
  <1> USE DEF Goto
  <1>1. TypeOK /\ Holds(r) /\ Local(r)
    BY DEF IInv, Local, InTransaction
  <1>2. pc'[r] = label /\ Name(r)' = Name(r) /\ Kind(r)' = Kind(r)
    BY <1>1 DEF TypeOK, Name, Kind
  <1>3. /\ touched' \in [Requests -> SUBSET Names] /\ draft' \in [Requests -> [Names -> Server]]
        /\ touched'[r] = touched[r] \cup {Name(r)}
        /\ draft'[r][Name(r)] = server
        /\ \A n \in Names : n # Name(r) => draft'[r][n] = draft[r][n]
        /\ \A q \in Requests \ {r} : touched'[q] = touched[q] /\ draft'[q] = draft[q]
    BY <1>1, WriteFacts
  <1>4. \A q \in Requests \ {r} : Same(q)
    BY <1>1, <1>3 DEF Same, TypeOK
  <1>5. TypeOK'
    <2>1. pc' \in [Requests -> InTransaction \cup {"idle", "connect", "done"}]
      BY <1>1 DEF TypeOK, InTransaction
    <2>2. QED
      BY <1>1, <1>3, <2>1 DEF TypeOK
  <1>6. \A q \in Requests \ {r} : touched'[r] \cap touched[q] = {}
    <2>1. \A q \in Requests \ {r} : touched[r] \cap touched[q] = {}
      BY DEF IInv, OneOwner
    <2>2. CASE Name(r) \in touched[r]
      BY <1>3, <2>1, <2>2
    <2>3. CASE Owners(r, Name(r)) = {}
      <3>1. \A q \in Requests \ {r} : Name(r) \notin touched[q]
        BY <2>3 DEF Owners
      <3>2. QED
        BY <1>3, <2>1, <3>1
    <2>4. QED
      BY <2>2, <2>3
  <1>7. Finished(r)' = Finished(r) /\ Entries(r)' = Entries(r)
    BY <1>2 DEF Finished, Entries
  <1>8. at[r] \in Entries(r) /\ op[r].bundle[at[r]].name = Name(r) /\ Name(r) \in Names
    BY <1>1, RequestFacts DEF Name
  <1>9. InHand(r)'
    BY <1>2, <1>3 DEF InHand
  <1>10. \A i \in Finished(r) : AgreesWith(r, i)'
    <2> SUFFICES ASSUME NEW i \in Finished(r) PROVE AgreesWith(r, i)'
      OBVIOUS
    <2>1. AgreesWith(r, i)
      BY <1>1 DEF Holds
    <2>2. draft'[r][op[r].bundle[i].name] = draft[r][op[r].bundle[i].name]
      BY <1>1, <1>3, FinishedAreOthers
    <2>3. QED
      BY <1>2, <2>1, <2>2 DEF AgreesWith, Complete, ServerOf
  <1>11. label = "record" => AgreesWith(r, at[r])'
    BY <1>2, <1>3, <1>8 DEF AgreesWith, Definition, Kind
  <1>12. Holds(r)'
    <2>1. \A i \in Finished(r) :
            /\ op[r].bundle[i].name \in touched'[r]
            /\ op[r].bundle[i].name \in recorded[r]
            /\ record[r][op[r].bundle[i].name] = op[r].bundle[i].definition
      BY <1>1, <1>3 DEF Holds
    <2>2. \A n \in touched'[r] :
            \E i \in Entries(r) : op[r].bundle[i].name = n /\ (i \in Finished(r) \/ i = at[r])
      BY <1>1, <1>3, <1>8 DEF Holds
    <2>3. \A n \in recorded[r] : \E i \in Finished(r) : op[r].bundle[i].name = n
      BY <1>1 DEF Holds
    <2>4. QED
      BY <1>2, <1>3, <1>7, <1>9, <1>10, <1>11, <2>1, <2>2, <2>3 DEF Holds
  <1>13. Found(r)'
    BY <1>1, <1>2, <1>3 DEF Local, Found, Kind
  <1>14. Local(r)'
    BY <1>2, <1>12, <1>13 DEF Local, Outside, Checked, InTransaction
  <1>15. QED
    BY <1>4, <1>5, <1>6, <1>14, StepFrame

LEMMA DropStep ==
  ASSUME IInv, NEW r \in Requests, Drop(r), ~Abort(r)
  PROVE  IInv'
  <1>1. /\ TypeOK /\ pc[r] = "drop" /\ Holds(r) /\ Local(r) /\ Checked(r)
        /\ Name(r) \notin touched[r] /\ Visible(r, Name(r)) = servers[Name(r)]
    BY NotYetHeld DEF Drop, IInv, Local, InTransaction
  <1>2. Kind(r) \in {"apply", "delete"} /\ Name(r) \in Names
    BY <1>1, RequestFacts
  <1>3. CASE Visible(r, Name(r)) = Absent
    <2> USE DEF Goto, own
    <2>1. /\ Kind(r) = "apply" /\ Goto(r, "create")
          /\ UNCHANGED <<servers, sources, op, at, touched, draft, recorded, record, response, sql>>
      BY <1>3 DEF Drop, Kind
    <2>2. pc'[r] = "create"
      BY <1>1, <2>1 DEF TypeOK
    <2>3. \A q \in Requests \ {r} : Same(q)
      BY <1>1, <2>1 DEF Same, TypeOK
    <2>4. TypeOK'
      <3>1. pc' \in [Requests -> InTransaction \cup {"idle", "connect", "done"}]
        BY <1>1, <2>1 DEF TypeOK, InTransaction
      <3>2. QED
        BY <1>1, <2>1, <3>1 DEF TypeOK
    <2>5. Finished(r)' = Finished(r) /\ Entries(r)' = Entries(r) /\ ~InHand(r)
      BY <1>1, <2>1, <2>2 DEF Finished, Entries, InHand
    <2>6. Holds(r)'
      BY <1>1, <2>1, <2>2, <2>5 DEF Holds, AgreesWith, Kind
    <2>7. Local(r)'
      BY <1>1, <2>1, <2>2, <2>6 DEF Local, Outside, Found, Checked, Kind, InTransaction
    <2>8. \A q \in Requests \ {r} : touched'[r] \cap touched[q] = {}
      BY <2>1 DEF IInv, OneOwner
    <2>9. QED
      BY <2>1, <2>3, <2>4, <2>7, <2>8, StepFrame
  <1>4. CASE Visible(r, Name(r)) # Absent
    <2> DEFINE label == IF op[r].kind = "delete" THEN "record" ELSE "create"
    <2>1. /\ Owners(r, Name(r)) = {} /\ Write(r, Name(r), Absent) /\ Goto(r, label)
          /\ UNCHANGED <<servers, sources, op, at, recorded, record, response, sql>>
      BY <1>4 DEF Drop
    <2>2. label \in {"create", "import", "record"}
      OBVIOUS
    <2>3. /\ label \in {"create", "import"} => Kind(r) = "apply"
          /\ label = "record" => Kind(r) = "delete"
      BY <1>2 DEF Kind
    <2>4. /\ Kind(r) = "apply" => op[r].replace
          /\ MaxSql = 0 => servers[Name(r)].wrapper # "other"
      BY <1>1 DEF Checked
    <2>5. MaxSql = 0 => servers[Name(r)].wrapper = "openapi_fdw"
      BY <1>1, <1>2, <1>4, <2>4 DEF IInv, AbsentIsNone, TypeOK, Server
    <2> HIDE DEF label
    <2>6. QED
      BY <1>1, <2>1, <2>2, <2>3, <2>4, <2>5, AbsentIsServer, WriteStep
  <1>5. QED
    BY <1>3, <1>4

LEMMA CreateStep ==
  ASSUME IInv, NEW r \in Requests, Create(r), ~Abort(r)
  PROVE  IInv'
  <1>1. /\ pc[r] = "create" /\ Visible(r, Name(r)) = Absent /\ Owners(r, Name(r)) = {}
        /\ Write(r, Name(r), ServerOf(Definition(r), {})) /\ Goto(r, "import")
        /\ UNCHANGED <<servers, sources, op, at, recorded, record, response, sql>>
    BY DEF Create
  <1>2. Kind(r) = "apply"
    BY <1>1 DEF IInv, Local, Holds, InTransaction
  <1>3. ServerOf(Definition(r), {}) \in Server
    BY RequestFacts DEF IInv, ServerOf, Server
  <1>4. Name(r) \notin touched[r] =>
          servers[Name(r)] = Absent /\ servers[Name(r)].wrapper # "other"
    BY <1>1 DEF Visible, Absent
  <1>5. QED
    BY <1>1, <1>2, <1>3, <1>4, WriteStep

LEMMA VerifiedIsComplete ==
  ASSUME NEW definition \in Definitions, NEW offered \in SUBSET Tables
  PROVE  LET selected == Selected[definition]
             tables == IF selected = {} THEN offered ELSE offered \cap selected
         IN  tables \in SUBSET Tables /\ (Verified(definition, tables) => Complete(definition, tables))
  <1> DEFINE selected == Selected[definition]
             tables == IF selected = {} THEN offered ELSE offered \cap selected
  <1>1. selected \in SUBSET Tables
    BY SelectedAssumption
  <1>2. IsFiniteSet(selected)
    BY <1>1, TablesAssumption, FS_Subset
  <1>3. ASSUME Verified(definition, tables), selected # {}
        PROVE  tables = selected
    <2>1. tables \in SUBSET selected /\ Cardinality(tables) = Cardinality(selected)
      BY <1>3 DEF Verified
    <2>2. QED
      BY <1>2, <2>1, FS_Subset
  <1>4. QED
    BY <1>1, <1>3 DEF Verified, Complete

LEMMA ImportStep ==
  ASSUME IInv, NEW r \in Requests, NEW offered \in SUBSET Tables, Import(r, offered), ~Abort(r)
  PROVE  IInv'
  <1> DEFINE selected == Selected[Definition(r)]
             tables == IF selected = {} THEN offered ELSE offered \cap selected
  <1>1. /\ pc[r] = "import" /\ Verified(Definition(r), tables)
        /\ Write(r, Name(r), ServerOf(Definition(r), tables)) /\ Goto(r, "record")
        /\ UNCHANGED <<servers, sources, op, at, recorded, record, response, sql>>
    BY DEF Import
  <1>2. Kind(r) = "apply" /\ Name(r) \in touched[r]
    BY <1>1 DEF IInv, Local, Holds, InTransaction
  <1>3. Definition(r) \in Definitions
    BY <1>2, RequestFacts DEF IInv
  <1>4. tables \in SUBSET Tables /\ Complete(Definition(r), tables)
    BY <1>1, <1>3, VerifiedIsComplete
  <1>5. ServerOf(Definition(r), tables) \in Server
    BY <1>3, <1>4 DEF ServerOf, Server
  <1> HIDE DEF tables
  <1>6. QED
    BY <1>1, <1>2, <1>4, <1>5, WriteStep

LEMMA RecordStep ==
  ASSUME IInv, NEW r \in Requests, Record(r)
  PROVE  IInv'
  <1> USE DEF Record, Goto
  <1>1. TypeOK /\ Holds(r) /\ Local(r) /\ pc[r] = "record"
    BY DEF IInv, Local, InTransaction
  <1>2. /\ at[r] \in Nat /\ at[r] \in Entries(r) /\ op[r] \in Operations
        /\ Name(r) \in Names /\ Definition(r) \in Definitions \cup {None}
        /\ Len(op[r].bundle) \in Nat /\ Entries(r) = 1..Len(op[r].bundle)
    BY <1>1, RequestFacts, BundleFacts DEF Entries
  <1>3. /\ pc'[r] = IF More(r) THEN "check" ELSE "commit"
        /\ at'[r] = IF More(r) THEN at[r] + 1 ELSE at[r]
        /\ recorded'[r] = recorded[r] \cup {Name(r)}
        /\ record'[r][Name(r)] = Definition(r)
        /\ \A n \in Names : n # Name(r) => record'[r][n] = record[r][n]
    BY <1>1, <1>2 DEF TypeOK, NewRecord
  <1>4. UNCHANGED <<servers, sources, op, touched, draft, response, sql>>
    OBVIOUS
  <1>5. \A q \in Requests \ {r} : Same(q)
    BY <1>1 DEF Same, TypeOK
  <1>6. TypeOK'
    <2>1. at'[r] \in Entries(r) /\ at' \in [Requests -> Nat]
      BY <1>1, <1>2, <1>3 DEF TypeOK, More
    <2>2. \A q \in Requests : at'[q] \in DOMAIN op'[q].bundle
      BY <1>1, <1>4, <1>5, <2>1 DEF TypeOK, Same, Entries
    <2>3. pc' \in [Requests -> InTransaction \cup {"idle", "connect", "done"}]
      BY <1>1 DEF TypeOK, InTransaction
    <2>4. recorded' \in [Requests -> SUBSET Names]
          /\ record' \in [Requests -> [Names -> Definitions \cup {None}]]
      BY <1>1, <1>2 DEF TypeOK, NewRecord
    <2>5. QED
      BY <1>1, <1>4, <2>1, <2>2, <2>3, <2>4 DEF TypeOK
  <1>7. Finished(r)' = Finished(r) \cup {at[r]} /\ Entries(r)' = Entries(r)
    BY <1>1, <1>2, <1>3, <1>4 DEF Finished, Entries, More
  <1>8. /\ op[r].bundle[at[r]].name = Name(r) /\ op[r].bundle[at[r]].definition = Definition(r)
        /\ Name(r) \in touched[r] /\ AgreesWith(r, at[r])
    BY <1>1 DEF Name, Definition, Holds
  <1>9. Holds(r)'
    <2>1. ASSUME NEW i \in Finished(r)'
          PROVE  /\ op[r].bundle[i].name \in touched[r]
                 /\ op[r].bundle[i].name \in recorded'[r]
                 /\ record'[r][op[r].bundle[i].name] = op[r].bundle[i].definition
                 /\ AgreesWith(r, i)
      <3>1. CASE i = at[r]
        BY <1>3, <1>8, <3>1
      <3>2. CASE i \in Finished(r)
        <4>1. op[r].bundle[i].name \in Names /\ op[r].bundle[i].name # Name(r)
          BY <1>1, <3>2, FinishedAreOthers
        <4>2. QED
          BY <1>1, <1>3, <3>2, <4>1 DEF Holds
      <3>3. QED
        BY <1>7, <3>1, <3>2
    <2>2. \A n \in touched[r] : \E i \in Finished(r)' : op[r].bundle[i].name = n
      BY <1>1, <1>7 DEF Holds
    <2>3. \A n \in recorded'[r] : \E i \in Finished(r)' : op[r].bundle[i].name = n
      BY <1>1, <1>3, <1>7, <1>8 DEF Holds
    <2>4. \A i \in Finished(r)' : AgreesWith(r, i)' /\ i \in Entries(r)
      <3>1. \A i \in Finished(r)' : AgreesWith(r, i)
        BY <2>1
      <3>2. \A i \in Finished(r)' : i \in Entries(r)
        BY <1>2, <1>7 DEF Finished
      <3>3. QED
        BY <1>4, <3>1, <3>2 DEF AgreesWith, Kind
    <2>5. pc'[r] \notin {"import", "record", "create"}
      BY <1>3
    <2>6. QED
      BY <1>4, <1>7, <2>1, <2>2, <2>3, <2>4, <2>5 DEF Holds
  <1>10. Local(r)'
    BY <1>1, <1>3, <1>4, <1>9 DEF Local, Outside, Found, Checked, Kind, InTransaction
  <1>11. \A q \in Requests \ {r} : touched'[r] \cap touched[q] = {}
    BY <1>4 DEF IInv, OneOwner
  <1>12. QED
    BY <1>4, <1>5, <1>6, <1>10, <1>11, StepFrame

-----------------------------------------------------------------------------
\* The steps that change the committed state.

\* What a transaction that commits does to each name.
LEMMA CommitFacts ==
  ASSUME IInv, NEW r \in Requests, NEW answer \in {"ok", "error"}, Commit(r, answer)
  PROVE  /\ \A i \in Entries(r) :
              LET n == op[r].bundle[i].name
                  definition == op[r].bundle[i].definition
              IN  /\ n \in Names /\ n \in touched[r]
                  /\ sources'[n] = definition
                  /\ Kind(r) = "apply" =>
                       \E tables \in SUBSET Tables :
                         Complete(definition, tables) /\ servers'[n] = ServerOf(definition, tables)
                  /\ Kind(r) = "delete" => servers'[n] = Absent /\ definition = None
         /\ \A n \in Names :
              (\A i \in Entries(r) : op[r].bundle[i].name # n) =>
                n \notin touched[r] /\ servers'[n] = servers[n] /\ sources'[n] = sources[n]
         /\ servers' \in [Names -> Server] /\ sources' \in [Names -> Definitions \cup {None}]
  <1> USE DEF Commit
  <1>1. TypeOK /\ Holds(r) /\ pc[r] = "commit"
    BY DEF IInv, Local, InTransaction
  <1>2. Finished(r) = Entries(r)
    BY <1>1 DEF Finished
  <1>3. op[r] \in Operations /\ Kind(r) \in {"apply", "delete"}
    BY <1>1, RequestFacts
  <1>4. ASSUME NEW i \in Entries(r)
        PROVE  LET n == op[r].bundle[i].name
                   definition == op[r].bundle[i].definition
               IN  /\ n \in Names /\ n \in touched[r]
                   /\ sources'[n] = definition
                   /\ Kind(r) = "apply" =>
                        \E tables \in SUBSET Tables :
                          Complete(definition, tables) /\ servers'[n] = ServerOf(definition, tables)
                   /\ Kind(r) = "delete" => servers'[n] = Absent /\ definition = None
    <2> DEFINE n == op[r].bundle[i].name
               definition == op[r].bundle[i].definition
    <2>1. n \in Names /\ (Kind(r) = "delete" => definition = None)
      BY <1>3, BundleFacts DEF Entries, Kind
    <2>2. /\ n \in touched[r] /\ n \in recorded[r] /\ record[r][n] = definition
          /\ AgreesWith(r, i)
      BY <1>1, <1>2 DEF Holds
    <2>3. servers'[n] = draft[r][n] /\ sources'[n] = definition
      BY <2>1, <2>2 DEF Visible
    <2>4. QED
      BY <2>1, <2>2, <2>3 DEF AgreesWith
  <1>5. ASSUME NEW n \in Names, \A i \in Entries(r) : op[r].bundle[i].name # n
        PROVE  n \notin touched[r] /\ servers'[n] = servers[n] /\ sources'[n] = sources[n]
    <2>1. n \notin touched[r] /\ n \notin recorded[r]
      BY <1>1, <1>2, <1>5 DEF Holds
    <2>2. QED
      BY <2>1 DEF Visible
  <1>6. servers' \in [Names -> Server] /\ sources' \in [Names -> Definitions \cup {None}]
    <2>1. \A n \in Names : Visible(r, n) \in Server
      BY <1>1 DEF Visible, TypeOK
    <2>2. QED
      BY <1>1, <2>1 DEF TypeOK
  <1>7. QED
    BY <1>4, <1>5, <1>6

LEMMA CommitStep ==
  ASSUME IInv, NEW r \in Requests, NEW answer \in {"ok", "error"}, Commit(r, answer)
  PROVE  IInv'
  <1> USE DEF Goto, Forget
  <1>1. TypeOK /\ op[r] \in Operations /\ Kind(r) \in {"apply", "delete"}
    BY RequestFacts DEF IInv
  <1>2. touched'[r] = {} /\ recorded'[r] = {} /\ pc'[r] = "done"
    BY <1>1 DEF TypeOK, Commit
  <1>3. \A q \in Requests \ {r} : Same(q)
    BY <1>1 DEF Same, TypeOK, Commit
  <1>4. TypeOK'
    <2>1. servers' \in [Names -> Server] /\ sources' \in [Names -> Definitions \cup {None}]
      BY CommitFacts
    <2>2. pc' \in [Requests -> InTransaction \cup {"idle", "connect", "done"}]
      BY <1>1 DEF TypeOK, Commit
    <2> HIDE DEF Forget
    <2>3. QED
      BY <1>1, <2>1, <2>2, ForgetTypes DEF TypeOK, Commit
  <1>5. OneOwner'
    <2> SUFFICES ASSUME NEW p \in Requests, NEW q \in Requests, p # q
                 PROVE  touched'[p] \cap touched'[q] = {}
      BY DEF OneOwner
    <2>1. \A s \in Requests \ {r} : touched'[s] = touched[s]
      BY <1>3 DEF Same
    <2>2. touched[p] \cap touched[q] = {}
      BY DEF IInv, OneOwner
    <2>3. QED
      BY <1>2, <2>1, <2>2
  <1>6. ASSUME NEW n \in Names
        PROVE  /\ servers'[n].wrapper = "none" => servers'[n] = Absent
               /\ sources'[n] = servers'[n].definition
                    \/ (servers'[n].definition = None /\ sql' > 0)
               /\ servers'[n].definition # None =>
                    Complete(servers'[n].definition, servers'[n].tables)
    <2>1. CASE \A i \in Entries(r) : op[r].bundle[i].name # n
      <3>1. servers'[n] = servers[n] /\ sources'[n] = sources[n] /\ sql' = sql
        BY <2>1, CommitFacts DEF Commit
      <3>2. QED
        BY <3>1 DEF IInv, AbsentIsNone, RecordsMatch, TablesMatch
    <2>2. CASE \E i \in Entries(r) : op[r].bundle[i].name = n
      <3>1. PICK i \in Entries(r) : op[r].bundle[i].name = n
        BY <2>2
      <3>2. CASE Kind(r) = "delete"
        <4>1. /\ sources'[n] = op[r].bundle[i].definition
              /\ servers'[n] = Absent /\ op[r].bundle[i].definition = None
          BY <3>1, <3>2, CommitFacts
        <4>2. QED
          BY <4>1 DEF Absent
      <3>3. CASE Kind(r) = "apply"
        <4>1. PICK tables \in SUBSET Tables :
                /\ Complete(op[r].bundle[i].definition, tables)
                /\ servers'[n] = ServerOf(op[r].bundle[i].definition, tables)
          BY <3>1, <3>3, CommitFacts
        <4>2. sources'[n] = op[r].bundle[i].definition
          BY <3>1, CommitFacts
        <4>3. QED
          BY <4>1, <4>2 DEF ServerOf
      <3>4. QED
        BY <1>1, <3>2, <3>3
    <2>3. QED
      BY <2>1, <2>2
  <1>7. AbsentIsNone' /\ RecordsMatch' /\ TablesMatch'
    BY <1>6 DEF AbsentIsNone, RecordsMatch, TablesMatch, Complete
  <1>8. Local(r)'
    BY <1>2 DEF Local, Outside, Found, Checked, InTransaction
  <1>9. ASSUME NEW q \in Requests \ {r} PROVE Local(q)'
    <2>1. Local(q) /\ Same(q)
      BY <1>3 DEF IInv
    <2>2. (pc[q] \in InTransaction => Holds(q))'
      BY <2>1, HoldsFrame DEF Local
    <2>3. Outside(q)'
      BY <2>1 DEF Local, Same, Outside, InTransaction
    <2>4. Found(q)'
      <3>1. \A n \in touched[q] : n \in Names /\ n \notin touched[r]
        BY <1>1 DEF IInv, OneOwner, TypeOK
      <3>2. \A n \in touched[q] : servers'[n] = servers[n]
        BY <1>1, <3>1 DEF Visible, Commit, TypeOK
      <3>3. QED
        BY <2>1, <3>2 DEF Local, Same, Found, Kind
    <2>5. Checked(q)'
      <3>1. \A n \in Names : servers[n].wrapper # "other" => servers'[n].wrapper # "other"
        <4> SUFFICES ASSUME NEW n \in Names, servers[n].wrapper # "other"
                     PROVE  servers'[n].wrapper # "other"
          OBVIOUS
        <4>1. CASE \A i \in Entries(r) : op[r].bundle[i].name # n
          BY <4>1, CommitFacts
        <4>2. CASE \E i \in Entries(r) : op[r].bundle[i].name = n
          <5>1. PICK i \in Entries(r) : op[r].bundle[i].name = n
            BY <4>2
          <5>2. CASE Kind(r) = "delete"
            BY <5>1, <5>2, CommitFacts DEF Absent
          <5>3. CASE Kind(r) = "apply"
            <6>1. PICK tables \in SUBSET Tables :
                    servers'[n] = ServerOf(op[r].bundle[i].definition, tables)
              BY <5>1, <5>3, CommitFacts
            <6>2. QED
              BY <6>1 DEF ServerOf
          <5>4. QED
            BY <1>1, <5>2, <5>3
        <4>3. QED
          BY <4>1, <4>2
      <3>2. Name(q) \in Names /\ Name(q)' = Name(q)
        BY <1>1, <2>1, RequestFacts DEF Name, Same
      <3>3. QED
        BY <2>1, <3>1, <3>2 DEF Local, Same, Checked, Kind
    <2>6. QED
      BY <2>2, <2>3, <2>4, <2>5 DEF Local
  <1>10. QED
    BY <1>4, <1>5, <1>7, <1>8, <1>9 DEF IInv

LEMMA SqlStep ==
  ASSUME IInv, NEW n \in Names, NEW server \in Unmanaged, SqlStatement(n, server)
  PROVE  IInv'
  <1> USE DEF SqlStatement, own
  <1>1. TypeOK /\ sql \in Nat /\ MaxSql \in Nat /\ MaxSql # 0 /\ sql' = sql + 1 /\ sql' > 0
    BY MaxSqlAssumption DEF IInv, TypeOK
  <1>2. server \in Server /\ server.definition = None /\ server.tables = {}
    BY DEF Unmanaged
  <1>3. \A m \in Names : servers'[m] = IF m = n THEN server ELSE servers[m]
    BY <1>1 DEF TypeOK
  <1>4. TypeOK'
    <2>1. servers' \in [Names -> Server] /\ sql' \in 0..MaxSql
      BY <1>1, <1>2, MaxSqlAssumption DEF TypeOK
    <2>2. QED
      BY <1>1, <2>1 DEF TypeOK
  <1>5. \A q \in Requests : Same(q)
    BY DEF Same
  <1>6. OneOwner'
    BY DEF IInv, OneOwner
  <1>7. AbsentIsNone'
    <2>1. server.wrapper = "none" => server = Absent
      BY <1>2 DEF Server, Absent
    <2>2. QED
      BY <1>3, <2>1 DEF IInv, AbsentIsNone
  <1>8. RecordsMatch' /\ TablesMatch'
    BY <1>1, <1>2, <1>3 DEF IInv, RecordsMatch, TablesMatch, Complete
  <1>9. ASSUME NEW q \in Requests PROVE Local(q)'
    <2>1. Local(q) /\ Same(q)
      BY <1>5 DEF IInv
    <2>2. (pc[q] \in InTransaction => Holds(q))'
      BY <2>1, HoldsFrame DEF Local
    <2>3. Outside(q)'
      BY <2>1 DEF Local, Outside, Same, InTransaction
    <2>4. Found(q)'
      <3>1. \A m \in touched[q] : m \in Names /\ m # n
        BY <1>1 DEF TypeOK
      <3>2. QED
        BY <1>3, <2>1, <3>1 DEF Local, Same, Found, Kind
    <2>5. Checked(q)'
      BY <1>1, <2>1 DEF Local, Same, Checked, Kind
    <2>6. QED
      BY <2>2, <2>3, <2>4, <2>5 DEF Local
  <1>10. QED
    BY <1>4, <1>6, <1>7, <1>8, <1>9 DEF IInv

-----------------------------------------------------------------------------
\* The invariant.

LEMMA Initially ==
  ASSUME Init
  PROVE  IInv
  <1> USE DEF Init
  <1>1. Idle \in Operations
    BY SomeOperation DEF Idle
  <1>2. TypeOK
    <2>1. servers \in [Names -> Server] /\ sources \in [Names -> Definitions \cup {None}]
      BY DEF Unmanaged
    <2>2. op \in [Requests -> Operations] /\ \A r \in Requests : at[r] \in DOMAIN op[r].bundle
      BY <1>1, BundleFacts
    <2>3. draft \in [Requests -> [Names -> Server]]
      BY AbsentIsServer
    <2>4. QED
      BY <2>1, <2>2, <2>3, MaxSqlAssumption DEF TypeOK
  <1>3. \A n \in Names : servers[n] \in Server /\ servers[n].definition = None /\ servers[n].tables = {}
    BY DEF Unmanaged
  <1>4. OneOwner /\ AbsentIsNone /\ RecordsMatch /\ TablesMatch
    BY <1>3 DEF OneOwner, AbsentIsNone, RecordsMatch, TablesMatch, Server, Absent
  <1>5. \A r \in Requests : Local(r)
    BY DEF Local, Outside, Found, Checked, InTransaction
  <1>6. QED
    BY <1>2, <1>4, <1>5 DEF IInv

LEMMA Preserved ==
  ASSUME IInv, [Next]_vars
  PROVE  IInv'
  <1>1. CASE UNCHANGED vars
    <2>1. UNCHANGED <<servers, sources, sql>> /\ TypeOK' /\ OneOwner' /\ AbsentIsNone'
      BY <1>1 DEF vars, own, IInv, TypeOK, OneOwner, AbsentIsNone
    <2>2. RecordsMatch' /\ TablesMatch'
      BY <2>1 DEF IInv, RecordsMatch, TablesMatch, Complete
    <2>3. \A r \in Requests : Same(r)
      BY <1>1 DEF vars, own, Same
    <2>4. \A r \in Requests : Local(r)'
      BY <2>1, <2>3, LocalFrame DEF IInv
    <2>5. QED
      BY <2>1, <2>2, <2>4 DEF IInv
  <1>2. CASE \E r \in Requests : Handler(r)
    <2> SUFFICES ASSUME NEW r \in Requests, Handler(r) PROVE IInv'
      BY <1>2
    <2>1. CASE Abort(r)
      BY <2>1, AbortStep
    <2>2. ASSUME NEW operation \in Operations, Submit(r, operation) PROVE IInv'
      BY <2>2, SubmitStep
    <2>3. CASE Connect(r)
      BY <2>3, ConnectStep
    <2>4. CASE Check(r)
      BY <2>1, <2>4, CheckStep
    <2>5. CASE Drop(r)
      BY <2>1, <2>5, DropStep
    <2>6. CASE Create(r)
      BY <2>1, <2>6, CreateStep
    <2>7. ASSUME NEW offered \in SUBSET Tables, Import(r, offered) PROVE IInv'
      BY <2>1, <2>7, ImportStep
    <2>8. CASE Record(r)
      BY <2>8, RecordStep
    <2>9. ASSUME NEW answer \in {"ok", "error"}, Commit(r, answer) PROVE IInv'
      BY <2>9, CommitStep
    <2>10. QED
      BY <2>1, <2>2, <2>3, <2>4, <2>5, <2>6, <2>7, <2>8, <2>9 DEF Handler, Statement, Interrupt
  <1>3. CASE SqlUser
    <2>1. Absent \in Unmanaged
      BY AbsentIsServer DEF Unmanaged, Absent
    <2>2. QED
      BY <1>3, <2>1, SqlStep DEF SqlUser, SqlDrop, SqlCreate
  <1>4. QED
    BY <1>1, <1>2, <1>3 DEF Next

\* Every reachable state satisfies the invariant.
THEOREM Invariance == Spec => []IInv
  BY Initially, Preserved, PTL DEF Spec

-----------------------------------------------------------------------------
\* What follows from it.

\* Every variable keeps its type; no handler runs off the end of its bundle.
THEOREM TypeCorrectness == Spec => []TypeOK
  <1>1. IInv => TypeOK
    BY DEF IInv
  <1>2. QED
    BY <1>1, Invariance, PTL

\* The metadata and the foreign servers tell the same story, for every number of
\* concurrent requests, and whatever SQL users drop and create meanwhile.
THEOREM MetadataAgrees == Spec => []RecordsMatch
  <1>1. IInv => RecordsMatch
    BY DEF IInv
  <1>2. QED
    BY <1>1, Invariance, PTL

\* No source is ever committed with some of its tables only.
THEOREM NoPartialSource == Spec => []TablesMatch
  <1>1. IInv => TablesMatch
    BY DEF IInv
  <1>2. QED
    BY <1>1, Invariance, PTL

LEMMA AnswerMeansEnd ==
  ASSUME IInv, [Next]_vars, NEW r \in Requests, response'[r] # response[r]
  PROVE  Abort(r) \/ \E answer \in {"ok", "error"} : Commit(r, answer)
  <1>1. response \in [Requests -> {"none", "ok", "error"}]
    BY DEF IInv, TypeOK
  <1>2. ~UNCHANGED vars /\ ~SqlUser
    BY DEF vars, SqlUser, SqlDrop, SqlCreate, SqlStatement
  <1>3. PICK q \in Requests : Handler(q)
    BY <1>2 DEF Next
  <1>4. response' # response
    OBVIOUS
  <1>5. Abort(q) \/ \E answer \in {"ok", "error"} : Commit(q, answer)
    BY <1>3, <1>4 DEF Handler, Statement, Submit, Connect, Check, Drop, Create, Import, Record, Interrupt
  <1>6. \A s \in Requests \ {q} : response'[s] = response[s]
    BY <1>1, <1>5 DEF Abort, Commit
  <1>7. q = r
    BY <1>6
  <1>8. QED
    BY <1>5, <1>7

\* A request without `replace` alters no server that is there when it commits,
\* not even one that was created after it looked.
THEOREM NothingReplacedUnasked == Spec => ReplaceIsExplicit
  <1>1. ASSUME IInv, [Next]_vars, NEW r \in Requests, response'[r] # response[r],
               op[r].kind = "apply", ~op[r].replace,
               NEW n \in Names, servers[n] # Absent
        PROVE  servers'[n] = servers[n]
    <2>1. CASE Abort(r)
      BY <2>1 DEF Abort
    <2>2. CASE \E answer \in {"ok", "error"} : Commit(r, answer)
      <3>1. n \notin touched[r]
        BY <1>1 DEF IInv, Local, Found, Kind
      <3>2. QED
        BY <2>2, <3>1 DEF Commit, Visible
    <2>3. QED
      BY <1>1, <2>1, <2>2, AnswerMeansEnd
  <1>2. IInv /\ [Next]_vars =>
          [\A r \in Requests :
             response'[r] # response[r] /\ op[r].kind = "apply" /\ ~op[r].replace =>
               \A n \in Names : servers[n] # Absent => servers'[n] = servers[n]]_vars
    BY <1>1
  <1>3. QED
    BY <1>2, Invariance, PTL DEF Spec, ReplaceIsExplicit

LEMMA CommitTakesEffect ==
  ASSUME IInv, NEW r \in Requests, NEW answer \in {"ok", "error"}, Commit(r, answer)
  PROVE  pc[r] = "commit" /\ TakesEffect(r)
  <1>1. op[r] \in Operations /\ Kind(r) \in {"apply", "delete"}
    BY RequestFacts DEF IInv
  <1>2. ASSUME NEW i \in Entries(r)
        PROVE  /\ sources'[op[r].bundle[i].name] = op[r].bundle[i].definition
               /\ servers'[op[r].bundle[i].name].definition = op[r].bundle[i].definition
               /\ Kind(r) = "delete" => servers'[op[r].bundle[i].name] = Absent
    <2>1. sources'[op[r].bundle[i].name] = op[r].bundle[i].definition
      BY CommitFacts
    <2>2. CASE Kind(r) = "apply"
      <3>1. PICK tables \in SUBSET Tables :
              servers'[op[r].bundle[i].name] = ServerOf(op[r].bundle[i].definition, tables)
        BY <2>2, CommitFacts
      <3>2. QED
        BY <2>1, <2>2, <3>1 DEF ServerOf
    <2>3. CASE Kind(r) = "delete"
      <3>1. servers'[op[r].bundle[i].name] = Absent /\ op[r].bundle[i].definition = None
        BY <2>3, CommitFacts
      <3>2. QED
        BY <2>1, <3>1 DEF Absent
    <2>4. QED
      BY <1>1, <2>2, <2>3
  <1>3. QED
    BY <1>2, CommitFacts DEF Commit, TakesEffect, Entries, Kind

\* A bundle is applied as a whole or not at all, for every bundle, every number of
\* concurrent requests and whatever SQL users do.
THEOREM BundlesAreWhole == Spec => AllOrNothing
  <1>1. ASSUME IInv, [Next]_vars, sql' = sql, <<servers, sources>>' # <<servers, sources>>
        PROVE  \E r \in Requests : pc[r] = "commit" /\ TakesEffect(r)
    <2>1. ~UNCHANGED vars /\ ~SqlUser
      BY <1>1 DEF vars, SqlUser, SqlDrop, SqlCreate, SqlStatement, IInv, TypeOK
    <2>2. PICK r \in Requests : Handler(r)
      BY <1>1, <2>1 DEF Next
    <2>3. \E answer \in {"ok", "error"} : Commit(r, answer)
      BY <1>1, <2>2 DEF Handler, Statement, Submit, Connect, Check, Drop, Create, Import,
                        Record, Interrupt, Abort
    <2>4. QED
      BY <1>1, <2>3, CommitTakesEffect
  <1>2. ASSUME IInv, [Next]_vars, NEW r \in Requests, response'[r] = "ok", response[r] # "ok"
        PROVE  TakesEffect(r)
    <2>1. Abort(r) \/ \E answer \in {"ok", "error"} : Commit(r, answer)
      BY <1>2, AnswerMeansEnd
    <2>2. CASE Abort(r)
      BY <1>2, <2>2 DEF Abort, IInv, TypeOK
    <2>3. CASE \E answer \in {"ok", "error"} : Commit(r, answer)
      BY <1>2, <2>3, CommitTakesEffect
    <2>4. QED
      BY <2>1, <2>2, <2>3
  <1>3. IInv /\ [Next]_vars =>
          [/\ sql' = sql /\ <<servers, sources>>' # <<servers, sources>> =>
                \E r \in Requests : pc[r] = "commit" /\ TakesEffect(r)
           /\ \A r \in Requests :
                response'[r] = "ok" /\ response[r] # "ok" => TakesEffect(r)]_vars
    BY <1>1, <1>2
  <1>4. QED
    BY <1>3, Invariance, PTL DEF Spec, AllOrNothing

LEMMA SameModel ==
  /\ Registry!None = None /\ Registry!Server = Server /\ Registry!Absent = Absent
  /\ Registry!Unmanaged = Unmanaged
  /\ \A definition, tables :
       /\ Registry!ServerOf(definition, tables) = ServerOf(definition, tables)
       /\ Registry!Complete(definition, tables) = Complete(definition, tables)
  BY DEF None, Server, Absent, Unmanaged, ServerOf, Complete, Registry!None, Registry!Server,
         Registry!Absent, Registry!Unmanaged, Registry!ServerOf, Registry!Complete

\* As long as no SQL user interferes, every request takes effect in one step that
\* does all it asked for, or has no effect at all.
THEOREM Refinement ==
  ASSUME MaxSql = 0
  PROVE  Spec => ImplementsSourceRegistry
  <1>1. Init => Registry!Init
    BY SameModel DEF Init, Registry!Init
  <1>2. ASSUME IInv, NEW r \in Requests, NEW answer \in {"ok", "error"}, Commit(r, answer)
        PROVE  Registry!Perform(op[r]) /\ op[r] \in Operations
    <2>1. op[r] \in Operations /\ Kind(r) \in {"apply", "delete"}
      BY <1>2, RequestFacts DEF IInv
    <2>2. ASSUME NEW i \in Entries(r)
          PROVE  /\ servers[op[r].bundle[i].name].wrapper # "other"
                 /\ Kind(r) = "apply" /\ ~op[r].replace => servers[op[r].bundle[i].name] = Absent
                 /\ Kind(r) = "delete" => servers[op[r].bundle[i].name].wrapper = "openapi_fdw"
      <3>1. op[r].bundle[i].name \in touched[r]
        BY <1>2, CommitFacts
      <3>2. QED
        BY <1>2, <3>1 DEF IInv, Local, Found
    <2>3. Kind(r) = "apply" => Registry!Apply(op[r])
      BY <1>2, <2>2, CommitFacts, SameModel DEF Registry!Apply, Entries, Kind
    <2>4. Kind(r) = "delete" => Registry!Delete(op[r])
      <3>1. ASSUME Kind(r) = "delete", NEW i \in Entries(r)
            PROVE  /\ servers'[op[r].bundle[i].name] = Absent
                   /\ sources'[op[r].bundle[i].name] = None
        BY <1>2, <3>1, CommitFacts
      <3>2. QED
        BY <2>2, <3>1, SameModel DEF Registry!Delete, Entries, Kind
    <2>5. QED
      BY <1>2, <2>1, <2>3, <2>4, CommitFacts, SameModel DEF Registry!Perform, Entries
  <1>3. IInv /\ [Next]_vars => [Registry!Next]_(Registry!vars)
    <2> SUFFICES ASSUME IInv, [Next]_vars PROVE [Registry!Next]_(Registry!vars)
      OBVIOUS
    <2>1. CASE UNCHANGED <<servers, sources>>
      BY <2>1 DEF Registry!vars
    <2>2. CASE ~UNCHANGED <<servers, sources>>
      <3>1. ~UNCHANGED vars
        BY <2>2 DEF vars
      <3>2. ~SqlUser
        BY MaxSqlAssumption DEF SqlUser, SqlDrop, SqlCreate, SqlStatement, IInv, TypeOK
      <3>3. PICK r \in Requests : Handler(r)
        BY <3>1, <3>2 DEF Next
      <3>4. \E answer \in {"ok", "error"} : Commit(r, answer)
        BY <2>2, <3>3 DEF Handler, Statement, Submit, Connect, Check, Drop, Create, Import,
                          Record, Interrupt, Abort
      <3>5. QED
        BY <1>2, <3>4 DEF Registry!Next
    <2>3. QED
      BY <2>1, <2>2
  <1>4. QED
    BY <1>1, <1>3, Invariance, PTL DEF Spec, ImplementsSourceRegistry, Registry!Spec

-----------------------------------------------------------------------------
\* The dialog of the browser that imports a bundle: what it applies is what it shows, for
\* any number of requests under way and any order of their answers.

DialogInv == DialogTypeOK /\ ShownIsArmed

LEMMA DialogStart == DialogInit => DialogInv
  <1> SUFFICES ASSUME DialogInit PROVE DialogInv
    OBVIOUS
  <1>1. open \in BOOLEAN /\ replace \in BOOLEAN /\ enabled \in BOOLEAN
    BY Zenon DEF DialogInit
  <1>2. text \in Texts /\ armed = NoPlan /\ panel = NoPlan /\ plans = {} /\ applies = {} /\ files = {}
    BY DEF DialogInit
  <1>3. reloads = 0 /\ actions = 0
    BY DEF DialogInit
  <1> QED BY <1>1, <1>2, <1>3, BoundsAssumption DEF DialogInv, DialogTypeOK, ShownIsArmed

\* A step that gives the plan up, or leaves it and what is shown alone.
LEMMA PanelFollows ==
  ASSUME ShownIsArmed, Invalidate \/ UNCHANGED <<armed, panel>>
  PROVE  ShownIsArmed'
  BY DEF ShownIsArmed, Invalidate

LEMMA InvalidateType ==
  ASSUME Invalidate
  PROVE  /\ armed' \in Request \cup {NoPlan} /\ panel' \in Request \cup {NoPlan}
         /\ enabled' \in BOOLEAN
  BY DEF Invalidate

LEMMA ActionCounted ==
  ASSUME actions \in 0..MaxActions, Act
  PROVE  actions' \in 1..MaxActions
  BY BoundsAssumption DEF Act

LEMMA AdministratorActs ==
  ASSUME DialogInv,
         \/ OpenImport \/ Cancel
         \/ \E t \in Texts, r \in BOOLEAN : Edit(t, r)
         \/ \E t \in Texts : ChooseFile(t)
  PROVE  DialogInv'
  <1> USE DEF DialogInv
  <1>1. actions' \in 1..MaxActions
    BY ActionCounted DEF DialogTypeOK, OpenImport, Cancel, Edit, ChooseFile
  <1>2. CASE OpenImport
    BY <1>1, <1>2, InvalidateType, PanelFollows DEF OpenImport, DialogTypeOK
  <1>3. CASE Cancel
    <2>1. open' \in BOOLEAN
      BY <1>3, Zenon DEF Cancel
    <2>2. UNCHANGED <<text, replace, armed, panel, enabled, plans, applies, reloads, files>>
      BY <1>3 DEF Cancel
    <2> QED BY <1>1, <2>1, <2>2, PanelFollows DEF DialogTypeOK
  <1>4. CASE \E t \in Texts, r \in BOOLEAN : Edit(t, r)
    BY <1>1, <1>4, InvalidateType, PanelFollows DEF Edit, DialogTypeOK
  <1>5. CASE \E t \in Texts : ChooseFile(t)
    BY <1>1, <1>5, PanelFollows DEF ChooseFile, DialogTypeOK, page
  <1> QED BY <1>2, <1>3, <1>4, <1>5

LEMMA PlanIsSent ==
  ASSUME DialogInv, PlanImport
  PROVE  DialogInv'
  <1>1. actions' \in 1..MaxActions
    BY ActionCounted DEF DialogInv, DialogTypeOK, PlanImport
  <1>2. ShownIsArmed'
    BY PanelFollows DEF DialogInv, PlanImport
  <1>3. plans' \in SUBSET Request
    BY <1>1 DEF DialogInv, DialogTypeOK, PlanImport, Parses, Request
  <1> QED BY <1>1, <1>2, <1>3, InvalidateType DEF DialogInv, DialogTypeOK, PlanImport

\* A request to apply takes the bundle and the choice of the plan in force.
LEMMA ApplyTakesArmed ==
  ASSUME DialogTypeOK, ApplyImport
  PROVE  \A apply \in applies' \ applies :
           apply \in Request /\ armed # NoPlan /\ apply.bundle = armed.bundle /\ apply.replace = armed.replace
  <1> TAKE apply \in applies' \ applies
  <1>1. armed # NoPlan /\ apply = [armed EXCEPT !.id = actions']
    BY DEF ApplyImport
  <1>2. armed \in Request
    BY <1>1 DEF DialogTypeOK
  <1>3. actions' \in 1..MaxActions
    BY ActionCounted DEF DialogTypeOK, ApplyImport
  <1> QED BY <1>1, <1>2, <1>3 DEF Request

LEMMA ApplyIsSent ==
  ASSUME DialogInv, ApplyImport
  PROVE  DialogInv'
  <1>1. actions' \in 1..MaxActions
    BY ActionCounted DEF DialogInv, DialogTypeOK, ApplyImport
  <1>2. ShownIsArmed'
    BY PanelFollows DEF DialogInv, ApplyImport
  <1>3. applies' \in SUBSET Request
    BY ApplyTakesArmed DEF DialogInv, DialogTypeOK
  <1>4. enabled' \in BOOLEAN
    <2>1. enabled' = enabled \/ enabled' = FALSE
      BY DEF ApplyImport
    <2> QED BY <2>1, Zenon DEF DialogInv, DialogTypeOK
  <1>5. UNCHANGED <<open, text, replace, armed, panel, plans, reloads, files>>
    BY DEF ApplyImport
  <1> QED BY <1>1, <1>2, <1>3, <1>4, <1>5 DEF DialogInv, DialogTypeOK

LEMMA AnswerArrives ==
  ASSUME DialogInv, Answer
  PROVE  DialogInv'
  <1> USE DEF DialogInv
  <1>1. ASSUME NEW plan \in plans, PlanAnswered(plan) PROVE DialogInv'
    BY <1>1 DEF PlanAnswered, Planned, DialogTypeOK, ShownIsArmed
  <1>2. ASSUME NEW plan \in plans, PlanFails(plan) PROVE DialogInv'
    BY <1>2, InvalidateType, PanelFollows DEF PlanFails, DialogTypeOK
  <1>3. ASSUME NEW apply \in applies, ApplyAnswered(apply) \/ ApplyFails(apply) PROVE DialogInv'
    <2>1. open' \in BOOLEAN
      BY <1>3, Zenon DEF ApplyAnswered, ApplyFails, DialogTypeOK
    <2>2. enabled' \in BOOLEAN
      BY <1>3, Zenon DEF ApplyAnswered, ApplyFails, Released, DialogTypeOK
    <2>3. /\ applies' \subseteq applies /\ reloads' \in {reloads, reloads + 1}
          /\ UNCHANGED <<text, replace, armed, panel, plans, files, actions>>
      BY <1>3 DEF ApplyAnswered, ApplyFails
    <2> QED BY <2>1, <2>2, <2>3, PanelFollows DEF DialogTypeOK
  <1>4. ASSUME NEW t \in Texts, FileRead(t) \/ FileFails(t) PROVE DialogInv'
    <2>1. CASE FileRead(t)
      BY <2>1, InvalidateType, PanelFollows DEF FileRead, DialogTypeOK
    <2>2. CASE FileFails(t)
      BY <2>2, PanelFollows DEF FileFails, DialogTypeOK, page
    <2> QED BY <1>4, <2>1, <2>2
  <1>5. CASE Reloaded
    BY <1>5, PanelFollows DEF Reloaded, Released, DialogTypeOK
  <1> QED BY <1>1, <1>2, <1>3, <1>4, <1>5 DEF Answer

LEMMA DialogStep == DialogInv /\ [DialogNext]_dialogVars => DialogInv'
  <1>1. DialogInv /\ UNCHANGED dialogVars => DialogInv'
    BY DEF DialogInv, DialogTypeOK, ShownIsArmed, dialogVars, page
  <1> QED
    BY <1>1, AdministratorActs, PlanIsSent, ApplyIsSent, AnswerArrives DEF DialogNext

LEMMA DialogInvariance == DialogSpec => []DialogInv
  <1>1. DialogInit => DialogInv
    BY DialogStart
  <1>2. DialogInv /\ [DialogNext]_dialogVars => DialogInv'
    BY DialogStep
  <1> QED BY <1>1, <1>2, PTL DEF DialogSpec

\* The type invariant: requests carry a bundle that parses and a choice of replace.
THEOREM DialogTypeCorrectness == DialogSpec => []DialogTypeOK
  <1>1. DialogInv => DialogTypeOK
    BY DEF DialogInv
  <1> QED BY <1>1, DialogInvariance, PTL

\* The plan in force (state.importBundle) is the one the panel shows, always.
THEOREM PanelShowsPlan == DialogSpec => []ShownIsArmed
  <1>1. DialogInv => ShownIsArmed
    BY DEF DialogInv
  <1> QED BY <1>1, DialogInvariance, PTL

\* applyImport sends only what the server has planned and the panel shows.
THEOREM OnlyShownApplied == DialogSpec => AppliedAsShown
  <1>1. ASSUME DialogInv, [DialogNext]_dialogVars
        PROVE  [\A apply \in applies' \ applies :
                  panel # NoPlan /\ apply.bundle = panel.bundle /\ apply.replace = panel.replace]_dialogVars
    <2>1. CASE ApplyImport
      BY <1>1, <2>1, ApplyTakesArmed DEF DialogInv, ShownIsArmed
    <2>2. CASE UNCHANGED dialogVars
      BY <2>2
    <2>3. CASE DialogNext /\ ~ApplyImport
      <3>1. applies' \subseteq applies
        BY <2>3 DEF DialogNext, OpenImport, Cancel, Edit, ChooseFile,
             PlanImport, Answer, PlanAnswered, PlanFails,
             ApplyAnswered, ApplyFails, FileRead, FileFails, Reloaded
      <3> QED BY <3>1
    <2> QED BY <1>1, <2>1, <2>2, <2>3
  <1> QED BY <1>1, DialogInvariance, PTL DEF DialogSpec, AppliedAsShown
=============================================================================
