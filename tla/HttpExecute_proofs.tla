------------------------- MODULE HttpExecute_proofs -------------------------
(***************************************************************************)
(* Proofs about HttpExecute, for every number of retries, every timeout    *)
(* and every number of calls.                                              *)
(***************************************************************************)
EXTENDS HttpExecute, FiniteSetTheorems, TLAPS

(* The inductive invariant.  It says where an attempt can be: on the wire  *)
(* or handled, never ahead of the loop variable, and for a method that is  *)
(* not retried always the first of its call; and that every attempt before *)
(* it has ended, so that a call that gives up has counted them all.        *)

Phases ==
  /\ pc # "idle" => call \in Calls /\ result[call] = "pending"
  /\ pc = "backoff" => attempt < MaximumRetries
  /\ pc # "idle" => attempt <= MaximumRetries

Started ==
  \A c \in Calls : result[c] = "unused" <=> c > call

AttemptsInOrder ==
  \A a \in wire \cup handled :
    /\ a.call <= call
    /\ a.call = call => a.attempt <= attempt
    /\ a.call = call /\ pc = "send" => a.attempt < attempt
    /\ ~AutomaticallyRetryable(op[a.call].method) => a.attempt = 0

AnswersEarned ==
  /\ pc = "wait" /\ answer.status = "success" /\ ~FollowRedirects => Current \in handled
  /\ \A c \in Calls :
       result[c] = "ok" /\ ~FollowRedirects => \E a \in handled : a.call = c

Timing ==
  /\ pc = "backoff" => delay <= MaxRetryDelay
  /\ IF pc \in {"send", "wait"}
     THEN elapsed <= attempt * RequestTimeout + attempt * MaxRetryDelay
     ELSE elapsed <= (attempt + 1) * RequestTimeout + attempt * MaxRetryDelay

Counted ==
  /\ pc \in {"send", "wait"} => Len(outcomes) = attempt
  /\ pc = "backoff" => Len(outcomes) = attempt + 1

IInv ==
  /\ TypeOK
  /\ Phases
  /\ Started
  /\ AttemptsInOrder
  /\ AnswersEarned
  /\ Timing
  /\ Counted
  /\ RetriesWhileTransient

USE OperationsAssumption, MaxRetriesAssumption, DurationsAssumption,
    FollowRedirectsAssumption, MaxCallsAssumption

-----------------------------------------------------------------------------
\* The sleeps are bounded whatever the attempt and whatever the origin asks.

LEMMA ExponentialDelayBounded ==
  ASSUME NEW a \in 0..10
  PROVE  ExponentialDelay(a) \in 0..MaxRetryDelay
<1> DEFINE table == <<1, 2, 4, 8, 16, 32, 64, 128, 256, 512, 1024>>
<1>1. table[a + 1] \in Nat
  <2>1. a + 1 \in 1..11
    OBVIOUS
  <2>2. QED BY <2>1
<1>2. QED BY <1>1 DEF ExponentialDelay, Least

LEMMA RetryDelayBounded ==
  ASSUME NEW a \in 0..10, NEW reply \in Answers
  PROVE  RetryDelay(reply, a) \in 0..MaxRetryDelay
<1>1. reply.retryAfter \in RetryAfter \cup {-1}
  BY DEF Answers
<1>2. ExponentialDelay(a) \in 0..MaxRetryDelay
  BY ExponentialDelayBounded
<1> DEFINE asked == IF reply.retryAfter >= 0 THEN reply.retryAfter ELSE ExponentialDelay(a)
<1>3. asked \in Nat
  <2>1. CASE reply.retryAfter \in RetryAfter
    <3>1. reply.retryAfter \in Nat
      BY <2>1
    <3>2. asked = reply.retryAfter
      BY <3>1
    <3>3. QED BY <3>1, <3>2
  <2>2. CASE reply.retryAfter = -1
    BY <2>2, <1>2
  <2>3. QED BY <1>1, <2>1, <2>2
<1>4. RetryDelay(reply, a) = Least(asked, MaxRetryDelay)
  BY DEF RetryDelay
<1> HIDE DEF asked
<1>5. QED BY <1>3, <1>4 DEF Least

-----------------------------------------------------------------------------

LEMMA InitIInv == Init => IInv
<1> SUFFICES ASSUME Init PROVE IInv
  OBVIOUS
<1> USE DEF Init
<1>1. TypeOK
  BY DEF TypeOK, Results, Methods
<1>2. Phases /\ AttemptsInOrder /\ Counted /\ RetriesWhileTransient
  BY DEF Phases, AttemptsInOrder, Counted, RetriesWhileTransient
<1>3. Started /\ AnswersEarned
  BY DEF Started, AnswersEarned, Calls
<1>4. Timing
  BY DEF Timing
<1>5. QED BY <1>1, <1>2, <1>3, <1>4 DEF IInv

-----------------------------------------------------------------------------
\* The client's steps.

LEMMA BeginStep ==
  ASSUME IInv, NEW operation \in Operations, Begin(operation)
  PROVE  IInv'
<1> USE DEF Begin, IInv
<1>1. call + 1 \in Calls /\ call' = call + 1 /\ operation \in [method : Methods, json : BOOLEAN]
  BY DEF TypeOK, Calls
<1>2. TypeOK'
  BY <1>1 DEF TypeOK, Calls, Results
<1>3. Phases'
  BY <1>1 DEF Phases, TypeOK, MaximumRetries
<1>4. Started'
  BY <1>1 DEF Started, TypeOK, Calls
<1>5. AttemptsInOrder'
  <2> SUFFICES ASSUME NEW a \in wire \cup handled
               PROVE  /\ a.call <= call + 1
                      /\ a.call # call + 1
                      /\ ~AutomaticallyRetryable(op'[a.call].method) => a.attempt = 0
    BY <1>1 DEF AttemptsInOrder
  <2>1. a.call \in Calls /\ a.call <= call
    BY DEF AttemptsInOrder, TypeOK, Attempts
  <2>2. op'[a.call] = op[a.call]
    BY <2>1 DEF TypeOK, Calls
  <2>3. QED BY <2>1, <2>2 DEF AttemptsInOrder, TypeOK, Calls
<1>6. AnswersEarned'
  BY <1>1 DEF AnswersEarned, TypeOK
<1>7. Timing'
  BY DEF Timing
<1>8. Counted' /\ RetriesWhileTransient'
  BY DEF Counted, RetriesWhileTransient
<1>9. QED BY <1>2, <1>3, <1>4, <1>5, <1>6, <1>7, <1>8

LEMMA SendStep ==
  ASSUME IInv, Send
  PROVE  IInv'
<1> USE DEF Send, IInv
<1>1. call \in Calls /\ Current \in Attempts
  BY DEF Phases, TypeOK, Current, Attempts
<1>2. TypeOK'
  BY <1>1 DEF TypeOK
<1>3. Phases' /\ Started' /\ Timing' /\ Counted' /\ RetriesWhileTransient'
  BY DEF Phases, Started, Timing, Counted, RetriesWhileTransient, MaximumRetries
<1>4. AttemptsInOrder'
  <2>1. ~AutomaticallyRetryable(op[call].method) => attempt = 0
    BY DEF Phases, MaximumRetries, TypeOK
  <2>2. QED BY <1>1, <2>1 DEF AttemptsInOrder, Current, TypeOK, Calls
<1>5. AnswersEarned'
  BY DEF AnswersEarned, NoAnswer
<1>6. QED BY <1>2, <1>3, <1>4, <1>5

\* What the two ways an attempt can end have in common: the loop goes on after
\* a bounded sleep, or the call returns.
LEMMA AttemptEnds ==
  ASSUME IInv, pc = "wait",
         NEW latency \in Latencies, elapsed' = elapsed + latency,
         NEW ticks \in 0..MaxRetryDelay, NEW r \in {"ok", "error"},
         NEW outcome \in Statuses \cup TransportErrors,
         outcomes' = Append(outcomes, outcome),
         NEW transient \in BOOLEAN,
         transient <=> outcome \in Transient,
         \/ Retries(transient) /\ BackOff(ticks)
         \/ ~Retries(transient) /\ Return(r),
         call' = call, op' = op, answer' = answer, handled' = handled,
         wire' \subseteq wire,
         r = "ok" /\ ~FollowRedirects => Current \in handled
  PROVE  IInv'
<1> USE DEF IInv
<1>1. call \in Calls /\ attempt \in 0..MaxRetries
  BY DEF Phases, TypeOK
<1>2. TypeOK'
  <2>1. outcomes' \in Seq(Statuses \cup TransportErrors)
    BY DEF TypeOK
  <2>2. elapsed' \in Nat
    BY DEF TypeOK, Latencies
  <2>3. CASE BackOff(ticks)
    BY <1>1, <2>1, <2>2, <2>3 DEF TypeOK, BackOff
  <2>4. CASE Return(r)
    BY <1>1, <2>1, <2>2, <2>4 DEF TypeOK, Return, Results
  <2>5. QED BY <2>3, <2>4
<1>3. Phases'
  BY <1>1 DEF Phases, Retries, BackOff, Return, MaximumRetries
<1>4. Started'
  BY <1>1 DEF Started, Phases, BackOff, Return, TypeOK
<1>5. AttemptsInOrder'
  BY DEF AttemptsInOrder, BackOff, Return
<1>6. AnswersEarned'
  BY <1>1 DEF AnswersEarned, BackOff, Return, Current, TypeOK
<1>7. Timing'
  <2>1. elapsed' <= (attempt + 1) * RequestTimeout + attempt * MaxRetryDelay
    <3> DEFINE spent == attempt * RequestTimeout
               slept == attempt * MaxRetryDelay
    <3>1. spent \in Nat /\ slept \in Nat /\ (attempt + 1) * RequestTimeout = spent + RequestTimeout
      BY <1>1
    <3>2. elapsed <= spent + slept
      BY DEF Timing
    <3> HIDE DEF spent
    <3>3. QED BY <3>1, <3>2 DEF TypeOK, Latencies
  <2>2. QED BY <2>1 DEF Timing, BackOff, Return
<1>8. RetriesWhileTransient'
  <2>1. \A i \in DOMAIN outcomes : outcomes[i] \in Transient
    BY DEF RetriesWhileTransient
  <2>2. Len(outcomes') = Len(outcomes) + 1 /\ DOMAIN outcomes' = 1..(Len(outcomes) + 1)
    BY DEF TypeOK
  <2>3. \A i \in DOMAIN outcomes' : outcomes'[i] = IF i <= Len(outcomes) THEN outcomes[i] ELSE outcome
    BY DEF TypeOK
  <2>4. pc' # "idle" => transient
    BY DEF Retries, BackOff, Return
  <2>5. \A i \in DOMAIN outcomes' : i < Len(outcomes') \/ pc' # "idle" => outcomes'[i] \in Transient
    BY <2>1, <2>2, <2>3, <2>4 DEF TypeOK
  <2>6. ASSUME pc' = "idle", outcomes'[Len(outcomes')] \in Transient, op[call].method \in IdempotentMethods
        PROVE  Len(outcomes') = MaxRetries + 1
    <3>1. transient
      BY <2>2, <2>3, <2>6 DEF TypeOK
    <3>2. ~(attempt < MaximumRetries) /\ MaximumRetries = MaxRetries
      BY <2>6, <3>1 DEF Retries, BackOff, MaximumRetries, AutomaticallyRetryable
    <3>3. Len(outcomes) = attempt
      BY DEF Counted
    <3>4. QED BY <1>1, <2>2, <3>2, <3>3
  <2>7. QED BY <2>5, <2>6 DEF RetriesWhileTransient
<1>9. Counted'
  <2>1. Len(outcomes') = Len(outcomes) + 1
    BY DEF TypeOK
  <2>2. QED BY <2>1 DEF Counted, BackOff, Return
<1>10. QED BY <1>2, <1>3, <1>4, <1>5, <1>6, <1>7, <1>8, <1>9

LEMMA ReceiveStep ==
  ASSUME IInv, NEW latency \in Latencies, Receive(latency)
  PROVE  IInv'
<1>1. attempt \in 0..10 /\ answer \in Answers
  BY DEF IInv, TypeOK, Receive
<1>2. RetryDelay(answer, attempt) \in 0..MaxRetryDelay
  BY <1>1, RetryDelayBounded
<1>3. Verdict(op[call], answer) \in {"ok", "error"}
  BY DEF Verdict
<1>4. Verdict(op[call], answer) = "ok" /\ ~FollowRedirects => Current \in handled
  BY DEF Verdict, IInv, AnswersEarned, Receive
<1>5. answer.status \in Statuses /\ IsRetryableStatus(answer.status) \in BOOLEAN
  BY <1>1 DEF Answers, Statuses, IsRetryableStatus
<1>6. IsRetryableStatus(answer.status) <=> answer.status \in Transient
  BY <1>5 DEF IsRetryableStatus, Statuses, Transient
<1>7. QED BY <1>2, <1>3, <1>4, <1>5, <1>6, AttemptEnds DEF Receive

LEMMA TransportErrorStep ==
  ASSUME IInv, NEW error \in TransportErrors, NEW latency \in Latencies,
         TransportError(error, latency)
  PROVE  IInv'
<1>1. attempt \in 0..10
  BY DEF IInv, TypeOK
<1>2. ExponentialDelay(attempt) \in 0..MaxRetryDelay
  BY <1>1, ExponentialDelayBounded
<1>3. IsRetryableError(error) \in BOOLEAN
  BY DEF IsRetryableError
<1>4. IsRetryableError(error) <=> error \in Transient
  BY DEF IsRetryableError, TransportErrors, Transient
<1>5. QED BY <1>2, <1>3, <1>4, AttemptEnds DEF TransportError

LEMMA RejectRequestStep ==
  ASSUME IInv, RejectRequest
  PROVE  IInv'
<1> USE DEF RejectRequest, Return, IInv
<1>1. call \in Calls
  BY DEF Phases
<1>2. TypeOK'
  BY <1>1 DEF TypeOK, Results
<1>3. Phases' /\ AttemptsInOrder'
  BY DEF Phases, AttemptsInOrder
<1>4. Started'
  BY <1>1 DEF Started, Phases, TypeOK
<1>5. AnswersEarned'
  BY <1>1 DEF AnswersEarned, TypeOK
<1>6. Timing'
  BY DEF Timing, TypeOK
<1>7. Counted' /\ RetriesWhileTransient'
  <2>1. Len(outcomes) = 0
    BY DEF Counted
  <2>2. outcomes = <<>>
    BY <2>1 DEF TypeOK
  <2>3. QED BY <2>2 DEF Counted, RetriesWhileTransient
<1>8. QED BY <1>2, <1>3, <1>4, <1>5, <1>6, <1>7

LEMMA WakeStep ==
  ASSUME IInv, Wake
  PROVE  IInv'
<1> USE DEF Wake, IInv
<1>1. attempt + 1 <= MaximumRetries /\ MaximumRetries \in 0..MaxRetries /\ attempt \in Nat
  BY DEF Phases, TypeOK, MaximumRetries
<1>2. TypeOK'
  BY <1>1 DEF TypeOK
<1>3. Phases' /\ Started' /\ AnswersEarned' /\ Counted' /\ RetriesWhileTransient'
  BY <1>1 DEF Phases, Started, AnswersEarned, Counted, RetriesWhileTransient, MaximumRetries
<1>4. AttemptsInOrder'
  <2> SUFFICES ASSUME NEW a \in wire \cup handled, a.call = call
               PROVE  a.attempt <= attempt + 1 /\ a.attempt < attempt + 1
    BY DEF AttemptsInOrder
  <2>1. a.attempt <= attempt /\ a.attempt \in Nat
    BY DEF AttemptsInOrder, TypeOK, Attempts
  <2>2. QED BY <1>1, <2>1
<1>5. Timing'
  <2> DEFINE slept == attempt * MaxRetryDelay
             allowed == (attempt + 1) * RequestTimeout
  <2>1. slept \in Nat /\ allowed \in Nat /\ (attempt + 1) * MaxRetryDelay = slept + MaxRetryDelay
    BY <1>1
  <2>2. elapsed <= allowed + slept /\ delay <= MaxRetryDelay
    BY DEF Timing
  <2> HIDE DEF slept, allowed
  <2>3. elapsed + delay <= allowed + (slept + MaxRetryDelay)
    BY <2>1, <2>2 DEF TypeOK
  <2>4. elapsed' <= attempt' * RequestTimeout + attempt' * MaxRetryDelay
    BY <2>1, <2>3 DEF allowed
  <2>5. QED BY <2>4 DEF Timing
<1>6. QED BY <1>2, <1>3, <1>4, <1>5

-----------------------------------------------------------------------------
\* The origin's steps.

LEMMA HandleStep ==
  ASSUME IInv, NEW a \in wire, Handle(a)
  PROVE  IInv'
<1> USE DEF Handle, Reply, IInv
<1>1. TypeOK'
  BY DEF TypeOK
<1>2. Phases' /\ Started' /\ AttemptsInOrder' /\ Timing' /\ Counted' /\ RetriesWhileTransient'
  BY DEF Phases, Started, AttemptsInOrder, Timing, Counted, RetriesWhileTransient, MaximumRetries
<1>3. AnswersEarned'
  BY DEF AnswersEarned, Current
<1>4. QED BY <1>1, <1>2, <1>3

LEMMA RefuseStep ==
  ASSUME IInv, NEW a \in wire, Refuse(a)
  PROVE  IInv'
<1> USE DEF Refuse, Reply, IInv
<1>1. TypeOK'
  BY DEF TypeOK
<1>2. Phases' /\ Started' /\ AttemptsInOrder' /\ Timing' /\ Counted' /\ RetriesWhileTransient'
  BY DEF Phases, Started, AttemptsInOrder, Timing, Counted, RetriesWhileTransient, MaximumRetries
<1>3. AnswersEarned'
  BY DEF AnswersEarned, Current, NoAnswer
<1>4. QED BY <1>1, <1>2, <1>3

-----------------------------------------------------------------------------

LEMMA NextIInv == IInv /\ [Next]_vars => IInv'
<1> SUFFICES ASSUME IInv, [Next]_vars PROVE IInv'
  OBVIOUS
<1>1. CASE \E operation \in Operations : Begin(operation)
  BY <1>1, BeginStep
<1>2. CASE Progress
  <2>1. RequestTimeout \in Latencies
    BY DEF Latencies
  <2>2. CASE TransportError("timeout", RequestTimeout)
    BY <2>1, <2>2, TransportErrorStep DEF TransportError
  <2>3. QED BY <1>2, <2>2, SendStep, ReceiveStep, WakeStep DEF Progress
<1>3. CASE Failure
  BY <1>3, RejectRequestStep, TransportErrorStep DEF Failure
<1>4. CASE Origin
  BY <1>4, HandleStep, RefuseStep DEF Origin
<1>5. CASE UNCHANGED vars
  BY <1>5 DEF vars, IInv, TypeOK, Phases, Started, AttemptsInOrder, AnswersEarned,
             Timing, Counted, RetriesWhileTransient, MaximumRetries, Current
<1>6. QED BY <1>1, <1>2, <1>3, <1>4, <1>5 DEF Next

LEMMA Invariance == Spec => []IInv
BY InitIInv, NextIInv, PTL DEF Spec

\* Every variable of the retry loop keeps its type.
THEOREM TypeCorrectness == Spec => []TypeOK
<1>1. IInv => TypeOK
  BY DEF IInv
<1>2. QED BY <1>1, Invariance, PTL

\* POST and PATCH are carried out at most once, whatever the configured number
\* of retries and however long the origin takes to act on an attempt.
THEOREM MutationsAtMostOnce == Spec => []AtMostOnce
<1>1. IInv => AtMostOnce
  <2> SUFFICES ASSUME IInv, NEW c \in Calls, op[c].method \in {"POST", "PATCH"},
                      NEW a \in HandledOf(c), NEW b \in HandledOf(c)
               PROVE  a = b
    BY DEF AtMostOnce
  <2>1. a \in Attempts /\ b \in Attempts /\ a.call = c /\ b.call = c
    BY DEF IInv, TypeOK, HandledOf
  <2>2. a.attempt = 0 /\ b.attempt = 0
    BY <2>1 DEF IInv, AttemptsInOrder, HandledOf, AutomaticallyRetryable, IdempotentMethods
  <2>3. QED BY <2>1, <2>2 DEF Attempts
<1>2. QED BY <1>1, Invariance, PTL

\* The time a call takes is bounded by its configuration alone.
THEOREM CallsBounded == Spec => []ElapsedBounded
<1>1. IInv => ElapsedBounded
  <2> SUFFICES ASSUME IInv PROVE ElapsedBounded
    OBVIOUS
  <2> DEFINE spent == attempt * RequestTimeout
             slept == attempt * MaxRetryDelay
  <2>1. spent \in Nat /\ slept \in Nat /\ (attempt + 1) * RequestTimeout = spent + RequestTimeout
    BY DEF IInv, TypeOK
  <2>2. elapsed <= spent + slept \/ elapsed <= (spent + RequestTimeout) + slept
    BY <2>1 DEF IInv, Timing
  <2> HIDE DEF spent, slept
  <2>3. elapsed <= (spent + RequestTimeout) + slept
    BY <2>1, <2>2 DEF IInv, TypeOK
  <2>4. QED BY <2>1, <2>3 DEF ElapsedBounded, slept
<1>2. QED BY <1>1, Invariance, PTL

\* When redirects are off, a reported success is the origin's own.
THEOREM SuccessIsReal == Spec => []OkMeansHandled
<1>1. IInv => OkMeansHandled
  BY DEF IInv, AnswersEarned, OkMeansHandled, HandledOf
<1>2. QED BY <1>1, Invariance, PTL

\* Only a failure that another attempt may mend is followed by one, and no call of an
\* idempotent method gives up on such a failure before its last attempt.
THEOREM RetriesJustified == Spec => []RetriesWhileTransient
<1>1. IInv => RetriesWhileTransient
  BY DEF IInv
<1>2. QED BY <1>1, Invariance, PTL

-----------------------------------------------------------------------------
\* Refinement: the loop implements RemoteCall.

\* An attempt is handled once: what is handled has left the wire.
HandledOnce ==
  /\ IsFiniteSet(handled)
  /\ wire \cap handled = {}

LEMMA HandledOnceInvariance == Spec => []HandledOnce
<1>1. Init => HandledOnce
  BY FS_EmptySet DEF Init, HandledOnce
<1>2. IInv /\ HandledOnce /\ [Next]_vars => HandledOnce'
  <2> SUFFICES ASSUME IInv, HandledOnce, [Next]_vars PROVE HandledOnce'
    OBVIOUS
  <2> USE DEF HandledOnce
  <2>1. CASE Send
    <3>1. Current \notin handled
      BY <2>1 DEF Send, Current, IInv, AttemptsInOrder, TypeOK
    <3>2. QED BY <2>1, <3>1 DEF Send
  <2>2. CASE Origin
    <3>1. PICK a \in wire : Handle(a) \/ Refuse(a)
      BY <2>2 DEF Origin
    <3>2. IsFiniteSet(handled \cup {a})
      BY FS_AddElement
    <3>3. QED BY <3>1, <3>2 DEF Handle, Refuse
  <2>3. ASSUME wire' \subseteq wire, handled' = handled
        PROVE  HandledOnce'
    BY <2>3
  <2>4. CASE \E operation \in Operations : Begin(operation)
    BY <2>3, <2>4 DEF Begin
  <2>5. CASE Progress \/ Failure
    BY <2>1, <2>3, <2>5 DEF Progress, Failure, Receive, TransportError, Wake, RejectRequest
  <2>6. CASE UNCHANGED vars
    BY <2>3, <2>6 DEF vars
  <2>7. QED BY <2>2, <2>4, <2>5, <2>6 DEF Next
<1>3. QED BY <1>1, <1>2, Invariance, PTL DEF Spec

Idempotent == [c \in Calls |-> result[c] # "unused" /\ op[c].method \in IdempotentMethods]
Effects == [c \in Calls |-> Cardinality(HandledOf(c))]

LEMMA BeginRefines ==
  ASSUME IInv, NEW operation \in Operations, Begin(operation)
  PROVE  Contract!Next
<1> USE DEF Begin
<1>1. PICK c \in Calls : c = call + 1
  BY DEF IInv, TypeOK, Calls
<1>2. /\ result[c] = "unused"
      /\ op' = [op EXCEPT ![c] = operation] /\ result' = [result EXCEPT ![c] = "pending"]
  BY <1>1 DEF IInv, TypeOK, Started, Calls
<1>3. Effects' = Effects
  BY DEF Effects, HandledOf
<1>4. Idempotent' = [Idempotent EXCEPT ![c] = operation.method \in IdempotentMethods]
  <2>1. Idempotent'[c] = (operation.method \in IdempotentMethods)
    BY <1>2 DEF Idempotent, IInv, TypeOK
  <2>2. ASSUME NEW d \in Calls, d # c
        PROVE  Idempotent'[d] = Idempotent[d]
    <3>1. result'[d] = result[d] /\ op'[d] = op[d]
      BY <1>2, <2>2 DEF IInv, TypeOK
    <3>2. QED BY <3>1 DEF Idempotent
  <2>3. QED BY <2>1, <2>2, Zenon DEF Idempotent
<1>5. Contract!Start(c)
  BY <1>2, <1>3, <1>4 DEF Contract!Start, Effects, Idempotent
<1>6. QED BY <1>5 DEF Contract!Next

LEMMA ReturnRefines ==
  ASSUME IInv, HandledOnce, pc # "idle", NEW r \in {"ok", "error"}, Return(r),
         op' = op, handled' = handled, call' = call,
         r = "ok" /\ ~FollowRedirects => Current \in handled
  PROVE  Contract!Next
<1>1. call \in Calls /\ result[call] = "pending"
  BY DEF IInv, Phases
<1>2. Effects' = Effects
  BY DEF Effects, HandledOf
<1>3. Idempotent' = Idempotent
  BY <1>1 DEF Idempotent, Return, IInv, TypeOK
<1>4. r = "ok" => FollowRedirects \/ Effects[call] > 0
  <2> SUFFICES ASSUME r = "ok", ~FollowRedirects PROVE Effects[call] > 0
    OBVIOUS
  <2>1. IsFiniteSet(HandledOf(call)) /\ HandledOf(call) # {}
    BY FS_Subset DEF HandledOnce, HandledOf, Current
  <2>2. Cardinality(HandledOf(call)) \in Nat /\ Cardinality(HandledOf(call)) # 0
    BY <2>1, FS_CardinalityType, FS_EmptySet
  <2>3. QED BY <1>1, <2>2 DEF Effects
<1>5. Contract!Return(call, r)
  BY <1>1, <1>2, <1>3, <1>4 DEF Contract!Return, Effects, Idempotent, Return
<1>6. QED BY <1>1, <1>5 DEF Contract!Next

LEMMA HandleRefines ==
  ASSUME IInv, HandledOnce, NEW a \in wire, Handle(a)
  PROVE  Contract!Next
<1> USE DEF Handle
<1>1. a \in Attempts /\ a.call \in Calls /\ a.call <= call /\ result[a.call] # "unused"
  BY DEF IInv, TypeOK, Attempts, AttemptsInOrder, Started, Calls
<1>2. Idempotent' = Idempotent
  BY DEF Idempotent
<1>3. a \notin handled /\ handled' = handled \cup {a}
  BY DEF HandledOnce
<1>4. Effects' = [Effects EXCEPT ![a.call] = @ + 1]
  <2>1. ASSUME NEW c \in Calls, c # a.call
        PROVE  HandledOf(c)' = HandledOf(c)
    BY <2>1, <1>3 DEF HandledOf
  <2>2. HandledOf(a.call)' = HandledOf(a.call) \cup {a} /\ a \notin HandledOf(a.call)
    BY <1>3 DEF HandledOf
  <2>3. IsFiniteSet(HandledOf(a.call))
    BY FS_Subset DEF HandledOnce, HandledOf
  <2>4. Cardinality(HandledOf(a.call) \cup {a}) = Cardinality(HandledOf(a.call)) + 1
    BY <2>2, <2>3, FS_AddElement
  <2>5. QED BY <1>1, <2>1, <2>2, <2>4 DEF Effects
<1>5. Idempotent[a.call] \/ Effects[a.call] = 0
  <2> SUFFICES ASSUME op[a.call].method \notin IdempotentMethods
               PROVE  HandledOf(a.call) = {}
    BY <1>1, FS_EmptySet DEF Idempotent, Effects
  <2>1. ASSUME NEW b \in HandledOf(a.call) PROVE FALSE
    <3>1. b \in Attempts /\ b.call = a.call /\ b \in handled
      BY DEF HandledOf, IInv, TypeOK
    <3>2. a.attempt = 0 /\ b.attempt = 0
      BY <3>1 DEF IInv, AttemptsInOrder, AutomaticallyRetryable
    <3>3. a = b
      BY <1>1, <3>1, <3>2 DEF Attempts
    <3>4. QED BY <1>3, <3>1, <3>3
  <2>2. QED BY <2>1
<1>6. Contract!Effect(a.call)
  BY <1>1, <1>2, <1>4, <1>5 DEF Contract!Effect, Effects, Idempotent
<1>7. QED BY <1>1, <1>6 DEF Contract!Next

\* Steps of the loop that its caller does not see.
LEMMA StepHidden ==
  ASSUME result' = result, op' = op, handled' = handled
  PROVE  UNCHANGED Contract!vars
BY DEF Contract!vars, HandledOf

\* Whatever the wire does, the loop keeps the contract of RemoteCall: at most
\* one effect of a call that is not idempotent, and no success without one.
THEOREM Refinement == Spec => ImplementsRemoteCall
<1>1. Init => Contract!Init
  <2> SUFFICES ASSUME Init PROVE Contract!Init
    OBVIOUS
  <2>1. \A c \in Calls : HandledOf(c) = {}
    BY DEF Init, HandledOf
  <2>2. QED BY <2>1, FS_EmptySet DEF Init, Contract!Init
<1>2. IInv /\ HandledOnce /\ [Next]_vars => [Contract!Next]_Contract!vars
  <2> SUFFICES ASSUME IInv, HandledOnce, [Next]_vars
               PROVE  Contract!Next \/ UNCHANGED Contract!vars
    OBVIOUS
  <2>1. ASSUME NEW latency \in Latencies, Receive(latency)
        PROVE  Contract!Next \/ UNCHANGED Contract!vars
    <3>1. CASE Return(Verdict(op[call], answer))
      <4>1. Verdict(op[call], answer) \in {"ok", "error"}
        BY DEF Verdict
      <4>2. Verdict(op[call], answer) = "ok" /\ ~FollowRedirects => Current \in handled
        BY <2>1 DEF Verdict, IInv, AnswersEarned, Receive
      <4>3. QED BY <2>1, <3>1, <4>1, <4>2, ReturnRefines DEF Receive
    <3>2. CASE BackOff(RetryDelay(answer, attempt))
      BY <2>1, <3>2, StepHidden DEF Receive, BackOff
    <3>3. QED BY <2>1, <3>1, <3>2 DEF Receive
  <2>2. ASSUME NEW error \in TransportErrors, NEW latency \in Latencies,
               TransportError(error, latency)
        PROVE  Contract!Next \/ UNCHANGED Contract!vars
    BY <2>2, ReturnRefines, StepHidden DEF TransportError, BackOff
  <2>3. CASE Progress
    <3>1. "timeout" \in TransportErrors /\ RequestTimeout \in Latencies
      BY DEF TransportErrors, Latencies
    <3>2. QED BY <2>1, <2>2, <2>3, <3>1, StepHidden DEF Progress, Send, Wake
  <2>4. CASE Failure
    BY <2>2, <2>4, ReturnRefines DEF Failure, RejectRequest
  <2>5. CASE Origin
    BY <2>5, HandleRefines, StepHidden DEF Origin, Refuse
  <2>6. CASE \E operation \in Operations : Begin(operation)
    BY <2>6, BeginRefines
  <2>7. CASE UNCHANGED vars
    BY <2>7, StepHidden DEF vars
  <2>8. QED BY <2>3, <2>4, <2>5, <2>6, <2>7 DEF Next
<1>3. QED BY <1>1, <1>2, Invariance, HandledOnceInvariance, PTL
         DEF Spec, Contract!Spec, ImplementsRemoteCall
=============================================================================
