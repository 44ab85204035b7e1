---------------------------- MODULE HttpExecute -----------------------------
(***************************************************************************)
(* The retry loop of src/src/http.rs: `execute` sends a request, waits for *)
(* an answer or a transport error, and sends it again after a delay when   *)
(* the method is idempotent and the failure transient.                     *)
(*                                                                         *)
(* One PostgreSQL backend makes its calls one after the other.  The wire   *)
(* is a set of attempts the origin has yet to handle: the origin may act   *)
(* on an attempt long after the client gave up on it, and its answer may   *)
(* be lost.  Time is counted in ticks of 250 ms, the base of the backoff.  *)
(***************************************************************************)
EXTENDS Integers, Sequences, FiniteSets

CONSTANTS
  Operations,      \* the calls the session may make: method, and json for execute_json
  MaxRetries,      \* server option max_retries
  RequestTimeout,  \* server option request_timeout_ms, in ticks
  MaxRetryDelay,   \* server option max_retry_delay_ms, in ticks
  FollowRedirects, \* server option max_redirects is positive
  RetryAfter,      \* the delays an origin's Retry-After header may ask for, in ticks
  MaxCalls         \* bound: calls made by the session

Methods == {"GET", "HEAD", "PUT", "DELETE", "OPTIONS", "TRACE", "POST", "PATCH"}

\* ServerConfig::from_options bounds max_retries by 10; the origin's header may
\* ask for anything.
ASSUME OperationsAssumption == Operations \subseteq [method : Methods, json : BOOLEAN]
ASSUME MaxRetriesAssumption == MaxRetries \in 0..10
ASSUME DurationsAssumption ==
  RequestTimeout \in Nat /\ MaxRetryDelay \in Nat /\ RetryAfter \subseteq Nat
ASSUME FollowRedirectsAssumption == FollowRedirects \in BOOLEAN
ASSUME MaxCallsAssumption == MaxCalls \in Nat

Calls == 1..MaxCalls
Attempts == [call : Calls, attempt : 0..MaxRetries]

VARIABLES
  pc,        \* where the backend is: idle, send, wait, backoff
  call,      \* the current call, 0 before the first
  op,        \* for each call, its operation
  attempt,   \* loop variable of execute
  answer,    \* answer of the origin to the current attempt, or NoAnswer
  delay,     \* the sleep that precedes the next attempt
  elapsed,   \* time spent in the current call
  result,    \* for each call: unused, pending, ok or error
  wire,      \* attempts on their way to the origin
  handled,   \* history: attempts the origin carried out
  outcomes   \* history: for the current call, why each attempt ended

vars == <<pc, call, op, attempt, answer, delay, elapsed, result, wire, handled, outcomes>>

NoAnswer == [status |-> "none", body |-> "none", retryAfter |-> -1]

\* Status classes of `execute`: is_success, is_retryable_status, the others.
Statuses == {"success", "retryable", "refused"}

\* What consume_success and execute_json tell apart in a body: an empty one
\* (204), JSON, something else, one above max_response_bytes, a broken read.
Bodies == {"empty", "json", "other", "too_long", "broken"}

Answers == [status : {"success"}, body : Bodies, retryAfter : {-1}]
             \cup [status : {"retryable"}, body : {"none"}, retryAfter : RetryAfter \cup {-1}]
             \cup [status : {"refused"}, body : {"none"}, retryAfter : {-1}]

\* Seeded fault: the request carries no timeout.
FaultNoTimeout == {"connect", "request", "other"}

TransportErrors == {"timeout", "connect", "request", "other"}

-----------------------------------------------------------------------------
\* Decisions of the client.

IdempotentMethods == {"GET", "HEAD", "PUT", "DELETE", "OPTIONS", "TRACE"}

\* Seeded fault: POST counted among the retryable methods.
FaultRetryPost(method) == method \in IdempotentMethods \cup {"POST"}

AutomaticallyRetryable(method) == method \in IdempotentMethods

\* Seeded fault: one attempt too many.
FaultExtraAttempt == MaxRetries + 1

MaximumRetries == IF AutomaticallyRetryable(op[call].method) THEN MaxRetries ELSE 0

\* Seeded fault: every failure status is retried.
FaultRetryRefused(status) == status \in {"retryable", "refused"}

IsRetryableStatus(status) == status = "retryable"

IsRetryableError(error) == error \in {"timeout", "connect", "request"}

Least(a, b) == IF a <= b THEN a ELSE b

\* 2^attempt ticks of 250 ms; max_retries <= 10 keeps the shift under its cap of 16.
ExponentialDelay(a) ==
  Least(<<1, 2, 4, 8, 16, 32, 64, 128, 256, 512, 1024>>[a + 1], MaxRetryDelay)

\* Seeded fault: max_retry_delay not applied to Retry-After.
FaultUncappedRetryAfter(reply, a) ==
  IF reply.retryAfter >= 0 THEN reply.retryAfter ELSE ExponentialDelay(a)

RetryDelay(reply, a) ==
  Least(IF reply.retryAfter >= 0 THEN reply.retryAfter ELSE ExponentialDelay(a), MaxRetryDelay)

\* Seeded fault: a failure status that is not retried is taken for success.
FaultStatusIgnored(operation, reply) ==
  IF reply.body \in {"too_long", "broken"} \/ (operation.json /\ reply.body = "other")
  THEN "error" ELSE "ok"

\* The end of a call that is answered: an error status, or consume_success and
\* the checks execute_json adds for a caller that reads the body, which
\* execute_mutation drops.
Verdict(operation, reply) ==
  IF \/ reply.status # "success"
     \/ reply.body \in {"too_long", "broken"}
     \/ operation.json /\ reply.body = "other"
  THEN "error" ELSE "ok"

-----------------------------------------------------------------------------
\* The client.

Current == [call |-> call, attempt |-> attempt]

Retries(transient) == transient /\ attempt < MaximumRetries

Init ==
  /\ pc = "idle" /\ call = 0 /\ attempt = 0 /\ delay = 0 /\ elapsed = 0
  /\ op = [c \in Calls |-> [method |-> "GET", json |-> TRUE]]
  /\ answer = NoAnswer
  /\ result = [c \in Calls |-> "unused"]
  /\ wire = {} /\ handled = {} /\ outcomes = <<>>

\* Entry of execute: the maximum number of retries is fixed by the method.
Begin(operation) ==
  /\ pc = "idle" /\ call < MaxCalls
  /\ pc' = "send"
  /\ call' = call + 1
  /\ op' = [op EXCEPT ![call + 1] = operation]
  /\ result' = [result EXCEPT ![call + 1] = "pending"]
  /\ attempt' = 0 /\ elapsed' = 0 /\ outcomes' = <<>>
  /\ UNCHANGED <<answer, delay, wire, handled>>

\* The call ends: with the result of its last attempt.
Return(r) ==
  /\ pc' = "idle"
  /\ result' = [result EXCEPT ![call] = r]
  /\ UNCHANGED <<attempt, delay>>

\* `continue` after choosing the sleep.
BackOff(ticks) ==
  /\ pc' = "backoff"
  /\ delay' = ticks
  /\ UNCHANGED <<attempt, result>>

\* The method, a header or the credential cannot be sent: nothing is.
RejectRequest ==
  /\ pc = "send" /\ attempt = 0
  /\ Return("error")
  /\ UNCHANGED <<call, op, answer, elapsed, wire, handled, outcomes>>

Send ==
  /\ pc = "send"
  /\ pc' = "wait"
  /\ wire' = wire \cup {Current}
  /\ answer' = NoAnswer
  /\ UNCHANGED <<call, op, attempt, delay, elapsed, result, handled, outcomes>>

\* builder.send() returned a response, latency ticks after the request.
Receive(latency) ==
  /\ pc = "wait" /\ answer # NoAnswer
  /\ elapsed' = elapsed + latency
  /\ outcomes' = Append(outcomes, answer.status)
  /\ \/ /\ Retries(IsRetryableStatus(answer.status))
        /\ BackOff(RetryDelay(answer, attempt))
     \/ /\ ~Retries(IsRetryableStatus(answer.status))
        /\ Return(Verdict(op[call], answer))
  /\ UNCHANGED <<call, op, answer, wire, handled>>

\* builder.send() failed.  A connect error means the request never left; any
\* other one says nothing of what the origin did or will do.  An answer that
\* is already on its way back is lost.
TransportError(error, latency) ==
  /\ pc = "wait" /\ error \in TransportErrors
  /\ error = "connect" => Current \in wire
  /\ error = "timeout" => latency = RequestTimeout
  /\ wire' = IF error = "connect" THEN wire \ {Current} ELSE wire
  /\ elapsed' = elapsed + latency
  /\ outcomes' = Append(outcomes, error)
  /\ \/ /\ Retries(IsRetryableError(error))
        /\ BackOff(ExponentialDelay(attempt))
     \/ /\ ~Retries(IsRetryableError(error))
        /\ Return("error")
  /\ UNCHANGED <<call, op, answer, handled>>

\* thread::sleep, then the next iteration of the loop.
Wake ==
  /\ pc = "backoff"
  /\ pc' = "send"
  /\ elapsed' = elapsed + delay
  /\ attempt' = attempt + 1
  /\ UNCHANGED <<call, op, answer, delay, result, wire, handled, outcomes>>

-----------------------------------------------------------------------------
\* The origin (external): handles attempts in any order, at any time.

Reply(a, replies) ==
  IF pc = "wait" /\ a = Current THEN answer' \in replies ELSE answer' = answer

\* It carries the attempt out and reports success, or fails to report it (an
\* error of a gateway, or of a step that follows the effect).
Handle(a) ==
  /\ a \in wire
  /\ wire' = wire \ {a}
  /\ handled' = handled \cup {a}
  /\ Reply(a, {r \in Answers : r.status # "refused"})
  /\ UNCHANGED <<pc, call, op, attempt, delay, elapsed, result, outcomes>>

\* It refuses the attempt, or loses it (no answer at all).  When redirects
\* are followed, the answer may come from the redirect's target, which was
\* asked with GET instead (301, 302 or 303 to a POST).
Refuse(a) ==
  /\ a \in wire
  /\ wire' = wire \ {a}
  /\ Reply(a, {r \in Answers : r.status = "success" => FollowRedirects} \cup {NoAnswer})
  /\ UNCHANGED <<pc, call, op, attempt, delay, elapsed, result, handled, outcomes>>

Latencies == 0..RequestTimeout

\* What the client's own thread is bound to do; a broken connection is not.
Progress ==
  \/ Send
  \/ \E latency \in Latencies : Receive(latency)
  \/ TransportError("timeout", RequestTimeout)
  \/ Wake

Failure ==
  \/ RejectRequest
  \/ \E error \in TransportErrors, latency \in Latencies : TransportError(error, latency)

Origin == \E a \in wire : Handle(a) \/ Refuse(a)

Next ==
  \/ \E operation \in Operations : Begin(operation)
  \/ Progress
  \/ Failure
  \/ Origin

\* The client's thread runs; the origin owes nothing, the request timeout
\* ends every wait.
Spec == Init /\ [][Next]_vars /\ WF_vars(Progress)

-----------------------------------------------------------------------------
\* Properties.

Results == {"unused", "pending", "ok", "error"}

TypeOK ==
  /\ pc \in {"idle", "send", "wait", "backoff"}
  /\ call \in 0..MaxCalls
  /\ op \in [Calls -> [method : Methods, json : BOOLEAN]]
  /\ attempt \in 0..MaxRetries
  /\ answer \in Answers \cup {NoAnswer}
  /\ delay \in Nat
  /\ elapsed \in Nat
  /\ result \in [Calls -> Results]
  /\ wire \subseteq Attempts
  /\ handled \subseteq Attempts
  /\ outcomes \in Seq(Statuses \cup TransportErrors)

HandledOf(c) == {a \in handled : a.call = c}

\* A mutation sent with POST or PATCH is carried out at most once, whatever the
\* client reported and however late the origin acted on it ("Retrying POST or
\* PATCH after losing the response can apply the same mutation twice").
AtMostOnce ==
  \A c \in Calls :
    op[c].method \in {"POST", "PATCH"} =>
      \A a, b \in HandledOf(c) : a = b

\* A call never holds the backend longer than its bounded number of attempts
\* and of sleeps allows, even if the origin asks for longer with Retry-After.
ElapsedBounded ==
  elapsed <= (attempt + 1) * RequestTimeout + attempt * MaxRetryDelay

\* A call that reports success was carried out by the origin, unless redirects
\* are followed: then the target's answer to a GET also counts as success.
OkMeansHandled ==
  \A c \in Calls : result[c] = "ok" /\ ~FollowRedirects => HandledOf(c) # {}

\* The ways an attempt ends that another attempt may mend.
Transient == {"retryable", "timeout", "connect", "request"}

\* A call goes on after an attempt exactly when another one may mend it: a permanent refusal
\* or an accepted answer is never followed by a retry, and a call of an idempotent method
\* that gives up on a transient failure has made all its attempts.
RetriesWhileTransient ==
  /\ \A i \in DOMAIN outcomes : i < Len(outcomes) \/ pc # "idle" => outcomes[i] \in Transient
  /\ (/\ pc = "idle" /\ outcomes # <<>>
      /\ outcomes[Len(outcomes)] \in Transient /\ op[call].method \in IdempotentMethods)
       => Len(outcomes) = MaxRetries + 1

\* Every call returns, even to an origin that never answers.
EveryCallReturns ==
  \A c \in Calls : result[c] = "pending" ~> result[c] \in {"ok", "error"}

\* The loop implements the contract its callers rely on.
Contract ==
  INSTANCE RemoteCall WITH
    Calls <- Calls,
    MayRedirect <- FollowRedirects,
    idempotent <- [c \in Calls |-> result[c] # "unused" /\ op[c].method \in IdempotentMethods],
    effects <- [c \in Calls |-> Cardinality(HandledOf(c))],
    result <- result

ImplementsRemoteCall == Contract!Spec
=============================================================================
