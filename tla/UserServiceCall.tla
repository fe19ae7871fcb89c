-------------------------- MODULE UserServiceCall --------------------------
(***************************************************************************)
(* A call of the user service by ApiWrapperService, with the timeout, the  *)
(* retries and the growing delays of genericRetryStrategy, up to the name  *)
(* of the error the client of the wallet is given.                         *)
(*                                                                         *)
(* The clock counts seconds from the call; a timer of the event loop fires *)
(* in the second in which it is due.  Every attempt is a request of its    *)
(* own; the service goes on with a request that nobody waits for any more. *)
(***************************************************************************)
EXTENDS Integers, FiniteSets

CONSTANTS
  MaxRetryAttempts,     \* 3
  TimeoutDuration,      \* 30 seconds
  MaxDelay,             \* 60 seconds
  Statuses,             \* HTTP statuses of the service's errors
  ExcludedStatusCodes   \* those that are final: 400, 401, 404

ASSUME CallAssumption ==
  /\ MaxRetryAttempts \in Nat
  /\ TimeoutDuration \in Nat \ {0}
  /\ MaxDelay \in Nat \ {0}
  /\ ExcludedStatusCodes \subseteq Statuses

VARIABLES
  phase,     \* what the subscription waits for
  retries,   \* soFar of the retry operator
  clock,
  due,       \* when the timeout or the delay ends
  request,   \* of each attempt: what the service does with it
  cause,     \* how the last attempt failed, if it did
  outcome    \* what lastValueFrom resolves or rejects with

vars == <<phase, retries, clock, due, request, cause, outcome>>

Attempts == 0 .. MaxRetryAttempts

\* Failures of an attempt: an error status, an axios error without a response,
\* and the TimeoutError of the timeout operator.
Response(s)   == [kind |-> "response", status |-> s]
NoResponse    == [kind |-> "noResponse", status |-> 0]
TimedOut      == [kind |-> "timeout", status |-> 0]
Failures      == {Response(s) : s \in Statuses} \cup {NoResponse, TimedOut}

None      == [kind |-> "none", status |-> 0]
Data      == [kind |-> "data", status |-> 0]
TypeError == [kind |-> "typeError", status |-> 0]

Init ==
  /\ phase = "requesting"
  /\ retries = 0
  /\ clock = 0
  /\ due = TimeoutDuration
  /\ request = [i \in Attempts |-> IF i = 0 THEN "working" ELSE "unsent"]
  /\ cause = None
  /\ outcome = None

-----------------------------------------------------------------------------
Power[n \in Nat] == IF n = 0 THEN 1 ELSE 2 * Power[n - 1]

\* Variant: Math.max
DelayAtLeast(n) == IF Power[n] < MaxDelay THEN MaxDelay ELSE Power[n]

\* Math.min(60000, 1000 * 2 ** retryCount)
Delay(n) == IF Power[n] < MaxDelay THEN Power[n] ELSE MaxDelay

End(result) ==
  /\ phase' = "done"
  /\ outcome' = result
  /\ UNCHANGED <<clock, due>>

Backoff ==
  /\ phase' = "delay"
  /\ due' = clock + Delay(retries')
  /\ UNCHANGED <<clock, outcome>>

\* Variant: err?.response?.status
RetryAlsoWithoutResponse(e) ==
  IF retries < MaxRetryAttempts
  THEN /\ retries' = retries + 1
       /\ \/ e.status \in ExcludedStatusCodes /\ End(e)
          \/ e.status \notin ExcludedStatusCodes /\ Backoff
  ELSE End(e) /\ UNCHANGED retries

\* Variant: a retry too many.
RetryOnceMore(e) ==
  IF retries <= MaxRetryAttempts
  THEN /\ retries' = retries + 1
       /\ \/ e.kind # "response" /\ End(TypeError)
          \/ e.kind = "response" /\ e.status \in ExcludedStatusCodes /\ End(e)
          \/ e.kind = "response" /\ e.status \notin ExcludedStatusCodes /\ Backoff
  ELSE End(e) /\ UNCHANGED retries

\* Variant: the attempts are not counted.
RetryUncounted(e) ==
  /\ UNCHANGED retries
  /\ \/ e.kind # "response" /\ End(TypeError)
     \/ e.kind = "response" /\ e.status \in ExcludedStatusCodes /\ End(e)
     \/ e.kind = "response" /\ e.status \notin ExcludedStatusCodes /\ Backoff

\* The retry operator: a failure beyond the last retry is passed on.  Before
\* that the delay function decides; err.response.status throws when the
\* failure has no response, and what it throws is passed on instead.
HandleFailure(e) ==
  IF retries < MaxRetryAttempts
  THEN /\ retries' = retries + 1
       /\ \/ e.kind # "response" /\ End(TypeError)
          \/ e.kind = "response" /\ e.status \in ExcludedStatusCodes /\ End(e)
          \/ e.kind = "response" /\ e.status \notin ExcludedStatusCodes /\ Backoff
  ELSE End(e) /\ UNCHANGED retries

Succeed ==
  /\ phase = "requesting"
  /\ request' = [request EXCEPT ![retries] = "over"]
  /\ cause' = None
  /\ End(Data)
  /\ UNCHANGED retries

\* The service answers with an error.
Refuse(s) ==
  /\ phase = "requesting"
  /\ request' = [request EXCEPT ![retries] = "over"]
  /\ cause' = Response(s)
  /\ HandleFailure(Response(s))

\* The connection is refused, or it is lost and the service may not know.
Disconnect ==
  /\ phase = "requesting"
  /\ \/ request' = [request EXCEPT ![retries] = "over"]
     \/ UNCHANGED request
  /\ cause' = NoResponse
  /\ HandleFailure(NoResponse)

\* Variant: no timeout.
NoTimeout == FALSE /\ UNCHANGED vars

\* The request is abandoned, not stopped.
Timeout ==
  /\ phase = "requesting"
  /\ clock = due
  /\ cause' = TimedOut
  /\ HandleFailure(TimedOut)
  /\ UNCHANGED request

\* The delay is over: the source is subscribed to again.
Retry ==
  /\ phase = "delay"
  /\ clock = due
  /\ phase' = "requesting"
  /\ due' = clock + TimeoutDuration
  /\ request' = [request EXCEPT ![retries] = "working"]
  /\ UNCHANGED <<retries, clock, cause, outcome>>

\* The service ends a request that was given up: nothing listens.
LateAnswer(i) ==
  /\ request[i] = "working"
  /\ phase # "requesting" \/ i # retries
  /\ request' = [request EXCEPT ![i] = "over"]
  /\ UNCHANGED <<phase, retries, clock, due, cause, outcome>>

Tick ==
  /\ phase # "done"
  /\ clock < due
  /\ clock' = clock + 1
  /\ UNCHANGED <<phase, retries, due, request, cause, outcome>>

Terminating ==
  /\ phase = "done"
  /\ \A i \in Attempts : request[i] # "working"
  /\ UNCHANGED vars

Next ==
  \/ Succeed
  \/ \E s \in Statuses : Refuse(s)
  \/ Disconnect
  \/ Timeout
  \/ Retry
  \/ \E i \in Attempts : LateAnswer(i)
  \/ Tick
  \/ Terminating

Spec == Init /\ [][Next]_vars

\* Time passes and timers fire; the service need not answer.
FairSpec == Spec /\ WF_vars(Tick) /\ WF_vars(Timeout) /\ WF_vars(Retry)

-----------------------------------------------------------------------------
(***************************************************************************)
(* What the client of the wallet is told (GlobalExceptionFilter).          *)
(***************************************************************************)
IsAxiosError(result) == result.kind \in {"response", "noResponse"}

ErrorName ==
  CASE outcome.kind \in {"none", "data"} -> "SUCCESS"
    [] IsAxiosError(outcome) -> "INTERSERVICE_ERROR"
    [] OTHER -> "UNEXPECTED_ERROR"

-----------------------------------------------------------------------------
(***************************************************************************)
(* Properties.                                                             *)
(***************************************************************************)
\* Every variable has its type; a request has been made for each retry, and
\* for no attempt beyond.
TypeOK ==
  /\ phase \in {"requesting", "delay", "done"}
  /\ retries \in Attempts
  /\ clock \in Nat
  /\ due \in Nat
  /\ request \in [Attempts -> {"unsent", "working", "over"}]
  /\ cause \in Failures \cup {None}
  /\ outcome \in Failures \cup {None, Data, TypeError}
  /\ \A i \in Attempts : i > retries => request[i] = "unsent"

\* The retries of a call never make the service work on two of its requests:
\* an attempt is repeated only after the service has answered it.
OneRequestAtATime ==
  \A i, j \in Attempts :
    request[i] = "working" /\ request[j] = "working" => i = j

\* The client of the wallet waits no longer than for every attempt to run into
\* its timeout, with the delays 2, 4, 8 ... between them.
WaitIsBounded ==
  clock <= (MaxRetryAttempts + 1) * TimeoutDuration + Power[MaxRetryAttempts + 1] - 2

\* Every call ends, whether the service answers or not.
CallEnds == <>(phase = "done")

\* A request that failed at the user service, with a response or without one,
\* is reported as an error calling another service.
FailedRequestIsNamed ==
  phase = "done" /\ IsAxiosError(cause) => ErrorName = "INTERSERVICE_ERROR"
=============================================================================
