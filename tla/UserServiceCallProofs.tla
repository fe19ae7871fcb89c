----------------------- MODULE UserServiceCallProofs -----------------------
(***************************************************************************)
(* The retries of UserServiceCall, for any number of them, any timeout and *)
(* any statuses.                                                           *)
(***************************************************************************)
EXTENDS UserServiceCall, SumTheorems

\* While an attempt is awaited it is the only one the service works on; while
\* a delay runs there is none.
OnlyTheAwaited ==
  /\ phase = "requesting" => \A i \in Attempts : request[i] = "working" => i = retries
  /\ phase = "delay" => \A i \in Attempts : request[i] # "working"

\* The latest second in which attempt n may end, and its delay.
LastEnd(n)   == (n + 1) * TimeoutDuration + Power[n + 1] - 2
LastDelay(n) == n * TimeoutDuration + Power[n + 1] - 2

\* The timers are set within those bounds.
OnTime ==
  /\ clock <= due
  /\ phase = "requesting" => due <= LastEnd(retries)
  /\ phase = "delay" => due <= LastDelay(retries)
  /\ phase = "done" => clock <= LastEnd(retries)

\* The inductive invariant.
RetryInv == TypeOK /\ OneRequestAtATime /\ OnlyTheAwaited /\ OnTime

-----------------------------------------------------------------------------
(***************************************************************************)
(* The powers of 2.                                                        *)
(***************************************************************************)
\* f holds the powers of 2 up to n.
PowersUpTo(f, n) ==
  /\ f \in [0 .. n -> Nat]
  /\ f[0] = 1
  /\ \A i \in 0 .. n : i # n => f[i + 1] = 2 * f[i]

\* For every n there is such a function.
LEMMA PowersExist ==
  ASSUME NEW n \in Nat
  PROVE  \E f : PowersUpTo(f, n)
<1> DEFINE P == {m \in Nat : \E f : PowersUpTo(f, m)}
<1>1. 0 \in P
  <2>1. PowersUpTo([i \in 0 .. 0 |-> 1], 0)
    BY DEF PowersUpTo
  <2> QED BY <2>1
<1>2. ASSUME NEW m \in Nat, m \in P PROVE m + 1 \in P
  <2>1. PICK f : PowersUpTo(f, m)
    BY <1>2
  <2> DEFINE g == [i \in 0 .. m + 1 |-> IF i = m + 1 THEN 2 * f[m] ELSE f[i]]
  <2>2. g \in [0 .. m + 1 -> Nat]
    BY <2>1 DEF PowersUpTo
  <2>3. g[0] = 1
    BY <2>1 DEF PowersUpTo
  <2>4. ASSUME NEW i \in 0 .. m + 1, i # m + 1 PROVE g[i + 1] = 2 * g[i]
    BY <2>1, <2>4 DEF PowersUpTo
  <2>5. PowersUpTo(g, m + 1)
    BY <2>2, <2>3, <2>4 DEF PowersUpTo
  <2> QED BY <2>5
<1> HIDE DEF P
<1>3. Nat \subseteq P
  BY <1>1, <1>2, NatSetInduction
<1> QED BY <1>3 DEF P

\* Such functions agree where both are defined.
LEMMA PowersAgree ==
  ASSUME NEW m \in Nat, NEW n \in Nat, NEW f, NEW g,
         PowersUpTo(f, m), PowersUpTo(g, n)
  PROVE  \A k \in Nat : k <= m /\ k <= n => f[k] = g[k]
<1> DEFINE P == {k \in Nat : k <= m /\ k <= n => f[k] = g[k]}
<1>1. 0 \in P
  BY DEF PowersUpTo
<1>2. ASSUME NEW k \in Nat, k \in P PROVE k + 1 \in P
  BY <1>2 DEF PowersUpTo
<1> HIDE DEF P
<1>3. Nat \subseteq P
  BY <1>1, <1>2, NatSetInduction
<1> QED BY <1>3 DEF P

\* So the recursive definition of Power defines a function.
LEMMA PowerUnfolds ==
  Power = [n \in Nat |-> IF n = 0 THEN 1 ELSE 2 * Power[n - 1]]
<1> DEFINE F(n) == CHOOSE f : PowersUpTo(f, n)
           p == [n \in Nat |-> F(n)[n]]
<1>1. \A n \in Nat : PowersUpTo(F(n), n)
  BY PowersExist
<1> HIDE DEF F
<1>2. ASSUME NEW n \in Nat PROVE p[n] = IF n = 0 THEN 1 ELSE 2 * p[n - 1]
  <2>1. CASE n = 0
    BY <1>1, <2>1 DEF PowersUpTo
  <2>2. CASE n # 0
    <3>1. n - 1 \in Nat /\ n - 1 \in 0 .. n /\ n - 1 # n /\ (n - 1) + 1 = n
      BY <2>2
    <3>2. PowersUpTo(F(n), n) /\ PowersUpTo(F(n - 1), n - 1)
      BY <1>1, <3>1
    <3>3. F(n)[n] = 2 * F(n)[n - 1]
      BY <3>1, <3>2 DEF PowersUpTo
    <3>4. F(n)[n - 1] = F(n - 1)[n - 1]
      BY <3>1, <3>2, PowersAgree
    <3> QED BY <2>2, <3>1, <3>3, <3>4
  <2> QED BY <2>1, <2>2
<1>3. p = [n \in Nat |-> IF n = 0 THEN 1 ELSE 2 * p[n - 1]]
  BY <1>2
<1> HIDE DEF p
<1> QED BY <1>3 DEF Power

\* The powers of 2 are naturals that double at each step.
LEMMA PowerDoubles ==
  ASSUME NEW n \in Nat
  PROVE  Power[n] \in Nat /\ Power[0] = 1 /\ Power[n + 1] = 2 * Power[n]
<1> DEFINE P == {m \in Nat : Power[m] \in Nat}
<1>1. Power[0] = 1
  BY PowerUnfolds
<1>2. ASSUME NEW m \in Nat PROVE Power[m + 1] = 2 * Power[m]
  <2>1. m + 1 \in Nat /\ m + 1 # 0 /\ (m + 1) - 1 = m
    OBVIOUS
  <2> QED BY <2>1, PowerUnfolds
<1>3. \A m \in Nat : m \in P => m + 1 \in P
  BY <1>2
<1>4. 0 \in P
  BY <1>1
<1> HIDE DEF P
<1>5. Nat \subseteq P
  BY <1>3, <1>4, NatSetInduction
<1> QED BY <1>1, <1>2, <1>5 DEF P

\* They do not decrease.
LEMMA PowerGrows ==
  ASSUME NEW m \in Nat, NEW n \in Nat, m <= n
  PROVE  Power[m] <= Power[n]
<1> DEFINE P == {k \in Nat : m <= k => Power[m] <= Power[k]}
<1>1. 0 \in P
  BY PowerDoubles
<1>2. ASSUME NEW k \in Nat, k \in P PROVE k + 1 \in P
  <2>1. Power[k] \in Nat /\ Power[k + 1] = 2 * Power[k] /\ Power[m] \in Nat
    BY PowerDoubles
  <2>2. CASE m = k + 1
    BY <2>1, <2>2
  <2>3. CASE m # k + 1
    BY <1>2, <2>1, <2>3
  <2> QED BY <2>2, <2>3
<1> HIDE DEF P
<1>3. Nat \subseteq P
  BY <1>1, <1>2, NatSetInduction
<1> QED BY <1>3 DEF P

-----------------------------------------------------------------------------
(***************************************************************************)
(* The steps of the call.                                                  *)
(***************************************************************************)
\* More attempts take more time.
LEMMA TimesGrows ==
  ASSUME NEW m \in Nat, NEW n \in Nat, NEW t \in Nat, m <= n
  PROVE  (m + 1) * t <= (n + 1) * t
<1>1. n - m \in Nat
  OBVIOUS
<1>2. (n - m) * t \in Nat
  BY <1>1
<1>3. (n + 1) * t = (m + 1) * t + (n - m) * t
  OBVIOUS
<1> QED BY <1>2, <1>3

\* What the delay function decides, in terms of the clock.
LEMMA FailureHandled ==
  ASSUME TypeOK, NEW e \in Failures, HandleFailure(e)
  PROVE  /\ retries' \in Attempts /\ retries <= retries' /\ clock' = clock /\ due' \in Nat
         /\ \/ phase' = "done" /\ due' = due /\ outcome' \in Failures \cup {TypeError}
            \/ /\ phase' = "delay" /\ e.kind = "response" /\ outcome' = outcome
               /\ retries' = retries + 1 /\ due' <= clock + Power[retries']
               /\ clock <= due'
<1>1. retries \in Nat /\ clock \in Nat /\ due \in Nat /\ MaxRetryAttempts \in Nat /\ MaxDelay \in Nat
  BY CallAssumption DEF TypeOK, Attempts
<1>2. CASE retries < MaxRetryAttempts
  <2>1. retries' = retries + 1
    BY <1>2 DEF HandleFailure
  <2>2. retries' \in Attempts /\ retries <= retries'
    BY <1>1, <1>2, <2>1 DEF Attempts
  <2>3. End(TypeError) \/ End(e) \/ (e.kind = "response" /\ Backoff)
    BY <1>2 DEF HandleFailure
  <2>4. Power[retries'] \in Nat
    BY <1>1, <2>1, PowerDoubles
  <2>5. Delay(retries') \in Nat /\ Delay(retries') <= Power[retries']
    BY <1>1, <2>4 DEF Delay
  <2>6. CASE End(TypeError) \/ End(e)
    BY <1>1, <2>2, <2>6 DEF End
  <2>7. CASE e.kind = "response" /\ Backoff
    BY <1>1, <2>1, <2>2, <2>4, <2>5, <2>7 DEF Backoff
  <2> QED BY <2>3, <2>6, <2>7
<1>3. CASE ~ (retries < MaxRetryAttempts)
  BY <1>1, <1>3 DEF HandleFailure, End, TypeOK
<1> QED BY <1>2, <1>3

\* An attempt that fails keeps the invariant: the service has answered it if
\* it is to be repeated.
LEMMA FailureKeepsInv ==
  ASSUME RetryInv, NEW e \in Failures, HandleFailure(e), phase = "requesting", cause' = e,
         \/ request' = [request EXCEPT ![retries] = "over"]
         \/ e.kind # "response" /\ UNCHANGED request
  PROVE  RetryInv'
<1> USE DEF RetryInv
<1>1. /\ retries' \in Attempts /\ retries <= retries' /\ clock' = clock /\ due' \in Nat
      /\ \/ phase' = "done" /\ due' = due /\ outcome' \in Failures \cup {TypeError}
         \/ /\ phase' = "delay" /\ e.kind = "response" /\ outcome' = outcome
            /\ retries' = retries + 1 /\ due' <= clock + Power[retries']
            /\ clock <= due'
  BY FailureHandled
<1>2. retries \in Nat /\ clock \in Nat /\ due \in Nat /\ TimeoutDuration \in Nat
  BY CallAssumption DEF TypeOK, Attempts
<1>8. retries' \in Nat /\ retries <= retries'
  BY <1>1, CallAssumption DEF Attempts
<1>3. \A i \in Attempts : request'[i] = "working" => request[i] = "working"
  BY DEF TypeOK
<1>4. TypeOK'
  <2>1. request' \in [Attempts -> {"unsent", "working", "over"}]
    BY DEF TypeOK
  <2>2. ASSUME NEW i \in Attempts, i > retries' PROVE request'[i] = "unsent"
    <3>1. retries' \in Nat /\ i \in Nat
      BY <1>1, CallAssumption DEF Attempts
    <3>2. i > retries /\ i # retries
      BY <1>1, <1>2, <2>2, <3>1
    <3>3. request[i] = "unsent"
      BY <3>2 DEF TypeOK
    <3> QED BY <3>2, <3>3 DEF TypeOK
  <2> QED BY <1>1, <2>1, <2>2 DEF TypeOK
<1>5. OneRequestAtATime'
  BY <1>3 DEF OneRequestAtATime
<1>6. OnlyTheAwaited'
  <2>1. phase' = "delay" => \A i \in Attempts : request'[i] # "working"
    BY <1>1 DEF OnlyTheAwaited, TypeOK
  <2> QED BY <1>1, <2>1 DEF OnlyTheAwaited
<1>7. OnTime'
  <2>1. clock <= due /\ due <= LastEnd(retries)
    BY DEF OnTime
  <2>2. CASE phase' = "delay"
    <3>1. Power[retries + 1] \in Nat /\ Power[retries + 2] = 2 * Power[retries + 1]
      BY <1>2, PowerDoubles
    <3>2. LastDelay(retries') = LastEnd(retries) + Power[retries + 1]
      BY <1>1, <1>2, <2>2, <3>1 DEF LastDelay, LastEnd
    <3>3. due' <= LastDelay(retries')
      <4>1. LastEnd(retries) \in Int
        BY <1>2, <3>1 DEF LastEnd
      <4>2. retries' = retries + 1 /\ due' <= clock + Power[retries + 1]
        BY <1>1, <2>2
      <4> QED BY <1>1, <1>2, <2>1, <3>1, <3>2, <4>1, <4>2
    <3> QED BY <1>1, <2>2, <3>3 DEF OnTime
  <2>3. CASE phase' = "done"
    <3>1. Power[retries + 1] \in Nat /\ Power[retries' + 1] \in Nat
      BY <1>1, <1>2, PowerDoubles DEF Attempts
    <3>2. Power[retries + 1] <= Power[retries' + 1]
      BY <1>1, <1>2, PowerGrows DEF Attempts
    <3>3. (retries + 1) * TimeoutDuration <= (retries' + 1) * TimeoutDuration
      BY <1>2, <1>8, TimesGrows
    <3>4. clock' <= LastEnd(retries')
      <4>1. /\ (retries + 1) * TimeoutDuration \in Int
            /\ (retries' + 1) * TimeoutDuration \in Int
        BY <1>1, <1>2 DEF Attempts
      <4> QED BY <1>1, <1>2, <2>1, <3>1, <3>2, <3>3, <4>1 DEF LastEnd
    <3> QED BY <1>1, <2>1, <2>3, <3>4 DEF OnTime
  <2> QED BY <1>1, <2>2, <2>3
<1> QED BY <1>4, <1>5, <1>6, <1>7

\* The call begins with one request and its timeout.
LEMMA RetryInit == Init => RetryInv
<1> SUFFICES ASSUME Init PROVE RetryInv
  OBVIOUS
<1>1. MaxRetryAttempts \in Nat /\ TimeoutDuration \in Nat /\ 0 \in Attempts
  BY CallAssumption DEF Attempts
<1>2. TypeOK
  BY <1>1 DEF Init, TypeOK, Attempts
<1>3. OneRequestAtATime /\ OnlyTheAwaited
  BY <1>1 DEF Init, OneRequestAtATime, OnlyTheAwaited
<1>4. Power[1] = 2
  BY PowerDoubles
<1>5. LastEnd(0) = TimeoutDuration
  BY <1>1, <1>4 DEF LastEnd
<1>6. OnTime
  BY <1>1, <1>5 DEF Init, OnTime
<1> QED BY <1>2, <1>3, <1>6 DEF RetryInv

\* Every step keeps the invariant.
LEMMA RetryNext == RetryInv /\ [Next]_vars => RetryInv'
<1> SUFFICES ASSUME RetryInv, [Next]_vars PROVE RetryInv'
  OBVIOUS
<1> USE DEF RetryInv
<1>1. retries \in Nat /\ clock \in Nat /\ due \in Nat /\ TimeoutDuration \in Nat
  BY CallAssumption DEF TypeOK, Attempts
<1>2. CASE Succeed
  <2>1. TypeOK'
    BY <1>1, <1>2 DEF Succeed, End, TypeOK
  <2>2. OneRequestAtATime' /\ OnlyTheAwaited'
    BY <1>2 DEF Succeed, End, TypeOK, OneRequestAtATime, OnlyTheAwaited
  <2>3. LastEnd(retries) \in Int
    BY <1>1, PowerDoubles DEF LastEnd
  <2>4. clock <= LastEnd(retries)
    BY <1>1, <1>2, <2>3 DEF Succeed, OnTime
  <2>5. OnTime'
    BY <1>1, <1>2, <2>4 DEF Succeed, End, OnTime, LastEnd
  <2> QED BY <2>1, <2>2, <2>5
<1>3. ASSUME NEW s \in Statuses, Refuse(s) PROVE RetryInv'
  BY <1>3, FailureKeepsInv DEF Refuse, Failures
<1>4. CASE Disconnect
  BY <1>4, FailureKeepsInv DEF Disconnect, Failures, NoResponse
<1>5. CASE Timeout
  BY <1>5, FailureKeepsInv DEF Timeout, Failures, TimedOut
<1>6. CASE Retry
  <2>1. TypeOK'
    BY <1>1, <1>6 DEF Retry, TypeOK, Attempts
  <2>2. OneRequestAtATime' /\ OnlyTheAwaited'
    BY <1>6 DEF Retry, TypeOK, OneRequestAtATime, OnlyTheAwaited
  <2>3. LastEnd(retries) = LastDelay(retries) + TimeoutDuration /\ LastDelay(retries) \in Int
    BY <1>1, PowerDoubles DEF LastEnd, LastDelay
  <2>4. due' <= LastEnd(retries)
    BY <1>1, <1>6, <2>3 DEF Retry, OnTime
  <2>5. OnTime'
    BY <1>1, <1>6, <2>4 DEF Retry, OnTime, LastEnd
  <2> QED BY <2>1, <2>2, <2>5
<1>7. ASSUME NEW i \in Attempts, LateAnswer(i) PROVE RetryInv'
  BY <1>1, <1>7 DEF LateAnswer, TypeOK, OneRequestAtATime, OnlyTheAwaited, OnTime,
                    LastEnd, LastDelay, Attempts
<1>8. CASE Tick
  BY <1>1, <1>8 DEF Tick, TypeOK, OneRequestAtATime, OnlyTheAwaited, OnTime, LastEnd, LastDelay
<1>9. CASE UNCHANGED vars
  BY <1>9 DEF vars, TypeOK, OneRequestAtATime, OnlyTheAwaited, OnTime, LastEnd, LastDelay
<1> QED BY <1>2, <1>3, <1>4, <1>5, <1>6, <1>7, <1>8, <1>9 DEF Next, Terminating

\* The invariant holds of every reachable state.
THEOREM RetryInvariant == Spec => []RetryInv
BY RetryInit, RetryNext, PTL DEF Spec

\* The service never works on two requests of one call, whatever times out and
\* whatever connection is lost (genericRetryStrategy).
THEOREM RetriesNeverOverlap == Spec => []OneRequestAtATime
<1>1. RetryInv => OneRequestAtATime
  BY DEF RetryInv
<1> QED BY <1>1, RetryInvariant, PTL

\* The caller waits no longer than for every attempt to time out, with the
\* doubling delays between them (genericRetryStrategy).
THEOREM TheWaitIsBounded == Spec => []WaitIsBounded
<1>1. RetryInv => WaitIsBounded
  <2> SUFFICES ASSUME RetryInv PROVE WaitIsBounded
    OBVIOUS
  <2>1. /\ retries \in Nat /\ clock \in Nat /\ due \in Nat /\ TimeoutDuration \in Nat
        /\ MaxRetryAttempts \in Nat /\ retries <= MaxRetryAttempts
    BY CallAssumption DEF RetryInv, TypeOK, Attempts
  <2>2. LastDelay(retries) <= LastEnd(retries)
    BY <2>1, PowerDoubles DEF LastDelay, LastEnd
  <2>3. LastDelay(retries) \in Int /\ LastEnd(retries) \in Int
    BY <2>1, PowerDoubles DEF LastDelay, LastEnd
  <2>4. clock <= LastEnd(retries)
    BY <2>1, <2>2, <2>3 DEF RetryInv, OnTime, TypeOK
  <2>5. Power[retries + 1] <= Power[MaxRetryAttempts + 1]
    BY <2>1, PowerGrows
  <2>6. (retries + 1) * TimeoutDuration <= (MaxRetryAttempts + 1) * TimeoutDuration
    BY <2>1, TimesGrows
  <2>7. /\ (retries + 1) * TimeoutDuration \in Int
        /\ (MaxRetryAttempts + 1) * TimeoutDuration \in Int
        /\ Power[retries + 1] \in Int /\ Power[MaxRetryAttempts + 1] \in Int
    BY <2>1, PowerDoubles
  <2> QED BY <2>1, <2>4, <2>5, <2>6, <2>7 DEF LastEnd, WaitIsBounded
<1> QED BY <1>1, RetryInvariant, PTL

\* Every variable has its type, and no attempt is sent before its turn.
THEOREM CallIsTyped == Spec => []TypeOK
<1>1. RetryInv => TypeOK
  BY DEF RetryInv
<1> QED BY <1>1, RetryInvariant, PTL
=============================================================================
