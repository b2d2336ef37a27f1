---------------------------- MODULE SenderProofs ----------------------------
(***************************************************************************)
(* Send honours its contract for every configuration, every set of faults  *)
(* and every set of statuses.                                              *)
(***************************************************************************)
EXTENDS Sender, TLAPS, WellFoundedInduction

\* The copies without a success have a reason: a lost answer, a redirection, or
\* the end of the context, after which nothing is sent.
Excused ==
    \/ "lostAck" \in faults
    \/ "redirect" \in faults
    \/ "cancel" \in faults /\ ~live /\ copies = 1

\* What is true on the way to the contract: copies without a success are
\* excused, and the loop counter never passes its bound.
OnTheWay ==
    /\ pc # "returned" /\ copies > 0 => Excused
    /\ pc # "returned" /\ ~cfg.token => copies = 0
    /\ pc = "sleeping" => cfg.token /\ attempt < cfg.maxRetries
    /\ attempt <= cfg.maxRetries
    /\ requests <= attempt + (IF pc = "request" THEN 0 ELSE 1)
                     + (IF cfg.compression /\ encoding = "plain" THEN 1 ELSE 0)
    /\ encoding = "gzip" => cfg.compression

IInv == TypeOK /\ OnTheWay /\ HonoursContract

LEMMA InitInv == Init => IInv
<1> SUFFICES ASSUME Init PROVE IInv
  OBVIOUS
<1>1. cfg \in ConfigType
  BY ConfigsAssumption DEF Init
<1>2. TypeOK
  <2>1. live \in BOOLEAN /\ faults \subseteq Faults
    BY DEF Init
  <2>2. encoding \in {"gzip", "plain"} /\ backoff \in Nat
    BY <1>1 DEF Init, ConfigType
  <2> QED BY <2>1, <2>2 DEF Init, TypeOK
<1>3. OnTheWay
  BY <1>1 DEF Init, OnTheWay, ConfigType
<1>4. HonoursContract
  BY DEF Init, HonoursContract
<1> QED BY <1>2, <1>3, <1>4 DEF IInv

LEMMA NextInv == IInv /\ [Next]_vars => IInv'
<1> SUFFICES ASSUME IInv, [Next]_vars PROVE IInv'
  OBVIOUS
<1>0. cfg \in ConfigType
  BY ConfigsAssumption DEF IInv, TypeOK
<1>1. CASE RefuseTokenless
  BY <1>0, <1>1 DEF RefuseTokenless, Return, IInv, TypeOK, OnTheWay, Excused, HonoursContract,
     SendResults, Unreported, Answers, ConfigType
<1>2. CASE Request
  <2>1. PICK code \in Statuses \cup {0}, accepted \in 0..2 :
          /\ Exchange(code, accepted)
          /\ status' = code
          /\ copies' = IF copies + accepted > 2 THEN 2 ELSE copies + accepted
    BY <1>2 DEF Request
  <2>2. /\ pc = "request" /\ cfg.token /\ requests' = requests + 1
        /\ UNCHANGED <<cfg, faults, attempt, backoff, slept>>
    BY <1>2 DEF Request
  <2>3. copies \in 0..2 /\ copies' \in 0..2 /\ live' \in BOOLEAN
    <3>1. copies \in 0..2 /\ copies' \in 0..2
      BY <2>1 DEF IInv, TypeOK
    <3>2. live' \in BOOLEAN
      BY <2>1, Zenon DEF IInv, TypeOK, Exchange
    <3> QED BY <3>1, <3>2
  <2>4. copies > 0 => Excused
    BY <2>2 DEF IInv, OnTheWay
  <2>5. ~Success(code) /\ copies' > 0 => Excused'
    <3> SUFFICES ASSUME ~Success(code), copies' > 0, "redirect" \notin faults,
                        "lostAck" \notin faults
                 PROVE  "cancel" \in faults /\ ~live' /\ copies' = 1
      BY <2>2 DEF Excused
    <3>1. CASE live /\ Answered(code, accepted) /\ UNCHANGED live
      BY <2>1, <2>3, <2>4, <3>1 DEF Answered, Accepting, Success, Excused
    <3>2. CASE live /\ CutShort(code, accepted) /\ live' = FALSE
      BY <2>1, <2>3, <2>4, <3>2 DEF CutShort, Redirected, Excused
    <3>3. CASE ~live /\ code = 0 /\ accepted = 0 /\ UNCHANGED live
      BY <2>1, <2>3, <2>4, <3>3 DEF Excused
    <3> QED BY <2>1, <3>1, <3>2, <3>3 DEF Exchange, Redirected
  <2>6. CASE Success(status') /\ Return("ok") /\ UNCHANGED encoding
    <3>1. "redirect" \notin faults => live /\ accepted = 1
      BY <2>1, <2>6 DEF Exchange, Answered, CutShort, Redirected, Success, Accepting
    <3>2. "redirect" \notin faults => copies' >= 1 /\ (copies' > 1 => "lostAck" \in faults)
      BY <2>1, <2>3, <2>4, <3>1 DEF Excused
    <3>3. HonoursContract'
      BY <2>2, <2>3, <2>6, <3>2 DEF Return, HonoursContract, SendResults, Unreported, Answers
    <3> QED
      BY <1>0, <2>1, <2>2, <2>3, <2>6, <3>3
      DEF Return, IInv, TypeOK, OnTheWay, Answers, ConfigType
  <2>7. CASE RetryWithoutCompression /\ encoding' = "plain" /\ UNCHANGED <<pc, answer>>
    <3>1. ~Success(code) /\ encoding = "gzip"
      BY <2>1, <2>7 DEF RetryWithoutCompression, Success
    <3> QED
      BY <1>0, <2>1, <2>2, <2>3, <2>5, <2>7, <3>1
      DEF IInv, TypeOK, OnTheWay, HonoursContract, ConfigType
  <2>8. CASE /\ ~Success(status') /\ ~RetryWithoutCompression
             /\ IF IsPermanentStatus(status') \/ LastAttempt
                THEN Return(IF IsPermanentStatus(status') THEN "permanent" ELSE "temporary")
                ELSE pc' = "sleeping" /\ UNCHANGED answer
             /\ UNCHANGED encoding
    <3>1. copies' > 0 => Excused'
      BY <2>1, <2>5, <2>8
    <3>2. ASSUME IsPermanentStatus(status'), "redirect" \notin faults
          PROVE  "reject" \in faults /\ (copies' > 0 => "lostAck" \in faults)
      <4>1. code \in 200..599 /\ code >= 400 /\ code < 500 /\ code \notin {408, 429}
        BY <2>1, <3>2, StatusesAssumption DEF IsPermanentStatus
      <4>2. live /\ Answered(code, accepted)
        BY <2>1, <3>2, <4>1 DEF Exchange, CutShort, Redirected
      <4>3. "reject" \in faults
        BY <2>1, <2>8, <4>1, <4>2 DEF Answered, Refusing, RetryWithoutCompression
      <4>4. copies' > 0 => "lostAck" \in faults
        BY <2>1, <2>3, <2>4, <3>2, <4>1, <4>2 DEF Answered, Accepting, Excused
      <4> QED BY <4>3, <4>4
    <3>3. CASE IsPermanentStatus(status') \/ LastAttempt
      <4>1. pc' = "returned" /\ answer' \in {"permanent", "temporary"}
            /\ (answer' = "permanent" => IsPermanentStatus(status'))
        BY <2>8, <3>3 DEF Return
      <4>2. HonoursContract'
        BY <2>2, <2>3, <3>1, <3>2, <4>1
        DEF HonoursContract, SendResults, Unreported, Answers, Excused
      <4> QED
        BY <1>0, <2>1, <2>2, <2>3, <2>8, <4>1, <4>2 DEF IInv, TypeOK, OnTheWay, Answers, ConfigType
    <3>4. CASE ~(IsPermanentStatus(status') \/ LastAttempt)
      <4>1. pc' = "sleeping" /\ UNCHANGED <<answer, encoding>> /\ attempt # cfg.maxRetries
        BY <2>8, <3>4 DEF LastAttempt
      <4> QED
        BY <1>0, <2>1, <2>2, <2>3, <3>1, <4>1
        DEF IInv, TypeOK, OnTheWay, HonoursContract, ConfigType
    <3> QED BY <3>3, <3>4
  <2> QED BY <1>2, <2>6, <2>7, <2>8 DEF Request
<1>3. CASE Retry
  BY <1>0, <1>3 DEF Retry, Resume, NextBackoff, IInv, TypeOK, OnTheWay, Excused, HonoursContract,
     ConfigType
<1>4. CASE SleepCancelled
  <2>1. /\ pc' = "returned" /\ answer' = "temporary" /\ copies' = copies /\ pc = "sleeping"
        /\ UNCHANGED <<cfg, faults, attempt, backoff, slept, encoding, status, requests, live>>
    BY <1>4 DEF SleepCancelled, Return
  <2>2. copies > 0 => Excused
    BY <2>1 DEF IInv, OnTheWay, TypeOK
  <2>3. HonoursContract'
    BY <2>1, <2>2
    DEF IInv, TypeOK, OnTheWay, Excused, HonoursContract, SendResults, Unreported, Answers
  <2> QED BY <1>0, <2>1, <2>3 DEF IInv, TypeOK, OnTheWay, Answers, ConfigType
<1>5. CASE Cancel
  BY <1>5 DEF Cancel, IInv, TypeOK, OnTheWay, Excused, HonoursContract
<1>6. CASE UNCHANGED vars
  BY <1>6 DEF vars, IInv, TypeOK, OnTheWay, Excused, HonoursContract
<1> QED
  BY <1>1, <1>2, <1>3, <1>4, <1>5, <1>6 DEF Next

LEMMA Inductive == Spec => []IInv
BY InitInv, NextInv, PTL DEF Spec

\* A call of Send keeps its types, for all transport settings, statuses and
\* faults: counters are naturals, and its state is one of request, sleeping
\* and returned.
THEOREM SendTypeCorrect == Spec => []TypeOK
BY Inductive, PTL DEF IInv

\* The answer of Send and the copies it left at the collector are always among
\* those Delivery reckons with (client.go:75-128).
THEOREM ContractHonoured == Spec => []HonoursContract
BY Inductive, PTL DEF IInv

\* A call sends at most max_retries + 1 requests, and one more when gzip is
\* refused; the statement after the loop is dead code (client.go:98-127).
THEOREM LoopBounded == Spec => []RequestsBounded
<1>1. IInv => RequestsBounded
  BY ConfigsAssumption DEF IInv, TypeOK, OnTheWay, RequestsBounded, ConfigType
<1> QED BY <1>1, Inductive, PTL

\* What a call that has returned has in common with the one that was about to
\* return: the reason of its answer.
LEMMA NextReasons ==
    IInv /\ TemporaryOnlyAtTheEnd /\ GzipRefusalIsNotFinal /\ [Next]_vars
      => TemporaryOnlyAtTheEnd' /\ GzipRefusalIsNotFinal'
<1> SUFFICES ASSUME IInv, TemporaryOnlyAtTheEnd, GzipRefusalIsNotFinal, [Next]_vars
             PROVE  TemporaryOnlyAtTheEnd' /\ GzipRefusalIsNotFinal'
  OBVIOUS
<1> USE DEF TemporaryOnlyAtTheEnd, GzipRefusalIsNotFinal
<1>1. CASE RefuseTokenless
  BY <1>1 DEF RefuseTokenless, Return
<1>2. CASE Request
  <2>1. pc = "request" /\ UNCHANGED <<cfg, attempt>>
    BY <1>2 DEF Request
  <2>2. CASE Return("ok")
    BY <2>2 DEF Return
  <2>3. CASE UNCHANGED pc
    BY <2>1, <2>3
  <2>4. CASE /\ ~RetryWithoutCompression /\ UNCHANGED encoding
             /\ IF IsPermanentStatus(status') \/ LastAttempt
                THEN Return(IF IsPermanentStatus(status') THEN "permanent" ELSE "temporary")
                ELSE pc' = "sleeping" /\ UNCHANGED answer
    BY <2>1, <2>4 DEF Return, LastAttempt, RetryWithoutCompression
  <2> QED BY <1>2, <2>2, <2>3, <2>4 DEF Request
<1>3. CASE Retry
  BY <1>3 DEF Retry, Resume
<1>4. CASE SleepCancelled
  BY <1>4 DEF SleepCancelled, Return
<1>5. CASE Cancel
  BY <1>5 DEF Cancel
<1>6. CASE UNCHANGED vars
  BY <1>6 DEF vars
<1> QED
  BY <1>1, <1>2, <1>3, <1>4, <1>5, <1>6 DEF Next

LEMMA Reasons == Spec => [](TemporaryOnlyAtTheEnd /\ GzipRefusalIsNotFinal)
<1>1. Init => TemporaryOnlyAtTheEnd /\ GzipRefusalIsNotFinal
  BY DEF Init, TemporaryOnlyAtTheEnd, GzipRefusalIsNotFinal
<1> QED BY <1>1, NextReasons, Inductive, PTL DEF Spec

\* Send reports a batch as temporarily failed only after its last attempt or
\* when the caller's context has ended (client.go:98-125).
THEOREM RetriesExhausted == Spec => []TemporaryOnlyAtTheEnd
BY Reasons, PTL

\* No batch is dropped because the collector refused its compressed body
\* (client.go:114-123, 185-199).
THEOREM PlainBodyTried == Spec => []GzipRefusalIsNotFinal
BY Reasons, PTL

-----------------------------------------------------------------------------
(* The delays. *)

\* Sets of naturals have least elements: the form in which the proofs below
\* are inductive.
LEMMA Least ==
    ASSUME NEW S \in SUBSET Nat, S # {}
    PROVE  \E m \in S : \A n \in S : m <= n
<1> DEFINE R == OpToRel(<, Nat)
<1>1. IsWellFoundedOn(R, Nat)
  BY NatLessThanWellFounded
<1>2. PICK m \in S : \A n \in S : <<n, m>> \notin R
  <2> HIDE DEF R
  <2> QED BY <1>1, WFMin
<1>3. \A n \in S : ~(n < m)
  BY <1>2 DEF OpToRel
<1> QED BY <1>3

\* PowerOfTwo up to n, as a function that needs no recursion to be defined.
Powers(n) ==
    {f \in [0..n -> Nat] : f[0] = 1 /\ \A i \in 1..n : f[i] = 2 * f[i - 1]}

\* There are such functions, however far they go: the least n without one
\* would have one, by the one before.
LEMMA PowersExist == \A n \in Nat : Powers(n) # {}
<1> DEFINE S == {n \in Nat : Powers(n) = {}}
<1> SUFFICES ASSUME S # {} PROVE FALSE
  OBVIOUS
<1>1. PICK m \in S : \A n \in S : m <= n
  BY Least
<1>2. m \in Nat /\ Powers(m) = {} /\ \A n \in Nat : n < m => Powers(n) # {}
  BY <1>1
<1>3. CASE m = 0
  <2>1. [i \in 0..0 |-> 1] \in Powers(0)
    BY DEF Powers
  <2> QED BY <1>2, <1>3, <2>1
<1>4. CASE m # 0
  <2>1. PICK f : f \in Powers(m - 1)
    BY <1>2, <1>4
  <2> DEFINE g == [i \in 0..m |-> IF i = m THEN 2 * f[m - 1] ELSE f[i]]
  <2>2. f \in [0..(m - 1) -> Nat] /\ f[0] = 1 /\ \A i \in 1..(m - 1) : f[i] = 2 * f[i - 1]
    BY <2>1 DEF Powers
  <2>3. g \in [0..m -> Nat]
    BY <1>2, <1>4, <2>2
  <2>4. g[0] = 1
    BY <1>2, <1>4, <2>2
  <2>5. ASSUME NEW i \in 1..m PROVE g[i] = 2 * g[i - 1]
    <3>1. i - 1 \in 0..m /\ i - 1 # m /\ g[i - 1] = f[i - 1]
      BY <1>2
    <3> QED BY <1>2, <2>2, <3>1
  <2> HIDE DEF g
  <2>6. g \in Powers(m)
    BY <2>3, <2>4, <2>5 DEF Powers
  <2> QED BY <1>2, <2>6
<1> QED BY <1>3, <1>4

\* Two of them agree where both are defined.
LEMMA PowersAgree ==
    ASSUME NEW m \in Nat, NEW n \in Nat, NEW f \in Powers(m), NEW g \in Powers(n)
    PROVE  \A i \in 0..m : i <= n => f[i] = g[i]
<1> DEFINE S == {i \in 0..m : i <= n /\ f[i] # g[i]}
<1> SUFFICES ASSUME S # {} PROVE FALSE
  OBVIOUS
<1>1. S \in SUBSET Nat
  OBVIOUS
<1>2. PICK k \in S : \A i \in S : k <= i
  <2> HIDE DEF S
  <2> QED BY <1>1, Least
<1>3. k # 0
  BY <1>2 DEF Powers
<1>4. k - 1 \in 0..m /\ k - 1 <= n /\ k \in 1..m /\ k \in 1..n /\ k - 1 \notin S
  BY <1>2, <1>3
<1>5. f[k - 1] = g[k - 1]
  BY <1>4
<1>6. f[k] = 2 * f[k - 1] /\ g[k] = 2 * g[k - 1]
  BY <1>4 DEF Powers
<1> QED BY <1>2, <1>5, <1>6

\* The recursive definition defines what it says.
LEMMA PowerOfTwoUnfolds ==
    PowerOfTwo = [n \in Nat |-> IF n = 0 THEN 1 ELSE 2 * PowerOfTwo[n - 1]]
<1> DEFINE stage == [n \in Nat |-> CHOOSE f \in Powers(n) : TRUE]
           power == [n \in Nat |-> stage[n][n]]
<1>1. \A n \in Nat : stage[n] \in Powers(n)
  BY PowersExist
<1>2. ASSUME NEW n \in Nat
      PROVE  power[n] = IF n = 0 THEN 1 ELSE 2 * power[n - 1]
  <2>1. CASE n = 0
    BY <1>1, <2>1 DEF Powers
  <2>2. CASE n # 0
    <3>1. n - 1 \in Nat /\ n - 1 \in 0..(n - 1) /\ n - 1 <= n /\ n \in 1..n
      BY <2>2
    <3>2. stage[n][n] = 2 * stage[n][n - 1]
      BY <1>1, <3>1 DEF Powers
    <3>3. stage[n - 1][n - 1] = stage[n][n - 1]
      BY <1>1, <3>1, PowersAgree
    <3> QED BY <2>2, <3>1, <3>2, <3>3
  <2> QED BY <2>1, <2>2
<1>3. power = [n \in Nat |-> IF n = 0 THEN 1 ELSE 2 * power[n - 1]]
  <2>1. power = [n \in Nat |-> power[n]]
    OBVIOUS
  <2> HIDE DEF power
  <2> QED BY <1>2, <2>1
<1> HIDE DEF power
<1>4. \E f : f = [n \in Nat |-> IF n = 0 THEN 1 ELSE 2 * f[n - 1]]
  BY <1>3
<1> QED BY <1>4 DEF PowerOfTwo

LEMMA PowerOfTwoFacts ==
    /\ PowerOfTwo[0] = 1
    /\ \A n \in Nat : PowerOfTwo[n + 1] = 2 * PowerOfTwo[n]
    /\ \A n \in Nat : PowerOfTwo[n] \in Nat
<1>1. PowerOfTwo[0] = 1
  BY PowerOfTwoUnfolds
<1>2. ASSUME NEW n \in Nat PROVE PowerOfTwo[n + 1] = 2 * PowerOfTwo[n]
  <2>1. n + 1 \in Nat /\ n + 1 # 0 /\ (n + 1) - 1 = n
    OBVIOUS
  <2> QED BY <2>1, PowerOfTwoUnfolds
<1>3. ASSUME NEW n \in Nat PROVE PowerOfTwo[n] \in Nat
  <2> DEFINE S == {k \in Nat : PowerOfTwo[k] \notin Nat}
  <2> SUFFICES ASSUME S # {} PROVE FALSE
    OBVIOUS
  <2>1. S \in SUBSET Nat
    OBVIOUS
  <2>2. PICK k \in S : \A i \in S : k <= i
    <3> HIDE DEF S
    <3> QED BY <2>1, Least
  <2>3. k # 0 /\ k \in Nat
    BY <1>1, <2>2
  <2>4. k - 1 \in Nat /\ k - 1 \notin S /\ (k - 1) + 1 = k
    BY <2>2, <2>3
  <2>5. PowerOfTwo[k - 1] \in Nat /\ PowerOfTwo[k] = 2 * PowerOfTwo[k - 1]
    BY <2>4, <1>2
  <2> QED BY <2>2, <2>5
<1> QED BY <1>1, <1>2, <1>3

\* The delay before the next attempt, in the closed form that BackoffClosedForm
\* has for the one before this attempt.
Delay(n) == cfg.initialBackoff * PowerOfTwo[n]

NextDelayClosed ==
    backoff = IF attempt = 0 \/ Delay(attempt) <= cfg.maxBackoff
              THEN Delay(attempt) ELSE cfg.maxBackoff

LEMMA DelayFacts ==
    ASSUME TypeOK, NEW n \in Nat
    PROVE  /\ Delay(n) \in Nat
           /\ Delay(0) = cfg.initialBackoff
           /\ Delay(n + 1) = 2 * Delay(n)
<1>1. cfg.initialBackoff \in Nat
  BY ConfigsAssumption DEF TypeOK, ConfigType
<1>2. PICK i \in Nat : i = cfg.initialBackoff
  BY <1>1
<1>3. PICK p \in Nat : p = PowerOfTwo[n]
  BY PowerOfTwoFacts
<1>4. PowerOfTwo[n + 1] = 2 * p /\ PowerOfTwo[0] = 1
  BY <1>3, PowerOfTwoFacts
<1>5. i * p \in Nat /\ i * (2 * p) = 2 * (i * p) /\ i * 1 = i
  OBVIOUS
<1> QED BY <1>2, <1>3, <1>4, <1>5 DEF Delay

\* A retry sleeps for the delay and doubles it; a delay that is capped stays so,
\* because the powers grow.
LEMMA RetryDelays ==
    ASSUME TypeOK, NextDelayClosed, Retry
    PROVE  NextDelayClosed' /\ BackoffClosedForm'
<1>1. /\ attempt \in Nat /\ backoff \in Nat
      /\ attempt' = attempt + 1 /\ slept' = backoff /\ backoff' = NextBackoff /\ cfg' = cfg
  BY DEF TypeOK, Retry, Resume
<1>2. cfg.maxBackoff \in Nat
  BY ConfigsAssumption DEF TypeOK, ConfigType
<1>3. /\ Delay(attempt) \in Nat /\ Delay(0) = cfg.initialBackoff
      /\ Delay(attempt + 1) = 2 * Delay(attempt)
  BY <1>1, DelayFacts
<1>4. \A n : Delay(n)' = Delay(n)
  BY <1>1 DEF Delay
<1>5. NextDelayClosed'
  <2>1. backoff' = IF Delay(attempt + 1) <= cfg.maxBackoff THEN Delay(attempt + 1) ELSE cfg.maxBackoff
    BY <1>1, <1>2, <1>3 DEF NextDelayClosed, NextBackoff
  <2> QED BY <1>1, <1>4, <2>1 DEF NextDelayClosed
<1>6. BackoffClosedForm'
  <2>1. attempt' - 1 = attempt /\ (attempt' = 1 <=> attempt = 0)
    BY <1>1
  <2>2. cfg'.initialBackoff * PowerOfTwo[attempt' - 1] = Delay(attempt)
    BY <1>1, <2>1 DEF Delay
  <2>3. slept' = IF attempt' = 1 \/ Delay(attempt) <= cfg'.maxBackoff
                 THEN Delay(attempt) ELSE cfg'.maxBackoff
    BY <1>1, <2>1 DEF NextDelayClosed
  <2> QED BY <2>2, <2>3 DEF BackoffClosedForm
<1> QED BY <1>5, <1>6

LEMMA NextDelays ==
    TypeOK /\ NextDelayClosed /\ BackoffClosedForm /\ [Next]_vars
      => NextDelayClosed' /\ BackoffClosedForm'
<1> SUFFICES ASSUME TypeOK, NextDelayClosed, BackoffClosedForm, [Next]_vars
             PROVE  NextDelayClosed' /\ BackoffClosedForm'
  OBVIOUS
<1>1. CASE Retry
  BY <1>1, RetryDelays
<1>2. CASE UNCHANGED <<cfg, attempt, backoff, slept>>
  BY <1>2 DEF NextDelayClosed, BackoffClosedForm, Delay
<1> QED
  BY <1>1, <1>2 DEF Next, RefuseTokenless, Request, SleepCancelled, Cancel, vars

\* The k-th retry comes after initial_backoff * 2^(k-1), capped by max_backoff
\* from the second on, for all settings and however many retries there are
\* (client.go:97-107).
THEOREM DelaysDouble == Spec => []BackoffClosedForm
<1>1. Init => NextDelayClosed /\ BackoffClosedForm
  <2> SUFFICES ASSUME Init PROVE NextDelayClosed /\ BackoffClosedForm
    OBVIOUS
  <2>1. attempt = 0 /\ backoff = cfg.initialBackoff /\ TypeOK
    BY InitInv DEF Init, IInv
  <2>2. Delay(0) = cfg.initialBackoff
    BY <2>1, DelayFacts
  <2> QED BY <2>1, <2>2 DEF NextDelayClosed, BackoffClosedForm
<1> QED
  BY <1>1, NextDelays, SendTypeCorrect, PTL DEF Spec

-----------------------------------------------------------------------------
(* The length of a call. *)

\* How many steps a call has left at most: two for each retry, those of the
\* attempt it is in, one for the fallback and one for the end of the context.
StepsLeft ==
    IF pc = "returned" THEN 0
    ELSE 2 * (cfg.maxRetries - attempt)
           + (IF pc = "request" THEN 2 ELSE 1)
           + (IF encoding = "gzip" THEN 1 ELSE 0)
           + (IF live THEN 1 ELSE 0)

\* Whatever the collector answers and whenever the context ends, each step of a
\* call brings its return nearer: Send neither retries nor falls back to the
\* plain body for ever.  With the fairness of FairSpec this is why it Returns
\* (client.go:97-127).
Shortens == [][StepsLeft' < StepsLeft]_vars

LEMMA StepsLeftFacts == IInv => StepsLeft \in Nat /\ (pc # "returned" => StepsLeft > 0)
<1> SUFFICES ASSUME IInv, pc # "returned" PROVE StepsLeft \in Nat /\ StepsLeft > 0
  BY DEF StepsLeft
<1>1. cfg.maxRetries \in Nat /\ attempt \in Nat /\ attempt <= cfg.maxRetries
  BY ConfigsAssumption DEF IInv, TypeOK, OnTheWay, ConfigType
<1>2. PICK d \in Nat : cfg.maxRetries - attempt = d
  BY <1>1
<1> QED BY <1>2 DEF StepsLeft

\* The call takes at most two steps for each retry and four more.
THEOREM CallEnds == Spec => [](StepsLeft \in 0..(2 * cfg.maxRetries + 4)) /\ Shortens
<1>1. IInv => StepsLeft \in 0..(2 * cfg.maxRetries + 4)
  <2> SUFFICES ASSUME IInv PROVE StepsLeft \in 0..(2 * cfg.maxRetries + 4)
    OBVIOUS
  <2>1. cfg.maxRetries \in Nat /\ attempt \in Nat /\ attempt <= cfg.maxRetries
    BY ConfigsAssumption DEF IInv, TypeOK, OnTheWay, ConfigType
  <2> QED BY <2>1, StepsLeftFacts DEF StepsLeft
<1>2. IInv /\ [Next]_vars => [StepsLeft' < StepsLeft]_vars
  <2> SUFFICES ASSUME IInv, Next PROVE StepsLeft' < StepsLeft
    OBVIOUS
  <2>1. /\ cfg.maxRetries \in Nat /\ attempt \in Nat /\ attempt <= cfg.maxRetries
        /\ live \in BOOLEAN /\ live' \in BOOLEAN /\ (live' => live) /\ cfg' = cfg
    <3>1. cfg \in ConfigType /\ attempt \in Nat /\ attempt <= cfg.maxRetries
      BY ConfigsAssumption DEF IInv, TypeOK, OnTheWay
    <3>2. cfg' = cfg /\ live \in BOOLEAN
      BY DEF IInv, TypeOK, Next, RefuseTokenless, Request, Retry, Resume, SleepCancelled, Cancel
    <3>3. live' = live \/ live' = FALSE
      BY Zenon DEF Next, RefuseTokenless, Request, Exchange, Retry, Resume, SleepCancelled, Cancel
    <3>4. CASE live' = live
      <4>1. live' \in BOOLEAN /\ (live' => live)
        BY <3>2, <3>4
      <4> QED BY <3>1, <3>2, <4>1 DEF ConfigType
    <3>5. CASE live' = FALSE
      BY <3>1, <3>2, <3>5 DEF ConfigType
    <3> QED BY <3>3, <3>4, <3>5
  <2>2. PICK d \in Nat : cfg.maxRetries - attempt = d
    BY <2>1
  <2>3. ASSUME pc # "returned", pc' = "returned" PROVE StepsLeft' < StepsLeft
    BY <2>3, StepsLeftFacts DEF StepsLeft
  <2>4. CASE RefuseTokenless
    BY <2>3, <2>4 DEF RefuseTokenless, Return
  <2>5. CASE Request
    <3>1. pc = "request" /\ UNCHANGED attempt
      BY <2>5 DEF Request
    <3>2. CASE pc' = "returned"
      BY <3>1, <3>2, <2>3
    <3>3. CASE RetryWithoutCompression /\ encoding' = "plain" /\ UNCHANGED pc
      BY <2>1, <2>2, <3>1, <3>3 DEF StepsLeft, RetryWithoutCompression
    <3>4. CASE pc' = "sleeping" /\ UNCHANGED encoding
      BY <2>1, <2>2, <3>1, <3>4 DEF StepsLeft
    <3> QED BY <2>5, <3>2, <3>3, <3>4 DEF Request, Return
  <2>6. CASE Retry
    <3>1. cfg.maxRetries - (attempt + 1) = d - 1
      BY <2>1, <2>2
    <3> QED BY <2>1, <2>2, <2>6, <3>1 DEF Retry, Resume, StepsLeft
  <2>7. CASE SleepCancelled
    BY <2>3, <2>7 DEF SleepCancelled, Return
  <2>8. CASE Cancel
    BY <2>1, <2>2, <2>8 DEF Cancel, StepsLeft
  <2> QED BY <2>4, <2>5, <2>6, <2>7, <2>8 DEF Next
<1> QED BY <1>1, <1>2, Inductive, PTL DEF Spec, Shortens

=============================================================================
