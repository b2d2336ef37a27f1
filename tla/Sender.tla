------------------------------- MODULE Sender -------------------------------
(***************************************************************************)
(* One call of sender.Client.Send (internal/sender/client.go): retries     *)
(* with exponential backoff, the fallback from gzip to plain JSON, the     *)
(* classification of the collector's answers, and the cancellation of the  *)
(* caller's context.                                                       *)
(*                                                                         *)
(* Abstractions: a body is its encoding; durations are numbers and the     *)
(* jitter added to a delay is left out; the status 0 stands for a request  *)
(* without an answer (refused connection, timeout, cancelled context); the *)
(* requests that follow a redirection are part of the one that met it.     *)
(* Marshalling, compression and building the request do not fail.          *)
(***************************************************************************)
EXTENDS Integers, SendContract

CONSTANTS
    Configs,   \* token, and the transport settings Send reads
    Statuses,  \* the HTTP statuses the collector may answer with
    Faults     \* what may go wrong: "reject", "lostAck", "cancel", "redirect"

ConfigType ==
    [token : BOOLEAN, compression : BOOLEAN, maxRetries : Nat,
     initialBackoff : Nat, maxBackoff : Nat]

ASSUME ConfigsAssumption == Configs \subseteq ConfigType
ASSUME StatusesAssumption == Statuses \subseteq 200..599

VARIABLES
    cfg,       \* the *config.Runtime of the call
    faults,    \* the faults that can happen during this call
    pc,        \* request, sleeping or returned
    attempt,   \* the loop counter
    backoff,   \* the delay before the next attempt
    slept,     \* the delay before this attempt, 0 before the first
    encoding,  \* activeRequest.contentEncoding: gzip or plain
    status,    \* the last answer, 0 when there was none
    requests,  \* requests sent
    live,      \* the caller's context is not done
    copies,    \* copies the collector accepted; 2 stands for two or more
    answer     \* what Send returns

vars == <<cfg, faults, pc, attempt, backoff, slept, encoding, status, requests, live, copies,
          answer>>

-----------------------------------------------------------------------------
\* What the statuses mean to the collector that sends them.
Accepting(code) == code \in 200..299
Refusing(code)  == code \in (400..499) \ {408, 429}

\* The collector answers with a status, and has accepted so many copies.
Answered(code, accepted) ==
    /\ accepted <= 1
    /\ Accepting(code) => accepted = 1
    /\ accepted = 1 /\ ~Accepting(code) => "lostAck" \in faults
    /\ Refusing(code) =>
         \/ "reject" \in faults
         \/ encoding = "gzip" /\ code \in {400, 415}

\* The HTTP client followed a redirection, with a GET that has no body (301,
\* 302, 303) or with the same POST (307, 308): the answer is that of whatever
\* server it led to, and says nothing of the batch.
Redirected == "redirect" \in faults

\* The context ends while the answer is awaited, perhaps after the collector
\* has accepted the batch.
CutShort(code, accepted) ==
    /\ "cancel" \in faults
    /\ code = 0
    /\ accepted <= 1 \/ Redirected

\* One request.  On a context that is dead already nothing is sent.
Exchange(code, accepted) ==
    \/ live /\ (Answered(code, accepted) \/ Redirected) /\ UNCHANGED live
    \/ live /\ CutShort(code, accepted) /\ live' = FALSE
    \/ ~live /\ code = 0 /\ accepted = 0 /\ UNCHANGED live

\* Mutant: a redirection passes for success.
SuccessBelow400(code) == code \in 200..399

Success(code) == code \in 200..299

\* isPermanentStatus; a request without an answer is a temporary failure.
IsPermanentStatus(code) ==
    /\ code \notin {408, 429}
    /\ code < 500
    /\ code >= 400

\* Mutant: a collector that answers 400 to a gzip body is not asked again.
RetryOnlyUnsupported == encoding = "gzip" /\ status' = 415

\* shouldRetryWithoutCompression
RetryWithoutCompression == encoding = "gzip" /\ status' \in {400, 415}

\* Mutants: one attempt too few, one too many.
OneTooFew  == attempt + 1 >= cfg.maxRetries
OneTooMany == attempt > cfg.maxRetries

LastAttempt == attempt = cfg.maxRetries

\* Mutant: the delay grows for ever.
UncappedBackoff == 2 * backoff

NextBackoff == IF 2 * backoff > cfg.maxBackoff THEN cfg.maxBackoff ELSE 2 * backoff

-----------------------------------------------------------------------------
Init ==
    /\ cfg \in Configs
    /\ faults \in SUBSET Faults
    /\ pc = "request"
    /\ attempt = 0
    /\ backoff = cfg.initialBackoff
    /\ slept = 0
    /\ encoding = IF cfg.compression THEN "gzip" ELSE "plain"
    /\ status = 0
    /\ requests = 0
    /\ live \in IF "cancel" \in faults THEN BOOLEAN ELSE {TRUE}
    /\ copies = 0
    /\ answer = "none"

Return(a) == pc' = "returned" /\ answer' = a

\* The token is empty: nothing is sent.
RefuseTokenless ==
    /\ pc = "request"
    /\ ~cfg.token
    /\ Return("permanent")
    /\ UNCHANGED <<cfg, faults, attempt, backoff, slept, encoding, status, requests, live, copies>>

\* sendPrepared, and what Send makes of the answer: return, send the plain
\* body in the same attempt, or sleep before the next attempt.
Request ==
    /\ pc = "request"
    /\ cfg.token
    /\ \E code \in Statuses \cup {0}, accepted \in 0..2 :
         /\ Exchange(code, accepted)
         /\ status' = code
         /\ copies' = IF copies + accepted > 2 THEN 2 ELSE copies + accepted
    /\ requests' = requests + 1
    /\ \/ /\ Success(status')
          /\ Return("ok")
          /\ UNCHANGED encoding
       \/ /\ RetryWithoutCompression
          /\ encoding' = "plain"
          /\ UNCHANGED <<pc, answer>>
       \/ /\ ~Success(status') /\ ~RetryWithoutCompression
          /\ IF IsPermanentStatus(status') \/ LastAttempt
             THEN Return(IF IsPermanentStatus(status') THEN "permanent" ELSE "temporary")
             ELSE pc' = "sleeping" /\ UNCHANGED answer
          /\ UNCHANGED encoding
    /\ UNCHANGED <<cfg, faults, attempt, backoff, slept>>

\* The n-th attempt after a sleep; the sleep before the next is longer.
Resume(n) ==
    /\ pc = "sleeping"
    /\ attempt' = n
    /\ slept' = backoff
    /\ backoff' = NextBackoff
    /\ pc' = "request"
    /\ UNCHANGED <<cfg, faults, encoding, status, requests, live, copies, answer>>

\* Mutants: attempts are counted down; the sleep waits for the context only.
RetryCountsDown    == Resume(attempt - 1)
RetryWhenCancelled == ~live /\ Resume(attempt + 1)

\* The timer of sleepWithContext fires.
Retry == Resume(attempt + 1)

\* The context ends the sleep.
SleepCancelled ==
    /\ pc = "sleeping"
    /\ ~live
    /\ Return("temporary")
    /\ UNCHANGED <<cfg, faults, attempt, backoff, slept, encoding, status, requests, live, copies>>

\* The caller's context is cancelled or meets its deadline between requests.
Cancel ==
    /\ "cancel" \in faults
    /\ pc # "returned"
    /\ live
    /\ live' = FALSE
    /\ UNCHANGED <<cfg, faults, pc, attempt, backoff, slept, encoding, status, requests, copies, answer>>

Next == RefuseTokenless \/ Request \/ Retry \/ SleepCancelled \/ Cancel

Spec == Init /\ [][Next]_vars

\* Every request has a timeout and every sleep a timer: Send goes on.
FairSpec == Spec /\ WF_vars(RefuseTokenless \/ Request \/ Retry \/ SleepCancelled)

-----------------------------------------------------------------------------
(* Properties. *)

\* The state has its type.
TypeOK ==
    /\ cfg \in Configs
    /\ faults \subseteq Faults
    /\ pc \in {"request", "sleeping", "returned"}
    /\ attempt \in Nat
    /\ backoff \in Nat
    /\ slept \in Nat
    /\ encoding \in {"gzip", "plain"}
    /\ status \in Statuses \cup {0}
    /\ requests \in Nat
    /\ live \in BOOLEAN
    /\ copies \in 0..2
    /\ answer \in Answers \cup {"none"}

\* What Send returns is what its callers rely on, whatever the retries, the
\* fallback and the end of the context did: "ok" only for an accepted batch,
\* "permanent" only when the token is missing or the collector refused the
\* batch, and no copy beyond what is reported unless an answer was lost or the
\* context ended before it came; a followed redirection voids all of it but
\* the token's part (client.go:69-71, 75-128, 147-150).
HonoursContract ==
    pc = "returned" =>
        [answer |-> answer, copies |-> copies] \in SendResults(cfg.token, faults)

\* A temporary answer is the last resort: every attempt was used, or the
\* caller's context ended (client.go:98-125).
TemporaryOnlyAtTheEnd ==
    pc = "returned" /\ answer = "temporary" => attempt = cfg.maxRetries \/ ~live

\* The collector's refusal of a compressed body never becomes a permanent
\* answer, on which the batch would be dropped: the plain body was refused
\* too, or the refusal had another reason (client.go:114-123, 185-199).
GzipRefusalIsNotFinal ==
    pc = "returned" /\ answer = "permanent" /\ cfg.token =>
        ~(encoding = "gzip" /\ status \in {400, 415})

\* One request per attempt, and one more for the whole call when gzip is
\* refused; and the counter stays within its bound, so that the loop is left
\* only by a return and the statement after it is dead (client.go:98-127).
RequestsBounded ==
    /\ requests <= attempt + 1 + (IF cfg.compression /\ encoding = "plain" THEN 1 ELSE 0)
    /\ attempt <= cfg.maxRetries

PowerOfTwo[n \in Nat] == IF n = 0 THEN 1 ELSE 2 * PowerOfTwo[n - 1]

\* The delay before the k-th retry is initial_backoff * 2^(k-1), capped by
\* max_backoff from the second retry on; the first is not capped
\* (client.go:97-107).
BackoffClosedForm ==
    attempt >= 1 =>
        LET doubled == cfg.initialBackoff * PowerOfTwo[attempt - 1] IN
          slept = IF attempt = 1 \/ doubled <= cfg.maxBackoff THEN doubled ELSE cfg.maxBackoff

\* Send returns (client.go:98-127, 131).
Returns == <>(pc = "returned")

=============================================================================
