---------------------------- MODULE Transport ----------------------------
(***************************************************************************)
(* One call of send() (src/src/transport/send.ts): the retry loop every    *)
(* check-in and every management call goes through, with the attempt it    *)
(* awaits (attemptOnce) and the wait between two attempts (holdFor).       *)
(*                                                                         *)
(* A state is a point where the JavaScript function is suspended:          *)
(*   start       send() called, its first synchronous stretch not yet run  *)
(*   dispatched  awaiting the head of the response                         *)
(*   reading     awaiting the body, the head in hand                       *)
(*   settled     attemptOnce has settled, the loop has not yet resumed     *)
(*   waiting     awaiting the pause before the next attempt                *)
(*   done        the promise send() returned has settled                   *)
(* Every action is one stretch of code between two of those points, so     *)
(* that the network, the timers and the caller's abort signal interleave   *)
(* exactly where the event loop lets them.                                 *)
(*                                                                         *)
(* Time is a counter of an arbitrary unit.  A timer fires at or after the  *)
(* instant it was armed for, never more than Lag late: Lag is how far the  *)
(* host's event loop may be behind.                                        *)
(***************************************************************************)
EXTENDS Integers

CONSTANTS
  Timeout,   \* request.timeoutMs
  Attempts,  \* request.attempts
  Floor,     \* RETRY_FLOOR_DELAY_MS
  Cap,       \* RETRY_AFTER_CAP_MS
  Lag,       \* how late a due timer may fire
  Asks       \* waits a Retry-After header may state; 0 is no usable header

ASSUME TimeoutAssumption  == Timeout \in Nat \ {0}
ASSUME AttemptsAssumption == Attempts \in Nat \ {0}
ASSUME DelayAssumption    == Floor \in Nat \ {0} /\ Cap \in Nat /\ Floor <= Cap
ASSUME LagAssumption      == Lag \in Nat
ASSUME AsksAssumption     == Asks \subseteq Nat

VARIABLES
  now,        \* the clock, zero when send() is called
  pc,
  attempt,    \* the loop's counter
  settled,    \* how the last attemptOnce settled
  answered,   \* the last server error carried into another attempt
  stated,     \* that answer, while it stated the wait being honoured
  pause,
  due,        \* when the armed timer is due: the attempt's deadline or the wait
  aborted,    \* request.signal.aborted
  stoppedBy,  \* attemptOnce's stoppedBy
  head,       \* the head of the response being read
  result,     \* how send() settled
  calls,      \* history: requests handed to the transport
  settledAt,  \* history: when the last attempt settled
  abortedIn   \* history: where the call stood when the signal was aborted

held  == <<answered, stated, pause>>
vars  == <<now, pc, attempt, settled, answered, stated, pause, due, aborted,
           stoppedBy, head, result, calls, settledAt, abortedIn>>

-----------------------------------------------------------------------------
(* What a server can say.  A status is final (anything below 500), broken   *)
(* (a 5xx) or unavailable (a 503, the one 5xx whose Retry-After is read).   *)

Statuses == {"final", "broken", "unavailable"}
Answer   == [status : Statuses, asks : Asks]
NoAnswer == [status |-> "none", asks |-> 0]

Reasons  == {"timeout", "aborted", "network-error", "unexpected"}
Unsettled == [reason |-> "none", answer |-> NoAnswer]
Answered(a) == [reason |-> "answered", answer |-> a]
Failed(r)   == [reason |-> r, answer |-> NoAnswer]

\* Mutant: every reply is worth another request.
AnythingIsRetried(a) == a.status # "none"

IsServerError(a) == a.status \in {"broken", "unavailable"}

LeastOf(a, b)    == IF a <= b THEN a ELSE b
GreatestOf(a, b) == IF a >= b THEN a ELSE b

\* Mutant: a header below the floor is taken at its word.
DelayUnfloored(a) ==
  IF a.status = "unavailable" THEN LeastOf(a.asks, Cap) ELSE Floor

\* How long the loop pauses after an answer: only a 503 is asked how long.
DelayAfter(a) ==
  IF a.status = "unavailable"
    THEN LeastOf(GreatestOf(a.asks, Floor), Cap)
    ELSE Floor

Budget == Timeout - now

MayRetry == attempt < Attempts

-----------------------------------------------------------------------------
Init ==
  /\ now = 0
  /\ pc = "start"
  /\ attempt = 0
  /\ settled = Unsettled
  /\ answered = NoAnswer
  /\ stated = NoAnswer
  /\ pause = Floor
  /\ due = 0
  /\ aborted = FALSE
  /\ stoppedBy = "nobody"
  /\ head = NoAnswer
  /\ result = [reason |-> "none", answer |-> NoAnswer, attempts |-> 0]
  /\ calls = 0
  /\ settledAt = 0
  /\ abortedIn = "never"

\* send() settles, reporting n attempts.
Finish(outcome, n) ==
  /\ pc' = "done"
  /\ result' = [reason |-> outcome.reason, answer |-> outcome.answer, attempts |-> n]

-----------------------------------------------------------------------------
(* The loop.                                                                *)

\* Still inside the budget: the next attempt arms its own deadline for what is
\* left, relays a signal that is already aborted, and calls the transport.
Dispatch ==
  /\ Budget > 0
  /\ pc' = "dispatched"
  /\ attempt' = attempt + 1
  /\ calls' = calls + 1
  /\ due' = now + Budget
  /\ stoppedBy' = IF aborted THEN "caller" ELSE "nobody"
  /\ head' = NoAnswer
  /\ UNCHANGED <<now, settled, held, aborted, result, settledAt, abortedIn>>

\* The budget was spent while the loop waited: no attempt goes out, and the
\* counter it had already taken is given back in what is reported.
OutOfBudget ==
  /\ Budget <= 0
  /\ attempt' = attempt + 1
  /\ Finish(IF answered # NoAnswer /\ ~aborted THEN Answered(answered)
            ELSE Failed(IF aborted THEN "aborted" ELSE "timeout"),
            attempt)
  /\ UNCHANGED <<now, settled, held, due, aborted, stoppedBy, head, calls,
                 settledAt, abortedIn>>

Begin == pc = "start" /\ Dispatch

\* The wait ends when its timer fires or the caller aborts, whichever is first.
WakeAborted ==
  /\ pc = "waiting"
  /\ aborted
  /\ Finish(Failed("aborted"), attempt)
  /\ UNCHANGED <<now, attempt, settled, held, due, aborted, stoppedBy, head,
                 calls, settledAt, abortedIn>>

WakeDue ==
  /\ pc = "waiting"
  /\ ~aborted
  /\ now >= due
  /\ Dispatch \/ OutOfBudget

\* The head of the loop after an attempt that may be retried: a stated wait the
\* budget cannot hold returns the answer in hand, anything else is waited out.
PauseOrReturn(wait, inHand) ==
  IF inHand # NoAnswer /\ ~aborted /\ wait >= Budget
    THEN /\ Finish(Answered(inHand), attempt)
         /\ UNCHANGED due
    ELSE /\ pc' = "waiting"
         /\ due' = now + LeastOf(wait, GreatestOf(0, Budget))
         /\ UNCHANGED result

AnswerIsRetried ==
  /\ pc = "settled"
  /\ settled.reason = "answered"
  /\ IsServerError(settled.answer)
  /\ MayRetry
  /\ answered' = settled.answer
  /\ pause' = DelayAfter(settled.answer)
  /\ stated' = IF pause' > Floor THEN settled.answer ELSE NoAnswer
  /\ PauseOrReturn(pause', stated')
  /\ UNCHANGED <<now, attempt, settled, aborted, stoppedBy, head, calls,
                 settledAt, abortedIn>>

AnswerIsFinal ==
  /\ pc = "settled"
  /\ settled.reason = "answered"
  /\ ~(IsServerError(settled.answer) /\ MayRetry)
  /\ Finish(settled, attempt)
  /\ UNCHANGED <<now, attempt, settled, held, due, aborted, stoppedBy, head,
                 calls, settledAt, abortedIn>>

\* Mutant: the held answer is forgotten.
NothingStands == FALSE

\* The deadline landed on an attempt made after a stated wait: the 503 that
\* stated it is reported, as the answer of the attempt before.
StatedStands == settled.reason = "timeout" /\ stated # NoAnswer /\ ~aborted

FailureIsHeld ==
  /\ pc = "settled"
  /\ StatedStands
  /\ Finish(Answered(stated), attempt - 1)
  /\ UNCHANGED <<now, attempt, settled, held, due, aborted, stoppedBy, head,
                 calls, settledAt, abortedIn>>

FailureIsFinal ==
  /\ pc = "settled"
  /\ settled.reason \in Reasons
  /\ ~StatedStands
  /\ settled.reason # "network-error" \/ ~MayRetry
  /\ Finish(settled, attempt)
  /\ UNCHANGED <<now, attempt, settled, held, due, aborted, stoppedBy, head,
                 calls, settledAt, abortedIn>>

FailureIsRetried ==
  /\ pc = "settled"
  /\ settled.reason = "network-error"
  /\ MayRetry
  /\ stated' = NoAnswer
  /\ pause' = Floor
  /\ PauseOrReturn(pause', stated')
  /\ UNCHANGED <<now, attempt, settled, answered, aborted, stoppedBy, head,
                 calls, settledAt, abortedIn>>

-----------------------------------------------------------------------------
(* The attempt.                                                             *)

\* attemptOnce settles, cancelling its deadline and no longer listening.
Settle(outcome) ==
  /\ pc' = "settled"
  /\ settled' = outcome
  /\ settledAt' = now
  /\ UNCHANGED <<now, attempt, held, due, aborted, head, result, calls, abortedIn>>

GaveUp(by) == Failed(IF by = "caller" THEN "aborted" ELSE "timeout")

\* The transport rejects: because it was told to stop, or on its own.
FetchRejects ==
  /\ pc = "dispatched"
  /\ Settle(IF stoppedBy = "nobody" THEN Failed("network-error")
            ELSE GaveUp(stoppedBy))
  /\ UNCHANGED stoppedBy

\* A head arrives, even from a transport that ignores the signal.
HeadArrives ==
  /\ pc = "dispatched"
  /\ \E a \in Answer : head' = a
  /\ pc' = "reading"
  /\ UNCHANGED <<now, attempt, settled, held, due, aborted, stoppedBy, result,
                 calls, settledAt, abortedIn>>

\* What the transport resolved to is not an HTTP response.
NotAResponse ==
  /\ pc = "dispatched"
  /\ Settle(Failed("unexpected"))
  /\ UNCHANGED stoppedBy

ReadOutcome ==
  IF stoppedBy = "caller" THEN GaveUp(stoppedBy) ELSE Answered(head)

\* The read comes back.  A body that broke off counts as read: readBody hands
\* over what there is.
BodyRead ==
  /\ pc = "reading"
  /\ Settle(ReadOutcome)
  /\ UNCHANGED stoppedBy

\* Mutant: the deadline covers the head and not the body.
AwaitingHead == pc = "dispatched"

Awaiting == pc \in {"dispatched", "reading"}

\* The attempt's deadline fires over whatever it is awaiting.  The first of the
\* deadline and the caller to stop the attempt is the one that is blamed.
DeadlineFires ==
  /\ Awaiting
  /\ now >= due
  /\ stoppedBy' = IF stoppedBy = "nobody" THEN "deadline" ELSE stoppedBy
  /\ Settle(IF pc = "reading" /\ stoppedBy' = "deadline" /\ IsServerError(head)
              THEN Answered(head)
              ELSE GaveUp(stoppedBy'))

-----------------------------------------------------------------------------
(* The environment.                                                         *)

\* The caller aborts its signal.  Only an attempt in flight relays it.
CallerAborts ==
  /\ pc # "done"
  /\ ~aborted
  /\ aborted' = TRUE
  /\ abortedIn' = pc
  /\ stoppedBy' = IF pc \in {"dispatched", "reading"} /\ stoppedBy = "nobody"
                    THEN "caller" ELSE stoppedBy
  /\ UNCHANGED <<now, pc, attempt, settled, held, due, head, result, calls, settledAt>>

\* Time passes; the event loop is never more than Lag behind an armed timer.
Tick ==
  /\ pc \notin {"start", "done"}
  /\ now < due + Lag
  /\ now' = now + 1
  /\ UNCHANGED <<pc, attempt, settled, held, due, aborted, stoppedBy, head,
                 result, calls, settledAt, abortedIn>>

Resume ==
  \/ AnswerIsRetried \/ AnswerIsFinal
  \/ FailureIsHeld \/ FailureIsFinal \/ FailureIsRetried

Wake == WakeAborted \/ WakeDue

Terminated == pc = "done" /\ UNCHANGED vars

Next ==
  \/ Begin \/ Wake \/ Resume
  \/ FetchRejects \/ HeadArrives \/ NotAResponse \/ BodyRead \/ DeadlineFires
  \/ CallerAborts \/ Tick \/ Terminated

Spec == Init /\ [][Next]_vars

\* The runtime runs what it has queued and fires what is due.  Nothing is
\* assumed of the network or of the caller: a transport may never settle.
Fairness ==
  /\ WF_vars(Begin) /\ WF_vars(Wake) /\ WF_vars(Resume)
  /\ WF_vars(DeadlineFires) /\ WF_vars(Tick)

FairSpec == Spec /\ Fairness

-----------------------------------------------------------------------------
TypeOK ==
  /\ now \in Nat
  /\ pc \in {"start", "dispatched", "reading", "settled", "waiting", "done"}
  /\ attempt \in 0..Attempts
  /\ settled \in [reason : Reasons \cup {"none", "answered"},
                  answer : Answer \cup {NoAnswer}]
  /\ answered \in Answer \cup {NoAnswer}
  /\ stated \in Answer \cup {NoAnswer}
  /\ pause \in Nat
  /\ due \in Nat
  /\ aborted \in BOOLEAN
  /\ stoppedBy \in {"nobody", "caller", "deadline"}
  /\ head \in Answer \cup {NoAnswer}
  /\ result \in [reason : Reasons \cup {"none", "answered"},
                 answer : Answer \cup {NoAnswer}, attempts : 0..Attempts]
  /\ calls \in Nat
  /\ settledAt \in Nat
  /\ abortedIn \in {"never", "start", "dispatched", "reading", "settled", "waiting"}

-----------------------------------------------------------------------------
(* Safety.                                                                  *)

\* A cancellation the caller asked for is reported as one, wherever it lands
\* before the attempt has settled, and never as an answer, a timeout or a
\* network error (src/README.md, "Never breaks the job").  The one other report
\* is of a transport that resolved to something that is not a response.
CancellationIsReported ==
  pc = "done" /\ abortedIn \in {"start", "dispatched", "reading", "waiting"}
    => result.reason \in {"aborted", "unexpected"}

\* Nobody is blamed for a cancellation they never asked for.
BlameIsEarned == result.reason = "aborted" => abortedIn # "never"

\* The 503 that stated the wait an attempt was made after is not lost to that
\* attempt's deadline, unless the caller stopped waiting.
StatedAnswerSurvives ==
  pc = "done" /\ result.reason = "timeout" => stated = NoAnswer \/ aborted

\* What is reported as the number of attempts is the number of requests that
\* were made, except that a 503 that outlives the attempt made after its wait
\* is reported with the number of the attempt it answered.
AttemptsAreRequests ==
  pc = "done" =>
    result.attempts = (IF settled.reason = "timeout" /\ result.reason = "answered"
                       THEN calls - 1 ELSE calls)

WhatHappenedIsReported ==
  /\ CancellationIsReported
  /\ BlameIsEarned
  /\ StatedAnswerSurvives
  /\ AttemptsAreRequests

\* What send() reports is what happened: to the caller who cancelled, to the
\* answer a server stated, and to the requests that were made.
ReportIsHonest == TypeOK /\ WhatHappenedIsReported

-----------------------------------------------------------------------------
(* What a step may never do.                                                *)

\* How long the service is owed before the next request, from what the last
\* attempt heard: src/README.md promises 50 ms, or the wait a 503 states up to
\* the cap.
Owed(outcome) ==
  IF outcome.reason = "answered" /\ outcome.answer.status = "unavailable"
    THEN IF outcome.answer.asks > Cap THEN Cap
         ELSE IF outcome.answer.asks > Floor THEN outcome.answer.asks
         ELSE Floor
    ELSE Floor

\* A retry leaves the service alone for as long as it asked, whatever mixture
\* of answers, failures and late timers came before.
RetriesAreSpaced ==
  [][calls' > calls /\ calls > 0 => now >= settledAt + Owed(settled)]_vars

\* No request leaves once the budget is spent.
NothingLeavesLate == [][calls' > calls => now < Timeout]_vars

\* A call the caller has cancelled sends nothing more: an already aborted
\* signal is handed to the first request, and there is never a second.
CancelledCallsStop == [][calls' > calls /\ aborted => calls = 0]_vars

\* One budget covers every attempt, every pause and every read, however many
\* attempts there are and whether or not the transport settles.  Past the
\* deadline at most two late timers are left: the attempt's and an empty pause.
Punctual == now <= Timeout + 2 * Lag

\* The clock and the service are treated as the documentation promises: inside
\* one budget, with the waits that were asked for, and nothing more once the
\* budget is spent or the caller has cancelled.
SendsWhenItMay ==
  /\ []Punctual
  /\ RetriesAreSpaced
  /\ NothingLeavesLate
  /\ CancelledCallsStop

-----------------------------------------------------------------------------
(* Liveness: every call settles, whatever the transport does.               *)

Settles == <>(pc = "done")

-----------------------------------------------------------------------------
(* Refinement: send() keeps the promise CheckIn states.                     *)

Promise == INSTANCE CheckIn WITH
  Limit     <- Attempts,
  Replies   <- Answer,
  Final     <- [status : {"final"}, asks : Asks],
  Failures  <- Reasons \ {"aborted"},
  Nothing   <- NoAnswer,
  requests  <- calls,
  open      <- pc \in {"dispatched", "reading"},
  heard     <- IF settled.reason = "answered" THEN settled.answer ELSE answered,
  cancelled <- aborted,
  verdict   <- [reason |-> result.reason, answer |-> result.answer]

KeepsPromise == Promise!Spec

-----------------------------------------------------------------------------
(* What src/README.md says and the code does not do.                        *)

\* "When the budget runs out after the server has already answered with a 5xx,
\* that answer is what comes back ... rather than a timeout."  The code keeps
\* only a 503 that stated a wait, or an answer the budget ran out on between
\* two attempts; the deadline of a retry that hangs is reported as a timeout.
ServerErrorOutlivesBudget ==
  result.reason = "timeout" => answered = NoAnswer

=============================================================================
