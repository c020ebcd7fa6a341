------------------------- MODULE TransportProofs -------------------------
(***************************************************************************)
(* What send() guarantees for every timeout, retry count, delay and lag.   *)
(* IInv is the inductive invariant: it says where the counter stands, who  *)
(* may have stopped an attempt, and when the armed timer is due at each    *)
(* point where send() is suspended.                                        *)
(*                                                                         *)
(* Behind it, what is read without keeping a state, a Retry-After first    *)
(* among it: what sync and the client make of a definition, the adapters   *)
(* of a schedule, the names of an environment.                             *)
(***************************************************************************)
EXTENDS Transport, Cases, TLAPS

\* The loop's counter at each point of suspension.
CounterInv ==
  /\ pc = "start" => attempt = 0 /\ calls = 0
  /\ pc \notin {"start", "done"} => attempt >= 1 /\ calls = attempt
  /\ pc = "waiting" => attempt < Attempts
  /\ pc = "done" => calls >= 1

\* Who stopped the attempt, and where an abort may have been signalled.
StopInv ==
  /\ aborted <=> abortedIn # "never"
  /\ pc \in {"dispatched", "reading"} =>
       stoppedBy = (IF aborted THEN "caller" ELSE "nobody")
  /\ pc = "start" => abortedIn \in {"never", "start"}
  /\ pc \in {"dispatched", "reading"} =>
       abortedIn \in {"never", "start", "dispatched", "reading"}
  /\ pc = "settled" =>
       /\ settled.reason # "none"
       /\ abortedIn # "waiting"
       /\ abortedIn \in {"start", "dispatched", "reading"}
            => settled.reason \in {"aborted", "unexpected"}
       /\ settled.reason = "aborted" => aborted
  /\ pc = "waiting" => abortedIn \in {"never", "settled", "waiting"}
  /\ pc # "done" => result.reason = "none" /\ result.answer = NoAnswer

\* What the loop holds of the answers it has read and retried.
HeldInv ==
  /\ pc = "reading" => head \in Answer
  /\ settled.reason = "answered" => settled.answer \in Answer
  /\ settled.reason # "answered" => settled.answer = NoAnswer
  /\ answered # NoAnswer => IsServerError(answered)
  /\ pc \notin {"settled", "done"} /\ settled.reason = "answered"
       => settled.answer = answered
  /\ stated # NoAnswer => stated = answered
  /\ pc = "waiting" => /\ settled.reason \in {"answered", "network-error"}
                       /\ pause = Owed(settled)
  /\ pc # "done" => settledAt <= now

\* When the armed timer is due, and how far past it the clock can be.
TimerInv ==
  /\ pc = "start" => now = 0 /\ due = 0
  /\ pc \in {"dispatched", "reading", "settled"} => due = Timeout /\ now <= due + Lag
  /\ pc = "waiting" => /\ due <= Timeout + Lag /\ now <= due + Lag
                       /\ due >= settledAt + pause \/ due >= Timeout
  /\ pc = "done" => now <= Timeout + 2 * Lag

IInv ==
  /\ TypeOK
  /\ CounterInv
  /\ StopInv
  /\ HeldInv
  /\ TimerInv
  /\ pc = "done" => WhatHappenedIsReported

-----------------------------------------------------------------------------
\* The pause after any settlement the loop retries is the one the service is
\* owed, and it is a natural number.
LEMMA PauseIsOwed ==
  /\ Floor \in Nat /\ Cap \in Nat /\ Floor <= Cap
  /\ \A a \in Answer : DelayAfter(a) \in Nat /\ DelayAfter(a) = Owed(Answered(a))
  /\ Owed(Failed("network-error")) = Floor
<1>1. Floor \in Nat /\ Cap \in Nat /\ Floor <= Cap
  BY DelayAssumption
<1>2. ASSUME NEW a \in Answer
      PROVE  DelayAfter(a) \in Nat /\ DelayAfter(a) = Owed(Answered(a))
  <2>1. a.asks \in Nat
    BY AsksAssumption DEF Answer
  <2> QED
    BY <1>1, <2>1 DEF DelayAfter, Owed, Answered, LeastOf, GreatestOf
<1>3. Owed(Failed("network-error")) = Floor
  BY DEF Owed, Failed
<1> QED
  BY <1>1, <1>2, <1>3

\* No server answer is the absence of one.
LEMMA AnswersAreSomething == NoAnswer \notin Answer
BY DEF NoAnswer, Answer, Statuses

\* The call starts inside the invariant.
THEOREM InitIInv == Init => IInv
<1> SUFFICES ASSUME Init PROVE IInv
  OBVIOUS
<1>1. TypeOK
  <2>1. settled \in [reason : Reasons \cup {"none", "answered"},
                     answer : Answer \cup {NoAnswer}]
    BY DEF Init, Unsettled
  <2>2. result \in [reason : Reasons \cup {"none", "answered"},
                    answer : Answer \cup {NoAnswer}, attempts : 0..Attempts]
    BY AttemptsAssumption DEF Init
  <2> QED
    BY <2>1, <2>2, AttemptsAssumption, DelayAssumption DEF Init, TypeOK
<1>2. CounterInv /\ StopInv /\ HeldInv /\ TimerInv
  BY DEF Init, Unsettled, CounterInv, StopInv, HeldInv, TimerInv
<1>3. pc # "done"
  BY DEF Init
<1> QED
  BY <1>1, <1>2, <1>3 DEF IInv

\* Handing a request to the transport keeps the invariant.
LEMMA DispatchKeeps ==
  ASSUME IInv, pc = "start" \/ (pc = "waiting" /\ ~aborted), Dispatch
  PROVE  IInv'
<1>1. /\ pc' = "dispatched" /\ attempt < Attempts /\ attempt' = attempt + 1
      /\ calls = attempt /\ calls' = calls + 1
  BY AttemptsAssumption DEF Dispatch, IInv, CounterInv, TypeOK
<1>2. TypeOK'
  BY <1>1, TimeoutAssumption, AttemptsAssumption DEF Dispatch, Budget, held, IInv, TypeOK
<1>3. CounterInv'
  BY <1>1 DEF CounterInv, IInv, TypeOK
<1>4. StopInv'
  BY <1>1 DEF Dispatch, IInv, StopInv
<1>5. HeldInv'
  BY <1>1 DEF Dispatch, held, IInv, HeldInv, TypeOK, TimerInv
<1>6. TimerInv'
  BY <1>1, TimeoutAssumption, LagAssumption
     DEF Dispatch, Budget, IInv, TimerInv, TypeOK
<1> QED
  BY <1>1, <1>2, <1>3, <1>4, <1>5, <1>6 DEF IInv

\* Ending the call for want of budget keeps it, the request it un-counts included.
LEMMA OutOfBudgetKeeps ==
  ASSUME IInv, pc = "waiting", ~aborted, OutOfBudget
  PROVE  IInv'
BY TimeoutAssumption, AttemptsAssumption, LagAssumption, AnswersAreSomething
   DEF OutOfBudget, Budget, held, IInv, TypeOK, CounterInv, StopInv, HeldInv, TimerInv,
       Finish, Failed, Answered, Reasons, WhatHappenedIsReported, CancellationIsReported, BlameIsEarned,
       StatedAnswerSurvives, AttemptsAreRequests

\* So does a wait that wakes on the caller's abort.
LEMMA WakeAbortedKeeps ==
  ASSUME IInv, WakeAborted
  PROVE  IInv'
BY TimeoutAssumption, AttemptsAssumption, LagAssumption
   DEF WakeAborted, held, IInv, TypeOK, CounterInv, StopInv, HeldInv, TimerInv,
       Finish, Failed, Reasons, NoAnswer, WhatHappenedIsReported, CancellationIsReported, BlameIsEarned,
       StatedAnswerSurvives, AttemptsAreRequests

\* What an attempt may settle with.
Outcomes == [reason : {"answered"}, answer : Answer]
              \cup [reason : Reasons, answer : {NoAnswer}]

\* An attempt that settles leaves the loop where IInv wants it, provided what it
\* settled with is well formed and honest about a cancellation.
LEMMA SettleKeeps ==
  ASSUME IInv, pc \in {"dispatched", "reading"}, NEW outcome, Settle(outcome),
         outcome \in Outcomes,
         aborted => outcome.reason \in {"aborted", "unexpected"},
         outcome.reason = "aborted" => aborted,
         stoppedBy' \in {"nobody", "caller", "deadline"}
  PROVE  IInv'
<1>1. pc' = "settled" /\ settled' = outcome /\ settledAt' = now
  BY DEF Settle
<1>2. TypeOK'
  BY <1>1 DEF Settle, held, IInv, TypeOK, Outcomes
<1>3. CounterInv'
  BY <1>1 DEF Settle, IInv, CounterInv
<1>4. StopInv'
  BY <1>1 DEF Settle, IInv, StopInv, Outcomes, Reasons
<1>5. HeldInv'
  BY <1>1 DEF Settle, held, IInv, HeldInv, TypeOK, Outcomes, Reasons
<1>6. TimerInv'
  BY <1>1 DEF Settle, IInv, TimerInv
<1> QED
  BY <1>1, <1>2, <1>3, <1>4, <1>5, <1>6 DEF IInv

\* No step inside an attempt breaks the invariant.
LEMMA AttemptKeeps ==
  ASSUME IInv, FetchRejects \/ HeadArrives \/ NotAResponse \/ BodyRead \/ DeadlineFires
  PROVE  IInv'
<1>1. CASE FetchRejects
  <2> DEFINE outcome == IF stoppedBy = "nobody" THEN Failed("network-error")
                        ELSE GaveUp(stoppedBy)
  <2>1. /\ outcome \in Outcomes
        /\ aborted => outcome.reason = "aborted"
        /\ outcome.reason = "aborted" => aborted
    BY <1>1 DEF FetchRejects, IInv, StopInv, GaveUp, Failed, Outcomes, Reasons
  <2>2. Settle(outcome) /\ pc = "dispatched" /\ stoppedBy' = stoppedBy
    BY <1>1 DEF FetchRejects
  <2>3. stoppedBy' \in {"nobody", "caller", "deadline"}
    BY <2>2 DEF IInv, TypeOK
  <2> HIDE DEF outcome
  <2> QED
    BY <2>1, <2>2, <2>3, SettleKeeps
<1>2. CASE HeadArrives
  BY <1>2 DEF HeadArrives, held, IInv, TypeOK, CounterInv, StopInv, HeldInv, TimerInv
<1>3. CASE NotAResponse
  <2>1. /\ Failed("unexpected") \in Outcomes
        /\ Failed("unexpected").reason = "unexpected"
    BY DEF Failed, Outcomes, Reasons
  <2>2. Settle(Failed("unexpected")) /\ pc = "dispatched" /\ stoppedBy' = stoppedBy
    BY <1>3 DEF NotAResponse
  <2>3. stoppedBy' \in {"nobody", "caller", "deadline"}
    BY <2>2 DEF IInv, TypeOK
  <2> QED
    BY <2>1, <2>2, <2>3, SettleKeeps
<1>4. CASE BodyRead
  <2>1. /\ ReadOutcome \in Outcomes
        /\ aborted => ReadOutcome.reason = "aborted"
        /\ ReadOutcome.reason = "aborted" => aborted
    BY <1>4 DEF BodyRead, ReadOutcome, IInv, StopInv, HeldInv, GaveUp, Failed, Answered,
           Outcomes, Reasons
  <2>2. Settle(ReadOutcome) /\ pc = "reading" /\ stoppedBy' = stoppedBy
    BY <1>4 DEF BodyRead
  <2>3. stoppedBy' \in {"nobody", "caller", "deadline"}
    BY <2>2 DEF IInv, TypeOK
  <2> QED
    BY <2>1, <2>2, <2>3, SettleKeeps
<1>5. CASE DeadlineFires
  <2> DEFINE outcome == IF pc = "reading" /\ stoppedBy' = "deadline" /\ IsServerError(head)
                          THEN Answered(head) ELSE GaveUp(stoppedBy')
  <2>1. /\ Settle(outcome)
        /\ pc \in {"dispatched", "reading"}
        /\ stoppedBy' = (IF stoppedBy = "nobody" THEN "deadline" ELSE stoppedBy)
    BY <1>5 DEF DeadlineFires, Awaiting
  <2>2. stoppedBy' = (IF aborted THEN "caller" ELSE "deadline")
    BY <2>1 DEF IInv, StopInv
  <2>3. /\ outcome \in Outcomes
        /\ aborted => outcome.reason = "aborted"
        /\ outcome.reason = "aborted" => aborted
    BY <2>2 DEF IInv, HeldInv, GaveUp, Failed, Answered, Outcomes, Reasons
  <2>4. stoppedBy' \in {"nobody", "caller", "deadline"}
    BY <2>2
  <2> HIDE DEF outcome
  <2> QED
    BY <2>1, <2>3, <2>4, SettleKeeps
<1> QED
  BY <1>1, <1>2, <1>3, <1>4, <1>5

\* A step that ends the call keeps IInv when it reports what happened.
LEMMA FinishKeeps ==
  ASSUME IInv, pc = "settled", NEW outcome, NEW n \in 0..Attempts, Finish(outcome, n),
         outcome.reason \in Reasons \cup {"answered"},
         outcome.answer \in Answer \cup {NoAnswer},
         attempt' = attempt, calls' = calls, now' = now, due' = due,
         settled' = settled, settledAt' = settledAt, stoppedBy' = stoppedBy,
         head' = head, aborted' = aborted, abortedIn' = abortedIn,
         answered' \in Answer \cup {NoAnswer}, pause' \in Nat,
         stated' \in {NoAnswer, answered'},
         answered' # NoAnswer => IsServerError(answered'), WhatHappenedIsReported'
  PROVE  IInv'
<1>1. /\ pc' = "done"
      /\ result' = [reason |-> outcome.reason, answer |-> outcome.answer, attempts |-> n]
  BY DEF Finish
<1>2. TypeOK'
  BY <1>1 DEF IInv, TypeOK
<1>3. CounterInv' /\ StopInv' /\ HeldInv'
  BY <1>1 DEF IInv, CounterInv, StopInv, HeldInv, TypeOK
<1>4. TimerInv'
  BY <1>1, TimeoutAssumption, LagAssumption DEF IInv, TimerInv, TypeOK
<1> QED
  BY <1>1, <1>2, <1>3, <1>4 DEF IInv

\* The head of the loop: the answer in hand is returned, or a pause the service
\* is owed is armed.
LEMMA PauseKeeps ==
  ASSUME IInv, pc = "settled", MayRetry,
         PauseOrReturn(pause', stated'),
         settled.reason \in {"answered", "network-error"},
         pause' = Owed(settled), pause' \in Nat,
         answered' \in Answer \cup {NoAnswer}, stated' \in {NoAnswer, answered'},
         answered' # NoAnswer => IsServerError(answered'),
         settled.reason = "answered" => settled.answer = answered',
         UNCHANGED <<now, attempt, settled, aborted, stoppedBy, head, calls,
                     settledAt, abortedIn>>
  PROVE  IInv'
<1>1. CASE stated' # NoAnswer /\ ~aborted /\ pause' >= Budget
  <2>1. Finish(Answered(stated'), attempt) /\ due' = due
    BY <1>1 DEF PauseOrReturn
  <2>2. WhatHappenedIsReported'
    BY <1>1, <2>1 DEF Finish, Answered, IInv, StopInv, CounterInv, WhatHappenedIsReported,
       CancellationIsReported,
       BlameIsEarned, StatedAnswerSurvives, AttemptsAreRequests
  <2>3. Answered(stated').reason = "answered" /\ Answered(stated').answer = stated'
    BY DEF Answered
  <2>4. attempt \in 0..Attempts /\ stated' \in Answer \cup {NoAnswer}
    BY DEF IInv, TypeOK
  <2> QED
    BY <2>1, <2>2, <2>3, <2>4, FinishKeeps
<1>2. CASE ~(stated' # NoAnswer /\ ~aborted /\ pause' >= Budget)
  <2>1. /\ pc' = "waiting"
        /\ due' = now + LeastOf(pause', GreatestOf(0, Budget))
        /\ result' = result
    BY <1>2 DEF PauseOrReturn
  <2>2. now \in Nat /\ Budget = Timeout - now /\ Timeout \in Nat /\ due' \in Nat
        /\ Lag \in Nat
    BY <2>1, TimeoutAssumption, LagAssumption
       DEF IInv, TypeOK, Budget, LeastOf, GreatestOf
  <2>3. TypeOK'
    BY <2>1, <2>2 DEF IInv, TypeOK
  <2>4. CounterInv' /\ StopInv'
    BY <2>1 DEF IInv, TypeOK, CounterInv, StopInv, MayRetry
  <2>5. HeldInv'
    BY <2>1 DEF IInv, HeldInv, Owed
  <2>6. TimerInv'
    <3>1. settledAt \in Nat /\ settledAt <= now /\ now <= Timeout + Lag
      BY DEF IInv, TypeOK, HeldInv, TimerInv
    <3>2. CASE Budget <= 0
      <4>1. due' = now
        BY <3>2, <2>1, <2>2 DEF LeastOf, GreatestOf
      <4> QED
        BY <4>1, <3>1, <3>2, <2>1, <2>2 DEF TimerInv
    <3>3. CASE Budget > 0 /\ pause' <= Budget
      <4>1. due' = now + pause'
        BY <3>3, <2>1, <2>2 DEF LeastOf, GreatestOf
      <4> QED
        BY <4>1, <3>1, <3>3, <2>1, <2>2 DEF TimerInv
    <3>4. CASE Budget > 0 /\ pause' > Budget
      <4>1. due' = Timeout
        BY <3>4, <2>1, <2>2 DEF LeastOf, GreatestOf
      <4> QED
        BY <4>1, <3>1, <3>4, <2>1, <2>2 DEF TimerInv
    <3> QED
      BY <3>2, <3>3, <3>4, <2>2
  <2> QED
    BY <2>1, <2>3, <2>4, <2>5, <2>6 DEF IInv
<1> QED
  BY <1>1, <1>2

\* Nor does the loop taking up what an attempt settled with.
LEMMA ResumeKeeps ==
  ASSUME IInv, Resume
  PROVE  IInv'
<1>0. attempt \in 0..Attempts /\ attempt >= 1 /\ Attempts \in Nat
  BY AttemptsAssumption DEF IInv, TypeOK, CounterInv, Resume, AnswerIsRetried, AnswerIsFinal,
     FailureIsHeld, FailureIsFinal, FailureIsRetried
<1>1. CASE AnswerIsRetried
  <2>1. settled.answer \in Answer /\ settled = Answered(settled.answer)
    BY <1>1 DEF AnswerIsRetried, IInv, HeldInv, TypeOK, Answered
  <2>2. pause' = Owed(settled) /\ pause' \in Nat
    BY <1>1, <2>1, PauseIsOwed DEF AnswerIsRetried
  <2> QED
    BY <1>1, <2>1, <2>2, PauseKeeps DEF AnswerIsRetried
<1>2. CASE FailureIsRetried
  <2>1. settled = Failed("network-error")
    BY <1>2 DEF FailureIsRetried, IInv, HeldInv, TypeOK, Failed
  <2>2. pause' = Owed(settled) /\ pause' \in Nat
    BY <1>2, <2>1, PauseIsOwed DEF FailureIsRetried
  <2>3. /\ answered' \in Answer \cup {NoAnswer}
        /\ answered' # NoAnswer => IsServerError(answered')
    BY <1>2 DEF FailureIsRetried, IInv, TypeOK, HeldInv
  <2> QED
    BY <1>2, <2>2, <2>3, PauseKeeps DEF FailureIsRetried
<1>3. CASE AnswerIsFinal \/ FailureIsFinal
  <2>1. /\ pc = "settled" /\ Finish(settled, attempt)
        /\ settled.reason \in Reasons \cup {"answered"}
        /\ settled.answer \in Answer \cup {NoAnswer}
    BY <1>3 DEF AnswerIsFinal, FailureIsFinal, IInv, TypeOK, Reasons
  <2>2. WhatHappenedIsReported'
    BY <1>3, <2>1 DEF AnswerIsFinal, FailureIsFinal, StatedStands, held, Finish, IInv, StopInv,
       CounterInv, WhatHappenedIsReported, CancellationIsReported, BlameIsEarned, StatedAnswerSurvives,
       AttemptsAreRequests
  <2>3. UNCHANGED <<now, attempt, settled, answered, stated, pause, due, aborted, stoppedBy,
                    head, calls, settledAt, abortedIn>>
    BY <1>3 DEF AnswerIsFinal, FailureIsFinal, held
  <2>4. /\ answered \in Answer \cup {NoAnswer} /\ stated \in {NoAnswer, answered}
        /\ pause \in Nat
        /\ answered # NoAnswer => IsServerError(answered)
    BY DEF IInv, HeldInv, TypeOK
  <2> QED
    BY <1>0, <2>1, <2>2, <2>3, <2>4, FinishKeeps
<1>4. CASE FailureIsHeld
  <2>1. /\ pc = "settled" /\ Finish(Answered(stated), attempt - 1)
        /\ Answered(stated).reason = "answered"
        /\ Answered(stated).answer = stated
        /\ stated \in Answer \cup {NoAnswer}
    BY <1>4 DEF FailureIsHeld, Answered, IInv, TypeOK
  <2>2. UNCHANGED <<now, attempt, settled, answered, stated, pause, due, aborted, stoppedBy,
                    head, calls, settledAt, abortedIn>>
    BY <1>4 DEF FailureIsHeld, held
  <2>3. WhatHappenedIsReported'
    BY <1>4, <2>1, <2>2 DEF FailureIsHeld, StatedStands, Finish, IInv, StopInv, CounterInv,
       WhatHappenedIsReported,
       CancellationIsReported, BlameIsEarned, StatedAnswerSurvives, AttemptsAreRequests
  <2>4. /\ answered \in Answer \cup {NoAnswer} /\ stated \in {NoAnswer, answered}
        /\ pause \in Nat
        /\ answered # NoAnswer => IsServerError(answered)
    BY DEF IInv, HeldInv, TypeOK
  <2>5. attempt - 1 \in 0..Attempts
    BY <1>0
  <2> QED
    BY <2>1, <2>2, <2>3, <2>4, <2>5, FinishKeeps
<1> QED
  BY <1>1, <1>2, <1>3, <1>4 DEF Resume

\* Nor the clock, nor a caller who aborts.
LEMMA EnvironmentKeeps ==
  ASSUME IInv, CallerAborts \/ Tick
  PROVE  IInv'
<1>1. CASE CallerAborts
  <2>1. TypeOK' /\ CounterInv'
    BY <1>1 DEF CallerAborts, held, IInv, TypeOK, CounterInv
  <2>2. StopInv'
    BY <1>1 DEF CallerAborts, IInv, TypeOK, StopInv
  <2>3. HeldInv' /\ TimerInv'
    BY <1>1 DEF CallerAborts, held, IInv, HeldInv, TimerInv, Owed
  <2> QED
    BY <1>1, <2>1, <2>2, <2>3 DEF CallerAborts, IInv
<1>2. CASE Tick
  <2>1. TypeOK' /\ CounterInv' /\ StopInv'
    BY <1>2 DEF Tick, held, IInv, TypeOK, CounterInv, StopInv
  <2>2. HeldInv'
    BY <1>2 DEF Tick, held, IInv, HeldInv, TypeOK, Owed
  <2>3. TimerInv'
    BY <1>2, LagAssumption DEF Tick, held, IInv, TimerInv, TypeOK
  <2> QED
    BY <1>2, <2>1, <2>2, <2>3 DEF Tick, IInv
<1> QED
  BY <1>1, <1>2

\* Nor a step that changes nothing.
LEMMA StutterKeeps ==
  ASSUME IInv, UNCHANGED vars
  PROVE  IInv'
BY DEF vars, held, IInv, TypeOK, CounterInv, StopInv, HeldInv, TimerInv, Owed, WhatHappenedIsReported,
   CancellationIsReported, BlameIsEarned, StatedAnswerSurvives, AttemptsAreRequests

\* The invariant is inductive.
THEOREM StepIInv == IInv /\ [Next]_vars => IInv'
<1> SUFFICES ASSUME IInv, [Next]_vars PROVE IInv'
  OBVIOUS
<1>1. CASE Begin
  BY <1>1, DispatchKeeps DEF Begin
<1>2. CASE Wake
  BY <1>2, DispatchKeeps, OutOfBudgetKeeps, WakeAbortedKeeps DEF Wake, WakeDue, WakeAborted
<1>3. CASE Resume
  BY <1>3, ResumeKeeps
<1>4. CASE FetchRejects \/ HeadArrives \/ NotAResponse \/ BodyRead \/ DeadlineFires
  BY <1>4, AttemptKeeps
<1>5. CASE CallerAborts \/ Tick
  BY <1>5, EnvironmentKeeps
<1>6. CASE Terminated \/ UNCHANGED vars
  BY <1>6, StutterKeeps DEF Terminated
<1> QED
  BY <1>1, <1>2, <1>3, <1>4, <1>5, <1>6 DEF Next

\* Every state of send() satisfies the invariant.
THEOREM Invariance == Spec => []IInv
<1>1. Init => IInv
  BY InitIInv
<1>2. IInv /\ [Next]_vars => IInv'
  BY StepIInv
<1> QED
  BY <1>1, <1>2, PTL DEF Spec

-----------------------------------------------------------------------------
\* The types of the variables, whatever the parameters.
THEOREM TypeCorrect == Spec => []TypeOK
<1>1. IInv => TypeOK
  BY DEF IInv
<1> QED
  BY <1>1, Invariance, PTL

\* What is reported is what happened: the cancellation, wherever it landed, the
\* answer a server stated, and the number of requests that were made.
THEOREM ReportsAreHonest == Spec => []ReportIsHonest
<1>1. IInv => WhatHappenedIsReported
  <2> SUFFICES ASSUME IInv PROVE WhatHappenedIsReported
    OBVIOUS
  <2>1. CASE pc = "done"
    BY <2>1 DEF IInv
  <2>2. CASE pc # "done"
    BY <2>2 DEF IInv, StopInv, WhatHappenedIsReported, CancellationIsReported, BlameIsEarned,
       StatedAnswerSurvives, AttemptsAreRequests
  <2> QED
    BY <2>1, <2>2
<1>2. IInv => ReportIsHonest
  BY <1>1 DEF IInv, ReportIsHonest
<1> QED
  BY <1>2, Invariance, PTL

\* One budget covers the whole call, to within two late timers.
THEOREM BudgetIsKept == Spec => []Punctual
<1>1. IInv => Punctual
  BY TimeoutAssumption, LagAssumption DEF IInv, TypeOK, TimerInv, Punctual
<1> QED
  BY <1>1, Invariance, PTL

\* Only Dispatch hands a request to the transport.
LEMMA OnlyDispatchCalls ==
  ASSUME IInv, [Next]_vars, calls' > calls
  PROVE  /\ Dispatch
         /\ pc = "start" \/ (pc = "waiting" /\ ~aborted /\ now >= due)
<1>1. calls \in Nat
  BY DEF IInv, TypeOK
<1>2. calls' # calls
  BY <1>1
<1> QED
  BY <1>2 DEF Next, vars, Begin, Wake, WakeAborted, WakeDue, OutOfBudget, Resume, AnswerIsRetried,
     AnswerIsFinal, FailureIsHeld, FailureIsFinal, FailureIsRetried, FetchRejects, HeadArrives,
     NotAResponse, BodyRead, DeadlineFires, Settle, CallerAborts, Tick, Terminated

\* No request leaves once the budget is spent.
THEOREM NothingLeavesAfterTheBudget == Spec => NothingLeavesLate
<1>1. IInv /\ [Next]_vars => [calls' > calls => now < Timeout]_vars
  <2> SUFFICES ASSUME IInv, [Next]_vars, calls' > calls PROVE now < Timeout
    OBVIOUS
  <2> QED
    BY OnlyDispatchCalls, TimeoutAssumption DEF Dispatch, Budget, IInv, TypeOK
<1> QED
  BY <1>1, Invariance, PTL DEF Spec, NothingLeavesLate

\* A cancelled call sends no second request.
THEOREM CancelledCallsSendNothing == Spec => CancelledCallsStop
<1>1. IInv /\ [Next]_vars => [calls' > calls /\ aborted => calls = 0]_vars
  <2> SUFFICES ASSUME IInv, [Next]_vars, calls' > calls, aborted PROVE calls = 0
    OBVIOUS
  <2> QED
    BY OnlyDispatchCalls DEF IInv, CounterInv
<1> QED
  BY <1>1, Invariance, PTL DEF Spec, CancelledCallsStop

\* The service is left alone for as long as it is owed, at every retry.
THEOREM ServiceIsLeftAlone == Spec => RetriesAreSpaced
<1>1. IInv /\ [Next]_vars
        => [calls' > calls /\ calls > 0 => now >= settledAt + Owed(settled)]_vars
  <2> SUFFICES ASSUME IInv, [Next]_vars, calls' > calls, calls > 0
               PROVE  now >= settledAt + Owed(settled)
    OBVIOUS
  <2>1. Dispatch /\ pc = "waiting" /\ now >= due
    BY OnlyDispatchCalls DEF IInv, CounterInv, TypeOK
  <2>2. pause = Owed(settled) /\ (due >= settledAt + pause \/ due >= Timeout)
    BY <2>1 DEF IInv, HeldInv, TimerInv
  <2>3. now < Timeout /\ now \in Nat /\ due \in Nat /\ settledAt \in Nat /\ pause \in Nat
        /\ Timeout \in Nat
    BY <2>1, TimeoutAssumption DEF Dispatch, Budget, IInv, TypeOK
  <2> QED
    BY <2>1, <2>2, <2>3
<1> QED
  BY <1>1, Invariance, PTL DEF Spec, RetriesAreSpaced

\* Requests leave inside one budget, as far apart as the service is owed, and
\* none after a cancellation.
THEOREM SendsOnlyWhenItMay == Spec => SendsWhenItMay
BY BudgetIsKept, ServiceIsLeftAlone, NothingLeavesAfterTheBudget, CancelledCallsSendNothing
   DEF SendsWhenItMay

-----------------------------------------------------------------------------
(* send() implements CheckIn: every step maps to one of its steps or to a   *)
(* stutter.                                                                 *)

Heard == IF settled.reason = "answered" THEN settled.answer ELSE answered
Open  == pc \in {"dispatched", "reading"}
Told  == [reason |-> result.reason, answer |-> result.answer]
FinalAnswers == [status : {"final"}, asks : Asks]

\* What the mapped variables are while the call is pending.
LEMMA MappedPending ==
  ASSUME IInv, pc # "done"
  PROVE  /\ Told = Promise!Pending
         /\ pc # "settled" => Heard = answered /\ Heard \notin FinalAnswers
BY DEF IInv, StopInv, HeldInv, Told, Heard, FinalAnswers, IsServerError, NoAnswer,
   Promise!Pending, Promise!Verdict

\* A request leaves only while no final answer has been heard, and a second one
\* only while nothing has been cancelled.
LEMMA DispatchSends ==
  ASSUME IInv, pc = "start" \/ (pc = "waiting" /\ ~aborted), Dispatch
  PROVE  Promise!Send
<1>1. Told = Promise!Pending /\ Heard \notin FinalAnswers
  BY MappedPending
<1>2. ~Open /\ Open' /\ UNCHANGED <<Heard, aborted, Told>>
  BY DEF Dispatch, held, Open, Heard, Told
<1>3. calls < Attempts /\ (calls = 0 \/ ~aborted) /\ calls' = calls + 1
  BY AttemptsAssumption DEF Dispatch, IInv, CounterInv, TypeOK
<1> QED
  BY <1>1, <1>2, <1>3 DEF Promise!Send, Heard, Open, Told, FinalAnswers

\* Ending the call concludes it, with an answer heard or with a failure that no
\* final answer contradicts.
LEMMA FinishConcludes ==
  ASSUME IInv, pc \in {"waiting", "settled"}, NEW outcome, NEW n, Finish(outcome, n),
         UNCHANGED <<calls, settled, aborted>>, Heard' = Heard,
         \/ outcome = Answered(Heard) /\ Heard # NoAnswer
         \/ /\ Heard \notin FinalAnswers
            /\ \E r \in Reasons : outcome = Failed(r) /\ (r = "aborted" => aborted)
  PROVE  Promise!Conclude
<1>1. Told = Promise!Pending
  BY MappedPending
<1>2. Told' = [reason |-> outcome.reason, answer |-> outcome.answer]
  BY DEF Finish, Told
<1>3. ~Open /\ ~Open' /\ calls > 0
  BY DEF Finish, Open, IInv, CounterInv, TypeOK
<1>4. \/ Heard # NoAnswer /\ Told' = Promise!Verdict("answered", Heard)
      \/ Heard \notin FinalAnswers
           /\ \E f \in Reasons \ {"aborted"} : Told' = Promise!Verdict(f, NoAnswer)
      \/ Heard \notin FinalAnswers /\ aborted /\ Told' = Promise!Verdict("aborted", NoAnswer)
  BY <1>2 DEF Promise!Verdict, Answered, Failed
<1> QED
  BY <1>1, <1>3, <1>4 DEF Promise!Conclude, Heard, Open, Told, FinalAnswers

\* An attempt that settles closes the request: it was answered or it was lost.
LEMMA SettleCloses ==
  ASSUME IInv, pc \in {"dispatched", "reading"}, NEW outcome \in Outcomes, Settle(outcome)
  PROVE  Promise!Hear \/ Promise!Lose
<1>1. Open /\ ~Open' /\ UNCHANGED <<calls, aborted, Told>>
  BY DEF Settle, Open, Told
<1>2. CASE outcome.reason = "answered"
  <2>1. Heard' = outcome.answer /\ outcome.answer \in Answer
    BY <1>2 DEF Settle, Heard, Outcomes, Reasons
  <2> QED
    BY <1>1, <2>1 DEF Promise!Hear, Heard, Open, Told
<1>3. CASE outcome.reason # "answered"
  <2>1. Heard' = answered /\ answered = Heard
    BY <1>3, MappedPending DEF Settle, held, Heard
  <2> QED
    BY <1>1, <2>1 DEF Promise!Lose, Heard, Open, Told
<1> QED
  BY <1>2, <1>3

\* A call that has not begun promises what CheckIn's initial state does.
THEOREM InitPromise == Init => Promise!Init
BY DEF Init, Unsettled, Promise!Init, Promise!Pending, Promise!Verdict

\* The mapped variables do not move: a stutter of CheckIn.
LEMMA Stutters ==
  ASSUME UNCHANGED <<calls, aborted, Heard, Open, Told>>
  PROVE  UNCHANGED Promise!vars
BY DEF Promise!vars, Heard, Open, Told

\* Every step of send() is, seen from outside, a step of CheckIn or no step:
\* it is told how to end only by something it heard, and settles as told.
THEOREM StepPromise == IInv /\ [Next]_vars => [Promise!Next]_(Promise!vars)
<1> SUFFICES ASSUME IInv, [Next]_vars PROVE [Promise!Next]_(Promise!vars)
  OBVIOUS
<1> USE DEF Promise!Next
<1>1. CASE Begin
  BY <1>1, DispatchSends DEF Begin
<1>2. CASE WakeDue
  <2>1. CASE Dispatch
    BY <1>2, <2>1, DispatchSends DEF WakeDue
  <2>2. CASE OutOfBudget
    <3>1. Heard = answered /\ Heard \notin FinalAnswers /\ Heard' = Heard
      BY <1>2, <2>2, MappedPending DEF WakeDue, OutOfBudget, held, Heard
    <3>2. CASE answered # NoAnswer /\ ~aborted
      BY <1>2, <2>2, <3>1, <3>2, FinishConcludes DEF WakeDue, OutOfBudget
    <3>3. CASE ~(answered # NoAnswer /\ ~aborted)
      BY <1>2, <2>2, <3>1, <3>3, FinishConcludes DEF WakeDue, OutOfBudget, Reasons
    <3> QED
      BY <3>2, <3>3
  <2> QED
    BY <1>2, <2>1, <2>2 DEF WakeDue
<1>3. CASE WakeAborted
  <2>1. Heard \notin FinalAnswers /\ Heard' = Heard
    BY <1>3, MappedPending DEF WakeAborted, held, Heard
  <2> QED
    BY <1>3, <2>1, FinishConcludes DEF WakeAborted, Reasons
<1>4. CASE AnswerIsRetried \/ FailureIsRetried
  <2>1. /\ pc = "settled" /\ PauseOrReturn(pause', stated')
        /\ UNCHANGED <<calls, settled, aborted>>
        /\ Heard' = Heard
        /\ stated' # NoAnswer => stated' = Heard
    BY <1>4 DEF AnswerIsRetried, FailureIsRetried, Heard
  <2>2. CASE stated' # NoAnswer /\ ~aborted /\ pause' >= Budget
    <3>1. Finish(Answered(Heard), attempt) /\ Heard # NoAnswer
      BY <2>1, <2>2 DEF PauseOrReturn
    <3> QED
      BY <2>1, <3>1, FinishConcludes
  <2>3. CASE ~(stated' # NoAnswer /\ ~aborted /\ pause' >= Budget)
    <3>1. pc' = "waiting" /\ result' = result
      BY <2>1, <2>3 DEF PauseOrReturn
    <3>2. UNCHANGED <<Open, Told>>
      BY <2>1, <3>1 DEF Open, Told
    <3> QED
      BY <2>1, <3>2, Stutters
  <2> QED
    BY <2>2, <2>3
<1>5. CASE AnswerIsFinal
  <2>1. /\ settled = Answered(Heard) /\ Heard # NoAnswer
        /\ Heard' = Heard
    BY <1>5, AnswersAreSomething DEF AnswerIsFinal, held, Heard, Answered, IInv, HeldInv, TypeOK
  <2> QED
    BY <1>5, <2>1, FinishConcludes DEF AnswerIsFinal
<1>6. CASE FailureIsHeld
  <2>1. Heard = answered /\ stated = answered /\ stated # NoAnswer /\ Heard' = Heard
    BY <1>6 DEF FailureIsHeld, StatedStands, held, Heard, IInv, HeldInv
  <2> QED
    BY <1>6, <2>1, FinishConcludes DEF FailureIsHeld
<1>7. CASE FailureIsFinal
  <2>1. Heard = answered /\ Heard' = Heard /\ Heard \notin FinalAnswers
    BY <1>7 DEF FailureIsFinal, held, Heard, Reasons, IInv, HeldInv, FinalAnswers,
       IsServerError, NoAnswer
  <2>2. /\ settled.reason \in Reasons /\ settled = Failed(settled.reason)
        /\ settled.reason = "aborted" => aborted
    BY <1>7 DEF FailureIsFinal, Failed, Reasons, IInv, HeldInv, StopInv, TypeOK
  <2> QED
    BY <1>7, <2>1, <2>2, FinishConcludes DEF FailureIsFinal
<1>8. CASE FetchRejects \/ NotAResponse \/ BodyRead \/ DeadlineFires
  <2>1. PICK outcome \in Outcomes : Settle(outcome)
    BY <1>8 DEF FetchRejects, NotAResponse, BodyRead, ReadOutcome, DeadlineFires, Outcomes,
       GaveUp, Failed, Answered, Reasons, IInv, HeldInv
  <2> QED
    BY <1>8, <2>1, SettleCloses
       DEF FetchRejects, NotAResponse, BodyRead, DeadlineFires, Awaiting
<1>9. CASE HeadArrives \/ Tick \/ Terminated \/ UNCHANGED vars
  <2>1. UNCHANGED <<calls, aborted, Heard, Open, Told>>
    BY <1>9 DEF HeadArrives, Tick, Terminated, vars, held, Heard, Open, Told
  <2> QED
    BY <2>1, Stutters
<1>10. CASE CallerAborts
  <2>1. /\ Told = Promise!Pending /\ aborted' = TRUE
        /\ UNCHANGED <<calls, Heard, Open, Told>>
    BY <1>10, MappedPending DEF CallerAborts, held, Heard, Open, Told
  <2>2. Promise!Cancel
    BY <2>1 DEF Promise!Cancel, Heard, Open, Told
  <2> QED
    BY <2>2
<1> QED
  BY <1>1, <1>2, <1>3, <1>4, <1>5, <1>6, <1>7, <1>8, <1>9, <1>10 DEF Next, Wake, Resume

\* Whatever the parameters, the network and the caller do, send() behaves as
\* CheckIn allows: one request at a time, none after a final answer or a
\* cancellation, and one conclusion that is an answer heard or an honest failure.
THEOREM SendKeepsItsPromise == Spec => KeepsPromise
<1>1. Init => Promise!Init
  BY InitPromise
<1>2. IInv /\ [Next]_vars => [Promise!Next]_(Promise!vars)
  BY StepPromise
<1> QED
  BY <1>1, <1>2, Invariance, PTL DEF Spec, KeepsPromise, Promise!Spec

-----------------------------------------------------------------------------
(* Readings: an answer is what the code says to the question.               *)

AnswersAre ==
  /\ Asked("definition") => asked.it \in MonitorDefinitions /\ answer = Defined(asked.it)
  /\ Asked("channel") => asked.it \in ChannelRequests
                         /\ answer = ChannelBodyFrom(asked.it.kind, asked.it.label, asked.it.given)
  /\ Asked("page") => asked.it \in Pages /\ answer = PageFrom(asked.it.listing, asked.it.page, asked.it.rows)
  /\ Asked("jobs") => asked.it \in Registries /\ answer = AttachAll(asked.it)
  /\ Asked("wiring") =>
       /\ asked.it.given \in Givens
       /\ asked.it.adapter \in {"croner", "cron", "node-schedule", "node-cron", "nestjs"}
       /\ Givable(asked.it.adapter, asked.it.given)
       /\ answer = [wires   |-> Wires(FactsOf(asked.it.adapter, asked.it.given), TRUE),
                    advises |-> AdvisesOnZone(FactsOf(asked.it.adapter, asked.it.given))]
  /\ Asked("environment") =>
       asked.it \in Environments /\ answer = ConfiguredMonitors(Variables, asked.it)
  /\ Asked("repeats") => asked.it \in NameLists /\ answer = Repeats(asked.it)
  /\ Asked("date") =>
       /\ asked.it \in Dates
       /\ answer = [form \in {"fixdate", "asctime", "rfc850"} |->
                      ParseRetryAfter(Spelled(asked.it, form), <<Now.day, Now.second>>, Now.year)]

LEMMA NothingIsAnswered == asked = Nothing => AnswersAre
  BY DEF Nothing, Asked, AnswersAre

\* The other parts of AnswersAre speak of other questions.
LEMMA AskedOnce ==
  ASSUME NEW of, NEW question, NEW said, Ask(of, question, said)
  PROVE  asked'.of = of /\ asked'.it = question /\ answer' = said
  BY DEF Ask

LEMMA AnswersStay == AnswersAre /\ [CaseNext]_caseVars => AnswersAre'
<1> SUFFICES ASSUME AnswersAre, [CaseNext]_caseVars PROVE AnswersAre'
  OBVIOUS
<1>1. CASE AskDefinition
  <2>1. PICK d \in MonitorDefinitions : Ask("definition", d, Defined(d))
    BY <1>1 DEF AskDefinition
  <2>2. asked'.of = "definition" /\ asked'.it = d /\ answer' = Defined(d)
    BY <2>1, AskedOnce
  <2> QED
    BY <2>2 DEF AnswersAre, Asked
<1>2. CASE AskChannel
  <2>1. PICK r \in ChannelRequests : Ask("channel", r, ChannelBodyFrom(r.kind, r.label, r.given))
    BY <1>2 DEF AskChannel
  <2>2. asked'.of = "channel" /\ asked'.it = r /\ answer' = ChannelBodyFrom(r.kind, r.label, r.given)
    BY <2>1, AskedOnce
  <2> QED
    BY <2>2 DEF AnswersAre, Asked
<1>3. CASE AskPage
  <2>1. PICK p \in Pages : Ask("page", p, PageFrom(p.listing, p.page, p.rows))
    BY <1>3 DEF AskPage
  <2>2. asked'.of = "page" /\ asked'.it = p /\ answer' = PageFrom(p.listing, p.page, p.rows)
    BY <2>1, AskedOnce
  <2> QED
    BY <2>2 DEF AnswersAre, Asked
<1>4. CASE AskJobs
  <2>1. PICK jobs \in Registries : Ask("jobs", jobs, AttachAll(jobs))
    BY <1>4 DEF AskJobs
  <2>2. asked'.of = "jobs" /\ asked'.it = jobs /\ answer' = AttachAll(jobs)
    BY <2>1, AskedOnce
  <2> QED
    BY <2>2 DEF AnswersAre, Asked
<1>5. CASE AskWiring
  <2>1. PICK adapter \in {"croner", "cron", "node-schedule", "node-cron", "nestjs"}, given \in Givens :
          /\ Givable(adapter, given)
          /\ Ask("wiring", [adapter |-> adapter, given |-> given],
                 [wires   |-> Wires(FactsOf(adapter, given), TRUE),
                  advises |-> AdvisesOnZone(FactsOf(adapter, given))])
    BY <1>5 DEF AskWiring
  <2> DEFINE wired == [wires   |-> Wires(FactsOf(adapter, given), TRUE),
                       advises |-> AdvisesOnZone(FactsOf(adapter, given))]
  <2>2. asked'.of = "wiring" /\ asked'.it = [adapter |-> adapter, given |-> given] /\ answer' = wired
    BY <2>1, AskedOnce
  <2>3. asked'.it.adapter = adapter /\ asked'.it.given = given
    BY <2>2
  <2> QED
    BY <2>1, <2>2, <2>3 DEF AnswersAre, Asked
<1>6. CASE AskEnvironment
  <2>1. PICK env \in Environments : Ask("environment", env, ConfiguredMonitors(Variables, env))
    BY <1>6 DEF AskEnvironment
  <2>2. asked'.of = "environment" /\ asked'.it = env /\ answer' = ConfiguredMonitors(Variables, env)
    BY <2>1, AskedOnce
  <2> QED
    BY <2>2 DEF AnswersAre, Asked
<1>7. CASE AskRepeats
  <2>1. PICK names \in NameLists : Ask("repeats", names, Repeats(names))
    BY <1>7 DEF AskRepeats
  <2>2. asked'.of = "repeats" /\ asked'.it = names /\ answer' = Repeats(names)
    BY <2>1, AskedOnce
  <2> QED
    BY <2>2 DEF AnswersAre, Asked
<1>8. CASE AskOutput
  <2>1. PICK out \in Outputs : Ask("output", out, TextOf(Held(ChunksOf(out), out.budget), out.budget))
    BY <1>8 DEF AskOutput
  <2>2. asked'.of = "output"
    BY <2>1, AskedOnce
  <2> QED
    BY <2>2 DEF AnswersAre, Asked
<1>9. CASE AskDate
  <2>1. PICK d \in Dates : Ask("date", d, [form \in {"fixdate", "asctime", "rfc850"} |->
                             ParseRetryAfter(Spelled(d, form), <<Now.day, Now.second>>, Now.year)])
    BY <1>9 DEF AskDate
  <2>2. /\ asked'.of = "date" /\ asked'.it = d
        /\ answer' = [form \in {"fixdate", "asctime", "rfc850"} |->
                        ParseRetryAfter(Spelled(d, form), <<Now.day, Now.second>>, Now.year)]
    BY <2>1, AskedOnce
  <2> QED
    BY <2>2 DEF AnswersAre, Asked
<1>10. CASE Forget
  <2>1. asked'.of = "nothing"
    BY <1>10 DEF Forget, Nothing
  <2> QED
    BY <2>1 DEF AnswersAre, Asked
<1>11. CASE UNCHANGED caseVars
  BY <1>11 DEF caseVars, AnswersAre, Asked
<1> QED
  BY <1>1, <1>2, <1>3, <1>4, <1>5, <1>6, <1>7, <1>8, <1>9, <1>10, <1>11 DEF CaseNext

-----------------------------------------------------------------------------
(* Names and variables.                                                     *)

\* A name that is plain is what the environment says of its variables.
LEMMA PlainIsLookedUp ==
  ASSUME NEW name, NEW env
  PROVE  LET found == ConfiguredIn(env, name)
         IN  ResolveMonitor(name, "plain", "unset", env) =
               (IF found = "id" THEN "ok" ELSE IF found = "junk" THEN "malformed" ELSE "unset")
  BY DEF ResolveMonitor, IsLookedUp, Set

LEMMA ListedResolve ==
  ASSUME AnswersAre, Asked("environment"), NEW i \in answer,
         Screaming(NameOfStem(Variables[i][2])) = Variables[i][2],
         Variables[i][1] = "CRON_MONITOR" => ~Set(asked.it["CRONHEART", Variables[i][2]])
  PROVE  ResolveMonitor(NameOfStem(Variables[i][2]), "plain", "unset", asked.it)
           = (IF asked.it[Variables[i]] = "id" THEN "ok" ELSE "malformed")
<1> DEFINE env  == asked.it
           stem == Variables[i][2]
           name == NameOfStem(stem)
<1>1. i \in DOMAIN Variables /\ Counts(env, Variables[i])
  BY DEF AnswersAre, ConfiguredMonitors
<1>2. Variables[i] = <<Variables[i][1], stem>> /\ Variables[i][1] \in {"CRONHEART", "CRON_MONITOR"}
  BY <1>1, VariablesAssumption
<1>3. env[Variables[i]] \in {"id", "junk"}
  BY <1>1 DEF Counts, Holds
<1>4. ConfiguredIn(env, name) = IF Set(env["CRONHEART", stem]) THEN env["CRONHEART", stem]
                                ELSE env["CRON_MONITOR", stem]
  BY DEF ConfiguredIn, ReadVariable, Legs
<1>5. CASE Variables[i][1] = "CRONHEART"
  <2>1. env["CRONHEART", stem] \in {"id", "junk"} /\ env[Variables[i]] = env["CRONHEART", stem]
    BY <1>2, <1>3, <1>5
  <2>2. ConfiguredIn(env, name) = env[Variables[i]]
    BY <1>4, <2>1 DEF Set
  <2> QED
    BY <1>3, <2>2, PlainIsLookedUp
<1>6. CASE Variables[i][1] = "CRON_MONITOR"
  <2>1. env[Variables[i]] = env["CRON_MONITOR", stem]
    BY <1>2, <1>6
  <2>2. ConfiguredIn(env, name) = env[Variables[i]]
    BY <1>4, <1>6, <2>1
  <2> QED
    BY <1>3, <2>2, PlainIsLookedUp
<1> QED
  BY <1>2, <1>5, <1>6

\* Where doctor answers 0, every variable that holds something holds an id.
LEMMA DoctorIsContent ==
  ASSUME NEW env, DoctorStatus(Variables, env, FALSE, TRUE) = 0,
         NEW i \in ConfiguredMonitors(Variables, env)
  PROVE  env[Variables[i]] = "id"
<1>1. ConfiguredMonitors(Variables, env) = ResolvedMonitors(Variables, env)
  BY DEF DoctorStatus
<1> QED
  BY <1>1 DEF ResolvedMonitors

LEMMA BrokenIsNotLookedUp ==
  ASSUME NEW name, NEW env
  PROVE  ResolveMonitor(name, "broken", "unset", env) = "malformed"
  BY DEF ResolveMonitor, IsLookedUp, Set

LEMMA NamesAreFound ==
  ASSUME AnswersAre PROVE ListedNamesResolve
<1> SUFFICES ASSUME Asked("environment") PROVE ListedNamesResolve
  BY DEF ListedNamesResolve
<1>1. \A i \in answer :
        /\ Screaming(NameOfStem(Variables[i][2])) = Variables[i][2]
        /\ Variables[i][1] = "CRON_MONITOR" => ~Set(asked.it["CRONHEART", Variables[i][2]])
        => ResolveMonitor(NameOfStem(Variables[i][2]), "plain", "unset", asked.it)
             = (IF asked.it[Variables[i]] = "id" THEN "ok" ELSE "malformed")
  BY ListedResolve
<1>2. \A n \in Names : ResolveMonitor(n.name, "broken", "unset", asked.it) = "malformed"
  BY BrokenIsNotLookedUp
<1>3. answer = ConfiguredMonitors(Variables, asked.it)
  BY DEF AnswersAre
<1>4. DoctorStatus(Variables, asked.it, FALSE, TRUE) = 0 => \A i \in answer : asked.it[Variables[i]] = "id"
  BY <1>3, DoctorIsContent
<1> QED
  BY <1>1, <1>2, <1>4 DEF ListedNamesResolve

\* What is set for one name is read for no other.
LEMMA NamesAreTheirOwn ==
  ASSUME AnswersAre PROVE NamesAreAddressable
<1> SUFFICES ASSUME Asked("repeats"), ~answer,
                    NEW i \in DOMAIN asked.it, NEW k \in DOMAIN asked.it, NEW leg \in {1, 2}
             PROVE  LET one == [v \in {Legs[1], Legs[2]} \X {Screaming(asked.it[n]) : n \in DOMAIN asked.it} |->
                                  IF v = <<Legs[leg], Screaming(asked.it[i])>> THEN "id" ELSE "unset"]
                    IN  ResolveMonitor(asked.it[k], "plain", "unset", one) = (IF k = i THEN "ok" ELSE "unset")
  BY DEF NamesAreAddressable
<1> DEFINE stems == {Screaming(asked.it[n]) : n \in DOMAIN asked.it}
           at    == Screaming(asked.it[k])
           set   == Screaming(asked.it[i])
           one   == [v \in {Legs[1], Legs[2]} \X stems |->
                       IF v = <<Legs[leg], set>> THEN "id" ELSE "unset"]
<1>1. at \in stems /\ set \in stems
  OBVIOUS
<1>2. k # i => at # set
  <2>1. answer = Repeats(asked.it)
    BY DEF AnswersAre
  <2> QED
    BY <2>1, Zenon DEF Repeats
<1>3. Legs[1] = "CRONHEART" /\ Legs[2] = "CRON_MONITOR"
  BY DEF Legs
<1> HIDE DEF stems, at, set
<1>4. ConfiguredIn(one, asked.it[k]) = IF Set(one["CRONHEART", at]) THEN one["CRONHEART", at]
                                       ELSE one["CRON_MONITOR", at]
  BY <1>3 DEF ConfiguredIn, ReadVariable, at
<1>5. /\ one["CRONHEART", at] = IF leg = 1 /\ at = set THEN "id" ELSE "unset"
      /\ one["CRON_MONITOR", at] = IF leg = 2 /\ at = set THEN "id" ELSE "unset"
  BY <1>1, <1>3
<1> HIDE DEF one
<1>6. ConfiguredIn(one, asked.it[k]) = IF k = i THEN "id" ELSE "unset"
  BY <1>2, <1>4, <1>5 DEF Set, at, set
<1>7. ResolveMonitor(asked.it[k], "plain", "unset", one) = (IF k = i THEN "ok" ELSE "unset")
  BY <1>6, PlainIsLookedUp
<1> QED
  BY <1>7 DEF one, stems, set

\* A name leads to one monitor, which doctor lists under that name.
THEOREM NamesLeadToOne == CaseSpec => []NamesAgree
<1>1. CaseInit => AnswersAre
  BY NothingIsAnswered DEF CaseInit
<1>2. AnswersAre /\ [CaseNext]_caseVars => AnswersAre'
  BY AnswersStay
<1>3. AnswersAre => NamesAgree
  BY NamesAreFound, NamesAreTheirOwn DEF NamesAgree
<1> QED
  BY <1>1, <1>2, <1>3, PTL DEF CaseSpec

-----------------------------------------------------------------------------
(* The jobs of a scheduler.                                                 *)

LEMMA JobsAddUp ==
  ASSUME AnswersAre PROVE JobsAreAccountedFor
<1> SUFFICES ASSUME Asked("jobs") PROVE JobsAreAccountedFor
  BY DEF JobsAreAccountedFor
<1> DEFINE jobs    == asked.it
           mapped  == JobsThat(jobs, "monitor")
           refused == Survey(jobs).refused
<1>1. answer = AttachAll(jobs) /\ jobs \in Registries
  BY DEF AnswersAre
<1>2. Survey(jobs).mapped = mapped /\ Survey(jobs).unmapped = JobsThat(jobs, "nothing")
      /\ Survey(jobs).covered = DOMAIN jobs \ JobsThat(jobs, "left out")
  BY DEF Survey
<1>3. /\ answer.refused = refused
      /\ answer.monitored = {i \in mapped : ~refused /\ jobs[i].reachable = TRUE}
      /\ answer.unwrapped = {i \in mapped : ~refused /\ jobs[i].reachable = FALSE}
      /\ answer.unmapped = JobsThat(jobs, "nothing")
      /\ answer.covered = DOMAIN jobs \ JobsThat(jobs, "left out")
  BY <1>1, <1>2 DEF AttachAll
<1>4. \A i \in DOMAIN jobs : jobs[i].mapping \in {"monitor", "left out", "nothing"}
                             /\ jobs[i].reachable \in BOOLEAN
  BY <1>1, SchedulesAssumption
<1> HIDE DEF refused
<1>5. CASE answer.refused
  BY <1>3, <1>5 DEF JobsAreAccountedFor
<1>6. CASE ~answer.refused
  <2>1. answer.covered = answer.monitored \cup answer.unwrapped \cup answer.unmapped
    BY <1>3, <1>4, <1>6 DEF JobsThat
  <2>2. \A i \in DOMAIN jobs : jobs[i].mapping = "left out" => i \notin answer.covered
    BY <1>3 DEF JobsThat
  <2>3. ~Actionable(answer) => answer.monitored = answer.covered
    BY <2>1 DEF Actionable
  <2> QED
    BY <1>6, <2>1, <2>2, <2>3 DEF JobsAreAccountedFor
<1> QED
  BY <1>5, <1>6

\* What an adapter knows of a text, and of a zone that was named, is what its
\* scheduler was given.
LEMMA FactsAreGiven ==
  ASSUME NEW adapter \in {"croner", "cron", "node-schedule", "node-cron", "nestjs"},
         NEW given \in Givens, Givable(adapter, given)
  PROVE  LET facts == FactsOf(adapter, given)
         IN  /\ given.shape = "text" => facts.expression = given.expression
             /\ facts.expression \in {given.expression, Absent}
             /\ facts.zone = given.zone
             /\ facts.asksForZone /\ ~facts.offset => ~given.offset
<1>1. given.shape \in {"text", "object", "date"}
  BY SchedulesAssumption
<1>2. CASE adapter = "node-cron"
  BY <1>2 DEF FactsOf, NodeCronFacts, Facts
<1>3. CASE adapter = "croner"
  BY <1>3 DEF FactsOf, CronerFacts, Facts
<1>4. CASE adapter = "cron"
  BY <1>4 DEF FactsOf, CronFacts, Facts
<1>5. CASE adapter = "node-schedule"
  <2>1. ~given.offset /\ (given.shape = "text" => given.zone = Absent)
    BY <1>5 DEF Givable
  <2> QED
    BY <1>1, <1>5, <2>1 DEF FactsOf, NodeScheduleFacts, Facts
<1>6. CASE adapter = "nestjs"
  BY <1>6 DEF FactsOf, NestFacts, CronFacts, Facts
<1> QED
  BY <1>2, <1>3, <1>4, <1>5, <1>6

LEMMA TextsAreTaken ==
  ASSUME NEW text, CronDialectTakes(text) PROVE AssertCron(Trim(text))
BY DEF CronDialectTakes, AssertCron, Bare

LEMMA TextsReadTheSame ==
  ASSUME NEW text, {"as", "word", "padded"} \subseteq DOMAIN text,
         ReadsAsAnHourOfTheDay(text), text.as = "alias"
  PROVE  text.word # "@hourly"
<1>1. Trim(text).as = text.as /\ Trim(text).word = text.word
  BY DEF Trim
<1> QED
  BY <1>1 DEF ReadsAsAnHourOfTheDay

LEMMA WiredAsGiven ==
  ASSUME AnswersAre PROVE SchedulesAreTheSchedulers
<1> SUFFICES ASSUME Asked("wiring") PROVE SchedulesAreTheSchedulers
  BY DEF SchedulesAreTheSchedulers
<1> DEFINE given == asked.it.given
           facts == FactsOf(asked.it.adapter, given)
<1>1. /\ given \in Givens
      /\ asked.it.adapter \in {"croner", "cron", "node-schedule", "node-cron", "nestjs"}
      /\ Givable(asked.it.adapter, given)
      /\ answer.wires = Wires(facts, TRUE)
      /\ answer.advises = AdvisesOnZone(facts)
  <2>1. /\ given \in Givens
        /\ asked.it.adapter \in {"croner", "cron", "node-schedule", "node-cron", "nestjs"}
        /\ Givable(asked.it.adapter, given)
        /\ answer = [wires |-> Wires(facts, TRUE), advises |-> AdvisesOnZone(facts)]
    BY DEF AnswersAre
  <2> HIDE DEF facts, given
  <2> QED
    BY <2>1
<1>2. /\ given.shape = "text" => facts.expression = given.expression
      /\ facts.expression \in {given.expression, Absent}
      /\ facts.zone = given.zone
      /\ facts.asksForZone /\ ~facts.offset => ~given.offset
  BY <1>1, FactsAreGiven
<1>3. given.expression # Absent /\ {"as", "word", "padded"} \subseteq DOMAIN given.expression
  BY <1>1, SchedulesAssumption
<1> HIDE DEF facts, given
<1>4. ASSUME answer.wires, given.shape = "text"
      PROVE  AssertCron(Trim(given.expression)) /\ (given.zone # Absent => NamesAZone(given.zone))
  <2>1. Wires(facts, TRUE)
    BY <1>1, <1>4
  <2>2. CronDialectTakes(given.expression)
    BY <2>1, <1>2, <1>3, <1>4 DEF Wires
  <2> QED
    BY <2>1, <2>2, <1>2, TextsAreTaken DEF Wires
<1>5. ASSUME answer.advises
      PROVE  /\ ~given.offset
             /\ given.zone = Absent
             /\ given.expression.as = "alias" => given.expression.word # "@hourly"
  <2>1. AdvisesOnZone(facts)
    BY <1>1, <1>5
  <2>2. facts.expression = given.expression /\ ReadsAsAnHourOfTheDay(given.expression)
    BY <2>1, <1>2 DEF AdvisesOnZone
  <2> QED
    BY <2>1, <2>2, <1>2, <1>3, TextsReadTheSame DEF AdvisesOnZone
<1> QED
  BY <1>4, <1>5 DEF SchedulesAreTheSchedulers, given

\* Jobs are monitored all or none, and a schedule that is wired is the scheduler's.
THEOREM WiringsAreWhole == CaseSpec => []WiringIsAllOrNothing
<1>1. CaseInit => AnswersAre
  BY NothingIsAnswered DEF CaseInit
<1>2. AnswersAre /\ [CaseNext]_caseVars => AnswersAre'
  BY AnswersStay
<1>3. AnswersAre => WiringIsAllOrNothing
  BY JobsAddUp, WiredAsGiven DEF WiringIsAllOrNothing
<1> QED
  BY <1>1, <1>2, <1>3, PTL DEF CaseSpec

-----------------------------------------------------------------------------
(* The calendar.                                                            *)

LEMMA StartsAreWhole ==
  ASSUME NEW year \in Int, NEW month \in 1..12
  PROVE  YearStart(year) \in Int /\ MonthStart(year, month) \in Int
BY DEF YearStart, MonthStart

LEMMA DaysAreWhole ==
  ASSUME NEW year \in Int, NEW month \in 1..12, NEW day \in Int PROVE DayOf(year, month, day) \in Int
<1>1. YearStart(year) \in Int /\ MonthStart(year, month) \in Int
  BY StartsAreWhole
<1> QED
  BY <1>1 DEF DayOf

\* A month begins where the one before it ends.
LEMMA MonthsFollow ==
  ASSUME NEW year \in Int, NEW month \in 1..11
  PROVE  MonthStart(year, month + 1) = MonthStart(year, month) + MonthLength(year, month)
<1>1. CASE Leap(year)
  BY <1>1 DEF MonthStart, MonthLength
<1>2. CASE ~Leap(year)
  BY <1>2 DEF MonthStart, MonthLength
<1> QED
  BY <1>1, <1>2

\* So does a year.
LEMMA YearsFollow ==
  ASSUME NEW year \in Int
  PROVE  YearStart(year + 1) = YearStart(year) + MonthStart(year, 12) + MonthLength(year, 12)
<1> DEFINE y == year - 1
<1>1. /\ (y + 1) \div 4 = (y \div 4) + (IF year % 4 = 0 THEN 1 ELSE 0)
      /\ (y + 1) \div 100 = (y \div 100) + (IF year % 100 = 0 THEN 1 ELSE 0)
      /\ (y + 1) \div 400 = (y \div 400) + (IF year % 400 = 0 THEN 1 ELSE 0)
  OBVIOUS
<1>2. MonthStart(year, 12) + MonthLength(year, 12) = 365 + IF Leap(year) THEN 1 ELSE 0
  BY DEF MonthStart, MonthLength
<1>3. YearStart(year + 1) = YearStart(year) + 365 + IF Leap(year) THEN 1 ELSE 0
  <2>1. (year % 400 = 0 => year % 100 = 0) /\ (year % 100 = 0 => year % 4 = 0)
    OBVIOUS
  <2>2. /\ y \div 4 \in Int /\ y \div 100 \in Int /\ y \div 400 \in Int
        /\ year + 1 - 1 = y + 1 /\ y + 1 = year
    OBVIOUS
  <2>3. YearStart(year + 1) = 365 * (year + 1 - 1970)
                              + ((y + 1) \div 4 - (y + 1) \div 100 + (y + 1) \div 400) - 477
    BY <2>2 DEF YearStart
  <2>4. YearStart(year) = 365 * (year - 1970) + (y \div 4 - y \div 100 + y \div 400) - 477
    BY DEF YearStart
  <2> HIDE DEF y
  <2> QED
    BY <1>1, <2>1, <2>2, <2>3, <2>4 DEF Leap
<1> QED
  BY <1>2, <1>3, StartsAreWhole DEF MonthLength

LEMMA DaysFollow ==
  ASSUME NEW d \in [year : Int, month : Int, day : Int, second : Int],
         d.month \in 1..12, d.day \in 1..MonthLength(d.year, d.month)
  PROVE  LET next == NextDay(d)
         IN  DayOf(next.year, next.month, next.day) = DayOf(d.year, d.month, d.day) + 1
<1>1. MonthLength(d.year, d.month) \in {28, 29, 30, 31}
  BY DEF MonthLength
<1>2. /\ YearStart(d.year) \in Int /\ MonthStart(d.year, d.month) \in Int
      /\ d.year \in Int /\ d.day \in Int
  BY StartsAreWhole
<1>3. CASE d.day < MonthLength(d.year, d.month)
  <2>1. NextDay(d) = [d EXCEPT !.day = @ + 1]
    BY <1>3 DEF NextDay
  <2>2. NextDay(d).year = d.year /\ NextDay(d).month = d.month /\ NextDay(d).day = d.day + 1
    BY <2>1
  <2> QED
    BY <1>2, <2>2 DEF DayOf
<1>4. CASE d.day = MonthLength(d.year, d.month) /\ d.month < 12
  <2>1. NextDay(d) = [d EXCEPT !.day = 1, !.month = @ + 1]
    BY <1>4 DEF NextDay
  <2>2. NextDay(d).year = d.year /\ NextDay(d).month = d.month + 1 /\ NextDay(d).day = 1
    BY <2>1
  <2>3. MonthStart(d.year, d.month + 1) = MonthStart(d.year, d.month) + d.day
    BY <1>4, MonthsFollow
  <2> QED
    BY <1>2, <2>2, <2>3 DEF DayOf
<1>5. CASE d.day = MonthLength(d.year, d.month) /\ d.month = 12
  <2>1. NextDay(d) = [d EXCEPT !.day = 1, !.month = 1, !.year = @ + 1]
    BY <1>5 DEF NextDay
  <2>2. NextDay(d).year = d.year + 1 /\ NextDay(d).month = 1 /\ NextDay(d).day = 1
    BY <2>1
  <2>3. YearStart(d.year + 1) = YearStart(d.year) + MonthStart(d.year, d.month) + d.day
    BY <1>5, YearsFollow
  <2>4. MonthStart(d.year + 1, 1) = 0
    BY DEF MonthStart
  <2> QED
    BY <1>2, <2>2, <2>3, <2>4 DEF DayOf
<1> QED
  BY <1>1, <1>3, <1>4, <1>5

-----------------------------------------------------------------------------
(* A Retry-After.                                                           *)

Instant == <<Now.day, Now.second>>

LEMMA NowIsANumber == Now.year \in 1949..2049 /\ Now.year \in Int
<1> DEFINE current == Now.year
<1>1. current \in 1949..2049
  BY DatesAssumption
<1> HIDE DEF current
<1>2. current \in Int
  BY <1>1
<1> QED
  BY <1>1, <1>2 DEF current

Read(d, form) == ParseRetryAfter(Spelled(d, form), Instant, Now.year)

\* A year that two digits stand for.
Near(year, current) == year - current \in -49..50

Digits(year) == year % 100

\* The year the header means, whichever form it has.
LEMMA YearsAreMeant ==
  ASSUME NEW year \in Int, NEW current \in 1949..2049, Near(year, current)
  PROVE  FullYear(Digits(year), current) = year
<1> DEFINE digits == Digits(year)
<1>1. current \in Int /\ 1949 <= current /\ current <= 2049
  OBVIOUS
<1>2. year - current >= -49 /\ year - current <= 50
  BY <1>1 DEF Near
<1>3. 1900 <= year /\ year <= 2099
  BY <1>1, <1>2
<1>4. digits = IF year < 2000 THEN year - 1900 ELSE year - 2000
  BY <1>3 DEF Digits
<1> HIDE DEF digits
<1>5. FullYear(digits, current) = IF 2000 + digits - current > 50 THEN 1900 + digits ELSE 2000 + digits
  BY DEF FullYear
<1>6. CASE year < 2000
  <2>1. digits = year - 1900 /\ 2000 + digits - current > 50
    BY <1>1, <1>2, <1>4, <1>6
  <2> QED
    BY <1>5, <2>1 DEF digits
<1>7. CASE year >= 2000
  <2>1. digits = year - 2000 /\ ~(2000 + digits - current > 50)
    BY <1>1, <1>2, <1>4, <1>7
  <2> QED
    BY <1>5, <2>1 DEF digits
<1> QED
  BY <1>6, <1>7

LEMMA SecondsAreWhole ==
  ASSUME NEW day \in Int, NEW second \in Int
  PROVE  /\ SecondsUntil(day, second, Instant) \in Nat
         /\ SecondsUntil(day, second, Instant) > 0 => day >= Now.day
<1>1. Now.day \in Int /\ Now.second \in Int
  BY DatesAssumption
<1>2. Instant[1] = Now.day /\ Instant[2] = Now.second
  BY DEF Instant
<1> QED
  BY <1>1, <1>2 DEF SecondsUntil, SecondsADay

\* What is read of a date of four digits.
LEMMA DatesAreRead ==
  ASSUME NEW d \in Dates, NEW form \in {"fixdate", "asctime", "rfc850"},
         form = "rfc850" => Near(d.year, Now.year)
  PROVE  LET wait == SecondsUntil(DayOf(d.year, d.month, d.day), d.second, Instant)
         IN  Read(d, form) = IF InRange(d) /\ wait <= MaxSeconds THEN <<wait>> ELSE <<>>
<1> DEFINE h    == Spelled(d, form)
           wait == SecondsUntil(DayOf(d.year, d.month, d.day), d.second, Instant)
           year == IF h.form = "rfc850" THEN FullYear(h.year, Now.year) ELSE h.year
<1>1. /\ h.form = form /\ h.month = d.month /\ h.day = d.day /\ h.second = d.second
      /\ h.year = IF form = "rfc850" THEN d.year % 100 ELSE d.year
  BY DEF Spelled
<1>2. year = d.year
  <2>1. d.year \in Int
    BY DatesAssumption
  <2>2. form = "rfc850" => FullYear(Digits(d.year), Now.year) = d.year
    BY <2>1, NowIsANumber, YearsAreMeant
  <2>3. year = IF form = "rfc850" THEN FullYear(Digits(d.year), Now.year) ELSE d.year
    BY <1>1 DEF Digits
  <2> QED
    BY <2>2, <2>3
<1>3. InRange(h) <=> InRange(d)
  BY <1>1 DEF InRange
<1>4. UnboundedSeconds(h, Instant, Now.year)
        = IF ~InRange(h) THEN <<>>
          ELSE <<SecondsUntil(DayOf(year, h.month, h.day), h.second, Instant)>>
  <2>1. h.form # "seconds" /\ h.form \in {"fixdate", "asctime", "rfc850"}
    BY <1>1
  <2> HIDE DEF h
  <2> QED
    BY <2>1 DEF UnboundedSeconds
<1> HIDE DEF year
<1>5. UnboundedSeconds(h, Instant, Now.year) = IF InRange(d) THEN <<wait>> ELSE <<>>
  BY <1>1, <1>2, <1>3, <1>4
<1> HIDE DEF h, wait
<1> QED
  BY <1>5 DEF ParseRetryAfter, Read, h, wait

\* What is read of any is bounded.
LEMMA ReadsAreBounded ==
  ASSUME NEW d \in Dates, NEW form \in {"fixdate", "asctime", "rfc850"}, Read(d, form) # <<>>
  PROVE  Read(d, form)[1] \in 0..MaxSeconds
<1> DEFINE h    == Spelled(d, form)
           year == IF h.form = "rfc850" THEN FullYear(h.year, Now.year) ELSE h.year
           wait == SecondsUntil(DayOf(year, h.month, h.day), h.second, Instant)
           seconds == UnboundedSeconds(h, Instant, Now.year)
<1>1. /\ h.form = form /\ h.month = d.month /\ h.day = d.day /\ h.second = d.second
      /\ h.year = IF form = "rfc850" THEN d.year % 100 ELSE d.year
  BY DEF Spelled
<1>2. d.year \in Int /\ d.month \in Int /\ d.day \in Int /\ d.second \in Int /\ Now.year \in Int
  <2>1. d \in [year : Int, month : Int, day : Int, second : Int]
    BY DatesAssumption
  <2>3. Now.year \in Int
    BY NowIsANumber
  <2>4. d.year \in Int /\ d.month \in Int /\ d.day \in Int /\ d.second \in Int
    BY <2>1
  <2> QED
    BY <2>3, <2>4
<1>3. seconds = IF ~InRange(h) THEN <<>> ELSE <<wait>>
  <2>1. h.form # "seconds" /\ h.form \in {"fixdate", "asctime", "rfc850"}
    BY <1>1
  <2> HIDE DEF h
  <2> QED
    BY <2>1 DEF UnboundedSeconds
<1>4. Read(d, form) = seconds /\ seconds # <<>> /\ seconds[1] <= MaxSeconds
  BY DEF Read, ParseRetryAfter
<1>5. InRange(h) /\ seconds = <<wait>>
  BY <1>3, <1>4
<1>6. year \in Int
  BY <1>1, <1>2 DEF FullYear
<1>7. DayOf(year, h.month, h.day) \in Int
  BY <1>1, <1>2, <1>5, <1>6, DaysAreWhole DEF InRange
<1>8. wait \in Nat
  BY <1>1, <1>2, <1>7, SecondsAreWhole
<1> HIDE DEF wait, seconds
<1> QED
  BY <1>4, <1>5, <1>8, MaxSecondsAssumption

LEMMA DatesAreOne ==
  ASSUME AnswersAre PROVE DatesAgree
<1> SUFFICES ASSUME Asked("date") PROVE DatesAgree
  BY DEF DatesAgree
<1> DEFINE d == asked.it
           wait == SecondsUntil(DayOf(d.year, d.month, d.day), d.second, Instant)
<1>1. d \in Dates
      /\ answer = [form \in {"fixdate", "asctime", "rfc850"} |-> Read(d, form)]
  BY DEF AnswersAre, Read, Instant
<1> HIDE DEF d, wait
<1>2. DOMAIN answer = {"fixdate", "asctime", "rfc850"}
      /\ \A form \in {"fixdate", "asctime", "rfc850"} : answer[form] = Read(d, form)
  BY <1>1
<1>3. d \in [year : Int, month : Int, day : Int, second : Int]
  BY <1>1, DatesAssumption
<1>4. /\ answer["fixdate"] = IF InRange(d) /\ wait <= MaxSeconds THEN <<wait>> ELSE <<>>
      /\ answer["asctime"] = answer["fixdate"]
      /\ d.year - Now.year \in -49..50 => answer["rfc850"] = answer["fixdate"]
  <2>1. d.year - Now.year \in -49..50 => Near(d.year, Now.year)
    BY DEF Near
  <2> QED
    BY <1>1, <1>2, <2>1, DatesAreRead DEF wait
<1>5. d.month \in 1..12 /\ d.day \in 1..MonthLength(d.year, d.month) =>
        LET next == NextDay(d)
        IN  DayOf(next.year, next.month, next.day) = DayOf(d.year, d.month, d.day) + 1
  BY <1>3, DaysFollow
<1>6. \A form \in DOMAIN answer : answer[form] # <<>> => answer[form][1] \in 0..MaxSeconds
  BY <1>1, <1>2, ReadsAreBounded
<1>7. ASSUME answer["fixdate"] # <<>>, answer["fixdate"][1] > 0
      PROVE  DayOf(d.year, d.month, d.day) >= Now.day
  <2>1. InRange(d) /\ wait > 0
    BY <1>4, <1>7
  <2>2. DayOf(d.year, d.month, d.day) \in Int
    BY <2>1, <1>3, DaysAreWhole DEF InRange
  <2> QED
    BY <2>1, <2>2, <1>3, SecondsAreWhole DEF wait
<1> QED
  BY <1>4, <1>5, <1>6, <1>7 DEF DatesAgree, d

\* However a Retry-After spells its date, it asks for one wait.
THEOREM DatesAskForOneWait == CaseSpec => []DatesAgree
<1>1. CaseInit => AnswersAre
  BY NothingIsAnswered DEF CaseInit
<1>2. AnswersAre /\ [CaseNext]_caseVars => AnswersAre'
  BY AnswersStay
<1>3. AnswersAre => DatesAgree
  BY DatesAreOne
<1> QED
  BY <1>1, <1>2, <1>3, PTL DEF CaseSpec

-----------------------------------------------------------------------------
(* Schedules, as sync holds them.                                           *)

\* A text without blanks around it is held as it is.
LEMMA TrimmedStays ==
  ASSUME NEW text \in ScheduleTexts, ~text.padded PROVE Trim(text) = text
BY DEF Trim, ScheduleTexts

LEMMA TrimIsAText ==
  ASSUME NEW text \in ScheduleTexts
  PROVE  Trim(text) \in ScheduleTexts /\ ~Trim(text).padded /\ Trim(text).as = text.as
BY DEF Trim, ScheduleTexts

\* What is held reads as what it was read as.
HeldAs(s) ==
  /\ s.expr \in ScheduleTexts /\ ~s.expr.padded
  /\ s = [kind |-> s.kind, expr |-> s.expr]
  /\ \/ s.kind = "cron" /\ s.expr.as # "number" /\ AsCron(s.expr) = s
     \/ s.kind = "interval" /\ AsInterval(s.expr) = s
     \/ s.kind = "simple" /\ AsSimple(s.expr) = s

LEMMA CronIsHeld ==
  ASSUME NEW text \in ScheduleTexts, ~text.padded, text.as # "number", AsCron(text) # Refused
  PROVE  HeldAs(AsCron(text))
<1>1. AsCron(text) = [kind |-> "cron", expr |-> text]
  BY DEF AsCron
<1> QED
  BY <1>1 DEF HeldAs

LEMMA IntervalIsHeld ==
  ASSUME NEW value \in ScheduleTexts, AsInterval(value) # Refused
  PROVE  HeldAs(AsInterval(value))
<1> DEFINE n    == SecondsFrom(value)[1]
           expr == [NoText EXCEPT !.as = "every", !.count = n]
<1>1. AsInterval(value) = [kind |-> "interval", expr |-> expr] /\ n \in IntervalMin..IntervalMax
  BY DEF AsInterval
<1>2. n \in Int
  BY <1>1, IntervalAssumption
<1> HIDE DEF n
<1>3. expr = [as |-> "every", word |-> "", fields |-> <<>>, foreign |-> FALSE, count |-> n,
              padded |-> FALSE, long |-> FALSE]
  <2>1. NoText = [as |-> "empty", word |-> "", fields |-> <<>>, foreign |-> FALSE, count |-> 0,
                  padded |-> FALSE, long |-> FALSE]
    BY DEF NoText
  <2>2. DOMAIN expr = {"as", "word", "fields", "foreign", "count", "padded", "long"}
    BY <2>1
  <2>3. /\ expr["as"] = "every" /\ expr["word"] = "" /\ expr["fields"] = <<>>
        /\ expr["foreign"] = FALSE /\ expr["count"] = n /\ expr["padded"] = FALSE
        /\ expr["long"] = FALSE
    BY <2>1
  <2>4. expr = [x \in DOMAIN expr |-> expr[x]]
    OBVIOUS
  <2> HIDE DEF expr
  <2> QED
    BY <2>2, <2>3, <2>4
<1>4. expr \in ScheduleTexts
  <2>1. <<>> \in Seq({"any", "cron", "word"})
    OBVIOUS
  <2> HIDE DEF expr
  <2> QED
    BY <1>2, <1>3, <2>1 DEF ScheduleTexts, Words
<1>5. expr.as = "every" /\ expr.count = n /\ expr.word = "" /\ ~expr.padded
  BY <1>3
<1> HIDE DEF expr
<1>6. SecondsFrom(expr) = <<n>>
  <2>1. Scale("") = 1
    BY DEF Scale
  <2>2. SecondsFrom(expr) = <<n * 1>>
    BY <1>5, <2>1 DEF SecondsFrom
  <2> QED
    BY <1>2, <2>2
<1>7. AsInterval(expr) = [kind |-> "interval", expr |-> expr]
  <2>1. <<n>> # <<>> /\ <<n>>[1] = n
    OBVIOUS
  <2>2. expr = [NoText EXCEPT !.as = "every", !.count = <<n>>[1]]
    BY <2>1 DEF expr
  <2> QED
    BY <1>1, <1>6, <2>1, <2>2 DEF AsInterval
<1> DEFINE s == [kind |-> "interval", expr |-> expr]
<1>8. s.kind = "interval" /\ s.expr = expr
  OBVIOUS
<1>9. HeldAs(s)
  BY <1>4, <1>5, <1>7, <1>8 DEF HeldAs
<1> QED
  BY <1>1, <1>9

LEMMA SimpleIsHeld ==
  ASSUME NEW value \in ScheduleTexts, AsSimple(value) # Refused
  PROVE  HeldAs(AsSimple(value))
<1>1. AsSimple(value) = [kind |-> "simple", expr |-> value] /\ ~value.padded
  BY DEF AsSimple
<1> QED
  BY <1>1 DEF HeldAs

LEMMA FromTextIsHeld ==
  ASSUME NEW text \in ScheduleTexts, FromText(text) # Refused
  PROVE  HeldAs(FromText(text))
<1> DEFINE expression == Trim(text)
<1>1. expression \in ScheduleTexts /\ ~expression.padded
  BY TrimIsAText
<1> HIDE DEF expression
<1>2. CASE expression.as = "simple"
  <2>1. FromText(text) = AsSimple(expression)
    BY <1>2 DEF FromText, expression
  <2> QED
    BY <1>1, <2>1, SimpleIsHeld
<1>3. CASE expression.as \in {"alias", "fields"}
  <2>1. FromText(text) = AsCron(expression)
    BY <1>3 DEF FromText, expression
  <2> QED
    BY <1>1, <1>3, <2>1, CronIsHeld
<1>4. CASE expression.as = "every"
  <2>1. FromText(text) = AsInterval(expression)
    BY <1>4 DEF FromText, expression
  <2> QED
    BY <1>1, <2>1, IntervalIsHeld
<1>5. CASE expression.as \notin {"simple", "alias", "fields", "every"}
  BY <1>5 DEF FromText, expression
<1> QED
  BY <1>2, <1>3, <1>4, <1>5

LEMMA SchedulesAreHeld ==
  ASSUME NEW d \in MonitorDefinitions, NormaliseSchedule(d.schedule) # Refused
  PROVE  HeldAs(NormaliseSchedule(d.schedule))
<1> DEFINE schedule == d.schedule
           of == schedule.of
           member == {"every", "interval", "cron", "simple"} \cap DOMAIN of
<1>1. /\ schedule.given \in {"text", "object", "nothing"}
      /\ schedule.given = "text" => of \in ScheduleTexts
      /\ schedule.given = "object" => \A m \in DOMAIN of : of[m] \in ScheduleTexts
  BY SettingsAssumption
<1>2. CASE schedule.given = "text"
  <2>1. NormaliseSchedule(schedule) = FromText(of)
    BY <1>2 DEF NormaliseSchedule
  <2> QED
    BY <1>1, <1>2, <2>1, FromTextIsHeld
<1>3. CASE schedule.given = "nothing"
  BY <1>3 DEF NormaliseSchedule
<1>4. CASE schedule.given = "object"
  <2>1. NormaliseSchedule(schedule) =
          IF "every" \in member THEN AsInterval(of["every"])
          ELSE IF "interval" \in member THEN AsInterval(of["interval"])
          ELSE IF "cron" \in member
            THEN IF of["cron"].as = "number" THEN Refused ELSE AsCron(Trim(of["cron"]))
          ELSE IF "simple" \in member THEN AsSimple(of["simple"])
          ELSE Refused
    BY <1>4 DEF NormaliseSchedule
  <2>2. \A m \in member : of[m] \in ScheduleTexts
    BY <1>1, <1>4
  <2> HIDE DEF member, of
  <2>3. CASE "every" \in member
    BY <2>1, <2>2, <2>3, IntervalIsHeld
  <2>4. CASE "every" \notin member /\ "interval" \in member
    BY <2>1, <2>2, <2>4, IntervalIsHeld
  <2>5. CASE "every" \notin member /\ "interval" \notin member /\ "cron" \in member
    <3>1. NormaliseSchedule(schedule) = AsCron(Trim(of["cron"])) /\ of["cron"].as # "number"
      BY <2>1, <2>5
    <3>2. of["cron"] \in ScheduleTexts
      BY <2>2, <2>5
    <3>3. Trim(of["cron"]) \in ScheduleTexts /\ ~Trim(of["cron"]).padded /\ Trim(of["cron"]).as # "number"
      BY <3>1, <3>2, TrimIsAText
    <3> QED
      BY <3>1, <3>3, CronIsHeld
  <2>6. CASE "every" \notin member /\ "interval" \notin member /\ "cron" \notin member /\ "simple" \in member
    BY <2>1, <2>2, <2>6, SimpleIsHeld
  <2> QED
    BY <2>1, <2>3, <2>4, <2>5, <2>6
<1> QED
  BY <1>1, <1>2, <1>3, <1>4

\* Given as an object of its kind, what is held is taken for the same.
LEMMA HeldIsReadAgain ==
  ASSUME NEW kind, NEW expr, HeldAs([kind |-> kind, expr |-> expr])
  PROVE  NormaliseSchedule([given |-> "object", of |-> [m \in {kind} |-> expr]])
           = [kind |-> kind, expr |-> expr]
<1> DEFINE s        == [kind |-> kind, expr |-> expr]
           of       == [m \in {kind} |-> expr]
           schedule == [given |-> "object", of |-> of]
           member   == {"every", "interval", "cron", "simple"} \cap DOMAIN of
<1>1. s.kind = kind /\ s.expr = expr
  OBVIOUS
<1>2. schedule.given = "object" /\ schedule.of = of
  OBVIOUS
<1>3. DOMAIN of = {kind} /\ of[kind] = expr
  OBVIOUS
<1>4. kind \in {"cron", "interval", "simple"} /\ expr \in ScheduleTexts /\ ~expr.padded
  BY <1>1 DEF HeldAs
<1> HIDE DEF schedule, of
<1>5. member = {kind}
  BY <1>3, <1>4
<1>6. NormaliseSchedule(schedule) =
          IF "every" \in member THEN AsInterval(of["every"])
          ELSE IF "interval" \in member THEN AsInterval(of["interval"])
          ELSE IF "cron" \in member
            THEN IF of["cron"].as = "number" THEN Refused ELSE AsCron(Trim(of["cron"]))
          ELSE IF "simple" \in member THEN AsSimple(of["simple"])
          ELSE Refused
  BY <1>2 DEF NormaliseSchedule
<1> HIDE DEF member, s
<1>7. CASE kind = "cron"
  <2>1. NormaliseSchedule(schedule) = IF expr.as = "number" THEN Refused ELSE AsCron(Trim(expr))
    BY <1>3, <1>5, <1>6, <1>7
  <2>2. expr.as # "number" /\ AsCron(expr) = s
    BY <1>1, <1>7 DEF HeldAs, s
  <2>3. Trim(expr) = expr
    BY <1>4, TrimmedStays
  <2> QED
    BY <2>1, <2>2, <2>3 DEF s, schedule, of
<1>8. CASE kind = "interval"
  <2>1. NormaliseSchedule(schedule) = AsInterval(expr)
    BY <1>3, <1>5, <1>6, <1>8
  <2>2. AsInterval(expr) = s
    BY <1>1, <1>8 DEF HeldAs, s
  <2> QED
    BY <2>1, <2>2 DEF s, schedule, of
<1>9. CASE kind = "simple"
  <2>1. NormaliseSchedule(schedule) = AsSimple(expr)
    BY <1>3, <1>5, <1>6, <1>9
  <2>2. AsSimple(expr) = s
    BY <1>1, <1>9 DEF HeldAs, s
  <2> QED
    BY <2>1, <2>2 DEF s, schedule, of
<1> QED
  BY <1>4, <1>7, <1>8, <1>9

\* A cron expression sync takes is one the adapters' dialect has.
LEMMA CronIsWired ==
  ASSUME NEW expr \in ScheduleTexts, ~expr.padded, AsCron(expr) # Refused
  PROVE  CronDialectTakes(expr)
<1>1. Trim(expr) = expr
  BY TrimmedStays
<1> QED
  BY <1>1 DEF AsCron, CronDialectTakes, IsCronAlias, Bare

-----------------------------------------------------------------------------
(* A definition on its way to the service and back.                         *)

\* What a definition is held as is what each check let through.
LEMMA DefinedIsTaken ==
  ASSUME NEW d \in MonitorDefinitions, Defined(d) # Refused
  PROVE  /\ Defined(d) = [f \in DOMAIN Defined(d) |-> Defined(d)[f]]
         /\ DOMAIN Defined(d) = {"name", "kind", "expr", "tz", "grace", "reminders", "routing"}
         /\ NameTaken(Defined(d).name)
         /\ HeldAs([kind |-> Defined(d).kind, expr |-> Defined(d).expr])
         /\ ExpressionTaken(Defined(d).kind, Defined(d).expr)
         /\ Defined(d).grace # Undefined => GraceTaken(Defined(d).grace)
         /\ Defined(d).reminders # Undefined => RemindersTaken(Defined(d).reminders)
         /\ Defined(d).tz # Undefined => ZoneTaken(Defined(d).tz) /\ Defined(d).tz # "Z"
<1> DEFINE schedule == NormaliseSchedule(d.schedule)
           tz       == IF d.tz = Undefined THEN Undefined ELSE CanonicalTimezone(d.tz)
           routing  == RoutingFrom(d.channels)
<1>1. /\ Defined(d) = [name |-> d.name, kind |-> schedule.kind, expr |-> schedule.expr, tz |-> tz,
                       grace |-> d.grace, reminders |-> d.reminders, routing |-> routing]
      /\ NameTaken(d.name) /\ schedule # Refused /\ ExpressionTaken(schedule.kind, schedule.expr)
      /\ d.grace # Undefined => GraceTaken(d.grace)
      /\ d.reminders # Undefined => RemindersTaken(d.reminders)
      /\ d.tz # Undefined => ZoneTaken(d.tz)
  BY DEF Defined
<1>2. HeldAs(schedule)
  BY <1>1, SchedulesAreHeld
<1>3. schedule = [kind |-> schedule.kind, expr |-> schedule.expr]
  BY <1>2 DEF HeldAs
<1>4. tz # Undefined => ZoneTaken(tz) /\ tz # "Z"
  BY <1>1 DEF ZoneTaken, CanonicalTimezone, NamesAZone
<1> HIDE DEF schedule, tz, routing
<1>5. HeldAs([kind |-> schedule.kind, expr |-> schedule.expr])
  BY <1>2, <1>3
<1>6. /\ Defined(d).name = d.name /\ Defined(d).kind = schedule.kind
      /\ Defined(d).expr = schedule.expr /\ Defined(d).tz = tz
      /\ Defined(d).grace = d.grace /\ Defined(d).reminders = d.reminders
      /\ DOMAIN Defined(d) = {"name", "kind", "expr", "tz", "grace", "reminders", "routing"}
  BY <1>1
<1>7. Defined(d) = [f \in DOMAIN Defined(d) |-> Defined(d)[f]]
  BY <1>1
<1> QED
  BY <1>1, <1>4, <1>5, <1>6, <1>7

\* A request that is the create of something held.
IsCreateOf(request, taken) ==
  /\ request = CreateRequestFor(taken, ListedIds)
  /\ NameTaken(taken.name)
  /\ taken.kind \in {"cron", "interval", "simple"} /\ taken.expr \in ScheduleTexts
  /\ ExpressionTaken(taken.kind, taken.expr)
  /\ taken.grace # Undefined => GraceTaken(taken.grace)
  /\ taken.reminders # Undefined => RemindersTaken(taken.reminders)
  /\ taken.tz # Undefined => ZoneTaken(taken.tz) /\ taken.tz # "Z"

RequestFields == {"name", "kind", "expr", "tz", "grace", "reminders", "channels"}

LEMMA RequestsCarry ==
  ASSUME NEW request, NEW taken, IsCreateOf(request, taken)
  PROVE  /\ DOMAIN request = RequestFields
         /\ \A f \in RequestFields \ {"channels"} : request[f] = taken[f]
         /\ request["channels"] # Undefined =>
              \A i \in DOMAIN request["channels"] : ChannelIdFor(request["channels"][i]) # <<>>
<1> DEFINE channels == CASE taken.routing.mode = "unmanaged" -> Undefined
                         [] taken.routing.mode = "none"      -> <<>>
                         [] OTHER                           -> ListedIds
<1>1. request = [name |-> taken.name, kind |-> taken.kind, expr |-> taken.expr, tz |-> taken.tz,
                 grace |-> taken.grace, reminders |-> taken.reminders, channels |-> channels]
  BY DEF IsCreateOf, CreateRequestFor
<1>2. channels \in {Undefined, <<>>, ListedIds}
  OBVIOUS
<1> HIDE DEF channels
<1>3. channels # Undefined => \A i \in DOMAIN channels : ChannelIdFor(channels[i]) # <<>>
  <2>1. \A i \in DOMAIN ListedIds : ChannelIdFor(ListedIds[i]) # <<>>
    BY SettingsAssumption DEF ChannelIdFor
  <2>2. DOMAIN <<>> = {}
    OBVIOUS
  <2> QED
    BY <1>2, <2>1, <2>2
<1> QED
  BY <1>1, <1>3 DEF RequestFields

\* Each of the fields it says is taken, and by itself.
LEMMA PartsAreTaken ==
  ASSUME NEW request, NEW taken, IsCreateOf(request, taken), NEW S \in SUBSET Said(request)
  PROVE  LET part == [f \in DOMAIN request |-> IF f \in S THEN request[f] ELSE Undefined]
         IN  Said(part) = S /\ \A f \in S : part[f] = request[f] /\ FieldTaken(part, f)
<1> DEFINE part == [f \in DOMAIN request |-> IF f \in S THEN request[f] ELSE Undefined]
<1>1. /\ DOMAIN request = RequestFields
      /\ \A f \in RequestFields \ {"channels"} : request[f] = taken[f]
      /\ request["channels"] # Undefined =>
           \A i \in DOMAIN request["channels"] : ChannelIdFor(request["channels"][i]) # <<>>
  BY RequestsCarry
<1>2. S \subseteq RequestFields /\ \A f \in S : request[f] # Undefined
  BY <1>1 DEF Said
<1>3. Said(part) = S /\ \A f \in S : part[f] = request[f]
  BY <1>1, <1>2 DEF Said
<1>4. part["kind"] = taken.kind \/ part["kind"] = Undefined
  BY <1>1 DEF RequestFields
<1>5. part.kind = part["kind"]
  OBVIOUS
<1> HIDE DEF part
<1>6. ASSUME NEW f \in S PROVE FieldTaken(part, f)
  <2>1. part[f] = request[f] /\ part[f] # Undefined
    BY <1>2, <1>3
  <2>2. CASE f = "name"
    <3>1. NameTaken(part[f])
      BY <1>1, <2>1, <2>2 DEF IsCreateOf, RequestFields
    <3> QED
      BY <2>2, <3>1 DEF FieldTaken
  <2>3. CASE f = "kind"
    <3>1. part[f] \in {"cron", "interval", "simple"}
      BY <1>1, <2>1, <2>3 DEF IsCreateOf, RequestFields
    <3> QED
      BY <2>3, <3>1 DEF FieldTaken
  <2>4. CASE f = "expr"
    <3>1. part[f] = taken.expr
      BY <1>1, <2>1, <2>4 DEF RequestFields
    <3>2. ExpressionTaken(taken.kind, part[f]) /\ part[f].as # "empty" /\ ~part[f].long
      BY <3>1 DEF IsCreateOf, ExpressionTaken
    <3>3. FieldTaken(part, f) = IF part.kind = Undefined
                                  THEN part[f] # Undefined /\ part[f].as # "empty" /\ ~part[f].long
                                  ELSE ExpressionTaken(part.kind, part[f])
      BY <2>4 DEF FieldTaken
    <3> QED
      BY <1>4, <1>5, <2>1, <3>2, <3>3
  <2>5. CASE f = "tz"
    <3>1. ZoneTaken(part[f])
      BY <1>1, <2>1, <2>5 DEF IsCreateOf, RequestFields
    <3> QED
      BY <2>5, <3>1 DEF FieldTaken
  <2>6. CASE f = "grace"
    <3>1. GraceTaken(part[f])
      BY <1>1, <2>1, <2>6 DEF IsCreateOf, RequestFields
    <3> QED
      BY <2>6, <3>1 DEF FieldTaken
  <2>7. CASE f = "reminders"
    <3>1. RemindersTaken(part[f])
      BY <1>1, <2>1, <2>7 DEF IsCreateOf, RequestFields
    <3> QED
      BY <2>7, <3>1 DEF FieldTaken
  <2>8. CASE f = "channels"
    <3>1. \A i \in DOMAIN part[f] : ChannelIdFor(part[f][i]) # <<>>
      BY <1>1, <2>1, <2>8
    <3> QED
      BY <2>8, <3>1 DEF FieldTaken
  <2> QED
    BY <1>2, <2>2, <2>3, <2>4, <2>5, <2>6, <2>7, <2>8 DEF RequestFields
<1> QED
  BY <1>3, <1>6 DEF part

\* A body of taken fields is sent, field for field.
LEMMA BodiesAreSent ==
  ASSUME NEW request, NEW partial, \A f \in FieldsOf(request, partial) :
                                     request[f] # Undefined /\ FieldTaken(request, f),
         "kind" \in FieldsOf(request, partial) => request["kind"] # "refused"
  PROVE  /\ MonitorBodyFrom(request, partial) # Refused
         /\ DOMAIN MonitorBodyFrom(request, partial) = FieldsOf(request, partial)
         /\ \A f \in FieldsOf(request, partial) \ {"channels"} :
              MonitorBodyFrom(request, partial)[f]
                = IF f = "tz" THEN CanonicalTimezone(request[f]) ELSE request[f]
<1> DEFINE fields == FieldsOf(request, partial)
           value(f) == CASE f = "tz"       -> CanonicalTimezone(request[f])
                         [] f = "channels" -> [i \in DOMAIN request[f] |-> ChannelIdFor(request[f][i])[1]]
                         [] OTHER          -> request[f]
           body == [f \in fields |-> value(f)]
<1>1. MonitorBodyFrom(request, partial) = body
  BY DEF MonitorBodyFrom
<1>2. \A f : f # "channels" => value(f) = IF f = "tz" THEN CanonicalTimezone(request[f]) ELSE request[f]
  OBVIOUS
<1> HIDE DEF value, fields
<1>3. DOMAIN body = fields /\ \A f \in fields : body[f] = value(f)
  OBVIOUS
<1>4. body # Refused
  <2>1. DOMAIN Refused = {"kind"} /\ Refused["kind"] = "refused"
    BY DEF Refused
  <2>2. "kind" \in fields => body["kind"] # "refused"
    BY <1>2, <1>3 DEF fields
  <2> HIDE DEF body
  <2> QED
    BY <1>3, <2>1, <2>2
<1> HIDE DEF body
<1> QED
  BY <1>1, <1>2, <1>3, <1>4 DEF fields

\* What is held is a create the client takes.
LEMMA HeldIsACreate ==
  ASSUME NEW d \in MonitorDefinitions, Defined(d) # Refused
  PROVE  IsCreateOf(CreateRequestFor(Defined(d), ListedIds), Defined(d))
<1> DEFINE taken == Defined(d)
           s    == [kind |-> taken.kind, expr |-> taken.expr]
<1>1. /\ NameTaken(taken.name) /\ HeldAs(s) /\ ExpressionTaken(taken.kind, taken.expr)
      /\ taken.grace # Undefined => GraceTaken(taken.grace)
      /\ taken.reminders # Undefined => RemindersTaken(taken.reminders)
      /\ taken.tz # Undefined => ZoneTaken(taken.tz) /\ taken.tz # "Z"
  BY DefinedIsTaken
<1>2. s.kind = taken.kind /\ s.expr = taken.expr
  OBVIOUS
<1> HIDE DEF s, taken
<1>3. taken.kind \in {"cron", "interval", "simple"} /\ taken.expr \in ScheduleTexts
  BY <1>1, <1>2 DEF HeldAs
<1> QED
  BY <1>1, <1>3 DEF IsCreateOf, taken

LEMMA CreatesCarryTheRest ==
  ASSUME NEW request, NEW taken, IsCreateOf(request, taken)
  PROVE  /\ {"name", "kind", "expr"} \subseteq Said(request)
         /\ \A f \in FieldsOf(request, FALSE) : request[f] # Undefined /\ FieldTaken(request, f)
         /\ FieldsOf(request, FALSE) = Said(request)
<1>1. /\ DOMAIN request = RequestFields
      /\ \A f \in RequestFields \ {"channels"} : request[f] = taken[f]
  BY RequestsCarry
<1>2. taken.name # Undefined /\ taken.kind # Undefined /\ taken.expr # Undefined
  BY SettingsAssumption DEF IsCreateOf, NameTaken
<1>3. {"name", "kind", "expr"} \subseteq Said(request)
  BY <1>1, <1>2 DEF Said, RequestFields
<1>4. FieldsOf(request, FALSE) = Said(request)
  BY <1>3 DEF FieldsOf
<1> DEFINE part == [f \in DOMAIN request |-> IF f \in Said(request) THEN request[f] ELSE Undefined]
<1>5. \A f \in Said(request) : FieldTaken(part, f)
  BY PartsAreTaken
<1>6. part = request
  <2>1. request = [f \in DOMAIN request |-> request[f]]
    BY DEF IsCreateOf, CreateRequestFor
  <2>2. \A f \in DOMAIN request : f \notin Said(request) => request[f] = Undefined
    BY DEF Said
  <2> QED
    BY <2>1, <2>2
<1>7. \A f \in Said(request) : request[f] # Undefined
  BY DEF Said
<1> HIDE DEF part
<1> QED
  BY <1>3, <1>4, <1>5, <1>6, <1>7

LEMMA DefinitionsComeBack ==
  ASSUME AnswersAre PROVE DefinitionsReadBack
<1> SUFFICES ASSUME Asked("definition"), answer # Refused PROVE DefinitionsReadBack
  BY DEF DefinitionsReadBack
<1> DEFINE request == CreateRequestFor(answer, ListedIds)
           body    == MonitorBodyFrom(request, FALSE)
           row     == Stored(body, Defaults)
           again   == [given |-> "object", of |-> [m \in {answer.kind} |-> answer.expr]]
<1>1. asked.it \in MonitorDefinitions /\ answer = Defined(asked.it)
  BY DEF AnswersAre
<1>2. IsCreateOf(request, answer)
  BY <1>1, HeldIsACreate
<1>3. HeldAs([kind |-> answer.kind, expr |-> answer.expr])
  BY <1>1, DefinedIsTaken
<1>4. /\ {"name", "kind", "expr"} \subseteq Said(request)
      /\ \A f \in FieldsOf(request, FALSE) : request[f] # Undefined /\ FieldTaken(request, f)
      /\ FieldsOf(request, FALSE) = Said(request)
  BY <1>2, CreatesCarryTheRest
<1>5. /\ DOMAIN request = RequestFields
      /\ \A f \in RequestFields \ {"channels"} : request[f] = answer[f]
  BY <1>2, RequestsCarry
<1>6. request["kind"] \in {"cron", "interval", "simple"}
  BY <1>2, <1>5 DEF IsCreateOf, RequestFields
<1> HIDE DEF request
<1>7. /\ body # Refused
      /\ DOMAIN body = Said(request)
      /\ \A f \in Said(request) \ {"channels"} :
           body[f] = IF f = "tz" THEN CanonicalTimezone(request[f]) ELSE request[f]
  <2>1. "kind" \in FieldsOf(request, FALSE) => request["kind"] # "refused"
    BY <1>6
  <2> QED
    BY <1>4, <2>1, BodiesAreSent
<1>8. ASSUME NEW f \in Fields, answer[f] # Undefined
      PROVE  row[f] = answer[f]
  <2>1. f \in DOMAIN Defaults /\ f \in RequestFields \ {"channels"}
    BY SettingsAssumption DEF Fields, RequestFields
  <2>2. request[f] = answer[f] /\ f \in Said(request)
    BY <1>5, <1>8, <2>1 DEF Said
  <2>3. row[f] = Kept(f, body[f])
    <3> HIDE DEF body
    <3> QED
      BY <1>7, <2>1, <2>2 DEF Stored
  <2>4. body[f] = IF f = "tz" THEN CanonicalTimezone(answer[f]) ELSE answer[f]
    BY <1>7, <2>1, <2>2
  <2>5. f = "tz" => answer[f] # "Z"
    BY <1>2, <1>8 DEF IsCreateOf
  <2> QED
    BY <2>3, <2>4, <2>5 DEF Kept, CanonicalTimezone
<1>9. NormaliseSchedule(again) = [kind |-> answer.kind, expr |-> answer.expr]
  BY <1>3, HeldIsReadAgain
<1>10. answer.kind = "cron" => CronDialectTakes(answer.expr)
  <2> DEFINE s == [kind |-> answer.kind, expr |-> answer.expr]
  <2>1. HeldAs(s) /\ s.kind = answer.kind /\ s.expr = answer.expr
    BY <1>3
  <2> HIDE DEF s
  <2>2. answer.kind = "cron" => AsCron(answer.expr) = s
    BY <2>1 DEF HeldAs
  <2>3. answer.kind = "cron" => s # Refused
    BY <2>1 DEF Refused
  <2> QED
    BY <2>1, <2>2, <2>3, CronIsWired DEF HeldAs
<1>11. ASSUME NEW S \in SUBSET Said(request)
       PROVE  LET part == [f \in DOMAIN request |-> IF f \in S THEN request[f] ELSE Undefined]
                  sent == MonitorBodyFrom(part, TRUE)
              IN  sent # Refused /\ DOMAIN sent = S
  <2> DEFINE part == [f \in DOMAIN request |-> IF f \in S THEN request[f] ELSE Undefined]
  <2>1. Said(part) = S /\ \A f \in S : part[f] = request[f] /\ FieldTaken(part, f)
    BY <1>2, PartsAreTaken
  <2>2. \A f \in S : request[f] # Undefined
    BY DEF Said
  <2> HIDE DEF part
  <2>3. FieldsOf(part, TRUE) = S
    BY <2>1 DEF FieldsOf
  <2>4. /\ \A f \in FieldsOf(part, TRUE) : part[f] # Undefined /\ FieldTaken(part, f)
        /\ "kind" \in FieldsOf(part, TRUE) => part["kind"] # "refused"
    BY <1>6, <2>1, <2>2, <2>3
  <2>5. MonitorBodyFrom(part, TRUE) # Refused /\ DOMAIN MonitorBodyFrom(part, TRUE) = S
    BY <2>3, <2>4, BodiesAreSent
  <2> QED
    BY <2>5 DEF part
<1> QED
  <2> HIDE DEF body, row, again
  <2>1. /\ body # Refused
        /\ \A f \in Fields : answer[f] # Undefined => row[f] = answer[f]
        /\ NormaliseSchedule(again) = [kind |-> answer.kind, expr |-> answer.expr]
        /\ answer.kind = "cron" => CronDialectTakes(answer.expr)
        /\ \A S \in SUBSET Said(request) :
             LET part == [f \in DOMAIN request |-> IF f \in S THEN request[f] ELSE Undefined]
                 sent == MonitorBodyFrom(part, TRUE)
             IN  sent # Refused /\ DOMAIN sent = S
    BY <1>7, <1>8, <1>9, <1>10, <1>11
  <2> QED
    BY <2>1 DEF DefinitionsReadBack, request, body, row, again

-----------------------------------------------------------------------------
(* Channels and pages.                                                      *)

LEMMA ChannelsAreWhole ==
  ASSUME AnswersAre PROVE ChannelsAreReachable
<1> SUFFICES ASSUME Asked("channel"), answer # Refused
             PROVE  NeededBy[asked.it.kind] \subseteq DOMAIN answer
  BY DEF ChannelsAreReachable
<1> DEFINE r == asked.it
<1>1. answer = ChannelBodyFrom(r.kind, r.label, r.given)
  BY DEF AnswersAre
<1> HIDE DEF r
<1>2. NeededBy[r.kind] \subseteq Said(r.given) /\ answer = [f \in Said(r.given) |-> r.given[f]]
  BY <1>1 DEF ChannelBodyFrom
<1> QED
  BY <1>2 DEF r

\* The fields sync compares are of the shapes that admit no null.
LEMMA ComparedAreThere ==
  ASSUME NEW listing \in DOMAIN Compared, NEW f \in Compared[listing]
  PROVE  /\ f \in DOMAIN Listings[listing].row
         /\ Listings[listing].row[f] \in {"text", "integer", "flag", "list", "object"}
<1>1. DOMAIN Compared = {"monitors", "channels"}
  BY DEF Compared
<1>2. CASE listing = "monitors"
  <2>1. Listings[listing].row = MonitorShape
    BY <1>2 DEF Listings
  <2>2. f \in {"uuid", "name", "schedule_kind", "schedule_expr", "tz", "grace_seconds",
               "incident_reminders", "channels"}
    BY <1>2 DEF Compared
  <2>3. {"uuid", "name", "schedule_kind", "schedule_expr", "tz", "grace_seconds",
         "incident_reminders", "channels"} \subseteq DOMAIN MonitorShape
    BY DEF MonitorShape
  <2>4. /\ MonitorShape["uuid"] = "text" /\ MonitorShape["name"] = "text"
        /\ MonitorShape["schedule_kind"] = "text" /\ MonitorShape["schedule_expr"] = "text"
        /\ MonitorShape["tz"] = "text" /\ MonitorShape["grace_seconds"] = "integer"
        /\ MonitorShape["incident_reminders"] = "flag" /\ MonitorShape["channels"] = "list"
    BY DEF MonitorShape
  <2> QED
    BY <2>1, <2>2, <2>3, <2>4
<1>3. CASE listing = "channels"
  <2>1. Listings[listing].row = ChannelShape
    BY <1>3 DEF Listings
  <2>2. f \in {"id", "kind", "label", "verified"}
    BY <1>3 DEF Compared
  <2> QED
    BY <2>1, <2>2 DEF ChannelShape
<1> QED
  BY <1>1, <1>2, <1>3

LEMMA PagesAreRead ==
  ASSUME AnswersAre PROVE PagesAreWhole
<1> SUFFICES ASSUME Asked("page"), answer # Refused PROVE PagesAreWhole
  BY DEF PagesAreWhole
<1> DEFINE p     == asked.it
           shape == Listings[p.listing].row
           read(i) == [f \in DOMAIN shape |->
                         IF f \in DOMAIN p.rows[i] THEN ReadAs(p.rows[i][f]) ELSE shape[f]]
<1>1. p \in Pages /\ answer = PageFrom(p.listing, p.page, p.rows)
  BY DEF AnswersAre
<1> HIDE DEF p, read
<1>2. /\ \A i \in DOMAIN p.rows : Hydrates(shape, p.rows[i])
      /\ answer = [kind |-> "page", rows |-> [i \in DOMAIN p.rows |-> read(i)]]
  BY <1>1 DEF PageFrom, read
<1>3. answer.rows = [i \in DOMAIN p.rows |-> read(i)]
  BY <1>2
<1>4. DOMAIN p.rows = 1..Len(p.rows) /\ Len(p.rows) \in Nat
  BY <1>1, SettingsAssumption
<1>5. DOMAIN answer.rows = DOMAIN p.rows /\ Len(answer.rows) = Len(p.rows)
  BY <1>3, <1>4
<1>6. ASSUME p.listing \in DOMAIN Compared, NEW i \in DOMAIN p.rows,
             NEW f \in Compared[p.listing]
      PROVE  answer.rows[i][f] # "null"
  <2>1. f \in DOMAIN shape /\ shape[f] \in {"text", "integer", "flag", "list", "object"}
    BY <1>6, ComparedAreThere
  <2> HIDE DEF shape
  <2>2. answer.rows[i] = read(i)
    BY <1>3
  <2>3. answer.rows[i][f] = IF f \in DOMAIN p.rows[i] THEN ReadAs(p.rows[i][f]) ELSE shape[f]
    BY <2>1, <2>2 DEF read
  <2>4. f \in DOMAIN p.rows[i] => Readable(shape[f], p.rows[i][f])
    BY <1>2 DEF Hydrates
  <2>5. \A type : Readable(shape[f], type) => type = shape[f]
    BY <2>1 DEF Readable
  <2> QED
    BY <2>1, <2>3, <2>4, <2>5 DEF ReadAs
<1> QED
  BY <1>5, <1>6 DEF PagesAreWhole, p

\* What sync takes of a configuration comes back as it was taken.
THEOREM SettingsComeBack == CaseSpec => []SettingsAgree
<1>1. CaseInit => AnswersAre
  BY NothingIsAnswered DEF CaseInit
<1>2. AnswersAre /\ [CaseNext]_caseVars => AnswersAre'
  BY AnswersStay
<1>3. AnswersAre => SettingsAgree
  BY DefinitionsComeBack, ChannelsAreWhole, PagesAreRead DEF SettingsAgree
<1> QED
  BY <1>1, <1>2, <1>3, PTL DEF CaseSpec

=============================================================================
