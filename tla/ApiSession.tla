---------------------------- MODULE ApiSession ----------------------------
(***************************************************************************)
(* A session of the management client (createSession, api/http.ts) with    *)
(* the network and the service at the other end: calls made side by side,  *)
(* each retried within one time budget, the reading of the rate limit they *)
(* share, and what each of them leaves behind in the account.              *)
(*                                                                         *)
(* A request outlives the attempt that sent it: a caller told of a network *)
(* error, a timeout or an abort may still have it executed.  Time is a     *)
(* counter; a timer that is due fires before the clock moves on.           *)
(***************************************************************************)
EXTENDS ApiErrors, FiniteSets

CONSTANTS
  Calls,
  Ops,          \* the operations the calls are drawn from
  Keys, NoKey,  \* idempotency keys a create may carry
  Aborters,     \* the calls whose caller may abort them
  Attempts,     \* settings.attempts
  Budget,       \* the time budget of one call
  FloorDelay,   \* RETRY_FLOOR_DELAY_MS
  CreateDelay,  \* CREATE_RETRY_BASE_DELAY_MS
  LastCall,     \* bound: no call begins after this
  Horizon,      \* bound: the clock stops here
  Refusals      \* statuses below 500 the service may refuse a request with

ASSUME AttemptsAssumption == Attempts \in Nat \ {0}
ASSUME TimeAssumption ==
  /\ {Budget, FloorDelay, CreateDelay, Horizon} \subseteq Nat \ {0}
  /\ LastCall \in Nat /\ LastCall + Budget <= Horizon
ASSUME KeysAssumption == NoKey \notin Keys
ASSUME AbortersAssumption == Aborters \subseteq Calls
ASSUME RefusalsAssumption == Refusals \subseteq 400..499

VARIABLES
  now,
  call,       \* [Calls -> what answer() holds: see Idle]
  request,    \* [Calls -> [1..Attempts -> the request an attempt sent]]
  keyState,   \* the service's record of each key: "free", "running", "done"
  executed,   \* history: how often the service carried each call out
  lastSeen,   \* the session's reading of the rate limit, 0 for undefined
  given       \* readings the service has given, numbered in that order

vars == <<now, call, request, keyState, executed, lastSeen, given>>

-----------------------------------------------------------------------------
(* The routes.  An operation is named after the method that makes it.       *)

Unrepeatable == {"rotate-uuid", "rotate-secret", "test-channel", "signup", "signup-token"}
Creates      == {"create-monitor", "create-channel"}

\* Retried whatever it did, decided per route and not per verb.
MonitorRetry(op) ==
  CASE op = "create-monitor" -> "with-idempotency-key"
    [] op = "rotate-uuid"    -> "never"
    [] OTHER                 -> "safe"

ChannelRetry(op) ==
  CASE op = "create-channel" -> "with-idempotency-key"
    [] op \in {"rotate-secret", "test-channel"} -> "never"
    [] OTHER -> "safe"

\* Mutant: a rotation is as safe to repeat as a pause.
RetryIgnoringRotations(op) ==
  IF op \in Creates THEN "with-idempotency-key" ELSE "safe"

RetryPolicy(op) ==
  CASE op \in {"signup", "signup-token"} -> "never"
    [] op \in {"create-channel", "rename-channel", "delete-channel", "rotate-secret",
               "test-channel", "list-channels"} -> ChannelRetry(op)
    [] OTHER -> MonitorRetry(op)

RouteOf(op) ==
  CASE op \in {"signup", "signup-token"} -> "signup"
    [] op = "create-channel" -> "channel-create"
    [] op = "test-channel"   -> "channel-test"
    [] OTHER                 -> "account"

-----------------------------------------------------------------------------
Idle == [pc |-> "idle", op |-> "none", key |-> NoKey, attempt |-> 0, deadline |-> 0,
         expiry |-> 0, wake |-> 0, aborted |-> FALSE, since |-> 0, result |-> "none"]

Unsent == [stage |-> "unsent", answer |-> 0, reading |-> 0]

Init ==
  /\ now = 0
  /\ call = [c \in Calls |-> Idle]
  /\ request = [c \in Calls |-> [n \in 1..Attempts |-> Unsent]]
  /\ keyState = [k \in Keys |-> "free"]
  /\ executed = [c \in Calls |-> 0]
  /\ lastSeen = 0
  /\ given = 0

LesserOf(a, b) == IF a <= b THEN a ELSE b
Current(c)  == request[c][call[c].attempt]

\* The caller is told, and what the loop was keeping is forgotten.
Over(state, result) ==
  [Idle EXCEPT !.pc = "settled", !.op = state.op, !.key = state.key, !.attempt = state.attempt,
               !.aborted = state.aborted, !.result = result]
Settled(c, result) == [call EXCEPT ![c] = Over(call[c], result)]

\* Nobody listens any longer to what is said to the request in flight.
HangUp(c) ==
  request' = [request EXCEPT ![c][call[c].attempt].answer = 0, ![c][call[c].attempt].reading = 0]

-----------------------------------------------------------------------------
(* The client.                                                              *)

Remaining(state) == state.deadline - now

\* Mutant: nobody looks at the signal before a request is sent.
SignalIgnored(state) == FALSE

\* send() refuses to start for a caller who has aborted already.
AbortedAlready(state) == state.aborted

\* One turn of the loop: out of budget, cancelled, or one more request sent,
\* which is given what is left of the budget.
TryAgain(c, state) ==
  LET n == state.attempt + 1 IN
     IF Remaining(state) <= 0 \/ AbortedAlready(state)
       THEN /\ call' = [call EXCEPT ![c] =
                          Over(state, IF Remaining(state) <= 0 THEN "timeout" ELSE "aborted")]
            /\ UNCHANGED request
       ELSE /\ call' = [call EXCEPT ![c] =
                          [state EXCEPT !.pc = "awaiting", !.attempt = n,
                                        !.expiry = now + Remaining(state), !.since = lastSeen]]
            /\ request' = [request EXCEPT ![c][n].stage = "sent"]

\* A request is composed before anything is sent: a value that cannot be read
\* or encoded is refused, and nothing leaves.
Call(c) ==
  /\ call[c].pc = "idle"
  /\ now <= LastCall
  /\ \E op \in Ops, key \in Keys \cup {NoKey}, signal \in BOOLEAN :
       /\ op \notin Creates => key = NoKey
       /\ signal => c \in Aborters
       /\ \/ TryAgain(c, [Idle EXCEPT !.op = op, !.key = key, !.aborted = signal,
                                      !.deadline = now + Budget])
          \/ /\ call' = [call EXCEPT ![c] = Over([Idle EXCEPT !.op = op, !.key = key], "invalid")]
             /\ UNCHANGED request
  /\ UNCHANGED <<now, keyState, executed, lastSeen, given>>

MayRetry(state, failure) ==
  /\ RetryPolicy(state.op) # "never"
  /\ RetryPolicy(state.op) = "with-idempotency-key" => state.key # NoKey
  /\ failure \in {"network-error", "server-error"}

DelayFor(state) ==
  IF state.key = NoKey THEN FloorDelay ELSE CreateDelay * state.attempt

\* An attempt has failed: pause for another, or settle with what it failed of.
Failed(c, failure, result) ==
  IF call[c].attempt >= Attempts \/ ~MayRetry(call[c], failure)
    THEN call' = Settled(c, result)
    ELSE call' = [call EXCEPT ![c].pc = "pausing",
                    ![c].wake = now + LesserOf(DelayFor(call[c]), Remaining(call[c]))]

\* Mutant: an answer without the headers leaves no reading at all.
ReadingReplaced(reading) == reading

\* The latest reading to arrive; an answer without one keeps what was seen.
RateLimitFrom(reading) == IF reading = 0 THEN lastSeen ELSE reading

\* Mutant: whatever is answered is a success.
AnyStatus(status) == status >= 200

IsSuccess(status) == status >= 200 /\ status < 300

\* The answer to the request awaited has been read.  A success whose body is
\* not JSON, or not the shape asked for, is an error nobody retries.
Answered(c) ==
  /\ call[c].pc = "awaiting"
  /\ Current(c).answer # 0
  /\ LET answer == Current(c).answer IN
       IF IsSuccess(answer)
         THEN \E result \in {"ok", "unreadable"} : call' = Settled(c, result)
         ELSE Failed(c, IF answer >= 500 THEN "server-error" ELSE "refused",
                     ErrorForStatus(answer, RouteOf(call[c].op)))
  /\ lastSeen' = RateLimitFrom(Current(c).reading)
  /\ HangUp(c)
  /\ UNCHANGED <<now, keyState, executed, given>>

\* The connection failed, or the transport made no usable response of what came
\* back, which is not tried again; whatever becomes of the request.
Lost(c) ==
  /\ call[c].pc = "awaiting"
  /\ \E failure \in {"network-error", "unexpected"} : Failed(c, failure, failure)
  /\ HangUp(c)
  /\ UNCHANGED <<now, keyState, executed, lastSeen, given>>

Expired(c) == now >= call[c].expiry

TimedOut(c) ==
  /\ call[c].pc = "awaiting"
  /\ Expired(c)
  /\ call' = Settled(c, "timeout")
  /\ HangUp(c)
  /\ UNCHANGED <<now, keyState, executed, lastSeen, given>>

\* The caller aborts.  An attempt in flight is given up there and then; a
\* pause between two is not interrupted.
Abort(c) ==
  /\ c \in Aborters
  /\ call[c].pc \in {"awaiting", "pausing"}
  /\ ~call[c].aborted
  /\ IF call[c].pc = "awaiting"
       THEN call' = [Settled(c, "aborted") EXCEPT ![c].aborted = TRUE] /\ HangUp(c)
       ELSE call' = [call EXCEPT ![c].aborted = TRUE] /\ UNCHANGED request
  /\ UNCHANGED <<now, keyState, executed, lastSeen, given>>

Resume(c) ==
  /\ call[c].pc = "pausing"
  /\ now >= call[c].wake
  /\ TryAgain(c, call[c])
  /\ UNCHANGED <<now, keyState, executed, lastSeen, given>>

-----------------------------------------------------------------------------
(* The network and the service.                                             *)

\* Every attempt of a call carries its key.
Carried(c, n) == call[c].key

WithKey(key, state) == IF key = NoKey THEN keyState ELSE [keyState EXCEPT ![key] = state]

Awaited(c, n) == call[c].pc = "awaiting" /\ call[c].attempt = n

\* The service answers, with its rate-limit headers, unless nobody listens or
\* something else has answered in its place.
Answer(c, n, status) ==
  IF Awaited(c, n) /\ request[c][n].answer = 0
    THEN /\ given' = given + 1
         /\ request' = [request EXCEPT ![c][n] =
                          [stage |-> "gone", answer |-> status, reading |-> given + 1]]
    ELSE request' = [request EXCEPT ![c][n].stage = "gone"] /\ UNCHANGED given

\* A request reaches the service, which it may never do.  A key it has answered for is answered for
\* again; one it is still busy with is refused.
Reach(c, n) ==
  /\ request[c][n].stage = "sent"
  /\ LET key == Carried(c, n) IN
       IF key # NoKey /\ keyState[key] # "free"
         THEN /\ Answer(c, n, IF keyState[key] = "done" THEN 201 ELSE 409)
              /\ UNCHANGED keyState
         ELSE /\ request' = [request EXCEPT ![c][n].stage = "running"]
              /\ keyState' = WithKey(key, "running")
              /\ UNCHANGED given
  /\ UNCHANGED <<now, call, executed, lastSeen>>

\* The request is carried out.  The record of its key is finalised with the
\* answer, and may be left pending when nobody is there to be answered.
Execute(c, n) ==
  /\ request[c][n].stage = "running"
  /\ executed' = [executed EXCEPT ![c] = @ + 1]
  /\ Answer(c, n, 200)
  /\ \E state \in {"done"} \cup (IF Awaited(c, n) THEN {} ELSE {"running"}) :
       keyState' = WithKey(Carried(c, n), state)
  /\ UNCHANGED <<now, call, lastSeen>>

\* The request is refused, or fails, and nothing is done.
Refuse(c, n) ==
  /\ request[c][n].stage = "running"
  /\ \E status \in Refusals \cup {500} : Answer(c, n, status)
  /\ keyState' = WithKey(Carried(c, n), "free")
  /\ UNCHANGED <<now, call, executed, lastSeen>>

\* Something in between answers for a service still at work, without headers.
Gateway(c, n) ==
  /\ request[c][n].stage = "running"
  /\ Awaited(c, n)
  /\ request[c][n].answer = 0
  /\ request' = [request EXCEPT ![c][n].answer = 504]
  /\ UNCHANGED <<now, call, keyState, executed, lastSeen, given>>

-----------------------------------------------------------------------------
TimerDue(c) ==
  \/ call[c].pc = "awaiting" /\ now >= call[c].expiry
  \/ call[c].pc = "pausing" /\ now >= call[c].wake

Tick ==
  /\ now < Horizon
  /\ \A c \in Calls : ~TimerDue(c)
  /\ now' = now + 1
  /\ UNCHANGED <<call, request, keyState, executed, lastSeen, given>>

ClientStep(c) == Answered(c) \/ Lost(c) \/ TimedOut(c) \/ Resume(c)

ServiceStep(c, n) == Reach(c, n) \/ Execute(c, n) \/ Refuse(c, n) \/ Gateway(c, n)

Next ==
  \/ \E c \in Calls : Call(c) \/ ClientStep(c) \/ Abort(c)
  \/ \E c \in Calls, n \in 1..Attempts : ServiceStep(c, n)
  \/ Tick

Spec == Init /\ [][Next]_vars

\* Timers fire and a promise's continuation runs; the service owes nothing.
FairSpec ==
  Spec /\ WF_vars(Tick) /\ \A c \in Calls : WF_vars(TimedOut(c)) /\ WF_vars(Resume(c))

-----------------------------------------------------------------------------
Outcomes == {"none", "invalid", "ok", "unreadable", "timeout", "aborted",
             "network-error", "unexpected", "authentication", "plan-restriction", "forbidden", "not-found",
             "conflict", "validation", "rate-limit", "signup-expired", "channel-delivery",
             "unexpected-response"}

\* Type: every variable holds a value of its kind.
TypeOK ==
  /\ now \in 0..Horizon
  /\ \A c \in Calls :
       /\ call[c].pc \in {"idle", "awaiting", "pausing", "settled"}
       /\ call[c].op \in Ops \cup {"none"}
       /\ call[c].key \in Keys \cup {NoKey}
       /\ call[c].attempt \in 0..Attempts
       /\ {call[c].deadline, call[c].expiry, call[c].wake} \subseteq 0..Horizon
       /\ call[c].since \in 0..given
       /\ call[c].result \in Outcomes
       /\ call[c].result = "none" <=> call[c].pc # "settled"
  /\ \A c \in Calls, n \in 1..Attempts :
       /\ request[c][n].stage \in {"unsent", "sent", "running", "gone"}
       /\ request[c][n].reading \in 0..given
  /\ keyState \in [Keys -> {"free", "running", "done"}]
  /\ executed \in [Calls -> 0..Attempts]
  /\ lastSeen \in 0..given

\* No call has an identifier rotated, a message sent, a signup started or a
\* resource made twice, though its answer was lost and its request repeated.
OnceOnly ==
  \A c \in Calls : call[c].op \in Unrepeatable \cup Creates => executed[c] <= 1

\* Two creates that carry one key make one resource between them, however
\* their requests and the retries of each overtake one another.
OneResourcePerKey ==
  \A k \in Keys : Cardinality({c \in Calls : call[c].key = k /\ executed[c] > 0}) <= 1

\* Neither a repeated request nor a second call under the same key does twice
\* what was to be done once.
NothingTwice == TypeOK /\ OnceOnly /\ OneResourcePerKey

\* What the caller is told happened is what happened: a success was carried
\* out by this call or another under its key, and a refusal of a request sent
\* only once means nothing was done.
ToldTheTruth ==
  \A c \in Calls :
    /\ call[c].result \in {"ok", "unreadable"} =>
         \/ executed[c] > 0
         \/ call[c].key # NoKey /\ keyState[call[c].key] = "done"
    /\ (/\ call[c].result \in {"forbidden", "validation", "rate-limit", "authentication"}
        /\ call[c].attempt = 1) => executed[c] = 0

\* A new reading is never one older than what was known when the request it
\* came back on was sent, and once there is a reading there always is.
ReadingIsCurrent ==
  [][/\ lastSeen # 0 => lastSeen' # 0
     /\ \A c \in Calls : lastSeen' # lastSeen /\ Answered(c) => lastSeen' > call[c].since]_vars

\* Nothing leaves for a caller who has aborted, not even after a pause that
\* was under way when he did.
CancelledSendsNothing ==
  [][\A c \in Calls, n \in 1..Attempts :
       request[c][n].stage = "unsent" /\ request'[c][n].stage = "sent" => ~call'[c].aborted]_vars

\* A call is over by the time its budget is, retries and pauses included.
Punctual ==
  \A c \in Calls : call[c].pc \in {"awaiting", "pausing"} => now <= call[c].deadline

\* Every call settles, whether the service answers or not.
CallsSettle == \A c \in Calls : call[c].pc # "idle" ~> call[c].pc = "settled"

\* A call ends: when its caller says so, by its budget, and in any case.
CallsEnd == []Punctual /\ CancelledSendsNothing /\ CallsSettle
=============================================================================
