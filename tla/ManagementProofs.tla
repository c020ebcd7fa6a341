------------------------- MODULE ManagementProofs -------------------------
(***************************************************************************)
(* What the management client guarantees for any calls, keys, attempts,    *)
(* budgets and delays: nothing is done twice that was to be done once,     *)
(* what a caller is told happened, a reading of the rate limit is never    *)
(* replaced by one that was known to be older, nothing leaves for a caller *)
(* who aborted and each call is over by its budget.  And what its listings *)
(* guarantee for any account, page and order of changes: behind the        *)
(* session, the walk by offset and the walk by cursor.                     *)
(***************************************************************************)
EXTENDS ApiSession, Listing, FiniteSetTheorems, SequenceTheorems, TLAPS

Answers == {0, 200, 201, 409, 500, 504} \cup Refusals

CallState ==
  [pc : {"idle", "awaiting", "pausing", "settled"}, op : Ops \cup {"none"},
   key : Keys \cup {NoKey}, attempt : 0..Attempts, deadline : 0..Horizon,
   expiry : 0..Horizon, wake : 0..Horizon, aborted : BOOLEAN, since : Nat, result : Outcomes]

Request == [stage : {"unsent", "sent", "running", "gone"}, answer : Answers, reading : Nat]

\* Every variable holds a value of its kind, and no reading is of the future.
Typed ==
  /\ now \in 0..Horizon
  /\ call \in [Calls -> CallState]
  /\ request \in [Calls -> [1..Attempts -> Request]]
  /\ keyState \in [Keys -> {"free", "running", "done"}]
  /\ executed \in [Calls -> Nat]
  /\ given \in Nat
  /\ lastSeen \in 0..given
  /\ \A c \in Calls : call[c].since <= given
  /\ \A c \in Calls, n \in 1..Attempts : request[c][n].reading <= given

\* A timer is armed within the budget, and the clock has not passed it.
Timed ==
  \A c \in Calls :
    /\ call[c].pc = "awaiting" => call[c].expiry = call[c].deadline /\ now <= call[c].expiry
    /\ call[c].pc = "pausing" => now <= call[c].wake /\ call[c].wake <= call[c].deadline

\* One request for each attempt there has been, and one in all for what may not
\* be repeated.
Composed ==
  \A c \in Calls :
    /\ call[c].pc = "idle" => call[c].attempt = 0 /\ call[c].key = NoKey
    /\ call[c].pc = "awaiting" => call[c].attempt > 0
    /\ call[c].pc = "pausing" => call[c].attempt < Attempts /\ MayRetry(call[c], "network-error")
    /\ ~MayRetry(call[c], "network-error") => call[c].attempt <= 1
    /\ call[c].result = "none" <=> call[c].pc # "settled"
    /\ \A n \in 1..Attempts : n > call[c].attempt => request[c][n] = Unsent

Gone(c) == {n \in 1..Attempts : request[c][n].stage = "gone"}

\* A request is carried out once, and is gone then.
Counted == \A c \in Calls : executed[c] <= Cardinality(Gone(c))

Under(k)      == {c \in Calls : call[c].key = k}
Running(c, n) == request[c][n].stage = "running"

\* While a request runs under a key no other does and none has been carried out;
\* once one has, the key is not free again.
KeyedAt(k) ==
  /\ \A c \in Under(k), n \in 1..Attempts : Running(c, n) =>
       /\ keyState[k] = "running"
       /\ \A d \in Under(k) : executed[d] = 0
       /\ \A d \in Under(k), m \in 1..Attempts : Running(d, m) => d = c /\ m = n
  /\ \A c \in Under(k) : executed[c] > 0 =>
       /\ keyState[k] # "free"
       /\ executed[c] = 1
       /\ \A d \in Under(k) : executed[d] > 0 => d = c

Keyed == \A k \in Keys : KeyedAt(k)

Refusal == {"forbidden", "validation", "rate-limit", "authentication"}

Obeyed(c) == executed[c] > 0 \/ (call[c].key # NoKey /\ keyState[call[c].key] = "done")

\* An answer that says yes is to a request that was carried out, and one that
\* says no to a request that never will be.
Heard ==
  \A c \in Calls :
    /\ \A n \in 1..Attempts : request[c][n].answer \in 200..299 => Obeyed(c)
    /\ call[c].attempt = 1 /\ request[c][1].answer \in 400..499
         => request[c][1].stage = "gone" /\ executed[c] = 0
    /\ call[c].result \in {"ok", "unreadable"} => Obeyed(c)
    /\ call[c].result \in Refusal /\ call[c].attempt = 1
         => request[c][1].stage = "gone" /\ executed[c] = 0

\* The reading on an answer was given after its request left.
Fresher ==
  \A c \in Calls : call[c].pc = "awaiting" =>
    Current(c).reading = 0 \/ Current(c).reading > call[c].since

IInv == Typed /\ Timed /\ Composed /\ Counted /\ Keyed /\ Heard /\ Fresher

-----------------------------------------------------------------------------
(* The operators.                                                           *)

\* What may never be repeated is not, and a create only under a key.
LEMMA Policies ==
  ASSUME NEW state
  PROVE  /\ state.op \in Unrepeatable => ~MayRetry(state, "network-error")
         /\ state.op \in Creates /\ state.key = NoKey => ~MayRetry(state, "network-error")
         /\ MayRetry(state, "server-error") <=> MayRetry(state, "network-error")
         /\ ~MayRetry(state, "refused") /\ ~MayRetry(state, "unexpected")
BY DEF MayRetry, RetryPolicy, MonitorRetry, ChannelRetry, Unrepeatable, Creates

\* Every refusal has a kind, and the kinds that say nothing was done are of
\* statuses a service refuses with.
LEMMA ErrorsAreOutcomes ==
  ASSUME NEW status \in Int, NEW route
  PROVE  /\ ErrorForStatus(status, route) \in Outcomes \ {"none", "ok", "unreadable"}
         /\ ErrorForStatus(status, route) \in Refusal => status \in 400..499
BY DEF ErrorForStatus, SignupErrorFor, Outcomes, Refusal

\* A pause is a length of time, no longer than what is left.
LEMMA PausesFit ==
  ASSUME NEW state \in CallState, Remaining(state) \in Nat
  PROVE  /\ LesserOf(DelayFor(state), Remaining(state)) \in Nat
         /\ LesserOf(DelayFor(state), Remaining(state)) <= Remaining(state)
<1>1. CreateDelay * state.attempt \in Nat
  BY TimeAssumption, AttemptsAssumption DEF CallState
<1>2. DelayFor(state) \in Nat
  BY <1>1, TimeAssumption DEF DelayFor
<1> QED
  BY <1>2 DEF LesserOf

\* The requests of a call that are gone are no more than its attempts.
LEMMA GoneCounts ==
  ASSUME Typed, Composed, NEW c \in Calls
  PROVE  /\ IsFiniteSet(Gone(c))
         /\ Cardinality(Gone(c)) \in Nat
         /\ Cardinality(Gone(c)) <= call[c].attempt
<1>1. call[c].attempt \in Nat /\ Attempts \in Nat
  BY AttemptsAssumption DEF Typed, CallState
<1>2. Gone(c) \subseteq 1..call[c].attempt
  BY <1>1 DEF Composed, Gone, Unsent
<1>3. IsFiniteSet(1..call[c].attempt) /\ Cardinality(1..call[c].attempt) = call[c].attempt
  <2> DEFINE size == call[c].attempt
  <2>1. size \in Nat
    BY <1>1
  <2> HIDE DEF size
  <2>2. IsFiniteSet(1..size) /\ Cardinality(1..size) = IF 1 > size THEN 0 ELSE size - 1 + 1
    BY <2>1, FS_Interval
  <2> QED
    BY <2>1, <2>2 DEF size
<1> QED
  BY <1>2, <1>3, FS_Subset, FS_CardinalityType

\* A call that has not begun has sent nothing and done nothing.
LEMMA IdleIsUntouched ==
  ASSUME IInv, NEW c \in Calls, call[c].pc = "idle"
  PROVE  /\ executed[c] = 0
         /\ \A n \in 1..Attempts : request[c][n] = Unsent
<1>1. call[c].attempt = 0
  BY DEF IInv, Composed
<1>2. Cardinality(Gone(c)) = 0
  BY <1>1, GoneCounts DEF IInv
<1>3. executed[c] = 0
  BY <1>2 DEF IInv, Counted, Typed
<1> QED
  BY <1>1, <1>3 DEF IInv, Composed

-----------------------------------------------------------------------------
(* A session begins inside the invariant.                                   *)

LEMMA InitIInv == Init => IInv
<1> SUFFICES ASSUME Init PROVE IInv
  OBVIOUS
<1>1. Typed
  BY TimeAssumption, AttemptsAssumption DEF Init, Idle, Unsent, Typed, CallState, Request, Answers, Outcomes
<1>2. Timed /\ Fresher /\ Keyed
  BY DEF Init, Idle, Unsent, Timed, Fresher, Keyed, KeyedAt, Running, Under
<1>3. Composed
  BY AttemptsAssumption DEF Init, Idle, Unsent, Composed
<1>4. Counted
  <2>1. \A c \in Calls : IsFiniteSet(Gone(c)) /\ Gone(c) = {}
    BY FS_EmptySet DEF Init, Unsent, Gone
  <2> QED
    BY <2>1, FS_EmptySet DEF Init, Counted
<1>5. Heard
  <2>1. \A c \in Calls : call[c].attempt = 0 /\ call[c].result = "none"
    BY DEF Init, Idle
  <2>2. \A c \in Calls, n \in 1..Attempts : request[c][n].answer = 0
    BY DEF Init, Unsent
  <2> QED
    BY <2>1, <2>2 DEF Heard, Refusal
<1> QED
  BY <1>1, <1>2, <1>3, <1>4, <1>5 DEF IInv

-----------------------------------------------------------------------------
(* The client.                                                              *)

\* The client sends requests and forgets answers; what the service has done and
\* is doing it leaves as it is.
ClientFrame(c) ==
  /\ call' \in [Calls -> CallState]
  /\ request' \in [Calls -> [1..Attempts -> Request]]
  /\ \A d \in Calls : d # c => call'[d] = call[d] /\ request'[d] = request[d]
  /\ call[c].pc # "idle" => call'[c].op = call[c].op /\ call'[c].key = call[c].key
  /\ \A n \in 1..Attempts :
       {request[c][n].stage, request'[c][n].stage} \cap {"running", "gone"} # {} =>
         request'[c][n].stage = request[c][n].stage
  /\ UNCHANGED <<keyState, executed, given>>

LEMMA ClientLeavesTheService ==
  ASSUME IInv, NEW c \in Calls, ClientFrame(c)
  PROVE  Counted' /\ Keyed'
<1> USE DEF IInv
<1>1. \A d \in Calls : Gone(d)' = Gone(d)
  BY DEF ClientFrame, Gone
<1>2. Counted'
  BY <1>1 DEF Counted, ClientFrame
<1>3. \A d \in Calls, n \in 1..Attempts : Running(d, n)' = Running(d, n)
  BY DEF ClientFrame, Running
<1>4. call[c].pc = "idle" => executed[c] = 0 /\ \A n \in 1..Attempts : ~Running(c, n)
  BY IdleIsUntouched DEF Running, Unsent
<1>5. Keyed'
  <2> SUFFICES ASSUME NEW k \in Keys
               PROVE  /\ \A d \in Under(k)', n \in 1..Attempts : Running(d, n) =>
                           /\ keyState[k] = "running"
                           /\ \A e \in Under(k)' : executed[e] = 0
                           /\ \A e \in Under(k)', m \in 1..Attempts : Running(e, m) => e = d /\ m = n
                      /\ \A d \in Under(k)' : executed[d] > 0 =>
                           /\ keyState[k] # "free"
                           /\ executed[d] = 1
                           /\ \A e \in Under(k)' : executed[e] > 0 => e = d
    BY <1>3 DEF Keyed, KeyedAt, ClientFrame, Under
  <2>1. \A d \in Under(k)' : d \in Under(k) \/ (executed[d] = 0 /\ \A n \in 1..Attempts : ~Running(d, n))
    BY <1>4 DEF Under, ClientFrame
  <2> QED
    BY <2>1 DEF Keyed, KeyedAt
<1> QED
  BY <1>2, <1>5

\* What may be retried is decided by the operation and the key.
LEMMA SamePolicy ==
  ASSUME NEW s, NEW t, s.op = t.op, s.key = t.key
  PROVE  MayRetry(s, "network-error") <=> MayRetry(t, "network-error")
BY DEF MayRetry

\* A step of a call that keeps within the frame keeps the invariant, if what it
\* makes of the call itself does.
LEMMA ClientKeeps ==
  ASSUME IInv, NEW c \in Calls, ClientFrame(c), UNCHANGED now,
         lastSeen' \in 0..given,
         call'[c].since <= given,
         call'[c].attempt \in {call[c].attempt, call[c].attempt + 1},
         \A n \in 1..Attempts : /\ request'[c][n].reading \in {0, request[c][n].reading}
                                /\ request'[c][n].answer \in {0, request[c][n].answer}
                                /\ n > call'[c].attempt => request'[c][n] = request[c][n],
         call'[c].pc = "awaiting" =>
           /\ call'[c].expiry = call'[c].deadline /\ now <= call'[c].expiry
           /\ call'[c].attempt > 0
           /\ \/ request'[c][call'[c].attempt].reading = 0
              \/ request'[c][call'[c].attempt].reading > call'[c].since,
         call'[c].pc = "pausing" =>
           /\ now <= call'[c].wake /\ call'[c].wake <= call'[c].deadline
           /\ call'[c].attempt < Attempts /\ MayRetry(call'[c], "network-error"),
         call'[c].pc # "idle",
         ~MayRetry(call'[c], "network-error") => call'[c].attempt <= 1,
         call'[c].result = "none" <=> call'[c].pc # "settled",
         call'[c].result \in {"ok", "unreadable"} => Obeyed(c),
         call'[c].result \in Refusal /\ call'[c].attempt = 1 =>
           request[c][1].stage = "gone" /\ executed[c] = 0,
         call'[c].result \in {"ok", "unreadable"} \cup Refusal => call[c].pc # "idle"
  PROVE  IInv'
<1> USE DEF IInv
<1>0. /\ \A d \in Calls : d # c => call'[d] = call[d] /\ request'[d] = request[d]
      /\ UNCHANGED <<keyState, executed, given>>
  BY DEF ClientFrame
<1>t. call[c].attempt \in Nat /\ Attempts \in Nat \ {0}
  BY AttemptsAssumption DEF Typed, CallState
<1>1. Typed'
  <2>1. \A d \in Calls : call'[d].since <= given
    BY <1>0 DEF Typed
  <2>2. \A d \in Calls, n \in 1..Attempts : request'[d][n].reading <= given
    <3> SUFFICES ASSUME NEW d \in Calls, NEW n \in 1..Attempts PROVE request'[d][n].reading <= given
      OBVIOUS
    <3>1. request[d][n].reading <= given
      BY DEF Typed
    <3>2. 0 <= given
      BY DEF Typed
    <3>3. d = c => request'[d][n].reading \in {0, request[d][n].reading}
      OBVIOUS
    <3>4. d # c => request'[d] = request[d]
      BY <1>0
    <3> QED
      BY <3>1, <3>2, <3>3, <3>4
  <2> QED
    BY <1>0, <2>1, <2>2 DEF Typed, ClientFrame
<1>2. Timed'
  BY <1>0 DEF Timed
<1>3. Composed'
  <2>1. \A n \in 1..Attempts : n > call'[c].attempt => request'[c][n] = Unsent
    BY <1>t DEF Composed
  <2> QED
    BY <1>0, <2>1 DEF Composed, Unsent
<1>4. Counted' /\ Keyed'
  BY ClientLeavesTheService
<1>5. Heard'
  <2>1. \A d \in Calls : d # c => (Obeyed(d)' <=> Obeyed(d))
    BY <1>0 DEF Obeyed
  <2>2. call[c].pc # "idle" => (Obeyed(c)' <=> Obeyed(c))
    BY <1>0 DEF Obeyed, ClientFrame
  <2>3. call[c].pc = "idle" => \A n \in 1..Attempts : request[c][n].answer = 0
    BY IdleIsUntouched DEF Unsent
  <2>4. ASSUME NEW n \in 1..Attempts, request'[c][n].answer \in 200..299 PROVE Obeyed(c)'
    <3>1. request'[c][n].answer = request[c][n].answer
      BY <2>4
    <3>2. call[c].pc # "idle"
      BY <2>3, <2>4, <3>1
    <3> QED
      BY <2>2, <2>4, <3>1, <3>2 DEF Heard
  <2>5. request[c][1].stage = "gone" => request'[c][1].stage = "gone"
    <3>1. 1 \in 1..Attempts
      BY <1>t
    <3> QED
      BY <3>1 DEF ClientFrame
  <2>6. call'[c].attempt = 1 /\ request'[c][1].answer \in 400..499
          => request'[c][1].stage = "gone" /\ executed[c] = 0
    <3>1. call[c].attempt = 0 => request[c][1].answer = 0
      BY <1>t DEF Composed, Unsent
    <3>2. 0 \notin 400..499 /\ 1 \in 1..Attempts
      BY <1>t
    <3> SUFFICES ASSUME call'[c].attempt = 1, request'[c][1].answer \in 400..499
                 PROVE  request'[c][1].stage = "gone" /\ executed[c] = 0
      OBVIOUS
    <3>3. request'[c][1].answer = request[c][1].answer
      BY <3>2
    <3>4. call[c].attempt = 1
      BY <1>t, <3>1, <3>2, <3>3
    <3> QED
      BY <2>5, <3>3, <3>4 DEF Heard
  <2>7. ASSUME NEW d \in Calls, d # c
        PROVE  /\ \A n \in 1..Attempts : request'[d][n].answer \in 200..299 => Obeyed(d)'
               /\ call'[d].attempt = 1 /\ request'[d][1].answer \in 400..499
                    => request'[d][1].stage = "gone" /\ executed'[d] = 0
               /\ call'[d].result \in {"ok", "unreadable"} => Obeyed(d)'
               /\ call'[d].result \in Refusal /\ call'[d].attempt = 1
                    => request'[d][1].stage = "gone" /\ executed'[d] = 0
    <3>1. call'[d] = call[d] /\ request'[d] = request[d] /\ executed'[d] = executed[d]
      BY <1>0, <2>7
    <3>2. Obeyed(d)' <=> Obeyed(d)
      BY <2>1, <2>7
    <3> QED
      BY <3>1, <3>2 DEF Heard
  <2>8. call'[c].result \in {"ok", "unreadable"} => Obeyed(c)'
    BY <2>2
  <2>9. call'[c].result \in Refusal /\ call'[c].attempt = 1
          => request'[c][1].stage = "gone" /\ executed'[c] = 0
    BY <1>0, <2>5
  <2> QED
    BY ZenonT(40), <1>0, <2>4, <2>6, <2>7, <2>8, <2>9 DEF Heard
<1>6. Fresher'
  BY <1>0 DEF Fresher, Current
<1> QED
  BY <1>1, <1>2, <1>3, <1>4, <1>5, <1>6

\* One turn of the loop, from a call that has an attempt left to make.
LEMMA TurnKeeps ==
  ASSUME IInv, NEW c \in Calls, NEW state \in CallState, TryAgain(c, state),
         state.attempt = call[c].attempt, state.attempt < Attempts,
         state.attempt = 0 \/ MayRetry(state, "network-error"),
         state.result = "none",
         call[c].pc # "idle" => state.op = call[c].op /\ state.key = call[c].key,
         UNCHANGED <<now, keyState, executed, lastSeen, given>>
  PROVE  IInv'
<1> DEFINE n == state.attempt + 1
<1>1. /\ n \in 1..Attempts /\ now \in 0..Horizon /\ lastSeen \in 0..given /\ given \in Nat
      /\ state.deadline \in 0..Horizon /\ call[c].attempt \in Nat /\ n = call[c].attempt + 1
  BY AttemptsAssumption DEF IInv, Typed, CallState
<1>2. request[c][n] = Unsent
  <2>1. n > call[c].attempt
    BY <1>1
  <2> QED
    BY <1>1, <2>1 DEF IInv, Composed
<1>3. CASE Remaining(state) <= 0 \/ AbortedAlready(state)
  <2> DEFINE result == IF Remaining(state) <= 0 THEN "timeout" ELSE "aborted"
             over == Over(state, result)
  <2>1. call' = [call EXCEPT ![c] = over] /\ UNCHANGED request
    BY <1>3 DEF TryAgain
  <2>2. /\ over \in CallState /\ over.pc = "settled" /\ over.op = state.op /\ over.key = state.key
        /\ over.attempt = state.attempt /\ over.since = 0 /\ over.result = result
    <3>1. result \in Outcomes /\ 0 \in 0..Horizon
      BY TimeAssumption DEF Outcomes
    <3> HIDE DEF result
    <3> QED
      BY <3>1 DEF Over, Idle, CallState
  <2>3. call'[c] = over
    BY <2>1 DEF IInv, Typed
  <2>4. ClientFrame(c)
    BY <2>1, <2>2, <2>3 DEF ClientFrame, IInv, Typed
  <2>5. MayRetry(over, "network-error") <=> MayRetry(state, "network-error")
    BY <2>2, SamePolicy
  <2>6. result \notin {"ok", "unreadable", "none"} \cup Refusal
    BY DEF Refusal
  <2> HIDE DEF over, result
  <2> QED
    BY <1>1, <2>1, <2>2, <2>3, <2>4, <2>5, <2>6, ClientKeeps
<1>4. CASE ~(Remaining(state) <= 0 \/ AbortedAlready(state))
  <2> DEFINE next == [state EXCEPT !.pc = "awaiting", !.attempt = n,
                                   !.expiry = now + Remaining(state), !.since = lastSeen]
  <2>1. /\ call' = [call EXCEPT ![c] = next]
        /\ request' = [request EXCEPT ![c][n].stage = "sent"]
    BY <1>4 DEF TryAgain
  <2>2. /\ next \in CallState /\ next.pc = "awaiting" /\ next.op = state.op /\ next.key = state.key
        /\ next.attempt = n /\ next.since = lastSeen /\ next.result = "none"
        /\ next.expiry = next.deadline /\ now <= next.expiry
    <3>1. now + Remaining(state) = state.deadline /\ now <= state.deadline
      BY <1>1, <1>4 DEF Remaining
    <3>2. n \in 0..Attempts /\ lastSeen \in Nat
      BY <1>1
    <3> HIDE DEF n
    <3> QED
      BY <1>1, <3>1, <3>2 DEF CallState
  <2>3. call'[c] = next
    BY <2>1 DEF IInv, Typed
  <2>4. /\ request' \in [Calls -> [1..Attempts -> Request]]
        /\ \A d \in Calls : d # c => request'[d] = request[d]
        /\ \A m \in 1..Attempts : m # n => request'[c][m] = request[c][m]
        /\ request'[c][n] = [stage |-> "sent", answer |-> 0, reading |-> 0]
    <3> HIDE DEF n
    <3>1. request \in [Calls -> [1..Attempts -> Request]]
      BY DEF IInv, Typed
    <3>2. request' = [request EXCEPT ![c] = [request[c] EXCEPT ![n] = [Unsent EXCEPT !.stage = "sent"]]]
      BY <1>1, <1>2, <2>1, <3>1
    <3>3. [Unsent EXCEPT !.stage = "sent"] = [stage |-> "sent", answer |-> 0, reading |-> 0]
      BY DEF Unsent
    <3>4. [stage |-> "sent", answer |-> 0, reading |-> 0] \in Request
      BY DEF Request, Answers
    <3> QED
      BY <1>1, <3>1, <3>2, <3>3, <3>4
  <2>5. ClientFrame(c)
    BY <1>2, <2>1, <2>2, <2>3, <2>4 DEF ClientFrame, IInv, Typed, Unsent
  <2>6. MayRetry(next, "network-error") <=> MayRetry(state, "network-error")
    BY <2>2, SamePolicy
  <2>7. \A m \in 1..Attempts :
          /\ request'[c][m].reading \in {0, request[c][m].reading}
          /\ request'[c][m].answer \in {0, request[c][m].answer}
    BY <2>4
  <2>8. "none" \notin {"ok", "unreadable"} \cup Refusal
    BY DEF Refusal
  <2> HIDE DEF next
  <2> QED
    BY <1>1, <2>2, <2>3, <2>4, <2>5, <2>6, <2>7, <2>8, ClientKeeps
<1> QED
  BY <1>3, <1>4

\* A caller who is told something, or waits for another attempt, no longer
\* listens for the answer to the request in flight.
LEMMA HangUpKeeps ==
  ASSUME IInv, NEW c \in Calls, call[c].pc = "awaiting", HangUp(c), NEW s \in CallState,
         call' = [call EXCEPT ![c] = s],
         s.op = call[c].op, s.key = call[c].key, s.attempt = call[c].attempt,
         s.since <= given,
         lastSeen' \in 0..given,
         \/ s.pc = "settled" /\ s.result # "none"
         \/ /\ s.pc = "pausing" /\ s.result = "none"
            /\ now <= s.wake /\ s.wake <= s.deadline
            /\ s.attempt < Attempts /\ MayRetry(call[c], "network-error"),
         s.result \in {"ok", "unreadable"} => Obeyed(c),
         s.result \in Refusal /\ s.attempt = 1 => request[c][1].stage = "gone" /\ executed[c] = 0,
         UNCHANGED <<now, keyState, executed, given>>
  PROVE  IInv'
<1> DEFINE n == call[c].attempt
<1>1. n \in 1..Attempts /\ n \in Nat
  BY AttemptsAssumption DEF IInv, Typed, Composed, CallState
<1>2. /\ request \in [Calls -> [1..Attempts -> Request]]
      /\ call \in [Calls -> CallState]
  BY DEF IInv, Typed
<1>3. call'[c] = s
  BY <1>2
<1>4. request' = [request EXCEPT ![c] =
                    [request[c] EXCEPT ![n] = [request[c][n] EXCEPT !.answer = 0, !.reading = 0]]]
  BY <1>1, <1>2 DEF HangUp
<1> HIDE DEF n
<1>5. /\ [request[c][n] EXCEPT !.answer = 0, !.reading = 0] \in Request
      /\ [request[c][n] EXCEPT !.answer = 0, !.reading = 0].stage = request[c][n].stage
      /\ [request[c][n] EXCEPT !.answer = 0, !.reading = 0].answer = 0
      /\ [request[c][n] EXCEPT !.answer = 0, !.reading = 0].reading = 0
  <2>1. request[c][n] \in Request
    BY <1>1, <1>2
  <2> QED
    BY ZenonT(40), <2>1 DEF Request, Answers
<1>6. /\ request' \in [Calls -> [1..Attempts -> Request]]
      /\ \A d \in Calls : d # c => request'[d] = request[d]
      /\ \A m \in 1..Attempts : m # n => request'[c][m] = request[c][m]
      /\ request'[c][n].stage = request[c][n].stage
      /\ request'[c][n].answer = 0 /\ request'[c][n].reading = 0
  BY <1>1, <1>2, <1>4, <1>5
<1>7. ClientFrame(c)
  BY <1>2, <1>3, <1>6 DEF ClientFrame
<1>8. MayRetry(s, "network-error") <=> MayRetry(call[c], "network-error")
  BY SamePolicy
<1>9. \A m \in 1..Attempts : /\ request'[c][m].reading \in {0, request[c][m].reading}
                             /\ request'[c][m].answer \in {0, request[c][m].answer}
                             /\ m > call'[c].attempt => request'[c][m] = request[c][m]
  BY <1>1, <1>3, <1>6 DEF n
<1>10. ~MayRetry(call[c], "network-error") => n <= 1
  BY DEF IInv, Composed, n
<1> QED
  BY <1>3, <1>7, <1>8, <1>9, <1>10, ClientKeeps DEF n

\* What a caller is told in the end.
LEMMA SettledState ==
  ASSUME IInv, NEW c \in Calls, NEW result \in Outcomes
  PROVE  /\ Over(call[c], result) \in CallState
         /\ Over(call[c], result).pc = "settled" /\ Over(call[c], result).op = call[c].op
         /\ Over(call[c], result).key = call[c].key /\ Over(call[c], result).since = 0
         /\ Over(call[c], result).attempt = call[c].attempt
         /\ Over(call[c], result).result = result
<1>1. call[c] \in CallState /\ 0 \in 0..Horizon
  BY TimeAssumption DEF IInv, Typed
<1> QED
  BY <1>1 DEF Over, Idle, CallState

LEMMA SettledKeeps ==
  ASSUME IInv, NEW c \in Calls, call[c].pc = "awaiting", HangUp(c), NEW result \in Outcomes \ {"none"},
         call' = Settled(c, result),
         lastSeen' \in 0..given,
         result \in {"ok", "unreadable"} => Obeyed(c),
         result \in Refusal /\ call[c].attempt = 1 => request[c][1].stage = "gone" /\ executed[c] = 0,
         UNCHANGED <<now, keyState, executed, given>>
  PROVE  IInv'
<1> DEFINE s == Over(call[c], result)
<1>1. /\ s \in CallState /\ s.pc = "settled" /\ s.op = call[c].op /\ s.key = call[c].key
      /\ s.since = 0 /\ s.attempt = call[c].attempt /\ s.result = result
  BY SettledState
<1>2. call' = [call EXCEPT ![c] = s]
  BY DEF Settled
<1>3. 0 <= given
  BY DEF IInv, Typed
<1> HIDE DEF s
<1> QED
  BY <1>1, <1>2, <1>3, HangUpKeeps

\* An attempt that failed, of whatever it failed.
LEMMA FailedKeeps ==
  ASSUME IInv, NEW c \in Calls, call[c].pc = "awaiting", HangUp(c),
         NEW failure \in {"network-error", "unexpected", "server-error", "refused"},
         NEW result \in Outcomes \ {"none", "ok", "unreadable"},
         Failed(c, failure, result),
         lastSeen' \in 0..given,
         result \in Refusal /\ call[c].attempt = 1 => request[c][1].stage = "gone" /\ executed[c] = 0,
         UNCHANGED <<now, keyState, executed, given>>
  PROVE  IInv'
<1>1. CASE call[c].attempt >= Attempts \/ ~MayRetry(call[c], failure)
  BY <1>1, SettledKeeps DEF Failed
<1>2. CASE ~(call[c].attempt >= Attempts \/ ~MayRetry(call[c], failure))
  <2> DEFINE pause == LesserOf(DelayFor(call[c]), Remaining(call[c]))
             s == [call[c] EXCEPT !.pc = "pausing", !.wake = now + pause]
  <2>1. call' = [call EXCEPT ![c] = s]
    BY <1>2 DEF Failed
  <2>2. MayRetry(call[c], "network-error")
    BY <1>2, Policies
  <2>3. /\ call[c] \in CallState /\ now \in Nat /\ call[c].deadline \in 0..Horizon
        /\ call[c].attempt < Attempts /\ call[c].since <= given /\ given \in Nat
    BY <1>2, AttemptsAssumption DEF IInv, Typed, CallState
  <2>4. Remaining(call[c]) \in Nat /\ now + Remaining(call[c]) = call[c].deadline
    BY <2>3 DEF IInv, Timed, Remaining
  <2>5. pause \in Nat /\ pause <= Remaining(call[c])
    BY <2>3, <2>4, PausesFit
  <2> HIDE DEF pause
  <2>6. now + pause \in 0..Horizon /\ now <= now + pause /\ now + pause <= call[c].deadline
    BY <2>3, <2>4, <2>5, TimeAssumption
  <2>7. /\ s \in CallState /\ s.pc = "pausing" /\ s.op = call[c].op /\ s.key = call[c].key
        /\ s.since = call[c].since /\ s.attempt = call[c].attempt /\ s.result = call[c].result
        /\ s.wake = now + pause /\ s.deadline = call[c].deadline
    BY <2>3, <2>6 DEF CallState
  <2>8. call[c].result = "none"
    BY DEF IInv, Composed
  <2>9. "none" \notin {"ok", "unreadable"} \cup Refusal
    BY DEF Refusal
  <2> HIDE DEF s
  <2> QED
    BY <2>1, <2>2, <2>3, <2>6, <2>7, <2>8, <2>9, HangUpKeeps
<1> QED
  BY <1>1, <1>2

LEMMA CallStep == ASSUME IInv, NEW c \in Calls, Call(c) PROVE IInv'
<1>1. PICK op \in Ops, key \in Keys \cup {NoKey}, signal \in BOOLEAN :
        \/ TryAgain(c, [Idle EXCEPT !.op = op, !.key = key, !.aborted = signal,
                                    !.deadline = now + Budget])
        \/ /\ call' = [call EXCEPT ![c] = Over([Idle EXCEPT !.op = op, !.key = key], "invalid")]
           /\ UNCHANGED request
  BY DEF Call
<1>2. /\ call[c].pc = "idle" /\ now \in Nat /\ now <= LastCall
      /\ UNCHANGED <<now, keyState, executed, lastSeen, given>>
      /\ call[c].attempt = 0 /\ lastSeen \in 0..given /\ given \in Nat
  BY DEF Call, IInv, Typed, Composed
<1>3. now + Budget \in 0..Horizon /\ 0 \in 0..Horizon /\ 0 \in 0..Attempts /\ 0 < Attempts
  BY <1>2, TimeAssumption, AttemptsAssumption
<1>4. CASE TryAgain(c, [Idle EXCEPT !.op = op, !.key = key, !.aborted = signal,
                                    !.deadline = now + Budget])
  <2> DEFINE s == [Idle EXCEPT !.op = op, !.key = key, !.aborted = signal, !.deadline = now + Budget]
  <2>1. s \in CallState /\ s.attempt = 0 /\ s.result = "none"
    BY <1>2, <1>3 DEF Idle, CallState, Outcomes
  <2>2. TryAgain(c, s)
    BY <1>4
  <2> HIDE DEF s
  <2> QED
    BY <1>2, <1>3, <2>1, <2>2, TurnKeeps
<1>5. CASE /\ call' = [call EXCEPT ![c] = Over([Idle EXCEPT !.op = op, !.key = key], "invalid")]
           /\ UNCHANGED request
  <2> DEFINE s == Over([Idle EXCEPT !.op = op, !.key = key], "invalid")
  <2>1. /\ s \in CallState /\ s.pc = "settled" /\ s.attempt = 0 /\ s.since = 0 /\ s.result = "invalid"
    BY <1>3 DEF Over, Idle, CallState, Outcomes
  <2>2. call \in [Calls -> CallState] /\ request \in [Calls -> [1..Attempts -> Request]]
    BY DEF IInv, Typed
  <2>3. call' = [call EXCEPT ![c] = s] /\ UNCHANGED request
    BY <1>5
  <2> HIDE DEF s
  <2>4. call'[c] = s /\ ClientFrame(c)
    BY <1>2, <2>1, <2>2, <2>3 DEF ClientFrame
  <2>5. "invalid" \notin {"ok", "unreadable", "none"} \cup Refusal
    BY DEF Refusal
  <2> QED
    BY <1>2, <2>1, <2>3, <2>4, <2>5, ClientKeeps
<1> QED
  BY <1>1, <1>4, <1>5

\* The status an answer carries is a number, and so is nothing yet.
LEMMA AnswersAreNumbers == Answers \subseteq Nat
BY RefusalsAssumption DEF Answers

LEMMA AnsweredStep == ASSUME IInv, NEW c \in Calls, Answered(c) PROVE IInv'
<1> DEFINE answer == Current(c).answer
<1>1. /\ call[c].pc = "awaiting" /\ HangUp(c) /\ answer # 0
      /\ lastSeen' = RateLimitFrom(Current(c).reading)
      /\ UNCHANGED <<now, keyState, executed, given>>
  BY DEF Answered
<1>2. call[c].attempt \in 1..Attempts
  BY <1>1, AttemptsAssumption DEF IInv, Typed, Composed, CallState
<1>3. Current(c) \in Request
  BY <1>2 DEF IInv, Typed, Current
<1>4. answer \in Nat /\ Current(c).reading \in Nat
  BY <1>3, AnswersAreNumbers DEF Request
<1>5. lastSeen' \in 0..given
  BY <1>1, <1>2, <1>4 DEF IInv, Typed, Current, RateLimitFrom
<1> HIDE DEF answer
<1>6. CASE IsSuccess(answer)
  <2>1. PICK result \in {"ok", "unreadable"} : call' = Settled(c, result)
    BY <1>6 DEF Answered, answer
  <2>2. answer \in 200..299
    BY <1>4, <1>6 DEF IsSuccess
  <2>3. Obeyed(c)
    BY <1>2, <2>2 DEF IInv, Heard, Current, answer
  <2>4. result \in Outcomes \ {"none"} /\ result \notin Refusal
    BY DEF Outcomes, Refusal
  <2> QED
    BY <1>1, <1>5, <2>1, <2>3, <2>4, SettledKeeps
<1>7. CASE ~IsSuccess(answer)
  <2> DEFINE failure == IF answer >= 500 THEN "server-error" ELSE "refused"
             result  == ErrorForStatus(answer, RouteOf(call[c].op))
  <2>1. Failed(c, failure, result)
    BY <1>7 DEF Answered, answer
  <2>2. result \in Outcomes \ {"none", "ok", "unreadable"} /\ (result \in Refusal => answer \in 400..499)
    BY <1>4, ErrorsAreOutcomes
  <2>3. result \in Refusal /\ call[c].attempt = 1 => request[c][1].stage = "gone" /\ executed[c] = 0
    BY <2>2 DEF IInv, Heard, Current, answer
  <2>4. failure \in {"network-error", "server-error", "refused"}
    OBVIOUS
  <2> HIDE DEF failure, result
  <2> QED
    BY <1>1, <1>5, <2>1, <2>2, <2>3, <2>4, FailedKeeps
<1> QED
  BY <1>6, <1>7

LEMMA EndStep ==
  ASSUME IInv, NEW c \in Calls, Lost(c) \/ TimedOut(c) \/ Abort(c) \/ Resume(c) PROVE IInv'
<1>0. lastSeen \in 0..given
  BY DEF IInv, Typed
<1>1. LET told == {"network-error", "unexpected", "timeout", "aborted"}
      IN  told \cap ({"ok", "unreadable", "none"} \cup Refusal) = {} /\ told \subseteq Outcomes
  BY DEF Refusal, Outcomes
<1>2. CASE Lost(c)
  <2>1. PICK failure \in {"network-error", "unexpected"} : Failed(c, failure, failure)
    BY <1>2 DEF Lost
  <2> QED
    BY <1>0, <1>1, <1>2, <2>1, FailedKeeps DEF Lost
<1>3. CASE TimedOut(c)
  BY <1>0, <1>1, <1>3, SettledKeeps DEF TimedOut
<1>4. CASE Abort(c) /\ call[c].pc = "awaiting"
  <2> DEFINE s == [Over(call[c], "aborted") EXCEPT !.aborted = TRUE]
  <2>1. call' = [call EXCEPT ![c] = s] /\ HangUp(c) /\ UNCHANGED <<now, keyState, executed, lastSeen, given>>
    BY <1>4 DEF Abort, Settled, IInv, Typed
  <2>2. /\ s \in CallState /\ s.pc = "settled" /\ s.op = call[c].op /\ s.key = call[c].key
        /\ s.since = 0 /\ s.attempt = call[c].attempt /\ s.result = "aborted"
    <3> DEFINE over == Over(call[c], "aborted")
    <3>1. /\ over \in CallState /\ over.pc = "settled" /\ over.op = call[c].op
          /\ over.key = call[c].key /\ over.since = 0 /\ over.attempt = call[c].attempt
          /\ over.result = "aborted"
      BY <1>1, SettledState
    <3> HIDE DEF over
    <3>2. LET t == [over EXCEPT !.aborted = TRUE] IN
            /\ t \in CallState /\ t.pc = "settled" /\ t.op = call[c].op
            /\ t.key = call[c].key /\ t.since = 0 /\ t.attempt = call[c].attempt
            /\ t.result = "aborted"
      BY <3>1 DEF CallState
    <3> QED
      BY <3>2 DEF over
  <2>3. 0 <= given
    BY DEF IInv, Typed
  <2> HIDE DEF s
  <2> QED
    BY <1>0, <1>1, <1>4, <2>1, <2>2, <2>3, HangUpKeeps
<1>5. CASE Abort(c) /\ call[c].pc = "pausing"
  <2> DEFINE s == [call[c] EXCEPT !.aborted = TRUE]
  <2>1. call' = [call EXCEPT ![c] = s] /\ UNCHANGED <<now, request, keyState, executed, lastSeen, given>>
    BY <1>5 DEF Abort, IInv, Typed
  <2>2. call \in [Calls -> CallState] /\ request \in [Calls -> [1..Attempts -> Request]] /\ call[c].since <= given
    BY DEF IInv, Typed
  <2>3. /\ s \in CallState /\ s.pc = "pausing" /\ s.op = call[c].op /\ s.key = call[c].key
        /\ s.since = call[c].since /\ s.attempt = call[c].attempt /\ s.result = call[c].result
        /\ s.wake = call[c].wake /\ s.deadline = call[c].deadline
    BY <1>5, <2>2 DEF CallState
  <2> HIDE DEF s
  <2>4. call'[c] = s /\ ClientFrame(c)
    BY <2>1, <2>2, <2>3 DEF ClientFrame
  <2>5. MayRetry(s, "network-error") <=> MayRetry(call[c], "network-error")
    BY <2>3, SamePolicy
  <2>6. /\ now <= call[c].wake /\ call[c].wake <= call[c].deadline /\ call[c].attempt < Attempts
        /\ MayRetry(call[c], "network-error") /\ call[c].result = "none"
    BY <1>5 DEF IInv, Timed, Composed
  <2>7. "none" \notin {"ok", "unreadable"} \cup Refusal
    BY DEF Refusal
  <2> QED
    BY <1>0, <2>1, <2>2, <2>3, <2>4, <2>5, <2>6, <2>7, ClientKeeps
<1>6. CASE Resume(c)
  <2>1. call[c] \in CallState
    BY DEF IInv, Typed
  <2>2. call[c].attempt < Attempts /\ MayRetry(call[c], "network-error") /\ call[c].result = "none"
    BY <1>6 DEF IInv, Composed, Resume
  <2>3. TryAgain(c, call[c]) /\ UNCHANGED <<now, keyState, executed, lastSeen, given>>
    BY <1>6 DEF Resume
  <2> QED
    BY <2>1, <2>2, <2>3, TurnKeeps
<1> QED
  BY <1>2, <1>3, <1>4, <1>5, <1>6 DEF Abort

-----------------------------------------------------------------------------
(* The service.                                                             *)

\* A request that has been sent belongs to an attempt there has been, and the
\* only request of a call that is not gone is all the call has asked for.
LEMMA OnTheWay ==
  ASSUME IInv, NEW c \in Calls, NEW n \in 1..Attempts, request[c][n].stage \in {"sent", "running"}
  PROVE  /\ n <= call[c].attempt
         /\ call[c].attempt = 1 => n = 1 /\ executed[c] = 0
         /\ ~(call[c].attempt = 1 /\ request[c][n].answer \in 400..499)
<1>1. call[c].attempt \in Nat /\ n \in Nat /\ n >= 1
  BY DEF IInv, Typed, CallState
<1>2. n <= call[c].attempt
  BY <1>1 DEF IInv, Composed, Unsent
<1>3. ASSUME call[c].attempt = 1 PROVE n = 1 /\ executed[c] = 0
  <2>1. n = 1
    BY <1>1, <1>2, <1>3
  <2>2. \A m \in 1..Attempts : m # 1 => request[c][m] = Unsent
    BY <1>3 DEF IInv, Composed
  <2>3. Gone(c) = {}
    BY <2>1, <2>2 DEF Gone, Unsent
  <2>4. executed[c] \in Nat /\ executed[c] <= 0
    BY <2>3, FS_EmptySet DEF IInv, Counted, Typed
  <2> QED
    BY <2>1, <2>4
<1> QED
  BY <1>2, <1>3 DEF IInv, Heard

\* A key is recorded as running while its request runs, and a key that is free
\* has no request under way and none that was carried out.
LEMMA KeyRecord ==
  ASSUME IInv, NEW c \in Calls, call[c].key \in Keys
  PROVE  /\ \A n \in 1..Attempts : Running(c, n) => keyState[call[c].key] = "running"
         /\ keyState[call[c].key] = "free" =>
              \A d \in Under(call[c].key) : executed[d] = 0 /\ \A n \in 1..Attempts : ~Running(d, n)
<1>1. KeyedAt(call[c].key) /\ c \in Under(call[c].key)
  BY DEF IInv, Keyed, Under
<1>2. \A d \in Under(call[c].key) : executed[d] \in Nat
  BY DEF IInv, Typed, Under
<1> QED
  BY <1>1, <1>2 DEF KeyedAt

\* What a step of the service does to a request, and what it must keep of the
\* record of its key and of what was promised, for the invariant to hold.
Served(c, n, r, done) ==
  /\ request[c][n].stage \in {"sent", "running"} /\ r.stage \in {"running", "gone"}
  /\ request' = [request EXCEPT ![c] = [request[c] EXCEPT ![n] = r]]
  /\ UNCHANGED <<now, call, lastSeen>>
  /\ \/ r.reading = request[c][n].reading /\ given' = given
     \/ r.reading = given + 1 /\ given' = given + 1
  /\ \/ done = 0 /\ UNCHANGED executed
     \/ done = 1 /\ executed' = [executed EXCEPT ![c] = executed[c] + 1] /\ r.stage = "gone"
  /\ keyState' \in [Keys -> {"free", "running", "done"}]
  /\ \A k \in Keys : (k # call[c].key \/ keyState[k] = "done") => keyState'[k] = keyState[k]
  /\ call[c].key \in Keys =>
       \/ Running(c, n) /\ r.stage = "gone" /\ (done = 1 => keyState'[call[c].key] # "free")
       \/ /\ r.stage # "running" \/ Running(c, n)
          /\ done = 0 /\ keyState'[call[c].key] = keyState[call[c].key]
       \/ keyState[call[c].key] = "free" /\ done = 0 /\ keyState'[call[c].key] = "running"
  /\ \/ r.answer = request[c][n].answer
     \/ /\ r.answer \in 200..299 => Obeyed(c)'
        /\ call[c].attempt = 1 /\ r.answer \in 400..499 => r.stage = "gone" /\ executed'[c] = 0

LEMMA ServiceKeeps ==
  ASSUME IInv, NEW c \in Calls, NEW n \in 1..Attempts, NEW r \in Request, NEW done \in {0, 1},
         Served(c, n, r, done)
  PROVE  IInv'
<1>0. /\ call \in [Calls -> CallState]
      /\ request \in [Calls -> [1..Attempts -> Request]] /\ executed \in [Calls -> Nat]
      /\ given \in Nat /\ executed[c] \in Nat
  BY DEF IInv, Typed
<1>u. UNCHANGED <<now, call, lastSeen>>
  BY DEF Served
<1>r. \/ r.reading = request[c][n].reading /\ given' = given
      \/ r.reading = given + 1 /\ given' = given + 1
  BY DEF Served
<1>e. \/ done = 0 /\ UNCHANGED executed
      \/ done = 1 /\ executed' = [executed EXCEPT ![c] = executed[c] + 1] /\ r.stage = "gone"
  BY DEF Served
<1>s. request[c][n].stage \in {"sent", "running"} /\ r.stage \in {"running", "gone"}
  BY DEF Served
<1>g. given' \in Nat /\ given <= given' /\ given' <= given + 1
  BY <1>0, <1>r
<1>1. /\ request' \in [Calls -> [1..Attempts -> Request]]
      /\ request'[c][n] = r
      /\ \A d \in Calls : d # c => request'[d] = request[d]
      /\ \A m \in 1..Attempts : m # n => request'[c][m] = request[c][m]
  BY <1>0 DEF Served
<1>2. /\ executed' \in [Calls -> Nat]
      /\ executed'[c] = executed[c] + done
      /\ \A d \in Calls : d # c => executed'[d] = executed[d]
  <2>1. CASE done = 0
    BY <1>0, <1>e, <2>1
  <2>2. CASE done = 1
    BY <1>0, <1>e, <2>2
  <2> QED
    BY <2>1, <2>2
<1>3. n <= call[c].attempt /\ (call[c].attempt = 1 => n = 1) /\ 1 \in 1..Attempts
  BY OnTheWay, AttemptsAssumption DEF Served
<1>4. Typed'
  <2>1. \A d \in Calls : call[d].since <= given' /\ call[d].since \in Nat
    <3>1. \A d \in Calls : call[d].since <= given /\ call[d].since \in Nat
      BY <1>0 DEF IInv, Typed, CallState
    <3> QED
      BY <1>0, <1>g, <3>1
  <2>2. lastSeen \in 0..given'
    <3>1. lastSeen \in 0..given
      BY DEF IInv, Typed
    <3> QED
      BY <1>0, <1>g, <3>1
  <2>3. \A d \in Calls, m \in 1..Attempts : request[d][m].reading \in Nat /\ request[d][m].reading <= given
    BY <1>0 DEF IInv, Typed, Request
  <2>4. r.reading <= given'
    BY <1>0, <1>g, <1>r, <2>3
  <2>5. ASSUME NEW d \in Calls, NEW m \in 1..Attempts PROVE request'[d][m].reading <= given'
    <3>1. CASE d = c /\ m = n
      BY <1>1, <2>4, <3>1
    <3>2. CASE ~(d = c /\ m = n)
      <4>1. request'[d][m] = request[d][m]
        BY <1>1, <3>2
      <4> QED
        BY <1>0, <1>g, <2>3, <4>1
    <3> QED
      BY <3>1, <3>2
  <2>6. now' \in 0..Horizon /\ call' \in [Calls -> CallState] /\ call' = call /\ lastSeen' = lastSeen
    BY <1>u DEF IInv, Typed
  <2> QED
    BY <1>1, <1>2, <1>g, <2>1, <2>2, <2>5, <2>6 DEF Typed, Served
<1>5. Timed'
  BY <1>u DEF IInv, Timed
<1>6. Composed'
  <2>1. \A d \in Calls, m \in 1..Attempts : m > call[d].attempt => request'[d][m] = Unsent
    <3> SUFFICES ASSUME NEW d \in Calls, NEW m \in 1..Attempts, m > call[d].attempt
                 PROVE  request'[d][m] = Unsent
      OBVIOUS
    <3>1. ~(d = c /\ m = n)
      BY <1>0, <1>3 DEF CallState
    <3>2. request'[d][m] = request[d][m]
      BY <1>1, <3>1
    <3> QED
      BY <3>2 DEF IInv, Composed
  <2>2. Unsent' = Unsent /\ call' = call
    BY <1>u DEF Unsent
  <2>3. \A d \in Calls : MayRetry(call[d], "network-error")' <=> MayRetry(call[d], "network-error")
    BY <1>u DEF MayRetry
  <2> QED
    BY <2>1, <2>2, <2>3 DEF IInv, Composed
<1>7. Counted'
  <2> SUFFICES ASSUME NEW d \in Calls PROVE executed'[d] <= Cardinality(Gone(d)')
    BY DEF Counted
  <2>0. IsFiniteSet(Gone(d)) /\ Cardinality(Gone(d)) \in Nat /\ executed[d] <= Cardinality(Gone(d))
    BY GoneCounts DEF IInv, Counted
  <2>1. CASE d # c
    <3>1. Gone(d)' = Gone(d)
      BY <1>1, <2>1 DEF Gone
    <3> QED
      BY <1>2, <2>0, <2>1, <3>1
  <2>2. CASE d = c /\ r.stage = "gone"
    <3>1. Gone(d)' = Gone(d) \cup {n} /\ n \notin Gone(d)
      BY <1>1, <1>s, <2>2 DEF Gone
    <3>2. Cardinality(Gone(d)') = Cardinality(Gone(d)) + 1
      BY <2>0, <3>1, FS_AddElement
    <3> QED
      <4>1. executed'[d] <= executed[d] + 1 /\ executed'[d] \in Nat /\ executed[d] \in Nat
        BY <1>0, <1>2, <2>2
      <4> QED
        BY <2>0, <3>2, <4>1
  <2>3. CASE d = c /\ r.stage # "gone"
    <3>1. Gone(d)' = Gone(d)
      BY <1>1, <1>s, <2>3 DEF Gone
    <3>2. executed'[d] = executed[d]
      <4>1. done = 0
        BY <1>e, <2>3
      <4> QED
        BY <1>0, <1>2, <2>3, <4>1
    <3> QED
      BY <2>0, <3>1, <3>2
  <2> QED
    BY <2>1, <2>2, <2>3
<1>8. Keyed'
  <2> SUFFICES ASSUME NEW k \in Keys PROVE KeyedAt(k)'
    BY DEF Keyed
  <2>1. Under(k)' = Under(k) /\ Under(k) \subseteq Calls /\ (c \in Under(k) <=> k = call[c].key)
    BY <1>u DEF Under
  <2>2. \A d \in Under(k) : d # c => executed'[d] = executed[d] /\ \A m \in 1..Attempts : Running(d, m)' <=> Running(d, m)
    BY <1>1, <1>2, <2>1 DEF Running
  <2>3. KeyedAt(k)
    BY DEF IInv, Keyed
  <2>4. \A m \in 1..Attempts : m # n => (Running(c, m)' <=> Running(c, m))
    BY <1>1 DEF Running
  <2>5. (Running(c, n)' <=> r.stage = "running")
    BY <1>1 DEF Running
  <2>6. CASE k # call[c].key
    <3>1. keyState'[k] = keyState[k]
      BY <2>6 DEF Served
    <3> QED
      BY <2>1, <2>2, <2>3, <2>6, <3>1 DEF KeyedAt
  <2>7. CASE k = call[c].key /\ Running(c, n) /\ r.stage = "gone" /\ (done = 1 => keyState'[k] # "free")
    <3>1. /\ \A d \in Under(k) : executed[d] = 0
          /\ \A d \in Under(k), m \in 1..Attempts : Running(d, m) => d = c /\ m = n
      BY <2>1, <2>3, <2>7 DEF KeyedAt
    <3>2. \A d \in Under(k), m \in 1..Attempts : ~Running(d, m)'
      BY <2>2, <2>4, <2>5, <2>7, <3>1
    <3>3. executed'[c] = done /\ \A d \in Under(k) : d # c => executed'[d] = 0
      <4>1. executed[c] + done = done
        BY <2>1, <2>7, <3>1
      <4> QED
        BY <1>2, <2>2, <3>1, <4>1
    <3>4. \A d \in Under(k) : executed'[d] > 0 => d = c /\ done = 1
      BY <3>3
    <3> QED
      BY <2>1, <2>7, <3>2, <3>3, <3>4 DEF KeyedAt
  <2>8. CASE /\ k = call[c].key /\ (r.stage # "running" \/ Running(c, n))
             /\ done = 0 /\ keyState'[k] = keyState[k]
    <3>1. executed'[c] = executed[c]
      BY <1>0, <1>2, <2>8
    <3>2. \A d \in Under(k), m \in 1..Attempts : Running(d, m)' => Running(d, m)
      BY <2>2, <2>4, <2>5, <2>8
    <3>3. \A d \in Under(k) : executed'[d] = executed[d]
      BY <2>2, <3>1
    <3> QED
      BY <2>1, <2>3, <2>8, <3>2, <3>3 DEF KeyedAt
  <2>9. CASE k = call[c].key /\ keyState[k] = "free" /\ done = 0 /\ keyState'[k] = "running"
    <3>1. \A d \in Under(k) : executed[d] = 0 /\ \A m \in 1..Attempts : ~Running(d, m)
      BY <2>9, KeyRecord
    <3>2. executed'[c] = executed[c]
      BY <1>0, <1>2, <2>9
    <3>3. \A d \in Under(k) : executed'[d] = 0
      BY <2>2, <3>1, <3>2
    <3>4. \A d \in Under(k), m \in 1..Attempts : Running(d, m)' => d = c /\ m = n
      BY <2>2, <2>4, <3>1
    <3> QED
      BY <2>1, <2>9, <3>3, <3>4 DEF KeyedAt
  <2> QED
    BY <2>6, <2>7, <2>8, <2>9 DEF Served
<1>9. Heard'
  <2>1. ASSUME NEW d \in Calls, Obeyed(d) PROVE Obeyed(d)'
    <3>1. CASE executed[d] > 0
      <4>1. executed'[d] > 0
        <5>1. executed[d] \in Nat /\ executed'[d] \in {executed[d], executed[d] + done}
          BY <1>0, <1>2
        <5> QED
          BY <3>1, <5>1
      <4> QED
        BY <4>1 DEF Obeyed
    <3>2. CASE call[d].key # NoKey /\ keyState[call[d].key] = "done"
      <4>1. call[d].key \in Keys
        BY <1>0, <3>2 DEF CallState
      <4> QED
        BY <1>u, <3>2, <4>1 DEF Obeyed, Served
    <3> QED
      BY <2>1, <3>1, <3>2 DEF Obeyed
  <2>2. ASSUME NEW d \in Calls, NEW m \in 1..Attempts, request'[d][m].answer \in 200..299 PROVE Obeyed(d)'
    <3>1. CASE d = c /\ m = n
      <4>1. CASE r.answer = request[c][n].answer
        BY <1>1, <2>1, <2>2, <3>1, <4>1 DEF IInv, Heard
      <4>2. CASE r.answer # request[c][n].answer
        BY <1>1, <2>2, <3>1, <4>2 DEF Served
      <4> QED
        BY <4>1, <4>2
    <3>2. CASE ~(d = c /\ m = n)
      <4>1. request'[d][m] = request[d][m]
        BY <1>1, <3>2
      <4> QED
        BY <2>1, <2>2, <4>1 DEF IInv, Heard
    <3> QED
      BY <3>1, <3>2
  <2>3. ASSUME NEW d \in Calls, call[d].attempt = 1, request'[d][1].answer \in 400..499
        PROVE  request'[d][1].stage = "gone" /\ executed'[d] = 0
    <3>1. CASE d = c
      <4>1. n = 1 /\ ~(request[c][n].answer \in 400..499)
        BY <1>s, <2>3, <3>1, OnTheWay
      <4>2. request'[d][1].answer = r.answer /\ request'[d][1].stage = r.stage
        BY <1>1, <3>1, <4>1
      <4>3. r.answer \in 400..499 /\ call[c].attempt = 1
        BY <2>3, <3>1, <4>2
      <4>4. r.stage = "gone" /\ executed'[c] = 0
        BY <4>1, <4>3 DEF Served
      <4> QED
        BY <3>1, <4>2, <4>4
    <3>2. CASE d # c
      <4>1. request'[d] = request[d] /\ executed'[d] = executed[d]
        BY <1>1, <1>2, <3>2
      <4> QED
        BY <2>3, <4>1 DEF IInv, Heard
    <3> QED
      BY <3>1, <3>2
  <2>4. ASSUME NEW d \in Calls, call[d].result \in Refusal, call[d].attempt = 1
        PROVE  request'[d][1].stage = "gone" /\ executed'[d] = 0
    <3>1. request[d][1].stage = "gone" /\ executed[d] = 0
      BY <2>4 DEF IInv, Heard
    <3>2. d # c
      BY <1>3, <2>4, <3>1 DEF Served
    <3> QED
      BY <1>1, <1>2, <3>1, <3>2
  <2>5. \A d \in Calls : call[d].result \in {"ok", "unreadable"} => Obeyed(d)'
    BY <2>1 DEF IInv, Heard
  <2>6. call' = call /\ Refusal' = Refusal
    BY <1>u DEF Refusal
  <2> QED
    BY <2>2, <2>3, <2>4, <2>5, <2>6 DEF Heard
<1>10. Fresher'
  <2> SUFFICES ASSUME NEW d \in Calls, call[d].pc = "awaiting"
               PROVE  \/ request'[d][call[d].attempt].reading = 0
                      \/ request'[d][call[d].attempt].reading > call[d].since
    BY <1>u DEF Fresher, Current
  <2>0. \/ request[d][call[d].attempt].reading = 0
        \/ request[d][call[d].attempt].reading > call[d].since
    BY DEF IInv, Fresher, Current
  <2>1. call[d].attempt \in 1..Attempts /\ call[d].since \in Nat /\ call[d].since <= given
    <3>1. call[d].attempt > 0 /\ call[d].since <= given
      BY DEF IInv, Typed, Composed
    <3>2. call[d] \in CallState
      BY DEF IInv, Typed
    <3>3. call[d].attempt \in 0..Attempts /\ call[d].since \in Nat
      BY <3>2 DEF CallState
    <3> QED
      BY <3>1, <3>3, AttemptsAssumption
  <2>2. CASE d = c /\ call[d].attempt = n
    BY <1>0, <1>1, <1>r, <2>0, <2>1, <2>2
  <2>3. CASE ~(d = c /\ call[d].attempt = n)
    <3>1. request'[d][call[d].attempt] = request[d][call[d].attempt]
      BY <1>1, <2>1, <2>3
    <3> QED
      BY <2>0, <3>1
  <2> QED
    BY <2>2, <2>3
<1> QED
  BY <1>4, <1>5, <1>6, <1>7, <1>8, <1>9, <1>10 DEF IInv

\* An answer is given once, to one who listens, and the request is gone.
LEMMA AnswerGives ==
  ASSUME IInv, NEW c \in Calls, NEW n \in 1..Attempts, NEW status \in Answers, Answer(c, n, status)
  PROVE  \E r \in Request :
           /\ r.stage = "gone"
           /\ request' = [request EXCEPT ![c] = [request[c] EXCEPT ![n] = r]]
           /\ \/ r.reading = request[c][n].reading /\ given' = given
              \/ r.reading = given + 1 /\ given' = given + 1
           /\ r.answer \in {request[c][n].answer, status}
<1>1. /\ request \in [Calls -> [1..Attempts -> Request]] /\ given \in Nat
      /\ request[c][n] \in Request
  BY DEF IInv, Typed
<1>2. CASE Awaited(c, n) /\ request[c][n].answer = 0
  <2> DEFINE r == [stage |-> "gone", answer |-> status, reading |-> given + 1]
  <2>1. /\ r \in Request /\ r.stage = "gone" /\ r.answer = status /\ r.reading = given + 1
    BY <1>1 DEF Request
  <2>2. /\ given' = given + 1
        /\ request' = [request EXCEPT ![c][n] = r]
    BY <1>2 DEF Answer
  <2> HIDE DEF r
  <2>3. request' = [request EXCEPT ![c] = [request[c] EXCEPT ![n] = r]]
    BY <1>1, <2>2
  <2> QED
    BY <2>1, <2>2, <2>3
<1>3. CASE ~(Awaited(c, n) /\ request[c][n].answer = 0)
  <2> DEFINE r == [request[c][n] EXCEPT !.stage = "gone"]
  <2>1. /\ r \in Request /\ r.stage = "gone" /\ r.answer = request[c][n].answer
        /\ r.reading = request[c][n].reading
    BY <1>1 DEF Request
  <2>2. /\ given' = given
        /\ request' = [request EXCEPT ![c][n].stage = "gone"]
    BY <1>3 DEF Answer
  <2>3. request' = [request EXCEPT ![c] = [request[c] EXCEPT ![n] = r]]
    BY <1>1, <2>2
  <2> HIDE DEF r
  <2> QED
    BY <2>1, <2>2, <2>3
<1> QED
  BY <1>2, <1>3

LEMMA ReachStep == ASSUME IInv, NEW c \in Calls, NEW n \in 1..Attempts, Reach(c, n) PROVE IInv'
<1> DEFINE key == call[c].key
<1>1. /\ request[c][n].stage = "sent" /\ UNCHANGED <<now, call, executed, lastSeen>>
      /\ 0 \in {0, 1}
  BY DEF Reach
<1>2. /\ request \in [Calls -> [1..Attempts -> Request]] /\ executed \in [Calls -> Nat]
      /\ request[c][n] \in Request /\ keyState \in [Keys -> {"free", "running", "done"}]
      /\ key \in Keys \cup {NoKey} /\ given \in Nat
  BY DEF IInv, Typed, CallState
<1>4. CASE key # NoKey /\ keyState[key] # "free"
  <2> DEFINE status == IF keyState[key] = "done" THEN 201 ELSE 409
  <2>1. Answer(c, n, status) /\ UNCHANGED keyState
    BY <1>4 DEF Reach, Carried
  <2>2. status \in Answers /\ (status \in 200..299 => keyState[key] = "done")
    BY DEF Answers
  <2> HIDE DEF status
  <2>3. PICK r \in Request :
          /\ r.stage = "gone"
          /\ request' = [request EXCEPT ![c] = [request[c] EXCEPT ![n] = r]]
          /\ \/ r.reading = request[c][n].reading /\ given' = given
             \/ r.reading = given + 1 /\ given' = given + 1
          /\ r.answer \in {request[c][n].answer, status}
    BY <2>1, <2>2, AnswerGives
  <2>6. status \in 200..299 => Obeyed(c)'
    BY <1>1, <1>4, <2>1, <2>2 DEF Obeyed
  <2>7. call[c].attempt = 1 => executed[c] = 0
    BY <1>1, OnTheWay
  <2>8. Served(c, n, r, 0)
    BY <1>1, <1>2, <2>1, <2>3, <2>6, <2>7 DEF Served
  <2> QED
    BY <1>1, <2>8, ServiceKeeps
<1>5. CASE ~(key # NoKey /\ keyState[key] # "free")
  <2> DEFINE r == [request[c][n] EXCEPT !.stage = "running"]
  <2>1. /\ request' = [request EXCEPT ![c][n].stage = "running"]
        /\ keyState' = WithKey(key, "running")
        /\ UNCHANGED given
    BY <1>5 DEF Reach, Carried
  <2>2. /\ r \in Request /\ r.stage = "running" /\ r.answer = request[c][n].answer
        /\ r.reading = request[c][n].reading
    BY <1>2 DEF Request
  <2>3. request' = [request EXCEPT ![c] = [request[c] EXCEPT ![n] = r]]
    BY <1>2, <2>1
  <2> HIDE DEF r
  <2>4. /\ keyState' \in [Keys -> {"free", "running", "done"}]
        /\ \A k \in Keys : (k # key \/ keyState[k] = "done") => keyState'[k] = keyState[k]
        /\ key \in Keys => keyState'[key] = "running"
    BY <1>2, <1>5, <2>1, KeysAssumption DEF WithKey
  <2>6. Served(c, n, r, 0)
    <3>1. /\ request[c][n].stage \in {"sent", "running"} /\ r.stage \in {"running", "gone"}
          /\ r.reading = request[c][n].reading /\ given' = given
          /\ r.answer = request[c][n].answer
      BY <1>1, <2>1, <2>2
    <3>2. call[c].key \in Keys => keyState[call[c].key] = "free" /\ keyState'[call[c].key] = "running"
      BY <1>5, <2>4, KeysAssumption
    <3>3. \A k \in Keys : (k # call[c].key \/ keyState[k] = "done") => keyState'[k] = keyState[k]
      BY <2>4
    <3>4. keyState' \in [Keys -> {"free", "running", "done"}]
      BY <2>4
    <3> HIDE DEF key
    <3> QED
      BY <1>1, <2>3, <3>1, <3>2, <3>3, <3>4 DEF Served
  <2> QED
    BY <1>1, <2>2, <2>6, ServiceKeeps
<1> QED
  BY <1>4, <1>5

LEMMA ExecuteStep == ASSUME IInv, NEW c \in Calls, NEW n \in 1..Attempts, Execute(c, n) PROVE IInv'
<1> DEFINE key == call[c].key
<1>1. /\ request[c][n].stage = "running" /\ UNCHANGED <<now, call, lastSeen>>
      /\ 1 \in {0, 1} /\ Answer(c, n, 200) /\ 200 \in Answers
      /\ executed' = [executed EXCEPT ![c] = executed[c] + 1]
  BY DEF Execute, Answers
<1>2. PICK state \in {"done", "running"} : keyState' = WithKey(key, state)
  BY DEF Execute, Carried
<1>3. /\ executed \in [Calls -> Nat] /\ keyState \in [Keys -> {"free", "running", "done"}]
      /\ key \in Keys \cup {NoKey}
  BY DEF IInv, Typed, CallState
<1>4. PICK r \in Request :
        /\ r.stage = "gone"
        /\ request' = [request EXCEPT ![c] = [request[c] EXCEPT ![n] = r]]
        /\ \/ r.reading = request[c][n].reading /\ given' = given
           \/ r.reading = given + 1 /\ given' = given + 1
        /\ r.answer \in {request[c][n].answer, 200}
  BY <1>1, AnswerGives
<1>5. key \in Keys => keyState[key] = "running"
  BY <1>1, KeyRecord DEF Running
<1>6. /\ keyState' \in [Keys -> {"free", "running", "done"}]
      /\ \A k \in Keys : (k # key \/ keyState[k] = "done") => keyState'[k] = keyState[k]
      /\ key \in Keys => keyState'[key] # "free"
  BY <1>2, <1>3, <1>5, KeysAssumption DEF WithKey
<1>8. Obeyed(c)'
  <2>1. executed'[c] = executed[c] + 1 /\ executed[c] \in Nat
    BY <1>1, <1>3
  <2>2. executed'[c] > 0
    BY <2>1
  <2> QED
    BY <2>2 DEF Obeyed
<1>9. Served(c, n, r, 1)
  <2>1. call[c].key \in Keys => keyState'[call[c].key] # "free"
    BY <1>6
  <2>2. \A k \in Keys : (k # call[c].key \/ keyState[k] = "done") => keyState'[k] = keyState[k]
    BY <1>6
  <2>3. keyState' \in [Keys -> {"free", "running", "done"}]
    BY <1>6
  <2>4. r.answer = request[c][n].answer \/ ~(r.answer \in 400..499)
    BY <1>4
  <2> HIDE DEF key
  <2> QED
    BY <1>1, <1>4, <1>8, <2>1, <2>2, <2>3, <2>4 DEF Served, Running
<1> QED
  BY <1>1, <1>9, ServiceKeeps

LEMMA RefuseStep == ASSUME IInv, NEW c \in Calls, NEW n \in 1..Attempts, Refuse(c, n) PROVE IInv'
<1> DEFINE key == call[c].key
<1>1. PICK status \in Refusals \cup {500} : Answer(c, n, status)
  BY DEF Refuse
<1>2. /\ request[c][n].stage = "running" /\ UNCHANGED <<now, call, executed, lastSeen>>
      /\ 0 \in {0, 1} /\ keyState' = WithKey(key, "free") /\ status \in Answers
  BY DEF Refuse, Answers, Carried
<1>3. /\ executed \in [Calls -> Nat] /\ keyState \in [Keys -> {"free", "running", "done"}]
      /\ key \in Keys \cup {NoKey}
  BY DEF IInv, Typed, CallState
<1>5. PICK r \in Request :
        /\ r.stage = "gone"
        /\ request' = [request EXCEPT ![c] = [request[c] EXCEPT ![n] = r]]
        /\ \/ r.reading = request[c][n].reading /\ given' = given
           \/ r.reading = given + 1 /\ given' = given + 1
        /\ r.answer \in {request[c][n].answer, status}
  BY <1>1, <1>2, AnswerGives
<1>6. key \in Keys => keyState[key] = "running"
  BY <1>2, KeyRecord DEF Running
<1>7. /\ keyState' \in [Keys -> {"free", "running", "done"}]
      /\ \A k \in Keys : (k # key \/ keyState[k] = "done") => keyState'[k] = keyState[k]
  BY <1>2, <1>3, <1>6, KeysAssumption DEF WithKey
<1>9. Served(c, n, r, 0)
  <2>2. \A k \in Keys : (k # call[c].key \/ keyState[k] = "done") => keyState'[k] = keyState[k]
    BY <1>7
  <2>3. keyState' \in [Keys -> {"free", "running", "done"}]
    BY <1>7
  <2>4. r.answer = request[c][n].answer \/ ~(r.answer \in 200..299)
    BY <1>5, RefusalsAssumption
  <2>5. call[c].attempt = 1 => executed'[c] = 0
    BY <1>2, OnTheWay
  <2> HIDE DEF key
  <2> QED
    BY <1>2, <1>5, <2>2, <2>3, <2>4, <2>5 DEF Served, Running
<1> QED
  BY <1>2, <1>9, ServiceKeeps

LEMMA GatewayStep == ASSUME IInv, NEW c \in Calls, NEW n \in 1..Attempts, Gateway(c, n) PROVE IInv'
<1> DEFINE r == [request[c][n] EXCEPT !.answer = 504]
<1>1. /\ request[c][n].stage = "running"
      /\ request' = [request EXCEPT ![c][n].answer = 504]
      /\ UNCHANGED <<now, call, keyState, executed, lastSeen, given>> /\ 0 \in {0, 1}
  BY DEF Gateway
<1>2. /\ request \in [Calls -> [1..Attempts -> Request]] /\ request[c][n] \in Request
      /\ executed \in [Calls -> Nat] /\ keyState \in [Keys -> {"free", "running", "done"}]
  BY DEF IInv, Typed
<1>3. /\ r \in Request /\ r.stage = "running" /\ r.answer = 504 /\ r.reading = request[c][n].reading
  <2>1. DOMAIN request[c][n] = {"stage", "answer", "reading"} /\ 504 \in Answers
    BY <1>2 DEF Request, Answers
  <2> QED
    BY <1>1, <1>2, <2>1 DEF Request
<1>4. request' = [request EXCEPT ![c] = [request[c] EXCEPT ![n] = r]]
  BY <1>1, <1>2
<1> HIDE DEF r
<1>8. Served(c, n, r, 0)
  <2>1. ~(504 \in 200..299) /\ ~(504 \in 400..499)
    OBVIOUS
  <2>2. keyState' \in [Keys -> {"free", "running", "done"}]
    BY <1>1, <1>2
  <2>3. /\ call[c].key \in Keys => keyState'[call[c].key] = keyState[call[c].key]
        /\ \A k \in Keys : keyState'[k] = keyState[k]
        /\ request[c][n].stage \in {"sent", "running"} /\ r.stage \in {"running", "gone"}
        /\ Running(c, n) /\ r.reading = request[c][n].reading
    BY <1>1, <1>3 DEF Running
  <2>4. ~(r.answer \in 200..299) /\ ~(r.answer \in 400..499)
    BY <1>3, <2>1
  <2> QED
    BY <1>1, <1>4, <2>2, <2>3, <2>4 DEF Served
<1> QED
  BY <1>1, <1>3, <1>8, ServiceKeeps

\* The clock moves on only when no timer is due.
LEMMA TickStep == ASSUME IInv, Tick PROVE IInv'
<1>1. /\ now' = now + 1 /\ now < Horizon /\ \A c \in Calls : ~TimerDue(c)
      /\ UNCHANGED <<call, request, keyState, executed, lastSeen, given>>
  BY DEF Tick
<1>2. now \in Nat /\ Horizon \in Nat /\ call \in [Calls -> CallState]
  BY TimeAssumption DEF IInv, Typed
<1>3. Typed'
  BY <1>1, <1>2 DEF IInv, Typed
<1>4. Timed'
  <2>1. \A c \in Calls : call[c].expiry \in Nat /\ call[c].wake \in Nat
    BY <1>2 DEF CallState
  <2> QED
    BY <1>1, <1>2, <2>1 DEF IInv, Timed, TimerDue
<1>5. Composed'
  <2>1. \A c \in Calls : MayRetry(call[c], "network-error")' <=> MayRetry(call[c], "network-error")
    BY <1>1 DEF MayRetry
  <2> QED
    BY <1>1, <2>1 DEF IInv, Composed, Unsent
<1>6. Counted'
  <2>1. \A c \in Calls : Gone(c)' = Gone(c)
    BY <1>1 DEF Gone
  <2> QED
    BY <1>1, <2>1 DEF IInv, Counted
<1>7. Keyed'
  BY <1>1 DEF IInv, Keyed, KeyedAt, Under, Running
<1>8. Heard'
  BY <1>1 DEF IInv, Heard, Obeyed, Refusal
<1>9. Fresher'
  BY <1>1 DEF IInv, Fresher, Current
<1> QED
  BY <1>3, <1>4, <1>5, <1>6, <1>7, <1>8, <1>9 DEF IInv

-----------------------------------------------------------------------------
(* The whole session.                                                       *)

LEMMA StutterStep == ASSUME IInv, UNCHANGED vars PROVE IInv'
<1> USE DEF vars
<1>1. Typed'
  BY DEF IInv, Typed
<1>2. Timed' /\ Fresher'
  BY DEF IInv, Timed, Fresher, Current
<1>3. Composed'
  <2>1. \A c \in Calls : MayRetry(call[c], "network-error")' <=> MayRetry(call[c], "network-error")
    BY DEF MayRetry
  <2> QED
    BY <2>1 DEF IInv, Composed, Unsent
<1>4. Counted'
  <2>1. \A c \in Calls : Gone(c)' = Gone(c)
    BY DEF Gone
  <2> QED
    BY <2>1 DEF IInv, Counted
<1>5. Keyed' /\ Heard'
  BY DEF IInv, Keyed, KeyedAt, Under, Running, Heard, Obeyed, Refusal
<1> QED
  BY <1>1, <1>2, <1>3, <1>4, <1>5 DEF IInv

LEMMA NextIInv == IInv /\ [Next]_vars => IInv'
<1> SUFFICES ASSUME IInv, [Next]_vars PROVE IInv'
  OBVIOUS
<1>1. ASSUME NEW c \in Calls, Call(c) PROVE IInv'
  BY <1>1, CallStep
<1>2. ASSUME NEW c \in Calls, ClientStep(c) \/ Abort(c) PROVE IInv'
  BY <1>2, AnsweredStep, EndStep DEF ClientStep
<1>3. ASSUME NEW c \in Calls, NEW n \in 1..Attempts, ServiceStep(c, n) PROVE IInv'
  BY <1>3, ReachStep, ExecuteStep, RefuseStep, GatewayStep DEF ServiceStep
<1>4. CASE Tick
  BY <1>4, TickStep
<1>5. CASE UNCHANGED vars
  BY <1>5, StutterStep
<1> QED
  BY <1>1, <1>2, <1>3, <1>4, <1>5 DEF Next

\* The strengthening the properties follow from: what is written down about a
\* key agrees with what is under way and done under it, and what is answered
\* with what was done.
THEOREM SessionInvariant == Spec => []IInv
BY InitIInv, NextIInv, PTL DEF Spec

\* A call does not do twice what was to be done once, because what may not be
\* repeated is sent in one request, and a create is repeated only under a key.
LEMMA OnceEach == IInv => NothingTwice
<1> SUFFICES ASSUME IInv PROVE NothingTwice
  OBVIOUS
<1>1. \A c \in Calls : call[c] \in CallState /\ executed[c] \in Nat
  BY DEF IInv, Typed
<1>2. ASSUME NEW c \in Calls PROVE executed[c] <= call[c].attempt
  <2>1. Cardinality(Gone(c)) \in Nat /\ Cardinality(Gone(c)) <= call[c].attempt /\ executed[c] <= Cardinality(Gone(c))
    BY GoneCounts DEF IInv, Counted
  <2>2. call[c].attempt \in Nat
    BY <1>1, AttemptsAssumption DEF CallState
  <2> QED
    BY <1>1, <2>1, <2>2
<1>3. TypeOK
  <2>1. executed \in [Calls -> 0..Attempts]
    <3>1. \A c \in Calls : executed[c] \in 0..Attempts
      BY <1>1, <1>2, AttemptsAssumption DEF CallState
    <3> QED
      BY <3>1 DEF IInv, Typed
  <2>2. \A c \in Calls, n \in 1..Attempts : /\ request[c][n].stage \in {"unsent", "sent", "running", "gone"}
                                            /\ request[c][n].reading \in 0..given
    <3>1. \A c \in Calls, n \in 1..Attempts : request[c][n] \in Request /\ request[c][n].reading <= given
      BY DEF IInv, Typed
    <3>2. given \in Nat
      BY DEF IInv, Typed
    <3> QED
      BY <3>1, <3>2 DEF Request
  <2>3. \A c \in Calls :
       /\ call[c].pc \in {"idle", "awaiting", "pausing", "settled"}
       /\ call[c].op \in Ops \cup {"none"}
       /\ call[c].key \in Keys \cup {NoKey}
       /\ call[c].attempt \in 0..Attempts
       /\ {call[c].deadline, call[c].expiry, call[c].wake} \subseteq 0..Horizon
       /\ call[c].since \in 0..given
       /\ call[c].result \in Outcomes
    BY <1>1 DEF CallState, IInv, Typed
  <2>4. \A c \in Calls : call[c].result = "none" <=> call[c].pc # "settled"
    BY DEF IInv, Composed
  <2> QED
    BY <2>1, <2>2, <2>3, <2>4 DEF TypeOK, IInv, Typed
<1>4. OnceOnly
  <2> SUFFICES ASSUME NEW c \in Calls, call[c].op \in Unrepeatable \cup Creates PROVE executed[c] <= 1
    BY DEF OnceOnly
  <2>1. CASE ~MayRetry(call[c], "network-error")
    <3>1. call[c].attempt <= 1 /\ call[c].attempt \in Nat
      BY <1>1, <2>1, AttemptsAssumption DEF IInv, Composed, CallState
    <3> QED
      BY <1>1, <1>2, <3>1
  <2>2. CASE MayRetry(call[c], "network-error")
    <3>1. call[c].key \in Keys /\ c \in Under(call[c].key)
      BY <1>1, <2>2, Policies DEF CallState, Under
    <3>2. executed[c] > 0 => executed[c] = 1
      BY <3>1 DEF IInv, Keyed, KeyedAt
    <3> QED
      BY <1>1, <3>2
  <2> QED
    BY <2>1, <2>2
<1>5. OneResourcePerKey
  <2> SUFFICES ASSUME NEW k \in Keys
               PROVE  Cardinality({c \in Calls : call[c].key = k /\ executed[c] > 0}) <= 1
    BY DEF OneResourcePerKey
  <2> DEFINE those == {c \in Calls : call[c].key = k /\ executed[c] > 0}
  <2>1. \A c, d \in those : c = d
    BY DEF IInv, Keyed, KeyedAt, Under
  <2> HIDE DEF those
  <2>2. CASE those = {}
    BY <2>2, FS_EmptySet DEF those
  <2>3. CASE those # {}
    <3>1. PICK c \in those : those = {c}
      BY <2>1, <2>3
    <3> QED
      <4>1. Cardinality(those) = 1
        BY <3>1, FS_Singleton
      <4> QED
        BY <4>1 DEF those
  <2> QED
    BY <2>2, <2>3
<1> QED
  BY <1>3, <1>4, <1>5 DEF NothingTwice

\* Neither a repeated request nor a second call under the same key does twice
\* what was to be done once: answer()'s retries and its Idempotency-Key against
\* a service that may carry a request out after the caller gave up on it.
THEOREM NothingIsDoneTwice == Spec => []NothingTwice
BY SessionInvariant, OnceEach, PTL

\* A caller told of a success has had it carried out, by this call or another
\* under its key, and one told of a refusal of its only request has not.
THEOREM CallersAreToldTheTruth == Spec => []ToldTheTruth
<1>1. IInv => ToldTheTruth
  BY DEF IInv, Heard, Obeyed, Refusal, ToldTheTruth
<1> QED
  BY <1>1, SessionInvariant, PTL

\* No call that is under way is past its budget: no pause and no request is
\* given more than is left of it.
THEOREM CallsArePunctual == Spec => []Punctual
<1>1. IInv => Punctual
  <2>1. IInv => \A c \in Calls : call[c] \in CallState /\ now \in Nat
    BY DEF IInv, Typed
  <2> QED
    BY <2>1 DEF IInv, Timed, Punctual, CallState
<1> QED
  BY <1>1, SessionInvariant, PTL

\* rateLimit() never goes back: the reading on an answer is kept only where it
\* is newer than what was known when its request left, and is never dropped.
THEOREM ReadingsStayCurrent == Spec => ReadingIsCurrent
<1> DEFINE StillKnown == /\ lastSeen # 0 => lastSeen' # 0
                   /\ \A c \in Calls : lastSeen' # lastSeen /\ Answered(c) => lastSeen' > call[c].since
<1>1. IInv /\ [Next]_vars => [StillKnown]_vars
  <2> SUFFICES ASSUME IInv, [Next]_vars PROVE StillKnown
    OBVIOUS
  <2>1. lastSeen' = lastSeen \/ \E c \in Calls : lastSeen' = RateLimitFrom(Current(c).reading)
    BY ZenonT(40) DEF Next, ClientStep, ServiceStep, vars, Call, Answered, Lost, TimedOut, Resume, Abort,
           Reach, Execute, Refuse, Gateway, Tick
  <2>2. lastSeen # 0 => lastSeen' # 0
    BY <2>1 DEF RateLimitFrom
  <2>3. ASSUME NEW c \in Calls, lastSeen' # lastSeen, Answered(c) PROVE lastSeen' > call[c].since
    <3>1. lastSeen' = Current(c).reading /\ Current(c).reading # 0 /\ call[c].pc = "awaiting"
      BY <2>3 DEF Answered, RateLimitFrom
    <3> QED
      BY <3>1 DEF IInv, Fresher
  <2> QED
    BY <2>2, <2>3
<1> QED
  BY <1>1, SessionInvariant, PTL DEF Spec, ReadingIsCurrent

\* Hanging up sends nothing, and the service sends no request of its own.
LEMMA OnlyTurnsSend ==
  ASSUME IInv, NEW c \in Calls, (HangUp(c) /\ call[c].pc = "awaiting") \/ (\E n \in 1..Attempts : ServiceStep(c, n)),
         NEW d \in Calls, NEW m \in 1..Attempts, request'[d][m].stage = "sent"
  PROVE  request[d][m].stage = "sent"
<1>1. request \in [Calls -> [1..Attempts -> Request]]
  BY DEF IInv, Typed
<1>2. ASSUME NEW n \in 1..Attempts, NEW r, r.stage \in {"gone", "running", request[c][n].stage},
             request' = [request EXCEPT ![c] = [request[c] EXCEPT ![n] = r]]
      PROVE  request[d][m].stage = "sent"
  <2>1. CASE d = c /\ m = n
    BY <1>1, <1>2, <2>1
  <2>2. CASE ~(d = c /\ m = n)
    BY <1>1, <1>2, <2>2
  <2> QED
    BY <2>1, <2>2
<1>3. CASE HangUp(c) /\ call[c].pc = "awaiting"
  <2>1. call[c].attempt \in 1..Attempts
    BY <1>3, AttemptsAssumption DEF IInv, Typed, Composed, CallState
  <2> DEFINE n == call[c].attempt
             r == [request[c][n] EXCEPT !.answer = 0, !.reading = 0]
  <2>2. request' = [request EXCEPT ![c] = [request[c] EXCEPT ![n] = r]]
    BY <1>1, <1>3, <2>1 DEF HangUp
  <2>3. request[c][n] \in Request
    BY <1>1, <2>1
  <2>4. r.stage = request[c][n].stage
    BY <2>3 DEF Request
  <2> HIDE DEF n, r
  <2> QED
    BY <1>2, <2>1, <2>2, <2>4 DEF n
<1>4. ASSUME NEW n \in 1..Attempts, NEW status \in Answers, Answer(c, n, status)
      PROVE  request[d][m].stage = "sent"
  BY <1>2, <1>4, AnswerGives
<1>5. ASSUME NEW n \in 1..Attempts, Reach(c, n) PROVE request[d][m].stage = "sent"
  <2>1. CASE \E status \in {201, 409} : Answer(c, n, status)
    BY <1>4, <2>1 DEF Answers
  <2>2. CASE request' = [request EXCEPT ![c][n].stage = "running"]
    <3> DEFINE r == [request[c][n] EXCEPT !.stage = "running"]
    <3>1. request' = [request EXCEPT ![c] = [request[c] EXCEPT ![n] = r]]
      BY <1>1, <2>2
    <3>2. request[c][n] \in Request
      BY <1>1
    <3>3. r.stage = "running"
      BY <3>2 DEF Request
    <3> HIDE DEF r
    <3> QED
      BY <1>2, <3>1, <3>3
  <2> QED
    BY <1>5, <2>1, <2>2 DEF Reach
<1>6. ASSUME NEW n \in 1..Attempts, Gateway(c, n) PROVE request[d][m].stage = "sent"
  <2> DEFINE r == [request[c][n] EXCEPT !.answer = 504]
  <2>1. request' = [request EXCEPT ![c] = [request[c] EXCEPT ![n] = r]]
    BY <1>1, <1>6 DEF Gateway
  <2>2. request[c][n] \in Request
    BY <1>1
  <2>3. r.stage = request[c][n].stage
    BY <2>2 DEF Request
  <2> HIDE DEF r
  <2> QED
    BY <1>2, <2>1, <2>3
<1>7. ASSUME NEW n \in 1..Attempts, Execute(c, n) PROVE request[d][m].stage = "sent"
  BY <1>4, <1>7 DEF Execute, Answers
<1>8. ASSUME NEW n \in 1..Attempts, Refuse(c, n) PROVE request[d][m].stage = "sent"
  <2>1. \E status \in Refusals \cup {500} : Answer(c, n, status)
    BY <1>8 DEF Refuse
  <2>2. Refusals \cup {500} \subseteq Answers
    BY DEF Answers
  <2> QED
    BY <1>4, <2>1, <2>2
<1> QED
  BY <1>3, <1>5, <1>6, <1>7, <1>8 DEF ServiceStep

\* A turn that sends is one the signal allows.
LEMMA TurnsAsk ==
  ASSUME IInv, NEW c \in Calls, NEW state \in CallState, TryAgain(c, state),
         NEW d \in Calls, NEW m \in 1..Attempts,
         request[d][m].stage = "unsent", request'[d][m].stage = "sent"
  PROVE  ~call'[d].aborted
<1>1. /\ request \in [Calls -> [1..Attempts -> Request]] /\ call \in [Calls -> CallState]
  BY DEF IInv, Typed
<1> DEFINE n    == state.attempt + 1
           next == [state EXCEPT !.pc = "awaiting", !.attempt = n,
                                 !.expiry = now + Remaining(state), !.since = lastSeen]
<1>2. /\ call' = [call EXCEPT ![c] = next] /\ ~state.aborted
      /\ request' = [request EXCEPT ![c][n].stage = "sent"]
  BY DEF TryAgain, AbortedAlready
<1>3. next.aborted = state.aborted
  BY DEF CallState
<1> HIDE DEF n, next
<1>4. d = c
  BY <1>1, <1>2
<1> QED
  BY <1>1, <1>2, <1>3, <1>4

\* Nothing leaves for a caller who has aborted: send() looks at the signal
\* before it starts, after a pause as much as at first.
THEOREM NothingLeavesAfterAnAbort == Spec => CancelledSendsNothing
<1> DEFINE Silent == \A c \in Calls, n \in 1..Attempts :
                       request[c][n].stage = "unsent" /\ request'[c][n].stage = "sent" => ~call'[c].aborted
<1>1. IInv /\ [Next]_vars => [Silent]_vars
  <2> SUFFICES ASSUME IInv, [Next]_vars, NEW d \in Calls, NEW m \in 1..Attempts,
                      request[d][m].stage = "unsent", request'[d][m].stage = "sent"
               PROVE  ~call'[d].aborted
    OBVIOUS
  <2>1. request' # request
    OBVIOUS
  <2>2. ASSUME NEW c \in Calls, Call(c) PROVE ~call'[d].aborted
    <3>1. PICK op \in Ops, key \in Keys \cup {NoKey}, signal \in BOOLEAN :
            TryAgain(c, [Idle EXCEPT !.op = op, !.key = key, !.aborted = signal, !.deadline = now + Budget])
      BY <2>1, <2>2 DEF Call
    <3> DEFINE s == [Idle EXCEPT !.op = op, !.key = key, !.aborted = signal, !.deadline = now + Budget]
    <3>2. now + Budget \in 0..Horizon /\ 0 \in 0..Horizon /\ 0 \in 0..Attempts
      BY SMTT(30), <2>2, TimeAssumption, AttemptsAssumption DEF Call, IInv, Typed
    <3>3. s \in CallState /\ TryAgain(c, s)
      BY <3>1, <3>2 DEF Idle, CallState, Outcomes
    <3> HIDE DEF s
    <3> QED
      BY <3>3, TurnsAsk
  <2>3. ASSUME NEW c \in Calls, Resume(c) PROVE ~call'[d].aborted
    <3>1. call[c] \in CallState
      BY DEF IInv, Typed
    <3> QED
      BY <2>3, <3>1, TurnsAsk DEF Resume
  <2>4. ASSUME NEW c \in Calls, Answered(c) \/ Lost(c) \/ TimedOut(c) \/ Abort(c) PROVE FALSE
    <3>1. HangUp(c) /\ call[c].pc = "awaiting"
      BY <2>1, <2>4 DEF Answered, Lost, TimedOut, Abort
    <3>2. request[d][m].stage = "sent"
      BY <3>1, OnlyTurnsSend
    <3> QED
      BY <3>2
  <2>5. ASSUME NEW c \in Calls, NEW n \in 1..Attempts, ServiceStep(c, n) PROVE FALSE
    <3>1. request[d][m].stage = "sent"
      BY <2>5, OnlyTurnsSend
    <3> QED
      BY <3>1
  <2>6. ~Tick /\ ~UNCHANGED vars
    BY <2>1 DEF Tick, vars
  <2> QED
    BY <2>2, <2>3, <2>4, <2>5, <2>6 DEF Next, ClientStep
<1> QED
  BY <1>1, SessionInvariant, PTL DEF Spec, CancelledSendsNothing
-----------------------------------------------------------------------------
(* Listings: what stands where in an order of rows.                         *)

Count(row, rows) == Cardinality(Newer(row, rows))

\* How many rows are newer than one of them is less than how many there are.
LEMMA CountIsLess ==
  ASSUME NEW rows \in SUBSET Nat, IsFiniteSet(rows)
  PROVE  /\ Cardinality(rows) \in Nat
         /\ \A row : Count(row, rows) \in Nat
         /\ \A row \in rows : Count(row, rows) < Cardinality(rows)
<1>1. Cardinality(rows) \in Nat
  BY FS_CardinalityType
<1>2. ASSUME NEW row PROVE /\ IsFiniteSet(Newer(row, rows)) /\ Count(row, rows) \in Nat
                           /\ Count(row, rows) <= Cardinality(rows)
                           /\ Count(row, rows) = Cardinality(rows) => Newer(row, rows) = rows
  <2>1. Newer(row, rows) \in SUBSET rows
    BY DEF Newer
  <2>2. /\ IsFiniteSet(Newer(row, rows)) /\ Cardinality(Newer(row, rows)) <= Cardinality(rows)
        /\ Cardinality(rows) = Cardinality(Newer(row, rows)) => rows = Newer(row, rows)
    BY <2>1, FS_Subset
  <2>3. Cardinality(Newer(row, rows)) \in Nat
    BY <2>2, FS_CardinalityType
  <2> QED
    BY <2>2, <2>3 DEF Count
<1>3. ASSUME NEW row \in rows PROVE Count(row, rows) # Cardinality(rows)
  <2>1. row \notin Newer(row, rows)
    BY DEF Newer
  <2> QED
    BY <1>2, <2>1
<1> QED
  BY <1>1, <1>2, <1>3

\* An older row stands behind more.
LEMMA OlderCountsMore ==
  ASSUME NEW rows \in SUBSET Nat, IsFiniteSet(rows), NEW a \in rows, NEW b \in rows, a < b
  PROVE  Count(b, rows) < Count(a, rows)
<1>1. Newer(b, rows) \in SUBSET Newer(a, rows) /\ b \in Newer(a, rows) /\ b \notin Newer(b, rows)
  <2>1. a \in Int /\ b \in Int /\ \A row \in rows : row \in Int
    OBVIOUS
  <2>2. \A row \in rows : row > b => row > a
    BY <2>1
  <2>3. Newer(b, rows) \in SUBSET Newer(a, rows)
    BY <2>2 DEF Newer
  <2>4. b \in Newer(a, rows)
    BY <2>1 DEF Newer
  <2>5. b \notin Newer(b, rows)
    BY <2>1 DEF Newer
  <2> QED
    BY <2>3, <2>4, <2>5
<1>2. IsFiniteSet(Newer(a, rows))
  <2>1. Newer(a, rows) \in SUBSET rows
    BY DEF Newer
  <2> QED
    BY <2>1, FS_Subset
<1>3. /\ Cardinality(Newer(b, rows)) <= Cardinality(Newer(a, rows))
      /\ Cardinality(Newer(a, rows)) = Cardinality(Newer(b, rows)) => Newer(a, rows) = Newer(b, rows)
  BY <1>1, <1>2, FS_Subset
<1>4. Count(a, rows) \in Nat /\ Count(b, rows) \in Nat
  BY CountIsLess
<1>5. Count(a, rows) # Count(b, rows)
  BY <1>1, <1>3 DEF Count
<1> QED
  BY <1>3, <1>4, <1>5 DEF Count

\* A function on 1..n is a sequence of n elements.
LEMMA OfLength ==
  ASSUME NEW S, NEW n \in Nat, NEW f \in [1..n -> S]
  PROVE  f \in Seq(S) /\ Len(f) = n /\ DOMAIN f = 1..n
<1>1. f \in Seq(S)
  BY SeqDef
<1>2. 1..Len(f) = 1..n /\ Len(f) \in Nat
  BY <1>1, LenProperties
<1>3. Len(f) = n
  BY <1>2
<1> QED
  BY <1>1, <1>3

\* A sorted listing has every row once: at the place that as many are newer.
LEMMA SortedIsSorted ==
  ASSUME NEW rows \in SUBSET Nat, IsFiniteSet(rows)
  PROVE  /\ Sorted(rows) \in Seq(rows) /\ Len(Sorted(rows)) = Cardinality(rows)
         /\ DOMAIN Sorted(rows) = 1..Cardinality(rows) /\ Cardinality(rows) \in Nat
         /\ \A i \in 1..Cardinality(rows) : Sorted(rows)[i] \in rows /\ Count(Sorted(rows)[i], rows) = i - 1
         /\ \A row \in rows : /\ Count(row, rows) + 1 \in 1..Cardinality(rows)
                              /\ Sorted(rows)[Count(row, rows) + 1] = row
<1> DEFINE n == Cardinality(rows)
           place == [row \in rows |-> Count(row, rows) + 1]
<1>1. n \in Nat
  BY CountIsLess
<1>2. \A row \in rows : Count(row, rows) + 1 \in 1..n
  BY CountIsLess
<1>3. \A a, b \in rows : Count(a, rows) = Count(b, rows) => a = b
  <2> SUFFICES ASSUME NEW a \in rows, NEW b \in rows, a # b PROVE Count(a, rows) # Count(b, rows)
    OBVIOUS
  <2>1. Count(a, rows) \in Nat /\ Count(b, rows) \in Nat
    BY CountIsLess
  <2>2. a < b \/ b < a
    OBVIOUS
  <2> QED
    BY <2>1, <2>2, OlderCountsMore
<1>4. place \in Injection(rows, 1..n)
  <2>1. place \in [rows -> 1..n]
    BY <1>2
  <2>2. \A a, b \in rows : place[a] = place[b] => a = b
    <3> SUFFICES ASSUME NEW a \in rows, NEW b \in rows, place[a] = place[b] PROVE a = b
      OBVIOUS
    <3>1. Count(a, rows) \in Nat /\ Count(b, rows) \in Nat
      BY CountIsLess
    <3>2. Count(a, rows) + 1 = Count(b, rows) + 1
      OBVIOUS
    <3> QED
      BY <1>3, <3>1, <3>2
  <2> QED
    BY <2>1, <2>2 DEF Injection, IsInjective
<1>5. IsFiniteSet(1..n) /\ Cardinality(1..n) = n
  BY <1>1, FS_Interval
<1>6. place \in Surjection(rows, 1..n)
  BY <1>4, <1>5, FS_Injection
<1>7. ASSUME NEW i \in 1..n PROVE \E row \in rows : Count(row, rows) = i - 1
  <2>1. PICK row \in rows : place[row] = i
    BY <1>6 DEF Surjection
  <2>2. Count(row, rows) \in Nat /\ Count(row, rows) + 1 = i
    BY <2>1, CountIsLess
  <2> QED
    BY <2>2
<1>8. ASSUME NEW i \in 1..n
      PROVE  Sorted(rows)[i] \in rows /\ Count(Sorted(rows)[i], rows) = i - 1
  <2>1. Sorted(rows)[i] = CHOOSE row \in rows : Count(row, rows) = i - 1
    BY DEF Sorted, Count
  <2>2. PICK row \in rows : Count(row, rows) = i - 1
    BY <1>7
  <2> QED
    BY <2>1, <2>2
<1>9. Sorted(rows) \in [1..n -> rows]
  BY <1>8 DEF Sorted
<1>10. Sorted(rows) \in Seq(rows) /\ Len(Sorted(rows)) = n /\ DOMAIN Sorted(rows) = 1..n
  BY <1>1, <1>9, OfLength
<1>11. ASSUME NEW row \in rows PROVE Sorted(rows)[Count(row, rows) + 1] = row
  <2> DEFINE i == Count(row, rows) + 1
  <2>1. i \in 1..n /\ Count(row, rows) \in Nat
    BY <1>2, CountIsLess
  <2>2. Sorted(rows)[i] \in rows /\ Count(Sorted(rows)[i], rows) = i - 1
    BY <1>8, <2>1
  <2>3. i - 1 = Count(row, rows)
    BY <2>1
  <2> HIDE DEF i
  <2> QED
    BY <1>3, <2>2, <2>3 DEF i
<1> QED
  BY <1>1, <1>2, <1>8, <1>10, <1>11

\* A page is what stands from where it begins, as far as the limit or the end.
LEMMA PageIs ==
  ASSUME NEW S, NEW order \in Seq(S), NEW from \in Nat, NEW limit \in Nat \ {0}
  PROVE  LET data == PageOf(order, from, limit)
         IN  /\ data \in Seq(S) /\ Len(data) \in Nat /\ DOMAIN data = 1..Len(data)
             /\ Len(data) = IF from + limit <= Len(order) THEN limit
                            ELSE IF from <= Len(order) THEN Len(order) - from ELSE 0
             /\ \A i \in 1..Len(data) : from + i \in 1..Len(order) /\ data[i] = order[from + i]
<1> DEFINE to == IF from + limit <= Len(order) THEN from + limit ELSE Len(order)
           data == PageOf(order, from, limit)
<1>1. limit \in Nat /\ limit > 0
  OBVIOUS
<1>2. Len(order) \in Nat
  BY LenProperties
<1>3. to \in Nat /\ to <= Len(order)
  BY <1>1, <1>2
<1>4. data = SubSeq(order, from + 1, to)
  BY DEF PageOf
<1>5. \A i \in (from + 1)..to : order[i] \in S
  BY <1>2, <1>3, ElementOfSeq
<1> HIDE DEF to, data
<1>6. /\ data \in Seq(S)
      /\ Len(data) = IF from + 1 <= to THEN to - (from + 1) + 1 ELSE 0
      /\ \A i \in 1..(to - (from + 1) + 1) : data[i] = order[from + 1 + i - 1]
  <2>1. from + 1 \in Int /\ to \in Int
    BY <1>3
  <2> QED
    BY <1>4, <1>5, <2>1, SubSeqProperties
<1>7. Len(data) \in Nat /\ DOMAIN data = 1..Len(data)
  BY <1>6, LenProperties
<1>8. Len(data) = IF from + limit <= Len(order) THEN limit
                  ELSE IF from <= Len(order) THEN Len(order) - from ELSE 0
  BY <1>1, <1>2, <1>6 DEF to
<1>9. ASSUME NEW i \in 1..Len(data) PROVE from + i \in 1..Len(order) /\ data[i] = order[from + i]
  <2>1. i \in 1..(to - (from + 1) + 1) /\ from + i \in 1..Len(order) /\ from + 1 + i - 1 = from + i
    BY <1>2, <1>3, <1>6
  <2> QED
    BY <1>6, <2>1
<1> QED
  BY <1>6, <1>7, <1>8, <1>9 DEF data

\* The first page of a listing: all of it, or the newest down to its last row.
LEMMA FirstPageIs ==
  ASSUME NEW rows \in SUBSET Rows, IsFiniteSet(rows)
  PROVE  LET older == Sorted(rows)
             data  == PageOf(older, 0, Limit)
         IN  /\ Len(older) \in Nat /\ Len(older) = Cardinality(rows)
             /\ Len(older) <= Limit => ToSet(data) = rows
             /\ Len(older) > Limit =>
                  data[Limit] \in rows /\ ToSet(data) = {row \in rows : row >= data[Limit]}
             /\ \A row \in Rows :
                  Cardinality({i \in DOMAIN data : data[i] = row}) = IF row \in ToSet(data) THEN 1 ELSE 0
<1> DEFINE older == Sorted(rows)
           data  == PageOf(older, 0, Limit)
           n     == Cardinality(rows)
<1>1. rows \in SUBSET Nat /\ Limit \in Nat /\ Limit > 0
  BY RowsAssumption, PagesAssumption
<1>2. /\ older \in Seq(rows) /\ Len(older) = n /\ n \in Nat
      /\ \A i \in 1..n : older[i] \in rows /\ Count(older[i], rows) = i - 1
      /\ \A row \in rows : Count(row, rows) + 1 \in 1..n /\ older[Count(row, rows) + 1] = row
  BY <1>1, SortedIsSorted
<1>3. /\ Len(data) \in Nat /\ DOMAIN data = 1..Len(data)
      /\ Len(data) = IF 0 + Limit <= Len(older) THEN Limit
                     ELSE IF 0 <= Len(older) THEN Len(older) - 0 ELSE 0
      /\ \A i \in 1..Len(data) : 0 + i \in 1..Len(older) /\ data[i] = older[0 + i]
  <2>1. 0 \in Nat /\ older \in Seq(rows) /\ Limit \in Nat \ {0}
    BY <1>1, <1>2
  <2> HIDE DEF older
  <2> QED
    BY <2>1, PageIs
<1>4. /\ Len(data) = IF Limit <= n THEN Limit ELSE n
      /\ \A i \in 1..Len(data) : i \in 1..n /\ data[i] = older[i]
  BY <1>1, <1>2, <1>3
<1> HIDE DEF older, data
<1>5. \A row \in rows : Count(row, rows) \in Nat
  BY <1>1, CountIsLess
<1>6. \A row \in rows : row \in ToSet(data) <=> Count(row, rows) < Len(data)
  <2> SUFFICES ASSUME NEW row \in rows PROVE row \in ToSet(data) <=> Count(row, rows) < Len(data)
    OBVIOUS
  <2>1. ASSUME row \in ToSet(data) PROVE Count(row, rows) < Len(data)
    <3>1. PICK i \in 1..Len(data) : data[i] = row
      BY <1>3, <2>1 DEF ToSet
    <3>2. i \in 1..n /\ older[i] = row
      BY <1>4, <3>1
    <3>3. Count(row, rows) = i - 1
      BY <1>2, <3>2
    <3> QED
      BY <3>3, <1>3
  <2>2. ASSUME Count(row, rows) < Len(data) PROVE row \in ToSet(data)
    <3>1. Count(row, rows) + 1 \in 1..Len(data)
      BY <1>3, <1>5, <2>2
    <3>2. data[Count(row, rows) + 1] = row
      BY <1>2, <1>4, <3>1
    <3> QED
      BY <1>3, <3>1, <3>2 DEF ToSet
  <2> QED
    BY <2>1, <2>2
<1>7. ToSet(data) \subseteq rows
  BY <1>2, <1>3, <1>4 DEF ToSet
<1>8. ASSUME n <= Limit PROVE ToSet(data) = rows
  <2>1. Len(data) = n
    BY <1>1, <1>2, <1>4, <1>8
  <2> QED
    BY <1>1, <1>6, <1>7, <2>1, CountIsLess
<1>9. ASSUME n > Limit
      PROVE  data[Limit] \in rows /\ ToSet(data) = {row \in rows : row >= data[Limit]}
  <2>1. Len(data) = Limit /\ Limit \in 1..Len(data)
    BY <1>1, <1>2, <1>4, <1>9
  <2>2. Limit \in 1..n /\ data[Limit] = older[Limit]
    BY <1>4, <2>1
  <2>3. data[Limit] \in rows /\ Count(data[Limit], rows) = Limit - 1
    BY <1>2, <2>2
  <2>4. ASSUME NEW row \in rows PROVE row \in ToSet(data) <=> row >= data[Limit]
    <3>1. row \in Int /\ data[Limit] \in Int
      <4>1. \A other \in rows : other \in Int
        BY <1>1
      <4> QED
        BY <2>3, <4>1
    <3>2. row < data[Limit] => Limit - 1 < Count(row, rows)
      BY <1>1, <2>3, OlderCountsMore
    <3>3. row > data[Limit] => Count(row, rows) < Limit - 1
      BY <1>1, <2>3, OlderCountsMore
    <3>4. row \in ToSet(data) <=> Count(row, rows) < Limit
      BY <1>6, <2>1
    <3> QED
      BY <1>1, <1>5, <2>3, <3>1, <3>2, <3>3, <3>4
  <2> QED
    BY <1>7, <2>3, <2>4
<1>10. ASSUME NEW row \in Rows
       PROVE  Cardinality({i \in DOMAIN data : data[i] = row}) = IF row \in ToSet(data) THEN 1 ELSE 0
  <2> DEFINE at == {i \in DOMAIN data : data[i] = row}
  <2>1. CASE row \notin ToSet(data)
    <3>1. at = {}
      BY <2>1 DEF ToSet
    <3> QED
      BY <2>1, <3>1, FS_EmptySet
  <2>2. CASE row \in ToSet(data)
    <3>1. PICK k \in DOMAIN data : data[k] = row
      BY <2>2 DEF ToSet
    <3>2. ASSUME NEW i \in at PROVE i = k
      <4>1. /\ i \in 1..n /\ older[i] = row
            /\ k \in 1..n /\ older[k] = row
        BY <1>3, <1>4, <3>1
      <4>2. Count(row, rows) = i - 1 /\ Count(row, rows) = k - 1
        BY <1>2, <4>1
      <4> QED
        BY <4>1, <4>2
    <3>3. at = {k}
      BY <3>1, <3>2
    <3> QED
      BY <2>2, <3>3, FS_Singleton
  <2> QED
    BY <2>1, <2>2
<1> QED
  BY <1>2, <1>8, <1>9, <1>10 DEF older, data

-----------------------------------------------------------------------------
(* Listings: the invariant.                                                 *)

\* Rows that were there all along and that a walk by offset went past unseen.
Skipped == {row \in First \ deleted : yielded[row] = 0 /\ Count(row, account) < offset}

\* What is there: what was and is not deleted, and what was made.
Kept ==
  /\ IsFiniteSet(account) /\ IsFiniteSet(deleted)
  /\ account = (First \ deleted) \cup made
  /\ made \subseteq Rows /\ deleted \subseteq First
  /\ deleted \cap account = {} /\ made \cap First = {}

\* The offset is no further than the pages that were read.
Paced ==
  /\ walk \in {"offset", "cursor"} /\ advances \in BOOLEAN /\ shuffled \in BOOLEAN
  /\ outcome \in {"none", "done", "unbounded", "hydration", "refused"}
  /\ pages \in 0..PageCap /\ offset \in 0..(pages * Limit)
  /\ cursor \in Rows \cup {0} /\ handedBack \subseteq Rows
  /\ yielded \in [Rows -> Nat]

\* By offset: what was gone past unseen is no more than what was deleted.
ByOffset ==
  walk = "offset" =>
    /\ \A row \in Rows : yielded[row] <= 1
    /\ advances /\ ~shuffled =>
         /\ Cardinality(Skipped) <= Cardinality(deleted)
         /\ outcome = "done" => Cardinality(account) <= offset

\* By cursor: what was handed out is what is not older than the cursor, once.
ByCursor ==
  walk = "cursor" /\ advances =>
    /\ \A row \in Rows : yielded[row] <= 1
    /\ outcome = "none" /\ cursor = 0 => \A row \in Rows : yielded[row] = 0
    /\ outcome = "none" /\ cursor # 0 =>
         /\ \A row \in Rows : yielded[row] > 0 => row >= cursor
         /\ \A row \in First \ deleted : row >= cursor => yielded[row] > 0
    /\ outcome = "done" => \A row \in First \ deleted : yielded[row] > 0

\* A cursor that is ignored comes back from the second page.
ByIgnoredCursor ==
  walk = "cursor" /\ ~advances /\ made \cup deleted = {} =>
    /\ handedBack \subseteq {PageOf(NewestFirst, 0, Limit)[Limit]}
    /\ handedBack # {} => Cardinality(account) > Limit
    /\ \A row \in Rows : yielded[row] <= 2
    /\ outcome \in {"none", "done"} => \A row \in Rows : yielded[row] <= 1
    /\ outcome = "none" /\ handedBack = {} => \A row \in Rows : yielded[row] = 0

WInv == Kept /\ Paced /\ ByOffset /\ ByCursor /\ ByIgnoredCursor

LEMMA AccountIs ==
  ASSUME Kept
  PROVE  /\ account \in SUBSET Rows /\ account \in SUBSET Nat /\ Rows \subseteq Nat
         /\ IsFiniteSet(account) /\ IsFiniteSet(First) /\ First \subseteq Rows
         /\ Cardinality(account) \in Nat /\ Cardinality(deleted) \in Nat
         /\ First \ deleted \subseteq account
<1>1. Rows \subseteq Nat /\ First \subseteq Rows /\ IsFiniteSet(First)
  BY RowsAssumption
<1>2. account \in SUBSET Rows /\ IsFiniteSet(account) /\ IsFiniteSet(deleted)
  BY <1>1 DEF Kept
<1> QED
  BY <1>1, <1>2, FS_CardinalityType DEF Kept

LEMMA SkippedIsFinite ==
  ASSUME Kept
  PROVE  IsFiniteSet(Skipped) /\ Cardinality(Skipped) \in Nat
<1>1. Skipped \in SUBSET First
  BY DEF Skipped
<1> QED
  BY <1>1, AccountIs, FS_Subset, FS_CardinalityType

\* One page more is at most a limit further.
LEMMA Products ==
  ASSUME NEW p \in Nat
  PROVE  /\ Limit \in Nat /\ Limit > 0 /\ PageCap \in Nat
         /\ p * Limit \in Nat /\ (p + 1) * Limit = p * Limit + Limit
<1>1. Limit \in Nat /\ Limit > 0 /\ PageCap \in Nat
  BY PagesAssumption
<1> QED
  BY <1>1

\* The walk of a caller who has asked for nothing yet.
LEMMA WalkBegins == WalkInit => WInv
<1> SUFFICES ASSUME WalkInit PROVE WInv
  OBVIOUS
<1> USE DEF WalkInit
<1>1. Rows \subseteq Nat /\ First \subseteq Rows /\ IsFiniteSet(First)
  BY RowsAssumption
<1>2. Kept
  BY <1>1, FS_EmptySet DEF Kept
<1>3. Paced
  <2>1. 0 \in 0..PageCap /\ 0 \in 0..(0 * Limit)
    BY Products
  <2>2. yielded \in [Rows -> Nat]
    OBVIOUS
  <2> QED
    BY <2>1, <2>2 DEF Paced
<1>4. Skipped = {}
  <2> SUFFICES ASSUME NEW row \in First PROVE ~(Count(row, account) < offset)
    BY DEF Skipped
  <2> QED
    BY <1>2, AccountIs, CountIsLess
<1>5. ByOffset
  BY <1>1, <1>4, FS_EmptySet DEF ByOffset
<1>6. ByCursor
  BY <1>1 DEF ByCursor
<1>7. ByIgnoredCursor
  BY <1>1 DEF ByIgnoredCursor
<1> QED
  BY <1>2, <1>3, <1>5, <1>6, <1>7 DEF WInv

\* Whichever way rows of one second stand, an order is of the rows there are.
LEMMA OrdersAreOrders ==
  ASSUME Kept, NEW order \in Orders
  PROVE  order \in Seq(account) /\ Len(order) = Cardinality(account)
<1> DEFINE n == Cardinality(account)
<1>1. /\ NewestFirst \in Seq(account) /\ Len(NewestFirst) = n /\ n \in Nat
      /\ \A i \in 1..n : NewestFirst[i] \in account
      /\ DOMAIN NewestFirst = 1..n
  BY AccountIs, SortedIsSorted DEF NewestFirst
<1>2. CASE order = NewestFirst
  BY <1>1, <1>2
<1>3. CASE order # NewestFirst
  <2>1. PICK i \in 1..(Len(NewestFirst) - 1) :
          order = [NewestFirst EXCEPT ![i] = NewestFirst[i + 1], ![i + 1] = NewestFirst[i]]
    BY <1>3 DEF Orders
  <2>2. i \in 1..n /\ i + 1 \in 1..n
    BY <1>1
  <2>3. NewestFirst[i] \in account /\ NewestFirst[i + 1] \in account
    BY <1>1, <2>2
  <2>4. NewestFirst \in [1..n -> account]
    BY <1>1, LenProperties
  <2>5. order \in [1..n -> account]
    BY <2>1, <2>2, <2>3, <2>4
  <2> QED
    BY <1>1, <2>5, OfLength
<1> QED
  BY <1>2, <1>3

LEMMA OffsetPageKeeps == WInv /\ OffsetPage => WInv'
<1> SUFFICES ASSUME WInv, OffsetPage PROVE WInv'
  OBVIOUS
<1>1. Kept /\ Paced /\ ByOffset
  BY DEF WInv
<1>2. /\ walk = "offset" /\ outcome = "none" /\ pages < PageCap /\ pages' = pages + 1
      /\ UNCHANGED <<account, walk, advances, cursor, handedBack, made, deleted>>
  BY <1>1, Products DEF OffsetPage, Exhausted, Paced
<1>3. PICK order \in Orders, answered \in 1..Limit : \E total \in Totals(order) :
        LET from == IF advances THEN offset ELSE 0
            data == PageOf(order, from, answered)
        IN /\ yielded' = YieldUnseen(data)
           /\ offset' = OffsetAfter(data)
           /\ outcome' = IF IsLastPage(data, answered, total) THEN "done" ELSE "none"
           /\ shuffled' = (shuffled \/ order # NewestFirst)
  BY DEF OffsetPage
<1>4. PICK total \in Totals(order) :
        LET from == IF advances THEN offset ELSE 0
            data == PageOf(order, from, answered)
        IN /\ yielded' = YieldUnseen(data)
           /\ offset' = OffsetAfter(data)
           /\ outcome' = IF IsLastPage(data, answered, total) THEN "done" ELSE "none"
           /\ shuffled' = (shuffled \/ order # NewestFirst)
  BY <1>3
<1> DEFINE from == IF advances THEN offset ELSE 0
           data == PageOf(order, from, answered)
           n    == Cardinality(account)
<1>5. pages \in Nat /\ offset \in Nat /\ offset <= pages * Limit /\ from \in Nat
  BY <1>1, Products DEF Paced
<1>6. order \in Seq(account) /\ Len(order) = n /\ n \in Nat
  BY <1>1, OrdersAreOrders, AccountIs
<1>7. /\ Len(data) \in Nat /\ DOMAIN data = 1..Len(data)
      /\ Len(data) = IF from + answered <= Len(order) THEN answered
                     ELSE IF from <= Len(order) THEN Len(order) - from ELSE 0
      /\ \A i \in 1..Len(data) : from + i \in 1..Len(order) /\ data[i] = order[from + i]
  <2>1. answered \in Nat \ {0}
    BY Products
  <2> HIDE DEF from
  <2> QED
    BY <1>5, <1>6, <2>1, PageIs
<1>8. /\ yielded' = [row \in Rows |-> IF row \in ToSet(data) /\ yielded[row] = 0 THEN 1 ELSE yielded[row]]
      /\ offset' = offset + Len(data)
      /\ outcome' = IF IsLastPage(data, answered, total) THEN "done" ELSE "none"
      /\ shuffled' = (shuffled \/ order # NewestFirst)
  BY <1>4 DEF YieldUnseen, OffsetAfter
<1>9. Len(data) <= Limit
  <2>1. Limit \in Nat
    BY Products
  <2> HIDE DEF from, data, n
  <2> QED
    BY <1>5, <1>6, <1>7, <2>1
<1> HIDE DEF from, data
<1>10. Kept'
  BY <1>1, <1>2 DEF Kept
<1>11. Paced'
  <2>1. offset' \in 0..(pages' * Limit)
    <3>1. (pages + 1) * Limit = pages * Limit + Limit /\ pages * Limit \in Nat /\ Limit \in Nat
      BY <1>5, Products
    <3>2. offset' \in Nat /\ offset' <= (pages + 1) * Limit
      BY <1>5, <1>7, <1>8, <1>9, <3>1
    <3> QED
      BY <1>2, <1>5, <3>1, <3>2
  <2>2. pages' \in 0..PageCap
    BY <1>2, <1>5, Products
  <2>3. yielded' \in [Rows -> Nat]
    BY <1>1, <1>8 DEF Paced
  <2>4. outcome' \in {"none", "done"} /\ shuffled' \in BOOLEAN
    BY <1>1, <1>8 DEF Paced
  <2> QED
    BY <1>1, <1>2, <2>1, <2>2, <2>3, <2>4 DEF Paced
<1>12. ByOffset'
  <2>1. \A row \in Rows : yielded'[row] <= 1
    BY <1>1, <1>2, <1>8 DEF ByOffset, Paced
  <2>2. ASSUME advances, ~shuffled'
        PROVE  /\ Cardinality(Skipped') <= Cardinality(deleted)
               /\ outcome' = "done" => n <= offset'
    <3>1. order = NewestFirst /\ ~shuffled /\ from = offset
      BY <1>8, <2>2 DEF from
    <3>2. Cardinality(Skipped) <= Cardinality(deleted)
      BY <1>1, <1>2, <2>2, <3>1 DEF ByOffset
    <3>3. Skipped' \in SUBSET Skipped
      <4> SUFFICES ASSUME NEW row \in First \ deleted, yielded'[row] = 0, Count(row, account) < offset'
                   PROVE  yielded[row] = 0 /\ Count(row, account) < offset
        BY <1>2 DEF Skipped, Count, Newer
      <4>1. row \in Rows /\ row \in account /\ account \in SUBSET Nat /\ IsFiniteSet(account)
        BY <1>1, AccountIs
      <4>2. yielded[row] = 0 /\ row \notin ToSet(data)
        BY <1>8, <4>1
      <4>3. Count(row, account) \in Nat /\ order[Count(row, account) + 1] = row
        BY <3>1, <4>1, CountIsLess, SortedIsSorted DEF NewestFirst
      <4>4. ASSUME Count(row, account) >= offset PROVE FALSE
        <5> DEFINE i == Count(row, account) + 1 - offset
        <5>1. i \in 1..Len(data) /\ from + i = Count(row, account) + 1
          <6>1. /\ Count(row, account) < offset + Len(data) /\ Len(data) \in Nat
                /\ offset \in Nat /\ Count(row, account) \in Nat
            BY <1>5, <1>7, <1>8, <4>3
          <6> QED
            BY <3>1, <4>4, <6>1
        <5>2. data[i] = row
          BY <1>7, <4>3, <5>1
        <5> QED
          BY <1>7, <4>2, <5>1, <5>2 DEF ToSet
      <4> QED
        BY <1>5, <4>2, <4>3, <4>4
    <3>4. Cardinality(Skipped') <= Cardinality(Skipped) /\ Cardinality(Skipped') \in Nat
      BY <1>1, <3>3, SkippedIsFinite, FS_Subset, FS_CardinalityType
    <3>5. Cardinality(Skipped) \in Nat /\ Cardinality(deleted) \in Nat
      BY <1>1, SkippedIsFinite, AccountIs
    <3>6. ASSUME outcome' = "done" PROVE n <= offset'
      <4>1. total = Len(order)
        BY <2>2 DEF Totals
      <4>2. Len(data) = 0 \/ Len(data) < answered \/ offset + Len(data) >= n
        BY <1>6, <1>8, <3>6, <4>1 DEF IsLastPage
      <4>3. answered \in Nat /\ answered > 0 /\ offset \in Nat
        BY <1>5, Products
      <4>4. Len(data) = IF offset + answered <= n THEN answered ELSE IF offset <= n THEN n - offset ELSE 0
        BY <1>6, <1>7, <3>1
      <4>5. offset' = offset + Len(data) /\ Len(data) \in Nat /\ n \in Nat
        BY <1>6, <1>7, <1>8
      <4> HIDE DEF n
      <4> QED
        BY <4>2, <4>3, <4>4, <4>5
    <3> QED
      BY <3>2, <3>4, <3>5, <3>6
  <2> QED
    BY <1>2, <2>1, <2>2 DEF ByOffset
<1>13. ByCursor' /\ ByIgnoredCursor'
  BY <1>2 DEF ByCursor, ByIgnoredCursor
<1> QED
  BY <1>10, <1>11, <1>12, <1>13 DEF WInv

LEMMA EndingKeeps ==
  ASSUME WInv, outcome' \in {"unbounded", "hydration", "refused"}, pages' \in {pages, pages + 1},
         pages' <= PageCap,
         UNCHANGED <<account, walk, advances, offset, cursor, handedBack, yielded, made, deleted, shuffled>>
  PROVE  WInv'
<1>1. Kept /\ Paced /\ ByOffset /\ ByCursor /\ ByIgnoredCursor
  BY DEF WInv
<1>2. Kept'
  BY <1>1 DEF Kept
<1>3. Paced'
  <2>1. pages \in Nat /\ offset \in 0..(pages * Limit)
    BY <1>1, Products DEF Paced
  <2>2. offset \in 0..(pages' * Limit) /\ pages' \in 0..PageCap
    <3>1. (pages + 1) * Limit = pages * Limit + Limit /\ pages * Limit \in Nat /\ Limit \in Nat /\ PageCap \in Nat
      BY <2>1, Products
    <3>2. pages' \in 0..PageCap
      BY <2>1, <3>1
    <3>3. offset \in 0..((pages + 1) * Limit)
      BY <2>1, <3>1
    <3> QED
      BY <2>1, <3>2, <3>3
  <2> QED
    BY <1>1, <2>2 DEF Paced
<1>4. ByOffset'
  <2>1. Skipped' = Skipped
    BY DEF Skipped, Count, Newer
  <2> QED
    BY <1>1, <2>1 DEF ByOffset
<1>5. ByCursor'
  BY <1>1 DEF ByCursor
<1>6. ByIgnoredCursor'
  <2>1. PageOf(NewestFirst, 0, Limit)' = PageOf(NewestFirst, 0, Limit)
    BY DEF PageOf, NewestFirst, Sorted, Newer
  <2> QED
    BY <1>1, <2>1 DEF ByIgnoredCursor
<1> QED
  BY <1>2, <1>3, <1>4, <1>5, <1>6 DEF WInv

LEMMA CursorPageKeeps == WInv /\ CursorPage => WInv'
<1> SUFFICES ASSUME WInv, CursorPage PROVE WInv'
  OBVIOUS
<1>1. Kept /\ Paced /\ ByCursor /\ ByIgnoredCursor
  BY DEF WInv
<1>2. /\ walk = "cursor" /\ outcome = "none" /\ pages < PageCap /\ pages' = pages + 1
      /\ UNCHANGED <<account, walk, advances, offset, made, deleted, shuffled>>
  BY <1>1, Products DEF CursorPage, Exhausted, Paced
<1> DEFINE rows  == IF advances /\ cursor # 0 THEN {row \in account : row < cursor} ELSE account
           older == Sorted(rows)
           data  == PageOf(older, 0, Limit)
           next  == IF Len(older) > Limit THEN data[Limit] ELSE 0
<1>3. older = IF advances /\ cursor # 0 THEN Sorted({row \in account : row < cursor}) ELSE NewestFirst
  BY DEF NewestFirst
<1> HIDE DEF older
<1>4. /\ yielded' = YieldAll(data)
      /\ outcome' = IF next = 0 THEN "done" ELSE IF HandedBack(next) THEN "unbounded" ELSE "none"
      /\ handedBack' = IF outcome' = "none" THEN handedBack \cup {next} ELSE handedBack
      /\ cursor' = IF outcome' = "none" THEN CursorAfter(next) ELSE cursor
  BY <1>3 DEF CursorPage
<1>5. /\ account \in SUBSET Rows /\ Rows \subseteq Nat \ {0} /\ IsFiniteSet(account)
      /\ First \subseteq Rows /\ First \ deleted \subseteq account
      /\ Cardinality(account) \in Nat
  BY <1>1, AccountIs, RowsAssumption
<1>6. rows \in SUBSET account /\ rows \in SUBSET Rows /\ IsFiniteSet(rows)
  <2>1. rows \in SUBSET account
    OBVIOUS
  <2> QED
    BY <1>5, <2>1, FS_Subset
<1>7. /\ Len(older) \in Nat /\ Len(older) = Cardinality(rows)
      /\ Len(older) <= Limit => ToSet(data) = rows
      /\ Len(older) > Limit =>
           data[Limit] \in rows /\ ToSet(data) = {row \in rows : row >= data[Limit]}
      /\ \A row \in Rows :
           Cardinality({i \in DOMAIN data : data[i] = row}) = IF row \in ToSet(data) THEN 1 ELSE 0
  <2> HIDE DEF rows
  <2> QED
    BY <1>6, FirstPageIs DEF older
<1>8. \A row \in Rows : yielded'[row] = yielded[row] + (IF row \in ToSet(data) THEN 1 ELSE 0)
  BY <1>4, <1>7 DEF YieldAll
<1>9. \/ next = 0 /\ Len(older) <= Limit /\ ToSet(data) = rows
      \/ /\ next \in rows /\ next # 0 /\ Len(older) > Limit /\ next = data[Limit]
         /\ ToSet(data) = {row \in rows : row >= next}
  <2>1. Limit \in Nat /\ \A row \in rows : row # 0
    BY <1>5, <1>6, Products
  <2> HIDE DEF rows, data
  <2>2. CASE Len(older) > Limit
    <3>1. next = data[Limit]
      BY <2>2
    <3> QED
      BY <1>7, <2>1, <2>2, <3>1
  <2>3. CASE ~(Len(older) > Limit)
    <3>1. next = 0 /\ Len(older) <= Limit
      BY <1>7, <2>1, <2>3
    <3> QED
      BY <1>7, <3>1
  <2> QED
    BY <2>2, <2>3
<1>10. ToSet(data) \subseteq rows
  BY <1>9
<1>11. yielded \in [Rows -> Nat]
  BY <1>1 DEF Paced
<1>12. \/ outcome' = "none" /\ next # 0 /\ handedBack' = handedBack \cup {next} /\ cursor' = next
          /\ next \notin handedBack
       \/ outcome' = "done" /\ next = 0 /\ handedBack' = handedBack /\ cursor' = cursor
       \/ outcome' = "unbounded" /\ next # 0 /\ handedBack' = handedBack /\ cursor' = cursor
  BY <1>4 DEF HandedBack, CursorAfter
<1>13. /\ next = 0 => ToSet(data) = rows
       /\ next # 0 => /\ next \in rows /\ Len(older) > Limit /\ next = data[Limit]
                      /\ ToSet(data) = {row \in rows : row >= next}
  <2>1. 0 \notin rows
    BY <1>5, <1>6
  <2> QED
    BY <1>9, <2>1
<1> HIDE DEF data, next
<1>20. Kept'
  BY <1>1, <1>2 DEF Kept
<1>21. Paced'
  <2>1. pages \in Nat /\ offset \in 0..(pages * Limit)
    BY <1>1, Products DEF Paced
  <2>2. offset \in 0..((pages + 1) * Limit) /\ pages + 1 \in 0..PageCap
    <3>1. (pages + 1) * Limit = pages * Limit + Limit /\ pages * Limit \in Nat /\ Limit \in Nat /\ PageCap \in Nat
      BY <2>1, Products
    <3> QED
      BY <1>2, <2>1, <3>1
  <2>3. yielded' \in [Rows -> Nat]
    <3>1. \A row \in Rows : yielded[row] + Cardinality({i \in DOMAIN data : data[i] = row}) \in Nat
      BY <1>7, <1>11
    <3> QED
      BY <1>4, <3>1 DEF YieldAll
  <2>4. cursor' \in Rows \cup {0} /\ handedBack' \subseteq Rows
    BY <1>1, <1>6, <1>12, <1>13 DEF Paced
  <2> QED
    BY <1>1, <1>2, <1>12, <2>2, <2>3, <2>4 DEF Paced
<1>22. ByOffset'
  BY <1>2 DEF ByOffset
<1>23. ByCursor'
  <2> SUFFICES ASSUME advances PROVE ByCursor'
    BY <1>2 DEF ByCursor
  <2>1. /\ \A row \in Rows : yielded[row] <= 1
        /\ cursor = 0 => \A row \in Rows : yielded[row] = 0
        /\ cursor # 0 => /\ \A row \in Rows : yielded[row] > 0 => row >= cursor
                         /\ \A row \in First \ deleted : row >= cursor => yielded[row] > 0
    BY <1>1, <1>2 DEF ByCursor
  <2>2. \A row \in Rows : row \in Int /\ yielded[row] \in Nat
    BY <1>5, <1>11
  <2>3. cursor = 0 \/ cursor \in Rows
    BY <1>1 DEF Paced
  <2>9. /\ \A row \in rows : cursor = 0 \/ row < cursor
        /\ \A row \in account \ rows : cursor # 0 /\ ~(row < cursor)
    OBVIOUS
  <2>10. /\ \A row \in rows : row \in Rows
         /\ \A row \in First \ deleted : row \in account /\ row \in Rows
    BY <1>5, <1>6
  <2>11. cursor \in Int
    BY <2>2, <2>3
  <2> HIDE DEF rows
  <2>4. \A row \in rows : yielded[row] = 0
    BY <2>1, <2>2, <2>9, <2>10, <2>11
  <2>5. \A row \in Rows : yielded'[row] <= 1
    BY <1>8, <1>10, <2>1, <2>2, <2>4
  <2>6. \A row \in Rows : yielded'[row] > 0 <=> yielded[row] > 0 \/ row \in ToSet(data)
    BY <1>8, <2>2
  <2>7. ASSUME outcome' = "none"
        PROVE  /\ cursor' # 0
               /\ \A row \in Rows : yielded'[row] > 0 => row >= cursor'
               /\ \A row \in First \ deleted : row >= cursor' => yielded'[row] > 0
    <3>1. cursor' = next /\ next # 0 /\ next \in rows /\ ToSet(data) = {row \in rows : row >= next}
      BY <1>12, <1>13, <2>7
    <3>2. next \in Rows /\ next \in Int
      BY <1>6, <2>2, <3>1
    <3>3. ASSUME NEW row \in Rows, yielded[row] > 0 PROVE row >= next
      <4>1. cursor # 0 /\ row >= cursor
        BY <2>1, <2>2, <3>3
      <4>2. next < cursor /\ row \in Int
        BY <2>2, <2>9, <3>1, <4>1
      <4> QED
        BY <2>11, <3>2, <4>1, <4>2
    <3>4. ASSUME NEW row \in First \ deleted, row >= next
          PROVE  yielded[row] > 0 \/ row \in ToSet(data)
      <4>1. row \in account /\ row \in Rows /\ row \in Int
        BY <1>5, <2>2
      <4>2. CASE row \in rows
        BY <3>1, <3>4, <4>2
      <4>3. CASE row \notin rows
        <5>1. cursor # 0 /\ row >= cursor
          BY <2>9, <2>11, <4>1, <4>3
        <5> QED
          BY <2>1, <5>1
      <4> QED
        BY <4>2, <4>3
    <3> QED
      BY <1>5, <2>6, <3>1, <3>3, <3>4
  <2>8. ASSUME outcome' = "done" PROVE \A row \in First \ deleted : yielded'[row] > 0
    <3> SUFFICES ASSUME NEW row \in First \ deleted PROVE yielded[row] > 0 \/ row \in ToSet(data)
      BY <1>5, <2>6
    <3>1. row \in account /\ row \in Rows /\ row \in Int /\ ToSet(data) = rows
      BY <1>5, <1>12, <1>13, <2>2, <2>8
    <3>2. CASE row \notin rows
      <4>1. cursor # 0 /\ row >= cursor
        BY <2>9, <2>11, <3>1, <3>2
      <4> QED
        BY <2>1, <4>1
    <3> QED
      BY <3>1, <3>2
  <2> QED
    BY <1>2, <2>5, <2>7, <2>8 DEF ByCursor
<1>24. ByIgnoredCursor'
  <2> SUFFICES ASSUME ~advances, made \cup deleted = {} PROVE ByIgnoredCursor'
    BY <1>2 DEF ByIgnoredCursor
  <2>1. /\ handedBack \subseteq {PageOf(NewestFirst, 0, Limit)[Limit]}
        /\ handedBack # {} => Cardinality(account) > Limit
        /\ \A row \in Rows : yielded[row] <= 1
        /\ handedBack = {} => \A row \in Rows : yielded[row] = 0
    BY <1>1, <1>2 DEF ByIgnoredCursor
  <2>2. rows = account /\ older = NewestFirst /\ Len(older) = Cardinality(account)
        /\ data = PageOf(NewestFirst, 0, Limit)
    BY <1>3, <1>7 DEF data
  <2>3. \A row \in Rows : yielded[row] \in Nat /\ yielded'[row] \in {yielded[row], yielded[row] + 1}
    BY <1>8, <1>11
  <2>4. /\ handedBack' \subseteq {PageOf(NewestFirst, 0, Limit)[Limit]}
        /\ handedBack' # {} => Cardinality(account) > Limit
    BY <1>12, <1>13, <2>1, <2>2
  <2>5. \A row \in Rows : yielded'[row] <= 2
    BY <2>1, <2>3
  <2>6. ASSUME outcome' \in {"none", "done"} PROVE handedBack = {}
    <3>1. CASE outcome' = "none"
      BY <1>12, <1>13, <2>1, <2>2, <3>1
    <3>2. CASE outcome' = "done"
      <4>1. Len(older) <= Limit
        <5>1. next = 0 /\ Limit \in Nat
          BY <1>12, <3>2, Products
        <5>2. Len(older) > Limit => next \in rows
          BY <1>7 DEF next
        <5>3. 0 \notin rows
          BY <1>5, <1>6
        <5> QED
          BY <1>7, <5>1, <5>2, <5>3
      <4>2. ~(Cardinality(account) > Limit)
        <5>1. Limit \in Nat
          BY Products
        <5> QED
          BY <1>7, <2>2, <4>1, <5>1
      <4> QED
        BY <2>1, <4>2
    <3> QED
      BY <2>6, <3>1, <3>2
  <2>7. ASSUME outcome' \in {"none", "done"} PROVE \A row \in Rows : yielded'[row] <= 1
    BY <2>1, <2>3, <2>6, <2>7
  <2>8. outcome' = "none" => handedBack' # {}
    BY <1>12
  <2>9. PageOf(NewestFirst, 0, Limit)' = PageOf(NewestFirst, 0, Limit)
    BY <1>2 DEF PageOf, NewestFirst, Sorted, Newer
  <2> QED
    BY <1>2, <2>4, <2>5, <2>7, <2>8, <2>9 DEF ByIgnoredCursor
<1> QED
  BY <1>20, <1>21, <1>22, <1>23, <1>24 DEF WInv

\* A row that is made is in front of every other.
LEMMA MakeRowKeeps == WInv /\ MakeRow => WInv'
<1> SUFFICES ASSUME WInv, MakeRow PROVE WInv'
  OBVIOUS
<1>1. Kept /\ Paced /\ ByOffset /\ ByCursor /\ ByIgnoredCursor
  BY DEF WInv
<1>2. /\ outcome = "none"
      /\ UNCHANGED <<walk, advances, offset, cursor, handedBack, pages, yielded, outcome,
                     deleted, shuffled>>
  BY DEF MakeRow
<1>3. PICK row \in Rows \ (account \cup deleted) :
        /\ \A other \in account \cup deleted : row > other
        /\ account' = account \cup {row}
        /\ made' = made \cup {row}
  BY DEF MakeRow
<1>4. /\ account \in SUBSET Rows /\ account \in SUBSET Nat /\ Rows \subseteq Nat
      /\ IsFiniteSet(account) /\ IsFiniteSet(First) /\ First \subseteq Rows
      /\ First \ deleted \subseteq account
  BY <1>1, AccountIs
<1>5. IsFiniteSet(account')
  BY <1>3, <1>4, FS_AddElement
<1>6. Kept'
  BY <1>1, <1>2, <1>3, <1>4, <1>5 DEF Kept
<1>7. Paced'
  BY <1>1, <1>2 DEF Paced
<1>8. Skipped' \in SUBSET Skipped
  <2> SUFFICES ASSUME NEW one \in First \ deleted, yielded[one] = 0, Count(one, account') < offset
               PROVE  Count(one, account) < offset
    BY <1>2 DEF Skipped, Count, Newer
  <2>1. Newer(one, account) \in SUBSET Newer(one, account')
    BY <1>3 DEF Newer
  <2>2. Newer(one, account') \in SUBSET account'
    BY DEF Newer
  <2>3. IsFiniteSet(Newer(one, account'))
    BY <1>5, <2>2, FS_Subset
  <2>4. Count(one, account) <= Count(one, account')
    BY <2>1, <2>3, FS_Subset DEF Count
  <2>5. Count(one, account) \in Nat /\ Count(one, account') \in Nat /\ offset \in Int
    <3>1. account' \in SUBSET Nat
      BY <1>3, <1>4
    <3>2. offset \in Int
      BY <1>1, Products DEF Paced
    <3> QED
      BY <1>4, <1>5, <3>1, <3>2, CountIsLess
  <2> QED
    BY <2>4, <2>5
<1>9. ByOffset'
  <2>1. Cardinality(Skipped') <= Cardinality(Skipped) /\ Cardinality(Skipped') \in Nat
    BY <1>1, <1>8, SkippedIsFinite, FS_Subset, FS_CardinalityType
  <2>2. Cardinality(Skipped) \in Nat /\ Cardinality(deleted) \in Nat
    BY <1>1, SkippedIsFinite, AccountIs
  <2> QED
    BY <1>1, <1>2, <2>1, <2>2 DEF ByOffset
<1>10. ByCursor'
  BY <1>1, <1>2 DEF ByCursor
<1>11. ByIgnoredCursor'
  BY <1>3 DEF ByIgnoredCursor
<1> QED
  BY <1>6, <1>7, <1>9, <1>10, <1>11 DEF WInv

\* A row that is deleted lets the one at the offset slip past, and no other.
LEMMA DeleteRowKeeps == WInv /\ DeleteRow => WInv'
<1> SUFFICES ASSUME WInv, DeleteRow PROVE WInv'
  OBVIOUS
<1>1. Kept /\ Paced /\ ByOffset /\ ByCursor /\ ByIgnoredCursor
  BY DEF WInv
<1>2. /\ outcome = "none"
      /\ UNCHANGED <<walk, advances, offset, cursor, handedBack, pages, yielded, outcome,
                     made, shuffled>>
  BY DEF DeleteRow
<1>3. PICK row \in account \cap First :
        /\ account' = account \ {row}
        /\ deleted' = deleted \cup {row}
  BY DEF DeleteRow
<1>4. /\ account \in SUBSET Rows /\ account \in SUBSET Nat /\ Rows \subseteq Nat
      /\ IsFiniteSet(account) /\ IsFiniteSet(First) /\ First \subseteq Rows
      /\ First \ deleted \subseteq account /\ Cardinality(deleted) \in Nat
  BY <1>1, AccountIs
<1>5. IsFiniteSet(account') /\ IsFiniteSet(deleted')
  <2>1. IsFiniteSet(account \ {row})
    BY <1>4, FS_RemoveElement
  <2>2. IsFiniteSet(deleted \cup {row})
    BY <1>1, FS_AddElement DEF Kept
  <2> QED
    BY <1>3, <2>1, <2>2
<1>6. Kept'
  <2>1. account' = (First \ deleted') \cup made
    BY <1>1, <1>3 DEF Kept
  <2> QED
    BY <1>1, <1>2, <1>3, <1>4, <1>5, <2>1 DEF Kept
<1>7. Paced'
  BY <1>1, <1>2 DEF Paced
<1> DEFINE at == Sorted(account)[offset + 1]
<1>8. Skipped' \in SUBSET (Skipped \cup {at})
  <2> SUFFICES ASSUME NEW one \in First \ deleted', yielded[one] = 0, Count(one, account') < offset
               PROVE  Count(one, account) < offset \/ one = at
    BY <1>2, <1>3 DEF Skipped, Count, Newer
  <2>1. one \in account
    BY <1>3, <1>4
  <2>2. Newer(one, account) \in SUBSET (Newer(one, account') \cup {row})
    BY <1>3 DEF Newer
  <2>3. Newer(one, account') \in SUBSET account'
    BY DEF Newer
  <2>4. IsFiniteSet(Newer(one, account'))
    BY <1>5, <2>3, FS_Subset
  <2>5. /\ IsFiniteSet(Newer(one, account') \cup {row})
        /\ Cardinality(Newer(one, account') \cup {row}) \in {Count(one, account'), Count(one, account') + 1}
    BY <2>4, FS_AddElement DEF Count
  <2>6. Count(one, account) <= Cardinality(Newer(one, account') \cup {row})
    BY <2>2, <2>5, FS_Subset DEF Count
  <2>7. Count(one, account) \in Nat /\ Count(one, account') \in Nat /\ offset \in Int
    <3>1. account' \in SUBSET Nat
      BY <1>3, <1>4
    <3>2. offset \in Int
      BY <1>1, Products DEF Paced
    <3> QED
      BY <1>4, <1>5, <3>1, <3>2, CountIsLess
  <2>8. Count(one, account) <= offset
    BY <2>5, <2>6, <2>7
  <2>9. Sorted(account)[Count(one, account) + 1] = one
    BY <1>4, <2>1, SortedIsSorted
  <2> QED
    BY <2>7, <2>8, <2>9
<1> HIDE DEF at
<1>9. ByOffset'
  <2>1. IsFiniteSet(Skipped) /\ Cardinality(Skipped) \in Nat
    BY <1>1, SkippedIsFinite
  <2>2. /\ IsFiniteSet(Skipped \cup {at})
        /\ Cardinality(Skipped \cup {at}) \in {Cardinality(Skipped), Cardinality(Skipped) + 1}
    BY <2>1, FS_AddElement
  <2>3. Cardinality(Skipped') <= Cardinality(Skipped \cup {at}) /\ Cardinality(Skipped') \in Nat
    BY <1>8, <2>2, FS_Subset, FS_CardinalityType
  <2>4. Cardinality(deleted') = Cardinality(deleted) + 1
    <3>1. row \notin deleted /\ IsFiniteSet(deleted)
      BY <1>1 DEF Kept
    <3> QED
      BY <1>3, <3>1, FS_AddElement
  <2> QED
    BY <1>1, <1>2, <1>4, <2>1, <2>2, <2>3, <2>4 DEF ByOffset
<1>10. ByCursor'
  BY <1>1, <1>2, <1>3 DEF ByCursor
<1>11. ByIgnoredCursor'
  BY <1>3 DEF ByIgnoredCursor
<1> QED
  BY <1>6, <1>7, <1>9, <1>10, <1>11 DEF WInv

LEMMA WalkKeeps == WInv /\ [WalkNext]_walkVars => WInv'
<1> SUFFICES ASSUME WInv, [WalkNext]_walkVars PROVE WInv'
  OBVIOUS
<1>1. CASE OffsetPage
  BY <1>1, OffsetPageKeeps
<1>2. CASE CursorPage
  BY <1>2, CursorPageKeeps
<1>3. CASE MakeRow
  BY <1>3, MakeRowKeeps
<1>4. CASE DeleteRow
  BY <1>4, DeleteRowKeeps
<1>5. pages \in Nat /\ pages <= PageCap /\ PageCap \in Nat
  BY Products DEF WInv, Paced
<1>6. CASE OffsetPageUnusable
  <2>1. pages' <= PageCap
    BY <1>5, <1>6 DEF OffsetPageUnusable, Exhausted
  <2> QED
    BY <1>6, <2>1, EndingKeeps DEF OffsetPageUnusable
<1>7. CASE GiveUp
  BY <1>5, <1>7, EndingKeeps DEF GiveUp
<1>8. CASE PageFails
  BY <1>5, <1>8, EndingKeeps DEF PageFails
<1>9. CASE UNCHANGED walkVars
  <2> USE <1>9 DEF walkVars, WInv
  <2>1. Kept'
    BY DEF Kept
  <2>2. Paced'
    BY DEF Paced
  <2>3. Skipped' = Skipped
    BY DEF Skipped, Count, Newer
  <2>4. ByOffset'
    BY <2>3 DEF ByOffset
  <2>5. ByCursor'
    BY DEF ByCursor
  <2>6. PageOf(NewestFirst, 0, Limit)' = PageOf(NewestFirst, 0, Limit)
    BY DEF PageOf, NewestFirst, Sorted, Newer
  <2>7. ByIgnoredCursor'
    BY <2>6 DEF ByIgnoredCursor
  <2> QED
    BY <2>1, <2>2, <2>4, <2>5, <2>7
<1> QED
  BY <1>1, <1>2, <1>3, <1>4, <1>6, <1>7, <1>8, <1>9 DEF WalkNext, Walk

\* What the invariant says of a walk that is over.
LEMMA WalksAreExplained == WInv => OffsetWalkIsExplained /\ CursorWalkIsExact
<1> SUFFICES ASSUME WInv PROVE OffsetWalkIsExplained /\ CursorWalkIsExact
  OBVIOUS
<1>1. Kept /\ Paced /\ ByOffset /\ ByCursor /\ ByIgnoredCursor
  BY DEF WInv
<1>2. WalkTypeOK
  <2>1. pages \in Nat /\ pages <= PageCap /\ offset \in 0..(pages * Limit)
    BY <1>1, Products DEF Paced
  <2>2. offset \in 0..(PageCap * Limit)
    <3>8. Limit \in Nat /\ PageCap \in Nat
      BY PagesAssumption
    <3>9. PageCap - pages \in Nat /\ Limit \in Nat /\ PageCap \in Nat
      BY <1>1, <3>8 DEF Paced
    <3>1. pages * Limit \in Nat /\ PageCap * Limit \in Nat /\ (PageCap - pages) * Limit \in Nat
      BY <2>1, <3>9, Products
    <3>2. PageCap * Limit = pages * Limit + (PageCap - pages) * Limit
      BY <2>1, <3>9
    <3> QED
      BY <2>1, <3>1, <3>2
  <2>3. account \subseteq Rows
    BY <1>1, AccountIs
  <2> QED
    BY <1>1, <2>2, <2>3 DEF WalkTypeOK, Paced, Kept
<1>3. NoRowTwice
  BY <1>1 DEF NoRowTwice, ByOffset
<1>4. SkippedForACause
  <2> SUFFICES ASSUME walk = "offset", advances, outcome = "done", ~shuffled
               PROVE  Cardinality({row \in First \ deleted : yielded[row] = 0}) <= Cardinality(deleted)
    BY DEF SkippedForACause
  <2>1. Cardinality(Skipped) <= Cardinality(deleted) /\ Cardinality(account) <= offset
    BY <1>1 DEF ByOffset
  <2>2. ASSUME NEW row \in First \ deleted PROVE Count(row, account) < offset
    <3>1. row \in account /\ account \in SUBSET Nat /\ IsFiniteSet(account) /\ offset \in Int
      BY <1>1, AccountIs, Products DEF Paced
    <3>2. /\ Count(row, account) < Cardinality(account) /\ Count(row, account) \in Nat
          /\ Cardinality(account) \in Nat
      BY <3>1, CountIsLess
    <3> QED
      BY <2>1, <3>1, <3>2
  <2>3. {row \in First \ deleted : yielded[row] = 0} = Skipped
    BY <2>2 DEF Skipped
  <2> QED
    BY <2>1, <2>3
<1>5. AdvancingWalkIsExact
  BY <1>1 DEF AdvancingWalkIsExact, ByCursor
<1>6. RestartIsNoticed
  BY <1>1 DEF RestartIsNoticed, ByIgnoredCursor
<1> QED
  BY <1>2, <1>3, <1>4, <1>5, <1>6 DEF OffsetWalkIsExplained, CursorWalkIsExact

\* A listing by offset hands out no row twice, and of the rows that were there
\* all along a finished one misses no more than were deleted meanwhile.
THEOREM OffsetWalksAreExplained == WalkSpec => []OffsetWalkIsExplained
<1>1. WalkInit => WInv
  BY WalkBegins
<1>2. WInv /\ [WalkNext]_walkVars => WInv'
  BY WalkKeeps
<1>3. WInv => OffsetWalkIsExplained
  BY WalksAreExplained
<1> QED
  BY <1>1, <1>2, <1>3, PTL DEF WalkSpec

\* A listing by cursor is exact, and one whose cursor is ignored stops before a
\* row is read a third time.
THEOREM CursorWalksAreExact == WalkSpec => []CursorWalkIsExact
<1>1. WalkInit => WInv
  BY WalkBegins
<1>2. WInv /\ [WalkNext]_walkVars => WInv'
  BY WalkKeeps
<1>3. WInv => CursorWalkIsExact
  BY WalksAreExplained
<1> QED
  BY <1>1, <1>2, <1>3, PTL DEF WalkSpec

=============================================================================
