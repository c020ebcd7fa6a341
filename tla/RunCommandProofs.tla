------------------------- MODULE RunCommandProofs -------------------------
(***************************************************************************)
(* What cronheart run guarantees of every invocation, with any number of   *)
(* streams, writes and signals: the status it hands back and the check-in  *)
(* it closes with are one account of the command, what is in flight is     *)
(* waited for, and a command that is gone is left alone; and of every end  *)
(* of a process behind one, that nothing goes with it.                     *)
(***************************************************************************)
EXTENDS ProcessExit, PingClientProofs

\* The wrapper's own variables are of their kinds.
Shaped ==
  /\ spec \in Specs
  /\ at \in {"planning", "executing", "delivering", "flushing", "returned"}
  /\ cmd \in {"absent", "running", "dead"}
  /\ status \in {"none", "ok", "bad", "signal"}
  /\ killed \in BOOLEAN /\ background \in BOOLEAN /\ refuses \in BOOLEAN
  /\ exited \in BOOLEAN /\ timedOut \in BOOLEAN /\ forwarded \in BOOLEAN
  /\ escalated \in BOOLEAN /\ cut \in BOOLEAN
  /\ timer \in Timers
  /\ interrupts \in 0..Interrupts
  /\ code \in Codes \cup {"none"}

\* So are those of the streams, and the stalls are counted as they are.
Teed ==
  /\ pipe \in [Streams -> 0..1]
  /\ written \in [Streams -> 0..Writes]
  /\ eof \in [Streams -> BOOLEAN]
  /\ sink \in [Streams -> {"ready", "full", "closed"}]
  /\ stalled \in [Streams -> BOOLEAN]
  /\ stalls = Cardinality({s \in Streams : stalled[s]})

\* Nothing is timed before the command is launched, and nothing of a command
\* that was seen to exit but the drain of its pipes.
Timed ==
  /\ at = "planning" => cmd = "absent" /\ ~exited /\ ~timedOut /\ timer = Off
  /\ exited => cmd = "dead" /\ timer.deadline # "armed" /\ timer.escalation # "armed"
  /\ timer.drain = "armed" => exited /\ stalls = 0
  /\ timer.deadline = "armed" \/ timedOut => spec.timeout

\* The status is decided when the execution is over, and decided truthfully.
Decided ==
  /\ at \in {"planning", "executing"} <=> code = "none"
  /\ cmd = "dead" => status # "none"
  /\ code \in {"ok", "bad", "signal"} => cmd = "dead" /\ status = code /\ ~timedOut
  /\ code = "timeout" => spec.timeout /\ timedOut /\ cmd = "dead"
  /\ code = "notStarted" => refuses \/ cmd = "absent"
  /\ code = "usage" => cmd = "absent" /\ spec.monitor = "usage"

\* What has been checked in for, at each stage of a run.
CheckedIn ==
  /\ at = "planning" \/ spec.monitor # "resolved" => \A a \in Actions : ~Sent(a)
  /\ spec.monitor = "resolved" /\ at = "executing"
       => Sent("start") /\ ~Sent("success") /\ ~Sent("fail")
  /\ spec.monitor = "resolved" /\ at \in {"delivering", "flushing", "returned"}
       => /\ Sent("start")
          /\ Sent("success") <=> code = "ok"
          /\ Sent("fail") <=> code # "ok"
  /\ spec.monitor # "resolved" => at \in {"planning", "executing", "returned"}

\* Once the last check-in is delivered the flush waits for whatever is left.
Awaited ==
  /\ at = "flushing" => flush[1].at # "idle" /\ inFlight \subseteq flush[1].pending
  /\ at = "returned" /\ spec.monitor = "resolved" /\ ~cut
       => flush[1].at \in {"flushed", "expired"} /\ inFlight \subseteq flush[1].pending

RInv == Core /\ Shaped /\ Teed /\ Timed /\ Decided /\ CheckedIn /\ Awaited

-----------------------------------------------------------------------------
(* The client's part in a step.                                             *)

\* There is one run and one flush.
LEMMA OneRun ==
  /\ 1 \in Runs /\ 1 \in Flushers
  /\ \A a \in Actions : <<1, a>> \in CheckIns
  /\ Actions = {"heartbeat", "start", "success", "fail"}
BY RunAssumption DEF CheckIns, Actions, Terminals

\* A check-in made through a direct method adds itself to what was sent.
LEMMA CallStep ==
  ASSUME Core, NEW a \in Actions, Call(1, a)
  PROVE  /\ Core'
         /\ \A b \in Actions : Sent(b)' <=> b = a \/ Sent(b)
<1>1. Core'
  <2>1. terminal' \in [Runs -> Terminals \cup {"none"}]
    BY DEF Core, Typed, Call
  <2> QED
    BY <2>1, OneRun, DispatchCore DEF Call
<1>2. \A b \in Actions : stage'[<<1, b>>] # "unsent" <=> b = a \/ stage[<<1, b>>] # "unsent"
  BY OneRun DEF Call, Dispatch, Core, Typed
<1> QED
  BY <1>1, <1>2 DEF Sent

\* A settlement leaves what was sent sent, and no more in flight.
LEMMA SettledStep ==
  ASSUME Core, NEW c \in CheckIns, SettleCheckIn(c)
  PROVE  /\ Core'
         /\ \A b \in Actions : Sent(b)' <=> Sent(b)
         /\ inFlight' \subseteq inFlight
         /\ UNCHANGED flush
<1>1. \A b \in Actions : stage'[<<1, b>>] # "unsent" <=> stage[<<1, b>>] # "unsent"
  BY OneRun DEF SettleCheckIn, Core, Typed
<1>2. inFlight' \subseteq inFlight /\ UNCHANGED flush
  BY DEF SettleCheckIn, Untracked
<1> QED
  BY <1>1, <1>2, SettleCore DEF Sent

\* The flush waits for what it was called over.
LEMMA FlushedStep ==
  ASSUME Core, FlushCall(1) \/ FlushSettled(1) \/ FlushExpired(1)
  PROVE  /\ Core'
         /\ UNCHANGED <<stage, inFlight>>
         /\ flush'[1].at # "idle"
         /\ flush'[1].pending = (IF FlushCall(1) THEN inFlight ELSE flush[1].pending)
<1>1. UNCHANGED <<stage, inFlight>>
  BY DEF FlushCall, FlushSettled, FlushExpired
<1>2. CASE FlushCall(1)
  BY <1>1, <1>2, OneRun, FlushCore DEF FlushCall, Core, Typed
<1>3. CASE ~FlushCall(1) /\ (FlushSettled(1) \/ FlushExpired(1))
  BY <1>1, <1>3, OneRun, FlushCore DEF FlushSettled, FlushExpired, Core, Typed
<1> QED
  BY <1>2, <1>3

-----------------------------------------------------------------------------
(* Steps that leave the client and the stage of the run alone.              *)

\* What was checked in for is what it was.
LEMMA Aside ==
  ASSUME RInv, UNCHANGED <<clientVars, spec, at, code, cut>>
  PROVE  Core' /\ CheckedIn' /\ Awaited'
<1>1. Core'
  BY DEF RInv, Core, Typed, Covered, Spoken, clientVars
<1>2. CheckedIn' /\ Awaited'
  BY DEF RInv, CheckedIn, Awaited, Sent, clientVars
<1> QED
  BY <1>1, <1>2

\* The command and what it left behind do as they please.
LEMMA WorldStep == RInv /\ (CommandEnds \/ Background) => RInv'
<1> SUFFICES ASSUME RInv, CommandEnds \/ Background PROVE RInv'
  OBVIOUS
<1>1. Core' /\ CheckedIn' /\ Awaited'
  BY Aside DEF CommandEnds, Background
<1>2. Shaped'
  <2>1. CASE CommandEnds
    BY <2>1 DEF RInv, Shaped, CommandEnds, flagVars
  <2>2. CASE Background
    <3>1. background' \in BOOLEAN
      BY <2>2 DEF Background
    <3> QED
      BY <2>2, <3>1 DEF RInv, Shaped, Background, flagVars
  <2> QED
    BY <2>1, <2>2
<1>3. Teed'
  BY DEF RInv, Teed, CommandEnds, Background, streamVars, teeVars
<1>4. Timed'
  BY DEF RInv, Timed, Shaped, CommandEnds, Background, teeVars, flagVars
<1>5. Decided'
  BY DEF RInv, Decided, Timed, Shaped, CommandEnds, Background, flagVars
<1> QED
  BY <1>1, <1>2, <1>3, <1>4, <1>5 DEF RInv

\* A stream is written to, or is read to its end.
LEMMA StreamStep == RInv /\ (\E s \in Streams : Write(s) \/ StreamEnds(s)) => RInv'
<1> SUFFICES ASSUME RInv, NEW s \in Streams, Write(s) \/ StreamEnds(s) PROVE RInv'
  OBVIOUS
<1>1. Core' /\ CheckedIn' /\ Awaited'
  BY Aside DEF Write, StreamEnds
<1>2. Shaped'
  BY DEF RInv, Shaped, Write, StreamEnds, flagVars, commandVars
<1>3. Teed'
  <2>1. CASE Write(s)
    BY <2>1, BoundsAssumption DEF RInv, Teed, Write, teeVars
  <2>2. CASE StreamEnds(s)
    BY <2>2 DEF RInv, Teed, StreamEnds, teeVars
  <2> QED
    BY <2>1, <2>2
<1>4. Timed'
  BY DEF RInv, Timed, Write, StreamEnds, teeVars, flagVars, commandVars
<1>5. Decided'
  BY DEF RInv, Decided, Write, StreamEnds, flagVars, commandVars
<1> QED
  BY <1>1, <1>2, <1>3, <1>4, <1>5 DEF RInv

\* A stream that stalls or flows again changes the count of stalls by one.
LEMMA StallsAreCounted ==
  ASSUME Teed, NEW s \in Streams, NEW held \in BOOLEAN, stalled[s] # held,
         stalled' = [stalled EXCEPT ![s] = held],
         stalls' = (IF held THEN stalls + 1 ELSE stalls - 1)
  PROVE  /\ stalled' \in [Streams -> BOOLEAN]
         /\ stalls' = Cardinality({q \in Streams : stalled'[q]})
         /\ stalls \in Nat /\ stalls' \in Nat
<1> DEFINE was == {q \in Streams : stalled[q]}
           is  == {q \in Streams : stalled'[q]}
<1>1. IsFiniteSet(was) /\ IsFiniteSet(is)
  BY StreamsAssumption, FS_Subset
<1>2. Cardinality(was) \in Nat /\ Cardinality(is) \in Nat /\ stalls = Cardinality(was)
  BY <1>1, FS_CardinalityType DEF Teed
<1>3. CASE held = TRUE
  <2>1. is = was \cup {s} /\ s \notin was
    BY <1>3 DEF Teed
  <2>2. Cardinality(is) = Cardinality(was) + 1
    BY <1>1, <2>1, FS_AddElement
  <2> QED
    BY <1>2, <1>3, <2>2 DEF Teed
<1>4. CASE held = FALSE
  <2>1. was = is \cup {s} /\ s \notin is
    BY <1>4 DEF Teed
  <2>2. Cardinality(was) = Cardinality(is) + 1
    BY <1>1, <2>1, FS_AddElement
  <2> QED
    BY <1>2, <1>4, <2>2 DEF Teed
<1> QED
  BY <1>3, <1>4

\* A chunk is read, and may stall its stream.
LEMMA ReadStep == RInv /\ (\E s \in Streams : Read(s)) => RInv'
<1> SUFFICES ASSUME RInv, NEW s \in Streams, Read(s) PROVE RInv'
  OBVIOUS
<1>1. Core' /\ CheckedIn' /\ Awaited'
  BY Aside DEF Read
<1>2. CASE UNCHANGED <<sink, teeVars, timer>>
  <2>1. Shaped'
    BY <1>2 DEF RInv, Shaped, Read, flagVars, commandVars
  <2>2. Teed'
    BY <1>2 DEF RInv, Teed, Read, teeVars
  <2>3. Timed' /\ Decided'
    BY <1>2 DEF RInv, Timed, Decided, Read, teeVars, flagVars, commandVars
  <2> QED
    BY <1>1, <2>1, <2>2, <2>3 DEF RInv
<1>3. CASE /\ sink' = [sink EXCEPT ![s] = "full"]
           /\ stalled' = [stalled EXCEPT ![s] = TRUE]
           /\ stalls' = stalls + 1
           /\ timer' = [timer EXCEPT !.drain = "off"]
  <2>1. timer' \in Timers /\ timer'.drain = "off"
        /\ timer'.deadline = timer.deadline /\ timer'.escalation = timer.escalation
    BY <1>3 DEF RInv, Shaped, Timers
  <2>2. Shaped'
    BY <2>1 DEF RInv, Shaped, Read, flagVars, commandVars
  <2>3. stalled' \in [Streams -> BOOLEAN] /\ stalls' = Cardinality({q \in Streams : stalled'[q]})
    BY <1>3, StallsAreCounted DEF RInv, Read
  <2>4. Teed'
    BY <1>3, <2>3 DEF RInv, Teed, Read
  <2>5. Timed'
    BY <2>1 DEF RInv, Timed, Read, flagVars, commandVars
  <2>6. Decided'
    BY DEF RInv, Decided, Read, flagVars, commandVars
  <2> QED
    BY <1>1, <2>2, <2>4, <2>5, <2>6 DEF RInv
<1> QED
  BY <1>2, <1>3 DEF Read

\* A reader catches up or goes away, and its stream flows again.
LEMMA SinkStep == RInv /\ (\E s \in Streams : SinkMoves(s)) => RInv'
<1> SUFFICES ASSUME RInv, NEW s \in Streams, SinkMoves(s) PROVE RInv'
  OBVIOUS
<1>1. Core' /\ CheckedIn' /\ Awaited'
  BY Aside DEF SinkMoves
<1>2. sink' \in [Streams -> {"ready", "full", "closed"}]
  BY DEF RInv, Teed, SinkMoves
<1>3. Decided'
  BY DEF RInv, Decided, SinkMoves, flagVars, commandVars
<1>4. CASE ~stalled[s]
  <2>1. Shaped' /\ Timed'
    BY <1>4 DEF RInv, Shaped, Timed, SinkMoves, teeVars, flagVars, commandVars
  <2>2. Teed'
    BY <1>2, <1>4 DEF RInv, Teed, SinkMoves, teeVars
  <2> QED
    BY <1>1, <1>3, <2>1, <2>2 DEF RInv
<1>5. CASE stalled[s] /\ Resume(s)
  <2>1. /\ stalled' \in [Streams -> BOOLEAN]
        /\ stalls' = Cardinality({q \in Streams : stalled'[q]})
        /\ stalls \in Nat /\ stalls' \in Nat
    <3>1. Teed /\ stalled[s] # FALSE
      BY <1>5 DEF RInv
    <3>2. stalled' = [stalled EXCEPT ![s] = FALSE] /\ stalls' = (IF FALSE THEN stalls + 1 ELSE stalls - 1)
      BY <1>5 DEF Resume
    <3> QED
      BY <3>1, <3>2, StallsAreCounted
  <2>2. /\ timer' \in Timers
        /\ timer'.deadline = timer.deadline /\ timer'.escalation = timer.escalation
        /\ timer'.drain = "armed" => exited /\ stalls' = 0
    BY <1>5, <2>1 DEF RInv, Shaped, Timed, Timers, Resume, ArmDrain
  <2>3. Shaped'
    BY <2>2 DEF RInv, Shaped, SinkMoves, flagVars, commandVars
  <2>4. Teed'
    BY <1>2, <2>1 DEF RInv, Teed, SinkMoves
  <2>5. Timed'
    BY <2>2 DEF RInv, Timed, SinkMoves, flagVars, commandVars
  <2> QED
    BY <1>1, <1>3, <2>3, <2>4, <2>5 DEF RInv
<1> QED
  BY <1>4, <1>5 DEF SinkMoves

\* The exit of the command disarms what was timing it, and leaves the drain.
LEMMA ExitSeenStep == RInv /\ ExitSeen => RInv'
<1> SUFFICES ASSUME RInv, ExitSeen PROVE RInv'
  OBVIOUS
<1>1. Core' /\ CheckedIn' /\ Awaited'
  BY Aside DEF ExitSeen
<1>2. /\ timer' \in Timers
      /\ timer'.deadline # "armed" /\ timer'.escalation # "armed"
      /\ timer'.drain = "armed" => stalls = 0
  BY DEF RInv, Shaped, Timed, Timers, ExitSeen, ArmDrain, TimersAtExit
<1>3. Shaped'
  BY <1>2 DEF RInv, Shaped, ExitSeen, commandVars
<1>4. Teed'
  BY DEF RInv, Teed, ExitSeen, streamVars, teeVars
<1>5. Timed'
  BY <1>2 DEF RInv, Timed, ExitSeen, commandVars, teeVars
<1>6. Decided'
  BY DEF RInv, Decided, ExitSeen, commandVars
<1> QED
  BY <1>1, <1>3, <1>4, <1>5, <1>6 DEF RInv

\* Escalation is armed of a command that has not been seen to exit, or not at all.
LEMMA EscalatesArmsNoMore ==
  ASSUME NEW t \in Timers
  PROVE  /\ Escalates(t) \in Timers
         /\ Escalates(t).deadline = t.deadline /\ Escalates(t).drain = t.drain
         /\ exited => Escalates(t) = t
BY DEF Escalates, Timers

\* The deadline, a signal and the escalation end nothing themselves.
LEMMA TimerStep == RInv /\ (DeadlineFires \/ Interrupt \/ EscalationFires) => RInv'
<1> SUFFICES ASSUME RInv, DeadlineFires \/ Interrupt \/ EscalationFires PROVE RInv'
  OBVIOUS
<1>1. Core' /\ CheckedIn' /\ Awaited'
  BY Aside DEF DeadlineFires, Interrupt, EscalationFires, commandVars
<1>2. Teed'
  BY DEF RInv, Teed, DeadlineFires, Interrupt, EscalationFires, streamVars, teeVars
<1>3. CASE DeadlineFires
  <2> DEFINE fired == [timer EXCEPT !.deadline = "fired"]
  <2>1. ~exited /\ spec.timeout
    BY <1>3 DEF RInv, Timed, DeadlineFires
  <2>2. fired \in Timers /\ fired.deadline = "fired" /\ fired.drain = timer.drain
    BY DEF RInv, Shaped, Timers
  <2>3. timer' \in Timers /\ timer'.deadline = "fired" /\ timer'.drain = timer.drain
    BY <1>3, <2>2, EscalatesArmsNoMore DEF DeadlineFires
  <2>4. Shaped'
    BY <1>3, <2>3 DEF RInv, Shaped, DeadlineFires, commandVars
  <2>5. Timed'
    BY <1>3, <2>1, <2>3 DEF RInv, Timed, DeadlineFires, commandVars, teeVars
  <2>6. Decided'
    BY <1>3 DEF RInv, Decided, DeadlineFires, commandVars
  <2> QED
    BY <1>1, <1>2, <2>4, <2>5, <2>6 DEF RInv
<1>4. CASE Interrupt
  <2>1. /\ timer' \in Timers /\ timer'.deadline = timer.deadline /\ timer'.drain = timer.drain
        /\ exited => timer' = timer
    BY <1>4, EscalatesArmsNoMore DEF RInv, Shaped, Interrupt
  <2>2. interrupts' \in 0..Interrupts
    BY <1>4, BoundsAssumption DEF RInv, Shaped, Interrupt
  <2>3. forwarded' \in BOOLEAN
    BY <1>4 DEF Interrupt
  <2>4. Shaped'
    BY <1>4, <2>1, <2>2, <2>3 DEF RInv, Shaped, Interrupt, commandVars
  <2>5. Timed'
    BY <1>4, <2>1 DEF RInv, Timed, Interrupt, commandVars, teeVars
  <2>6. Decided'
    BY <1>4 DEF RInv, Decided, Interrupt, commandVars
  <2> QED
    BY <1>1, <1>2, <2>4, <2>5, <2>6 DEF RInv
<1>5. CASE EscalationFires
  <2>1. /\ timer' \in Timers /\ timer'.escalation = "fired"
        /\ timer'.deadline = timer.deadline /\ timer'.drain = timer.drain
    BY <1>5 DEF RInv, Shaped, Timers, EscalationFires
  <2>2. killed' \in BOOLEAN /\ background' \in BOOLEAN
    BY <1>5 DEF EscalationFires
  <2>3. Shaped'
    BY <1>5, <2>1, <2>2 DEF RInv, Shaped, EscalationFires
  <2>4. Timed'
    BY <1>5, <2>1 DEF RInv, Timed, EscalationFires, teeVars
  <2>5. Decided'
    BY <1>5 DEF RInv, Decided, EscalationFires
  <2> QED
    BY <1>1, <1>2, <2>3, <2>4, <2>5 DEF RInv
<1> QED
  BY <1>3, <1>4, <1>5

-----------------------------------------------------------------------------
(* The stages of a run.                                                     *)

\* An invocation that cannot be read ends where it began.
LEMMA RefusalStep == RInv /\ RefuseUsage => RInv'
<1> SUFFICES ASSUME RInv, RefuseUsage PROVE RInv'
  OBVIOUS
<1>1. Core' /\ Shaped' /\ Teed'
  BY DEF RInv, Core, Typed, Covered, Spoken, Shaped, Codes, Teed, RefuseUsage, clientVars, commandVars,
     streamVars, teeVars, flagVars
<1>2. Timed' /\ Decided'
  BY DEF RInv, Timed, Decided, RefuseUsage, commandVars, teeVars, flagVars
<1>3. CheckedIn' /\ Awaited'
  BY DEF RInv, CheckedIn, Awaited, Sent, RefuseUsage, clientVars
<1> QED
  BY <1>1, <1>2, <1>3 DEF RInv

\* A command is launched after its start was dispatched.
LEMMA LaunchStep == RInv /\ Launch => RInv'
<1> SUFFICES ASSUME RInv, Launch PROVE RInv'
  OBVIOUS
<1>1. Core' /\ \A a \in Actions : Sent(a)' <=> (a = "start" /\ spec.monitor = "resolved") \/ Sent(a)
  <2>1. CASE spec.monitor = "resolved"
    BY <2>1, OneRun, CallStep DEF RInv, Launch
  <2>2. CASE spec.monitor # "resolved"
    BY <2>2 DEF RInv, Launch, Core, Typed, Covered, Spoken, Sent, clientVars
  <2> QED
    BY <2>1, <2>2
<1>2. /\ timer' \in Timers /\ timer'.drain = timer.drain
      /\ timer'.deadline = "armed" => spec.timeout
  BY DEF RInv, Shaped, Timers, Launch
<1>3. Shaped' /\ Teed'
  BY <1>2 DEF RInv, Shaped, Teed, Launch, streamVars, teeVars, flagVars
<1>4. Timed'
  BY <1>2 DEF RInv, Timed, Off, Launch, teeVars, flagVars
<1>5. Decided'
  BY DEF RInv, Decided, Shaped, Codes, Launch, flagVars
<1>6. CheckedIn'
  BY <1>1, OneRun DEF RInv, CheckedIn, Launch
<1>7. Awaited'
  BY DEF Awaited, Launch
<1> QED
  BY <1>1, <1>3, <1>4, <1>5, <1>6, <1>7 DEF RInv

\* An execution that ends with a status that is true of the command leaves one
\* terminal check-in behind, which says what the status says.
LEMMA ExecutedStep ==
  ASSUME RInv, at = "executing", NEW result \in {"ok", "bad", "signal", "timeout", "notStarted"},
         Executed(result),
         UNCHANGED <<spec, commandVars, streamVars, teeVars, flagVars, cut>>,
         interrupts' \in 0..Interrupts,
         result \in {"ok", "bad", "signal"} => cmd = "dead" /\ status = result /\ ~timedOut,
         result = "timeout" => timedOut /\ cmd = "dead",
         result = "notStarted" => refuses \/ cmd = "absent"
  PROVE  RInv'
<1>1. /\ Core'
      /\ \A a \in Actions : Sent(a)' <=> (a = TerminalFor(result) /\ spec.monitor = "resolved") \/ Sent(a)
  <2>1. CASE spec.monitor = "resolved"
    <3>1. TerminalFor(result) \in Actions
      BY OneRun DEF TerminalFor
    <3> QED
      BY <2>1, <3>1, CallStep DEF RInv, Executed
  <2>2. CASE spec.monitor # "resolved"
    BY <2>2 DEF RInv, Executed, Core, Typed, Covered, Spoken, Sent, clientVars
  <2> QED
    BY <2>1, <2>2
<1>2. timer' = Off /\ Off \in Timers /\ Off.drain = "off" /\ Off.deadline = "off" /\ Off.escalation = "off"
  BY DEF Executed, Off, Timers
<1>3. at' = (IF spec.monitor = "resolved" THEN "delivering" ELSE "returned") /\ code' = result
  BY DEF Executed
<1>4. Shaped' /\ Teed'
  BY <1>2, <1>3 DEF RInv, Shaped, Codes, Teed, commandVars, streamVars, teeVars, flagVars
<1>5. Timed'
  BY <1>2, <1>3 DEF RInv, Timed, commandVars, teeVars, flagVars
<1>6. Decided'
  <2>1. timedOut => spec.timeout
    BY DEF RInv, Timed
  <2> QED
    BY <1>3, <2>1 DEF RInv, Decided, commandVars, flagVars
<1>7. CheckedIn'
  BY <1>1, <1>3, OneRun DEF RInv, CheckedIn, TerminalFor
<1>8. Awaited'
  BY <1>3 DEF Awaited
<1> QED
  BY <1>1, <1>4, <1>5, <1>6, <1>7, <1>8 DEF RInv

\* The four ways an execution ends: a spawn that failed, the end of its pipes, the
\* end of their drain, and a signal that was refused.
LEMMA EndStep == RInv /\ (SpawnFailed \/ CloseSeen \/ DrainFires \/ SignalRefused) => RInv'
<1> SUFFICES ASSUME RInv, SpawnFailed \/ CloseSeen \/ DrainFires \/ SignalRefused PROVE RInv'
  OBVIOUS
<1>0. interrupts \in 0..Interrupts
  BY DEF RInv, Shaped
<1>1. CASE SpawnFailed
  BY <1>0, <1>1, ExecutedStep DEF SpawnFailed
<1>2. CASE CloseSeen \/ DrainFires
  <2>1. exited /\ cmd = "dead"
    BY <1>2 DEF RInv, Timed, CloseSeen, DrainFires
  <2>2. status \in {"ok", "bad", "signal"}
    BY <2>1 DEF RInv, Shaped, Decided
  <2>3. /\ ExitCode \in {"ok", "bad", "signal", "timeout"}
        /\ ExitCode = "timeout" <=> timedOut
        /\ ExitCode # "timeout" => ExitCode = status
    BY <2>2 DEF ExitCode
  <2> QED
    BY <1>0, <1>2, <2>1, <2>3, ExecutedStep DEF CloseSeen, DrainFires
<1>3. CASE SignalRefused
  <2>1. interrupts' \in 0..Interrupts
    BY <1>0, <1>3, BoundsAssumption DEF SignalRefused
  <2> QED
    BY <1>3, <2>1, ExecutedStep DEF SignalRefused
<1> QED
  BY <1>1, <1>2, <1>3

\* The delivery, the flush and their budget decide nothing any more.
LEMMA DeliveryStep ==
  RInv /\ (Delivered \/ Flushed \/ BudgetFires \/ InterruptDelivery) => RInv'
<1> SUFFICES ASSUME RInv, Delivered \/ Flushed \/ BudgetFires \/ InterruptDelivery PROVE RInv'
  OBVIOUS
<1>1. Core' /\ UNCHANGED <<stage, inFlight>>
  <2>1. CASE Delivered
    BY <2>1, FlushedStep DEF RInv, Delivered
  <2>2. CASE Flushed \/ BudgetFires \/ InterruptDelivery
    BY <2>2 DEF RInv, Core, Typed, Covered, Spoken, Flushed, BudgetFires, InterruptDelivery, Stop, clientVars
  <2> QED
    BY <2>1, <2>2
<1>2. UNCHANGED <<spec, commandVars, streamVars, teeVars, flagVars, timer, code>>
  BY DEF Delivered, Flushed, BudgetFires, InterruptDelivery, Stop
<1>3. at \in {"delivering", "flushing"} /\ at' \in {"flushing", "returned"} /\ cut' \in BOOLEAN
  BY DEF RInv, Shaped, Delivered, Flushed, BudgetFires, InterruptDelivery, Stop
<1>4. interrupts' \in 0..Interrupts
  BY BoundsAssumption
     DEF RInv, Shaped, Delivered, Flushed, BudgetFires, InterruptDelivery, Stop
<1>5. Shaped'
  BY <1>2, <1>3, <1>4 DEF RInv, Shaped, commandVars, flagVars
<1>6. Teed' /\ Timed'
  BY <1>2, <1>3 DEF RInv, Teed, Timed, commandVars, streamVars, teeVars, flagVars
<1>7. Decided' /\ CheckedIn'
  BY <1>1, <1>2, <1>3 DEF RInv, Decided, CheckedIn, Sent, commandVars, flagVars
<1>8. Awaited'
  <2>1. CASE Delivered
    BY <1>1, <2>1, FlushedStep DEF RInv, Awaited, Delivered
  <2>2. CASE Flushed
    BY <1>1, <2>2 DEF RInv, Awaited, Flushed, clientVars
  <2>3. CASE BudgetFires \/ InterruptDelivery
    BY <2>3 DEF Awaited, BudgetFires, InterruptDelivery, Stop
  <2> QED
    BY <2>1, <2>2, <2>3
<1> QED
  BY <1>1, <1>5, <1>6, <1>7, <1>8 DEF RInv

\* Check-ins settle and the flush ends, while the run lasts and after a delivery
\* that was cut short.
LEMMA ClientStep == RInv /\ Client1 => RInv'
<1> SUFFICES ASSUME RInv, Client1 PROVE RInv'
  OBVIOUS
<1>1. Shaped' /\ Teed' /\ Timed' /\ Decided'
  BY DEF RInv, Shaped, Teed, Timed, Decided, Client1, runVars, commandVars, streamVars, teeVars, flagVars
<1>2. UNCHANGED <<spec, at, code, cut>>
  BY DEF Client1, runVars
<1>3. ASSUME NEW c \in CheckIns, SettleCheckIn(c) PROVE Core' /\ CheckedIn' /\ Awaited'
  <2>1. /\ Core'
        /\ \A b \in Actions : Sent(b)' <=> Sent(b)
        /\ inFlight' \subseteq inFlight
        /\ UNCHANGED flush
    BY <1>3, SettledStep DEF RInv
  <2> QED
    BY <1>2, <2>1, OneRun DEF RInv, CheckedIn, Awaited
<1>4. ASSUME FlushSettled(1) \/ FlushExpired(1) PROVE Core' /\ CheckedIn' /\ Awaited'
  <2>1. ~FlushCall(1)
    BY <1>4 DEF FlushCall, FlushSettled, FlushExpired
  <2>2. /\ Core' /\ UNCHANGED <<stage, inFlight>>
        /\ flush'[1].at # "idle" /\ flush'[1].pending = flush[1].pending
    BY <1>4, <2>1, FlushedStep DEF RInv
  <2>3. flush[1].at = "waiting"
    BY <1>4 DEF FlushSettled, FlushExpired
  <2>4. ~(at = "returned" /\ spec.monitor = "resolved" /\ ~cut)
    BY <2>3 DEF RInv, Awaited
  <2>5. Awaited'
    BY <1>2, <2>2, <2>4 DEF RInv, Awaited
  <2> QED
    BY <1>2, <2>2, <2>5 DEF RInv, CheckedIn, Sent
<1> QED
  BY <1>1, <1>3, <1>4 DEF RInv, Client1

-----------------------------------------------------------------------------
(* The whole run.                                                           *)

\* Every invocation begins inside the invariant.
THEOREM InitRInv == Init => RInv
<1> SUFFICES ASSUME Init PROVE RInv
  OBVIOUS
<1>1. Core
  BY InitCInv DEF Init, CInv
<1>2. Shaped
  <2>1. refuses \in BOOLEAN
    BY BoundsAssumption DEF Init
  <2>2. timer \in Timers /\ interrupts \in 0..Interrupts
    BY BoundsAssumption DEF Init, Off, Timers
  <2> QED
    BY <2>1, <2>2 DEF Init, Shaped
<1>3. Teed
  <2>1. {s \in Streams : stalled[s]} = {}
    BY DEF Init
  <2>2. stalls = Cardinality({s \in Streams : stalled[s]})
    BY <2>1, FS_EmptySet DEF Init
  <2> QED
    BY <2>2, BoundsAssumption DEF Init, Teed
<1>4. Timed /\ Decided
  BY DEF Init, Timed, Decided, Off
<1>5. CheckedIn
  BY OneRun DEF Init, ClientInit, CheckedIn, Sent
<1>6. Awaited
  BY DEF Init, Awaited
<1> QED
  BY <1>1, <1>2, <1>3, <1>4, <1>5, <1>6 DEF RInv

\* The invariant holds of every behaviour, whatever the command, the readers, the
\* network and the senders of signals do.
THEOREM RunInvariant == Spec => []RInv
<1>1. RInv /\ [Next]_vars => RInv'
  <2> SUFFICES ASSUME RInv, [Next]_vars PROVE RInv'
    OBVIOUS
  <2>1. CASE Wrapper
    BY <2>1, RefusalStep, LaunchStep, EndStep, ReadStep, StreamStep, ExitSeenStep, TimerStep, DeliveryStep
       DEF Wrapper
  <2>2. CASE World
    BY <2>2, WorldStep, StreamStep, SinkStep DEF World
  <2>3. CASE Client1
    BY <2>3, ClientStep
  <2>4. CASE UNCHANGED vars
    <3>1. UNCHANGED <<clientVars, spec, at, code, cut>> /\ UNCHANGED runVars
      BY <2>4 DEF vars, runVars
    <3>2. Shaped' /\ Teed' /\ Timed' /\ Decided'
      BY <3>1 DEF RInv, Shaped, Teed, Timed, Decided, runVars, commandVars, streamVars, teeVars, flagVars
    <3> QED
      BY <3>1, <3>2, Aside DEF RInv
  <2> QED
    BY <2>1, <2>2, <2>3, <2>4 DEF Next
<1> QED
  BY <1>1, InitRInv, PTL DEF Spec

\* The status handed back is the command's own, and the run is closed by the one
\* check-in that says so, of every invocation.
THEOREM RunsAreToldTrue == Spec => []RunIsToldTrue
<1>1. RInv => TypeOK
  <2> SUFFICES ASSUME RInv PROVE TypeOK
    OBVIOUS
  <2>1. ClientTypeOK
    BY LoudWarnings DEF RInv, Core, Typed, Spoken, ClientTypeOK
  <2> QED
    BY <2>1 DEF RInv, Shaped, Teed, TypeOK
<1>2. RInv => StatusIsHonest
  BY DEF RInv, Shaped, Decided, CheckedIn, StatusIsHonest
<1>3. RInv => CheckInsMatchStatus
  BY OneRun DEF RInv, Decided, CheckedIn, CheckInsMatchStatus
<1> QED
  BY <1>1, <1>2, <1>3, RunInvariant, PTL DEF RunIsToldTrue

\* A delivery that is not cut short leaves nothing in flight, and the drain is not
\* run down while a reader is behind.
THEOREM NothingIsEverRushed == Spec => []NothingIsRushed
<1>1. RInv => NothingLeftBehind
  <2> SUFFICES ASSUME RInv, at = "returned", spec.monitor = "resolved", ~cut, flush[1].at # "expired",
                      NEW c \in CheckIns, stage[c] = "inFlight"
               PROVE  FALSE
    BY DEF NothingLeftBehind
  <2>1. flush[1].at = "flushed" /\ c \in flush[1].pending
    BY DEF RInv, Core, Typed, Awaited
  <2> QED
    BY <2>1, OneRun DEF RInv, Core, Covered
<1>2. RInv => DrainWaitsForTheReader
  BY DEF RInv, Timed, DrainWaitsForTheReader
<1> QED
  BY <1>1, <1>2, RunInvariant, PTL DEF NothingIsRushed

\* A command the wrapper has seen exit is neither timed out nor killed by it.
THEOREM GoneCommandsStayAlone == Spec => GoneCommandsAreLeftAlone
<1>1. RInv /\ [Next]_vars => [exited => UNCHANGED <<timedOut, escalated, killed>>]_vars
  <2> SUFFICES ASSUME RInv, exited, Next PROVE UNCHANGED <<timedOut, escalated, killed>>
    OBVIOUS
  <2>1. ~DeadlineFires /\ ~EscalationFires
    BY DEF RInv, Timed, DeadlineFires, EscalationFires
  <2>2. CASE Wrapper
    BY <2>1, <2>2 DEF Wrapper, RefuseUsage, Launch, SpawnFailed, Read, StreamEnds, ExitSeen, CloseSeen,
       DrainFires, Interrupt, SignalRefused, Delivered, Flushed, BudgetFires, InterruptDelivery, Stop,
       flagVars, commandVars
  <2>3. CASE World
    BY <2>3 DEF World, CommandEnds, Background, Write, SinkMoves, flagVars, commandVars
  <2>4. CASE Client1
    BY <2>4 DEF Client1, runVars, flagVars, commandVars
  <2> QED
    BY <2>2, <2>3, <2>4 DEF Next
<1> QED
  BY <1>1, RunInvariant, PTL DEF Spec, GoneCommandsAreLeftAlone

-----------------------------------------------------------------------------
(* The end of the process: a run followed by an exit, so that what is proved *)
(* of the one holds up to the end of the other.                              *)

\* Until it is gone, a process that owes a write holds its loop.
HoldsForWrites ==
  /\ process \in {"busy", "finishing", "gone"}
  /\ process = "busy" => ~owed
  /\ process = "finishing" /\ owed => hold
  /\ NothingGoesWithTheProcess

\* A step of the exit is no step of the run, but for a check-in that was given up
\* on: every exit is the exit of a run.
THEOREM ExitsAreRuns == ExitSpec => Spec
<1>1. ExitInit => Init
  BY DEF ExitInit
<1>2. [ExitNext]_allVars => [Next]_vars
  BY DEF ExitNext, Next, allVars
<1> QED
  BY <1>1, <1>2, PTL DEF ExitSpec, Spec

LEMMA WritesHoldTheProcess == ExitSpec => []HoldsForWrites
<1>1. ExitInit => HoldsForWrites
  BY DEF ExitInit, HoldsForWrites, NothingGoesWithTheProcess
<1>2. HoldsForWrites /\ [ExitNext]_allVars => HoldsForWrites'
  <2> SUFFICES ASSUME HoldsForWrites, [ExitNext]_allVars PROVE HoldsForWrites'
    OBVIOUS
  <2> USE DEF HoldsForWrites, NothingGoesWithTheProcess
  <2>1. CASE UNCHANGED exitVars
    BY <2>1 DEF exitVars
  <2>2. CASE Finish
    BY <2>2 DEF Finish
  <2>3. CASE Taken
    BY <2>3 DEF Taken
  <2>4. CASE HoldFires
    BY <2>4 DEF HoldFires, Buffered
  <2>5. CASE LoopEmpties
    BY <2>5 DEF LoopEmpties, Gone
  <2>6. CASE LingerFires
    BY <2>6 DEF LingerFires, Gone, Buffered
  <2>7. CASE AbandonedSettles
    BY <2>7 DEF AbandonedSettles
  <2> QED
    BY <2>1, <2>2, <2>3, <2>4, <2>5, <2>6, <2>7 DEF ExitNext, ExitStep, allVars
<1> QED
  BY <1>1, <1>2, PTL DEF ExitSpec

\* No check-in is left in flight and no line of output goes with the process,
\* whatever holds its loop, however late a reader is.
THEOREM NothingIsEverCutShort == ExitSpec => []NothingIsCutShort
<1>1. HoldsForWrites => NothingGoesWithTheProcess
  BY DEF HoldsForWrites
<1> QED
  BY <1>1, ExitsAreRuns, NothingIsEverRushed, WritesHoldTheProcess, PTL DEF NothingIsCutShort

=============================================================================
