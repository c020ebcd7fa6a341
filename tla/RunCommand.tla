---------------------------- MODULE RunCommand ----------------------------
(***************************************************************************)
(* cronheart run (cli/run.ts): spawn a command, report its start, tee what *)
(* it prints, bound it by a deadline, forward the signals the wrapper is   *)
(* sent, and hand back its status after one terminal check-in.             *)
(*                                                                         *)
(* Composed with PingClient (run 1, and the one flush at the end) and with *)
(* the world the wrapper lives in, which is external: the command and what *)
(* it leaves running in the background, the pipes both may hold, and the   *)
(* reader of the wrapper's own output.                                     *)
(***************************************************************************)
EXTENDS PingClient

CONSTANTS
  Specs,       \* the invocations: what planRun makes of the arguments
  Streams,     \* the piped streams of the command
  Writes,      \* writes to a stream, unless it is written to without end
  Endless,     \* streams that are written to without end
  Interrupts,  \* signals the wrapper may be sent
  MayRefuse    \* whether the command may run as a user it cannot signal

ASSUME RunAssumption    == Runs = {1} /\ Flushers = {1}
ASSUME StreamsAssumption == IsFiniteSet(Streams)
ASSUME SpecsAssumption  ==
  Specs \subseteq [monitor : {"usage", "refused", "resolved"}, timeout : BOOLEAN,
                   killAfter : BOOLEAN, excerpt : BOOLEAN, ownGroup : BOOLEAN]
ASSUME BoundsAssumption ==
  Writes \in Nat /\ Interrupts \in Nat /\ Endless \subseteq Streams /\ MayRefuse \subseteq BOOLEAN

VARIABLES
  spec,        \* the RunSpec
  at,          \* "planning", "executing", "delivering", "flushing", "returned"
  cmd,         \* "absent", "running" or "dead"
  status,      \* what the command ended with: "ok", "bad", "signal"
  killed,      \* whether SIGKILL reached it
  background,  \* whether something it started is alive, holding its pipes
  refuses,     \* whether the command refuses the wrapper's signals
  pipe,        \* per stream: chunks written and not yet read
  written,     \* per stream: writes made, to bound them
  eof,         \* per stream: whether its end was read
  sink,        \* the caller's stream each is passed to: "ready", "full", "closed"
  stalled,     \* per stream: tee's own flag
  stalls,      \* execute's count of them
  exited, timedOut, forwarded, escalated,
  timer,       \* "off", "armed" or "fired": deadline, escalation and drain
  interrupts,  \* signals the wrapper was sent
  code,        \* the status handed back
  cut          \* whether the delivery was cut short

commandVars == <<cmd, status, killed, background, refuses>>
streamVars  == <<pipe, written, eof, sink>>
teeVars     == <<stalled, stalls>>
flagVars    == <<exited, timedOut, forwarded, escalated>>
runVars     == <<spec, at, commandVars, streamVars, teeVars, flagVars, timer, interrupts, code, cut>>
vars        == <<clientVars, runVars>>

-----------------------------------------------------------------------------
Off == [deadline |-> "off", escalation |-> "off", drain |-> "off"]

Init ==
  /\ ClientInit
  /\ spec \in Specs
  /\ at = "planning"
  /\ cmd = "absent" /\ status = "none" /\ killed = FALSE
  /\ background = FALSE
  /\ refuses \in MayRefuse
  /\ pipe = [s \in Streams |-> 0]
  /\ written = [s \in Streams |-> 0]
  /\ eof = [s \in Streams |-> FALSE]
  /\ sink = [s \in Streams |-> "ready"]
  /\ stalled = [s \in Streams |-> FALSE]
  /\ stalls = 0
  /\ exited = FALSE /\ timedOut = FALSE /\ forwarded = FALSE /\ escalated = FALSE
  /\ timer = Off
  /\ interrupts = 0
  /\ code = "none"
  /\ cut = FALSE

\* exitCodeFor, of a command that was started.
ExitCode == IF timedOut THEN "timeout" ELSE status

\* Mutant: the check-in says what the command's own status was.
ClosedByCommand(result) == IF status = "ok" THEN "success" ELSE "fail"

TerminalFor(result) == IF result = "ok" THEN "success" ELSE "fail"

\* The promise of execute resolves with a status: nothing is armed any more, and
\* a monitored run dispatches its terminal check-in.
Executed(result) ==
  /\ code' = result
  /\ timer' = Off
  /\ IF spec.monitor = "resolved"
       THEN /\ at' = "delivering"
            /\ Call(1, TerminalFor(result))
       ELSE /\ at' = "returned"
            /\ UNCHANGED clientVars

-----------------------------------------------------------------------------
(* runCommand, up to the spawn.                                             *)

\* An invocation that cannot be read runs nothing.
RefuseUsage ==
  /\ at = "planning"
  /\ spec.monitor = "usage"
  /\ at' = "returned"
  /\ code' = "usage"
  /\ UNCHANGED <<clientVars, spec, commandVars, streamVars, teeVars, flagVars, timer, interrupts, cut>>

\* The start check-in is dispatched, never awaited, and the command spawned.  A
\* spawn may fail, which is said by an event.
Launch ==
  /\ at = "planning"
  /\ spec.monitor # "usage"
  /\ IF spec.monitor = "resolved" THEN Call(1, "start") ELSE UNCHANGED clientVars
  /\ at' = "executing"
  /\ cmd' \in {"running", "absent"}
  /\ timer' = [timer EXCEPT !.deadline = IF spec.timeout THEN "armed" ELSE "off"]
  /\ UNCHANGED <<spec, status, killed, background, refuses, streamVars, teeVars, flagVars,
                 interrupts, code, cut>>

\* The child's 'error' event, of a spawn that failed.
SpawnFailed ==
  /\ at = "executing"
  /\ cmd = "absent"
  /\ Executed("notStarted")
  /\ UNCHANGED <<spec, commandVars, streamVars, teeVars, flagVars, interrupts, cut>>

-----------------------------------------------------------------------------
(* The world.                                                               *)

\* The command ends, of itself, of a signal of the wrapper's or of another's.
CommandEnds ==
  /\ cmd = "running"
  /\ cmd' = "dead"
  /\ status' \in {"ok", "bad", "signal"}
  /\ UNCHANGED <<clientVars, spec, at, killed, background, refuses, streamVars, teeVars, flagVars,
                 timer, interrupts, code, cut>>

\* It leaves something running, which may end at any time; followed for as long
\* as the wrapper executes.
Background ==
  /\ at = "executing"
  /\ \/ cmd = "running" /\ ~background
     \/ background
  /\ background' = ~background
  /\ UNCHANGED <<clientVars, spec, at, cmd, status, killed, refuses, streamVars, teeVars, flagVars,
                 timer, interrupts, code, cut>>

Write(s) ==
  /\ at = "executing"
  /\ spec.excerpt
  /\ cmd = "running" \/ background
  /\ pipe[s] = 0
  /\ s \in Endless \/ written[s] < Writes
  /\ pipe' = [pipe EXCEPT ![s] = 1]
  /\ written' = [written EXCEPT ![s] = IF s \in Endless THEN @ ELSE @ + 1]
  /\ UNCHANGED <<clientVars, spec, at, commandVars, eof, sink, teeVars, flagVars, timer,
                 interrupts, code, cut>>

-----------------------------------------------------------------------------
(* execute: the tee and the drain.                                          *)

\* armDrain: the budget of a pipe nobody writes to any more.
ArmDrain(t, held, gone) ==
  IF gone /\ held = 0 /\ t.drain = "off" THEN [t EXCEPT !.drain = "armed"] ELSE t

\* A chunk is kept for the excerpt and passed on.  A reader that is behind
\* pauses the stream, and the drain with it; one that is gone is skipped.
Read(s) ==
  /\ at = "executing"
  /\ pipe[s] = 1
  /\ ~stalled[s]
  /\ pipe' = [pipe EXCEPT ![s] = 0]
  /\ \/ UNCHANGED <<sink, teeVars, timer>>
     \/ /\ sink[s] = "ready"
        /\ sink' = [sink EXCEPT ![s] = "full"]
        /\ stalled' = [stalled EXCEPT ![s] = TRUE]
        /\ stalls' = stalls + 1
        /\ timer' = [timer EXCEPT !.drain = "off"]
  /\ UNCHANGED <<clientVars, spec, at, commandVars, written, eof, flagVars, interrupts, code, cut>>

\* Mutant: the stream flows again, and the drain is left disarmed.
ResumeOnly(s) ==
  /\ stalled' = [stalled EXCEPT ![s] = FALSE]
  /\ stalls' = stalls - 1
  /\ UNCHANGED timer

\* resumeTee.
Resume(s) ==
  /\ stalled' = [stalled EXCEPT ![s] = FALSE]
  /\ stalls' = stalls - 1
  /\ timer' = ArmDrain(timer, stalls', exited)

\* The reader catches up, or goes away: either is the end of a stall.
SinkMoves(s) ==
  /\ at = "executing"
  /\ spec.excerpt
  /\ \/ sink[s] = "full" /\ sink' = [sink EXCEPT ![s] = "ready"]
     \/ sink[s] # "closed" /\ sink' = [sink EXCEPT ![s] = "closed"]
  /\ IF stalled[s] THEN Resume(s) ELSE UNCHANGED <<teeVars, timer>>
  /\ UNCHANGED <<clientVars, spec, at, commandVars, pipe, written, eof, flagVars, interrupts, code, cut>>

StreamEnds(s) ==
  /\ at = "executing"
  /\ spec.excerpt /\ ~eof[s]
  /\ cmd = "dead" /\ ~background
  /\ pipe[s] = 0 /\ ~stalled[s]
  /\ eof' = [eof EXCEPT ![s] = TRUE]
  /\ UNCHANGED <<clientVars, spec, at, commandVars, pipe, written, sink, teeVars, flagVars, timer,
                 interrupts, code, cut>>

-----------------------------------------------------------------------------
(* execute: the end of the command.                                         *)

\* Mutant: the timers are left running when the command is gone.
TimersKept(t) == t

TimersAtExit(t) == [t EXCEPT !.deadline = "off",
                             !.escalation = IF @ = "armed" THEN "off" ELSE @]

\* The 'exit' event.
ExitSeen ==
  /\ at = "executing"
  /\ cmd = "dead" /\ ~exited
  /\ exited' = TRUE
  /\ timer' = ArmDrain(TimersAtExit(timer), stalls, TRUE)
  /\ UNCHANGED <<clientVars, spec, at, commandVars, streamVars, teeVars, timedOut, forwarded,
                 escalated, interrupts, code, cut>>

\* The 'close' event: the command is gone and every pipe was read to its end.
CloseSeen ==
  /\ at = "executing"
  /\ exited
  /\ spec.excerpt => \A s \in Streams : eof[s]
  /\ Executed(ExitCode)
  /\ UNCHANGED <<spec, commandVars, streamVars, teeVars, flagVars, interrupts, cut>>

\* The drain's budget is over, and whoever still holds the pipes is let go.
DrainFires ==
  /\ at = "executing"
  /\ timer.drain = "armed"
  /\ Executed(ExitCode)
  /\ UNCHANGED <<spec, commandVars, streamVars, teeVars, flagVars, interrupts, cut>>

-----------------------------------------------------------------------------
(* execute: deadline, signals and escalation.                               *)

\* escalate(): once, and not on a command that is gone.
Escalates(t) ==
  IF exited \/ ~spec.killAfter \/ t.escalation # "off" THEN t ELSE [t EXCEPT !.escalation = "armed"]

\* The deadline passes: the command's group is told to end, or the command.
DeadlineFires ==
  /\ at = "executing"
  /\ timer.deadline = "armed"
  /\ timedOut' = TRUE
  /\ timer' = Escalates([timer EXCEPT !.deadline = "fired"])
  /\ ~(cmd = "running" /\ refuses)
  /\ UNCHANGED <<clientVars, spec, at, commandVars, streamVars, teeVars, exited, forwarded,
                 escalated, interrupts, code, cut>>

\* A signal for the wrapper while the command has not settled.  It is forwarded
\* where a terminal has not delivered it to the command already.
Interrupt ==
  /\ at = "executing"
  /\ interrupts < Interrupts
  /\ interrupts' = interrupts + 1
  /\ forwarded' = (forwarded \/ spec.ownGroup)
  /\ timer' = Escalates(timer)
  /\ ~(spec.ownGroup /\ cmd = "running" /\ refuses)
  /\ UNCHANGED <<clientVars, spec, at, commandVars, streamVars, teeVars, exited, timedOut,
                 escalated, code, cut>>

\* SIGKILL: it ends the command, and a group of its own with it.
EscalationFires ==
  /\ at = "executing"
  /\ timer.escalation = "armed"
  /\ timer' = [timer EXCEPT !.escalation = "fired"]
  /\ escalated' = TRUE
  /\ ~(cmd = "running" /\ refuses)
  /\ killed' = (killed \/ cmd = "running")
  /\ background' = (background /\ ~spec.ownGroup)
  /\ UNCHANGED <<clientVars, spec, at, cmd, status, refuses, streamVars, teeVars, exited, timedOut,
                 forwarded, interrupts, code, cut>>

\* Any of the three, when the command refuses the signal: Node says so with the
\* same 'error' event as for a spawn that failed.  The escalation armed after
\* that is left out: the run has settled, and its refusal changes nothing.
SignalRefused ==
  /\ at = "executing"
  /\ cmd = "running" /\ refuses
  /\ \/ /\ "armed" \in {timer.deadline, timer.escalation}
        /\ UNCHANGED interrupts
     \/ /\ spec.ownGroup
        /\ interrupts < Interrupts
        /\ interrupts' = interrupts + 1
  /\ Executed("notStarted")
  /\ UNCHANGED <<spec, commandVars, streamVars, teeVars, flagVars, cut>>

-----------------------------------------------------------------------------
(* runCommand, after the command: one budget for the delivery and a flush.  *)

Delivered ==
  /\ at = "delivering"
  /\ \A a \in Terminals : stage[<<1, a>>] # "inFlight"
  /\ at' = "flushing"
  /\ FlushCall(1)
  /\ UNCHANGED <<spec, commandVars, streamVars, teeVars, flagVars, timer, interrupts, code, cut>>

Flushed ==
  /\ at = "flushing"
  /\ flush[1].at \in {"flushed", "expired"}
  /\ at' = "returned"
  /\ UNCHANGED <<clientVars, spec, commandVars, streamVars, teeVars, flagVars, timer, interrupts, code, cut>>

Stop ==
  /\ at \in {"delivering", "flushing"}
  /\ at' = "returned"
  /\ cut' = TRUE
  /\ UNCHANGED <<clientVars, spec, commandVars, streamVars, teeVars, flagVars, timer, code>>

BudgetFires == Stop /\ UNCHANGED interrupts

InterruptDelivery ==
  /\ interrupts < Interrupts
  /\ interrupts' = interrupts + 1
  /\ Stop

\* A delivery that was cut short leaves the client what is still in flight.
Client1 ==
  /\ \/ \E c \in CheckIns : SettleCheckIn(c)
     \/ FlushSettled(1) \/ FlushExpired(1)
  /\ UNCHANGED runVars

World == CommandEnds \/ Background \/ \E s \in Streams : Write(s) \/ SinkMoves(s)

Wrapper ==
  \/ RefuseUsage \/ Launch \/ SpawnFailed
  \/ \E s \in Streams : Read(s) \/ StreamEnds(s)
  \/ ExitSeen \/ CloseSeen \/ DrainFires
  \/ DeadlineFires \/ Interrupt \/ EscalationFires \/ SignalRefused
  \/ Delivered \/ Flushed \/ BudgetFires \/ InterruptDelivery

Next == Wrapper \/ World \/ Client1

Spec == Init /\ [][Next]_vars

\* Events are delivered and timers fire; SIGKILL ends a command; a reader that
\* is behind reads on or goes away.  Nothing is assumed of the network, of the
\* command, of what it leaves behind or of who sends signals.
Fairness ==
  /\ WF_vars(Launch) /\ WF_vars(SpawnFailed) /\ WF_vars(RefuseUsage)
  /\ WF_vars(ExitSeen) /\ WF_vars(CloseSeen) /\ WF_vars(DrainFires)
  /\ WF_vars(DeadlineFires) /\ WF_vars(EscalationFires)
  /\ WF_vars(SignalRefused /\ UNCHANGED interrupts)
  /\ WF_vars(Delivered) /\ WF_vars(Flushed) /\ WF_vars(BudgetFires)
  /\ WF_vars(killed /\ CommandEnds)
  /\ \A s \in Streams : /\ WF_vars(Read(s)) /\ WF_vars(StreamEnds(s))
                        /\ WF_vars(sink[s] = "full" /\ SinkMoves(s))

-----------------------------------------------------------------------------
Timers == [deadline : {"off", "armed", "fired"}, escalation : {"off", "armed", "fired"},
           drain : {"off", "armed", "fired"}]
Codes == {"ok", "bad", "signal", "timeout", "notStarted", "usage"}

TypeOK ==
  /\ ClientTypeOK
  /\ spec \in Specs
  /\ at \in {"planning", "executing", "delivering", "flushing", "returned"}
  /\ cmd \in {"absent", "running", "dead"}
  /\ status \in {"none", "ok", "bad", "signal"}
  /\ {killed, background, refuses, exited, timedOut, forwarded, escalated, cut} \subseteq BOOLEAN
  /\ \A s \in Streams : /\ pipe[s] \in 0..1 /\ written[s] \in 0..Writes
                        /\ eof[s] \in BOOLEAN /\ stalled[s] \in BOOLEAN
                        /\ sink[s] \in {"ready", "full", "closed"}
  /\ stalls = Cardinality({s \in Streams : stalled[s]})
  /\ timer \in Timers
  /\ interrupts \in 0..Interrupts
  /\ code \in Codes \cup {"none"}

Sent(a) == stage[<<1, a>>] # "unsent"

\* The status handed back is the command's own, seen after it ended, whatever
\* became of the check-ins, the readers and the signals; a command that was given
\* a deadline and outlived it is the one exception.
StatusIsHonest ==
  /\ code \in {"ok", "bad", "signal"} => cmd = "dead" /\ status = code /\ ~timedOut
  /\ code = "timeout" => spec.timeout /\ timedOut /\ cmd = "dead"
  /\ code = "notStarted" => refuses \/ cmd = "absent"
  /\ code = "usage" => cmd = "absent" /\ \A a \in Actions : ~Sent(a)

\* A monitored run is closed by one check-in, which says success exactly when
\* the status handed back does, after a start for each command that was tried;
\* a run whose monitor cannot be used checks in for nothing and still runs.
CheckInsMatchStatus ==
  /\ at = "returned" /\ spec.monitor = "resolved"
       => /\ Sent("start")
          /\ Sent("success") <=> code = "ok"
          /\ Sent("fail") <=> code # "ok"
  /\ spec.monitor = "refused" => \A a \in Actions : ~Sent(a)

\* What the wrapper hands back and what it reports are one account of the run.
RunIsToldTrue == TypeOK /\ StatusIsHonest /\ CheckInsMatchStatus

\* A delivery that no signal and no budget cut short leaves no check-in in
\* flight, the start included.
NothingLeftBehind ==
  at = "returned" /\ spec.monitor = "resolved" /\ ~cut /\ flush[1].at # "expired"
    => \A c \in CheckIns : stage[c] # "inFlight"

\* The drain's budget runs only while the wrapper reads every pipe: the time a
\* slow reader takes is never taken from it.
DrainWaitsForTheReader == timer.drain = "armed" => exited /\ stalls = 0

\* Neither a check-in nor a line of the command's output is given up on for the
\* sake of a budget that was not theirs.
NothingIsRushed == NothingLeftBehind /\ DrainWaitsForTheReader

\* Once the wrapper has seen the command exit it neither times it out nor kills
\* it: "a command that has already exited can no longer time out, whatever is
\* still holding its output streams open".
GoneCommandsAreLeftAlone == [][exited => UNCHANGED <<timedOut, escalated, killed>>]_vars

=============================================================================
