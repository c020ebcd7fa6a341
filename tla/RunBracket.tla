---------------------------- MODULE RunBracket ----------------------------
(***************************************************************************)
(* The bracket the scheduler adapters share (integrations/run.ts):         *)
(* bracketFor counts the executions of one job that are open, starts one   *)
(* run for the first and ends it when the last has settled; bracketed      *)
(* wraps an execution in it.  croner, cron, node-schedule and NestJS wrap  *)
(* the callback, node-cron calls begin and settle from its events.         *)
(*                                                                         *)
(* Composed with PingClient, whose runs the bracket starts and ends.       *)
(* Adapters composes both with the ways an adapter hears of executions.    *)
(***************************************************************************)
EXTENDS PingClient, Sequences

CONSTANTS
  Fires,    \* executions of the job, numbered in the order they begin
  NoFire

ASSUME RunsAssumption == Runs \subseteq Nat \ {0} /\ Runs # {}
ASSUME FiresAssumption == Fires \subseteq Nat /\ IsFiniteSet(Fires) /\ NoFire \notin Fires

VARIABLES
  fire,     \* [Fires -> {"idle", "running", "settling", "done"}]
  open,     \* bracketFor's count of open executions
  run,      \* the run in progress, 0 for undefined
  failed,   \* whether an execution of it has thrown
  failure,  \* the one whose error will be reported
  awaits,   \* [Fires -> the run whose terminal its settle awaits, 0 for none]
  runs,     \* history: runs started so far, numbered from 1
  spanOf,   \* history: the run an execution was counted into
  threw,    \* history: executions that threw, in that order
  cause     \* history: the execution whose error each run reported

bracketVars == <<fire, open, run, failed, failure, awaits, runs, spanOf, threw, cause>>
vars == <<clientVars, bracketVars>>

-----------------------------------------------------------------------------
Init ==
  /\ ClientInit
  /\ fire = [j \in Fires |-> "idle"]
  /\ open = 0
  /\ run = 0
  /\ failed = FALSE
  /\ failure = NoFire
  /\ awaits = [j \in Fires |-> 0]
  /\ runs = 0
  /\ spanOf = [j \in Fires |-> 0]
  /\ threw = <<>>
  /\ cause = [r \in Runs |-> NoFire]

TheMonitor == CHOOSE m \in Monitors : TRUE

\* Mutant: every execution starts a run of its own.
BeginEvery(j) ==
  /\ runs + 1 \in Runs
  /\ runs' = runs + 1
  /\ run' = runs'
  /\ StartRun(runs')
  /\ failed' = FALSE
  /\ failure' = NoFire

\* begin(), for the first execution of a bracket: a run is started, unless the
\* client the host passed throws from startRun.
BeginFirst(j) ==
  /\ open = 0
  /\ \/ \* the client starts a run
        /\ runs + 1 \in Runs
        /\ runs' = runs + 1
        /\ run' = runs'
        /\ StartRun(runs')
     \/ \* the client throws, and the execution goes unreported
        /\ run' = 0
        /\ UNCHANGED <<runs, clientVars>>
  /\ failed' = FALSE
  /\ failure' = NoFire

\* begin(), while another execution is open: counted into the same run, and the
\* overlap said once.
BeginOverlapping(j) ==
  /\ open > 0
  /\ WarnOnce("adapter-overlap", TheMonitor)
  /\ UNCHANGED <<run, runs, failed, failure,
                 stage, inFlight, terminal, flush, before, reported>>

\* The scheduler starts an execution, whatever of the earlier ones goes on.
Due(j) == fire[j] = "idle" /\ \A i \in Fires : i < j => fire[i] # "idle"

Begin(j) ==
  /\ Due(j)
  /\ BeginFirst(j) \/ BeginOverlapping(j)
  /\ open' = open + 1
  /\ fire' = [fire EXCEPT ![j] = "running"]
  /\ spanOf' = [spanOf EXCEPT ![j] = run']
  /\ UNCHANGED <<awaits, threw, cause>>

\* Mutant: whatever the last execution did is what the run did.
LastOneDecides(threwNow) == threwNow

Failed(threwNow) == failed \/ threwNow

FirstFailure(j, threwNow) == IF threwNow /\ ~failed THEN j ELSE failure

\* Mutant: an execution that settles is not taken off the count.
NeverClosed == open

\* An execution that settles without having begun is not counted below zero.
OpenAfter == IF open > 0 THEN open - 1 ELSE 0

\* settle(), while others are still open: the failure is kept for the last one.
SettleInside(j, threwNow) ==
  /\ OpenAfter > 0
  /\ failed' = Failed(threwNow)
  /\ failure' = FirstFailure(j, threwNow)
  /\ fire' = [fire EXCEPT ![j] = "done"]
  /\ UNCHANGED <<run, awaits, cause, clientVars>>

\* settle(), for the last: the run is taken out of the bracket, its one terminal
\* check-in dispatched, and the execution waits for that to settle.
SettleLast(j, threwNow) ==
  /\ OpenAfter = 0
  /\ run' = 0
  /\ IF run = 0
       THEN /\ failed' = Failed(threwNow)
            /\ failure' = FirstFailure(j, threwNow)
            /\ fire' = [fire EXCEPT ![j] = "done"]
            /\ UNCHANGED <<awaits, cause, clientVars>>
       ELSE /\ SendTerminal(run, IF Failed(threwNow) THEN "fail" ELSE "success")
            /\ awaits' = [awaits EXCEPT ![j] = run]
            /\ cause' = [cause EXCEPT ![run] = FirstFailure(j, threwNow)]
            /\ failed' = FALSE
            /\ failure' = NoFire
            /\ fire' = [fire EXCEPT ![j] = "settling"]

Settle(j, threwNow) ==
  /\ fire[j] = "running"
  /\ SettleInside(j, threwNow) \/ SettleLast(j, threwNow)
  /\ open' = OpenAfter
  /\ threw' = IF threwNow THEN Append(threw, j) ELSE threw
  /\ UNCHANGED <<runs, spanOf>>

\* Mutant: the terminal check-in is sent and not waited for.
Forgotten(j) == TRUE

Delivered(j) == \A a \in Terminals : stage[<<awaits[j], a>>] # "inFlight"

\* The execution returns to the scheduler once its terminal check-in settled.
Return(j) ==
  /\ fire[j] = "settling"
  /\ Delivered(j)
  /\ fire' = [fire EXCEPT ![j] = "done"]
  /\ UNCHANGED <<clientVars, open, run, failed, failure, awaits, runs, spanOf, threw, cause>>

Network == \E c \in CheckIns : SettleCheckIn(c) /\ UNCHANGED bracketVars

-----------------------------------------------------------------------------
Members(r) == {j \in Fires : spanOf[j] = r}
Threw(j)   == \E i \in 1..Len(threw) : threw[i] = j

TypeOK ==
  /\ ClientTypeOK
  /\ fire \in [Fires -> {"idle", "running", "settling", "done"}]
  /\ open \in 0..Cardinality(Fires)
  /\ run \in Runs \cup {0}
  /\ failed \in BOOLEAN
  /\ failure \in Fires \cup {NoFire}
  /\ awaits \in [Fires -> Runs \cup {0}]
  /\ runs \in Runs \cup {0}
  /\ spanOf \in [Fires -> Runs \cup {0}]
  /\ threw \in Seq(Fires)
  /\ cause \in [Runs -> Fires \cup {NoFire}]

\* Overlapping executions are reported as one run, failed if any of them
\* failed, and never before every one of them has ended (src/README.md,
\* "Overlap").
RunTellsTheTruth ==
  \A r \in Runs : terminal[r] # "none" =>
    /\ \A j \in Members(r) : fire[j] \in {"settling", "done"}
    /\ terminal[r] = "fail" <=> \E j \in Members(r) : Threw(j)

\* The error a failed run reports is that of the first execution to throw.
FirstErrorIsReported ==
  \A r \in Runs : terminal[r] = "fail" =>
    \E i \in 1..Len(threw) :
      /\ cause[r] = threw[i]
      /\ spanOf[threw[i]] = r
      /\ \A k \in 1..(i - 1) : spanOf[threw[k]] # r

\* Check-ins are dispatched bracket by bracket: a run is started only when the
\* one before has been ended, whatever overlaps.
OneBracketDispatched ==
  \A r \in Runs : terminal[r] = "none" /\ stage[<<r, "start">>] # "unsent" => r = runs /\ run = r

\* When the last execution of a run has returned to its scheduler, the run's
\* terminal check-in has settled: a process that exits then cannot outrun it
\* (src/README.md, "Flushing").
ReturnedMeansReported ==
  \A r \in Runs : Members(r) # {} /\ (\A j \in Members(r) : fire[j] = "done")
    => \E a \in Terminals : stage[<<r, a>>] = "settled"

=============================================================================
