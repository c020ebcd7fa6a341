------------------------------ MODULE BullMq ------------------------------
(***************************************************************************)
(* The BullMQ adapter (integrations/bullmq.ts): the processor a worker is  *)
(* given, wrapped so that each attempt at a mapped job on a schedule is    *)
(* reported as a run of its own (reportRun of integrations/run.ts), a      *)
(* failure only when the attempt is the job's last.                        *)
(*                                                                         *)
(* The queue is external.  It hands a waiting job to an idle worker, which *)
(* counts an attempt as started; a job whose processor throws is retried   *)
(* until as many attempts have been made, which is to say have failed, as  *)
(* it was given; and a job whose worker stopped renewing its claim is      *)
(* handed out again, a few times, with no attempt made.                    *)
(***************************************************************************)
EXTENDS PingClient

CONSTANTS
  Jobs,       \* the jobs on the queue, of one mapped name
  Repeating,  \* those a job scheduler added
  Wirings,    \* the options a worker may be made with
  Attempts,   \* opts.attempts
  Stalls,     \* how often the queue hands a stalled job out again
  Workers,    \* the processors that may run at once
  NoJob

ASSUME NumbersAssumption == Attempts \in Nat \ {0} /\ Stalls \in Nat
ASSUME RunsAssumption    == Runs \subseteq Nat \ {0} /\ Runs # {}
ASSUME JobsAssumption    == Repeating \subseteq Jobs /\ NoJob \notin Jobs
ASSUME WorkersAssumption == IsFiniteSet(Workers)
ASSUME WiringsAssumption ==
  Wirings \subseteq [processors : SUBSET Workers, pingStart : {"on", "off", "unset"},
                    allowOneOff : BOOLEAN]

VARIABLES
  wired,     \* the wiring: concurrency, the caller's pingStart and allowOneOff
  queue,     \* [Jobs -> {"waiting", "active", "completed", "failed", "abandoned"}]
  started,   \* the queue's attemptsStarted of each job
  made,      \* the queue's attemptsMade of each job
  stalled,   \* how often a job was taken back from a worker
  worker,    \* per worker: what its processor is doing
  runs,      \* reports made so far, numbered from 1
  jobOf      \* history: the job each report is about

queueVars == <<queue, started, made, stalled>>
bullVars  == <<wired, queueVars, worker, runs, jobOf>>
vars      == <<clientVars, bullVars>>

-----------------------------------------------------------------------------
TheMonitor == CHOOSE m \in Monitors : TRUE

Idle == [job |-> NoJob, at |-> "idle", claim |-> FALSE, report |-> 0,
         begun |-> FALSE, threw |-> FALSE, started |-> 0, made |-> 0]

Init ==
  /\ ClientInit
  /\ wired \in Wirings
  /\ queue = [j \in Jobs |-> "waiting"]
  /\ started = [j \in Jobs |-> 0]
  /\ made = [j \in Jobs |-> 0]
  /\ stalled = [j \in Jobs |-> 0]
  /\ worker = [w \in Workers |-> Idle]
  /\ runs = 0
  /\ jobOf = [r \in Runs |-> NoJob]

\* Mutant: the start check-in is sent unless the caller said no.
AlwaysStarts == wired.pingStart # "off"

\* A worker whose jobs run in parallel would interleave their starts.
WithStart ==
  \/ wired.pingStart = "on"
  \/ wired.pingStart = "unset" /\ Cardinality(wired.processors) <= 1

IsMonitored(j) == wired.allowOneOff \/ j \in Repeating

\* Mutant: every failure is reported.
EveryFailure(w) == worker[w].started > 0

\* isFinalAttempt, over the job as the worker was handed it.
IsFinalAttempt(w) ==
  LET spent == IF worker[w].started > 0 THEN worker[w].started ELSE worker[w].made + 1
  IN  spent >= Attempts

\* The queue hands a job over, and reportRun begins: with a start check-in or
\* without, and without one too when the client throws from startRun.
Take(w, j) ==
  /\ w \in wired.processors
  /\ worker[w].at = "idle"
  /\ queue[j] = "waiting"
  /\ queue' = [queue EXCEPT ![j] = "active"]
  /\ started' = [started EXCEPT ![j] = @ + 1]
  /\ LET taken(r, begun) ==
           [job |-> j, at |-> "running", claim |-> TRUE, report |-> r, begun |-> begun,
            threw |-> FALSE, started |-> started'[j], made |-> made[j]]
     IN \/ /\ IsMonitored(j)
           /\ runs + 1 \in Runs
           /\ runs' = runs + 1
           /\ jobOf' = [jobOf EXCEPT ![runs'] = j]
           /\ \/ /\ WithStart
                 /\ StartRun(runs')
                 /\ worker' = [worker EXCEPT ![w] = taken(runs', TRUE)]
              \/ /\ worker' = [worker EXCEPT ![w] = taken(runs', FALSE)]
                 /\ UNCHANGED clientVars
        \/ /\ ~IsMonitored(j)
           /\ WarnOnce("bullmq-one-off", TheMonitor)
           /\ worker' = [worker EXCEPT ![w] = taken(0, FALSE)]
           /\ UNCHANGED <<runs, jobOf, stage, inFlight, terminal, flush, before, reported>>
  /\ UNCHANGED <<wired, made, stalled>>

\* The processor returns or throws.  A failure the queue is taken to retry is
\* not reported, nor is an attempt at a job that is none of the schedule's.
Finish(w, threw) ==
  /\ worker[w].at = "running"
  /\ IF worker[w].report = 0 \/ (threw /\ ~IsFinalAttempt(w))
       THEN /\ worker' = [worker EXCEPT ![w].at = "returned", ![w].threw = threw]
            /\ UNCHANGED clientVars
       ELSE LET terminalOf == IF threw THEN "fail" ELSE "success"
            IN /\ IF worker[w].begun THEN SendTerminal(worker[w].report, terminalOf)
                                     ELSE Call(worker[w].report, terminalOf)
               /\ worker' = [worker EXCEPT ![w].at = "reporting", ![w].threw = threw]
  /\ UNCHANGED <<wired, queueVars, runs, jobOf>>

\* Mutant: the check-in is sent and not waited for.
NotAwaited(w) == worker[w].at \in {"returned", "reporting"}

HasReported(w) ==
  \/ worker[w].at = "returned"
  \/ /\ worker[w].at = "reporting"
     /\ \A a \in Terminals : stage[<<worker[w].report, a>>] # "inFlight"

\* The wrapped processor settles, and the queue acts on it unless it has taken
\* the job back meanwhile.
Return(w) ==
  /\ HasReported(w)
  /\ LET j == worker[w].job
         spent == made[j] + 1
     IN IF ~worker[w].claim
          THEN UNCHANGED <<queue, made>>
          ELSE /\ made' = [made EXCEPT ![j] = IF worker[w].threw THEN spent ELSE @]
               /\ queue' = [queue EXCEPT ![j] = IF ~worker[w].threw THEN "completed"
                                                ELSE IF spent >= Attempts THEN "failed"
                                                ELSE "waiting"]
  /\ worker' = [worker EXCEPT ![w] = Idle]
  /\ UNCHANGED <<clientVars, wired, started, stalled, runs, jobOf>>

\* The worker stops renewing its claim, dead or merely slow: the queue takes the
\* job back, and gives it up when it has been taken back too often.
Stall(w) ==
  /\ worker[w].claim
  /\ LET j == worker[w].job
     IN IF stalled[j] < Stalls
          THEN /\ queue' = [queue EXCEPT ![j] = "waiting"]
               /\ stalled' = [stalled EXCEPT ![j] = @ + 1]
          ELSE /\ queue' = [queue EXCEPT ![j] = "abandoned"]
               /\ UNCHANGED stalled
  /\ \/ worker' = [worker EXCEPT ![w] = Idle]
     \/ worker' = [worker EXCEPT ![w].claim = FALSE]
  /\ UNCHANGED <<clientVars, wired, started, made, runs, jobOf>>

Next ==
  \/ \E w \in Workers, j \in Jobs : Take(w, j)
  \/ \E w \in Workers, threw \in BOOLEAN : Finish(w, threw)
  \/ \E w \in Workers : Return(w) \/ Stall(w)
  \/ \E c \in CheckIns : SettleCheckIn(c) /\ UNCHANGED bullVars

Spec == Init /\ [][Next]_vars

-----------------------------------------------------------------------------
TypeOK ==
  /\ ClientTypeOK
  /\ wired \in Wirings
  /\ queue \in [Jobs -> {"waiting", "active", "completed", "failed", "abandoned"}]
  /\ \A j \in Jobs : /\ made[j] \in 0..Attempts
                     /\ stalled[j] \in 0..Stalls
                     /\ started[j] \in 0..(Attempts + Stalls)
  /\ \A w \in Workers : /\ worker[w].job \in Jobs \cup {NoJob}
                        /\ worker[w].at \in {"idle", "running", "reporting", "returned"}
                        /\ worker[w].report \in Runs \cup {0}
                        /\ {worker[w].claim, worker[w].begun, worker[w].threw} \subseteq BOOLEAN
  /\ runs \in Runs \cup {0}
  /\ jobOf \in [Runs -> Jobs \cup {NoJob}]

Dispatched(j, a) == \E r \in Runs : jobOf[r] = j /\ stage[<<r, a>>] # "unsent"
Settled(j, a)    == \E r \in Runs : jobOf[r] = j /\ stage[<<r, a>>] = "settled"
OnSchedule(j)    == wired.allowOneOff \/ j \in Repeating

\* What the queue makes of a job on a schedule was reported before the queue
\* learnt of it: no job is completed or failed ahead of its check-in, and no
\* job that used up its attempts goes unreported.
OutcomeIsReported ==
  /\ TypeOK
  /\ \A j \in Jobs : OnSchedule(j) =>
       /\ queue[j] = "completed" => Settled(j, "success")
       /\ queue[j] = "failed" => Settled(j, "fail")

\* A job added by hand is never checked in for, and its arrival is said once
\* (src/README.md, "One-off jobs").
OneOffsAreLeftAlone ==
  \A j \in Jobs \ Repeating : ~wired.allowOneOff =>
    /\ \A a \in Actions : ~Dispatched(j, a)
    /\ started[j] > 0 => spoken[<<"bullmq-one-off", TheMonitor>>] = 1

\* A job the queue never took back from a worker is reported failed on its last
\* attempt and not before: such a job is neither retried nor completed after it.
FailIsFinal ==
  \A j \in Jobs : stalled[j] = 0 /\ Dispatched(j, "fail")
    => made[j] >= Attempts - 1 /\ queue[j] \notin {"waiting", "completed"}

\* Nobody is alarmed for a job that may yet succeed, or that is on no schedule.
NoFalseAlarm == FailIsFinal /\ OneOffsAreLeftAlone

\* Attempts that run at once never have a start check-in each: what the service
\* reads between a start and an end is one attempt's time (src/README.md,
\* "Concurrency").
StartsDoNotInterleave ==
  wired.pingStart = "unset" =>
    Cardinality({w \in Workers : worker[w].at = "running" /\ worker[w].begun}) <= 1

-----------------------------------------------------------------------------
(* What the code says and does not do.                                      *)

\* "The failure is reported once the job has exhausted the attempts it was
\* given, and not before": a fail check-in leaves only when every attempt but
\* the one at hand has been made.  attemptsStarted also counts the times a job
\* taken back from a worker was handed out again.
FailMeansExhausted ==
  \A j \in Jobs : Dispatched(j, "fail") => made[j] >= Attempts - 1

=============================================================================
