---------------------------- MODULE PingClient ----------------------------
(***************************************************************************)
(* The check-in client built by createPingClient (ping/client.ts): every   *)
(* check-in is dispatched without being awaited, tracked until it settles, *)
(* and reported once; startRun brackets a job with a start and one         *)
(* terminal check-in; flush waits for what is in flight, up to a budget.   *)
(*                                                                         *)
(* A check-in is <<r, a>>: the check-in the run r makes with action a.     *)
(* What happens to one between dispatch and settlement is send(), modelled *)
(* by Transport; here it settles sooner or later with some outcome.        *)
(***************************************************************************)
EXTENDS Naturals, FiniteSets

CONSTANTS
  Runs,       \* the objects startRun returns
  MonitorOf,  \* the monitor each run checks in for
  Sinks,      \* runs whose options, or whose client's, name an onResult
  Loud,       \* outcomes that carry a message
  Quiet,      \* outcomes that carry none: accepted, duplicate, aborted
  Flushers    \* callers of flush()

ASSUME OutcomesAssumption == Loud \cap Quiet = {}
ASSUME SinksAssumption    == Sinks \subseteq Runs

VARIABLES
  stage,     \* [CheckIns -> {"unsent", "inFlight", "settled"}]
  inFlight,  \* the Set of tracked promises
  terminal,  \* what startRun's closure memoised: the action, or "none"
  warned,    \* the process-wide ledger of warnOnce
  flush,     \* per caller: where its flush() stands and what it waits for
  before,    \* history: per caller, what was dispatched before its flush()
  spoken,    \* history: how often each warning was printed
  reported   \* history: <<outcome, monitor>> of loud results no sink took

clientVars == <<stage, inFlight, terminal, warned, flush, before, spoken, reported>>

-----------------------------------------------------------------------------
Terminals == {"success", "fail"}
Actions   == {"heartbeat", "start"} \cup Terminals
CheckIns  == Runs \X Actions
Outcomes  == Loud \cup Quiet
Monitors  == {MonitorOf[r] : r \in Runs}
Subjects  == Outcomes \cup {"adapter-overlap", "bullmq-one-off"}
Warnings  == Subjects \X Monitors

ClientInit ==
  /\ stage = [c \in CheckIns |-> "unsent"]
  /\ inFlight = {}
  /\ terminal = [r \in Runs |-> "none"]
  /\ warned = {}
  /\ flush = [f \in Flushers |-> [at |-> "idle", pending |-> {}]]
  /\ before = [f \in Flushers |-> {}]
  /\ spoken = [w \in Warnings |-> 0]
  /\ reported = {}

\* One warning per process, per subject, per monitor.
WarnOnce(subject, monitor) ==
  IF <<subject, monitor>> \in warned
    THEN UNCHANGED <<warned, spoken>>
    ELSE /\ warned' = warned \cup {<<subject, monitor>>}
         /\ spoken' = [spoken EXCEPT ![<<subject, monitor>>] = @ + 1]

\* dispatch: the check-in is on its way and tracked before the call returns.
Dispatch(c) ==
  /\ stage' = [stage EXCEPT ![c] = "inFlight"]
  /\ inFlight' = inFlight \cup {c}

-----------------------------------------------------------------------------
(* What a job does with the client.                                         *)

\* ping, start, success and fail: one check-in, and no memo.
Call(r, a) ==
  /\ stage[<<r, a>>] = "unsent"
  /\ Dispatch(<<r, a>>)
  /\ UNCHANGED <<terminal, warned, flush, before, spoken, reported>>

Ping(r) == Call(r, "heartbeat")

StartRun(r) == Call(r, "start")

\* Mutant: the second terminal call of a run is dispatched like the first.
SendTerminalAgain(r, a) ==
  /\ stage[<<r, "start">>] # "unsent"
  /\ a \in Terminals
  /\ stage[<<r, a>>] = "unsent"
  /\ terminal' = [terminal EXCEPT ![r] = a]
  /\ Dispatch(<<r, a>>)
  /\ UNCHANGED <<warned, flush, before, spoken, reported>>

\* success() or fail() of a run.  The first call decides; a later one is handed
\* the same promise and changes nothing.
SendTerminal(r, a) ==
  /\ stage[<<r, "start">>] # "unsent"
  /\ a \in Terminals
  /\ IF terminal[r] = "none"
       THEN /\ terminal' = [terminal EXCEPT ![r] = a]
            /\ Dispatch(<<r, a>>)
       ELSE UNCHANGED <<terminal, stage, inFlight>>
  /\ UNCHANGED <<warned, flush, before, spoken, reported>>

-----------------------------------------------------------------------------
(* What happens to a check-in.                                              *)

Untracked(c) == inFlight \ {c}

\* perform finishes: the result goes to the sink or to the warner, and the
\* promise leaves the tracked set.
SettleCheckIn(c) ==
  /\ stage[c] = "inFlight"
  /\ stage' = [stage EXCEPT ![c] = "settled"]
  /\ inFlight' = Untracked(c)
  /\ \E outcome \in Outcomes :
       IF c[1] \in Sinks \/ outcome \in Quiet
         THEN UNCHANGED <<warned, spoken, reported>>
         ELSE /\ reported' = reported \cup {<<outcome, MonitorOf[c[1]]>>}
              /\ WarnOnce(outcome, MonitorOf[c[1]])
  /\ UNCHANGED <<terminal, flush, before>>

-----------------------------------------------------------------------------
(* flush.                                                                   *)

\* Taken over what is in flight at the call: nothing in flight returns at once.
FlushCall(f) ==
  /\ flush[f].at = "idle"
  /\ flush' = [flush EXCEPT ![f] = [at |-> IF inFlight = {} THEN "flushed" ELSE "waiting",
                                    pending |-> inFlight]]
  /\ before' = [before EXCEPT ![f] = {c \in CheckIns : stage[c] # "unsent"}]
  /\ UNCHANGED <<stage, inFlight, terminal, warned, spoken, reported>>

\* Mutant: the first settlement ends the wait.
AnySettled(f) == \E c \in flush[f].pending : stage[c] = "settled"

AllSettled(f) == \A c \in flush[f].pending : stage[c] = "settled"

FlushSettled(f) ==
  /\ flush[f].at = "waiting"
  /\ AllSettled(f)
  /\ flush' = [flush EXCEPT ![f].at = "flushed"]
  /\ UNCHANGED <<stage, inFlight, terminal, warned, before, spoken, reported>>

\* Mutant: the budget is looked at when the check-ins settle.
FlushExpiredLate(f) ==
  /\ flush[f].at = "waiting"
  /\ AllSettled(f)
  /\ flush' = [flush EXCEPT ![f].at = "expired"]
  /\ UNCHANGED <<stage, inFlight, terminal, warned, before, spoken, reported>>

\* The budget of the flush runs out first.
FlushExpired(f) ==
  /\ flush[f].at = "waiting"
  /\ flush' = [flush EXCEPT ![f].at = "expired"]
  /\ UNCHANGED <<stage, inFlight, terminal, warned, before, spoken, reported>>

-----------------------------------------------------------------------------
Client ==
  \/ \E c \in CheckIns : SettleCheckIn(c)
  \/ \E f \in Flushers : FlushCall(f) \/ FlushSettled(f) \/ FlushExpired(f)

\* Jobs written against the client itself: they ping, start runs, and end them
\* in any order and as often as they like.
Callers == \E r \in Runs : Ping(r) \/ StartRun(r) \/ \E a \in Terminals : SendTerminal(r, a)

ClientSpec == ClientInit /\ [][Client \/ Callers]_clientVars

\* A flush is resumed when its wait is over, and the timer it started keeps the
\* process up until it fires.  Nothing is assumed of the network or of the jobs.
ClientFairness ==
  \A f \in Flushers : WF_clientVars(FlushSettled(f)) /\ WF_clientVars(FlushExpired(f))

FairClientSpec == ClientSpec /\ ClientFairness

-----------------------------------------------------------------------------
ClientTypeOK ==
  /\ stage \in [CheckIns -> {"unsent", "inFlight", "settled"}]
  /\ inFlight \in SUBSET {c \in CheckIns : stage[c] = "inFlight"}
  /\ terminal \in [Runs -> Terminals \cup {"none"}]
  /\ warned \in SUBSET Warnings
  /\ \A f \in Flushers : /\ flush[f].at \in {"idle", "waiting", "flushed", "expired"}
                         /\ flush[f].pending \in SUBSET CheckIns
  /\ before \in [Flushers -> SUBSET CheckIns]
  /\ spoken \in [Warnings -> Nat]
  /\ reported \in SUBSET (Loud \X Monitors)

\* A run ends once: whatever is called, in whatever order, at most one of its
\* two terminal check-ins ever leaves (startRun's memo).
OneTerminalPerRun ==
  \A r \in Runs : Cardinality({a \in Terminals : stage[<<r, a>>] # "unsent"}) <= 1

\* A flush that was not cut short by its budget covers every check-in
\* dispatched before it was called.
FlushCovers ==
  \A f \in Flushers : flush[f].at = "flushed"
     => \A c \in before[f] : stage[c] = "settled"

\* Loud once: a failure no sink took is printed for its monitor, and never
\* twice for the same cause (src/README.md, "Say it once").
LoudOnce ==
  \A w \in Outcomes \X Monitors :
     spoken[w] = (IF w \in reported THEN 1 ELSE 0)

\* What may be said once is said once, however often it is asked for: the end of
\* a run to the service, a failure nobody took to the console.
SaidOnce == ClientTypeOK /\ OneTerminalPerRun /\ LoudOnce

\* A flush returns, by settlement or by its budget, however long the check-ins it
\* waits for take and whatever is dispatched meanwhile.
FlushReturns ==
  \A f \in Flushers : flush[f].at = "waiting" ~> flush[f].at \in {"flushed", "expired"}

=============================================================================
