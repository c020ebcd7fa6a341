--------------------------- MODULE ProcessExit ----------------------------
(***************************************************************************)
(* The end of the process (cli/exit.ts): the status is recorded, and the   *)
(* process ends when nothing holds its event loop or when it has lingered  *)
(* long enough, but not with writes its own streams still owe a reader: a  *)
(* queued write neither holds a process open nor survives its exit.        *)
(*                                                                         *)
(* Composed with RunCommand, whose tee is what leaves writes behind.       *)
(***************************************************************************)
EXTENDS RunCommand

VARIABLES
  process,  \* "busy", "finishing" or "gone"
  owed,     \* whether its streams hold writes that a reader could still take
  late,     \* whether they hold a line written since the status was recorded
  hold      \* whether the timer that holds the process for them is armed

exitVars == <<process, owed, late, hold>>
allVars  == <<vars, exitVars>>

ExitInit ==
  /\ Init
  /\ process = "busy"
  /\ owed = FALSE
  /\ late = FALSE
  /\ hold = FALSE

\* What the process's streams may still have to write: a stream whose reader is
\* gone owes nothing.
MayOwe == \E s \in Streams : sink[s] # "closed"

\* finish: a stream whose reader is behind holds writes, and any other may.
Finish ==
  /\ process = "busy"
  /\ at = "returned"
  /\ process' = "finishing"
  /\ owed' \in BOOLEAN
  /\ owed' => MayOwe
  /\ (\E s \in Streams : sink[s] = "full") => owed'
  /\ hold' = owed'
  /\ UNCHANGED late

\* A check-in the delivery gave up on settles after that, and its result may be
\* said: nothing is armed for the line.
AbandonedSettles ==
  /\ process = "finishing"
  /\ \/ UNCHANGED late
     \/ MayOwe /\ late' = TRUE
  /\ UNCHANGED <<process, owed, hold>>

\* bufferedStdio.
Buffered == owed \/ late

\* Readers take what is queued, or go away.
Taken ==
  /\ process = "finishing"
  /\ \/ owed /\ owed' = FALSE /\ UNCHANGED late
     \/ late /\ late' = FALSE /\ UNCHANGED owed
  /\ UNCHANGED <<process, hold>>

\* Mutant: the process is held for one interval, whatever is still owed.
HeldOnce ==
  /\ process = "finishing"
  /\ hold
  /\ hold' = FALSE
  /\ UNCHANGED <<process, owed, late>>

\* holdWhileStdioIsBuffered, again.
HoldFires ==
  /\ process = "finishing"
  /\ hold
  /\ hold' = Buffered
  /\ UNCHANGED <<process, owed, late>>

\* The process ends, and its timers with it.
Gone ==
  /\ process' = "gone"
  /\ hold' = FALSE
  /\ UNCHANGED <<owed, late>>

\* Nothing holds the loop: no command that is still there, no check-in (its
\* deadline is a timer that does) and no connection.  The timer of the linger
\* budget is detached, and does not.
LoopEmpties ==
  /\ process = "finishing"
  /\ ~hold
  /\ cmd # "running"
  /\ inFlight = {}
  /\ Gone

\* exitOnceStdioIsFlushed, when the budget is over and at every poll after it;
\* while a write is owed all it does is poll again.
LingerFires ==
  /\ process = "finishing"
  /\ ~Buffered
  /\ Gone

ExitStep == Finish \/ Taken \/ HoldFires \/ LoopEmpties \/ LingerFires

ExitNext ==
  \/ (Wrapper \/ World) /\ UNCHANGED exitVars
  \/ Client1 /\ process = "busy" /\ UNCHANGED exitVars
  \/ Client1 /\ AbandonedSettles
  \/ ExitStep /\ UNCHANGED vars

ExitSpec == ExitInit /\ [][ExitNext]_allVars

\* Timers fire and a reader that is behind reads on or goes away.  Nothing is
\* assumed of what else holds the loop.
ExitFairness ==
  /\ WF_allVars(Finish /\ UNCHANGED vars)
  /\ WF_allVars(Taken /\ UNCHANGED vars)
  /\ WF_allVars(HoldFires /\ UNCHANGED vars)
  /\ WF_allVars(LingerFires /\ UNCHANGED vars)

FairExitSpec == ExitSpec /\ Fairness /\ ExitFairness

-----------------------------------------------------------------------------
\* The process never takes with it a write that was queued when its status was
\* recorded and that a reader could still have had: the loop is held for as long
\* as there is one, and the forced exit put off.  A line about a check-in given up
\* on, said after that, puts the forced exit off and does not hold the loop: it
\* is the one thing that may go.
NothingGoesWithTheProcess == process = "gone" => ~owed

\* Neither a check-in nor a line of the command's output is given up on for the
\* sake of a budget that was not theirs, up to the end of the process.
NothingIsCutShort == NothingIsRushed /\ NothingGoesWithTheProcess

\* The process ends: after a command that ends, and by its deadline, whatever
\* holds its loop and however late its readers are.
ProcessEnds ==
  (cmd = "dead" \/ (at = "executing" /\ spec.timeout /\ spec.killAfter)) ~> process = "gone"
=============================================================================
