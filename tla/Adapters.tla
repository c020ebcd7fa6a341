----------------------------- MODULE Adapters -----------------------------
(***************************************************************************)
(* How the scheduler adapters reach the bracket of RunBracket.             *)
(*                                                                         *)
(*   callbacks  croner, cron and node-schedule hand the scheduler a        *)
(*              callback wrapped by bracketed; NestJS replaces those the   *)
(*              scheduler already holds and puts them back on detach.  An  *)
(*              execution that began wrapped ends wrapped.                 *)
(*   events     node-cron emits an event when an execution starts and one  *)
(*              when it ends, to whoever listens at that moment.           *)
(*                                                                         *)
(* Either may be attached while executions are under way, and detached.    *)
(***************************************************************************)
EXTENDS RunBracket

VARIABLES
  eventful,  \* whether the adapter listens to events rather than wrapping
  attached,  \* "before", "on", "off": monitor() or attach(), then detach()
  drain,     \* per caller of the adapter's flush: what of pending it awaits
  heard,     \* history: executions whose beginning reached the bracket
  strays,    \* history: executions whose end did and whose beginning did not
  early      \* history: the members of each run under way when it was ended

adapterVars == <<eventful, attached, drain, heard, strays, early>>
allVars == <<vars, adapterVars>>

-----------------------------------------------------------------------------
AdapterInit ==
  /\ Init
  /\ eventful \in BOOLEAN
  /\ attached \in {"before", "on"}
  /\ drain = [f \in Flushers |-> [at |-> "idle", pending |-> {}]]
  /\ heard = {}
  /\ strays = {}
  /\ early = [r \in Runs |-> {}]

\* monitor() puts its listeners on the task, wrapJob its wrappers in the job.
Attach ==
  /\ attached = "before"
  /\ attached' = "on"
  /\ UNCHANGED <<vars, eventful, drain, heard, strays, early>>

\* detach() takes them off again.
Detach ==
  /\ attached = "on"
  /\ attached' = "off"
  /\ UNCHANGED <<vars, eventful, drain, heard, strays, early>>

\* What the scheduler does with an execution the adapter is not told of.
Unseen(j, to) ==
  /\ fire' = [fire EXCEPT ![j] = to]
  /\ UNCHANGED <<clientVars, open, run, failed, failure, awaits, runs, spanOf, threw, cause>>
  /\ UNCHANGED adapterVars

\* 'execution:started', or the wrapped callback called.
BeginHeard(j) ==
  /\ attached = "on"
  /\ Begin(j)
  /\ heard' = heard \cup {j}
  /\ UNCHANGED <<eventful, attached, drain, strays, early>>

BeginUnheard(j) ==
  /\ attached # "on"
  /\ Due(j)
  /\ Unseen(j, "running")

\* A listener hears of every end while it is on; a wrapper sees the end of what
\* it saw begin.
HearsEnd(j) == IF eventful THEN attached = "on" ELSE j \in heard

\* 'execution:finished', 'execution:failed', or the wrapped callback's end.
EndHeard(j, threwNow) ==
  /\ HearsEnd(j)
  /\ Settle(j, threwNow)
  /\ strays' = strays \cup ({j} \ heard)
  /\ early' = [r \in Runs |->
                 IF terminal[r] = "none" /\ terminal'[r] # "none"
                   THEN {i \in Members(r) : fire'[i] = "running"}
                   ELSE early[r]]
  /\ UNCHANGED <<eventful, attached, drain, heard>>

EndUnheard(j) ==
  /\ ~HearsEnd(j)
  /\ fire[j] = "running"
  /\ Unseen(j, "done")

\* The settle an execution waits for, or its listener holds, is over.
Resumed(j) == Return(j) /\ UNCHANGED adapterVars

-----------------------------------------------------------------------------
(* flush of an adapter: the ends node-cron's listeners hold, then the client's. *)

Held == {j \in Fires : fire[j] = "settling"}

\* The host may flush whatever its executions are doing: what is pending is
\* what the listeners hold at the call.
FlushAsked(f) ==
  /\ drain[f].at = "idle"
  /\ drain' = [drain EXCEPT ![f] = [at |-> "asked", pending |-> IF eventful THEN Held ELSE {}]]
  /\ UNCHANGED <<vars, eventful, attached, heard, strays, early>>

\* Promise.allSettled over what was pending at the call, without a budget.
PendingSettled(f) == drain[f].pending \cap Held = {}

Drained(f) ==
  /\ drain[f].at = "asked"
  /\ PendingSettled(f)
  /\ drain' = [drain EXCEPT ![f].at = "drained"]
  /\ FlushCall(f)
  /\ UNCHANGED <<bracketVars, eventful, attached, heard, strays, early>>

FlushOver(f) ==
  /\ FlushSettled(f) \/ FlushExpired(f)
  /\ UNCHANGED <<bracketVars, adapterVars>>

-----------------------------------------------------------------------------
Next ==
  \/ Attach
  \/ Detach
  \/ \E j \in Fires : BeginHeard(j) \/ BeginUnheard(j)
  \/ \E j \in Fires, threwNow \in BOOLEAN : EndHeard(j, threwNow)
  \/ \E j \in Fires : EndUnheard(j)
  \/ \E j \in Fires : Resumed(j)
  \/ \E f \in Flushers : FlushAsked(f) \/ Drained(f) \/ FlushOver(f)
  \/ Network /\ UNCHANGED adapterVars

Spec == AdapterInit /\ [][Next]_allVars

\* Every check-in settles, as send() does, and a settled one is resumed from;
\* executions are assumed to end, the scheduler is not assumed to fire, nor
\* anybody to attach, detach or flush.  The timer of a flush fires.
Fairness ==
  /\ \A c \in CheckIns :
       WF_allVars(SettleCheckIn(c) /\ UNCHANGED <<bracketVars, adapterVars>>)
  /\ \A j \in Fires :
       /\ WF_allVars(Resumed(j))
       /\ WF_allVars(EndUnheard(j) \/ \E threwNow \in BOOLEAN : EndHeard(j, threwNow))
  /\ \A f \in Flushers : WF_allVars(Drained(f)) /\ WF_allVars(FlushOver(f))

FairSpec == Spec /\ Fairness

-----------------------------------------------------------------------------
AdapterTypeOK ==
  /\ TypeOK
  /\ eventful \in BOOLEAN
  /\ attached \in {"before", "on", "off"}
  /\ \A f \in Flushers : /\ drain[f].at \in {"idle", "asked", "drained"}
                         /\ drain[f].pending \in SUBSET Fires
  /\ heard \in SUBSET Fires
  /\ strays \in SUBSET (Fires \ heard)
  /\ early \in [Runs -> SUBSET Fires]

Overlapping == {j \in heard : fire[j] = "running"}

\* The count the bracket keeps is behind the executions it counted by no more
\* than the ends it heard of executions it never saw begin, until listeners
\* are taken off and ends go unheard.
CountIsExplained ==
  \/ eventful /\ attached = "off"
  \/ /\ open <= Cardinality(Overlapping)
     /\ Cardinality(Overlapping) <= open + Cardinality(strays)

\* A run is not ended under its executions: at most one is left running for
\* each end that was heard without its beginning.
EndedEarlyForACause == \A r \in Runs : Cardinality(early[r]) <= Cardinality(strays)

\* What a scheduler's executions did is what is reported of them, whichever way
\* they overlap and whenever the adapter is attached: all of them wrapped, or
\* all heard from beginning to end, they are one run, failed if any failed and
\* for the reason of the first (src/README.md, "Overlap"); with executions cut
\* off from their beginning by a late attach, the damage is bounded by them.
ReportsAreTrue ==
  /\ AdapterTypeOK
  /\ strays = {} => RunTellsTheTruth /\ FirstErrorIsReported
  /\ CountIsExplained
  /\ EndedEarlyForACause

\* A wrapped execution returns to its scheduler, the last of its run, only when
\* the run's terminal check-in has settled; and a flush no budget cut short
\* covers everything dispatched before it (src/README.md, "Flushing").
SettledBeforeExit ==
  /\ ~eventful => ReturnedMeansReported
  /\ FlushCovers

\* In the end every run that was started is ended, unless the listeners that
\* would hear of its end were taken off, and every flush of an adapter has returned.
RunsEnd ==
  <>[](/\ \A r \in Runs :
            stage[<<r, "start">>] # "unsent" =>
              terminal[r] # "none" \/ (eventful /\ attached = "off")
       /\ \A f \in Flushers :
            drain[f].at # "idle" => flush[f].at \in {"flushed", "expired"})

=============================================================================
