------------------------------ MODULE Wiring ------------------------------
(***************************************************************************)
(* What happens where a job is wired to its monitor, before anything runs: *)
(* the checks of wireMonitor (integrations/run.ts, wiring/adapters.ts),    *)
(* what each adapter reads off its scheduler's own options, and NestJS's   *)
(* walk over every job the scheduler holds (integrations/nestjs.ts).       *)
(* No state.                                                               *)
(*                                                                         *)
(* What a scheduler was given is [shape, expression, zone, offset]: a text *)
(* ("text"), an object holding one ("object") or a date or a rule          *)
(* ("date"); a zone or Absent; whether it has an offset.  What an adapter  *)
(* reads of it is the facts wireMonitor is called with.                    *)
(***************************************************************************)
EXTENDS Schedules

CONSTANT Absent

\* The facts, of which `asksForZone` says that an absent zone is one not named.
Facts(expression, zone, offset, asksForZone) ==
  [expression |-> expression, zone |-> zone, offset |-> offset, asksForZone |-> asksForZone]

\* node-cron's task knows its pattern; the zone is the one the caller repeats.
NodeCronFacts(given) == Facts(given.expression, given.zone, FALSE, FALSE)

CronerFacts(given) == Facts(given.expression, given.zone, given.offset, TRUE)

\* cronTime may be a date.
CronFacts(given) ==
  Facts(IF given.shape = "text" THEN given.expression ELSE Absent, given.zone, given.offset, TRUE)

\* A spec is a text, which has no zone, an object of a rule and a tz, or a rule
\* made of numbers, whose tz is its own.
NodeScheduleFacts(given) ==
  Facts(IF given.shape = "date" THEN Absent ELSE given.expression,
        IF given.shape = "text" THEN Absent ELSE given.zone, FALSE, TRUE)

NestFacts(given) == CronFacts(given)

FactsOf(adapter, given) ==
  CASE adapter = "node-cron"     -> NodeCronFacts(given)
    [] adapter = "croner"        -> CronerFacts(given)
    [] adapter = "cron"          -> CronFacts(given)
    [] adapter = "node-schedule" -> NodeScheduleFacts(given)
    [] OTHER                     -> NestFacts(given)

\* What each scheduler has an argument for.
Givable(adapter, given) ==
  /\ given.offset => adapter \in {"croner", "cron", "nestjs"}
  /\ given.shape = "date" => adapter \in {"cron", "nestjs", "node-schedule"}
  /\ given.shape = "object" => adapter = "node-schedule"
  /\ adapter = "node-schedule" /\ given.shape = "text" => given.zone = Absent

\* assertServiceCron, assertTimezone, and the monitor resolved: wireMonitor goes
\* through, or throws what the adapter's sealed() lets out.
Wires(facts, named) ==
  /\ facts.expression = Absent \/ CronDialectTakes(facts.expression)
  /\ facts.zone = Absent \/ NamesAZone(facts.zone)
  /\ named

\* zoneUnstatedAdvice, said only where it is known that no zone was named.
AdvisesOnZone(facts) ==
  /\ facts.expression # Absent /\ CronDialectTakes(facts.expression)
  /\ facts.zone = Absent /\ facts.asksForZone /\ ~facts.offset
  /\ ReadsAsAnHourOfTheDay(facts.expression)

-----------------------------------------------------------------------------
(* NestJS.  A job is [mapping, given, named, reachable]: what the caller's  *)
(* mapping says of it ("monitor", "left out", "nothing"), what it was       *)
(* scheduled with, whether its monitor resolves to an id, and whether its   *)
(* callbacks can be got at.  Jobs are a sequence.                           *)

\* mappedMonitor
JobsThat(jobs, says) == {i \in DOMAIN jobs : jobs[i].mapping = says}

\* survey: every mapped job is checked before any of them is wrapped.
Survey(jobs) ==
  LET mapped == JobsThat(jobs, "monitor")
  IN  [refused  |-> \E i \in mapped : ~Wires(NestFacts(jobs[i].given), jobs[i].named),
       mapped   |-> mapped,
       unmapped |-> JobsThat(jobs, "nothing"),
       covered  |-> DOMAIN jobs \ JobsThat(jobs, "left out")]

\* Mutant: jobs are wrapped one by one until one of them is refused.
WrappedUntilRefused(jobs) ==
  LET found == Survey(jobs)
      sound == {i \in found.mapped :
                  \A k \in found.mapped : k <= i => Wires(NestFacts(jobs[k].given), jobs[k].named)}
  IN  [refused |-> found.refused, monitored |-> {i \in sound : jobs[i].reachable},
       unwrapped |-> {i \in sound : ~jobs[i].reachable},
       unmapped |-> found.unmapped, covered |-> found.covered]

\* attach: the mapped jobs whose callbacks can be got at are wrapped.
AttachAll(jobs) ==
  LET found   == Survey(jobs)
      Those(reachable) == {i \in found.mapped : ~found.refused /\ jobs[i].reachable = reachable}
  IN  [refused |-> found.refused, monitored |-> Those(TRUE), unwrapped |-> Those(FALSE),
       unmapped |-> found.unmapped, covered |-> found.covered]

\* Whether the line that announces the coverage is a warning.
Actionable(found) == found.unmapped # {} \/ found.unwrapped # {} \/ found.covered = {}

=============================================================================
