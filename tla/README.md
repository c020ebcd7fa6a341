# cronheart, specified

TLA+ models of the cronheart client library and command line (`src/src`), the
TLC configurations that check them on small instances, and TLAPS proofs of what
matters most for every instance. `src/` is the root of the repository:
`src/README.md` is the package's own README and `src/src/` its code, which a
path without a root (`cli/run.ts`) is relative to.

- [The system](#the-system)
- [Modules](#modules)
- [The runs and what they show](#the-runs-and-what-they-show)
- [What is proved](#what-is-proved)
- [Where the code and its documentation disagree](#where-the-code-and-its-documentation-disagree)
- [What is not modelled](#what-is-not-modelled)
- [Plan](#plan)

To repeat a check: `tlc -config MCTransport.cfg MCTransport`, and
`tlapm TransportProofs.tla`. `PROJECT.json` lists every run with its
configuration, the code each definition stands for, the hazards the properties
are aimed at, and for every property a plausible bug that breaks it.

## The system

cronheart reports the runs of scheduled jobs to a monitoring service. It is one
npm package: a client that sends *check-ins* (start, success, fail, heartbeat)
over HTTP, adapters that put a scheduler's jobs in between, a management client
for the account's monitors, a declarative sync of monitors, and a CLI. JavaScript
runs it on one thread, so the unit of interleaving is the stretch of code between
two `await`s, timers or event listeners; the network, the schedulers, the child
process and the terminal's signals are what runs concurrently. Its first promise
is that it never breaks or delays the job it reports on.

| Component | Code (`src/src/`) | State it keeps | Operations | Modelled in |
|---|---|---|---|---|
| Transport | `transport/send.ts`, `transport/attempts.ts`, `timer.ts` | per call: attempt counter, budget, the answer in hand, who stopped the attempt | `send`, `attemptOnce`, `holdFor`, `releaseBody` | `Transport` |
| Retry-After | `transport/retry-after.ts` | none | parse a header into a wait | `RetryAfter` |
| Check-in client | `ping/client.ts`, `ping/warn.ts`, `ping/default.ts`, `ping/safely.ts` | in-flight set, per-run memo of the terminal call, process-wide ledger of warnings | `ping`, `start`, `success`, `fail`, `startRun`, `withMonitor`, `flush` | `PingClient` |
| Monitor resolution | `ping/resolve.ts`, `ping/env.ts`, `identifier-shape.ts` | none | name to monitor, or a refusal | `Lookup` |
| Check-in body | `ping/body.ts`, `ping/describe.ts` | none | cap, redact, describe | `Excerpt` (cap and redaction) |
| Adapter bracket | `integrations/run.ts` | open count, current run, first failure | `bracketFor` (`begin`, `settle`), `bracketed`, `reportRun`, `wireMonitor` | `RunBracket`, `Wiring` |
| croner, cron, node-schedule | `integrations/{croner,cron,node-schedule}.ts` | none | wrap the callback | `Adapters`, `Wiring` |
| node-cron | `integrations/node-cron.ts` | listeners, pending terminal check-ins | event listeners, `flush` | `Adapters`, `Wiring` |
| BullMQ | `integrations/bullmq.ts` | none (the queue's counters are read off the job) | wrapped processor | `BullMq` |
| NestJS | `integrations/nestjs.ts` | surveyed registry | survey, wrap, unwrap, coverage line | `Adapters`, `Wiring` |
| Wiring checks, cron dialect | `wiring/*`, `cron-dialect.ts` | none | refuse what cannot be monitored | `Wiring`, `Schedules` |
| `cronheart run` | `cli/run.ts`, `cli/duration.ts`, `cli/args.ts` | child, timers, stalls, flags of one execution | spawn, tee, drain, deadline, forward, escalate, report | `RunCommand` |
| Output excerpt | `cli/stderr-tail.ts`, `cli/redact.ts` | ring of bytes | push, text | `Excerpt` |
| Process exit | `cli/exit.ts`, `cli.ts`, `cli/io.ts` | buffered output | linger, exit | `ProcessExit` |
| Management transport | `api/http.ts`, `api/transport.ts`, `api/problem.ts`, `api/classify.ts` | session: newest rate-limit reading; per call: attempts, budget, key | `request` with its retries | `ApiSession`, `ApiErrors` |
| Management client | `api/client.ts`, `api/compose.ts`, `api/validate.ts`, `api/hydrate.ts` | none | endpoints: bodies sent, rows read | `Definitions`, `Schedules` |
| Listings | `api/paginate.ts` | offset or cursor, what was seen | iterate | `Listing` |
| Sync plan | `sync/plan.ts`, `sync/define.ts`, `sync/key.ts`, `sync/routing.ts` | none | declarations and account to a list of changes | `SyncPlan`, `Definitions` |
| Sync apply | `sync/apply.ts`, `sync/prune.ts`, `cli/sync.ts` | outcomes so far, whether to stop | apply rows in order, prune | `Sync` |
| Signup | `cli/signup.ts`, `api/signup.ts` | device code, poll interval | register, poll, keep the key | `Onboarding` |
| Init | `cli/init.ts` | none | find or make a monitor, keep its identifier, try it | `Onboarding` |
| Secrets file | `cli/env-file.ts` | the file | inspect, upsert, write beside and rename | `EnvFile` |
| Doctor | `cli/doctor.ts` | none | list what the environment configures | `Lookup` |
| ping, help, base URL, testing helpers | `cli/{ping,help}.ts`, `net/base-url.ts`, `testing.ts` | none | sequential, or text | |
| Contract tooling | `contract/*`, `scripts/*`, `contract-anchors.ts` | none | checks of the repository on itself | |

### What is hard in it

- **Timeouts against answers.** One budget covers attempts, pauses and body
  reads; a deadline races a head, a body, a rejection and an abort, over a
  transport that may ignore its signal. *Correct*: the call settles, within the
  budget; the reason reported is the one that happened; a service that asked for
  a pause gets it; a cancelled call sends nothing more.
- **Dispatch without awaiting.** Check-ins are tracked, not awaited, and `flush`
  waits for those in flight when it is called. *Correct*: nothing dispatched
  before is missed, what comes later does not hold it, it always returns; a run
  ends once.
- **Overlap.** A scheduler fires a job that is still running. *Correct*: one run
  at a time is in the bracket, it fails when any execution in it did, and it is
  never ended early or left open.
- **Retries that are somebody else's.** BullMQ retries and re-dispatches jobs.
  *Correct*: what the queue concludes of a job was reported first, and a failure
  is reported when the queue has given up.
- **A child process.** Exit, close, deadline, escalation, two pipes with slow
  readers, background leftovers and signals arrive in any order. *Correct*: the
  status is the command's own; the check-in agrees with it; the wrapper returns;
  a process that is gone is not signalled.
- **Lost answers to requests that were carried out.** The management client
  retries, and a caller told of a failure may have been obeyed. *Correct*: what
  must be done once is done once, and what a caller is told happened, happened.
- **Pages that shift while they are walked**, and a service that does not advance.
  *Correct*: no row twice, a row is missed only for a cause, the walk ends.
- **A plan that is stale when it is applied.** Two runs of sync, a person at the
  dashboard, a listing that missed a monitor. *Correct*: one monitor of a name,
  nothing of others' undone, nothing deleted that was not replaced, and a run that
  says it converged has.
- **A key that is handed over once**, and a file others write to (signup, init,
  secrets file). *Correct*: the key is in the file, on the output, or said to be
  lost; nothing somebody else wrote is replaced.
- **Two readings of one thing.** What sync takes and what the client sends, what
  an adapter passes and what the service takes, a name and its variable, a date
  and its spellings. *Correct*: they agree, at their boundaries too.

`PROJECT.json` lists these one by one at the lines where they bite, with the
properties that watch them.

## Modules

```
CheckIn  <--implements--  Transport          (TransportProofs)
                          PingClient         (PingClientProofs)
                            <-- RunBracket <-- Adapters (AdaptersProofs)
                            <-- BullMq       (BullMqProofs)
                            <-- RunCommand   (RunCommandProofs)
                                  <-- ProcessExit (RunCommandProofs)
ApiErrors  <-- ApiSession                    (ManagementProofs)
           <-- Sync        --> SyncPlan      (SyncProofs)
           <-- Onboarding  --> EnvFile       (OnboardingProofs)
Listing                                      (ManagementProofs)
Cases                                        (TransportProofs)
       --> Definitions --> Schedules <-- Wiring
       --> Wiring, Lookup, Excerpt, RetryAfter
```

An arrow without a word is EXTENDS. Every module that is run has an `MC...` module,
which names the instance, and one `.cfg` for each run. Constants carry named
assumptions, no weaker than the code needs them. Definitions commented `Mutant:`
are deliberate bugs; nothing in a specification uses them.

### Reporting

**CheckIn** is the promise `send()` makes: requests go out one at a time, at most
`Limit` of them, none after a final answer, none but the first after a
cancellation, and one verdict, which is an answer that was really heard or a
failure. It has no clock and no retry policy.

**Transport** is one call of `send()` with `attemptOnce` and `holdFor`. A state is
a place where the function is suspended (`pc`: `start`, `dispatched`, `reading`,
`settled`, `waiting`, `done`) and an action is the code from one such place to the
next, so the network, the timers and the caller's signal interleave where the
event loop lets them. `Dispatch` is the head of the loop and the call to `fetch`;
`OutOfBudget` the head of the loop with nothing left; `AnswerIsRetried`,
`FailureIsRetried`, `FailureIsHeld`, `AnswerIsFinal` and `FailureIsFinal` are what the loop
makes of a settled attempt; `FetchRejects`, `HeadArrives`, `NotAResponse`,
`BodyRead` and `DeadlineFires` settle the attempt. Statuses are reduced to the
three kinds the loop tells apart and a `Retry-After` header to the wait it states.
Time is an integer; a timer fires when it is due or up to `Lag` late.

**PingClient** is `createPingClient`. A check-in `<<run, action>>` is unsent, in
flight or settled; settling reports a result to a sink or to the warner. `Call` is
the four direct methods, `StartRun` and `SendTerminal` the object `startRun`
returns, `FlushCall`, `FlushSettled`, `FlushExpired` the flush. It stands on
Transport's `Settles`: a check-in that leaves `stage = "inFlight"` is a `send()` that
settled. Nothing checked here assumes a check-in settles, except where stated.

**RunBracket** composes the client with `bracketFor`: `Begin` and `Settle` are its two
methods, `Return` the moment an execution goes back to the scheduler. `BeginFirst`
keeps the case where the client a host passed throws from `startRun`. Its `success` and
`fail` return a promise here, as their type says: one of a host's client that throws instead
(`integrations/run.ts:115`) loses the run and rejects the settle, and is not modelled.

**Adapters** is what calls the bracket. With `eventful` false it is a wrapped
callback, as croner, cron, node-schedule and NestJS have it: an execution that
began wrapped ends wrapped, whenever the wrapper is put on or taken off. With it
true it is node-cron's listeners: an end that is heard settles the bracket whether
or not its beginning was heard, and the adapter's flush first waits for the ends it
holds (`pending`), then flushes the client. `Attach`, `Detach` and the flush come at any
moment, executions under way or not.

**BullMq** composes the client with the wrapped processor (`Take`, `Finish`,
`Return`), its wiring (`wired`: how many processors, `pingStart`, `allowOneOff`) and
the queue, which is external: its counters, its retry rule and stalled jobs are
modelled from how the adapter and its comments describe them. A worker whose claim is
lost may be dead or may go on running.

**RunCommand** composes the client with `runCommand` and `execute`. `spec` is what
`planRun` makes of the arguments. The event handlers are one action each (`ExitSeen`,
`CloseSeen`, `DrainFires`, `DeadlineFires`, `EscalationFires`, `Interrupt`,
`SpawnFailed`, `Read`, `SinkMoves`), the command, its leftovers and the reader of the
output are the world's (`CommandEnds`, `Background`, `Write`). `SignalRefused` is the
`error` event Node emits for a signal it may not deliver, handled by the same
listener as a failed spawn.

**ProcessExit** is `finish` in `cli/exit.ts`, behind the return of a run. `Finish` looks
at what the process's own streams still owe a reader; `HoldFires` is the timer that holds
the event loop while they do, `LingerFires` the forced exit, which polls on for as
long, and `LoopEmpties` the end that comes by itself. `Taken` is the readers'. It adds four
variables to RunCommand's and takes no step of its own while the run does, so a
process is a run with an exit behind it. One thing of the run goes on into the exit: a
check-in whose delivery was given up on may settle while the process lingers
(`AbandonedSettles`), and the line about its result is written then (`late`).

### Managing monitors

**ApiErrors** is the table from status and route to the kind of an error, and what
the command line concludes of it (`RefusesEverything`, `RefusesEveryCreate`).

**ApiSession** is a session of the management client. `Call` composes a request;
`TryAgain` is the head of the retry loop; `Answered`, `Lost`, `TimedOut`, `Abort` and
`Resume` are the places it goes on from. A request lives on without its caller:
`Reach`, `Execute`, `Refuse` and `Gateway` are the service's, external, with its
record of idempotency keys (free, running or done: a key that is done is answered
again as it was, one that is running is refused with a 409, and the record of a
create nobody is listening for may be left running). `Lost` is a connection that failed,
which is tried again, or a response the transport could make nothing of, which is not.
The budgets of a session are seconds, and no key expires within one.

**Listing** is `offsetWalk` and `cursorWalk`. Rows are numbered as they are made;
`OffsetPage` and `CursorPage` read a page of the account as it is then, and
`MakeRow`, `DeleteRow` and the order of rows of one second are somebody else's.
`advances` is whether the service heeds where a page is to begin.

**SyncPlan** is the plan with no state: `RowFor` a definition, `OrphansIn` an account,
the resolution of channels, the fields an update sends, the key of a create.
**Sync** runs it: `ListChannels`, `Plan`, `CreateRow`, `PassCreateOver`, `UpdateRow`,
`EndRows`, `Confirm`, `DeleteRow`, `EndPrune` for each run, next to `SomeoneEdits` and
`SomeoneUnverifies`. A request of Sync is a whole call of the session, with three
ends: done, done and reported as failed, refused. ApiSession is where it is shown
that there are no others worth telling apart.

The service remembers a create (`stored`) for 24 hours after it was answered
(`api/constants.ts`, `API_IDEMPOTENCY_RETENTION_HOURS`; `src/README.md:1099`). Sync has no
clock, and nothing bounds how far apart two runs are or how long a plan waits for its
confirmation: `KeyIsSwept` forgets any create at any moment, and one that comes after it under
the same key executes again. A create whose key is still pending, for 60 seconds at
most, is refused with a 409 (`"conflict"`): its first request may be another run's, or an
earlier attempt of its own, whose monitor is made all the same. `lapsed` remembers whether a
create was forgotten that a run had planned and not yet sent.

**EnvFile** is the secrets file as a sequence of assignments with a kind and a
mode. **Onboarding** has a signup and an init on it: `SignupBegins` to
`SignupChecks`, `InitBegins` to `InitTests`, and the saving they share, in three
steps that may each be the last (`Reads`, `Writes`, `Renames`, and `Killed`). A person
edits the file in between. Unlike a sync, these are minutes at a terminal: a key of init is not
forgotten here, so what is shown of two inits holds within the day the service keeps it.

### What keeps no state

**Schedules**, **Definitions**, **Wiring**, **Lookup**, **Excerpt** and
**RetryAfter** are operators: the three readings of a schedule (sync, client,
adapter); a definition on its way to the service and back; `wireMonitor` and the
survey of NestJS; names and variables in both directions; the ring of bytes, its cut
and the secrets replaced in it; seconds and dates. A secret is an anchor and the
material behind it, which stand for all the patterns: what makes redaction hard here is
that a match may go on in the next chunk, may be cut by the ring, and changes the
length of what it is cut from. **Cases** asks them one question after another and states
what their answers owe each other. What the service does with a body is external
there (`Stored`: what was sent, its defaults for the rest, its own spelling of UTC).

## The runs and what they show

| Run | Distinct states | Properties | Shows |
|---|---|---|---|
| `transport` | 50,995 | `ReportIsHonest`, `SendsWhenItMay`, `KeepsPromise`, `Settles` | Whatever the network, timers and caller do: cancellations are reported and only where asked for, a stated 503 is not lost to the next deadline, the attempts reported are the requests made; retries are spaced as the service asked, nothing leaves late or after a cancellation, the call is over by its budget plus two late timers; `send()` settles over a transport that never does, and it implements `CheckIn`. |
| `client` | 547,898 | `SaidOnce`, `FlushCovers`, `FlushReturns` | Two runs of two monitors, ended in any order any number of times, and one flush: one terminal check-in per run, each cause printed once for each monitor, a flush covers what was dispatched before it and returns although nothing in flight ever settles. |
| `bracket` | 788,009 | `ReportsAreTrue`, `OneBracketDispatched`, `SettledBeforeExit`, `RunsEnd` | Three executions overlapping in any way under an adapter attached and detached at any moment: a run reports failure exactly when one of its executions threw, with the first error, not before they all ended; where listeners came late, the damage is one execution for each end whose beginning was missed; one run in the bracket at a time; a process that exits after its executions returned, or after a flush, outruns nothing, whatever its executions were doing when the flush was asked for; every run started is ended, unless the listeners that would hear of it were taken off, and the flush of an adapter returns. |
| `bullmq` | 142,947 | `OutcomeIsReported`, `NoFalseAlarm`, `StartsDoNotInterleave` | A scheduled job and one added by hand, two attempts, one stall, one processor or two: completion and failure are reported before the queue learns of them, a job that never stalled is reported failed only on its last attempt, one-off jobs are left alone unless allowed, start check-ins are withheld where runs may interleave. |
| `run_command` | 1,080,906 | `RunIsToldTrue`, `NothingIsCutShort`, `GoneCommandsAreLeftAlone`, `ProcessEnds` | The invocations that differ, their events in every order: the status handed back is the command's, the check-in agrees with it, a delivery that was not cut leaves nothing in flight, the drain budget does not run while a reader is behind and the process does not exit over a write it owes one; a command that exited is neither timed out nor killed; the process ends, with the service out or not. |
| `management` | 779,740 | `NothingTwice`, `ToldTheTruth`, `ReadingIsCurrent`, `CallsEnd` | Two calls side by side over a network that loses answers: a rotation, a test or a create is done once, whatever is retried; a success was carried out and a refusal of a first attempt was not; a rate-limit reading is never older than what was known when its request left; nothing leaves for a caller who aborted, and each call is over by its budget. |
| `listing` | 73,922 | `OffsetWalkIsExplained`, `CursorWalkIsExact`, `WalkEnds` | Walks of an account that changes between two pages: by offset no row twice and, unless two rows of one second changed places, no more of them missed than were deleted meanwhile; by cursor exact; a cursor that is ignored is noticed on the second page; every walk ends. |
| `sync` | 324,430 | `OneOfAName`, `AppliedMeansConverged`, `RunsReturn`, `NothingUnearned`, `NothingUndone` | Two runs at any distance, another writer, lost answers, listings that miss a monitor, creates the service forgets: of the monitors of a name one at most is one whose create the service still remembers, and while no listing missed one and no create was forgotten under a plan that would repeat it, one at most is made; a run with status 0, on those terms and an account nobody else touched, left nothing to do; nothing is deleted before every row has landed; an update moves the fields that differed and no other, and silences nobody; a refused account is left alone; both runs return. |
| `onboarding` | 742,875 | `KeysAreAccountedFor`, `MonitorsAreAccountedFor`, `PollsKeepTheirDistance`, `NothingIsOverwritten`, `SignupReturns` | A signup and an init, or two inits, with a person at the file and either killed at any step: a key that arrived is kept or printed, one that did not is said to be lost; one monitor for one request; polls no sooner than asked and none past the code; other people's lines stay, but for one written between a command's reading and its rename, and the file stays private; a signup returns. |
| `cases` | 26,974 | `SettingsAgree`, `WiringIsAllOrNothing`, `NamesAgree`, `OutputIsReadable`, `DatesAgree` | What sync takes goes through the client, comes back as it was and is wired by the adapters; a registry is monitored whole or not at all; a monitor has a variable of its own and doctor lists it under the name that resolves; the excerpt is the end of the output with its secrets replaced, and a body one end of what it was made of, both in whole characters; the spellings of a date agree. |

Two more runs, `transport_budget` and `bullmq_retry`, each show one disagreement,
listed further down.

### Bounds

- `transport`: a budget of five units with a floor of one, a cap of three and headers
  that state nothing, two, or nine: a pause at the floor, one between floor and cap,
  and one that is capped, with budgets they fit in and budgets they do not. Three
  attempts are the fewest with a retry after a retry, so that an answer held from
  the first can meet the fate of the third; a lag of two lets a late timer spend the
  rest of the budget.
- `client`: two monitors for a warning of one to silence the other, and two runs for
  a flush to cover one and not the other.
- `bracket`: three executions, two to overlap and one to open the next run, or to end
  unbegun while two are open; two runs, so that a third `startRun` throws.
- `bullmq`: two attempts and one stall for each of the queue's ways to hand a job out
  again, and both together; three reports, which one job can make by itself.
- `run_command`: two streams with one write each, so that both readers can be behind
  at once, and one signal. Of the invocations, those that differ in what they can
  meet: with and without a deadline, an escalation, a group of its own, and with a
  monitor that is refused or arguments that cannot be read. An excerpt only adds a
  second pipe to tee, which is what the deadline and the drain meet and not the check-ins:
  one invocation with a monitor takes it and every bounded one without, where there is
  nothing to deliver.
- `management`: two calls, two attempts each, a budget of two units, one key: a retry
  that meets the first request still running, the other call's under the same
  key, and the end of the budget. A create, a rotation and a delete stand for the three
  ways a route may be retried.
- `listing`: five rows in pages of two, two of them of one second, two numbers for rows
  that are made, and three changes, so that a page boundary falls inside each and a
  deletion can move a row past it twice; a cap of five pages, which a service that does
  not advance reaches. The service may answer by offset with pages of one, where two were
  asked for.
- `sync`: two runs of one configuration with one change by others; configurations and
  accounts are picked so that a create, an update, a row that is left alone, an orphan, two
  monitors of one name and two channels whose labels are each other's identifiers all
  occur, and any listing may miss one monitor. Two rows and an orphan together are left
  to the proofs. A create is forgotten at any moment after it was
  answered: the day the service keeps it for may be over between any two steps.
- `onboarding`: a code that lives for three seconds, a pause of two after a refusal and
  polls that may take one: a wait that fits, one that does not, and a poll that
  is answered as the code runs out. One edit by a person.
- `cases`: inputs on both sides of every bound and distinction; the ring and the body
  are scaled down to a few bytes, with the ring's slack still smaller than a
  write can be; a secret of no more bytes than the ring's reach, alone or one of two, in
  front of, across and behind a cut, and shorter or longer than what replaces it; the
  largest wait is what 32 bits can count past.

The proofs have no bounds: what the runs show of safety holds for every value of the
constants, but for `OutputIsReadable` of `cases`.

### Fairness

Transport assumes that the runtime runs what it queued and fires due timers, and
nothing of the network: `fetch` may hang for ever, which is why the deadline exists.
The client assumes that a flush whose wait is over is resumed and that its timer
fires. Adapters assumes that executions end, that every check-in settles, which is
what `Settles` says of one, and that what awaited it is resumed; nobody is assumed
to attach, to detach or to flush. RunCommand assumes that events are delivered,
timers fire, SIGKILL ends a command that may be signalled, and a reader that is behind
reads on or goes away; the service may be out and the command may never end. ProcessExit
adds the timers of the exit, and assumes nothing of what else holds the loop.
ApiSession assumes the clock, the timer of an exchange and the end of a pause; the
service owes it nothing. Listing assumes that the caller goes on asking and that a
page settles, which is what `CallsEnd` says of one. Sync assumes the same of its
requests. Onboarding assumes the clock and the steps of a signup that is alive; an init
waits for a person and is not assumed to return. The schedulers, the callers, the
queue, the person and whoever sends signals are never assumed to act.

## What is proved

`TransportProofs` proves for every timeout, attempt limit, floor, cap, lag and set of
stated waits, from the five assumptions of `Transport` (positive timeout and
attempts, `0 < Floor <= Cap`, natural numbers):

| Theorem | Establishes |
|---|---|
| `TypeCorrect` | `TypeOK` |
| `ReportsAreHonest` | `ReportIsHonest`: `TypeOK`, and what is reported is what happened |
| `BudgetIsKept`, `NothingLeavesAfterTheBudget` | `Punctual`, `NothingLeavesLate`: one budget for the whole call |
| `CancelledCallsSendNothing`, `ServiceIsLeftAlone` | `CancelledCallsStop`, `RetriesAreSpaced` |
| `SendsOnlyWhenItMay` | `SendsWhenItMay`, which is the four above |
| `SendKeepsItsPromise` | `Transport` implements `CheckIn` |

None of the properties is inductive. The invariant `IInv` adds to `TypeOK`: how many
attempts and requests there have been where the call stands (`CounterInv`); that
`stoppedBy` is `caller` in a suspended attempt exactly when the signal is aborted and
that this reached it before its deadline (`StopInv`); what `answered`, `stated`
and `pause` hold of the attempt that settled last, and that the pause is the one the
service is owed (`HeldInv`); and where the clock can be relative to the armed
timer and the budget (`TimerInv`). The reports are decided in the step that
finishes the call, so `IInv` implies them where `pc = "done"`. The proof has a step for
each action. `PauseIsOwed` is the one arithmetic lemma: what `DelayAfter` computes
from a header is what the service is owed, whatever the header says. The
refinement maps a request in flight to `pc \in {"dispatched", "reading"}` and the answer
heard to the settled attempt's, or to the one carried over from an earlier attempt;
`IInv` is what makes a finishing step a `Conclude`.

Its second half is about the readings, for any definitions, pages, registries,
variables, dates and moments:

| Theorem | Establishes |
|---|---|
| `SettingsComeBack` | `SettingsAgree`: a definition comes back from its body, and from the service, as it was taken; a channel that is sent has every destination its kind needs; a page is read whole or not at all |
| `WiringsAreWhole` | `WiringIsAllOrNothing`: where one job would be refused nothing is wrapped, otherwise every job is accounted for once; a schedule that goes through is one the service takes, read from the text the scheduler goes by |
| `NamesLeadToOne` | `NamesAgree`: each monitor's variable is no other's, and what doctor lists under a name, that name resolves to |
| `DatesAskForOneWait` | `DatesAgree`: the spellings of a date ask for one wait, none beyond the maximum and none if it is past, and the next day of the calendar is a day later |

A question has one answer and is then forgotten, so the invariant is the definition of the
answer (`AnswersAre`), and the work is in the lemmas about the operators. `DatesAgree`
needs the calendar: that the table of month starts counts the days of each month, in
leap years too. The assumptions say what the inputs are made of (`VariablesAssumption`,
`SettingsAssumption`, `SchedulesAssumption`, `DatesAssumption`). The last has a limit:
two digits are read as a year of this century, or of the last one if that would be
more than fifty years ahead (`transport/retry-after.ts:46`), so that a year from 49
back to 50 ahead is read as it was meant for a now from 1949 to 2049.

`PingClientProofs` proves for any runs, monitors, sinks, outcomes and callers of
`flush`, with no assumption about them: `ClientTypeCorrect` (`ClientTypeOK`),
`WhatIsSaidOnce` (`SaidOnce`, from `RunsEndOnce` and `EachFailureIsSaidOnce`) and
`FlushCoversWhatCameBefore` (`FlushCovers`). Its invariant `CInv` makes them
inductive: the tracked set is what is in flight (`Typed`); a terminal check-in that was
sent is the one its run memoised (`Ended`), which is why a second call finds the memo
set and sends nothing; what a flush has to cover it waits for or had settled
already, and settlement is for good (`Covered`); the ledger is the failures reported,
each printed once (`Spoken`). `DispatchStep` is shared by every way of sending a
check-in. These theorems are about a client used by itself (`ClientSpec`); the modules
that compose it call `Call` with a terminal action or warn of other things. What they
need of it they take from the lemmas `DispatchTracks`, `SettleTracks` and `FlushTracks`
(what is tracked is what is in flight, and a flush covers what came before, whoever
sends) and prove the rest again.

`RunCommandProofs` proves for any invocation, any finite set of streams, any number of
writes and signals, and a command that may refuse them: `RunsAreToldTrue` (`RunIsToldTrue`),
`NothingIsEverRushed` (`NothingIsRushed`) and `GoneCommandsStayAlone`
(`GoneCommandsAreLeftAlone`). The invariant `RInv` says what the flags of `execute` know:
an exit that was seen is of a command that is dead and has disarmed everything but the
drain, and the drain is armed only then and with no stall (`Timed`); the stalls are
counted as they are (`Teed`); the status is decided when the execution is over and
not touched again (`Decided`); which check-ins were sent at each stage, which
is what ties the terminal one to the status (`CheckedIn`); and that what is in
flight after the delivery is what the flush waits for (`Awaited`). `ExecutedStep` is shared
by the four ways an execution ends. Of the client it uses `Core`, the part of
`CInv` that does not depend on how a run is ended, and its lemmas `DispatchCore`,
`SettleCore` and `FlushCore`: the wrapper ends its run through the direct methods and
not through the object `startRun` returns.

Its last section takes them to the end of the process. `ExitsAreRuns` shows that
`ExitSpec` implies `Spec`: the exit changes nothing of the run's but that a check-in it had
given up on may still settle, which is a step of the run's too. `HoldsForWrites` is the
invariant behind it (a process that finishes and owes a write that was queued when it
recorded its status has the timer that holds it armed, so neither the loop nor the linger
can end it), and
`NothingIsEverCutShort` puts it together with `NothingIsEverRushed`.

`AdaptersProofs` proves for any finite set of executions, any nonempty set of runs
numbered from above 0, any callers of `flush`, and an adapter attached and taken off at
any moment, once or for good:

| Theorem | Establishes |
|---|---|
| `OneRunAtATime` | `OneBracketDispatched`: a run is started only when the one before was ended |
| `ReportsAreAlwaysTrue` | `ReportsAreTrue`: failed exactly if an execution of it threw, with the first error, and not before they had all ended; with strays, off by no more than there were of them |
| `SettledBeforeAnyExit` | `SettledBeforeExit`: the last execution returns after the check-in has settled, and the adapter's flush covers what came before |

The invariant `AInv` ties the bracket's four variables to the executions themselves. The
open count is compared with what has been heard (`Heard`): it is the number of
executions running while no end was heard without its beginning, and each of those takes one
off at most. Runs are started in order, and the one that is not ended is the one in
progress (`Ordered`); its members are the executions heard while it was, and those
running when it ended were written down then (`Spanned`); who threw first is the
remembered failure until the run is ended, and its reported cause after (`Blamed`). The finite
set is needed because the code counts: of infinitely many executions, no count is one.

`BullMqProofs` proves for any jobs, attempts, stalls, wirings and reports and a
finite set of workers: `OutcomesAreReported` (`OutcomeIsReported`), `NobodyIsAlarmedFalsely`
(`NoFalseAlarm`) and `StartsNeverInterleave` (`StartsDoNotInterleave`). What makes them
inductive in `BInv` is bookkeeping the adapter never sees: an attempt that was started
has failed, was taken back, or is at hand (`Counted`); one worker at most has the
claim to a job, and it is the one that was handed it last (`Claimed`); each worker's
report is its own and is as far as the worker is (`Reporting`); so the attempt
number the adapter reads is the true one on a job that was never taken back (`Final`),
which is where the disagreement `bullmq_retry` shows begins.

`ManagementProofs` proves for any calls, attempts, keys, budgets, delays and callers who
abort: `NothingIsDoneTwice` (`NothingTwice`), `CallersAreToldTheTruth`
(`ToldTheTruth`), `ReadingsStayCurrent` (`ReadingIsCurrent`), and `CallsArePunctual` and
`NothingLeavesAfterAnAbort`, the two parts of `CallsEnd` that are not liveness. The invariant `IInv`: one request for each
attempt, and one in all for what may not be repeated (`Composed`); a call is carried out no
more often than it has requests that are gone (`Counted`); while a request runs under a
key no other does and none has been carried out, and once one has the key is not free again
(`Keyed`); an answer that says yes is to a request that was carried out, even when it is heard
much later, and one that says no to a request that never will be (`Heard`); a
reading was given after its request left (`Fresher`). A request outlives its caller, so none
of this can be read off a call alone.

For any rows, finite account, page size, cap and number of changes, and rows of one second
that stand in either order, it proves of the walks `OffsetWalksAreExplained`
(`OffsetWalkIsExplained`) and `CursorWalksAreExact` (`CursorWalkIsExact`). The invariant
`WInv`: the account is what it was at first, less what was deleted, and what was made
(`Kept`); the offset is within the pages that were read (`Paced`); the rows a walk by
offset has gone past unseen are no more than were deleted, since only a deletion moves
a row towards the front (`ByOffset`); a walk by cursor has handed out, once, the rows no older
than its cursor (`ByCursor`); and a cursor that is ignored comes back as the one it was
(`ByIgnoredCursor`). A page is cut from a sorted account, and the account is sorted by how
many rows are newer than each, which is what the lemmas count: no position is
shared, and a row that was there is either before the offset or among the rows to come. A
page may be shorter than was asked for, and is the last one when it is not filled to the size
the service answered with.

`OnboardingProofs` proves for any number of signups and inits side by side, any secrets
file and account to begin with, any intervals, lifetimes and pauses, any edits, and
whichever commands are killed:

| Theorem | Establishes |
|---|---|
| `KeysAreNeverLost` | `KeysAreAccountedFor`: a key handed over is kept, printed, or said to be lost |
| `PollsAreSpaced` | `PollsKeepTheirDistance`: no poll sooner than asked nor past the code |
| `OthersKeepTheirs` | `NothingIsOverwritten`: only the command's own line goes, and what came after its reading |
| `MonitorsAreMadeOnce` | `MonitorsAreAccountedFor`: one monitor for one request, and a status 0 that is true |

Most of `OInv` is about one command by itself (`Sound`), which is why any number of
them can be treated alike: where it can be when it holds its key and what it has told when
it does not (`Keeps`, `Loses`), that the wait it armed is the one asked for or ends
with the code (`Waits`), that what it is about to rename is the file as it read it, and
that signup asked about the destination first (`Saves`). What relates the commands is the
account: a monitor one of them made is the one its idempotency key stands for (`Made`),
which is all that keeps two creates apart (and does for the day the service keeps the key, in
which one command or its repetition is assumed to end), and a command about to make a monitor its
listing did not miss was only overtaken (`Ahead`). `UpsertKeepsOthers` is the lemma about
`upsertEnvLine`: a line that is lost assigned the same variable. The assumptions say what
a command and a file are (`SetupsAssumption`, `FilesAssumption`: nothing there has no lines
and is open to nobody).

The proof found a case the run is too small for. `signup` asks about the file and
later reads it. If it is opened to others in between and put back to what it was
before the rename, the key is written with the mode it was read with, and is open
to others, although the file signup replaces is the one it asked about. So
`SignupIsHarmless` speaks of a file that was also read as it was asked about: the checks
at the destination are as good as the file is still.

`SyncProofs` proves for any number of runs of sync side by side, any configurations that
name no monitor twice, any account, channels and flags, listings that miss a monitor,
answers that are lost, refusals of any kind, and changes by others at any moment:

| Theorem | Establishes |
|---|---|
| `OneMonitorOfAName` | `OneOfAName`: of the monitors of a name one at most is one whose create the service remembers, and one at most is made while no listing missed one and no create was forgotten under a plan that would repeat it |
| `DeletionsAreEarned` | `NothingUnearned`: a deletion waits for every row of the run, and a refusal of the account ends it |
| `NothingIsUndone` | `NothingUndone`: an update moves what differed and is managed, and nothing is silenced unasked |
| `AppliedRunsConverged` | `AppliedMeansConverged`: a run with status 0 has left the account as its configuration describes it, on the same conditions and with nobody else at it |

The lemmas come first, about the plan: a row says what its definition asks for, moves
fields the definition manages and no other, and reaches somebody unless the definition
says that nobody is to hear of it (`RowIsSound`); a plan has a row for each definition and
one for each orphan, and no other (`PlanIsSound`). `SInv` is about one run at a time
(`Ready`), so that a step of one run leaves the others what they were (`StepKeeps`): its
rows are those of such a plan (`PlannedFor`); while nothing has failed, each definition
has landed or has a row to come, and a run that asks to prune has landed them all
(`AppliedTo`). What lets a plan go stale and stay sound is in `Keeps`, which every step does
and every other client too: an identifier is never given again, a monitor is not renamed,
and a channel can only stop being verified, which is no part of a request. So a create
is made under the key of the definition however old the plan is, and a monitor whose create
the service remembers is the one its key stands for (`Made`); two of one name would have one
key. That is half of `OneOfAName`, and holds whatever was missed. The other half is
the listing's, and needs an invariant of its own (`Alone`): a monitor that was made is the
only one of its name that was, and while a run has a create of that name to come, its key
is not forgotten. A plan made of a complete listing asks for a create only where there is no
monitor of the name, and what is made or forgotten after that is what `Alone` follows.
Others in the model edit zones and channels, delete, and unverify; a rename would make
`OneOfAName` false of the code as well, and so would a channel that is renamed between two
runs, since the key is of the request it resolves to.

That a run has converged is about the account, so it needs an invariant of its own, `CInv`,
which says nothing once others have changed the account, a listing missed a monitor or a
create was forgotten under a plan that would repeat it. `Settled` is what a plan leaves alone (`RowTells`): one monitor of the name, no field
of it other than defined, and channels that reach somebody. A row that is to come settles its
definition whatever other runs of the configuration do before it (`Coming`): a create,
because either there is none of the name or its key is answered with one that is as
defined (`KeysStand`); an update, because what it carries is all that may differ. What has
landed stays settled, and what is left of the orphans is among those the run is about
to delete (`Converging`). The steps of other runs keep all of this because they are `Gentle`:
a create, an update or a deletion off rows of the same configuration takes no monitor from a
definition that has one. The status is 0 only where no row failed, so each has landed, and
none of the orphans was left.

Stating the plan for the prover showed that `RowFor` and five operators of the reading
modules had been written as a `CASE` whose arms overlap: TLC takes the first, and TLA+ any.
They are written as the chains of `if` they are in the code.

Model-checked and not proved: `OutputIsReadable`, which is about what the folds of
`Excerpt` compute over outputs of every length and needs an induction over the data, and
liveness under fairness (`Settles`, `FlushReturns`, `RunsEnd`, `ProcessEnds`, `WalkEnds`,
`RunsReturn`, `SignupReturns`, and of `CallsEnd` the part that is not `Punctual` or
`CancelledSendsNothing`). Both stay with TLC for good: the prover's library states induction
for an operator it cannot be given, and it has no rule for `ENABLED`.

## Where the code and its documentation disagree

| Run | The documentation | The code |
|---|---|---|
| `transport_budget` | A 5xx already heard comes back when the budget runs out (`src/README.md:211`). | Only a 503 that stated a wait survives the deadline of a retry that hangs; a 500 is lost to a timeout (`transport/send.ts:529`). |
| `bullmq_retry` | A failure is reported once the attempts are exhausted, and not before (`src/README.md:475`). | A job taken back from a stalled worker counts an attempt that was not made, so its first failure is reported as final and then retried (`integrations/bullmq.ts:77`). |

Others were met while modelling and have no run of their own. The models behave as
the code does, and the properties say no more than the code keeps:

- Two runs in flight would interleave (`integrations/run.ts:62`); `settle` frees the
  bracket before its terminal check-in has landed, so the next start can reach the
  service first (`integrations/run.ts:108`). `OneBracketDispatched` is about dispatch.
- 126 is a spawn that failed (`src/README.md:581`); a signal the command refuses is
  reported as a failed start while the command runs on (`cli/run.ts:452`). `StatusIsHonest`
  allows for `refuses`.
- Forwarding stops when there is nothing left to forward to (`cli/run.ts:350`); between
  exit and the end of the output the listeners are still on (`cli/run.ts:336`).
- The wrapper does not wait on what a grandchild holds open (`cli/run.ts:473`); each
  stall of a slow reader rearms the whole drain (`cli/run.ts:435`), so an endless writer
  behind a slow reader holds the wrapper. The run has `Endless` empty.
- A later cut of the ring can only split the replacement of a secret, never a secret
  (`cli/stderr-tail.ts:81`); of two long secrets close together at the live end, one that
  is not settled yet can be cut when the budget is smaller than the reach. The excerpt
  of a run has some ten thousand bytes, far above it; `ExcerptIsTheTail` speaks of several
  secrets only for budgets of `Reach + 18` bytes and more.
- A monitor is listed by doctor under a name that resolves (`cli/doctor.ts:171`); a name
  cannot be recovered from a variable with two underscores in a row or lower case in
  it, and an identifier under the legacy prefix is listed though a variable of the
  new prefix that is set and blank is read before it. `ListedNamesResolve` excepts
  both.
- An idempotency key keeps a repeated sync from a second monitor (`src/README.md:1099`);
  it does while the configuration is the same, since a definition edited between the two
  runs has another key, and for the 24 hours the service keeps it (`src/README.md:1100`),
  after which the create is made for real and the listing is the only defence.
  `OneOfAName` states both halves, each on its condition.
- A line that is still buffered when the command returns is written out before the process
  exits (`cli/exit.ts:40`); one about a check-in that was given up on and settles after that
  (`cli/run.ts:607`) finds the decision taken, and may be lost.
- A secrets file that assigns a variable twice has only the first assignment replaced
  (`cli/env-file.ts`), where the last one counts for most readers of such a file.

## What is not modelled

- Text: what a secret looks like (the patterns of `redact.ts`), sentences, help pages,
  labels for printing, the characters of a header, a URL or an identifier. Where an
  outcome depends on them, the parsed value is a member of a set.
- In `send()`: the release of a body that is not needed (`releaseBody`, bounded by a timer
  of its own and by the deadline: it is part of the time a settled attempt may take),
  the byte cap of a body, a host object that throws while it is read.
- In `cronheart run`: Windows, where there are no process groups; argument parsing.
  `InterruptDelivery` and `BudgetFires` abandon the delivery: what is in flight then may
  settle before the process ends or be lost with it, and no property says which.
- In the adapters: a host's client whose `success` or `fail` throws instead of returning a
  promise, and a registry of NestJS that throws while its jobs are being wrapped.
- In BullMQ: the warnings about dialect and concurrency. In NestJS: the module its
  container builds.
- In the management client: problem bodies, account and usage endpoints, and what is
  read of a rotated secret; snooze, pause and resume are requests like any other. Of two
  requests that are under way at once, the one answered last leaves its reading though it
  may be the older, as in the code: `ReadingIsCurrent` speaks of what was known when a request left.
- In sync: the report printed, the loading of a configuration file. What `NeverSilenced`
  judges by is the channels as the run read them: of one that is unverified after that the
  run cannot know. In signup: a poll answered with 200 and a body that cannot be read, and
  the cap of its timer, which only a code that lives for weeks would meet. In init: the questions beyond their
  answers. In doctor: the clock skew, and stems of variables that are shaped like identifiers.
- In the process: which command `cli.ts` picks. How much Node's streams still hold is not
  the code's own state: in ProcessExit they owe something or nothing.
- `ping`, `help`, the base URL policy, the testing helpers, the contract tooling and the
  release scripts keep no state and are left out for good.

## Plan

The models have reached every part that keeps state, and what they state of safety is
proved, but for the excerpt. What a change of the code asks for first is the map in
`PROJECT.json`: the definitions that stand for the lines it touches, their run, and then
the lemma about the action (one for each action in every proof module).
