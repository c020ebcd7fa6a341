------------------------------- MODULE Cases ------------------------------
(***************************************************************************)
(* The parts of the package that keep no state, asked one question after   *)
(* another: what sync, the client and the adapters make of a definition,   *)
(* a page of the service's, the jobs of a scheduler, an environment, a     *)
(* command's output, a Retry-After.                                        *)
(***************************************************************************)
EXTENDS Definitions, Wiring, Lookup, Excerpt, RetryAfter

CONSTANTS
  MonitorDefinitions,  \* definitions of a configuration file
  ListedIds,           \* identifiers as the channels listing reports them
  Defaults,            \* what the service fills in: [field -> value]
  ChannelRequests,     \* [kind, label, given]
  Pages,               \* [listing, page, rows]
  Givens,              \* what a scheduler may be given
  Registries,          \* sequences of jobs
  Variables,           \* variables of an environment, in order
  Environments,        \* [range of Variables -> values]
  Names,               \* [name, shape]
  NameLists,           \* the names of a configuration
  Outputs,             \* [chars, cut, chunk, budget]
  Dates,               \* [year, month, day, second]
  Now                  \* [day, second, year]

\* A variable is of the one prefix or of the other.
ASSUME VariablesAssumption ==
  \A i \in DOMAIN Variables :
    /\ Variables[i] = <<Variables[i][1], Variables[i][2]>>
    /\ Variables[i][1] \in {"CRONHEART", "CRON_MONITOR"}

\* The words a text is told apart by: no unit and four, two aliases the service
\* knows and one it does not, one of its tokens, any other word.
Words == {"", "s", "m", "h", "d", "@hourly", "@daily", "@reboot", "hourly", "soon"}

ScheduleTexts == [as : {"fields", "alias", "every", "simple", "other", "empty", "number"}, word : Words,
          fields : Seq({"any", "cron", "word"}), foreign : BOOLEAN, count : Int,
          padded : BOOLEAN, long : BOOLEAN]

\* A schedule is made of texts, none of which is Undefined; a listed identifier is
\* digits; the service has a value for every field; a page's rows are a sequence.
ASSUME SettingsAssumption ==
  /\ \A d \in MonitorDefinitions :
       LET schedule == d.schedule
       IN  /\ schedule.given \in {"text", "object", "nothing"}
           /\ schedule.given = "text" => schedule.of \in ScheduleTexts
           /\ schedule.given = "object" => \A m \in DOMAIN schedule.of : schedule.of[m] \in ScheduleTexts
  /\ Undefined \notin ScheduleTexts \cup {"cron", "interval", "simple"}
  /\ \A i \in DOMAIN ListedIds : ListedIds[i].digits
  /\ {"name", "kind", "expr", "tz", "grace", "reminders"} \subseteq DOMAIN Defaults
  /\ \A p \in Pages : DOMAIN p.rows = 1..Len(p.rows) /\ Len(p.rows) \in Nat

\* A mapping names a monitor, leaves a job out or says nothing, and a callback can
\* be got at or not; a schedule comes with a text, which nobody reads of a date.
ASSUME SchedulesAssumption ==
  /\ \A jobs \in Registries : \A i \in DOMAIN jobs :
       jobs[i].mapping \in {"monitor", "left out", "nothing"} /\ jobs[i].reachable \in BOOLEAN
  /\ \A given \in Givens :
       /\ given.expression # Absent
       /\ {"as", "word", "padded"} \subseteq DOMAIN given.expression
       /\ given.shape \in {"text", "object", "date"}

\* A date is read in the years of which two digits name one: up to fifty years
\* before 2100.
ASSUME DatesAssumption ==
  /\ Dates \subseteq [year : Int, month : Int, day : Int, second : Int]
  /\ Now \in [day : Int, second : Int, year : 1949..2049]

VARIABLES asked, answer

caseVars == <<asked, answer>>

Nothing == [of |-> "nothing"]

CaseInit == asked = Nothing /\ answer = <<>>

-----------------------------------------------------------------------------
(* The bytes of a text: each character its lead and what continues it.      *)
BytesOf(chars) ==
  FlattenSeq([i \in DOMAIN chars |-> [k \in 1..Width(chars[i]) |-> IF k = 1 THEN chars[i] ELSE 0]])

\* The last bytes of a character may not have been written yet.
Written(out) == LET bytes == BytesOf(out.chars) IN SubSeq(bytes, 1, Len(bytes) - out.cut)

\* What is written arrives in reads of `chunk` bytes and a shorter last one.
ChunksOf(out) ==
  LET bytes == Written(out)
      Least(i, j) == IF i < j THEN i ELSE j
  IN  [i \in 1..((Len(bytes) + out.chunk - 1) \div out.chunk) |->
         SubSeq(bytes, (i - 1) * out.chunk + 1, Least(i * out.chunk, Len(bytes)))]

Spelled(date, form) ==
  [form |-> form, month |-> date.month, day |-> date.day, second |-> date.second,
   year |-> IF form = "rfc850" THEN date.year % 100 ELSE date.year]

Ask(of, question, said) ==
  /\ asked = Nothing
  /\ asked' = [of |-> of, it |-> question]
  /\ answer' = said

AskDefinition == \E d \in MonitorDefinitions : Ask("definition", d, Defined(d))

AskChannel ==
  \E r \in ChannelRequests : Ask("channel", r, ChannelBodyFrom(r.kind, r.label, r.given))

AskPage == \E p \in Pages : Ask("page", p, PageFrom(p.listing, p.page, p.rows))

AskJobs == \E jobs \in Registries : Ask("jobs", jobs, AttachAll(jobs))

AskWiring ==
  \E adapter \in {"croner", "cron", "node-schedule", "node-cron", "nestjs"}, given \in Givens :
    LET facts == FactsOf(adapter, given)
    IN  Givable(adapter, given) /\ Ask("wiring", [adapter |-> adapter, given |-> given],
            [wires |-> Wires(facts, TRUE), advises |-> AdvisesOnZone(facts)])

AskEnvironment ==
  \E env \in Environments : Ask("environment", env, ConfiguredMonitors(Variables, env))

AskRepeats == \E names \in NameLists : Ask("repeats", names, Repeats(names))

AskOutput ==
  \E out \in Outputs : Ask("output", out, TextOf(Held(ChunksOf(out), out.budget), out.budget))

AskDate ==
  \E d \in Dates : Ask("date", d, [form \in {"fixdate", "asctime", "rfc850"} |->
                                     ParseRetryAfter(Spelled(d, form), <<Now.day, Now.second>>, Now.year)])

\* The next question is asked.
Forget ==
  /\ asked # Nothing
  /\ asked' = Nothing
  /\ answer' = <<>>

CaseNext ==
  \/ AskDefinition
  \/ AskChannel
  \/ AskPage
  \/ AskJobs
  \/ AskWiring
  \/ AskEnvironment
  \/ AskRepeats
  \/ AskOutput
  \/ AskDate
  \/ Forget

CaseSpec == CaseInit /\ [][CaseNext]_caseVars

Asked(of) == asked.of = of

-----------------------------------------------------------------------------
Fields == {"name", "kind", "expr", "tz", "grace", "reminders"}

\* What sync takes of a configuration goes through the client that sends it, a
\* whole create and an update of any of its fields, and comes back from the
\* service as it was taken: the next run of the same file finds no difference
\* that this one made, and the adapters wire the schedule it holds.
DefinitionsReadBack ==
  Asked("definition") /\ answer # Refused =>
    LET request == CreateRequestFor(answer, ListedIds)
        body    == MonitorBodyFrom(request, FALSE)
        row     == Stored(body, Defaults)
        again   == [given |-> "object",
                    of |-> [m \in {answer.kind} |-> answer.expr]]
    IN  /\ body # Refused
        /\ \A f \in Fields : answer[f] # Undefined => row[f] = answer[f]
        /\ NormaliseSchedule(again) = [kind |-> answer.kind, expr |-> answer.expr]
        /\ answer.kind = "cron" => CronDialectTakes(answer.expr)
        /\ \A S \in SUBSET Said(request) :
             LET part == [f \in DOMAIN request |-> IF f \in S THEN request[f] ELSE Undefined]
                 sent == MonitorBodyFrom(part, TRUE)
             IN  sent # Refused /\ DOMAIN sent = S

\* A channel that is sent has every destination its kind is reached by.
ChannelsAreReachable ==
  Asked("channel") /\ answer # Refused => NeededBy[asked.it.kind] \subseteq DOMAIN answer

\* What sync goes by in a row it reads.
Compared ==
  [monitors |-> {"uuid", "name", "schedule_kind", "schedule_expr", "tz", "grace_seconds",
                 "incident_reminders", "channels"},
   channels |-> {"id", "kind", "label", "verified"}]

\* A page is read whole or not at all, and every field sync compares or resolves
\* a reference by is there: a row left out would be a monitor sync creates a
\* second time, a null one a difference it finds on every run.
PagesAreWhole ==
  Asked("page") /\ answer # Refused =>
    /\ Len(answer.rows) = Len(asked.it.rows)
    /\ asked.it.listing \in DOMAIN Compared =>
         \A i \in DOMAIN answer.rows :
           \A f \in Compared[asked.it.listing] : answer.rows[i][f] # "null"

SettingsAgree == DefinitionsReadBack /\ ChannelsAreReachable /\ PagesAreWhole

\* The jobs of a scheduler are monitored all or none: where one of them would be
\* refused nothing is wrapped, and otherwise every job is accounted for once, and
\* only where every job that counts is monitored does the coverage line not warn.
JobsAreAccountedFor ==
  Asked("jobs") =>
    IF answer.refused
      THEN answer.monitored = {}
      ELSE /\ answer.covered = answer.monitored \cup answer.unwrapped \cup answer.unmapped
           /\ \A i \in DOMAIN asked.it : asked.it[i].mapping = "left out" => i \notin answer.covered
           /\ ~Actionable(answer) => answer.monitored = answer.covered

\* Whichever adapter wires a job: a schedule that goes through is one the service
\* takes, read from the text the scheduler goes by; and nobody is told that no
\* zone was named who named one, or whose schedule reads the same in all of them.
SchedulesAreTheSchedulers ==
  Asked("wiring") =>
    LET given == asked.it.given
    IN  /\ answer.wires /\ given.shape = "text" =>
             /\ AssertCron(Trim(given.expression))
             /\ given.zone # Absent => NamesAZone(given.zone)
        /\ answer.advises =>
             /\ ~given.offset
             /\ given.zone = Absent
             /\ given.expression.as = "alias" => given.expression.word # "@hourly"

WiringIsAllOrNothing == JobsAreAccountedFor /\ SchedulesAreTheSchedulers

\* Every monitor of a configuration that is taken has a variable that is no
\* other's, under either prefix: what is set for one is never read for another.
NamesAreAddressable ==
  Asked("repeats") /\ ~answer =>
    \A i, k \in DOMAIN asked.it, leg \in {1, 2} :
      LET one == [v \in {Legs[1], Legs[2]} \X {Screaming(asked.it[n]) : n \in DOMAIN asked.it} |->
                    IF v = <<Legs[leg], Screaming(asked.it[i])>> THEN "id" ELSE "unset"]
      IN  ResolveMonitor(asked.it[k], "plain", "unset", one) = (IF k = i THEN "ok" ELSE "unset")

\* What doctor lists under a name, that name resolves to: where the variable is
\* one a name screams into, and the legacy variable is not behind one that is
\* set and blank.  What is shaped like an id is looked up nowhere, and doctor
\* answers 0 only where every variable that holds something holds an id.
ListedNamesResolve ==
  Asked("environment") =>
    LET env == asked.it
    IN  /\ \A i \in answer :
             LET stem == Variables[i][2]
                 name == NameOfStem(stem)
             IN  /\ Screaming(name) = stem
                 /\ Variables[i][1] = "CRON_MONITOR" => ~Set(env["CRONHEART", stem])
                 => ResolveMonitor(name, "plain", "unset", env)
                      = (IF env[Variables[i]] = "id" THEN "ok" ELSE "malformed")
        /\ \A n \in Names :
             n.shape = "broken" => ResolveMonitor(n.name, n.shape, "unset", env) = "malformed"
        /\ DoctorStatus(Variables, env, FALSE, TRUE) = 0
             => \A i \in answer : env[Variables[i]] = "id"

\* A name leads to one monitor, in a configuration and in an environment, and
\* doctor finds it under that name.
NamesAgree == ListedNamesResolve /\ NamesAreAddressable

\* The longest end of a text that fits and begins with a character.
LastThatFit(bytes, budget) ==
  LET from == CHOOSE i \in 1..Len(bytes) + 1 :
                /\ Len(bytes) - i < budget
                /\ i \in DOMAIN bytes => ~Continues(bytes[i])
                /\ \A k \in 1..i - 1 : Len(bytes) - k < budget => Continues(bytes[k])
  IN  SubSeq(bytes, from, Len(bytes))

\* The excerpt is the end of everything the command wrote with its secrets
\* replaced, in whole characters and no fewer than the budget has room for,
\* however the pipe parted them and whenever the ring was compacted, which keeps
\* it below its ceiling.  Where there are several secrets, the one replaced last
\* may leave less than the budget, and a secret cut off by a ring that keeps less
\* than its live end is left to budgets this says nothing of.
ExcerptIsTheTail ==
  Asked("output") =>
    LET out  == asked.it
        said == RedactSecrets(WithoutTrailingPartial(Written(out)))
    IN  /\ IF Cardinality(Secrets(BytesOf(out.chars))) < 2
             THEN answer = LastThatFit(said, out.budget)
             ELSE out.budget >= Reach + 18 => IsSuffix(answer, said)
        /\ Len(Held(ChunksOf(out), out.budget)) <= Ceiling(out.budget)

\* A body is redacted before it is cut for the wire: what is sent fits, in whole
\* characters, and is one end of the body with its secrets replaced.
BodiesAreCutWhole ==
  Asked("output") =>
    LET body == RedactSecrets(BytesOf(asked.it.chars))
    IN  \A mode \in {"head", "tail"} :
          LET cut == WireBody(BytesOf(asked.it.chars), mode)
          IN  /\ Len(cut[1]) + (IF cut[2] THEN Marker ELSE 0) <= BodyCap
              /\ cut[1] = WithoutTrailingPartial(WithoutLeadingPartial(cut[1]))
              /\ IF mode = "tail" THEN IsSuffix(cut[1], body) ELSE IsPrefix(cut[1], body)

\* What leaves the process of an output is an end of it that reads.
OutputIsReadable == ExcerptIsTheTail /\ BodiesAreCutWhole

\* The day after, in the calendar.
NextDay(d) ==
  IF d.day < MonthLength(d.year, d.month) THEN [d EXCEPT !.day = @ + 1]
  ELSE IF d.month < 12 THEN [d EXCEPT !.day = 1, !.month = @ + 1]
  ELSE [d EXCEPT !.day = 1, !.month = 1, !.year = @ + 1]

\* A Retry-After asks for the same wait however it spells its date, for none if
\* the date is past, and for a day more if it is a day later; a year of two
\* digits is read as one no more than fifty years away.
DatesAgree ==
  Asked("date") =>
    LET d    == asked.it
        near == d.year - Now.year \in -49..50
    IN  /\ answer["fixdate"] = answer["asctime"]
        /\ near => answer["rfc850"] = answer["fixdate"]
        /\ d.month \in 1..12 /\ d.day \in 1..MonthLength(d.year, d.month) =>
             LET next == NextDay(d)
             IN  DayOf(next.year, next.month, next.day) = DayOf(d.year, d.month, d.day) + 1
        /\ \A form \in DOMAIN answer :
             answer[form] # <<>> => answer[form][1] \in 0..MaxSeconds
        /\ answer["fixdate"] # <<>> /\ answer["fixdate"][1] > 0
             => DayOf(d.year, d.month, d.day) >= Now.day

=============================================================================
