------------------------------- MODULE Sync -------------------------------
(***************************************************************************)
(* Runs of cronheart sync side by side (cli/sync.ts, sync/plan.ts,         *)
(* sync/apply.ts) on an account that others change meanwhile: each reads   *)
(* the channels and then the monitors, plans, applies the plan row by row, *)
(* and may delete what its configuration does not describe.                *)
(*                                                                         *)
(* A request is made through the management client, retries and all, and   *)
(* has one of three ends here: done and reported, done and reported as     *)
(* failed because the answer was lost, or refused.                         *)
(*                                                                         *)
(* The service keeps the answer to a create for a day (api/constants.ts,   *)
(* API_IDEMPOTENCY_RETENTION_HOURS) and then forgets it.  Nothing bounds   *)
(* how far apart two runs are, so here it may forget one at any time.      *)
(***************************************************************************)
EXTENDS SyncPlan, ApiErrors

CONSTANTS
  Texts,       \* names, schedules, time zones, and identifiers and labels of channels
  Runs,
  Setups,      \* [config : [Runs -> a configuration], account : initial monitors]
  Modes,       \* [Runs -> the flags it is given]
  Uuids,       \* identifiers the service may hand out
  Channels,    \* sets of channels the account may have to begin with
  Kinds,       \* ways the service may refuse a request
  Others,      \* bound: changes others make
  Misses       \* whether a listing may miss a monitor

Definitions == [name : Texts, schedule : Texts, tz : Texts, refs : SUBSET Texts,
                mode : {"unmanaged", "none", "listed"}]
Monitors == [name : Texts, schedule : Texts, tz : Texts, channels : SUBSET Texts,
             suppressed : BOOLEAN]

ASSUME TextsAssumption == {Unstated, "default", "elsewhere"} \subseteq Texts

\* A configuration defines no two monitors of one name.
ASSUME SetupsAssumption ==
  \A setup \in Setups :
    /\ setup.config \in [Runs -> Seq(Definitions)]
    /\ \A r \in Runs : \A i, j \in DOMAIN setup.config[r] :
         setup.config[r][i].name = setup.config[r][j].name => i = j
    /\ IsFiniteSet(DOMAIN setup.account) /\ DOMAIN setup.account \subseteq Uuids
    /\ setup.account \in [DOMAIN setup.account -> Monitors]

ASSUME ChannelsAssumption ==
  Channels \subseteq SUBSET [id : Texts, label : Texts, verified : BOOLEAN]

ASSUME BoundsAssumption == Uuids \subseteq Nat \ {0} /\ Others \in Nat /\ Misses \in BOOLEAN
ASSUME ModesAssumption ==
  Modes \subseteq [Runs -> [apply : BOOLEAN, check : BOOLEAN, prune : BOOLEAN, yes : BOOLEAN]]

VARIABLES
  account,   \* identifier -> monitor
  channels,  \* the channels of the account
  stored,    \* idempotency key -> the identifier its create was answered with
  config,    \* [Runs -> the configuration a run was given]
  run,       \* [Runs -> what a run knows and has done]
  born,      \* history: identifier -> who made it
  others,    \* history: changes others have made
  lapsed     \* history: a key was forgotten that a run had yet to create by

vars == <<account, channels, stored, config, run, born, others, lapsed>>

-----------------------------------------------------------------------------
Fresh(mode) ==
  [pc |-> "start", mode |-> mode, channels |-> {}, rows |-> <<>>, todo |-> {},
   landed |-> {}, failures |-> 0, stopped |-> FALSE, pointless |-> FALSE,
   doomed |-> {}, deleted |-> 0, unsafe |-> FALSE, declined |-> FALSE, exit |-> -1,
   missed |-> FALSE, heard |-> {}]
   \* history: the listing missed one; refusals heard

Init ==
  /\ \E setup \in Setups : config = setup.config /\ account = setup.account
  /\ channels \in Channels
  /\ stored = <<>>
  /\ \E modes \in Modes : run = [r \in Runs |-> Fresh(modes[r])]
  /\ born = [u \in DOMAIN account |-> "before"]
  /\ others = 0
  /\ lapsed = FALSE

\* Where in a plan there is something to do, which is done in that order.
Orphans(rows) == {i \in DOMAIN rows : rows[i].action = "orphan"}
Work(rows)    == {i \in DOMAIN rows : rows[i].action \in {"create", "update"}}
Pruning(state) == state.mode.apply /\ state.mode.prune /\ Orphans(state.rows) # {}

\* An orphan is drift only for a run that claims its file is the whole account.
DriftUnder(state) == Drift(state.rows) \/ (state.mode.prune /\ Orphans(state.rows) # {})

\* Mutant: what was not deleted does not count against a run.
StatusIgnoringOrphans(state) ==
  IF ~state.mode.apply
    THEN IF Faults(state.rows) THEN 1 ELSE IF state.mode.check /\ DriftUnder(state) THEN 2 ELSE 0
    ELSE IF state.failures > 0 THEN 1 ELSE 0

\* A declined confirmation is the prompt working; any other orphan that
\* survives a run meant to delete it is not.
ExitStatus(state) ==
  IF ~state.mode.apply
    THEN IF Faults(state.rows) THEN 1 ELSE IF state.mode.check /\ DriftUnder(state) THEN 2 ELSE 0
    ELSE IF \/ state.failures > 0
            \/ state.unsafe
            \/ /\ state.mode.prune /\ ~state.declined
               /\ state.deleted < Cardinality(Orphans(state.rows))
           THEN 1 ELSE 0

\* What a run that has returned leaves: its status, and the history.
Over(state) ==
  [Fresh(state.mode) EXCEPT !.pc = "over", !.exit = ExitStatus(state), !.declined = state.declined,
                            !.missed = state.missed]
Becomes(r, state) == run' = [run EXCEPT ![r] = state]

-----------------------------------------------------------------------------
(* Reading the account and planning.                                        *)

ListChannels(r) ==
  /\ run[r].pc = "start"
  /\ Becomes(r, [run[r] EXCEPT !.pc = "listing", !.channels = channels])
  /\ UNCHANGED <<account, channels, stored, config, born, others, lapsed>>

\* No key, or a listing that failed: the run could not answer at all.
CannotPlan(r) ==
  /\ run[r].pc \in {"start", "listing"}
  /\ Becomes(r, [run[r] EXCEPT !.pc = "over", !.exit = 1])
  /\ UNCHANGED <<account, channels, stored, config, born, others, lapsed>>

\* The walk of the monitors, which may miss one, and the plan made of it.
Plan(r) ==
  /\ run[r].pc = "listing"
  /\ \E missed \in {{}} \cup (IF Misses THEN {{u} : u \in DOMAIN account} ELSE {}) :
       LET seen  == [u \in DOMAIN account \ missed |-> account[u]]
           rows  == PlanSync(config[r], run[r].channels, seen)
           state == [run[r] EXCEPT
                       !.rows = rows, !.missed = missed # {},
                       !.todo = Work(rows),
                       !.landed = {rows[i].name : i \in {j \in DOMAIN rows : rows[j].action = "unchanged"}},
                       !.failures = CountOf(rows, "conflict") + CountOf(rows, "refused")]
       IN Becomes(r, IF state.mode.apply
                       THEN [state EXCEPT !.pc = "applying",
                               !.unsafe = Pruning(state) /\ PruningIsUnsafe(config[r], state.failures)]
                       ELSE Over(state))
  /\ UNCHANGED <<account, channels, stored, config, born, others, lapsed>>

-----------------------------------------------------------------------------
(* Applying it.                                                             *)

Record(state, row, error) ==
  [state EXCEPT !.failures = @ + 1,
                !.heard = @ \cup {error},
                !.stopped = @ \/ RefusesEverything(error),
                !.pointless = @ \/ (row.action = "create" /\ RefusesEveryCreate(error))]

Landed(state, row) == [state EXCEPT !.landed = @ \cup {row.name}]
NextRow(state) == state.rows[Min(state.todo)]
Rest(state)    == [state EXCEPT !.todo = state.todo \ {Min(state.todo)}]

MonitorOf(request) ==
  [name |-> request.name, schedule |-> request.schedule,
   tz |-> IF request.tz = Unstated THEN "default" ELSE request.tz,
   channels |-> request.channels, suppressed |-> FALSE]

\* What a create is sent by: the key is made of the request.
KeyOf(row, r) == <<IdempotencyKeyFor(row.request, r), row.request>>

\* A run whose next row is a create by this key.
IsAtCreateBy(q, key) ==
  /\ run[q].pc = "applying" /\ ~run[q].stopped /\ run[q].todo # {}
  /\ NextRow(run[q]).action = "create" /\ KeyOf(NextRow(run[q]), q) = key

\* The service's answer to a create: the stored one for a key it has not forgotten.
MadeFor(key) ==
  IF key \in DOMAIN stored
    THEN UNCHANGED <<account, stored, born>>
    ELSE \E uuid \in Uuids \ DOMAIN born :
           /\ \A other \in Uuids \ DOMAIN born : uuid <= other
           /\ account' = [u \in DOMAIN account \cup {uuid} |->
                            IF u = uuid THEN MonitorOf(key[2]) ELSE account[u]]
           /\ born' = [u \in DOMAIN born \cup {uuid} |-> IF u = uuid THEN "sync" ELSE born[u]]
           /\ stored' = [k \in DOMAIN stored \cup {key} |-> IF k = key THEN uuid ELSE stored[k]]

\* A key whose first request is still running is refused with 409, which no
\* retry follows: the request may be another run's, or an earlier attempt of
\* the create's own, whose monitor is made for all that.
CreateRow(r) ==
  /\ run[r].pc = "applying" /\ ~run[r].stopped /\ run[r].todo # {}
  /\ LET row  == NextRow(run[r])
         key  == KeyOf(row, r)
         busy == \E q \in Runs \ {r} : IsAtCreateBy(q, key)
     IN /\ row.action = "create"
        /\ ~run[r].pointless
        /\ \/ /\ MadeFor(key)
              /\ \E told \in {"created", "network-error", "conflict"} :
                   Becomes(r, Rest(IF told = "created" THEN Landed(run[r], row)
                                                        ELSE Record(run[r], row, told)))
           \/ \E kind \in Kinds \cup (IF busy THEN {"conflict"} ELSE {}) :
                /\ Becomes(r, Rest(Record(run[r], row, kind)))
                /\ UNCHANGED <<account, stored, born>>
  /\ UNCHANGED <<channels, config, others, lapsed>>

\* Once one create is refused for the account's sake, no other is attempted.
PassCreateOver(r) ==
  /\ run[r].pc = "applying" /\ ~run[r].stopped /\ run[r].todo # {}
  /\ NextRow(run[r]).action = "create" /\ run[r].pointless
  /\ Becomes(r, Rest([run[r] EXCEPT !.failures = @ + 1]))
  /\ UNCHANGED <<account, channels, stored, config, born, others, lapsed>>

Patched(monitor, row) ==
  [monitor EXCEPT !.schedule = IF "schedule" \in row.fields THEN row.request.schedule ELSE @,
                  !.tz       = IF "tz" \in row.fields THEN row.request.tz ELSE @,
                  !.channels = IF "channels" \in row.fields THEN row.request.channels ELSE @]

UpdateRow(r) ==
  /\ run[r].pc = "applying" /\ ~run[r].stopped /\ run[r].todo # {}
  /\ LET row == NextRow(run[r]) IN
       /\ row.action = "update"
       /\ \/ /\ row.uuid \in DOMAIN account
             /\ account' = [account EXCEPT ![row.uuid] = Patched(@, row)]
             /\ \E told \in BOOLEAN :
                  Becomes(r, Rest(IF told THEN Landed(run[r], row)
                                           ELSE Record(run[r], row, "network-error")))
          \/ \E kind \in IF row.uuid \in DOMAIN account THEN Kinds ELSE {"not-found"} :
               /\ Becomes(r, Rest(Record(run[r], row, kind)))
               /\ UNCHANGED account
  /\ UNCHANGED <<channels, stored, config, born, others, lapsed>>

-----------------------------------------------------------------------------
(* Pruning.  It takes three decisions: asking for it, the rest of the run   *)
(* having landed, and confirming it once the orphans are known.             *)

\* Mutant: a run that was stopped still waits for its rows.
RowsDoneAll(state) == state.pc = "applying" /\ state.todo = {}

RowsDone(state) == state.pc = "applying" /\ (state.stopped \/ state.todo = {})

\* Mutant: only what the plan refused stands in the way of pruning.
UnsafeByPlan(r) == PruningIsUnsafe(config[r], CountOf(run[r].rows, "conflict"))

UnsafeNow(r) == PruningIsUnsafe(config[r], run[r].failures)

EndRows(r) ==
  /\ RowsDone(run[r])
  /\ Becomes(r, IF ~Pruning(run[r]) \/ run[r].unsafe
                  THEN Over(run[r])
                  ELSE IF UnsafeNow(r)
                         THEN Over([run[r] EXCEPT !.unsafe = TRUE])
                         ELSE [run[r] EXCEPT !.pc = "asking"])
  /\ UNCHANGED <<account, channels, stored, config, born, others, lapsed>>

\* Anything but the word, or nobody to ask, is a refusal.
Confirm(r) ==
  /\ run[r].pc = "asking"
  /\ \E yes \in BOOLEAN :
       /\ run[r].mode.yes => yes
       /\ Becomes(r, IF yes THEN [run[r] EXCEPT !.pc = "pruning", !.doomed = Orphans(run[r].rows)]
                            ELSE Over([run[r] EXCEPT !.declined = TRUE]))
  /\ UNCHANGED <<account, channels, stored, config, born, others, lapsed>>

DeleteRow(r) ==
  /\ run[r].pc = "pruning" /\ ~run[r].stopped /\ run[r].doomed # {}
  /\ LET row  == run[r].rows[Min(run[r].doomed)]
         rest == [run[r] EXCEPT !.doomed = run[r].doomed \ {Min(run[r].doomed)}]
     IN \/ /\ row.uuid \in DOMAIN account
           /\ account' = [u \in DOMAIN account \ {row.uuid} |-> account[u]]
           /\ \E told \in BOOLEAN :
                Becomes(r, IF told THEN [rest EXCEPT !.deleted = @ + 1]
                                   ELSE Record(rest, row, "network-error"))
        \/ \E kind \in IF row.uuid \in DOMAIN account THEN Kinds ELSE {"not-found"} :
             /\ Becomes(r, Record(rest, row, kind))
             /\ UNCHANGED account
  /\ UNCHANGED <<channels, stored, config, born, others, lapsed>>

EndPrune(r) ==
  /\ run[r].pc = "pruning" /\ (run[r].stopped \/ run[r].doomed = {})
  /\ Becomes(r, Over(run[r]))
  /\ UNCHANGED <<account, channels, stored, config, born, others, lapsed>>

-----------------------------------------------------------------------------
(* The service forgetting a create, and somebody at the dashboard.          *)

HasYetToCreateBy(r, key) ==
  \E i \in run[r].todo : run[r].rows[i].action = "create" /\ KeyOf(run[r].rows[i], r) = key

KeyIsSwept ==
  /\ \E key \in DOMAIN stored :
       /\ stored' = [k \in DOMAIN stored \ {key} |-> stored[k]]
       /\ lapsed' = (lapsed \/ \E r \in Runs : HasYetToCreateBy(r, key))
  /\ UNCHANGED <<account, channels, config, run, born, others>>

\* A change made before every run or after them all is another beginning.
SyncUnderWay == \E r \in Runs : run[r].pc \notin {"start", "over"}

SomeoneEdits ==
  /\ SyncUnderWay /\ others < Others /\ others' = others + 1
  /\ \E u \in DOMAIN account :
       \/ account' = [account EXCEPT ![u].tz = "elsewhere"]
       \/ account' = [account EXCEPT ![u].channels = {}]
       \/ account' = [v \in DOMAIN account \ {u} |-> account[v]]
  /\ UNCHANGED <<channels, stored, config, run, born, lapsed>>

SomeoneUnverifies ==
  /\ SyncUnderWay /\ others < Others /\ others' = others + 1
  /\ \E ch \in channels : channels' = (channels \ {ch}) \cup {[ch EXCEPT !.verified = FALSE]}
  /\ UNCHANGED <<account, stored, config, run, born, lapsed>>

SyncStep(r) ==
  \/ ListChannels(r) \/ CannotPlan(r) \/ Plan(r)
  \/ CreateRow(r) \/ PassCreateOver(r) \/ UpdateRow(r) \/ EndRows(r)
  \/ Confirm(r) \/ DeleteRow(r) \/ EndPrune(r)

Next == (\E r \in Runs : SyncStep(r)) \/ KeyIsSwept \/ SomeoneEdits \/ SomeoneUnverifies

Spec == Init /\ [][Next]_vars

\* Each request settles, within its budget at the latest, and is gone on from.
FairSpec == Spec /\ \A r \in Runs : WF_vars(SyncStep(r))

-----------------------------------------------------------------------------
Named(name) == {u \in DOMAIN account : account[u].name = name}

\* Type: every variable holds a value of its kind.
TypeOK ==
  /\ DOMAIN account \subseteq DOMAIN born /\ DOMAIN born \subseteq Uuids
  /\ {stored[key] : key \in DOMAIN stored} \subseteq DOMAIN born
  /\ others \in 0..Others /\ lapsed \in BOOLEAN
  /\ \A r \in Runs :
       /\ run[r].pc \in {"start", "listing", "applying", "asking", "pruning", "over"}
       /\ run[r].failures \in Nat
       /\ run[r].exit \in -1..2
       /\ run[r].exit = -1 <=> run[r].pc # "over"

SameConfig    == \A q, r \in Runs : config[q] = config[r]
NothingMissed == \A r \in Runs : ~run[r].missed
Kept          == {stored[key] : key \in DOMAIN stored}

\* Runs of one configuration make one monitor of each name between them, as far
\* as the service underwrites it (README, "Identity is the whole problem"): of
\* the monitors of a name, one at most is one whose create it remembers,
\* whatever each run missed in the listing or was told of its creates.  Beyond
\* that the listing is the only defence: there is one in all as long as no
\* listing missed a monitor, and no create was forgotten that a run with an
\* older plan had yet to repeat.
OneOfAName ==
  /\ TypeOK
  /\ SameConfig =>
       \A r \in Runs : \A name \in Described(config[r]) :
         /\ Cardinality(Named(name) \cap Kept) <= 1
         /\ NothingMissed /\ ~lapsed =>
              Cardinality({u \in Named(name) : born[u] = "sync"}) <= 1

\* A monitor is deleted only by a run all of whose own rows have landed, and
\* only one that run's configuration does not describe.
DeletionIsEarned ==
  [][\A u \in DOMAIN account : u \notin DOMAIN account' /\ others' = others =>
       \E r \in Runs :
         /\ DeleteRow(r)
         /\ Described(config[r]) = run[r].landed
         /\ Described(config[r]) # {}
         /\ account[u].name \notin Described(config[r])]_vars

\* An update never undoes what somebody did after the plan was made: it moves
\* the fields that differed then and no other.
OthersEditsSurvive ==
  [][\A r \in Runs : UpdateRow(r) =>
       LET row == NextRow(run[r]) IN
         row.uuid \in DOMAIN account =>
           \A f \in {"schedule", "tz", "channels"} :
             account'[row.uuid][f] # account[row.uuid][f] =>
               \E i \in DOMAIN config[r] :
                 /\ config[r][i].name = row.name
                 /\ f = "tz" => config[r][i].tz # Unstated
                 /\ f = "channels" => config[r][i].mode # "unmanaged"
                 /\ f \in row.fields]_vars

\* No run makes a monitor, or moves the channels of one, so that, by the
\* channels as it read them, it alerts nobody, unless its configuration says so
\* in as many words.  A channel that is unverified after that it cannot know of.
NeverSilenced ==
  [][\A r \in Runs : (CreateRow(r) \/ UpdateRow(r)) =>
       \A u \in DOMAIN account' :
         (u \notin DOMAIN account \/ account'[u].channels # account[u].channels) =>
           \/ VerifiedAmong(run[r].channels, account'[u].channels) # {}
           \/ \E i \in DOMAIN config[r] :
                config[r][i].name = account'[u].name /\ config[r][i].mode = "none"]_vars

\* Nothing more is asked of the service once it has refused the account.
StoppedRunsStop ==
  [][\A r \in Runs :
       ((\E kind \in run[r].heard : RefusesEverything(kind)) /\ run'[r] # run[r]) =>
         /\ UNCHANGED <<account, stored>>
         /\ run'[r].failures <= run[r].failures]_vars

Matches(r) ==
  \A i \in DOMAIN config[r] :
    RowFor(config[r][i], channels, account).action = "unchanged"

\* A run that says it applied its configuration has: planned again, nothing is
\* left to do, unless others changed the account, a listing missed a monitor,
\* or a create was forgotten that a run had yet to repeat.
AppliedMeansConverged ==
  (others = 0 /\ SameConfig /\ NothingMissed /\ ~lapsed) =>
    \A r \in Runs :
      (run[r].pc = "over" /\ run[r].exit = 0 /\ run[r].mode.apply) =>
        /\ Matches(r)
        /\ run[r].mode.prune /\ ~run[r].declined => OrphansIn(config[r], account) = {}

\* Deleting, and going on after a refusal, are earned.
NothingUnearned == DeletionIsEarned /\ StoppedRunsStop

\* Every run returns, whatever it is refused.
RunsReturn == <>(\A r \in Runs : run[r].pc = "over")

\* Neither what somebody did meanwhile nor a monitor's alerting is undone.
NothingUndone == OthersEditsSurvive /\ NeverSilenced
=============================================================================
