----------------------------- MODULE SyncPlan -----------------------------
(***************************************************************************)
(* What cronheart sync makes of a configuration and an account             *)
(* (sync/plan.ts, sync/routing.ts, sync/key.ts): one row per monitor that  *)
(* the configuration describes or the account holds.  No state.            *)
(*                                                                         *)
(* A definition is [name, schedule, tz, mode, refs].  tz stands for every  *)
(* field a definition may leave unstated; mode is one of ROUTING_MODES and *)
(* refs the channels it names when that is "listed".  A monitor is [name,  *)
(* schedule, tz, channels, suppressed], kept under its identifier; a       *)
(* channel is [id, label, verified].                                       *)
(***************************************************************************)
EXTENDS Integers, FiniteSets, Sequences, SequencesExt

Unstated == "unstated"

-----------------------------------------------------------------------------
(* Routing.                                                                 *)

\* A label may be made of digits, so a reference is read both ways.
Matching(channels, ref) == {ch \in channels : ch.label = ref \/ ch.id = ref}

ResolveChannels(channels, refs) ==
  [ok  |-> \A ref \in refs : Cardinality(Matching(channels, ref)) = 1,
   ids |-> {ch.id : ch \in UNION {Matching(channels, ref) : ref \in refs}}]

\* Attachment is not deliverability: an unverified channel is skipped.
VerifiedAmong(channels, ids) == {ch.id : ch \in {x \in channels : x.verified /\ x.id \in ids}}

ResolvedRouting(def, channels) ==
  IF def.mode = "listed"
    THEN LET found == ResolveChannels(channels, def.refs)
         IN  [mode |-> "listed", ok |-> found.ok, ids |-> found.ids]
    ELSE [mode |-> def.mode, ok |-> TRUE, ids |-> {}]

AlertsFor(routing, channels, attached) ==
  CASE routing.mode = "none"   -> {}
    [] routing.mode = "listed" -> VerifiedAmong(channels, routing.ids)
    [] OTHER                   -> VerifiedAmong(channels, attached)

\* Whether a request says anything about channels at all.
RoutingIsStated(routing) == routing.mode # "unmanaged"

-----------------------------------------------------------------------------
(* Requests.                                                                *)

CreateRequestFor(def, routing) ==
  [name |-> def.name, schedule |-> def.schedule, tz |-> def.tz,
   channels |-> IF RoutingIsStated(routing) THEN routing.ids ELSE {}]

\* Mutant: a key of its own for every run, so that no create is held back by another.
KeyPerRun(request, run) == <<run, request>>

\* The key is derived from the request alone: two runs of one configuration
\* mint the same, and a changed request another.
IdempotencyKeyFor(request, run) == request

\* A field the configuration never states is one sync does not manage.
DifferencesFrom(def, monitor, routing) ==
  {f \in {"schedule", "tz", "channels"} :
     CASE f = "schedule" -> monitor.schedule # def.schedule
       [] f = "tz"       -> def.tz # Unstated /\ monitor.tz # def.tz
       [] f = "channels" -> RoutingIsStated(routing) /\ monitor.channels # routing.ids}

\* Mutant: the whole definition is sent whenever any of it differs.
EveryField(def, changes, routing) == DOMAIN [schedule |-> 0, tz |-> 0, channels |-> 0]

\* An update carries the fields that differ and no other.
FieldsSent(def, changes, routing) == changes

-----------------------------------------------------------------------------
(* Rows.                                                                    *)

IsConflict(found) == Cardinality(found) > 1

\* Silence a configuration did not ask for: its channels come to nothing
\* verified, or a new monitor would have none.
WouldAlertNobody(alerts, routing, found) ==
  alerts = {} /\ (routing.mode = "listed" \/ (found = {} /\ routing.mode = "unmanaged"))

Row(action, def, uuid, fields, routing, silent) ==
  [action |-> action, name |-> def.name, uuid |-> uuid, fields |-> fields,
   request |-> CreateRequestFor(def, routing), silent |-> silent]

RowFor(def, channels, account) ==
  LET routing  == ResolvedRouting(def, channels)
      found    == {u \in DOMAIN account : account[u].name = def.name}
      uuid     == CHOOSE u \in found : TRUE
      attached == IF found = {} THEN {} ELSE account[uuid].channels
      alerts   == AlertsFor(routing, channels, attached)
      changes  == DifferencesFrom(def, account[uuid], routing)
      silent   == alerts = {} \/ (found # {} /\ account[uuid].suppressed)
  IN IF ~routing.ok THEN Row("refused", def, 0, {}, routing, FALSE)
     ELSE IF IsConflict(found) THEN Row("conflict", def, 0, {}, routing, FALSE)
     ELSE IF WouldAlertNobody(alerts, routing, found) THEN Row("refused", def, 0, {}, routing, FALSE)
     ELSE IF found = {} THEN Row("create", def, 0, {}, routing, silent)
     ELSE IF changes = {} THEN Row("unchanged", def, uuid, {}, routing, silent)
     ELSE Row("update", def, uuid, FieldsSent(def, changes, routing), routing, silent)

Described(config) == {config[i].name : i \in DOMAIN config}

OrphanRow(uuid, monitor, channels) ==
  [action |-> "orphan", name |-> monitor.name, uuid |-> uuid, fields |-> {},
   request |-> <<>>,
   silent |-> VerifiedAmong(channels, monitor.channels) = {} \/ monitor.suppressed]

OrphansIn(config, account) == {u \in DOMAIN account : account[u].name \notin Described(config)}

\* The configuration's rows in its order, then the orphans'.
PlanSync(config, channels, account) ==
  [i \in DOMAIN config |-> RowFor(config[i], channels, account)] \o
  LET orphans == SetToSeq(OrphansIn(config, account))
  IN [i \in DOMAIN orphans |-> OrphanRow(orphans[i], account[orphans[i]], channels)]

CountOf(rows, action) == Cardinality({i \in DOMAIN rows : rows[i].action = action})
Drift(rows)  == CountOf(rows, "create") + CountOf(rows, "update") > 0
Faults(rows) == CountOf(rows, "conflict") + CountOf(rows, "refused") > 0

\* Nothing is deleted for a configuration that describes nothing, nor while
\* anything else of the run failed.
PruningIsUnsafe(config, failures) == Len(config) = 0 \/ failures > 0
=============================================================================
