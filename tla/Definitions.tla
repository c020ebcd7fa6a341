---------------------------- MODULE Definitions ---------------------------
(***************************************************************************)
(* A configuration of monitors on its way to the service and back: what    *)
(* defineMonitors takes (sync/define.ts), what the management client sends *)
(* of it (api/client.ts, api/validate.ts), and what it reads in the answer *)
(* (api/hydrate.ts).  No state.                                            *)
(*                                                                         *)
(* A field that is not written is Undefined.  A name or a label is a       *)
(* record of how many characters it has, whether they are all blanks and   *)
(* whether one of them is forbidden; the channels of a definition are      *)
(* [as, of], a word or a list of references.                               *)
(***************************************************************************)
EXTENDS Schedules, TLC

CONSTANTS
  NameMin, NameMax, GraceMax,
  NeededBy,   \* [channel kinds -> the destinations the kind needs]
  Undefined

ASSUME BoundsAssumption == {NameMin, NameMax, GraceMax} \subseteq Nat

\* assertDisplayable, then assertBounded.
NameTaken(name) ==
  name # Undefined /\ ~name.forbidden /\ ~name.blank /\ name.length \in NameMin..NameMax

GraceTaken(grace) == grace \in 0..GraceMax

RemindersTaken(reminders) == reminders \in BOOLEAN

\* channelIdFor: digits, without the zeros in front; <<>> where it refuses.  An
\* identifier is [digits |-> BOOLEAN, zeros |-> Nat, number |-> Nat].
ChannelIdFor(id) == IF id.digits THEN <<[id EXCEPT !.zeros = 0]>> ELSE <<>>

\* routingFrom: a list must list something, and says "none" in as many words.
RoutingFrom(channels) ==
  IF channels = Undefined \/ channels.as = "unmanaged" THEN [mode |-> "unmanaged"]
  ELSE IF channels.as = "none" THEN [mode |-> "none"]
  ELSE IF channels.as # "list" \/ channels.of = <<>> THEN Refused
  ELSE [mode |-> "listed", references |-> channels.of]

\* defined: a definition [name, schedule, tz, grace, reminders, channels] as sync
\* will hold it, or a refusal.
Defined(definition) ==
  LET schedule == NormaliseSchedule(definition.schedule)
      routing  == RoutingFrom(definition.channels)
  IN  IF \/ ~NameTaken(definition.name)
         \/ schedule = Refused
         \/ ~ExpressionTaken(schedule.kind, schedule.expr)
         \/ definition.grace # Undefined /\ ~GraceTaken(definition.grace)
         \/ definition.reminders # Undefined /\ ~RemindersTaken(definition.reminders)
         \/ definition.tz # Undefined /\ ~ZoneTaken(definition.tz)
         \/ routing = Refused
        THEN Refused
        ELSE [name |-> definition.name, kind |-> schedule.kind, expr |-> schedule.expr,
              tz |-> IF definition.tz = Undefined THEN Undefined
                                                  ELSE CanonicalTimezone(definition.tz),
              grace |-> definition.grace, reminders |-> definition.reminders,
              routing |-> routing]

-----------------------------------------------------------------------------
(* Requests.                                                                *)

\* A request is a function from its fields; one that is Undefined is not there.
Said(request) == {f \in DOMAIN request : request[f] # Undefined}

FieldTaken(request, f) ==
  CASE f = "name"      -> NameTaken(request[f])
    [] f = "kind"      -> request[f] \in {"cron", "interval", "simple"}
    [] f = "expr"      -> IF request.kind = Undefined
                            THEN request[f] # Undefined /\ request[f].as # "empty" /\ ~request[f].long
                            ELSE ExpressionTaken(request.kind, request[f])
    [] f = "tz"        -> ZoneTaken(request[f])
    [] f = "grace"     -> GraceTaken(request[f])
    [] f = "reminders" -> RemindersTaken(request[f])
    [] f = "channels"  -> \A i \in DOMAIN request[f] : ChannelIdFor(request[f][i]) # <<>>

FieldsOf(request, partial) ==
  Said(request) \cup (IF partial THEN {} ELSE {"name", "kind", "expr"})

\* monitorBodyFrom: what is sent of a create, or of the fields an update states.
MonitorBodyFrom(request, partial) ==
  IF \E f \in FieldsOf(request, partial) : request[f] = Undefined \/ ~FieldTaken(request, f)
    THEN Refused
    ELSE [f \in FieldsOf(request, partial) |->
            CASE f = "tz"       -> CanonicalTimezone(request[f])
              [] f = "channels" -> [i \in DOMAIN request[f] |-> ChannelIdFor(request[f][i])[1]]
              [] OTHER          -> request[f]]

\* What sync asks of the client for a monitor it creates, its channels resolved
\* to the identifiers the listing reported.
CreateRequestFor(held, ids) ==
  [name |-> held.name, kind |-> held.kind, expr |-> held.expr, tz |-> held.tz,
   grace |-> held.grace, reminders |-> held.reminders,
   channels |-> CASE held.routing.mode = "unmanaged" -> Undefined
                  [] held.routing.mode = "none"      -> <<>>
                  [] OTHER                           -> ids]

\* channelBodyFrom: a kind needs the destinations that are its own; one that is
\* given must not be blank, and travels whether its kind needs it or not.
ChannelBodyFrom(kind, label, given) ==
  IF \/ kind \notin DOMAIN NeededBy
     \/ ~NameTaken(label)
     \/ ~(NeededBy[kind] \subseteq Said(given))
     \/ \E f \in Said(given) : given[f] = "blank"
    THEN Refused
    ELSE [f \in Said(given) |-> given[f]]

-----------------------------------------------------------------------------
(* Answers.                                                                 *)

\* The service keeps what it is sent, its own defaults for what it is not, and
\* answers with all of it; UTC under its name, however it was designated.
Kept(f, value) == IF f = "tz" /\ value = "Z" THEN "utc" ELSE value

Stored(body, defaults) ==
  [f \in DOMAIN defaults |-> Kept(f, IF f \in DOMAIN body THEN body[f] ELSE defaults[f])]

\* What each field of an answer must be for the client to read it.
MonitorShape ==
  [uuid |-> "text", name |-> "text", schedule_kind |-> "text", schedule_expr |-> "text",
   tz |-> "text", grace_seconds |-> "integer", incident_reminders |-> "flag",
   channels |-> "list", status |-> "text", open_incident |-> "optional object",
   next_expected_at |-> "optional text", snoozed_until |-> "optional text",
   last_ping_at |-> "optional text", created_at |-> "text", ping_url |-> "text",
   badge_url |-> "text"]
ChannelShape ==
  [id |-> "text", kind |-> "text", label |-> "text", verified |-> "flag",
   config |-> "object", created_at |-> "text"]
PingShape ==
  [id |-> "text", kind |-> "text", received_at |-> "text", runtime_ms |-> "optional integer"]
AlertShape ==
  [id |-> "text", kind |-> "text", created_at |-> "text", dispatched_to |-> "optional object"]
\* What each listing is a page of, and has beside its rows.
Listings ==
  LET data  == [data |-> "list"]
      total == data @@ [total |-> "integer"]
      walk  == total @@ [limit |-> "integer", offset |-> "integer"]
  IN  [monitors |-> [page |-> walk, row |-> MonitorShape],
       alerts   |-> [page |-> walk, row |-> AlertShape],
       pings    |-> [page |-> data @@ [next_cursor |-> "optional text"], row |-> PingShape],
       channels |-> [page |-> total, row |-> ChannelShape]]

\* JSON as the readers tell it apart, "absent" for a key that is not there.
JsonTypes == {"text", "integer", "fraction", "flag", "list", "object", "null", "absent"}

\* text, integer, flag, list, objectFrom, and the optional ones, which take null
\* and an absent key alike.
Readable(shape, type) ==
  \/ type = shape
  \/ /\ type \in {"null", "absent"}
     /\ shape \in {"optional text", "optional integer", "optional object"}
  \/ <<shape, type>> \in {<<"optional text", "text">>, <<"optional integer", "integer">>,
                          <<"optional object", "object">>}

\* monitorFrom and its like: an object is read when every field of it can be.  It
\* is given as the fields that are not what the service publishes, and as what.
Hydrates(shape, oddities) == \A f \in DOMAIN oddities : Readable(shape[f], oddities[f])

\* A field as it is read: an optional one that is not there is null.
ReadAs(type) == IF type = "absent" THEN "null" ELSE type

\* offsetPage and its like: the rows as they are read, of which one that cannot
\* be refuses the page.
PageFrom(listing, page, rows) ==
  LET shape == Listings[listing]
  IN  IF ~Hydrates(shape.page, page) \/ \E i \in DOMAIN rows : ~Hydrates(shape.row, rows[i])
        THEN Refused
        ELSE [kind |-> "page",
              rows |-> [i \in DOMAIN rows |->
                          [f \in DOMAIN shape.row |->
                             IF f \in DOMAIN rows[i] THEN ReadAs(rows[i][f]) ELSE shape.row[f]]]]

=============================================================================
