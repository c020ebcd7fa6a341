---------------------------- MODULE Schedules -----------------------------
(***************************************************************************)
(* A schedule is read in three places: by sync from a configuration file   *)
(* (sync/schedule.ts), by the management client from a request             *)
(* (api/validate.ts), and by the adapters from a scheduler's own options   *)
(* (cron-dialect.ts).  No state: what each of them takes, and as what.     *)
(*                                                                         *)
(* A text is a record with the fields                                      *)
(*   as      "fields"  two or more words apart, each of `fields` a word of *)
(*                     cron ("any" for * or */n, "cron") or not ("word");  *)
(*                     `foreign` if something else than blanks parts them  *)
(*           "alias"   opens with @; `word` names it                       *)
(*           "every"   `count` and one of s m h d or no unit, `word`       *)
(*           "simple"  one of the service's twelve tokens                  *)
(*           "other"   any other single word, "empty" none                 *)
(*   padded  blanks around it, which trim() takes off                      *)
(*   long    more characters than the service keeps                        *)
(***************************************************************************)
EXTENDS Integers, Sequences

CONSTANTS IntervalMin, IntervalMax, SafeInteger

ASSUME IntervalAssumption ==
  {IntervalMin, IntervalMax, SafeInteger} \subseteq Nat /\ IntervalMin <= IntervalMax

NoText == [as |-> "empty", word |-> "", fields |-> <<>>, foreign |-> FALSE, count |-> 0,
           padded |-> FALSE, long |-> FALSE]

Refused == [kind |-> "refused"]

Trim(text) == [text EXCEPT !.padded = FALSE]

FieldCount == 5
HourField  == 2

\* cronFields: what split and filter leave of a text.
CronFields(text) ==
  CASE text.as = "fields" -> text.fields
    [] text.as = "empty"  -> <<>>
    [] OTHER              -> <<"word">>

\* A blank in front is not an @, and neither alias nor number nor token.
Bare(text, as) == text.as = as /\ ~text.padded

IsCronAlias(text) == Bare(text, "alias") /\ text.word \in {"@hourly", "@daily"}

-----------------------------------------------------------------------------
(* The adapters.                                                            *)

\* What a scheduler takes and the service does not: a leading field of seconds,
\* an alias of the scheduler's own.
CronDialectTakes(text) ==
  LET written == Trim(text)
  IN  IF written.as = "alias"
        THEN IsCronAlias(written)
        ELSE Len(CronFields(written)) = FieldCount

\* Whether it matters which zone the expression is read in.
ReadsAsAnHourOfTheDay(text) ==
  LET written == Trim(text)
      fields  == CronFields(written)
  IN  IF written.as = "alias"
        THEN IsCronAlias(written) /\ written.word # "@hourly"
        ELSE Len(fields) = FieldCount /\ fields[HourField] # "any"

-----------------------------------------------------------------------------
(* The management client.                                                   *)

AssertCron(text) ==
  \/ IsCronAlias(text)
  \/ ~Bare(text, "alias") /\ Len(CronFields(text)) = FieldCount

AssertInterval(text) ==
  Bare(text, "every") /\ text.word = "" /\ text.count \in IntervalMin..IntervalMax

AssertSimple(text) == Bare(text, "simple")

\* assertScheduleExpression, the length and the blankness of the text included.
ExpressionTaken(kind, text) ==
  /\ text.as # "empty"
  /\ ~text.long
  /\ CASE kind = "cron"     -> AssertCron(text)
       [] kind = "interval" -> AssertInterval(text)
       [] OTHER             -> AssertSimple(text)

-----------------------------------------------------------------------------
(* sync.                                                                    *)

AsCron(text) ==
  IF \/ IsCronAlias(text)
     \/ /\ text.as # "alias"
        /\ ~text.foreign
        /\ Len(CronFields(text)) = FieldCount
        /\ \A i \in 1..FieldCount : CronFields(text)[i] # "word"
    THEN [kind |-> "cron", expr |-> text]
    ELSE Refused

Scale(unit) == CASE unit = "m" -> 60 [] unit = "h" -> 3600 [] unit = "d" -> 86400 [] OTHER -> 1

\* secondsFrom: the whole seconds a number or a text of an interval stands for.
SecondsFrom(value) ==
  IF value.as = "number"
    THEN IF value.count \in -SafeInteger..SafeInteger THEN <<value.count>> ELSE <<>>
    ELSE IF value.as = "every" THEN <<value.count * Scale(value.word)>> ELSE <<>>

AsInterval(value) ==
  LET seconds == SecondsFrom(value)
  IN  IF seconds = <<>> \/ seconds[1] \notin IntervalMin..IntervalMax
        THEN Refused
        ELSE [kind |-> "interval", expr |-> [NoText EXCEPT !.as = "every", !.count = seconds[1]]]

AsSimple(value) ==
  IF value.as = "simple" /\ ~value.padded THEN [kind |-> "simple", expr |-> value] ELSE Refused

FromText(text) ==
  LET expression == Trim(text)
  IN  CASE expression.as = "simple"            -> AsSimple(expression)
        [] expression.as \in {"alias", "fields"} -> AsCron(expression)
        [] expression.as = "every"             -> AsInterval(expression)
        [] OTHER                               -> Refused

\* A schedule is a text, or an object with some of four members, of which the
\* first that is there is read: [given |-> "text", of |-> text] or
\* [given |-> "object", of |-> a function from the members there are].
NormaliseSchedule(schedule) ==
  LET of     == schedule.of
      member == {"every", "interval", "cron", "simple"} \cap DOMAIN of
  IN  CASE schedule.given = "text" -> FromText(of)
        [] schedule.given = "nothing" -> Refused
        [] OTHER ->
             IF "every" \in member THEN AsInterval(of["every"])
             ELSE IF "interval" \in member THEN AsInterval(of["interval"])
             ELSE IF "cron" \in member
               THEN IF of["cron"].as = "number" THEN Refused ELSE AsCron(Trim(of["cron"]))
             ELSE IF "simple" \in member THEN AsSimple(of["simple"])
             ELSE Refused

-----------------------------------------------------------------------------
(* Time zones.  A zone is "utc", the name; "Z", its designator; "held", an  *)
(* abbreviation kept at one offset all year; "region" or "offset", which a  *)
(* runtime knows; "prefixed", GMT+3, which names two; "unknown"; "blank".   *)

Zones == {"utc", "Z", "held", "region", "offset", "prefixed", "unknown", "blank"}

\* Intl.DateTimeFormat, which knows the abbreviations and not the designator.
NamesAZone(zone) == zone \in {"utc", "held", "region", "offset"}

ZoneTaken(zone) == zone # "blank" /\ (zone = "Z" \/ (zone # "held" /\ NamesAZone(zone)))

\* Mutant: the designator is sent as it was written.
ZoneAsWritten(zone) == zone

CanonicalTimezone(zone) == IF zone = "Z" THEN "utc" ELSE zone

=============================================================================
