------------------------------ MODULE MCCases -----------------------------
(* Inputs on both sides of every bound and of every distinction the code    *)
(* makes; the bounds of the ring and of a body are scaled down to a few     *)
(* bytes, RETRY_AFTER_MAX_SECONDS to what 32 bits can count past.           *)
EXTENDS Cases

Text(as, word)  == [NoText EXCEPT !.as = as, !.word = word]
Every(n, unit)  == [Text("every", unit) EXCEPT !.count = n]
FieldText(fields) == [Text("fields", "") EXCEPT !.fields = fields]
Number(n)       == [Text("number", "") EXCEPT !.count = n]

Fives == {<<"any", "any", "cron", "any", "any">>, <<"cron", "cron", "any", "any", "any">>,
          <<"cron", "cron", "any", "any", "word">>}
Texts ==
  {Text("alias", w) : w \in {"@hourly", "@daily", "@reboot"}}
  \cup {Text("simple", "hourly"), Text("other", "soon"), NoText}
  \cup {Every(n, u) : n \in {0, 1, 29, 30, 90, 31622400, 31622401}, u \in {"", "s"}}
  \cup {Every(n, u) : n \in {0, 1, 366, 367}, u \in {"m", "h", "d"}}
  \cup {FieldText(f) : f \in Fives}
  \cup {FieldText(SubSeq(f, 1, 4)) : f \in Fives} \cup {FieldText(f \o <<"cron">>) : f \in Fives}
  \cup {[FieldText(f) EXCEPT !.foreign = TRUE] : f \in Fives}
  \cup {[FieldText(f) EXCEPT !.long = TRUE] : f \in Fives}
AllTexts == Texts \cup {[t EXCEPT !.padded = TRUE] : t \in Texts}
Numbers  == {Number(n) : n \in {-30, 0, 29, 30, 31622400, 31622401, 1000000001}}
Members  == {"every", "interval", "cron", "simple"}

SchedulesGiven ==
  {[given |-> "text", of |-> t] : t \in AllTexts}
  \cup {[given |-> "object", of |-> [m \in {k} |-> t]] : k \in Members, t \in AllTexts \cup Numbers}
  \cup {[given |-> "object", of |-> [m \in S |-> Every(90, "")]] : S \in SUBSET Members}
  \cup {[given |-> "nothing", of |-> NoText]}

Label(n) == [length |-> n, blank |-> FALSE, forbidden |-> FALSE]
MCNames == {[Label(n) EXCEPT !.blank = b, !.forbidden = f] :
              n \in {1, 2, 120, 121}, b \in BOOLEAN, f \in BOOLEAN}
Channels(as, of) == [as |-> as, of |-> of]
Plain == [name |-> Label(2), schedule |-> [given |-> "text", of |-> Every(90, "s")],
          tz |-> Undefined, grace |-> Undefined, reminders |-> Undefined, channels |-> Undefined]

MCMonitorDefinitions ==
  {[Plain EXCEPT !.schedule = s] : s \in SchedulesGiven}
  \cup {[Plain EXCEPT !.name = n] : n \in MCNames}
  \cup {[Plain EXCEPT !.tz = z, !.grace = g, !.reminders = r, !.channels = c] :
          z \in Zones \cup {Undefined}, g \in {0, 86400, 86401, -1, Undefined},
          r \in BOOLEAN \cup {Undefined},
          c \in {Undefined, Channels("unmanaged", <<>>), Channels("none", <<>>),
                 Channels("list", <<>>), Channels("list", <<"ops">>), Channels("other", <<>>)}}
MCListedIds == <<[digits |-> TRUE, zeros |-> 0, number |-> 7]>>
MCDefaults  == [name |-> Label(2), kind |-> "cron", expr |-> NoText, tz |-> "utc", grace |-> 300,
                reminders |-> FALSE, channels |-> <<>>]
MCNeededBy ==
  [k \in {"email", "telegram", "webhook"} |->
     CASE k = "email" -> {"address"} [] k = "telegram" -> {"chat_id"} [] OTHER -> {"webhook_url", "secret"}]
MCChannelRequests ==
  [kind : {"email", "telegram", "webhook", "carrier pigeon"}, label : {Label(1), Label(2)},
   given : [{"address", "chat_id", "webhook_url", "secret"} -> {"there", "blank", Undefined}]]

Odd(shape) == {<<>>} \cup {[f \in {g} |-> t] : g \in DOMAIN shape, t \in JsonTypes}
MCPages ==
  UNION {{[listing |-> of, page |-> p, rows |-> <<r, s>>] :
            p \in Odd(Listings[of].page), r \in Odd(Listings[of].row), s \in {<<>>, [id |-> "null"]}} :
          of \in {"alerts", "pings", "channels"}}
  \cup {[listing |-> "monitors", page |-> p, rows |-> <<r>>] :
          p \in Odd(Listings["monitors"].page), r \in Odd(MonitorShape)}

Expressions == {Text("alias", "@daily"), Text("alias", "@hourly"), Text("alias", "@reboot"),
                [Text("alias", "@daily") EXCEPT !.padded = TRUE],
                FieldText(<<"any", "any", "cron", "any", "any">>),
                FieldText(<<"cron", "cron", "any", "any", "word">>),
                FieldText(<<"cron", "cron", "cron", "cron", "cron", "cron">>)}
Given(shape, expression, zone, offset) ==
  [shape |-> shape, expression |-> expression, zone |-> zone, offset |-> offset]
MCGivens == {Given(s, e, z, o) : s \in {"text", "object", "date"}, e \in Expressions,
                                 z \in {Absent, "region", "unknown"}, o \in BOOLEAN}
Jobs == [mapping : {"monitor"}, given : {Given("text", e, z, FALSE) : e \in Expressions, z \in {Absent, "unknown"}},
         named : BOOLEAN, reachable : BOOLEAN]
        \cup [mapping : {"left out", "nothing"}, given : {Given("date", NoText, Absent, FALSE)},
              named : {TRUE}, reachable : {TRUE}]
MCRegistries == {<<>>} \cup {<<j>> : j \in Jobs} \cup {<<j, k>> : j \in Jobs, k \in Jobs}

MCVariables ==
  <<<<"CRONHEART", <<"A", "_", "A">>>>, <<"CRONHEART", <<"A">>>>, <<"CRONHEART", <<"A", "_", "_", "A">>>>,
    <<"CRONHEART", <<"a">>>>,
    <<"CRON_MONITOR", <<"A", "_", "A">>>>, <<"CRON_MONITOR", <<"A">>>>,
    <<"CRON_MONITOR", <<"A", "_", "_", "A">>>>, <<"CRON_MONITOR", <<"a">>>>>>
Var == {MCVariables[i] : i \in DOMAIN MCVariables}
Varied == {v \in Var : v[1] = "CRONHEART" \/ v[2] = <<"A">>}
MCEnvironments ==
  {[v \in Var |-> IF v \in Varied THEN e[v] ELSE "unset"] :
     e \in [Varied -> {"unset", "blank", "id", "junk"}]}
MCLookedUp == [name : {<<"A">>, <<"a", "-", "A">>}, shape : {"broken", "opening", "plain"}]

MCNameLists ==
  UNION {[1..n -> {<<"A">>, <<"a", "-">>, <<"A", "-", "a">>, <<"a", "_", "_", "A">>, <<"-">>}] : n \in 1..3}

MCOutputs == [chars : UNION {[1..n -> 1..3] : n \in 1..5}, cut : {0, 1}, chunk : 1..4, budget : {0, 2, 3}]
Cuttable == {o \in MCOutputs : o.cut < o.chars[Len(o.chars)]}

Fill(n, char) == [i \in 1..n |-> char]
Secret(n)     == <<Anchor>> \o Fill(n - 1, Material)
Secretive ==
  [chars : {Fill(a, c) \o Secret(n) \o Fill(b, c) : a \in {0, 1, 5}, b \in {0, 1, 3, 6, 14},
                                                    c \in {1, 2, 4}, n \in {2, 5, 6}},
   cut : {0}, chunk : {1, 2, 3, 7, 11}, budget : {2, 3, 9}]
  \cup
  [chars : {Fill(a, 1) \o Secret(n) \o Fill(b, c) \o Secret(m) \o Fill(d, 3) :
              a \in {14, 27}, b \in {0, 1, 3}, c \in {1, 3}, d \in {0, 1, 4}, n \in {2, 6}, m \in {5, 6}},
   cut : {0}, chunk : {1, 2, 5}, budget : {2, 24}]
MCAllOutputs == Cuttable \cup Secretive

MCDates == [year : {1994, 2000, 2026, 2027, 2028, 2076, 2077}, month : {0, 1, 2, 3, 12},
            day : {0, 1, 28, 29, 30, 31, 32}, second : {-1, 0, 43200, 86400}]
MCNow == [day |-> DayOf(2026, 3, 1), second |-> 43200, year |-> 2026]
=============================================================================
