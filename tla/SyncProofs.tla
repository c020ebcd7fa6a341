---------------------------- MODULE SyncProofs ----------------------------
(***************************************************************************)
(* What runs of cronheart sync guarantee for any number of them side by    *)
(* side, any configurations, accounts, channels and flags, any refusals    *)
(* and lost answers, listings that miss a monitor and changes by others:   *)
(* runs of one configuration make one monitor of a name as long as its     *)
(* create is remembered, nothing is deleted that was not earned, nothing   *)
(* that others did is undone, and a run that says it has applied its       *)
(* configuration has.                                                      *)
(***************************************************************************)
EXTENDS Sync, FiniteSetTheorems, SequenceTheorems, WellFoundedInduction, TLAPS

AllChannels == [id : Texts, label : Texts, verified : BOOLEAN]
Fields   == {"schedule", "tz", "channels"}
Requests == [name : Texts, schedule : Texts, tz : Texts, channels : SUBSET Texts]
PlanRows ==
  [action : {"refused", "conflict", "create", "unchanged", "update", "orphan"}, name : Texts,
   uuid : Nat, fields : SUBSET Fields, request : Requests \cup {<<>>}, silent : BOOLEAN]

State ==
  [pc : {"start", "listing", "applying", "asking", "pruning", "over"},
   mode : [apply : BOOLEAN, check : BOOLEAN, prune : BOOLEAN, yes : BOOLEAN],
   channels : SUBSET AllChannels, rows : Seq(PlanRows), todo : SUBSET Nat, landed : SUBSET Texts,
   failures : Nat, stopped : BOOLEAN, pointless : BOOLEAN, doomed : SUBSET Nat, deleted : Nat,
   unsafe : BOOLEAN, declined : BOOLEAN, exit : {-1, 0, 1, 2}, missed : BOOLEAN,
   heard : SUBSET (Kinds \cup {"network-error", "not-found", "conflict"})]

\* Every variable holds a value of its kind.
AccountTyped ==
  /\ IsFiniteSet(DOMAIN account) /\ account \in [DOMAIN account -> Monitors]
  /\ DOMAIN account \subseteq DOMAIN born /\ DOMAIN born \subseteq Uuids
  /\ channels \in SUBSET AllChannels
  /\ \A key \in DOMAIN stored : stored[key] \in DOMAIN born

Typed ==
  /\ AccountTyped
  /\ config \in [Runs -> Seq(Definitions)]
  /\ \A r \in Runs : \A i, j \in DOMAIN config[r] : config[r][i].name = config[r][j].name => i = j
  /\ run \in [Runs -> State]
  /\ others \in 0..Others
  /\ lapsed \in BOOLEAN

\* Channels with the same identifiers and labels, verified or not.
Within(some, all) == \A ch \in some : \E like \in all : like.id = ch.id /\ like.label = ch.label
Alike(one, other) == Within(one, other) /\ Within(other, one)

RequestOf(def, chans) == CreateRequestFor(def, ResolvedRouting(def, chans))

Manages(def) ==
  {f \in Fields : (f = "tz" => def.tz # Unstated) /\ (f = "channels" => def.mode # "unmanaged")}

\* What is created or updated is what a definition asks for, and reaches somebody.
Asked(def, row, chans) ==
  /\ row.name = def.name
  /\ row.request = RequestOf(def, chans)
  /\ row.fields \subseteq Manages(def)
  /\ def.mode # "none" /\ (row.action = "create" \/ "channels" \in row.fields)
       => VerifiedAmong(chans, row.request.channels) # {}

\* A monitor keeps its name, and its identifier is nobody else's, ever.
Names(row) ==
  /\ row.uuid \in DOMAIN born
  /\ row.uuid \in DOMAIN account => account[row.uuid].name = row.name

PlannedFor(state, definitions) ==
  \A i \in DOMAIN state.rows :
    LET row == state.rows[i] IN
      /\ row.action \in {"create", "update"} =>
           \E d \in DOMAIN definitions : Asked(definitions[d], row, state.channels)
      /\ row.action \in {"update", "orphan"} => Names(row)
      /\ row.action = "orphan" => row.name \notin Described(definitions)

\* While nothing has failed, each row has landed or is to come.
AppliedTo(state, definitions) ==
  /\ state.todo \subseteq Work(state.rows) /\ state.doomed \subseteq Orphans(state.rows)
  /\ state.landed \subseteq Described(definitions)
  /\ state.pc \in {"start", "listing"} =>
       state.rows = <<>> /\ state.landed = {} /\ state.failures = 0 /\ state.heard = {}
  /\ state.pc = "applying" /\ state.failures = 0 =>
       \A name \in Described(definitions) :
         name \in state.landed \/ \E i \in state.todo : state.rows[i].name = name
  /\ state.pc \in {"asking", "pruning"} =>
       Described(definitions) = state.landed /\ Described(definitions) # {}
  /\ state.stopped <=> \E kind \in state.heard : RefusesEverything(kind)
  /\ state.stopped => state.failures > 0

\* A key that is kept is what a definition asks for, and the monitor it stands for
\* has the name.
Minted(key) ==
  \E r \in Runs : \E i \in DOMAIN config[r] :
    LET request == RequestOf(config[r][i], channels) IN key = <<request, request>>

Made ==
  \A key \in DOMAIN stored :
    /\ Minted(key)
    /\ stored[key] \in DOMAIN account => account[stored[key]].name = key[2].name

\* What a run may be, whatever becomes of the account.  What it was told of the
\* channels may have become stale in one respect only.
Ready(r, state) ==
  /\ state \in State
  /\ state.exit = -1 <=> state.pc # "over"
  /\ state.pc \notin {"start", "over"} => Alike(state.channels, channels)
  /\ PlannedFor(state, config[r]) /\ AppliedTo(state, config[r])

SInv == Typed /\ Made /\ \A r \in Runs : Ready(r, run[r])

-----------------------------------------------------------------------------
(* The operators.                                                           *)

\* What the invariant says of one run.
LEMMA Known ==
  ASSUME SInv, NEW r \in Runs
  PROVE  /\ run \in [Runs -> State] /\ run[r] \in State
         /\ Ready(r, run[r])
         /\ config[r] \in Seq(Definitions)
         /\ DOMAIN config[r] = 1..Len(config[r]) /\ Len(config[r]) \in Nat
         /\ \A i \in DOMAIN config[r] : config[r][i] \in Definitions
<1>1. config[r] \in Seq(Definitions)
  BY DEF SInv, Typed
<1>2. DOMAIN config[r] = 1..Len(config[r]) /\ Len(config[r]) \in Nat
  BY <1>1, LenProperties
<1>3. \A i \in DOMAIN config[r] : config[r][i] \in Definitions
  BY <1>1, <1>2, ElementOfSeq
<1> QED
  BY <1>1, <1>2, <1>3 DEF SInv, Typed

\* The least of some positions is one of them.
LEMMA MinIsIn ==
  ASSUME NEW T, T \subseteq Nat, T # {}
  PROVE  Min(T) \in T
<1> DEFINE R == OpToRel(<, Nat)
<1>1. IsWellFoundedOn(R, Nat)
  BY NatLessThanWellFounded
<1>2. \A x, y \in Nat : <<x, y>> \in R <=> x < y
  BY DEF OpToRel
<1> HIDE DEF R
<1>3. PICK x \in T : \A y \in T : ~(<<y, x>> \in R)
  BY <1>1, WFMin
<1>4. \A y \in T : x <= y
  <2> TAKE y \in T
  <2>1. x \in Nat /\ y \in Nat /\ ~(y < x)
    BY <1>2, <1>3
  <2> QED
    BY <2>1
<1> QED
  BY <1>4 DEF Min

\* A listed channel, by the reference.
IdsOf(chans, refs) == {ch.id : ch \in UNION {Matching(chans, ref) : ref \in refs}}

LEMMA IdsAreIn ==
  ASSUME NEW chans, NEW refs, NEW id
  PROVE  id \in IdsOf(chans, refs) <=>
           \E ch \in chans : \E ref \in refs : (ch.label = ref \/ ch.id = ref) /\ ch.id = id
BY DEF IdsOf, Matching

LEMMA RequestIs ==
  ASSUME NEW def \in Definitions, NEW chans
  PROVE  RequestOf(def, chans) =
           [name |-> def.name, schedule |-> def.schedule, tz |-> def.tz,
            channels |-> IF def.mode = "listed" THEN IdsOf(chans, def.refs) ELSE {}]
<1>1. def.mode \in {"unmanaged", "none", "listed"}
  BY DEF Definitions
<1> DEFINE routing == ResolvedRouting(def, chans)
<1>2. /\ routing.mode = def.mode
      /\ routing.ids = IF def.mode = "listed" THEN IdsOf(chans, def.refs) ELSE {}
  BY DEF ResolvedRouting, ResolveChannels, IdsOf
<1> HIDE DEF routing
<1>3. (IF RoutingIsStated(routing) THEN routing.ids ELSE {})
         = IF def.mode = "listed" THEN IdsOf(chans, def.refs) ELSE {}
  BY <1>2 DEF RoutingIsStated
<1>4. CreateRequestFor(def, routing) =
        [name |-> def.name, schedule |-> def.schedule, tz |-> def.tz,
         channels |-> IF def.mode = "listed" THEN IdsOf(chans, def.refs) ELSE {}]
  BY <1>3 DEF CreateRequestFor
<1> QED
  BY <1>4 DEF RequestOf, routing

LEMMA RequestsAreTyped ==
  ASSUME NEW def \in Definitions, NEW chans \in SUBSET AllChannels
  PROVE  RequestOf(def, chans) \in Requests /\ RequestOf(def, chans).name = def.name
<1> DEFINE ids == IF def.mode = "listed" THEN IdsOf(chans, def.refs) ELSE {}
<1>1. IdsOf(chans, def.refs) \subseteq Texts
  BY IdsAreIn DEF AllChannels
<1>2. ids \subseteq Texts /\ def.name \in Texts /\ def.schedule \in Texts /\ def.tz \in Texts
  BY <1>1 DEF Definitions
<1>3. RequestOf(def, chans) =
        [name |-> def.name, schedule |-> def.schedule, tz |-> def.tz, channels |-> ids]
  BY RequestIs
<1> HIDE DEF ids
<1> QED
  BY <1>2, <1>3 DEF Requests

\* Whether channels are verified is no part of a request, nor of its key.
LEMMA AlikeRequests ==
  ASSUME NEW def \in Definitions, NEW one, NEW other, Alike(one, other)
  PROVE  RequestOf(def, one) = RequestOf(def, other)
<1>1. ASSUME NEW id PROVE id \in IdsOf(one, def.refs) <=> id \in IdsOf(other, def.refs)
  BY IdsAreIn DEF Alike, Within
<1>2. IdsOf(one, def.refs) = IdsOf(other, def.refs)
  BY <1>1
<1> QED
  BY <1>2, RequestIs

LEMMA AlikeIsTransitive ==
  ASSUME NEW one, NEW other, NEW third, Alike(one, other), Alike(other, third)
  PROVE  Alike(one, third)
<1>1. Within(one, third)
  BY DEF Alike, Within
<1>2. Within(third, one)
  BY DEF Alike, Within
<1> QED
  BY <1>1, <1>2 DEF Alike

\* The identifiers of an account in a row.
LEMMA SequencesOfSets ==
  ASSUME NEW S, IsFiniteSet(S)
  PROVE  SetToSeq(S) \in [1..Cardinality(S) -> S] /\ Cardinality(S) \in Nat
<1>1. Cardinality(S) \in Nat
  BY FS_CardinalityType
<1>2. ExistsBijection(1..Cardinality(S), S)
  BY FS_CardinalityType
<1>3. PICK f \in Bijection(1..Cardinality(S), S) : TRUE
  BY <1>2 DEF ExistsBijection
<1>4. f \in [1..Cardinality(S) -> S] /\ \A x, y \in DOMAIN f : f[x] = f[y] => x = y
  BY <1>3 DEF Bijection, Injection, IsInjective
<1>5. IsInjective(f)
  BY <1>4 DEF IsInjective
<1> QED
  BY <1>1, <1>4, <1>5 DEF SetToSeq

-----------------------------------------------------------------------------
(* A plan.                                                                  *)

\* A row says what its definition asks for, and what is made or rerouted
\* reaches somebody unless the definition says that nobody is to hear of it.
LEMMA RowIsSound ==
  ASSUME NEW def \in Definitions, NEW chans \in SUBSET AllChannels,
         NEW acc, acc \in [DOMAIN acc -> Monitors], DOMAIN acc \subseteq Nat
  PROVE  /\ RowFor(def, chans, acc) \in PlanRows
         /\ RowFor(def, chans, acc).name = def.name
         /\ RowFor(def, chans, acc).action # "orphan"
         /\ RowFor(def, chans, acc).action \in {"create", "update"} =>
              Asked(def, RowFor(def, chans, acc), chans)
         /\ RowFor(def, chans, acc).action = "update" =>
              /\ RowFor(def, chans, acc).uuid \in DOMAIN acc
              /\ acc[RowFor(def, chans, acc).uuid].name = def.name
<1> DEFINE routing  == ResolvedRouting(def, chans)
           found    == {u \in DOMAIN acc : acc[u].name = def.name}
           uuid     == CHOOSE u \in found : TRUE
           attached == IF found = {} THEN {} ELSE acc[uuid].channels
           alerts   == AlertsFor(routing, chans, attached)
           changes  == DifferencesFrom(def, acc[uuid], routing)
           silent   == alerts = {} \/ (found # {} /\ acc[uuid].suppressed)
           request  == RequestOf(def, chans)
           row      == RowFor(def, chans, acc)
<1>1. row = IF ~routing.ok THEN Row("refused", def, 0, {}, routing, FALSE)
            ELSE IF IsConflict(found) THEN Row("conflict", def, 0, {}, routing, FALSE)
            ELSE IF WouldAlertNobody(alerts, routing, found) THEN Row("refused", def, 0, {}, routing, FALSE)
            ELSE IF found = {} THEN Row("create", def, 0, {}, routing, silent)
            ELSE IF changes = {} THEN Row("unchanged", def, uuid, {}, routing, silent)
            ELSE Row("update", def, uuid, FieldsSent(def, changes, routing), routing, silent)
  BY DEF RowFor
<1>2. CreateRequestFor(def, routing) = request
  BY DEF RequestOf
<1>3. request \in Requests /\ request.name = def.name
  BY RequestsAreTyped
<1>4. request.channels = IF def.mode = "listed" THEN IdsOf(chans, def.refs) ELSE {}
  BY RequestIs
<1>5. /\ routing.mode = def.mode /\ routing.ok \in BOOLEAN
      /\ def.mode = "listed" => routing.ids = IdsOf(chans, def.refs)
  BY DEF ResolvedRouting, ResolveChannels, IdsOf
<1>6. def.mode \in {"unmanaged", "none", "listed"} /\ def.name \in Texts
  BY DEF Definitions
<1>7. found # {} => uuid \in DOMAIN acc /\ acc[uuid].name = def.name
  OBVIOUS
<1>8. def.mode = "listed" => alerts = VerifiedAmong(chans, request.channels)
  BY <1>4, <1>5 DEF AlertsFor
<1>9. found = {} /\ def.mode = "unmanaged" => alerts = {}
  <2>1. VerifiedAmong(chans, {}) = {}
    BY DEF VerifiedAmong
  <2> QED
    BY <1>5, <2>1 DEF AlertsFor
<1>10. changes \subseteq Manages(def)
  <2>1. ASSUME NEW f \in changes PROVE f \in Fields
    BY DEF DifferencesFrom, Fields
  <2>2. "tz" \in changes => def.tz # Unstated
    BY DEF DifferencesFrom
  <2>3. "channels" \in changes => RoutingIsStated(routing)
    BY DEF DifferencesFrom
  <2> HIDE DEF changes, routing
  <2> QED
    BY <1>5, <2>1, <2>2, <2>3 DEF Manages, RoutingIsStated
<1>11. silent \in BOOLEAN
  OBVIOUS
<1>12. Manages(def) \subseteq Fields /\ ("channels" \in Manages(def) => def.mode # "unmanaged")
  BY DEF Manages
<1> HIDE DEF routing, found, uuid, attached, alerts, changes, silent, request, row
<1>13. \A action, id, fields, quiet :
         Row(action, def, id, fields, routing, quiet) =
           [action |-> action, name |-> def.name, uuid |-> id, fields |-> fields,
            request |-> request, silent |-> quiet]
  BY <1>2 DEF Row
<1> DEFINE Sound ==
      /\ row \in PlanRows /\ row.name = def.name /\ row.action # "orphan"
      /\ row.action \in {"create", "update"} => Asked(def, row, chans)
      /\ row.action = "update" => row.uuid \in DOMAIN acc /\ acc[row.uuid].name = def.name
<1>14. ASSUME \/ ~routing.ok \/ IsConflict(found) \/ WouldAlertNobody(alerts, routing, found)
       PROVE  Sound
  <2>1. row = Row("refused", def, 0, {}, routing, FALSE) \/ row = Row("conflict", def, 0, {}, routing, FALSE)
    BY <1>1, <1>14, Zenon
  <2> DEFINE Dead(action) ==
        [action |-> action, name |-> def.name, uuid |-> 0, fields |-> {},
         request |-> request, silent |-> FALSE]
  <2>2. Dead("refused") = Row("refused", def, 0, {}, routing, FALSE)
    BY <1>2 DEF Row
  <2>3. Dead("conflict") = Row("conflict", def, 0, {}, routing, FALSE)
    BY <1>2 DEF Row
  <2>4. ASSUME NEW action \in {"refused", "conflict"}
        PROVE  Dead(action) \in PlanRows /\ Dead(action).name = def.name /\ Dead(action).action = action
    BY <1>3, <1>6 DEF PlanRows
  <2> HIDE DEF Dead
  <2>5. row = Dead("refused") \/ row = Dead("conflict")
    BY <2>1, <2>2, <2>3, Zenon
  <2> QED
    BY <2>4, <2>5
<1>15. ASSUME ~(~routing.ok \/ IsConflict(found) \/ WouldAlertNobody(alerts, routing, found)), found = {}
       PROVE  Sound
  <2>1. row = Row("create", def, 0, {}, routing, silent)
    BY <1>1, <1>15
  <2>2. row = [action |-> "create", name |-> def.name, uuid |-> 0, fields |-> {},
               request |-> request, silent |-> silent]
    BY <1>13, <2>1
  <2>3. row \in PlanRows
    BY <1>3, <1>6, <1>11, <2>2 DEF PlanRows
  <2>4. def.mode # "none" => VerifiedAmong(chans, row.request.channels) # {}
    <3>1. def.mode = "listed" => VerifiedAmong(chans, row.request.channels) # {}
      BY <1>5, <1>8, <1>15, <2>2 DEF WouldAlertNobody
    <3>2. def.mode # "unmanaged"
      BY <1>5, <1>9, <1>15 DEF WouldAlertNobody
    <3> QED
      BY <1>6, <3>1, <3>2
  <2>5. Asked(def, row, chans)
    BY <2>2, <2>4 DEF Asked, request
  <2> QED
    BY <2>2, <2>3, <2>5
<1>16. ASSUME ~(~routing.ok \/ IsConflict(found) \/ WouldAlertNobody(alerts, routing, found)), found # {}
       PROVE  Sound
  <2>1. CASE changes = {}
    <3>1. row = Row("unchanged", def, uuid, {}, routing, silent)
      BY <1>1, <1>16, <2>1
    <3>2. row = [action |-> "unchanged", name |-> def.name, uuid |-> uuid, fields |-> {},
                 request |-> request, silent |-> silent]
      BY <1>13, <3>1
    <3>3. row \in PlanRows
      BY <1>3, <1>6, <1>7, <1>11, <1>16, <3>2 DEF PlanRows
    <3> QED
      BY <3>2, <3>3
  <2>2. CASE changes # {}
    <3>1. row = Row("update", def, uuid, changes, routing, silent)
      BY <1>1, <1>16, <2>2 DEF FieldsSent
    <3>2. row = [action |-> "update", name |-> def.name, uuid |-> uuid, fields |-> changes,
                 request |-> request, silent |-> silent]
      BY <1>13, <3>1
    <3>3. row \in PlanRows
      BY <1>3, <1>6, <1>7, <1>10, <1>11, <1>12, <1>16, <3>2 DEF PlanRows
    <3>4. def.mode # "none" /\ "channels" \in row.fields => VerifiedAmong(chans, row.request.channels) # {}
      <4>1. def.mode = "listed" => VerifiedAmong(chans, row.request.channels) # {}
        BY <1>5, <1>8, <1>16, <3>2 DEF WouldAlertNobody
      <4> QED
        BY <1>6, <1>10, <1>12, <3>2, <4>1
    <3>5. Asked(def, row, chans)
      BY <1>10, <3>2, <3>4 DEF Asked, request
    <3> QED
      BY <1>7, <1>16, <3>2, <3>3, <3>5
  <2> QED
    BY <2>1, <2>2
<1> QED
  BY <1>14, <1>15, <1>16 DEF row

LEMMA FunctionIsSeq ==
  ASSUME NEW S, NEW n \in Nat, NEW f \in [1..n -> S]
  PROVE  f \in Seq(S) /\ Len(f) = n
<1>1. f \in Seq(S)
  BY SeqDef
<1>2. 1..Len(f) = 1..n /\ Len(f) \in Nat
  BY <1>1, LenProperties
<1> QED
  BY <1>1, <1>2

\* A row for an orphan names the monitor it would delete.
LEMMA OrphanIsSound ==
  ASSUME NEW u \in Nat, NEW monitor \in Monitors, NEW chans
  PROVE  /\ OrphanRow(u, monitor, chans) \in PlanRows
         /\ OrphanRow(u, monitor, chans).action = "orphan"
         /\ OrphanRow(u, monitor, chans).name = monitor.name
         /\ OrphanRow(u, monitor, chans).uuid = u
<1> DEFINE silent == VerifiedAmong(chans, monitor.channels) = {} \/ monitor.suppressed
<1>1. silent \in BOOLEAN /\ monitor.name \in Texts
  BY DEF Monitors
<1>2. OrphanRow(u, monitor, chans) =
        [action |-> "orphan", name |-> monitor.name, uuid |-> u, fields |-> {},
         request |-> <<>>, silent |-> silent]
  BY DEF OrphanRow
<1> HIDE DEF silent
<1> QED
  BY <1>1, <1>2 DEF PlanRows

\* A plan has a row for each definition and one for each orphan, and no other.
LEMMA PlanIsSound ==
  ASSUME NEW definitions \in Seq(Definitions), NEW chans \in SUBSET AllChannels,
         NEW acc, acc \in [DOMAIN acc -> Monitors], DOMAIN acc \subseteq Nat, IsFiniteSet(DOMAIN acc)
  PROVE  /\ PlanSync(definitions, chans, acc) \in Seq(PlanRows)
         /\ \A d \in DOMAIN definitions :
              /\ d \in DOMAIN PlanSync(definitions, chans, acc)
              /\ PlanSync(definitions, chans, acc)[d] = RowFor(definitions[d], chans, acc)
         /\ \A i \in DOMAIN PlanSync(definitions, chans, acc) :
              \/ /\ i \in DOMAIN definitions
                 /\ PlanSync(definitions, chans, acc)[i] = RowFor(definitions[i], chans, acc)
              \/ \E u \in OrphansIn(definitions, acc) :
                   PlanSync(definitions, chans, acc)[i] = OrphanRow(u, acc[u], chans)
<1> DEFINE S == OrphansIn(definitions, acc)
           n == Cardinality(S)
           orphans == SetToSeq(S)
           some == [i \in DOMAIN definitions |-> RowFor(definitions[i], chans, acc)]
           more == [i \in DOMAIN orphans |-> OrphanRow(orphans[i], acc[orphans[i]], chans)]
           rows == PlanSync(definitions, chans, acc)
<1>1. S \subseteq DOMAIN acc
  BY DEF OrphansIn
<1>2. IsFiniteSet(S)
  BY <1>1, FS_Subset
<1>3. orphans \in [1..n -> S] /\ n \in Nat
  BY <1>2, SequencesOfSets
<1>4. DOMAIN definitions = 1..Len(definitions) /\ Len(definitions) \in Nat
  BY LenProperties
<1>5. \A i \in DOMAIN definitions : definitions[i] \in Definitions
  BY <1>4, ElementOfSeq
<1>6. \A i \in DOMAIN definitions : RowFor(definitions[i], chans, acc) \in PlanRows
  BY <1>5, RowIsSound
<1>7. rows = some \o more
  BY DEF PlanSync
<1> HIDE DEF S, orphans, rows, n
<1>8. \A i \in 1..n : orphans[i] \in S /\ OrphanRow(orphans[i], acc[orphans[i]], chans) \in PlanRows
  <2> TAKE i \in 1..n
  <2>1. orphans[i] \in S
    BY <1>3
  <2>2. orphans[i] \in Nat /\ acc[orphans[i]] \in Monitors
    BY <1>1, <2>1
  <2> QED
    BY <2>1, <2>2, OrphanIsSound
<1>9. some \in [1..Len(definitions) -> PlanRows]
  BY <1>4, <1>6
<1>10. more \in [1..n -> PlanRows]
  BY <1>3, <1>8
<1>11. some \in Seq(PlanRows) /\ Len(some) = Len(definitions)
  BY <1>4, <1>9, FunctionIsSeq
<1>12. more \in Seq(PlanRows) /\ Len(more) = n
  BY <1>3, <1>10, FunctionIsSeq
<1>13. \A i \in 1..Len(definitions) : some[i] = RowFor(definitions[i], chans, acc)
  BY <1>4
<1>14. \A i \in 1..n : more[i] = OrphanRow(orphans[i], acc[orphans[i]], chans)
  BY <1>3
<1> HIDE DEF some, more
<1>15. /\ rows \in Seq(PlanRows) /\ Len(rows) = Len(definitions) + n
       /\ \A i \in 1..(Len(definitions) + n) :
            rows[i] = IF i <= Len(definitions) THEN some[i] ELSE more[i - Len(definitions)]
  <2>1. /\ some \o more \in Seq(PlanRows) /\ Len(some \o more) = Len(some) + Len(more)
        /\ \A i \in 1..(Len(some) + Len(more)) :
             (some \o more)[i] = IF i <= Len(some) THEN some[i] ELSE more[i - Len(some)]
    BY <1>11, <1>12, ConcatProperties, Zenon
  <2> QED
    BY <1>7, <1>11, <1>12, <2>1, Zenon
<1>16. DOMAIN rows = 1..(Len(definitions) + n)
  BY <1>15, LenProperties
<1>17. ASSUME NEW d \in DOMAIN definitions
       PROVE  d \in DOMAIN rows /\ rows[d] = RowFor(definitions[d], chans, acc)
  <2>1. d \in 1..Len(definitions) /\ d <= Len(definitions) /\ d \in 1..(Len(definitions) + n)
    BY <1>3, <1>4
  <2>2. rows[d] = some[d]
    BY <1>15, <2>1, Zenon
  <2>3. some[d] = RowFor(definitions[d], chans, acc)
    BY <1>13, <2>1, Zenon
  <2> QED
    BY <1>16, <2>1, <2>2, <2>3, Zenon
<1>18. ASSUME NEW i \in DOMAIN rows
       PROVE  \/ i \in DOMAIN definitions /\ rows[i] = RowFor(definitions[i], chans, acc)
              \/ \E u \in S : rows[i] = OrphanRow(u, acc[u], chans)
  <2>1. CASE i <= Len(definitions)
    BY <1>4, <1>16, <1>17, <2>1
  <2>2. CASE i > Len(definitions)
    <3>1. i - Len(definitions) \in 1..n /\ rows[i] = more[i - Len(definitions)]
      BY <1>3, <1>4, <1>15, <1>16, <2>2
    <3> QED
      BY <1>8, <1>14, <3>1
  <2> QED
    BY <1>3, <1>4, <1>16, <2>1, <2>2
<1> QED
  BY <1>15, <1>17, <1>18 DEF rows, S

-----------------------------------------------------------------------------
(* What becomes of a run.                                                   *)

Errors == Kinds \cup {"network-error", "not-found", "conflict"}

LEMMA NoRows ==
  /\ <<>> \in Seq(PlanRows) /\ DOMAIN <<>> = {}
  /\ Work(<<>>) = {} /\ Orphans(<<>>) = {}
<1>1. <<>> \in Seq(PlanRows) /\ DOMAIN <<>> = {}
  OBVIOUS
<1> QED
  BY <1>1 DEF Work, Orphans

LEMMA FreshIs ==
  ASSUME NEW mode \in [apply : BOOLEAN, check : BOOLEAN, prune : BOOLEAN, yes : BOOLEAN]
  PROVE  /\ Fresh(mode) \in State
         /\ Fresh(mode).pc = "start" /\ Fresh(mode).rows = <<>> /\ Fresh(mode).todo = {}
         /\ Fresh(mode).doomed = {} /\ Fresh(mode).landed = {} /\ Fresh(mode).heard = {}
         /\ Fresh(mode).stopped = FALSE /\ Fresh(mode).failures = 0 /\ Fresh(mode).exit = -1
<1> DEFINE none == <<>>
<1>1. none \in Seq(PlanRows)
  BY NoRows
<1>2. Fresh(mode) =
        [pc |-> "start", mode |-> mode, channels |-> {}, rows |-> none, todo |-> {},
         landed |-> {}, failures |-> 0, stopped |-> FALSE, pointless |-> FALSE,
         doomed |-> {}, deleted |-> 0, unsafe |-> FALSE, declined |-> FALSE, exit |-> -1,
         missed |-> FALSE, heard |-> {}]
  BY DEF Fresh
<1>3. none = <<>>
  OBVIOUS
<1> HIDE DEF none
<1> QED
  BY <1>1, <1>2, <1>3 DEF State

\* A run that says nothing and has nothing left to do is ready.
LEMMA EmptyIsReady ==
  ASSUME NEW r \in Runs, NEW next \in State, next.pc \in {"start", "over"},
         next.exit = -1 <=> next.pc # "over",
         next.rows = <<>>, next.todo = {}, next.doomed = {}, next.landed = {}, next.heard = {},
         next.stopped = FALSE, next.failures = 0
  PROVE  Ready(r, next)
<1>1. PlannedFor(next, config[r])
  BY NoRows DEF PlannedFor
<1>2. AppliedTo(next, config[r])
  BY NoRows DEF AppliedTo
<1> QED
  BY <1>1, <1>2 DEF Ready

\* A status is 0, 1 or 2, and what is over says nothing more.
LEMMA OverIsReady ==
  ASSUME NEW r \in Runs, NEW state \in State
  PROVE  Ready(r, Over(state)) /\ Over(state).failures = 0
<1> DEFINE status == ExitStatus(state)
           fresh == Fresh(state.mode)
<1>1. status \in {0, 1, 2}
  BY DEF ExitStatus
<1>2. state.mode \in [apply : BOOLEAN, check : BOOLEAN, prune : BOOLEAN, yes : BOOLEAN]
  BY DEF State
<1> DEFINE declined == state.declined
           missed == state.missed
<1>10. declined \in BOOLEAN /\ missed \in BOOLEAN
  BY DEF State
<1>3. /\ fresh \in State /\ fresh.rows = <<>> /\ fresh.todo = {}
      /\ fresh.doomed = {} /\ fresh.landed = {} /\ fresh.heard = {}
      /\ fresh.stopped = FALSE /\ fresh.failures = 0
  BY <1>2, FreshIs
<1>4. Over(state) =
        [fresh EXCEPT !.pc = "over", !.exit = status, !.declined = declined, !.missed = missed]
  BY DEF Over
<1> HIDE DEF status, fresh, declined, missed
<1>5. fresh \in State
  BY <1>3
<1>6. Over(state) \in State
  <2> DEFINE closed == [fresh EXCEPT !.pc = "over"]
             spoken == [closed EXCEPT !.exit = status]
             asked == [spoken EXCEPT !.declined = declined]
             left == [asked EXCEPT !.missed = missed]
  <2>1. closed \in State
    BY <1>5 DEF State
  <2>2. spoken \in State
    <3> HIDE DEF closed
    <3> QED
      BY <1>1, <2>1 DEF State
  <2>3. asked \in State
    <3> HIDE DEF spoken
    <3> QED
      BY <1>10, <2>2 DEF State
  <2>4. left \in State
    <3> HIDE DEF asked
    <3> QED
      BY <1>10, <2>3 DEF State
  <2>5. Over(state) = left
    BY <1>4, <1>5 DEF State
  <2> QED
    BY <2>4, <2>5
<1>7. /\ Over(state).pc = "over" /\ Over(state).exit = status /\ Over(state).rows = <<>>
      /\ Over(state).todo = {} /\ Over(state).doomed = {} /\ Over(state).landed = {}
      /\ Over(state).heard = {} /\ Over(state).stopped = FALSE /\ Over(state).failures = 0
  BY <1>3, <1>4, <1>5 DEF State
<1> DEFINE over == Over(state)
<1> HIDE DEF over
<1>8. over.exit # -1 /\ over.pc = "over"
  BY <1>1, <1>7 DEF over
<1>9. Ready(r, over)
  BY <1>6, <1>7, <1>8, EmptyIsReady DEF over
<1> QED
  BY <1>7, <1>9 DEF over

\* What keeps the rows of a plan and what it was made from keeps its promises.
LEMMA SamePlan ==
  ASSUME NEW state, NEW next, NEW definitions, PlannedFor(state, definitions),
         next.rows = state.rows, next.channels = state.channels
  PROVE  PlannedFor(next, definitions)
BY DEF PlannedFor

\* A failure is counted and heard.
LEMMA RecordIsReady ==
  ASSUME NEW r \in Runs, NEW state, NEW row, NEW error \in Errors, Ready(r, state),
         state.pc \in {"applying", "pruning"}
  PROVE  /\ Ready(r, Record(state, row, error))
         /\ Record(state, row, error).pc = state.pc
         /\ Record(state, row, error).failures > 0
         /\ Record(state, row, error).todo = state.todo /\ Record(state, row, error).rows = state.rows
<1> DEFINE count == state.failures + 1
           heard == state.heard \cup {error}
           stop  == state.stopped \/ RefusesEverything(error)
           vain  == state.pointless \/ (row.action = "create" /\ RefusesEveryCreate(error))
           next  == Record(state, row, error)
<1>1. state \in State /\ state.failures \in Nat /\ state.heard \subseteq Errors /\ state.stopped \in BOOLEAN
  BY DEF Ready, State, Errors
<1>2. count \in Nat /\ count > 0 /\ heard \subseteq Errors /\ stop \in BOOLEAN /\ vain \in BOOLEAN
  BY <1>1
<1>3. next = [state EXCEPT !.failures = count, !.heard = heard, !.stopped = stop, !.pointless = vain]
  BY DEF Record
<1>4. heard = state.heard \cup {error}
  OBVIOUS
<1>5. stop <=> state.stopped \/ RefusesEverything(error)
  OBVIOUS
<1> HIDE DEF count, heard, stop, vain, next
<1>6. state \in State
  BY <1>1
<1>7. next \in State
  BY <1>2, <1>3, <1>6 DEF State, Errors
<1>8. /\ next.pc = state.pc /\ next.rows = state.rows /\ next.channels = state.channels
      /\ next.todo = state.todo /\ next.doomed = state.doomed /\ next.landed = state.landed
      /\ next.exit = state.exit /\ next.failures = count /\ next.heard = heard /\ next.stopped = stop
  BY <1>3, <1>6 DEF State
<1>9. PlannedFor(next, config[r])
  BY <1>8, SamePlan DEF Ready
<1>10. AppliedTo(state, config[r])
  BY DEF Ready
<1>11. stop <=> \E kind \in heard : RefusesEverything(kind)
  BY <1>4, <1>5, <1>10 DEF AppliedTo
<1>12. AppliedTo(next, config[r])
  BY <1>2, <1>8, <1>10, <1>11 DEF AppliedTo
<1>13. Ready(r, next)
  BY <1>7, <1>8, <1>9, <1>12 DEF Ready
<1> QED
  BY <1>2, <1>8, <1>13 DEF next

\* What is to be done next is in the plan.
LEMMA NextIs ==
  ASSUME NEW r \in Runs, NEW state, Ready(r, state), state.todo # {}
  PROVE  /\ Min(state.todo) \in state.todo /\ Min(state.todo) \in DOMAIN state.rows
         /\ NextRow(state) = state.rows[Min(state.todo)]
         /\ NextRow(state) \in PlanRows /\ NextRow(state).action \in {"create", "update"}
         /\ NextRow(state).name \in Described(config[r])
         /\ \E d \in DOMAIN config[r] : Asked(config[r][d], NextRow(state), state.channels)
         /\ NextRow(state).action = "update" => Names(NextRow(state))
<1>1. state.todo \subseteq Nat /\ state.rows \in Seq(PlanRows)
  BY DEF Ready, State
<1>2. Min(state.todo) \in state.todo
  BY <1>1, MinIsIn
<1> DEFINE i == Min(state.todo)
<1> HIDE DEF i
<1>3. i \in state.todo
  BY <1>2 DEF i
<1>4. i \in DOMAIN state.rows /\ state.rows[i].action \in {"create", "update"}
  BY <1>3 DEF Ready, AppliedTo, Work
<1>5. state.rows[i] \in PlanRows
  BY <1>1, <1>4, LenProperties, ElementOfSeq
<1>6. /\ \E d \in DOMAIN config[r] : Asked(config[r][d], state.rows[i], state.channels)
      /\ state.rows[i].action = "update" => Names(state.rows[i])
  BY <1>4 DEF Ready, PlannedFor
<1>7. state.rows[i].name \in Described(config[r])
  BY <1>6 DEF Asked, Described
<1> QED
  BY <1>3, <1>4, <1>5, <1>6, <1>7 DEF NextRow, i

\* A row lands.
LEMMA LandedIsReady ==
  ASSUME NEW r \in Runs, NEW state, NEW row, Ready(r, state), state.pc = "applying",
         row.name \in Described(config[r]), row.name \in Texts
  PROVE  /\ Ready(r, Landed(state, row))
         /\ Landed(state, row).pc = "applying" /\ row.name \in Landed(state, row).landed
         /\ Landed(state, row).todo = state.todo /\ Landed(state, row).rows = state.rows
<1> DEFINE landed == state.landed \cup {row.name}
           next   == Landed(state, row)
<1>1. state \in State
  BY DEF Ready
<1>2. landed \subseteq Texts
  BY <1>1 DEF State
<1>3. next = [state EXCEPT !.landed = landed]
  BY DEF Landed
<1>4. landed = state.landed \cup {row.name}
  OBVIOUS
<1> HIDE DEF landed, next
<1>5. next \in State
  BY <1>1, <1>2, <1>3 DEF State
<1>6. /\ next.pc = state.pc /\ next.rows = state.rows /\ next.channels = state.channels
      /\ next.todo = state.todo /\ next.doomed = state.doomed /\ next.landed = landed
      /\ next.exit = state.exit /\ next.failures = state.failures /\ next.heard = state.heard
      /\ next.stopped = state.stopped
  BY <1>1, <1>3 DEF State
<1>7. PlannedFor(next, config[r])
  BY <1>6, SamePlan DEF Ready
<1>8. AppliedTo(state, config[r])
  BY DEF Ready
<1>9. AppliedTo(next, config[r])
  BY <1>4, <1>6, <1>8 DEF AppliedTo
<1>10. Ready(r, next)
  BY <1>5, <1>6, <1>7, <1>9 DEF Ready
<1> QED
  BY <1>4, <1>6, <1>10 DEF next

\* The run goes on to the next row, of this one that has landed or failed.
LEMMA RestIsReady ==
  ASSUME NEW r \in Runs, NEW state, Ready(r, state), state.pc = "applying", state.todo # {},
         state.failures = 0 => NextRow(state).name \in state.landed
  PROVE  Ready(r, Rest(state))
<1> DEFINE todo == state.todo \ {Min(state.todo)}
           next == Rest(state)
<1>1. state \in State
  BY DEF Ready
<1>2. todo \subseteq Nat
  BY <1>1 DEF State
<1>3. next = [state EXCEPT !.todo = todo]
  BY DEF Rest
<1>4. todo \subseteq state.todo
  OBVIOUS
<1>5. \A i \in state.todo : i \in todo \/ state.rows[i] = NextRow(state)
  BY DEF NextRow
<1> HIDE DEF todo, next
<1>6. next \in State
  BY <1>1, <1>2, <1>3 DEF State
<1>7. /\ next.pc = state.pc /\ next.rows = state.rows /\ next.channels = state.channels
      /\ next.todo = todo /\ next.doomed = state.doomed /\ next.landed = state.landed
      /\ next.exit = state.exit /\ next.failures = state.failures /\ next.heard = state.heard
      /\ next.stopped = state.stopped
  BY <1>1, <1>3 DEF State
<1>8. PlannedFor(next, config[r])
  BY <1>7, SamePlan DEF Ready
<1>9. AppliedTo(state, config[r])
  BY DEF Ready
<1>10. ASSUME state.failures = 0, NEW name \in Described(config[r])
       PROVE  name \in state.landed \/ \E i \in todo : state.rows[i].name = name
  <2>1. name \in state.landed \/ \E i \in state.todo : state.rows[i].name = name
    BY <1>9, <1>10 DEF AppliedTo
  <2> QED
    BY <1>5, <1>10, <2>1
<1>11. AppliedTo(next, config[r])
  BY <1>4, <1>7, <1>9, <1>10 DEF AppliedTo
<1> QED
  BY <1>6, <1>7, <1>8, <1>11 DEF Ready, next

\* A failure that is only counted.
LEMMA CountedIsReady ==
  ASSUME NEW r \in Runs, NEW state, Ready(r, state), state.pc = "applying"
  PROVE  /\ Ready(r, [state EXCEPT !.failures = @ + 1])
         /\ [state EXCEPT !.failures = @ + 1].pc = "applying"
         /\ [state EXCEPT !.failures = @ + 1].failures > 0
         /\ [state EXCEPT !.failures = @ + 1].todo = state.todo
<1> DEFINE count == state.failures + 1
           next  == [state EXCEPT !.failures = @ + 1]
<1>1. state \in State
  BY DEF Ready
<1>2. count \in Nat /\ count > 0
  BY <1>1 DEF State
<1>3. next = [state EXCEPT !.failures = count]
  OBVIOUS
<1> HIDE DEF count, next
<1>4. next \in State
  BY <1>1, <1>2, <1>3 DEF State
<1>5. /\ next.pc = state.pc /\ next.rows = state.rows /\ next.channels = state.channels
      /\ next.todo = state.todo /\ next.doomed = state.doomed /\ next.landed = state.landed
      /\ next.exit = state.exit /\ next.failures = count /\ next.heard = state.heard
      /\ next.stopped = state.stopped
  BY <1>1, <1>3 DEF State
<1>6. PlannedFor(next, config[r])
  BY <1>5, SamePlan DEF Ready
<1>7. AppliedTo(state, config[r])
  BY DEF Ready
<1>8. AppliedTo(next, config[r])
  BY <1>2, <1>5, <1>7 DEF AppliedTo
<1>9. Ready(r, next)
  BY <1>4, <1>5, <1>6, <1>8 DEF Ready
<1> QED
  BY <1>2, <1>5, <1>9 DEF next

\* However a row ends, the run is ready for the next.
LEMMA RowsEnd ==
  ASSUME NEW r \in Runs, NEW state, Ready(r, state), state.pc = "applying", state.todo # {}
  PROVE  /\ Ready(r, Rest(Landed(state, NextRow(state))))
         /\ \A error \in Errors : Ready(r, Rest(Record(state, NextRow(state), error)))
         /\ Ready(r, Rest([state EXCEPT !.failures = @ + 1]))
<1> DEFINE row == NextRow(state)
<1>1. row.name \in Described(config[r]) /\ row \in PlanRows
  BY NextIs
<1>2. row.name \in Texts
  BY <1>1 DEF PlanRows
<1> HIDE DEF row
<1>3. Ready(r, Rest(Landed(state, row)))
  <2> DEFINE next == Landed(state, row)
  <2>1. /\ Ready(r, next) /\ next.pc = "applying" /\ row.name \in next.landed
        /\ next.todo = state.todo /\ next.rows = state.rows
    BY <1>1, <1>2, LandedIsReady
  <2> HIDE DEF next
  <2>2. NextRow(next) = row
    BY <2>1 DEF NextRow, row
  <2>3. Ready(r, Rest(next))
    BY <2>1, <2>2, RestIsReady
  <2> QED
    BY <2>3 DEF next
<1>4. ASSUME NEW error \in Errors PROVE Ready(r, Rest(Record(state, row, error)))
  <2> DEFINE next == Record(state, row, error)
  <2>1. /\ Ready(r, next) /\ next.pc = "applying" /\ next.failures > 0 /\ next.todo = state.todo
    BY RecordIsReady
  <2> HIDE DEF next
  <2>2. next.failures # 0
    BY <2>1 DEF Ready, State
  <2>3. Ready(r, Rest(next))
    BY <2>1, <2>2, RestIsReady
  <2> QED
    BY <2>3 DEF next
<1>5. Ready(r, Rest([state EXCEPT !.failures = @ + 1]))
  <2> DEFINE next == [state EXCEPT !.failures = @ + 1]
  <2>1. /\ Ready(r, next) /\ next.pc = "applying" /\ next.failures > 0 /\ next.todo = state.todo
    BY CountedIsReady
  <2> HIDE DEF next
  <2>2. next.failures # 0
    BY <2>1 DEF Ready, State
  <2>3. Ready(r, Rest(next))
    BY <2>1, <2>2, RestIsReady
  <2> QED
    BY <2>3 DEF next
<1> QED
  BY <1>3, <1>4, <1>5 DEF row

-----------------------------------------------------------------------------
(* Steps.                                                                   *)

\* What no step does: change a configuration, forget an identifier, rename a
\* monitor or bring one back, or change the channels but for their being verified.
Keeps ==
  /\ config' = config
  /\ DOMAIN born \subseteq DOMAIN born'
  /\ \A u \in DOMAIN account' : u \in DOMAIN born => u \in DOMAIN account /\ account'[u].name = account[u].name
  /\ Alike(channels, channels')

LEMMA ReadyKept ==
  ASSUME Keeps, NEW r \in Runs, NEW state, Ready(r, state)
  PROVE  Ready(r, state)'
<1>1. ASSUME NEW row, Names(row) PROVE Names(row)'
  BY <1>1 DEF Names, Keeps
<1>2. PlannedFor(state, config[r])'
  <2>1. PlannedFor(state, config[r]) /\ config'[r] = config[r]
    BY DEF Ready, Keeps
  <2>2. ASSUME NEW i \in DOMAIN state.rows
        PROVE  LET row == state.rows[i] IN
                 /\ row.action \in {"create", "update"} =>
                      \E d \in DOMAIN config'[r] : Asked(config'[r][d], row, state.channels)
                 /\ row.action \in {"update", "orphan"} => Names(row)'
                 /\ row.action = "orphan" => row.name \notin Described(config'[r])
    BY <1>1, <2>1 DEF PlannedFor
  <2> QED
    BY <2>2 DEF PlannedFor
<1>3. AppliedTo(state, config[r])'
  BY DEF Ready, Keeps, AppliedTo
<1>4. state.pc \notin {"start", "over"} => Alike(state.channels, channels')
  BY AlikeIsTransitive DEF Ready, Keeps
<1> QED
  BY <1>2, <1>3, <1>4 DEF Ready

LEMMA MintedKept ==
  ASSUME Typed, Keeps, NEW key, Minted(key)
  PROVE  Minted(key)'
<1>0. PICK r \in Runs : \E i \in DOMAIN config[r] :
      key = <<RequestOf(config[r][i], channels), RequestOf(config[r][i], channels)>>
  BY DEF Minted
<1>1. PICK i \in DOMAIN config[r] :
        key = <<RequestOf(config[r][i], channels), RequestOf(config[r][i], channels)>>
  BY <1>0
<1>2. config[r] \in Seq(Definitions)
  BY DEF Typed
<1>3. config[r][i] \in Definitions
  BY <1>2, LenProperties, ElementOfSeq
<1>4. RequestOf(config[r][i], channels) = RequestOf(config[r][i], channels')
  BY <1>3, AlikeRequests DEF Keeps
<1> QED
  BY <1>1, <1>4 DEF Minted, Keeps

LEMMA MadeKept ==
  ASSUME Typed, Made, Keeps, DOMAIN account' \subseteq DOMAIN born,
         DOMAIN stored' \subseteq DOMAIN stored, \A key \in DOMAIN stored' : stored'[key] = stored[key]
  PROVE  Made'
<1>1. ASSUME NEW key \in DOMAIN stored'
      PROVE  /\ Minted(key)'
             /\ stored'[key] \in DOMAIN account' => account'[stored'[key]].name = key[2].name
  <2>1. Minted(key) /\ (stored[key] \in DOMAIN account => account[stored[key]].name = key[2].name)
    BY <1>1 DEF Made
  <2>2. Minted(key)'
    BY <2>1, MintedKept
  <2>3. stored'[key] = stored[key] /\ stored[key] \in DOMAIN born
    BY <1>1 DEF Typed, AccountTyped
  <2> QED
    BY <2>1, <2>2, <2>3 DEF Keeps
<1> QED
  BY <1>1 DEF Made

\* A run goes on, and the account with it.
LEMMA StepKeeps ==
  ASSUME SInv, Keeps, AccountTyped', Made', UNCHANGED <<others, lapsed>>,
         NEW r \in Runs, NEW next, Ready(r, next), run' = [run EXCEPT ![r] = next]
  PROVE  SInv'
<1>1. run \in [Runs -> State] /\ next \in State
  BY DEF SInv, Typed, Ready
<1>2. run' \in [Runs -> State]
  BY <1>1
<1>3. Typed'
  BY <1>2 DEF SInv, Typed, Keeps
<1>4. ASSUME NEW q \in Runs PROVE Ready(q, run[q])'
  <2>1. PICK state : state = run'[q]
    OBVIOUS
  <2>2. Ready(q, state)
    BY <1>1, <2>1 DEF SInv
  <2>3. Ready(q, state)'
    BY <2>2, ReadyKept
  <2> QED
    BY <2>1, <2>3
<1> QED
  BY <1>3, <1>4 DEF SInv

\* Others change the account, and no run hears of it.
LEMMA OthersKeep ==
  ASSUME SInv, Keeps, AccountTyped', UNCHANGED <<stored, born, run, lapsed>>,
         others < Others, others' = others + 1, DOMAIN account' \subseteq DOMAIN born
  PROVE  SInv'
<1>1. others' \in 0..Others
  BY BoundsAssumption DEF SInv, Typed
<1>2. Typed'
  BY <1>1 DEF SInv, Typed, Keeps
<1>3. Made'
  BY MadeKept DEF SInv
<1>4. ASSUME NEW q \in Runs PROVE Ready(q, run[q])'
  <2>1. PICK state : state = run[q]
    OBVIOUS
  <2>2. Ready(q, state)'
    BY <2>1, ReadyKept DEF SInv
  <2> QED
    BY <2>1, <2>2
<1> QED
  BY <1>2, <1>3, <1>4 DEF SInv

LEMMA AlikeItself ==
  ASSUME NEW chans
  PROVE  Alike(chans, chans)
BY DEF Alike, Within

\* A run goes on, and the account stays.
LEMMA QuietStep ==
  ASSUME SInv, UNCHANGED <<account, channels, stored, config, born, others, lapsed>>,
         NEW r \in Runs, NEW next, Ready(r, next), run' = [run EXCEPT ![r] = next]
  PROVE  SInv'
<1>1. Keeps
  BY AlikeItself DEF Keeps, SInv, Typed, AccountTyped
<1>2. AccountTyped'
  BY DEF SInv, Typed, AccountTyped
<1>3. Made'
  BY <1>1, MadeKept DEF SInv, Typed, AccountTyped
<1> QED
  BY <1>1, <1>2, <1>3, StepKeeps

-----------------------------------------------------------------------------
(* Reading the account and planning.                                        *)

LEMMA ListChannelsKeeps ==
  ASSUME SInv, NEW r \in Runs, ListChannels(r)
  PROVE  SInv'
<1> DEFINE state == run[r]
           next  == [state EXCEPT !.pc = "listing", !.channels = channels]
<1>1. state \in State /\ Ready(r, state) /\ channels \subseteq AllChannels
  BY Known DEF SInv, Typed, AccountTyped
<1>2. state.pc = "start" /\ run' = [run EXCEPT ![r] = next]
  BY DEF ListChannels, Becomes
<1>3. UNCHANGED <<account, channels, stored, config, born, others, lapsed>>
  BY DEF ListChannels
<1> HIDE DEF state
<1>4. state \in State
  BY <1>1
<1>5. next \in State
  BY <1>1, <1>4 DEF State
<1>6. /\ next.pc = "listing" /\ next.channels = channels /\ next.rows = state.rows
      /\ next.todo = state.todo /\ next.doomed = state.doomed /\ next.landed = state.landed
      /\ next.exit = state.exit /\ next.failures = state.failures /\ next.heard = state.heard
      /\ next.stopped = state.stopped
  BY <1>4 DEF State
<1> HIDE DEF next
<1>7. AppliedTo(state, config[r]) /\ state.rows = <<>> /\ state.exit = -1
  BY <1>1, <1>2 DEF Ready, AppliedTo
<1>8. PlannedFor(next, config[r])
  BY <1>6, <1>7, NoRows DEF PlannedFor
<1>9. AppliedTo(next, config[r])
  BY <1>2, <1>6, <1>7 DEF AppliedTo
<1>10. Ready(r, next)
  BY <1>5, <1>6, <1>7, <1>8, <1>9, AlikeItself DEF Ready
<1> QED
  BY <1>2, <1>3, <1>10, QuietStep

LEMMA CannotPlanKeeps ==
  ASSUME SInv, NEW r \in Runs, CannotPlan(r)
  PROVE  SInv'
<1> DEFINE state == run[r]
           next  == [state EXCEPT !.pc = "over", !.exit = 1]
<1>1. state \in State /\ Ready(r, state)
  BY Known
<1>2. state.pc \in {"start", "listing"} /\ run' = [run EXCEPT ![r] = next]
  BY DEF CannotPlan, Becomes
<1>3. UNCHANGED <<account, channels, stored, config, born, others, lapsed>>
  BY DEF CannotPlan
<1> HIDE DEF state
<1>4. state \in State
  BY <1>1
<1>5. next \in State
  BY <1>4 DEF State
<1>6. /\ next.pc = "over" /\ next.exit = 1 /\ next.rows = state.rows
      /\ next.todo = state.todo /\ next.doomed = state.doomed /\ next.landed = state.landed
      /\ next.failures = state.failures /\ next.heard = state.heard
      /\ next.stopped = state.stopped
  BY <1>4 DEF State
<1> HIDE DEF next
<1>7. AppliedTo(state, config[r])
  BY <1>1 DEF Ready
<1>8. /\ state.rows = <<>> /\ state.todo = {} /\ state.doomed = {} /\ state.landed = {}
      /\ state.heard = {} /\ state.failures = 0
  BY <1>2, <1>7, NoRows DEF AppliedTo
<1>9. state.stopped = FALSE
  <2>1. ~state.stopped
    BY <1>7, <1>8 DEF AppliedTo
  <2>2. state.stopped \in BOOLEAN
    BY <1>4 DEF State
  <2> QED
    BY <2>1, <2>2
<1>10. next.exit = -1 <=> next.pc # "over"
  BY <1>6
<1>11. next.pc \in {"start", "over"}
  BY <1>6
<1>12. Ready(r, next)
  BY <1>5, <1>6, <1>8, <1>9, <1>10, <1>11, EmptyIsReady
<1> QED
  BY <1>2, <1>3, <1>12, QuietStep

\* How many rows there are of some kind, and which there are if there are none.
LEMMA Counts ==
  ASSUME NEW rows \in Seq(PlanRows), NEW action
  PROVE  /\ CountOf(rows, action) \in Nat
         /\ CountOf(rows, action) = 0 => \A i \in DOMAIN rows : rows[i].action # action
<1> DEFINE S == {i \in DOMAIN rows : rows[i].action = action}
<1>1. DOMAIN rows = 1..Len(rows) /\ Len(rows) \in Nat
  BY LenProperties
<1>2. IsFiniteSet(S)
  <2>1. IsFiniteSet(1..Len(rows))
    BY <1>1, FS_Interval
  <2> QED
    BY <1>1, <2>1, FS_Subset
<1>3. Cardinality(S) \in Nat /\ (Cardinality(S) = 0 <=> S = {})
  BY <1>2, FS_CardinalityType, FS_EmptySet
<1> QED
  BY <1>3 DEF CountOf

\* A plan that is about to be applied has a row to come for whatever of the
\* configuration does not stand already.
LEMMA PlanIsReady ==
  ASSUME SInv, NEW r \in Runs, run[r].pc = "listing", NEW rows, NEW seen,
         seen \in [DOMAIN seen -> Monitors], DOMAIN seen \subseteq DOMAIN account,
         \A u \in DOMAIN seen : seen[u] = account[u],
         rows = PlanSync(config[r], run[r].channels, seen),
         NEW next \in State, next.pc = "applying", next.exit = -1,
         next.channels = run[r].channels, next.rows = rows, next.todo = Work(rows),
         next.landed = {rows[i].name : i \in {j \in DOMAIN rows : rows[j].action = "unchanged"}},
         next.failures = CountOf(rows, "conflict") + CountOf(rows, "refused"),
         next.doomed = {}, next.heard = {}, next.stopped = FALSE
  PROVE  Ready(r, next)
<1> DEFINE definitions == config[r]
           chans == run[r].channels
<1>1. /\ definitions \in Seq(Definitions) /\ \A d \in DOMAIN definitions : definitions[d] \in Definitions
      /\ Ready(r, run[r])
  BY Known
<1>2. chans \in SUBSET AllChannels /\ Alike(chans, channels)
  BY <1>1 DEF Ready, State
<1>3. DOMAIN seen \subseteq Nat /\ IsFiniteSet(DOMAIN seen)
  BY FS_Subset, BoundsAssumption DEF SInv, Typed, AccountTyped
<1> HIDE DEF definitions, chans
<1>4. /\ rows \in Seq(PlanRows)
      /\ \A d \in DOMAIN definitions : d \in DOMAIN rows /\ rows[d] = RowFor(definitions[d], chans, seen)
      /\ \A i \in DOMAIN rows :
           \/ i \in DOMAIN definitions /\ rows[i] = RowFor(definitions[i], chans, seen)
           \/ \E u \in OrphansIn(definitions, seen) : rows[i] = OrphanRow(u, seen[u], chans)
  <2>1. rows = PlanSync(definitions, chans, seen)
    BY DEF definitions, chans
  <2> DEFINE plan == PlanSync(definitions, chans, seen)
  <2>2. seen \in [DOMAIN seen -> Monitors]
    OBVIOUS
  <2>3. /\ plan \in Seq(PlanRows)
        /\ \A d \in DOMAIN definitions : d \in DOMAIN plan /\ plan[d] = RowFor(definitions[d], chans, seen)
        /\ \A i \in DOMAIN plan :
             \/ i \in DOMAIN definitions /\ plan[i] = RowFor(definitions[i], chans, seen)
             \/ \E u \in OrphansIn(definitions, seen) : plan[i] = OrphanRow(u, seen[u], chans)
    BY <1>1, <1>2, <1>3, <2>2, PlanIsSound
  <2> HIDE DEF plan
  <2> QED
    BY <2>1, <2>3 DEF plan
<1>5. ASSUME NEW u \in DOMAIN seen, NEW row, row.uuid = u, row.name = seen[u].name
      PROVE  Names(row)
  BY <1>5 DEF Names, SInv, Typed, AccountTyped
<1>6. ASSUME NEW d \in DOMAIN definitions
      PROVE  /\ rows[d] \in PlanRows /\ rows[d].name = definitions[d].name /\ rows[d].action # "orphan"
             /\ rows[d].action \in {"create", "update"} => Asked(definitions[d], rows[d], chans)
             /\ rows[d].action = "update" => Names(rows[d])
  <2>1. definitions[d] \in Definitions /\ rows[d] = RowFor(definitions[d], chans, seen)
    BY <1>1, <1>4
  <2>2. /\ rows[d] \in PlanRows /\ rows[d].name = definitions[d].name /\ rows[d].action # "orphan"
        /\ rows[d].action \in {"create", "update"} => Asked(definitions[d], rows[d], chans)
        /\ rows[d].action = "update" =>
             rows[d].uuid \in DOMAIN seen /\ seen[rows[d].uuid].name = definitions[d].name
    BY <1>2, <1>3, <2>1, RowIsSound
  <2> QED
    BY <1>5, <2>2
<1>7. ASSUME NEW u \in OrphansIn(definitions, seen), NEW row, row = OrphanRow(u, seen[u], chans)
      PROVE  row.action = "orphan" /\ Names(row) /\ row.name \notin Described(definitions)
  <2>1. u \in DOMAIN seen /\ seen[u].name \notin Described(definitions)
    BY DEF OrphansIn
  <2>2. u \in Nat /\ seen[u] \in Monitors
    BY <1>3, <2>1
  <2>3. row.action = "orphan" /\ row.name = seen[u].name /\ row.uuid = u
    BY <1>7, <2>2, OrphanIsSound
  <2> QED
    BY <1>5, <2>1, <2>3
<1>8. PlannedFor(next, definitions)
  <2>1. ASSUME NEW i \in DOMAIN rows
        PROVE  /\ rows[i].action \in {"create", "update"} =>
                    \E d \in DOMAIN definitions : Asked(definitions[d], rows[i], chans)
               /\ rows[i].action \in {"update", "orphan"} => Names(rows[i])
               /\ rows[i].action = "orphan" => rows[i].name \notin Described(definitions)
    <3>1. CASE i \in DOMAIN definitions
      BY <1>6, <3>1
    <3>2. CASE i \notin DOMAIN definitions
      <4>1. PICK u \in OrphansIn(definitions, seen) : rows[i] = OrphanRow(u, seen[u], chans)
        BY <1>4, <3>2
      <4> QED
        BY <1>7, <4>1
    <3> QED
      BY <3>1, <3>2
  <2> QED
    BY <2>1 DEF PlannedFor, chans
<1>9. next.landed \subseteq Described(definitions)
  <2>1. ASSUME NEW i \in DOMAIN rows, rows[i].action = "unchanged"
        PROVE  rows[i].name \in Described(definitions)
    <3>1. i \in DOMAIN definitions
      BY <1>4, <1>7, <2>1
    <3> QED
      BY <1>6, <3>1 DEF Described
  <2> QED
    BY <2>1
<1>10. ASSUME next.failures = 0, NEW name \in Described(definitions)
       PROVE  name \in next.landed \/ \E i \in next.todo : next.rows[i].name = name
  <2>1. PICK d \in DOMAIN definitions : name = definitions[d].name
    BY DEF Described
  <2>2. rows[d].action # "conflict" /\ rows[d].action # "refused"
    BY <1>4, <1>10, Counts
  <2>3. rows[d].action \in {"create", "update", "unchanged"}
    BY <1>6, <2>2 DEF PlanRows
  <2>4. rows[d].name = name /\ d \in DOMAIN rows
    BY <1>4, <1>6, <2>1
  <2> QED
    BY <2>3, <2>4 DEF Work
<1>11. AppliedTo(next, definitions)
  BY <1>9, <1>10 DEF AppliedTo
<1> QED
  BY <1>2, <1>8, <1>11 DEF Ready, definitions, chans

LEMMA PlanKeeps ==
  ASSUME SInv, NEW r \in Runs, Plan(r)
  PROVE  SInv'
<1>0. PICK missed \in {{}} \cup (IF Misses THEN {{u} : u \in DOMAIN account} ELSE {}) :
      LET seen  == [u \in DOMAIN account \ missed |-> account[u]]
          rows  == PlanSync(config[r], run[r].channels, seen)
          state == [run[r] EXCEPT
                      !.rows = rows, !.missed = missed # {},
                      !.todo = Work(rows),
                      !.landed = {rows[i].name : i \in {j \in DOMAIN rows : rows[j].action = "unchanged"}},
                      !.failures = CountOf(rows, "conflict") + CountOf(rows, "refused")]
      IN Becomes(r, IF state.mode.apply
                      THEN [state EXCEPT !.pc = "applying",
                              !.unsafe = Pruning(state) /\ PruningIsUnsafe(config[r], state.failures)]
                      ELSE Over(state))
  BY DEF Plan
<1> DEFINE seen  == [u \in DOMAIN account \ missed |-> account[u]]
           rows  == PlanSync(config[r], run[r].channels, seen)
           todo  == Work(rows)
           landed == {rows[i].name : i \in {j \in DOMAIN rows : rows[j].action = "unchanged"}}
           failures == CountOf(rows, "conflict") + CountOf(rows, "refused")
           before == run[r]
           some   == missed # {}
           state == [before EXCEPT !.rows = rows, !.missed = some, !.todo = todo,
                       !.landed = landed, !.failures = failures]
           unsafe == Pruning(state) /\ PruningIsUnsafe(config[r], state.failures)
           next == [state EXCEPT !.pc = "applying", !.unsafe = unsafe]
<1>1. run' = [run EXCEPT ![r] = IF state.mode.apply THEN next ELSE Over(state)]
  BY <1>0 DEF Becomes
<1>2. UNCHANGED <<account, channels, stored, config, born, others, lapsed>> /\ before.pc = "listing"
  BY DEF Plan
<1>3. before \in State /\ Ready(r, before) /\ config[r] \in Seq(Definitions)
  BY Known
<1>4. /\ seen \in [DOMAIN seen -> Monitors] /\ DOMAIN seen \subseteq DOMAIN account
      /\ \A u \in DOMAIN seen : seen[u] = account[u]
  BY DEF SInv, Typed, AccountTyped
<1>5. rows \in Seq(PlanRows)
  <2> HIDE DEF seen
  <2>1. before.channels \in SUBSET AllChannels
    BY <1>3 DEF State
  <2>2. DOMAIN seen \subseteq Nat /\ IsFiniteSet(DOMAIN seen) /\ seen \in [DOMAIN seen -> Monitors]
    BY <1>4, FS_Subset, BoundsAssumption DEF SInv, Typed, AccountTyped
  <2> QED
    BY <1>3, <2>1, <2>2, PlanIsSound
<1>6. some \in BOOLEAN
  OBVIOUS
<1> HIDE DEF seen, rows
<1>7. DOMAIN rows \subseteq Nat /\ \A i \in DOMAIN rows : rows[i] \in PlanRows
  <2>1. DOMAIN rows = 1..Len(rows) /\ Len(rows) \in Nat
    BY <1>5, LenProperties
  <2>2. \A i \in 1..Len(rows) : rows[i] \in PlanRows
    BY <1>5, ElementOfSeq
  <2>3. DOMAIN rows \subseteq Nat
    BY <2>1
  <2> QED
    BY <2>1, <2>2, <2>3
<1>8. todo \subseteq Nat /\ landed \subseteq Texts
  <2>1. todo \subseteq Nat
    <3>1. DOMAIN rows \subseteq Nat
      BY <1>7, Zenon
    <3>2. todo \subseteq DOMAIN rows
      BY DEF Work
    <3> QED
      BY <3>1, <3>2
  <2>2. \A i \in DOMAIN rows : rows[i].name \in Texts
    BY <1>7 DEF PlanRows
  <2> QED
    BY <2>1, <2>2
<1>9. failures \in Nat
  <2>1. CountOf(rows, "conflict") \in Nat
    BY <1>5, Counts, Zenon
  <2>2. CountOf(rows, "refused") \in Nat
    BY <1>5, Counts, Zenon
  <2> QED
    BY <2>1, <2>2
<1>10. unsafe \in BOOLEAN
  OBVIOUS
<1>11. /\ todo = Work(rows)
       /\ landed = {rows[i].name : i \in {j \in DOMAIN rows : rows[j].action = "unchanged"}}
       /\ failures = CountOf(rows, "conflict") + CountOf(rows, "refused")
       /\ rows = PlanSync(config[r], before.channels, seen)
  BY DEF rows
<1> HIDE DEF todo, landed, failures, before, some, unsafe
<1>12. before \in State
  BY <1>3
<1>13. state \in State
  BY <1>5, <1>6, <1>8, <1>9, <1>12 DEF State
<1>14. /\ state.rows = rows /\ state.todo = todo /\ state.landed = landed
       /\ state.failures = failures /\ state.pc = before.pc /\ state.channels = before.channels
       /\ state.doomed = before.doomed /\ state.heard = before.heard
       /\ state.stopped = before.stopped /\ state.exit = before.exit
  BY <1>12 DEF State
<1> HIDE DEF state
<1>15. next \in State
  BY <1>10, <1>13 DEF State
<1>16. /\ next.rows = rows /\ next.todo = todo /\ next.landed = landed
       /\ next.failures = failures /\ next.pc = "applying" /\ next.channels = before.channels
       /\ next.doomed = before.doomed /\ next.heard = before.heard
       /\ next.stopped = before.stopped /\ next.exit = before.exit
  BY <1>13, <1>14 DEF State
<1> HIDE DEF next
<1>17. Ready(r, next)
  <2>1. AppliedTo(before, config[r]) /\ before.exit = -1
    BY <1>2, <1>3 DEF Ready
  <2>2. before.heard = {} /\ before.doomed = {} /\ ~before.stopped /\ before.rows = <<>>
    BY <1>2, <2>1, NoRows DEF AppliedTo
  <2>3. before.stopped = FALSE
    BY <1>12, <2>2 DEF State
  <2>4. run[r].pc = "listing" /\ run[r].channels = before.channels
    BY <1>2 DEF before
  <2>5. seen \in [DOMAIN seen -> Monitors] /\ DOMAIN seen \subseteq DOMAIN account
    BY <1>4
  <2>6. rows = PlanSync(config[r], run[r].channels, seen)
    BY <1>11, <2>4
  <2>7. /\ next.channels = run[r].channels /\ next.rows = rows /\ next.todo = Work(rows)
        /\ next.landed = {rows[i].name : i \in {j \in DOMAIN rows : rows[j].action = "unchanged"}}
        /\ next.failures = CountOf(rows, "conflict") + CountOf(rows, "refused")
        /\ next.pc = "applying" /\ next.exit = -1 /\ next.doomed = {} /\ next.heard = {}
        /\ next.stopped = FALSE
    BY <1>11, <1>16, <2>1, <2>2, <2>3, <2>4
  <2>8. \A u \in DOMAIN seen : seen[u] = account[u]
    BY <1>4
  <2>9. run[r].pc = "listing"
    BY <2>4
  <2> QED
    BY <1>15, <2>5, <2>6, <2>7, <2>8, <2>9, PlanIsReady, ZenonT(60)
<1>18. Ready(r, Over(state))
  BY <1>13, OverIsReady
<1>19. Ready(r, IF state.mode.apply THEN next ELSE Over(state))
  BY <1>17, <1>18
<1> QED
  BY <1>1, <1>2, <1>19, QuietStep

-----------------------------------------------------------------------------
(* Applying it.                                                             *)

LEMMA MonitorIs ==
  ASSUME NEW request \in Requests
  PROVE  /\ MonitorOf(request) \in Monitors /\ MonitorOf(request).name = request.name
         /\ MonitorOf(request).channels = request.channels
<1> DEFINE tz == IF request.tz = Unstated THEN "default" ELSE request.tz
<1>1. request.name \in Texts /\ request.schedule \in Texts /\ request.channels \subseteq Texts /\ tz \in Texts
  BY TextsAssumption DEF Requests
<1>2. MonitorOf(request) =
        [name |-> request.name, schedule |-> request.schedule, tz |-> tz,
         channels |-> request.channels, suppressed |-> FALSE]
  BY DEF MonitorOf
<1> HIDE DEF tz
<1> QED
  BY <1>1, <1>2 DEF Monitors

\* A monitor is made under a new identifier, for a key that had none, or not at all.
LEMMA MadeForKeeps ==
  ASSUME SInv, UNCHANGED <<channels, config>>, NEW key, Minted(key),
         MonitorOf(key[2]) \in Monitors, MonitorOf(key[2]).name = key[2].name, MadeFor(key)
  PROVE  Keeps /\ AccountTyped' /\ Made'
<1>1. CASE key \in DOMAIN stored
  <2>1. UNCHANGED <<account, stored, born>>
    BY <1>1 DEF MadeFor
  <2>2. Keeps
    BY <2>1, AlikeItself DEF Keeps, SInv, Typed, AccountTyped
  <2>3. AccountTyped'
    BY <2>1 DEF SInv, Typed, AccountTyped
  <2> QED
    BY <2>1, <2>2, <2>3, MadeKept DEF SInv, Typed, AccountTyped
<1>2. CASE key \notin DOMAIN stored
  <2> DEFINE made == MonitorOf(key[2])
  <2>1. PICK uuid \in Uuids \ DOMAIN born :
          /\ account' = [u \in DOMAIN account \cup {uuid} |-> IF u = uuid THEN made ELSE account[u]]
          /\ born' = [u \in DOMAIN born \cup {uuid} |-> IF u = uuid THEN "sync" ELSE born[u]]
          /\ stored' = [k \in DOMAIN stored \cup {key} |-> IF k = key THEN uuid ELSE stored[k]]
    BY <1>2 DEF MadeFor
  <2>2. AccountTyped
    BY DEF SInv, Typed
  <2> HIDE DEF made
  <2>3. /\ DOMAIN account' = DOMAIN account \cup {uuid} /\ account'[uuid] = made
        /\ \A u \in DOMAIN account : u # uuid /\ account'[u] = account[u]
    BY <2>1, <2>2 DEF AccountTyped
  <2>4. /\ DOMAIN born' = DOMAIN born \cup {uuid} /\ \A u \in DOMAIN born : born'[u] = born[u]
    BY <2>1
  <2>5. /\ DOMAIN stored' = DOMAIN stored \cup {key} /\ stored'[key] = uuid
        /\ \A k \in DOMAIN stored : stored'[k] = stored[k]
    BY <1>2, <2>1
  <2>6. Keeps
    BY <2>2, <2>3, <2>4, AlikeItself DEF Keeps, AccountTyped
  <2>7. AccountTyped'
    <3>1. IsFiniteSet(DOMAIN account')
      BY <2>2, <2>3, FS_AddElement DEF AccountTyped
    <3>2. account' \in [DOMAIN account' -> Monitors]
      <4>1. made \in Monitors
        BY DEF made
      <4> QED
        BY <2>1, <2>2, <4>1 DEF AccountTyped
    <3>3. DOMAIN account' \subseteq DOMAIN born' /\ DOMAIN born' \subseteq Uuids
      BY <2>2, <2>3, <2>4 DEF AccountTyped
    <3>4. \A k \in DOMAIN stored' : stored'[k] \in DOMAIN born'
      BY <2>2, <2>4, <2>5 DEF AccountTyped
    <3> QED
      BY <2>2, <3>1, <3>2, <3>3, <3>4 DEF AccountTyped
  <2>8. Made'
    <3>1. ASSUME NEW k \in DOMAIN stored'
          PROVE  /\ Minted(k)'
                 /\ stored'[k] \in DOMAIN account' => account'[stored'[k]].name = k[2].name
      <4>1. CASE k = key
        <5>1. Minted(key)'
          BY <2>6, MintedKept DEF SInv
        <5>2. account'[uuid].name = key[2].name
          BY <2>3 DEF made
        <5> QED
          BY <2>5, <4>1, <5>1, <5>2
      <4>2. CASE k # key
        <5>1. k \in DOMAIN stored /\ stored'[k] = stored[k] /\ stored[k] \in DOMAIN born
          BY <2>2, <2>5, <3>1, <4>2 DEF AccountTyped
        <5>2. Minted(k) /\ (stored[k] \in DOMAIN account => account[stored[k]].name = k[2].name)
          BY <5>1 DEF SInv, Made
        <5>3. Minted(k)'
          BY <2>6, <5>2, MintedKept DEF SInv
        <5>4. stored[k] # uuid
          BY <2>1, <5>1
        <5> QED
          BY <2>3, <5>1, <5>2, <5>3, <5>4
      <4> QED
        BY <4>1, <4>2
    <3> QED
      BY <3>1 DEF Made
  <2> QED
    BY <2>6, <2>7, <2>8
<1> QED
  BY <1>1, <1>2

\* The key of a row is what a definition asks for.
LEMMA KeyIsMinted ==
  ASSUME SInv, NEW r \in Runs, run[r].pc = "applying", run[r].todo # {}
  PROVE  /\ NextRow(run[r]).request \in Requests
         /\ NextRow(run[r]).request.name = NextRow(run[r]).name
         /\ Minted(<<NextRow(run[r]).request, NextRow(run[r]).request>>)
<1>1. Ready(r, run[r]) /\ \A i \in DOMAIN config[r] : config[r][i] \in Definitions
  BY Known
<1>2. PICK d \in DOMAIN config[r] : Asked(config[r][d], NextRow(run[r]), run[r].channels)
  BY <1>1, NextIs
<1> DEFINE row == NextRow(run[r])
           chans == run[r].channels
           def == config[r][d]
<1>3. row.request = RequestOf(def, chans) /\ row.name = def.name
  BY <1>2 DEF Asked
<1>4. chans \in SUBSET AllChannels /\ Alike(chans, channels) /\ def \in Definitions
  BY <1>1 DEF Ready, State
<1> HIDE DEF row, chans, def
<1>5. RequestOf(def, chans) \in Requests /\ RequestOf(def, chans).name = def.name
  BY <1>4, RequestsAreTyped
<1>6. RequestOf(def, chans) = RequestOf(def, channels)
  BY <1>4, AlikeRequests
<1>7. Minted(<<row.request, row.request>>)
  BY <1>3, <1>6 DEF Minted, def
<1> QED
  BY <1>3, <1>5, <1>7 DEF row

LEMMA CreateRowKeeps ==
  ASSUME SInv, NEW r \in Runs, CreateRow(r)
  PROVE  SInv'
<1> DEFINE row == NextRow(run[r])
           key == <<row.request, row.request>>
<1>1. Ready(r, run[r]) /\ run[r].pc = "applying" /\ run[r].todo # {} /\ UNCHANGED <<channels, config, others, lapsed>>
  BY Known DEF CreateRow
<1>2. \/ MadeFor(key) /\ \E told \in {"created", "network-error", "conflict"} :
           Becomes(r, Rest(IF told = "created" THEN Landed(run[r], row) ELSE Record(run[r], row, told)))
      \/ \E kind \in Kinds \cup {"conflict"} :
           Becomes(r, Rest(Record(run[r], row, kind))) /\ UNCHANGED <<account, stored, born>>
  BY DEF CreateRow, KeyOf, IdempotencyKeyFor
<1>3. /\ Ready(r, Rest(Landed(run[r], row)))
      /\ \A error \in Errors : Ready(r, Rest(Record(run[r], row, error)))
  BY <1>1, RowsEnd
<1> HIDE DEF row
<1>4. ASSUME MadeFor(key), NEW told \in {"created", "network-error", "conflict"},
             Becomes(r, Rest(IF told = "created" THEN Landed(run[r], row) ELSE Record(run[r], row, told)))
      PROVE  SInv'
  <2>1. row.request \in Requests /\ Minted(key)
    BY <1>1, KeyIsMinted DEF row
  <2>2. MonitorOf(key[2]) \in Monitors /\ MonitorOf(key[2]).name = key[2].name
    BY <2>1, MonitorIs
  <2>3. Keeps /\ AccountTyped' /\ Made'
    BY <1>1, <1>4, <2>1, <2>2, MadeForKeeps
  <2>4. \E next : Ready(r, next) /\ run' = [run EXCEPT ![r] = next]
    <3>1. CASE told = "created"
      BY <1>3, <1>4, <3>1 DEF Becomes
    <3>2. CASE told # "created"
      BY <1>3, <1>4, <3>2 DEF Becomes, Errors
    <3> QED
      BY <3>1, <3>2
  <2> QED
    BY <1>1, <2>3, <2>4, StepKeeps
<1>5. ASSUME NEW kind \in Kinds \cup {"conflict"}, Becomes(r, Rest(Record(run[r], row, kind))),
             UNCHANGED <<account, stored, born>>
      PROVE  SInv'
  <2>1. Ready(r, Rest(Record(run[r], row, kind)))
    BY <1>3 DEF Errors
  <2>2. run' = [run EXCEPT ![r] = Rest(Record(run[r], row, kind))]
    BY <1>5 DEF Becomes
  <2> QED
    BY <1>1, <1>5, <2>1, <2>2, QuietStep
<1> QED
  BY <1>2, <1>4, <1>5

LEMMA PassCreateOverKeeps ==
  ASSUME SInv, NEW r \in Runs, PassCreateOver(r)
  PROVE  SInv'
<1> DEFINE next == Rest([run[r] EXCEPT !.failures = @ + 1])
<1>1. Ready(r, next)
  BY Known, RowsEnd DEF PassCreateOver
<1>2. run' = [run EXCEPT ![r] = next] /\ UNCHANGED <<account, channels, stored, config, born, others, lapsed>>
  BY DEF PassCreateOver, Becomes
<1> HIDE DEF next
<1> QED
  BY <1>1, <1>2, QuietStep

\* A monitor changes, its name apart, or goes.
LEMMA AccountKeeps ==
  ASSUME SInv, UNCHANGED <<config, born, stored>>, channels' \in SUBSET AllChannels, Alike(channels, channels'),
         account' \in [DOMAIN account' -> Monitors], DOMAIN account' \subseteq DOMAIN account,
         \A u \in DOMAIN account' : account'[u].name = account[u].name
  PROVE  Keeps /\ AccountTyped' /\ Made' /\ DOMAIN account' \subseteq DOMAIN born
<1>1. AccountTyped
  BY DEF SInv, Typed
<1>2. Keeps
  BY DEF Keeps
<1>3. IsFiniteSet(DOMAIN account')
  BY <1>1, FS_Subset DEF AccountTyped
<1>4. AccountTyped'
  BY <1>1, <1>3 DEF AccountTyped
<1>5. DOMAIN account' \subseteq DOMAIN born
  BY <1>1 DEF AccountTyped
<1> QED
  BY <1>2, <1>4, <1>5, MadeKept DEF SInv

\* An update moves the fields it carries, and no other.
LEMMA PatchedIs ==
  ASSUME NEW monitor \in Monitors, NEW row, row.request \in Requests
  PROVE  /\ Patched(monitor, row) \in Monitors /\ Patched(monitor, row).name = monitor.name
         /\ Patched(monitor, row).schedule =
              IF "schedule" \in row.fields THEN row.request.schedule ELSE monitor.schedule
         /\ Patched(monitor, row).tz = IF "tz" \in row.fields THEN row.request.tz ELSE monitor.tz
         /\ Patched(monitor, row).channels =
              IF "channels" \in row.fields THEN row.request.channels ELSE monitor.channels
<1> DEFINE schedule == IF "schedule" \in row.fields THEN row.request.schedule ELSE monitor.schedule
           tz       == IF "tz" \in row.fields THEN row.request.tz ELSE monitor.tz
           chans    == IF "channels" \in row.fields THEN row.request.channels ELSE monitor.channels
           next     == Patched(monitor, row)
<1>1. schedule \in Texts /\ tz \in Texts /\ chans \subseteq Texts
  BY DEF Requests, Monitors
<1>2. next = [monitor EXCEPT !.schedule = schedule, !.tz = tz, !.channels = chans]
  BY DEF Patched
<1> HIDE DEF schedule, tz, chans, next
<1>3. monitor \in Monitors
  OBVIOUS
<1>4. next \in Monitors /\ next.name = monitor.name
  BY <1>1, <1>2, <1>3 DEF Monitors
<1>5. next.schedule = schedule /\ next.tz = tz /\ next.channels = chans
  BY <1>2, <1>3 DEF Monitors
<1> QED
  BY <1>4, <1>5 DEF schedule, tz, chans, next

LEMMA UpdateRowKeeps ==
  ASSUME SInv, NEW r \in Runs, UpdateRow(r)
  PROVE  SInv'
<1> DEFINE row == NextRow(run[r])
<1>1. /\ Ready(r, run[r]) /\ run[r].pc = "applying" /\ run[r].todo # {}
      /\ UNCHANGED <<channels, stored, config, born, others, lapsed>>
  BY Known DEF UpdateRow
<1>2. \/ /\ row.uuid \in DOMAIN account
         /\ account' = [account EXCEPT ![row.uuid] = Patched(@, row)]
         /\ \E told \in BOOLEAN :
              Becomes(r, Rest(IF told THEN Landed(run[r], row) ELSE Record(run[r], row, "network-error")))
      \/ \E kind \in IF row.uuid \in DOMAIN account THEN Kinds ELSE {"not-found"} :
           Becomes(r, Rest(Record(run[r], row, kind))) /\ UNCHANGED account
  BY DEF UpdateRow
<1>3. /\ Ready(r, Rest(Landed(run[r], row)))
      /\ \A error \in Errors : Ready(r, Rest(Record(run[r], row, error)))
  BY <1>1, RowsEnd
<1>4. row.request \in Requests
  BY <1>1, KeyIsMinted
<1> HIDE DEF row
<1>5. ASSUME row.uuid \in DOMAIN account, account' = [account EXCEPT ![row.uuid] = Patched(@, row)],
             NEW told \in BOOLEAN,
             Becomes(r, Rest(IF told THEN Landed(run[r], row) ELSE Record(run[r], row, "network-error")))
      PROVE  SInv'
  <2>1. AccountTyped
    BY DEF SInv, Typed
  <2>2. Patched(account[row.uuid], row) \in Monitors /\ Patched(account[row.uuid], row).name = account[row.uuid].name
    BY <1>4, <1>5, <2>1, PatchedIs DEF AccountTyped
  <2>3. account' \in [DOMAIN account -> Monitors] /\ DOMAIN account' = DOMAIN account
    BY <1>5, <2>1, <2>2 DEF AccountTyped
  <2>4. \A u \in DOMAIN account' : account'[u].name = account[u].name
    BY <1>5, <2>1, <2>2 DEF AccountTyped
  <2>5. channels' \in SUBSET AllChannels /\ Alike(channels, channels')
    BY <1>1, <2>1, AlikeItself DEF AccountTyped
  <2>6. Keeps /\ AccountTyped' /\ Made'
    BY <1>1, <2>3, <2>4, <2>5, AccountKeeps
  <2>7. \E next : Ready(r, next) /\ run' = [run EXCEPT ![r] = next]
    <3>1. CASE told
      BY <1>3, <1>5, <3>1 DEF Becomes
    <3>2. CASE ~told
      BY <1>3, <1>5, <3>2 DEF Becomes, Errors
    <3> QED
      BY <3>1, <3>2
  <2> QED
    BY <1>1, <2>6, <2>7, StepKeeps
<1>6. ASSUME NEW kind \in Errors, Becomes(r, Rest(Record(run[r], row, kind))), UNCHANGED account
      PROVE  SInv'
  <2>1. Ready(r, Rest(Record(run[r], row, kind)))
    BY <1>3
  <2>2. run' = [run EXCEPT ![r] = Rest(Record(run[r], row, kind))]
    BY <1>6 DEF Becomes
  <2> QED
    BY <1>1, <1>6, <2>1, <2>2, QuietStep
<1> QED
  BY <1>2, <1>5, <1>6 DEF Errors

-----------------------------------------------------------------------------
(* Pruning.                                                                 *)

\* A run whose rows have all landed may ask to prune.
LEMMA EndRowsKeeps ==
  ASSUME SInv, NEW r \in Runs, EndRows(r)
  PROVE  SInv'
<1> DEFINE state == run[r]
           asking == [state EXCEPT !.pc = "asking"]
           unsafe == [state EXCEPT !.unsafe = TRUE]
<1>1. state \in State /\ Ready(r, state) /\ config[r] \in Seq(Definitions)
  BY Known
<1>2. /\ run' = [run EXCEPT ![r] =
           IF ~Pruning(state) \/ state.unsafe THEN Over(state)
           ELSE IF UnsafeNow(r) THEN Over(unsafe) ELSE asking]
      /\ UNCHANGED <<account, channels, stored, config, born, others, lapsed>>
      /\ state.pc = "applying" /\ (state.stopped \/ state.todo = {})
  BY DEF EndRows, Becomes, RowsDone
<1>3. UnsafeNow(r) <=> Len(config[r]) = 0 \/ state.failures > 0
  BY DEF UnsafeNow, PruningIsUnsafe
<1> HIDE DEF state
<1>4. state \in State
  BY <1>1
<1>5. unsafe \in State
  BY <1>4 DEF State
<1>6. asking \in State
  BY <1>4 DEF State
<1>7. /\ asking.pc = "asking" /\ asking.rows = state.rows /\ asking.channels = state.channels
      /\ asking.todo = state.todo /\ asking.doomed = state.doomed /\ asking.landed = state.landed
      /\ asking.exit = state.exit /\ asking.failures = state.failures /\ asking.heard = state.heard
      /\ asking.stopped = state.stopped
  BY <1>4 DEF State
<1> HIDE DEF asking, unsafe
<1>8. ASSUME ~UnsafeNow(r) PROVE Ready(r, asking)
  <2>1. AppliedTo(state, config[r]) /\ PlannedFor(state, config[r])
    BY <1>1 DEF Ready
  <2>2. state.failures = 0 /\ Len(config[r]) # 0
    BY <1>3, <1>4, <1>8 DEF State
  <2>3. ~state.stopped
    BY <2>1, <2>2 DEF AppliedTo
  <2>4. Described(config[r]) = state.landed
    BY <1>2, <2>1, <2>2, <2>3 DEF AppliedTo
  <2>5. Described(config[r]) # {}
    <3>1. 1 \in DOMAIN config[r]
      BY <1>1, <2>2, LenProperties
    <3> QED
      BY <3>1 DEF Described
  <2>6. PlannedFor(asking, config[r])
    BY <1>7, <2>1, SamePlan
  <2>7. AppliedTo(asking, config[r])
    BY <1>7, <2>1, <2>4, <2>5 DEF AppliedTo
  <2> QED
    BY <1>1, <1>2, <1>6, <1>7, <2>6, <2>7 DEF Ready
<1>9. Ready(r, Over(state)) /\ Ready(r, Over(unsafe))
  BY <1>4, <1>5, OverIsReady
<1>10. \E next : Ready(r, next) /\ run' = [run EXCEPT ![r] = next]
  BY <1>2, <1>8, <1>9
<1> QED
  BY <1>2, <1>10, QuietStep

LEMMA ConfirmKeeps ==
  ASSUME SInv, NEW r \in Runs, Confirm(r)
  PROVE  SInv'
<1> DEFINE state == run[r]
           doomed == Orphans(state.rows)
           pruning == [state EXCEPT !.pc = "pruning", !.doomed = doomed]
           declined == [state EXCEPT !.declined = TRUE]
<1>1. state \in State /\ Ready(r, state)
  BY Known
<1>2. /\ \E yes \in BOOLEAN : run' = [run EXCEPT ![r] = IF yes THEN pruning ELSE Over(declined)]
      /\ UNCHANGED <<account, channels, stored, config, born, others, lapsed>> /\ state.pc = "asking"
  BY DEF Confirm, Becomes
<1> HIDE DEF state
<1>3. state \in State
  BY <1>1
<1>4. declined \in State
  BY <1>3 DEF State
<1>5. doomed \subseteq Nat /\ doomed \subseteq Orphans(state.rows)
  <2>1. state.rows \in Seq(PlanRows)
    BY <1>3 DEF State
  <2>2. DOMAIN state.rows \subseteq Nat
    BY <2>1, LenProperties
  <2> QED
    BY <2>2 DEF Orphans
<1> HIDE DEF doomed
<1>6. pruning \in State
  BY <1>3, <1>5 DEF State
<1>7. /\ pruning.pc = "pruning" /\ pruning.rows = state.rows /\ pruning.channels = state.channels
      /\ pruning.todo = state.todo /\ pruning.doomed = doomed /\ pruning.landed = state.landed
      /\ pruning.exit = state.exit /\ pruning.failures = state.failures /\ pruning.heard = state.heard
      /\ pruning.stopped = state.stopped
  BY <1>3 DEF State
<1> HIDE DEF pruning, declined
<1>8. Ready(r, pruning)
  <2>1. AppliedTo(state, config[r]) /\ PlannedFor(state, config[r])
    BY <1>1 DEF Ready
  <2>2. PlannedFor(pruning, config[r])
    BY <1>7, <2>1, SamePlan
  <2>3. AppliedTo(pruning, config[r])
    BY <1>2, <1>5, <1>7, <2>1 DEF AppliedTo
  <2> QED
    BY <1>1, <1>2, <1>6, <1>7, <2>2, <2>3 DEF Ready
<1>9. Ready(r, Over(declined))
  BY <1>4, OverIsReady
<1>10. \E next : Ready(r, next) /\ run' = [run EXCEPT ![r] = next]
  BY <1>2, <1>8, <1>9
<1> QED
  BY <1>2, <1>10, QuietStep

\* The monitor a run is about to delete is one its plan called an orphan.
LEMMA DoomedIs ==
  ASSUME NEW r \in Runs, NEW state, Ready(r, state), state.doomed # {}
  PROVE  /\ Min(state.doomed) \in state.doomed
         /\ state.rows[Min(state.doomed)].name \notin Described(config[r])
         /\ Names(state.rows[Min(state.doomed)])
<1>1. state.doomed \subseteq Nat
  BY DEF Ready, State
<1>2. Min(state.doomed) \in state.doomed
  BY <1>1, MinIsIn
<1> DEFINE i == Min(state.doomed)
<1> HIDE DEF i
<1>3. i \in state.doomed
  BY <1>2 DEF i
<1>4. i \in DOMAIN state.rows /\ state.rows[i].action = "orphan"
  BY <1>3 DEF Ready, AppliedTo, Orphans
<1>5. Names(state.rows[i]) /\ state.rows[i].name \notin Described(config[r])
  BY <1>4 DEF Ready, PlannedFor
<1> QED
  BY <1>3, <1>5 DEF i

\* A deletion is over, however it ended.
LEMMA DoomedIsReady ==
  ASSUME NEW r \in Runs, NEW state, Ready(r, state), NEW doomed \in SUBSET state.doomed, NEW more \in {0, 1}
  PROVE  /\ Ready(r, [state EXCEPT !.doomed = doomed, !.deleted = @ + more])
         /\ Ready(r, [state EXCEPT !.doomed = doomed])
         /\ [state EXCEPT !.doomed = doomed].pc = state.pc
<1> DEFINE count == state.deleted + more
           one   == [state EXCEPT !.doomed = doomed, !.deleted = @ + more]
           other == [state EXCEPT !.doomed = doomed]
<1>1. state \in State
  BY DEF Ready
<1>2. count \in Nat /\ doomed \subseteq Nat
  BY <1>1 DEF State
<1>3. one = [state EXCEPT !.doomed = doomed, !.deleted = count]
  OBVIOUS
<1> HIDE DEF count, one
<1>4. one \in State
  BY <1>1, <1>2, <1>3 DEF State
<1>5. other \in State
  BY <1>1, <1>2 DEF State
<1> DEFINE Same(next) ==
        /\ next.pc = state.pc /\ next.rows = state.rows /\ next.channels = state.channels
        /\ next.todo = state.todo /\ next.doomed = doomed /\ next.landed = state.landed
        /\ next.exit = state.exit /\ next.failures = state.failures /\ next.heard = state.heard
        /\ next.stopped = state.stopped
<1>6. Same(one)
  BY <1>1, <1>3 DEF State
<1>7. Same(other)
  BY <1>1 DEF State
<1> HIDE DEF other
<1>8. ASSUME NEW next \in State, Same(next) PROVE Ready(r, next)
  <2>1. AppliedTo(state, config[r]) /\ PlannedFor(state, config[r])
    BY DEF Ready
  <2>2. PlannedFor(next, config[r])
    BY <1>8, <2>1, SamePlan
  <2>3. AppliedTo(next, config[r])
    BY <1>8, <2>1 DEF AppliedTo
  <2> QED
    BY <1>8, <2>2, <2>3 DEF Ready
<1>9. Ready(r, one) /\ Ready(r, other)
  <2> HIDE DEF Same
  <2> QED
    BY <1>4, <1>5, <1>6, <1>7, <1>8
<1>10. other.pc = state.pc
  BY <1>7
<1> QED
  BY <1>9, <1>10 DEF one, other

LEMMA DeleteRowKeeps ==
  ASSUME SInv, NEW r \in Runs, DeleteRow(r)
  PROVE  SInv'
<1> DEFINE row  == run[r].rows[Min(run[r].doomed)]
           doomed == run[r].doomed \ {Min(run[r].doomed)}
           rest == [run[r] EXCEPT !.doomed = doomed]
           next == [run[r] EXCEPT !.doomed = doomed, !.deleted = @ + 1]
<1>1. /\ Ready(r, run[r]) /\ run[r].pc = "pruning" /\ run[r] \in State
      /\ UNCHANGED <<channels, stored, config, born, others, lapsed>>
  BY Known DEF DeleteRow
<1>2. [rest EXCEPT !.deleted = @ + 1] = next
  BY <1>1 DEF State
<1>3. doomed \in SUBSET run[r].doomed
  OBVIOUS
<1>4. \/ /\ account' = [u \in DOMAIN account \ {row.uuid} |-> account[u]]
         /\ \E told \in BOOLEAN :
              run' = [run EXCEPT ![r] = IF told THEN [rest EXCEPT !.deleted = @ + 1]
                                                ELSE Record(rest, row, "network-error")]
      \/ \E kind \in IF row.uuid \in DOMAIN account THEN Kinds ELSE {"not-found"} :
           run' = [run EXCEPT ![r] = Record(rest, row, kind)] /\ UNCHANGED account
  BY DEF DeleteRow, Becomes
<1> HIDE DEF row, doomed
<1>5. Ready(r, next) /\ Ready(r, rest) /\ rest.pc = "pruning"
  BY <1>1, <1>3, DoomedIsReady
<1> HIDE DEF next, rest
<1>6. \A error \in Errors : Ready(r, Record(rest, row, error))
  BY <1>5, RecordIsReady
<1>7. CASE account' = [u \in DOMAIN account \ {row.uuid} |-> account[u]]
           /\ \E told \in BOOLEAN :
                run' = [run EXCEPT ![r] = IF told THEN [rest EXCEPT !.deleted = @ + 1]
                                                  ELSE Record(rest, row, "network-error")]
  <2>1. AccountTyped
    BY DEF SInv, Typed
  <2>2. /\ account' \in [DOMAIN account' -> Monitors] /\ DOMAIN account' \subseteq DOMAIN account
        /\ \A u \in DOMAIN account' : account'[u].name = account[u].name
    BY <1>7, <2>1 DEF AccountTyped
  <2>3. channels' \in SUBSET AllChannels /\ Alike(channels, channels')
    BY <1>1, <2>1, AlikeItself DEF AccountTyped
  <2>4. Keeps /\ AccountTyped' /\ Made'
    BY <1>1, <2>2, <2>3, AccountKeeps
  <2>5. \E then : Ready(r, then) /\ run' = [run EXCEPT ![r] = then]
    <3>1. PICK told \in BOOLEAN :
            run' = [run EXCEPT ![r] = IF told THEN next ELSE Record(rest, row, "network-error")]
      BY <1>2, <1>7
    <3>2. Ready(r, IF told THEN next ELSE Record(rest, row, "network-error"))
      BY <1>5, <1>6 DEF Errors
    <3> QED
      BY <3>1, <3>2
  <2> QED
    BY <1>1, <2>4, <2>5, StepKeeps
<1>8. ASSUME NEW kind \in Errors, run' = [run EXCEPT ![r] = Record(rest, row, kind)], UNCHANGED account
      PROVE  SInv'
  BY <1>1, <1>6, <1>8, QuietStep
<1> QED
  BY <1>4, <1>7, <1>8 DEF Errors

LEMMA EndPruneKeeps ==
  ASSUME SInv, NEW r \in Runs, EndPrune(r)
  PROVE  SInv'
<1>1. Ready(r, Over(run[r]))
  BY Known, OverIsReady
<1>2. run' = [run EXCEPT ![r] = Over(run[r])] /\ UNCHANGED <<account, channels, stored, config, born, others, lapsed>>
  BY DEF EndPrune, Becomes
<1> QED
  BY <1>1, <1>2, QuietStep

-----------------------------------------------------------------------------
(* Others, and all of it together.                                          *)

LEMMA SomeoneEditsKeeps ==
  ASSUME SInv, SomeoneEdits
  PROVE  SInv'
<1>1. AccountTyped
  BY DEF SInv, Typed
<1>2. UNCHANGED <<channels, stored, config, run, born, lapsed>> /\ others < Others /\ others' = others + 1
  BY DEF SomeoneEdits
<1>3. PICK u \in DOMAIN account :
        \/ account' = [account EXCEPT ![u].tz = "elsewhere"]
        \/ account' = [account EXCEPT ![u].channels = {}]
        \/ account' = [v \in DOMAIN account \ {u} |-> account[v]]
  BY DEF SomeoneEdits
<1>4. /\ account' \in [DOMAIN account' -> Monitors] /\ DOMAIN account' \subseteq DOMAIN account
      /\ \A v \in DOMAIN account' : account'[v].name = account[v].name
  <2> DEFINE monitor == account[u]
             away == [monitor EXCEPT !.tz = "elsewhere"]
             silent == [monitor EXCEPT !.channels = {}]
  <2>1. monitor \in Monitors /\ account \in [DOMAIN account -> Monitors]
    BY <1>1 DEF AccountTyped
  <2>2. \/ account' = [account EXCEPT ![u] = away]
        \/ account' = [account EXCEPT ![u] = silent]
        \/ account' = [v \in DOMAIN account \ {u} |-> account[v]]
    BY <1>3
  <2>3. monitor.name = account[u].name
    OBVIOUS
  <2> HIDE DEF monitor
  <2>4. /\ away \in Monitors /\ away.name = monitor.name
        /\ silent \in Monitors /\ silent.name = monitor.name
    BY <2>1, TextsAssumption DEF Monitors
  <2> HIDE DEF away, silent
  <2> QED
    BY <2>1, <2>2, <2>3, <2>4
<1>5. channels' \in SUBSET AllChannels /\ Alike(channels, channels')
  BY <1>1, <1>2, AlikeItself DEF AccountTyped
<1>6. Keeps /\ AccountTyped' /\ DOMAIN account' \subseteq DOMAIN born
  BY <1>2, <1>4, <1>5, AccountKeeps
<1> QED
  BY <1>2, <1>6, OthersKeep

LEMMA SomeoneUnverifiesKeeps ==
  ASSUME SInv, SomeoneUnverifies
  PROVE  SInv'
<1>1. AccountTyped
  BY DEF SInv, Typed
<1>2. UNCHANGED <<account, stored, config, run, born, lapsed>> /\ others < Others /\ others' = others + 1
  BY DEF SomeoneUnverifies
<1>3. PICK ch \in channels : channels' = (channels \ {ch}) \cup {[ch EXCEPT !.verified = FALSE]}
  BY DEF SomeoneUnverifies
<1> DEFINE like == [ch EXCEPT !.verified = FALSE]
<1>4. ch \in AllChannels
  BY <1>1 DEF AccountTyped
<1>5. like \in AllChannels /\ like.id = ch.id /\ like.label = ch.label
  BY <1>4 DEF AllChannels
<1>6. channels' = (channels \ {ch}) \cup {like}
  BY <1>3
<1> HIDE DEF like
<1>7. channels' \in SUBSET AllChannels /\ Alike(channels, channels')
  BY <1>1, <1>5, <1>6 DEF AccountTyped, Alike, Within
<1>8. /\ account' \in [DOMAIN account' -> Monitors] /\ DOMAIN account' \subseteq DOMAIN account
      /\ \A v \in DOMAIN account' : account'[v].name = account[v].name
  BY <1>1, <1>2 DEF AccountTyped
<1>9. Keeps /\ AccountTyped' /\ DOMAIN account' \subseteq DOMAIN born
  BY <1>2, <1>7, <1>8, AccountKeeps
<1> QED
  BY <1>2, <1>9, OthersKeep

LEMMA KeyIsSweptKeeps ==
  ASSUME SInv, KeyIsSwept
  PROVE  SInv'
<1>1. PICK key \in DOMAIN stored :
        /\ stored' = [k \in DOMAIN stored \ {key} |-> stored[k]]
        /\ lapsed' = (lapsed \/ \E r \in Runs : HasYetToCreateBy(r, key))
  BY DEF KeyIsSwept
<1>2. UNCHANGED <<account, channels, config, run, born, others>>
  BY DEF KeyIsSwept
<1>3. DOMAIN stored' \subseteq DOMAIN stored /\ \A k \in DOMAIN stored' : stored'[k] = stored[k]
  BY <1>1
<1>4. Keeps
  BY <1>2, AlikeItself DEF Keeps, SInv, Typed, AccountTyped
<1>5. AccountTyped'
  BY <1>2, <1>3 DEF SInv, Typed, AccountTyped
<1>6. lapsed' \in BOOLEAN
  BY <1>1
<1>7. Typed'
  BY <1>2, <1>5, <1>6 DEF SInv, Typed
<1>8. Made'
  BY <1>2, <1>3, <1>4, MadeKept DEF SInv, Typed, AccountTyped
<1>9. ASSUME NEW q \in Runs PROVE Ready(q, run[q])'
  <2>1. PICK state : state = run[q]
    OBVIOUS
  <2>2. Ready(q, state)'
    BY <1>4, <2>1, ReadyKept DEF SInv
  <2> QED
    BY <1>2, <2>1, <2>2
<1> QED
  BY <1>7, <1>8, <1>9 DEF SInv

LEMMA SInvHolds ==
  Spec => []SInv
<1>1. Init => SInv
  <2> SUFFICES ASSUME Init PROVE SInv
    OBVIOUS
  <2>1. PICK setup \in Setups : config = setup.config /\ account = setup.account
    BY DEF Init
  <2>2. PICK modes \in Modes : run = [r \in Runs |-> Fresh(modes[r])]
    BY DEF Init
  <2>3. channels \in Channels /\ stored = <<>> /\ born = [u \in DOMAIN account |-> "before"] /\ others = 0 /\ lapsed = FALSE
    BY DEF Init
  <2>4. \A r \in Runs : modes[r] \in [apply : BOOLEAN, check : BOOLEAN, prune : BOOLEAN, yes : BOOLEAN]
    BY ModesAssumption
  <2>5. run \in [Runs -> State]
    BY <2>2, <2>4, FreshIs
  <2>6. AccountTyped
    <3>1. IsFiniteSet(DOMAIN account) /\ DOMAIN account \subseteq Uuids /\ account \in [DOMAIN account -> Monitors]
      BY <2>1, SetupsAssumption
    <3>2. channels \in SUBSET AllChannels
      BY <2>3, ChannelsAssumption DEF AllChannels
    <3>3. DOMAIN stored = {}
      BY <2>3, NoRows
    <3> QED
      BY <2>3, <3>1, <3>2, <3>3 DEF AccountTyped
  <2>7. Typed
    <3>1. lapsed \in BOOLEAN
      BY <2>3
    <3>2. others \in 0..Others
      BY <2>3, BoundsAssumption
    <3>3. /\ config \in [Runs -> Seq(Definitions)]
          /\ \A r \in Runs : \A i, j \in DOMAIN config[r] : config[r][i].name = config[r][j].name => i = j
      BY <2>1, SetupsAssumption
    <3> QED
      BY <2>5, <2>6, <3>1, <3>2, <3>3 DEF Typed
  <2>8. Made
    <3>1. DOMAIN stored = {}
      BY <2>3, NoRows
    <3> QED
      BY <3>1 DEF Made
  <2>9. ASSUME NEW r \in Runs PROVE Ready(r, run[r])
    <3> DEFINE mode == modes[r]
               next == Fresh(mode)
    <3>1. run[r] = next
      BY <2>2
    <3>2. mode \in [apply : BOOLEAN, check : BOOLEAN, prune : BOOLEAN, yes : BOOLEAN]
      BY <2>4
    <3> HIDE DEF mode
    <3>3. /\ next \in State /\ next.pc = "start" /\ next.rows = <<>> /\ next.todo = {}
          /\ next.doomed = {} /\ next.landed = {} /\ next.heard = {}
          /\ next.stopped = FALSE /\ next.failures = 0 /\ next.exit = -1
      BY <3>2, FreshIs
    <3> HIDE DEF next
    <3> QED
      BY <3>1, <3>3, EmptyIsReady
  <2> QED
    BY <2>7, <2>8, <2>9 DEF SInv
<1>2. SInv /\ [Next]_vars => SInv'
  <2> SUFFICES ASSUME SInv, [Next]_vars PROVE SInv'
    OBVIOUS
  <2>1. ASSUME NEW r \in Runs, SyncStep(r) PROVE SInv'
    BY <2>1, ListChannelsKeeps, CannotPlanKeeps, PlanKeeps, CreateRowKeeps, PassCreateOverKeeps,
       UpdateRowKeeps, EndRowsKeeps, ConfirmKeeps, DeleteRowKeeps, EndPruneKeeps DEF SyncStep
  <2>2. CASE SomeoneEdits
    BY <2>2, SomeoneEditsKeeps
  <2>3. CASE SomeoneUnverifies
    BY <2>3, SomeoneUnverifiesKeeps
  <2>4. CASE KeyIsSwept
    BY <2>4, KeyIsSweptKeeps
  <2>5. CASE UNCHANGED vars
    <3>1. Keeps
      BY <2>5, AlikeItself DEF vars, Keeps, SInv, Typed, AccountTyped
    <3>2. Typed'
      BY <2>5 DEF vars, SInv, Typed, AccountTyped
    <3>3. Made'
      BY <2>5, <3>1, MadeKept DEF vars, SInv, Typed, AccountTyped
    <3>4. ASSUME NEW q \in Runs PROVE Ready(q, run[q])'
      <4>1. PICK state : state = run[q]
        OBVIOUS
      <4>2. Ready(q, state)'
        BY <3>1, <4>1, ReadyKept DEF SInv
      <4> QED
        BY <2>5, <4>1, <4>2 DEF vars
    <3> QED
      BY <3>2, <3>3, <3>4 DEF SInv
  <2> QED
    BY <2>1, <2>2, <2>3, <2>4, <2>5 DEF Next
<1> QED
  BY <1>1, <1>2, PTL DEF Spec

-----------------------------------------------------------------------------
(* What the invariant comes to.                                             *)

LEMMA AtMostOne ==
  ASSUME NEW S, \A u, v \in S : u = v
  PROVE  Cardinality(S) <= 1
<1>1. CASE S = {}
  BY <1>1, FS_EmptySet
<1>2. CASE S # {}
  <2>1. PICK u \in S : TRUE
    BY <1>2
  <2>2. S = {u}
    BY <2>1
  <2>3. Cardinality({u}) = 1
    BY FS_Singleton
  <2> QED
    BY <2>2, <2>3
<1> QED
  BY <1>1, <1>2

LEMMA TypesHold ==
  ASSUME SInv
  PROVE  TypeOK
<1>1. AccountTyped /\ others \in 0..Others /\ lapsed \in BOOLEAN
  BY DEF SInv, Typed
<1>2. ASSUME NEW r \in Runs
      PROVE  /\ run[r].pc \in {"start", "listing", "applying", "asking", "pruning", "over"}
             /\ run[r].failures \in Nat /\ run[r].exit \in -1..2
             /\ run[r].exit = -1 <=> run[r].pc # "over"
  BY Known DEF Ready, State
<1> QED
  BY <1>1, <1>2 DEF TypeOK, AccountTyped

\* Two keys of a name, by runs of one configuration, are one.
LEMMA KeysOfAName ==
  ASSUME SInv, SameConfig, NEW k, NEW l, Minted(k), Minted(l), k[2].name = l[2].name
  PROVE  k = l
<1>1. PICK r \in Runs : \E i \in DOMAIN config[r] :
        k = <<RequestOf(config[r][i], channels), RequestOf(config[r][i], channels)>>
  BY DEF Minted
<1>2. PICK i \in DOMAIN config[r] :
        k = <<RequestOf(config[r][i], channels), RequestOf(config[r][i], channels)>>
  BY <1>1
<1>3. \E j \in DOMAIN config[r] :
        l = <<RequestOf(config[r][j], channels), RequestOf(config[r][j], channels)>>
  BY DEF Minted, SameConfig
<1>4. PICK j \in DOMAIN config[r] :
        l = <<RequestOf(config[r][j], channels), RequestOf(config[r][j], channels)>>
  BY <1>3
<1>5. config[r][i] \in Definitions /\ config[r][j] \in Definitions /\ channels \in SUBSET AllChannels
  BY Known DEF SInv, Typed, AccountTyped
<1>6. /\ RequestOf(config[r][i], channels).name = config[r][i].name
      /\ RequestOf(config[r][j], channels).name = config[r][j].name
  BY <1>5, RequestsAreTyped
<1>7. config[r][i].name = config[r][j].name
  BY <1>2, <1>4, <1>6
<1>8. i = j
  BY <1>7 DEF SInv, Typed
<1> QED
  BY <1>2, <1>4, <1>8

\* A run goes on by itself.
LEMMA Stepping ==
  ASSUME NEW r \in Runs, SyncStep(r)
  PROVE  \E next : run' = [run EXCEPT ![r] = next]
<1>1. ListChannels(r) \/ CannotPlan(r) \/ Plan(r) \/ PassCreateOver(r) \/ EndRows(r) \/ Confirm(r) \/ EndPrune(r) => \E next : run' = [run EXCEPT ![r] = next]
  BY Zenon DEF ListChannels, CannotPlan, Plan, PassCreateOver, EndRows, Confirm, EndPrune, Becomes
<1>2. CreateRow(r) => \E next : run' = [run EXCEPT ![r] = next]
  BY Zenon DEF CreateRow, Becomes
<1>3. UpdateRow(r) => \E next : run' = [run EXCEPT ![r] = next]
  BY Zenon DEF UpdateRow, Becomes
<1>4. DeleteRow(r) => \E next : run' = [run EXCEPT ![r] = next]
  BY Zenon DEF DeleteRow, Becomes
<1> QED
  BY <1>1, <1>2, <1>3, <1>4 DEF SyncStep

\* The steps that touch the account at all.
LEMMA Touches ==
  ASSUME SInv, NEW r \in Runs, SyncStep(r)
  PROVE  /\ others' = others /\ config' = config /\ lapsed' = lapsed
         /\ \A q \in Runs : q # r => run'[q] = run[q]
         /\ \/ UNCHANGED <<account, stored>> \/ CreateRow(r) \/ UpdateRow(r) \/ DeleteRow(r)
         /\ run[r].stopped =>
              \/ run[r].pc \in {"start", "listing"}
              \/ EndRows(r) \/ Confirm(r) \/ EndPrune(r)
<1>1. run \in [Runs -> State]
  BY DEF SInv, Typed
<1>2. others' = others /\ config' = config /\ lapsed' = lapsed
  BY DEF SyncStep, ListChannels, CannotPlan, Plan, CreateRow, PassCreateOver, UpdateRow, EndRows,
         Confirm, DeleteRow, EndPrune
<1>3. \E next : run' = [run EXCEPT ![r] = next]
  BY Stepping
<1>4. \A q \in Runs : q # r => run'[q] = run[q]
  BY <1>1, <1>3
<1>5. UNCHANGED <<account, stored>> \/ CreateRow(r) \/ UpdateRow(r) \/ DeleteRow(r)
  BY DEF SyncStep, ListChannels, CannotPlan, Plan, PassCreateOver, EndRows, Confirm, EndPrune
<1>6. run[r].stopped => run[r].pc \in {"start", "listing"} \/ EndRows(r) \/ Confirm(r) \/ EndPrune(r)
  BY DEF SyncStep, ListChannels, CannotPlan, Plan, CreateRow, PassCreateOver, UpdateRow, DeleteRow
<1> QED
  BY <1>2, <1>4, <1>5, <1>6

\* What is deleted is doomed, and whoever deletes it has landed all of its rows.
LEMMA DeletionEarnedHere ==
  ASSUME SInv, [Next]_vars, NEW u \in DOMAIN account, u \notin DOMAIN account', others' = others
  PROVE  \E r \in Runs :
           /\ DeleteRow(r)
           /\ Described(config[r]) = run[r].landed
           /\ Described(config[r]) # {}
           /\ account[u].name \notin Described(config[r])
<1>1. AccountTyped
  BY DEF SInv, Typed
<1>2. ~SomeoneEdits /\ ~SomeoneUnverifies /\ ~KeyIsSwept
  BY BoundsAssumption DEF SomeoneEdits, SomeoneUnverifies, KeyIsSwept, SInv, Typed
<1>3. PICK r \in Runs : SyncStep(r)
  BY <1>2 DEF Next, vars
<1>4. ~CreateRow(r)
  <2> SUFFICES ASSUME CreateRow(r) PROVE FALSE
    OBVIOUS
  <2>1. UNCHANGED account \/ \E key : MadeFor(key)
    BY DEF CreateRow
  <2>2. DOMAIN account \subseteq DOMAIN account'
    BY <2>1 DEF MadeFor
  <2> QED
    BY <2>2
<1>5. ~UpdateRow(r)
  <2> SUFFICES ASSUME UpdateRow(r) PROVE FALSE
    OBVIOUS
  <2>1. UNCHANGED account \/ \E id, monitor : account' = [account EXCEPT ![id] = monitor]
    BY DEF UpdateRow
  <2> QED
    BY <1>1, <2>1 DEF AccountTyped
<1>6. DeleteRow(r)
  BY <1>3, <1>4, <1>5, Touches
<1> DEFINE row == run[r].rows[Min(run[r].doomed)]
<1>7. Ready(r, run[r]) /\ run[r].pc = "pruning" /\ run[r].doomed # {}
  BY <1>6, Known DEF DeleteRow
<1>8. account' = [v \in DOMAIN account \ {row.uuid} |-> account[v]] \/ UNCHANGED account
  BY <1>6 DEF DeleteRow
<1>9. row.name \notin Described(config[r]) /\ Names(row)
  BY <1>7, DoomedIs
<1> HIDE DEF row
<1>10. u = row.uuid
  BY <1>8
<1>11. account[u].name = row.name
  BY <1>9, <1>10 DEF Names
<1>12. Described(config[r]) = run[r].landed /\ Described(config[r]) # {}
  BY <1>7 DEF Ready, AppliedTo
<1> QED
  BY <1>6, <1>9, <1>11, <1>12

\* A run that has been refused for good only returns.
LEMMA StoppedStopsHere ==
  ASSUME SInv, [Next]_vars, NEW r \in Runs, NEW kind \in run[r].heard, RefusesEverything(kind), run'[r] # run[r]
  PROVE  UNCHANGED <<account, stored>> /\ run'[r].failures <= run[r].failures
<1>1. Ready(r, run[r]) /\ run[r] \in State /\ run \in [Runs -> State]
  BY Known
<1>2. run[r].stopped /\ run[r].pc \notin {"start", "listing"}
  BY <1>1 DEF Ready, AppliedTo
<1>3. ~SomeoneEdits /\ ~SomeoneUnverifies /\ ~KeyIsSwept
  BY DEF SomeoneEdits, SomeoneUnverifies, KeyIsSwept
<1>4. PICK q \in Runs : SyncStep(q)
  BY <1>3 DEF Next, vars
<1>5. q = r
  BY <1>4, Touches
<1>6. EndRows(r) \/ Confirm(r) \/ EndPrune(r)
  BY <1>2, <1>4, <1>5, Touches
<1>7. UNCHANGED <<account, stored>>
  BY <1>6 DEF EndRows, Confirm, EndPrune
<1> DEFINE state == run[r]
<1>8. \/ \E over \in State : run' = [run EXCEPT ![r] = Over(over)]
      \/ run' = [run EXCEPT ![r] = [state EXCEPT !.pc = "asking"]]
      \/ run' = [run EXCEPT ![r] = [state EXCEPT !.pc = "pruning", !.doomed = Orphans(state.rows)]]
  <2>1. /\ [state EXCEPT !.unsafe = TRUE] \in State
        /\ [state EXCEPT !.declined = TRUE] \in State
    <3>1. state \in State
      BY <1>1
    <3> HIDE DEF state
    <3> QED
      BY <3>1 DEF State
  <2>2. CASE EndRows(r)
    <3>1. \/ run' = [run EXCEPT ![r] = Over(state)]
          \/ run' = [run EXCEPT ![r] = Over([state EXCEPT !.unsafe = TRUE])]
          \/ run' = [run EXCEPT ![r] = [state EXCEPT !.pc = "asking"]]
      BY <2>2 DEF EndRows, Becomes
    <3> QED
      BY <1>1, <2>1, <3>1
  <2>3. CASE Confirm(r)
    <3>1. \/ run' = [run EXCEPT ![r] = Over([state EXCEPT !.declined = TRUE])]
          \/ run' = [run EXCEPT ![r] = [state EXCEPT !.pc = "pruning", !.doomed = Orphans(state.rows)]]
      BY <2>3 DEF Confirm, Becomes
    <3> QED
      BY <1>1, <2>1, <3>1
  <2>4. CASE EndPrune(r)
    <3>1. run' = [run EXCEPT ![r] = Over(state)]
      BY <2>4 DEF EndPrune, Becomes
    <3> QED
      BY <1>1, <3>1
  <2> QED
    BY <1>6, <2>2, <2>3, <2>4
<1>9. run'[r].failures <= run[r].failures
  <2>1. state \in State /\ state.failures \in Nat
    BY <1>1 DEF State
  <2>2. CASE \E over \in State : run' = [run EXCEPT ![r] = Over(over)]
    <3>1. PICK over \in State : run' = [run EXCEPT ![r] = Over(over)]
      BY <2>2
    <3>2. Ready(r, Over(over)) /\ Over(over).failures = 0
      BY OverIsReady
    <3> QED
      BY <1>1, <2>1, <3>1, <3>2
  <2>3. CASE run' = [run EXCEPT ![r] = [state EXCEPT !.pc = "asking"]]
    <3>1. run'[r] = [state EXCEPT !.pc = "asking"]
      BY <1>1, <2>3
    <3> HIDE DEF state
    <3>2. state \in State
      BY <2>1
    <3>3. run'[r].failures = state.failures
      BY <3>1, <3>2 DEF State
    <3> QED
      BY <2>1, <3>3 DEF state
  <2>4. CASE run' = [run EXCEPT ![r] = [state EXCEPT !.pc = "pruning", !.doomed = Orphans(state.rows)]]
    <3>1. run'[r] = [state EXCEPT !.pc = "pruning", !.doomed = Orphans(state.rows)]
      BY <1>1, <2>4
    <3> HIDE DEF state
    <3>2. state \in State
      BY <2>1
    <3>3. run'[r].failures = state.failures
      BY <3>1, <3>2 DEF State
    <3> QED
      BY <2>1, <3>3 DEF state
  <2> QED
    BY <1>8, <2>2, <2>3, <2>4
<1> QED
  BY <1>7, <1>9

\* What an update does to the one monitor it is for.
LEMMA UpdateIs ==
  ASSUME SInv, NEW r \in Runs, UpdateRow(r)
  PROVE  /\ NextRow(run[r]).request \in Requests
         /\ \/ UNCHANGED account
            \/ /\ NextRow(run[r]).uuid \in DOMAIN account
               /\ account[NextRow(run[r]).uuid] \in Monitors
               /\ account[NextRow(run[r]).uuid].name = NextRow(run[r]).name
               /\ DOMAIN account' = DOMAIN account
               /\ account'[NextRow(run[r]).uuid] = Patched(account[NextRow(run[r]).uuid], NextRow(run[r]))
               /\ \A u \in DOMAIN account : u # NextRow(run[r]).uuid => account'[u] = account[u]
         /\ \E d \in DOMAIN config[r] : Asked(config[r][d], NextRow(run[r]), run[r].channels)
<1> DEFINE row == NextRow(run[r])
<1>1. /\ Ready(r, run[r]) /\ run[r].pc = "applying" /\ run[r].todo # {} /\ row.action = "update"
      /\ \/ row.uuid \in DOMAIN account /\ account' = [account EXCEPT ![row.uuid] = Patched(@, row)]
         \/ UNCHANGED account
  BY Known DEF UpdateRow
<1>2. row.request \in Requests
  BY <1>1, KeyIsMinted
<1>3. Names(row) /\ \E d \in DOMAIN config[r] : Asked(config[r][d], row, run[r].channels)
  BY <1>1, NextIs
<1> HIDE DEF row
<1>4. account \in [DOMAIN account -> Monitors]
  BY DEF SInv, Typed, AccountTyped
<1>5. ASSUME row.uuid \in DOMAIN account, account' = [account EXCEPT ![row.uuid] = Patched(@, row)]
      PROVE  /\ account[row.uuid] \in Monitors /\ account[row.uuid].name = row.name
             /\ DOMAIN account' = DOMAIN account
             /\ account'[row.uuid] = Patched(account[row.uuid], row)
             /\ \A u \in DOMAIN account : u # row.uuid => account'[u] = account[u]
  BY <1>3, <1>4, <1>5 DEF Names
<1>6. \/ UNCHANGED account
      \/ /\ row.uuid \in DOMAIN account
         /\ account[row.uuid] \in Monitors /\ account[row.uuid].name = row.name
         /\ DOMAIN account' = DOMAIN account
         /\ account'[row.uuid] = Patched(account[row.uuid], row)
         /\ \A u \in DOMAIN account : u # row.uuid => account'[u] = account[u]
  BY <1>1, <1>5
<1> QED
  BY <1>2, <1>3, <1>6 DEF row

LEMMA EditsSurviveHere ==
  ASSUME SInv, NEW r \in Runs, UpdateRow(r), NEW row, row = NextRow(run[r]), row.uuid \in DOMAIN account,
         NEW f \in {"schedule", "tz", "channels"}, account'[row.uuid][f] # account[row.uuid][f]
  PROVE  \E i \in DOMAIN config[r] :
           /\ config[r][i].name = row.name
           /\ f = "tz" => config[r][i].tz # Unstated
           /\ f = "channels" => config[r][i].mode # "unmanaged"
           /\ f \in row.fields
<1>1. /\ row.request \in Requests
      /\ account[row.uuid] \in Monitors /\ account'[row.uuid] = Patched(account[row.uuid], row)
  BY UpdateIs
<1>2. PICK d \in DOMAIN config[r] : Asked(config[r][d], row, run[r].channels)
  BY UpdateIs
<1> DEFINE before == account[row.uuid]
           after  == Patched(before, row)
<1>3. before \in Monitors /\ after[f] # before[f]
  BY <1>1
<1> HIDE DEF before
<1>4. /\ after.schedule = IF "schedule" \in row.fields THEN row.request.schedule ELSE before.schedule
      /\ after.tz = IF "tz" \in row.fields THEN row.request.tz ELSE before.tz
      /\ after.channels = IF "channels" \in row.fields THEN row.request.channels ELSE before.channels
  BY <1>1, <1>3, PatchedIs
<1> HIDE DEF after
<1>5. f \in row.fields
  BY <1>3, <1>4
<1> QED
  BY <1>2, <1>5 DEF Asked, Manages

\* A monitor that is made or rerouted alerts somebody or is not to.
LEMMA NotSilencedHere ==
  ASSUME SInv, NEW r \in Runs, CreateRow(r) \/ UpdateRow(r), NEW u \in DOMAIN account',
         u \notin DOMAIN account \/ account'[u].channels # account[u].channels
  PROVE  \/ VerifiedAmong(run[r].channels, account'[u].channels) # {}
         \/ \E i \in DOMAIN config[r] :
              config[r][i].name = account'[u].name /\ config[r][i].mode = "none"
<1> DEFINE row == NextRow(run[r])
           chans == run[r].channels
<1>1. SUFFICES ASSUME NEW monitor, monitor = account'[u]
               PROVE  \/ VerifiedAmong(chans, monitor.channels) # {}
                      \/ \E i \in DOMAIN config[r] :
                           config[r][i].name = monitor.name /\ config[r][i].mode = "none"
  OBVIOUS
<1>2. CASE CreateRow(r)
  <2>1. Ready(r, run[r]) /\ run[r].pc = "applying" /\ run[r].todo # {} /\ row.action = "create"
    BY <1>2, Known DEF CreateRow
  <2>2. PICK d \in DOMAIN config[r] : Asked(config[r][d], row, chans)
    BY <2>1, NextIs
  <2>3. row.request \in Requests /\ row.request.name = row.name
    BY <2>1, KeyIsMinted
  <2>4. UNCHANGED account \/ MadeFor(<<row.request, row.request>>)
    BY <1>2 DEF CreateRow, KeyOf, IdempotencyKeyFor
  <2> HIDE DEF row, chans
  <2>5. monitor = MonitorOf(row.request)
    <3>1. ASSUME NEW key, key = <<row.request, row.request>>, MadeFor(key), account' # account
          PROVE  monitor = MonitorOf(key[2])
      <4> DEFINE made == MonitorOf(key[2])
      <4>1. PICK uuid \in Uuids \ DOMAIN born :
              account' = [v \in DOMAIN account \cup {uuid} |-> IF v = uuid THEN made ELSE account[v]]
        BY <3>1 DEF MadeFor
      <4> HIDE DEF made
      <4>2. u \in DOMAIN account \cup {uuid} /\ (u # uuid => account'[u] = account[u] /\ u \in DOMAIN account)
        BY <4>1
      <4>3. u = uuid
        BY <4>2
      <4>4. account'[u] = made
        BY <4>1, <4>3
      <4> QED
        BY <1>1, <4>4 DEF made
    <3>2. account' # account
      OBVIOUS
    <3> QED
      BY <2>4, <3>1, <3>2
  <2>6. monitor.name = row.name /\ monitor.channels = row.request.channels
    BY <2>3, <2>5, MonitorIs
  <2> QED
    BY <2>1, <2>2, <2>6 DEF Asked
<1>3. CASE UpdateRow(r)
  <2>1. account' # account
    OBVIOUS
  <2>2. /\ row.request \in Requests /\ row.uuid \in DOMAIN account
        /\ account[row.uuid] \in Monitors /\ account[row.uuid].name = row.name
        /\ DOMAIN account' = DOMAIN account /\ account'[row.uuid] = Patched(account[row.uuid], row)
        /\ \A v \in DOMAIN account : v # row.uuid => account'[v] = account[v]
    BY <1>3, <2>1, UpdateIs
  <2>3. PICK d \in DOMAIN config[r] : Asked(config[r][d], row, chans)
    BY <1>3, UpdateIs
  <2> HIDE DEF row, chans
  <2>4. u = row.uuid
    BY <2>2
  <2>5. /\ monitor.name = row.name
        /\ monitor.channels = IF "channels" \in row.fields THEN row.request.channels ELSE account[u].channels
    BY <1>1, <2>2, <2>4, PatchedIs
  <2>6. "channels" \in row.fields /\ monitor.channels = row.request.channels
    BY <1>1, <2>2, <2>4, <2>5
  <2> QED
    BY <2>3, <2>5, <2>6 DEF Asked
<1> QED
  BY <1>2, <1>3

-----------------------------------------------------------------------------
(* The theorems.                                                            *)

\* A monitor is deleted only by a run all of whose rows have landed, and only one
\* its configuration does not describe; and once the service has refused the
\* account, nothing more is asked of it (sync/apply.ts).
THEOREM DeletionsAreEarned == Spec => NothingUnearned
<1>1. SInv /\ [Next]_vars =>
        \A u \in DOMAIN account : u \notin DOMAIN account' /\ others' = others =>
          \E r \in Runs :
            /\ DeleteRow(r)
            /\ Described(config[r]) = run[r].landed
            /\ Described(config[r]) # {}
            /\ account[u].name \notin Described(config[r])
  BY DeletionEarnedHere
<1>2. SInv /\ [Next]_vars =>
        \A r \in Runs :
          ((\E kind \in run[r].heard : RefusesEverything(kind)) /\ run'[r] # run[r]) =>
            /\ UNCHANGED <<account, stored>>
            /\ run'[r].failures <= run[r].failures
  BY StoppedStopsHere
<1>3. Spec => DeletionIsEarned
  BY <1>1, SInvHolds, PTL DEF Spec, DeletionIsEarned
<1>4. Spec => StoppedRunsStop
  BY <1>2, SInvHolds, PTL DEF Spec, StoppedRunsStop
<1> QED
  BY <1>3, <1>4 DEF NothingUnearned

\* An update moves only what differed when it was planned and its definition
\* manages, so that nothing anybody did since is undone; and no monitor is made or
\* rerouted so that it alerts nobody, unless its definition says so (sync/plan.ts).
THEOREM NothingIsUndone == Spec => NothingUndone
<1>1. SInv =>
        \A r \in Runs : UpdateRow(r) =>
          LET row == NextRow(run[r]) IN
            row.uuid \in DOMAIN account =>
              \A f \in {"schedule", "tz", "channels"} :
                account'[row.uuid][f] # account[row.uuid][f] =>
                  \E i \in DOMAIN config[r] :
                    /\ config[r][i].name = row.name
                    /\ f = "tz" => config[r][i].tz # Unstated
                    /\ f = "channels" => config[r][i].mode # "unmanaged"
                    /\ f \in row.fields
  BY EditsSurviveHere
<1>2. SInv =>
        \A r \in Runs : (CreateRow(r) \/ UpdateRow(r)) =>
          \A u \in DOMAIN account' :
            (u \notin DOMAIN account \/ account'[u].channels # account[u].channels) =>
              \/ VerifiedAmong(run[r].channels, account'[u].channels) # {}
              \/ \E i \in DOMAIN config[r] :
                   config[r][i].name = account'[u].name /\ config[r][i].mode = "none"
  BY NotSilencedHere
<1>3. Spec => OthersEditsSurvive
  BY <1>1, SInvHolds, PTL DEF Spec, OthersEditsSurvive
<1>4. Spec => NeverSilenced
  BY <1>2, SInvHolds, PTL DEF Spec, NeverSilenced
<1> QED
  BY <1>3, <1>4 DEF NothingUndone

-----------------------------------------------------------------------------
(* That a run with status 0 has converged.                                  *)

\* The monitors of a name, and the fields in which one is not as it was defined.
NamedIn(acc, name) == {u \in DOMAIN acc : acc[u].name = name}
GapIn(def, monitor, chans) == DifferencesFrom(def, monitor, ResolvedRouting(def, chans))
KeyFor(def, chans) == <<RequestOf(def, chans), RequestOf(def, chans)>>

\* A definition reaches somebody, or is not to.
Routable(def, chans) ==
  LET routing == ResolvedRouting(def, chans)
  IN  routing.ok /\ (def.mode = "listed" => VerifiedAmong(chans, routing.ids) # {})

\* One monitor of the name, which differs in some fields at most.
Has(def, u, fields, chans, acc) ==
  NamedIn(acc, def.name) = {u} /\ GapIn(def, acc[u], chans) \subseteq fields

\* Planned again, it is left alone.
Settled(def, chans, acc) ==
  Routable(def, chans) /\ \E u \in DOMAIN acc : Has(def, u, {}, chans, acc)

\* There is none of the name, or the one that was made will be answered again.
ToMake(def, chans, acc, st) == NamedIn(acc, def.name) = {} \/ KeyFor(def, chans) \in DOMAIN st

\* What is to come of a row settles its definition, whatever other runs of the
\* same configuration do before it.
Coming(def, row, chans, acc, st) ==
  /\ row.name = def.name /\ row.request = RequestOf(def, chans) /\ Routable(def, chans)
  /\ \/ row.action = "create" /\ ToMake(def, chans, acc, st)
     \/ row.action = "update" /\ Has(def, row.uuid, row.fields, chans, acc)

UuidsAt(rows, T) == {rows[i].uuid : i \in T}

RowsCome(state, defs, chans, acc, st) ==
  state.pc = "applying" =>
    \A i \in state.todo : \E d \in DOMAIN defs : Coming(defs[d], state.rows[i], chans, acc, st)

LandedStand(state, defs, chans, acc) ==
  state.pc \in {"applying", "asking", "pruning"} =>
    /\ \A d \in DOMAIN defs : defs[d].name \in state.landed => Settled(defs[d], chans, acc)
    /\ OrphansIn(defs, acc) \subseteq UuidsAt(state.rows, Orphans(state.rows))

OrphansGo(state, defs, acc) ==
  state.pc = "pruning" /\ state.failures = 0 => OrphansIn(defs, acc) \subseteq UuidsAt(state.rows, state.doomed)

Ended(state, defs, chans, acc) ==
  state.pc = "over" /\ state.exit = 0 /\ state.mode.apply =>
    /\ \A d \in DOMAIN defs : Settled(defs[d], chans, acc)
    /\ state.mode.prune /\ ~state.declined => OrphansIn(defs, acc) = {}

Converging(state, defs, chans, acc, st) ==
  /\ state.pc \notin {"start", "over"} => state.channels = chans
  /\ RowsCome(state, defs, chans, acc, st) /\ LandedStand(state, defs, chans, acc)
  /\ OrphansGo(state, defs, acc) /\ Ended(state, defs, chans, acc)

\* What a key was answered with is what its definition asks for.
KeysStand(defs, chans, acc, st) ==
  \A d \in DOMAIN defs : KeyFor(defs[d], chans) \in DOMAIN st => Has(defs[d], st[KeyFor(defs[d], chans)], {}, chans, acc)

Undisturbed == others = 0 /\ SameConfig /\ NothingMissed /\ ~lapsed

CInv ==
  /\ \A r \in Runs : run[r].pc \in {"start", "listing"} => ~run[r].missed
  /\ Undisturbed => \A r \in Runs :
       /\ Converging(run[r], config[r], channels, account, stored)
       /\ KeysStand(config[r], channels, account, stored)

\* What a step does to the account that leaves what stands as it was.
Gentle(defs, chans, acc, acc2, st, st2) ==
  /\ \A d \in DOMAIN defs :
       /\ \A u, fields : Has(defs[d], u, fields, chans, acc) => Has(defs[d], u, fields, chans, acc2)
       /\ ToMake(defs[d], chans, acc, st) => ToMake(defs[d], chans, acc2, st2)
  /\ OrphansIn(defs, acc2) \subseteq OrphansIn(defs, acc)

\* A run that has a row less to go, and has landed what is said.
EndsAs(end, state, landed) ==
  /\ end.pc = state.pc /\ end.channels = state.channels /\ end.rows = state.rows
  /\ end.missed = state.missed /\ end.todo = state.todo \ {Min(state.todo)}
  /\ end.landed = landed

-----------------------------------------------------------------------------
(* How a step leaves what stands.                                           *)

\* What a plan makes of a definition: it is left alone exactly if it is settled, and
\* what is made or updated settles it.
LEMMA RowTells ==
  ASSUME NEW def \in Definitions, NEW chans, NEW acc, IsFiniteSet(DOMAIN acc), NEW st
  PROVE  /\ RowFor(def, chans, acc).action = "unchanged" <=> Settled(def, chans, acc)
         /\ RowFor(def, chans, acc).action \in {"create", "update"} =>
              Coming(def, RowFor(def, chans, acc), chans, acc, st)
<1> DEFINE routing  == ResolvedRouting(def, chans)
           found    == {u \in DOMAIN acc : acc[u].name = def.name}
           uuid     == CHOOSE u \in found : TRUE
           attached == IF found = {} THEN {} ELSE acc[uuid].channels
           alerts   == AlertsFor(routing, chans, attached)
           changes  == DifferencesFrom(def, acc[uuid], routing)
           silent   == alerts = {} \/ (found # {} /\ acc[uuid].suppressed)
           request  == RequestOf(def, chans)
           row      == RowFor(def, chans, acc)
<1>1. row = IF ~routing.ok THEN Row("refused", def, 0, {}, routing, FALSE)
            ELSE IF IsConflict(found) THEN Row("conflict", def, 0, {}, routing, FALSE)
            ELSE IF WouldAlertNobody(alerts, routing, found) THEN Row("refused", def, 0, {}, routing, FALSE)
            ELSE IF found = {} THEN Row("create", def, 0, {}, routing, silent)
            ELSE IF changes = {} THEN Row("unchanged", def, uuid, {}, routing, silent)
            ELSE Row("update", def, uuid, FieldsSent(def, changes, routing), routing, silent)
  BY DEF RowFor
<1>2. \A action, id, fields, quiet :
        Row(action, def, id, fields, routing, quiet) =
          [action |-> action, name |-> def.name, uuid |-> id, fields |-> fields,
           request |-> request, silent |-> quiet]
  BY DEF Row, RequestOf
<1>3. found = NamedIn(acc, def.name) /\ (found # {} => uuid \in found) /\ found \subseteq DOMAIN acc
  BY DEF NamedIn
<1>4. routing.mode = def.mode /\ def.mode \in {"unmanaged", "none", "listed"}
  BY DEF ResolvedRouting, Definitions
<1>5. Routable(def, chans) <=> routing.ok /\ (def.mode = "listed" => VerifiedAmong(chans, routing.ids) # {})
  BY DEF Routable
<1>6. def.mode = "listed" => alerts = VerifiedAmong(chans, routing.ids)
  BY <1>4 DEF AlertsFor
<1>7. \A u : GapIn(def, acc[u], chans) = DifferencesFrom(def, acc[u], routing)
  BY DEF GapIn
<1>8. changes = DifferencesFrom(def, acc[uuid], routing)
  OBVIOUS
<1>9. request = RequestOf(def, chans)
  OBVIOUS
<1> HIDE DEF routing, found, uuid, attached, alerts, changes, silent, request, row
<1>10. WouldAlertNobody(alerts, routing, found) /\ found # {} =>
         def.mode = "listed" /\ VerifiedAmong(chans, routing.ids) = {}
  BY <1>4, <1>6 DEF WouldAlertNobody
<1>11. ~WouldAlertNobody(alerts, routing, found) =>
         (def.mode = "listed" => VerifiedAmong(chans, routing.ids) # {})
  BY <1>4, <1>6 DEF WouldAlertNobody
<1>12. ASSUME NEW u, found = {u} PROVE ~IsConflict(found)
  <2>1. Cardinality({u}) = 1
    BY FS_Singleton
  <2> QED
    BY <1>12, <2>1 DEF IsConflict
<1>13. found # {} /\ ~IsConflict(found) => found = {uuid}
  <2> SUFFICES ASSUME found # {}, ~IsConflict(found) PROVE found = {uuid}
    OBVIOUS
  <2>1. IsFiniteSet(found) /\ {uuid} \subseteq found
    BY <1>3, FS_Subset
  <2>2. Cardinality(found) \in Nat /\ ~(Cardinality(found) > 1)
    BY <2>1, FS_CardinalityType DEF IsConflict
  <2>3. Cardinality({uuid}) = 1 /\ IsFiniteSet({uuid})
    BY FS_Singleton
  <2>4. Cardinality({uuid}) <= Cardinality(found) /\ (Cardinality({uuid}) = Cardinality(found) => {uuid} = found)
    BY <2>1, FS_Subset
  <2> QED
    BY <2>2, <2>3, <2>4
<1> DEFINE Told ==
      /\ row.action = "unchanged" <=> Settled(def, chans, acc)
      /\ row.action \in {"create", "update"} => Coming(def, row, chans, acc, st)
<1>14. ASSUME ~routing.ok \/ IsConflict(found) \/ WouldAlertNobody(alerts, routing, found)
       PROVE  Told
  <2>1. row = Row("refused", def, 0, {}, routing, FALSE) \/ row = Row("conflict", def, 0, {}, routing, FALSE)
    BY <1>1, <1>14, Zenon
  <2>2. /\ Row("refused", def, 0, {}, routing, FALSE).action = "refused"
        /\ Row("conflict", def, 0, {}, routing, FALSE).action = "conflict"
    BY DEF Row
  <2>3. row.action = "refused" \/ row.action = "conflict"
    BY <2>1, <2>2, Zenon
  <2>4. ~Settled(def, chans, acc)
    <3> SUFFICES ASSUME Settled(def, chans, acc) PROVE FALSE
      OBVIOUS
    <3>1. Routable(def, chans) /\ \E u \in DOMAIN acc : found = {u}
      BY <1>3 DEF Settled, Has
    <3> QED
      BY <1>5, <1>10, <1>12, <1>14, <3>1
  <2> QED
    BY <2>4, <2>3
<1>15. ASSUME ~(~routing.ok \/ IsConflict(found) \/ WouldAlertNobody(alerts, routing, found)), found = {}
       PROVE  Told
  <2>1. row = Row("create", def, 0, {}, routing, silent)
    BY <1>1, <1>15
  <2>2. row = [action |-> "create", name |-> def.name, uuid |-> 0, fields |-> {},
               request |-> request, silent |-> silent]
    BY <1>2, <2>1
  <2>3. Routable(def, chans)
    BY <1>5, <1>11, <1>15
  <2>4. Coming(def, row, chans, acc, st)
    BY <1>3, <1>9, <1>15, <2>2, <2>3 DEF Coming, ToMake
  <2>5. ~Settled(def, chans, acc)
    BY <1>3, <1>15 DEF Settled, Has
  <2>6. row.action = "create"
    BY <2>2
  <2> QED
    BY <2>4, <2>5, <2>6
<1>16. ASSUME ~(~routing.ok \/ IsConflict(found) \/ WouldAlertNobody(alerts, routing, found)), found # {}
       PROVE  Told
  <2>1. Routable(def, chans)
    BY <1>5, <1>11, <1>16
  <2>2. NamedIn(acc, def.name) = {uuid} /\ uuid \in DOMAIN acc
    BY <1>3, <1>13, <1>16
  <2>3. GapIn(def, acc[uuid], chans) = changes
    BY <1>7, <1>8
  <2>4. CASE changes = {}
    <3>1. row = Row("unchanged", def, uuid, {}, routing, silent)
      BY <1>1, <1>16, <2>4
    <3>2. row.action = "unchanged"
      BY <1>2, <3>1
    <3>3. Settled(def, chans, acc)
      BY <2>1, <2>2, <2>3, <2>4 DEF Settled, Has
    <3> QED
      BY <3>2, <3>3
  <2>5. CASE changes # {}
    <3>1. row = Row("update", def, uuid, changes, routing, silent)
      BY <1>1, <1>16, <2>5 DEF FieldsSent
    <3>2. row = [action |-> "update", name |-> def.name, uuid |-> uuid, fields |-> changes,
                 request |-> request, silent |-> silent]
      BY <1>2, <3>1
    <3>3. Has(def, row.uuid, row.fields, chans, acc)
      BY <2>2, <2>3, <3>2 DEF Has
    <3>4. Coming(def, row, chans, acc, st)
      BY <1>9, <2>1, <3>2, <3>3 DEF Coming
    <3>5. ~Settled(def, chans, acc)
      <4> SUFFICES ASSUME Settled(def, chans, acc) PROVE FALSE
        OBVIOUS
      <4>1. PICK u \in DOMAIN acc : Has(def, u, {}, chans, acc)
        BY DEF Settled
      <4>2. u = uuid
        BY <2>2, <4>1 DEF Has
      <4> QED
        BY <2>3, <2>5, <4>1, <4>2 DEF Has
    <3>6. row.action = "update"
      BY <3>2
    <3> QED
      BY <3>4, <3>5, <3>6
  <2> QED
    BY <2>4, <2>5
<1> QED
  BY <1>14, <1>15, <1>16 DEF row

LEMMA GentleKeeps ==
  ASSUME NEW state, NEW defs, NEW chans, NEW acc, NEW acc2, NEW st, NEW st2,
         Gentle(defs, chans, acc, acc2, st, st2), Converging(state, defs, chans, acc, st)
  PROVE  Converging(state, defs, chans, acc2, st2)
<1>1. ASSUME NEW d \in DOMAIN defs, Settled(defs[d], chans, acc)
      PROVE  Settled(defs[d], chans, acc2)
  <2>1. PICK u \in DOMAIN acc : Has(defs[d], u, {}, chans, acc)
    BY <1>1 DEF Settled
  <2>2. Has(defs[d], u, {}, chans, acc2)
    BY <2>1 DEF Gentle
  <2>3. u \in DOMAIN acc2
    BY <2>2 DEF Has, NamedIn
  <2> QED
    BY <1>1, <2>2, <2>3 DEF Settled
<1>2. ASSUME NEW d \in DOMAIN defs, NEW row, Coming(defs[d], row, chans, acc, st)
      PROVE  Coming(defs[d], row, chans, acc2, st2)
  BY <1>2 DEF Coming, Gentle
<1>3. OrphansIn(defs, acc2) \subseteq OrphansIn(defs, acc)
  BY DEF Gentle
<1>4. RowsCome(state, defs, chans, acc2, st2)
  BY <1>2 DEF Converging, RowsCome
<1>5. LandedStand(state, defs, chans, acc2)
  BY <1>1, <1>3 DEF Converging, LandedStand
<1>6. OrphansGo(state, defs, acc2)
  BY <1>3 DEF Converging, OrphansGo
<1>7. Ended(state, defs, chans, acc2)
  BY <1>1, <1>3 DEF Converging, Ended
<1> QED
  BY <1>4, <1>5, <1>6, <1>7 DEF Converging

LEMMA GentleItself ==
  ASSUME NEW defs, NEW chans, NEW acc, NEW st
  PROVE  Gentle(defs, chans, acc, acc, st, st)
BY DEF Gentle

\* Under the same keys, what is gentle leaves them standing.
LEMMA GentleKeys ==
  ASSUME NEW defs, NEW chans, NEW acc, NEW acc2, NEW st,
         Gentle(defs, chans, acc, acc2, st, st), KeysStand(defs, chans, acc, st)
  PROVE  KeysStand(defs, chans, acc2, st)
BY DEF Gentle, KeysStand

\* One run takes a step that leaves what stands as it was.
LEMMA StepConverges ==
  ASSUME SInv, CInv, NEW r \in Runs, NEW next, run' = [run EXCEPT ![r] = next],
         UNCHANGED <<config, channels, others, lapsed>>,
         next.pc \in {"start", "listing"} => ~next.missed,
         run[r].missed => next.missed,
         Undisturbed /\ ~next.missed =>
           /\ Gentle(config[r], channels, account, account', stored, stored')
           /\ KeysStand(config[r], channels, account', stored')
           /\ Converging(next, config[r], channels, account', stored')
  PROVE  CInv'
<1>1. run \in [Runs -> State]
  BY DEF SInv, Typed
<1>2. run'[r] = next /\ \A q \in Runs : q # r => run'[q] = run[q]
  BY <1>1
<1>3. ASSUME NEW q \in Runs, run'[q].pc \in {"start", "listing"} PROVE ~run'[q].missed
  BY <1>2, <1>3 DEF CInv
<1>4. ASSUME Undisturbed', NEW q \in Runs
      PROVE  /\ Converging(run'[q], config'[q], channels', account', stored')
             /\ KeysStand(config'[q], channels', account', stored')
  <2>1. others = 0 /\ ~lapsed /\ \A p, s \in Runs : config[p] = config[s] /\ ~run'[p].missed
    BY <1>4 DEF Undisturbed, SameConfig, NothingMissed
  <2>2. ~next.missed
    BY <1>2, <2>1
  <2>3. Undisturbed
    BY <1>2, <2>1, <2>2 DEF Undisturbed, SameConfig, NothingMissed
  <2>4. config[q] = config[r]
    BY <2>1
  <2>5. CASE q = r
    BY <1>2, <2>2, <2>3, <2>5
  <2>6. CASE q # r
    <3>1. Converging(run[q], config[r], channels, account, stored)
      BY <2>3, <2>4 DEF CInv
    <3>2. Gentle(config[r], channels, account, account', stored, stored')
      BY <2>2, <2>3
    <3> DEFINE state == run[q]
               acc2  == account'
               st2   == stored'
    <3>3. Converging(state, config[r], channels, account, stored)
             /\ Gentle(config[r], channels, account, acc2, stored, st2)
      BY <3>1, <3>2
    <3> HIDE DEF state, acc2, st2
    <3>4. Converging(state, config[r], channels, acc2, st2)
      BY <3>3, GentleKeeps
    <3> QED
      BY <1>2, <2>2, <2>3, <2>4, <2>6, <3>4 DEF state, acc2, st2
  <2> QED
    BY <2>5, <2>6
<1> QED
  BY <1>3, <1>4 DEF CInv

\* A run takes a step and the account stays.
LEMMA QuietConverges ==
  ASSUME SInv, CInv, NEW r \in Runs, NEW next, run' = [run EXCEPT ![r] = next],
         UNCHANGED <<account, channels, stored, config, born, others, lapsed>>,
         next.pc \in {"start", "listing"} => ~next.missed,
         run[r].missed => next.missed,
         Undisturbed /\ ~next.missed => Converging(next, config[r], channels, account, stored)
  PROVE  CInv'
<1>1. ASSUME Undisturbed PROVE KeysStand(config[r], channels, account, stored)
  BY <1>1 DEF CInv
<1>2. Gentle(config[r], channels, account, account, stored, stored)
  BY GentleItself
<1> QED
  BY <1>1, <1>2, StepConverges

\* What an over run says, and what is left of it.
LEMMA OverSays ==
  ASSUME NEW state, state.mode \in [apply : BOOLEAN, check : BOOLEAN, prune : BOOLEAN, yes : BOOLEAN]
  PROVE  /\ Over(state).pc = "over" /\ Over(state).exit = ExitStatus(state)
         /\ Over(state).declined = state.declined /\ Over(state).missed = state.missed
         /\ Over(state).mode = state.mode
<1> DEFINE status == ExitStatus(state)
           mode == state.mode
           fresh == Fresh(mode)
           declined == state.declined
           missed == state.missed
<1>1. mode \in [apply : BOOLEAN, check : BOOLEAN, prune : BOOLEAN, yes : BOOLEAN]
  OBVIOUS
<1>2. Over(state) = [fresh EXCEPT !.pc = "over", !.exit = status, !.declined = declined, !.missed = missed]
  BY DEF Over
<1> HIDE DEF status, mode, declined, missed
<1>3. fresh \in State
  BY <1>1, FreshIs
<1>4. fresh.mode = mode
  BY DEF Fresh
<1> HIDE DEF fresh
<1>5. /\ Over(state).pc = "over" /\ Over(state).exit = status /\ Over(state).declined = declined
      /\ Over(state).missed = missed /\ Over(state).mode = mode
  BY <1>2, <1>3, <1>4 DEF State
<1> QED
  BY <1>5 DEF status, mode, declined, missed

LEMMA OverIs ==
  ASSUME NEW state \in State
  PROVE  /\ Over(state).pc = "over" /\ Over(state).exit = ExitStatus(state)
         /\ Over(state).declined = state.declined /\ Over(state).missed = state.missed
         /\ Over(state).mode = state.mode
BY OverSays DEF State

\* A run that says it is done and has not planned, or not to apply, says nothing.
LEMMA OverConverges ==
  ASSUME NEW state \in State, NEW defs, NEW chans, NEW acc, NEW st,
         state.mode.apply /\ ~(state.failures > 0) /\ ~state.unsafe =>
           \/ /\ \A d \in DOMAIN defs : Settled(defs[d], chans, acc)
              /\ state.mode.prune /\ ~state.declined => OrphansIn(defs, acc) = {}
           \/ state.mode.prune /\ ~state.declined /\ state.deleted < Cardinality(Orphans(state.rows))
  PROVE  Converging(Over(state), defs, chans, acc, st)
<1> DEFINE over == Over(state)
<1>1. /\ over.pc = "over" /\ over.exit = ExitStatus(state) /\ over.declined = state.declined
      /\ over.mode = state.mode
  BY OverIs
<1> HIDE DEF over
<1>2. ASSUME state.mode.apply, ExitStatus(state) = 0
      PROVE  /\ ~(state.failures > 0) /\ ~state.unsafe
             /\ ~(state.mode.prune /\ ~state.declined /\ state.deleted < Cardinality(Orphans(state.rows)))
  BY <1>2 DEF ExitStatus
<1>3. Ended(over, defs, chans, acc)
  BY <1>1, <1>2 DEF Ended
<1> QED
  BY <1>1, <1>3 DEF Converging, RowsCome, LandedStand, OrphansGo, over

LEMMA ListChannelsConverges ==
  ASSUME SInv, CInv, NEW r \in Runs, ListChannels(r)
  PROVE  CInv'
<1> DEFINE state == run[r]
           next  == [state EXCEPT !.pc = "listing", !.channels = channels]
<1>1. state \in State
  BY Known
<1>2. /\ run' = [run EXCEPT ![r] = next] /\ UNCHANGED <<account, channels, stored, config, born, others, lapsed>>
      /\ state.pc = "start"
  BY DEF ListChannels, Becomes
<1>3. ~state.missed
  BY <1>2 DEF CInv
<1>4. run[r].missed <=> state.missed
  OBVIOUS
<1> HIDE DEF state
<1>5. next.pc = "listing" /\ next.channels = channels /\ next.missed = state.missed
  BY <1>1 DEF State
<1> HIDE DEF next
<1>6. Converging(next, config[r], channels, account, stored)
  BY <1>5 DEF Converging, RowsCome, LandedStand, OrphansGo, Ended
<1> QED
  BY <1>2, <1>3, <1>4, <1>5, <1>6, QuietConverges

LEMMA CannotPlanConverges ==
  ASSUME SInv, CInv, NEW r \in Runs, CannotPlan(r)
  PROVE  CInv'
<1> DEFINE state == run[r]
           next  == [state EXCEPT !.pc = "over", !.exit = 1]
<1>1. state \in State
  BY Known
<1>2. /\ run' = [run EXCEPT ![r] = next] /\ UNCHANGED <<account, channels, stored, config, born, others, lapsed>>
      /\ state.pc \in {"start", "listing"}
  BY DEF CannotPlan, Becomes
<1>3. run[r].missed <=> state.missed
  OBVIOUS
<1> HIDE DEF state
<1>4. next.pc = "over" /\ next.exit = 1 /\ next.missed = state.missed
  BY <1>1 DEF State
<1> HIDE DEF next
<1>5. Converging(next, config[r], channels, account, stored)
  BY <1>4 DEF Converging, RowsCome, LandedStand, OrphansGo, Ended
<1> QED
  BY <1>2, <1>3, <1>4, <1>5, QuietConverges

\* A run that goes on with fewer rows, and has landed no more than what stands.
LEMMA GoingOn ==
  ASSUME NEW state, NEW next, NEW defs, NEW chans, NEW acc, NEW st,
         Converging(state, defs, chans, acc, st), state.pc = "applying", next.pc = "applying",
         next.channels = state.channels, next.rows = state.rows, next.todo \subseteq state.todo,
         \A d \in DOMAIN defs :
           defs[d].name \in next.landed => defs[d].name \in state.landed \/ Settled(defs[d], chans, acc)
  PROVE  Converging(next, defs, chans, acc, st)
<1>1. RowsCome(next, defs, chans, acc, st)
  BY DEF Converging, RowsCome
<1>2. LandedStand(next, defs, chans, acc)
  BY DEF Converging, LandedStand
<1>3. OrphansGo(next, defs, acc) /\ Ended(next, defs, chans, acc)
  BY DEF OrphansGo, Ended
<1>4. next.channels = chans
  BY DEF Converging
<1> QED
  BY <1>1, <1>2, <1>3, <1>4 DEF Converging

\* However a row ends.
LEMMA RowEndsAs ==
  ASSUME NEW state \in State, NEW row, NEW error
  PROVE  /\ EndsAs(Rest(Landed(state, row)), state, state.landed \cup {row.name})
         /\ EndsAs(Rest(Record(state, row, error)), state, state.landed)
         /\ EndsAs(Rest([state EXCEPT !.failures = @ + 1]), state, state.landed)
<1> DEFINE todo == state.todo \ {Min(state.todo)}
           landed == state.landed \cup {row.name}
           As(end, what) ==
             /\ end.pc = state.pc /\ end.channels = state.channels /\ end.rows = state.rows
             /\ end.missed = state.missed /\ end.todo = todo /\ end.landed = what
<1>1. ASSUME NEW some, NEW what, DOMAIN some = DOMAIN state, some = [f \in DOMAIN some |-> some[f]],
             some.pc = state.pc, some.channels = state.channels, some.rows = state.rows,
             some.missed = state.missed, some.todo = state.todo, some.landed = what
      PROVE  As(Rest(some), what)
  <2>1. Rest(some) = [some EXCEPT !.todo = todo]
    BY <1>1 DEF Rest
  <2>2. {"pc", "channels", "rows", "missed", "todo", "landed"} \subseteq DOMAIN some
    BY <1>1 DEF State
  <2> HIDE DEF todo
  <2> QED
    BY <1>1, <2>1, <2>2
<1>2. As(Rest(Landed(state, row)), landed)
  <2> DEFINE some == Landed(state, row)
  <2>1. some = [state EXCEPT !.landed = landed]
    BY DEF Landed
  <2> HIDE DEF some, landed
  <2>2. /\ DOMAIN some = DOMAIN state /\ some = [f \in DOMAIN some |-> some[f]]
        /\ some.pc = state.pc /\ some.channels = state.channels /\ some.rows = state.rows
        /\ some.missed = state.missed /\ some.todo = state.todo /\ some.landed = landed
    BY <2>1 DEF State
  <2>3. As(Rest(some), landed)
    <3> HIDE DEF As
    <3> QED
      BY <1>1, <2>2
  <2> QED
    BY <2>3 DEF some
<1>3. As(Rest(Record(state, row, error)), state.landed)
  <2> DEFINE some == Record(state, row, error)
             count == state.failures + 1
             heard == state.heard \cup {error}
             stop  == state.stopped \/ RefusesEverything(error)
             vain  == state.pointless \/ (row.action = "create" /\ RefusesEveryCreate(error))
  <2>1. some = [state EXCEPT !.failures = count, !.heard = heard, !.stopped = stop, !.pointless = vain]
    BY DEF Record
  <2> HIDE DEF some, count, heard, stop, vain
  <2>2. /\ DOMAIN some = DOMAIN state /\ some = [f \in DOMAIN some |-> some[f]]
        /\ some.pc = state.pc /\ some.channels = state.channels /\ some.rows = state.rows
        /\ some.missed = state.missed /\ some.todo = state.todo /\ some.landed = state.landed
    BY <2>1 DEF State
  <2>3. As(Rest(some), state.landed)
    <3> HIDE DEF As
    <3> QED
      BY <1>1, <2>2
  <2> QED
    BY <2>3 DEF some
<1>4. As(Rest([state EXCEPT !.failures = @ + 1]), state.landed)
  <2> DEFINE some == [state EXCEPT !.failures = @ + 1]
             count == state.failures + 1
  <2>1. some = [state EXCEPT !.failures = count]
    OBVIOUS
  <2> HIDE DEF some, count
  <2>2. /\ DOMAIN some = DOMAIN state /\ some = [f \in DOMAIN some |-> some[f]]
        /\ some.pc = state.pc /\ some.channels = state.channels /\ some.rows = state.rows
        /\ some.missed = state.missed /\ some.todo = state.todo /\ some.landed = state.landed
    BY <2>1 DEF State
  <2>3. As(Rest(some), state.landed)
    <3> HIDE DEF As
    <3> QED
      BY <1>1, <2>2
  <2> QED
    BY <2>3 DEF some
<1> QED
  BY <1>2, <1>3, <1>4 DEF EndsAs

\* The fields in which a monitor is not as it was defined.
LEMMA GapIs ==
  ASSUME NEW def \in Definitions, NEW chans, NEW monitor, NEW f
  PROVE  f \in GapIn(def, monitor, chans) <=>
           \/ f = "schedule" /\ monitor.schedule # def.schedule
           \/ f = "tz" /\ def.tz # Unstated /\ monitor.tz # def.tz
           \/ f = "channels" /\ def.mode # "unmanaged" /\ monitor.channels # RequestOf(def, chans).channels
<1> DEFINE routing == ResolvedRouting(def, chans)
           request == RequestOf(def, chans)
<1>1. routing.mode = def.mode
  BY DEF ResolvedRouting, Definitions
<1>2. GapIn(def, monitor, chans) = DifferencesFrom(def, monitor, routing)
  BY DEF GapIn
<1>3. request.channels = IF RoutingIsStated(routing) THEN routing.ids ELSE {}
  BY DEF RequestOf, CreateRequestFor
<1> HIDE DEF routing, request
<1>4. RoutingIsStated(routing) <=> def.mode # "unmanaged"
  BY <1>1 DEF RoutingIsStated
<1>5. f \in DifferencesFrom(def, monitor, routing) => f \in {"schedule", "tz", "channels"}
  BY DEF DifferencesFrom
<1>6. "schedule" \in DifferencesFrom(def, monitor, routing) <=> monitor.schedule # def.schedule
  BY DEF DifferencesFrom
<1>7. "tz" \in DifferencesFrom(def, monitor, routing) <=> def.tz # Unstated /\ monitor.tz # def.tz
  BY DEF DifferencesFrom
<1>8. "channels" \in DifferencesFrom(def, monitor, routing) <=>
        RoutingIsStated(routing) /\ monitor.channels # routing.ids
  BY DEF DifferencesFrom
<1> QED
  BY <1>2, <1>3, <1>4, <1>5, <1>6, <1>7, <1>8 DEF request

\* What is made as a definition asks is as it was defined, and so is what is patched.
LEMMA MadeAsAsked ==
  ASSUME NEW def \in Definitions, NEW chans
  PROVE  GapIn(def, MonitorOf(RequestOf(def, chans)), chans) = {}
<1> DEFINE request == RequestOf(def, chans)
           monitor == MonitorOf(request)
<1>1. request.schedule = def.schedule /\ request.tz = def.tz
  BY RequestIs
<1> HIDE DEF request
<1>2. /\ monitor.schedule = request.schedule /\ monitor.channels = request.channels
      /\ request.tz # Unstated => monitor.tz = request.tz
  BY DEF MonitorOf
<1> HIDE DEF monitor
<1>3. \A f : f \notin GapIn(def, monitor, chans)
  BY <1>1, <1>2, GapIs DEF request
<1> QED
  BY <1>3 DEF monitor, request

LEMMA PatchedAsAsked ==
  ASSUME NEW def \in Definitions, NEW chans \in SUBSET AllChannels, NEW monitor \in Monitors, NEW row,
         row.request = RequestOf(def, chans), GapIn(def, monitor, chans) \subseteq row.fields
  PROVE  GapIn(def, Patched(monitor, row), chans) = {}
<1> DEFINE request == RequestOf(def, chans)
           after == Patched(monitor, row)
<1>1. request.schedule = def.schedule /\ request.tz = def.tz /\ request \in Requests /\ row.request = request
  BY RequestIs, RequestsAreTyped
<1> HIDE DEF request
<1>2. /\ after.schedule = IF "schedule" \in row.fields THEN row.request.schedule ELSE monitor.schedule
      /\ after.tz = IF "tz" \in row.fields THEN row.request.tz ELSE monitor.tz
      /\ after.channels = IF "channels" \in row.fields THEN row.request.channels ELSE monitor.channels
  BY <1>1, PatchedIs
<1> HIDE DEF after
<1>3. \A f : f \in GapIn(def, monitor, chans) => f \in row.fields
  OBVIOUS
<1>4. "schedule" \in row.fields \/ monitor.schedule = def.schedule
  BY <1>3, GapIs
<1>5. "tz" \in row.fields \/ def.tz = Unstated \/ monitor.tz = def.tz
  BY <1>3, GapIs
<1>6. "channels" \in row.fields \/ def.mode = "unmanaged" \/ monitor.channels = request.channels
  BY <1>3, GapIs DEF request
<1>7. \A f : f \notin GapIn(def, after, chans)
  BY <1>1, <1>2, <1>4, <1>5, <1>6, GapIs DEF request
<1> QED
  BY <1>7 DEF after

\* A monitor that is made under a key that is new, of a name that had none.
MadeBetween(defs, d, chans, acc, acc2, st, st2, uuid) ==
  /\ \A e \in DOMAIN defs : defs[e] \in Definitions
  /\ \A e, f \in DOMAIN defs : defs[e].name = defs[f].name => e = f
  /\ chans \in SUBSET AllChannels /\ d \in DOMAIN defs /\ uuid \notin DOMAIN acc
  /\ NamedIn(acc, defs[d].name) = {} /\ Routable(defs[d], chans)
  /\ DOMAIN acc2 = DOMAIN acc \cup {uuid} /\ acc2[uuid] = MonitorOf(RequestOf(defs[d], chans))
  /\ \A u \in DOMAIN acc : acc2[u] = acc[u]
  /\ DOMAIN st2 = DOMAIN st \cup {KeyFor(defs[d], chans)} /\ st2[KeyFor(defs[d], chans)] = uuid
  /\ \A k \in DOMAIN st : k # KeyFor(defs[d], chans) => st2[k] = st[k]

LEMMA MakingIsGentle ==
  ASSUME NEW defs, NEW d, NEW chans, NEW acc, NEW acc2, NEW st, NEW st2, NEW uuid,
         MadeBetween(defs, d, chans, acc, acc2, st, st2, uuid), KeysStand(defs, chans, acc, st)
  PROVE  /\ Gentle(defs, chans, acc, acc2, st, st2)
         /\ KeysStand(defs, chans, acc2, st2)
         /\ Settled(defs[d], chans, acc2)
<1> DEFINE def == defs[d]
           monitor == MonitorOf(RequestOf(def, chans))
<1>1. /\ \A e \in DOMAIN defs : defs[e] \in Definitions
      /\ \A e, f \in DOMAIN defs : defs[e].name = defs[f].name => e = f
      /\ chans \in SUBSET AllChannels /\ d \in DOMAIN defs /\ uuid \notin DOMAIN acc
      /\ NamedIn(acc, def.name) = {} /\ Routable(def, chans)
      /\ DOMAIN acc2 = DOMAIN acc \cup {uuid} /\ acc2[uuid] = monitor
      /\ \A u \in DOMAIN acc : acc2[u] = acc[u]
      /\ DOMAIN st2 = DOMAIN st \cup {KeyFor(def, chans)} /\ st2[KeyFor(def, chans)] = uuid
      /\ \A k \in DOMAIN st : k # KeyFor(def, chans) => st2[k] = st[k]
  BY DEF MadeBetween
<1>2. def \in Definitions
  BY <1>1
<1>3. RequestOf(def, chans) \in Requests /\ RequestOf(def, chans).name = def.name
  BY <1>1, <1>2, RequestsAreTyped
<1>4. monitor.name = def.name
  BY <1>1, <1>3, MonitorIs
<1>5. GapIn(def, monitor, chans) = {}
  BY <1>1, <1>2, MadeAsAsked
<1>6. acc2[uuid] = monitor
  BY <1>1
<1>7. \A e \in DOMAIN defs : e # d => defs[e].name # def.name
  BY <1>1
<1>8. ASSUME NEW e \in DOMAIN defs PROVE KeyFor(defs[e], chans) = KeyFor(def, chans) => e = d
  <2>1. defs[e] \in Definitions
    BY <1>1
  <2>2. RequestOf(defs[e], chans).name = defs[e].name
    BY <1>1, <2>1, RequestsAreTyped
  <2> QED
    BY <1>1, <1>3, <1>7, <2>2 DEF KeyFor
<1> HIDE DEF monitor
<1>9. NamedIn(acc2, def.name) = {uuid}
  BY <1>1, <1>4, <1>6 DEF NamedIn
<1>10. Has(def, uuid, {}, chans, acc2)
  BY <1>1, <1>5, <1>6, <1>9 DEF Has
<1>11. ASSUME NEW e \in DOMAIN defs, e # d PROVE NamedIn(acc2, defs[e].name) = NamedIn(acc, defs[e].name)
  BY <1>1, <1>4, <1>6, <1>7, <1>11 DEF NamedIn
<1>12. ASSUME NEW e \in DOMAIN defs, NEW u, NEW fields, Has(defs[e], u, fields, chans, acc)
       PROVE  Has(defs[e], u, fields, chans, acc2)
  <2>1. NamedIn(acc, defs[e].name) = {u}
    BY <1>1, <1>12 DEF Has
  <2>2. e # d
    BY <1>1, <2>1
  <2>3. u \in DOMAIN acc
    BY <1>1, <2>1 DEF NamedIn
  <2>4. acc2[u] = acc[u]
    BY <1>1, <2>3
  <2> QED
    BY <1>1, <1>11, <1>12, <2>1, <2>2, <2>4 DEF Has
<1>13. ASSUME NEW e \in DOMAIN defs, ToMake(defs[e], chans, acc, st) PROVE ToMake(defs[e], chans, acc2, st2)
  BY <1>1, <1>11, <1>13 DEF ToMake
<1>14. OrphansIn(defs, acc2) \subseteq OrphansIn(defs, acc)
  <2>1. def.name \in Described(defs)
    BY <1>1 DEF Described
  <2>2. acc2[uuid].name \in Described(defs)
    BY <1>1, <1>4, <1>6, <2>1
  <2> QED
    BY <1>1, <2>2 DEF OrphansIn
<1>15. Gentle(defs, chans, acc, acc2, st, st2)
  BY <1>1, <1>12, <1>13, <1>14 DEF Gentle
<1>16. ASSUME NEW e \in DOMAIN defs, KeyFor(defs[e], chans) \in DOMAIN st2
       PROVE  Has(defs[e], st2[KeyFor(defs[e], chans)], {}, chans, acc2)
  <2>1. CASE e = d
    BY <1>1, <1>10, <2>1
  <2>2. CASE e # d
    <3>1. KeyFor(defs[e], chans) \in DOMAIN st /\ st2[KeyFor(defs[e], chans)] = st[KeyFor(defs[e], chans)]
      BY <1>1, <1>8, <1>16, <2>2
    <3> QED
      BY <1>1, <1>12, <3>1 DEF KeysStand
  <2> QED
    BY <1>1, <2>1, <2>2
<1>17. KeysStand(defs, chans, acc2, st2)
  BY <1>1, <1>16 DEF KeysStand
<1>18. Settled(def, chans, acc2)
  BY <1>1, <1>10 DEF Settled
<1> QED
  BY <1>1, <1>15, <1>17, <1>18

\* An update off a row that is to come.
PatchedBetween(defs, d, chans, acc, acc2, row) ==
  /\ \A e \in DOMAIN defs : defs[e] \in Definitions
  /\ \A e, f \in DOMAIN defs : defs[e].name = defs[f].name => e = f
  /\ chans \in SUBSET AllChannels /\ d \in DOMAIN defs
  /\ row.request = RequestOf(defs[d], chans) /\ Has(defs[d], row.uuid, row.fields, chans, acc)
  /\ Routable(defs[d], chans)
  /\ acc[row.uuid] \in Monitors /\ DOMAIN acc2 = DOMAIN acc
  /\ acc2[row.uuid] = Patched(acc[row.uuid], row)
  /\ \A u \in DOMAIN acc : u # row.uuid => acc2[u] = acc[u]

LEMMA PatchIsGentle ==
  ASSUME NEW defs, NEW d, NEW chans, NEW acc, NEW acc2, NEW st, NEW row,
         PatchedBetween(defs, d, chans, acc, acc2, row)
  PROVE  /\ Gentle(defs, chans, acc, acc2, st, st)
         /\ Settled(defs[d], chans, acc2)
<1> DEFINE def == defs[d]
           uuid == row.uuid
           before == acc[uuid]
           after == Patched(before, row)
<1>1. /\ \A e \in DOMAIN defs : defs[e] \in Definitions
      /\ \A e, f \in DOMAIN defs : defs[e].name = defs[f].name => e = f
      /\ chans \in SUBSET AllChannels /\ d \in DOMAIN defs
      /\ row.request = RequestOf(def, chans) /\ Has(def, uuid, row.fields, chans, acc)
      /\ Routable(def, chans)
      /\ before \in Monitors /\ DOMAIN acc2 = DOMAIN acc /\ acc2[uuid] = after
      /\ \A u \in DOMAIN acc : u # uuid => acc2[u] = acc[u]
  BY DEF PatchedBetween
<1>2. def \in Definitions
  BY <1>1
<1>3. RequestOf(def, chans) \in Requests
  BY <1>1, <1>2, RequestsAreTyped
<1>4. after.name = before.name
  BY <1>1, <1>3, PatchedIs
<1>5. NamedIn(acc, def.name) = {uuid} /\ GapIn(def, before, chans) \subseteq row.fields
  BY <1>1 DEF Has
<1>6. GapIn(def, after, chans) = {}
  <2>1. before \in Monitors /\ row.request = RequestOf(def, chans)
    BY <1>1
  <2> HIDE DEF def, before
  <2> QED
    BY <1>1, <1>2, <1>5, <2>1, PatchedAsAsked
<1>7. uuid \in DOMAIN acc /\ before.name = def.name
  BY <1>1, <1>5 DEF NamedIn
<1>8. acc2[uuid] = after
  BY <1>1
<1> HIDE DEF after
<1>9. \A u \in DOMAIN acc : acc2[u].name = acc[u].name
  BY <1>1, <1>4, <1>8
<1>10. \A name : NamedIn(acc2, name) = NamedIn(acc, name)
  BY <1>1, <1>9 DEF NamedIn
<1>11. ASSUME NEW e \in DOMAIN defs, NEW u, NEW fields, Has(defs[e], u, fields, chans, acc)
       PROVE  Has(defs[e], u, fields, chans, acc2)
  <2>1. NamedIn(acc, defs[e].name) = {u}
    BY <1>1, <1>11 DEF Has
  <2>2. u \in DOMAIN acc /\ acc[u].name = defs[e].name
    BY <1>1, <2>1 DEF NamedIn
  <2>3. CASE u = uuid
    <3>1. e = d
      BY <1>1, <1>7, <2>2, <2>3
    <3> QED
      BY <1>1, <1>6, <1>8, <1>10, <2>1, <2>3, <3>1 DEF Has
  <2>4. CASE u # uuid
    BY <1>1, <1>10, <1>11, <2>2, <2>4 DEF Has
  <2> QED
    BY <1>1, <2>3, <2>4
<1>12. ASSUME NEW e \in DOMAIN defs, ToMake(defs[e], chans, acc, st) PROVE ToMake(defs[e], chans, acc2, st)
  BY <1>1, <1>10, <1>12 DEF ToMake
<1>13. OrphansIn(defs, acc2) \subseteq OrphansIn(defs, acc)
  BY <1>1, <1>9 DEF OrphansIn
<1>14. Gentle(defs, chans, acc, acc2, st, st)
  BY <1>1, <1>11, <1>12, <1>13 DEF Gentle
<1>15. Has(def, uuid, {}, chans, acc2)
  BY <1>1, <1>5, <1>6, <1>8, <1>10 DEF Has
<1>16. Settled(def, chans, acc2)
  BY <1>1, <1>7, <1>15 DEF Settled
<1> QED
  BY <1>1, <1>14, <1>16

\* A monitor that no definition describes goes.
LEMMA DeletionIsGentle ==
  ASSUME NEW defs, NEW chans, NEW acc, NEW acc2, NEW st, NEW uuid,
         uuid \in DOMAIN acc => acc[uuid].name \notin Described(defs),
         DOMAIN acc2 = DOMAIN acc \ {uuid}, \A u \in DOMAIN acc2 : acc2[u] = acc[u]
  PROVE  /\ Gentle(defs, chans, acc, acc2, st, st)
         /\ OrphansIn(defs, acc2) \subseteq OrphansIn(defs, acc) \ {uuid}
<1>1. ASSUME NEW e \in DOMAIN defs PROVE NamedIn(acc2, defs[e].name) = NamedIn(acc, defs[e].name)
  BY DEF NamedIn, Described
<1>2. ASSUME NEW e \in DOMAIN defs, NEW u, NEW fields, Has(defs[e], u, fields, chans, acc)
      PROVE  Has(defs[e], u, fields, chans, acc2)
  <2>1. NamedIn(acc, defs[e].name) = {u} /\ NamedIn(acc2, defs[e].name) = {u}
    BY <1>1, <1>2 DEF Has
  <2>2. u \in DOMAIN acc2
    BY <2>1 DEF NamedIn
  <2> QED
    BY <1>2, <2>1, <2>2 DEF Has
<1>3. ASSUME NEW e \in DOMAIN defs, ToMake(defs[e], chans, acc, st) PROVE ToMake(defs[e], chans, acc2, st)
  BY <1>1, <1>3 DEF ToMake
<1>4. OrphansIn(defs, acc2) \subseteq OrphansIn(defs, acc) \ {uuid}
  BY DEF OrphansIn
<1> QED
  BY <1>2, <1>3, <1>4 DEF Gentle

\* What is known of the definitions and channels of a run.
LEMMA DefinitionsKnown ==
  ASSUME SInv, NEW r \in Runs
  PROVE  /\ \A d \in DOMAIN config[r] : config[r][d] \in Definitions
         /\ \A d, e \in DOMAIN config[r] : config[r][d].name = config[r][e].name => d = e
         /\ channels \in SUBSET AllChannels
         /\ account \in [DOMAIN account -> Monitors] /\ IsFiniteSet(DOMAIN account)
BY Known DEF SInv, Typed, AccountTyped

\* A row ends, and what has landed by it stands.
LEMMA RowEndsWell ==
  ASSUME SInv, CInv, NEW r \in Runs, run[r].pc = "applying", NEW next, NEW landed,
         EndsAs(next, run[r], landed),
         run' = [run EXCEPT ![r] = next], UNCHANGED <<config, channels, others, lapsed>>,
         Undisturbed =>
           /\ Gentle(config[r], channels, account, account', stored, stored')
           /\ KeysStand(config[r], channels, account', stored')
           /\ \A d \in DOMAIN config[r] : config[r][d].name \in landed =>
                config[r][d].name \in run[r].landed \/ Settled(config[r][d], channels, account')
  PROVE  CInv'
<1> DEFINE state == run[r]
           acc2 == account'
           st2 == stored'
<1>1. state.pc = "applying"
  OBVIOUS
<1>2. /\ next.pc = state.pc /\ next.channels = state.channels /\ next.rows = state.rows
      /\ next.missed = state.missed /\ next.todo \subseteq state.todo /\ next.landed = landed
  BY DEF EndsAs
<1>3. ASSUME Undisturbed PROVE Converging(next, config[r], channels, acc2, st2)
  <2>1. /\ Gentle(config[r], channels, account, acc2, stored, st2)
        /\ Converging(state, config[r], channels, account, stored)
    BY <1>3 DEF CInv
  <2>2. \A d \in DOMAIN config[r] : config[r][d].name \in landed =>
          config[r][d].name \in state.landed \/ Settled(config[r][d], channels, acc2)
    BY <1>3
  <2> HIDE DEF state, acc2, st2
  <2>3. Converging(state, config[r], channels, acc2, st2)
    BY <2>1, GentleKeeps
  <2> QED
    BY <1>1, <1>2, <2>2, <2>3, GoingOn
<1>4. next.missed = run[r].missed /\ next.pc = "applying"
  BY <1>1, <1>2
<1>5. Undisturbed =>
        /\ Gentle(config[r], channels, account, account', stored, stored')
        /\ KeysStand(config[r], channels, account', stored')
        /\ Converging(next, config[r], channels, account', stored')
  BY <1>3
<1> HIDE DEF state, acc2, st2
<1> QED
  BY <1>4, <1>5, StepConverges

\* A row that fails, with the account as it was.
LEMMA RowFailsWell ==
  ASSUME SInv, CInv, NEW r \in Runs, run[r].pc = "applying", NEW next,
         EndsAs(next, run[r], run[r].landed),
         run' = [run EXCEPT ![r] = next], UNCHANGED <<account, stored, config, channels, others, lapsed>>
  PROVE  CInv'
<1>1. Undisturbed =>
        /\ Gentle(config[r], channels, account, account', stored, stored')
        /\ KeysStand(config[r], channels, account', stored')
  BY GentleItself DEF CInv
<1> QED
  BY <1>1, RowEndsWell

\* A row is done, reported so or not.
LEMMA RowToldWell ==
  ASSUME SInv, CInv, NEW r \in Runs, run[r].pc = "applying", NEW row, NEW told \in BOOLEAN, NEW error,
         Becomes(r, Rest(IF told THEN Landed(run[r], row) ELSE Record(run[r], row, error))),
         UNCHANGED <<config, channels, others, lapsed>>,
         Undisturbed =>
           /\ Gentle(config[r], channels, account, account', stored, stored')
           /\ KeysStand(config[r], channels, account', stored')
           /\ \E d \in DOMAIN config[r] :
                config[r][d].name = row.name /\ Settled(config[r][d], channels, account')
  PROVE  CInv'
<1> DEFINE next == Rest(IF told THEN Landed(run[r], row) ELSE Record(run[r], row, error))
           landed == IF told THEN run[r].landed \cup {row.name} ELSE run[r].landed
<1>1. run' = [run EXCEPT ![r] = next]
  BY DEF Becomes
<1>2. EndsAs(next, run[r], landed)
  BY Known, RowEndsAs
<1>3. \A name \in landed : name \in run[r].landed \/ name = row.name
  OBVIOUS
<1>4. ASSUME Undisturbed, NEW e \in DOMAIN config[r], config[r][e].name \in landed
      PROVE  config[r][e].name \in run[r].landed \/ Settled(config[r][e], channels, account')
  <2>1. PICK d \in DOMAIN config[r] : config[r][d].name = row.name /\ Settled(config[r][d], channels, account')
    BY <1>4
  <2>2. config[r][e].name = row.name => e = d
    BY <2>1, DefinitionsKnown
  <2> QED
    BY <1>3, <1>4, <2>1, <2>2
<1> HIDE DEF next, landed
<1> QED
  BY <1>1, <1>2, <1>4, RowEndsWell

\* What the row at hand is for.
LEMMA RowIsComing ==
  ASSUME SInv, CInv, Undisturbed, NEW r \in Runs, run[r].pc = "applying", run[r].todo # {}
  PROVE  \E d \in DOMAIN config[r] : Coming(config[r][d], NextRow(run[r]), channels, account, stored)
<1>1. RowsCome(run[r], config[r], channels, account, stored)
  BY DEF CInv, Converging
<1>2. Min(run[r].todo) \in run[r].todo /\ NextRow(run[r]) = run[r].rows[Min(run[r].todo)]
  BY Known, NextIs
<1> QED
  BY <1>1, <1>2 DEF RowsCome

LEMMA PassCreateOverConverges ==
  ASSUME SInv, CInv, NEW r \in Runs, PassCreateOver(r)
  PROVE  CInv'
<1> DEFINE next == Rest([run[r] EXCEPT !.failures = @ + 1])
<1>1. /\ run' = [run EXCEPT ![r] = next] /\ run[r].pc = "applying"
      /\ UNCHANGED <<account, channels, stored, config, others, lapsed>>
  BY DEF PassCreateOver, Becomes
<1>2. EndsAs(next, run[r], run[r].landed)
  BY Known, RowEndsAs
<1> HIDE DEF next
<1> QED
  BY <1>1, <1>2, RowFailsWell

LEMMA CreateRowConverges ==
  ASSUME SInv, CInv, NEW r \in Runs, CreateRow(r)
  PROVE  CInv'
<1> DEFINE row == NextRow(run[r])
           defs == config[r]
           key == <<row.request, row.request>>
<1>1. run[r].pc = "applying" /\ run[r].todo # {} /\ UNCHANGED <<channels, config, others, lapsed>> /\ row.action = "create"
  BY DEF CreateRow
<1>2. \/ MadeFor(key) /\ \E told \in {"created", "network-error", "conflict"} :
           Becomes(r, Rest(IF told = "created" THEN Landed(run[r], row) ELSE Record(run[r], row, told)))
      \/ \E kind \in Kinds \cup {"conflict"} :
           Becomes(r, Rest(Record(run[r], row, kind))) /\ UNCHANGED <<account, stored, born>>
  BY DEF CreateRow, KeyOf, IdempotencyKeyFor
<1> HIDE DEF row
<1>3. ASSUME MadeFor(key), Undisturbed
      PROVE  /\ Gentle(defs, channels, account, account', stored, stored')
             /\ KeysStand(defs, channels, account', stored')
             /\ \E d \in DOMAIN defs : defs[d].name = row.name /\ Settled(defs[d], channels, account')
  <2>1. PICK d \in DOMAIN defs : Coming(defs[d], row, channels, account, stored)
    BY <1>1, <1>3, RowIsComing DEF row
  <2>2. /\ row.name = defs[d].name /\ Routable(defs[d], channels)
        /\ ToMake(defs[d], channels, account, stored)
        /\ key = KeyFor(defs[d], channels) /\ row.request = RequestOf(defs[d], channels)
    BY <1>1, <2>1 DEF Coming, KeyFor
  <2>3. KeysStand(defs, channels, account, stored)
    BY <1>3 DEF CInv
  <2>4. CASE key \in DOMAIN stored
    <3>1. UNCHANGED <<account, stored>>
      BY <1>3, <2>4 DEF MadeFor
    <3>2. Has(defs[d], stored[key], {}, channels, account)
      BY <2>2, <2>3, <2>4 DEF KeysStand
    <3>3. stored[key] \in DOMAIN account
      BY <3>2 DEF Has, NamedIn
    <3>4. Settled(defs[d], channels, account)
      BY <2>2, <3>2, <3>3 DEF Settled
    <3>5. Gentle(defs, channels, account, account, stored, stored)
      BY GentleItself
    <3> QED
      BY <2>2, <2>3, <3>1, <3>4, <3>5
  <2>5. CASE key \notin DOMAIN stored
    <3>1. PICK uuid \in Uuids \ DOMAIN born :
            /\ account' = [u \in DOMAIN account \cup {uuid} |-> IF u = uuid THEN MonitorOf(key[2]) ELSE account[u]]
            /\ stored' = [k \in DOMAIN stored \cup {key} |-> IF k = key THEN uuid ELSE stored[k]]
      BY <1>3, <2>5 DEF MadeFor
    <3>2. uuid \notin DOMAIN account
      BY DEF SInv, Typed, AccountTyped
    <3>3. key[2] = RequestOf(defs[d], channels)
      BY <2>2
    <3> DEFINE monitor == MonitorOf(RequestOf(defs[d], channels))
               acc2 == account'
               st2 == stored'
    <3>4. /\ acc2 = [u \in DOMAIN account \cup {uuid} |-> IF u = uuid THEN monitor ELSE account[u]]
          /\ st2 = [k \in DOMAIN stored \cup {key} |-> IF k = key THEN uuid ELSE stored[k]]
      BY <3>1, <3>3
    <3> HIDE DEF monitor, acc2, st2
    <3>5. /\ DOMAIN acc2 = DOMAIN account \cup {uuid} /\ acc2[uuid] = monitor
          /\ \A u \in DOMAIN account : acc2[u] = account[u]
      BY <3>2, <3>4
    <3>6. acc2[uuid] = MonitorOf(RequestOf(defs[d], channels))
      BY <3>5 DEF monitor
    <3>7. key = KeyFor(defs[d], channels) /\ Routable(defs[d], channels)
      BY <2>2
    <3> HIDE DEF key
    <3>8. /\ DOMAIN st2 = DOMAIN stored \cup {key} /\ st2[key] = uuid
          /\ \A k \in DOMAIN stored : k # key => st2[k] = stored[k]
      BY <3>4
    <3>9. NamedIn(account, defs[d].name) = {}
      BY <2>2, <2>5 DEF ToMake
    <3>10. /\ \A e \in DOMAIN defs : defs[e] \in Definitions
          /\ \A e, f \in DOMAIN defs : defs[e].name = defs[f].name => e = f
          /\ channels \in SUBSET AllChannels
      BY DefinitionsKnown
    <3>11. DOMAIN st2 = DOMAIN stored \cup {KeyFor(defs[d], channels)} /\ st2[KeyFor(defs[d], channels)] = uuid
      BY <3>8, <3>7
    <3>12. \A k \in DOMAIN stored : k # KeyFor(defs[d], channels) => st2[k] = stored[k]
      BY <3>8, <3>7
    <3> HIDE DEF defs
    <3>13. MadeBetween(defs, d, channels, account, acc2, stored, st2, uuid)
      BY <2>1, <3>2, <3>5, <3>9, <3>10, <3>6, <3>7, <3>11, <3>12 DEF MadeBetween
    <3>14. /\ Gentle(defs, channels, account, acc2, stored, st2)
          /\ KeysStand(defs, channels, acc2, st2)
          /\ Settled(defs[d], channels, acc2)
      BY <2>3, <3>13, MakingIsGentle
    <3> QED
      BY <2>2, <3>14 DEF acc2, st2
  <2> QED
    BY <2>4, <2>5
<1>4. ASSUME MadeFor(key), NEW told \in {"created", "network-error", "conflict"},
             Becomes(r, Rest(IF told = "created" THEN Landed(run[r], row) ELSE Record(run[r], row, told)))
      PROVE  CInv'
  <2>1. Undisturbed =>
          /\ Gentle(config[r], channels, account, account', stored, stored')
          /\ KeysStand(config[r], channels, account', stored')
          /\ \E d \in DOMAIN config[r] :
               config[r][d].name = row.name /\ Settled(config[r][d], channels, account')
    BY <1>3, <1>4
  <2> DEFINE said == told = "created"
  <2>2. said \in BOOLEAN /\ Becomes(r, Rest(IF said THEN Landed(run[r], row) ELSE Record(run[r], row, told)))
    BY <1>4
  <2> HIDE DEF key, defs, said
  <2> QED
    BY <1>1, <2>1, <2>2, RowToldWell
<1>5. ASSUME NEW kind \in Kinds \cup {"conflict"}, Becomes(r, Rest(Record(run[r], row, kind))),
             UNCHANGED <<account, stored, born>>
      PROVE  CInv'
  <2> DEFINE next == Rest(Record(run[r], row, kind))
  <2>1. run' = [run EXCEPT ![r] = next]
    BY <1>5 DEF Becomes
  <2>2. EndsAs(next, run[r], run[r].landed)
    BY Known, RowEndsAs
  <2> HIDE DEF next
  <2> QED
    BY <1>1, <1>5, <2>1, <2>2, RowFailsWell
<1> QED
  BY <1>2, <1>4, <1>5

LEMMA UpdateRowConverges ==
  ASSUME SInv, CInv, NEW r \in Runs, UpdateRow(r)
  PROVE  CInv'
<1> DEFINE row == NextRow(run[r])
<1>1. /\ run[r].pc = "applying" /\ run[r].todo # {} /\ UNCHANGED <<channels, stored, config, others, lapsed>>
      /\ row.action = "update"
  BY DEF UpdateRow
<1>2. \/ /\ row.uuid \in DOMAIN account
         /\ account' = [account EXCEPT ![row.uuid] = Patched(@, row)]
         /\ \E told \in BOOLEAN :
              Becomes(r, Rest(IF told THEN Landed(run[r], row) ELSE Record(run[r], row, "network-error")))
      \/ \E kind : Becomes(r, Rest(Record(run[r], row, kind))) /\ UNCHANGED account
  BY DEF UpdateRow
<1> HIDE DEF row
<1>3. ASSUME row.uuid \in DOMAIN account, account' = [account EXCEPT ![row.uuid] = Patched(@, row)], Undisturbed
      PROVE  /\ Gentle(config[r], channels, account, account', stored, stored')
             /\ KeysStand(config[r], channels, account', stored')
             /\ \E d \in DOMAIN config[r] :
                  config[r][d].name = row.name /\ Settled(config[r][d], channels, account')
  <2>1. PICK d \in DOMAIN config[r] : Coming(config[r][d], row, channels, account, stored)
    BY <1>1, <1>3, RowIsComing DEF row
  <2>2. /\ row.name = config[r][d].name /\ Routable(config[r][d], channels)
        /\ row.request = RequestOf(config[r][d], channels)
        /\ Has(config[r][d], row.uuid, row.fields, channels, account)
    BY <1>1, <2>1 DEF Coming
  <2>3. account[row.uuid] \in Monitors
    BY <1>3 DEF SInv, Typed, AccountTyped
  <2> DEFINE acc2 == account'
             defs == config[r]
  <2>4. /\ DOMAIN acc2 = DOMAIN account /\ acc2[row.uuid] = Patched(account[row.uuid], row)
        /\ \A u \in DOMAIN account : u # row.uuid => acc2[u] = account[u]
    BY <1>3
  <2>5. /\ \A e \in DOMAIN defs : defs[e] \in Definitions
        /\ \A e, f \in DOMAIN defs : defs[e].name = defs[f].name => e = f
        /\ channels \in SUBSET AllChannels
    BY DefinitionsKnown
  <2>6. /\ row.name = defs[d].name /\ Routable(defs[d], channels)
        /\ row.request = RequestOf(defs[d], channels)
        /\ Has(defs[d], row.uuid, row.fields, channels, account)
        /\ KeysStand(defs, channels, account, stored) /\ d \in DOMAIN defs
    BY <1>3, <2>2 DEF CInv
  <2>7. stored' = stored
    BY <1>1
  <2> HIDE DEF acc2, defs
  <2>8. PatchedBetween(defs, d, channels, account, acc2, row)
    BY <2>3, <2>4, <2>5, <2>6 DEF PatchedBetween
  <2>9. Gentle(defs, channels, account, acc2, stored, stored) /\ Settled(defs[d], channels, acc2)
    BY <2>8, PatchIsGentle
  <2>10. KeysStand(defs, channels, acc2, stored)
    BY <2>6, <2>9, GentleKeys
  <2> QED
    BY <2>1, <2>6, <2>7, <2>9, <2>10 DEF acc2, defs
<1>4. ASSUME row.uuid \in DOMAIN account, account' = [account EXCEPT ![row.uuid] = Patched(@, row)],
             NEW told \in BOOLEAN,
             Becomes(r, Rest(IF told THEN Landed(run[r], row) ELSE Record(run[r], row, "network-error")))
      PROVE  CInv'
  BY <1>1, <1>3, <1>4, RowToldWell
<1>5. ASSUME NEW kind, Becomes(r, Rest(Record(run[r], row, kind))), UNCHANGED account
      PROVE  CInv'
  <2> DEFINE next == Rest(Record(run[r], row, kind))
  <2>1. run' = [run EXCEPT ![r] = next]
    BY <1>5 DEF Becomes
  <2>2. EndsAs(next, run[r], run[r].landed)
    BY Known, RowEndsAs
  <2> HIDE DEF next
  <2> QED
    BY <1>1, <1>5, <2>1, <2>2, RowFailsWell
<1> QED
  BY <1>2, <1>4, <1>5

\* All that a run has to do has been done.
LEMMA AllHasLanded ==
  ASSUME SInv, CInv, Undisturbed, NEW r \in Runs, run[r].failures = 0,
         \/ run[r].pc = "applying" /\ (run[r].stopped \/ run[r].todo = {})
         \/ run[r].pc \in {"asking", "pruning"}
  PROVE  /\ \A d \in DOMAIN config[r] : Settled(config[r][d], channels, account)
         /\ OrphansIn(config[r], account) \subseteq UuidsAt(run[r].rows, Orphans(run[r].rows))
         /\ ~run[r].stopped
<1>1. AppliedTo(run[r], config[r]) /\ LandedStand(run[r], config[r], channels, account)
  BY Known DEF Ready, CInv, Converging
<1>2. ~run[r].stopped
  BY <1>1 DEF AppliedTo
<1>3. Described(config[r]) \subseteq run[r].landed
  BY <1>1, <1>2 DEF AppliedTo
<1>4. \A d \in DOMAIN config[r] : config[r][d].name \in run[r].landed
  BY <1>3 DEF Described
<1> QED
  BY <1>1, <1>2, <1>4 DEF LandedStand

LEMMA EndRowsConverges ==
  ASSUME SInv, CInv, NEW r \in Runs, EndRows(r)
  PROVE  CInv'
<1> DEFINE state == run[r]
           asking == [state EXCEPT !.pc = "asking"]
           unsafe == [state EXCEPT !.unsafe = TRUE]
<1>1. state \in State
  BY Known
<1>2. /\ run' = [run EXCEPT ![r] =
           IF ~Pruning(state) \/ state.unsafe THEN Over(state)
           ELSE IF UnsafeNow(r) THEN Over(unsafe) ELSE asking]
      /\ UNCHANGED <<account, channels, stored, config, born, others, lapsed>>
      /\ state.pc = "applying" /\ (state.stopped \/ state.todo = {})
  BY DEF EndRows, Becomes, RowsDone
<1>3. ASSUME Undisturbed, state.failures = 0
      PROVE  /\ \A d \in DOMAIN config[r] : Settled(config[r][d], channels, account)
             /\ OrphansIn(config[r], account) \subseteq UuidsAt(state.rows, Orphans(state.rows))
  BY <1>2, <1>3, AllHasLanded
<1>4. Undisturbed => Converging(state, config[r], channels, account, stored)
  BY DEF CInv
<1>5. state.missed <=> run[r].missed
  OBVIOUS
<1> HIDE DEF state
<1>6. state.failures \in Nat
  BY <1>1 DEF State
<1>7. unsafe \in State /\ unsafe.unsafe = TRUE /\ unsafe.missed = state.missed
  BY <1>1 DEF State
<1>8. /\ asking.pc = "asking" /\ asking.rows = state.rows /\ asking.channels = state.channels
      /\ asking.landed = state.landed /\ asking.missed = state.missed
  BY <1>1 DEF State
<1> HIDE DEF asking, unsafe
<1>9. ASSUME Undisturbed, ~Pruning(state) \/ state.unsafe
      PROVE  Converging(Over(state), config[r], channels, account, stored)
  <2>1. ASSUME state.mode.apply, ~(state.failures > 0), ~state.unsafe
        PROVE  /\ \A d \in DOMAIN config[r] : Settled(config[r][d], channels, account)
               /\ state.mode.prune => OrphansIn(config[r], account) = {}
    <3>1. state.failures = 0
      BY <1>6, <2>1
    <3>2. state.mode.prune => Orphans(state.rows) = {}
      BY <1>9, <2>1 DEF Pruning
    <3> QED
      BY <1>3, <1>9, <3>1, <3>2 DEF UuidsAt
  <2> QED
    BY <1>1, <2>1, OverConverges
<1>10. Converging(Over(unsafe), config[r], channels, account, stored)
  BY <1>7, OverConverges
<1>11. ASSUME Undisturbed PROVE Converging(asking, config[r], channels, account, stored)
  BY <1>2, <1>4, <1>8, <1>11 DEF Converging, RowsCome, LandedStand, OrphansGo, Ended
<1> DEFINE next == IF ~Pruning(state) \/ state.unsafe THEN Over(state)
                   ELSE IF UnsafeNow(r) THEN Over(unsafe) ELSE asking
<1>12. next.pc \notin {"start", "listing"} /\ next.missed = state.missed
  BY <1>1, <1>7, <1>8, OverIs
<1>13. Undisturbed => Converging(next, config[r], channels, account, stored)
  BY <1>9, <1>10, <1>11
<1>14. run' = [run EXCEPT ![r] = next]
  BY <1>2
<1>15. UNCHANGED <<account, channels, stored, config, born, others, lapsed>>
  BY <1>2
<1> HIDE DEF next
<1> QED
  BY <1>5, <1>12, <1>13, <1>14, <1>15, QuietConverges

LEMMA ConfirmConverges ==
  ASSUME SInv, CInv, NEW r \in Runs, Confirm(r)
  PROVE  CInv'
<1> DEFINE state == run[r]
           doomed == Orphans(state.rows)
           pruning == [state EXCEPT !.pc = "pruning", !.doomed = doomed]
           declined == [state EXCEPT !.declined = TRUE]
<1>1. state \in State
  BY Known
<1>2. PICK yes \in BOOLEAN : run' = [run EXCEPT ![r] = IF yes THEN pruning ELSE Over(declined)]
  BY DEF Confirm, Becomes
<1>3. UNCHANGED <<account, channels, stored, config, born, others, lapsed>> /\ state.pc = "asking"
  BY DEF Confirm
<1>4. ASSUME Undisturbed, state.failures = 0
      PROVE  \A d \in DOMAIN config[r] : Settled(config[r][d], channels, account)
  BY <1>3, <1>4, AllHasLanded
<1>5. Undisturbed => Converging(state, config[r], channels, account, stored)
  BY DEF CInv
<1>6. state.missed <=> run[r].missed
  OBVIOUS
<1> HIDE DEF state
<1>7. state.failures \in Nat
  BY <1>1 DEF State
<1>8. /\ declined \in State /\ declined.declined = TRUE /\ declined.missed = state.missed
      /\ declined.failures = state.failures
  BY <1>1 DEF State
<1>9. doomed = Orphans(state.rows)
  OBVIOUS
<1> HIDE DEF doomed
<1>10. /\ pruning.pc = "pruning" /\ pruning.rows = state.rows /\ pruning.channels = state.channels
       /\ pruning.landed = state.landed /\ pruning.missed = state.missed /\ pruning.doomed = doomed
  BY <1>1 DEF State
<1> HIDE DEF pruning, declined
<1>11. ASSUME Undisturbed PROVE Converging(pruning, config[r], channels, account, stored)
  <2>1. LandedStand(state, config[r], channels, account) /\ state.channels = channels
    BY <1>3, <1>5, <1>11 DEF Converging
  <2>2. LandedStand(pruning, config[r], channels, account)
    BY <1>3, <1>10, <2>1 DEF LandedStand
  <2>3. OrphansGo(pruning, config[r], account)
    BY <1>3, <1>9, <1>10, <2>1 DEF LandedStand, OrphansGo
  <2> QED
    BY <1>10, <2>1, <2>2, <2>3 DEF Converging, RowsCome, Ended
<1>12. ASSUME Undisturbed PROVE Converging(Over(declined), config[r], channels, account, stored)
  <2>1. ~(declined.failures > 0) => \A d \in DOMAIN config[r] : Settled(config[r][d], channels, account)
    BY <1>4, <1>7, <1>8, <1>12
  <2> QED
    BY <1>8, <2>1, OverConverges
<1> DEFINE next == IF yes THEN pruning ELSE Over(declined)
<1>13. next.pc \notin {"start", "listing"} /\ next.missed = state.missed
  BY <1>8, <1>10, OverIs
<1>14. Undisturbed => Converging(next, config[r], channels, account, stored)
  BY <1>11, <1>12
<1>15. run' = [run EXCEPT ![r] = next]
  BY <1>2
<1> HIDE DEF next
<1> QED
  BY <1>3, <1>6, <1>13, <1>14, <1>15, QuietConverges

LEMMA EndPruneConverges ==
  ASSUME SInv, CInv, NEW r \in Runs, EndPrune(r)
  PROVE  CInv'
<1> DEFINE state == run[r]
           next == Over(state)
<1>1. state \in State
  BY Known
<1>2. /\ run' = [run EXCEPT ![r] = next] /\ UNCHANGED <<account, channels, stored, config, born, others, lapsed>>
      /\ state.pc = "pruning" /\ (state.stopped \/ state.doomed = {})
  BY DEF EndPrune, Becomes
<1>3. ASSUME Undisturbed, state.failures = 0
      PROVE  /\ \A d \in DOMAIN config[r] : Settled(config[r][d], channels, account)
             /\ OrphansIn(config[r], account) = {}
  <2>1. (\A d \in DOMAIN config[r] : Settled(config[r][d], channels, account)) /\ ~state.stopped
    BY <1>2, <1>3, AllHasLanded
  <2>2. OrphansGo(state, config[r], account)
    BY <1>3 DEF CInv, Converging
  <2>3. OrphansIn(config[r], account) \subseteq UuidsAt(state.rows, {})
    BY <1>2, <1>3, <2>1, <2>2 DEF OrphansGo
  <2> QED
    BY <2>1, <2>3 DEF UuidsAt
<1>4. state.missed <=> run[r].missed
  OBVIOUS
<1> HIDE DEF state
<1>5. state.failures \in Nat
  BY <1>1 DEF State
<1>6. Undisturbed => Converging(next, config[r], channels, account, stored)
  BY <1>1, <1>3, <1>5, OverConverges
<1>7. next.pc = "over" /\ next.missed = state.missed
  BY <1>1, OverIs
<1> HIDE DEF next
<1> QED
  BY <1>2, <1>4, <1>6, <1>7, QuietConverges

LEMMA DeleteRowConverges ==
  ASSUME SInv, CInv, NEW r \in Runs, DeleteRow(r)
  PROVE  CInv'
<1> DEFINE state == run[r]
           row == state.rows[Min(state.doomed)]
           doomed == state.doomed \ {Min(state.doomed)}
           rest == [state EXCEPT !.doomed = doomed]
           acc2 == account'
<1>1. state \in State
  BY Known
<1>2. /\ state.pc = "pruning" /\ state.doomed # {}
      /\ UNCHANGED <<channels, stored, config, others, lapsed>>
  BY DEF DeleteRow
<1>3. \/ /\ account' = [u \in DOMAIN account \ {row.uuid} |-> account[u]]
         /\ \E told \in BOOLEAN :
              run' = [run EXCEPT ![r] = IF told THEN [rest EXCEPT !.deleted = @ + 1]
                                                ELSE Record(rest, row, "network-error")]
      \/ \E kind : run' = [run EXCEPT ![r] = Record(rest, row, kind)] /\ UNCHANGED account
  BY DEF DeleteRow, Becomes
<1>4. /\ Min(state.doomed) \in state.doomed /\ row.name \notin Described(config[r])
      /\ row.uuid \in DOMAIN account => account[row.uuid].name \notin Described(config[r])
  BY <1>2, Known, DoomedIs DEF Names
<1>5. state.missed = run[r].missed
  OBVIOUS
<1>6. Undisturbed => Converging(state, config[r], channels, account, stored) /\ KeysStand(config[r], channels, account, stored)
  BY DEF CInv
<1>7. ASSUME account' = [u \in DOMAIN account \ {row.uuid} |-> account[u]]
      PROVE  /\ Gentle(config[r], channels, account, acc2, stored, stored)
             /\ OrphansIn(config[r], acc2) \subseteq OrphansIn(config[r], account) \ {row.uuid}
  <2>1. DOMAIN acc2 = DOMAIN account \ {row.uuid} /\ \A u \in DOMAIN acc2 : acc2[u] = account[u]
    BY <1>7
  <2> DEFINE uuid == row.uuid
  <2>2. uuid \in DOMAIN account => account[uuid].name \notin Described(config[r])
    BY <1>4
  <2>3. DOMAIN acc2 = DOMAIN account \ {uuid}
    BY <2>1
  <2> HIDE DEF acc2, row, uuid
  <2>4. /\ Gentle(config[r], channels, account, acc2, stored, stored)
        /\ OrphansIn(config[r], acc2) \subseteq OrphansIn(config[r], account) \ {uuid}
    BY <2>1, <2>2, <2>3, DeletionIsGentle
  <2> QED
    BY <2>4 DEF uuid
<1>8. doomed = state.doomed \ {Min(state.doomed)} /\ row = state.rows[Min(state.doomed)]
  OBVIOUS
<1> HIDE DEF state, row, doomed
<1> DEFINE Goes(next) ==
        /\ next.pc = "pruning" /\ next.channels = state.channels /\ next.rows = state.rows
        /\ next.landed = state.landed /\ next.missed = state.missed /\ next.doomed = doomed
<1>9. rest \in State /\ Goes(rest) /\ rest.failures = state.failures
  <2>1. doomed \subseteq Nat
    BY <1>1, <1>8 DEF State
  <2> QED
    BY <1>1, <1>2, <2>1 DEF State
<1> HIDE DEF rest
<1>10. Goes([rest EXCEPT !.deleted = @ + 1])
  BY <1>9 DEF State
<1>11. ASSUME NEW kind PROVE Goes(Record(rest, row, kind)) /\ Record(rest, row, kind).failures # 0
  <2> DEFINE next == Record(rest, row, kind)
             count == rest.failures + 1
             heard == rest.heard \cup {kind}
             stop  == rest.stopped \/ RefusesEverything(kind)
             vain  == rest.pointless \/ (row.action = "create" /\ RefusesEveryCreate(kind))
  <2>1. next = [rest EXCEPT !.failures = count, !.heard = heard, !.stopped = stop, !.pointless = vain]
    BY DEF Record
  <2>2. count # 0
    BY <1>9 DEF State
  <2> HIDE DEF next, count, heard, stop, vain
  <2>3. Goes(next) /\ next.failures = count
    BY <1>9, <2>1 DEF State
  <2> QED
    BY <2>2, <2>3 DEF next
<1>12. ASSUME NEW next, Goes(next), run' = [run EXCEPT ![r] = next],
              Gentle(config[r], channels, account, acc2, stored, stored),
              \/ next.failures # 0
              \/ /\ next.failures = state.failures
                 /\ OrphansIn(config[r], acc2) \subseteq OrphansIn(config[r], account) \ {row.uuid}
       PROVE  CInv'
  <2>1. ASSUME Undisturbed
        PROVE  Converging(next, config[r], channels, acc2, stored) /\ KeysStand(config[r], channels, acc2, stored)
    <3> HIDE DEF acc2
    <3>1. Converging(state, config[r], channels, acc2, stored)
      BY <1>6, <1>12, <2>1, GentleKeeps
    <3>2. KeysStand(config[r], channels, acc2, stored)
      BY <1>6, <1>12, <2>1, GentleKeys
    <3>3. LandedStand(next, config[r], channels, acc2) /\ next.channels = channels
      BY <1>2, <1>12, <3>1 DEF Converging, LandedStand
    <3>4. OrphansGo(next, config[r], acc2)
      <4>1. CASE next.failures # 0
        BY <4>1 DEF OrphansGo
      <4>2. CASE next.failures = 0
        <5>1. /\ state.failures = 0
              /\ OrphansIn(config[r], acc2) \subseteq OrphansIn(config[r], account) \ {row.uuid}
          BY <1>12, <4>2
        <5>2. OrphansIn(config[r], account) \subseteq UuidsAt(state.rows, state.doomed)
          BY <1>2, <1>6, <2>1, <5>1 DEF Converging, OrphansGo
        <5>3. \A u \in UuidsAt(state.rows, state.doomed) \ {row.uuid} : u \in UuidsAt(state.rows, doomed)
          BY <1>8 DEF UuidsAt
        <5> QED
          BY <1>12, <5>1, <5>2, <5>3 DEF OrphansGo
      <4> QED
        BY <4>1, <4>2
    <3> QED
      BY <1>12, <3>2, <3>3, <3>4 DEF Converging, RowsCome, Ended
  <2>2. stored' = stored /\ UNCHANGED <<config, channels, others, lapsed>>
    BY <1>2
  <2>3. Undisturbed =>
          /\ Gentle(config[r], channels, account, account', stored, stored')
          /\ KeysStand(config[r], channels, account', stored')
          /\ Converging(next, config[r], channels, account', stored')
    BY <1>12, <2>1, <2>2
  <2>4. next.pc = "pruning" /\ next.missed = run[r].missed
    BY <1>5, <1>12
  <2>5. run' = [run EXCEPT ![r] = next]
    BY <1>12
  <2> HIDE DEF acc2
  <2> QED
    BY <2>2, <2>3, <2>4, <2>5, StepConverges
<1>13. ASSUME account' = [u \in DOMAIN account \ {row.uuid} |-> account[u]], NEW told \in BOOLEAN,
              run' = [run EXCEPT ![r] = IF told THEN [rest EXCEPT !.deleted = @ + 1]
                                                ELSE Record(rest, row, "network-error")]
       PROVE  CInv'
  <2>1. CASE told
    <3> DEFINE next == [rest EXCEPT !.deleted = @ + 1]
    <3>1. run' = [run EXCEPT ![r] = next]
      BY <1>13, <2>1
    <3>2. next.failures = state.failures
      BY <1>9 DEF State
    <3> HIDE DEF acc2, Goes
    <3>3. Goes(next)
      BY <1>10
    <3> HIDE DEF next
    <3> QED
      BY <1>7, <1>12, <1>13, <3>1, <3>2, <3>3
  <2>2. CASE ~told
    <3> DEFINE next == Record(rest, row, "network-error")
    <3>1. run' = [run EXCEPT ![r] = next]
      BY <1>13, <2>2
    <3> HIDE DEF acc2, Goes
    <3>2. Goes(next) /\ next.failures # 0
      BY <1>11
    <3> HIDE DEF next
    <3> QED
      BY <1>7, <1>12, <1>13, <3>1, <3>2
  <2> QED
    BY <2>1, <2>2
<1>14. ASSUME NEW kind, run' = [run EXCEPT ![r] = Record(rest, row, kind)], UNCHANGED account PROVE CInv'
  <2> DEFINE next == Record(rest, row, kind)
  <2>1. run' = [run EXCEPT ![r] = next]
    BY <1>14
  <2>2. Gentle(config[r], channels, account, acc2, stored, stored)
    BY <1>14, GentleItself
  <2> HIDE DEF acc2, Goes
  <2>3. Goes(next) /\ next.failures # 0
    BY <1>11
  <2> HIDE DEF next
  <2> QED
    BY <1>12, <2>1, <2>2, <2>3
<1> QED
  BY <1>3, <1>13, <1>14

\* Every element of a finite set has its place in a row of them.
LEMMA SequencesCover ==
  ASSUME NEW S, IsFiniteSet(S), NEW u \in S
  PROVE  \E i \in DOMAIN SetToSeq(S) : SetToSeq(S)[i] = u
<1> DEFINE n == Cardinality(S)
<1>1. n \in Nat
  BY FS_CardinalityType
<1>2. PICK f \in Bijection(1..n, S) : TRUE
  BY FS_CardinalityType DEF ExistsBijection
<1>3. f \in [1..n -> S] /\ \A x, y \in DOMAIN f : f[x] = f[y] => x = y
  BY <1>2 DEF Bijection, Injection, IsInjective
<1>4. IsInjective(f)
  BY <1>3 DEF IsInjective
<1>5. SetToSeq(S) \in [1..n -> S] /\ IsInjective(SetToSeq(S))
  BY <1>3, <1>4 DEF SetToSeq
<1> DEFINE g == SetToSeq(S)
<1> HIDE DEF g, n
<1>6. g \in Injection(1..n, S)
  BY <1>5 DEF Injection, g
<1>7. Cardinality(1..n) = Cardinality(S)
  <2>1. Cardinality(1..n) = n
    BY <1>1, FS_Interval
  <2> QED
    BY <2>1 DEF n
<1>8. g \in Surjection(1..n, S)
  BY <1>6, <1>7, FS_Injection
<1>9. DOMAIN g = 1..n
  BY <1>5 DEF g
<1> QED
  BY <1>8, <1>9 DEF Surjection, g

\* A plan has a row for every orphan.
LEMMA PlanCovers ==
  ASSUME NEW definitions \in Seq(Definitions), NEW chans \in SUBSET AllChannels,
         NEW acc, acc \in [DOMAIN acc -> Monitors], DOMAIN acc \subseteq Nat, IsFiniteSet(DOMAIN acc),
         NEW u \in OrphansIn(definitions, acc)
  PROVE  \E i \in DOMAIN PlanSync(definitions, chans, acc) :
           PlanSync(definitions, chans, acc)[i] = OrphanRow(u, acc[u], chans)
<1> DEFINE S == OrphansIn(definitions, acc)
           n == Cardinality(S)
           orphans == SetToSeq(S)
           some == [i \in DOMAIN definitions |-> RowFor(definitions[i], chans, acc)]
           more == [i \in DOMAIN orphans |-> OrphanRow(orphans[i], acc[orphans[i]], chans)]
           rows == PlanSync(definitions, chans, acc)
           m == Len(definitions)
<1>1. S \subseteq DOMAIN acc
  BY DEF OrphansIn
<1>2. IsFiniteSet(S)
  BY <1>1, FS_Subset
<1>3. orphans \in [1..n -> S] /\ n \in Nat
  BY <1>2, SequencesOfSets
<1>4. PICK k \in 1..n : orphans[k] = u
  BY <1>2, <1>3, SequencesCover
<1>5. DOMAIN definitions = 1..m /\ m \in Nat
  BY LenProperties
<1>6. rows = some \o more
  BY DEF PlanSync
<1>7. more[k] = OrphanRow(u, acc[u], chans)
  BY <1>3, <1>4
<1> DEFINE Rows == {some[i] : i \in 1..m} \cup {more[i] : i \in 1..n}
<1>8. some \in [1..m -> Rows]
  BY <1>5
<1>9. more \in [1..n -> Rows]
  BY <1>3
<1> HIDE DEF S, n, orphans, some, more, rows, m, Rows
<1>10. some \in Seq(Rows) /\ Len(some) = m /\ more \in Seq(Rows) /\ Len(more) = n
  BY <1>3, <1>5, <1>8, <1>9, FunctionIsSeq
<1>11. /\ rows \in Seq(Rows) /\ Len(rows) = m + n
       /\ \A i \in 1..(m + n) : rows[i] = IF i <= m THEN some[i] ELSE more[i - m]
  <2>1. /\ some \o more \in Seq(Rows) /\ Len(some \o more) = Len(some) + Len(more)
        /\ \A i \in 1..(Len(some) + Len(more)) :
             (some \o more)[i] = IF i <= Len(some) THEN some[i] ELSE more[i - Len(some)]
    BY <1>10, ConcatProperties, Zenon
  <2> QED
    BY <1>6, <1>10, <2>1, Zenon
<1>12. DOMAIN rows = 1..(m + n)
  BY <1>11, LenProperties
<1>13. m + k \in 1..(m + n) /\ ~(m + k <= m) /\ (m + k) - m = k
  BY <1>3, <1>4, <1>5
<1>14. rows[m + k] = more[k]
  BY <1>11, <1>13
<1> QED
  BY <1>7, <1>12, <1>13, <1>14 DEF rows

\* A plan made of all the monitors there are: what it leaves alone is settled,
\* what it has rows for is to come, and it has a row for each orphan.
LEMMA PlanComes ==
  ASSUME SInv, NEW r \in Runs, NEW rows, rows = PlanSync(config[r], channels, account)
  PROVE  /\ \A i \in Work(rows) : \E d \in DOMAIN config[r] :
              Coming(config[r][d], rows[i], channels, account, stored)
         /\ \A d \in DOMAIN config[r] : \A i \in DOMAIN rows :
              rows[i].action = "unchanged" /\ rows[i].name = config[r][d].name => Settled(config[r][d], channels, account)
         /\ OrphansIn(config[r], account) \subseteq UuidsAt(rows, Orphans(rows))
<1> DEFINE defs == config[r]
<1>1. /\ defs \in Seq(Definitions) /\ \A d \in DOMAIN defs : defs[d] \in Definitions
      /\ \A d, e \in DOMAIN defs : defs[d].name = defs[e].name => d = e
  BY Known, DefinitionsKnown
<1>2. /\ channels \in SUBSET AllChannels /\ account \in [DOMAIN account -> Monitors]
      /\ IsFiniteSet(DOMAIN account) /\ DOMAIN account \subseteq Nat
  BY BoundsAssumption DEF SInv, Typed, AccountTyped
<1>3. rows = PlanSync(defs, channels, account)
  OBVIOUS
<1> HIDE DEF defs
<1>4. \A i \in DOMAIN rows :
        \/ i \in DOMAIN defs /\ rows[i] = RowFor(defs[i], channels, account)
        \/ \E u \in OrphansIn(defs, account) : rows[i] = OrphanRow(u, account[u], channels)
  BY <1>1, <1>2, <1>3, PlanIsSound
<1>5. ASSUME NEW u \in OrphansIn(defs, account)
      PROVE  OrphanRow(u, account[u], channels).action = "orphan" /\ OrphanRow(u, account[u], channels).uuid = u
  <2>1. u \in Nat /\ account[u] \in Monitors
    BY <1>2 DEF OrphansIn
  <2> QED
    BY <2>1, OrphanIsSound
<1>6. ASSUME NEW i \in DOMAIN rows, rows[i].action # "orphan"
      PROVE  i \in DOMAIN defs /\ rows[i] = RowFor(defs[i], channels, account)
  BY <1>4, <1>5, <1>6
<1>7. ASSUME NEW d \in DOMAIN defs
      PROVE  /\ RowFor(defs[d], channels, account).name = defs[d].name
             /\ RowFor(defs[d], channels, account).action = "unchanged" => Settled(defs[d], channels, account)
             /\ RowFor(defs[d], channels, account).action \in {"create", "update"} =>
                  Coming(defs[d], RowFor(defs[d], channels, account), channels, account, stored)
  <2>1. defs[d] \in Definitions
    BY <1>1
  <2>2. RowFor(defs[d], channels, account).name = defs[d].name
    BY <1>2, <2>1, RowIsSound
  <2> QED
    BY <1>2, <2>1, <2>2, RowTells
<1>8. ASSUME NEW i \in Work(rows) PROVE \E d \in DOMAIN defs : Coming(defs[d], rows[i], channels, account, stored)
  <2>1. i \in DOMAIN rows /\ rows[i].action \in {"create", "update"}
    BY DEF Work
  <2>2. i \in DOMAIN defs /\ rows[i] = RowFor(defs[i], channels, account)
    BY <1>6, <2>1
  <2> QED
    BY <1>7, <2>1, <2>2
<1>9. ASSUME NEW d \in DOMAIN defs, NEW i \in DOMAIN rows, rows[i].action = "unchanged", rows[i].name = defs[d].name
      PROVE  Settled(defs[d], channels, account)
  <2>1. i \in DOMAIN defs /\ rows[i] = RowFor(defs[i], channels, account)
    BY <1>6, <1>9
  <2>2. i = d
    BY <1>1, <1>7, <1>9, <2>1
  <2> QED
    BY <1>7, <1>9, <2>1, <2>2
<1>10. ASSUME NEW u \in OrphansIn(defs, account) PROVE u \in UuidsAt(rows, Orphans(rows))
  <2>1. \E i \in DOMAIN PlanSync(defs, channels, account) :
          PlanSync(defs, channels, account)[i] = OrphanRow(u, account[u], channels)
    BY <1>1, <1>2, PlanCovers
  <2>2. \E i \in DOMAIN rows : rows[i] = OrphanRow(u, account[u], channels)
    BY <1>3, <2>1
  <2> QED
    BY <1>5, <2>2 DEF UuidsAt, Orphans
<1> QED
  BY <1>8, <1>9, <1>10 DEF defs

LEMMA PlanConverges ==
  ASSUME SInv, CInv, NEW r \in Runs, Plan(r)
  PROVE  CInv'
<1>1. PICK missed \in {{}} \cup (IF Misses THEN {{u} : u \in DOMAIN account} ELSE {}) :
      LET seen  == [u \in DOMAIN account \ missed |-> account[u]]
          rows  == PlanSync(config[r], run[r].channels, seen)
          state == [run[r] EXCEPT
                      !.rows = rows, !.missed = missed # {},
                      !.todo = Work(rows),
                      !.landed = {rows[i].name : i \in {j \in DOMAIN rows : rows[j].action = "unchanged"}},
                      !.failures = CountOf(rows, "conflict") + CountOf(rows, "refused")]
      IN Becomes(r, IF state.mode.apply
                      THEN [state EXCEPT !.pc = "applying",
                              !.unsafe = Pruning(state) /\ PruningIsUnsafe(config[r], state.failures)]
                      ELSE Over(state))
  BY DEF Plan
<1> DEFINE seen  == [u \in DOMAIN account \ missed |-> account[u]]
           rows  == PlanSync(config[r], run[r].channels, seen)
           todo  == Work(rows)
           landed == {rows[i].name : i \in {j \in DOMAIN rows : rows[j].action = "unchanged"}}
           failures == CountOf(rows, "conflict") + CountOf(rows, "refused")
           before == run[r]
           some   == missed # {}
           state == [before EXCEPT !.rows = rows, !.missed = some, !.todo = todo,
                       !.landed = landed, !.failures = failures]
           unsafe == Pruning(state) /\ PruningIsUnsafe(config[r], state.failures)
           next == [state EXCEPT !.pc = "applying", !.unsafe = unsafe]
<1>2. run' = [run EXCEPT ![r] = IF state.mode.apply THEN next ELSE Over(state)]
  BY <1>1 DEF Becomes
<1>3. UNCHANGED <<account, channels, stored, config, born, others, lapsed>> /\ before.pc = "listing"
  BY DEF Plan
<1>4. before \in State
  BY Known
<1>5. ~run[r].missed
  BY <1>3 DEF CInv
<1>6. Undisturbed => before.channels = channels
  BY <1>3 DEF CInv, Converging
<1>7. missed = {} => seen = account
  BY DEF SInv, Typed, AccountTyped
<1>8. ASSUME Undisturbed, missed = {}
      PROVE  /\ \A i \in todo : \E d \in DOMAIN config[r] :
                  Coming(config[r][d], rows[i], channels, account, stored)
             /\ \A d \in DOMAIN config[r] :
                  config[r][d].name \in landed => Settled(config[r][d], channels, account)
             /\ OrphansIn(config[r], account) \subseteq UuidsAt(rows, Orphans(rows))
  <2>1. rows = PlanSync(config[r], channels, account)
    BY <1>6, <1>7, <1>8
  <2> HIDE DEF rows
  <2>2. /\ \A i \in Work(rows) : \E d \in DOMAIN config[r] :
             Coming(config[r][d], rows[i], channels, account, stored)
        /\ \A d \in DOMAIN config[r] : \A i \in DOMAIN rows :
             rows[i].action = "unchanged" /\ rows[i].name = config[r][d].name => Settled(config[r][d], channels, account)
        /\ OrphansIn(config[r], account) \subseteq UuidsAt(rows, Orphans(rows))
    BY <2>1, PlanComes
  <2> QED
    BY <2>2
<1>9. some <=> missed # {}
  OBVIOUS
<1>10. some \in BOOLEAN /\ unsafe \in BOOLEAN
  OBVIOUS
<1> HIDE DEF seen, rows, todo, landed, failures, before, some, unsafe
<1>11. /\ state.rows = rows /\ state.todo = todo /\ state.landed = landed /\ state.missed = some
       /\ state.channels = before.channels /\ state.mode = before.mode
       /\ DOMAIN state = DOMAIN before /\ state = [f \in DOMAIN state |-> state[f]]
  BY <1>4 DEF State
<1>12. before.mode \in [apply : BOOLEAN, check : BOOLEAN, prune : BOOLEAN, yes : BOOLEAN]
  BY <1>4 DEF State
<1> HIDE DEF state
<1>13. /\ next.pc = "applying" /\ next.rows = rows /\ next.todo = todo /\ next.landed = landed
       /\ next.missed = some /\ next.channels = before.channels
  BY <1>4, <1>11 DEF State
<1>14. /\ Over(state).pc = "over" /\ Over(state).missed = some /\ Over(state).mode = state.mode
  BY <1>11, <1>12, OverSays
<1> HIDE DEF next
<1>15. ASSUME Undisturbed, ~some PROVE Converging(next, config[r], channels, account, stored)
  <2>1. RowsCome(next, config[r], channels, account, stored)
    BY <1>8, <1>9, <1>13, <1>15 DEF RowsCome
  <2>2. LandedStand(next, config[r], channels, account)
    BY <1>8, <1>9, <1>13, <1>15 DEF LandedStand
  <2> QED
    BY <1>6, <1>13, <1>15, <2>1, <2>2 DEF Converging, OrphansGo, Ended
<1>16. ASSUME ~state.mode.apply PROVE Converging(Over(state), config[r], channels, account, stored)
  BY <1>14, <1>16 DEF Converging, RowsCome, LandedStand, OrphansGo, Ended
<1> DEFINE then == IF state.mode.apply THEN next ELSE Over(state)
<1>17. run' = [run EXCEPT ![r] = then]
  BY <1>2
<1>18. then.pc \notin {"start", "listing"} /\ then.missed = some
  BY <1>13, <1>14
<1>19. Undisturbed /\ ~then.missed => Converging(then, config[r], channels, account, stored)
  BY <1>15, <1>16, <1>18
<1>20. UNCHANGED <<account, channels, stored, config, born, others, lapsed>>
  BY <1>3
<1> HIDE DEF then
<1> QED
  BY <1>5, <1>17, <1>18, <1>19, <1>20, QuietConverges

\* Somebody else has changed something: nothing is said any more.
LEMMA OthersDisturb ==
  ASSUME SInv, CInv, UNCHANGED run, others' = others + 1
  PROVE  CInv'
<1>1. ~Undisturbed'
  <2>1. others \in Nat
    BY BoundsAssumption DEF SInv, Typed
  <2>2. others' # 0
    BY <2>1
  <2> QED
    BY <2>2 DEF Undisturbed
<1> QED
  BY <1>1 DEF CInv

\* A create that is forgotten is one that no run has yet to repeat, or nothing is
\* said any more.
LEMMA SweepConverges ==
  ASSUME SInv, CInv, KeyIsSwept
  PROVE  CInv'
<1>1. PICK key \in DOMAIN stored :
        /\ stored' = [k \in DOMAIN stored \ {key} |-> stored[k]]
        /\ lapsed' = (lapsed \/ \E r \in Runs : HasYetToCreateBy(r, key))
  BY DEF KeyIsSwept
<1>2. UNCHANGED <<account, channels, config, run, born, others>>
  BY DEF KeyIsSwept
<1>3. ASSUME NEW q \in Runs, Undisturbed'
      PROVE  /\ Converging(run[q], config[q], channels, account, stored')
             /\ KeysStand(config[q], channels, account, stored')
  <2>1. Undisturbed /\ ~HasYetToCreateBy(q, key)
    BY <1>1, <1>2, <1>3 DEF Undisturbed, SameConfig, NothingMissed
  <2>2. /\ Converging(run[q], config[q], channels, account, stored)
        /\ KeysStand(config[q], channels, account, stored)
    BY <2>1 DEF CInv
  <2> DEFINE st2 == stored'
  <2>3. DOMAIN st2 = DOMAIN stored \ {key} /\ \A k \in DOMAIN st2 : st2[k] = stored[k]
    BY <1>1
  <2>4. ASSUME NEW i \in run[q].todo, NEW def, run[q].rows[i].action = "create", run[q].rows[i].request = RequestOf(def, channels)
        PROVE  KeyFor(def, channels) # key
    BY <2>1, <2>4 DEF HasYetToCreateBy, KeyOf, IdempotencyKeyFor, KeyFor
  <2> HIDE DEF st2
  <2>5. ASSUME NEW i \in run[q].todo, NEW d \in DOMAIN config[q],
               Coming(config[q][d], run[q].rows[i], channels, account, stored)
        PROVE  Coming(config[q][d], run[q].rows[i], channels, account, st2)
    BY <2>3, <2>4, <2>5 DEF Coming, ToMake
  <2>6. RowsCome(run[q], config[q], channels, account, st2)
    BY <2>2, <2>5 DEF Converging, RowsCome
  <2>7. KeysStand(config[q], channels, account, st2)
    BY <2>2, <2>3 DEF KeysStand
  <2> QED
    BY <2>2, <2>6, <2>7 DEF Converging, st2
<1> QED
  BY <1>2, <1>3 DEF CInv

LEMMA CInvHolds ==
  Spec => []CInv
<1>1. Init => CInv
  <2> SUFFICES ASSUME Init PROVE CInv
    OBVIOUS
  <2>1. PICK modes \in Modes : run = [r \in Runs |-> Fresh(modes[r])]
    BY DEF Init
  <2>2. \A r \in Runs : run[r].pc = "start" /\ ~run[r].missed
    BY <2>1 DEF Fresh
  <2>3. DOMAIN stored = {}
    BY NoRows DEF Init
  <2>4. ASSUME NEW r \in Runs
        PROVE  /\ Converging(run[r], config[r], channels, account, stored)
               /\ KeysStand(config[r], channels, account, stored)
    BY <2>2, <2>3 DEF Converging, RowsCome, LandedStand, OrphansGo, Ended, KeysStand
  <2> QED
    BY <2>2, <2>4 DEF CInv
<1>2. SInv /\ CInv /\ [Next]_vars => CInv'
  <2> SUFFICES ASSUME SInv, CInv, [Next]_vars PROVE CInv'
    OBVIOUS
  <2>1. ASSUME NEW r \in Runs, SyncStep(r) PROVE CInv'
    BY <2>1, ListChannelsConverges, CannotPlanConverges, PlanConverges, CreateRowConverges,
       PassCreateOverConverges, UpdateRowConverges, EndRowsConverges, ConfirmConverges,
       DeleteRowConverges, EndPruneConverges DEF SyncStep
  <2>2. CASE SomeoneEdits
    BY <2>2, OthersDisturb DEF SomeoneEdits
  <2>3. CASE SomeoneUnverifies
    BY <2>3, OthersDisturb DEF SomeoneUnverifies
  <2>4. CASE KeyIsSwept
    BY <2>4, SweepConverges
  <2>5. CASE UNCHANGED vars
    BY <2>5 DEF vars, CInv, Undisturbed, SameConfig, NothingMissed
  <2> QED
    BY <2>1, <2>2, <2>3, <2>4, <2>5 DEF Next
<1> QED
  BY <1>1, <1>2, SInvHolds, PTL DEF Spec

\* A run with status 0 has converged: its configuration planned again leaves
\* every monitor alone.
LEMMA ConvergedHere ==
  ASSUME SInv, CInv
  PROVE  AppliedMeansConverged
<1> SUFFICES ASSUME others = 0, SameConfig, NothingMissed, ~lapsed,
                    NEW r \in Runs, run[r].pc = "over", run[r].exit = 0, run[r].mode.apply
             PROVE  /\ Matches(r)
                    /\ run[r].mode.prune /\ ~run[r].declined => OrphansIn(config[r], account) = {}
  BY DEF AppliedMeansConverged
<1>1. Ended(run[r], config[r], channels, account)
  BY DEF CInv, Undisturbed, Converging
<1>2. ASSUME NEW i \in DOMAIN config[r] PROVE RowFor(config[r][i], channels, account).action = "unchanged"
  <2>1. config[r][i] \in Definitions /\ IsFiniteSet(DOMAIN account)
    BY DefinitionsKnown
  <2>2. Settled(config[r][i], channels, account)
    BY <1>1 DEF Ended
  <2> QED
    BY <2>1, <2>2, RowTells
<1> QED
  BY <1>1, <1>2 DEF Ended, Matches

\* What cli/sync.ts answers 0 to: however the runs of one configuration
\* interleave, whatever is refused and whatever answers are lost, a run whose
\* status is 0 has left the account as its configuration describes it.
THEOREM AppliedRunsConverged == Spec => []AppliedMeansConverged
<1>1. SInv /\ CInv => AppliedMeansConverged
  BY ConvergedHere
<1> QED
  BY <1>1, SInvHolds, CInvHolds, PTL

-----------------------------------------------------------------------------
(* That runs make one monitor of a name.                                    *)

\* A run that has a create of the name to come.
YetToMake(state, name) ==
  state.pc = "applying" /\ \E i \in state.todo : state.rows[i].action = "create" /\ state.rows[i].name = name

\* The monitor that runs made of a name is the only one, and its create is
\* remembered as long as a run is to repeat it.
Alone ==
  /\ \A r \in Runs : run[r].pc \in {"start", "listing"} => ~run[r].missed
  /\ SameConfig /\ NothingMissed /\ ~lapsed =>
       \A u \in DOMAIN account : born[u] = "sync" =>
         /\ \A v \in DOMAIN account : born[v] = "sync" /\ account[v].name = account[u].name => u = v
         /\ \A r \in Runs : YetToMake(run[r], account[u].name) => u \in Kept

\* A step that makes no monitor, and forgets none that a run is to make.
LEMMA AloneKept ==
  ASSUME SInv, Alone, UNCHANGED <<born, config>>, DOMAIN account' \subseteq DOMAIN account,
         \A u \in DOMAIN account' : account'[u].name = account[u].name,
         \A r \in Runs : run'[r].pc \in {"start", "listing"} => ~run'[r].missed,
         NothingMissed' /\ ~lapsed' => NothingMissed /\ ~lapsed,
         SameConfig /\ NothingMissed' /\ ~lapsed' =>
           \A u \in DOMAIN account' : \A r \in Runs :
             born[u] = "sync" /\ YetToMake(run'[r], account[u].name) => u \in Kept'
  PROVE  Alone'
<1>1. SameConfig' => SameConfig
  BY DEF SameConfig
<1>2. ASSUME SameConfig', NothingMissed', ~lapsed', NEW u \in DOMAIN account', born[u] = "sync"
      PROVE  /\ \A v \in DOMAIN account' : born[v] = "sync" /\ account'[v].name = account'[u].name => u = v
             /\ \A r \in Runs : YetToMake(run'[r], account'[u].name) => u \in Kept'
  <2>1. \A v \in DOMAIN account : born[v] = "sync" /\ account[v].name = account[u].name => u = v
    BY <1>1, <1>2 DEF Alone
  <2> QED
    BY <1>1, <1>2, <2>1
<1> QED
  BY <1>2 DEF Alone, YetToMake

\* Whatever a run does but to plan, it has no more to make than it had.
LEMMA StepsGoOn ==
  ASSUME SInv, NEW r \in Runs, SyncStep(r), ~Plan(r)
  PROVE  /\ run'[r].missed = run[r].missed
         /\ run'[r].pc \in {"start", "listing"} => run[r].pc \in {"start", "listing"}
         /\ \A name : YetToMake(run'[r], name) => YetToMake(run[r], name)
<1> DEFINE state == run[r]
           GoesOn(next) ==
             /\ next.missed = state.missed
             /\ next.pc \in {"start", "listing"} => state.pc \in {"start", "listing"}
             /\ next.pc = "applying" =>
                  state.pc = "applying" /\ next.rows = state.rows /\ next.todo \subseteq state.todo
<1>1. run \in [Runs -> State] /\ state \in State
  BY Known
<1>2. SUFFICES ASSUME NEW next, run' = [run EXCEPT ![r] = next] PROVE GoesOn(next)
  <2>1. PICK next : run' = [run EXCEPT ![r] = next]
    <3>1. \E next : run' = [run EXCEPT ![r] = next]
      BY Stepping
    <3> QED
      BY <3>1
  <2>2. run'[r] = next
    BY <1>1, <2>1
  <2>3. GoesOn(next)
    BY <2>1
  <2> QED
    BY <2>2, <2>3 DEF YetToMake
<1>3. run'[r] = next
  BY <1>1, <1>2
<1>4. ASSUME NEW end, NEW landed, EndsAs(end, state, landed), next = end PROVE GoesOn(next)
  BY <1>4 DEF EndsAs
<1>5. ASSUME NEW over \in State, over.missed = state.missed, next = Over(over) PROVE GoesOn(next)
  BY <1>5, OverIs
<1>6. CASE ListChannels(r)
  <2>1. next = [state EXCEPT !.pc = "listing", !.channels = channels] /\ state.pc = "start"
    BY <1>1, <1>3, <1>6 DEF ListChannels, Becomes
  <2> HIDE DEF state
  <2> QED
    BY <1>1, <2>1 DEF State
<1>7. CASE CannotPlan(r)
  <2>1. next = [state EXCEPT !.pc = "over", !.exit = 1]
    BY <1>1, <1>3, <1>7 DEF CannotPlan, Becomes
  <2> HIDE DEF state
  <2> QED
    BY <1>1, <2>1 DEF State
<1>8. CASE CreateRow(r)
  <2>1. \E row, error : next = Rest(Landed(state, row)) \/ next = Rest(Record(state, row, error))
    BY <1>1, <1>3, <1>8 DEF CreateRow, Becomes
  <2> HIDE DEF state, GoesOn
  <2> QED
    BY <1>1, <1>4, <2>1, RowEndsAs
<1>9. CASE UpdateRow(r)
  <2>1. \E row, error : next = Rest(Landed(state, row)) \/ next = Rest(Record(state, row, error))
    BY <1>1, <1>3, <1>9 DEF UpdateRow, Becomes
  <2> HIDE DEF state, GoesOn
  <2> QED
    BY <1>1, <1>4, <2>1, RowEndsAs
<1>10. CASE PassCreateOver(r)
  <2>1. next = Rest([state EXCEPT !.failures = @ + 1])
    BY <1>1, <1>3, <1>10 DEF PassCreateOver, Becomes
  <2> HIDE DEF state, GoesOn
  <2> QED
    BY <1>1, <1>4, <2>1, RowEndsAs
<1>11. CASE EndRows(r)
  <2>1. \/ next = Over(state) \/ next = Over([state EXCEPT !.unsafe = TRUE])
        \/ next = [state EXCEPT !.pc = "asking"]
    BY <1>1, <1>3, <1>11 DEF EndRows, Becomes
  <2> HIDE DEF state
  <2>2. [state EXCEPT !.unsafe = TRUE] \in State /\ [state EXCEPT !.unsafe = TRUE].missed = state.missed
    BY <1>1 DEF State
  <2>3. GoesOn([state EXCEPT !.pc = "asking"])
    BY <1>1 DEF State
  <2> HIDE DEF GoesOn
  <2> QED
    BY <1>1, <1>5, <2>1, <2>2, <2>3
<1>12. CASE Confirm(r)
  <2>1. \/ next = [state EXCEPT !.pc = "pruning", !.doomed = Orphans(state.rows)]
        \/ next = Over([state EXCEPT !.declined = TRUE])
    BY <1>1, <1>3, <1>12 DEF Confirm, Becomes
  <2> HIDE DEF state
  <2>2. [state EXCEPT !.declined = TRUE] \in State /\ [state EXCEPT !.declined = TRUE].missed = state.missed
    BY <1>1 DEF State
  <2>3. GoesOn([state EXCEPT !.pc = "pruning", !.doomed = Orphans(state.rows)])
    BY <1>1 DEF State
  <2> HIDE DEF GoesOn
  <2> QED
    BY <1>1, <1>5, <2>1, <2>2, <2>3
<1>13. CASE DeleteRow(r)
  <2> DEFINE doomed == state.doomed \ {Min(state.doomed)}
             rest   == [state EXCEPT !.doomed = doomed]
  <2>1. /\ state.pc = "pruning"
        /\ \E row, error : next = [rest EXCEPT !.deleted = @ + 1] \/ next = Record(rest, row, error)
    <3> DEFINE row == state.rows[Min(state.doomed)]
    <3> HIDE DEF GoesOn
    <3>1. state.pc = "pruning"
      BY <1>13 DEF DeleteRow
    <3>2. \/ \E told \in BOOLEAN :
               Becomes(r, IF told THEN [rest EXCEPT !.deleted = @ + 1]
                                  ELSE Record(rest, row, "network-error"))
          \/ \E kind : Becomes(r, Record(rest, row, kind))
      BY <1>13, Zenon DEF DeleteRow
    <3>3. ASSUME NEW told, Becomes(r, told) PROVE next = told
      BY <1>1, <1>3, <3>3 DEF Becomes
    <3> HIDE DEF rest, row, state
    <3> QED
      BY <3>1, <3>2, <3>3
  <2>2. doomed \subseteq Nat
    BY <1>1 DEF State
  <2> HIDE DEF state, doomed
  <2>3. rest \in State /\ rest.pc = state.pc /\ rest.missed = state.missed
    BY <1>1, <2>2 DEF State
  <2> HIDE DEF rest
  <2>4. GoesOn([rest EXCEPT !.deleted = @ + 1])
    BY <2>1, <2>3 DEF State
  <2>5. ASSUME NEW row, NEW error PROVE GoesOn(Record(rest, row, error))
    BY <2>1, <2>3 DEF State, Record
  <2> HIDE DEF GoesOn
  <2> QED
    BY <2>1, <2>4, <2>5
<1>14. CASE EndPrune(r)
  <2>1. next = Over(state)
    BY <1>1, <1>3, <1>14 DEF EndPrune, Becomes
  <2> HIDE DEF state, GoesOn
  <2> QED
    BY <1>1, <1>5, <2>1
<1> HIDE DEF GoesOn
<1> QED
  BY <1>6, <1>7, <1>8, <1>9, <1>10, <1>11, <1>12, <1>13, <1>14 DEF SyncStep

\* No step but a create adds a monitor, and none renames one.
LEMMA NamesStay ==
  ASSUME SInv, [Next]_vars, \A r \in Runs : ~CreateRow(r)
  PROVE  /\ UNCHANGED <<born, config>> /\ DOMAIN account' \subseteq DOMAIN account
         /\ \A u \in DOMAIN account' : account'[u].name = account[u].name
<1>1. account \in [DOMAIN account -> Monitors]
  BY DEF SInv, Typed, AccountTyped
<1>2. UNCHANGED <<born, config>>
  BY DEF Next, SyncStep, ListChannels, CannotPlan, Plan, PassCreateOver, UpdateRow, EndRows, Confirm,
         DeleteRow, EndPrune, KeyIsSwept, SomeoneEdits, SomeoneUnverifies, vars
<1>3. ASSUME UNCHANGED account
      PROVE  /\ DOMAIN account' \subseteq DOMAIN account
             /\ \A u \in DOMAIN account' : account'[u].name = account[u].name
  BY <1>3
<1>4. ASSUME NEW r \in Runs, SyncStep(r)
      PROVE  /\ DOMAIN account' \subseteq DOMAIN account
             /\ \A u \in DOMAIN account' : account'[u].name = account[u].name
  <2>1. CASE UpdateRow(r)
    <3> DEFINE row == NextRow(run[r])
    <3>1. /\ row.request \in Requests
          /\ \/ UNCHANGED account
             \/ /\ row.uuid \in DOMAIN account /\ account[row.uuid] \in Monitors
                /\ DOMAIN account' = DOMAIN account
                /\ account'[row.uuid] = Patched(account[row.uuid], row)
                /\ \A u \in DOMAIN account : u # row.uuid => account'[u] = account[u]
      BY <2>1, UpdateIs
    <3> HIDE DEF row
    <3> QED
      BY <1>3, <3>1, PatchedIs
  <2>2. CASE DeleteRow(r)
    <3>1. UNCHANGED account \/ \E uuid : account' = [u \in DOMAIN account \ {uuid} |-> account[u]]
      BY <2>2 DEF DeleteRow
    <3> QED
      BY <1>3, <3>1
  <2>3. CASE UNCHANGED account
    BY <1>3, <2>3
  <2> QED
    BY <1>4, <2>1, <2>2, <2>3, Touches
<1>5. CASE SomeoneEdits
  <2>1. PICK u \in DOMAIN account :
          \/ account' = [account EXCEPT ![u].tz = "elsewhere"]
          \/ account' = [account EXCEPT ![u].channels = {}]
          \/ account' = [v \in DOMAIN account \ {u} |-> account[v]]
    BY <1>5 DEF SomeoneEdits
  <2> DEFINE monitor == account[u]
             away    == [monitor EXCEPT !.tz = "elsewhere"]
             silent  == [monitor EXCEPT !.channels = {}]
  <2>2. monitor \in Monitors
    BY <1>1
  <2>3. \/ account' = [account EXCEPT ![u] = away] \/ account' = [account EXCEPT ![u] = silent]
        \/ account' = [v \in DOMAIN account \ {u} |-> account[v]]
    BY <2>1
  <2>4. monitor.name = account[u].name
    OBVIOUS
  <2> HIDE DEF monitor
  <2>5. away.name = monitor.name /\ silent.name = monitor.name
    BY <2>2 DEF Monitors
  <2> HIDE DEF away, silent
  <2> QED
    BY <1>1, <1>2, <2>3, <2>4, <2>5
<1>6. CASE KeyIsSwept
  BY <1>2, <1>3, <1>6 DEF KeyIsSwept
<1>7. CASE SomeoneUnverifies
  BY <1>2, <1>3, <1>7 DEF SomeoneUnverifies
<1>8. CASE UNCHANGED vars
  BY <1>2, <1>3, <1>8 DEF vars
<1> QED
  BY <1>2, <1>4, <1>5, <1>6, <1>7, <1>8 DEF Next

\* The key of a create that is to come is what a definition of the name asks for.
LEMMA RowKeyIs ==
  ASSUME SInv, NEW r \in Runs, run[r].pc = "applying", NEW i \in run[r].todo,
         run[r].rows[i].action = "create"
  PROVE  /\ KeyOf(run[r].rows[i], r) = <<run[r].rows[i].request, run[r].rows[i].request>>
         /\ Minted(KeyOf(run[r].rows[i], r))
         /\ KeyOf(run[r].rows[i], r)[2].name = run[r].rows[i].name
<1> DEFINE row == run[r].rows[i]
           chans == run[r].channels
<1>1. Ready(r, run[r]) /\ \A d \in DOMAIN config[r] : config[r][d] \in Definitions
  BY Known
<1>2. i \in DOMAIN run[r].rows
  BY <1>1 DEF Ready, AppliedTo, Work
<1>3. PICK d \in DOMAIN config[r] : Asked(config[r][d], row, chans)
  BY <1>1, <1>2 DEF Ready, PlannedFor
<1> DEFINE def == config[r][d]
           key == <<row.request, row.request>>
<1>4. row.request = RequestOf(def, chans) /\ row.name = def.name
  BY <1>3 DEF Asked
<1>5. chans \in SUBSET AllChannels /\ Alike(chans, channels) /\ def \in Definitions
  BY <1>1 DEF Ready, State
<1>6. KeyOf(row, r) = key
  BY DEF KeyOf, IdempotencyKeyFor
<1> HIDE DEF row, chans, def
<1>7. RequestOf(def, chans).name = def.name /\ RequestOf(def, chans) = RequestOf(def, channels)
  BY <1>5, RequestsAreTyped, AlikeRequests
<1>8. Minted(key)
  BY <1>4, <1>7 DEF Minted, def
<1>9. key[2].name = row.name
  BY <1>4, <1>7
<1> QED
  BY <1>6, <1>8, <1>9 DEF row

\* A plan made of all the monitors there are makes one only of a name that has none.
LEMMA PlanMakesNew ==
  ASSUME SInv, NEW r \in Runs, run[r].pc = "listing", NEW rows,
         rows = PlanSync(config[r], run[r].channels, account),
         NEW i \in DOMAIN rows, rows[i].action = "create"
  PROVE  NamedIn(account, rows[i].name) = {}
<1> DEFINE defs == config[r]
           chans == run[r].channels
<1>1. defs \in Seq(Definitions) /\ \A d \in DOMAIN defs : defs[d] \in Definitions
  BY Known
<1>2. chans \in SUBSET AllChannels
  BY Known DEF State
<1>3. /\ account \in [DOMAIN account -> Monitors] /\ IsFiniteSet(DOMAIN account)
      /\ DOMAIN account \subseteq Nat
  BY BoundsAssumption DEF SInv, Typed, AccountTyped
<1>4. rows = PlanSync(defs, chans, account)
  OBVIOUS
<1> HIDE DEF defs, chans
<1>5. \/ i \in DOMAIN defs /\ rows[i] = RowFor(defs[i], chans, account)
      \/ \E u \in OrphansIn(defs, account) : rows[i] = OrphanRow(u, account[u], chans)
  BY <1>1, <1>2, <1>3, <1>4, PlanIsSound
<1>6. ASSUME NEW u \in OrphansIn(defs, account)
      PROVE  OrphanRow(u, account[u], chans).action = "orphan"
  <2>1. u \in Nat /\ account[u] \in Monitors
    BY <1>3 DEF OrphansIn
  <2> QED
    BY <2>1, OrphanIsSound
<1>7. i \in DOMAIN defs /\ rows[i] = RowFor(defs[i], chans, account)
  BY <1>5, <1>6
<1>8. defs[i] \in Definitions
  BY <1>1, <1>7
<1> DEFINE row == RowFor(defs[i], chans, account)
           none == <<>>
<1>9. row.action = "create"
  BY <1>7
<1>10. DOMAIN none = {}
  BY NoRows
<1> HIDE DEF none
<1>11. Coming(defs[i], row, chans, account, none)
  BY <1>3, <1>8, <1>9, RowTells
<1> HIDE DEF row
<1>12. row.name = defs[i].name /\ NamedIn(account, defs[i].name) = {}
  BY <1>9, <1>10, <1>11 DEF Coming, ToMake
<1> QED
  BY <1>7, <1>12 DEF row

LEMMA PlanLeavesAlone ==
  ASSUME SInv, Alone, NEW r \in Runs, Plan(r)
  PROVE  Alone'
<1>1. PICK missed \in {{}} \cup (IF Misses THEN {{u} : u \in DOMAIN account} ELSE {}) :
      LET seen  == [u \in DOMAIN account \ missed |-> account[u]]
          rows  == PlanSync(config[r], run[r].channels, seen)
          state == [run[r] EXCEPT
                      !.rows = rows, !.missed = missed # {},
                      !.todo = Work(rows),
                      !.landed = {rows[i].name : i \in {j \in DOMAIN rows : rows[j].action = "unchanged"}},
                      !.failures = CountOf(rows, "conflict") + CountOf(rows, "refused")]
      IN Becomes(r, IF state.mode.apply
                      THEN [state EXCEPT !.pc = "applying",
                              !.unsafe = Pruning(state) /\ PruningIsUnsafe(config[r], state.failures)]
                      ELSE Over(state))
  BY DEF Plan
<1> DEFINE seen  == [u \in DOMAIN account \ missed |-> account[u]]
           rows  == PlanSync(config[r], run[r].channels, seen)
           todo  == Work(rows)
           landed == {rows[i].name : i \in {j \in DOMAIN rows : rows[j].action = "unchanged"}}
           failures == CountOf(rows, "conflict") + CountOf(rows, "refused")
           before == run[r]
           some   == missed # {}
           state == [before EXCEPT !.rows = rows, !.missed = some, !.todo = todo,
                       !.landed = landed, !.failures = failures]
           unsafe == Pruning(state) /\ PruningIsUnsafe(config[r], state.failures)
           next == [state EXCEPT !.pc = "applying", !.unsafe = unsafe]
           then == IF state.mode.apply THEN next ELSE Over(state)
<1>2. run' = [run EXCEPT ![r] = then]
  BY <1>1 DEF Becomes
<1>3. UNCHANGED <<account, channels, stored, config, born, others, lapsed>> /\ before.pc = "listing"
  BY DEF Plan
<1>4. before \in State /\ run \in [Runs -> State]
  BY Known
<1>5. ~run[r].missed
  BY <1>3 DEF Alone
<1>6. missed = {} => rows = PlanSync(config[r], run[r].channels, account)
  BY DEF SInv, Typed, AccountTyped
<1>7. some <=> missed # {}
  OBVIOUS
<1>8. todo = Work(rows) /\ before = run[r]
  OBVIOUS
<1>9. before.mode \in [apply : BOOLEAN, check : BOOLEAN, prune : BOOLEAN, yes : BOOLEAN]
  BY <1>4 DEF State
<1> HIDE DEF seen, rows, todo, landed, failures, before, some, unsafe
<1>10. /\ state.rows = rows /\ state.todo = todo /\ state.missed = some /\ state.mode = before.mode
       /\ DOMAIN state = DOMAIN before /\ state = [f \in DOMAIN state |-> state[f]]
  BY <1>4 DEF State
<1> HIDE DEF state
<1>11. next.pc = "applying" /\ next.rows = rows /\ next.todo = todo /\ next.missed = some
  BY <1>4, <1>10 DEF State
<1>12. Over(state).pc = "over" /\ Over(state).missed = some
  BY <1>9, <1>10, OverSays
<1> HIDE DEF next
<1>13. /\ then.pc \notin {"start", "listing"} /\ then.missed = some
       /\ then.pc = "applying" => then.rows = rows /\ then.todo = todo
  BY <1>11, <1>12
<1> HIDE DEF then
<1>14. run'[r] = then /\ \A q \in Runs : q # r => run'[q] = run[q]
  BY <1>2, <1>4
<1>15. ASSUME NothingMissed' PROVE NothingMissed /\ missed = {}
  <2>1. ~run'[r].missed
    BY <1>15 DEF NothingMissed
  <2>2. missed = {}
    BY <1>7, <1>13, <1>14, <2>1
  <2>3. \A q \in Runs : ~run[q].missed
    BY <1>5, <1>14, <1>15 DEF NothingMissed
  <2> QED
    BY <2>2, <2>3 DEF NothingMissed
<1>16. ASSUME SameConfig, NothingMissed', ~lapsed', NEW u \in DOMAIN account', NEW q \in Runs,
              born[u] = "sync", YetToMake(run'[q], account[u].name)
       PROVE  u \in Kept'
  <2>1. NothingMissed /\ missed = {} /\ ~lapsed /\ u \in DOMAIN account /\ Kept' = Kept
    BY <1>3, <1>15, <1>16 DEF Kept
  <2>2. CASE q = r
    <3>1. PICK i \in todo : rows[i].action = "create" /\ rows[i].name = account[u].name
      BY <1>13, <1>14, <1>16, <2>2 DEF YetToMake
    <3>2. i \in DOMAIN rows /\ rows = PlanSync(config[r], run[r].channels, account)
      BY <1>6, <1>8, <2>1, <3>1 DEF Work
    <3>3. NamedIn(account, rows[i].name) = {}
      BY <1>3, <1>8, <3>1, <3>2, PlanMakesNew
    <3> QED
      BY <2>1, <3>1, <3>3 DEF NamedIn
  <2>3. CASE q # r
    BY <1>14, <1>16, <2>1, <2>3 DEF Alone
  <2> QED
    BY <2>2, <2>3
<1>17. \A q \in Runs : run'[q].pc \in {"start", "listing"} => ~run'[q].missed
  BY <1>13, <1>14 DEF Alone
<1> QED
  BY <1>3, <1>15, <1>16, <1>17, AloneKept

\* A monitor is made only of a name that runs have made none of.
LEMMA CreateLeavesAlone ==
  ASSUME SInv, Alone, NEW r \in Runs, CreateRow(r)
  PROVE  Alone'
<1> DEFINE row == NextRow(run[r])
           key == KeyOf(row, r)
<1>1. /\ run[r].pc = "applying" /\ run[r].todo # {} /\ row.action = "create"
      /\ UNCHANGED <<channels, config, others, lapsed>>
  BY DEF CreateRow
<1>2. MadeFor(key) \/ UNCHANGED <<account, stored, born>>
  BY DEF CreateRow
<1>3. PICK i \in run[r].todo : row = run[r].rows[i]
  BY <1>1, Known, NextIs
<1>4. Minted(key) /\ key[2].name = row.name /\ key = <<row.request, row.request>>
  BY <1>1, <1>3, RowKeyIs
<1>5. YetToMake(run[r], row.name)
  BY <1>1, <1>3 DEF YetToMake
<1>6. /\ \A q \in Runs : q # r => run'[q] = run[q]
      /\ run'[r].missed = run[r].missed
      /\ run'[r].pc \in {"start", "listing"} => run[r].pc \in {"start", "listing"}
      /\ \A name : YetToMake(run'[r], name) => YetToMake(run[r], name)
  <2>1. SyncStep(r) /\ ~Plan(r)
    BY <1>1 DEF SyncStep, Plan
  <2> QED
    BY <2>1, Touches, StepsGoOn
<1>7. row.request \in Requests
  BY <1>1, KeyIsMinted
<1>8. NothingMissed' => NothingMissed
  BY <1>6 DEF NothingMissed
<1>9. \A q \in Runs : run'[q].pc \in {"start", "listing"} => ~run'[q].missed
  BY <1>6 DEF Alone
<1> HIDE DEF row, key
<1>10. CASE UNCHANGED <<account, stored, born>>
  <2>1. ASSUME SameConfig, NothingMissed', ~lapsed', NEW u \in DOMAIN account', NEW q \in Runs,
               born[u] = "sync", YetToMake(run'[q], account[u].name)
        PROVE  u \in Kept'
    <3>1. YetToMake(run[q], account[u].name)
      BY <1>6, <2>1
    <3>2. Kept' = Kept /\ u \in DOMAIN account /\ ~lapsed
      BY <1>1, <1>10, <2>1 DEF Kept
    <3> QED
      BY <1>8, <2>1, <3>1, <3>2 DEF Alone
  <2> QED
    BY <1>1, <1>8, <1>9, <1>10, <2>1, AloneKept
<1>11. CASE MadeFor(key) /\ key \notin DOMAIN stored
  <2> DEFINE made == MonitorOf(key[2])
  <2>1. PICK uuid \in Uuids \ DOMAIN born :
          /\ account' = [u \in DOMAIN account \cup {uuid} |-> IF u = uuid THEN made ELSE account[u]]
          /\ born' = [u \in DOMAIN born \cup {uuid} |-> IF u = uuid THEN "sync" ELSE born[u]]
          /\ stored' = [k \in DOMAIN stored \cup {key} |-> IF k = key THEN uuid ELSE stored[k]]
    BY <1>11 DEF MadeFor
  <2>2. made.name = row.name
    BY <1>4, <1>7, MonitorIs
  <2> HIDE DEF made
  <2>3. /\ uuid \notin DOMAIN account
        /\ DOMAIN account' = DOMAIN account \cup {uuid} /\ account'[uuid] = made
        /\ \A u \in DOMAIN account : account'[u] = account[u] /\ born'[u] = born[u]
    BY <2>1 DEF SInv, Typed, AccountTyped
  <2>4. uuid \in Kept' /\ Kept \subseteq Kept'
    BY <1>11, <2>1 DEF Kept
  <2>5. ASSUME SameConfig', NothingMissed', ~lapsed' PROVE SameConfig /\ NothingMissed /\ ~lapsed
    BY <1>1, <1>8, <2>5 DEF SameConfig
  <2>6. ASSUME SameConfig', NothingMissed', ~lapsed', NEW u \in DOMAIN account, born[u] = "sync",
               account[u].name = row.name
        PROVE  FALSE
    <3>1. u \in Kept
      BY <1>5, <2>5, <2>6 DEF Alone
    <3>2. PICK k \in DOMAIN stored : stored[k] = u
      BY <3>1 DEF Kept
    <3>3. Minted(k) /\ k[2].name = row.name
      BY <2>6, <3>2 DEF SInv, Made
    <3>4. k = key
      BY <1>4, <2>5, <2>6, <3>3, KeysOfAName
    <3> QED
      BY <1>11, <3>2, <3>4
  <2>7. ASSUME SameConfig', NothingMissed', ~lapsed', NEW u \in DOMAIN account', born'[u] = "sync"
        PROVE  /\ \A v \in DOMAIN account' :
                    born'[v] = "sync" /\ account'[v].name = account'[u].name => u = v
               /\ \A q \in Runs : YetToMake(run'[q], account'[u].name) => u \in Kept'
    <3>1. SameConfig /\ NothingMissed /\ ~lapsed
      BY <2>5, <2>7
    <3>2. CASE u = uuid
      BY <2>2, <2>3, <2>4, <2>6, <2>7, <3>2
    <3>3. CASE u # uuid
      <4>1. u \in DOMAIN account /\ born[u] = "sync" /\ account'[u] = account[u]
        BY <2>3, <2>7, <3>3
      <4>2. account[u].name # row.name
        BY <2>6, <2>7, <4>1
      <4>3. \A v \in DOMAIN account' :
              born'[v] = "sync" /\ account'[v].name = account'[u].name => u = v
        BY <2>2, <2>3, <3>1, <4>1, <4>2 DEF Alone
      <4>4. ASSUME NEW q \in Runs, YetToMake(run'[q], account'[u].name) PROVE u \in Kept'
        <5>1. YetToMake(run[q], account[u].name)
          BY <1>6, <4>1, <4>4
        <5> QED
          BY <2>4, <3>1, <4>1, <5>1 DEF Alone
      <4> QED
        BY <4>3, <4>4
    <3> QED
      BY <3>2, <3>3
  <2> QED
    BY <1>9, <2>7 DEF Alone
<1> QED
  BY <1>2, <1>10, <1>11 DEF MadeFor

LEMMA SweepLeavesAlone ==
  ASSUME SInv, Alone, KeyIsSwept
  PROVE  Alone'
<1>1. PICK key \in DOMAIN stored :
        /\ stored' = [k \in DOMAIN stored \ {key} |-> stored[k]]
        /\ lapsed' = (lapsed \/ \E r \in Runs : HasYetToCreateBy(r, key))
  BY DEF KeyIsSwept
<1>2. UNCHANGED <<account, channels, config, run, born, others>>
  BY DEF KeyIsSwept
<1>3. NothingMissed' /\ ~lapsed' => NothingMissed /\ ~lapsed
  BY <1>1, <1>2 DEF NothingMissed
<1>4. ASSUME SameConfig, NothingMissed', ~lapsed', NEW u \in DOMAIN account', NEW q \in Runs,
             born[u] = "sync", YetToMake(run'[q], account[u].name)
      PROVE  u \in Kept'
  <2>1. u \in DOMAIN account /\ YetToMake(run[q], account[u].name)
    BY <1>2, <1>4
  <2>2. u \in Kept
    BY <1>3, <1>4, <2>1 DEF Alone
  <2>3. PICK k \in DOMAIN stored : stored[k] = u
    BY <2>2 DEF Kept
  <2>4. PICK i \in run[q].todo : run[q].rows[i].action = "create" /\ run[q].rows[i].name = account[u].name
    BY <2>1 DEF YetToMake
  <2> DEFINE row == run[q].rows[i]
  <2>5. Minted(KeyOf(row, q)) /\ KeyOf(row, q)[2].name = account[u].name
    BY <2>1, <2>4, RowKeyIs DEF YetToMake
  <2>6. Minted(k) /\ k[2].name = account[u].name
    BY <2>1, <2>3 DEF SInv, Made
  <2>7. k = KeyOf(row, q)
    BY <1>4, <2>5, <2>6, KeysOfAName
  <2>8. ~HasYetToCreateBy(q, key)
    BY <1>1, <1>4
  <2>9. k # key
    BY <2>4, <2>7, <2>8 DEF HasYetToCreateBy
  <2>10. k \in DOMAIN stored' /\ stored'[k] = u
    BY <1>1, <2>3, <2>9
  <2> QED
    BY <2>10 DEF Kept
<1>5. \A r \in Runs : run'[r].pc \in {"start", "listing"} => ~run'[r].missed
  BY <1>2 DEF Alone
<1> QED
  BY <1>2, <1>3, <1>4, <1>5, AloneKept

LEMMA AloneHolds ==
  Spec => []Alone
<1>1. Init => Alone
  <2> SUFFICES ASSUME Init PROVE Alone
    OBVIOUS
  <2>1. PICK modes \in Modes : run = [r \in Runs |-> Fresh(modes[r])]
    BY DEF Init
  <2>2. \A r \in Runs : run[r].pc = "start" /\ ~run[r].missed
    BY <2>1 DEF Fresh
  <2>3. \A u \in DOMAIN account : born[u] # "sync"
    BY DEF Init
  <2> QED
    BY <2>2, <2>3 DEF Alone
<1>2. SInv /\ Alone /\ [Next]_vars => Alone'
  <2> SUFFICES ASSUME SInv, Alone, [Next]_vars PROVE Alone'
    OBVIOUS
  <2>1. ASSUME NEW r \in Runs, Plan(r) PROVE Alone'
    BY <2>1, PlanLeavesAlone
  <2>2. ASSUME NEW r \in Runs, CreateRow(r) PROVE Alone'
    BY <2>2, CreateLeavesAlone
  <2>3. CASE KeyIsSwept
    BY <2>3, SweepLeavesAlone
  <2>4. ASSUME UNCHANGED <<stored, lapsed>>, \A r \in Runs : ~CreateRow(r),
               \A q \in Runs :
                 /\ run'[q].missed = run[q].missed
                 /\ run'[q].pc \in {"start", "listing"} => run[q].pc \in {"start", "listing"}
                 /\ \A name : YetToMake(run'[q], name) => YetToMake(run[q], name)
        PROVE  Alone'
    <3>1. /\ UNCHANGED <<born, config>> /\ DOMAIN account' \subseteq DOMAIN account
          /\ \A u \in DOMAIN account' : account'[u].name = account[u].name
      BY <2>4, NamesStay
    <3>2. NothingMissed' /\ ~lapsed' => NothingMissed /\ ~lapsed
      BY <2>4 DEF NothingMissed
    <3>3. ASSUME SameConfig, NothingMissed', ~lapsed', NEW u \in DOMAIN account', NEW q \in Runs,
                 born[u] = "sync", YetToMake(run'[q], account[u].name)
          PROVE  u \in Kept'
      <4>1. YetToMake(run[q], account[u].name) /\ u \in DOMAIN account /\ Kept' = Kept
        BY <2>4, <3>1, <3>3 DEF Kept
      <4> QED
        BY <3>2, <3>3, <4>1 DEF Alone
    <3>4. \A q \in Runs : run'[q].pc \in {"start", "listing"} => ~run'[q].missed
      BY <2>4 DEF Alone
    <3> QED
      BY <3>1, <3>2, <3>3, <3>4, AloneKept
  <2>5. ASSUME NEW r \in Runs, SyncStep(r), ~Plan(r), \A q \in Runs : ~CreateRow(q) PROVE Alone'
    <3>1. UNCHANGED <<stored, lapsed>>
      BY <2>5 DEF SyncStep, ListChannels, CannotPlan, PassCreateOver, UpdateRow, EndRows, Confirm,
                  DeleteRow, EndPrune
    <3>2. /\ \A q \in Runs : q # r => run'[q] = run[q]
          /\ run'[r].missed = run[r].missed
          /\ run'[r].pc \in {"start", "listing"} => run[r].pc \in {"start", "listing"}
          /\ \A name : YetToMake(run'[r], name) => YetToMake(run[r], name)
      BY <2>5, Touches, StepsGoOn
    <3>3. \A q \in Runs :
            /\ run'[q].missed = run[q].missed
            /\ run'[q].pc \in {"start", "listing"} => run[q].pc \in {"start", "listing"}
            /\ \A name : YetToMake(run'[q], name) => YetToMake(run[q], name)
      BY <3>2
    <3> QED
      BY <2>4, <2>5, <3>1, <3>3
  <2>6. CASE SomeoneEdits \/ SomeoneUnverifies \/ UNCHANGED vars
    <3>1. UNCHANGED <<stored, lapsed, run>>
      BY <2>6 DEF SomeoneEdits, SomeoneUnverifies, vars
    <3>2. CASE \A r \in Runs : ~CreateRow(r)
      BY <2>4, <3>1, <3>2
    <3>3. CASE \E r \in Runs : CreateRow(r)
      BY <2>2, <3>3
    <3> QED
      BY <3>2, <3>3
  <2> QED
    BY <2>1, <2>2, <2>3, <2>5, <2>6 DEF Next
<1> QED
  BY <1>1, <1>2, SInvHolds, PTL DEF Spec

LEMMA OneOfANameHere ==
  ASSUME SInv, Alone
  PROVE  OneOfAName
<1>1. ASSUME SameConfig, NEW name PROVE Cardinality(Named(name) \cap Kept) <= 1
  <2> DEFINE S == Named(name) \cap Kept
  <2>1. ASSUME NEW u \in S
        PROVE  \E key \in DOMAIN stored : stored[key] = u /\ Minted(key) /\ key[2].name = name
    <3>1. PICK key \in DOMAIN stored : stored[key] = u
      BY DEF Kept
    <3>2. u \in DOMAIN account /\ account[u].name = name
      BY DEF Named
    <3> QED
      BY <3>1, <3>2 DEF SInv, Made
  <2>2. \A u, v \in S : u = v
    BY <1>1, <2>1, KeysOfAName
  <2> HIDE DEF S
  <2>3. Cardinality(S) <= 1
    BY <2>2, AtMostOne
  <2> QED
    BY <2>3 DEF S
<1>2. ASSUME SameConfig, NothingMissed, ~lapsed, NEW name
      PROVE  Cardinality({u \in Named(name) : born[u] = "sync"}) <= 1
  <2> DEFINE S == {u \in Named(name) : born[u] = "sync"}
  <2>1. \A u, v \in S : u = v
    BY <1>2 DEF Alone, Named
  <2> HIDE DEF S
  <2>2. Cardinality(S) <= 1
    BY <2>1, AtMostOne
  <2> QED
    BY <2>2 DEF S
<1>3. TypeOK
  BY TypesHold
<1> QED
  BY <1>1, <1>2, <1>3 DEF OneOfAName

\* Runs of one configuration, however many, make one monitor of each name as far
\* as the service underwrites it: one at most whose create it remembers, whatever
\* each missed in the listing or was told of its creates; and one in all, however
\* often it has forgotten, unless a listing missed a monitor or a create was
\* forgotten that a run had yet to repeat (cli/sync.ts, sync/key.ts).
THEOREM OneMonitorOfAName == Spec => []OneOfAName
<1>1. SInv /\ Alone => OneOfAName
  BY OneOfANameHere
<1> QED
  BY <1>1, SInvHolds, AloneHolds, PTL
=============================================================================
