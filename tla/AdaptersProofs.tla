-------------------------- MODULE AdaptersProofs --------------------------
(***************************************************************************)
(* What the scheduler adapters guarantee for any number of executions,     *)
(* runs and flushes, however the executions overlap and whenever the       *)
(* adapter is attached and detached: overlapping executions are one run,   *)
(* reported for what they did when the last of them has ended, and what    *)
(* goes wrong when ends are heard of executions whose beginning was missed *)
(* is no more than there were of those.                                    *)
(***************************************************************************)
EXTENDS Adapters, PingClientProofs

\* The bracket, the adapter and the ledger of the client hold values of their kind.
Kinds ==
  /\ warned \in SUBSET Warnings
  /\ spoken \in [Warnings -> Nat]
  /\ reported \in SUBSET (Loud \X Monitors)
  /\ fire \in [Fires -> {"idle", "running", "settling", "done"}]
  /\ open \in Nat
  /\ run \in Runs \cup {0}
  /\ runs \in Runs \cup {0}
  /\ failed \in BOOLEAN
  /\ failure \in Fires \cup {NoFire}
  /\ awaits \in [Fires -> Runs \cup {0}]
  /\ spanOf \in [Fires -> Runs \cup {0}]
  /\ threw \in Seq(Fires)
  /\ cause \in [Runs -> Fires \cup {NoFire}]
  /\ eventful \in BOOLEAN
  /\ attached \in {"before", "on", "off"}
  /\ drain \in [Flushers -> [at : {"idle", "asked", "drained"}, pending : SUBSET Fires]]
  /\ heard \in SUBSET Fires
  /\ strays \in SUBSET Fires
  /\ early \in [Runs -> SUBSET Fires]

\* Runs are started in order, and one that is not ended is the one in progress.
Ordered ==
  /\ run # 0 => run = runs /\ terminal[run] = "none"
  /\ open = 0 => run = 0
  /\ \A r \in Runs :
       /\ r > runs => terminal[r] = "none" /\ \A a \in Actions : stage[<<r, a>>] = "unsent"
       /\ r = run => stage[<<r, "start">>] # "unsent"
       /\ stage[<<r, "start">>] # "unsent" /\ terminal[r] = "none" => r = run
       /\ terminal[r] # "none" => stage[<<r, terminal[r]>>] # "unsent"

\* Whoever missed the end of an execution it counted has been taken off.
Deaf == eventful /\ attached = "off"

\* What has been heard of the executions, and how many of them are counted.
Heard ==
  /\ attached = "before" => heard = {} /\ strays = {}
  /\ ~eventful => strays = {}
  /\ \A j \in heard : fire[j] # "idle"
  /\ \A j \in strays : j \notin heard /\ fire[j] \in {"settling", "done"}
  /\ open <= Cardinality(heard)
  /\ CountIsExplained

\* The executions of a run are those heard while it was in progress, and what
\* was left running when it was ended was written down then.
Spanned ==
  /\ \A j \in Fires : spanOf[j] # 0 =>
       j \in heard /\ spanOf[j] <= runs /\ stage[<<spanOf[j], "start">>] # "unsent"
  /\ strays = {} /\ ~Deaf => \A j \in Overlapping : spanOf[j] = run
  /\ \A r \in Runs : terminal[r] # "none" => {j \in Members(r) : fire[j] = "running"} \subseteq early[r]
  /\ \A r \in Runs : terminal[r] = "none" => early[r] = {}
  /\ EndedEarlyForACause

\* j is the first execution of the run r to have thrown.
First(r, j) ==
  \E i \in 1..Len(threw) :
    /\ j = threw[i]
    /\ spanOf[threw[i]] = r
    /\ \A k \in 1..(i - 1) : spanOf[threw[k]] # r

\* Who threw is remembered until the run is ended, and how it ended after that.
Blamed ==
  /\ \A i \in 1..Len(threw) : fire[threw[i]] \in {"settling", "done"}
  /\ strays = {} =>
       /\ run # 0 => (failed <=> \E j \in Members(run) : Threw(j))
       /\ run # 0 /\ failed => First(run, failure)
       /\ \A r \in Runs : terminal[r] # "none" => (terminal[r] = "fail" <=> \E j \in Members(r) : Threw(j))
       /\ \A r \in Runs : terminal[r] = "fail" => First(r, cause[r])

\* The last execution of a run waits for its terminal check-in, or has seen it
\* settle.
Awaited ==
  /\ \A j \in Fires : fire[j] \in {"idle", "running"} => awaits[j] = 0
  /\ \A r \in Runs : terminal[r] # "none" /\ strays = {} =>
       \E j \in Members(r) : /\ awaits[j] = r
                             /\ fire[j] = "done" => stage[<<r, terminal[r]>>] = "settled"

AInv == Typed /\ Covered /\ Ended /\ Kinds /\ Ordered /\ Heard /\ Spanned /\ Blamed /\ Awaited

-----------------------------------------------------------------------------
(* The operators.                                                           *)

\* No check-in is a run's end before the run began, and no run is numbered 0.
LEMMA RunsAreNumbers ==
  /\ Runs \subseteq Nat /\ 0 \notin Runs
  /\ TheMonitor \in Monitors
  /\ \A m \in Monitors : <<"adapter-overlap", m>> \in Warnings
<1>1. Monitors # {}
  BY RunsAssumption DEF Monitors
<1>2. TheMonitor \in Monitors
  BY <1>1 DEF TheMonitor
<1> QED
  BY <1>2, RunsAssumption DEF Warnings, Subjects

\* Only finitely many executions have been heard of.
LEMMA HeardIsFinite ==
  ASSUME Kinds
  PROVE  /\ IsFiniteSet(heard) /\ IsFiniteSet(strays) /\ IsFiniteSet(Overlapping)
         /\ Cardinality(heard) \in Nat /\ Cardinality(strays) \in Nat
         /\ Cardinality(Overlapping) \in Nat
         /\ \A r \in Runs : IsFiniteSet(early[r]) /\ Cardinality(early[r]) \in Nat
<1>1. /\ heard \subseteq Fires /\ strays \subseteq Fires /\ Overlapping \subseteq Fires
      /\ \A r \in Runs : early[r] \subseteq Fires
  BY DEF Kinds, Overlapping
<1> QED
  BY <1>1, FiresAssumption, FS_Subset, FS_CardinalityType

\* A ledger that is asked to warn of what may be warned of stays one.
LEMMA LedgerStays ==
  ASSUME warned \in SUBSET Warnings, spoken \in [Warnings -> Nat],
         NEW subject, NEW monitor, <<subject, monitor>> \in Warnings, WarnOnce(subject, monitor)
  PROVE  warned' \in SUBSET Warnings /\ spoken' \in [Warnings -> Nat]
<1>1. CASE <<subject, monitor>> \in warned
  BY <1>1 DEF WarnOnce
<1>2. CASE <<subject, monitor>> \notin warned
  <2> DEFINE w == <<subject, monitor>>
  <2>1. warned' = warned \cup {w} /\ spoken' = [spoken EXCEPT ![w] = spoken[w] + 1]
    BY <1>2 DEF WarnOnce
  <2>2. w \in Warnings
    OBVIOUS
  <2> HIDE DEF w
  <2> QED
    BY <2>1, <2>2
<1> QED
  BY <1>1, <1>2

-----------------------------------------------------------------------------
LEMMA InitAInv == AdapterInit => AInv
<1> SUFFICES ASSUME AdapterInit PROVE AInv
  OBVIOUS
<1>0. ClientInit /\ Init
  BY DEF AdapterInit, Init
<1>1. Typed /\ Covered /\ Ended
  BY <1>0, InitCInv DEF CInv, Core
<1>2. Kinds
  <2>1. threw \in Seq(Fires) /\ cause \in [Runs -> Fires \cup {NoFire}]
    BY <1>0 DEF Init
  <2>2. /\ drain \in [Flushers -> [at : {"idle", "asked", "drained"}, pending : SUBSET Fires]]
        /\ heard \in SUBSET Fires /\ strays \in SUBSET Fires /\ early \in [Runs -> SUBSET Fires]
    BY DEF AdapterInit
  <2>3. /\ warned \in SUBSET Warnings /\ spoken \in [Warnings -> Nat]
        /\ reported \in SUBSET (Loud \X Monitors)
    BY <1>0 DEF ClientInit
  <2>4. /\ fire = [j \in Fires |-> "idle"] /\ open = 0 /\ run = 0 /\ runs = 0 /\ failed = FALSE
        /\ failure = NoFire /\ awaits = [j \in Fires |-> 0] /\ spanOf = [j \in Fires |-> 0]
        /\ eventful \in BOOLEAN /\ attached \in {"before", "on"}
    BY <1>0 DEF AdapterInit, Init
  <2>5. fire \in [Fires -> {"idle", "running", "settling", "done"}]
    BY <2>4
  <2>6. awaits \in [Fires -> Runs \cup {0}] /\ spanOf \in [Fires -> Runs \cup {0}]
    BY <2>4
  <2> QED
    BY <2>1, <2>2, <2>3, <2>4, <2>5, <2>6 DEF Kinds
<1>3. Ordered
  BY <1>0, RunsAreNumbers, CheckInsArePairs DEF AdapterInit, Init, ClientInit, Ordered
<1>4. /\ heard = {} /\ strays = {} /\ open = 0 /\ Overlapping = {} /\ threw = <<>>
      /\ terminal = [r \in Runs |-> "none"] /\ early = [r \in Runs |-> {}]
      /\ spanOf = [j \in Fires |-> 0] /\ awaits = [j \in Fires |-> 0] /\ run = 0
  BY <1>0 DEF AdapterInit, Init, ClientInit, Overlapping
<1>5. Cardinality({}) = 0
  BY FS_EmptySet
<1>6. CountIsExplained /\ Heard
  BY <1>4, <1>5 DEF Heard, CountIsExplained
<1>7. Spanned
  BY <1>4, <1>5 DEF Spanned, EndedEarlyForACause
<1>8. Blamed /\ Awaited
  BY <1>4 DEF Blamed, Awaited
<1> QED
  BY <1>1, <1>2, <1>3, <1>6, <1>7, <1>8 DEF AInv

-----------------------------------------------------------------------------
(* An execution begins.                                                     *)

\* What the bracket makes of it: a run of its own, none, or the one there is.
Starts ==
  /\ open = 0 /\ runs' = runs + 1 /\ runs' \in Runs /\ run' = runs'
  /\ Call(runs', "start")
  /\ failed' = FALSE /\ failure' = NoFire

GoesUnreported ==
  /\ open = 0 /\ run' = 0 /\ failed' = FALSE /\ failure' = NoFire
  /\ UNCHANGED <<runs, clientVars>>

Overlaps ==
  /\ open > 0
  /\ WarnOnce("adapter-overlap", TheMonitor)
  /\ UNCHANGED <<run, runs, failed, failure, stage, inFlight, terminal, flush, before, reported>>

\* What else happens when an execution j begins and is heard of.
Opened(j) ==
  /\ attached = "on" /\ fire[j] = "idle"
  /\ open' = open + 1
  /\ fire' = [fire EXCEPT ![j] = "running"]
  /\ spanOf' = [spanOf EXCEPT ![j] = run']
  /\ heard' = heard \cup {j}
  /\ UNCHANGED <<awaits, threw, cause, eventful, attached, drain, strays, early>>

LEMMA BeginIsOneOf ==
  ASSUME NEW j \in Fires, BeginHeard(j)
  PROVE  Opened(j) /\ (Starts \/ GoesUnreported \/ Overlaps)
BY DEF BeginHeard, Begin, Due, BeginFirst, BeginOverlapping, StartRun, Opened, Starts, GoesUnreported, Overlaps

\* A run is only ever started after the ones before it.
LEMMA StartsInOrder ==
  ASSUME AInv, open' = open + 1, Starts \/ GoesUnreported \/ Overlaps
  PROVE  /\ Typed' /\ Covered' /\ Ended' /\ Ordered'
         /\ terminal' = terminal
         /\ warned' \in SUBSET Warnings /\ spoken' \in [Warnings -> Nat] /\ reported' = reported
         /\ run' \in Runs \cup {0} /\ runs' \in Runs \cup {0} /\ runs <= runs' /\ run' <= runs'
         /\ \A r \in Runs : stage[<<r, "start">>] # "unsent" => stage'[<<r, "start">>] # "unsent"
         /\ run' # 0 => terminal[run'] = "none"
         /\ \A c \in CheckIns : stage[c] = "settled" => stage'[c] = "settled"
<1>0. /\ Typed /\ Covered /\ Ended /\ Kinds /\ Ordered
      /\ run \in Nat /\ runs \in Nat /\ open \in Nat
  BY RunsAreNumbers DEF AInv, Kinds
<1>1. CASE Starts
  <2>0. PICK r \in Runs : r = runs'
    BY <1>1 DEF Starts
  <2>1. /\ r = runs + 1 /\ open = 0 /\ run = 0 /\ r \in Nat /\ r > runs
    BY <1>0, <1>1, <2>0, RunsAreNumbers DEF Starts, Ordered
  <2>2. /\ stage[<<r, "start">>] = "unsent" /\ Dispatch(<<r, "start">>)
        /\ UNCHANGED <<terminal, warned, flush, before, spoken, reported>>
    BY <1>1, <2>0 DEF Starts, Call
  <2>3. /\ terminal \in [Runs -> Terminals \cup {"none"}] /\ <<r, "start">> \in CheckIns
        /\ stage \in [CheckIns -> {"unsent", "inFlight", "settled"}]
    BY <1>0, <2>1, CheckInsArePairs DEF Typed
  <2>4. stage' = [stage EXCEPT ![<<r, "start">>] = "inFlight"]
    BY <2>2 DEF Dispatch
  <2>5. terminal[r] = "none" /\ \A a \in Actions : stage[<<r, a>>] = "unsent"
    BY <1>0, <2>1 DEF Ordered
  <2>6. Typed' /\ Covered'
    BY <1>0, <2>1, <2>2, <2>3, DispatchTracks, CheckInsArePairs
  <2>7. \A q \in Runs, a \in Actions : <<q, a>> # <<r, "start">> => stage'[<<q, a>>] = stage[<<q, a>>]
    BY <2>3, <2>4, CheckInsArePairs
  <2>8. stage'[<<r, "start">>] = "inFlight"
    BY <2>3, <2>4
  <2>9. Ended'
    BY <1>0, <2>2, <2>7, CheckInsArePairs DEF Ended
  <2>10. run' = r /\ runs' = r
    BY <1>1, <2>0 DEF Starts
  <2>11. Ordered'
    <3>1. run' # 0 => run' = runs' /\ terminal'[run'] = "none"
      BY <2>2, <2>5, <2>10
    <3>2. open' # 0
      BY <1>0
    <3> SUFFICES ASSUME NEW q \in Runs
                 PROVE  /\ q > r => terminal[q] = "none" /\ \A a \in Actions : stage'[<<q, a>>] = "unsent"
                        /\ q = r => stage'[<<q, "start">>] # "unsent"
                        /\ stage'[<<q, "start">>] # "unsent" /\ terminal[q] = "none" => q = r
                        /\ terminal[q] # "none" => stage'[<<q, terminal[q]>>] # "unsent"
      BY <2>2, <2>10, <3>1, <3>2 DEF Ordered
    <3>3. CASE q = r
      BY <2>1, <2>5, <2>8, <3>3
    <3>4. CASE q # r
      <4>1. \A a \in Actions : stage'[<<q, a>>] = stage[<<q, a>>]
        BY <2>7, <3>4
      <4>2. q > r => q > runs
        BY <1>0, <2>1, RunsAreNumbers
      <4>3. terminal[q] \in Terminals \cup {"none"}
        BY <2>3
      <4>4. /\ q > runs => terminal[q] = "none" /\ \A a \in Actions : stage[<<q, a>>] = "unsent"
            /\ stage[<<q, "start">>] # "unsent" /\ terminal[q] = "none" => q = run
            /\ terminal[q] # "none" => stage[<<q, terminal[q]>>] # "unsent"
        BY <1>0 DEF Ordered
      <4>5. run \notin Runs
        BY <2>1, RunsAreNumbers
      <4>6. "start" \in Actions /\ \A a \in Terminals : a \in Actions
        BY CheckInsArePairs
      <4> QED
        BY <3>4, <4>1, <4>2, <4>3, <4>4, <4>5, <4>6
    <3> QED
      BY <3>3, <3>4
  <2>12. \A q \in Runs : stage[<<q, "start">>] # "unsent" => stage'[<<q, "start">>] # "unsent"
    BY <2>7, <2>8, CheckInsArePairs
  <2>13. \A c \in CheckIns : stage[c] = "settled" => stage'[c] = "settled"
    BY <2>3, <2>4, <2>5, CheckInsArePairs
  <2> QED
    BY <1>0, <2>1, <2>2, <2>5, <2>6, <2>9, <2>10, <2>11, <2>12, <2>13 DEF Kinds
<1>2. CASE GoesUnreported
  <2>1. /\ UNCHANGED <<runs, stage, inFlight, terminal, warned, flush, before, spoken, reported>>
        /\ run = 0 /\ run' = 0
    BY <1>0, <1>2 DEF GoesUnreported, clientVars, Ordered
  <2>2. Typed' /\ Covered' /\ Ended'
    BY <1>0, <2>1 DEF Typed, Covered, Ended
  <2>3. Ordered'
    BY <1>0, <2>1 DEF Ordered
  <2> QED
    BY <1>0, <2>1, <2>2, <2>3 DEF Kinds
<1>3. CASE Overlaps
  <2>1. /\ UNCHANGED <<run, runs, stage, inFlight, terminal, flush, before, reported>>
        /\ WarnOnce("adapter-overlap", TheMonitor) /\ open > 0
    BY <1>3 DEF Overlaps
  <2>2. Typed' /\ Covered' /\ Ended'
    BY <1>0, <2>1 DEF Typed, Covered, Ended
  <2>3. Ordered'
    BY <1>0, <2>1 DEF Ordered
  <2>4. warned' \in SUBSET Warnings /\ spoken' \in [Warnings -> Nat]
    BY <1>0, <2>1, RunsAreNumbers, LedgerStays DEF Kinds
  <2>5. run <= runs /\ (run # 0 => terminal[run] = "none")
    BY <1>0 DEF Ordered
  <2> QED
    BY <1>0, <2>1, <2>2, <2>3, <2>4, <2>5 DEF Kinds
<1> QED
  BY <1>1, <1>2, <1>3

LEMMA BeginKeeps == ASSUME AInv, NEW j \in Fires, BeginHeard(j) PROVE AInv'
<1>0. /\ Kinds /\ Ordered /\ Heard /\ Spanned /\ Blamed /\ Awaited
      /\ Opened(j) /\ (Starts \/ GoesUnreported \/ Overlaps)
  BY BeginIsOneOf DEF AInv
<1>1. /\ Typed' /\ Covered' /\ Ended' /\ Ordered'
      /\ terminal' = terminal
      /\ warned' \in SUBSET Warnings /\ spoken' \in [Warnings -> Nat] /\ reported' = reported
      /\ run' \in Runs \cup {0} /\ runs' \in Runs \cup {0} /\ runs <= runs' /\ run' <= runs'
      /\ \A r \in Runs : stage[<<r, "start">>] # "unsent" => stage'[<<r, "start">>] # "unsent"
      /\ run' # 0 => terminal[run'] = "none"
      /\ \A c \in CheckIns : stage[c] = "settled" => stage'[c] = "settled"
  <2>1. open' = open + 1
    BY <1>0 DEF Opened
  <2> QED
    BY <1>0, <2>1, StartsInOrder
<1>2. /\ attached = "on" /\ fire[j] = "idle"
      /\ open' = open + 1
      /\ fire' = [fire EXCEPT ![j] = "running"]
      /\ spanOf' = [spanOf EXCEPT ![j] = run']
      /\ heard' = heard \cup {j}
      /\ UNCHANGED <<awaits, threw, cause, eventful, attached, drain, strays, early>>
  BY <1>0 DEF Opened
<1>3. /\ fire \in [Fires -> {"idle", "running", "settling", "done"}]
      /\ spanOf \in [Fires -> Runs \cup {0}]
      /\ heard \subseteq Fires /\ strays \subseteq Fires /\ open \in Nat
  BY <1>0 DEF Kinds
<1>4. /\ fire'[j] = "running" /\ \A i \in Fires : i # j => fire'[i] = fire[i]
      /\ spanOf'[j] = run' /\ \A i \in Fires : i # j => spanOf'[i] = spanOf[i]
  BY <1>2, <1>3
<1>5. j \notin heard /\ j \notin strays /\ spanOf[j] = 0 /\ awaits[j] = 0
  BY <1>0, <1>2 DEF Heard, Spanned, Awaited
<1>6. Kinds'
  <2>1. /\ fire' \in [Fires -> {"idle", "running", "settling", "done"}]
        /\ spanOf' \in [Fires -> Runs \cup {0}]
    BY <1>1, <1>2, <1>3
  <2>2. failed' \in BOOLEAN /\ failure' \in Fires \cup {NoFire}
    BY <1>0 DEF Starts, GoesUnreported, Overlaps, Kinds
  <2>3. /\ reported' \in SUBSET (Loud \X Monitors) /\ open' \in Nat /\ heard' \in SUBSET Fires
    BY <1>0, <1>1, <1>2, <1>3 DEF Kinds
  <2>4. /\ awaits' \in [Fires -> Runs \cup {0}] /\ threw' \in Seq(Fires) /\ eventful' \in BOOLEAN
        /\ cause' \in [Runs -> Fires \cup {NoFire}] /\ attached' \in {"before", "on", "off"}
        /\ drain' \in [Flushers -> [at : {"idle", "asked", "drained"}, pending : SUBSET Fires]]
        /\ strays' \in SUBSET Fires /\ early' \in [Runs -> SUBSET Fires]
    BY <1>0, <1>2 DEF Kinds
  <2> QED
    BY <1>1, <2>1, <2>2, <2>3, <2>4 DEF Kinds
<1>7. Overlapping' = Overlapping \cup {j} /\ j \notin Overlapping
  BY <1>2, <1>3, <1>4, <1>5 DEF Overlapping
<1>8. /\ Cardinality(Overlapping') = Cardinality(Overlapping) + 1
      /\ Cardinality(heard') = Cardinality(heard) + 1
      /\ Cardinality(Overlapping) \in Nat /\ Cardinality(heard) \in Nat /\ Cardinality(strays) \in Nat
  BY <1>0, <1>2, <1>5, <1>7, HeardIsFinite, FS_AddElement
<1>9. Heard'
  <2>1. CountIsExplained'
    BY <1>0, <1>2, <1>3, <1>8 DEF Heard, CountIsExplained
  <2>2. open' <= Cardinality(heard')
    BY <1>0, <1>2, <1>3, <1>8 DEF Heard
  <2>3. /\ \A i \in heard' : fire'[i] # "idle"
        /\ \A i \in strays' : i \notin heard' /\ fire'[i] \in {"settling", "done"}
    BY <1>0, <1>2, <1>3, <1>4, <1>5 DEF Heard
  <2>4. attached' # "before" /\ (~eventful' => strays' = {})
    BY <1>0, <1>2 DEF Heard
  <2> QED
    BY <2>1, <2>2, <2>3, <2>4 DEF Heard
<1>10. Spanned'
  <2>1. ASSUME NEW i \in Fires, spanOf'[i] # 0
        PROVE  i \in heard' /\ spanOf'[i] <= runs' /\ stage'[<<spanOf'[i], "start">>] # "unsent"
    <3>1. CASE i = j
      <4>1. run' \in Runs /\ run' <= runs' /\ spanOf'[i] = run' /\ i \in heard'
        BY <1>1, <1>2, <1>4, <2>1, <3>1
      <4>2. stage'[<<run', "start">>] # "unsent"
        BY <1>1, <4>1 DEF Ordered
      <4> QED
        BY <4>1, <4>2
    <3>2. CASE i # j
      <4>1. /\ spanOf'[i] = spanOf[i] /\ spanOf[i] # 0 /\ spanOf[i] \in Runs
            /\ runs \in Nat /\ runs' \in Nat /\ spanOf[i] \in Nat
        <5>1. spanOf'[i] = spanOf[i]
          BY <1>4, <3>2
        <5>2. spanOf[i] \in Runs /\ runs \in Runs \cup {0} /\ runs' \in Runs \cup {0}
          BY <1>0, <1>1, <1>3, <2>1, <5>1 DEF Kinds
        <5>3. runs \in Nat /\ runs' \in Nat /\ spanOf[i] \in Nat
          <6>1. Runs \cup {0} \subseteq Nat
            BY RunsAreNumbers
          <6> QED
            BY <5>2, <6>1
        <5> QED
          BY <2>1, <5>1, <5>2, <5>3
      <4>2. i \in heard /\ spanOf[i] <= runs /\ stage[<<spanOf[i], "start">>] # "unsent"
        BY <1>0, <4>1 DEF Spanned
      <4> QED
        BY <1>1, <1>2, <4>1, <4>2
    <3> QED
      BY <3>1, <3>2
  <2>2. ASSUME strays' = {}, ~Deaf' PROVE \A i \in Overlapping' : spanOf'[i] = run'
    <3>1. strays = {} /\ ~Deaf
      BY <1>2, <2>2 DEF Deaf
    <3>2. CASE open = 0
      <4>1. Cardinality(Overlapping) = 0
        BY <1>0, <1>2, <1>8, <3>1, <3>2, FS_EmptySet DEF Heard, CountIsExplained
      <4>2. Overlapping = {}
        BY <1>0, <4>1, HeardIsFinite, FS_EmptySet
      <4> QED
        BY <1>4, <1>7, <4>2
    <3>3. CASE open # 0
      <4>1. run' = run
        BY <1>0, <3>3 DEF Starts, GoesUnreported, Overlaps
      <4>2. \A i \in Overlapping : spanOf[i] = run /\ i \in Fires
        BY <1>0, <1>3, <3>1 DEF Spanned, Overlapping
      <4> QED
        BY <1>4, <1>7, <4>1, <4>2
    <3> QED
      BY <3>2, <3>3
  <2>3. ASSUME NEW r \in Runs, terminal'[r] # "none"
        PROVE  {i \in Members(r)' : fire'[i] = "running"} \subseteq early'[r]
    <3>1. Members(r)' = Members(r)
      <4>1. run' # r
        BY <1>1, <2>3, RunsAreNumbers
      <4>2. spanOf[j] # r
        BY <1>5, RunsAreNumbers
      <4> QED
        BY <1>4, <4>1, <4>2 DEF Members
    <3>2. j \notin Members(r)
      BY <1>5, RunsAreNumbers DEF Members
    <3>3. \A i \in Members(r) : fire'[i] = fire[i]
      BY <1>4, <3>2 DEF Members
    <3> QED
      BY <1>0, <1>1, <1>2, <2>3, <3>1, <3>3 DEF Spanned
  <2>4. EndedEarlyForACause' /\ \A r \in Runs : terminal'[r] = "none" => early'[r] = {}
    BY <1>0, <1>1, <1>2 DEF Spanned, EndedEarlyForACause
  <2> QED
    BY <2>1, <2>2, <2>3, <2>4 DEF Spanned
<1>11. Blamed'
  <2>1. \A i \in 1..Len(threw) : threw[i] \in Fires /\ threw[i] # j
    BY <1>0, <1>2 DEF Kinds, Blamed
  <2>2. \A i \in 1..Len(threw) : fire'[threw[i]] = fire[threw[i]] /\ spanOf'[threw[i]] = spanOf[threw[i]]
    BY <1>4, <2>1
  <2>3. \A r \in Runs : \A i \in Fires : First(r, i)' <=> First(r, i)
    BY <1>2, <2>2 DEF First
  <2>4. \A i \in Fires : Threw(i)' <=> Threw(i)
    BY <1>2 DEF Threw
  <2>5. ~Threw(j)
    BY <2>1 DEF Threw
  <2>6. \A r \in Runs : (\E i \in Members(r)' : Threw(i)') <=> (\E i \in Members(r) : Threw(i))
    <3>1. \A r \in Runs, i \in Fires : i # j => (i \in Members(r)' <=> i \in Members(r))
      BY <1>4 DEF Members
    <3>2. \A r \in Runs : Members(r) \subseteq Fires /\ Members(r)' \subseteq Fires
      BY DEF Members
    <3> QED
      BY <2>4, <2>5, <3>1, <3>2
  <2>7. ASSUME strays = {}, NEW r \in Runs, r = run'
        PROVE  /\ failed' <=> \E i \in Members(r)' : Threw(i)'
               /\ failed' => failure' \in Fires /\ First(r, failure') /\ failure' \in Members(r)
    <3>1. CASE Overlaps
      <4>1. run = r /\ run # 0 /\ failed' = failed /\ failure' = failure
        BY <2>7, <3>1, RunsAreNumbers DEF Overlaps
      <4>2. /\ failed <=> \E i \in Members(r) : Threw(i)
            /\ failed => First(r, failure)
        BY <1>0, <2>7, <4>1 DEF Blamed
      <4>3. First(r, failure) => failure \in Fires /\ failure \in Members(r)
        BY <2>1 DEF First, Members
      <4> QED
        BY <2>6, <4>1, <4>2, <4>3
    <3>2. CASE Starts \/ GoesUnreported
      <4>1. failed' = FALSE /\ r > runs
        BY <1>0, <2>7, <3>2, RunsAreNumbers DEF Starts, GoesUnreported, Kinds
      <4>2. \A i \in Fires : spanOf[i] # r
        <5>1. runs \in Nat
          BY <1>0, RunsAreNumbers DEF Kinds
        <5>2. \A i \in Fires : spanOf[i] # 0 => spanOf[i] <= runs
          BY <1>0 DEF Spanned
        <5>3. r \in Nat /\ r # 0 /\ ~(r <= runs)
          BY <4>1, <5>1, RunsAreNumbers
        <5> QED
          BY <5>2, <5>3
      <4>3. Members(r) = {}
        BY <4>2 DEF Members
      <4> QED
        BY <2>6, <4>1, <4>3
    <3> QED
      BY <1>0, <3>1, <3>2
  <2>8. ASSUME strays = {}, run' # 0
        PROVE  /\ failed' <=> \E i \in Members(run)' : Threw(i)'
               /\ failed' => First(run, failure)'
    <3>1. PICK r \in Runs : r = run'
      BY <1>1, <2>8
    <3>2. /\ failed' <=> \E i \in Members(r)' : Threw(i)'
          /\ failed' => failure' \in Fires /\ First(r, failure')
      BY <2>7, <2>8, <3>1
    <3>3. Members(run)' = Members(r)'
      BY <3>1 DEF Members
    <3>4. ASSUME NEW i \in Fires, i = failure', First(r, i) PROVE First(run, failure)'
      <4>1. First(r, i)'
        BY <2>3, <3>4
      <4> QED
        BY <3>1, <3>4, <4>1 DEF First
    <3> QED
      BY <3>2, <3>3, <3>4
  <2>9. ASSUME strays = {}, NEW r \in Runs
        PROVE  /\ terminal[r] # "none" => (terminal[r] = "fail" <=> \E i \in Members(r)' : Threw(i)')
               /\ terminal[r] = "fail" => First(r, cause[r])'
    <3>1. terminal[r] # "none" => (terminal[r] = "fail" <=> \E i \in Members(r)' : Threw(i)')
      BY <1>0, <2>6, <2>9 DEF Blamed
    <3>2. ASSUME terminal[r] = "fail" PROVE First(r, cause[r])'
      <4>1. First(r, cause[r])
        BY <1>0, <2>9, <3>2 DEF Blamed
      <4>2. PICK i \in Fires : i = cause[r]
        BY <2>1, <4>1 DEF First
      <4>3. First(r, i)'
        BY <2>3, <4>1, <4>2
      <4> QED
        BY <1>2, <4>2, <4>3 DEF First
    <3> QED
      BY <3>1, <3>2
  <2>10. \A i \in 1..Len(threw') : fire'[threw'[i]] \in {"settling", "done"}
    BY <1>0, <1>2, <2>2 DEF Blamed
  <2> QED
    BY <1>1, <1>2, <2>8, <2>9, <2>10 DEF Blamed
<1>12. Awaited'
  <2>1. \A i \in Fires : fire'[i] \in {"idle", "running"} => awaits'[i] = 0
    BY <1>0, <1>2, <1>4, <1>5 DEF Awaited
  <2>2. ASSUME NEW r \in Runs, terminal[r] # "none", strays = {}
        PROVE  \E i \in Members(r)' : /\ awaits'[i] = r
                                      /\ fire'[i] = "done" => stage'[<<r, terminal[r]>>] = "settled"
    <3>1. PICK i \in Members(r) : /\ awaits[i] = r
                                  /\ fire[i] = "done" => stage[<<r, terminal[r]>>] = "settled"
      BY <1>0, <2>2 DEF Awaited
    <3>2. i \in Fires /\ i # j /\ spanOf[i] = r
      BY <1>5, <3>1, RunsAreNumbers DEF Members
    <3>3. i \in Members(r)' /\ awaits'[i] = r /\ fire'[i] = fire[i]
      BY <1>2, <1>4, <3>1, <3>2 DEF Members
    <3>4. <<r, terminal[r]>> \in CheckIns
      BY <2>2, CheckInsArePairs DEF AInv, Typed
    <3> QED
      BY <1>1, <3>1, <3>3, <3>4
  <2> QED
    BY <1>1, <1>2, <2>1, <2>2 DEF Awaited
<1> QED
  BY <1>1, <1>6, <1>9, <1>10, <1>11, <1>12 DEF AInv

-----------------------------------------------------------------------------
(* An execution ends.                                                       *)

\* What the bracket makes of it: nothing yet, or the end of the run.
KeepsOpen(j, threwNow) ==
  /\ OpenAfter = 0 => run = 0
  /\ run' = run
  /\ failed' = Failed(threwNow) /\ failure' = FirstFailure(j, threwNow)
  /\ fire' = [fire EXCEPT ![j] = "done"]
  /\ UNCHANGED <<awaits, cause, clientVars>>

EndsRun(j, threwNow) ==
  /\ OpenAfter = 0 /\ run # 0 /\ run' = 0
  /\ SendTerminal(run, IF Failed(threwNow) THEN "fail" ELSE "success")
  /\ awaits' = [awaits EXCEPT ![j] = run]
  /\ cause' = [cause EXCEPT ![run] = FirstFailure(j, threwNow)]
  /\ failed' = FALSE /\ failure' = NoFire
  /\ fire' = [fire EXCEPT ![j] = "settling"]

\* What else happens when the end of an execution j is heard.
Closed(j, threwNow) ==
  /\ fire[j] = "running" /\ HearsEnd(j)
  /\ open' = OpenAfter
  /\ threw' = (IF threwNow THEN Append(threw, j) ELSE threw)
  /\ strays' = strays \cup ({j} \ heard)
  /\ early' = [r \in Runs |->
                 IF terminal[r] = "none" /\ terminal'[r] # "none"
                   THEN {i \in Members(r) : fire'[i] = "running"}
                   ELSE early[r]]
  /\ UNCHANGED <<runs, spanOf, eventful, attached, drain, heard>>

LEMMA EndIsOneOf ==
  ASSUME AInv, NEW j \in Fires, NEW threwNow \in BOOLEAN, EndHeard(j, threwNow)
  PROVE  Closed(j, threwNow) /\ (KeepsOpen(j, threwNow) \/ EndsRun(j, threwNow))
<1>1. Closed(j, threwNow)
  BY DEF EndHeard, Settle, Closed
<1>2. CASE SettleInside(j, threwNow)
  <2>1. OpenAfter # 0
    BY <1>2 DEF SettleInside
  <2> QED
    BY <1>1, <1>2, <2>1 DEF SettleInside, KeepsOpen
<1>3. CASE SettleLast(j, threwNow)
  BY <1>1, <1>3 DEF SettleLast, KeepsOpen, EndsRun
<1> QED
  BY <1>2, <1>3 DEF EndHeard, Settle

\* The terminal check-in of a run leaves once, and the run is over.
LEMMA EndsInOrder ==
  ASSUME AInv, NEW j, NEW threwNow \in BOOLEAN, EndsRun(j, threwNow), UNCHANGED runs
  PROVE  \E a \in Terminals :
         /\ a = (IF Failed(threwNow) THEN "fail" ELSE "success")
         /\ terminal' = [terminal EXCEPT ![run] = a]
         /\ stage' = [stage EXCEPT ![<<run, a>>] = "inFlight"]
         /\ stage[<<run, a>>] = "unsent"
         /\ Typed' /\ Covered' /\ Ended' /\ Ordered'
         /\ UNCHANGED <<warned, spoken, reported>>
<1>0. /\ Typed /\ Covered /\ Ended /\ Kinds /\ Ordered
  BY DEF AInv
<1>1. PICK r \in Runs : r = run
  BY <1>0 DEF EndsRun, Kinds
<1>2. PICK a \in Terminals : a = (IF Failed(threwNow) THEN "fail" ELSE "success")
  BY DEF Terminals
<1>3. terminal[r] = "none" /\ r # 0 /\ r = runs /\ run' = 0
  BY <1>0, <1>1, RunsAreNumbers DEF Ordered, EndsRun
<1>4. /\ SendTerminal(r, a)
      /\ terminal' = [terminal EXCEPT ![r] = a] /\ Dispatch(<<r, a>>)
      /\ UNCHANGED <<warned, flush, before, spoken, reported>>
  BY <1>1, <1>2, <1>3 DEF EndsRun, SendTerminal
<1>5. /\ terminal \in [Runs -> Terminals \cup {"none"}] /\ <<r, a>> \in CheckIns /\ a \in Actions
      /\ stage \in [CheckIns -> {"unsent", "inFlight", "settled"}] /\ a # "start" /\ a # "none"
  BY <1>0, CheckInsArePairs DEF Typed
<1>6. stage[<<r, a>>] = "unsent"
  BY <1>0, <1>3, <1>5 DEF Ended
<1>7. /\ terminal' \in [Runs -> Terminals \cup {"none"}]
      /\ terminal'[r] = a /\ \A q \in Runs : q # r => terminal'[q] = terminal[q]
      /\ stage' = [stage EXCEPT ![<<r, a>>] = "inFlight"]
      /\ stage'[<<r, a>>] = "inFlight"
      /\ \A q \in Runs, b \in Actions : <<q, b>> # <<r, a>> => stage'[<<q, b>>] = stage[<<q, b>>]
  BY <1>4, <1>5, CheckInsArePairs DEF Dispatch
<1>8. Typed' /\ Covered'
  BY <1>0, <1>4, <1>5, <1>6, <1>7, DispatchTracks
<1>9. Ended'
  <2> SUFFICES ASSUME NEW q \in Runs, NEW b \in Terminals, stage'[<<q, b>>] # "unsent"
               PROVE  terminal'[q] = b
    BY DEF Ended
  <2>1. CASE <<q, b>> = <<r, a>>
    BY <1>7, <2>1
  <2>2. CASE <<q, b>> # <<r, a>>
    <3>1. stage[<<q, b>>] # "unsent" /\ terminal[q] = b /\ b # "none"
      BY <1>0, <1>7, <2>2, CheckInsArePairs DEF Ended
    <3> QED
      BY <1>3, <1>7, <3>1
  <2> QED
    BY <2>1, <2>2
<1>10. Ordered'
  <2> SUFFICES ASSUME NEW q \in Runs
               PROVE  /\ q > runs => terminal'[q] = "none" /\ \A b \in Actions : stage'[<<q, b>>] = "unsent"
                      /\ ~(stage'[<<q, "start">>] # "unsent" /\ terminal'[q] = "none")
                      /\ terminal'[q] # "none" => stage'[<<q, terminal'[q]>>] # "unsent"
    BY <1>3, RunsAreNumbers DEF Ordered
  <2>1. CASE q = r
    <3>1. ~(q > runs)
      BY <1>3, <2>1, RunsAreNumbers
    <3> QED
      BY <1>5, <1>7, <2>1, <3>1
  <2>2. CASE q # r
    <3>1. \A b \in Actions : stage'[<<q, b>>] = stage[<<q, b>>]
      BY <1>7, <2>2
    <3>2. terminal'[q] = terminal[q] /\ terminal[q] \in Terminals \cup {"none"}
      BY <1>5, <1>7, <2>2
    <3> QED
      BY <1>0, <1>1, <2>2, <3>1, <3>2, CheckInsArePairs DEF Ordered
  <2> QED
    BY <2>1, <2>2
<1> QED
  BY <1>1, <1>2, <1>4, <1>6, <1>7, <1>8, <1>9, <1>10

\* The count follows the end of an execution that was counted and of one that
\* was not.
LEMMA EndCounts ==
  ASSUME AInv, NEW j \in Fires, NEW threwNow \in BOOLEAN, Closed(j, threwNow),
         fire' = [fire EXCEPT ![j] = "done"] \/ fire' = [fire EXCEPT ![j] = "settling"]
  PROVE  /\ Heard' /\ open' \in Nat /\ strays' \in SUBSET Fires
         /\ Overlapping' = Overlapping \ {j}
         /\ Cardinality(Overlapping') <= open' + Cardinality(strays')
         /\ Cardinality(strays) <= Cardinality(strays')
         /\ strays' = {} => strays = {} /\ j \in Overlapping /\ ~Deaf
<1>0. /\ Kinds /\ Heard
  BY DEF AInv
<1>1. /\ fire[j] = "running" /\ HearsEnd(j)
      /\ open' = OpenAfter
      /\ strays' = strays \cup ({j} \ heard)
      /\ UNCHANGED <<eventful, attached, heard>>
  BY DEF Closed
<1>2. /\ fire \in [Fires -> {"idle", "running", "settling", "done"}]
      /\ heard \subseteq Fires /\ strays \subseteq Fires /\ open \in Nat
  BY <1>0 DEF Kinds
<1>3. /\ fire'[j] \in {"settling", "done"} /\ \A i \in Fires : i # j => fire'[i] = fire[i]
  BY <1>2
<1>4. ~Deaf /\ attached # "before"
  BY <1>0, <1>1 DEF HearsEnd, Deaf, Heard
<1>5. /\ open <= Cardinality(Overlapping)
      /\ Cardinality(Overlapping) <= open + Cardinality(strays)
  BY <1>0, <1>4 DEF Heard, CountIsExplained, Deaf
<1>6. Overlapping' = Overlapping \ {j}
  BY <1>1, <1>2, <1>3 DEF Overlapping
<1>7. /\ open' \in Nat
      /\ open' = IF open > 0 THEN open - 1 ELSE 0
  BY <1>1, <1>2 DEF OpenAfter
<1>8. /\ Cardinality(Overlapping) \in Nat /\ Cardinality(strays) \in Nat /\ Cardinality(heard) \in Nat
      /\ IsFiniteSet(Overlapping) /\ IsFiniteSet(strays)
  BY <1>0, HeardIsFinite
<1>9. /\ open' <= Cardinality(Overlapping')
      /\ Cardinality(Overlapping') <= open' + Cardinality(strays')
      /\ Cardinality(strays) <= Cardinality(strays')
      /\ strays' = {} => strays = {} /\ j \in Overlapping
  <2>1. CASE j \in heard
    <3>1. j \in Overlapping /\ strays' = strays
      BY <1>1, <2>1 DEF Overlapping
    <3>2. Cardinality(Overlapping') = Cardinality(Overlapping) - 1 /\ Cardinality(Overlapping') \in Nat
      BY <1>6, <1>8, <3>1, FS_RemoveElement, FS_CardinalityType
    <3> QED
      BY <1>2, <1>5, <1>7, <1>8, <3>1, <3>2
  <2>2. CASE j \notin heard
    <3>1. Overlapping' = Overlapping /\ strays' = strays \cup {j} /\ j \notin strays
      BY <1>0, <1>1, <1>6, <2>2 DEF Overlapping, Heard
    <3>2. Cardinality(strays') = Cardinality(strays) + 1
      BY <1>8, <3>1, FS_AddElement
    <3> QED
      BY <1>2, <1>5, <1>7, <1>8, <3>1, <3>2
  <2> QED
    BY <2>1, <2>2
<1>10. Heard'
  <2>1. /\ \A i \in heard' : fire'[i] # "idle"
        /\ \A i \in strays' : i \notin heard' /\ fire'[i] \in {"settling", "done"}
    BY <1>0, <1>1, <1>2, <1>3 DEF Heard
  <2>2. open' <= Cardinality(heard')
    BY <1>0, <1>1, <1>2, <1>7, <1>8 DEF Heard
  <2>3. ~eventful' => strays' = {}
    BY <1>0, <1>1 DEF Heard, HearsEnd
  <2>4. CountIsExplained'
    BY <1>9 DEF CountIsExplained
  <2> QED
    BY <1>1, <1>4, <2>1, <2>2, <2>3, <2>4 DEF Heard
<1> QED
  BY <1>1, <1>2, <1>4, <1>6, <1>7, <1>9, <1>10

\* What the history says of an execution that throws: nothing else changes in it.
LEMMA ThrewGrows ==
  ASSUME Kinds, NEW j \in Fires, NEW threwNow \in BOOLEAN,
         threw' = (IF threwNow THEN Append(threw, j) ELSE threw), UNCHANGED spanOf
  PROVE  /\ threw' \in Seq(Fires)
         /\ \A i \in 1..Len(threw') : threw'[i] = j \/ (i \in 1..Len(threw) /\ threw'[i] = threw[i])
         /\ \A i \in Fires : Threw(i)' <=> Threw(i) \/ (threwNow /\ i = j)
         /\ \A r \in Runs, i \in Fires : First(r, i) => First(r, i)'
         /\ \A r \in Runs : (threwNow /\ spanOf[j] = r /\ ~\E i \in Members(r) : Threw(i)) => First(r, j)'
<1>1. threw \in Seq(Fires) /\ Len(threw) \in Nat
  BY DEF Kinds
<1>2. CASE threwNow
  <2>1. /\ threw' = Append(threw, j) /\ Len(threw') = Len(threw) + 1
        /\ \A i \in 1..Len(threw) : threw'[i] = threw[i]
        /\ threw'[Len(threw) + 1] = j /\ threw' \in Seq(Fires)
    BY <1>1, <1>2
  <2>2. \A i \in 1..Len(threw') : i \in 1..Len(threw) \/ i = Len(threw) + 1
    BY <1>1, <2>1
  <2>3. 1..Len(threw) \subseteq 1..Len(threw') /\ Len(threw) + 1 \in 1..Len(threw')
    BY <1>1, <2>1
  <2>4. \A i \in Fires : Threw(i)' <=> Threw(i) \/ i = j
    BY <1>2, <2>1, <2>2, <2>3 DEF Threw
  <2>5. ASSUME NEW r \in Runs, NEW i \in Fires, First(r, i) PROVE First(r, i)'
    <3>1. PICK n \in 1..Len(threw) : /\ i = threw[n] /\ spanOf[threw[n]] = r
                                     /\ \A k \in 1..(n - 1) : spanOf[threw[k]] # r
      BY <2>5 DEF First
    <3>2. \A k \in 1..(n - 1) : k \in 1..Len(threw)
      BY <1>1
    <3>3. n \in 1..Len(threw') /\ threw'[n] = i /\ \A k \in 1..(n - 1) : spanOf[threw'[k]] # r
      BY <2>1, <2>3, <3>1, <3>2
    <3> QED
      BY <3>1, <3>3 DEF First
  <2>6. ASSUME NEW r \in Runs, spanOf[j] = r, ~\E i \in Members(r) : Threw(i) PROVE First(r, j)'
    <3>1. \A k \in 1..Len(threw) : spanOf[threw[k]] # r
      BY <1>1, <2>6 DEF Members, Threw
    <3>2. \A k \in 1..(Len(threw) + 1 - 1) : k \in 1..Len(threw)
      BY <1>1
    <3>3. \A k \in 1..(Len(threw) + 1 - 1) : spanOf[threw'[k]] # r
      BY <2>1, <3>1, <3>2
    <3> QED
      BY <2>1, <2>3, <2>6, <3>3 DEF First
  <2> QED
    BY <1>2, <2>1, <2>2, <2>4, <2>5, <2>6
<1>3. CASE ~threwNow
  <2>1. threw' = threw
    BY <1>3
  <2> QED
    BY <1>1, <1>3, <2>1 DEF Threw, First
<1> QED
  BY <1>2, <1>3

\* What is left running of a run when it is ended is written down, and is no
\* more than the ends heard so far of executions whose beginning was missed.
LEMMA EndSpans ==
  ASSUME AInv, NEW j \in Fires, NEW threwNow \in BOOLEAN, Closed(j, threwNow),
         KeepsOpen(j, threwNow) \/ EndsRun(j, threwNow),
         \A q \in Runs : terminal'[q] # terminal[q] => q = run /\ EndsRun(j, threwNow) /\ terminal'[q] # "none",
         \A q \in Runs : stage[<<q, "start">>] # "unsent" => stage'[<<q, "start">>] # "unsent",
         KeepsOpen(j, threwNow) => UNCHANGED clientVars
  PROVE  Spanned' /\ early' \in [Runs -> SUBSET Fires]
<1>0. /\ Kinds /\ Heard /\ Spanned
      /\ fire' = [fire EXCEPT ![j] = "done"] \/ fire' = [fire EXCEPT ![j] = "settling"]
  BY DEF AInv, KeepsOpen, EndsRun
<1>1. /\ early' = [r \in Runs |->
                     IF terminal[r] = "none" /\ terminal'[r] # "none"
                       THEN {i \in Members(r) : fire'[i] = "running"}
                       ELSE early[r]]
      /\ UNCHANGED <<runs, spanOf, eventful, attached, heard>>
      /\ open' = OpenAfter
  BY DEF Closed
<1>2. /\ fire \in [Fires -> {"idle", "running", "settling", "done"}]
      /\ early \in [Runs -> SUBSET Fires] /\ spanOf \in [Fires -> Runs \cup {0}]
      /\ strays \in SUBSET Fires
  BY <1>0 DEF Kinds
<1>3. /\ open' \in Nat /\ strays' \in SUBSET Fires
      /\ Overlapping' = Overlapping \ {j}
      /\ Cardinality(Overlapping') <= open' + Cardinality(strays')
      /\ Cardinality(strays) <= Cardinality(strays')
      /\ strays' = {} => strays = {} /\ j \in Overlapping /\ ~Deaf
  BY <1>0, EndCounts
<1>4. \A r \in Runs : Members(r)' = Members(r) /\ Members(r) \subseteq Fires
  BY <1>1 DEF Members
<1>5. fire'[j] # "running" /\ \A i \in Fires : i # j => fire'[i] = fire[i]
  BY <1>0, <1>2
<1>6. early' \in [Runs -> SUBSET Fires]
  BY <1>1, <1>2, <1>4
<1>7. \A i \in Fires : spanOf'[i] # 0 =>
        i \in heard' /\ spanOf'[i] <= runs' /\ stage'[<<spanOf'[i], "start">>] # "unsent"
  BY <1>0, <1>1, <1>2 DEF Spanned
<1>8. strays' = {} /\ ~Deaf' => \A i \in Overlapping' : spanOf'[i] = run'
  <2> SUFFICES ASSUME strays' = {}, NEW i \in Overlapping' PROVE spanOf[i] = run'
    BY <1>1
  <2>1. spanOf[i] = run /\ i \in Overlapping
    BY <1>0, <1>3 DEF Spanned
  <2>2. CASE KeepsOpen(j, threwNow)
    BY <2>1, <2>2 DEF KeepsOpen
  <2>3. CASE EndsRun(j, threwNow)
    <3>1. open' = 0 /\ Cardinality(strays') = 0
      BY <1>1, <2>3, FS_EmptySet DEF EndsRun
    <3>2. IsFiniteSet(Overlapping') /\ Cardinality(Overlapping') \in Nat
      BY <1>0, <1>3, HeardIsFinite, FS_RemoveElement, FS_Subset, FS_CardinalityType
    <3>3. Overlapping' = {}
      BY <1>3, <3>1, <3>2, FS_EmptySet
    <3> QED
      BY <3>3
  <2> QED
    BY <2>2, <2>3
<1>9. ASSUME NEW r \in Runs
      PROVE  /\ terminal'[r] # "none" => {i \in Members(r)' : fire'[i] = "running"} \subseteq early'[r]
             /\ terminal'[r] = "none" => early'[r] = {}
             /\ Cardinality(early'[r]) <= Cardinality(strays')
  <2>0. /\ Cardinality(early[r]) <= Cardinality(strays)
        /\ Cardinality(early[r]) \in Nat /\ Cardinality(strays) \in Nat
        /\ IsFiniteSet(strays') /\ Cardinality(strays') \in Nat
    BY <1>0, <1>3, HeardIsFinite, FiresAssumption, FS_Subset, FS_CardinalityType DEF Spanned, EndedEarlyForACause
  <2>1. CASE terminal[r] = "none" /\ terminal'[r] # "none"
    <3>1. early'[r] = {i \in Members(r) : fire'[i] = "running"}
      BY <1>1, <2>1
    <3>2. open' = 0
      BY <1>1, <2>1 DEF EndsRun
    <3>3. early'[r] \subseteq Overlapping'
      <4>1. \A i \in Members(r) : i \in heard /\ i \in Fires
        BY <1>0, RunsAreNumbers DEF Spanned, Members
      <4> QED
        BY <1>1, <3>1, <4>1 DEF Overlapping
    <3>4. IsFiniteSet(Overlapping') /\ Cardinality(Overlapping') \in Nat
      BY <1>0, <1>3, HeardIsFinite, FS_RemoveElement, FS_Subset, FS_CardinalityType
    <3>5. Cardinality(early'[r]) <= Cardinality(Overlapping') /\ Cardinality(early'[r]) \in Nat
      BY <3>3, <3>4, FS_Subset, FS_CardinalityType
    <3> QED
      BY <1>3, <1>4, <2>0, <2>1, <3>1, <3>2, <3>4, <3>5
  <2>2. CASE ~(terminal[r] = "none" /\ terminal'[r] # "none")
    <3>1. early'[r] = early[r] /\ (terminal'[r] # "none" <=> terminal[r] # "none")
      BY <1>1, <2>2
    <3>2. {i \in Members(r) : fire'[i] = "running"} \subseteq {i \in Members(r) : fire[i] = "running"}
      BY <1>4, <1>5
    <3>3. Cardinality(early'[r]) <= Cardinality(strays')
      BY <1>3, <2>0, <3>1
    <3> QED
      BY <1>0, <1>4, <3>1, <3>2, <3>3 DEF Spanned
  <2> QED
    BY <2>1, <2>2
<1> QED
  BY <1>6, <1>7, <1>8, <1>9 DEF Spanned, EndedEarlyForACause

LEMMA EndKeeps == ASSUME AInv, NEW j \in Fires, NEW threwNow \in BOOLEAN, EndHeard(j, threwNow) PROVE AInv'
<1>0. /\ Typed /\ Covered /\ Ended /\ Kinds /\ Ordered /\ Heard /\ Spanned /\ Blamed /\ Awaited
      /\ Closed(j, threwNow) /\ (KeepsOpen(j, threwNow) \/ EndsRun(j, threwNow))
      /\ fire' = [fire EXCEPT ![j] = "done"] \/ fire' = [fire EXCEPT ![j] = "settling"]
  BY EndIsOneOf DEF AInv, KeepsOpen, EndsRun
<1>1. /\ fire[j] = "running" /\ open' = OpenAfter
      /\ threw' = (IF threwNow THEN Append(threw, j) ELSE threw)
      /\ UNCHANGED <<runs, spanOf, eventful, attached, drain, heard>>
  BY <1>0 DEF Closed
<1>2. /\ fire \in [Fires -> {"idle", "running", "settling", "done"}]
      /\ awaits \in [Fires -> Runs \cup {0}] /\ cause \in [Runs -> Fires \cup {NoFire}]
      /\ run \in Runs \cup {0} /\ failed \in BOOLEAN /\ failure \in Fires \cup {NoFire}
      /\ terminal \in [Runs -> Terminals \cup {"none"}]
      /\ stage \in [CheckIns -> {"unsent", "inFlight", "settled"}]
  BY <1>0 DEF Kinds, Typed
<1>3. /\ fire' \in [Fires -> {"idle", "running", "settling", "done"}]
      /\ fire'[j] \in {"settling", "done"} /\ \A i \in Fires : i # j => fire'[i] = fire[i]
  BY <1>0, <1>2
<1>4. /\ Heard' /\ open' \in Nat /\ strays' \in SUBSET Fires
      /\ strays' = {} => strays = {} /\ j \in Overlapping /\ ~Deaf
  BY <1>0, EndCounts
<1>5. \A r \in Runs : Members(r)' = Members(r) /\ Members(r) \subseteq Fires
  BY <1>1 DEF Members
<1>6. /\ threw' \in Seq(Fires)
      /\ \A i \in 1..Len(threw') : threw'[i] = j \/ (i \in 1..Len(threw) /\ threw'[i] = threw[i])
      /\ \A i \in Fires : Threw(i)' <=> Threw(i) \/ (threwNow /\ i = j)
      /\ \A r \in Runs, i \in Fires : First(r, i) => First(r, i)'
      /\ \A r \in Runs : (threwNow /\ spanOf[j] = r /\ ~\E i \in Members(r) : Threw(i)) => First(r, j)'
  BY <1>0, <1>1, ThrewGrows
<1>7. \A i \in 1..Len(threw') : fire'[threw'[i]] \in {"settling", "done"}
  <2>1. threw \in Seq(Fires)
    BY <1>0 DEF Kinds
  <2>2. \A i \in 1..Len(threw) : threw[i] \in Fires /\ fire[threw[i]] \in {"settling", "done"}
    BY <1>0, <2>1 DEF Blamed
  <2> QED
    BY <1>3, <1>6, <2>2
<1>8. strays' = {} => spanOf[j] = run
  BY <1>0, <1>4 DEF Spanned
<1>9. FirstFailure(j, threwNow) \in Fires \cup {NoFire} /\ Failed(threwNow) \in BOOLEAN
  BY <1>2 DEF FirstFailure, Failed
<1>10. ASSUME strays' = {}, NEW r \in Runs, r = run
       PROVE  /\ Failed(threwNow) <=> \E i \in Members(r)' : Threw(i)'
              /\ Failed(threwNow) => /\ FirstFailure(j, threwNow) \in Fires
                                     /\ \A i \in Fires : i = FirstFailure(j, threwNow) => First(r, i)'
  <2>1. /\ failed <=> \E i \in Members(r) : Threw(i)
        /\ failed => First(r, failure)
    BY <1>0, <1>4, <1>10, RunsAreNumbers DEF Blamed
  <2>2. j \in Members(r)
    BY <1>8, <1>10 DEF Members
  <2>3. Failed(threwNow) <=> \E i \in Members(r)' : Threw(i)'
    BY <1>5, <1>6, <2>1, <2>2 DEF Failed
  <2>4. CASE failed
    <3>1. FirstFailure(j, threwNow) = failure
      BY <2>4 DEF FirstFailure
    <3>2. failure \in Fires
      BY <1>0, <2>1, <2>4 DEF First, Kinds
    <3> QED
      BY <1>6, <2>1, <2>3, <2>4, <3>1, <3>2
  <2>5. CASE ~failed /\ threwNow
    <3>1. FirstFailure(j, threwNow) = j
      BY <2>5 DEF FirstFailure
    <3> QED
      BY <1>6, <1>8, <1>10, <2>1, <2>3, <2>5, <3>1
  <2>6. CASE ~failed /\ ~threwNow
    BY <2>3, <2>6 DEF Failed
  <2> QED
    BY <2>4, <2>5, <2>6
<1>11. ASSUME strays' = {}, NEW r \in Runs, r # run, terminal[r] # "none"
       PROVE  /\ terminal[r] = "fail" <=> \E i \in Members(r)' : Threw(i)'
              /\ terminal[r] = "fail" => cause[r] \in Fires /\ \A i \in Fires : i = cause[r] => First(r, i)'
  <2>1. /\ terminal[r] = "fail" <=> \E i \in Members(r) : Threw(i)
        /\ terminal[r] = "fail" => First(r, cause[r])
    BY <1>0, <1>4, <1>11 DEF Blamed
  <2>2. j \notin Members(r)
    BY <1>8, <1>11 DEF Members
  <2>3. First(r, cause[r]) => cause[r] \in Fires
    BY <1>0 DEF First, Kinds
  <2> QED
    BY <1>5, <1>6, <2>1, <2>2, <2>3
<1>12. CASE KeepsOpen(j, threwNow)
  <2>1. /\ OpenAfter = 0 => run = 0
        /\ run' = run
        /\ failed' = Failed(threwNow) /\ failure' = FirstFailure(j, threwNow)
        /\ UNCHANGED <<awaits, cause, stage, inFlight, terminal, warned, flush, before, spoken, reported>>
        /\ UNCHANGED clientVars
    BY <1>12 DEF KeepsOpen, clientVars
  <2>2. Typed' /\ Covered' /\ Ended'
    BY <1>0, <2>1 DEF Typed, Covered, Ended
  <2>3. Ordered'
    BY <1>0, <1>1, <2>1 DEF Ordered
  <2>4. Spanned' /\ early' \in [Runs -> SUBSET Fires]
    BY <1>0, <2>1, EndSpans
  <2>5. Kinds'
    BY <1>0, <1>1, <1>2, <1>3, <1>4, <1>6, <1>9, <2>1, <2>4 DEF Kinds
  <2>6. Awaited'
    <3>1. \A i \in Fires : fire'[i] \in {"idle", "running"} => awaits'[i] = 0
      BY <1>0, <1>3, <2>1 DEF Awaited
    <3>2. ASSUME NEW r \in Runs, terminal[r] # "none", strays' = {}
          PROVE  \E i \in Members(r)' : /\ awaits'[i] = r
                                        /\ fire'[i] = "done" => stage'[<<r, terminal[r]>>] = "settled"
      <4>1. PICK i \in Members(r) : /\ awaits[i] = r
                                    /\ fire[i] = "done" => stage[<<r, terminal[r]>>] = "settled"
        BY <1>0, <1>4, <3>2 DEF Awaited
      <4>2. i # j /\ i \in Fires
        BY <1>0, <1>1, <1>5, <4>1, RunsAreNumbers DEF Awaited
      <4> QED
        BY <1>3, <1>5, <2>1, <4>1, <4>2
    <3> QED
      BY <2>1, <3>1, <3>2 DEF Awaited
  <2>7. Blamed'
    <3>1. ASSUME strays' = {}, run' # 0
          PROVE  /\ failed' <=> \E i \in Members(run)' : Threw(i)'
                 /\ failed' => First(run, failure)'
      <4>1. PICK r \in Runs : r = run /\ r = run'
        BY <1>2, <2>1, <3>1
      <4>2. /\ failed' <=> \E i \in Members(r)' : Threw(i)'
            /\ failed' => failure' \in Fires /\ \A i \in Fires : i = failure' => First(r, i)'
        BY <1>10, <2>1, <3>1, <4>1
      <4>3. Members(run)' = Members(r)'
        BY <4>1 DEF Members
      <4>4. ASSUME NEW i \in Fires, i = failure', First(r, i)' PROVE First(run, failure)'
        BY <4>1, <4>4 DEF First
      <4> QED
        BY <4>2, <4>3, <4>4
    <3>2. ASSUME strays' = {}, NEW r \in Runs
          PROVE  /\ terminal[r] # "none" => (terminal[r] = "fail" <=> \E i \in Members(r)' : Threw(i)')
                 /\ terminal[r] = "fail" => First(r, cause[r])'
      <4>1. terminal[r] # "none" => r # run
        BY <1>0, RunsAreNumbers DEF Ordered
      <4>2. ASSUME NEW i \in Fires, i = cause[r], First(r, i)' PROVE First(r, cause[r])'
        BY <2>1, <4>2 DEF First
      <4> QED
        BY <1>11, <3>2, <4>1, <4>2
    <3> QED
      BY <1>7, <2>1, <3>1, <3>2 DEF Blamed
  <2> QED
    BY <1>4, <2>2, <2>3, <2>4, <2>5, <2>6, <2>7 DEF AInv
<1>13. CASE EndsRun(j, threwNow)
  <2>0. PICK q \in Runs : q = run
    BY <1>2, <1>13 DEF EndsRun
  <2>1. /\ OpenAfter = 0 /\ run' = 0 /\ failed' = FALSE /\ failure' = NoFire
        /\ awaits' = [awaits EXCEPT ![j] = q]
        /\ cause' = [cause EXCEPT ![q] = FirstFailure(j, threwNow)]
        /\ fire' = [fire EXCEPT ![j] = "settling"]
    BY <1>13, <2>0 DEF EndsRun
  <2>2. PICK a \in Terminals :
          /\ a = (IF Failed(threwNow) THEN "fail" ELSE "success")
          /\ terminal' = [terminal EXCEPT ![run] = a]
          /\ stage' = [stage EXCEPT ![<<run, a>>] = "inFlight"]
          /\ stage[<<run, a>>] = "unsent"
          /\ Typed' /\ Covered' /\ Ended' /\ Ordered'
          /\ UNCHANGED <<warned, spoken, reported>>
    BY <1>1, <1>13, EndsInOrder
  <2>3. <<q, a>> \in CheckIns /\ a # "none" /\ <<q, a>> # <<q, "start">> /\ q \in Nat /\ q # 0
    BY CheckInsArePairs, RunsAreNumbers
  <2>4. /\ terminal'[q] = a /\ \A r \in Runs : r # q => terminal'[r] = terminal[r]
        /\ \A c \in CheckIns : c # <<q, a>> => stage'[c] = stage[c]
        /\ stage'[<<q, a>>] = "inFlight" /\ stage[<<q, a>>] = "unsent"
    BY <1>2, <2>0, <2>2, <2>3
  <2>5. terminal[q] = "none"
    BY <1>0, <2>0, <2>3 DEF Ordered
  <2>6. Spanned' /\ early' \in [Runs -> SUBSET Fires]
    <3>1. \A r \in Runs : terminal'[r] # terminal[r] => r = run /\ EndsRun(j, threwNow) /\ terminal'[r] # "none"
      BY <1>13, <2>0, <2>3, <2>4
    <3>2. \A r \in Runs : stage[<<r, "start">>] # "unsent" => stage'[<<r, "start">>] # "unsent"
      BY <2>4, CheckInsArePairs
    <3>3. ~KeepsOpen(j, threwNow)
      BY <2>0, <2>1, <2>3 DEF KeepsOpen
    <3> QED
      BY <1>0, <1>13, <3>1, <3>2, <3>3, EndSpans
  <2>7. Kinds'
    <3>1. /\ awaits' \in [Fires -> Runs \cup {0}] /\ cause' \in [Runs -> Fires \cup {NoFire}]
          /\ run' \in Runs \cup {0} /\ failed' \in BOOLEAN /\ failure' \in Fires \cup {NoFire}
      BY <1>2, <1>9, <2>1
    <3>2. /\ warned' \in SUBSET Warnings /\ spoken' \in [Warnings -> Nat]
          /\ reported' \in SUBSET (Loud \X Monitors)
      BY <1>0, <2>2 DEF Kinds
    <3>3. /\ runs' \in Runs \cup {0} /\ spanOf' \in [Fires -> Runs \cup {0}] /\ eventful' \in BOOLEAN
          /\ attached' \in {"before", "on", "off"} /\ heard' \in SUBSET Fires
          /\ drain' \in [Flushers -> [at : {"idle", "asked", "drained"}, pending : SUBSET Fires]]
      BY <1>0, <1>1 DEF Kinds
    <3> QED
      BY <1>3, <1>4, <1>6, <2>6, <3>1, <3>2, <3>3 DEF Kinds
  <2>8. Awaited'
    <3>0. /\ awaits'[j] = q /\ fire'[j] = "settling"
          /\ \A i \in Fires : i # j => awaits'[i] = awaits[i]
      BY <1>2, <2>1
    <3>1. \A i \in Fires : fire'[i] \in {"idle", "running"} => awaits'[i] = 0
      BY <1>0, <1>3, <3>0 DEF Awaited
    <3>2. ASSUME NEW r \in Runs, terminal'[r] # "none", strays' = {}
          PROVE  \E i \in Members(r)' : /\ awaits'[i] = r
                                        /\ fire'[i] = "done" => stage'[<<r, terminal'[r]>>] = "settled"
      <4>1. CASE r = q
        <5>1. j \in Members(r)'
          BY <1>5, <1>8, <2>0, <3>2, <4>1 DEF Members
        <5> QED
          BY <3>0, <4>1, <5>1
      <4>2. CASE r # q
        <5>0. terminal'[r] = terminal[r] /\ <<r, terminal[r]>> \in CheckIns /\ <<r, terminal[r]>> # <<q, a>>
          BY <1>2, <2>4, <3>2, <4>2, CheckInsArePairs
        <5>1. PICK i \in Members(r) : /\ awaits[i] = r
                                      /\ fire[i] = "done" => stage[<<r, terminal[r]>>] = "settled"
          BY <1>0, <1>4, <3>2, <5>0 DEF Awaited
        <5>2. awaits[j] = 0 /\ i \in Fires
          BY <1>0, <1>1, <1>5 DEF Awaited
        <5>3. i # j
          BY <5>1, <5>2, RunsAreNumbers
        <5> QED
          BY <1>3, <1>5, <2>4, <3>0, <5>0, <5>1, <5>2, <5>3
      <4> QED
        BY <4>1, <4>2
    <3> QED
      BY <3>1, <3>2 DEF Awaited
  <2>9. Blamed'
    <3>1. ASSUME strays' = {}, NEW r \in Runs, terminal'[r] # "none"
          PROVE  /\ terminal'[r] = "fail" <=> \E i \in Members(r)' : Threw(i)'
                 /\ terminal'[r] = "fail" => First(r, cause[r])'
      <4>1. CASE r = q
        <5>1. cause'[r] = FirstFailure(j, threwNow)
          BY <1>2, <2>1, <4>1
        <5>2. terminal'[r] = "fail" <=> Failed(threwNow)
          BY <2>0, <2>2, <2>4, <4>1
        <5>3. ASSUME NEW i \in Fires, i = cause'[r], First(r, i)' PROVE First(r, cause[r])'
          BY <5>3 DEF First
        <5> QED
          BY <1>10, <2>0, <3>1, <4>1, <5>1, <5>2, <5>3
      <4>2. CASE r # q
        <5>1. terminal'[r] = terminal[r] /\ cause'[r] = cause[r]
          BY <1>2, <2>1, <2>4, <4>2
        <5>2. ASSUME NEW i \in Fires, i = cause'[r], First(r, i)' PROVE First(r, cause[r])'
          BY <5>2 DEF First
        <5> QED
          BY <1>11, <2>0, <3>1, <4>2, <5>1, <5>2
      <4> QED
        BY <4>1, <4>2
    <3> QED
      BY <1>7, <2>1, <3>1 DEF Blamed
  <2> QED
    BY <1>4, <2>2, <2>6, <2>7, <2>8, <2>9 DEF AInv
<1> QED
  BY <1>0, <1>12, <1>13

-----------------------------------------------------------------------------
(* What neither begins nor ends an execution that is counted.               *)

\* What a step must leave alone of the bracket, and may do to the rest of it, to
\* keep what the invariant says of the executions.
Aside ==
  /\ UNCHANGED <<open, run, runs, failed, failure, awaits, spanOf, threw, cause>>
  /\ UNCHANGED <<eventful, terminal, heard, strays, early>>
  /\ attached' \in {"before", "on", "off"} /\ (attached' = "before" => attached = "before")
  /\ attached = "off" => attached' = "off"
  /\ \A c \in CheckIns : /\ stage[c] = "unsent" <=> stage'[c] = "unsent"
                         /\ stage[c] = "settled" => stage'[c] = "settled"
  /\ fire' \in [Fires -> {"idle", "running", "settling", "done"}]
  /\ \A j \in Fires :
       \/ fire'[j] = fire[j]
       \/ fire[j] = "idle" /\ fire'[j] = "running" /\ attached # "on"
       \/ fire[j] = "running" /\ fire'[j] = "done" /\ ~HearsEnd(j)
       \/ /\ fire[j] = "settling" /\ fire'[j] = "done"
          /\ \A r \in Runs : awaits[j] = r /\ terminal[r] # "none"
                               => stage[<<r, terminal[r]>>] = "settled"

LEMMA AsideKeeps ==
  ASSUME AInv, Aside, Typed', Covered',
         warned' \in SUBSET Warnings, spoken' \in [Warnings -> Nat],
         reported' \in SUBSET (Loud \X Monitors),
         drain' \in [Flushers -> [at : {"idle", "asked", "drained"}, pending : SUBSET Fires]]
  PROVE  AInv'
<1>0. /\ Typed /\ Ended /\ Kinds /\ Ordered /\ Heard /\ Spanned /\ Blamed /\ Awaited
  BY DEF AInv
<1>1. /\ UNCHANGED <<open, run, runs, failed, failure, awaits, spanOf, threw, cause>>
      /\ UNCHANGED <<eventful, terminal, heard, strays, early>>
      /\ attached' \in {"before", "on", "off"} /\ (attached' = "before" => attached = "before")
      /\ attached = "off" => attached' = "off"
  BY DEF Aside
<1>2. \A c \in CheckIns : /\ stage[c] = "unsent" <=> stage'[c] = "unsent"
                          /\ stage[c] = "settled" => stage'[c] = "settled"
  BY DEF Aside
<1>3. /\ fire' \in [Fires -> {"idle", "running", "settling", "done"}]
      /\ fire \in [Fires -> {"idle", "running", "settling", "done"}]
      /\ heard \subseteq Fires
  BY <1>0 DEF Aside, Kinds
<1>4. ASSUME NEW j \in Fires
      PROVE  \/ fire'[j] = fire[j]
             \/ fire[j] = "idle" /\ fire'[j] = "running" /\ attached # "on"
             \/ fire[j] = "running" /\ fire'[j] = "done" /\ ~HearsEnd(j)
             \/ /\ fire[j] = "settling" /\ fire'[j] = "done"
                /\ \A r \in Runs : awaits[j] = r /\ terminal[r] # "none"
                                     => stage[<<r, terminal[r]>>] = "settled"
  BY DEF Aside
<1>5. \A j \in heard : /\ fire[j] # "idle" /\ fire'[j] # "idle"
                       /\ fire'[j] = "running" => fire[j] = "running"
                       /\ fire[j] = "running" /\ fire'[j] # "running" => Deaf'
  <2> SUFFICES ASSUME NEW j \in heard
               PROVE  /\ fire[j] # "idle" /\ fire'[j] # "idle"
                      /\ fire'[j] = "running" => fire[j] = "running"
                      /\ fire[j] = "running" /\ fire'[j] # "running" => Deaf'
    OBVIOUS
  <2>1. j \in Fires /\ fire[j] # "idle" /\ attached # "before"
    BY <1>0, <1>3 DEF Heard
  <2>2. ~HearsEnd(j) => Deaf /\ Deaf'
    BY <1>0, <1>1, <2>1 DEF HearsEnd, Deaf, Kinds
  <2> QED
    BY <1>4, <2>1, <2>2
<1>6. Overlapping' \subseteq Overlapping /\ (~Deaf' => Overlapping' = Overlapping)
  BY <1>1, <1>5 DEF Overlapping
<1>7. ~Deaf' => ~Deaf
  BY <1>1 DEF Deaf
<1>8. Kinds'
  <2>1. /\ warned' \in SUBSET Warnings /\ spoken' \in [Warnings -> Nat]
        /\ reported' \in SUBSET (Loud \X Monitors)
        /\ drain' \in [Flushers -> [at : {"idle", "asked", "drained"}, pending : SUBSET Fires]]
    OBVIOUS
  <2> QED
    BY <1>0, <1>1, <1>3, <2>1 DEF Kinds
<1>9. ASSUME NEW r \in Runs, NEW a \in Actions
      PROVE  /\ stage[<<r, a>>] = "unsent" <=> stage'[<<r, a>>] = "unsent"
             /\ stage[<<r, a>>] = "settled" => stage'[<<r, a>>] = "settled"
  BY <1>2, CheckInsArePairs
<1>10. Ended'
  BY <1>0, <1>1, <1>9, CheckInsArePairs DEF Ended
<1>11. \A r \in Runs : terminal[r] # "none" => terminal[r] \in Actions
  BY <1>0, CheckInsArePairs DEF Typed
<1>12. Ordered'
  BY <1>0, <1>1, <1>9, <1>11, CheckInsArePairs DEF Ordered
<1>13. Heard'
  <2>1. \A j \in strays' : j \notin heard' /\ fire'[j] \in {"settling", "done"}
    BY <1>0, <1>1, <1>4 DEF Heard, Kinds
  <2>2. CountIsExplained'
    BY <1>0, <1>1, <1>6, <1>7 DEF Heard, CountIsExplained, Deaf
  <2> QED
    BY <1>0, <1>1, <1>5, <2>1, <2>2 DEF Heard
<1>14. Spanned'
  <2>1. \A j \in Fires : spanOf'[j] # 0 =>
          j \in heard' /\ spanOf'[j] <= runs' /\ stage'[<<spanOf'[j], "start">>] # "unsent"
    BY <1>0, <1>1, <1>9, CheckInsArePairs DEF Spanned, Kinds
  <2>2. strays' = {} /\ ~Deaf' => \A j \in Overlapping' : spanOf'[j] = run'
    BY <1>0, <1>1, <1>6, <1>7 DEF Spanned
  <2>3. \A r \in Runs : Members(r)' = Members(r) /\ Members(r) \subseteq heard
    BY <1>0, <1>1, RunsAreNumbers DEF Members, Spanned
  <2>4. \A r \in Runs : terminal'[r] # "none" => {j \in Members(r)' : fire'[j] = "running"} \subseteq early'[r]
    BY <1>0, <1>1, <1>5, <2>3 DEF Spanned
  <2>5. EndedEarlyForACause' /\ \A r \in Runs : terminal'[r] = "none" => early'[r] = {}
    BY <1>0, <1>1 DEF Spanned, EndedEarlyForACause
  <2> QED
    BY <2>1, <2>2, <2>4, <2>5 DEF Spanned
<1>15. Blamed'
  <2>1. \A i \in 1..Len(threw) : threw[i] \in Fires /\ fire[threw[i]] \in {"settling", "done"}
    BY <1>0 DEF Kinds, Blamed
  <2>2. \A i \in 1..Len(threw') : fire'[threw'[i]] \in {"settling", "done"}
    BY <1>1, <1>4, <2>1
  <2>3. strays' = {} =>
          /\ run' # 0 => (failed' <=> \E j \in Members(run)' : Threw(j)')
          /\ run' # 0 /\ failed' => First(run, failure)'
          /\ \A r \in Runs : terminal'[r] # "none" => (terminal'[r] = "fail" <=> \E j \in Members(r)' : Threw(j)')
          /\ \A r \in Runs : terminal'[r] = "fail" => First(r, cause[r])'
    BY <1>0, <1>1 DEF Blamed, Members, Threw, First
  <2> QED
    BY <2>2, <2>3 DEF Blamed
<1>16. Awaited'
  <2>1. \A j \in Fires : fire'[j] \in {"idle", "running"} => awaits'[j] = 0
    BY <1>0, <1>1, <1>3, <1>4 DEF Awaited
  <2>2. ASSUME NEW r \in Runs, terminal[r] # "none", strays = {}
        PROVE  \E j \in Members(r)' : /\ awaits'[j] = r
                                      /\ fire'[j] = "done" => stage'[<<r, terminal[r]>>] = "settled"
    <3>1. PICK j \in Members(r) : /\ awaits[j] = r
                                  /\ fire[j] = "done" => stage[<<r, terminal[r]>>] = "settled"
      BY <1>0, <2>2 DEF Awaited
    <3>2. j \in Fires /\ j \in Members(r)' /\ awaits'[j] = r
      BY <1>1, <3>1 DEF Members
    <3>3. fire[j] # "running" /\ fire[j] # "idle"
      BY <1>0, <3>1, <3>2, RunsAreNumbers DEF Awaited
    <3>4. stage[<<r, terminal[r]>>] = "settled" => stage'[<<r, terminal[r]>>] = "settled"
      BY <1>9, <1>11, <2>2
    <3>5. fire'[j] = "done" => stage[<<r, terminal[r]>>] = "settled"
      BY <1>4, <2>2, <3>1, <3>2, <3>3
    <3> QED
      BY <3>2, <3>4, <3>5
  <2> QED
    BY <1>1, <2>1, <2>2 DEF Awaited
<1> QED
  BY <1>8, <1>10, <1>12, <1>13, <1>14, <1>15, <1>16 DEF AInv

\* The adapter is attached or taken off, or its flush is asked for.
LEMMA AdapterKeeps ==
  ASSUME AInv, Attach \/ Detach \/ (\E f \in Flushers : FlushAsked(f)) PROVE AInv'
<1>0. /\ Typed /\ Covered /\ Kinds
  BY DEF AInv
<1>1. /\ UNCHANGED <<stage, inFlight, terminal, warned, flush, before, spoken, reported>>
      /\ UNCHANGED <<fire, open, run, failed, failure, awaits, runs, spanOf, threw, cause>>
      /\ UNCHANGED <<eventful, heard, strays, early>>
  BY DEF Attach, Detach, FlushAsked, vars, clientVars, bracketVars
<1>2. /\ attached' \in {"before", "on", "off"}
      /\ attached' = "before" => attached = "before"
      /\ attached = "off" => attached' = "off"
  BY <1>0 DEF Attach, Detach, FlushAsked, Kinds
<1>3. drain' \in [Flushers -> [at : {"idle", "asked", "drained"}, pending : SUBSET Fires]]
  <2>1. CASE Attach \/ Detach
    BY <1>0, <2>1 DEF Attach, Detach, Kinds
  <2>2. ASSUME NEW f \in Flushers, FlushAsked(f)
        PROVE  drain' \in [Flushers -> [at : {"idle", "asked", "drained"}, pending : SUBSET Fires]]
    <3> DEFINE pending == IF eventful THEN Held ELSE {}
    <3>1. pending \in SUBSET Fires
      BY DEF Held
    <3>2. drain' = [drain EXCEPT ![f] = [at |-> "asked", pending |-> pending]]
      BY <2>2 DEF FlushAsked
    <3> HIDE DEF pending
    <3> QED
      BY <1>0, <3>1, <3>2 DEF Kinds
  <2> QED
    BY <2>1, <2>2
<1>4. Typed' /\ Covered'
  BY <1>0, <1>1 DEF Typed, Covered
<1>5. Aside
  BY <1>0, <1>1, <1>2 DEF Aside, Kinds
<1>6. /\ warned' \in SUBSET Warnings /\ spoken' \in [Warnings -> Nat]
      /\ reported' \in SUBSET (Loud \X Monitors)
  BY <1>0, <1>1 DEF Kinds
<1> QED
  BY <1>3, <1>4, <1>5, <1>6, AsideKeeps

\* The scheduler runs what the adapter is not told of.
LEMMA UnseenKeeps ==
  ASSUME AInv, NEW j \in Fires, BeginUnheard(j) \/ EndUnheard(j) \/ Resumed(j) PROVE AInv'
<1>0. /\ Typed /\ Covered /\ Kinds /\ Ordered
  BY DEF AInv
<1>1. /\ UNCHANGED <<stage, inFlight, terminal, warned, flush, before, spoken, reported>>
      /\ UNCHANGED <<open, run, failed, failure, awaits, runs, spanOf, threw, cause>>
      /\ UNCHANGED <<eventful, attached, drain, heard, strays, early>>
  BY DEF BeginUnheard, EndUnheard, Unseen, Resumed, Return, clientVars, adapterVars
<1>2. fire \in [Fires -> {"idle", "running", "settling", "done"}]
  BY <1>0 DEF Kinds
<1>3. /\ fire' \in [Fires -> {"idle", "running", "settling", "done"}]
      /\ \A i \in Fires : i # j => fire'[i] = fire[i]
  BY <1>2 DEF BeginUnheard, EndUnheard, Unseen, Resumed, Return
<1>4. \/ fire[j] = "idle" /\ fire'[j] = "running" /\ attached # "on"
      \/ fire[j] = "running" /\ fire'[j] = "done" /\ ~HearsEnd(j)
      \/ fire[j] = "settling" /\ fire'[j] = "done" /\ Delivered(j)
  BY <1>2 DEF BeginUnheard, EndUnheard, Unseen, Resumed, Return, Due
<1>5. Delivered(j) =>
        \A r \in Runs : awaits[j] = r /\ terminal[r] # "none" => stage[<<r, terminal[r]>>] = "settled"
  <2> SUFFICES ASSUME Delivered(j), NEW r \in Runs, awaits[j] = r, terminal[r] # "none"
               PROVE  stage[<<r, terminal[r]>>] = "settled"
    OBVIOUS
  <2>1. terminal[r] \in Terminals /\ <<r, terminal[r]>> \in CheckIns
    BY <1>0, CheckInsArePairs DEF Typed
  <2>2. stage[<<r, terminal[r]>>] # "unsent" /\ stage[<<r, terminal[r]>>] # "inFlight"
    BY <1>0, <2>1 DEF Ordered, Delivered
  <2> QED
    BY <1>0, <2>1, <2>2 DEF Typed
<1>6. Typed' /\ Covered'
  BY <1>0, <1>1 DEF Typed, Covered
<1>7. Aside
  <2>1. \A i \in Fires :
          \/ fire'[i] = fire[i]
          \/ fire[i] = "idle" /\ fire'[i] = "running" /\ attached # "on"
          \/ fire[i] = "running" /\ fire'[i] = "done" /\ ~HearsEnd(i)
          \/ /\ fire[i] = "settling" /\ fire'[i] = "done"
             /\ \A r \in Runs : awaits[i] = r /\ terminal[r] # "none"
                                  => stage[<<r, terminal[r]>>] = "settled"
    BY <1>3, <1>4, <1>5
  <2>2. attached' \in {"before", "on", "off"}
    BY <1>0, <1>1 DEF Kinds
  <2> QED
    BY <1>1, <1>3, <2>1, <2>2 DEF Aside
<1>8. /\ warned' \in SUBSET Warnings /\ spoken' \in [Warnings -> Nat]
      /\ reported' \in SUBSET (Loud \X Monitors)
      /\ drain' \in [Flushers -> [at : {"idle", "asked", "drained"}, pending : SUBSET Fires]]
  BY <1>0, <1>1 DEF Kinds
<1> QED
  BY <1>6, <1>7, <1>8, AsideKeeps

\* The client's flush is taken or over.
LEMMA FlushKeeps ==
  ASSUME AInv, NEW f \in Flushers, Drained(f) \/ FlushOver(f) PROVE AInv'
<1>0. /\ Typed /\ Covered /\ Kinds
  BY DEF AInv
<1>1. /\ UNCHANGED <<stage, inFlight, terminal, warned, spoken, reported>>
      /\ UNCHANGED <<fire, open, run, failed, failure, awaits, runs, spanOf, threw, cause>>
      /\ UNCHANGED <<eventful, attached, heard, strays, early>>
  BY DEF Drained, FlushOver, FlushCall, FlushSettled, FlushExpired, bracketVars, adapterVars
<1>2. FlushCall(f) \/ FlushSettled(f) \/ FlushExpired(f)
  BY DEF Drained, FlushOver
<1>3. Typed' /\ Covered'
  BY <1>0, <1>2, FlushTracks
<1>4. drain' \in [Flushers -> [at : {"idle", "asked", "drained"}, pending : SUBSET Fires]]
  <2>1. CASE Drained(f)
    <3>1. drain' = [drain EXCEPT ![f] = [drain[f] EXCEPT !.at = "drained"]]
      BY <2>1 DEF Drained
    <3>2. drain[f] \in [at : {"idle", "asked", "drained"}, pending : SUBSET Fires]
      BY <1>0 DEF Kinds
    <3>3. [drain[f] EXCEPT !.at = "drained"] \in [at : {"idle", "asked", "drained"}, pending : SUBSET Fires]
      BY <3>2
    <3> QED
      BY <1>0, <3>1, <3>3 DEF Kinds
  <2>2. CASE FlushOver(f)
    BY <1>0, <2>2 DEF FlushOver, adapterVars, Kinds
  <2> QED
    BY <2>1, <2>2
<1>5. Aside
  BY <1>0, <1>1 DEF Aside, Kinds
<1>6. /\ warned' \in SUBSET Warnings /\ spoken' \in [Warnings -> Nat]
      /\ reported' \in SUBSET (Loud \X Monitors)
  BY <1>0, <1>1 DEF Kinds
<1> QED
  BY <1>3, <1>4, <1>5, <1>6, AsideKeeps

\* A check-in settles, and is said to have failed where nobody took that.
LEMMA NetworkKeeps ==
  ASSUME AInv, NEW c \in CheckIns, SettleCheckIn(c), UNCHANGED bracketVars, UNCHANGED adapterVars
  PROVE  AInv'
<1>0. /\ Typed /\ Covered /\ Kinds
  BY DEF AInv
<1>1. /\ UNCHANGED <<fire, open, run, failed, failure, awaits, runs, spanOf, threw, cause>>
      /\ UNCHANGED <<eventful, attached, drain, heard, strays, early, terminal>>
  BY DEF SettleCheckIn, bracketVars, adapterVars
<1>2. Typed' /\ Covered'
  BY <1>0, SettleTracks
<1>3. \A d \in CheckIns : /\ stage[d] = "unsent" <=> stage'[d] = "unsent"
                          /\ stage[d] = "settled" => stage'[d] = "settled"
  BY <1>0 DEF SettleCheckIn, Typed
<1>4. /\ warned' \in SUBSET Warnings /\ spoken' \in [Warnings -> Nat]
      /\ reported' \in SUBSET (Loud \X Monitors)
  <2>1. PICK outcome \in Outcomes :
          IF c[1] \in Sinks \/ outcome \in Quiet
            THEN UNCHANGED <<warned, spoken, reported>>
            ELSE /\ reported' = reported \cup {<<outcome, MonitorOf[c[1]]>>}
                 /\ WarnOnce(outcome, MonitorOf[c[1]])
    BY DEF SettleCheckIn
  <2>2. CASE UNCHANGED <<warned, spoken, reported>>
    BY <1>0, <2>2 DEF Kinds
  <2>3. CASE /\ outcome \in Loud
             /\ reported' = reported \cup {<<outcome, MonitorOf[c[1]]>>}
             /\ WarnOnce(outcome, MonitorOf[c[1]])
    <3>1. <<outcome, MonitorOf[c[1]]>> \in Loud \X Monitors
      BY <2>3, CheckInsArePairs
    <3>2. <<outcome, MonitorOf[c[1]]>> \in Warnings
      BY <3>1, LoudWarnings
    <3>3. warned' \in SUBSET Warnings /\ spoken' \in [Warnings -> Nat]
      BY <1>0, <2>3, <3>2, LedgerStays DEF Kinds
    <3> QED
      BY <1>0, <2>3, <3>1, <3>3 DEF Kinds
  <2> QED
    BY <2>1, <2>2, <2>3 DEF Outcomes
<1>5. Aside
  BY <1>0, <1>1, <1>3 DEF Aside, Kinds
<1>6. drain' \in [Flushers -> [at : {"idle", "asked", "drained"}, pending : SUBSET Fires]]
  BY <1>0, <1>1 DEF Kinds
<1> QED
  BY <1>2, <1>4, <1>5, <1>6, AsideKeeps

LEMMA NextAInv == AInv /\ [Next]_allVars => AInv'
<1> SUFFICES ASSUME AInv, [Next]_allVars PROVE AInv'
  OBVIOUS
<1>1. CASE UNCHANGED allVars
  BY <1>1 DEF allVars, vars, clientVars, bracketVars, adapterVars, AInv, Typed, Covered, Ended, Kinds,
              Ordered, Heard, CountIsExplained, Overlapping, Spanned, Deaf, Members, EndedEarlyForACause,
              Blamed, First, Threw, Awaited
<1>2. CASE Attach \/ Detach \/ (\E f \in Flushers : FlushAsked(f))
  BY <1>2, AdapterKeeps
<1>3. ASSUME NEW j \in Fires, BeginHeard(j) PROVE AInv'
  BY <1>3, BeginKeeps
<1>4. ASSUME NEW j \in Fires, NEW threwNow \in BOOLEAN, EndHeard(j, threwNow) PROVE AInv'
  BY <1>4, EndKeeps
<1>5. ASSUME NEW j \in Fires, BeginUnheard(j) \/ EndUnheard(j) \/ Resumed(j) PROVE AInv'
  BY <1>5, UnseenKeeps
<1>6. ASSUME NEW f \in Flushers, Drained(f) \/ FlushOver(f) PROVE AInv'
  BY <1>6, FlushKeeps
<1>7. CASE Network /\ UNCHANGED adapterVars
  BY <1>7, NetworkKeeps DEF Network
<1> QED
  BY <1>1, <1>2, <1>3, <1>4, <1>5, <1>6, <1>7 DEF Next

\* The invariant holds of every behaviour of an adapter, its scheduler and the client.
THEOREM BracketInvariant == Spec => []AInv
<1>1. AdapterInit => AInv
  BY InitAInv
<1>2. AInv /\ [Next]_allVars => AInv'
  BY NextAInv
<1> QED
  BY <1>1, <1>2, PTL DEF Spec

-----------------------------------------------------------------------------
\* The adapter's state is well typed: the count of open executions never exceeds
\* what the scheduler began.
LEMMA AdapterTyped == AInv => AdapterTypeOK
<1> SUFFICES ASSUME AInv PROVE AdapterTypeOK
  OBVIOUS
<1>0. /\ Typed /\ Kinds /\ Heard
  BY DEF AInv
<1>1. ClientTypeOK
  <2>1. \A f \in Flushers : /\ flush[f].at \in {"idle", "waiting", "flushed", "expired"}
                            /\ flush[f].pending \in SUBSET CheckIns
    BY <1>0 DEF Typed
  <2> QED
    BY <1>0, <2>1 DEF Typed, Kinds, ClientTypeOK
<1>2. open \in 0..Cardinality(Fires)
  <2>1. Cardinality(heard) <= Cardinality(Fires) /\ Cardinality(Fires) \in Nat
    BY <1>0, FiresAssumption, FS_Subset, FS_CardinalityType DEF Kinds
  <2>2. open <= Cardinality(heard) /\ open \in Nat /\ Cardinality(heard) \in Nat
    BY <1>0, HeardIsFinite DEF Heard, Kinds
  <2> QED
    BY <2>1, <2>2
<1>3. TypeOK
  BY <1>0, <1>1, <1>2 DEF Kinds, TypeOK
<1>4. strays \in SUBSET (Fires \ heard)
  BY <1>0 DEF Heard, Kinds
<1>5. \A f \in Flushers : /\ drain[f].at \in {"idle", "asked", "drained"}
                          /\ drain[f].pending \in SUBSET Fires
  BY <1>0 DEF Kinds
<1> QED
  BY <1>0, <1>3, <1>4, <1>5 DEF Kinds, AdapterTypeOK

\* Check-ins are dispatched bracket by bracket: a run is started only when the one
\* before has been ended, however the executions overlap and whenever the
\* adapter is attached or taken off.
THEOREM OneRunAtATime == Spec => []OneBracketDispatched
<1>1. AInv => OneBracketDispatched
  <2> SUFFICES ASSUME AInv, NEW r \in Runs, terminal[r] = "none", stage[<<r, "start">>] # "unsent"
               PROVE  r = runs /\ run = r
    BY DEF OneBracketDispatched
  <2>1. r = run
    BY DEF AInv, Ordered
  <2> QED
    BY <2>1, RunsAreNumbers DEF AInv, Ordered
<1> QED
  BY <1>1, BracketInvariant, PTL

\* With executions all heard from beginning to end, a run is reported for what
\* they did, when the last of them has ended, with the error of the first that
\* threw; with some cut off from their beginning, the count and the runs ended
\* early are off by no more than those.
THEOREM ReportsAreAlwaysTrue == Spec => []ReportsAreTrue
<1>1. AInv => ReportsAreTrue
  <2> SUFFICES ASSUME AInv PROVE ReportsAreTrue
    OBVIOUS
  <2>0. /\ Kinds /\ Heard /\ Spanned /\ Blamed
    BY DEF AInv
  <2>1. CountIsExplained /\ EndedEarlyForACause
    BY <2>0 DEF Heard, Spanned
  <2>2. ASSUME strays = {}, NEW r \in Runs, terminal[r] # "none", NEW j \in Members(r)
        PROVE  fire[j] \in {"settling", "done"}
    <3>1. Cardinality(strays) = 0 /\ Cardinality(early[r]) <= Cardinality(strays)
      BY <2>0, <2>2, FS_EmptySet DEF Spanned, EndedEarlyForACause
    <3>2. early[r] = {}
      BY <2>0, <3>1, HeardIsFinite, FS_EmptySet
    <3>3. j \in Fires /\ fire[j] # "running"
      BY <2>0, <2>2, <3>2 DEF Spanned, Members
    <3>4. fire[j] # "idle"
      BY <2>0, <2>2, <3>3, RunsAreNumbers DEF Spanned, Heard, Members
    <3> QED
      BY <2>0, <3>3, <3>4 DEF Kinds
  <2>3. strays = {} => RunTellsTheTruth
    BY <2>0, <2>2 DEF Blamed, RunTellsTheTruth
  <2>4. strays = {} => FirstErrorIsReported
    BY <2>0 DEF Blamed, First, FirstErrorIsReported
  <2> QED
    BY AdapterTyped, <2>1, <2>3, <2>4 DEF ReportsAreTrue
<1> QED
  BY <1>1, BracketInvariant, PTL

\* The last execution of a wrapped run returns to its scheduler only when the
\* run's terminal check-in has settled, and a flush no budget cut short covers
\* what was dispatched before it.
THEOREM SettledBeforeAnyExit == Spec => []SettledBeforeExit
<1>1. AInv => SettledBeforeExit
  <2> SUFFICES ASSUME AInv PROVE SettledBeforeExit
    OBVIOUS
  <2>0. /\ Typed /\ Kinds /\ Ordered /\ Heard /\ Spanned /\ Awaited
    BY DEF AInv
  <2>1. FlushCovers
    BY DEF AInv, Covered, FlushCovers
  <2>2. ASSUME ~eventful, NEW r \in Runs, Members(r) # {}, \A j \in Members(r) : fire[j] = "done"
        PROVE  \E a \in Terminals : stage[<<r, a>>] = "settled"
    <3>1. strays = {} /\ ~Deaf
      BY <2>0, <2>2 DEF Heard, Deaf
    <3>2. terminal[r] # "none"
      <4> SUFFICES ASSUME terminal[r] = "none" PROVE FALSE
        OBVIOUS
      <4>1. stage[<<r, "start">>] # "unsent"
        BY <2>0, <2>2, RunsAreNumbers DEF Spanned, Members
      <4>2. r = run /\ open # 0
        BY <2>0, <4>1, RunsAreNumbers DEF Ordered
      <4>3. Cardinality(Overlapping) # 0
        BY <2>0, <3>1, <4>2, HeardIsFinite DEF Heard, CountIsExplained, Deaf, Kinds
      <4>4. PICK j \in Overlapping : TRUE
        BY <4>3, FS_EmptySet
      <4>5. spanOf[j] = r /\ fire[j] = "running" /\ j \in Fires
        BY <2>0, <3>1, <4>2, <4>4 DEF Spanned, Overlapping, Kinds
      <4> QED
        BY <2>2, <4>5 DEF Members
    <3>3. stage[<<r, terminal[r]>>] = "settled"
      BY <2>0, <2>2, <3>1, <3>2 DEF Awaited
    <3> QED
      BY <2>0, <3>2, <3>3 DEF Typed
  <2> QED
    BY <2>1, <2>2 DEF SettledBeforeExit, ReturnedMeansReported
<1> QED
  BY <1>1, BracketInvariant, PTL

=============================================================================
