---------------------------- MODULE BullMqProofs ----------------------------
(***************************************************************************)
(* What the BullMQ adapter guarantees for any number of jobs, attempts,    *)
(* stalls, workers and reports: the queue learns nothing of a job on a     *)
(* schedule ahead of its check-in, nobody is alarmed for a job that may    *)
(* yet succeed or for one added by hand, and the starts of attempts that   *)
(* run at once do not interleave.                                          *)
(***************************************************************************)
EXTENDS BullMq, PingClientProofs

\* What a processor is doing.
Hands == [job : Jobs \cup {NoJob}, at : {"idle", "running", "reporting", "returned"},
          claim : BOOLEAN, report : Runs \cup {0}, begun : BOOLEAN, threw : BOOLEAN,
          started : Nat, made : Nat]

\* The queue, the workers and the ledger of the client hold values of their kind.
Kinds ==
  /\ warned \in SUBSET Warnings
  /\ spoken \in [Warnings -> Nat]
  /\ reported \in SUBSET (Loud \X Monitors)
  /\ wired \in Wirings
  /\ queue \in [Jobs -> {"waiting", "active", "completed", "failed", "abandoned"}]
  /\ started \in [Jobs -> Nat]
  /\ made \in [Jobs -> Nat]
  /\ stalled \in [Jobs -> Nat]
  /\ worker \in [Workers -> Hands]
  /\ runs \in Runs \cup {0}
  /\ jobOf \in [Runs -> Jobs \cup {NoJob}]

\* What was warned of was printed once.
Printed == \A v \in Warnings : spoken[v] = (IF v \in warned THEN 1 ELSE 0)

\* Whether a job holds an attempt that neither failed nor was handed out again.
AtHand(q) == IF q \in {"active", "completed", "abandoned"} THEN 1 ELSE 0

\* An attempt that was started has failed, was taken back, or is at hand.
Counted ==
  \A j \in Jobs :
    /\ started[j] = made[j] + stalled[j] + AtHand(queue[j])
    /\ stalled[j] <= Stalls
    /\ made[j] <= Attempts
    /\ made[j] = Attempts => queue[j] = "failed"

\* At most one worker has the claim to a job, and it is the one that was handed
\* it last; a worker without one goes on with a job that was taken from it.
Claimed ==
  \A w \in Workers :
    /\ worker[w].at = "idle" => worker[w] = Idle
    /\ worker[w].at # "idle" =>
         /\ w \in wired.processors /\ worker[w].job \in Jobs
         /\ worker[w].started > 0 /\ worker[w].started <= started[worker[w].job]
         /\ ~worker[w].claim => stalled[worker[w].job] > 0 \/ queue[worker[w].job] = "abandoned"
    /\ worker[w].claim =>
         /\ queue[worker[w].job] = "active" /\ worker[w].started = started[worker[w].job]
         /\ \A v \in Workers : v # w /\ worker[v].claim => worker[v].job # worker[w].job

\* A report that is not made yet has sent nothing and is about nothing, and none
\* is about a job that is on no schedule.
Numbered ==
  /\ \A r \in Runs : r > runs =>
       jobOf[r] = NoJob /\ terminal[r] = "none" /\ \A a \in Actions : stage[<<r, a>>] = "unsent"
  /\ \A r \in Runs : jobOf[r] # NoJob => OnSchedule(jobOf[r])

TerminalOf(threw) == IF threw THEN "fail" ELSE "success"

\* How far the worker w is with the report it makes, and that it is its own.
Reporting ==
  \A w \in Workers : worker[w].at # "idle" =>
    /\ worker[w].report = 0 <=> ~OnSchedule(worker[w].job)
    /\ worker[w].begun => WithStart
    /\ worker[w].report # 0 =>
         /\ worker[w].report <= runs /\ jobOf[worker[w].report] = worker[w].job
         /\ \A v \in Workers : v # w => worker[v].report # worker[w].report
         /\ worker[w].at = "running" =>
              /\ terminal[worker[w].report] = "none"
              /\ \A a \in Terminals : stage[<<worker[w].report, a>>] = "unsent"
              /\ worker[w].begun => stage[<<worker[w].report, "start">>] # "unsent"
         /\ worker[w].at = "reporting" =>
              stage[<<worker[w].report, TerminalOf(worker[w].threw)>>] # "unsent"
         /\ worker[w].at = "returned" => worker[w].threw /\ worker[w].started < Attempts
    /\ worker[w].at = "reporting" => worker[w].report # 0

\* A job that was reported failed and never taken back is on its last attempt, and
\* whoever has the claim to it is about to tell the queue so.
Final ==
  \A r \in Runs : stage[<<r, "fail">>] # "unsent" /\ jobOf[r] # NoJob /\ stalled[jobOf[r]] = 0 =>
    /\ made[jobOf[r]] >= Attempts - 1
    /\ queue[jobOf[r]] \notin {"waiting", "completed"}
    /\ \A w \in Workers : worker[w].claim /\ worker[w].job = jobOf[r] =>
         worker[w].at = "reporting" /\ worker[w].threw

\* What the queue holds a job on a schedule to have come to was reported.
Concluded ==
  \A j \in Jobs : OnSchedule(j) =>
    /\ queue[j] = "completed" => Settled(j, "success")
    /\ queue[j] = "failed" => Settled(j, "fail")

\* A job on no schedule that was started has been warned of.
Advised ==
  \A j \in Jobs : ~OnSchedule(j) /\ started[j] > 0 => <<"bullmq-one-off", TheMonitor>> \in warned

BInv ==
  /\ Typed /\ Covered
  /\ Kinds /\ Printed /\ Counted /\ Claimed /\ Numbered /\ Reporting /\ Final /\ Concluded /\ Advised

-----------------------------------------------------------------------------
(* The operators.                                                           *)

LEMMA RunsAreNumbers ==
  /\ Runs \subseteq Nat /\ 0 \notin Runs
  /\ \A m \in Monitors : <<"bullmq-one-off", m>> \in Warnings
  /\ TheMonitor \in Monitors
<1>1. Monitors # {}
  BY RunsAssumption DEF Monitors
<1>2. TheMonitor \in Monitors
  BY <1>1 DEF TheMonitor
<1> QED
  BY <1>2, RunsAssumption DEF Warnings, Subjects

\* A warning that is asked for has been printed, once, and no other is printed.
LEMMA PrintsOnce ==
  ASSUME warned \in SUBSET Warnings, spoken \in [Warnings -> Nat], Printed,
         NEW subject, NEW monitor, <<subject, monitor>> \in Warnings, WarnOnce(subject, monitor)
  PROVE  /\ warned' \in SUBSET Warnings /\ spoken' \in [Warnings -> Nat] /\ Printed'
         /\ warned \subseteq warned' /\ <<subject, monitor>> \in warned'
<1>1. CASE <<subject, monitor>> \in warned
  BY <1>1 DEF WarnOnce, Printed
<1>2. CASE <<subject, monitor>> \notin warned
  <2> DEFINE w == <<subject, monitor>>
  <2>1. /\ w \in Warnings /\ w \notin warned
        /\ warned' = warned \cup {w} /\ spoken' = [spoken EXCEPT ![w] = spoken[w] + 1]
    BY <1>2 DEF WarnOnce
  <2> HIDE DEF w
  <2>2. spoken[w] = 0
    BY <2>1 DEF Printed
  <2>3. warned' \in SUBSET Warnings /\ spoken' \in [Warnings -> Nat] /\ w \in warned'
    BY <2>1
  <2>4. Printed'
    BY <2>1, <2>2 DEF Printed
  <2> QED
    BY <2>1, <2>3, <2>4 DEF w
<1> QED
  BY <1>1, <1>2

LEMMA IdleIsAHand == Idle \in Hands /\ Idle.at = "idle" /\ ~Idle.claim /\ Idle.report = 0 /\ ~Idle.begun
BY DEF Idle, Hands

LEMMA InitBInv == Init => BInv
<1> SUFFICES ASSUME Init PROVE BInv
  OBVIOUS
<1>1. Typed /\ Covered
  BY InitCInv DEF Init, CInv, Core
<1>2. /\ stage = [c \in CheckIns |-> "unsent"] /\ terminal = [r \in Runs |-> "none"]
      /\ warned = {} /\ spoken = [v \in Warnings |-> 0] /\ reported = {}
      /\ wired \in Wirings /\ queue = [j \in Jobs |-> "waiting"]
      /\ started = [j \in Jobs |-> 0] /\ made = [j \in Jobs |-> 0] /\ stalled = [j \in Jobs |-> 0]
      /\ worker = [w \in Workers |-> Idle] /\ runs = 0 /\ jobOf = [r \in Runs |-> NoJob]
  BY DEF Init, ClientInit
<1>3. Kinds
  BY <1>2, IdleIsAHand DEF Kinds
<1>4. Printed /\ Advised
  BY <1>2 DEF Printed, Advised
<1>5. Counted
  BY <1>2, NumbersAssumption DEF Counted, AtHand
<1>6. Claimed /\ Reporting
  BY <1>2, IdleIsAHand DEF Claimed, Reporting
<1>7. Numbered
  BY <1>2, CheckInsArePairs DEF Numbered
<1>8. Final /\ Concluded
  BY <1>2 DEF Final, Concluded
<1> QED
  BY <1>1, <1>3, <1>4, <1>5, <1>6, <1>7, <1>8 DEF BInv

-----------------------------------------------------------------------------
(* The queue hands a job over.                                              *)

HandOf(j, r, begun) ==
  [job |-> j, at |-> "running", claim |-> TRUE, report |-> r, begun |-> begun, threw |-> FALSE,
   started |-> started[j] + 1, made |-> made[j]]

\* What the queue does when it hands the job j to the worker w.
HandOver(w, j, r, begun) ==
  /\ w \in wired.processors /\ worker[w].at = "idle" /\ queue[j] = "waiting"
  /\ queue' = [queue EXCEPT ![j] = "active"]
  /\ started' = [started EXCEPT ![j] = started[j] + 1]
  /\ worker' = [worker EXCEPT ![w] = HandOf(j, r, begun)]
  /\ UNCHANGED <<wired, made, stalled>>

\* What the client is asked for: a report of the attempt, or a warning.
ReportsIt(j, r, begun) ==
  /\ OnSchedule(j) /\ r \in Runs /\ r = runs + 1 /\ runs' = r
  /\ jobOf' = [jobOf EXCEPT ![r] = j]
  /\ begun => WithStart /\ Call(r, "start")
  /\ ~begun => UNCHANGED clientVars

LeavesIt(j, r, begun) ==
  /\ ~OnSchedule(j) /\ r = 0 /\ ~begun
  /\ WarnOnce("bullmq-one-off", TheMonitor)
  /\ UNCHANGED <<runs, jobOf, stage, inFlight, terminal, flush, before, reported>>

LEMMA TakeIsOneOf ==
  ASSUME BInv, NEW w \in Workers, NEW j \in Jobs, Take(w, j)
  PROVE  \E r \in Runs \cup {0}, begun \in BOOLEAN :
           HandOver(w, j, r, begun) /\ (ReportsIt(j, r, begun) \/ LeavesIt(j, r, begun))
<1> DEFINE taken(r, begun) ==
             [job |-> j, at |-> "running", claim |-> TRUE, report |-> r, begun |-> begun,
              threw |-> FALSE, started |-> started'[j], made |-> made[j]]
<1>1. started \in [Jobs -> Nat]
  BY DEF BInv, Kinds
<1>2. /\ w \in wired.processors /\ worker[w].at = "idle" /\ queue[j] = "waiting"
      /\ queue' = [queue EXCEPT ![j] = "active"]
      /\ started' = [started EXCEPT ![j] = started[j] + 1]
      /\ UNCHANGED <<wired, made, stalled>>
  BY DEF Take
<1>3. started'[j] = started[j] + 1
  BY <1>1, <1>2
<1>4. \A r, begun : taken(r, begun) = HandOf(j, r, begun)
  BY <1>3 DEF HandOf
<1>5. \/ /\ IsMonitored(j)
         /\ runs + 1 \in Runs
         /\ runs' = runs + 1
         /\ jobOf' = [jobOf EXCEPT ![runs'] = j]
         /\ \/ /\ WithStart
               /\ StartRun(runs')
               /\ worker' = [worker EXCEPT ![w] = taken(runs', TRUE)]
            \/ /\ worker' = [worker EXCEPT ![w] = taken(runs', FALSE)]
               /\ UNCHANGED clientVars
      \/ /\ ~IsMonitored(j)
         /\ WarnOnce("bullmq-one-off", TheMonitor)
         /\ worker' = [worker EXCEPT ![w] = taken(0, FALSE)]
         /\ UNCHANGED <<runs, jobOf, stage, inFlight, terminal, flush, before, reported>>
  BY DEF Take
<1> HIDE DEF taken
<1>6. CASE IsMonitored(j) /\ runs + 1 \in Runs /\ runs' = runs + 1 /\ jobOf' = [jobOf EXCEPT ![runs'] = j]
  <2>1. PICK r \in Runs : r = runs + 1 /\ runs' = r
    BY <1>6
  <2>2. CASE WithStart /\ StartRun(runs') /\ worker' = [worker EXCEPT ![w] = taken(runs', TRUE)]
    <3>1. HandOver(w, j, r, TRUE) /\ ReportsIt(j, r, TRUE)
      BY <1>2, <1>4, <1>6, <2>1, <2>2 DEF HandOver, ReportsIt, StartRun, IsMonitored, OnSchedule
    <3> QED
      BY <3>1
  <2>3. CASE worker' = [worker EXCEPT ![w] = taken(runs', FALSE)] /\ UNCHANGED clientVars
    <3>1. HandOver(w, j, r, FALSE) /\ ReportsIt(j, r, FALSE)
      BY <1>2, <1>4, <1>6, <2>1, <2>3 DEF HandOver, ReportsIt, IsMonitored, OnSchedule
    <3> QED
      BY <3>1
  <2> QED
    BY <1>5, <1>6, <2>2, <2>3
<1>7. CASE /\ ~IsMonitored(j)
           /\ WarnOnce("bullmq-one-off", TheMonitor)
           /\ worker' = [worker EXCEPT ![w] = taken(0, FALSE)]
           /\ UNCHANGED <<runs, jobOf, stage, inFlight, terminal, flush, before, reported>>
  <2>1. HandOver(w, j, 0, FALSE) /\ LeavesIt(j, 0, FALSE)
    BY <1>2, <1>4, <1>7 DEF HandOver, LeavesIt, IsMonitored, OnSchedule
  <2> QED
    BY <2>1
<1> QED
  BY <1>5, <1>6, <1>7

\* What the client, the ledger and the list of reports make of it.
LEMMA TakeTells ==
  ASSUME BInv, NEW j \in Jobs, NEW r \in Runs \cup {0}, NEW begun \in BOOLEAN,
         UNCHANGED wired, ReportsIt(j, r, begun) \/ LeavesIt(j, r, begun)
  PROVE  /\ Typed' /\ Covered' /\ Printed' /\ Numbered' /\ UNCHANGED <<terminal, reported>>
         /\ warned' \in SUBSET Warnings /\ spoken' \in [Warnings -> Nat] /\ warned \subseteq warned'
         /\ ~OnSchedule(j) => <<"bullmq-one-off", TheMonitor>> \in warned'
         /\ \A q \in Runs, a \in Actions : q # r \/ a # "start" => stage'[<<q, a>>] = stage[<<q, a>>]
         /\ begun => stage'[<<r, "start">>] # "unsent" /\ WithStart
         /\ \A c \in CheckIns : stage[c] = "settled" => stage'[c] = "settled"
         /\ runs' \in Runs \cup {0} /\ runs <= runs' /\ jobOf' \in [Runs -> Jobs \cup {NoJob}]
         /\ \A q \in Runs : q # r => jobOf'[q] = jobOf[q]
         /\ r = 0 <=> ~OnSchedule(j)
         /\ r # 0 => r > runs /\ r <= runs' /\ jobOf'[r] = j
<1>0. /\ Typed /\ Covered /\ Kinds /\ Printed /\ Numbered /\ runs \in Nat
  BY RunsAreNumbers DEF BInv, Kinds
<1>1. CASE ReportsIt(j, r, begun)
  <2>1. /\ OnSchedule(j) /\ r \in Runs /\ r = runs + 1 /\ runs' = r /\ r \in Nat /\ r # 0
        /\ jobOf' = [jobOf EXCEPT ![r] = j]
    BY <1>1, RunsAreNumbers DEF ReportsIt
  <2>2. /\ terminal[r] = "none" /\ \A a \in Actions : stage[<<r, a>>] = "unsent"
    BY <1>0, <2>1 DEF Numbered
  <2>3. /\ jobOf' \in [Runs -> Jobs \cup {NoJob}]
        /\ jobOf'[r] = j /\ \A q \in Runs : q # r => jobOf'[q] = jobOf[q]
    BY <1>0, <2>1 DEF Kinds
  <2>4. /\ Typed' /\ Covered' /\ UNCHANGED <<terminal, warned, spoken, reported>>
        /\ \A q \in Runs, a \in Actions : q # r \/ a # "start" => stage'[<<q, a>>] = stage[<<q, a>>]
        /\ begun => stage'[<<r, "start">>] # "unsent" /\ WithStart
        /\ \A c \in CheckIns : stage[c] = "settled" => stage'[c] = "settled"
    <3>1. CASE begun
      <4>1. /\ stage[<<r, "start">>] = "unsent" /\ Dispatch(<<r, "start">>) /\ WithStart
            /\ UNCHANGED <<terminal, warned, flush, before, spoken, reported>>
        BY <1>1, <3>1 DEF ReportsIt, Call
      <4>2. terminal' \in [Runs -> Terminals \cup {"none"}] /\ <<r, "start">> \in CheckIns
        BY <1>0, <2>1, <4>1, CheckInsArePairs DEF Typed
      <4>3. Typed' /\ Covered'
        BY <1>0, <2>1, <4>1, <4>2, DispatchTracks, CheckInsArePairs
      <4>4. /\ stage' = [stage EXCEPT ![<<r, "start">>] = "inFlight"]
            /\ stage \in [CheckIns -> {"unsent", "inFlight", "settled"}]
        BY <1>0, <4>1 DEF Dispatch, Typed
      <4>5. \A c \in CheckIns : stage[c] = "settled" => stage'[c] = "settled"
        BY <4>1, <4>4
      <4>6. stage'[<<r, "start">>] # "unsent"
        BY <4>2, <4>4
      <4>7. \A q \in Runs, a \in Actions : q # r \/ a # "start" => stage'[<<q, a>>] = stage[<<q, a>>]
        BY <4>4, CheckInsArePairs
      <4> QED
        BY <4>1, <4>3, <4>5, <4>6, <4>7
    <3>2. CASE ~begun
      <4>1. UNCHANGED <<stage, inFlight, terminal, warned, flush, before, spoken, reported>>
        BY <1>1, <3>2 DEF ReportsIt, clientVars
      <4>2. Typed' /\ Covered'
        BY <1>0, <4>1 DEF Typed, Covered
      <4> QED
        BY <3>2, <4>1, <4>2
    <3> QED
      BY <3>1, <3>2
  <2>5. Numbered'
    <3>1. ASSUME NEW q \in Runs, q > r
          PROVE  /\ jobOf'[q] = NoJob /\ terminal'[q] = "none"
                 /\ \A a \in Actions : stage'[<<q, a>>] = "unsent"
      <4>1. q > runs /\ q # r
        BY <1>0, <2>1, <3>1, RunsAreNumbers
      <4> QED
        BY <1>0, <2>3, <2>4, <4>1 DEF Numbered
    <3>2. ASSUME NEW q \in Runs, jobOf'[q] # NoJob PROVE OnSchedule(jobOf'[q])
      BY <1>0, <2>1, <2>3, <3>2 DEF Numbered
    <3>3. \A q \in Runs : jobOf'[q] # NoJob => OnSchedule(jobOf[q])'
      BY <3>2 DEF OnSchedule
    <3> QED
      BY <2>1, <3>1, <3>3 DEF Numbered
  <2>6. Printed' /\ warned' \in SUBSET Warnings /\ spoken' \in [Warnings -> Nat] /\ warned \subseteq warned'
    BY <1>0, <2>4 DEF Printed, Kinds
  <2> QED
    BY <1>0, <2>1, <2>3, <2>4, <2>5, <2>6
<1>2. CASE LeavesIt(j, r, begun)
  <2>1. /\ ~OnSchedule(j) /\ r = 0 /\ ~begun
        /\ WarnOnce("bullmq-one-off", TheMonitor)
        /\ UNCHANGED <<runs, jobOf, stage, inFlight, terminal, flush, before, reported>>
    BY <1>2 DEF LeavesIt
  <2>2. /\ warned' \in SUBSET Warnings /\ spoken' \in [Warnings -> Nat] /\ Printed'
        /\ warned \subseteq warned' /\ <<"bullmq-one-off", TheMonitor>> \in warned'
    BY <1>0, <2>1, PrintsOnce, RunsAreNumbers DEF Kinds
  <2>3. Typed' /\ Covered' /\ Numbered'
    BY <1>0, <2>1 DEF Typed, Covered, Numbered, OnSchedule
  <2> QED
    BY <1>0, <2>1, <2>2, <2>3 DEF Kinds
<1> QED
  BY <1>1, <1>2

LEMMA TakeKeeps == ASSUME BInv, NEW w \in Workers, NEW j \in Jobs, Take(w, j) PROVE BInv'
<1>0. PICK r \in Runs \cup {0}, begun \in BOOLEAN :
        HandOver(w, j, r, begun) /\ (ReportsIt(j, r, begun) \/ LeavesIt(j, r, begun))
  BY TakeIsOneOf
<1>1. /\ w \in wired.processors /\ worker[w].at = "idle" /\ queue[j] = "waiting"
      /\ queue' = [queue EXCEPT ![j] = "active"]
      /\ started' = [started EXCEPT ![j] = started[j] + 1]
      /\ worker' = [worker EXCEPT ![w] = HandOf(j, r, begun)]
      /\ UNCHANGED <<wired, made, stalled>>
  BY <1>0 DEF HandOver
<1>2. /\ Typed' /\ Covered' /\ Printed' /\ Numbered' /\ UNCHANGED <<terminal, reported>>
      /\ warned' \in SUBSET Warnings /\ spoken' \in [Warnings -> Nat] /\ warned \subseteq warned'
      /\ ~OnSchedule(j) => <<"bullmq-one-off", TheMonitor>> \in warned'
      /\ \A q \in Runs, a \in Actions : q # r \/ a # "start" => stage'[<<q, a>>] = stage[<<q, a>>]
      /\ begun => stage'[<<r, "start">>] # "unsent" /\ WithStart
      /\ \A c \in CheckIns : stage[c] = "settled" => stage'[c] = "settled"
      /\ runs' \in Runs \cup {0} /\ runs <= runs' /\ jobOf' \in [Runs -> Jobs \cup {NoJob}]
      /\ \A q \in Runs : q # r => jobOf'[q] = jobOf[q]
      /\ r = 0 <=> ~OnSchedule(j)
      /\ r # 0 => r > runs /\ r <= runs' /\ jobOf'[r] = j
  BY <1>0, <1>1, TakeTells
<1>3. /\ Typed /\ Kinds /\ Counted /\ Claimed /\ Numbered /\ Reporting /\ Final /\ Concluded /\ Advised
  BY DEF BInv
<1>4. /\ queue \in [Jobs -> {"waiting", "active", "completed", "failed", "abandoned"}]
      /\ started \in [Jobs -> Nat] /\ made \in [Jobs -> Nat] /\ stalled \in [Jobs -> Nat]
      /\ worker \in [Workers -> Hands] /\ jobOf \in [Runs -> Jobs \cup {NoJob}]
      /\ runs \in Runs \cup {0} /\ runs \in Nat /\ runs' \in Nat /\ r \in Nat
  BY <1>2, <1>3, RunsAreNumbers DEF Kinds
<1>5. /\ queue'[j] = "active" /\ \A i \in Jobs : i # j => queue'[i] = queue[i]
      /\ started'[j] = started[j] + 1 /\ \A i \in Jobs : i # j => started'[i] = started[i]
  BY <1>1, <1>4
<1>6. HandOf(j, r, begun) \in Hands
  BY <1>4 DEF HandOf, Hands
<1>7. /\ worker'[w] = HandOf(j, r, begun) /\ \A v \in Workers : v # w => worker'[v] = worker[v]
      /\ worker' \in [Workers -> Hands]
  BY <1>1, <1>4, <1>6
<1>8. /\ worker'[w].job = j /\ worker'[w].at = "running" /\ worker'[w].claim /\ worker'[w].report = r
      /\ worker'[w].begun = begun /\ worker'[w].started = started[j] + 1
  BY <1>7 DEF HandOf
<1>9. Kinds'
  <2>1. /\ queue' \in [Jobs -> {"waiting", "active", "completed", "failed", "abandoned"}]
        /\ started' \in [Jobs -> Nat]
    BY <1>1, <1>4
  <2> QED
    BY <1>1, <1>2, <1>3, <1>7, <2>1 DEF Kinds
<1>10. Counted'
  <2> SUFFICES ASSUME NEW i \in Jobs
               PROVE  /\ started'[i] = made[i] + stalled[i] + AtHand(queue'[i])
                      /\ stalled[i] <= Stalls /\ made[i] <= Attempts
                      /\ made[i] = Attempts => queue'[i] = "failed"
    BY <1>1 DEF Counted, AtHand
  <2>1. CASE i = j
    BY <1>1, <1>3, <1>4, <1>5, <2>1 DEF Counted, AtHand
  <2>2. CASE i # j
    BY <1>3, <1>5, <2>2 DEF Counted
  <2> QED
    BY <2>1, <2>2
<1>11. \A v \in Workers : worker[v].claim => worker[v].job # j
  BY <1>1, <1>3 DEF Claimed
<1>12. Claimed'
  <2> SUFFICES ASSUME NEW v \in Workers
               PROVE  /\ worker'[v].at = "idle" => worker'[v] = Idle
                      /\ worker'[v].at # "idle" =>
                           /\ v \in wired.processors /\ worker'[v].job \in Jobs
                           /\ worker'[v].started > 0 /\ worker'[v].started <= started'[worker'[v].job]
                           /\ ~worker'[v].claim => stalled[worker'[v].job] > 0 \/ queue'[worker'[v].job] = "abandoned"
                      /\ worker'[v].claim =>
                           /\ queue'[worker'[v].job] = "active"
                           /\ worker'[v].started = started'[worker'[v].job]
                           /\ \A u \in Workers : u # v /\ worker'[u].claim => worker'[u].job # worker'[v].job
    BY <1>1 DEF Claimed
  <2>1. CASE v = w
    <3>1. \A u \in Workers : u # v /\ worker'[u].claim => worker'[u].job # j
      BY <1>7, <1>11, <2>1
    <3> QED
      BY <1>1, <1>4, <1>5, <1>8, <2>1, <3>1
  <2>2. CASE v # w
    <3>1. worker'[v] = worker[v]
      BY <1>7, <2>2
    <3>2. PICK h \in Hands : h = worker[v]
      BY <1>4
    <3>3. h.at # "idle" => h.job \in Jobs
      BY <1>3, <3>2 DEF Claimed
    <3>4. h.at = "idle" => h = Idle /\ ~h.claim
      BY <1>3, <3>2, IdleIsAHand DEF Claimed
    <3>5. h.claim => /\ queue[h.job] = "active" /\ h.started = started[h.job] /\ h.job # j
                     /\ \A u \in Workers : u # v /\ worker[u].claim => worker[u].job # h.job
      BY <1>3, <1>11, <3>2 DEF Claimed
    <3>6. h.at # "idle" =>
            /\ v \in wired.processors /\ h.started > 0 /\ h.started <= started[h.job]
            /\ ~h.claim => stalled[h.job] > 0 \/ queue[h.job] = "abandoned"
      BY <1>3, <3>2 DEF Claimed
    <3>7. h.started \in Nat
      BY DEF Hands
    <3>8. h.at # "idle" => h.started <= started'[h.job]
      BY <1>4, <1>5, <3>3, <3>6, <3>7
    <3>9. h.at # "idle" /\ ~h.claim => stalled[h.job] > 0 \/ queue'[h.job] = "abandoned"
      BY <1>1, <1>5, <3>3, <3>6
    <3>10. h.claim => \A u \in Workers : u # v /\ worker'[u].claim => worker'[u].job # h.job
      BY <1>7, <1>8, <3>5
    <3>11. h.claim => queue'[h.job] = "active" /\ h.started = started'[h.job]
      BY <1>5, <3>3, <3>4, <3>5
    <3> QED
      BY <3>1, <3>2, <3>3, <3>4, <3>6, <3>8, <3>9, <3>10, <3>11
  <2> QED
    BY <2>1, <2>2
<1>13. Reporting'
  <2> SUFFICES ASSUME NEW v \in Workers, NEW h \in Hands, h = worker'[v], h.at # "idle"
               PROVE  /\ h.report = 0 <=> ~OnSchedule(h.job)
                      /\ h.begun => WithStart
                      /\ h.report # 0 =>
                           /\ h.report <= runs' /\ jobOf'[h.report] = h.job
                           /\ \A u \in Workers : u # v => worker'[u].report # h.report
                           /\ h.at = "running" =>
                                /\ terminal[h.report] = "none"
                                /\ \A a \in Terminals : stage'[<<h.report, a>>] = "unsent"
                                /\ h.begun => stage'[<<h.report, "start">>] # "unsent"
                           /\ h.at = "reporting" => stage'[<<h.report, TerminalOf(h.threw)>>] # "unsent"
                           /\ h.at = "returned" => h.threw /\ h.started < Attempts
                      /\ h.at = "reporting" => h.report # 0
    BY <1>1, <1>2, <1>7 DEF Reporting, OnSchedule, WithStart, TerminalOf
  <2>0. \A u \in Workers : worker[u].report # 0 => worker[u].report <= runs /\ worker[u].report \in Runs
    <3>1. \A u \in Workers : worker[u].at = "idle" => worker[u].report = 0
      BY <1>3, IdleIsAHand DEF Claimed
    <3>2. \A u \in Workers : worker[u].report \in Runs \cup {0}
      BY <1>4 DEF Hands
    <3> QED
      BY <1>3, <3>1, <3>2 DEF Reporting
  <2>1. r # 0 => \A u \in Workers : worker[u].report # r
    BY <1>2, <1>4, <2>0, RunsAreNumbers
  <2>2. CASE v = w
    <3>1. h.job = j /\ h.at = "running" /\ h.report = r /\ h.begun = begun
      BY <1>8, <2>2
    <3>2. r # 0 => r \in Runs /\ terminal[r] = "none" /\ \A a \in Terminals : stage'[<<r, a>>] = "unsent"
      BY <1>2, <1>3, CheckInsArePairs DEF Numbered
    <3>3. r # 0 => \A u \in Workers : u # v => worker'[u].report # r
      BY <1>7, <2>1, <2>2
    <3> QED
      BY <1>2, <3>1, <3>2, <3>3
  <2>3. CASE v # w
    <3>1. h = worker[v]
      BY <1>7, <2>3
    <3>2. /\ h.report = 0 <=> ~OnSchedule(h.job)
          /\ h.begun => WithStart
          /\ h.at = "reporting" => h.report # 0
      BY <1>3, <3>1 DEF Reporting
    <3>3. ASSUME h.report # 0
          PROVE  /\ h.report <= runs' /\ jobOf'[h.report] = h.job
                 /\ \A u \in Workers : u # v => worker'[u].report # h.report
                 /\ h.at = "running" =>
                      /\ terminal[h.report] = "none"
                      /\ \A a \in Terminals : stage'[<<h.report, a>>] = "unsent"
                      /\ h.begun => stage'[<<h.report, "start">>] # "unsent"
                 /\ h.at = "reporting" => stage'[<<h.report, TerminalOf(h.threw)>>] # "unsent"
                 /\ h.at = "returned" => h.threw /\ h.started < Attempts
      <4>1. /\ h.report <= runs /\ h.report \in Runs /\ h.report # r
            /\ h.report \in Nat
        BY <2>0, <2>1, <3>1, <3>3, RunsAreNumbers
      <4>2. \A a \in Actions : stage'[<<h.report, a>>] = stage[<<h.report, a>>]
        BY <1>2, <4>1
      <4>3. /\ jobOf[h.report] = h.job
            /\ \A u \in Workers : u # v => worker[u].report # h.report
            /\ h.at = "running" =>
                 /\ terminal[h.report] = "none"
                 /\ \A a \in Terminals : stage[<<h.report, a>>] = "unsent"
                 /\ h.begun => stage[<<h.report, "start">>] # "unsent"
            /\ h.at = "reporting" => stage[<<h.report, TerminalOf(h.threw)>>] # "unsent"
            /\ h.at = "returned" => h.threw /\ h.started < Attempts
        BY <1>3, <3>1, <3>3 DEF Reporting
      <4>4. TerminalOf(h.threw) \in Actions
        BY DEF TerminalOf, Actions, Terminals
      <4>5. h.report <= runs' /\ jobOf'[h.report] = h.job
        BY <1>2, <1>4, <4>1, <4>3
      <4>6. \A u \in Workers : u # v => worker'[u].report # h.report
        BY <1>7, <1>8, <4>1, <4>3
      <4> QED
        BY <4>2, <4>3, <4>4, <4>5, <4>6, CheckInsArePairs
    <3> QED
      BY <3>2, <3>3
  <2> QED
    BY <2>2, <2>3
<1>14. Final'
  <2> SUFFICES ASSUME NEW q \in Runs, NEW i \in Jobs, i = jobOf'[q], stalled[i] = 0,
                      stage'[<<q, "fail">>] # "unsent"
               PROVE  /\ made[i] >= Attempts - 1
                      /\ queue'[i] \notin {"waiting", "completed"}
                      /\ \A v \in Workers : worker'[v].claim /\ worker'[v].job = i =>
                           worker'[v].at = "reporting" /\ worker'[v].threw
    BY <1>1, <1>2 DEF Final
  <2>1. stage[<<q, "fail">>] # "unsent"
    BY <1>2, CheckInsArePairs DEF Terminals
  <2>2. q # r /\ jobOf[q] = i
    <3>1. "fail" \in Actions
      BY DEF Actions, Terminals
    <3>2. ~(q > runs)
      BY <1>3, <2>1, <3>1 DEF Numbered
    <3> QED
      BY <1>2, <3>2, RunsAreNumbers
  <2>3. /\ made[i] >= Attempts - 1 /\ queue[i] \notin {"waiting", "completed"}
        /\ \A v \in Workers : worker[v].claim /\ worker[v].job = i =>
             worker[v].at = "reporting" /\ worker[v].threw
    BY <1>3, <2>1, <2>2, JobsAssumption DEF Final
  <2>4. i # j
    BY <1>1, <2>3
  <2> QED
    BY <1>5, <1>7, <1>8, <2>3, <2>4
<1>15. Concluded'
  <2> SUFFICES ASSUME NEW i \in Jobs, OnSchedule(i), NEW a \in Terminals,
                      \/ queue'[i] = "completed" /\ a = "success"
                      \/ queue'[i] = "failed" /\ a = "fail"
               PROVE  \E q \in Runs : jobOf'[q] = i /\ stage'[<<q, a>>] = "settled"
    BY <1>1 DEF Concluded, OnSchedule, Settled, Terminals
  <2>1. i # j /\ queue'[i] = queue[i]
    BY <1>5
  <2>2. PICK q \in Runs : jobOf[q] = i /\ stage[<<q, a>>] = "settled"
    BY <1>3, <2>1 DEF Concluded, Settled
  <2>3. <<q, a>> \in CheckIns
    BY CheckInsArePairs
  <2>4. q # r
    BY <1>2, <1>3, <2>2, JobsAssumption, RunsAreNumbers DEF Numbered
  <2> QED
    BY <1>2, <2>2, <2>3, <2>4
<1>16. Advised'
  <2> SUFFICES ASSUME NEW i \in Jobs, ~OnSchedule(i), started'[i] > 0
               PROVE  <<"bullmq-one-off", TheMonitor>> \in warned'
    BY <1>1 DEF Advised, OnSchedule, TheMonitor
  <2>1. CASE i = j
    BY <1>2, <2>1
  <2>2. CASE i # j
    BY <1>2, <1>3, <1>5, <2>2 DEF Advised
  <2> QED
    BY <2>1, <2>2
<1> QED
  BY <1>2, <1>9, <1>10, <1>12, <1>13, <1>14, <1>15, <1>16 DEF BInv

-----------------------------------------------------------------------------
(* The processor returns or throws.                                         *)

Moves(w, at, threw) == worker' = [worker EXCEPT ![w].at = at, ![w].threw = threw]

\* A worker moves on with what it holds.
LEMMA WorkerMoves ==
  ASSUME Kinds, NEW w \in Workers, NEW threw \in BOOLEAN,
         NEW at \in {"idle", "running", "reporting", "returned"},
         Moves(w, at, threw)
  PROVE  \E h \in Hands :
           /\ worker' = [worker EXCEPT ![w] = h]
           /\ h.at = at /\ h.threw = threw
           /\ h.job = worker[w].job /\ h.claim = worker[w].claim /\ h.report = worker[w].report
           /\ h.begun = worker[w].begun /\ h.started = worker[w].started
<1>0. worker \in [Workers -> Hands] /\ worker[w] \in Hands
  BY DEF Kinds
<1> DEFINE g == worker[w]
           h1 == [g EXCEPT !.at = at]
           h2 == [h1 EXCEPT !.threw = threw]
           worker1 == [worker EXCEPT ![w].at = at]
<1>1. /\ h1 \in Hands /\ h1.at = at /\ h1.job = g.job /\ h1.claim = g.claim
      /\ h1.report = g.report /\ h1.begun = g.begun /\ h1.started = g.started
  BY <1>0 DEF Hands
<1>2. worker1 = [worker EXCEPT ![w] = h1]
  OBVIOUS
<1>3. worker' = [worker1 EXCEPT ![w].threw = threw]
  BY DEF Moves
<1> HIDE DEF h1, worker1
<1>4. worker1 \in [Workers -> Hands] /\ worker1[w] = h1 /\ \A v \in Workers : v # w => worker1[v] = worker[v]
  BY <1>0, <1>1, <1>2
<1>5. /\ h2 \in Hands /\ h2.threw = threw /\ h2.at = h1.at /\ h2.job = h1.job /\ h2.claim = h1.claim
      /\ h2.report = h1.report /\ h2.begun = h1.begun /\ h2.started = h1.started
  BY <1>1 DEF Hands
<1>6. worker' = [worker1 EXCEPT ![w] = h2]
  BY <1>3, <1>4
<1> HIDE DEF h2
<1>7. worker' = [worker EXCEPT ![w] = h2]
  BY <1>0, <1>4, <1>5, <1>6
<1> QED
  BY <1>1, <1>5, <1>7

\* What is sent of it: nothing, or its report's one terminal check-in.
Silent(w, threw) ==
  /\ worker[w].report = 0 \/ (threw /\ ~IsFinalAttempt(w))
  /\ Moves(w, "returned", threw)
  /\ UNCHANGED clientVars

Told(w, threw) ==
  /\ worker[w].report # 0 /\ (threw => IsFinalAttempt(w))
  /\ Moves(w, "reporting", threw)
  /\ \/ worker[w].begun /\ SendTerminal(worker[w].report, TerminalOf(threw))
     \/ ~worker[w].begun /\ Call(worker[w].report, TerminalOf(threw))

LEMMA FinishIsOneOf ==
  ASSUME NEW w \in Workers, NEW threw \in BOOLEAN, Finish(w, threw)
  PROVE  /\ worker[w].at = "running" /\ UNCHANGED <<wired, queue, started, made, stalled, runs, jobOf>>
         /\ Silent(w, threw) \/ Told(w, threw)
BY DEF Finish, Silent, Told, Moves, TerminalOf, queueVars

\* The report of a worker that runs is its own, and still open.
LEMMA ToldOnce ==
  ASSUME BInv, NEW w \in Workers, NEW threw \in BOOLEAN, worker[w].at = "running", Told(w, threw)
  PROVE  /\ worker[w].report \in Runs /\ worker[w].report <= runs
         /\ stage' = [stage EXCEPT ![<<worker[w].report, TerminalOf(threw)>>] = "inFlight"]
         /\ Typed' /\ Covered' /\ UNCHANGED <<warned, spoken, reported>>
         /\ \A q \in Runs : q # worker[w].report => terminal'[q] = terminal[q]
         /\ stage[<<worker[w].report, TerminalOf(threw)>>] = "unsent"
<1>0. Typed /\ Covered /\ Kinds /\ Reporting
  BY DEF BInv
<1>1. PICK r \in Runs : r = worker[w].report
  BY <1>0 DEF Told, Kinds, Hands
<1>2. PICK a \in Terminals : a = TerminalOf(threw)
  BY DEF TerminalOf, Terminals
<1>3. worker[w].report # 0 /\ worker[w].report <= runs
  BY <1>0 DEF Told, Reporting
<1>4. /\ terminal[r] = "none" /\ stage[<<r, a>>] = "unsent"
      /\ worker[w].begun => stage[<<r, "start">>] # "unsent"
  BY <1>0, <1>1, <1>3 DEF Reporting
<1>5. terminal \in [Runs -> Terminals \cup {"none"}]
  BY <1>0 DEF Typed
<1>6. /\ Dispatch(<<r, a>>) /\ UNCHANGED <<warned, flush, before, spoken, reported>>
      /\ terminal' = [terminal EXCEPT ![r] = a] \/ terminal' = terminal
  BY <1>1, <1>2, <1>4 DEF Told, SendTerminal, Call
<1>7. terminal' \in [Runs -> Terminals \cup {"none"}] /\ \A q \in Runs : q # r => terminal'[q] = terminal[q]
  BY <1>5, <1>6
<1>8. Typed' /\ Covered'
  BY <1>0, <1>4, <1>6, <1>7, DispatchTracks, CheckInsArePairs
<1> QED
  BY <1>1, <1>2, <1>3, <1>4, <1>6, <1>7, <1>8 DEF Dispatch

LEMMA FinishKeeps ==
  ASSUME BInv, NEW w \in Workers, NEW threw \in BOOLEAN, Finish(w, threw) PROVE BInv'
<1>0. /\ Typed /\ Covered /\ Kinds /\ Printed /\ Counted /\ Claimed /\ Numbered /\ Reporting
      /\ Final /\ Concluded /\ Advised
      /\ worker[w].at = "running" /\ UNCHANGED <<wired, queue, started, made, stalled, runs, jobOf>>
      /\ Silent(w, threw) \/ Told(w, threw)
  BY FinishIsOneOf DEF BInv
<1>1. PICK g \in Hands : g = worker[w]
  BY <1>0 DEF Kinds
<1>2. PICK a \in Terminals : a = TerminalOf(threw)
  BY DEF TerminalOf, Terminals
<1>3. PICK h \in Hands :
        /\ worker' = [worker EXCEPT ![w] = h]
        /\ h.at = (IF Told(w, threw) THEN "reporting" ELSE "returned") /\ h.threw = threw
        /\ h.job = g.job /\ h.claim = g.claim /\ h.report = g.report /\ h.begun = g.begun
        /\ h.started = g.started
  <2>1. CASE Told(w, threw)
    <3>1. Moves(w, "reporting", threw)
      BY <1>0, <2>1 DEF Told
    <3>2. Kinds /\ "reporting" \in {"idle", "running", "reporting", "returned"}
      BY <1>0
    <3>3. \E h \in Hands :
            /\ worker' = [worker EXCEPT ![w] = h]
            /\ h.at = "reporting" /\ h.threw = threw
            /\ h.job = worker[w].job /\ h.claim = worker[w].claim /\ h.report = worker[w].report
            /\ h.begun = worker[w].begun /\ h.started = worker[w].started
      BY <3>1, <3>2, WorkerMoves
    <3> QED
      BY <1>1, <2>1, <3>3
  <2>2. CASE ~Told(w, threw)
    <3>1. Moves(w, "returned", threw)
      BY <1>0, <2>2 DEF Silent
    <3>2. Kinds /\ "returned" \in {"idle", "running", "reporting", "returned"}
      BY <1>0
    <3>3. \E h \in Hands :
            /\ worker' = [worker EXCEPT ![w] = h]
            /\ h.at = "returned" /\ h.threw = threw
            /\ h.job = worker[w].job /\ h.claim = worker[w].claim /\ h.report = worker[w].report
            /\ h.begun = worker[w].begun /\ h.started = worker[w].started
      BY <3>1, <3>2, WorkerMoves
    <3> QED
      BY <1>1, <2>2, <3>3
  <2> QED
    BY <2>1, <2>2
<1>4. /\ worker \in [Workers -> Hands] /\ worker' \in [Workers -> Hands]
      /\ worker'[w] = h /\ \A v \in Workers : v # w => worker'[v] = worker[v]
  BY <1>0, <1>3 DEF Kinds
<1>5. /\ Typed' /\ Covered' /\ UNCHANGED <<warned, spoken, reported>>
      /\ \A q \in Runs : q # g.report => terminal'[q] = terminal[q]
      /\ \A q \in Runs, b \in Actions : q # g.report => stage'[<<q, b>>] = stage[<<q, b>>]
      /\ \A q \in Runs, b \in Actions : b # a => stage'[<<q, b>>] = stage[<<q, b>>]
      /\ \A c \in CheckIns : stage[c] = "settled" => stage'[c] = "settled"
      /\ \A c \in CheckIns : stage[c] # "unsent" => stage'[c] # "unsent"
      /\ Told(w, threw) => g.report \in Runs /\ stage'[<<g.report, a>>] # "unsent"
      /\ ~Told(w, threw) => stage' = stage
  <2>1. CASE Told(w, threw)
    <3>1. /\ g.report \in Runs /\ stage' = [stage EXCEPT ![<<g.report, a>>] = "inFlight"]
          /\ Typed' /\ Covered' /\ UNCHANGED <<warned, spoken, reported>>
          /\ \A q \in Runs : q # g.report => terminal'[q] = terminal[q]
          /\ stage[<<g.report, a>>] = "unsent"
      BY <1>0, <1>1, <1>2, <2>1, ToldOnce
    <3>2. stage \in [CheckIns -> {"unsent", "inFlight", "settled"}]
      BY <1>0 DEF Typed
    <3>3. /\ \A q \in Runs, b \in Actions : q # g.report => stage'[<<q, b>>] = stage[<<q, b>>]
          /\ \A q \in Runs, b \in Actions : b # a => stage'[<<q, b>>] = stage[<<q, b>>]
          /\ stage'[<<g.report, a>>] # "unsent"
      BY <1>2, <3>1, <3>2, CheckInsArePairs
    <3>4. \A c \in CheckIns : stage[c] = "settled" => stage'[c] = "settled"
      BY <3>1, <3>2
    <3>5. \A c \in CheckIns : stage[c] # "unsent" => stage'[c] # "unsent"
      BY <3>1, <3>2
    <3> QED
      BY <2>1, <3>1, <3>3, <3>4, <3>5
  <2>2. CASE ~Told(w, threw)
    <3>1. UNCHANGED <<stage, inFlight, terminal, warned, flush, before, spoken, reported>>
      BY <1>0, <2>2 DEF Silent, clientVars
    <3>2. Typed' /\ Covered'
      BY <1>0, <3>1 DEF Typed, Covered
    <3> QED
      BY <2>2, <3>1, <3>2
  <2> QED
    BY <2>1, <2>2
<1>6. Kinds' /\ Printed' /\ Counted' /\ Advised'
  BY <1>0, <1>4, <1>5 DEF Kinds, Printed, Counted, Advised, OnSchedule
<1>7. /\ \A v \in Workers : worker'[v].claim = worker[v].claim /\ worker'[v].job = worker[v].job
      /\ \A v \in Workers : worker'[v].report = worker[v].report /\ worker'[v].started = worker[v].started
  BY <1>1, <1>3, <1>4
<1>8. Claimed'
  <2> SUFFICES ASSUME NEW v \in Workers
               PROVE  /\ worker'[v].at = "idle" => worker'[v] = Idle
                      /\ worker'[v].at # "idle" =>
                           /\ v \in wired.processors /\ worker'[v].job \in Jobs
                           /\ worker'[v].started > 0 /\ worker'[v].started <= started[worker'[v].job]
                           /\ ~worker'[v].claim =>
                                stalled[worker'[v].job] > 0 \/ queue[worker'[v].job] = "abandoned"
                      /\ worker'[v].claim =>
                           /\ queue[worker'[v].job] = "active"
                           /\ worker'[v].started = started[worker'[v].job]
                           /\ \A u \in Workers : u # v /\ worker'[u].claim => worker'[u].job # worker'[v].job
    BY <1>0 DEF Claimed
  <2>1. worker'[v].at = "idle" => worker'[v] = worker[v]
    BY <1>3, <1>4
  <2>2. worker'[v].at # "idle" <=> worker[v].at # "idle"
    BY <1>0, <1>3, <1>4
  <2> QED
    BY <1>0, <1>7, <2>1, <2>2 DEF Claimed
<1>9. g.report # 0 => g.report <= runs
  BY <1>0, <1>1 DEF Reporting
<1>10. Numbered'
  <2>1. \A q \in Runs : q > runs => q # g.report
    BY <1>0, <1>9, RunsAreNumbers DEF Kinds
  <2>2. \A q \in Runs : q > runs' => /\ jobOf'[q] = NoJob /\ terminal'[q] = "none"
                                     /\ \A b \in Actions : stage'[<<q, b>>] = "unsent"
    BY <1>0, <1>5, <2>1 DEF Numbered
  <2> QED
    BY <1>0, <2>2 DEF Numbered, OnSchedule
<1>11. Reporting'
  <2> SUFFICES ASSUME NEW v \in Workers, NEW k \in Hands, k = worker'[v], k.at # "idle"
               PROVE  /\ k.report = 0 <=> ~OnSchedule(k.job)
                      /\ k.begun => WithStart
                      /\ k.report # 0 =>
                           /\ k.report <= runs /\ jobOf[k.report] = k.job
                           /\ \A u \in Workers : u # v => worker'[u].report # k.report
                           /\ k.at = "running" =>
                                /\ terminal'[k.report] = "none"
                                /\ \A b \in Terminals : stage'[<<k.report, b>>] = "unsent"
                                /\ k.begun => stage'[<<k.report, "start">>] # "unsent"
                           /\ k.at = "reporting" => stage'[<<k.report, TerminalOf(k.threw)>>] # "unsent"
                           /\ k.at = "returned" => k.threw /\ k.started < Attempts
                      /\ k.at = "reporting" => k.report # 0
    BY <1>0, <1>4 DEF Reporting, OnSchedule, WithStart, TerminalOf
  <2>1. CASE v = w
    <3>1. k = h
      BY <1>4, <2>1
    <3>2. /\ g.report = 0 <=> ~OnSchedule(g.job)
          /\ g.begun => WithStart
          /\ g.report # 0 => /\ g.report <= runs /\ jobOf[g.report] = g.job
                             /\ \A u \in Workers : u # w => worker[u].report # g.report
      BY <1>0, <1>1 DEF Reporting
    <3>3. Told(w, threw) => g.report # 0
      BY <1>1 DEF Told
    <3>4. ~Told(w, threw) /\ g.report # 0 => threw /\ g.started < Attempts
      <4>1. g.started > 0 /\ g.started \in Nat
        BY <1>0, <1>1 DEF Claimed, Hands
      <4> QED
        BY <1>0, <1>1, <4>1, NumbersAssumption DEF Silent, IsFinalAttempt
    <3> QED
      BY <1>2, <1>3, <1>5, <1>7, <2>1, <3>1, <3>2, <3>3, <3>4
  <2>2. CASE v # w
    <3>1. k = worker[v]
      BY <1>4, <2>2
    <3>2. /\ k.report = 0 <=> ~OnSchedule(k.job)
          /\ k.begun => WithStart
          /\ k.at = "reporting" => k.report # 0
      BY <1>0, <3>1 DEF Reporting
    <3>3. ASSUME k.report # 0
          PROVE  /\ k.report <= runs /\ jobOf[k.report] = k.job
                 /\ \A u \in Workers : u # v => worker'[u].report # k.report
                 /\ k.at = "running" =>
                      /\ terminal'[k.report] = "none"
                      /\ \A b \in Terminals : stage'[<<k.report, b>>] = "unsent"
                      /\ k.begun => stage'[<<k.report, "start">>] # "unsent"
                 /\ k.at = "reporting" => stage'[<<k.report, TerminalOf(k.threw)>>] # "unsent"
                 /\ k.at = "returned" => k.threw /\ k.started < Attempts
      <4>1. /\ k.report <= runs /\ jobOf[k.report] = k.job
            /\ \A u \in Workers : u # v => worker[u].report # k.report
            /\ k.at = "running" =>
                 /\ terminal[k.report] = "none"
                 /\ \A b \in Terminals : stage[<<k.report, b>>] = "unsent"
                 /\ k.begun => stage[<<k.report, "start">>] # "unsent"
            /\ k.at = "reporting" => stage[<<k.report, TerminalOf(k.threw)>>] # "unsent"
            /\ k.at = "returned" => k.threw /\ k.started < Attempts
        BY <1>0, <3>1, <3>3 DEF Reporting
      <4>2. k.report # g.report /\ k.report \in Runs
        BY <1>1, <2>2, <3>3, <4>1 DEF Hands
      <4>3. terminal'[k.report] = terminal[k.report] /\ \A b \in Actions : stage'[<<k.report, b>>] = stage[<<k.report, b>>]
        BY <1>5, <4>2
      <4>4. TerminalOf(k.threw) \in Actions
        BY DEF TerminalOf, Actions, Terminals
      <4> QED
        BY <1>7, <4>1, <4>3, <4>4, CheckInsArePairs
    <3> QED
      BY <3>2, <3>3
  <2> QED
    BY <2>1, <2>2
<1>12. Final'
  <2> SUFFICES ASSUME NEW q \in Runs, NEW i \in Jobs, i = jobOf[q], stalled[i] = 0,
                      stage'[<<q, "fail">>] # "unsent"
               PROVE  /\ made[i] >= Attempts - 1
                      /\ queue[i] \notin {"waiting", "completed"}
                      /\ \A v \in Workers : worker'[v].claim /\ worker'[v].job = i =>
                           worker'[v].at = "reporting" /\ worker'[v].threw
    BY <1>0 DEF Final, Kinds
  <2>1. CASE stage[<<q, "fail">>] # "unsent"
    <3>1. /\ made[i] >= Attempts - 1 /\ queue[i] \notin {"waiting", "completed"}
          /\ \A v \in Workers : worker[v].claim /\ worker[v].job = i =>
               worker[v].at = "reporting" /\ worker[v].threw
      BY <1>0, <2>1, JobsAssumption DEF Final
    <3> QED
      BY <1>0, <1>4, <1>7, <3>1
  <2>2. CASE stage[<<q, "fail">>] = "unsent"
    <3>1. q = g.report /\ a = "fail" /\ Told(w, threw)
      BY <1>5, <2>2, CheckInsArePairs DEF Terminals
    <3>2. threw
      BY <1>2, <3>1 DEF TerminalOf
    <3>3. g.job = i /\ g.started > 0 /\ g.started >= Attempts /\ g.started <= started[i]
      <4>1. g.job = i /\ g.started > 0 /\ g.started <= started[i] /\ g.started \in Nat
        BY <1>0, <1>1, <1>9, <3>1, RunsAreNumbers DEF Reporting, Claimed, Hands
      <4> QED
        BY <1>1, <3>1, <3>2, <4>1 DEF Told, IsFinalAttempt
    <3>4. /\ started[i] = made[i] + AtHand(queue[i]) /\ queue[i] \in {"active", "abandoned"}
          /\ made[i] \in Nat /\ started[i] \in Nat
      <4>1. started[i] = made[i] + stalled[i] + AtHand(queue[i]) /\ made[i] \in Nat /\ started[i] \in Nat
        BY <1>0 DEF Counted, Kinds
      <4>2. AtHand(queue[i]) \in Nat
        BY DEF AtHand
      <4>3. queue[i] \in {"active", "abandoned"}
        BY <1>0, <1>1, <3>3 DEF Claimed
      <4> QED
        BY <4>1, <4>2, <4>3
    <3>5. AtHand(queue[i]) = 1
      BY <3>4 DEF AtHand
    <3>6. made[i] >= Attempts - 1
      BY <3>3, <3>4, <3>5, NumbersAssumption DEF Hands
    <3>7. ASSUME NEW v \in Workers, worker'[v].claim, worker'[v].job = i
          PROVE  worker'[v].at = "reporting" /\ worker'[v].threw
      <4>1. worker[v].claim /\ worker[v].job = i /\ queue[i] = "active"
        BY <1>0, <1>7, <3>7 DEF Claimed
      <4>2. v = w
        BY <1>0, <1>1, <3>3, <4>1 DEF Claimed
      <4> QED
        BY <1>3, <1>4, <3>1, <3>2, <4>2
    <3> QED
      BY <3>4, <3>6, <3>7
  <2> QED
    BY <2>1, <2>2
<1>13. Concluded'
  <2>1. \A j \in Jobs, b \in Terminals : Settled(j, b) => Settled(j, b)'
    BY <1>0, <1>5, CheckInsArePairs DEF Settled
  <2> QED
    BY <1>0, <2>1 DEF Concluded, OnSchedule, Terminals
<1> QED
  BY <1>5, <1>6, <1>8, <1>10, <1>11, <1>12, <1>13 DEF BInv

-----------------------------------------------------------------------------
(* The processor has settled, or the queue takes the job back.              *)

\* What a step on the job j of the worker w must do to the queue and leave alone
\* of the rest, h being what the worker does after it.
Gives(w, j, h) ==
  /\ UNCHANGED <<stage, inFlight, terminal, warned, flush, before, spoken, reported>>
  /\ UNCHANGED <<wired, started, runs, jobOf>>
  /\ worker' = [worker EXCEPT ![w] = h]
  /\ worker[w].job = j /\ worker[w].at # "idle"
  /\ h = Idle \/ (/\ ~h.claim /\ h.at = worker[w].at /\ h.threw = worker[w].threw /\ h.job = j
                  /\ h.report = worker[w].report /\ h.begun = worker[w].begun
                  /\ h.started = worker[w].started)
  /\ queue' \in [Jobs -> {"waiting", "active", "completed", "failed", "abandoned"}]
  /\ made' \in [Jobs -> Nat] /\ stalled' \in [Jobs -> Nat]
  /\ \A i \in Jobs : i # j => queue'[i] = queue[i] /\ made'[i] = made[i] /\ stalled'[i] = stalled[i]
  /\ made[j] <= made'[j] /\ stalled[j] <= stalled'[j]
  /\ UNCHANGED <<queue, made, stalled>> \/ worker[w].claim

LEMMA GivesKeeps ==
  ASSUME BInv, NEW w \in Workers, NEW j \in Jobs, NEW h \in Hands, Gives(w, j, h),
         /\ started[j] = made'[j] + stalled'[j] + AtHand(queue'[j])
         /\ stalled'[j] <= Stalls /\ made'[j] <= Attempts
         /\ made'[j] = Attempts => queue'[j] = "failed",
         h # Idle => stalled'[j] > 0 \/ queue'[j] = "abandoned",
         ~UNCHANGED <<queue, made, stalled>> /\ stalled'[j] = 0 /\ worker[w].at = "reporting" /\ worker[w].threw
           => queue'[j] \notin {"waiting", "completed"},
         ~UNCHANGED <<queue, made, stalled>> /\ OnSchedule(j) =>
           /\ queue'[j] = "completed" => Settled(j, "success")
           /\ queue'[j] = "failed" => Settled(j, "fail")
  PROVE  BInv'
<1>0. /\ Typed /\ Covered /\ Kinds /\ Printed /\ Counted /\ Claimed /\ Numbered /\ Reporting
      /\ Final /\ Concluded /\ Advised
  BY DEF BInv
<1>1. /\ UNCHANGED <<stage, inFlight, terminal, warned, flush, before, spoken, reported>>
      /\ UNCHANGED <<wired, started, runs, jobOf>>
      /\ worker' = [worker EXCEPT ![w] = h]
      /\ worker[w].job = j /\ worker[w].at # "idle"
      /\ UNCHANGED <<queue, made, stalled>> \/ worker[w].claim
  BY DEF Gives
<1>2. h = Idle \/ (/\ ~h.claim /\ h.at = worker[w].at /\ h.threw = worker[w].threw /\ h.job = j
                   /\ h.report = worker[w].report /\ h.begun = worker[w].begun
                   /\ h.started = worker[w].started)
  BY DEF Gives
<1>3. /\ queue' \in [Jobs -> {"waiting", "active", "completed", "failed", "abandoned"}]
      /\ made' \in [Jobs -> Nat] /\ stalled' \in [Jobs -> Nat]
      /\ \A i \in Jobs : i # j => queue'[i] = queue[i] /\ made'[i] = made[i] /\ stalled'[i] = stalled[i]
      /\ made[j] <= made'[j] /\ stalled[j] <= stalled'[j]
  BY DEF Gives
<1>4. /\ worker \in [Workers -> Hands] /\ worker' \in [Workers -> Hands]
      /\ worker'[w] = h /\ \A v \in Workers : v # w => worker'[v] = worker[v]
      /\ stalled \in [Jobs -> Nat] /\ made \in [Jobs -> Nat]
  BY <1>0, <1>1 DEF Kinds
<1>5. ~h.claim
  BY <1>2, IdleIsAHand
<1>6. Typed' /\ Covered' /\ Printed' /\ Numbered' /\ Advised'
  BY <1>0, <1>1 DEF Typed, Covered, Printed, Numbered, Advised, OnSchedule, TheMonitor
<1>7. Kinds'
  BY <1>0, <1>1, <1>3, <1>4 DEF Kinds
<1>8. Counted'
  BY <1>0, <1>1, <1>3 DEF Counted
<1>9. \A v \in Workers : v # w /\ worker[v].claim => worker[v].job # j \/ UNCHANGED <<queue, made, stalled>>
  BY <1>0, <1>1 DEF Claimed
<1>10. ~UNCHANGED <<queue, made, stalled>> => queue[j] = "active"
  BY <1>0, <1>1 DEF Claimed
<1>11. Claimed'
  <2> SUFFICES ASSUME NEW v \in Workers, NEW k \in Hands, k = worker'[v]
               PROVE  /\ k.at = "idle" => k = Idle
                      /\ k.at # "idle" =>
                           /\ v \in wired.processors /\ k.job \in Jobs
                           /\ k.started > 0 /\ k.started <= started[k.job]
                           /\ ~k.claim => stalled'[k.job] > 0 \/ queue'[k.job] = "abandoned"
                      /\ k.claim =>
                           /\ queue'[k.job] = "active" /\ k.started = started[k.job]
                           /\ \A u \in Workers : u # v /\ worker'[u].claim => worker'[u].job # k.job
    BY <1>1, <1>4 DEF Claimed
  <2>1. CASE v = w
    <3>1. k = h
      BY <1>4, <2>1
    <3>2. /\ w \in wired.processors /\ worker[w].started > 0 /\ worker[w].started <= started[j]
      BY <1>0, <1>1 DEF Claimed
    <3> QED
      BY <1>1, <1>2, <1>5, <2>1, <3>1, <3>2, IdleIsAHand
  <2>2. CASE v # w
    <3>1. k = worker[v]
      BY <1>4, <2>2
    <3>2. /\ k.at = "idle" => k = Idle
          /\ k.at # "idle" =>
               /\ v \in wired.processors /\ k.job \in Jobs
               /\ k.started > 0 /\ k.started <= started[k.job]
               /\ ~k.claim => stalled[k.job] > 0 \/ queue[k.job] = "abandoned"
          /\ k.claim =>
               /\ queue[k.job] = "active" /\ k.started = started[k.job]
               /\ \A u \in Workers : u # v /\ worker[u].claim => worker[u].job # k.job
      BY <1>0, <3>1 DEF Claimed
    <3>3. k.claim => k.at # "idle"
      BY <3>2, IdleIsAHand
    <3>4. k.at # "idle" /\ ~k.claim => stalled'[k.job] > 0 \/ queue'[k.job] = "abandoned"
      <4>1. CASE k.job = j
        BY <1>3, <1>4, <1>10, <3>2, <4>1
      <4>2. CASE k.job # j
        BY <1>3, <3>2, <4>2
      <4> QED
        BY <4>1, <4>2
    <3>5. k.claim => queue'[k.job] = "active"
      BY <1>3, <1>9, <2>2, <3>1, <3>2, <3>3
    <3>6. k.claim => \A u \in Workers : u # v /\ worker'[u].claim => worker'[u].job # k.job
      BY <1>4, <1>5, <3>2
    <3> QED
      BY <3>2, <3>4, <3>5, <3>6
  <2> QED
    BY <2>1, <2>2
<1>12. Reporting'
  <2>0. \A u \in Workers : worker'[u].report = worker[u].report \/ worker'[u].report = 0
    BY <1>2, <1>4, IdleIsAHand
  <2> SUFFICES ASSUME NEW v \in Workers, worker'[v].at # "idle"
               PROVE  /\ worker'[v].report = worker[v].report /\ worker'[v].at = worker[v].at
                      /\ worker'[v].threw = worker[v].threw /\ worker'[v].started = worker[v].started
                      /\ worker'[v].begun = worker[v].begun /\ worker'[v].job = worker[v].job
    <3>1. \A v \in Workers : worker'[v].at # "idle" =>
            /\ worker'[v].report = worker[v].report /\ worker'[v].at = worker[v].at
            /\ worker'[v].threw = worker[v].threw /\ worker'[v].started = worker[v].started
            /\ worker'[v].begun = worker[v].begun /\ worker'[v].job = worker[v].job
      OBVIOUS
    <3>2. \A r, i : OnSchedule(i)' = OnSchedule(i) /\ WithStart' = WithStart
      BY <1>1 DEF OnSchedule, WithStart
    <3> QED
      BY <1>0, <1>1, <2>0, <3>1, <3>2 DEF Reporting, TerminalOf, OnSchedule, WithStart
  <2> QED
    BY <1>1, <1>2, <1>4, IdleIsAHand
<1>13. Final'
  <2> SUFFICES ASSUME NEW q \in Runs, NEW i \in Jobs, i = jobOf[q], stalled'[i] = 0,
                      stage[<<q, "fail">>] # "unsent"
               PROVE  /\ made'[i] >= Attempts - 1
                      /\ queue'[i] \notin {"waiting", "completed"}
                      /\ \A v \in Workers : worker'[v].claim /\ worker'[v].job = i =>
                           worker'[v].at = "reporting" /\ worker'[v].threw
    BY <1>0, <1>1 DEF Final, Kinds
  <2>1. stalled[i] = 0 /\ stalled[i] \in Nat /\ made[i] \in Nat /\ made'[i] \in Nat /\ made[i] <= made'[i]
    <3>1. stalled[i] <= stalled'[i] /\ made[i] <= made'[i]
      BY <1>3, <1>4
    <3> QED
      BY <1>3, <1>4, <3>1
  <2>2. /\ made[i] >= Attempts - 1 /\ queue[i] \notin {"waiting", "completed"}
        /\ \A v \in Workers : worker[v].claim /\ worker[v].job = i =>
             worker[v].at = "reporting" /\ worker[v].threw
    BY <1>0, <2>1, JobsAssumption DEF Final
  <2>3. queue'[i] \notin {"waiting", "completed"}
    BY <1>1, <1>3, <2>2
  <2>4. \A v \in Workers : worker'[v].claim /\ worker'[v].job = i => worker'[v].at = "reporting" /\ worker'[v].threw
    BY <1>4, <1>5, <2>2
  <2> QED
    BY <2>1, <2>2, <2>3, <2>4, NumbersAssumption
<1>14. Concluded'
  <2>1. \A i \in Jobs, a \in Terminals : Settled(i, a)' <=> Settled(i, a)
    BY <1>1 DEF Settled
  <2> QED
    BY <1>0, <1>1, <1>3, <2>1 DEF Concluded, OnSchedule, Terminals
<1> QED
  BY <1>6, <1>7, <1>8, <1>11, <1>12, <1>13, <1>14 DEF BInv

LEMMA ReturnKeeps == ASSUME BInv, NEW w \in Workers, Return(w) PROVE BInv'
<1>0. /\ Typed /\ Kinds /\ Counted /\ Claimed /\ Numbered /\ Reporting
  BY DEF BInv
<1>1. PICK g \in Hands : g = worker[w]
  BY <1>0 DEF Kinds
<1>2. /\ HasReported(w) /\ worker' = [worker EXCEPT ![w] = Idle]
      /\ UNCHANGED <<stage, inFlight, terminal, warned, flush, before, spoken, reported>>
      /\ UNCHANGED <<wired, started, stalled, runs, jobOf>>
  BY DEF Return, clientVars
<1>3. g.at \in {"returned", "reporting"}
  BY <1>1, <1>2 DEF HasReported
<1>4. PICK j \in Jobs : j = g.job
  BY <1>0, <1>1, <1>3 DEF Claimed
<1>5. /\ queue \in [Jobs -> {"waiting", "active", "completed", "failed", "abandoned"}]
      /\ made \in [Jobs -> Nat] /\ stalled \in [Jobs -> Nat] /\ started \in [Jobs -> Nat]
  BY <1>0 DEF Kinds
<1>6. CASE ~g.claim
  <2>1. UNCHANGED <<queue, made>>
    BY <1>1, <1>6 DEF Return
  <2>2. Gives(w, j, Idle)
    BY <1>1, <1>2, <1>3, <1>4, <1>5, <2>1 DEF Gives
  <2>3. /\ started[j] = made'[j] + stalled'[j] + AtHand(queue'[j])
        /\ stalled'[j] <= Stalls /\ made'[j] <= Attempts
        /\ made'[j] = Attempts => queue'[j] = "failed"
    BY <1>0, <1>2, <2>1 DEF Counted
  <2> QED
    BY <1>2, <2>1, <2>2, <2>3, GivesKeeps, IdleIsAHand
<1>7. CASE g.claim
  <2>1. /\ made' = [made EXCEPT ![j] = IF g.threw THEN made[j] + 1 ELSE made[j]]
        /\ queue' = [queue EXCEPT ![j] = IF ~g.threw THEN "completed"
                                         ELSE IF made[j] + 1 >= Attempts THEN "failed"
                                         ELSE "waiting"]
    BY <1>1, <1>4, <1>7 DEF Return
  <2>2. /\ g.threw => made'[j] = made[j] + 1
        /\ ~g.threw => made'[j] = made[j]
        /\ ~g.threw => queue'[j] = "completed"
        /\ g.threw /\ made[j] + 1 >= Attempts => queue'[j] = "failed"
        /\ g.threw /\ ~(made[j] + 1 >= Attempts) => queue'[j] = "waiting"
        /\ \A i \in Jobs : i # j => queue'[i] = queue[i] /\ made'[i] = made[i]
        /\ made' \in [Jobs -> Nat]
        /\ queue' \in [Jobs -> {"waiting", "active", "completed", "failed", "abandoned"}]
    BY <1>5, <2>1
  <2>3. /\ queue[j] = "active" /\ g.started = started[j]
        /\ started[j] = made[j] + stalled[j] + 1
        /\ stalled[j] <= Stalls /\ made[j] < Attempts
    <3>1. queue[j] = "active" /\ g.started = started[j]
      BY <1>0, <1>1, <1>4, <1>7 DEF Claimed
    <3>2. AtHand(queue[j]) = 1
      BY <3>1 DEF AtHand
    <3>3. /\ started[j] = made[j] + stalled[j] + 1
         /\ stalled[j] <= Stalls /\ made[j] <= Attempts /\ made[j] # Attempts
      BY <1>0, <3>1, <3>2 DEF Counted
    <3>4. made[j] \in Nat /\ Attempts \in Nat
      BY <1>5, NumbersAssumption
    <3> QED
      BY <3>1, <3>3, <3>4
  <2>4. Gives(w, j, Idle)
    BY <1>1, <1>2, <1>3, <1>4, <1>5, <1>7, <2>2 DEF Gives
  <2>5. /\ started[j] = made'[j] + stalled'[j] + AtHand(queue'[j])
        /\ stalled'[j] <= Stalls /\ made'[j] <= Attempts
        /\ made'[j] = Attempts => queue'[j] = "failed"
    BY <1>2, <1>5, <2>2, <2>3, NumbersAssumption DEF AtHand
  <2>6. ASSUME stalled'[j] = 0, g.at = "reporting", g.threw
        PROVE  queue'[j] \notin {"waiting", "completed"}
    <3>1. g.report \in Runs /\ jobOf[g.report] = j /\ stage[<<g.report, "fail">>] # "unsent"
      BY <1>0, <1>1, <1>3, <1>4, <2>6 DEF Reporting, TerminalOf, Hands
    <3>2. made[j] >= Attempts - 1
      BY <1>2, <2>6, <3>1, JobsAssumption DEF BInv, Final
    <3> QED
      BY <1>5, <2>2, <2>6, <3>2, NumbersAssumption
  <2>7. ASSUME OnSchedule(j)
        PROVE  /\ queue'[j] = "completed" => Settled(j, "success")
               /\ queue'[j] = "failed" => Settled(j, "fail")
    <3>1. g.report # 0 /\ g.report \in Runs /\ jobOf[g.report] = j
      BY <1>0, <1>1, <1>3, <1>4, <2>7 DEF Reporting, Hands
    <3>2. ASSUME g.at = "reporting" PROVE Settled(j, TerminalOf(g.threw))
      <4>1. PICK a \in Terminals : a = TerminalOf(g.threw)
        BY DEF TerminalOf, Terminals
      <4>2. stage[<<g.report, a>>] # "unsent"
        BY <1>0, <1>1, <3>1, <3>2, <4>1 DEF Reporting
      <4>3. stage[<<g.report, a>>] # "inFlight"
        BY <1>1, <1>2, <3>2 DEF HasReported
      <4>4. stage[<<g.report, a>>] = "settled"
        BY <1>0, <3>1, <4>2, <4>3, CheckInsArePairs DEF Typed
      <4> QED
        BY <3>1, <4>1, <4>4 DEF Settled
    <3>3. g.at = "returned" => g.threw /\ g.started < Attempts
      BY <1>0, <1>1, <3>1 DEF Reporting
    <3>4. g.at = "returned" => queue'[j] = "waiting"
      BY <1>5, <2>2, <2>3, <3>3, NumbersAssumption
    <3> QED
      BY <1>3, <2>2, <3>2, <3>4 DEF TerminalOf
  <2> QED
    BY <1>1, <2>4, <2>5, <2>6, <2>7, GivesKeeps, IdleIsAHand
<1> QED
  BY <1>6, <1>7

LEMMA StallKeeps == ASSUME BInv, NEW w \in Workers, Stall(w) PROVE BInv'
<1>0. /\ Typed /\ Kinds /\ Counted /\ Claimed /\ Reporting
  BY DEF BInv
<1>1. PICK g \in Hands : g = worker[w]
  BY <1>0 DEF Kinds
<1>2. /\ g.claim
      /\ UNCHANGED <<stage, inFlight, terminal, warned, flush, before, spoken, reported>>
      /\ UNCHANGED <<wired, started, made, runs, jobOf>>
  BY <1>1 DEF Stall, clientVars
<1>3. g.at # "idle"
  BY <1>0, <1>1, <1>2, IdleIsAHand DEF Claimed
<1>4. PICK j \in Jobs : j = g.job
  BY <1>0, <1>1, <1>3 DEF Claimed
<1>5. /\ queue \in [Jobs -> {"waiting", "active", "completed", "failed", "abandoned"}]
      /\ made \in [Jobs -> Nat] /\ stalled \in [Jobs -> Nat] /\ started \in [Jobs -> Nat]
  BY <1>0 DEF Kinds
<1>6. PICK h \in Hands :
        /\ worker' = [worker EXCEPT ![w] = h]
        /\ h = Idle \/ (/\ ~h.claim /\ h.at = g.at /\ h.threw = g.threw /\ h.job = j
                        /\ h.report = g.report /\ h.begun = g.begun /\ h.started = g.started)
  <2>1. CASE worker' = [worker EXCEPT ![w] = Idle]
    BY <2>1, IdleIsAHand
  <2>2. CASE worker' = [worker EXCEPT ![w].claim = FALSE]
    <3> DEFINE h == [g EXCEPT !.claim = FALSE]
    <3>1. worker' = [worker EXCEPT ![w] = h]
      BY <1>1, <2>2
    <3>2. /\ h \in Hands /\ ~h.claim /\ h.at = g.at /\ h.threw = g.threw /\ h.job = j
          /\ h.report = g.report /\ h.begun = g.begun /\ h.started = g.started
      BY <1>4 DEF Hands
    <3> HIDE DEF h
    <3> QED
      BY <3>1, <3>2
  <2> QED
    BY <2>1, <2>2 DEF Stall
<1>7. \/ stalled[j] < Stalls /\ queue' = [queue EXCEPT ![j] = "waiting"] /\ stalled' = [stalled EXCEPT ![j] = stalled[j] + 1]
      \/ queue' = [queue EXCEPT ![j] = "abandoned"] /\ stalled' = stalled
  BY <1>1, <1>4 DEF Stall
<1>8. /\ \/ stalled[j] < Stalls /\ queue'[j] = "waiting" /\ stalled'[j] = stalled[j] + 1
         \/ queue'[j] = "abandoned" /\ stalled'[j] = stalled[j]
      /\ \A i \in Jobs : i # j => queue'[i] = queue[i] /\ stalled'[i] = stalled[i]
      /\ stalled' \in [Jobs -> Nat]
      /\ queue' \in [Jobs -> {"waiting", "active", "completed", "failed", "abandoned"}]
  BY <1>5, <1>7
<1>9. /\ queue[j] = "active" /\ started[j] = made[j] + stalled[j] + 1
      /\ stalled[j] <= Stalls /\ made[j] < Attempts
  <2>1. queue[j] = "active"
    BY <1>0, <1>1, <1>2, <1>4 DEF Claimed
  <2>2. AtHand(queue[j]) = 1
    BY <2>1 DEF AtHand
  <2>3. /\ started[j] = made[j] + stalled[j] + 1
       /\ stalled[j] <= Stalls /\ made[j] <= Attempts /\ made[j] # Attempts
    BY <1>0, <2>1, <2>2 DEF Counted
  <2>4. made[j] \in Nat /\ Attempts \in Nat
    BY <1>5, NumbersAssumption
  <2> QED
    BY <2>1, <2>3, <2>4
<1>10. Gives(w, j, h)
  BY <1>1, <1>2, <1>3, <1>4, <1>5, <1>6, <1>8 DEF Gives
<1>11. /\ started[j] = made'[j] + stalled'[j] + AtHand(queue'[j])
       /\ stalled'[j] <= Stalls /\ made'[j] <= Attempts
       /\ made'[j] = Attempts => queue'[j] = "failed"
  BY <1>2, <1>5, <1>8, <1>9, NumbersAssumption DEF AtHand
<1>12. stalled'[j] > 0 \/ queue'[j] = "abandoned"
  BY <1>5, <1>8
<1>13. stalled'[j] = 0 => queue'[j] = "abandoned"
  BY <1>5, <1>8
<1>14. queue'[j] # "completed" /\ queue'[j] # "failed"
  BY <1>8
<1> QED
  BY <1>10, <1>11, <1>12, <1>13, <1>14, GivesKeeps

LEMMA NetworkKeeps ==
  ASSUME BInv, NEW c \in CheckIns, SettleCheckIn(c), UNCHANGED bullVars PROVE BInv'
<1>0. /\ Typed /\ Covered /\ Kinds /\ Printed /\ Counted /\ Claimed /\ Numbered /\ Reporting
      /\ Final /\ Concluded /\ Advised
  BY DEF BInv
<1>1. UNCHANGED <<wired, queue, started, made, stalled, worker, runs, jobOf, terminal>>
  BY DEF SettleCheckIn, bullVars, queueVars
<1>2. Typed' /\ Covered'
  BY <1>0, SettleTracks
<1>3. /\ \A d \in CheckIns : stage[d] = "unsent" <=> stage'[d] = "unsent"
      /\ \A d \in CheckIns : stage[d] = "settled" => stage'[d] = "settled"
  BY <1>0 DEF SettleCheckIn, Typed
<1>4. /\ warned' \in SUBSET Warnings /\ spoken' \in [Warnings -> Nat] /\ Printed' /\ warned \subseteq warned'
      /\ reported' \in SUBSET (Loud \X Monitors)
  <2>1. PICK outcome \in Outcomes :
          IF c[1] \in Sinks \/ outcome \in Quiet
            THEN UNCHANGED <<warned, spoken, reported>>
            ELSE /\ reported' = reported \cup {<<outcome, MonitorOf[c[1]]>>}
                 /\ WarnOnce(outcome, MonitorOf[c[1]])
    BY DEF SettleCheckIn
  <2>2. CASE UNCHANGED <<warned, spoken, reported>>
    BY <1>0, <2>2 DEF Kinds, Printed
  <2>3. CASE /\ outcome \in Loud
             /\ reported' = reported \cup {<<outcome, MonitorOf[c[1]]>>}
             /\ WarnOnce(outcome, MonitorOf[c[1]])
    <3>1. <<outcome, MonitorOf[c[1]]>> \in Loud \X Monitors
      BY <2>3, CheckInsArePairs
    <3>2. <<outcome, MonitorOf[c[1]]>> \in Warnings
      BY <3>1, LoudWarnings
    <3>3. /\ warned' \in SUBSET Warnings /\ spoken' \in [Warnings -> Nat] /\ Printed'
          /\ warned \subseteq warned'
      BY <1>0, <2>3, <3>2, PrintsOnce DEF Kinds
    <3> QED
      BY <1>0, <2>3, <3>1, <3>3 DEF Kinds
  <2> QED
    BY <2>1, <2>2, <2>3 DEF Outcomes
<1>5. Kinds' /\ Counted' /\ Claimed' /\ Advised'
  BY <1>0, <1>1, <1>4 DEF Kinds, Counted, Claimed, Advised, OnSchedule, TheMonitor
<1>6. \A r \in Runs, a \in Actions : stage[<<r, a>>] = "unsent" <=> stage'[<<r, a>>] = "unsent"
  BY <1>3, CheckInsArePairs
<1>7. Numbered'
  BY <1>0, <1>1, <1>6 DEF Numbered, OnSchedule
<1>8. Final'
  BY <1>0, <1>1, <1>6, CheckInsArePairs DEF Final, Terminals
<1>9. Concluded'
  <2>1. \A j \in Jobs, a \in Terminals : Settled(j, a) => Settled(j, a)'
    BY <1>1, <1>3, CheckInsArePairs DEF Settled
  <2> QED
    BY <1>0, <1>1, <2>1 DEF Concluded, OnSchedule, Terminals
<1>10. Reporting'
  <2>1. \A v \in Workers : worker[v].report # 0 => worker[v].report \in Runs
    BY <1>0 DEF Kinds, Hands
  <2>2. \A v \in Workers : TerminalOf(worker[v].threw) \in Actions /\ TerminalOf(worker[v].threw)' = TerminalOf(worker[v].threw)
    BY <1>1 DEF TerminalOf, Actions, Terminals
  <2> QED
    BY <1>0, <1>1, <1>6, <2>1, <2>2, CheckInsArePairs DEF Reporting, OnSchedule, WithStart
<1> QED
  BY <1>2, <1>4, <1>5, <1>7, <1>8, <1>9, <1>10 DEF BInv

LEMMA NextBInv == BInv /\ [Next]_vars => BInv'
<1> SUFFICES ASSUME BInv, [Next]_vars PROVE BInv'
  OBVIOUS
<1>1. CASE UNCHANGED vars
  <2>1. /\ UNCHANGED <<stage, inFlight, terminal, warned, flush, before, spoken, reported>>
        /\ UNCHANGED <<wired, queue, started, made, stalled, worker, runs, jobOf>>
    BY <1>1 DEF vars, clientVars, bullVars, queueVars
  <2>2. /\ Typed /\ Covered /\ Kinds /\ Printed /\ Counted /\ Claimed /\ Numbered /\ Reporting
        /\ Final /\ Concluded /\ Advised
    BY DEF BInv
  <2>3. Typed' /\ Covered' /\ Kinds' /\ Printed' /\ Counted' /\ Claimed'
    BY <2>1, <2>2 DEF Typed, Covered, Kinds, Printed, Counted, Claimed
  <2>4. Numbered' /\ Reporting' /\ Advised'
    BY <2>1, <2>2 DEF Numbered, Reporting, Advised, OnSchedule, WithStart, TheMonitor
  <2>5. Final' /\ Concluded'
    BY <2>1, <2>2 DEF Final, Concluded, Settled, OnSchedule
  <2> QED
    BY <2>3, <2>4, <2>5 DEF BInv
<1>2. ASSUME NEW w \in Workers, NEW j \in Jobs, Take(w, j) PROVE BInv'
  BY <1>2, TakeKeeps
<1>3. ASSUME NEW w \in Workers, NEW threw \in BOOLEAN, Finish(w, threw) PROVE BInv'
  BY <1>3, FinishKeeps
<1>4. ASSUME NEW w \in Workers, Return(w) \/ Stall(w) PROVE BInv'
  BY <1>4, ReturnKeeps, StallKeeps
<1>5. ASSUME NEW c \in CheckIns, SettleCheckIn(c), UNCHANGED bullVars PROVE BInv'
  BY <1>5, NetworkKeeps
<1> QED
  BY <1>1, <1>2, <1>3, <1>4, <1>5 DEF Next

\* The invariant holds of every behaviour of the queue, its workers and the client.
THEOREM QueueInvariant == Spec => []BInv
<1>1. Init => BInv
  BY InitBInv
<1>2. BInv /\ [Next]_vars => BInv'
  BY NextBInv
<1> QED
  BY <1>1, <1>2, PTL DEF Spec

-----------------------------------------------------------------------------
LEMMA QueueTyped == BInv => TypeOK
<1> SUFFICES ASSUME BInv PROVE TypeOK
  OBVIOUS
<1>0. Typed /\ Kinds /\ Counted
  BY DEF BInv
<1>1. ClientTypeOK
  <2>1. \A f \in Flushers : /\ flush[f].at \in {"idle", "waiting", "flushed", "expired"}
                            /\ flush[f].pending \in SUBSET CheckIns
    BY <1>0 DEF Typed
  <2> QED
    BY <1>0, <2>1 DEF Typed, Kinds, ClientTypeOK
<1>2. ASSUME NEW j \in Jobs
      PROVE  /\ made[j] \in 0..Attempts /\ stalled[j] \in 0..Stalls
             /\ started[j] \in 0..(Attempts + Stalls)
  <2>1. /\ made[j] \in Nat /\ stalled[j] \in Nat /\ started[j] \in Nat
        /\ Attempts \in Nat /\ Stalls \in Nat
    BY <1>0, NumbersAssumption DEF Kinds
  <2>2. /\ started[j] = made[j] + stalled[j] + AtHand(queue[j])
        /\ stalled[j] <= Stalls /\ made[j] <= Attempts
        /\ made[j] = Attempts => queue[j] = "failed"
    BY <1>0 DEF Counted
  <2>3. AtHand(queue[j]) \in {0, 1} /\ (queue[j] = "failed" => AtHand(queue[j]) = 0)
    BY DEF AtHand
  <2> QED
    BY <2>1, <2>2, <2>3
<1>3. ASSUME NEW w \in Workers
      PROVE  /\ worker[w].job \in Jobs \cup {NoJob}
             /\ worker[w].at \in {"idle", "running", "reporting", "returned"}
             /\ worker[w].report \in Runs \cup {0}
             /\ {worker[w].claim, worker[w].begun, worker[w].threw} \subseteq BOOLEAN
  BY <1>0 DEF Kinds, Hands
<1> QED
  BY <1>0, <1>1, <1>2, <1>3 DEF Kinds, TypeOK

\* No job on a schedule is completed or failed ahead of its check-in, and none that
\* used up its attempts goes unreported.
THEOREM OutcomesAreReported == Spec => []OutcomeIsReported
<1>1. BInv => OutcomeIsReported
  BY QueueTyped DEF BInv, Concluded, OutcomeIsReported
<1> QED
  BY <1>1, QueueInvariant, PTL

\* A job the queue never took back is reported failed on its last attempt and not
\* before, and a job that is on no schedule is never checked in for.
THEOREM NobodyIsAlarmedFalsely == Spec => []NoFalseAlarm
<1>1. BInv => NoFalseAlarm
  <2> SUFFICES ASSUME BInv PROVE NoFalseAlarm
    OBVIOUS
  <2>0. Kinds /\ Printed /\ Numbered /\ Final /\ Advised
    BY DEF BInv
  <2>1. FailIsFinal
    <3> SUFFICES ASSUME NEW j \in Jobs, stalled[j] = 0, NEW r \in Runs, jobOf[r] = j,
                        stage[<<r, "fail">>] # "unsent"
                 PROVE  made[j] >= Attempts - 1 /\ queue[j] \notin {"waiting", "completed"}
      BY DEF FailIsFinal, Dispatched
    <3> QED
      BY <2>0, JobsAssumption DEF Final
  <2>2. ASSUME NEW j \in Jobs \ Repeating, ~wired.allowOneOff
        PROVE  /\ \A a \in Actions : ~Dispatched(j, a)
               /\ started[j] > 0 => spoken[<<"bullmq-one-off", TheMonitor>>] = 1
    <3>1. ~OnSchedule(j)
      BY <2>2 DEF OnSchedule
    <3>2. \A r \in Runs : jobOf[r] # j
      BY <2>0, <3>1, JobsAssumption DEF Numbered
    <3>3. <<"bullmq-one-off", TheMonitor>> \in Warnings
      BY RunsAreNumbers
    <3> QED
      BY <2>0, <3>1, <3>2, <3>3 DEF Dispatched, Advised, Printed
  <2> QED
    BY <2>1, <2>2 DEF NoFalseAlarm, OneOffsAreLeftAlone
<1> QED
  BY <1>1, QueueInvariant, PTL

\* Attempts that run at once never have a start check-in each, unless the caller
\* asked for that.
THEOREM StartsNeverInterleave == Spec => []StartsDoNotInterleave
<1>1. BInv => StartsDoNotInterleave
  <2> SUFFICES ASSUME BInv, wired.pingStart = "unset"
               PROVE  Cardinality({w \in Workers : worker[w].at = "running" /\ worker[w].begun}) <= 1
    BY DEF StartsDoNotInterleave
  <2> DEFINE begun == {w \in Workers : worker[w].at = "running" /\ worker[w].begun}
  <2>0. Kinds /\ Claimed /\ Reporting
    BY DEF BInv
  <2>1. wired.processors \subseteq Workers
    BY <2>0, WiringsAssumption DEF Kinds
  <2>2. begun \subseteq wired.processors
    BY <2>0 DEF Claimed
  <2>3. IsFiniteSet(wired.processors) /\ Cardinality(wired.processors) \in Nat
    BY <2>1, WorkersAssumption, FS_Subset, FS_CardinalityType
  <2>4. IsFiniteSet(begun) /\ Cardinality(begun) \in Nat /\ Cardinality(begun) <= Cardinality(wired.processors)
    BY <2>2, <2>3, FS_Subset, FS_CardinalityType
  <2>5. CASE begun = {}
    <3>1. Cardinality(begun) = 0
      BY <2>5, FS_EmptySet
    <3> QED
      BY <3>1
  <2>6. CASE begun # {}
    <3>1. PICK w \in Workers : worker[w].at = "running" /\ worker[w].begun
      BY <2>6
    <3>2. WithStart
      BY <2>0, <3>1 DEF Reporting
    <3>3. Cardinality(wired.processors) <= 1
      BY <3>2 DEF WithStart
    <3> QED
      BY <2>3, <2>4, <3>3
  <2> QED
    BY <2>5, <2>6
<1> QED
  BY <1>1, QueueInvariant, PTL

=============================================================================
