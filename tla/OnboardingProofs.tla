------------------------- MODULE OnboardingProofs -------------------------
(***************************************************************************)
(* What signup and init guarantee for any number of them side by side, any *)
(* secrets file and account to begin with, any edits, intervals, lifetimes *)
(* and pauses, and whichever are killed and when: a key that was handed    *)
(* over is kept or said to be lost, a poll leaves neither sooner than was  *)
(* asked nor past its code, nothing others wrote is lost, and commands     *)
(* that ask for one monitor make one.                                      *)
(***************************************************************************)
EXTENDS Onboarding, FiniteSetTheorems, SequenceTheorems, WellFoundedInduction, TLAPS

SignupPlaces == {"start", "starting", "waiting", "polling", "checking", "printing", "unsaved",
                 "reading", "writing", "renaming", "over", "killed"}
InitPlaces   == {"start", "listing", "asking", "creating", "printing", "testing",
                 "reading", "writing", "renaming", "over", "killed"}
PlacesOf(program) == IF program = "signup" THEN SignupPlaces ELSE InitPlaces

State ==
  [cast : Commands, pc : SignupPlaces \cup InitPlaces, exit : {-1, 0, 1, Usage},
   interval : Nat, deadline : Nat, wakeAt : Nat, value : Nat, found : SecretsFiles,
   printed : BOOLEAN, saved : BOOLEAN, advised : BOOLEAN, checked : SecretsFiles,
   seen : SecretsFiles, due : Nat, missed : BOOLEAN]

\* A command has a status when it is over and only then.
Placed(s) ==
  s \in State /\ s.pc \in PlacesOf(s.cast.program) /\ (s.exit = -1 <=> s.pc # "over")

Stages == {"unasked", "mailed", "confirmed", "dead", "handed"}

\* Every variable holds a value of its kind.
Kinds ==
  /\ file \in SecretsFiles
  /\ account \in Seq([name : {"job", "other"}, by : Procs \cup {0}])
  /\ service \in [Procs -> Stages]
  /\ now \in 0..Lasts
  /\ others \in 0..Others
  /\ proc \in [Procs -> State] /\ \A p \in Procs : Placed(proc[p])

\* A wait is as long as was asked, or to the end of the code, and no longer.
Waits(s, time) ==
  s.pc = "waiting" =>
    /\ s.wakeAt <= Larger(s.deadline, time)
    /\ s.wakeAt >= s.due \/ s.wakeAt >= s.deadline

\* Where a signup is once it holds its key, and what becomes of the key.
Keeps(s) ==
  s.cast.program = "signup" =>
    /\ s.value # 0 => s.pc \notin {"start", "starting", "waiting", "polling"}
    /\ s.pc \in {"checking", "reading", "writing", "renaming", "unsaved"} => ~s.cast.printEnv
    /\ s.pc = "printing" => s.cast.printEnv
    /\ s.printed => s.pc = "over"
    /\ s.value # 0 /\ s.pc = "over" =>
         (s.saved \/ s.printed) /\ (s.exit = 0 => s.printed = s.cast.printEnv)

\* A key handed over that the command does not hold is lost, and it goes on
\* asking, or has told how to get another.
Loses(s, stage) ==
  stage = "handed" /\ s.value = 0 =>
    /\ s.pc \in {"waiting", "polling", "over", "killed"}
    /\ s.pc = "over" => s.exit = 1 /\ s.advised

\* What is renamed over the file is the file as read with a line of the command's
\* own, and what signup reads it has asked about.
Saves(s) ==
  /\ s.pc \in {"writing", "renaming"} => s.found = s.seen /\ Inspect(s.seen).ok
  /\ s.cast.program = "signup" /\ s.pc \in {"reading", "writing", "renaming"} =>
       ~DestinationRefused(dir, s.checked, "API_KEY")

\* An init tries the identifier when it is where it was to be put.
Puts(s) == IF s.cast.printEnv THEN s.printed ELSE s.saved

Uses(s) ==
  s.cast.program = "init" =>
    /\ s.pc = "printing" => s.cast.printEnv
    /\ s.pc \in {"reading", "writing", "renaming"} => ~s.cast.printEnv
    /\ s.pc = "testing" => Puts(s)
    /\ s.exit = 0 => s.value \in DOMAIN account /\ Puts(s)

\* A monitor one of the commands made is the one its key stands for.
Made ==
  /\ \A key \in DOMAIN stored : stored[key] \in Nat \ {0}
  /\ \A uuid \in DOMAIN account : account[uuid].by \in Procs =>
       KeyOf(account[uuid].by) \in DOMAIN stored /\ stored[KeyOf(account[uuid].by)] = uuid

\* A command about to make a monitor it found none of was only overtaken.
Ahead ==
  \A p \in Procs : proc[p].pc = "creating" /\ ~proc[p].missed =>
    \A uuid \in Called("job") : account[uuid].by \in Procs \ {p}

\* What is so of a command by itself, at its stage of the service.
Sound(s, stage) == Waits(s, now) /\ Keeps(s) /\ Loses(s, stage) /\ Saves(s) /\ Uses(s)

OInv == Kinds /\ Made /\ Ahead /\ \A p \in Procs : Sound(proc[p], service[p])

-----------------------------------------------------------------------------
(* The operators.                                                           *)

\* What the invariant says of one command.
LEMMA Known ==
  ASSUME OInv, NEW p \in Procs
  PROVE  /\ proc \in [Procs -> State] /\ proc[p] \in State /\ Placed(proc[p])
         /\ service \in [Procs -> Stages] /\ service[p] \in Stages
         /\ Sound(proc[p], service[p])
         /\ proc[p].cast \in Commands
         /\ file \in SecretsFiles /\ now \in Nat /\ others \in Nat
         /\ account \in Seq([name : {"job", "other"}, by : Procs \cup {0}])
BY TimesAssumption DEF OInv, Kinds, State, Lasts

\* A command that is over with a failure is no worse than that, if the key it
\* holds was printed and a key it lost was told of.
LEMMA Failing ==
  ASSUME NEW s \in State, NEW stage, s.pc = "over", s.exit \in {1, Usage},
         s.cast.program = "signup" /\ s.value # 0 => s.printed,
         stage = "handed" /\ s.value = 0 => s.exit = 1 /\ s.advised
  PROVE  Placed(s) /\ Sound(s, stage)
<1>1. s.exit # 0 /\ s.exit # -1
  BY DEF Usage
<1>2. s.pc \in PlacesOf(s.cast.program)
  BY DEF PlacesOf, SignupPlaces, InitPlaces
<1> QED
  BY <1>1, <1>2 DEF Placed, Sound, Waits, Keeps, Loses, Saves, Uses

\* A command that goes to a sound state on an account nothing is done to leaves
\* the rest as it was.
LEMMA StepKeeps ==
  ASSUME OInv, NEW p \in Procs, NEW s, NEW stage \in Stages, Becomes(p, s),
         Placed(s), Sound(s, stage), s.cast = proc[p].cast,
         service' \in [Procs -> Stages], service'[p] = stage,
         \A q \in Procs : q # p => service'[q] = service[q],
         UNCHANGED <<dir, account, stored, now, others>>, file' \in SecretsFiles,
         s.pc = "creating" /\ ~s.missed => \A uuid \in Called("job") : account[uuid].by \in Procs \ {p}
  PROVE  OInv'
<1>1. /\ proc' \in [Procs -> State] /\ proc'[p] = s
      /\ \A q \in Procs : q # p => proc'[q] = proc[q]
  BY DEF Becomes, OInv, Kinds, Placed
<1>2. \A q \in Procs : proc'[q].cast = proc[q].cast
  BY <1>1
<1>3. Kinds'
  <2>1. \A q \in Procs : Placed(proc'[q])
    <3> TAKE q \in Procs
    <3> QED
      BY <1>1 DEF OInv, Kinds
  <2>2. (\A q \in Procs : Placed(proc[q]))'
    BY <2>1 DEF Placed
  <2> QED
    BY <1>1, <2>2 DEF OInv, Kinds
<1>4. Made'
  <2> SUFFICES ASSUME NEW uuid \in DOMAIN account, account[uuid].by \in Procs
               PROVE  LET q == account[uuid].by IN
                        KeyOf(q)' \in DOMAIN stored /\ stored[KeyOf(q)'] = uuid
    BY DEF OInv, Made, KeyOf
  <2>1. PICK q \in Procs : q = account[uuid].by
    OBVIOUS
  <2>2. KeyOf(q) \in DOMAIN stored /\ stored[KeyOf(q)] = uuid
    BY <2>1 DEF OInv, Made
  <2>3. KeyOf(q)' = KeyOf(q)
    BY <1>2 DEF KeyOf
  <2> QED
    BY <2>1, <2>2, <2>3
<1>5. Ahead'
  <2> SUFFICES ASSUME NEW q \in Procs, proc'[q].pc = "creating", ~proc'[q].missed
               PROVE  \A uuid \in Called("job") : account[uuid].by \in Procs \ {q}
    BY DEF Ahead, Called
  <2> QED
    BY <1>1 DEF OInv, Ahead
<1>6. ASSUME NEW q \in Procs PROVE Sound(proc[q], service[q])'
  <2>1. PICK t : t = proc'[q]
    OBVIOUS
  <2>2. PICK z : z = service'[q]
    OBVIOUS
  <2>3. Sound(t, z)
    BY <1>1, <2>1, <2>2 DEF OInv
  <2>4. Sound(t, z)'
    BY <2>3 DEF Sound, Waits, Keeps, Loses, Saves, Uses, Puts, DestinationRefused
  <2> QED
    BY <2>1, <2>2, <2>4
<1> QED
  BY <1>3, <1>4, <1>5, <1>6 DEF OInv

\* As above, of a command whose stage is left alone.
LEMMA MoveKeeps ==
  ASSUME OInv, NEW p \in Procs, NEW s, Becomes(p, s), Placed(s), Sound(s, service[p]),
         s.cast = proc[p].cast, s.pc # "creating",
         UNCHANGED <<dir, account, stored, service, now, others>>, file' \in SecretsFiles
  PROVE  OInv'
BY Known, StepKeeps

-----------------------------------------------------------------------------
(* The file.                                                                *)

LEMMA Least ==
  ASSUME NEW T, T \subseteq Nat, T # {}
  PROVE  \E x \in T : \A y \in T : x <= y
<1> DEFINE R == OpToRel(<, Nat)
<1>1. IsWellFoundedOn(R, Nat)
  BY NatLessThanWellFounded
<1>2. \A x, y \in Nat : <<x, y>> \in R <=> x < y
  BY DEF OpToRel
<1> HIDE DEF R
<1>3. PICK x \in T : \A y \in T : ~(<<y, x>> \in R)
  BY <1>1, WFMin
<1>4. \A y \in T : x <= y
  <2> TAKE y \in T
  <2>1. x \in Nat /\ y \in Nat /\ ~(y < x)
    BY <1>2, <1>3
  <2> QED
    BY <2>1
<1> QED
  BY <1>4

\* A line is added or replaced: what is lost assigned the same variable.
LEMMA UpsertKeepsOthers ==
  ASSUME NEW lines \in Seq(Assignments), NEW key \in {"API_KEY", "MONITOR", "OTHER"}, NEW value \in Nat
  PROVE  /\ UpsertEnvLine(lines, key, value) \in Seq(Assignments)
         /\ \A line \in Holds(lines) : line \in Holds(UpsertEnvLine(lines, key, value)) \/ line[1] = key
<1> DEFINE after == UpsertEnvLine(lines, key, value)
<1>0. <<key, value>> \in Assignments /\ DOMAIN lines = 1..Len(lines) /\ Len(lines) \in Nat
  BY LenProperties DEF Assignments
<1>1. CASE Assigns(lines, key)
  <2> DEFINE at == CHOOSE i \in DOMAIN lines :
                     lines[i][1] = key /\ \A j \in 1..(i - 1) : lines[j][1] # key
             T == {i \in DOMAIN lines : lines[i][1] = key}
  <2>1. PICK i \in T : \A j \in T : i <= j
    <3>0. \A i \in DOMAIN lines : i \in Nat
      BY <1>0
    <3>1. T \subseteq Nat
      BY <3>0
    <3>2. T # {}
      BY <1>1 DEF Assigns
    <3> HIDE DEF T
    <3> QED
      BY <3>1, <3>2, Least
  <2>2. \A j \in 1..(i - 1) : lines[j][1] # key
    <3> TAKE j \in 1..(i - 1)
    <3>1. j \in DOMAIN lines /\ ~(i <= j)
      BY <1>0, <2>1
    <3> QED
      BY <2>1, <3>1
  <2>3. at \in DOMAIN lines /\ lines[at][1] = key
    BY <2>1, <2>2
  <2>4. after = [lines EXCEPT ![at] = <<key, value>>]
    BY <1>1 DEF UpsertEnvLine
  <2> HIDE DEF at, after
  <2>5. after \in Seq(Assignments) /\ DOMAIN after = DOMAIN lines
    BY <1>0, <2>3, <2>4, ExceptSeq
  <2>6. \A j \in DOMAIN lines : j # at => after[j] = lines[j]
    BY <2>4
  <2>7. \A line \in Holds(lines) : line \in Holds(after) \/ line[1] = key
    BY <2>3, <2>5, <2>6 DEF Holds
  <2> QED
    BY <2>5, <2>7 DEF after
<1>2. CASE ~Assigns(lines, key)
  <2>1. after = Append(lines, <<key, value>>)
    BY <1>2 DEF UpsertEnvLine
  <2> HIDE DEF after
  <2>2. /\ after \in Seq(Assignments) /\ Len(after) = Len(lines) + 1
        /\ \A j \in 1..Len(lines) : after[j] = lines[j]
    BY <1>0, <2>1, AppendProperties
  <2>3. DOMAIN after = 1..(Len(lines) + 1)
    BY <2>2, LenProperties
  <2>4. \A line \in Holds(lines) : line \in Holds(after)
    BY <1>0, <2>2, <2>3 DEF Holds
  <2> QED
    BY <2>2, <2>4 DEF after
<1> QED
  BY <1>1, <1>2

\* What is renamed over the file is a file a command may find there.
LEMMA RenamedIsAFile ==
  ASSUME NEW found \in SecretsFiles, NEW key \in {"API_KEY", "MONITOR", "OTHER"}, NEW value \in Nat
  PROVE  Renamed(found, key, value) \in SecretsFiles
<1>1. found.lines \in Seq(Assignments) /\ found.mode \in {"private", "shared"}
  BY DEF SecretsFiles
<1>2. UpsertEnvLine(found.lines, key, value) \in Seq(Assignments)
  BY <1>1, UpsertKeepsOthers
<1> DEFINE lines == UpsertEnvLine(found.lines, key, value)
<1> HIDE DEF lines
<1>3. [kind |-> "file", lines |-> lines, mode |-> found.mode] \in SecretsFiles
  BY <1>1, <1>2 DEF SecretsFiles, lines
<1> QED
  BY <1>3 DEF Renamed, lines

-----------------------------------------------------------------------------
(* Beginning and signing up.                                                *)

\* A command that has done nothing.
LEMMA CommandIsPlaced ==
  ASSUME NEW cast \in Commands
  PROVE  LET s == Command(cast) IN
           /\ s \in State /\ Placed(s) /\ s.cast = cast /\ s.pc = "start" /\ s.exit = -1
           /\ s.value = 0 /\ ~s.printed
<1> DEFINE s == Command(cast)
<1>1. Absent \in SecretsFiles
  <2>1. <<>> \in Seq(Assignments)
    BY EmptySeq
  <2> QED
    BY <2>1 DEF Absent, SecretsFiles
<1>2. /\ s \in State /\ s.cast = cast /\ s.pc = "start" /\ s.exit = -1 /\ s.value = 0 /\ ~s.printed
  BY <1>1 DEF Command, State, SignupPlaces, InitPlaces
<1> HIDE DEF s
<1>3. Placed(s)
  BY <1>2 DEF Placed, PlacesOf, SignupPlaces, InitPlaces
<1> QED
  BY <1>2, <1>3 DEF s

LEMMA InitOInv == Init => OInv
<1> SUFFICES ASSUME Init PROVE OInv
  OBVIOUS
<1>1. PICK setup \in Setups : account = setup.account /\ proc = [p \in Procs |-> Command(setup.cast[p])]
  BY DEF Init
<1>2. /\ setup.cast \in [Procs -> Commands] /\ account \in Seq([name : {"job", "other"}, by : {0}])
      /\ 0 \notin Procs
  BY <1>1, SetupsAssumption
<1>3. file \in SecretsFiles
  BY FilesAssumption DEF Init
<1>4. ASSUME NEW p \in Procs
      PROVE  proc[p] \in State /\ Placed(proc[p]) /\ Sound(proc[p], service[p])
  <2>1. proc[p] = Command(setup.cast[p]) /\ service[p] = "unasked" /\ setup.cast[p] \in Commands
    BY <1>1, <1>2 DEF Init
  <2>2. PICK c \in Commands : c = setup.cast[p]
    BY <2>1
  <2>3. PICK s : s = Command(c)
    OBVIOUS
  <2>4. s \in State /\ Placed(s) /\ s.pc = "start" /\ s.value = 0 /\ ~s.printed /\ s.exit = -1
    BY <2>3, CommandIsPlaced
  <2>5. Sound(s, "unasked")
    BY <2>4 DEF Sound, Waits, Keeps, Loses, Saves, Uses
  <2> QED
    BY <2>1, <2>2, <2>3, <2>4, <2>5
<1>5. /\ account \in Seq([name : {"job", "other"}, by : Procs \cup {0}])
      /\ \A uuid \in DOMAIN account : account[uuid].by \notin Procs
  <2>1. [name : {"job", "other"}, by : {0}] \subseteq [name : {"job", "other"}, by : Procs \cup {0}]
    OBVIOUS
  <2>2. \A uuid \in DOMAIN account : account[uuid] \in [name : {"job", "other"}, by : {0}]
    BY <1>2, ElementOfSeq, LenProperties
  <2> QED
    BY <1>2, <2>1, <2>2, SeqMonotonic
<1>6. Kinds
  <2>1. Lifetime \in Nat /\ Budget \in Nat /\ Others \in Nat
    BY TimesAssumption
  <2>2. now \in 0..Lasts /\ others \in 0..Others
    BY <2>1 DEF Init, Lasts
  <2>3. service \in [Procs -> Stages]
    BY DEF Init, Stages
  <2>4. proc \in [Procs -> State]
    BY <1>1, <1>4
  <2> QED
    BY <1>3, <1>4, <1>5, <2>2, <2>3, <2>4 DEF Kinds
<1>7. Made
  BY <1>5 DEF Init, Made
<1>8. Ahead
  BY <1>1 DEF Ahead, Command
<1> QED
  BY <1>4, <1>6, <1>7, <1>8 DEF OInv

\* A command that fails before it holds a key loses none.
LEMMA ExitKeeps ==
  ASSUME OInv, NEW p \in Procs, NEW code \in {1, Usage}, Exit(p, code), proc[p].pc \notin {"over", "killed"},
         NEW stage \in Stages, proc[p].cast.program = "signup" => proc[p].value = 0 /\ stage # "handed",
         stage = "handed" => service[p] = "handed",
         service' \in [Procs -> Stages], service'[p] = stage,
         \A q \in Procs : q # p => service'[q] = service[q],
         UNCHANGED <<dir, file, account, stored, now, others>>
  PROVE  OInv'
<1> DEFINE s == [proc[p] EXCEPT !.pc = "over", !.exit = code]
<1>1. code \in {1, 64} /\ proc[p] \in State /\ Sound(proc[p], service[p]) /\ file \in SecretsFiles
  BY Known DEF Usage
<1>2. s \in State
  BY <1>1 DEF State, SignupPlaces, InitPlaces, Usage
<1>3. s.cast = proc[p].cast /\ s.pc = "over" /\ s.exit = code /\ s.value = proc[p].value
  BY <1>1 DEF State
<1>4. Becomes(p, s)
  BY DEF Exit
<1> HIDE DEF s
<1>5. s.cast.program = "signup" \/ stage # "handed" \/ s.value # 0
  BY <1>1, <1>3, Known DEF Sound, Loses, Placed, PlacesOf, InitPlaces
<1>6. Placed(s) /\ Sound(s, stage)
  BY <1>2, <1>3, <1>5, Failing
<1> QED
  BY <1>1, <1>3, <1>4, <1>6, StepKeeps

\* A signup is where it is only before its key has come.
LEMMA NoKeyYet ==
  ASSUME OInv, NEW p \in Procs,
         Is(p, "signup", "start") \/ Is(p, "signup", "starting")
           \/ Is(p, "signup", "waiting") \/ Is(p, "signup", "polling")
  PROVE  /\ proc[p].value = 0 /\ ~proc[p].printed
         /\ proc[p].pc \in {"start", "starting"} => service[p] # "handed"
BY Known DEF Is, Sound, Keeps, Loses

LEMMA SignupBeginsKeeps ==
  ASSUME OInv, NEW p \in Procs, SignupBegins(p)
  PROVE  OInv'
<1>1. /\ UNCHANGED <<dir, file, account, stored, service, now, others>>
      /\ proc[p].value = 0 /\ ~proc[p].printed /\ service[p] # "handed"
      /\ proc[p].cast.program = "signup" /\ proc[p].pc = "start"
  BY NoKeyYet DEF SignupBegins, Is
<1>2. CASE Exit(p, Usage)
  BY <1>1, <1>2, ExitKeeps, Known
<1>3. CASE Becomes(p, [proc[p] EXCEPT !.pc = "starting"])
  <2> DEFINE s == [proc[p] EXCEPT !.pc = "starting"]
  <2>0. proc[p] \in State
    BY Known
  <2>1. /\ s \in State /\ s.cast = proc[p].cast /\ s.pc = "starting" /\ s.exit = proc[p].exit
        /\ s.value = proc[p].value /\ s.printed = proc[p].printed
    BY <2>0 DEF State, SignupPlaces, InitPlaces
  <2>2. Becomes(p, s)
    BY <1>3
  <2> HIDE DEF s
  <2>3. Placed(s) /\ Sound(s, service[p])
    BY <1>1, <2>1, Known DEF Placed, PlacesOf, SignupPlaces, InitPlaces, Sound, Waits, Keeps, Loses, Saves, Uses
  <2> QED
    BY <1>1, <2>1, <2>2, <2>3, MoveKeeps, Known
<1> QED
  BY <1>2, <1>3 DEF SignupBegins

\* A signup that waits does so until the service may be asked again, or the code
\* has run out.
LEMMA WaitingIsSound ==
  ASSUME NEW s \in State, NEW stage, s.cast.program = "signup", s.pc = "waiting", s.exit = -1,
         s.value = 0, ~s.printed, now \in Nat,
         s.wakeAt <= Larger(s.deadline, now), s.wakeAt >= s.due \/ s.wakeAt >= s.deadline
  PROVE  Placed(s) /\ Sound(s, stage)
<1>1. Placed(s)
  BY DEF Placed, PlacesOf, SignupPlaces
<1>2. Waits(s, now)
  BY DEF Waits
<1> QED
  BY <1>1, <1>2 DEF Sound, Keeps, Loses, Saves, Uses

LEMMA SignupStartsKeeps ==
  ASSUME OInv, NEW p \in Procs, SignupStarts(p)
  PROVE  OInv'
<1>1. /\ UNCHANGED <<dir, file, account, stored, now, others>>
      /\ proc[p].value = 0 /\ ~proc[p].printed /\ service[p] # "handed"
      /\ proc[p].cast.program = "signup" /\ proc[p].pc = "starting"
      /\ "mailed" \in Stages /\ "mailed" # "handed"
  BY NoKeyYet DEF SignupStarts, Is, Stages
<1>2. CASE service' = [service EXCEPT ![p] = "mailed"] /\ Exit(p, 1)
  <2>1. /\ service' \in [Procs -> Stages] /\ service'[p] = "mailed"
        /\ \A q \in Procs : q # p => service'[q] = service[q]
    BY <1>1, <1>2, Known
  <2> QED
    BY <1>1, <1>2, <2>1, ExitKeeps
<1>3. CASE (\E code \in {1, Usage} : Exit(p, code)) /\ UNCHANGED service
  BY <1>1, <1>3, ExitKeeps, Known
<1>4. ASSUME service' = [service EXCEPT ![p] = "mailed"], NEW interval \in Intervals,
             LET wait == Larger(interval, 1) IN
               Becomes(p, [proc[p] EXCEPT !.pc = "waiting", !.interval = wait,
                             !.deadline = now + Lifetime, !.due = now + wait,
                             !.wakeAt = now + Smaller(wait, Lifetime)])
      PROVE  OInv'
  <2> DEFINE wait  == Larger(interval, 1)
             until == now + Smaller(wait, Lifetime)
             due == now + wait
             end == now + Lifetime
             s == [proc[p] EXCEPT !.pc = "waiting", !.interval = wait, !.deadline = end,
                                  !.due = due, !.wakeAt = until]
  <2>1. interval \in Nat /\ now \in Nat /\ Lifetime \in Nat
    BY TimesAssumption, Known
  <2>2. /\ wait \in Nat /\ until \in Nat /\ due \in Nat /\ end \in Nat
        /\ until <= Larger(end, now)
        /\ until >= due \/ until >= end
    BY <2>1 DEF Larger, Smaller
  <2>3. Becomes(p, s)
    BY <1>4
  <2> HIDE DEF wait, until, due, end
  <2>0. proc[p] \in State
    BY Known
  <2>4. /\ s \in State /\ s.cast = proc[p].cast /\ s.pc = "waiting" /\ s.exit = proc[p].exit
        /\ s.value = proc[p].value /\ s.printed = proc[p].printed /\ s.deadline = end
        /\ s.due = due /\ s.wakeAt = until
    BY <2>0, <2>2 DEF State, SignupPlaces, InitPlaces
  <2> HIDE DEF s
  <2>5. Placed(s) /\ Sound(s, "mailed")
    BY <1>1, <2>1, <2>2, <2>4, WaitingIsSound, Known DEF Placed
  <2>6. /\ service' \in [Procs -> Stages] /\ service'[p] = "mailed"
        /\ \A q \in Procs : q # p => service'[q] = service[q] /\ file \in SecretsFiles
    BY <1>1, <1>4, Known
  <2> QED
    BY <1>1, <2>3, <2>4, <2>5, <2>6, StepKeeps, Known
<1> QED
  BY <1>2, <1>3, <1>4 DEF SignupStarts

\* A poll that is to be repeated is, after what was asked.
LEMMA WaitsOnKeeps ==
  ASSUME OInv, NEW p \in Procs, NEW error, NEW stage \in Stages,
         Is(p, "signup", "polling"), Becomes(p, WaitsOn(p, error)),
         service' \in [Procs -> Stages], service'[p] = stage,
         \A q \in Procs : q # p => service'[q] = service[q],
         UNCHANGED <<dir, file, account, stored, now, others>>
  PROVE  OInv'
<1> DEFINE pause == IF error = "rate-limit" THEN Larger(proc[p].interval, RetryAfter)
                                            ELSE proc[p].interval
           until == now + Smaller(SecondsAfter(p, error), Larger(proc[p].deadline - now, 0))
           s == [proc[p] EXCEPT !.pc = "waiting", !.wakeAt = until, !.due = now + pause]
<1>0. /\ proc[p].cast.program = "signup" /\ proc[p].pc = "polling" /\ proc[p] \in State
      /\ proc[p].value = 0 /\ ~proc[p].printed /\ now \in Nat
  BY NoKeyYet, Known DEF Is
<1>1. Becomes(p, s)
  BY DEF WaitsOn
<1>2. /\ proc[p].deadline \in Nat /\ proc[p].interval \in Nat /\ RetryAfter \in Nat
  BY <1>0, TimesAssumption DEF State
<1>3. /\ pause \in Nat /\ now + pause \in Nat
  BY <1>0, <1>2 DEF Larger
<1>4. /\ until \in Nat /\ until <= Larger(proc[p].deadline, now)
      /\ until >= now + pause \/ until >= proc[p].deadline
  BY <1>0, <1>2 DEF Larger, Smaller, SecondsAfter
<1> HIDE DEF pause, until
<1>5. /\ s \in State /\ s.cast = proc[p].cast /\ s.pc = "waiting" /\ s.exit = proc[p].exit
      /\ s.value = proc[p].value /\ s.printed = proc[p].printed
      /\ s.deadline = proc[p].deadline /\ s.due = now + pause /\ s.wakeAt = until
  BY <1>0, <1>3, <1>4, ZenonT(60) DEF State, SignupPlaces, InitPlaces
<1> HIDE DEF s
<1>6. Placed(s) /\ Sound(s, stage)
  BY <1>0, <1>3, <1>4, <1>5, WaitingIsSound, Known DEF Placed
<1> QED
  BY <1>1, <1>5, <1>6, StepKeeps, Known

\* A signup that gives up says how another key is got.
LEMMA GivesUpKeeps ==
  ASSUME OInv, NEW p \in Procs, NEW stage \in Stages,
         Is(p, "signup", "polling") \/ Is(p, "signup", "waiting"), Becomes(p, StopPolling(p)),
         service' \in [Procs -> Stages], service'[p] = stage,
         \A q \in Procs : q # p => service'[q] = service[q],
         UNCHANGED <<dir, file, account, stored, now, others>>
  PROVE  OInv'
<1> DEFINE s == [proc[p] EXCEPT !.pc = "over", !.exit = 1, !.advised = TRUE]
<1>0. proc[p].value = 0 /\ proc[p] \in State
  BY NoKeyYet, Known
<1>1. Becomes(p, s)
  BY DEF StopPolling
<1>2. /\ s \in State /\ s.cast = proc[p].cast /\ s.pc = "over" /\ s.exit = 1
      /\ s.value = proc[p].value /\ s.advised
  BY <1>0, ZenonT(60) DEF State, SignupPlaces, InitPlaces
<1> HIDE DEF s
<1>3. Placed(s) /\ Sound(s, stage)
  BY <1>0, <1>2, Failing
<1> QED
  BY <1>1, <1>2, <1>3, StepKeeps, Known

LEMMA WakesKeeps ==
  ASSUME OInv, NEW p \in Procs, Wakes(p)
  PROVE  OInv'
<1>1. /\ UNCHANGED <<dir, file, account, stored, service, now, others>>
      /\ Is(p, "signup", "waiting") /\ proc[p].value = 0 /\ ~proc[p].printed
      /\ proc[p].cast.program = "signup" /\ proc[p].pc = "waiting"
  BY NoKeyYet DEF Wakes, Is
<1>2. CASE Becomes(p, [proc[p] EXCEPT !.pc = "over", !.exit = 1, !.advised = TRUE])
  BY <1>1, <1>2, GivesUpKeeps, Known DEF StopPolling
<1>3. CASE Becomes(p, [proc[p] EXCEPT !.pc = "polling", !.wakeAt = now + Budget])
  <2> DEFINE until == now + Budget
             s == [proc[p] EXCEPT !.pc = "polling", !.wakeAt = until]
  <2>1. until \in Nat
    BY TimesAssumption, Known
  <2> HIDE DEF until
  <2>0. proc[p] \in State
    BY Known
  <2>2. /\ s \in State /\ s.cast = proc[p].cast /\ s.pc = "polling" /\ s.exit = proc[p].exit
        /\ s.value = proc[p].value /\ s.printed = proc[p].printed
    BY <2>0, <2>1 DEF State, SignupPlaces, InitPlaces
  <2>3. Becomes(p, s)
    BY <1>3 DEF until
  <2> HIDE DEF s
  <2>4. Placed(s) /\ Sound(s, service[p])
    BY <1>1, <2>2, Known DEF Placed, PlacesOf, SignupPlaces, Sound, Waits, Keeps, Loses, Saves, Uses
  <2> QED
    BY <1>1, <2>2, <2>3, <2>4, MoveKeeps, Known
<1> QED
  BY <1>2, <1>3 DEF Wakes

\* What a poll comes to: another, the key, or the end.
HandedOver(p) ==
  [proc[p] EXCEPT !.pc = IF proc[p].cast.printEnv THEN "printing" ELSE "checking", !.value = Token]

LEMMA PollComesTo ==
  ASSUME NEW p \in Procs, NEW status \in {200, 202, 403, 410, 429, 503}
  PROVE  \/ \E error \in {"pending", "transport", "rate-limit"} : HearPoll(p, status) = WaitsOn(p, error)
         \/ HearPoll(p, status) = StopPolling(p)
         \/ status = 200 /\ HearPoll(p, status) = HandedOver(p)
<1>1. /\ ErrorForStatus(403, "signup") # "rate-limit" /\ ErrorForStatus(410, "signup") # "rate-limit"
      /\ ErrorForStatus(429, "signup") = "rate-limit"
  BY DEF ErrorForStatus, SignupErrorFor
<1> QED
  BY <1>1 DEF HearPoll, HandedOver

LEMMA HandedOverKeeps ==
  ASSUME OInv, NEW p \in Procs, NEW stage \in Stages,
         Is(p, "signup", "polling"), Becomes(p, HandedOver(p)),
         service' \in [Procs -> Stages], service'[p] = stage,
         \A q \in Procs : q # p => service'[q] = service[q],
         UNCHANGED <<dir, file, account, stored, now, others>>
  PROVE  OInv'
<1>0. /\ proc[p].cast.program = "signup" /\ ~proc[p].printed /\ proc[p] \in State
      /\ proc[p].pc = "polling" /\ proc[p].cast.printEnv \in BOOLEAN
  BY NoKeyYet, Known DEF Is, Commands
<1> DEFINE place == IF proc[p].cast.printEnv THEN "printing" ELSE "checking"
           s == [proc[p] EXCEPT !.pc = place, !.value = Token]
<1>1. Becomes(p, s)
  BY DEF HandedOver
<1>2. place \in {"printing", "checking"} /\ (place = "printing" <=> proc[p].cast.printEnv)
  BY <1>0
<1> HIDE DEF place
<1>3. /\ s \in State /\ s.cast = proc[p].cast /\ s.pc = place /\ s.exit = proc[p].exit
      /\ s.value = 66 /\ s.printed = proc[p].printed
  BY <1>0, <1>2 DEF State, SignupPlaces, InitPlaces, Token
<1> HIDE DEF s
<1>4. Placed(s)
  BY <1>0, <1>2, <1>3, Known DEF Placed, PlacesOf, SignupPlaces
<1>5. Sound(s, stage)
  BY <1>0, <1>2, <1>3 DEF Sound, Waits, Keeps, Loses, Saves, Uses
<1> QED
  BY <1>1, <1>2, <1>3, <1>4, <1>5, StepKeeps, Known

\* Whatever a poll is answered with.
LEMMA PollKeeps ==
  ASSUME OInv, NEW p \in Procs, NEW status \in {200, 202, 403, 410, 429, 503}, NEW stage \in Stages,
         Is(p, "signup", "polling"), Becomes(p, HearPoll(p, status)),
         service' \in [Procs -> Stages], service'[p] = stage,
         \A q \in Procs : q # p => service'[q] = service[q],
         UNCHANGED <<dir, file, account, stored, now, others>>
  PROVE  OInv'
<1>1. CASE \E error \in {"pending", "transport", "rate-limit"} : HearPoll(p, status) = WaitsOn(p, error)
  BY <1>1, WaitsOnKeeps
<1>2. CASE HearPoll(p, status) = StopPolling(p)
  BY <1>2, GivesUpKeeps
<1>3. CASE HearPoll(p, status) = HandedOver(p)
  BY <1>3, HandedOverKeeps
<1> QED
  BY <1>1, <1>2, <1>3, PollComesTo

LEMMA PollServedKeeps ==
  ASSUME OInv, NEW p \in Procs, PollServed(p)
  PROVE  OInv'
<1>1. /\ Is(p, "signup", "polling") /\ UNCHANGED <<dir, file, account, stored, now, others>>
      /\ service' = IF service[p] = "confirmed" THEN [service EXCEPT ![p] = "handed"] ELSE service
  BY DEF PollServed
<1>2. PICK stage \in Stages : service' \in [Procs -> Stages] /\ service'[p] = stage
                                /\ \A q \in Procs : q # p => service'[q] = service[q]
  BY <1>1, Known DEF Stages
<1>3. CASE Becomes(p, HearPoll(p, PollStatus(service[p])))
  <2>1. PICK status \in {200, 202, 410} : status = PollStatus(service[p])
    BY DEF PollStatus
  <2> QED
    BY <1>1, <1>2, <1>3, <2>1, PollKeeps
<1>4. CASE Becomes(p, WaitsOn(p, "transport"))
  BY <1>1, <1>2, <1>4, WaitsOnKeeps
<1> QED
  BY <1>3, <1>4 DEF PollServed

LEMMA PollRefusedKeeps ==
  ASSUME OInv, NEW p \in Procs, PollRefused(p)
  PROVE  OInv'
BY PollKeeps, Known DEF PollRefused

\* Whoever types the code changes nothing a command knows.
LEMMA CodeTypedKeeps ==
  ASSUME OInv, NEW p \in Procs, CodeTyped(p)
  PROVE  OInv'
<1>1. /\ UNCHANGED <<dir, file, account, stored, now, proc, others>>
      /\ service' \in [Procs -> Stages] /\ service'[p] # "handed"
      /\ \A q \in Procs : q # p => service'[q] = service[q]
  BY Known DEF CodeTyped, Stages
<1>2. Kinds' /\ Made' /\ Ahead'
  BY <1>1 DEF OInv, Kinds, Made, KeyOf, Ahead, Called
<1>3. ASSUME NEW q \in Procs PROVE Sound(proc[q], service[q])'
  <2>1. PICK t : t = proc[q]
    OBVIOUS
  <2>2. PICK z : z = service'[q]
    OBVIOUS
  <2>3. Sound(t, z)
    BY <1>1, <2>1, <2>2 DEF OInv, Sound, Loses
  <2>4. Sound(t, z)'
    BY <1>1, <2>3 DEF Sound, Waits, Keeps, Loses, Saves, Uses, Puts, DestinationRefused
  <2> QED
    BY <1>1, <2>1, <2>2, <2>4
<1> QED
  BY <1>2, <1>3 DEF OInv

LEMMA SignupChecksKeeps ==
  ASSUME OInv, NEW p \in Procs, SignupChecks(p)
  PROVE  OInv'
<1> DEFINE refused == DestinationRefused(dir, file, "API_KEY")
           place == IF refused THEN "unsaved" ELSE "reading"
           s == [proc[p] EXCEPT !.checked = file, !.pc = place]
<1>1. /\ UNCHANGED <<dir, file, account, stored, service, now, others>> /\ Becomes(p, s)
      /\ proc[p].cast.program = "signup" /\ proc[p].pc = "checking" /\ proc[p] \in State
      /\ file \in SecretsFiles
  BY Known DEF SignupChecks, Is
<1>2. place \in {"unsaved", "reading"} /\ (place = "reading" => ~refused)
  OBVIOUS
<1> HIDE DEF place, refused
<1>3. /\ s \in State /\ s.cast = proc[p].cast /\ s.pc = place /\ s.exit = proc[p].exit
      /\ s.value = proc[p].value /\ s.printed = proc[p].printed /\ s.checked = file
  BY <1>1, <1>2 DEF State, SignupPlaces, InitPlaces
<1> HIDE DEF s
<1>4. Placed(s)
  BY <1>1, <1>2, <1>3, Known DEF Placed, PlacesOf, SignupPlaces
<1>5. Sound(s, service[p])
  BY <1>1, <1>2, <1>3, Known DEF Sound, Waits, Keeps, Loses, Saves, Uses, refused
<1> QED
  BY <1>1, <1>2, <1>3, <1>4, <1>5, MoveKeeps

-----------------------------------------------------------------------------
(* Saving.                                                                  *)

\* A command that saves or prints.
LEMMA AtTheFile ==
  ASSUME OInv, NEW p \in Procs, proc[p].pc \in {"reading", "writing", "renaming", "printing", "unsaved"}
  PROVE  /\ proc[p].exit = -1 /\ ~(service[p] = "handed" /\ proc[p].value = 0)
         /\ proc[p].cast.program \in {"signup", "init"}
         /\ proc[p].cast.program = "signup" => ~proc[p].printed
         /\ proc[p].pc \in {"reading", "writing", "renaming"} => ~proc[p].cast.printEnv
         /\ proc[p].pc = "printing" => proc[p].cast.printEnv
         /\ proc[p].pc = "unsaved" => proc[p].cast.program = "signup"
<1>1. Placed(proc[p]) /\ Sound(proc[p], service[p]) /\ proc[p].cast.program \in {"signup", "init"}
  BY Known DEF Commands
<1> QED
  BY <1>1 DEF Placed, PlacesOf, SignupPlaces, InitPlaces, Sound, Keeps, Loses, Uses

\* A signup that cannot save its key will print it; an init has failed.
LEMMA CouldNotSaveKeeps ==
  ASSUME OInv, NEW p \in Procs, CouldNotSave(p), proc[p].pc \in {"reading", "writing", "renaming"},
         UNCHANGED <<dir, file, account, stored, service, now, others>>
  PROVE  OInv'
<1>0. /\ proc[p] \in State /\ file \in SecretsFiles
      /\ proc[p].exit = -1 /\ ~(service[p] = "handed" /\ proc[p].value = 0)
      /\ proc[p].cast.program \in {"signup", "init"} /\ ~proc[p].cast.printEnv
      /\ proc[p].cast.program = "signup" => ~proc[p].printed
  BY Known, AtTheFile
<1>1. CASE proc[p].cast.program = "signup"
  <2> DEFINE s == [proc[p] EXCEPT !.pc = "unsaved"]
  <2>1. Becomes(p, s)
    BY <1>1 DEF CouldNotSave
  <2>2. /\ s \in State /\ s.cast = proc[p].cast /\ s.pc = "unsaved" /\ s.exit = proc[p].exit
        /\ s.value = proc[p].value /\ s.printed = proc[p].printed
    BY <1>0 DEF State, SignupPlaces, InitPlaces
  <2> HIDE DEF s
  <2>3. Placed(s) /\ Sound(s, service[p])
    BY <1>0, <1>1, <2>2, Known DEF Placed, PlacesOf, SignupPlaces, Sound, Waits, Keeps, Loses, Saves, Uses
  <2> QED
    BY <1>0, <2>1, <2>2, <2>3, MoveKeeps
<1>2. CASE proc[p].cast.program = "init"
  <2> DEFINE s == [proc[p] EXCEPT !.pc = "over", !.exit = 1]
  <2>1. Becomes(p, s)
    BY <1>2 DEF CouldNotSave
  <2>2. s \in State /\ s.cast = proc[p].cast /\ s.pc = "over" /\ s.exit = 1 /\ s.value = proc[p].value
    BY <1>0 DEF State, SignupPlaces, InitPlaces
  <2> HIDE DEF s
  <2>3. Placed(s) /\ Sound(s, service[p])
    BY <1>0, <1>2, <2>2, Failing
  <2> QED
    BY <1>0, <2>1, <2>2, <2>3, MoveKeeps
<1> QED
  BY <1>0, <1>1, <1>2

LEMMA ReadsKeeps ==
  ASSUME OInv, NEW p \in Procs, Reads(p)
  PROVE  OInv'
<1>0. /\ proc[p] \in State /\ file \in SecretsFiles /\ proc[p].pc = "reading"
      /\ proc[p].exit = -1 /\ ~(service[p] = "handed" /\ proc[p].value = 0)
      /\ proc[p].cast.program \in {"signup", "init"} /\ ~proc[p].cast.printEnv
      /\ proc[p].cast.program = "signup" => ~proc[p].printed
      /\ UNCHANGED <<dir, file, account, stored, service, now, others>>
  BY Known, AtTheFile DEF Reads
<1>1. CASE Inspect(file).ok
  <2> DEFINE s == [proc[p] EXCEPT !.pc = "writing", !.found = file, !.seen = file]
  <2>1. Becomes(p, s)
    BY <1>1 DEF Reads, Inspect
  <2>2. /\ s \in State /\ s.cast = proc[p].cast /\ s.pc = "writing" /\ s.exit = proc[p].exit
        /\ s.value = proc[p].value /\ s.printed = proc[p].printed /\ s.checked = proc[p].checked
        /\ s.found = file /\ s.seen = file
    BY <1>0 DEF State, SignupPlaces, InitPlaces
  <2> HIDE DEF s
  <2>3. Placed(s)
    BY <1>0, <2>2 DEF Placed, PlacesOf, SignupPlaces, InitPlaces
  <2>4. Saves(s)
    BY <1>0, <1>1, <2>2, Known DEF Sound, Saves
  <2>5. Sound(s, service[p])
    BY <1>0, <2>2, <2>4 DEF Sound, Waits, Keeps, Loses, Uses
  <2> QED
    BY <1>0, <2>1, <2>2, <2>3, <2>5, MoveKeeps
<1>2. CASE ~Inspect(file).ok
  BY <1>0, <1>2, CouldNotSaveKeeps DEF Reads
<1> QED
  BY <1>1, <1>2

LEMMA WritesKeeps ==
  ASSUME OInv, NEW p \in Procs, Writes(p)
  PROVE  OInv'
<1>0. /\ proc[p] \in State /\ file \in SecretsFiles /\ proc[p].pc = "writing"
      /\ proc[p].exit = -1 /\ ~(service[p] = "handed" /\ proc[p].value = 0)
      /\ proc[p].cast.program \in {"signup", "init"} /\ ~proc[p].cast.printEnv
      /\ proc[p].cast.program = "signup" => ~proc[p].printed
      /\ UNCHANGED <<dir, file, account, stored, service, now, others>>
  BY Known, AtTheFile DEF Writes, Staged
<1>1. CASE Becomes(p, [proc[p] EXCEPT !.pc = "renaming"])
  <2> DEFINE s == [proc[p] EXCEPT !.pc = "renaming"]
  <2>1. Becomes(p, s)
    BY <1>1
  <2>2. /\ s \in State /\ s.cast = proc[p].cast /\ s.pc = "renaming" /\ s.exit = proc[p].exit
        /\ s.value = proc[p].value /\ s.printed = proc[p].printed /\ s.checked = proc[p].checked
        /\ s.found = proc[p].found /\ s.seen = proc[p].seen
    BY <1>0 DEF State, SignupPlaces, InitPlaces
  <2> HIDE DEF s
  <2>3. Placed(s)
    BY <1>0, <2>2 DEF Placed, PlacesOf, SignupPlaces, InitPlaces
  <2>4. Saves(s)
    BY <1>0, <2>2, Known DEF Sound, Saves
  <2>5. Sound(s, service[p])
    BY <1>0, <2>2, <2>4 DEF Sound, Waits, Keeps, Loses, Uses
  <2> QED
    BY <1>0, <2>1, <2>2, <2>3, <2>5, MoveKeeps
<1>2. CASE CouldNotSave(p)
  BY <1>0, <1>2, CouldNotSaveKeeps
<1> QED
  BY <1>1, <1>2 DEF Writes

LEMMA RenamesKeeps ==
  ASSUME OInv, NEW p \in Procs, Renames(p)
  PROVE  OInv'
<1>0. /\ proc[p] \in State /\ file \in SecretsFiles /\ proc[p].pc = "renaming"
      /\ proc[p].exit = -1 /\ ~(service[p] = "handed" /\ proc[p].value = 0)
      /\ proc[p].cast.program \in {"signup", "init"} /\ ~proc[p].cast.printEnv
      /\ proc[p].cast.program = "signup" => ~proc[p].printed
      /\ UNCHANGED <<dir, account, stored, service, now, others>>
  BY Known, AtTheFile DEF Renames
<1>1. CASE CouldNotSave(p) /\ UNCHANGED file
  BY <1>0, <1>1, CouldNotSaveKeeps
<1>2. CASE file' = Renamed(proc[p].found, Variable(p), proc[p].value)
             /\ Becomes(p, IF proc[p].cast.program = "signup"
                             THEN [proc[p] EXCEPT !.pc = "over", !.saved = TRUE, !.exit = 0]
                             ELSE [proc[p] EXCEPT !.pc = "testing", !.saved = TRUE])
  <2>1. file' \in SecretsFiles
    <3>1. proc[p].found \in SecretsFiles /\ proc[p].value \in Nat
      BY <1>0 DEF State
    <3>2. Variable(p) \in {"API_KEY", "MONITOR", "OTHER"}
      BY DEF Variable
    <3> QED
      BY <1>2, <3>1, <3>2, RenamedIsAFile
  <2>2. CASE proc[p].cast.program = "signup"
    <3> DEFINE s == [proc[p] EXCEPT !.pc = "over", !.saved = TRUE, !.exit = 0]
    <3>1. Becomes(p, s)
      BY <1>2, <2>2
    <3>2. /\ s \in State /\ s.cast = proc[p].cast /\ s.pc = "over" /\ s.exit = 0
          /\ s.value = proc[p].value /\ s.printed = proc[p].printed /\ s.saved
      BY <1>0 DEF State, SignupPlaces, InitPlaces
    <3>3. s.printed \in BOOLEAN /\ s.cast.printEnv \in BOOLEAN
      BY <3>2, Known DEF State, Commands
    <3> HIDE DEF s
    <3>4. Placed(s)
      BY <2>2, <3>2 DEF Placed, PlacesOf, SignupPlaces
    <3>5. Sound(s, service[p])
      BY <1>0, <2>2, <3>2, <3>3 DEF Sound, Waits, Keeps, Loses, Saves, Uses
    <3> QED
      BY <1>0, <2>1, <3>1, <3>2, <3>4, <3>5, MoveKeeps
  <2>3. CASE proc[p].cast.program = "init"
    <3> DEFINE s == [proc[p] EXCEPT !.pc = "testing", !.saved = TRUE]
    <3>1. Becomes(p, s)
      BY <1>2, <2>3
    <3>2. /\ s \in State /\ s.cast = proc[p].cast /\ s.pc = "testing" /\ s.exit = proc[p].exit
          /\ s.value = proc[p].value /\ s.saved
      BY <1>0 DEF State, SignupPlaces, InitPlaces
    <3> HIDE DEF s
    <3>4. Placed(s)
      BY <1>0, <2>3, <3>2 DEF Placed, PlacesOf, InitPlaces
    <3>5. Sound(s, service[p])
      BY <1>0, <2>3, <3>2 DEF Sound, Waits, Keeps, Loses, Saves, Uses, Puts
    <3> QED
      BY <1>0, <2>1, <3>1, <3>2, <3>4, <3>5, MoveKeeps
  <2> QED
    BY <1>0, <2>2, <2>3
<1> QED
  BY <1>1, <1>2 DEF Renames

\* A key or an identifier that was to be printed is, and a key that could not be
\* saved.
LEMMA PrintsKeeps ==
  ASSUME OInv, NEW p \in Procs, Prints(p)
  PROVE  OInv'
<1>0. /\ proc[p] \in State /\ file \in SecretsFiles
      /\ proc[p].exit = -1 /\ ~(service[p] = "handed" /\ proc[p].value = 0)
      /\ proc[p].pc = "printing" => proc[p].cast.printEnv
      /\ UNCHANGED <<dir, file, account, stored, service, now, others>>
      /\ proc[p].cast.printEnv \in BOOLEAN
  BY Known, AtTheFile DEF Prints, Is, Commands
<1>1. CASE Is(p, "signup", "unsaved") /\ Becomes(p, PrintedUnsaved(p))
  <2> DEFINE s == [proc[p] EXCEPT !.pc = "over", !.exit = 1, !.printed = TRUE]
  <2>1. Becomes(p, s)
    BY <1>1 DEF PrintedUnsaved
  <2>2. /\ s \in State /\ s.cast = proc[p].cast /\ s.pc = "over" /\ s.exit = 1
        /\ s.value = proc[p].value /\ s.printed
    BY <1>0 DEF State, SignupPlaces, InitPlaces
  <2> HIDE DEF s
  <2>3. Placed(s) /\ Sound(s, service[p])
    BY <1>0, <2>2, Failing
  <2> QED
    BY <1>0, <2>1, <2>2, <2>3, MoveKeeps
<1>2. CASE Is(p, "signup", "printing") /\ Becomes(p, [proc[p] EXCEPT !.pc = "over", !.exit = 0, !.printed = TRUE])
  <2> DEFINE s == [proc[p] EXCEPT !.pc = "over", !.exit = 0, !.printed = TRUE]
  <2>1. Becomes(p, s)
    BY <1>2
  <2>2. /\ s \in State /\ s.cast = proc[p].cast /\ s.pc = "over" /\ s.exit = 0
        /\ s.value = proc[p].value /\ s.printed = TRUE
    BY <1>0 DEF State, SignupPlaces, InitPlaces
  <2> HIDE DEF s
  <2>3. Placed(s)
    BY <1>2, <2>2 DEF Is, Placed, PlacesOf, SignupPlaces
  <2>4. s.printed = s.cast.printEnv
    BY <1>0, <1>2, <2>2 DEF Is
  <2>5. Sound(s, service[p])
    BY <1>0, <1>2, <2>2, <2>4 DEF Is, Sound, Waits, Keeps, Loses, Saves, Uses
  <2> QED
    BY <1>0, <2>1, <2>2, <2>3, <2>5, MoveKeeps
<1>3. CASE Is(p, "init", "printing") /\ Becomes(p, [proc[p] EXCEPT !.pc = "testing", !.printed = TRUE])
  <2> DEFINE s == [proc[p] EXCEPT !.pc = "testing", !.printed = TRUE]
  <2>1. Becomes(p, s)
    BY <1>3
  <2>2. /\ s \in State /\ s.cast = proc[p].cast /\ s.pc = "testing" /\ s.exit = proc[p].exit
        /\ s.value = proc[p].value /\ s.printed
    BY <1>0 DEF State, SignupPlaces, InitPlaces
  <2> HIDE DEF s
  <2>3. Placed(s)
    BY <1>0, <1>3, <2>2 DEF Is, Placed, PlacesOf, InitPlaces
  <2>4. Sound(s, service[p])
    BY <1>0, <1>3, <2>2 DEF Is, Sound, Waits, Keeps, Loses, Saves, Uses, Puts
  <2> QED
    BY <1>0, <2>1, <2>2, <2>3, <2>4, MoveKeeps
<1> QED
  BY <1>1, <1>2, <1>3 DEF Prints

-----------------------------------------------------------------------------
(* Making a monitor.                                                        *)

\* An init that has not returned holds nothing of a signup's.
LEMMA AtTheAccount ==
  ASSUME OInv, NEW p \in Procs, proc[p].cast.program = "init", proc[p].pc \notin {"over", "killed"}
  PROVE  /\ proc[p] \in State /\ proc[p].exit = -1 /\ proc[p].cast.printEnv \in BOOLEAN
         /\ ~(service[p] = "handed" /\ proc[p].value = 0)
         /\ file \in SecretsFiles
BY Known DEF Placed, PlacesOf, InitPlaces, Sound, Loses, Commands

\* An identifier that is known is saved or printed, if there is where to.
LEMMA SavingIsSound ==
  ASSUME OInv, NEW p \in Procs, NEW uuid \in Nat \ {0},
         proc[p].cast.program = "init", proc[p].pc \notin {"over", "killed"}
  PROVE  LET s == Saving(p, uuid) IN
           Placed(s) /\ Sound(s, service[p]) /\ s.cast = proc[p].cast /\ s.pc # "creating"
<1> DEFINE place == IF proc[p].cast.printEnv THEN "printing" ELSE IF dir = "missing" THEN "over" ELSE "reading"
           code  == IF dir = "missing" /\ ~proc[p].cast.printEnv THEN 64 ELSE -1
           s == [proc[p] EXCEPT !.value = uuid, !.pc = place, !.exit = code]
<1>0. proc[p] \in State /\ proc[p].cast.printEnv \in BOOLEAN
  BY AtTheAccount
<1>1. Saving(p, uuid) = s
  BY DEF Saving, Usage
<1>2. /\ place \in {"printing", "over", "reading"} /\ code \in {64, -1}
      /\ code = -1 <=> place # "over"
      /\ place = "printing" <=> proc[p].cast.printEnv
  BY <1>0
<1> HIDE DEF place, code
<1>3. /\ s \in State /\ s.cast = proc[p].cast /\ s.pc = place /\ s.exit = code /\ s.value = uuid
  BY <1>0, <1>2 DEF State, SignupPlaces, InitPlaces, Usage
<1> HIDE DEF s
<1>4. Placed(s)
  BY <1>2, <1>3 DEF Placed, PlacesOf, InitPlaces
<1>5. Sound(s, service[p])
  BY <1>0, <1>2, <1>3 DEF Sound, Waits, Keeps, Loses, Saves, Uses
<1> QED
  BY <1>1, <1>2, <1>3, <1>4, <1>5

LEMMA SavingKeeps ==
  ASSUME OInv, NEW p \in Procs, NEW uuid \in Nat \ {0}, Becomes(p, Saving(p, uuid)),
         proc[p].cast.program = "init", proc[p].pc \notin {"over", "killed"},
         UNCHANGED <<dir, file, account, stored, service, now, others>>
  PROVE  OInv'
BY SavingIsSound, MoveKeeps, Known

\* Nothing is done to what is known of a command that only goes to another place.
LEMMA GoesKeeps ==
  ASSUME OInv, NEW p \in Procs, NEW place \in {"listing", "asking"},
         Becomes(p, [proc[p] EXCEPT !.pc = place]),
         proc[p].cast.program = "init", proc[p].pc \notin {"over", "killed"},
         UNCHANGED <<dir, file, account, stored, service, now, others>>
  PROVE  OInv'
<1> DEFINE s == [proc[p] EXCEPT !.pc = place]
<1>1. Becomes(p, s)
  OBVIOUS
<1>2. /\ proc[p] \in State /\ proc[p].exit = -1 /\ file \in SecretsFiles
      /\ ~(service[p] = "handed" /\ proc[p].value = 0)
  BY AtTheAccount
<1>3. s \in State /\ s.cast = proc[p].cast /\ s.pc = place /\ s.exit = -1 /\ s.value = proc[p].value
  BY <1>2 DEF State, SignupPlaces, InitPlaces
<1> HIDE DEF s
<1>4. Placed(s) /\ Sound(s, service[p])
  BY <1>2, <1>3 DEF Placed, PlacesOf, InitPlaces, Sound, Waits, Keeps, Loses, Saves, Uses
<1> QED
  BY <1>1, <1>2, <1>3, <1>4, MoveKeeps

\* An init that fails, or returns with what is in place.
LEMMA ReturnsKeeps ==
  ASSUME OInv, NEW p \in Procs, NEW code \in {0, 1, Usage}, Exit(p, code),
         proc[p].cast.program = "init", proc[p].pc \notin {"over", "killed"},
         code = 0 => proc[p].value \in DOMAIN account /\ Puts(proc[p]),
         UNCHANGED <<dir, file, account, stored, service, now, others>>
  PROVE  OInv'
<1> DEFINE s == [proc[p] EXCEPT !.pc = "over", !.exit = code]
<1>1. /\ proc[p] \in State /\ file \in SecretsFiles /\ code \in {0, 1, 64}
      /\ ~(service[p] = "handed" /\ proc[p].value = 0)
  BY AtTheAccount DEF Usage
<1>2. Becomes(p, s)
  BY DEF Exit
<1>3. /\ s \in State /\ s.cast = proc[p].cast /\ s.pc = "over" /\ s.exit = code /\ s.value = proc[p].value
      /\ s.printed = proc[p].printed /\ s.saved = proc[p].saved
  BY <1>1 DEF State, SignupPlaces, InitPlaces, Usage
<1> HIDE DEF s
<1>4. Placed(s) /\ Sound(s, service[p])
  BY <1>1, <1>3 DEF Placed, PlacesOf, InitPlaces, Sound, Waits, Keeps, Loses, Saves, Uses, Puts
<1> QED
  BY <1>1, <1>2, <1>3, <1>4, MoveKeeps

LEMMA InitBeginsKeeps ==
  ASSUME OInv, NEW p \in Procs, InitBegins(p)
  PROVE  OInv'
<1>1. /\ UNCHANGED <<dir, file, account, stored, service, now, others>>
      /\ proc[p].cast.program = "init" /\ proc[p].pc = "start"
  BY DEF InitBegins, Is
<1>2. \/ \E place \in {"listing", "asking"} : Becomes(p, [proc[p] EXCEPT !.pc = place])
      \/ \E code \in {1, Usage} : Exit(p, code)
  BY DEF InitBegins, Exit
<1>3. 1 # 0 /\ Usage # 0
  BY DEF Usage
<1> QED
  BY <1>1, <1>2, <1>3, GoesKeeps, ReturnsKeeps

\* What bears a name is a finite set of positions.
LEMMA CalledIsFinite ==
  ASSUME OInv
  PROVE  /\ IsFiniteSet(Called("job")) /\ Called("job") \subseteq DOMAIN account
         /\ DOMAIN account = 1..Len(account) /\ Len(account) \in Nat /\ DOMAIN account \subseteq Nat \ {0}
<1>1. account \in Seq([name : {"job", "other"}, by : Procs \cup {0}])
  BY DEF OInv, Kinds
<1>2. DOMAIN account = 1..Len(account) /\ Len(account) \in Nat
  BY <1>1, LenProperties
<1>3. IsFiniteSet(1..Len(account))
  BY <1>2, FS_Interval
<1>4. Called("job") \subseteq 1..Len(account)
  BY <1>2 DEF Called
<1>5. IsFiniteSet(Called("job"))
  BY <1>3, <1>4, FS_Subset
<1>6. \A uuid \in 1..Len(account) : uuid \in Nat \ {0}
  BY <1>2
<1> QED
  BY <1>2, <1>4, <1>5, <1>6

LEMMA InitLooksKeeps ==
  ASSUME OInv, NEW p \in Procs, InitLooks(p)
  PROVE  OInv'
<1>1. /\ UNCHANGED <<dir, file, account, stored, service, now, others>>
      /\ proc[p].cast.program = "init" /\ proc[p].pc = "listing"
  BY DEF InitLooks, Is
<1>2. CASE Becomes(p, [proc[p] EXCEPT !.pc = "asking"])
  BY <1>1, <1>2, GoesKeeps
<1>3. ASSUME NEW missed \in {{}} \cup {{uuid} : uuid \in Called("job")},
             LET found == Called("job") \ missed IN
               Becomes(p, CASE AfterLook(found) = "creating" -> [proc[p] EXCEPT !.pc = "creating", !.missed = missed # {}]
                            [] AfterLook(found) = "using" -> Saving(p, CHOOSE uuid \in found : TRUE)
                            [] AfterLook(found) = "conflict" -> [proc[p] EXCEPT !.pc = "over", !.exit = 1])
      PROVE  OInv'
  <2> DEFINE found == Called("job") \ missed
  <2>0. /\ IsFiniteSet(found) /\ Called("job") \subseteq Nat \ {0} /\ Cardinality(found) \in Nat
        /\ Cardinality(found) = 0 <=> found = {}
    <3>1. found \subseteq Called("job")
      OBVIOUS
    <3> HIDE DEF found
    <3>2. IsFiniteSet(found)
      BY <3>1, CalledIsFinite, FS_Subset
    <3> QED
      BY <3>2, CalledIsFinite, FS_CardinalityType, FS_EmptySet
  <2>1. CASE Cardinality(found) = 0
    <3> DEFINE overlooked == missed # {}
               s == [proc[p] EXCEPT !.pc = "creating", !.missed = overlooked]
    <3>1. Becomes(p, s)
      BY <1>3, <2>1 DEF AfterLook
    <3>2. /\ proc[p] \in State /\ proc[p].exit = -1 /\ file \in SecretsFiles
          /\ ~(service[p] = "handed" /\ proc[p].value = 0) /\ service[p] \in Stages
          /\ service \in [Procs -> Stages]
      BY <1>1, AtTheAccount, Known
    <3>3. overlooked \in BOOLEAN /\ (~overlooked => Called("job") = {})
      BY <2>0, <2>1
    <3> HIDE DEF overlooked
    <3>4. /\ s \in State /\ s.cast = proc[p].cast /\ s.pc = "creating" /\ s.exit = -1
          /\ s.value = proc[p].value /\ s.missed = overlooked
      BY <3>2, <3>3 DEF State, SignupPlaces, InitPlaces
    <3> HIDE DEF s
    <3>5. Placed(s) /\ Sound(s, service[p])
      BY <1>1, <3>2, <3>4 DEF Placed, PlacesOf, InitPlaces, Sound, Waits, Keeps, Loses, Saves, Uses
    <3> QED
      BY <1>1, <3>1, <3>2, <3>3, <3>4, <3>5, StepKeeps
  <2>2. CASE Cardinality(found) = 1
    <3>1. PICK uuid : uuid = CHOOSE u \in found : TRUE
      OBVIOUS
    <3>2. uuid \in found
      BY <2>0, <2>2, <3>1
    <3>3. uuid \in Nat \ {0}
      BY <2>0, <3>2
    <3>4. Becomes(p, Saving(p, uuid))
      BY <1>3, <2>2, <3>1 DEF AfterLook
    <3> QED
      BY <1>1, <3>3, <3>4, SavingKeeps
  <2>3. CASE Cardinality(found) # 0 /\ Cardinality(found) # 1
    <3>1. Exit(p, 1)
      BY <1>3, <2>3 DEF AfterLook, Exit
    <3> QED
      BY <1>1, <3>1, ReturnsKeeps
  <2> QED
    BY <2>1, <2>2, <2>3
<1> QED
  BY <1>2, <1>3 DEF InitLooks

\* A monitor is made under a key that had none, and is the key's from then on.
LEMMA MakesKeeps ==
  ASSUME OInv, NEW p \in Procs, NEW s, Becomes(p, s), Placed(s), Sound(s, service[p]),
         s.cast = proc[p].cast, s.pc # "creating", KeyOf(p) \notin DOMAIN stored,
         account' = Append(account, [name |-> "job", by |-> p]),
         stored' = [key \in DOMAIN stored \cup {KeyOf(p)} |->
                      IF key = KeyOf(p) THEN Len(account) + 1 ELSE stored[key]],
         UNCHANGED <<dir, file, service, now, others>>
  PROVE  OInv'
<1> DEFINE row == [name |-> "job", by |-> p]
<1>1. /\ proc' \in [Procs -> State] /\ proc'[p] = s
      /\ \A q \in Procs : q # p => proc'[q] = proc[q]
  BY DEF Becomes, OInv, Kinds, Placed
<1>2. \A q \in Procs : proc'[q].cast = proc[q].cast /\ KeyOf(q)' = KeyOf(q)
  BY <1>1 DEF KeyOf
<1>3. /\ account \in Seq([name : {"job", "other"}, by : Procs \cup {0}])
      /\ row \in [name : {"job", "other"}, by : Procs \cup {0}]
      /\ Len(account) \in Nat /\ DOMAIN account = 1..Len(account)
  BY CalledIsFinite, Known
<1>4. /\ account' \in Seq([name : {"job", "other"}, by : Procs \cup {0}])
      /\ Len(account') = Len(account) + 1
      /\ \A uuid \in 1..Len(account) : account'[uuid] = account[uuid]
      /\ account'[Len(account) + 1] = row
  BY <1>3, AppendProperties
<1>5. DOMAIN account' = DOMAIN account \cup {Len(account) + 1} /\ Len(account) + 1 \in Nat \ {0}
  BY <1>3, <1>4, LenProperties
<1>6. Kinds'
  <2>1. \A q \in Procs : Placed(proc'[q])
    <3> TAKE q \in Procs
    <3> QED
      BY <1>1 DEF OInv, Kinds
  <2>2. (\A q \in Procs : Placed(proc[q]))'
    BY <2>1 DEF Placed
  <2> QED
    BY <1>1, <1>4, <2>2 DEF OInv, Kinds
<1>7. Made'
  <2>1. \A key \in DOMAIN stored' : stored'[key] \in Nat \ {0}
    BY <1>5 DEF OInv, Made
  <2>2. ASSUME NEW uuid \in DOMAIN account', NEW q \in Procs, q = account'[uuid].by
        PROVE  KeyOf(q) \in DOMAIN stored' /\ stored'[KeyOf(q)] = uuid
    <3>1. CASE uuid \in DOMAIN account
      <4>1. q = account[uuid].by
        BY <1>3, <1>4, <2>2, <3>1
      <4>2. KeyOf(q) \in DOMAIN stored /\ stored[KeyOf(q)] = uuid
        BY <3>1, <4>1 DEF OInv, Made
      <4> QED
        BY <4>2
    <3>2. CASE uuid = Len(account) + 1
      <4>1. q = p
        BY <1>4, <2>2, <3>2
      <4> QED
        BY <3>2, <4>1
    <3> QED
      BY <1>5, <3>1, <3>2
  <2>3. ASSUME NEW uuid \in DOMAIN account', NEW q \in Procs, q = account'[uuid].by
        PROVE  /\ <<"job", proc'[q].cast.nobody>> \in DOMAIN stored'
               /\ stored'[<<"job", proc'[q].cast.nobody>>] = uuid
    <3>1. KeyOf(q) = <<"job", proc'[q].cast.nobody>>
      BY <1>2 DEF KeyOf
    <3>2. KeyOf(q) \in DOMAIN stored' /\ stored'[KeyOf(q)] = uuid
      BY <2>2, <2>3
    <3> QED
      BY <3>1, <3>2
  <2> SUFFICES ASSUME NEW uuid \in DOMAIN account', account'[uuid].by \in Procs
               PROVE  /\ <<"job", proc'[account'[uuid].by].cast.nobody>> \in DOMAIN stored'
                      /\ stored'[<<"job", proc'[account'[uuid].by].cast.nobody>>] = uuid
    BY <2>1 DEF Made, KeyOf
  <2>4. PICK q \in Procs : q = account'[uuid].by
    OBVIOUS
  <2> QED
    BY <2>3, <2>4
<1>8. Ahead'
  <2> SUFFICES ASSUME NEW q \in Procs, proc'[q].pc = "creating", ~proc'[q].missed,
                      NEW uuid \in DOMAIN account', account'[uuid].name = "job"
               PROVE  account'[uuid].by \in Procs \ {q}
    BY DEF Ahead, Called
  <2>1. q # p /\ proc[q].pc = "creating" /\ ~proc[q].missed
    BY <1>1
  <2>2. CASE uuid \in DOMAIN account
    <3>1. account'[uuid] = account[uuid] /\ uuid \in Called("job")
      BY <1>3, <1>4, <2>2 DEF Called
    <3> QED
      BY <2>1, <3>1 DEF OInv, Ahead
  <2>3. CASE uuid = Len(account) + 1
    BY <1>4, <2>1, <2>3
  <2> QED
    BY <1>5, <2>2, <2>3
<1>9. ASSUME NEW q \in Procs PROVE Sound(proc[q], service[q])'
  <2>1. PICK t : t = proc'[q]
    OBVIOUS
  <2>2. PICK z : z = service'[q]
    OBVIOUS
  <2>3. Sound(t, z)
    BY <1>1, <2>1, <2>2 DEF OInv
  <2>4. Sound(t, z)'
    BY <1>5, <2>3 DEF Sound, Waits, Keeps, Loses, Saves, Uses, Puts, DestinationRefused
  <2> QED
    BY <2>1, <2>2, <2>4
<1> QED
  BY <1>6, <1>7, <1>8, <1>9 DEF OInv

LEMMA InitCreatesKeeps ==
  ASSUME OInv, NEW p \in Procs, InitCreates(p)
  PROVE  OInv'
<1>1. /\ proc[p].cast.program = "init" /\ proc[p].pc = "creating"
      /\ UNCHANGED <<dir, file, service, now, others>>
  BY DEF InitCreates, Is
<1> DEFINE asks == [proc[p] EXCEPT !.pc = "asking"]
<1>2. CASE Becomes(p, asks) /\ UNCHANGED <<account, stored>>
  BY <1>1, <1>2, GoesKeeps
<1>3. CASE /\ KeyOf(p) \in DOMAIN stored /\ UNCHANGED <<account, stored>>
           /\ Becomes(p, Saving(p, stored'[KeyOf(p)])) \/ Becomes(p, asks)
  <2>1. PICK uuid \in Nat \ {0} : uuid = stored[KeyOf(p)]
    BY <1>3 DEF OInv, Made
  <2>2. Becomes(p, Saving(p, uuid)) \/ Becomes(p, asks)
    BY <1>3, <2>1
  <2> QED
    BY <1>1, <1>3, <2>2, SavingKeeps, GoesKeeps
<1>4. CASE /\ KeyOf(p) \notin DOMAIN stored
           /\ account' = Append(account, [name |-> "job", by |-> p])
           /\ stored' = [key \in DOMAIN stored \cup {KeyOf(p)} |->
                           IF key = KeyOf(p) THEN Len(account) + 1 ELSE stored[key]]
           /\ Becomes(p, Saving(p, stored'[KeyOf(p)])) \/ Becomes(p, asks)
  <2>1. PICK uuid \in Nat \ {0} : uuid = stored'[KeyOf(p)]
    BY <1>4, CalledIsFinite
  <2>2. CASE Becomes(p, Saving(p, uuid))
    <3>1. PICK s : s = Saving(p, uuid)
      OBVIOUS
    <3>2. Placed(s) /\ Sound(s, service[p]) /\ s.cast = proc[p].cast /\ s.pc # "creating"
      BY <1>1, <3>1, SavingIsSound
    <3> QED
      BY <1>1, <1>4, <2>2, <3>1, <3>2, MakesKeeps
  <2>3. CASE Becomes(p, asks)
    <3>1. /\ proc[p] \in State /\ proc[p].exit = -1 /\ ~(service[p] = "handed" /\ proc[p].value = 0)
      BY <1>1, AtTheAccount
    <3>2. /\ asks \in State /\ asks.cast = proc[p].cast /\ asks.pc = "asking" /\ asks.exit = -1
          /\ asks.value = proc[p].value
      BY <3>1 DEF State, SignupPlaces, InitPlaces
    <3> HIDE DEF asks
    <3>3. Placed(asks) /\ Sound(asks, service[p])
      BY <1>1, <3>1, <3>2 DEF Placed, PlacesOf, InitPlaces, Sound, Waits, Keeps, Loses, Saves, Uses
    <3> QED
      BY <1>1, <1>4, <2>3, <3>2, <3>3, MakesKeeps
  <2> QED
    BY <1>4, <2>1, <2>2, <2>3
<1> QED
  BY <1>1, <1>2, <1>3, <1>4 DEF InitCreates

LEMMA InitAsksKeeps ==
  ASSUME OInv, NEW p \in Procs, InitAsks(p)
  PROVE  OInv'
<1>1. /\ UNCHANGED <<dir, file, account, stored, service, now, others>>
      /\ proc[p].cast.program = "init" /\ proc[p].pc = "asking" /\ Usage # 0
  BY DEF InitAsks, Is, Usage
<1>2. ASSUME NEW uuid \in DOMAIN account \cup {99}, Becomes(p, Saving(p, uuid)) PROVE OInv'
  <2>1. uuid \in Nat \ {0}
    BY <1>2, CalledIsFinite
  <2> QED
    BY <1>1, <1>2, <2>1, SavingKeeps
<1>3. CASE Exit(p, Usage)
  BY <1>1, <1>3, ReturnsKeeps
<1> QED
  BY <1>2, <1>3 DEF InitAsks

LEMMA InitTestsKeeps ==
  ASSUME OInv, NEW p \in Procs, InitTests(p)
  PROVE  OInv'
<1>1. /\ UNCHANGED <<dir, file, account, stored, service, now, others>>
      /\ proc[p].cast.program = "init" /\ proc[p].pc = "testing"
  BY DEF InitTests, Is
<1>2. PICK code \in {0, 1} : Exit(p, code) /\ (code = 0 => proc[p].value \in DOMAIN account)
  BY DEF InitTests, Tested
<1>3. Puts(proc[p])
  BY <1>1, Known DEF Sound, Uses
<1> QED
  BY <1>1, <1>2, <1>3, ReturnsKeeps

-----------------------------------------------------------------------------
(* The rest, and the invariant.                                             *)

LEMMA KilledKeeps ==
  ASSUME OInv, NEW p \in Procs, Killed(p)
  PROVE  OInv'
<1>1. PICK c \in Commands : c = proc[p].cast
  BY Known
<1>2. PICK g : g = Command(c)
  OBVIOUS
<1>3. g \in State /\ g.cast = c /\ g.exit = -1 /\ g.value = 0 /\ ~g.printed
  BY <1>2, CommandIsPlaced
<1> DEFINE s == [g EXCEPT !.pc = "killed"]
<1>4. s \in State /\ s.cast = c /\ s.pc = "killed" /\ s.exit = -1 /\ s.value = 0 /\ ~s.printed
  BY <1>3 DEF State, SignupPlaces, InitPlaces
<1>5. Becomes(p, s) /\ UNCHANGED <<dir, file, account, stored, service, now, others>>
  BY <1>1, <1>2 DEF Killed
<1> HIDE DEF s
<1>6. Placed(s) /\ Sound(s, service[p])
  BY <1>4 DEF Placed, PlacesOf, SignupPlaces, InitPlaces, Sound, Waits, Keeps, Loses, Saves, Uses
<1>7. file \in SecretsFiles
  BY Known
<1> QED
  BY <1>1, <1>4, <1>5, <1>6, <1>7, MoveKeeps

\* A person does what he likes to the file, and it is still one.
LEMMA SomeoneEditsKeeps ==
  ASSUME OInv, SomeoneEdits
  PROVE  OInv'
<1>1. /\ UNCHANGED <<dir, account, stored, service, now, proc>> /\ others' = others + 1
      /\ others \in 0..Others /\ others < Others /\ file \in SecretsFiles
  BY DEF SomeoneEdits, OInv, Kinds
<1>2. /\ file.lines \in Seq(Assignments) /\ file.mode \in {"private", "shared"}
      /\ file.kind \in {"absent", "file", "link", "unreadable"}
      /\ file \in [kind : {"absent", "file", "link", "unreadable"}, lines : Seq(Assignments),
                   mode : {"private", "shared"}]
  BY <1>1 DEF SecretsFiles
<1>3. file' \in SecretsFiles
  <2>1. ASSUME NEW key \in {"API_KEY", "OTHER"},
               file' = [file EXCEPT !.kind = "file", !.lines = UpsertEnvLine(@, key, Theirs)]
        PROVE  file' \in SecretsFiles
    <3> DEFINE lines == UpsertEnvLine(file.lines, key, Theirs)
    <3>0. key \in {"API_KEY", "MONITOR", "OTHER"} /\ Theirs \in Nat
      BY DEF Theirs
    <3>1. lines \in Seq(Assignments)
      BY <1>2, <3>0, UpsertKeepsOthers
    <3>2. file' = [file EXCEPT !.kind = "file", !.lines = lines]
      BY <1>2, <2>1
    <3> HIDE DEF lines
    <3> QED
      BY <1>2, <3>1, <3>2 DEF SecretsFiles
  <2>2. CASE file.kind = "file" /\ file' = [file EXCEPT !.mode = "shared"]
    BY <1>2, <2>2 DEF SecretsFiles
  <2>3. CASE file' = [file EXCEPT !.kind = "link"]
    BY <1>2, <2>3 DEF SecretsFiles
  <2> QED
    BY <2>1, <2>2, <2>3 DEF SomeoneEdits
<1>4. others' \in 0..Others
  BY <1>1, TimesAssumption
<1>5. Kinds' /\ Made' /\ Ahead'
  BY <1>1, <1>3, <1>4 DEF OInv, Kinds, Made, KeyOf, Ahead, Called
<1>6. (\A q \in Procs : Sound(proc[q], service[q]))'
  BY <1>1 DEF OInv, Sound, Waits, Keeps, Loses, Saves, Uses, Puts, DestinationRefused
<1> QED
  BY <1>5, <1>6 DEF OInv

LEMMA TickKeeps ==
  ASSUME OInv, Tick
  PROVE  OInv'
<1>1. /\ UNCHANGED <<dir, file, account, stored, service, proc, others>> /\ now' = now + 1
      /\ now \in 0..Lasts /\ now < Lasts /\ Lasts \in Nat
  BY TimesAssumption DEF Tick, OInv, Kinds, Lasts
<1>2. now' \in 0..Lasts
  BY <1>1
<1>3. Kinds' /\ Made' /\ Ahead'
  BY <1>1, <1>2 DEF OInv, Kinds, Made, KeyOf, Ahead, Called
<1>4. ASSUME NEW q \in Procs PROVE Sound(proc[q], service[q])'
  <2>1. PICK t \in State : t = proc[q]
    BY Known
  <2>2. PICK z : z = service[q]
    OBVIOUS
  <2>3. Sound(t, z)
    BY <2>1, <2>2, Known
  <2>4. Waits(t, now')
    BY <1>1, <2>3 DEF Sound, Waits, Larger, State
  <2>5. Sound(t, z)'
    BY <1>1, <2>3, <2>4 DEF Sound, Waits, Keeps, Loses, Saves, Uses, Puts, DestinationRefused
  <2> QED
    BY <1>1, <2>1, <2>2, <2>5
<1> QED
  BY <1>3, <1>4 DEF OInv

LEMMA NextOInv == OInv /\ [Next]_vars => OInv'
<1> SUFFICES ASSUME OInv, [Next]_vars PROVE OInv'
  OBVIOUS
<1>1. ASSUME NEW p \in Procs, SignupStep(p) PROVE OInv'
  BY <1>1, SignupBeginsKeeps, SignupStartsKeeps, WakesKeeps, PollServedKeeps, PollRefusedKeeps,
     SignupChecksKeeps DEF SignupStep
<1>2. ASSUME NEW p \in Procs, SavingStep(p) PROVE OInv'
  BY <1>2, ReadsKeeps, WritesKeeps, RenamesKeeps, PrintsKeeps DEF SavingStep
<1>3. ASSUME NEW p \in Procs, InitStep(p) PROVE OInv'
  BY <1>3, InitBeginsKeeps, InitLooksKeeps, InitCreatesKeeps, InitAsksKeeps, InitTestsKeeps DEF InitStep
<1>4. ASSUME UNCHANGED vars PROVE OInv'
  <2>1. Kinds' /\ Made' /\ Ahead'
    BY <1>4 DEF vars, OInv, Kinds, Made, KeyOf, Ahead, Called
  <2>2. (\A q \in Procs : Sound(proc[q], service[q]))'
    BY <1>4 DEF vars, OInv, Sound, Waits, Keeps, Loses, Saves, Uses, Puts, DestinationRefused
  <2> QED
    BY <2>1, <2>2 DEF OInv
<1> QED
  BY <1>1, <1>2, <1>3, <1>4, CodeTypedKeeps, KilledKeeps, SomeoneEditsKeeps, TickKeeps DEF Next

\* The invariant, for any commands on any file and account.
THEOREM OnboardingInvariant == Spec => []OInv
BY InitOInv, NextOInv, PTL DEF Spec

-----------------------------------------------------------------------------
(* What it means for the user.                                              *)

\* Every key handed over is accounted for: it is in the file or on the output
\* of the signup that got it, or, if it never arrived, the signup failed and
\* said how to get another (cli/signup.ts, save and poll).
THEOREM KeysAreNeverLost == Spec => []KeysAreAccountedFor
<1>1. ASSUME OInv PROVE KeysAreAccountedFor
  <2>1. ASSUME NEW p \in Procs
        PROVE  /\ proc[p].exit \in {-1, 0, 1, Usage}
               /\ proc[p].exit = -1 <=> proc[p].pc # "over"
               /\ proc[p].pc = "waiting" => proc[p].wakeAt <= Larger(proc[p].deadline, now)
    <3>1. proc[p] \in State /\ Placed(proc[p]) /\ Sound(proc[p], service[p])
      BY <1>1, Known
    <3> QED
      BY <3>1 DEF State, Placed, Sound, Waits
  <2>2. TypeOK
    BY <1>1, <2>1 DEF TypeOK, OInv, Kinds, SecretsFiles
  <2>3. KeyIsKept
    <3> SUFFICES ASSUME NEW p \in Procs, proc[p].cast.program = "signup", proc[p].pc = "over",
                        proc[p].value # 0
                 PROVE  /\ proc[p].saved \/ proc[p].printed
                        /\ proc[p].exit = 0 => proc[p].printed = proc[p].cast.printEnv
      BY DEF KeyIsKept
    <3> QED
      BY <1>1, Known DEF Sound, Keeps
  <2>4. LostKeyIsExplained
    <3> SUFFICES ASSUME NEW p \in Procs, service[p] = "handed", proc[p].pc = "over", proc[p].value = 0
                 PROVE  proc[p].exit = 1 /\ proc[p].advised
      BY DEF LostKeyIsExplained
    <3> QED
      BY <1>1, Known DEF Sound, Loses
  <2> QED
    BY <2>2, <2>3, <2>4 DEF KeysAreAccountedFor
<1> QED
  BY <1>1, OnboardingInvariant, PTL

\* A step of one command is a step of no other.
LEMMA OneSteps ==
  ASSUME OInv, NEW p \in Procs, NEW q \in Procs, NEW s, Becomes(q, s)
  PROVE  p # q => proc'[p] = proc[p]
BY DEF Becomes, OInv, Kinds

\* Only a signup that wakes polls.
LEMMA OnlyWakesPolls ==
  ASSUME OInv, [Next]_vars, NEW p \in Procs, proc[p].pc = "waiting", proc'[p].pc = "polling"
  PROVE  Wakes(p)
<1>0. proc[p] \in State /\ Placed(proc[p])
  BY Known
<1>1. proc'[p] # proc[p]
  OBVIOUS
<1>2. PICK q \in Procs : SignupStep(q) \/ SavingStep(q) \/ InitStep(q) \/ CodeTyped(q) \/ Killed(q)
  BY <1>1 DEF Next, vars, SomeoneEdits, Tick
<1>3. \E s : Becomes(q, s)
  <2>1. SignupStep(q) => \E s : Becomes(q, s)
    <3>1. SignupBegins(q) \/ Wakes(q) \/ SignupChecks(q) => \E s : Becomes(q, s)
      BY DEF SignupBegins, Wakes, SignupChecks, Exit
    <3>2. SignupStarts(q) => \E s : Becomes(q, s)
      BY DEF SignupStarts, Exit
    <3>3. PollServed(q) \/ PollRefused(q) => \E s : Becomes(q, s)
      BY DEF PollServed, PollRefused
    <3> QED
      BY <3>1, <3>2, <3>3 DEF SignupStep
  <2>2. SavingStep(q) => \E s : Becomes(q, s)
    BY DEF SavingStep, Reads, Writes, Renames, Prints, CouldNotSave
  <2>3. InitStep(q) => \E s : Becomes(q, s)
    BY DEF InitStep, InitBegins, InitLooks, InitCreates, InitAsks, InitTests, Exit
  <2>4. ~CodeTyped(q) /\ (Killed(q) => \E s : Becomes(q, s))
    BY <1>1 DEF CodeTyped, Killed
  <2> QED
    BY <1>2, <2>1, <2>2, <2>3, <2>4
<1>4. q = p
  BY <1>1, <1>3, OneSteps
<1>5. proc[p].cast.program = "signup"
  BY <1>0 DEF Placed, PlacesOf, InitPlaces
<1>6. Wakes(p) \/ Killed(p)
  BY <1>1, <1>2, <1>4, <1>5 DEF SignupStep, SavingStep, InitStep, CodeTyped, SignupBegins, SignupStarts,
     PollServed, PollRefused, SignupChecks, Reads, Writes, Renames, Prints, InitBegins, InitLooks,
     InitCreates, InitAsks, InitTests, Is
<1>7. ~Killed(p)
  <2>1. Killed(p) => proc'[p] = [Command(proc[p].cast) EXCEPT !.pc = "killed"]
    BY DEF Killed, Becomes, OInv, Kinds
  <2>2. [Command(proc[p].cast) EXCEPT !.pc = "killed"].pc = "killed"
    BY DEF Command
  <2> QED
    BY <2>1, <2>2
<1> QED
  BY <1>6, <1>7

\* The service is asked neither sooner than it said nor past the code
\* (cli/signup.ts, the wait of poll).
THEOREM PollsAreSpaced == Spec => PollsKeepTheirDistance
<1>1. ASSUME OInv, [Next]_vars
      PROVE  \A p \in Procs :
               (proc[p].pc = "waiting" /\ proc'[p].pc = "polling") => proc[p].due <= now /\ now < proc[p].deadline
  <2> SUFFICES ASSUME NEW p \in Procs, proc[p].pc = "waiting", proc'[p].pc = "polling"
               PROVE  proc[p].due <= now /\ now < proc[p].deadline
    OBVIOUS
  <2>1. Wakes(p)
    BY <1>1, OnlyWakesPolls
  <2>2. proc[p] \in State /\ now \in Nat /\ Sound(proc[p], service[p])
    BY <1>1, Known
  <2>3. proc[p].due \in Nat /\ proc[p].deadline \in Nat /\ proc[p].wakeAt \in Nat
    BY <2>2 DEF State
  <2>4. ~CodeOver(p)
    <3> SUFFICES ASSUME CodeOver(p) PROVE FALSE
      OBVIOUS
    <3>1. proc'[p] = [proc[p] EXCEPT !.pc = "over", !.exit = 1, !.advised = TRUE]
      BY <1>1, <2>1 DEF Wakes, Becomes, OInv, Kinds
    <3>2. [proc[p] EXCEPT !.pc = "over", !.exit = 1, !.advised = TRUE].pc = "over"
      BY <2>2 DEF State
    <3> QED
      BY <3>1, <3>2
  <2>5. now < proc[p].deadline
    BY <2>2, <2>3, <2>4 DEF CodeOver
  <2>6. now >= proc[p].wakeAt
    BY <2>1 DEF Wakes
  <2> QED
    BY <2>2, <2>3, <2>5, <2>6 DEF Sound, Waits
<1> QED
  BY <1>1, OnboardingInvariant, PTL DEF Spec, PollsKeepTheirDistance

-----------------------------------------------------------------------------
(* What it means for the others.                                            *)

\* A command replaces the file only by what it read and its own line.
LEMMA OnlyRenamesReplace ==
  ASSUME OInv, [Next]_vars, others' = others, file' # file
  PROVE  \E p \in Procs : Renames(p)
<1>1. ~SomeoneEdits
  BY DEF SomeoneEdits, OInv, Kinds
<1>2. PICK p \in Procs : SignupStep(p) \/ SavingStep(p) \/ InitStep(p) \/ CodeTyped(p) \/ Killed(p)
  BY <1>1 DEF Next, vars, Tick
<1>3. Renames(p) \/ Writes(p)
  <2>1. ~SignupStep(p)
    <3>1. ~SignupBegins(p) /\ ~SignupStarts(p) /\ ~Wakes(p)
      BY DEF SignupBegins, SignupStarts, Wakes
    <3>2. ~PollServed(p) /\ ~PollRefused(p) /\ ~SignupChecks(p)
      BY DEF PollServed, PollRefused, SignupChecks
    <3> QED
      BY <3>1, <3>2 DEF SignupStep
  <2>2. ~InitStep(p)
    BY DEF InitStep, InitBegins, InitLooks, InitCreates, InitAsks, InitTests
  <2>3. ~CodeTyped(p) /\ ~Killed(p)
    BY DEF CodeTyped, Killed
  <2>4. ~Reads(p) /\ ~Prints(p)
    BY DEF Reads, Prints
  <2> QED
    BY <1>2, <2>1, <2>2, <2>3, <2>4 DEF SavingStep
<1>4. ~Writes(p)
  BY DEF Writes, Staged
<1> QED
  BY <1>3, <1>4

LEMMA WhatIsRenamed ==
  ASSUME OInv, NEW p \in Procs, Renames(p), file' # file
  PROVE  /\ proc[p] \in State /\ file \in SecretsFiles /\ Saves(proc[p])
         /\ proc[p].pc = "renaming" /\ proc[p].found = proc[p].seen /\ Inspect(proc[p].seen).ok
         /\ file'.lines = UpsertEnvLine(proc[p].seen.lines, Variable(p), proc[p].value)
         /\ file'.mode = proc[p].seen.mode
<1>1. proc[p] \in State /\ file \in SecretsFiles /\ Saves(proc[p]) /\ proc[p].pc = "renaming"
  BY Known DEF Renames, Sound
<1>2. proc[p].found = proc[p].seen /\ Inspect(proc[p].seen).ok
  BY <1>1 DEF Saves
<1>3. file' = Renamed(proc[p].found, Variable(p), proc[p].value)
  BY DEF Renames
<1> QED
  BY <1>1, <1>2, <1>3 DEF Renamed

\* Whatever a command replaces the file by, only the line of its own variable,
\* and what came after its reading, can be missing; and signup replaces no key
\* and opens its own to nobody, if the file is as it was asked about and read
\* (cli/env-file.ts, upsertEnvLine and writeSecretsFile).
THEOREM OthersKeepTheirs == Spec => NothingIsOverwritten
<1>1. ASSUME OInv, [Next]_vars
      PROVE  others' = others =>
               \A line \in Holds(file.lines) \ Holds(file'.lines) :
                 \E p \in Procs :
                   /\ Renames(p)
                   /\ line[1] = Variable(p) \/ proc[p].seen # file
  <2> SUFFICES ASSUME others' = others, NEW line \in Holds(file.lines), line \notin Holds(file'.lines)
               PROVE  \E p \in Procs : Renames(p) /\ (line[1] = Variable(p) \/ proc[p].seen # file)
    OBVIOUS
  <2>1. file' # file
    OBVIOUS
  <2>2. PICK p \in Procs : Renames(p)
    BY <1>1, <2>1, OnlyRenamesReplace
  <2>3. /\ proc[p] \in State /\ file \in SecretsFiles
        /\ file'.lines = UpsertEnvLine(proc[p].seen.lines, Variable(p), proc[p].value)
    BY <1>1, <2>1, <2>2, WhatIsRenamed
  <2>4. CASE proc[p].seen = file
    <3>1. file.lines \in Seq(Assignments) /\ proc[p].value \in Nat
      BY <2>3 DEF SecretsFiles, State
    <3>2. Variable(p) \in {"API_KEY", "MONITOR", "OTHER"}
      BY DEF Variable
    <3>3. line \in Holds(UpsertEnvLine(file.lines, Variable(p), proc[p].value)) \/ line[1] = Variable(p)
      BY <3>1, <3>2, UpsertKeepsOthers
    <3> QED
      BY <2>2, <2>3, <2>4, <3>3
  <2> QED
    BY <2>2, <2>4
<1>2. ASSUME OInv
      PROVE  \A p \in Procs :
               (/\ proc[p].cast.program = "signup" /\ Renames(p) /\ file' # file
                /\ proc[p].checked = file /\ proc[p].seen = file) =>
                 /\ ~Assigns(file.lines, "API_KEY")
                 /\ file.kind # "link"
                 /\ file'.mode = "private"
  <2> SUFFICES ASSUME NEW p \in Procs, proc[p].cast.program = "signup", Renames(p), file' # file,
                      proc[p].checked = file, proc[p].seen = file
               PROVE  ~Assigns(file.lines, "API_KEY") /\ file.kind # "link" /\ file'.mode = "private"
    OBVIOUS
  <2>1. /\ file \in SecretsFiles /\ Saves(proc[p]) /\ proc[p].pc = "renaming"
        /\ file'.mode = file.mode
    BY <1>2, WhatIsRenamed
  <2>2. ~DestinationRefused(dir, file, "API_KEY")
    BY <2>1 DEF Saves
  <2>3. ~Assigns(file.lines, "API_KEY") /\ file.kind \in {"file", "absent"}
    BY <2>2 DEF DestinationRefused, Inspect
  <2>4. file.mode = "private"
    <3>1. file.mode \in {"private", "shared"} /\ (file.kind = "absent" => file = Absent)
      BY <2>1 DEF SecretsFiles
    <3>2. Absent.mode = "private"
      BY DEF Absent
    <3> QED
      BY <2>2, <2>3, <3>1, <3>2 DEF DestinationRefused
  <2> QED
    BY <2>1, <2>3, <2>4
<1>3. Spec => LinesSurvive
  BY <1>1, OnboardingInvariant, PTL DEF Spec, LinesSurvive
<1>4. Spec => SignupIsHarmless
  BY <1>2, OnboardingInvariant, PTL DEF Spec, SignupIsHarmless
<1> QED
  BY <1>3, <1>4 DEF NothingIsOverwritten

-----------------------------------------------------------------------------
(* What it means for the account.                                           *)

LEMMA OneByTheKey ==
  ASSUME OInv
  PROVE  OneMonitorPerRequest
<1> DEFINE made == {uuid \in DOMAIN account : account[uuid].by \in Procs}
<1> SUFFICES ASSUME \A p, q \in Procs : proc[p].cast.nobody = proc[q].cast.nobody
             PROVE  Cardinality(made) <= 1
  BY DEF OneMonitorPerRequest
<1>1. CASE made = {}
  BY <1>1, FS_EmptySet
<1>2. CASE made # {}
  <2>1. PICK uuid : uuid \in made
    BY <1>2
  <2>2. ASSUME NEW other \in made PROVE other = uuid
    <3>1. KeyOf(account[other].by) = KeyOf(account[uuid].by)
      BY <2>1, <2>2 DEF KeyOf
    <3>2. stored[KeyOf(account[other].by)] = other /\ stored[KeyOf(account[uuid].by)] = uuid
      BY <2>1, <2>2 DEF OInv, Made
    <3> QED
      BY <3>1, <3>2
  <2>3. made = {uuid}
    BY <2>1, <2>2
  <2> HIDE DEF made
  <2> QED
    BY <2>3, FS_Singleton
<1> QED
  BY <1>1, <1>2

LEMMA ZeroIsTrue ==
  ASSUME OInv
  PROVE  ZeroIsUsable
<1> SUFFICES ASSUME NEW p \in Procs, proc[p].cast.program = "init", proc[p].exit = 0
             PROVE  /\ proc[p].value \in DOMAIN account
                    /\ IF proc[p].cast.printEnv THEN proc[p].printed ELSE proc[p].saved
  BY DEF ZeroIsUsable
<1> QED
  BY Known DEF Sound, Uses, Puts

\* However many commands ask for one monitor within the day the service keeps
\* a key for, there is one; run again, init makes
\* a second only past a listing that missed the first or a run that overtook it;
\* and its status 0 means a monitor that is there, its identifier where it was to
\* be put (cli/init.ts, the idempotency key and the look before the create).
THEOREM MonitorsAreMadeOnce == Spec => MonitorsAreAccountedFor
<1>1. OInv => OneMonitorPerRequest /\ ZeroIsUsable
  BY OneByTheKey, ZeroIsTrue
<1>2. ASSUME OInv
      PROVE  \A p \in Procs :
               (InitCreates(p) /\ account' # account /\ ~proc[p].missed) =>
                 \A uuid \in Called("job") : account[uuid].by \in Procs \ {p}
  BY <1>2 DEF InitCreates, Is, OInv, Ahead
<1>3. Spec => [][OneMonitorPerRequest' /\ ZeroIsUsable']_vars
  BY <1>1, OnboardingInvariant, PTL DEF Spec
<1>4. Spec => RunAgainReuses
  BY <1>2, OnboardingInvariant, PTL DEF Spec, RunAgainReuses
<1> QED
  BY <1>3, <1>4 DEF MonitorsAreAccountedFor
=============================================================================
