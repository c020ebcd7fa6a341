---------------------------- MODULE Onboarding ----------------------------
(***************************************************************************)
(* cronheart signup and cronheart init side by side (cli/signup.ts,        *)
(* cli/init.ts, cli/env-file.ts), on one secrets file that a person edits  *)
(* too and on one account.  signup polls for a key the service hands over  *)
(* once; init makes or finds a monitor, saves its identifier and tries it. *)
(* Any of them may be killed between two steps.                            *)
(***************************************************************************)
EXTENDS EnvFile, ApiErrors, FiniteSets

CONSTANTS
  Procs,
  Setups,     \* [cast : [Procs -> the commands run], account : the one to begin with],
              \* a command being [program, printEnv, keyed, nobody]
  Files,      \* secrets files to begin with
  Dirs,       \* states of its directory
  Verified,   \* whether the account has a verified channel
  Intervals, Lifetime, RetryAfter, Budget,   \* seconds
  Others      \* bound: changes a person makes to the file

ASSUME TimesAssumption ==
  Intervals \subseteq Nat /\ {Lifetime, RetryAfter, Budget, Others} \subseteq Nat

Commands == [program : {"signup", "init"}, printEnv : BOOLEAN, keyed : BOOLEAN, nobody : BOOLEAN]

\* The monitors there are to begin with have the name asked for or another, and
\* were made by nobody that is running, 0.
ASSUME SetupsAssumption ==
  /\ 0 \notin Procs
  /\ \A setup \in Setups :
       setup.cast \in [Procs -> Commands] /\ setup.account \in Seq([name : {"job", "other"}, by : {0}])

ASSUME FilesAssumption == Files \subseteq SecretsFiles

VARIABLES
  dir, file,
  account,   \* sequence of [name, by]: the identifier is the position
  stored,    \* idempotency key -> the identifier its create was answered with
  service,   \* [Procs -> how far the service is with a signup]
  now,
  proc,      \* [Procs -> what a command knows]
  others     \* history: changes the person made

vars == <<dir, file, account, stored, service, now, proc, others>>

Usage  == 64     \* EXIT_USAGE
Token  == 66     \* the key of a signup, among the values of variables
Theirs == 77     \* a value a person writes
Lasts == Lifetime + 2 * Budget   \* bound of the clock
Larger(a, b)  == IF a > b THEN a ELSE b
Smaller(a, b) == IF a < b THEN a ELSE b

Command(cast) ==
  [cast |-> cast, pc |-> "start", exit |-> -1, interval |-> 0, deadline |-> 0, wakeAt |-> 0,
   value |-> 0, found |-> Absent, printed |-> FALSE,
   saved |-> FALSE, advised |-> FALSE, checked |-> Absent, seen |-> Absent, due |-> 0, missed |-> FALSE]
   \* history: renamed over the file; told how to recover; the file as checked, and as read;
   \* when the service may be asked again; whether the listing missed a monitor

Init ==
  /\ dir \in Dirs /\ file \in Files /\ (dir = "missing" => file = Absent)
  /\ stored = <<>>
  /\ service = [p \in Procs |-> "unasked"]
  /\ now = 0 /\ others = 0
  /\ \E setup \in Setups :
       /\ account = setup.account
       /\ proc = [p \in Procs |-> Command(setup.cast[p])]

Is(p, program, pc) == proc[p].cast.program = program /\ proc[p].pc = pc
Becomes(p, state)  == proc' = [proc EXCEPT ![p] = state]
Exit(p, code)      == Becomes(p, [proc[p] EXCEPT !.pc = "over", !.exit = code])
Variable(p) == IF proc[p].cast.program = "signup" THEN "API_KEY" ELSE "MONITOR"
Ended(p)    == proc[p].pc \in {"over", "killed"}

-----------------------------------------------------------------------------
(* Signing up.                                                              *)

\* Asked before anything is requested, since the key is shown once.
SignupBegins(p) ==
  /\ Is(p, "signup", "start")
  /\ IF ~proc[p].cast.printEnv /\ DestinationRefused(dir, file, "API_KEY")
       THEN Exit(p, Usage)
       ELSE Becomes(p, [proc[p] EXCEPT !.pc = "starting"])
  /\ UNCHANGED <<dir, file, account, stored, service, now, others>>

\* A start is never repeated: a lost answer ends the command.
SignupStarts(p) ==
  /\ Is(p, "signup", "starting")
  /\ \/ /\ service' = [service EXCEPT ![p] = "mailed"]
        /\ \/ \E interval \in Intervals :
                LET wait == Larger(interval, 1) IN
                Becomes(p, [proc[p] EXCEPT !.pc = "waiting", !.interval = wait,
                              !.deadline = now + Lifetime, !.due = now + wait,
                              !.wakeAt = now + Smaller(wait, Lifetime)])
           \/ Exit(p, 1)
     \/ (\E code \in {1, Usage} : Exit(p, code)) /\ UNCHANGED service
  /\ UNCHANGED <<dir, file, account, stored, now, others>>

\* Mutant: the code never runs out.
NeverOver(p) == FALSE

CodeOver(p) == now >= proc[p].deadline

Wakes(p) ==
  /\ Is(p, "signup", "waiting") /\ now >= proc[p].wakeAt
  /\ Becomes(p, IF CodeOver(p)
                  THEN [proc[p] EXCEPT !.pc = "over", !.exit = 1, !.advised = TRUE]
                  ELSE [proc[p] EXCEPT !.pc = "polling", !.wakeAt = now + Budget])
  /\ UNCHANGED <<dir, file, account, stored, service, now, others>>

\* Mutant: a poll refused as too frequent is repeated after the interval.
SecondsIgnoringHint(p, error) == proc[p].interval

SecondsAfter(p, error) ==
  IF error = "rate-limit" THEN Larger(proc[p].interval, RetryAfter) ELSE proc[p].interval

WaitsOn(p, error) ==
  [proc[p] EXCEPT !.pc = "waiting",
     !.wakeAt = now + Smaller(SecondsAfter(p, error), Larger(proc[p].deadline - now, 0)),
     !.due = now + IF error = "rate-limit" THEN Larger(proc[p].interval, RetryAfter)
                                           ELSE proc[p].interval]

\* Mutant: a poll that went unanswered ends the wait without a word.
StopSilently(p) == [proc[p] EXCEPT !.pc = "over", !.exit = 1]

\* Each of these ends says how an account whose key was lost is recovered.
StopPolling(p) == [proc[p] EXCEPT !.pc = "over", !.exit = 1, !.advised = TRUE]

\* The service answers a poll as its signup stands; the key is handed over once.
PollStatus(stage) ==
  CASE stage = "mailed" -> 202 [] stage = "confirmed" -> 200 [] OTHER -> 410

HearPoll(p, status) ==
  CASE status = 202 -> WaitsOn(p, "pending")
    [] status = 200 -> [proc[p] EXCEPT !.pc = IF proc[p].cast.printEnv THEN "printing" ELSE "checking", !.value = Token]
    [] status >= 500 -> WaitsOn(p, "transport")
    [] ErrorForStatus(status, "signup") = "rate-limit" -> WaitsOn(p, "rate-limit")
    [] OTHER -> StopPolling(p)

PollServed(p) ==
  /\ Is(p, "signup", "polling")
  /\ service' = IF service[p] = "confirmed" THEN [service EXCEPT ![p] = "handed"] ELSE service
  /\ Becomes(p, HearPoll(p, PollStatus(service[p]))) \/ Becomes(p, WaitsOn(p, "transport"))
  /\ UNCHANGED <<dir, file, account, stored, now, others>>

PollRefused(p) ==
  /\ Is(p, "signup", "polling")
  /\ \E status \in {403, 429, 503} : Becomes(p, HearPoll(p, status))
  /\ UNCHANGED <<dir, file, account, stored, service, now, others>>

\* Whoever reads the mail types the code, or cancels it.
CodeTyped(p) ==
  /\ service[p] = "mailed"
  /\ \E stage \in {"confirmed", "dead"} : service' = [service EXCEPT ![p] = stage]
  /\ UNCHANGED <<dir, file, account, stored, now, proc, others>>

\* The destination is asked about again, since the file can change in the wait.
SignupChecks(p) ==
  /\ Is(p, "signup", "checking")
  /\ Becomes(p, [proc[p] EXCEPT !.checked = file,
                   !.pc = IF DestinationRefused(dir, file, "API_KEY") THEN "unsaved" ELSE "reading"])
  /\ UNCHANGED <<dir, file, account, stored, service, now, others>>

-----------------------------------------------------------------------------
(* Saving.  A command that cannot write says so, and signup, whose key is   *)
(* shown once, prints it.                                                   *)

CouldNotSave(p) ==
  Becomes(p, IF proc[p].cast.program = "signup"
               THEN [proc[p] EXCEPT !.pc = "unsaved"]
               ELSE [proc[p] EXCEPT !.pc = "over", !.exit = 1])

Reads(p) ==
  /\ proc[p].pc = "reading"
  /\ IF Inspect(file).ok
       THEN Becomes(p, [proc[p] EXCEPT !.pc = "writing", !.found = Inspect(file).file, !.seen = file])
       ELSE CouldNotSave(p)
  /\ UNCHANGED <<dir, file, account, stored, service, now, others>>

Writes(p) ==
  /\ proc[p].pc = "writing"
  /\ \/ dir = "writable" /\ file' = Staged(file) /\ Becomes(p, [proc[p] EXCEPT !.pc = "renaming"])
     \/ CouldNotSave(p) /\ UNCHANGED file
  /\ UNCHANGED <<dir, account, stored, service, now, others>>

Renames(p) ==
  /\ proc[p].pc = "renaming"
  /\ \/ /\ file' = Renamed(proc[p].found, Variable(p), proc[p].value)
        /\ Becomes(p, IF proc[p].cast.program = "signup"
                        THEN [proc[p] EXCEPT !.pc = "over", !.saved = TRUE, !.exit = 0]
                        ELSE [proc[p] EXCEPT !.pc = "testing", !.saved = TRUE])
     \/ CouldNotSave(p) /\ UNCHANGED file
  /\ UNCHANGED <<dir, account, stored, service, now, others>>

PrintedUnsaved(p) == [proc[p] EXCEPT !.pc = "over", !.exit = 1, !.printed = TRUE]

Prints(p) ==
  /\ \/ /\ Is(p, "signup", "unsaved") /\ Becomes(p, PrintedUnsaved(p))
     \/ /\ Is(p, "signup", "printing")
        /\ Becomes(p, [proc[p] EXCEPT !.pc = "over", !.exit = 0, !.printed = TRUE])
     \/ /\ Is(p, "init", "printing")
        /\ Becomes(p, [proc[p] EXCEPT !.pc = "testing", !.printed = TRUE])
  /\ UNCHANGED <<dir, file, account, stored, service, now, others>>

-----------------------------------------------------------------------------
(* Making a monitor.                                                        *)

Saving(p, uuid) ==
  [proc[p] EXCEPT !.value = uuid,
     !.pc   = IF proc[p].cast.printEnv THEN "printing" ELSE IF dir = "missing" THEN "over" ELSE "reading",
     !.exit = IF dir = "missing" /\ ~proc[p].cast.printEnv THEN Usage ELSE -1]

\* With a key the monitor is made here.  Without one, or when the interface
\* refuses, an identifier is asked for.
InitBegins(p) ==
  /\ Is(p, "init", "start")
  /\ \/ /\ proc[p].cast.keyed
        /\ Becomes(p, IF Verified \/ proc[p].cast.nobody
                        THEN [proc[p] EXCEPT !.pc = "listing"]
                        ELSE [proc[p] EXCEPT !.pc = "over", !.exit = 1])
     \/ Becomes(p, [proc[p] EXCEPT !.pc = "asking"])
     \/ Exit(p, Usage)
  /\ UNCHANGED <<dir, file, account, stored, service, now, others>>

Called(name) == {uuid \in DOMAIN account : account[uuid].name = name}

AfterLook(found) ==
  CASE Cardinality(found) = 0 -> "creating"
    [] Cardinality(found) = 1 -> "using"
    [] OTHER -> "conflict"

\* The walk of the monitors, which may miss one.
InitLooks(p) ==
  /\ Is(p, "init", "listing")
  /\ \/ \E missed \in {{}} \cup {{uuid} : uuid \in Called("job")} :
          LET found == Called("job") \ missed IN
          Becomes(p, CASE AfterLook(found) = "creating" -> [proc[p] EXCEPT !.pc = "creating", !.missed = missed # {}]
                       [] AfterLook(found) = "using" -> Saving(p, CHOOSE uuid \in found : TRUE)
                       [] AfterLook(found) = "conflict" -> [proc[p] EXCEPT !.pc = "over", !.exit = 1])
     \/ Becomes(p, [proc[p] EXCEPT !.pc = "asking"])
  /\ UNCHANGED <<dir, file, account, stored, service, now, others>>

\* Mutant: a key of its own for every run.
KeyOfTheRun(p) == <<p, proc[p].cast.nobody>>

KeyOf(p) == <<"job", proc[p].cast.nobody>>

InitCreates(p) ==
  /\ Is(p, "init", "creating")
  /\ \/ /\ IF KeyOf(p) \in DOMAIN stored
             THEN UNCHANGED <<account, stored>>
             ELSE /\ account' = Append(account, [name |-> "job", by |-> p])
                  /\ stored' = [key \in DOMAIN stored \cup {KeyOf(p)} |->
                                  IF key = KeyOf(p) THEN Len(account) + 1 ELSE stored[key]]
        /\ Becomes(p, Saving(p, stored'[KeyOf(p)])) \/ Becomes(p, [proc[p] EXCEPT !.pc = "asking"])
     \/ Becomes(p, [proc[p] EXCEPT !.pc = "asking"]) /\ UNCHANGED <<account, stored>>
  /\ UNCHANGED <<dir, file, service, now, others>>

\* A person pastes an identifier, of a monitor that is there or was, or nothing.
InitAsks(p) ==
  /\ Is(p, "init", "asking")
  /\ (\E uuid \in DOMAIN account \cup {99} : Becomes(p, Saving(p, uuid))) \/ Exit(p, Usage)
  /\ UNCHANGED <<dir, file, account, stored, service, now, others>>

Tested(p, accepted) == IF accepted THEN 0 ELSE 1

InitTests(p) ==
  /\ Is(p, "init", "testing")
  /\ \E arrives \in BOOLEAN : Exit(p, Tested(p, arrives /\ proc[p].value \in DOMAIN account))
  /\ UNCHANGED <<dir, file, account, stored, service, now, others>>

-----------------------------------------------------------------------------
Killed(p) ==
  /\ ~Ended(p) /\ Becomes(p, [Command(proc[p].cast) EXCEPT !.pc = "killed"])
  /\ UNCHANGED <<dir, file, account, stored, service, now, others>>

\* A person adds a line, opens the file to others, or puts a link in its place.
SomeoneEdits ==
  /\ others < Others /\ others' = others + 1
  /\ file.kind \in {"absent", "file"} /\ \E p \in Procs : ~Ended(p)
  /\ \/ \E key \in {"API_KEY", "OTHER"} :
          file' = [file EXCEPT !.kind = "file", !.lines = UpsertEnvLine(@, key, Theirs)]
     \/ file.kind = "file" /\ file' = [file EXCEPT !.mode = "shared"]
     \/ file' = [file EXCEPT !.kind = "link"]
  /\ UNCHANGED <<dir, account, stored, service, now, proc>>

\* A timer is late by as much as it likes, and a call settles in its budget.
Tick ==
  /\ now < Lasts /\ now' = now + 1
  /\ \E p \in Procs : proc[p].pc \in {"waiting", "polling"}
  /\ \A p \in Procs : proc[p].pc = "polling" => now < proc[p].wakeAt
  /\ UNCHANGED <<dir, file, account, stored, service, proc, others>>

SignupStep(p) ==
  SignupBegins(p) \/ SignupStarts(p) \/ Wakes(p) \/ PollServed(p) \/ PollRefused(p) \/ SignupChecks(p)
SavingStep(p) == Reads(p) \/ Writes(p) \/ Renames(p) \/ Prints(p)
InitStep(p)   == InitBegins(p) \/ InitLooks(p) \/ InitCreates(p) \/ InitAsks(p) \/ InitTests(p)

Next ==
  \/ \E p \in Procs : SignupStep(p) \/ SavingStep(p) \/ InitStep(p) \/ CodeTyped(p) \/ Killed(p)
  \/ SomeoneEdits \/ Tick

Spec == Init /\ [][Next]_vars

\* Timers fire, requests settle in their budget, and file operations return.
FairSpec == Spec /\ WF_vars(Tick) /\ \A p \in Procs : WF_vars(SignupStep(p) \/ SavingStep(p))

-----------------------------------------------------------------------------
\* Type: every variable holds a value of its kind.
TypeOK ==
  /\ file.kind \in {"absent", "file", "link", "unreadable"} /\ file.mode \in {"private", "shared"}
  /\ now \in 0..Lasts /\ others \in 0..Others
  /\ \A p \in Procs :
       /\ proc[p].exit \in {-1, 0, 1, Usage}
       /\ proc[p].exit = -1 <=> proc[p].pc # "over"
       /\ proc[p].pc = "waiting" => proc[p].wakeAt <= Larger(proc[p].deadline, now)

\* A key that reached the command is in the file or on its output when it
\* returns, and where it was asked for when the status says so.
KeyIsKept ==
  \A p \in Procs :
    (proc[p].cast.program = "signup" /\ proc[p].pc = "over" /\ proc[p].value # 0) =>
      /\ proc[p].saved \/ proc[p].printed
      /\ proc[p].exit = 0 => proc[p].printed = proc[p].cast.printEnv

\* A key the service handed over, whose answer never came, is not lost without
\* a word: the command fails and says how to get another.
LostKeyIsExplained ==
  \A p \in Procs :
    (service[p] = "handed" /\ proc[p].pc = "over" /\ proc[p].value = 0) =>
      proc[p].exit = 1 /\ proc[p].advised

\* Every key handed over is accounted for, to the user if nowhere else.
KeysAreAccountedFor == TypeOK /\ KeyIsKept /\ LostKeyIsExplained

\* The service is not asked before it said it may be, nor once the code has
\* run out.
PollsKeepTheirDistance ==
  [][\A p \in Procs :
       (proc[p].pc = "waiting" /\ proc'[p].pc = "polling") =>
         proc[p].due <= now /\ now < proc[p].deadline]_vars

\* Nothing written by others is lost: a line goes only when it assigns the
\* variable of the command that writes, or came after that command's reading.
LinesSurvive ==
  [][others' = others =>
       \A line \in Holds(file.lines) \ Holds(file'.lines) :
         \E p \in Procs :
           /\ Renames(p)
           /\ line[1] = Variable(p) \/ proc[p].seen # file]_vars

\* signup replaces no key and opens its own to nobody, unless the file was
\* changed after it was last asked about, or read.
SignupIsHarmless ==
  [][\A p \in Procs :
       (/\ proc[p].cast.program = "signup" /\ Renames(p) /\ file' # file
        /\ proc[p].checked = file /\ proc[p].seen = file) =>
         /\ ~Assigns(file.lines, "API_KEY")
         /\ file.kind # "link"
         /\ file'.mode = "private"]_vars

\* Commands that ask for the same monitor make one between them, told of it or
\* not, and whatever the listing misses.
OneMonitorPerRequest ==
  (\A p, q \in Procs : proc[p].cast.nobody = proc[q].cast.nobody) =>
    Cardinality({uuid \in DOMAIN account : account[uuid].by \in Procs}) <= 1

\* Run again, init uses the monitor that is there: a second of its name is made
\* only past a listing that missed one, or that another run was ahead of.
RunAgainReuses ==
  [][\A p \in Procs :
       (InitCreates(p) /\ account' # account /\ ~proc[p].missed) =>
         \A uuid \in Called("job") : account[uuid].by \in Procs \ {p}]_vars

\* Status 0 of init means a monitor that exists, whose identifier is where it
\* was to be put.
ZeroIsUsable ==
  \A p \in Procs :
    (proc[p].cast.program = "init" /\ proc[p].exit = 0) =>
      /\ proc[p].value \in DOMAIN account
      /\ IF proc[p].cast.printEnv THEN proc[p].printed ELSE proc[p].saved

\* init makes one monitor, uses the one that is there, and says so truthfully.
\* Of two inits this holds within the day the service keeps a key for.
MonitorsAreAccountedFor == [][OneMonitorPerRequest' /\ ZeroIsUsable']_vars /\ RunAgainReuses

\* A secrets file keeps what others put there, and stays private.
NothingIsOverwritten == LinesSurvive /\ SignupIsHarmless

\* A signup that is not killed returns.
SignupReturns ==
  \A p \in Procs : proc[p].cast.program = "signup" => <>Ended(p)
=============================================================================
