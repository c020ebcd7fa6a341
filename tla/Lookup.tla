------------------------------ MODULE Lookup ------------------------------
(***************************************************************************)
(* How a name becomes a monitor's id (ping/resolve.ts, wiring/validate.ts, *)
(* ping/env.ts), and how cronheart doctor goes the other way, from the     *)
(* variables it finds to names (cli/doctor.ts).  No state.                 *)
(*                                                                         *)
(* A name and the stem of a variable are sequences of the characters "A",  *)
(* "a", "-" and "_": a letter in either case, and what is neither letter   *)
(* nor digit.  What a name looks like besides is its shape:                *)
(*   "id"       a monitor's id                                             *)
(*   "broken"   shaped like one all the way through, and none              *)
(*   "opening"  opens like one                                             *)
(*   "plain"                                                               *)
(* A variable is <<prefix, stem>>; the environment gives each its value,   *)
(* "unset", "blank", "id", "junk".                                         *)
(***************************************************************************)
EXTENDS Integers, SequencesExt

Legs == <<"CRONHEART", "CRON_MONITOR">>

IsLetter(c) == c \in {"A", "a"}

\* screaming: upper case, every run of other characters one underscore, none at
\* either end.
Screaming(name) ==
  LET letters == {i \in DOMAIN name : IsLetter(name[i])}
      kept    == {i \in DOMAIN name :
                    \/ i \in letters
                    \/ i - 1 \in letters /\ \E k \in letters : k > i}
      upper   == [i \in DOMAIN name |-> IF IsLetter(name[i]) THEN "A" ELSE "_"]
  IN  FoldLeftDomain(LAMBDA made, i : IF i \in kept THEN Append(made, upper[i]) ELSE made,
                     <<>>, name)

Set(value)   == value # "unset"
Holds(value) == value \in {"id", "junk"}

\* The value of a variable, under its name or its legacy name: one that is set
\* counts, though it be blank.
ReadVariable(env, stem) ==
  IF Set(env[Legs[1], stem]) THEN env[Legs[1], stem] ELSE env[Legs[2], stem]

ConfiguredIn(env, name) == ReadVariable(env, Screaming(name))

\* Mutant: whatever is not an id is a name.
LooksUp(shape) == shape # "id"

\* Nothing shaped like an id all the way through is searched for as a name.
IsLookedUp(shape) == shape \notin {"id", "broken"}

\* resolveMonitor: "ok", "unset" or "malformed", for what the map of the client
\* says of the name ("unset" if nothing) and what the environment does.
ResolveMonitor(name, shape, mapped, env) ==
  LET looked     == IF IsLookedUp(shape) THEN ConfiguredIn(env, name) ELSE "unset"
      configured == IF Set(mapped) THEN mapped ELSE looked
  IN  IF shape = "id" \/ configured = "id" THEN "ok"
      ELSE IF configured = "junk" \/ Set(mapped) \/ shape \in {"broken", "opening"} THEN "malformed"
      ELSE "unset"

\* refuseRepeats: no two monitors of a configuration have one name, nor names
\* that come to one variable.
Repeats(names) ==
  \E i, k \in DOMAIN names : i # k /\ Screaming(names[i]) = Screaming(names[k])

-----------------------------------------------------------------------------
(* doctor.                                                                  *)

Lower(c) == IF c = "A" THEN "a" ELSE IF c = "_" THEN "-" ELSE c

NameOfStem(stem) == [i \in DOMAIN stem |-> Lower(stem[i])]

\* configuredMonitors goes through the variables in the order of their names,
\* `variables`: a legacy one counts where the other is not there or blank, and
\* the first of those that come to one name.
Counts(env, v) ==
  /\ Holds(env[v])
  /\ v[1] = "CRON_MONITOR" => ~Holds(env["CRONHEART", v[2]])

ConfiguredMonitors(variables, env) ==
  {i \in DOMAIN variables :
     /\ Counts(env, variables[i])
     /\ \A k \in 1..(i - 1) :
          Counts(env, variables[k]) => NameOfStem(variables[k][2]) # NameOfStem(variables[i][2])}

\* The ones doctor prints as resolved, and checks in for one of.
ResolvedMonitors(variables, env) ==
  {i \in ConfiguredMonitors(variables, env) : env[variables[i]] = "id"}

\* doctorCommand's status: how it ends without a monitor asked for, given how
\* the check-in it makes comes out.
DoctorStatus(variables, env, disabled, checkInOk) ==
  LET configured == ConfiguredMonitors(variables, env)
      resolved   == ResolvedMonitors(variables, env)
      problems   == disabled \/ configured # resolved
  IN  IF resolved = {} THEN IF problems THEN 1 ELSE 0
      ELSE IF disabled \/ problems \/ ~checkInOk THEN 1 ELSE 0

=============================================================================
