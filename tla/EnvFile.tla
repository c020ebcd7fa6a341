------------------------------ MODULE EnvFile ------------------------------
(***************************************************************************)
(* The secrets file cronheart signup and cronheart init add a line to      *)
(* (cli/env-file.ts), and what signup asks of it first (cli/signup.ts).    *)
(* No state.  A file is [kind, lines, mode]: a sequence of <<variable,     *)
(* value>>, "private" to its owner or "shared".  An unreadable file and    *)
(* the target of a link have lines too.                                    *)
(***************************************************************************)
EXTENDS Naturals, Sequences

Absent == [kind |-> "absent", lines |-> <<>>, mode |-> "private"]

\* What can be at its place.  A variable that is not a command's own is "OTHER",
\* and a file that is not there would have no lines and be open to nobody.
Assignments == {"API_KEY", "MONITOR", "OTHER"} \X Nat
SecretsFiles ==
  {f \in [kind : {"absent", "file", "link", "unreadable"}, lines : Seq(Assignments),
          mode : {"private", "shared"}] : f.kind = "absent" => f = Absent}

Holds(lines) == {lines[i] : i \in DOMAIN lines}
Assigns(lines, key) == \E i \in DOMAIN lines : lines[i][1] = key

\* The first line that assigns the variable is replaced; otherwise one is added.
UpsertEnvLine(lines, key, value) ==
  IF Assigns(lines, key)
    THEN LET at == CHOOSE i \in DOMAIN lines :
                     lines[i][1] = key /\ \A j \in 1..(i - 1) : lines[j][1] # key
         IN [lines EXCEPT ![at] = <<key, value>>]
    ELSE Append(lines, <<key, value>>)

\* Mutant: whatever cannot be read is written anew.
InspectOrNothing(file) == [ok |-> TRUE, file |-> IF file.kind = "file" THEN file ELSE Absent]

\* Absent is the one failure that means "write a new one".
Inspect(file) == [ok |-> file.kind \in {"file", "absent"}, file |-> file]

\* Why signup would not save a key there.
DestinationRefused(dir, file, key) ==
  \/ dir # "writable"
  \/ ~Inspect(file).ok
  \/ Assigns(file.lines, key)
  \/ file.kind = "file" /\ file.mode = "shared"

\* Written beside the target: the file is what it was until the rename.
Staged(file) == file

\* The rename replaces whatever has the name by now, a link included; a file
\* that was there keeps its mode.
Renamed(found, key, value) ==
  [kind |-> "file", lines |-> UpsertEnvLine(found.lines, key, value), mode |-> found.mode]
=============================================================================
