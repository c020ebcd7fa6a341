------------------------------ MODULE MCSync ------------------------------
(* Two runs of one configuration: a monitor that is paged through a channel *)
(* and one that alerts nobody on purpose, or one whose routing is left      *)
(* alone, or nothing at all; on an account that has none of them, one with  *)
(* other fields, two of one name, or one the file does not describe.        *)
EXTENDS Sync

Def(name, tz, mode, refs) ==
  [name |-> name, schedule |-> "hourly", tz |-> tz, mode |-> mode, refs |-> refs]
Mon(name, schedule, ids) ==
  [name |-> name, schedule |-> schedule, tz |-> "default", channels |-> ids, suppressed |-> FALSE]

Paged   == <<Def("a", Unstated, "listed", {"1"}), Def("b", "utc", "none", {})>>
Left    == <<Def("a", "utc", "unmanaged", {})>>
Both    == [r \in Runs |-> Paged]
Neither == [r \in Runs |-> <<>>]

MCTexts == {"a", "b", "x", "hourly", "daily", "utc", "default", "elsewhere", Unstated, "1", "2", "ops"}

MCSetups ==
  {[config |-> Both, account |-> <<>>],
   [config |-> Neither, account |-> <<Mon("x", "daily", {"1"})>>]}
  \cup {[config |-> [r \in Runs |-> Left], account |-> acc] :
          acc \in {<<>>, <<Mon("a", "daily", {"1"}), Mon("x", "daily", {"1"})>>,
                   <<Mon("a", "hourly", {"1"}), Mon("a", "hourly", {})>>}}

Chan(id, label, verified) == [id |-> id, label |-> label, verified |-> verified]
MCChannels == {{Chan("1", "ops", TRUE)}, {Chan("1", "2", TRUE), Chan("2", "1", FALSE)}}

Flags(apply, check, prune, yes) == [apply |-> apply, check |-> check, prune |-> prune, yes |-> yes]
Check  == Flags(FALSE, TRUE, TRUE, FALSE)
Apply  == Flags(TRUE, FALSE, FALSE, FALSE)
Prune  == Flags(TRUE, FALSE, TRUE, FALSE)
MCModes == {<<Prune, Prune>>, <<Check, Apply>>}
MCKinds == {"forbidden", "rate-limit"}
=============================================================================
