----------------------------- MODULE CheckIn -----------------------------
(***************************************************************************)
(* What a caller of send() is promised, with no clock, no retry policy and *)
(* no network: requests leave one at a time, at most Limit of them, none   *)
(* after a final answer and none after a cancellation unless it is the     *)
(* first; the call concludes once, with an answer some request really got  *)
(* (and with that answer if it was final), or with a failure, and a        *)
(* cancellation is only blamed where there was one.                        *)
(***************************************************************************)
EXTENDS Naturals

CONSTANTS
  Limit,     \* requests one call may make
  Replies,   \* what a server may answer
  Final,     \* the replies that are never retried
  Failures,  \* the failures that are not a cancellation
  Nothing    \* no reply

VARIABLES requests, open, heard, cancelled, verdict

vars == <<requests, open, heard, cancelled, verdict>>

Verdict(why, reply) == [reason |-> why, answer |-> reply]
Pending == Verdict("none", Nothing)

Init ==
  /\ requests = 0
  /\ open = FALSE
  /\ heard = Nothing
  /\ cancelled = FALSE
  /\ verdict = Pending

Send ==
  /\ verdict = Pending
  /\ ~open
  /\ requests < Limit
  /\ heard \notin Final
  /\ requests = 0 \/ ~cancelled
  /\ requests' = requests + 1
  /\ open' = TRUE
  /\ UNCHANGED <<heard, cancelled, verdict>>

\* The request in flight is answered; an answer supersedes the one before.
Hear ==
  /\ open
  /\ open' = FALSE
  /\ heard' \in Replies
  /\ UNCHANGED <<requests, cancelled, verdict>>

Lose ==
  /\ open
  /\ open' = FALSE
  /\ UNCHANGED <<requests, heard, cancelled, verdict>>

Cancel ==
  /\ verdict = Pending
  /\ cancelled' = TRUE
  /\ UNCHANGED <<requests, open, heard, verdict>>

Conclude ==
  /\ verdict = Pending
  /\ ~open
  /\ requests > 0
  /\ \/ heard # Nothing /\ verdict' = Verdict("answered", heard)
     \/ heard \notin Final /\ \E f \in Failures : verdict' = Verdict(f, Nothing)
     \/ heard \notin Final /\ cancelled /\ verdict' = Verdict("aborted", Nothing)
  /\ UNCHANGED <<requests, open, heard, cancelled>>

Next == Send \/ Hear \/ Lose \/ Cancel \/ Conclude

Spec == Init /\ [][Next]_vars

=============================================================================
