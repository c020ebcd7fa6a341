--------------------------- MODULE MCRunCommand ---------------------------
(* The invocations that differ in what they can meet, one signal and two    *)
(* piped streams with a write each, so that one can stall while the other   *)
(* flows and both can be stalled at once.                                   *)
EXTENDS ProcessExit

MCRuns == {1}
MCFlushers == {1}
MCMonitorOf == [r \in Runs |-> "backup"]
MCLoud == {}
MCQuiet == {"accepted"}

Invocation(monitor, timeout, killAfter, excerpt, ownGroup) ==
  [monitor |-> monitor, timeout |-> timeout, killAfter |-> killAfter,
   excerpt |-> excerpt, ownGroup |-> ownGroup]

MCBounds == {<<TRUE, TRUE, TRUE>>, <<TRUE, TRUE, FALSE>>, <<TRUE, FALSE, TRUE>>, <<FALSE, TRUE, TRUE>>}
MCSpecs ==
  {Invocation(monitor, timeout, killAfter, monitor = "refused", ownGroup) :
     monitor \in {"resolved", "refused"}, <<timeout, killAfter, ownGroup>> \in MCBounds}
  \cup {Invocation("resolved", TRUE, TRUE, TRUE, TRUE), Invocation("resolved", FALSE, FALSE, FALSE, FALSE),
        Invocation("usage", TRUE, TRUE, TRUE, TRUE)}

MCBoth == {"stdout", "stderr"}
MCNone == {}
MCEither == {TRUE, FALSE}
=============================================================================
