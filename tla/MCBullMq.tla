----------------------------- MODULE MCBullMq -----------------------------
(* One job of a schedule and one added by hand, two attempts each and one   *)
(* stall: enough for a retry after a failure, a retry after a stall, and    *)
(* both.  A worker of one processor, which starts its runs, and workers of  *)
(* two, which must not: two runs at once are a job taken back from a slow   *)
(* worker, or, with one-off jobs allowed, two jobs.  Three reports in all.  *)
EXTENDS BullMq, TLC

CONSTANTS nightly, byHand, w1, w2

MCJobs == {nightly, byHand}
MCRepeating == {nightly}
MCWorkers == {w1, w2}
MCSerial == [processors |-> {w1}, pingStart |-> "unset", allowOneOff |-> FALSE]
MCParallel == [processors |-> {w1, w2}, pingStart |-> "unset", allowOneOff |-> FALSE]
MCOneOffs == [processors |-> {w1, w2}, pingStart |-> "off", allowOneOff |-> TRUE]
MCWirings == {MCSerial, MCParallel, MCOneOffs}
MCSerialOnly == {MCSerial}
MCRuns == 1..3
MCMonitorOf == [r \in Runs |-> "digest"]
MCLoud == {}
MCQuiet == {"accepted"}
MCFlushers == {}
=============================================================================
