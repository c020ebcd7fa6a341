---------------------------- MODULE MCAdapters ----------------------------
(* Three executions of one job: enough for two to overlap and a third to    *)
(* open a bracket of its own behind them, or for one to end whose beginning *)
(* was missed while two others are open.  The result of every check-in is   *)
(* taken by a sink, so the warner speaks of overlaps only.  Runs bounds the  *)
(* runs the client starts: where three executions follow each other apart,   *)
(* startRun throws for the third, as a client the host passed may.           *)
EXTENDS Adapters

CONSTANT f1

MCFires == 1..3
MCRuns == 1..2
MCMonitorOf == [r \in Runs |-> "backup"]
MCLoud == {}
MCQuiet == {"accepted"}
MCFlushers == {f1}
=============================================================================
