--------------------------- MODULE MCPingClient ---------------------------
(* Two runs of two monitors, so that a warning of one must not silence the  *)
(* other's, and one flush.                                                  *)
EXTENDS PingClient, TLC

CONSTANTS r1, r2, f1

MCRuns == {r1, r2}
MCMonitorOf == r1 :> "backup" @@ r2 :> "digest"
MCSinks == {}
MCLoud == {"timeout"}
MCQuiet == {"accepted"}
MCFlushers == {f1}

=============================================================================
