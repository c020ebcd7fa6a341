--------------------------- MODULE MCApiSession ---------------------------
(* Two calls side by side under one key or none: a create, a rotation and   *)
(* a delete stand for the three ways a route may be retried.                *)
EXTENDS ApiSession

MCOps == {"create-monitor", "rotate-uuid", "delete-monitor"}
MCRefusals == {403}
=============================================================================
