--------------------------- MODULE MCTransport ---------------------------
(* A budget of five units holds the floor's pause and one of two, and not   *)
(* two of the cap's; a header asking for nine is held to the cap of three.  *)
EXTENDS Transport

MCAsks == {0, 2, 9}
=============================================================================
