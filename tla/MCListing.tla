---------------------------- MODULE MCListing ----------------------------
(* Five rows in pages of two, two of them of one second, while two are made *)
(* and up to three deleted: a page boundary falls inside every disturbance. *)
EXTENDS Listing

MCSameTime == {{1, 2}}
=============================================================================
