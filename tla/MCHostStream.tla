---------------------------- MODULE MCHostStream ----------------------------
(* One call over a small source and a small sink. *)
EXTENDS HostStream

SomeDeltas == {-3, -1, 0, 1, 4}
=============================================================================
