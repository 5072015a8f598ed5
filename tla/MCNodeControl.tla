---------------------------- MODULE MCNodeControl ----------------------------
(* NodeControl for TLC; the instances are in the MCNode*.cfg files. *)
EXTENDS NodeControl
=============================================================================
