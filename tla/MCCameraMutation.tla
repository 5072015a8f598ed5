-------------------------- MODULE MCCameraMutation --------------------------
(* Model-checking instances of CameraMutation.                              *)
EXTENDS CameraMutation, TLC

PlainSource == CHOOSE s \in Source : ~s.secret
=============================================================================
