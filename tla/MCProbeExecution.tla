-------------------------- MODULE MCProbeExecution --------------------------
EXTENDS ProbeExecution
CONSTANTS r1, r2, r3
(* The second and the third request go to the same camera.                 *)
MCTarget(r) == IF r = r1 THEN "t1" ELSE "t2"
=============================================================================
