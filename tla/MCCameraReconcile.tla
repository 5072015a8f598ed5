------------------------- MODULE MCCameraReconcile -------------------------
(* Model-checking instances of CameraReconcile.                             *)
EXTENDS CameraReconcile, TLC

PlainSource == CHOOSE s \in Source : ~s.secret

CredentialSource == CHOOSE s \in Source : s.secret

WorkerSymmetry == Permutations(Workers)
=============================================================================
