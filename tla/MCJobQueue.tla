------------------------------ MODULE MCJobQueue ------------------------------
(* Small instances of JobQueue.                                              *)
EXTENDS JobQueue, TLC

CONSTANTS j1, j2, j3, r1, r2

\* One job for any runner, one for runner r1, one queued without a target.
ThreeTargets == j1 :> AnyRunner @@ j2 :> r1 @@ j3 :> NoTarget

\* A single job.
OneAny == j1 :> AnyRunner
===============================================================================
