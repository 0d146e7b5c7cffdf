----------------------------- MODULE MCJobStream -----------------------------
(***************************************************************************)
(* Instances of JobStream: a job that its local client may get, another    *)
(* runner, or a runner that refuses it.                                    *)
(***************************************************************************)
EXTENDS JobStream

CONSTANTS j, s1, s2, s3

===============================================================================
