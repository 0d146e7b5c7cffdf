------------------------------ MODULE MCEnvLock ------------------------------
(* Small instances of EnvLock: processes with one thread, and a process      *)
(* with two threads beside one with a single thread.                         *)
EXTENDS EnvLock, TLC

CONSTANTS t1, t2, t3, t4, e1, e2, e3, e4, n1, n2

OwnProcess == [t \in Thread |->
    ((t1 :> e1) @@ (t2 :> e2) @@ (t3 :> e3) @@ (t4 :> e4))[t]]

Shared == (t1 :> e1) @@ (t2 :> e1) @@ (t3 :> e2)

SameName == [t \in Thread |-> n1]

\* The fourth thread locks a name of its own, as machine actions do.
TwoNames == (t1 :> n1) @@ (t2 :> n1) @@ (t3 :> n1) @@ (t4 :> n2)
===============================================================================
