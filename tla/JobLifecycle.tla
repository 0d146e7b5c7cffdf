----------------------------- MODULE JobLifecycle -----------------------------
(***************************************************************************)
(* What the server promises about one job record, whatever clients,        *)
(* runners, timers and restarts do.  This is the abstract specification    *)
(* that JobQueue (state/job.go) implements: the record a client reads back *)
(* follows QUEUED -> WAITING -> RUNNING -> ERROR/SUCCESS, may fall back    *)
(* from WAITING to QUEUED, and is frozen once the job is completed.        *)
(***************************************************************************)

CONSTANT Jobs

VARIABLES
    state,      \* the State column of each job, "NONE" before it is created
    canceled,   \* a cancellation was requested (CancelTime is set)
    failure     \* what the Error column says: "nil", "failed" or "canceled"

vars == <<state, canceled, failure>>

Completed == {"ERROR", "SUCCESS"}

TypeOK ==
    /\ state \in [Jobs -> {"NONE", "QUEUED", "WAITING", "RUNNING"} \cup Completed]
    /\ canceled \in [Jobs -> BOOLEAN]
    /\ failure \in [Jobs -> {"nil", "failed", "canceled"}]

Init ==
    /\ state = [j \in Jobs |-> "NONE"]
    /\ canceled = [j \in Jobs |-> FALSE]
    /\ failure = [j \in Jobs |-> "nil"]

Move(j, from, to) ==
    /\ state[j] = from
    /\ state' = [state EXCEPT ![j] = to]

Queue(j)  == Move(j, "NONE", "QUEUED")     /\ UNCHANGED <<canceled, failure>>
Assign(j) == Move(j, "QUEUED", "WAITING")  /\ UNCHANGED <<canceled, failure>>
Accept(j) == Move(j, "WAITING", "RUNNING") /\ UNCHANGED <<canceled, failure>>
Reject(j) == Move(j, "WAITING", "QUEUED")  /\ UNCHANGED <<canceled, failure>>

Succeed(j) == Move(j, "RUNNING", "SUCCESS") /\ UNCHANGED <<canceled, failure>>

Fail(j) ==
    /\ Move(j, "RUNNING", "ERROR")
    /\ failure' = [failure EXCEPT ![j] = "failed"]
    /\ UNCHANGED canceled

\* A cancellation is only noted on a job somebody is working on.
RequestCancel(j) ==
    /\ state[j] \in {"WAITING", "RUNNING"}
    /\ canceled' = [canceled EXCEPT ![j] = TRUE]
    /\ UNCHANGED <<state, failure>>

\* A queued job, or any job when the cancellation is forced, ends at once.
Cancel(j) ==
    /\ state[j] \in {"QUEUED", "WAITING", "RUNNING"}
    /\ state' = [state EXCEPT ![j] = "ERROR"]
    /\ canceled' = [canceled EXCEPT ![j] = TRUE]
    /\ failure' = [failure EXCEPT ![j] = "canceled"]

Next == \E j \in Jobs :
    \/ Queue(j) \/ Assign(j) \/ Accept(j) \/ Reject(j)
    \/ Succeed(j) \/ Fail(j)
    \/ RequestCancel(j) \/ Cancel(j)

Spec == Init /\ [][Next]_vars
===============================================================================
