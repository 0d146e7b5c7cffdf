------------------------------- MODULE JobQueue -------------------------------
(***************************************************************************)
(* The server's job queue: internal/server/singleprocess/state/job.go.     *)
(*                                                                         *)
(* A job lives twice: as a database row (the InternalJob model) and, until *)
(* it completes, as a jobIndex entry of the in-memory table.  Every        *)
(* operation below opens a memdb write transaction, and memdb allows one   *)
(* writer at a time, so an operation is one step: it reads the index       *)
(* entry, changes it in place, saves the row and commits.  Runtime timers  *)
(* (time.AfterFunc) run concurrently: a timer first fires, which starts a  *)
(* goroutine, and that goroutine takes the write lock in a later step.     *)
(* JobAssignForRunner searches with a read transaction and assigns with a  *)
(* write transaction, so it takes two steps.                               *)
(*                                                                         *)
(* Every save to the database succeeds here; JobRetention has failing ones. *)
(* A creation fails all the same when the job names no runner to run it:   *)
(* the row is saved by then and stays, without an entry.                   *)
(***************************************************************************)
EXTENDS Naturals, FiniteSets

CONSTANTS
    Jobs,         \* the job ids that may be queued
    Runners,      \* the runner ids that may register
    AnyRunner,    \* the value of TargetRunner that means "any runner"
    NoTarget,     \* stands for a TargetRunner that is missing
    Target,       \* TargetRunner of each job
    Expires,      \* the jobs queued with an ExpireTime
    ByIdOnly,     \* the runners registered with by_id_only
    MaxTimers     \* bound: runtime timers outstanding for a job at assignment

ASSUME TargetAssumption ==
    /\ {AnyRunner, NoTarget} \cap Runners = {}
    /\ AnyRunner # NoTarget
    /\ Target \in [Jobs -> Runners \cup {AnyRunner, NoTarget}]
ASSUME JobsAssumption == Expires \subseteq Jobs /\ ByIdOnly \subseteq Runners /\ MaxTimers \in Nat

VARIABLES
    \* The database, which survives a restart.
    rowState,     \* State of each row, "NONE" while there is no row
    queueTime,    \* QueueTime, a position in the order of creation
    assignTime,   \* AssignTime is set
    cancelTime,   \* CancelTime is set
    jobError,     \* the Error column
    clock,        \* the time of the last creation
    registered,   \* the Runner rows
    \* The process, all of it lost in a crash.
    up,           \* the server is running
    mem,          \* State of each jobIndex entry, "absent" when there is none
    timer,        \* the kind of timer StateTimer points to
    armed,        \* that timer: "off", "reset" (a full period to go), "on"
    stray,        \* running timers that no StateTimer points to, by kind
    expiry,       \* the expiry timer is running
    due,          \* callbacks of fired timers, waiting for the write lock
    asking,       \* the runners with a JobAssignForRunner call in progress
    cand          \* the candidates that call has found

rows == <<rowState, queueTime, assignTime, cancelTime, jobError, clock>>
index == <<mem, timer, armed, stray, expiry>>
calls == <<asking, cand>>
vars == <<rows, registered, up, index, due, calls>>

Incomplete == {"QUEUED", "WAITING", "RUNNING"}
Completed == {"ERROR", "SUCCESS"}
JobStates == Incomplete \cup Completed
StateTimers == {"ack", "beat"}
Timers == StateTimers \cup {"expire"}

TypeOK ==
    /\ rowState \in [Jobs -> JobStates \cup {"NONE"}]
    /\ queueTime \in [Jobs -> Nat]
    /\ assignTime \in [Jobs -> BOOLEAN]
    /\ cancelTime \in [Jobs -> BOOLEAN]
    /\ jobError \in [Jobs -> {"nil", "failed", "canceled"}]
    /\ clock \in Nat
    /\ registered \in SUBSET Runners
    /\ up \in BOOLEAN
    /\ mem \in [Jobs -> JobStates \cup {"absent"}]
    /\ timer \in [Jobs -> StateTimers \cup {"none"}]
    /\ armed \in [Jobs -> {"off", "reset", "on"}]
    /\ stray \in [Jobs -> [StateTimers -> Nat]]
    /\ expiry \in [Jobs -> BOOLEAN]
    /\ due \in [Jobs -> [Timers -> Nat]]
    /\ asking \in SUBSET Runners
    /\ cand \in [Runners -> SUBSET Jobs]

Init ==
    /\ rowState = [j \in Jobs |-> "NONE"]
    /\ queueTime = [j \in Jobs |-> 0]
    /\ assignTime = [j \in Jobs |-> FALSE]
    /\ cancelTime = [j \in Jobs |-> FALSE]
    /\ jobError = [j \in Jobs |-> "nil"]
    /\ clock = 0
    /\ registered = {}
    /\ up = TRUE
    /\ mem = [j \in Jobs |-> "absent"]
    /\ timer = [j \in Jobs |-> "none"]
    /\ armed = [j \in Jobs |-> "off"]
    /\ stray = [j \in Jobs |-> [k \in StateTimers |-> 0]]
    /\ expiry = [j \in Jobs |-> FALSE]
    /\ due = [j \in Jobs |-> [k \in Timers |-> 0]]
    /\ asking = {}
    /\ cand = [r \in Runners |-> {}]
-------------------------------------------------------------------------------
(* Timers.  The names of the effects are those of time.Timer.              *)

Running(j) == armed[j] # "off"

\* job.StateTimer = time.AfterFunc(...)
StartTimer(j, kind) ==
    /\ timer' = [timer EXCEPT ![j] = kind]
    /\ armed' = [armed EXCEPT ![j] = "reset"]

\* jobIndex.End: Stop and drop the timer.  A timer that has already fired is
\* past stopping: its callback stays due.
End(j) ==
    /\ timer' = [timer EXCEPT ![j] = "none"]
    /\ armed' = [armed EXCEPT ![j] = "off"]

One(b) == IF b THEN 1 ELSE 0

TimerCount(j) ==
    One(Running(j)) + stray[j]["ack"] + stray[j]["beat"]
      + due[j]["ack"] + due[j]["beat"]

\* Defect: the callback runs whether or not its timer fired.
CalledAnyway(j, kind) == due' = [due EXCEPT ![j][kind] = @ - 1]

Called(j, kind) ==
    /\ due[j][kind] > 0
    /\ due' = [due EXCEPT ![j][kind] = @ - 1]
-------------------------------------------------------------------------------
(* Runners.                                                                *)

RunnerCreate(r) ==
    /\ up
    /\ registered' = registered \cup {r}
    /\ UNCHANGED <<rows, up, index, due, calls>>

RunnerDelete(r) ==
    /\ up
    /\ registered' = registered \ {r}
    /\ UNCHANGED <<rows, up, index, due, calls>>
-------------------------------------------------------------------------------
(* Queueing.                                                               *)

\* A new entry is QUEUED and needs no state timer; the expiry timer is not
\* kept anywhere and so is never stopped.  Without a target runner there is an
\* error instead, and JobCreate does not commit.
jobIndexSet(j) ==
    IF Target[j] = NoTarget
      THEN UNCHANGED <<mem, expiry>>
      ELSE /\ mem' = [mem EXCEPT ![j] = "QUEUED"]
           /\ expiry' = [expiry EXCEPT ![j] = j \in Expires]

\* jobCreate.  An id is used once: QueueJob generates it.  QueueJob does not
\* ask for a target runner, and the row is saved whatever jobIndexSet returns.
JobCreate(j) ==
    /\ up
    /\ rowState[j] = "NONE"
    /\ rowState' = [rowState EXCEPT ![j] = "QUEUED"]
    /\ clock' = clock + 1
    /\ queueTime' = [queueTime EXCEPT ![j] = clock + 1]
    /\ jobIndexSet(j)
    /\ UNCHANGED <<assignTime, cancelTime, jobError, registered, up, timer, armed, stray, due, calls>>
-------------------------------------------------------------------------------
(* Assignment.                                                             *)

Oldest(S) == {j \in S : \A k \in S : queueTime[j] <= queueTime[k]}

jobCandidateById(r) == Oldest({j \in Jobs : mem[j] = "QUEUED" /\ Target[j] = r})

jobCandidateAny == Oldest({j \in Jobs : mem[j] = "QUEUED" /\ Target[j] = AnyRunner})

Candidates(r) ==
    jobCandidateById(r) \cup (IF r \in ByIdOnly THEN {} ELSE jobCandidateAny)

\* A runner's stream calls JobAssignForRunner; RunnerJobStream has looked the
\* runner up first.
Ask(r) ==
    /\ up
    /\ r \in registered \ asking
    /\ asking' = asking \cup {r}
    /\ UNCHANGED <<rows, registered, up, index, due, cand>>

\* The read transaction.  Without a candidate the call waits on the watch of
\* the QUEUED index, whose channel belongs to the same snapshot.
Search(r) ==
    /\ up
    /\ r \in asking \cap registered
    /\ cand[r] = {}
    /\ Candidates(r) # {}
    /\ cand' = [cand EXCEPT ![r] = Candidates(r)]
    /\ UNCHANGED <<rows, registered, up, index, due, asking>>

\* The runner is gone, or the caller's context ends while the call waits.
GiveUp(r) ==
    /\ up
    /\ r \in asking
    /\ cand[r] = {}
    /\ asking' = asking \ {r}
    /\ UNCHANGED <<rows, registered, up, index, due, cand>>

Valid(r) == {j \in cand[r] : mem[j] = "QUEUED"}

\* Defect: the job is assigned without a timer to requeue it.
AssignUntimed(r, j) ==
    /\ up
    /\ r \in asking
    /\ j \in Oldest(Valid(r))
    /\ mem' = [mem EXCEPT ![j] = "WAITING"]
    /\ rowState' = [rowState EXCEPT ![j] = "WAITING"]
    /\ assignTime' = [assignTime EXCEPT ![j] = TRUE]
    /\ asking' = asking \ {r}
    /\ cand' = [cand EXCEPT ![r] = {}]
    /\ UNCHANGED <<queueTime, cancelTime, jobError, clock, registered, up, timer, armed, stray, expiry, due>>

\* The write transaction, with the recheck of each candidate.  A StateTimer
\* left by an earlier rejection is overwritten without being stopped.
Assign(r, j) ==
    /\ up
    /\ r \in asking
    /\ j \in Oldest(Valid(r))
    /\ TimerCount(j) < MaxTimers
    /\ mem' = [mem EXCEPT ![j] = "WAITING"]
    /\ rowState' = [rowState EXCEPT ![j] = "WAITING"]
    /\ assignTime' = [assignTime EXCEPT ![j] = TRUE]
    /\ stray' = IF Running(j) THEN [stray EXCEPT ![j][timer[j]] = @ + 1] ELSE stray
    /\ StartTimer(j, "ack")
    /\ asking' = asking \ {r}
    /\ cand' = [cand EXCEPT ![r] = {}]
    /\ UNCHANGED <<queueTime, cancelTime, jobError, clock, registered, up, expiry, due>>

\* Defect: the retry tries the same candidates again instead of searching.
RetrySameCandidates(r) ==
    /\ up
    /\ r \in asking
    /\ cand[r] # {}
    /\ Valid(r) = {}
    /\ UNCHANGED vars

\* Every candidate was taken meanwhile: goto RETRY_ASSIGN.
AssignRetry(r) ==
    /\ up
    /\ r \in asking
    /\ cand[r] # {}
    /\ Valid(r) = {}
    /\ cand' = [cand EXCEPT ![r] = {}]
    /\ UNCHANGED <<rows, registered, up, index, due, asking>>
-------------------------------------------------------------------------------
(* The operations on an assigned job.  Each is defined without due and     *)
(* cand, so that an RPC and a timer callback can share it.                 *)

\* Defect: a rejection stops the ack timer and starts none.
RejectUntimed(j, ack) ==
    /\ mem[j] = "WAITING"
    /\ mem' = [mem EXCEPT ![j] = IF ack THEN "RUNNING" ELSE "QUEUED"]
    /\ rowState' = [rowState EXCEPT ![j] = IF ack THEN "RUNNING" ELSE "QUEUED"]
    /\ IF ack THEN StartTimer(j, "beat") ELSE End(j)
    /\ UNCHANGED <<queueTime, assignTime, cancelTime, jobError, clock, stray, expiry>>

\* Both answers stop the ack timer and both start a heartbeat timer.  A
\* rejection assigns nil to AssignTime, but softDecode skips unset fields, so
\* the row keeps the old value.
JobAck(j, ack) ==
    /\ mem[j] = "WAITING"
    /\ mem' = [mem EXCEPT ![j] = IF ack THEN "RUNNING" ELSE "QUEUED"]
    /\ rowState' = [rowState EXCEPT ![j] = IF ack THEN "RUNNING" ELSE "QUEUED"]
    /\ StartTimer(j, "beat")
    /\ UNCHANGED <<queueTime, assignTime, cancelTime, jobError, clock, stray, expiry>>

JobComplete(j, ok) ==
    /\ mem[j] = "RUNNING"
    /\ mem' = [mem EXCEPT ![j] = IF ok THEN "SUCCESS" ELSE "ERROR"]
    /\ rowState' = [rowState EXCEPT ![j] = IF ok THEN "SUCCESS" ELSE "ERROR"]
    /\ jobError' = IF ok THEN jobError ELSE [jobError EXCEPT ![j] = "failed"]
    /\ End(j)
    /\ UNCHANGED <<queueTime, assignTime, cancelTime, clock, stray, expiry>>

\* Defect: the cancelled state is not saved to the row.
CancelQueuedUnsaved(j) ==
    /\ mem[j] = "QUEUED"
    /\ mem' = [mem EXCEPT ![j] = "ERROR"]
    /\ cancelTime' = [cancelTime EXCEPT ![j] = TRUE]
    /\ UNCHANGED <<rowState, jobError, queueTime, assignTime, clock, timer, armed, stray, expiry>>

\* jobCancel on a queued job, forced or not: End is not called.
CancelQueued(j) ==
    /\ mem[j] = "QUEUED"
    /\ mem' = [mem EXCEPT ![j] = "ERROR"]
    /\ rowState' = [rowState EXCEPT ![j] = "ERROR"]
    /\ jobError' = [jobError EXCEPT ![j] = "canceled"]
    /\ cancelTime' = [cancelTime EXCEPT ![j] = TRUE]
    /\ UNCHANGED <<queueTime, assignTime, clock, timer, armed, stray, expiry>>

\* Defect: completed jobs are not left alone.
CancelCompleted(j) ==
    /\ mem[j] \in {"WAITING", "RUNNING", "SUCCESS"}
    /\ mem' = [mem EXCEPT ![j] = "ERROR"]
    /\ rowState' = [rowState EXCEPT ![j] = "ERROR"]
    /\ jobError' = [jobError EXCEPT ![j] = "canceled"]
    /\ cancelTime' = [cancelTime EXCEPT ![j] = TRUE]
    /\ End(j)
    /\ UNCHANGED <<queueTime, assignTime, clock, stray, expiry>>

\* Defect: the job ends without an error.
CancelSilently(j) ==
    /\ mem[j] \in {"WAITING", "RUNNING"}
    /\ mem' = [mem EXCEPT ![j] = "ERROR"]
    /\ rowState' = [rowState EXCEPT ![j] = "ERROR"]
    /\ cancelTime' = [cancelTime EXCEPT ![j] = TRUE]
    /\ End(j)
    /\ UNCHANGED <<queueTime, assignTime, jobError, clock, stray, expiry>>

\* jobCancel(force) on a job that a runner has.
CancelForced(j) ==
    /\ mem[j] \in {"WAITING", "RUNNING"}
    /\ mem' = [mem EXCEPT ![j] = "ERROR"]
    /\ rowState' = [rowState EXCEPT ![j] = "ERROR"]
    /\ jobError' = [jobError EXCEPT ![j] = "canceled"]
    /\ cancelTime' = [cancelTime EXCEPT ![j] = TRUE]
    /\ End(j)
    /\ UNCHANGED <<queueTime, assignTime, clock, stray, expiry>>

\* Only noted: whoever works on the job is to end it.
CancelRequested(j) ==
    /\ mem[j] \in {"WAITING", "RUNNING"}
    /\ cancelTime' = [cancelTime EXCEPT ![j] = TRUE]
    /\ UNCHANGED <<rowState, queueTime, assignTime, jobError, clock, index>>

JobCancel(j, force) ==
    \/ CancelQueued(j)
    \/ force /\ CancelForced(j)
    \/ ~force /\ CancelRequested(j)

\* An operation that finds the job in another state returns an error or
\* nothing, and changes nothing.
Ignored(j, states) ==
    /\ mem[j] \notin states
    /\ UNCHANGED <<rows, index>>

JobHeartbeat(j) ==
    /\ mem[j] = "RUNNING"
    /\ timer[j] # "none"
    /\ armed' = [armed EXCEPT ![j] = "reset"]
    /\ UNCHANGED <<rows, mem, timer, stray, expiry>>
-------------------------------------------------------------------------------
(* The RPCs: RunnerJobStream acks, completes and heartbeats, CancelJob     *)
(* cancels.                                                                *)

Answer(j, ack) ==
    /\ up
    /\ JobAck(j, ack)
    /\ UNCHANGED <<registered, up, due, calls>>

Complete(j, ok) ==
    /\ up
    /\ JobComplete(j, ok)
    /\ UNCHANGED <<registered, up, due, calls>>

CancelJob(j) ==
    /\ up
    /\ JobCancel(j, FALSE)
    /\ UNCHANGED <<registered, up, due, calls>>

\* The bound matters when the timer has fired already: Reset starts it again.
Heartbeat(j) ==
    /\ up
    /\ Running(j) \/ TimerCount(j) < MaxTimers
    /\ JobHeartbeat(j)
    /\ UNCHANGED <<registered, up, due, calls>>
-------------------------------------------------------------------------------
(* The runtime.                                                            *)

\* Part of the timeout has passed since the timer was started or reset.
Elapse(j) ==
    /\ armed[j] = "reset"
    /\ armed' = [armed EXCEPT ![j] = "on"]
    /\ UNCHANGED <<rows, registered, up, mem, timer, stray, expiry, due, calls>>

Fire(j) ==
    /\ armed[j] = "on"
    /\ armed' = [armed EXCEPT ![j] = "off"]
    /\ due' = [due EXCEPT ![j][timer[j]] = @ + 1]
    /\ UNCHANGED <<rows, registered, up, mem, timer, stray, expiry, calls>>

FireStray(j, kind) ==
    /\ stray[j][kind] > 0
    /\ stray' = [stray EXCEPT ![j][kind] = @ - 1]
    /\ due' = [due EXCEPT ![j][kind] = @ + 1]
    /\ UNCHANGED <<rows, registered, up, mem, timer, armed, expiry, calls>>

FireExpiry(j) ==
    /\ expiry[j]
    /\ expiry' = [expiry EXCEPT ![j] = FALSE]
    /\ due' = [due EXCEPT ![j]["expire"] = @ + 1]
    /\ UNCHANGED <<rows, registered, up, mem, timer, armed, stray, calls>>

\* The callback of the ack timer: JobAck(id, false).
AckTimeout(j) ==
    /\ Called(j, "ack")
    /\ JobAck(j, FALSE) \/ Ignored(j, {"WAITING"})
    /\ UNCHANGED <<registered, up, calls>>

\* Defect: the heartbeat timeout only requests the cancellation.
BeatTimeoutPolite(j) ==
    /\ Called(j, "beat")
    /\ JobCancel(j, FALSE) \/ Ignored(j, Incomplete)
    /\ UNCHANGED <<registered, up, calls>>

\* The callback of a heartbeat timer: JobCancel(id, true).
BeatTimeout(j) ==
    /\ Called(j, "beat")
    /\ JobCancel(j, TRUE) \/ Ignored(j, Incomplete)
    /\ UNCHANGED <<registered, up, calls>>

\* The callback of the expiry timer: JobExpire(id).
JobExpire(j) ==
    /\ Called(j, "expire")
    /\ \/ mem[j] \in {"QUEUED", "WAITING"} /\ JobCancel(j, FALSE)
       \/ Ignored(j, {"QUEUED", "WAITING"})
    /\ UNCHANGED <<registered, up, calls>>
-------------------------------------------------------------------------------
(* Crash and restart.                                                      *)

Crash ==
    /\ up
    /\ up' = FALSE
    /\ mem' = [j \in Jobs |-> "absent"]
    /\ timer' = [j \in Jobs |-> "none"]
    /\ armed' = [j \in Jobs |-> "off"]
    /\ stray' = [j \in Jobs |-> [k \in StateTimers |-> 0]]
    /\ expiry' = [j \in Jobs |-> FALSE]
    /\ due' = [j \in Jobs |-> [k \in Timers |-> 0]]
    /\ asking' = {}
    /\ cand' = [r \in Runners |-> {}]
    /\ UNCHANGED <<rows, registered>>

Tracked == {j \in Jobs : rowState[j] \in Incomplete}

\* Defect: the state timers are not started again.
IndexInitUntimed ==
    /\ ~up
    /\ up' = TRUE
    /\ mem' = [j \in Jobs |-> IF j \in Tracked THEN rowState[j] ELSE "absent"]
    /\ expiry' = [j \in Jobs |-> j \in Tracked /\ j \in Expires]
    /\ UNCHANGED <<rows, registered, timer, armed, stray, due, calls>>

Unindexable == {j \in Tracked : Target[j] = NoTarget}

\* jobIndexInit: every incomplete row gets an entry and fresh timers.
jobIndexInit ==
    /\ ~up
    /\ Unindexable = {}
    /\ up' = TRUE
    /\ mem' = [j \in Jobs |-> IF j \in Tracked THEN rowState[j] ELSE "absent"]
    /\ timer' = [j \in Jobs |-> CASE rowState[j] = "WAITING" -> "ack"
                                  [] rowState[j] = "RUNNING" -> "beat"
                                  [] OTHER -> "none"]
    /\ armed' = [j \in Jobs |-> IF rowState[j] \in {"WAITING", "RUNNING"} THEN "reset" ELSE "off"]
    /\ expiry' = [j \in Jobs |-> j \in Tracked /\ j \in Expires]
    /\ UNCHANGED <<rows, registered, stray, due, calls>>

\* jobIndexSet fails on one of the rows, and with it the start of the server.
StartFails ==
    /\ ~up
    /\ Unindexable # {}
    /\ UNCHANGED vars
-------------------------------------------------------------------------------
Next ==
    \/ \E r \in Runners :
         \/ RunnerCreate(r) \/ RunnerDelete(r)
         \/ Ask(r) \/ Search(r) \/ GiveUp(r) \/ AssignRetry(r)
         \/ \E j \in Jobs : Assign(r, j)
    \/ \E j \in Jobs :
         \/ JobCreate(j)
         \/ \E ack \in BOOLEAN : Answer(j, ack)
         \/ \E ok \in BOOLEAN : Complete(j, ok)
         \/ CancelJob(j)
         \/ Heartbeat(j)
         \/ Elapse(j) \/ Fire(j) \/ FireExpiry(j)
         \/ \E kind \in StateTimers : FireStray(j, kind)
         \/ AckTimeout(j) \/ BeatTimeout(j) \/ JobExpire(j)
    \/ Crash
    \/ jobIndexInit
    \/ StartFails

Spec == Init /\ [][Next]_vars

(***************************************************************************)
(* The Go runtime fires every timer and schedules every goroutine.  An     *)
(* assignment call that can go on does.  Nothing makes clients or runners  *)
(* act, and a heartbeat timer that keeps being reset need never fire:      *)
(* each reset disables Fire until Elapse.                                  *)
(***************************************************************************)
Fairness ==
    /\ \A j \in Jobs :
         /\ WF_vars(Elapse(j))
         /\ WF_vars(Fire(j))
         /\ \A kind \in StateTimers : WF_vars(FireStray(j, kind))
         /\ WF_vars(FireExpiry(j))
         /\ WF_vars(AckTimeout(j))
         /\ WF_vars(BeatTimeout(j))
         /\ WF_vars(JobExpire(j))
    /\ \A r \in Runners :
         /\ WF_vars(Search(r))
         /\ WF_vars(AssignRetry(r))
         /\ WF_vars(\E j \in Jobs : Assign(r, j))

FairSpec == Spec /\ Fairness
-------------------------------------------------------------------------------
(* Properties.                                                             *)

\* The index entry of a job and its row always show the same state: handlers
\* change the entry in place and save the row separately.  On a running server
\* every incomplete row has an entry (jobIndexInit, jobCreate), except that a
\* job queued without a target runner never gets one: its creation fails after
\* the row is saved, and the row stays QUEUED for ever.
IndexAgrees ==
    /\ \A j \in Jobs : mem[j] # "absent" => mem[j] = rowState[j]
    /\ up => \A j \in Tracked \ Unindexable : mem[j] # "absent"
    /\ \A j \in Jobs : Target[j] = NoTarget => mem[j] = "absent" /\ rowState[j] \in {"NONE", "QUEUED"}

Live(j, kind) == timer[j] = kind /\ (Running(j) \/ due[j][kind] > 0)

\* A job handed to a runner is never left without a timeout: its ack timer
\* while WAITING, its heartbeat timer while RUNNING, running or with its
\* callback on the way, over every interleaving of answers, timers, resets
\* and restarts ("it is up to other parts of the job system to ensure a
\* running job has a heartbeat timer", jobHeartbeat).
AssignedIsWatched == \A j \in Jobs :
    /\ mem[j] = "WAITING" => Live(j, "ack")
    /\ mem[j] = "RUNNING" => Live(j, "beat")

\* A job queued with an expiry never sits in the queue with nothing left to
\* end it, although JobExpire spends the only expiry timer on a WAITING job
\* that may be rejected afterwards: the heartbeat timer that JobAck starts on
\* a rejection takes its place (client/job.go relies on the expiry to "ensure
\* that the jobs don't remain queued forever").
QueuedJobExpires == \A j \in Expires :
    mem[j] = "QUEUED" => expiry[j] \/ due[j]["expire"] > 0 \/ Live(j, "beat")

\* The Error column is set exactly when the job is in the ERROR state, and says
\* "canceled" only if a cancellation was recorded (server.proto, Job.error),
\* whichever of runner, client, timeout and restart ended the job.
ErrorColumn == \A j \in Jobs :
    /\ jobError[j] # "nil" <=> rowState[j] = "ERROR"
    /\ jobError[j] = "canceled" => cancelTime[j]

Lifecycle == INSTANCE JobLifecycle
               WITH state <- rowState, canceled <- cancelTime, failure <- jobError

\* The rows follow the job lifecycle through late answers, stale timers and
\* restarts; above all a completed job is never reopened or changed again.
FollowsLifecycle == Lifecycle!Spec

\* An assignment is answered, times out, is cancelled or is lost with the
\* server: no job stays WAITING for ever (the ack timer of JobAssignForRunner).
AssignmentResolves == \A j \in Jobs : mem[j] = "WAITING" ~> mem[j] # "WAITING"

\* Only a job whose heartbeat timer is reset again and again runs for ever: a
\* runner that stops heartbeating loses the job (JobAck, JobHeartbeat).
LostRunnerDetected == \A j \in Jobs :
    <>[](mem[j] = "RUNNING") => []<>(armed[j] = "reset")

\* A job with an expiry is eventually run or ended, or the server goes down,
\* however often it is assigned and rejected in between.
ExpiringJobSettles == \A j \in Expires :
    mem[j] = "QUEUED" ~> mem[j] \in {"RUNNING", "absent"} \cup Completed

Serves(r, j) == Target[j] = r \/ (Target[j] = AnyRunner /\ r \notin ByIdOnly)

\* A runner that asks for a job is not left waiting while a job it can serve
\* stays queued, although its candidates may be taken between the read and the
\* write transaction any number of times (RETRY_ASSIGN).
AskIsAnswered == \A r \in Runners, j \in Jobs :
    (r \in asking /\ Serves(r, j) /\ mem[j] = "QUEUED")
      ~> (r \notin asking \/ r \notin registered \/ mem[j] # "QUEUED")

\* jobIndex.StateTimer: "When the state changes, the timer should be cancelled".
\* JobAssignForRunner overwrites a heartbeat timer that is still running.
TimersAreCancelled == \A j \in Jobs : stray[j] = [k \in StateTimers |-> 0]
===============================================================================
