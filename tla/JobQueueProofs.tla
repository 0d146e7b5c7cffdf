---------------------------- MODULE JobQueueProofs ----------------------------
(***************************************************************************)
(* Proofs about JobQueue, for any sets of jobs and runners, any targets    *)
(* and expiries, and any bound on outstanding timers.                      *)
(***************************************************************************)
EXTENDS JobQueue, TLAPS

\* The part of the state that the shared operations change: the rows and the
\* index entries.
JobTypes ==
    /\ rowState \in [Jobs -> JobStates \cup {"NONE"}]
    /\ queueTime \in [Jobs -> Nat]
    /\ assignTime \in [Jobs -> BOOLEAN]
    /\ cancelTime \in [Jobs -> BOOLEAN]
    /\ jobError \in [Jobs -> {"nil", "failed", "canceled"}]
    /\ clock \in Nat
    /\ mem \in [Jobs -> JobStates \cup {"absent"}]
    /\ timer \in [Jobs -> StateTimers \cup {"none"}]
    /\ armed \in [Jobs -> {"off", "reset", "on"}]
    /\ stray \in [Jobs -> [StateTimers -> Nat]]
    /\ expiry \in [Jobs -> BOOLEAN]

OtherTypes ==
    /\ registered \in SUBSET Runners
    /\ up \in BOOLEAN
    /\ due \in [Jobs -> [Timers -> Nat]]
    /\ asking \in SUBSET Runners
    /\ cand \in [Runners -> SUBSET Jobs]

\* Only an entry that has a StateTimer has a running one.
TimerOwned == \A j \in Jobs : timer[j] = "none" => armed[j] = "off"

TypeInv == JobTypes /\ OtherTypes /\ TimerOwned

-------------------------------------------------------------------------------
(* Type correctness.                                                       *)

LEMMA InitType == Init => TypeInv
BY DEF Init, TypeInv, JobTypes, OtherTypes, TimerOwned, JobStates, Incomplete, Completed,
       StateTimers, Timers

LEMMA AckType ==
    ASSUME JobTypes, TimerOwned, NEW j \in Jobs, NEW ack \in BOOLEAN, JobAck(j, ack)
    PROVE  JobTypes' /\ TimerOwned'
BY DEF JobTypes, TimerOwned, JobAck, StartTimer, JobStates, Incomplete, Completed, StateTimers

LEMMA CompleteType ==
    ASSUME JobTypes, TimerOwned, NEW j \in Jobs, NEW ok \in BOOLEAN, JobComplete(j, ok)
    PROVE  JobTypes' /\ TimerOwned'
BY DEF JobTypes, TimerOwned, JobComplete, End, JobStates, Incomplete, Completed, StateTimers

LEMMA CancelType ==
    ASSUME JobTypes, TimerOwned, NEW j \in Jobs, NEW force \in BOOLEAN, JobCancel(j, force)
    PROVE  JobTypes' /\ TimerOwned'
<1>1. CASE CancelQueued(j)
  BY <1>1 DEF JobTypes, TimerOwned, CancelQueued, JobStates, Incomplete, Completed
<1>2. CASE CancelForced(j)
  BY <1>2 DEF JobTypes, TimerOwned, CancelForced, End, JobStates, Incomplete, Completed
<1>3. CASE CancelRequested(j)
  BY <1>3 DEF JobTypes, TimerOwned, CancelRequested, index
<1> QED
  BY <1>1, <1>2, <1>3 DEF JobCancel

LEMMA IgnoredType ==
    ASSUME JobTypes, TimerOwned, NEW j \in Jobs, NEW states, Ignored(j, states)
    PROVE  JobTypes' /\ TimerOwned'
BY DEF JobTypes, TimerOwned, Ignored, rows, index

LEMMA CalledType ==
    ASSUME OtherTypes, NEW j \in Jobs, NEW kind \in Timers, Called(j, kind),
           UNCHANGED <<registered, up, calls>>
    PROVE  OtherTypes'
<1>1. due[j] \in [Timers -> Nat] /\ due[j][kind] \in Nat \ {0}
  BY DEF OtherTypes, Called
<1>2. [due[j] EXCEPT ![kind] = @ - 1] \in [Timers -> Nat]
  BY <1>1
<1>3. due' = [due EXCEPT ![j] = [due[j] EXCEPT ![kind] = @ - 1]]
  BY DEF Called
<1> QED
  BY <1>2, <1>3 DEF OtherTypes, calls

LEMMA FiredType ==
    ASSUME OtherTypes, NEW j \in Jobs, NEW kind \in Timers,
           due' = [due EXCEPT ![j][kind] = @ + 1]
    PROVE  due' \in [Jobs -> [Timers -> Nat]]
<1>1. due[j] \in [Timers -> Nat] /\ due[j][kind] \in Nat
  BY DEF OtherTypes
<1>2. [due[j] EXCEPT ![kind] = @ + 1] \in [Timers -> Nat]
  BY <1>1
<1>3. due' = [due EXCEPT ![j] = [due[j] EXCEPT ![kind] = @ + 1]]
  OBVIOUS
<1> QED
  BY <1>2, <1>3 DEF OtherTypes

LEMMA CandidatesAreJobs == ASSUME NEW r \in Runners PROVE Candidates(r) \in SUBSET Jobs
BY DEF Candidates, jobCandidateById, jobCandidateAny, Oldest

\* A new job, and nothing else, becomes an entry; one without a target does not.
LEMMA IndexSetEffect ==
    ASSUME JobTypes, NEW j \in Jobs, jobIndexSet(j)
    PROVE  /\ mem' \in [Jobs -> JobStates \cup {"absent"}]
           /\ expiry' \in [Jobs -> BOOLEAN]
           /\ \A k \in Jobs \ {j} : mem'[k] = mem[k] /\ expiry'[k] = expiry[k]
           /\ IF Target[j] = NoTarget
                THEN mem'[j] = mem[j] /\ expiry'[j] = expiry[j]
                ELSE mem'[j] = "QUEUED" /\ expiry'[j] = (j \in Expires)
<1>1. CASE Target[j] = NoTarget
  BY <1>1 DEF jobIndexSet, JobTypes
<1>2. CASE Target[j] # NoTarget
  <2>1. /\ mem' = [mem EXCEPT ![j] = "QUEUED"]
        /\ expiry' = [expiry EXCEPT ![j] = j \in Expires]
    BY <1>2 DEF jobIndexSet
  <2>2. (j \in Expires) \in BOOLEAN /\ "QUEUED" \in JobStates
    BY DEF JobStates, Incomplete
  <2> QED
    BY <1>2, <2>1, <2>2 DEF JobTypes
<1> QED
  BY <1>1, <1>2

LEMMA StepType == TypeInv /\ [Next]_vars => TypeInv'
<1> SUFFICES ASSUME TypeInv, [Next]_vars PROVE TypeInv'
  OBVIOUS
<1>0. JobTypes /\ OtherTypes /\ TimerOwned
  BY DEF TypeInv
<1>1. ASSUME NEW r \in Runners, RunnerCreate(r) \/ RunnerDelete(r) PROVE TypeInv'
  BY <1>0, <1>1 DEF RunnerCreate, RunnerDelete, TypeInv, JobTypes, OtherTypes, TimerOwned,
                    rows, index, calls
<1>2. ASSUME NEW r \in Runners, Ask(r) \/ Search(r) \/ GiveUp(r) \/ AssignRetry(r) PROVE TypeInv'
  <2>1. cand' \in [Runners -> SUBSET Jobs] /\ asking' \in SUBSET Runners
    BY <1>0, <1>2, CandidatesAreJobs DEF Ask, Search, GiveUp, AssignRetry, OtherTypes
  <2> QED
    BY <1>0, <1>2, <2>1 DEF Ask, Search, GiveUp, AssignRetry, TypeInv, JobTypes, OtherTypes,
                            TimerOwned, rows, index
<1>3. ASSUME NEW r \in Runners, NEW j \in Jobs, Assign(r, j) PROVE TypeInv'
  <2>1. Running(j) => timer[j] \in StateTimers
    BY <1>0 DEF Running, JobTypes, TimerOwned
  <2>2. stray' \in [Jobs -> [StateTimers -> Nat]]
    BY <1>0, <1>3, <2>1 DEF Assign, JobTypes
  <2> QED
    BY <1>0, <1>3, <2>2 DEF Assign, StartTimer, TypeInv, JobTypes, OtherTypes, TimerOwned,
                            JobStates, Incomplete, StateTimers
<1>4. ASSUME NEW j \in Jobs, JobCreate(j) PROVE TypeInv'
  <2>1. mem' \in [Jobs -> JobStates \cup {"absent"}] /\ expiry' \in [Jobs -> BOOLEAN]
    BY <1>0, <1>4, IndexSetEffect DEF JobCreate
  <2>2. /\ rowState' \in [Jobs -> JobStates \cup {"NONE"}]
        /\ queueTime' \in [Jobs -> Nat] /\ clock' \in Nat
    BY <1>0, <1>4 DEF JobCreate, JobTypes, JobStates, Incomplete
  <2> QED
    BY <1>0, <1>4, <2>1, <2>2 DEF JobCreate, TypeInv, JobTypes, OtherTypes, TimerOwned, calls
<1>5. ASSUME NEW j \in Jobs, NEW ack \in BOOLEAN, Answer(j, ack) PROVE TypeInv'
  BY <1>0, <1>5, AckType DEF Answer, TypeInv, OtherTypes, calls
<1>6. ASSUME NEW j \in Jobs, NEW ok \in BOOLEAN, Complete(j, ok) PROVE TypeInv'
  BY <1>0, <1>6, CompleteType DEF Complete, TypeInv, OtherTypes, calls
<1>7. ASSUME NEW j \in Jobs, CancelJob(j) PROVE TypeInv'
  BY <1>0, <1>7, CancelType DEF CancelJob, TypeInv, OtherTypes, calls
<1>8. ASSUME NEW j \in Jobs, Heartbeat(j) PROVE TypeInv'
  BY <1>0, <1>8 DEF Heartbeat, JobHeartbeat, TypeInv, JobTypes, OtherTypes, TimerOwned, rows, calls
<1>9. ASSUME NEW j \in Jobs, Elapse(j) PROVE TypeInv'
  BY <1>0, <1>9 DEF Elapse, TypeInv, JobTypes, OtherTypes, TimerOwned, rows, calls
<1>10. ASSUME NEW j \in Jobs, Fire(j) PROVE TypeInv'
  <2>1. timer[j] \in Timers
    BY <1>0, <1>10 DEF Fire, JobTypes, TimerOwned, Timers, StateTimers
  <2>2. due' \in [Jobs -> [Timers -> Nat]]
    BY <1>0, <1>10, <2>1, FiredType DEF Fire
  <2> QED
    BY <1>0, <1>10, <2>2 DEF Fire, TypeInv, JobTypes, OtherTypes, TimerOwned, rows, calls
<1>11. ASSUME NEW j \in Jobs, FireExpiry(j) PROVE TypeInv'
  <2>1. due' \in [Jobs -> [Timers -> Nat]]
    BY <1>0, <1>11, FiredType DEF FireExpiry, Timers
  <2> QED
    BY <1>0, <1>11, <2>1 DEF FireExpiry, TypeInv, JobTypes, OtherTypes, TimerOwned, rows, calls
<1>12. ASSUME NEW j \in Jobs, NEW kind \in StateTimers, FireStray(j, kind) PROVE TypeInv'
  <2>1. stray[j] \in [StateTimers -> Nat] /\ stray[j][kind] \in Nat \ {0}
    BY <1>0, <1>12 DEF FireStray, JobTypes
  <2>2. [stray[j] EXCEPT ![kind] = @ - 1] \in [StateTimers -> Nat]
    BY <2>1
  <2>3. stray' = [stray EXCEPT ![j] = [stray[j] EXCEPT ![kind] = @ - 1]]
    BY <1>12 DEF FireStray
  <2>4. stray' \in [Jobs -> [StateTimers -> Nat]]
    BY <1>0, <2>2, <2>3 DEF JobTypes
  <2>5. due' \in [Jobs -> [Timers -> Nat]]
    BY <1>0, <1>12, FiredType DEF FireStray, Timers
  <2> QED
    BY <1>0, <1>12, <2>4, <2>5 DEF FireStray, TypeInv, JobTypes, OtherTypes, TimerOwned, rows, calls
<1>13. ASSUME NEW j \in Jobs, AckTimeout(j) PROVE TypeInv'
  <2>1. OtherTypes'
    BY <1>0, <1>13, CalledType DEF AckTimeout, Timers, StateTimers
  <2> QED
    BY <1>0, <1>13, <2>1, AckType, IgnoredType DEF AckTimeout, TypeInv
<1>14. ASSUME NEW j \in Jobs, BeatTimeout(j) PROVE TypeInv'
  <2>1. OtherTypes'
    BY <1>0, <1>14, CalledType DEF BeatTimeout, Timers, StateTimers
  <2> QED
    BY <1>0, <1>14, <2>1, CancelType, IgnoredType DEF BeatTimeout, TypeInv
<1>15. ASSUME NEW j \in Jobs, JobExpire(j) PROVE TypeInv'
  <2>1. OtherTypes'
    BY <1>0, <1>15, CalledType DEF JobExpire, Timers
  <2> QED
    BY <1>0, <1>15, <2>1, CancelType, IgnoredType DEF JobExpire, TypeInv
<1>16. CASE Crash
  BY <1>0, <1>16 DEF Crash, TypeInv, JobTypes, OtherTypes, TimerOwned, rows
<1>17. CASE jobIndexInit
  BY <1>0, <1>17 DEF jobIndexInit, Tracked, TypeInv, JobTypes, OtherTypes, TimerOwned, rows, calls,
                     JobStates, Incomplete, StateTimers
<1>18. CASE StartFails \/ UNCHANGED vars
  BY <1>0, <1>18 DEF StartFails, vars, TypeInv, JobTypes, OtherTypes, TimerOwned, rows, index, calls
<1> QED
  BY <1>1, <1>2, <1>3, <1>4, <1>5, <1>6, <1>7, <1>8, <1>9, <1>10, <1>11, <1>12, <1>13, <1>14,
     <1>15, <1>16, <1>17, <1>18 DEF Next

LEMMA TypeInvariant == Spec => []TypeInv
BY InitType, StepType, PTL DEF Spec

\* Every variable keeps its type in every reachable state.
THEOREM TypeCorrect == Spec => []TypeOK
<1>1. TypeInv => TypeOK
  BY DEF TypeInv, JobTypes, OtherTypes, TypeOK
<1> QED
  BY <1>1, TypeInvariant, PTL
-------------------------------------------------------------------------------
(* The index and the rows.                                                 *)

LEMMA InitIndex == Init => IndexAgrees
BY DEF Init, IndexAgrees, Tracked, Unindexable, Incomplete

\* A shared operation that moves job j moves its entry and its row together.
LEMMA MovedIndex ==
    ASSUME TypeInv, IndexAgrees, up' = up, NEW j \in Jobs, NEW to \in JobStates,
           mem[j] # "absent",
           mem' = [mem EXCEPT ![j] = to], rowState' = [rowState EXCEPT ![j] = to]
    PROVE  IndexAgrees'
BY DEF TypeInv, JobTypes, IndexAgrees, Tracked, Unindexable, JobStates, Incomplete, Completed

LEMMA SameIndex ==
    ASSUME IndexAgrees, UNCHANGED <<up, mem, rowState>>
    PROVE  IndexAgrees'
BY DEF IndexAgrees, Tracked, Unindexable

LEMMA CancelIndex ==
    ASSUME TypeInv, IndexAgrees, up' = up, NEW j \in Jobs, NEW force \in BOOLEAN, JobCancel(j, force)
    PROVE  IndexAgrees'
<1>1. CASE CancelQueued(j)
  BY <1>1, MovedIndex DEF CancelQueued, JobStates, Completed
<1>2. CASE CancelForced(j)
  BY <1>2, MovedIndex DEF CancelForced, JobStates, Completed
<1>3. CASE CancelRequested(j)
  BY <1>3, SameIndex DEF CancelRequested, index
<1> QED
  BY <1>1, <1>2, <1>3 DEF JobCancel

LEMMA AckIndex ==
    ASSUME TypeInv, IndexAgrees, up' = up, NEW j \in Jobs, NEW ack \in BOOLEAN, JobAck(j, ack)
    PROVE  IndexAgrees'
<1>1. (IF ack THEN "RUNNING" ELSE "QUEUED") \in JobStates
  BY DEF JobStates, Incomplete
<1> QED
  BY <1>1, MovedIndex DEF JobAck

LEMMA StepIndex == TypeInv /\ IndexAgrees /\ [Next]_vars => IndexAgrees'
<1> SUFFICES ASSUME TypeInv, IndexAgrees, [Next]_vars PROVE IndexAgrees'
  OBVIOUS
<1>1. ASSUME NEW r \in Runners,
             RunnerCreate(r) \/ RunnerDelete(r) \/ Ask(r) \/ Search(r) \/ GiveUp(r) \/ AssignRetry(r)
      PROVE  IndexAgrees'
  BY <1>1, SameIndex DEF RunnerCreate, RunnerDelete, Ask, Search, GiveUp, AssignRetry, rows, index
<1>2. ASSUME NEW r \in Runners, NEW j \in Jobs, Assign(r, j) PROVE IndexAgrees'
  BY <1>2, MovedIndex DEF Assign, Oldest, Valid, JobStates, Incomplete
<1>3. ASSUME NEW j \in Jobs, JobCreate(j) PROVE IndexAgrees'
  BY <1>3 DEF JobCreate, jobIndexSet, TypeInv, JobTypes, IndexAgrees, Tracked, Unindexable, Incomplete
<1>4. ASSUME NEW j \in Jobs, NEW ack \in BOOLEAN, Answer(j, ack) PROVE IndexAgrees'
  BY <1>4, AckIndex DEF Answer
<1>5. ASSUME NEW j \in Jobs, NEW ok \in BOOLEAN, Complete(j, ok) PROVE IndexAgrees'
  <2>1. (IF ok THEN "SUCCESS" ELSE "ERROR") \in JobStates
    BY DEF JobStates, Completed
  <2> QED
    BY <1>5, <2>1, MovedIndex DEF Complete, JobComplete
<1>6. ASSUME NEW j \in Jobs, CancelJob(j) PROVE IndexAgrees'
  BY <1>6, CancelIndex DEF CancelJob
<1>7. ASSUME NEW j \in Jobs, Heartbeat(j) \/ Elapse(j) \/ Fire(j) \/ FireExpiry(j) PROVE IndexAgrees'
  BY <1>7, SameIndex DEF Heartbeat, JobHeartbeat, Elapse, Fire, FireExpiry, rows
<1>8. ASSUME NEW j \in Jobs, NEW kind \in StateTimers, FireStray(j, kind) PROVE IndexAgrees'
  BY <1>8, SameIndex DEF FireStray, rows
<1>9. ASSUME NEW j \in Jobs, AckTimeout(j) PROVE IndexAgrees'
  BY <1>9, AckIndex, SameIndex DEF AckTimeout, Ignored, rows, index
<1>10. ASSUME NEW j \in Jobs, BeatTimeout(j) PROVE IndexAgrees'
  BY <1>10, CancelIndex, SameIndex DEF BeatTimeout, Ignored, rows, index
<1>11. ASSUME NEW j \in Jobs, JobExpire(j) PROVE IndexAgrees'
  BY <1>11, CancelIndex, SameIndex DEF JobExpire, Ignored, rows, index
<1>12. CASE Crash
  BY <1>12 DEF Crash, IndexAgrees, rows
<1>13. CASE jobIndexInit
  BY <1>13 DEF jobIndexInit, IndexAgrees, Tracked, Unindexable, Incomplete, rows
<1>14. CASE StartFails \/ UNCHANGED vars
  BY <1>14, SameIndex DEF StartFails, vars, rows, index
<1> QED
  BY <1>1, <1>2, <1>3, <1>4, <1>5, <1>6, <1>7, <1>8, <1>9, <1>10, <1>11, <1>12, <1>13, <1>14 DEF Next

\* The index entry of a job never disagrees with its row, and no incomplete row
\* of a running server is without an entry, but those of jobs queued without a
\* target runner, which stay QUEUED: the handlers, jobCreate and jobIndexInit.
THEOREM IndexCorrect == Spec => []IndexAgrees
BY TypeInvariant, InitIndex, StepIndex, PTL DEF Spec
-------------------------------------------------------------------------------
(* Refinement: every step moves one row along the lifecycle, or none.      *)

LifecycleStep == [Lifecycle!Next]_(Lifecycle!vars)

LEMMA SameRow ==
    ASSUME UNCHANGED <<rowState, cancelTime, jobError>>
    PROVE  LifecycleStep
BY DEF LifecycleStep, Lifecycle!vars

LEMMA CancelRefines ==
    ASSUME IndexAgrees, NEW j \in Jobs, NEW force \in BOOLEAN, JobCancel(j, force)
    PROVE  LifecycleStep
<1>1. CASE CancelQueued(j)
  <2>1. Lifecycle!Cancel(j)
    BY <1>1 DEF CancelQueued, IndexAgrees, Lifecycle!Cancel
  <2> QED
    BY <2>1 DEF LifecycleStep, Lifecycle!Next
<1>2. CASE CancelForced(j)
  <2>1. Lifecycle!Cancel(j)
    BY <1>2 DEF CancelForced, IndexAgrees, Lifecycle!Cancel
  <2> QED
    BY <2>1 DEF LifecycleStep, Lifecycle!Next
<1>3. CASE CancelRequested(j)
  <2>1. Lifecycle!RequestCancel(j)
    BY <1>3 DEF CancelRequested, IndexAgrees, Lifecycle!RequestCancel
  <2> QED
    BY <2>1 DEF LifecycleStep, Lifecycle!Next
<1> QED
  BY <1>1, <1>2, <1>3 DEF JobCancel

LEMMA AckRefines ==
    ASSUME IndexAgrees, NEW j \in Jobs, NEW ack \in BOOLEAN, JobAck(j, ack)
    PROVE  LifecycleStep
<1>1. CASE ack
  <2>1. Lifecycle!Accept(j)
    BY <1>1 DEF JobAck, IndexAgrees, Lifecycle!Accept, Lifecycle!Move
  <2> QED
    BY <2>1 DEF LifecycleStep, Lifecycle!Next
<1>2. CASE ~ack
  <2>1. Lifecycle!Reject(j)
    BY <1>2 DEF JobAck, IndexAgrees, Lifecycle!Reject, Lifecycle!Move
  <2> QED
    BY <2>1 DEF LifecycleStep, Lifecycle!Next
<1> QED
  BY <1>1, <1>2

LEMMA CompleteRefines ==
    ASSUME IndexAgrees, NEW j \in Jobs, NEW ok \in BOOLEAN, JobComplete(j, ok)
    PROVE  LifecycleStep
<1>1. CASE ok
  <2>1. Lifecycle!Succeed(j)
    BY <1>1 DEF JobComplete, IndexAgrees, Lifecycle!Succeed, Lifecycle!Move
  <2> QED
    BY <2>1 DEF LifecycleStep, Lifecycle!Next
<1>2. CASE ~ok
  <2>1. Lifecycle!Fail(j)
    BY <1>2 DEF JobComplete, IndexAgrees, Lifecycle!Fail, Lifecycle!Move
  <2> QED
    BY <2>1 DEF LifecycleStep, Lifecycle!Next
<1> QED
  BY <1>1, <1>2

LEMMA StepRefines == IndexAgrees /\ [Next]_vars => LifecycleStep
<1> SUFFICES ASSUME IndexAgrees, [Next]_vars PROVE LifecycleStep
  OBVIOUS
<1>1. ASSUME NEW r \in Runners,
             RunnerCreate(r) \/ RunnerDelete(r) \/ Ask(r) \/ Search(r) \/ GiveUp(r) \/ AssignRetry(r)
      PROVE  LifecycleStep
  BY <1>1, SameRow DEF RunnerCreate, RunnerDelete, Ask, Search, GiveUp, AssignRetry, rows
<1>2. ASSUME NEW r \in Runners, NEW j \in Jobs, Assign(r, j) PROVE LifecycleStep
  <2>1. Lifecycle!Assign(j)
    BY <1>2 DEF Assign, Oldest, Valid, IndexAgrees, Lifecycle!Assign, Lifecycle!Move
  <2> QED
    BY <2>1 DEF LifecycleStep, Lifecycle!Next
<1>3. ASSUME NEW j \in Jobs, JobCreate(j) PROVE LifecycleStep
  <2>1. Lifecycle!Queue(j)
    BY <1>3 DEF JobCreate, Lifecycle!Queue, Lifecycle!Move
  <2> QED
    BY <2>1 DEF LifecycleStep, Lifecycle!Next
<1>4. ASSUME NEW j \in Jobs, NEW ack \in BOOLEAN, Answer(j, ack) PROVE LifecycleStep
  BY <1>4, AckRefines DEF Answer
<1>5. ASSUME NEW j \in Jobs, NEW ok \in BOOLEAN, Complete(j, ok) PROVE LifecycleStep
  BY <1>5, CompleteRefines DEF Complete
<1>6. ASSUME NEW j \in Jobs, CancelJob(j) PROVE LifecycleStep
  BY <1>6, CancelRefines DEF CancelJob
<1>7. ASSUME NEW j \in Jobs, Heartbeat(j) \/ Elapse(j) \/ Fire(j) \/ FireExpiry(j) PROVE LifecycleStep
  BY <1>7, SameRow DEF Heartbeat, JobHeartbeat, Elapse, Fire, FireExpiry, rows
<1>8. ASSUME NEW j \in Jobs, NEW kind \in StateTimers, FireStray(j, kind) PROVE LifecycleStep
  BY <1>8, SameRow DEF FireStray, rows
<1>9. ASSUME NEW j \in Jobs, AckTimeout(j) PROVE LifecycleStep
  BY <1>9, AckRefines, SameRow DEF AckTimeout, Ignored, rows
<1>10. ASSUME NEW j \in Jobs, BeatTimeout(j) PROVE LifecycleStep
  BY <1>10, CancelRefines, SameRow DEF BeatTimeout, Ignored, rows
<1>11. ASSUME NEW j \in Jobs, JobExpire(j) PROVE LifecycleStep
  BY <1>11, CancelRefines, SameRow DEF JobExpire, Ignored, rows
<1>12. CASE Crash \/ jobIndexInit \/ StartFails \/ UNCHANGED vars
  BY <1>12, SameRow DEF Crash, jobIndexInit, StartFails, vars, rows
<1> QED
  BY <1>1, <1>2, <1>3, <1>4, <1>5, <1>6, <1>7, <1>8, <1>9, <1>10, <1>11, <1>12 DEF Next

LEMMA InitRefines == Init => Lifecycle!Init
BY DEF Init, Lifecycle!Init

\* The rows implement the job lifecycle of JobLifecycle: whatever clients,
\* runners, timers and restarts do, a job moves along its states in order and
\* its record is frozen once it is completed.
THEOREM ImplementsLifecycle == Spec => FollowsLifecycle
<1>1. IndexAgrees /\ [Next]_vars => [Lifecycle!Next]_(Lifecycle!vars)
  BY StepRefines DEF LifecycleStep
<1> QED
  BY IndexCorrect, InitRefines, <1>1, PTL DEF Spec, FollowsLifecycle, Lifecycle!Spec
-------------------------------------------------------------------------------
(* The Error column, from the lifecycle steps of the row alone.            *)

LEMMA InitError == Init => ErrorColumn
BY DEF Init, ErrorColumn

LEMMA StepError == TypeInv /\ ErrorColumn /\ LifecycleStep => ErrorColumn'
<1> SUFFICES ASSUME TypeInv, ErrorColumn, LifecycleStep PROVE ErrorColumn'
  OBVIOUS
<1> USE DEF TypeInv, JobTypes, ErrorColumn
<1>1. CASE UNCHANGED <<rowState, cancelTime, jobError>>
  BY <1>1
<1>2. ASSUME NEW j \in Jobs, Lifecycle!Queue(j) \/ Lifecycle!Assign(j) PROVE ErrorColumn'
  BY <1>2 DEF Lifecycle!Queue, Lifecycle!Assign, Lifecycle!Move
<1>3. ASSUME NEW j \in Jobs, Lifecycle!Accept(j) \/ Lifecycle!Reject(j) PROVE ErrorColumn'
  BY <1>3 DEF Lifecycle!Accept, Lifecycle!Reject, Lifecycle!Move
<1>4. ASSUME NEW j \in Jobs, Lifecycle!Succeed(j) PROVE ErrorColumn'
  BY <1>4 DEF Lifecycle!Succeed, Lifecycle!Move
<1>5. ASSUME NEW j \in Jobs, Lifecycle!Fail(j) PROVE ErrorColumn'
  BY <1>5 DEF Lifecycle!Fail, Lifecycle!Move
<1>6. ASSUME NEW j \in Jobs, Lifecycle!RequestCancel(j) PROVE ErrorColumn'
  BY <1>6 DEF Lifecycle!RequestCancel
<1>7. ASSUME NEW j \in Jobs, Lifecycle!Cancel(j) PROVE ErrorColumn'
  BY <1>7 DEF Lifecycle!Cancel
<1> QED
  BY <1>1, <1>2, <1>3, <1>4, <1>5, <1>6, <1>7 DEF LifecycleStep, Lifecycle!Next, Lifecycle!vars

\* A job has an error exactly when it is in the ERROR state, and "canceled"
\* only with a recorded cancellation (server.proto, Job.error).
THEOREM ErrorCorrect == Spec => []ErrorColumn
BY TypeInvariant, IndexCorrect, StepRefines, InitError, StepError, PTL DEF Spec
-------------------------------------------------------------------------------
(* Timers.  The two invariants are proved for one job at a time, because a *)
(* step only touches the entry and the callbacks of the job it is about.   *)

Watched(j) ==
    /\ mem[j] = "WAITING" => Live(j, "ack")
    /\ mem[j] = "RUNNING" => Live(j, "beat")

Ends(j) ==
    j \in Expires /\ mem[j] = "QUEUED" =>
        expiry[j] \/ due[j]["expire"] > 0 \/ Live(j, "beat")

TimersOK == \A j \in Jobs : Watched(j) /\ Ends(j)

LEMMA InitTimers == Init => TimersOK
BY DEF Init, TimersOK, Watched, Ends

\* What a step leaves alone stays covered.
LEMMA Untouched ==
    ASSUME NEW k \in Jobs, Watched(k), Ends(k),
           mem'[k] = mem[k], timer'[k] = timer[k], armed'[k] = armed[k],
           expiry'[k] = expiry[k], due'[k] = due[k]
    PROVE  Watched(k)' /\ Ends(k)'
BY DEF Watched, Ends, Live, Running

LEMMA SameTimers ==
    ASSUME TimersOK, UNCHANGED <<mem, timer, armed, expiry, due>>
    PROVE  TimersOK'
BY Untouched DEF TimersOK

\* JobAck leaves a fresh heartbeat timer, whatever the answer.
LEMMA AckTimers ==
    ASSUME TypeInv, NEW j \in Jobs, NEW ack \in BOOLEAN, JobAck(j, ack)
    PROVE  Watched(j)' /\ Ends(j)'
<1>1. mem'[j] \in {"RUNNING", "QUEUED"} /\ timer'[j] = "beat" /\ armed'[j] = "reset"
  BY DEF JobAck, StartTimer, TypeInv, JobTypes
<1> QED
  BY <1>1 DEF Watched, Ends, Live, Running

\* A job that has ended needs no timer.
LEMMA EndedTimers ==
    ASSUME NEW j \in Jobs, mem'[j] \in {"ERROR", "SUCCESS", "absent"}
    PROVE  Watched(j)' /\ Ends(j)'
BY DEF Watched, Ends

LEMMA StepTimers == TypeInv /\ TimersOK /\ [Next]_vars => TimersOK'
<1> SUFFICES ASSUME TypeInv, TimersOK, [Next]_vars PROVE TimersOK'
  OBVIOUS
<1>0. ASSUME NEW j \in Jobs, Watched(j)', Ends(j)',
             \A k \in Jobs \ {j} : /\ mem'[k] = mem[k] /\ timer'[k] = timer[k]
                                   /\ armed'[k] = armed[k] /\ expiry'[k] = expiry[k]
                                   /\ due'[k] = due[k]
      PROVE  TimersOK'
  BY <1>0, Untouched DEF TimersOK
<1> DEFINE Alone(j) ==
      \A k \in Jobs \ {j} : /\ mem'[k] = mem[k] /\ timer'[k] = timer[k]
                            /\ armed'[k] = armed[k] /\ expiry'[k] = expiry[k]
                            /\ due'[k] = due[k]
<1>1. ASSUME NEW r \in Runners,
             RunnerCreate(r) \/ RunnerDelete(r) \/ Ask(r) \/ Search(r) \/ GiveUp(r) \/ AssignRetry(r)
      PROVE  TimersOK'
  BY <1>1, SameTimers DEF RunnerCreate, RunnerDelete, Ask, Search, GiveUp, AssignRetry, index
<1>2. ASSUME NEW r \in Runners, NEW j \in Jobs, Assign(r, j) PROVE TimersOK'
  <2>1. mem'[j] = "WAITING" /\ timer'[j] = "ack" /\ armed'[j] = "reset"
    BY <1>2 DEF Assign, StartTimer, TypeInv, JobTypes
  <2>2. Alone(j)
    BY <1>2 DEF Assign, StartTimer, TypeInv, JobTypes
  <2>3. Watched(j)' /\ Ends(j)'
    BY <2>1 DEF Watched, Ends, Live, Running
  <2> QED
    BY <2>2, <2>3, <1>0
<1>3. ASSUME NEW j \in Jobs, JobCreate(j) PROVE TimersOK'
  <2>1. \/ mem'[j] = "QUEUED" /\ expiry'[j] = (j \in Expires)
        \/ mem'[j] = mem[j] /\ expiry'[j] = expiry[j]
    BY <1>3, IndexSetEffect DEF JobCreate, TypeInv
  <2>2. Alone(j)
    BY <1>3, IndexSetEffect DEF JobCreate, TypeInv
  <2>3. Watched(j)' /\ Ends(j)'
    BY <1>3, <2>1, Untouched DEF JobCreate, TimersOK, Watched, Ends
  <2> QED
    BY <2>2, <2>3, <1>0
<1>4. ASSUME NEW j \in Jobs, NEW ack \in BOOLEAN, Answer(j, ack) PROVE TimersOK'
  <2>1. Alone(j)
    BY <1>4 DEF Answer, JobAck, StartTimer, TypeInv, JobTypes
  <2> QED
    BY <1>4, <2>1, AckTimers, <1>0 DEF Answer
<1>5. ASSUME NEW j \in Jobs, NEW ok \in BOOLEAN, Complete(j, ok) PROVE TimersOK'
  <2>1. Alone(j)
    BY <1>5 DEF Complete, JobComplete, End, TypeInv, JobTypes
  <2>2. mem'[j] \in {"ERROR", "SUCCESS", "absent"}
    BY <1>5 DEF Complete, JobComplete, TypeInv, JobTypes
  <2> QED
    BY <2>1, <2>2, EndedTimers, <1>0
<1>6. ASSUME NEW j \in Jobs, CancelQueued(j) \/ CancelForced(j),
             \A k \in Jobs \ {j} : due'[k] = due[k]
      PROVE  TimersOK'
  <2>1. Alone(j)
    BY <1>6 DEF CancelQueued, CancelForced, End, TypeInv, JobTypes
  <2>2. mem'[j] \in {"ERROR", "SUCCESS", "absent"}
    BY <1>6 DEF CancelQueued, CancelForced, TypeInv, JobTypes
  <2> QED
    BY <2>1, <2>2, EndedTimers, <1>0
<1>7. ASSUME NEW j \in Jobs, CancelJob(j) PROVE TimersOK'
  <2>1. CASE CancelQueued(j)
    BY <1>7, <2>1, <1>6 DEF CancelJob
  <2>2. CASE CancelRequested(j)
    BY <1>7, <2>2, SameTimers DEF CancelJob, CancelRequested, index
  <2> QED
    BY <1>7, <2>1, <2>2 DEF CancelJob, JobCancel
<1>8. ASSUME NEW j \in Jobs, Heartbeat(j) PROVE TimersOK'
  <2>1. Alone(j)
    BY <1>8 DEF Heartbeat, JobHeartbeat, TypeInv, JobTypes
  <2>2. mem'[j] = "RUNNING" /\ timer'[j] = timer[j] /\ armed'[j] = "reset"
    BY <1>8 DEF Heartbeat, JobHeartbeat, TypeInv, JobTypes
  <2>3. Live(j, "beat")
    BY <1>8 DEF Heartbeat, JobHeartbeat, TimersOK, Watched
  <2>4. Watched(j)' /\ Ends(j)'
    BY <2>2, <2>3 DEF Watched, Ends, Live, Running
  <2> QED
    BY <2>1, <2>4, <1>0
<1>9. ASSUME NEW j \in Jobs, Elapse(j) PROVE TimersOK'
  <2>1. Alone(j)
    BY <1>9 DEF Elapse, TypeInv, JobTypes
  <2>2. mem' = mem /\ timer' = timer /\ expiry' = expiry /\ due' = due /\ armed'[j] = "on" /\ armed[j] # "off"
    BY <1>9 DEF Elapse, TypeInv, JobTypes
  <2>3. Watched(j)' /\ Ends(j)'
    BY <2>2 DEF TimersOK, Watched, Ends, Live, Running
  <2> QED
    BY <2>1, <2>3, <1>0
<1>10. ASSUME NEW j \in Jobs, Fire(j) PROVE TimersOK'
  <2>0. timer[j] \in Timers /\ due[j] \in [Timers -> Nat]
    BY <1>10 DEF Fire, TypeInv, JobTypes, OtherTypes, TimerOwned, Timers, StateTimers
  <2>1. Alone(j)
    BY <1>10 DEF Fire, TypeInv, JobTypes, OtherTypes
  <2>2. mem' = mem /\ timer' = timer /\ expiry' = expiry /\ due'[j] = [due[j] EXCEPT ![timer[j]] = @ + 1]
    BY <1>10 DEF Fire, TypeInv, OtherTypes
  <2>3. due'[j][timer[j]] > 0
    BY <2>0, <2>2
  <2>4. due[j]["expire"] > 0 => due'[j]["expire"] > 0
    BY <2>0, <2>2 DEF Timers
  <2>5. Watched(j)' /\ Ends(j)'
    BY <2>2, <2>3, <2>4 DEF TimersOK, Watched, Ends, Live
  <2> QED
    BY <2>1, <2>5, <1>0
<1>11. ASSUME NEW j \in Jobs, FireExpiry(j) PROVE TimersOK'
  <2>0. due[j] \in [Timers -> Nat]
    BY DEF TypeInv, OtherTypes
  <2>1. Alone(j)
    BY <1>11 DEF FireExpiry, TypeInv, JobTypes, OtherTypes
  <2>2. mem' = mem /\ timer' = timer /\ armed' = armed /\ due'[j] = [due[j] EXCEPT !["expire"] = @ + 1]
    BY <1>11 DEF FireExpiry, TypeInv, OtherTypes
  <2>3. due'[j]["expire"] > 0 /\ due'[j]["ack"] = due[j]["ack"] /\ due'[j]["beat"] = due[j]["beat"]
    BY <2>0, <2>2 DEF Timers, StateTimers
  <2>4. Watched(j)' /\ Ends(j)'
    BY <2>2, <2>3 DEF TimersOK, Watched, Ends, Live, Running
  <2> QED
    BY <2>1, <2>4, <1>0
<1>12. ASSUME NEW j \in Jobs, NEW kind \in StateTimers, FireStray(j, kind) PROVE TimersOK'
  <2>0. due[j] \in [Timers -> Nat] /\ kind \in Timers
    BY DEF TypeInv, OtherTypes, Timers
  <2>1. Alone(j)
    BY <1>12 DEF FireStray, TypeInv, OtherTypes
  <2>2. UNCHANGED <<mem, timer, armed, expiry>> /\ due'[j] = [due[j] EXCEPT ![kind] = @ + 1]
    BY <1>12 DEF FireStray, TypeInv, OtherTypes
  <2>3. \A t \in Timers : due[j][t] > 0 => due'[j][t] > 0
    BY <2>0, <2>2
  <2>4. Watched(j)' /\ Ends(j)'
    BY <2>2, <2>3 DEF TimersOK, Watched, Ends, Live, Running, Timers, StateTimers
  <2> QED
    BY <2>1, <2>4, <1>0
\* A callback only disturbs the cover of a job by being used up, and then it
\* moves the job.
<1>13. ASSUME NEW j \in Jobs, NEW kind \in Timers, Called(j, kind)
       PROVE  /\ \A k \in Jobs \ {j} : due'[k] = due[k]
              /\ \A t \in Timers \ {kind} : due'[j][t] = due[j][t]
  BY <1>13 DEF Called, TypeInv, OtherTypes
<1>14. ASSUME NEW j \in Jobs, AckTimeout(j) PROVE TimersOK'
  <2>0. /\ \A k \in Jobs \ {j} : due'[k] = due[k]
        /\ due'[j]["beat"] = due[j]["beat"] /\ due'[j]["expire"] = due[j]["expire"]
    BY <1>14, <1>13 DEF AckTimeout, Timers, StateTimers
  <2>1. CASE JobAck(j, FALSE)
    <3>1. Alone(j)
      BY <2>0, <2>1 DEF JobAck, StartTimer, TypeInv, JobTypes
    <3> QED
      BY <2>1, <3>1, AckTimers, <1>0
  <2>2. CASE Ignored(j, {"WAITING"})
    <3>1. Alone(j)
      BY <2>0, <2>2 DEF Ignored, index
    <3>2. Watched(j)' /\ Ends(j)'
      BY <2>0, <2>2 DEF Ignored, index, TimersOK, Watched, Ends, Live, Running
    <3> QED
      BY <3>1, <3>2, <1>0
  <2> QED
    BY <1>14, <2>1, <2>2 DEF AckTimeout
<1>15. ASSUME NEW j \in Jobs, BeatTimeout(j) PROVE TimersOK'
  <2>0. /\ \A k \in Jobs \ {j} : due'[k] = due[k]
        /\ due'[j]["ack"] = due[j]["ack"] /\ due'[j]["expire"] = due[j]["expire"]
    BY <1>15, <1>13 DEF BeatTimeout, Timers, StateTimers
  <2>1. CASE CancelQueued(j) \/ CancelForced(j)
    BY <2>0, <2>1, <1>6
  <2>2. CASE Ignored(j, Incomplete)
    <3>1. Alone(j)
      BY <2>0, <2>2 DEF Ignored, index
    <3>2. Watched(j)' /\ Ends(j)'
      BY <2>0, <2>2 DEF Ignored, index, Incomplete, Watched, Ends
    <3> QED
      BY <3>1, <3>2, <1>0
  <2> QED
    BY <1>15, <2>1, <2>2 DEF BeatTimeout, JobCancel
<1>16. ASSUME NEW j \in Jobs, JobExpire(j) PROVE TimersOK'
  <2>0. /\ \A k \in Jobs \ {j} : due'[k] = due[k]
        /\ due'[j]["ack"] = due[j]["ack"] /\ due'[j]["beat"] = due[j]["beat"]
    BY <1>16, <1>13 DEF JobExpire, Timers, StateTimers
  <2>1. CASE CancelQueued(j)
    BY <2>0, <2>1, <1>6
  <2>2. CASE CancelRequested(j) \/ Ignored(j, {"QUEUED", "WAITING"})
    <3>1. mem[j] # "QUEUED" /\ UNCHANGED <<mem, timer, armed, expiry>>
      BY <2>2 DEF CancelRequested, Ignored, index
    <3>2. Alone(j)
      BY <2>0, <3>1
    <3>3. Watched(j)' /\ Ends(j)'
      BY <2>0, <3>1 DEF TimersOK, Watched, Ends, Live, Running
    <3> QED
      BY <3>2, <3>3, <1>0
  <2> QED
    BY <1>16, <2>1, <2>2 DEF JobExpire, JobCancel
<1>17. CASE Crash
  BY <1>17, EndedTimers DEF Crash, TimersOK
<1>18. CASE jobIndexInit
  <2>1. ASSUME NEW j \in Jobs PROVE Watched(j)' /\ Ends(j)'
    BY <1>18 DEF jobIndexInit, Tracked, Incomplete, Watched, Ends, Live, Running
  <2> QED
    BY <2>1 DEF TimersOK
<1>19. CASE StartFails \/ UNCHANGED vars
  BY <1>19, SameTimers DEF StartFails, vars, index
<1> QED
  BY <1>1, <1>2, <1>3, <1>4, <1>5, <1>7, <1>8, <1>9, <1>10, <1>11, <1>12, <1>14, <1>15, <1>16,
     <1>17, <1>18, <1>19 DEF Next

LEMMA TimersInvariant == Spec => []TimersOK
BY TypeInvariant, InitTimers, StepTimers, PTL DEF Spec

\* Every job in a runner's hands has the timeout of its state, running or with
\* its callback on the way: no job is stranded in WAITING or RUNNING.
THEOREM AssignedIsWatchedAlways == Spec => []AssignedIsWatched
<1>1. TimersOK => AssignedIsWatched
  BY DEF TimersOK, Watched, AssignedIsWatched
<1> QED
  BY <1>1, TimersInvariant, PTL

\* A job queued with an expiry always has something left that ends it, also
\* after its expiry was spent on an assignment that was then rejected.
THEOREM QueuedJobExpiresAlways == Spec => []QueuedJobExpires
<1>1. TimersOK => QueuedJobExpires
  BY JobsAssumption DEF TimersOK, Ends, QueuedJobExpires
<1> QED
  BY <1>1, TimersInvariant, PTL
-------------------------------------------------------------------------------
(* The order of assignment.  It is decided in one transaction and carried  *)
(* out in another.                                                         *)

\* The job k is waiting before j in the same queue.
Before(k, j) == Target[k] = Target[j] /\ rowState[k] = "QUEUED" /\ queueTime[k] < queueTime[j]

\* Jobs get their place in the queue when they are created.
Placed(k) ==
    /\ queueTime[k] <= clock
    /\ rowState[k] = "WAITING" => assignTime[k]

\* A candidate may be overtaken by no job that has not been given out before.
Chosen(r, j) ==
    /\ rowState[j] # "NONE" /\ Serves(r, j)
    /\ \A k \in Jobs : Before(k, j) => assignTime[k]

TurnInv ==
    /\ \A k \in Jobs : Placed(k)
    /\ \A r \in Runners : \A j \in cand[r] : Chosen(r, j)

\* What every step but the creation of a job leaves: a job comes back to its
\* old place, with the mark of its assignment.
RowsKept ==
    /\ queueTime' = queueTime /\ clock' = clock
    /\ \A k \in Jobs :
         /\ assignTime[k] => assignTime'[k]
         /\ rowState[k] # "NONE" => rowState'[k] # "NONE"
         /\ rowState'[k] = "QUEUED" => rowState[k] \in {"QUEUED", "WAITING"}
         /\ rowState'[k] = "WAITING" => rowState[k] = "WAITING" \/ assignTime'[k]

LEMMA SharedKeepRows ==
    ASSUME TypeInv, IndexAgrees, NEW j \in Jobs,
           \/ \E ack \in BOOLEAN : JobAck(j, ack)
           \/ \E ok \in BOOLEAN : JobComplete(j, ok)
           \/ \E force \in BOOLEAN : JobCancel(j, force)
    PROVE  RowsKept
<1> USE DEF TypeInv, JobTypes, IndexAgrees, JobStates, Incomplete, Completed, RowsKept
<1>1. CASE \E ack \in BOOLEAN : JobAck(j, ack)
  BY <1>1 DEF JobAck
<1>2. CASE \E ok \in BOOLEAN : JobComplete(j, ok)
  BY <1>2 DEF JobComplete
<1>3. CASE CancelQueued(j) \/ CancelForced(j) \/ CancelRequested(j)
  BY <1>3 DEF CancelQueued, CancelForced, CancelRequested
<1> QED
  BY <1>1, <1>2, <1>3 DEF JobCancel

LEMMA StepKeepsRows ==
    ASSUME TypeInv, IndexAgrees, [Next]_vars
    PROVE  \/ /\ RowsKept
              /\ \/ \A r \in Runners : cand'[r] \subseteq cand[r]
                 \/ \E r \in Runners : Search(r)
           \/ \E j \in Jobs : JobCreate(j)
<1>1. CASE \E r \in Runners :
             RunnerCreate(r) \/ RunnerDelete(r) \/ Ask(r) \/ Search(r) \/ GiveUp(r) \/ AssignRetry(r)
  <2>1. RowsKept
    BY <1>1 DEF RowsKept, RunnerCreate, RunnerDelete, Ask, Search, GiveUp, AssignRetry, rows
  <2>2. (\A r \in Runners : cand'[r] \subseteq cand[r]) \/ (\E r \in Runners : Search(r))
    BY <1>1 DEF RunnerCreate, RunnerDelete, Ask, GiveUp, AssignRetry, calls, TypeInv, OtherTypes
  <2> QED
    BY <2>1, <2>2
<1>2. CASE \E r \in Runners, j \in Jobs : Assign(r, j)
  <2>1. PICK r \in Runners, j \in Jobs : Assign(r, j)
    BY <1>2
  <2>2. j \in Valid(r)
    BY <2>1 DEF Assign, Oldest
  <2>3. mem[j] = "QUEUED" /\ rowState[j] = "QUEUED"
    BY <2>2 DEF Valid, IndexAgrees
  <2>4. RowsKept
    BY <2>1, <2>3 DEF Assign, RowsKept, TypeInv, JobTypes
  <2>5. \A q \in Runners : cand'[q] \subseteq cand[q]
    BY <2>1 DEF Assign, TypeInv, OtherTypes
  <2> QED
    BY <2>4, <2>5
<1>3. ASSUME NEW j \in Jobs,
             \/ \E ack \in BOOLEAN : Answer(j, ack)
             \/ \E ok \in BOOLEAN : Complete(j, ok)
             \/ CancelJob(j) \/ AckTimeout(j) \/ BeatTimeout(j) \/ JobExpire(j)
      PROVE  RowsKept /\ cand' = cand
  <2>1. \/ \E ack \in BOOLEAN : JobAck(j, ack)
        \/ \E ok \in BOOLEAN : JobComplete(j, ok)
        \/ \E force \in BOOLEAN : JobCancel(j, force)
        \/ UNCHANGED rows
    BY <1>3 DEF Answer, Complete, CancelJob, AckTimeout, BeatTimeout, JobExpire, Ignored
  <2>2. UNCHANGED rows => RowsKept
    BY DEF rows, RowsKept
  <2>3. cand' = cand
    BY <1>3 DEF Answer, Complete, CancelJob, AckTimeout, BeatTimeout, JobExpire, calls
  <2> QED
    BY <2>1, <2>2, <2>3, SharedKeepRows
<1>4. ASSUME NEW j \in Jobs,
             \/ Heartbeat(j) \/ Elapse(j) \/ Fire(j) \/ FireExpiry(j)
             \/ \E kind \in StateTimers : FireStray(j, kind)
      PROVE  RowsKept /\ cand' = cand
  BY <1>4 DEF Heartbeat, JobHeartbeat, Elapse, Fire, FireExpiry, FireStray, rows, calls, RowsKept
<1>5. CASE Crash \/ jobIndexInit \/ StartFails \/ UNCHANGED vars
  <2>1. RowsKept
    BY <1>5 DEF Crash, jobIndexInit, StartFails, vars, rows, RowsKept
  <2>2. \A r \in Runners : cand'[r] \subseteq cand[r]
    BY <1>5 DEF Crash, jobIndexInit, StartFails, vars, calls, TypeInv, OtherTypes
  <2> QED
    BY <2>1, <2>2
<1> QED
  BY <1>1, <1>2, <1>3, <1>4, <1>5 DEF Next

\* The candidates of a runner are the oldest of their queues.
LEMMA FoundInTurn ==
    ASSUME TypeInv, IndexAgrees, up, NEW r \in Runners, NEW j \in Candidates(r)
    PROVE  j \in Jobs /\ mem[j] = "QUEUED" /\ Serves(r, j) /\ \A k \in Jobs : ~Before(k, j)
<1>1. j \in Jobs /\ mem[j] = "QUEUED" /\ Serves(r, j)
  BY DEF Candidates, jobCandidateById, jobCandidateAny, Oldest, Serves
<1>2. \A k \in Jobs : mem[k] = "QUEUED" /\ Target[k] = Target[j] => queueTime[j] <= queueTime[k]
  BY DEF Candidates, jobCandidateById, jobCandidateAny, Oldest
<1>3. Target[j] # NoTarget
  BY <1>1, TargetAssumption DEF Serves
<1>4. \A k \in Jobs : rowState[k] = "QUEUED" /\ Target[k] = Target[j] => mem[k] = "QUEUED"
  BY <1>3 DEF IndexAgrees, Tracked, Unindexable, Incomplete
<1> QED
  BY <1>1, <1>2, <1>4 DEF Before, TypeInv, JobTypes

LEMMA TurnKept ==
    ASSUME TypeInv, TurnInv, RowsKept, NEW r \in Runners, NEW j \in Jobs, Chosen(r, j)
    PROVE  Chosen(r, j)'
<1>1. ASSUME NEW k \in Jobs, Before(k, j)' PROVE assignTime'[k]
  <2>1. Placed(k)
    BY DEF TurnInv
  <2>2. queueTime[k] < queueTime[j] /\ Target[k] = Target[j] /\ rowState[k] \in {"QUEUED", "WAITING"}
    BY <1>1 DEF Before, RowsKept
  <2>3. rowState[k] = "QUEUED" => assignTime[k]
    BY <2>2 DEF Chosen, Before
  <2> QED
    BY <2>1, <2>2, <2>3 DEF Placed, RowsKept
<1> QED
  BY <1>1 DEF Chosen, RowsKept, Serves

LEMMA CreatedLast ==
    ASSUME TypeInv, IndexAgrees, TurnInv, NEW n \in Jobs, JobCreate(n)
    PROVE  TurnInv'
<1>1. /\ rowState[n] = "NONE" /\ rowState' = [rowState EXCEPT ![n] = "QUEUED"]
      /\ clock' = clock + 1 /\ queueTime' = [queueTime EXCEPT ![n] = clock + 1]
      /\ UNCHANGED <<assignTime, cand>>
  BY DEF JobCreate, calls
<1>2. clock \in Nat /\ queueTime \in [Jobs -> Nat] /\ cand \in [Runners -> SUBSET Jobs]
  BY DEF TypeInv, JobTypes, OtherTypes
<1>3. ASSUME NEW k \in Jobs PROVE Placed(k)'
  <2>1. Placed(k)
    BY DEF TurnInv
  <2>2. queueTime'[k] = IF k = n THEN clock + 1 ELSE queueTime[k]
    BY <1>1, <1>2
  <2>3. rowState'[k] = "WAITING" => rowState[k] = "WAITING"
    BY <1>1 DEF TypeInv, JobTypes
  <2> QED
    BY <1>1, <1>2, <2>1, <2>2, <2>3 DEF Placed
<1>4. ASSUME NEW r \in Runners, NEW j \in cand'[r] PROVE Chosen(r, j)'
  <2>1. j \in Jobs /\ j \in cand[r] /\ Chosen(r, j)
    BY <1>1, <1>2, <1>4 DEF TurnInv
  <2>2. j # n
    BY <1>1, <2>1 DEF Chosen
  <2>3. queueTime[j] <= clock /\ queueTime'[j] = queueTime[j]
    BY <1>1, <1>2, <2>1, <2>2 DEF TurnInv, Placed
  <2>4. ASSUME NEW k \in Jobs, Before(k, j)' PROVE assignTime'[k]
    <3>1. k # n
      BY <1>1, <1>2, <2>1, <2>3, <2>4 DEF Before
    <3>2. Before(k, j)
      BY <1>1, <1>2, <2>3, <2>4, <3>1 DEF Before, TypeInv, JobTypes
    <3> QED
      BY <1>1, <2>1, <3>2 DEF Chosen
  <2> QED
    BY <1>1, <2>1, <2>4 DEF Chosen, Serves, TypeInv, JobTypes
<1> QED
  BY <1>3, <1>4 DEF TurnInv

LEMMA TurnInvariant == Spec => []TurnInv
<1>1. Init => TurnInv
  BY DEF Init, TurnInv, Placed
<1>2. TypeInv /\ IndexAgrees /\ TurnInv /\ [Next]_vars => TurnInv'
  <2> SUFFICES ASSUME TypeInv, IndexAgrees, TurnInv, [Next]_vars PROVE TurnInv'
    OBVIOUS
  <2>1. ASSUME RowsKept PROVE \A k \in Jobs : Placed(k)'
    BY <2>1 DEF TurnInv, Placed, RowsKept
  <2>2. CASE RowsKept /\ \A r \in Runners : cand'[r] \subseteq cand[r]
    <3>1. ASSUME NEW r \in Runners, NEW j \in cand'[r] PROVE Chosen(r, j)'
      <4>1. j \in Jobs /\ Chosen(r, j)
        BY <2>2, <3>1 DEF TurnInv, TypeInv, OtherTypes
      <4> QED
        BY <2>2, <4>1, TurnKept
    <3> QED
      BY <2>1, <2>2, <3>1 DEF TurnInv
  <2>3. ASSUME RowsKept, NEW q \in Runners, Search(q) PROVE TurnInv'
    <3>1. up /\ cand' = [cand EXCEPT ![q] = Candidates(q)] /\ cand \in [Runners -> SUBSET Jobs]
      BY <2>3 DEF Search, TypeInv, OtherTypes
    <3>2. ASSUME NEW r \in Runners, NEW j \in cand'[r] PROVE Chosen(r, j)'
      <4>1. CASE r = q
        <5>1. /\ j \in Jobs /\ mem[j] = "QUEUED" /\ Serves(r, j)
              /\ \A k \in Jobs : ~Before(k, j)
          BY <3>1, <3>2, <4>1, FoundInTurn
        <5>2. Chosen(r, j)
          BY <5>1 DEF Chosen, IndexAgrees
        <5> QED
          BY <2>3, <5>1, <5>2, TurnKept
      <4>2. CASE r # q
        <5>1. j \in Jobs /\ Chosen(r, j)
          BY <3>1, <3>2, <4>2 DEF TurnInv
        <5> QED
          BY <2>3, <5>1, TurnKept
      <4> QED
        BY <4>1, <4>2
    <3> QED
      BY <2>1, <2>3, <3>2 DEF TurnInv
  <2> QED
    BY <2>2, <2>3, StepKeepsRows, CreatedLast
<1> QED
  BY <1>1, <1>2, TypeInvariant, IndexCorrect, PTL DEF Spec

\* A runner is assigned a job that it serves, and a job overtakes only those
\* before it in its queue that were assigned once and came back, although the
\* candidates are sorted by QueueTime in a transaction of their own
\* (JobAssignForRunner, jobCandidateById, jobCandidateAny).
AssignedInTurn ==
    [][\A r \in Runners, j \in Jobs : Assign(r, j) =>
         Serves(r, j) /\ \A k \in Jobs : Before(k, j) => assignTime[k]]_vars

THEOREM AssignedInTurnAlways == Spec => AssignedInTurn
<1>1. TurnInv => [\A r \in Runners, j \in Jobs : Assign(r, j) =>
                    Serves(r, j) /\ \A k \in Jobs : Before(k, j) => assignTime[k]]_vars
  BY DEF TurnInv, Chosen, Assign, Oldest, Valid
<1> QED
  BY <1>1, TurnInvariant, PTL DEF AssignedInTurn

===============================================================================
