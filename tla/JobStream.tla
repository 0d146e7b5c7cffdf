------------------------------ MODULE JobStream ------------------------------
(***************************************************************************)
(* One job, the streams over which runners work on it, and the client that *)
(* queued it.  A stream is one call of Runner.accept (internal/runner/     *)
(* accept.go) together with the RunnerJobStream handler at its other end   *)
(* (internal/server/singleprocess/service_runner.go); the client is        *)
(* queueAndStreamJob (internal/client/job.go).                             *)
(*                                                                         *)
(* The job's record moves only as JobLifecycle allows, which JobQueue      *)
(* implements: a handler's call of the store is one step of JobLifecycle.  *)
(* Handler and accept are several goroutines each; a step of this module   *)
(* is one receive, one send or one branch of a select.  Heartbeats are not *)
(* messages here: while the goroutine that sends them is alive and the     *)
(* stream is up, the heartbeat timer does not run out.                     *)
(***************************************************************************)
EXTENDS Naturals, Sequences, FiniteSets

CONSTANTS
    Job,        \* the job
    Streams,    \* the calls of Runner.accept that may get it
    Local,      \* those made by the client's doJob, with the client's context
    Picky,      \* those of AcceptExact with another job's id
    Breakable,  \* bound: the streams that may break
    Timers      \* bound: the timers of the job that may run out

ASSUME StreamsAssumption ==
    /\ Local \subseteq Streams
    /\ Picky \subseteq Streams \ Local
    /\ Breakable \subseteq Streams
    /\ Timers \subseteq {"expiry", "ack", "beat"}

VARIABLES
    \* The record of the job, and the streams that have not read it since it
    \* was last written.
    state, canceled, failure, stale,
    \* The stream: messages on their way in both directions.
    toServer, toRunner, broken,
    \* RunnerJobStream.
    handler,    \* where the handler is
    reading,    \* its receiving goroutine runs
    done,       \* its context is cancelled
    errCh,      \* an error waits in errCh
    eventCh,    \* the event in eventCh
    jobCh,      \* the version of the job in jobCh
    \* Runner.accept.
    accept,     \* where the call is, and how it has returned
    outcome,    \* how the execution of the job really ended
    err,        \* the variable err, which two goroutines assign
    heard,      \* what its receiving goroutine has received and not dealt with
    over,       \* a Recv has returned an error
    stopped,    \* its context is cancelled by a Cancel event
    lastErr,    \* its errCh, "taken" once it has been received
    \* The client and the job's timers.
    client,
    interrupted,    \* the context of doJob is cancelled
    expiry,     \* the expiry timer runs
    nacked,     \* JobAck(false) has started a heartbeat timer, never stopped
    mishap      \* some stream broke or some timer ran out

record == <<state, canceled, failure>>
job == <<record, stale>>
net == <<toServer, toRunner, broken>>
server == <<handler, reading, done, errCh, eventCh, jobCh>>
listener == <<heard, over, stopped, lastErr>>
runner == <<accept, outcome, err, listener>>
rest == <<client, interrupted, expiry, nacked, mishap>>
vars == <<job, net, server, runner, rest>>

JL == INSTANCE JobLifecycle WITH Jobs <- {Job}

Completed == {"ERROR", "SUCCESS"}
Ended == state[Job] \in Completed

\* accept after its assignment, and after its return.
Working == {"working", "worked", "reporting", "awaiting"}
Returned == {"failed", "forced", "reported", "completed", "crashed"}

TypeOK ==
    /\ JL!TypeOK
    /\ stale \in [Streams -> BOOLEAN]
    /\ toServer \in [Streams -> Seq({"ack", "nack", "complete", "error"})]
    /\ toRunner \in [Streams -> Seq({"assign", "cancel", "eof", "err"})]
    /\ broken \in [Streams -> BOOLEAN]
    /\ handler \in [Streams -> {"idle", "asking", "sent", "serving", "closed"}]
    /\ reading \in [Streams -> BOOLEAN]
    /\ done \in [Streams -> BOOLEAN]
    /\ errCh \in [Streams -> BOOLEAN]
    /\ eventCh \in [Streams -> {"none", "complete", "error"}]
    /\ jobCh \in [Streams -> {"none", "live", "cancel", "force"}]
    /\ accept \in [Streams -> {"idle", "waiting"} \cup Working \cup Returned]
    /\ outcome \in [Streams -> {"none", "ok", "fail"}]
    /\ err \in [Streams -> {"nil", "fail", "eof", "lost"}]
    /\ heard \in [Streams -> {"none", "cancel", "end", "error"}]
    /\ over \in [Streams -> BOOLEAN]
    /\ stopped \in [Streams -> BOOLEAN]
    /\ lastErr \in [Streams -> {"none", "nil", "fail", "eof", "lost", "taken"}]
    /\ client \in {"idle", "queued", "watching", "left", "lost"}
    /\ interrupted \in BOOLEAN
    /\ expiry \in BOOLEAN /\ nacked \in BOOLEAN /\ mishap \in BOOLEAN

Init ==
    /\ JL!Init
    /\ stale = [s \in Streams |-> FALSE]
    /\ toServer = [s \in Streams |-> <<>>]
    /\ toRunner = [s \in Streams |-> <<>>]
    /\ broken = [s \in Streams |-> FALSE]
    /\ handler = [s \in Streams |-> "idle"]
    /\ reading = [s \in Streams |-> FALSE]
    /\ done = [s \in Streams |-> FALSE]
    /\ errCh = [s \in Streams |-> FALSE]
    /\ eventCh = [s \in Streams |-> "none"]
    /\ jobCh = [s \in Streams |-> "none"]
    /\ accept = [s \in Streams |-> "idle"]
    /\ outcome = [s \in Streams |-> "none"]
    /\ err = [s \in Streams |-> "nil"]
    /\ heard = [s \in Streams |-> "none"]
    /\ over = [s \in Streams |-> FALSE]
    /\ stopped = [s \in Streams |-> FALSE]
    /\ lastErr = [s \in Streams |-> "none"]
    /\ client = "idle" /\ interrupted = FALSE
    /\ expiry = FALSE /\ nacked = FALSE /\ mishap = FALSE
\* A step of the job's record that is saved wakes all that watch it.
Write(step) ==
    /\ step
    /\ stale' = [s \in Streams |-> handler[s] = "serving"]
-------------------------------------------------------------------------------
(* The stream.                                                             *)

\* What is sent on a broken stream, or to a side that has returned, is lost.
SentToServer(s, msg) ==
    IF broken[s] \/ handler[s] = "closed" THEN toServer
    ELSE [toServer EXCEPT ![s] = Append(@, msg)]

SentToRunner(s, msgs) ==
    IF broken[s] \/ accept[s] \in Returned THEN toRunner
    ELSE [toRunner EXCEPT ![s] = @ \o msgs]

\* The runner's side is closed: CloseSend when accept returns.
HalfClosed(s) == accept[s] \in Returned /\ toServer[s] = <<>>

\* Of what is on its way some still arrives.  The handler's context ends.
Break(s) ==
    /\ s \in Breakable
    /\ ~broken[s]
    /\ handler[s] # "idle"
    /\ handler[s] # "closed" \/ accept[s] \notin Returned
    /\ broken' = [broken EXCEPT ![s] = TRUE]
    /\ \E n \in 0 .. Len(toServer[s]) :
         toServer' = [toServer EXCEPT ![s] = SubSeq(@, 1, n)]
    /\ \E n \in 0 .. Len(toRunner[s]) :
         toRunner' = [toRunner EXCEPT ![s] = SubSeq(@, 1, n)]
    /\ done' = [done EXCEPT ![s] = TRUE]
    /\ mishap' = TRUE
    /\ UNCHANGED <<job, handler, reading, errCh, eventCh, jobCh, runner, client, interrupted, expiry, nacked>>
-------------------------------------------------------------------------------
(* RunnerJobStream.                                                        *)

\* The handler returns; gRPC sends the status after what was sent before.
Close(s, msgs) ==
    /\ handler' = [handler EXCEPT ![s] = "closed"]
    /\ toRunner' = SentToRunner(s, msgs)
    /\ reading' = [reading EXCEPT ![s] = FALSE]
    /\ errCh' = [errCh EXCEPT ![s] = FALSE]
    /\ eventCh' = [eventCh EXCEPT ![s] = "none"]
    /\ jobCh' = [jobCh EXCEPT ![s] = "none"]
    /\ done' = [done EXCEPT ![s] = TRUE]
    /\ UNCHANGED <<toServer, broken>>

\* It returns and leaves the job as it is, which nobody watches here any more.
Finish(s, msgs) ==
    /\ Close(s, msgs)
    /\ stale' = [stale EXCEPT ![s] = FALSE]
    /\ UNCHANGED <<record, runner, rest>>

\* JobAssignForRunner looks for a job before it looks at its context, so a
\* job may be assigned to a stream that is gone.
Assign(s) ==
    /\ handler[s] = "asking"
    /\ Write(JL!Assign(Job))
    /\ handler' = [handler EXCEPT ![s] = "sent"]
    /\ toRunner' = SentToRunner(s, <<"assign">>)
    /\ UNCHANGED <<toServer, broken, reading, done, errCh, eventCh, jobCh, runner, rest>>

\* Without a job to assign the call ends with its context.
GiveUp(s) ==
    /\ handler[s] = "asking"
    /\ broken[s]
    /\ state[Job] # "QUEUED"
    /\ Finish(s, <<"err">>)

\* JobAck(id, false), which starts a heartbeat timer for the queued job.  It
\* fails when the job is not WAITING, but its failure is only logged or
\* returned to a runner that has gone.
Nack ==
    \/ Write(JL!Reject(Job)) /\ nacked' = TRUE
    \/ state[Job] # "WAITING" /\ UNCHANGED <<job, nacked>>

\* The ack: from here on the handler watches the job and receives events.
RecvAck(s) ==
    /\ handler[s] = "sent"
    /\ toServer[s] # <<>> /\ Head(toServer[s]) = "ack"
    /\ JL!Accept(Job)
    /\ stale' = [t \in Streams |-> t = s \/ handler[t] = "serving"]
    /\ toServer' = [toServer EXCEPT ![s] = Tail(@)]
    /\ handler' = [handler EXCEPT ![s] = "serving"]
    /\ reading' = [reading EXCEPT ![s] = TRUE]
    /\ UNCHANGED <<toRunner, broken, done, errCh, eventCh, jobCh, runner, rest>>

\* The ack comes when the job is no longer WAITING.
RecvAckLate(s) ==
    /\ handler[s] = "sent"
    /\ toServer[s] # <<>> /\ Head(toServer[s]) = "ack"
    /\ state[Job] # "WAITING"
    /\ Finish(s, <<"err">>)

\* The answer is an Error event, or it does not come: assigning failed, the
\* stream is broken or the runner has closed it.
RecvNoAck(s) ==
    /\ handler[s] = "sent"
    /\ \/ toServer[s] # <<>> /\ Head(toServer[s]) # "ack"
       \/ toServer[s] = <<>> /\ (broken[s] \/ HalfClosed(s))
    /\ Nack
    /\ Close(s, IF toServer[s] # <<>> /\ state[Job] = "WAITING" THEN <<"eof">> ELSE <<"err">>)
    /\ UNCHANGED <<runner, client, interrupted, expiry, mishap>>

Version ==
    CASE ~canceled[Job] -> "live"
      [] canceled[Job] /\ state[Job] # "ERROR" -> "cancel"
      [] OTHER -> "force"

\* The watching goroutine reads the job when it has been written, and sends it
\* when jobCh has room: the two are one step here.
Watch(s) ==
    /\ handler[s] = "serving"
    /\ jobCh[s] = "none"
    /\ stale[s]
    /\ jobCh' = [jobCh EXCEPT ![s] = Version]
    /\ stale' = [stale EXCEPT ![s] = FALSE]
    /\ UNCHANGED <<record, net, handler, reading, done, errCh, eventCh, runner, rest>>

\* The receiving goroutine: Complete and Error are the last events it takes.
\* Leaving, it cancels the context, and with the context cancelled already it
\* may drop the event.
RecvEvent(s) ==
    /\ handler[s] = "serving" /\ reading[s]
    /\ toServer[s] # <<>>
    /\ toServer' = [toServer EXCEPT ![s] = Tail(@)]
    /\ \/ eventCh' = [eventCh EXCEPT ![s] = Head(toServer[s])]
       \/ done[s] /\ UNCHANGED eventCh
    /\ reading' = [reading EXCEPT ![s] = FALSE]
    /\ done' = [done EXCEPT ![s] = TRUE]
    /\ UNCHANGED <<job, toRunner, broken, handler, errCh, jobCh, runner, rest>>

\* It meets the end of the stream, or an error, which it passes on.
RecvEnd(s) ==
    /\ handler[s] = "serving" /\ reading[s]
    /\ toServer[s] = <<>>
    /\ broken[s] \/ HalfClosed(s)
    /\ errCh' = [errCh EXCEPT ![s] = broken[s]]
    /\ reading' = [reading EXCEPT ![s] = FALSE]
    /\ done' = [done EXCEPT ![s] = TRUE]
    /\ UNCHANGED <<job, net, handler, eventCh, jobCh, runner, rest>>

\* The branches of the select.  An event: JobComplete, or its error ends the
\* handler.
HandleEvent(s) ==
    /\ handler[s] = "serving"
    /\ eventCh[s] # "none"
    /\ \/ eventCh[s] = "complete" /\ Write(JL!Succeed(Job))
       \/ eventCh[s] = "error" /\ Write(JL!Fail(Job))
    /\ eventCh' = [eventCh EXCEPT ![s] = "none"]
    /\ UNCHANGED <<net, handler, reading, done, errCh, jobCh, runner, rest>>

HandleEventFails(s) ==
    /\ handler[s] = "serving"
    /\ eventCh[s] # "none"
    /\ state[Job] # "RUNNING"
    /\ Finish(s, <<"err">>)

\* Defect: eventCh is not drained.
HandleDoneAtOnce(s) ==
    /\ handler[s] = "serving"
    /\ done[s]
    /\ Finish(s, <<"eof">>)

\* The context is cancelled and eventCh is drained.
HandleDone(s) ==
    /\ handler[s] = "serving"
    /\ done[s]
    /\ eventCh[s] = "none"
    /\ Finish(s, <<"eof">>)

HandleErr(s) ==
    /\ handler[s] = "serving"
    /\ errCh[s]
    /\ Finish(s, <<"err">>)

\* Defect: only forced cancellations are passed on.
HandleJobForced(s) ==
    /\ handler[s] = "serving"
    /\ jobCh[s] \in {"live", "cancel"}
    /\ jobCh' = [jobCh EXCEPT ![s] = "none"]
    /\ UNCHANGED <<job, net, handler, reading, done, errCh, eventCh, runner, rest>>

\* A new version of the job, each of which has a CancelTime of its own: with
\* one, a cancellation is sent to the runner again.
HandleJob(s) ==
    /\ handler[s] = "serving"
    /\ jobCh[s] \in {"live", "cancel"}
    /\ toRunner' = IF jobCh[s] = "cancel" THEN SentToRunner(s, <<"cancel">>) ELSE toRunner
    /\ jobCh' = [jobCh EXCEPT ![s] = "none"]
    /\ UNCHANGED <<job, toServer, broken, handler, reading, done, errCh, eventCh, runner, rest>>

\* Defect: the handler ends without telling the runner.
HandleForceSilently(s) ==
    /\ handler[s] = "serving"
    /\ jobCh[s] = "force"
    /\ Finish(s, <<"eof">>)

\* A cancelled job in the ERROR state is taken for a forced cancellation: the
\* event is sent and the handler ends.
HandleForce(s) ==
    /\ handler[s] = "serving"
    /\ jobCh[s] = "force"
    /\ Finish(s, <<"cancel", "eof">>)

Receive(s) == RecvEvent(s) \/ RecvEnd(s)

Handle(s) ==
    \/ Assign(s) \/ GiveUp(s) \/ RecvAck(s) \/ RecvAckLate(s) \/ RecvNoAck(s)
    \/ HandleEvent(s) \/ HandleEventFails(s) \/ HandleDone(s) \/ HandleErr(s)
    \/ HandleJob(s) \/ HandleForce(s)
-------------------------------------------------------------------------------
(* Runner.accept.                                                          *)

\* doJob calls AcceptExact when it has the job's id; any other call may come
\* at any time.
Accept(s) ==
    /\ accept[s] = "idle"
    /\ s \in Local => client \notin {"idle", "lost"}
    /\ accept' = [accept EXCEPT ![s] = "waiting"]
    /\ handler' = [handler EXCEPT ![s] = "asking"]
    /\ UNCHANGED <<job, net, reading, done, errCh, eventCh, jobCh, outcome, err, listener, rest>>

\* The call goes on, or returns: its variables go and nobody reads on.
Go(s, how) ==
    /\ accept' = [accept EXCEPT ![s] = how]
    /\ UNCHANGED <<err, listener, toRunner>>

Return(s, how) ==
    /\ accept' = [accept EXCEPT ![s] = how]
    /\ err' = [err EXCEPT ![s] = "nil"]
    /\ heard' = [heard EXCEPT ![s] = "none"]
    /\ over' = [over EXCEPT ![s] = FALSE]
    /\ stopped' = [stopped EXCEPT ![s] = FALSE]
    /\ lastErr' = [lastErr EXCEPT ![s] = "none"]
    /\ toRunner' = [toRunner EXCEPT ![s] = <<>>]

\* A Send of the runner: on a broken stream it fails or the message is lost,
\* and it fails for certain once the receiving goroutine has met the end.
SendFails(s) == broken[s] \/ over[s] \/ handler[s] = "closed"
SendPasses(s) == ~over[s]

\* Defect: a runner that refuses the job goes on to work on it.
RecvAssignmentAnyway(s) ==
    /\ accept[s] = "waiting"
    /\ toRunner[s] # <<>> /\ Head(toRunner[s]) = "assign"
    /\ toServer' = SentToServer(s, IF s \in Picky THEN "nack" ELSE "ack")
    /\ accept' = [accept EXCEPT ![s] = "working"]
    /\ toRunner' = [toRunner EXCEPT ![s] = Tail(@)]
    /\ UNCHANGED <<job, broken, server, outcome, err, listener, rest>>

\* The assignment.  Another job's is refused; acking this one and starting
\* to work on it are one step, because the runner waits for nothing between.
RecvAssignment(s) ==
    /\ accept[s] = "waiting"
    /\ toRunner[s] # <<>> /\ Head(toRunner[s]) = "assign"
    /\ \/ /\ s \notin Picky
          /\ toServer' = SentToServer(s, "ack")
          /\ accept' = [accept EXCEPT ![s] = "working"]
          /\ toRunner' = [toRunner EXCEPT ![s] = Tail(@)]
          /\ UNCHANGED <<err, listener>>
       \/ /\ s \in Picky
          /\ toServer' = SentToServer(s, "nack")
          /\ Return(s, "failed")
       \/ /\ SendFails(s)
          /\ Return(s, "failed")
          /\ UNCHANGED toServer
    /\ UNCHANGED <<job, broken, server, outcome, rest>>

\* The stream ends before there is an assignment.
RecvNoAssignment(s) ==
    /\ accept[s] = "waiting"
    /\ \/ toRunner[s] = <<>> /\ broken[s]
       \/ toRunner[s] # <<>> /\ Head(toRunner[s]) # "assign"
    /\ Return(s, "failed")
    /\ UNCHANGED <<job, toServer, broken, server, outcome, rest>>

\* The receiving goroutine.  Its Recv assigns the err of accept, nil with an
\* event; it tests err, which accept may have assigned since, and reads it again
\* to send it into errCh.
Listening(s) == accept[s] \in Working /\ heard[s] = "none" /\ lastErr[s] = "none"

RecvCancel(s) ==
    /\ Listening(s)
    /\ toRunner[s] # <<>> /\ Head(toRunner[s]) = "cancel"
    /\ toRunner' = [toRunner EXCEPT ![s] = Tail(@)]
    /\ heard' = [heard EXCEPT ![s] = "cancel"]
    /\ err' = [err EXCEPT ![s] = "nil"]
    /\ UNCHANGED <<job, toServer, broken, server, accept, outcome, over, stopped, lastErr, rest>>

RecvStatus(s) ==
    /\ Listening(s)
    /\ \/ /\ toRunner[s] # <<>> /\ Head(toRunner[s]) \in {"eof", "err"}
          /\ err' = [err EXCEPT ![s] = IF Head(toRunner[s]) = "eof" THEN "eof" ELSE "lost"]
       \/ /\ toRunner[s] = <<>> /\ broken[s]
          /\ err' = [err EXCEPT ![s] = "lost"]
    /\ toRunner' = [toRunner EXCEPT ![s] = <<>>]
    /\ heard' = [heard EXCEPT ![s] = "end"]
    /\ over' = [over EXCEPT ![s] = TRUE]
    /\ UNCHANGED <<job, toServer, broken, server, accept, outcome, stopped, lastErr, rest>>

\* if err != nil: a failure of the execution may be taken for the end of the
\* stream.
FindError(s) ==
    /\ accept[s] \in Working
    /\ heard[s] \in {"cancel", "end"}
    /\ err[s] # "nil"
    /\ heard' = [heard EXCEPT ![s] = "error"]
    /\ UNCHANGED <<job, net, server, accept, outcome, err, over, stopped, lastErr, rest>>

\* errCh <- err, and the goroutine ends.
PassError(s) ==
    /\ accept[s] \in Working
    /\ heard[s] = "error"
    /\ heard' = [heard EXCEPT ![s] = "none"]
    /\ lastErr' = [lastErr EXCEPT ![s] = err[s]]
    /\ UNCHANGED <<job, net, server, accept, outcome, err, over, stopped, rest>>

ActOnCancel(s) ==
    /\ accept[s] \in Working
    /\ heard[s] = "cancel"
    /\ err[s] = "nil"
    /\ heard' = [heard EXCEPT ![s] = "none"]
    /\ stopped' = [stopped EXCEPT ![s] = TRUE]
    /\ UNCHANGED <<job, net, server, accept, outcome, err, over, lastErr, rest>>

\* The stream has ended, but accept has assigned err its success: the switch on
\* the event meets a nil response, and the process ends.
Panic(s) ==
    /\ accept[s] \in Working
    /\ heard[s] = "end"
    /\ err[s] = "nil"
    /\ Return(s, "crashed")
    /\ client' = IF s \in Local THEN "left" ELSE client
    /\ UNCHANGED <<job, toServer, broken, server, outcome, interrupted, expiry, nacked, mishap>>

\* The context of accept: cancelled by an event, or with doJob's context.
Cancelled(s) == stopped[s] \/ (s \in Local /\ interrupted)

\* The data is downloaded and the job executed, well or not.
Execute(s, how) ==
    /\ accept[s] = "working"
    /\ accept' = [accept EXCEPT ![s] = "worked"]
    /\ outcome' = [outcome EXCEPT ![s] = how]
    /\ err' = [err EXCEPT ![s] = IF how = "ok" THEN "nil" ELSE "fail"]
    /\ UNCHANGED <<job, net, server, listener, rest>>

\* A cancelled context and a stream that has ended well mean a forced
\* cancellation.  Any other error is received here and forgotten.
CheckForced(s) ==
    /\ accept[s] = "worked"
    /\ \/ /\ Cancelled(s) /\ lastErr[s] = "eof"
          /\ Return(s, "forced")
       \/ /\ Cancelled(s) /\ lastErr[s] \in {"nil", "fail", "lost"}
          /\ accept' = [accept EXCEPT ![s] = "reporting"]
          /\ lastErr' = [lastErr EXCEPT ![s] = "taken"]
          /\ UNCHANGED <<err, heard, over, stopped, toRunner>>
       \/ /\ ~Cancelled(s) \/ lastErr[s] = "none"
          /\ Go(s, "reporting")
    /\ UNCHANGED <<job, toServer, broken, server, outcome, rest>>

\* Defect: the error is only logged.
ReportErrorNot(s) ==
    /\ accept[s] = "reporting"
    /\ err[s] # "nil"
    /\ Return(s, "reported")
    /\ UNCHANGED <<job, toServer, broken, server, outcome, rest>>

\* An error is sent, and whether it can be sent makes no difference.
ReportError(s) ==
    /\ accept[s] = "reporting"
    /\ err[s] # "nil"
    /\ toServer' = IF SendPasses(s) THEN SentToServer(s, "error") ELSE toServer
    /\ Return(s, "reported")
    /\ UNCHANGED <<job, broken, server, outcome, rest>>

\* Defect: a completion is sent for a failed execution too.
ReportCompleteAlways(s) ==
    /\ accept[s] = "reporting"
    /\ SendPasses(s)
    /\ toServer' = SentToServer(s, "complete")
    /\ Go(s, "awaiting")
    /\ UNCHANGED <<job, broken, server, outcome, rest>>

ReportComplete(s) ==
    /\ accept[s] = "reporting"
    /\ err[s] = "nil"
    /\ \/ /\ SendPasses(s)
          /\ toServer' = SentToServer(s, "complete")
          /\ Go(s, "awaiting")
       \/ /\ SendFails(s)
          /\ Return(s, "failed")
          /\ UNCHANGED toServer
    /\ UNCHANGED <<job, broken, server, outcome, rest>>

\* Defect: accept waits for the end of the stream and takes no error for it.
AwaitEof(s) ==
    /\ accept[s] = "awaiting"
    /\ lastErr[s] = "eof"
    /\ Return(s, "completed")
    /\ UNCHANGED <<job, toServer, broken, server, outcome, rest>>

\* "Wait for the connection to close."
AwaitEnd(s) ==
    /\ accept[s] = "awaiting"
    /\ lastErr[s] \notin {"none", "taken"}
    /\ Return(s, IF lastErr[s] \in {"nil", "eof"} THEN "completed" ELSE "failed")
    /\ UNCHANGED <<job, toServer, broken, server, outcome, rest>>

Listen(s) ==
    \/ RecvCancel(s) \/ RecvStatus(s)
    \/ FindError(s) \/ PassError(s) \/ ActOnCancel(s) \/ Panic(s)

Proceed(s) ==
    \/ RecvAssignment(s) \/ RecvNoAssignment(s)
    \/ CheckForced(s) \/ ReportError(s) \/ ReportComplete(s) \/ AwaitEnd(s)
-------------------------------------------------------------------------------
(* The client.                                                             *)

\* jobCancel(force = FALSE), which fails on a completed job.
JobCancel ==
    \/ state[Job] = "QUEUED" /\ Write(JL!Cancel(Job))
    \/ Write(JL!RequestCancel(Job))
    \/ Ended /\ UNCHANGED job

\* Only a local client sets an expiry.  The call may fail for the client, which
\* does not learn the job's id then.
QueueJob ==
    /\ client = "idle"
    /\ Write(JL!Queue(Job))
    /\ client' \in {"queued", "lost"}
    /\ expiry' = (Local # {})
    /\ UNCHANGED <<net, server, runner, interrupted, nacked, mishap>>

\* GetJobStream is open, and queueAndStreamJob has deferred its CancelJob.
OpenStream ==
    /\ client = "queued"
    /\ client' = "watching"
    /\ UNCHANGED <<job, net, server, runner, interrupted, expiry, nacked, mishap>>

\* GetJobStream ends with a Complete event once the job has.
ReceiveComplete ==
    /\ client = "watching"
    /\ Ended
    /\ client' = "left"
    /\ UNCHANGED <<job, net, server, runner, interrupted, expiry, nacked, mishap>>

\* The user's interrupt cancels the context that doJob was called with.
Interrupt ==
    /\ client \in {"queued", "watching", "left"}
    /\ ~interrupted
    /\ interrupted' = TRUE
    /\ UNCHANGED <<job, net, server, runner, client, expiry, nacked, mishap>>

\* Opening or reading GetJobStream fails, because of the interrupt or without
\* one.  A local client that has read from it and is interrupted cancels its job.
LeaveStream ==
    /\ client \in {"queued", "watching"}
    /\ IF client = "watching" /\ interrupted /\ Local # {} THEN JobCancel ELSE UNCHANGED job
    /\ client' = "left"
    /\ UNCHANGED <<net, server, runner, interrupted, expiry, nacked, mishap>>
-------------------------------------------------------------------------------
(* The timers of the job, as JobQueue has them.                            *)

JobExpire ==
    /\ "expiry" \in Timers
    /\ expiry
    /\ expiry' = FALSE
    /\ IF state[Job] \in {"QUEUED", "WAITING"} THEN JobCancel ELSE UNCHANGED job
    /\ UNCHANGED <<net, server, runner, client, interrupted, nacked, mishap>>

AckTimeout ==
    /\ "ack" \in Timers
    /\ state[Job] = "WAITING"
    /\ Nack
    /\ mishap' = TRUE
    /\ UNCHANGED <<net, server, runner, client, interrupted, expiry>>

\* Heartbeats reach the store while the handler serves and until the runner's
\* context is cancelled or accept holds the mutex to report.
Beating(s) ==
    /\ handler[s] = "serving" /\ ~broken[s]
    /\ accept[s] \in {"working", "worked"} /\ ~Cancelled(s)

\* The timer started by a rejection runs beside the one of the execution.
BeatTimeout ==
    /\ "beat" \in Timers
    /\ nacked \/ (state[Job] = "RUNNING" /\ \A s \in Streams : ~Beating(s))
    /\ Write(JL!Cancel(Job))
    /\ mishap' = TRUE
    /\ UNCHANGED <<net, server, runner, client, interrupted, expiry, nacked>>
-------------------------------------------------------------------------------
Next ==
    \/ \E s \in Streams :
         \/ Watch(s) \/ Receive(s) \/ Handle(s)
         \/ Accept(s) \/ Listen(s) \/ Proceed(s)
         \/ \E how \in {"ok", "fail"} : Execute(s, how)
         \/ Break(s)
    \/ QueueJob \/ OpenStream \/ ReceiveComplete \/ Interrupt \/ LeaveStream
    \/ JobExpire \/ AckTimeout \/ BeatTimeout

Spec == Init /\ [][Next]_vars

(***************************************************************************)
(* The goroutines of handler and accept are scheduled, and timers that may *)
(* run out do.  Nobody has to call accept, the stream need not break, and  *)
(* an execution need not end by itself: only one whose context is          *)
(* cancelled does, which is what executeJob is given the context for.      *)
(***************************************************************************)
Fairness ==
    /\ \A s \in Streams :
         /\ WF_vars(Watch(s))
         /\ WF_vars(Receive(s))
         /\ WF_vars(Handle(s))
         /\ WF_vars(Listen(s))
         /\ WF_vars(Proceed(s))
         /\ WF_vars(Cancelled(s) /\ \E how \in {"ok", "fail"} : Execute(s, how))
    /\ WF_vars(ReceiveComplete) /\ WF_vars(interrupted /\ LeaveStream)
    /\ WF_vars(JobExpire) /\ WF_vars(AckTimeout) /\ WF_vars(BeatTimeout)

FairSpec == Spec /\ Fairness
-------------------------------------------------------------------------------
(* Properties.                                                             *)

\* A call of accept that returns after sending a completion and reading the
\* end of the stream leaves the job completed in the store, whatever broke or
\* timed out: "this ensures that the server received our completion and
\* updated the database" (accept.go).  The completion crosses two goroutines of
\* the handler, one of which ends the other.
ExitMeansRecorded == \A s \in Streams : accept[s] = "completed" => Ended

Executed == {s \in Streams : accept[s] = "working" \/ outcome[s] # "none"}

\* The runner starts to work before it knows that its ack was taken; as long
\* as no stream breaks and no timer runs out the job is executed once, though
\* it may be refused, cancelled and queued again before.
ExecutedOnce == mishap \/ Cardinality(Executed) <= 1

\* A result that a runner has seen recorded is the one recorded, unless
\* somebody cancelled the job or a timer ran out.
ResultKept == \A s \in Streams :
    accept[s] = "completed" /\ ~canceled[Job] => state[Job] = "SUCCESS" /\ outcome[s] = "ok"

\* An error that a runner reports before it leaves has been recorded when the
\* handler ends, although accept closes the stream right behind it, without
\* waiting, and the handler takes a closed stream for a runner that has gone.
ErrorRecorded == \A s \in Streams :
    accept[s] = "reported" /\ handler[s] = "closed" => mishap \/ Ended

\* A job whose cancellation was requested ends, wherever the request meets it:
\* waiting for an ack, rejected and queued again, running on a stream that
\* works or on one that breaks (JobCancel, "it is up to downstream to listen for
\* and react to Job changes for cancellation").
CancelEnds == canceled[Job] ~> Ended

\* When a timer ends a job on which a runner is at work, the runner stops.
EndedJobStopsRunner == \A s \in Streams :
    Ended /\ handler[s] = "serving" ~> broken[s] \/ accept[s] \in Returned

\* A local client that has been interrupted gets its accept call back, unless
\* the call has not been assigned the job yet or has lost its stream.
\* The job client waits for it (doJob, "waiting for accept to finish").
DoJobReturns == \A s \in Local :
    interrupted /\ accept[s] \in Working ~> accept[s] \in Returned

\* What a test of runner.accept expects of a failed execution.  "Errors during
\* job execution are expected [...] and will be reported on the job."
ReportedTruthfully == state[Job] = "SUCCESS" => \E s \in Streams : outcome[s] = "ok"
===============================================================================
