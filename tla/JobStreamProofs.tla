---------------------------- MODULE JobStreamProofs ----------------------------
(***************************************************************************)
(* Theorems about JobStream, for any set of streams, whichever of them     *)
(* break: what a runner knows when it has read the end of its stream.      *)
(***************************************************************************)
EXTENDS JobStream, SequenceTheorems, TLAPS

\* The message m is on its way to the runner.
Coming(s, m) == \E i \in 1 .. Len(toRunner[s]) : toRunner[s][i] = m

\* The job's end has been written, and not by the failure of an execution.
Recorded == Ended /\ (canceled[Job] \/ state[Job] = "SUCCESS")

\* A handler that serves no runner has none of the goroutines' results.
Quiet(s) ==
    /\ handler[s] # "serving" =>
         ~reading[s] /\ ~errCh[s] /\ eventCh[s] = "none" /\ jobCh[s] = "none"
    /\ handler[s] \in {"idle", "asking", "sent"} /\ ~broken[s] => ~done[s]

\* Before the runner has an assignment it has sent nothing.
Opened(s) ==
    /\ handler[s] = "idle" <=> accept[s] = "idle"
    /\ accept[s] \in {"idle", "waiting"} => toServer[s] = <<>> /\ lastErr[s] = "none"
    /\ handler[s] \in {"idle", "asking"} =>
         /\ accept[s] \in {"idle", "waiting", "failed"}
         /\ toRunner[s] = <<>> /\ toServer[s] = <<>>
    /\ accept[s] = "waiting" => toRunner[s] \in {<<>>, <<"assign">>}
    /\ accept[s] = "waiting" /\ ~broken[s] => handler[s] \in {"asking", "sent"}

\* The handler meets the messages in the order in which they are sent.
Flows(s) ==
    /\ handler[s] = "sent" =>
         toServer[s] \in {<<>>, <<"ack">>, <<"nack">>, <<"ack", "complete">>, <<"ack", "error">>}
    /\ handler[s] = "serving" => toServer[s] \in {<<>>, <<"complete">>, <<"error">>}

\* Without a break, what the handler has of what its runner has sent.
Talks(s) ==
    /\ ~broken[s] /\ accept[s] \in {"working", "worked", "reporting"} =>
         /\ handler[s] = "sent" => toServer[s] = <<"ack">>
         /\ handler[s] = "serving" =>
              toServer[s] = <<>> /\ ~done[s] /\ reading[s] /\ eventCh[s] = "none"
    /\ ~broken[s] /\ accept[s] = "awaiting" =>
         /\ handler[s] = "sent" => toServer[s] = <<"ack", "complete">>
         /\ handler[s] = "serving" =>
              \/ toServer[s] = <<"complete">> /\ ~done[s] /\ reading[s] /\ eventCh[s] = "none"
              \/ toServer[s] = <<>> /\ done[s] /\ ~reading[s] /\ eventCh[s] = "complete"
              \/ toServer[s] = <<>> /\ done[s] /\ ~reading[s] /\ eventCh[s] = "none" /\ Recorded

\* What a cancellation, the result of an execution and the end of the stream
\* tell of the job.
Means(s) ==
    /\ Coming(s, "cancel") \/ jobCh[s] \in {"cancel", "force"} => canceled[Job]
    /\ jobCh[s] = "force" => Ended
    /\ accept[s] \in {"worked", "reporting"} /\ err[s] = "nil" => outcome[s] = "ok" \/ canceled[Job]
    /\ accept[s] \in {"awaiting", "completed"} => outcome[s] = "ok" \/ canceled[Job]
    /\ Coming(s, "eof") \/ "eof" \in {err[s], lastErr[s]} \/ accept[s] = "completed" => Recorded

StreamInv(s) == Quiet(s) /\ Opened(s) /\ Flows(s) /\ Talks(s) /\ Means(s)

IInv == TypeOK /\ \A s \in Streams : StreamInv(s)

-------------------------------------------------------------------------------
(* The err of accept, which two goroutines share.                          *)

\* What the receiving goroutine has met, against the err that it shares.
Hears(s) ==
    /\ accept[s] \notin Working => heard[s] = "none" /\ ~over[s] /\ lastErr[s] = "none" /\ err[s] = "nil"
    /\ accept[s] \in {"working", "awaiting"} =>
         IF over[s] THEN err[s] \in {"eof", "lost"} ELSE err[s] = "nil"
    /\ heard[s] = "cancel" => ~over[s]
    /\ heard[s] = "end" => over[s]
    /\ err[s] \in {"eof", "lost"} \/ lastErr[s] \in {"nil", "eof", "lost"} => over[s]
    /\ over[s] => heard[s] \in {"end", "error"} \/ lastErr[s] # "none"
    /\ lastErr[s] # "none" => heard[s] = "none"
    /\ ~over[s] /\ (heard[s] = "error" \/ lastErr[s] # "none") => err[s] = "fail"
    /\ accept[s] = "awaiting" => lastErr[s] \in {"none", "eof", "lost"}

HearTypes ==
    /\ accept \in [Streams -> {"idle", "waiting"} \cup Working \cup Returned]
    /\ err \in [Streams -> {"nil", "fail", "eof", "lost"}]
    /\ heard \in [Streams -> {"none", "cancel", "end", "error"}]
    /\ over \in [Streams -> BOOLEAN]
    /\ lastErr \in [Streams -> {"none", "nil", "fail", "eof", "lost", "taken"}]

HearInv == HearTypes /\ \A s \in Streams : Hears(s)

\* What Hears tells apart does not move.
Deaf(t) ==
    /\ accept'[t] = accept[t] /\ err'[t] = err[t]
    /\ heard'[t] = heard[t] /\ over'[t] = over[t] /\ lastErr'[t] = lastErr[t]

LEMMA HearFrame ==
    ASSUME HearInv, NEW s \in Streams, HearTypes', Hears(s)', \A t \in Streams \ {s} : Deaf(t)
    PROVE  HearInv'
<1>1. ASSUME NEW t \in Streams \ {s} PROVE Hears(t)'
  BY <1>1 DEF HearInv, Hears, Deaf
<1>2. QED BY <1>1 DEF HearInv

LEMMA HearReturn ==
    ASSUME HearInv, NEW s \in Streams, NEW how \in Returned, Return(s, how)
    PROVE  HearInv'
<1>1. /\ accept'[s] = how /\ err'[s] = "nil" /\ heard'[s] = "none" /\ ~over'[s] /\ lastErr'[s] = "none"
      /\ HearTypes' /\ \A t \in Streams \ {s} : Deaf(t)
  BY DEF HearInv, HearTypes, Return, Deaf
<1>2. how \notin Working
  BY DEF Returned, Working
<1>3. Hears(s)'
  BY <1>1, <1>2 DEF Hears, Working
<1>4. QED BY <1>1, <1>3, HearFrame

\* The receiving goroutine.
LEMMA HearListening ==
    ASSUME HearInv, NEW s \in Streams,
           RecvCancel(s) \/ RecvStatus(s) \/ FindError(s) \/ PassError(s) \/ ActOnCancel(s)
    PROVE  HearInv'
<1>1. HearTypes /\ Hears(s) /\ accept[s] \in Working /\ UNCHANGED accept
  BY DEF HearInv, Listening, RecvCancel, RecvStatus, FindError, PassError, ActOnCancel
<1>2. CASE RecvCancel(s)
  <2>1. /\ heard[s] = "none" /\ lastErr[s] = "none" /\ UNCHANGED <<over, lastErr>>
        /\ heard' = [heard EXCEPT ![s] = "cancel"] /\ err' = [err EXCEPT ![s] = "nil"]
    BY <1>2 DEF RecvCancel, Listening
  <2>2. HearTypes' /\ \A t \in Streams \ {s} : Deaf(t)
    BY <1>1, <2>1 DEF HearTypes, Deaf
  <2>3. heard'[s] = "cancel" /\ err'[s] = "nil" /\ ~over[s]
    BY <1>1, <2>1 DEF HearTypes, Hears
  <2>4. Hears(s)'
    BY <1>1, <2>1, <2>3 DEF Hears
  <2>5. QED BY <2>2, <2>4, HearFrame
<1>3. CASE RecvStatus(s)
  <2>1. PICK e \in {"eof", "lost"} : err' = [err EXCEPT ![s] = e]
    BY <1>3 DEF RecvStatus
  <2>2. /\ lastErr[s] = "none" /\ UNCHANGED lastErr
        /\ heard' = [heard EXCEPT ![s] = "end"] /\ over' = [over EXCEPT ![s] = TRUE]
    BY <1>3 DEF RecvStatus, Listening
  <2>3. HearTypes' /\ \A t \in Streams \ {s} : Deaf(t)
    BY <1>1, <2>1, <2>2 DEF HearTypes, Deaf
  <2>4. heard'[s] = "end" /\ err'[s] = e /\ over'[s]
    BY <1>1, <2>1, <2>2 DEF HearTypes
  <2>5. Hears(s)'
    BY <1>1, <2>2, <2>4 DEF Hears
  <2>6. QED BY <2>3, <2>5, HearFrame
<1>4. CASE FindError(s)
  <2>1. /\ heard[s] \in {"cancel", "end"} /\ err[s] # "nil"
        /\ heard' = [heard EXCEPT ![s] = "error"] /\ UNCHANGED <<err, over, lastErr>>
    BY <1>4 DEF FindError
  <2>2. HearTypes' /\ heard'[s] = "error" /\ \A t \in Streams \ {s} : Deaf(t)
    BY <1>1, <2>1 DEF HearTypes, Deaf
  <2>3. err[s] \in {"fail", "eof", "lost"}
    BY <1>1, <2>1 DEF HearTypes
  <2>4. Hears(s)'
    BY <1>1, <2>1, <2>2, <2>3 DEF Hears
  <2>5. QED BY <2>2, <2>4, HearFrame
<1>5. CASE PassError(s)
  <2>1. /\ heard[s] = "error" /\ heard' = [heard EXCEPT ![s] = "none"]
        /\ lastErr' = [lastErr EXCEPT ![s] = err[s]] /\ UNCHANGED <<err, over>>
    BY <1>5 DEF PassError
  <2>2. /\ HearTypes' /\ heard'[s] = "none" /\ lastErr'[s] = err[s]
        /\ \A t \in Streams \ {s} : Deaf(t)
    BY <1>1, <2>1 DEF HearTypes, Deaf
  <2>3. err[s] # "none"
    BY <1>1 DEF HearTypes
  <2>4. Hears(s)'
    BY <1>1, <2>1, <2>2, <2>3 DEF Hears
  <2>5. QED BY <2>2, <2>4, HearFrame
<1>6. CASE ActOnCancel(s)
  <2>1. /\ heard[s] = "cancel" /\ heard' = [heard EXCEPT ![s] = "none"] /\ UNCHANGED <<err, over, lastErr>>
    BY <1>6 DEF ActOnCancel
  <2>2. HearTypes' /\ heard'[s] = "none" /\ \A t \in Streams \ {s} : Deaf(t)
    BY <1>1, <2>1 DEF HearTypes, Deaf
  <2>3. Hears(s)'
    BY <1>1, <2>1, <2>2 DEF Hears
  <2>4. QED BY <2>2, <2>3, HearFrame
<1>7. QED BY <1>2, <1>3, <1>4, <1>5, <1>6

\* accept itself, as long as it has not returned.
LEMMA HearGoing ==
    ASSUME HearInv, NEW s \in Streams,
           \/ Accept(s)
           \/ \E how \in {"ok", "fail"} : Execute(s, how)
           \/ /\ accept[s] = "waiting" /\ accept' = [accept EXCEPT ![s] = "working"]
              /\ UNCHANGED <<err, listener>>
           \/ /\ accept[s] = "worked" /\ accept' = [accept EXCEPT ![s] = "reporting"]
              /\ UNCHANGED <<err, heard, over>>
              /\ \/ UNCHANGED lastErr
                 \/ lastErr[s] # "none" /\ lastErr' = [lastErr EXCEPT ![s] = "taken"]
           \/ ReportComplete(s) /\ SendPasses(s) /\ Go(s, "awaiting")
    PROVE  HearInv'
<1>1. HearTypes /\ Hears(s)
  BY DEF HearInv
<1>2. CASE \/ Accept(s)
           \/ /\ accept[s] = "waiting" /\ accept' = [accept EXCEPT ![s] = "working"]
              /\ UNCHANGED <<err, listener>>
  <2>1. PICK how \in {"waiting", "working"} : accept' = [accept EXCEPT ![s] = how]
    BY <1>2 DEF Accept
  <2>2. accept[s] \notin Working /\ UNCHANGED <<err, heard, over, lastErr>>
    BY <1>2 DEF Accept, listener, Working
  <2>3. HearTypes' /\ accept'[s] = how /\ \A t \in Streams \ {s} : Deaf(t)
    BY <1>1, <2>1, <2>2 DEF HearTypes, Deaf, Working
  <2>4. Hears(s)'
    BY <1>1, <2>2, <2>3 DEF Hears, Working
  <2>5. QED BY <2>3, <2>4, HearFrame
<1>3. CASE \E how \in {"ok", "fail"} : Execute(s, how)
  <2>1. PICK e \in {"nil", "fail"} :
          /\ accept[s] = "working" /\ accept' = [accept EXCEPT ![s] = "worked"]
          /\ err' = [err EXCEPT ![s] = e] /\ UNCHANGED <<heard, over, lastErr>>
    BY <1>3 DEF Execute, listener
  <2>2. HearTypes' /\ accept'[s] = "worked" /\ err'[s] = e /\ \A t \in Streams \ {s} : Deaf(t)
    BY <1>1, <2>1 DEF HearTypes, Deaf, Working
  <2>3. Hears(s)'
    BY <1>1, <2>1, <2>2 DEF Hears, Working
  <2>4. QED BY <2>2, <2>3, HearFrame
<1>4. CASE /\ accept[s] = "worked" /\ accept' = [accept EXCEPT ![s] = "reporting"]
           /\ UNCHANGED <<err, heard, over>>
           /\ \/ UNCHANGED lastErr
              \/ lastErr[s] # "none" /\ lastErr' = [lastErr EXCEPT ![s] = "taken"]
  <2>1. /\ accept'[s] = "reporting" /\ lastErr'[s] \in {lastErr[s], "taken"}
        /\ lastErr'[s] = "taken" => lastErr[s] # "none"
        /\ \A t \in Streams \ {s} : Deaf(t)
    BY <1>1, <1>4 DEF HearTypes, Deaf
  <2>2. lastErr' \in [Streams -> {"none", "nil", "fail", "eof", "lost", "taken"}]
    <3>1. lastErr \in [Streams -> {"none", "nil", "fail", "eof", "lost", "taken"}]
      BY <1>1 DEF HearTypes
    <3>2. QED BY <1>4, <3>1
  <2>3. HearTypes'
    BY <1>1, <1>4, <2>2 DEF HearTypes, Working
  <2>4. Hears(s)'
    BY <1>1, <1>4, <2>1 DEF Hears, Working
  <2>5. QED BY <2>1, <2>3, <2>4, HearFrame
<1>5. CASE ReportComplete(s) /\ SendPasses(s) /\ Go(s, "awaiting")
  <2>1. /\ accept[s] = "reporting" /\ err[s] = "nil" /\ ~over[s]
        /\ accept' = [accept EXCEPT ![s] = "awaiting"] /\ UNCHANGED <<err, heard, over, lastErr>>
    BY <1>5 DEF ReportComplete, SendPasses, Go, listener
  <2>2. HearTypes' /\ accept'[s] = "awaiting" /\ \A t \in Streams \ {s} : Deaf(t)
    BY <1>1, <2>1 DEF HearTypes, Deaf, Working
  <2>3. Hears(s)'
    BY <1>1, <2>1, <2>2 DEF Hears, Working
  <2>4. QED BY <2>2, <2>3, HearFrame
<1>6. QED BY <1>2, <1>3, <1>4, <1>5

\* The steps of the stream, the handler, the client and the timers.
LEMMA HearOthers ==
    ASSUME HearInv,
           \/ \E s \in Streams : Watch(s) \/ Receive(s) \/ Handle(s) \/ Break(s)
           \/ QueueJob \/ OpenStream \/ ReceiveComplete \/ Interrupt \/ LeaveStream
           \/ JobExpire \/ AckTimeout \/ BeatTimeout
           \/ UNCHANGED vars
    PROVE  HearInv'
<1>1. UNCHANGED runner
  <2>1. ASSUME NEW s \in Streams, Watch(s) \/ Receive(s) \/ Handle(s) \/ Break(s) PROVE UNCHANGED runner
    BY <2>1 DEF Watch, Receive, RecvEvent, RecvEnd, Handle, Assign, GiveUp, RecvAck, RecvAckLate, RecvNoAck,
                HandleEvent, HandleEventFails, HandleDone, HandleErr, HandleJob, HandleForce, Finish, Break
  <2>2. QED BY <2>1 DEF QueueJob, OpenStream, ReceiveComplete, Interrupt, LeaveStream,
                        JobExpire, AckTimeout, BeatTimeout, vars
<1>2. QED BY <1>1 DEF HearInv, HearTypes, Hears, runner, listener

LEMMA HearInvariance == Spec => []HearInv
<1>1. Init => HearInv
  BY DEF Init, HearInv, HearTypes, Hears, Working
<1>2. HearInv /\ [Next]_vars => HearInv'
  <2> SUFFICES ASSUME HearInv, [Next]_vars PROVE HearInv'
    OBVIOUS
  <2>1. ASSUME NEW s \in Streams, RecvAssignment(s) PROVE HearInv'
    <3>1. CASE Return(s, "failed")
      BY <3>1, HearReturn DEF Returned
    <3>2. CASE ~Return(s, "failed")
      BY <2>1, <3>2, HearGoing DEF RecvAssignment
    <3>3. QED BY <3>1, <3>2
  <2>2. ASSUME NEW s \in Streams, CheckForced(s) PROVE HearInv'
    <3>1. CASE Return(s, "forced")
      BY <3>1, HearReturn DEF Returned
    <3>2. CASE ~Return(s, "forced")
      BY <2>2, <3>2, HearGoing DEF CheckForced, Go, listener
    <3>3. QED BY <3>1, <3>2
  <2>3. ASSUME NEW s \in Streams, ReportComplete(s) PROVE HearInv'
    <3>1. CASE Return(s, "failed")
      BY <3>1, HearReturn DEF Returned
    <3>2. CASE ~Return(s, "failed")
      BY <2>3, <3>2, HearGoing DEF ReportComplete
    <3>3. QED BY <3>1, <3>2
  <2>4. ASSUME NEW s \in Streams, RecvNoAssignment(s) \/ ReportError(s) \/ AwaitEnd(s) \/ Panic(s)
        PROVE  HearInv'
    <3>1. \E how \in {"failed", "reported", "completed", "crashed"} : Return(s, how)
      BY <2>4 DEF RecvNoAssignment, ReportError, AwaitEnd, Panic
    <3>2. QED BY <3>1, HearReturn DEF Returned
  <2>5. ASSUME NEW s \in Streams, Accept(s) \/ Listen(s) \/ Proceed(s) PROVE HearInv'
    BY <2>1, <2>2, <2>3, <2>4, <2>5, HearGoing, HearListening DEF Listen, Proceed
  <2>6. ASSUME NEW s \in Streams, \E how \in {"ok", "fail"} : Execute(s, how) PROVE HearInv'
    BY <2>6, HearGoing
  <2>7. QED BY <2>5, <2>6, HearOthers DEF Next
<1>3. QED BY <1>1, <1>2, PTL DEF Spec

-------------------------------------------------------------------------------
(* The job and what is on its way.                                         *)

ToRunner == {"assign", "cancel", "eof", "err"}
ToServer == {"ack", "nack", "complete", "error"}

\* What a step may do with the record: nothing that was recorded goes.
JobGrows ==
    /\ JL!TypeOK' /\ stale' \in [Streams -> BOOLEAN]
    /\ canceled[Job] => canceled'[Job]
    /\ Ended => Ended'
    /\ Recorded => Recorded'

LEMMA JobSteps ==
    ASSUME TypeOK,
           stale' \in [Streams -> BOOLEAN],
           \/ UNCHANGED record
           \/ JL!Queue(Job) \/ JL!Assign(Job) \/ JL!Accept(Job) \/ JL!Reject(Job)
           \/ JL!Succeed(Job) \/ JL!Fail(Job) \/ JL!RequestCancel(Job) \/ JL!Cancel(Job)
    PROVE  JobGrows
<1> USE DEF JobGrows, TypeOK, JL!TypeOK, JL!Completed, Ended, Recorded, Completed
<1>1. CASE UNCHANGED record
  BY <1>1 DEF record
<1>2. CASE JL!Queue(Job) \/ JL!Assign(Job) \/ JL!Accept(Job) \/ JL!Reject(Job) \/ JL!Succeed(Job)
  BY <1>2 DEF JL!Queue, JL!Assign, JL!Accept, JL!Reject, JL!Succeed, JL!Move
<1>3. CASE JL!Fail(Job)
  BY <1>3 DEF JL!Fail, JL!Move
<1>4. CASE JL!RequestCancel(Job)
  BY <1>4 DEF JL!RequestCancel
<1>5. CASE JL!Cancel(Job)
  BY <1>5 DEF JL!Cancel
<1>6. QED BY <1>1, <1>2, <1>3, <1>4, <1>5

LEMMA JobStays ==
    ASSUME TypeOK, UNCHANGED job
    PROVE  JobGrows
<1>1. UNCHANGED record /\ stale' \in [Streams -> BOOLEAN]
  BY DEF job, TypeOK
<1>2. QED BY <1>1, JobSteps

LEMMA JobWritten ==
    ASSUME TypeOK,
           \/ Write(JL!Queue(Job)) \/ Write(JL!Assign(Job)) \/ Write(JL!Reject(Job))
           \/ Write(JL!Succeed(Job)) \/ Write(JL!Fail(Job))
           \/ Write(JL!RequestCancel(Job)) \/ Write(JL!Cancel(Job))
    PROVE  JobGrows
<1>1. stale' \in [Streams -> BOOLEAN]
  BY DEF Write
<1>2. QED BY <1>1, JobSteps DEF Write

\* A step that has nothing to do with the stream t.
Unmoved(t) ==
    /\ toServer'[t] = toServer[t] /\ toRunner'[t] = toRunner[t] /\ broken'[t] = broken[t]
    /\ handler'[t] = handler[t] /\ reading'[t] = reading[t] /\ done'[t] = done[t]
    /\ errCh'[t] = errCh[t] /\ eventCh'[t] = eventCh[t] /\ jobCh'[t] = jobCh[t]
    /\ accept'[t] = accept[t] /\ outcome'[t] = outcome[t]
    /\ err'[t] = err[t] /\ over'[t] = over[t] /\ lastErr'[t] = lastErr[t]

LEMMA StreamKept ==
    ASSUME NEW t \in Streams, StreamInv(t), Unmoved(t), JobGrows
    PROVE  StreamInv(t)'
<1>1. \A m : Coming(t, m)' <=> Coming(t, m)
  BY DEF Unmoved, Coming
<1>2. Quiet(t)'
  BY DEF StreamInv, Unmoved, Quiet
<1>3. Opened(t)'
  BY DEF StreamInv, Unmoved, Opened
<1>4. Flows(t)'
  BY DEF StreamInv, Unmoved, Flows
<1>5. Talks(t)'
  BY DEF StreamInv, Unmoved, Talks, JobGrows
<1>6. Means(t)'
  BY <1>1 DEF StreamInv, Unmoved, Means, JobGrows
<1>7. QED BY <1>2, <1>3, <1>4, <1>5, <1>6 DEF StreamInv

\* What is sent to the runner arrives after what was sent before, or not.
LEMMA Sending ==
    ASSUME TypeOK, NEW s \in Streams, NEW msgs \in Seq(ToRunner), toRunner' = SentToRunner(s, msgs)
    PROVE  /\ toRunner' \in [Streams -> Seq(ToRunner)]
           /\ \A t \in Streams \ {s} : toRunner'[t] = toRunner[t]
           /\ \/ toRunner' = toRunner
              \/ /\ ~broken[s] /\ accept[s] \notin Returned
                 /\ toRunner'[s] = toRunner[s] \o msgs
           /\ \A m : Coming(s, m)' =>
                \/ Coming(s, m)
                \/ ~broken[s] /\ accept[s] \notin Returned /\ \E i \in 1 .. Len(msgs) : msgs[i] = m
<1>1. toRunner \in [Streams -> Seq(ToRunner)]
  BY DEF TypeOK, ToRunner
<1>2. CASE broken[s] \/ accept[s] \in Returned
  BY <1>1, <1>2 DEF SentToRunner, Coming
<1>3. CASE ~(broken[s] \/ accept[s] \in Returned)
  <2>1. PICK q : q = toRunner[s] /\ q \in Seq(ToRunner)
    BY <1>1
  <2>2. /\ q \o msgs \in Seq(ToRunner)
        /\ Len(q \o msgs) = Len(q) + Len(msgs)
        /\ \A i \in 1 .. Len(q) + Len(msgs) : (q \o msgs)[i] =
             IF i <= Len(q) THEN q[i] ELSE msgs[i - Len(q)]
    BY <2>1, ConcatProperties
  <2>3. toRunner' = [toRunner EXCEPT ![s] = q \o msgs]
    BY <1>3, <2>1 DEF SentToRunner
  <2>4. /\ toRunner' \in [Streams -> Seq(ToRunner)] /\ toRunner'[s] = q \o msgs
        /\ \A t \in Streams \ {s} : toRunner'[t] = toRunner[t]
    BY <1>1, <2>2, <2>3
  <2>5. ASSUME NEW m, Coming(s, m)'
        PROVE  Coming(s, m) \/ \E i \in 1 .. Len(msgs) : msgs[i] = m
    <3>1. PICK i \in 1 .. Len(q) + Len(msgs) : (q \o msgs)[i] = m
      BY <2>2, <2>4, <2>5 DEF Coming
    <3>2. Len(q) \in Nat /\ Len(msgs) \in Nat
      BY <2>1
    <3>3. CASE i <= Len(q)
      <4>1. i \in 1 .. Len(q) /\ q[i] = m
        BY <2>2, <3>1, <3>2, <3>3
      <4>2. QED BY <2>1, <4>1 DEF Coming
    <3>4. CASE ~(i <= Len(q))
      <4>1. i - Len(q) \in 1 .. Len(msgs) /\ msgs[i - Len(q)] = m
        BY <2>2, <3>1, <3>2, <3>4
      <4>2. QED BY <4>1
    <3>5. QED BY <3>3, <3>4
  <2>6. QED BY <1>3, <2>1, <2>4, <2>5
<1>4. QED BY <1>2, <1>3

\* A message that is received was coming, and what is left was too.
LEMMA Receiving ==
    ASSUME TypeOK, NEW s \in Streams
    PROVE  /\ toRunner[s] # <<>> =>
                /\ Coming(s, Head(toRunner[s])) /\ Head(toRunner[s]) \in ToRunner
                /\ Tail(toRunner[s]) \in Seq(ToRunner)
                /\ \A m : (\E i \in 1 .. Len(Tail(toRunner[s])) : Tail(toRunner[s])[i] = m) => Coming(s, m)
           /\ toServer[s] # <<>> =>
                Head(toServer[s]) \in ToServer /\ Tail(toServer[s]) \in Seq(ToServer)
<1>1. toRunner[s] \in Seq(ToRunner) /\ toServer[s] \in Seq(ToServer)
  BY DEF TypeOK, ToRunner, ToServer
<1>2. toServer[s] # <<>> => Head(toServer[s]) \in ToServer /\ Tail(toServer[s]) \in Seq(ToServer)
  BY <1>1
<1>3. ASSUME toRunner[s] # <<>>
      PROVE  /\ Coming(s, Head(toRunner[s])) /\ Head(toRunner[s]) \in ToRunner
             /\ Tail(toRunner[s]) \in Seq(ToRunner)
             /\ \A m : (\E i \in 1 .. Len(Tail(toRunner[s])) : Tail(toRunner[s])[i] = m) => Coming(s, m)
  <2>1. PICK q : q = toRunner[s] /\ q \in Seq(ToRunner) /\ q # <<>>
    BY <1>1, <1>3
  <2>2. /\ 1 \in 1 .. Len(q) /\ Head(q) = q[1] /\ Head(q) \in ToRunner
        /\ Tail(q) \in Seq(ToRunner) /\ Len(Tail(q)) = Len(q) - 1
        /\ \A i \in 1 .. Len(q) - 1 : Tail(q)[i] = q[i + 1]
    BY <2>1
  <2>3. ASSUME NEW m, NEW i \in 1 .. Len(Tail(q)), Tail(q)[i] = m
        PROVE  Coming(s, m)
    <3>1. i + 1 \in 1 .. Len(q) /\ q[i + 1] = m
      BY <2>1, <2>2, <2>3
    <3>2. QED BY <2>1, <3>1 DEF Coming
  <2>4. Coming(s, Head(q))
    BY <2>1, <2>2 DEF Coming
  <2>5. QED BY <2>1, <2>2, <2>3, <2>4
<1>4. QED BY <1>2, <1>3

\* A stream that breaks loses what was sent last.
LEMMA Cutting ==
    ASSUME NEW S, NEW q \in Seq(S), NEW n \in 0 .. Len(q)
    PROVE  /\ SubSeq(q, 1, n) \in Seq(S)
           /\ \A m : (\E i \in 1 .. Len(SubSeq(q, 1, n)) : SubSeq(q, 1, n)[i] = m) =>
                \E i \in 1 .. Len(q) : q[i] = m
           /\ q = <<>> => SubSeq(q, 1, n) = <<>>
           /\ \A a : q = <<a>> => SubSeq(q, 1, n) \in {<<>>, <<a>>}
           /\ \A a, b : q = <<a, b>> => SubSeq(q, 1, n) \in {<<>>, <<a>>, <<a, b>>}
<1>1. Len(q) \in Nat /\ n \in Nat /\ n <= Len(q)
  OBVIOUS
<1>2. /\ SubSeq(q, 1, n) \in Seq(S) /\ Len(SubSeq(q, 1, n)) = n
      /\ \A i \in 1 .. n : SubSeq(q, 1, n)[i] = q[i]
  BY <1>1
<1>3. \A m : (\E i \in 1 .. Len(SubSeq(q, 1, n)) : SubSeq(q, 1, n)[i] = m) =>
                \E i \in 1 .. Len(q) : q[i] = m
  BY <1>1, <1>2
<1>4. PICK p : p = SubSeq(q, 1, n) /\ p \in Seq(S) /\ Len(p) = n /\ \A i \in 1 .. n : p[i] = q[i]
  BY <1>2
<1>5. n = 0 => p = <<>>
  BY <1>4
<1>6. q = <<>> => p = <<>>
  BY <1>1, <1>5
<1>7. ASSUME NEW a, q = <<a>> PROVE p \in {<<>>, <<a>>}
  <2>1. Len(q) = 1 /\ q[1] = a
    BY <1>7
  <2>2. n = 0 \/ n = 1
    BY <1>1, <2>1
  <2>3. n = 1 => p = q
    BY <1>4, <2>1
  <2>4. QED BY <1>5, <1>7, <2>2, <2>3
<1>8. ASSUME NEW a, NEW b, q = <<a, b>> PROVE p \in {<<>>, <<a>>, <<a, b>>}
  <2>1. Len(q) = 2 /\ q[1] = a /\ q[2] = b
    BY <1>8
  <2>2. n = 0 \/ n = 1 \/ n = 2
    BY <1>1, <2>1
  <2>3. n = 1 => p = <<a>>
    <3>1. a \in S
      BY <2>1
    <3>2. <<a>> \in Seq(S) /\ Len(<<a>>) = 1 /\ <<a>>[1] = a
      BY <3>1
    <3>3. ASSUME n = 1 PROVE p = <<a>>
      <4>1. Len(p) = Len(<<a>>) /\ \A i \in 1 .. Len(p) : p[i] = <<a>>[i]
        BY <1>4, <2>1, <3>2, <3>3
      <4>2. QED BY <1>4, <3>2, <4>1, SeqEqual
    <3>4. QED BY <3>3
  <2>4. n = 2 => p = q
    BY <1>4, <2>1
  <2>5. QED BY <1>5, <1>8, <2>2, <2>3, <2>4
<1>9. QED BY <1>2, <1>3, <1>4, <1>6, <1>7, <1>8

\* A step of one stream leaves the others where they are.
LEMMA Frame ==
    ASSUME IInv, NEW s \in Streams, JobGrows, TypeOK', StreamInv(s)',
           \A t \in Streams \ {s} : Unmoved(t)
    PROVE  IInv'
<1>1. ASSUME NEW t \in Streams \ {s} PROVE StreamInv(t)'
  BY <1>1, StreamKept DEF IInv
<1>2. QED BY <1>1 DEF IInv

-------------------------------------------------------------------------------
(* The client and the timers.                                              *)

LEMMA ClientSteps ==
    ASSUME IInv,
           \/ QueueJob \/ OpenStream \/ ReceiveComplete \/ Interrupt \/ LeaveStream
           \/ JobExpire \/ AckTimeout \/ BeatTimeout
           \/ UNCHANGED vars
    PROVE  IInv'
<1>1. JobGrows
  <2>1. \/ UNCHANGED job
        \/ Write(JL!Queue(Job)) \/ Write(JL!Reject(Job))
        \/ Write(JL!RequestCancel(Job)) \/ Write(JL!Cancel(Job))
    BY DEF QueueJob, OpenStream, ReceiveComplete, Interrupt, LeaveStream, JobExpire, AckTimeout, BeatTimeout,
           JobCancel, Nack, vars
  <2>2. QED BY <2>1, JobStays, JobWritten DEF IInv
<1>2. UNCHANGED net /\ UNCHANGED server /\ UNCHANGED runner
  BY DEF QueueJob, OpenStream, ReceiveComplete, Interrupt, LeaveStream, JobExpire, AckTimeout, BeatTimeout, vars
<1>3. /\ client' \in {"idle", "queued", "watching", "left", "lost"} /\ interrupted' \in BOOLEAN
      /\ expiry' \in BOOLEAN /\ nacked' \in BOOLEAN /\ mishap' \in BOOLEAN
  BY DEF QueueJob, OpenStream, ReceiveComplete, Interrupt, LeaveStream, JobExpire, AckTimeout, BeatTimeout,
         Nack, vars, rest, IInv, TypeOK
<1>4. TypeOK'
  BY <1>1, <1>2, <1>3 DEF IInv, TypeOK, JobGrows, net, server, runner, listener
<1>5. ASSUME NEW t \in Streams PROVE StreamInv(t)'
  <2>1. Unmoved(t)
    BY <1>2 DEF Unmoved, net, server, runner, listener
  <2>2. QED BY <1>1, <2>1, StreamKept DEF IInv
<1>6. QED BY <1>4, <1>5 DEF IInv

-------------------------------------------------------------------------------
(* RunnerJobStream.                                                        *)

\* The handler returns.  A good end that reaches a runner at work says that
\* the job is recorded.
LEMMA Closing ==
    ASSUME IInv, NEW s \in Streams, NEW msgs \in Seq(ToRunner), Close(s, msgs),
           UNCHANGED runner, UNCHANGED <<client, interrupted, expiry, mishap>>, nacked' \in BOOLEAN, JobGrows,
           handler[s] \notin {"idle", "closed"},
           accept[s] = "waiting" => broken[s],
           \A i \in 1 .. Len(msgs) : msgs[i] \in {"err", "eof", "cancel"},
           ~broken[s] /\ accept[s] \notin Returned =>
             \A i \in 1 .. Len(msgs) :
               (msgs[i] = "eof" => Recorded) /\ (msgs[i] = "cancel" => canceled[Job])
    PROVE  IInv'
<1>1. TypeOK /\ StreamInv(s)
  BY DEF IInv
<1>2. toRunner' = SentToRunner(s, msgs) /\ toServer' = toServer /\ broken' = broken
  BY DEF Close
<1>3. /\ toRunner' \in [Streams -> Seq(ToRunner)]
      /\ \A t \in Streams \ {s} : toRunner'[t] = toRunner[t]
      /\ broken[s] \/ accept[s] \in Returned => toRunner' = toRunner
      /\ Coming(s, "eof")' => Coming(s, "eof") \/ Recorded
      /\ Coming(s, "cancel")' => Coming(s, "cancel") \/ canceled[Job]
  <2>1. /\ toRunner' \in [Streams -> Seq(ToRunner)]
        /\ \A t \in Streams \ {s} : toRunner'[t] = toRunner[t]
        /\ \A m : Coming(s, m)' =>
             \/ Coming(s, m)
             \/ ~broken[s] /\ accept[s] \notin Returned /\ \E i \in 1 .. Len(msgs) : msgs[i] = m
    BY <1>1, <1>2, Sending
  <2>2. broken[s] \/ accept[s] \in Returned => toRunner' = toRunner
    BY <1>2 DEF SentToRunner
  <2>3. ASSUME Coming(s, "eof")' PROVE Coming(s, "eof") \/ Recorded
    BY <2>1, <2>3
  <2>4. ASSUME Coming(s, "cancel")' PROVE Coming(s, "cancel") \/ canceled[Job]
    BY <2>1, <2>4
  <2>5. QED BY <2>1, <2>2, <2>3, <2>4
<1>4. /\ handler'[s] = "closed" /\ ~reading'[s] /\ ~errCh'[s] /\ eventCh'[s] = "none"
      /\ jobCh'[s] = "none" /\ accept'[s] = accept[s]
      /\ lastErr'[s] = lastErr[s] /\ err'[s] = err[s] /\ outcome'[s] = outcome[s]
  BY <1>1 DEF Close, runner, listener, TypeOK
<1>5. TypeOK'
  BY <1>1, <1>2, <1>3 DEF Close, runner, listener, TypeOK, JobGrows, ToRunner
<1>6. Quiet(s)' /\ Flows(s)' /\ Talks(s)'
  BY <1>4 DEF Quiet, Flows, Talks
<1>7. Opened(s)'
  <2>1. accept[s] # "idle"
    BY <1>1 DEF StreamInv, Opened
  <2>2. accept[s] = "waiting" => toRunner'[s] = toRunner[s]
    BY <1>3
  <2>3. QED BY <1>1, <1>2, <1>4, <2>1, <2>2 DEF StreamInv, Opened
<1>8. Means(s)'
  BY <1>1, <1>3, <1>4 DEF StreamInv, Means, JobGrows
<1>9. \A t \in Streams \ {s} : Unmoved(t)
  BY <1>1, <1>2, <1>3 DEF Close, runner, listener, TypeOK, Unmoved
<1>10. QED BY <1>5, <1>6, <1>7, <1>8, <1>9, Frame DEF StreamInv

\* The messages that a handler ends with.
LEMMA Farewells ==
    /\ <<"err">> \in Seq(ToRunner) /\ Len(<<"err">>) = 1 /\ <<"err">>[1] = "err"
    /\ <<"eof">> \in Seq(ToRunner) /\ Len(<<"eof">>) = 1 /\ <<"eof">>[1] = "eof"
    /\ <<"cancel">> \in Seq(ToRunner) /\ Len(<<"cancel">>) = 1 /\ <<"cancel">>[1] = "cancel"
    /\ <<"assign">> \in Seq(ToRunner) /\ Len(<<"assign">>) = 1 /\ <<"assign">>[1] = "assign"
    /\ <<"cancel", "eof">> \in Seq(ToRunner) /\ Len(<<"cancel", "eof">>) = 2
    /\ <<"cancel", "eof">>[1] = "cancel" /\ <<"cancel", "eof">>[2] = "eof"
BY DEF ToRunner

\* What a runner at work has sent begins with its ack.
LEMMA Greetings ==
    /\ <<"ack">> # <<>> /\ Head(<<"ack">>) = "ack" /\ Tail(<<"ack">>) = <<>>
    /\ <<"nack">> # <<>> /\ Head(<<"nack">>) = "nack"
    /\ <<"ack", "complete">> # <<>> /\ Head(<<"ack", "complete">>) = "ack"
    /\ Tail(<<"ack", "complete">>) = <<"complete">>
    /\ <<"ack", "error">> # <<>> /\ Head(<<"ack", "error">>) = "ack"
    /\ Tail(<<"ack", "error">>) = <<"error">>
    /\ <<"complete">> # <<>> /\ Head(<<"complete">>) = "complete" /\ Tail(<<"complete">>) = <<>>
    /\ <<"error">> # <<>> /\ Head(<<"error">>) = "error" /\ Tail(<<"error">>) = <<>>
OBVIOUS

\* The steps that end the handler.
LEMMA EndingSteps ==
    ASSUME IInv, NEW s \in Streams,
           \/ GiveUp(s) \/ RecvAckLate(s) \/ RecvNoAck(s) \/ HandleEventFails(s)
           \/ HandleDone(s) \/ HandleErr(s) \/ HandleForce(s)
    PROVE  IInv'
<1>1. TypeOK /\ Quiet(s) /\ Opened(s) /\ Flows(s) /\ Talks(s) /\ Means(s)
  BY DEF IInv, StreamInv
<1>2. /\ JobGrows /\ UNCHANGED runner /\ UNCHANGED <<client, interrupted, expiry, mishap>> /\ nacked' \in BOOLEAN
      /\ handler[s] \notin {"idle", "closed"}
  <2>1. \/ UNCHANGED record /\ stale' = [stale EXCEPT ![s] = FALSE]
        \/ UNCHANGED job
        \/ Write(JL!Reject(Job))
    BY DEF GiveUp, RecvAckLate, RecvNoAck, HandleEventFails, HandleDone, HandleErr, HandleForce, Nack, Finish
  <2>2. JobGrows
    <3>1. CASE UNCHANGED record /\ stale' = [stale EXCEPT ![s] = FALSE]
      BY <1>1, <3>1, JobSteps DEF TypeOK
    <3>2. QED BY <1>1, <2>1, <3>1, JobStays, JobWritten
  <2>3. UNCHANGED runner /\ UNCHANGED <<client, interrupted, expiry, mishap>> /\ nacked' \in BOOLEAN
    BY <1>1 DEF GiveUp, RecvAckLate, RecvNoAck, HandleEventFails, HandleDone, HandleErr, HandleForce,
                Nack, Finish, rest, TypeOK
  <2>4. handler[s] \notin {"idle", "closed"}
    BY DEF GiveUp, RecvAckLate, RecvNoAck, HandleEventFails, HandleDone, HandleErr, HandleForce
  <2>5. QED BY <2>2, <2>3, <2>4
<1>3. ASSUME Close(s, <<"err">>), accept[s] = "waiting" => broken[s]
      PROVE  IInv'
  <2>1. \A i \in 1 .. Len(<<"err">>) : <<"err">>[i] = "err"
    BY Farewells
  <2>2. QED BY <1>2, <1>3, <2>1, Farewells, Closing
<1>4. ASSUME Close(s, <<"eof">>), accept[s] = "waiting" => broken[s],
             ~broken[s] /\ accept[s] \notin Returned => Recorded
      PROVE  IInv'
  <2>1. \A i \in 1 .. Len(<<"eof">>) : <<"eof">>[i] = "eof"
    BY Farewells
  <2>2. QED BY <1>2, <1>4, <2>1, Farewells, Closing
<1>5. CASE GiveUp(s) \/ RecvAckLate(s) \/ HandleEventFails(s) \/ HandleErr(s)
  <2>1. Close(s, <<"err">>)
    BY <1>5 DEF GiveUp, RecvAckLate, HandleEventFails, HandleErr, Finish
  <2>2. accept[s] = "waiting" => broken[s]
    BY <1>1, <1>5 DEF GiveUp, RecvAckLate, HandleEventFails, HandleErr, Opened
  <2>3. QED BY <1>3, <2>1, <2>2
<1>6. CASE RecvNoAck(s)
  <2>1. accept[s] = "waiting" => broken[s]
    BY <1>1, <1>6 DEF RecvNoAck, Opened, HalfClosed, Returned
  <2>2. ~broken[s] /\ accept[s] \notin Returned => FALSE
    <3>1. SUFFICES ASSUME ~broken[s], accept[s] \notin Returned PROVE FALSE
      OBVIOUS
    <3>2. handler[s] = "sent"
      BY <1>6 DEF RecvNoAck
    <3>3. accept[s] \notin {"idle", "waiting"}
      BY <1>1, <2>1, <3>1, <3>2 DEF Opened
    <3>4. accept[s] \in Working
      BY <1>1, <3>1, <3>3 DEF TypeOK
    <3>5. toServer[s] = <<"ack">> \/ toServer[s] = <<"ack", "complete">>
      BY <1>1, <3>1, <3>2, <3>4 DEF Talks, Working
    <3>6. toServer[s] # <<>> /\ Head(toServer[s]) = "ack"
      BY <3>5, Greetings
    <3>7. QED BY <1>6, <3>1, <3>6 DEF RecvNoAck
  <2>3. Close(s, <<"eof">>) \/ Close(s, <<"err">>)
    BY <1>6 DEF RecvNoAck
  <2>4. QED BY <1>3, <1>4, <2>1, <2>2, <2>3
<1>7. CASE HandleDone(s)
  <2>1. Close(s, <<"eof">>) /\ handler[s] = "serving" /\ done[s] /\ eventCh[s] = "none"
    BY <1>7 DEF HandleDone, Finish
  <2>2. accept[s] = "waiting" => broken[s]
    BY <1>1, <2>1 DEF Opened
  <2>3. ASSUME ~broken[s], accept[s] \notin Returned PROVE Recorded
    <3>1. accept[s] \in Working
      BY <1>1, <2>1, <2>2, <2>3 DEF Opened, TypeOK
    <3>2. QED BY <1>1, <2>1, <2>3, <3>1 DEF Talks, Working
  <2>4. QED BY <1>4, <2>1, <2>2, <2>3
<1>8. CASE HandleForce(s)
  <2>1. Close(s, <<"cancel", "eof">>) /\ handler[s] = "serving" /\ jobCh[s] = "force"
    BY <1>8 DEF HandleForce, Finish
  <2>2. accept[s] = "waiting" => broken[s]
    BY <1>1, <2>1 DEF Opened
  <2>3. canceled[Job] /\ Recorded
    BY <1>1, <2>1 DEF Means, Recorded
  <2>4. \A i \in 1 .. Len(<<"cancel", "eof">>) : <<"cancel", "eof">>[i] \in {"err", "eof", "cancel"}
    BY Farewells
  <2>5. QED BY <1>2, <2>1, <2>2, <2>3, <2>4, Farewells, Closing
<1>9. QED BY <1>5, <1>6, <1>7, <1>8

LEMMA AssignStep ==
    ASSUME IInv, NEW s \in Streams, Assign(s)
    PROVE  IInv'
<1>1. TypeOK /\ Quiet(s) /\ Opened(s) /\ Flows(s) /\ Talks(s) /\ Means(s)
  BY DEF IInv, StreamInv
<1>2. JobGrows
  BY <1>1, JobWritten DEF Assign
<1>3. /\ toRunner' \in [Streams -> Seq(ToRunner)]
      /\ \A t \in Streams \ {s} : toRunner'[t] = toRunner[t]
      /\ toRunner' = toRunner \/ toRunner'[s] = toRunner[s] \o <<"assign">>
      /\ \A m : Coming(s, m)' => Coming(s, m) \/ \E i \in 1 .. Len(<<"assign">>) : <<"assign">>[i] = m
  <2>1. toRunner' = SentToRunner(s, <<"assign">>) /\ <<"assign">> \in Seq(ToRunner)
    BY Farewells DEF Assign
  <2>2. /\ toRunner' \in [Streams -> Seq(ToRunner)]
        /\ \A t \in Streams \ {s} : toRunner'[t] = toRunner[t]
        /\ \/ toRunner' = toRunner
           \/ /\ ~broken[s] /\ accept[s] \notin Returned
              /\ toRunner'[s] = toRunner[s] \o <<"assign">>
        /\ \A m : Coming(s, m)' =>
             \/ Coming(s, m)
             \/ /\ ~broken[s] /\ accept[s] \notin Returned
                /\ \E i \in 1 .. Len(<<"assign">>) : <<"assign">>[i] = m
    BY <1>1, <2>1, Sending
  <2>3. QED BY <2>2
<1>4. ~Coming(s, "eof")' /\ ~Coming(s, "cancel")'
  <2>1. toRunner[s] = <<>>
    BY <1>1 DEF Assign, Opened
  <2>2. \A m : ~Coming(s, m)
    BY <2>1 DEF Coming
  <2>3. \A i \in 1 .. Len(<<"assign">>) : <<"assign">>[i] = "assign"
    BY Farewells
  <2>4. QED BY <1>3, <2>2, <2>3
<1>5. toRunner'[s] \in {<<>>, <<"assign">>}
  <2>1. toRunner[s] = <<>>
    BY <1>1 DEF Assign, Opened
  <2>2. <<>> \o <<"assign">> = <<"assign">>
    BY Farewells, ConcatEmptySeq
  <2>3. QED BY <1>3, <2>1, <2>2
<1>6. /\ handler[s] = "asking" /\ handler' = [handler EXCEPT ![s] = "sent"]
      /\ UNCHANGED <<toServer, broken, reading, done, errCh, eventCh, jobCh, runner, rest>>
  BY DEF Assign
<1>7. TypeOK'
  BY <1>1, <1>2, <1>3, <1>6 DEF TypeOK, JobGrows, runner, listener, rest, ToRunner
<1>8. Quiet(s)' /\ Flows(s)' /\ Opened(s)'
  BY <1>1, <1>5, <1>6 DEF TypeOK, Quiet, Flows, Opened, runner, listener
<1>9. Talks(s)' /\ Means(s)'
  <2>1. accept[s] \in {"idle", "waiting", "failed"}
    BY <1>1, <1>6 DEF Opened
  <2>2. accept'[s] = accept[s] /\ err'[s] = err[s] /\ lastErr'[s] = lastErr[s] /\ jobCh'[s] = jobCh[s]
    BY <1>6 DEF runner, listener
  <2>3. Talks(s)'
    BY <2>1, <2>2 DEF Talks
  <2>4. QED BY <1>1, <1>2, <1>4, <2>1, <2>2, <2>3 DEF Means, JobGrows
<1>10. \A t \in Streams \ {s} : Unmoved(t)
  BY <1>1, <1>3, <1>6 DEF TypeOK, Unmoved, runner, listener
<1>11. QED BY <1>2, <1>7, <1>8, <1>9, <1>10, Frame DEF StreamInv

LEMMA AckStep ==
    ASSUME IInv, NEW s \in Streams, RecvAck(s)
    PROVE  IInv'
<1>1. TypeOK /\ Quiet(s) /\ Opened(s) /\ Flows(s) /\ Talks(s) /\ Means(s)
  BY DEF IInv, StreamInv
<1>2. JobGrows
  <2>1. stale' \in [Streams -> BOOLEAN]
    BY <1>1 DEF RecvAck, TypeOK
  <2>2. QED BY <1>1, <2>1, JobSteps DEF RecvAck
<1>3. /\ handler[s] = "sent" /\ toServer[s] # <<>> /\ Head(toServer[s]) = "ack"
      /\ toServer' = [toServer EXCEPT ![s] = Tail(@)]
      /\ handler' = [handler EXCEPT ![s] = "serving"] /\ reading' = [reading EXCEPT ![s] = TRUE]
      /\ UNCHANGED <<toRunner, broken, done, errCh, eventCh, jobCh, runner, rest>>
  BY DEF RecvAck
<1>4. /\ Tail(toServer[s]) \in Seq(ToServer) /\ Tail(toServer[s]) \in {<<>>, <<"complete">>, <<"error">>}
      /\ toServer[s] = <<"ack">> => Tail(toServer[s]) = <<>>
      /\ toServer[s] = <<"ack", "complete">> => Tail(toServer[s]) = <<"complete">>
  BY <1>1, <1>3, Receiving, Greetings DEF Flows
<1>5. /\ toServer'[s] = Tail(toServer[s]) /\ handler'[s] = "serving" /\ reading'[s]
      /\ \A t \in Streams \ {s} : Unmoved(t)
  BY <1>1, <1>3 DEF TypeOK, Unmoved, runner, listener
<1>6. TypeOK'
  BY <1>1, <1>2, <1>3, <1>4 DEF TypeOK, JobGrows, runner, listener, rest, ToServer
<1>7. Quiet(s)' /\ Flows(s)' /\ Opened(s)'
  <2>1. accept[s] \notin {"idle", "waiting"}
    BY <1>1, <1>3 DEF Opened
  <2>2. QED BY <1>4, <1>5, <2>1, <1>3 DEF Quiet, Flows, Opened, runner, listener
<1>8. Talks(s)'
  <2>1. eventCh[s] = "none"
    BY <1>1, <1>3 DEF Quiet
  <2>2. ~broken[s] /\ accept[s] \in Working => ~done[s]
    BY <1>1, <1>3 DEF Quiet
  <2>3. QED BY <1>1, <1>3, <1>4, <1>5, <2>1, <2>2 DEF Talks, runner, Working
<1>9. Means(s)'
  BY <1>1, <1>2, <1>3 DEF Means, JobGrows, runner, listener, Coming
<1>10. QED BY <1>2, <1>5, <1>6, <1>7, <1>8, <1>9, Frame DEF StreamInv

LEMMA WatchStep ==
    ASSUME IInv, NEW s \in Streams, Watch(s)
    PROVE  IInv'
<1>1. TypeOK /\ Quiet(s) /\ Opened(s) /\ Flows(s) /\ Talks(s) /\ Means(s)
  BY DEF IInv, StreamInv
<1>2. JobGrows
  <2>1. UNCHANGED record /\ stale' \in [Streams -> BOOLEAN]
    BY <1>1 DEF Watch, TypeOK
  <2>2. QED BY <1>1, <2>1, JobSteps
<1>3. /\ handler[s] = "serving"
      /\ jobCh' = [jobCh EXCEPT ![s] = Version]
      /\ UNCHANGED <<record, net, handler, reading, done, errCh, eventCh, runner, rest>>
  BY DEF Watch
<1>4. /\ Version \in {"live", "cancel", "force"}
      /\ Version \in {"cancel", "force"} => canceled[Job]
      /\ Version = "force" => Ended
  BY <1>1 DEF Version, TypeOK, JL!TypeOK, JL!Completed, Ended, Completed
<1>5. TypeOK'
  BY <1>1, <1>2, <1>3, <1>4 DEF TypeOK, JobGrows, net, runner, listener, rest
<1>6. jobCh'[s] = Version /\ \A t \in Streams \ {s} : Unmoved(t)
  BY <1>1, <1>3 DEF TypeOK, Unmoved, net, runner, listener
<1>7. Quiet(s)' /\ Flows(s)' /\ Opened(s)'
  BY <1>1, <1>3 DEF Quiet, Flows, Opened, net, runner, listener
<1>8. Talks(s)'
  BY <1>1, <1>2, <1>3 DEF Talks, net, runner, JobGrows
<1>9. Means(s)'
  <2>1. \A m : Coming(s, m)' <=> Coming(s, m)
    BY <1>3 DEF Coming, net
  <2>2. QED BY <1>1, <1>2, <1>3, <1>4, <1>6, <2>1 DEF Means, JobGrows, runner, listener
<1>10. QED BY <1>2, <1>5, <1>6, <1>7, <1>8, <1>9, Frame DEF StreamInv

LEMMA ReceiveStep ==
    ASSUME IInv, NEW s \in Streams, Receive(s)
    PROVE  IInv'
<1>1. TypeOK /\ Quiet(s) /\ Opened(s) /\ Flows(s) /\ Talks(s) /\ Means(s)
  BY DEF IInv, StreamInv
<1>2. JobGrows
  BY <1>1, JobStays DEF Receive, RecvEvent, RecvEnd
<1>3. /\ handler[s] = "serving" /\ reading[s]
      /\ reading' = [reading EXCEPT ![s] = FALSE] /\ done' = [done EXCEPT ![s] = TRUE]
      /\ UNCHANGED <<job, toRunner, broken, handler, jobCh, runner, rest>>
  BY DEF Receive, RecvEvent, RecvEnd, net
<1>4. \/ /\ toServer[s] \in {<<"complete">>, <<"error">>} /\ UNCHANGED errCh
         /\ toServer' = [toServer EXCEPT ![s] = <<>>]
         /\ \/ /\ eventCh' = [eventCh EXCEPT ![s] = Head(toServer[s])]
               /\ Head(toServer[s]) \in {"complete", "error"}
               /\ toServer[s] = <<"complete">> => Head(toServer[s]) = "complete"
            \/ done[s] /\ UNCHANGED eventCh
      \/ /\ toServer[s] = <<>> /\ UNCHANGED <<toServer, eventCh>>
         /\ errCh' = [errCh EXCEPT ![s] = broken[s]]
         /\ broken[s] \/ accept[s] \in Returned
  <2>1. toServer[s] \in {<<>>, <<"complete">>, <<"error">>}
    BY <1>1, <1>3 DEF Flows
  <2>2. CASE RecvEvent(s)
    <3>1. toServer[s] # <<>> /\ toServer' = [toServer EXCEPT ![s] = Tail(@)] /\ UNCHANGED errCh
      BY <2>2 DEF RecvEvent
    <3>2. /\ Tail(toServer[s]) = <<>> /\ Head(toServer[s]) \in {"complete", "error"}
          /\ toServer[s] = <<"complete">> => Head(toServer[s]) = "complete"
      BY <2>1, <3>1, Greetings
    <3>3. QED BY <2>1, <2>2, <3>1, <3>2 DEF RecvEvent
  <2>3. CASE RecvEnd(s)
    BY <2>3 DEF RecvEnd, HalfClosed, net
  <2>4. QED BY <2>2, <2>3 DEF Receive
<1>5. /\ toServer' \in [Streams -> Seq(ToServer)] /\ toServer'[s] = <<>>
      /\ eventCh' \in [Streams -> {"none", "complete", "error"}] /\ errCh' \in [Streams -> BOOLEAN]
      /\ ~reading'[s] /\ done'[s]
      /\ \A t \in Streams \ {s} : Unmoved(t)
  <2>1. toServer' = [toServer EXCEPT ![s] = <<>>] \/ (toServer' = toServer /\ toServer[s] = <<>>)
    BY <1>4
  <2>2. /\ toServer' \in [Streams -> Seq(ToServer)] /\ toServer'[s] = <<>>
        /\ \A t \in Streams \ {s} : toServer'[t] = toServer[t]
    <3>1. toServer \in [Streams -> Seq(ToServer)] /\ <<>> \in Seq(ToServer)
      BY <1>1 DEF TypeOK, ToServer
    <3>2. CASE toServer' = [toServer EXCEPT ![s] = <<>>]
      BY <3>1, <3>2
    <3>3. CASE toServer' = toServer /\ toServer[s] = <<>>
      BY <3>1, <3>3
    <3>4. QED BY <2>1, <3>2, <3>3
  <2>3. /\ eventCh' \in [Streams -> {"none", "complete", "error"}]
        /\ \A t \in Streams \ {s} : eventCh'[t] = eventCh[t]
    <3>1. \/ UNCHANGED eventCh
          \/ /\ eventCh' = [eventCh EXCEPT ![s] = Head(toServer[s])]
             /\ Head(toServer[s]) \in {"complete", "error"}
      BY <1>4
    <3>2. eventCh \in [Streams -> {"none", "complete", "error"}]
      BY <1>1 DEF TypeOK
    <3>3. PICK e \in {"none", "complete", "error"} : eventCh' = [eventCh EXCEPT ![s] = e]
      <4>1. CASE UNCHANGED eventCh
        <5>1. eventCh[s] \in {"none", "complete", "error"} /\ eventCh' = [eventCh EXCEPT ![s] = eventCh[s]]
          BY <3>2, <4>1
        <5>2. QED BY <5>1
      <4>2. CASE ~UNCHANGED eventCh
        BY <3>1, <4>2
      <4>3. QED BY <4>1, <4>2
    <3>4. QED BY <3>2, <3>3
  <2>4. /\ errCh' \in [Streams -> BOOLEAN]
        /\ \A t \in Streams \ {s} : errCh'[t] = errCh[t]
    <3>1. UNCHANGED errCh \/ errCh' = [errCh EXCEPT ![s] = broken[s]]
      BY <1>4
    <3>2. errCh \in [Streams -> BOOLEAN] /\ broken[s] \in BOOLEAN
      BY <1>1 DEF TypeOK
    <3>3. CASE UNCHANGED errCh
      BY <3>2, <3>3
    <3>4. CASE errCh' = [errCh EXCEPT ![s] = broken[s]]
      BY <3>2, <3>4
    <3>5. QED BY <3>1, <3>3, <3>4
  <2>5. ~reading'[s] /\ done'[s] /\ \A t \in Streams \ {s} : reading'[t] = reading[t] /\ done'[t] = done[t]
    BY <1>1, <1>3 DEF TypeOK
  <2>6. QED BY <1>3, <2>2, <2>3, <2>4, <2>5 DEF Unmoved, runner, listener
<1>6. TypeOK'
  BY <1>1, <1>2, <1>3, <1>5 DEF TypeOK, JobGrows, runner, listener, rest, ToServer
<1>7. Quiet(s)' /\ Flows(s)' /\ Opened(s)'
  <2>1. accept[s] # "waiting" \/ broken[s]
    BY <1>1, <1>3 DEF Opened
  <2>2. QED BY <1>1, <1>3, <1>5, <2>1 DEF Quiet, Flows, Opened, runner, listener
<1>8. Talks(s)'
  <2>1. SUFFICES ASSUME ~broken[s], accept[s] \in Working PROVE Talks(s)'
    BY <1>3 DEF Talks, runner, Working
  <2>2. /\ toServer[s] = <<"complete">> /\ accept[s] = "awaiting" /\ ~done[s] /\ eventCh[s] = "none"
    <3>1. accept[s] \notin Returned
      BY <2>1 DEF Working, Returned
    <3>2. toServer[s] # <<>>
      BY <1>4, <2>1, <3>1, Greetings
    <3>3. QED BY <1>1, <1>3, <2>1, <3>2 DEF Talks, Working
  <2>3. eventCh'[s] = "complete"
    BY <1>1, <1>4, <2>2, Greetings DEF TypeOK
  <2>4. QED BY <1>3, <1>5, <2>2, <2>3 DEF Talks, runner
<1>9. Means(s)'
  <2>1. \A m : Coming(s, m)' <=> Coming(s, m)
    BY <1>3 DEF Coming
  <2>2. QED BY <1>1, <1>2, <1>3, <2>1 DEF Means, JobGrows, runner, listener
<1>10. QED BY <1>2, <1>5, <1>6, <1>7, <1>8, <1>9, Frame DEF StreamInv

LEMMA EventStep ==
    ASSUME IInv, NEW s \in Streams, HandleEvent(s)
    PROVE  IInv'
<1>1. TypeOK /\ Quiet(s) /\ Opened(s) /\ Flows(s) /\ Talks(s) /\ Means(s)
  BY DEF IInv, StreamInv
<1>2. JobGrows
  BY <1>1, JobWritten DEF HandleEvent
<1>3. /\ handler[s] = "serving" /\ eventCh[s] # "none" /\ eventCh' = [eventCh EXCEPT ![s] = "none"]
      /\ UNCHANGED <<net, handler, reading, done, errCh, jobCh, runner, rest>>
  BY DEF HandleEvent
<1>4. eventCh[s] = "complete" => Recorded'
  BY <1>1 DEF HandleEvent, Write, JL!Succeed, JL!Move, Recorded, Ended, Completed, TypeOK, JL!TypeOK
<1>5. eventCh'[s] = "none" /\ \A t \in Streams \ {s} : Unmoved(t)
  BY <1>1, <1>3 DEF TypeOK, Unmoved, net, runner, listener
<1>6. TypeOK'
  BY <1>1, <1>2, <1>3 DEF TypeOK, JobGrows, net, runner, listener, rest
<1>7. Quiet(s)' /\ Flows(s)' /\ Opened(s)'
  BY <1>1, <1>3 DEF Quiet, Flows, Opened, net, runner, listener
<1>8. Talks(s)'
  BY <1>1, <1>3, <1>4, <1>5 DEF Talks, net, runner
<1>9. Means(s)'
  <2>1. \A m : Coming(s, m)' <=> Coming(s, m)
    BY <1>3 DEF Coming, net
  <2>2. QED BY <1>1, <1>2, <1>3, <2>1 DEF Means, JobGrows, runner, listener
<1>10. QED BY <1>2, <1>5, <1>6, <1>7, <1>8, <1>9, Frame DEF StreamInv

LEMMA JobChannelStep ==
    ASSUME IInv, NEW s \in Streams, HandleJob(s)
    PROVE  IInv'
<1>1. TypeOK /\ Quiet(s) /\ Opened(s) /\ Flows(s) /\ Talks(s) /\ Means(s)
  BY DEF IInv, StreamInv
<1>2. JobGrows
  BY <1>1, JobStays DEF HandleJob
<1>3. /\ handler[s] = "serving" /\ jobCh' = [jobCh EXCEPT ![s] = "none"]
      /\ UNCHANGED <<job, toServer, broken, handler, reading, done, errCh, eventCh, runner, rest>>
  BY DEF HandleJob
<1>4. /\ toRunner' \in [Streams -> Seq(ToRunner)]
      /\ \A t \in Streams \ {s} : toRunner'[t] = toRunner[t]
      /\ Coming(s, "eof")' => Coming(s, "eof")
      /\ Coming(s, "cancel")' => canceled[Job]
      /\ broken[s] => toRunner' = toRunner
  <2>1. CASE toRunner' = toRunner
    BY <1>1, <2>1 DEF Coming, Means, TypeOK, ToRunner
  <2>2. CASE jobCh[s] = "cancel" /\ toRunner' = SentToRunner(s, <<"cancel">>)
    <3>1. canceled[Job]
      BY <1>1, <2>2 DEF Means
    <3>2. /\ toRunner' \in [Streams -> Seq(ToRunner)]
          /\ \A t \in Streams \ {s} : toRunner'[t] = toRunner[t]
          /\ \A m : Coming(s, m)' =>
               \/ Coming(s, m)
               \/ /\ ~broken[s] /\ accept[s] \notin Returned
                  /\ \E i \in 1 .. Len(<<"cancel">>) : <<"cancel">>[i] = m
      BY <1>1, <2>2, Sending, Farewells
    <3>3. \A i \in 1 .. Len(<<"cancel">>) : <<"cancel">>[i] = "cancel"
      BY Farewells
    <3>4. broken[s] => toRunner' = toRunner
      BY <2>2 DEF SentToRunner
    <3>5. QED BY <3>1, <3>2, <3>3, <3>4
  <2>3. QED BY <2>1, <2>2 DEF HandleJob
<1>5. TypeOK'
  BY <1>1, <1>2, <1>3, <1>4 DEF TypeOK, JobGrows, runner, listener, rest, ToRunner
<1>6. jobCh'[s] = "none" /\ \A t \in Streams \ {s} : Unmoved(t)
  BY <1>1, <1>3, <1>4 DEF TypeOK, Unmoved, runner, listener
<1>7. Quiet(s)' /\ Flows(s)' /\ Opened(s)'
  BY <1>1, <1>3, <1>4 DEF Quiet, Flows, Opened, runner, listener
<1>8. Talks(s)'
  BY <1>1, <1>2, <1>3 DEF Talks, runner, JobGrows
<1>9. Means(s)'
  BY <1>1, <1>2, <1>3, <1>4, <1>6 DEF Means, JobGrows, runner, listener
<1>10. QED BY <1>2, <1>5, <1>6, <1>7, <1>8, <1>9, Frame DEF StreamInv

\* A break loses messages, and makes none.
LEMMA BreakStep ==
    ASSUME IInv, NEW s \in Streams, Break(s)
    PROVE  IInv'
<1>1. TypeOK /\ Quiet(s) /\ Opened(s) /\ Flows(s) /\ Talks(s) /\ Means(s)
  BY DEF IInv, StreamInv
<1>2. JobGrows
  BY <1>1, JobStays DEF Break
<1>3. /\ handler[s] # "idle"
      /\ broken' = [broken EXCEPT ![s] = TRUE] /\ done' = [done EXCEPT ![s] = TRUE] /\ mishap' = TRUE
      /\ UNCHANGED <<job, handler, reading, errCh, eventCh, jobCh, runner, client, interrupted, expiry, nacked>>
  BY DEF Break
<1>4. toServer[s] \in Seq(ToServer) /\ toRunner[s] \in Seq(ToRunner)
  BY <1>1 DEF TypeOK, ToServer, ToRunner
<1>5. PICK k \in 0 .. Len(toServer[s]) : toServer' = [toServer EXCEPT ![s] = SubSeq(@, 1, k)]
  BY DEF Break
<1>6. PICK n \in 0 .. Len(toRunner[s]) : toRunner' = [toRunner EXCEPT ![s] = SubSeq(@, 1, n)]
  BY DEF Break
<1>7. PICK p : p = SubSeq(toServer[s], 1, k)
  OBVIOUS
<1>8. PICK q : q = SubSeq(toRunner[s], 1, n)
  OBVIOUS
<1>9. /\ p \in Seq(ToServer)
      /\ toServer[s] = <<>> => p = <<>>
      /\ \A a : toServer[s] = <<a>> => p \in {<<>>, <<a>>}
      /\ \A a, b : toServer[s] = <<a, b>> => p \in {<<>>, <<a>>, <<a, b>>}
  BY <1>4, <1>7, Cutting
<1>10. /\ q \in Seq(ToRunner)
       /\ \A m : (\E i \in 1 .. Len(q) : q[i] = m) => \E i \in 1 .. Len(toRunner[s]) : toRunner[s][i] = m
       /\ toRunner[s] = <<>> => q = <<>>
       /\ \A a : toRunner[s] = <<a>> => q \in {<<>>, <<a>>}
  <2>1. PICK r : r = toRunner[s] /\ r \in Seq(ToRunner) /\ n \in 0 .. Len(r)
    BY <1>4
  <2>2. /\ SubSeq(r, 1, n) \in Seq(ToRunner)
        /\ \A m : (\E i \in 1 .. Len(SubSeq(r, 1, n)) : SubSeq(r, 1, n)[i] = m) =>
             \E i \in 1 .. Len(r) : r[i] = m
        /\ r = <<>> => SubSeq(r, 1, n) = <<>>
        /\ \A a : r = <<a>> => SubSeq(r, 1, n) \in {<<>>, <<a>>}
    <3>1. r \in Seq(ToRunner) /\ n \in 0 .. Len(r)
      BY <2>1
    <3>2. QED BY <3>1, Cutting
  <2>3. q = SubSeq(r, 1, n)
    BY <1>8, <2>1
  <2>4. QED BY <2>1, <2>2, <2>3
<1>11. /\ toServer' \in [Streams -> Seq(ToServer)] /\ toServer'[s] = p
       /\ \A t \in Streams \ {s} : toServer'[t] = toServer[t]
  BY <1>1, <1>5, <1>7, <1>9 DEF TypeOK, ToServer
<1>12. /\ toRunner' \in [Streams -> Seq(ToRunner)] /\ toRunner'[s] = q
       /\ \A t \in Streams \ {s} : toRunner'[t] = toRunner[t]
  BY <1>1, <1>6, <1>8, <1>10 DEF TypeOK, ToRunner
<1>13. TypeOK'
  BY <1>1, <1>2, <1>3, <1>11, <1>12 DEF TypeOK, JobGrows, runner, listener, ToServer, ToRunner
<1>14. broken'[s] /\ done'[s] /\ \A t \in Streams \ {s} : Unmoved(t)
  BY <1>1, <1>3, <1>11, <1>12 DEF TypeOK, Unmoved, runner, listener
<1>15. Quiet(s)' /\ Talks(s)'
  BY <1>1, <1>3, <1>14 DEF Quiet, Talks, runner
<1>16. Flows(s)'
  <2>1. ASSUME handler[s] = "sent"
        PROVE  p \in {<<>>, <<"ack">>, <<"nack">>, <<"ack", "complete">>, <<"ack", "error">>}
    BY <1>1, <1>9, <2>1 DEF Flows
  <2>2. ASSUME handler[s] = "serving"
        PROVE  p \in {<<>>, <<"complete">>, <<"error">>}
    BY <1>1, <1>9, <2>2 DEF Flows
  <2>3. QED BY <1>3, <1>11, <2>1, <2>2 DEF Flows
<1>17. Opened(s)'
  BY <1>1, <1>3, <1>9, <1>10, <1>11, <1>12, <1>14 DEF Opened, runner, listener
<1>18. Means(s)'
  <2>1. \A m : Coming(s, m)' => Coming(s, m)
    BY <1>10, <1>12 DEF Coming
  <2>2. QED BY <1>1, <1>2, <1>3, <2>1 DEF Means, JobGrows, runner, listener
<1>19. QED BY <1>2, <1>13, <1>14, <1>15, <1>16, <1>17, <1>18, Frame DEF StreamInv

-------------------------------------------------------------------------------
(* Runner.accept.                                                          *)

LEMMA Answers ==
    /\ \A m \in ToServer : Append(<<>>, m) = <<m>>
    /\ Append(<<"ack">>, "complete") = <<"ack", "complete">>
    /\ Append(<<"ack">>, "error") = <<"ack", "error">>
<1>1. ASSUME NEW m \in ToServer PROVE Append(<<>>, m) = <<m>>
  OBVIOUS
<1>2. ASSUME NEW m \in ToServer PROVE Append(<<"ack">>, m) = <<"ack", m>>
  <2>1. <<"ack">> \in Seq(ToServer) /\ Len(<<"ack">>) = 1 /\ <<"ack">>[1] = "ack"
    BY DEF ToServer
  <2>2. /\ <<"ack", m>> \in Seq(ToServer) /\ Len(<<"ack", m>>) = 2
        /\ <<"ack", m>>[1] = "ack" /\ <<"ack", m>>[2] = m
    BY DEF ToServer
  <2>3. PICK p : p = Append(<<"ack">>, m)
    OBVIOUS
  <2>4. p \in Seq(ToServer) /\ Len(p) = 2 /\ p[1] = "ack" /\ p[2] = m
    <3>1. /\ Append(<<"ack">>, m) \in Seq(ToServer)
          /\ Len(Append(<<"ack">>, m)) = Len(<<"ack">>) + 1
          /\ \A i \in 1 .. Len(<<"ack">>) : Append(<<"ack">>, m)[i] = <<"ack">>[i]
          /\ Append(<<"ack">>, m)[Len(<<"ack">>) + 1] = m
      BY <2>1, AppendProperties
    <3>2. 1 \in 1 .. Len(<<"ack">>) /\ Len(<<"ack">>) + 1 = 2
      BY <2>1
    <3>3. p[1] = <<"ack">>[1]
      BY <2>3, <3>1, <3>2
    <3>4. QED BY <2>1, <2>3, <3>1, <3>2, <3>3
  <2>5. Len(p) = Len(<<"ack", m>>) /\ \A i \in 1 .. Len(p) : p[i] = <<"ack", m>>[i]
    BY <2>2, <2>4
  <2>6. p = <<"ack", m>>
    BY <2>2, <2>4, <2>5, SeqEqual
  <2>7. QED BY <2>3, <2>6
<1>3. QED BY <1>1, <1>2 DEF ToServer

\* What is sent to the handler, if it is not lost, comes last.
LEMMA Answering ==
    ASSUME TypeOK, NEW s \in Streams, NEW m \in ToServer, toServer' = SentToServer(s, m)
    PROVE  /\ toServer' \in [Streams -> Seq(ToServer)]
           /\ \A t \in Streams \ {s} : toServer'[t] = toServer[t]
           /\ \/ (broken[s] \/ handler[s] = "closed") /\ toServer' = toServer
              \/ /\ ~broken[s] /\ handler[s] # "closed"
                 /\ toServer'[s] = Append(toServer[s], m)
<1>1. toServer \in [Streams -> Seq(ToServer)]
  BY DEF TypeOK, ToServer
<1>2. CASE broken[s] \/ handler[s] = "closed"
  BY <1>1, <1>2 DEF SentToServer
<1>3. CASE ~(broken[s] \/ handler[s] = "closed")
  <2>1. toServer' = [toServer EXCEPT ![s] = Append(@, m)] /\ Append(toServer[s], m) \in Seq(ToServer)
    BY <1>1, <1>3 DEF SentToServer
  <2>2. QED BY <1>1, <1>3, <2>1
<1>4. QED BY <1>2, <1>3

\* accept returns, perhaps with a last message.
LEMMA Returning ==
    ASSUME IInv, NEW s \in Streams, NEW how \in Returned, Return(s, how),
           UNCHANGED <<job, broken, server, outcome>>, UNCHANGED <<interrupted, expiry, nacked, mishap>>,
           client' \in {client, "left"},
           accept[s] # "idle",
           toServer' \in [Streams -> Seq(ToServer)],
           \A t \in Streams \ {s} : toServer'[t] = toServer[t],
           Flows(s)',
           handler[s] \in {"idle", "asking"} => how = "failed" /\ toServer'[s] = <<>>,
           how = "completed" => Recorded /\ (outcome[s] = "ok" \/ canceled[Job])
    PROVE  IInv'
<1>1. TypeOK /\ Quiet(s) /\ Opened(s) /\ Means(s)
  BY DEF IInv, StreamInv
<1>2. JobGrows
  BY <1>1, JobStays
<1>3. /\ accept'[s] = how /\ err'[s] = "nil" /\ lastErr'[s] = "none" /\ toRunner'[s] = <<>>
      /\ \A t \in Streams \ {s} : Unmoved(t)
  BY <1>1 DEF TypeOK, Return, Unmoved, server, Returned
<1>4. toRunner' \in [Streams -> Seq(ToRunner)]
  <2>1. toRunner \in [Streams -> Seq(ToRunner)] /\ <<>> \in Seq(ToRunner)
    BY <1>1 DEF TypeOK, ToRunner
  <2>2. QED BY <2>1 DEF Return
<1>5. TypeOK'
  BY <1>1, <1>2, <1>4 DEF TypeOK, JobGrows, Return, Returned, server, ToServer, ToRunner
<1>6. how \in {"failed", "forced", "reported", "completed", "crashed"}
  BY DEF Returned
<1>7. Quiet(s)' /\ Opened(s)' /\ Talks(s)'
  BY <1>1, <1>3, <1>6 DEF Quiet, Opened, Talks, server
<1>8. Means(s)'
  <2>1. \A m : ~Coming(s, m)'
    BY <1>3 DEF Coming
  <2>2. QED BY <1>1, <1>2, <1>3, <1>6, <2>1 DEF Means, JobGrows, server
<1>9. QED BY <1>2, <1>3, <1>5, <1>7, <1>8, Frame DEF StreamInv

\* The steps in which accept returns without a last message.
LEMMA LeavingSteps ==
    ASSUME IInv, NEW s \in Streams, Hears(s),
           \/ RecvNoAssignment(s) \/ AwaitEnd(s) \/ Panic(s)
           \/ CheckForced(s) /\ Return(s, "forced")
           \/ ReportComplete(s) /\ Return(s, "failed") /\ UNCHANGED toServer
           \/ RecvAssignment(s) /\ Return(s, "failed") /\ UNCHANGED toServer
    PROVE  IInv'
<1>1. TypeOK /\ Quiet(s) /\ Opened(s) /\ Flows(s) /\ Talks(s) /\ Means(s)
  BY DEF IInv, StreamInv
<1>2. /\ UNCHANGED <<job, broken, server, outcome>> /\ UNCHANGED <<interrupted, expiry, nacked, mishap>>
      /\ UNCHANGED toServer /\ client' \in {client, "left"}
      /\ accept[s] \notin {"idle"} \cup Returned
  BY DEF RecvNoAssignment, AwaitEnd, CheckForced, ReportComplete, RecvAssignment, Panic, rest,
         Working, Returned
<1>3. toServer' \in [Streams -> Seq(ToServer)] /\ \A t \in Streams \ {s} : toServer'[t] = toServer[t]
  BY <1>1, <1>2 DEF TypeOK, ToServer
<1>4. Flows(s)'
  BY <1>1, <1>2 DEF Flows, server
<1>5. handler[s] \in {"idle", "asking"} => accept[s] \in {"waiting", "failed"} /\ toServer'[s] = <<>>
  BY <1>1, <1>2 DEF Opened
<1>6. ASSUME NEW how \in Returned, Return(s, how), accept[s] = "waiting" => how = "failed",
             how = "completed" => Recorded /\ (outcome[s] = "ok" \/ canceled[Job])
      PROVE  IInv'
  <2>1. handler[s] \in {"idle", "asking"} => how = "failed" /\ toServer'[s] = <<>>
    BY <1>2, <1>5, <1>6 DEF Returned
  <2>2. QED BY <1>2, <1>3, <1>4, <1>6, <2>1, Returning
<1>7. CASE AwaitEnd(s)
  <2>1. CASE lastErr[s] = "eof"
    <3>1. Return(s, "completed") /\ accept[s] = "awaiting"
      BY <1>7, <2>1 DEF AwaitEnd
    <3>2. Recorded /\ (outcome[s] = "ok" \/ canceled[Job])
      BY <1>1, <2>1, <3>1 DEF Means
    <3>3. QED BY <1>6, <3>1, <3>2 DEF Returned
  <2>2. CASE lastErr[s] # "eof"
    <3>1. lastErr[s] # "nil"
      BY <1>7 DEF AwaitEnd, Hears
    <3>2. Return(s, "failed")
      BY <1>7, <2>2, <3>1 DEF AwaitEnd
    <3>3. QED BY <1>6, <3>2 DEF Returned
  <2>3. QED BY <2>1, <2>2
<1>8. CASE CheckForced(s) /\ Return(s, "forced")
  <2>1. accept[s] = "worked"
    BY <1>8 DEF CheckForced
  <2>2. QED BY <1>6, <1>8, <2>1 DEF Returned
<1>9. CASE Return(s, "failed")
  BY <1>6, <1>9 DEF Returned
<1>10. CASE Panic(s)
  <2>1. Return(s, "crashed") /\ accept[s] # "waiting"
    BY <1>10 DEF Panic, Working
  <2>2. QED BY <1>6, <2>1 DEF Returned
<1>11. QED BY <1>7, <1>8, <1>9, <1>10 DEF RecvNoAssignment

\* The steps in which it leaves an error behind it.
LEMMA RefusingSteps ==
    ASSUME IInv, NEW s \in Streams,
           \/ ReportError(s)
           \/ RecvAssignment(s) /\ toServer' = SentToServer(s, "nack") /\ Return(s, "failed")
    PROVE  IInv'
<1>1. TypeOK /\ Quiet(s) /\ Opened(s) /\ Flows(s) /\ Talks(s) /\ Means(s)
  BY DEF IInv, StreamInv
<1>2. /\ UNCHANGED <<job, broken, server, outcome>> /\ UNCHANGED <<interrupted, expiry, nacked, mishap>>
      /\ client' \in {client, "left"}
  BY DEF ReportError, RecvAssignment, rest
<1>3. CASE RecvAssignment(s) /\ toServer' = SentToServer(s, "nack") /\ Return(s, "failed")
  <2>1. accept[s] = "waiting" /\ toRunner[s] # <<>>
    BY <1>3 DEF RecvAssignment
  <2>2. toServer[s] = <<>> /\ handler[s] \notin {"idle", "asking"}
    BY <1>1, <2>1 DEF Opened
  <2>3. /\ toServer' \in [Streams -> Seq(ToServer)]
        /\ \A t \in Streams \ {s} : toServer'[t] = toServer[t]
        /\ \/ toServer' = toServer
           \/ ~broken[s] /\ toServer'[s] = Append(toServer[s], "nack")
    BY <1>1, <1>3, Answering DEF ToServer
  <2>4. toServer'[s] = <<>> \/ (~broken[s] /\ toServer'[s] = <<"nack">>)
    BY <2>2, <2>3, Answers DEF ToServer
  <2>5. ~broken[s] => handler[s] = "sent"
    BY <1>1, <2>1, <2>2 DEF Opened
  <2>6. Flows(s)'
    BY <1>2, <2>4, <2>5 DEF Flows, server
  <2>7. QED BY <1>2, <1>3, <2>1, <2>2, <2>3, <2>6, Returning DEF Returned
<1>4. CASE ReportError(s)
  <2>1. /\ accept[s] = "reporting" /\ Return(s, "reported")
        /\ toServer' = toServer \/ toServer' = SentToServer(s, "error")
    BY <1>4 DEF ReportError
  <2>2. handler[s] \notin {"idle", "asking"}
    BY <1>1, <2>1 DEF Opened
  <2>3. /\ toServer' \in [Streams -> Seq(ToServer)]
        /\ \A t \in Streams \ {s} : toServer'[t] = toServer[t]
        /\ \/ toServer' = toServer
           \/ ~broken[s] /\ toServer'[s] = Append(toServer[s], "error")
    <3>1. CASE toServer' = toServer
      BY <1>1, <3>1 DEF TypeOK, ToServer
    <3>2. CASE toServer' = SentToServer(s, "error")
      BY <1>1, <3>2, Answering DEF ToServer
    <3>3. QED BY <2>1, <3>1, <3>2
  <2>4. Flows(s)'
    <3>1. CASE toServer' = toServer
      BY <1>1, <1>2, <3>1 DEF Flows, server
    <3>2. CASE ~broken[s] /\ toServer'[s] = Append(toServer[s], "error")
      <4>1. /\ handler[s] = "sent" => toServer[s] = <<"ack">>
            /\ handler[s] = "serving" => toServer[s] = <<>>
        BY <1>1, <2>1, <3>2 DEF Talks
      <4>2. /\ handler[s] = "sent" => toServer'[s] = <<"ack", "error">>
            /\ handler[s] = "serving" => toServer'[s] = <<"error">>
        BY <3>2, <4>1, Answers DEF ToServer
      <4>3. QED BY <1>2, <4>2 DEF Flows, server
    <3>3. QED BY <2>3, <3>1, <3>2
  <2>5. QED BY <1>2, <2>1, <2>2, <2>3, <2>4, Returning DEF Returned
<1>5. QED BY <1>3, <1>4

LEMMA AcceptStep ==
    ASSUME IInv, NEW s \in Streams, Accept(s)
    PROVE  IInv'
<1>1. TypeOK /\ Quiet(s) /\ Opened(s) /\ Flows(s) /\ Talks(s) /\ Means(s)
  BY DEF IInv, StreamInv
<1>2. JobGrows
  BY <1>1, JobStays DEF Accept
<1>3. /\ accept[s] = "idle" /\ accept' = [accept EXCEPT ![s] = "waiting"]
      /\ handler' = [handler EXCEPT ![s] = "asking"]
      /\ UNCHANGED <<job, net, reading, done, errCh, eventCh, jobCh, outcome, err, listener, rest>>
  BY DEF Accept
<1>4. TypeOK'
  BY <1>1, <1>2, <1>3 DEF TypeOK, JobGrows, net, listener, rest
<1>5. /\ accept'[s] = "waiting" /\ handler'[s] = "asking"
      /\ \A t \in Streams \ {s} : Unmoved(t)
  BY <1>1, <1>3 DEF TypeOK, Unmoved, net, listener
<1>6. handler[s] = "idle"
  BY <1>1, <1>3 DEF Opened
<1>7. Quiet(s)' /\ Opened(s)' /\ Flows(s)' /\ Talks(s)'
  BY <1>1, <1>3, <1>5, <1>6 DEF Quiet, Opened, Flows, Talks, net, listener
<1>8. Means(s)'
  <2>1. \A m : Coming(s, m)' <=> Coming(s, m)
    BY <1>3 DEF Coming, net
  <2>2. QED BY <1>1, <1>2, <1>3, <1>5, <2>1 DEF Means, JobGrows, listener
<1>9. QED BY <1>2, <1>4, <1>5, <1>7, <1>8, Frame DEF StreamInv

\* The ack is sent and the work begins.
LEMMA AssignmentStep ==
    ASSUME IInv, NEW s \in Streams, accept[s] = "waiting", toRunner[s] # <<>>,
           toServer' = SentToServer(s, "ack"),
           accept' = [accept EXCEPT ![s] = "working"],
           toRunner' = [toRunner EXCEPT ![s] = Tail(@)],
           UNCHANGED <<err, listener>>, UNCHANGED <<job, broken, server, outcome, rest>>
    PROVE  IInv'
<1>1. TypeOK /\ Quiet(s) /\ Opened(s) /\ Flows(s) /\ Talks(s) /\ Means(s)
  BY DEF IInv, StreamInv
<1>2. JobGrows
  BY <1>1, JobStays
<1>3. /\ toServer' \in [Streams -> Seq(ToServer)]
      /\ \A t \in Streams \ {s} : toServer'[t] = toServer[t]
      /\ \/ (broken[s] \/ handler[s] = "closed") /\ toServer' = toServer
         \/ ~broken[s] /\ toServer'[s] = Append(toServer[s], "ack")
  BY <1>1, Answering DEF ToServer
<1>4. /\ toServer[s] = <<>> /\ handler[s] \notin {"idle", "asking"} /\ lastErr[s] = "none"
      /\ ~broken[s] => handler[s] = "sent"
  BY <1>1 DEF Opened
<1>5. toServer'[s] = <<>> \/ toServer'[s] = <<"ack">>
  BY <1>3, <1>4, Answers DEF ToServer
<1>6. ~broken[s] => handler[s] = "sent" /\ toServer'[s] = <<"ack">>
  BY <1>3, <1>4, Answers DEF ToServer
<1>7. /\ toRunner' \in [Streams -> Seq(ToRunner)] /\ toRunner'[s] = Tail(toRunner[s])
      /\ \A t \in Streams \ {s} : toRunner'[t] = toRunner[t]
  <2>1. toRunner \in [Streams -> Seq(ToRunner)] /\ Tail(toRunner[s]) \in Seq(ToRunner)
    BY <1>1, Receiving DEF TypeOK, ToRunner
  <2>2. QED BY <2>1
<1>8. \A m : Coming(s, m)' => Coming(s, m)
  BY <1>1, <1>7, Receiving DEF Coming
<1>9. TypeOK'
  BY <1>1, <1>2, <1>3, <1>7 DEF TypeOK, JobGrows, server, listener, rest, Working, ToServer, ToRunner
<1>10. accept'[s] = "working" /\ \A t \in Streams \ {s} : Unmoved(t)
  BY <1>1, <1>3, <1>7 DEF TypeOK, Unmoved, server, listener
<1>11. Quiet(s)' /\ Opened(s)' /\ Talks(s)'
  BY <1>1, <1>4, <1>6, <1>10 DEF Quiet, Opened, Talks, server, listener
<1>12. Flows(s)'
  <2>1. broken[s] \/ handler[s] = "closed" => toServer'[s] = toServer[s]
    BY <1>3, <1>4
  <2>2. QED BY <1>1, <1>5, <1>6, <2>1 DEF Flows, server
<1>13. Means(s)'
  BY <1>1, <1>2, <1>8, <1>10 DEF Means, JobGrows, server, listener
<1>14. QED BY <1>2, <1>9, <1>10, <1>11, <1>12, <1>13, Frame DEF StreamInv

\* The receiving goroutine of accept.
LEMMA ListenStep ==
    ASSUME IInv, NEW s \in Streams,
           RecvCancel(s) \/ RecvStatus(s) \/ FindError(s) \/ PassError(s) \/ ActOnCancel(s)
    PROVE  IInv'
<1>1. TypeOK /\ Quiet(s) /\ Opened(s) /\ Flows(s) /\ Talks(s) /\ Means(s)
  BY DEF IInv, StreamInv
<1>2. JobGrows
  BY <1>1, JobStays DEF RecvCancel, RecvStatus, FindError, PassError, ActOnCancel
<1>3. /\ accept[s] \in Working
      /\ UNCHANGED <<job, toServer, broken, server, accept, outcome, rest>>
  BY DEF Listening, RecvCancel, RecvStatus, FindError, PassError, ActOnCancel, net
<1>4. handler[s] \notin {"idle", "asking"}
  BY <1>1, <1>3 DEF Opened, Working
<1>5. ASSUME TypeOK', \A t \in Streams \ {s} : Unmoved(t), Means(s)'
      PROVE  IInv'
  <2>1. Quiet(s)' /\ Flows(s)'
    BY <1>1, <1>3 DEF Quiet, Flows, server
  <2>2. Opened(s)'
    BY <1>1, <1>3, <1>4 DEF Opened, server, Working
  <2>3. Talks(s)'
    BY <1>1, <1>2, <1>3 DEF Talks, server, JobGrows
  <2>4. QED BY <1>2, <1>5, <2>1, <2>2, <2>3, Frame DEF StreamInv
<1>6. CASE RecvCancel(s)
  <2>1. /\ toRunner[s] # <<>> /\ Head(toRunner[s]) = "cancel"
        /\ toRunner' = [toRunner EXCEPT ![s] = Tail(@)]
        /\ heard' = [heard EXCEPT ![s] = "cancel"]
        /\ err' = [err EXCEPT ![s] = "nil"] /\ UNCHANGED <<over, stopped, lastErr>>
    BY <1>6 DEF RecvCancel
  <2>2. canceled[Job]
    BY <1>1, <2>1, Receiving DEF Means
  <2>3. /\ toRunner' \in [Streams -> Seq(ToRunner)] /\ toRunner'[s] = Tail(toRunner[s])
        /\ \A t \in Streams \ {s} : toRunner'[t] = toRunner[t]
    <3>1. toRunner \in [Streams -> Seq(ToRunner)] /\ Tail(toRunner[s]) \in Seq(ToRunner)
      BY <1>1, <2>1, Receiving DEF TypeOK, ToRunner
    <3>2. QED BY <2>1, <3>1
  <2>4. \A m : Coming(s, m)' => Coming(s, m)
    BY <1>1, <2>1, <2>3, Receiving DEF Coming
  <2>5. TypeOK'
    BY <1>1, <1>2, <1>3, <2>1, <2>3 DEF TypeOK, JobGrows, server, rest, ToRunner
  <2>6. err'[s] = "nil" /\ \A t \in Streams \ {s} : Unmoved(t)
    BY <1>1, <1>3, <2>1, <2>3 DEF TypeOK, Unmoved, server
  <2>7. Means(s)'
    BY <1>1, <1>2, <1>3, <2>1, <2>2, <2>4, <2>6 DEF Means, JobGrows, server
  <2>8. QED BY <1>5, <2>5, <2>6, <2>7
<1>7. CASE RecvStatus(s)
  <2>1. PICK e \in {"eof", "lost"} :
          /\ err' = [err EXCEPT ![s] = e]
          /\ e = "eof" => toRunner[s] # <<>> /\ Head(toRunner[s]) = "eof"
    BY <1>7 DEF RecvStatus
  <2>2. /\ toRunner' = [toRunner EXCEPT ![s] = <<>>] /\ UNCHANGED <<stopped, lastErr>>
        /\ heard' = [heard EXCEPT ![s] = "end"] /\ over' = [over EXCEPT ![s] = TRUE]
    BY <1>7 DEF RecvStatus
  <2>3. e = "eof" => Recorded
    BY <1>1, <2>1, Receiving DEF Means
  <2>4. lastErr'[s] = lastErr[s] /\ err'[s] = e /\ toRunner'[s] = <<>>
    BY <1>1, <2>1, <2>2 DEF TypeOK
  <2>5. toRunner' \in [Streams -> Seq(ToRunner)]
    <3>1. toRunner \in [Streams -> Seq(ToRunner)] /\ <<>> \in Seq(ToRunner)
      BY <1>1 DEF TypeOK, ToRunner
    <3>2. QED BY <2>2, <3>1
  <2>6. TypeOK'
    BY <1>1, <1>2, <1>3, <2>1, <2>2, <2>5 DEF TypeOK, JobGrows, server, rest, ToRunner
  <2>7. \A t \in Streams \ {s} : Unmoved(t)
    BY <1>1, <1>3, <2>1, <2>2 DEF TypeOK, Unmoved, server
  <2>8. Means(s)'
    <3>1. \A m : ~Coming(s, m)'
      BY <2>4 DEF Coming
    <3>2. QED BY <1>1, <1>2, <1>3, <2>3, <2>4, <3>1 DEF Means, JobGrows, server, Working
  <2>9. QED BY <1>5, <2>6, <2>7, <2>8
<1>8. CASE FindError(s) \/ ActOnCancel(s)
  <2>1. PICK h \in {"none", "error"} : heard' = [heard EXCEPT ![s] = h]
    BY <1>8 DEF FindError, ActOnCancel
  <2>2. /\ UNCHANGED <<toRunner, err, over, lastErr>>
        /\ stopped' = stopped \/ stopped' = [stopped EXCEPT ![s] = TRUE]
    BY <1>8 DEF FindError, ActOnCancel, net
  <2>3. stopped' \in [Streams -> BOOLEAN]
    <3>1. stopped \in [Streams -> BOOLEAN]
      BY <1>1 DEF TypeOK
    <3>2. QED BY <2>2, <3>1
  <2>4. TypeOK'
    BY <1>1, <1>2, <1>3, <2>1, <2>2, <2>3 DEF TypeOK, JobGrows, server, rest
  <2>5. \A t \in Streams \ {s} : Unmoved(t)
    BY <1>3, <2>2 DEF Unmoved, server
  <2>6. Means(s)'
    BY <1>1, <1>2, <1>3, <2>2 DEF Means, Coming, JobGrows, server
  <2>7. QED BY <1>5, <2>4, <2>5, <2>6
<1>9. CASE PassError(s)
  <2>1. /\ heard' = [heard EXCEPT ![s] = "none"] /\ lastErr' = [lastErr EXCEPT ![s] = err[s]]
        /\ UNCHANGED <<toRunner, err, over, stopped>>
    BY <1>9 DEF PassError, net
  <2>2. TypeOK'
    BY <1>1, <1>2, <1>3, <2>1 DEF TypeOK, JobGrows, server, rest
  <2>3. lastErr'[s] = err[s] /\ \A t \in Streams \ {s} : Unmoved(t)
    BY <1>1, <1>3, <2>1 DEF TypeOK, Unmoved, server
  <2>4. Means(s)'
    BY <1>1, <1>2, <1>3, <2>1, <2>3 DEF Means, Coming, JobGrows, server
  <2>5. QED BY <1>5, <2>2, <2>3, <2>4
<1>10. QED BY <1>6, <1>7, <1>8, <1>9

\* accept goes on from the execution to the report: an execution that failed
\* goes on without an error only if a cancellation came in between.
LEMMA WorkingSteps ==
    ASSUME IInv, NEW s \in Streams,
           \/ \E how \in {"ok", "fail"} : Execute(s, how)
           \/ CheckForced(s) /\ ~Return(s, "forced")
    PROVE  IInv'
<1>1. TypeOK /\ Quiet(s) /\ Opened(s) /\ Flows(s) /\ Talks(s) /\ Means(s)
  BY DEF IInv, StreamInv
<1>2. JobGrows
  BY <1>1, JobStays DEF Execute, CheckForced
<1>3. /\ accept[s] \in {"working", "worked"}
      /\ UNCHANGED <<job, net, server, heard, over, stopped, rest>>
  BY DEF Execute, CheckForced, Go, net, listener
<1>4. handler[s] \notin {"idle", "asking"}
  BY <1>1, <1>3 DEF Opened
<1>5. ASSUME TypeOK', \A t \in Streams \ {s} : Unmoved(t), Means(s)',
             accept'[s] \in {"worked", "reporting"}
      PROVE  IInv'
  <2>1. Quiet(s)' /\ Flows(s)'
    BY <1>1, <1>3 DEF Quiet, Flows, server, net
  <2>2. Opened(s)'
    BY <1>1, <1>3, <1>4, <1>5 DEF Opened, server, net
  <2>3. Talks(s)'
    BY <1>1, <1>2, <1>3, <1>5 DEF Talks, server, net, JobGrows
  <2>4. QED BY <1>2, <1>5, <2>1, <2>2, <2>3, Frame DEF StreamInv
<1>6. \A m : Coming(s, m)' <=> Coming(s, m)
  BY <1>3 DEF Coming, net
<1>7. CASE \E how \in {"ok", "fail"} : Execute(s, how)
  <2>1. PICK how \in {"ok", "fail"} :
          /\ accept' = [accept EXCEPT ![s] = "worked"] /\ outcome' = [outcome EXCEPT ![s] = how]
          /\ err' = [err EXCEPT ![s] = IF how = "ok" THEN "nil" ELSE "fail"] /\ lastErr' = lastErr
    BY <1>7 DEF Execute, listener
  <2>2. TypeOK'
    BY <1>1, <1>2, <1>3, <2>1 DEF TypeOK, JobGrows, net, server, rest, Working
  <2>3. accept'[s] = "worked" /\ outcome'[s] = how /\ (err'[s] = "nil" => how = "ok") /\ err'[s] # "eof"
    BY <1>1, <2>1 DEF TypeOK
  <2>4. \A t \in Streams \ {s} : Unmoved(t)
    BY <1>1, <1>3, <2>1 DEF TypeOK, Unmoved, net, server
  <2>5. Means(s)'
    BY <1>1, <1>2, <1>3, <1>6, <2>1, <2>3 DEF Means, JobGrows, server
  <2>6. QED BY <1>5, <2>2, <2>3, <2>4, <2>5
<1>8. CASE CheckForced(s) /\ ~Return(s, "forced")
  <2>1. /\ accept[s] = "worked" /\ accept' = [accept EXCEPT ![s] = "reporting"]
        /\ err' = err /\ outcome' = outcome
        /\ lastErr' = lastErr \/ lastErr' = [lastErr EXCEPT ![s] = "taken"]
    BY <1>8 DEF CheckForced, Go, listener
  <2>2. /\ lastErr' \in [Streams -> {"none", "nil", "fail", "eof", "lost", "taken"}]
        /\ lastErr'[s] = "eof" => lastErr[s] = "eof"
        /\ \A t \in Streams \ {s} : lastErr'[t] = lastErr[t]
    <3>1. lastErr \in [Streams -> {"none", "nil", "fail", "eof", "lost", "taken"}]
      BY <1>1 DEF TypeOK
    <3>2. CASE lastErr' = lastErr
      BY <3>1, <3>2
    <3>3. CASE lastErr' = [lastErr EXCEPT ![s] = "taken"]
      BY <3>1, <3>3
    <3>4. QED BY <2>1, <3>2, <3>3
  <2>3. TypeOK'
    BY <1>1, <1>2, <1>3, <2>1, <2>2 DEF TypeOK, JobGrows, net, server, rest, Working
  <2>4. accept'[s] = "reporting" /\ \A t \in Streams \ {s} : Unmoved(t)
    BY <1>1, <1>3, <2>1, <2>2 DEF TypeOK, Unmoved, net, server
  <2>5. Means(s)'
    BY <1>1, <1>2, <1>3, <1>6, <2>1, <2>2, <2>4 DEF Means, JobGrows, server
  <2>6. QED BY <1>5, <2>3, <2>4, <2>5
<1>9. QED BY <1>7, <1>8

\* The completion is sent, and accept waits for the end of the stream.
LEMMA CompletionStep ==
    ASSUME IInv, NEW s \in Streams, ReportComplete(s), ~Return(s, "failed")
    PROVE  IInv'
<1>1. TypeOK /\ Quiet(s) /\ Opened(s) /\ Flows(s) /\ Talks(s) /\ Means(s)
  BY DEF IInv, StreamInv
<1>2. JobGrows
  BY <1>1, JobStays DEF ReportComplete
<1>3. /\ accept[s] = "reporting" /\ err[s] = "nil" /\ toServer' = SentToServer(s, "complete")
      /\ accept' = [accept EXCEPT ![s] = "awaiting"]
      /\ UNCHANGED <<job, broken, server, outcome, rest>> /\ UNCHANGED <<err, listener, toRunner>>
  BY DEF ReportComplete, Go
<1>4. /\ toServer' \in [Streams -> Seq(ToServer)]
      /\ \A t \in Streams \ {s} : toServer'[t] = toServer[t]
      /\ \/ (broken[s] \/ handler[s] = "closed") /\ toServer' = toServer
         \/ ~broken[s] /\ toServer'[s] = Append(toServer[s], "complete")
  BY <1>1, <1>3, Answering DEF ToServer
<1>5. handler[s] \notin {"idle", "asking"}
  BY <1>1, <1>3 DEF Opened
<1>6. ~broken[s] /\ handler[s] # "closed" =>
        /\ handler[s] = "sent" => toServer'[s] = <<"ack", "complete">>
        /\ handler[s] = "serving" =>
             toServer'[s] = <<"complete">> /\ ~done[s] /\ reading[s] /\ eventCh[s] = "none"
  <2>1. SUFFICES ASSUME ~broken[s], handler[s] # "closed"
                 PROVE  /\ handler[s] = "sent" => toServer'[s] = <<"ack", "complete">>
                        /\ handler[s] = "serving" =>
                             /\ toServer'[s] = <<"complete">> /\ ~done[s]
                             /\ reading[s] /\ eventCh[s] = "none"
    OBVIOUS
  <2>2. toServer'[s] = Append(toServer[s], "complete")
    BY <1>4, <2>1
  <2>3. QED BY <1>1, <1>3, <2>1, <2>2, Answers DEF Talks, ToServer
<1>7. TypeOK'
  BY <1>1, <1>2, <1>3, <1>4 DEF TypeOK, JobGrows, server, listener, rest, Working, ToServer
<1>8. accept'[s] = "awaiting" /\ \A t \in Streams \ {s} : Unmoved(t)
  BY <1>1, <1>3, <1>4 DEF TypeOK, Unmoved, server, listener
<1>9. Quiet(s)' /\ Opened(s)' /\ Talks(s)'
  BY <1>1, <1>3, <1>5, <1>6, <1>8 DEF Quiet, Opened, Talks, server, listener
<1>10. Flows(s)'
  <2>1. broken[s] \/ handler[s] = "closed" => handler[s] = "closed" \/ toServer'[s] = toServer[s]
    BY <1>4
  <2>2. QED BY <1>1, <1>3, <1>6, <2>1 DEF Flows, server
<1>11. Means(s)'
  <2>1. \A m : Coming(s, m)' <=> Coming(s, m)
    BY <1>3 DEF Coming
  <2>2. QED BY <1>1, <1>2, <1>3, <1>8, <2>1 DEF Means, JobGrows, server, listener
<1>12. QED BY <1>2, <1>7, <1>8, <1>9, <1>10, <1>11, Frame DEF StreamInv

-------------------------------------------------------------------------------
(* The theorems.                                                           *)

LEMMA Invariance == Spec => []IInv
<1>1. Init => IInv
  <2> SUFFICES ASSUME Init PROVE IInv
    OBVIOUS
  <2>1. TypeOK
    <3>1. JL!TypeOK
      BY DEF Init, JL!Init, JL!TypeOK
    <3>2. /\ toServer \in [Streams -> Seq(ToServer)] /\ toRunner \in [Streams -> Seq(ToRunner)]
      BY DEF Init
    <3>3. QED BY <3>1, <3>2 DEF Init, TypeOK, ToServer, ToRunner
  <2>2. ASSUME NEW s \in Streams PROVE StreamInv(s)
    <3>1. /\ toServer[s] = <<>> /\ toRunner[s] = <<>> /\ handler[s] = "idle" /\ accept[s] = "idle"
          /\ ~reading[s] /\ ~done[s] /\ ~errCh[s] /\ eventCh[s] = "none" /\ jobCh[s] = "none"
          /\ lastErr[s] = "none" /\ err[s] = "nil"
      BY DEF Init
    <3>2. \A m : ~Coming(s, m)
      BY <3>1 DEF Coming
    <3>3. QED BY <3>1, <3>2 DEF StreamInv, Quiet, Opened, Flows, Talks, Means
  <2>3. QED BY <2>1, <2>2 DEF IInv
<1>2. IInv /\ HearInv /\ [Next]_vars => IInv'
  <2> SUFFICES ASSUME IInv, HearInv, [Next]_vars PROVE IInv'
    OBVIOUS
  <2>0. \A s \in Streams : Hears(s)
    BY DEF HearInv
  <2>1. ASSUME NEW s \in Streams, Handle(s) PROVE IInv'
    BY <2>1, AssignStep, AckStep, EventStep, JobChannelStep, EndingSteps DEF Handle
  <2>2. ASSUME NEW s \in Streams, RecvAssignment(s) PROVE IInv'
    <3>1. CASE Return(s, "failed")
      <4>1. toServer' = SentToServer(s, "nack") \/ UNCHANGED toServer
        <5>1. accept'[s] = "failed"
          BY <3>1 DEF Return, IInv, TypeOK
        <5>2. accept' # [accept EXCEPT ![s] = "working"]
          BY <5>1 DEF IInv, TypeOK
        <5>3. QED BY <2>2, <5>2 DEF RecvAssignment
      <4>2. QED BY <2>0, <2>2, <3>1, <4>1, LeavingSteps, RefusingSteps
    <3>2. CASE ~Return(s, "failed")
      BY <2>2, <3>2, AssignmentStep DEF RecvAssignment
    <3>3. QED BY <3>1, <3>2
  <2>3. ASSUME NEW s \in Streams, ReportComplete(s) PROVE IInv'
    <3>1. CASE Return(s, "failed")
      <4>1. UNCHANGED toServer
        <5>1. accept'[s] = "failed"
          BY <3>1 DEF Return, IInv, TypeOK
        <5>2. accept' # [accept EXCEPT ![s] = "awaiting"]
          BY <5>1 DEF IInv, TypeOK
        <5>3. QED BY <2>3, <5>2 DEF ReportComplete, Go
      <4>2. QED BY <2>0, <2>3, <3>1, <4>1, LeavingSteps
    <3>2. QED BY <2>3, <3>1, CompletionStep
  <2>4. ASSUME NEW s \in Streams, Proceed(s) PROVE IInv'
    BY <2>0, <2>2, <2>3, <2>4, LeavingSteps, RefusingSteps, WorkingSteps DEF Proceed
  <2>5. ASSUME NEW s \in Streams,
               \/ Watch(s) \/ Receive(s) \/ Accept(s) \/ Listen(s) \/ Break(s)
               \/ \E how \in {"ok", "fail"} : Execute(s, how)
        PROVE  IInv'
    BY <2>0, <2>5, WatchStep, ReceiveStep, AcceptStep, ListenStep, LeavingSteps, BreakStep, WorkingSteps
       DEF Listen
  <2>6. CASE \/ QueueJob \/ OpenStream \/ ReceiveComplete \/ Interrupt \/ LeaveStream
             \/ JobExpire \/ AckTimeout \/ BeatTimeout
             \/ UNCHANGED vars
    BY <2>6, ClientSteps
  <2>7. QED BY <2>1, <2>4, <2>5, <2>6 DEF Next
<1>3. QED BY <1>1, <1>2, HearInvariance, PTL DEF Spec

\* The channels of handler and accept hold what their readers can take; the
\* event that the handler switches on is a completion or an error.
THEOREM TypeCorrect == Spec => []TypeOK
<1>1. IInv => TypeOK
  BY DEF IInv
<1>2. QED BY <1>1, Invariance, PTL

\* Runner.accept, "this ensures that the server received our completion and
\* updated the database": it does, whatever breaks or times out.
THEOREM CompletionIsRecorded == Spec => []ExitMeansRecorded
<1>1. IInv => ExitMeansRecorded
  BY DEF IInv, StreamInv, Means, Recorded, ExitMeansRecorded
<1>2. QED BY <1>1, Invariance, PTL

\* A runner that has seen its completion recorded did succeed, and the store
\* says so for good unless the job was cancelled.
THEOREM ResultIsKept == Spec => []ResultKept
<1>1. IInv => ResultKept
  BY DEF IInv, StreamInv, Means, Recorded, ResultKept
<1>2. QED BY <1>1, Invariance, PTL

-------------------------------------------------------------------------------
(* The end of a stream.  An event that nobody reads, or an end that nobody  *)
(* sends, would leave accept or the handler waiting for good.               *)

\* A handler that serves still listens or is about to end; an assignment and
\* an end that are sent are there to be read.
Ending(s) ==
    /\ handler[s] = "serving" => reading[s] \/ done[s]
    /\ accept[s] = "waiting" /\ handler[s] = "sent" /\ ~broken[s] => toRunner[s] = <<"assign">>
    /\ accept[s] \in Working => ~Coming(s, "assign")
    /\ accept[s] \in Working /\ handler[s] = "closed" /\ ~broken[s] /\ ~over[s] =>
         Coming(s, "eof") \/ Coming(s, "err")

EndInv == \A s \in Streams : Ending(s)

\* What Ending tells apart does not move.
Aside(t) ==
    /\ toRunner'[t] = toRunner[t] /\ broken'[t] = broken[t] /\ handler'[t] = handler[t]
    /\ reading'[t] = reading[t] /\ done'[t] = done[t] /\ accept'[t] = accept[t]
    /\ over'[t] = over[t]

LEMMA EndingFrame ==
    ASSUME EndInv, NEW s \in Streams, Ending(s)', \A t \in Streams \ {s} : Aside(t)
    PROVE  EndInv'
<1>1. ASSUME NEW t \in Streams \ {s} PROVE Ending(t)'
  <2>1. Aside(t) /\ Ending(t)
    BY <1>1 DEF EndInv
  <2>2. \A m : Coming(t, m)' <=> Coming(t, m)
    BY <2>1 DEF Aside, Coming
  <2>3. QED BY <2>1, <2>2 DEF Aside, Ending
<1>2. QED BY <1>1 DEF EndInv

\* What is sent to a runner at work arrives, and so does what was sent before.
LEMMA Arriving ==
    ASSUME TypeOK, NEW s \in Streams, NEW msgs \in Seq(ToRunner), toRunner' = SentToRunner(s, msgs),
           ~broken[s], accept[s] \notin Returned
    PROVE  \A m : Coming(s, m)' <=> Coming(s, m) \/ \E i \in 1 .. Len(msgs) : msgs[i] = m
<1>1. toRunner \in [Streams -> Seq(ToRunner)]
  BY DEF TypeOK, ToRunner
<1>2. PICK q : q = toRunner[s] /\ q \in Seq(ToRunner)
  BY <1>1
<1>3. /\ Len(q \o msgs) = Len(q) + Len(msgs)
      /\ \A i \in 1 .. Len(q) + Len(msgs) : (q \o msgs)[i] =
           IF i <= Len(q) THEN q[i] ELSE msgs[i - Len(q)]
  BY <1>2, ConcatProperties
<1>4. toRunner'[s] = q \o msgs
  BY <1>1, <1>2 DEF SentToRunner
<1>5. \E a, b \in Nat : a = Len(q) /\ b = Len(msgs)
  <2>1. Len(q) \in Nat /\ Len(msgs) \in Nat
    BY <1>2
  <2>2. QED BY <2>1
<1>6. PICK a, b \in Nat : a = Len(q) /\ b = Len(msgs)
  BY <1>5
<1>7. ASSUME NEW m, NEW i \in 1 .. a, q[i] = m PROVE Coming(s, m)'
  <2>1. i \in 1 .. a + b /\ i <= a
    BY <1>6, <1>7
  <2>2. (q \o msgs)[i] = m
    BY <1>3, <1>6, <1>7, <2>1
  <2>3. QED BY <1>3, <1>4, <1>6, <2>1, <2>2 DEF Coming
<1>8. ASSUME NEW m, NEW i \in 1 .. b, msgs[i] = m PROVE Coming(s, m)'
  <2>1. a + i \in 1 .. a + b /\ ~(a + i <= a) /\ (a + i) - a = i
    BY <1>6, <1>7
  <2>2. (q \o msgs)[a + i] = m
    BY <1>3, <1>6, <1>8, <2>1
  <2>3. QED BY <1>3, <1>4, <1>6, <2>1, <2>2 DEF Coming
<1>9. \A m : Coming(s, m)' => Coming(s, m) \/ \E i \in 1 .. Len(msgs) : msgs[i] = m
  BY Sending
<1>10. QED BY <1>2, <1>6, <1>7, <1>8, <1>9 DEF Coming

\* What is not received is still coming.
LEMMA Remaining ==
    ASSUME TypeOK, NEW s \in Streams, toRunner[s] # <<>>, NEW m, Coming(s, m), m # Head(toRunner[s]),
           toRunner'[s] = Tail(toRunner[s])
    PROVE  Coming(s, m)'
<1>1. PICK q : q = toRunner[s] /\ q \in Seq(ToRunner) /\ q # <<>>
  BY DEF TypeOK, ToRunner
<1>2. /\ Head(q) = q[1] /\ Len(Tail(q)) = Len(q) - 1
      /\ \A i \in 1 .. Len(q) - 1 : Tail(q)[i] = q[i + 1]
  BY <1>1
<1>3. PICK i \in 1 .. Len(q) : q[i] = m
  BY <1>1 DEF Coming
<1>4. i # 1 /\ Len(q) \in Nat
  BY <1>1, <1>2, <1>3
<1>5. i - 1 \in 1 .. Len(q) - 1 /\ (i - 1) + 1 = i
  BY <1>3, <1>4
<1>6. Tail(q)[i - 1] = m
  BY <1>2, <1>3, <1>5
<1>7. QED BY <1>1, <1>2, <1>5, <1>6 DEF Coming

\* A handler that returns tells its runner.
LEMMA ClosingEnds ==
    ASSUME IInv, EndInv, NEW s \in Streams,
           \/ GiveUp(s) \/ RecvAckLate(s) \/ RecvNoAck(s) \/ HandleEventFails(s)
           \/ HandleDone(s) \/ HandleErr(s) \/ HandleForce(s)
    PROVE  EndInv'
<1>1. TypeOK /\ Ending(s)
  BY DEF IInv, EndInv
<1>2. PICK msgs \in {<<"err">>, <<"eof">>, <<"cancel", "eof">>} : Close(s, msgs)
  BY DEF GiveUp, RecvAckLate, RecvNoAck, HandleEventFails, HandleDone, HandleErr, HandleForce, Finish
<1>3. UNCHANGED runner
  BY DEF GiveUp, RecvAckLate, RecvNoAck, HandleEventFails, HandleDone, HandleErr, HandleForce, Finish
<1>4. /\ msgs \in Seq(ToRunner)
      /\ \A i \in 1 .. Len(msgs) : msgs[i] # "assign"
      /\ \E i \in 1 .. Len(msgs) : msgs[i] \in {"eof", "err"}
  <2>1. CASE msgs = <<"err">>
    BY <2>1, Farewells
  <2>2. CASE msgs = <<"eof">>
    BY <2>2, Farewells
  <2>3. CASE msgs = <<"cancel", "eof">>
    BY <2>3, Farewells
  <2>4. QED BY <1>2, <2>1, <2>2, <2>3
<1>5. toRunner' = SentToRunner(s, msgs) /\ handler'[s] = "closed" /\ broken' = broken
  BY <1>1, <1>2 DEF Close, TypeOK
<1>6. \A t \in Streams \ {s} : toRunner'[t] = toRunner[t]
  BY <1>1, <1>4, <1>5, Sending
<1>7. \A t \in Streams \ {s} : Aside(t)
  BY <1>1, <1>2, <1>3, <1>6 DEF Aside, Close, runner, listener, TypeOK
<1>8. accept[s] \in Working => ~Coming(s, "assign")'
  <2>1. \A m : Coming(s, m)' =>
          \/ Coming(s, m)
          \/ ~broken[s] /\ accept[s] \notin Returned /\ \E i \in 1 .. Len(msgs) : msgs[i] = m
    BY <1>1, <1>4, <1>5, Sending
  <2>2. QED BY <1>1, <1>4, <2>1 DEF Ending
<1>9. accept[s] \in Working /\ ~broken[s] => Coming(s, "eof")' \/ Coming(s, "err")'
  <2>1. SUFFICES ASSUME accept[s] \in Working, ~broken[s]
                 PROVE  Coming(s, "eof")' \/ Coming(s, "err")'
    OBVIOUS
  <2>2. accept[s] \notin Returned
    BY <2>1 DEF Working, Returned
  <2>3. \A m : Coming(s, m)' <=> Coming(s, m) \/ \E i \in 1 .. Len(msgs) : msgs[i] = m
    BY <1>1, <1>4, <1>5, <2>1, <2>2, Arriving
  <2>4. QED BY <1>4, <2>3
<1>10. Ending(s)'
  BY <1>1, <1>3, <1>5, <1>8, <1>9 DEF Ending, runner, listener
<1>11. QED BY <1>7, <1>10, EndingFrame

\* The handler's other steps.
LEMMA HandlerEnds ==
    ASSUME IInv, EndInv, NEW s \in Streams,
           Assign(s) \/ RecvAck(s) \/ HandleEvent(s) \/ HandleJob(s) \/ Watch(s) \/ Receive(s)
    PROVE  EndInv'
<1>1. TypeOK /\ Ending(s) /\ Opened(s)
  BY DEF IInv, EndInv, StreamInv
<1>2. CASE Assign(s)
  <2>1. /\ toRunner' = SentToRunner(s, <<"assign">>) /\ handler' = [handler EXCEPT ![s] = "sent"]
        /\ UNCHANGED <<broken, reading, done, runner>> /\ handler[s] = "asking"
    BY <1>2 DEF Assign
  <2>2. /\ \A t \in Streams \ {s} : toRunner'[t] = toRunner[t]
        /\ \/ toRunner' = toRunner
           \/ ~broken[s] /\ accept[s] \notin Returned /\ toRunner'[s] = toRunner[s] \o <<"assign">>
    BY <1>1, <2>1, Sending, Farewells
  <2>3. accept[s] \in {"idle", "waiting", "failed"} /\ toRunner[s] = <<>>
    BY <1>1, <2>1 DEF Opened
  <2>4. accept[s] = "waiting" /\ ~broken[s] => toRunner'[s] = <<"assign">>
    <3>1. ASSUME accept[s] = "waiting", ~broken[s] PROVE toRunner'[s] = toRunner[s] \o <<"assign">>
      <4>1. toRunner' = [toRunner EXCEPT ![s] = @ \o <<"assign">>]
        BY <2>1, <3>1 DEF SentToRunner, Returned
      <4>2. QED BY <1>1, <4>1 DEF TypeOK
    <3>2. <<>> \o <<"assign">> = <<"assign">>
      BY Farewells, ConcatEmptySeq
    <3>3. QED BY <2>3, <3>1, <3>2
  <2>5. \A t \in Streams \ {s} : Aside(t)
    BY <1>1, <2>1, <2>2 DEF Aside, runner, listener, TypeOK
  <2>6. Ending(s)'
    BY <1>1, <2>1, <2>3, <2>4 DEF Ending, runner, listener, Working, TypeOK
  <2>7. QED BY <2>5, <2>6, EndingFrame
<1>3. CASE RecvAck(s) \/ HandleEvent(s) \/ Watch(s) \/ Receive(s)
  <2>1. /\ UNCHANGED <<toRunner, broken, runner>>
        /\ \A t \in Streams \ {s} : handler'[t] = handler[t] /\ reading'[t] = reading[t] /\ done'[t] = done[t]
        /\ handler'[s] = "serving" /\ (reading'[s] \/ done'[s])
    <3>1. CASE RecvAck(s)
      BY <1>1, <3>1 DEF RecvAck, TypeOK
    <3>2. CASE Receive(s)
      BY <1>1, <3>2 DEF Receive, RecvEvent, RecvEnd, TypeOK, net
    <3>3. CASE HandleEvent(s)
      BY <1>1, <3>3 DEF HandleEvent, net, Ending
    <3>4. CASE Watch(s)
      BY <1>1, <3>4 DEF Watch, net, Ending
    <3>5. QED BY <1>3, <3>1, <3>2, <3>3, <3>4
  <2>2. \A t \in Streams \ {s} : Aside(t)
    BY <2>1 DEF Aside, runner, listener
  <2>3. Ending(s)'
    BY <1>1, <2>1 DEF Ending, Coming, runner, listener
  <2>4. QED BY <2>2, <2>3, EndingFrame
<1>4. CASE HandleJob(s)
  <2>1. /\ handler[s] = "serving" /\ UNCHANGED <<broken, handler, reading, done, runner>>
        /\ toRunner' = toRunner \/ toRunner' = SentToRunner(s, <<"cancel">>)
    BY <1>4 DEF HandleJob
  <2>2. /\ \A t \in Streams \ {s} : toRunner'[t] = toRunner[t]
        /\ Coming(s, "assign")' => Coming(s, "assign")
    <3>1. CASE toRunner' = toRunner
      BY <3>1 DEF Coming
    <3>2. CASE toRunner' = SentToRunner(s, <<"cancel">>)
      <4>1. /\ \A t \in Streams \ {s} : toRunner'[t] = toRunner[t]
            /\ \A m : Coming(s, m)' =>
                 \/ Coming(s, m)
                 \/ /\ ~broken[s] /\ accept[s] \notin Returned
                    /\ \E i \in 1 .. Len(<<"cancel">>) : <<"cancel">>[i] = m
        BY <1>1, <3>2, Sending, Farewells
      <4>2. \A i \in 1 .. Len(<<"cancel">>) : <<"cancel">>[i] = "cancel"
        BY Farewells
      <4>3. QED BY <4>1, <4>2
    <3>3. QED BY <2>1, <3>1, <3>2
  <2>3. \A t \in Streams \ {s} : Aside(t)
    BY <2>1, <2>2 DEF Aside, runner, listener
  <2>4. Ending(s)'
    BY <1>1, <2>1, <2>2 DEF Ending, runner, listener
  <2>5. QED BY <2>3, <2>4, EndingFrame
<1>5. QED BY <1>2, <1>3, <1>4

\* accept returns, or a stream breaks.
LEMMA LeavingEnds ==
    ASSUME IInv, EndInv, NEW s \in Streams,
           \/ Break(s)
           \/ \E how \in Returned : Return(s, how) /\ UNCHANGED <<broken, server>>
    PROVE  EndInv'
<1>1. TypeOK /\ Ending(s)
  BY DEF IInv, EndInv
<1>2. CASE Break(s)
  <2>1. /\ broken' = [broken EXCEPT ![s] = TRUE] /\ done' = [done EXCEPT ![s] = TRUE]
        /\ UNCHANGED <<handler, reading, runner>>
    BY <1>2 DEF Break
  <2>2. PICK n \in 0 .. Len(toRunner[s]) : toRunner' = [toRunner EXCEPT ![s] = SubSeq(@, 1, n)]
    BY <1>2 DEF Break
  <2>3. PICK q : q = toRunner[s] /\ q \in Seq(ToRunner) /\ n \in 0 .. Len(q)
    BY <1>1 DEF TypeOK, ToRunner
  <2>4. \A m : (\E i \in 1 .. Len(SubSeq(q, 1, n)) : SubSeq(q, 1, n)[i] = m) =>
          \E i \in 1 .. Len(q) : q[i] = m
    <3>1. q \in Seq(ToRunner) /\ n \in 0 .. Len(q)
      BY <2>3
    <3>2. QED BY <3>1, Cutting
  <2>5. toRunner'[s] = SubSeq(q, 1, n) /\ \A t \in Streams \ {s} : toRunner'[t] = toRunner[t]
    BY <1>1, <2>2, <2>3 DEF TypeOK
  <2>6. \A m : Coming(s, m)' => Coming(s, m)
    BY <2>3, <2>4, <2>5 DEF Coming
  <2>7. broken'[s] /\ done'[s] /\ \A t \in Streams \ {s} : Aside(t)
    BY <1>1, <2>1, <2>5 DEF Aside, runner, listener, TypeOK
  <2>8. Ending(s)'
    BY <1>1, <2>1, <2>6, <2>7 DEF Ending, runner, listener
  <2>9. QED BY <2>7, <2>8, EndingFrame
<1>3. ASSUME NEW how \in Returned, Return(s, how), UNCHANGED <<broken, server>>
      PROVE  EndInv'
  <2>1. accept'[s] = how /\ \A t \in Streams \ {s} : Aside(t)
    BY <1>1, <1>3 DEF Return, Aside, server, TypeOK
  <2>2. how \notin Working \cup {"waiting"}
    BY DEF Returned, Working
  <2>3. Ending(s)'
    BY <1>1, <1>3, <2>1, <2>2 DEF Ending, server, Working
  <2>4. QED BY <2>1, <2>3, EndingFrame
<1>4. QED BY <1>2, <1>3

\* accept goes on.
LEMMA GoingEnds ==
    ASSUME IInv, EndInv, NEW s \in Streams,
           \/ Accept(s)
           \/ RecvCancel(s) \/ RecvStatus(s) \/ FindError(s) \/ PassError(s) \/ ActOnCancel(s)
           \/ \E how \in {"ok", "fail"} : Execute(s, how)
           \/ RecvAssignment(s) /\ accept'[s] = "working" /\ toRunner' = [toRunner EXCEPT ![s] = Tail(@)]
                /\ accept' = [accept EXCEPT ![s] = "working"] /\ UNCHANGED listener
           \/ CheckForced(s) /\ accept' = [accept EXCEPT ![s] = "reporting"] /\ UNCHANGED <<toRunner, over>>
           \/ ReportComplete(s) /\ SendPasses(s) /\ Go(s, "awaiting")
    PROVE  EndInv'
<1>1. TypeOK /\ Ending(s) /\ Opened(s)
  BY DEF IInv, EndInv, StreamInv
<1>2. CASE Accept(s)
  <2>1. /\ accept' = [accept EXCEPT ![s] = "waiting"] /\ handler' = [handler EXCEPT ![s] = "asking"]
        /\ UNCHANGED <<net, reading, done, over>>
    BY <1>2 DEF Accept, listener
  <2>2. accept'[s] = "waiting" /\ handler'[s] = "asking" /\ \A t \in Streams \ {s} : Aside(t)
    BY <1>1, <2>1 DEF Aside, net, TypeOK
  <2>3. Ending(s)'
    BY <2>2 DEF Ending, Working
  <2>4. QED BY <2>2, <2>3, EndingFrame
<1>3. CASE RecvCancel(s)
  <2>1. /\ accept[s] \in Working /\ toRunner[s] # <<>> /\ Head(toRunner[s]) = "cancel"
        /\ toRunner' = [toRunner EXCEPT ![s] = Tail(@)]
        /\ UNCHANGED <<broken, server, accept, over>>
    BY <1>3 DEF RecvCancel, Listening
  <2>2. toRunner'[s] = Tail(toRunner[s]) /\ \A t \in Streams \ {s} : Aside(t)
    BY <1>1, <2>1 DEF Aside, server, TypeOK
  <2>3. ~Coming(s, "assign")'
    <3>1. \A m : (\E i \in 1 .. Len(Tail(toRunner[s])) : Tail(toRunner[s])[i] = m) => Coming(s, m)
      BY <1>1, <2>1, Receiving
    <3>2. QED BY <1>1, <2>1, <2>2, <3>1 DEF Ending, Coming
  <2>4. (Coming(s, "eof") => Coming(s, "eof")') /\ (Coming(s, "err") => Coming(s, "err")')
    <3>1. ASSUME Coming(s, "eof") PROVE Coming(s, "eof")'
      BY <1>1, <2>1, <2>2, <3>1, Remaining
    <3>2. ASSUME Coming(s, "err") PROVE Coming(s, "err")'
      BY <1>1, <2>1, <2>2, <3>2, Remaining
    <3>3. QED BY <3>1, <3>2
  <2>5. accept[s] # "waiting"
    BY <2>1 DEF Working
  <2>6. Ending(s)'
    BY <1>1, <2>1, <2>3, <2>4, <2>5 DEF Ending, server
  <2>7. QED BY <2>2, <2>6, EndingFrame
<1>4. CASE RecvStatus(s)
  <2>1. /\ accept[s] \in Working /\ toRunner' = [toRunner EXCEPT ![s] = <<>>]
        /\ UNCHANGED <<broken, server, accept>> /\ over' = [over EXCEPT ![s] = TRUE]
    BY <1>4 DEF RecvStatus, Listening
  <2>2. toRunner'[s] = <<>> /\ over'[s] /\ \A t \in Streams \ {s} : Aside(t)
    BY <1>1, <2>1 DEF Aside, server, TypeOK
  <2>3. ~Coming(s, "assign")'
    BY <2>2 DEF Coming
  <2>4. accept[s] # "waiting"
    BY <2>1 DEF Working
  <2>5. Ending(s)'
    BY <1>1, <2>1, <2>2, <2>3, <2>4 DEF Ending, server
  <2>6. QED BY <2>2, <2>5, EndingFrame
<1>5. CASE RecvAssignment(s) /\ accept'[s] = "working" /\ toRunner' = [toRunner EXCEPT ![s] = Tail(@)]
             /\ accept' = [accept EXCEPT ![s] = "working"] /\ UNCHANGED listener
  <2>1. accept[s] = "waiting" /\ toRunner[s] # <<>> /\ UNCHANGED <<broken, server>>
    BY <1>5 DEF RecvAssignment
  <2>2. toRunner[s] = <<"assign">>
    BY <1>1, <2>1 DEF Opened
  <2>3. toRunner'[s] = <<>> /\ \A t \in Streams \ {s} : Aside(t)
    <3>1. Tail(<<"assign">>) = <<>>
      OBVIOUS
    <3>2. QED BY <1>1, <1>5, <2>1, <2>2, <3>1 DEF Aside, server, listener, TypeOK
  <2>4. ~Coming(s, "assign")'
    BY <2>3 DEF Coming
  <2>5. ~broken[s] => handler[s] # "closed"
    BY <1>1, <2>1 DEF Opened
  <2>6. Ending(s)'
    BY <1>1, <1>5, <2>1, <2>4, <2>5 DEF Ending, server, listener
  <2>7. QED BY <2>3, <2>6, EndingFrame
<1>6. ASSUME accept[s] \in Working, UNCHANGED <<toRunner, broken, server, over>>,
             NEW how \in Working, accept' = [accept EXCEPT ![s] = how]
      PROVE  EndInv'
  <2>1. accept'[s] = how /\ \A t \in Streams \ {s} : accept'[t] = accept[t]
    BY <1>1, <1>6 DEF TypeOK
  <2>2. \A t \in Streams \ {s} : Aside(t)
    BY <1>6, <2>1 DEF Aside, server
  <2>3. how # "waiting"
    BY DEF Working
  <2>4. \A m : Coming(s, m)' <=> Coming(s, m)
    BY <1>6 DEF Coming
  <2>5. Ending(s)'
    BY <1>1, <1>6, <2>1, <2>3, <2>4 DEF Ending, server
  <2>6. QED BY <2>2, <2>5, EndingFrame
<1>7. CASE \E how \in {"ok", "fail"} : Execute(s, how)
  <2>1. /\ accept[s] \in Working /\ UNCHANGED <<toRunner, broken, server, over>>
        /\ accept' = [accept EXCEPT ![s] = "worked"] /\ "worked" \in Working
    BY <1>7 DEF Execute, Working, net, listener
  <2>2. QED BY <1>6, <2>1
<1>8. CASE CheckForced(s) /\ accept' = [accept EXCEPT ![s] = "reporting"] /\ UNCHANGED <<toRunner, over>>
  <2>1. accept[s] \in Working /\ UNCHANGED <<broken, server>> /\ "reporting" \in Working
    BY <1>8 DEF CheckForced, Working
  <2>2. QED BY <1>6, <1>8, <2>1
<1>9. CASE ReportComplete(s) /\ SendPasses(s) /\ Go(s, "awaiting")
  <2>1. /\ accept[s] \in Working /\ UNCHANGED <<toRunner, broken, server, over>>
        /\ accept' = [accept EXCEPT ![s] = "awaiting"] /\ "awaiting" \in Working
    BY <1>9 DEF ReportComplete, Go, Working, listener
  <2>2. QED BY <1>6, <2>1
<1>10. CASE FindError(s) \/ PassError(s) \/ ActOnCancel(s)
  <2>1. accept[s] \in Working /\ UNCHANGED <<toRunner, broken, server, accept, over>>
    BY <1>10 DEF FindError, PassError, ActOnCancel, net
  <2>2. accept' = [accept EXCEPT ![s] = accept[s]]
    BY <1>1, <2>1 DEF TypeOK
  <2>3. QED BY <1>6, <2>1, <2>2
<1>11. QED BY <1>2, <1>3, <1>4, <1>5, <1>7, <1>8, <1>9, <1>10

LEMMA EndingInvariance == Spec => []EndInv
<1>1. Init => EndInv
  BY DEF Init, EndInv, Ending, Working
<1>2. IInv /\ EndInv /\ [Next]_vars => EndInv'
  <2> SUFFICES ASSUME IInv, EndInv, [Next]_vars PROVE EndInv'
    OBVIOUS
  <2>1. ASSUME NEW s \in Streams, Handle(s) \/ Watch(s) \/ Receive(s) PROVE EndInv'
    BY <2>1, ClosingEnds, HandlerEnds DEF Handle
  <2>2. ASSUME NEW s \in Streams, RecvAssignment(s) PROVE EndInv'
    <3>1. CASE accept' = [accept EXCEPT ![s] = "working"]
      <4>1. accept'[s] = "working"
        BY <3>1 DEF IInv, TypeOK
      <4>2. toRunner' = [toRunner EXCEPT ![s] = Tail(@)] /\ UNCHANGED listener
        BY <2>2, <4>1 DEF RecvAssignment, Return, IInv, TypeOK
      <4>3. QED BY <2>2, <3>1, <4>1, <4>2, GoingEnds
    <3>2. CASE Return(s, "failed")
      <4>1. UNCHANGED <<broken, server>> /\ "failed" \in Returned
        BY <2>2 DEF RecvAssignment, Returned
      <4>2. QED BY <3>2, <4>1, LeavingEnds
    <3>3. QED BY <2>2, <3>1, <3>2 DEF RecvAssignment
  <2>3. ASSUME NEW s \in Streams, CheckForced(s) PROVE EndInv'
    <3>1. CASE Return(s, "forced")
      <4>1. UNCHANGED <<broken, server>> /\ "forced" \in Returned
        BY <2>3 DEF CheckForced, Returned
      <4>2. QED BY <3>1, <4>1, LeavingEnds
    <3>2. CASE ~Return(s, "forced")
      <4>1. accept' = [accept EXCEPT ![s] = "reporting"] /\ UNCHANGED <<toRunner, over>>
        BY <2>3, <3>2 DEF CheckForced, Go, listener
      <4>2. QED BY <2>3, <4>1, GoingEnds
    <3>3. QED BY <3>1, <3>2
  <2>4. ASSUME NEW s \in Streams, ReportComplete(s) PROVE EndInv'
    <3>1. CASE Return(s, "failed")
      <4>1. UNCHANGED <<broken, server>> /\ "failed" \in Returned
        BY <2>4 DEF ReportComplete, Returned
      <4>2. QED BY <3>1, <4>1, LeavingEnds
    <3>2. CASE ~Return(s, "failed")
      <4>1. SendPasses(s) /\ Go(s, "awaiting")
        BY <2>4, <3>2 DEF ReportComplete
      <4>2. QED BY <2>4, <4>1, GoingEnds
    <3>3. QED BY <3>1, <3>2
  <2>5. ASSUME NEW s \in Streams, RecvNoAssignment(s) \/ ReportError(s) \/ AwaitEnd(s) \/ Panic(s)
        PROVE  EndInv'
    <3>1. PICK how \in Returned : Return(s, how)
      <4>1. \E how \in {"failed", "reported", "completed", "crashed"} : Return(s, how)
        BY <2>5 DEF RecvNoAssignment, ReportError, AwaitEnd, Panic
      <4>2. QED BY <4>1 DEF Returned
    <3>2. UNCHANGED <<broken, server>>
      BY <2>5 DEF RecvNoAssignment, ReportError, AwaitEnd, Panic
    <3>3. QED BY <3>1, <3>2, LeavingEnds
  <2>6. ASSUME NEW s \in Streams, Accept(s) \/ Listen(s) \/ Break(s) PROVE EndInv'
    BY <2>5, <2>6, GoingEnds, LeavingEnds DEF Listen
  <2>7. ASSUME NEW s \in Streams, \E how \in {"ok", "fail"} : Execute(s, how) PROVE EndInv'
    BY <2>7, GoingEnds
  <2>8. CASE \/ QueueJob \/ OpenStream \/ ReceiveComplete \/ Interrupt \/ LeaveStream
             \/ JobExpire \/ AckTimeout \/ BeatTimeout
             \/ UNCHANGED vars
    <3>1. UNCHANGED net /\ UNCHANGED server /\ UNCHANGED runner
      BY <2>8 DEF QueueJob, OpenStream, ReceiveComplete, Interrupt, LeaveStream, JobExpire, AckTimeout, BeatTimeout, vars
    <3>2. ASSUME NEW s \in Streams PROVE Ending(s)'
      BY <3>1 DEF EndInv, Ending, Coming, net, server, runner, listener
    <3>3. QED BY <3>2 DEF EndInv
  <2>9. QED BY <2>1, <2>2, <2>3, <2>4, <2>5, <2>6, <2>7, <2>8 DEF Next, Proceed
<1>3. QED BY <1>1, <1>2, Invariance, PTL DEF Spec

\* The receiving goroutine of accept has something to take.
RunnerMayRead(s) ==
    \/ toRunner[s] # <<>> /\ Head(toRunner[s]) \in {"cancel", "eof", "err"}
    \/ toRunner[s] = <<>> /\ broken[s]

\* The handler has: an answer, an event or the end of its context.
ServerMayAct(s) ==
    \/ handler[s] = "sent" /\ (toServer[s] # <<>> \/ broken[s])
    \/ handler[s] = "serving" /\ (done[s] \/ (reading[s] /\ (toServer[s] # <<>> \/ broken[s])))

\* A call of accept that waits has what it waits for before it, or its receiving
\* goroutine has, or the handler has something to do.
Attended(s) ==
    /\ accept[s] = "waiting" => handler[s] = "asking" \/ toRunner[s] # <<>> \/ broken[s]
    /\ accept[s] \in Working /\ handler[s] = "closed" /\ Listening(s) => RunnerMayRead(s)
    /\ accept[s] = "awaiting" =>
         lastErr[s] \in {"eof", "lost"} \/ heard[s] # "none" \/ RunnerMayRead(s) \/ ServerMayAct(s)

\* Runner.accept is never left waiting for a message that nobody will send:
\* "wait for the connection to close" reads an errCh that holds one value,
\* which the check for a forced cancellation may have taken, and the handler
\* may have gone with its context before or after it read the completion.
THEOREM NobodyWaitsInVain == Spec => [](\A s \in Streams : Attended(s))
<1>1. IInv /\ HearInv /\ EndInv => \A s \in Streams : Attended(s)
  <2> SUFFICES ASSUME IInv, HearInv, EndInv, NEW s \in Streams PROVE Attended(s)
    OBVIOUS
  <2>1. TypeOK /\ Opened(s) /\ Talks(s) /\ Ending(s) /\ Hears(s)
    BY DEF IInv, HearInv, EndInv, StreamInv
  <2>2. accept[s] = "waiting" => handler[s] = "asking" \/ toRunner[s] # <<>> \/ broken[s]
    <3>1. <<"assign">> # <<>>
      OBVIOUS
    <3>2. QED BY <2>1, <3>1 DEF Opened, Ending
  <2>3. ASSUME accept[s] \in Working, handler[s] = "closed", Listening(s)
        PROVE  RunnerMayRead(s)
    <3>0. ~over[s]
      BY <2>1, <2>3 DEF Hears, Listening
    <3>1. CASE toRunner[s] = <<>>
      BY <2>1, <2>3, <3>0, <3>1 DEF Ending, Coming, RunnerMayRead
    <3>2. CASE toRunner[s] # <<>>
      <4>1. Coming(s, Head(toRunner[s])) /\ Head(toRunner[s]) \in ToRunner
        BY <2>1, <3>2, Receiving
      <4>2. Head(toRunner[s]) # "assign"
        BY <2>1, <2>3, <4>1 DEF Ending
      <4>3. QED BY <3>2, <4>1, <4>2 DEF RunnerMayRead, ToRunner
    <3>3. QED BY <3>1, <3>2
  <2>4. ASSUME accept[s] = "awaiting"
        PROVE  lastErr[s] \in {"eof", "lost"} \/ heard[s] # "none" \/ RunnerMayRead(s) \/ ServerMayAct(s)
    <3>0. /\ lastErr[s] \in {"none", "eof", "lost"}
          /\ heard[s] = "none" /\ lastErr[s] = "none" => Listening(s)
      BY <2>1, <2>4 DEF Hears, Listening, Working, TypeOK
    <3>1. SUFFICES ASSUME lastErr[s] = "none", handler[s] # "closed" PROVE ServerMayAct(s)
      BY <2>3, <2>4, <3>0 DEF Working
    <3>2. handler[s] \in {"sent", "serving"}
      BY <2>1, <2>4, <3>1 DEF Opened, TypeOK
    <3>3. CASE broken[s]
      BY <2>1, <3>2, <3>3 DEF Ending, ServerMayAct
    <3>4. CASE ~broken[s]
      BY <2>1, <2>4, <3>2, <3>4, Greetings DEF Talks, ServerMayAct
    <3>5. QED BY <3>3, <3>4
  <2>5. QED BY <2>2, <2>3, <2>4 DEF Attended
<1>2. QED BY <1>1, Invariance, HearInvariance, EndingInvariance, PTL

-------------------------------------------------------------------------------
(* The job's record.                                                       *)

\* Whatever a handler, a client or a timer does to the job is at most one
\* step of the lifecycle that the store promises: RunnerJobStream calls the
\* store once for each of the runner's messages.
THEOREM FollowsLifecycle == Spec => JL!Spec
<1>1. Init => JL!Init
  BY DEF Init
<1>2. [Next]_vars => [JL!Next]_(JL!vars)
  <2> SUFFICES ASSUME [Next]_vars PROVE UNCHANGED record \/ JL!Next
    BY DEF record, JL!vars
  <2>1. ASSUME \/ JL!Queue(Job) \/ JL!Assign(Job) \/ JL!Accept(Job) \/ JL!Reject(Job)
               \/ JL!Succeed(Job) \/ JL!Fail(Job) \/ JL!RequestCancel(Job) \/ JL!Cancel(Job)
        PROVE  JL!Next
    BY <2>1 DEF JL!Next
  <2>2. ASSUME NEW s \in Streams, Watch(s) \/ Receive(s) \/ Handle(s)
        PROVE  UNCHANGED record \/ JL!Next
    <3>1. \/ UNCHANGED record
          \/ JL!Assign(Job) \/ JL!Accept(Job) \/ JL!Reject(Job) \/ JL!Succeed(Job) \/ JL!Fail(Job)
      BY <2>2 DEF Watch, Receive, RecvEvent, RecvEnd, Handle, Assign, GiveUp, RecvAck, RecvAckLate,
                  RecvNoAck, HandleEvent, HandleEventFails, HandleDone, HandleErr, HandleJob,
                  HandleForce, Nack, Write, Finish, job
    <3>2. QED BY <2>1, <3>1
  <2>3. ASSUME NEW s \in Streams,
               \/ Accept(s) \/ Listen(s) \/ Proceed(s) \/ Break(s)
               \/ \E how \in {"ok", "fail"} : Execute(s, how)
        PROVE  UNCHANGED record
    BY <2>3 DEF job, Accept, Listen, RecvCancel, RecvStatus, FindError, PassError, ActOnCancel, Panic, Proceed, RecvAssignment, RecvNoAssignment,
                CheckForced, ReportError, ReportComplete, AwaitEnd, Break, Execute
  <2>4. CASE \/ QueueJob \/ OpenStream \/ ReceiveComplete \/ Interrupt \/ LeaveStream
             \/ JobExpire \/ AckTimeout \/ BeatTimeout
             \/ UNCHANGED vars
    <3>1. \/ UNCHANGED record
          \/ JL!Queue(Job) \/ JL!Reject(Job) \/ JL!RequestCancel(Job) \/ JL!Cancel(Job)
      BY <2>4 DEF QueueJob, OpenStream, ReceiveComplete, Interrupt, LeaveStream, JobExpire, AckTimeout, BeatTimeout,
                  JobCancel, Nack, Write, vars, job
    <3>2. QED BY <2>1, <3>1
  <2>5. QED BY <2>2, <2>3, <2>4 DEF Next
<1>3. QED BY <1>1, <1>2, PTL DEF Spec, JL!Spec

===============================================================================
