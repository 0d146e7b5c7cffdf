-------------------------- MODULE JobStreamOnceProofs --------------------------
(***************************************************************************)
(* What JobStream promises as long as no stream breaks and no timer runs   *)
(* out: one execution, and its error is not lost.  The invariant of        *)
(* JobStreamProofs says what each side of a stream knows; here it is       *)
(* joined by where the streams are to each other and to the job.           *)
(***************************************************************************)
EXTENDS JobStreamProofs, FiniteSetTheorems

\* The runner has begun to work on the job.
Began(s) == s \in Executed

\* The error that the runner has reported is on its way, or recorded.
ErrorFollows(s) ==
    /\ handler[s] = "sent" => toServer[s] = <<"ack", "error">>
    /\ handler[s] = "serving" =>
         \/ toServer[s] = <<"error">> /\ ~done[s] /\ reading[s] /\ eventCh[s] = "none"
         \/ toServer[s] = <<>> /\ done[s] /\ ~reading[s] /\ eventCh[s] = "error"
         \/ toServer[s] = <<>> /\ done[s] /\ ~reading[s] /\ eventCh[s] = "none" /\ Ended

\* Where a stream is while nothing goes wrong: a handler that has sent the
\* assignment has it, and the stream of an execution ends with the job.
Sound(s) ==
    /\ ~broken[s] /\ ~errCh[s]
    /\ handler[s] = "asking" => accept[s] = "waiting"
    /\ handler[s] = "sent" => state[Job] = "WAITING"
    /\ handler[s] = "serving" => Began(s) /\ state[Job] \in {"RUNNING"} \cup Completed
    /\ over[s] \/ Coming(s, "eof") \/ Coming(s, "err") => handler[s] = "closed"
    /\ Began(s) /\ handler[s] = "closed" => Ended
    /\ accept[s] \in Working \cup {"reported"} => Began(s)
    /\ Began(s) => accept[s] \notin {"idle", "waiting"}
    /\ Began(s) /\ accept[s] \in Returned /\ handler[s] # "closed" => accept[s] = "reported"
    /\ handler[s] = "sent" /\ Began(s) =>
         toServer[s] \in {<<"ack">>, <<"ack", "complete">>, <<"ack", "error">>}
    /\ handler[s] = "sent" /\ ~Began(s) /\ accept[s] \in Returned => toServer[s] = <<"nack">>
    /\ accept[s] = "reported" => ErrorFollows(s)

Holding == {"sent", "serving"}

\* Two streams do not have the job at once, nor one after the other.
Apart(s, t) ==
    /\ ~(Began(s) /\ Began(t))
    /\ ~(handler[s] \in Holding /\ handler[t] \in Holding)

CalmInv ==
    /\ \A s \in Streams : Sound(s)
    /\ \A s, t \in Streams : s # t => Apart(s, t)

-------------------------------------------------------------------------------
(* The other streams.                                                      *)

LEMMA BeganIs ==
    ASSUME NEW s \in Streams
    PROVE  /\ Began(s) <=> accept[s] = "working" \/ outcome[s] # "none"
           /\ Began(s)' <=> accept'[s] = "working" \/ outcome'[s] # "none"
BY DEF Began, Executed

\* A stream stays sound when another moves: only its holder moves the job.
LEMMA SoundKept ==
    ASSUME NEW t \in Streams, Sound(t), Unmoved(t), JobGrows,
           state'[Job] = state[Job] \/ handler[t] \notin Holding
    PROVE  Sound(t)' /\ (Began(t)' <=> Began(t))
<1>1. \A m : Coming(t, m)' <=> Coming(t, m)
  BY DEF Unmoved, Coming
<1>2. Began(t)' <=> Began(t)
  BY BeganIs DEF Unmoved
<1>3. ErrorFollows(t) => ErrorFollows(t)'
  BY DEF ErrorFollows, Unmoved, JobGrows
<1>4. QED BY <1>1, <1>2, <1>3 DEF Sound, Unmoved, JobGrows, Holding

LEMMA CalmFrame ==
    ASSUME CalmInv, NEW s \in Streams, JobGrows, Sound(s)',
           \A t \in Streams \ {s} : Unmoved(t),
           state'[Job] = state[Job] \/ \A t \in Streams \ {s} : handler[t] \notin Holding,
           Began(s)' => Began(s) \/ \A t \in Streams \ {s} : ~Began(t),
           handler'[s] \in Holding =>
             handler[s] \in Holding \/ \A t \in Streams \ {s} : handler[t] \notin Holding
    PROVE  CalmInv'
<1>1. ASSUME NEW t \in Streams \ {s}
      PROVE  Sound(t)' /\ (Began(t)' <=> Began(t)) /\ handler'[t] = handler[t]
  BY <1>1, SoundKept DEF CalmInv, Unmoved
<1>2. ASSUME NEW t \in Streams \ {s}
      PROVE  Apart(s, t)' /\ Apart(t, s)'
  BY <1>1, <1>2 DEF CalmInv, Apart
<1>3. ASSUME NEW t \in Streams \ {s}, NEW u \in Streams \ {s}, t # u
      PROVE  Apart(t, u)'
  BY <1>1, <1>3 DEF CalmInv, Apart
<1>4. QED BY <1>1, <1>2, <1>3 DEF CalmInv

\* Who holds the job holds it alone; nobody does while it is not out.
LEMMA Holder ==
    ASSUME CalmInv, NEW s \in Streams
    PROVE  /\ handler[s] \in Holding => \A t \in Streams \ {s} : handler[t] \notin Holding
           /\ state[Job] \in {"NONE", "QUEUED"} => \A t \in Streams : handler[t] \notin Holding
BY DEF CalmInv, Apart, Sound, Holding, Completed

-------------------------------------------------------------------------------
(* The client and the timers.                                              *)

LEMMA CalmClientSteps ==
    ASSUME IInv, CalmInv,
           \/ QueueJob \/ OpenStream \/ ReceiveComplete \/ Interrupt \/ LeaveStream \/ JobExpire
           \/ UNCHANGED vars
    PROVE  CalmInv'
<1>1. \/ UNCHANGED job
      \/ Write(JL!Queue(Job)) \/ Write(JL!RequestCancel(Job))
      \/ state[Job] = "QUEUED" /\ Write(JL!Cancel(Job))
  BY DEF QueueJob, OpenStream, ReceiveComplete, Interrupt, LeaveStream, JobExpire, JobCancel, vars
<1>2. JobGrows
  BY <1>1, JobStays, JobWritten DEF IInv
<1>3. state'[Job] = state[Job] \/ \A t \in Streams : handler[t] \notin Holding
  <2>1. state' = state \/ state[Job] \in {"NONE", "QUEUED"}
    BY <1>1 DEF job, record, Write, JL!Queue, JL!Move, JL!RequestCancel
  <2>2. QED BY <2>1, Holder
<1>4. \A t \in Streams : Unmoved(t)
  <2>1. UNCHANGED net /\ UNCHANGED server /\ UNCHANGED runner
    BY DEF QueueJob, OpenStream, ReceiveComplete, Interrupt, LeaveStream, JobExpire, vars
  <2>2. QED BY <2>1 DEF Unmoved, net, server, runner, listener
<1>5. ASSUME NEW t \in Streams PROVE Sound(t)' /\ (Began(t)' <=> Began(t)) /\ handler'[t] = handler[t]
  BY <1>2, <1>3, <1>4, SoundKept DEF CalmInv, Unmoved
<1>6. QED BY <1>5 DEF CalmInv, Apart

-------------------------------------------------------------------------------
(* RunnerJobStream.                                                        *)

\* A handler that ends after an execution leaves an ended job behind it.
LEMMA CalmClosing ==
    ASSUME IInv, CalmInv, NEW s \in Streams, NEW msgs \in Seq(ToRunner), Close(s, msgs),
           UNCHANGED runner, JobGrows, Began(s) => Ended,
           UNCHANGED record \/ handler[s] \in Holding
    PROVE  CalmInv'
<1>1. TypeOK /\ Sound(s)
  BY DEF IInv, CalmInv
<1>2. \A t \in Streams \ {s} : toRunner'[t] = toRunner[t]
  BY <1>1, Sending DEF Close
<1>3. \A t \in Streams \ {s} : Unmoved(t)
  BY <1>1, <1>2 DEF Close, runner, listener, TypeOK, Unmoved
<1>4. /\ handler'[s] = "closed" /\ ~errCh'[s] /\ broken'[s] = broken[s] /\ accept'[s] = accept[s]
      /\ Began(s)' <=> Began(s)
  BY <1>1, BeganIs DEF Close, runner, TypeOK
<1>5. Sound(s)'
  BY <1>1, <1>4 DEF Sound, ErrorFollows, JobGrows
<1>6. state'[Job] = state[Job] \/ \A t \in Streams \ {s} : handler[t] \notin Holding
  BY Holder DEF record
<1>7. QED BY <1>3, <1>4, <1>5, <1>6, CalmFrame DEF Holding

LEMMA CalmEndingSteps ==
    ASSUME IInv, CalmInv, NEW s \in Streams,
           \/ GiveUp(s) \/ RecvAckLate(s) \/ RecvNoAck(s) \/ HandleEventFails(s)
           \/ HandleDone(s) \/ HandleErr(s) \/ HandleForce(s)
    PROVE  CalmInv'
<1>1. TypeOK /\ Quiet(s) /\ Opened(s) /\ Talks(s) /\ Means(s) /\ Sound(s)
  BY DEF IInv, StreamInv, CalmInv
<1>2. ~GiveUp(s) /\ ~RecvAckLate(s) /\ ~HandleErr(s)
  BY <1>1 DEF GiveUp, RecvAckLate, HandleErr, Sound
<1>3. /\ JobGrows /\ UNCHANGED runner /\ handler[s] \in Holding
      /\ \E msgs \in Seq(ToRunner) : Close(s, msgs)
  <2>1. \/ UNCHANGED record /\ stale' = [stale EXCEPT ![s] = FALSE]
        \/ UNCHANGED job
        \/ Write(JL!Reject(Job))
    BY <1>2 DEF RecvNoAck, HandleEventFails, HandleDone, HandleForce, Nack, Finish
  <2>2. JobGrows
    <3>1. CASE UNCHANGED record /\ stale' = [stale EXCEPT ![s] = FALSE]
      BY <1>1, <3>1, JobSteps DEF TypeOK
    <3>2. QED BY <1>1, <2>1, <3>1, JobStays, JobWritten
  <2>3. UNCHANGED runner /\ handler[s] \in Holding
    BY <1>2 DEF RecvNoAck, HandleEventFails, HandleDone, HandleForce, Finish, Holding
  <2>4. Close(s, <<"err">>) \/ Close(s, <<"eof">>) \/ Close(s, <<"cancel", "eof">>)
    BY <1>2 DEF RecvNoAck, HandleEventFails, HandleDone, HandleForce, Finish
  <2>5. QED BY <2>2, <2>3, <2>4, Farewells
<1>4. ASSUME Began(s) PROVE Ended
  <2>1. CASE RecvNoAck(s)
    <3>1. toServer[s] \in {<<"ack">>, <<"ack", "complete">>, <<"ack", "error">>}
      BY <1>1, <1>4, <2>1 DEF RecvNoAck, Sound
    <3>2. toServer[s] # <<>> /\ Head(toServer[s]) = "ack"
      BY <3>1, Greetings
    <3>3. QED BY <2>1, <3>2 DEF RecvNoAck
  <2>2. CASE HandleEventFails(s)
    BY <1>1, <2>2 DEF HandleEventFails, Sound, Ended
  <2>3. CASE HandleDone(s)
    <3>1. handler[s] = "serving" /\ done[s] /\ eventCh[s] = "none"
      BY <2>3 DEF HandleDone
    <3>2. accept[s] \in Working \/ accept[s] = "reported"
      BY <1>1, <1>4, <3>1 DEF Sound, TypeOK
    <3>3. QED BY <1>1, <3>1, <3>2 DEF Sound, ErrorFollows, Talks, Working, Recorded
  <2>4. CASE HandleForce(s)
    BY <1>1, <2>4 DEF HandleForce, Means
  <2>5. QED BY <1>2, <2>1, <2>2, <2>3, <2>4
<1>5. QED BY <1>3, <1>4, CalmClosing

\* The job is given to a stream: no other has it, or has executed it.
LEMMA CalmAssignStep ==
    ASSUME IInv, CalmInv, NEW s \in Streams, Assign(s)
    PROVE  CalmInv'
<1>1. TypeOK /\ Opened(s) /\ Sound(s)
  BY DEF IInv, StreamInv, CalmInv
<1>2. JobGrows
  BY <1>1, JobWritten DEF Assign
<1>3. /\ handler[s] = "asking" /\ handler' = [handler EXCEPT ![s] = "sent"]
      /\ state[Job] = "QUEUED" /\ state'[Job] = "WAITING"
      /\ UNCHANGED <<toServer, broken, reading, done, errCh, eventCh, jobCh, runner, rest>>
  BY <1>1 DEF Assign, Write, JL!Assign, JL!Move, TypeOK, JL!TypeOK
<1>4. accept[s] = "waiting" /\ ~Began(s) /\ toRunner[s] = <<>>
  BY <1>1, <1>3 DEF Sound, Opened
<1>5. /\ \A t \in Streams \ {s} : toRunner'[t] = toRunner[t]
      /\ ~Coming(s, "eof")' /\ ~Coming(s, "err")'
  <2>1. toRunner' = SentToRunner(s, <<"assign">>) /\ <<"assign">> \in Seq(ToRunner)
    BY Farewells DEF Assign
  <2>2. /\ \A t \in Streams \ {s} : toRunner'[t] = toRunner[t]
        /\ \A m : Coming(s, m)' =>
             \/ Coming(s, m)
             \/ /\ ~broken[s] /\ accept[s] \notin Returned
                /\ \E i \in 1 .. Len(<<"assign">>) : <<"assign">>[i] = m
    BY <1>1, <2>1, Sending
  <2>3. \A m : ~Coming(s, m)
    BY <1>4 DEF Coming
  <2>4. \A i \in 1 .. Len(<<"assign">>) : <<"assign">>[i] = "assign"
    BY Farewells
  <2>5. QED BY <2>2, <2>3, <2>4
<1>6. \A t \in Streams \ {s} : Unmoved(t)
  BY <1>1, <1>3, <1>5 DEF TypeOK, Unmoved, runner, listener
<1>7. handler'[s] = "sent" /\ accept'[s] = "waiting" /\ (Began(s)' <=> Began(s))
  BY <1>1, <1>3, <1>4, BeganIs DEF TypeOK, runner
<1>8. Sound(s)'
  BY <1>1, <1>3, <1>4, <1>5, <1>7 DEF Sound, ErrorFollows, runner, listener, Working, Returned
<1>9. QED BY <1>2, <1>3, <1>6, <1>7, <1>8, Holder, CalmFrame

\* The ack: a runner that has sent it is at work.
LEMMA CalmAckStep ==
    ASSUME IInv, CalmInv, NEW s \in Streams, RecvAck(s)
    PROVE  CalmInv'
<1>1. TypeOK /\ Quiet(s) /\ Opened(s) /\ Flows(s) /\ Sound(s)
  BY DEF IInv, StreamInv, CalmInv
<1>2. JobGrows
  <2>1. stale' \in [Streams -> BOOLEAN]
    BY <1>1 DEF RecvAck, TypeOK
  <2>2. QED BY <1>1, <2>1, JobSteps DEF RecvAck
<1>3. /\ handler[s] = "sent" /\ toServer[s] # <<>> /\ Head(toServer[s]) = "ack"
      /\ toServer' = [toServer EXCEPT ![s] = Tail(@)] /\ state'[Job] = "RUNNING"
      /\ handler' = [handler EXCEPT ![s] = "serving"] /\ reading' = [reading EXCEPT ![s] = TRUE]
      /\ UNCHANGED <<toRunner, broken, done, errCh, eventCh, jobCh, runner, rest>>
  BY <1>1 DEF RecvAck, JL!Accept, JL!Move, TypeOK, JL!TypeOK
<1>4. Began(s)
  <2>1. toServer[s] # <<"nack">>
    BY <1>3, Greetings
  <2>2. accept[s] \notin {"idle", "waiting"}
    BY <1>1, <1>3 DEF Opened
  <2>3. QED BY <1>1, <1>3, <2>1, <2>2 DEF Sound, TypeOK
<1>5. /\ handler'[s] = "serving" /\ reading'[s] /\ toServer'[s] = Tail(toServer[s])
      /\ accept'[s] = accept[s] /\ (Began(s)' <=> Began(s))
      /\ \A t \in Streams \ {s} : Unmoved(t)
  BY <1>1, <1>3, BeganIs DEF TypeOK, Unmoved, runner, listener
<1>6. accept[s] = "reported" =>
        toServer'[s] = <<"error">> /\ ~done'[s] /\ reading'[s] /\ eventCh'[s] = "none"
  <2>1. accept[s] = "reported" => toServer[s] = <<"ack", "error">>
    BY <1>1, <1>3 DEF Sound, ErrorFollows
  <2>2. ~done[s] /\ eventCh[s] = "none"
    BY <1>1, <1>3 DEF Quiet, Sound
  <2>3. QED BY <1>3, <1>5, <2>1, <2>2, Greetings
<1>7. (Coming(s, "eof")' <=> Coming(s, "eof")) /\ (Coming(s, "err")' <=> Coming(s, "err"))
  BY <1>3 DEF Coming
<1>8. Sound(s)'
  BY <1>1, <1>3, <1>4, <1>5, <1>6, <1>7 DEF Sound, ErrorFollows, runner, listener
<1>9. QED BY <1>2, <1>3, <1>4, <1>5, <1>8, Holder, CalmFrame DEF Holding

-------------------------------------------------------------------------------
(* What goes on while the handler serves.                                  *)

LEMMA CalmServingSteps ==
    ASSUME IInv, CalmInv, NEW s \in Streams, Watch(s) \/ HandleJob(s)
    PROVE  CalmInv'
<1>1. TypeOK /\ Sound(s)
  BY DEF IInv, CalmInv
<1>2. JobGrows
  <2>1. UNCHANGED record /\ stale' \in [Streams -> BOOLEAN]
    BY <1>1 DEF Watch, HandleJob, job, TypeOK
  <2>2. QED BY <1>1, <2>1, JobSteps
<1>3. UNCHANGED <<record, toServer, broken, handler, reading, done, errCh, eventCh, runner, rest>>
  BY DEF Watch, HandleJob, job, net
<1>4. /\ \A t \in Streams \ {s} : toRunner'[t] = toRunner[t]
      /\ Coming(s, "eof")' => Coming(s, "eof")
      /\ Coming(s, "err")' => Coming(s, "err")
  <2>1. CASE toRunner' = toRunner
    BY <2>1 DEF Coming
  <2>2. CASE toRunner' = SentToRunner(s, <<"cancel">>)
    <3>1. /\ \A t \in Streams \ {s} : toRunner'[t] = toRunner[t]
          /\ \A m : Coming(s, m)' =>
               \/ Coming(s, m)
               \/ /\ ~broken[s] /\ accept[s] \notin Returned
                  /\ \E i \in 1 .. Len(<<"cancel">>) : <<"cancel">>[i] = m
      BY <1>1, <2>2, Sending, Farewells
    <3>2. \A i \in 1 .. Len(<<"cancel">>) : <<"cancel">>[i] = "cancel"
      BY Farewells
    <3>3. QED BY <3>1, <3>2
  <2>3. QED BY <2>1, <2>2 DEF Watch, HandleJob, net
<1>5. \A t \in Streams \ {s} : jobCh'[t] = jobCh[t]
  BY <1>1 DEF Watch, HandleJob, TypeOK
<1>6. \A t \in Streams \ {s} : Unmoved(t)
  BY <1>3, <1>4, <1>5 DEF Unmoved, runner, listener
<1>7. Began(s)' <=> Began(s)
  BY <1>3, BeganIs DEF runner
<1>8. Sound(s)'
  <2>1. ErrorFollows(s) => ErrorFollows(s)'
    BY <1>2, <1>3 DEF ErrorFollows, JobGrows
  <2>2. QED BY <1>1, <1>2, <1>3, <1>4, <1>7, <2>1 DEF Sound, runner, listener, record, JobGrows
<1>9. QED BY <1>2, <1>3, <1>6, <1>7, <1>8, CalmFrame DEF record

\* A runner that has left after an error has its event received.
LEMMA CalmReceiveStep ==
    ASSUME IInv, CalmInv, NEW s \in Streams, Receive(s)
    PROVE  CalmInv'
<1>1. TypeOK /\ Flows(s) /\ Sound(s)
  BY DEF IInv, StreamInv, CalmInv
<1>2. JobGrows
  BY <1>1, JobStays DEF Receive, RecvEvent, RecvEnd
<1>3. /\ handler[s] = "serving" /\ reading[s]
      /\ reading' = [reading EXCEPT ![s] = FALSE] /\ done' = [done EXCEPT ![s] = TRUE]
      /\ UNCHANGED <<job, toRunner, broken, handler, jobCh, runner, rest>>
  BY DEF Receive, RecvEvent, RecvEnd, net
<1>4. accept[s] = "reported" =>
        toServer[s] \in {<<>>, <<"error">>} /\ (toServer[s] = <<"error">> => ~done[s])
  BY <1>1, <1>3 DEF Sound, ErrorFollows
<1>5. /\ \A t \in Streams \ {s} :
           toServer'[t] = toServer[t] /\ eventCh'[t] = eventCh[t] /\ errCh'[t] = errCh[t]
      /\ ~errCh'[s]
      /\ accept[s] = "reported" => toServer'[s] = <<>> /\ eventCh'[s] = "error"
  <2>1. CASE RecvEvent(s)
    <3>1. toServer[s] # <<>> /\ toServer' = [toServer EXCEPT ![s] = Tail(@)] /\ UNCHANGED errCh
      BY <2>1 DEF RecvEvent
    <3>2. CASE eventCh' = [eventCh EXCEPT ![s] = Head(toServer[s])]
      <4>1. /\ eventCh'[s] = Head(toServer[s]) /\ toServer'[s] = Tail(toServer[s])
            /\ \A t \in Streams \ {s} : toServer'[t] = toServer[t] /\ eventCh'[t] = eventCh[t]
        BY <1>1, <3>1, <3>2 DEF TypeOK
      <4>2. QED BY <1>1, <1>4, <3>1, <4>1, Greetings DEF Sound
    <3>3. CASE done[s] /\ UNCHANGED eventCh
      <4>1. \A t \in Streams \ {s} : toServer'[t] = toServer[t]
        BY <1>1, <3>1 DEF TypeOK
      <4>2. QED BY <1>1, <1>4, <3>1, <3>3, <4>1 DEF Sound
    <3>4. QED BY <2>1, <3>2, <3>3 DEF RecvEvent
  <2>2. CASE RecvEnd(s)
    <3>1. /\ toServer[s] = <<>> /\ errCh' = [errCh EXCEPT ![s] = broken[s]]
          /\ UNCHANGED toServer /\ UNCHANGED eventCh
      BY <2>2 DEF RecvEnd, net
    <3>2. accept[s] # "reported"
      BY <1>1, <1>3, <3>1, Greetings DEF Sound, ErrorFollows
    <3>3. QED BY <1>1, <3>1, <3>2 DEF Sound, TypeOK
  <2>3. QED BY <2>1, <2>2 DEF Receive
<1>6. ~reading'[s] /\ done'[s] /\ \A t \in Streams \ {s} : Unmoved(t)
  BY <1>1, <1>3, <1>5 DEF TypeOK, Unmoved, runner, listener
<1>7. Began(s)' <=> Began(s)
  BY <1>3, BeganIs DEF runner
<1>8. (Coming(s, "eof")' <=> Coming(s, "eof")) /\ (Coming(s, "err")' <=> Coming(s, "err"))
  BY <1>3 DEF Coming
<1>9. Sound(s)'
  BY <1>1, <1>3, <1>5, <1>6, <1>7, <1>8 DEF Sound, ErrorFollows, runner, listener, job, record, Ended
<1>10. QED BY <1>2, <1>3, <1>6, <1>7, <1>9, CalmFrame DEF job, record

\* The event ends the job.
LEMMA CalmEventStep ==
    ASSUME IInv, CalmInv, NEW s \in Streams, HandleEvent(s)
    PROVE  CalmInv'
<1>1. TypeOK /\ Sound(s)
  BY DEF IInv, CalmInv
<1>2. JobGrows
  BY <1>1, JobWritten DEF HandleEvent
<1>3. /\ handler[s] = "serving" /\ eventCh[s] # "none" /\ eventCh' = [eventCh EXCEPT ![s] = "none"]
      /\ UNCHANGED <<net, handler, reading, done, errCh, jobCh, runner, rest>>
  BY DEF HandleEvent
<1>4. state'[Job] \in Completed /\ Ended'
  BY <1>1 DEF HandleEvent, Write, JL!Succeed, JL!Fail, JL!Move, Ended, Completed, TypeOK, JL!TypeOK
<1>5. eventCh'[s] = "none" /\ \A t \in Streams \ {s} : Unmoved(t)
  BY <1>1, <1>3 DEF TypeOK, Unmoved, net, runner, listener
<1>6. Began(s)' <=> Began(s)
  BY <1>3, BeganIs DEF runner
<1>7. (Coming(s, "eof")' <=> Coming(s, "eof")) /\ (Coming(s, "err")' <=> Coming(s, "err"))
  BY <1>3 DEF Coming, net
<1>8. Sound(s)'
  <2>1. ErrorFollows(s) => ErrorFollows(s)'
    BY <1>3, <1>4, <1>5 DEF ErrorFollows, net
  <2>2. QED BY <1>1, <1>3, <1>4, <1>6, <1>7, <2>1 DEF Sound, net, runner, listener
<1>9. QED BY <1>2, <1>3, <1>5, <1>6, <1>8, Holder, CalmFrame DEF Holding

-------------------------------------------------------------------------------
(* Runner.accept.                                                          *)

LEMMA CalmAcceptStep ==
    ASSUME IInv, CalmInv, NEW s \in Streams, Accept(s)
    PROVE  CalmInv'
<1>1. TypeOK /\ Opened(s) /\ Sound(s)
  BY DEF IInv, StreamInv, CalmInv
<1>2. JobGrows
  BY <1>1, JobStays DEF Accept
<1>3. /\ accept[s] = "idle" /\ accept' = [accept EXCEPT ![s] = "waiting"]
      /\ handler' = [handler EXCEPT ![s] = "asking"]
      /\ UNCHANGED <<job, net, reading, done, errCh, eventCh, jobCh, outcome, err, listener, rest>>
  BY DEF Accept
<1>4. handler[s] = "idle" /\ ~Began(s)
  BY <1>1, <1>3 DEF Opened, Sound
<1>5. /\ accept'[s] = "waiting" /\ handler'[s] = "asking"
      /\ \A t \in Streams \ {s} : Unmoved(t)
  BY <1>1, <1>3 DEF TypeOK, Unmoved, net, listener
<1>6. ~Began(s)'
  BY <1>3, <1>4, <1>5, BeganIs
<1>7. (Coming(s, "eof")' <=> Coming(s, "eof")) /\ (Coming(s, "err")' <=> Coming(s, "err"))
  BY <1>3 DEF Coming, net
<1>8. Sound(s)'
  BY <1>1, <1>3, <1>4, <1>5, <1>6, <1>7 DEF Sound, net, listener, Working, Returned
<1>9. QED BY <1>2, <1>3, <1>5, <1>6, <1>8, CalmFrame DEF job, record, Holding

\* A step of accept leaves the job and the handlers alone.
LEMMA CalmRunnerFrame ==
    ASSUME IInv, CalmInv, NEW s \in Streams, Sound(s)',
           \A t \in Streams \ {s} : Unmoved(t),
           UNCHANGED job, UNCHANGED server,
           Began(s)' => Began(s) \/ \A t \in Streams \ {s} : ~Began(t)
    PROVE  CalmInv'
<1>1. JobGrows
  BY JobStays DEF IInv
<1>2. QED BY <1>1, CalmFrame DEF job, record, server

\* accept returns: nothing more comes, and what has begun has ended or been
\* reported.
LEMMA CalmReturning ==
    ASSUME IInv, CalmInv, NEW s \in Streams, NEW how \in Returned, Return(s, how),
           UNCHANGED <<job, broken, server, outcome>>,
           \A t \in Streams \ {s} : toServer'[t] = toServer[t],
           accept[s] \notin {"idle", "working"}, handler[s] \notin {"idle", "asking"},
           how = "reported" => Began(s),
           handler[s] \in Holding /\ Began(s) =>
             how = "reported" /\ ErrorFollows(s)',
           handler[s] = "sent" /\ Began(s) => toServer'[s] = <<"ack", "error">>,
           handler[s] = "sent" /\ ~Began(s) => toServer'[s] = <<"nack">>
    PROVE  CalmInv'
<1>1. TypeOK /\ Sound(s)
  BY DEF IInv, CalmInv
<1>2. /\ accept'[s] = how /\ ~over'[s] /\ toRunner'[s] = <<>>
      /\ \A t \in Streams \ {s} : Unmoved(t)
  BY <1>1 DEF TypeOK, Return, Unmoved, server
<1>3. ~Coming(s, "eof")' /\ ~Coming(s, "err")'
  BY <1>2 DEF Coming
<1>4. how \in {"failed", "forced", "reported", "completed", "crashed"}
  BY DEF Returned
<1>5. Began(s)' <=> Began(s)
  BY <1>2, <1>4, BeganIs
<1>6. Sound(s)'
  <2>1. handler[s] \in {"sent", "serving", "closed"} /\ handler'[s] = handler[s]
    BY <1>1 DEF TypeOK, server
  <2>2. how = "reported" => ErrorFollows(s)'
    <3>1. CASE handler[s] = "closed"
      BY <2>1, <3>1 DEF ErrorFollows
    <3>2. CASE handler[s] \in Holding
      BY <3>2
    <3>3. QED BY <2>1, <3>1, <3>2 DEF Holding
  <2>3. broken'[s] = broken[s] /\ errCh'[s] = errCh[s] /\ state' = state /\ (Ended' <=> Ended)
    BY DEF server, job, record, Ended
  <2>4. QED BY <1>1, <1>2, <1>3, <1>4, <1>5, <2>1, <2>2, <2>3 DEF Sound, Working, Returned, Holding
<1>7. QED BY <1>2, <1>5, <1>6, CalmRunnerFrame

\* A runner that has the assignment is the only one that begins.
LEMMA Beginner ==
    ASSUME IInv, CalmInv, NEW s \in Streams, handler[s] = "sent", accept[s] = "waiting"
    PROVE  \A t \in Streams \ {s} : ~Began(t)
<1>1. SUFFICES ASSUME NEW t \in Streams \ {s}, Began(t) PROVE FALSE
  OBVIOUS
<1>2. TypeOK /\ Opened(t) /\ Sound(t) /\ Sound(s)
  BY DEF IInv, StreamInv, CalmInv
<1>3. handler[t] \notin Holding
  BY Holder DEF Holding
<1>4. ~Ended
  BY <1>2 DEF Sound, Ended, Completed
<1>5. handler[t] \in {"idle", "asking"}
  BY <1>1, <1>2, <1>3, <1>4 DEF TypeOK, Holding, Sound
<1>6. accept[t] \in {"idle", "waiting"}
  BY <1>2, <1>5 DEF Opened, Sound
<1>7. QED BY <1>1, <1>2, <1>6 DEF Sound

LEMMA CalmAssignmentSteps ==
    ASSUME IInv, CalmInv, NEW s \in Streams, RecvAssignment(s) \/ RecvNoAssignment(s)
    PROVE  CalmInv'
<1>1. TypeOK /\ Opened(s) /\ Sound(s)
  BY DEF IInv, StreamInv, CalmInv
<1>2. accept[s] = "waiting" /\ ~broken[s] /\ ~Began(s) /\ toServer[s] = <<>>
  BY <1>1 DEF RecvAssignment, RecvNoAssignment, Opened, Sound
<1>3. RecvAssignment(s) /\ handler[s] = "sent"
  <2>1. toRunner[s] \in {<<>>, <<"assign">>} /\ handler[s] \in {"asking", "sent"}
    BY <1>1, <1>2 DEF Opened
  <2>2. <<"assign">> # <<>> /\ Head(<<"assign">>) = "assign"
    OBVIOUS
  <2>3. ~RecvNoAssignment(s)
    BY <1>2, <2>1, <2>2 DEF RecvNoAssignment
  <2>4. toRunner[s] # <<>>
    BY <2>3 DEF RecvAssignment
  <2>5. QED BY <1>1, <2>1, <2>3, <2>4 DEF Opened
<1>4. UNCHANGED <<job, broken, server, outcome, rest>> /\ ~SendFails(s)
  BY <1>1, <1>2, <1>3 DEF RecvAssignment, SendFails, Sound
<1>5. ASSUME NEW m \in ToServer, toServer' = SentToServer(s, m)
      PROVE  toServer'[s] = <<m>> /\ \A t \in Streams \ {s} : toServer'[t] = toServer[t]
  <2>1. toServer'[s] = Append(toServer[s], m) /\ \A t \in Streams \ {s} : toServer'[t] = toServer[t]
    BY <1>1, <1>2, <1>3, <1>5, Answering
  <2>2. QED BY <1>2, <2>1, Answers
<1>6. CASE toServer' = SentToServer(s, "nack") /\ Return(s, "failed")
  <2>1. toServer'[s] = <<"nack">> /\ \A t \in Streams \ {s} : toServer'[t] = toServer[t]
    BY <1>5, <1>6 DEF ToServer
  <2>2. "failed" \in Returned
    BY DEF Returned
  <2>3. QED BY <1>2, <1>3, <1>4, <1>6, <2>1, <2>2, CalmReturning
<1>7. CASE /\ toServer' = SentToServer(s, "ack") /\ accept' = [accept EXCEPT ![s] = "working"]
           /\ toRunner' = [toRunner EXCEPT ![s] = Tail(@)] /\ UNCHANGED <<err, listener>>
  <2>1. toServer'[s] = <<"ack">> /\ \A t \in Streams \ {s} : toServer'[t] = toServer[t]
    BY <1>5, <1>7 DEF ToServer
  <2>2. /\ toRunner'[s] = Tail(toRunner[s]) /\ accept'[s] = "working"
        /\ \A t \in Streams \ {s} : Unmoved(t)
    BY <1>1, <1>4, <1>7, <2>1 DEF TypeOK, Unmoved, server, listener
  <2>3. toRunner[s] # <<>>
    BY <1>3 DEF RecvAssignment
  <2>4. \A m : Coming(s, m)' => Coming(s, m)
    BY <1>1, <2>2, <2>3, Receiving DEF Coming
  <2>5. Began(s)'
    BY <2>2, BeganIs
  <2>6. Sound(s)'
    <3>1. handler'[s] = "sent" /\ ~broken'[s] /\ ~errCh'[s] /\ state' = state /\ ~over'[s]
      BY <1>1, <1>2, <1>3, <1>4, <1>7 DEF server, job, record, listener, Sound
    <3>2. QED BY <1>1, <1>2, <1>3, <2>1, <2>2, <2>4, <2>5, <3>1 DEF Sound, Returned, Working
  <2>7. QED BY <1>2, <1>3, <1>4, <2>2, <2>6, Beginner, CalmRunnerFrame
<1>8. QED BY <1>3, <1>4, <1>6, <1>7 DEF RecvAssignment

\* A step that neither sends nor returns: at most it reads what has come.
LEMMA CalmWorking ==
    ASSUME IInv, CalmInv, NEW s \in Streams,
           accept[s] \in Working, accept'[s] \in Working,
           accept[s] = "working" => accept'[s] = "working" \/ outcome'[s] # "none",
           outcome[s] # "none" => outcome'[s] # "none",
           \A t \in Streams \ {s} : Unmoved(t),
           UNCHANGED job, UNCHANGED server, broken' = broken,
           handler[s] # "closed" => toServer'[s] = toServer[s] /\ ~over'[s],
           handler[s] # "closed" => ~Coming(s, "eof")' /\ ~Coming(s, "err")'
    PROVE  CalmInv'
<1>1. TypeOK /\ Sound(s)
  BY DEF IInv, CalmInv
<1>2. Began(s) /\ Began(s)'
  BY <1>1, BeganIs DEF Sound
<1>3. Sound(s)'
  <2>1. /\ handler' = handler /\ errCh' = errCh /\ state' = state /\ (Ended' <=> Ended)
    BY DEF server, job, record, Ended
  <2>2. QED BY <1>1, <1>2, <2>1 DEF Sound, Working, Returned
<1>4. QED BY <1>2, <1>3, CalmRunnerFrame

LEMMA CalmListenStep ==
    ASSUME IInv, CalmInv, NEW s \in Streams,
           RecvCancel(s) \/ RecvStatus(s) \/ FindError(s) \/ PassError(s) \/ ActOnCancel(s)
    PROVE  CalmInv'
<1>1. TypeOK /\ Sound(s)
  BY DEF IInv, CalmInv
<1>2. /\ accept[s] \in Working
      /\ UNCHANGED <<job, toServer, broken, server, accept, outcome, rest>>
  BY DEF Listening, RecvCancel, RecvStatus, FindError, PassError, ActOnCancel, net
<1>3. CASE RecvCancel(s)
  <2>1. /\ toRunner[s] # <<>> /\ toRunner' = [toRunner EXCEPT ![s] = Tail(@)]
        /\ err' = [err EXCEPT ![s] = "nil"] /\ UNCHANGED <<over, lastErr>>
    BY <1>3 DEF RecvCancel
  <2>2. toRunner'[s] = Tail(toRunner[s]) /\ \A t \in Streams \ {s} : Unmoved(t)
    BY <1>1, <1>2, <2>1 DEF TypeOK, Unmoved, server
  <2>3. \A m : Coming(s, m)' => Coming(s, m)
    BY <1>1, <2>1, <2>2, Receiving DEF Coming
  <2>4. QED BY <1>1, <1>2, <2>1, <2>2, <2>3, CalmWorking DEF Sound
<1>4. CASE RecvStatus(s)
  <2>1. handler[s] = "closed"
    <3>1. toRunner[s] # <<>> /\ Head(toRunner[s]) \in {"eof", "err"}
      BY <1>1, <1>4 DEF RecvStatus, Sound
    <3>2. Coming(s, "eof") \/ Coming(s, "err")
      BY <1>1, <3>1, Receiving
    <3>3. QED BY <1>1, <3>2 DEF Sound
  <2>2. \A t \in Streams \ {s} :
          /\ toRunner'[t] = toRunner[t] /\ over'[t] = over[t]
          /\ lastErr'[t] = lastErr[t] /\ err'[t] = err[t]
    <3>1. PICK e : err' = [err EXCEPT ![s] = e]
      BY <1>4 DEF RecvStatus
    <3>2. QED BY <1>1, <1>4, <3>1 DEF RecvStatus, TypeOK
  <2>3. \A t \in Streams \ {s} : Unmoved(t)
    BY <1>2, <2>2 DEF Unmoved, server
  <2>4. QED BY <1>2, <2>1, <2>3, CalmWorking
<1>5. CASE FindError(s) \/ PassError(s) \/ ActOnCancel(s)
  <2>1. /\ UNCHANGED <<toRunner, err, over>>
        /\ \A t \in Streams \ {s} : lastErr'[t] = lastErr[t]
    BY <1>1, <1>5 DEF FindError, PassError, ActOnCancel, net, TypeOK
  <2>2. \A t \in Streams \ {s} : Unmoved(t)
    BY <1>2, <2>1 DEF Unmoved, server
  <2>3. \A m : Coming(s, m)' <=> Coming(s, m)
    BY <2>1 DEF Coming
  <2>4. QED BY <1>1, <1>2, <2>1, <2>2, <2>3, CalmWorking DEF Sound
<1>6. QED BY <1>3, <1>4, <1>5

LEMMA CalmExecuteStep ==
    ASSUME IInv, CalmInv, NEW s \in Streams, NEW how \in {"ok", "fail"}, Execute(s, how)
    PROVE  CalmInv'
<1>1. TypeOK /\ Sound(s)
  BY DEF IInv, CalmInv
<1>2. /\ accept[s] = "working" /\ UNCHANGED <<job, net, server, over, lastErr, rest>>
      /\ accept' = [accept EXCEPT ![s] = "worked"] /\ outcome' = [outcome EXCEPT ![s] = how]
      /\ err' = [err EXCEPT ![s] = IF how = "ok" THEN "nil" ELSE "fail"]
  BY DEF Execute, listener
<1>3. accept'[s] = "worked" /\ outcome'[s] # "none" /\ \A t \in Streams \ {s} : Unmoved(t)
  BY <1>1, <1>2 DEF TypeOK, Unmoved, net, server
<1>4. (Coming(s, "eof")' <=> Coming(s, "eof")) /\ (Coming(s, "err")' <=> Coming(s, "err"))
  BY <1>2 DEF Coming, net
<1>5. handler[s] # "closed" =>
        ~over'[s] /\ ~Coming(s, "eof")' /\ ~Coming(s, "err")'
  BY <1>1, <1>2, <1>4 DEF Sound
<1>6. accept[s] \in Working /\ accept'[s] \in Working
  BY <1>2, <1>3 DEF Working
<1>7. QED BY <1>2, <1>3, <1>5, <1>6, CalmWorking DEF net

\* A runner that has met the end of its stream may return as it likes.
LEMMA CalmAfter ==
    ASSUME IInv, CalmInv, NEW s \in Streams, NEW how \in Returned, Return(s, how),
           UNCHANGED <<job, broken, server, outcome>>, UNCHANGED toServer,
           accept[s] \in Working \ {"working"}, handler[s] = "closed"
    PROVE  CalmInv'
<1>1. Sound(s) /\ Began(s)
  BY DEF CalmInv, Sound
<1>2. accept[s] \notin {"idle", "working"} /\ handler[s] \notin {"idle", "asking"} \cup Holding
  BY DEF Working, Holding
<1>3. QED BY <1>1, <1>2, CalmReturning DEF Holding

LEMMA CalmForcedSteps ==
    ASSUME IInv, CalmInv, NEW s \in Streams, Hears(s), CheckForced(s) \/ AwaitEnd(s) \/ Panic(s)
    PROVE  CalmInv'
<1>1. TypeOK /\ Sound(s)
  BY DEF IInv, CalmInv
<1>2. /\ accept[s] \in Working \ {"working"}
      /\ UNCHANGED <<job, toServer, broken, server, outcome>>
  BY DEF CheckForced, AwaitEnd, Panic, Working, Hears
<1>3. over[s] => handler[s] = "closed"
  BY <1>1 DEF Sound
<1>4. CASE \E how \in Returned : Return(s, how) /\ over[s]
  BY <1>2, <1>3, <1>4, CalmAfter
<1>5. CASE /\ accept' = [accept EXCEPT ![s] = "reporting"]
           /\ UNCHANGED <<err, over, toRunner>>
           /\ lastErr' = lastErr \/ lastErr' = [lastErr EXCEPT ![s] = "taken"]
  <2>1. /\ \A t \in Streams \ {s} : lastErr'[t] = lastErr[t]
        /\ handler[s] # "closed" => ~over'[s]
    BY <1>1, <1>3, <1>5 DEF TypeOK
  <2>2. accept'[s] = "reporting" /\ \A t \in Streams \ {s} : Unmoved(t)
    BY <1>1, <1>2, <1>5, <2>1 DEF TypeOK, Unmoved, server
  <2>3. (Coming(s, "eof")' <=> Coming(s, "eof")) /\ (Coming(s, "err")' <=> Coming(s, "err"))
    BY <1>5 DEF Coming
  <2>4. handler[s] # "closed" => ~Coming(s, "eof")' /\ ~Coming(s, "err")'
    BY <1>1, <2>3 DEF Sound
  <2>5. accept[s] \in Working /\ accept[s] # "working" /\ accept'[s] \in Working
    BY <1>2, <2>2 DEF Working
  <2>6. QED BY <1>2, <2>1, <2>2, <2>4, <2>5, CalmWorking
<1>6. CASE CheckForced(s)
  <2>1. \/ Return(s, "forced") /\ over[s]
        \/ /\ accept' = [accept EXCEPT ![s] = "reporting"]
           /\ UNCHANGED <<err, over, toRunner>>
           /\ lastErr' = lastErr \/ lastErr' = [lastErr EXCEPT ![s] = "taken"]
    BY <1>6 DEF CheckForced, Go, listener, Hears
  <2>2. "forced" \in Returned
    BY DEF Returned
  <2>3. QED BY <1>4, <1>5, <2>1, <2>2
<1>7. CASE AwaitEnd(s)
  <2>1. (Return(s, "completed") \/ Return(s, "failed")) /\ over[s]
    BY <1>7 DEF AwaitEnd, Hears
  <2>2. "completed" \in Returned /\ "failed" \in Returned
    BY DEF Returned
  <2>3. QED BY <1>4, <2>1, <2>2
<1>8. CASE Panic(s)
  BY <1>4, <1>8 DEF Panic, Hears, Returned
<1>9. QED BY <1>6, <1>7, <1>8

\* The report of a runner whose handler is still there reaches it.
LEMMA CalmReportSteps ==
    ASSUME IInv, CalmInv, NEW s \in Streams, ReportError(s) \/ ReportComplete(s)
    PROVE  CalmInv'
<1>1. TypeOK /\ Opened(s) /\ Talks(s) /\ Sound(s)
  BY DEF IInv, StreamInv, CalmInv
<1>2. /\ accept[s] = "reporting" /\ accept[s] \in Working \ {"working"}
      /\ UNCHANGED <<job, broken, server, outcome, rest>>
  BY DEF ReportError, ReportComplete, Working
<1>3. handler[s] \in {"sent", "serving", "closed"} /\ Began(s) /\ ~broken[s]
  BY <1>1, <1>2 DEF Opened, Sound, TypeOK
<1>4. handler[s] # "closed" => SendPasses(s) /\ ~SendFails(s)
  BY <1>1 DEF Sound, SendPasses, SendFails
<1>5. ASSUME NEW m \in {"complete", "error"}, toServer' = SentToServer(s, m), handler[s] # "closed"
      PROVE  /\ handler[s] = "sent" => toServer'[s] = <<"ack", m>>
             /\ handler[s] = "serving" => toServer'[s] = <<m>>
  <2>1. toServer'[s] = Append(toServer[s], m)
    BY <1>1, <1>3, <1>5, Answering DEF ToServer
  <2>2. /\ handler[s] = "sent" => toServer[s] = <<"ack">>
        /\ handler[s] = "serving" => toServer[s] = <<>>
    BY <1>1, <1>2, <1>3 DEF Talks
  <2>3. QED BY <2>1, <2>2, Answers DEF ToServer
<1>6. ASSUME NEW m \in {"complete", "error"}, toServer' = SentToServer(s, m)
      PROVE  \A t \in Streams \ {s} : toServer'[t] = toServer[t]
  BY <1>1, <1>6, Answering DEF ToServer
<1>7. ASSUME NEW m \in {"complete", "error"}, toServer' = SentToServer(s, m), handler[s] = "closed"
      PROVE  UNCHANGED toServer
  BY <1>7 DEF SentToServer
<1>8. CASE ReportError(s)
  <2>1. /\ Return(s, "reported") /\ "reported" \in Returned
        /\ toServer' = toServer \/ toServer' = SentToServer(s, "error")
        /\ handler[s] # "closed" => toServer' = SentToServer(s, "error")
    BY <1>4, <1>8 DEF ReportError, Returned
  <2>2. CASE handler[s] = "closed"
    <3>1. UNCHANGED toServer
      BY <1>7, <2>1, <2>2
    <3>2. QED BY <1>2, <2>1, <2>2, <3>1, CalmAfter
  <2>3. CASE handler[s] # "closed"
    <3>1. /\ handler[s] = "sent" => toServer'[s] = <<"ack", "error">>
          /\ handler[s] = "serving" => toServer'[s] = <<"error">>
      BY <1>5, <2>1, <2>3
    <3>2. handler[s] = "serving" => ~done[s] /\ reading[s] /\ eventCh[s] = "none"
      BY <1>1, <1>2, <1>3 DEF Talks
    <3>3. ErrorFollows(s)'
      BY <1>2, <3>1, <3>2 DEF ErrorFollows, server
    <3>4. \A t \in Streams \ {s} : toServer'[t] = toServer[t]
      BY <1>6, <2>1, <2>3
    <3>5. accept[s] \notin {"idle", "working"} /\ handler[s] \notin {"idle", "asking"}
      BY <1>2, <1>3
    <3>6. QED BY <1>2, <1>3, <2>1, <3>1, <3>3, <3>4, <3>5, CalmReturning
  <2>4. QED BY <2>2, <2>3
<1>9. CASE ReportComplete(s)
  <2>1. CASE SendFails(s) /\ Return(s, "failed") /\ UNCHANGED toServer
    <3>1. "failed" \in Returned /\ handler[s] = "closed"
      BY <1>4, <2>1 DEF Returned
    <3>2. QED BY <1>2, <2>1, <3>1, CalmAfter
  <2>2. CASE SendPasses(s) /\ toServer' = SentToServer(s, "complete") /\ Go(s, "awaiting")
    <3>1. \A t \in Streams \ {s} : toServer'[t] = toServer[t]
      BY <1>6, <2>2
    <3>2. /\ accept'[s] = "awaiting" /\ UNCHANGED <<over, toRunner>>
          /\ \A t \in Streams \ {s} : Unmoved(t)
      BY <1>1, <1>2, <2>2, <3>1 DEF Go, listener, TypeOK, Unmoved, server
    <3>3. Began(s)'
      BY <1>2, <1>3, BeganIs
    <3>4. (Coming(s, "eof")' <=> Coming(s, "eof")) /\ (Coming(s, "err")' <=> Coming(s, "err"))
      BY <3>2 DEF Coming
    <3>5. handler[s] = "sent" => toServer'[s] = <<"ack", "complete">>
      BY <1>5, <2>2
    <3>6. Sound(s)'
      <4>1. /\ handler' = handler /\ errCh' = errCh /\ broken' = broken /\ state' = state
            /\ Ended' <=> Ended
        BY <1>2 DEF server, job, record, Ended
      <4>2. QED BY <1>1, <1>3, <3>2, <3>3, <3>4, <3>5, <4>1 DEF Sound, Working, Returned
    <3>7. QED BY <1>2, <1>3, <3>2, <3>6, CalmRunnerFrame
  <2>3. QED BY <1>9, <2>1, <2>2 DEF ReportComplete
<1>10. QED BY <1>8, <1>9

-------------------------------------------------------------------------------
(* The theorems.                                                           *)

Calm == mishap \/ CalmInv

LEMMA CalmInvariance == Spec => []Calm
<1>1. Init => Calm
  <2> SUFFICES ASSUME Init PROVE CalmInv
    BY DEF Calm
  <2>1. ASSUME NEW s \in Streams PROVE Sound(s) /\ ~Began(s) /\ handler[s] = "idle"
    <3>1. /\ toRunner[s] = <<>> /\ handler[s] = "idle" /\ accept[s] = "idle" /\ ~broken[s]
          /\ ~errCh[s] /\ ~over[s] /\ outcome[s] = "none"
      BY DEF Init
    <3>2. \A m : ~Coming(s, m)
      BY <3>1 DEF Coming
    <3>3. ~Began(s)
      BY <3>1, BeganIs
    <3>4. QED BY <3>1, <3>2, <3>3 DEF Sound, Working, Returned
  <2>2. QED BY <2>1 DEF CalmInv, Apart, Holding
<1>2. IInv /\ HearInv /\ Calm /\ [Next]_vars => Calm'
  <2> SUFFICES ASSUME IInv, HearInv, Calm, [Next]_vars PROVE Calm'
    OBVIOUS
  <2>0. \A s \in Streams : Hears(s)
    BY DEF HearInv
  <2>1. CASE mishap
    <3>0. mishap = TRUE
      BY <2>1 DEF IInv, TypeOK
    <3>1. ASSUME NEW s \in Streams, Watch(s) \/ Receive(s) \/ Handle(s) \/ Accept(s) \/ Break(s)
          PROVE  mishap' = TRUE
      BY <3>0, <3>1 DEF Watch, Receive, RecvEvent, RecvEnd, Handle, Assign, GiveUp, RecvAck,
                        RecvAckLate, RecvNoAck, HandleEvent, HandleEventFails, HandleDone,
                        HandleErr, HandleJob, HandleForce, Accept, Break, Finish, rest
    <3>2. ASSUME NEW s \in Streams, Listen(s) \/ Proceed(s) PROVE mishap' = TRUE
      BY <3>0, <3>2 DEF Listen, RecvCancel, RecvStatus, FindError, PassError, ActOnCancel, Panic,
                        Proceed, RecvAssignment, RecvNoAssignment, CheckForced, ReportError,
                        ReportComplete, AwaitEnd, rest
    <3>3. ASSUME NEW s \in Streams, NEW how, Execute(s, how) PROVE mishap' = TRUE
      BY <3>0, <3>3 DEF Execute, rest
    <3>4. ASSUME QueueJob \/ OpenStream \/ ReceiveComplete \/ Interrupt \/ LeaveStream
          PROVE  mishap' = TRUE
      BY <3>0, <3>4 DEF QueueJob, OpenStream, ReceiveComplete, Interrupt, LeaveStream
    <3>5. ASSUME JobExpire \/ AckTimeout \/ BeatTimeout PROVE mishap' = TRUE
      BY <3>0, <3>5 DEF JobExpire, AckTimeout, BeatTimeout
    <3>6. ASSUME UNCHANGED vars PROVE mishap' = TRUE
      BY <3>0, <3>6 DEF vars, rest
    <3>7. QED BY <3>1, <3>2, <3>3, <3>4, <3>5, <3>6 DEF Calm, Next
  <2>2. CASE CalmInv
    <3>1. ASSUME NEW s \in Streams, Handle(s) PROVE CalmInv'
      BY <2>2, <3>1, CalmEndingSteps, CalmAssignStep, CalmAckStep, CalmEventStep, CalmServingSteps
         DEF Handle
    <3>2. ASSUME NEW s \in Streams, Proceed(s) PROVE CalmInv'
      BY <2>0, <2>2, <3>2, CalmAssignmentSteps, CalmForcedSteps, CalmReportSteps DEF Proceed
    <3>3. ASSUME NEW s \in Streams,
                 \/ Watch(s) \/ Receive(s) \/ Accept(s) \/ Listen(s)
                 \/ \E how \in {"ok", "fail"} : Execute(s, how)
          PROVE  CalmInv'
      BY <2>0, <2>2, <3>3, CalmServingSteps, CalmReceiveStep, CalmAcceptStep, CalmListenStep,
         CalmForcedSteps, CalmExecuteStep DEF Listen
    <3>4. ASSUME NEW s \in Streams, Break(s) PROVE mishap'
      BY <3>4 DEF Break
    <3>5. ASSUME AckTimeout \/ BeatTimeout PROVE mishap'
      BY <3>5 DEF AckTimeout, BeatTimeout
    <3>6. CASE \/ QueueJob \/ OpenStream \/ ReceiveComplete \/ Interrupt \/ LeaveStream \/ JobExpire
               \/ UNCHANGED vars
      BY <2>2, <3>6, CalmClientSteps DEF Calm
    <3>7. QED BY <3>1, <3>2, <3>3, <3>4, <3>5, <3>6 DEF Next, Calm
  <2>3. QED BY <2>1, <2>2 DEF Calm
<1>3. QED BY <1>1, <1>2, Invariance, HearInvariance, PTL DEF Spec

\* As long as no stream breaks and no timer runs out, at most one runner has
\* begun to execute the job, of however many that call accept, though a runner
\* begins before it knows that its ack was taken and a refused job is queued
\* and assigned again.
THEOREM ExecutedAtMostOnce == Spec => []ExecutedOnce
<1>1. TypeOK /\ Calm => ExecutedOnce
  <2> SUFFICES ASSUME CalmInv PROVE Cardinality(Executed) <= 1
    BY DEF Calm, ExecutedOnce
  <2>1. Executed \subseteq Streams /\ \A s, t \in Executed : s = t
    BY DEF CalmInv, Apart, Began, Executed
  <2>2. CASE Executed = {}
    BY <2>2, FS_EmptySet
  <2>3. CASE Executed # {}
    <3>1. PICK s : Executed = {s}
      BY <2>1, <2>3
    <3>2. QED BY <3>1, FS_Singleton
  <2>4. QED BY <2>2, <2>3
<1>2. QED BY <1>1, TypeCorrect, CalmInvariance, PTL

\* accept sends its error and closes the stream at once; if nothing breaks, the
\* handler reads the event first and ends only with the job.
THEOREM ErrorIsRecorded == Spec => []ErrorRecorded
<1>1. Calm => ErrorRecorded
  BY DEF Calm, CalmInv, Sound, ErrorRecorded
<1>2. QED BY <1>1, CalmInvariance, PTL

================================================================================
