----------------------------- MODULE BatchAction -----------------------------
(***************************************************************************)
(* A command's batch of machine actions: BatchAction.run creates a thread  *)
(* for each action, all at once when every provider supports it and one    *)
(* after another otherwise.  In its thread an action takes the lock of its *)
(* machine and runs a chain of middlewares: the Warden stands between      *)
(* them, and when one raises it calls recover on all that were called,     *)
(* unless SystemExit or NoMemoryError was raised: those pass every Warden. *)
(* The Runner registers a callback for SIGINT with Busy: the first signal  *)
(* marks the environments of the running actions as interrupted, a second  *)
(* one aborts the process.                                                 *)
(*                                                                         *)
(* Middleware i of a chain is the i-th its Warden calls, so the Warden's   *)
(* stack is determined by the number of calls.  Forks of the process, and  *)
(* chains nested by the Call middleware, are left out.                     *)
(***************************************************************************)
EXTENDS Naturals, Sequences, SequencesExt

CONSTANTS
    N,          \* actions in the batch, of machines of their own
    Depth,      \* middlewares of an action's chain
    MaxSignals  \* bound: SIGINTs

ASSUME BoundsAssumption ==
    /\ N \in Nat \ {0}
    /\ Depth \in Nat \ {0}
    /\ MaxSignals \in Nat

Actions == 1 .. N
Chain == 1 .. Depth

VARIABLES
    par,          \* the actions run in parallel
    main,         \* where the thread that called run is
    next,         \* the action it is about to start or to wait for
    missed,       \* those whose thread was dead when alive? was asked (ghost)
    at,           \* where an action's thread is
    calls,        \* middlewares called: the Warden's stack is calls .. 1
    frame,        \* calls of the Warden that have not returned
    undo,         \* the middleware whose recover is next
    recovered,    \* calls of recover (ghost)
    spoilt,       \* a recover raised (ghost)
    result,       \* how an action's thread ended
    registered,   \* Busy: the callbacks, in the order of registration
    interrupted,  \* env[:interrupted]
    since,        \* the calls when it was set (ghost)
    signals       \* SIGINTs so far

run == <<par, main, next, missed>>
busy == <<registered, interrupted, since, signals>>
warden == <<calls, frame, undo, recovered, spoilt>>
vars == <<run, at, warden, result, busy>>

Running == {"spawn", "test", "join", "collect"}
Live == {"begun", "locked", "calling", "entering", "inside", "after",
         "raising", "recovering", "failed", "finished", "terminated", "uncaught"}

Places == {"none", "dead", "killed"} \cup Live
Counts == 0 .. Depth

Typed ==
    /\ par \in BOOLEAN
    /\ main \in Running \cup {"returned", "raised", "multierror", "exited", "aborted"}
    /\ next \in 1 .. N + 1
    /\ missed \subseteq Actions
    /\ at \in [Actions -> Places]
    /\ calls \in [Actions -> Counts]
    /\ frame \in [Actions -> Counts]
    /\ undo \in [Actions -> Counts]
    /\ recovered \in [Actions -> [Chain -> Nat]]
    /\ spoilt \in [Actions -> BOOLEAN]
    /\ result \in [Actions -> {"none", "ok", "raised", "error", "exit", "uncaught"}]
    /\ interrupted \in [Actions -> BOOLEAN]
    /\ since \in [Actions -> Counts]
    /\ signals \in 0 .. MaxSignals

\* The callbacks are those of running actions, each registered once.
TypeOK ==
    /\ Typed
    /\ Range(registered) \subseteq {m \in Actions : at[m] \in Live}
    /\ IsInjective(registered)

\* Parallel if the caller allows it, the providers of all machines support
\* it, and there is more than one action.
Parallel(allowed, able) == allowed /\ able = Actions /\ N > 1

Init ==
    /\ \E allowed \in BOOLEAN, able \in SUBSET Actions : par = Parallel(allowed, able)
    /\ main = "spawn" /\ next = 1 /\ missed = {}
    /\ at = [m \in Actions |-> "none"]
    /\ calls = [m \in Actions |-> 0]
    /\ frame = [m \in Actions |-> 0]
    /\ undo = [m \in Actions |-> 0]
    /\ recovered = [m \in Actions |-> [i \in Chain |-> 0]]
    /\ spoilt = [m \in Actions |-> FALSE]
    /\ result = [m \in Actions |-> "none"]
    /\ registered = <<>>
    /\ interrupted = [m \in Actions |-> FALSE]
    /\ since = [m \in Actions |-> 0]
    /\ signals = 0
-------------------------------------------------------------------------------
(* BatchAction.run.                                                        *)

Spawn ==
    /\ main = "spawn"
    /\ next <= N
    /\ at' = [at EXCEPT ![next] = "begun"]
    /\ IF par THEN next' = next + 1 /\ main' = main
              ELSE next' = next /\ main' = "test"
    /\ UNCHANGED <<par, missed, warden, result, busy>>

\* thread.join(timeout) while thread.alive?: the test comes first, and join,
\* which raises the thread's exception, is not called on a dead thread.
TestAlive ==
    /\ main = "test"
    /\ IF at[next] = "dead"
       THEN /\ main' = "spawn" /\ next' = next + 1
            /\ missed' = missed \cup {next}
       ELSE main' = "join" /\ UNCHANGED <<next, missed>>
    /\ UNCHANGED <<par, at, warden, result, busy>>

\* Defect: the thread's exception is never raised again: rescued without a store.
JoinQuietly ==
    /\ main = "join"
    /\ at[next] = "dead"
    /\ main' = "spawn" /\ next' = next + 1
    /\ UNCHANGED <<par, missed, at, warden, result, busy>>

Join ==
    /\ main = "join"
    /\ at[next] = "dead"
    /\ IF result[next] \in {"raised", "uncaught"}
       THEN main' = "raised" /\ next' = next
       ELSE main' = "spawn" /\ next' = next + 1
    /\ UNCHANGED <<par, missed, at, warden, result, busy>>

JoinTimeout ==
    /\ main = "join"
    /\ at[next] # "dead"
    /\ main' = "test"
    /\ UNCHANGED <<par, next, missed, at, warden, result, busy>>

SpawnedAll ==
    /\ main = "spawn"
    /\ next > N
    /\ main' = "collect" /\ next' = 1
    /\ UNCHANGED <<par, missed, at, warden, result, busy>>

\* Defect: the threads are not waited for before their errors are read.
CollectAtOnce ==
    /\ main = "collect"
    /\ next <= N
    /\ next' = next + 1
    /\ UNCHANGED <<par, main, missed, at, warden, result, busy>>

\* Defect: a thread is waited for until it has a result to report.
CollectResults ==
    /\ main = "collect"
    /\ next <= N
    /\ at[next] = "dead"
    /\ result[next] # "exit"
    /\ next' = next + 1
    /\ UNCHANGED <<par, main, missed, at, warden, result, busy>>

\* The errors are read from the threads as they are joined.
Collect ==
    /\ main = "collect"
    /\ next <= N
    /\ at[next] = "dead"
    /\ next' = next + 1
    /\ UNCHANGED <<par, main, missed, at, warden, result, busy>>

\* Whatever ends a parallel action, the rescue of BatchAction has stored it.
Errors == {m \in Actions : result[m] = "error" \/ (par /\ result[m] = "uncaught")}

Finish ==
    /\ main = "collect"
    /\ next > N
    /\ main' = IF Errors # {} THEN "multierror"
               ELSE IF \E m \in Actions : result[m] = "exit" THEN "exited"
               ELSE "returned"
    /\ UNCHANGED <<par, next, missed, at, warden, result, busy>>
-------------------------------------------------------------------------------
(* Machine.action and Runner.run in an action's thread.                    *)

\* The lock of the machine, which another process may hold.
Lock(m) ==
    /\ at[m] = "begun"
    /\ \E to \in {"locked", "failed"} : at' = [at EXCEPT ![m] = to]
    /\ UNCHANGED <<run, warden, result, busy>>

\* Busy.busy: the callback is registered for as long as the chain runs.
Register(m) ==
    /\ at[m] = "locked"
    /\ at' = [at EXCEPT ![m] = "calling"]
    /\ registered' = Append(registered, m)
    /\ UNCHANGED <<run, warden, result, interrupted, since, signals>>

Outcome(m) ==
    CASE at[m] = "finished" -> "ok"
      [] at[m] = "terminated" -> "exit"
      [] at[m] = "uncaught" -> "uncaught"
      [] OTHER -> IF par THEN "error" ELSE "raised"

\* Ruby raises the SystemExit that ends a thread in the main thread too.
ExitsMain(m) ==
    \/ main' = main
    \/ at[m] = "uncaught" /\ ~par /\ main \in Running /\ main' = "raised"

\* Defect: the callback is not unregistered when the thread ends.
LeaveRegistered(m) ==
    /\ at[m] \in {"failed", "finished", "terminated", "uncaught"}
    /\ at' = [at EXCEPT ![m] = "dead"]
    /\ result' = [result EXCEPT ![m] = Outcome(m)]
    /\ ExitsMain(m)
    /\ UNCHANGED <<par, next, missed, warden, registered, interrupted, since, signals>>

\* The end of the thread: Busy's and the lock's ensure clauses, then the
\* rescue of BatchAction, which raises again unless actions run in parallel.
Leave(m) ==
    /\ at[m] \in {"failed", "finished", "terminated", "uncaught"}
    /\ at' = [at EXCEPT ![m] = "dead"]
    /\ registered' = RemoveFirst(registered, m)
    /\ result' = [result EXCEPT ![m] = Outcome(m)]
    /\ ExitsMain(m)
    /\ UNCHANGED <<par, next, missed, warden, interrupted, since, signals>>

\* SIGINT.  The handler runs on the main thread: the callbacks, the last
\* registered first.  One whose environment is interrupted already aborts,
\* and so does the default handler when none is registered.
Interruptible ==
    LET earlier == {i \in DOMAIN registered : interrupted[registered[i]]}
    IN  {registered[i] : i \in {k \in DOMAIN registered : \A e \in earlier : k > e}}

Signal ==
    /\ main \in Running
    /\ signals < MaxSignals
    /\ signals' = signals + 1
    /\ interrupted' = [m \in Actions |-> interrupted[m] \/ m \in Interruptible]
    /\ since' = [m \in Actions |-> IF m \in Interruptible THEN calls[m] ELSE since[m]]
    /\ main' = IF registered = <<>> \/ \E i \in DOMAIN registered : interrupted[registered[i]]
               THEN "aborted" ELSE main
    /\ UNCHANGED <<par, next, missed, at, warden, result, registered>>

\* The threads end with the main thread, running ensure clauses only.
Kill(m) ==
    /\ main = "aborted"
    /\ at[m] \in Live
    /\ at' = [at EXCEPT ![m] = "killed"]
    /\ registered' = RemoveFirst(registered, m)
    /\ UNCHANGED <<run, warden, result, interrupted, since, signals>>
-------------------------------------------------------------------------------
(* The Warden and the middlewares.                                         *)

\* Warden.call when all middlewares have been called returns at once.
CallNothing(m) ==
    /\ at[m] = "calling"
    /\ calls[m] = Depth
    /\ at' = [at EXCEPT ![m] = "after"]
    /\ UNCHANGED <<run, warden, result, busy>>

\* Defect: the interrupt is looked at only when a middleware has returned.
CheckNothing(m) ==
    /\ at[m] = "calling"
    /\ calls[m] < Depth
    /\ frame' = [frame EXCEPT ![m] = @ + 1]
    /\ at' = [at EXCEPT ![m] = "entering"]
    /\ UNCHANGED <<run, calls, undo, recovered, spoilt, result, busy>>

\* raise VagrantInterrupt if env[:interrupted], before the next middleware.
Check(m) ==
    /\ at[m] = "calling"
    /\ calls[m] < Depth
    /\ frame' = [frame EXCEPT ![m] = @ + 1]
    /\ at' = [at EXCEPT ![m] = IF interrupted[m] THEN "raising" ELSE "entering"]
    /\ UNCHANGED <<run, calls, undo, recovered, spoilt, result, busy>>

Enter(m) ==
    /\ at[m] = "entering"
    /\ calls' = [calls EXCEPT ![m] = @ + 1]
    /\ at' = [at EXCEPT ![m] = "inside"]
    /\ UNCHANGED <<run, frame, undo, recovered, spoilt, result, busy>>

\* The middleware calls the rest of the chain.
CallNext(m) ==
    /\ at[m] = "inside"
    /\ at' = [at EXCEPT ![m] = "calling"]
    /\ UNCHANGED <<run, warden, result, busy>>

\* It raises, before or after the rest of the chain, an exception that the
\* Warden recovers from.
Raise(m) ==
    /\ at[m] \in {"inside", "after"}
    /\ at' = [at EXCEPT ![m] = "raising"]
    /\ UNCHANGED <<run, warden, result, busy>>

\* It raises SystemExit or NoMemoryError: each Warden up the chain raises it
\* again at once, without recover.
Exit(m) ==
    /\ at[m] \in {"inside", "after"}
    /\ at' = [at EXCEPT ![m] = "uncaught"]
    /\ UNCHANGED <<run, warden, result, busy>>

\* It returns, to a Warden that tests env[:interrupted] again.
Return(m) ==
    /\ at[m] \in {"inside", "after"}
    /\ IF interrupted[m]
       THEN at' = [at EXCEPT ![m] = "raising"] /\ frame' = frame
       ELSE /\ at' = [at EXCEPT ![m] = IF frame[m] = 1 THEN "finished" ELSE "after"]
            /\ frame' = [frame EXCEPT ![m] = @ - 1]
    /\ UNCHANGED <<run, calls, undo, recovered, spoilt, result, busy>>

\* A trigger with an exit code: the thread of a parallel action terminates,
\* without its Warden's rescue; otherwise the process exits at once.
TriggerAbort(m) ==
    /\ at[m] \in {"inside", "after"}
    /\ IF par
       THEN /\ at' = [at EXCEPT ![m] = "terminated"]
            /\ UNCHANGED <<main, registered>>
       ELSE /\ at' = [at EXCEPT ![m] = "killed"]
            /\ main' = "exited" /\ registered' = <<>>
    /\ UNCHANGED <<par, next, missed, warden, result, interrupted, since, signals>>

\* The rescue of Warden.call: recovery of the stack, from its top.
Recover(m) ==
    /\ at[m] = "raising"
    /\ at' = [at EXCEPT ![m] = "recovering"]
    /\ undo' = [undo EXCEPT ![m] = calls[m]]
    /\ UNCHANGED <<run, calls, frame, recovered, spoilt, result, busy>>

\* Defect: the stack is recovered in the order of the calls.
RecoverOneInCallOrder(m) ==
    /\ at[m] = "recovering"
    /\ undo[m] > 0
    /\ recovered' = [recovered EXCEPT ![m][calls[m] - undo[m] + 1] = @ + 1]
    /\ undo' = [undo EXCEPT ![m] = @ - 1]
    /\ UNCHANGED <<run, at, calls, frame, spoilt, result, busy>>

RecoverOne(m) ==
    /\ at[m] = "recovering"
    /\ undo[m] > 0
    /\ recovered' = [recovered EXCEPT ![m][undo[m]] = @ + 1]
    /\ undo' = [undo EXCEPT ![m] = @ - 1]
    /\ UNCHANGED <<run, at, calls, frame, spoilt, result, busy>>

\* The exception of a recover leaves the rescue before the stack is cleared:
\* the Warden's next call up the chain recovers the same stack again.
RecoverRaises(m) ==
    /\ at[m] = "recovering"
    /\ undo[m] > 0
    /\ recovered' = [recovered EXCEPT ![m][undo[m]] = @ + 1]
    /\ spoilt' = [spoilt EXCEPT ![m] = TRUE]
    /\ frame' = [frame EXCEPT ![m] = @ - 1]
    /\ at' = [at EXCEPT ![m] = IF frame[m] = 1 THEN "failed" ELSE "raising"]
    /\ UNCHANGED <<run, calls, undo, result, busy>>

\* A recover that raises SystemExit or NoMemoryError: nothing is begun again.
RecoverExits(m) ==
    /\ at[m] = "recovering"
    /\ undo[m] > 0
    /\ recovered' = [recovered EXCEPT ![m][undo[m]] = @ + 1]
    /\ spoilt' = [spoilt EXCEPT ![m] = TRUE]
    /\ at' = [at EXCEPT ![m] = "uncaught"]
    /\ UNCHANGED <<run, calls, frame, undo, result, busy>>

\* Defect: the stack is not cleared after recovery.
RecoverDoneUncleared(m) ==
    /\ at[m] = "recovering"
    /\ undo[m] = 0
    /\ frame' = [frame EXCEPT ![m] = @ - 1]
    /\ at' = [at EXCEPT ![m] = IF frame[m] = 1 THEN "failed" ELSE "raising"]
    /\ UNCHANGED <<run, calls, undo, recovered, spoilt, result, busy>>

\* The stack is cleared: the calls further up recover nothing.
RecoverDone(m) ==
    /\ at[m] = "recovering"
    /\ undo[m] = 0
    /\ at' = [at EXCEPT ![m] = "failed"]
    /\ UNCHANGED <<run, warden, result, busy>>
-------------------------------------------------------------------------------
Main == Spawn \/ TestAlive \/ Join \/ JoinTimeout \/ SpawnedAll \/ Collect \/ Finish

Warden(m) ==
    \/ CallNothing(m) \/ Check(m) \/ Enter(m)
    \/ CallNext(m) \/ Raise(m) \/ Exit(m) \/ Return(m) \/ TriggerAbort(m)
    \/ Recover(m) \/ RecoverOne(m) \/ RecoverRaises(m) \/ RecoverExits(m) \/ RecoverDone(m)

Thread(m) == Lock(m) \/ Register(m) \/ Warden(m) \/ Leave(m)

Next ==
    \/ Main
    \/ Signal
    \/ \E m \in Actions : Thread(m) \/ Kill(m)

Spec == Init /\ [][Next]_vars

\* Ruby schedules every thread, and no middleware runs for ever.
FairSpec ==
    /\ Spec
    /\ WF_vars(Main)
    /\ \A m \in Actions : WF_vars(Thread(m)) /\ WF_vars(Kill(m))
-------------------------------------------------------------------------------
(* What a batch promises.                                                  *)

\* When an action's thread ends with an error that a Warden caught, each
\* middleware that was called has been recovered once; when it ends well, by a
\* trigger's exit code, or by SystemExit or NoMemoryError, none has been: unless
\* a recover raised.  Warden.call and Warden.recover.
CleanFailure ==
    \A m \in Actions : at[m] = "dead" /\ ~spoilt[m] =>
        recovered[m] = [i \in Chain |->
            IF result[m] \in {"raised", "error"} /\ i <= calls[m] THEN 1 ELSE 0]

\* Recovery goes from the last middleware called to the first, also when it
\* is repeated further up because a recover raised: none is recovered
\* before, or more often than, one that was called after it.
LastCalledFirst ==
    \A m \in Actions : \A i, k \in 1 .. calls[m] :
        i < k => recovered[m][i] <= recovered[m][k]

\* One after another: an action is started only when the one before has
\* ended, well unless its end was missed by the test of thread.alive?.
FailureStopsSequence ==
    ~par => \A m \in Actions : m + 1 \in Actions /\ at[m + 1] # "none" =>
        at[m] = "dead" /\ (result[m] = "ok" \/ m \in missed)

\* run returns when all actions ended, and well unless the end was missed,
\* and it raises the collected errors, or exits with an exit code, when all
\* threads have ended.
RunReports ==
    /\ main \in {"returned", "multierror"} => \A m \in Actions : at[m] = "dead"
    /\ main = "returned" => \A m \in Actions : result[m] = "ok" \/ m \in missed
    /\ main = "multierror" => par /\ Errors # {}

\* After an interrupt the Warden calls at most one more middleware of the
\* action: the one it was about to call.
InterruptStopsChain ==
    \A m \in Actions : interrupted[m] => calls[m] <= since[m] + 1

\* Whatever raises, exits or is interrupted, and whenever it does, run comes
\* to an end and leaves no thread behind.
RunEnds == <>(main \notin Running /\ \A m \in Actions : at[m] \notin Live)
===============================================================================
