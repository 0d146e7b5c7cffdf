-------------------------- MODULE BatchActionProofs --------------------------
(***************************************************************************)
(* Theorems about BatchAction, for any number of actions, middlewares and  *)
(* signals: what an interrupt stops, what recovery undoes and in which     *)
(* order, and what a batch reports.                                        *)
(***************************************************************************)
EXTENDS BatchAction, SequenceTheorems, TLAPS

\* The Warden's frames of an action: one for each middleware called, while
\* the chain goes forward, and one more when the next has passed the check.
FramedAt(m) ==
    /\ at[m] \in {"none", "begun", "locked"} => calls[m] = 0 /\ frame[m] = 0
    /\ at[m] = "entering" => frame[m] = calls[m] + 1
    /\ at[m] \in {"calling", "inside"} => frame[m] = calls[m]
    /\ at[m] \in {"inside", "after", "raising", "recovering"} => frame[m] > 0

\* No thread has been created for the actions that run has not come to.
Ahead ==
    /\ main \in {"test", "join"} => ~par /\ next \in Actions
    /\ main \in {"spawn", "test", "join"} =>
        \A m \in Actions : m > next \/ (m = next /\ main = "spawn") => at[m] = "none"

Framed == Ahead /\ \A m \in Actions : FramedAt(m)

-------------------------------------------------------------------------------
\* The names of the places and the numbers of calls.
LEMMA Ranges ==
    /\ Live \subseteq Places
    /\ "none" \in Places /\ "dead" \in Places /\ "killed" \in Places
    /\ \A n : n \in Counts <=> n \in Nat /\ n <= Depth
    /\ Depth \in Nat /\ Depth > 0
BY BoundsAssumption DEF Places, Counts

\* The actions keep the variables in their types, and the frames agree with
\* the calls: neither can be proved without the other.
LEMMA TypedInvariant == Spec => [](Typed /\ Framed)
<1> USE DEF Typed, Framed, FramedAt, Ahead
<1>1. Init => Typed /\ Framed
  <2> SUFFICES ASSUME Init PROVE Typed /\ Framed
    OBVIOUS
  <2>1. main \in Running /\ next \in 1 .. N + 1 /\ signals \in 0 .. MaxSignals
    BY BoundsAssumption DEF Init, Running
  <2>2. par \in BOOLEAN
    BY DEF Init, Parallel
  <2>3. 0 \in Counts
    BY Ranges
  <2>4. QED BY Ranges, <2>1, <2>2, <2>3 DEF Init
<1>2. Typed /\ Framed /\ [Next]_vars => Typed' /\ Framed'
  <2> SUFFICES ASSUME Typed, Framed, [Next]_vars PROVE Typed' /\ Framed'
    OBVIOUS
  <2>1. CASE Main
    <3> USE DEF warden, busy
    <3>1. CASE Spawn
      <4>1. main' \in Running /\ next' \in 1 .. N + 1
        <5>1. CASE par BY <3>1, <5>1, BoundsAssumption DEF Spawn, Running
        <5>2. CASE ~par BY <3>1, <5>2, BoundsAssumption DEF Spawn, Running
        <5>3. QED BY <5>1, <5>2
      <4>2. next \in Actions
        BY <3>1, BoundsAssumption DEF Spawn, Actions
      <4>3. "begun" \in Places
        BY DEF Places, Live
      <4>4. Typed'
        BY <3>1, <4>1, <4>2, <4>3 DEF Spawn
      <4>5. Framed'
        <5>1. at[next] = "none"
          BY <3>1, <4>2, BoundsAssumption DEF Spawn, Actions
        <5>2. \A m \in Actions : FramedAt(m)'
          BY <3>1, <4>2, <5>1 DEF Spawn
        <5>3. Ahead'
          <6>1. CASE par BY <3>1, <6>1, BoundsAssumption DEF Spawn, Actions
          <6>2. CASE ~par BY <3>1, <6>2, BoundsAssumption DEF Spawn, Actions
          <6>3. QED BY <6>1, <6>2
        <5>4. QED BY <5>2, <5>3
      <4>6. QED BY <4>4, <4>5
    <3>2. CASE TestAlive
      <4>1. CASE at[next] = "dead"
        <5>1. /\ main = "test" /\ main' = "spawn" /\ next' = next + 1
              /\ missed' = missed \cup {next}
              /\ UNCHANGED <<par, at, warden, result, busy>>
          BY <3>2, <4>1 DEF TestAlive
        <5>2. next \in Actions /\ next' \in 1 .. N + 1
          BY <5>1, BoundsAssumption DEF Actions
        <5>3. Typed'
          BY <5>1, <5>2 DEF Running
        <5>4. Framed'
          BY <5>1, <5>2, BoundsAssumption DEF Actions
        <5>5. QED BY <5>3, <5>4
      <4>2. CASE at[next] # "dead"
        BY <3>2, <4>2, BoundsAssumption DEF TestAlive, Actions, Running
      <4>3. QED BY <4>1, <4>2
    <3>3. CASE Join
      <4>1. CASE result[next] \in {"raised", "uncaught"}
        BY <3>3, <4>1 DEF Join
      <4>2. CASE result[next] \notin {"raised", "uncaught"}
        BY <3>3, <4>2, BoundsAssumption DEF Join, Actions, Running
      <4>3. QED BY <4>1, <4>2
    <3>4. CASE JoinTimeout BY <3>4 DEF JoinTimeout, Running
    <3>5. CASE SpawnedAll BY <3>5, BoundsAssumption DEF SpawnedAll, Running
    <3>6. CASE Collect BY <3>6, BoundsAssumption DEF Collect
    <3>7. CASE Finish BY <3>7 DEF Finish
    <3>8. QED BY <2>1, <3>1, <3>2, <3>3, <3>4, <3>5, <3>6, <3>7 DEF Main
  <2>2. CASE Signal
    <3>1. signals' \in 0 .. MaxSignals /\ main' \in {main, "aborted"}
      BY <2>2, BoundsAssumption DEF Signal
    <3>2. interrupted' \in [Actions -> BOOLEAN]
      BY <2>2 DEF Signal
    <3>3. since' \in [Actions -> Counts]
      BY <2>2 DEF Signal
    <3>4. UNCHANGED <<par, next, missed, at, calls, frame, undo, recovered, spoilt, result>>
      BY <2>2 DEF Signal, warden
    <3>5. QED BY <3>1, <3>2, <3>3, <3>4
  <2>3. ASSUME NEW m \in Actions, Thread(m) PROVE Typed' /\ Framed'
    <3> USE Ranges DEF run, busy, Live
    <3>1. CASE Lock(m) BY <3>1 DEF Lock, warden
    <3>2. CASE Register(m) BY <3>2 DEF Register, warden
    <3>3. CASE Leave(m)
      <4>1. /\ main' \in Running \cup {"returned", "raised", "multierror", "exited", "aborted"}
            /\ Ahead'
        BY <3>3 DEF Leave, ExitsMain, Running
      <4>2. result' \in [Actions -> {"none", "ok", "raised", "error", "exit", "uncaught"}]
        BY <3>3 DEF Leave, Outcome
      <4>3. QED BY <3>3, <4>1, <4>2 DEF Leave, warden
    <3>4. CASE CallNothing(m) BY <3>4 DEF CallNothing, warden
    <3>5. CASE Check(m)
      <4>1. frame[m] + 1 \in Counts
        <5>1. calls[m] \in Nat /\ calls[m] < Depth /\ frame[m] = calls[m]
          BY <3>5 DEF Check
        <5>2. QED BY <5>1
      <4>2. QED BY <3>5, <4>1 DEF Check
    <3>6. CASE Enter(m) BY <3>6 DEF Enter
    <3>7. CASE CallNext(m) BY <3>7 DEF CallNext, warden
    <3>8. CASE Raise(m) BY <3>8 DEF Raise, warden
    <3>9. CASE Return(m)
      <4>1. CASE interrupted[m]
        BY <3>9, <4>1 DEF Return
      <4>2. CASE ~interrupted[m]
        <5>1. frame[m] - 1 \in Counts
          <6>1. frame[m] > 0 /\ frame[m] \in Counts
            BY <3>9 DEF Return
          <6>2. QED BY <6>1, BoundsAssumption DEF Counts
        <5>2. /\ at' = [at EXCEPT ![m] = IF frame[m] = 1 THEN "finished" ELSE "after"]
              /\ frame' = [frame EXCEPT ![m] = @ - 1]
              /\ UNCHANGED <<run, calls, undo, recovered, spoilt, result, busy>>
              /\ at[m] \in {"inside", "after"}
          BY <3>9, <4>2 DEF Return
        <5>3. QED BY <5>1, <5>2
      <4>3. QED BY <4>1, <4>2
    <3>10. CASE TriggerAbort(m) BY <3>10 DEF TriggerAbort, warden
    <3>11. CASE Recover(m) BY <3>11 DEF Recover
    <3>12. CASE RecoverOne(m)
      <4>1. undo[m] \in Chain /\ undo[m] - 1 \in Counts
        <5>1. undo[m] > 0 /\ undo[m] \in Counts
          BY <3>12 DEF RecoverOne
        <5>2. QED BY <5>1, BoundsAssumption DEF Chain, Counts
      <4>2. recovered' \in [Actions -> [Chain -> Nat]]
        BY <3>12, <4>1 DEF RecoverOne
      <4>3. QED BY <3>12, <4>1, <4>2 DEF RecoverOne
    <3>13. CASE RecoverRaises(m)
      <4>1. undo[m] \in Chain /\ frame[m] - 1 \in Counts
        <5>1. undo[m] > 0 /\ undo[m] \in Counts /\ frame[m] > 0 /\ frame[m] \in Counts
          BY <3>13 DEF RecoverRaises
        <5>2. QED BY <5>1, BoundsAssumption DEF Chain, Counts
      <4>2. recovered' \in [Actions -> [Chain -> Nat]]
        BY <3>13, <4>1 DEF RecoverRaises
      <4>3. QED BY <3>13, <4>1, <4>2 DEF RecoverRaises
    <3>14. CASE RecoverDone(m) BY <3>14 DEF RecoverDone, warden
    <3>15. CASE Exit(m) BY <3>15 DEF Exit, warden
    <3>16. CASE RecoverExits(m)
      <4>1. undo[m] \in Chain
        <5>1. undo[m] > 0 /\ undo[m] \in Counts
          BY <3>16 DEF RecoverExits
        <5>2. QED BY <5>1, BoundsAssumption DEF Chain, Counts
      <4>2. recovered' \in [Actions -> [Chain -> Nat]]
        BY <3>16, <4>1 DEF RecoverExits
      <4>3. QED BY <3>16, <4>2 DEF RecoverExits
    <3>17. QED BY <2>3, <3>1, <3>2, <3>3, <3>4, <3>5, <3>6, <3>7, <3>8, <3>9,
                  <3>10, <3>11, <3>12, <3>13, <3>14, <3>15, <3>16 DEF Thread, Warden
  <2>4. ASSUME NEW m \in Actions, Kill(m) PROVE Typed' /\ Framed'
    BY <2>4, Ranges DEF Kill, run, warden
  <2>5. CASE UNCHANGED vars
    BY <2>5 DEF vars, run, warden, busy
  <2>6. QED BY <2>1, <2>2, <2>3, <2>4, <2>5 DEF Next
<1>3. QED BY <1>1, <1>2, PTL DEF Spec

-------------------------------------------------------------------------------
(* What an interrupt stops.                                                *)

\* An interrupt finds an action either before the check of its Warden, which
\* then raises, or past it: then it enters one more middleware.
StoppedAt(m) ==
    interrupted[m] =>
        /\ calls[m] <= since[m] + 1
        /\ at[m] = "entering" => calls[m] = since[m]

Stopped == \A m \in Actions : StoppedAt(m)

\* However the signals fall between the steps of the threads, an action that
\* has been interrupted enters at most one more of its middlewares.
THEOREM InterruptStops == Spec => []InterruptStopsChain
<1> USE DEF Typed, Stopped, StoppedAt
<1>1. Init => Stopped
  BY DEF Init
<1>2. Typed /\ Framed /\ Stopped /\ [Next]_vars => Stopped'
  <2> SUFFICES ASSUME Typed, Framed, Stopped, [Next]_vars PROVE Stopped'
    OBVIOUS
  <2>1. CASE Main
    <3>1. UNCHANGED <<calls, interrupted, since>>
      BY <2>1 DEF Main, Spawn, TestAlive, Join, JoinTimeout, SpawnedAll,
                  Collect, Finish, warden, busy
    <3>2. ASSUME NEW a \in Actions PROVE at'[a] # at[a] => at'[a] = "begun"
      BY <2>1 DEF Main, Spawn, TestAlive, Join, JoinTimeout, SpawnedAll,
                  Collect, Finish
    <3>3. QED BY <3>1, <3>2
  <2>2. CASE Signal
    <3>1. UNCHANGED <<calls, at>>
      BY <2>2 DEF Signal, warden
    <3>2. ASSUME NEW a \in Actions
          PROVE IF a \in Interruptible THEN since'[a] = calls[a]
                ELSE since'[a] = since[a] /\ interrupted'[a] = interrupted[a]
      BY <2>2 DEF Signal
    <3>3. QED BY <3>1, <3>2, Ranges
  <2>3. ASSUME NEW m \in Actions, Thread(m) PROVE Stopped'
    <3> USE DEF run, busy
    <3>1. CASE Lock(m) BY <3>1 DEF Lock, warden
    <3>2. CASE Register(m) BY <3>2 DEF Register, warden
    <3>3. CASE Leave(m) BY <3>3 DEF Leave, warden
    <3>4. CASE CallNothing(m) BY <3>4 DEF CallNothing, warden
    <3>5. CASE Check(m) BY <3>5 DEF Check
    <3>6. CASE Enter(m) BY <3>6, Ranges DEF Enter
    <3>7. CASE CallNext(m) BY <3>7 DEF CallNext, warden
    <3>8. CASE Raise(m) BY <3>8 DEF Raise, warden
    <3>9. CASE Return(m) BY <3>9 DEF Return
    <3>10. CASE TriggerAbort(m) BY <3>10 DEF TriggerAbort, warden
    <3>11. CASE Recover(m) BY <3>11 DEF Recover
    <3>12. CASE RecoverOne(m) BY <3>12 DEF RecoverOne
    <3>13. CASE RecoverRaises(m) BY <3>13 DEF RecoverRaises
    <3>14. CASE RecoverDone(m) BY <3>14 DEF RecoverDone, warden
    <3>15. CASE Exit(m) BY <3>15 DEF Exit, warden
    <3>16. CASE RecoverExits(m) BY <3>16 DEF RecoverExits
    <3>17. QED BY <2>3, <3>1, <3>2, <3>3, <3>4, <3>5, <3>6, <3>7, <3>8, <3>9,
                  <3>10, <3>11, <3>12, <3>13, <3>14, <3>15, <3>16 DEF Thread, Warden
  <2>4. ASSUME NEW m \in Actions, Kill(m) PROVE Stopped'
    BY <2>4 DEF Kill, run, warden
  <2>5. CASE UNCHANGED vars
    BY <2>5 DEF vars, run, warden, busy
  <2>6. QED BY <2>1, <2>2, <2>3, <2>4, <2>5 DEF Next
<1>3. Stopped => InterruptStopsChain
  BY DEF InterruptStopsChain
<1>4. QED BY <1>1, <1>2, <1>3, TypedInvariant, PTL DEF Spec

-------------------------------------------------------------------------------
(* What recovery undoes.                                                   *)

\* The places of a thread before its Warden raises, and beyond it.
Forward == {"none", "begun", "locked", "calling", "entering", "inside",
            "after", "finished", "terminated"}

\* recover has been called once for each middleware above k that was called.
RecoveredAbove(m, k) ==
    \A i \in Chain : recovered[m][i] = IF k < i /\ i <= calls[m] THEN 1 ELSE 0

\* As long as no recover raises, the stack is recovered once from its top.
RecoveringAt(m) ==
    ~spoilt[m] =>
        /\ at[m] \in Forward \cup {"raising", "uncaught"} => \A i \in Chain : recovered[m][i] = 0
        /\ at[m] = "recovering" => RecoveredAbove(m, undo[m])
        /\ at[m] = "failed" => RecoveredAbove(m, 0)
        /\ at[m] = "dead" =>
            IF result[m] \in {"raised", "error"}
            THEN RecoveredAbove(m, 0)
            ELSE \A i \in Chain : recovered[m][i] = 0

\* Nothing is recovered before the Warden raises; then the stack above the
\* middleware to be recovered next is one call of recover ahead of the rest,
\* also when it is recovered for the second time.
OrderedAt(m) ==
    /\ at[m] \in Forward => \A i \in Chain : recovered[m][i] = 0
    /\ at[m] = "recovering" => undo[m] <= calls[m]
    /\ \A i, k \in 1 .. calls[m] : i < k => recovered[m][i] <= recovered[m][k]
    /\ at[m] = "recovering" =>
        \A i \in 1 .. undo[m], k \in undo[m] + 1 .. calls[m] :
            recovered[m][i] < recovered[m][k]

Recovering == \A m \in Actions : RecoveringAt(m)
Ordered == \A m \in Actions : OrderedAt(m)

\* Two middlewares on the two sides of the one that is recovered.
LEMMA AboveAndBelow ==
    ASSUME NEW u \in Nat, NEW c \in Nat, NEW i \in 1 .. c, NEW k \in 1 .. c,
           i < u, u <= k, k # u
    PROVE  i \in 1 .. u /\ k \in u + 1 .. c
OBVIOUS

\* recover is called from the top of the stack downwards.
LEMMA OrderedInvariant == Spec => []Ordered
<1> USE DEF Ordered, OrderedAt, Forward
<1>1. Init => Ordered
  BY Ranges DEF Init, Chain
<1>2. Typed /\ Framed /\ Ordered /\ [Next]_vars => Ordered'
  <2> SUFFICES ASSUME Typed, Framed, Ordered, [Next]_vars PROVE Ordered'
    OBVIOUS
  <2> USE DEF Typed
  <2>1. CASE Main
    <3>1. UNCHANGED <<calls, undo, recovered, spoilt, result>>
      BY <2>1 DEF Main, Spawn, TestAlive, Join, JoinTimeout, SpawnedAll,
                  Collect, Finish, warden, busy
    <3>2. ASSUME NEW a \in Actions
          PROVE at'[a] # at[a] => at[a] = "none" /\ at'[a] = "begun"
      BY <2>1, BoundsAssumption
         DEF Main, Spawn, TestAlive, Join, JoinTimeout, SpawnedAll,
             Collect, Finish, Framed, Ahead, Actions
    <3>3. QED BY <3>1, <3>2
  <2>2. CASE Signal
    BY <2>2 DEF Signal, warden
  <2>3. ASSUME NEW m \in Actions, Thread(m) PROVE Ordered'
    <3> USE DEF run, busy
    <3>1. CASE Lock(m) \/ Register(m) \/ Leave(m)
      <4>1. /\ UNCHANGED <<calls, undo, recovered>>
            /\ \A a \in Actions : a # m => at'[a] = at[a]
            /\ at'[m] \in Forward => at[m] \in Forward
            /\ at'[m] # "recovering"
        BY <3>1 DEF Lock, Register, Leave, warden
      <4>2. QED BY <4>1
    <3>2. CASE \/ CallNothing(m) \/ Check(m) \/ CallNext(m) \/ Raise(m)
               \/ Exit(m) \/ Return(m) \/ TriggerAbort(m)
      <4>1. /\ UNCHANGED <<calls, undo, recovered>>
            /\ \A a \in Actions : a # m => at'[a] = at[a]
            /\ at[m] \in Forward /\ at'[m] # "recovering"
        BY <3>2 DEF CallNothing, Check, CallNext, Raise, Exit, Return, TriggerAbort, warden
      <4>2. QED BY <4>1
    <3>3. CASE Enter(m)
      <4>1. /\ UNCHANGED <<undo, recovered>>
            /\ \A a \in Actions : a # m => at'[a] = at[a] /\ calls'[a] = calls[a]
            /\ at[m] = "entering" /\ at'[m] = "inside"
            /\ calls'[m] = calls[m] + 1 /\ calls[m] + 1 \in Counts
        BY <3>3, Ranges DEF Enter, Framed, FramedAt
      <4>2. \A i \in 1 .. calls'[m] : recovered[m][i] = 0
        BY <4>1, Ranges DEF Chain
      <4>3. OrderedAt(m)'
        BY <4>1, <4>2
      <4>4. \A a \in Actions : a # m => OrderedAt(a)'
        BY <4>1
      <4>5. QED BY <4>3, <4>4
    <3>4. CASE Recover(m)
      <4>1. /\ UNCHANGED <<calls, recovered>>
            /\ \A a \in Actions : a # m => at'[a] = at[a] /\ undo'[a] = undo[a]
            /\ at'[m] = "recovering" /\ undo'[m] = calls[m]
        BY <3>4 DEF Recover
      <4>2. calls[m] \in Nat
        BY Ranges
      <4>3. OrderedAt(m)'
        BY <4>1, <4>2
      <4>4. \A a \in Actions : a # m => OrderedAt(a)'
        BY <4>1
      <4>5. QED BY <4>3, <4>4
    <3>5. CASE RecoverDone(m)
      <4>1. /\ UNCHANGED <<calls, undo, recovered>>
            /\ \A a \in Actions : a # m => at'[a] = at[a]
            /\ at'[m] = "failed"
        BY <3>5 DEF RecoverDone, warden
      <4>2. QED BY <4>1
    <3>6. CASE RecoverOne(m) \/ RecoverRaises(m) \/ RecoverExits(m)
      <4>1. /\ UNCHANGED calls
            /\ \A a \in Actions : a # m =>
                 at'[a] = at[a] /\ recovered'[a] = recovered[a] /\ undo'[a] = undo[a]
            /\ at[m] = "recovering" /\ at'[m] \in {"recovering", "failed", "raising", "uncaught"}
            /\ undo[m] \in Counts /\ undo[m] > 0
            /\ at'[m] = "recovering" => undo'[m] = undo[m] - 1
        BY <3>6 DEF RecoverOne, RecoverRaises, RecoverExits
      <4>2. undo[m] \in Nat /\ calls[m] \in Nat /\ calls[m] <= Depth /\ undo[m] <= calls[m]
        BY <4>1, Ranges
      <4>3. \A i \in 1 .. calls[m] :
              /\ recovered[m][i] \in Nat
              /\ recovered'[m][i] =
                   IF i = undo[m] THEN recovered[m][i] + 1 ELSE recovered[m][i]
        <5>1. 1 .. calls[m] \subseteq Chain
          BY <4>2, Ranges DEF Chain
        <5>2. recovered' = [recovered EXCEPT ![m][undo[m]] = @ + 1]
          BY <3>6 DEF RecoverOne, RecoverRaises, RecoverExits
        <5>3. QED BY <5>1, <5>2
      <4>4. OrderedAt(m)'
        <5>1. \A i, k \in 1 .. calls[m] : i < k => recovered'[m][i] <= recovered'[m][k]
          <6> SUFFICES ASSUME NEW i \in 1 .. calls[m], NEW k \in 1 .. calls[m], i < k
                       PROVE recovered'[m][i] <= recovered'[m][k]
            OBVIOUS
          <6>1. recovered[m][i] <= recovered[m][k]
            OBVIOUS
          <6>2. i = undo[m] => recovered[m][i] < recovered[m][k]
            BY <4>1, <4>2
          <6>3. QED BY <4>2, <4>3, <6>1, <6>2
        <5>2. ASSUME at'[m] = "recovering", NEW i \in 1 .. undo'[m],
                     NEW k \in undo'[m] + 1 .. calls[m]
              PROVE recovered'[m][i] < recovered'[m][k]
          <6>1. i \in 1 .. calls[m] /\ k \in 1 .. calls[m] /\ i < undo[m] /\ undo[m] <= k
            BY <4>1, <4>2, <5>2
          <6>2. recovered[m][i] <= recovered[m][k]
            BY <6>1, <4>2
          <6>3. k # undo[m] => i \in 1 .. undo[m] /\ k \in undo[m] + 1 .. calls[m]
            BY <4>2, <6>1, AboveAndBelow
          <6>4. k # undo[m] => recovered[m][i] < recovered[m][k]
            BY <4>1, <6>3
          <6>5. QED BY <4>2, <4>3, <6>1, <6>2, <6>4
        <5>3. QED BY <4>1, <4>2, <5>1, <5>2
      <4>5. \A a \in Actions : a # m => OrderedAt(a)'
        BY <4>1
      <4>6. QED BY <4>4, <4>5
    <3>7. QED BY <2>3, <3>1, <3>2, <3>3, <3>4, <3>5, <3>6 DEF Thread, Warden
  <2>4. ASSUME NEW m \in Actions, Kill(m) PROVE Ordered'
    BY <2>4 DEF Kill, run, warden
  <2>5. CASE UNCHANGED vars
    BY <2>5 DEF vars, run, warden, busy
  <2>6. QED BY <2>1, <2>2, <2>3, <2>4, <2>5 DEF Next
<1>3. QED BY <1>1, <1>2, TypedInvariant, PTL DEF Spec

\* Whatever recovers raise, and however often recovery is begun again, a
\* middleware is recovered only when those called after it have been.
THEOREM LastCalledFirstHolds == Spec => []LastCalledFirst
<1>1. Ordered => LastCalledFirst
  BY DEF Ordered, OrderedAt, LastCalledFirst
<1>2. QED BY <1>1, OrderedInvariant, PTL

\* An action that fails leaves no middleware unrecovered and none recovered
\* twice, provided no recover raised.
LEMMA RecoveringInvariant == Spec => []Recovering
<1> USE DEF Recovering, RecoveringAt, RecoveredAbove
<1>1. Init => Recovering
  BY DEF Init, Forward
<1>2. Typed /\ Framed /\ Ordered /\ Recovering /\ [Next]_vars => Recovering'
  <2> SUFFICES ASSUME Typed, Framed, Ordered, Recovering, [Next]_vars PROVE Recovering'
    OBVIOUS
  <2> USE DEF Typed, Forward
  <2>1. CASE Main
    <3>1. UNCHANGED <<calls, undo, recovered, spoilt, result>>
      BY <2>1 DEF Main, Spawn, TestAlive, Join, JoinTimeout, SpawnedAll,
                  Collect, Finish, warden, busy
    <3>2. ASSUME NEW a \in Actions
          PROVE at'[a] # at[a] => at[a] = "none" /\ at'[a] = "begun"
      BY <2>1, BoundsAssumption
         DEF Main, Spawn, TestAlive, Join, JoinTimeout, SpawnedAll,
             Collect, Finish, Framed, Ahead, Actions
    <3>3. QED BY <3>1, <3>2
  <2>2. CASE Signal
    BY <2>2 DEF Signal, warden
  <2>3. ASSUME NEW m \in Actions, Thread(m) PROVE Recovering'
    <3> USE Ranges DEF run, busy, Chain
    <3>1. CASE Lock(m)
      <4>1. calls[m] = 0 /\ \A i \in Chain : recovered[m][i] = 0
        BY <3>1 DEF Lock, Framed, FramedAt, Ordered, OrderedAt
      <4>2. /\ UNCHANGED <<calls, undo, recovered, spoilt, result>>
            /\ \A a \in Actions : a # m => at'[a] = at[a]
            /\ at'[m] \in {"locked", "failed"}
        BY <3>1 DEF Lock, warden
      <4>3. RecoveringAt(m)'
        BY <4>1, <4>2
      <4>4. \A a \in Actions : a # m => RecoveringAt(a)'
        BY <4>2
      <4>5. QED
        <5> HIDE DEF RecoveringAt
        <5> QED BY <4>3, <4>4
    <3>2. CASE Register(m) BY <3>2 DEF Register, warden
    <3>3. CASE Leave(m)
      <4>1. /\ UNCHANGED <<calls, undo, recovered, spoilt>>
            /\ \A a \in Actions : a # m => at'[a] = at[a] /\ result'[a] = result[a]
            /\ at[m] \in {"failed", "finished", "terminated", "uncaught"}
            /\ at'[m] = "dead" /\ result'[m] = Outcome(m)
        BY <3>3 DEF Leave, warden
      <4>2. RecoveringAt(m)'
        <5>1. CASE at[m] = "failed"
          BY <4>1, <5>1 DEF Outcome
        <5>2. CASE at[m] # "failed"
          BY <4>1, <5>2 DEF Outcome
        <5>3. QED BY <5>1, <5>2
      <4>3. ASSUME NEW a \in Actions, a # m PROVE RecoveringAt(a)'
        <5>1. /\ at'[a] = at[a] /\ result'[a] = result[a] /\ undo' = undo
              /\ calls' = calls /\ recovered' = recovered /\ spoilt' = spoilt
          BY <4>1, <4>3
        <5>2. RecoveringAt(a)
          BY DEF Recovering
        <5>3. QED BY <5>1, <5>2
      <4>4. QED
        <5> HIDE DEF RecoveringAt
        <5> QED BY <4>2, <4>3
    <3>4. CASE CallNothing(m)
      <4>1. /\ UNCHANGED <<calls, undo, recovered, spoilt, result>>
            /\ \A a \in Actions : a # m => at'[a] = at[a]
            /\ at[m] = "calling" /\ at'[m] = "after"
        BY <3>4 DEF CallNothing, warden
      <4>2. QED BY <4>1
    <3>5. CASE Check(m) BY <3>5 DEF Check
    <3>6. CASE Enter(m) BY <3>6 DEF Enter
    <3>7. CASE CallNext(m) BY <3>7 DEF CallNext, warden
    <3>8. CASE Raise(m) BY <3>8 DEF Raise, warden
    <3>9. CASE Return(m)
      <4>1. /\ UNCHANGED <<calls, undo, recovered, spoilt, result>>
            /\ \A a \in Actions : a # m => at'[a] = at[a]
            /\ at[m] \in {"inside", "after"}
            /\ at'[m] \in {"raising", "finished", "after"}
        BY <3>9 DEF Return
      <4>2. QED BY <4>1
    <3>10. CASE TriggerAbort(m)
      <4>1. /\ UNCHANGED <<calls, undo, recovered, spoilt, result>>
            /\ \A a \in Actions : a # m => at'[a] = at[a]
            /\ at[m] \in {"inside", "after"}
            /\ at'[m] \in {"terminated", "killed"}
        BY <3>10 DEF TriggerAbort, warden
      <4>2. QED BY <4>1
    <3>11. CASE Recover(m)
      <4>1. /\ UNCHANGED <<calls, recovered, spoilt, result>>
            /\ \A a \in Actions : a # m => at'[a] = at[a] /\ undo'[a] = undo[a]
            /\ at[m] = "raising" /\ at'[m] = "recovering" /\ undo'[m] = calls[m]
        BY <3>11 DEF Recover
      <4>2. RecoveringAt(m)'
        BY <4>1
      <4>3. ASSUME NEW a \in Actions, a # m PROVE RecoveringAt(a)'
        <5>1. /\ at'[a] = at[a] /\ undo'[a] = undo[a] /\ calls' = calls
              /\ recovered' = recovered /\ spoilt' = spoilt /\ result' = result
          BY <4>1, <4>3
        <5>2. RecoveringAt(a)
          BY DEF Recovering
        <5>3. QED BY <5>1, <5>2
      <4>4. QED
        <5> HIDE DEF RecoveringAt
        <5> QED BY <4>2, <4>3
    <3>12. CASE RecoverOne(m)
      <4>1. /\ UNCHANGED <<at, calls, spoilt, result>>
            /\ \A a \in Actions : a # m => recovered'[a] = recovered[a] /\ undo'[a] = undo[a]
            /\ undo[m] \in Counts /\ undo[m] > 0 /\ undo'[m] = undo[m] - 1
            /\ at[m] = "recovering"
        BY <3>12 DEF RecoverOne
      <4>2. \A i \in Chain : recovered'[m][i] =
              IF i = undo[m] THEN recovered[m][i] + 1 ELSE recovered[m][i]
        BY <3>12 DEF RecoverOne
      <4>3. ~spoilt[m] => RecoveredAbove(m, undo[m])'
        <5> SUFFICES ASSUME ~spoilt[m], NEW i \in Chain
                     PROVE recovered'[m][i] = IF undo'[m] < i /\ i <= calls[m] THEN 1 ELSE 0
          BY <4>1
        <5>1. recovered[m][i] = IF undo[m] < i /\ i <= calls[m] THEN 1 ELSE 0
          BY <4>1
        <5>2. undo[m] <= calls[m]
          BY <4>1 DEF Ordered, OrderedAt
        <5>3. i \in Nat
          BY BoundsAssumption
        <5>4. calls[m] \in Nat /\ undo[m] \in Nat
          BY <4>1
        <5>5. CASE i = undo[m]
          BY <4>1, <4>2, <5>1, <5>2, <5>4, <5>5
        <5>6. CASE i # undo[m]
          <6>1. undo'[m] < i <=> undo[m] < i
            BY <4>1, <5>3, <5>4, <5>6
          <6>2. QED BY <4>2, <5>1, <5>6, <6>1
        <5>7. QED BY <5>5, <5>6
      <4>4. RecoveringAt(m)'
        <5>1. ~spoilt'[m] => RecoveredAbove(m, undo[m])' /\ at'[m] = "recovering"
          BY <4>1, <4>3
        <5> HIDE DEF RecoveredAbove, Typed, Recovering, Ordered
        <5> QED BY <5>1
      <4>5. \A a \in Actions : a # m => RecoveringAt(a)'
        <5> SUFFICES ASSUME NEW a \in Actions, a # m PROVE RecoveringAt(a)'
          OBVIOUS
        <5>1. RecoveringAt(a)
          OBVIOUS
        <5>2. /\ at'[a] = at[a] /\ calls'[a] = calls[a] /\ undo'[a] = undo[a]
              /\ recovered'[a] = recovered[a] /\ spoilt'[a] = spoilt[a] /\ result'[a] = result[a]
          BY <4>1
        <5> HIDE DEF Typed, Ordered, Recovering, Framed
        <5>3. QED BY <5>1, <5>2
      <4>6. QED
        <5> HIDE DEF RecoveringAt
        <5> QED BY <4>4, <4>5
    <3>13. CASE RecoverRaises(m) BY <3>13 DEF RecoverRaises
    <3>14. CASE RecoverDone(m) BY <3>14 DEF RecoverDone, warden
    <3>15. CASE Exit(m) BY <3>15 DEF Exit, warden
    <3>16. CASE RecoverExits(m) BY <3>16 DEF RecoverExits
    <3>17. QED BY <2>3, <3>1, <3>2, <3>3, <3>4, <3>5, <3>6, <3>7, <3>8, <3>9,
                  <3>10, <3>11, <3>12, <3>13, <3>14, <3>15, <3>16 DEF Thread, Warden
  <2>4. ASSUME NEW m \in Actions, Kill(m) PROVE Recovering'
    BY <2>4 DEF Kill, run, warden
  <2>5. CASE UNCHANGED vars
    BY <2>5 DEF vars, run, warden, busy
  <2>6. QED BY <2>1, <2>2, <2>3, <2>4, <2>5 DEF Next
<1>3. QED BY <1>1, <1>2, TypedInvariant, OrderedInvariant, PTL DEF Spec

\* An action that fails has had each middleware it called recovered once when
\* its thread ends, and one that ends well, or by an exception that no Warden
\* catches, none: unless a recover raised.
THEOREM FailsCleanly == Spec => []CleanFailure
<1>1. Typed /\ Recovering => CleanFailure
  <2> SUFFICES ASSUME Typed, Recovering, NEW m \in Actions, at[m] = "dead", ~spoilt[m]
               PROVE recovered[m] = [i \in Chain |->
                       IF result[m] \in {"raised", "error"} /\ i <= calls[m] THEN 1 ELSE 0]
    BY DEF CleanFailure
  <2>1. recovered[m] \in [Chain -> Nat]
    BY DEF Typed
  <2>2. \A i \in Chain : recovered[m][i] =
          IF result[m] \in {"raised", "error"} /\ i <= calls[m] THEN 1 ELSE 0
    BY Ranges DEF Recovering, RecoveringAt, RecoveredAbove, Chain
  <2>3. QED BY <2>1, <2>2
<1>2. QED BY <1>1, TypedInvariant, RecoveringInvariant, PTL
-------------------------------------------------------------------------------
(* What a batch reports.                                                   *)

\* An action has a result when its thread is dead, and only then; errors are
\* kept in the thread, and threads terminated, when actions run in parallel.
ResultAt(m) ==
    /\ at[m] = "dead" <=> result[m] # "none"
    /\ at[m] = "terminated" => par
    /\ result[m] \in {"error", "exit"} => par
    /\ result[m] = "raised" => ~par

Results == \A m \in Actions : ResultAt(m)

\* An action that lets the next one begin.
Passed(m) == at[m] = "dead" /\ (result[m] = "ok" \/ m \in missed)

\* Where run is tells which of the actions have passed or ended.
Reported ==
    /\ ~par /\ main \in {"spawn", "test", "join"} =>
        \A m \in Actions : m < next => Passed(m)
    /\ ~par /\ main = "collect" => \A m \in Actions : Passed(m)
    /\ main = "collect" => \A m \in Actions : m < next => at[m] = "dead"
    /\ FailureStopsSequence
    /\ RunReports

\* What the steps of Main do to the threads.
LEMMA MainEffect ==
    ASSUME Typed, Framed, Main
    PROVE  /\ UNCHANGED <<par, result>>
           /\ \A a \in Actions :
                \/ at'[a] = at[a]
                \/ a = next /\ main = "spawn" /\ at[a] = "none" /\ at'[a] = "begun"
<1>1. UNCHANGED <<par, result>>
  BY DEF Main, Spawn, TestAlive, Join, JoinTimeout, SpawnedAll, Collect, Finish
<1>2. \A a \in Actions :
        \/ at'[a] = at[a]
        \/ a = next /\ main = "spawn" /\ at[a] = "none" /\ at'[a] = "begun"
  <2>1. CASE Spawn
    BY <2>1 DEF Spawn, Typed, Framed, Ahead
  <2>2. CASE ~Spawn
    BY <2>2 DEF Main, TestAlive, Join, JoinTimeout, SpawnedAll, Collect, Finish
  <2>3. QED BY <2>1, <2>2
<1>3. QED BY <1>1, <1>2

\* What the steps of the threads, and of a signal, leave alone.
LEMMA ThreadEffect ==
    ASSUME Typed, Signal \/ \E m \in Actions : Thread(m) \/ Kill(m)
    PROVE  /\ UNCHANGED <<par, next, missed>>
           /\ main' \in {main, "exited", "aborted", "raised"}
           /\ \A a \in Actions :
                /\ at[a] = "none" <=> at'[a] = "none"
                /\ at[a] = "dead" => at'[a] = "dead" /\ result'[a] = result[a]
<1> USE DEF Typed
<1>1. CASE Signal
  BY <1>1 DEF Signal
<1>2. ASSUME NEW m \in Actions, Thread(m)
      PROVE  /\ UNCHANGED <<par, next, missed>>
             /\ main' \in {main, "exited", "aborted", "raised"}
             /\ \A a \in Actions :
                  /\ at[a] = "none" <=> at'[a] = "none"
                  /\ at[a] = "dead" => at'[a] = "dead" /\ result'[a] = result[a]
  <2>1. CASE Leave(m)
    BY <2>1 DEF Leave, ExitsMain
  <2>2. CASE TriggerAbort(m)
    BY <2>2 DEF TriggerAbort
  <2>3. CASE Lock(m) \/ Register(m) \/ CallNothing(m) \/ Check(m) \/ Enter(m)
    BY <2>3 DEF Lock, Register, CallNothing, Check, Enter, run
  <2>4. CASE CallNext(m) \/ Raise(m) \/ Exit(m) \/ Return(m)
    BY <2>4 DEF CallNext, Raise, Exit, Return, run
  <2>5. CASE Recover(m) \/ RecoverOne(m) \/ RecoverRaises(m) \/ RecoverExits(m) \/ RecoverDone(m)
    BY <2>5 DEF Recover, RecoverOne, RecoverRaises, RecoverExits, RecoverDone, run
  <2>6. QED BY <1>2, <2>1, <2>2, <2>3, <2>4, <2>5 DEF Thread, Warden
<1>3. ASSUME NEW m \in Actions, Kill(m)
      PROVE  /\ UNCHANGED <<par, next, missed>>
             /\ main' \in {main, "exited", "aborted", "raised"}
             /\ \A a \in Actions :
                  /\ at[a] = "none" <=> at'[a] = "none"
                  /\ at[a] = "dead" => at'[a] = "dead" /\ result'[a] = result[a]
  BY <1>3 DEF Kill, run, Live
<1>4. QED BY <1>1, <1>2, <1>3

\* A thread's result tells how it ended.
LEMMA ResultsInvariant == Spec => []Results
<1> USE DEF Results, ResultAt, Typed
<1>1. Init => Results
  BY DEF Init
<1>2. Typed /\ Framed /\ Results /\ [Next]_vars => Results'
  <2> SUFFICES ASSUME Typed, Framed, Results, [Next]_vars PROVE Results'
    OBVIOUS
  <2>1. CASE Main
    BY <2>1, MainEffect
  <2>2. CASE Signal
    BY <2>2 DEF Signal
  <2>3. ASSUME NEW m \in Actions, Thread(m) PROVE Results'
    <3>1. CASE Leave(m)
      BY <3>1 DEF Leave, Outcome
    <3>2. CASE TriggerAbort(m)
      BY <3>2 DEF TriggerAbort
    <3>3. CASE Lock(m) \/ Register(m) \/ CallNothing(m) \/ Check(m) \/ Enter(m)
      BY <3>3 DEF Lock, Register, CallNothing, Check, Enter, run
    <3>4. CASE CallNext(m) \/ Raise(m) \/ Exit(m) \/ Return(m)
      BY <3>4 DEF CallNext, Raise, Exit, Return, run
    <3>5. CASE Recover(m) \/ RecoverOne(m) \/ RecoverRaises(m) \/ RecoverExits(m) \/ RecoverDone(m)
      BY <3>5 DEF Recover, RecoverOne, RecoverRaises, RecoverExits, RecoverDone, run
    <3>6. QED BY <2>3, <3>1, <3>2, <3>3, <3>4, <3>5 DEF Thread, Warden
  <2>4. ASSUME NEW m \in Actions, Kill(m) PROVE Results'
    BY <2>4 DEF Kill, run, Live
  <2>5. CASE UNCHANGED vars
    BY <2>5 DEF vars, run
  <2>6. QED BY <2>1, <2>2, <2>3, <2>4, <2>5 DEF Next
<1>3. QED BY <1>1, <1>2, TypedInvariant, PTL DEF Spec

\* run and the threads agree on what has passed, ended and failed.
LEMMA ReportedInvariant == Spec => []Reported
<1> USE DEF Reported, Passed, FailureStopsSequence, RunReports
<1>1. Init => Reported
  BY BoundsAssumption DEF Init, Actions
<1>2. Typed /\ Framed /\ Results /\ Reported /\ [Next]_vars => Reported'
  <2> SUFFICES ASSUME Typed, Framed, Results, Reported, [Next]_vars PROVE Reported'
    OBVIOUS
  <2>1. CASE Signal \/ \E m \in Actions : Thread(m) \/ Kill(m)
    <3>1. /\ UNCHANGED <<par, next, missed>>
          /\ main' \in {main, "exited", "aborted", "raised"}
          /\ \A a \in Actions :
               /\ at[a] = "none" <=> at'[a] = "none"
               /\ at[a] = "dead" => at'[a] = "dead" /\ result'[a] = result[a]
      BY <2>1, ThreadEffect
    <3>2. Errors # {} /\ main' = "multierror" => Errors' # {}
      BY <3>1 DEF Errors, Results, ResultAt
    <3>3. QED BY <3>1, <3>2
  <2>2. CASE Spawn
    <3>1. /\ main = "spawn" /\ next \in Actions
          /\ UNCHANGED <<par, missed, result>>
          /\ \A a \in Actions : a # next => at'[a] = at[a]
          /\ at[next] = "none" /\ at'[next] = "begun"
      BY <2>2, BoundsAssumption DEF Spawn, warden, Typed, Actions, Framed, Ahead
    <3>2. CASE par
      BY <2>2, <3>1, <3>2 DEF Spawn
    <3>3. CASE ~par
      <4>1. main' = "test" /\ next' = next
        BY <2>2, <3>3 DEF Spawn
      <4>2. \A m \in Actions : m < next => Passed(m) /\ Passed(m)'
        BY <3>1, <3>3
      <4>3. ASSUME NEW m \in Actions, m + 1 \in Actions, at'[m + 1] # "none" PROVE Passed(m)'
        <5>1. CASE m + 1 = next
          BY <4>2, <5>1 DEF Actions
        <5>2. CASE m + 1 # next
          BY <3>1, <3>3, <4>3, <5>2
        <5>3. QED BY <5>1, <5>2
      <4>4. QED BY <3>1, <4>1, <4>2, <4>3
    <3>4. QED BY <3>2, <3>3
  <2>3. CASE TestAlive
    <3>1. /\ main = "test" /\ next \in Actions
          /\ UNCHANGED <<par, at, result>>
      BY <2>3 DEF TestAlive, Framed, Ahead
    <3>2. CASE at[next] = "dead"
      <4>1. main' = "spawn" /\ next' = next + 1 /\ missed' = missed \cup {next}
        BY <2>3, <3>2 DEF TestAlive
      <4>2. \A m \in Actions : m < next' => m < next \/ m = next
        BY <3>1, <4>1 DEF Actions
      <4>3. \A m \in Actions : Passed(m) => Passed(m)'
        BY <3>1, <4>1
      <4>4. \A m \in Actions : m = next => Passed(m)'
        BY <3>1, <3>2, <4>1
      <4>5. QED BY <3>1, <4>1, <4>2, <4>3, <4>4
    <3>3. CASE at[next] # "dead"
      BY <2>3, <3>1, <3>3 DEF TestAlive
    <3>4. QED BY <3>2, <3>3
  <2>4. CASE Join
    <3>1. /\ main = "join" /\ next \in Actions /\ at[next] = "dead"
          /\ UNCHANGED <<par, missed, at, result>>
      BY <2>4 DEF Join, Framed, Ahead
    <3>2. CASE result[next] \in {"raised", "uncaught"}
      BY <2>4, <3>1, <3>2 DEF Join
    <3>3. CASE result[next] \notin {"raised", "uncaught"}
      <4>1. main' = "spawn" /\ next' = next + 1
        BY <2>4, <3>3 DEF Join
      <4>2. \A m \in Actions : m < next' => m < next \/ m = next
        BY <3>1, <4>1 DEF Actions
      <4>3. ~par => Passed(next)
        BY <3>1, <3>3 DEF Results, ResultAt, Typed
      <4>4. QED BY <3>1, <4>1, <4>2, <4>3
    <3>4. QED BY <3>2, <3>3
  <2>5. CASE JoinTimeout
    BY <2>5 DEF JoinTimeout
  <2>6. CASE SpawnedAll
    <3>1. /\ main = "spawn" /\ main' = "collect" /\ next' = 1
          /\ UNCHANGED <<par, missed, at, result>>
      BY <2>6 DEF SpawnedAll
    <3>2. \A m \in Actions : m < next /\ ~(m < 1)
      BY <2>6, BoundsAssumption DEF SpawnedAll, Actions, Typed
    <3>3. QED BY <3>1, <3>2
  <2>7. CASE Collect
    <3>1. /\ main = "collect" /\ main' = main /\ next' = next + 1
          /\ at[next] = "dead" /\ next \in Nat
          /\ UNCHANGED <<par, missed, at, result>>
      BY <2>7, BoundsAssumption DEF Collect, Typed
    <3>2. \A m \in Actions : m < next' => m < next \/ m = next
      BY <3>1 DEF Actions
    <3>3. QED BY <3>1, <3>2
  <2>8. CASE Finish
    <3>1. /\ main = "collect" /\ main' \in {"multierror", "exited", "returned"}
          /\ main' = "multierror" => Errors # {}
          /\ main' = "returned" => Errors = {} /\ \A m \in Actions : result[m] # "exit"
          /\ UNCHANGED <<par, next, missed, at, result>>
      BY <2>8 DEF Finish
    <3>2. \A m \in Actions : m < next
      BY <2>8, BoundsAssumption DEF Finish, Actions, Typed
    <3>3. \A m \in Actions : at[m] = "dead"
      BY <3>1, <3>2
    <3>4. Errors # {} => par
      BY DEF Errors, Results, ResultAt
    <3>5. main' = "returned" => \A m \in Actions : result[m] = "ok" \/ m \in missed
      <4>1. CASE ~par
        BY <3>1, <4>1
      <4>2. CASE par
        BY <3>1, <3>3, <4>2 DEF Errors, Results, ResultAt, Typed
      <4>3. QED BY <4>1, <4>2
    <3>6. Errors' = Errors
      BY <3>1 DEF Errors
    <3>7. QED BY <3>1, <3>3, <3>4, <3>5, <3>6
  <2>9. CASE UNCHANGED vars
    BY <2>9 DEF vars, run, Errors
  <2>10. QED BY <2>1, <2>2, <2>3, <2>4, <2>5, <2>6, <2>7, <2>8, <2>9 DEF Next, Main
<1>3. QED BY <1>1, <1>2, TypedInvariant, ResultsInvariant, PTL DEF Spec

\* Actions that run one after another stop at the first that fails, save
\* where its failure is missed by the test of thread.alive?.
THEOREM SequenceStops == Spec => []FailureStopsSequence
<1>1. Reported => FailureStopsSequence
  BY DEF Reported
<1>2. QED BY <1>1, ReportedInvariant, PTL

\* A batch returns when all its actions have ended well, or were missed, and
\* raises its errors when all have ended.
THEOREM BatchReports == Spec => []RunReports
<1>1. Reported => RunReports
  BY DEF Reported
<1>2. QED BY <1>1, ReportedInvariant, PTL

-------------------------------------------------------------------------------
(* Whom a signal reaches.                                                  *)

\* registered.delete of a callback that is there once takes out that callback
\* and keeps the others, in their order.
LEMMA RemoveFirstOnce ==
    ASSUME NEW S, NEW s \in Seq(S), NEW e, IsInjective(s)
    PROVE  LET r == RemoveFirst(s, e)
           IN  /\ r \in Seq(S)
               /\ IsInjective(r)
               /\ Range(r) = Range(s) \ {e}
<1> DEFINE r == RemoveFirst(s, e)
           At == {i \in 1 .. Len(s) : s[i] = e}
<1>0. /\ Len(s) \in Nat /\ DOMAIN s = 1 .. Len(s)
      /\ \A i \in 1 .. Len(s) : s[i] \in S
      /\ \A i, k \in 1 .. Len(s) : s[i] = s[k] => i = k
  BY DEF IsInjective
<1>1. CASE At = {}
  <2>1. r = s
    BY <1>1 DEF RemoveFirst
  <2>2. e \notin Range(s)
    BY <1>0, <1>1 DEF Range
  <2>3. QED BY <2>1, <2>2
<1>2. CASE At # {}
  <2>1. PICK k \in 1 .. Len(s) : s[k] = e
    BY <1>2
  <2>2. At = {k}
    BY <1>0, <2>1
  <2> DEFINE before == SubSeq(s, 1, k - 1)
             behind == SubSeq(s, k + 1, Len(s))
  <2>3. r = before \o behind
    <3>1. Min(At) = k
      BY <2>2 DEF Min
    <3>2. SelectInSeq(s, LAMBDA v : v = e) = k
      BY <1>2, <3>1 DEF SelectInSeq
    <3>3. r = RemoveAt(s, k)
      BY <2>1, <3>2 DEF RemoveFirst
    <3>4. QED BY <3>3 DEF RemoveAt
  <2>4. /\ before \in Seq(S) /\ Len(before) = k - 1
        /\ \A i \in 1 .. k - 1 : before[i] = s[i]
    <3>1. 1 \in Int /\ k - 1 \in Int /\ \A i \in 1 .. k - 1 : s[i] \in S
      BY <1>0
    <3>2. /\ before \in Seq(S)
          /\ Len(before) = IF 1 <= k - 1 THEN (k - 1) - 1 + 1 ELSE 0
          /\ \A i \in 1 .. (k - 1) - 1 + 1 : before[i] = s[1 + i - 1]
      BY <3>1, SubSeqProperties
    <3>3. QED BY <3>2
  <2>5. /\ behind \in Seq(S) /\ Len(behind) = Len(s) - k
        /\ \A i \in 1 .. Len(s) - k : behind[i] = s[k + i]
    <3>1. k + 1 \in Int /\ Len(s) \in Int /\ \A i \in k + 1 .. Len(s) : s[i] \in S
      BY <1>0
    <3>2. /\ behind \in Seq(S)
          /\ Len(behind) = IF k + 1 <= Len(s) THEN Len(s) - (k + 1) + 1 ELSE 0
          /\ \A i \in 1 .. Len(s) - (k + 1) + 1 : behind[i] = s[(k + 1) + i - 1]
      BY <3>1, SubSeqProperties
    <3>3. \A i \in 1 .. Len(s) - k : /\ i \in 1 .. Len(s) - (k + 1) + 1
                                    /\ (k + 1) + i - 1 = k + i
      BY <1>0
    <3>4. Len(behind) = Len(s) - k
      <4> HIDE DEF behind
      <4>1. CASE k + 1 <= Len(s)
        BY <1>0, <3>2, <4>1
      <4>2. CASE k = Len(s)
        BY <1>0, <3>2, <4>2
      <4>3. Len(s) \in Nat
        BY <1>0
      <4>4. k + 1 <= Len(s) \/ k = Len(s)
        BY <4>3
      <4>5. QED BY <4>1, <4>2, <4>4
    <3>5. QED BY <3>2, <3>3, <3>4
  <2> HIDE DEF before, behind
  <2>6. /\ r \in Seq(S) /\ Len(r) = Len(s) - 1
        /\ \A i \in 1 .. Len(s) - 1 : r[i] = IF i < k THEN s[i] ELSE s[i + 1]
    <3> HIDE DEF r
    <3>1. /\ before \o behind \in Seq(S)
          /\ Len(before \o behind) = Len(before) + Len(behind)
          /\ \A i \in 1 .. Len(before) + Len(behind) : (before \o behind)[i] =
               IF i <= Len(before) THEN before[i] ELSE behind[i - Len(before)]
      BY <2>4, <2>5, ConcatProperties
    <3>2. Len(before) + Len(behind) = Len(s) - 1
      BY <1>0, <2>4, <2>5
    <3>3. \A i \in 1 .. Len(s) - 1 :
            (before \o behind)[i] = IF i < k THEN s[i] ELSE s[i + 1]
      <4> SUFFICES ASSUME NEW i \in 1 .. Len(s) - 1
                   PROVE  (before \o behind)[i] = IF i < k THEN s[i] ELSE s[i + 1]
        OBVIOUS
      <4>1. CASE i < k
        <5>1. i \in 1 .. k - 1 /\ i <= Len(before)
          BY <2>4, <4>1
        <5>2. QED BY <2>4, <3>1, <3>2, <4>1, <5>1
      <4>2. CASE ~(i < k)
        <5>1. /\ i - (k - 1) \in 1 .. Len(s) - k /\ ~(i <= Len(before))
              /\ k + (i - (k - 1)) = i + 1
          BY <1>0, <2>4, <4>2
        <5>2. QED BY <2>4, <2>5, <3>1, <3>2, <4>2, <5>1
      <4>3. QED BY <4>1, <4>2
    <3>4. QED BY <2>3, <3>1, <3>2, <3>3
  <2> HIDE DEF r
  <2>7. DOMAIN r = 1 .. Len(s) - 1
    BY <2>6
  <2>8. IsInjective(r)
    BY <1>0, <2>6, <2>7 DEF IsInjective
  <2>9. Range(r) \subseteq Range(s) \ {e}
    BY <1>0, <2>1, <2>6, <2>7 DEF Range
  <2>10. ASSUME NEW x \in Range(s) \ {e} PROVE x \in Range(r)
    <3>1. PICK i \in 1 .. Len(s) : s[i] = x /\ i # k
      BY <1>0, <2>1, <2>10 DEF Range
    <3>2. CASE i < k
      <4>1. i \in 1 .. Len(s) - 1 /\ r[i] = x
        BY <1>0, <2>6, <3>1, <3>2
      <4>2. QED BY <2>7, <4>1 DEF Range
    <3>3. CASE i > k
      <4>1. i - 1 \in 1 .. Len(s) - 1 /\ r[i - 1] = x
        BY <1>0, <2>6, <3>1, <3>3
      <4>2. QED BY <2>7, <4>1 DEF Range
    <3>4. QED BY <3>1, <3>2, <3>3
  <2>11. QED BY <2>6, <2>8, <2>9, <2>10 DEF r
<1>3. QED BY <1>1, <1>2

\* The same of a callback that is added.
LEMMA AppendOnce ==
    ASSUME NEW S, NEW s \in Seq(S), NEW e \in S, IsInjective(s), e \notin Range(s)
    PROVE  /\ Append(s, e) \in Seq(S)
           /\ IsInjective(Append(s, e))
           /\ Range(Append(s, e)) = Range(s) \cup {e}
<1>1. /\ Append(s, e) \in Seq(S)
      /\ Len(Append(s, e)) = Len(s) + 1
      /\ \A i \in 1 .. Len(s) : Append(s, e)[i] = s[i]
      /\ Append(s, e)[Len(s) + 1] = e
  BY AppendProperties
<1>2. /\ Len(s) \in Nat /\ DOMAIN s = 1 .. Len(s)
      /\ DOMAIN Append(s, e) = 1 .. Len(s) + 1
  BY <1>1
<1>3. \A i \in 1 .. Len(s) + 1 : i \in 1 .. Len(s) \/ i = Len(s) + 1
  BY <1>2
<1>4. IsInjective(Append(s, e))
  BY <1>1, <1>2, <1>3 DEF IsInjective, Range
<1>5. Range(Append(s, e)) = Range(s) \cup {e}
  BY <1>1, <1>2, <1>3 DEF Range
<1>6. QED BY <1>1, <1>4, <1>5

\* The places at which an action's chain runs, or has run.
Chained == {"calling", "entering", "inside", "after", "raising", "recovering",
            "finished", "terminated", "uncaught"}

\* The callbacks are those of the actions whose chain runs: each of them is
\* registered, once, and nobody else unless on the way out after a failure.
Callbacks ==
    /\ registered \in Seq(Actions)
    /\ IsInjective(registered)
    /\ \A m \in Actions :
        /\ m \in Range(registered) => at[m] \in Chained \cup {"failed"}
        /\ at[m] \in Chained => m \in Range(registered)

\* One after another, no second action is alive: what ends the process ends
\* one chain.
Alone == ~par => \A m, n \in Actions : at[m] \in Live /\ at[n] \in Live => m = n

\* What the steps of Main and of a signal do to Busy's list.
LEMMA ListKept ==
    ASSUME Main \/ Signal PROVE registered' = registered
BY DEF Main, Spawn, TestAlive, Join, JoinTimeout, SpawnedAll, Collect, Finish,
       Signal, busy

\* A thread that begins is alone unless actions run in parallel.
LEMMA AloneInvariant == Spec => []Alone
<1> USE DEF Alone, Typed
<1>1. Init => Alone
  BY DEF Init, Live
<1>2. Typed /\ Framed /\ Reported /\ Alone /\ [Next]_vars => Alone'
  <2> SUFFICES ASSUME Typed, Framed, Reported, Alone, [Next]_vars, ~par'
               PROVE  Alone'
    OBVIOUS
  <2>1. CASE Main
    <3>1. /\ ~par
          /\ \A a \in Actions :
               \/ at'[a] = at[a]
               \/ a = next /\ main = "spawn" /\ at[a] = "none" /\ at'[a] = "begun"
      BY <2>1, MainEffect
    <3>2. main = "spawn" => \A a \in Actions : a # next => at[a] \notin Live
      BY <3>1, BoundsAssumption
         DEF Reported, Passed, Framed, Ahead, Live, Actions
    <3>3. QED BY <3>1, <3>2
  <2>2. CASE Signal \/ \E m \in Actions : Thread(m) \/ Kill(m)
    <3>1. ~par
      BY <2>2, ThreadEffect
    <3>2. \A a \in Actions : at'[a] \in Live => at[a] \in Live
      <4>1. CASE Signal
        BY <4>1 DEF Signal
      <4>2. ASSUME NEW m \in Actions, Thread(m) \/ Kill(m)
            PROVE  \A a \in Actions : at'[a] \in Live => at[a] \in Live
        <5>1. at[m] \in Live
          BY <4>2 DEF Thread, Warden, Lock, Register, Leave, CallNothing, Check,
             Enter, CallNext, Raise, Exit, Return, TriggerAbort, Recover, RecoverOne,
             RecoverRaises, RecoverExits, RecoverDone, Kill, Live
        <5>2. \A a \in Actions : a # m => at'[a] = at[a]
          BY <4>2 DEF Thread, Warden, Lock, Register, Leave, CallNothing, Check,
             Enter, CallNext, Raise, Exit, Return, TriggerAbort, Recover, RecoverOne,
             RecoverRaises, RecoverExits, RecoverDone, Kill
        <5>3. QED BY <5>1, <5>2
      <4>3. QED BY <2>2, <4>1, <4>2
    <3>3. QED BY <3>1, <3>2
  <2>3. CASE UNCHANGED vars
    BY <2>3 DEF vars, run
  <2>4. QED BY <2>1, <2>2, <2>3 DEF Next
<1>3. QED BY <1>1, <1>2, TypedInvariant, ReportedInvariant, PTL DEF Spec

\* Whatever the threads do, and in whatever order, Busy's list and the running
\* chains agree.
LEMMA CallbacksInvariant == Spec => []Callbacks
<1> USE DEF Typed
<1>1. Init => Callbacks
  <2> SUFFICES ASSUME Init PROVE Callbacks
    OBVIOUS
  <2>1. registered = <<>> /\ \A m \in Actions : at[m] = "none"
    BY DEF Init
  <2>2. registered \in Seq(Actions) /\ DOMAIN registered = {}
    BY <2>1
  <2>3. QED BY <2>1, <2>2 DEF Callbacks, Chained, IsInjective, Range
<1>2. Typed /\ Framed /\ Alone /\ Callbacks /\ [Next]_vars => Callbacks'
  <2> SUFFICES ASSUME Typed, Framed, Alone, Callbacks, [Next]_vars
               PROVE  Callbacks'
    OBVIOUS
  <2> USE DEF Chained
  <2>1. ASSUME registered' = registered,
               \A m \in Actions :
                 /\ at[m] \in Chained => at'[m] \in Chained \cup {"failed"}
                 /\ at[m] = "failed" => at'[m] = "failed"
                 /\ at'[m] \in Chained => at[m] \in Chained
        PROVE  Callbacks'
    BY <2>1 DEF Callbacks
  <2>2. CASE Main
    BY <2>1, <2>2, ListKept, MainEffect
  <2>3. CASE Signal
    <3>1. at' = at
      BY <2>3 DEF Signal
    <3>2. QED BY <2>1, <2>3, <3>1, ListKept
  <2>4. ASSUME NEW m \in Actions, Register(m) PROVE Callbacks'
    <3>1. /\ at[m] = "locked" /\ at' = [at EXCEPT ![m] = "calling"]
          /\ registered' = Append(registered, m)
      BY <2>4 DEF Register
    <3>2. m \notin Range(registered)
      BY <3>1 DEF Callbacks
    <3>3. /\ registered' \in Seq(Actions) /\ IsInjective(registered')
          /\ Range(registered') = Range(registered) \cup {m}
      BY <3>1, <3>2, AppendOnce DEF Callbacks
    <3>4. QED BY <3>1, <3>3 DEF Callbacks
  <2>5. ASSUME NEW m \in Actions,
               registered' = RemoveFirst(registered, m),
               \A a \in Actions : a # m => at'[a] = at[a],
               at'[m] \in {"dead", "killed"}
        PROVE  Callbacks'
    <3>1. /\ registered' \in Seq(Actions) /\ IsInjective(registered')
          /\ Range(registered') = Range(registered) \ {m}
      BY <2>5, RemoveFirstOnce DEF Callbacks
    <3>2. QED BY <2>5, <3>1 DEF Callbacks
  <2>6. ASSUME NEW m \in Actions, Leave(m) PROVE Callbacks'
    BY <2>5, <2>6 DEF Leave
  <2>7. ASSUME NEW m \in Actions, Kill(m) PROVE Callbacks'
    BY <2>5, <2>7 DEF Kill
  <2>8. ASSUME NEW m \in Actions, TriggerAbort(m) PROVE Callbacks'
    <3>1. CASE par
      <4>1. registered' = registered /\ at' = [at EXCEPT ![m] = "terminated"]
            /\ at[m] \in {"inside", "after"}
        BY <2>8, <3>1 DEF TriggerAbort
      <4>2. QED BY <2>1, <4>1
    <3>2. CASE ~par
      \* The process exits, and this was its only chain.
      <4>1. registered' = <<>> /\ at' = [at EXCEPT ![m] = "killed"]
            /\ at[m] \in {"inside", "after"}
        BY <2>8, <3>2 DEF TriggerAbort
      <4>2. \A a \in Actions : a # m => at[a] \notin Chained
        BY <3>2, <4>1 DEF Alone, Live
      <4>3. registered' \in Seq(Actions) /\ DOMAIN registered' = {}
        BY <4>1
      <4>4. QED BY <4>1, <4>2, <4>3 DEF Callbacks, IsInjective, Range
    <3>3. QED BY <3>1, <3>2
  <2>9. ASSUME NEW m \in Actions, Lock(m) PROVE Callbacks'
    <3>1. /\ registered' = registered /\ at[m] = "begun"
          /\ \E to \in {"locked", "failed"} : at' = [at EXCEPT ![m] = to]
      BY <2>9 DEF Lock, busy
    <3>2. m \notin Range(registered)
      BY <3>1 DEF Callbacks
    <3>3. QED BY <3>1, <3>2 DEF Callbacks
  <2>10. ASSUME NEW m \in Actions,
                \/ CallNothing(m) \/ Check(m) \/ Enter(m) \/ CallNext(m)
                \/ Raise(m) \/ Exit(m) \/ Return(m)
         PROVE  Callbacks'
    <3>1. /\ registered' = registered /\ at[m] \in Chained /\ at'[m] \in Chained
          /\ \A a \in Actions : a # m => at'[a] = at[a]
      BY <2>10 DEF CallNothing, Check, Enter, CallNext, Raise, Exit, Return, busy
    <3>2. QED BY <2>1, <3>1
  <2>11. ASSUME NEW m \in Actions,
                \/ Recover(m) \/ RecoverOne(m) \/ RecoverRaises(m)
                \/ RecoverExits(m) \/ RecoverDone(m)
         PROVE  Callbacks'
    <3>1. /\ registered' = registered /\ at[m] \in Chained
          /\ at'[m] \in Chained \cup {"failed"}
          /\ \A a \in Actions : a # m => at'[a] = at[a]
      BY <2>11 DEF Recover, RecoverOne, RecoverRaises, RecoverExits, RecoverDone, busy
    <3>2. QED BY <2>1, <3>1
  <2>12. CASE UNCHANGED vars
    <3>1. registered' = registered /\ at' = at
      BY <2>12 DEF vars, busy
    <3>2. QED BY <2>1, <3>1
  <2>13. QED BY <2>2, <2>3, <2>4, <2>6, <2>7, <2>8, <2>9, <2>10, <2>11, <2>12
            DEF Next, Thread, Warden
<1>3. QED BY <1>1, <1>2, TypedInvariant, AloneInvariant, PTL DEF Spec

\* The variables keep their types, and the callbacks that a signal would run
\* are those of running actions, each registered once.
THEOREM TypeCorrect == Spec => []TypeOK
<1>1. Typed /\ Callbacks => TypeOK
  <2> SUFFICES ASSUME Typed, Callbacks PROVE TypeOK
    OBVIOUS
  <2>1. Range(registered) \subseteq Actions
    BY DEF Callbacks, Range
  <2>2. Range(registered) \subseteq {m \in Actions : at[m] \in Live}
    BY <2>1 DEF Callbacks, Chained, Live
  <2>3. QED BY <2>2 DEF TypeOK, Callbacks
<1>2. QED BY <1>1, TypedInvariant, CallbacksInvariant, PTL

\* A signal reaches every action whose chain runs, in whatever order they were
\* registered: each of them is interrupted, or the process is aborted because
\* one was interrupted before (the callback of Runner.run, by way of Busy).
THEOREM SignalReachesAll ==
    Spec => [][Signal => \/ main' = "aborted"
                         \/ \A m \in Actions : at[m] \in Chained => interrupted'[m]]_vars
<1>1. Typed /\ Callbacks /\ Signal =>
        \/ main' = "aborted"
        \/ \A m \in Actions : at[m] \in Chained => interrupted'[m]
  <2> SUFFICES ASSUME Typed, Callbacks, Signal, main' # "aborted",
                      NEW m \in Actions, at[m] \in Chained
               PROVE  interrupted'[m]
    OBVIOUS
  <2>1. \A i \in DOMAIN registered : ~interrupted[registered[i]]
    BY DEF Signal
  <2>2. PICK i \in DOMAIN registered : registered[i] = m
    BY DEF Callbacks, Range
  <2>3. m \in Interruptible
    BY <2>1, <2>2 DEF Interruptible
  <2>4. QED BY <2>3 DEF Signal
<1>2. QED BY <1>1, TypedInvariant, CallbacksInvariant, PTL DEF Spec

-------------------------------------------------------------------------------
(* Why a batch ends.                                                       *)

\* How far a thread is from its end: its phase, then the calls still to be
\* made or the frames still to be left, then the work in this frame.  The
\* thread is at place p, c calls have been made, f frames are to be left and
\* the middleware to be recovered next is u.
Phase(p) ==
    CASE p = "begun" -> 7
      [] p = "locked" -> 6
      [] p \in {"calling", "entering", "inside"} -> 5
      [] p = "after" -> 4
      [] p \in {"raising", "recovering"} -> 3
      [] p \in {"failed", "finished", "terminated", "uncaught"} -> 2
      [] OTHER -> 1

Outer(p, c, f) ==
    CASE p \in {"calling", "entering", "inside"} -> Depth - c
      [] p \in {"after", "raising", "recovering"} -> f
      [] OTHER -> 0

Inner(p, u) ==
    CASE p = "inside" -> 3
      [] p = "calling" -> 2
      [] p = "raising" -> Depth + 1
      [] p = "recovering" -> u
      [] OTHER -> 1

\* The thread of m comes nearer to its end, in lexicographic order.
Nearer(m) ==
    LET phase == Phase(at[m])
        outer == Outer(at[m], calls[m], frame[m])
    IN  \/ phase' < phase
        \/ phase' = phase /\ outer' < outer
        \/ phase' = phase /\ outer' = outer /\ Inner(at'[m], undo'[m]) < Inner(at[m], undo[m])

Begins(m) == at[m] = "none" /\ at'[m] = "begun"
Stays(m) == UNCHANGED <<at[m], calls[m], frame[m], undo[m]>>

\* The distances, place by place.
LEMMA Distances ==
    /\ Phase("begun") = 7 /\ Phase("locked") = 6 /\ Phase("after") = 4
    /\ \A p \in {"calling", "entering", "inside"} :
        Phase(p) = 5 /\ \A c, f : Outer(p, c, f) = Depth - c
    /\ \A p \in {"raising", "recovering"} : Phase(p) = 3
    /\ \A p \in {"failed", "finished", "terminated", "uncaught"} : Phase(p) = 2
    /\ \A p \in {"none", "dead", "killed"} : Phase(p) = 1
    /\ \A p \in {"after", "raising", "recovering"} : \A c, f : Outer(p, c, f) = f
    /\ \A u : /\ Inner("inside", u) = 3 /\ Inner("calling", u) = 2
              /\ Inner("entering", u) = 1
              /\ Inner("raising", u) = Depth + 1 /\ Inner("recovering", u) = u
<1>1. /\ Phase("begun") = 7 /\ Phase("locked") = 6 /\ Phase("after") = 4
      /\ \A p \in {"calling", "entering", "inside"} : Phase(p) = 5
      /\ \A p \in {"raising", "recovering"} : Phase(p) = 3
      /\ \A p \in {"failed", "finished", "terminated", "uncaught"} : Phase(p) = 2
      /\ \A p \in {"none", "dead", "killed"} : Phase(p) = 1
  BY DEF Phase
<1>2. /\ \A p \in {"calling", "entering", "inside"} : \A c, f : Outer(p, c, f) = Depth - c
      /\ \A p \in {"after", "raising", "recovering"} : \A c, f : Outer(p, c, f) = f
  BY DEF Outer
<1>3. \A u : /\ Inner("inside", u) = 3 /\ Inner("calling", u) = 2
             /\ Inner("entering", u) = 1
             /\ Inner("raising", u) = Depth + 1 /\ Inner("recovering", u) = u
  BY DEF Inner
<1>4. QED BY <1>1, <1>2, <1>3

\* The three distances are natural numbers, so a thread cannot come nearer to
\* its end for ever.
LEMMA DistancesAreNaturals ==
    ASSUME Typed, NEW m \in Actions
    PROVE  /\ Phase(at[m]) \in Nat
           /\ Outer(at[m], calls[m], frame[m]) \in Nat
           /\ Inner(at[m], undo[m]) \in Nat
<1>1. /\ calls[m] \in Nat /\ calls[m] <= Depth
      /\ frame[m] \in Nat /\ undo[m] \in Nat /\ Depth \in Nat
  BY Ranges DEF Typed
<1>2. Depth - calls[m] \in Nat /\ Depth + 1 \in Nat
  BY <1>1
<1>3. Phase(at[m]) \in Nat
  BY DEF Phase
<1>4. QED BY <1>1, <1>2, <1>3 DEF Outer, Inner

\* Each step of an action's thread, recovery and its repetition in the frames
\* further up included, brings the thread nearer to its end.
LEMMA ThreadComesNearer ==
    ASSUME Typed, Framed, NEW m \in Actions, Thread(m) \/ Kill(m)
    PROVE  Nearer(m) /\ \A a \in Actions : a # m => Stays(a)
<1>1. \A a \in Actions : a # m => Stays(a)
  BY DEF Thread, Warden, Lock, Register, Leave, CallNothing, Check,
         Enter, CallNext, Raise, Exit, Return, TriggerAbort, Recover, RecoverOne,
         RecoverRaises, RecoverExits, RecoverDone, Kill, warden, Typed, Stays
<1>2. /\ Depth \in Nat /\ calls[m] \in Nat /\ calls[m] <= Depth
      /\ frame[m] \in Nat /\ undo[m] \in Nat /\ undo[m] <= Depth
  BY Ranges DEF Typed
<1> USE <1>2, Distances DEF Nearer, Typed
<1>3. ASSUME Lock(m) \/ Register(m) \/ Leave(m) PROVE Nearer(m)
  <2>1. \/ at[m] = "begun" /\ at'[m] \in {"locked", "failed"}
        \/ at[m] = "locked" /\ at'[m] = "calling"
        \/ at[m] \in {"failed", "finished", "terminated", "uncaught"} /\ at'[m] = "dead"
    BY <1>3 DEF Lock, Register, Leave
  <2>2. QED BY <2>1
<1>4. ASSUME \/ CallNothing(m) \/ Raise(m) \/ Exit(m) \/ TriggerAbort(m)
             \/ RecoverExits(m) \/ RecoverDone(m) \/ Kill(m)
      PROVE  Nearer(m)
  <2>1. \/ at[m] = "calling" /\ at'[m] = "after"
        \/ at[m] \in {"inside", "after"} /\ at'[m] \in {"raising", "uncaught", "terminated", "killed"}
        \/ at[m] = "recovering" /\ at'[m] \in {"failed", "uncaught"}
        \/ at[m] \in Live /\ at'[m] = "killed"
    BY <1>4 DEF CallNothing, Raise, Exit, TriggerAbort, RecoverExits, RecoverDone, Kill
  <2>2. QED BY <2>1 DEF Live
<1>5. ASSUME Check(m) PROVE Nearer(m)
  <2>1. /\ at[m] = "calling" /\ at'[m] \in {"raising", "entering"}
        /\ calls'[m] = calls[m]
    BY <1>5 DEF Check
  <2>2. CASE at'[m] = "raising"
    BY <2>1, <2>2
  <2>3. CASE at'[m] = "entering"
    <3>1. /\ Outer(at[m], calls[m], frame[m]) = Depth - calls[m]
          /\ Outer(at'[m], calls'[m], frame'[m]) = Depth - calls[m]
      BY <2>1, <2>3
    <3>2. QED BY <2>1, <2>3, <3>1
  <2>4. QED BY <2>1, <2>2, <2>3
<1>6. ASSUME Enter(m) PROVE Nearer(m)
  <2>1. at[m] = "entering" /\ at'[m] = "inside" /\ calls'[m] = calls[m] + 1
    BY <1>6 DEF Enter
  <2>2. /\ Outer(at[m], calls[m], frame[m]) = Depth - calls[m]
        /\ Outer(at'[m], calls'[m], frame'[m]) = Depth - (calls[m] + 1)
    BY <2>1
  <2>3. QED BY <2>1, <2>2
<1>7. ASSUME CallNext(m) PROVE Nearer(m)
  <2>1. at[m] = "inside" /\ at'[m] = "calling" /\ calls'[m] = calls[m]
    BY <1>7 DEF CallNext, warden
  <2>2. /\ Outer(at[m], calls[m], frame[m]) = Depth - calls[m]
        /\ Outer(at'[m], calls'[m], frame'[m]) = Depth - calls[m]
    BY <2>1
  <2>3. QED BY <2>1, <2>2
<1>8. ASSUME Return(m) PROVE Nearer(m)
  <2>1. /\ at[m] \in {"inside", "after"}
        /\ \/ at'[m] = "raising"
           \/ at'[m] = "finished"
           \/ at'[m] = "after" /\ frame'[m] = frame[m] - 1
    BY <1>8 DEF Return
  <2>2. CASE at[m] = "inside" \/ at'[m] # "after"
    BY <2>1, <2>2
  <2>3. CASE at[m] = "after" /\ at'[m] = "after"
    <3>1. /\ Outer(at[m], calls[m], frame[m]) = frame[m]
          /\ Outer(at'[m], calls'[m], frame'[m]) = frame[m] - 1
      BY <2>1, <2>3
    <3>2. QED BY <2>3, <3>1
  <2>4. QED BY <2>1, <2>2, <2>3
<1>9. ASSUME Recover(m) PROVE Nearer(m)
  <2>1. /\ at[m] = "raising" /\ at'[m] = "recovering"
        /\ frame'[m] = frame[m] /\ undo'[m] = calls[m]
    BY <1>9 DEF Recover
  <2>2. /\ Outer(at[m], calls[m], frame[m]) = frame[m]
        /\ Outer(at'[m], calls'[m], frame'[m]) = frame[m]
        /\ Inner(at[m], undo[m]) = Depth + 1 /\ Inner(at'[m], undo'[m]) = calls[m]
    BY <2>1
  <2>3. QED BY <2>1, <2>2
<1>10. ASSUME RecoverOne(m) PROVE Nearer(m)
  <2>1. /\ at[m] = "recovering" /\ at'[m] = "recovering"
        /\ frame'[m] = frame[m] /\ undo'[m] = undo[m] - 1
    BY <1>10 DEF RecoverOne
  <2>2. /\ Outer(at[m], calls[m], frame[m]) = frame[m]
        /\ Outer(at'[m], calls'[m], frame'[m]) = frame[m]
        /\ Inner(at[m], undo[m]) = undo[m] /\ Inner(at'[m], undo'[m]) = undo[m] - 1
    BY <2>1
  <2>3. QED BY <2>1, <2>2
<1>11. ASSUME RecoverRaises(m) PROVE Nearer(m)
  <2>1. /\ at[m] = "recovering" /\ at'[m] \in {"failed", "raising"}
        /\ frame'[m] = frame[m] - 1
    BY <1>11 DEF RecoverRaises
  <2>2. CASE at'[m] = "failed"
    BY <2>1, <2>2
  <2>3. CASE at'[m] = "raising"
    <3>1. /\ Outer(at[m], calls[m], frame[m]) = frame[m]
          /\ Outer(at'[m], calls'[m], frame'[m]) = frame[m] - 1
      BY <2>1, <2>3
    <3>2. QED BY <2>1, <2>3, <3>1
  <2>4. QED BY <2>1, <2>2, <2>3
<1>12. QED
  BY <1>1, <1>3, <1>4, <1>5, <1>6, <1>7, <1>8, <1>9, <1>10, <1>11 DEF Thread, Warden

\* A thread begins at most once, and from then on each of its steps brings it
\* nearer to its end while the steps of all others leave it where it is: with
\* DistancesAreNaturals, the reason why no failure, repeated recovery, signal or
\* trigger keeps a batch of any size from ending.
THEOREM ThreadsDescend ==
    Spec => [][\A m \in Actions :
                 /\ Thread(m) \/ Kill(m) => Nearer(m)
                 /\ Begins(m) \/ Stays(m) \/ Nearer(m)]_vars
<1>1. Typed /\ Framed /\ [Next]_vars =>
        \A m \in Actions :
          /\ Thread(m) \/ Kill(m) => Nearer(m)
          /\ Begins(m) \/ Stays(m) \/ Nearer(m)
  <2> SUFFICES ASSUME Typed, Framed, [Next]_vars, NEW m \in Actions
               PROVE  /\ Thread(m) \/ Kill(m) => Nearer(m)
                      /\ Begins(m) \/ Stays(m) \/ Nearer(m)
    OBVIOUS
  <2>1. Thread(m) \/ Kill(m) => Nearer(m)
    BY ThreadComesNearer
  <2>2. CASE Main
    <3>1. /\ UNCHANGED <<calls, frame, undo>>
          /\ at'[m] = at[m] \/ Begins(m)
      BY <2>2, MainEffect
         DEF Main, Spawn, TestAlive, Join, JoinTimeout, SpawnedAll, Collect,
             Finish, warden, Begins
    <3>2. QED BY <2>1, <3>1 DEF Stays
  <2>3. CASE Signal
    BY <2>1, <2>3 DEF Signal, warden, Stays
  <2>4. ASSUME NEW n \in Actions, Thread(n) \/ Kill(n)
        PROVE  Stays(m) \/ Nearer(m)
    BY <2>4, ThreadComesNearer
  <2>5. CASE UNCHANGED vars
    BY <2>1, <2>5 DEF vars, run, warden, Stays
  <2>6. QED BY <2>1, <2>2, <2>3, <2>4, <2>5 DEF Next
<1>2. QED BY <1>1, TypedInvariant, PTL DEF Spec

\* While run waits for a thread it has created, the thread is running or dead,
\* and only the end of the process kills one.
Awaited ==
    /\ main \in {"test", "join"} => at[next] \in Live \cup {"dead"}
    /\ main = "collect" => \A m \in Actions : at[m] \in Live \cup {"dead"}
    /\ \A m \in Actions : at[m] = "killed" => main \in {"aborted", "exited"}
    /\ main \in Running => \A m \in Actions : m < next => at[m] # "none"
    /\ main \in {"returned", "multierror", "exited", "raised"} =>
        \A m \in Actions : at[m] \notin Live

\* run waits only for what ends: an action it joins or collects has been begun
\* and is not lost, and when run is over, other than by an abort, no thread is
\* left behind.
THEOREM WaitsForTheRunning == Spec => []Awaited
<1> USE DEF Awaited, Typed, Running
<1>1. Init => Awaited
  BY BoundsAssumption DEF Init, Actions
<1>2. /\ Typed /\ Framed /\ Results /\ Reported /\ Alone /\ Awaited /\ [Next]_vars
      => Awaited'
  <2> SUFFICES ASSUME Typed, Framed, Results, Reported, Alone, Awaited, [Next]_vars
               PROVE  Awaited'
    OBVIOUS
  <2>1. CASE Main
    <3>1. \A a \in Actions :
            \/ at'[a] = at[a]
            \/ a = next /\ main = "spawn" /\ at[a] = "none" /\ at'[a] = "begun"
      BY <2>1, MainEffect
    <3>2. CASE Spawn
      <4>1. /\ main = "spawn" /\ next \in Actions /\ at'[next] = "begun"
            /\ \/ main' = "spawn" /\ next' = next + 1
               \/ main' = "test" /\ next' = next
        BY <3>2, BoundsAssumption DEF Spawn, Actions
      <4>2. \A a \in Actions : a < next + 1 => a < next \/ a = next
        BY <4>1 DEF Actions
      <4>3. QED BY <3>1, <4>1, <4>2 DEF Live
    <3>3. CASE TestAlive
      <4>1. /\ main = "test" /\ next \in Actions /\ UNCHANGED at
            /\ \/ main' = "spawn" /\ next' = next + 1 /\ at[next] = "dead"
               \/ main' = "join" /\ next' = next
        BY <3>3 DEF TestAlive, Framed, Ahead
      <4>2. \A a \in Actions : a < next + 1 => a < next \/ a = next
        BY <4>1 DEF Actions
      <4>3. QED BY <4>1, <4>2
    <3>4. CASE Join
      <4>1. /\ main = "join" /\ next \in Actions /\ UNCHANGED at
            /\ at[next] = "dead" /\ next' \in {next, next + 1}
            /\ main' = "raised" \/ (main' = "spawn" /\ next' = next + 1)
        BY <3>4 DEF Join, Framed, Ahead
      <4>2. \A a \in Actions : a < next + 1 => a < next \/ a = next
        BY <4>1 DEF Actions
      <4>3. CASE main' = "spawn" /\ next' = next + 1
        BY <4>1, <4>2, <4>3
      <4>4. CASE main' = "raised"
        \* An exception that is raised again comes from a sequential batch.
        <5>1. ~par
          BY <4>1 DEF Framed, Ahead
        <5>2. \A a \in Actions : a < next \/ a = next \/ a > next
          BY <4>1 DEF Actions
        <5>3. \A a \in Actions : at[a] \in {"dead", "none"}
          BY <4>1, <5>1, <5>2 DEF Reported, Passed, Framed, Ahead
        <5>4. QED BY <4>1, <4>4, <5>3 DEF Live
      <4>5. QED BY <4>1, <4>3, <4>4
    <3>5. CASE JoinTimeout
      BY <3>5 DEF JoinTimeout
    <3>6. CASE SpawnedAll
      <4>1. /\ main = "spawn" /\ main' = "collect" /\ next' = 1 /\ UNCHANGED at
            /\ \A a \in Actions : a < next /\ ~(a < 1)
        BY <3>6, BoundsAssumption DEF SpawnedAll, Actions
      <4>2. \A a \in Actions : at[a] \in Live \cup {"dead"}
        BY <4>1 DEF Places
      <4>3. QED BY <4>1, <4>2
    <3>7. CASE Collect
      <4>1. main = "collect" /\ main' = main /\ UNCHANGED at
        BY <3>7 DEF Collect
      <4>2. QED BY <4>1 DEF Live
    <3>8. CASE Finish
      <4>1. /\ main = "collect" /\ UNCHANGED at
            /\ main' \in {"multierror", "exited", "returned"}
        BY <3>8 DEF Finish
      <4>2. \A a \in Actions : a < next
        BY <3>8, BoundsAssumption DEF Finish, Actions
      <4>3. \A a \in Actions : at[a] = "dead"
        BY <4>1, <4>2 DEF Reported
      <4>4. QED BY <4>1, <4>3 DEF Live
    <3>9. QED BY <2>1, <3>2, <3>3, <3>4, <3>5, <3>6, <3>7, <3>8 DEF Main
  <2>2. CASE Signal
    BY <2>2 DEF Signal, Running
  <2>3. ASSUME NEW m \in Actions, Kill(m) PROVE Awaited'
    BY <2>3 DEF Kill, run, Live
  <2>4. ASSUME NEW m \in Actions, TriggerAbort(m) PROVE Awaited'
    <3>1. CASE par
      <4>1. /\ UNCHANGED <<main, next>> /\ at[m] \in Live
            /\ at' = [at EXCEPT ![m] = "terminated"]
        BY <2>4, <3>1 DEF TriggerAbort, Live
      <4>2. QED BY <4>1 DEF Framed, Ahead, Live
    <3>2. CASE ~par
      <4>1. /\ at[m] \in Live /\ main' = "exited"
            /\ at' = [at EXCEPT ![m] = "killed"]
        BY <2>4, <3>2 DEF TriggerAbort, Live
      <4>2. \A a \in Actions : at'[a] \notin Live
        BY <3>2, <4>1 DEF Alone, Live
      <4>3. QED BY <4>1, <4>2
    <3>3. QED BY <3>1, <3>2
  <2>5. ASSUME NEW m \in Actions, Leave(m), main' # main PROVE Awaited'
    \* SystemExit has ended the only thread there was.
    <3>1. /\ ~par /\ main \in Running /\ main' = "raised" /\ at[m] \in Live
          /\ at' = [at EXCEPT ![m] = "dead"]
      BY <2>5 DEF Leave, ExitsMain, Live
    <3>2. \A a \in Actions : at'[a] \notin Live
      BY <3>1 DEF Alone, Live
    <3>3. \A a \in Actions : at[a] # "killed"
      BY <3>1
    <3>4. \A a \in Actions : at'[a] # "killed"
      BY <3>1, <3>3
    <3>5. QED BY <3>1, <3>2, <3>4
  <2>6. ASSUME NEW m \in Actions, Thread(m), ~TriggerAbort(m), main' = main PROVE Awaited'
    <3>1. /\ UNCHANGED <<main, next>>
          /\ at[m] \in Live /\ at'[m] \in Live \cup {"dead"}
          /\ \A a \in Actions : a # m => at'[a] = at[a]
      <4>1. CASE Lock(m) \/ Register(m) \/ Leave(m)
        BY <2>6, <4>1 DEF Lock, Register, Leave, run, Live
      <4>2. CASE \/ CallNothing(m) \/ Check(m) \/ Enter(m) \/ CallNext(m)
                 \/ Raise(m) \/ Exit(m) \/ Return(m)
        BY <4>2 DEF CallNothing, Check, Enter, CallNext, Raise, Exit, Return, run, Live
      <4>3. CASE \/ Recover(m) \/ RecoverOne(m) \/ RecoverRaises(m)
                 \/ RecoverExits(m) \/ RecoverDone(m)
        BY <4>3 DEF Recover, RecoverOne, RecoverRaises, RecoverExits, RecoverDone, run, Live
      <4>4. QED BY <2>6, <4>1, <4>2, <4>3 DEF Thread, Warden
    <3>2. QED BY <3>1 DEF Framed, Ahead, Live
  <2>7. ASSUME NEW m \in Actions, Thread(m), ~TriggerAbort(m) PROVE Awaited'
    <3>1. main' = main \/ Leave(m)
      BY <2>7 DEF Thread, Warden, Lock, Register, CallNothing, Check, Enter, CallNext,
                  Raise, Exit, Return, Recover, RecoverOne, RecoverRaises, RecoverExits,
                  RecoverDone, run
    <3>2. QED BY <2>5, <2>6, <2>7, <3>1
  <2>8. CASE UNCHANGED vars
    BY <2>8 DEF vars, run
  <2>9. QED BY <2>1, <2>2, <2>3, <2>4, <2>7, <2>8 DEF Next
<1>3. QED
  BY <1>1, <1>2, TypedInvariant, ResultsInvariant, ReportedInvariant,
     AloneInvariant, PTL DEF Spec
===============================================================================
