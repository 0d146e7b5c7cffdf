---------------------------- MODULE EnvLockProofs ----------------------------
(***************************************************************************)
(* Theorems about EnvLock.  The type invariant and FlockInv, which ties    *)
(* the flock to the stage of the call, hold of every instance.  With one   *)
(* thread in each process the dotlock excludes, and where open files       *)
(* cannot be deleted so does the lock.                                     *)
(***************************************************************************)
EXTENDS EnvLock, TLAPS

\* The stages in which the thread has the lock file open.
HasFile(t) ==
    pc[t] \in {"opened", "trying", "inside", "leaving", "closing", "raising"}

\* The stages in which the thread holds the flock.
HasFlock(t) == pc[t] \in {"inside", "leaving", "closing"}

\* Who holds the flock on a file has that file open, and the lock's owner has
\* it from the moment it is taken until it closes the file.
FlockInv ==
    /\ \A t \in Thread : HasFile(t) <=> fd[t] # None
    /\ \A t \in Thread, f \in File : owner[f] = t => fd[t] = f
    /\ \A t \in Thread : HasFlock(t) => owner[fd[t]] = t

\* Each process calls lock from one thread.
OneThreadEach == \A t, u \in Thread : EnvOf[t] = EnvOf[u] => t = u

\* The dotlock is held, and marked in @locks, exactly during its block.
DotInv ==
    /\ \A t \in Thread : InDotlock(t) <=> dotOwner = t
    /\ \A t \in Thread : Dotlock \in Mine(t) <=> dotOwner = t

\* A name is marked in @locks only while the thread runs the block it guards,
\* so no call is let in by the mark.
MarkInv ==
    /\ \A t \in Thread : \A n \in Name :
          n \in Mine(t) => n = NameOf[t] /\ pc[t] = "inside"
    /\ \A t \in Thread : pc[t] # "borrowed"

\* An open lock file is still the one its path leads to.
OpenIsLive == \A t \in Thread : fd[t] # None => fd[t] = path[NameOf[t]]

-----------------------------------------------------------------------------
\* The actions keep the variables in their types.
THEOREM TypeCorrect == Spec => []TypeOK
<1>1. ASSUME Init PROVE TypeOK
  <2>1. 0 \in 0..MaxCrashes
    BY EnvLockAssumption
  <2>2. pc \in [Thread -> Stage] /\ fd \in [Thread -> File \cup {None}]
    BY <1>1 DEF Init, Stage
  <2>3. /\ locks \in [Env -> SUBSET (Name \cup {Dotlock})]
        /\ path \in [Name -> File \cup {None}]
        /\ owner \in [File -> Thread \cup {None}]
    BY <1>1 DEF Init
  <2>4. QED
    BY <1>1, <2>1, <2>2, <2>3 DEF Init, TypeOK
<1>2. TypeOK /\ [Next]_vars => TypeOK'
  <2> SUFFICES ASSUME TypeOK, [Next]_vars PROVE TypeOK'
    OBVIOUS
  <2> USE EnvLockAssumption DEF TypeOK, Stage, Goto, Mine
  <2>1. ASSUME NEW t \in Thread, Call(t) PROVE TypeOK'
    BY <2>1 DEF Call
  <2>2. ASSUME NEW t \in Thread, EnterDotlock(t) PROVE TypeOK'
    <3>1. EnvOf[t] \in Env
      OBVIOUS
    <3>2. pc' \in [Thread -> Stage]
      BY <2>2 DEF EnterDotlock
    <3>3. /\ locks' \in [Env -> SUBSET (Name \cup {Dotlock})]
          /\ dotOwner' \in Thread \cup {None}
      BY <2>2, <3>1 DEF EnterDotlock
    <3>4. QED
      BY <2>2, <3>2, <3>3 DEF EnterDotlock
  <2>3. ASSUME NEW t \in Thread, OpenFile(t) PROVE TypeOK'
    BY <2>3 DEF OpenFile
  <2>4. ASSUME NEW t \in Thread, ExitDotlock(t) PROVE TypeOK'
    BY <2>4 DEF ExitDotlock
  <2>5. ASSUME NEW t \in Thread, TakeLock(t) PROVE TypeOK'
    <3>1. locks' \in [Env -> SUBSET (Name \cup {Dotlock})]
      <4>1. EnvOf[t] \in Env /\ NameOf[t] \in Name
        OBVIOUS
      <4>2. QED
        BY <2>5, <4>1 DEF TakeLock
    <3>2. owner' \in [File -> Thread \cup {None}]
      BY <2>5 DEF TakeLock
    <3>3. pc' \in [Thread -> Stage]
      BY <2>5 DEF TakeLock
    <3>4. QED
      BY <2>5, <3>1, <3>2, <3>3 DEF TakeLock
  <2>6. ASSUME NEW t \in Thread, FailLock(t) PROVE TypeOK'
    BY <2>6 DEF FailLock
  <2>7. ASSUME NEW t \in Thread, Leave(t) PROVE TypeOK'
    BY <2>7 DEF Leave
  <2>8. ASSUME NEW t \in Thread, Abort(t) PROVE TypeOK'
    BY <2>8 DEF Abort
  <2>9. ASSUME NEW t \in Thread, LeaveBorrowed(t) PROVE TypeOK'
    BY <2>9 DEF LeaveBorrowed
  <2>10. ASSUME NEW t \in Thread, CloseFile(t) PROVE TypeOK'
    BY <2>10 DEF CloseFile, Close
  <2>11. ASSUME NEW t \in Thread, DeleteFile(t) PROVE TypeOK'
    BY <2>11 DEF DeleteFile
  <2>12. ASSUME NEW t \in Thread, Raise(t) PROVE TypeOK'
    BY <2>12 DEF Raise, Close
  <2>13. ASSUME NEW e \in Env, Crash(e) PROVE TypeOK'
    BY <2>13 DEF Crash
  <2>14. CASE UNCHANGED vars
    BY <2>14 DEF vars
  <2>15. QED
    BY <2>1, <2>2, <2>3, <2>4, <2>5, <2>6, <2>7, <2>8, <2>9, <2>10, <2>11,
       <2>12, <2>13, <2>14 DEF Next, Step
<1>3. QED
  BY <1>1, <1>2, PTL DEF Spec

\* Holding the flock and being inside agree, in every instance.
LEMMA FlockInvariant == Spec => []FlockInv
<1>1. Init => FlockInv
  BY EnvLockAssumption DEF Init, FlockInv, HasFile, HasFlock
<1>2. TypeOK /\ FlockInv /\ [Next]_vars => FlockInv'
  <2> SUFFICES ASSUME TypeOK, FlockInv, [Next]_vars PROVE FlockInv'
    OBVIOUS
  <2> USE EnvLockAssumption
      DEF TypeOK, FlockInv, HasFile, HasFlock, Goto, Stage
  <2>1. ASSUME NEW t \in Thread, Call(t) PROVE FlockInv'
    BY <2>1 DEF Call
  <2>2. ASSUME NEW t \in Thread, EnterDotlock(t) PROVE FlockInv'
    BY <2>2 DEF EnterDotlock
  <2>3. ASSUME NEW t \in Thread, OpenFile(t) PROVE FlockInv'
    BY <2>3 DEF OpenFile
  <2>4. ASSUME NEW t \in Thread, ExitDotlock(t) PROVE FlockInv'
    BY <2>4 DEF ExitDotlock
  <2>5. ASSUME NEW t \in Thread, TakeLock(t) PROVE FlockInv'
    BY <2>5 DEF TakeLock
  <2>6. ASSUME NEW t \in Thread, FailLock(t) PROVE FlockInv'
    BY <2>6 DEF FailLock
  <2>7. ASSUME NEW t \in Thread, Leave(t) PROVE FlockInv'
    BY <2>7 DEF Leave
  <2>8. ASSUME NEW t \in Thread, Abort(t) PROVE FlockInv'
    BY <2>8 DEF Abort
  <2>9. ASSUME NEW t \in Thread, LeaveBorrowed(t) PROVE FlockInv'
    BY <2>9 DEF LeaveBorrowed
  <2>10. ASSUME NEW t \in Thread, CloseFile(t) PROVE FlockInv'
    BY <2>10 DEF CloseFile, Close
  <2>11. ASSUME NEW t \in Thread, DeleteFile(t) PROVE FlockInv'
    BY <2>11 DEF DeleteFile
  <2>12. ASSUME NEW t \in Thread, Raise(t) PROVE FlockInv'
    BY <2>12 DEF Raise, Close
  <2>13. ASSUME NEW e \in Env, Crash(e) PROVE FlockInv'
    BY <2>13 DEF Crash
  <2>14. CASE UNCHANGED vars
    BY <2>14 DEF vars
  <2>15. QED
    BY <2>1, <2>2, <2>3, <2>4, <2>5, <2>6, <2>7, <2>8, <2>9, <2>10, <2>11,
       <2>12, <2>13, <2>14 DEF Next, Step
<1>3. QED
  BY <1>1, <1>2, TypeCorrect, PTL DEF Spec

-----------------------------------------------------------------------------
\* Whatever can be deleted, two callers that both took the lock are not on the
\* file that its path leads to: the flock excludes, the deletion undoes it.
THEOREM LiveFileExclusionHolds == Spec => []LiveFileExclusion
<1>1. FlockInv => LiveFileExclusion
  BY DEF FlockInv, LiveFileExclusion, HasFlock
<1>2. QED
  BY <1>1, FlockInvariant, PTL

-----------------------------------------------------------------------------
\* With one thread in a process the dotlock's mark and its flock agree.
LEMMA DotInvariant == ASSUME OneThreadEach PROVE Spec => []DotInv
<1> USE EnvLockAssumption
<1>1. Init => DotInv
  BY DEF Init, DotInv, InDotlock, Mine
<1>2. TypeOK /\ DotInv /\ [Next]_vars => DotInv'
  <2> SUFFICES ASSUME TypeOK, DotInv, [Next]_vars PROVE DotInv'
    OBVIOUS
  <2>0. \A t, u \in Thread : EnvOf[t] = EnvOf[u] => t = u
    BY DEF OneThreadEach
  <2> USE DEF TypeOK, DotInv, InDotlock, Mine, Goto, Stage
  <2>1. ASSUME NEW t \in Thread, Call(t) PROVE DotInv'
    BY <2>1 DEF Call
  <2>2. ASSUME NEW t \in Thread, EnterDotlock(t) PROVE DotInv'
    BY <2>0, <2>2 DEF EnterDotlock
  <2>3. ASSUME NEW t \in Thread, OpenFile(t) PROVE DotInv'
    BY <2>3 DEF OpenFile
  <2>4. ASSUME NEW t \in Thread, ExitDotlock(t) PROVE DotInv'
    BY <2>0, <2>4 DEF ExitDotlock
  <2>5. ASSUME NEW t \in Thread, TakeLock(t) PROVE DotInv'
    BY <2>0, <2>5 DEF TakeLock
  <2>6. ASSUME NEW t \in Thread, FailLock(t) PROVE DotInv'
    BY <2>6 DEF FailLock
  <2>7. ASSUME NEW t \in Thread, Leave(t) PROVE DotInv'
    BY <2>0, <2>7 DEF Leave
  <2>8. ASSUME NEW t \in Thread, Abort(t) PROVE DotInv'
    BY <2>0, <2>8 DEF Abort
  <2>9. ASSUME NEW t \in Thread, LeaveBorrowed(t) PROVE DotInv'
    BY <2>9 DEF LeaveBorrowed
  <2>10. ASSUME NEW t \in Thread, CloseFile(t) PROVE DotInv'
    BY <2>10 DEF CloseFile
  <2>11. ASSUME NEW t \in Thread, DeleteFile(t) PROVE DotInv'
    BY <2>11 DEF DeleteFile
  <2>12. ASSUME NEW t \in Thread, Raise(t) PROVE DotInv'
    BY <2>12 DEF Raise
  <2>13. ASSUME NEW e \in Env, Crash(e) PROVE DotInv'
    BY <2>0, <2>13 DEF Crash
  <2>14. CASE UNCHANGED vars
    BY <2>14 DEF vars
  <2>15. QED
    BY <2>1, <2>2, <2>3, <2>4, <2>5, <2>6, <2>7, <2>8, <2>9, <2>10, <2>11,
       <2>12, <2>13, <2>14 DEF Next, Step
<1>3. QED
  BY <1>1, <1>2, TypeCorrect, PTL DEF Spec

\* Of processes with one thread each, one at a time creates or deletes files.
THEOREM DotlockExclusionHolds ==
  ASSUME OneThreadEach PROVE Spec => []DotlockExclusion
<1>1. DotInv => DotlockExclusion
  BY DEF DotInv, DotlockExclusion
<1>2. QED
  BY <1>1, DotInvariant, PTL

-----------------------------------------------------------------------------
\* With one thread in a process no call is let in by a mark.
LEMMA MarkInvariant == ASSUME OneThreadEach PROVE Spec => []MarkInv
<1> USE EnvLockAssumption
<1>1. Init => MarkInv
  BY DEF Init, MarkInv, Mine
<1>2. TypeOK /\ MarkInv /\ [Next]_vars => MarkInv'
  <2> SUFFICES ASSUME TypeOK, MarkInv, [Next]_vars PROVE MarkInv'
    OBVIOUS
  <2>0. \A t, u \in Thread : EnvOf[t] = EnvOf[u] => t = u
    BY DEF OneThreadEach
  <2> USE DEF TypeOK, MarkInv, Mine, Goto, Stage
  <2>1. ASSUME NEW t \in Thread, Call(t) PROVE MarkInv'
    BY <2>1 DEF Call
  <2>2. ASSUME NEW t \in Thread, EnterDotlock(t) PROVE MarkInv'
    <3>1. \A n \in Name, e \in Env : n \in locks'[e] => n \in locks[e]
      BY <2>2 DEF EnterDotlock
    <3>2. pc[t] # "inside" /\ pc'[t] # "borrowed"
      BY <2>2 DEF EnterDotlock
    <3>3. \A u \in Thread : u # t => pc'[u] = pc[u]
      BY <2>2 DEF EnterDotlock
    <3>4. QED
      BY <3>1, <3>2, <3>3
  <2>3. ASSUME NEW t \in Thread, OpenFile(t) PROVE MarkInv'
    BY <2>3 DEF OpenFile
  <2>4. ASSUME NEW t \in Thread, ExitDotlock(t) PROVE MarkInv'
    <3>1. \A n \in Name, e \in Env : n \in locks'[e] => n \in locks[e]
      BY <2>4 DEF ExitDotlock
    <3>2. pc[t] # "inside" /\ pc'[t] # "borrowed"
      BY <2>4 DEF ExitDotlock
    <3>3. \A u \in Thread : u # t => pc'[u] = pc[u]
      BY <2>4 DEF ExitDotlock
    <3>4. QED
      BY <3>1, <3>2, <3>3
  <2>5. ASSUME NEW t \in Thread, TakeLock(t) PROVE MarkInv'
    BY <2>0, <2>5 DEF TakeLock
  <2>6. ASSUME NEW t \in Thread, FailLock(t) PROVE MarkInv'
    BY <2>6 DEF FailLock
  <2>7. ASSUME NEW t \in Thread, Leave(t) PROVE MarkInv'
    BY <2>0, <2>7 DEF Leave
  <2>8. ASSUME NEW t \in Thread, Abort(t) PROVE MarkInv'
    BY <2>0, <2>8 DEF Abort
  <2>9. ASSUME NEW t \in Thread, LeaveBorrowed(t) PROVE MarkInv'
    BY <2>9 DEF LeaveBorrowed
  <2>10. ASSUME NEW t \in Thread, CloseFile(t) PROVE MarkInv'
    BY <2>10 DEF CloseFile
  <2>11. ASSUME NEW t \in Thread, DeleteFile(t) PROVE MarkInv'
    BY <2>11 DEF DeleteFile
  <2>12. ASSUME NEW t \in Thread, Raise(t) PROVE MarkInv'
    BY <2>12 DEF Raise
  <2>13. ASSUME NEW e \in Env, Crash(e) PROVE MarkInv'
    BY <2>0, <2>13 DEF Crash
  <2>14. CASE UNCHANGED vars
    BY <2>14 DEF vars
  <2>15. QED
    BY <2>1, <2>2, <2>3, <2>4, <2>5, <2>6, <2>7, <2>8, <2>9, <2>10, <2>11,
       <2>12, <2>13, <2>14 DEF Next, Step
<1>3. QED
  BY <1>1, <1>2, TypeCorrect, PTL DEF Spec

-----------------------------------------------------------------------------
\* Where open files cannot be deleted, an open lock file is the live one.
LEMMA OpenIsLiveInvariant == ASSUME ~CanDeleteOpen PROVE Spec => []OpenIsLive
<1> USE EnvLockAssumption
<1>1. Init => OpenIsLive
  BY DEF Init, OpenIsLive
<1>2. TypeOK /\ OpenIsLive /\ [Next]_vars => OpenIsLive'
  <2> SUFFICES ASSUME TypeOK, OpenIsLive, [Next]_vars PROVE OpenIsLive'
    OBVIOUS
  <2> USE DEF TypeOK, OpenIsLive
  <2>1. ASSUME NEW t \in Thread, OpenFile(t) PROVE OpenIsLive'
    BY <2>1 DEF OpenFile
  <2>2. ASSUME NEW t \in Thread, DeleteFile(t) PROVE OpenIsLive'
    BY <2>2 DEF DeleteFile
  <2>3. ASSUME NEW t \in Thread, CloseFile(t) \/ Raise(t) PROVE OpenIsLive'
    BY <2>3 DEF CloseFile, Raise, Close
  <2>4. ASSUME NEW e \in Env, Crash(e) PROVE OpenIsLive'
    BY <2>4 DEF Crash
  <2>5. ASSUME UNCHANGED <<fd, path>> PROVE OpenIsLive'
    BY <2>5
  <2>6. QED
    BY <2>1, <2>2, <2>3, <2>4, <2>5 DEF Next, Step, Call, EnterDotlock,
       ExitDotlock, TakeLock, FailLock, Leave, Abort, LeaveBorrowed, vars
<1>3. QED
  BY <1>1, <1>2, TypeCorrect, PTL DEF Spec

\* The lock excludes where open files cannot be deleted and each process calls
\* it from one thread: both conditions are needed, as the runs show.
THEOREM MutualExclusionHolds ==
  ASSUME OneThreadEach, ~CanDeleteOpen PROVE Spec => []MutualExclusion
<1>1. TypeOK /\ FlockInv /\ MarkInv /\ OpenIsLive => MutualExclusion
  <2> SUFFICES ASSUME TypeOK, FlockInv, MarkInv, OpenIsLive,
                      NEW t \in Thread, NEW u \in Thread,
                      Inside(t), Inside(u), NameOf[t] = NameOf[u]
               PROVE  t = u
    BY DEF MutualExclusion
  <2>1. pc[t] = "inside" /\ pc[u] = "inside"
    BY DEF MarkInv, Inside
  <2>2. fd[t] = path[NameOf[t]] /\ fd[u] = path[NameOf[u]]
    BY <2>1 DEF FlockInv, HasFile, OpenIsLive
  <2>3. owner[fd[t]] = t /\ owner[fd[u]] = u
    BY <2>1 DEF FlockInv, HasFlock
  <2>4. QED
    BY <2>2, <2>3
<1>2. QED
  BY <1>1, TypeCorrect, FlockInvariant, MarkInvariant, OpenIsLiveInvariant, PTL

-----------------------------------------------------------------------------
\* Files of different names are different files, open or at their paths.
Apart ==
    /\ \A m, n \in Name : path[m] = path[n] /\ path[m] # None => m = n
    /\ \A t, u \in Thread :
          fd[t] = fd[u] /\ fd[t] # None => NameOf[t] = NameOf[u]
    /\ \A t \in Thread, n \in Name :
          fd[t] = path[n] /\ fd[t] # None => NameOf[t] = n

\* The thread has not yet tried to delete the file of its name.
Will(t) ==
    pc[t] \in {"opened", "trying", "inside", "leaving", "closing", "deleting"}

\* While every call has cleaned up, a flock has a holder that will reach its
\* clean-up, and each file that is there has a caller that will delete it.
CleanInv == ~unclean =>
    /\ \A t \in Thread, f \in File : owner[f] = t => HasFlock(t)
    /\ \A n \in Name : path[n] # None => \E t \in Thread : NameOf[t] = n /\ Will(t)
    /\ Retry = Thread => \A t \in Thread : pc[t] # "raising"

\* File.open gives callers of different names different files.
LEMMA ApartInvariant == Spec => []Apart
<1> USE EnvLockAssumption
<1>1. Init => Apart
  BY DEF Init, Apart
<1>2. TypeOK /\ Apart /\ [Next]_vars => Apart'
  <2> SUFFICES ASSUME TypeOK, Apart, [Next]_vars PROVE Apart'
    OBVIOUS
  <2> USE DEF TypeOK, Apart
  <2>1. ASSUME NEW t \in Thread, OpenFile(t) PROVE Apart'
    <3>1. NameOf[t] \in Name
      OBVIOUS
    <3>2. CASE path[NameOf[t]] # None
      BY <2>1, <3>1, <3>2 DEF OpenFile
    <3>3. CASE path[NameOf[t]] = None
      <4>1. PICK f \in File :
              /\ Unused(f)
              /\ fd' = [fd EXCEPT ![t] = f]
              /\ path' = [path EXCEPT ![NameOf[t]] = f]
        BY <2>1, <3>3 DEF OpenFile
      <4>2. /\ \A u \in Thread : fd[u] # f
            /\ \A n \in Name : path[n] # f
        BY <4>1 DEF Unused
      <4>3. QED
        BY <3>1, <4>1, <4>2
    <3>4. QED
      BY <3>2, <3>3
  <2>2. ASSUME NEW t \in Thread, DeleteFile(t) PROVE Apart'
    BY <2>2 DEF DeleteFile
  <2>3. ASSUME NEW t \in Thread, CloseFile(t) \/ Raise(t) PROVE Apart'
    BY <2>3 DEF CloseFile, Raise, Close
  <2>4. ASSUME NEW e \in Env, Crash(e) PROVE Apart'
    BY <2>4 DEF Crash
  <2>5. ASSUME UNCHANGED <<fd, path>> PROVE Apart'
    BY <2>5
  <2>6. QED
    BY <2>1, <2>2, <2>3, <2>4, <2>5 DEF Next, Step, Call, EnterDotlock,
       ExitDotlock, TakeLock, FailLock, Leave, Abort, LeaveBorrowed, vars
<1>3. QED
  BY <1>1, <1>2, TypeCorrect, PTL DEF Spec

\* Who fails to delete a file, or to lock it, leaves it to a caller that has it
\* open and will delete it.
LEMMA CleanInvariant ==
  ASSUME CanDeleteOpen \/ Retry = Thread PROVE Spec => []CleanInv
<1> USE EnvLockAssumption
<1>1. Init => CleanInv
  BY DEF Init, CleanInv
<1>2. TypeOK /\ FlockInv /\ Apart /\ CleanInv /\ [Next]_vars => CleanInv'
  <2> SUFFICES ASSUME TypeOK, FlockInv, Apart, CleanInv, [Next]_vars, ~unclean'
               PROVE  CleanInv'
    BY DEF CleanInv
  <2> USE DEF TypeOK, CleanInv, HasFlock, Will, Goto, Stage
  <2>1. ASSUME NEW t \in Thread, Call(t) PROVE CleanInv'
    BY <2>1 DEF Call
  <2>2. ASSUME NEW t \in Thread, EnterDotlock(t) PROVE CleanInv'
    BY <2>2 DEF EnterDotlock
  <2>3. ASSUME NEW t \in Thread, OpenFile(t) PROVE CleanInv'
    BY <2>3 DEF OpenFile
  <2>4. ASSUME NEW t \in Thread, ExitDotlock(t) PROVE CleanInv'
    BY <2>4 DEF ExitDotlock
  <2>5. ASSUME NEW t \in Thread, TakeLock(t) PROVE CleanInv'
    BY <2>5 DEF TakeLock
  <2>6. ASSUME NEW t \in Thread, FailLock(t) PROVE CleanInv'
    \* The holder of the flock is a caller of the same name.
    <3>1. ~unclean /\ t \notin Retry /\ owner' = owner /\ path' = path
      BY <2>6 DEF FailLock
    <3>2. fd[t] \in File /\ owner[fd[t]] \in Thread /\ owner[fd[t]] # t
      BY <2>6 DEF FailLock, FlockInv, HasFile
    <3>3. PICK u \in Thread : u # t /\ owner[fd[t]] = u
      BY <3>2
    <3>4. HasFlock(u) /\ fd[u] = fd[t] /\ fd[t] # None
      BY <3>1, <3>2, <3>3 DEF FlockInv
    <3>5. NameOf[u] = NameOf[t]
      BY <3>4 DEF Apart
    <3>6. pc' = [pc EXCEPT ![t] = "raising"]
      BY <2>6 DEF FailLock
    <3>7. \A v \in Thread : Will(v) /\ v # t => Will(v)'
      BY <3>6
    <3>8. Will(u)'
      BY <3>4, <3>3, <3>6
    <3>9. \A n \in Name : path'[n] # None =>
            \E v \in Thread : NameOf[v] = n /\ Will(v)'
      <4> SUFFICES ASSUME NEW n \in Name, path[n] # None
                   PROVE  \E v \in Thread : NameOf[v] = n /\ Will(v)'
        BY <3>1
      <4>1. PICK v \in Thread : NameOf[v] = n /\ Will(v)
        BY <3>1
      <4>2. QED
        BY <4>1, <3>5, <3>7, <3>8
    <3>10. \A v \in Thread, f \in File : owner'[f] = v => HasFlock(v)'
      <4> SUFFICES ASSUME NEW v \in Thread, NEW f \in File, owner[f] = v
                   PROVE  HasFlock(v)'
        BY <3>1
      <4>1. HasFlock(v)
        BY <3>1
      <4>2. pc[t] = "trying"
        BY <2>6 DEF FailLock
      <4>3. QED
        BY <3>6, <4>1, <4>2
    <3>11. Retry # Thread
      BY <3>1
    <3>12. QED
      BY <3>9, <3>10, <3>11
  <2>7. ASSUME NEW t \in Thread, Leave(t) PROVE CleanInv'
    BY <2>7 DEF Leave
  <2>8. ASSUME NEW t \in Thread, Abort(t) PROVE CleanInv'
    BY <2>8 DEF Abort
  <2>9. ASSUME NEW t \in Thread, LeaveBorrowed(t) PROVE CleanInv'
    BY <2>9 DEF LeaveBorrowed
  <2>10. ASSUME NEW t \in Thread, CloseFile(t) PROVE CleanInv'
    BY <2>10 DEF CloseFile, Close
  <2>11. ASSUME NEW t \in Thread, DeleteFile(t) PROVE CleanInv'
    <3>1. /\ ~unclean /\ owner' = owner /\ pc[t] = "deleting"
          /\ pc' = [pc EXCEPT ![t] = "deleted"] /\ NameOf[t] \in Name
      BY <2>11 DEF DeleteFile
    <3>2. \A v \in Thread, f \in File : owner'[f] = v => HasFlock(v)'
      BY <3>1
    <3>3. \A v \in Thread : Will(v) /\ v # t => Will(v)'
      BY <3>1
    <3>4. Retry = Thread => \A v \in Thread : pc'[v] # "raising"
      BY <3>1
    <3>5. CASE path' = [path EXCEPT ![NameOf[t]] = None]
      <4>1. \A n \in Name : path'[n] # None => n # NameOf[t] /\ path[n] # None
        BY <3>1, <3>5
      <4>2. QED
        BY <3>1, <3>2, <3>3, <3>4, <4>1
    <3>6. CASE ~CanDeleteOpen /\ path' = path /\ path[NameOf[t]] # None
      \* The file could not be deleted: it is open.
      <4>1. PICK u \in Thread : fd[u] = path[NameOf[t]]
        BY <2>11, <3>6 DEF DeleteFile
      <4>2. HasFile(u) /\ u # t /\ NameOf[u] = NameOf[t]
        BY <3>1, <3>6, <4>1 DEF FlockInv, HasFile, Apart
      <4>3. pc[u] # "raising"
        BY <3>1, <3>6
      <4>4. Will(u)'
        BY <3>1, <4>2, <4>3 DEF HasFile
      <4>5. QED
        BY <3>1, <3>2, <3>3, <3>4, <3>6, <4>2, <4>4
    <3>7. CASE path' = path /\ path[NameOf[t]] = None
      <4>1. \A n \in Name : path'[n] # None => n # NameOf[t] /\ path[n] # None
        BY <3>7
      <4>2. QED
        BY <3>1, <3>2, <3>3, <3>4, <4>1
    <3>8. QED
      BY <2>11, <3>5, <3>6, <3>7 DEF DeleteFile
  <2>12. ASSUME NEW t \in Thread, Raise(t) PROVE CleanInv'
    BY <2>12 DEF Raise, Close
  <2>13. ASSUME NEW e \in Env, Crash(e) PROVE CleanInv'
    BY <2>13 DEF Crash
  <2>14. CASE UNCHANGED vars
    BY <2>14 DEF vars
  <2>15. QED
    BY <2>1, <2>2, <2>3, <2>4, <2>5, <2>6, <2>7, <2>8, <2>9, <2>10, <2>11,
       <2>12, <2>13, <2>14 DEF Next, Step
<1>3. QED
  BY <1>1, <1>2, TypeCorrect, FlockInvariant, ApartInvariant, PTL DEF Spec

\* Lock files do not pile up where open files can be deleted, or where every
\* caller retries: else a caller that gives up has the file open just when the
\* last holder wants to delete it.
THEOREM CleansUpHolds ==
  ASSUME CanDeleteOpen \/ Retry = Thread PROVE Spec => []CleansUp
<1>1. CleanInv => CleansUp
  BY DEF CleanInv, CleansUp, Will
<1>2. QED
  BY <1>1, CleanInvariant, PTL

-----------------------------------------------------------------------------
\* Thread t polls for something that thread u holds: the dotlock, which lock
\* retries, or the flock on the file of its name.
Waits(t, u) ==
    \/ /\ pc[t] \in {"entering", "leaving"}
       /\ Dotlock \notin Mine(t)
       /\ dotOwner = u
    \/ pc[t] = "trying" /\ owner[fd[t]] = u

\* The holder of the dotlock is in its block, the holder of a flock has no flock
\* to wait for, and the mark is set only where the process has the dotlock.
HolderInv ==
    /\ \A t \in Thread : dotOwner = t => InDotlock(t)
    /\ \A t \in Thread, f \in File :
          owner[f] = t => pc[t] \in {"inside", "leaving", "closing", "raising"}
    /\ \A t \in Thread : Dotlock \in Mine(t) =>
          \E u \in Thread : dotOwner = u /\ EnvOf[u] = EnvOf[t]

\* What is held is held by somebody who is using it.
LEMMA HolderInvariant == Spec => []HolderInv
<1> USE EnvLockAssumption
<1>1. Init => HolderInv
  BY DEF Init, HolderInv, Mine
<1>2. TypeOK /\ HolderInv /\ [Next]_vars => HolderInv'
  <2> SUFFICES ASSUME TypeOK, HolderInv, [Next]_vars PROVE HolderInv'
    OBVIOUS
  <2> USE DEF TypeOK, HolderInv, InDotlock, Mine, Goto, Stage
  <2>1. ASSUME NEW t \in Thread, Call(t) PROVE HolderInv'
    BY <2>1 DEF Call
  <2>2. ASSUME NEW t \in Thread, EnterDotlock(t) PROVE HolderInv'
    BY <2>2 DEF EnterDotlock
  <2>3. ASSUME NEW t \in Thread, OpenFile(t) PROVE HolderInv'
    BY <2>3 DEF OpenFile
  <2>4. ASSUME NEW t \in Thread, ExitDotlock(t) PROVE HolderInv'
    BY <2>4 DEF ExitDotlock
  <2>5. ASSUME NEW t \in Thread, TakeLock(t) PROVE HolderInv'
    BY <2>5 DEF TakeLock
  <2>6. ASSUME NEW t \in Thread, FailLock(t) PROVE HolderInv'
    BY <2>6 DEF FailLock
  <2>7. ASSUME NEW t \in Thread, Leave(t) PROVE HolderInv'
    BY <2>7 DEF Leave
  <2>8. ASSUME NEW t \in Thread, Abort(t) PROVE HolderInv'
    BY <2>8 DEF Abort
  <2>9. ASSUME NEW t \in Thread, LeaveBorrowed(t) PROVE HolderInv'
    BY <2>9 DEF LeaveBorrowed
  <2>10. ASSUME NEW t \in Thread, CloseFile(t) PROVE HolderInv'
    BY <2>10 DEF CloseFile, Close
  <2>11. ASSUME NEW t \in Thread, DeleteFile(t) PROVE HolderInv'
    BY <2>11 DEF DeleteFile
  <2>12. ASSUME NEW t \in Thread, Raise(t) PROVE HolderInv'
    BY <2>12 DEF Raise, Close
  <2>13. ASSUME NEW e \in Env, Crash(e) PROVE HolderInv'
    BY <2>13 DEF Crash
  <2>14. CASE UNCHANGED vars
    BY <2>14 DEF vars
  <2>15. QED
    BY <2>1, <2>2, <2>3, <2>4, <2>5, <2>6, <2>7, <2>8, <2>9, <2>10, <2>11,
       <2>12, <2>13, <2>14 DEF Next, Step
<1>3. QED
  BY <1>1, <1>2, TypeCorrect, PTL DEF Spec

\* The wait for a holder is never a circle: whoever waits for somebody who waits
\* ends at a thread that waits for nobody, although a caller keeps its flock
\* while it waits for the dotlock.  Run sharing checks of a small instance that
\* somebody then gets in; this is why, for any number of callers and processes.
THEOREM WaitsEnd ==
  Spec => [](\A t, u, v \in Thread : Waits(t, u) /\ Waits(u, v) =>
                ~\E w \in Thread : Waits(v, w))
<1>1. TypeOK /\ FlockInv /\ HolderInv =>
        \A t, u, v \in Thread : Waits(t, u) /\ Waits(u, v) =>
            ~\E w \in Thread : Waits(v, w)
  <2> SUFFICES ASSUME TypeOK, FlockInv, HolderInv,
                      NEW t \in Thread, NEW u \in Thread, NEW v \in Thread,
                      NEW w \in Thread,
                      Waits(t, u), Waits(u, v), Waits(v, w)
               PROVE  FALSE
    OBVIOUS
  <2>1. ASSUME NEW x \in Thread, NEW y \in Thread, Waits(x, y)
        PROVE  \/ InDotlock(y)
               \/ pc[y] \in {"inside", "leaving", "closing", "raising"}
    <3>1. CASE pc[x] = "trying" /\ owner[fd[x]] = y
      <4>1. fd[x] \in File
        BY <3>1 DEF TypeOK, FlockInv, HasFile
      <4>2. QED
        BY <3>1, <4>1 DEF HolderInv
    <3>2. QED
      BY <2>1, <3>1 DEF Waits, HolderInv
  <2>2. pc[u] = "leaving" /\ dotOwner = v
    BY <2>1 DEF Waits, InDotlock
  <2>3. QED
    BY <2>2 DEF HolderInv, InDotlock, Waits
<1>2. QED
  BY <1>1, TypeCorrect, FlockInvariant, HolderInvariant, PTL
===============================================================================
