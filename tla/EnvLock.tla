------------------------------- MODULE EnvLock -------------------------------
(***************************************************************************)
(* Environment#lock (lib/vagrant/environment.rb): the named locks by which *)
(* Vagrant processes that share a data directory keep out of each other's  *)
(* way.  A lock is an flock on the file lock.<name>.lock.  The file is     *)
(* created, and deleted again, under a second lock, the dotlock, whose     *)
(* file is never deleted.  Every environment has a table @locks of the     *)
(* names it holds, shared by the threads that a batch action starts in it. *)
(***************************************************************************)
EXTENDS Naturals

CONSTANTS
    Thread,          \* the callers of lock
    Env,             \* environments, one in each process
    EnvOf,           \* the environment of a thread
    Name,            \* names of locks
    NameOf,          \* the name a thread locks
    Retry,           \* the threads that pass retry: true
    File,            \* files, as the file system tells them apart
    CanDeleteOpen,   \* a file that somebody has open can be deleted (POSIX)
    MaxCrashes,      \* bound on the number of killed processes
    Dotlock,         \* the name "dotlock"
    None             \* no file, no thread

ASSUME EnvLockAssumption ==
    /\ EnvOf \in [Thread -> Env]
    /\ NameOf \in [Thread -> Name]
    /\ Retry \subseteq Thread
    /\ CanDeleteOpen \in BOOLEAN
    /\ MaxCrashes \in Nat
    /\ Dotlock \notin Name
    /\ None \notin File \cup Thread

VARIABLES
    pc,        \* where each thread is
    fd,        \* the file a thread has open as f
    locks,     \* @locks of each environment: the names that are set
    path,      \* the file found at lock.<name>.lock
    owner,     \* the thread whose open file holds the flock
    dotOwner,  \* the thread that holds the flock on the dotlock's file
    unclean,   \* a call has ended without its clean-up (history)
    crashes    \* processes killed so far

vars == <<pc, fd, locks, path, owner, dotOwner, unclean, crashes>>

-----------------------------------------------------------------------------
(* The stages of a call.  "entering", "opening", "opened" are the block    *)
(* that opens the file under the dotlock, "leaving" to "deleted" the one   *)
(* that deletes it.  "borrowed" is the early return that yields because    *)
(* the table already has the name; "raising" is the outer ensure.          *)

Stage == {"idle", "entering", "opening", "opened", "trying", "inside",
          "borrowed", "leaving", "closing", "deleting", "deleted", "raising"}

Goto(t, stage) == pc' = [pc EXCEPT ![t] = stage]

Mine(t) == locks[EnvOf[t]]

\* The thread runs the block that it wanted to run alone.
Inside(t) == pc[t] \in {"inside", "borrowed"}

\* The thread runs a block that belongs under the dotlock.
InDotlock(t) == pc[t] \in {"opening", "opened", "closing", "deleting", "deleted"}

\* f.close, which drops the flock that came with the open file.
Close(t) ==
    /\ fd' = [fd EXCEPT ![t] = None]
    /\ owner' = [f \in File |-> IF owner[f] = t THEN None ELSE owner[f]]

Init ==
    /\ pc = [t \in Thread |-> "idle"]
    /\ fd = [t \in Thread |-> None]
    /\ locks = [e \in Env |-> {}]
    /\ path = [n \in Name |-> None]
    /\ owner = [f \in File |-> None]
    /\ dotOwner = None
    /\ unclean = FALSE
    /\ crashes = 0

-----------------------------------------------------------------------------
(* Taking the lock.                                                        *)

\* A call begins; if the name is set in @locks it yields at once.
Call(t) ==
    /\ pc[t] = "idle"
    /\ \/ NameOf[t] \in Mine(t) /\ Goto(t, "borrowed")
       \/ NameOf[t] \notin Mine(t) /\ Goto(t, "entering")
    /\ UNCHANGED <<fd, locks, path, owner, dotOwner, unclean, crashes>>

\* Defect: the clean-up does not take the dotlock.
EnterDotlockToOpen(t) ==
    /\ \/ /\ pc[t] = "leaving" /\ Goto(t, "closing")
          /\ UNCHANGED <<locks, dotOwner>>
       \/ /\ pc[t] = "entering" /\ Goto(t, "opening")
          /\ dotOwner = None /\ dotOwner' = t
          /\ locks' = [locks EXCEPT ![EnvOf[t]] = @ \cup {Dotlock}]
    /\ UNCHANGED <<fd, path, owner, unclean, crashes>>

\* lock("dotlock", retry: true) around opening and around deleting: a thread
\* whose environment has the dotlock already yields, another one polls.
EnterDotlock(t) ==
    /\ \/ pc[t] = "entering" /\ Goto(t, "opening")
       \/ pc[t] = "leaving" /\ Goto(t, "closing")
    /\ \/ Dotlock \in Mine(t) /\ UNCHANGED <<locks, dotOwner>>
       \/ /\ Dotlock \notin Mine(t)
          /\ dotOwner = None
          /\ dotOwner' = t
          /\ locks' = [locks EXCEPT ![EnvOf[t]] = @ \cup {Dotlock}]
    /\ UNCHANGED <<fd, path, owner, unclean, crashes>>

\* A file that nothing refers to: what creating a file returns.
Unused(f) == f \notin {fd[t] : t \in Thread} \cup {path[n] : n \in Name}

\* File.open(lock_path, "w+")
OpenFile(t) ==
    /\ pc[t] = "opening"
    /\ Goto(t, "opened")
    /\ \/ /\ path[NameOf[t]] # None
          /\ fd' = [fd EXCEPT ![t] = path[NameOf[t]]]
          /\ UNCHANGED path
       \/ /\ path[NameOf[t]] = None
          /\ \E f \in File :
                /\ Unused(f)
                /\ fd' = [fd EXCEPT ![t] = f]
                /\ path' = [path EXCEPT ![NameOf[t]] = f]
    /\ UNCHANGED <<locks, owner, dotOwner, unclean, crashes>>

\* The dotlock's block ends.  Who did not take the dotlock does not release it.
ExitDotlock(t) ==
    /\ \/ pc[t] = "opened" /\ Goto(t, "trying")
       \/ pc[t] = "deleted" /\ Goto(t, "idle")
    /\ \/ dotOwner # t /\ UNCHANGED <<locks, dotOwner>>
       \/ /\ dotOwner = t
          /\ dotOwner' = None
          /\ locks' = [locks EXCEPT ![EnvOf[t]] = @ \ {Dotlock}]
    /\ UNCHANGED <<fd, path, owner, unclean, crashes>>

\* Defect: the result of flock is not looked at.
TakeUnchecked(t) ==
    /\ pc[t] = "trying"
    /\ owner' = [owner EXCEPT ![fd[t]] = t]
    /\ locks' = [locks EXCEPT ![EnvOf[t]] = @ \cup {NameOf[t]}]
    /\ Goto(t, "inside")
    /\ UNCHANGED <<fd, path, dotOwner, unclean, crashes>>

\* flock succeeds and the name is set.
TakeLock(t) ==
    /\ pc[t] = "trying"
    /\ owner[fd[t]] = None
    /\ owner' = [owner EXCEPT ![fd[t]] = t]
    /\ locks' = [locks EXCEPT ![EnvOf[t]] = @ \cup {NameOf[t]}]
    /\ Goto(t, "inside")
    /\ UNCHANGED <<fd, path, dotOwner, unclean, crashes>>

\* flock fails: EnvironmentLockedError, unless the caller wants to retry.
FailLock(t) ==
    /\ pc[t] = "trying"
    /\ owner[fd[t]] # None
    /\ t \notin Retry
    /\ Goto(t, "raising")
    /\ UNCHANGED <<fd, locks, path, owner, dotOwner, unclean, crashes>>

-----------------------------------------------------------------------------
(* Giving it back.                                                         *)

\* Defect: the block's result is returned before the clean-up.
LeaveAtOnce(t) ==
    /\ pc[t] = "inside"
    /\ locks' = [locks EXCEPT ![EnvOf[t]] = @ \ {NameOf[t]}]
    /\ Goto(t, "raising")
    /\ UNCHANGED <<fd, path, owner, dotOwner, unclean, crashes>>

\* The block returns.
Leave(t) ==
    /\ pc[t] = "inside"
    /\ locks' = [locks EXCEPT ![EnvOf[t]] = @ \ {NameOf[t]}]
    /\ Goto(t, "leaving")
    /\ UNCHANGED <<fd, path, owner, dotOwner, unclean, crashes>>

\* The block is left by an exception or by a return of its own: the inner
\* ensure runs, the clean-up does not.
Abort(t) ==
    /\ pc[t] = "inside"
    /\ locks' = [locks EXCEPT ![EnvOf[t]] = @ \ {NameOf[t]}]
    /\ unclean' = TRUE
    /\ Goto(t, "raising")
    /\ UNCHANGED <<fd, path, owner, dotOwner, crashes>>

\* The block of a call that took nothing ends.
LeaveBorrowed(t) ==
    /\ pc[t] = "borrowed"
    /\ Goto(t, "idle")
    /\ UNCHANGED <<fd, locks, path, owner, dotOwner, unclean, crashes>>

\* f.close in the clean-up
CloseFile(t) ==
    /\ pc[t] = "closing"
    /\ Close(t)
    /\ Goto(t, "deleting")
    /\ UNCHANGED <<locks, path, dotOwner, unclean, crashes>>

\* File.delete(lock_path), whose error is ignored: there is no such file, or
\* the system does not delete open files.
DeleteFile(t) ==
    /\ pc[t] = "deleting"
    /\ \/ /\ CanDeleteOpen \/ path[NameOf[t]] \notin {fd[u] : u \in Thread}
          /\ path' = [path EXCEPT ![NameOf[t]] = None]
       \/ /\ ~CanDeleteOpen /\ path[NameOf[t]] \in {fd[u] : u \in Thread}
          /\ UNCHANGED path
    /\ Goto(t, "deleted")
    /\ UNCHANGED <<fd, locks, owner, dotOwner, unclean, crashes>>

\* Defect: a call that ends with an exception leaves its file open.
RaiseOpen(t) ==
    /\ pc[t] = "raising"
    /\ fd' = [fd EXCEPT ![t] = None]
    /\ Goto(t, "idle")
    /\ UNCHANGED <<locks, path, owner, dotOwner, unclean, crashes>>

\* The outer ensure of a call that ends with an exception.
Raise(t) ==
    /\ pc[t] = "raising"
    /\ Close(t)
    /\ Goto(t, "idle")
    /\ UNCHANGED <<locks, path, dotOwner, unclean, crashes>>

\* A process is killed: its files are closed, the files it made stay.
Crash(e) ==
    /\ crashes < MaxCrashes
    /\ crashes' = crashes + 1
    /\ pc' = [t \in Thread |-> IF EnvOf[t] = e THEN "idle" ELSE pc[t]]
    /\ fd' = [t \in Thread |-> IF EnvOf[t] = e THEN None ELSE fd[t]]
    /\ locks' = [locks EXCEPT ![e] = {}]
    /\ owner' = [f \in File |->
                    IF \E t \in Thread : EnvOf[t] = e /\ owner[f] = t
                    THEN None ELSE owner[f]]
    /\ dotOwner' = IF \E t \in Thread : EnvOf[t] = e /\ dotOwner = t
                   THEN None ELSE dotOwner
    /\ unclean' = TRUE
    /\ UNCHANGED path

-----------------------------------------------------------------------------
\* The steps a thread takes by itself once it has called lock.
Step(t) ==
    \/ EnterDotlock(t) \/ OpenFile(t) \/ ExitDotlock(t)
    \/ TakeLock(t) \/ FailLock(t)
    \/ Leave(t) \/ LeaveBorrowed(t)
    \/ CloseFile(t) \/ DeleteFile(t) \/ Raise(t)

Next ==
    \/ \E t \in Thread : Call(t) \/ Step(t) \/ Abort(t)
    \/ \E e \in Env : Crash(e)

Spec == Init /\ [][Next]_vars

\* Threads are scheduled, and the blocks that are run under a lock end.
FairSpec == Spec /\ \A t \in Thread : WF_vars(Step(t))

-----------------------------------------------------------------------------
(* Properties.                                                             *)

\* The type invariant.
TypeOK ==
    /\ pc \in [Thread -> Stage]
    /\ fd \in [Thread -> File \cup {None}]
    /\ locks \in [Env -> SUBSET (Name \cup {Dotlock})]
    /\ path \in [Name -> File \cup {None}]
    /\ owner \in [File -> Thread \cup {None}]
    /\ dotOwner \in Thread \cup {None}
    /\ unclean \in BOOLEAN
    /\ crashes \in 0..MaxCrashes

\* One caller at a time runs the block of a lock: the lock is "being held by
\* another instance of Vagrant" for everybody else (environment_locked in
\* templates/locales/en.yml).
MutualExclusion ==
    \A t, u \in Thread :
        Inside(t) /\ Inside(u) /\ NameOf[t] = NameOf[u] => t = u

\* The same between the threads of one process, which is what
\* handle_forwarded_port_collisions.rb:45 wants of the lock.
ThreadExclusion ==
    \A t, u \in Thread :
        Inside(t) /\ Inside(u) /\ NameOf[t] = NameOf[u] /\ EnvOf[t] = EnvOf[u]
            => t = u

\* Lock files are created and deleted by one process at a time.
DotlockExclusion ==
    \A t, u \in Thread : InDotlock(t) /\ InDotlock(u) => t = u

\* What the lock gives even where files can be deleted under their holders:
\* two callers that both took it are not on the same file, so one of them has
\* had its file deleted by somebody else.
LiveFileExclusion ==
    \A t, u \in Thread :
        /\ pc[t] = "inside" /\ pc[u] = "inside"
        /\ fd[t] = path[NameOf[t]] /\ fd[u] = path[NameOf[u]]
        /\ NameOf[t] = NameOf[u]
        => t = u

\* Lock files do not pile up: when nobody uses a lock and every call so far has
\* cleaned up behind it, the file is gone, however the calls overlapped
\* ("cleans up all lock files" in test/unit/vagrant/environment_test.rb).
CleansUp ==
    ~unclean => \A n \in Name :
        (\A t \in Thread : NameOf[t] = n => pc[t] = "idle") => path[n] = None

Wants(t) == pc[t] \in {"entering", "opening", "opened", "trying"}

\* Somebody gets in: callers that wait, for the dotlock or for the lock, do not
\* all wait for ever, whoever was killed and whatever block was aborted.
SomebodyEnters ==
    (\E t \in Thread : Wants(t)) ~>
        ((\E t \in Thread : Inside(t)) \/ (\A t \in Thread : ~Wants(t)))
===============================================================================
