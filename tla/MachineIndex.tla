---------------------------- MODULE MachineIndex -----------------------------
(***************************************************************************)
(* The index of all machines of a user, a file that every Vagrant process  *)
(* reads and writes.  A flock on index.lock, whose file is never deleted,  *)
(* makes each reading and writing of the file exclusive; a lock file of    *)
(* its own for each entry is held from get to release, so that nobody else *)
(* changes the entry while it is being worked on.                          *)
(*                                                                         *)
(* A process is one MachineIndex with one user of it: the Monitor and the  *)
(* machine's state mutex let threads in one after the other, and flock     *)
(* keeps the threads of a process apart as it does processes.  A machine   *)
(* stands for its uuid: set finds the uuid of a machine that has an entry, *)
(* and a new one is locked by nobody.                                      *)
(***************************************************************************)
EXTENDS Naturals, FiniteSets

CONSTANTS
    Process,
    Machine,
    File,        \* the lock files of the entries
    None,        \* no process, machine or file
    MaxWrites,   \* bound: entries written
    MaxCrashes   \* bound: processes killed

ASSUME BoundsAssumption == MaxWrites \in Nat /\ MaxCrashes \in Nat

ASSUME SetsAssumption ==
    /\ IsFiniteSet(Process) /\ Machine # {}
    /\ None \notin Process \cup File

\* Contents of an index: an entry is the number of the write that made it.
Absent == 0
Entries == [Machine -> 0 .. MaxWrites]
NoEntries == [n \in Machine |-> Absent]

VARIABLES
    deletable,  \* the system deletes files that are open
    index,      \* the index file
    torn,       \* it is empty: truncated, and not written yet
    holder,     \* who has the flock on index.lock
    machines,   \* @machines
    at,         \* where a process is in its operation
    op,         \* the operation
    machine,    \* its machine
    got,        \* the entry that get returned
    path,       \* the lock file that has the name of the machine's lock
    file,       \* @machine_locks, or the file lock_machine is opening
    held,       \* it is locked
    saved,      \* the index as last written (ghost)
    whole,      \* no write was cut short (ghost)
    writes, crashes

store == <<index, torn, saved, whole, writes>>
locks == <<path, file, held>>
vars == <<deletable, store, holder, machines, at, op, machine, got, locks, crashes>>

AnyMachine == CHOOSE n \in Machine : TRUE

Operations == {"look", "update", "destroy", "create", "recover"}

TypeOK ==
    /\ deletable \in BOOLEAN /\ torn \in BOOLEAN /\ whole \in BOOLEAN
    /\ index \in Entries /\ saved \in Entries
    /\ holder \in Process \cup {None}
    /\ machines \in [Process -> Entries]
    /\ at \in [Process -> {"idle", "opening", "flocking", "got", "saving",
                           "writing", "closing", "deleting"}]
    /\ op \in [Process -> Operations]
    /\ machine \in [Process -> Machine]
    /\ got \in [Process -> 0 .. MaxWrites]
    /\ path \in [Machine -> File \cup {None}]
    /\ file \in [Process -> File \cup {None}]
    /\ held \in [Process -> BOOLEAN]
    /\ writes \in 0 .. MaxWrites /\ crashes \in 0 .. MaxCrashes
    /\ \A p \in Process :
         /\ at[p] \in {"opening", "flocking", "saving", "writing"} => holder = p
         /\ holder = p => at[p] \notin {"idle", "got"}
         /\ held[p] => file[p] # None /\ at[p] # "idle"

Init ==
    /\ deletable \in BOOLEAN
    /\ index = NoEntries /\ torn = FALSE
    /\ saved = NoEntries /\ whole = TRUE
    /\ holder = None
    /\ machines = [p \in Process |-> NoEntries]
    /\ at = [p \in Process |-> "idle"]
    /\ op = [p \in Process |-> "look"]
    /\ machine = [p \in Process |-> AnyMachine]
    /\ got = [p \in Process |-> Absent]
    /\ path = [n \in Machine |-> None]
    /\ file = [p \in Process |-> None]
    /\ held = [p \in Process |-> FALSE]
    /\ writes = 0 /\ crashes = 0

call == <<at, op, machine, got>>

Goto(p, where) ==
    /\ at' = [at EXCEPT ![p] = where]
    /\ UNCHANGED <<op, machine, got>>

\* The operation is over, and its locals with it.
Done(p) ==
    /\ at' = [at EXCEPT ![p] = "idle"]
    /\ op' = [op EXCEPT ![p] = "look"]
    /\ machine' = [machine EXCEPT ![p] = AnyMachine]
    /\ got' = [got EXCEPT ![p] = Absent]

\* The process drops its file handle, which ends its lock.
Drop(p) ==
    /\ file' = [file EXCEPT ![p] = None]
    /\ held' = [held EXCEPT ![p] = FALSE]
-------------------------------------------------------------------------------
(* Under the flock on index.lock.                                          *)

\* unlocked_reload: an index file without data leaves @machines as it was.
Loaded(p) == IF torn THEN machines[p] ELSE index

\* The writes to come of the operations that have begun.
Pending == {q \in Process : at[q] \in {"opening", "flocking", "got", "saving"}
                            /\ op[q] # "look"}

\* An operation takes the index lock, reloads and looks for its entry.
Begin(p) ==
    /\ at[p] = "idle"
    /\ holder = None
    /\ \E o \in Operations, n \in Machine :
         LET found == Loaded(p)[n] # Absent
             goes == IF o \in {"look", "update", "destroy"} THEN found
                     ELSE o = "create" \/ ~found
         IN  /\ o # "look" => writes + Cardinality(Pending) < MaxWrites
             /\ IF goes
                THEN /\ at' = [at EXCEPT ![p] = "opening"]
                     /\ op' = [op EXCEPT ![p] = o]
                     /\ machine' = [machine EXCEPT ![p] = n]
                     /\ got' = [got EXCEPT ![p] = Loaded(p)[n]]
                     /\ holder' = p
                ELSE UNCHANGED <<call, holder>>
    /\ machines' = [machines EXCEPT ![p] = Loaded(p)]
    /\ UNCHANGED <<deletable, store, locks, crashes>>

\* lock_machine opens, or creates, the lock file ...
Open(p) ==
    /\ at[p] = "opening"
    /\ Goto(p, "flocking")
    /\ LET n == machine[p]
           unused == {f \in File : f # path[n] /\ \A q \in Process : file[q] # f
                                                 /\ \A k \in Machine : path[k] # f}
       IN  IF path[n] # None
           THEN file' = [file EXCEPT ![p] = path[n]] /\ path' = path
           ELSE /\ unused # {}
                /\ file' = [file EXCEPT ![p] = CHOOSE f \in unused : TRUE]
                /\ path' = [path EXCEPT ![n] = file'[p]]
    /\ UNCHANGED <<deletable, store, holder, machines, held, crashes>>

Locked(p) == \E q \in Process : held[q] /\ file[q] = file[p]

\* Defect: the lock is taken to be free.
FlockAnyway(p) ==
    /\ at[p] = "flocking"
    /\ held' = [held EXCEPT ![p] = TRUE]
    /\ Goto(p, IF op[p] = "create" THEN "saving" ELSE "got")
    /\ holder' = IF op[p] = "create" THEN p ELSE None
    /\ UNCHANGED <<deletable, store, machines, path, file, crashes>>

\* Defect: the error leaves the index lock behind.
FlockOrKeep(p) ==
    /\ at[p] = "flocking"
    /\ IF Locked(p)
       THEN Drop(p) /\ Done(p) /\ UNCHANGED holder
       ELSE /\ held' = [held EXCEPT ![p] = TRUE] /\ file' = file
            /\ Goto(p, IF op[p] = "create" THEN "saving" ELSE "got")
            /\ holder' = IF op[p] = "create" THEN p ELSE None
    /\ UNCHANGED <<deletable, store, machines, path, crashes>>

\* Defect: it waits for a locked entry, and lets others have the index.
FlockWaiting(p) ==
    /\ at[p] = "flocking"
    /\ IF Locked(p)
       THEN /\ holder' = (IF holder = p THEN None ELSE holder)
            /\ UNCHANGED <<call, file, held>>
       ELSE /\ held' = [held EXCEPT ![p] = TRUE] /\ file' = file
            /\ Goto(p, IF op[p] = "create" THEN "saving" ELSE "got")
            /\ holder' = IF op[p] = "create" THEN p ELSE None
    /\ UNCHANGED <<deletable, store, machines, path, crashes>>

\* ... and tries to lock it.  A locked entry is an error; get and recover
\* leave the index lock, set stays to save.
Flock(p) ==
    /\ at[p] = "flocking"
    /\ IF Locked(p)
       THEN Drop(p) /\ Done(p) /\ holder' = None
       ELSE /\ held' = [held EXCEPT ![p] = TRUE] /\ file' = file
            /\ Goto(p, IF op[p] = "create" THEN "saving" ELSE "got")
            /\ holder' = IF op[p] = "create" THEN p ELSE None
    /\ UNCHANGED <<deletable, store, machines, path, crashes>>

\* Defect: set and delete rely on what get loaded.
TakeStale(p) ==
    /\ at[p] = "got"
    /\ op[p] # "look"
    /\ holder = None
    /\ holder' = p
    /\ Goto(p, "saving")
    /\ UNCHANGED <<deletable, store, machines, locks, crashes>>

\* set and delete take the index lock again, and reload.
Take(p) ==
    /\ at[p] = "got"
    /\ op[p] # "look"
    /\ holder = None
    /\ holder' = p
    /\ machines' = [machines EXCEPT ![p] = Loaded(p)]
    /\ Goto(p, "saving")
    /\ UNCHANGED <<deletable, store, locks, crashes>>

\* unlocked_save opens the file for writing, which empties it ...
Truncate(p) ==
    /\ at[p] = "saving"
    /\ torn' = TRUE
    /\ machines' = [machines EXCEPT ![p][machine[p]] =
                      IF op[p] = "destroy" THEN Absent ELSE writes + 1]
    /\ writes' = writes + 1
    /\ Goto(p, "writing")
    /\ UNCHANGED <<deletable, index, saved, whole, holder, locks, crashes>>

\* ... and writes it.  delete releases the entry under the index lock.
Write(p) ==
    /\ at[p] = "writing"
    /\ index' = machines[p] /\ torn' = FALSE
    /\ saved' = machines[p]
    /\ holder' = IF op[p] = "destroy" THEN p ELSE None
    /\ Goto(p, "closing")
    /\ UNCHANGED <<deletable, whole, writes, machines, locks, crashes>>
-------------------------------------------------------------------------------
(* release, and the end of a process.                                      *)

\* A get that is followed by release only.
Leave(p) ==
    /\ at[p] = "got"
    /\ op[p] = "look"
    /\ Goto(p, "closing")
    /\ UNCHANGED <<deletable, store, holder, machines, locks, crashes>>

\* unlocked_release closes the lock file ...
Close(p) ==
    /\ at[p] = "closing"
    /\ Drop(p)
    /\ Goto(p, "deleting")
    /\ UNCHANGED <<deletable, store, holder, machines, path, crashes>>

\* ... and deletes it by its name, unless a system that does not delete open
\* files refuses.  Without a file of that name the process ends.
Unlink(p) ==
    /\ at[p] = "deleting"
    /\ LET n == machine[p]
           opened == \E q \in Process : file[q] # None /\ file[q] = path[n]
       IN  path' = [path EXCEPT ![n] = IF opened /\ ~deletable THEN @ ELSE None]
    /\ machines' = [machines EXCEPT ![p] =
                      IF path[machine[p]] = None THEN NoEntries ELSE @]
    /\ holder' = IF holder = p THEN None ELSE holder
    /\ Done(p)
    /\ UNCHANGED <<deletable, store, file, held, crashes>>

\* A process is killed, and another takes its place.
Crash(p) ==
    /\ crashes < MaxCrashes
    /\ at[p] # "idle"
    /\ crashes' = crashes + 1
    /\ Drop(p)
    /\ holder' = IF holder = p THEN None ELSE holder
    /\ machines' = [machines EXCEPT ![p] = NoEntries]
    /\ whole' = (whole /\ at[p] # "writing")
    /\ Done(p)
    /\ UNCHANGED <<deletable, index, torn, saved, writes, path>>
-------------------------------------------------------------------------------
Step(p) ==
    \/ Open(p) \/ Flock(p) \/ Take(p) \/ Truncate(p) \/ Write(p)
    \/ Leave(p) \/ Close(p) \/ Unlink(p)

Next == \E p \in Process : Begin(p) \/ Step(p) \/ Crash(p)

Spec == Init /\ [][Next]_vars

\* A process in an operation runs on, and flock wakes those that wait for it.
FairSpec == Spec /\ \A p \in Process : WF_vars(Step(p)) /\ SF_vars(Take(p))
-------------------------------------------------------------------------------
(* What the index promises.                                                *)

\* A process writes back what the others have written: it changes the entry
\* of its own machine only, unless a write was cut short before.
OthersKept ==
    [][\A p \in Process : Write(p) /\ whole =>
         \A n \in Machine \ {machine[p]} : index'[n] = saved[n]]_vars

\* The entry that set or delete replaces is the one that get returned: the
\* lock of the entry holds from one to the other, where files that are open
\* cannot be deleted.
EntryIsCurrent ==
    ~deletable /\ whole => \A p \in Process :
        at[p] = "saving" /\ op[p] \in {"update", "destroy"} =>
            machines[p][machine[p]] = got[p]

\* An entry that is deleted comes back only when its machine is created, or
\* recovered because the entry was missed, and not by an update of its state.
DeletedIsGone ==
    [][\A n \in Machine :
         ~deletable /\ whole /\ index[n] = Absent /\ index'[n] # Absent =>
             \E p \in Process : machine[p] = n /\ op[p] \in {"create", "recover"}]_vars

\* Every operation ends: the index lock is left on each way out.
OperationsEnd == \A p \in Process : at[p] # "idle" ~> at[p] = "idle"
===============================================================================
