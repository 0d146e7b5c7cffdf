----------------------------- MODULE JobRetention -----------------------------
(***************************************************************************)
(* How many jobs the server keeps: the count of index entries and          *)
(* State.Prune (state/prune.go, state/job.go), and JobsDBPruneOld, which   *)
(* deletes rows when a command ends (internal/client/server.go).           *)
(*                                                                         *)
(* An index entry is a pointer that handlers change before they insert it  *)
(* again, so memdb computes the old keys from the changed entry and leaves *)
(* the keys of every earlier state in its index.  memdb allows one writer  *)
(* at a time, and every action here that touches the index is one; it is   *)
(* the caller of Create, Update and Prune, so pruneMu is never contended.  *)
(* Database errors are left out, except those a missing row brings.  A job *)
(* queued without a target runner is saved and counted, but jobIndexSet    *)
(* refuses it: its creation fails, and so does the next start.             *)
(***************************************************************************)
EXTENDS Integers, FiniteSets

CONSTANTS
    MaxJobs,    \* bound: jobs created
    MaxInMem,   \* maximumJobsInMem
    MaxRows,    \* maximumJobsIndexed
    Untargeted  \* the jobs queued without a target runner

\* A job is the position of its queue time in the order of creation.
Jobs == 1 .. MaxJobs

ASSUME RetentionAssumption == {MaxJobs, MaxInMem, MaxRows} \subseteq Nat /\ Untargeted \subseteq Jobs

VARIABLES
    rows,       \* the state of each row, "NONE" when there is none
    created,    \* jobs created so far
    entry,      \* the State of each jobIndex entry, "absent" when there is none
    keys,       \* the queue-time index: every state an entry is filed under
    indexed,    \* indexedJobs
    failed,     \* history: creations that failed since the server started
    up,         \* the server runs
    locked,     \* a write transaction was never ended
    pruned      \* the rows the last JobsDBPruneOld has deleted

vars == <<rows, created, entry, keys, indexed, failed, up, locked, pruned>>

Incomplete == {"QUEUED", "WAITING", "RUNNING"}
Completed == {"ERROR", "SUCCESS"}

TypeOK ==
    /\ rows \in [Jobs -> Incomplete \cup Completed \cup {"NONE"}]
    /\ created \in 0 .. MaxJobs
    /\ entry \in [Jobs -> Incomplete \cup Completed \cup {"absent"}]
    /\ keys \subseteq (Incomplete \cup Completed) \X Jobs
    /\ indexed \in Int /\ failed \in Nat
    /\ up \in BOOLEAN /\ locked \in BOOLEAN
    /\ pruned \subseteq Jobs

Init ==
    /\ rows = [j \in Jobs |-> "NONE"]
    /\ created = 0
    /\ entry = [j \in Jobs |-> "absent"]
    /\ keys = {}
    /\ indexed = 0 /\ failed = 0
    /\ up = TRUE /\ locked = FALSE
    /\ pruned = {}
-------------------------------------------------------------------------------
Write == up /\ ~locked

\* memdb's Insert of an entry that was changed in place: the keys of its
\* earlier states stay.
Insert(j, s) ==
    /\ entry' = [entry EXCEPT ![j] = s]
    /\ keys' = keys \cup {<<s, j>>}

\* jobIndexSet: a job without a target runner is an error.
jobIndexSet(j) ==
    IF j \in Untargeted
      THEN failed' = failed + 1 /\ UNCHANGED <<entry, keys>>
      ELSE Insert(j, "QUEUED") /\ UNCHANGED failed

\* The row is saved and the job counted whether or not it has got an entry.
JobCreate ==
    /\ Write
    /\ created < MaxJobs
    /\ created' = created + 1
    /\ rows' = [rows EXCEPT ![created'] = "QUEUED"]
    /\ jobIndexSet(created')
    /\ indexed' = indexed + 1
    /\ UNCHANGED <<up, locked, pruned>>

Successors ==
    [QUEUED |-> {"WAITING", "ERROR"}, WAITING |-> {"QUEUED", "RUNNING", "ERROR"},
     RUNNING |-> {"ERROR", "SUCCESS"}]

\* jobReadAndUpdate and the Insert behind it.
Update(j, s) ==
    /\ Write
    /\ entry[j] \in Incomplete
    /\ s \in Successors[entry[j]]
    /\ rows[j] # "NONE"
    /\ rows' = [rows EXCEPT ![j] = s]
    /\ Insert(j, s)
    /\ UNCHANGED <<created, indexed, failed, up, locked, pruned>>

\* Without a row the update fails.  JobAssignForRunner has changed the entry
\* by then and returns without ending its write transaction.
AssignWithoutRow(j) ==
    /\ Write
    /\ entry[j] = "QUEUED"
    /\ rows[j] = "NONE"
    /\ entry' = [entry EXCEPT ![j] = "WAITING"]
    /\ locked' = TRUE
    /\ UNCHANGED <<rows, created, keys, indexed, failed, up, pruned>>
-------------------------------------------------------------------------------
(* Prune.                                                                  *)

Ranks == [QUEUED |-> 1, WAITING |-> 2, RUNNING |-> 3, ERROR |-> 4, SUCCESS |-> 5]

Before(k, l) ==
    Ranks[k[1]] < Ranks[l[1]] \/ (k[1] = l[1] /\ k[2] < l[2])

\* Defect: the age of a job is all that counts.
PrunableByAge == keys

\* The keys whose entries may go, whatever state they are filed under.  A key
\* outlives the entry that memdb has deleted by its other keys.
Prunable == {k \in keys : entry[k[2]] \notin Incomplete}

\* Defect: one too many.
ExcessAndOne == indexed - MaxInMem + 1

Excess == indexed - MaxInMem

\* The first keys of the iteration, as many as are to be deleted.
Doomed ==
    {k \in Prunable : Cardinality({l \in Prunable : Before(l, k)}) < Excess}

\* Deleting an entry by a second key of it, or one that is gone, is an error.
Deletable ==
    /\ \A k \in Doomed : entry[k[2]] # "absent"
    /\ \A k, l \in Doomed : k[2] = l[2] => k = l

\* Defect: the count is left as it was.
PruneUncounted ==
    /\ Write
    /\ Excess > 0
    /\ Deletable
    /\ entry' = [j \in Jobs |-> IF \E k \in Doomed : k[2] = j THEN "absent" ELSE entry[j]]
    /\ keys' = keys \ {<<entry[k[2]], k[2]>> : k \in Doomed}
    /\ UNCHANGED <<rows, created, indexed, failed, up, locked, pruned>>

\* memdb deletes the keys the entry has now.
Prune ==
    /\ Write
    /\ Excess > 0
    /\ Deletable
    /\ entry' = [j \in Jobs |-> IF \E k \in Doomed : k[2] = j THEN "absent" ELSE entry[j]]
    /\ keys' = keys \ {<<entry[k[2]], k[2]>> : k \in Doomed}
    /\ indexed' = indexed - Cardinality(Doomed)
    /\ UNCHANGED <<rows, created, failed, up, locked, pruned>>

\* The transaction is aborted: nothing is pruned.
PruneFails ==
    /\ Write
    /\ Excess > 0
    /\ ~Deletable
    /\ UNCHANGED vars
-------------------------------------------------------------------------------
(* The rows.                                                               *)

Rows == {j \in Jobs : rows[j] # "NONE"}

\* Order("queue_time asc").Offset(max), of this server or of another one on
\* the same database: what comes after the first max rows is deleted.
JobsDBPruneOld ==
    /\ pruned' = {j \in Rows : Cardinality({i \in Rows : i < j}) >= MaxRows}
    /\ pruned' # {}
    /\ rows' = [j \in Jobs |-> IF j \in pruned' THEN "NONE" ELSE rows[j]]
    /\ UNCHANGED <<created, entry, keys, indexed, failed, up, locked>>

Stop ==
    /\ up
    /\ up' = FALSE
    /\ locked' = FALSE
    /\ entry' = [j \in Jobs |-> "absent"]
    /\ keys' = {}
    /\ indexed' = 0 /\ failed' = 0
    /\ UNCHANGED <<rows, created, pruned>>

\* jobIndexInit does not count the entries it makes.
Start ==
    /\ ~up
    /\ \A j \in Untargeted : rows[j] \notin Incomplete
    /\ up' = TRUE
    /\ entry' = [j \in Jobs |-> IF rows[j] \in Incomplete THEN rows[j] ELSE "absent"]
    /\ keys' = {<<rows[j], j>> : j \in {i \in Jobs : rows[i] \in Incomplete}}
    /\ UNCHANGED <<rows, created, indexed, failed, locked, pruned>>

\* jobIndexSet refuses a row: the server does not start.
StartFails ==
    /\ ~up
    /\ \E j \in Untargeted : rows[j] \in Incomplete
    /\ UNCHANGED vars
-------------------------------------------------------------------------------
Next ==
    \/ JobCreate
    \/ \E j \in Jobs : AssignWithoutRow(j) \/ \E s \in Incomplete \cup Completed : Update(j, s)
    \/ Prune \/ PruneFails \/ JobsDBPruneOld
    \/ Stop \/ Start \/ StartFails

Spec == Init /\ [][Next]_vars
-------------------------------------------------------------------------------
(* Properties.                                                             *)

\* What the server knows of an unfinished job is never pruned, although keys
\* of the states it has left lead to it (jobsPruneOld skips by State).
UnfinishedKept == [][
    \A j \in Jobs : entry[j] \in Incomplete /\ up /\ up' => entry'[j] # "absent"]_vars

\* The count exceeds the entries there are by no more than one for every
\* creation that failed after the last start (jobCreate counts those too),
\* whatever restarts forget and prunes with stale keys delete.
CountIsSafe == indexed <= Cardinality({j \in Jobs : entry[j] # "absent"}) + failed

\* A prune that succeeds leaves MaxInMem entries at least, but for one for every
\* creation that failed: the excess it deletes is taken from the count.
RetainsMax == [][Prune =>
    Cardinality({j \in Jobs : entry'[j] # "absent"}) >= MaxInMem - failed]_vars

\* What JobsDBPruneOld deletes is older than what it keeps.
OldRowsArePruned == \A j \in pruned, i \in Rows : j < i

\* No write transaction is left open.  JobAssignForRunner says of the one it
\* assigns in: "No need to defer here since the first defer works".
WriterReleased == ~locked
===============================================================================
