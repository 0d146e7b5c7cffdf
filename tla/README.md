# Vagrant: a TLA+ model of its jobs, machine actions and file locks

This directory models the parts of Vagrant in which order, time and failure
matter: the job queue of the built-in server with its timers and restarts, the
streams over which runners work on jobs, the buffer of their output, how many
jobs are kept, batches of machine actions, and the files that Vagrant processes
share under locks. It states what these parts promise, checks the promises on
small instances with TLC and proves the most important ones with TLAPS for
every instance.

Paths are relative to the repository root (`src/` here stands for it); `state/`
is `internal/server/singleprocess/state/`.

## 1. The system

A `vagrant` command runs a client, a runner and, when no remote server is
configured, a server in one process. The client queues a job, the runner asks
the server for it, executes it and reports back; the server keeps the records in
SQLite and an index of the live jobs in memory (go-memdb).

    client  --QueueJob / GetJobStream / CancelJob-->  server  <--RunnerConfig / RunnerJobStream--  runner
                                                        |
                                    database rows + in-memory index + runtime timers

| Component | State | Operations | Hard behaviour | What makes it correct |
|---|---|---|---|---|
| Job queue, `state/job.go` | the `InternalJob` row; the `jobIndex` entry; per job one `StateTimer` and one expiry timer | create, assign, ack, complete, cancel, heartbeat, expire, rebuild at start | handlers, timer callbacks and restarts interleave; a fired timer cannot be stopped; assignment reads and writes in two transactions | row and entry agree; a job that a runner holds always has a timeout; completed jobs are frozen; no job hangs |
| Runner registry, `state/runner.go` | `Runner` rows | create, delete, look up | a runner leaves while its assignment call waits | an assignment goes to a registered runner |
| Log buffer, `internal/server/logbuffer` | a window of chunks, one condition variable, a cursor per reader | write, open, read, close | readers read without the lock; sleeping and broadcasting race | entries arrive once and in order; sleepers are woken |
| Retention, `state/prune.go`, `JobsDBPruneOld` | counter `indexedJobs`, a mutex of its own | prune the index, prune the rows | entries are changed in place under stale index keys; the row pruning order | live jobs are never pruned |
| Runner stream, `service_runner.go`, `internal/runner/accept.go` | one bidirectional stream per job, three goroutines at each end | ask, ack, heartbeat, output, complete, cancel | broken streams, late answers, a shared `err`, closing while messages are queued | one execution per acknowledged assignment; every outcome is recorded or times out |
| Job client, `internal/client/job.go` | one job stream | queue, watch, cancel on exit | the process ends while the job is queued | the job does not stay queued |
| Server start, `internal/client/server.go`, `state/state.go` | the file `data.db` | open, rebuild index, prune at exit | two processes share the file | one process does not time out the other's jobs |
| Configuration, basis, project, target and box records, `state/*.go` | rows | get, put, find, delete | none beyond single database transactions | - |
| Machine index, `lib/vagrant/machine_index.rb` | `index` file, `index.lock`, a lock file per machine | get, set, delete, release, recover | processes share the files; lock files are deleted; the file is rewritten in place | one process holds a machine; no update is lost |
| Environment lock, `lib/vagrant/environment.rb` | `lock.<name>.lock` files, `@locks` | lock with or without retry, nested | deleting a lock file that others have open | at most one process is inside a named lock |
| Batch action and middleware, `batch_action.rb`, `action/warden.rb`, `action/runner.rb` | threads; the stack of entered middlewares | run, recover | parallel failure, interrupts, nested recovery | every entered middleware is recovered once |
| Core objects and plugin manager, `internal/core`, `internal/plugin` | caches of plugin instances | delegation to plugins | external processes | - |
| Command line, configuration language, downloads, providers | none | parsing, formatting, I/O | - | - |

How they interact: handlers of one server share the in-memory database, which
admits one writer at a time; `RunnerJobStream` and `GetJobStream` wait on memdb
watch channels, which a committed write closes; timers call back into the same
handlers; output goes from the runner's stream into the job's log buffer and
from there into every client's stream.

## 2. Modules

| Module | Models | Builds on |
|---|---|---|
| `JobLifecycle` | what a client may rely on about one job record | - |
| `JobQueue` | the server's job operations, timers, assignment, crash and restart | implements `JobLifecycle` |
| `JobStream` | one job, the streams of the runners that may get it, and its client | every step on the record is a step of `JobLifecycle` (`INSTANCE`), so it composes with what `JobQueue` is shown to implement |
| `JobRetention` | the count of jobs, pruning of index and rows, the stale keys of memdb | - |
| `LogBuffer` | the output buffer | - |
| `EnvLock` | the named file locks of the Ruby processes | - |
| `MachineIndex` | the index file of all machines and the locks of its entries | - |
| `BatchAction` | a batch of machine actions: threads, middlewares, recovery, signals | takes `EnvLock`'s promise for the lock of a machine |
| `JobQueueProofs`, `EnvLockProofs`, `LogBufferProofs`, `JobStreamProofs`, `JobStreamOnceProofs`, `JobRetentionProofs`, `BatchActionProofs`, `MachineIndexProofs` | theorems | the modules they are named after; `JobStreamOnceProofs` extends `JobStreamProofs` |

`MC...` modules hold the model values of the instances. The order of the plan was
this table's; what it has left is in section 11.

## 3. JobQueue

### Correspondence

| Variable | In the code |
|---|---|
| `rowState`, `queueTime`, `assignTime`, `cancelTime`, `jobError` | columns of the `InternalJob` row; times are reduced to "set", except the queue time, whose order decides assignment |
| `registered` | the `Runner` rows |
| `up` | the process runs |
| `mem` | `jobIndex.State`, `"absent"` without an entry |
| `timer`, `armed` | the kind of timer `jobIndex.StateTimer` points to, and whether it is running |
| `stray` | running timers that no `StateTimer` points to any more |
| `expiry` | the expiry timer of `jobIndexSet` is running; nothing refers to it |
| `due` | goroutines of fired timers that have not taken the write lock yet |
| `asking`, `cand` | the `JobAssignForRunner` calls in progress, and the candidates each has found |

Every handler opens a memdb write transaction, and memdb has one writer at a
time; so a handler is one step. Two things are not: a timer fires in one step
and its callback runs in a later one, because `Timer.Stop` does not recall a
started callback; and `JobAssignForRunner` searches under a read transaction and
assigns under a write transaction, which re-checks each candidate.

The search without a result waits on the watch of the QUEUED entries taken from
the same snapshot. A job that arrives after the snapshot closes that channel, so
the wait and the new search are the step `Search`, enabled when there is a
candidate. `GiveUp` is the end of the caller's context or the runner's removal.

`JobComplete`, `JobCancel` and the rest are shared by RPC handlers and timer
callbacks; an RPC that finds the job in another state returns an error and
changes nothing, which is a stutter, while a callback that does so is used up
(`Ignored`).

`QueueJob` does not ask for a target runner. For a job without one (`NoTarget`)
`jobCreate` saves the row, `jobIndexSet` returns an error and `JobCreate` does
not commit: the row stays QUEUED and has no entry, and as long as it is there
`jobIndexInit` fails on it, so that the server does not start (`StartFails`).

A restart (`Crash`, then `jobIndexInit`) loses everything but the rows and the
runner records and rebuilds an entry for every incomplete row, with a new timer.
In `JobQueue` the server may crash between any two steps.

Left out of this module: database calls that fail, pruning (`JobRetention`), the
contents of jobs, and `jobIsBlocked`/`jobAssignedSet`, which do nothing because
`blockOps` in `job_assigned.go` is empty. The acknowledge and complete
operations are enabled whenever the job's state allows them, whoever calls: this
covers runners that answer late, twice, or for an assignment that has since been
given to another runner, all of which the code accepts, because an assignment has
no identity.

### Properties

* `IndexAgrees`: entry and row of a job show the same state, and a running
  server has an entry for every incomplete row. Excepted is the row of a job
  without a target runner, of which it says that it has no entry and stays
  QUEUED.
* `AssignedIsWatched`: a WAITING job has a live ack timer and a RUNNING job a
  live heartbeat timer; "live" includes a callback that is on its way.
* `QueuedJobExpires`: a queued job that was given an expiry has something left
  that will end it. The expiry timer fires once; when it fires on a WAITING job
  that is rejected later, the heartbeat timer `JobAck` starts even for a
  rejection takes over. The property shows that what looks like a slip is what
  keeps such jobs from staying in the queue.
* `ErrorColumn`: the error column is set exactly in the ERROR state, and says
  "canceled" only with a cancel time.
* `FollowsLifecycle`: `JobQueue` implements `JobLifecycle` (state is the row's
  state): no transition is skipped and a completed record is never touched.
* `AssignmentResolves`, `LostRunnerDetected`, `ExpiringJobSettles`,
  `AskIsAnswered`: no job stays WAITING; only a job whose timer is reset for
  ever runs for ever; a queued job with an expiry runs or ends (or the server
  stops); a runner that waits is not left waiting while a job it can serve stays
  queued.

`TimersAreCancelled` is what a comment says of `StateTimer`; the program does
not keep it, see section 10.

### Runs and bounds

| Run | Instance | States |
|---|---|---|
| `jobs` | 3 jobs (for any runner / for a given runner / without a target, with an expiry), 1 runner, `MaxTimers` 1, fair | 0.18 million |
| `runners` | 1 job, 2 runners, `MaxTimers` 3, fair | 36 thousand |

`MaxTimers` bounds how many timers of a job may be running or due when it is
assigned or its timer is restarted; each rejection leaves one behind, so without
it their number is unbounded. Three are enough for two timers of earlier
assignments to meet the present one; `jobs` is about several jobs and not about
timers. Jobs influence each other only through the choice of the oldest
candidate, for which two are enough, and so it is for a runner to keep a
candidate that is gone while another waits; the third job of `jobs` is the one
whose creation fails, before, between or after the others. Runners influence each
other only by racing for a candidate, for which two are enough. Two jobs with two
runners (3.5 million states) pass but take too long to be part of the regular
checks. The proofs need none of these bounds.

### Fairness

`FairSpec` assumes that the Go runtime fires every running timer (`Elapse`,
`Fire`, `FireStray`, `FireExpiry`), that it schedules the callbacks
(`AckTimeout`, `BeatTimeout`, `JobExpire`), and that an assignment call that can
proceed does (`Search`, `Assign`, `AssignRetry`). Weak fairness is enough: none
of these steps loses its turn for ever to another, with one intended exception.
A heartbeat timer is first `"reset"` and must pass through `Elapse` before it
fires; `Heartbeat` puts it back, so a job whose runner keeps beating never times
out. Nothing is assumed of clients, runners, crashes or restarts; properties
that need a running server say so.

## 4. LogBuffer

`chunk`, `window` and `current` are `Buffer.chunks` and `Buffer.current`; a
window that has been replaced remains for the readers that hold it. An entry is
the number of its place in the order of writing. `phase` is where a reader's
goroutine is: `"loaded"` after the load of the chunk's size, which is done
without the lock, when it found nothing and will block; `"asleep"` and `"woken"`
inside `cond.Wait`; `"turning"` on its way to `b.Reader(-1)` for the next
window. `Write` fills one chunk per step and holds the lock between them, during
which readers may read. `Reader.Close` sets the flag in one step and broadcasts
in a later one. `at` is the position in the window, so the slice a reader was
given (`b.chunks[i:]`) is its starting chunk. `Buffer.Close` is not called by the
program and is left out.

* `InOrder`: what a reader returns is gapless and in order, except that after
  the last entry of a window it may jump to the first entry of a later window.
* `WriteReachesSleepers`, `CloseReachesSleepers`: a reader that is asleep when a
  write or its close happens is woken and returns.

Run `order`: one reader (readers do not affect each other's positions), three
windows of two chunks of two entries, limits -1, 0 and 1, so that a reader can
fall a whole window behind and start in every position. Run `wakeup`: two
readers, because the broadcast is shared, and entries for one change of window.
Both run under `CHECK_DEADLOCK FALSE`: when the bound on entries is reached and
every reader is closed there is nothing left to do, as in the program. The
fairness is that a call under way proceeds when it can: the scheduler runs it and
a Go mutex is not withheld for ever.

## 5. EnvLock

`Environment#lock` opens `lock.<name>.lock`, takes an flock on it, runs the
block, closes the file and deletes it. Opening and deleting happen in the block
of a nested `lock("dotlock")`, whose file stays. `pc` is the place in the call:
`"entering"` to `"opened"` is the first dotlock block, `"leaving"` to `"deleted"`
the second one, `"raising"` the outer `ensure`. `locks` is `@locks`, one table
for all threads of an environment. A `File` is what the system calls an inode: a
path that has been deleted and opened again leads to another one, while who has
the old one open can still lock it. `fd` is the variable `f` of a call, `owner`
the holder of the flock. `Abort` is a block that raises or returns out of its
caller (`docker/provider.rb`, `host_vm_lock`), so that the code after it is
skipped. `Crash` is a process that is killed: the system closes its files.
`CanDeleteOpen` is what `File.delete` does to an open file: on POSIX systems it
removes the name, elsewhere it fails, which the code expects and ignores. The
flock and the mark set after it are one step, and so are the removal of the
dotlock's mark and the close of its file: a thread that looks in between finds
what it could have found before, or after. Locks of
different names nested in one another are left out, so are the callers' own
mutexes; a caller that uses one is a process with one thread.

* `MutualExclusion`: one caller at a time is inside a lock. It needs
  both one thread in each process and `~CanDeleteOpen`; section 10 says how it
  fails without.
* `LiveFileExclusion`: what is left without these conditions: two callers that
  took the lock are not both on the file the path leads to.
* `DotlockExclusion`: processes with one thread create and delete one at a time.
* `CleansUp`: when nobody uses a lock the file is gone, unless a call ended
  without its clean-up. Owners delete files of each other by name, so this is not
  a matter of each removing its own.
* `SomebodyEnters`: callers never all wait, for the lock or for the dotlock.

| Run | Instance | States |
|---|---|---|
| `exclusion` | 4 processes, 3 on one lock and 1 on another; open files are not deleted | 0.2 million |
| `sharing` | 2 threads of a process and 1 of another, 1 lock, all retry, fair | 0.23 million |

Three callers are needed for one that leaves, one that has the old file open and
one that creates the new one. In `exclusion` one of them gives up when the lock
is taken. One file more than there are callers is enough: each has at most one
open. `MaxCrashes`
is 1: a kill leaves nothing behind but the file, so that a second one meets the
same situation. Fairness: a thread that has called `lock` is scheduled, and the
blocks run under a lock end. Polling for the dotlock or the lock is fair to
nobody in particular, so only progress of some caller is claimed; in `sharing`
all callers retry, because callers that give up and come back at once could keep
the dotlock from a caller for ever.

## 6. JobStream

A stream is one call of `Runner.accept` with the `RunnerJobStream` handler at its
other end. Each end is several goroutines, and a step of the module is one
receive, one send or one branch of a `select`.

| Variable | In the code |
|---|---|
| `state`, `canceled`, `failure` | the job's record, moved by `JobLifecycle`'s actions only |
| `toServer`, `toRunner`, `broken` | messages on their way; gRPC delivers in order, and after a break a prefix of what was on its way |
| `handler` | `RunnerJobStream`: in `JobAssignForRunner`, waiting for the ack, in the event loop, returned |
| `reading`, `done` | the receiving goroutine, and the context that it cancels when it ends |
| `errCh`, `eventCh`, `jobCh` | the three channels of the loop, each with room for one |
| `stale` | the handler's watching goroutine has not read the record since it was written |
| `accept` | `accept`: waiting for the assignment, executing, executed, reporting, waiting for the end, and how it returned |
| `err` | the variable `err` of `accept`, which its receiving goroutine assigns as well |
| `heard` | the place of that goroutine: it has received an event or the end and not tested `err` yet, or has found an error and not sent it yet |
| `over`, `lastErr` | a `Recv` has returned an error; what is in the `errCh` of `accept` |
| `stopped` | its context was cancelled by a Cancel event |
| `outcome` | what the execution really came to |
| `client`, `interrupted` | `doJob`: job queued, `GetJobStream` open, left; its context is cancelled |
| `expiry`, `nacked` | the job's expiry timer, and the heartbeat timer a rejection leaves behind |

An ack and the start of the execution are one step, because the runner waits for
nothing between them. Heartbeats are no messages: while they can reach the store
(`Beating`) the timer does not run out. `Watch` reads the record and fills
`jobCh` in one step; in the code the record may change between the two, and the
next version is sent after it in either case. Each version that is read with a
cancel time makes `HandleJob` send a Cancel, so a runner may be told several
times.

The receiving goroutine of `accept` takes three steps: `Recv` assigns `err` (nil
with an event), the test of `err`, and the send into `errCh`, for which `err` is
read again. In between `accept` may assign `err` the result of the job. So an
error of the execution may be taken for the end of the stream (`FindError`), the
goroutine may send a nil error (`PassError`), and when the stream has ended and
`err` has become nil it goes on with a response that is nil, which ends the
process (`Panic`).

A client that is interrupted before `GetJobStream` is open leaves without
cancelling its job, since the deferred call is not registered by then; the job is
left to its expiry of thirty seconds (`LeaveStream`).

* `ExitMeansRecorded`: an `accept` that returns after the end of the stream has
  its job completed in the store. The event crosses two goroutines of the
  handler, one of which cancels the context of the other.
* `ErrorRecorded`: an error is recorded although `accept` leaves without waiting.
* `ResultKept`: a success that its runner saw recorded stays.
* `ExecutedOnce`: until a stream breaks or a timer runs out a job is executed
  once, though a runner may refuse it and it be queued and assigned again.
* `CancelEnds`, `EndedJobStopsRunner`, `DoJobReturns`: a job that was cancelled
  ends; a runner whose job has ended under it stops; an interrupted client that
  was assigned the job gets its call back, or its process has ended by `Panic`.

| Run | Instance | States |
|---|---|---|
| `streams` | the client's own stream, another runner's, and that of a runner that refuses the job; none breaks; ack and heartbeat timers | 1.03 million |
| `ends` | the client's own stream, which may break, and that of a runner that refuses the job; expiry and heartbeat timers; fair | 89 thousand |

Two streams that execute are what is needed for a job to be in two hands, and a
third one, which refuses, brings it back to the queue in between; `ExecutedOnce`
stops at the first break or timeout, so no stream of `streams` breaks. In `ends`
one stream may break and the other does not, which are the two cases of its
properties, and the refusal makes the job QUEUED again at any time. `Timers`
leaves out the timer that the properties of a run do not depend on; with all
three timers both runs pass as well (3.2 million and 0.17 million states). Both
may stop: a job that has ended leaves nothing to do.

Fairness: goroutines are scheduled, timers that may run out do, and an execution
whose context is cancelled ends, which is what `executeJob` is given the context
for. Nobody has to call `accept`; a stream need not break; an execution that is
not cancelled may run for ever.

## 7. JobRetention

`indexed` is `indexedJobs`; `entry` the index entries; `keys` the queue-time
index of memdb, a set of pairs of a state and a job. Handlers change an entry in
place and insert it again, so memdb, which computes the keys to remove from the
entry it holds, removes none: a job stays filed under each state it has had
(`Insert`). `Prune` goes through the keys in the order of the index. Deleting an
entry under a second key is an error of memdb, which aborts the prune
(`PruneFails`). `JobsDBPruneOld` deletes rows, of this server or, when the
command of another process ends, of any server on the same database.
`AssignWithoutRow` is what `JobAssignForRunner` does with a job whose row is gone:
its update fails, and it returns with the write transaction open (`locked`), which
disables every later write.

A job without a target runner (`Untargeted`) gets a row and is counted, but
`jobIndexSet` refuses it and nothing is committed; `failed` counts these
creations since the server started. As long as such a row is there the next start
fails (`StartFails`).

* `UnfinishedKept`: no unfinished entry is pruned, although keys of states it has
  left lead to it.
* `CountIsSafe`: the count exceeds the entries by no more than one for each
  creation that failed, so that a prune does not take more than the excess but
  for those; a restart resets the count and not the entries.
* `RetainsMax`: a prune that succeeds leaves at least `MaxInMem` entries, but for
  one for each creation that failed.

Run `kept`: four jobs, of which the second has no target, `MaxInMem` 1, `MaxRows`
2 (20 thousand states): more than either limit also without the one that fails,
with two keys of one job and two jobs to delete. Run `locked`: the property `WriterReleased`, which the program violates. Deadlock is
not checked, because a server whose writers wait for ever is one of the states.
Left out: database errors other than a missing row, and the ten-minute timer of
`runPrune`, which may prune at any time.

## 8. Machine actions and the machine index

### BatchAction

`main` is the thread that called `BatchAction#run`, `next` the action it is about
to start or to wait for, `at` the thread of an action: `"begun"` before the lock
of its machine, `"locked"` before `Busy.busy`, then in the chain. `calls` counts
the middlewares called; since the Warden puts each in front of its stack, the
stack is `calls .. 1`. `frame` counts the calls of `Warden#call` that have not
returned, each of which rescues. `undo` is the place in `Warden#recover`.
`registered` is the list of `Busy`; `interrupted` is `env[:interrupted]` of an
action. `missed`, `recovered`, `spoilt` and `since` only record what happened.

A middleware may call the rest of the chain or not, raise before or after it, or
be a trigger that exits. What it raises is an exception that the Warden recovers
from (`Raise`), or SystemExit or NoMemoryError (`Exit`), which every Warden up the
chain raises again at once, without `recover`; a `recover` may raise either kind
(`RecoverRaises`, `RecoverExits`). In a parallel batch the thread stores such an
exception like any other, so the action has failed and nothing is recovered; one
after another it goes to the main thread. `Lock` takes the lock of the machine or fails, which is
what `EnvLock` promises of it. SIGINT runs the callbacks on the main thread while
the others go on; `Kill` is the end of the threads when the main thread aborts.

* `CleanFailure`: when an action has failed with an error that the Warden caught,
  every middleware that was called has been recovered once and none twice,
  although each call of the Warden rescues; when it ended well, by a trigger, or
  by SystemExit or NoMemoryError, none has been.
* `LastCalledFirst`: recovery is in reverse order also when a `recover` raises
  and the Warden's next call up the chain starts it again.
* `FailureStopsSequence`, `RunReports`: in sequence an action starts only after
  the success of the one before, and what `run` returns or raises is what the
  threads came to. Both except the threads in `missed`, see section 10.
* `InterruptStopsChain`: after the interrupt at most one more middleware is
  called.
* `RunEnds`: the batch ends and leaves no thread.

Run `batch`: two actions, two middlewares each, two signals (0.76 million
states). Two actions are needed for a batch to be parallel, and for one to fail
beside or before another; two middlewares for one above the failure and one
below; the second signal aborts, so that there is no third. Fairness: Ruby
schedules every thread, and no middleware runs for ever. The batch stops at its
end, so deadlock is not checked.

### MachineIndex

`index` and `torn` are the index file, `holder` who has the flock on
`index.lock`, `machines` a process' `@machines`. `path` is the lock file that has
the name of a machine's lock, `file` and `held` the handle a process has open and
whether it is locked. An entry is the number of the write that made it, so two
entries are equal only if nobody wrote in between. An operation is what
`machine.rb` and the commands do with the index: `"look"` is get and release,
`"update"` get, set and release, `"destroy"` get and delete, `"create"` set of a
new entry and release, `"recover"` recover and release. The index lock is taken
for get, given back, and taken again for set or delete; between the two the
entry's own lock must protect it. `unlocked_release` closes the handle and deletes
the file in two steps, and `release` runs without the index lock.
`deletable` is chosen at the start: whether the system deletes open files.

* `EntryIsCurrent`: the entry a process replaces is the one it was given.
* `OthersKept`: it writes back what the others have written.
* `DeletedIsGone`: a deleted entry comes back only by being created or recovered.
* `OperationsEnd`: every operation ends; a locked entry is an error, not a wait.

Run `index`: two processes, two machines, four files, three writes, one process
killed at any point (0.23 million states). Two machines, for an entry that is
not the process' own; four files, because two processes have at most one open
each and two paths lead to at most one each. Fairness: processes in an
operation run on, and flock wakes those that wait (`SF` for `Take`, since others
may take the index lock in between any number of times).

## 9. What is proved

`JobQueueProofs` proves, for any sets of jobs and runners, any targets, expiries
and `MaxTimers`, from `TargetAssumption` and `JobsAssumption` alone:

* `TypeCorrect`: `TypeOK`. It is not inductive as it stands, since a fired
  `StateTimer` is counted under the kind it had: `TypeInv` adds that a running
  timer has a kind (`TimerOwned`).
* `IndexCorrect`: `IndexAgrees`, inductive together with the types: that the row
  of a job without a target stays QUEUED follows from its missing entry, which
  every operation asks for. Most steps move the entry and the row of one job
  together (`MovedIndex`) or neither (`SameIndex`).
* `ImplementsLifecycle`: `FollowsLifecycle`. Each action is matched with the
  `JobLifecycle` action it performs on the row, or with a stutter. Handlers test
  the entry, the abstract actions the row: `IndexAgrees` carries the one over to
  the other.
* `ErrorCorrect`: `ErrorColumn`, from the lifecycle steps alone.
* `AssignedIsWatchedAlways` and `QueuedJobExpiresAlways`: the two timer
  invariants, one case per action; the second needs that a rejected job leaves
  `JobAck` with a running heartbeat timer.
* `AssignedInTurnAlways`: a runner is assigned a job that it serves, and a job
  overtakes only those of its queue that were assigned once and came back. The
  candidate is the oldest of a read transaction that is over when the job is
  assigned. It is still in its turn (`TurnInv`) because a job created since is
  later in `QueueTime` (`CreatedLast`), and an older one can have come to be
  queued only by a rejection, which leaves the mark of its assignment. The
  exception is needed: a rejected job keeps its `QueueTime`, and may come back
  after a younger one was chosen.

`EnvLockProofs` proves, for any threads, environments, names and files, from
`EnvLockAssumption`:

* `TypeCorrect`, and `FlockInvariant`: a caller has the file open in exactly the
  stages where the code holds `f`, and owns the flock from taking it to closing.
* `LiveFileExclusionHolds`, from `FlockInv` alone: two owners of one flock would
  be the same caller.
* `DotlockExclusionHolds`, for processes with one thread each (`OneThreadEach`):
  the mark in `@locks`, the flock and the dotlock's block agree (`DotInv`), so no
  caller gets past the test of the mark.
* `MutualExclusionHolds`, for `OneThreadEach` and `~CanDeleteOpen`: an open lock
  file is the one its path leads to (`OpenIsLive`), no call is let in by a mark
  (`MarkInv`), so two callers inside are on the same file, and `FlockInv` makes
  them one. Without either condition it fails (section 10).
* `CleansUpHolds`, for `CanDeleteOpen \/ Retry = Thread`: while every call has
  cleaned up, a flock belongs to a caller that is still to close it, and a file
  that is there has a caller that will delete it (`CleanInv`); it needs that callers
  of different names have different files open (`ApartInvariant`). Without the
  hypothesis it is false: a caller that gives up has the file open for a moment,
  and the last holder, who leaves in that moment, cannot delete it. Both of its
  sides hold in `sharing`, which checks `CleansUp`.
* `WaitsEnd`: a caller keeps its flock while it waits for the dotlock, whose
  holder is always in its block, and one who polls for a flock has none
  (`HolderInv`), so that a chain of waits has at most two links. It is the
  safety core of `SomebodyEnters`: there is always somebody who can go on.

`BatchActionProofs` proves, for any `N`, `Depth` and `MaxSignals`:

* `InterruptStops`: an interrupt finds an action before the check of its Warden or
  past it, in which case no middleware was entered since (`Stopped`).
* `LastCalledFirstHolds`: while a stack is being recovered, each middleware above
  the one whose turn it is is strictly ahead of each below (`Ordered`), which is
  also true when the recovery is begun again.
* `FailsCleanly`: without a raising `recover` the counts are exactly one above the
  middleware whose turn it is and zero below (`Recovering`); `Ordered` supplies
  that nothing is recovered before the Warden raises.
* `SequenceStops`, `BatchReports`: the place of `run` tells which actions have
  passed or ended (`Reported`), and a thread has a result when it is dead and
  only then (`Results`).
* `TypeCorrect`: that no callback is registered twice needs that an action
  registers once and, until its chain is over, is the only one to take its
  callback away (`CallbacksInvariant`).
* `SignalReachesAll`: every action whose chain runs has its callback registered,
  in whatever order the actions began, so that a signal either interrupts all of
  them or, when one was interrupted before, ends the process.
* `ThreadsDescend`: the phase of an action, the outermost frame that can still
  recover and the place inside its recovery form a triple of naturals
  (`DistancesAreNaturals`) that each step of the thread lowers lexicographically
  and no other step touches. A recovery that is begun again by a raising `recover`
  is the case that a simple count of steps does not bound. An exception that
  skips recovery lowers the phase.
* `WaitsForTheRunning`: what `run` joins or collects has been begun, and only the
  end of the process kills a thread (`Awaited`).
* They rest on `TypedInvariant`. The types alone are not inductive: that a frame
  does not exceed `Depth` needs that frames and calls agree (`Framed`), and that
  no thread exists for an action not begun (`Ahead`).

`MachineIndexProofs` proves, from `BoundsAssumption` and `SetsAssumption` (the
processes are finitely many, there is a machine, `None` is none of either):

* `TypeCorrect`: `TypeOK` with `CallAt`, what is known of an operation at each of
  its places. The bound on the writes needs that they are counted when an
  operation begins.
* `LockInvariant`: a lock file is locked by one process, and where open files
  cannot be deleted an open lock file is the one that has its machine's name.
* `CurrentInvariant`: as long as no write was cut short, who holds the index lock
  has in memory what is in the file, and the entry that get returned stays in the
  file while its lock is held (two processes writing one entry would hold one
  lock). `OthersAreKept`, `EntryStaysCurrent` and `DeletedStaysGone` follow; the
  last two are claimed for `~deletable` and fail without it.

`JobRetentionProofs` proves, from `RetentionAssumption`:

* `UnfinishedAreKept`, from the types: the test by `State` protects an entry under
  all of its keys.
* `CountIsSafeAlways`: a creation adds one to the count and either an entry or a
  failure; a prune lowers the count by the number of keys, and takes
  at most one entry for each (`PruneTakesFew`, by the pigeonhole principle); a
  job yet to be created has neither row nor entry (`CountInv`).
* `RetainsMaxAlways`: no two keys have equally many keys before them
  (`RanksDiffer`), so that at most `Excess` keys are deleted (`DoomedFew`).

`LogBufferProofs` proves, from `SizeAssumption`:

* `ReadsInOrder`, for any readers and any sizes. Of the writer (`WriterInv`): each
  chunk of each window holds the entries of its place, full behind the writer and
  empty ahead of it. Of a reader (`ReaderAt`): the last entry it got comes right
  before its place, or the window ends with it and the place is the start of a
  later one; a reader that turns has a later window to go to; and a cursor beyond
  its chunk, which `Buffer.Reader` makes when it counts back from the end,
  belongs to a reader that has got nothing yet.
* The same invariant gives `TypeCorrect`. Positions enter only through the
  lemmas `Bases` and `BasesGrow` on `Base(w, c)`, the number of entries before a
  chunk.

`JobStreamProofs` proves, from `StreamsAssumption`:

* `CompletionIsRecorded` and `ResultIsKept`, for any number of streams. The
  invariant follows one stream at a time, because all that a stream needs of the
  others is that the record only grows (`JobGrows`: an end, a success and a
  cancellation stay). `Talks` says, for a stream that has not broken, how far the
  handler is with what its runner has sent: as long as the runner works its
  receiving goroutine runs and its context is not cancelled, and after the
  completion the event is on its way, waits in `eventCh`, or is recorded, before
  `HandleDone` can end the handler. `Means` says what a good end of the stream, a
  cancellation and a missing error tell of the job; a good end tells that the job
  is recorded also when it has reached only `err`, from where another assignment
  may still remove it.
* `TypeCorrect` needs the order of the messages too (`Flows`): an event that
  reaches `eventCh` is a completion or an error, also on a stream that breaks.
* `NobodyWaitsInVain`: `errCh` of `Runner.accept` holds one value, which the check
  for a forced cancellation may take, and the handler may leave with its context
  before or after it read the completion. `Ending` says for each place of the
  handler what the runner has been told or will be told; it is carried by one lemma for
  each kind of step (`ClosingEnds`, `HandlerEnds`, `LeavingEnds`, `GoingEnds`).
  An accept that waits after a success needs `HearInv`, about the `err` that its two
  goroutines share: what the receiving one has met, for each value of `err`. It
  excludes that the goroutine ends, with nothing or with the wrong error in
  `errCh`, before it has met the end of the stream: that takes an error of the
  execution, after which `accept` does not wait.
* `FollowsLifecycle` matches each step on the record with a step of `JobLifecycle`,
  so that what is proved here of one job is about a store that `JobQueue` is
  proved to be (`ImplementsLifecycle`).

`JobStreamOnceProofs` adds what holds until the first break or timeout, on top of
that invariant:

* `ExecutedAtMostOnce`, for any number of streams. `Apart` says of two streams that
  they have not both begun and do not both hold the job, and `Sound` ties each to
  the record: a handler that has sent the assignment finds the job WAITING, and one
  that ends after its runner has begun leaves the job ended (`CalmClosing`). So the
  job cannot be queued again behind a runner that has begun, and a runner that
  begins finds nobody who has (`Beginner`).
* `ErrorIsRecorded`: `ErrorFollows` says where an error is that a runner has left
  behind it: in the stream after its ack, in `eventCh`, or in the record.

Only model-checked: the liveness properties under fairness, which are outside the
prover's reach. Every invariant and every action property that a run checks is a
theorem. Of some liveness properties the proofs give the part that is safety, that
nobody is stuck or that each step leads nearer to the end, for every instance:

| Checked by TLC | Proved |
|---|---|
| `AssignmentResolves`, `ExpiringJobSettles` | `AssignedIsWatchedAlways`, `QueuedJobExpiresAlways`: a timer that will end the job |
| `SomebodyEnters` | `WaitsEnd`: no circle of waits |
| `DoJobReturns`, `EndedJobStopsRunner` | `NobodyWaitsInVain`: what a runner waits for is on its way, or its goroutine has it |
| `RunEnds` | `ThreadsDescend`, `WaitsForTheRunning`: threads end, and only they are waited for |

`AskIsAnswered`, `LostRunnerDetected`, `CancelEnds`, `OperationsEnd`,
`WriteReachesSleepers` and `CloseReachesSleepers` have no such counterpart here.

## 10. Where the program departs from what it means to do

One departure is checked by a run. `locked`: `JobAssignForRunner` says that it
need not defer the end of its write transaction; the deferred call is bound to
the read transaction opened at the top of the function, so that an error return
leaves the writer's lock held. `JobsDBPruneOld` brings the error about: it orders
the rows by queue time and deletes what comes after the first 50, the newest, and
with them the row of a job that is still queued.

The others were met while modelling. Where a definition states one, it is named
with the change to a run's configuration that shows it.

* `QueueJob` takes a job without a target runner: the row is saved before the
  index refuses it (`job.go:1082`, `:992`), so the caller gets an error and the row
  stays QUEUED, unseen by the running server; the next start of the server fails
  on it (`:958`). The creation has been counted all the same (`:1094`), and
  `indexedJobs`, which "indicates how many job records we are tracking in memory"
  (`state.go:73`), is one too high. `IndexAgrees` without `Unindexable`,
  `CountIsSafe` without `failed`; `StartFails` is the failing start.
* A rejected job keeps a heartbeat timer, the next assignment overwrites
  `StateTimer` without stopping it, and it may force-cancel a later, healthy run;
  the comment on `StateTimer` (`job.go:301`) says it is cancelled when the state
  changes. `JobQueue!TimersAreCancelled`, one job and one runner.
* `chunk.read` tests a size it loaded before it took the lock and does not look
  at the closed flag before it waits, so a write or a close in between is
  missed. The next line of output wakes the reader; one that is closed after the
  last line stays asleep. `LogBuffer!NoSleepOnEntries` and `CloseUnblocks` in run
  `wakeup`.
* The owner of a named lock closes the file and deletes it afterwards. A process
  that opened it before takes the flock on the file, which then has no name; the
  next one creates another file and gets in as well. `EnvLock!MutualExclusion`
  with `CanDeleteOpen = TRUE` and three processes.
* The test that allows nested locks reads a table shared by the threads of a
  batch action, so a second thread is taken for a nested call. Several callers
  hold a mutex of their own; the forwarded port collision handler, which docker's
  parallel actions run, does not. `EnvLock!ThreadExclusion` in run `sharing`.
* The receiving goroutine of `accept` assigns `err`, which the executing one
  reads and assigns: a Cancel event that arrives after a failure turns it into a
  success (`JobStream!ReportedTruthfully` in run `streams`); a failure may be taken
  for the end of the stream, after which no further event is received
  (`FindError`); and an end of the stream that a success overwrites makes the
  goroutine read a response that is nil, at which the process panics (`Panic`).
  `Panic` is modelled for the call of `accept` itself and for its client; not
  modelled are that it may also happen after `accept` has returned, and that the
  other streams of the same process end with it. That `accept` reads `err` twice
  when it reports an error (the test, and `status.FromError`) is one step.
* After the first prune of the index that deletes an entry with stale keys, later
  prunes meet those keys, fail, and prune nothing. `JobRetention!OldRowsArePruned`
  fails because the newest rows are deleted.
* A thread of a sequential batch that dies before `thread.alive?` is asked, or
  just when the sixty seconds of `join` are over, is never joined again; its
  exception is not stored either, and `bin/vagrant` turns off its report. The
  batch goes on and returns as if the action had succeeded. `FailureStopsSequence`
  and `RunReports` without `missed`.
* A `recover` that raises leaves the stack as it is: the steps above it are
  recovered twice, those below it perhaps never. `CleanFailure` without `spoilt`.
* SystemExit and NoMemoryError pass the Warden without recovery, as a test of it
  requires (`test/unit/vagrant/action/warden_test.rb:84`); but in a parallel batch
  the thread then stores the exception like any other (`batch_action.rb:91`), the
  action is reported as failed, the other actions go on, and what its
  middlewares did is not undone. `CleanFailure` without its exception for
  `"uncaught"`.
* An action of a parallel batch that has not come to `Busy.busy` when SIGINT
  arrives is not interrupted. A trigger that exits terminates its thread without
  recovery, and a second SIGINT kills all threads without recovery.
* Where open files can be deleted, `release` deletes the lock file of an entry
  that another process has just opened and is about to lock; a third one locks a
  new file, and both change the entry. `EntryIsCurrent` without `~deletable`, three
  processes and one machine. When both delete, the second does not find the
  file and its process ends with an error.
* A process killed between the truncation of the index file and the write leaves
  it empty; `unlocked_reload` then keeps what the next writer remembers, and that
  is what it writes. `OthersKept` without `whole`.
* Of no consequence as the program is: `JobAck` clears `AssignTime` in the message
  of a job it moves back to the queue, but `softDecode` skips unset fields and
  the row keeps the old time, which nothing reads; and `Buffer.Reader` with a
  positive limit may return more than the limit, while the server only asks for
  the whole backlog.

## 11. Not modelled

The repository's implementation is large and most of it has no behaviour of the
kind a model checker is for. About a third is generated (`server.pb.go`,
`server_grpc.pb.go`, `bindata_ui.go`): message types, stubs and an embedded user
interface. Much of the rest translates one structure into another, sequentially:
records and decoding (`state/*.go`), the core objects, flags and the Vagrantfile
representation (`internal/core`, `internal/flags`), configuration in HCL and
Ruby, providers, guests, downloads, the command line. The plugin manager starts
processes and passes calls on. So the modules map a small share of the lines,
those in which order, time and failure matter.

In `JobStream`: a `CancelJob` call of the interrupted client that fails, which
leaves its job to the runner's stream and to the expiry; and the download of the
job's data, which is part of `Execute`, since it ends with `err` in the same way.

The configuration store (`state/config.go`) merges rows by scope, but nothing in
the program writes to it, and its tests are commented out.

What a further module could take up: two servers on one database with two sets
of timers; terminal output from `accept` through `LogBuffer` to `GetJobStream`,
which does not drain it when the job ends; the Call middleware, with Wardens
inside Wardens; disk errors in the handlers of `JobQueue`.

## 12. Running the checks

    tlc -config JobQueue_jobs.cfg MCJobQueue.tla
    tlc -config JobStream_streams.cfg MCJobStream.tla
    tlc -config BatchAction_batch.cfg MCBatchAction.tla
    tlapm JobQueueProofs.tla

`PROJECT.json` lists every run with its module and configuration. Next to a
definition stands, where there is one, a variant marked "Defect": the same
operation with a plausible mistake, with which the property named in
`PROJECT.json` fails.
