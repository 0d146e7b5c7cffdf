------------------------------- MODULE LogBuffer -------------------------------
(***************************************************************************)
(* The output buffer of a job: internal/server/logbuffer/logbuffer.go.     *)
(*                                                                         *)
(* RunnerJobStream writes the terminal output of a running job into the    *)
(* buffer; every GetJobStream reads it through a Reader of its own.  The   *)
(* entries live in chunks, and b.chunks is a window of ChunkCount of them; *)
(* when the last chunk is full a new window replaces it, and readers keep  *)
(* the old one.  A reader loads the size of its chunk without the lock and *)
(* takes it only to sleep on the condition variable.                       *)
(*                                                                         *)
(* A step is what happens between two points where another goroutine can   *)
(* interfere: an atomic load, taking the lock, releasing it.               *)
(***************************************************************************)
EXTENDS Integers, Sequences

CONSTANTS
    Readers,      \* the readers that may be opened
    ChunkCount,   \* chunkCount: chunks in a window
    ChunkSize,    \* chunkSize: entries in a chunk
    History,      \* the arguments of Buffer.Reader; negative: everything
    MaxRead,      \* the argument "max" of Reader.Read
    MaxBatch,     \* bound: entries in one Write
    MaxEntries    \* bound: entries written in all

ASSUME SizeAssumption ==
    /\ {ChunkCount, ChunkSize, MaxRead, MaxBatch} \subseteq Nat \ {0}
    /\ MaxEntries \in Nat
    /\ History \subseteq Int

Chunks == 0 .. ChunkCount - 1
WindowSize == ChunkCount * ChunkSize
Windows == {w \in 0 .. MaxEntries : w * WindowSize <= MaxEntries}
Entries == 1 .. MaxEntries

VARIABLES
    chunk,       \* the entries of each chunk of each window
    window,      \* the window b.chunks is
    current,     \* b.current
    written,     \* how many entries have been written: the last entry's number
    writing,     \* a Write holds the lock
    pending,     \* how many of its entries are still to be written
    registered,  \* b.readers
    phase,       \* where each reader is
    at,          \* the window and the chunk each reader reads
    cursor,      \* and the next entry of the chunk
    closed,      \* Reader.closed
    closing,     \* Reader.Close has yet to broadcast
    got          \* the entries each reader has returned

buffer == <<chunk, window, current, written>>
lock == <<writing, pending>>
place == <<at, cursor, got>>
vars == <<buffer, lock, registered, phase, place, closed, closing>>

\* "loaded": Read has loaded the size, found nothing and is to block.
\* "asleep", "woken": inside cond.Wait.  "turning": Read is about to fetch the
\* next window.
Phases == {"none", "idle", "loaded", "asleep", "woken", "turning"}

TypeOK ==
    /\ chunk \in [Windows -> [Chunks -> Seq(Entries)]]
    /\ \A w \in Windows, c \in Chunks : Len(chunk[w][c]) <= ChunkSize
    /\ window \in Windows
    /\ current \in Chunks
    /\ written \in 0 .. MaxEntries
    /\ writing \in BOOLEAN
    /\ pending \in 0 .. MaxBatch
    /\ registered \in SUBSET Readers
    /\ phase \in [Readers -> Phases]
    /\ at \in [Readers -> [window : Windows, chunk : Chunks]]
    /\ cursor \in [Readers -> 0 .. MaxEntries]
    /\ closed \in [Readers -> BOOLEAN]
    /\ closing \in [Readers -> BOOLEAN]
    /\ got \in [Readers -> Seq(Entries)]

Init ==
    /\ chunk = [w \in Windows |-> [c \in Chunks |-> <<>>]]
    /\ window = 0
    /\ current = 0
    /\ written = 0
    /\ writing = FALSE
    /\ pending = 0
    /\ registered = {}
    /\ phase = [r \in Readers |-> "none"]
    /\ at = [r \in Readers |-> [window |-> 0, chunk |-> 0]]
    /\ cursor = [r \in Readers |-> 0]
    /\ closed = [r \in Readers |-> FALSE]
    /\ closing = [r \in Readers |-> FALSE]
    /\ got = [r \in Readers |-> <<>>]
-------------------------------------------------------------------------------
Least(m, n) == IF m < n THEN m ELSE n

\* chunk.atEnd, which chunk.full asks of the write position.
atEnd(n) == n > 0 /\ n >= ChunkSize

size(w, c) == Len(chunk[w][c])

\* cond.Broadcast
Broadcast == phase' = [r \in Readers |-> IF phase[r] = "asleep" THEN "woken" ELSE phase[r]]
-------------------------------------------------------------------------------
(* Writing.                                                                *)

WriteBegin(n) ==
    /\ ~writing
    /\ written + n <= MaxEntries
    /\ writing' = TRUE
    /\ pending' = n
    /\ UNCHANGED <<buffer, registered, phase, place, closed, closing>>

\* One round of the loop in Write: chunk.write, then the next chunk or the
\* next window when it is full.
Write ==
    LET n == Least(pending, ChunkSize - size(window, current))
        last == atEnd(size(window, current) + n)
    IN  /\ writing
        /\ pending > 0
        /\ chunk' = [chunk EXCEPT ![window][current] = @ \o [i \in 1 .. n |-> written + i]]
        /\ written' = written + n
        /\ pending' = pending - n
        /\ current' = IF last THEN (current + 1) % ChunkCount ELSE current
        /\ window' = IF last /\ current = ChunkCount - 1 THEN window + 1 ELSE window
        /\ UNCHANGED <<writing, registered, phase, place, closed, closing>>

\* Defect: sleeping readers are not told.
WriteEndSilently ==
    /\ writing
    /\ pending = 0
    /\ writing' = FALSE
    /\ UNCHANGED <<phase, pending, buffer, registered, place, closed, closing>>

WriteEnd ==
    /\ writing
    /\ pending = 0
    /\ Broadcast
    /\ writing' = FALSE
    /\ UNCHANGED <<pending, buffer, registered, place, closed, closing>>
-------------------------------------------------------------------------------
(* Opening a reader.                                                       *)

\* How many entries the window holds: the chunks before the current one are
\* full.
backlog == current * ChunkSize + size(window, current)

\* Where a reader of at most m old entries starts.  The loop over the chunks
\* goes on after the limit is passed, so the chunk is the first one and the
\* cursor counts from its start, however many chunks there are.
Start(m) ==
    CASE m = 0 -> [chunk |-> current, cursor |-> size(window, current)]
      [] m > 0 /\ backlog > m -> [chunk |-> 0, cursor |-> backlog - m]
      [] OTHER -> [chunk |-> 0, cursor |-> 0]

Reader(r, m) ==
    /\ phase[r] = "none"
    /\ ~writing
    /\ phase' = [phase EXCEPT ![r] = "idle"]
    /\ at' = [at EXCEPT ![r] = [window |-> window, chunk |-> Start(m).chunk]]
    /\ cursor' = [cursor EXCEPT ![r] = Start(m).cursor]
    /\ registered' = registered \cup {r}
    /\ UNCHANGED <<buffer, lock, got, closed, closing>>
-------------------------------------------------------------------------------
(* Reading.                                                                *)

Here(r) == chunk[at[r].window][at[r].chunk]

Available(r) == Len(Here(r)) > cursor[r]

\* Read is done with its chunk up to n: at the end of the chunk it goes to the
\* next, and after the last it needs the lock to get the next window.
Advance(r, n) ==
    IF ~atEnd(n)
      THEN /\ cursor' = [cursor EXCEPT ![r] = n]
           /\ phase' = [phase EXCEPT ![r] = "idle"]
           /\ UNCHANGED at
      ELSE /\ cursor' = [cursor EXCEPT ![r] = 0]
           /\ IF at[r].chunk = ChunkCount - 1
                THEN phase' = [phase EXCEPT ![r] = "turning"] /\ UNCHANGED at
                ELSE /\ phase' = [phase EXCEPT ![r] = "idle"]
                     /\ at' = [at EXCEPT ![r].chunk = @ + 1]

\* Defect: the cursor moves past entries that did not fit in the batch.
ReturnShort(r) ==
    LET n == Least(Len(Here(r)), cursor[r] + MaxRead)
    IN  /\ got' = [got EXCEPT ![r] = @ \o SubSeq(Here(r), cursor[r] + 1, n)]
        /\ Advance(r, Len(Here(r)))

\* At most MaxRead of the entries there are.
Return(r) ==
    LET n == Least(Len(Here(r)), cursor[r] + MaxRead)
    IN  /\ got' = [got EXCEPT ![r] = @ \o SubSeq(Here(r), cursor[r] + 1, n)]
        /\ Advance(r, n)

\* Read finds entries and returns them without taking the lock.
ReadSome(r) ==
    /\ phase[r] = "idle"
    /\ ~closed[r]
    /\ Available(r)
    /\ Return(r)
    /\ UNCHANGED <<buffer, lock, registered, closed, closing>>

\* Nothing to read: a cursor at the end moves on and returns nothing, ...
ReadNone(r) ==
    /\ phase[r] = "idle"
    /\ ~closed[r]
    /\ ~Available(r)
    /\ atEnd(cursor[r])
    /\ Advance(r, cursor[r])
    /\ UNCHANGED <<buffer, lock, registered, got, closed, closing>>

\* ... otherwise a blocking Read goes on to take the lock.  The size it loaded
\* is the one it tests again before it sleeps.
ReadBlock(r) ==
    /\ phase[r] = "idle"
    /\ ~closed[r]
    /\ ~Available(r)
    /\ ~atEnd(cursor[r])
    /\ phase' = [phase EXCEPT ![r] = "loaded"]
    /\ UNCHANGED <<buffer, lock, registered, place, closed, closing>>

Sleep(r) ==
    /\ phase[r] = "loaded"
    /\ ~writing
    /\ phase' = [phase EXCEPT ![r] = "asleep"]
    /\ UNCHANGED <<buffer, lock, registered, place, closed, closing>>

\* cond.Wait returns, with the lock.
Wake(r) ==
    /\ phase[r] = "woken"
    /\ ~writing
    /\ \/ /\ closed[r]
          /\ phase' = [phase EXCEPT ![r] = "idle"]
          /\ UNCHANGED place
       \/ ~closed[r] /\ Available(r) /\ Return(r)
       \/ /\ ~closed[r]
          /\ ~Available(r)
          /\ phase' = [phase EXCEPT ![r] = "asleep"]
          /\ UNCHANGED place
    /\ UNCHANGED <<buffer, lock, registered, closed, closing>>

\* r.b.Reader(-1): the reader continues at the start of the window of the
\* moment.  (The reader that call registers is dropped at once; nobody reads
\* it.)
Turn(r) ==
    /\ phase[r] = "turning"
    /\ ~writing
    /\ phase' = [phase EXCEPT ![r] = "idle"]
    /\ at' = [at EXCEPT ![r] = [window |-> window, chunk |-> 0]]
    /\ UNCHANGED <<buffer, lock, registered, cursor, got, closed, closing>>
-------------------------------------------------------------------------------
(* Closing.                                                                *)

\* Reader.Close sets the flag first ...
Close(r) ==
    /\ phase[r] # "none"
    /\ ~closed[r]
    /\ closed' = [closed EXCEPT ![r] = TRUE]
    /\ closing' = [closing EXCEPT ![r] = TRUE]
    /\ UNCHANGED <<buffer, lock, registered, phase, place>>

\* Defect: sleeping readers are not told.
CloseSilently(r) ==
    /\ closing[r]
    /\ ~writing
    /\ registered' = registered \ {r}
    /\ closing' = [closing EXCEPT ![r] = FALSE]
    /\ UNCHANGED <<buffer, lock, phase, place, closed>>

\* ... then takes the lock to leave b.readers, and broadcasts.
CloseEnd(r) ==
    /\ closing[r]
    /\ ~writing
    /\ registered' = registered \ {r}
    /\ closing' = [closing EXCEPT ![r] = FALSE]
    /\ Broadcast
    /\ UNCHANGED <<buffer, lock, place, closed>>
-------------------------------------------------------------------------------
Next ==
    \/ \E n \in 1 .. MaxBatch : WriteBegin(n)
    \/ Write
    \/ WriteEnd
    \/ \E r \in Readers :
         \/ \E m \in History : Reader(r, m)
         \/ ReadSome(r) \/ ReadNone(r) \/ ReadBlock(r)
         \/ Sleep(r) \/ Wake(r) \/ Turn(r)
         \/ Close(r) \/ CloseEnd(r)

Spec == Init /\ [][Next]_vars

(***************************************************************************)
(* A call that has begun goes on when it can: the Go scheduler runs it, and *)
(* a mutex is not held from it for ever.  Nobody has to call anything.      *)
(***************************************************************************)
Fairness ==
    /\ WF_vars(Write)
    /\ WF_vars(WriteEnd)
    /\ \A r \in Readers :
         WF_vars(Sleep(r)) /\ WF_vars(Wake(r)) /\ WF_vars(Turn(r)) /\ WF_vars(CloseEnd(r))

FairSpec == Spec /\ Fairness
-------------------------------------------------------------------------------
(* Properties.                                                             *)

FirstOfWindow(e) == \E w \in Windows : e = w * WindowSize + 1

\* A reader gets the entries once, in order and without a gap, whatever is
\* written while it reads without the lock.  Only after the last entry of a
\* window may it jump, to the first entry of a later one ("If a reader falls
\* behind a writer significantly, then the next read may jump forward").
InOrder == \A r \in Readers : \A i \in 1 .. Len(got[r]) - 1 :
    \/ got[r][i + 1] = got[r][i] + 1
    \/ /\ got[r][i + 1] > got[r][i]
       /\ FirstOfWindow(got[r][i] + 1)
       /\ FirstOfWindow(got[r][i + 1])

\* A reader that sleeps while an entry is written gets it, or was closed: the
\* write wakes it (Write, chunk.read).
WriteReachesSleepers == \A r \in Readers : \A n \in 0 .. MaxEntries :
    (phase[r] = "asleep" /\ writing /\ Len(got[r]) = n) ~> (Len(got[r]) > n \/ closed[r])

\* A Read that is asleep when its reader is closed returns (Reader.Close:
\* "immediately unblock any currently blocked Reads").
CloseReachesSleepers == \A r \in Readers :
    (closing[r] /\ phase[r] = "asleep") ~> phase[r] = "idle"

\* chunk.read: "If any values are available, this will return up to max amount
\* immediately".  A write between the load of the size and the lock is missed,
\* and the reader sleeps on entries that are there.
NoSleepOnEntries == \A r \in Readers :
    phase[r] = "asleep" /\ ~writing => ~Available(r)

\* Reader.Close: "This will also immediately unblock any currently blocked
\* Reads".  A Read that has not reached cond.Wait yet misses the broadcast.
CloseUnblocks == \A r \in Readers : closed[r] ~> phase[r] \notin {"loaded", "asleep", "woken"}
===============================================================================
