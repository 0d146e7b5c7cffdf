-------------------------- MODULE MachineIndexProofs --------------------------
(***************************************************************************)
(* Theorems about MachineIndex, for any processes, machines, lock files    *)
(* and numbers of writes and crashes: that processes do not undo what      *)
(* others have written.                                                    *)
(***************************************************************************)
EXTENDS MachineIndex, FiniteSetTheorems, TLAPS

\* What is known of an operation where it is.  get, delete and set begin with
\* an entry; a process has its lock file open from Open to Close.
CallAt(p) ==
    /\ at[p] # "idle" /\ op[p] \in {"look", "update", "destroy"} => got[p] # Absent
    /\ at[p] \in {"saving", "writing"} => op[p] # "look"
    /\ at[p] = "writing" /\ op[p] = "destroy" => machines[p][machine[p]] = Absent
    /\ at[p] \in {"idle", "opening", "deleting"} => file[p] = None
    /\ at[p] = "flocking" => file[p] # None
    /\ at[p] \in {"got", "saving", "writing", "closing"} <=> held[p]

\* Every operation that is to write has its write kept for it.
TypeInv ==
    /\ TypeOK
    /\ \A p \in Process : CallAt(p)
    /\ writes + Cardinality(Pending) <= MaxWrites

-------------------------------------------------------------------------------
\* What a process loads is an index.
LEMMA Loading ==
    ASSUME TypeOK, NEW p \in Process
    PROVE  /\ Loaded(p) \in Entries /\ NoEntries \in Entries /\ AnyMachine \in Machine
           /\ \A n \in Machine : Loaded(p)[n] \in 0 .. MaxWrites
           /\ None \notin Process
           /\ IsFiniteSet(Pending) /\ Cardinality(Pending) \in Nat
<1>1. Loaded(p) \in Entries
  BY DEF TypeOK, Loaded
<1>2. NoEntries \in Entries
  BY BoundsAssumption DEF NoEntries, Entries, Absent
<1>3. AnyMachine \in Machine
  BY SetsAssumption DEF AnyMachine
<1>4. IsFiniteSet(Pending) /\ Cardinality(Pending) \in Nat
  <2>1. Pending \in SUBSET Process
    BY DEF Pending
  <2>2. QED BY <2>1, SetsAssumption, FS_Subset, FS_CardinalityType
<1>5. QED BY <1>1, <1>2, <1>3, <1>4, SetsAssumption DEF Entries

\* A set of pending operations that does not grow keeps its writes.
LEMMA PendingShrinks ==
    ASSUME TypeOK, writes + Cardinality(Pending) <= MaxWrites,
           Pending' \subseteq Pending, writes' = writes
    PROVE  writes' + Cardinality(Pending') <= MaxWrites
<1>1. PICK p \in Process \cup {None} : TRUE
  OBVIOUS
<1>2. IsFiniteSet(Pending) /\ Cardinality(Pending) \in Nat
  <2>1. Pending \in SUBSET Process
    BY DEF Pending
  <2>2. QED BY <2>1, SetsAssumption, FS_Subset, FS_CardinalityType
<1>3. Cardinality(Pending') <= Cardinality(Pending) /\ Cardinality(Pending') \in Nat
  BY <1>2, FS_Subset, FS_CardinalityType
<1>4. QED BY <1>2, <1>3, BoundsAssumption DEF TypeOK

\* The variables keep their types; the bound on the writes needs that they
\* are counted before they are made.
THEOREM TypeCorrect == Spec => [](TypeInv /\ TypeOK)
<1> USE DEF TypeInv, CallAt
<1>1. Init => TypeInv
  <2> SUFFICES ASSUME Init PROVE TypeInv
    OBVIOUS
  <2>1. NoEntries \in Entries /\ AnyMachine \in Machine /\ None \notin Process
    BY BoundsAssumption, SetsAssumption DEF NoEntries, Entries, Absent, AnyMachine
  <2>2. 0 \in 0 .. MaxWrites /\ 0 \in 0 .. MaxCrashes /\ 0 + 0 <= MaxWrites
    BY BoundsAssumption
  <2>3. TypeOK
    <3>1. deletable \in BOOLEAN /\ torn \in BOOLEAN /\ whole \in BOOLEAN
      BY Zenon DEF Init
    <3>2. held \in [Process -> BOOLEAN] /\ \A p \in Process : ~held[p]
      BY DEF Init
    <3>3. op \in [Process -> Operations]
      BY DEF Init, Operations
    <3>4. at \in [Process -> {"idle", "opening", "flocking", "got", "saving",
                              "writing", "closing", "deleting"}]
      BY DEF Init
    <3>5. QED BY <2>1, <2>2, <3>1, <3>2, <3>3, <3>4 DEF Init, TypeOK, Absent
  <2>4. Cardinality(Pending) = 0
    <3>1. Pending = {}
      BY DEF Init, Pending
    <3>2. QED BY <3>1, FS_EmptySet
  <2>5. \A p \in Process : CallAt(p)
    BY DEF Init
  <2>6. QED BY <2>2, <2>3, <2>4, <2>5 DEF Init
<1>2. TypeInv /\ [Next]_vars => TypeInv'
  <2> SUFFICES ASSUME TypeInv, [Next]_vars PROVE TypeInv'
    OBVIOUS
  <2> USE DEF TypeOK
  <2>1. CASE UNCHANGED vars
    BY <2>1 DEF vars, store, locks, Pending
  <2>2. ASSUME NEW p \in Process, Begin(p) PROVE TypeInv'
    <3>1. PICK o \in Operations, n \in Machine :
            LET found == Loaded(p)[n] # Absent
                goes == IF o \in {"look", "update", "destroy"} THEN found
                        ELSE o = "create" \/ ~found
            IN  /\ o # "look" => writes + Cardinality(Pending) < MaxWrites
                /\ IF goes
                   THEN /\ at' = [at EXCEPT ![p] = "opening"]
                        /\ op' = [op EXCEPT ![p] = o]
                        /\ machine' = [machine EXCEPT ![p] = n]
                        /\ got' = [got EXCEPT ![p] = Loaded(p)[n]]
                        /\ holder' = p
                   ELSE UNCHANGED <<call, holder>>
      BY <2>2 DEF Begin
    <3>2. /\ at[p] = "idle" /\ holder = None
          /\ machines' = [machines EXCEPT ![p] = Loaded(p)]
          /\ UNCHANGED <<deletable, index, torn, saved, whole, writes, path, file, held, crashes>>
      BY <2>2 DEF Begin, store, locks
    <3>3. CASE UNCHANGED <<call, holder>>
      <4>1. TypeOK' /\ \A q \in Process : CallAt(q)'
        BY <3>2, <3>3, Loading DEF call
      <4>2. Pending' = Pending
        BY <3>3 DEF Pending, call
      <4>3. QED BY <3>2, <4>1, <4>2
    <3>4. ASSUME /\ at' = [at EXCEPT ![p] = "opening"]
                 /\ op' = [op EXCEPT ![p] = o]
                 /\ machine' = [machine EXCEPT ![p] = n]
                 /\ got' = [got EXCEPT ![p] = Loaded(p)[n]]
                 /\ holder' = p
                 /\ o \in {"look", "update", "destroy"} => Loaded(p)[n] # Absent
                 /\ o # "look" => writes + Cardinality(Pending) < MaxWrites
          PROVE  TypeInv'
      <4>1. TypeOK'
        BY <3>2, <3>4, Loading
      <4>2. \A q \in Process : CallAt(q)'
        BY <3>2, <3>4, Loading
      <4>3. p \notin Pending
        BY <3>2 DEF Pending
      <4>4. CASE o = "look"
        <5>1. Pending' \subseteq Pending
          BY <3>4, <4>4 DEF Pending
        <5>2. QED BY <3>2, <4>1, <4>2, <5>1, PendingShrinks
      <4>5. CASE o # "look"
        <5>1. Pending' \subseteq Pending \cup {p}
          BY <3>4 DEF Pending
        <5>2. Cardinality(Pending') <= Cardinality(Pending) + 1 /\ Cardinality(Pending') \in Nat
          <6>1. /\ IsFiniteSet(Pending \cup {p})
                /\ Cardinality(Pending \cup {p}) = Cardinality(Pending) + 1
            BY <4>3, Loading, FS_AddElement
          <6>2. /\ IsFiniteSet(Pending')
                /\ Cardinality(Pending') <= Cardinality(Pending \cup {p})
            BY <5>1, <6>1, FS_Subset
          <6>3. QED BY <6>1, <6>2, FS_CardinalityType
        <5>3. writes' + Cardinality(Pending') <= MaxWrites
          BY <3>2, <3>4, <4>5, <5>2, Loading, BoundsAssumption
        <5>4. QED BY <4>1, <4>2, <5>3
      <4>6. QED BY <4>4, <4>5
    <3>5. QED BY <3>1, <3>3, <3>4
  <2>3. ASSUME NEW p \in Process, Open(p) PROVE TypeInv'
    <3>1. /\ at[p] = "opening"
          /\ at' = [at EXCEPT ![p] = "flocking"]
          /\ UNCHANGED <<deletable, store, holder, machines, op, machine, got, held, crashes>>
          /\ \E f \in File : file' = [file EXCEPT ![p] = f]
          /\ path' \in [Machine -> File \cup {None}]
      <4> DEFINE n == machine[p]
                 unused == {f \in File : f # path[n] /\ \A q \in Process : file[q] # f
                                                 /\ \A k \in Machine : path[k] # f}
      <4>1. CASE path[n] # None
        BY <2>3, <4>1 DEF Open, Goto
      <4>2. CASE path[n] = None
        <5>1. unused # {} /\ (CHOOSE f \in unused : TRUE) \in unused
          BY <2>3, <4>2 DEF Open
        <5>2. (CHOOSE f \in unused : TRUE) \in File
          BY <5>1
        <5>3. /\ file' = [file EXCEPT ![p] = CHOOSE f \in unused : TRUE]
              /\ path' = [path EXCEPT ![n] = file'[p]]
          BY <2>3, <4>2 DEF Open
        <5>4. file'[p] = CHOOSE f \in unused : TRUE
          BY <5>3
        <5> HIDE DEF unused
        <5>5. \E f \in File : file' = [file EXCEPT ![p] = f]
          BY <5>2, <5>3
        <5>6. path' \in [Machine -> File \cup {None}]
          BY <5>2, <5>3, <5>4
        <5>7. QED BY <2>3, <5>5, <5>6 DEF Open, Goto
      <4>3. QED BY <4>1, <4>2
    <3>2. TypeOK' /\ \A q \in Process : CallAt(q)'
      BY <3>1, SetsAssumption DEF store
    <3>3. Pending' \subseteq Pending /\ writes' = writes
      BY <3>1 DEF Pending, store
    <3>4. QED BY <3>2, <3>3, PendingShrinks
  <2>4. ASSUME NEW p \in Process, Flock(p) PROVE TypeInv'
    <3>1. TypeOK' /\ \A q \in Process : CallAt(q)'
      <4>1. CASE Locked(p)
        <5>1. /\ at[p] = "flocking" /\ holder' = None
              /\ file' = [file EXCEPT ![p] = None]
              /\ held' = [held EXCEPT ![p] = FALSE]
              /\ at' = [at EXCEPT ![p] = "idle"]
              /\ op' = [op EXCEPT ![p] = "look"]
              /\ machine' = [machine EXCEPT ![p] = AnyMachine]
              /\ got' = [got EXCEPT ![p] = Absent]
              /\ UNCHANGED <<deletable, store, machines, path, crashes>>
          BY <2>4, <4>1 DEF Flock, Drop, Done
        <5>2. TypeOK'
          BY <5>1, Loading, BoundsAssumption DEF store, Operations, Absent
        <5>3. \A q \in Process : CallAt(q)'
          BY <5>1
        <5>4. QED BY <5>2, <5>3
      <4>2. CASE ~Locked(p)
        <5>1. /\ at[p] = "flocking"
              /\ held' = [held EXCEPT ![p] = TRUE]
              /\ at' = [at EXCEPT ![p] = IF op[p] = "create" THEN "saving" ELSE "got"]
              /\ holder' = IF op[p] = "create" THEN p ELSE None
              /\ UNCHANGED <<deletable, store, machines, op, machine, got, path, file, crashes>>
          BY <2>4, <4>2 DEF Flock, Goto
        <5>2. holder = p /\ file[p] # None
          BY <5>1
        <5>3. TypeOK'
          <6>1. CASE op[p] = "create"
            BY <5>1, <5>2, <6>1, Loading DEF store
          <6>2. CASE op[p] # "create"
            BY <5>1, <5>2, <6>2, Loading DEF store
          <6>3. QED BY <6>1, <6>2
        <5>4. \A q \in Process : CallAt(q)'
          BY <5>1
        <5>5. QED BY <5>3, <5>4
      <4>3. QED BY <4>1, <4>2
    <3>2. Pending' \subseteq Pending /\ writes' = writes
      BY <2>4 DEF Flock, Pending, store, Done, Goto
    <3>3. QED BY <3>1, <3>2, PendingShrinks
  <2>5. ASSUME NEW p \in Process, Take(p) PROVE TypeInv'
    <3>1. TypeOK' /\ \A q \in Process : CallAt(q)'
      BY <2>5, Loading DEF Take, store, locks, Goto
    <3>2. Pending' \subseteq Pending /\ writes' = writes
      BY <2>5 DEF Take, Pending, store, Goto
    <3>3. QED BY <3>1, <3>2, PendingShrinks
  <2>6. ASSUME NEW p \in Process, Truncate(p) PROVE TypeInv'
    <3>1. p \in Pending
      BY <2>6 DEF Truncate, Pending
    <3>2. Pending' \subseteq Pending \ {p}
      BY <2>6 DEF Truncate, Pending, Goto
    <3>3. /\ IsFiniteSet(Pending \ {p})
          /\ Cardinality(Pending \ {p}) = Cardinality(Pending) - 1
          /\ Cardinality(Pending \ {p}) \in Nat
      BY <3>1, Loading, FS_RemoveElement, FS_CardinalityType
    <3>4. Cardinality(Pending') <= Cardinality(Pending \ {p}) /\ Cardinality(Pending') \in Nat
      BY <3>2, <3>3, FS_Subset, FS_CardinalityType
    <3>5. writes' = writes + 1 /\ writes' + Cardinality(Pending') <= MaxWrites /\ writes' \in 0 .. MaxWrites
      BY <2>6, <3>3, <3>4, Loading, BoundsAssumption DEF Truncate
    <3>6. machines' \in [Process -> Entries]
      BY <2>6, <3>5, BoundsAssumption DEF Truncate, Entries, Absent
    <3>7. TypeOK'
      BY <2>6, <3>5, <3>6 DEF Truncate, locks, Goto
    <3>8. \A q \in Process : CallAt(q)'
      BY <2>6 DEF Truncate, locks, Goto, Entries
    <3>9. QED BY <3>5, <3>7, <3>8
  <2>7. ASSUME NEW p \in Process, Write(p) PROVE TypeInv'
    <3>1. TypeOK' /\ \A q \in Process : CallAt(q)'
      BY <2>7, Loading DEF Write, locks, Goto
    <3>2. Pending' \subseteq Pending /\ writes' = writes
      BY <2>7 DEF Write, Pending, Goto
    <3>3. QED BY <3>1, <3>2, PendingShrinks
  <2>8. ASSUME NEW p \in Process, Leave(p) PROVE TypeInv'
    <3>1. TypeOK' /\ \A q \in Process : CallAt(q)'
      BY <2>8, Loading DEF Leave, store, locks, Goto
    <3>2. Pending' \subseteq Pending /\ writes' = writes
      BY <2>8 DEF Leave, Pending, store, Goto
    <3>3. QED BY <3>1, <3>2, PendingShrinks
  <2>9. ASSUME NEW p \in Process, Close(p) PROVE TypeInv'
    <3>1. TypeOK' /\ \A q \in Process : CallAt(q)'
      BY <2>9, Loading DEF Close, store, Goto, Drop
    <3>2. Pending' \subseteq Pending /\ writes' = writes
      BY <2>9 DEF Close, Pending, store, Goto
    <3>3. QED BY <3>1, <3>2, PendingShrinks
  <2>10. ASSUME NEW p \in Process, Unlink(p) PROVE TypeInv'
    <3>1. TypeOK' /\ \A q \in Process : CallAt(q)'
      <4>1. /\ at[p] = "deleting"
            /\ holder' = IF holder = p THEN None ELSE holder
            /\ at' = [at EXCEPT ![p] = "idle"]
            /\ op' = [op EXCEPT ![p] = "look"]
            /\ machine' = [machine EXCEPT ![p] = AnyMachine]
            /\ got' = [got EXCEPT ![p] = Absent]
            /\ UNCHANGED <<deletable, store, file, held, crashes>>
        BY <2>10 DEF Unlink, Done
      <4>2. machines' \in [Process -> Entries] /\ \A q \in Process : q # p => machines'[q] = machines[q]
        BY <2>10, Loading DEF Unlink
      <4>3. path' \in [Machine -> File \cup {None}]
        BY <2>10 DEF Unlink
      <4>4. TypeOK'
        <5>1. holder' \in Process \cup {None} /\ \A q \in Process : holder' = q => holder = q /\ q # p
          BY <4>1, Loading
        <5>2. 0 \in 0 .. MaxWrites /\ "look" \in Operations
          BY BoundsAssumption DEF Operations
        <5>3. QED BY <4>1, <4>2, <4>3, <5>1, <5>2, Loading DEF store, Absent
      <4>5. \A q \in Process : CallAt(q)'
        BY <4>1, <4>2
      <4>6. QED BY <4>4, <4>5
    <3>2. Pending' \subseteq Pending /\ writes' = writes
      BY <2>10 DEF Unlink, Pending, store, Done
    <3>3. QED BY <3>1, <3>2, PendingShrinks
  <2>11. ASSUME NEW p \in Process, Crash(p) PROVE TypeInv'
    <3>1. TypeOK' /\ \A q \in Process : CallAt(q)'
      BY <2>11, Loading, BoundsAssumption DEF Crash, Done, Drop, Operations, Absent
    <3>2. Pending' \subseteq Pending /\ writes' = writes
      BY <2>11 DEF Crash, Pending, Done
    <3>3. QED BY <3>1, <3>2, PendingShrinks
  <2>12. QED BY <2>1, <2>2, <2>3, <2>4, <2>5, <2>6, <2>7, <2>8, <2>9, <2>10, <2>11
         DEF Next, Step
<1>3. QED BY <1>1, <1>2, PTL DEF Spec, TypeInv
-------------------------------------------------------------------------------
(* The locks of the entries.                                               *)

\* A lock file is locked by one process, and where open files cannot be
\* deleted the one a process has open is the one that has the name.
LockInv ==
    /\ \A p, q \in Process : held[p] /\ held[q] /\ file[p] = file[q] => p = q
    /\ ~deletable => \A p \in Process : file[p] # None => path[machine[p]] = file[p]

\* A process that takes an entry's lock is the only one to have it.
LEMMA LockInvariant == Spec => []LockInv
<1> USE DEF LockInv
<1>1. Init => LockInv
  BY DEF Init
<1>2. TypeInv /\ LockInv /\ [Next]_vars => LockInv'
  <2> SUFFICES ASSUME TypeInv, LockInv, [Next]_vars PROVE LockInv'
    OBVIOUS
  <2> USE DEF TypeInv, TypeOK, CallAt
  <2>1. CASE UNCHANGED vars
    BY <2>1 DEF vars, locks
  <2>2. ASSUME NEW p \in Process, Begin(p) PROVE LockInv'
    <3>1. /\ UNCHANGED <<deletable, path, file, held>> /\ file[p] = None
          /\ \A q \in Process : q # p => machine'[q] = machine[q]
      BY <2>2 DEF Begin, locks, call
    <3>2. QED BY <3>1
  <2>3. ASSUME NEW p \in Process, Open(p) PROVE LockInv'
    <3> DEFINE n == machine[p]
               unused == {f \in File : f # path[n] /\ \A q \in Process : file[q] # f
                                               /\ \A k \in Machine : path[k] # f}
    <3>1. at[p] = "opening" /\ ~held[p] /\ file[p] = None
          /\ UNCHANGED <<deletable, held, machine>>
      BY <2>3 DEF Open, Goto
    <3>2. CASE path[n] # None
      <4>1. file' = [file EXCEPT ![p] = path[n]] /\ path' = path
        BY <2>3, <3>2 DEF Open
      <4>2. QED BY <3>1, <4>1
    <3>3. CASE path[n] = None
      <4>1. PICK f \in File : file' = [file EXCEPT ![p] = f] /\ path' = [path EXCEPT ![n] = f]
        <5>1. unused # {} /\ (CHOOSE f \in unused : TRUE) \in unused
          BY <2>3, <3>3 DEF Open
        <5>2. /\ file' = [file EXCEPT ![p] = CHOOSE f \in unused : TRUE]
              /\ path' = [path EXCEPT ![n] = file'[p]]
          BY <2>3, <3>3 DEF Open
        <5>3. file'[p] = (CHOOSE f \in unused : TRUE) /\ (CHOOSE f \in unused : TRUE) \in File
          BY <5>1, <5>2
        <5> HIDE DEF unused
        <5>4. QED BY <5>2, <5>3
      <4>2. ~deletable => \A q \in Process : machine[q] = n => file[q] = None
        BY <3>3
      <4>3. QED BY <3>1, <4>1, <4>2
    <3>4. QED BY <3>2, <3>3
  <2>4. ASSUME NEW p \in Process, Flock(p) PROVE LockInv'
    <3>1. CASE Locked(p)
      <4>1. /\ file' = [file EXCEPT ![p] = None] /\ held' = [held EXCEPT ![p] = FALSE]
            /\ UNCHANGED <<deletable, path>>
            /\ \A q \in Process : q # p => machine'[q] = machine[q]
        BY <2>4, <3>1 DEF Flock, Drop, Done
      <4>2. QED BY <4>1
    <3>2. CASE ~Locked(p)
      <4>1. /\ held' = [held EXCEPT ![p] = TRUE]
            /\ UNCHANGED <<deletable, path, file, machine>>
        BY <2>4, <3>2 DEF Flock, Goto
      <4>2. \A q \in Process : held[q] => file[q] # file[p]
        BY <3>2 DEF Locked
      <4>3. QED BY <4>1, <4>2
    <3>3. QED BY <3>1, <3>2
  <2>5. ASSUME NEW p \in Process, Take(p) \/ Truncate(p) \/ Write(p) \/ Leave(p) PROVE LockInv'
    BY <2>5 DEF Take, Truncate, Write, Leave, locks, Goto
  <2>6. ASSUME NEW p \in Process, Close(p) PROVE LockInv'
    BY <2>6 DEF Close, Drop, Goto
  <2>7. ASSUME NEW p \in Process, Unlink(p) PROVE LockInv'
    <3>1. /\ UNCHANGED <<deletable, file, held>> /\ file[p] = None
          /\ \A q \in Process : q # p => machine'[q] = machine[q]
          /\ \A k \in Machine : k # machine[p] => path'[k] = path[k]
          /\ ~deletable /\ (\E q \in Process : file[q] # None /\ file[q] = path[machine[p]])
               => path'[machine[p]] = path[machine[p]]
      BY <2>7 DEF Unlink, Done
    <3>2. QED BY <3>1
  <2>8. ASSUME NEW p \in Process, Crash(p) PROVE LockInv'
    <3>1. /\ file' = [file EXCEPT ![p] = None] /\ held' = [held EXCEPT ![p] = FALSE]
          /\ UNCHANGED <<deletable, path>>
          /\ \A q \in Process : q # p => machine'[q] = machine[q]
      BY <2>8 DEF Crash, Drop, Done
    <3>2. QED BY <3>1
  <2>9. QED BY <2>1, <2>2, <2>3, <2>4, <2>5, <2>6, <2>7, <2>8 DEF Next, Step
<1>3. QED BY <1>1, <1>2, TypeCorrect, PTL DEF Spec

-------------------------------------------------------------------------------
(* What the processes know of the index.                                   *)

\* Unless a write was cut short: the file is empty only while it is written,
\* and who holds the index lock has loaded what is in it.
LoadedAt(p) ==
    /\ at[p] \in {"opening", "flocking", "saving"} => machines[p] = index
    /\ at[p] = "writing" => \A n \in Machine \ {machine[p]} : machines[p][n] = index[n]

\* The entry that get returned is in the index until it is written.
GotAt(p) ==
    at[p] \in {"opening", "flocking", "got", "saving", "writing"} =>
        index[machine[p]] = got[p]

Current ==
    /\ index = saved
    /\ whole =>
        /\ torn => \E p \in Process : at[p] = "writing"
        /\ \A p \in Process : LoadedAt(p)
        /\ ~deletable => \A p \in Process : GotAt(p)

\* The index lock orders reading and writing of the file, and the entry's
\* lock covers what happens between them.
LEMMA CurrentInvariant == Spec => []Current
<1> USE DEF Current, LoadedAt, GotAt
<1>1. Init => Current
  BY DEF Init
<1>2. TypeInv /\ LockInv /\ Current /\ [Next]_vars => Current'
  <2> SUFFICES ASSUME TypeInv, LockInv, Current, [Next]_vars PROVE Current'
    OBVIOUS
  <2> USE DEF TypeInv, TypeOK, CallAt
  <2>0. None \notin Process
    BY SetsAssumption
  <2>1. CASE UNCHANGED vars
    BY <2>1 DEF vars, store
  <2>2. ASSUME NEW p \in Process, holder = None, whole PROVE Loaded(p) = index
    BY <2>0, <2>2 DEF Loaded
  <2>3. ASSUME NEW p \in Process, Begin(p) PROVE Current'
    <3>1. /\ holder = None /\ at[p] = "idle"
          /\ UNCHANGED <<deletable, index, torn, saved, whole>>
          /\ machines' = [machines EXCEPT ![p] = Loaded(p)]
          /\ at' = at \/ at' = [at EXCEPT ![p] = "opening"]
          /\ \A q \in Process : q # p => machine'[q] = machine[q] /\ got'[q] = got[q]
          /\ at'[p] # "idle" => got'[p] = Loaded(p)[machine'[p]]
      BY <2>3 DEF Begin, store, call
    <3>2. CASE ~whole
      BY <3>1, <3>2
    <3>3. CASE whole
      BY <2>0, <2>2, <3>1, <3>3
    <3>4. QED BY <3>2, <3>3
  <2>4. ASSUME NEW p \in Process, Open(p) PROVE Current'
    BY <2>4 DEF Open, store, Goto
  <2>5. ASSUME NEW p \in Process, Flock(p) PROVE Current'
    <3>1. CASE Locked(p)
      <4>1. /\ UNCHANGED <<deletable, index, torn, saved, whole, machines>>
            /\ at[p] = "flocking" /\ at' = [at EXCEPT ![p] = "idle"]
            /\ \A q \in Process : q # p => machine'[q] = machine[q] /\ got'[q] = got[q]
        BY <2>5, <3>1 DEF Flock, Drop, Done, store
      <4>2. QED BY <4>1
    <3>2. CASE ~Locked(p)
      <4>1. /\ UNCHANGED <<deletable, index, torn, saved, whole, machines, machine, got>>
            /\ at[p] = "flocking"
            /\ at' = [at EXCEPT ![p] = IF op[p] = "create" THEN "saving" ELSE "got"]
        BY <2>5, <3>2 DEF Flock, Goto, store
      <4>2. QED BY <4>1
    <3>3. QED BY <3>1, <3>2
  <2>6. ASSUME NEW p \in Process, Take(p) PROVE Current'
    <3>1. /\ holder = None /\ at[p] = "got" /\ at' = [at EXCEPT ![p] = "saving"]
          /\ UNCHANGED <<deletable, index, torn, saved, whole, machine, got>>
          /\ machines' = [machines EXCEPT ![p] = Loaded(p)]
      BY <2>6 DEF Take, store, Goto
    <3>2. QED BY <2>0, <2>2, <3>1
  <2>7. ASSUME NEW p \in Process, Truncate(p) PROVE Current'
    <3>1. /\ at[p] = "saving" /\ at' = [at EXCEPT ![p] = "writing"]
          /\ UNCHANGED <<deletable, index, saved, whole, machine, got>>
          /\ \A q \in Process : q # p => machines'[q] = machines[q]
          /\ \A n \in Machine \ {machine[p]} : machines'[p][n] = machines[p][n]
      BY <2>7 DEF Truncate, Goto, Entries
    <3>2. QED BY <3>1
  <2>8. ASSUME NEW p \in Process, Write(p) PROVE Current'
    <3>1. /\ at[p] = "writing" /\ at' = [at EXCEPT ![p] = "closing"]
          /\ index' = machines[p] /\ saved' = machines[p] /\ torn' = FALSE
          /\ UNCHANGED <<deletable, whole, machines, machine, got>>
      BY <2>8 DEF Write, Goto
    <3>2. ASSUME NEW q \in Process, q # p PROVE at[q] \notin {"opening", "flocking", "saving", "writing"}
      BY <3>1, <3>2
    <3>3. ASSUME whole, ~deletable, NEW q \in Process, q # p, at[q] = "got"
          PROVE  index'[machine[q]] = got[q]
      <4>1. machine[q] # machine[p]
        BY <3>1, <3>3 DEF LockInv
      <4>2. QED BY <3>1, <3>3, <4>1
    <3>4. QED BY <3>1, <3>2, <3>3
  <2>9. ASSUME NEW p \in Process, Leave(p) \/ Close(p) PROVE Current'
    BY <2>9 DEF Leave, Close, store, Goto
  <2>10. ASSUME NEW p \in Process, Unlink(p) PROVE Current'
    <3>1. /\ UNCHANGED <<deletable, index, torn, saved, whole>>
          /\ at[p] = "deleting" /\ at' = [at EXCEPT ![p] = "idle"]
          /\ \A q \in Process : q # p =>
               machine'[q] = machine[q] /\ got'[q] = got[q] /\ machines'[q] = machines[q]
      BY <2>10 DEF Unlink, Done, store
    <3>2. QED BY <3>1
  <2>11. ASSUME NEW p \in Process, Crash(p) PROVE Current'
    <3>1. /\ UNCHANGED <<deletable, index, torn, saved>>
          /\ at' = [at EXCEPT ![p] = "idle"]
          /\ whole' => whole /\ at[p] # "writing"
          /\ \A q \in Process : q # p =>
               machine'[q] = machine[q] /\ got'[q] = got[q] /\ machines'[q] = machines[q]
      BY <2>11 DEF Crash, Done
    <3>2. QED BY <3>1
  <2>12. QED BY <2>1, <2>3, <2>4, <2>5, <2>6, <2>7, <2>8, <2>9, <2>10, <2>11 DEF Next, Step
<1>3. QED BY <1>1, <1>2, TypeCorrect, LockInvariant, PTL DEF Spec

-------------------------------------------------------------------------------
(* The theorems.                                                           *)

\* A process that writes the index changes the entry of its own machine and
\* leaves every other as it was last written.
THEOREM OthersAreKept == Spec => OthersKept
<1>1. Current /\ [Next]_vars =>
        [\A p \in Process : Write(p) /\ whole =>
           \A n \in Machine \ {machine[p]} : index'[n] = saved[n]]_vars
  BY DEF Current, LoadedAt, Write
<1>2. QED BY <1>1, CurrentInvariant, PTL DEF Spec, OthersKept

\* The lock of an entry holds from get to set or delete.
THEOREM EntryStaysCurrent == Spec => []EntryIsCurrent
<1>1. Current => EntryIsCurrent
  BY DEF Current, LoadedAt, GotAt, EntryIsCurrent
<1>2. QED BY <1>1, CurrentInvariant, PTL

\* No update brings back an entry that somebody has deleted.
THEOREM DeletedStaysGone == Spec => DeletedIsGone
<1>1. TypeInv /\ Current /\ [Next]_vars =>
        [\A n \in Machine :
           ~deletable /\ whole /\ index[n] = Absent /\ index'[n] # Absent =>
             \E p \in Process : machine[p] = n /\ op[p] \in {"create", "recover"}]_vars
  <2> SUFFICES ASSUME TypeInv, Current, Next, NEW n \in Machine,
                      ~deletable, whole, index[n] = Absent, index'[n] # Absent
               PROVE  \E p \in Process : machine[p] = n /\ op[p] \in {"create", "recover"}
    OBVIOUS
  <2>1. PICK p \in Process : Write(p)
    BY DEF Next, Begin, Step, Open, Flock, Take, Truncate, Leave, Close, Unlink, Crash, store
  <2>2. at[p] = "writing" /\ index' = machines[p]
    BY <2>1 DEF Write
  <2>3. machine[p] = n
    BY <2>2 DEF Current, LoadedAt
  <2>4. got[p] = Absent /\ machines[p][machine[p]] # Absent
    BY <2>2, <2>3 DEF Current, GotAt
  <2>5. op[p] \in {"create", "recover"}
    BY <2>2, <2>4 DEF TypeInv, CallAt, TypeOK, Operations
  <2>6. QED BY <2>3, <2>5
<1>2. QED BY <1>1, TypeCorrect, CurrentInvariant, PTL DEF Spec, DeletedIsGone
===============================================================================
