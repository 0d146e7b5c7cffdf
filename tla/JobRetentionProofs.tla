-------------------------- MODULE JobRetentionProofs --------------------------
(***************************************************************************)
(* Theorems about JobRetention, for any number of jobs and any limits: what *)
(* a prune of the index keeps, and that the count it goes by is safe.      *)
(***************************************************************************)
EXTENDS JobRetention, FiniteSetTheorems, TLAPS

\* The jobs the index has an entry for.
Present == {j \in Jobs : entry[j] # "absent"}

-------------------------------------------------------------------------------
\* There are finitely many jobs and keys.
LEMMA Finiteness ==
    ASSUME TypeOK
    PROVE  /\ IsFiniteSet(Jobs)
           /\ IsFiniteSet(Present) /\ Cardinality(Present) \in Nat
           /\ IsFiniteSet(Prunable) /\ IsFiniteSet(Doomed) /\ Cardinality(Doomed) \in Nat
<1>1. IsFiniteSet(Jobs)
  BY RetentionAssumption, FS_Interval DEF Jobs
<1>2. IsFiniteSet(Present) /\ Cardinality(Present) \in Nat
  BY <1>1, FS_Subset, FS_CardinalityType DEF Present
<1>3. IsFiniteSet(Incomplete \cup Completed)
  <2>1. \A S, x : IsFiniteSet(S) => IsFiniteSet(S \cup {x})
    BY FS_AddElement
  <2>2. IsFiniteSet({"QUEUED"}) /\ IsFiniteSet({"ERROR"})
    BY FS_Singleton
  <2>3. IsFiniteSet({"QUEUED"} \cup {"WAITING"})
    BY <2>1, <2>2
  <2>4. IsFiniteSet({"QUEUED"} \cup {"WAITING"} \cup {"RUNNING"})
    BY <2>1, <2>3
  <2>5. IsFiniteSet({"ERROR"} \cup {"SUCCESS"})
    BY <2>1, <2>2
  <2>6. /\ Incomplete = {"QUEUED"} \cup {"WAITING"} \cup {"RUNNING"}
        /\ Completed = {"ERROR"} \cup {"SUCCESS"}
    BY DEF Incomplete, Completed
  <2>7. QED BY <2>4, <2>5, <2>6, FS_Union
<1>4. IsFiniteSet((Incomplete \cup Completed) \X Jobs)
  BY <1>1, <1>3, FS_Product
<1>5. keys \subseteq (Incomplete \cup Completed) \X Jobs
  BY DEF TypeOK
<1>6. IsFiniteSet(keys)
  BY <1>4, <1>5, FS_Subset
<1>7. IsFiniteSet(Prunable)
  BY <1>6, FS_Subset DEF Prunable
<1>8. IsFiniteSet(Doomed) /\ Cardinality(Doomed) \in Nat
  BY <1>7, FS_Subset, FS_CardinalityType DEF Doomed
<1>9. QED BY <1>1, <1>2, <1>7, <1>8

\* The variables keep their types.
THEOREM TypeCorrect == Spec => []TypeOK
<1> USE DEF TypeOK, Incomplete, Completed
<1>1. Init => TypeOK
  <2>1. MaxJobs \in Nat /\ 0 \in 0 .. MaxJobs
    BY RetentionAssumption
  <2> SUFFICES ASSUME Init PROVE TypeOK
    OBVIOUS
  <2>2. keys \subseteq (Incomplete \cup Completed) \X Jobs /\ pruned \subseteq Jobs
    BY Zenon DEF Init
  <2>3. /\ rows \in [Jobs -> Incomplete \cup Completed \cup {"NONE"}]
        /\ entry \in [Jobs -> Incomplete \cup Completed \cup {"absent"}]
    BY DEF Init
  <2>4. created \in 0 .. MaxJobs /\ indexed \in Int /\ failed \in Nat
    BY <2>1 DEF Init
  <2>5. up \in BOOLEAN /\ locked \in BOOLEAN
    BY Zenon DEF Init
  <2> HIDE DEF Incomplete, Completed
  <2>6. QED BY <2>2, <2>3, <2>4, <2>5
<1>2. TypeOK /\ [Next]_vars => TypeOK'
  <2> SUFFICES ASSUME TypeOK, [Next]_vars PROVE TypeOK'
    OBVIOUS
  <2>1. CASE JobCreate
    <3>1. created' = created + 1 /\ created' \in 0 .. MaxJobs /\ created' \in Jobs
      BY <2>1, RetentionAssumption DEF JobCreate, Jobs
    <3>2. /\ entry' \in [Jobs -> Incomplete \cup Completed \cup {"absent"}]
          /\ keys' \subseteq (Incomplete \cup Completed) \X Jobs
          /\ failed' \in Nat
      <4>1. CASE created' \in Untargeted
        BY <2>1, <4>1 DEF JobCreate, jobIndexSet
      <4>2. CASE created' \notin Untargeted
        BY <2>1, <3>1, <4>2 DEF JobCreate, jobIndexSet, Insert
      <4>3. QED BY <4>1, <4>2
    <3>3. rows' \in [Jobs -> Incomplete \cup Completed \cup {"NONE"}] /\ indexed' \in Int
      BY <2>1, <3>1 DEF JobCreate
    <3> HIDE DEF Incomplete, Completed
    <3>4. QED BY <2>1, <3>1, <3>2, <3>3 DEF JobCreate
  <2>2. ASSUME NEW j \in Jobs, AssignWithoutRow(j) PROVE TypeOK'
    BY <2>2 DEF AssignWithoutRow
  <2>3. ASSUME NEW j \in Jobs, NEW s \in Incomplete \cup Completed, Update(j, s) PROVE TypeOK'
    BY <2>3 DEF Update, Insert
  <2>4. CASE Prune
    <3>1. indexed' \in Int
      BY <2>4, Finiteness DEF Prune
    <3>2. QED BY <2>4, <3>1 DEF Prune
  <2>5. CASE PruneFails \/ StartFails
    BY <2>5 DEF PruneFails, StartFails, vars
  <2>6. CASE JobsDBPruneOld
    BY <2>6 DEF JobsDBPruneOld, Rows
  <2>7. CASE Stop
    <3>1. keys' \subseteq (Incomplete \cup Completed) \X Jobs
      BY <2>7 DEF Stop
    <3>2. entry' \in [Jobs -> Incomplete \cup Completed \cup {"absent"}]
      BY <2>7 DEF Stop
    <3>3. UNCHANGED <<rows, created, pruned>> /\ indexed' \in Int /\ failed' \in Nat
      BY <2>7 DEF Stop
    <3>4. up' \in BOOLEAN /\ locked' \in BOOLEAN
      BY <2>7, Zenon DEF Stop
    <3> HIDE DEF Incomplete, Completed
    <3>5. QED BY <3>1, <3>2, <3>3, <3>4
  <2>8. CASE Start
    BY <2>8 DEF Start
  <2>9. CASE UNCHANGED vars
    BY <2>9 DEF vars
  <2>10. QED BY <2>1, <2>2, <2>3, <2>4, <2>5, <2>6, <2>7, <2>8, <2>9 DEF Next
<1>3. QED BY <1>1, <1>2, PTL DEF Spec

-------------------------------------------------------------------------------
(* What a prune deletes.                                                   *)

\* Keys are ordered by state, then by the time their job was queued.
LEMMA BeforeIsTotal ==
    ASSUME TypeOK, NEW k \in keys, NEW l \in keys, NEW x \in keys
    PROVE  /\ ~Before(k, k)
           /\ k # l => Before(k, l) \/ Before(l, k)
           /\ Before(x, k) /\ Before(k, l) => Before(x, l)
<1>1. \A s \in Incomplete \cup Completed : Ranks[s] \in 1 .. 5
  BY DEF Ranks, Incomplete, Completed
<1>2. \A s, t \in Incomplete \cup Completed : Ranks[s] = Ranks[t] => s = t
  BY DEF Ranks, Incomplete, Completed
<1>3. \A y \in {k, l, x} : y[1] \in Incomplete \cup Completed /\ y[2] \in Int /\ y = <<y[1], y[2]>>
  BY DEF TypeOK, Jobs
<1>4. QED BY <1>1, <1>2, <1>3 DEF Before

\* How many of the keys come before a key.
Rank(k) == Cardinality({l \in Prunable : Before(l, k)})

\* No two keys have equally many before them.
LEMMA RanksDiffer ==
    ASSUME TypeOK, NEW k \in Prunable, NEW l \in Prunable, k # l
    PROVE  Rank(k) \in Nat /\ Rank(k) # Rank(l)
<1>1. ASSUME NEW a \in Prunable, NEW b \in Prunable, Before(a, b)
      PROVE  Rank(a) < Rank(b) /\ Rank(a) \in Nat
  <2> DEFINE A == {x \in Prunable : Before(x, a)}
             B == {x \in Prunable : Before(x, b)}
  <2>1. Prunable \subseteq keys
    BY DEF Prunable
  <2>2. A \subseteq B
    BY <1>1, <2>1, BeforeIsTotal
  <2>3. a \in B /\ a \notin A
    BY <1>1, <2>1, BeforeIsTotal
  <2>4. IsFiniteSet(B)
    BY Finiteness, FS_Subset
  <2>5. IsFiniteSet(A) /\ Cardinality(A) <= Cardinality(B) /\ Cardinality(A) # Cardinality(B)
    BY <2>2, <2>3, <2>4, FS_Subset
  <2>6. Cardinality(A) \in Nat /\ Cardinality(B) \in Nat
    BY <2>4, <2>5, FS_CardinalityType
  <2>7. QED BY <2>5, <2>6 DEF Rank
<1>2. Rank(k) \in Nat /\ Rank(l) \in Nat
  <2>1. \A x \in Prunable : Rank(x) \in Nat
    BY Finiteness, FS_Subset, FS_CardinalityType DEF Rank
  <2>2. QED BY <2>1
<1>3. Before(k, l) \/ Before(l, k)
  BY BeforeIsTotal DEF Prunable
<1>4. QED BY <1>1, <1>2, <1>3

\* A prune deletes as many keys as there are jobs in excess, at most.
LEMMA DoomedFew ==
    ASSUME TypeOK, Excess > 0
    PROVE  Cardinality(Doomed) <= Excess
<1>1. Excess \in Nat /\ Excess - 1 \in Int
  BY RetentionAssumption DEF TypeOK, Excess
<1> DEFINE T == 0 .. Excess - 1
           f == [k \in Doomed |-> Rank(k)]
<1>2. IsFiniteSet(T) /\ Cardinality(T) = Excess
  BY <1>1, FS_Interval
<1>3. Doomed \subseteq Prunable /\ \A k \in Doomed : Rank(k) \in Nat /\ Rank(k) < Excess
  <2>1. \A k \in Prunable : Rank(k) \in Nat
    BY Finiteness, FS_Subset, FS_CardinalityType DEF Rank
  <2>2. QED BY <2>1 DEF Doomed, Rank
<1>4. f \in [Doomed -> T]
  BY <1>1, <1>3
<1>5. ~ \E x, y \in Doomed : x # y /\ f[x] = f[y]
  BY <1>3, RanksDiffer
<1> HIDE DEF T, f
<1>6. ~(Cardinality(T) < Cardinality(Doomed))
  BY <1>2, <1>4, <1>5, Finiteness, FS_PigeonHole
<1>7. QED BY <1>1, <1>2, <1>6, Finiteness

\* A prune takes no more entries from the index than it has keys to delete.
LEMMA PruneTakesFew ==
    ASSUME TypeOK, Prune
    PROVE  /\ Cardinality(Present') \in Nat
           /\ Cardinality(Present') >= Cardinality(Present) - Cardinality(Doomed)
<1> DEFINE I == {j \in Present : \E k \in Doomed : k[2] = j}
           f == [j \in I |-> CHOOSE k \in Doomed : k[2] = j]
<1>1. Present' = Present \ I
  BY DEF Prune, Present, TypeOK
<1>2. IsFiniteSet(I) /\ Cardinality(I) \in Nat
  BY Finiteness, FS_Subset, FS_CardinalityType
<1>3. \A j \in I : f[j] \in Doomed /\ f[j][2] = j
  OBVIOUS
<1>4. f \in [I -> Doomed]
  BY <1>3
<1>5. ~ \E x, y \in I : x # y /\ f[x] = f[y]
  BY <1>3
<1>6. I \subseteq Present
  OBVIOUS
<1> HIDE DEF I, f
<1>7. ~(Cardinality(Doomed) < Cardinality(I))
  BY <1>2, <1>4, <1>5, Finiteness, FS_PigeonHole
<1>8. /\ IsFiniteSet(Present \ I)
      /\ Cardinality(Present \ I) = Cardinality(Present) - Cardinality(Present \cap I)
  BY Finiteness, FS_Difference
<1>9. Present \cap I = I
  BY <1>6
<1>10. Cardinality(Present') \in Nat
  BY <1>1, <1>8, FS_CardinalityType
<1>11. QED BY <1>1, <1>2, <1>7, <1>8, <1>9, <1>10, Finiteness
-------------------------------------------------------------------------------
(* The theorems.                                                           *)

\* A prune passes over every entry of an unfinished job, whatever keys lead
\* to it, and no other step of a running server takes an entry away.
THEOREM UnfinishedAreKept == Spec => UnfinishedKept
<1>1. TypeOK /\ [Next]_vars =>
        [\A j \in Jobs : entry[j] \in Incomplete /\ up /\ up' => entry'[j] # "absent"]_vars
  <2> SUFFICES ASSUME TypeOK, Next, NEW j \in Jobs, entry[j] \in Incomplete, up, up'
               PROVE  entry'[j] # "absent"
    OBVIOUS
  <2> USE DEF TypeOK, Incomplete, Completed
  <2>1. CASE JobCreate
    BY <2>1 DEF JobCreate, jobIndexSet, Insert
  <2>2. ASSUME NEW i \in Jobs, AssignWithoutRow(i) PROVE entry'[j] # "absent"
    BY <2>2 DEF AssignWithoutRow
  <2>3. ASSUME NEW i \in Jobs, NEW s \in Incomplete \cup Completed, Update(i, s)
        PROVE entry'[j] # "absent"
    BY <2>3 DEF Update, Insert
  <2>4. CASE Prune
    <3>1. ~ \E k \in Doomed : k[2] = j
      BY DEF Doomed, Prunable
    <3>2. QED BY <2>4, <3>1 DEF Prune
  <2>5. CASE PruneFails \/ StartFails
    BY <2>5 DEF PruneFails, StartFails, vars
  <2>6. CASE JobsDBPruneOld
    BY <2>6 DEF JobsDBPruneOld
  <2>7. CASE Stop
    BY <2>7 DEF Stop
  <2>8. CASE Start
    BY <2>8 DEF Start
  <2>9. QED BY <2>1, <2>2, <2>3, <2>4, <2>5, <2>6, <2>7, <2>8 DEF Next
<1>2. QED BY <1>1, TypeCorrect, PTL DEF Spec, UnfinishedKept

\* The count together with what makes it safe: a job yet to be created has
\* neither row nor entry, and a server that is down has counted nothing.
CountInv ==
    /\ CountIsSafe
    /\ \A j \in Jobs : j > created => rows[j] = "NONE" /\ entry[j] = "absent"
    /\ ~up => indexed = 0

\* Neither restarts, which forget the count, nor prunes, which may meet
\* several keys of one entry, make the count exceed the entries by more than
\* the creations that failed, each of which jobCreate has counted.
THEOREM CountIsSafeAlways == Spec => [](CountInv /\ CountIsSafe)
<1>1. Init => CountInv
  <2> SUFFICES ASSUME Init PROVE CountInv
    OBVIOUS
  <2>1. Present = {}
    BY DEF Init, Present
  <2>2. Cardinality(Present) = 0
    BY <2>1, FS_EmptySet
  <2>3. QED BY <2>2 DEF Init, CountInv, CountIsSafe, Present
<1>2. TypeOK /\ TypeOK' /\ CountInv /\ [Next]_vars => CountInv'
  <2> SUFFICES ASSUME TypeOK, TypeOK', CountInv, [Next]_vars PROVE CountInv'
    OBVIOUS
  <2>1. CountIsSafe <=> (indexed <= Cardinality(Present) + failed)
    BY DEF CountIsSafe, Present
  <2>2. CountIsSafe' <=> (indexed' <= Cardinality(Present') + failed')
    BY DEF CountIsSafe, Present
  <2>3. /\ Cardinality(Present) \in Nat /\ indexed \in Int /\ indexed' \in Int
        /\ failed \in Nat /\ IsFiniteSet(Present)
    BY Finiteness DEF TypeOK
  <2> USE DEF CountInv
  <2>4. CASE JobCreate
    <3>1. created' = created + 1 /\ created' \in Jobs /\ created' > created /\ created \in Nat
      BY <2>4, RetentionAssumption DEF JobCreate, Jobs, TypeOK
    <3>2. indexed' = indexed + 1 /\ rows' = [rows EXCEPT ![created'] = "QUEUED"]
      BY <2>4 DEF JobCreate
    <3>3. up /\ up' = up
      BY <2>4 DEF JobCreate, Write
    <3>4. CASE created' \in Untargeted
      <4>1. entry' = entry /\ failed' = failed + 1
        BY <2>4, <3>4 DEF JobCreate, jobIndexSet
      <4>2. Present' = Present
        BY <4>1 DEF Present
      <4>3. \A j \in Jobs : j > created' => rows'[j] = "NONE" /\ entry'[j] = "absent"
        BY <3>1, <3>2, <4>1 DEF Jobs, TypeOK
      <4>4. QED BY <2>1, <2>2, <2>3, <3>2, <3>3, <4>1, <4>2, <4>3
    <3>5. CASE created' \notin Untargeted
      <4>1. entry' = [entry EXCEPT ![created'] = "QUEUED"] /\ failed' = failed
        BY <2>4, <3>5 DEF JobCreate, jobIndexSet, Insert
      <4>2. Present' = Present \cup {created'} /\ created' \notin Present
        BY <3>1, <4>1 DEF Present, TypeOK
      <4>3. Cardinality(Present') = Cardinality(Present) + 1
        BY <2>3, <4>2, FS_AddElement
      <4>4. \A j \in Jobs : j > created' => rows'[j] = "NONE" /\ entry'[j] = "absent"
        BY <3>1, <3>2, <4>1 DEF Jobs, TypeOK
      <4>5. QED BY <2>1, <2>2, <2>3, <3>2, <3>3, <4>1, <4>3, <4>4
    <3>6. QED BY <3>4, <3>5
  <2>5. ASSUME NEW j \in Jobs, AssignWithoutRow(j) PROVE CountInv'
    <3>1. Present' = Present
      BY <2>5 DEF AssignWithoutRow, Present, TypeOK
    <3>2. QED BY <2>1, <2>2, <2>5, <3>1 DEF AssignWithoutRow, TypeOK
  <2>6. ASSUME NEW j \in Jobs, NEW s \in Incomplete \cup Completed, Update(j, s)
        PROVE CountInv'
    <3>1. Present' = Present
      BY <2>6 DEF Update, Insert, Present, TypeOK, Incomplete, Completed
    <3>2. QED BY <2>1, <2>2, <2>6, <3>1 DEF Update, Insert, TypeOK
  <2>7. CASE Prune
    <3>1. indexed' = indexed - Cardinality(Doomed) /\ failed' = failed
      BY <2>7 DEF Prune
    <3>2. indexed' <= Cardinality(Present') + failed'
      <4>1. /\ Cardinality(Present') \in Nat /\ Cardinality(Doomed) \in Nat
            /\ Cardinality(Present') >= Cardinality(Present) - Cardinality(Doomed)
        BY <2>7, PruneTakesFew, Finiteness
      <4>2. indexed <= Cardinality(Present) + failed
        BY <2>1
      <4>3. QED BY <2>3, <3>1, <4>1, <4>2
    <3>3. \A j \in Jobs : j > created' => rows'[j] = "NONE" /\ entry'[j] = "absent"
      BY <2>7 DEF Prune, TypeOK
    <3>4. up /\ up' = up
      BY <2>7 DEF Prune, Write
    <3>5. QED BY <2>2, <3>2, <3>3, <3>4
  <2>8. CASE PruneFails \/ StartFails \/ UNCHANGED vars
    BY <2>1, <2>2, <2>8 DEF PruneFails, StartFails, vars, Present
  <2>9. CASE JobsDBPruneOld
    BY <2>1, <2>2, <2>9 DEF JobsDBPruneOld, Present
  <2>10. CASE Stop
    <3>1. Present' = {}
      BY <2>10 DEF Stop, Present
    <3>2. Cardinality(Present') = 0 /\ indexed' = 0 /\ failed' = 0
      BY <2>10, <3>1, FS_EmptySet DEF Stop
    <3>3. \A j \in Jobs : j > created' => rows'[j] = "NONE" /\ entry'[j] = "absent"
      BY <2>10 DEF Stop
    <3>4. CountIsSafe'
      BY <2>2, <3>2
    <3>5. QED BY <3>2, <3>3, <3>4
  <2>11. CASE Start
    <3>1. indexed' = 0 /\ failed' = failed
      BY <2>11 DEF Start
    <3>2. Cardinality(Present') \in Nat
      <4>1. Present' \in SUBSET Jobs
        BY DEF Present
      <4>2. QED BY <4>1, Finiteness, FS_Subset, FS_CardinalityType
    <3>3. \A j \in Jobs : j > created' => rows'[j] = "NONE" /\ entry'[j] = "absent"
      BY <2>11 DEF Start, Incomplete
    <3>4. CountIsSafe'
      BY <2>2, <2>3, <3>1, <3>2
    <3>5. up'
      BY <2>11 DEF Start
    <3>6. QED BY <3>1, <3>3, <3>4, <3>5
  <2>12. QED BY <2>4, <2>5, <2>6, <2>7, <2>8, <2>9, <2>10, <2>11 DEF Next
<1>3. CountInv => CountIsSafe
  BY DEF CountInv
<1>4. QED BY <1>1, <1>2, <1>3, TypeCorrect, PTL DEF Spec

\* What a prune that succeeds leaves is less than the limit by no more than the
\* creations that failed, although its keys are counted from an index with
\* stale ones.
THEOREM RetainsMaxAlways == Spec => RetainsMax
<1>1. TypeOK /\ CountInv /\ [Next]_vars =>
        [Prune => Cardinality({j \in Jobs : entry'[j] # "absent"}) >= MaxInMem - failed]_vars
  <2> SUFFICES ASSUME TypeOK, CountInv, Prune
               PROVE  Cardinality({j \in Jobs : entry'[j] # "absent"}) >= MaxInMem - failed
    OBVIOUS
  <2>1. Present' = {j \in Jobs : entry'[j] # "absent"}
    BY DEF Present
  <2>2. indexed \in Int /\ failed \in Nat /\ MaxInMem \in Nat /\ Excess = indexed - MaxInMem
    BY RetentionAssumption DEF TypeOK, Excess
  <2>3. indexed <= Cardinality(Present) + failed
    BY DEF CountInv, CountIsSafe, Present
  <2>4. Cardinality(Doomed) <= Excess
    BY DoomedFew DEF Prune
  <2>5. QED BY <2>1, <2>2, <2>3, <2>4, PruneTakesFew, Finiteness
<1>2. QED BY <1>1, TypeCorrect, CountIsSafeAlways, PTL DEF Spec, RetainsMax
===============================================================================
