--------------------------- MODULE Process_proofs ---------------------------
(***************************************************************************)
(* Proofs about what an S2E process runs on: the table of processes that   *)
(* it shares with the others, for every number of processes and entries,   *)
(* and the allocators of its memory, for any number of pages, regions,     *)
(* classes and blocks.                                                     *)
(***************************************************************************)
EXTENDS ProcessTable, Slab, FiniteSetTheorems, FunctionTheorems, WellFoundedInduction, TLAPS

-----------------------------------------------------------------------------
(* ProcessTable: the table of processes *)

\* The table has MaxProcesses entries.
LEMMA SlotFinite == IsFiniteSet(Slot) /\ Cardinality(Slot) = MaxProcesses
  <1>1. 0 \in Int /\ MaxProcesses - 1 \in Int
    BY ProcessTableAssumption
  <1>. QED
    BY <1>1, FS_Interval, ProcessTableAssumption DEF Slot

\* Every variable keeps its type; the entry a process holds is one of the table.
THEOREM TypeCorrect == Spec => []TypeOK
  <1>. USE ProcessTableAssumption DEF TypeOK, Go, Release, Waiting, Inside, Outside,
         shared, system, mine, NoIndex
  <1>1. Init => TypeOK
    BY DEF Init, Slot
  <1>2. TypeOK /\ [Next]_vars => TypeOK'
    <2>. SUFFICES ASSUME TypeOK, [Next]_vars PROVE TypeOK'
      OBVIOUS
    <2>1. CASE UNCHANGED vars
      BY <2>1 DEF vars
    <2>2. ASSUME NEW p \in Pid, Begin(p) PROVE TypeOK'
      <3>1. CASE Fork(p)
        BY <3>1 DEF Fork
      <3>2. CASE Exit(p)
        BY <3>2 DEF Exit
      <3>3. CASE Scan(p)
        BY <3>3 DEF Scan
      <3>4. CASE FetchStateId(p)
        BY <3>4 DEF FetchStateId
      <3>. QED
        BY <2>2, <3>1, <3>2, <3>3, <3>4 DEF Begin
    <2>3. ASSUME NEW p \in Pid, Acquire(p) PROVE TypeOK'
      BY <2>3 DEF Acquire, Entry
    <2>41. ASSUME NEW p \in Pid, ForkRefused(p) PROVE TypeOK'
      BY <2>41 DEF ForkRefused
    <2>42. ASSUME NEW p \in Pid, ForkAdmitted(p) PROVE TypeOK'
      BY <2>42 DEF ForkAdmitted
    <2>43. ASSUME NEW p \in Pid, ForkReserve(p) PROVE TypeOK'
      BY <2>43 DEF ForkReserve
    <2>44. ASSUME NEW p \in Pid, ForkFails(p) PROVE TypeOK'
      BY <2>44 DEF ForkFails
    <2>45. ASSUME NEW p \in Pid, ForkUndo(p) PROVE TypeOK'
      BY <2>45 DEF ForkUndo
    <2>5. ASSUME NEW p \in Pid, NEW c \in Pid, ForkChild(p, c) PROVE TypeOK'
      BY <2>5, Zenon DEF ForkChild
    <2>6. ASSUME NEW p \in Pid, FindSlot(p) PROVE TypeOK'
      <3>1. CASE AssertFails(p)
        BY <3>1 DEF AssertFails
      <3>2. ASSUME NEW i \in Slot, slot' = [slot EXCEPT ![p] = i],
                   at' = [at EXCEPT ![p] = "reg.write"],
                   UNCHANGED <<lock, shared, system, index, local, issued>>
            PROVE  TypeOK'
        BY <3>2
      <3>. QED
        BY <2>6, <3>1, <3>2 DEF FindSlot, FreeSlots
    <2>7. ASSUME NEW p \in Pid, Register(p) PROVE TypeOK'
      BY <2>7 DEF Register
    <2>8. ASSUME NEW p \in Pid, MakeOutputDir(p) PROVE TypeOK'
      <3>1. CASE AssertFails(p)
        BY <3>1 DEF AssertFails
      <3>2. CASE ~AssertFails(p)
        <4>1. outputDirs' = outputDirs \cup {index[p]} /\ index[p] \in Nat
          BY <2>8, <3>2 DEF MakeOutputDir
        <4>2. outputDirs' \in SUBSET Nat
          BY <4>1, Zenon
        <4>. QED
          BY <2>8, <3>2, <4>2, Zenon DEF MakeOutputDir
      <3>. QED
        BY <3>1, <3>2
    <2>9. ASSUME NEW p \in Pid, Unregister(p) PROVE TypeOK'
      <3>1. CASE AssertFails(p)
        BY <3>1 DEF AssertFails
      <3>2. CASE ~AssertFails(p)
        <4>1. slot[p] \in Slot
          OBVIOUS
        <4>2. /\ processIds' = [processIds EXCEPT ![slot[p]] = NoIndex]
              /\ processPids' = [processPids EXCEPT ![slot[p]] = NoPid]
              /\ currentProcessCount' = currentProcessCount - 1
              /\ lock' = NoPid
              /\ at' = [at EXCEPT ![p] = "exit.end"]
              /\ UNCHANGED <<lastFileId, lastStateId, system, mine, issued>>
          BY <2>9, <3>2 DEF Unregister
        <4>. QED
          BY <4>1, <4>2
      <3>. QED
        BY <3>1, <3>2
    <2>10. ASSUME NEW p \in Pid, ProcessEnds(p) \/ Crash(p) PROVE TypeOK'
      <3>1. Dies(p) /\ crashes' \in Nat
        BY <2>10 DEF ProcessEnds, Crash
      <3>. QED
        BY <3>1 DEF Dies
    <2>11. ASSUME NEW p \in Pid, ScanTable(p) PROVE TypeOK'
      <3>. DEFINE dead == {i \in Slot : processPids[i] # NoPid /\ life[processPids[i]] = "free"}
      <3>1. Cardinality(dead) \in Nat
        BY SlotFinite, FS_Subset, FS_CardinalityType
      <3>2. currentProcessCount' = currentProcessCount - Cardinality(dead)
        BY <2>11 DEF ScanTable
      <3>. HIDE DEF dead
      <3>3. currentProcessCount' \in Int
        BY <3>1, <3>2
      <3>. QED
        BY <2>11, <3>3 DEF ScanTable
    <2>12. ASSUME NEW p \in Pid, ReadStateId(p) \/ IncrementStateId(p) PROVE TypeOK'
      <3>1. CASE ReadStateId(p)
        BY <3>1 DEF ReadStateId
      <3>2. CASE IncrementStateId(p)
        <4>1. issued' = issued \cup {local[p]} /\ local[p] \in Nat
          BY <3>2 DEF IncrementStateId
        <4>2. issued' \in SUBSET Nat
          BY <4>1, Zenon
        <4>. QED
          BY <3>2, <4>2 DEF IncrementStateId
      <3>. QED
        BY <2>12, <3>1, <3>2
    <2>. QED
      BY <2>1, <2>2, <2>3, <2>41, <2>42, <2>43, <2>44, <2>45, <2>5, <2>6, <2>7, <2>8, <2>9, <2>10, <2>11, <2>12
         DEF Next, Continue
  <1>. QED
    BY <1>1, <1>2, PTL DEF Spec

-----------------------------------------------------------------------------
(* Mutual exclusion: only the holder of the semaphore is inside, and a process *)
(* runs exactly when the operating system says so.                             *)

AliveInv == \A p \in Pid : life[p] = "running" <=> at[p] # "dead"

\* An operation that only moves p from one place to another.
Moves(p, from, to) ==
  /\ at[p] = from /\ at' = [at EXCEPT ![p] = to]
  /\ UNCHANGED <<lock, shared, system, mine, issued>>

\* To begin an operation is to move to its acquire() and to change nothing else.
LEMMA BeginMoves ==
  ASSUME NEW p \in Pid, Begin(p)
  PROVE  \E to \in {"fork.acq", "exit.acq", "scan.acq", "id.acq"} : Moves(p, "idle", to)
  BY DEF Begin, Fork, Exit, Scan, FetchStateId, Moves, Go

\* One process at a time is between acquire() and release(), also when processes die
\* or abort while they hold the semaphore.
THEOREM Mutex == Spec => [](MutualExclusion /\ AliveInv)
  <1>. DEFINE Inv == MutualExclusion /\ AliveInv
  <1>. USE DEF Inside, Go, Release
  <1>1. Init => Inv
    BY ProcessTableAssumption DEF Init, MutualExclusion, AliveInv
  <1>2. TypeOK /\ Inv /\ [Next]_vars => Inv'
    <2>. SUFFICES ASSUME TypeOK, Inv, [Next]_vars PROVE Inv'
      OBVIOUS
    <2>. /\ lock \in Pid \cup {NoPid} /\ NoPid \notin Pid
         /\ at \in [Pid -> Waiting \cup Inside \cup Outside]
         /\ life \in [Pid -> {"free", "running", "zombie"}]
      BY ProcessTableAssumption DEF TypeOK
    <2>. USE DEF MutualExclusion, AliveInv, shared, system, mine
    <2>1. CASE UNCHANGED vars
      BY <2>1 DEF vars
    <2>2. ASSUME NEW p \in Pid, Begin(p) PROVE Inv'
      BY <2>2, BeginMoves DEF Moves
    <2>3. ASSUME NEW p \in Pid, Acquire(p) PROVE Inv'
      BY <2>3 DEF Acquire, Entry, Waiting
    <2>41. ASSUME NEW p \in Pid, ForkRefused(p) PROVE Inv'
      BY <2>41 DEF ForkRefused
    <2>42. ASSUME NEW p \in Pid, ForkAdmitted(p) PROVE Inv'
      BY <2>42 DEF ForkAdmitted
    <2>43. ASSUME NEW p \in Pid, ForkReserve(p) PROVE Inv'
      BY <2>43 DEF ForkReserve
    <2>44. ASSUME NEW p \in Pid, ForkFails(p) PROVE Inv'
      BY <2>44 DEF ForkFails
    <2>45. ASSUME NEW p \in Pid, ForkUndo(p) PROVE Inv'
      BY <2>45 DEF ForkUndo
    <2>5. ASSUME NEW p \in Pid, NEW c \in Pid, ForkChild(p, c) PROVE Inv'
      BY <2>5 DEF ForkChild
    <2>60. ASSUME NEW p \in Pid, at[p] \in Inside \cup {"reg.dir"}, AssertFails(p) PROVE Inv'
      BY <2>60 DEF AssertFails
    <2>6. ASSUME NEW p \in Pid, FindSlot(p) PROVE Inv'
      <3>1. CASE ~AssertFails(p)
        BY <2>6, <3>1 DEF FindSlot
      <3>. QED
        BY <2>6, <2>60, <3>1 DEF FindSlot
    <2>7. ASSUME NEW p \in Pid, Register(p) PROVE Inv'
      BY <2>7 DEF Register
    <2>8. ASSUME NEW p \in Pid, MakeOutputDir(p) PROVE Inv'
      <3>1. CASE ~AssertFails(p)
        BY <2>8, <3>1 DEF MakeOutputDir
      <3>. QED
        BY <2>8, <2>60, <3>1 DEF MakeOutputDir
    <2>9. ASSUME NEW p \in Pid, Unregister(p) PROVE Inv'
      <3>1. CASE ~AssertFails(p)
        BY <2>9, <3>1 DEF Unregister
      <3>. QED
        BY <2>9, <2>60, <3>1 DEF Unregister
    <2>10. ASSUME NEW p \in Pid, ProcessEnds(p) \/ Crash(p) PROVE Inv'
      <3>1. Dies(p)
        BY <2>10 DEF ProcessEnds, Crash
      <3>. QED
        BY <3>1 DEF Dies
    <2>11. ASSUME NEW p \in Pid, ScanTable(p) PROVE Inv'
      BY <2>11 DEF ScanTable
    <2>12. ASSUME NEW p \in Pid, ReadStateId(p) \/ IncrementStateId(p) PROVE Inv'
      BY <2>12 DEF ReadStateId, IncrementStateId
    <2>. QED
      BY <2>1, <2>2, <2>3, <2>41, <2>42, <2>43, <2>44, <2>45, <2>5, <2>6, <2>7, <2>8,
         <2>9, <2>10, <2>11, <2>12 DEF Next, Continue
  <1>. QED
    BY <1>1, <1>2, TypeCorrect, PTL DEF Spec

-----------------------------------------------------------------------------
(* State ids: lastStateId is above every id given out, and it cannot have     *)
(* changed between the two halves of fetchAndIncrementStateId.                *)

IdsInv ==
  /\ \A n \in issued : n < lastStateId
  /\ \A p \in Pid : at[p] = "id.incr" => local[p] = lastStateId

\* Ids given out are below lastStateId, and the one about to be is lastStateId.
LEMMA IdsInvariant == Spec => []IdsInv
  <1>1. Init => IdsInv
    BY DEF Init, IdsInv
  <1>2. TypeOK /\ MutualExclusion /\ IdsInv /\ [Next]_vars => IdsInv'
    <2>. SUFFICES ASSUME TypeOK, MutualExclusion, IdsInv, [Next]_vars PROVE IdsInv'
      OBVIOUS
    <2>. /\ at \in [Pid -> Waiting \cup Inside \cup Outside]
         /\ local \in [Pid -> Nat] /\ lastStateId \in Nat /\ issued \subseteq Nat
      BY DEF TypeOK
    <2>. USE DEF IdsInv, Go, shared, system, mine
    <2>1. CASE UNCHANGED vars
      BY <2>1 DEF vars
    <2>2. ASSUME NEW p \in Pid, Begin(p) PROVE IdsInv'
      <3>1. PICK to \in {"fork.acq", "exit.acq", "scan.acq", "id.acq"} : Moves(p, "idle", to)
        BY <2>2, BeginMoves
      <3>. QED
        BY <3>1 DEF Moves
    <2>3. ASSUME NEW p \in Pid, Acquire(p) PROVE IdsInv'
      BY <2>3 DEF Acquire, Entry, Waiting
    <2>41. ASSUME NEW p \in Pid, ForkRefused(p) PROVE IdsInv'
      BY <2>41 DEF ForkRefused
    <2>42. ASSUME NEW p \in Pid, ForkAdmitted(p) PROVE IdsInv'
      BY <2>42 DEF ForkAdmitted
    <2>43. ASSUME NEW p \in Pid, ForkReserve(p) PROVE IdsInv'
      BY <2>43 DEF ForkReserve
    <2>44. ASSUME NEW p \in Pid, ForkFails(p) PROVE IdsInv'
      BY <2>44 DEF ForkFails
    <2>45. ASSUME NEW p \in Pid, ForkUndo(p) PROVE IdsInv'
      BY <2>45 DEF ForkUndo
    <2>5. ASSUME NEW p \in Pid, NEW c \in Pid, ForkChild(p, c) PROVE IdsInv'
      BY <2>5 DEF ForkChild
    <2>60. ASSUME NEW p \in Pid, AssertFails(p) PROVE IdsInv'
      BY <2>60 DEF AssertFails
    <2>6. ASSUME NEW p \in Pid, FindSlot(p) PROVE IdsInv'
      <3>1. CASE ~AssertFails(p)
        BY <2>6, <3>1, Zenon DEF FindSlot
      <3>. QED
        BY <2>60, <3>1
    <2>7. ASSUME NEW p \in Pid, Register(p) PROVE IdsInv'
      BY <2>7 DEF Register
    <2>8. ASSUME NEW p \in Pid, MakeOutputDir(p) PROVE IdsInv'
      <3>1. CASE ~AssertFails(p)
        BY <2>8, <3>1, Zenon DEF MakeOutputDir
      <3>. QED
        BY <2>60, <3>1
    <2>9. ASSUME NEW p \in Pid, Unregister(p) PROVE IdsInv'
      <3>1. CASE ~AssertFails(p)
        BY <2>9, <3>1, Zenon DEF Unregister
      <3>. QED
        BY <2>60, <3>1
    <2>10. ASSUME NEW p \in Pid, ProcessEnds(p) \/ Crash(p) PROVE IdsInv'
      <3>1. Dies(p)
        BY <2>10 DEF ProcessEnds, Crash
      <3>. QED
        BY <3>1 DEF Dies
    <2>11. ASSUME NEW p \in Pid, ScanTable(p) PROVE IdsInv'
      BY <2>11 DEF ScanTable
    <2>12. ASSUME NEW p \in Pid, ReadStateId(p) PROVE IdsInv'
      BY <2>12 DEF ReadStateId
    <2>13. ASSUME NEW p \in Pid, IncrementStateId(p) PROVE IdsInv'
      \* Nobody else is at "id.incr": p holds the lock.
      BY <2>13 DEF IncrementStateId, MutualExclusion, Inside
    <2>. QED
      BY <2>1, <2>2, <2>3, <2>41, <2>42, <2>43, <2>44, <2>45, <2>5, <2>6, <2>7, <2>8,
         <2>9, <2>10, <2>11, <2>12, <2>13 DEF Next, Continue
  <1>. QED
    BY <1>1, <1>2, TypeCorrect, Mutex, PTL DEF Spec

\* "We must have unique state ids across all processes" (S2E.h:76), for any number
\* of processes: fetchAndIncrementStateId returns no id twice.
THEOREM UniqueStateIds == Spec => StateIdsFresh
  <1>1. TypeOK /\ IdsInv => \A p \in Pid : IncrementStateId(p) => local[p] \notin issued
    BY DEF TypeOK, IdsInv, IncrementStateId, Go
  <1>. QED
    BY <1>1, TypeCorrect, IdsInvariant, PTL DEF StateIdsFresh

-----------------------------------------------------------------------------
(* The table: a registered process has an entry of its own, and the index of  *)
(* a fork under way is one that no entry, no directory and no other fork has. *)

HasIndex == {p \in Pid : at[p] \in {"fork.call", "reg.acq", "reg.find", "reg.write"}}

TableInv ==
  /\ \A i \in Slot : processIds[i] < lastFileId
  /\ \A i, j \in Slot : processIds[i] = processIds[j] /\ i # j => processIds[i] = NoIndex
  /\ \A p \in Registered : processPids[slot[p]] = p /\ processIds[slot[p]] = index[p]
  /\ \A p \in HasIndex : local[p] < lastFileId /\ local[p] \notin outputDirs
                         /\ \A i \in Slot : processIds[i] # local[p]
  /\ \A p, q \in HasIndex : p # q => local[p] # local[q]
  /\ \A d \in outputDirs : d < lastFileId
  /\ \A p \in Pid : at[p] = "reg.dir" => index[p] \notin outputDirs
  /\ \A p \in Pid : at[p] = "reg.write" => processIds[slot[p]] = NoIndex

\* The table and the processes agree on who has which index and which entry.
LEMMA TableInvariant == Spec => []TableInv
  <1>1. Init => TableInv
    BY ProcessTableAssumption DEF Init, TableInv, Registered, HasIndex, NoIndex, Slot
  <1>2. TypeOK /\ MutualExclusion /\ AliveInv /\ TableInv /\ [Next]_vars => TableInv'
    <2>. SUFFICES ASSUME TypeOK, MutualExclusion, AliveInv, TableInv, [Next]_vars
                  PROVE  TableInv'
      OBVIOUS
    <2>. /\ at \in [Pid -> Waiting \cup Inside \cup Outside]
         /\ local \in [Pid -> Nat] /\ index \in [Pid -> Nat] /\ slot \in [Pid -> Slot]
         /\ lastFileId \in Nat /\ outputDirs \subseteq Nat
         /\ processIds \in [Slot -> Nat \cup {-1}]
         /\ processPids \in [Slot -> Pid \cup {NoPid}] /\ NoPid \notin Pid
         /\ life \in [Pid -> {"free", "running", "zombie"}]
      BY ProcessTableAssumption DEF TypeOK, NoIndex
    <2>. USE DEF TableInv, Registered, HasIndex, NoIndex, Go, shared, system, mine
    <2>1. CASE UNCHANGED vars
      BY <2>1 DEF vars
    <2>2. ASSUME NEW p \in Pid, Begin(p) PROVE TableInv'
      <3>1. PICK to \in {"fork.acq", "exit.acq", "scan.acq", "id.acq"} : Moves(p, "idle", to)
        BY <2>2, BeginMoves
      <3>. QED
        BY <3>1 DEF Moves
    <2>3. ASSUME NEW p \in Pid, Acquire(p) PROVE TableInv'
      BY <2>3 DEF Acquire, Entry, Waiting
    <2>41. ASSUME NEW p \in Pid, ForkRefused(p) PROVE TableInv'
      BY <2>41 DEF ForkRefused
    <2>42. ASSUME NEW p \in Pid, ForkAdmitted(p) PROVE TableInv'
      BY <2>42 DEF ForkAdmitted
    <2>43. ASSUME NEW p \in Pid, ForkReserve(p) PROVE TableInv'
      BY <2>43 DEF ForkReserve
    <2>44. ASSUME NEW p \in Pid, ForkFails(p) PROVE TableInv'
      BY <2>44 DEF ForkFails
    <2>45. ASSUME NEW p \in Pid, ForkUndo(p) PROVE TableInv'
      BY <2>45 DEF ForkUndo
    <2>5. ASSUME NEW p \in Pid, NEW c \in Pid, ForkChild(p, c) PROVE TableInv'
      \* c was dead: it is not p, and nothing was said of it.
      <3>1. at[c] = "dead" /\ c # p
        BY <2>5 DEF ForkChild, AliveInv
      <3>. QED
        BY <2>5, <3>1, SMTT(30) DEF ForkChild
    <2>60. ASSUME NEW p \in Pid, AssertFails(p) PROVE TableInv'
      BY <2>60 DEF AssertFails
    <2>6. ASSUME NEW p \in Pid, FindSlot(p) PROVE TableInv'
      <3>1. CASE ~AssertFails(p)
        <4>1. PICK i \in Slot : processIds[i] = NoIndex /\ slot' = [slot EXCEPT ![p] = i]
          BY <2>6, <3>1 DEF FindSlot, FreeSlots
        <4>2. /\ at' = [at EXCEPT ![p] = "reg.write"] /\ at[p] = "reg.find"
              /\ UNCHANGED <<lock, shared, system, index, local, issued>>
          BY <2>6, <3>1 DEF FindSlot
        <4>. QED
          BY <4>1, <4>2
      <3>. QED
        BY <2>60, <3>1
    <2>7. ASSUME NEW p \in Pid, Register(p) PROVE TableInv'
      BY <2>7 DEF Register, MutualExclusion, Inside
    <2>8. ASSUME NEW p \in Pid, MakeOutputDir(p) PROVE TableInv'
      <3>1. CASE ~AssertFails(p)
        <4>1. /\ at[p] = "reg.dir" /\ at' = [at EXCEPT ![p] = "idle"]
              /\ outputDirs' = outputDirs \cup {index[p]}
              /\ UNCHANGED <<lock, shared, life, parent, crashes, mine, issued>>
          BY <2>8, <3>1 DEF MakeOutputDir
        <4>. HIDE <3>1
        <4>2. \A q \in HasIndex : local[q] # index[p]
          BY <4>1
        <4>3. \A q \in Registered : q # p => index[q] # index[p]
          BY <4>1
        <4>. QED
          BY <4>1, <4>2, <4>3
      <3>. QED
        BY <2>60, <3>1
    <2>9. ASSUME NEW p \in Pid, Unregister(p) PROVE TableInv'
      <3>1. CASE ~AssertFails(p)
        <4>1. /\ at[p] = "exit.clear" /\ at' = [at EXCEPT ![p] = "exit.end"]
              /\ processIds' = [processIds EXCEPT ![slot[p]] = NoIndex]
              /\ processPids' = [processPids EXCEPT ![slot[p]] = NoPid]
              /\ UNCHANGED <<lastFileId, lastStateId, system, mine, issued>>
          BY <2>9, <3>1 DEF Unregister
        <4>2. \A q \in Registered : q # p => slot[q] # slot[p]
          BY <4>1
        <4>3. \A q \in Pid : at[q] # "reg.write"
          BY <4>1 DEF MutualExclusion, Inside
        <4>. QED
          BY <4>1, <4>2, <4>3
      <3>. QED
        BY <2>60, <3>1
    <2>10. ASSUME NEW p \in Pid, ProcessEnds(p) \/ Crash(p) PROVE TableInv'
      <3>1. Dies(p)
        BY <2>10 DEF ProcessEnds, Crash
      <3>. QED
        BY <3>1 DEF Dies
    <2>11. ASSUME NEW p \in Pid, ScanTable(p) PROVE TableInv'
      BY <2>11 DEF ScanTable, AliveInv
    <2>12. ASSUME NEW p \in Pid, ReadStateId(p) PROVE TableInv'
      BY <2>12 DEF ReadStateId
    <2>13. ASSUME NEW p \in Pid, IncrementStateId(p) PROVE TableInv'
      BY <2>13 DEF IncrementStateId
    <2>. QED
      BY <2>1, <2>2, <2>3, <2>41, <2>42, <2>43, <2>44, <2>45, <2>5, <2>6, <2>7, <2>8,
         <2>9, <2>10, <2>11, <2>12, <2>13 DEF Next, Continue
  <1>. QED
    BY <1>1, <1>2, TypeCorrect, Mutex, PTL DEF Spec

\* Two registered processes share neither an index, hence an output directory, nor
\* an entry of the table, however many processes fork, exit, die and clean up.
THEOREM NoSharedDirectory == Spec => []OwnOutputDirectory
  <1>1. TypeOK /\ TableInv => OwnOutputDirectory
    BY DEF TypeOK, TableInv, OwnOutputDirectory, Registered, NoIndex
  <1>. QED
    BY <1>1, TypeCorrect, TableInvariant, PTL

-----------------------------------------------------------------------------
(* The count: every action keeps what currentProcessCount has beyond the      *)
(* entries in use and the forks under way, but a crash, which adds to it.     *)

Excess == currentProcessCount - Cardinality(Occupied) - Cardinality(Pending)

CountInv ==
  /\ currentProcessCount <= MaxProcesses
  /\ Excess >= 0
  /\ crashes = 0 => Excess = 0
  /\ \A p \in Pid : at[p] = "fork.reserve" => currentProcessCount < MaxProcesses

\* An entry has a pid exactly when it has an index.
PairInv == \A i \in Slot : processIds[i] = NoIndex <=> processPids[i] = NoPid

\* The sets that are counted are finite.
LEMMA Counts ==
  ASSUME TypeOK
  PROVE  /\ IsFiniteSet(Occupied) /\ Cardinality(Occupied) \in Nat
         /\ IsFiniteSet(Pending) /\ Cardinality(Pending) \in Nat
         /\ currentProcessCount \in Int /\ MaxProcesses \in Nat
  <1>1. IsFiniteSet(Slot) /\ IsFiniteSet(Pid)
    BY SlotFinite, ProcessTableAssumption
  <1>2. Occupied \subseteq Slot /\ Pending \subseteq Pid
    BY DEF Occupied, Pending
  <1>. QED
    BY <1>1, <1>2, FS_Subset, FS_CardinalityType, ProcessTableAssumption DEF TypeOK

\* processIds and processPids are set and cleared together (S2E.cpp:300-301, 662-663,
\* 752-753).
LEMMA PairInvariant == Spec => []PairInv
  <1>1. Init => PairInv
    BY ProcessTableAssumption DEF Init, PairInv, NoIndex
  <1>2. TypeOK /\ PairInv /\ [Next]_vars => PairInv'
    <2>. SUFFICES ASSUME TypeOK, PairInv, [Next]_vars PROVE PairInv'
      OBVIOUS
    <2>. /\ processIds \in [Slot -> Nat \cup {-1}] /\ processPids \in [Slot -> Pid \cup {NoPid}]
         /\ slot \in [Pid -> Slot] /\ local \in [Pid -> Nat] /\ NoPid \notin Pid
      BY ProcessTableAssumption DEF TypeOK, NoIndex
    <2>. USE DEF PairInv, NoIndex, Go, shared
    <2>1. CASE UNCHANGED <<processIds, processPids>>
      BY <2>1
    <2>2. ASSUME NEW p \in Pid, Register(p) PROVE PairInv'
      BY <2>2 DEF Register
    <2>3. ASSUME NEW p \in Pid, Unregister(p) PROVE PairInv'
      BY <2>1, <2>3 DEF Unregister, AssertFails
    <2>4. ASSUME NEW p \in Pid, ScanTable(p) PROVE PairInv'
      BY <2>4 DEF ScanTable
    <2>5. ASSUME NEW p \in Pid, Begin(p) PROVE UNCHANGED <<processIds, processPids>>
      BY <2>5, BeginMoves DEF Moves
    <2>6. ASSUME NEW p \in Pid, Acquire(p) \/ Crash(p) \/ ProcessEnds(p)
          PROVE UNCHANGED <<processIds, processPids>>
      BY <2>6 DEF Acquire, Crash, ProcessEnds, Dies
    <2>7. ASSUME NEW p \in Pid, FindSlot(p) \/ MakeOutputDir(p)
          PROVE UNCHANGED <<processIds, processPids>>
      BY <2>7 DEF FindSlot, MakeOutputDir, AssertFails
    <2>8. ASSUME NEW p \in Pid, ForkRefused(p) \/ ForkAdmitted(p) \/ ForkReserve(p)
                        \/ ForkFails(p) \/ ForkUndo(p) \/ \E c \in Pid : ForkChild(p, c)
          PROVE UNCHANGED <<processIds, processPids>>
      BY <2>8 DEF ForkRefused, ForkAdmitted, ForkReserve, ForkFails, ForkUndo, ForkChild
    <2>9. ASSUME NEW p \in Pid, ReadStateId(p) \/ IncrementStateId(p)
          PROVE UNCHANGED <<processIds, processPids>>
      BY <2>9 DEF ReadStateId, IncrementStateId
    <2>. QED
      BY <2>1, <2>2, <2>3, <2>4, <2>5, <2>6, <2>7, <2>8, <2>9 DEF Next, Continue, vars
  <1>. QED
    BY <1>1, <1>2, TypeCorrect, PTL DEF Spec

\* A counted fork finds an entry: assert (i < m_maxProcesses) holds (S2E.cpp:664).
LEMMA EntryIsFree ==
  ASSUME TypeOK, CountInv, NEW p \in Pid, at[p] = "reg.find"
  PROVE  FreeSlots # {}
  <1>1. p \in Pending
    BY DEF Pending
  <1>2. Cardinality(Pending) # 0
    BY <1>1, Counts, FS_EmptySet
  <1>3. Cardinality(Occupied) < MaxProcesses
    BY <1>2, Counts DEF CountInv, Excess
  <1>4. Occupied # Slot
    BY <1>3, SlotFinite, ProcessTableAssumption
  <1>. QED
    BY <1>4 DEF Occupied, FreeSlots

\* A step that leaves the count, the entries and the forks alone.
LEMMA Uncounted ==
  ASSUME TypeOK, CountInv, CapacityRespected, UNCHANGED <<currentProcessCount, processIds, crashes>>,
         Pending' = Pending,
         \A q \in Pid : at'[q] = "fork.reserve" =>
           at[q] = "fork.reserve" \/ currentProcessCount < MaxProcesses
  PROVE  CountInv'
  BY DEF CountInv, Excess, Occupied

\* The count stays above the entries in use and the forks under way by what crashes
\* leaked, and below the maximum while a fork is being admitted.
LEMMA CountInvariant == Spec => []CountInv
  <1>. USE DEF shared, system, mine
  <1>1. Init => CountInv
    <2>. SUFFICES ASSUME Init PROVE CountInv
      OBVIOUS
    <2>1. Occupied = {0} /\ Pending = {}
      BY ProcessTableAssumption DEF Init, Occupied, Pending, NoIndex, Slot
    <2>2. Cardinality(Occupied) = 1 /\ Cardinality(Pending) = 0
      BY <2>1, FS_Singleton, FS_EmptySet, Zenon
    <2>3. currentProcessCount = 1 /\ \A p \in Pid : at[p] # "fork.reserve"
      BY DEF Init
    <2>. QED
      BY <2>2, <2>3, ProcessTableAssumption DEF CountInv, Excess
  <1>2. TypeOK /\ TypeOK' /\ MutualExclusion /\ AliveInv /\ TableInv /\ PairInv /\ CountInv
          /\ [Next]_vars => CountInv'
    <2>. SUFFICES ASSUME TypeOK, TypeOK', MutualExclusion, AliveInv, TableInv, PairInv,
                         CountInv, [Next]_vars
                  PROVE  CountInv'
      OBVIOUS
    <2>. /\ at \in [Pid -> Waiting \cup Inside \cup Outside]
         /\ crashes \in Nat
      BY DEF TypeOK
    <2>. USE DEF Go
    <2>0. CapacityRespected
      BY Counts DEF CountInv, Excess, CapacityRespected
    <2>1. CASE UNCHANGED vars
      BY <2>1 DEF vars, CountInv, Excess, Occupied, Pending
    <2>2. ASSUME NEW p \in Pid, Begin(p) PROVE CountInv'
      <3>1. PICK to \in {"fork.acq", "exit.acq", "scan.acq", "id.acq"} : Moves(p, "idle", to)
        BY <2>2, BeginMoves
      <3>. QED
        BY <2>0, <3>1, Uncounted DEF Moves, Pending
    <2>3. ASSUME NEW p \in Pid, Acquire(p) PROVE CountInv'
      <3>1. /\ at[p] \in Waiting /\ at' = [at EXCEPT ![p] = Entry[at[p]]]
            /\ UNCHANGED <<shared, system, mine, issued>>
        BY <2>3 DEF Acquire
      <3>2. Pending' = Pending
        BY <3>1 DEF Pending, Entry, Waiting
      <3>3. \A q \in Pid : at'[q] = "fork.reserve" => at[q] = "fork.reserve"
        BY <3>1 DEF Entry, Waiting
      <3>. QED
        BY <2>0, <3>1, <3>2, <3>3, Uncounted
    <2>41. ASSUME NEW p \in Pid, ForkRefused(p) PROVE CountInv'
      BY <2>0, <2>41, Uncounted DEF ForkRefused, Pending
    <2>42. ASSUME NEW p \in Pid, ForkAdmitted(p) PROVE CountInv'
      <3>1. currentProcessCount < MaxProcesses
        BY <2>42, Counts DEF ForkAdmitted, CountInv
      <3>. QED
        BY <2>0, <2>42, <3>1, Uncounted DEF ForkAdmitted, Pending
    <2>43. ASSUME NEW p \in Pid, ForkReserve(p) PROVE CountInv'
      <3>1. /\ at[p] = "fork.reserve" /\ at' = [at EXCEPT ![p] = "fork.call"]
            /\ currentProcessCount' = currentProcessCount + 1
            /\ UNCHANGED <<processIds, crashes>>
        BY <2>43 DEF ForkReserve
      <3>2. Pending' = Pending \cup {p} /\ p \notin Pending
        BY <3>1 DEF Pending
      <3>3. Cardinality(Pending') = Cardinality(Pending) + 1
        BY <3>2, Counts, FS_AddElement, Zenon
      <3>4. Occupied' = Occupied
        BY <3>1 DEF Occupied
      <3>5. \A q \in Pid : at'[q] # "fork.reserve"
        BY <3>1 DEF MutualExclusion, Inside
      <3>. QED
        BY <3>1, <3>3, <3>4, <3>5, Counts DEF CountInv, Excess
    <2>44. ASSUME NEW p \in Pid, ForkFails(p) PROVE CountInv'
      BY <2>0, <2>44, Uncounted DEF ForkFails, Pending
    <2>45. ASSUME NEW p \in Pid, ForkUndo(p) PROVE CountInv'
      <3>1. /\ at[p] = "fail.undo" /\ at' = [at EXCEPT ![p] = "idle"]
            /\ currentProcessCount' = currentProcessCount - 1
            /\ UNCHANGED <<processIds, crashes>>
        BY <2>45 DEF ForkUndo
      <3>2. Pending' = Pending \ {p} /\ p \in Pending
        BY <3>1 DEF Pending
      <3>3. Cardinality(Pending') = Cardinality(Pending) - 1
        BY <3>2, Counts, FS_RemoveElement, Zenon
      <3>4. Occupied' = Occupied
        BY <3>1 DEF Occupied
      <3>5. \A q \in Pid : at'[q] # "fork.reserve"
        BY <3>1 DEF MutualExclusion, Inside
      <3>. QED
        BY <3>1, <3>3, <3>4, <3>5, Counts DEF CountInv, Excess
    <2>5. ASSUME NEW p \in Pid, NEW c \in Pid, ForkChild(p, c) PROVE CountInv'
      \* The child takes the place of its parent among the forks under way.
      <3>1. /\ at[p] = "fork.call" /\ at' = [at EXCEPT ![p] = "idle", ![c] = "reg.acq"]
            /\ UNCHANGED <<currentProcessCount, processIds, crashes>>
        BY <2>5 DEF ForkChild
      <3>2. at[c] = "dead" /\ c # p
        BY <2>5 DEF ForkChild, AliveInv
      <3>3. Pending' = (Pending \ {p}) \cup {c} /\ p \in Pending /\ c \notin Pending
        BY <3>1, <3>2 DEF Pending
      <3>4. Cardinality(Pending') = Cardinality(Pending)
        <4>1. IsFiniteSet(Pending \ {p}) /\ Cardinality(Pending \ {p}) = Cardinality(Pending) - 1
          BY <3>3, Counts, FS_RemoveElement
        <4>2. Cardinality((Pending \ {p}) \cup {c}) = Cardinality(Pending \ {p}) + 1
          BY <3>3, <4>1, FS_AddElement, Zenon
        <4>. QED
          BY <3>3, <4>1, <4>2, Counts
      <3>5. Occupied' = Occupied
        BY <3>1 DEF Occupied
      <3>. QED
        BY <3>1, <3>4, <3>5, Counts DEF CountInv, Excess
    <2>6. ASSUME NEW p \in Pid, FindSlot(p) PROVE CountInv'
      <3>1. /\ at[p] = "reg.find" /\ at' = [at EXCEPT ![p] = "reg.write"]
            /\ UNCHANGED <<currentProcessCount, processIds, crashes>>
        BY <2>6, EntryIsFree DEF FindSlot
      <3>. QED
        BY <2>0, <3>1, Uncounted DEF Pending
    <2>7. ASSUME NEW p \in Pid, Register(p) PROVE CountInv'
      <3>1. /\ at[p] = "reg.write" /\ at' = [at EXCEPT ![p] = "reg.dir"]
            /\ processIds' = [processIds EXCEPT ![slot[p]] = local[p]]
            /\ UNCHANGED <<currentProcessCount, crashes>>
        BY <2>7 DEF Register
      <3>2. Pending' = Pending \ {p} /\ p \in Pending
        BY <3>1 DEF Pending
      <3>3. slot[p] \in Slot /\ local[p] # NoIndex /\ processIds[slot[p]] = NoIndex
        BY <3>1 DEF TypeOK, TableInv, NoIndex
      <3>4. Occupied' = Occupied \cup {slot[p]} /\ slot[p] \notin Occupied
        BY <3>1, <3>3 DEF Occupied, TypeOK
      <3>5. /\ Cardinality(Pending') = Cardinality(Pending) - 1
            /\ Cardinality(Occupied') = Cardinality(Occupied) + 1
        BY <3>2, <3>4, Counts, FS_RemoveElement, FS_AddElement, Zenon
      <3>6. \A q \in Pid : at'[q] = "fork.reserve" => at[q] = "fork.reserve"
        BY <3>1
      <3>. QED
        BY <3>1, <3>5, <3>6, Counts DEF CountInv, Excess
    <2>8. ASSUME NEW p \in Pid, MakeOutputDir(p) PROVE CountInv'
      BY <2>0, <2>8, Uncounted DEF MakeOutputDir, AssertFails, Pending
    <2>9. ASSUME NEW p \in Pid, Unregister(p) PROVE CountInv'
      <3>1. at[p] = "exit.clear" /\ processIds[slot[p]] = index[p]
        BY <2>9 DEF Unregister, TableInv, Registered
      <3>2. /\ at' = [at EXCEPT ![p] = "exit.end"]
            /\ processIds' = [processIds EXCEPT ![slot[p]] = NoIndex]
            /\ currentProcessCount' = currentProcessCount - 1
            /\ UNCHANGED crashes
        BY <2>9, <3>1 DEF Unregister
      <3>3. Pending' = Pending
        BY <3>1, <3>2 DEF Pending
      <3>4. slot[p] \in Slot /\ processIds[slot[p]] # NoIndex
        BY <3>1 DEF TypeOK, NoIndex
      <3>5. Occupied' = Occupied \ {slot[p]} /\ slot[p] \in Occupied
        BY <3>2, <3>4 DEF Occupied, TypeOK
      <3>6. Cardinality(Occupied') = Cardinality(Occupied) - 1
        BY <3>5, Counts, FS_RemoveElement, Zenon
      <3>7. \A q \in Pid : at'[q] = "fork.reserve" => at[q] = "fork.reserve"
        BY <3>2
      <3>. QED
        BY <3>2, <3>3, <3>6, <3>7, Counts DEF CountInv, Excess
    <2>10. ASSUME NEW p \in Pid, ProcessEnds(p) PROVE CountInv'
      <3>1. /\ at[p] \in {"exit.end", "abort"} /\ at' = [at EXCEPT ![p] = "dead"]
            /\ UNCHANGED <<currentProcessCount, processIds, crashes>>
        BY <2>10 DEF ProcessEnds, Dies
      <3>. QED
        BY <2>0, <3>1, Uncounted DEF Pending
    <2>11. ASSUME NEW p \in Pid, Crash(p) PROVE CountInv'
      <3>1. /\ at' = [at EXCEPT ![p] = "dead"] /\ crashes' = crashes + 1
            /\ UNCHANGED <<currentProcessCount, processIds>>
        BY <2>11 DEF Crash, Dies
      <3>2. Pending' = Pending \ {p}
        BY <3>1 DEF Pending
      <3>3. Cardinality(Pending') <= Cardinality(Pending) /\ Cardinality(Pending') \in Nat
        <4>1. /\ IsFiniteSet(Pending \ {p})
              /\ Cardinality(Pending \ {p}) = IF p \in Pending THEN Cardinality(Pending) - 1
                                                                  ELSE Cardinality(Pending)
          BY Counts, FS_RemoveElement, Zenon
        <4>2. Cardinality(Pending \ {p}) \in Nat
          BY <4>1, FS_CardinalityType
        <4>. QED
          BY <3>2, <4>1, <4>2, Counts
      <3>4. Occupied' = Occupied
        BY <3>1 DEF Occupied
      <3>5. \A q \in Pid : at'[q] = "fork.reserve" => at[q] = "fork.reserve"
        BY <3>1
      <3>. QED
        BY <3>1, <3>3, <3>4, <3>5, Counts DEF CountInv, Excess
    <2>12. ASSUME NEW p \in Pid, ScanTable(p) PROVE CountInv'
      <3>. DEFINE dead == {i \in Slot : processPids[i] # NoPid /\ life[processPids[i]] = "free"}
      <3>1. /\ at[p] = "scan.run" /\ at' = [at EXCEPT ![p] = "idle"]
            /\ processIds' = [i \in Slot |-> IF i \in dead THEN NoIndex ELSE processIds[i]]
            /\ currentProcessCount' = currentProcessCount - Cardinality(dead)
            /\ UNCHANGED crashes
        BY <2>12 DEF ScanTable
      <3>2. dead \subseteq Occupied
        BY DEF PairInv, Occupied
      <3>. HIDE DEF dead
      <3>3. Occupied' = Occupied \ dead
        BY <3>1, <3>2 DEF Occupied
      <3>4. Cardinality(Occupied') = Cardinality(Occupied) - Cardinality(dead)
            /\ Cardinality(dead) \in Nat
        <4>1. Occupied \cap dead = dead
          BY <3>2
        <4>2. IsFiniteSet(dead) /\ Cardinality(dead) \in Nat
          BY <3>2, Counts, FS_Subset, FS_CardinalityType
        <4>3. Cardinality(Occupied \ dead) = Cardinality(Occupied) - Cardinality(Occupied \cap dead)
          BY Counts, FS_Difference, Zenon
        <4>. QED
          BY <3>3, <4>1, <4>2, <4>3
      <3>5. Pending' = Pending
        BY <3>1 DEF Pending
      <3>6. \A q \in Pid : at'[q] = "fork.reserve" => at[q] = "fork.reserve"
        BY <3>1
      <3>. QED
        BY <3>1, <3>4, <3>5, <3>6, Counts DEF CountInv, Excess
    <2>13. ASSUME NEW p \in Pid, ReadStateId(p) \/ IncrementStateId(p) PROVE CountInv'
      BY <2>0, <2>13, Uncounted DEF ReadStateId, IncrementStateId, Pending
    <2>. QED
      BY <2>1, <2>2, <2>3, <2>41, <2>42, <2>43, <2>44, <2>45, <2>5, <2>6, <2>7, <2>8,
         <2>9, <2>10, <2>11, <2>12, <2>13 DEF Next, Continue
  <1>. QED
    BY <1>1, <1>2, TypeCorrect, Mutex, TableInvariant, PairInvariant, PTL DEF Spec

\* The count stays below the maximum and above what uses it, and is exact as long
\* as nobody is killed.
THEOREM CountCorrect == Spec => []CountKept
  <1>1. TypeOK /\ CountInv => CountKept
    BY Counts DEF CountInv, Excess, CapacityRespected, CountExact, CountKept
  <1>. QED
    BY <1>1, TypeCorrect, CountInvariant, PTL

\* No assert of fork(), initOutputDirectory() and ~S2E ever fails.
THEOREM TableAsserts == Spec => []NoAssertFails
  <1>. USE DEF Go
  <1>1. Init => NoAssertFails
    BY DEF Init, NoAssertFails
  <1>2. TypeOK /\ TableInv /\ CountInv /\ NoAssertFails /\ [Next]_vars => NoAssertFails'
    <2>. SUFFICES ASSUME TypeOK, TableInv, CountInv, NoAssertFails, [Next]_vars
                  PROVE  NoAssertFails'
      OBVIOUS
    <2>. at \in [Pid -> Waiting \cup Inside \cup Outside]
      BY DEF TypeOK
    <2>. USE DEF NoAssertFails
    <2>1. CASE UNCHANGED vars
      BY <2>1 DEF vars
    <2>2. ASSUME NEW p \in Pid, Begin(p) \/ Acquire(p) PROVE NoAssertFails'
      BY <2>2, BeginMoves DEF Moves, Acquire, Entry, Waiting
    <2>3. ASSUME NEW p \in Pid, FindSlot(p) PROVE NoAssertFails'
      BY <2>3, EntryIsFree DEF FindSlot
    <2>4. ASSUME NEW p \in Pid, MakeOutputDir(p) PROVE NoAssertFails'
      BY <2>4 DEF MakeOutputDir, TableInv
    <2>5. ASSUME NEW p \in Pid, Unregister(p) PROVE NoAssertFails'
      BY <2>5 DEF Unregister, TableInv, Registered
    <2>6. ASSUME NEW p \in Pid, ForkRefused(p) \/ ForkAdmitted(p) \/ ForkReserve(p)
                        \/ ForkFails(p) \/ ForkUndo(p) \/ \E c \in Pid : ForkChild(p, c)
          PROVE NoAssertFails'
      BY <2>6 DEF ForkRefused, ForkAdmitted, ForkReserve, ForkFails, ForkUndo, ForkChild
    <2>7. ASSUME NEW p \in Pid, Register(p) \/ ProcessEnds(p) \/ Crash(p) PROVE NoAssertFails'
      BY <2>7 DEF Register, ProcessEnds, Crash, Dies
    <2>8. ASSUME NEW p \in Pid, ScanTable(p) \/ ReadStateId(p) \/ IncrementStateId(p)
          PROVE NoAssertFails'
      BY <2>8 DEF ScanTable, ReadStateId, IncrementStateId
    <2>. QED
      BY <2>1, <2>2, <2>3, <2>4, <2>5, <2>6, <2>7, <2>8 DEF Next, Continue
  <1>. QED
    BY <1>1, <1>2, TypeCorrect, TableInvariant, CountInvariant, PTL DEF Spec

-----------------------------------------------------------------------------
(* Numbers *)

\* The bit that findFree() and allocPage() look for exists and is the lowest.
LEMMA LeastElement ==
  ASSUME NEW S \in SUBSET Nat, S # {}
  PROVE  Min(S) \in S /\ \A x \in S : Min(S) <= x
  <1>1. PICK m \in S : \A y \in S : ~(<<y, m>> \in OpToRel(<, Nat))
    BY NatLessThanWellFounded, WFMin, Zenon
  <1>2. \A y \in S : m <= y
    <2>1. SUFFICES ASSUME NEW y \in S, y < m PROVE FALSE
      OBVIOUS
    <2>2. <<y, m>> \in OpToRel(<, Nat)
      BY <2>1, SMT DEF OpToRel
    <2>. QED BY <1>1, <2>2, Zenon
  <1>. QED BY <1>2, Zenon DEF Min

\* Blocks of n bytes: block i ends before block j begins.
LEMMA Multiples ==
  ASSUME NEW i \in Nat, NEW j \in Nat, NEW n \in Nat
  PROVE  i * n \in Nat /\ (i < j => i * n + n <= j * n)
  <1>1. i * n \in Nat
    OBVIOUS
  <1>2. ASSUME i < j PROVE i * n + n <= j * n
    <2>1. (j - i - 1) * n >= 0
      BY <1>2
    <2>2. (j - i - 1) * n = j * n - i * n - n
      OBVIOUS
    <2>. QED BY <2>1, <2>2
  <1>. QED BY <1>1, <1>2

\* The address of a block gives its number.
LEMMA Quotient ==
  ASSUME NEW i \in Nat, NEW n \in Nat \ {0}
  PROVE  (i * n) \div n = i
  OBVIOUS

\* As many blocks of n bytes as fit into r bytes.
LEMMA Fitting ==
  ASSUME NEW r \in Nat, NEW n \in Nat \ {0}
  PROVE  r \div n \in Nat /\ (r \div n) * n <= r /\ (2 * n <= r => 2 <= r \div n)
  OBVIOUS

\* An interval has as many elements as its bound says.
LEMMA Interval ==
  ASSUME NEW n \in Nat
  PROVE  IsFiniteSet(0 .. n - 1) /\ Cardinality(0 .. n - 1) = n
  <1>1. n - 1 \in Int /\ 0 \in Int
    OBVIOUS
  <1>. QED BY <1>1, FS_Interval

\* A page has at least two blocks of its class and fewer than its mask has bits.
BlockIndex(k) == 0 .. BlocksPerPage(k) - 1

LEMMA Blocks ==
  ASSUME NEW k \in Class
  PROVE  /\ BlockSize[k] \in Nat \ {0}
         /\ BlocksPerPage(k) \in Nat /\ BlocksPerPage(k) >= 2
         /\ BlocksPerPage(k) * BlockSize[k] <= Room
         /\ BlockIndex(k) \subseteq Mask
         /\ IsFiniteSet(BlockIndex(k)) /\ Cardinality(BlockIndex(k)) = BlocksPerPage(k)
  <1>. USE SlabAllocatorAssumption
  <1>1. BlockSize[k] \in Nat \ {0} /\ 2 * BlockSize[k] <= Room
        /\ Room \div BlockSize[k] < MaskBits /\ Room \in Nat
    OBVIOUS
  <1>2. /\ BlocksPerPage(k) \in Nat /\ BlocksPerPage(k) >= 2
        /\ BlocksPerPage(k) * BlockSize[k] <= Room
    BY <1>1, Fitting DEF BlocksPerPage
  <1>3. BlockIndex(k) \subseteq Mask
    BY <1>1, <1>2 DEF BlockIndex, Mask, BlocksPerPage
  <1>4. IsFiniteSet(BlockIndex(k)) /\ Cardinality(BlockIndex(k)) = BlocksPerPage(k)
    BY <1>2, Interval, Zenon DEF BlockIndex
  <1>. QED BY <1>1, <1>2, <1>3, <1>4

-----------------------------------------------------------------------------
(* The inductive invariant of the BlockAllocators.  The headers and two of    *)
(* the counters are parameters: AllocExpanding goes through a state in which  *)
(* the new page is linked in and no block of it is taken.                     *)

PagesOf(P, k) == {p \in Page : P[p].owner = k}
FullOf(P, k) == {p \in PagesOf(P, k) : P[p].list = "busy"}
Owned(P) == {p \in Page : P[p].owner # NoClass}
UsedOf(p) == {b \in held : b.page = p}
HeldOf(P, k) == {b \in held : P[b.page].owner = k}
Number(k, b) == b.at \div BlockSize[k]

Header == [owner : Class \cup {NoClass}, list : {"none", "totallyFree", "free", "busy"},
           mask : SUBSET Mask, freeCount : Int]
Chunks == [page : Page, at : Nat, size : Nat]

Types(P, free, blocks) ==
  /\ P \in [Page -> Header]
  /\ free \in [Class -> Int] /\ busyPagesCount \in [Class -> Int]
  /\ blocks \in [Class -> Int] /\ allocatedBlocksCount \in [Class -> Int]
  /\ held \in SUBSET Chunks
  /\ IsFiniteSet(held) /\ IsFiniteSet(Owned(P))

\* A block in use is one of the blocks of a page of its class and large enough.
Placed(P, b) ==
  LET k == P[b.page].owner
  IN  /\ k \in Class /\ b.size \in Size /\ b.size <= BlockSize[k]
      /\ \E i \in BlockIndex(k) : b.at = i * BlockSize[k]

Apart == \A b, c \in held : b.page = c.page /\ b.at = c.at => b = c

\* What HeadersConsistent says of a page, and of a class.
PageRight(P, p) ==
  LET k == P[p].owner
  IN  /\ Mask \ P[p].mask = {Number(k, b) : b \in UsedOf(p)}
      /\ P[p].freeCount + Cardinality(UsedOf(p)) = BlocksPerPage(k)
      /\ P[p].list = CASE P[p].freeCount = 0 -> "busy"
                       [] P[p].freeCount = BlocksPerPage(k) -> "totallyFree"
                       [] OTHER -> "free"

ClassRight(P, free, blocks, k) ==
  /\ busyPagesCount[k] = Cardinality(FullOf(P, k))
  /\ free[k] = Cardinality(PagesOf(P, k) \ FullOf(P, k))
  /\ blocks[k] + allocatedBlocksCount[k] = Cardinality(PagesOf(P, k)) * BlocksPerPage(k)
  /\ allocatedBlocksCount[k] = Cardinality(HeldOf(P, k))

Right(P, free, blocks) ==
  /\ Types(P, free, blocks)
  /\ \A b \in held : Placed(P, b)
  /\ Apart
  /\ \A p \in Page : IF P[p].owner = NoClass THEN P[p] = Blank ELSE PageRight(P, p)
  /\ \A k \in Class : ClassRight(P, free, blocks, k)

SlabInv == Right(page, freePagesCount, freeBlocksCount) /\ aborted = FALSE

-----------------------------------------------------------------------------
(* What the invariant says of a page and of a class *)

\* The sets that are counted are finite.
LEMMA Counted ==
  ASSUME NEW STATE P, NEW STATE free, NEW STATE blocks, Types(P, free, blocks)
  PROVE  /\ \A p : IsFiniteSet(UsedOf(p)) /\ Cardinality(UsedOf(p)) \in Nat
         /\ \A k \in Class :
              /\ IsFiniteSet(PagesOf(P, k)) /\ Cardinality(PagesOf(P, k)) \in Nat
              /\ IsFiniteSet(FullOf(P, k)) /\ Cardinality(FullOf(P, k)) \in Nat
              /\ IsFiniteSet(HeldOf(P, k)) /\ Cardinality(HeldOf(P, k)) \in Nat
  <1>1. \A p : UsedOf(p) \in SUBSET held
    BY DEF UsedOf
  <1>2. \A k \in Class : /\ PagesOf(P, k) \in SUBSET Owned(P)
                         /\ FullOf(P, k) \in SUBSET Owned(P)
                         /\ HeldOf(P, k) \in SUBSET held
    BY SlabAllocatorAssumption DEF PagesOf, FullOf, HeldOf, Owned
  <1>3. IsFiniteSet(held) /\ IsFiniteSet(Owned(P))
    BY DEF Types
  <1>. QED BY <1>1, <1>2, <1>3, FS_Subset, FS_CardinalityType

\* The number of a block in use, from its address.
LEMMA Numbers ==
  ASSUME NEW STATE P, NEW b, Placed(P, b)
  PROVE  LET k == P[b.page].owner
         IN  /\ k \in Class /\ Number(k, b) \in BlockIndex(k)
             /\ b.at = Number(k, b) * BlockSize[k]
  <1>. DEFINE k == P[b.page].owner
  <1>1. PICK i \in BlockIndex(k) : b.at = i * BlockSize[k]
    BY DEF Placed
  <1>2. k \in Class /\ i \in Nat
    BY DEF Placed, BlockIndex
  <1>3. Number(k, b) = i
    BY <1>1, <1>2, Blocks, Quotient DEF Number
  <1>. QED BY <1>1, <1>2, <1>3

\* Two blocks of a page have different numbers.
LEMMA NumbersDiffer ==
  ASSUME Apart, NEW STATE P, NEW b \in held, NEW c \in held, Placed(P, b), Placed(P, c),
         b.page = c.page, Number(P[b.page].owner, b) = Number(P[b.page].owner, c)
  PROVE  b = c
  BY Numbers DEF Apart

\* The header counts the free blocks of its page: none is missing when it says so, and
\* the mask has one when it counts one.
LEMMA FreeBlocks ==
  ASSUME NEW STATE P, NEW STATE free, NEW STATE blocks, Right(P, free, blocks),
         NEW p \in Page, P[p].owner \in Class
  PROVE  LET k == P[p].owner
         IN  /\ P[p].freeCount \in 0 .. BlocksPerPage(k)
             /\ P[p].freeCount = 0 =>
                  \A i \in BlockIndex(k) : \E b \in UsedOf(p) : Number(k, b) = i
             /\ P[p].freeCount # 0 => \E i \in BlockIndex(k) : i \in P[p].mask
  <1>. DEFINE k == P[p].owner
              used == UsedOf(p)
              blockNumbers == BlockIndex(k)
              f == [b \in used |-> Number(k, b)]
  <1>1. /\ k \in Class /\ PageRight(P, p) /\ P \in [Page -> Header] /\ Apart
        /\ \A b \in used : b \in held /\ b.page = p /\ Placed(P, b)
    BY SlabAllocatorAssumption DEF Right, Types, UsedOf
  <1>2. IsFiniteSet(used) /\ Cardinality(used) \in Nat
    BY Counted DEF Right
  <1>3. /\ IsFiniteSet(blockNumbers) /\ Cardinality(blockNumbers) = BlocksPerPage(k)
        /\ BlocksPerPage(k) \in Nat /\ blockNumbers \subseteq Mask
    BY <1>1, Blocks
  <1>4. \A b \in used : Number(k, b) \in blockNumbers
    BY <1>1, Numbers
  <1>5. \A b, c \in used : Number(k, b) = Number(k, c) => b = c
    BY <1>1, NumbersDiffer
  <1>. HIDE DEF used, blockNumbers
  <1>6. f \in Injection(used, blockNumbers)
    BY <1>4, <1>5 DEF Injection, IsInjective
  <1>7. /\ Cardinality(used) <= BlocksPerPage(k)
        /\ Cardinality(used) = BlocksPerPage(k) <=> f \in Surjection(used, blockNumbers)
    BY <1>3, <1>6, FS_Injection
  <1>8. P[p].freeCount \in Int /\ P[p].freeCount + Cardinality(used) = BlocksPerPage(k)
    BY <1>1 DEF PageRight, Header, used
  <1>9. P[p].freeCount \in 0 .. BlocksPerPage(k)
    BY <1>2, <1>3, <1>7, <1>8
  <1>10. P[p].freeCount = 0 <=> \A i \in blockNumbers : \E b \in used : Number(k, b) = i
    <2>1. P[p].freeCount = 0 <=> f \in Surjection(used, blockNumbers)
      BY <1>2, <1>3, <1>7, <1>8
    <2>2. f \in Surjection(used, blockNumbers)
            <=> \A i \in blockNumbers : \E b \in used : f[b] = i
      BY <1>6 DEF Surjection, Injection
    <2>. QED BY <2>1, <2>2
  <1>11. \A i \in blockNumbers : i \notin P[p].mask => \E b \in used : Number(k, b) = i
    <2>1. Mask \ P[p].mask = {Number(k, b) : b \in used}
      BY <1>1 DEF PageRight, used
    <2>. QED BY <2>1, <1>3
  <1>12. P[p].freeCount # 0 => \E i \in blockNumbers : i \in P[p].mask
    BY <1>10, <1>11
  <1>. QED BY <1>9, <1>10, <1>12 DEF blockNumbers, used

\* alloc() finds a page in the lists of free ones when it counts a free block.
LEMMA SomePageFree ==
  ASSUME NEW STATE P, NEW STATE free, NEW STATE blocks, Right(P, free, blocks),
         NEW k \in Class, blocks[k] # 0
  PROVE  \E p \in PagesOf(P, k) : P[p].freeCount # 0
  <1>1. SUFFICES ASSUME \A p \in PagesOf(P, k) : P[p].freeCount = 0 PROVE FALSE
    OBVIOUS
  <1>. DEFINE pages == PagesOf(P, k)
              all == pages \X BlockIndex(k)
              used == HeldOf(P, k)
              f == [b \in used |-> <<b.page, Number(k, b)>>]
  <1>2. /\ Types(P, free, blocks) /\ ClassRight(P, free, blocks, k) /\ Apart
        /\ \A b \in used : b \in held /\ Placed(P, b) /\ P[b.page].owner = k /\ b.page \in Page
    BY DEF Right, Types, HeldOf, Chunks
  <1>3. /\ IsFiniteSet(pages) /\ Cardinality(pages) \in Nat
        /\ IsFiniteSet(used) /\ Cardinality(used) \in Nat
    BY <1>2, Counted
  <1>4. /\ IsFiniteSet(BlockIndex(k)) /\ Cardinality(BlockIndex(k)) = BlocksPerPage(k)
        /\ BlocksPerPage(k) \in Nat
    BY Blocks
  <1>5. IsFiniteSet(all) /\ Cardinality(all) = Cardinality(pages) * BlocksPerPage(k)
    BY <1>3, <1>4, FS_Product
  <1>6. \A b \in used : f[b] \in all
    BY <1>2, Numbers DEF PagesOf
  <1>7. \A b, c \in used : f[b] = f[c] => b = c
    <2>1. SUFFICES ASSUME NEW b \in used, NEW c \in used, f[b] = f[c] PROVE b = c
      OBVIOUS
    <2>2. b.page = c.page /\ Number(k, b) = Number(k, c)
      BY <2>1
    <2>. QED BY <2>2, <1>2, NumbersDiffer
  <1>8. \A x \in all : \E b \in used : f[b] = x
    <2>. TAKE x \in all
    <2>1. PICK p \in pages, i \in BlockIndex(k) : x = <<p, i>>
      OBVIOUS
    <2>2. p \in Page /\ P[p].owner = k /\ P[p].freeCount = 0
      BY <1>1 DEF PagesOf
    <2>3. PICK b \in UsedOf(p) : Number(k, b) = i
      BY <2>2, FreeBlocks
    <2>4. b \in used /\ b.page = p
      BY <2>2 DEF UsedOf, HeldOf
    <2>. QED BY <2>1, <2>3, <2>4
  <1>. HIDE DEF all, used, f
  <1>9. f \in Injection(used, all) /\ f \in Surjection(used, all)
    <2>1. f \in [used -> all]
      BY <1>6 DEF f
    <2>. QED BY <2>1, <1>7, <1>8 DEF Injection, IsInjective, Surjection
  <1>10. Cardinality(used) = Cardinality(all)
    BY <1>5, <1>9, FS_Injection
  <1>11. blocks[k] + Cardinality(used) = Cardinality(all) /\ blocks[k] \in Int
    BY <1>2, <1>5 DEF ClassRight, used, Types
  <1>. QED BY <1>3, <1>10, <1>11

-----------------------------------------------------------------------------
(* BlockAllocator::alloc *)

\* The page at the head of the list has a free block, and the first bit of its mask is
\* one: the bits of the mask beyond the last block stay behind it.
LEMMA HeadHasBlock ==
  ASSUME NEW STATE P, NEW STATE free, NEW STATE blocks, Right(P, free, blocks),
         NEW k \in Class, NEW p \in Candidates(k, P)
  PROVE  /\ p \in Page /\ P[p].owner = k /\ P[p].list # "busy"
         /\ P[p].freeCount \in 1 .. BlocksPerPage(k)
         /\ P[p].mask # {} /\ Min(P[p].mask) \in P[p].mask
         /\ Min(P[p].mask) \in BlockIndex(k)
  <1>1. p \in Page /\ P[p].owner = k /\ P[p].list \in {"free", "totallyFree"}
    BY DEF Candidates, InList
  <1>2. PageRight(P, p) /\ P[p].mask \in SUBSET Nat /\ MaskBits \in Nat
    BY <1>1, SlabAllocatorAssumption DEF Right, Types, Header, Mask
  <1>3. BlocksPerPage(k) \in Nat /\ BlocksPerPage(k) >= 2
    BY Blocks
  <1>4. P[p].freeCount # 0
    <2>1. P[p].list = CASE P[p].freeCount = 0 -> "busy"
                        [] P[p].freeCount = BlocksPerPage(k) -> "totallyFree"
                        [] OTHER -> "free"
      BY <1>1, <1>2 DEF PageRight
    <2>. QED BY <1>1, <1>3, <2>1
  <1>5. P[p].freeCount \in 0 .. BlocksPerPage(k) /\ \E i \in BlockIndex(k) : i \in P[p].mask
    <2>1. P[p].owner \in Class
      BY <1>1
    <2>2. /\ P[p].freeCount \in 0 .. BlocksPerPage(P[p].owner)
          /\ P[p].freeCount # 0 => \E i \in BlockIndex(P[p].owner) : i \in P[p].mask
      BY <1>1, <2>1, FreeBlocks
    <2>. QED BY <1>1, <1>4, <2>2
  <1>6. PICK i \in BlockIndex(k) : i \in P[p].mask
    BY <1>5
  <1>7. Min(P[p].mask) \in P[p].mask /\ Min(P[p].mask) <= i
    BY <1>2, <1>6, LeastElement
  <1>8. Min(P[p].mask) \in BlockIndex(k)
    BY <1>2, <1>3, <1>6, <1>7 DEF BlockIndex
  <1>9. P[p].freeCount \in 1 .. BlocksPerPage(k)
    BY <1>4, <1>3, <1>5
  <1>. QED BY <1>1, <1>6, <1>7, <1>8, <1>9

\* The lists are not empty when the allocator counts a free block.
LEMMA HeadExists ==
  ASSUME NEW STATE P, NEW STATE free, NEW STATE blocks, Right(P, free, blocks),
         NEW k \in Class, blocks[k] # 0
  PROVE  Candidates(k, P) # {}
  <1>1. PICK p \in PagesOf(P, k) : P[p].freeCount # 0
    BY SomePageFree
  <1>2. p \in Page /\ P[p].owner = k /\ PageRight(P, p)
    BY <1>1, SlabAllocatorAssumption DEF PagesOf, Right
  <1>3. P[p].list \in {"free", "totallyFree"}
    BY <1>1, <1>2 DEF PageRight
  <1>4. p \in InList(k, P, "free") \/ p \in InList(k, P, "totallyFree")
    BY <1>2, <1>3 DEF InList
  <1>. QED BY <1>4 DEF Candidates

\* A block whose bit is set is free memory: it lies in the page and meets no block in
\* use.
LEMMA BlockIsFree ==
  ASSUME NEW STATE P, NEW STATE free, NEW STATE blocks, Right(P, free, blocks),
         NEW p \in Page, NEW k \in Class, P[p].owner = k,
         NEW i \in BlockIndex(k), i \in P[p].mask,
         NEW size \in Size, size <= BlockSize[k]
  PROVE  LET b == [page |-> p, at |-> i * BlockSize[k], size |-> size]
         IN  /\ b \in Chunk /\ b \in Chunks /\ Placed(P, b) /\ Number(k, b) = i
             /\ \A c \in held : ~(c.page = p /\ c.at = b.at)
             /\ \A c \in held : Cells(b) \cap Cells(c) = {}
  <1>. DEFINE n == BlockSize[k]
              b == [page |-> p, at |-> i * n, size |-> size]
  <1>1. /\ n \in Nat \ {0} /\ BlocksPerPage(k) \in Nat /\ BlocksPerPage(k) * n <= Room
        /\ Room \in Nat /\ size \in Nat \ {0} /\ i \in Nat /\ i < BlocksPerPage(k)
        /\ BlockIndex(k) \subseteq Mask
    BY Blocks, SlabAllocatorAssumption DEF BlockIndex
  <1>2. /\ i * n \in Nat /\ i * n + n <= BlocksPerPage(k) * n
        /\ BlocksPerPage(k) * n \in Nat
    BY <1>1, Multiples, Zenon
  <1>3. b \in Chunk /\ b \in Chunks
    <2>1. i * n + size <= Room /\ i * n <= Room - 1
      <3>. HIDE DEF n
      <3>1. size <= n
        BY DEF n
      <3>. QED BY <1>1, <1>2, <3>1
    <2>2. i * n \in 0 .. Room - 1
      BY <1>1, <1>2, <2>1
    <2>. QED BY <1>1, <1>2, <2>1, <2>2 DEF Chunk, Block, Chunks
  <1>4. Placed(P, b) /\ Number(k, b) = i
    BY <1>1, Quotient DEF Placed, Number
  <1>5. ASSUME NEW c \in held, c.page = p
        PROVE  c.at # b.at /\ Cells(b) \cap Cells(c) = {}
    <2>. DEFINE j == Number(k, c)
    <2>1. Placed(P, c) /\ PageRight(P, p) /\ c \in UsedOf(p)
      BY <1>5, SlabAllocatorAssumption DEF Right, UsedOf
    <2>2. /\ c.at = j * n /\ j \in Nat
          /\ c.size \in Nat \ {0} /\ c.size <= n
      <3>1. P[c.page].owner = k
        BY <1>5
      <3>2. c.at = j * n /\ j \in BlockIndex(k)
        BY <2>1, <3>1, Numbers
      <3>3. j \in Nat
        BY <1>1, <3>2 DEF BlockIndex
      <3>4. c.size \in Size /\ c.size <= n
        BY <2>1, <3>1 DEF Placed
      <3>. QED BY <3>2, <3>3, <3>4, SlabAllocatorAssumption, Zenon
    <2>3. j # i
      BY <1>1, <2>1 DEF PageRight
    <2>. HIDE DEF j, n
    <2>4. \/ i * n + n <= j * n
          \/ j * n + n <= i * n
      BY <1>1, <2>2, <2>3, Multiples
    <2>5. j * n \in Nat
      BY <1>1, <2>2, Multiples
    <2>6. size <= n
      BY DEF n
    <2>7. c.at # b.at
      BY <1>1, <1>2, <2>2, <2>4, <2>5
    <2>8. ASSUME NEW o \in Int, o \in i * n .. i * n + size - 1,
                 o \in c.at .. c.at + c.size - 1
          PROVE  FALSE
      <3>. DEFINE x == i * n
                  y == j * n
      <3>1. /\ x \in Nat /\ y \in Nat /\ (x + n <= y \/ y + n <= x) /\ c.at = y
            /\ x <= o /\ o <= x + size - 1 /\ c.at <= o /\ o <= c.at + c.size - 1
        BY <1>1, <1>2, <2>2, <2>4, <2>5, <2>8
      <3>. HIDE DEF x, y
      <3>. QED BY <3>1, <1>1, <2>2, <2>6
    <2>9. Cells(b) = {<<p, o>> : o \in i * n .. i * n + size - 1}
      BY DEF Cells
    <2>10. Cells(c) = {<<p, o>> : o \in c.at .. c.at + c.size - 1}
      BY <1>5 DEF Cells
    <2>11. Cells(b) \cap Cells(c) = {}
      BY <1>1, <1>2, <2>8, <2>9, <2>10
    <2>. QED BY <2>7, <2>11
  <1>6. ASSUME NEW c \in held, c.page # p PROVE Cells(b) \cap Cells(c) = {}
    BY <1>6 DEF Cells
  <1>. QED BY <1>3, <1>4, <1>5, <1>6

\* A counter of a class that changes is still a counter.
LEMMA Counter ==
  ASSUME NEW f \in [Class -> Int], NEW k \in Class, NEW n \in Int
  PROVE  [f EXCEPT ![k] = n] \in [Class -> Int] /\ f[k] \in Int
  OBVIOUS

\* alloc() without expand(): the headers and the counters of the class, as expand() has
\* left them, are P, free and blocks.
Takes(P, free, blocks, k, size) ==
  /\ Right(P, free, blocks) /\ ~aborted
  /\ k \in Log(size) /\ size \in Size /\ blocks[k] # 0
  /\ freePagesCount \in [Class -> Int] /\ freeBlocksCount \in [Class -> Int]
  /\ \A j \in Class \ {k} : free[j] = freePagesCount[j] /\ blocks[j] = freeBlocksCount[j]
  /\ TakeBlock(k, size, P, free[k], blocks[k])

\* The step of alloc(), its asserts passed.
Took(P, free, blocks, k, size, p, i) ==
  LET left == P[p].freeCount - 1
  IN  /\ page' = [P EXCEPT ![p].mask = @ \ {i}, ![p].freeCount = left,
                           ![p].list = ListAfterAlloc(k, @, left)]
      /\ freeBlocksCount' = [freeBlocksCount EXCEPT ![k] = blocks[k] - 1]
      /\ freePagesCount' = [freePagesCount EXCEPT ![k] =
                              IF left = 0 THEN free[k] - 1 ELSE free[k]]
      /\ busyPagesCount' = [busyPagesCount EXCEPT ![k] = IF left = 0 THEN @ + 1 ELSE @]
      /\ allocatedBlocksCount' = [allocatedBlocksCount EXCEPT ![k] = @ + 1]
      /\ held' = held \cup {[page |-> p, at |-> i * BlockSize[k], size |-> size]}
      /\ UNCHANGED aborted

LEMMA TakeIsTook ==
  ASSUME NEW STATE P, NEW STATE free, NEW STATE blocks, NEW k, NEW size,
         Takes(P, free, blocks, k, size)
  PROVE  /\ k \in Class /\ size \in Size /\ size <= BlockSize[k]
         /\ \E p \in Page, i \in BlockIndex(k) :
              /\ P[p].owner = k /\ i \in P[p].mask /\ P[p].list # "busy"
              /\ P[p].freeCount \in 1 .. BlocksPerPage(k)
              /\ Took(P, free, blocks, k, size, p, i)
  <1>1. k \in Class /\ size \in Size /\ size <= BlockSize[k]
    BY DEF Takes, Log
  <1>2. Right(P, free, blocks) /\ blocks[k] # 0
    BY DEF Takes
  <1>3. Candidates(k, P) # {}
    BY <1>1, <1>2, HeadExists
  <1>4. \A p \in Candidates(k, P) :
          /\ p \in Page /\ P[p].owner = k /\ P[p].list # "busy"
          /\ P[p].freeCount \in 1 .. BlocksPerPage(k)
          /\ P[p].mask # {} /\ Min(P[p].mask) \in P[p].mask
          /\ Min(P[p].mask) \in BlockIndex(k)
    BY <1>1, <1>2, HeadHasBlock
  <1>5. \A p \in Candidates(k, P) : ~(P[p].freeCount <= 0 \/ P[p].mask = {})
    BY <1>1, <1>4, Blocks
  <1>6. PICK p \in Candidates(k, P) : Took(P, free, blocks, k, size, p, Min(P[p].mask))
    BY <1>3, <1>5, Zenon DEF Takes, TakeBlock, Took
  <1>. QED BY <1>1, <1>4, <1>6

\* What the step changes in the sets that the invariant counts.
LEMMA TookSets ==
  ASSUME NEW STATE P, NEW STATE free, NEW STATE blocks, Right(P, free, blocks),
         NEW k \in Class, NEW size \in Size, size <= BlockSize[k],
         NEW p \in Page, NEW i \in BlockIndex(k),
         P[p].owner = k, i \in P[p].mask, P[p].list # "busy",
         P[p].freeCount \in 1 .. BlocksPerPage(k),
         Took(P, free, blocks, k, size, p, i)
  PROVE  LET b == [page |-> p, at |-> i * BlockSize[k], size |-> size]
         IN  /\ page' \in [Page -> Header]
             /\ \A q \in Page : /\ page'[q].owner = P[q].owner
                                /\ q # p => page'[q] = P[q] /\ UsedOf(q)' = UsedOf(q)
             /\ page'[p].mask = P[p].mask \ {i} /\ page'[p].freeCount = P[p].freeCount - 1
             /\ page'[p].list = ListAfterAlloc(k, P[p].list, P[p].freeCount - 1)
             /\ UsedOf(p)' = UsedOf(p) \cup {b} /\ b \notin UsedOf(p)
             /\ Owned(page)' = Owned(P)
             /\ \A j \in Class \ {k} : /\ HeldOf(page, j)' = HeldOf(P, j)
                                       /\ FullOf(page, j)' = FullOf(P, j)
             /\ HeldOf(page, k)' = HeldOf(P, k) \cup {b} /\ b \notin HeldOf(P, k)
             /\ \A j \in Class : PagesOf(page, j)' = PagesOf(P, j)
             /\ FullOf(page, k)' = IF P[p].freeCount = 1 THEN FullOf(P, k) \cup {p}
                                                         ELSE FullOf(P, k)
             /\ p \in PagesOf(P, k) /\ p \notin FullOf(P, k)
  <1>. DEFINE b == [page |-> p, at |-> i * BlockSize[k], size |-> size]
              left == P[p].freeCount - 1
  <1>1. P \in [Page -> Header] /\ k # NoClass /\ NoClass \notin Class
        /\ \A c \in held : c.page \in Page
    BY SlabAllocatorAssumption DEF Right, Types, Chunks
  <1>2. BlocksPerPage(k) \in Nat /\ left \in Int /\ left < BlocksPerPage(k)
    BY Blocks
  <1>3. ListAfterAlloc(k, P[p].list, left) \in {"none", "totallyFree", "free", "busy"}
        /\ (ListAfterAlloc(k, P[p].list, left) = "busy" <=> left = 0)
    <2>1. P[p].list \in {"none", "totallyFree", "free", "busy"}
      BY <1>1 DEF Header
    <2>. QED BY <2>1, <1>2 DEF ListAfterAlloc
  <1>4. /\ page' = [P EXCEPT ![p].mask = @ \ {i}, ![p].freeCount = left,
                             ![p].list = ListAfterAlloc(k, @, left)]
        /\ held' = held \cup {b}
    BY DEF Took
  <1>5. \A q \in Page : q # p => page'[q] = P[q]
    BY <1>1, <1>4
  <1>6. page'[p] = [P[p] EXCEPT !.mask = @ \ {i}, !.freeCount = left,
                                !.list = ListAfterAlloc(k, @, left)]
    BY <1>1, <1>4
  <1>7. /\ page'[p].owner = k /\ page'[p].mask = P[p].mask \ {i}
        /\ page'[p].freeCount = left /\ page'[p].list = ListAfterAlloc(k, P[p].list, left)
        /\ page'[p] \in Header
    <2>1. P[p] \in Header
      BY <1>1
    <2>. QED BY <1>1, <1>2, <1>3, <1>6, <2>1, ZenonT(60) DEF Header
  <1>8. page' \in [Page -> Header]
    BY <1>1, <1>4, <1>5, <1>7
  <1>9. \A q \in Page : page'[q].owner = P[q].owner
    BY <1>5, <1>7
  <1>10. b \notin held
    BY BlockIsFree
  <1>11. /\ UsedOf(p)' = UsedOf(p) \cup {b} /\ b \notin UsedOf(p)
         /\ \A q \in Page : q # p => UsedOf(q)' = UsedOf(q)
    BY <1>4, <1>10 DEF UsedOf
  <1>12. Owned(page)' = Owned(P) /\ \A j \in Class : PagesOf(page, j)' = PagesOf(P, j)
    BY <1>9 DEF Owned, PagesOf
  <1>13. /\ \A j \in Class \ {k} : HeldOf(page, j)' = HeldOf(P, j)
         /\ HeldOf(page, k)' = HeldOf(P, k) \cup {b} /\ b \notin HeldOf(P, k)
    BY <1>1, <1>4, <1>9, <1>10 DEF HeldOf
  <1>14. \A j \in Class \ {k} : FullOf(page, j)' = FullOf(P, j)
    BY <1>5, <1>12 DEF FullOf, PagesOf
  <1>15. /\ FullOf(page, k)' = IF P[p].freeCount = 1 THEN FullOf(P, k) \cup {p}
                                                     ELSE FullOf(P, k)
         /\ p \in PagesOf(P, k) /\ p \notin FullOf(P, k)
    <2>1. left = 0 <=> P[p].freeCount = 1
      OBVIOUS
    <2>. QED BY <2>1, <1>3, <1>5, <1>7, <1>12 DEF FullOf, PagesOf
  <1>. QED BY <1>5, <1>7, <1>8, <1>9, <1>11, <1>12, <1>13, <1>14, <1>15

\* alloc() keeps the books right, and what it hands out is free memory.
LEMMA TakeKeepsRight ==
  ASSUME NEW STATE P, NEW STATE free, NEW STATE blocks, NEW k, NEW size,
         Takes(P, free, blocks, k, size)
  PROVE  /\ Right(page, freePagesCount, freeBlocksCount)' /\ UNCHANGED aborted
         /\ Owned(page)' = Owned(P)
         /\ \E b \in Chunk : H!Alloc(b)
  <1>1. k \in Class /\ size \in Size /\ size <= BlockSize[k] /\ Right(P, free, blocks)
    BY TakeIsTook, Zenon DEF Takes
  <1>2. PICK p \in Page, i \in BlockIndex(k) :
          /\ P[p].owner = k /\ i \in P[p].mask /\ P[p].list # "busy"
          /\ P[p].freeCount \in 1 .. BlocksPerPage(k)
          /\ Took(P, free, blocks, k, size, p, i)
    BY TakeIsTook
  <1>. DEFINE b == [page |-> p, at |-> i * BlockSize[k], size |-> size]
              left == P[p].freeCount - 1
  <1>3. /\ b \in Chunk /\ b \in Chunks /\ Placed(P, b) /\ Number(k, b) = i
        /\ \A c \in held : ~(c.page = p /\ c.at = b.at)
        /\ \A c \in held : Cells(b) \cap Cells(c) = {}
    BY <1>1, <1>2, BlockIsFree
  <1>4. /\ page' \in [Page -> Header]
        /\ \A q \in Page : /\ page'[q].owner = P[q].owner
                           /\ q # p => page'[q] = P[q] /\ UsedOf(q)' = UsedOf(q)
        /\ page'[p].mask = P[p].mask \ {i} /\ page'[p].freeCount = left
        /\ page'[p].list = ListAfterAlloc(k, P[p].list, left)
        /\ UsedOf(p)' = UsedOf(p) \cup {b} /\ b \notin UsedOf(p)
        /\ Owned(page)' = Owned(P)
    BY <1>1, <1>2, TookSets
  <1>5. /\ \A j \in Class \ {k} : /\ HeldOf(page, j)' = HeldOf(P, j)
                                  /\ FullOf(page, j)' = FullOf(P, j)
        /\ HeldOf(page, k)' = HeldOf(P, k) \cup {b} /\ b \notin HeldOf(P, k)
        /\ \A j \in Class : PagesOf(page, j)' = PagesOf(P, j)
        /\ FullOf(page, k)' = IF P[p].freeCount = 1 THEN FullOf(P, k) \cup {p}
                                                    ELSE FullOf(P, k)
        /\ p \in PagesOf(P, k) /\ p \notin FullOf(P, k)
    BY <1>1, <1>2, TookSets
  <1>6. /\ Types(P, free, blocks) /\ Apart
        /\ \A c \in held : Placed(P, c) /\ c.page \in Page
        /\ \A q \in Page : IF P[q].owner = NoClass THEN P[q] = Blank ELSE PageRight(P, q)
        /\ \A j \in Class : ClassRight(P, free, blocks, j)
        /\ k # NoClass /\ NoClass \notin Class
    BY <1>1, SlabAllocatorAssumption DEF Right, Types, Chunks
  <1>7. /\ held' = held \cup {b} /\ UNCHANGED aborted
        /\ freeBlocksCount' = [freeBlocksCount EXCEPT ![k] = blocks[k] - 1]
        /\ freePagesCount' = [freePagesCount EXCEPT ![k] =
                                IF left = 0 THEN free[k] - 1 ELSE free[k]]
        /\ busyPagesCount' = [busyPagesCount EXCEPT ![k] = IF left = 0 THEN @ + 1 ELSE @]
        /\ allocatedBlocksCount' = [allocatedBlocksCount EXCEPT ![k] = @ + 1]
    BY <1>2 DEF Took
  <1>8. /\ freePagesCount \in [Class -> Int] /\ freeBlocksCount \in [Class -> Int]
        /\ \A j \in Class \ {k} : free[j] = freePagesCount[j] /\ blocks[j] = freeBlocksCount[j]
    BY DEF Takes
  <1>9. Types(page, freePagesCount, freeBlocksCount)'
    <2>1. IsFiniteSet(held')
      BY <1>6, <1>7, FS_AddElement, Zenon DEF Types
    <2>2. held' \in SUBSET Chunks
      BY <1>3, <1>6, <1>7 DEF Types
    <2>3. free[k] \in Int /\ blocks[k] \in Int
      BY <1>1, <1>6 DEF Types
    <2>4. /\ freePagesCount' \in [Class -> Int] /\ freeBlocksCount' \in [Class -> Int]
          /\ busyPagesCount' \in [Class -> Int] /\ allocatedBlocksCount' \in [Class -> Int]
      <3>1. allocatedBlocksCount \in [Class -> Int] /\ busyPagesCount \in [Class -> Int]
        BY <1>6 DEF Types
      <3>2. busyPagesCount' \in [Class -> Int]
        BY <1>1, <1>7, <3>1, Counter
      <3>3. allocatedBlocksCount' \in [Class -> Int]
        BY <1>1, <1>7, <3>1, Counter
      <3>4. freePagesCount' \in [Class -> Int]
        BY <1>1, <1>7, <1>8, <2>3, Counter
      <3>5. freeBlocksCount' \in [Class -> Int]
        BY <1>1, <1>7, <1>8, <2>3, Counter
      <3>. QED BY <3>2, <3>3, <3>4, <3>5
    <2>5. IsFiniteSet(Owned(page)')
      BY <1>4, <1>6 DEF Types
    <2>. QED BY <1>4, <2>1, <2>2, <2>4, <2>5 DEF Types
  <1>10. \A c \in held' : Placed(page', c)
    BY <1>3, <1>4, <1>6, <1>7 DEF Placed
  <1>11. Apart'
    BY <1>3, <1>6, <1>7 DEF Apart
  <1>12. ASSUME NEW q \in Page
         PROVE  IF page'[q].owner = NoClass THEN page'[q] = Blank ELSE PageRight(page, q)'
    <2>1. CASE q # p
      <3>1. page'[q] = P[q] /\ UsedOf(q)' = UsedOf(q)
        BY <1>4, <2>1
      <3>. QED BY <1>6, <3>1 DEF PageRight
    <2>2. CASE q = p
      <3>1. PageRight(P, p) /\ page'[p].owner = k
        BY <1>2, <1>4, <1>6
      <3>2. Mask \ page'[p].mask = {Number(k, c) : c \in UsedOf(p)'}
        <4>1. Mask \ P[p].mask = {Number(k, c) : c \in UsedOf(p)}
          BY <1>2, <3>1 DEF PageRight
        <4>2. i \in Mask
          BY <1>1, Blocks
        <4>. QED BY <1>3, <1>4, <4>1, <4>2
      <3>3. page'[p].freeCount + Cardinality(UsedOf(p)') = BlocksPerPage(k)
        <4>1. /\ IsFiniteSet(UsedOf(p)) /\ Cardinality(UsedOf(p)) \in Nat
              /\ P[p].freeCount + Cardinality(UsedOf(p)) = BlocksPerPage(k)
          BY <1>2, <1>6, <3>1, Counted DEF PageRight
        <4>2. Cardinality(UsedOf(p)') = Cardinality(UsedOf(p)) + 1
          BY <1>4, <4>1, FS_AddElement, ZenonT(60)
        <4>3. page'[p].freeCount = P[p].freeCount - 1 /\ P[p].freeCount \in Int
          BY <1>2, <1>4
        <4>. QED BY <4>1, <4>2, <4>3
      <3>4. page'[p].list = CASE left = 0 -> "busy"
                              [] left = BlocksPerPage(k) -> "totallyFree"
                              [] OTHER -> "free"
        <4>1. P[p].list = CASE P[p].freeCount = 0 -> "busy"
                            [] P[p].freeCount = BlocksPerPage(k) -> "totallyFree"
                            [] OTHER -> "free"
          BY <1>2, <3>1 DEF PageRight
        <4>2. BlocksPerPage(k) \in Nat /\ BlocksPerPage(k) >= 2
          BY <1>1, Blocks
        <4>. QED BY <1>2, <1>4, <4>1, <4>2 DEF ListAfterAlloc
      <3>5. PageRight(page, p)'
        BY <1>4, <3>1, <3>2, <3>3, <3>4 DEF PageRight
      <3>. QED BY <1>6, <2>2, <3>1, <3>5
    <2>. QED BY <2>1, <2>2
  <1>13. ASSUME NEW j \in Class PROVE ClassRight(page, freePagesCount, freeBlocksCount, j)'
    <2>1. CASE j # k
      <3>1. /\ HeldOf(page, j)' = HeldOf(P, j) /\ FullOf(page, j)' = FullOf(P, j)
            /\ PagesOf(page, j)' = PagesOf(P, j)
        BY <1>5, <2>1
      <3>2. /\ freePagesCount'[j] = free[j] /\ freeBlocksCount'[j] = blocks[j]
            /\ busyPagesCount'[j] = busyPagesCount[j]
            /\ allocatedBlocksCount'[j] = allocatedBlocksCount[j]
        BY <1>6, <1>7, <1>8, <2>1 DEF Types
      <3>. QED BY <1>6, <3>1, <3>2 DEF ClassRight
    <2>2. CASE j = k
      <3>1. /\ IsFiniteSet(PagesOf(P, k)) /\ Cardinality(PagesOf(P, k)) \in Nat
            /\ IsFiniteSet(FullOf(P, k)) /\ Cardinality(FullOf(P, k)) \in Nat
            /\ IsFiniteSet(HeldOf(P, k)) /\ Cardinality(HeldOf(P, k)) \in Nat
        BY <1>1, <1>6, Counted
      <3>2. Cardinality(HeldOf(page, k)') = Cardinality(HeldOf(P, k)) + 1
        <4>1. HeldOf(page, k)' = HeldOf(P, k) \cup {b} /\ b \notin HeldOf(P, k)
          BY <1>5
        <4>. QED BY <3>1, <4>1, FS_AddElement, Zenon
      <3>3. ClassRight(P, free, blocks, k)
        BY <1>1, <1>6
      <3>4. /\ freeBlocksCount'[k] = blocks[k] - 1 /\ blocks[k] \in Int
            /\ allocatedBlocksCount'[k] = allocatedBlocksCount[k] + 1
            /\ allocatedBlocksCount[k] \in Int
            /\ free[k] \in Int /\ busyPagesCount[k] \in Int
            /\ freePagesCount'[k] = (IF left = 0 THEN free[k] - 1 ELSE free[k])
            /\ busyPagesCount'[k] = (IF left = 0 THEN busyPagesCount[k] + 1
                                                 ELSE busyPagesCount[k])
        BY <1>1, <1>6, <1>7, <1>8 DEF Types
      <3>5. allocatedBlocksCount'[k] = Cardinality(HeldOf(page, k)')
        BY <3>2, <3>3, <3>4 DEF ClassRight
      <3>6. freeBlocksCount'[k] + allocatedBlocksCount'[k]
              = Cardinality(PagesOf(page, k)') * BlocksPerPage(k)
        <4>1. blocks[k] + allocatedBlocksCount[k]
                = Cardinality(PagesOf(page, k)') * BlocksPerPage(k)
          BY <1>1, <1>5, <3>3 DEF ClassRight
        <4>. QED BY <3>4, <4>1
      <3>7. /\ busyPagesCount'[k] = Cardinality(FullOf(page, k)')
            /\ freePagesCount'[k] = Cardinality(PagesOf(page, k)' \ FullOf(page, k)')
        <4>1. CASE left = 0
          <5>1. FullOf(page, k)' = FullOf(P, k) \cup {p} /\ PagesOf(page, k)' = PagesOf(P, k)
            BY <1>1, <1>2, <1>5, <4>1
          <5>2. Cardinality(FullOf(page, k)') = Cardinality(FullOf(P, k)) + 1
            BY <1>5, <3>1, <5>1, FS_AddElement, Zenon
          <5>3. /\ PagesOf(page, k)' \ FullOf(page, k)' = (PagesOf(P, k) \ FullOf(P, k)) \ {p}
                /\ p \in PagesOf(P, k) \ FullOf(P, k)
            BY <1>5, <5>1
          <5>4. /\ IsFiniteSet(PagesOf(P, k) \ FullOf(P, k))
                /\ Cardinality(PagesOf(P, k) \ FullOf(P, k)) \in Nat
            BY <3>1, FS_Difference, FS_CardinalityType, Zenon
          <5>5. Cardinality(PagesOf(page, k)' \ FullOf(page, k)')
                  = Cardinality(PagesOf(P, k) \ FullOf(P, k)) - 1
            BY <5>3, <5>4, FS_RemoveElement, SMTT(30)
          <5>. QED BY <3>3, <3>4, <4>1, <5>2, <5>5 DEF ClassRight
        <4>2. CASE left # 0
          <5>1. FullOf(page, k)' = FullOf(P, k) /\ PagesOf(page, k)' = PagesOf(P, k)
            BY <1>1, <1>2, <1>5, <4>2
          <5>. QED BY <3>3, <3>4, <4>2, <5>1 DEF ClassRight
        <4>. QED BY <4>1, <4>2
      <3>. QED BY <2>2, <3>5, <3>6, <3>7 DEF ClassRight
    <2>. QED BY <2>1, <2>2
  <1>14. H!Alloc(b)
    BY <1>3, <1>7 DEF H!Alloc
  <1>. QED BY <1>3, <1>4, <1>7, <1>9, <1>10, <1>11, <1>12, <1>13, <1>14, Zenon DEF Right

\* expand(): the new page of the class has all its blocks free.
LEMMA ExpandKeepsRight ==
  ASSUME Right(page, freePagesCount, freeBlocksCount),
         NEW k \in Class, NEW p \in Page, page[p].owner = NoClass
  PROVE  LET P == [page EXCEPT ![p] = NewPage(k)]
         IN  /\ Right(P, [freePagesCount EXCEPT ![k] = @ + 1],
                         [freeBlocksCount EXCEPT ![k] = @ + BlocksPerPage(k)])
             /\ Owned(P) = Owned(page) \cup {p}
  <1>. DEFINE P == [page EXCEPT ![p] = NewPage(k)]
              free == [freePagesCount EXCEPT ![k] = @ + 1]
              blocks == [freeBlocksCount EXCEPT ![k] = @ + BlocksPerPage(k)]
  <1>1. /\ Types(page, freePagesCount, freeBlocksCount) /\ Apart
        /\ \A c \in held : Placed(page, c) /\ c.page \in Page
        /\ \A q \in Page : IF page[q].owner = NoClass THEN page[q] = Blank
                                                      ELSE PageRight(page, q)
        /\ \A j \in Class : ClassRight(page, freePagesCount, freeBlocksCount, j)
        /\ k # NoClass /\ NoClass \notin Class
    BY SlabAllocatorAssumption DEF Right, Types, Chunks
  <1>2. BlocksPerPage(k) \in Nat /\ BlocksPerPage(k) >= 2
    BY Blocks
  <1>3. \A c \in held : c.page # p
    BY <1>1 DEF Placed
  <1>4. page \in [Page -> Header] /\ NewPage(k) \in Header /\ P \in [Page -> Header]
    <2>1. NewPage(k) \in Header
      BY <1>2 DEF NewPage, Header
    <2>2. page \in [Page -> Header]
      BY <1>1 DEF Types
    <2>. QED BY <2>1, <2>2
  <1>5. P[p] = NewPage(k) /\ \A q \in Page : q # p => P[q] = page[q]
    BY <1>4
  <1>. HIDE DEF P
  <1>6. P[p].owner = k /\ P[p].list = "totallyFree"
    BY <1>5 DEF NewPage
  <1>7. Owned(P) = Owned(page) \cup {p}
    BY <1>1, <1>5, <1>6 DEF Owned
  <1>8. /\ \A j \in Class \ {k} : PagesOf(P, j) = PagesOf(page, j)
        /\ PagesOf(P, k) = PagesOf(page, k) \cup {p} /\ p \notin PagesOf(page, k)
    BY <1>1, <1>5, <1>6 DEF PagesOf
  <1>9. \A j \in Class : /\ FullOf(P, j) = FullOf(page, j) /\ HeldOf(P, j) = HeldOf(page, j)
                         /\ p \notin FullOf(page, j)
    BY <1>1, <1>3, <1>5, <1>6 DEF FullOf, HeldOf, PagesOf
  <1>10. Types(P, free, blocks)
    <2>1. freePagesCount \in [Class -> Int] /\ freeBlocksCount \in [Class -> Int]
      BY <1>1 DEF Types
    <2>2. free \in [Class -> Int] /\ blocks \in [Class -> Int]
      BY <1>2, <2>1, Counter
    <2>3. IsFiniteSet(Owned(P))
      BY <1>1, <1>7, FS_AddElement DEF Types
    <2>. HIDE DEF free, blocks
    <2>. QED BY <1>1, <1>4, <2>2, <2>3 DEF Types
  <1>11. \A c \in held : Placed(P, c)
    BY <1>1, <1>3, <1>5 DEF Placed
  <1>12. ASSUME NEW q \in Page
         PROVE  IF P[q].owner = NoClass THEN P[q] = Blank ELSE PageRight(P, q)
    <2>1. CASE q # p
      BY <1>1, <1>5, <2>1 DEF PageRight
    <2>2. CASE q = p
      <3>1. UsedOf(p) = {}
        BY <1>3 DEF UsedOf
      <3>2. PageRight(P, p)
        <4>1. Cardinality(UsedOf(p)) = 0
          BY <3>1, FS_EmptySet
        <4>2. Mask \ P[p].mask = {Number(k, c) : c \in UsedOf(p)}
          BY <1>5, <3>1 DEF NewPage
        <4>3. P[p].freeCount = BlocksPerPage(k)
          BY <1>5 DEF NewPage
        <4>4. P[p].list = CASE P[p].freeCount = 0 -> "busy"
                            [] P[p].freeCount = BlocksPerPage(k) -> "totallyFree"
                            [] OTHER -> "free"
          BY <1>2, <1>6, <4>3
        <4>. QED BY <1>2, <1>6, <4>1, <4>2, <4>3, <4>4 DEF PageRight
      <3>. QED BY <1>1, <1>6, <2>2, <3>2
    <2>. QED BY <2>1, <2>2
  <1>13. ASSUME NEW j \in Class PROVE ClassRight(P, free, blocks, j)
    <2>1. ClassRight(page, freePagesCount, freeBlocksCount, j)
      BY <1>1
    <2>2. CASE j # k
      <3>1. free[j] = freePagesCount[j] /\ blocks[j] = freeBlocksCount[j]
        BY <1>1, <2>2 DEF Types
      <3>2. PagesOf(P, j) = PagesOf(page, j)
        BY <1>8, <2>2
      <3>. QED BY <1>9, <2>1, <3>1, <3>2 DEF ClassRight
    <2>3. CASE j = k
      <3>1. /\ free[k] = freePagesCount[k] + 1
            /\ blocks[k] = freeBlocksCount[k] + BlocksPerPage(k)
            /\ freePagesCount[k] \in Int /\ freeBlocksCount[k] \in Int
            /\ allocatedBlocksCount[k] \in Int
        BY <1>1 DEF Types
      <3>2. /\ IsFiniteSet(PagesOf(page, k)) /\ Cardinality(PagesOf(page, k)) \in Nat
            /\ IsFiniteSet(FullOf(page, k))
        BY <1>1, Counted
      <3>3. Cardinality(PagesOf(P, k)) = Cardinality(PagesOf(page, k)) + 1
        BY <1>8, <3>2, FS_AddElement, ZenonT(60)
      <3>4. /\ PagesOf(P, k) \ FullOf(P, k) = (PagesOf(page, k) \ FullOf(page, k)) \cup {p}
            /\ p \notin PagesOf(page, k) \ FullOf(page, k)
        BY <1>8, <1>9
      <3>5. IsFiniteSet(PagesOf(page, k) \ FullOf(page, k))
        BY <3>2, FS_Difference, Zenon
      <3>6. Cardinality(PagesOf(P, k) \ FullOf(P, k))
              = Cardinality(PagesOf(page, k) \ FullOf(page, k)) + 1
        BY <3>4, <3>5, FS_AddElement, Zenon
      <3>7. blocks[k] + allocatedBlocksCount[k] = Cardinality(PagesOf(P, k)) * BlocksPerPage(k)
        <4>1. freeBlocksCount[k] + allocatedBlocksCount[k]
                = Cardinality(PagesOf(page, k)) * BlocksPerPage(k)
          BY <2>1, <2>3 DEF ClassRight
        <4>. QED BY <1>2, <3>1, <3>2, <3>3, <4>1
      <3>8. /\ busyPagesCount[k] = Cardinality(FullOf(P, k))
            /\ allocatedBlocksCount[k] = Cardinality(HeldOf(P, k))
            /\ free[k] = Cardinality(PagesOf(P, k) \ FullOf(P, k))
        BY <1>9, <2>1, <2>3, <3>1, <3>6 DEF ClassRight
      <3>. QED BY <2>3, <3>7, <3>8 DEF ClassRight
    <2>. QED BY <2>2, <2>3
  <1>14. Right(P, free, blocks)
    BY <1>1, <1>10, <1>11, <1>12, <1>13, Zenon DEF Right
  <1>. QED BY <1>7, <1>14, Zenon DEF P

-----------------------------------------------------------------------------
(* SlabAllocator::free and BlockAllocator::shrink *)

\* The step of free(), its asserts passed, for block number i of page p.
Freed(k, p, i, b) ==
  LET more == page[p].freeCount + 1
  IN  /\ page' = [page EXCEPT ![p].mask = @ \cup {i}, ![p].freeCount = more,
                              ![p].list = ListAfterFree(k, @, more)]
      /\ freeBlocksCount' = [freeBlocksCount EXCEPT ![k] = @ + 1]
      /\ allocatedBlocksCount' = [allocatedBlocksCount EXCEPT ![k] = @ - 1]
      /\ freePagesCount' = [freePagesCount EXCEPT ![k] = IF more = 1 THEN @ + 1 ELSE @]
      /\ busyPagesCount' = [busyPagesCount EXCEPT ![k] = IF more = 1 THEN @ - 1 ELSE @]
      /\ held' = held \ {b}
      /\ UNCHANGED aborted

\* The page of a block in use has an owner, and the block is not free.
LEMMA FreeIsFreed ==
  ASSUME SlabInv, NEW b \in held, Free(b)
  PROVE  \E k \in Class, p \in Page, i \in Nat :
           /\ i \in BlockIndex(k)
           /\ page[p].owner = k /\ b.page = p /\ i = Number(k, b) /\ i \notin page[p].mask
           /\ page[p].freeCount \in 0 .. BlocksPerPage(k) - 1
           /\ Freed(k, p, i, b)
  <1>. DEFINE p == b.page
              k == page[p].owner
              i == Number(k, b)
  <1>1. Right(page, freePagesCount, freeBlocksCount)
    BY DEF SlabInv
  <1>2. Placed(page, b) /\ p \in Page
    BY <1>1 DEF Right, Types, Chunks
  <1>3. k \in Class /\ i \in BlockIndex(k) /\ i \in Nat /\ k # NoClass
    BY <1>2, Numbers, SlabAllocatorAssumption DEF BlockIndex
  <1>4. PageRight(page, p) /\ b \in UsedOf(p) /\ page \in [Page -> Header]
    BY <1>1, <1>2, <1>3 DEF Right, Types, UsedOf
  <1>5. i \notin page[p].mask
    BY <1>4 DEF PageRight
  <1>6. page[p].freeCount \in 0 .. BlocksPerPage(k) - 1
    <2>1. page[p].freeCount \in 0 .. BlocksPerPage(k)
      BY <1>1, <1>2, <1>3, FreeBlocks
    <2>2. IsFiniteSet(UsedOf(p)) /\ Cardinality(UsedOf(p)) \in Nat
      BY <1>1, Counted DEF Right
    <2>3. Cardinality(UsedOf(p)) # 0
      BY <1>4, <2>2, FS_EmptySet
    <2>4. page[p].freeCount + Cardinality(UsedOf(p)) = BlocksPerPage(k)
      BY <1>4 DEF PageRight
    <2>5. BlocksPerPage(k) \in Nat
      BY <1>3, Blocks
    <2>. QED BY <2>1, <2>2, <2>3, <2>4, <2>5
  <1>7. Freed(k, p, i, b)
    BY <1>3, <1>5 DEF Free, Freed, Number
  <1>. QED BY <1>2, <1>3, <1>5, <1>6, <1>7

\* What the step changes in the sets that the invariant counts.
LEMMA FreedSets ==
  ASSUME Right(page, freePagesCount, freeBlocksCount), NEW b \in held,
         NEW k \in Class, NEW p \in Page, NEW i \in BlockIndex(k),
         page[p].owner = k, b.page = p,
         page[p].freeCount \in 0 .. BlocksPerPage(k) - 1, Freed(k, p, i, b)
  PROVE  /\ page' \in [Page -> Header]
         /\ \A q \in Page : /\ page'[q].owner = page[q].owner
                            /\ q # p => page'[q] = page[q] /\ UsedOf(q)' = UsedOf(q)
         /\ page'[p].mask = page[p].mask \cup {i}
         /\ page'[p].freeCount = page[p].freeCount + 1
         /\ page'[p].list = ListAfterFree(k, page[p].list, page[p].freeCount + 1)
         /\ UsedOf(p)' = UsedOf(p) \ {b} /\ b \in UsedOf(p)
         /\ Owned(page)' = Owned(page)
         /\ \A j \in Class \ {k} : /\ HeldOf(page, j)' = HeldOf(page, j)
                                   /\ FullOf(page, j)' = FullOf(page, j)
         /\ HeldOf(page, k)' = HeldOf(page, k) \ {b} /\ b \in HeldOf(page, k)
         /\ \A j \in Class : PagesOf(page, j)' = PagesOf(page, j)
         /\ FullOf(page, k)' = FullOf(page, k) \ {p} /\ p \in PagesOf(page, k)
         /\ p \in FullOf(page, k) <=> page[p].freeCount = 0
  <1>. DEFINE more == page[p].freeCount + 1
  <1>1. page \in [Page -> Header] /\ k # NoClass /\ NoClass \notin Class
        /\ PageRight(page, p) /\ \A c \in held : c.page \in Page
    BY SlabAllocatorAssumption DEF Right, Types, Chunks
  <1>2. BlocksPerPage(k) \in Nat /\ BlocksPerPage(k) >= 2 /\ more \in Int
        /\ 1 <= more /\ more <= BlocksPerPage(k)
    BY Blocks
  <1>3. page[p].list = CASE page[p].freeCount = 0 -> "busy"
                         [] page[p].freeCount = BlocksPerPage(k) -> "totallyFree"
                         [] OTHER -> "free"
    BY <1>1 DEF PageRight
  <1>4. /\ page[p].list \in {"none", "totallyFree", "free", "busy"}
        /\ ListAfterFree(k, page[p].list, more) \in {"none", "totallyFree", "free"}
        /\ (page[p].list = "busy" <=> page[p].freeCount = 0)
    <2>1. page[p].list \in {"none", "totallyFree", "free", "busy"}
      BY <1>1 DEF Header
    <2>2. page[p].list = "busy" <=> page[p].freeCount = 0
      BY <1>2, <1>3
    <2>3. ListAfterFree(k, page[p].list, more) \in {"none", "totallyFree", "free"}
      BY <1>2, <2>1, <2>2 DEF ListAfterFree
    <2>. QED BY <2>1, <2>2, <2>3
  <1>5. /\ page' = [page EXCEPT ![p].mask = @ \cup {i}, ![p].freeCount = more,
                                ![p].list = ListAfterFree(k, @, more)]
        /\ held' = held \ {b}
    BY DEF Freed
  <1>6. \A q \in Page : q # p => page'[q] = page[q]
    BY <1>1, <1>5
  <1>7. page'[p] = [page[p] EXCEPT !.mask = @ \cup {i}, !.freeCount = more,
                                   !.list = ListAfterFree(k, @, more)]
    BY <1>1, <1>5
  <1>8. /\ page'[p].owner = k /\ page'[p].mask = page[p].mask \cup {i}
        /\ page'[p].freeCount = more /\ page'[p].list = ListAfterFree(k, page[p].list, more)
        /\ page'[p] \in Header
    <2>1. page[p] \in Header /\ i \in Mask
      BY <1>1, Blocks
    <2>2. /\ page'[p].owner = k /\ page'[p].mask = page[p].mask \cup {i}
          /\ page'[p].freeCount = more /\ page'[p].list = ListAfterFree(k, page[p].list, more)
          /\ page'[p] = [owner |-> page'[p].owner, list |-> page'[p].list,
                         mask |-> page'[p].mask, freeCount |-> page'[p].freeCount]
      BY <1>7, <2>1, Zenon DEF Header
    <2>3. page[p].mask \cup {i} \in SUBSET Mask /\ more \in Int
      BY <1>2, <2>1 DEF Header
    <2>. QED BY <1>4, <2>2, <2>3 DEF Header
  <1>9. page' \in [Page -> Header]
    BY <1>1, <1>5, <1>6, <1>8
  <1>10. \A q \in Page : page'[q].owner = page[q].owner
    BY <1>6, <1>8
  <1>11. /\ UsedOf(p)' = UsedOf(p) \ {b} /\ b \in UsedOf(p)
         /\ \A q \in Page : q # p => UsedOf(q)' = UsedOf(q)
    BY <1>5 DEF UsedOf
  <1>12. Owned(page)' = Owned(page) /\ \A j \in Class : PagesOf(page, j)' = PagesOf(page, j)
    BY <1>10 DEF Owned, PagesOf
  <1>13. /\ \A j \in Class \ {k} : HeldOf(page, j)' = HeldOf(page, j)
         /\ HeldOf(page, k)' = HeldOf(page, k) \ {b} /\ b \in HeldOf(page, k)
    BY <1>1, <1>5, <1>10 DEF HeldOf
  <1>14. \A j \in Class \ {k} : FullOf(page, j)' = FullOf(page, j)
    BY <1>6, <1>12 DEF FullOf, PagesOf
  <1>15. /\ FullOf(page, k)' = FullOf(page, k) \ {p} /\ p \in PagesOf(page, k)
         /\ p \in FullOf(page, k) <=> page[p].freeCount = 0
    BY <1>4, <1>6, <1>8, <1>12 DEF FullOf, PagesOf
  <1>. QED BY <1>6, <1>8, <1>9, <1>10, <1>11, <1>12, <1>13, <1>14, <1>15

\* free() keeps the books right.
LEMMA FreeKeepsRight ==
  ASSUME SlabInv, NEW b \in held, Free(b)
  PROVE  SlabInv' /\ Owned(page)' = Owned(page) /\ H!Free(b)
  <1>1. Right(page, freePagesCount, freeBlocksCount) /\ aborted = FALSE
    BY DEF SlabInv
  <1>2. PICK k \in Class, p \in Page, i \in Nat :
           /\ i \in BlockIndex(k)
           /\ page[p].owner = k /\ b.page = p /\ i = Number(k, b) /\ i \notin page[p].mask
           /\ page[p].freeCount \in 0 .. BlocksPerPage(k) - 1
           /\ Freed(k, p, i, b)
    BY FreeIsFreed
  <1>. DEFINE more == page[p].freeCount + 1
  <1>3. /\ page' \in [Page -> Header]
        /\ \A q \in Page : /\ page'[q].owner = page[q].owner
                           /\ q # p => page'[q] = page[q] /\ UsedOf(q)' = UsedOf(q)
        /\ page'[p].mask = page[p].mask \cup {i}
        /\ page'[p].freeCount = more
        /\ page'[p].list = ListAfterFree(k, page[p].list, more)
        /\ UsedOf(p)' = UsedOf(p) \ {b} /\ b \in UsedOf(p)
        /\ Owned(page)' = Owned(page)
    BY <1>1, <1>2, FreedSets
  <1>4. /\ \A j \in Class \ {k} : /\ HeldOf(page, j)' = HeldOf(page, j)
                                  /\ FullOf(page, j)' = FullOf(page, j)
        /\ HeldOf(page, k)' = HeldOf(page, k) \ {b} /\ b \in HeldOf(page, k)
        /\ \A j \in Class : PagesOf(page, j)' = PagesOf(page, j)
        /\ FullOf(page, k)' = FullOf(page, k) \ {p} /\ p \in PagesOf(page, k)
        /\ p \in FullOf(page, k) <=> page[p].freeCount = 0
    BY <1>1, <1>2, FreedSets
  <1>5. /\ Types(page, freePagesCount, freeBlocksCount) /\ Apart
        /\ \A c \in held : Placed(page, c) /\ c.page \in Page
        /\ \A q \in Page : IF page[q].owner = NoClass THEN page[q] = Blank
                                                      ELSE PageRight(page, q)
        /\ \A j \in Class : ClassRight(page, freePagesCount, freeBlocksCount, j)
        /\ k # NoClass /\ NoClass \notin Class
    BY <1>1, SlabAllocatorAssumption DEF Right, Types, Chunks
  <1>6. /\ held' = held \ {b} /\ UNCHANGED aborted
        /\ freeBlocksCount' = [freeBlocksCount EXCEPT ![k] = @ + 1]
        /\ allocatedBlocksCount' = [allocatedBlocksCount EXCEPT ![k] = @ - 1]
        /\ freePagesCount' = [freePagesCount EXCEPT ![k] = IF more = 1 THEN @ + 1 ELSE @]
        /\ busyPagesCount' = [busyPagesCount EXCEPT ![k] = IF more = 1 THEN @ - 1 ELSE @]
    BY <1>2 DEF Freed
  <1>7. Types(page, freePagesCount, freeBlocksCount)'
    <2>1. IsFiniteSet(held')
      BY <1>5, <1>6, FS_RemoveElement DEF Types
    <2>2. held' \in SUBSET Chunks
      BY <1>5, <1>6 DEF Types
    <2>3. /\ freePagesCount \in [Class -> Int] /\ freeBlocksCount \in [Class -> Int]
          /\ allocatedBlocksCount \in [Class -> Int] /\ busyPagesCount \in [Class -> Int]
      BY <1>5 DEF Types
    <2>4. busyPagesCount' \in [Class -> Int]
      BY <1>6, <2>3, Counter
    <2>5. allocatedBlocksCount' \in [Class -> Int]
      BY <1>6, <2>3, Counter
    <2>6. freePagesCount' \in [Class -> Int]
      BY <1>6, <2>3, Counter
    <2>7. freeBlocksCount' \in [Class -> Int]
      BY <1>6, <2>3, Counter
    <2>8. IsFiniteSet(Owned(page)')
      BY <1>3, <1>5 DEF Types
    <2>. QED BY <1>3, <2>1, <2>2, <2>4, <2>5, <2>6, <2>7, <2>8 DEF Types
  <1>8. \A c \in held' : Placed(page', c)
    BY <1>3, <1>5, <1>6 DEF Placed
  <1>9. Apart'
    BY <1>5, <1>6 DEF Apart
  <1>10. ASSUME NEW q \in Page
         PROVE  IF page'[q].owner = NoClass THEN page'[q] = Blank ELSE PageRight(page, q)'
    <2>1. CASE q # p
      <3>1. page'[q] = page[q] /\ UsedOf(q)' = UsedOf(q)
        BY <1>3, <2>1
      <3>. QED BY <1>5, <3>1 DEF PageRight
    <2>2. CASE q = p
      <3>1. PageRight(page, p) /\ page'[p].owner = k
        BY <1>2, <1>3, <1>5
      <3>2. Mask \ page'[p].mask = {Number(k, c) : c \in UsedOf(p)'}
        <4>1. Mask \ page[p].mask = {Number(k, c) : c \in UsedOf(p)}
          BY <1>2, <3>1 DEF PageRight
        <4>2. \A c \in UsedOf(p) : Number(k, c) = i => c = b
          <5>1. \A c \in UsedOf(p) : c \in held /\ c.page = p /\ Placed(page, c)
            BY <1>5 DEF UsedOf
          <5>. QED BY <1>2, <1>3, <1>5, <5>1, NumbersDiffer
        <4>. QED BY <1>2, <1>3, <4>1, <4>2
      <3>3. page'[p].freeCount + Cardinality(UsedOf(p)') = BlocksPerPage(k)
        <4>1. /\ IsFiniteSet(UsedOf(p)) /\ Cardinality(UsedOf(p)) \in Nat
              /\ page[p].freeCount + Cardinality(UsedOf(p)) = BlocksPerPage(k)
          BY <1>2, <1>5, <3>1, Counted DEF PageRight
        <4>2. Cardinality(UsedOf(p)') = Cardinality(UsedOf(p)) - 1
          BY <1>3, <4>1, FS_RemoveElement, ZenonT(60)
        <4>3. page'[p].freeCount = page[p].freeCount + 1 /\ page[p].freeCount \in Int
          BY <1>2, <1>3
        <4>. QED BY <4>1, <4>2, <4>3
      <3>4. page'[p].list = CASE more = 0 -> "busy"
                              [] more = BlocksPerPage(k) -> "totallyFree"
                              [] OTHER -> "free"
        <4>1. page[p].list = CASE page[p].freeCount = 0 -> "busy"
                               [] page[p].freeCount = BlocksPerPage(k) -> "totallyFree"
                               [] OTHER -> "free"
          BY <1>2, <3>1 DEF PageRight
        <4>2. BlocksPerPage(k) \in Nat /\ BlocksPerPage(k) >= 2
          BY Blocks
        <4>. QED BY <1>2, <1>3, <4>1, <4>2 DEF ListAfterFree
      <3>5. PageRight(page, p)'
        BY <1>3, <3>1, <3>2, <3>3, <3>4 DEF PageRight
      <3>. QED BY <1>5, <2>2, <3>1, <3>5
    <2>. QED BY <2>1, <2>2
  <1>11. ASSUME NEW j \in Class PROVE ClassRight(page, freePagesCount, freeBlocksCount, j)'
    <2>1. CASE j # k
      <3>1. /\ HeldOf(page, j)' = HeldOf(page, j) /\ FullOf(page, j)' = FullOf(page, j)
            /\ PagesOf(page, j)' = PagesOf(page, j)
        BY <1>4, <2>1
      <3>2. /\ freePagesCount'[j] = freePagesCount[j] /\ freeBlocksCount'[j] = freeBlocksCount[j]
            /\ busyPagesCount'[j] = busyPagesCount[j]
            /\ allocatedBlocksCount'[j] = allocatedBlocksCount[j]
        BY <1>5, <1>6, <2>1 DEF Types
      <3>. QED BY <1>5, <3>1, <3>2 DEF ClassRight
    <2>2. CASE j = k
      <3>1. /\ IsFiniteSet(PagesOf(page, k)) /\ Cardinality(PagesOf(page, k)) \in Nat
            /\ IsFiniteSet(FullOf(page, k)) /\ Cardinality(FullOf(page, k)) \in Nat
            /\ IsFiniteSet(HeldOf(page, k)) /\ Cardinality(HeldOf(page, k)) \in Nat
        BY <1>5, Counted
      <3>2. Cardinality(HeldOf(page, k)') = Cardinality(HeldOf(page, k)) - 1
        <4>1. HeldOf(page, k)' = HeldOf(page, k) \ {b} /\ b \in HeldOf(page, k)
          BY <1>4
        <4>. QED BY <3>1, <4>1, FS_RemoveElement, ZenonT(60)
      <3>3. ClassRight(page, freePagesCount, freeBlocksCount, k)
        BY <1>5
      <3>4. /\ freeBlocksCount'[k] = freeBlocksCount[k] + 1
            /\ allocatedBlocksCount'[k] = allocatedBlocksCount[k] - 1
            /\ allocatedBlocksCount[k] \in Int /\ freeBlocksCount[k] \in Int
            /\ freePagesCount[k] \in Int /\ busyPagesCount[k] \in Int
            /\ freePagesCount'[k] = (IF more = 1 THEN freePagesCount[k] + 1
                                                 ELSE freePagesCount[k])
            /\ busyPagesCount'[k] = (IF more = 1 THEN busyPagesCount[k] - 1
                                                 ELSE busyPagesCount[k])
        BY <1>5, <1>6 DEF Types
      <3>5. allocatedBlocksCount'[k] = Cardinality(HeldOf(page, k)')
        BY <3>2, <3>3, <3>4 DEF ClassRight
      <3>6. freeBlocksCount'[k] + allocatedBlocksCount'[k]
              = Cardinality(PagesOf(page, k)') * BlocksPerPage(k)
        <4>1. freeBlocksCount[k] + allocatedBlocksCount[k]
                = Cardinality(PagesOf(page, k)') * BlocksPerPage(k)
          BY <1>4, <3>3 DEF ClassRight
        <4>. QED BY <3>4, <4>1
      <3>7. /\ busyPagesCount'[k] = Cardinality(FullOf(page, k)')
            /\ freePagesCount'[k] = Cardinality(PagesOf(page, k)' \ FullOf(page, k)')
        <4>1. CASE more = 1
          <5>1. p \in FullOf(page, k)
            BY <1>2, <1>4, <4>1
          <5>2. Cardinality(FullOf(page, k)') = Cardinality(FullOf(page, k)) - 1
            <6>1. FullOf(page, k)' = FullOf(page, k) \ {p}
              BY <1>4
            <6>. QED BY <3>1, <5>1, <6>1, FS_RemoveElement, ZenonT(60)
          <5>3. /\ PagesOf(page, k)' \ FullOf(page, k)'
                     = (PagesOf(page, k) \ FullOf(page, k)) \cup {p}
                /\ p \notin PagesOf(page, k) \ FullOf(page, k)
            BY <1>4, <5>1
          <5>4. /\ IsFiniteSet(PagesOf(page, k) \ FullOf(page, k))
                /\ Cardinality(PagesOf(page, k) \ FullOf(page, k)) \in Nat
            BY <3>1, FS_Difference, FS_CardinalityType, Zenon
          <5>5. Cardinality(PagesOf(page, k)' \ FullOf(page, k)')
                  = Cardinality(PagesOf(page, k) \ FullOf(page, k)) + 1
            BY <5>3, <5>4, FS_AddElement, Zenon
          <5>. QED BY <3>3, <3>4, <4>1, <5>2, <5>5 DEF ClassRight
        <4>2. CASE more # 1
          <5>1. FullOf(page, k)' = FullOf(page, k) /\ PagesOf(page, k)' = PagesOf(page, k)
            BY <1>2, <1>4, <4>2
          <5>. QED BY <3>3, <3>4, <4>2, <5>1 DEF ClassRight
        <4>. QED BY <4>1, <4>2
      <3>. QED BY <2>2, <3>5, <3>6, <3>7 DEF ClassRight
    <2>. QED BY <2>1, <2>2
  <1>12. H!Free(b)
    BY <1>6 DEF H!Free
  <1>. QED BY <1>1, <1>3, <1>6, <1>7, <1>8, <1>9, <1>10, <1>11, <1>12, Zenon DEF Right, SlabInv

\* shrink() gives away only pages without a block in use, and keeps the books right.
LEMMA ShrinkKeepsRight ==
  ASSUME SlabInv, NEW k \in Class, NEW p \in Page, Shrink(k, p)
  PROVE  /\ SlabInv' /\ UNCHANGED held
         /\ Owned(page)' = Owned(page) \ {p} /\ p \in Owned(page)
  <1>1. Right(page, freePagesCount, freeBlocksCount) /\ aborted = FALSE
    BY DEF SlabInv
  <1>2. /\ Types(page, freePagesCount, freeBlocksCount) /\ Apart
        /\ \A c \in held : Placed(page, c) /\ c.page \in Page
        /\ \A q \in Page : IF page[q].owner = NoClass THEN page[q] = Blank
                                                      ELSE PageRight(page, q)
        /\ \A j \in Class : ClassRight(page, freePagesCount, freeBlocksCount, j)
        /\ k # NoClass /\ NoClass \notin Class
    BY <1>1, SlabAllocatorAssumption DEF Right, Types, Chunks
  <1>3. BlocksPerPage(k) \in Nat /\ BlocksPerPage(k) >= 2
    BY Blocks
  <1>4. page[p].owner = k /\ page[p].list = "totallyFree" /\ PageRight(page, p)
    BY <1>2 DEF Shrink, InList
  <1>5. /\ page' = [page EXCEPT ![p] = Blank] /\ UNCHANGED <<held, aborted>>
        /\ freePagesCount' = [freePagesCount EXCEPT ![k] = @ - 1]
        /\ freeBlocksCount' = [freeBlocksCount EXCEPT ![k] = @ - BlocksPerPage(k)]
        /\ UNCHANGED <<busyPagesCount, allocatedBlocksCount>>
    BY DEF Shrink
  <1>6. UsedOf(p) = {}
    <2>1. page[p].freeCount = BlocksPerPage(k)
      BY <1>3, <1>4 DEF PageRight
    <2>2. IsFiniteSet(UsedOf(p)) /\ Cardinality(UsedOf(p)) \in Nat
      BY <1>2, Counted
    <2>3. Cardinality(UsedOf(p)) = 0
      BY <1>3, <1>4, <2>1, <2>2 DEF PageRight
    <2>. QED BY <2>2, <2>3, FS_EmptySet
  <1>7. \A c \in held : c.page # p
    BY <1>6 DEF UsedOf
  <1>8. page \in [Page -> Header] /\ page' \in [Page -> Header]
    <2>1. Blank \in Header
      BY DEF Blank, Header
    <2>. QED BY <1>2, <1>5, <2>1 DEF Types
  <1>9. page'[p] = Blank /\ \A q \in Page : q # p => page'[q] = page[q]
    BY <1>5, <1>8
  <1>10. page'[p].owner = NoClass
    BY <1>9 DEF Blank
  <1>11. Owned(page)' = Owned(page) \ {p} /\ p \in Owned(page)
    BY <1>2, <1>4, <1>9, <1>10 DEF Owned
  <1>12. /\ \A j \in Class \ {k} : PagesOf(page, j)' = PagesOf(page, j)
         /\ PagesOf(page, k)' = PagesOf(page, k) \ {p} /\ p \in PagesOf(page, k)
    BY <1>2, <1>4, <1>9, <1>10 DEF PagesOf
  <1>13. \A j \in Class : /\ FullOf(page, j)' = FullOf(page, j)
                          /\ HeldOf(page, j)' = HeldOf(page, j)
                          /\ p \notin FullOf(page, j)
    BY <1>2, <1>4, <1>5, <1>7, <1>9, <1>10 DEF FullOf, HeldOf, PagesOf
  <1>14. Types(page, freePagesCount, freeBlocksCount)'
    <2>1. /\ freePagesCount \in [Class -> Int] /\ freeBlocksCount \in [Class -> Int]
          /\ busyPagesCount \in [Class -> Int] /\ allocatedBlocksCount \in [Class -> Int]
      BY <1>2 DEF Types
    <2>2. freePagesCount' \in [Class -> Int] /\ freeBlocksCount' \in [Class -> Int]
      BY <1>3, <1>5, <2>1, Counter
    <2>3. IsFiniteSet(Owned(page)')
      BY <1>2, <1>11, FS_RemoveElement DEF Types
    <2>. QED BY <1>2, <1>5, <1>8, <2>1, <2>2, <2>3 DEF Types
  <1>15. \A c \in held' : Placed(page', c)
    BY <1>2, <1>5, <1>7, <1>9 DEF Placed
  <1>16. Apart'
    BY <1>2, <1>5 DEF Apart
  <1>17. ASSUME NEW q \in Page
         PROVE  IF page'[q].owner = NoClass THEN page'[q] = Blank ELSE PageRight(page, q)'
    <2>1. CASE q # p
      <3>1. page'[q] = page[q] /\ UsedOf(q)' = UsedOf(q)
        BY <1>5, <1>9, <2>1 DEF UsedOf
      <3>. QED BY <1>2, <3>1 DEF PageRight
    <2>2. CASE q = p
      BY <1>9, <1>10, <2>2
    <2>. QED BY <2>1, <2>2
  <1>18. ASSUME NEW j \in Class PROVE ClassRight(page, freePagesCount, freeBlocksCount, j)'
    <2>1. ClassRight(page, freePagesCount, freeBlocksCount, j)
      BY <1>2
    <2>2. CASE j # k
      <3>1. freePagesCount'[j] = freePagesCount[j] /\ freeBlocksCount'[j] = freeBlocksCount[j]
        BY <1>2, <1>5, <2>2 DEF Types
      <3>2. PagesOf(page, j)' = PagesOf(page, j)
        BY <1>12, <2>2
      <3>. QED BY <1>5, <1>13, <2>1, <3>1, <3>2, Zenon DEF ClassRight
    <2>3. CASE j = k
      <3>1. /\ freePagesCount'[k] = freePagesCount[k] - 1
            /\ freeBlocksCount'[k] = freeBlocksCount[k] - BlocksPerPage(k)
            /\ freePagesCount[k] \in Int /\ freeBlocksCount[k] \in Int
            /\ allocatedBlocksCount[k] \in Int
        BY <1>2, <1>5 DEF Types
      <3>2. /\ IsFiniteSet(PagesOf(page, k)) /\ Cardinality(PagesOf(page, k)) \in Nat
            /\ IsFiniteSet(FullOf(page, k))
        BY <1>2, Counted
      <3>3. Cardinality(PagesOf(page, k)') = Cardinality(PagesOf(page, k)) - 1
        BY <1>12, <3>2, FS_RemoveElement, ZenonT(60)
      <3>4. /\ PagesOf(page, k)' \ FullOf(page, k)' = (PagesOf(page, k) \ FullOf(page, k)) \ {p}
            /\ p \in PagesOf(page, k) \ FullOf(page, k)
        BY <1>12, <1>13
      <3>5. /\ IsFiniteSet(PagesOf(page, k) \ FullOf(page, k))
            /\ Cardinality(PagesOf(page, k) \ FullOf(page, k)) \in Nat
        BY <3>2, FS_Difference, FS_CardinalityType, Zenon
      <3>6. Cardinality(PagesOf(page, k)' \ FullOf(page, k)')
              = Cardinality(PagesOf(page, k) \ FullOf(page, k)) - 1
        <4>. DEFINE open == PagesOf(page, k) \ FullOf(page, k)
        <4>1. IsFiniteSet(open) /\ p \in open
              /\ PagesOf(page, k)' \ FullOf(page, k)' = open \ {p}
          BY <3>4, <3>5
        <4>. HIDE DEF open
        <4>2. Cardinality(open \ {p}) = Cardinality(open) - 1
          BY <4>1, FS_RemoveElement, Zenon
        <4>3. Cardinality(PagesOf(page, k)' \ FullOf(page, k)') = Cardinality(open) - 1
          BY <4>1, <4>2
        <4>. QED BY <4>3 DEF open
      <3>7. freeBlocksCount'[k] + allocatedBlocksCount'[k]
              = Cardinality(PagesOf(page, k)') * BlocksPerPage(k)
        <4>1. freeBlocksCount[k] + allocatedBlocksCount[k]
                = Cardinality(PagesOf(page, k)) * BlocksPerPage(k)
          BY <2>1, <2>3 DEF ClassRight
        <4>. QED BY <1>3, <1>5, <3>1, <3>2, <3>3, <4>1
      <3>8. /\ busyPagesCount'[k] = Cardinality(FullOf(page, k)')
            /\ allocatedBlocksCount'[k] = Cardinality(HeldOf(page, k)')
            /\ freePagesCount'[k] = Cardinality(PagesOf(page, k)' \ FullOf(page, k)')
        BY <1>5, <1>13, <2>1, <2>3, <3>1, <3>6, Zenon DEF ClassRight
      <3>. QED BY <2>3, <3>7, <3>8 DEF ClassRight
    <2>. QED BY <2>2, <2>3
  <1>. QED BY <1>1, <1>5, <1>11, <1>14, <1>15, <1>16, <1>17, <1>18, Zenon DEF Right, SlabInv

-----------------------------------------------------------------------------
(* The specification of the BlockAllocators *)

\* The first state: no page and no block.
LEMMA InitSlabInv == BlockInit => SlabInv /\ Owned(page) = {}
  <1>. SUFFICES ASSUME BlockInit PROVE SlabInv /\ Owned(page) = {}
    OBVIOUS
  <1>. USE SlabAllocatorAssumption
  <1>1. /\ \A p \in Page : page[p] = Blank /\ page[p].owner = NoClass
        /\ held = {} /\ Blank \in Header
    BY DEF BlockInit, Blank, Header
  <1>2. Owned(page) = {} /\ IsFiniteSet(held) /\ IsFiniteSet(Owned(page))
    BY <1>1, FS_EmptySet DEF Owned
  <1>3. Types(page, freePagesCount, freeBlocksCount)
    BY <1>1, <1>2 DEF BlockInit, Types
  <1>4. ASSUME NEW k \in Class PROVE ClassRight(page, freePagesCount, freeBlocksCount, k)
    <2>1. PagesOf(page, k) = {} /\ FullOf(page, k) = {} /\ HeldOf(page, k) = {}
          /\ PagesOf(page, k) \ FullOf(page, k) = {}
      BY <1>1 DEF PagesOf, FullOf, HeldOf
    <2>2. Cardinality({}) = 0
      BY FS_EmptySet
    <2>3. BlocksPerPage(k) \in Nat
      BY Blocks
    <2>4. /\ freePagesCount[k] = 0 /\ busyPagesCount[k] = 0
          /\ freeBlocksCount[k] = 0 /\ allocatedBlocksCount[k] = 0
      BY DEF BlockInit
    <2>5. 0 * BlocksPerPage(k) = 0 + 0
      BY <2>3
    <2>. QED BY <2>1, <2>2, <2>4, <2>5 DEF ClassRight
  <1>. QED BY <1>1, <1>2, <1>3, <1>4, Zenon DEF BlockInit, SlabInv, Right, Apart

\* alloc(), with or without a new page.
LEMMA AllocKeepsRight ==
  ASSUME SlabInv, NEW size \in Size, NEW k \in Log(size)
  PROVE  /\ AllocBlock(k, size) =>
              /\ SlabInv' /\ Owned(page)' = Owned(page) /\ \E b \in Chunk : H!Alloc(b)
         /\ \A p \in Page :
              page[p].owner = NoClass /\ AllocExpanding(k, size, p) =>
                /\ SlabInv' /\ Owned(page)' = Owned(page) \cup {p}
                /\ \E b \in Chunk : H!Alloc(b)
  <1>1. /\ Right(page, freePagesCount, freeBlocksCount) /\ aborted = FALSE /\ k \in Class
        /\ freePagesCount \in [Class -> Int] /\ freeBlocksCount \in [Class -> Int]
    BY DEF SlabInv, Right, Types, Log
  <1>2. ASSUME AllocBlock(k, size)
        PROVE  SlabInv' /\ Owned(page)' = Owned(page) /\ \E b \in Chunk : H!Alloc(b)
    <2>1. Takes(page, freePagesCount, freeBlocksCount, k, size)
      BY <1>1, <1>2 DEF AllocBlock, Takes
    <2>. QED BY <1>1, <2>1, TakeKeepsRight DEF SlabInv
  <1>3. ASSUME NEW p \in Page, page[p].owner = NoClass, AllocExpanding(k, size, p)
        PROVE  /\ SlabInv' /\ Owned(page)' = Owned(page) \cup {p}
               /\ \E b \in Chunk : H!Alloc(b)
    <2>. DEFINE P == [page EXCEPT ![p] = NewPage(k)]
                free == [freePagesCount EXCEPT ![k] = @ + 1]
                blocks == [freeBlocksCount EXCEPT ![k] = @ + BlocksPerPage(k)]
    <2>1. Right(P, free, blocks) /\ Owned(P) = Owned(page) \cup {p}
      BY <1>1, <1>3, ExpandKeepsRight, Zenon
    <2>2. /\ free[k] = freePagesCount[k] + 1
          /\ blocks[k] = freeBlocksCount[k] + BlocksPerPage(k)
          /\ \A j \in Class \ {k} : /\ free[j] = freePagesCount[j]
                                    /\ blocks[j] = freeBlocksCount[j]
          /\ freeBlocksCount[k] = 0 /\ BlocksPerPage(k) \in Nat /\ BlocksPerPage(k) >= 2
      BY <1>1, <1>3, Blocks DEF AllocExpanding
    <2>3. TakeBlock(k, size, P, freePagesCount[k] + 1, freeBlocksCount[k] + BlocksPerPage(k))
      BY <1>3 DEF AllocExpanding
    <2>. HIDE DEF P, free, blocks
    <2>4. TakeBlock(k, size, P, free[k], blocks[k])
      BY <2>2, <2>3
    <2>5. Takes(P, free, blocks, k, size)
      BY <1>1, <2>1, <2>2, <2>4 DEF Takes
    <2>. QED BY <1>1, <2>1, <2>5, TakeKeepsRight DEF SlabInv
  <1>. QED BY <1>2, <1>3

\* Every operation keeps the books right and is one of a heap, or changes no block.
LEMMA NextKeepsRight == SlabInv /\ [BlockNext]_blockVars => SlabInv' /\ [H!Next]_held
  <1>. SUFFICES ASSUME SlabInv, [BlockNext]_blockVars PROVE SlabInv' /\ [H!Next]_held
    OBVIOUS
  <1>1. ASSUME NEW size \in Size, Alloc(size) PROVE SlabInv' /\ [H!Next]_held
    <2>1. PICK k \in Log(size) :
            \/ AllocBlock(k, size)
            \/ \E p \in Page : page[p].owner = NoClass /\ AllocExpanding(k, size, p)
      BY <1>1 DEF Alloc
    <2>2. SlabInv' /\ \E b \in Chunk : H!Alloc(b)
      BY <2>1, AllocKeepsRight
    <2>. QED BY <2>2 DEF H!Next
  <1>2. ASSUME NEW b \in held, Free(b) PROVE SlabInv' /\ [H!Next]_held
    BY <1>2, FreeKeepsRight DEF H!Next
  <1>3. ASSUME NEW k \in Class, NEW p \in Page, Shrink(k, p) PROVE SlabInv' /\ [H!Next]_held
    BY <1>3, ShrinkKeepsRight
  <1>4. CASE UNCHANGED blockVars
    <2>1. UNCHANGED <<page, freePagesCount, busyPagesCount, freeBlocksCount,
                      allocatedBlocksCount, held, aborted>>
      BY <1>4 DEF blockVars, counters
    <2>2. /\ \A p : UsedOf(p)' = UsedOf(p)
          /\ \A k : HeldOf(page, k)' = HeldOf(page, k) /\ PagesOf(page, k)' = PagesOf(page, k)
          /\ \A k : FullOf(page, k)' = FullOf(page, k)
      BY <2>1 DEF UsedOf, HeldOf, PagesOf, FullOf
    <2>3. Types(page, freePagesCount, freeBlocksCount)' /\ Apart'
      BY <2>1 DEF SlabInv, Right, Types, Owned, Apart
    <2>4. \A b \in held' : Placed(page, b)'
      BY <2>1 DEF SlabInv, Right, Placed
    <2>5. \A p \in Page : PageRight(page, p)' <=> PageRight(page, p)
      BY <2>1, <2>2 DEF PageRight
    <2>6. \A k \in Class : ClassRight(page, freePagesCount, freeBlocksCount, k)'
      BY <2>1, <2>2 DEF SlabInv, Right, ClassRight
    <2>7. \A p \in Page : IF page'[p].owner = NoClass THEN page'[p] = Blank
                                                     ELSE PageRight(page, p)'
      BY <2>1, <2>5 DEF SlabInv, Right
    <2>. QED BY <2>1, <2>3, <2>4, <2>6, <2>7 DEF SlabInv, Right
  <1>. QED BY <1>1, <1>2, <1>3, <1>4 DEF BlockNext

LEMMA SpecKeepsRight == BlockSpec => []SlabInv
  BY InitSlabInv, NextKeepsRight, PTL DEF BlockSpec

\* What the invariant says in the words of the properties.
LEMMA RightIsConsistent == SlabInv => BlockTypeOK /\ BlockAssertsHold /\ HeadersConsistent
  <1>. SUFFICES ASSUME SlabInv PROVE BlockTypeOK /\ BlockAssertsHold /\ HeadersConsistent
    OBVIOUS
  <1>1. Right(page, freePagesCount, freeBlocksCount) /\ aborted = FALSE
    BY DEF SlabInv
  <1>2. BlockTypeOK
    BY <1>1, Zenon DEF Right, Types, Header, Chunks, BlockTypeOK
  <1>3. ASSUME NEW p \in Page, page[p].owner # NoClass
        PROVE  MaskMatchesBlocks(p) /\ ListMatchesCount(p)
    <2>1. PageRight(page, p)
      BY <1>1, <1>3 DEF Right
    <2>2. MaskMatchesBlocks(p)
      BY <2>1 DEF PageRight, MaskMatchesBlocks, Number, UsedOf
    <2>3. ListMatchesCount(p)
      BY <2>1 DEF PageRight, ListMatchesCount
    <2>. QED BY <2>2, <2>3
  <1>4. ASSUME NEW k \in Class PROVE CountersMatchPages(k)
    <2>1. ClassRight(page, freePagesCount, freeBlocksCount, k)
      BY <1>1 DEF Right
    <2>. QED BY <2>1 DEF ClassRight, CountersMatchPages, PagesOf, FullOf, HeldOf
  <1>. QED BY <1>1, <1>2, <1>3, <1>4 DEF BlockAssertsHold, HeadersConsistent

\* The allocators are a heap, whatever pages they are supplied with: no two blocks in use
\* share a byte, and none reaches into a header or beyond its page.
THEOREM SlabAllocatorIsHeap == BlockSpec => ImplementsHeap
  <1>1. BlockInit => H!Init
    BY DEF BlockInit, H!Init
  <1>2. SlabInv /\ [BlockNext]_blockVars => [H!Next]_held
    BY NextKeepsRight
  <1>. QED BY <1>1, <1>2, SpecKeepsRight, PTL DEF BlockSpec, ImplementsHeap, H!Spec

\* No assert of the BlockAllocators fails: a list the counters call non-empty has a page
\* with a free block, and a block that is freed was in use.
THEOREM NoBlockAsserts == BlockSpec => []BlockAssertsHold
  BY SpecKeepsRight, RightIsConsistent, PTL

\* The mask, the list and the counters of every header agree with each other and with the
\* blocks in use, shrink() included.
THEOREM HeadersCorrect == BlockSpec => []HeadersConsistent
  BY SpecKeepsRight, RightIsConsistent, PTL

-----------------------------------------------------------------------------
(* The regions of the PageAllocator, wherever mmap puts them                  *)

Separate(R) == \A r, s \in R : r # s => r + PagesPerRegion <= s \/ s + PagesPerRegion <= r

\* The bitmap of a region has the bits of its pages that are not handed out, a region
\* without such a page is a busy one, and no two regions overlap.
PagesRight ==
  /\ regions \in [DOMAIN regions -> (SUBSET Index) \ {{}}]
  /\ DOMAIN regions \subseteq Bases /\ busy \subseteq Bases /\ DOMAIN regions \cap busy = {}
  /\ Separate(Mapped)
  /\ \A x \in out : \E b \in Mapped, i \in Index : x = b + i
  /\ \A b \in Mapped, i \in Index :
       b + i \in out <=> b \in busy \/ (b \in DOMAIN regions /\ i \notin regions[b])
  /\ pageAssert = "holds"

\* A page belongs to one region and has one index there.
LEMMA OneRegion ==
  ASSUME NEW R \in SUBSET Nat, Separate(R),
         NEW a \in R, NEW b \in R, NEW i \in Index, NEW j \in Index
  PROVE  a + i = b + j => a = b /\ i = j
  <1>1. /\ PagesPerRegion \in Nat /\ a \in Nat /\ b \in Nat
        /\ i \in Nat /\ j \in Nat /\ i < PagesPerRegion /\ j < PagesPerRegion
    BY PageAllocatorAssumption DEF Index
  <1>2. a # b => a + PagesPerRegion <= b \/ b + PagesPerRegion <= a
    BY DEF Separate
  <1>. QED BY <1>1, <1>2

\* The neighbour is not in the way: the page is one of a region in m_regions, or no
\* region in m_regions starts less than a region behind the page.
Found(p) ==
  \A b \in busy, i \in Index :
    p = b + i => \A r \in DOMAIN regions : b < r => p + PagesPerRegion <= r

\* find() returns the region of the page if it is among the keys; else it returns none,
\* unless a key is less than a region behind the page.
LEMMA FindsOwn ==
  ASSUME NEW R \in SUBSET Nat, Separate(R), NEW keys \in SUBSET R, NEW b \in R, NEW i \in Index,
         b \in keys \/ \A r \in keys : b < r => b + i + PagesPerRegion <= r
  PROVE  Find(keys, b + i) = IF b \in keys THEN {b} ELSE {}
  <1>1. /\ PagesPerRegion \in Nat /\ PagesPerRegion >= 2 /\ b \in Nat
        /\ i \in Nat /\ i < PagesPerRegion /\ \A r \in keys : r \in Nat
    BY PageAllocatorAssumption DEF Index
  <1>2. ASSUME NEW r \in keys, r # b
        PROVE  /\ r < b => ~(b + i < r + PagesPerRegion)
               /\ b < r => b + PagesPerRegion <= r
    <2>1. r + PagesPerRegion <= b \/ b + PagesPerRegion <= r
      BY <1>2 DEF Separate
    <2>. QED BY <1>1, <2>1
  <1>3. CASE b \in keys
    <2>1. b + i < b + PagesPerRegion /\ b < b + i + PagesPerRegion
      BY <1>1
    <2>2. \A q \in keys : b + i < q + PagesPerRegion => b <= q
      BY <1>1, <1>2
    <2>3. b \in Find(keys, b + i)
      BY <1>3, <2>1, <2>2 DEF Find
    <2>4. ASSUME NEW r \in Find(keys, b + i) PROVE r = b
      <3>1. r \in keys /\ b + i < r + PagesPerRegion /\ r <= b
        BY <1>3, <2>1 DEF Find
      <3>. QED BY <1>1, <1>2, <3>1
    <2>. QED BY <1>3, <2>3, <2>4
  <1>4. CASE b \notin keys
    <2>1. ASSUME NEW r \in Find(keys, b + i) PROVE FALSE
      <3>1. r \in keys /\ b + i < r + PagesPerRegion /\ r < b + i + PagesPerRegion
        BY DEF Find
      <3>2. b < r => b + i + PagesPerRegion <= r
        BY <1>4, <3>1
      <3>. QED BY <1>1, <1>2, <1>4, <3>1, <3>2
    <2>. QED BY <1>4, <2>1
  <1>. QED BY <1>3, <1>4

\* What is to be shown of a step, R being the regions that are mapped after it.
LEMMA RightAfter ==
  ASSUME NEW R, Mapped' = R, Separate(R),
         regions' \in [DOMAIN regions' -> (SUBSET Index) \ {{}}],
         DOMAIN regions' \subseteq Bases, busy' \subseteq Bases, DOMAIN regions' \cap busy' = {},
         \A x \in out' : \E b \in R, i \in Index : x = b + i,
         \A b \in R, i \in Index :
           b + i \in out' <=> b \in busy' \/ (b \in DOMAIN regions' /\ i \notin regions'[b]),
         pageAssert' = "holds"
  PROVE  PagesRight'
  <1>1. Separate(Mapped)'
    BY DEF Separate
  <1>2. (\A x \in out : \E b \in Mapped, i \in Index : x = b + i)'
    OBVIOUS
  <1>3. (\A b \in Mapped, i \in Index :
           b + i \in out <=> b \in busy \/ (b \in DOMAIN regions /\ i \notin regions[b]))'
    OBVIOUS
  <1>. QED BY <1>1, <1>2, <1>3, Zenon DEF PagesRight

\* allocPage() hands out a page that nobody has and keeps the bitmaps right.
LEMMA AllocPageKeepsRight ==
  ASSUME PagesRight, NEW p, AllocPage(p)
  PROVE  PagesRight' /\ p \notin out /\ out' = out \cup {p}
  <1>1. /\ PagesPerRegion \in Nat /\ PagesPerRegion >= 2 /\ Bases \subseteq Nat
        /\ 0 \in Index /\ 1 \in Index
    BY PageAllocatorAssumption DEF Index
  <1>2. CASE AllocNewRegion(p)
    <2>1. /\ DOMAIN regions = {} /\ p \in Bases /\ p \in Nat
          /\ regions' = [r \in {p} |-> Index \ {0}] /\ out' = out \cup {p}
          /\ busy' = busy /\ pageAssert' = pageAssert
          /\ \A m \in busy : p + PagesPerRegion <= m \/ m + PagesPerRegion <= p
      BY <1>1, <1>2 DEF AllocNewRegion, OsAlloc, Mapped
    <2>2. p = p + 0 /\ p \notin busy
      BY <1>1, <2>1
    <2>. DEFINE R == busy \cup {p}
    <2>3. Separate(R) /\ R \in SUBSET Nat /\ p \in R
      BY <1>1, <2>1 DEF PagesRight, Separate, Mapped
    <2>4. /\ DOMAIN regions' = {p} /\ regions'[p] = Index \ {0} /\ 1 \in regions'[p]
          /\ regions' \in [DOMAIN regions' -> (SUBSET Index) \ {{}}]
      BY <1>1, <2>1
    <2>5. Mapped' = R
      BY <2>1, <2>4 DEF Mapped
    <2>6. ASSUME NEW b \in R, NEW i \in Index PROVE b + i = p <=> b = p /\ i = 0
      BY <1>1, <2>2, <2>3, OneRegion
    <2>7. p \notin out
      <3>1. SUFFICES ASSUME NEW b \in busy, NEW i \in Index, p = b + i PROVE FALSE
        BY <2>1 DEF PagesRight, Mapped
      <3>. QED BY <2>2, <2>6, <3>1
    <2>8. \A x \in out' : \E b \in R, i \in Index : x = b + i
      BY <1>1, <2>1, <2>2 DEF PagesRight, Mapped
    <2>9. ASSUME NEW b \in R, NEW i \in Index
          PROVE  b + i \in out'
                   <=> b \in busy' \/ (b \in DOMAIN regions' /\ i \notin regions'[b])
      <3>1. b \in busy => b + i \in out
        BY <2>1 DEF PagesRight, Mapped
      <3>2. b = p => (b + i \in out' <=> i = 0)
        <4>1. SUFFICES ASSUME p + i \in out PROVE FALSE
          BY <2>1, <2>3, <2>6
        <4>2. PICK c \in busy, j \in Index : p + i = c + j
          BY <2>1, <4>1 DEF PagesRight, Mapped
        <4>3. p = c
          BY <2>3, <4>2, OneRegion
        <4>. QED BY <2>2, <4>3
      <3>. QED BY <2>1, <2>2, <2>4, <3>1, <3>2
    <2>10. DOMAIN regions' \subseteq Bases /\ busy' \subseteq Bases /\ DOMAIN regions' \cap busy' = {}
      BY <2>1, <2>2, <2>4 DEF PagesRight
    <2>. HIDE DEF R
    <2>11. pageAssert' = "holds"
      BY <2>1 DEF PagesRight
    <2>. QED BY <2>1, <2>3, <2>4, <2>5, <2>7, <2>8, <2>9, <2>10, <2>11, RightAfter, Zenon
  <1>3. CASE AllocFromRegion(p)
    <2>. DEFINE r == Min(DOMAIN regions)
                i == Min(regions[r])
                left == regions[r] \ {i}
    <2>1. /\ DOMAIN regions # {}
          /\ regions[r] # {} =>
               /\ p = r + i /\ TakeBit(r, left)
               /\ out' = out \cup {p} /\ pageAssert' = pageAssert
      BY <1>3 DEF AllocFromRegion
    <2>2. r \in DOMAIN regions /\ r \in Bases /\ r \in Mapped
      <3>1. DOMAIN regions \in SUBSET Nat
        BY <1>1 DEF PagesRight
      <3>2. r \in DOMAIN regions
        BY <2>1, <3>1, LeastElement
      <3>. QED BY <3>2 DEF PagesRight, Mapped
    <2>3. /\ i \in regions[r] /\ i \in Index /\ left \subseteq Index
          /\ p = r + i /\ TakeBit(r, left) /\ out' = out \cup {p} /\ pageAssert' = pageAssert
      <3>1. regions[r] # {} /\ regions[r] \subseteq Index
        BY <2>2 DEF PagesRight
      <3>2. regions[r] \in SUBSET Nat
        BY <1>1, <3>1 DEF Index
      <3>3. i \in regions[r]
        BY <3>1, <3>2, LeastElement
      <3>. QED BY <2>1, <3>1, <3>3
    <2>. HIDE DEF r, i
    <2>4. Separate(Mapped) /\ Mapped \in SUBSET Nat
      BY <1>1 DEF PagesRight, Mapped
    <2>5. p \notin out /\ r \notin busy
      <3>1. r \notin busy
        BY <2>2 DEF PagesRight
      <3>. QED BY <2>2, <2>3, <3>1 DEF PagesRight
    <2>6. \A x \in out' : \E b \in Mapped, j \in Index : x = b + j
      BY <2>2, <2>3 DEF PagesRight
    <2>7. \A b \in Mapped, j \in Index : b + j = p <=> b = r /\ j = i
      BY <2>2, <2>3, <2>4, OneRegion
    <2>8. pageAssert' = "holds"
      BY <2>3 DEF PagesRight
    <2>9. CASE left = {}
      <3>1. /\ busy' = busy \cup {r} /\ DOMAIN regions' = DOMAIN regions \ {r}
            /\ regions' = [b \in DOMAIN regions \ {r} |-> regions[b]]
            /\ \A b \in DOMAIN regions' : regions'[b] = regions[b]
        BY <2>3, <2>9 DEF TakeBit, Restrict
      <3>2. /\ regions' \in [DOMAIN regions' -> (SUBSET Index) \ {{}}]
            /\ DOMAIN regions' \subseteq Bases /\ busy' \subseteq Bases
            /\ DOMAIN regions' \cap busy' = {}
        BY <2>2, <3>1 DEF PagesRight
      <3>3. Mapped' = Mapped
        BY <2>2, <3>1 DEF Mapped
      <3>4. ASSUME NEW b \in Mapped, NEW j \in Index
            PROVE  b + j \in out'
                     <=> b \in busy' \/ (b \in DOMAIN regions' /\ j \notin regions'[b])
        <4>1. b + j \in out <=> b \in busy \/ (b \in DOMAIN regions /\ j \notin regions[b])
          BY DEF PagesRight
        <4>2. j \in regions[r] => j = i
          BY <2>9
        <4>. QED BY <2>2, <2>3, <2>7, <3>1, <4>1, <4>2
      <3>. QED BY <2>3, <2>4, <2>5, <2>6, <2>8, <3>2, <3>3, <3>4, RightAfter, Zenon
    <2>10. CASE left # {}
      <3>1. /\ busy' = busy /\ regions' = [regions EXCEPT ![r] = left]
            /\ DOMAIN regions' = DOMAIN regions /\ regions'[r] = left
            /\ \A b \in DOMAIN regions : b # r => regions'[b] = regions[b]
        BY <2>2, <2>3, <2>10 DEF TakeBit
      <3>2. /\ regions' \in [DOMAIN regions' -> (SUBSET Index) \ {{}}]
            /\ DOMAIN regions' \subseteq Bases /\ busy' \subseteq Bases
            /\ DOMAIN regions' \cap busy' = {}
        BY <2>2, <2>3, <2>10, <3>1 DEF PagesRight
      <3>3. Mapped' = Mapped
        BY <3>1 DEF Mapped
      <3>4. ASSUME NEW b \in Mapped, NEW j \in Index
            PROVE  b + j \in out'
                     <=> b \in busy' \/ (b \in DOMAIN regions' /\ j \notin regions'[b])
        <4>1. b + j \in out <=> b \in busy \/ (b \in DOMAIN regions /\ j \notin regions[b])
          BY DEF PagesRight
        <4>. QED BY <2>2, <2>3, <2>5, <2>7, <3>1, <4>1
      <3>. QED BY <2>3, <2>4, <2>5, <2>6, <2>8, <3>2, <3>3, <3>4, RightAfter, Zenon
    <2>. QED BY <2>9, <2>10
  <1>. QED BY <1>2, <1>3 DEF AllocPage

\* freePage() of a page somebody has, without a neighbour in the way, fails no assert and
\* keeps the bitmaps right: what RegCmp makes of adjacent regions is all that can go wrong
\* (Slab.cpp:139-174).
THEOREM FreePageRight ==
  ASSUME PagesRight, NEW p, FreePage(p), Found(p)
  PROVE  PagesRight' /\ out' = out \ {p}
  <1>1. /\ PagesPerRegion \in Nat /\ PagesPerRegion >= 2 /\ Bases \subseteq Nat
        /\ \A j \in Index : j \in Nat /\ j < PagesPerRegion
    BY PageAllocatorAssumption DEF Index
  <1>2. PICK b \in Mapped, i \in Index : p = b + i
    BY DEF FreePage, PagesRight
  <1>3. b \in busy \/ (b \in DOMAIN regions /\ i \notin regions[b])
    BY <1>2 DEF FreePage, PagesRight, Mapped
  <1>4. Separate(Mapped) /\ Mapped \in SUBSET Nat /\ b \in Nat
    BY <1>1, <1>2 DEF PagesRight, Mapped
  <1>5. \A c \in Mapped, j \in Index : c + j = p <=> c = b /\ j = i
    BY <1>2, <1>4, OneRegion
  <1>6. Find(DOMAIN regions, p) = IF b \in DOMAIN regions THEN {b} ELSE {}
    <2>1. b \in DOMAIN regions \/ \A r \in DOMAIN regions : b < r => b + i + PagesPerRegion <= r
      BY <1>2, <1>3 DEF Found
    <2>2. DOMAIN regions \in SUBSET Mapped
      BY DEF Mapped
    <2>. QED BY <1>2, <1>4, <2>1, <2>2, FindsOwn
  <1>7. b \in busy => Find(busy, p) = {b}
    <2>1. busy \in SUBSET Mapped
      BY DEF Mapped
    <2>. QED BY <1>2, <1>4, <2>1, FindsOwn
  <1>8. (p - b) % PagesPerRegion = i /\ p - b = i
    BY <1>1, <1>2, <1>4
  <1>9. CASE b \in DOMAIN regions
    <2>1. i \notin regions[b] /\ b \notin busy
      BY <1>3, <1>9 DEF PagesRight
    <2>2. /\ regions' = IF regions[b] \cup {i} = Index
                          THEN Restrict(regions, DOMAIN regions \ {b})
                          ELSE [regions EXCEPT ![b] = @ \cup {i}]
          /\ out' = out \ {p} /\ busy' = busy /\ pageAssert' = pageAssert
      <3>1. Find(DOMAIN regions, p) = {b} /\ ~Misfiles(p, b)
        BY <1>1, <1>2, <1>4, <1>6, <1>9 DEF Misfiles
      <3>2. \E r \in {b} :
               /\ GiveBack(p, r, i)
               /\ pageAssert' = CASE Misfiles(p, r) -> "misfiled"
                                  [] i \in regions[r] /\ ~Misfiles(p, r) -> "failed"
                                  [] OTHER -> pageAssert
               /\ UNCHANGED busy
        BY <1>8, <3>1, Zenon DEF FreePage, FreeToRegion, FreeToBusyRegion
      <3>. QED BY <2>1, <3>1, <3>2 DEF GiveBack
    <2>3. CASE regions[b] \cup {i} = Index
      <3>. DEFINE R == Mapped \ {b}
      <3>1. /\ DOMAIN regions' = DOMAIN regions \ {b}
            /\ regions' = [c \in DOMAIN regions \ {b} |-> regions[c]]
            /\ \A c \in DOMAIN regions' : regions'[c] = regions[c]
        BY <2>2, <2>3 DEF Restrict
      <3>2. /\ regions' \in [DOMAIN regions' -> (SUBSET Index) \ {{}}]
            /\ DOMAIN regions' \subseteq Bases /\ busy' \subseteq Bases
            /\ DOMAIN regions' \cap busy' = {} /\ pageAssert' = "holds"
        BY <2>2, <3>1 DEF PagesRight
      <3>3. Mapped' = R /\ Separate(R)
        BY <1>4, <2>1, <2>2, <3>1 DEF Separate, Mapped
      <3>4. \A x \in out' : \E c \in R, j \in Index : x = c + j
        <4>1. SUFFICES ASSUME NEW c \in Mapped, NEW j \in Index, c + j \in out, c + j # p
                       PROVE  c \in R
          BY <2>2 DEF PagesRight
        <4>2. SUFFICES ASSUME c = b PROVE FALSE
          OBVIOUS
        <4>3. j \notin regions[b] /\ j # i
          BY <1>9, <1>5, <2>1, <4>1, <4>2 DEF PagesRight
        <4>. QED BY <2>3, <4>3
      <3>5. ASSUME NEW c \in R, NEW j \in Index
            PROVE  c + j \in out'
                     <=> c \in busy' \/ (c \in DOMAIN regions' /\ j \notin regions'[c])
        <4>1. c + j \in out <=> c \in busy \/ (c \in DOMAIN regions /\ j \notin regions[c])
          BY DEF PagesRight
        <4>. QED BY <1>5, <2>2, <3>1, <4>1
      <3>. HIDE DEF R
      <3>. QED BY <2>2, <3>2, <3>3, <3>4, <3>5, RightAfter, Zenon
    <2>4. CASE regions[b] \cup {i} # Index
      <3>1. /\ DOMAIN regions' = DOMAIN regions /\ regions'[b] = regions[b] \cup {i}
            /\ regions' = [regions EXCEPT ![b] = @ \cup {i}]
            /\ \A c \in DOMAIN regions : c # b => regions'[c] = regions[c]
        BY <1>9, <2>2, <2>4
      <3>2. regions' \in [DOMAIN regions' -> (SUBSET Index) \ {{}}]
        <4>1. regions[b] \cup {i} \in (SUBSET Index) \ {{}}
          BY <1>9 DEF PagesRight
        <4>. QED BY <3>1, <4>1, Zenon DEF PagesRight
      <3>3. /\ DOMAIN regions' \subseteq Bases /\ busy' \subseteq Bases
            /\ DOMAIN regions' \cap busy' = {} /\ pageAssert' = "holds"
            /\ Mapped' = Mapped
        BY <2>2, <3>1 DEF PagesRight, Mapped
      <3>4. \A x \in out' : \E c \in Mapped, j \in Index : x = c + j
        BY <2>2 DEF PagesRight
      <3>5. ASSUME NEW c \in Mapped, NEW j \in Index
            PROVE  c + j \in out'
                     <=> c \in busy' \/ (c \in DOMAIN regions' /\ j \notin regions'[c])
        <4>1. c + j \in out <=> c \in busy \/ (c \in DOMAIN regions /\ j \notin regions[c])
          BY DEF PagesRight
        <4>. QED BY <1>5, <1>9, <2>1, <2>2, <3>1, <4>1
      <3>. QED BY <1>4, <2>2, <3>2, <3>3, <3>4, <3>5, RightAfter, Zenon
    <2>. QED BY <2>3, <2>4
  <1>10. CASE b \notin DOMAIN regions
    <2>1. b \in busy
      BY <1>3, <1>10
    <2>2. /\ busy' = busy \ {b} /\ regions' = Update(regions, b, {i})
          /\ out' = out \ {p} /\ pageAssert' = pageAssert
      BY <1>6, <1>7, <1>8, <1>10, <2>1, Zenon DEF FreePage, FreeToRegion, FreeToBusyRegion, Reopen
    <2>3. /\ DOMAIN regions' = DOMAIN regions \cup {b} /\ regions'[b] = {i}
          /\ \A c \in DOMAIN regions : regions'[c] = regions[c]
          /\ regions' = [z \in DOMAIN regions \cup {b} |-> IF z = b THEN {i} ELSE regions[z]]
      BY <1>10, <2>2 DEF Update
    <2>4. regions' \in [DOMAIN regions' -> (SUBSET Index) \ {{}}]
      BY <2>3 DEF PagesRight
    <2>5. /\ DOMAIN regions' \subseteq Bases /\ busy' \subseteq Bases
          /\ DOMAIN regions' \cap busy' = {} /\ pageAssert' = "holds"
          /\ Mapped' = Mapped
      BY <2>1, <2>2, <2>3 DEF PagesRight, Mapped
    <2>6. \A x \in out' : \E c \in Mapped, j \in Index : x = c + j
      BY <2>2 DEF PagesRight
    <2>7. ASSUME NEW c \in Mapped, NEW j \in Index
          PROVE  c + j \in out'
                   <=> c \in busy' \/ (c \in DOMAIN regions' /\ j \notin regions'[c])
      <3>1. c + j \in out <=> c \in busy \/ (c \in DOMAIN regions /\ j \notin regions[c])
        BY DEF PagesRight
      <3>. QED BY <1>5, <1>10, <2>1, <2>2, <2>3, <3>1
    <2>. QED BY <1>4, <2>2, <2>4, <2>5, <2>6, <2>7, RightAfter, Zenon
  <1>. QED BY <1>9, <1>10

\* freePage() with the neighbour in the way takes the page for one of the neighbour's.
LEMMA Misfiled ==
  ASSUME PagesRight, NEW p, FreePage(p), ~Found(p)
  PROVE  pageAssert' = "misfiled" /\ PageTypeOK'
  <1>1. /\ PagesPerRegion \in Nat /\ PagesPerRegion >= 2 /\ Bases \subseteq Nat
        /\ \A j \in Index : j \in Nat /\ j < PagesPerRegion
    BY PageAllocatorAssumption DEF Index
  <1>2. PICK b \in busy, i \in Index, r \in DOMAIN regions :
           p = b + i /\ b < r /\ ~(p + PagesPerRegion <= r)
    BY DEF Found
  <1>3. /\ b \in Nat /\ i \in Nat /\ i < PagesPerRegion /\ r \in Nat
        /\ DOMAIN regions \subseteq Nat
        /\ \A q \in DOMAIN regions : b + PagesPerRegion <= q \/ q + PagesPerRegion <= b
        /\ \A q \in DOMAIN regions :
             q # r => r + PagesPerRegion <= q \/ q + PagesPerRegion <= r
    BY <1>1, <1>2 DEF PagesRight, Separate, Mapped
  <1>4. p \in Nat /\ p < r /\ r < p + PagesPerRegion
    BY <1>1, <1>2, <1>3
  <1>5. ASSUME NEW q \in DOMAIN regions, p < q + PagesPerRegion PROVE r <= q
    BY <1>1, <1>2, <1>3, <1>4, <1>5
  <1>6. Find(DOMAIN regions, p) = {r}
    <2>. DEFINE notBefore == {q \in DOMAIN regions : p < q + PagesPerRegion}
    <2>1. r \in notBefore /\ \A q \in notBefore : q \in Nat /\ r <= q
      BY <1>1, <1>3, <1>4, <1>5
    <2>2. {q \in notBefore : q < p + PagesPerRegion /\ \A z \in notBefore : q <= z} = {r}
      BY <1>1, <1>3, <1>4, <2>1
    <2>. QED BY <2>2 DEF Find
  <1>7. Misfiles(p, r)
    BY <1>4 DEF Misfiles
  <1>. DEFINE j == (p - r) % PagesPerRegion
  <1>8. j \in Index
    BY <1>1, <1>3, <1>4 DEF Index
  <1>9. GiveBack(p, r, j) /\ pageAssert' = "misfiled" /\ busy' = busy
    BY <1>6, <1>7, Zenon DEF FreePage, FreeToRegion, FreeToBusyRegion
  <1>10. /\ DOMAIN regions' \subseteq DOMAIN regions
         /\ \A c \in DOMAIN regions' : regions'[c] \subseteq Index
         /\ out' \subseteq out
    <2>1. CASE j \in regions[r]
      BY <1>9, <2>1 DEF GiveBack, PagesRight
    <2>2. CASE j \notin regions[r]
      BY <1>2, <1>8, <1>9, <2>2 DEF GiveBack, PagesRight, Restrict
    <2>. QED BY <2>1, <2>2
  <1>11. out \subseteq PageAddress
    BY DEF PagesRight, PageAddress, Mapped
  <1>. QED BY <1>9, <1>10, <1>11 DEF PageTypeOK, PagesRight, PageAddress

-----------------------------------------------------------------------------
(* The allocators at work together *)

\* As long as no page was misfiled, the pages that the PageAllocator has handed out are
\* those of the BlockAllocators.
Together ==
  /\ SlabInv /\ PageTypeOK /\ pageAssert # "failed"
  /\ pageAssert = "holds" => PagesRight /\ out = Owned(page)

\* Bitmaps that are right have their types.
LEMMA RightPages == PagesRight => PageTypeOK /\ pageAssert = "holds"
  <1>1. ASSUME PagesRight PROVE out \subseteq PageAddress
    BY <1>1 DEF PagesRight, PageAddress, Mapped
  <1>. QED BY <1>1 DEF PagesRight, PageTypeOK

LEMMA InitTogether == SlabInit => Together
  <1>. SUFFICES ASSUME SlabInit PROVE Together
    OBVIOUS
  <1>1. SlabInv /\ Owned(page) = {}
    BY InitSlabInv DEF SlabInit
  <1>2. PagesRight /\ out = {}
    BY DEF SlabInit, PageInit, PagesRight, Separate, Mapped
  <1>. QED BY <1>1, <1>2, RightPages DEF Together

\* What is to be shown of a step that misfiles no page.
LEMMA RightTogether ==
  ASSUME SlabInv', PagesRight', out' = Owned(page)'
  PROVE  Together'
  <1>1. PagesRight' => (PageTypeOK /\ pageAssert = "holds")'
    BY RightPages, PTL
  <1>. QED BY <1>1 DEF Together

\* Every step keeps both books, and is one that SlabAllocator takes with the pages it
\* assumes to be supplied with.
LEMMA StepTogether ==
  ASSUME Together, [SlabNext]_<<blockVars, pageVars>>
  PROVE  Together' /\ [BlockNext]_blockVars
  <1>1. SlabInv
    BY DEF Together
  <1>. DEFINE Pages == PagesRight /\ out = Owned(page)
  <1>2. ASSUME NEW size \in Size, SlabAlloc(size), ~aborted, Pages PROVE Together' /\ BlockNext
    <2>1. PICK k \in Log(size) :
            \/ AllocBlock(k, size) /\ UNCHANGED pageVars
            \/ \E p \in Page : AllocPage(p) /\ AllocExpanding(k, size, p)
      BY <1>2 DEF SlabAlloc
    <2>2. CASE AllocBlock(k, size) /\ UNCHANGED pageVars
      <3>1. SlabInv' /\ Owned(page)' = Owned(page)
        BY <1>1, <2>2, AllocKeepsRight
      <3>2. PagesRight' /\ out' = out
        BY <1>2, <2>2 DEF pageVars, PagesRight, Mapped
      <3>3. BlockNext
        BY <1>2, <2>2 DEF BlockNext, Alloc
      <3>. QED BY <1>2, <3>1, <3>2, <3>3, RightTogether
    <2>3. ASSUME NEW p \in Page, AllocPage(p), AllocExpanding(k, size, p)
          PROVE  Together' /\ BlockNext
      <3>1. PagesRight' /\ p \notin out /\ out' = out \cup {p}
        BY <1>2, <2>3, AllocPageKeepsRight
      <3>2. page[p].owner = NoClass
        BY <1>2, <3>1 DEF Owned
      <3>3. SlabInv' /\ Owned(page)' = Owned(page) \cup {p}
        BY <1>1, <2>3, <3>2, AllocKeepsRight
      <3>4. BlockNext
        BY <1>2, <2>3, <3>2 DEF BlockNext, Alloc
      <3>. QED BY <1>2, <3>1, <3>3, <3>4, RightTogether
    <2>. QED BY <2>1, <2>2, <2>3
  <1>3. ASSUME NEW b \in held, Free(b), UNCHANGED pageVars, ~aborted, Pages
        PROVE  Together' /\ BlockNext
    <2>1. SlabInv' /\ Owned(page)' = Owned(page)
      BY <1>1, <1>3, FreeKeepsRight
    <2>2. PagesRight' /\ out' = out
      BY <1>3 DEF pageVars, PagesRight, Mapped
    <2>. QED BY <1>3, <2>1, <2>2, RightTogether DEF BlockNext
  <1>4. ASSUME NEW k \in Class, NEW p \in Page, Shrink(k, p), FreePage(p), ~aborted, Pages
        PROVE  Together' /\ BlockNext
    <2>1. SlabInv' /\ Owned(page)' = Owned(page) \ {p}
      BY <1>1, <1>4, ShrinkKeepsRight
    <2>2. BlockNext
      BY <1>4 DEF BlockNext
    <2>3. CASE Found(p)
      BY <1>4, <2>1, <2>2, <2>3, FreePageRight, RightTogether
    <2>4. CASE ~Found(p)
      BY <1>4, <2>1, <2>2, <2>4, Misfiled DEF Together
    <2>. QED BY <2>3, <2>4
  <1>5. ASSUME UNCHANGED <<blockVars, pageVars>> PROVE Together' /\ UNCHANGED blockVars
    <2>1. UNCHANGED blockVars /\ UNCHANGED pageVars
      BY <1>5
    <2>2. SlabInv'
      BY <1>1, <2>1, NextKeepsRight
    <2>3. PagesRight' <=> PagesRight
      BY <2>1 DEF pageVars, PagesRight, Mapped
    <2>4. Owned(page)' = Owned(page)
      BY <2>1 DEF blockVars, Owned
    <2>5. out' = out /\ pageAssert' = pageAssert /\ (PageTypeOK => PageTypeOK')
      BY <2>1 DEF pageVars, PageTypeOK
    <2>. QED BY <2>1, <2>2, <2>3, <2>4, <2>5 DEF Together
  <1>6. CASE SlabNext
    <2>1. Pages /\ ~aborted
      BY <1>6 DEF SlabNext, Together
    <2>. QED BY <1>2, <1>3, <1>4, <1>6, <2>1 DEF SlabNext, SlabFree, SlabShrink
  <1>. QED BY <1>5, <1>6

LEMMA SpecTogether == SlabSpec => []Together
  <1>1. Together /\ [SlabNext]_<<blockVars, pageVars>> => Together'
    BY StepTogether
  <1>. QED BY <1>1, InitTogether, PTL DEF SlabSpec

\* The PageAllocator supplies pages as the BlockAllocators assume: never one in use,
\* wherever mmap puts the regions.
THEOREM SupplyRight == SlabSpec => SupplyAsAssumed
  <1>1. SlabInit => BlockInit
    BY DEF SlabInit
  <1>2. Together /\ [SlabNext]_<<blockVars, pageVars>> => [BlockNext]_blockVars
    BY StepTogether
  <1>. QED BY <1>1, <1>2, SpecTogether, PTL DEF SlabSpec, BlockSpec, SupplyAsAssumed

\* operator new and delete, down to mmap, are a heap.
THEOREM HeapCorrect == SlabSpec => ImplementsHeap
  BY SupplyRight, SlabAllocatorIsHeap, PTL DEF SupplyAsAssumed

\* The variables of both allocators keep their types.
THEOREM AllocatorTypes == SlabSpec => []SlabTypeOK
  <1>1. Together => SlabTypeOK
    BY RightIsConsistent DEF Together, SlabTypeOK
  <1>. QED BY <1>1, SpecTogether, PTL

\* The asserts of allocPage() and freePage() hold but for misfiled pages: a region in
\* m_regions has a free page, a page of no region there is one of a busy region, and the
\* bit of a page that comes back is clear.
THEOREM NoPageAsserts == SlabSpec => []PageAssertsHold
  <1>1. Together => PageAssertsHold
    BY DEF Together, PageAssertsHold
  <1>. QED BY <1>1, SpecTogether, PTL

\* No page is handed out twice or lost, and no two regions overlap, wherever mmap puts them.
THEOREM PagesCorrect == SlabSpec => []PagesAccounted
  <1>1. ASSUME PagesRight PROVE PagesAccounted
    <2>. DEFINE all == {r + i : r \in Mapped, i \in Index}
                open == UNION {{r + i : i \in regions[r]} : r \in DOMAIN regions}
    <2>1. /\ Mapped \in SUBSET Nat /\ Separate(Mapped)
          /\ \A r \in DOMAIN regions : regions[r] \subseteq Index
      BY <1>1, PageAllocatorAssumption DEF PagesRight, Mapped
    <2>2. ASSUME NEW b \in Mapped, NEW i \in Index
          PROVE  b + i \in open <=> b \in DOMAIN regions /\ i \in regions[b]
      <3>1. ASSUME b + i \in open PROVE b \in DOMAIN regions /\ i \in regions[b]
        <4>1. PICK r \in DOMAIN regions : b + i \in {r + j : j \in regions[r]}
          BY <3>1
        <4>2. PICK j \in regions[r] : b + i = r + j
          BY <4>1
        <4>3. r \in Mapped /\ j \in Index
          BY <2>1, <4>2 DEF Mapped
        <4>. HIDE DEF all, open
        <4>4. b + i = r + j => b = r /\ i = j
          BY <2>1, <4>3, OneRegion, Zenon
        <4>5. b = r /\ i = j
          BY <4>2, <4>4
        <4>. QED BY <4>5
      <3>. QED BY <3>1
    <2>. HIDE DEF open
    <2>3. ASSUME NEW b \in Mapped, NEW i \in Index PROVE b + i \in out <=> b + i \notin open
      <3>1. /\ b + i \in out <=> b \in busy \/ (b \in DOMAIN regions /\ i \notin regions[b])
            /\ DOMAIN regions \cap busy = {}
        BY <1>1 DEF PagesRight, Mapped
      <3>. QED BY <2>2, <3>1 DEF Mapped
    <2>4. out \subseteq all
      BY <1>1 DEF PagesRight, Mapped
    <2>5. out = all \ open
      BY <2>3, <2>4
    <2>6. /\ DOMAIN regions \cap busy = {}
          /\ \A r, s \in Mapped : r # s => r + PagesPerRegion <= s \/ s + PagesPerRegion <= r
      BY <1>1, <2>1 DEF PagesRight, Separate
    <2>. QED BY <2>5, <2>6 DEF PagesAccounted, open
  <1>2. Together => PagesAccounted
    BY <1>1 DEF Together, PagesAccounted
  <1>. QED BY <1>2, SpecTogether, PTL
=============================================================================
