---------------------------- MODULE ProcessTable ----------------------------
(***************************************************************************)
(* The table of S2E processes: struct S2EShared, kept in memory shared by  *)
(* every process forked from the first one (S2E.h), the semaphore around   *)
(* it (Synchronization.cpp), and the operations of class S2E that read and *)
(* write it (S2E.cpp): the constructor, fork(), the destructor,            *)
(* checkDeadProcesses() and fetchAndIncrementStateId().                    *)
(*                                                                         *)
(* Between acquire() and release() the code reads and then writes: the two *)
(* halves are two steps here, so only the semaphore makes them atomic.  A  *)
(* process may die at any step.                                            *)
(***************************************************************************)
EXTENDS Integers, FiniteSets

CONSTANTS
  Pid,            \* the pids the operating system can give to S2E processes
  Root,           \* the pid of the process that runs S2E::S2E
  NoPid,          \* (unsigned)-1 in processPids; also "nobody holds the lock"
  MaxProcesses,   \* m_maxProcesses
  MaxFileId,      \* bound: fork() is called only while lastFileId < MaxFileId
  MaxStateId,     \* bound: ids are fetched only while lastStateId < MaxStateId
  MaxCrashes      \* bound: how many processes die without running ~S2E

ASSUME ProcessTableAssumption ==
  /\ Root \in Pid /\ IsFiniteSet(Pid)
  /\ NoPid \notin Pid
  /\ MaxProcesses \in Nat \ {0}
  /\ MaxFileId \in Nat
  /\ MaxStateId \in Nat
  /\ MaxCrashes \in Nat

NoIndex == -1                       \* (unsigned)-1 in processIds
Slot    == 0 .. MaxProcesses - 1

VARIABLES
  \* struct S2EShared and its semaphore, in shared memory
  lock, currentProcessCount, lastFileId, lastStateId, processIds, processPids,
  \* what the operating system knows: which pids exist, who their parent is
  life, parent, outputDirs, crashes,
  \* each process: where it is, m_currentProcessIndex, m_currentProcessId and
  \* the local newProcessIndex of fork() or ret of fetchAndIncrementStateId()
  at, index, slot, local,
  \* history: the ids fetchAndIncrementStateId() has returned
  issued

shared == <<currentProcessCount, lastFileId, lastStateId, processIds, processPids>>
system == <<life, parent, outputDirs, crashes>>
mine   == <<index, slot, local>>
vars   == <<lock, shared, system, at, mine, issued>>

-----------------------------------------------------------------------------
(* Where a process can be.  "x.acq" waits in acquire() for the operation x. *)

Waiting == {"fork.acq", "fail.acq", "reg.acq", "exit.acq", "scan.acq", "id.acq"}
Inside  == {"fork.check", "fork.reserve", "fail.undo", "reg.find", "reg.write",
            "exit.clear", "scan.run", "id.read", "id.incr"}
Outside == {"idle", "fork.call", "reg.dir", "exit.end", "abort", "dead"}

Entry == [l \in Waiting |->
           CASE l = "fork.acq" -> "fork.check"
             [] l = "fail.acq" -> "fail.undo"
             [] l = "reg.acq"  -> "reg.find"
             [] l = "exit.acq" -> "exit.clear"
             [] l = "scan.acq" -> "scan.run"
             [] l = "id.acq"   -> "id.read"]

FreeSlots == {i \in Slot : processIds[i] = NoIndex}

\* Forks that fork() has counted and whose child has no slot yet.
Pending == {p \in Pid : at[p] \in {"fork.call", "fail.acq", "fail.undo",
                                   "reg.acq", "reg.find", "reg.write"}}

-----------------------------------------------------------------------------
\* S2E::S2E, up to the creation of the first output directory.
Init ==
  /\ lock = NoPid
  /\ currentProcessCount = 1
  /\ lastFileId = 1
  /\ lastStateId = 0
  /\ processIds = [i \in Slot |-> IF i = 0 THEN 0 ELSE NoIndex]
  /\ processPids = [i \in Slot |-> IF i = 0 THEN Root ELSE NoPid]
  /\ life = [p \in Pid |-> IF p = Root THEN "running" ELSE "free"]
  /\ parent = [p \in Pid |-> NoPid]
  /\ outputDirs = {0}
  /\ crashes = 0
  /\ at = [p \in Pid |-> IF p = Root THEN "idle" ELSE "dead"]
  /\ index = [p \in Pid |-> 0]
  /\ slot = [p \in Pid |-> 0]
  /\ local = [p \in Pid |-> 0]
  /\ issued = {}

Go(p, from, to) == at[p] = from /\ at' = [at EXCEPT ![p] = to]

\* S2ESynchronizedObjectInternal::acquire: sem_wait on the shared semaphore.
Acquire(p) ==
  /\ at[p] \in Waiting
  /\ lock = NoPid
  /\ lock' = p
  /\ at' = [at EXCEPT ![p] = Entry[at[p]]]
  /\ UNCHANGED <<shared, system, mine, issued>>

\* S2ESynchronizedObjectInternal::release: sem_post.
Release == lock' = NoPid

\* An assert() fails: the process aborts where it stands, the lock unreleased.
AssertFails(p) ==
  /\ at' = [at EXCEPT ![p] = "abort"]
  /\ UNCHANGED <<lock, shared, system, mine, issued>>

-----------------------------------------------------------------------------
(* S2E::fork *)

Fork(p) ==
  /\ Go(p, "idle", "fork.acq")
  /\ lastFileId < MaxFileId
  /\ UNCHANGED <<lock, shared, system, mine, issued>>

\* For comparison: the early return leaves the lock taken.
ForkRefusedLocked(p) ==
  /\ Go(p, "fork.check", "idle")
  /\ currentProcessCount = MaxProcesses
  /\ UNCHANGED <<lock, shared, system, mine, issued>>

\* if (shared->currentProcessCount == m_maxProcesses) { release; return -1; }
ForkRefused(p) ==
  /\ Go(p, "fork.check", "idle")
  /\ currentProcessCount = MaxProcesses
  /\ Release
  /\ UNCHANGED <<shared, system, mine, issued>>

\* For comparison: the process count is compared with the wrong sign.
ForkAdmittedAlways(p) ==
  /\ Go(p, "fork.check", "fork.reserve")
  /\ UNCHANGED <<lock, shared, system, mine, issued>>

ForkAdmitted(p) ==
  /\ Go(p, "fork.check", "fork.reserve")
  /\ currentProcessCount # MaxProcesses
  /\ UNCHANGED <<lock, shared, system, mine, issued>>

\* For comparison: the child, not the parent, is to count itself, and does not.
ForkReserveUncounted(p) ==
  /\ Go(p, "fork.reserve", "fork.call")
  /\ local' = [local EXCEPT ![p] = lastFileId]
  /\ lastFileId' = lastFileId + 1
  /\ Release
  /\ UNCHANGED <<currentProcessCount, lastStateId, processIds, processPids, system,
                 index, slot, issued>>

\* For comparison: newProcessIndex = shared->lastFileId, without the ++.
ForkReserveSameIndex(p) ==
  /\ Go(p, "fork.reserve", "fork.call")
  /\ local' = [local EXCEPT ![p] = lastFileId]
  /\ currentProcessCount' = currentProcessCount + 1
  /\ Release
  /\ UNCHANGED <<lastFileId, lastStateId, processIds, processPids, system, index, slot, issued>>

ForkReserve(p) ==
  /\ Go(p, "fork.reserve", "fork.call")
  /\ local' = [local EXCEPT ![p] = lastFileId]
  /\ lastFileId' = lastFileId + 1
  /\ currentProcessCount' = currentProcessCount + 1
  /\ Release
  /\ UNCHANGED <<lastStateId, processIds, processPids, system, index, slot, issued>>

\* ::fork() succeeds: c is a copy of p with a pid that no process has.
ForkChild(p, c) ==
  /\ at[p] = "fork.call"
  /\ life[c] = "free"
  /\ life' = [life EXCEPT ![c] = "running"]
  /\ parent' = [parent EXCEPT ![c] = p]
  /\ at' = [at EXCEPT ![p] = "idle", ![c] = "reg.acq"]
  /\ index' = [index EXCEPT ![c] = index[p]]
  /\ slot' = [slot EXCEPT ![c] = slot[p]]
  /\ local' = [local EXCEPT ![c] = local[p]]
  /\ UNCHANGED <<lock, shared, outputDirs, crashes, issued>>

ForkFails(p) ==
  /\ Go(p, "fork.call", "fail.acq")
  /\ UNCHANGED <<lock, shared, system, mine, issued>>

\* The count is given back, the index is not.
ForkUndo(p) ==
  /\ Go(p, "fail.undo", "idle")
  /\ currentProcessCount' = currentProcessCount - 1
  /\ Release
  /\ UNCHANGED <<lastFileId, lastStateId, processIds, processPids, system, mine, issued>>

\* For comparison: the loop index is incremented once more after the free entry.
FindSlotPast(p) ==
  /\ at[p] = "reg.find"
  /\ \E i \in FreeSlots :
       /\ \A j \in FreeSlots : i <= j
       /\ slot' = [slot EXCEPT ![p] = i + 1]
       /\ at' = [at EXCEPT ![p] = "reg.write"]
       /\ UNCHANGED <<lock, shared, system, index, local, issued>>

\* The child looks for the first free entry; assert(i < m_maxProcesses).
FindSlot(p) ==
  /\ at[p] = "reg.find"
  /\ \/ /\ FreeSlots = {}
        /\ AssertFails(p)
     \/ \E i \in FreeSlots :
          /\ \A j \in FreeSlots : i <= j
          /\ slot' = [slot EXCEPT ![p] = i]
          /\ at' = [at EXCEPT ![p] = "reg.write"]
          /\ UNCHANGED <<lock, shared, system, index, local, issued>>

Register(p) ==
  /\ Go(p, "reg.write", "reg.dir")
  /\ processIds' = [processIds EXCEPT ![slot[p]] = local[p]]
  /\ processPids' = [processPids EXCEPT ![slot[p]] = p]
  /\ index' = [index EXCEPT ![p] = local[p]]
  /\ Release
  /\ UNCHANGED <<currentProcessCount, lastFileId, lastStateId, system, slot, local, issued>>

\* initOutputDirectory: assert(!exists(<base>/<m_currentProcessIndex>)), create.
MakeOutputDir(p) ==
  /\ at[p] = "reg.dir"
  /\ IF index[p] \in outputDirs
       THEN AssertFails(p)
       ELSE /\ outputDirs' = outputDirs \cup {index[p]}
            /\ at' = [at EXCEPT ![p] = "idle"]
            /\ UNCHANGED <<lock, shared, life, parent, crashes, mine, issued>>

-----------------------------------------------------------------------------
(* S2E::~S2E *)

Exit(p) ==
  /\ Go(p, "idle", "exit.acq")
  /\ UNCHANGED <<lock, shared, system, mine, issued>>

\* assert(shared->processIds[m_currentProcessId] == m_currentProcessIndex)
Unregister(p) ==
  /\ at[p] = "exit.clear"
  /\ IF processIds[slot[p]] # index[p]
       THEN AssertFails(p)
       ELSE /\ processIds' = [processIds EXCEPT ![slot[p]] = NoIndex]
            /\ processPids' = [processPids EXCEPT ![slot[p]] = NoPid]
            /\ currentProcessCount' = currentProcessCount - 1
            /\ Release
            /\ at' = [at EXCEPT ![p] = "exit.end"]
            /\ UNCHANGED <<lastFileId, lastStateId, system, mine, issued>>

\* The kernel's view of a death.  Nothing in the code waits for a child, so
\* a dead child keeps its pid as a zombie for as long as its parent runs.
Dies(p) ==
  /\ life' = [q \in Pid |->
       IF q = p THEN IF parent[p] = NoPid THEN "free" ELSE "zombie"
       ELSE IF life[q] = "zombie" /\ parent[q] = p THEN "free"
       ELSE life[q]]
  /\ parent' = [q \in Pid |-> IF parent[q] = p \/ (q = p /\ parent[p] = NoPid)
                              THEN NoPid ELSE parent[q]]
  /\ at' = [at EXCEPT ![p] = "dead"]
  /\ UNCHANGED <<lock, shared, outputDirs, mine, issued>>

ProcessEnds(p) ==
  /\ at[p] \in {"exit.end", "abort"}
  /\ Dies(p)
  /\ UNCHANGED crashes

Crash(p) ==
  /\ life[p] = "running"
  /\ at[p] \notin {"exit.end", "abort"}
  /\ crashes < MaxCrashes
  /\ Dies(p)
  /\ crashes' = crashes + 1

-----------------------------------------------------------------------------
(* S2E::checkDeadProcesses *)

Scan(p) ==
  /\ Go(p, "idle", "scan.acq")
  /\ UNCHANGED <<lock, shared, system, mine, issued>>

\* system("kill -0 pid") for every registered pid: it fails when no process
\* has the pid; a zombie still has one.
ScanTable(p) ==
  /\ Go(p, "scan.run", "idle")
  /\ LET dead == {i \in Slot : processPids[i] # NoPid /\ life[processPids[i]] = "free"}
     IN  /\ processIds' = [i \in Slot |-> IF i \in dead THEN NoIndex ELSE processIds[i]]
         /\ processPids' = [i \in Slot |-> IF i \in dead THEN NoPid ELSE processPids[i]]
         /\ currentProcessCount' = currentProcessCount - Cardinality(dead)
  /\ Release
  /\ UNCHANGED <<lastFileId, lastStateId, system, mine, issued>>

-----------------------------------------------------------------------------
(* S2E::fetchAndIncrementStateId *)

\* For comparison: the id is read and incremented without acquire().
FetchStateIdUnlocked(p) ==
  /\ Go(p, "idle", "id.read")
  /\ lastStateId < MaxStateId
  /\ UNCHANGED <<lock, shared, system, mine, issued>>

FetchStateId(p) ==
  /\ Go(p, "idle", "id.acq")
  /\ lastStateId < MaxStateId
  /\ UNCHANGED <<lock, shared, system, mine, issued>>

ReadStateId(p) ==
  /\ Go(p, "id.read", "id.incr")
  /\ local' = [local EXCEPT ![p] = lastStateId]
  /\ UNCHANGED <<lock, shared, system, index, slot, issued>>

IncrementStateId(p) ==
  /\ Go(p, "id.incr", "idle")
  /\ lastStateId' = lastStateId + 1
  /\ issued' = issued \cup {local[p]}
  /\ Release
  /\ UNCHANGED <<currentProcessCount, lastFileId, processIds, processPids, system, mine>>

-----------------------------------------------------------------------------
\* What a process does once it has begun an operation.
Continue(p) ==
  \/ ForkRefused(p) \/ ForkAdmitted(p) \/ ForkReserve(p)
  \/ ForkFails(p) \/ ForkUndo(p) \/ \E c \in Pid : ForkChild(p, c)
  \/ FindSlot(p) \/ Register(p) \/ MakeOutputDir(p)
  \/ Unregister(p) \/ ProcessEnds(p) \/ ScanTable(p)
  \/ ReadStateId(p) \/ IncrementStateId(p)

\* What its environment (load balancing, plugins, QEMU) makes it begin.
Begin(p) == Fork(p) \/ Exit(p) \/ Scan(p) \/ FetchStateId(p)

Next == \E p \in Pid : Begin(p) \/ Acquire(p) \/ Continue(p) \/ Crash(p)

Spec == Init /\ [][Next]_vars

\* A process that is not killed keeps running, and sem_wait starves nobody.
Fairness == \A p \in Pid : WF_vars(Continue(p)) /\ SF_vars(Acquire(p))

FairSpec == Spec /\ Fairness
-----------------------------------------------------------------------------
(* Properties *)

Occupied   == {i \in Slot : processIds[i] # NoIndex}
Registered == {p \in Pid : at[p] \in {"idle", "reg.dir", "fork.acq", "fork.check",
                 "fork.reserve", "fork.call", "fail.acq", "fail.undo", "exit.acq",
                 "exit.clear", "scan.acq", "scan.run", "id.acq", "id.read", "id.incr"}}

\* Every variable keeps its type; in particular m_currentProcessId is an entry of
\* the table, which ~S2E indexes without a check (S2E.cpp:298).
TypeOK ==
  /\ lock \in Pid \cup {NoPid}
  /\ currentProcessCount \in Int /\ lastFileId \in Nat /\ lastStateId \in Nat
  /\ processIds \in [Slot -> Nat \cup {NoIndex}]
  /\ processPids \in [Slot -> Pid \cup {NoPid}]
  /\ life \in [Pid -> {"free", "running", "zombie"}]
  /\ parent \in [Pid -> Pid \cup {NoPid}]
  /\ outputDirs \in SUBSET Nat
  /\ crashes \in Nat
  /\ at \in [Pid -> Waiting \cup Inside \cup Outside]
  /\ index \in [Pid -> Nat] /\ slot \in [Pid -> Slot] /\ local \in [Pid -> Nat]
  /\ issued \in SUBSET Nat

\* Only the holder of the semaphore is between acquire() and release(): no two
\* processes touch struct S2EShared at once (S2E.cpp, every use of m_sync).
MutualExclusion == \A p \in Pid : at[p] \in Inside => lock = p

\* currentProcessCount never exceeds the maximum and never falls below the
\* registered processes plus the forks under way, so the entry a counted fork
\* will need is there when its child looks for one (S2E.cpp:664), however
\* forks, failures, exits, deaths and clean-ups of several processes interleave.
CapacityRespected ==
  /\ currentProcessCount <= MaxProcesses
  /\ Cardinality(Occupied) + Cardinality(Pending) <= currentProcessCount

\* As long as nobody dies without running ~S2E the count is exact: a failed or
\* refused fork gives back what it took (S2E.cpp:628-649).
CountExact ==
  crashes = 0 => currentProcessCount = Cardinality(Occupied) + Cardinality(Pending)

\* Both: the count bounds the table and errs on the safe side only.
CountKept == CapacityRespected /\ CountExact

\* None of the asserts of fork(), initOutputDirectory() and ~S2E fails.
NoAssertFails == \A p \in Pid : at[p] # "abort"

\* Two running processes that have registered never share an index, hence never
\* write into the same output directory, nor an entry of the table.
OwnOutputDirectory ==
  \A p, q \in Registered : p # q => index[p] # index[q] /\ slot[p] # slot[q]

\* "We must have unique state ids across all processes" (S2E.h:76): no call of
\* fetchAndIncrementStateId() returns an id some process was given before.
StateIdsFresh == [][\A p \in Pid : IncrementStateId(p) => local[p] \notin issued]_vars

\* Nobody can use the table any more: a process died holding the lock.
LockOrphaned == lock # NoPid /\ life[lock] # "running"

\* A child that fork() has made gets its entry and its output directory, also
\* while other processes compete for the semaphore, unless it is killed or the
\* lock is orphaned.
ChildRegisters ==
  \A p \in Pid :
    at[p] = "reg.acq" ~> (at[p] = "idle" \/ life[p] # "running" \/ LockOrphaned)
=============================================================================
