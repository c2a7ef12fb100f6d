------------------------ MODULE StateScheduler_proofs ------------------------
(***************************************************************************)
(* Proofs about StateScheduler, for any number of processes and states.    *)
(***************************************************************************)
EXTENDS StateScheduler, TLAPS

\* What holds of the executor of one process between two steps.
ExecutorInv(p) ==
  /\ searcher[p] = states[p]
  /\ states[p] \cup addedStates[p] \cup deletedStates[p] \cup freed[p] \cup Yielded(p) \subseteq born
  /\ removedStates[p] \subseteq states[p] \cap zombie[p]
  /\ zombie[p] \cap (states[p] \cup addedStates[p]) \subseteq removedStates[p]
  /\ states[p] \cap addedStates[p] = {}
  /\ Yielded(p) \cap (states[p] \cup addedStates[p] \cup zombie[p]) = {}
  /\ (states[p] \cup addedStates[p] \cup Yielded(p)) \cap (deletedStates[p] \cup freed[p]) = {}
  /\ deletedStates[p] \cap freed[p] = {}
  /\ zombie[p] \subseteq born
  /\ current[p] \notin freed[p]
  /\ pc[p] # "instr" => addedStates[p] = {}
  /\ pc[p] \in {"select", "shutdown", "off"} => removedStates[p] = {}
  /\ pc[p] \in {"run", "instr"} =>
       current[p] \in states[p] \ (removedStates[p] \cup speculative[p]) /\ yieldedState[p] = None
  /\ pc[p] \in {"off", "shutdown"} => states[p] = {}
  /\ pc[p] = "off" => yieldedState[p] = None

ExecutorsInv == \A p \in Proc : ExecutorInv(p)

at(q) == <<pc[q], states[q], searcher[q], addedStates[q], removedStates[q], deletedStates[q],
           freed[q], yieldedState[q], current[q], speculative[q], zombie[q]>>

\* A step of other processes leaves an executor alone.
LEMMA Elsewhere ==
  ASSUME NEW q \in Proc, ExecutorInv(q), at(q)' = at(q), born \subseteq born'
  PROVE  ExecutorInv(q)'
  BY DEF ExecutorInv, Yielded, at

\* Every variable keeps its type.
THEOREM TypeCorrect == Spec => []TypeOK
  <1>. USE StateSchedulerAssumption DEF TypeOK, Goto
  <1>1. Init => TypeOK
    BY DEF Init, Initially, Nowhere
  <1>2. TypeOK /\ [Next]_vars => TypeOK'
    <2>. SUFFICES ASSUME TypeOK, [Next]_vars PROVE TypeOK'
      OBVIOUS
    <2>1. CASE UNCHANGED vars
      BY <2>1 DEF vars, sets
    <2>2. ASSUME NEW p \in Proc, NEW s \in State, NEW b \in BOOLEAN, Fork(p, s, b) PROVE TypeOK'
      BY <2>2 DEF Fork
    <2>3. ASSUME NEW p \in Proc, NEW s \in State, Terminate(p, s) PROVE TypeOK'
      BY <2>3, SMTT(30) DEF Terminate
    <2>4. ASSUME NEW p \in Proc, EndInstruction(p) PROVE TypeOK'
      BY <2>4 DEF EndInstruction, UpdateStates
    <2>5. ASSUME NEW p \in Proc, Yield(p) PROVE TypeOK'
      BY <2>5 DEF Yield, SuspendState
    <2>6. ASSUME NEW p \in Proc, SwitchState(p) PROVE TypeOK'
      BY <2>6 DEF SwitchState, UpdateStates
    <2>7. ASSUME NEW p \in Proc, NEW c \in Proc, Balance(p, c) PROVE TypeOK'
      BY <2>7, SMTT(30) DEF Balance, Halves
    <2>8. ASSUME NEW p \in Proc, SelectNothing(p) PROVE TypeOK'
      BY <2>8 DEF SelectNothing
    <2>9. ASSUME NEW p \in Proc, NEW s \in State, SelectInfeasible(p, s) PROVE TypeOK'
      BY <2>9 DEF SelectInfeasible, UpdateStates
    <2>10. ASSUME NEW p \in Proc, NEW s \in State, Select(p, s) PROVE TypeOK'
      BY <2>10 DEF Select, RestoreYieldedState
    <2>. QED
      BY <2>1, <2>2, <2>3, <2>4, <2>5, <2>6, <2>7, <2>8, <2>9, <2>10 DEF Next, Run, Switch
  <1>. QED
    BY <1>1, <1>2, PTL DEF Spec

\* The sets of every executor keep their relations to each other and to pc.
LEMMA ExecutorsInvariant == Spec => []ExecutorsInv
  <1>. USE StateSchedulerAssumption DEF Goto, ExecutorsInv
  <1>1. Init => ExecutorsInv
    BY DEF Init, ExecutorInv, Yielded, Initially, Nowhere
  <1>2. TypeOK /\ ExecutorsInv /\ [Next]_vars => ExecutorsInv'
    <2>. SUFFICES ASSUME TypeOK, ExecutorsInv, [Next]_vars PROVE ExecutorsInv'
      OBVIOUS
    <2>. USE DEF TypeOK
    <2>1. CASE UNCHANGED vars
      BY <2>1, Elsewhere DEF vars, sets, at
    <2>2. ASSUME NEW p \in Proc, NEW s \in State, NEW b \in BOOLEAN, Fork(p, s, b) PROVE ExecutorsInv'
      <3>1. ExecutorInv(p)'
        BY <2>2 DEF Fork, ExecutorInv, Yielded
      <3>2. ASSUME NEW q \in Proc, q # p PROVE ExecutorInv(q)'
        <4>1. at(q)' = at(q) /\ born \subseteq born'
          BY <2>2, <3>2 DEF Fork, at
        <4>. QED
          BY <4>1, Elsewhere
      <3>. QED
        BY <3>1, <3>2
    <2>3. ASSUME NEW p \in Proc, NEW s \in State, Terminate(p, s) PROVE ExecutorsInv'
      <3>1. ExecutorInv(p)'
        BY <2>3 DEF Terminate, ExecutorInv, Yielded
      <3>2. ASSUME NEW q \in Proc, q # p PROVE ExecutorInv(q)'
        <4>1. at(q)' = at(q) /\ born \subseteq born'
          BY <2>3, <3>2 DEF Terminate, at
        <4>. QED
          BY <4>1, Elsewhere
      <3>. QED
        BY <3>1, <3>2
    <2>4. ASSUME NEW p \in Proc, EndInstruction(p) PROVE ExecutorsInv'
      <3>1. ExecutorInv(p)'
        BY <2>4 DEF EndInstruction, UpdateStates, ExecutorInv, Yielded
      <3>2. ASSUME NEW q \in Proc, q # p PROVE ExecutorInv(q)'
        <4>1. at(q)' = at(q) /\ born \subseteq born'
          BY <2>4, <3>2 DEF EndInstruction, UpdateStates, at
        <4>. QED
          BY <4>1, Elsewhere
      <3>. QED
        BY <3>1, <3>2
    <2>5. ASSUME NEW p \in Proc, Yield(p) PROVE ExecutorsInv'
      <3>1. ExecutorInv(p)'
        BY <2>5 DEF Yield, SuspendState, ExecutorInv, Yielded
      <3>2. ASSUME NEW q \in Proc, q # p PROVE ExecutorInv(q)'
        <4>1. at(q)' = at(q) /\ born \subseteq born'
          BY <2>5, <3>2 DEF Yield, SuspendState, at
        <4>. QED
          BY <4>1, Elsewhere
      <3>. QED
        BY <3>1, <3>2
    <2>6. ASSUME NEW p \in Proc, SwitchState(p) PROVE ExecutorsInv'
      <3>1. ExecutorInv(p)'
        BY <2>6 DEF SwitchState, UpdateStates, ExecutorInv, Yielded
      <3>2. ASSUME NEW q \in Proc, q # p PROVE ExecutorInv(q)'
        <4>1. at(q)' = at(q) /\ born \subseteq born'
          BY <2>6, <3>2 DEF SwitchState, UpdateStates, at
        <4>. QED
          BY <4>1, Elsewhere
      <3>. QED
        BY <3>1, <3>2
    <2>7. ASSUME NEW p \in Proc, NEW c \in Proc, Balance(p, c) PROVE ExecutorsInv'
      <3>. DEFINE kept == (states[p] \cup addedStates[p]) \ removedStates[p]
                  dead == deletedStates[p] \cup removedStates[p]
      <3>1. PICK first \in SUBSET (states[p] \ zombie[p]) :
              LET second == (states[p] \ zombie[p]) \ first
              IN  /\ states' = [states EXCEPT ![p] = kept \ second, ![c] = kept \ first]
                  /\ searcher' = [searcher EXCEPT ![p] = kept \ second, ![c] = kept \ first]
                  /\ deletedStates' = [deletedStates EXCEPT ![p] = dead \cup second,
                                                           ![c] = dead \cup first]
        <4>1. searcher[p] = states[p]
          BY DEF ExecutorInv
        <4>2. PICK halves \in Halves(states[p] \ zombie[p]) :
                /\ states' = [states EXCEPT ![p] = kept \ halves[1], ![c] = kept \ halves[2]]
                /\ searcher' = [searcher EXCEPT ![p] = kept \ halves[1], ![c] = kept \ halves[2]]
                /\ deletedStates' = [deletedStates EXCEPT ![p] = dead \cup halves[1],
                                                         ![c] = dead \cup halves[2]]
          BY <2>7, <4>1, Zenon DEF Balance
        <4>3. halves[2] \in SUBSET (states[p] \ zombie[p])
              /\ halves[1] = (states[p] \ zombie[p]) \ halves[2]
          BY DEF Halves
        <4>. QED
          BY <4>2, <4>3, Zenon
      <3>2. /\ pc[p] \in {"run", "exit"} /\ pc[c] = "off"
            /\ pc' = [pc EXCEPT ![p] = "select", ![c] = "select"]
            /\ addedStates' = [addedStates EXCEPT ![p] = {}, ![c] = {}]
            /\ removedStates' = [removedStates EXCEPT ![p] = {}, ![c] = {}]
            /\ freed' = [freed EXCEPT ![c] = freed[p]]
            /\ yieldedState' = [yieldedState EXCEPT ![c] = yieldedState[p]]
            /\ current' = [current EXCEPT ![c] = current[p]]
            /\ speculative' = [speculative EXCEPT ![c] = speculative[p]]
            /\ zombie' = [zombie EXCEPT ![c] = zombie[p]]
            /\ born' = born
        BY <2>7 DEF Balance
      <3>3. c # p
        BY <3>2
      <3>4. ExecutorInv(p)'
        <4>. DEFINE second == (states[p] \ zombie[p]) \ first
        <4>1. /\ states'[p] = kept \ second /\ searcher'[p] = kept \ second
              /\ deletedStates'[p] = dead \cup second
          BY <3>1, <3>3
        <4>2. /\ pc'[p] = "select" /\ addedStates'[p] = {} /\ removedStates'[p] = {}
              /\ freed'[p] = freed[p] /\ yieldedState'[p] = yieldedState[p]
              /\ current'[p] = current[p] /\ zombie'[p] = zombie[p] /\ born' = born
          BY <3>2, <3>3
        <4>3. ExecutorInv(p) /\ pc[p] # "instr"
          BY <3>2
        <4>. HIDE <2>7
        <4>. QED
          BY <4>1, <4>2, <4>3 DEF ExecutorInv, Yielded
      <3>5. ExecutorInv(c)'
        BY <3>1, <3>2, <3>3 DEF ExecutorInv, Yielded
      <3>6. ASSUME NEW q \in Proc, q # p, q # c PROVE ExecutorInv(q)'
        <4>1. at(q)' = at(q) /\ born \subseteq born'
          BY <3>1, <3>2, <3>6 DEF at
        <4>. QED
          BY <4>1, Elsewhere
      <3>. QED
        BY <3>4, <3>5, <3>6
    <2>8. ASSUME NEW p \in Proc, SelectNothing(p) PROVE ExecutorsInv'
      <3>1. ExecutorInv(p)'
        BY <2>8 DEF SelectNothing, ExecutorInv, Yielded
      <3>2. ASSUME NEW q \in Proc, q # p PROVE ExecutorInv(q)'
        <4>1. at(q)' = at(q) /\ born \subseteq born'
          BY <2>8, <3>2 DEF SelectNothing, at
        <4>. QED
          BY <4>1, Elsewhere
      <3>. QED
        BY <3>1, <3>2
    <2>9. ASSUME NEW p \in Proc, NEW s \in State, SelectInfeasible(p, s) PROVE ExecutorsInv'
      <3>1. ExecutorInv(p)'
        BY <2>9 DEF SelectInfeasible, UpdateStates, ExecutorInv, Yielded
      <3>2. ASSUME NEW q \in Proc, q # p PROVE ExecutorInv(q)'
        <4>1. at(q)' = at(q) /\ born \subseteq born'
          BY <2>9, <3>2 DEF SelectInfeasible, UpdateStates, at
        <4>. QED
          BY <4>1, Elsewhere
      <3>. QED
        BY <3>1, <3>2
    <2>10. ASSUME NEW p \in Proc, NEW s \in State, Select(p, s) PROVE ExecutorsInv'
      <3>1. ExecutorInv(p)'
        BY <2>10 DEF Select, RestoreYieldedState, ExecutorInv, Yielded
      <3>2. ASSUME NEW q \in Proc, q # p PROVE ExecutorInv(q)'
        <4>1. at(q)' = at(q) /\ born \subseteq born'
          BY <2>10, <3>2 DEF Select, RestoreYieldedState, at
        <4>. QED
          BY <4>1, Elsewhere
      <3>. QED
        BY <3>1, <3>2
    <2>. QED
      BY <2>1, <2>2, <2>3, <2>4, <2>5, <2>6, <2>7, <2>8, <2>9, <2>10 DEF Next, Run, Switch
  <1>. QED
    BY <1>1, <1>2, TypeCorrect, PTL DEF Spec

-----------------------------------------------------------------------------
(* What the executor promises *)

\* A process never touches a state that was freed and frees none twice, never
\* schedules one on its way out, and runs only states it knows.
THEOREM StatesUsedSafely ==
  Spec => []StatesUsedRightly
  <1>1. TypeOK /\ ExecutorsInv => NoDanglingState
    BY StateSchedulerAssumption DEF ExecutorsInv, ExecutorInv, NoDanglingState, TypeOK, Yielded
  <1>2. ExecutorsInv => RemovedOnce /\ RunsKnownState
    BY DEF ExecutorsInv, ExecutorInv, RemovedOnce, RunsKnownState, Yielded
  <1>3. ExecutorsInv => ShutdownWithoutStates
    BY DEF ExecutorsInv, ExecutorInv, ShutdownWithoutStates, Owned
  <1>. QED
    <2>1. TypeOK /\ ExecutorsInv => StatesUsedRightly
      BY <1>1, <1>2, <1>3 DEF StatesUsedRightly
    <2>. QED
      BY <2>1, TypeCorrect, ExecutorsInvariant, PTL

-----------------------------------------------------------------------------
(* Who explores a state *)

OwnedBySome == \A s \in born \ done : \E p \in Proc : s \in Owned(p)
OwnedByOne == \A p, q \in Proc : p # q => Owned(p) \cap Owned(q) \subseteq copied

Ownership == OwnedBySome /\ OwnedByOne

\* A step of p alone: it gives up only states that are then terminated, and takes
\* only those that are born with the step.
OwnersStep(p) ==
  /\ \A q \in Proc : q # p => Owned(q)' = Owned(q)
  /\ Owned(p) \ Owned(p)' \subseteq done'
  /\ Owned(p)' \ Owned(p) \subseteq born' \ born
  /\ born' \ born \subseteq Owned(p)' /\ born \subseteq born'
  /\ done \subseteq done'
  /\ copied' = copied

\* Such a step neither loses a state nor gives one to two processes.
LEMMA OwnersKept ==
  ASSUME NEW p \in Proc, ExecutorsInv, Ownership, OwnersStep(p)
  PROVE  Ownership'
  <1>1. \A q \in Proc : Owned(q) \subseteq born
    BY DEF ExecutorsInv, ExecutorInv, Owned, Yielded
  <1>. QED
    BY <1>1 DEF Ownership, OwnedBySome, OwnedByOne, OwnersStep

\* Every action of a process is such a step, but for load balancing, which divides
\* what one process has to explore between two.
LEMMA OwnershipInvariant == Spec => []Ownership
  <1>. USE DEF Goto
  <1>1. Init => Ownership
    BY StateSchedulerAssumption
       DEF Init, Ownership, OwnedBySome, OwnedByOne, Owned, Yielded, Initially, Nowhere
  <1>2. TypeOK /\ ExecutorsInv /\ Ownership /\ [Next]_vars => Ownership'
    <2>. SUFFICES ASSUME TypeOK, ExecutorsInv, Ownership, [Next]_vars PROVE Ownership'
      OBVIOUS
    <2>1. CASE UNCHANGED vars
      BY <2>1 DEF vars, sets, Ownership, OwnedBySome, OwnedByOne, Owned, Yielded
    <2>2. ASSUME NEW p \in Proc, NEW s \in State, NEW b \in BOOLEAN, Fork(p, s, b) PROVE Ownership'
      <3>1. OwnersStep(p)
        <4>1. ExecutorInv(p) /\ TypeOK
          BY DEF ExecutorsInv
        <4>. QED
          BY <2>2, <4>1 DEF Fork, ExecutorInv, OwnersStep, Owned, Yielded, TypeOK
      <3>. QED
        BY <3>1, OwnersKept
    <2>3. ASSUME NEW p \in Proc, NEW s \in State, Terminate(p, s) PROVE Ownership'
      <3>1. OwnersStep(p)
        <4>1. ExecutorInv(p) /\ TypeOK
          BY DEF ExecutorsInv
        <4>. QED
          BY <2>3, <4>1 DEF Terminate, ExecutorInv, OwnersStep, Owned, Yielded, TypeOK
      <3>. QED
        BY <3>1, OwnersKept
    <2>4. ASSUME NEW p \in Proc, EndInstruction(p) PROVE Ownership'
      <3>1. OwnersStep(p)
        <4>1. ExecutorInv(p) /\ TypeOK
          BY DEF ExecutorsInv
        <4>. QED
          BY <2>4, <4>1 DEF EndInstruction, UpdateStates, ExecutorInv, OwnersStep, Owned, Yielded, TypeOK
      <3>. QED
        BY <3>1, OwnersKept
    <2>5. ASSUME NEW p \in Proc, Yield(p) PROVE Ownership'
      <3>1. OwnersStep(p)
        <4>1. ExecutorInv(p) /\ TypeOK
          BY DEF ExecutorsInv
        <4>2. /\ states'[p] = states[p] \ {current[p]} /\ yieldedState'[p] = current[p]
              /\ UNCHANGED <<addedStates, removedStates, born, done, copied>>
          BY <2>5, <4>1 DEF Yield, SuspendState, TypeOK
        <4>3. /\ current[p] \in states[p] \ removedStates[p] /\ yieldedState[p] = None
              /\ current[p] # None
          BY <2>5, <4>1, StateSchedulerAssumption DEF Yield, SuspendState, ExecutorInv, TypeOK
        <4>4. Owned(p)' = Owned(p)
          BY <4>2, <4>3 DEF Owned, Yielded
        <4>5. \A q \in Proc : q # p => Owned(q)' = Owned(q)
          BY <2>5 DEF Yield, SuspendState, Owned, Yielded, TypeOK
        <4>. QED
          BY <4>2, <4>4, <4>5 DEF OwnersStep
      <3>. QED
        BY <3>1, OwnersKept
    <2>6. ASSUME NEW p \in Proc, SwitchState(p) PROVE Ownership'
      <3>1. OwnersStep(p)
        <4>1. ExecutorInv(p) /\ TypeOK
          BY DEF ExecutorsInv
        <4>. QED
          BY <2>6, <4>1 DEF SwitchState, UpdateStates, ExecutorInv, OwnersStep, Owned, Yielded, TypeOK
      <3>. QED
        BY <3>1, OwnersKept
    <2>7. ASSUME NEW p \in Proc, NEW c \in Proc, Balance(p, c) PROVE Ownership'
      \* The two halves make up what p had; only the yielded state is in both.
      <3>1. /\ c # p /\ born' = born /\ done' = done
            /\ copied' = copied \cup Yielded(p)
        BY <2>7 DEF Balance, Yielded
      <3>2. Owned(c) = {}
        BY <2>7 DEF Balance, ExecutorsInv, ExecutorInv, Owned, Yielded
      <3>3. \A q \in Proc : q # p /\ q # c => Owned(q)' = Owned(q)
        BY <2>7 DEF Balance, Owned, Yielded, TypeOK
      <3>4. PICK first \in SUBSET (states[p] \ zombie[p]) :
              /\ states'[p] = ((states[p] \cup addedStates[p]) \ removedStates[p])
                                \ ((states[p] \ zombie[p]) \ first)
              /\ states'[c] = ((states[p] \cup addedStates[p]) \ removedStates[p]) \ first
        <4>. DEFINE kept == (states[p] \cup addedStates[p]) \ removedStates[p]
        <4>1. PICK halves \in Halves(states[p] \ zombie[p]) :
                states' = [states EXCEPT ![p] = kept \ halves[1], ![c] = kept \ halves[2]]
          BY <2>7, Zenon DEF Balance
        <4>2. states'[p] = kept \ halves[1] /\ states'[c] = kept \ halves[2]
          BY <4>1, <3>1 DEF TypeOK
        <4>3. halves[2] \in SUBSET (states[p] \ zombie[p])
              /\ halves[1] = (states[p] \ zombie[p]) \ halves[2]
          BY DEF Halves
        <4>. QED
          BY <4>2, <4>3
      <3>5. /\ addedStates'[p] = {} /\ addedStates'[c] = {}
            /\ removedStates'[p] = {} /\ removedStates'[c] = {}
            /\ yieldedState'[p] = yieldedState[p] /\ yieldedState'[c] = yieldedState[p]
        BY <2>7, <3>1 DEF Balance, TypeOK
      <3>6. states[p] \ zombie[p] = (states[p] \cup addedStates[p]) \ removedStates[p]
        BY <2>7 DEF Balance, ExecutorsInv, ExecutorInv
      <3>7. /\ Owned(p)' \cup Owned(c)' = Owned(p)
            /\ Owned(p)' \cap Owned(c)' \subseteq Yielded(p)
        <4>1. /\ Owned(p)' = first \cup Yielded(p)
              /\ Owned(c)' = ((states[p] \ zombie[p]) \ first) \cup Yielded(p)
          BY <3>4, <3>5, <3>6 DEF Owned, Yielded
        <4>2. Owned(p) = (states[p] \ zombie[p]) \cup Yielded(p)
          BY <3>6 DEF Owned
        <4>. QED
          BY <4>1, <4>2
      <3>8. OwnedBySome'
        BY <3>1, <3>2, <3>3, <3>7 DEF Ownership, OwnedBySome
      <3>9. OwnedByOne'
        BY <3>1, <3>2, <3>3, <3>7 DEF Ownership, OwnedByOne
      <3>. QED
        BY <3>8, <3>9 DEF Ownership
    <2>8. ASSUME NEW p \in Proc, SelectNothing(p) PROVE Ownership'
      <3>1. OwnersStep(p)
        <4>1. ExecutorInv(p) /\ TypeOK
          BY DEF ExecutorsInv
        <4>. QED
          BY <2>8, <4>1 DEF SelectNothing, ExecutorInv, OwnersStep, Owned, Yielded, TypeOK
      <3>. QED
        BY <3>1, OwnersKept
    <2>9. ASSUME NEW p \in Proc, NEW s \in State, SelectInfeasible(p, s) PROVE Ownership'
      <3>1. OwnersStep(p)
        <4>1. ExecutorInv(p) /\ TypeOK
          BY DEF ExecutorsInv
        <4>. QED
          BY <2>9, <4>1 DEF SelectInfeasible, UpdateStates, ExecutorInv, OwnersStep, Owned, Yielded, TypeOK
      <3>. QED
        BY <3>1, OwnersKept
    <2>10. ASSUME NEW p \in Proc, NEW s \in State, Select(p, s) PROVE Ownership'
      <3>1. OwnersStep(p)
        <4>1. ExecutorInv(p) /\ TypeOK
          BY DEF ExecutorsInv
        <4>. QED
          BY <2>10, <4>1 DEF Select, RestoreYieldedState, ExecutorInv, OwnersStep, Owned, Yielded, TypeOK
      <3>. QED
        BY <3>1, OwnersKept
    <2>. QED
      BY <2>1, <2>2, <2>3, <2>4, <2>5, <2>6, <2>7, <2>8, <2>9, <2>10 DEF Next, Run, Switch
  <1>. QED
    BY <1>1, <1>2, TypeCorrect, ExecutorsInvariant, PTL DEF Spec

\* Every state that was forked and not terminated is explored by a process that has
\* not shut down, and by one only, unless its process yielded it: then a shutdown may
\* leave it to nobody and a fork of the process to both.
THEOREM StatesExplored == Spec => []EachExploredOnce
  <1>1. ExecutorsInv /\ Ownership => EachExploredOnce
    <2>. SUFFICES ASSUME ExecutorsInv, Ownership PROVE EachExploredOnce
      OBVIOUS
    <2>1. \A p \in Proc : pc[p] = "shutdown" => Owned(p) = Yielded(p)
      BY DEF ExecutorsInv, ExecutorInv, Owned
    <2>2. ASSUME NEW s \in born \ done
          PROVE  s \in UNION {Explored(p) \cup Abandoned(p) : p \in Proc}
      <3>1. PICK p \in Proc : s \in Owned(p)
        BY DEF Ownership, OwnedBySome
      <3>2. s \in Explored(p) \cup Abandoned(p)
        BY <2>1, <3>1 DEF Explored, Abandoned
      <3>. QED BY <3>2
    <2>3. \A p \in Proc : Explored(p) \subseteq Owned(p)
      BY DEF Explored
    <2>4. NoStateLost
      BY <2>2 DEF NoStateLost
    <2>5. ExploredOnce
      BY <2>3 DEF ExploredOnce, Ownership, OwnedByOne
    <2>. QED BY <2>4, <2>5 DEF EachExploredOnce
  <1>. QED
    BY <1>1, OwnershipInvariant, ExecutorsInvariant, PTL

\* What has yielded is in neither states nor the searcher, and a process that runs has
\* nothing yielded: so only a selection of another state makes it run again.
THEOREM YieldingWorks == Spec => YieldGivesWay
  <1>. DEFINE Way == \A p \in Proc : yieldedState[p] # None /\ pc'[p] = "run"
                       => current'[p] # yieldedState[p]
  <1>1. TypeOK /\ ExecutorsInv /\ [Next]_vars => [Way]_vars
    <2>. SUFFICES ASSUME TypeOK, ExecutorsInv, Next,
                         NEW q \in Proc, yieldedState[q] # None, pc'[q] = "run"
                  PROVE  current'[q] # yieldedState[q]
      OBVIOUS
    <2>. USE DEF TypeOK, Goto
    <2>1. /\ pc[q] \notin {"run", "instr"} /\ searcher[q] = states[q]
          /\ yieldedState[q] \notin states[q]
      BY DEF ExecutorsInv, ExecutorInv, Yielded
    <2>2. PICK p \in Proc : Run(p) \/ Switch(p)
      BY DEF Next
    <2>3. CASE Run(p)
      <3>1. pc'[q] # "run"
        BY <2>1, <2>3 DEF Run, Fork, Terminate, EndInstruction, Yield
      <3>. QED BY <3>1
    <2>4. ASSUME NEW s \in State, Select(p, s) PROVE current'[q] # yieldedState[q]
      <3>1. q = p
        BY <2>1, <2>4 DEF Select
      <3>. QED BY <2>1, <2>4, <3>1 DEF Select
    <2>5. CASE SwitchState(p) \/ SelectNothing(p) \/ \E s \in State : SelectInfeasible(p, s)
      <3>1. pc'[q] # "run"
        BY <2>1, <2>5, Zenon DEF SwitchState, SelectNothing, SelectInfeasible
      <3>. QED BY <3>1
    <2>6. ASSUME NEW c \in Proc, Balance(p, c) PROVE current'[q] # yieldedState[q]
      <3>1. pc' = [pc EXCEPT ![p] = "select", ![c] = "select"]
        BY <2>6 DEF Balance
      <3>2. pc'[q] # "run"
        BY <2>1, <3>1
      <3>. QED BY <3>2
    <2>. QED BY <2>2, <2>3, <2>4, <2>5, <2>6 DEF Switch
  <1>. QED BY <1>1, TypeCorrect, ExecutorsInvariant, PTL DEF Spec, YieldGivesWay
=============================================================================
