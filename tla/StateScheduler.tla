--------------------------- MODULE StateScheduler ---------------------------
(***************************************************************************)
(* The bookkeeping of execution states in S2EExecutor.cpp: forking,        *)
(* terminating and yielding states while instructions run, choosing the    *)
(* next state when the state switch timer fires, and handing half of the   *)
(* states to a new process (load balancing).                               *)
(*                                                                         *)
(* Every variable gives each process its own copy: processes share no      *)
(* states, the fork() of load balancing copies them.  A state is known by  *)
(* its id, which no fork of any process gives again (see ProcessTable).    *)
(* klee::Executor's terminateState() and updateStates() and its searcher   *)
(* are not in the repository: they are modelled as this code uses them.    *)
(***************************************************************************)
EXTENDS Integers, FiniteSets

CONSTANTS
  Proc, Root,       \* processes; the one that starts
  State, First,     \* state ids; the initial state
  None,             \* no state
  ConcolicMode      \* whether fork() may leave the new state speculative

ASSUME StateSchedulerAssumption ==
  /\ Root \in Proc
  /\ First \in State /\ None \notin State
  /\ ConcolicMode \in BOOLEAN

VARIABLES
  pc,            \* where a process is: "run" before an instruction, "instr" in
                 \* one, "exit" after CpuExitException, "select" in
                 \* selectNextState, "shutdown"; "off" when it does not exist
  states, searcher, addedStates, removedStates,
  deletedStates, \* m_deletedStates: to be freed by the next selectNextState
  freed,         \* history: states that were deleted
  yieldedState, current,   \* current is g_s2e_state
  speculative, zombie,
  born, done,    \* history: ids given to states; ids of terminated ones
  copied         \* history: states that were yielded while their process forked

sets == <<states, searcher, addedStates, removedStates, deletedStates, freed>>
vars == <<pc, sets, yieldedState, current, speculative, zombie, born, done, copied>>

Nowhere == [p \in Proc |-> {}]
Initially == [p \in Proc |-> IF p = Root THEN {First} ELSE {}]

Init ==
  /\ pc = [p \in Proc |-> IF p = Root THEN "run" ELSE "off"]
  /\ states = Initially /\ searcher = Initially
  /\ addedStates = Nowhere /\ removedStates = Nowhere
  /\ deletedStates = Nowhere /\ freed = Nowhere
  /\ yieldedState = [p \in Proc |-> None]
  /\ current = [p \in Proc |-> IF p = Root THEN First ELSE None]
  /\ speculative = Nowhere /\ zombie = Nowhere
  /\ born = {First}
  /\ done = {}
  /\ copied = {}

Goto(p, label) == pc' = [pc EXCEPT ![p] = label]

\* klee::Executor::updateStates; gone is removedStates once the caller has added
\* to it.  deleteState() keeps the state in memory, in m_deletedStates.
UpdateStates(p, gone) ==
  /\ states' = [states EXCEPT ![p] = (@ \cup addedStates[p]) \ gone]
  /\ searcher' = [searcher EXCEPT ![p] = (@ \cup addedStates[p]) \ gone]
  /\ addedStates' = [addedStates EXCEPT ![p] = {}]
  /\ removedStates' = [removedStates EXCEPT ![p] = {}]
  /\ deletedStates' = [deletedStates EXCEPT ![p] = @ \cup gone]

-----------------------------------------------------------------------------
(* While an instruction runs *)

\* S2EExecutor::fork, branch: one more state, waiting in addedStates.
Fork(p, s, speculates) ==
  /\ pc[p] \in {"run", "instr"}
  /\ s \notin born
  /\ speculates => ConcolicMode
  /\ Goto(p, "instr")
  /\ addedStates' = [addedStates EXCEPT ![p] = @ \cup {s}]
  /\ speculative' = IF speculates THEN [speculative EXCEPT ![p] = @ \cup {s}]
                                  ELSE speculative
  /\ born' = born \cup {s}
  /\ UNCHANGED <<states, searcher, removedStates, deletedStates, freed,
                 yieldedState, current, zombie, done, copied>>

\* terminateState of a state of this process, by the guest or a plugin.  The
\* current state leaves the cpu loop at once: no plugin terminates it while
\* its fork is reported, which executeInstructions asserts (line 1771).
Terminate(p, s) ==
  /\ pc[p] \in {"run", "instr"}
  /\ s \in states[p] \cup addedStates[p]
  /\ s = current[p] => addedStates[p] = {}
  /\ IF s \in addedStates[p]
       THEN /\ addedStates' = [addedStates EXCEPT ![p] = @ \ {s}]
            /\ deletedStates' = [deletedStates EXCEPT ![p] = @ \cup {s}]
            /\ UNCHANGED removedStates
       ELSE /\ removedStates' = [removedStates EXCEPT ![p] = @ \cup {s}]
            /\ UNCHANGED <<addedStates, deletedStates>>
  /\ zombie' = [zombie EXCEPT ![p] = @ \cup {s}]
  /\ done' = done \cup {s}
  /\ Goto(p, IF s = current[p] THEN "exit" ELSE "instr")
  /\ UNCHANGED <<states, searcher, freed, yieldedState, current, speculative, born, copied>>

\* The updateStates after executeInstruction.
EndInstruction(p) ==
  /\ pc[p] = "instr"
  /\ UpdateStates(p, removedStates[p])
  /\ Goto(p, "run")
  /\ UNCHANGED <<freed, yieldedState, current, speculative, zombie, born, done, copied>>

\* For comparison: suspendState is left out.
YieldUnsuspended(p) ==
  /\ pc[p] \in {"run", "instr"}
  /\ addedStates[p] = {}
  /\ Cardinality(states[p]) > 1
  /\ yieldedState' = [yieldedState EXCEPT ![p] = current[p]]
  /\ Goto(p, "exit")
  /\ UNCHANGED <<sets, current, speculative, zombie, born, done, copied>>

\* The state is neither in states nor in the searcher, but still there.
SuspendState(p, s) ==
  /\ states' = [states EXCEPT ![p] = @ \ {s}]
  /\ searcher' = [searcher EXCEPT ![p] = @ \ {s}]

\* yieldState of the current state.
Yield(p) ==
  /\ pc[p] \in {"run", "instr"}
  /\ addedStates[p] = {}
  /\ Cardinality(states[p]) > 1
  /\ yieldedState' = [yieldedState EXCEPT ![p] = current[p]]
  /\ SuspendState(p, current[p])
  /\ Goto(p, "exit")
  /\ UNCHANGED <<addedStates, removedStates, deletedStates, freed, current,
                 speculative, zombie, born, done, copied>>

-----------------------------------------------------------------------------
(* stateSwitchTimerCallback *)

\* doLoadBalancing returns early or its fork() fails; selectNextState begins.
SwitchState(p) ==
  /\ pc[p] \in {"run", "exit"}
  /\ UpdateStates(p, removedStates[p])
  /\ Goto(p, "select")
  /\ UNCHANGED <<freed, yieldedState, current, speculative, zombie, born, done, copied>>

\* For comparison: the parent begins one state too late.
HalvesApart(live) ==
  {<<(live \ first) \ {s}, first>> : s \in live, first \in
     {f \in SUBSET live : Cardinality(f) = Cardinality(live) \div 2}}

\* The states that the parent and the child of doLoadBalancing terminate, of those
\* that are numbered: the child the first half, the parent the others.
Halves(live) ==
  {<<live \ first, first>> : first \in
     {f \in SUBSET live : Cardinality(f) = Cardinality(live) \div 2}}

\* doLoadBalancing forks c, and each of the two terminates its half of the states
\* that are no zombies and begins selectNextState.
Balance(p, c) ==
  /\ pc[p] \in {"run", "exit"}
  /\ pc[c] = "off"
  /\ Cardinality(states[p] \ zombie[p]) > 1
  /\ \E halves \in Halves(states[p] \ zombie[p]) :
       LET second  == halves[1]
           first   == halves[2]
           kept    == (states[p] \cup addedStates[p]) \ removedStates[p]
           ready   == (searcher[p] \cup addedStates[p]) \ removedStates[p]
           dead    == deletedStates[p] \cup removedStates[p]
           Both(f, ofParent, ofChild) == [f EXCEPT ![p] = ofParent, ![c] = ofChild]
       IN  /\ states' = Both(states, kept \ second, kept \ first)
           /\ searcher' = Both(searcher, ready \ second, ready \ first)
           /\ deletedStates' = Both(deletedStates, dead \cup second, dead \cup first)
           /\ addedStates' = Both(addedStates, {}, {})
           /\ removedStates' = Both(removedStates, {}, {})
           /\ pc' = Both(pc, "select", "select")
           /\ freed' = [freed EXCEPT ![c] = freed[p]]
           /\ yieldedState' = [yieldedState EXCEPT ![c] = yieldedState[p]]
           /\ current' = [current EXCEPT ![c] = current[p]]
           /\ speculative' = [speculative EXCEPT ![c] = speculative[p]]
           /\ zombie' = [zombie EXCEPT ![c] = zombie[p]]
  /\ copied' = copied \cup ({yieldedState[p]} \ {None})
  /\ UNCHANGED <<born, done>>

\* For comparison: the current state is freed with the others.
SelectNothingFreesAll(p) ==
  /\ pc[p] = "select"
  /\ searcher[p] = {}
  /\ freed' = [freed EXCEPT ![p] = @ \cup deletedStates[p]]
  /\ deletedStates' = [deletedStates EXCEPT ![p] = {}]
  /\ Goto(p, "shutdown")
  /\ UNCHANGED <<states, searcher, addedStates, removedStates, yieldedState,
                 current, speculative, zombie, born, done, copied>>

\* selectNonSpeculativeState finds the searcher empty: "All states were
\* terminated".  The current state is left as a zombie.
SelectNothing(p) ==
  /\ pc[p] = "select"
  /\ searcher[p] = {}
  /\ freed' = [freed EXCEPT ![p] = @ \cup (deletedStates[p] \ {current[p]})]
  /\ deletedStates' = [deletedStates EXCEPT ![p] = {}]
  /\ Goto(p, "shutdown")
  /\ UNCHANGED <<states, searcher, addedStates, removedStates, yieldedState,
                 current, speculative, zombie, born, done, copied>>

\* The searcher's choice is speculative and its constraints have no solution.
SelectInfeasible(p, s) ==
  /\ pc[p] = "select"
  /\ s \in searcher[p] \cap speculative[p]
  /\ UpdateStates(p, {s})
  /\ zombie' = [zombie EXCEPT ![p] = @ \cup {s}]
  /\ done' = done \cup {s}
  /\ UNCHANGED <<pc, freed, yieldedState, current, speculative, born, copied>>

\* For comparison, restoreYieldedState without the test for NULL; never called.
RestoreNull(p) ==
  /\ states' = [states EXCEPT ![p] = @ \cup {yieldedState[p]}]
  /\ searcher' = [searcher EXCEPT ![p] = @ \cup {yieldedState[p]}]
  /\ yieldedState' = [yieldedState EXCEPT ![p] = None]

RestoreNever(p) == UNCHANGED <<states, searcher, yieldedState>>

RestoreYieldedState(p) ==
  LET back == {yieldedState[p]} \ {None}
  IN  /\ states' = [states EXCEPT ![p] = @ \cup back]
      /\ searcher' = [searcher EXCEPT ![p] = @ \cup back]
      /\ yieldedState' = [yieldedState EXCEPT ![p] = None]

\* The searcher's choice can run, if only after resolveSpeculativeState: the
\* yielded state is put back and the deleted states are freed.
Select(p, s) ==
  /\ pc[p] = "select"
  /\ s \in searcher[p]
  /\ RestoreYieldedState(p)
  /\ freed' = [freed EXCEPT ![p] = @ \cup deletedStates[p]]
  /\ deletedStates' = [deletedStates EXCEPT ![p] = {}]
  /\ speculative' = [speculative EXCEPT ![p] = @ \ {s}]
  /\ current' = [current EXCEPT ![p] = s]
  /\ Goto(p, "run")
  /\ UNCHANGED <<addedStates, removedStates, zombie, born, done, copied>>

-----------------------------------------------------------------------------
Switch(p) ==
  \/ SwitchState(p) \/ \E c \in Proc : Balance(p, c)
  \/ SelectNothing(p)
  \/ \E s \in State : SelectInfeasible(p, s) \/ Select(p, s)

Run(p) ==
  \/ \E s \in State : \/ \E speculates \in BOOLEAN : Fork(p, s, speculates)
                      \/ Terminate(p, s)
  \/ EndInstruction(p) \/ Yield(p)

Next == \E p \in Proc : Run(p) \/ Switch(p)

Spec == Init /\ [][Next]_vars

\* The timer keeps firing, selectNextState returns and so does an instruction.
Fairness == \A p \in Proc : WF_vars(EndInstruction(p)) /\ WF_vars(Switch(p))

FairSpec == Spec /\ Fairness

-----------------------------------------------------------------------------
(* Properties *)

Yielded(p) == {yieldedState[p]} \ {None}

\* The states p has not done with; one that runs is still to explore them.
Owned(p) == ((states[p] \cup addedStates[p]) \ removedStates[p]) \cup Yielded(p)
Explored(p) == IF pc[p] = "shutdown" THEN {} ELSE Owned(p)

\* What p had yielded when it shut down; nobody puts that back any more.
Abandoned(p) == IF pc[p] = "shutdown" THEN Yielded(p) ELSE {}

TypeOK ==
  /\ pc \in [Proc -> {"off", "run", "instr", "exit", "select", "shutdown"}]
  /\ states \in [Proc -> SUBSET State] /\ searcher \in [Proc -> SUBSET State]
  /\ addedStates \in [Proc -> SUBSET State] /\ removedStates \in [Proc -> SUBSET State]
  /\ deletedStates \in [Proc -> SUBSET State] /\ freed \in [Proc -> SUBSET State]
  /\ speculative \in [Proc -> SUBSET State] /\ zombie \in [Proc -> SUBSET State]
  /\ yieldedState \in [Proc -> State \cup {None}]
  /\ current \in [Proc -> State \cup {None}]
  /\ born \in SUBSET State /\ done \in SUBSET State /\ copied \in SUBSET State

\* Every state that was ever forked and that nobody terminated is still to be
\* explored by a process that has not shut down, whatever is yielded, handed over
\* or terminated in the meantime.  There is one way to lose a state: its process finds
\* no other once it has yielded, and shuts down with "All states were terminated"
\* (S2EExecutor.cpp:1599).  These are Abandoned.
NoStateLost == born \ done \subseteq UNION {Explored(p) \cup Abandoned(p) : p \in Proc}

\* Load balancing leaves each state to one of the two processes (S2EExecutor.cpp:
\* 1406-1415), and so do all the steps the processes then take, but for a state
\* that was yielded at that moment: both processes explore it (copied), against "We must
\* have unique state ids across all processes" (S2E.h:76).
ExploredOnce == \A p, q \in Proc : p # q => Explored(p) \cap Explored(q) \subseteq copied

\* But for these two exceptions every live state is left to exactly one process.
EachExploredOnce == NoStateLost /\ ExploredOnce

\* No state is used after it was freed, nor freed twice: what is freed is in no set
\* of the executor or its searcher and is neither yielded nor current.
NoDanglingState ==
  \A p \in Proc : freed[p] \cap (states[p] \cup searcher[p] \cup addedStates[p]
    \cup removedStates[p] \cup deletedStates[p] \cup {yieldedState[p], current[p]}) = {}

\* A state on its way out is not chosen again: what is in m_deletedStates is in none
\* of the executor's sets (S2EExecutor.cpp:1662), what is in removedStates is in
\* states, which updateStates asserts.
RemovedOnce ==
  \A p \in Proc :
    /\ deletedStates[p] \cap (states[p] \cup addedStates[p] \cup removedStates[p]) = {}
    /\ removedStates[p] \subseteq states[p]

\* The searcher chooses among the states of the executor (S2EExecutor.cpp:1640); a
\* process runs a state that is not speculative (line 1757), and only after the
\* yielded state was put back (line 2398).
RunsKnownState ==
  \A p \in Proc :
    /\ searcher[p] = states[p]
    /\ pc[p] \in {"run", "instr"} =>
         /\ current[p] \in states[p] \ (removedStates[p] \cup speculative[p])
         /\ yieldedState[p] = None

\* A process shuts down when it has no state left to explore but the yielded one.
ShutdownWithoutStates == \A p \in Proc : pc[p] = "shutdown" => Owned(p) = Yielded(p)

\* What the executor relies on whenever it touches a state.
StatesUsedRightly ==
  NoDanglingState /\ RemovedOnce /\ RunsKnownState /\ ShutdownWithoutStates

\* "Once a new state is scheduled, this yielded state will again be schedulable"
\* (S2EExecutor.cpp:2377), and some other state is scheduled after a yield.
YieldedReturns ==
  \A p \in Proc, s \in State :
    yieldedState[p] = s ~> (s \in searcher[p] \/ pc[p] = "shutdown")

\* Yielding gives way: the state that yields is not the next to run.
YieldGivesWay ==
  [][\A p \in Proc : yieldedState[p] # None /\ pc'[p] = "run"
                       => current'[p] # yieldedState[p]]_vars
=============================================================================
