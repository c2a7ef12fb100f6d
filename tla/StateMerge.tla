----------------------------- MODULE StateMerge -----------------------------
(* Merging two states: S2EExecutionState::merge, S2EExecutor::merge and       *)
(* queueStateForMerge (src/src/s2e/S2EExecutionState.cpp, S2EExecutor.cpp).   *)
(*                                                                            *)
(* A condition is the set of inputs that satisfy it, and an expression the    *)
(* function that gives its value for each input.  One cell stands for memory  *)
(* and the CPU registers, one for the locals of the LLVM frames, one for the  *)
(* concrete rest of the CPU, one for a shared-concrete object, and one for    *)
(* the dirty mask.  The MergingSearcher, which calls merge(), is KLEE's.      *)
EXTENDS Naturals, Sequences, FiniteSets

CONSTANTS State, First, None,
          Input,      \* the values of the symbolic input
          Condition,  \* the conditions the guest branches on
          Value,      \* of a cell
          Expression, \* what is assigned to cells that may be symbolic
          Null,       \* the value of a local that was not assigned
          Caller,     \* where the function at the merge point is called from
          MaxOps      \* a bound: how many instructions change a cell

ASSUME StateMergeAssumption ==
  /\ First \in State /\ None \notin State /\ Null \notin Value
  /\ 0 \in Value /\ Expression \subseteq [Input -> Value] /\ Condition \subseteq SUBSET Input /\ MaxOps \in Nat

VARIABLES
  alive, created,  \* the states there are, and those there have been
  current,         \* g_s2e_state, or None once it is merged
  st,              \* [State -> Machine], but for what the active state has in env
  env,             \* the CPU and shared memory of the host, for the active state
  constraints,     \* [State -> SUBSET SUBSET Input]
  concolics,       \* [State -> Input]
  queued,          \* the states that wait in the searcher to be merged
  tried,           \* m_lastMergeICount is the instruction count, for each state
  truth,           \* what the guest has computed for each input, for the properties
  ops

vars == <<alive, created, current, st, env, constraints, concolics, queued, tried, truth, ops>>

Constant(v) == [i \in Input |-> v]

\* The inputs for which the guest is in this state.
Path(s) == {i \in Input : \A c \in constraints[s] : i \in c}

Booted == [pc |-> 0, stack |-> <<>>, symbolics |-> {}, bound |-> FALSE, local |-> Null,
           memory |-> 0, cpu |-> 0, shared |-> 0, dirty |-> FALSE]

Created == [Booted EXCEPT !.local = Constant(Null), !.memory = Constant(0)]

Init ==
  /\ alive = {First} /\ created = {First} /\ current = First
  /\ st = [s \in State |-> Created]
  /\ env = [cpu |-> 0, shared |-> 0]
  /\ constraints = [s \in State |-> {}]
  /\ \E i \in Input : concolics = [s \in State |-> i]
  /\ queued = {} /\ tried = [s \in State |-> FALSE]
  /\ truth = [i \in Input |-> Booted]
  /\ ops = 0

\* The host's memory goes to the objects of the state when it is switched off.
Saved(s) == IF s = current THEN [st[s] EXCEPT !.cpu = env.cpu, !.shared = env.shared]
                           ELSE st[s]

-----------------------------------------------------------------------------
(* The guest: instructions of the current state, for all inputs of its path *)

MayRun == current \in alive \ queued

Computes(field, results) ==
  truth' = [i \in Input |-> IF i \in Path(current) THEN [truth[i] EXCEPT ![field] = results[i]]
                                                   ELSE truth[i]]

Executed ==
  /\ ops < MaxOps /\ ops' = ops + 1
  /\ tried' = [tried EXCEPT ![current] = FALSE]
  /\ UNCHANGED <<alive, created, current, constraints, concolics, queued>>

Assign(field, value) ==
  /\ st' = [st EXCEPT ![current][field] = value]
  /\ Computes(field, Constant(value))
  /\ Executed /\ UNCHANGED env

AssignExpression(field, e) ==
  /\ st' = [st EXCEPT ![current][field] = e]
  /\ Computes(field, e)
  /\ Executed /\ UNCHANGED env

AssignHost(field, value) ==
  /\ env' = [env EXCEPT ![field] = value]
  /\ Computes(field, Constant(value))
  /\ Executed /\ UNCHANGED st

Instruction ==
  \/ \E e \in Expression : AssignExpression("memory", e) \/ AssignExpression("local", e)
  \/ \E f \in {"cpu", "shared"} : \E v \in Value \ {env[f]} : AssignHost(f, v)
  \/ Assign("pc", 1 - st[current].pc)
  \/ Assign("dirty", ~st[current].dirty)
  \/ Assign("bound", ~st[current].bound)
  \/ Assign("symbolics", st[current].symbolics \cup {current})
  \/ st[current].stack = <<>> /\ \E c \in Caller : Assign("stack", <<c>>)
  \/ st[current].stack # <<>> /\ Assign("stack", <<>>)

Execute == MayRun /\ Instruction

\* The guest branches; the side that the concolic values take goes on, and the other
\* gets values of its own.
Fork(t, c) ==
  /\ MayRun /\ t \notin created
  /\ Path(current) \cap c # {} /\ Path(current) \ c # {}
  /\ alive' = alive \cup {t} /\ created' = created \cup {t}
  /\ LET mine  == IF concolics[current] \in c THEN c ELSE Input \ c
         other == Input \ mine
     IN  /\ constraints' = [constraints EXCEPT ![current] = @ \cup {mine},
                                               ![t] = constraints[current] \cup {other}]
         /\ \E i \in Path(current) \cap other : concolics' = [concolics EXCEPT ![t] = i]
  /\ st' = [st EXCEPT ![current] = Saved(current), ![t] = Saved(current)]
  /\ tried' = [tried EXCEPT ![t] = FALSE]
  /\ UNCHANGED <<current, env, queued, truth, ops>>

\* doStateSwitch
Switch(s) ==
  /\ s \in alive \ (queued \cup {current})
  /\ st' = IF current = None THEN st ELSE [st EXCEPT ![current] = Saved(current)]
  /\ env' = [cpu |-> st[s].cpu, shared |-> st[s].shared]
  /\ current' = s
  /\ UNCHANGED <<alive, created, constraints, concolics, queued, tried, truth, ops>>

\* queueStateForMerge: ignored right after another attempt, as the instruction is
\* executed once more then.
QueueStateForMerge ==
  /\ MayRun /\ ~tried[current]
  /\ queued' = queued \cup {current}
  /\ tried' = [tried EXCEPT ![current] = TRUE]
  /\ UNCHANGED <<alive, created, current, st, env, constraints, concolics, truth, ops>>

-----------------------------------------------------------------------------
(* S2EExecutionState::merge of the states as they are once switched off *)

\* The checks before anything is changed.  Of the call stacks only the depth is
\* compared: different functions or callers are logged, and the merge goes on.
Mergeable(a, b) ==
  /\ a.pc = b.pc /\ a.symbolics = b.symbolics
  /\ Len(a.stack) = Len(b.stack)
  /\ a.cpu = b.cpu /\ a.bound = b.bound /\ a.shared = b.shared

\* For comparison: inB where inA is meant.
SelectSwapped(inA, e, f) == [i \in Input |-> IF i \in inA THEN f[i] ELSE e[i]]

\* SelectExpr::create(inA, av, bv)
Select(inA, e, f) == [i \in Input |-> IF i \in inA THEN e[i] ELSE f[i]]

\* A local that one of the two has not assigned is left as it is.
SelectLocal(inA, e, f) ==
  IF e = Constant(Null) \/ f = Constant(Null) THEN e ELSE Select(inA, e, f)

Merged(inA, a, b) ==
  [a EXCEPT !.local = SelectLocal(inA, @, b.local),
            !.memory = Select(inA, @, b.memory),
            !.dirty = @ /\ b.dirty]

\* The inputs that satisfy all of some constraints.
All(cs) == {i \in Input : \A c \in cs : i \in c}

\* For comparison: the disjunction is left out.
MergedConstraintsCommon(cs, ds) == cs \cap ds

\* What both have in common, and what is left of one or of the other.  KLEE drops a
\* constraint that is true.
MergedConstraints(cs, ds) ==
  LET common == cs \cap ds
  IN  (common \cup {All(cs \ common) \cup All(ds \ common)}) \ {Input}

\* "We cannot reuse this local": the guest does not either, where one has none.
Forgets(a, b) ==
  LET lost == Constant(Null) \in {st[a].local, st[b].local}
  IN  truth' = [i \in Input |-> IF lost /\ i \in Path(a) \cup Path(b)
                                THEN [truth[i] EXCEPT !.local = Null] ELSE truth[i]]

\* S2EExecutor::merge, for a searcher that has picked a for base: the active state is
\* switched off first.  A merged state is terminated; one that could not be waits on.
Merge(a, b) ==
  /\ a \in queued /\ b \in queued \ {a}
  /\ LET inA == All(constraints[a] \ constraints[b])
         off == [st EXCEPT ![a] = Saved(a), ![b] = Saved(b)]
     IN  IF Mergeable(off[a], off[b])
         THEN /\ st' = [off EXCEPT ![a] = Merged(inA, @, off[b]), ![b] = Created]
              /\ constraints' = [constraints EXCEPT
                                   ![a] = MergedConstraints(@, constraints[b]), ![b] = {}]
              /\ alive' = alive \ {b} /\ queued' = queued \ {a, b}
              /\ Forgets(a, b)
         ELSE /\ st' = off /\ queued' = queued \ {a}
              /\ UNCHANGED <<constraints, alive, truth>>
  /\ current' = IF current \in {a, b} THEN None ELSE current
  /\ UNCHANGED <<created, env, concolics, tried, ops>>

Next ==
  \/ Execute
  \/ \E t \in State, c \in Condition : Fork(t, c)
  \/ \E s \in State : Switch(s)
  \/ QueueStateForMerge
  \/ \E a, b \in State : Merge(a, b)

Spec == Init /\ [][Next]_vars

-----------------------------------------------------------------------------
(* Properties *)

\* Every input is on the path of exactly one state, and the concolic values of a
\* state satisfy its constraints, however states were forked and merged ("logically
\* they must contradict each other and so inA => !inB", S2EExecutionState.cpp:1855).
PathsPartition ==
  /\ \A i \in Input : Cardinality({s \in alive : i \in Path(s)}) = 1
  /\ \A s \in alive : concolics[s] \in Path(s)

\* What m computes for input i is what the guest computed for it; a local counts
\* where both have it, and a page may be taken for clean that is not ("can only
\* affect performance but not correcntess", line 1911).
Agrees(m, i) ==
  LET t == truth[i]
  IN  /\ m.memory[i] = t.memory
      /\ m.local[i] # Null /\ t.local # Null => m.local[i] = t.local
      /\ m.dirty => t.dirty
      /\ \A f \in {"pc", "stack", "symbolics", "bound", "cpu", "shared"} : m[f] = t[f]

\* A merged state stands for both: for every input of its path it has what the state
\* of that input had, in memory, on the stack and in the CPU.
MergeSound == \A s \in alive : \A i \in Path(s) : Agrees(Saved(s), i)
=============================================================================
