------------------------- MODULE StateMerge_proofs --------------------------
(* What holds of forks and merges for any number of states, inputs,           *)
(* conditions and expressions: the paths of the states divide the inputs      *)
(* between them, and a merged state has, for every input, what the state of   *)
(* that input had.  The callers on its stack are excepted, which merge()      *)
(* compares by their number only, unless they are the same in the states that *)
(* are merged.                                                                *)
EXTENDS StateMerge, FiniteSetTheorems, TLAPS

-----------------------------------------------------------------------------
(* The inductive invariant                                                    *)

Stack == {<<>>} \cup {<<c>> : c \in Caller}

\* What a state consists of, and what the guest has computed for one input.
Machine ==
  [pc : {0, 1}, stack : Stack, symbolics : SUBSET State, bound : BOOLEAN,
   local : [Input -> Value \cup {Null}], memory : [Input -> Value],
   cpu : Value, shared : Value, dirty : BOOLEAN]

Computed ==
  [pc : {0, 1}, stack : Stack, symbolics : SUBSET State, bound : BOOLEAN,
   local : Value \cup {Null}, memory : Value,
   cpu : Value, shared : Value, dirty : BOOLEAN]

TypeInv ==
  /\ alive \subseteq created /\ created \subseteq State
  /\ current \in State \cup {None}
  /\ st \in [State -> Machine]
  /\ env \in [cpu : Value, shared : Value]
  /\ constraints \in [State -> SUBSET SUBSET Input]
  /\ concolics \in [State -> Input]
  /\ queued \subseteq alive
  /\ truth \in [Input -> Computed]

\* No input is lost, and none is on two paths.
CoverInv == \A i \in Input : \E s \in alive : i \in Path(s)
ApartInv == \A s, t \in alive : \A i \in Path(s) : i \in Path(t) => s = t
ConcolicInv == \A s \in alive : concolics[s] \in Path(s)

\* A state that has x and y in the host's memory agrees with what was computed for an
\* input, but for who called the function at the merge point.
Same(m, x, y, t, i) ==
  /\ m.memory[i] = t.memory
  /\ m.local[i] # Null /\ t.local # Null => m.local[i] = t.local
  /\ m.dirty => t.dirty
  /\ m.stack = <<>> <=> t.stack = <<>>
  /\ m.pc = t.pc /\ m.symbolics = t.symbolics /\ m.bound = t.bound
  /\ x = t.cpu /\ y = t.shared

AgreesButForCaller(m, i) == Same(m, m.cpu, m.shared, truth[i], i)

AgreeInv == \A s \in alive : \A i \in Path(s) : AgreesButForCaller(Saved(s), i)

IInv == TypeInv /\ CoverInv /\ ApartInv /\ ConcolicInv /\ AgreeInv

-----------------------------------------------------------------------------
(* The operators of the model                                                 *)

\* Two stacks of the same depth are both empty or neither is.
LEMMA SameDepth ==
  ASSUME NEW x \in Stack, NEW y \in Stack, Len(x) = Len(y)
  PROVE  x = <<>> <=> y = <<>>
  BY DEF Stack

\* The constraints of a merged state hold for the inputs of either state: the
\* disjunction in S2EExecutionState::merge loses none and adds none.
LEMMA MergedPath ==
  ASSUME NEW cs \in SUBSET SUBSET Input, NEW ds \in SUBSET SUBSET Input
  PROVE  All(MergedConstraints(cs, ds)) = All(cs) \cup All(ds)
<1> DEFINE both == All(cs \ (cs \cap ds)) \cup All(ds \ (cs \cap ds))
<1>1. All(MergedConstraints(cs, ds)) = {i \in both : \A c \in cs \cap ds : i \in c}
  BY Zenon DEF All, MergedConstraints
<1>2. \A i \in Input : i \in All(cs) <=> /\ \A c \in cs \cap ds : i \in c
                                         /\ i \in All(cs \ (cs \cap ds))
  BY DEF All
<1>3. \A i \in Input : i \in All(ds) <=> /\ \A c \in cs \cap ds : i \in c
                                         /\ i \in All(ds \ (cs \cap ds))
  BY DEF All
<1>4. both \subseteq Input /\ All(cs) \subseteq Input /\ All(ds) \subseteq Input
  BY DEF All
<1> QED BY <1>1, <1>2, <1>3, <1>4, Zenon

\* The condition merge() puts into the select expressions holds for the inputs of the
\* first state and for none of the second.
LEMMA InA ==
  ASSUME NEW cs \in SUBSET SUBSET Input, NEW ds \in SUBSET SUBSET Input
  PROVE  /\ \A i \in All(cs) : i \in All(cs \ ds)
         /\ \A i \in All(ds) : i \in All(cs \ ds) => i \in All(cs)
  BY DEF All

\* What is saved when a state is switched off has the type of a state, and differs
\* from the state only in what the host's memory holds.
Off(m, x, y) == [m EXCEPT !.cpu = x, !.shared = y]

\* A machine with another CPU and another shared-concrete object, field by field.
LEMMA OffType ==
  ASSUME NEW m \in Machine, NEW x \in Value, NEW y \in Value
  PROVE  /\ Off(m, x, y) \in Machine
         /\ Off(m, x, y).local = m.local /\ Off(m, x, y).memory = m.memory
         /\ Off(m, x, y).pc = m.pc /\ Off(m, x, y).stack = m.stack
         /\ Off(m, x, y).symbolics = m.symbolics /\ Off(m, x, y).bound = m.bound
         /\ Off(m, x, y).dirty = m.dirty
         /\ Off(m, x, y).cpu = x /\ Off(m, x, y).shared = y
<1> DEFINE n == Off(m, x, y)
<1>1. n = [m EXCEPT !.cpu = x, !.shared = y]
  BY DEF Off
<1> HIDE DEF n
<1>2. /\ n \in Machine
      /\ n.local = m.local /\ n.memory = m.memory /\ n.pc = m.pc
      /\ n.stack = m.stack /\ n.symbolics = m.symbolics
      /\ n.bound = m.bound /\ n.dirty = m.dirty
      /\ n.cpu = x /\ n.shared = y
  BY <1>1, Zenon DEF Machine
<1> QED BY <1>2 DEF n

\* What a state has is in its machine, but what the host has of the current one.
LEMMA SavedIsOff ==
  ASSUME NEW s
  PROVE  /\ Saved(s) = IF s = current THEN Off(st[s], env.cpu, env.shared) ELSE st[s]
         /\ Saved(s)' = IF s = current' THEN Off(st'[s], env'.cpu, env'.shared) ELSE st'[s]
  BY Zenon DEF Saved, Off

\* What m and t have in common may be told from their fields.
LEMMA OffIdentity ==
  ASSUME NEW m \in Machine
  PROVE  m = Off(m, m.cpu, m.shared)
  BY Zenon DEF Machine, Off

-----------------------------------------------------------------------------
(* An instruction: the rest of the states are as before                       *)

\* An instruction of the current state keeps the invariant if, on every path of that
\* state, the machine it leads to is what the program computes on that path.
LEMMA Executes ==
  ASSUME IInv, MayRun, Executed,
         st' \in [State -> Machine], env' \in [cpu : Value, shared : Value],
         truth' \in [Input -> Computed],
         \A s \in State \ {current} : st'[s] = st[s],
         \A i \in Input \ Path(current) : truth'[i] = truth[i],
         \A i \in Path(current) : AgreesButForCaller(Saved(current), i)'
  PROVE  IInv'
<1> USE DEF IInv, Executed
<1>1. TypeInv'
  BY DEF TypeInv
<1>2. \A s : Path(s)' = Path(s)
  BY DEF Path
<1>3. CoverInv'
  BY <1>2 DEF CoverInv
<1>4. ApartInv'
  BY <1>2 DEF ApartInv
<1>5. ConcolicInv'
  BY <1>2 DEF ConcolicInv
<1>6. AgreeInv'
  <2>1. SUFFICES ASSUME NEW s \in alive, NEW i \in Path(s)
                 PROVE  AgreesButForCaller(Saved(s), i)'
    BY <1>2 DEF AgreeInv
  <2>2. CASE s = current
    BY <2>2
  <2>3. CASE s # current
    <3>1. i \notin Path(current) /\ i \in Input
      BY <2>3 DEF ApartInv, MayRun, Path
    <3>2. Saved(s)' = Saved(s) /\ truth'[i] = truth[i]
      BY <2>3, <3>1 DEF Saved, TypeInv
    <3>3. AgreesButForCaller(Saved(s), i)
      BY DEF AgreeInv
    <3> QED BY <3>2, <3>3 DEF AgreesButForCaller
  <2> QED BY <2>2, <2>3
<1> QED BY <1>1, <1>3, <1>4, <1>5, <1>6

\* The current state, which has its CPU in env, agrees with what the guest computed
\* for the inputs of its path.
LEMMA CurrentAgrees ==
  ASSUME IInv, MayRun
  PROVE  /\ current \in State /\ st[current] \in Machine
         /\ env.cpu \in Value /\ env.shared \in Value
         /\ Path(current) \subseteq Input
         /\ \A i \in Input : truth[i] \in Computed
         /\ \A i \in Path(current) : Same(st[current], env.cpu, env.shared, truth[i], i)
<1>1. /\ current \in alive /\ current \in State /\ st[current] \in Machine
      /\ env.cpu \in Value /\ env.shared \in Value
      /\ \A i \in Input : truth[i] \in Computed
  BY DEF IInv, TypeInv, MayRun
<1>2. Saved(current) = Off(st[current], env.cpu, env.shared)
  BY SavedIsOff
<1>3. \A i \in Path(current) : AgreesButForCaller(Off(st[current], env.cpu, env.shared), i)
  BY <1>1, <1>2, Zenon DEF IInv, AgreeInv
<1> QED BY <1>1, <1>3, OffType DEF AgreesButForCaller, Same, Path

\* An instruction that leaves n of the current state and computes u for
\* its inputs, where n and u agree, keeps the invariant.
LEMMA Computing ==
  ASSUME IInv, MayRun, Executed,
         NEW n \in Machine, NEW x \in Value, NEW y \in Value, NEW u \in [Input -> Computed],
         st' = [st EXCEPT ![current] = n], env' = [cpu |-> x, shared |-> y],
         truth' = [i \in Input |-> IF i \in Path(current) THEN u[i] ELSE truth[i]],
         \A i \in Path(current) : Same(n, x, y, u[i], i)
  PROVE  IInv'
<1> USE CurrentAgrees
<1>1. /\ st' \in [State -> Machine] /\ st'[current] = n
      /\ \A s \in State \ {current} : st'[s] = st[s]
  BY DEF IInv, TypeInv
<1>2. /\ env' \in [cpu : Value, shared : Value] /\ env'.cpu = x /\ env'.shared = y
  OBVIOUS
<1>3. /\ truth' \in [Input -> Computed]
      /\ \A i \in Path(current) : truth'[i] = u[i]
      /\ \A i \in Input \ Path(current) : truth'[i] = truth[i]
  BY DEF IInv, TypeInv
<1>4. current' = current
  BY DEF Executed
<1>5. Saved(current)' = Off(n, x, y)
  BY <1>1, <1>2, <1>4, SavedIsOff
<1>6. ASSUME NEW i \in Path(current)
      PROVE  AgreesButForCaller(Saved(current), i)'
  <2> DEFINE o == Off(n, x, y)
             t == u[i]
  <2>1. Saved(current)' = o /\ truth'[i] = t
    BY <1>3, <1>5
  <2>2. /\ o.local = n.local /\ o.memory = n.memory /\ o.pc = n.pc
        /\ o.stack = n.stack /\ o.symbolics = n.symbolics /\ o.bound = n.bound
        /\ o.dirty = n.dirty /\ o.cpu = x /\ o.shared = y
    BY OffType
  <2>3. Same(n, x, y, t, i)
    OBVIOUS
  <2> HIDE DEF o, t
  <2>4. Same(o, o.cpu, o.shared, t, i)
    BY <2>2, <2>3, Zenon DEF Same
  <2> QED BY <2>1, <2>4, Zenon DEF AgreesButForCaller
<1> QED BY <1>1, <1>2, <1>3, <1>6, Executes

\* memory and locals: an expression over the inputs.
LEMMA AssignsMemory ==
  ASSUME IInv, MayRun, NEW e \in Expression, AssignExpression("memory", e)
  PROVE  IInv'
<1> DEFINE m == st[current]
           n == [m EXCEPT !.memory = e]
           u == [i \in Input |-> [truth[i] EXCEPT !.memory = e[i]]]
<1>1. e \in [Input -> Value] /\ \A i \in Input : e[i] \in Value
  BY StateMergeAssumption
<1>2. Executed /\ env' = [cpu |-> env.cpu, shared |-> env.shared]
  BY CurrentAgrees DEF AssignExpression, IInv, TypeInv
<1>3. /\ st' = [st EXCEPT ![current] = n]
      /\ truth' = [i \in Input |-> IF i \in Path(current) THEN u[i] ELSE truth[i]]
  BY Zenon DEF AssignExpression, Computes
<1>4. n \in Machine /\ u \in [Input -> Computed]
  BY <1>1, CurrentAgrees DEF Machine, Computed
<1>5. \A i \in Path(current) : Same(n, env.cpu, env.shared, u[i], i)
  BY <1>1, CurrentAgrees DEF Machine, Computed, Same
<1>6. env.cpu \in Value /\ env.shared \in Value
  BY CurrentAgrees
<1> HIDE DEF m, n, u
<1> QED BY <1>2, <1>3, <1>4, <1>5, <1>6, Computing, Zenon


\* The instructions, one by one: an assignment to a local of the running function.
LEMMA AssignsLocal ==
  ASSUME IInv, MayRun, NEW e \in Expression, AssignExpression("local", e)
  PROVE  IInv'
<1> DEFINE m == st[current]
           n == [m EXCEPT !.local = e]
           u == [i \in Input |-> [truth[i] EXCEPT !.local = e[i]]]
<1>1. e \in [Input -> Value] /\ \A i \in Input : e[i] \in Value
  BY StateMergeAssumption
<1>2. Executed /\ env' = [cpu |-> env.cpu, shared |-> env.shared]
  BY CurrentAgrees DEF AssignExpression, IInv, TypeInv
<1>3. /\ st' = [st EXCEPT ![current] = n]
      /\ truth' = [i \in Input |-> IF i \in Path(current) THEN u[i] ELSE truth[i]]
  BY Zenon DEF AssignExpression, Computes
<1>4. n \in Machine /\ u \in [Input -> Computed]
  BY <1>1, CurrentAgrees DEF Machine, Computed
<1>5. \A i \in Path(current) : Same(n, env.cpu, env.shared, u[i], i)
  BY <1>1, CurrentAgrees DEF Machine, Computed, Same
<1>6. env.cpu \in Value /\ env.shared \in Value
  BY CurrentAgrees
<1> HIDE DEF m, n, u
<1> QED BY <1>2, <1>3, <1>4, <1>5, <1>6, Computing, Zenon


\* A jump.
LEMMA AssignsPc ==
  ASSUME IInv, MayRun, Assign("pc", 1 - st[current].pc)
  PROVE  IInv'
<1> DEFINE m == st[current]
           n == [m EXCEPT !.pc = 1 - st[current].pc]
           u == [i \in Input |-> [truth[i] EXCEPT !.pc = Constant(1 - st[current].pc)[i]]]
<1>1. /\ 1 - st[current].pc \in {0, 1}
      /\ \A i \in Input : Constant(1 - st[current].pc)[i] = 1 - st[current].pc
  BY CurrentAgrees DEF Machine, Constant, Stack
<1>2. Executed /\ env' = [cpu |-> env.cpu, shared |-> env.shared]
  BY CurrentAgrees DEF Assign, IInv, TypeInv
<1>3. /\ st' = [st EXCEPT ![current] = n]
      /\ truth' = [i \in Input |-> IF i \in Path(current) THEN u[i] ELSE truth[i]]
  BY Zenon DEF Assign, Computes
<1>4. n \in Machine /\ u \in [Input -> Computed]
  BY <1>1, CurrentAgrees DEF Machine, Computed
<1>5. \A i \in Path(current) : Same(n, env.cpu, env.shared, u[i], i)
  BY <1>1, CurrentAgrees DEF Machine, Computed, Same
<1>6. env.cpu \in Value /\ env.shared \in Value
  BY CurrentAgrees
<1> HIDE DEF m, n, u
<1> QED BY <1>2, <1>3, <1>4, <1>5, <1>6, Computing, Zenon


\* The dirty mask changes.
LEMMA AssignsDirty ==
  ASSUME IInv, MayRun, Assign("dirty", ~st[current].dirty)
  PROVE  IInv'
<1> DEFINE m == st[current]
           n == [m EXCEPT !.dirty = ~st[current].dirty]
           u == [i \in Input |-> [truth[i] EXCEPT !.dirty = Constant(~st[current].dirty)[i]]]
<1>1. /\ (~st[current].dirty) \in BOOLEAN
      /\ \A i \in Input : Constant(~st[current].dirty)[i] = ~st[current].dirty
  BY CurrentAgrees DEF Machine, Constant, Stack
<1>2. Executed /\ env' = [cpu |-> env.cpu, shared |-> env.shared]
  BY CurrentAgrees DEF Assign, IInv, TypeInv
<1>3. /\ st' = [st EXCEPT ![current] = n]
      /\ truth' = [i \in Input |-> IF i \in Path(current) THEN u[i] ELSE truth[i]]
  BY Zenon DEF Assign, Computes
<1>4. n \in Machine /\ u \in [Input -> Computed]
  BY <1>1, CurrentAgrees, ZenonT(60) DEF Machine, Computed
<1>5. \A i \in Path(current) : Same(n, env.cpu, env.shared, u[i], i)
  BY <1>1, CurrentAgrees DEF Machine, Computed, Same
<1>6. env.cpu \in Value /\ env.shared \in Value
  BY CurrentAgrees
<1> HIDE DEF m, n, u
<1> QED BY <1>2, <1>3, <1>4, <1>5, <1>6, Computing, Zenon


\* The set of memory objects changes.
LEMMA AssignsBound ==
  ASSUME IInv, MayRun, Assign("bound", ~st[current].bound)
  PROVE  IInv'
<1> DEFINE m == st[current]
           n == [m EXCEPT !.bound = ~st[current].bound]
           u == [i \in Input |-> [truth[i] EXCEPT !.bound = Constant(~st[current].bound)[i]]]
<1>1. /\ (~st[current].bound) \in BOOLEAN
      /\ \A i \in Input : Constant(~st[current].bound)[i] = ~st[current].bound
  BY CurrentAgrees DEF Machine, Constant, Stack
<1>2. Executed /\ env' = [cpu |-> env.cpu, shared |-> env.shared]
  BY CurrentAgrees DEF Assign, IInv, TypeInv
<1>3. /\ st' = [st EXCEPT ![current] = n]
      /\ truth' = [i \in Input |-> IF i \in Path(current) THEN u[i] ELSE truth[i]]
  BY Zenon DEF Assign, Computes
<1>4. n \in Machine /\ u \in [Input -> Computed]
  BY <1>1, CurrentAgrees, ZenonT(60) DEF Machine, Computed
<1>5. \A i \in Path(current) : Same(n, env.cpu, env.shared, u[i], i)
  BY <1>1, CurrentAgrees DEF Machine, Computed, Same
<1>6. env.cpu \in Value /\ env.shared \in Value
  BY CurrentAgrees
<1> HIDE DEF m, n, u
<1> QED BY <1>2, <1>3, <1>4, <1>5, <1>6, Computing, Zenon


\* A symbolic value is made.
LEMMA AssignsSymbolics ==
  ASSUME IInv, MayRun, Assign("symbolics", st[current].symbolics \cup {current})
  PROVE  IInv'
<1> DEFINE m == st[current]
           n == [m EXCEPT !.symbolics = st[current].symbolics \cup {current}]
           u == [i \in Input |-> [truth[i] EXCEPT !.symbolics = Constant(st[current].symbolics \cup {current})[i]]]
<1>1. /\ st[current].symbolics \cup {current} \in SUBSET State
      /\ \A i \in Input : Constant(st[current].symbolics \cup {current})[i] = st[current].symbolics \cup {current}
  BY CurrentAgrees DEF Machine, Constant, Stack
<1>2. Executed /\ env' = [cpu |-> env.cpu, shared |-> env.shared]
  BY CurrentAgrees DEF Assign, IInv, TypeInv
<1>3. /\ st' = [st EXCEPT ![current] = n]
      /\ truth' = [i \in Input |-> IF i \in Path(current) THEN u[i] ELSE truth[i]]
  BY Zenon DEF Assign, Computes
<1>4. n \in Machine /\ u \in [Input -> Computed]
  BY <1>1, CurrentAgrees, Zenon DEF Machine, Computed
<1>5. \A i \in Path(current) : Same(n, env.cpu, env.shared, u[i], i)
  BY <1>1, CurrentAgrees, Zenon DEF Machine, Computed, Same
<1>6. env.cpu \in Value /\ env.shared \in Value
  BY CurrentAgrees
<1> HIDE DEF m, n, u
<1> QED BY <1>2, <1>3, <1>4, <1>5, <1>6, Computing, Zenon


\* A call pushes a frame.
LEMMA Calls ==
  ASSUME IInv, MayRun, NEW c \in Caller, Assign("stack", <<c>>)
  PROVE  IInv'
<1> DEFINE m == st[current]
           n == [m EXCEPT !.stack = <<c>>]
           u == [i \in Input |-> [truth[i] EXCEPT !.stack = Constant(<<c>>)[i]]]
<1>1. /\ <<c>> \in Stack /\ <<c>> # <<>>
      /\ \A i \in Input : Constant(<<c>>)[i] = <<c>>
  BY CurrentAgrees DEF Machine, Constant, Stack
<1>2. Executed /\ env' = [cpu |-> env.cpu, shared |-> env.shared]
  BY CurrentAgrees DEF Assign, IInv, TypeInv
<1>3. /\ st' = [st EXCEPT ![current] = n]
      /\ truth' = [i \in Input |-> IF i \in Path(current) THEN u[i] ELSE truth[i]]
  BY Zenon DEF Assign, Computes
<1>4. n \in Machine /\ u \in [Input -> Computed]
  BY <1>1, CurrentAgrees, Zenon DEF Machine, Computed
<1>5. \A i \in Path(current) : Same(n, env.cpu, env.shared, u[i], i)
  BY <1>1, CurrentAgrees, Zenon DEF Machine, Computed, Same
<1>6. env.cpu \in Value /\ env.shared \in Value
  BY CurrentAgrees
<1> HIDE DEF m, n, u
<1> QED BY <1>2, <1>3, <1>4, <1>5, <1>6, Computing, Zenon


\* A return pops one.
LEMMA Returns ==
  ASSUME IInv, MayRun, Assign("stack", <<>>)
  PROVE  IInv'
<1> DEFINE m == st[current]
           n == [m EXCEPT !.stack = <<>>]
           u == [i \in Input |-> [truth[i] EXCEPT !.stack = Constant(<<>>)[i]]]
<1>1. /\ <<>> \in Stack
      /\ \A i \in Input : Constant(<<>>)[i] = <<>>
  BY CurrentAgrees DEF Machine, Constant, Stack
<1>2. Executed /\ env' = [cpu |-> env.cpu, shared |-> env.shared]
  BY CurrentAgrees DEF Assign, IInv, TypeInv
<1>3. /\ st' = [st EXCEPT ![current] = n]
      /\ truth' = [i \in Input |-> IF i \in Path(current) THEN u[i] ELSE truth[i]]
  BY Zenon DEF Assign, Computes
<1>4. n \in Machine /\ u \in [Input -> Computed]
  BY <1>1, CurrentAgrees DEF Machine, Computed
<1>5. \A i \in Path(current) : Same(n, env.cpu, env.shared, u[i], i)
  BY <1>1, CurrentAgrees DEF Machine, Computed, Same
<1>6. env.cpu \in Value /\ env.shared \in Value
  BY CurrentAgrees
<1> HIDE DEF m, n, u
<1> QED BY <1>2, <1>3, <1>4, <1>5, <1>6, Computing, Zenon


\* The concrete rest of the CPU of the current state is in the host.
LEMMA AssignsHostCpu ==
  ASSUME IInv, MayRun, NEW v \in Value, AssignHost("cpu", v)
  PROVE  IInv'
<1> DEFINE m == st[current]
           u == [i \in Input |-> [truth[i] EXCEPT !.cpu = Constant(v)[i]]]
<1>1. \A i \in Input : Constant(v)[i] = v
  BY DEF Constant
<1>2. /\ Executed /\ st' = [st EXCEPT ![current] = m]
      /\ env' = [cpu |-> v, shared |-> env.shared]
  BY CurrentAgrees, Zenon DEF AssignHost, IInv, TypeInv
<1>3. truth' = [i \in Input |-> IF i \in Path(current) THEN u[i] ELSE truth[i]]
  BY Zenon DEF AssignHost, Computes
<1>4. m \in Machine /\ u \in [Input -> Computed]
  BY <1>1, CurrentAgrees DEF Machine, Computed
<1>5. \A i \in Path(current) : Same(m, v, env.shared, u[i], i)
  BY <1>1, CurrentAgrees DEF Machine, Computed, Same
<1>6. env.cpu \in Value /\ env.shared \in Value
  BY CurrentAgrees
<1> HIDE DEF m, u
<1> QED BY <1>2, <1>3, <1>4, <1>5, <1>6, Computing, Zenon

\* So is a shared-concrete object.
LEMMA AssignsHostShared ==
  ASSUME IInv, MayRun, NEW v \in Value, AssignHost("shared", v)
  PROVE  IInv'
<1> DEFINE m == st[current]
           u == [i \in Input |-> [truth[i] EXCEPT !.shared = Constant(v)[i]]]
<1>1. \A i \in Input : Constant(v)[i] = v
  BY DEF Constant
<1>2. /\ Executed /\ st' = [st EXCEPT ![current] = m]
      /\ env' = [cpu |-> env.cpu, shared |-> v]
  BY CurrentAgrees, Zenon DEF AssignHost, IInv, TypeInv
<1>3. truth' = [i \in Input |-> IF i \in Path(current) THEN u[i] ELSE truth[i]]
  BY Zenon DEF AssignHost, Computes
<1>4. m \in Machine /\ u \in [Input -> Computed]
  BY <1>1, CurrentAgrees DEF Machine, Computed
<1>5. \A i \in Path(current) : Same(m, env.cpu, v, u[i], i)
  BY <1>1, CurrentAgrees DEF Machine, Computed, Same
<1>6. env.cpu \in Value /\ env.shared \in Value
  BY CurrentAgrees
<1> HIDE DEF m, u
<1> QED BY <1>2, <1>3, <1>4, <1>5, <1>6, Computing, Zenon

\* Whatever the instruction, the invariant is kept.
LEMMA ExecuteInv ==
  ASSUME IInv, Execute
  PROVE  IInv'
<1>1. MayRun
  BY DEF Execute
<1>2. CASE \E e \in Expression : AssignExpression("memory", e) \/ AssignExpression("local", e)
  BY <1>1, <1>2, AssignsMemory, AssignsLocal
<1>3. CASE \E f \in {"cpu", "shared"} : \E v \in Value \ {env[f]} : AssignHost(f, v)
  BY <1>1, <1>3, AssignsHostCpu, AssignsHostShared
<1>4. CASE Assign("pc", 1 - st[current].pc)
  BY <1>1, <1>4, AssignsPc
<1>5. CASE Assign("dirty", ~st[current].dirty)
  BY <1>1, <1>5, AssignsDirty
<1>6. CASE Assign("bound", ~st[current].bound)
  BY <1>1, <1>6, AssignsBound
<1>7. CASE Assign("symbolics", st[current].symbolics \cup {current})
  BY <1>1, <1>7, AssignsSymbolics
<1>8. CASE st[current].stack = <<>> /\ \E c \in Caller : Assign("stack", <<c>>)
  BY <1>1, <1>8, Calls
<1>9. CASE st[current].stack # <<>> /\ Assign("stack", <<>>)
  BY <1>1, <1>9, Returns
<1> QED BY <1>2, <1>3, <1>4, <1>5, <1>6, <1>7, <1>8, <1>9, Zenon DEF Execute, Instruction

-----------------------------------------------------------------------------
(* The other actions                                                          *)

\* What a state has is a machine, the current one included.
LEMMA SavedType ==
  ASSUME TypeInv, NEW s \in State
  PROVE  Saved(s) \in Machine
<1>1. st[s] \in Machine /\ env.cpu \in Value /\ env.shared \in Value
  BY DEF TypeInv
<1> QED BY <1>1, OffType, SavedIsOff

\* The first state is on every path and has what every path computes.
LEMMA InitInv ==
  ASSUME Init
  PROVE  IInv
<1> USE DEF Init
<1> USE StateMergeAssumption
<1> DEFINE m == Created
           t == Booted
<1>1. /\ m \in Machine /\ t \in Computed
      /\ \A i \in Input : Same(m, 0, 0, t, i)
  BY Zenon DEF Machine, Computed, Stack, Created, Booted, Constant, Same
<1>2. \A s \in State : Path(s) = Input
  BY DEF Path
<1>3. TypeInv
  <2> HIDE DEF m, t
  <2>1. st = [s \in State |-> m] /\ truth = [i \in Input |-> t]
    BY DEF m, t
  <2> QED BY <1>1, <2>1 DEF TypeInv
<1>4. CoverInv /\ ApartInv
  BY <1>2 DEF CoverInv, ApartInv
<1>5. ConcolicInv
  BY <1>2 DEF ConcolicInv
<1>6. AgreeInv
  <2>1. Saved(First) = Off(m, 0, 0)
    BY SavedIsOff
  <2>2. \A i \in Input : truth[i] = t
    OBVIOUS
  <2> HIDE DEF m, t
  <2>3. \A i \in Input : Same(Off(m, 0, 0), Off(m, 0, 0).cpu, Off(m, 0, 0).shared, t, i)
    BY <1>1, OffType DEF Same
  <2> QED BY <1>2, <2>1, <2>2, <2>3 DEF AgreeInv, AgreesButForCaller
<1> QED BY <1>3, <1>4, <1>5, <1>6 DEF IInv

\* A state that waits for its partner is not changed.
LEMMA QueueInv ==
  ASSUME IInv, QueueStateForMerge
  PROVE  IInv'
<1> USE DEF QueueStateForMerge, IInv
<1>1. \A s : Path(s)' = Path(s) /\ Saved(s)' = Saved(s)
  BY DEF Path, Saved
<1>2. TypeInv'
  BY DEF TypeInv, MayRun
<1>3. CoverInv' /\ ApartInv' /\ ConcolicInv'
  BY <1>1 DEF CoverInv, ApartInv, ConcolicInv
<1>4. AgreeInv'
  BY <1>1 DEF AgreeInv, AgreesButForCaller
<1> QED BY <1>2, <1>3, <1>4

\* A switch saves the env of the state that leaves and loads that of the one that comes.
LEMMA SwitchInv ==
  ASSUME IInv, NEW s \in State, Switch(s)
  PROVE  IInv'
<1> USE DEF IInv
<1>1. \A t : Path(t)' = Path(t)
  BY DEF Path, Switch
<1>2. /\ s \in alive \ (queued \cup {current}) /\ current' = s
      /\ env' = [cpu |-> st[s].cpu, shared |-> st[s].shared]
      /\ st' = IF current = None THEN st ELSE [st EXCEPT ![current] = Saved(current)]
      /\ UNCHANGED <<alive, created, constraints, concolics, queued, tried, truth, ops>>
  BY DEF Switch
<1>3. /\ st' \in [State -> Machine]
      /\ \A t \in State : st'[t] = Saved(t)
  BY <1>2, SavedType, StateMergeAssumption, Zenon DEF TypeInv, Saved
<1>4. st[s] \in Machine /\ st[s].cpu \in Value /\ st[s].shared \in Value
  BY DEF TypeInv, Machine
<1>5. TypeInv'
  BY <1>2, <1>3, <1>4 DEF TypeInv
<1>6. CoverInv' /\ ApartInv' /\ ConcolicInv'
  BY <1>1, <1>2 DEF CoverInv, ApartInv, ConcolicInv
<1>7. \A t \in State : Saved(t)' = Saved(t)
  <2>1. st'[s] = st[s] /\ Saved(s) = st[s]
    BY <1>2, <1>3, Zenon DEF Saved
  <2>2. env'.cpu = st[s].cpu /\ env'.shared = st[s].shared
    BY <1>2
  <2>3. Saved(s)' = Off(st[s], st[s].cpu, st[s].shared)
    BY <1>2, <2>1, <2>2, SavedIsOff
  <2>4. Saved(s)' = Saved(s)
    BY <1>4, <2>1, <2>3, OffIdentity
  <2>5. \A t \in State \ {s} : Saved(t)' = Saved(t)
    BY <1>2, <1>3, SavedIsOff
  <2> QED BY <2>4, <2>5
<1>8. AgreeInv'
  BY <1>1, <1>2, <1>7 DEF AgreeInv, AgreesButForCaller, TypeInv
<1> QED BY <1>5, <1>6, <1>8

\* A fork divides the paths of a state, and both states have what they had.
LEMMA ForkInv ==
  ASSUME IInv, NEW t \in State, NEW c \in Condition, Fork(t, c)
  PROVE  IInv'
<1> USE DEF IInv
<1> DEFINE mine  == IF concolics[current] \in c THEN c ELSE Input \ c
           other == Input \ mine
<1>1. /\ current \in alive /\ t \notin created /\ t # current
      /\ alive \subseteq State /\ t \notin alive
      /\ alive' = alive \cup {t} /\ created' = created \cup {t}
      /\ constraints' = [constraints EXCEPT ![current] = @ \cup {mine},
                                            ![t] = constraints[current] \cup {other}]
      /\ st' = [st EXCEPT ![current] = Saved(current), ![t] = Saved(current)]
      /\ UNCHANGED <<current, env, queued, truth, ops>>
  BY DEF Fork, MayRun, TypeInv
<1>2. PICK i \in Path(current) \cap other : concolics' = [concolics EXCEPT ![t] = i]
  BY Zenon DEF Fork
<1>3. mine \in SUBSET Input /\ other \in SUBSET Input
  BY StateMergeAssumption
<1>4. concolics[current] \in mine
  BY <1>1 DEF TypeInv
<1> HIDE DEF mine
<1>5. /\ Path(current)' = Path(current) \cap mine
      /\ Path(t)' = Path(current) \cap other
      /\ \A s \in State \ {current, t} : Path(s)' = Path(s)
  BY <1>1, <1>3, ZenonT(60) DEF Path, TypeInv
<1>6. /\ st' \in [State -> Machine]
      /\ st'[current] = Saved(current) /\ st'[t] = Saved(current)
      /\ \A s \in State \ {current, t} : st'[s] = st[s]
  BY <1>1, SavedType DEF TypeInv
<1>7. TypeInv'
  BY <1>1, <1>2, <1>3, <1>6 DEF TypeInv, Path
<1>8. CoverInv'
  BY <1>1, <1>5, StateMergeAssumption DEF CoverInv
<1>9. ApartInv'
  BY <1>1, <1>5 DEF ApartInv
<1>10. ConcolicInv'
  BY <1>1, <1>2, <1>4, <1>5 DEF ConcolicInv, TypeInv
<1>11. /\ Saved(current)' = Saved(current) /\ Saved(t)' = Saved(current)
       /\ \A s \in State \ {current, t} : Saved(s)' = Saved(s)
  <2>1. Saved(t)' = Saved(current)
    BY <1>1, <1>6 DEF Saved
  <2>2. \A s \in State \ {current, t} : Saved(s)' = Saved(s)
    BY <1>1, <1>6 DEF Saved
  <2>3. st[current] \in Machine /\ env.cpu \in Value /\ env.shared \in Value
    BY <1>1 DEF TypeInv
  <2>4. Saved(current)' = Off(Saved(current), env.cpu, env.shared)
    BY <1>1, <1>6, SavedIsOff
  <2>5. Saved(current) \in Machine
    BY <1>1, SavedType
  <2>6. Saved(current).cpu = env.cpu /\ Saved(current).shared = env.shared
    BY <2>3, SavedIsOff, OffType, SMTT(30)
  <2> QED BY <2>1, <2>2, <2>4, <2>5, <2>6, OffIdentity
<1>12. AgreeInv'
  <2>1. SUFFICES ASSUME NEW s \in alive', NEW j \in Path(s)'
                 PROVE  AgreesButForCaller(Saved(s), j)'
    BY DEF AgreeInv
  <2>2. CASE s \in {current, t}
    BY <1>1, <1>5, <1>11, <2>2 DEF AgreeInv, AgreesButForCaller
  <2>3. CASE s \notin {current, t}
    BY <1>1, <1>5, <1>11, <2>3 DEF AgreeInv, AgreesButForCaller
  <2> QED BY <2>2, <2>3
<1> QED BY <1>7, <1>8, <1>9, <1>10, <1>12

-----------------------------------------------------------------------------
(* Merging                                                                    *)

\* A merged machine is a machine, with its data selected by path and the rest from m.
LEMMA MergedType ==
  ASSUME NEW m \in Machine, NEW n \in Machine, NEW inA \in SUBSET Input
  PROVE  LET r == Merged(inA, m, n)
         IN  /\ r \in Machine
             /\ r.local = SelectLocal(inA, m.local, n.local)
             /\ r.memory = Select(inA, m.memory, n.memory)
             /\ r.dirty = (m.dirty /\ n.dirty)
             /\ r.pc = m.pc /\ r.stack = m.stack /\ r.symbolics = m.symbolics
             /\ r.bound = m.bound /\ r.cpu = m.cpu /\ r.shared = m.shared
<1> DEFINE local == SelectLocal(inA, m.local, n.local)
           memory == Select(inA, m.memory, n.memory)
           dirty == m.dirty /\ n.dirty
           r == Merged(inA, m, n)
<1>1. local \in [Input -> Value \cup {Null}] /\ memory \in [Input -> Value] /\ dirty \in BOOLEAN
  BY DEF Machine, SelectLocal, Select
<1>2. r = [m EXCEPT !.local = local, !.memory = memory, !.dirty = dirty]
  BY Zenon DEF Merged
<1> HIDE DEF local, memory, dirty, r
<1>3. /\ r \in Machine
      /\ r.local = local /\ r.memory = memory /\ r.dirty = dirty
      /\ r.pc = m.pc /\ r.stack = m.stack /\ r.symbolics = m.symbolics
      /\ r.bound = m.bound /\ r.cpu = m.cpu /\ r.shared = m.shared
  BY <1>1, <1>2, Zenon DEF Machine
<1> QED BY <1>3 DEF local, memory, dirty, r

\* What was computed for an input after a merge: nothing for a local that is lost.
LEMMA ForgottenType ==
  ASSUME NEW t \in Computed, NEW u, u = [t EXCEPT !.local = Null]
  PROVE  /\ u \in Computed /\ u.local = Null /\ u.memory = t.memory /\ u.dirty = t.dirty
         /\ u.stack = t.stack /\ u.pc = t.pc /\ u.symbolics = t.symbolics
         /\ u.bound = t.bound /\ u.cpu = t.cpu /\ u.shared = t.shared
  BY DEF Computed

\* For an input of either state, the merged state agrees with what that state agreed
\* with: the select takes the side of the input.
LEMMA MergedAgrees ==
  ASSUME NEW m \in Machine, NEW n \in Machine, NEW inA \in SUBSET Input, Mergeable(m, n),
         NEW i \in Input, NEW t \in Computed, NEW u \in Computed,
         \/ i \in inA /\ Same(m, m.cpu, m.shared, t, i)
         \/ i \notin inA /\ Same(n, n.cpu, n.shared, t, i),
         u = IF Constant(Null) \in {m.local, n.local} THEN [t EXCEPT !.local = Null] ELSE t,
         NEW r, r = Merged(inA, m, n)
  PROVE  Same(r, r.cpu, r.shared, u, i)
<1>1. /\ r.local = SelectLocal(inA, m.local, n.local)
      /\ r.memory = Select(inA, m.memory, n.memory)
      /\ r.dirty = (m.dirty /\ n.dirty)
      /\ r.pc = m.pc /\ r.stack = m.stack /\ r.symbolics = m.symbolics
      /\ r.bound = m.bound /\ r.cpu = m.cpu /\ r.shared = m.shared
  BY MergedType
<1>2. /\ u.memory = t.memory /\ u.dirty = t.dirty
      /\ u.stack = t.stack /\ u.pc = t.pc /\ u.symbolics = t.symbolics
      /\ u.bound = t.bound /\ u.cpu = t.cpu /\ u.shared = t.shared
  BY ForgottenType
<1>3. /\ m.pc = n.pc /\ m.symbolics = n.symbolics /\ m.bound = n.bound
      /\ m.cpu = n.cpu /\ m.shared = n.shared
      /\ m.stack = <<>> <=> n.stack = <<>>
  BY SameDepth DEF Mergeable, Machine
<1>4. r.memory[i] = u.memory
  BY <1>1, <1>2 DEF Select, Same
<1>5. r.local[i] # Null /\ u.local # Null => r.local[i] = u.local
  <2>1. CASE Constant(Null) \in {m.local, n.local}
    BY <2>1, ForgottenType
  <2>2. CASE Constant(Null) \notin {m.local, n.local}
    <3>1. u = t /\ r.local = Select(inA, m.local, n.local)
      BY <1>1, <2>2 DEF SelectLocal
    <3> QED BY <3>1 DEF Select, Same
  <2> QED BY <2>1, <2>2
<1>6. r.dirty => u.dirty
  BY <1>1, <1>2, Zenon DEF Same
<1>7. /\ r.stack = <<>> <=> u.stack = <<>>
      /\ r.pc = u.pc /\ r.symbolics = u.symbolics /\ r.bound = u.bound
      /\ r.cpu = u.cpu /\ r.shared = u.shared
  BY <1>1, <1>2, <1>3, ZenonT(60) DEF Same
<1> QED BY <1>4, <1>5, <1>6, <1>7 DEF Same

\* Both states are switched off; the others are what they were.
LEMMA SwitchedOff ==
  ASSUME IInv, NEW a \in alive, NEW b \in alive, a # b,
         current' = IF current \in {a, b} THEN None ELSE current, env' = env,
         NEW s \in State, s \notin {a, b}, st'[s] = st[s]
  PROVE  Saved(s)' = Saved(s)
<1>1. CASE s = current
  <2>1. current' = s
    BY <1>1
  <2>2. Saved(s) = Off(st[s], env.cpu, env.shared)
    BY <1>1, SavedIsOff
  <2>3. Saved(s)' = Off(st'[s], env'.cpu, env'.shared)
    BY <2>1, SavedIsOff
  <2> QED BY <2>2, <2>3
<1>2. CASE s # current
  <2>1. s # current'
    BY <1>2, StateMergeAssumption
  <2> QED BY <1>2, <2>1, SavedIsOff
<1> QED BY <1>1, <1>2

\* A merged state is on the paths of both, with each path's data.
LEMMA MergeInv ==
  ASSUME IInv, NEW a \in State, NEW b \in State, Merge(a, b)
  PROVE  IInv'
<1> USE DEF IInv
<1> DEFINE inA == All(constraints[a] \ constraints[b])
           off == [st EXCEPT ![a] = Saved(a), ![b] = Saved(b)]
<1>1. /\ a \in queued /\ b \in queued \ {a} /\ a \in alive /\ b \in alive /\ a # b
      /\ current' = IF current \in {a, b} THEN None ELSE current
      /\ current' \in State \cup {None} /\ a # current' /\ b # current'
      /\ UNCHANGED <<created, env, concolics, tried, ops>>
  BY StateMergeAssumption DEF Merge, TypeInv
<1>2. /\ off \in [State -> Machine]
      /\ off[a] = Saved(a) /\ off[b] = Saved(b)
      /\ \A s \in State \ {a, b} : off[s] = st[s]
  BY <1>1, SavedType DEF TypeInv
<1>3. /\ \A i \in Path(a) : AgreesButForCaller(Saved(a), i)
      /\ \A i \in Path(b) : AgreesButForCaller(Saved(b), i)
  BY <1>1 DEF AgreeInv
<1>4. CASE ~Mergeable(off[a], off[b])
  <2>1. st' = off /\ queued' = queued \ {a} /\ UNCHANGED <<constraints, alive, truth>>
    BY <1>4 DEF Merge
  <2> HIDE DEF off
  <2>2. \A s : Path(s)' = Path(s)
    BY <2>1 DEF Path
  <2>3. TypeInv'
    BY <1>1, <1>2, <2>1 DEF TypeInv
  <2>4. CoverInv' /\ ApartInv' /\ ConcolicInv'
    BY <1>1, <2>1, <2>2 DEF CoverInv, ApartInv, ConcolicInv
  <2>5. \A s \in State : Saved(s)' = Saved(s)
    <3>1. ASSUME NEW s \in {a, b} PROVE Saved(s)' = Saved(s)
      BY <1>1, <1>2, <2>1, SavedIsOff
    <3>2. ASSUME NEW s \in State \ {a, b} PROVE Saved(s)' = Saved(s)
      BY <1>1, <1>2, <2>1, SwitchedOff
    <3> QED BY <3>1, <3>2
  <2>6. AgreeInv'
    BY <2>1, <2>2, <2>5 DEF AgreeInv, AgreesButForCaller, TypeInv
  <2> QED BY <2>3, <2>4, <2>6
<1>5. CASE Mergeable(off[a], off[b])
  <2> DEFINE m == off[a]
             n == off[b]
             r == Merged(inA, m, n)
             both == MergedConstraints(constraints[a], constraints[b])
  <2>1. /\ st' = [off EXCEPT ![a] = r, ![b] = Created]
        /\ constraints' = [constraints EXCEPT ![a] = both, ![b] = {}]
        /\ alive' = alive \ {b} /\ queued' = queued \ {a, b}
        /\ Forgets(a, b)
    BY <1>1, <1>2, <1>5 DEF Merge, TypeInv
  <2>2. /\ constraints[a] \in SUBSET SUBSET Input /\ constraints[b] \in SUBSET SUBSET Input
        /\ inA \in SUBSET Input /\ m \in Machine /\ n \in Machine
    BY <1>2 DEF TypeInv, All
  <2>3. both \in SUBSET SUBSET Input
    BY <2>2 DEF MergedConstraints, All
  <2>4. /\ \A i \in Path(a) : i \in inA
        /\ \A i \in Path(b) : i \notin inA
    <3>1. Path(a) = All(constraints[a]) /\ Path(b) = All(constraints[b])
      BY DEF Path, All
    <3>2. \A i \in Path(b) : i \notin Path(a)
      BY <1>1 DEF ApartInv
    <3> QED BY <2>2, <3>1, <3>2, InA
  <2>5. r \in Machine
    BY <2>2, MergedType, Zenon
  <2>6. /\ Path(a)' = Path(a) \cup Path(b)
        /\ \A s \in State \ {a, b} : Path(s)' = Path(s)
    <3>1. All(both) = All(constraints[a]) \cup All(constraints[b])
      BY <2>2, MergedPath
    <3> HIDE DEF both
    <3>2. constraints'[a] = both /\ \A s \in State \ {a, b} : constraints'[s] = constraints[s]
      BY <1>1, <2>1 DEF TypeInv
    <3> QED BY <3>1, <3>2 DEF Path, All
  <2>7. /\ m.local = st[a].local /\ n.local = st[b].local
    <3>1. env.cpu \in Value /\ env.shared \in Value /\ st[a] \in Machine /\ st[b] \in Machine
      BY DEF TypeInv
    <3>2. Saved(a).local = st[a].local /\ Saved(b).local = st[b].local
      BY <3>1, SavedIsOff, OffType, SMTT(30)
    <3> QED BY <1>2, <3>2
  <2>8. \A i \in Input \ (Path(a) \cup Path(b)) : truth'[i] = truth[i]
    BY <2>1 DEF Forgets
  <2>9. \A i \in Path(a) \cup Path(b) :
          truth'[i] = IF Constant(Null) \in {m.local, n.local}
                      THEN [truth[i] EXCEPT !.local = Null] ELSE truth[i]
    BY <2>1, <2>7 DEF Forgets, Path
  <2>10. truth' \in [Input -> Computed]
    <3>1. DOMAIN truth' = Input /\ truth' = [i \in Input |-> truth'[i]]
      BY <2>1 DEF Forgets
    <3>2. ASSUME NEW i \in Input PROVE truth'[i] \in Computed
      BY <2>8, <2>9, ForgottenType, ZenonT(60) DEF TypeInv
    <3> QED BY <3>1, <3>2
  <2> HIDE DEF off, inA, r, both
  <2>11. /\ st' \in [State -> Machine] /\ st'[a] = r
         /\ \A s \in State \ {a, b} : st'[s] = st[s]
    <3>1. Created \in Machine
      BY StateMergeAssumption, Zenon DEF Created, Booted, Constant, Machine, Stack
    <3> QED BY <1>1, <1>2, <2>1, <2>5, <3>1
  <2>12. TypeInv'
    BY <1>1, <2>1, <2>3, <2>10, <2>11 DEF TypeInv
  <2>13. CoverInv'
    BY <1>1, <2>1, <2>6 DEF CoverInv, TypeInv
  <2>14. ApartInv'
    BY <1>1, <2>1, <2>6 DEF ApartInv, TypeInv
  <2>15. ConcolicInv'
    BY <1>1, <2>1, <2>6 DEF ConcolicInv, TypeInv
  <2>16. AgreeInv'
    <3>1. SUFFICES ASSUME NEW s \in alive', NEW i \in Path(s)'
                   PROVE  AgreesButForCaller(Saved(s), i)'
      BY DEF AgreeInv
    <3>2. CASE s = a
      <4>1. Saved(a)' = r
        BY <1>1, <2>11, SavedIsOff
      <4>2. /\ i \in Input /\ truth[i] \in Computed /\ truth'[i] \in Computed
            /\ i \in Path(a) \cup Path(b)
        BY <2>6, <2>10, <3>2 DEF TypeInv, Path
      <4>3. \/ i \in inA /\ Same(m, m.cpu, m.shared, truth[i], i)
            \/ i \notin inA /\ Same(n, n.cpu, n.shared, truth[i], i)
        BY <1>2, <1>3, <2>4, <4>2 DEF AgreesButForCaller
      <4>4. /\ Mergeable(m, n) /\ r = Merged(inA, m, n)
            /\ truth'[i] = IF Constant(Null) \in {m.local, n.local}
                           THEN [truth[i] EXCEPT !.local = Null] ELSE truth[i]
        BY <1>5, <2>9, <4>2 DEF r
      <4> HIDE DEF m, n
      <4>5. Same(r, r.cpu, r.shared, truth'[i], i)
        BY <2>2, <4>2, <4>3, <4>4, MergedAgrees, Zenon
      <4> QED BY <3>2, <4>1, <4>5, Zenon DEF AgreesButForCaller
    <3>3. CASE s # a
      <4>1. /\ s \in State \ {a, b} /\ s \in alive /\ i \in Path(s) /\ i \in Input
            /\ i \notin Path(a) /\ i \notin Path(b)
        BY <1>1, <2>1, <2>6, <3>3 DEF TypeInv, ApartInv, Path
      <4>2. Saved(s)' = Saved(s) /\ truth'[i] = truth[i]
        BY <1>1, <2>8, <2>11, <4>1, SwitchedOff
      <4>3. AgreesButForCaller(Saved(s), i)
        BY <4>1 DEF AgreeInv
      <4> QED BY <4>2, <4>3, Zenon DEF AgreesButForCaller
    <3> QED BY <3>2, <3>3
  <2> QED BY <2>12, <2>13, <2>14, <2>15, <2>16
<1> QED BY <1>4, <1>5

-----------------------------------------------------------------------------
(* The theorems                                                               *)

\* Every step keeps the invariant.
LEMMA Inductive ==
  ASSUME IInv, [Next]_vars
  PROVE  IInv'
<1>1. CASE Execute
  BY <1>1, ExecuteInv
<1>2. CASE \E t \in State, c \in Condition : Fork(t, c)
  BY <1>2, ForkInv
<1>3. CASE \E s \in State : Switch(s)
  BY <1>3, SwitchInv
<1>4. CASE QueueStateForMerge
  BY <1>4, QueueInv
<1>5. CASE \E a, b \in State : Merge(a, b)
  BY <1>5, MergeInv
<1>6. CASE UNCHANGED vars
  <2>1. \A s : Path(s)' = Path(s) /\ Saved(s)' = Saved(s)
    BY <1>6 DEF vars, Path, Saved
  <2>2. TypeInv'
    BY <1>6 DEF vars, IInv, TypeInv
  <2>3. CoverInv' /\ ApartInv' /\ ConcolicInv'
    BY <1>6, <2>1 DEF vars, IInv, CoverInv, ApartInv, ConcolicInv
  <2>4. AgreeInv'
    BY <1>6, <2>1 DEF vars, IInv, AgreeInv, AgreesButForCaller
  <2> QED BY <2>2, <2>3, <2>4 DEF IInv
<1> QED BY <1>1, <1>2, <1>3, <1>4, <1>5, <1>6 DEF Next

\* The invariant holds in every reachable state.
THEOREM Invariance == Spec => []IInv
<1>1. Init => IInv
  BY InitInv
<1>2. IInv /\ [Next]_vars => IInv'
  BY Inductive
<1> QED BY <1>1, <1>2, PTL DEF Spec

\* fork() and merge() divide the inputs between the states: each is on the path of
\* exactly one, and the concolic values of a state satisfy its constraints.
THEOREM PathsDivide == Spec => []PathsPartition
<1>1. IInv => PathsPartition
  <2>1. SUFFICES ASSUME IInv, NEW i \in Input
                 PROVE  Cardinality({s \in alive : i \in Path(s)}) = 1
    BY DEF IInv, ConcolicInv, PathsPartition
  <2>2. PICK s \in alive : i \in Path(s)
    BY <2>1 DEF IInv, CoverInv
  <2>3. {t \in alive : i \in Path(t)} = {s}
    BY <2>1, <2>2 DEF IInv, ApartInv
  <2> QED BY <2>3, FS_Singleton, Zenon
<1> QED BY <1>1, Invariance, PTL

\* A merged state stands for both, for every input, in memory, in the locals of the
\* LLVM frames, in the CPU and in the depth of the stack, whoever the callers were.
THEOREM MergeKeepsData ==
  Spec => [](\A s \in alive : \A i \in Path(s) : AgreesButForCaller(Saved(s), i))
<1>1. IInv => \A s \in alive : \A i \in Path(s) : AgreesButForCaller(Saved(s), i)
  BY DEF IInv, AgreeInv
<1> QED BY <1>1, Invariance, PTL

-----------------------------------------------------------------------------
(* The callers                                                                *)

\* What the missing return of merge() would see to: states that are merged were
\* called from the same place.
SameCallers ==
  \A a, b \in State :
    Merge(a, b) /\ Mergeable(Saved(a), Saved(b)) => st[a].stack = st[b].stack

\* Then the stack of a state is that of each of its inputs.
StackInv == \A s \in alive : \A i \in Path(s) : st[s].stack = truth[i].stack

\* An instruction that calls or returns does so for every input of the path; the
\* others leave the stacks alone.
LEMMA StackOfField ==
  ASSUME IInv, StackInv, MayRun, Executed, NEW f, NEW v, NEW r,
         st' = [st EXCEPT ![current][f] = v], Computes(f, r),
         f = "stack" => \A i \in Input : r[i] = v
  PROVE  StackInv'
<1>1. \A s : Path(s)' = Path(s)
  BY DEF Executed, Path
<1>2. /\ st[current] \in Machine /\ current \in State /\ current \in alive
      /\ \A i \in Input : truth[i] \in Computed
  BY CurrentAgrees DEF MayRun
<1>3. /\ st'[current] = [st[current] EXCEPT ![f] = v]
      /\ \A s \in State \ {current} : st'[s] = st[s]
  BY <1>2 DEF IInv, TypeInv
<1>4. st'[current].stack = IF f = "stack" THEN v ELSE st[current].stack
  BY <1>2, <1>3 DEF Machine
<1>5. /\ \A i \in Path(current) : truth'[i] = [truth[i] EXCEPT ![f] = r[i]]
      /\ \A i \in Input \ Path(current) : truth'[i] = truth[i]
  BY DEF Computes, Path
<1>6. \A i \in Path(current) :
        truth'[i].stack = IF f = "stack" THEN r[i] ELSE truth[i].stack
  BY <1>2, <1>5 DEF Computed, Path
<1>7. ASSUME NEW s \in alive, NEW i \in Path(s) PROVE st'[s].stack = truth'[i].stack
  <2>1. i \in Input /\ s \in State /\ st[s].stack = truth[i].stack
    BY DEF StackInv, IInv, TypeInv, Path
  <2>2. CASE s = current
    BY <1>4, <1>6, <2>1, <2>2
  <2>3. CASE s # current
    <3>1. i \notin Path(current)
      BY <1>2, <2>3 DEF IInv, ApartInv
    <3> QED BY <1>3, <1>5, <2>1, <2>3, <3>1
  <2> QED BY <2>2, <2>3
<1> QED BY <1>1, <1>7 DEF StackInv, Executed

\* A register or a shared-concrete object is not on the stack.
LEMMA StackOfHost ==
  ASSUME IInv, StackInv, MayRun, NEW f \in {"cpu", "shared"}, NEW v, AssignHost(f, v)
  PROVE  StackInv'
<1>1. \A s : Path(s)' = Path(s)
  BY DEF AssignHost, Executed, Path
<1>2. \A i \in Input : truth'[i].stack = truth[i].stack
  BY CurrentAgrees DEF AssignHost, Computes, Computed
<1> QED BY <1>1, <1>2 DEF AssignHost, Executed, StackInv, Path

\* Whatever the instruction.
LEMMA ExecuteStack ==
  ASSUME IInv, StackInv, Execute
  PROVE  StackInv'
<1>1. MayRun
  BY DEF Execute
<1>2. ASSUME NEW f \in {"memory", "local"}, NEW e \in Expression, AssignExpression(f, e)
      PROVE  StackInv'
  <2>1. /\ st' = [st EXCEPT ![current][f] = e] /\ Computes(f, e) /\ Executed
        /\ f # "stack"
    BY <1>2 DEF AssignExpression
  <2>2. f = "stack" => \A i \in Input : e[i] = e
    BY <2>1
  <2> QED BY <1>1, <2>1, <2>2, StackOfField, Zenon
<1>3. ASSUME NEW f, NEW v, Assign(f, v) PROVE StackInv'
  <2>1. /\ st' = [st EXCEPT ![current][f] = v] /\ Computes(f, Constant(v)) /\ Executed
        /\ \A i \in Input : Constant(v)[i] = v
    BY <1>3 DEF Assign, Constant
  <2> QED BY <1>1, <2>1, StackOfField, Zenon
<1>4. ASSUME NEW f \in {"cpu", "shared"}, NEW v, AssignHost(f, v) PROVE StackInv'
  BY <1>1, <1>4, StackOfHost
<1>5. Instruction
  BY DEF Execute
<1>6. CASE \E e \in Expression : AssignExpression("memory", e) \/ AssignExpression("local", e)
  BY <1>2, <1>6
<1>7. CASE \E f \in {"cpu", "shared"} : \E v \in Value \ {env[f]} : AssignHost(f, v)
  BY <1>4, <1>7
<1>8. CASE Assign("pc", 1 - st[current].pc) \/ Assign("dirty", ~st[current].dirty)
  BY <1>3, <1>8
<1>9. CASE Assign("bound", ~st[current].bound)
  BY <1>3, <1>9
<1>10. CASE Assign("symbolics", st[current].symbolics \cup {current})
  BY <1>3, <1>10
<1>11. CASE st[current].stack = <<>> /\ \E c \in Caller : Assign("stack", <<c>>)
  BY <1>3, <1>11
<1>12. CASE st[current].stack # <<>> /\ Assign("stack", <<>>)
  BY <1>3, <1>12
<1> QED BY <1>5, <1>6, <1>7, <1>8, <1>9, <1>10, <1>11, <1>12, Zenon DEF Instruction

\* What a state has on its stack is saved with it.
LEMMA SavedStack ==
  ASSUME TypeInv, NEW s \in State
  PROVE  Saved(s).stack = st[s].stack
<1>1. st[s] \in Machine /\ env.cpu \in Value /\ env.shared \in Value
  BY DEF TypeInv
<1>2. Off(st[s], env.cpu, env.shared).stack = st[s].stack
  BY <1>1, OffType
<1> QED BY <1>2, SavedIsOff

\* The other steps move stacks along with the inputs they are for.
LEMMA ForkStack ==
  ASSUME IInv, StackInv, NEW t \in State, NEW c \in Condition, Fork(t, c)
  PROVE  StackInv'
<1>1. /\ current \in alive /\ current \in State /\ t # current /\ alive \subseteq State
      /\ alive' = alive \cup {t} /\ truth' = truth
      /\ \A s \in State : st'[s] = IF s \in {current, t} THEN Saved(current) ELSE st[s]
  BY DEF Fork, MayRun, IInv, TypeInv
<1>2. /\ \A s \in {current, t} : \A i \in Path(s)' : i \in Path(current)
      /\ \A s \in State \ {current, t} : Path(s)' = Path(s)
  BY <1>1, ZenonT(60) DEF Fork, Path, IInv, TypeInv
<1>3. Saved(current).stack = st[current].stack
  BY <1>1, SavedStack DEF IInv
<1>4. ASSUME NEW s \in alive', NEW i \in Path(s)' PROVE st'[s].stack = truth[i].stack
  <2>1. CASE s \in {current, t}
    <3>1. i \in Path(current)
      BY <1>2, <2>1
    <3>2. s \in State /\ st'[s] = Saved(current)
      BY <1>1, <2>1
    <3> QED BY <1>1, <1>3, <3>1, <3>2 DEF StackInv
  <2>2. CASE s \notin {current, t}
    <3>1. s \in alive /\ i \in Path(s) /\ st'[s] = st[s]
      BY <1>1, <1>2, <2>2
    <3> QED BY <3>1 DEF StackInv
  <2> QED BY <2>1, <2>2
<1> QED BY <1>1, <1>4 DEF StackInv

\* A switch saves the stack of the state that leaves.
LEMMA SwitchStack ==
  ASSUME IInv, StackInv, NEW s \in State, Switch(s)
  PROVE  StackInv'
<1>1. \A t : Path(t)' = Path(t)
  BY DEF Path, Switch
<1>2. \A t \in State : st'[t].stack = st[t].stack
  BY SavedStack DEF Switch, IInv, TypeInv
<1> QED BY <1>1, <1>2 DEF Switch, StackInv, IInv, TypeInv

\* A merge keeps the stack of the base, which is that of the other.
LEMMA MergeStack ==
  ASSUME IInv, StackInv, SameCallers, NEW a \in State, NEW b \in State, Merge(a, b)
  PROVE  StackInv'
<1> DEFINE inA == All(constraints[a] \ constraints[b])
           off == [st EXCEPT ![a] = Saved(a), ![b] = Saved(b)]
<1>1. /\ a \in alive /\ b \in alive /\ a # b /\ alive \subseteq State
      /\ st \in [State -> Machine] /\ Saved(a) \in Machine /\ Saved(b) \in Machine
      /\ constraints \in [State -> SUBSET SUBSET Input] /\ truth \in [Input -> Computed]
  BY SavedType DEF Merge, IInv, TypeInv
<1>2. /\ off[a] = Saved(a) /\ off[b] = Saved(b)
      /\ \A s \in State \ {a, b} : off[s] = st[s]
      /\ off \in [State -> Machine]
      /\ \A s \in State : off[s].stack = st[s].stack
  BY <1>1, SavedStack DEF IInv
<1>3. CASE ~Mergeable(off[a], off[b])
  <2>1. st' = off /\ UNCHANGED <<constraints, alive, truth>>
    BY <1>3 DEF Merge
  <2> HIDE DEF off
  <2>2. \A s : Path(s)' = Path(s)
    BY <2>1 DEF Path
  <2> QED BY <1>1, <1>2, <2>1, <2>2 DEF StackInv
<1>4. CASE Mergeable(off[a], off[b])
  <2>1. st[a].stack = st[b].stack
    BY <1>2, <1>4 DEF SameCallers
  <2>2. /\ st' = [off EXCEPT ![a] = Merged(inA, off[a], off[b]), ![b] = Created]
        /\ constraints' = [constraints EXCEPT
                             ![a] = MergedConstraints(constraints[a], constraints[b]), ![b] = {}]
        /\ alive' = alive \ {b} /\ Forgets(a, b)
    BY <1>1, <1>2, <1>4 DEF Merge
  <2>3. inA \in SUBSET Input
    BY DEF All
  <2> HIDE DEF off, inA
  <2>4. st'[a].stack = st[a].stack
    <3>1. Merged(inA, off[a], off[b]).stack = off[a].stack
      BY <1>1, <1>2, <2>3, MergedType
    <3>2. st'[a] = Merged(inA, off[a], off[b])
      BY <1>1, <1>2, <2>2
    <3> QED BY <1>2, <3>1, <3>2
  <2>5. \A s \in State \ {a, b} : st'[s] = st[s]
    BY <1>2, <2>2
  <2>6. /\ Path(a)' = Path(a) \cup Path(b)
        /\ \A s \in State \ {a, b} : Path(s)' = Path(s)
    <3> DEFINE both == MergedConstraints(constraints[a], constraints[b])
    <3>1. All(both) = All(constraints[a]) \cup All(constraints[b])
      BY <1>1, MergedPath
    <3> HIDE DEF both
    <3>2. constraints'[a] = both /\ \A s \in State \ {a, b} : constraints'[s] = constraints[s]
      BY <1>1, <2>2 DEF both
    <3> QED BY <3>1, <3>2 DEF Path, All
  <2>7. \A i \in Input : truth'[i].stack = truth[i].stack
    BY <1>1, <2>2, ForgottenType DEF Forgets
  <2>8. ASSUME NEW s \in alive \ {b}, NEW i \in Path(s)' PROVE st'[s].stack = truth'[i].stack
    <3>1. i \in Input
      BY DEF Path
    <3>2. CASE s = a
      <4>1. i \in Path(a) \cup Path(b)
        BY <2>6, <3>2
      <4>2. st[a].stack = truth[i].stack
        BY <1>1, <2>1, <4>1 DEF StackInv
      <4> QED BY <2>4, <2>7, <3>1, <3>2, <4>2
    <3>3. CASE s # a
      <4>1. s \in State \ {a, b} /\ i \in Path(s)
        BY <1>1, <2>6, <3>3
      <4> QED BY <2>5, <2>7, <3>1, <4>1 DEF StackInv
    <3> QED BY <3>2, <3>3
  <2> QED BY <2>2, <2>8 DEF StackInv
<1> QED BY <1>3, <1>4

\* The stacks agree as long as states with the same callers are merged.
LEMMA StackInductive ==
  ASSUME IInv, StackInv, [Next /\ SameCallers]_vars
  PROVE  StackInv'
<1>1. CASE Execute
  BY <1>1, ExecuteStack
<1>2. CASE \E t \in State, c \in Condition : Fork(t, c)
  BY <1>2, ForkStack
<1>3. CASE \E s \in State : Switch(s)
  BY <1>3, SwitchStack
<1>4. CASE QueueStateForMerge
  BY <1>4 DEF QueueStateForMerge, StackInv, Path
<1>5. CASE SameCallers /\ \E a, b \in State : Merge(a, b)
  BY <1>5, MergeStack
<1>6. CASE UNCHANGED vars
  BY <1>6 DEF vars, StackInv, Path
<1> QED BY <1>1, <1>2, <1>3, <1>4, <1>5, <1>6 DEF Next

\* A merged state stands for both altogether, callers included, in every behaviour
\* that merges only states which were called from the same place, whatever else is
\* merged, forked and executed: the return that merge() lacks after it logs "different
\* callstacks" is all that is missing.
THEOREM MergeCorrect == Spec /\ [][SameCallers]_vars => []MergeSound
<1>1. ASSUME Init PROVE StackInv
  BY <1>1, StateMergeAssumption DEF Init, StackInv, Created, Booted, Path
<1>2. ASSUME IInv, StackInv, [Next]_vars, [SameCallers]_vars PROVE StackInv'
  BY <1>2, StackInductive
<1>3. ASSUME IInv, StackInv PROVE MergeSound
  <2>1. SUFFICES ASSUME NEW s \in alive, NEW i \in Path(s)
                 PROVE  Agrees(Saved(s), i)
    BY DEF MergeSound
  <2> DEFINE m == Saved(s)
             t == truth[i]
  <2>2. Same(m, m.cpu, m.shared, t, i)
    BY <1>3 DEF IInv, AgreeInv, AgreesButForCaller
  <2>3. m.stack = t.stack
    BY <1>3, SavedStack DEF IInv, TypeInv, StackInv
  <2> HIDE DEF m
  <2>4. \A f \in {"pc", "stack", "symbolics", "bound", "cpu", "shared"} : m[f] = t[f]
    BY <2>2, <2>3 DEF Same
  <2> QED BY <2>2, <2>4 DEF Agrees, Same, m
<1> QED BY <1>1, <1>2, <1>3, Invariance, PTL DEF Spec

=============================================================================
