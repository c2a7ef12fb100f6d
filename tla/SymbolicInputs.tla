--------------------------- MODULE SymbolicInputs ---------------------------
(* Symbolic values: how scripts (src/src/s2e/ConfigFile.cpp) and instrumented *)
(* code make memory and registers symbolic, what the path constraints and the *)
(* concolic values of a state are, and the ways in which a value becomes      *)
(* concrete again (src/src/s2e/S2EExecutionState.cpp, S2EExecutor.cpp).       *)
(*                                                                            *)
(* What a location holds is a variable plus a constant, modulo 2^w; variable  *)
(* 0 is always 0.  A path constraint is the set of values a variable may      *)
(* have.  The states run symbolically: a script that makes a register         *)
(* symbolic in concrete mode fails an assert, and one that asks for 8 bytes   *)
(* overruns a word of the stack.  External: klee's forks and solver, and the  *)
(* guest.                                                                     *)
EXTENDS Naturals, FiniteSets

CONSTANTS
  State, First,     \* states, and the first one
  Memory, Register, Flag, \* what scripts name
  ObjectStart,      \* memory location |-> that at the start of its klee object
  Size, ByteSize,   \* the values are 0 .. Size - 1, a byte's 0 .. ByteSize - 1
  Ranges,           \* the ranges scripts ask for
  Conditions,       \* the sets of values that guest code tests for
  Data,             \* the values scripts write, and memory starts with
  MaxVars,          \* bound: the variables created
  MaxSteps,         \* bound: the other operations
  NoRange

ASSUME SymbolicInputsAssumption ==
  /\ First \in State
  /\ Memory \cap (Register \cup Flag) = {} /\ Register \cap Flag = {}
  /\ ObjectStart \in [Memory -> Memory] /\ NoRange \notin Ranges
  /\ Size \in Nat \ {0} /\ ByteSize \in 1 .. Size /\ Size % ByteSize = 0
  /\ {MaxVars, MaxSteps} \subseteq Nat /\ Data \subseteq 0 .. Size - 1
  /\ \A S \in Ranges \cup Conditions : S # {} /\ S \subseteq 0 .. Size - 1

VARIABLES
  concolicMode,     \* ConcolicMode
  live, current,    \* the states, and the one that runs
  speculative,      \* those for which isSpeculative()
  forkDisabled,     \* those with forkDisabled
  contents,         \* state |-> location |-> [var, plus]
  concolics,        \* state |-> variable |-> value
  allowed,          \* state |-> variable |-> set of values: constraints
  lastId,           \* s_lastSymbolicId: the variables are 1 .. lastId
  native,           \* what the locations of the first path hold if it runs natively
  lost,             \* how values of the first path got lost when made symbolic
  misranged,        \* the states whose script asked for a range their value is not in
  steps             \* the operations so far, up to MaxSteps

states == <<live, current, speculative, forkDisabled>>
path == <<contents, concolics, allowed, lastId>>
ghost == <<native, lost, misranged, steps>>
inputVars == <<concolicMode, states, path, ghost>>

Values == 0 .. Size - 1
Location == Memory \cup Register \cup Flag
Var == 0 .. MaxVars
Constant(n) == [var |-> 0, plus |-> n]
Unconstrained == [v \in Var |-> IF v = 0 THEN {0} ELSE Values]

InputsInit ==
  /\ concolicMode \in BOOLEAN
  /\ live = {First} /\ current = First /\ speculative = {} /\ forkDisabled = {}
  /\ native \in [Location -> Data \cup {0}] /\ \A l \in Flag : native[l] = 0
  /\ contents = [s \in State |-> [l \in Location |-> Constant(IF s = First THEN native[l] ELSE 0)]]
  /\ concolics = [s \in State |-> [v \in Var |-> 0]]
  /\ allowed = [s \in State |-> Unconstrained]
  /\ lastId = 0 /\ lost = {} /\ misranged = {} /\ steps = 0

-----------------------------------------------------------------------------
(* klee: the value of an expression, its values on a path, an added           *)
(* constraint, and what toConstant() and toConstantSilent() may return.       *)
ValueOf(e, x) == (x + e.plus) % Size
Evaluate(s, e) == ValueOf(e, concolics[s][e.var])
Possible(s, e) == {ValueOf(e, x) : x \in allowed[s][e.var]}
Restricted(s, e, S) ==
  [allowed[s] EXCEPT ![e.var] = {x \in @ : ValueOf(e, x) \in S}]
Feasible(s) == \A v \in Var : allowed[s][v] # {}
ToConstant(s, e) == IF concolicMode THEN {Evaluate(s, e)} ELSE Possible(s, e)

(* addConstraint(): nothing is checked (DebugConstraints is off).             *)
AddConstraint(s, e, S) == allowed' = [allowed EXCEPT ![s] = Restricted(s, e, S)]

(* What is written natively; only the first path is compared.                 *)
Natively(l, n) ==
  native' = IF current = First THEN [native EXCEPT ![l] = n] ELSE native

Bounded == steps < MaxSteps /\ steps' = steps + 1

-----------------------------------------------------------------------------
(* createConcolicValue() and createConcolicArray(): a new variable, whose     *)
(* concolic value is what the caller's buffer says.                           *)
CreateConcolicValue(s, l, n) ==
  /\ lastId < MaxVars
  /\ lastId' = lastId + 1
  /\ contents' = [contents EXCEPT ![s][l] = [var |-> lastId + 1, plus |-> 0]]
  /\ concolics' = IF concolicMode THEN [concolics EXCEPT ![s][lastId + 1] = n] ELSE concolics

(* The buffer scripts fill from what was there: value & (0xFF << i) is        *)
(* truncated to a byte, so that all but the lowest byte are 0.  (Of the last   *)
(* four of 8 bytes, where i is more than the shift allows, nothing is said.)   *)
BufferZero(n) == 0   \* for comparison: the buffer of createSymbolicValue()
Buffer(n) == n % ByteSize

(* readMemoryConcrete() and readCpuRegisterConcrete() fail on anything        *)
(* symbolic; writeMemoryConcrete() and writeCpuRegisterConcrete().            *)
ReadMemoryConcrete(l, n) == l \in Memory /\ contents[current][l] = Constant(n)
ReadCpuRegisterConcrete(l, n) == l \in Register \cup Flag /\ contents[current][l] = Constant(n)
WriteMemoryConcrete(l, n) == l \in Memory /\ contents' = [contents EXCEPT ![current][l] = Constant(n)]
WriteCpuRegisterConcrete(l, n) ==
  l \in Register \cup Flag /\ contents' = [contents EXCEPT ![current][l] = Constant(n)]

(* A value n that was found concrete becomes an input; a range that the       *)
(* script gives becomes a constraint of the path.                             *)
InRange(range, n) ==
  LET S == IF range = NoRange THEN Values ELSE range
  IN  /\ allowed' = [allowed EXCEPT ![current][lastId + 1] = S]
      /\ misranged' = IF Buffer(n) \in S THEN misranged ELSE misranged \cup {current}
Truncates(n) ==
  lost' = lost \cup (IF current = First /\ n >= ByteSize THEN {"truncated"} ELSE {})

WriteMemorySymb(l, range) ==
  \E n \in Values :
    /\ ReadMemoryConcrete(l, n)
    /\ CreateConcolicValue(current, l, Buffer(n)) /\ InRange(range, n) /\ Truncates(n)
    /\ UNCHANGED <<concolicMode, states, native, steps>>

WriteRegisterSymb(l, range) ==
  \E n \in Values :
    /\ l \in Register /\ ReadCpuRegisterConcrete(l, n)
    /\ CreateConcolicValue(current, l, Buffer(n)) /\ InRange(range, n) /\ Truncates(n)
    /\ UNCHANGED <<concolicMode, states, native, steps>>

(* setFlag() and setFlagSymb(): a flag is the highest bit of its word.        *)
SetFlag(l, bit) ==
  /\ l \in Flag /\ Bounded
  /\ WriteCpuRegisterConcrete(l, bit * (Size \div 2))
  /\ Natively(l, bit * (Size \div 2))
  /\ UNCHANGED <<concolicMode, states, concolics, allowed, lastId, lost, misranged>>

SetFlagSymb(l) ==
  \E n \in Values :
    /\ l \in Flag /\ ReadCpuRegisterConcrete(l, n)
    /\ CreateConcolicValue(current, l, Buffer(n)) /\ Truncates(n)
    /\ UNCHANGED <<concolicMode, states, allowed, native, misranged, steps>>

(* writeMemory() and writeRegister() of scripts.                              *)
WriteMemory(l, n) ==
  /\ WriteMemoryConcrete(l, n) /\ Natively(l, n) /\ Bounded
  /\ UNCHANGED <<concolicMode, states, concolics, allowed, lastId, lost, misranged>>

WriteRegister(l, n) ==
  /\ l \in Register /\ WriteCpuRegisterConcrete(l, n) /\ Natively(l, n) /\ Bounded
  /\ UNCHANGED <<concolicMode, states, concolics, allowed, lastId, lost, misranged>>

(* readMemoryConcretized() and readRegister(): an example of what is there,   *)
(* which the path is not held to.                                             *)
ReadMemoryConcretized(s, l) == ToConstant(s, contents[s][l])
ReadRegister(s, l) == ToConstant(s, contents[s][l])

(* makeSymbolic(): an input, whose concolic value is 0 whatever was there.    *)
(* kleeWriteMemory() writes it to the start of the object that the address is *)
(* in.                                                                        *)
Zeroes(l) ==
  lost' = lost \cup (IF current = First /\ native[l] # 0 THEN {"zeroed"} ELSE {})

MakeSymbolic(l) ==
  /\ l \in Memory
  /\ CreateConcolicValue(current, ObjectStart[l], 0) /\ Zeroes(ObjectStart[l])
  /\ UNCHANGED <<concolicMode, states, allowed, native, misranged, steps>>

-----------------------------------------------------------------------------
(* kleeReadMemory(), for handleGetValue(): the path is held to the value of   *)
(* what is at the start of the object, but the location stays symbolic.       *)
HandleGetValue(l) ==
  /\ l \in Memory
  /\ LET e == contents[current][ObjectStart[l]]
     IN  e.var # 0 /\ \E n \in ToConstant(current, e) : AddConstraint(current, e, {n})
  /\ Bounded
  /\ UNCHANGED <<concolicMode, states, contents, concolics, lastId, native, lost, misranged>>

(* Concrete code reads a symbolic location: readRamConcrete() and             *)
(* readRegisterConcrete() hold the path to a value and store it.              *)
Concretize(l) ==
  /\ contents[current][l].var # 0
  /\ \E n \in ToConstant(current, contents[current][l]) :
       /\ AddConstraint(current, contents[current][l], {n})
       /\ contents' = [contents EXCEPT ![current][l] = Constant(n)]
  /\ Bounded /\ UNCHANGED <<concolicMode, states, concolics, lastId, native, lost, misranged>>

ReadRamConcrete(l) == l \in Memory /\ Concretize(l)
ReadRegisterConcrete(l) == l \in Register \cup Flag /\ Concretize(l)

-----------------------------------------------------------------------------
(* Executor::concolicFork(): the state goes where its concolic values go, the *)
(* other branch, of which nobody knows yet whether it can be reached, is      *)
(* speculative.  Executor::fork(): the solver knows.                          *)
Taken(s, e, S) ==
  IF concolicMode THEN IF Evaluate(s, e) \in S THEN S ELSE Values \ S
  ELSE IF Possible(s, e) \cap S # {} THEN S ELSE Values \ S
Forks(s, e, S) ==
  s \notin forkDisabled /\ (concolicMode \/ \A b \in {S, Values \ S} : Possible(s, e) \cap b # {})

ForkOn(e, S) ==
  LET taken == Taken(current, e, S)
  IN  IF Forks(current, e, S)
      THEN \E t \in State \ live :
             /\ live' = live \cup {t}
             /\ speculative' = IF concolicMode THEN speculative \cup {t} ELSE speculative
             /\ misranged' = IF current \in misranged THEN misranged \cup {t} ELSE misranged
             /\ contents' = [contents EXCEPT ![t] = contents[current]]
             /\ concolics' = [concolics EXCEPT ![t] = concolics[current]]
             /\ allowed' = [allowed EXCEPT ![current] = Restricted(current, e, taken),
                                           ![t] = Restricted(current, e, Values \ taken)]
             /\ Bounded /\ UNCHANGED <<concolicMode, current, forkDisabled, lastId, native, lost>>
      ELSE /\ AddConstraint(current, e, taken)
           /\ Bounded
           /\ UNCHANGED <<concolicMode, states, contents, concolics, lastId, native, lost, misranged>>

BranchOn(l, S) == contents[current][l].var # 0 /\ ForkOn(contents[current][l], S)

(* handleForkAndConcretize(): an address.  The state is held to one value of  *)
(* it, and the others are left to a fork, if forking is enabled.              *)
ConcreteAddressOfSolver(s, e) == Possible(s, e)   \* for comparison: not of the path
ConcreteAddress(s, e) == ToConstant(s, e)

ForkAndConcretize(l) ==
  LET e == contents[current][l]
  IN  /\ e.var # 0
      /\ \E n \in ConcreteAddress(current, e) :
           IF current \in forkDisabled
           THEN /\ AddConstraint(current, e, {n})
                /\ Bounded
                /\ UNCHANGED <<concolicMode, states, contents, concolics, lastId, native, lost, misranged>>
           ELSE ForkOn(e, {n})

SetForking ==
  /\ forkDisabled' = (forkDisabled \ {current}) \cup ({current} \ forkDisabled)
  /\ Bounded
  /\ UNCHANGED <<concolicMode, live, current, speculative, path, native, lost, misranged>>

(* selectNonSpeculativeState(): a speculative state gets concolic values that *)
(* its constraints allow, or is terminated when there are none.               *)
ResolveSpeculativeState(t) ==
  IF t \in speculative
  THEN \E c \in [Var -> Values] :
         /\ \A v \in Var : c[v] \in allowed[t][v] /\ (v > lastId => c[v] = 0)
         /\ concolics' = [concolics EXCEPT ![t] = c]
         /\ misranged' = misranged \ {t}
  ELSE UNCHANGED <<concolics, misranged>>

SelectNextState(t) ==
  /\ t \in live \ {current}
  /\ ResolveSpeculativeState(t)
  /\ current' = t /\ speculative' = speculative \ {t}
  /\ UNCHANGED <<concolicMode, live, forkDisabled, contents, allowed, lastId, native, lost, steps>>

SelectInfeasible(t) ==
  /\ t \in speculative /\ ~Feasible(t)
  /\ live' = live \ {t} /\ speculative' = speculative \ {t}
  /\ misranged' = misranged \ {t}
  /\ contents' = [contents EXCEPT ![t] = [l \in Location |-> Constant(0)]]
  /\ concolics' = [concolics EXCEPT ![t] = [v \in Var |-> 0]]
  /\ allowed' = [allowed EXCEPT ![t] = Unconstrained]
  /\ UNCHANGED <<concolicMode, current, forkDisabled, lastId, native, lost, steps>>

(* The guest computes.                                                        *)
Increment(l) ==
  /\ l \in Memory \cup Register /\ Bounded
  /\ contents' = [contents EXCEPT ![current][l].plus = (@ + 1) % Size]
  /\ Natively(l, (native[l] + 1) % Size)
  /\ UNCHANGED <<concolicMode, states, concolics, allowed, lastId, lost, misranged>>

InputsNext ==
  \/ \E l \in Location :
       \/ \E range \in Ranges \cup {NoRange} : WriteMemorySymb(l, range) \/ WriteRegisterSymb(l, range)
       \/ \E bit \in {0, 1} : SetFlag(l, bit)
       \/ \E n \in Data : WriteMemory(l, n) \/ WriteRegister(l, n)
       \/ \E S \in Conditions : BranchOn(l, S)
       \/ SetFlagSymb(l) \/ MakeSymbolic(l) \/ HandleGetValue(l)
       \/ ReadRamConcrete(l) \/ ReadRegisterConcrete(l)
       \/ ForkAndConcretize(l) \/ Increment(l)
  \/ SetForking
  \/ \E t \in State : SelectNextState(t) \/ SelectInfeasible(t)

InputsSpec == InputsInit /\ [][InputsNext]_inputVars

-----------------------------------------------------------------------------
(* Every state that may run is on a path some input takes, and in concolic    *)
(* mode the state's own concolic values are such an input (addConstraint()    *)
(* asserts it when it debugs), through forks, concretizations, addresses and  *)
(* the resolution of speculative states; no input takes the paths of two      *)
(* states.  A script's range that excludes the value it found is excepted.    *)
PathsHaveInputs ==
  /\ \A s \in live \ (speculative \cup misranged) :
       /\ Feasible(s)
       /\ concolicMode => \A v \in 0 .. lastId : concolics[s][v] \in allowed[s][v]
  /\ \A s, t \in live : s # t => \E v \in Var : allowed[s][v] \cap allowed[t][v] = {}

(* In concolic mode making values symbolic changes nothing for the first      *)
(* path: wherever it forks, is concretized or lets others run, it holds what  *)
(* it would hold if it ran natively, and scripts read that.  That is, until a *)
(* value gets lost as it is made symbolic: one of more than a byte, of which  *)
(* the scripts' buffers keep the lowest, or one that makeSymbolic() replaces  *)
(* by 0.                                                                      *)
FirstPathNative ==
  concolicMode /\ lost = {} =>
    /\ \A l \in Memory : ReadMemoryConcretized(First, l) = {native[l]}
    /\ \A l \in Register \cup Flag : ReadRegister(First, l) = {native[l]}
=============================================================================
