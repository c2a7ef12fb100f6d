---------------------------- MODULE StateMemory ----------------------------
(***************************************************************************)
(* The memory and registers of execution states (S2EExecutionState.cpp and *)
(* the mode switches and forks of S2EExecutor.cpp).                        *)
(*                                                                         *)
(* A state's address space maps memory objects (RAM pages, the CPU         *)
(* registers, the rest of the CPU) to ObjectStates, which forked states    *)
(* share until one of them writes.  What a state holds is also found       *)
(* elsewhere: its memory cache and two pointers name its ObjectStates, the *)
(* registers are in the env of QEMU while the state runs concrete, and the *)
(* rest of the CPU is there while the state is active.                     *)
(*                                                                         *)
(* An object is one cell.  Its ObjectState has a concrete byte and maybe a *)
(* symbolic expression over it.  Restoring a state is stubbed out in       *)
(* doStateSwitch, so the first state stays the active one; plugins read    *)
(* and write the others.                                                   *)
(***************************************************************************)
EXTENDS Integers, FiniteSets

CONSTANTS
  State, First,  \* execution states; First is the initial one
  Page,          \* RAM objects
  Copies,        \* ObjectStates that an object may have at a time
  Value, Zero,   \* concrete bytes
  Symbolic,      \* a symbolic expression
  None,          \* NULL
  ObjectSize,    \* S2E_RAM_OBJECT_SIZE
  Size           \* bytes that one access may have

Object == Page \cup {"registers", "system"}

\* ObjectStates, each of a memory object.
Handle == Object \X (1 .. Copies)

ASSUME StateMemoryAssumption ==
  /\ First \in State /\ Zero \in Value
  /\ Copies \in Nat /\ Copies > Cardinality(State) /\ IsFiniteSet(State)
  /\ Symbolic \notin Value /\ None \notin Value \cup Handle \cup State \cup {Symbolic}
  /\ {"registers", "system"} \cap Page = {}
  /\ ObjectSize \in Nat \ {0} /\ Size \subseteq 1 .. 8

VARIABLES
  space,      \* addressSpace, for each state; no object is bound in a dead one
  owner,      \* the state that may write an ObjectState in place
  byte, expr, \* the concrete store of an ObjectState and what is symbolic in it
  cache,      \* m_memcache
  registers,  \* m_cpuRegistersObject
  system,     \* m_cpuSystemObject
  env,        \* the registers and the rest of the CPU in QEMU's env
  concrete,   \* m_runningConcrete of the active state
  aborted,    \* an assert failed
  created,    \* the states there have been: an object of C++ is not forked into again
  holds,      \* history: what the code of each state stored last in each object
  misplaced   \* history: states whose last store to a register went where they do
              \* not read it

machine == [space |-> space, owner |-> owner, byte |-> byte, expr |-> expr,
            cache |-> cache, registers |-> registers, system |-> system, env |-> env]

vars == <<space, owner, byte, expr, cache, registers, system, env, concrete, aborted, created,
          holds, misplaced>>

Alive == {s \in State : space[s]["registers"] # None}

\* ObjectStates that no address space refers to are freed and used again.
Unused(m) == {h \in Handle : \A s \in State : m.space[s][h[1]] # h}

Freed(m) ==
  LET free == Unused(m)
  IN  [m EXCEPT !.owner = [h \in Handle |-> IF h \in free THEN None ELSE @[h]],
                !.byte = [h \in Handle |-> IF h \in free THEN Zero ELSE @[h]],
                !.expr = [h \in Handle |-> IF h \in free THEN None ELSE @[h]]]

Becomes(m) ==
  /\ space' = m.space /\ owner' = m.owner /\ byte' = m.byte /\ expr' = m.expr
  /\ cache' = m.cache /\ registers' = m.registers /\ system' = m.system /\ env' = m.env

Content(m, h) == IF m.expr[h] # None THEN m.expr[h] ELSE m.byte[h]

\* ObjectState::write: a constant makes the byte concrete, another expression leaves
\* the byte below it as it is.
WriteObject(m, h, v) ==
  IF v \in Value THEN [m EXCEPT !.byte[h] = v, !.expr[h] = None]
  ELSE [m EXCEPT !.expr[h] = v]

-----------------------------------------------------------------------------
(* Address spaces *)

\* For comparison: the memory cache keeps the old ObjectState.
AddressSpaceChangeUncached(m, s, o, h) ==
  CASE o = "registers" -> [m EXCEPT !.registers[s] = h]
    [] o = "system"    -> [m EXCEPT !.system[s] = h]
    [] o \in Page      -> m

\* State s is told that object o is now in ObjectState h.
AddressSpaceChange(m, s, o, h) ==
  CASE o = "registers" -> [m EXCEPT !.registers[s] = h]
    [] o = "system"    -> [m EXCEPT !.system[s] = h]
    [] o \in Page      -> IF m.cache[s][o] = None THEN m ELSE [m EXCEPT !.cache[s][o] = h]

Fresh(m, o) == CHOOSE h \in Unused(m) : h[1] = o

\* AddressSpace::getWriteable of object o in state s, whose ObjectState is said to
\* be h: h itself if s owns it, else a copy that it is bound to from now on.
GetWriteable(m, s, o, h) ==
  IF m.owner[h] = s THEN [machine |-> m, object |-> h]
  ELSE LET n == Fresh(m, o)
           copied == [m EXCEPT !.space[s][o] = n, !.owner[n] = s,
                               !.byte[n] = m.byte[h], !.expr[n] = m.expr[h]]
       IN  [machine |-> AddressSpaceChange(Freed(copied), s, o, n), object |-> n]

Write(m, s, o, h, v) ==
  LET w == GetWriteable(m, s, o, h) IN WriteObject(w.machine, w.object, v)

\* The memory cache is asked first, and filled from the address space.
EmptyCache == [p \in Page |-> None]
CacheGet(m, s, p) == m.cache[s][p]
Lookup(m, s, p) ==
  IF CacheGet(m, s, p) # None THEN m ELSE [m EXCEPT !.cache[s][p] = m.space[s][p]]

-----------------------------------------------------------------------------
\* The first state owns one ObjectState for every object.
Booted ==
  [space |-> [s \in State |-> [o \in Object |-> IF s = First THEN <<o, 1>> ELSE None]],
   owner |-> [h \in Handle |-> IF h[2] = 1 THEN First ELSE None],
   byte |-> [h \in Handle |-> Zero], expr |-> [h \in Handle |-> None],
   cache |-> [s \in State |-> EmptyCache],
   registers |-> [s \in State |-> IF s = First THEN <<"registers", 1>> ELSE None],
   system |-> [s \in State |-> IF s = First THEN <<"system", 1>> ELSE None],
   env |-> [registers |-> Zero, system |-> Zero]]

BootedHolds == [s \in State |-> [o \in Object |-> IF s = First THEN Zero ELSE None]]

Init ==
  /\ space = Booted.space /\ owner = Booted.owner /\ byte = Booted.byte /\ expr = Booted.expr
  /\ cache = Booted.cache /\ registers = Booted.registers /\ system = Booted.system
  /\ env = Booted.env /\ holds = BootedHolds /\ misplaced = {}
  /\ concrete = TRUE /\ aborted = FALSE /\ created = {First}

\* Code of state s stored v in object o, or (a step of a reader) only moved caches.
Keeps(m, s, o, v) ==
  /\ ~aborted /\ s \in Alive
  /\ Becomes(m) /\ holds' = [holds EXCEPT ![s][o] = v]
  /\ UNCHANGED <<concrete, aborted, created>>

Stores(m, s, o, v) ==
  /\ Keeps(m, s, o, v)
  /\ misplaced' = IF o = "registers" THEN misplaced \ {s} ELSE misplaced

RunningConcrete(s) == s = First /\ concrete

-----------------------------------------------------------------------------
(* Registers *)

\* A symbolic register is replaced in the object, in either mode: but code that runs
\* concrete reads a register that is not symbolic any more from env.  The test that
\* sends blocks that use symbolic registers to KLEE is stubbed (S2EExecutor.cpp:2030)
\* and does not see what helpers and plugins access.
ReplaceSymbolic(s, v) ==
  /\ s \in Alive /\ expr[registers[s]] # None
  /\ Keeps(WriteObject(machine, registers[s], v), s, "registers", v)
  /\ misplaced' = IF RunningConcrete(s) THEN misplaced \cup {s} ELSE misplaced \ {s}

\* writeCpuRegister and writeRegisterConcrete: where the register is.
WriteRegister(s, v) ==
  \/ ReplaceSymbolic(s, v)
  \/ /\ s \in Alive /\ expr[registers[s]] = None
     /\ Stores(IF RunningConcrete(s) THEN [machine EXCEPT !.env.registers = v]
               ELSE WriteObject(machine, registers[s], v),
               s, "registers", v)

\* Plugins write symbolic values to registers in either mode.
WriteRegisterSymbolic(s) ==
  Stores(WriteObject(machine, registers[s], Symbolic), s, "registers", Symbolic)

\* readRegisterConcrete: a symbolic register gets one of its values.
ReadRegisterConcrete(v) == ReplaceSymbolic(First, v)

\* For comparison: what is read is not the concrete store but the object.
SwitchToConcreteContent ==
  /\ ~aborted /\ ~concrete /\ concrete' = TRUE
  /\ Becomes([machine EXCEPT !.env.registers = Content(machine, registers[First])])
  /\ UNCHANGED <<aborted, created, holds, misplaced>>

\* The whole concrete store is copied, also what lies below symbolic registers.
SwitchToConcrete ==
  /\ ~aborted /\ ~concrete /\ concrete' = TRUE
  /\ Becomes([machine EXCEPT !.env.registers = byte[registers[First]]])
  /\ UNCHANGED <<aborted, created, holds, misplaced>>

SwitchToSymbolic ==
  /\ ~aborted /\ concrete /\ concrete' = FALSE
  /\ Becomes([machine EXCEPT !.byte[registers[First]] = env.registers])
  /\ UNCHANGED <<aborted, created, holds, misplaced>>

\* writeCpuState: in env for the active state, else in its ObjectState.
WriteCpuState(s, v) ==
  Stores(IF s = First THEN [machine EXCEPT !.env.system = v]
         ELSE [machine EXCEPT !.byte[system[s]] = v],
         s, "system", v)

-----------------------------------------------------------------------------
(* Memory *)

\* readMemory, readRamConcreteCheck.
ReadMemory(s, p) == Stores(Lookup(machine, s, p), s, p, holds[s][p])

\* readRamConcrete: a symbolic byte gets one of its values.
ReadRamConcrete(p, v) ==
  LET m == Lookup(machine, First, p)
      h == CacheGet(m, First, p)
  IN  /\ m.expr[h] # None
      /\ Stores(Write(m, First, p, h, v), First, p, v)

WriteRamConcrete(p, v) ==
  LET m == Lookup(machine, First, p)
  IN  Stores(Write(m, First, p, CacheGet(m, First, p), v), First, p, v)

\* dmaRead and dmaWrite by a device.  A write makes the page writeable first, and goes
\* to the symbolic bytes through writeRamConcrete, which asks the cache again.
DmaRead(p, v) ==
  LET m == Lookup(machine, First, p)
      h == CacheGet(m, First, p)
  IN  IF m.expr[h] = None THEN ReadMemory(First, p) ELSE ReadRamConcrete(p, v)

DmaWrite(p, v) ==
  LET m == Lookup(machine, First, p)
      w == GetWriteable(m, First, p, CacheGet(m, First, p))
      n == w.machine
  IN  Stores(IF n.expr[w.object] = None THEN WriteObject(n, w.object, v)
             ELSE Write(n, First, p, CacheGet(n, First, p), v),
             First, p, v)

\* writeMemory of a value, readMemoryConcrete8 of a virtual address: both go through
\* the address space.
WriteMemory(s, p, v) == Stores(Write(machine, s, p, space[s][p], v), s, p, v)

ReadMemoryConcrete8(s, p, v) ==
  /\ s \in Alive /\ expr[space[s][p]] # None /\ v \in Value
  /\ WriteMemory(s, p, v)

\* writeMemory of a buffer that spans two objects calls itself for each part, with
\* a number of bytes for the width, which is in bits.
PartWidth(part) == part

WriteMemorySpanning(s, offset, size) ==
  /\ ~aborted /\ s \in Alive /\ offset + size > ObjectSize
  /\ PartWidth(ObjectSize - offset) % 8 # 0
  /\ Becomes(Booted) /\ holds' = BootedHolds /\ concrete' = TRUE /\ aborted' = TRUE  \* nothing is left of the process
  /\ created' = {First} /\ misplaced' = {}

\* KLEE interprets a block of the active state and stores to memory or registers.
Interpret(o, v) ==
  /\ ~concrete
  /\ Stores(Write(machine, First, o, space[First][o], v), First, o, v)

-----------------------------------------------------------------------------
(* Forks *)

\* For comparison: the rest of the CPU is not saved.
NotifyBranchUnsaved(m) == m

\* notifyBranch: the CPU is saved in the object that is known, then every shared
\* object in the one of the address space.
NotifyBranch(m) ==
  Write([m EXCEPT !.byte[m.system[First]] = m.env.system],
        First, "system", m.space[First]["system"], m.env.system)

\* clone: "all ObjectState becomes not owned by neither of states".
Copied(m, s, t) ==
  [m EXCEPT !.space[t] = m.space[s], !.registers[t] = m.registers[s], !.system[t] = m.system[s],
            !.cache[t] = EmptyCache,
            !.owner = [h \in Handle |-> IF @[h] = s THEN None ELSE @[h]]]

Bind(m, s, o, h) == GetWriteable(m, s, o, h).machine

\* For comparison: the registers stay shared.
CloneSharing(m, s, t) ==
  LET child == Bind(Copied(m, s, t), t, "system", m.system[s])
  IN  Bind(child, s, "system", child.system[s])

\* Both states get CPU objects of their own, as these are written in place.
Clone(m, s, t) ==
  LET a == Bind(Copied(m, s, t), t, "registers", m.registers[s])
      b == Bind(a, t, "system", a.system[s])
      c == Bind(b, s, "registers", b.registers[s])
  IN  Bind(c, s, "system", c.system[s])

Fork(t) ==
  /\ ~aborted /\ ~concrete /\ t \notin created /\ created' = created \cup {t}
  /\ Becomes(Clone(NotifyBranch(machine), First, t))
  /\ holds' = [holds EXCEPT ![t] = holds[First]]
  /\ misplaced' = IF First \in misplaced THEN misplaced \cup {t} ELSE misplaced
  /\ UNCHANGED <<concrete, aborted>>

\* ~S2EExecutionState, of a state that was terminated.
Delete(t) ==
  /\ ~aborted /\ t \in Alive \ {First}
  /\ Becomes(Freed([machine EXCEPT !.space[t] = [o \in Object |-> None],
                                   !.cache[t] = EmptyCache,
                                   !.registers[t] = None, !.system[t] = None]))
  /\ holds' = [holds EXCEPT ![t] = [o \in Object |-> None]] /\ misplaced' = misplaced \ {t}
  /\ UNCHANGED <<concrete, aborted, created>>

-----------------------------------------------------------------------------
Registers ==
  \/ \E s \in State, v \in Value : WriteRegister(s, v) \/ WriteCpuState(s, v)
  \/ \E s \in State : WriteRegisterSymbolic(s)
  \/ \E v \in Value : ReadRegisterConcrete(v)
  \/ SwitchToConcrete \/ SwitchToSymbolic

Memory ==
  \/ \E s \in State, p \in Page : ReadMemory(s, p)
  \/ \E s \in State, p \in Page, v \in Value \cup {Symbolic} :
       WriteMemory(s, p, v) \/ ReadMemoryConcrete8(s, p, v)
  \/ \E p \in Page, v \in Value : ReadRamConcrete(p, v) \/ WriteRamConcrete(p, v)
  \/ \E p \in Page, v \in Value : DmaRead(p, v) \/ DmaWrite(p, v)
  \/ \E s \in State, size \in Size, offset \in 0 .. ObjectSize - 1 :
       WriteMemorySpanning(s, offset, size)
  \/ \E o \in Page \cup {"registers"}, v \in Value \cup {Symbolic} : Interpret(o, v)

Next == Registers \/ Memory \/ \E t \in State : Fork(t) \/ Delete(t)

Spec == Init /\ [][Next]_vars

-----------------------------------------------------------------------------
(* Properties *)

TypeOK ==
  /\ space \in [State -> [Object -> Handle \cup {None}]]
  /\ owner \in [Handle -> State \cup {None}]
  /\ byte \in [Handle -> Value] /\ expr \in [Handle -> {Symbolic, None}]
  /\ cache \in [State -> [Page -> Handle \cup {None}]]
  /\ registers \in [State -> Handle \cup {None}] /\ system \in [State -> Handle \cup {None}]
  /\ env \in [registers : Value, system : Value]
  /\ concrete \in BOOLEAN /\ aborted \in BOOLEAN /\ Alive \subseteq created
  /\ holds \in [State -> [Object -> Value \cup {Symbolic, None}]] /\ misplaced \subseteq State

\* A state reads in memory what it stored there last, through the memory cache and
\* through the address space, whatever other states do with the objects they share.
MemoryKept ==
  \A s \in Alive, p \in Page :
    /\ Content(machine, space[s][p]) = holds[s][p]
    /\ cache[s][p] # None => Content(machine, cache[s][p]) = holds[s][p]

\* readCpuRegister.
RegisterRead(s) ==
  IF ~RunningConcrete(s) \/ expr[registers[s]] # None
    THEN Content(machine, registers[s]) ELSE env.registers

\* readCpuRegister and readCpuState return what was stored last, across changes of
\* mode and forks: registers from env while the state runs concrete, the rest of the
\* CPU from env for the active state, and both from the objects that the others took
\* along when they were forked.  The exception is a state that ran concrete when it
\* last stored to a register, a symbolic one (misplaced): it stored to the object and
\* reads what env held all the time (S2EExecutionState.cpp:395).
CpuKept ==
  \A s \in Alive :
    /\ s \notin misplaced => RegisterRead(s) = holds[s]["registers"]
    /\ holds[s]["system"] = IF s = First THEN env.system ELSE byte[system[s]]

\* Every shortcut names the ObjectState of the address space, and the two that are
\* written in place are nobody else's.
ShortcutsCoherent ==
  \A s \in Alive :
    /\ \A p \in Page : cache[s][p] \in {None, space[s][p]}
    /\ registers[s] = space[s]["registers"] /\ system[s] = space[s]["system"]
    /\ \A t \in Alive \ {s}, o \in Object :
         space[t][o] \notin {registers[s], system[s]}
=============================================================================
