------------------------- MODULE StateMemory_proofs -------------------------
(* What a state stored is what it reads, for any number of states, pages,     *)
(* bytes and forks: however its ObjectStates are shared, copied and cached,   *)
(* and wherever its CPU is at the time.                                       *)
EXTENDS StateMemory, FiniteSetTheorems, FunctionTheorems, TLAPS

-----------------------------------------------------------------------------
(* The inductive invariant                                                    *)

MachineSet ==
  [space : [State -> [Object -> Handle \cup {None}]],
   owner : [Handle -> State \cup {None}],
   byte : [Handle -> Value], expr : [Handle -> {Symbolic, None}],
   cache : [State -> [Page -> Handle \cup {None}]],
   registers : [State -> Handle \cup {None}], system : [State -> Handle \cup {None}],
   env : [registers : Value, system : Value]]

Live(m, s) == m.space[s]["registers"] # None

\* State s may write its object o in place.
Owns(m, s, o) == m.space[s][o] # None /\ m.owner[m.space[s][o]] = s

\* Every object of a live state is in an ObjectState of that object.
Bound(m) ==
  \A s \in State, o \in Object :
    IF Live(m, s) THEN m.space[s][o] \in Handle /\ m.space[s][o][1] = o
    ELSE m.space[s][o] = None

\* An ObjectState with an owner is in the owner's address space only.
OwnedAlone(m) ==
  \A h \in Handle, s \in State :
    m.owner[h] = s => /\ m.space[s][h[1]] = h
                      /\ \A t \in State : m.space[t][h[1]] = h => t = s

\* The shortcuts name what the address space has.
Shortcuts(m) ==
  /\ \A s \in State : /\ m.registers[s] = m.space[s]["registers"]
                      /\ m.system[s] = m.space[s]["system"]
  /\ \A s \in State, p \in Page : m.cache[s][p] \in {None, m.space[s][p]}

Good(m) == m \in MachineSet /\ Bound(m) /\ OwnedAlone(m) /\ Shortcuts(m)

\* A state owns its CPU objects, which are written in place.
OwnCpu(m) ==
  \A s \in State : Live(m, s) => Owns(m, s, "registers") /\ Owns(m, s, "system")

\* What the states hold, H, is what the address spaces have and, for the active
\* state, env; c says whether that one runs concrete, and X are the states whose
\* registers need not be as they are held.
Kept(m, H, c, X) ==
  \A s \in State : Live(m, s) =>
    /\ \A p \in Page : H[s][p] = Content(m, m.space[s][p])
    /\ s \notin X => H[s]["registers"] =
         IF ~(s = First /\ c) \/ m.expr[m.space[s]["registers"]] # None
           THEN Content(m, m.space[s]["registers"]) ELSE m.env.registers
    /\ H[s]["system"] = IF s = First THEN m.env.system ELSE m.byte[m.space[s]["system"]]

HistoryInv ==
  /\ concrete \in BOOLEAN /\ aborted \in BOOLEAN
  /\ holds \in [State -> [Object -> Value \cup {Symbolic, None}]]
  /\ Live(machine, First) /\ Alive \subseteq created /\ misplaced \subseteq State

IInv ==
  /\ Good(machine) /\ OwnCpu(machine) /\ Kept(machine, holds, concrete, misplaced)
  /\ HistoryInv

-----------------------------------------------------------------------------
(* Objects, ObjectStates and machines                                         *)

\* Which objects there are.
LEMMA Objects ==
  /\ Page \subseteq Object /\ "registers" \in Object /\ "system" \in Object
  /\ "registers" \notin Page /\ "system" \notin Page
  /\ \A o \in Object : o \in Page \/ o = "registers" \/ o = "system"
  /\ None \notin Handle /\ \A h \in Handle : h[1] \in Object
BY StateMemoryAssumption DEF Object, Handle

\* ObjectState::write changes one ObjectState, to the value that is written.
LEMMA WriteObjectFields ==
  ASSUME NEW m \in MachineSet, NEW h \in Handle, NEW v \in Value \cup {Symbolic}
  PROVE  LET n == WriteObject(m, h, v) IN
         /\ n \in MachineSet
         /\ n.space = m.space /\ n.owner = m.owner /\ n.cache = m.cache
         /\ n.registers = m.registers /\ n.system = m.system /\ n.env = m.env
         /\ \A g \in Handle \ {h} : n.byte[g] = m.byte[g] /\ n.expr[g] = m.expr[g]
         /\ Content(n, h) = v /\ (v \in Value => n.expr[h] = None)
         /\ (v \notin Value => n.byte[h] = m.byte[h] /\ n.expr[h] = v)
<1> USE StateMemoryAssumption
<1>1. CASE v \in Value
  BY <1>1, Zenon DEF WriteObject, MachineSet, Content
<1>2. CASE v = Symbolic
  BY <1>2, Zenon DEF WriteObject, MachineSet, Content
<1> QED BY <1>1, <1>2

\* Nothing happens to the ObjectStates that some address space has.
LEMMA FreedFields ==
  ASSUME NEW m \in MachineSet
  PROVE  LET n == Freed(m) IN
         /\ n \in MachineSet
         /\ n.space = m.space /\ n.cache = m.cache
         /\ n.registers = m.registers /\ n.system = m.system /\ n.env = m.env
         /\ \A h \in Handle : IF h \in Unused(m) THEN n.owner[h] = None
                              ELSE /\ n.owner[h] = m.owner[h] /\ n.byte[h] = m.byte[h]
                                   /\ n.expr[h] = m.expr[h]
<1> DEFINE free == Unused(m)
<1> HIDE DEF free
<1>1. LET n == [m EXCEPT !.owner = [h \in Handle |-> IF h \in free THEN None ELSE @[h]],
                !.byte = [h \in Handle |-> IF h \in free THEN Zero ELSE @[h]],
                !.expr = [h \in Handle |-> IF h \in free THEN None ELSE @[h]]] IN
         /\ n \in MachineSet
         /\ n.space = m.space /\ n.cache = m.cache
         /\ n.registers = m.registers /\ n.system = m.system /\ n.env = m.env
         /\ \A h \in Handle : IF h \in free THEN n.owner[h] = None
                              ELSE /\ n.owner[h] = m.owner[h] /\ n.byte[h] = m.byte[h]
                                   /\ n.expr[h] = m.expr[h]
  BY StateMemoryAssumption, Zenon DEF MachineSet
<1> QED BY <1>1 DEF Freed, free

\* There are more ObjectStates of an object than states that could have one.
LEMMA FreshIsUnused ==
  ASSUME NEW m \in MachineSet, NEW o \in Object
  PROVE  /\ Fresh(m, o) \in Handle /\ Fresh(m, o)[1] = o
         /\ \A s \in State : m.space[s][o] # Fresh(m, o)
<1> USE StateMemoryAssumption
<1>1. \E h \in Unused(m) : h[1] = o
  <2>1. SUFFICES ASSUME \A i \in 1 .. Copies : <<o, i>> \notin Unused(m)
                 PROVE  FALSE
    BY DEF Unused, Handle
  <2>2. \A i \in 1 .. Copies : \E s \in State : m.space[s][o] = <<o, i>>
    BY <2>1, Zenon DEF Unused, Handle
  <2> DEFINE f == [i \in 1 .. Copies |-> CHOOSE s \in State : m.space[s][o] = <<o, i>>]
  <2>3. f \in [1 .. Copies -> State] /\ \A i \in 1 .. Copies : m.space[f[i]][o] = <<o, i>>
    BY <2>2, Zenon
  <2>4. IsFiniteSet(1 .. Copies) /\ Cardinality(1 .. Copies) = Copies
        /\ Cardinality(State) \in Nat
    BY FS_Interval, FS_CardinalityType
  <2> HIDE DEF f
  <2>5. \E i, j \in 1 .. Copies : i # j /\ f[i] = f[j]
    BY <2>3, <2>4, FS_PigeonHole
  <2> QED BY <2>3, <2>5
<1>2. Fresh(m, o) \in Unused(m) /\ Fresh(m, o)[1] = o
  BY <1>1 DEF Fresh
<1> QED BY <1>2 DEF Unused

\* The step to machine m is a step of the variables.
LEMMA BecomesMachine ==
  ASSUME NEW m \in MachineSet, Becomes(m)
  PROVE  machine' = m
BY DEF Becomes, MachineSet, machine

-----------------------------------------------------------------------------
(* Copying an ObjectState before it is written                                *)

\* Machine n has in every object of every state what m has there, except in object
\* o of state s, and no state is born, dies or loses an ObjectState it owned.
SameBut(m, n, s, o) ==
  /\ n.env = m.env
  /\ \A t \in State : Live(n, t) <=> Live(m, t)
  /\ \A t \in State, q \in Object : Live(m, t) /\ (t # s \/ q # o) =>
       /\ n.space[t][q] = m.space[t][q]
       /\ n.byte[n.space[t][q]] = m.byte[m.space[t][q]]
       /\ n.expr[n.space[t][q]] = m.expr[m.space[t][q]]
       /\ Owns(m, t, q) => Owns(n, t, q)

\* Machine n has in object o of state s what m has there, and s may write it.
SameAt(m, n, s, o) ==
  /\ n.byte[n.space[s][o]] = m.byte[m.space[s][o]]
  /\ n.expr[n.space[s][o]] = m.expr[m.space[s][o]]
  /\ Owns(n, s, o)

\* The memory caches of n are filled as those of m are.
SameCached(m, n) ==
  \A t \in State, p \in Page : n.cache[t][p] = None <=> m.cache[t][p] = None

\* State s is told of object o's ObjectState: its shortcut follows.
LEMMA AddressSpaceChangeFields ==
  ASSUME NEW m \in MachineSet, NEW s \in State, NEW o \in Object, NEW h \in Handle
  PROVE  LET n == AddressSpaceChange(m, s, o, h) IN
         /\ n \in MachineSet
         /\ n.space = m.space /\ n.owner = m.owner /\ n.byte = m.byte /\ n.expr = m.expr
         /\ n.env = m.env
         /\ n.registers = IF o = "registers" THEN [m.registers EXCEPT ![s] = h] ELSE m.registers
         /\ n.system = IF o = "system" THEN [m.system EXCEPT ![s] = h] ELSE m.system
         /\ \A t \in State, p \in Page :
              n.cache[t][p] = IF t = s /\ p = o /\ m.cache[t][p] # None THEN h ELSE m.cache[t][p]
<1> DEFINE n == AddressSpaceChange(m, s, o, h)
<1>1. CASE o = "registers"
  <2>1. n = [m EXCEPT !.registers[s] = h]
    BY <1>1, Objects DEF AddressSpaceChange
  <2> HIDE DEF n
  <2>2. /\ n \in MachineSet /\ n.space = m.space /\ n.owner = m.owner /\ n.byte = m.byte
        /\ n.expr = m.expr /\ n.env = m.env /\ n.system = m.system /\ n.cache = m.cache
        /\ n.registers = [m.registers EXCEPT ![s] = h]
    BY <2>1, Zenon DEF MachineSet
  <2> QED BY <2>2, <1>1, Objects DEF n
<1>2. CASE o = "system"
  <2>1. n = [m EXCEPT !.system[s] = h]
    BY <1>2, Objects DEF AddressSpaceChange
  <2> HIDE DEF n
  <2>2. /\ n \in MachineSet /\ n.space = m.space /\ n.owner = m.owner /\ n.byte = m.byte
        /\ n.expr = m.expr /\ n.env = m.env /\ n.registers = m.registers /\ n.cache = m.cache
        /\ n.system = [m.system EXCEPT ![s] = h]
    BY <2>1, Zenon DEF MachineSet
  <2> QED BY <2>2, <1>2, Objects DEF n
<1>3. CASE o \in Page
  <2>1. n = IF m.cache[s][o] = None THEN m ELSE [m EXCEPT !.cache[s][o] = h]
    BY <1>3, Objects DEF AddressSpaceChange
  <2> HIDE DEF n
  <2>2. CASE m.cache[s][o] = None
    BY <2>1, <2>2, <1>3, Objects DEF n
  <2>3. CASE m.cache[s][o] # None
    <3>1. n = [m EXCEPT !.cache[s][o] = h]
      BY <2>1, <2>3
    <3>2. /\ n \in MachineSet /\ n.space = m.space /\ n.owner = m.owner /\ n.byte = m.byte
          /\ n.expr = m.expr /\ n.env = m.env /\ n.registers = m.registers
          /\ n.system = m.system /\ n.cache = [m.cache EXCEPT ![s][o] = h]
      BY <3>1, <1>3, Zenon DEF MachineSet
    <3>3. \A t \in State, p \in Page :
            n.cache[t][p] = IF t = s /\ p = o THEN h ELSE m.cache[t][p]
      BY <3>2, <1>3 DEF MachineSet
    <3> QED BY <3>2, <3>3, <2>3, <1>3, Objects DEF n
  <2> QED BY <2>2, <2>3
<1> QED BY <1>1, <1>2, <1>3, Objects

\* After getWriteable the state owns the object's ObjectState, which has what was
\* there before; nobody else notices.
LEMMA Writeable ==
  ASSUME NEW m, Good(m), NEW s \in State, Live(m, s), NEW o \in Object,
         NEW h, h = m.space[s][o]
  PROVE  LET w == GetWriteable(m, s, o, h) IN
         /\ Good(w.machine) /\ w.object = w.machine.space[s][o] /\ w.object \in Handle
         /\ SameBut(m, w.machine, s, o) /\ SameAt(m, w.machine, s, o)
         /\ SameCached(m, w.machine)
<1> USE StateMemoryAssumption
<1>1. /\ m \in MachineSet /\ h \in Handle /\ h[1] = o /\ h # None
      /\ m.space \in [State -> [Object -> Handle \cup {None}]]
      /\ m.owner \in [Handle -> State \cup {None}] /\ "registers" \in Object
  BY Objects DEF Good, Bound, MachineSet
<1>2. CASE m.owner[h] = s
  <2>1. GetWriteable(m, s, o, h) = [machine |-> m, object |-> h]
    BY <1>2 DEF GetWriteable
  <2> QED BY <2>1, <1>1, <1>2 DEF SameBut, SameAt, SameCached, Owns
<1>3. CASE m.owner[h] # s
  <2> DEFINE new == Fresh(m, o)
             c == [m EXCEPT !.space[s][o] = new, !.owner[new] = s,
                            !.byte[new] = m.byte[h], !.expr[new] = m.expr[h]]
             f == Freed(c)
             w == AddressSpaceChange(f, s, o, new)
  <2>1. new \in Handle /\ new[1] = o /\ \A t \in State : m.space[t][o] # new
    BY FreshIsUnused, <1>1
  <2>2. GetWriteable(m, s, o, h) = [machine |-> w, object |-> new]
    BY <1>3, SMTT(30) DEF GetWriteable
  <2> HIDE DEF new
  <2>3. /\ c \in MachineSet
        /\ c.space = [m.space EXCEPT ![s][o] = new] /\ c.owner = [m.owner EXCEPT ![new] = s]
        /\ c.byte = [m.byte EXCEPT ![new] = m.byte[h]]
        /\ c.expr = [m.expr EXCEPT ![new] = m.expr[h]] /\ c.cache = m.cache
        /\ c.registers = m.registers /\ c.system = m.system /\ c.env = m.env
    BY <2>1, <1>1, ZenonT(60) DEF MachineSet
  <2> HIDE DEF c
  <2>4. /\ f \in MachineSet
        /\ f.space = c.space /\ f.cache = c.cache
        /\ f.registers = c.registers /\ f.system = c.system /\ f.env = c.env
        /\ \A g \in Handle : IF g \in Unused(c) THEN f.owner[g] = None
                             ELSE /\ f.owner[g] = c.owner[g] /\ f.byte[g] = c.byte[g]
                                  /\ f.expr[g] = c.expr[g]
    BY <2>3, FreedFields, Zenon
  <2> HIDE DEF f
  <2>5. /\ w \in MachineSet
        /\ w.space = f.space /\ w.owner = f.owner /\ w.byte = f.byte /\ w.expr = f.expr
        /\ w.env = f.env
        /\ w.registers = IF o = "registers" THEN [f.registers EXCEPT ![s] = new] ELSE f.registers
        /\ w.system = IF o = "system" THEN [f.system EXCEPT ![s] = new] ELSE f.system
        /\ \A t \in State, p \in Page :
             w.cache[t][p] = IF t = s /\ p = o /\ f.cache[t][p] # None THEN new ELSE f.cache[t][p]
    BY <2>4, <2>1, AddressSpaceChangeFields
  <2> HIDE DEF w
  <2>6. \A t \in State, q \in Object :
          w.space[t][q] = IF t = s /\ q = o THEN new ELSE m.space[t][q]
    BY <2>3, <2>4, <2>5, <1>1
  <2>7. \A t \in State : Live(w, t) <=> Live(m, t)
    BY <2>6, <2>1, <1>1, Objects DEF Live
  <2>8. Bound(w)
    BY <2>6, <2>7, <2>1 DEF Bound, Good
  <2>9. \A t \in State, q \in Object : Live(m, t) =>
          /\ w.space[t][q] \in Handle /\ w.space[t][q][1] = q
          /\ w.space[t][q] \notin Unused(c)
    BY <2>8, <2>7, <2>5, <2>4 DEF Bound, Unused
  <2>10. \A t \in State, q \in Object : Live(m, t) =>
           /\ w.owner[w.space[t][q]] = c.owner[w.space[t][q]]
           /\ w.byte[w.space[t][q]] = c.byte[w.space[t][q]]
           /\ w.expr[w.space[t][q]] = c.expr[w.space[t][q]]
    BY <2>9, <2>5, <2>4
  <2>11. \A t \in State, q \in Object : Live(m, t) /\ (t # s \/ q # o) =>
           w.space[t][q] = m.space[t][q] /\ m.space[t][q] # new /\ m.space[t][q] \in Handle
    BY <2>6, <2>9, <2>1
  <2>12. SameBut(m, w, s, o)
    <3>0. \A g \in Handle : g # new => /\ c.owner[g] = m.owner[g] /\ c.byte[g] = m.byte[g]
                                         /\ c.expr[g] = m.expr[g]
      BY <2>1, <2>3, <1>1 DEF MachineSet
    <3>1. \A t \in State, q \in Object : Live(m, t) /\ (t # s \/ q # o) =>
            /\ w.owner[w.space[t][q]] = m.owner[m.space[t][q]]
            /\ w.byte[w.space[t][q]] = m.byte[m.space[t][q]]
            /\ w.expr[w.space[t][q]] = m.expr[m.space[t][q]]
      BY <2>11, <2>10, <3>0
    <3>2. \A t \in State, q \in Object : Live(m, t) /\ (t # s \/ q # o) /\ Owns(m, t, q) =>
            Owns(w, t, q)
      BY <3>1, <2>11, Objects DEF Owns
    <3>3. w.env = m.env
      BY <2>3, <2>4, <2>5
    <3> QED BY <3>1, <3>2, <3>3, <2>7, <2>11 DEF SameBut
  <2>13. SameAt(m, w, s, o)
    <3>0. /\ c.owner[new] = s /\ c.byte[new] = m.byte[h] /\ c.expr[new] = m.expr[h]
      BY <2>3, <2>1 DEF MachineSet
    <3>1. /\ w.owner[new] = s /\ w.byte[new] = m.byte[h] /\ w.expr[new] = m.expr[h]
      BY <2>10, <2>6, <3>0
    <3> QED BY <3>1, <2>6, <2>1, Objects DEF SameAt, Owns
  <2>14. OwnedAlone(w)
    <3> SUFFICES ASSUME NEW g \in Handle, NEW t \in State, w.owner[g] = t
                 PROVE  /\ w.space[t][g[1]] = g
                        /\ \A u \in State : w.space[u][g[1]] = g => u = t
      BY DEF OwnedAlone
    <3>1. g \notin Unused(c) /\ c.owner[g] = t /\ g[1] \in Object
      BY <2>4, <2>5, Objects
    <3>2. CASE g = new
      BY <3>1, <3>2, <2>1, <2>3, <2>6, <1>1
    <3>3. CASE g # new
      <4>1. m.owner[g] = t
        BY <3>1, <3>3, <2>3, <1>1
      <4>2. /\ m.space[t][g[1]] = g
            /\ \A u \in State : m.space[u][g[1]] = g => u = t
        BY <4>1 DEF Good, OwnedAlone
      <4>3. ~(t = s /\ g[1] = o)
        BY <4>1, <4>2, <1>3
      <4> QED BY <4>2, <4>3, <3>1, <3>3, <2>6
    <3> QED BY <3>2, <3>3
  <2>15. Shortcuts(w)
    <3>1. \A t \in State : /\ w.registers[t] = w.space[t]["registers"]
                           /\ w.system[t] = w.space[t]["system"]
      BY <2>3, <2>4, <2>5, <2>6, Objects DEF Good, Shortcuts, MachineSet
    <3>2. \A t \in State, p \in Page : w.cache[t][p] \in {None, w.space[t][p]}
      BY <2>3, <2>4, <2>5, <2>6, Objects DEF Good, Shortcuts, MachineSet
    <3> QED BY <3>1, <3>2 DEF Shortcuts
  <2>16. SameCached(m, w)
    BY <2>3, <2>4, <2>5, <2>1, Objects DEF SameCached
  <2> QED BY <2>2, <2>5, <2>6, <2>8, <2>12, <2>13, <2>14, <2>15, <2>16, <2>1 DEF Good
<1> QED BY <1>2, <1>3

-----------------------------------------------------------------------------
(* Storing into an object                                                     *)

HoldsSet == [State -> [Object -> Value \cup {Symbolic, None}]]

\* Machine n differs from m in what object o of state s has, which is v, and which
\* s owns.
Stored(m, n, s, o, v) ==
  /\ Good(n) /\ SameBut(m, n, s, o)
  /\ Content(n, n.space[s][o]) = v /\ Owns(n, s, o)

\* Changes to the same object add up.
LEMMA SameButTransitive ==
  ASSUME NEW m, NEW n, NEW k, NEW s \in State, NEW o \in Object,
         SameBut(m, n, s, o), SameBut(n, k, s, o)
  PROVE  SameBut(m, k, s, o)
BY DEF SameBut

\* An ObjectState that its state owns may be written in place.
LEMMA StoredInPlace ==
  ASSUME NEW m, Good(m), NEW s \in State, Live(m, s), NEW o \in Object,
         Owns(m, s, o), NEW v \in Value \cup {Symbolic}
  PROVE  LET n == WriteObject(m, m.space[s][o], v) IN
         /\ Stored(m, n, s, o, v) /\ n.space = m.space
         /\ v \in Value => n.byte[n.space[s][o]] = v
<1> DEFINE h == m.space[s][o]
           n == WriteObject(m, h, v)
<1>1. m \in MachineSet /\ h \in Handle /\ h[1] = o /\ m.owner[h] = s
  BY Objects DEF Good, Bound, Owns
<1> HIDE DEF h
<1>2. /\ n \in MachineSet
      /\ n.space = m.space /\ n.owner = m.owner /\ n.cache = m.cache
      /\ n.registers = m.registers /\ n.system = m.system /\ n.env = m.env
      /\ \A g \in Handle \ {h} : n.byte[g] = m.byte[g] /\ n.expr[g] = m.expr[g]
      /\ Content(n, h) = v /\ (v \in Value => n.expr[h] = None)
  BY <1>1, WriteObjectFields
<1> HIDE DEF n
<1>3. \A t \in State, q \in Object : Live(m, t) /\ (t # s \/ q # o) =>
        m.space[t][q] \in Handle \ {h}
  BY <1>1 DEF Good, Bound, OwnedAlone
<1>4. Good(n)
  BY <1>2 DEF Good, Bound, OwnedAlone, Shortcuts, Live
<1>5. SameBut(m, n, s, o)
  BY <1>2, <1>3 DEF SameBut, Live, Owns
<1>6. Owns(n, s, o) /\ n.space[s][o] = h
  BY <1>2 DEF Owns, h
<1>7. v \in Value => n.byte[h] = v
  BY <1>2 DEF Content
<1> QED BY <1>2, <1>4, <1>5, <1>6, <1>7 DEF Stored, n, h

\* AddressSpace::getWriteable and a write to what it returns.
LEMMA StoredByWrite ==
  ASSUME NEW m, Good(m), NEW s \in State, Live(m, s), NEW o \in Object,
         NEW h, h = m.space[s][o], NEW v \in Value \cup {Symbolic}
  PROVE  LET n == Write(m, s, o, h, v) IN
         /\ Stored(m, n, s, o, v)
         /\ v \in Value => n.byte[n.space[s][o]] = v
<1> DEFINE w == GetWriteable(m, s, o, h)
           k == w.machine
           n == WriteObject(k, w.object, v)
<1>1. /\ Good(k) /\ w.object = k.space[s][o] /\ SameBut(m, k, s, o) /\ Owns(k, s, o)
  BY Writeable DEF SameAt
<1>2. Write(m, s, o, h, v) = n
  BY DEF Write
<1> HIDE DEF w, k
<1>3. Live(k, s)
  BY <1>1 DEF SameBut
<1>n. n = WriteObject(k, k.space[s][o], v)
  <2>1. w.object = k.space[s][o]
    BY <1>1
  <2> QED BY <2>1, Zenon
<1> HIDE DEF n
<1>4. Stored(k, n, s, o, v) /\ (v \in Value => n.byte[n.space[s][o]] = v)
  BY <1>1, <1>3, <1>n, StoredInPlace, SMTT(30)
<1>5. SameBut(m, n, s, o)
  BY <1>1, <1>4, SameButTransitive DEF Stored
<1> QED BY <1>2, <1>4, <1>5 DEF Stored

\* What was stored is what is held, and all else is held as before.
LEMMA StoredIsKept ==
  ASSUME NEW m, NEW n, NEW H \in HoldsSet, NEW c, NEW s \in State,
         NEW o \in Page \cup {"registers"}, NEW v \in Value \cup {Symbolic},
         NEW X, NEW Y, OwnCpu(m), Kept(m, H, c, X), Live(m, s), Stored(m, n, s, o, v),
         \A t \in State : t \notin Y => t \notin X \/ (t = s /\ o = "registers"),
         o = "registers" /\ s \notin Y =>
           ~(s = First /\ c) \/ n.expr[n.space[s]["registers"]] # None
  PROVE  OwnCpu(n) /\ Kept(n, [H EXCEPT ![s][o] = v], c, Y)
<1> DEFINE G == [H EXCEPT ![s][o] = v]
<1>1. \A t \in State, q \in Object : G[t][q] = IF t = s /\ q = o THEN v ELSE H[t][q]
  BY Objects DEF HoldsSet
<1> HIDE DEF G
<1>2. OwnCpu(n)
  BY Objects DEF OwnCpu, Stored, SameBut
<1>3. \A t \in State, q \in Object : Live(m, t) /\ (t # s \/ q # o) =>
        /\ n.byte[n.space[t][q]] = m.byte[m.space[t][q]]
        /\ n.expr[n.space[t][q]] = m.expr[m.space[t][q]]
        /\ Content(n, n.space[t][q]) = Content(m, m.space[t][q])
  BY DEF Stored, SameBut, Content
<1>4. Content(n, n.space[s][o]) = v /\ n.env = m.env /\ \A t \in State : Live(n, t) => Live(m, t)
  BY DEF Stored, SameBut
<1>5. ASSUME NEW t \in State, Live(n, t)
      PROVE  /\ \A p \in Page : G[t][p] = Content(n, n.space[t][p])
             /\ t \notin Y => G[t]["registers"] =
                  IF ~(t = First /\ c) \/ n.expr[n.space[t]["registers"]] # None
                    THEN Content(n, n.space[t]["registers"]) ELSE n.env.registers
             /\ G[t]["system"] = IF t = First THEN n.env.system ELSE n.byte[n.space[t]["system"]]
  <2>1. Live(m, t) /\ "registers" # "system" /\ o # "system"
    BY <1>4, <1>5, Objects
  <2>2. \A p \in Page : G[t][p] = Content(n, n.space[t][p])
    BY <1>1, <1>3, <1>4, <2>1, Objects DEF Kept
  <2>3. ASSUME t \notin Y
        PROVE  G[t]["registers"] =
                 IF ~(t = First /\ c) \/ n.expr[n.space[t]["registers"]] # None
                   THEN Content(n, n.space[t]["registers"]) ELSE n.env.registers
    <3>1. CASE t = s /\ o = "registers"
      BY <1>1, <1>4, <2>3, <3>1, Objects
    <3>2. CASE t # s \/ "registers" # o
      BY <1>1, <1>3, <1>4, <2>1, <2>3, <3>2, Objects DEF Kept
    <3> QED BY <3>1, <3>2
  <2>4. G[t]["system"] = IF t = First THEN n.env.system ELSE n.byte[n.space[t]["system"]]
    BY <1>1, <1>3, <1>4, <2>1, Objects DEF Kept
  <2> QED BY <2>2, <2>3, <2>4
<1> QED BY <1>2, <1>5 DEF Kept, G

\* A lookup fills the memory cache and does nothing else.
LEMMA LookedUp ==
  ASSUME NEW m, Good(m), NEW s \in State, Live(m, s), NEW p \in Page
  PROVE  LET n == Lookup(m, s, p) IN
         /\ Good(n) /\ CacheGet(n, s, p) = m.space[s][p] /\ n.space[s][p] = m.space[s][p]
         /\ \A o \in Object : SameBut(m, n, s, o)
         /\ OwnCpu(m) => OwnCpu(n)
         /\ \A H, c, X : Kept(m, H, c, X) => Kept(n, H, c, X)
<1> DEFINE n == Lookup(m, s, p)
<1>1. /\ n \in MachineSet
      /\ n.space = m.space /\ n.owner = m.owner /\ n.byte = m.byte /\ n.expr = m.expr
      /\ n.registers = m.registers /\ n.system = m.system /\ n.env = m.env
      /\ \A t \in State, q \in Page :
           n.cache[t][q] = IF t = s /\ p = q /\ m.cache[t][q] = None THEN m.space[t][q]
                           ELSE m.cache[t][q]
  <2>1. m \in MachineSet /\ m.space[s][p] \in Handle
    BY Objects DEF Good, Bound
  <2>2. n = IF m.cache[s][p] # None THEN m ELSE [m EXCEPT !.cache[s][p] = m.space[s][p]]
    BY DEF Lookup, CacheGet
  <2> DEFINE h == m.space[s][p]
  <2> HIDE DEF n
  <2>3. CASE m.cache[s][p] # None
    BY <2>1, <2>2, <2>3
  <2>4. CASE m.cache[s][p] = None
    <3>1. /\ n \in MachineSet
          /\ n.space = m.space /\ n.owner = m.owner /\ n.byte = m.byte /\ n.expr = m.expr
          /\ n.registers = m.registers /\ n.system = m.system /\ n.env = m.env
          /\ n.cache = [m.cache EXCEPT ![s][p] = h]
      <4>1. n = [m EXCEPT !.cache[s][p] = h] /\ h \in Handle
        BY <2>1, <2>2, <2>4
      <4> HIDE DEF h
      <4> QED BY <4>1, <2>1, Zenon DEF MachineSet
    <3>2. m.cache \in [State -> [Page -> Handle \cup {None}]]
      BY <2>1 DEF MachineSet
    <3>3. \A t \in State, q \in Page :
            n.cache[t][q] = IF t = s /\ p = q THEN h ELSE m.cache[t][q]
      BY <3>1, <3>2
    <3> QED BY <3>1, <3>3, <2>4
  <2> QED BY <2>3, <2>4
<1> HIDE DEF n
<1>2. Good(n)
  BY <1>1 DEF Good, Bound, OwnedAlone, Shortcuts, Live
<1>3. CacheGet(n, s, p) = m.space[s][p]
  BY <1>1 DEF CacheGet, Good, Shortcuts
<1>4. \A o \in Object : SameBut(m, n, s, o)
  BY <1>1 DEF SameBut, Live, Owns
<1>5. OwnCpu(m) => OwnCpu(n)
  BY <1>1 DEF OwnCpu, Live, Owns
<1>6. \A H, c, X : Kept(m, H, c, X) => Kept(n, H, c, X)
  BY <1>1 DEF Kept, Live, Content
<1> QED BY <1>1, <1>2, <1>3, <1>4, <1>5, <1>6 DEF n

-----------------------------------------------------------------------------
(* Stores are steps                                                           *)

\* The variables are the fields of the machine.
LEMMA Fields ==
  /\ machine.space = space /\ machine.owner = owner /\ machine.byte = byte
  /\ machine.expr = expr /\ machine.cache = cache /\ machine.registers = registers
  /\ machine.system = system /\ machine.env = env
BY DEF machine

\* A state that is alive is live in the machine, and its CPU objects are known.
LEMMA AliveIsLive ==
  ASSUME IInv, NEW s \in Alive
  PROVE  /\ s \in State /\ Live(machine, s)
         /\ registers[s] = machine.space[s]["registers"]
         /\ system[s] = machine.space[s]["system"]
         /\ Owns(machine, s, "registers") /\ Owns(machine, s, "system")
BY Fields DEF IInv, Alive, Live, Good, Shortcuts, OwnCpu

\* A step to machine n, in which what is held is kept.
LEMMA MachineStep ==
  ASSUME NEW n, Becomes(n), Good(n), OwnCpu(n), Kept(n, holds', concrete', misplaced'), Live(n, First),
         \A t \in State : Live(n, t) => t \in created',
         holds' \in HoldsSet, concrete' \in BOOLEAN, aborted' \in BOOLEAN,
         misplaced' \subseteq State
  PROVE  IInv'
<1>1. machine' = n
  BY BecomesMachine DEF Good
<1>2. Good(machine)' /\ OwnCpu(machine)' /\ Kept(machine, holds, concrete, misplaced)' /\ Live(machine, First)'
  BY <1>1
<1>3. Alive' \subseteq created'
  <2>1. Alive' = {t \in State : Live(machine, t)'}
    BY DEF Alive, Live, machine
  <2> QED BY <1>1, <2>1
<1> QED BY <1>2, <1>3 DEF IInv, HistoryInv, HoldsSet

\* A step to machine n, in which the same states are alive, that keeps what is held.
LEMMA KeepsStep ==
  ASSUME IInv, NEW n, NEW s \in State, NEW o \in Object, NEW v \in Value \cup {Symbolic, None},
         Keeps(n, s, o, v), Good(n), OwnCpu(n),
         Kept(n, [holds EXCEPT ![s][o] = v], concrete, misplaced'), misplaced' \subseteq State,
         \A t \in State : Live(n, t) => Live(machine, t), Live(n, First)
  PROVE  IInv'
<1>1. /\ Becomes(n) /\ holds' = [holds EXCEPT ![s][o] = v]
      /\ UNCHANGED <<concrete, aborted, created>>
  BY DEF Keeps
<1>2. \A t \in State : Live(n, t) => t \in created'
  BY <1>1, Fields DEF IInv, HistoryInv, Alive, Live
<1>3. holds' \in HoldsSet /\ concrete' \in BOOLEAN /\ aborted' \in BOOLEAN
  BY <1>1 DEF IInv, HistoryInv, HoldsSet
<1>4. Kept(n, holds', concrete', misplaced')
  BY <1>1
<1> QED BY <1>1, <1>2, <1>3, <1>4, MachineStep, Zenon

\* A store misplaces nothing, and what it stores in the registers is in its place.
LEMMA StoresInPlace ==
  ASSUME IInv, NEW n, NEW s, NEW o, NEW v, Stores(n, s, o, v)
  PROVE  /\ Keeps(n, s, o, v) /\ misplaced' \subseteq State /\ s \in Alive
         /\ \A t \in State : t \notin misplaced' => t \notin misplaced \/ (t = s /\ o = "registers")
         /\ o # "registers" => misplaced' = misplaced
BY DEF Stores, Keeps, IInv, HistoryInv

\* Object o of state s is stored into, maybe after lookups that led to machine m.
LEMMA StoredStep ==
  ASSUME IInv, NEW s \in State, NEW o \in Page \cup {"registers"},
         NEW v \in Value \cup {Symbolic}, NEW m, NEW n,
         SameBut(machine, m, s, o), OwnCpu(m), Kept(m, holds, concrete, misplaced),
         Live(m, s), Stored(m, n, s, o, v), Keeps(n, s, o, v), misplaced' \subseteq State,
         \A t \in State : t \notin misplaced' => t \notin misplaced \/ (t = s /\ o = "registers"),
         o = "registers" /\ s \notin misplaced' =>
           ~(s = First /\ concrete) \/ n.expr[n.space[s]["registers"]] # None
  PROVE  IInv'
<1> DEFINE Y == misplaced'
<1>1. holds \in HoldsSet
  BY DEF IInv, HistoryInv, HoldsSet
<1>2. OwnCpu(n) /\ Kept(n, [holds EXCEPT ![s][o] = v], concrete, Y)
  <2>1. /\ \A t \in State : t \notin Y => t \notin misplaced \/ (t = s /\ o = "registers")
        /\ o = "registers" /\ s \notin Y =>
             ~(s = First /\ concrete) \/ n.expr[n.space[s]["registers"]] # None
    OBVIOUS
  <2> HIDE DEF Y
  <2>2. \A Z : (\A t \in State : t \notin Z => t \notin misplaced \/ (t = s /\ o = "registers"))
               /\ (o = "registers" /\ s \notin Z =>
                    ~(s = First /\ concrete) \/ n.expr[n.space[s]["registers"]] # None)
               => OwnCpu(n) /\ Kept(n, [holds EXCEPT ![s][o] = v], concrete, Z)
    BY <1>1, StoredIsKept, Zenon
  <2> QED BY <2>1, <2>2, Zenon
<1>3. o \in Object /\ First \in State
  BY Objects, StateMemoryAssumption
<1>4. \A t \in State : Live(n, t) <=> Live(machine, t)
  BY DEF Stored, SameBut
<1>5. Live(n, First)
  BY <1>4, <1>3 DEF IInv, HistoryInv
<1>6. Good(n)
  BY DEF Stored
<1> QED BY <1>2, <1>3, <1>4, <1>5, <1>6, KeepsStep

\* A machine is the same as itself.
LEMMA SameAsItself ==
  ASSUME NEW m, NEW s, NEW o
  PROVE  SameBut(m, m, s, o)
BY DEF SameBut

\* The byte of an object that its state owns, with or without an expression over it.
LEMMA ByteInPlace ==
  ASSUME NEW m, Good(m), NEW s \in State, Live(m, s), NEW o \in Object,
         Owns(m, s, o), NEW b \in Value
  PROVE  LET n == [m EXCEPT !.byte[m.space[s][o]] = b] IN
         /\ Good(n) /\ SameBut(m, n, s, o) /\ Owns(n, s, o)
         /\ n.space = m.space /\ n.expr = m.expr /\ n.byte[n.space[s][o]] = b
<1> DEFINE h == m.space[s][o]
           n == [m EXCEPT !.byte[h] = b]
<1>1. m \in MachineSet /\ h \in Handle /\ h[1] = o /\ m.owner[h] = s
  BY Objects DEF Good, Bound, Owns
<1> HIDE DEF h
<1>2. /\ n \in MachineSet
      /\ n.space = m.space /\ n.owner = m.owner /\ n.expr = m.expr /\ n.cache = m.cache
      /\ n.registers = m.registers /\ n.system = m.system /\ n.env = m.env
      /\ n.byte[h] = b /\ \A g \in Handle \ {h} : n.byte[g] = m.byte[g]
  BY <1>1, Zenon DEF MachineSet
<1> HIDE DEF n
<1>3. \A t \in State, q \in Object : Live(m, t) /\ (t # s \/ q # o) =>
        m.space[t][q] \in Handle \ {h}
  BY <1>1 DEF Good, Bound, OwnedAlone
<1>4. Good(n)
  BY <1>2 DEF Good, Bound, OwnedAlone, Shortcuts, Live
<1>5. SameBut(m, n, s, o)
  BY <1>2, <1>3 DEF SameBut, Live, Owns
<1>6. Owns(n, s, o) /\ n.space[s][o] = h
  BY <1>2 DEF Owns, h
<1> QED BY <1>2, <1>4, <1>5, <1>6 DEF n, h

\* The env of QEMU is nowhere in the address spaces: its registers.
LEMMA EnvRegisters ==
  ASSUME NEW m, Good(m), OwnCpu(m), NEW b \in Value
  PROVE  LET n == [m EXCEPT !.env.registers = b] IN
         /\ Good(n) /\ OwnCpu(n) /\ \A t \in State : Live(n, t) <=> Live(m, t)
         /\ n.space = m.space /\ n.byte = m.byte /\ n.expr = m.expr
         /\ n.env.registers = b /\ n.env.system = m.env.system
<1> DEFINE n == [m EXCEPT !.env.registers = b]
<1>1. m \in MachineSet
  BY DEF Good
<1>2. /\ n \in MachineSet
      /\ n.space = m.space /\ n.owner = m.owner /\ n.byte = m.byte
      /\ n.expr = m.expr /\ n.cache = m.cache
      /\ n.registers = m.registers /\ n.system = m.system
      /\ n.env.registers = b /\ n.env.system = m.env.system
  BY <1>1, Zenon DEF MachineSet
<1> HIDE DEF n
<1>3. Good(n) /\ OwnCpu(n) /\ \A t \in State : Live(n, t) <=> Live(m, t)
  BY <1>2 DEF Good, OwnCpu, Live, Owns, Bound, OwnedAlone, Shortcuts
<1> QED BY <1>2, <1>3 DEF n

\* The env of QEMU is nowhere in the address spaces: the rest of the CPU.
LEMMA EnvSystem ==
  ASSUME NEW m, Good(m), OwnCpu(m), NEW v \in Value
  PROVE  LET n == [m EXCEPT !.env.system = v] IN
         /\ Good(n) /\ OwnCpu(n) /\ \A t \in State : Live(n, t) <=> Live(m, t)
         /\ n.space = m.space /\ n.byte = m.byte /\ n.expr = m.expr
         /\ n.env.system = v /\ n.env.registers = m.env.registers
<1> DEFINE n == [m EXCEPT !.env.system = v]
<1>1. m \in MachineSet
  BY DEF Good
<1>2. /\ n \in MachineSet
      /\ n.space = m.space /\ n.owner = m.owner /\ n.byte = m.byte
      /\ n.expr = m.expr /\ n.cache = m.cache
      /\ n.registers = m.registers /\ n.system = m.system
      /\ n.env.system = v /\ n.env.registers = m.env.registers
  BY <1>1, Zenon DEF MachineSet
<1> HIDE DEF n
<1>3. Good(n) /\ OwnCpu(n) /\ \A t \in State : Live(n, t) <=> Live(m, t)
  BY <1>2 DEF Good, OwnCpu, Live, Owns, Bound, OwnedAlone, Shortcuts
<1> QED BY <1>2, <1>3 DEF n

-----------------------------------------------------------------------------
(* Registers                                                                  *)

\* The object of a state's registers is written in place.
LEMMA RegisterObjectStep ==
  ASSUME IInv, NEW s \in State, NEW v \in Value \cup {Symbolic},
         Keeps(WriteObject(machine, registers[s], v), s, "registers", v),
         \/ misplaced' = misplaced \ {s} /\ (~RunningConcrete(s) \/ v = Symbolic)
         \/ misplaced' = misplaced \cup {s}
  PROVE  IInv'
<1> USE StateMemoryAssumption
<1> DEFINE n == WriteObject(machine, machine.space[s]["registers"], v)
<1>1. s \in Alive
  BY DEF Keeps
<1>2. /\ Live(machine, s) /\ registers[s] = machine.space[s]["registers"]
      /\ Owns(machine, s, "registers") /\ Good(machine)
  BY <1>1, AliveIsLive DEF IInv
<1>3. Stored(machine, n, s, "registers", v) /\ n.space = machine.space
  BY <1>2, Objects, StoredInPlace
<1>4. Keeps(n, s, "registers", v)
  <2>1. registers[s] = machine.space[s]["registers"]
    BY <1>2
  <2> QED BY <2>1, Zenon
<1>5. v = Symbolic => n.expr[n.space[s]["registers"]] # None
  <2>1. machine \in MachineSet /\ machine.space[s]["registers"] \in Handle
    BY <1>2, Objects DEF Good, Bound
  <2>2. v \notin Value => n.expr[machine.space[s]["registers"]] = v
    BY <2>1, WriteObjectFields
  <2> QED BY <2>2, <1>3
<1> HIDE DEF n
<1>6. SameBut(machine, machine, s, "registers") /\ OwnCpu(machine) /\ Kept(machine, holds, concrete, misplaced)
  BY SameAsItself DEF IInv
<1>7. s \notin misplaced' => ~(s = First /\ concrete) \/ n.expr[n.space[s]["registers"]] # None
  BY <1>5 DEF RunningConcrete
<1>8. misplaced' \subseteq State /\ \A t \in State : t \notin misplaced' => t \notin misplaced \/ t = s
  BY DEF IInv, HistoryInv
<1> DEFINE o == "registers"
           m == machine
<1>9. /\ o \in Page \cup {"registers"}
      /\ o = "registers" /\ s \notin misplaced' =>
           ~(s = First /\ concrete) \/ n.expr[n.space[s]["registers"]] # None
      /\ \A t \in State : t \notin misplaced' => t \notin misplaced \/ (t = s /\ o = "registers")
  BY <1>7, <1>8
<1>10. /\ SameBut(machine, m, s, o) /\ OwnCpu(m) /\ Kept(m, holds, concrete, misplaced) /\ Live(m, s)
       /\ Stored(m, n, s, o, v) /\ Keeps(n, s, o, v)
  BY <1>2, <1>3, <1>4, <1>6
<1> HIDE DEF o, m
<1> QED BY <1>8, <1>9, <1>10, StoredStep

\* A symbolic register is replaced in the object, where it may be misplaced.
LEMMA ReplaceSymbolicStep ==
  ASSUME IInv, NEW s \in State, NEW v \in Value, ReplaceSymbolic(s, v)
  PROVE  IInv'
<1>1. Keeps(WriteObject(machine, registers[s], v), s, "registers", v)
  BY DEF ReplaceSymbolic
<1>2. \/ misplaced' = misplaced \ {s} /\ ~RunningConcrete(s)
      \/ misplaced' = misplaced \cup {s}
  BY DEF ReplaceSymbolic
<1> QED BY <1>1, <1>2, RegisterObjectStep

\* A plugin writes a symbolic value to the object, from which it is read in either mode.
LEMMA WriteRegisterSymbolicStep ==
  ASSUME IInv, NEW s \in State, WriteRegisterSymbolic(s)
  PROVE  IInv'
<1>1. /\ Keeps(WriteObject(machine, registers[s], Symbolic), s, "registers", Symbolic)
      /\ misplaced' = misplaced \ {s}
  BY DEF WriteRegisterSymbolic, Stores
<1> QED BY <1>1, RegisterObjectStep

\* A register is written where the mode of the state has it.
LEMMA WriteRegisterStep ==
  ASSUME IInv, NEW s \in State, NEW v \in Value, WriteRegister(s, v)
  PROVE  IInv'
<1> USE StateMemoryAssumption
<1>1. CASE ReplaceSymbolic(s, v)
  BY <1>1, ReplaceSymbolicStep
<1>2. CASE ~ReplaceSymbolic(s, v) /\ ~RunningConcrete(s)
  <2>1. /\ Keeps(WriteObject(machine, registers[s], v), s, "registers", v)
        /\ misplaced' = misplaced \ {s}
    BY <1>2 DEF WriteRegister, Stores
  <2> QED BY <1>2, <2>1, RegisterObjectStep
<1>3. CASE ~ReplaceSymbolic(s, v) /\ RunningConcrete(s)
  <2> DEFINE n == [machine EXCEPT !.env.registers = v]
  <2>1. /\ s \in Alive /\ expr[registers[s]] = None /\ Keeps(n, s, "registers", v)
        /\ misplaced' = misplaced \ {s}
    BY <1>3 DEF WriteRegister, Stores
  <2>2. misplaced' \subseteq State
    BY <2>1 DEF IInv, HistoryInv
  <2>3. s = First /\ concrete /\ machine.expr[machine.space[s]["registers"]] = None
    BY <2>1, <1>3, AliveIsLive, Fields DEF RunningConcrete
  <2>4. /\ Good(n) /\ OwnCpu(n) /\ \A t \in State : Live(n, t) <=> Live(machine, t)
        /\ n.space = machine.space /\ n.byte = machine.byte /\ n.expr = machine.expr
        /\ n.env.registers = v /\ n.env.system = machine.env.system
    BY EnvRegisters DEF IInv
  <2> HIDE DEF n
  <2>5. Kept(n, [holds EXCEPT ![s]["registers"] = v], concrete, misplaced')
    <3> DEFINE G == [holds EXCEPT ![s]["registers"] = v]
    <3>1. \A t \in State, q \in Object :
            G[t][q] = IF t = s /\ q = "registers" THEN v ELSE holds[t][q]
      BY DEF IInv, HistoryInv
    <3>2. Kept(machine, holds, concrete, misplaced)
      BY DEF IInv
    <3>3. \A t \in State : t \notin misplaced' => t \notin misplaced \/ t = s
      BY <2>1
    <3> HIDE DEF G
    <3> QED BY <3>1, <3>2, <3>3, <2>3, <2>4, Objects DEF Kept, Content, G
  <2>6. Live(n, First)
    BY <2>4 DEF IInv, HistoryInv
  <2> QED BY <2>1, <2>2, <2>4, <2>5, <2>6, Objects, KeepsStep
<1> QED BY <1>1, <1>2, <1>3

\* Reading a symbolic register concretely makes it concrete.
LEMMA ReadRegisterConcreteStep ==
  ASSUME IInv, NEW v \in Value, ReadRegisterConcrete(v)
  PROVE  IInv'
BY ReplaceSymbolicStep, StateMemoryAssumption DEF ReadRegisterConcrete

\* The whole register object is copied to env.
LEMMA SwitchToConcreteStep ==
  ASSUME IInv, SwitchToConcrete
  PROVE  IInv'
<1> USE StateMemoryAssumption
<1> DEFINE h == machine.space[First]["registers"]
           b == machine.byte[h]
           n == [machine EXCEPT !.env.registers = b]
<1>1. /\ First \in Alive /\ ~concrete /\ concrete' = TRUE
      /\ UNCHANGED <<aborted, created, holds, misplaced>>
  BY Fields DEF SwitchToConcrete, IInv, HistoryInv, Alive, Live
<1>2. /\ Live(machine, First) /\ registers[First] = h
  BY <1>1, AliveIsLive
<1>3. Becomes(n)
  BY <1>2, Fields DEF SwitchToConcrete
<1>4. machine \in MachineSet /\ h \in Handle /\ b \in Value
  BY <1>2, Objects DEF IInv, Good, Bound, MachineSet
<1>5. /\ Good(n) /\ OwnCpu(n) /\ \A t \in State : Live(n, t) <=> Live(machine, t)
      /\ n.space = machine.space /\ n.byte = machine.byte /\ n.expr = machine.expr
      /\ n.env.registers = b /\ n.env.system = machine.env.system
  BY <1>4, EnvRegisters DEF IInv
<1> HIDE DEF n
<1>6. Kept(n, holds, TRUE, misplaced)
  <2>1. Kept(machine, holds, FALSE, misplaced)
    BY <1>1, Zenon DEF IInv, HistoryInv
  <2> QED BY <2>1, <1>5 DEF Kept, Content
<1>7. \A t \in State : Live(n, t) => t \in created'
  BY <1>1, <1>5, Fields DEF IInv, HistoryInv, Alive, Live
<1>8. Kept(n, holds', concrete', misplaced') /\ holds' \in HoldsSet /\ concrete' \in BOOLEAN /\ aborted' \in BOOLEAN
      /\ misplaced' \subseteq State
  BY <1>1, <1>6, Zenon DEF IInv, HistoryInv, HoldsSet
<1>9. Live(n, First)
  BY <1>2, <1>5
<1> QED BY <1>3, <1>5, <1>7, <1>8, <1>9, MachineStep

\* Env is copied below what is symbolic in the register object.
LEMMA SwitchToSymbolicStep ==
  ASSUME IInv, SwitchToSymbolic
  PROVE  IInv'
<1> USE StateMemoryAssumption
<1> DEFINE h == machine.space[First]["registers"]
           b == machine.env.registers
           n == [machine EXCEPT !.byte[h] = b]
<1>1. /\ First \in Alive /\ concrete /\ concrete' = FALSE
      /\ UNCHANGED <<aborted, created, holds, misplaced>>
  BY Fields DEF SwitchToSymbolic, IInv, HistoryInv, Alive, Live
<1>2. /\ Live(machine, First) /\ registers[First] = h /\ Owns(machine, First, "registers")
  BY <1>1, AliveIsLive
<1>3. Becomes(n)
  BY <1>2, Fields DEF SwitchToSymbolic
<1>4. b \in Value
  BY DEF IInv, Good, MachineSet
<1>5. /\ Good(n) /\ SameBut(machine, n, First, "registers") /\ Owns(n, First, "registers")
      /\ n.space = machine.space /\ n.expr = machine.expr /\ n.byte[h] = b
  BY <1>2, <1>4, Objects, ByteInPlace DEF IInv
<1> HIDE DEF n
<1>6. OwnCpu(n)
  BY <1>5, Objects DEF OwnCpu, IInv, SameBut
<1>7. Kept(n, holds, FALSE, misplaced)
  <2>1. Kept(machine, holds, TRUE, misplaced)
    BY <1>1, Zenon DEF IInv, HistoryInv
  <2> SUFFICES ASSUME NEW t \in State, Live(n, t)
               PROVE  /\ \A p \in Page : holds[t][p] = Content(n, n.space[t][p])
                      /\ t \notin misplaced =>
                           holds[t]["registers"] = Content(n, n.space[t]["registers"])
                      /\ holds[t]["system"] = IF t = First THEN n.env.system
                                              ELSE n.byte[n.space[t]["system"]]
    BY DEF Kept
  <2>2. Live(machine, t) /\ n.env = machine.env
    BY <1>5 DEF SameBut
  <2>3. \A q \in Object : t # First \/ q # "registers" =>
          /\ n.byte[n.space[t][q]] = machine.byte[machine.space[t][q]]
          /\ n.expr[n.space[t][q]] = machine.expr[machine.space[t][q]]
    BY <1>5, <2>2 DEF SameBut
  <2>4. t \notin misplaced => holds[t]["registers"] = Content(n, n.space[t]["registers"])
    BY <2>1, <2>2, <2>3, <1>5, Objects DEF Kept, Content
  <2> QED BY <2>1, <2>2, <2>3, <2>4, Objects, SMTT(30) DEF Kept, Content
<1>8. \A t \in State : Live(n, t) => t \in created'
  BY <1>1, <1>5, Fields DEF IInv, HistoryInv, Alive, Live
<1>9. Kept(n, holds', concrete', misplaced') /\ holds' \in HoldsSet /\ concrete' \in BOOLEAN /\ aborted' \in BOOLEAN
      /\ misplaced' \subseteq State
  BY <1>1, <1>7, Zenon DEF IInv, HistoryInv, HoldsSet
<1>10. Live(n, First)
  BY <1>2, <1>5 DEF SameBut
<1> QED BY <1>3, <1>5, <1>6, <1>8, <1>9, <1>10, MachineStep

\* The rest of the CPU is written in env or in the object, by who has it where.
LEMMA WriteCpuStateStep ==
  ASSUME IInv, NEW s \in State, NEW v \in Value, WriteCpuState(s, v)
  PROVE  IInv'
<1> USE StateMemoryAssumption
<1>1. s \in Alive
  BY DEF WriteCpuState, Stores, Keeps
<1>2. /\ Live(machine, s) /\ system[s] = machine.space[s]["system"] /\ Owns(machine, s, "system")
      /\ Good(machine) /\ OwnCpu(machine) /\ Kept(machine, holds, concrete, misplaced)
  BY <1>1, AliveIsLive DEF IInv
<1> DEFINE G == [holds EXCEPT ![s]["system"] = v]
<1>3. \A t \in State, q \in Object : G[t][q] = IF t = s /\ q = "system" THEN v ELSE holds[t][q]
  BY DEF IInv, HistoryInv
<1>4. CASE s = First
  <2> DEFINE n == [machine EXCEPT !.env.system = v]
  <2>1. Keeps(n, s, "system", v) /\ misplaced' = misplaced /\ misplaced' \subseteq State
    BY <1>4 DEF WriteCpuState, Stores, IInv, HistoryInv
  <2>2. /\ Good(n) /\ OwnCpu(n) /\ \A t \in State : Live(n, t) <=> Live(machine, t)
        /\ n.space = machine.space /\ n.byte = machine.byte /\ n.expr = machine.expr
        /\ n.env.system = v /\ n.env.registers = machine.env.registers
    BY <1>2, EnvSystem
  <2> HIDE DEF n, G
  <2>3. Kept(n, G, concrete, misplaced')
    BY <1>2, <1>3, <1>4, <2>1, <2>2, Objects DEF Kept, Content
  <2>4. Live(n, First)
    BY <1>2, <1>4, <2>2
  <2> QED BY <2>1, <2>2, <2>3, <2>4, Objects, KeepsStep DEF G
<1>5. CASE s # First
  <2> DEFINE n == [machine EXCEPT !.byte[machine.space[s]["system"]] = v]
  <2>1. Keeps(n, s, "system", v) /\ misplaced' = misplaced /\ misplaced' \subseteq State
    BY <1>5, <1>2, Fields DEF WriteCpuState, Stores, IInv, HistoryInv
  <2>2. /\ Good(n) /\ SameBut(machine, n, s, "system") /\ Owns(n, s, "system")
        /\ n.space = machine.space /\ n.byte[n.space[s]["system"]] = v
    BY <1>2, Objects, ByteInPlace
  <2> HIDE DEF n, G
  <2>3. OwnCpu(n) /\ \A t \in State : Live(n, t) <=> Live(machine, t)
    BY <1>2, <2>2, Objects DEF OwnCpu, SameBut
  <2>4. Kept(n, G, concrete, misplaced')
    <3>1. n.env = machine.env
      BY <2>2 DEF SameBut
    <3>2. \A t \in State, q \in Object : Live(machine, t) /\ (t # s \/ q # "system") =>
            /\ n.byte[n.space[t][q]] = machine.byte[machine.space[t][q]]
            /\ n.expr[n.space[t][q]] = machine.expr[machine.space[t][q]]
            /\ Content(n, n.space[t][q]) = Content(machine, machine.space[t][q])
      BY <2>2 DEF SameBut, Content
    <3> QED BY <1>2, <1>3, <1>5, <2>1, <2>2, <2>3, <3>1, <3>2, Objects DEF Kept
  <2>5. Live(n, First)
    BY <2>3 DEF IInv, HistoryInv
  <2> QED BY <2>1, <2>2, <2>3, <2>4, <2>5, Objects, KeepsStep DEF G
<1> QED BY <1>4, <1>5

-----------------------------------------------------------------------------
(* Memory                                                                     *)

\* A page is written through the address space.
LEMMA WriteMemoryStep ==
  ASSUME IInv, NEW s \in State, NEW o \in Page \cup {"registers"},
         NEW v \in Value \cup {Symbolic},
         Stores(Write(machine, s, o, space[s][o], v), s, o, v),
         o = "registers" => ~(s = First /\ concrete)
  PROVE  IInv'
<1> DEFINE h == machine.space[s][o]
           n == Write(machine, s, o, h, v)
<1>1. s \in Alive
  BY StoresInPlace
<1>2. Live(machine, s) /\ Good(machine) /\ o \in Object
  BY <1>1, AliveIsLive, Objects DEF IInv
<1>3. Stored(machine, n, s, o, v)
  BY <1>2, StoredByWrite
<1>4. Stores(n, s, o, v)
  BY Fields
<1> DEFINE m == machine
<1>5. SameBut(machine, m, s, o) /\ OwnCpu(m) /\ Kept(m, holds, concrete, misplaced) /\ Live(m, s)
      /\ Stored(m, n, s, o, v)
  BY <1>2, <1>3, SameAsItself DEF IInv
<1> HIDE DEF n, m
<1>6. /\ Keeps(n, s, o, v) /\ misplaced' \subseteq State
      /\ \A t \in State : t \notin misplaced' => t \notin misplaced \/ (t = s /\ o = "registers")
  BY <1>4, StoresInPlace
<1> QED BY <1>5, <1>6, StoredStep

\* A reader moves caches; a page that a device or a plugin writes after that is found
\* through them.
LEMMA LookupStep ==
  ASSUME IInv, NEW s \in State, NEW p \in Page, s \in Alive
  PROVE  LET m == Lookup(machine, s, p) IN
         /\ Good(m) /\ OwnCpu(m) /\ Kept(m, holds, concrete, misplaced) /\ Live(m, s)
         /\ SameBut(machine, m, s, p) /\ CacheGet(m, s, p) = m.space[s][p]
         /\ m.space[s][p] = machine.space[s][p]
<1> DEFINE m == Lookup(machine, s, p)
<1>1. Live(machine, s) /\ Good(machine) /\ OwnCpu(machine) /\ Kept(machine, holds, concrete, misplaced)
      /\ p \in Object
  BY AliveIsLive, Objects DEF IInv
<1>2. /\ Good(m) /\ CacheGet(m, s, p) = machine.space[s][p] /\ m.space[s][p] = machine.space[s][p]
      /\ \A o \in Object : SameBut(machine, m, s, o)
      /\ OwnCpu(machine) => OwnCpu(m)
      /\ \A H, c, X : Kept(machine, H, c, X) => Kept(m, H, c, X)
  BY <1>1, LookedUp
<1> HIDE DEF m
<1>3. SameBut(machine, m, s, p) /\ OwnCpu(m) /\ Kept(m, holds, concrete, misplaced)
  BY <1>1, <1>2
<1>4. Live(m, s)
  BY <1>1, <1>3 DEF SameBut
<1> QED BY <1>2, <1>3, <1>4 DEF m

\* Reading stores nothing.
LEMMA ReadMemoryStep ==
  ASSUME IInv, NEW s \in State, NEW p \in Page, ReadMemory(s, p)
  PROVE  IInv'
<1> DEFINE m == Lookup(machine, s, p)
           v == holds[s][p]
<1>1. /\ s \in Alive /\ Keeps(m, s, p, v)
      /\ misplaced' = misplaced /\ misplaced' \subseteq State
  BY Objects DEF ReadMemory, Stores, Keeps, IInv, HistoryInv
<1>2. /\ Good(m) /\ OwnCpu(m) /\ Kept(m, holds, concrete, misplaced) /\ SameBut(machine, m, s, p)
  BY <1>1, LookupStep
<1>3. v \in Value \cup {Symbolic, None} /\ [holds EXCEPT ![s][p] = v] = holds /\ p \in Object
  BY Objects DEF IInv, HistoryInv
<1> HIDE DEF m, v
<1>4. \A t \in State : Live(m, t) <=> Live(machine, t)
  BY <1>2 DEF SameBut
<1>5. Live(m, First)
  BY <1>4, StateMemoryAssumption DEF IInv, HistoryInv
<1>6. Kept(m, [holds EXCEPT ![s][p] = v], concrete, misplaced')
  BY <1>1, <1>2, <1>3
<1> QED BY <1>1, <1>2, <1>3, <1>4, <1>5, <1>6, KeepsStep

\* A page is written after a lookup, and its ObjectState is what the cache has.
LEMMA CachedWriteStep ==
  ASSUME IInv, NEW s \in State, NEW p \in Page, NEW v \in Value, NEW n,
         Stores(n, s, p, v),
         LET m == Lookup(machine, s, p) IN n = Write(m, s, p, CacheGet(m, s, p), v)
  PROVE  IInv'
<1> DEFINE m == Lookup(machine, s, p)
           h == CacheGet(m, s, p)
<1>1. s \in Alive
  BY StoresInPlace
<1>2. /\ Good(m) /\ OwnCpu(m) /\ Kept(m, holds, concrete, misplaced) /\ Live(m, s)
      /\ SameBut(machine, m, s, p) /\ h = m.space[s][p] /\ p \in Object
  BY <1>1, LookupStep, Objects
<1>3. n = Write(m, s, p, h, v)
  OBVIOUS
<1> HIDE DEF m, h
<1>4. Stored(m, n, s, p, v)
  BY <1>2, <1>3, StoredByWrite
<1>5. p \in Page \cup {"registers"} /\ p # "registers" /\ v \in Value \cup {Symbolic}
  BY Objects
<1>6. /\ Keeps(n, s, p, v) /\ misplaced' \subseteq State
      /\ \A t \in State : t \notin misplaced' => t \notin misplaced \/ (t = s /\ p = "registers")
  BY StoresInPlace
<1> QED BY <1>2, <1>4, <1>5, <1>6, StoredStep

\* A symbolic byte that is read concretely is written as one of its values.
LEMMA ReadRamConcreteStep ==
  ASSUME IInv, NEW p \in Page, NEW v \in Value, ReadRamConcrete(p, v)
  PROVE  IInv'
BY CachedWriteStep, StateMemoryAssumption DEF ReadRamConcrete

\* A plugin or a device writes a byte of the active state.
LEMMA WriteRamConcreteStep ==
  ASSUME IInv, NEW p \in Page, NEW v \in Value, WriteRamConcrete(p, v)
  PROVE  IInv'
BY CachedWriteStep, StateMemoryAssumption DEF WriteRamConcrete

\* A device reads a page, and what is symbolic in it gets a value.
LEMMA DmaReadStep ==
  ASSUME IInv, NEW p \in Page, NEW v \in Value, DmaRead(p, v)
  PROVE  IInv'
<1>1. ReadMemory(First, p) \/ ReadRamConcrete(p, v)
  BY DEF DmaRead
<1> QED BY <1>1, ReadMemoryStep, ReadRamConcreteStep, StateMemoryAssumption

\* The page is made writeable and then written in place, or asked for once more.
LEMMA DmaWriteStep ==
  ASSUME IInv, NEW p \in Page, NEW v \in Value, DmaWrite(p, v)
  PROVE  IInv'
<1> USE StateMemoryAssumption
<1> DEFINE m == Lookup(machine, First, p)
           h == CacheGet(m, First, p)
           w == GetWriteable(m, First, p, h)
           k == w.machine
           n == IF k.expr[w.object] = None THEN WriteObject(k, w.object, v)
                ELSE Write(k, First, p, CacheGet(k, First, p), v)
<1>1. Stores(n, First, p, v) /\ First \in Alive
  BY DEF DmaWrite, Stores, Keeps
<1>2. /\ Good(m) /\ OwnCpu(m) /\ Kept(m, holds, concrete, misplaced) /\ Live(m, First)
      /\ SameBut(machine, m, First, p) /\ h = m.space[First][p] /\ p \in Object /\ h # None
  <2>1. /\ Good(m) /\ OwnCpu(m) /\ Kept(m, holds, concrete, misplaced) /\ Live(m, First)
        /\ SameBut(machine, m, First, p) /\ h = m.space[First][p] /\ p \in Object
    BY <1>1, LookupStep, Objects
  <2>2. h # None
    BY <2>1, Objects DEF Good, Bound
  <2> QED BY <2>1, <2>2
<1>3. m.cache[First][p] # None
  BY <1>2 DEF CacheGet
<1> HIDE DEF m, h
<1>4. /\ Good(k) /\ w.object = k.space[First][p] /\ w.object \in Handle
      /\ SameBut(m, k, First, p) /\ SameAt(m, k, First, p) /\ SameCached(m, k)
  BY <1>2, Writeable
<1> DEFINE g == w.object
<1> HIDE DEF w
<1>5. CacheGet(k, First, p) = k.space[First][p]
  <2>1. k.cache[First][p] # None /\ k.cache[First][p] \in {None, k.space[First][p]}
    BY <1>3, <1>4 DEF SameCached, Good, Shortcuts
  <2> QED BY <2>1 DEF CacheGet
<1>6. Live(k, First) /\ Owns(k, First, p)
  BY <1>2, <1>4 DEF SameBut, SameAt
<1>7. v \in Value \cup {Symbolic}
  OBVIOUS
<1> HIDE DEF k
<1>8. Stored(k, WriteObject(k, g, v), First, p, v)
  BY <1>2, <1>4, <1>6, <1>7, StoredInPlace, SMTT(30)
<1>9. Stored(k, Write(k, First, p, CacheGet(k, First, p), v), First, p, v)
  BY <1>2, <1>4, <1>5, <1>6, <1>7, StoredByWrite
<1>10. Stored(k, n, First, p, v)
  BY <1>8, <1>9
<1> HIDE DEF n
<1>11. Stored(m, n, First, p, v)
  <2>1. SameBut(m, n, First, p)
    BY <1>2, <1>4, <1>10, SameButTransitive DEF Stored
  <2> QED BY <1>10, <2>1 DEF Stored
<1>12. p \in Page \cup {"registers"} /\ p # "registers"
  BY Objects
<1>13. /\ Keeps(n, First, p, v) /\ misplaced' \subseteq State
       /\ \A t \in State : t \notin misplaced' => t \notin misplaced \/ (t = First /\ p = "registers")
  BY <1>1, StoresInPlace
<1> QED BY <1>2, <1>7, <1>11, <1>12, <1>13, StoredStep

-----------------------------------------------------------------------------
(* A machine that has just booted                                             *)

\* The first state owns all it has and nothing is cached.
LEMMA BootedIsGood ==
  /\ Good(Booted) /\ OwnCpu(Booted) /\ Kept(Booted, BootedHolds, TRUE, {})
  /\ BootedHolds \in HoldsSet
  /\ \A t \in State : Live(Booted, t) <=> t = First
<1> USE StateMemoryAssumption
<1>1. \A o \in Object : <<o, 1>> \in Handle /\ <<o, 1>>[1] = o /\ <<o, 1>> # None
  <2>1. Cardinality(State) \in Nat
    BY FS_CardinalityType
  <2>2. \A o \in Object : <<o, 1>> \in Handle
    BY <2>1 DEF Handle
  <2> QED BY <2>2, Objects, Zenon
<1>2. \A h \in Handle : h[2] = 1 => h = <<h[1], 1>>
  BY DEF Handle
<1>3. \A t \in State, o \in Object : Booted.space[t][o] = IF t = First THEN <<o, 1>> ELSE None
  BY DEF Booted
<1>4. \A t \in State : Live(Booted, t) <=> t = First
  BY <1>1, <1>3, Objects, ZenonT(60) DEF Live
<1>5. Booted \in MachineSet
  BY <1>1, Objects DEF Booted, MachineSet, EmptyCache
<1>6. Bound(Booted)
  BY <1>1, <1>3, <1>4, Zenon DEF Bound
<1>7. OwnedAlone(Booted)
  <2>1. \A h \in Handle : Booted.owner[h] = IF h[2] = 1 THEN First ELSE None
    BY DEF Booted
  <2> QED BY <2>1, <1>1, <1>2, <1>3, Objects DEF OwnedAlone
<1>8. Shortcuts(Booted)
  BY <1>3, Objects DEF Shortcuts, Booted, EmptyCache
<1>9. OwnCpu(Booted)
  <2>1. \A o \in Object : Booted.owner[<<o, 1>>] = First
    BY <1>1, Zenon DEF Booted
  <2>2. ASSUME NEW o \in Object
        PROVE  Owns(Booted, First, o)
    <3>1. Booted.space[First][o] = <<o, 1>>
      BY <1>3, Zenon
    <3>2. Booted.owner[<<o, 1>>] = First /\ <<o, 1>> # None
      BY <2>1, <1>1
    <3> QED BY <3>1, <3>2 DEF Owns
  <2> QED BY <2>2, <1>4, Objects DEF OwnCpu
<1>10. Kept(Booted, BootedHolds, TRUE, {})
  <2>1. \A o \in Object : /\ Content(Booted, <<o, 1>>) = Zero
                          /\ Booted.expr[<<o, 1>>] = None /\ BootedHolds[First][o] = Zero
    BY <1>1, Zenon DEF Booted, Content, BootedHolds
  <2>2. Booted.env.registers = Zero /\ Booted.env.system = Zero
    BY DEF Booted
  <2> QED BY <2>1, <2>2, <1>3, <1>4, Objects, ZenonT(60) DEF Kept
<1>11. BootedHolds \in HoldsSet
  BY DEF BootedHolds, HoldsSet
<1> QED BY <1>4, <1>5, <1>6, <1>7, <1>8, <1>9, <1>10, <1>11, Zenon DEF Good

\* Nothing is left of a process whose assert failed.
LEMMA WriteMemorySpanningStep ==
  ASSUME NEW s, NEW offset, NEW size, WriteMemorySpanning(s, offset, size)
  PROVE  IInv'
<1>1. /\ Becomes(Booted) /\ holds' = BootedHolds /\ concrete' = TRUE /\ aborted' = TRUE
      /\ created' = {First} /\ misplaced' = {}
  BY DEF WriteMemorySpanning
<1>2. Kept(Booted, holds', concrete', misplaced')
  BY <1>1, BootedIsGood, Zenon
<1>3. Live(Booted, First) /\ \A t \in State : Live(Booted, t) => t \in created'
  BY <1>1, BootedIsGood, StateMemoryAssumption
<1> QED BY <1>1, <1>2, <1>3, BootedIsGood, MachineStep, Zenon

\* The invariant holds when the program starts.
LEMMA InitIInv ==
  Init => IInv
<1> SUFFICES ASSUME Init PROVE IInv
  OBVIOUS
<1>1. machine = Booted
  BY DEF machine, Init, Booted
<1>2. Alive \subseteq created
  BY <1>1, Fields, BootedIsGood DEF Alive, Live, Init
<1> QED BY <1>1, <1>2, BootedIsGood, StateMemoryAssumption, Zenon
        DEF IInv, HistoryInv, HoldsSet, Init

-----------------------------------------------------------------------------
(* Forks                                                                      *)

\* Machine n has everywhere what m has, and every state owns in n what it owned in m.
SameData(m, n) ==
  /\ n.env = m.env
  /\ \A t \in State : Live(n, t) <=> Live(m, t)
  /\ \A t \in State, q \in Object : Live(m, t) =>
       /\ n.byte[n.space[t][q]] = m.byte[m.space[t][q]]
       /\ n.expr[n.space[t][q]] = m.expr[m.space[t][q]]
       /\ Owns(m, t, q) => Owns(n, t, q)

\* Copying ObjectStates one after the other keeps what is in them.
LEMMA SameDataTransitive ==
  ASSUME NEW m, NEW n, NEW k, SameData(m, n), SameData(n, k)
  PROVE  SameData(m, k)
BY DEF SameData

\* An object is bound to an ObjectState that its state owns.
LEMMA BoundToOwn ==
  ASSUME NEW m, Good(m), NEW s \in State, Live(m, s), NEW o \in Object,
         NEW h, h = m.space[s][o]
  PROVE  LET n == Bind(m, s, o, h) IN
         Good(n) /\ SameBut(m, n, s, o) /\ SameData(m, n) /\ Owns(n, s, o)
<1> DEFINE w == GetWriteable(m, s, o, h)
           n == w.machine
<1>1. Good(n) /\ SameBut(m, n, s, o) /\ SameAt(m, n, s, o)
  BY Writeable
<1>2. Bind(m, s, o, h) = n
  BY DEF Bind
<1> HIDE DEF n
<1>3. SameData(m, n)
  BY <1>1 DEF SameBut, SameAt, SameData
<1> QED BY <1>1, <1>2, <1>3 DEF SameAt

\* The CPU that is in env is saved in its object, for the states that will be forked.
LEMMA BranchNotified ==
  ASSUME NEW m, Good(m), OwnCpu(m), NEW c, NEW H, NEW X, Kept(m, H, c, X), Live(m, First)
  PROVE  LET n == NotifyBranch(m) IN
         /\ Good(n) /\ OwnCpu(n) /\ Kept(n, H, c, X)
         /\ n.byte[n.space[First]["system"]] = n.env.system
         /\ \A t \in State : Live(n, t) <=> Live(m, t)
<1> USE StateMemoryAssumption
<1> DEFINE v == m.env.system
           h == m.space[First]["system"]
           k == [m EXCEPT !.byte[h] = v]
           n == Write(k, First, "system", h, v)
<1>1. m.system[First] = h /\ v \in Value /\ Owns(m, First, "system") /\ "system" \in Object
  BY Objects DEF Good, Shortcuts, MachineSet, OwnCpu
<1>2. n = NotifyBranch(m)
  BY <1>1 DEF NotifyBranch
<1>3. /\ Good(k) /\ SameBut(m, k, First, "system") /\ k.space = m.space
  BY <1>1, ByteInPlace
<1>4. Live(k, First) /\ h = k.space[First]["system"]
  BY <1>3 DEF SameBut
<1> HIDE DEF k, h
<1>5. Stored(k, n, First, "system", v) /\ n.byte[n.space[First]["system"]] = v
  BY <1>1, <1>3, <1>4, StoredByWrite, SMTT(30)
<1> HIDE DEF n
<1>6. SameBut(m, n, First, "system") /\ Good(n) /\ Owns(n, First, "system")
  BY <1>1, <1>3, <1>5, SameButTransitive DEF Stored
<1>7. \A t \in State : Live(n, t) <=> Live(m, t)
  BY <1>6 DEF SameBut
<1>8. OwnCpu(n)
  BY <1>6, <1>7, Objects DEF OwnCpu, SameBut
<1>9. Kept(n, H, c, X) /\ n.env = m.env
  <2>1. n.env = m.env
    BY <1>6 DEF SameBut
  <2>2. \A t \in State, q \in Object : Live(m, t) /\ (t # First \/ q # "system") =>
          /\ n.byte[n.space[t][q]] = m.byte[m.space[t][q]]
          /\ n.expr[n.space[t][q]] = m.expr[m.space[t][q]]
          /\ Content(n, n.space[t][q]) = Content(m, m.space[t][q])
    BY <1>6 DEF SameBut, Content
  <2> QED BY <2>1, <2>2, <1>7, Objects DEF Kept
<1> QED BY <1>2, <1>5, <1>6, <1>7, <1>8, <1>9

\* The copy has what the original has; nothing of either is owned.
LEMMA CopiedIsGood ==
  ASSUME NEW m, Good(m), NEW s \in State, Live(m, s), NEW t \in State, ~Live(m, t)
  PROVE  LET n == Copied(m, s, t) IN
         /\ Good(n) /\ n.env = m.env /\ n.byte = m.byte /\ n.expr = m.expr
         /\ n.space = [m.space EXCEPT ![t] = m.space[s]]
         /\ \A u \in State \ {s, t}, q \in Object : Owns(m, u, q) => Owns(n, u, q)
<1> USE StateMemoryAssumption
<1> DEFINE n == Copied(m, s, t)
<1>1. m \in MachineSet /\ EmptyCache \in [Page -> Handle \cup {None}] /\ s # t
  BY DEF Good, EmptyCache
<1>2. /\ n \in MachineSet
      /\ n.space = [m.space EXCEPT ![t] = m.space[s]]
      /\ n.owner = [h \in Handle |-> IF m.owner[h] = s THEN None ELSE m.owner[h]]
      /\ n.byte = m.byte /\ n.expr = m.expr /\ n.env = m.env
      /\ n.registers = [m.registers EXCEPT ![t] = m.registers[s]]
      /\ n.system = [m.system EXCEPT ![t] = m.system[s]]
      /\ n.cache = [m.cache EXCEPT ![t] = EmptyCache]
  <2> DEFINE e == EmptyCache
  <2>1. e \in [Page -> Handle \cup {None}]
    BY <1>1
  <2> HIDE DEF e
  <2>2. n = [m EXCEPT !.space[t] = m.space[s], !.registers[t] = m.registers[s],
                      !.system[t] = m.system[s], !.cache[t] = e,
                      !.owner = [h \in Handle |-> IF @[h] = s THEN None ELSE @[h]]]
    BY DEF Copied, e
  <2> HIDE DEF n
  <2>3. /\ n \in MachineSet
        /\ n.space = [m.space EXCEPT ![t] = m.space[s]]
        /\ n.owner = [h \in Handle |-> IF m.owner[h] = s THEN None ELSE m.owner[h]]
        /\ n.byte = m.byte /\ n.expr = m.expr /\ n.env = m.env
        /\ n.registers = [m.registers EXCEPT ![t] = m.registers[s]]
        /\ n.system = [m.system EXCEPT ![t] = m.system[s]]
        /\ n.cache = [m.cache EXCEPT ![t] = e]
    BY <2>1, <2>2, <1>1, ZenonT(60) DEF MachineSet
  <2> QED BY <2>3 DEF e
<1> HIDE DEF n
<1>3. \A u \in State : n.space[u] = IF u = t THEN m.space[s] ELSE m.space[u]
  BY <1>1, <1>2 DEF MachineSet
<1>4. Bound(n)
  BY <1>3 DEF Good, Bound, Live
<1>5. OwnedAlone(n)
  <2> SUFFICES ASSUME NEW h \in Handle, NEW u \in State, n.owner[h] = u
               PROVE  /\ n.space[u][h[1]] = h
                      /\ \A x \in State : n.space[x][h[1]] = h => x = u
    BY DEF OwnedAlone
  <2>1. m.owner[h] = u /\ u # s /\ h[1] \in Object /\ h # None
    BY <1>2, Objects
  <2>2. m.space[u][h[1]] = h /\ \A x \in State : m.space[x][h[1]] = h => x = u
    BY <2>1 DEF Good, OwnedAlone
  <2>3. u # t
    BY <2>1, <2>2 DEF Good, Bound
  <2> QED BY <2>1, <2>2, <2>3, <1>3
<1>6. Shortcuts(n)
  <2>1. \A u \in State, p \in Page : n.cache[u][p] \in {None, n.space[u][p]}
    BY <1>1, <1>2, <1>3 DEF Good, Shortcuts, MachineSet, EmptyCache
  <2>2. \A u \in State : /\ n.registers[u] = n.space[u]["registers"]
                         /\ n.system[u] = n.space[u]["system"]
    BY <1>1, <1>2, <1>3 DEF Good, Shortcuts, MachineSet
  <2> QED BY <2>1, <2>2 DEF Shortcuts
<1>7. \A u \in State \ {s, t}, q \in Object : Owns(m, u, q) => Owns(n, u, q)
  <2> SUFFICES ASSUME NEW u \in State \ {s, t}, NEW q \in Object, Owns(m, u, q)
               PROVE  Owns(n, u, q)
    OBVIOUS
  <2>1. m.space[u][q] \in Handle /\ m.owner[m.space[u][q]] = u
    BY DEF Owns, Good, Bound
  <2> QED BY <2>1, <1>2, <1>3 DEF Owns
<1> QED BY <1>2, <1>4, <1>5, <1>6, <1>7 DEF Good, n

\* After a fork both states own their CPU objects, and the new one has what the
\* first one had.
LEMMA ClonedIsGood ==
  ASSUME NEW m, Good(m), OwnCpu(m), NEW s \in State, Live(m, s), NEW t \in State, ~Live(m, t)
  PROVE  LET n == Clone(m, s, t) IN
         /\ Good(n) /\ OwnCpu(n) /\ n.env = m.env
         /\ \A u \in State : Live(n, u) <=> Live(m, u) \/ u = t
         /\ \A u \in State, q \in Object : Live(n, u) =>
              LET from == IF u = t THEN s ELSE u IN
              /\ n.byte[n.space[u][q]] = m.byte[m.space[from][q]]
              /\ n.expr[n.space[u][q]] = m.expr[m.space[from][q]]
<1> DEFINE k == Copied(m, s, t)
           a == Bind(k, t, "registers", m.registers[s])
           b == Bind(a, t, "system", a.system[s])
           c == Bind(b, s, "registers", b.registers[s])
           n == Bind(c, s, "system", c.system[s])
<1>1. "registers" \in Object /\ "system" \in Object /\ s # t
  BY Objects
<1>2. n = Clone(m, s, t)
  BY DEF Clone
<1>3. /\ Good(k) /\ k.env = m.env /\ k.byte = m.byte /\ k.expr = m.expr
      /\ k.space = [m.space EXCEPT ![t] = m.space[s]]
      /\ \A u \in State \ {s, t}, q \in Object : Owns(m, u, q) => Owns(k, u, q)
  BY CopiedIsGood
<1> HIDE DEF k
<1>4. \A u \in State : k.space[u] = IF u = t THEN m.space[s] ELSE m.space[u]
  BY <1>3 DEF Good, MachineSet
<1>5. /\ Live(k, t) /\ Live(k, s) /\ m.registers[s] = k.space[t]["registers"]
      /\ \A u \in State : Live(k, u) <=> Live(m, u) \/ u = t
  BY <1>4, <1>1 DEF Live, Good, Shortcuts
<1>6. /\ Good(a) /\ SameData(k, a) /\ Owns(a, t, "registers") /\ Live(a, t) /\ Live(a, s)
      /\ a.system[s] = a.space[t]["system"]
  <2>1. /\ Good(a) /\ SameBut(k, a, t, "registers") /\ SameData(k, a)
        /\ Owns(a, t, "registers")
    BY <1>1, <1>3, <1>5, BoundToOwn, Zenon
  <2>2. a.space[t]["system"] = k.space[t]["system"] /\ a.space[s]["system"] = k.space[s]["system"]
    BY <2>1, <1>1, <1>5 DEF SameBut
  <2>3. a.system[s] = a.space[s]["system"]
    BY <2>1 DEF Good, Shortcuts
  <2> QED BY <2>1, <2>2, <2>3, <1>4, <1>5, Zenon DEF SameData
<1> HIDE DEF a
<1>7. /\ Good(b) /\ SameData(a, b) /\ Owns(b, t, "system") /\ Live(b, s)
      /\ b.registers[s] = b.space[s]["registers"]
  <2>1. Good(b) /\ SameData(a, b) /\ Owns(b, t, "system")
    BY <1>1, <1>6, BoundToOwn
  <2> QED BY <2>1, <1>6, Zenon DEF SameData, Good, Shortcuts
<1> HIDE DEF b
<1>8. /\ Good(c) /\ SameData(b, c) /\ Owns(c, s, "registers") /\ Live(c, s)
      /\ c.system[s] = c.space[s]["system"]
  <2>1. Good(c) /\ SameData(b, c) /\ Owns(c, s, "registers")
    BY <1>1, <1>7, BoundToOwn
  <2> QED BY <2>1, <1>7, Zenon DEF SameData, Good, Shortcuts
<1> HIDE DEF c
<1>9. Good(n) /\ SameData(c, n) /\ Owns(n, s, "system")
  BY <1>1, <1>8, BoundToOwn
<1> HIDE DEF n
<1>10. SameData(k, b) /\ SameData(b, n)
  BY <1>6, <1>7, <1>8, <1>9, SameDataTransitive
<1>11. SameData(k, n)
  BY <1>10, SameDataTransitive
<1>12. \A u \in State : Live(n, u) <=> Live(m, u) \/ u = t
  BY <1>5, <1>11 DEF SameData
<1>13. OwnCpu(n)
  <2> SUFFICES ASSUME NEW u \in State, Live(n, u)
               PROVE  Owns(n, u, "registers") /\ Owns(n, u, "system")
    BY DEF OwnCpu
  <2>1. Live(k, u)
    BY <1>11 DEF SameData
  <2>2. CASE u = t
    <3>1. Live(a, u) /\ Live(b, u) /\ Live(c, u)
      BY <2>1, <1>6, <1>7, <1>8 DEF SameData
    <3>2. Owns(b, t, "registers")
      BY <3>1, <2>2, <1>1, <1>6, <1>7 DEF SameData
    <3> QED BY <3>1, <3>2, <2>2, <1>1, <1>7, <1>10 DEF SameData
  <2>3. CASE u = s
    BY <2>3, <1>1, <1>8, <1>9 DEF SameData
  <2>4. CASE u # s /\ u # t
    <3>1. Live(m, u)
      BY <2>4, <1>12
    <3>2. Owns(m, u, "registers") /\ Owns(m, u, "system")
      BY <3>1 DEF OwnCpu
    <3>3. Owns(k, u, "registers") /\ Owns(k, u, "system")
      BY <3>2, <2>4, <1>1, <1>3
    <3> QED BY <3>3, <2>1, <1>1, <1>11 DEF SameData
  <2> QED BY <2>2, <2>3, <2>4
<1>14. ASSUME NEW u \in State, NEW q \in Object, Live(n, u)
       PROVE  LET from == IF u = t THEN s ELSE u IN
              /\ n.byte[n.space[u][q]] = m.byte[m.space[from][q]]
              /\ n.expr[n.space[u][q]] = m.expr[m.space[from][q]]
  <2>1. Live(k, u)
    BY <1>14, <1>11 DEF SameData
  <2>2. n.byte[n.space[u][q]] = k.byte[k.space[u][q]] /\ n.expr[n.space[u][q]] = k.expr[k.space[u][q]]
    BY <2>1, <1>11 DEF SameData
  <2> QED BY <2>2, <1>3, <1>4
<1>15. n.env = m.env
  BY <1>3, <1>11 DEF SameData
<1> QED BY <1>2, <1>9, <1>12, <1>13, <1>14, <1>15

\* A fork saves the CPU, copies the state and gives both CPU objects of their own.
LEMMA ForkStep ==
  ASSUME IInv, NEW t \in State, Fork(t)
  PROVE  IInv'
<1> USE StateMemoryAssumption
<1> DEFINE m == NotifyBranch(machine)
           n == Clone(m, First, t)
           G == [holds EXCEPT ![t] = holds[First]]
<1>1. /\ ~concrete /\ concrete' = concrete /\ aborted' = aborted /\ t \notin created
      /\ created' = created \cup {t} /\ holds' = G /\ Becomes(n)
      /\ misplaced' = IF First \in misplaced THEN misplaced \cup {t} ELSE misplaced
  BY DEF Fork
<1>2. /\ Good(machine) /\ OwnCpu(machine) /\ Kept(machine, holds, concrete, misplaced)
      /\ Live(machine, First) /\ holds \in HoldsSet
  BY DEF IInv, HistoryInv, HoldsSet
<1>3. \A u \in State : Live(machine, u) => u \in created
  BY Fields DEF IInv, HistoryInv, Alive, Live
<1>4. /\ Good(m) /\ OwnCpu(m) /\ Kept(m, holds, concrete, misplaced)
      /\ m.byte[m.space[First]["system"]] = m.env.system
      /\ \A u \in State : Live(m, u) <=> Live(machine, u)
  BY <1>2, BranchNotified
<1>5. Live(m, First) /\ ~Live(m, t) /\ First # t
  BY <1>1, <1>2, <1>3, <1>4
<1> HIDE DEF m
<1>6. /\ Good(n) /\ OwnCpu(n) /\ n.env = m.env
      /\ \A u \in State : Live(n, u) <=> Live(m, u) \/ u = t
      /\ \A u \in State, q \in Object : Live(n, u) =>
           LET from == IF u = t THEN First ELSE u IN
           /\ n.byte[n.space[u][q]] = m.byte[m.space[from][q]]
           /\ n.expr[n.space[u][q]] = m.expr[m.space[from][q]]
  BY <1>4, <1>5, ClonedIsGood, SMTT(30)
<1> HIDE DEF n
<1>7. \A u \in State : G[u] = IF u = t THEN holds[First] ELSE holds[u]
  BY <1>2 DEF HoldsSet
<1>8. G \in HoldsSet
  BY <1>2 DEF HoldsSet
<1> HIDE DEF G
<1> DEFINE Y == misplaced'
<1>9. Kept(n, G, concrete, Y)
  <2> SUFFICES ASSUME NEW u \in State, Live(n, u)
               PROVE  /\ \A p \in Page : G[u][p] = Content(n, n.space[u][p])
                      /\ u \notin Y => G[u]["registers"] = Content(n, n.space[u]["registers"])
                      /\ G[u]["system"] = IF u = First THEN n.env.system
                                          ELSE n.byte[n.space[u]["system"]]
    BY <1>1 DEF Kept
  <2> DEFINE from == IF u = t THEN First ELSE u
  <2>1. Live(m, from) /\ from \in State /\ G[u] = holds[from]
    BY <1>5, <1>6, <1>7
  <2>2. u \notin Y => from \notin misplaced
    BY <1>1
  <2>3. \A q \in Object : /\ n.byte[n.space[u][q]] = m.byte[m.space[from][q]]
                          /\ n.expr[n.space[u][q]] = m.expr[m.space[from][q]]
                          /\ Content(n, n.space[u][q]) = Content(m, m.space[from][q])
    BY <1>6 DEF Content
  <2>4. /\ \A p \in Page : holds[from][p] = Content(m, m.space[from][p])
        /\ from \notin misplaced =>
             holds[from]["registers"] = Content(m, m.space[from]["registers"])
        /\ holds[from]["system"] = IF from = First THEN m.env.system
                                   ELSE m.byte[m.space[from]["system"]]
    BY <2>1, <1>1, <1>4 DEF Kept
  <2> HIDE DEF from
  <2>5. /\ \A p \in Page : G[u][p] = Content(n, n.space[u][p])
        /\ u \notin Y => G[u]["registers"] = Content(n, n.space[u]["registers"])
    BY <2>1, <2>3, <2>4, <2>2, Objects
  <2>6. G[u]["system"] = IF u = First THEN n.env.system ELSE n.byte[n.space[u]["system"]]
    BY <2>1, <2>3, <2>4, <1>4, <1>5, <1>6, Objects DEF from
  <2> QED BY <2>5, <2>6
<1>10. Live(n, First) /\ \A u \in State : Live(n, u) => u \in created'
  BY <1>1, <1>3, <1>4, <1>5, <1>6
<1>11. /\ Kept(n, holds', concrete', misplaced') /\ holds' \in HoldsSet
       /\ concrete' \in BOOLEAN /\ aborted' \in BOOLEAN /\ misplaced' \subseteq State
  BY <1>1, <1>8, <1>9 DEF IInv, HistoryInv
<1> QED BY <1>1, <1>6, <1>10, <1>11, MachineStep

\* What only the deleted state had is freed; nobody else loses anything.
LEMMA DeleteStep ==
  ASSUME IInv, NEW t \in State, Delete(t)
  PROVE  IInv'
<1> USE StateMemoryAssumption
<1> DEFINE m == machine
           gone == [o \in Object |-> None]
           e == EmptyCache
           k == [m EXCEPT !.space[t] = gone, !.cache[t] = e,
                          !.registers[t] = None, !.system[t] = None]
           n == Freed(k)
           G == [holds EXCEPT ![t] = gone]
<1>1. /\ t # First /\ Becomes(n) /\ holds' = G /\ misplaced' = misplaced \ {t}
      /\ UNCHANGED <<concrete, aborted, created>>
  BY DEF Delete
<1>2. /\ Good(m) /\ OwnCpu(m) /\ Kept(m, holds, concrete, misplaced) /\ Live(m, First)
      /\ holds \in HoldsSet /\ m \in MachineSet
  BY DEF IInv, HistoryInv, HoldsSet, Good
<1>3. \A u \in State : Live(m, u) => u \in created
  BY Fields DEF IInv, HistoryInv, Alive, Live
<1>4. e \in [Page -> Handle \cup {None}] /\ \A p \in Page : e[p] = None
  BY DEF EmptyCache
<1> HIDE DEF m, e
<1>5. /\ k \in MachineSet
      /\ k.space = [m.space EXCEPT ![t] = gone] /\ k.owner = m.owner
      /\ k.byte = m.byte /\ k.expr = m.expr /\ k.env = m.env
      /\ k.registers = [m.registers EXCEPT ![t] = None]
      /\ k.system = [m.system EXCEPT ![t] = None]
      /\ k.cache = [m.cache EXCEPT ![t] = e]
  <2>1. gone \in [Object -> Handle \cup {None}]
    OBVIOUS
  <2> HIDE DEF gone
  <2> QED BY <2>1, <1>2, <1>4, Zenon DEF MachineSet
<1> HIDE DEF k
<1>6. /\ n \in MachineSet
      /\ n.space = k.space /\ n.cache = k.cache
      /\ n.registers = k.registers /\ n.system = k.system /\ n.env = k.env
      /\ \A h \in Handle : IF h \in Unused(k) THEN n.owner[h] = None
                           ELSE /\ n.owner[h] = k.owner[h] /\ n.byte[h] = k.byte[h]
                                /\ n.expr[h] = k.expr[h]
  BY <1>5, FreedFields
<1> HIDE DEF n
<1>7. \A u \in State, q \in Object :
        n.space[u][q] = IF u = t THEN None ELSE m.space[u][q]
  BY <1>2, <1>5, <1>6 DEF MachineSet
<1>8. \A u \in State : Live(n, u) <=> Live(m, u) /\ u # t
  BY <1>7, Objects DEF Live
<1>9. Bound(n)
  BY <1>2, <1>7, <1>8 DEF Good, Bound
<1>10. \A u \in State, q \in Object : Live(n, u) =>
         /\ n.space[u][q] = m.space[u][q] /\ m.space[u][q] \in Handle
         /\ n.owner[n.space[u][q]] = m.owner[m.space[u][q]]
         /\ n.byte[n.space[u][q]] = m.byte[m.space[u][q]]
         /\ n.expr[n.space[u][q]] = m.expr[m.space[u][q]]
  <2> SUFFICES ASSUME NEW u \in State, NEW q \in Object, Live(n, u)
               PROVE  /\ n.space[u][q] = m.space[u][q] /\ m.space[u][q] \in Handle
                      /\ n.owner[n.space[u][q]] = m.owner[m.space[u][q]]
                      /\ n.byte[n.space[u][q]] = m.byte[m.space[u][q]]
                      /\ n.expr[n.space[u][q]] = m.expr[m.space[u][q]]
    OBVIOUS
  <2>1. n.space[u][q] \in Handle /\ n.space[u][q][1] = q /\ n.space[u][q] = m.space[u][q]
    BY <1>7, <1>8, <1>9 DEF Bound
  <2>2. n.space[u][q] \notin Unused(k)
    BY <2>1, <1>6 DEF Unused
  <2> QED BY <2>1, <2>2, <1>5, <1>6
<1>11. OwnedAlone(n)
  <2> SUFFICES ASSUME NEW h \in Handle, NEW u \in State, n.owner[h] = u
               PROVE  /\ n.space[u][h[1]] = h
                      /\ \A x \in State : n.space[x][h[1]] = h => x = u
    BY DEF OwnedAlone
  <2>1. h \notin Unused(k) /\ m.owner[h] = u /\ h[1] \in Object /\ h # None
    BY <1>5, <1>6, Objects
  <2>2. m.space[u][h[1]] = h /\ \A x \in State : m.space[x][h[1]] = h => x = u
    BY <2>1, <1>2 DEF Good, OwnedAlone
  <2>3. PICK x \in State : n.space[x][h[1]] = h
    BY <2>1, <1>6 DEF Unused
  <2>4. x = u /\ u # t
    BY <2>1, <2>2, <2>3, <1>7
  <2> QED BY <2>1, <2>2, <2>4, <1>7
<1>12. Shortcuts(n)
  <2>1. \A u \in State : /\ n.registers[u] = n.space[u]["registers"]
                         /\ n.system[u] = n.space[u]["system"]
    BY <1>2, <1>5, <1>6, <1>7, Objects DEF Good, Shortcuts, MachineSet
  <2>2. \A u \in State, p \in Page : n.cache[u][p] \in {None, n.space[u][p]}
    BY <1>2, <1>4, <1>5, <1>6, <1>7, Objects DEF Good, Shortcuts, MachineSet
  <2> QED BY <2>1, <2>2 DEF Shortcuts
<1>13. Good(n)
  BY <1>6, <1>9, <1>11, <1>12 DEF Good
<1>14. OwnCpu(n)
  BY <1>2, <1>8, <1>10, Objects DEF OwnCpu, Owns
<1>15. \A u \in State : G[u] = IF u = t THEN gone ELSE holds[u]
  BY <1>2 DEF HoldsSet
<1>16. G \in HoldsSet
  BY <1>2 DEF HoldsSet
<1> HIDE DEF G, gone
<1> DEFINE Y == misplaced'
<1>17. Kept(n, G, concrete, Y)
  <2>1. \A u \in State : Live(n, u) => /\ Live(m, u) /\ G[u] = holds[u] /\ n.env = m.env
                                       /\ u \notin Y => u \notin misplaced
    BY <1>1, <1>5, <1>6, <1>8, <1>15
  <2>2. \A u \in State, q \in Object : Live(n, u) =>
          Content(n, n.space[u][q]) = Content(m, m.space[u][q])
    BY <1>10 DEF Content
  <2> HIDE DEF Y
  <2> QED BY <2>1, <2>2, <1>2, <1>10, Objects DEF Kept
<1>18. Live(n, First) /\ \A u \in State : Live(n, u) => u \in created'
  BY <1>1, <1>2, <1>3, <1>8
<1>19. /\ Kept(n, holds', concrete', misplaced') /\ holds' \in HoldsSet
       /\ concrete' \in BOOLEAN /\ aborted' \in BOOLEAN /\ misplaced' \subseteq State
  BY <1>1, <1>16, <1>17 DEF IInv, HistoryInv
<1> QED BY <1>1, <1>13, <1>14, <1>18, <1>19, MachineStep

-----------------------------------------------------------------------------
(* The theorems                                                               *)

\* The inductive invariant holds in every reachable state of the program.
THEOREM Invariance == Spec => []IInv
<1> USE StateMemoryAssumption
<1>1. IInv /\ [Next]_vars => IInv'
  <2> SUFFICES ASSUME IInv, [Next]_vars PROVE IInv'
    OBVIOUS
  <2>1. ASSUME NEW s \in State, NEW v \in Value, WriteRegister(s, v)
        PROVE  IInv'
    BY <2>1, WriteRegisterStep
  <2>2. ASSUME NEW s \in State, NEW v \in Value, WriteCpuState(s, v)
        PROVE  IInv'
    BY <2>2, WriteCpuStateStep
  <2>3. ASSUME NEW s \in State, WriteRegisterSymbolic(s)
        PROVE  IInv'
    BY <2>3, WriteRegisterSymbolicStep
  <2>4. ASSUME NEW v \in Value, ReadRegisterConcrete(v)
        PROVE  IInv'
    BY <2>4, ReadRegisterConcreteStep
  <2>5. CASE SwitchToConcrete
    BY <2>5, SwitchToConcreteStep
  <2>6. CASE SwitchToSymbolic
    BY <2>6, SwitchToSymbolicStep
  <2>7. ASSUME NEW s \in State, NEW p \in Page, ReadMemory(s, p)
        PROVE  IInv'
    BY <2>7, ReadMemoryStep
  <2>8. ASSUME NEW s \in State, NEW p \in Page, NEW v \in Value \cup {Symbolic},
               WriteMemory(s, p, v) \/ ReadMemoryConcrete8(s, p, v)
        PROVE  IInv'
    BY <2>8, WriteMemoryStep, Objects DEF ReadMemoryConcrete8, WriteMemory
  <2>9. ASSUME NEW p \in Page, NEW v \in Value, ReadRamConcrete(p, v) \/ WriteRamConcrete(p, v)
        PROVE  IInv'
    BY <2>9, ReadRamConcreteStep, WriteRamConcreteStep
  <2>10. ASSUME NEW p \in Page, NEW v \in Value, DmaRead(p, v) \/ DmaWrite(p, v)
         PROVE  IInv'
    BY <2>10, DmaReadStep, DmaWriteStep
  <2>11. ASSUME NEW s, NEW offset, NEW size, WriteMemorySpanning(s, offset, size)
         PROVE  IInv'
    BY <2>11, WriteMemorySpanningStep
  <2>12. ASSUME NEW o \in Page \cup {"registers"}, NEW v \in Value \cup {Symbolic},
                Interpret(o, v)
         PROVE  IInv'
    BY <2>12, WriteMemoryStep DEF Interpret
  <2>13. ASSUME NEW t \in State, Fork(t) \/ Delete(t)
         PROVE  IInv'
    BY <2>13, ForkStep, DeleteStep
  <2>14. CASE UNCHANGED vars
    <3>1. machine' = machine /\ Alive' = Alive
      BY <2>14 DEF vars, machine, Alive
    <3>2. Good(machine)' /\ OwnCpu(machine)' /\ Kept(machine, holds, concrete, misplaced)'
      BY <3>1, <2>14 DEF vars, IInv
    <3> QED BY <3>1, <3>2, <2>14 DEF vars, IInv, HistoryInv
  <2>15. CASE Registers
    BY <2>1, <2>2, <2>3, <2>4, <2>5, <2>6, <2>15 DEF Registers
  <2>16. CASE Memory
    BY <2>7, <2>8, <2>9, <2>10, <2>11, <2>12, <2>16 DEF Memory
  <2> QED BY <2>13, <2>14, <2>15, <2>16 DEF Next
<1> QED BY InitIInv, <1>1, PTL DEF Spec

\* The variables have their types, and no state lives that was not created.
THEOREM TypeCorrect == Spec => []TypeOK
<1>1. IInv => TypeOK
  BY Fields DEF IInv, HistoryInv, Good, MachineSet, TypeOK
<1> QED BY <1>1, Invariance, PTL

\* A state reads in memory what it stored there last, through the memory cache and
\* through the address space, whatever the states it shares ObjectStates with do.
THEOREM MemoryCorrect == Spec => []MemoryKept
<1>1. IInv => MemoryKept
  <2> SUFFICES ASSUME IInv, NEW s \in Alive, NEW p \in Page
               PROVE  /\ Content(machine, space[s][p]) = holds[s][p]
                      /\ cache[s][p] # None => Content(machine, cache[s][p]) = holds[s][p]
    BY DEF MemoryKept
  <2>1. s \in State /\ Live(machine, s)
    BY AliveIsLive
  <2>2. Content(machine, space[s][p]) = holds[s][p]
    BY <2>1, Fields DEF IInv, Kept
  <2>3. cache[s][p] \in {None, space[s][p]}
    BY <2>1, Fields DEF IInv, Good, Shortcuts
  <2> QED BY <2>2, <2>3
<1> QED BY <1>1, Invariance, PTL

\* The CPU registers and the rest of the CPU are read as they were stored last, in
\* either mode, in the active state and in the others; but for the registers of a
\* state that last stored over a symbolic one while it ran concrete.
THEOREM CpuCorrect == Spec => []CpuKept
<1>1. IInv => CpuKept
  <2> SUFFICES ASSUME IInv, NEW s \in Alive
               PROVE  /\ s \notin misplaced => RegisterRead(s) = holds[s]["registers"]
                      /\ holds[s]["system"] = IF s = First THEN env.system ELSE byte[system[s]]
    BY DEF CpuKept
  <2>1. /\ s \in State /\ Live(machine, s)
        /\ registers[s] = machine.space[s]["registers"] /\ system[s] = machine.space[s]["system"]
    BY AliveIsLive
  <2>2. /\ s \notin misplaced => holds[s]["registers"] =
             IF ~(s = First /\ concrete) \/ machine.expr[machine.space[s]["registers"]] # None
               THEN Content(machine, machine.space[s]["registers"]) ELSE machine.env.registers
        /\ holds[s]["system"] =
             IF s = First THEN machine.env.system ELSE machine.byte[machine.space[s]["system"]]
    BY <2>1 DEF IInv, Kept
  <2> QED BY <2>1, <2>2, Fields DEF RunningConcrete, RegisterRead
<1> QED BY <1>1, Invariance, PTL

\* The memory cache and the two pointers to CPU objects name what the address space
\* has, and the CPU objects, which are written in place, are nobody else's.
THEOREM ShortcutsCorrect == Spec => []ShortcutsCoherent
<1>1. IInv => ShortcutsCoherent
  <2> SUFFICES ASSUME IInv, NEW s \in Alive
               PROVE  /\ \A p \in Page : cache[s][p] \in {None, space[s][p]}
                      /\ registers[s] = space[s]["registers"] /\ system[s] = space[s]["system"]
                      /\ \A t \in Alive \ {s}, o \in Object :
                           space[t][o] \notin {registers[s], system[s]}
    BY DEF ShortcutsCoherent
  <2>1. /\ s \in State /\ Live(machine, s)
        /\ registers[s] = machine.space[s]["registers"]
        /\ system[s] = machine.space[s]["system"]
        /\ Owns(machine, s, "registers") /\ Owns(machine, s, "system")
    BY AliveIsLive
  <2>2. \A p \in Page : cache[s][p] \in {None, space[s][p]}
    BY <2>1, Fields DEF IInv, Good, Shortcuts
  <2>3. /\ registers[s] \in Handle /\ owner[registers[s]] = s
        /\ system[s] \in Handle /\ owner[system[s]] = s
    BY <2>1, Fields, Objects DEF IInv, Good, Bound, Owns
  <2>4. ASSUME NEW t \in Alive \ {s}, NEW o \in Object, NEW h \in Handle, owner[h] = s
        PROVE  space[t][o] # h
    <3>1. t \in State /\ Live(machine, t)
      BY AliveIsLive
    <3>2. space[t][o][1] = o
      BY <3>1, Fields DEF IInv, Good, Bound
    <3>3. space[t][h[1]] # h
      BY <3>1, <2>1, <2>4, Fields DEF IInv, Good, OwnedAlone
    <3> QED BY <3>2, <3>3
  <2> QED BY <2>1, <2>2, <2>3, <2>4, Fields
<1> QED BY <1>1, Invariance, PTL
=============================================================================
