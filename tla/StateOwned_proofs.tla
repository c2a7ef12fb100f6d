------------------------- MODULE StateOwned_proofs --------------------------
(* What a state owns besides memory stays its own, for any number of states,  *)
(* devices, sectors, writes and events: what its plugins keep for it, and the *)
(* disk sectors it wrote.                                                     *)
EXTENDS StateOwned, FiniteSetTheorems, FunctionTheorems, SequenceTheorems, TLAPS

-----------------------------------------------------------------------------
(* The inductive invariant                                                    *)

\* The states there are, and those that are deleted when the next one is selected.
Held == live \cup deleted

LifeInv ==
  /\ live \subseteq State /\ deleted \subseteq State /\ current \in State
  /\ live \cap deleted = {}

PluginTypes ==
  /\ pluginState \in [State -> PluginState \cup {None}]
  /\ count \in [PluginState -> Nat] /\ events \in [State -> Nat]
  /\ cached \in [state : State \cup {None}, plugin : PluginState \cup {None}]

\* No two states have the same plugin state; the cache has that of a state which is
\* not deleted yet; and what a plugin counted are the events of the state's path.
PluginInv ==
  /\ PluginTypes
  /\ \A s, t \in Held : pluginState[s] # None /\ pluginState[s] = pluginState[t] => s = t
  /\ cached.state # None => /\ cached.state \in Held
                            /\ cached.plugin = pluginState[cached.state]
                            /\ cached.plugin # None
  /\ \A s \in Held : events[s] = IF pluginState[s] = None THEN 0 ELSE count[pluginState[s]]

-----------------------------------------------------------------------------
(* The plugin states                                                          *)

\* A state without a plugin state leaves one over: NewPluginState is nobody's.
LEMMA NewPluginStateIsNew ==
  ASSUME LifeInv, PluginTypes, NEW t \in State, t \notin Held \/ pluginState[t] = None
  PROVE  /\ NewPluginState \in PluginState /\ NewPluginState # None
         /\ \A s \in Held : pluginState[s] # NewPluginState
<1> USE StateOwnedAssumption
<1> DEFINE others == State \ {t}
           f == [s \in others |-> pluginState[s]]
<1>1. /\ IsFiniteSet(others) /\ Cardinality(others) = Cardinality(State) - 1
      /\ Cardinality(State) \in Nat
  BY FS_RemoveElement, FS_CardinalityType
<1>2. IsFiniteSet(PluginState) /\ Cardinality(PluginState) = Cardinality(State)
  BY <1>1, FS_Interval DEF PluginState
<1>3. \E c \in PluginState : \A s \in Held : pluginState[s] # c
  <2>1. SUFFICES ASSUME \A c \in PluginState : \E s \in Held : pluginState[s] = c
                 PROVE  FALSE
    OBVIOUS
  <2>2. None \notin PluginState
    BY <1>1 DEF PluginState
  <2>3. \A c \in PluginState : \E s \in others : f[s] = c
    BY <2>1, <2>2 DEF LifeInv, Held
  <2> DEFINE g == [c \in PluginState |-> CHOOSE s \in others : f[s] = c]
  <2>4. g \in [PluginState -> others] /\ \A c \in PluginState : f[g[c]] = c
    BY <2>3
  <2>5. \E c, d \in PluginState : c # d /\ g[c] = g[d]
    <3> HIDE DEF g, others
    <3> QED BY <1>1, <1>2, <2>4, FS_PigeonHole
  <2> QED BY <2>4, <2>5, ZenonT(60)
<1>4. PluginState \subseteq Nat
  BY <1>1 DEF PluginState
<1> QED BY <1>3, <1>4, Zenon DEF NewPluginState, Held

\* The first state has no plugin state yet.
LEMMA InitPlugins == Init => LifeInv /\ PluginInv
<1> SUFFICES ASSUME Init PROVE LifeInv /\ PluginInv
  OBVIOUS
<1> USE StateOwnedAssumption DEF Init
<1>1. LifeInv
  BY DEF LifeInv
<1>2. PluginTypes
  BY DEF PluginTypes
<1> QED BY <1>1, <1>2 DEF PluginInv, Held

\* An event is counted in the state of the one that raised it, made on demand.
LEMMA EventPlugins ==
  ASSUME LifeInv, PluginInv, NEW s \in State, Event(s)
  PROVE  PluginInv'
<1> DEFINE c == GetPluginState(s)
           made == cached.state # s /\ pluginState[s] = None
<1>1. /\ s \in live /\ s \in Held /\ s # None
      /\ events' = [events EXCEPT ![s] = @ + 1]
      /\ count' = [count EXCEPT ![c] = (IF made THEN 0 ELSE @) + 1]
      /\ pluginState' = IF made THEN [pluginState EXCEPT ![s] = c] ELSE pluginState
      /\ cached' = [state |-> s, plugin |-> c]
      /\ Held' = Held
  BY StateOwnedAssumption DEF Event, Held, life
<1>2. /\ made <=> pluginState[s] = None
      /\ c \in PluginState /\ c # None
      /\ pluginState[s] # None => c = pluginState[s]
      /\ pluginState[s] = None => \A t \in Held : pluginState[t] # c
  <2>1. CASE pluginState[s] = None
    <3>1. cached.state # s
      BY <1>1, <2>1 DEF PluginInv
    <3>2. c = NewPluginState
      BY <2>1, <3>1 DEF GetPluginState, Lookup
    <3> HIDE DEF c
    <3> QED BY <2>1, <3>1, <3>2, NewPluginStateIsNew DEF PluginInv
  <2>2. CASE pluginState[s] # None
    <3>1. c = pluginState[s]
      BY <1>1, <2>2 DEF GetPluginState, Lookup, PluginInv
    <3> HIDE DEF c
    <3> QED BY <1>1, <2>2, <3>1 DEF PluginInv, PluginTypes
  <2> QED BY <2>1, <2>2
<1> HIDE DEF c, made
<1>3. PluginTypes'
  BY <1>1, <1>2 DEF PluginInv, PluginTypes
<1>4. pluginState'[s] = c /\ \A t \in State \ {s} : pluginState'[t] = pluginState[t]
  BY <1>1, <1>2 DEF PluginInv, PluginTypes
<1>5. \A t \in Held \ {s} : pluginState[t] # c
  BY <1>1, <1>2 DEF PluginInv
<1>6. count'[c] = events'[s]
  BY <1>1, <1>2 DEF PluginInv, PluginTypes
<1>7. \A t \in Held \ {s} :
        events'[t] = IF pluginState'[t] = None THEN 0 ELSE count'[pluginState'[t]]
  BY <1>1, <1>2, <1>4, <1>5 DEF PluginInv, PluginTypes, LifeInv, Held
<1>8. \A t, u \in Held : pluginState'[t] # None /\ pluginState'[t] = pluginState'[u] => t = u
  BY <1>4, <1>5 DEF PluginInv, LifeInv, Held
<1> QED BY <1>1, <1>2, <1>3, <1>4, <1>6, <1>7, <1>8 DEF PluginInv

\* The child gets a plugin state of its own, with what the parent's had.
LEMMA ForkPlugins ==
  ASSUME LifeInv, PluginInv, NEW s \in State, NEW t \in State, Fork(s, t)
  PROVE  PluginInv'
<1> DEFINE n == NewPluginState
<1>1. /\ s \in live /\ s \in Held /\ t \notin Held /\ s # t
      /\ Held' = Held \cup {t} /\ Held \subseteq State
      /\ pluginState' = [pluginState EXCEPT ![t] = IF pluginState[s] = None THEN None ELSE n]
      /\ count' = IF pluginState[s] = None THEN count
                  ELSE [count EXCEPT ![n] = count[pluginState[s]]]
      /\ events' = [events EXCEPT ![t] = events[s]]
      /\ cached' = cached
  BY DEF Fork, Held, LifeInv
<1>2. n \in PluginState /\ n # None /\ \A u \in Held : pluginState[u] # n
  BY <1>1, NewPluginStateIsNew DEF PluginInv
<1> HIDE DEF n
<1>3. PluginTypes'
  BY <1>1, <1>2 DEF PluginInv, PluginTypes
<1>4. /\ pluginState'[t] = IF pluginState[s] = None THEN None ELSE n
      /\ \A u \in Held : pluginState'[u] = pluginState[u]
  BY <1>1 DEF PluginInv, PluginTypes
<1>5. \A u, v \in Held' : pluginState'[u] # None /\ pluginState'[u] = pluginState'[v] => u = v
  BY <1>1, <1>2, <1>4 DEF PluginInv
<1>6. \A u \in Held :
        events'[u] = IF pluginState'[u] = None THEN 0 ELSE count'[pluginState'[u]]
  BY <1>1, <1>2, <1>4 DEF PluginInv, PluginTypes
<1>7. events'[t] = IF pluginState'[t] = None THEN 0 ELSE count'[pluginState'[t]]
  BY <1>1, <1>2, <1>4 DEF PluginInv, PluginTypes
<1>8. cached'.state # None => /\ cached'.state \in Held'
                              /\ cached'.plugin = pluginState'[cached'.state]
                              /\ cached'.plugin # None
  BY <1>1, <1>4 DEF PluginInv
<1> QED BY <1>1, <1>3, <1>5, <1>6, <1>7, <1>8 DEF PluginInv

\* A deleted state goes, its plugin state goes with it, and the cache is refreshed.
LEMMA SelectPlugins ==
  ASSUME LifeInv, PluginInv, NEW t \in State, SelectNextState(t)
  PROVE  PluginInv'
<1>1. /\ Held' = live /\ live \subseteq State /\ live \cap deleted = {}
      /\ cached' = IF deleted = {} THEN cached ELSE [state |-> None, plugin |-> None]
      /\ pluginState' = [s \in State |-> IF s \in deleted THEN None ELSE pluginState[s]]
      /\ events' = [s \in State |-> IF s \in deleted THEN 0 ELSE events[s]]
      /\ count' = count
  BY DEF SelectNextState, RefreshPlugins, Held, LifeInv
<1>2. PluginTypes'
  BY <1>1 DEF PluginInv, PluginTypes
<1>3. \A s \in live : pluginState'[s] = pluginState[s] /\ events'[s] = events[s]
  BY <1>1
<1>4. cached'.state # None => /\ cached'.state \in Held'
                              /\ cached'.plugin = pluginState'[cached'.state]
                              /\ cached'.plugin # None
  BY <1>1, <1>3 DEF PluginInv, Held
<1> QED BY <1>1, <1>2, <1>3, <1>4 DEF PluginInv, Held


\* A step that is not about plugins does nothing to them.
LEMMA SamePlugins ==
  ASSUME LifeInv, PluginInv, UNCHANGED plugins, Held' = Held
  PROVE  PluginInv'
  BY DEF PluginInv, PluginTypes, plugins

-----------------------------------------------------------------------------
(* The addresses of sectors                                                   *)

\* No device is numbered twice.
DeviceInv ==
  /\ blockDevices \in Seq(Device)
  /\ \A i, j \in 1 .. Len(blockDevices) : blockDevices[i] = blockDevices[j] => i = j

\* A device that was used has the number under which it is in the list, another the
\* next one; and there are no more numbers than devices.
LEMMA DeviceId ==
  ASSUME DeviceInv, NEW d \in Device
  PROVE  /\ Len(blockDevices) \in Nat /\ GetBlockDeviceId(d) \in 1 .. Cardinality(Device)
         /\ d \in Range(blockDevices) =>
              /\ GetBlockDeviceId(d) \in 1 .. Len(blockDevices)
              /\ blockDevices[GetBlockDeviceId(d)] = d
         /\ d \notin Range(blockDevices) => GetBlockDeviceId(d) = Len(blockDevices) + 1
<1> DEFINE n == Len(blockDevices)
<1>1. n \in Nat /\ DOMAIN blockDevices = 1 .. n /\ blockDevices \in [1 .. n -> Device]
  BY LenProperties DEF DeviceInv
<1>2. d \in Range(blockDevices) <=> \E i \in 1 .. n : blockDevices[i] = d
  BY <1>1 DEF Range
<1>3. CASE d \in Range(blockDevices)
  <2>1. GetBlockDeviceId(d) \in 1 .. n /\ blockDevices[GetBlockDeviceId(d)] = d
    BY <1>1, <1>2, <1>3 DEF GetBlockDeviceId
  <2>2. blockDevices \in Injection(1 .. n, Device)
    BY <1>1, Fun_IsInj DEF DeviceInv
  <2>3. Cardinality(1 .. n) <= Cardinality(Device)
    BY <2>2, FS_Injection, StateOwnedAssumption
  <2>4. Cardinality(1 .. n) = n
    BY <1>1, FS_Interval, SMTT(30)
  <2>5. Cardinality(Device) \in Nat
    BY FS_CardinalityType, StateOwnedAssumption
  <2> QED BY <1>1, <1>3, <2>1, <2>3, <2>4, <2>5
<1>4. CASE d \notin Range(blockDevices)
  <2>1. GetBlockDeviceId(d) = n + 1
    BY <1>1, <1>2, <1>4 DEF GetBlockDeviceId
  <2> DEFINE f == [i \in 1 .. n + 1 |-> IF i = n + 1 THEN d ELSE blockDevices[i]]
  <2>2. f \in [1 .. n + 1 -> Device] /\ \A i, j \in 1 .. n + 1 : f[i] = f[j] => i = j
    BY <1>1, <1>2, <1>4 DEF DeviceInv
  <2>3. f \in Injection(1 .. n + 1, Device)
    BY <2>2, Fun_IsInj
  <2>4. Cardinality(1 .. n + 1) <= Cardinality(Device)
    BY <2>3, FS_Injection, StateOwnedAssumption
  <2>5. Cardinality(1 .. n + 1) = n + 1
    BY <1>1, FS_Interval
  <2>6. Cardinality(Device) \in Nat
    BY FS_CardinalityType, StateOwnedAssumption
  <2> QED BY <1>1, <1>4, <2>1, <2>4, <2>5, <2>6
<1> QED BY <1>3, <1>4

\* Asking for a device gives it a number that no other has.
LEMMA Registers ==
  ASSUME DeviceInv, NEW d \in Device, blockDevices' = Registered(d)
  PROVE  DeviceInv'
<1> DEFINE n == Len(blockDevices)
<1>1. n \in Nat /\ DOMAIN blockDevices = 1 .. n /\ blockDevices \in [1 .. n -> Device]
  BY LenProperties DEF DeviceInv
<1>2. CASE blockDevices' = blockDevices
  BY <1>2 DEF DeviceInv
<1>3. CASE blockDevices' = Append(blockDevices, d) /\ d \notin Range(blockDevices)
  <2>1. /\ blockDevices' \in Seq(Device) /\ Len(blockDevices') = n + 1
        /\ \A i \in 1 .. n : blockDevices'[i] = blockDevices[i]
        /\ blockDevices'[n + 1] = d
    BY <1>1, <1>3, AppendProperties DEF DeviceInv
  <2>2. \A i \in 1 .. n : blockDevices[i] # d
    BY <1>1, <1>3 DEF Range
  <2> HIDE DEF n
  <2>3. \A i \in 1 .. n + 1 : i \in 1 .. n \/ i = n + 1
    BY <1>1
  <2>4. \A i, j \in 1 .. n : blockDevices[i] = blockDevices[j] => i = j
    BY DEF DeviceInv, n
  <2>5. ASSUME NEW i \in 1 .. n + 1, NEW j \in 1 .. n + 1, blockDevices'[i] = blockDevices'[j]
        PROVE  i = j
    BY <2>1, <2>2, <2>3, <2>4, <2>5, Zenon
  <2> QED BY <2>1, <2>5 DEF DeviceInv
<1>4. d \in Range(blockDevices) => blockDevices' = blockDevices
  <2>1. SUFFICES ASSUME d \in Range(blockDevices) PROVE blockDevices' = blockDevices
    OBVIOUS
  <2>2. ~(GetBlockDeviceId(d) > Len(blockDevices))
    BY <1>1, <2>1, DeviceId
  <2> QED BY <2>2, Zenon DEF Registered
<1>5. blockDevices' = blockDevices \/ blockDevices' = Append(blockDevices, d)
  BY Zenon DEF Registered
<1> QED BY <1>2, <1>3, <1>4, <1>5

\* A product of natural numbers is not negative.
LEMMA Products == \A u, v \in Nat : u * v >= 0
  OBVIOUS

\* The sectors of every device have addresses, however much room a device is given.
LEMMA Placed ==
  ASSUME DeviceInv, NEW d \in Device
  PROVE  /\ GetBlockDeviceStart(d) \in Nat
         /\ \A n \in Sector : n \in Nat /\ GetBlockDeviceStart(d) + n \in Address
<1> DEFINE i == GetBlockDeviceId(d)
           c == Cardinality(Device)
           b == BlockDevAS
<1>1. i \in 1 .. c /\ c \in Nat /\ b \in Nat /\ LastSector \in Nat
  BY DeviceId, FS_CardinalityType, StateOwnedAssumption
<1>2. /\ GetBlockDeviceStart(d) = (i - 1) * b
      /\ Sector = 0 .. LastSector /\ Address = 0 .. b * c + LastSector
  BY DEF GetBlockDeviceStart, Sector, Address
<1> HIDE DEF i, c, b
<1>3. i - 1 \in Nat /\ c - (i - 1) \in Nat /\ i \in Int
  BY <1>1
<1>4. (i - 1) * b >= 0 /\ (c - (i - 1)) * b >= 0
  BY <1>1, <1>3, Products
<1>5. b * c = (i - 1) * b + (c - (i - 1)) * b
  BY <1>1, <1>3
<1> DEFINE x == (i - 1) * b
           y == (c - (i - 1)) * b
<1>6. x \in Int /\ y \in Int
  BY <1>1, <1>3
<1> HIDE DEF x, y
<1>7. x \in Nat /\ \A n \in 0 .. LastSector : n \in Nat /\ x + n \in 0 .. x + y + LastSector
  BY <1>1, <1>4, <1>6 DEF x, y
<1> QED BY <1>2, <1>5, <1>7 DEF x, y

-----------------------------------------------------------------------------
(* The objects of the sectors                                                 *)

DiskTypes ==
  /\ DeviceInv
  /\ sectors \in [State -> [Address -> Object \cup {None}]]
  /\ owned \in [State -> SUBSET Object]
  /\ content \in [Object -> Data \cup {None}]
  /\ stored \in [State -> [Address -> Data \cup {None}]]

\* What a state has at an address.
Holds(s, a) == IF sectors[s][a] # None THEN content[sectors[s][a]] ELSE None

\* No two addresses of a state are in one object; an object that a state may write in
\* place is at one of its addresses and in no other state; and every state has at an
\* address what its path wrote there last.
DiskInv ==
  /\ DiskTypes
  /\ \A s \in Held : \A a, b \in Address :
       sectors[s][a] # None /\ sectors[s][a] = sectors[s][b] => a = b
  /\ \A s \in Held : \A o \in owned[s] : \E a \in Address : sectors[s][a] = o
  /\ \A s, t \in Held : \A o \in owned[s] : \A a \in Address : sectors[t][a] = o => t = s
  /\ \A s \in Held : \A a \in Address : Holds(s, a) = stored[s][a]

\* The types of the pools, from the assumption on the constants.
LEMMA Constants ==
  /\ Cardinality(State) \in Nat /\ Cardinality(Device) \in Nat
  /\ Cardinality(Address) \in Nat /\ IsFiniteSet(Address)
  /\ Address \subseteq Nat /\ Object \subseteq Nat /\ None \notin Object
  /\ Cardinality(Address) >= LastSector + 1
<1>1. Cardinality(State) \in Nat /\ Cardinality(Device) \in Nat
  BY FS_CardinalityType, StateOwnedAssumption
<1> DEFINE top == BlockDevAS * Cardinality(Device) + LastSector
<1>2. top \in Int /\ top >= LastSector
  <2>1. /\ BlockDevAS * Cardinality(Device) >= 0
        /\ BlockDevAS * Cardinality(Device) \in Int /\ LastSector \in Int
    BY <1>1, Products, StateOwnedAssumption
  <2> QED BY <2>1
<1>3. IsFiniteSet(Address) /\ Cardinality(Address) = top + 1
  <2>1. Address = 0 .. top /\ top >= 0
    BY <1>2, StateOwnedAssumption DEF Address
  <2> HIDE DEF top
  <2> QED BY <1>2, <2>1, FS_Interval
<1>4. Cardinality(Address) \in Nat
  BY <1>3, FS_CardinalityType
<1>5. Address \subseteq Nat
  BY <1>2 DEF Address
<1>6. (Cardinality(State) + 1) * Cardinality(Address) \in Int
  BY <1>1, <1>4
<1>7. Object \subseteq Nat
  BY <1>6 DEF Object
<1>8. None \notin Object
  BY <1>7, StateOwnedAssumption, Zenon
<1>9. Cardinality(Address) >= LastSector + 1
  BY <1>2, <1>3, StateOwnedAssumption
<1> QED BY <1>1, <1>3, <1>4, <1>5, <1>7, <1>8, <1>9

\* There are more objects than sectors of all states, by a row of addresses: a write
\* to sectors of one device finds new objects for all of them.
LEMMA FreshExists ==
  ASSUME LifeInv, DiskTypes, NEW first \in Sector, NEW last \in Sector
  PROVE  /\ Fresh(first .. last) \in [first .. last -> Object \ InUse]
         /\ \A n, m \in first .. last :
              Fresh(first .. last)[n] = Fresh(first .. last)[m] => n = m
<1> USE StateOwnedAssumption
<1> DEFINE pairs == State \X Address
           held == [p \in pairs |-> sectors[p[1]][p[2]]]
           used == Range(held)
           free == Object \ used
           c == Cardinality(State)
           a == Cardinality(Address)
<1>1. IsFiniteSet(pairs) /\ Cardinality(pairs) = c * a
  BY Constants, FS_Product
<1>2. IsFiniteSet(used) /\ Cardinality(used) <= c * a
  <2>1. held \in [pairs -> Object \cup {None}]
    BY DEF DiskTypes
  <2>2. held \in Surjection(pairs, used)
    <3> HIDE DEF held, pairs
    <3> QED BY <2>1, Fun_RangeProperties, Zenon
  <2> HIDE DEF held, pairs, used
  <2>3. IsFiniteSet(used) /\ Cardinality(used) <= Cardinality(pairs)
    BY <1>1, <2>2, FS_Surjection
  <2> QED BY <1>1, <2>3
<1>3. IsFiniteSet(Object) /\ Cardinality(Object) = (c + 1) * a
  <2>1. (c + 1) * a \in Int /\ (c + 1) * a >= 0
    BY Constants, Products
  <2> QED BY <2>1, FS_Interval DEF Object
<1>4. IsFiniteSet(free) /\ Cardinality(free) \in Nat /\ Cardinality(free) >= a
  <2>1. /\ IsFiniteSet(free)
        /\ Cardinality(free) = Cardinality(Object) - Cardinality(Object \cap used)
    BY <1>3, FS_Difference, Zenon
  <2>2. Cardinality(Object \cap used) <= Cardinality(used) /\ IsFiniteSet(Object \cap used)
    BY <1>2, FS_Intersection, Zenon
  <2>3. /\ Cardinality(Object \cap used) \in Nat /\ Cardinality(used) \in Nat
        /\ Cardinality(free) \in Nat
    BY <1>2, <2>1, <2>2, FS_CardinalityType
  <2>4. c \in Nat /\ a \in Nat
    BY Constants
  <2> HIDE DEF c, a, free, used
  <2>5. (c + 1) * a = c * a + a /\ c * a \in Int
    BY <2>4
  <2> QED BY <1>2, <1>3, <2>1, <2>2, <2>3, <2>4, <2>5
<1>5. /\ a >= LastSector + 1 /\ a \in Nat /\ LastSector \in Nat
      /\ first \in 0 .. LastSector /\ last \in 0 .. LastSector
  BY Constants DEF Sector
<1>6. PICK f \in Bijection(1 .. Cardinality(free), free) : TRUE
  BY <1>4, FS_CardinalityType, Zenon DEF ExistsBijection
<1>7. /\ f \in [1 .. Cardinality(free) -> free]
      /\ \A i, j \in 1 .. Cardinality(free) : f[i] = f[j] => i = j
  <2> HIDE DEF free
  <2> QED BY <1>6, Fun_BijectionProperties, ZenonT(60)
<1> DEFINE new == [n \in first .. last |-> f[n - first + 1]]
<1>8. free \subseteq Object \ InUse
  <2>1. \A s \in State, x \in Address : sectors[s][x] \in used
    <3>1. \A s \in State, x \in Address :
            <<s, x>> \in DOMAIN held /\ held[<<s, x>>] = sectors[s][x]
      OBVIOUS
    <3> HIDE DEF held
    <3> QED BY <3>1, Zenon DEF Range
  <2>2. InUse \subseteq used
    <3> HIDE DEF used
    <3> QED BY <2>1 DEF InUse, LifeInv
  <2> QED BY <2>2, Zenon
<1> HIDE DEF free, a
<1>9. \A n \in first .. last : n - first + 1 \in 1 .. Cardinality(free)
  BY <1>4, <1>5
<1>10. /\ new \in [first .. last -> Object \ InUse]
       /\ \A n, m \in first .. last : new[n] = new[m] => n = m
  <2> HIDE DEF pairs, held, used
  <2> DEFINE k == Cardinality(free)
  <2> HIDE DEF k
  <2>1. ASSUME NEW n \in first .. last
        PROVE  n \in Int /\ n - first + 1 \in 1 .. k /\ first \in Int
    <3>1. n \in Int /\ first \in Int
      BY <1>5
    <3>2. n - first + 1 \in 1 .. k
      BY <1>9, Zenon DEF k
    <3> QED BY <3>1, <3>2
  <2>2. f \in [1 .. k -> free] /\ \A i, j \in 1 .. k : f[i] = f[j] => i = j
    BY <1>7 DEF k
  <2>3. \A n \in first .. last : new[n] = f[n - first + 1] /\ f[n - first + 1] \in free
    BY <2>1, <2>2
  <2>4. new \in [first .. last -> Object \ InUse]
    BY <1>8, <2>3, Zenon
  <2>5. ASSUME NEW n \in first .. last, NEW m \in first .. last, new[n] = new[m]
        PROVE  n = m
    <3>1. n - first + 1 = m - first + 1
      BY <2>1, <2>2, <2>3, <2>5
    <3> QED BY <2>1, <3>1
  <2> QED BY <2>4, <2>5, Zenon
<1> HIDE DEF new
<1>11. \E g \in [first .. last -> Object \ InUse] : IsInjective(g)
  BY <1>10 DEF IsInjective
<1>12. /\ Fresh(first .. last) \in [first .. last -> Object \ InUse]
       /\ IsInjective(Fresh(first .. last))
  <2> DEFINE all == [first .. last -> Object \ InUse]
  <2> HIDE DEF all
  <2>1. \E g \in all : IsInjective(g)
    BY <1>11 DEF all
  <2>2. Fresh(first .. last) = CHOOSE g \in all : IsInjective(g)
    BY Zenon DEF Fresh, all
  <2>3. Fresh(first .. last) \in all /\ IsInjective(Fresh(first .. last))
    BY <2>1, <2>2
  <2> QED BY <2>3 DEF all
<1> QED BY <1>12 DEF IsInjective

\* No sector is written at first.
LEMMA InitDisk == Init => DiskInv
<1> SUFFICES ASSUME Init PROVE DiskInv
  OBVIOUS
<1> USE StateOwnedAssumption DEF Init
<1>1. DeviceInv
  BY EmptySeq DEF DeviceInv
<1>2. DiskTypes
  BY <1>1 DEF DiskTypes
<1>3. \A s \in State, a \in Address : sectors[s][a] = None /\ stored[s][a] = None
  OBVIOUS
<1>4. \A s \in Held : s \in State /\ owned[s] = {}
  BY DEF Held
<1> QED BY <1>2, <1>3, <1>4 DEF DiskInv, Holds

\* Asking for a device changes nothing that is stored.
LEMMA ReadDisk ==
  ASSUME LifeInv, DiskInv, NEW d \in Device, DiskRead(d)
  PROVE  DiskInv'
<1>1. /\ blockDevices' = Registered(d) /\ Held' = Held
      /\ UNCHANGED <<sectors, owned, content, stored>>
  BY DEF DiskRead, life, Held
<1>2. DiskTypes'
  BY <1>1, Registers DEF DiskInv, DiskTypes
<1> QED BY <1>1, <1>2 DEF DiskInv, Holds

\* A step that is not about the disk does nothing to it.
LEMMA SameDisk ==
  ASSUME LifeInv, DiskInv, UNCHANGED disk, Held' = Held
  PROVE  DiskInv'
<1>1. DiskTypes'
  BY DEF DiskInv, DiskTypes, DeviceInv, disk
<1>2. UNCHANGED <<sectors, owned, content, stored>>
  BY DEF disk
<1> QED BY <1>1, <1>2 DEF DiskInv, Holds

\* The child shares the objects of the parent, and neither may write them in place.
LEMMA ForkDisk ==
  ASSUME LifeInv, DiskInv, NEW s \in State, NEW t \in State, Fork(s, t)
  PROVE  DiskInv'
<1>1. /\ s \in Held /\ t \notin Held /\ s # t /\ Held \subseteq State
      /\ Held' = Held \cup {t}
      /\ sectors' = [sectors EXCEPT ![t] = sectors[s]]
      /\ owned' = [owned EXCEPT ![s] = {}, ![t] = {}]
      /\ stored' = [stored EXCEPT ![t] = stored[s]]
      /\ UNCHANGED <<blockDevices, content>>
  BY DEF Fork, Held, LifeInv
<1>2. DiskTypes'
  BY <1>1, Zenon DEF DiskInv, DiskTypes, DeviceInv
<1>3. /\ sectors'[t] = sectors[s] /\ stored'[t] = stored[s]
      /\ owned'[t] = {} /\ owned'[s] = {}
      /\ \A u \in Held : sectors'[u] = sectors[u] /\ stored'[u] = stored[u]
      /\ \A u \in Held \ {s} : owned'[u] = owned[u]
  BY <1>1 DEF DiskInv, DiskTypes
<1>5. \A u \in Held', a \in Address : Holds(u, a)' = stored'[u][a]
  BY <1>1, <1>3 DEF DiskInv, Holds
<1>6. \A u \in Held' : \A a, b \in Address :
        sectors'[u][a] # None /\ sectors'[u][a] = sectors'[u][b] => a = b
  BY <1>1, <1>3 DEF DiskInv
<1>8. ASSUME NEW u \in Held', NEW o \in owned'[u]
      PROVE  /\ \E a \in Address : sectors'[u][a] = o
             /\ \A v \in Held' : \A a \in Address : sectors'[v][a] = o => v = u
  <2>1. u \in Held /\ u # s /\ o \in owned[u]
    BY <1>1, <1>3, Zenon
  <2>2. \E a \in Address : sectors[u][a] = o
    BY <2>1 DEF DiskInv
  <2>3. \A v \in Held : \A a \in Address : sectors[v][a] = o => v = u
    BY <2>1 DEF DiskInv
  <2> QED BY <1>1, <1>3, <2>1, <2>2, <2>3
<1> QED BY <1>2, <1>5, <1>6, <1>8 DEF DiskInv

\* What the deleted states had goes.
LEMMA SelectDisk ==
  ASSUME LifeInv, DiskInv, NEW t \in State, SelectNextState(t)
  PROVE  DiskInv'
<1>1. /\ Held' = live /\ live \subseteq State /\ live \cap deleted = {} /\ live \subseteq Held
      /\ sectors' = [s \in State |-> IF s \in deleted THEN [a \in Address |-> None]
                                     ELSE sectors[s]]
      /\ owned' = [s \in State |-> IF s \in deleted THEN {} ELSE owned[s]]
      /\ stored' = [s \in State |-> IF s \in deleted THEN [a \in Address |-> None]
                                     ELSE stored[s]]
      /\ UNCHANGED <<blockDevices, content>>
  BY DEF SelectNextState, Held, LifeInv
<1>2. DiskTypes'
  BY <1>1 DEF DiskInv, DiskTypes, DeviceInv
<1>3. \A s \in live : /\ sectors'[s] = sectors[s] /\ owned'[s] = owned[s]
                      /\ stored'[s] = stored[s]
  BY <1>1
<1> QED BY <1>1, <1>2, <1>3 DEF DiskInv, Holds

\* A write takes for each sector the object that is this state's alone, or a new one:
\* what the other states read, and the other sectors, stay as they are.
LEMMA WriteDisk ==
  ASSUME LifeInv, DiskInv, NEW d \in Device, NEW first \in Sector, NEW last \in Sector,
         NEW v \in Data, DiskWrite(d, first, last, v)
  PROVE  DiskInv'
<1> DEFINE s == current
           at0 == GetBlockDeviceStart(d)
           ns == first .. last
           new == Fresh(ns)
           to == [n \in ns |-> GetWriteable(s, sectors[s][at0 + n], new[n])]
           now == {to[n] : n \in ns}
           area == {at0 + n : n \in ns}
<1>1. /\ s \in live /\ s \in Held /\ s \in State /\ Held \subseteq State /\ Held' = Held
      /\ stored' = [stored EXCEPT ![s] =
                      [a \in Address |-> IF a - at0 \in ns THEN v ELSE @[a]]]
      /\ WriteSector(s, d, first, last, v)
  BY Zenon DEF DiskWrite, life, Held, LifeInv
<1>2. /\ blockDevices' = Registered(d)
      /\ sectors' = [sectors EXCEPT ![s] = [a \in Address |->
                       IF a \in area THEN to[a - (at0 + 0)] ELSE @[a]]]
      /\ content' = [o \in Object |-> IF o \in now THEN v ELSE content[o]]
      /\ owned' = [owned EXCEPT ![s] = @ \cup now]
  BY <1>1, Zenon DEF WriteSector
<1>3. ns \subseteq Sector /\ ns \subseteq Int
  BY StateOwnedAssumption DEF Sector
<1>4. /\ DeviceInv /\ DiskTypes /\ at0 \in Nat
      /\ \A n \in Sector : n \in Nat /\ at0 + n \in Address
  BY Placed DEF DiskInv, DiskTypes
<1>5. /\ new \in [ns -> Object \ InUse]
      /\ \A n, m \in ns : new[n] = new[m] => n = m
  BY <1>3, <1>4, FreshExists
<1>6. \A n \in ns : /\ at0 + n \in Address
                    /\ to[n] = IF sectors[s][at0 + n] \in owned[s]
                               THEN sectors[s][at0 + n] ELSE new[n]
  BY <1>3, <1>4 DEF GetWriteable
<1>7. \A t \in Held, a \in Address : sectors[t][a] \in InUse
  BY DEF InUse, Held
<1> HIDE DEF new, to, now, area, at0, ns, s
<1>8. ASSUME NEW n \in ns
      PROVE  /\ to[n] \in Object
             /\ \A t \in Held : \A a \in Address : sectors[t][a] = to[n] => t = s /\ a = at0 + n
  <2>1. CASE sectors[s][at0 + n] \in owned[s]
    <3>1. to[n] = sectors[s][at0 + n] /\ to[n] \in owned[s] /\ to[n] \in Object /\ to[n] # None
      BY <1>1, <1>4, <1>6, <2>1, Constants DEF DiskTypes
    <3>2. \A t \in Held : \A a \in Address : sectors[t][a] = to[n] => t = s
      BY <1>1, <3>1 DEF DiskInv
    <3>3. \A a \in Address : sectors[s][a] = to[n] => a = at0 + n
      BY <1>1, <1>6, <3>1 DEF DiskInv
    <3> QED BY <3>1, <3>2, <3>3
  <2>2. CASE sectors[s][at0 + n] \notin owned[s]
    <3>1. to[n] = new[n] /\ new[n] \in Object \ InUse
      BY <1>5, <1>6, <2>2
    <3> QED BY <1>7, <3>1
  <2> QED BY <2>1, <2>2
<1>9. ASSUME NEW n \in ns, NEW m \in ns, to[n] = to[m]
      PROVE  n = m
  <2>0. n \in Nat /\ m \in Nat /\ at0 \in Nat
    BY <1>3, <1>4
  <2>1. CASE sectors[s][at0 + n] \in owned[s]
    <3>1. at0 + n = at0 + m
      BY <1>1, <1>6, <1>8, <1>9, <2>1
    <3> QED BY <2>0, <3>1
  <2>2. CASE sectors[s][at0 + m] \in owned[s]
    <3>1. at0 + m = at0 + n
      BY <1>1, <1>6, <1>8, <1>9, <2>2
    <3> QED BY <2>0, <3>1
  <2>3. CASE sectors[s][at0 + n] \notin owned[s] /\ sectors[s][at0 + m] \notin owned[s]
    BY <1>5, <1>6, <1>9, <2>3
  <2> QED BY <2>1, <2>2, <2>3
<1>10. /\ \A n \in ns : sectors'[s][at0 + n] = to[n]
       /\ \A a \in Address \ area : sectors'[s][a] = sectors[s][a]
       /\ \A t \in State \ {s} : sectors'[t] = sectors[t]
       /\ \A n \in ns : at0 + n \in area /\ n \in Nat
       /\ \A a \in area : \E n \in ns : a = at0 + n
  <2>1. \A n \in ns : n \in Nat /\ (at0 + n) - (at0 + 0) = n
    BY <1>3, <1>4
  <2>2. \A n \in ns : at0 + n \in area
    BY DEF area
  <2>3. sectors'[s] = [a \in Address |-> IF a \in area THEN to[a - (at0 + 0)] ELSE sectors[s][a]]
    BY <1>1, <1>2, <1>4 DEF DiskTypes
  <2>4. \A t \in State \ {s} : sectors'[t] = sectors[t]
    BY <1>2, <1>4 DEF DiskTypes
  <2>5. \A a \in area : \E n \in ns : a = at0 + n
    BY DEF area
  <2>6. ASSUME NEW n \in ns PROVE sectors'[s][at0 + n] = to[n]
    <3> DEFINE a == at0 + n
    <3>1. a \in Address /\ a \in area /\ a - (at0 + 0) = n
      BY <1>6, <2>1, <2>2
    <3> HIDE DEF a
    <3>2. sectors'[s][a] = to[a - (at0 + 0)]
      BY <2>3, <3>1
    <3> QED BY <3>1, <3>2 DEF a
  <2> QED BY <2>1, <2>2, <2>3, <2>4, <2>5, <2>6
<1>11. /\ owned'[s] = owned[s] \cup now /\ \A t \in State \ {s} : owned'[t] = owned[t]
       /\ \A o \in now : \E n \in ns : o = to[n]
       /\ \A n \in ns : to[n] \in now
  BY <1>1, <1>2, <1>4 DEF DiskTypes, now
<1>12. \A o \in Object : content'[o] = IF o \in now THEN v ELSE content[o]
  BY <1>2
<1>13. \A t \in State : \A a \in Address :
         stored'[t][a] = IF t = s /\ a \in area THEN v ELSE stored[t][a]
  <2>1. \A a \in Address : a - at0 \in ns <=> a \in area
    <3>1. \A a \in Address : a \in Int
      BY Constants
    <3>2. \A a \in Address : a - at0 \in ns => a = at0 + (a - at0)
      BY <1>4, <3>1
    <3>3. \A n \in ns : (at0 + n) - at0 = n
      BY <1>3, <1>4
    <3>4. \A a \in Address : a - at0 \in ns => a \in area
      BY <3>2 DEF area
    <3>5. \A a \in area : a - at0 \in ns
      BY <1>10, <3>3
    <3> QED BY <3>4, <3>5
  <2>2. \A a \in Address :
          stored'[s][a] = IF a - at0 \in ns THEN v ELSE stored[s][a]
    BY <1>1, <1>4 DEF DiskTypes
  <2>3. \A t \in State \ {s} : stored'[t] = stored[t]
    BY <1>1, <1>4 DEF DiskTypes
  <2> QED BY <2>1, <2>2, <2>3
<1>14. DiskTypes'
  <2>1. DeviceInv'
    BY <1>2, <1>4, Registers
  <2>2. sectors' \in [State -> [Address -> Object \cup {None}]]
    <3>1. sectors'[s] \in [Address -> Object \cup {None}]
      <4>1. sectors'[s] = [a \in Address |-> sectors'[s][a]]
        BY <1>1, <1>2, <1>4 DEF DiskTypes
      <4>2. ASSUME NEW a \in Address PROVE sectors'[s][a] \in Object \cup {None}
        <5>1. CASE a \in area
          BY <1>8, <1>10, <5>1
        <5>2. CASE a \notin area
          BY <1>1, <1>4, <1>10, <5>2 DEF DiskTypes
        <5> QED BY <5>1, <5>2
      <4> QED BY <4>1, <4>2
    <3> QED BY <1>1, <1>2, <1>4, <3>1 DEF DiskTypes
  <2>3. now \subseteq Object
    BY <1>8, <1>11
  <2>4. owned' \in [State -> SUBSET Object]
    BY <1>1, <1>2, <1>4, <2>3 DEF DiskTypes
  <2>5. content' \in [Object -> Data \cup {None}]
    BY <1>2, <1>4 DEF DiskTypes
  <2>6. stored' \in [State -> [Address -> Data \cup {None}]]
    BY <1>1, <1>4 DEF DiskTypes
  <2> QED BY <2>1, <2>2, <2>4, <2>5, <2>6 DEF DiskTypes
<1>15. ASSUME NEW t \in Held, NEW a \in Address, NEW b \in Address,
              sectors'[t][a] # None, sectors'[t][a] = sectors'[t][b]
       PROVE  a = b
  <2>1. CASE t # s
    BY <1>1, <1>10, <1>15, <2>1 DEF DiskInv
  <2>2. CASE t = s /\ a \in area /\ b \in area
    BY <1>9, <1>10, <1>15, <2>2
  <2>3. CASE t = s /\ a \in area /\ b \notin area
    BY <1>1, <1>8, <1>10, <1>15, <2>3
  <2>4. CASE t = s /\ a \notin area /\ b \in area
    BY <1>1, <1>8, <1>10, <1>15, <2>4
  <2>5. CASE t = s /\ a \notin area /\ b \notin area
    BY <1>1, <1>10, <1>15, <2>5 DEF DiskInv
  <2> QED BY <2>1, <2>2, <2>3, <2>4, <2>5
<1>16. ASSUME NEW t \in Held, NEW o \in owned'[t]
       PROVE  \E a \in Address : sectors'[t][a] = o
  <2>1. CASE t # s
    BY <1>1, <1>10, <1>11, <2>1 DEF DiskInv
  <2>2. CASE t = s /\ o \in owned[s]
    <3>1. PICK a \in Address : sectors[s][a] = o
      BY <1>1, <2>2 DEF DiskInv
    <3>2. CASE a \in area
      BY <1>6, <1>10, <2>2, <3>1, <3>2
    <3>3. CASE a \notin area
      BY <1>10, <2>2, <3>1, <3>3
    <3> QED BY <3>2, <3>3
  <2>3. CASE t = s /\ o \in now
    BY <1>6, <1>10, <1>11, <2>3
  <2> QED BY <1>11, <2>1, <2>2, <2>3
<1>17. ASSUME NEW t \in Held, NEW u \in Held, NEW o \in owned'[t],
              NEW a \in Address, sectors'[u][a] = o
       PROVE  u = t
  <2>1. CASE t # s /\ (u # s \/ a \notin area)
    BY <1>1, <1>10, <1>11, <1>17, <2>1 DEF DiskInv
  <2>2. CASE t # s /\ u = s /\ a \in area
    <3>1. PICK n \in ns : o = to[n]
      BY <1>10, <1>17, <2>2
    <3>2. PICK b \in Address : sectors[t][b] = o
      BY <1>1, <1>11, <2>2 DEF DiskInv
    <3> QED BY <1>8, <2>2, <3>1, <3>2
  <2>3. CASE t = s /\ u # s /\ o \in owned[s]
    BY <1>1, <1>10, <1>17, <2>3 DEF DiskInv
  <2>4. CASE t = s /\ u # s /\ o \in now
    BY <1>1, <1>8, <1>10, <1>11, <1>17, <2>4
  <2>5. CASE t = s /\ u = s
    BY <2>5
  <2> QED BY <1>11, <2>1, <2>2, <2>3, <2>4, <2>5
<1>18. ASSUME NEW t \in Held, NEW a \in Address
       PROVE  Holds(t, a)' = stored'[t][a]
  <2>1. CASE t = s /\ a \in area
    <3>1. PICK n \in ns : a = at0 + n
      BY <1>10, <2>1
    <3>2. sectors'[t][a] = to[n]
      BY <1>10, <2>1, <3>1
    <3>3. to[n] \in Object /\ to[n] # None
      BY <1>8, Constants
    <3>4. content'[to[n]] = v
      BY <1>11, <1>12, <3>3
    <3>5. stored'[t][a] = v
      BY <1>1, <1>13, <2>1
    <3> QED BY <3>2, <3>3, <3>4, <3>5 DEF Holds
  <2>2. CASE ~(t = s /\ a \in area)
    <3>1. sectors'[t][a] = sectors[t][a] /\ stored'[t][a] = stored[t][a]
      BY <1>1, <1>10, <1>13, <2>2
    <3>2. sectors[t][a] # None => content'[sectors[t][a]] = content[sectors[t][a]]
      <4>1. SUFFICES ASSUME sectors[t][a] # None, sectors[t][a] \in now
                     PROVE  FALSE
        BY <1>1, <1>4, <1>12 DEF DiskTypes
      <4>2. PICK m \in ns : sectors[t][a] = to[m]
        BY <1>11, <4>1
      <4>3. t = s /\ a = at0 + m
        BY <1>8, <4>2
      <4> QED BY <1>10, <2>2, <4>3
    <3>3. Holds(t, a) = stored[t][a]
      BY DEF DiskInv
    <3> QED BY <3>1, <3>2, <3>3 DEF Holds
  <2> QED BY <2>1, <2>2
<1> QED BY <1>1, <1>14, <1>15, <1>16, <1>17, <1>18 DEF DiskInv

-----------------------------------------------------------------------------
(* The theorems                                                               *)

IInv == LifeInv /\ PluginInv /\ DiskInv

\* Every step keeps the invariant.
LEMMA Inductive ==
  ASSUME IInv, [Next]_vars
  PROVE  IInv'
<1> USE DEF IInv
<1>1. ASSUME NEW d \in Device, NEW first \in Sector, NEW last \in Sector, NEW v \in Data,
             DiskWrite(d, first, last, v)
      PROVE  IInv'
  BY <1>1, WriteDisk, SamePlugins DEF DiskWrite, LifeInv, life, Held
<1>2. ASSUME NEW d \in Device, DiskRead(d)
      PROVE  IInv'
  BY <1>2, ReadDisk, SamePlugins DEF DiskRead, LifeInv, life, Held
<1>3. ASSUME NEW s \in State, Event(s)
      PROVE  IInv'
  BY <1>3, EventPlugins, SameDisk, Zenon DEF Event, LifeInv, life, Held
<1>4. ASSUME NEW s \in State, Terminate(s)
      PROVE  IInv'
  <2>1. Held' = Held /\ LifeInv'
    BY <1>4 DEF Terminate, LifeInv, Held
  <2> QED BY <1>4, <2>1, SameDisk, SamePlugins DEF Terminate
<1>5. ASSUME NEW s \in State, SelectNextState(s)
      PROVE  IInv'
  <2>1. LifeInv'
    BY <1>5 DEF SelectNextState, LifeInv
  <2> QED BY <1>5, <2>1, SelectPlugins, SelectDisk
<1>6. ASSUME NEW s \in State, NEW t \in State, Fork(s, t)
      PROVE  IInv'
  <2>1. LifeInv'
    BY <1>6 DEF Fork, LifeInv
  <2> QED BY <1>6, <2>1, ForkPlugins, ForkDisk
<1>7. CASE UNCHANGED vars
  BY <1>7, SameDisk, SamePlugins DEF vars, LifeInv, life, Held
<1> QED BY <1>1, <1>2, <1>3, <1>4, <1>5, <1>6, <1>7 DEF Next

\* The invariant holds in every reachable state.
THEOREM Invariance == Spec => []IInv
<1>1. Init => IInv
  BY InitPlugins, InitDisk DEF IInv
<1>2. IInv /\ [Next]_vars => IInv'
  BY Inductive
<1> QED BY <1>1, <1>2, PTL DEF Spec

\* A plugin finds for every state what happened on its very path, also where a state
\* has the address of one that was deleted: refreshPlugins() forgets what was cached.
THEOREM PluginStatesCorrect == Spec => []PluginStatesKept
<1>1. IInv => PluginStatesKept
  <2>1. SUFFICES ASSUME IInv, NEW s \in live
                 PROVE  IF cached.state = s \/ pluginState[s] # None
                        THEN count[GetPluginState(s)] = events[s]
                        ELSE events[s] = 0
    BY DEF PluginStatesKept
  <2>2. s \in Held /\ s # None
    BY <2>1, StateOwnedAssumption DEF IInv, LifeInv, Held
  <2> QED BY <2>1, <2>2 DEF IInv, PluginInv, GetPluginState, Lookup
<1> QED BY <1>1, Invariance, PTL

\* A state reads what its path wrote last to a sector's address: a sector that states
\* share is copied before it is written.  However much room a device is given, also
\* none, as by the build.
THEOREM SectorsCorrect == Spec => []SectorsKept
<1>1. IInv => SectorsKept
  <2>1. SUFFICES ASSUME IInv, NEW s \in live, NEW d \in Device, NEW n \in Sector
                 PROVE  ReadSector(s, d, n) = stored[s][GetBlockDeviceStart(d) + n]
    BY DEF SectorsKept
  <2>2. s \in Held /\ GetBlockDeviceStart(d) + n \in Address
    BY <2>1, Placed DEF IInv, DiskInv, DiskTypes, Held
  <2>3. Holds(s, GetBlockDeviceStart(d) + n) = stored[s][GetBlockDeviceStart(d) + n]
    BY <2>1, <2>2 DEF IInv, DiskInv
  <2> QED BY <2>3 DEF ReadSector, Holds
<1> QED BY <1>1, Invariance, PTL

=============================================================================
