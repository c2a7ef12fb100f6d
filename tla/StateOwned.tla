---------------------------- MODULE StateOwned -----------------------------
(* What a state owns besides memory: the disk sectors it wrote                *)
(* (src/src/s2e/S2EDeviceState.cpp), copied when written after a fork, and    *)
(* the states its plugins keep for it (src/src/s2e/Plugin.cpp and             *)
(* src/include/s2e/S2EExecutionState.h), which a plugin finds again through   *)
(* a cache of one entry.                                                      *)
(*                                                                            *)
(* A state is known by its address, so that a state forked after another was  *)
(* deleted may have the address of that one.  External: klee::AddressSpace    *)
(* and its copy-on-write, the disk image, the plugin, which counts events     *)
(* along each path.  Persistent disk writes are off.                          *)
EXTENDS Naturals, Sequences, FiniteSets, SequencesExt

CONSTANTS
  State, First,      \* the addresses of states, and that of the first one
  Device,            \* the block devices
  LastSector,        \* the last sector of each
  BlockDevAS,        \* BLOCK_DEV_AS: the address space given to a device, in sectors
  Data, None,
  MaxWrites, MaxEvents   \* bounds: the writes to disk, the events of a path

ASSUME StateOwnedAssumption ==
  /\ First \in State /\ None \notin State \cup Nat
  /\ IsFiniteSet(State) /\ IsFiniteSet(Device)
  /\ LastSector \in Nat /\ BlockDevAS \in Nat
  /\ MaxWrites \in Nat /\ MaxEvents \in Nat

VARIABLES
  live, current, deleted,  \* the states, g_s2e_state, m_deletedStates
  blockDevices,            \* s_blockDevices
  sectors,                 \* state |-> address |-> object: m_deviceState
  owned,                   \* state |-> the objects it may write in place
  content,                 \* object |-> what it holds
  stored,                  \* history: what a path wrote last to each address
  pluginState,             \* state |-> the plugin's entry of m_PluginState
  count,                   \* plugin state |-> the events it counted
  cached,                  \* m_CachedPluginS2EState, m_CachedPluginState
  events,                  \* the events of each state's path, for the properties
  writes                   \* counts the writes

life    == <<live, current, deleted>>
disk    == <<blockDevices, sectors, owned, content, stored, writes>>
plugins == <<pluginState, count, cached, events>>
vars    == <<life, disk, plugins>>

Sector == 0 .. LastSector
Address == 0 .. BlockDevAS * Cardinality(Device) + LastSector
(* Objects that hold sectors: one for every state and address, and as many     *)
(* again as a single write may need before the old ones are let go.            *)
Object == 1 .. (Cardinality(State) + 1) * Cardinality(Address)
PluginState == 1 .. Cardinality(State)

Init ==
  /\ live = {First} /\ current = First /\ deleted = {}
  /\ blockDevices = <<>> /\ writes = 0
  /\ sectors = [s \in State |-> [a \in Address |-> None]]
  /\ owned = [s \in State |-> {}]
  /\ content = [o \in Object |-> None]
  /\ stored = [s \in State |-> [a \in Address |-> None]]
  /\ pluginState = [s \in State |-> None]
  /\ count = [c \in PluginState |-> 0]
  /\ cached = [state |-> None, plugin |-> None]
  /\ events = [s \in State |-> 0]

-----------------------------------------------------------------------------
(* Where the sectors of a device are: devices are numbered as they are used.  *)
(* BLOCK_DEV_AS is a product of ints, 2^36, that is too large for an int: the  *)
(* compiler makes it 0, and all devices have the same place.                   *)
GetBlockDeviceId(d) ==
  IF \E i \in DOMAIN blockDevices : blockDevices[i] = d
  THEN CHOOSE i \in DOMAIN blockDevices : blockDevices[i] = d
  ELSE Len(blockDevices) + 1
GetBlockDeviceStart(d) == (GetBlockDeviceId(d) - 1) * BlockDevAS
Registered(d) ==
  IF GetBlockDeviceId(d) > Len(blockDevices) THEN Append(blockDevices, d) ELSE blockDevices

(* AddressSpace::getWriteable(): the object itself when no other state shares *)
(* it, otherwise a copy.                                                      *)
InUse == UNION {{sectors[s][a] : a \in Address} : s \in live \cup deleted}
Fresh(ns) == CHOOSE new \in [ns -> Object \ InUse] : IsInjective(new)
GetWriteableShared(s, o, new) ==   \* for comparison: the object, shared or not
  IF o # None THEN o ELSE new
GetWriteable(s, o, new) == IF o \in owned[s] THEN o ELSE new

(* writeSector() for the state that runs.                                     *)
WriteSector(s, d, first, last, v) ==
  LET at(n) == GetBlockDeviceStart(d) + n
      new == Fresh(first .. last)
      to == [n \in first .. last |-> GetWriteable(s, sectors[s][at(n)], new[n])]
      now == {to[n] : n \in first .. last}
  IN  /\ blockDevices' = Registered(d)
      /\ sectors' = [sectors EXCEPT ![s] = [a \in Address |->
            IF a \in {at(n) : n \in first .. last} THEN to[a - at(0)] ELSE @[a]]]
      /\ content' = [o \in Object |-> IF o \in now THEN v ELSE content[o]]
      /\ owned' = [owned EXCEPT ![s] = @ \cup now]

DiskWrite(d, first, last, v) ==
  /\ writes < MaxWrites /\ current \in live
  /\ WriteSector(current, d, first, last, v)
  /\ stored' = [stored EXCEPT ![current] =
                  [a \in Address |-> IF a - GetBlockDeviceStart(d) \in first .. last
                                     THEN v ELSE @[a]]]
  /\ writes' = writes + 1
  /\ UNCHANGED <<life, plugins>>

(* readSector(): what the store has of a sector, None when QEMU has to read   *)
(* it from the image.  A device that is asked for gets its number.            *)
ReadSector(s, d, n) ==
  LET o == sectors[s][GetBlockDeviceStart(d) + n]
  IN  IF o # None THEN content[o] ELSE None

DiskRead(d) ==
  /\ current \in live /\ d \notin Range(blockDevices)
  /\ blockDevices' = Registered(d)
  /\ UNCHANGED <<sectors, owned, content, stored, writes, life, plugins>>

-----------------------------------------------------------------------------
(* Plugin::getPluginState(): the cached entry when it is for this state,      *)
(* otherwise the entry of the state, which is made when there is none.        *)
NewPluginState == CHOOSE c \in PluginState :
                    \A s \in live \cup deleted : pluginState[s] # c
Lookup(s) == IF pluginState[s] # None THEN pluginState[s] ELSE NewPluginState
GetPluginState(s) == IF cached.state = s THEN cached.plugin ELSE Lookup(s)

(* An event of a state that is not necessarily the one that runs: onStateFork *)
(* and onStateKill pass others to the plugin.                                 *)
Event(s) ==
  /\ s \in live /\ events[s] < MaxEvents
  /\ events' = [events EXCEPT ![s] = @ + 1]
  /\ LET c == GetPluginState(s)
         made == cached.state # s /\ pluginState[s] = None
     IN  /\ count' = [count EXCEPT ![c] = (IF made THEN 0 ELSE @) + 1]
         /\ pluginState' = IF made THEN [pluginState EXCEPT ![s] = c] ELSE pluginState
         /\ cached' = [state |-> s, plugin |-> c]
  /\ UNCHANGED <<life, disk>>

-----------------------------------------------------------------------------
(* S2EExecutionState::clone(): the sectors are shared from now on, the        *)
(* plugins' states are cloned.                                                *)
Fork(s, t) ==
  /\ s = current /\ s \in live /\ t \notin live \cup deleted
  /\ live' = live \cup {t}
  /\ sectors' = [sectors EXCEPT ![t] = sectors[s]]
  /\ owned' = [owned EXCEPT ![s] = {}, ![t] = {}]
  /\ stored' = [stored EXCEPT ![t] = stored[s]]
  /\ pluginState' = [pluginState EXCEPT ![t] =
                       IF pluginState[s] = None THEN None ELSE NewPluginState]
  /\ count' = IF pluginState[s] = None THEN count
              ELSE [count EXCEPT ![NewPluginState] = count[pluginState[s]]]
  /\ events' = [events EXCEPT ![t] = events[s]]
  /\ UNCHANGED <<current, deleted, blockDevices, content, writes, cached>>

(* terminateState(), of the state that runs or of another, then deleteState():*)
(* the state is deleted only when the next one is selected.                   *)
Terminate(s) ==
  /\ s \in live
  /\ live' = live \ {s} /\ deleted' = deleted \cup {s}
  /\ UNCHANGED <<current, disk, plugins>>

(* selectNextState() and ~S2EExecutionState(): the plugin states of those     *)
(* that are deleted are freed, and every plugin forgets what it cached.       *)
RefreshPluginsNot == cached   \* for comparison: nothing is forgotten
RefreshPlugins == [state |-> None, plugin |-> None]

SelectNextState(t) ==
  /\ t \in live /\ (t # current \/ deleted # {})
  /\ current' = t /\ deleted' = {}
  /\ cached' = IF deleted = {} THEN cached ELSE RefreshPlugins
  /\ pluginState' = [s \in State |-> IF s \in deleted THEN None ELSE pluginState[s]]
  /\ events' = [s \in State |-> IF s \in deleted THEN 0 ELSE events[s]]
  /\ sectors' = [s \in State |-> IF s \in deleted THEN [a \in Address |-> None] ELSE sectors[s]]
  /\ owned' = [s \in State |-> IF s \in deleted THEN {} ELSE owned[s]]
  /\ stored' = [s \in State |-> IF s \in deleted THEN [a \in Address |-> None] ELSE stored[s]]
  /\ UNCHANGED <<live, blockDevices, content, count, writes>>

Next ==
  \/ \E d \in Device, first, last \in Sector, v \in Data :
        first <= last /\ DiskWrite(d, first, last, v)
  \/ \E d \in Device : DiskRead(d)
  \/ \E s \in State : Event(s) \/ Terminate(s) \/ SelectNextState(s)
  \/ \E s, t \in State : Fork(s, t)

Spec == Init /\ [][Next]_vars

-----------------------------------------------------------------------------
(* A state reads from disk what it, or its path before a fork, wrote last to  *)
(* the sector's address, and the image's sectors otherwise: no state sees     *)
(* what its siblings wrote, whichever of them writes first.  An address is    *)
(* not a sector of one device: for a BLOCK_DEV_AS of 0, as in the build,      *)
(* those of all devices coincide, and a state reads from one what it wrote to *)
(* the same sector of another.                                                *)
SectorsKept ==
  \A s \in live, d \in Device, n \in Sector :
    ReadSector(s, d, n) = stored[s][GetBlockDeviceStart(d) + n]

(* A plugin finds for every live state what happened on the path of that very *)
(* state: neither the state it cached before, nor that of a deleted state     *)
(* whose address a new one took.                                              *)
PluginStatesKept ==
  \A s \in live :
    IF cached.state = s \/ pluginState[s] # None
    THEN count[GetPluginState(s)] = events[s]
    ELSE events[s] = 0
=============================================================================
