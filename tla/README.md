# TLA+ models of S2E for QEMU TCG plugins

This project models the parts of the repository that decide *who may do what,
when*: the processes S2E forks and the table they share, the execution states
each of them explores, how these states run, fork, merge and become symbolic,
their memory, disk sectors and plugin states, the translator that feeds them,
the MMU handlers they access memory through, and the allocators. TLC checks the
models on small instances; TLAPS proves what these checks say, but for liveness,
for every value of the constants.

Paths below are relative to `src/src/s2e/` and `src/src/tcgplugin/`.

## Inventory of the system

S2E runs a guest under QEMU and explores its paths symbolically with KLEE. A
TCG plugin hands blocks of TCG operations to a translator, which makes LLVM
functions that the KLEE interpreter executes; a timer switches between
execution states, and a process may fork and give half of its states to the
child.

| Component | Source | State it keeps | Operations | What is hard | What makes it correct |
|---|---|---|---|---|---|
| Process table | `S2E.cpp`, `S2E.h` | `S2EShared` in shared memory: process count, last file id, last state id, ids and pids per entry | constructor, `fork`, `~S2E`, `checkDeadProcesses`, `fetchAndIncrementStateId` | processes interleave, die with or without the lock, fail to fork, reuse pids | the count covers entries and forks under way; an output directory per process; ids never given twice |
| Cross-process lock | `Synchronization.cpp` | a semaphore in shared memory | `acquire`, `release` | its holder may be killed | a child that was forked gets to register |
| State scheduling | `S2EExecutor.cpp` | `states`, searcher, `addedStates`, `removedStates`, `m_deletedStates`, `yieldedState`, current state | fork, terminate, yield, suspend, resume, `selectNextState`, `doLoadBalancing` | deferred deletion, speculative states, a yielded state outside every set, fork of the whole process between two steps | no state lost, none explored twice, none used after it was freed |
| Execution of blocks | `S2EExecutor.cpp`, `S2EExecutionState.cpp` | LLVM frames, `prevPC` and `pc`, mode, active state, `needFinalizeTBExec`, requests to run symbolically | `executeTranslationBlock`, `executeFunction`, `finalizeTranslationBlockExec`, `cleanupTranslationBlock`, `doStateSwitch`, `jumpToSymbolic` | a fork leaves a block half done, exceptions longjmp out of any depth of frames | no guest instruction skipped or executed twice |
| Execution state: memory | `S2EExecutionState.cpp`, `MemoryCache.h` | memory objects, caches of them, two CPU pointers | read and write of memory and registers, DMA, mode switches, `clone` | copy-on-write under cached pointers; a register has two homes | reads see the last write of the same state |
| Execution state: merge | the same, `S2EExecutor.cpp` | constraints, stacks, memory of two states | `queueStateForMerge`, `merge` | the active state's CPU is elsewhere; states that differ in what a merge cannot join | a merged state stands for both |
| Symbolic values | the same, `ConfigFile.cpp` | constraints, concolic values | `makeSymbolic`, concretization, `handleForkAndConcretize`, speculative states, the Lua functions on states | three mechanisms concretize, two modes fork | every state has an input, no input two states |
| Disk sectors and plugin states | `S2EDeviceState.cpp`, `Plugin.cpp` | sectors per state; a table of plugin states and a one-entry cache | `readSector`, `writeSector`, `getPluginState`, `refreshPlugins`, `clone` | copy-on-write; a cache keyed by an address that may be reused | a state finds what its own path left |
| Life of translation blocks, core plugin | `S2EExecutor.cpp`, `Plugins/CorePlugin.cpp` | functions and signals with a reference count | `s2e_tb_alloc`, `s2e_tb_free`, hooks of translation | a flush while states are inside a block; one signal shared by all hooks | what is executed exists; code reaches the plugins that asked for it |
| MMU handlers | `MMUFunctionHandlers.cpp` | the TLB of the state | loads and stores, I/O, kernel accessors | accesses over two pages, faults half-way, code pages | accesses are all or nothing |
| TCG to LLVM translator | `tcg-llvm.cpp` | caches of LLVM values and pointers per temp, current basic block | `generateCode`, `generateOperation`, `getValue`, `setValue` | a cached value or pointer stale after an assignment, or used in a block it does not dominate | generated code computes what TCG says |
| Page allocator | `Slab.cpp`, `Slab.h` | regions with their bitmaps, full regions | `allocPage`, `freePage` | an ordering under which near addresses are equivalent | bitmaps describe exactly the free pages |
| Block and slab allocators | `Slab.cpp`, `Slab.h` | a header per page, three lists and four counters per class | `alloc`, `free`, `expand`, `shrink` | a page moves between lists by the value of its count | blocks handed out are disjoint: a heap |
| Plugin loading, TCG plugin entry points, monitor socket, statistics, expression wrappers, select removal | remaining files | little or none | forwarding, I/O, conversions | - | - |

How they interact. `doLoadBalancing` (executor) calls `S2E::fork` (table), which
forks the process with its executor; new states take their id from
`fetchAndIncrementStateId`. The block that `executeTranslationBlock` runs comes
from the translator and is kept alive by the reference of the state that last
executed it; its code calls the MMU handlers for guest memory, which read and
write the state's memory objects, and emits the signals that plugins connected
to while it was translated. A branch or a symbolic address in it forks the
state, which clones memory, sectors and plugin states and leaves the new state
to the scheduler. Lua scripts and custom instructions make values symbolic; the
searcher merges states that wait at the same place. `operator new` and `delete`
are meant to reach the slab allocator, which takes its pages from the page
allocator. Processes share the table and nothing else: the rest is copied by
the fork.

## Modules

| Module | Models | Correspondence |
|---|---|---|
| `ProcessTable` | the process table and its lock | `currentProcessCount`, `lastFileId`, `lastStateId`, `processIds`, `processPids` are the fields of `S2EShared`, `lock` is the semaphore; `index`, `slot`, `local` are each process's `m_currentProcessIndex`, `m_currentProcessId` and local variable; `at` is where it stands. Every critical section is two steps, a read and a write, so that only the lock makes it atomic. `life` and `parent` are the kernel's view (zombies, pid reuse); `Crash` kills a process at any step. |
| `StateScheduler` | the bookkeeping of states | Each variable is a function of the process. `Fork`, `Terminate`, `Yield` happen within an instruction, `EndInstruction` is the `updateStates` after it, `SwitchState` or `Balance` is the timer callback, `SelectNothing`, `SelectInfeasible`, `Select` are the ways through `selectNextState`. `born`, `done`, `freed`, `copied` are history. |
| `TbExecution` | blocks, modes and state switches | `stack` holds a state's LLVM frames above `main`, `main` is where `pc` points in the dummy main, `prevPC` whether it is set; `cpu` is where QEMU's loop stands ("loop", "ready", "klee", "native", "left" by longjmp, "select"). `guestPc` is `env->eip`, which translated code stores now and then: native code is at `nativePc` meanwhile, and is left with the pc of any instruction it executed since it entered the block. Functions of the source have actions of the same name. |
| `GuestRun` | what running a guest promises | `TbExecution` implements it: `Position` maps frames and program counters to the next instruction. A state that is thrown out of a block may be taken back to an earlier instruction of it. |
| `StateMemory` | memory and registers of states | `space` is each state's `addressSpace`; an ObjectState `<<object, copy>>` has an `owner` (its copy-on-write key), a concrete store `byte` and an expression `expr`; `cache`, `registers`, `system` are `m_memcache`, `m_cpuRegistersObject`, `m_cpuSystemObject`; `env` is QEMU's CPU, `concrete` is `m_runningConcrete`. `holds` is history: what each state stored last; `misplaced` are the states that stored over a symbolic register while they ran concrete. |
| `StateMerge` | merging states | A condition is the set of inputs that satisfy it and an expression a function of the input, so that `ite` of KLEE is a function by cases. `truth` is history: what the guest computed for each input. |
| `SymbolicInputs` | symbolic values, constraints and concolic values | A value is a variable plus a constant modulo 2^w; `allowed` are the path constraints, `concolics` the state's assignment. `native` is history: what the first path would hold without S2E, and `lost` how values of it got lost when they were made symbolic. |
| `StateOwned` | disk sectors and plugin states | A state is its address. `sectors`, `owned`, `content` are `m_deviceState` with its copy-on-write; `pluginState`, `cached` are `m_PluginState` and the two cache members. `stored`, `events` are history. |
| `TbLifetime` | translation blocks and their signals | `refCount`, `kept`, `signals`, `last` are `refCount`, what has not been freed, `executionSignals`, `m_lastS2ETb`; `qemu` are the blocks QEMU has allocated, which a flush, also that of a state switch, empties; `code` is what was emitted, `translating` the hook that is next. |
| `SoftMmu` | loads and stores | `access.todo` are the parts still to do, `tlb` the entries QEMU shares with the handlers; `Kind` says what a physical page is, `SymbolicMmio` which of them a plugin made symbolic. A byte is the set of bytes that were or'ed into it, so that a wrong shift or a byte taken twice shows. |
| `TcgTranslator` | the translator's caches | `values` and `ptrs` are `m_values` and `m_memValuesPtr`, holding what the LLVM value evaluates to; `memory` is what the emitted code has stored; `tcg` is the machine TCG defines, which every action steps along. Each operation of `generateOperation` is an action (operations that read and assign alike share one). `foreign` is history: what was cached before the current basic block. |
| `PageAllocator` | `class PageAllocator` | `regions` and `busy` are `m_regions` and `m_busyRegions`; lookups go by `RegCmp`, and `mmap` may put a region anywhere. `pageAssert` is "misfiled" once a page was freed to the region behind its own. |
| `SlabAllocator` | `BlockAllocatorHdr`, `BlockAllocator`, `SlabAllocator` | `page[p]` is the header of a page and the list it is linked into; the four counters are the class's. |
| `Slab` | the two together | `allocPage` and `freePage` joined to `alloc` and `shrink`; the pages come and go as `SlabAllocator` assumes (`SupplyAsAssumed`). |
| `Heap` | what an allocator promises | `SlabAllocator` implements it: `held` are the blocks callers have. |
| `*_proofs` | theorems about the module of that name; `Process_proofs` is about `ProcessTable` and the allocators, `GuestCode_proofs` about `TcgTranslator`, `SoftMmu` and `SymbolicInputs` | see Proofs |
| `MC*` | instances for TLC | values of constants that a cfg cannot write |

Definitions marked "For comparison" are wrong variants of the one that follows
or precedes them. No specification uses them; they show that the properties tell
the code from its likely mistakes.

## Runs

Every action occurs in the passing runs. Deadlock is not checked where a cfg
says so, because these systems may stop: all processes exit, all states end, an
assert fails, or a bound on a counter is reached. `SoftMmu` never stops.

| Run | Question and properties | Bounds and why they suffice |
|---|---|---|
| `process_table` | Do the table, its count (`CountKept`), the directories (`OwnOutputDirectory`) and the ids (`StateIdsFresh`) stay right, do the asserts hold (`NoAssertFails`), and does a child register (`ChildRegisters`), when processes fork, fail to fork, exit, die and clean up in any order? | Three pids, a table of two entries (so it is full while a third process waits and pids are reused), `MaxFileId` 3 (two forks), `MaxStateId` 1, `MaxCrashes` 1. Two processes race for every read and write; the third lets a zombie, its parent and a scanner coexist. |
| `state_scheduler` | Is every live state left to exactly one process, but for one that had yielded when its process forked or shut down (`EachExploredOnce`); is any used after it was freed or chosen though terminated (`StatesUsedRightly`); does a yielded state come back (`YieldedReturns`), and only after another ran (`YieldGivesWay`)? | Two processes, three states: one running, one yielded and one more is the least that makes the halves of load balancing unequal. Speculative states are on. |
| `tb_execution` | Does every state execute the guest's instructions one by one, and again only those of a block that an exception or a jump to symbolic mode leaves (`ExecutesGuest`, an implementation of `GuestRun`); do the asserts hold (`AssertsHold`); are mode and frames those of the active state (`ModesRight`)? | Two states, so that one is forked in the middle of a block while the other goes on; a guest that loops over three instructions in two blocks, so that a block has a middle; interrupts go to the second block. |
| `execution_states` | Does each state read what it stored last, in memory (`MemoryKept`) and, but for a store over a symbolic register in concrete mode, in the CPU (`CpuKept`), and do the caches name the objects of the address space (`ShortcutsCoherent`), whatever the mode and the other state do? | Two states, one page, two bytes and a symbolic value: one object of each kind, as objects do not interact, and two states, as an object is shared or not. `Copies` is 3, one more than the states, which is what a fork needs while it copies. |
| `state_merge` | Are the paths of the states a partition of the inputs (`PathsPartition`), and does a merged state hold for each input what the guest computed for it (`MergeSound`)? | Three states, three inputs and two nested conditions, so that two states share a constraint and differ in another; two instructions in all, so that one value may be changed on either side of a fork, or two values. One caller. |
| `different_callstacks` (violation) | `MergeSound` when a function is called from two places. | As above, two callers. |
| `symbolic_inputs` | Does every path have an input and no input two paths (`PathsHaveInputs`); in concolic mode, does the first path hold what it would natively, until a value gets lost as it is made symbolic (`FirstPathNative`)? | Two states, two words of one object of memory, one register and one flag, of two bytes of one bit, so that a value may be more than a byte; two variables (`MaxVars`) and two other operations (`MaxSteps`): a write or a fork, and a concretization or a resolution, between and after them. Concolic mode is an initial choice. |
| `state_owned` | Does a state find at every address the sector (`SectorsKept`) and the plugin state (`PluginStatesKept`) that its own path left? | Two addresses of states, so that one is reused after a deletion; two devices of two sectors, with `BLOCK_DEV_AS` as in the build (0); three writes (`MaxWrites`: one before a fork and one on each side) and two events per path (`MaxEvents`: before and after a fork). |
| `tb_lifetime` | Do the function and signals of what a state executes exist and is nothing kept for nobody (`BlocksHeld`), though blocks are flushed at any time and at every state switch; does each point of a block reach the plugins that connected there (`SignalsRight`)? | Three states (one in a block, one forked in it, one more at the address of a deleted one), three blocks, two hooks per block. |
| `softmmu_accesses` | Does an access fault exactly if the page table forbids it, is it all or nothing, and does it read and write the right bytes (`AccessesAtomic`); is translated code thrown away when its page is written (`CodeFollowsMemory`)? | Objects of four bytes, pages of two objects, two virtual pages that share one TLB entry, so that an access over both displaces its own entry; accesses of 1, 2 and 4 bytes at addresses inside objects, over two objects of a page and over two pages; six pages: RAM, ROM, a device, memory behind a subpage, nothing (unassigned) and memory whose I/O is symbolic; page tables in which the second page faults or is read-only. One store, as bytes are told apart by which store wrote them. |
| `translator_caches` | After any sequence of operations, do the cached values agree with TCG (`ValuesCoherent`), memory and cached pointers too (`HomesCoherent`), and is nothing lost or used in another basic block (`CachesUsable`)? | One register holding 0 or 1, a global based on it, a local temp, a plain temp and a field: one of each kind; two values of the register, so that a pointer can be stale. An operation computes a sum of bits. |
| `slab_heap` | Do masks, lists, counters (`HeadersConsistent`) and bitmaps (`PagesAccounted`) agree, do the asserts of the block allocators (`BlockAssertsHold`) and of the page allocator (`PageAssertsHold`) hold, does the one get its pages from the other as it assumes (`SupplyAsAssumed`), and is the whole a heap (`ImplementsHeap`), in every order of `alloc`, `free` and `shrink` until a page is misfiled? | Places for regions of two pages, two of them adjacent, as `mmap` usually puts them, and one across both; two classes of four and two blocks per page: a page can be totally free, partly free and full, a class can need a second page, a region can be full, be reopened, be unmapped and be mapped again, and have a neighbour. `MaskBits` is 6, more than the blocks of a page, as in the code. |

Each run also checks the types of its variables where the module states them
(`TypeOK`, `SlabTypeOK`). The bounds stand in guards: `MaxFileId`, `MaxStateId`,
`MaxCrashes` in `Fork`, `FetchStateId`, `Crash` of `ProcessTable` (the proofs hold
for every value of them); `MaxOps` in `StateMerge`; `MaxVars`, `MaxSteps` in
`SymbolicInputs`; `MaxWrites`, `MaxEvents` in `StateOwned`; `MaxStores` in
`SoftMmu`. The other models have no counters. In `StateMemory`, `StateMerge`,
`TbExecution` and `StateScheduler` a state that ended is not made again; in
`StateOwned` and `TbLifetime` it is, as they are about addresses.

Symmetry is used where it is sound, in runs without liveness: the forked states
of `StateMerge` (the first state is left out), data and devices of `StateOwned`,
blocks of `TbLifetime`.

### Fairness

`ProcessTable`: a process that has begun an operation keeps running (weak
fairness of `Continue`, the operating system schedules it) and `sem_wait`
starves nobody for ever (strong fairness of `Acquire`, as the lock is taken and
released by others in between). Nobody is obliged to begin an operation or to
die; `ChildRegisters` excepts the case of a process killed while it held the
semaphore, which is not robust (`Synchronization.cpp:171`). `StateScheduler`: the
timer keeps firing and `selectNextState` returns (weak fairness of `Switch`), and
an instruction ends (`EndInstruction`). Neither asks that the searcher be fair:
`YieldedReturns` needs only that some other state is scheduled. The other
modules make no promise that something happens: what a guest does next, and
whether a block ends, is up to the guest.

### What the violation shows

`different_callstacks`: `merge` compares call stacks by depth alone; where
functions or callers differ it prints so and goes on
(`S2EExecutionState.cpp:1727`). The merged state then returns to the caller of
the first state for the inputs of both.

### Where code and words, or code and intent, differ

Met while modelling. The models have what the code does; where a property makes an
exception for it, the exception is named here and in the comment of the property. Only
the one above is a run of its own.

Processes and states:
* `checkDeadProcesses` asks `kill -0`, which succeeds for a dead child nobody waited
  for: its entry stays, against "Process is dead, we have to decrement
  everything" (`S2E.cpp:749-751`). `ScanTable` has it so; the count stays right.
* A state that is yielded while load balancing forks is in neither half and in the
  memory of both processes, which both explore it (`S2EExecutor.cpp:1375`), against
  "We must have unique state ids across all processes" (`S2E.h:76`): `copied` in
  `ExploredOnce`.
* If every other state has gone while one is yielded, "All states were terminated"
  is reported and QEMU shut down with a live state that nobody explores any more
  (`S2EExecutor.cpp:1598`): `Abandoned` in `NoStateLost`. "Yielding requires other states
  to be available" (line 2381), but `yieldState` counts terminated and speculative ones.
* A plugin that terminates the current state while its fork is reported makes an
  assert of `executeInstructions` fail (line 1771); `Terminate` assumes it does
  not. `suspendState` of a state still in `addedStates`, or `resumeState` of one
  that was terminated, would put the sets at odds (line 2543); no caller does.

Memory, registers and symbolic values:
* Code that runs concrete and stores to a symbolic register stores to its ObjectState
  alone, while the register, not symbolic any more, is read from `env` next, and
  `switchToSymbolic` copies `env` over what was stored (`S2EExecutionState.cpp:395`,
  `1471`). The test that keeps such blocks out of native code is stubbed
  (`S2EExecutor.cpp:2030`) and does not see plugins: `misplaced` in `CpuKept`.
* `writeMemory` of a buffer over two objects passes lengths in bytes as widths in
  bits (line 1236); the assert at line 1213 fails (`WriteMemorySpanning`).
* `writeRegisterSymb` of a script in concrete mode fails an assert
  (line 400): `SymbolicInputs` runs its states in KLEE.
* Scripts build the concolic value of what they make symbolic from
  `value & (0xFF << i)`, truncated to a byte, so all but the lowest byte are lost
  (`ConfigFile.cpp:724`): "truncated" in `lost` of `FirstPathNative`. Of 8 bytes the
  last four are shifted by more than an `int` has bits, which is left out. A range that
  excludes the value found leaves concolic values that contradict the constraint:
  `misranged` in `PathsHaveInputs`.
* `makeSymbolic` sets the new variable to 0 whatever was there ("zeroed" in `lost`), and
  `kleeWriteMemory` writes it to the start of the memory object rather than to the
  address in it (`S2EExecutionState.cpp:533`): `MakeSymbolic` does both. It names its
  label from the wrong address (line 568). `handleGetValue` concretizes and stores
  nothing in the guest (`S2EExecutor.cpp:712`); a symbolic value that a hijacked write
  hands to native code becomes an example without a constraint (line 488).
* The flags' mask and the symbolic-register mask shift an `int` and use different
  bits (`S2EExecutionState.cpp:657`, `907-940`).
* `ConfigFile.cpp:629` reads a value that a failed read left unset; `:570` writes
  with the size of a register what `:492` reads with 4; a `CpuExitException` passes
  through the C frames of Lua (`:867`).
* `BLOCK_DEV_AS` is a product of `int`s that overflows and is 0 where the compiler folds
  it (`S2EDeviceState.h:59`): the sectors of all disks share the addresses of the
  first, against "Give 64GB of KLEE address space for each block device". A state
  reads from one disk what it wrote to the same sector of another. `SectorsKept` is
  about addresses, not about devices, and `state_owned` runs with 0.
* `S2EDeviceState.cpp:302` copies a snapshot larger than the first past the buffer.

Accesses and blocks:
* A flush of QEMU's blocks with more than one state is "Dangerous. Expect crashes."
  (`S2EExecutor.cpp:2829`), and the option that flushes at every switch, on by default,
  is there against "possibly incorrect execution" (line 173). `TbLifetime` flushes
  whenever QEMU likes and at every switch. What S2E itself keeps of a block, its function
  and signals, is counted and survives: that is `BlocksHeld`. QEMU's `TranslationBlock`
  is not: the `s2e_current_tb` of a state that is switched to in the middle of a block
  names freed memory. `getTb()` is called in native execution only
  (`S2EExecutionState.cpp:1625`, `CorePlugin.cpp:417`), where the block is a new one, so
  that it takes a plugin to read it.
* `lduw_kernel` on a word that is read in two parts returns a byte too many, as the
  high half is shifted in 32 bits (`UnalignedWord` in `AccessesAtomic`, which still
  says that the two bytes asked for are right). The fast path of kernel stores looks
  at `addr_read`, so that ROM, read-only pages and translated code are written without
  notice (`MMUFunctionHandlers.cpp:529`): `Stores` and `Allowed` say so for
  `AccessesAtomic`, `access.fast` for `CodeFollowsMemory`.
* The loop under "Invalidate all dependent global vals and pointers"
  (`tcg-llvm.cpp:617`) tests `temps[idx]` where it means `temps[i]` and does nothing.
  Latent: front ends do not assign to the environment register (`AssignsBase`).
* `setcond` extends its condition with the sign and `movcond` negates a mask where it
  needs the complement (`tcg-llvm.cpp:1370`, `1406`); `deposit_i64` builds its mask
  with `1u << len` (`1352`); `qemu_ld` always finds `MO_SIGN` set (`1257`). What an
  operation computes is abstracted, so no model shows these.

Allocators:
* `RegCmp` takes addresses less than a region apart for equivalent
  (`Slab.cpp:143`): if a page's region is full and the one right behind it is not, which
  is where `mmap` usually puts it, `freePage` takes the neighbour's bit for the page's. The
  assert of line 161 fails, or a page in use counts as free and a region may be
  unmapped under its users. Nothing calls `shrink`, the only way to `freePage`. `Slab`
  puts regions next to each other and calls `shrink`; a misfiled page is where its
  properties end ("misfiled" in `PagesAccounted` and `PageAssertsHold`), and
  `FreePageRight` says that it is the only way for them to end.
* `m_bas` has room for one allocator less than there are (`Slab.cpp:351`): the last pointer
  is written behind the array, once, in the constructor. The models have as many allocators as classes.
* `mmap` returns `MAP_FAILED`, not 0 (`Slab.cpp:105`).

## Proofs

There is a theorem for each invariant, action property and refinement that a passing
run checks, for every value of the constants that satisfies the named assumption of
the module. Two theorems need a hypothesis besides, which is part of their statement:
`AssignsBase = FALSE` for the translator, and merged states with the same callers for
`MergeCorrect`. Where a property names an exception, the theorem has it too. Each rests
on an inductive invariant (`IInv` where it is not named), established by one lemma per
action and by lemmas on the operators the actions share.

`ProcessTable`, in `Process_proofs` (a finite set of pids with `Root`, a positive maximum,
natural bounds): `TypeCorrect`, `Mutex`, `UniqueStateIds` (no id is returned
twice), `NoSharedDirectory`, `CountCorrect`, `TableAsserts`. Mutual exclusion holds
since only `Acquire` enters a critical section. Entries and indices are told apart
by file ids, which only grow, so registered processes differ in index and entry.
The hard one is the count. `CapacityRespected` is not inductive: a fork that was
admitted has not been counted yet, a process that dies leaves its entry and its
count behind, and `checkDeadProcesses` takes both away. `CountInv` adds that the
process in `fork.reserve` still sees a count below the maximum (nobody else is
inside), and that the entries in use and the forks under way, two sets whose
cardinalities change by one at most, are covered by the count, and equal it while
nobody was killed. From it a forked child always finds a free entry.

The allocators, in `Process_proofs` (regions of two pages or more, at least two blocks
in a page and fewer than a mask has bits; any number of pages and regions, wherever
`mmap` puts them). They are proved as they are built, one upon the other.

* `SlabAllocatorIsHeap`: with any supply of pages not in use, `SlabAllocator` implements
  `Heap`. Its invariant `SlabInv` is about the headers: a bit of a mask is set exactly
  if that block is not held (`PageRight`), the list a page is in is that of its count,
  and a class's four counters are the sizes of the sets of pages and blocks they count
  (`ClassRight`). Blocks lie at multiples of their class's size, so that two are
  disjoint if they differ (`Apart`). The invariant is stated as `Right` of a table of
  headers and two counters rather than of the variables, for `alloc` calls `expand`
  first and goes on in what it leaves. That no assert fails (`NoBlockAsserts`: a class
  whose counters claim a free page has one, a freed block was in use) follows from the
  cardinalities, and that the headers are right (`HeadersCorrect`) from the invariant.
* `PagesRight` is about the regions: a bitmap has the bits of the pages not handed out,
  and a region without such a page is busy. `FreePageRight` says that `freePage` keeps
  it, and fails no assert, for every page that is `Found`: one whose region is in
  `m_regions`, or has no region of `m_regions` less than a region behind the page. For
  these `find()` returns the region of the page or none (`FindsOwn`). Every other page is
  misfiled (`Misfiled`), and the code does not keep that from happening (`Slab.cpp:143`
  above).
* `Together` joins the two until a page is misfiled: the pages handed out are those
  with an owner. Then each step of the whole, `shrink` included, is one of
  `SlabAllocator`'s. A page that is misfiled is one that `shrink` gives back with the
  headers already right, so that all of it is a heap until then (`SupplyRight`,
  `HeapCorrect`); `AllocatorTypes`, `NoPageAsserts` and `PagesCorrect` are the run's
  invariants.

`StateScheduler_proofs` (the root and the first state exist, `None` is no state):
`TypeCorrect`, `StatesUsedSafely`, `StatesExplored`, and `YieldingWorks`, the action
property `YieldGivesWay`. `ExecutorInv(p)` describes the sets of one process (which
are disjoint, where the current and the yielded state are at each label) and is
preserved by each action of that process; a step of another process leaves it alone
but for `Balance`, which makes the child's copy. `Ownership` then says that a live
state is owned by a process, and by one only unless it was yielded at a fork; a process
that shut down owns at most what it had yielded, which nobody explores (`Abandoned`).

`TbExecution_proofs` (a guest of at least one instruction, blocks that do not end
before they begin, a handler): `NoAssertFails`, `ModesCorrect` and `Refinement`.

* That no assert fails is not inductive: whether `finalizeTranslationBlockExec` finds
  what it expects depends on what a fork, an exception or a switch left long before.
  `TypeInv` says which stacks there are: none, one frame, or a helper on a block that
  is not done. `WaitingInv` says that a state that waits is inactive, symbolic, and has
  frames exactly when `needFinalize` is set; `CurrentInv` says the same of the active
  state at each point of the cpu loop. `BlockInv` is about program counters: `env->eip`
  lags behind a state in the middle of a block, but it is an instruction executed in the
  same block, which is where an exception or a hijacked access leaves the guest.
* The refinement maps a state to the next instruction of the block it is in, or to
  its pc. Lemmas say when a step of the code is one of `GuestRun` or none (`Stutters`,
  `OneMoves`); each action then has one. That a return from a helper, a switch in the
  middle of a block and a block that is finished later leave every position is the point
  of the proof. A hijacked access and an exception that comes back to the block execute
  instructions of the block again (`CorePlugin.cpp:421`), which is `GuestRun`'s
  `Reexecute`; `BlockInv` bounds it to the block the state is in.

`StateMemory_proofs` (finitely many states; an object has more ObjectStates than there
are states, which is what a fork takes while it copies): `TypeCorrect`,
`MemoryCorrect`, `CpuCorrect` and `ShortcutsCorrect`. Reading what was stored is not
inductive: a write in place must not be seen by another state. `OwnedAlone` is what
makes the owner of an ObjectState a licence to write in place: it is bound in its
owner's address space and in no other. `OwnCpu` says that every state owns its CPU
objects, so that the pointers kept to them stay right without a lookup; a fork makes
all owned objects of the parent shared and must copy the CPU objects for both. `Kept`
puts the contents of the active state's CPU where they are in each mode: in `env`, in
the object, or in the expression; it excepts the registers of a state that wrote a
symbolic register in concrete mode (`misplaced`). These are stated of a machine, not
of the variables, so that the lemmas on lookups, copies and writes apply to the
intermediate machines of an action that does several. That there is an unused
ObjectState for a copy is a pigeonhole argument (`FreshIsUnused`).

`StateMerge_proofs` (no bounds on states, inputs, conditions, callers and
expressions): `PathsDivide`, which is `PathsPartition`; `MergeKeepsData`; and
`MergeCorrect`, which is `MergeSound`. A merge takes the constraints the two states
share and the disjunction of the rest: `MergedPath` and `InA` say that these are the
inputs of both, and that the condition in the select expressions tells the two
apart, which holds only because their paths are disjoint (`ApartInv`). `Same` relates a
state to what the guest computed for an input and leaves out the caller on the stack.
`MergeKeepsData` is what merging promises whatever the callers. `MergeCorrect` is
about behaviours in which the states that merge have the same callers (`SameCallers`, an
action formula, from which `StackInv` follows); `different_callstacks` shows that the
code does not see to it.

`StateOwned_proofs` (finitely many states and devices, any natural `BlockDevAS`, 0
included): `PluginStatesCorrect` and `SectorsCorrect`. `PluginInv` needs that a cached
plugin state is that of a state that is not yet deleted: an address is used again, so
a cache that outlives the deletion would be taken for the new state's. `DiskInv` needs
that a state has an object at one address only, and that an object it may write in
place is at one of its addresses and in no other state. That is about addresses, and
devices have them to themselves only if `BlockDevAS` is large enough, which it is not
in the code (above). Working on the proof showed that the pool of objects the model
first had was too small: a write of several sectors needs its new objects before the
old ones are let go. It has had a spare row since.

`TbLifetime_proofs` (finitely many states, at least one hook; with or without a flush
when states switch): `BlocksKept`, which is `BlocksHeld`, and `SignalsCorrect`, which
is `SignalsRight`. `CountInv`: a count is the number of states whose last block it is,
those terminated but not yet deleted included, and one for QEMU, and what is kept is
what has a count. `FrameInv`: a block that is executed is the one its state referred
to last. `SignalInv` relates the code emitted so far to the signals, also for the
block in translation, whose last signal has no plugins whenever a hook begins.

`TcgTranslator`, in `GuestCode_proofs` (the kinds of temps are disjoint, every home
has an address): `TypeCorrect`, `CachesCorrect` (`ValuesCoherent`), `HomesCorrect` and
`CachesAlwaysUsable`, for any `Arith`, under the hypothesis `AssignsBase = FALSE`,
without which `ValuesCoherent` and `HomesCoherent` are false (the loop of
`tcg-llvm.cpp:617` above). The
inductive invariant `Inv` is built on `Coherent(llvm, tcg)`, about a machine and a TCG
state rather than about the variables, so that it can be stated of the intermediate
results of the helpers: `GetValueCoherent` and `SetValueCoherent` say that the helpers
keep it, and each action chains them. It needs that homes of different temps differ
(`Apart`), that slots of local temps are known, and that memory holds every global and
local temp whether or not it is cached.

`SoftMmu`, in `GuestCode_proofs` (pages are made of objects of whole words, a page table
says something of each page an access may touch; any sizes, kinds of pages, page tables
and size of the TLB): `AccessesCorrect`, which is `AccessesAtomic`, and `CodeCorrect`,
which is `CodeFollowsMemory`. `AccessesAtomic` speaks of accesses that have ended;
`MmuInv` adds what holds of one in progress.

* `TlbRight`: what an entry of the TLB says of a page is what the page table says, so
  that it does not matter which entries an access over two pages displaces.
* `StoreInv`: a store is still whole, or cut into bytes of which those above the
  `k`-th are written (`Above`) and nothing else is (`OnlyTargets`). It may have written
  some bytes and be whole again, as access to a device begins anew. Why such a store
  cannot fault is the crux: it was translated at its first byte before it was cut and
  at its last byte before it wrote, and these are all the pages it touches.
* `LoadInv`: a load is whole, both of its aligned words are to be read, or the high one
  is and the bytes of the low one are right (`LowRead`), unless a device or symbolic I/O
  answers one of its bytes (`AnswerTouched`): what they answer is theirs to say.
* Lemmas on addresses: an aligned word lies in one page (`Words`), an access that does
  not span objects does too (`InPage`), and bytes of one access that are in one page
  differ in their offset (`Offsets`).

`SymbolicInputs`, in `GuestCode_proofs` (any numbers of states, locations, variables and
values): `PathsCorrect`, which is `PathsHaveInputs`, and `FirstPathCorrect`, which is
`FirstPathNative`. `SymbolicInv` has that states differ in a variable that exists
already (`DisjointInv`) and that a path says nothing of one that does not
(`VariablesInv`): so a new variable neither joins two paths nor leaves one without an
input. A speculative state may be infeasible until `SelectInfeasible` or its
selection decides, and never runs before (`InputTypes`). In concolic mode a branch keeps
in the current state the values that agree with its assignment, which is why the first
path does not part from the native one (`NativeInv`, of every location) as long as making
values symbolic kept them (`lost`).

What only TLC checks: liveness (`ChildRegisters`, `YieldedReturns`), as fairness and
`ENABLED` are out of the prover's reach.

## How the code is read

* Much of this port stands behind `assert(false && "J stubbed")`, often with the
  text it replaced in a comment. A path that only reaches such an assert would
  leave nothing to say of the code around it, so an assert of this kind is taken as
  passed, and the commented text is taken where it stood. The modules say where:
  restoring a state in `doStateSwitch` (`StateMemory`'s first state stays the active
  one, `TbExecution` and `StateMerge` switch), the choice of mode by symbolic
  registers (`TbExecution` may choose either), references to blocks (`TbLifetime`).
* CMake leaves `MMUFunctionHandlers.cpp`, `CorePlugin.cpp` and `QemuSocket.cpp` out of
  the build of this port; the first two are modelled as they stand. `slab_init()`
  is commented out (`S2E.cpp:272`) and `shrink()` has no caller; `Slab` has both.
* Blocks are not chained in `TbExecution`: what breaks a chain (`s2e_tb_reset_jump`) is
  stubbed, so a block that ends goes back to the cpu loop.
* QEMU's cpu loop, TLB refill and translation loop, KLEE's forks, solver, searcher,
  address spaces and `updateStates`, the kernel, and the guest are external: they are
  modelled as this code uses them. KLEE's `DebugConstraints` is off.
* `clone` copies a memory cache whose constructor makes it empty.
* `TcgTranslator` models code that TCG's front ends produce: operations read only
  temps that hold something; plain temps die at the end of a basic block; `ld` and
  `st` through a register access fields that are no global's home; `div2` writes its
  quotient over its divisor only where the remainder is dead; every translation
  block ends with `exit_tb`. Where control arrives at a label from a branch, all
  temps but the registers may hold anything and memory agrees with TCG, which is
  what `MemoryCoherent` guarantees at the branch.

## Not modelled, and why

* What a TCG operation computes, types and labels: abstracted in `TcgTranslator`.
  KLEE and TCG give the reference, and the numeric divergences are listed above.
* The S2E TLB and the chains of jumps between blocks: every caller is stubbed. The
  dirty mask but for merges; accesses of 8 bytes in `SoftMmu`, which go as those of 4.
* `readMemoryConcrete8` writes what it read back to the virtual address whatever
  kind of address it was given (`S2EExecutionState.cpp:1130`); only virtual addresses
  are modelled. Conversions of flags, strings and Lua values.
* Device snapshots: the file they are written to is never opened for the first
  state, and restoring one is stubbed.
* Plugin loading (`initPlugins` goes once over the configuration, in its order, and
  checks names, dependencies and duplicates), TCG plugin entry points, the
  monitor socket, statistics, expression wrappers, the select removal pass: no state
  over time, or I/O on which no other part depends.
* `tryAquire` and the atomic functions: one instruction each, no caller that
  keeps the lock. A failing `mmap` or `system()`, and memory errors of C++ itself.

## What could come next

1. `TcgOperations`: what each operation computes (`tcg-llvm.cpp:983-1411`) at a small
   width against a reference definition.
2. The TLB and the restoring of states, once the port has them again.
