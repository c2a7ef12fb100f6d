----------------------------- MODULE TbLifetime ----------------------------
(* How long what S2E keeps of a translation block lives: its LLVM function    *)
(* and the signals its code emits (struct S2ETranslationBlock), from          *)
(* translation, during which plugins connect to the signals                   *)
(* (src/src/s2e/Plugins/CorePlugin.cpp), to the last state that executes it   *)
(* (src/src/s2e/S2EExecutor.cpp, S2EExecutionState.cpp).                      *)
(*                                                                            *)
(* Signals are plugins' points: signal i of a block is the set of the points  *)
(* whose plugins connected to it.  External: QEMU's translation loop, the     *)
(* cache of blocks and its flush, klee.  The reference of a state to its last *)
(* block and the allocation of S2ETranslationBlock are under an               *)
(* assert(false && "J stubbed") and are taken as their commented text has     *)
(* them; LLVM functions are not kept (KeepLLVMFunctions).                     *)
EXTENDS Naturals, Sequences, FiniteSets, SequencesExt

CONSTANTS
  State, First,    \* the addresses of states, and that of the first one
  Tb,              \* the addresses of S2ETranslationBlocks
  Points,          \* the hooks called while a block is translated: 1 .. Points
  FlushTBsOnStateSwitch,   \* --flush-tbs-on-state-switch, on by default
  None

ASSUME TbLifetimeAssumption ==
  /\ IsFiniteSet(State) /\ First \in State
  /\ None \notin State \cup Tb /\ Points \in Nat \ {0}
  /\ FlushTBsOnStateSwitch \in BOOLEAN

VARIABLES
  live, current, deleted,  \* the states, g_s2e_state, m_deletedStates
  last,                    \* m_lastS2ETb of the states
  frame,                   \* the block whose LLVM function a state has a frame of
  qemu,                    \* the blocks QEMU has allocated
  usable,                  \* those of them that were translated to the end
  refCount,                \* refCount of the blocks
  kept,                    \* the blocks whose function and signals still exist
  signals,                 \* executionSignals
  code,                    \* what the code emits: [signal, point], in order
  translating              \* the block being translated and the next point

life   == <<live, current, deleted>>
states == <<life, last, frame>>
blocks == <<qemu, usable, refCount, kept>>
hooks  == <<signals, code, translating>>
vars   == <<states, blocks, hooks>>

NotTranslating == [tb |-> None, point |-> 0]

Init ==
  /\ live = {First} /\ current = First /\ deleted = {}
  /\ last = [s \in State |-> None] /\ frame = [s \in State |-> None]
  /\ qemu = {} /\ usable = {} /\ kept = {}
  /\ refCount = [t \in Tb |-> 0]
  /\ signals = [t \in Tb |-> <<>>] /\ code = [t \in Tb |-> <<>>]
  /\ translating = NotTranslating

(* QEMU's loop is between two blocks of the state that runs.                  *)
BetweenBlocks == current \in live /\ frame[current] = None /\ translating = NotTranslating

-----------------------------------------------------------------------------
(* unrefS2ETb(): a block nothing refers to loses its function and signals.    *)
Unref(count, t) == IF t = None THEN count ELSE [count EXCEPT ![t] = @ - 1]
Ref(count, t) == IF t = None THEN count ELSE [count EXCEPT ![t] = @ + 1]
Unreferenced(count) == {t \in kept : count[t] = 0}
SetCounts(count) ==
  /\ refCount' = count
  /\ kept' = kept \ Unreferenced(count)

-----------------------------------------------------------------------------
(* s2e_tb_alloc(): a new block has one reference and one signal, so far       *)
(* without a plugin.                                                          *)
S2ETbAlloc(t) ==
  /\ BetweenBlocks /\ t \notin kept
  /\ refCount' = [refCount EXCEPT ![t] = 1]
  /\ signals' = [signals EXCEPT ![t] = <<{}>>] /\ code' = [code EXCEPT ![t] = <<>>]
  /\ qemu' = qemu \cup {t} /\ kept' = kept \cup {t}
  /\ translating' = [tb |-> t, point |-> 1]
  /\ UNCHANGED <<states, usable>>

(* s2e_on_translate_block_start() and the other hooks: the plugins may        *)
(* connect to the last signal; if they do, code is generated that emits it    *)
(* and another signal is made for the next hook.  A plugin may also raise     *)
(* CpuExitException, which leaves the block as it is and never executed.      *)
Connected(t, p, connects) ==
  [signals[t] EXCEPT ![Len(signals[t])] = IF connects THEN @ \cup {p} ELSE @]
InstrumentCode(t, p) == Append(code[t], [signal |-> Len(signals[t]), point |-> p])
PushSignalNot(s) == s   \* for comparison: the next hook finds the same signal
PushSignal(s) == Append(s, {})

OnTranslate(connects) ==
  LET t == translating.tb
      p == translating.point
      s == Connected(t, p, connects)
  IN  /\ t # None
      /\ IF Last(s) # {}
         THEN /\ signals' = [signals EXCEPT ![t] = PushSignal(s)]
              /\ code' = [code EXCEPT ![t] = InstrumentCode(t, p)]
         ELSE UNCHANGED <<signals, code>>
      /\ IF p < Points
         THEN translating' = [translating EXCEPT !.point = p + 1] /\ UNCHANGED usable
         ELSE translating' = NotTranslating /\ usable' = usable \cup {t}
      /\ UNCHANGED <<states, qemu, refCount, kept>>

OnTranslateRaises(connects) ==
  LET t == translating.tb
  IN  /\ t # None
      /\ signals' = [signals EXCEPT ![t] = Connected(t, translating.point, connects)]
      /\ translating' = NotTranslating
      /\ UNCHANGED <<states, blocks, code>>

(* tb_flush(): s2e_tb_free() for every block.  QEMU does so between two       *)
(* blocks, when its cache is full; s2e_flush_tb_cache() only warns if there   *)
(* are several states.                                                        *)
Flushed(count) == [t \in Tb |-> IF t \in qemu THEN count[t] - 1 ELSE count[t]]
TbFlush ==
  /\ BetweenBlocks /\ qemu # {}
  /\ qemu' = {} /\ usable' = {}
  /\ SetCounts(Flushed(refCount))
  /\ UNCHANGED <<states, hooks>>

-----------------------------------------------------------------------------
(* executeTranslationBlockKlee(): the state refers to the block it executes,  *)
(* until it executes another one, and has a frame of its function.            *)
ExecuteTranslationBlockKlee(t) ==
  /\ BetweenBlocks /\ t \in usable
  /\ IF last[current] # t
     THEN /\ SetCounts(Ref(Unref(refCount, last[current]), t))
          /\ last' = [last EXCEPT ![current] = t]
     ELSE UNCHANGED <<refCount, kept, last>>
  /\ frame' = [frame EXCEPT ![current] = t]
  /\ UNCHANGED <<life, qemu, usable, hooks>>

(* The block ends or is left by an exception, of this state or, when it is    *)
(* finished by finalizeTranslationBlockExec(), of one that was forked in it.  *)
EndBlock ==
  /\ current \in live /\ frame[current] # None
  /\ frame' = [frame EXCEPT ![current] = None]
  /\ UNCHANGED <<life, last, blocks, hooks>>

(* clone(), between blocks or in the middle of one.                           *)
CloneReferenceUncounted(t) == refCount   \* for comparison: the reference is only copied
CloneReference(t) == Ref(refCount, t)

Fork(t) ==
  /\ current \in live /\ translating = NotTranslating /\ t \notin live \cup deleted
  /\ live' = live \cup {t}
  /\ last' = [last EXCEPT ![t] = last[current]]
  /\ frame' = [frame EXCEPT ![t] = frame[current]]
  /\ refCount' = CloneReference(last[current])
  /\ UNCHANGED <<current, deleted, qemu, usable, kept, hooks>>

(* terminateState(), of the state that runs or of another one.                *)
Terminate(s) ==
  /\ s \in live /\ translating = NotTranslating
  /\ live' = live \ {s} /\ deleted' = deleted \cup {s}
  /\ frame' = [frame EXCEPT ![s] = None]
  /\ UNCHANGED <<current, last, blocks, hooks>>

(* selectNextState(): doStateSwitch() may flush QEMU's cache, whether or not  *)
(* the state that it switches to is in the middle of a block; states          *)
(* terminated before are deleted now.                                         *)
SwitchFlushes(s) == FlushTBsOnStateSwitch /\ s # current
Dropped(count) == [t \in Tb |-> count[t] - Cardinality({d \in deleted : last[d] = t})]

SelectNextState(s) ==
  /\ s \in live /\ (current \notin live \/ BetweenBlocks) /\ translating = NotTranslating
  /\ s # current \/ deleted # {}
  /\ current' = s /\ deleted' = {}
  /\ IF SwitchFlushes(s)
     THEN qemu' = {} /\ usable' = {} /\ SetCounts(Dropped(Flushed(refCount)))
     ELSE UNCHANGED <<qemu, usable>> /\ SetCounts(Dropped(refCount))
  /\ last' = [d \in State |-> IF d \in deleted THEN None ELSE last[d]]
  /\ UNCHANGED <<live, frame, hooks>>

Next ==
  \/ \E t \in Tb : S2ETbAlloc(t) \/ ExecuteTranslationBlockKlee(t)
  \/ \E connects \in BOOLEAN : OnTranslate(connects) \/ OnTranslateRaises(connects)
  \/ TbFlush \/ EndBlock
  \/ \E s \in State : Fork(s) \/ Terminate(s) \/ SelectNextState(s)

Spec == Init /\ [][Next]_vars

-----------------------------------------------------------------------------
(* A block QEMU may still execute, or one that a state has yet to finish,     *)
(* possibly long after QEMU flushed it and the state that forked went on,     *)
(* has its function and signals; and no block is kept, or counts a reference, *)
(* for states that are gone.  It says nothing of QEMU's TranslationBlock,     *)
(* which a flush frees even if the state that is switched to is in the middle *)
(* of it ("Dangerous. Expect crashes.", S2EExecutor.cpp:2829): getTb() of     *)
(* that state, s2e_current_tb, then names freed memory.                       *)
BlocksHeld ==
  /\ qemu \subseteq kept
  /\ \A s \in live : frame[s] # None => frame[s] \in kept
  /\ \A t \in kept : t \in qemu \/ \E s \in live \cup deleted : last[s] = t

(* Executing a block reaches, at each point, the plugins that connected at    *)
(* that point and no others, and every plugin that connected; whatever        *)
(* became of other translations, and although all hooks share the last signal *)
(* (every hook asserts that nothing is connected to it yet).                  *)
SignalsRight ==
  /\ translating.tb # None => Last(signals[translating.tb]) = {}
  /\ \A t \in usable :
       /\ \A i \in DOMAIN code[t] : signals[t][code[t][i].signal] = {code[t][i].point}
       /\ \A i \in DOMAIN signals[t] : signals[t][i] # {} =>
            \E j \in DOMAIN code[t] : code[t][j].signal = i
=============================================================================
