---------------------------- MODULE TbExecution ----------------------------
(* How translation blocks and helpers are executed: natively, or by KLEE one  *)
(* LLVM instruction at a time, for states that fork in the middle of a block  *)
(* and finish the rest of it when they are scheduled                          *)
(* (src/src/s2e/S2EExecutor.cpp, S2EExecutionState.cpp).                      *)
(*                                                                            *)
(* The guest is a loop of Length instructions cut into blocks; an LLVM        *)
(* instruction of a block stands for all those of a guest instruction, and a  *)
(* pc for a pc together with a pid.  QEMU's cpu loop is external: it ends     *)
(* what is left of a block before anything else, calls                        *)
(* s2e_qemu_cleanup_tb_exec() after each longjmp, and selects another state   *)
(* between blocks.  What is under an assert(false && "J stubbed") is taken as *)
(* its commented text has it, or any outcome where it has none.               *)
EXTENDS Naturals, Sequences, FiniteSets

CONSTANTS State, First, None,
          Length,    \* the guest instructions are 0 .. Length - 1
          LastOf,    \* the last instruction of the block each one belongs to
          Handler    \* where interrupts go to

Instr == 0 .. Length - 1

ASSUME TbExecutionAssumption ==
  /\ First \in State /\ None \notin Instr
  /\ Length \in Nat \ {0} /\ Handler \in Instr
  /\ LastOf \in [Instr -> Instr]
  /\ \A i \in Instr : i <= LastOf[i] /\ \A j \in i .. LastOf[i] : LastOf[j] = LastOf[i]

VARIABLES
  cpu,                 \* where the thread is: in the loop, KLEE, native code ...
  current,             \* g_s2e_state
  alive, ended,        \* the states there are, and those that were terminated
  stack,               \* the frames above main's; the top one's "at" is state->pc
  main,                \* where main's frame is: at the dummy instruction or beyond
  prevPC,              \* is state->prevPC set
  needFinalize,        \* m_needFinalizeTBExec
  active, concrete,    \* m_active, m_runningConcrete
  forkDisabled,        \* forkDisabled
  startSymbexAt,       \* m_startSymbexAtPC
  toRunSymbolically,   \* m_toRunSymbolically
  guestPc,             \* env->eip of the state: in a block, where the state entered it
  nativePc             \* the instruction that native code is at

frames == <<stack, main, prevPC>>
modes  == <<active, concrete>>
wishes == <<startSymbexAt, toRunSymbolically>>
pcs    == <<guestPc, nativePc>>
life   == <<current, alive, ended>>
vars == <<cpu, life, frames, modes, needFinalize, forkDisabled, wishes, pcs>>

Running(s) == current = s /\ s \in alive

Init ==
  /\ cpu = "loop" /\ current = First /\ alive = {First} /\ ended = {}
  /\ stack = [s \in State |-> <<>>] /\ main = [s \in State |-> "dummy"]
  /\ prevPC = [s \in State |-> FALSE] /\ needFinalize = [s \in State |-> FALSE]
  /\ active = [s \in State |-> s = First] /\ concrete = [s \in State |-> s = First]
  /\ forkDisabled = [s \in State |-> FALSE]
  /\ startSymbexAt = [s \in State |-> None]
  /\ toRunSymbolically = [s \in State |-> {}]
  /\ guestPc = [s \in State |-> 0] /\ nativePc = 0

\* An assert of the code fails unless it holds.
Assert(holds, then) ==
  IF holds THEN cpu' = then ELSE cpu' = "abort"

-----------------------------------------------------------------------------
(* Frames *)

Frame(fn, at, last) == [fn |-> fn, at |-> at, last |-> last]
Tb(i) == Frame("tb", i, LastOf[i])

\* A helper the block calls, the interrupt handler and set_cc_op_eflags.
Function(fn) == Frame(fn, 0, 0)

Top(s) == stack[s][Len(stack[s])]

PrepareFunctionExecution(s, frame) ==
  /\ stack' = [stack EXCEPT ![s] = Append(@, frame)]
  /\ prevPC' = [prevPC EXCEPT ![s] = TRUE]
  /\ UNCHANGED main

\* The frames once the instruction at the top is done.
Stepped(s) == [stack[s] EXCEPT ![Len(stack[s])].at = @ + 1]

CleanupTranslationBlock(s) ==
  /\ stack' = [stack EXCEPT ![s] = <<>>]
  /\ main' = [main EXCEPT ![s] = "dummy"]
  /\ prevPC' = [prevPC EXCEPT ![s] = FALSE]

-----------------------------------------------------------------------------
(* executeInstructions: KLEE steps the current state until its frames are gone *)

Stepping(s) == cpu = "klee" /\ Running(s) /\ stack[s] # <<>>
Done(frame) == frame.at > frame.last

Compute(s) ==
  /\ Stepping(s) /\ ~Done(Top(s))
  /\ stack' = [stack EXCEPT ![s] = Stepped(s)]
  /\ prevPC' = [prevPC EXCEPT ![s] = TRUE]
  /\ UNCHANGED <<cpu, life, main, modes, needFinalize, forkDisabled, wishes, pcs>>

\* klee::Executor pushes the frame of a helper that the block calls.
CallHelper(s) ==
  /\ Stepping(s) /\ Top(s).fn = "tb" /\ ~Done(Top(s))
  /\ PrepareFunctionExecution(s, Function("helper"))
  /\ UNCHANGED <<cpu, life, modes, needFinalize, forkDisabled, wishes, pcs>>

\* For comparison: state->pc stays behind the call in main's frame.
EndOfExecutionBeyond(s) ==
  /\ prevPC' = [prevPC EXCEPT ![s] = FALSE]
  /\ main' = [main EXCEPT ![s] = "beyond"]

\* "The TB finished executing normally": main's frame is left as it was found.
EndOfExecution(s) ==
  /\ prevPC' = [prevPC EXCEPT ![s] = FALSE]
  /\ main' = [main EXCEPT ![s] = "dummy"]

\* A frame returns.  Where the last one leaves the guest is what it computed.
Return(s) ==
  LET f == Top(s)
      n == Len(stack[s])
      caller == SubSeq(stack[s], 1, n - 1)
  IN  /\ Stepping(s) /\ Done(f)
      /\ IF n > 1
         THEN /\ stack' = [stack EXCEPT ![s] = [caller EXCEPT ![n - 1].at = @ + 1]]
              /\ UNCHANGED <<cpu, main, prevPC, guestPc>>
         ELSE /\ stack' = [stack EXCEPT ![s] = caller]
              /\ EndOfExecution(s)
              /\ guestPc' = [guestPc EXCEPT ![s] =
                               CASE f.fn = "tb" -> f.at % Length
                                 [] f.fn = "interrupt" -> Handler
                                 [] OTHER -> @]
              /\ cpu' = "loop"
      /\ UNCHANGED <<life, modes, needFinalize, forkDisabled, wishes, nativePc>>

\* Translated code stores env->eip before some instructions and not before others:
\* at i, it is that of any instruction since the state entered the block.
Stored(s, i) == guestPc[s] .. i

\* A helper raises an exception: CpuExitException from wherever it is called.
Raise(s) ==
  /\ Stepping(s) /\ ~Done(Top(s))
  /\ IF stack[s][1].fn = "tb"
     THEN \E pc \in Stored(s, stack[s][1].at) : guestPc' = [guestPc EXCEPT ![s] = pc]
     ELSE UNCHANGED guestPc
  /\ cpu' = "left"
  /\ UNCHANGED <<life, frames, modes, needFinalize, forkDisabled, wishes, nativePc>>

-----------------------------------------------------------------------------
(* Forks *)

\* For comparison: the rest of the block is forgotten.
DoStateForkUnfinished(s, t) ==
  /\ needFinalize' = [needFinalize EXCEPT ![t] = FALSE]
  /\ active' = [active EXCEPT ![t] = FALSE]
  /\ concrete' = [concrete EXCEPT ![t] = FALSE]

\* doStateFork: the new state is to finish the block when it is first scheduled.
DoStateFork(s, t) ==
  /\ needFinalize' = [needFinalize EXCEPT ![t] = TRUE]
  /\ active' = [active EXCEPT ![t] = FALSE]
  /\ concrete' = [concrete EXCEPT ![t] = concrete[s]]

\* fork(): s goes on with the first frames, its copy t with the second.
ForkInto(s, t, mine, other) ==
  LET Copy(f) == [f EXCEPT ![t] = f[s]]
  IN  /\ Stepping(s) /\ ~Done(Top(s)) /\ ~forkDisabled[s]
      /\ t \in State \ (alive \cup ended)
      /\ Assert(active[s] /\ ~concrete[s], "klee")
      /\ alive' = alive \cup {t}
      /\ stack' = [stack EXCEPT ![s] = mine, ![t] = other]
      /\ prevPC' = [prevPC EXCEPT ![s] = TRUE, ![t] = TRUE]
      /\ DoStateFork(s, t)
      /\ main' = Copy(main) /\ forkDisabled' = Copy(forkDisabled)
      /\ startSymbexAt' = Copy(startSymbexAt)
      /\ toRunSymbolically' = Copy(toRunSymbolically) /\ guestPc' = Copy(guestPc)
      /\ UNCHANGED <<current, ended, nativePc>>

\* A branch on a symbolic condition, or a switch: both are past it.
Branch(s, t) == ForkInto(s, t, Stepped(s), Stepped(s))

\* handleForkAndConcretize: the new state is to execute the call again (pc =
\* prevPC).  With forkDisabled, or a constant address, it only computes (Compute).
ForkAndConcretize(s, t) == ForkInto(s, t, Stepped(s), stack[s])

SetForking(s) ==
  /\ cpu \in {"klee", "native"} /\ Running(s)
  /\ forkDisabled' = [forkDisabled EXCEPT ![s] = ~@]
  /\ UNCHANGED <<cpu, life, frames, modes, needFinalize, wishes, pcs>>

\* terminateState: of the current state it leaves the cpu loop, of another it
\* does not.
TerminateState(s) ==
  /\ cpu \in {"klee", "native"} /\ s \in alive
  /\ alive' = alive \ {s} /\ ended' = ended \cup {s}
  /\ cpu' = IF s = current THEN "left" ELSE cpu
  /\ UNCHANGED <<current, frames, modes, needFinalize, forkDisabled, wishes, pcs>>

-----------------------------------------------------------------------------
(* The current state at the points of QEMU's cpu loop *)

At(s, point) == cpu = point /\ Running(s)

\* finalizeTranslationBlockExec: what the fork left of the block comes first.
FinalizeTranslationBlockExec(s) ==
  /\ At(s, "loop")
  /\ needFinalize' = [needFinalize EXCEPT ![s] = FALSE]
  /\ IF needFinalize[s] THEN Assert(stack[s] # <<>> /\ ~concrete[s], "klee")
                        ELSE cpu' = "ready"
  /\ UNCHANGED <<life, frames, modes, forkDisabled, wishes, pcs>>

\* cleanupTranslationBlock, after every longjmp.  A state that was terminated is
\* not run again.
AfterLongjmp ==
  /\ cpu = "left"
  /\ CleanupTranslationBlock(current)
  /\ IF active[current] THEN cpu' = IF current \in alive THEN "loop" ELSE "select"
                        ELSE cpu' = "abort"
  /\ UNCHANGED <<life, modes, needFinalize, forkDisabled, wishes, pcs>>

SwitchMode(s, toConcrete) == concrete' = [concrete EXCEPT ![s] = toConcrete]

\* executeFunction: a helper runs in KLEE, called from main's frame.
ExecuteFunction(s, fn) ==
  /\ SwitchMode(s, FALSE)
  /\ Assert(~prevPC[s] /\ stack[s] = <<>>, "klee")
  /\ PrepareFunctionExecution(s, Function(fn))
  /\ UNCHANGED <<life, active, needFinalize, forkDisabled, wishes, pcs>>

\* doInterrupt: natively if all registers are concrete, which may raise another
\* exception, in KLEE otherwise.
DoInterrupt(s) ==
  /\ At(s, "ready")
  /\ \/ /\ SwitchMode(s, TRUE)
        /\ \/ cpu' = "loop" /\ guestPc' = [guestPc EXCEPT ![s] = Handler]
           \/ cpu' = "left" /\ UNCHANGED guestPc
        /\ UNCHANGED <<life, frames, active, needFinalize, forkDisabled, wishes, nativePc>>
     \/ ExecuteFunction(s, "interrupt")

\* setCCOpEflags: in KLEE if the flags may be symbolic, and natively otherwise.
SetCCOpEflags(s) ==
  /\ At(s, "ready")
  /\ \/ /\ SwitchMode(s, TRUE)
        /\ UNCHANGED <<cpu, life, frames, active, needFinalize, forkDisabled, wishes, pcs>>
     \/ ExecuteFunction(s, "set_cc_op_eflags")

\* executeTranslationBlockKlee
ExecuteTranslationBlockKlee(s) ==
  /\ SwitchMode(s, FALSE)
  /\ Assert(active[s] /\ stack[s] = <<>> /\ main[s] = "dummy", "klee")
  /\ PrepareFunctionExecution(s, Tb(guestPc[s]))
  /\ UNCHANGED nativePc

ExecuteTranslationBlockConcrete(s) ==
  /\ SwitchMode(s, TRUE)
  /\ Assert(active[s], "native")
  /\ nativePc' = guestPc[s]
  /\ UNCHANGED frames

WantsKlee(s) == guestPc[s] = startSymbexAt[s] \/ guestPc[s] \in toRunSymbolically[s]

\* executeTranslationBlock.  The test for blocks that read symbolic registers is
\* stubbed: any block may run in KLEE, as all do with m_executeAlwaysKlee.
ExecuteTranslationBlock(s) ==
  /\ At(s, "ready")
  /\ startSymbexAt' = [startSymbexAt EXCEPT ![s] = None]
  /\ toRunSymbolically' = [toRunSymbolically EXCEPT ![s] = @ \ {guestPc[s]}]
  /\ \/ ExecuteTranslationBlockKlee(s)
     \/ ~WantsKlee(s) /\ ExecuteTranslationBlockConcrete(s)
  /\ UNCHANGED <<life, active, needFinalize, forkDisabled, guestPc>>

-----------------------------------------------------------------------------
(* Native code *)

NativeStep(s) ==
  /\ At(s, "native")
  /\ IF nativePc = LastOf[nativePc]
     THEN /\ guestPc' = [guestPc EXCEPT ![s] = (nativePc + 1) % Length]
          /\ cpu' = "loop" /\ UNCHANGED nativePc
     ELSE nativePc' = nativePc + 1 /\ UNCHANGED <<cpu, guestPc>>
  /\ UNCHANGED <<life, frames, modes, needFinalize, forkDisabled, wishes>>

\* Native code is left in the middle of a block, with pc in env->eip.
Leave(s, pc) ==
  /\ At(s, "native") /\ pc \in Stored(s, nativePc)
  /\ guestPc' = [guestPc EXCEPT ![s] = pc]
  /\ UNCHANGED <<life, frames, modes, needFinalize, forkDisabled, nativePc>>

NativeRaise(s, pc) == Leave(s, pc) /\ cpu' = "left" /\ UNCHANGED wishes

\* readRamConcreteCheck meets a symbolic byte, or a device or custom instruction
\* calls jumpToSymbolic().
JumpToSymbolic(s, pc) ==
  /\ Leave(s, pc)
  /\ Assert(active[s] /\ concrete[s], "left")
  /\ startSymbexAt' = [startSymbexAt EXCEPT ![s] = pc]
  /\ UNCHANGED toRunSymbolically

\* A plugin asks for the instruction at getPc() to be executed again, in KLEE.
JumpToSymbolicCpp(s, pc) ==
  /\ Leave(s, pc) /\ concrete[s] /\ cpu' = "left"
  /\ toRunSymbolically' = [toRunSymbolically EXCEPT ![s] = @ \cup {pc}]
  /\ startSymbexAt' = [startSymbexAt EXCEPT ![s] = pc]

\* s2e_hijack_memory_access: native code goes on with what it finds in memory or with
\* the constant a plugin puts in its place, but not with an expression: what the block
\* has executed since the pc in env->eip is then executed again in KLEE.
HijackMemoryAccess(s, pc) ==
  \/ NativeStep(s)
  \/ JumpToSymbolicCpp(s, pc)
  \/ NativeRaise(s, pc)   \* the plugin raises CpuExitException

-----------------------------------------------------------------------------
(* selectNextState and doStateSwitch, where the loop allows it *)

\* For comparison: the old state keeps the mode it was in.
DoStateSwitchConcrete(s) ==
  /\ concrete' = concrete
  /\ active' = [active EXCEPT ![current] = FALSE, ![s] = TRUE]

DoStateSwitch(s) ==
  /\ concrete' = [concrete EXCEPT ![current] = FALSE]
  /\ active' = [active EXCEPT ![current] = FALSE, ![s] = TRUE]

SelectNextState(s) ==
  /\ cpu \in {"loop", "ready", "select"} /\ s \in alive \ {current}
  /\ Assert(active[current] /\ ~active[s] /\ ~concrete[s], "loop")
  /\ DoStateSwitch(s)
  /\ current' = s
  /\ UNCHANGED <<alive, ended, frames, needFinalize, forkDisabled, wishes, pcs>>

-----------------------------------------------------------------------------
Klee(s) ==
  \/ Compute(s) \/ CallHelper(s) \/ Return(s) \/ Raise(s)
  \/ \E t \in State : Branch(s, t) \/ ForkAndConcretize(s, t)

Native(s) ==
  \/ NativeStep(s)
  \/ \E pc \in Instr : NativeRaise(s, pc) \/ JumpToSymbolic(s, pc) \/ HijackMemoryAccess(s, pc)

Loop(s) ==
  \/ FinalizeTranslationBlockExec(s) \/ ExecuteTranslationBlock(s)
  \/ DoInterrupt(s) \/ SetCCOpEflags(s) \/ SelectNextState(s)

Next ==
  \/ \E s \in State : \/ Klee(s) \/ Native(s) \/ Loop(s)
                      \/ SetForking(s) \/ TerminateState(s)
  \/ AfterLongjmp

Spec == Init /\ [][Next]_vars

-----------------------------------------------------------------------------
(* Properties *)

\* None of the asserts of executeTranslationBlockKlee, finalizeTranslationBlockExec,
\* executeFunction, doStateFork, doStateSwitch and jumpToSymbolic fails, in whichever
\* order blocks, interrupts, forks, exceptions and switches come.
AssertsHold == cpu # "abort"

\* The thread's state alone is active and may be in concrete mode; a state that is
\* switched out in the middle of a block is to finish it, and one that is not has
\* no frames left over.
ModesRight ==
  \A s \in alive :
    /\ active[s] <=> s = current
    /\ concrete[s] => s = current /\ stack[s] = <<>>
    /\ s # current => (needFinalize[s] <=> stack[s] # <<>>)

\* The instruction a state executes next: that of the block it is in, or where its
\* last block or an exception left it.
Position ==
  [s \in State |-> CASE s \in ended -> 0
                     [] At(s, "native") -> nativePc
                     [] At(s, "left") -> guestPc[s]
                     [] OTHER -> IF stack[s] # <<>> /\ stack[s][1].fn = "tb"
                                 THEN stack[s][1].at % Length ELSE guestPc[s]]

Guest == INSTANCE GuestRun WITH at <- Position, leaving <- cpu = "left"

\* Whatever is forked, concretized, raised, undone to be executed again symbolically
\* or left to be finished later: no state skips an instruction, and none executes one
\* twice but those of the block that an exception or a jump to symbolic mode leaves
\* ("some instructions already have been executed in the current translation block
\* and will be reexecuted in symbolic mode", CorePlugin.cpp:421).
ExecutesGuest == Guest!Spec
=============================================================================
