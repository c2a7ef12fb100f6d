------------------------- MODULE TbExecution_proofs -------------------------
(***************************************************************************)
(* Blocks and helpers, in whichever order they are forked, left, switched  *)
(* out and finished later, break no assert of the code and execute the     *)
(* guest one instruction after the other, going back only within a block   *)
(* that an exception leaves, for any guest, any blocks and any number of   *)
(* states.                                                                 *)
(***************************************************************************)
EXTENDS TbExecution, SequenceTheorems, TLAPS

-----------------------------------------------------------------------------
(* The stacks of a state: nothing, a block or a function, or a helper that a  *)
(* block calls and does not count as done before the helper returns.          *)

TbFrame == {f \in [fn : {"tb"}, at : Nat, last : Instr] : f.at <= f.last + 1}
FunctionFrame == [fn : {"interrupt", "set_cc_op_eflags"}, at : {0, 1}, last : {0}]
HelperFrame == [fn : {"helper"}, at : {0, 1}, last : {0}]
BaseFrame == TbFrame \cup FunctionFrame
AnyFrame == BaseFrame \cup HelperFrame
Caller == {f \in TbFrame : ~Done(f)}

One(st) == \E f \in BaseFrame : st = <<f>>
Two(st) == \E f \in Caller, g \in HelperFrame : st = <<f, g>>
Stacks == {st \in Seq(AnyFrame) : st = <<>> \/ One(st) \/ Two(st)}

StepOf(f) == [f EXCEPT !.at = @ + 1]

\* The instruction that a state with such a stack, whose last block left the guest
\* at pc, executes next.
InTb(st) == st # <<>> /\ st[1].fn = "tb"
Upcoming(st, pc) == IF InTb(st) THEN st[1].at % Length ELSE pc

\* The block of such a stack was entered at pc.
Covers(st, pc) == InTb(st) => st[1].last = LastOf[pc] /\ pc <= st[1].at

\* A pair is the sequence of its two elements.
LEMMA Pairs ==
  ASSUME NEW S, NEW f \in S, NEW g \in S
  PROVE  /\ Append(<<f>>, g) = <<f, g>>
         /\ SubSeq(<<f, g>>, 1, 1) = <<f>>
         /\ Append(<<>>, f) = <<f>>
         /\ SubSeq(<<f>>, 1, 0) = <<>>
         /\ Len(<<>>) = 0 /\ Len(<<f>>) = 1 /\ Len(<<f, g>>) = 2
         /\ <<f>> # <<>> /\ <<f, g>> # <<>> /\ <<f>> # <<f, g>>
         /\ <<f>>[1] = f /\ <<f, g>>[1] = f /\ <<f, g>>[2] = g
         /\ <<>> \in Seq(S) /\ <<f>> \in Seq(S) /\ <<f, g>> \in Seq(S)
  <1>1. /\ <<>> \in Seq(S) /\ <<f>> \in Seq(S) /\ <<f, g>> \in Seq(S)
        /\ Len(<<>>) = 0 /\ Len(<<f>>) = 1 /\ Len(<<f, g>>) = 2
        /\ <<f>>[1] = f /\ <<f, g>>[1] = f /\ <<f, g>>[2] = g
    OBVIOUS
  <1>2. ASSUME NEW a \in Seq(S), NEW b \in Seq(S), Len(a) = Len(b),
               \A i \in 1 .. Len(a) : a[i] = b[i]
        PROVE  a = b
    BY <1>2, SeqEqual
  <1>3. Append(<<f>>, g) = <<f, g>>
    <2>1. /\ Append(<<f>>, g) \in Seq(S) /\ Len(Append(<<f>>, g)) = 2
          /\ Append(<<f>>, g)[1] = f /\ Append(<<f>>, g)[2] = g
      BY <1>1, AppendProperties
    <2>2. \A i \in 1 .. 2 : Append(<<f>>, g)[i] = <<f, g>>[i]
      <3>1. \A i \in 1 .. 2 : i = 1 \/ i = 2
        OBVIOUS
      <3>. QED BY <3>1, <2>1, <1>1
    <2>. QED BY <2>1, <2>2, <1>1, <1>2, Zenon
  <1>4. SubSeq(<<f, g>>, 1, 1) = <<f>>
    <2>1. \A i \in 1 .. 1 : <<f, g>>[i] \in S
      BY <1>1
    <2>2. /\ SubSeq(<<f, g>>, 1, 1) \in Seq(S) /\ Len(SubSeq(<<f, g>>, 1, 1)) = 1
          /\ SubSeq(<<f, g>>, 1, 1)[1] = f
      BY <1>1, <2>1, SubSeqProperties
    <2>3. \A i \in 1 .. 1 : SubSeq(<<f, g>>, 1, 1)[i] = <<f>>[i]
      BY <2>2, <1>1
    <2>. QED BY <2>2, <2>3, <1>1, <1>2, Zenon
  <1>5. Append(<<>>, f) = <<f>> /\ SubSeq(<<f>>, 1, 0) = <<>>
    OBVIOUS
  <1>6. <<f>> # <<>> /\ <<f, g>> # <<>> /\ <<f>> # <<f, g>>
    OBVIOUS
  <1>. QED BY <1>1, <1>3, <1>4, <1>5, <1>6

\* Pushing and popping one frame.
LEMMA SmallSequences ==
  /\ \A f, g : Append(<<f>>, g) = <<f, g>> /\ SubSeq(<<f, g>>, 1, 1) = <<f>>
  /\ \A f : Append(<<>>, f) = <<f>> /\ SubSeq(<<f>>, 1, 0) = <<>>
  <1>1. ASSUME NEW f, NEW g
        PROVE  Append(<<f>>, g) = <<f, g>> /\ SubSeq(<<f, g>>, 1, 1) = <<f>>
    <2>1. f \in {f, g} /\ g \in {f, g}
      OBVIOUS
    <2>. QED BY <2>1, Pairs, Zenon
  <1>2. ASSUME NEW f PROVE Append(<<>>, f) = <<f>> /\ SubSeq(<<f>>, 1, 0) = <<>>
    OBVIOUS
  <1>. QED BY <1>1, <1>2

\* What a stack of the code looks like, with its top and what a step makes of it.
LEMMA Shapes ==
  ASSUME NEW s \in State, stack[s] \in Stacks
  PROVE  \/ stack[s] = <<>>
         \/ \E f \in BaseFrame :
               /\ stack[s] = <<f>> /\ stack[s][1] = f /\ Len(stack[s]) = 1
               /\ Top(s) = f /\ Stepped(s) = <<StepOf(f)>>
         \/ \E f \in Caller, g \in HelperFrame :
               /\ stack[s] = <<f, g>> /\ stack[s][1] = f /\ Len(stack[s]) = 2
               /\ Top(s) = g /\ Stepped(s) = <<f, StepOf(g)>>
  <1>1. CASE stack[s] = <<>>
    BY <1>1
  <1>2. CASE One(stack[s])
    <2>1. PICK f \in BaseFrame : stack[s] = <<f>>
      BY <1>2 DEF One
    <2>2. stack[s][1] = f /\ Len(stack[s]) = 1
      BY <2>1, Pairs
    <2>3. Top(s) = f
      BY <2>1, <2>2 DEF Top
    <2>4. [<<f>> EXCEPT ![1].at = @ + 1] = <<StepOf(f)>>
      BY DEF StepOf
    <2>5. Stepped(s) = <<StepOf(f)>>
      BY <2>1, <2>2, <2>4, Zenon DEF Stepped
    <2>. QED BY <2>1, <2>2, <2>3, <2>5
  <1>3. CASE Two(stack[s])
    <2>1. PICK f \in Caller, g \in HelperFrame : stack[s] = <<f, g>>
      BY <1>3 DEF Two
    <2>2. stack[s][1] = f /\ stack[s][2] = g /\ Len(stack[s]) = 2
      BY <2>1, Pairs
    <2>3. Top(s) = g
      BY <2>2 DEF Top
    <2>4. [<<f, g>> EXCEPT ![2].at = @ + 1] = <<f, StepOf(g)>>
      BY DEF StepOf
    <2>5. Stepped(s) = <<f, StepOf(g)>>
      BY <2>1, <2>2, <2>4, Zenon DEF Stepped
    <2>. QED BY <2>1, <2>2, <2>3, <2>5
  <1>. QED BY <1>1, <1>2, <1>3 DEF Stacks

\* One frame, and a helper that a block called, are stacks of the code.
LEMMA StacksMade ==
  /\ <<>> \in Stacks
  /\ \A f \in BaseFrame : <<f>> \in Stacks /\ <<f>> # <<>>
  /\ \A f \in Caller, g \in HelperFrame : <<f, g>> \in Stacks /\ <<f, g>> # <<>>
  <1>1. ASSUME NEW f \in BaseFrame PROVE <<f>> \in Stacks /\ <<f>> # <<>>
    BY Pairs DEF Stacks, One, AnyFrame
  <1>2. ASSUME NEW f \in Caller, NEW g \in HelperFrame
        PROVE  <<f, g>> \in Stacks /\ <<f, g>> # <<>>
    <2>1. f \in AnyFrame /\ g \in AnyFrame /\ Two(<<f, g>>)
      BY DEF AnyFrame, BaseFrame, Caller, Two
    <2>. QED BY <2>1, Pairs DEF Stacks
  <1>. QED BY <1>1, <1>2 DEF Stacks

\* The instruction a stack stands for.
LEMMA NextOfFrames ==
  ASSUME NEW pc
  PROVE  /\ Upcoming(<<>>, pc) = pc
         /\ \A f \in FunctionFrame : Upcoming(<<f>>, pc) = pc
         /\ \A f \in TbFrame : Upcoming(<<f>>, pc) = f.at % Length
         /\ \A f \in TbFrame, g \in HelperFrame : Upcoming(<<f, g>>, pc) = f.at % Length
  <1>1. \A f : <<f>>[1] = f /\ <<f>> # <<>>
    OBVIOUS
  <1>2. \A f, g : <<f, g>>[1] = f /\ <<f, g>> # <<>>
    OBVIOUS
  <1>3. \A f \in FunctionFrame : f.fn # "tb"
    BY DEF FunctionFrame
  <1>4. \A f \in TbFrame : f.fn = "tb"
    BY DEF TbFrame
  <1>. QED BY <1>1, <1>2, <1>3, <1>4 DEF Upcoming, InTb

\* Where the block of a stack was entered.
LEMMA CoversFrames ==
  ASSUME NEW pc
  PROVE  /\ Covers(<<>>, pc)
         /\ \A f \in FunctionFrame : Covers(<<f>>, pc)
         /\ \A f \in TbFrame : Covers(<<f>>, pc) <=> f.last = LastOf[pc] /\ pc <= f.at
         /\ \A f \in TbFrame, g \in HelperFrame :
              Covers(<<f, g>>, pc) <=> f.last = LastOf[pc] /\ pc <= f.at
  <1>1. \A f : <<f>>[1] = f /\ <<f>> # <<>>
    OBVIOUS
  <1>2. \A f, g : <<f, g>>[1] = f /\ <<f, g>> # <<>>
    OBVIOUS
  <1>3. \A f \in FunctionFrame : f.fn # "tb"
    BY DEF FunctionFrame
  <1>4. \A f \in TbFrame : f.fn = "tb"
    BY DEF TbFrame
  <1>. QED BY <1>1, <1>2, <1>3, <1>4, ZenonT(30) DEF Covers, InTb

\* The instructions of a block up to one of them belong to the same block.
LEMMA SameBlock ==
  ASSUME NEW i \in Instr, NEW j \in i .. LastOf[i], NEW k \in i .. j
  PROVE  /\ j \in Instr /\ k \in Instr /\ LastOf[k] = LastOf[i]
         /\ j \in k .. LastOf[k]
  <1>1. LastOf[i] \in Instr /\ k \in i .. LastOf[i]
    BY TbExecutionAssumption DEF Instr
  <1>. QED BY <1>1, TbExecutionAssumption DEF Instr

\* Instructions are numbered modulo the length of the guest program.
LEMMA Modulo ==
  /\ \A i \in Instr : i \in Nat /\ i % Length = i
  /\ \A i \in Nat : i % Length \in Instr
  BY TbExecutionAssumption, SMTT(30) DEF Instr

\* A block that is not done is at one of its instructions.
LEMMA CallerSteps ==
  \A f \in Caller : /\ f.at \in Instr /\ f.at % Length = f.at /\ f.fn = "tb"
                    /\ StepOf(f) \in TbFrame /\ StepOf(f).at = f.at + 1
  <1>1. \A f \in Caller : f.at \in Instr /\ f.at % Length = f.at /\ f.fn = "tb"
    <2>. SUFFICES ASSUME NEW f \in Caller
                  PROVE  f.at \in Instr /\ f.fn = "tb"
      BY Modulo
    <2>1. f.at \in Nat /\ f.last \in Instr /\ f.fn = "tb" /\ ~(f.at > f.last)
      BY DEF Caller, TbFrame, Done
    <2>2. Length \in Nat
      BY TbExecutionAssumption
    <2>. QED BY <2>1, <2>2 DEF Instr
  <1>2. \A f \in Caller : /\ StepOf(f) \in TbFrame
                          /\ StepOf(f).at = f.at + 1
    <2>. SUFFICES ASSUME NEW f \in Caller
                  PROVE  StepOf(f) \in TbFrame /\ StepOf(f).at = f.at + 1
      OBVIOUS
    <2>1. f \in [fn : {"tb"}, at : Nat, last : Instr] /\ f.at <= f.last
      BY TbExecutionAssumption DEF Caller, TbFrame, Done, Instr
    <2>2. /\ StepOf(f) \in [fn : {"tb"}, at : Nat, last : Instr]
          /\ StepOf(f).at = f.at + 1 /\ StepOf(f).last = f.last
      BY <2>1 DEF StepOf
    <2>. QED BY <2>1, <2>2 DEF TbFrame, Instr
  <1>. QED BY <1>1, <1>2

\* An instruction in the middle of a stack's work: the block's own, or the helper's.
LEMMA Steps ==
  ASSUME NEW s \in State, stack[s] \in Stacks, stack[s] # <<>>, ~Done(Top(s)), NEW pc
  PROVE  /\ Stepped(s) \in Stacks /\ Stepped(s) # <<>>
         /\ Upcoming(Stepped(s), pc) \in
              {Upcoming(stack[s], pc), (Upcoming(stack[s], pc) + 1) % Length}
         /\ Top(s).fn = "tb" =>
              LET called == Append(stack[s], Function("helper"))
              IN  /\ called \in Stacks /\ called # <<>>
                  /\ Upcoming(called, pc) = Upcoming(stack[s], pc)
         /\ stack[s][1].fn = "tb" => /\ stack[s][1].at \in Instr
                                     /\ Upcoming(stack[s], pc) = stack[s][1].at
  <1>1. \A f \in Caller : f.at \in Instr /\ f.at % Length = f.at /\ f.fn = "tb"
    BY CallerSteps
  <1>2. \A f \in Caller : StepOf(f) \in TbFrame /\ StepOf(f).at = f.at + 1
    BY CallerSteps
  <1>3. Function("helper") \in HelperFrame
    BY DEF Function, Frame, HelperFrame
  <1>4. CASE \E f \in BaseFrame :
               /\ stack[s] = <<f>> /\ stack[s][1] = f /\ Len(stack[s]) = 1
               /\ Top(s) = f /\ Stepped(s) = <<StepOf(f)>>
    <2>1. PICK f \in BaseFrame :
               /\ stack[s] = <<f>> /\ stack[s][1] = f
               /\ Top(s) = f /\ Stepped(s) = <<StepOf(f)>>
      BY <1>4
    <2>2. CASE f \in TbFrame
      <3>1. f \in Caller
        BY <2>1, <2>2 DEF Caller
      <3>3. Append(stack[s], Function("helper")) = <<f, Function("helper")>>
        BY <2>1, SmallSequences
      <3>4. StepOf(f) \in BaseFrame /\ StepOf(f) \in TbFrame
        BY <1>2, <3>1 DEF BaseFrame
      <3>5. Upcoming(stack[s], pc) = f.at
        <4>1. Upcoming(<<f>>, pc) = f.at % Length
          BY <2>2, NextOfFrames, SMTT(30)
        <4>2. f.at % Length = f.at
          BY <3>1, <1>1
        <4>. QED BY <2>1, <4>1, <4>2
      <3>6. Upcoming(Stepped(s), pc) = (f.at + 1) % Length
        <4>1. Upcoming(<<StepOf(f)>>, pc) = StepOf(f).at % Length
          BY <3>4, NextOfFrames, Zenon
        <4>2. StepOf(f).at = f.at + 1
          BY <3>1, <1>2
        <4>. QED BY <2>1, <4>1, <4>2
      <3>7. Upcoming(<<f, Function("helper")>>, pc) = f.at
        BY <2>2, <3>1, <1>1, <1>3, NextOfFrames, ZenonT(60)
      <3>8. Stepped(s) \in Stacks /\ Stepped(s) # <<>>
        BY <2>1, <3>4, StacksMade
      <3>9. <<f, Function("helper")>> \in Stacks /\ <<f, Function("helper")>> # <<>>
        BY <3>1, <1>3, StacksMade
      <3>. QED
        BY <2>1, <3>1, <3>3, <3>5, <3>6, <3>7, <3>8, <3>9, <1>1, Zenon
    <2>3. CASE f \in FunctionFrame
      <3>1. StepOf(f) \in FunctionFrame /\ f.fn # "tb"
        BY <2>1, <2>3 DEF FunctionFrame, StepOf, Done
      <3>2. Stepped(s) \in Stacks /\ Stepped(s) # <<>>
        BY <2>1, <3>1, StacksMade DEF BaseFrame
      <3>3. Upcoming(Stepped(s), pc) = pc /\ Upcoming(stack[s], pc) = pc
        BY <2>1, <2>3, <3>1, NextOfFrames, ZenonT(60)
      <3>. QED BY <2>1, <3>1, <3>2, <3>3
    <2>. QED BY <2>2, <2>3 DEF BaseFrame
  <1>5. CASE \E f \in Caller, g \in HelperFrame :
               /\ stack[s] = <<f, g>> /\ stack[s][1] = f /\ Len(stack[s]) = 2
               /\ Top(s) = g /\ Stepped(s) = <<f, StepOf(g)>>
    <2>1. PICK f \in Caller, g \in HelperFrame :
               /\ stack[s] = <<f, g>> /\ stack[s][1] = f
               /\ Top(s) = g /\ Stepped(s) = <<f, StepOf(g)>>
      BY <1>5
    <2>2. StepOf(g) \in HelperFrame /\ g.fn # "tb"
      BY <2>1 DEF HelperFrame, StepOf, Done
    <2>3. f \in TbFrame
      BY Zenon DEF Caller
    <2>4. Stepped(s) \in Stacks /\ Stepped(s) # <<>>
      BY <2>1, <2>2, StacksMade
    <2>5. Upcoming(Stepped(s), pc) = f.at /\ Upcoming(stack[s], pc) = f.at
      <3>1. /\ Upcoming(<<f, g>>, pc) = f.at % Length
            /\ Upcoming(<<f, StepOf(g)>>, pc) = f.at % Length
        BY <2>2, <2>3, NextOfFrames, Zenon
      <3>. QED BY <2>1, <3>1, <1>1
    <2>6. Upcoming(Stepped(s), pc) = Upcoming(stack[s], pc)
      BY <2>5
    <2>7. stack[s][1].at \in Instr /\ Upcoming(stack[s], pc) = stack[s][1].at
      BY <2>1, <2>5, <1>1
    <2>. QED BY <2>1, <2>2, <2>4, <2>6, <2>7
  <1>. QED BY <1>4, <1>5, Shapes

\* The block stays the one that was entered, and its instruction one of it.
LEMMA StepsCover ==
  ASSUME NEW s \in State, stack[s] \in Stacks, stack[s] # <<>>, ~Done(Top(s)),
         NEW pc \in Instr, Covers(stack[s], pc)
  PROVE  /\ Covers(Stepped(s), pc)
         /\ Top(s).fn = "tb" => Covers(Append(stack[s], Function("helper")), pc)
         /\ stack[s][1].fn = "tb" => stack[s][1].at \in pc .. LastOf[pc]
  <1>. USE DEF Instr
  <1>1. Function("helper") \in HelperFrame
    BY DEF Function, Frame, HelperFrame
  <1>2. \A f \in Caller : /\ f \in TbFrame /\ f.at \in Nat /\ f.last \in Nat
                          /\ f.at <= f.last /\ StepOf(f) \in TbFrame
                          /\ StepOf(f).at = f.at + 1 /\ StepOf(f).last = f.last
    <2>. SUFFICES ASSUME NEW f \in Caller
                  PROVE  /\ f \in TbFrame /\ f.at \in Nat /\ f.last \in Nat
                         /\ f.at <= f.last /\ StepOf(f) \in TbFrame
                         /\ StepOf(f).at = f.at + 1 /\ StepOf(f).last = f.last
      OBVIOUS
    <2>1. /\ f \in TbFrame /\ f.at \in Nat /\ f.last \in Nat /\ f.at <= f.last
          /\ f \in [fn : {"tb"}, at : Nat, last : Instr]
      BY TbExecutionAssumption DEF Caller, TbFrame, Done
    <2>2. StepOf(f).last = f.last
      BY <2>1 DEF StepOf
    <2>. QED BY <2>1, <2>2, CallerSteps
  <1>3. CASE \E f \in BaseFrame :
               /\ stack[s] = <<f>> /\ stack[s][1] = f /\ Len(stack[s]) = 1
               /\ Top(s) = f /\ Stepped(s) = <<StepOf(f)>>
    <2>1. PICK f \in BaseFrame :
               /\ stack[s] = <<f>> /\ stack[s][1] = f
               /\ Top(s) = f /\ Stepped(s) = <<StepOf(f)>>
      BY <1>3
    <2>2. CASE f \in TbFrame
      <3>1. f \in Caller
        BY <2>1, <2>2 DEF Caller
      <3>2. f.last = LastOf[pc] /\ pc <= f.at
        BY <2>1, <2>2, CoversFrames, Zenon
      <3>3. StepOf(f).last = LastOf[pc] /\ pc <= StepOf(f).at
        BY <1>2, <3>1, <3>2
      <3>4. Covers(<<StepOf(f)>>, pc)
        BY <1>2, <3>1, <3>3, CoversFrames, Zenon
      <3>5. Covers(<<f, Function("helper")>>, pc)
        BY <1>1, <2>2, <3>2, CoversFrames, Zenon
      <3>6. Append(stack[s], Function("helper")) = <<f, Function("helper")>>
        BY <2>1, SmallSequences
      <3>7. f.at \in pc .. LastOf[pc]
        BY <1>2, <3>1, <3>2
      <3>. QED BY <2>1, <3>4, <3>5, <3>6, <3>7, Zenon
    <2>3. CASE f \in FunctionFrame
      <3>1. StepOf(f) \in FunctionFrame /\ f.fn # "tb"
        BY <2>1, <2>3 DEF FunctionFrame, StepOf, Done
      <3>. QED BY <2>1, <3>1, CoversFrames, Zenon
    <2>. QED BY <2>2, <2>3 DEF BaseFrame
  <1>4. CASE \E f \in Caller, g \in HelperFrame :
               /\ stack[s] = <<f, g>> /\ stack[s][1] = f /\ Len(stack[s]) = 2
               /\ Top(s) = g /\ Stepped(s) = <<f, StepOf(g)>>
    <2>1. PICK f \in Caller, g \in HelperFrame :
               /\ stack[s] = <<f, g>> /\ stack[s][1] = f
               /\ Top(s) = g /\ Stepped(s) = <<f, StepOf(g)>>
      BY <1>4
    <2>2. StepOf(g) \in HelperFrame /\ g.fn # "tb"
      BY <2>1 DEF HelperFrame, StepOf, Done
    <2>3. f \in TbFrame
      BY Zenon DEF Caller
    <2>. HIDE DEF Instr
    <2>4. f.last = LastOf[pc] /\ pc <= f.at
      <3>1. Covers(<<f, g>>, pc) => f.last = LastOf[pc] /\ pc <= f.at
        BY <2>3, CoversFrames, Zenon
      <3>2. Covers(<<f, g>>, pc)
        BY <2>1, Zenon
      <3>. QED BY <3>1, <3>2
    <2>5. Covers(<<f, StepOf(g)>>, pc)
      <3>1. \A h \in HelperFrame : Covers(<<f, h>>, pc)
        BY <2>3, <2>4, CoversFrames, Zenon
      <3>. QED BY <2>2, <3>1, Zenon
    <2>. USE DEF Instr
    <2>6. f.at \in pc .. LastOf[pc]
      BY <1>2, <2>4
    <2>. QED BY <2>1, <2>2, <2>5, <2>6, Zenon
  <1>. QED BY <1>3, <1>4, Shapes

\* The block that a helper returns to is the one that called it.
LEMMA ReturnsCover ==
  ASSUME NEW s \in State, stack[s] \in Stacks, stack[s] # <<>>,
         NEW pc \in Instr, Covers(stack[s], pc), Len(stack[s]) > 1
  PROVE  LET n == Len(stack[s])
             caller == SubSeq(stack[s], 1, n - 1)
         IN  Covers([caller EXCEPT ![n - 1].at = @ + 1], pc)
  <1>1. PICK f \in Caller, g \in HelperFrame : stack[s] = <<f, g>> /\ Len(stack[s]) = 2
    <2>1. \E f \in Caller, g \in HelperFrame :
             /\ stack[s] = <<f, g>> /\ stack[s][1] = f /\ Len(stack[s]) = 2
             /\ Top(s) = g /\ Stepped(s) = <<f, StepOf(g)>>
      <3>1. ~(\E f \in BaseFrame :
                /\ stack[s] = <<f>> /\ stack[s][1] = f /\ Len(stack[s]) = 1
                /\ Top(s) = f /\ Stepped(s) = <<StepOf(f)>>)
        <4>1. ~(1 > 1)
          OBVIOUS
        <4>. QED BY <4>1, Zenon
      <3>. QED BY <3>1, Shapes
    <2>. QED BY <2>1
  <1>2. SubSeq(stack[s], 1, Len(stack[s]) - 1) = <<f>>
    BY <1>1, SmallSequences
  <1>3. [<<f>> EXCEPT ![1].at = @ + 1] = <<StepOf(f)>>
    BY DEF StepOf
  <1>4. [SubSeq(stack[s], 1, Len(stack[s]) - 1) EXCEPT ![Len(stack[s]) - 1].at = @ + 1]
          = <<StepOf(f)>>
    <2>1. Len(stack[s]) - 1 = 1
      BY <1>1
    <2>. QED BY <1>2, <1>3, <2>1, Zenon
  <1>5. f \in TbFrame /\ StepOf(f) \in TbFrame /\ StepOf(f).at = f.at + 1
    BY CallerSteps DEF Caller
  <1>6. f.last = LastOf[pc] /\ pc <= f.at
    BY <1>1, <1>5, CoversFrames, Zenon
  <1>7. StepOf(f).last = LastOf[pc] /\ pc <= StepOf(f).at
    BY <1>5, <1>6 DEF StepOf, TbFrame, Instr
  <1>. QED BY <1>4, <1>5, <1>7, CoversFrames, Zenon

\* A frame that returns: its caller is past the call, or nothing is left.
LEMMA Returns ==
  ASSUME NEW s \in State, stack[s] \in Stacks, stack[s] # <<>>, Done(Top(s)), NEW pc
  PROVE  LET n == Len(stack[s])
             caller == SubSeq(stack[s], 1, n - 1)
             after == [caller EXCEPT ![n - 1].at = @ + 1]
         IN  /\ n > 1 => /\ after \in Stacks /\ after # <<>>
                         /\ Upcoming(after, pc) = (Upcoming(stack[s], pc) + 1) % Length
             /\ ~(n > 1) => /\ caller = <<>> /\ stack[s][1] = Top(s)
                            /\ Top(s) \in BaseFrame
                            /\ Top(s).fn = "tb" => Upcoming(stack[s], pc) = Top(s).at % Length
                            /\ Top(s).fn # "tb" => Upcoming(stack[s], pc) = pc
  <1>1. CASE \E f \in BaseFrame :
               /\ stack[s] = <<f>> /\ stack[s][1] = f /\ Len(stack[s]) = 1
               /\ Top(s) = f /\ Stepped(s) = <<StepOf(f)>>
    <2>1. PICK f \in BaseFrame :
               stack[s] = <<f>> /\ stack[s][1] = f /\ Len(stack[s]) = 1 /\ Top(s) = f
      BY <1>1
    <2>2. SubSeq(stack[s], 1, Len(stack[s]) - 1) = <<>>
      BY <2>1, SmallSequences
    <2>3. f.fn = "tb" => f \in TbFrame
      BY DEF BaseFrame, TbFrame, FunctionFrame
    <2>4. f.fn # "tb" => f \in FunctionFrame
      BY DEF BaseFrame, TbFrame, FunctionFrame
    <2>5. f.fn = "tb" => Upcoming(stack[s], pc) = f.at % Length
      BY <2>1, <2>3, NextOfFrames, SMTT(30)
    <2>6. f.fn # "tb" => Upcoming(stack[s], pc) = pc
      BY <2>1, <2>4, NextOfFrames, Zenon
    <2>. QED BY <2>1, <2>2, <2>5, <2>6
  <1>2. CASE \E f \in Caller, g \in HelperFrame :
               /\ stack[s] = <<f, g>> /\ stack[s][1] = f /\ Len(stack[s]) = 2
               /\ Top(s) = g /\ Stepped(s) = <<f, StepOf(g)>>
    <2>1. PICK f \in Caller, g \in HelperFrame :
               stack[s] = <<f, g>> /\ Len(stack[s]) = 2
      BY <1>2
    <2>2. SubSeq(stack[s], 1, Len(stack[s]) - 1) = <<f>>
      BY <2>1, SmallSequences
    <2>3. [<<f>> EXCEPT ![1].at = @ + 1] = <<StepOf(f)>>
      BY DEF StepOf
    <2>4. [SubSeq(stack[s], 1, Len(stack[s]) - 1) EXCEPT ![Len(stack[s]) - 1].at = @ + 1]
            = <<StepOf(f)>>
      <3>1. Len(stack[s]) - 1 = 1
        BY <2>1
      <3>. QED BY <2>2, <2>3, <3>1, Zenon
    <2>5. StepOf(f) \in TbFrame /\ StepOf(f).at = f.at + 1 /\ f \in TbFrame
      BY CallerSteps DEF Caller
    <2>6. <<StepOf(f)>> \in Stacks /\ <<StepOf(f)>> # <<>>
      BY <2>5, StacksMade DEF BaseFrame
    <2>7. /\ Upcoming(<<StepOf(f)>>, pc) = (f.at + 1) % Length
          /\ Upcoming(<<f, g>>, pc) = f.at
      <3>1. Upcoming(<<StepOf(f)>>, pc) = StepOf(f).at % Length
        BY <2>5, NextOfFrames, Zenon
      <3>2. Upcoming(<<f, g>>, pc) = f.at % Length
        BY <2>1, <2>5, NextOfFrames, Zenon
      <3>. QED BY <2>5, <3>1, <3>2, CallerSteps
    <2>. QED BY <2>1, <2>4, <2>6, <2>7
  <1>. QED BY <1>1, <1>2, Shapes, Zenon

\* The first frame of a block or a function.
LEMMA Starts ==
  ASSUME NEW s \in State, stack[s] = <<>>, NEW pc \in Instr
  PROVE  /\ LET block == Append(stack[s], Tb(pc))
            IN  /\ block \in Stacks /\ block # <<>> /\ Upcoming(block, pc) = pc
                /\ Covers(block, pc)
         /\ \A fn \in {"interrupt", "set_cc_op_eflags"} :
              LET called == Append(stack[s], Function(fn))
              IN  /\ called \in Stacks /\ called # <<>> /\ Upcoming(called, pc) = pc
                  /\ Covers(called, pc)
  <1>1. Tb(pc) \in TbFrame /\ Tb(pc).at = pc /\ Tb(pc).last = LastOf[pc] /\ pc <= pc
    BY TbExecutionAssumption DEF Tb, Frame, TbFrame, Instr
  <1>2. Append(stack[s], Tb(pc)) = <<Tb(pc)>>
    BY SmallSequences
  <1>3. Upcoming(<<Tb(pc)>>, pc) = pc /\ Covers(<<Tb(pc)>>, pc)
    BY <1>1, NextOfFrames, CoversFrames, Modulo, Zenon
  <1>4. ASSUME NEW fn \in {"interrupt", "set_cc_op_eflags"}
        PROVE  LET called == Append(stack[s], Function(fn))
               IN  /\ called \in Stacks /\ called # <<>> /\ Upcoming(called, pc) = pc
                   /\ Covers(called, pc)
    <2>1. Function(fn) \in FunctionFrame
      BY DEF Function, Frame, FunctionFrame
    <2>2. Append(stack[s], Function(fn)) = <<Function(fn)>>
      BY SmallSequences
    <2>3. Upcoming(<<Function(fn)>>, pc) = pc /\ Covers(<<Function(fn)>>, pc)
      BY <2>1, NextOfFrames, CoversFrames, Zenon
    <2>. QED BY <2>1, <2>2, <2>3, StacksMade DEF BaseFrame
  <1>. QED BY <1>1, <1>2, <1>3, <1>4, StacksMade DEF BaseFrame

-----------------------------------------------------------------------------
(* The inductive invariant *)

TypeInv ==
  /\ cpu \in {"loop", "left", "ready", "klee", "native", "select"}
  /\ alive \subseteq State /\ ended \subseteq State /\ alive \cap ended = {}
  /\ current \in alive \cup ended
  /\ stack \in [State -> Stacks] /\ main = [s \in State |-> "dummy"]
  /\ prevPC \in [State -> BOOLEAN] /\ needFinalize \in [State -> BOOLEAN]
  /\ active \in [State -> BOOLEAN] /\ concrete \in [State -> BOOLEAN]
  /\ forkDisabled \in [State -> BOOLEAN]
  /\ startSymbexAt \in [State -> Instr \cup {None}]
  /\ toRunSymbolically \in [State -> SUBSET Instr]
  /\ guestPc \in [State -> Instr] /\ nativePc \in Instr

\* The states that wait, and where each of them is to go on.
WaitingInv ==
  /\ \A s \in alive : stack[s] = <<>> => ~prevPC[s]
  /\ \A s \in alive \ {current} :
        /\ ~active[s] /\ ~concrete[s]
        /\ needFinalize[s] <=> stack[s] # <<>>

\* The state of the thread, at each point of the cpu loop.
CurrentInv ==
  /\ active[current]
  /\ cpu \in {"loop", "ready", "klee", "native"} => current \in alive
  /\ cpu = "select" => current \notin alive
  /\ cpu = "loop" => (needFinalize[current] <=> stack[current] # <<>>)
  /\ cpu # "loop" /\ current \in alive => ~needFinalize[current]
  /\ cpu \in {"ready", "native"} => stack[current] = <<>>
  /\ cpu = "klee" => stack[current] # <<>>
  /\ cpu = "native" => concrete[current]
  /\ current \in alive /\ concrete[current] => stack[current] = <<>>

\* The pc of a state is where it entered its block, in KLEE or natively.
BlockInv ==
  /\ \A s \in alive : Covers(stack[s], guestPc[s])
  /\ cpu = "native" => nativePc \in guestPc[current] .. LastOf[guestPc[current]]

IInv == TypeInv /\ WaitingInv /\ CurrentInv /\ BlockInv

\* The invariant holds when the program starts.
LEMMA Initially == Init => IInv
  <1>. SUFFICES ASSUME Init PROVE IInv
    OBVIOUS
  <1>. USE TbExecutionAssumption DEF Init
  <1>1. TypeInv
    <2>1. <<>> \in Stacks /\ 0 \in Instr
      BY StacksMade DEF Instr
    <2>. QED BY <2>1 DEF TypeInv
  <1>2. WaitingInv /\ CurrentInv
    BY Zenon DEF WaitingInv, CurrentInv
  <1>3. BlockInv
    BY CoversFrames DEF BlockInv
  <1>. QED BY <1>1, <1>2, <1>3 DEF IInv

\* What an instruction of KLEE does to the stack, whatever it is.
LEMMA KleeMoves ==
  ASSUME IInv, NEW s \in State, Stepping(s), cpu' = "klee",
         NEW st \in Stacks, st # <<>>, stack' = [stack EXCEPT ![s] = st],
         Covers(st, guestPc[s]),
         prevPC' \in [State -> BOOLEAN], \A u \in State \ {s} : prevPC'[u] = prevPC[u],
         UNCHANGED <<life, main, modes, needFinalize, forkDisabled, wishes, pcs>>
  PROVE  IInv'
  <1>. USE DEF IInv, Stepping, Running, life, modes, wishes, pcs
  <1>1. TypeInv'
    BY Zenon DEF TypeInv
  <1>2. WaitingInv'
    BY DEF TypeInv, WaitingInv
  <1>3. CurrentInv'
    BY DEF TypeInv, CurrentInv
  <1>4. BlockInv'
    BY DEF TypeInv, BlockInv, Covers
  <1>. QED BY <1>1, <1>2, <1>3, <1>4

\* The steps, one by one: KLEE interprets an instruction of a block.
LEMMA ComputeStep ==
  ASSUME IInv, NEW s \in State, Compute(s) PROVE IInv'
  <1>1. stack[s] \in Stacks /\ stack[s] # <<>> /\ ~Done(Top(s)) /\ Stepping(s)
    BY DEF IInv, TypeInv, Compute, Stepping
  <1>2. Stepped(s) \in Stacks /\ Stepped(s) # <<>> /\ Covers(Stepped(s), guestPc[s])
    BY <1>1, Steps, StepsCover DEF IInv, TypeInv, BlockInv, Stepping, Running
  <1>3. prevPC' \in [State -> BOOLEAN] /\ \A u \in State \ {s} : prevPC'[u] = prevPC[u]
    BY DEF IInv, TypeInv, Compute
  <1>4. cpu' = "klee"
    BY <1>1 DEF Compute, Stepping
  <1>. QED BY <1>1, <1>2, <1>3, <1>4, KleeMoves, Zenon DEF Compute

\* A block calls a helper.
LEMMA CallHelperStep ==
  ASSUME IInv, NEW s \in State, CallHelper(s) PROVE IInv'
  <1>1. stack[s] \in Stacks /\ stack[s] # <<>> /\ ~Done(Top(s)) /\ Stepping(s)
    BY DEF IInv, TypeInv, CallHelper, Stepping
  <1>2. /\ Append(stack[s], Function("helper")) \in Stacks
        /\ Append(stack[s], Function("helper")) # <<>>
        /\ Covers(Append(stack[s], Function("helper")), guestPc[s])
    BY <1>1, Steps, StepsCover DEF CallHelper, IInv, TypeInv, BlockInv, Stepping, Running
  <1>3. prevPC' \in [State -> BOOLEAN] /\ \A u \in State \ {s} : prevPC'[u] = prevPC[u]
    BY DEF IInv, TypeInv, CallHelper, PrepareFunctionExecution
  <1>4. /\ stack' = [stack EXCEPT ![s] = Append(stack[s], Function("helper"))]
        /\ UNCHANGED main /\ cpu' = "klee"
    BY <1>1 DEF CallHelper, PrepareFunctionExecution, IInv, TypeInv, Stepping
  <1>. QED BY <1>1, <1>2, <1>3, <1>4, KleeMoves, Zenon DEF CallHelper

\* A function returns to its caller, the block to the cpu loop.
LEMMA ReturnStep ==
  ASSUME IInv, NEW s \in State, Return(s) PROVE IInv'
  <1>. DEFINE n == Len(stack[s])
              caller == SubSeq(stack[s], 1, n - 1)
              after == [caller EXCEPT ![n - 1].at = @ + 1]
  <1>1. stack[s] \in Stacks /\ stack[s] # <<>> /\ Done(Top(s)) /\ Stepping(s)
    BY DEF IInv, TypeInv, Return, Stepping
  <1>2. CASE n > 1
    <2>1. after \in Stacks /\ after # <<>> /\ Covers(after, guestPc[s])
      <3>1. Covers(stack[s], guestPc[s]) /\ guestPc[s] \in Instr
        BY <1>1 DEF IInv, TypeInv, BlockInv, Stepping, Running
      <3>. QED BY <1>1, <1>2, <3>1, Returns, ReturnsCover, Zenon
    <2>2. /\ stack' = [stack EXCEPT ![s] = after]
          /\ UNCHANGED <<cpu, main, prevPC, pcs>>
          /\ UNCHANGED <<life, modes, needFinalize, forkDisabled, wishes>>
      BY <1>2 DEF Return, pcs
    <2>. HIDE DEF after
    <2>3. prevPC' \in [State -> BOOLEAN] /\ cpu' = "klee"
      BY <1>1, <2>2 DEF IInv, TypeInv, Stepping
    <2>. QED BY <1>1, <2>1, <2>2, <2>3, KleeMoves, Zenon
  <1>3. CASE ~(n > 1)
    <2>1. caller = <<>>
      BY <1>1, <1>3, Returns
    <2>2. /\ stack' = [stack EXCEPT ![s] = <<>>]
          /\ prevPC' = [prevPC EXCEPT ![s] = FALSE] /\ main' = [main EXCEPT ![s] = "dummy"]
          /\ cpu' = "loop"
          /\ \E pc \in Instr : guestPc' = [guestPc EXCEPT ![s] = pc]
          /\ UNCHANGED <<life, modes, needFinalize, forkDisabled, wishes, nativePc>>
      <3>1. CASE Top(s).fn = "tb"
        <4>1. Top(s).at \in Nat
          BY <1>1, <1>3, <3>1, Returns, Zenon DEF BaseFrame, TbFrame, FunctionFrame
        <4>. QED BY <1>3, <2>1, <3>1, <4>1, Modulo DEF Return, EndOfExecution
      <3>2. CASE Top(s).fn # "tb"
        BY <1>3, <2>1, <3>2, TbExecutionAssumption DEF Return, EndOfExecution, IInv, TypeInv
      <3>. QED BY <3>1, <3>2
    <2>. HIDE DEF caller, n
    <2>3. PICK pc \in Instr : guestPc' = [guestPc EXCEPT ![s] = pc]
      BY <2>2, Zenon
    <2>. USE <1>1, <2>2, <2>3, StacksMade DEF IInv, Stepping, Running, life, modes, wishes
    <2>4. TypeInv'
      BY DEF TypeInv
    <2>5. WaitingInv'
      BY DEF TypeInv, WaitingInv, CurrentInv
    <2>6. CurrentInv'
      BY DEF TypeInv, CurrentInv
    <2>7. BlockInv'
      BY CoversFrames DEF TypeInv, BlockInv
    <2>. QED BY <2>4, <2>5, <2>6, <2>7
  <1>. QED BY <1>2, <1>3

\* A helper raises an exception: the block is left in the middle.
LEMMA RaiseStep ==
  ASSUME IInv, NEW s \in State, Raise(s) PROVE IInv'
  <1>1. stack[s] \in Stacks /\ stack[s] # <<>> /\ ~Done(Top(s)) /\ Stepping(s)
    BY DEF IInv, TypeInv, Raise, Stepping
  <1>2. Covers(stack[s], guestPc[s]) /\ guestPc[s] \in Instr
    BY <1>1 DEF IInv, TypeInv, BlockInv, Stepping, Running
  <1>3. PICK pc \in Instr : guestPc' = [guestPc EXCEPT ![s] = pc] /\ Covers(stack[s], pc)
    <2>1. CASE stack[s][1].fn = "tb"
      <3>1. stack[s][1].at \in guestPc[s] .. LastOf[guestPc[s]]
        BY <1>1, <1>2, <2>1, StepsCover
      <3>2. PICK pc \in Stored(s, stack[s][1].at) : guestPc' = [guestPc EXCEPT ![s] = pc]
        BY <2>1 DEF Raise
      <3>3. pc \in Instr /\ LastOf[pc] = LastOf[guestPc[s]] /\ pc <= stack[s][1].at
        BY <1>2, <3>1, <3>2, SameBlock DEF Stored
      <3>. QED BY <1>2, <3>2, <3>3 DEF Covers
    <2>2. CASE stack[s][1].fn # "tb"
      BY <1>2, <2>2, Zenon DEF Raise, IInv, TypeInv
    <2>. QED BY <2>1, <2>2
  <1>4. /\ cpu' = "left"
        /\ UNCHANGED <<life, frames, modes, needFinalize, forkDisabled, wishes, nativePc>>
    BY DEF Raise
  <1>. USE <1>1, <1>3, <1>4 DEF IInv, Stepping, Running, frames, life, modes, wishes
  <1>5. TypeInv'
    BY DEF TypeInv
  <1>6. WaitingInv' /\ CurrentInv'
    BY DEF TypeInv, WaitingInv, CurrentInv
  <1>7. BlockInv'
    BY DEF TypeInv, BlockInv, Covers
  <1>. QED BY <1>5, <1>6, <1>7

\* A state forks inside of a block.
LEMMA ForkStep ==
  ASSUME IInv, NEW s \in State, NEW t \in State, NEW mine \in Stacks, NEW other \in Stacks,
         mine # <<>>, other # <<>>, Covers(mine, guestPc[s]), Covers(other, guestPc[s]),
         ForkInto(s, t, mine, other)
  PROVE  IInv'
  <1>1. /\ Stepping(s) /\ t \in State \ (alive \cup ended) /\ t # s
        /\ active[s] /\ ~concrete[s] /\ cpu' = "klee"
    BY DEF ForkInto, Assert, IInv, TypeInv, CurrentInv, Stepping, Running
  <1>2. /\ alive' = alive \cup {t} /\ UNCHANGED <<current, ended>>
        /\ stack' = [stack EXCEPT ![s] = mine, ![t] = other]
        /\ prevPC' = [prevPC EXCEPT ![s] = TRUE, ![t] = TRUE]
        /\ needFinalize' = [needFinalize EXCEPT ![t] = TRUE]
        /\ active' = [active EXCEPT ![t] = FALSE]
        /\ concrete' = [concrete EXCEPT ![t] = concrete[s]]
        /\ main' = [main EXCEPT ![t] = main[s]]
        /\ forkDisabled' = [forkDisabled EXCEPT ![t] = forkDisabled[s]]
        /\ startSymbexAt' = [startSymbexAt EXCEPT ![t] = startSymbexAt[s]]
        /\ toRunSymbolically' = [toRunSymbolically EXCEPT ![t] = toRunSymbolically[s]]
        /\ guestPc' = [guestPc EXCEPT ![t] = guestPc[s]] /\ UNCHANGED nativePc
    BY DEF ForkInto, DoStateFork
  <1>. USE <1>1, <1>2 DEF IInv, Stepping, Running
  <1>3. TypeInv'
    BY Zenon DEF TypeInv
  <1>4. WaitingInv'
    BY SMTT(30) DEF TypeInv, WaitingInv, CurrentInv
  <1>5. CurrentInv'
    BY DEF TypeInv, WaitingInv, CurrentInv
  <1>6. BlockInv'
    BY DEF TypeInv, BlockInv, Covers
  <1>. QED BY <1>3, <1>4, <1>5, <1>6

\* The guest or a plugin switches forking on or off.
LEMMA SetForkingStep ==
  ASSUME IInv, NEW s \in State, SetForking(s) PROVE IInv'
  <1>. USE TbExecutionAssumption DEF IInv, Running, frames, life, modes, wishes, pcs,
         SetForking
  <1>1. TypeInv'
    BY DEF TypeInv
  <1>2. WaitingInv'
    BY DEF TypeInv, WaitingInv, CurrentInv
  <1>3. CurrentInv'
    BY DEF TypeInv, WaitingInv, CurrentInv
  <1>4. BlockInv'
    BY CoversFrames DEF TypeInv, WaitingInv, CurrentInv, BlockInv, Covers
  <1>. QED BY <1>1, <1>2, <1>3, <1>4

\* A state is terminated; the current one leaves the cpu loop.
LEMMA TerminateStep ==
  ASSUME IInv, NEW s \in State, TerminateState(s) PROVE IInv'
  <1>. USE TbExecutionAssumption DEF IInv, Running, frames, life, modes, wishes, pcs,
         TerminateState
  <1>1. TypeInv'
    BY DEF TypeInv
  <1>2. WaitingInv'
    BY DEF TypeInv, WaitingInv, CurrentInv
  <1>3. CurrentInv'
    BY DEF TypeInv, WaitingInv, CurrentInv
  <1>4. BlockInv'
    BY CoversFrames DEF TypeInv, WaitingInv, CurrentInv, BlockInv, Covers
  <1>. QED BY <1>1, <1>2, <1>3, <1>4

\* A block that was left is completed before the next one.
LEMMA FinalizeStep ==
  ASSUME IInv, NEW s \in State, FinalizeTranslationBlockExec(s) PROVE IInv'
  <1>. USE TbExecutionAssumption DEF IInv, Running, frames, life, modes, wishes, pcs,
         FinalizeTranslationBlockExec, At, Assert
  <1>1. TypeInv'
    BY DEF TypeInv, WaitingInv, CurrentInv
  <1>2. WaitingInv'
    BY DEF TypeInv, WaitingInv, CurrentInv
  <1>3. CurrentInv'
    BY DEF TypeInv, WaitingInv, CurrentInv
  <1>4. BlockInv'
    BY CoversFrames DEF TypeInv, WaitingInv, CurrentInv, BlockInv, Covers
  <1>. QED BY <1>1, <1>2, <1>3, <1>4

\* After a longjmp the stack is cleaned up and the cpu loop begins again.
LEMMA AfterLongjmpStep ==
  ASSUME IInv, AfterLongjmp PROVE IInv'
  <1>. USE StacksMade, NextOfFrames DEF IInv, Running, frames, life, modes, wishes, pcs,
         AfterLongjmp, CleanupTranslationBlock
  <1>1. TypeInv'
    BY DEF TypeInv, WaitingInv, CurrentInv
  <1>2. WaitingInv'
    BY DEF TypeInv, WaitingInv, CurrentInv
  <1>3. CurrentInv'
    BY DEF TypeInv, WaitingInv, CurrentInv
  <1>4. BlockInv'
    BY CoversFrames DEF TypeInv, WaitingInv, CurrentInv, BlockInv, Covers
  <1>. QED BY <1>1, <1>2, <1>3, <1>4

\* A block runs natively: its next instruction, or the end of it.
LEMMA NativeStepStep ==
  ASSUME IInv, NEW s \in State, NativeStep(s)
  PROVE  /\ IInv' /\ UNCHANGED <<life, stack>> /\ \A u \in State \ {s} : guestPc'[u] = guestPc[u]
         /\ \/ cpu' = "native" /\ nativePc' = (nativePc + 1) % Length
            \/ cpu' = "loop" /\ guestPc'[s] = (nativePc + 1) % Length
  <1>1. /\ At(s, "native") /\ guestPc[s] \in Instr
        /\ nativePc \in guestPc[s] .. LastOf[guestPc[s]]
        /\ UNCHANGED <<life, frames, modes, needFinalize, forkDisabled, wishes>>
    BY DEF NativeStep, At, Running, IInv, TypeInv, BlockInv
  <1>2. nativePc \in Instr /\ LastOf[nativePc] = LastOf[guestPc[s]]
    BY <1>1, SameBlock
  <1>. USE <1>1 DEF IInv, Running, At, frames, life, modes, wishes
  <1>3. CASE nativePc = LastOf[nativePc]
    <2>1. (nativePc + 1) % Length \in Instr
      BY <1>2, Modulo
    <2>2. PICK pc \in Instr : guestPc' = [guestPc EXCEPT ![s] = pc] /\ pc = (nativePc + 1) % Length
      BY <1>3, <2>1, Zenon DEF NativeStep
    <2>3. cpu' = "loop" /\ UNCHANGED nativePc
      BY <1>3 DEF NativeStep
    <2>4. TypeInv'
      BY <2>2, <2>3 DEF TypeInv, CurrentInv
    <2>5. WaitingInv' /\ CurrentInv'
      BY <2>2, <2>3 DEF TypeInv, WaitingInv, CurrentInv
    <2>6. BlockInv'
      BY <2>2, <2>3, CoversFrames DEF TypeInv, CurrentInv, BlockInv
    <2>. QED BY <2>2, <2>3, <2>4, <2>5, <2>6 DEF TypeInv
  <1>4. CASE nativePc # LastOf[nativePc]
    <2>1. nativePc' = nativePc + 1 /\ cpu' = "native" /\ guestPc' = guestPc
      BY <1>4 DEF NativeStep
    <2>2. nativePc + 1 \in guestPc[s] .. LastOf[guestPc[s]]
      <3>1. guestPc[s] \in Nat /\ LastOf[guestPc[s]] \in Nat
        BY <1>1, TbExecutionAssumption DEF Instr
      <3>. QED BY <1>1, <1>2, <1>4, <3>1
    <2>3. nativePc + 1 \in Instr
      BY <1>1, <2>2, TbExecutionAssumption DEF Instr
    <2>4. nativePc' = (nativePc + 1) % Length
      BY <2>1, <2>3, Modulo
    <2>5. TypeInv'
      BY <2>1, <2>3 DEF TypeInv, CurrentInv
    <2>6. WaitingInv' /\ CurrentInv'
      BY <2>1 DEF TypeInv, WaitingInv, CurrentInv
    <2>7. BlockInv'
      BY <2>1, <2>2 DEF TypeInv, CurrentInv, BlockInv, Covers
    <2>. QED BY <2>1, <2>4, <2>5, <2>6, <2>7
  <1>. QED BY <1>3, <1>4

\* Native code is left at the pc of an instruction of the block, executed or not.
LEMMA LeaveStep ==
  ASSUME IInv, NEW s \in State, NEW pc, Leave(s, pc), cpu' = "left",
         startSymbexAt' \in [State -> Instr \cup {None}],
         toRunSymbolically' \in [State -> SUBSET Instr]
  PROVE  /\ IInv' /\ UNCHANGED <<life, stack>>
         /\ \A u \in State \ {s} : guestPc'[u] = guestPc[u]
         /\ guestPc'[s] \in Instr /\ nativePc \in guestPc'[s] .. LastOf[guestPc'[s]]
  <1>1. /\ At(s, "native") /\ guestPc[s] \in Instr
        /\ nativePc \in guestPc[s] .. LastOf[guestPc[s]] /\ pc \in guestPc[s] .. nativePc
        /\ guestPc' = [guestPc EXCEPT ![s] = pc]
        /\ UNCHANGED <<life, frames, modes, needFinalize, forkDisabled, nativePc>>
    BY DEF Leave, Stored, At, Running, IInv, TypeInv, BlockInv
  <1>2. pc \in Instr /\ nativePc \in pc .. LastOf[pc]
    BY <1>1, SameBlock
  <1>. USE <1>1, <1>2 DEF IInv, Running, At, frames, life, modes
  <1>3. TypeInv'
    BY DEF TypeInv, CurrentInv
  <1>4. WaitingInv' /\ CurrentInv'
    BY DEF TypeInv, WaitingInv, CurrentInv
  <1>5. BlockInv'
    BY CoversFrames DEF TypeInv, CurrentInv, BlockInv, Covers
  <1>. QED BY <1>3, <1>4, <1>5 DEF TypeInv

\* By an exception, or to go on in KLEE, for a device or for a plugin.
LEMMA LeavesStep ==
  ASSUME IInv, NEW s \in State, NEW pc \in Instr,
         NativeRaise(s, pc) \/ JumpToSymbolic(s, pc) \/ JumpToSymbolicCpp(s, pc)
  PROVE  Leave(s, pc) /\ cpu' = "left" /\ IInv'
  <1>1. Leave(s, pc)
    BY DEF NativeRaise, JumpToSymbolic, JumpToSymbolicCpp
  <1>2. active[s] /\ concrete[s]
    BY <1>1 DEF Leave, At, Running, IInv, CurrentInv
  <1>3. cpu' = "left"
    BY <1>2 DEF NativeRaise, JumpToSymbolic, JumpToSymbolicCpp, Assert
  <1>4. /\ startSymbexAt' \in [State -> Instr \cup {None}]
        /\ toRunSymbolically' \in [State -> SUBSET Instr]
    BY DEF NativeRaise, JumpToSymbolic, JumpToSymbolicCpp, IInv, TypeInv, wishes
  <1>. QED BY <1>1, <1>3, <1>4, LeaveStep

\* Another state is selected.
LEMMA SelectStep ==
  ASSUME IInv, NEW s \in State, SelectNextState(s) PROVE IInv'
  <1>. USE NextOfFrames, Modulo DEF IInv, Running, frames, life, modes, wishes, pcs,
         SelectNextState, DoStateSwitch, Assert
  <1>1. TypeInv'
    BY Zenon DEF TypeInv, WaitingInv, CurrentInv
  <1>2. WaitingInv'
    BY DEF TypeInv, WaitingInv, CurrentInv
  <1>3. CurrentInv'
    BY DEF TypeInv, WaitingInv, CurrentInv
  <1>4. BlockInv'
    BY CoversFrames DEF TypeInv, WaitingInv, CurrentInv, BlockInv, Covers
  <1>. QED BY <1>1, <1>2, <1>3, <1>4

\* A block or a function begins in KLEE.
LEMMA BeginsInKlee ==
  ASSUME IInv, NEW s \in State, At(s, "ready"), cpu' = "klee",
         NEW st \in Stacks, st # <<>>, stack' = [stack EXCEPT ![s] = st],
         prevPC' = [prevPC EXCEPT ![s] = TRUE], concrete' = [concrete EXCEPT ![s] = FALSE],
         startSymbexAt' \in [State -> Instr \cup {None}],
         toRunSymbolically' \in [State -> SUBSET Instr], Covers(st, guestPc[s]),
         UNCHANGED <<life, main, active, needFinalize, forkDisabled, pcs>>
  PROVE  IInv'
  <1>. USE DEF IInv, At, Running, life, pcs
  <1>1. TypeInv'
    BY Zenon DEF TypeInv
  <1>2. WaitingInv' /\ CurrentInv'
    BY DEF TypeInv, WaitingInv, CurrentInv
  <1>3. BlockInv'
    BY DEF TypeInv, BlockInv, Covers
  <1>. QED BY <1>1, <1>2, <1>3

\* KLEE executes a helper for the cpu loop.
LEMMA ExecuteFunctionStep ==
  ASSUME IInv, NEW s \in State, At(s, "ready"),
         NEW fn \in {"interrupt", "set_cc_op_eflags"}, ExecuteFunction(s, fn)
  PROVE  /\ IInv'
         /\ Upcoming(stack'[s], guestPc'[s]) = Upcoming(stack[s], guestPc[s])
         /\ \A u \in State \ {s} : stack'[u] = stack[u]
         /\ UNCHANGED <<life, guestPc>> /\ cpu' = "klee"
  <1>. DEFINE st == Append(stack[s], Function(fn))
  <1>1. stack[s] = <<>> /\ ~prevPC[s] /\ guestPc[s] \in Instr
    BY DEF IInv, TypeInv, WaitingInv, CurrentInv, At, Running
  <1>2. /\ st \in Stacks /\ st # <<>> /\ Upcoming(st, guestPc[s]) = guestPc[s]
        /\ Covers(st, guestPc[s])
    BY <1>1, Starts, Zenon
  <1>3. /\ stack' = [stack EXCEPT ![s] = st] /\ cpu' = "klee"
        /\ prevPC' = [prevPC EXCEPT ![s] = TRUE] /\ concrete' = [concrete EXCEPT ![s] = FALSE]
        /\ UNCHANGED <<life, main, active, needFinalize, forkDisabled, wishes, pcs>>
    BY <1>1 DEF ExecuteFunction, PrepareFunctionExecution, SwitchMode, Assert, IInv, TypeInv
  <1>. HIDE DEF st
  <1>4. IInv'
    BY <1>2, <1>3, BeginsInKlee, Zenon DEF wishes, IInv, TypeInv
  <1>5. stack'[s] = st /\ Upcoming(stack[s], guestPc[s]) = guestPc[s]
    BY <1>1, <1>3, NextOfFrames DEF IInv, TypeInv
  <1>. QED BY <1>2, <1>3, <1>4, <1>5 DEF IInv, TypeInv, pcs

\* Native code handles the interrupt, or sets the flags.
LEMMA NativeCallStep ==
  ASSUME IInv, NEW s \in State, At(s, "ready"), concrete' = [concrete EXCEPT ![s] = TRUE],
         cpu' \in {"loop", "ready", "left"},
         NEW pc \in Instr, guestPc' = [guestPc EXCEPT ![s] = pc],
         UNCHANGED <<life, frames, active, needFinalize, forkDisabled, wishes, nativePc>>
  PROVE  IInv'
  <1>. USE DEF IInv, At, Running, life, frames, wishes
  <1>1. TypeInv'
    BY DEF TypeInv
  <1>2. WaitingInv' /\ CurrentInv'
    BY DEF TypeInv, WaitingInv, CurrentInv
  <1>3. BlockInv'
    BY CoversFrames DEF TypeInv, CurrentInv, BlockInv
  <1>. QED BY <1>1, <1>2, <1>3

\* The cpu loop delivers an interrupt.
LEMMA DoInterruptStep ==
  ASSUME IInv, NEW s \in State, DoInterrupt(s) PROVE IInv'
  <1>1. At(s, "ready") /\ guestPc[s] \in Instr /\ guestPc = [guestPc EXCEPT ![s] = @]
    BY DEF DoInterrupt, IInv, TypeInv
  <1>2. CASE ExecuteFunction(s, "interrupt")
    BY <1>1, <1>2, ExecuteFunctionStep
  <1>3. CASE ~ExecuteFunction(s, "interrupt")
    <2>1. /\ concrete' = [concrete EXCEPT ![s] = TRUE] /\ cpu' \in {"loop", "left"}
          /\ \E pc \in Instr : guestPc' = [guestPc EXCEPT ![s] = pc]
          /\ UNCHANGED <<life, frames, active, needFinalize, forkDisabled, wishes, nativePc>>
      BY <1>1, <1>3, TbExecutionAssumption DEF DoInterrupt, SwitchMode
    <2>. QED BY <1>1, <2>1, NativeCallStep, Zenon
  <1>. QED BY <1>2, <1>3

\* The flags are computed, in KLEE if they are symbolic.
LEMMA SetCCOpEflagsStep ==
  ASSUME IInv, NEW s \in State, SetCCOpEflags(s) PROVE IInv'
  <1>1. At(s, "ready") /\ guestPc[s] \in Instr /\ guestPc = [guestPc EXCEPT ![s] = guestPc[s]]
    BY DEF SetCCOpEflags, IInv, TypeInv
  <1>2. CASE ExecuteFunction(s, "set_cc_op_eflags")
    BY <1>1, <1>2, ExecuteFunctionStep
  <1>3. CASE ~ExecuteFunction(s, "set_cc_op_eflags")
    <2>1. /\ concrete' = [concrete EXCEPT ![s] = TRUE] /\ cpu' = "ready"
          /\ guestPc' = [guestPc EXCEPT ![s] = guestPc[s]]
          /\ UNCHANGED <<life, frames, active, needFinalize, forkDisabled, wishes, nativePc>>
      BY <1>1, <1>3 DEF SetCCOpEflags, SwitchMode, At, pcs
    <2>. QED BY <1>1, <2>1, NativeCallStep, Zenon
  <1>. QED BY <1>2, <1>3

\* A block begins, in KLEE or natively, where the last one left the guest.
LEMMA ExecuteTranslationBlockStep ==
  ASSUME IInv, NEW s \in State, ExecuteTranslationBlock(s)
  PROVE  /\ IInv' /\ UNCHANGED <<life, guestPc>>
         /\ Upcoming(stack[s], guestPc[s]) = guestPc[s]
         /\ \A u \in State \ {s} : stack'[u] = stack[u]
         /\ \/ cpu' = "klee" /\ Upcoming(stack'[s], guestPc'[s]) = guestPc[s]
            \/ cpu' = "native" /\ nativePc' = guestPc[s]
  <1>. DEFINE st == Append(stack[s], Tb(guestPc[s]))
  <1>1. /\ At(s, "ready") /\ stack[s] = <<>> /\ ~prevPC[s] /\ guestPc[s] \in Instr
        /\ active[s] /\ main[s] = "dummy"
    BY DEF ExecuteTranslationBlock, IInv, TypeInv, WaitingInv, CurrentInv, At, Running
  <1>2. /\ st \in Stacks /\ st # <<>> /\ Upcoming(st, guestPc[s]) = guestPc[s]
        /\ Covers(st, guestPc[s])
    BY <1>1, Starts, Zenon
  <1>3. Upcoming(stack[s], guestPc[s]) = guestPc[s]
    BY <1>1, NextOfFrames
  <1>4. /\ startSymbexAt' = [startSymbexAt EXCEPT ![s] = None]
        /\ toRunSymbolically' = [toRunSymbolically EXCEPT ![s] = @ \ {guestPc[s]}]
        /\ UNCHANGED <<life, active, needFinalize, forkDisabled, guestPc>>
    BY DEF ExecuteTranslationBlock
  <1>5. /\ startSymbexAt' \in [State -> Instr \cup {None}]
        /\ toRunSymbolically' \in [State -> SUBSET Instr]
    BY <1>4 DEF IInv, TypeInv
  <1>6. CASE ExecuteTranslationBlockKlee(s)
    <2>1. /\ stack' = [stack EXCEPT ![s] = st] /\ cpu' = "klee" /\ UNCHANGED <<main, nativePc>>
          /\ prevPC' = [prevPC EXCEPT ![s] = TRUE] /\ concrete' = [concrete EXCEPT ![s] = FALSE]
      BY <1>1, <1>6
      DEF ExecuteTranslationBlockKlee, PrepareFunctionExecution, SwitchMode, Assert, IInv, TypeInv
    <2>. HIDE DEF st
    <2>2. IInv'
      BY <1>1, <1>2, <1>4, <1>5, <2>1, BeginsInKlee, Zenon DEF pcs
    <2>3. stack'[s] = st /\ \A u \in State \ {s} : stack'[u] = stack[u]
      BY <2>1 DEF IInv, TypeInv
    <2>. QED BY <1>2, <1>3, <1>4, <2>1, <2>2, <2>3
  <1>7. CASE ~WantsKlee(s) /\ ExecuteTranslationBlockConcrete(s)
    <2>1. /\ UNCHANGED frames /\ cpu' = "native" /\ nativePc' = guestPc[s]
          /\ concrete' = [concrete EXCEPT ![s] = TRUE]
      BY <1>1, <1>7 DEF ExecuteTranslationBlockConcrete, SwitchMode, Assert
    <2>. USE <1>1, <1>4, <1>5, <2>1 DEF IInv, At, Running, life, frames
    <2>2. TypeInv'
      BY DEF TypeInv
    <2>3. WaitingInv' /\ CurrentInv'
      BY DEF TypeInv, WaitingInv, CurrentInv
    <2>4. guestPc[s] \in guestPc[s] .. LastOf[guestPc[s]]
      BY TbExecutionAssumption DEF Instr
    <2>5. BlockInv'
      BY <2>4, CoversFrames DEF TypeInv, BlockInv, Covers
    <2>. QED BY <1>3, <2>2, <2>3, <2>5
  <1>. QED BY <1>6, <1>7 DEF ExecuteTranslationBlock

\* Every step of the thread keeps the invariant.
LEMMA Inductive == IInv /\ [Next]_vars => IInv'
  <1>1. ASSUME IInv, Next PROVE IInv'
    <2>1. ASSUME NEW s \in State, Klee(s) PROVE IInv'
      <3>1. ASSUME NEW t \in State, Branch(s, t) \/ ForkAndConcretize(s, t) PROVE IInv'
        <4>1. stack[s] \in Stacks /\ stack[s] # <<>> /\ ~Done(Top(s))
          <5>1. PICK mine, other : ForkInto(s, t, mine, other)
            BY <3>1 DEF Branch, ForkAndConcretize
          <5>2. Stepping(s) /\ ~Done(Top(s))
            BY <5>1 DEF ForkInto
          <5>. QED BY <1>1, <5>2 DEF IInv, TypeInv, Stepping
        <4>2. /\ Stepped(s) \in Stacks /\ Stepped(s) # <<>> /\ Covers(stack[s], guestPc[s])
              /\ Covers(Stepped(s), guestPc[s])
          <5>1. s \in alive
            BY <3>1 DEF Branch, ForkAndConcretize, ForkInto, Stepping, Running
          <5>. QED BY <1>1, <4>1, <5>1, Steps, StepsCover DEF IInv, TypeInv, BlockInv
        <4>3. CASE Branch(s, t)
          BY <1>1, <4>2, <4>3, ForkStep DEF Branch
        <4>4. CASE ForkAndConcretize(s, t)
          BY <1>1, <4>1, <4>2, <4>4, ForkStep DEF ForkAndConcretize
        <4>. QED BY <3>1, <4>3, <4>4
      <3>. QED BY <1>1, <2>1, <3>1, ComputeStep, CallHelperStep, ReturnStep, RaiseStep DEF Klee
    <2>2. ASSUME NEW s \in State, Native(s) PROVE IInv'
      BY <1>1, <2>2, NativeStepStep, LeavesStep DEF Native, HijackMemoryAccess
    <2>3. ASSUME NEW s \in State, Loop(s) PROVE IInv'
      BY <1>1, <2>3, FinalizeStep, ExecuteTranslationBlockStep, DoInterruptStep,
         SetCCOpEflagsStep, SelectStep DEF Loop
    <2>4. ASSUME NEW s \in State, SetForking(s) \/ TerminateState(s) PROVE IInv'
      BY <1>1, <2>4, SetForkingStep, TerminateStep
    <2>5. CASE AfterLongjmp
      BY <1>1, <2>5, AfterLongjmpStep
    <2>. QED BY <1>1, <2>1, <2>2, <2>3, <2>4, <2>5 DEF Next
  <1>2. ASSUME IInv, UNCHANGED vars PROVE IInv'
    BY <1>2 DEF IInv, TypeInv, WaitingInv, CurrentInv, BlockInv, Covers, vars, life, frames,
                modes, wishes, pcs
  <1>. QED BY <1>1, <1>2

\* The inductive invariant holds in every reachable state of the cpu loop and of the
\* blocks that were left in the middle.
THEOREM Invariance == Spec => []IInv
  BY Initially, Inductive, PTL DEF Spec

-----------------------------------------------------------------------------
(* The properties *)

\* No assert of executeTranslationBlockKlee, finalizeTranslationBlockExec,
\* executeFunction, doStateFork, doStateSwitch or jumpToSymbolic can fail.
THEOREM NoAssertFails == Spec => []AssertsHold
  <1>1. IInv => AssertsHold
    BY DEF IInv, TypeInv, AssertsHold
  <1>. QED BY <1>1, Invariance, PTL

\* The thread's state alone is active and may be in concrete mode, and a state that
\* waits has the rest of a block to finish exactly when it has frames.
THEOREM ModesCorrect == Spec => []ModesRight
  <1>1. IInv => ModesRight
    BY DEF IInv, TypeInv, WaitingInv, CurrentInv, ModesRight
  <1>. QED BY <1>1, Invariance, PTL

-----------------------------------------------------------------------------
(* The guest is executed one instruction after the other *)

NextOf(s) ==
  IF At(s, "native") THEN nativePc
  ELSE IF At(s, "left") THEN guestPc[s] ELSE Upcoming(stack[s], guestPc[s])

\* The refinement mapping: where each state is in the guest program.
LEMMA Positions ==
  ASSUME IInv
  PROVE  /\ Position = [s \in State |-> IF s \in ended THEN 0 ELSE NextOf(s)]
         /\ IInv' => Position' = [s \in State |-> IF s \in ended' THEN 0 ELSE NextOf(s)']
  <1>1. ASSUME NEW s \in State
        PROVE  Position[s] = IF s \in ended THEN 0 ELSE NextOf(s)
    BY DEF Position, NextOf, Upcoming, InTb, At, Running, IInv, TypeInv
  <1>2. ASSUME IInv', NEW s \in State
        PROVE  Position'[s] = IF s \in ended' THEN 0 ELSE NextOf(s)'
    BY <1>2 DEF Position, NextOf, Upcoming, InTb, At, Running, IInv, TypeInv
  <1>. QED BY <1>1, <1>2 DEF Position

\* Off native code and exceptions the next instruction is that of the stack.
LEMMA NextInLoop ==
  ASSUME NEW s \in State
  PROVE  /\ current # s \/ cpu \notin {"native", "left"} => NextOf(s) = Upcoming(stack[s], guestPc[s])
         /\ (current # s \/ cpu \notin {"native", "left"})' =>
               NextOf(s)' = Upcoming(stack'[s], guestPc'[s])
  BY DEF NextOf, At, Running

\* When no state's next instruction changes, the guest does not notice.
LEMMA Stutters ==
  ASSUME IInv, IInv', UNCHANGED <<alive, ended>>, \A u \in State \ ended : NextOf(u)' = NextOf(u)
  PROVE  UNCHANGED <<alive, ended, Position>>
  BY Positions

\* When that of one state does, its position does and no other.
LEMMA OnePosition ==
  ASSUME IInv, IInv', NEW s \in alive, UNCHANGED <<alive, ended>>,
         \A u \in State \ {s} : NextOf(u)' = NextOf(u)
  PROVE  Position[s] = NextOf(s) /\ Position' = [Position EXCEPT ![s] = NextOf(s)']
  <1>1. Position[s] = NextOf(s) /\ s \notin ended /\ s \in State
    BY Positions DEF IInv, TypeInv
  <1>. QED BY <1>1, Positions

GuestStep == Guest!Next \/ UNCHANGED <<alive, ended, Position>>

\* Steps that touch neither stacks nor program counters are stutters.
LEMMA Unmoved ==
  ASSUME IInv, IInv', UNCHANGED <<alive, ended, stack, guestPc>>,
         cpu \notin {"native", "left"}, cpu' \notin {"native", "left"}
  PROVE  GuestStep
  <1>1. \A u \in State : NextOf(u)' = NextOf(u)
    BY NextInLoop
  <1>. QED BY <1>1, Stutters DEF GuestStep

\* The stack and the program counter of the thread's state change, and so where it goes
\* on: not at all, to the next instruction, to the interrupt handler, or back in its
\* block when it is thrown out of it.
LEMMA OneMoves ==
  ASSUME IInv, IInv', NEW s \in alive, current = s, UNCHANGED <<current, alive, ended>>,
         \A u \in State \ {s} : stack'[u] = stack[u] /\ guestPc'[u] = guestPc[u],
         \/ NextOf(s)' \in {NextOf(s), (NextOf(s) + 1) % Length, Handler}
         \/ /\ cpu' = "left" /\ NextOf(s)' \in Instr
            /\ NextOf(s) \in NextOf(s)' .. LastOf[NextOf(s)']
  PROVE  GuestStep
  <1>1. \A u \in State \ {s} : NextOf(u)' = NextOf(u)
    BY NextInLoop
  <1>2. Position[s] = NextOf(s) /\ Position' = [Position EXCEPT ![s] = NextOf(s)']
    BY <1>1, OnePosition
  <1>3. CASE NextOf(s)' = NextOf(s)
    BY <1>1, <1>3, Stutters DEF GuestStep
  <1>4. CASE NextOf(s)' = (NextOf(s) + 1) % Length
    BY <1>2, <1>4 DEF GuestStep, Guest!Next, Guest!Advance, Guest!Next1
  <1>5. CASE NextOf(s)' = Handler
    BY <1>2, <1>5 DEF GuestStep, Guest!Next, Guest!Interrupt
  <1>6. CASE /\ cpu' = "left" /\ NextOf(s)' \in Instr
             /\ NextOf(s) \in NextOf(s)' .. LastOf[NextOf(s)']
    <2>1. Guest!Reexecute(s)
      BY <1>2, <1>6 DEF Guest!Reexecute, Guest!Instr, Instr
    <2>. QED BY <2>1 DEF GuestStep, Guest!Next
  <1>. QED BY <1>3, <1>4, <1>5, <1>6

\* What KLEE does in a block is an instruction of the guest, a part of one, an interrupt,
\* or an exception that leaves the block.
LEMMA KleeRefines ==
  ASSUME IInv, IInv', NEW s \in State, Compute(s) \/ CallHelper(s) \/ Return(s) \/ Raise(s)
  PROVE  GuestStep
  <1>1. /\ Stepping(s) /\ s \in alive /\ stack[s] \in Stacks /\ stack[s] # <<>>
        /\ UNCHANGED <<current, alive, ended>> /\ guestPc[s] \in Instr
        /\ current = s /\ cpu = "klee" /\ Covers(stack[s], guestPc[s])
    BY DEF Compute, CallHelper, Return, Raise, Stepping, Running, IInv, TypeInv, BlockInv, life
  <1>. DEFINE next == Upcoming(stack[s], guestPc[s])
  <1>2. /\ NextOf(s) = next
        /\ cpu' \in {"klee", "loop"} => NextOf(s)' = Upcoming(stack'[s], guestPc'[s])
    BY <1>1, NextInLoop
  <1>. HIDE DEF next  <1>3. CASE Compute(s)
    <2>1. /\ ~Done(Top(s)) /\ stack' = [stack EXCEPT ![s] = Stepped(s)] /\ UNCHANGED guestPc
          /\ UNCHANGED cpu
      BY <1>3 DEF Compute, pcs
    <2>2. Upcoming(Stepped(s), guestPc[s]) \in {next, (next + 1) % Length}
      BY <1>1, <2>1, Steps DEF next
    <2>. QED BY <1>1, <1>2, <2>1, <2>2, OneMoves DEF IInv, TypeInv
  <1>4. CASE CallHelper(s)
    <2>1. /\ ~Done(Top(s)) /\ Top(s).fn = "tb" /\ UNCHANGED guestPc
          /\ stack' = [stack EXCEPT ![s] = Append(stack[s], Function("helper"))]
          /\ UNCHANGED cpu
      BY <1>4 DEF CallHelper, PrepareFunctionExecution, IInv, TypeInv, pcs
    <2>2. Upcoming(Append(stack[s], Function("helper")), guestPc[s]) = next
      BY <1>1, <2>1, Steps DEF next
    <2>. QED BY <1>1, <1>2, <2>1, <2>2, OneMoves DEF IInv, TypeInv
  <1>5. CASE Return(s)
    <2>. DEFINE n == Len(stack[s])
                caller == SubSeq(stack[s], 1, n - 1)
                after == [caller EXCEPT ![n - 1].at = @ + 1]
    <2>1. Done(Top(s))
      BY <1>5 DEF Return
    <2>2. CASE n > 1
      <3>1. stack' = [stack EXCEPT ![s] = after] /\ UNCHANGED <<cpu, guestPc>>
        BY <1>5, <2>2 DEF Return
      <3>2. Upcoming(after, guestPc[s]) = (next + 1) % Length
        BY <1>1, <2>1, <2>2, Returns DEF next
      <3>. HIDE DEF after
      <3>. QED BY <1>1, <1>2, <3>1, <3>2, OneMoves DEF IInv, TypeInv
    <2>3. CASE ~(n > 1)
      <3>1. /\ caller = <<>>
            /\ Top(s).fn = "tb" => next = Top(s).at % Length
            /\ Top(s).fn # "tb" => next = guestPc[s]
        BY <1>1, <2>1, <2>3, Returns, Zenon DEF next
      <3>2. /\ stack' = [stack EXCEPT ![s] = <<>>] /\ cpu' = "loop"
            /\ \A u \in State \ {s} : guestPc'[u] = guestPc[u]
        BY <1>5, <2>3, <3>1 DEF Return, IInv, TypeInv
      <3>3. guestPc'[s] \in {next, Handler}
        <4>1. CASE Top(s).fn = "tb"
          BY <1>1, <1>5, <2>3, <3>1, <4>1 DEF Return, IInv, TypeInv
        <4>2. CASE Top(s).fn = "interrupt"
          BY <1>1, <1>5, <2>3, <3>1, <4>2 DEF Return, IInv, TypeInv
        <4>3. CASE Top(s).fn \notin {"tb", "interrupt"}
          BY <1>1, <1>5, <2>3, <3>1, <4>3 DEF Return, IInv, TypeInv
        <4>. QED BY <4>1, <4>2, <4>3
      <3>4. stack'[s] = <<>> /\ Upcoming(<<>>, guestPc'[s]) = guestPc'[s]
        BY <1>1, <3>2, NextOfFrames DEF IInv, TypeInv
      <3>. HIDE DEF n, caller
      <3>. QED BY <1>1, <1>2, <3>2, <3>3, <3>4, OneMoves DEF IInv, TypeInv
    <2>. QED BY <2>2, <2>3
  <1>6. CASE Raise(s)
    <2>1. /\ ~Done(Top(s)) /\ stack' = stack /\ cpu' = "left"
          /\ \A u \in State \ {s} : guestPc'[u] = guestPc[u]
      BY <1>6 DEF Raise, frames, IInv, TypeInv
    <2>2. NextOf(s)' = guestPc'[s]
      BY <1>1, <2>1 DEF NextOf, At, Running
    <2>3. CASE stack[s][1].fn = "tb"
      <3>1. next = stack[s][1].at /\ next \in guestPc[s] .. LastOf[guestPc[s]]
        BY <1>1, <2>1, <2>3, Steps, StepsCover DEF next
      <3>2. guestPc'[s] \in guestPc[s] .. next
        BY <1>6, <2>3, <3>1 DEF Raise, Stored, IInv, TypeInv
      <3>3. guestPc'[s] \in Instr /\ next \in guestPc'[s] .. LastOf[guestPc'[s]]
        BY <1>1, <3>1, <3>2, SameBlock
      <3>. QED BY <1>1, <1>2, <2>1, <2>2, <3>3, OneMoves
    <2>4. CASE stack[s][1].fn # "tb"
      <3>1. guestPc' = guestPc /\ next = guestPc[s]
        BY <1>1, <1>6, <2>4 DEF Raise, next, Upcoming, InTb
      <3>. QED BY <1>1, <1>2, <2>1, <2>2, <3>1, OneMoves
    <2>. QED BY <2>3, <2>4
  <1>. QED BY <1>3, <1>4, <1>5, <1>6

\* A fork of the program is a fork of the guest.
LEMMA ForkRefines ==
  ASSUME IInv, IInv', NEW s \in State, NEW t \in State, Branch(s, t) \/ ForkAndConcretize(s, t)
  PROVE  GuestStep
  <1>1. PICK mine, other :
          /\ ForkInto(s, t, mine, other)
          /\ mine = Stepped(s) /\ other \in {Stepped(s), stack[s]}
    BY DEF Branch, ForkAndConcretize
  <1>2. /\ Stepping(s) /\ ~Done(Top(s)) /\ t \notin alive \cup ended /\ UNCHANGED ended
        /\ alive' = alive \cup {t}
        /\ stack' = [stack EXCEPT ![s] = mine, ![t] = other]
        /\ guestPc' = [guestPc EXCEPT ![t] = guestPc[s]]
        /\ cpu = "klee" /\ cpu' = "klee"
    BY <1>1 DEF ForkInto, Assert, Stepping, IInv, TypeInv
  <1>3. /\ s \in alive /\ s # t /\ s \notin ended /\ stack[s] \in Stacks /\ stack[s] # <<>>
    BY <1>2 DEF Stepping, Running, IInv, TypeInv
  <1>4. \A u \in State : /\ NextOf(u) = Upcoming(stack[u], guestPc[u])
                          /\ NextOf(u)' = Upcoming(stack'[u], guestPc'[u])
    BY <1>2, NextInLoop
  <1>5. Upcoming(Stepped(s), guestPc[s]) \in {NextOf(s), (NextOf(s) + 1) % Length}
    BY <1>2, <1>3, <1>4, Steps
  <1>6. /\ NextOf(s)' = Upcoming(mine, guestPc[s]) /\ NextOf(t)' = Upcoming(other, guestPc[s])
        /\ \A u \in State \ {s, t} : NextOf(u)' = NextOf(u)
    BY <1>2, <1>3, <1>4 DEF IInv, TypeInv
  <1>7. /\ NextOf(s)' \in {NextOf(s), (NextOf(s) + 1) % Length}
        /\ NextOf(t)' \in {NextOf(s), (NextOf(s) + 1) % Length}
    BY <1>1, <1>3, <1>5, <1>6, <1>4 DEF IInv, TypeInv
  <1>8. Position[s] = NextOf(s)
    BY <1>3, Positions
  <1>9. Position' = [Position EXCEPT ![s] = NextOf(s)', ![t] = NextOf(t)']
    BY <1>2, <1>3, <1>6, Positions
  <1>10. Guest!Fork(s, t)
    BY <1>2, <1>7, <1>8, <1>9, Zenon DEF Guest!Fork, Guest!Next1
  <1>. QED BY <1>3, <1>10 DEF GuestStep, Guest!Next

\* What the host does in a block is an instruction of the guest.
LEMMA NativeStepRefines ==
  ASSUME IInv, IInv', NEW s \in State, NativeStep(s) PROVE GuestStep
  <1>1. /\ s \in alive /\ current = s /\ UNCHANGED <<current, alive, ended, stack>>
        /\ stack[s] = <<>> /\ NextOf(s) = nativePc
    BY NativeStepStep DEF NativeStep, At, Running, life, NextOf, IInv, CurrentInv
  <1>2. NextOf(s)' = (nativePc + 1) % Length
    <2>1. CASE cpu' = "native"
      BY <1>1, <2>1, NativeStepStep DEF NextOf, At, Running
    <2>2. CASE cpu' = "loop"
      BY <1>1, <2>2, NativeStepStep, NextInLoop, NextOfFrames
    <2>. QED BY <2>1, <2>2, NativeStepStep
  <1>. QED BY <1>1, <1>2, NativeStepStep, OneMoves

\* When it is left it goes back at most to where the block was entered.
LEMMA LeaveRefines ==
  ASSUME IInv, IInv', NEW s \in State, NEW pc \in Instr,
         NativeRaise(s, pc) \/ JumpToSymbolic(s, pc) \/ JumpToSymbolicCpp(s, pc)
  PROVE  GuestStep
  <1>1. Leave(s, pc) /\ cpu' = "left"
    BY LeavesStep
  <1>2. /\ startSymbexAt' \in [State -> Instr \cup {None}]
        /\ toRunSymbolically' \in [State -> SUBSET Instr]
    BY DEF IInv, TypeInv
  <1>3. /\ UNCHANGED <<life, stack>> /\ \A u \in State \ {s} : guestPc'[u] = guestPc[u]
        /\ guestPc'[s] \in Instr /\ nativePc \in guestPc'[s] .. LastOf[guestPc'[s]]
    BY <1>1, <1>2, LeaveStep
  <1>4. s \in alive /\ current = s /\ NextOf(s) = nativePc /\ NextOf(s)' = guestPc'[s]
    BY <1>1, <1>3 DEF Leave, At, Running, NextOf, life
  <1>. QED BY <1>1, <1>3, <1>4, OneMoves DEF life

\* A helper that is called for the cpu loop is no instruction.
LEMMA ExecuteFunctionRefines ==
  ASSUME IInv, IInv', NEW s \in State, At(s, "ready"),
         NEW fn \in {"interrupt", "set_cc_op_eflags"}, ExecuteFunction(s, fn)
  PROVE  GuestStep
  <1>1. /\ Upcoming(stack'[s], guestPc'[s]) = Upcoming(stack[s], guestPc[s])
        /\ \A u \in State \ {s} : stack'[u] = stack[u]
        /\ UNCHANGED <<life, guestPc>> /\ cpu' = "klee"
    BY ExecuteFunctionStep
  <1>2. s \in alive /\ current = s /\ cpu = "ready"
    BY DEF At, Running
  <1>3. NextOf(s)' = NextOf(s)
    BY <1>1, <1>2, NextInLoop
  <1>. QED BY <1>1, <1>2, <1>3, OneMoves DEF life

\* An interrupt is one of the guest.
LEMMA DoInterruptRefines ==
  ASSUME IInv, IInv', NEW s \in State, DoInterrupt(s) PROVE GuestStep
  <1>1. /\ At(s, "ready") /\ s \in alive /\ current = s /\ cpu = "ready" /\ stack[s] = <<>>
        /\ NextOf(s) = guestPc[s]
    BY NextInLoop, NextOfFrames DEF DoInterrupt, At, Running, IInv, CurrentInv
  <1>2. CASE ExecuteFunction(s, "interrupt")
    BY <1>1, <1>2, ExecuteFunctionRefines
  <1>3. CASE ~ExecuteFunction(s, "interrupt")
    <2>1. /\ UNCHANGED <<current, alive, ended, stack>>
          /\ \/ cpu' = "loop" /\ guestPc' = [guestPc EXCEPT ![s] = Handler]
             \/ cpu' = "left" /\ UNCHANGED guestPc
      BY <1>3, Zenon DEF DoInterrupt, life, frames
    <2>2. CASE cpu' = "left" /\ UNCHANGED guestPc
      <3>1. NextOf(s)' = NextOf(s)
        BY <1>1, <2>1, <2>2 DEF NextOf, At, Running
      <3>. QED BY <1>1, <2>1, <2>2, <3>1, OneMoves
    <2>3. CASE cpu' = "loop" /\ guestPc' = [guestPc EXCEPT ![s] = Handler]
      <3>1. NextOf(s)' = Handler
        BY <1>1, <2>1, <2>3, NextInLoop, NextOfFrames DEF IInv, TypeInv
      <3>. QED BY <1>1, <2>1, <2>3, <3>1, OneMoves DEF IInv, TypeInv
    <2>. QED BY <2>1, <2>2, <2>3
  <1>. QED BY <1>2, <1>3

\* The cpu loop enters and completes blocks unseen by the guest.
LEMMA LoopRefines ==
  ASSUME IInv, IInv', NEW s \in State, Loop(s) PROVE GuestStep
  <1>1. CASE FinalizeTranslationBlockExec(s)
    <2>1. cpu = "loop" /\ cpu' \in {"klee", "ready"}
      BY <1>1 DEF FinalizeTranslationBlockExec, At, Assert, IInv, TypeInv
    <2>. QED BY <1>1, <2>1, Unmoved DEF FinalizeTranslationBlockExec, life, frames, pcs
  <1>2. CASE ExecuteTranslationBlock(s)
    <2>1. s \in alive /\ current = s /\ cpu = "ready"
      BY <1>2 DEF ExecuteTranslationBlock, At, Running
    <2>2. NextOf(s) = guestPc[s]
      BY <1>2, <2>1, ExecuteTranslationBlockStep, NextInLoop
    <2>3. NextOf(s)' = guestPc[s]
      <3>1. UNCHANGED life
        BY <1>2, ExecuteTranslationBlockStep
      <3>2. CASE cpu' = "klee" /\ Upcoming(stack'[s], guestPc'[s]) = guestPc[s]
        BY <3>2, NextInLoop
      <3>3. CASE cpu' = "native" /\ nativePc' = guestPc[s]
        BY <2>1, <3>1, <3>3 DEF NextOf, At, Running, life
      <3>. QED BY <1>2, <3>2, <3>3, ExecuteTranslationBlockStep
    <2>. QED BY <1>2, <2>1, <2>2, <2>3, ExecuteTranslationBlockStep, OneMoves DEF life
  <1>3. CASE DoInterrupt(s)
    BY <1>3, DoInterruptRefines
  <1>4. CASE SetCCOpEflags(s)
    <2>1. At(s, "ready") /\ cpu = "ready"
      BY <1>4 DEF SetCCOpEflags, At, Running
    <2>2. CASE ExecuteFunction(s, "set_cc_op_eflags")
      BY <2>1, <2>2, ExecuteFunctionRefines
    <2>3. CASE ~ExecuteFunction(s, "set_cc_op_eflags")
      BY <1>4, <2>1, <2>3, Unmoved, Zenon DEF SetCCOpEflags, life, frames, pcs
    <2>. QED BY <2>2, <2>3
  <1>5. CASE SelectNextState(s)
    <2>1. cpu \in {"loop", "ready", "select"} /\ cpu' = "loop"
      BY <1>5 DEF SelectNextState, Assert, IInv, TypeInv
    <2>. QED BY <1>5, <2>1, Unmoved DEF SelectNextState, frames, pcs
  <1>. QED BY <1>1, <1>2, <1>3, <1>4, <1>5 DEF Loop

\* A state that is terminated ends in the guest.
LEMMA TerminateRefines ==
  ASSUME IInv, IInv', NEW s \in State, TerminateState(s) PROVE GuestStep
  <1>1. /\ s \in alive /\ alive' = alive \ {s} /\ ended' = ended \cup {s}
        /\ UNCHANGED <<current, stack, guestPc, nativePc>>
        /\ s # current => UNCHANGED cpu
    BY DEF TerminateState, frames, pcs
  <1>2. \A u \in State \ {s} : NextOf(u)' = NextOf(u)
    BY <1>1 DEF NextOf, At, Running
  <1>3. Position' = [Position EXCEPT ![s] = 0]
    BY <1>1, <1>2, Positions
  <1>4. Guest!Terminate(s)
    BY <1>1, <1>3 DEF Guest!Terminate
  <1>. QED BY <1>1, <1>4 DEF GuestStep, Guest!Next

\* Whether the state may fork is nothing to the guest.
LEMMA SetForkingRefines ==
  ASSUME IInv, IInv', NEW s \in State, SetForking(s) PROVE GuestStep
  <1>1. UNCHANGED <<cpu, current, alive, ended, stack, guestPc, nativePc>>
    BY DEF SetForking, life, frames, pcs
  <1>2. \A u \in State : NextOf(u)' = NextOf(u)
    BY <1>1 DEF NextOf, At, Running
  <1>. QED BY <1>1, <1>2, Stutters DEF GuestStep

\* To begin again where the exception left the guest is to stutter.
LEMMA AfterLongjmpRefines ==
  ASSUME IInv, IInv', AfterLongjmp PROVE GuestStep
  <1>1. /\ cpu = "left" /\ UNCHANGED <<current, alive, ended, guestPc>> /\ current \in State
        /\ stack' = [stack EXCEPT ![current] = <<>>] /\ cpu' \in {"loop", "select"}
    BY DEF AfterLongjmp, CleanupTranslationBlock, life, pcs, IInv, TypeInv, CurrentInv
  <1>2. CASE current \in alive
    <2>1. NextOf(current) = guestPc[current]
      BY <1>1, <1>2 DEF NextOf, At, Running
    <2>2. NextOf(current)' = guestPc[current]
      BY <1>1, NextInLoop, NextOfFrames DEF IInv, TypeInv
    <2>. QED BY <1>1, <1>2, <2>1, <2>2, OneMoves DEF IInv, TypeInv
  <1>3. CASE current \in ended
    <2>1. \A u \in State \ ended : NextOf(u)' = NextOf(u)
      BY <1>1, <1>3, NextInLoop DEF IInv, TypeInv
    <2>. QED BY <1>1, <2>1, Stutters DEF GuestStep
  <1>. QED BY <1>2, <1>3 DEF IInv, TypeInv

\* Whatever is forked, concretized, raised, undone to be executed again or left to be
\* finished later, every state executes the guest one instruction after the other, and
\* goes back only in a block that an exception or a jump to symbolic mode leaves.
THEOREM Refinement == Spec => ExecutesGuest
  <1>1. Init => Guest!Init
    <2>. SUFFICES ASSUME Init PROVE Guest!Init
      OBVIOUS
    <2>1. IInv
      BY Initially
    <2>2. \A s \in State : NextOf(s) = 0
      BY NextInLoop, NextOfFrames DEF Init
    <2>3. Position = [s \in State |-> 0]
      BY <2>1, <2>2, Positions DEF Init
    <2>. QED BY <2>3 DEF Init, Guest!Init
  <1>2. IInv /\ IInv' /\ [Next]_vars => [Guest!Next]_<<alive, ended, Position>>
    <2>1. ASSUME IInv, IInv', Next PROVE GuestStep
      <3>1. ASSUME NEW s \in State, Klee(s) PROVE GuestStep
        BY <2>1, <3>1, KleeRefines, ForkRefines DEF Klee
      <3>2. ASSUME NEW s \in State, Native(s) PROVE GuestStep
        BY <2>1, <3>2, NativeStepRefines, LeaveRefines DEF Native, HijackMemoryAccess
      <3>3. ASSUME NEW s \in State, Loop(s) PROVE GuestStep
        BY <2>1, <3>3, LoopRefines
      <3>4. ASSUME NEW s \in State, SetForking(s) PROVE GuestStep
        BY <2>1, <3>4, SetForkingRefines
      <3>5. ASSUME NEW s \in State, TerminateState(s) PROVE GuestStep
        BY <2>1, <3>5, TerminateRefines
      <3>6. CASE AfterLongjmp
        BY <2>1, <3>6, AfterLongjmpRefines
      <3>. QED BY <2>1, <3>1, <3>2, <3>3, <3>4, <3>5, <3>6 DEF Next
    <2>2. ASSUME IInv, IInv', UNCHANGED vars PROVE GuestStep
      <3>1. \A u \in State : NextOf(u)' = NextOf(u)
        BY <2>2 DEF NextOf, At, Running, vars, life, frames, pcs
      <3>. QED BY <2>2, <3>1, Stutters DEF vars, life, GuestStep
    <2>. QED BY <2>1, <2>2 DEF GuestStep
  <1>. QED BY <1>1, <1>2, Invariance, PTL DEF Spec, ExecutesGuest, Guest!Spec
=============================================================================
