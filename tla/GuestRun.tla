------------------------------ MODULE GuestRun ------------------------------
(* What running a guest promises: each state executes the instructions of the *)
(* guest one after the other and skips none, but for interrupts that take it  *)
(* to their handler.  Only when it is thrown out of a block may it execute    *)
(* again what it executed of that block.  A fork leaves each half before or   *)
(* after the instruction that forked.                                         *)
EXTENDS Naturals

CONSTANTS State, First, Length, LastOf, Handler

VARIABLES alive,   \* the states there are
          ended,   \* those that were terminated
          at,      \* the next instruction of each state
          leaving  \* is the state that runs thrown out of its block

Instr == 0 .. Length - 1
Next1(i) == (i + 1) % Length

Init == alive = {First} /\ ended = {} /\ at = [s \in State |-> 0]

Advance(s) ==
  /\ at' = [at EXCEPT ![s] = Next1(@)]
  /\ UNCHANGED <<alive, ended>>

Interrupt(s) ==
  /\ at' = [at EXCEPT ![s] = Handler]
  /\ UNCHANGED <<alive, ended>>

\* Back to an instruction of the same block.
Reexecute(s) ==
  /\ leaving'
  /\ \E i \in Instr : at[s] \in i .. LastOf[i] /\ at' = [at EXCEPT ![s] = i]
  /\ UNCHANGED <<alive, ended>>

Fork(s, t) ==
  /\ t \notin alive \cup ended
  /\ alive' = alive \cup {t}
  /\ \E i, j \in {at[s], Next1(at[s])} : at' = [at EXCEPT ![s] = i, ![t] = j]
  /\ UNCHANGED ended

Terminate(s) ==
  /\ alive' = alive \ {s}
  /\ ended' = ended \cup {s}
  /\ at' = [at EXCEPT ![s] = 0]

Next == \E s \in alive : \/ Advance(s) \/ Interrupt(s) \/ Reexecute(s) \/ Terminate(s)
                         \/ \E t \in State : Fork(s, t)

Spec == Init /\ [][Next]_<<alive, ended, at>>
=============================================================================
