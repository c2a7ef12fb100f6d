--------------------------- MODULE TcgTranslator ---------------------------
(***************************************************************************)
(* The translator from TCG operations to LLVM code (tcg-llvm.cpp).  While  *)
(* it emits code it caches, for every TCG temp, the LLVM value that holds  *)
(* it (m_values) and the pointer to its home in memory (m_memValuesPtr).   *)
(*                                                                         *)
(* The emitted code runs here as it is emitted, next to the machine that   *)
(* TCG defines: tcg is what TCG says the temps hold.  An LLVM value is     *)
(* known by what it evaluates to.  Where control arrives from a branch,    *)
(* the code runs on with whatever values that path has.  The arithmetic of *)
(* an operation, the types and the labels are abstracted; what is kept is  *)
(* which values an operation reads, in which order it reads and assigns,   *)
(* and what becomes of the caches.                                         *)
(***************************************************************************)
EXTENDS Integers

CONSTANTS
  Fixed,        \* globals in a fixed host register: arguments of the function
  Global,       \* globals in memory, at the register Base[g] plus Offset[g]
  Local, Temp,  \* local temps, which live across basic blocks, and plain temps
  Base, Offset,
  Field,        \* offsets of other fields, which ld and st access
  Address,      \* the addresses the registers and offsets give
  Value,        \* values; those of a register are added to offsets
  Arith(_, _),  \* what an operation computes
  None,         \* no value: NULL in the caches, undefined for TCG
  AssignsBase   \* whether an operation may assign to a register

Globals == Fixed \cup Global                 \* below nb_globals
Saved   == Globals \cup Local                \* temps with a home in memory
Idx     == Saved \cup Temp
Cell    == ({"arg"} \X Fixed) \cup ({"stack"} \X Local) \cup ({"env"} \X Address)

ASSUME TcgTranslatorAssumption ==
  /\ Fixed \cap (Global \cup Local \cup Temp) = {}
  /\ Global \cap (Local \cup Temp) = {} /\ Local \cap Temp = {}
  /\ Base \in [Global -> Fixed] /\ Offset \in [Global -> Int] /\ Field \subseteq Int
  /\ Value \subseteq Int /\ None \notin Value \cup Cell
  /\ \A v \in Value : /\ \A g \in Global : v + Offset[g] \in Address
                      /\ \A o \in Field : v + o \in Address
  /\ \A x, y \in Value : Arith(x, y) \in Value
  /\ AssignsBase \in BOOLEAN

VARIABLES
  values,   \* m_values, evaluated
  ptrs,     \* m_memValuesPtr, evaluated
  memory,   \* what the emitted code has stored
  tcg,      \* what TCG says each temp holds
  open,     \* the current basic block has no terminator yet
  foreign   \* history: cached values and pointers of another block

llvm == [values |-> values, ptrs |-> ptrs, memory |-> memory]
vars == <<values, ptrs, memory, tcg, open, foreign>>

Becomes(m) == values' = m.values /\ ptrs' = m.ptrs /\ memory' = m.memory

\* Where TCG has a temp when its registers are as in t.
Home(t, i) == CASE i \in Fixed  -> <<"arg", i>>
                [] i \in Local  -> <<"stack", i>>
                [] i \in Global -> <<"env", t[Base[i]] + Offset[i]>>

-----------------------------------------------------------------------------
(* The helpers of the translator.  m is what the code emitted so far does. *)

\* getPtrForValue and getValue of a register.
GetRegisterPtr(m, i) ==
  IF m.ptrs[i] # None THEN m ELSE [m EXCEPT !.ptrs[i] = <<"arg", i>>]

GetRegister(m, i) ==
  IF m.values[i] # None THEN m
  ELSE LET n == GetRegisterPtr(m, i)
       IN  [n EXCEPT !.values[i] = n.memory[n.ptrs[i]]]

\* For comparison: mem_offset is left out.
GetPtrWithoutOffset(m, i) ==
  IF i \in Fixed THEN GetRegisterPtr(m, i)
  ELSE IF m.ptrs[i] # None THEN m
  ELSE LET n == GetRegister(m, Base[i])
       IN  [n EXCEPT !.ptrs[i] = <<"env", n.values[Base[i]]>>]

GetPtrForValue(m, i) ==
  IF i \in Fixed THEN GetRegisterPtr(m, i)
  ELSE IF m.ptrs[i] # None THEN m
  ELSE LET n == GetRegister(m, Base[i])
       IN  [n EXCEPT !.ptrs[i] = <<"env", n.values[Base[i]] + Offset[i]>>]

\* The code asserts that a plain temp was assigned (see TempsKept).
GetValue(m, i) ==
  IF m.values[i] # None \/ i \in Temp THEN m
  ELSE LET n == GetPtrForValue(m, i)
       IN  [n EXCEPT !.values[i] = n.memory[n.ptrs[i]]]

DelValues(m, gone) ==
  [m EXCEPT !.values = [i \in Idx |-> IF i \in gone THEN None ELSE @[i]]]

DelPtrs(m, gone) ==
  [m EXCEPT !.ptrs = [i \in Saved |-> IF i \in gone THEN None ELSE @[i]]]

\* "Invalidate all dependent global vals and pointers": only for a register idx,
\* and then the loop asks that idx, not i, is no register.
Dependent(idx) == {i \in Global : idx \in Fixed /\ idx \notin Fixed /\ Base[i] = idx}

SetValue(m, i, v) ==
  LET assigned == [m EXCEPT !.values[i] = v]
      n        == GetPtrForValue(assigned, i)
      stored   == [n EXCEPT !.memory[n.ptrs[i]] = v]
  IN  IF i \in Temp THEN assigned
      ELSE DelPtrs(DelValues(stored, Dependent(i)), Dependent(i))

\* For comparison: all pointers are dropped, those to local temps too.
StartNewBasicBlockForgets(m) == DelPtrs(DelValues(m, Idx), Saved)

\* All values and all pointers to globals are dropped.
StartNewBasicBlock(m) == DelPtrs(DelValues(m, Idx), Globals)

\* For comparison: only pointers are dropped; all values are, those of plain temps too.
InvalidatePtrsAfterCall(m) == DelPtrs(m, Globals)
InvalidateAllAfterCall(m) == DelPtrs(DelValues(m, Idx), Globals)

\* "Invalidate in-memory values because function might have changed them".
InvalidateAfterCall(m) == DelPtrs(DelValues(m, Saved), Globals)

-----------------------------------------------------------------------------
(* The machine that TCG defines *)

\* TCG code reads only temps that hold something.
Reads(args) == \A i \in args : tcg[i] # None

\* An operation assigns to a register only if AssignsBase says so.  What globals
\* hold whose base it was is not known any more.
Assign(t, i, v) ==
  [j \in Idx |-> IF j = i THEN v
                 ELSE IF j \in Global /\ i \in Fixed /\ Base[j] = i THEN None ELSE t[j]]

Assignable == IF AssignsBase THEN Idx ELSE Idx \ Fixed

\* At the end of a basic block the plain temps are dead.
EndOfBlock(t) == [i \in Idx |-> IF i \in Temp THEN None ELSE t[i]]

\* The registers keep the globals and the fields apart.
Apart(t) ==
  /\ \A g, h \in Global : g # h => Home(t, g) # Home(t, h)
  /\ \A g \in Global, r \in Fixed, o \in Field : Home(t, g) # <<"env", t[r] + o>>

\* Control comes from elsewhere, with these values of all temps that have a home.
Arrive(m, t) ==
  [m EXCEPT !.memory = [c \in Cell |->
     IF \E i \in Saved : t[i] # None /\ Home(t, i) = c
       THEN t[CHOOSE i \in Saved : Home(t, i) = c] ELSE @[c]]]

\* Between operations of a block only these change.
Step(m, t) == open /\ Becomes(m) /\ tcg' = t /\ UNCHANGED <<open, foreign>>

\* A block begins: whatever is still cached belongs to another one.
Enter(m, t) ==
  /\ Becomes(m) /\ tcg' = t /\ open' = TRUE
  /\ foreign' = {i \in Idx : m.values[i] # None} \cup {i \in Globals : m.ptrs[i] # None}

-----------------------------------------------------------------------------
(* Between translation blocks *)

\* initGlobalsAndLocalTemps: the slots of the local temps.  The other caches are as
\* the previous block left them.
InitGlobalsAndLocalTemps(m) ==
  [m EXCEPT !.ptrs = [i \in Saved |-> IF i \in Local THEN <<"stack", i>> ELSE @[i]]]

\* What TCG's temps hold where a block is entered: globals only, and anywhere else.
Incoming == {t \in [Idx -> Value \cup {None}] :
               /\ \A i \in Globals : t[i] # None
               /\ \A i \in Local \cup Temp : t[i] = None
               /\ Apart(t)}

Arriving == {t \in [Idx -> Value \cup {None}] :
               /\ \A i \in Saved : t[i] # None
               /\ \A i \in Temp : t[i] = None
               /\ \A i \in Fixed : t[i] = tcg[i]
               /\ Apart(t)}

Init ==
  \E t \in Incoming, garbage \in Value :
    LET blank == [values |-> [i \in Idx |-> None], ptrs |-> [i \in Saved |-> None],
                  memory |-> [c \in Cell |-> garbage]]
        m     == Arrive(InitGlobalsAndLocalTemps(blank), t)
    IN  /\ values = m.values /\ ptrs = m.ptrs /\ memory = m.memory
        /\ tcg = t
        /\ open = TRUE
        /\ foreign = {}

\* The end of generateCode drops every value and pointer, and the next translation
\* block is entered later, in whatever state the guest is in then.
EndTb ==
  /\ ~open
  /\ \E t \in Incoming :
       Enter(Arrive(InitGlobalsAndLocalTemps(DelPtrs(DelValues(llvm, Idx), Saved)), t), t)

-----------------------------------------------------------------------------
(* generateOperation *)

Movi(d, v) == Step(SetValue(llvm, d, v), Assign(tcg, d, v))

Mov(d, a) ==
  /\ Reads({a})
  /\ LET m == GetValue(llvm, a)
     IN  Step(SetValue(m, d, m.values[a]), Assign(tcg, d, tcg[a]))

\* Extensions: one operand.
Extend(d, a) ==
  /\ Reads({a})
  /\ LET m == GetValue(llvm, a)
     IN  Step(SetValue(m, d, Arith(m.values[a], m.values[a])),
              Assign(tcg, d, Arith(tcg[a], tcg[a])))

\* deposit: a field that is the whole word drops the first operand.
Deposit(d, a, b, whole) ==
  /\ Reads({a, b})
  /\ LET m == GetValue(GetValue(llvm, a), b)
     IN  Step(SetValue(m, d, IF whole THEN m.values[b] ELSE Arith(m.values[a], m.values[b])),
              Assign(tcg, d, IF whole THEN tcg[b] ELSE Arith(tcg[a], tcg[b])))

\* Arithmetic, shifts, setcond, movcond: one result.
Compute(d, a, b) ==
  /\ Reads({a, b})
  /\ LET m == GetValue(GetValue(llvm, a), b)
     IN  Step(SetValue(m, d, Arith(m.values[a], m.values[b])),
              Assign(tcg, d, Arith(tcg[a], tcg[b])))

\* add2: both results are computed before either is assigned.
Add2(low, high, a, b) ==
  /\ Reads({a, b}) /\ low # high
  /\ LET m == GetValue(GetValue(llvm, a), b)
     IN  Step(SetValue(SetValue(m, low, Arith(m.values[a], m.values[b])), high, m.values[b]),
              Assign(Assign(tcg, low, Arith(tcg[a], tcg[b])), high, tcg[b]))

\* div2: the divisor is read again after the quotient was assigned.  TCG assigns
\* the quotient to the divisor only when it drops the remainder.
Div2(quotient, remainder, a, b) ==
  /\ Reads({a, b}) /\ quotient # remainder
  /\ quotient = b => remainder \in Temp
  /\ LET m == GetValue(GetValue(llvm, a), b)
         v == m.values[a]
         n == GetValue(SetValue(m, quotient, Arith(v, m.values[b])), b)
     IN  Step(SetValue(n, remainder, Arith(n.values[b], v)),
              Assign(Assign(tcg, quotient, Arith(tcg[a], tcg[b])), remainder,
                     IF quotient = b THEN None ELSE Arith(tcg[b], tcg[a])))

\* A field of the environment that is no global's home.
Load(d, r, o) ==
  /\ Reads({r})
  /\ LET m == GetValue(llvm, r)
     IN  Step(SetValue(m, d, m.memory[<<"env", m.values[r] + o>>]),
              Assign(tcg, d, memory[<<"env", tcg[r] + o>>]))

Store(a, r, o) ==
  /\ Reads({a, r})
  /\ LET m == GetValue(GetValue(llvm, a), r)
     IN  Step([m EXCEPT !.memory[<<"env", m.values[r] + o>>] = m.values[a]], tcg)

\* qemu_ld: the memory helper reads guest memory at the address it is given.
GuestLoad(d, a) ==
  /\ Reads({a})
  /\ LET m == GetValue(llvm, a)
     IN  \E guest \in [Value -> Value] :
           Step(SetValue(m, d, guest[m.values[a]]), Assign(tcg, d, guest[tcg[a]]))

GuestStore(a, b) ==
  /\ Reads({a, b})
  /\ Step(GetValue(GetValue(llvm, a), b), tcg)

\* The value dies: discarding it only clears the cache.
Discard(i) == Step(DelValues(llvm, {i}), [tcg EXCEPT ![i] = None])

\* A helper is called with a; it may read every global in memory and change one.
Helper(a, g, v) ==
  LET m == InvalidateAfterCall(GetValue(llvm, a))
  IN  [m EXCEPT !.memory[Home(tcg, g)] = v]

Call(a, g, v) == Reads({a}) /\ Step(Helper(a, g, v), [tcg EXCEPT ![g] = v])

CallWithResult(a, g, v, d, result) ==
  /\ Reads({a})
  /\ Step(SetValue(Helper(a, g, v), d, result), Assign([tcg EXCEPT ![g] = v], d, result))

\* br and brcond, for the code that follows.
Br == open /\ Enter(StartNewBasicBlock(llvm), EndOfBlock(tcg))

Brcond(a, b) ==
  /\ open /\ Reads({a, b})
  /\ Enter(StartNewBasicBlock(GetValue(GetValue(llvm, a), b)), EndOfBlock(tcg))

\* set_label: control comes from the operation before, or from a branch.
SetLabel ==
  \/ open /\ Enter(StartNewBasicBlock(llvm), EndOfBlock(tcg))
  \/ \E t \in Arriving : Enter(Arrive(StartNewBasicBlock(llvm), t), t)

\* Every translation block ends with exit_tb, as do some of its basic blocks.
ExitTb ==
  /\ open /\ open' = FALSE
  /\ UNCHANGED <<values, ptrs, memory, tcg, foreign>>

-----------------------------------------------------------------------------
OneResult(d) ==
  \/ \E v \in Value : Movi(d, v)
  \/ \E a \in Idx : Mov(d, a) \/ Extend(d, a) \/ GuestLoad(d, a)
  \/ \E a, b \in Idx : Compute(d, a, b) \/ \E whole \in BOOLEAN : Deposit(d, a, b, whole)
  \/ \E r \in Fixed, o \in Field : Load(d, r, o)
  \/ \E a \in Idx, g \in Global, v, result \in Value : CallWithResult(a, g, v, d, result)

TwoResults(d, e) == \E a, b \in Idx : Add2(d, e, a, b) \/ Div2(d, e, a, b)

NoResult ==
  \/ \E a \in Idx, r \in Fixed, o \in Field : Store(a, r, o)
  \/ \E a, b \in Idx : GuestStore(a, b)
  \/ \E i \in Idx \ Fixed : Discard(i)
  \/ \E a \in Idx, g \in Global, v \in Value : Call(a, g, v)

Branch == Br \/ SetLabel \/ ExitTb \/ EndTb \/ \E a, b \in Idx : Brcond(a, b)

Next ==
  \/ \E d \in Assignable : OneResult(d)
  \/ \E d, e \in Assignable : TwoResults(d, e)
  \/ NoResult
  \/ Branch

Spec == Init /\ [][Next]_vars

-----------------------------------------------------------------------------
(* Properties *)

\* Every variable keeps its type; the slot of a local temp stays known, which
\* getPtrForValue asserts (line 502).
TypeOK ==
  /\ values \in [Idx -> Value \cup {None}] /\ tcg \in [Idx -> Value \cup {None}]
  /\ ptrs \in [Saved -> Cell \cup {None}] /\ memory \in [Cell -> Value]
  /\ \A i \in Local : ptrs[i] = <<"stack", i>>
  /\ open \in BOOLEAN /\ foreign \subseteq Idx

\* A cached value is what TCG says the temp holds, whatever was assigned, called,
\* discarded or branched to since it was cached.
ValuesCoherent ==
  \A i \in Idx : values[i] # None /\ tcg[i] # None => values[i] = tcg[i]

\* Memory holds every global and local temp at any time, so helpers, exceptions and
\* the other basic blocks find what TCG says ("We need to save a global copy of a
\* value", line 613).
MemoryCoherent ==
  \A i \in Saved : tcg[i] # None => memory[Home(tcg, i)] = tcg[i]

\* A cached pointer leads to where its register says the global is: "Invalidate all
\* dependent global vals and pointers" when the register is assigned (line 617).
PointersCoherent == \A i \in Saved : ptrs[i] # None => ptrs[i] = Home(tcg, i)

\* Both: code that bypasses the caches, or goes through them, finds TCG's memory.
HomesCoherent == MemoryCoherent /\ PointersCoherent

\* getValue never meets a plain temp that was assigned and has no value (line 584):
\* no helper call, memory access or assignment in between may drop it.
TempsKept == \A i \in Temp : tcg[i] # None => values[i] # None

\* What is cached was computed in the current basic block, so it dominates every
\* use, as verifyFunction demands; the slots are those of this function's entry.
CachesDominate == foreign = {}

\* Both: what the rest of the block needs is cached, and usable where it is.
CachesUsable == TempsKept /\ CachesDominate
=============================================================================
