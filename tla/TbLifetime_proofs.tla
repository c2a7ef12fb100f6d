-------------------------- MODULE TbLifetime_proofs -------------------------
(***************************************************************************)
(* The references of the states and of QEMU to a block are counted right,  *)
(* so that what can still be executed is kept and nothing else, and the    *)
(* code of a block emits to each plugin's points; for any number of        *)
(* states, blocks and hooks.                                               *)
(***************************************************************************)
EXTENDS TbLifetime, FiniteSetTheorems, SequenceTheorems, TLAPS

-----------------------------------------------------------------------------
(* The inductive invariant *)

Hook == 1 .. Points
Signals == Seq(SUBSET Hook)
Code == Seq([signal : Nat, point : Hook])

TypeInv ==
  /\ live \subseteq State /\ deleted \subseteq State /\ live \cap deleted = {}
  /\ current \in State
  /\ last \in [State -> Tb \cup {None}] /\ frame \in [State -> Tb \cup {None}]
  /\ usable \subseteq qemu /\ qemu \subseteq Tb /\ kept \subseteq Tb
  /\ refCount \in [Tb -> Nat]
  /\ signals \in [Tb -> Signals] /\ code \in [Tb -> Code]
  /\ translating \in [tb : Tb \cup {None}, point : Nat]
  /\ translating.tb # None => translating.point \in Hook

\* The states that refer to a block, also those terminated but not yet deleted.
Referrers(t) == {s \in live \cup deleted : last[s] = t}
OfQemu(t) == IF t \in qemu THEN 1 ELSE 0

\* refCount counts these and QEMU's reference, and a block is kept while it has one.
Counted(t) == refCount[t] = OfQemu(t) + Cardinality(Referrers(t))
CountInv == \A t \in Tb : Counted(t) /\ (t \in kept <=> refCount[t] # 0)

\* A frame is one of the block the state referred to last; none is kept for a state
\* that is translating.
FrameInv ==
  \A s \in live : frame[s] # None => frame[s] = last[s]

\* The code c emits the signals s at the points that are connected to them.
Emits(c, s) ==
  /\ \A i \in 1 .. Len(c) : c[i].signal \in 1 .. Len(s) /\ s[c[i].signal] = {c[i].point}
  /\ \A i \in 1 .. Len(s) : s[i] # {} => \E j \in 1 .. Len(c) : c[j].signal = i

SignalInv ==
  /\ \A t \in usable : Emits(code[t], signals[t])
  /\ translating.tb # None =>
       LET t == translating.tb
       IN  /\ t \in qemu \ usable /\ Emits(code[t], signals[t])
           /\ signals[t] # <<>> /\ signals[t][Len(signals[t])] = {}

IInv == TypeInv /\ CountInv /\ FrameInv /\ SignalInv

\* Sets of states can be counted.
LEMMA Finite ==
  ASSUME NEW S \in SUBSET State
  PROVE  IsFiniteSet(S) /\ Cardinality(S) \in Nat
  <1>1. IsFiniteSet(S)
    BY TbLifetimeAssumption, FS_Subset
  <1>. QED BY <1>1, FS_CardinalityType

\* A count of zero says that there is none.
LEMMA SomeReferrer ==
  ASSUME NEW S \in SUBSET State
  PROVE  Cardinality(S) = 0 <=> S = {}
  BY Finite, FS_EmptySet

-----------------------------------------------------------------------------
(* Hooks *)

\* A hook to which plugins connect: the code emits the signal they connected to, and
\* the next hook finds a signal without plugins.
LEMMA Instrumented ==
  ASSUME NEW c \in Code, NEW s \in Signals, s # <<>>, s[Len(s)] = {}, Emits(c, s),
         NEW p \in Hook
  PROVE  LET t == Append([s EXCEPT ![Len(s)] = {p}], {})
             d == Append(c, [signal |-> Len(s), point |-> p])
         IN  t \in Signals /\ d \in Code /\ t # <<>> /\ t[Len(t)] = {} /\ Emits(d, t)
  <1>. DEFINE n == Len(s)
              k == Len(c)
              r == [s EXCEPT ![n] = {p}]
              t == Append(r, {})
              e == [signal |-> n, point |-> p]
              d == Append(c, e)
  <1>1. n \in Nat \ {0} /\ k \in Nat /\ DOMAIN s = 1 .. n
    BY EmptySeq, LenProperties DEF Signals, Code
  <1>2. /\ r \in Signals /\ Len(r) = n
        /\ \A i \in 1 .. n : r[i] = IF i = n THEN {p} ELSE s[i]
    <2>1. n \in 1 .. Len(s) /\ {p} \in SUBSET Hook
      BY <1>1
    <2>. QED BY <2>1, ExceptSeq DEF Signals
  <1>3. /\ t \in Signals /\ t # <<>> /\ Len(t) = n + 1 /\ t[n + 1] = {}
        /\ \A i \in 1 .. n : t[i] = r[i]
    <2>. HIDE DEF r
    <2>1. {} \in SUBSET Hook
      OBVIOUS
    <2>. QED BY <1>2, <2>1, AppendProperties DEF Signals
  <1>4. /\ d \in Code /\ Len(d) = k + 1 /\ d[k + 1] = e
        /\ \A i \in 1 .. k : d[i] = c[i]
    <2>1. e \in [signal : Nat, point : Hook]
      BY <1>1
    <2>. HIDE DEF e
    <2>. QED BY <2>1, AppendProperties DEF Code
  <1>5. \A i \in 1 .. k : c[i].signal \in 1 .. n /\ s[c[i].signal] = {c[i].point}
    BY DEF Emits
  <1>6. \A i \in 1 .. n : s[i] # {} => \E j \in 1 .. k : c[j].signal = i
    BY DEF Emits
  <1>7. s[n] = {} /\ e.signal = n /\ e.point = p
    OBVIOUS
  <1>. HIDE DEF r, t, d, n, k, e
  <1>8. ASSUME NEW i \in 1 .. Len(d)
        PROVE  d[i].signal \in 1 .. Len(t) /\ t[d[i].signal] = {d[i].point}
    <2>1. CASE i \in 1 .. k
      <3>1. c[i].signal \in 1 .. n /\ s[c[i].signal] = {c[i].point}
        BY <2>1, <1>5
      <3>2. c[i].signal # n
        BY <3>1, <1>7, Zenon
      <3>. QED BY <2>1, <3>1, <3>2, <1>1, <1>2, <1>3, <1>4
    <2>2. CASE i = k + 1
      <3>1. d[i] = e /\ n \in 1 .. n
        BY <2>2, <1>1, <1>4
      <3>. QED BY <3>1, <1>1, <1>2, <1>3, <1>7
    <2>. QED BY <2>1, <2>2, <1>1, <1>4
  <1>9. ASSUME NEW i \in 1 .. Len(t), t[i] # {}
        PROVE  \E j \in 1 .. Len(d) : d[j].signal = i
    <2>1. CASE i = n
      <3>1. k + 1 \in 1 .. Len(d) /\ d[k + 1].signal = i
        BY <2>1, <1>1, <1>4, <1>7
      <3>. QED BY <3>1
    <2>2. CASE i \in 1 .. n /\ i # n
      <3>1. s[i] # {}
        BY <2>2, <1>2, <1>3, <1>9
      <3>2. PICK j \in 1 .. k : c[j].signal = i
        BY <2>2, <3>1, <1>6
      <3>3. j \in 1 .. Len(d) /\ d[j].signal = i
        BY <3>2, <1>1, <1>4
      <3>. QED BY <3>3
    <2>. QED BY <2>1, <2>2, <1>1, <1>3, <1>9
  <1>10. Emits(d, t)
    BY <1>8, <1>9 DEF Emits
  <1>. QED BY <1>3, <1>4, <1>10 DEF t, d, r, e, n

\* The last signal is found without plugins, and connecting to it makes it theirs.
LEMMA Connecting ==
  ASSUME IInv, NEW t \in Tb, translating.tb = t, NEW p \in Hook, NEW connects \in BOOLEAN
  PROVE  LET n == Len(signals[t])
             s == Connected(t, p, connects)
         IN  /\ s \in Signals /\ s # <<>> /\ Len(s) = n
             /\ connects => s = [signals[t] EXCEPT ![n] = {p}] /\ Last(s) = {p}
             /\ ~connects => s = signals[t] /\ Last(s) = {}
  <1>. DEFINE n == Len(signals[t])
              s == Connected(t, p, connects)
  <1>1. signals[t] \in Signals /\ signals[t] # <<>> /\ signals[t][n] = {}
    BY TbLifetimeAssumption DEF IInv, TypeInv, SignalInv
  <1>2. n \in Nat \ {0} /\ n \in 1 .. n /\ signals[t] \in [1 .. n -> SUBSET Hook]
    BY <1>1, EmptySeq, LenProperties DEF Signals
  <1>3. CASE connects
    <2>1. s = [signals[t] EXCEPT ![n] = {p}]
      BY <1>1, <1>3, Zenon DEF Connected
    <2>2. /\ [signals[t] EXCEPT ![n] = {p}] \in Signals
          /\ Len([signals[t] EXCEPT ![n] = {p}]) = n
          /\ [signals[t] EXCEPT ![n] = {p}][n] = {p}
      <3>1. {p} \in SUBSET Hook
        OBVIOUS
      <3>. QED BY <1>1, <1>2, <3>1, ExceptSeq DEF Signals
    <2>. HIDE DEF s
    <2>3. s # <<>>
      BY <1>2, <2>1, <2>2, EmptySeq
    <2>4. s \in Signals /\ Len(s) = n /\ s[n] = {p}
      BY <2>1, <2>2
    <2>5. Last(s) = {p}
      BY <2>4 DEF Last
    <2>. QED BY <1>3, <2>1, <2>3, <2>4, <2>5, Zenon DEF s
  <1>4. CASE ~connects
    <2>1. s = signals[t]
      BY <1>2, <1>4 DEF Connected
    <2>. QED BY <1>1, <1>4, <2>1 DEF Last
  <1>. QED BY <1>3, <1>4

-----------------------------------------------------------------------------
(* The actions *)

\* The invariant holds when the program starts.
LEMMA Initially == Init => IInv
  <1>. SUFFICES ASSUME Init PROVE IInv
    OBVIOUS
  <1>1. <<>> \in Signals /\ <<>> \in Code
    BY EmptySeq DEF Signals, Code
  <1>2. TypeInv
    BY <1>1, TbLifetimeAssumption DEF Init, TypeInv, NotTranslating
  <1>3. CountInv
    <2>1. ASSUME NEW t \in Tb PROVE Referrers(t) = {}
      BY TbLifetimeAssumption DEF Init, Referrers
    <2>2. Cardinality({}) = 0
      BY FS_EmptySet
    <2>3. ASSUME NEW t \in Tb PROVE Counted(t) /\ t \notin kept /\ refCount[t] = 0
      <3>1. Cardinality(Referrers(t)) = 0
        BY <2>1, <2>2
      <3>. QED BY <3>1 DEF Init, Counted, OfQemu
    <2>. QED BY <2>3 DEF CountInv
  <1>4. FrameInv /\ SignalInv
    BY DEF Init, FrameInv, SignalInv, NotTranslating
  <1>. QED BY <1>2, <1>3, <1>4 DEF IInv

\* The steps, one by one: a block is allocated.
LEMMA S2ETbAllocStep ==
  ASSUME IInv, NEW t \in Tb, S2ETbAlloc(t) PROVE IInv'
  <1>1. Counted(t) /\ refCount[t] = 0 /\ t \notin qemu /\ t \notin usable
    <2>1. Counted(t) /\ refCount[t] = 0
      BY DEF IInv, CountInv, S2ETbAlloc
    <2>2. Cardinality(Referrers(t)) \in Nat
      BY Finite DEF IInv, TypeInv, Referrers
    <2>. QED BY <2>1, <2>2 DEF Counted, OfQemu, IInv, TypeInv
  <1>2. /\ <<{}>> \in Signals /\ <<>> \in Code
        /\ Len(<<{}>>) = 1 /\ <<{}>>[1] = {}
        /\ <<{}>> # <<>>
    BY DEF Signals, Code
  <1>3. TypeInv'
    BY <1>2, TbLifetimeAssumption DEF IInv, TypeInv, S2ETbAlloc, states, life, Hook
  <1>4. CountInv'
    <2>1. \A u \in Tb : Referrers(u)' = Referrers(u)
      BY DEF Referrers, S2ETbAlloc, states, life
    <2>2. \A u \in Tb \ {t} : OfQemu(u)' = OfQemu(u) /\ refCount'[u] = refCount[u]
      BY DEF OfQemu, S2ETbAlloc, IInv, TypeInv
    <2>3. OfQemu(t)' = 1 /\ refCount'[t] = 1 /\ Cardinality(Referrers(t)) = 0
      <3>1. Cardinality(Referrers(t)) \in Nat
        BY Finite DEF IInv, TypeInv, Referrers
      <3>. QED BY <1>1, <3>1 DEF OfQemu, S2ETbAlloc, IInv, TypeInv, Counted
    <2>. QED BY <2>1, <2>2, <2>3 DEF IInv, CountInv, Counted, S2ETbAlloc
  <1>5. FrameInv'
    BY DEF IInv, FrameInv, S2ETbAlloc, states, life
  <1>6. SignalInv'
    <2>1. \A u \in usable : /\ u \in Tb /\ u # t
                            /\ code'[u] = code[u] /\ signals'[u] = signals[u]
      BY <1>1 DEF IInv, TypeInv, S2ETbAlloc
    <2>2. signals'[t] = <<{}>> /\ code'[t] = <<>> /\ translating' = [tb |-> t, point |-> 1]
      BY DEF IInv, TypeInv, S2ETbAlloc
    <2>3. Emits(<<>>, <<{}>>)
      BY <1>2 DEF Emits
    <2>4. \A u \in usable : Emits(code'[u], signals'[u])
      BY <2>1 DEF IInv, SignalInv
    <2>5. UNCHANGED usable /\ t \in qemu'
      BY DEF S2ETbAlloc
    <2>6. /\ t \in qemu' \ usable' /\ Emits(code'[t], signals'[t])
          /\ signals'[t] # <<>> /\ signals'[t][Len(signals'[t])] = {}
      BY <1>1, <1>2, <2>2, <2>3, <2>5
    <2>. QED BY <2>2, <2>4, <2>5, <2>6, Zenon DEF SignalInv
  <1>. QED BY <1>3, <1>4, <1>5, <1>6 DEF IInv

\* What no hook touches.
LEMMA CountsKept ==
  ASSUME IInv, UNCHANGED <<states, qemu, refCount, kept>> PROVE CountInv' /\ FrameInv'
  <1>1. \A t \in Tb : Referrers(t)' = Referrers(t) /\ OfQemu(t)' = OfQemu(t)
    BY DEF Referrers, OfQemu, states, life
  <1>. QED BY <1>1 DEF IInv, CountInv, Counted, FrameInv, states, life

\* Signals and code of other blocks are left alone.
LEMMA OneTranslated ==
  ASSUME IInv, NEW t \in Tb, translating.tb = t, NEW s \in Signals, NEW c \in Code,
         signals' = [signals EXCEPT ![t] = s], code' = [code EXCEPT ![t] = c],
         Emits(c, s), s # <<>>, s[Len(s)] = {},
         \/ /\ translating' \in [tb : {t}, point : Hook] /\ UNCHANGED usable
         \/ /\ translating' = NotTranslating /\ usable' = usable \cup {t},
         UNCHANGED <<states, qemu, refCount, kept>>
  PROVE  IInv'
  <1>1. t \in qemu \ usable /\ t # None
    BY TbLifetimeAssumption DEF IInv, SignalInv
  <1>2. TypeInv'
    BY <1>1, TbLifetimeAssumption DEF IInv, TypeInv, states, life, NotTranslating, Hook
  <1>3. CountInv' /\ FrameInv'
    BY CountsKept
  <1>4. signals'[t] = s /\ code'[t] = c
    BY DEF IInv, TypeInv
  <1>5. \A u \in usable : /\ u \in Tb /\ u # t
                          /\ code'[u] = code[u] /\ signals'[u] = signals[u]
    BY <1>1 DEF IInv, TypeInv
  <1>6. \A u \in usable' : Emits(code'[u], signals'[u])
    BY <1>4, <1>5 DEF IInv, SignalInv
  <1>7. SignalInv'
    BY <1>1, <1>4, <1>6 DEF SignalInv, NotTranslating
  <1>. QED BY <1>2, <1>3, <1>7 DEF IInv

\* Plugins connect to the signals of the block that is translated.
LEMMA OnTranslateStep ==
  ASSUME IInv, NEW connects \in BOOLEAN, OnTranslate(connects) PROVE IInv'
  <1>. DEFINE t == translating.tb
              p == translating.point
              s == Connected(t, p, connects)
  <1>1. /\ t \in Tb /\ p \in Hook /\ signals[t] \in Signals /\ code[t] \in Code
        /\ Emits(code[t], signals[t])
        /\ signals[t] # <<>> /\ signals[t][Len(signals[t])] = {}
    BY DEF OnTranslate, IInv, TypeInv, SignalInv
  <1>2. /\ connects => s = [signals[t] EXCEPT ![Len(signals[t])] = {p}] /\ Last(s) = {p}
        /\ ~connects => s = signals[t] /\ Last(s) = {}
    BY <1>1, Connecting, Zenon
  <1>3. /\ UNCHANGED <<states, qemu, refCount, kept>>
        /\ \/ /\ translating' \in [tb : {t}, point : Hook] /\ UNCHANGED usable
           \/ /\ translating' = NotTranslating /\ usable' = usable \cup {t}
    <2>1. CASE p < Points
      <3>1. p + 1 \in Hook /\ translating' = [translating EXCEPT !.point = p + 1]
        BY <1>1, <2>1, TbLifetimeAssumption DEF OnTranslate, Hook
      <3>2. translating' = [tb |-> t, point |-> p + 1]
        BY <3>1 DEF IInv, TypeInv
      <3>. QED BY <2>1, <3>1, <3>2, Zenon DEF OnTranslate
    <2>2. CASE ~(p < Points)
      BY <2>2 DEF OnTranslate
    <2>. QED BY <2>1, <2>2
  <1>4. CASE connects
    <2>. DEFINE r == Append([signals[t] EXCEPT ![Len(signals[t])] = {p}], {})
                d == Append(code[t], [signal |-> Len(signals[t]), point |-> p])
    <2>1. Last(s) # {} /\ s = [signals[t] EXCEPT ![Len(signals[t])] = {p}]
      BY <1>2, <1>4, Zenon
    <2>2. signals' = [signals EXCEPT ![t] = r] /\ code' = [code EXCEPT ![t] = d]
      BY <2>1, Zenon DEF OnTranslate, PushSignal, InstrumentCode
    <2>3. r \in Signals /\ d \in Code /\ r # <<>> /\ r[Len(r)] = {} /\ Emits(d, r)
      BY <1>1, Instrumented, Zenon
    <2>. HIDE DEF s, r, d, p
    <2>. QED BY <1>1, <1>3, <2>2, <2>3, OneTranslated, Zenon
  <1>5. CASE ~connects
    <2>1. Last(s) = {}
      BY <1>2, <1>5
    <2>2. UNCHANGED <<signals, code>>
      BY <2>1 DEF OnTranslate
    <2>3. signals' = [signals EXCEPT ![t] = signals[t]] /\ code' = [code EXCEPT ![t] = code[t]]
      BY <2>2 DEF IInv, TypeInv
    <2>. HIDE DEF s, p
    <2>. QED BY <1>1, <1>3, <2>3, OneTranslated, Zenon
  <1>. QED BY <1>4, <1>5

\* A hook leaves the translation: the block gets no code.
LEMMA OnTranslateRaisesStep ==
  ASSUME IInv, NEW connects \in BOOLEAN, OnTranslateRaises(connects) PROVE IInv'
  <1>. DEFINE t == translating.tb
              s == Connected(t, translating.point, connects)
  <1>1. t \in Tb /\ translating.point \in Hook /\ t \notin usable
    BY DEF OnTranslateRaises, IInv, TypeInv, SignalInv
  <1>2. s \in Signals
    BY <1>1, Connecting
  <1>3. /\ signals' = [signals EXCEPT ![t] = s] /\ translating' = NotTranslating
        /\ UNCHANGED <<states, blocks, code>>
    BY DEF OnTranslateRaises
  <1>. HIDE DEF s
  <1>4. TypeInv'
    BY <1>2, <1>3, Zenon DEF IInv, TypeInv, states, life, blocks, NotTranslating
  <1>5. CountInv' /\ FrameInv'
    BY <1>3, CountsKept DEF blocks
  <1>6. \A u \in usable : code'[u] = code[u] /\ signals'[u] = signals[u]
    BY <1>1, <1>3 DEF IInv, TypeInv
  <1>7. SignalInv'
    BY <1>3, <1>6 DEF IInv, SignalInv, blocks, NotTranslating
  <1>. QED BY <1>4, <1>5, <1>7 DEF IInv

\* The states that refer to a block can be counted.
LEMMA ReferrersFinite ==
  ASSUME TypeInv, NEW t \in Tb
  PROVE  /\ Referrers(t) \in SUBSET State /\ IsFiniteSet(Referrers(t))
         /\ Cardinality(Referrers(t)) \in Nat
  BY Finite DEF TypeInv, Referrers

\* unrefS2ETb() drops just what nothing refers to any more.
LEMMA Recounted ==
  ASSUME CountInv, NEW count, SetCounts(count), count \in [Tb -> Nat],
         \A t \in Tb : count[t] = OfQemu(t)' + Cardinality(Referrers(t)'),
         \A t \in Tb : refCount[t] = 0 => count[t] = 0
  PROVE  CountInv' /\ refCount' \in [Tb -> Nat] /\ kept' \subseteq kept
  <1>1. refCount' = count /\ kept' = kept \ {t \in kept : count[t] = 0}
    BY DEF SetCounts, Unreferenced
  <1>2. ASSUME NEW t \in Tb PROVE Counted(t)' /\ (t \in kept' <=> refCount'[t] # 0)
    BY <1>1 DEF CountInv, Counted
  <1>. QED BY <1>1, <1>2 DEF CountInv

\* QEMU's reference is dropped, if it has one.
LEMMA FlushedCounts ==
  ASSUME IInv, NEW t \in Tb
  PROVE  /\ Flushed(refCount)[t] = Cardinality(Referrers(t))
         /\ refCount[t] = 0 => Cardinality(Referrers(t)) = 0
  <1>1. Counted(t) /\ Cardinality(Referrers(t)) \in Nat
    BY ReferrersFinite DEF IInv, CountInv
  <1>. QED BY <1>1 DEF Counted, OfQemu, Flushed

\* QEMU drops all blocks.
LEMMA TbFlushStep ==
  ASSUME IInv, TbFlush PROVE IInv'
  <1>. DEFINE count == Flushed(refCount)
  <1>1. /\ SetCounts(count) /\ UNCHANGED <<states, hooks>> /\ qemu' = {} /\ usable' = {}
        /\ translating = NotTranslating
    BY DEF TbFlush, BetweenBlocks
  <1>2. ASSUME NEW t \in Tb
        PROVE  /\ count[t] \in Nat
               /\ refCount[t] = 0 => count[t] = 0
               /\ count[t] = OfQemu(t)' + Cardinality(Referrers(t)')
    <2>1. Referrers(t)' = Referrers(t) /\ OfQemu(t)' = 0
      BY <1>1 DEF Referrers, OfQemu, states, life
    <2>2. Cardinality(Referrers(t)) \in Nat
      BY ReferrersFinite DEF IInv
    <2>. HIDE DEF count
    <2>. QED BY <2>1, <2>2, FlushedCounts DEF count
  <1>3. count \in [Tb -> Nat]
    <2>1. count = [t \in Tb |-> count[t]]
      BY DEF Flushed
    <2>. HIDE DEF count
    <2>. QED BY <2>1, <1>2
  <1>. HIDE DEF count
  <1>4. CountInv' /\ refCount' \in [Tb -> Nat] /\ kept' \subseteq kept
    BY <1>1, <1>2, <1>3, Recounted DEF IInv
  <1>5. TypeInv' /\ FrameInv'
    BY <1>1, <1>4 DEF IInv, TypeInv, FrameInv, states, life, hooks
  <1>6. SignalInv'
    BY <1>1 DEF SignalInv, hooks, NotTranslating
  <1>. QED BY <1>4, <1>5, <1>6 DEF IInv

\* A state leaves its block.
LEMMA EndBlockStep ==
  ASSUME IInv, EndBlock PROVE IInv'
  <1>1. \A t \in Tb : Referrers(t)' = Referrers(t) /\ OfQemu(t)' = OfQemu(t)
    BY DEF Referrers, OfQemu, EndBlock, life, blocks
  <1>2. TypeInv' /\ FrameInv'
    BY TbLifetimeAssumption DEF EndBlock, IInv, TypeInv, FrameInv, life, blocks, hooks
  <1>3. CountInv'
    BY <1>1 DEF EndBlock, IInv, CountInv, Counted, blocks
  <1>4. SignalInv'
    BY DEF EndBlock, IInv, SignalInv, blocks, hooks
  <1>. QED BY <1>2, <1>3, <1>4 DEF IInv

\* A state is terminated.
LEMMA TerminateStep ==
  ASSUME IInv, NEW s \in State, Terminate(s) PROVE IInv'
  <1>1. \A t \in Tb : Referrers(t)' = Referrers(t) /\ OfQemu(t)' = OfQemu(t)
    BY DEF Referrers, OfQemu, Terminate, blocks
  <1>2. TypeInv' /\ FrameInv'
    BY DEF Terminate, IInv, TypeInv, FrameInv, blocks, hooks
  <1>3. CountInv'
    BY <1>1 DEF Terminate, IInv, CountInv, Counted, blocks
  <1>4. SignalInv'
    BY DEF Terminate, IInv, SignalInv, blocks, hooks
  <1>. QED BY <1>2, <1>3, <1>4 DEF IInv

\* The deleted states are freed, with what they refer to.
LEMMA SelectNextStateStep ==
  ASSUME IInv, NEW s \in State, SelectNextState(s) PROVE IInv'
  <1>. DEFINE Deleted(t) == {d \in deleted : last[d] = t}
              before == IF SwitchFlushes(s) THEN Flushed(refCount) ELSE refCount
              count == Dropped(before)
  <1>1. /\ s \in live /\ current' = s /\ deleted' = {} /\ SetCounts(count)
        /\ last' = [d \in State |-> IF d \in deleted THEN None ELSE last[d]]
        /\ UNCHANGED <<live, frame, hooks>> /\ translating = NotTranslating
        /\ \/ SwitchFlushes(s) /\ qemu' = {} /\ usable' = {}
           \/ ~SwitchFlushes(s) /\ UNCHANGED <<qemu, usable>>
    BY DEF SelectNextState
  <1>2. \A d \in live : d \in State /\ d \notin deleted /\ last'[d] = last[d]
    BY <1>1 DEF IInv, TypeInv
  <1>3. ASSUME NEW t \in Tb
        PROVE  /\ count[t] \in Nat
               /\ refCount[t] = 0 => count[t] = 0
               /\ count[t] = OfQemu(t)' + Cardinality(Referrers(t)')
    <2>1. Referrers(t)' = Referrers(t) \ Deleted(t)
      BY <1>1, <1>2 DEF Referrers
    <2>2. Referrers(t) \cap Deleted(t) = Deleted(t)
      BY DEF Referrers
    <2>3. /\ IsFiniteSet(Referrers(t)) /\ Cardinality(Referrers(t)) \in Nat
          /\ before[t] = OfQemu(t)' + Cardinality(Referrers(t))
          /\ refCount[t] = 0 => before[t] = 0
      <3>1. Counted(t) /\ IsFiniteSet(Referrers(t)) /\ Cardinality(Referrers(t)) \in Nat
        BY ReferrersFinite DEF IInv, CountInv
      <3>2. CASE SwitchFlushes(s)
        <4>1. before[t] = Cardinality(Referrers(t)) /\ OfQemu(t)' = 0
          BY <1>1, <3>2, FlushedCounts DEF OfQemu
        <4>. QED BY <3>1, <4>1, FlushedCounts
      <3>3. CASE ~SwitchFlushes(s)
        <4>1. before[t] = refCount[t] /\ OfQemu(t)' = OfQemu(t)
          BY <1>1, <3>3 DEF OfQemu
        <4>. QED BY <3>1, <4>1 DEF Counted
      <3>. QED BY <3>2, <3>3
    <2>4. Deleted(t) \in SUBSET State
      BY DEF IInv, TypeInv
    <2>. HIDE DEF Deleted
    <2>5. /\ Cardinality(Deleted(t)) \in Nat
          /\ Cardinality(Referrers(t)') = Cardinality(Referrers(t)) - Cardinality(Deleted(t))
          /\ Cardinality(Referrers(t)') \in Nat
      <3>1. Cardinality(Referrers(t) \ Deleted(t))
              = Cardinality(Referrers(t)) - Cardinality(Referrers(t) \cap Deleted(t))
        BY <2>3, FS_Difference
      <3>2. IsFiniteSet(Referrers(t) \ Deleted(t))
        BY <2>3, FS_Difference, Zenon
      <3>3. Cardinality(Referrers(t) \ Deleted(t)) \in Nat
        BY <3>2, FS_CardinalityType
      <3>. QED BY <3>1, <3>3, <2>1, <2>2, <2>4, Finite
    <2>. HIDE DEF before
    <2>6. count[t] = before[t] - Cardinality(Deleted(t))
      BY DEF Dropped, Deleted
    <2>7. OfQemu(t)' \in {0, 1}
      BY DEF OfQemu
    <2>. HIDE DEF count
    <2>. QED BY <2>3, <2>5, <2>6, <2>7
  <1>4. count \in [Tb -> Nat]
    <2>1. count = [t \in Tb |-> count[t]]
      BY DEF Dropped
    <2>. HIDE DEF count
    <2>. QED BY <2>1, <1>3
  <1>. HIDE DEF count
  <1>5. CountInv' /\ refCount' \in [Tb -> Nat] /\ kept' \subseteq kept
    BY <1>1, <1>3, <1>4, Recounted DEF IInv
  <1>6. TypeInv'
    BY <1>1, <1>5 DEF IInv, TypeInv, hooks
  <1>7. FrameInv'
    BY <1>1, <1>2 DEF IInv, FrameInv
  <1>8. SignalInv'
    BY <1>1 DEF IInv, SignalInv, hooks, NotTranslating
  <1>. QED BY <1>5, <1>6, <1>7, <1>8 DEF IInv

\* Taking a reference to a block, from none or from another block.
LEMMA References ==
  ASSUME IInv, NEW t \in Tb, NEW l \in Tb \cup {None}, l # t,
         l # None => Referrers(l) # {}
  PROVE  LET count == Ref(Unref(refCount, l), t)
         IN  /\ count \in [Tb -> Nat] /\ count[t] = refCount[t] + 1
             /\ l # None => count[l] = refCount[l] - 1
             /\ \A u \in Tb \ {t, l} : count[u] = refCount[u]
  <1>1. refCount \in [Tb -> Nat] /\ t # None
    BY TbLifetimeAssumption DEF IInv, TypeInv
  <1>2. l # None => refCount[l] - 1 \in Nat
    <2>. SUFFICES ASSUME l # None PROVE refCount[l] - 1 \in Nat
      OBVIOUS
    <2>1. Cardinality(Referrers(l)) \in Nat \ {0}
      BY ReferrersFinite, SomeReferrer DEF IInv
    <2>2. refCount[l] = OfQemu(l) + Cardinality(Referrers(l)) /\ OfQemu(l) \in {0, 1}
      BY DEF IInv, CountInv, Counted, OfQemu
    <2>. QED BY <2>1, <2>2
  <1>. QED BY <1>1, <1>2 DEF Ref, Unref

\* A state enters a block, and drops the one it was in before.
LEMMA ExecuteTranslationBlockKleeStep ==
  ASSUME IInv, NEW t \in Tb, ExecuteTranslationBlockKlee(t) PROVE IInv'
  <1>. DEFINE l == last[current]
  <1>1. /\ current \in live /\ current \in State /\ t \in usable /\ t \in qemu
        /\ l \in Tb \cup {None}
        /\ frame' = [frame EXCEPT ![current] = t] /\ UNCHANGED <<life, qemu, usable, hooks>>
        /\ \A u \in Tb : OfQemu(u)' = OfQemu(u)
    BY DEF ExecuteTranslationBlockKlee, BetweenBlocks, IInv, TypeInv, OfQemu
  <1>2. CASE l # t
    <2>. DEFINE count == Ref(Unref(refCount, l), t)
    <2>1. SetCounts(count) /\ last' = [last EXCEPT ![current] = t]
      BY <1>2 DEF ExecuteTranslationBlockKlee
    <2>2. l # None => l \in Tb /\ current \in Referrers(l)
      BY <1>1 DEF Referrers
    <2>3. /\ count \in [Tb -> Nat] /\ count[t] = refCount[t] + 1
          /\ l # None => count[l] = refCount[l] - 1
          /\ \A u \in Tb \ {t, l} : count[u] = refCount[u]
      BY <1>1, <1>2, <2>2, References
    <2>. HIDE DEF count
    <2>4. ASSUME NEW u \in Tb
          PROVE  count[u] = OfQemu(u)' + Cardinality(Referrers(u)')
      <3>1. /\ Counted(u) /\ IsFiniteSet(Referrers(u)) /\ Cardinality(Referrers(u)) \in Nat
            /\ OfQemu(u)' = OfQemu(u) /\ OfQemu(u) \in {0, 1}
        BY <1>1, ReferrersFinite DEF IInv, CountInv, OfQemu
      <3>2. CASE u = t
        <4>1. Referrers(u)' = Referrers(u) \cup {current} /\ current \notin Referrers(u)
          BY <1>1, <1>2, <2>1, <3>2 DEF Referrers, life, IInv, TypeInv
        <4>2. Cardinality(Referrers(u)') = Cardinality(Referrers(u)) + 1
          BY <3>1, <4>1, FS_AddElement, Zenon
        <4>. QED BY <2>3, <3>1, <3>2, <4>2 DEF Counted
      <3>3. CASE u = l /\ u # t
        <4>1. Referrers(u)' = Referrers(u) \ {current} /\ current \in Referrers(u)
          BY <1>1, <2>1, <3>3 DEF Referrers, life, IInv, TypeInv
        <4>2. Cardinality(Referrers(u)') = Cardinality(Referrers(u)) - 1
          BY <3>1, <4>1, FS_RemoveElement, Zenon
        <4>3. count[u] = refCount[u] - 1
          BY <2>3, <3>3, TbLifetimeAssumption
        <4>. QED BY <3>1, <4>2, <4>3 DEF Counted
      <3>4. CASE u \notin {t, l}
        <4>1. Referrers(u)' = Referrers(u)
          BY <1>1, <2>1, <3>4 DEF Referrers, life, IInv, TypeInv
        <4>. QED BY <2>3, <3>1, <3>4, <4>1 DEF Counted
      <3>. QED BY <3>2, <3>3, <3>4
    <2>5. ASSUME NEW u \in Tb, refCount[u] = 0 PROVE count[u] = 0
      <3>1. /\ Counted(u) /\ IsFiniteSet(Referrers(u)) /\ Cardinality(Referrers(u)) \in Nat
            /\ OfQemu(u) \in {0, 1}
        BY ReferrersFinite DEF IInv, CountInv, OfQemu
      <3>2. Cardinality(Referrers(u)) = 0 /\ OfQemu(u) = 0
        BY <2>5, <3>1 DEF Counted
      <3>3. Referrers(u) = {} /\ u \notin qemu
        BY <3>1, <3>2, FS_EmptySet DEF OfQemu
      <3>4. u # t /\ u # l
        BY <1>1, <2>2, <3>3, TbLifetimeAssumption
      <3>. QED BY <2>3, <2>5, <3>4
    <2>6. CountInv' /\ refCount' \in [Tb -> Nat] /\ kept' \subseteq kept
      BY <2>1, <2>3, <2>4, <2>5, Recounted DEF IInv
    <2>7. TypeInv'
      BY <1>1, <2>1, <2>6 DEF IInv, TypeInv, life, hooks
    <2>8. FrameInv'
      BY <1>1, <2>1 DEF IInv, TypeInv, FrameInv, life
    <2>9. SignalInv'
      BY <1>1 DEF IInv, SignalInv, hooks
    <2>. QED BY <2>6, <2>7, <2>8, <2>9 DEF IInv
  <1>3. CASE l = t
    <2>1. UNCHANGED <<refCount, kept, last>>
      BY <1>3 DEF ExecuteTranslationBlockKlee
    <2>2. \A u \in Tb : Referrers(u)' = Referrers(u)
      BY <1>1, <2>1 DEF Referrers, life
    <2>3. TypeInv' /\ FrameInv' /\ SignalInv'
      BY <1>1, <1>3, <2>1 DEF IInv, TypeInv, FrameInv, SignalInv, life, hooks
    <2>4. CountInv'
      BY <1>1, <2>1, <2>2 DEF IInv, CountInv, Counted
    <2>. QED BY <2>3, <2>4 DEF IInv
  <1>. QED BY <1>2, <1>3

\* The child refers to the blocks of its parent.
LEMMA ForkStep ==
  ASSUME IInv, NEW t \in State, Fork(t) PROVE IInv'
  <1>. DEFINE l == last[current]
  <1>1. /\ current \in live /\ current \in State /\ t \notin live \cup deleted /\ t # current
        /\ l \in Tb \cup {None} /\ live' = live \cup {t}
        /\ last' = [last EXCEPT ![t] = l] /\ frame' = [frame EXCEPT ![t] = frame[current]]
        /\ refCount' = Ref(refCount, l)
        /\ UNCHANGED <<current, deleted, qemu, usable, kept, hooks>>
        /\ \A u \in Tb : OfQemu(u)' = OfQemu(u)
    BY DEF Fork, CloneReference, IInv, TypeInv, OfQemu
  <1>2. /\ refCount' \in [Tb -> Nat]
        /\ l # None => refCount'[l] = refCount[l] + 1
        /\ \A u \in Tb \ {l} : refCount'[u] = refCount[u]
    BY <1>1 DEF Ref, IInv, TypeInv
  <1>3. TypeInv'
    BY <1>1, <1>2 DEF IInv, TypeInv, hooks
  <1>4. FrameInv'
    BY <1>1 DEF IInv, TypeInv, FrameInv
  <1>5. SignalInv'
    BY <1>1 DEF IInv, SignalInv, hooks
  <1>6. ASSUME NEW u \in Tb PROVE Counted(u)' /\ (u \in kept' <=> refCount'[u] # 0)
    <2>1. /\ Counted(u) /\ IsFiniteSet(Referrers(u)) /\ Cardinality(Referrers(u)) \in Nat
          /\ OfQemu(u) \in {0, 1} /\ u # None /\ (u \in kept <=> refCount[u] # 0)
      BY ReferrersFinite, TbLifetimeAssumption DEF IInv, CountInv, OfQemu
    <2>2. CASE u = l
      <3>1. Referrers(u)' = Referrers(u) \cup {t} /\ t \notin Referrers(u)
        BY <1>1, <2>2 DEF Referrers, IInv, TypeInv
      <3>2. Cardinality(Referrers(u)') = Cardinality(Referrers(u)) + 1
        BY <2>1, <3>1, FS_AddElement, Zenon
      <3>3. Referrers(u) # {}
        BY <1>1, <2>2 DEF Referrers
      <3>4. Cardinality(Referrers(u)) # 0
        BY <2>1, <3>3, FS_EmptySet
      <3>. QED BY <1>1, <1>2, <2>1, <2>2, <3>2, <3>4 DEF Counted
    <2>3. CASE u # l
      <3>1. Referrers(u)' = Referrers(u)
        BY <1>1, <2>3 DEF Referrers, IInv, TypeInv
      <3>. QED BY <1>1, <1>2, <2>1, <2>3, <3>1 DEF Counted
    <2>. QED BY <2>2, <2>3
  <1>7. CountInv'
    BY <1>6 DEF CountInv
  <1>. QED BY <1>3, <1>4, <1>5, <1>7 DEF IInv

\* Every step keeps the invariant.
LEMMA Inductive == IInv /\ [Next]_vars => IInv'
  <1>1. ASSUME IInv, Next PROVE IInv'
    BY <1>1, S2ETbAllocStep, ExecuteTranslationBlockKleeStep, OnTranslateStep,
       OnTranslateRaisesStep, TbFlushStep, EndBlockStep, ForkStep, TerminateStep,
       SelectNextStateStep
    DEF Next
  <1>2. ASSUME IInv, UNCHANGED vars PROVE IInv'
    <2>. USE <1>2 DEF vars, states, life, blocks, hooks
    <2>1. \A t \in Tb : Counted(t)' = Counted(t)
      BY DEF Counted, OfQemu, Referrers
    <2>2. TypeInv' /\ CountInv' /\ FrameInv' /\ SignalInv'
      BY <2>1 DEF IInv, TypeInv, CountInv, FrameInv, SignalInv
    <2>. QED BY <2>2 DEF IInv
  <1>. QED BY <1>1, <1>2

\* The inductive invariant holds in every reachable state: no block is freed too early,
\* none is kept for ever.
THEOREM Invariance == Spec => []IInv
  BY Initially, Inductive, PTL DEF Spec

-----------------------------------------------------------------------------
(* The properties *)

\* A block QEMU may still execute, or one that a state has yet to finish, has its
\* function and signals, and no block is kept for states that are gone.
THEOREM BlocksKept == Spec => []BlocksHeld
  <1>1. ASSUME IInv PROVE BlocksHeld
    <2>1. ASSUME NEW t \in Tb PROVE t \in kept <=> t \in qemu \/ Referrers(t) # {}
      <3>1. /\ Counted(t) /\ Cardinality(Referrers(t)) \in Nat
            /\ IsFiniteSet(Referrers(t)) /\ (t \in kept <=> refCount[t] # 0)
        BY <1>1, ReferrersFinite DEF IInv, CountInv
      <3>2. Cardinality(Referrers(t)) = 0 <=> Referrers(t) = {}
        BY <3>1, FS_EmptySet
      <3>. QED BY <3>1, <3>2 DEF Counted, OfQemu
    <2>2. ASSUME NEW s \in live, frame[s] # None PROVE frame[s] \in kept
      <3>1. frame[s] \in Tb /\ s \in Referrers(frame[s])
        BY <1>1, <2>2 DEF IInv, TypeInv, FrameInv, Referrers
      <3>. QED BY <2>1, <3>1
    <2>. QED BY <1>1, <2>1, <2>2 DEF BlocksHeld, IInv, TypeInv, Referrers
  <1>. QED BY <1>1, Invariance, PTL

\* Executing a block reaches, at each point, the plugins that connected at that point,
\* and no hook finds the plugins of another.
THEOREM SignalsCorrect == Spec => []SignalsRight
  <1>1. ASSUME IInv PROVE SignalsRight
    <2>1. ASSUME translating.tb # None PROVE Last(signals[translating.tb]) = {}
      BY <1>1, <2>1 DEF IInv, SignalInv, Last
    <2>2. ASSUME NEW t \in usable
          PROVE  /\ \A i \in DOMAIN code[t] : signals[t][code[t][i].signal] = {code[t][i].point}
                 /\ \A i \in DOMAIN signals[t] : signals[t][i] # {} =>
                      \E j \in DOMAIN code[t] : code[t][j].signal = i
      <3>1. code[t] \in Code /\ signals[t] \in Signals /\ Emits(code[t], signals[t])
        BY <1>1 DEF IInv, TypeInv, SignalInv
      <3>2. DOMAIN code[t] = 1 .. Len(code[t]) /\ DOMAIN signals[t] = 1 .. Len(signals[t])
        BY <3>1, LenProperties DEF Code, Signals
      <3>. QED BY <3>1, <3>2, Zenon DEF Emits
    <2>. QED BY <2>1, <2>2 DEF SignalsRight
  <1>. QED BY <1>1, Invariance, PTL
=============================================================================
