--------------------------- MODULE GuestCode_proofs ---------------------------
(* Proofs about the code that the guest runs: how it is translated            *)
(* (TcgTranslator), what its loads and stores do (SoftMmu), and what the      *)
(* values that it makes symbolic are on each path (SymbolicInputs).           *)
EXTENDS TcgTranslator, SoftMmu, SymbolicInputs, SequenceTheorems, TLAPS

Machine == [values : [Idx -> Value \cup {None}],
            ptrs   : [Saved -> Cell \cup {None}],
            memory : [Cell -> Value]]

\* What the emitted code does, m, agrees with what TCG says, t.
Coherent(m, t) ==
  /\ m \in Machine
  /\ t \in [Idx -> Value \cup {None}]
  /\ \A i \in Fixed : t[i] # None
  /\ Apart(t)
  /\ \A i \in Local : m.ptrs[i] = <<"stack", i>>
  /\ \A i \in Idx : m.values[i] # None /\ t[i] # None => m.values[i] = t[i]
  /\ \A i \in Saved : t[i] # None => m.memory[Home(t, i)] = t[i]
  /\ \A i \in Saved : m.ptrs[i] # None => m.ptrs[i] = Home(t, i)
  /\ \A i \in Temp : t[i] # None => m.values[i] # None

Inv == Coherent(llvm, tcg) /\ open \in BOOLEAN /\ foreign = {}

-----------------------------------------------------------------------------
(* Homes *)

\* Every temp that has a home has a cell of its own, which depends on nothing but
\* the registers.
LEMMA Homes ==
  ASSUME NEW t \in [Idx -> Value \cup {None}], \A i \in Fixed : t[i] # None
  PROVE  /\ \A i \in Saved : Home(t, i) \in Cell /\ Home(t, i) # None
         /\ Apart(t) => \A i, j \in Saved : Home(t, i) = Home(t, j) => i = j
  <1>. USE TcgTranslatorAssumption DEF Saved, Globals, Idx
  <1>1. ASSUME NEW i \in Fixed PROVE Home(t, i) = <<"arg", i>>
    BY <1>1 DEF Home
  <1>2. ASSUME NEW i \in Local PROVE Home(t, i) = <<"stack", i>>
    BY <1>2 DEF Home
  <1>3. ASSUME NEW i \in Global
        PROVE  Home(t, i) = <<"env", t[Base[i]] + Offset[i]>> /\ t[Base[i]] + Offset[i] \in Address
    BY <1>3 DEF Home
  <1>4. \A i \in Saved : Home(t, i) \in Cell /\ Home(t, i) # None
    <2>. SUFFICES ASSUME NEW i \in Saved PROVE Home(t, i) \in Cell
      BY Zenon
    <2>1. CASE i \in Fixed BY <2>1, <1>1 DEF Cell
    <2>2. CASE i \in Local BY <2>2, <1>2 DEF Cell
    <2>3. CASE i \in Global BY <2>3, <1>3 DEF Cell
    <2>. QED BY <2>1, <2>2, <2>3
  <1>5. ASSUME Apart(t), NEW i \in Saved, NEW j \in Saved, Home(t, i) = Home(t, j)
        PROVE  i = j
    BY <1>1, <1>2, <1>3, <1>5 DEF Apart
  <1>. QED BY <1>4, <1>5

\* Homes move only with the registers.
LEMMA SameHomes ==
  ASSUME NEW t, NEW u, \A i \in Fixed : u[i] = t[i]
  PROVE  /\ \A i \in Saved : Home(u, i) = Home(t, i)
         /\ Apart(u) <=> Apart(t)
  <1>1. ASSUME NEW i \in Saved PROVE Home(u, i) = Home(t, i)
    <2>1. CASE i \in Fixed BY <2>1 DEF Home
    <2>2. CASE i \in Local BY <2>2, TcgTranslatorAssumption DEF Home
    <2>3. CASE i \in Global
      <3>1. i \notin Fixed /\ i \notin Local /\ Base[i] \in Fixed
        BY <2>3, TcgTranslatorAssumption
      <3>. QED BY <3>1, <2>3 DEF Home
    <2>. QED BY <2>1, <2>2, <2>3 DEF Saved, Globals
  <1>2. \A i \in Global : Home(u, i) = Home(t, i)
    BY <1>1, Zenon DEF Saved, Globals
  <1>3. \A r \in Fixed, o \in Field : <<"env", u[r] + o>> = <<"env", t[r] + o>>
    OBVIOUS
  <1>4. ASSUME Apart(t) PROVE Apart(u)
    <2>1. \A g, h \in Global : g # h => Home(u, g) # Home(u, h)
      BY <1>2, <1>4 DEF Apart
    <2>2. \A g \in Global, r \in Fixed, o \in Field : Home(u, g) # <<"env", u[r] + o>>
      BY <1>2, <1>3, <1>4 DEF Apart
    <2>. QED BY <2>1, <2>2 DEF Apart
  <1>5. ASSUME Apart(u) PROVE Apart(t)
    <2>1. \A g, h \in Global : g # h => Home(t, g) # Home(t, h)
      BY <1>2, <1>5 DEF Apart
    <2>2. \A g \in Global, r \in Fixed, o \in Field : Home(t, g) # <<"env", t[r] + o>>
      BY <1>2, <1>3, <1>5 DEF Apart
    <2>. QED BY <2>1, <2>2 DEF Apart
  <1>. QED BY <1>1, <1>4, <1>5

-----------------------------------------------------------------------------
(* The helpers *)

\* getPtrForValue of a register.
LEMMA GetRegisterPtrCoherent ==
  ASSUME NEW m, NEW t, Coherent(m, t), NEW i \in Fixed
  PROVE  LET n == GetRegisterPtr(m, i)
         IN  /\ Coherent(n, t) /\ n.ptrs[i] = Home(t, i)
             /\ n.values = m.values /\ n.memory = m.memory
  <1>1. Home(t, i) = <<"arg", i>> /\ <<"arg", i>> \in Cell
    BY TcgTranslatorAssumption DEF Home, Cell
  <1>2. i \in Saved /\ i \notin Local
    BY TcgTranslatorAssumption DEF Saved, Globals
  <1>3. CASE m.ptrs[i] # None
    BY <1>2, <1>3 DEF GetRegisterPtr, Coherent
  <1>4. CASE m.ptrs[i] = None
    <2>. DEFINE n == [m EXCEPT !.ptrs[i] = <<"arg", i>>]
    <2>1. GetRegisterPtr(m, i) = n
      BY <1>4 DEF GetRegisterPtr
    <2>2. m \in Machine
      BY DEF Coherent
    <2>3. n \in Machine /\ n.values = m.values /\ n.memory = m.memory
      BY <2>2, <1>1 DEF Machine
    <2>4. n.ptrs = [m.ptrs EXCEPT ![i] = <<"arg", i>>]
      BY <2>2 DEF Machine
    <2>5. n.ptrs[i] = <<"arg", i>> /\ \A j \in Saved : j # i => n.ptrs[j] = m.ptrs[j]
      BY <2>2, <2>4, <1>2 DEF Machine
    <2>. HIDE DEF n
    <2>6. Coherent(n, t)
      <3>1. \A j \in Local : n.ptrs[j] = <<"stack", j>>
        BY <2>5, <1>2 DEF Coherent, Saved
      <3>2. \A j \in Saved : n.ptrs[j] # None => n.ptrs[j] = Home(t, j)
        BY <2>5, <1>1 DEF Coherent
      <3>. QED BY <2>3, <3>1, <3>2 DEF Coherent
    <2>. QED BY <2>1, <2>3, <2>5, <2>6, <1>1
  <1>. QED BY <1>3, <1>4

\* getValue of a register.
LEMMA GetRegisterCoherent ==
  ASSUME NEW m, NEW t, Coherent(m, t), NEW i \in Fixed
  PROVE  LET n == GetRegister(m, i)
         IN  /\ Coherent(n, t) /\ n.values[i] = t[i]
             /\ n.memory = m.memory
             /\ \A j \in Idx : m.values[j] # None => n.values[j] = m.values[j]
  <1>1. i \in Saved /\ i \in Idx /\ i \notin Temp /\ t[i] # None /\ t[i] \in Value
    BY TcgTranslatorAssumption DEF Saved, Globals, Idx, Coherent
  <1>2. CASE m.values[i] # None
    BY <1>1, <1>2 DEF GetRegister, Coherent
  <1>3. CASE m.values[i] = None
    <2>. DEFINE p == GetRegisterPtr(m, i)
                n == [p EXCEPT !.values[i] = p.memory[p.ptrs[i]]]
    <2>1. Coherent(p, t) /\ p.ptrs[i] = Home(t, i) /\ p.values = m.values /\ p.memory = m.memory
      BY GetRegisterPtrCoherent
    <2>2. GetRegister(m, i) = n
      BY <1>3 DEF GetRegister
    <2>3. p.memory[p.ptrs[i]] = t[i]
      BY <2>1, <1>1 DEF Coherent
    <2>. HIDE DEF p
    <2>4. p \in Machine
      BY <2>1 DEF Coherent
    <2>5. /\ n \in Machine /\ n.ptrs = p.ptrs /\ n.memory = p.memory
          /\ n.values = [p.values EXCEPT ![i] = t[i]]
      BY <2>3, <2>4, <1>1 DEF Machine
    <2>6. n.values[i] = t[i] /\ \A j \in Idx : j # i => n.values[j] = p.values[j]
      BY <2>4, <2>5, <1>1 DEF Machine
    <2>. HIDE DEF n
    <2>7. Coherent(n, t)
      <3>1. \A j \in Idx : n.values[j] # None /\ t[j] # None => n.values[j] = t[j]
        BY <2>1, <2>6 DEF Coherent
      <3>2. \A j \in Temp : t[j] # None => n.values[j] # None
        BY <2>1, <2>6, <1>1 DEF Coherent, Idx
      <3>. QED BY <2>1, <2>5, <3>1, <3>2 DEF Coherent
    <2>. QED BY <2>1, <2>2, <2>5, <2>6, <2>7, <1>3
  <1>. QED BY <1>2, <1>3

\* getPtrForValue finds the home of a temp, and forgets nothing.
LEMMA GetPtrCoherent ==
  ASSUME NEW m, NEW t, Coherent(m, t), NEW i \in Saved
  PROVE  LET n == GetPtrForValue(m, i)
         IN  /\ Coherent(n, t) /\ n.ptrs[i] = Home(t, i)
             /\ n.memory = m.memory
             /\ \A j \in Idx : m.values[j] # None => n.values[j] = m.values[j]
  <1>1. CASE i \in Fixed
    BY <1>1, GetRegisterPtrCoherent DEF GetPtrForValue
  <1>2. CASE i \notin Fixed /\ m.ptrs[i] # None
    BY <1>2 DEF GetPtrForValue, Coherent
  <1>3. CASE i \notin Fixed /\ m.ptrs[i] = None
    <2>1. i \in Global
      <3>1. ASSUME i \in Local PROVE FALSE
        <4>1. <<"stack", i>> \in Cell
          BY <3>1 DEF Cell
        <4>2. <<"stack", i>> # None
          BY <4>1, TcgTranslatorAssumption
        <4>. QED BY <3>1, <4>2, <1>3, Zenon DEF Coherent
      <3>. QED BY <3>1, <1>3 DEF Saved, Globals
    <2>2. Base[i] \in Fixed /\ i \notin Local
      BY <2>1, TcgTranslatorAssumption
    <2>. DEFINE p == GetRegister(m, Base[i])
                n == [p EXCEPT !.ptrs[i] = <<"env", p.values[Base[i]] + Offset[i]>>]
    <2>3. /\ Coherent(p, t) /\ p.values[Base[i]] = t[Base[i]] /\ p.memory = m.memory
          /\ \A j \in Idx : m.values[j] # None => p.values[j] = m.values[j]
      BY <2>2, GetRegisterCoherent
    <2>4. GetPtrForValue(m, i) = n
      BY <1>3 DEF GetPtrForValue
    <2>. HIDE DEF p
    <2>5. Home(t, i) = <<"env", p.values[Base[i]] + Offset[i]>>
      BY <2>1, <2>2, <2>3, <1>3 DEF Home
    <2>6. Home(t, i) \in Cell
      BY Homes DEF Coherent
    <2>7. p \in Machine
      BY <2>3 DEF Coherent
    <2>8. /\ n \in Machine /\ n.values = p.values /\ n.memory = p.memory
          /\ n.ptrs = [p.ptrs EXCEPT ![i] = Home(t, i)]
      BY <2>5, <2>6, <2>7 DEF Machine
    <2>9. n.ptrs[i] = Home(t, i) /\ \A j \in Saved : j # i => n.ptrs[j] = p.ptrs[j]
      BY <2>7, <2>8 DEF Machine
    <2>. HIDE DEF n
    <2>10. Coherent(n, t)
      <3>1. \A j \in Local : n.ptrs[j] = <<"stack", j>>
        BY <2>2, <2>3, <2>9 DEF Coherent, Saved
      <3>2. \A j \in Saved : n.ptrs[j] # None => n.ptrs[j] = Home(t, j)
        BY <2>3, <2>9 DEF Coherent
      <3>. QED BY <2>3, <2>8, <3>1, <3>2 DEF Coherent
    <2>. QED BY <2>3, <2>4, <2>8, <2>9, <2>10
  <1>. QED BY <1>1, <1>2, <1>3

\* getValue of a temp that holds something yields what it holds.
LEMMA GetValueCoherent ==
  ASSUME NEW m, NEW t, Coherent(m, t), NEW i \in Idx, t[i] # None
  PROVE  LET n == GetValue(m, i)
         IN  /\ Coherent(n, t) /\ n.values[i] = t[i]
             /\ n.memory = m.memory
             /\ \A j \in Idx : m.values[j] # None => n.values[j] = m.values[j]
  <1>1. t[i] \in Value
    BY DEF Coherent
  <1>2. CASE m.values[i] # None
    BY <1>2 DEF GetValue, Coherent
  <1>3. CASE m.values[i] = None
    <2>1. i \notin Temp /\ i \in Saved
      BY <1>3 DEF Coherent, Idx
    <2>. DEFINE p == GetPtrForValue(m, i)
                n == [p EXCEPT !.values[i] = p.memory[p.ptrs[i]]]
    <2>2. /\ Coherent(p, t) /\ p.ptrs[i] = Home(t, i) /\ p.memory = m.memory
          /\ \A j \in Idx : m.values[j] # None => p.values[j] = m.values[j]
      BY <2>1, GetPtrCoherent
    <2>3. GetValue(m, i) = n
      BY <1>3, <2>1 DEF GetValue
    <2>4. p.memory[p.ptrs[i]] = t[i]
      BY <2>1, <2>2 DEF Coherent
    <2>. HIDE DEF p
    <2>5. p \in Machine
      BY <2>2 DEF Coherent
    <2>6. /\ n \in Machine /\ n.ptrs = p.ptrs /\ n.memory = p.memory
          /\ n.values = [p.values EXCEPT ![i] = t[i]]
      BY <2>4, <2>5, <1>1 DEF Machine
    <2>7. n.values[i] = t[i] /\ \A j \in Idx : j # i => n.values[j] = p.values[j]
      BY <2>5, <2>6 DEF Machine
    <2>. HIDE DEF n
    <2>8. Coherent(n, t)
      <3>1. \A j \in Idx : n.values[j] # None /\ t[j] # None => n.values[j] = t[j]
        BY <2>2, <2>7 DEF Coherent
      <3>2. \A j \in Temp : t[j] # None => n.values[j] # None
        BY <2>1, <2>2, <2>7 DEF Coherent, Idx
      <3>. QED BY <2>2, <2>6, <3>1, <3>2 DEF Coherent
    <2>. QED BY <2>2, <2>3, <2>6, <2>7, <2>8, <1>3
  <1>. QED BY <1>2, <1>3

\* A temp that dies needs no cache and no home.
LEMMA Forget ==
  ASSUME NEW m, NEW t, Coherent(m, t), NEW i \in Idx \ Fixed
  PROVE  Coherent(m, [t EXCEPT ![i] = None])
  <1>. DEFINE u == [t EXCEPT ![i] = None]
  <1>1. /\ t \in [Idx -> Value \cup {None}] /\ u \in [Idx -> Value \cup {None}]
        /\ u[i] = None /\ \A j \in Idx : j # i => u[j] = t[j]
    BY DEF Coherent
  <1>. HIDE DEF u
  <1>2. \A j \in Fixed : u[j] = t[j]
    BY <1>1 DEF Idx, Saved, Globals
  <1>3. /\ \A j \in Saved : Home(u, j) = Home(t, j)
        /\ Apart(u) <=> Apart(t)
    BY <1>2, SameHomes
  <1>4. \A j \in Saved : u[j] # None => m.memory[Home(u, j)] = u[j]
    BY <1>1, <1>3 DEF Coherent, Idx
  <1>5. \A j \in Idx : m.values[j] # None /\ u[j] # None => m.values[j] = u[j]
    BY <1>1 DEF Coherent
  <1>6. \A j \in Temp : u[j] # None => m.values[j] # None
    BY <1>1 DEF Coherent, Idx
  <1>. QED BY <1>1, <1>2, <1>3, <1>4, <1>5, <1>6, Zenon DEF Coherent, u

\* Dropping values of temps that have a home, and pointers to globals, is safe.
LEMMA DropCoherent ==
  ASSUME NEW m, NEW t, Coherent(m, t),
         NEW A \in SUBSET Idx, \A i \in A \cap Temp : t[i] = None,
         NEW B \in SUBSET Globals
  PROVE  LET n == DelPtrs(DelValues(m, A), B)
         IN  /\ Coherent(n, t) /\ n.memory = m.memory
             /\ \A i \in Idx : n.values[i] = IF i \in A THEN None ELSE m.values[i]
             /\ \A i \in Saved : n.ptrs[i] = IF i \in B THEN None ELSE m.ptrs[i]
  <1>. DEFINE n == DelPtrs(DelValues(m, A), B)
  <1>1. m \in Machine
    BY DEF Coherent
  <1>2. /\ n \in Machine /\ n.memory = m.memory
        /\ n.values = [i \in Idx |-> IF i \in A THEN None ELSE m.values[i]]
        /\ n.ptrs = [i \in Saved |-> IF i \in B THEN None ELSE m.ptrs[i]]
    BY <1>1, Zenon DEF DelPtrs, DelValues, Machine
  <1>. HIDE DEF n
  <1>3. \A i \in Local : n.ptrs[i] = <<"stack", i>>
    BY <1>2, TcgTranslatorAssumption, Zenon DEF Coherent, Saved, Globals
  <1>4. \A i \in Idx : n.values[i] # None /\ t[i] # None => n.values[i] = t[i]
    BY <1>2 DEF Coherent
  <1>5. \A i \in Saved : n.ptrs[i] # None => n.ptrs[i] = Home(t, i)
    BY <1>2 DEF Coherent
  <1>6. \A i \in Temp : t[i] # None => n.values[i] # None
    BY <1>2 DEF Coherent, Idx
  <1>. QED BY <1>2, <1>3, <1>4, <1>5, <1>6 DEF Coherent, n

\* A store to the home of a temp makes it, and no other temp, hold the value.
LEMMA StoreCoherent ==
  ASSUME NEW m, NEW t, Coherent(m, t), NEW i \in Saved \ Fixed, NEW v \in Value,
         m.values[i] \in {None, v}
  PROVE  LET n == [m EXCEPT !.memory[Home(t, i)] = v]
         IN  Coherent(n, [t EXCEPT ![i] = v]) /\ n.values = m.values /\ n.ptrs = m.ptrs
  <1>. DEFINE u == [t EXCEPT ![i] = v]
              n == [m EXCEPT !.memory[Home(t, i)] = v]
  <1>1. i \in Idx /\ v # None /\ i \notin Temp
    BY TcgTranslatorAssumption DEF Idx, Saved, Globals
  <1>2. /\ t \in [Idx -> Value \cup {None}] /\ u \in [Idx -> Value \cup {None}]
        /\ u[i] = v /\ \A j \in Idx : j # i => u[j] = t[j]
    BY <1>1 DEF Coherent
  <1>. HIDE DEF u
  <1>3. \A j \in Fixed : u[j] = t[j]
    BY <1>1, <1>2 DEF Idx, Saved, Globals
  <1>4. /\ \A j \in Saved : Home(u, j) = Home(t, j)
        /\ Apart(u) <=> Apart(t)
    BY <1>3, SameHomes
  <1>5. /\ \A j \in Saved : Home(t, j) \in Cell
        /\ \A j, k \in Saved : Home(t, j) = Home(t, k) => j = k
    BY <1>2, Homes DEF Coherent
  <1>6. m \in Machine
    BY DEF Coherent
  <1>7. /\ n \in Machine /\ n.values = m.values /\ n.ptrs = m.ptrs
        /\ n.memory = [m.memory EXCEPT ![Home(t, i)] = v]
    BY <1>5, <1>6 DEF Machine
  <1>8. n.memory[Home(t, i)] = v /\ \A j \in Saved : j # i => n.memory[Home(t, j)] = m.memory[Home(t, j)]
    BY <1>5, <1>6, <1>7 DEF Machine
  <1>. HIDE DEF n
  <1>9. \A j \in Saved : u[j] # None => n.memory[Home(u, j)] = u[j]
    BY <1>2, <1>4, <1>8 DEF Coherent, Idx
  <1>10. \A j \in Idx : n.values[j] # None /\ u[j] # None => n.values[j] = u[j]
    BY <1>1, <1>2, <1>7 DEF Coherent
  <1>11. \A j \in Temp : u[j] # None => n.values[j] # None
    BY <1>1, <1>2, <1>7 DEF Coherent, Idx
  <1>12. \A j \in Saved : n.ptrs[j] # None => n.ptrs[j] = Home(u, j)
    BY <1>4, <1>7 DEF Coherent
  <1>13. Coherent(n, u)
    BY <1>2, <1>3, <1>4, <1>7, <1>9, <1>10, <1>11, <1>12 DEF Coherent
  <1>. QED BY <1>7, <1>13 DEF n, u

\* setValue of anything but a register does what TCG's assignment does.
LEMMA SetValueCoherent ==
  ASSUME NEW m, NEW t, Coherent(m, t), NEW i \in Idx \ Fixed, NEW v \in Value
  PROVE  LET n == SetValue(m, i, v)
         IN  /\ Coherent(n, Assign(t, i, v)) /\ n.values[i] = v
             /\ Assign(t, i, v) = [t EXCEPT ![i] = v]
  <1>. DEFINE dead     == [t EXCEPT ![i] = None]
              assigned == [m EXCEPT !.values[i] = v]
              u        == [t EXCEPT ![i] = v]
  <1>1. Assign(t, i, v) = u
    BY Zenon DEF Assign, Coherent
  <1>2. v # None /\ t \in [Idx -> Value \cup {None}] /\ m \in Machine
    BY TcgTranslatorAssumption DEF Coherent
  <1>3. /\ assigned \in Machine /\ assigned.ptrs = m.ptrs /\ assigned.memory = m.memory
        /\ assigned.values = [m.values EXCEPT ![i] = v]
    BY <1>2 DEF Machine
  <1>4. assigned.values[i] = v /\ \A j \in Idx : j # i => assigned.values[j] = m.values[j]
    BY <1>2, <1>3 DEF Machine
  <1>5. /\ dead \in [Idx -> Value \cup {None}]
        /\ dead[i] = None /\ \A j \in Idx : j # i => dead[j] = t[j]
    BY <1>2
  <1>6. /\ u \in [Idx -> Value \cup {None}]
        /\ u[i] = v /\ \A j \in Idx : j # i => u[j] = t[j]
    BY <1>2
  <1>7. Coherent(m, dead)
    BY Forget
  <1>8. [dead EXCEPT ![i] = v] = u
    BY <1>2
  <1>. HIDE DEF dead, assigned, u
  <1>9. Coherent(assigned, dead)
    <2>1. \A j \in Idx : assigned.values[j] # None /\ dead[j] # None => assigned.values[j] = dead[j]
      BY <1>4, <1>5, <1>7 DEF Coherent
    <2>2. \A j \in Temp : dead[j] # None => assigned.values[j] # None
      BY <1>2, <1>4, <1>7 DEF Coherent, Idx
    <2>. QED BY <1>3, <1>7, <2>1, <2>2 DEF Coherent
  <1>10. CASE i \in Temp
    <2>1. SetValue(m, i, v) = assigned
      BY <1>10 DEF SetValue, assigned
    <2>2. \A j \in Fixed : u[j] = dead[j]
      BY <1>5, <1>6 DEF Idx, Saved, Globals
    <2>3. /\ \A j \in Saved : Home(u, j) = Home(dead, j)
          /\ Apart(u) <=> Apart(dead)
      BY <2>2, SameHomes
    <2>4. \A j \in Saved : j # i
      BY <1>10, TcgTranslatorAssumption DEF Saved, Globals
    <2>5. \A j \in Saved : u[j] = dead[j]
      BY <2>4, <1>5, <1>6 DEF Idx
    <2>6. \A j \in Idx : assigned.values[j] # None /\ u[j] # None => assigned.values[j] = u[j]
      BY <1>4, <1>5, <1>6, <1>9 DEF Coherent
    <2>7. \A j \in Temp : u[j] # None => assigned.values[j] # None
      BY <1>2, <1>4, <1>5, <1>6, <1>9 DEF Coherent, Idx
    <2>8. Coherent(assigned, u)
      BY <1>6, <1>9, <2>2, <2>3, <2>5, <2>6, <2>7 DEF Coherent
    <2>. QED BY <1>1, <1>4, <2>1, <2>8 DEF u
  <1>11. CASE i \in Saved
    <2>. DEFINE p == GetPtrForValue(assigned, i)
                s == [p EXCEPT !.memory[p.ptrs[i]] = v]
    <2>1. i \notin Temp /\ i \in Saved \ Fixed
      BY <1>11, TcgTranslatorAssumption DEF Saved, Globals
    <2>2. /\ Coherent(p, dead) /\ p.ptrs[i] = Home(dead, i)
          /\ \A j \in Idx : assigned.values[j] # None => p.values[j] = assigned.values[j]
      BY <1>9, <1>11, GetPtrCoherent
    <2>3. p.values[i] = v
      BY <2>2, <1>2, <1>4
    <2>. HIDE DEF p
    <2>4. Coherent(s, u) /\ s.values = p.values
      BY <2>1, <2>2, <2>3, <1>8, StoreCoherent
    <2>5. SetValue(m, i, v) = DelPtrs(DelValues(s, {}), {})
      BY <2>1 DEF SetValue, Dependent, assigned, p
    <2>. HIDE DEF s
    <2>6. LET n == DelPtrs(DelValues(s, {}), {})
          IN  Coherent(n, u) /\ n.values[i] = s.values[i]
      <3>1. {} \in SUBSET Idx /\ {} \in SUBSET Globals /\ \A j \in {} \cap Temp : u[j] = None
        OBVIOUS
      <3>. QED BY <2>4, <3>1, DropCoherent
    <2>. QED BY <1>1, <2>3, <2>4, <2>5, <2>6 DEF u
  <1>. QED BY <1>10, <1>11 DEF Idx

\* Several temps may die at once.
LEMMA EndOfBlockCoherent ==
  ASSUME NEW m, NEW t, Coherent(m, t)
  PROVE  Coherent(StartNewBasicBlock(m), EndOfBlock(t))
  <1>. DEFINE u == EndOfBlock(t)
  <1>1. /\ t \in [Idx -> Value \cup {None}] /\ u \in [Idx -> Value \cup {None}]
        /\ \A i \in Temp : u[i] = None
        /\ \A i \in Saved : u[i] = t[i]
        /\ \A i \in Idx : u[i] # None => u[i] = t[i]
    BY TcgTranslatorAssumption, Zenon DEF EndOfBlock, Coherent, Idx, Saved, Globals
  <1>. HIDE DEF u
  <1>2. \A i \in Fixed : u[i] = t[i]
    BY <1>1 DEF Saved, Globals
  <1>3. /\ \A i \in Saved : Home(u, i) = Home(t, i)
        /\ Apart(u) <=> Apart(t)
    BY <1>2, SameHomes
  <1>4. Coherent(m, u)
    <2>1. \A i \in Idx : m.values[i] # None /\ u[i] # None => m.values[i] = u[i]
      BY <1>1 DEF Coherent
    <2>. QED BY <1>1, <1>2, <1>3, <2>1 DEF Coherent
  <1>5. Idx \in SUBSET Idx /\ Globals \in SUBSET Globals /\ \A i \in Idx \cap Temp : u[i] = None
    BY <1>1
  <1>6. Coherent(StartNewBasicBlock(m), u)
    BY <1>4, <1>5, DropCoherent DEF StartNewBasicBlock
  <1>. QED BY <1>6 DEF u

\* Where control arrives nothing is cached but the slots of the local temps.
LEMMA ArriveCoherent ==
  ASSUME NEW m \in Machine, NEW t \in [Idx -> Value \cup {None}],
         \A i \in Fixed : t[i] # None, Apart(t), \A i \in Temp : t[i] = None,
         \A i \in Idx : m.values[i] = None,
         \A i \in Globals : m.ptrs[i] = None,
         \A i \in Local : m.ptrs[i] = <<"stack", i>>
  PROVE  LET n == Arrive(m, t)
         IN  Coherent(n, t) /\ n.values = m.values /\ n.ptrs = m.ptrs
  <1>. DEFINE n == Arrive(m, t)
  <1>1. /\ \A i \in Saved : Home(t, i) \in Cell
        /\ \A i, j \in Saved : Home(t, i) = Home(t, j) => i = j
    BY Homes
  <1>2. n.values = m.values /\ n.ptrs = m.ptrs
    BY DEF Arrive, Machine
  <1>3. n.memory = [c \in Cell |->
          IF \E i \in Saved : t[i] # None /\ Home(t, i) = c
            THEN t[CHOOSE i \in Saved : Home(t, i) = c] ELSE m.memory[c]]
    BY DEF Arrive, Machine
  <1>4. ASSUME NEW i \in Saved, t[i] # None PROVE n.memory[Home(t, i)] = t[i]
    <2>1. (CHOOSE j \in Saved : Home(t, j) = Home(t, i)) = i
      BY <1>1
    <2>. QED BY <1>1, <1>3, <1>4, <2>1
  <1>5. n.memory \in [Cell -> Value]
    <2>1. ASSUME NEW c \in Cell, NEW i \in Saved, t[i] # None, Home(t, i) = c
          PROVE  t[CHOOSE j \in Saved : Home(t, j) = c] \in Value
      <3>1. (CHOOSE j \in Saved : Home(t, j) = c) = i
        BY <1>1, <2>1
      <3>. QED BY <2>1, <3>1, Zenon DEF Idx
    <2>2. \A c \in Cell : m.memory[c] \in Value
      BY DEF Machine
    <2>. QED BY <1>3, <2>1, <2>2
  <1>6. n \in Machine
    <2>1. n = [values |-> n.values, ptrs |-> n.ptrs, memory |-> n.memory]
      BY SMTT(30) DEF Arrive, Machine
    <2>2. n.values \in [Idx -> Value \cup {None}] /\ n.ptrs \in [Saved -> Cell \cup {None}]
      BY <1>2 DEF Machine
    <2>. HIDE DEF n
    <2>. QED BY <1>5, <2>1, <2>2 DEF Machine
  <1>. HIDE DEF n
  <1>7. \A i \in Saved : n.ptrs[i] # None => n.ptrs[i] = Home(t, i)
    <2>1. \A i \in Local : Home(t, i) = <<"stack", i>>
      BY TcgTranslatorAssumption, Zenon DEF Home
    <2>. QED BY <1>2, <2>1 DEF Saved
  <1>. QED BY <1>2, <1>4, <1>6, <1>7 DEF Coherent, n

\* The operands of an operation, and what reading them leaves alone.
LEMMA TwoValues ==
  ASSUME NEW m, NEW t, Coherent(m, t), NEW a \in Idx, NEW b \in Idx, t[a] # None, t[b] # None
  PROVE  LET n == GetValue(GetValue(m, a), b)
         IN  /\ Coherent(n, t) /\ n.values[a] = t[a] /\ n.values[b] = t[b]
             /\ n.memory = m.memory /\ t[a] \in Value /\ t[b] \in Value
  <1>. DEFINE p == GetValue(m, a)
  <1>1. Coherent(p, t) /\ p.values[a] = t[a] /\ p.memory = m.memory
    BY GetValueCoherent
  <1>. HIDE DEF p
  <1>2. LET n == GetValue(p, b)
        IN  /\ Coherent(n, t) /\ n.values[b] = t[b] /\ n.memory = p.memory
            /\ n.values[a] = p.values[a]
    BY <1>1, GetValueCoherent
  <1>3. t[a] \in Value /\ t[b] \in Value
    BY DEF Coherent
  <1>. QED BY <1>1, <1>2, <1>3 DEF p

\* Dropping no pointer changes nothing.
LEMMA NoPtrsDropped ==
  ASSUME NEW m \in Machine
  PROVE  DelPtrs(m, {}) = m
  BY DEF DelPtrs, Machine

\* A helper that changes a global finds no cached copy of it left.
LEMMA HelperCoherent ==
  ASSUME Coherent(llvm, tcg), NEW a \in Idx, tcg[a] # None, NEW g \in Global, NEW v \in Value
  PROVE  Coherent(Helper(a, g, v), [tcg EXCEPT ![g] = v])
  <1>. DEFINE m == GetValue(llvm, a)
              n == InvalidateAfterCall(m)
  <1>1. Coherent(m, tcg)
    BY GetValueCoherent
  <1>. HIDE DEF m
  <1>2. /\ Saved \in SUBSET Idx /\ Globals \in SUBSET Globals
        /\ \A i \in Saved \cap Temp : tcg[i] = None
        /\ g \in Saved \ Fixed /\ g \in Idx
    BY TcgTranslatorAssumption DEF Saved, Globals, Idx
  <1>3. Coherent(n, tcg) /\ n.values[g] = None
    BY <1>1, <1>2, DropCoherent DEF InvalidateAfterCall
  <1>4. Helper(a, g, v) = [n EXCEPT !.memory[Home(tcg, g)] = v]
    BY DEF Helper, m
  <1>. HIDE DEF n
  <1>. QED BY <1>2, <1>3, <1>4, StoreCoherent

-----------------------------------------------------------------------------
(* The operations *)

\* An operation that leaves code and TCG in agreement keeps the invariant.
LEMMA StepInv ==
  ASSUME Inv, NEW m, NEW t, Coherent(m, t), Step(m, t)
  PROVE  Inv'
  <1>1. m = [values |-> m.values, ptrs |-> m.ptrs, memory |-> m.memory]
    BY DEF Coherent, Machine
  <1>2. llvm' = m
    BY <1>1 DEF Step, Becomes, llvm
  <1>3. Coherent(llvm', tcg')
    BY <1>2 DEF Step
  <1>. QED BY <1>3 DEF Step, Inv

\* So does the entry into a block in which nothing is cached.
LEMMA EnterInv ==
  ASSUME NEW m, NEW t, Coherent(m, t), Enter(m, t),
         \A i \in Idx : m.values[i] = None, \A i \in Globals : m.ptrs[i] = None
  PROVE  Inv'
  <1>1. m = [values |-> m.values, ptrs |-> m.ptrs, memory |-> m.memory]
    BY DEF Coherent, Machine
  <1>2. llvm' = m
    BY <1>1 DEF Enter, Becomes, llvm
  <1>3. foreign' = {} /\ open' \in BOOLEAN /\ tcg' = t
    BY DEF Enter
  <1>4. Coherent(llvm', tcg')
    BY <1>2, <1>3
  <1>. QED BY <1>3, <1>4 DEF Inv

\* The operations with one result.
LEMMA OneResultInv ==
  ASSUME Inv, NEW d \in Idx \ Fixed, OneResult(d)
  PROVE  Inv'
  <1>. DEFINE Assigned(m, v) == Step(SetValue(m, d, v), Assign(tcg, d, v))
  <1>0. Coherent(llvm, tcg) /\ tcg \in [Idx -> Value \cup {None}]
    BY DEF Inv, Coherent
  <1>1. ASSUME NEW m, Coherent(m, tcg), NEW v \in Value, Assigned(m, v)
        PROVE  Inv'
    <2>1. Coherent(SetValue(m, d, v), Assign(tcg, d, v))
      BY <1>1, SetValueCoherent
    <2>. QED BY <1>1, <2>1, StepInv
  <1>2. ASSUME NEW v \in Value, Movi(d, v) PROVE Inv'
    BY <1>0, <1>1, <1>2 DEF Movi
  <1>3. ASSUME NEW a \in Idx, Mov(d, a) \/ GuestLoad(d, a) PROVE Inv'
    <2>. DEFINE m == GetValue(llvm, a)
    <2>1. tcg[a] # None
      BY <1>3 DEF Mov, GuestLoad, Reads
    <2>2. Coherent(m, tcg) /\ m.values[a] = tcg[a] /\ tcg[a] \in Value
      BY <1>0, <2>1, GetValueCoherent
    <2>3. CASE Mov(d, a)
      <3>1. Assigned(m, tcg[a])
        BY <2>2, <2>3 DEF Mov
      <3>. QED BY <1>1, <2>2, <3>1
    <2>4. CASE GuestLoad(d, a)
      <3>1. PICK guest \in [Value -> Value] : Assigned(m, guest[tcg[a]])
        BY <2>2, <2>4 DEF GuestLoad
      <3>. QED BY <1>1, <2>2, <3>1
    <2>. QED BY <1>3, <2>3, <2>4
  <1>4. ASSUME NEW a \in Idx, NEW b \in Idx, Compute(d, a, b) PROVE Inv'
    <2>. DEFINE m == GetValue(GetValue(llvm, a), b)
    <2>1. tcg[a] # None /\ tcg[b] # None
      BY <1>4 DEF Compute, Reads
    <2>2. /\ Coherent(m, tcg) /\ m.values[a] = tcg[a] /\ m.values[b] = tcg[b]
          /\ tcg[a] \in Value /\ tcg[b] \in Value
      BY <1>0, <2>1, TwoValues
    <2>3. Assigned(m, Arith(tcg[a], tcg[b]))
      BY <1>4, <2>2 DEF Compute
    <2>4. Arith(tcg[a], tcg[b]) \in Value
      BY <2>2, TcgTranslatorAssumption
    <2>. QED BY <1>1, <2>2, <2>3, <2>4
  <1>5. ASSUME NEW r \in Fixed, NEW o \in Field, Load(d, r, o) PROVE Inv'
    <2>. DEFINE m == GetValue(llvm, r)
    <2>1. r \in Idx /\ tcg[r] # None
      BY <1>5 DEF Load, Reads, Idx, Saved, Globals
    <2>2. /\ Coherent(m, tcg) /\ m.values[r] = tcg[r] /\ tcg[r] \in Value
          /\ m.memory = memory
      BY <1>0, <2>1, GetValueCoherent DEF llvm
    <2>3. Assigned(m, memory[<<"env", tcg[r] + o>>])
      BY <1>5, <2>2 DEF Load
    <2>4. <<"env", tcg[r] + o>> \in Cell
      BY <2>2, TcgTranslatorAssumption, Zenon DEF Cell
    <2>5. memory[<<"env", tcg[r] + o>>] \in Value
      BY <2>2, <2>4 DEF Coherent, Machine
    <2>. QED BY <1>1, <2>2, <2>3, <2>5
  <1>6. ASSUME NEW a \in Idx, NEW g \in Global, NEW v \in Value, NEW result \in Value,
               CallWithResult(a, g, v, d, result)
        PROVE  Inv'
    <2>. DEFINE u == [tcg EXCEPT ![g] = v]
                n == SetValue(Helper(a, g, v), d, result)
    <2>1. tcg[a] # None
      BY <1>6 DEF CallWithResult, Reads
    <2>2. Coherent(Helper(a, g, v), u)
      BY <1>0, <2>1, HelperCoherent, Zenon
    <2>3. Coherent(n, Assign(u, d, result))
      BY <2>2, SetValueCoherent
    <2>4. Step(n, Assign(u, d, result))
      BY <1>6 DEF CallWithResult
    <2>. HIDE DEF n, u
    <2>. QED BY <2>3, <2>4, StepInv
  <1>7. ASSUME NEW a \in Idx, Extend(d, a) PROVE Inv'
    <2>. DEFINE m == GetValue(llvm, a)
    <2>1. tcg[a] # None
      BY <1>7 DEF Extend, Reads
    <2>2. Coherent(m, tcg) /\ m.values[a] = tcg[a] /\ tcg[a] \in Value
      BY <1>0, <2>1, GetValueCoherent
    <2>3. Assigned(m, Arith(tcg[a], tcg[a]))
      BY <1>7, <2>2 DEF Extend
    <2>4. Arith(tcg[a], tcg[a]) \in Value
      BY <2>2, TcgTranslatorAssumption, Zenon
    <2>. QED BY <1>1, <2>2, <2>3, <2>4
  <1>8. ASSUME NEW a \in Idx, NEW b \in Idx, NEW whole \in BOOLEAN, Deposit(d, a, b, whole)
        PROVE  Inv'
    <2>. DEFINE m == GetValue(GetValue(llvm, a), b)
                v == IF whole THEN tcg[b] ELSE Arith(tcg[a], tcg[b])
    <2>1. tcg[a] # None /\ tcg[b] # None
      BY <1>8 DEF Deposit, Reads
    <2>2. /\ Coherent(m, tcg) /\ m.values[a] = tcg[a] /\ m.values[b] = tcg[b]
          /\ tcg[a] \in Value /\ tcg[b] \in Value
      BY <1>0, <2>1, TwoValues
    <2>3. Assigned(m, v)
      BY <1>8, <2>2 DEF Deposit
    <2>4. v \in Value
      BY <2>2, TcgTranslatorAssumption
    <2>. QED BY <1>1, <2>2, <2>3, <2>4
  <1>. QED BY <1>2, <1>3, <1>4, <1>5, <1>6, <1>7, <1>8 DEF OneResult

\* The operations with two results.
LEMMA TwoResultsInv ==
  ASSUME Inv, NEW d \in Idx \ Fixed, NEW e \in Idx \ Fixed, TwoResults(d, e)
  PROVE  Inv'
  <1>0. Coherent(llvm, tcg) /\ tcg \in [Idx -> Value \cup {None}]
    BY DEF Inv, Coherent
  <1>1. PICK a \in Idx, b \in Idx : Add2(d, e, a, b) \/ Div2(d, e, a, b)
    BY DEF TwoResults
  <1>. DEFINE m == GetValue(GetValue(llvm, a), b)
              x == Arith(tcg[a], tcg[b])
              y == Arith(tcg[b], tcg[a])
  <1>2. tcg[a] # None /\ tcg[b] # None /\ d # e
    BY <1>1 DEF Add2, Div2, Reads
  <1>3. /\ Coherent(m, tcg) /\ m.values[a] = tcg[a] /\ m.values[b] = tcg[b]
        /\ tcg[a] \in Value /\ tcg[b] \in Value
    BY <1>0, <1>2, TwoValues
  <1>. HIDE DEF m
  <1>4. x \in Value /\ y \in Value /\ x # None
    BY <1>3, TcgTranslatorAssumption
  <1>. HIDE DEF x, y
  <1>. DEFINE t == Assign(tcg, d, x)
              n == SetValue(m, d, x)
  <1>5. /\ Coherent(n, t) /\ n.values[d] = x
        /\ t = [tcg EXCEPT ![d] = x]
    BY <1>3, <1>4, SetValueCoherent
  <1>6. t[d] = x /\ (b # d => t[b] = tcg[b])
    BY <1>0, <1>5
  <1>7. CASE Add2(d, e, a, b)
    <2>1. Step(SetValue(n, e, tcg[b]), Assign(t, e, tcg[b]))
      BY <1>3, <1>7 DEF Add2, m, x
    <2>2. Coherent(SetValue(n, e, tcg[b]), Assign(t, e, tcg[b]))
      BY <1>3, <1>5, SetValueCoherent
    <2>. QED BY <2>1, <2>2, StepInv
  <1>8. CASE Div2(d, e, a, b)
    <2>. DEFINE q == GetValue(n, b)
                z == Arith(t[b], tcg[a])
                s == SetValue(q, e, z)
    <2>1. t[b] # None
      BY <1>2, <1>4, <1>6
    <2>. HIDE DEF n, t
    <2>2. Coherent(q, t) /\ q.values[b] = t[b] /\ t[b] \in Value
      <3>0. Coherent(n, t)
        BY <1>5
      <3>1. Coherent(q, t) /\ q.values[b] = t[b]
        BY <3>0, <2>1, GetValueCoherent
      <3>. QED BY <3>1, <2>1 DEF Coherent
    <2>3. Step(s, Assign(t, e, IF d = b THEN None ELSE y))
      <3>. DEFINE o == GetValue(SetValue(m, d, Arith(m.values[a], m.values[b])), b)
      <3>1. Step(SetValue(o, e, Arith(o.values[b], m.values[a])),
                 Assign(Assign(tcg, d, Arith(tcg[a], tcg[b])), e,
                        IF d = b THEN None ELSE Arith(tcg[b], tcg[a])))
        BY <1>8 DEF Div2, m
      <3>2. o = q
        BY <1>3 DEF n, x
      <3>. HIDE DEF o, q
      <3>3. Step(SetValue(q, e, Arith(t[b], tcg[a])),
                 Assign(Assign(tcg, d, Arith(tcg[a], tcg[b])), e,
                        IF d = b THEN None ELSE Arith(tcg[b], tcg[a])))
        BY <1>3, <2>2, <3>1, <3>2
      <3>. QED BY <3>3 DEF x, y, t
    <2>4. z \in Value
      BY <1>3, <2>2, TcgTranslatorAssumption
    <2>. HIDE DEF q, z
    <2>5. Coherent(s, Assign(t, e, z)) /\ Assign(t, e, z) = [t EXCEPT ![e] = z]
      BY <2>2, <2>4, SetValueCoherent
    <2>. HIDE DEF s
    <2>6. CASE d # b
      <3>1. z = y
        BY <1>6, <2>6 DEF z, y
      <3>. QED BY <2>3, <2>5, <2>6, <3>1, StepInv, Zenon
    <2>7. CASE d = b
      <3>1. Coherent(s, [[t EXCEPT ![e] = z] EXCEPT ![e] = None])
        BY <2>5, Forget, Zenon
      <3>2. /\ [[t EXCEPT ![e] = z] EXCEPT ![e] = None] = [t EXCEPT ![e] = None]
            /\ Assign(t, e, None) = [t EXCEPT ![e] = None]
        BY <1>5, Zenon DEF Assign, Coherent
      <3>3. Coherent(s, Assign(t, e, None))
        BY <3>1, <3>2
      <3>. QED BY <2>3, <2>7, <3>3, StepInv
    <2>. QED BY <2>6, <2>7
  <1>. QED BY <1>1, <1>7, <1>8

\* The operations without a result.
LEMMA NoResultInv ==
  ASSUME Inv, NoResult
  PROVE  Inv'
  <1>0. Coherent(llvm, tcg) /\ tcg \in [Idx -> Value \cup {None}]
    BY DEF Inv, Coherent
  <1>1. ASSUME NEW a \in Idx, NEW r \in Fixed, NEW o \in Field, Store(a, r, o) PROVE Inv'
    <2>. DEFINE m == GetValue(GetValue(llvm, a), r)
                c == <<"env", tcg[r] + o>>
                n == [m EXCEPT !.memory[c] = tcg[a]]
    <2>1. r \in Idx /\ tcg[a] # None /\ tcg[r] # None
      BY <1>1 DEF Store, Reads, Idx, Saved, Globals
    <2>2. /\ Coherent(m, tcg) /\ m.values[a] = tcg[a] /\ m.values[r] = tcg[r]
          /\ tcg[a] \in Value /\ tcg[r] \in Value
      BY <1>0, <2>1, TwoValues
    <2>3. Step(n, tcg)
      BY <1>1, <2>2 DEF Store
    <2>. HIDE DEF m
    <2>4. m \in Machine /\ c \in Cell
      BY <2>2, TcgTranslatorAssumption, Zenon DEF Coherent, Cell
    <2>5. /\ n \in Machine /\ n.values = m.values /\ n.ptrs = m.ptrs
          /\ n.memory = [m.memory EXCEPT ![c] = tcg[a]]
      BY <2>2, <2>4, Zenon DEF Machine
    <2>6. \A i \in Saved : Home(tcg, i) # c
      <3>1. \A i \in Fixed : Home(tcg, i) # c
        BY TcgTranslatorAssumption DEF Home
      <3>2. \A i \in Local : Home(tcg, i) # c
        BY TcgTranslatorAssumption DEF Home
      <3>3. \A i \in Global : Home(tcg, i) # c
        BY <1>0, Zenon DEF Coherent, Apart
      <3>. QED BY <3>1, <3>2, <3>3, Zenon DEF Saved, Globals
    <2>7. \A i \in Saved : Home(tcg, i) \in Cell
      BY <1>0, Homes, Zenon DEF Coherent
    <2>8. \A i \in Saved : n.memory[Home(tcg, i)] = m.memory[Home(tcg, i)]
      BY <2>4, <2>5, <2>6, <2>7 DEF Machine
    <2>. HIDE DEF n
    <2>9. Coherent(n, tcg)
      BY <2>2, <2>5, <2>8 DEF Coherent
    <2>. QED BY <2>3, <2>9, StepInv
  <1>2. ASSUME NEW a \in Idx, NEW b \in Idx, GuestStore(a, b) PROVE Inv'
    <2>1. tcg[a] # None /\ tcg[b] # None
      BY <1>2 DEF GuestStore, Reads
    <2>2. Coherent(GetValue(GetValue(llvm, a), b), tcg)
      BY <1>0, <2>1, TwoValues
    <2>. QED BY <1>2, <2>2, StepInv DEF GuestStore
  <1>3. ASSUME NEW i \in Idx \ Fixed, Discard(i) PROVE Inv'
    <2>. DEFINE t == [tcg EXCEPT ![i] = None]
                n == DelValues(llvm, {i})
    <2>1. Coherent(llvm, t)
      BY <1>0, Forget, Zenon
    <2>2. t[i] = None
      BY <1>0
    <2>3. Step(n, t)
      BY <1>3 DEF Discard
    <2>. HIDE DEF t
    <2>4. {i} \in SUBSET Idx /\ {} \in SUBSET Globals /\ \A j \in {i} \cap Temp : t[j] = None
      BY <2>2
    <2>5. Coherent(DelPtrs(n, {}), t)
      BY <2>1, <2>4, DropCoherent
    <2>6. llvm \in Machine
      BY <1>0 DEF Coherent
    <2>7. n \in Machine
      BY <2>6 DEF DelValues, Machine
    <2>8. Coherent(n, t)
      BY <2>5, <2>7, NoPtrsDropped
    <2>. QED BY <2>3, <2>8, StepInv
  <1>4. ASSUME NEW a \in Idx, NEW g \in Global, NEW v \in Value, Call(a, g, v) PROVE Inv'
    <2>1. tcg[a] # None
      BY <1>4 DEF Call, Reads
    <2>2. Coherent(Helper(a, g, v), [tcg EXCEPT ![g] = v])
      BY <1>0, <2>1, HelperCoherent, Zenon
    <2>. QED BY <1>4, <2>2, StepInv DEF Call
  <1>. QED BY <1>1, <1>2, <1>3, <1>4 DEF NoResult

\* In a new block nothing is cached but the slots of the local temps.
LEMMA StartedEmpty ==
  ASSUME NEW m \in Machine, NEW A \in SUBSET Saved, Globals \subseteq A
  PROVE  LET n == DelPtrs(DelValues(m, Idx), A)
         IN  /\ n \in Machine
             /\ \A i \in Idx : n.values[i] = None
             /\ \A i \in Globals : n.ptrs[i] = None
             /\ \A i \in Saved \ A : n.ptrs[i] = m.ptrs[i]
  BY Zenon DEF DelPtrs, DelValues, Machine, Saved

\* A translation block begins with its slots.
LEMMA SlotsMade ==
  ASSUME NEW m \in Machine
  PROVE  LET n == InitGlobalsAndLocalTemps(m)
         IN  /\ n \in Machine /\ n.values = m.values
             /\ \A i \in Local : n.ptrs[i] = <<"stack", i>>
             /\ \A i \in Globals : n.ptrs[i] = m.ptrs[i]
  BY TcgTranslatorAssumption, Zenon DEF InitGlobalsAndLocalTemps, Machine, Cell, Saved, Globals

\* The operations that end a basic block, and the end of the translation block.
LEMMA BranchInv ==
  ASSUME Inv, Branch
  PROVE  Inv'
  <1>0. Coherent(llvm, tcg) /\ llvm \in Machine
    BY DEF Inv, Coherent
  <1>1. ASSUME NEW m, Coherent(m, tcg), Enter(StartNewBasicBlock(m), EndOfBlock(tcg)) PROVE Inv'
    <2>. DEFINE n == StartNewBasicBlock(m)
    <2>1. Coherent(n, EndOfBlock(tcg))
      BY <1>1, EndOfBlockCoherent
    <2>2. /\ \A i \in Idx : n.values[i] = None
          /\ \A i \in Globals : n.ptrs[i] = None
      BY <1>1, StartedEmpty DEF StartNewBasicBlock, Coherent, Saved
    <2>. HIDE DEF n
    <2>. QED BY <1>1, <2>1, <2>2, EnterInv DEF n
  <1>2. CASE Br
    BY <1>0, <1>1, <1>2 DEF Br
  <1>3. ASSUME NEW a \in Idx, NEW b \in Idx, Brcond(a, b) PROVE Inv'
    <2>1. tcg[a] # None /\ tcg[b] # None
      BY <1>3 DEF Brcond, Reads
    <2>2. Coherent(GetValue(GetValue(llvm, a), b), tcg)
      BY <1>0, <2>1, TwoValues
    <2>. QED BY <1>1, <1>3, <2>2 DEF Brcond
  <1>4. CASE SetLabel
    <2>1. CASE open /\ Enter(StartNewBasicBlock(llvm), EndOfBlock(tcg))
      BY <1>0, <1>1, <2>1
    <2>2. ASSUME NEW t \in Arriving, Enter(Arrive(StartNewBasicBlock(llvm), t), t) PROVE Inv'
      <3>. DEFINE m == StartNewBasicBlock(llvm)
      <3>1. /\ m \in Machine
            /\ \A i \in Idx : m.values[i] = None
            /\ \A i \in Globals : m.ptrs[i] = None
            /\ \A i \in Saved \ Globals : m.ptrs[i] = ptrs[i]
        BY <1>0, StartedEmpty DEF StartNewBasicBlock, Saved, llvm
      <3>2. \A i \in Local : m.ptrs[i] = <<"stack", i>>
        BY <1>0, <3>1, TcgTranslatorAssumption, Zenon DEF Coherent, Saved, Globals, llvm
      <3>3. /\ t \in [Idx -> Value \cup {None}] /\ \A i \in Fixed : t[i] # None
            /\ Apart(t) /\ \A i \in Temp : t[i] = None
        BY DEF Arriving, Saved, Globals
      <3>. HIDE DEF m
      <3>4. LET n == Arrive(m, t)
            IN  Coherent(n, t) /\ n.values = m.values /\ n.ptrs = m.ptrs
        BY <3>1, <3>2, <3>3, ArriveCoherent
      <3>5. Enter(Arrive(m, t), t)
        BY <2>2 DEF m
      <3>. QED BY <3>1, <3>4, <3>5, EnterInv
    <2>. QED BY <1>4, <2>1, <2>2 DEF SetLabel
  <1>5. CASE ExitTb
    <2>1. llvm' = llvm /\ tcg' = tcg /\ foreign' = foreign /\ open' = FALSE
      BY <1>5 DEF ExitTb, llvm
    <2>2. Coherent(llvm', tcg')
      BY <1>0, <2>1
    <2>. QED BY <2>1, <2>2, Zenon DEF Inv
  <1>6. CASE EndTb
    <2>. DEFINE d == DelPtrs(DelValues(llvm, Idx), Saved)
                m == InitGlobalsAndLocalTemps(d)
    <2>1. PICK t \in Incoming : Enter(Arrive(m, t), t)
      BY <1>6 DEF EndTb
    <2>2. d \in Machine /\ (\A i \in Idx : d.values[i] = None) /\ \A i \in Globals : d.ptrs[i] = None
      BY <1>0, StartedEmpty DEF Saved
    <2>. HIDE DEF d
    <2>3. /\ m \in Machine /\ m.values = d.values
          /\ \A i \in Local : m.ptrs[i] = <<"stack", i>>
          /\ \A i \in Globals : m.ptrs[i] = d.ptrs[i]
      BY <2>2, SlotsMade
    <2>4. /\ t \in [Idx -> Value \cup {None}] /\ \A i \in Fixed : t[i] # None
          /\ Apart(t) /\ \A i \in Temp : t[i] = None
      BY DEF Incoming, Globals
    <2>. HIDE DEF m
    <2>5. LET n == Arrive(m, t)
          IN  Coherent(n, t) /\ n.values = m.values /\ n.ptrs = m.ptrs
      BY <2>2, <2>3, <2>4, ArriveCoherent
    <2>. QED BY <2>1, <2>2, <2>3, <2>5, EnterInv
  <1>. QED BY <1>2, <1>3, <1>4, <1>5, <1>6 DEF Branch

-----------------------------------------------------------------------------
(* The theorems *)

\* The first translation block begins with empty caches.
LEMMA InitInv == Init => Inv
  <1>. SUFFICES ASSUME Init PROVE Inv
    OBVIOUS
  <1>1. PICK t \in Incoming, garbage \in Value :
          LET blank == [values |-> [i \in Idx |-> None], ptrs |-> [i \in Saved |-> None],
                        memory |-> [c \in Cell |-> garbage]]
              m     == Arrive(InitGlobalsAndLocalTemps(blank), t)
          IN  /\ values = m.values /\ ptrs = m.ptrs /\ memory = m.memory
              /\ tcg = t /\ open = TRUE /\ foreign = {}
    BY Zenon DEF Init
  <1>. DEFINE blank == [values |-> [i \in Idx |-> None], ptrs |-> [i \in Saved |-> None],
                        memory |-> [c \in Cell |-> garbage]]
              d == InitGlobalsAndLocalTemps(blank)
              m == Arrive(d, t)
  <1>2. /\ blank \in Machine
        /\ \A i \in Idx : blank.values[i] = None
        /\ \A i \in Globals : blank.ptrs[i] = None
    BY DEF Machine, Saved
  <1>3. values = m.values /\ ptrs = m.ptrs /\ memory = m.memory /\ tcg = t /\ open = TRUE /\ foreign = {}
    BY <1>1
  <1>. HIDE DEF blank
  <1>4. /\ d \in Machine
        /\ \A i \in Idx : d.values[i] = None
        /\ \A i \in Globals : d.ptrs[i] = None
        /\ \A i \in Local : d.ptrs[i] = <<"stack", i>>
    BY <1>2, SlotsMade
  <1>5. /\ t \in [Idx -> Value \cup {None}] /\ \A i \in Fixed : t[i] # None
        /\ Apart(t) /\ \A i \in Temp : t[i] = None
    BY DEF Incoming, Globals
  <1>. HIDE DEF d
  <1>6. Coherent(m, t)
    BY <1>4, <1>5, ArriveCoherent
  <1>. HIDE DEF m
  <1>7. m = [values |-> m.values, ptrs |-> m.ptrs, memory |-> m.memory]
    BY <1>6 DEF Coherent, Machine
  <1>8. llvm = m
    BY <1>3, <1>7 DEF llvm
  <1>. QED BY <1>3, <1>6, <1>8 DEF Inv

\* The inductive invariant holds wherever code is emitted, as long as no operation
\* assigns to a register that is the base of globals.
THEOREM Invariance ==
  ASSUME AssignsBase = FALSE
  PROVE  Spec => []Inv
  <1>1. Inv /\ [Next]_vars => Inv'
    <2>. SUFFICES ASSUME Inv, [Next]_vars PROVE Inv'
      OBVIOUS
    <2>1. Assignable = Idx \ Fixed
      BY DEF Assignable
    <2>2. CASE UNCHANGED vars
      <3>1. llvm' = llvm /\ tcg' = tcg /\ open' = open /\ foreign' = foreign
        BY <2>2 DEF vars, llvm
      <3>2. Coherent(llvm', tcg')
        BY <3>1 DEF Inv
      <3>. QED BY <3>1, <3>2 DEF Inv
    <2>3. ASSUME NEW d \in Assignable, OneResult(d) PROVE Inv'
      BY <2>1, <2>3, OneResultInv
    <2>4. ASSUME NEW d \in Assignable, NEW e \in Assignable, TwoResults(d, e) PROVE Inv'
      BY <2>1, <2>4, TwoResultsInv
    <2>. QED BY <2>2, <2>3, <2>4, NoResultInv, BranchInv DEF Next
  <1>. QED BY <1>1, InitInv, PTL DEF Spec

\* The caches and the memory have the types that the translator gives them.
THEOREM TypeCorrect ==
  ASSUME AssignsBase = FALSE
  PROVE  Spec => []TypeOK
  <1>1. Inv => TypeOK
    BY DEF Inv, Coherent, Machine, llvm, TypeOK
  <1>. QED BY <1>1, Invariance, PTL

\* A value that the translator has cached (m_values) is what TCG says the temp holds:
\* code that reads the cache instead of memory computes the same.
THEOREM CachesCorrect ==
  ASSUME AssignsBase = FALSE
  PROVE  Spec => []ValuesCoherent
  <1>1. Inv => ValuesCoherent
    BY DEF Inv, Coherent, llvm, ValuesCoherent
  <1>. QED BY <1>1, Invariance, PTL

\* What the emitted code stored in the homes of the temps is what TCG says they hold,
\* and a cached pointer (m_memValuesPtr) points to the home of its temp.
THEOREM HomesCorrect ==
  ASSUME AssignsBase = FALSE
  PROVE  Spec => []HomesCoherent
  <1>1. Inv => HomesCoherent
    BY DEF Inv, Coherent, llvm, HomesCoherent, MemoryCoherent, PointersCoherent
  <1>. QED BY <1>1, Invariance, PTL

\* A plain temp that was assigned and not discarded is still cached, and nothing
\* cached belongs to another basic block: the emitted code is well formed.
THEOREM CachesAlwaysUsable ==
  ASSUME AssignsBase = FALSE
  PROVE  Spec => []CachesUsable
  <1>1. Inv => CachesUsable
    BY DEF Inv, Coherent, llvm, CachesUsable, TempsKept, CachesDominate
  <1>. QED BY <1>1, Invariance, PTL

-----------------------------------------------------------------------------
(* SoftMmu: the inductive invariant *)

\* The bytes of all physical pages.
AllPages(m) == m = [p \in Physical |-> [o \in 0 .. PageSize - 1 |-> m[p][o]]]

\* Types.  The page table and the set of pages with code are what the model allows.
MmuTypes ==
  /\ AllPages(ram)
  /\ table \in PageTables /\ code \subseteq Physical
  /\ tlb = [i \in 0 .. TlbSize - 1 |-> tlb[i]]

\* What the TLB says of a page is what the page table says.
TlbRight ==
  \A i \in 0 .. TlbSize - 1, p \in Nat :
    /\ tlb[i].read = p => table[p].present /\ tlb[i].phys = table[p].phys
    /\ tlb[i].write = p => table[p].present /\ table[p].writable /\ tlb[i].phys = table[p].phys

\* An access, in progress or ended, is one that was started.
AccessTypes ==
  /\ access = [op |-> access.op, kernel |-> access.kernel, fast |-> access.fast,
               addr |-> access.addr, size |-> access.size, value |-> access.value,
               todo |-> access.todo, got |-> access.got, result |-> access.result,
               before |-> access.before]
  /\ access.op \in {"load", "store"} /\ access.kernel \in BOOLEAN /\ access.fast \in BOOLEAN
  /\ access.addr \in Addresses /\ access.size \in Sizes
  /\ access.value = IF access.op = "store" THEN [i \in 1 .. access.size |-> access.value[i]] ELSE <<>>
  /\ AllPages(access.before)

\* The access is still to do as a whole, or from its k-th byte down, or but for
\* its first word.
Whole == access.got = <<>> /\ access.todo = <<Part(access.addr, access.size, access.value)>>
FromByte(k) ==
  access.todo = [j \in 1 .. k |-> Part(access.addr + k - j, 1, <<access.value[k - j + 1]>>)]
Low == access.addr - (access.addr % access.size)
BothWords ==
  access.got = <<>> /\ access.todo = <<Part(Low, access.size, <<>>), Part(Low + access.size, access.size, <<>>)>>
HighWord(w) ==
  access.got = <<w>> /\ access.todo = <<Part(Low + access.size, access.size, <<>>)>>

\* What a store has written so far: nothing but what it should, and the bytes
\* above the k-th.
OnlyTargets ==
  \A p \in Physical, o \in 0 .. PageSize - 1 :
    ram[p][o] # access.before[p][o] =>
      /\ Stores(p)
      /\ \E i \in 1 .. access.size :
           Target(i) = [phys |-> p, offset |-> o] /\ ram[p][o] = access.value[i]
Above(k) ==
  \A i \in 1 .. access.size :
    i > k /\ Stores(Target(i).phys) => ram[Target(i).phys][Target(i).offset] = access.value[i]

\* A store in progress.  It may have written something already and start again as a
\* whole; then it was allowed, for the highest byte was translated before it was
\* written, and the lowest before the store was cut.
StoreInv ==
  /\ OnlyTargets
  /\ ram # access.before => Allowed
  /\ \/ Whole
     \/ /\ ~access.fast /\ Translated("store", access.addr)
        /\ \E k \in 1 .. access.size : FromByte(k) /\ Above(k) /\ (k < access.size => Allowed)

\* A device or symbolic I/O answers for a byte of the access.
AnswerTouched == \E t \in Touched : Answers(t.phys)

\* The bytes of w that the load asks for, when its low word is w.
Numbered(v, n) == v = [i \in 1 .. n |-> v[i]]
LowRead(w) ==
  /\ Numbered(w, access.size)
  /\ \/ AnswerTouched
     \/ \A i \in 1 .. access.size : i > access.addr % access.size =>
          w[i] = Read[i - (access.addr % access.size)]

\* A load in progress.
LoadInv ==
  /\ ram = access.before
  /\ \/ Whole
     \/ /\ ~access.fast /\ ~Aligned(access.addr, access.size)
        /\ \/ BothWords
           \/ Translated("load", access.addr) /\ HighWord(access.got[1]) /\ LowRead(access.got[1])

\* The fast path is taken as a whole, on the entry that Start looked at.
AccessInv ==
  Busy => /\ access.fast => access.kernel /\ Fast(access.addr, access.size) /\ Whole
          /\ access.op = "store" => StoreInv
          /\ access.op = "load" => LoadInv

\* The inductive invariant.
MmuInv ==
  MmuTypes /\ TlbRight /\ (access # Idle => AccessTypes /\ AccessInv) /\ AccessesAtomic

-----------------------------------------------------------------------------
(* Addresses *)

\* Division with rest.
LEMMA Division ==
  ASSUME NEW m \in Nat \ {0}, NEW x \in Nat
  PROVE  x \div m \in Nat /\ x % m \in 0 .. m - 1 /\ x = m * (x \div m) + (x % m)
  <1>1. x \div m \in Nat /\ x % m \in 0 .. m - 1
    OBVIOUS
  <1>2. x = m * (x \div m) + (x % m)
    OBVIOUS
  <1>. QED BY <1>1, <1>2

\* There is only one quotient and one rest.
LEMMA OneDivision ==
  ASSUME NEW m \in Nat \ {0}, NEW q \in Nat, NEW r \in 0 .. m - 1
  PROVE  (m * q + r) \div m = q /\ (m * q + r) % m = r
  <1>. DEFINE x == m * q + r
  <1>0. m * q \in Nat /\ x \in Nat
    OBVIOUS
  <1>. DEFINE p == x \div m
  <1>. DEFINE s == x % m
  <1>1. p \in Nat /\ s \in 0 .. m - 1 /\ m * q + r = m * p + s
    BY <1>0, Division, Zenon
  <1>. HIDE DEF p, s
  <1>2. m * (q - p) = s - r
    BY <1>1
  <1>3. CASE q - p >= 1
    <2>1. m * (q - p) >= m
      BY <1>1, <1>3
    <2>. QED BY <1>1, <1>2, <2>1
  <1>4. CASE p - q >= 1
    <2>1. m * (p - q) >= m
      BY <1>1, <1>4
    <2>2. m * (q - p) = 0 - m * (p - q)
      BY <1>1
    <2>. QED BY <1>1, <1>2, <2>1, <2>2
  <1>5. q = p
    BY <1>1, <1>3, <1>4
  <1>. QED BY <1>1, <1>5 DEF p, s

\* What fits into a block of d bytes fits into a block of which d is a divisor.
LEMMA Fits ==
  ASSUME NEW m \in Nat \ {0}, NEW d \in Nat \ {0}, m % d = 0,
         NEW a \in Nat, NEW n \in Nat \ {0}, (a % d) + n - 1 < d
  PROVE  (a % m) + n - 1 < m
  <1>. DEFINE k == m \div d
  <1>. DEFINE q == a \div m
  <1>. DEFINE r == a % m
  <1>. DEFINE s == r \div d
  <1>. DEFINE t == r % d
  <1>1. k \in Nat /\ m = d * k
    <2>1. m \div d \in Nat /\ m = d * (m \div d) + (m % d)
      BY Division, Zenon
    <2>. HIDE DEF k
    <2>2. k \in Nat /\ m = d * k + 0
      BY <2>1 DEF k
    <2>. QED BY <2>2
  <1>2. q \in Nat /\ r \in 0 .. m - 1 /\ a = m * q + r
    BY Division, Zenon
  <1>3. s \in Nat /\ t \in 0 .. d - 1 /\ r = d * s + t
    <2>1. r \in Nat
      BY <1>2
    <2>. HIDE DEF r
    <2>. QED BY <2>1, Division, Zenon
  <1>. HIDE DEF k, q, r, s, t
  <1>4. a = d * (k * q + s) + t
    <2>1. m * q = d * (k * q)
      BY <1>1, <1>2
    <2>2. d * (k * q + s) = d * (k * q) + d * s
      BY <1>1, <1>2, <1>3
    <2>. QED BY <1>2, <1>3, <2>1, <2>2
  <1>5. a % d = t
    <2>1. k * q + s \in Nat
      BY <1>1, <1>2, <1>3
    <2>. QED BY <1>3, <1>4, <2>1, OneDivision
  <1>6. s + 1 <= k
    <2>1. SUFFICES ASSUME k <= s PROVE FALSE
      BY <1>1, <1>3
    <2>2. d * (s - k) >= 0
      <3>. DEFINE z == s - k
      <3>1. z \in Nat
        BY <1>1, <1>3, <2>1
      <3>. HIDE DEF z
      <3>2. d * z \in Nat
        BY <3>1
      <3>. QED BY <3>2 DEF z
    <2>3. d * (s - k) = d * s - d * k
      BY <1>1, <1>3
    <2>4. d * s \in Nat /\ d * k \in Nat
      BY <1>1, <1>3
    <2>. QED BY <1>1, <1>2, <1>3, <2>2, <2>3, <2>4
  <1>7. d * (s + 1) <= d * k
    BY <1>1, <1>3, <1>6
  <1>8. d * (s + 1) = d * s + d
    BY <1>3
  <1>9. r + n - 1 < m
    BY <1>1, <1>2, <1>3, <1>5, <1>7, <1>8
  <1>. QED BY <1>9 DEF r

\* The sizes of accesses divide objects and pages.
LEMMA SizesDivide ==
  /\ ObjectSize \in Nat \ {0} /\ PageSize \in Nat \ {0} /\ PageSize >= 4
  /\ \A n \in Sizes : n \in 1 .. 4 /\ ObjectSize % n = 0 /\ PageSize % n = 0
  <1>. DEFINE m == ObjectSize
  <1>. DEFINE p == PageSize
  <1>1. m \in Nat \ {0} /\ m >= 4 /\ m % 4 = 0 /\ p \in Nat \ {0} /\ p % m = 0
    BY SoftMmuAssumption
  <1>. HIDE DEF m, p
  <1>. DEFINE j == m \div 4
  <1>. DEFINE k == p \div m
  <1>2. j \in Nat /\ m = 4 * j
    BY <1>1
  <1>3. k \in Nat /\ p = m * k
    <2>1. p \div m \in Nat /\ p = m * (p \div m) + (p % m)
      BY <1>1, Division
    <2>. HIDE DEF k
    <2>2. k \in Nat /\ p = m * k + 0
      BY <1>1, <2>1 DEF k
    <2>. QED BY <1>1, <2>2
  <1>. HIDE DEF j, k
  <1>4. p >= 4
    <2>1. k >= 1
      BY <1>1, <1>3
    <2>2. m * k >= m
      <3>1. m * (k - 1) \in Nat
        BY <1>1, <1>3, <2>1
      <3>2. m * (k - 1) = m * k - m
        BY <1>1, <1>3
      <3>. QED BY <1>1, <1>3, <3>1, <3>2
    <2>. QED BY <1>1, <1>3, <2>2
  <1>5. p = 4 * (j * k) /\ j * k \in Nat
    BY <1>2, <1>3
  <1>6. ASSUME NEW n \in Sizes PROVE n \in 1 .. 4 /\ m % n = 0 /\ p % n = 0
    <2>. DEFINE q == j * k
    <2>1. p = 4 * q /\ q \in Nat
      BY <1>5
    <2>. HIDE DEF q
    <2>. QED BY <1>2, <1>6, <2>1 DEF Sizes
  <1>. QED BY <1>1, <1>4, <1>6 DEF m, p

\* The bytes of an access that fits into a page follow each other in that page.
LEMMA InPage ==
  ASSUME NEW a \in Nat, NEW n \in Nat \ {0}, (a % PageSize) + n - 1 < PageSize
  PROVE  \A i \in 1 .. n : /\ Page(a + i - 1) = Page(a)
                          /\ (a + i - 1) % PageSize = (a % PageSize) + i - 1
  <1>. DEFINE m == PageSize
  <1>. DEFINE q == a \div m
  <1>. DEFINE r == a % m
  <1>1. m \in Nat \ {0} /\ r + n - 1 < m
    BY SizesDivide
  <1>2. q \in Nat /\ r \in 0 .. m - 1 /\ a = m * q + r
    <2>. HIDE DEF m
    <2>. QED BY <1>1, Division
  <1>. HIDE DEF m, q, r
  <1>3. ASSUME NEW i \in 1 .. n
        PROVE  (a + i - 1) \div m = q /\ (a + i - 1) % m = r + i - 1
    <2>1. r + i - 1 \in 0 .. m - 1 /\ a + i - 1 = m * q + (r + i - 1)
      <3>1. m * q \in Nat
        BY <1>1, <1>2
      <3>. QED BY <1>1, <1>2, <3>1
    <2>2. (m * q + (r + i - 1)) \div m = q /\ (m * q + (r + i - 1)) % m = r + i - 1
      BY <1>1, <1>2, <2>1, OneDivision, Zenon
    <2>. QED BY <2>1, <2>2
  <1>. QED BY <1>3, Zenon DEF m, q, r, Page

\* What is aligned spans no objects, and what does not span objects is in a page.
LEMMA Unsplit ==
  ASSUME NEW a \in Nat, NEW n \in Sizes
  PROVE  /\ Aligned(a, n) => ~SpansObjects(a, n)
         /\ ~SpansObjects(a, n) => (a % PageSize) + n - 1 < PageSize
  <1>1. n \in Nat \ {0} /\ n \in 1 .. 4 /\ ObjectSize \in Nat \ {0} /\ PageSize \in Nat \ {0}
        /\ ObjectSize % n = 0 /\ PageSize % ObjectSize = 0
    BY SizesDivide, SoftMmuAssumption
  <1>2. a % ObjectSize \in 0 .. ObjectSize - 1
    BY <1>1, Division
  <1>3. ASSUME Aligned(a, n) PROVE ~SpansObjects(a, n)
    <2>1. (a % n) + n - 1 < n
      BY <1>1, <1>3 DEF Aligned
    <2>2. (a % ObjectSize) + n - 1 < ObjectSize
      BY <1>1, <2>1, Fits, Zenon
    <2>. QED BY <1>1, <1>2, <2>2 DEF SpansObjects
  <1>4. ASSUME ~SpansObjects(a, n) PROVE (a % PageSize) + n - 1 < PageSize
    <2>1. (a % ObjectSize) + n - 1 < ObjectSize
      BY <1>1, <1>2, <1>4 DEF SpansObjects
    <2>. QED BY <1>1, <2>1, Fits, Zenon
  <1>. QED BY <1>3, <1>4

\* The two words that an unaligned access touches: where they start, and in
\* which pages they are.
LEMMA Words ==
  ASSUME NEW a \in Nat, NEW n \in Sizes, ~Aligned(a, n)
  PROVE  LET k == a % n
             b == a - (a % n)
         IN  /\ k \in 1 .. n - 1 /\ b \in Nat /\ Aligned(b, n) /\ Aligned(b + n, n)
             /\ \A i \in 1 .. n : /\ Page(b + i - 1) = Page(a)
                                 /\ (b + i - 1) % PageSize = (b % PageSize) + i - 1
             /\ \A i \in 1 .. n : /\ Page(b + n + i - 1) = Page(a + n - 1)
                                 /\ (b + n + i - 1) % PageSize = ((b + n) % PageSize) + i - 1
  <1>. DEFINE k == a % n
  <1>. DEFINE b == a - (a % n)
  <1>. DEFINE q == a \div n
  <1>1. n \in Nat \ {0} /\ n \in 1 .. 4
    BY SizesDivide
  <1>2. q \in Nat /\ k \in 0 .. n - 1 /\ a = n * q + k
    BY <1>1, Division
  <1>3. k # 0
    BY DEF Aligned
  <1>4. b = a - k
    OBVIOUS
  <1>. HIDE DEF k, b, q
  <1>5. b = n * q + 0 /\ b + n = n * (q + 1) + 0 /\ b \in Nat /\ q + 1 \in Nat
    <2>1. n * q \in Nat /\ n * (q + 1) = n * q + n
      BY <1>1, <1>2
    <2>. QED BY <1>1, <1>2, <1>4, <2>1
  <1>6. Aligned(b, n) /\ Aligned(b + n, n)
    <2>1. 0 \in 0 .. n - 1
      BY <1>1
    <2>2. (n * q + 0) % n = 0 /\ (n * (q + 1) + 0) % n = 0
      BY <1>1, <1>2, <1>5, <2>1, OneDivision
    <2>. QED BY <1>5, <2>2 DEF Aligned
  <1>7. \A c \in {b, b + n} : c \in Nat /\ (c % PageSize) + n - 1 < PageSize
    BY <1>1, <1>5, <1>6, Unsplit
  <1>8. \A c \in {b, b + n} : \A i \in 1 .. n :
          Page(c + i - 1) = Page(c) /\ (c + i - 1) % PageSize = (c % PageSize) + i - 1
    BY <1>1, <1>7, InPage
  <1>9. Page(a) = Page(b)
    <2>1. k + 1 \in 1 .. n /\ b + (k + 1) - 1 = a
      BY <1>1, <1>2, <1>4, <1>5
    <2>. QED BY <1>8, <2>1
  <1>10. Page(a + n - 1) = Page(b + n)
    <2>1. k \in 1 .. n /\ (b + n) + k - 1 = a + n - 1
      BY <1>1, <1>2, <1>3, <1>4, <1>5
    <2>. QED BY <1>8, <2>1
  <1>11. k \in 1 .. n - 1
    BY <1>1, <1>2, <1>3
  <1>12. \A i \in 1 .. n : /\ Page(b + i - 1) = Page(a)
                          /\ (b + i - 1) % PageSize = (b % PageSize) + i - 1
    BY <1>8, <1>9
  <1>13. \A i \in 1 .. n : /\ Page(b + n + i - 1) = Page(a + n - 1)
                          /\ (b + n + i - 1) % PageSize = ((b + n) % PageSize) + i - 1
    BY <1>8, <1>10
  <1>. QED BY <1>5, <1>6, <1>11, <1>12, <1>13 DEF k, b

\* An access touches the pages of its first and its last byte.
LEMMA PagesTouched ==
  ASSUME NEW a \in Nat, NEW n \in Sizes, NEW i \in 1 .. n
  PROVE  Page(a + i - 1) \in {Page(a), Page(a + n - 1)}
  <1>1. n \in Nat \ {0} /\ n \in 1 .. 4
    BY SizesDivide
  <1>2. CASE Aligned(a, n)
    <2>1. (a % PageSize) + n - 1 < PageSize
      BY <1>2, Unsplit
    <2>. QED BY <1>1, <2>1, InPage, Zenon
  <1>3. CASE ~Aligned(a, n)
    <2>. DEFINE k == a % n
    <2>. DEFINE b == a - (a % n)
    <2>0. b = a - k
      OBVIOUS
    <2>1. /\ k \in 1 .. n - 1 /\ b \in Nat
          /\ \A j \in 1 .. n : Page(b + j - 1) = Page(a)
          /\ \A j \in 1 .. n : Page(b + n + j - 1) = Page(a + n - 1)
      BY <1>3, Words
    <2>. HIDE DEF k, b
    <2>2. CASE i <= n - k
      <3>1. i + k \in 1 .. n /\ b + (i + k) - 1 = a + i - 1
        BY <1>1, <2>0, <2>1, <2>2
      <3>. QED BY <2>1, <3>1
    <2>3. CASE i > n - k
      <3>1. i - (n - k) \in 1 .. n /\ b + n + (i - (n - k)) - 1 = a + i - 1
        BY <1>1, <2>0, <2>1, <2>3
      <3>. QED BY <2>1, <3>1
    <2>. QED BY <1>1, <2>1, <2>2, <2>3
  <1>. QED BY <1>2, <1>3

\* The bytes of an access are at different offsets.
LEMMA Offsets ==
  ASSUME NEW a \in Nat, NEW i \in 1 .. 4, NEW j \in 1 .. 4,
         (a + i - 1) % PageSize = (a + j - 1) % PageSize
  PROVE  i = j
  <1>. DEFINE m == PageSize
  <1>. DEFINE p == (a + i - 1) \div m
  <1>. DEFINE q == (a + j - 1) \div m
  <1>. DEFINE r == (a + i - 1) % m
  <1>. DEFINE s == (a + j - 1) % m
  <1>1. m \in Nat \ {0} /\ m >= 4 /\ r = s
    BY SizesDivide
  <1>. HIDE DEF m
  <1>2. /\ p \in Nat /\ q \in Nat /\ r \in 0 .. m - 1 /\ s \in 0 .. m - 1
        /\ a + i - 1 = m * p + r /\ a + j - 1 = m * q + s
    <2>1. a + i - 1 \in Nat /\ a + j - 1 \in Nat
      OBVIOUS
    <2>. QED BY <1>1, <2>1, Division, Zenon
  <1>. HIDE DEF p, q, r, s
  <1>3. m * (p - q) = i - j
    <2>1. m * (p - q) = m * p - m * q /\ m * p \in Nat /\ m * q \in Nat
      BY <1>1, <1>2
    <2>. QED BY <1>1, <1>2, <2>1
  <1>4. CASE p > q
    <2>1. m * ((p - q) - 1) \in Nat
      BY <1>1, <1>2, <1>4
    <2>2. m * ((p - q) - 1) = m * (p - q) - m
      BY <1>1, <1>2
    <2>. QED BY <1>1, <1>3, <2>1, <2>2
  <1>5. CASE q > p
    <2>1. m * ((q - p) - 1) \in Nat
      BY <1>1, <1>2, <1>5
    <2>2. m * ((q - p) - 1) = 0 - (m * (p - q)) - m
      BY <1>1, <1>2
    <2>3. 0 - (i - j) - m >= 0
      BY <1>1, <1>3, <2>1, <2>2
    <2>. QED BY <1>1, <2>3
  <1>6. CASE p = q
    <2>1. p - q = 0
      BY <1>2, <1>6
    <2>2. m * (p - q) = 0
      BY <1>1, <2>1
    <2>. QED BY <1>3, <2>2
  <1>7. p < q \/ p = q \/ p > q
    BY <1>2
  <1>. QED BY <1>4, <1>5, <1>6, <1>7

-----------------------------------------------------------------------------
(* Accesses *)

\* What an access is: its bytes have targets, each of its own.
LEMMA Accesses ==
  ASSUME MmuTypes, AccessTypes
  PROVE  /\ access.addr \in Nat /\ access.size \in 1 .. 4
         /\ \A i \in 1 .. access.size :
              /\ access.addr + i - 1 \in Nat
              /\ table[Page(access.addr + i - 1)] \in [phys : Physical, present : BOOLEAN, writable : BOOLEAN]
              /\ Target(i).phys = table[Page(access.addr + i - 1)].phys /\ Target(i).phys \in Physical
              /\ Target(i).offset = (access.addr + i - 1) % PageSize
              /\ Target(i).offset \in 0 .. PageSize - 1
         /\ \A i, j \in 1 .. access.size : Target(i).offset = Target(j).offset => i = j
  <1>1. access.addr \in Nat /\ access.addr \in Addresses /\ access.size \in 1 .. 4 /\ table \in PageTables
    BY SizesDivide, SoftMmuAssumption DEF MmuTypes, AccessTypes
  <1>. DEFINE a == access.addr
  <1>. DEFINE n == access.size
  <1>. HIDE DEF a, n
  <1>2. ASSUME NEW i \in 1 .. n
        PROVE  /\ a + i - 1 \in Nat
               /\ table[Page(a + i - 1)] \in [phys : Physical, present : BOOLEAN, writable : BOOLEAN]
    <2>1. i - 1 \in 0 .. 3 /\ a + (i - 1) = a + i - 1 /\ a + i - 1 \in Nat
      BY <1>1 DEF a, n
    <2>2. a \in Addresses /\ table \in PageTables
      BY <1>1 DEF a
    <2>. QED BY <2>1, <2>2, SoftMmuAssumption
  <1>3. ASSUME NEW i \in 1 .. n
        PROVE  /\ Target(i).phys = table[Page(a + i - 1)].phys
               /\ Target(i).phys \in Physical
               /\ Target(i).offset = (a + i - 1) % PageSize
               /\ Target(i).offset \in 0 .. PageSize - 1
    <2>1. Target(i) = [phys |-> table[Page(a + i - 1)].phys, offset |-> (a + i - 1) % PageSize]
      BY DEF Target, a
    <2>2. (a + i - 1) % PageSize \in 0 .. PageSize - 1
      BY <1>2, SizesDivide, Division, Zenon
    <2>. QED BY <1>2, <2>1, <2>2
  <1>4. ASSUME NEW i \in 1 .. n, NEW j \in 1 .. n, Target(i).offset = Target(j).offset PROVE i = j
    <2>1. i \in 1 .. 4 /\ j \in 1 .. 4 /\ a \in Nat
      BY <1>1 DEF a, n
    <2>. QED BY <1>3, <1>4, <2>1, Offsets
  <1>. QED BY <1>1, <1>2, <1>3, <1>4 DEF a, n

\* The first and the last page that an access touches tell whether it is allowed.
LEMMA AllowedByPages ==
  ASSUME MmuTypes, AccessTypes, NEW op, op = IF access.fast THEN "load" ELSE access.op,
         Translated(op, access.addr), Translated(op, access.addr + access.size - 1)
  PROVE  Allowed
  <1>1. ASSUME NEW i \in 1 .. access.size PROVE Translated(op, access.addr + i - 1)
    <2>1. access.addr \in Nat /\ access.size \in Sizes
      BY Accesses, Zenon DEF AccessTypes
    <2>2. Page(access.addr + i - 1) \in {Page(access.addr), Page(access.addr + access.size - 1)}
      BY <2>1, PagesTouched
    <2>. QED BY <2>2 DEF Translated
  <1>. QED BY <1>1 DEF Allowed

\* A TLB entry that hits says what the page table says.
LEMMA HitsRight ==
  ASSUME MmuTypes, TlbRight, NEW op \in {"load", "store"}, NEW a \in Nat, HitOf(op, a)
  PROVE  EntryOf(a).phys = table[Page(a)].phys /\ Translated(op, a)
  <1>1. Page(a) \in Nat /\ Index(a) \in 0 .. TlbSize - 1
    <2>1. Page(a) \in Nat
      BY SizesDivide, Division, Zenon DEF Page
    <2>2. TlbSize \in Nat \ {0}
      BY SoftMmuAssumption
    <2>. QED BY <2>1, <2>2, Division DEF Index
  <1>. QED BY <1>1 DEF HitOf, EntryOf, TlbRight, Translated

\* What stays of an access when a part of it is done.
Continues ==
  /\ table' = table /\ access' # Idle /\ AccessTypes'
  /\ access'.op = access.op /\ access'.kernel = access.kernel /\ access'.fast = access.fast
  /\ access'.addr = access.addr /\ access'.size = access.size /\ access'.value = access.value
  /\ access'.before = access.before

\* Nothing else of it changes.
LEMMA Changes ==
  ASSUME AccessTypes, table' = table,
         NEW todo, NEW got, NEW result,
         access' = [op |-> access.op, kernel |-> access.kernel, fast |-> access.fast,
               addr |-> access.addr, size |-> access.size, value |-> access.value,
               todo |-> todo, got |-> got, result |-> result, before |-> access.before]
  PROVE  Continues /\ access'.todo = todo /\ access'.got = got /\ access'.result = result
  <1>1. access'.todo = todo /\ access'.got = got /\ access'.result = result
    OBVIOUS
  <1>2. /\ access'.op = access.op /\ access'.kernel = access.kernel /\ access'.fast = access.fast
        /\ access'.addr = access.addr /\ access'.size = access.size /\ access'.value = access.value
        /\ access'.before = access.before
    OBVIOUS
  <1>3. access' # Idle
    <2>1. access'.op # "none"
      BY <1>2 DEF AccessTypes
    <2>. QED BY <2>1 DEF Idle
  <1>4. AccessTypes'
    <2>1. access' = [op |-> access'.op, kernel |-> access'.kernel, fast |-> access'.fast,
               addr |-> access'.addr, size |-> access'.size, value |-> access'.value,
               todo |-> access'.todo, got |-> access'.got, result |-> access'.result,
               before |-> access'.before]
      BY <1>1, <1>2
    <2>2. /\ access'.op \in {"load", "store"} /\ access'.kernel \in BOOLEAN /\ access'.fast \in BOOLEAN
          /\ access'.addr \in Addresses /\ access'.size \in Sizes
      BY <1>2 DEF AccessTypes
    <2>3. access'.value = IF access'.op = "store" THEN [i \in 1 .. access'.size |-> access'.value[i]] ELSE <<>>
      BY <1>2, Zenon DEF AccessTypes
    <2>4. AllPages(access'.before)
      BY <1>2 DEF AccessTypes
    <2>. QED BY <2>1, <2>2, <2>3, <2>4 DEF AccessTypes
  <1>. QED BY <1>1, <1>2, <1>3, <1>4 DEF Continues

\* The last part of an access ends it.
LEMMA EndsAccess ==
  ASSUME AccessTypes, table' = table, NEW kind, NEW value, Ends(kind, value)
  PROVE  Continues /\ ~Busy' /\ access'.result = [kind |-> kind, value |-> value]
  <1>1. access' = [op |-> access.op, kernel |-> access.kernel, fast |-> access.fast,
               addr |-> access.addr, size |-> access.size, value |-> access.value,
               todo |-> <<>>, got |-> <<>>, result |-> [kind |-> kind, value |-> value],
               before |-> access.before]
    BY Zenon DEF AccessTypes, Ends
  <1>2. Continues /\ access'.todo = <<>> /\ access'.result = [kind |-> kind, value |-> value]
    BY <1>1, Changes
  <1>. QED BY <1>2 DEF Busy

\* So its targets stay.
LEMMA TargetsStay ==
  ASSUME Continues
  PROVE  /\ \A i : Target(i)' = Target(i)
         /\ Touched' = Touched /\ (Allowed' <=> Allowed)
         /\ \A p : Stores(p)' <=> Stores(p)
         /\ \A op, a : Translated(op, a)' <=> Translated(op, a)
         /\ Low' = Low /\ (UnalignedWord' <=> UnalignedWord) /\ (AnswerTouched' <=> AnswerTouched)
         /\ \A v : ZeroExtend(v)' = ZeroExtend(v)
  <1>1. \A i : Target(i)' = Target(i)
    BY DEF Continues, Target
  <1>2. Touched' = Touched
    BY <1>1 DEF Continues, Touched
  <1>3. \A op, a : Translated(op, a)' <=> Translated(op, a)
    BY DEF Continues, Translated
  <1>4. Allowed' <=> Allowed
    BY DEF Continues, Allowed, Translated
  <1>5. \A p : Stores(p)' <=> Stores(p)
    BY DEF Continues, Stores
  <1>6. Low' = Low /\ (UnalignedWord' <=> UnalignedWord)
    BY DEF Continues, Low, UnalignedWord, Aligned
  <1>7. AnswerTouched' <=> AnswerTouched
    BY <1>2 DEF AnswerTouched, Answers, Flagged, IsMemory
  <1>8. \A v : ZeroExtend(v)' = ZeroExtend(v)
    BY DEF Continues, ZeroExtend
  <1>. QED BY <1>1, <1>2, <1>3, <1>4, <1>5, <1>6, <1>7, <1>8

-----------------------------------------------------------------------------
(* Stores *)

\* The parts of a store that is done a byte at a time.
LEMMA ByteParts ==
  ASSUME NEW k \in Nat \ {0}, FromByte(k)
  PROVE  /\ Len(access.todo) = k /\ access.todo # <<>>
         /\ Head(access.todo) = Part(access.addr + k - 1, 1, <<access.value[k]>>)
         /\ k > 1 => Tail(access.todo) = [j \in 1 .. k - 1 |->
                        Part(access.addr + (k - 1) - j, 1, <<access.value[(k - 1) - j + 1]>>)]
  <1>. DEFINE f(j) == Part(access.addr + k - j, 1, <<access.value[k - j + 1]>>)
  <1>. DEFINE S == {f(j) : j \in 1 .. k}
  <1>1. access.todo = [j \in 1 .. k |-> f(j)]
    BY DEF FromByte
  <1>2. \A j \in 1 .. k : f(j) \in S
    OBVIOUS
  <1>3. f(1) = Part(access.addr + k - 1, 1, <<access.value[k]>>)
    <2>1. k - 1 + 1 = k
      OBVIOUS
    <2>. QED BY <2>1
  <1>4. k > 1 => \A j \in 1 .. k - 1 :
                   f(j + 1) = Part(access.addr + (k - 1) - j, 1, <<access.value[(k - 1) - j + 1]>>)
    OBVIOUS
  <1>. HIDE DEF f, S
  <1>5. access.todo \in Seq(S) /\ Len(access.todo) = k
    BY <1>1, <1>2
  <1>6. Head(access.todo) = f(1) /\ access.todo # <<>>
    BY <1>1, <1>5
  <1>7. k > 1 => Tail(access.todo) = [j \in 1 .. k - 1 |-> f(j + 1)]
    BY <1>1, <1>5
  <1>. QED BY <1>3, <1>4, <1>5, <1>6, <1>7, Zenon

\* What is written into a page: the bytes at the address, and no other.
LEMMA WrittenBytes ==
  ASSUME MmuTypes, NEW p \in Physical, NEW a, NEW v, NEW n, DOMAIN v = 1 .. n
  PROVE  /\ AllPages(Written(ram, p, a, v))
         /\ \A q \in Physical, o \in 0 .. PageSize - 1 :
              Written(ram, p, a, v)[q][o] =
                IF q = p /\ o - (a % PageSize) + 1 \in 1 .. n
                THEN v[o - (a % PageSize) + 1] ELSE ram[q][o]
  <1>. DEFINE w == Written(ram, p, a, v)
  <1>. DEFINE f(o) == LET i == o - (a % PageSize) + 1 IN IF i \in DOMAIN v THEN v[i] ELSE ram[p][o]
  <1>1. /\ DOMAIN ram = Physical /\ DOMAIN ram[p] = 0 .. PageSize - 1
        /\ ram = [q \in Physical |-> [o \in 0 .. PageSize - 1 |-> ram[q][o]]]
    BY DEF MmuTypes, AllPages
  <1>2. w = [ram EXCEPT ![p] = [o \in 0 .. PageSize - 1 |-> f(o)]]
    BY <1>1 DEF Written
  <1>3. \A o \in 0 .. PageSize - 1 :
          f(o) = IF o - (a % PageSize) + 1 \in 1 .. n THEN v[o - (a % PageSize) + 1] ELSE ram[p][o]
    OBVIOUS
  <1>. HIDE DEF f, w
  <1>4. \A q \in Physical : w[q] = IF q = p THEN [o \in 0 .. PageSize - 1 |-> f(o)] ELSE ram[q]
    BY <1>1, <1>2
  <1>5. ASSUME NEW q \in Physical PROVE w[q] = [o \in 0 .. PageSize - 1 |-> w[q][o]]
    <2>1. CASE q = p
      BY <1>4, <2>1, Zenon
    <2>2. CASE q # p
      <3>1. ram[q] = [o \in 0 .. PageSize - 1 |-> ram[q][o]]
        BY <1>1
      <3>. QED BY <1>4, <2>2, <3>1, Zenon
    <2>. QED BY <2>1, <2>2
  <1>6. w = [q \in Physical |-> w[q]]
    BY <1>1, <1>2
  <1>7. AllPages(w)
    BY <1>5, <1>6 DEF AllPages
  <1>8. \A q \in Physical, o \in 0 .. PageSize - 1 :
          w[q][o] = IF q = p /\ o - (a % PageSize) + 1 \in 1 .. n
                    THEN v[o - (a % PageSize) + 1] ELSE ram[q][o]
    <2>1. ASSUME NEW q \in Physical, NEW o \in 0 .. PageSize - 1
          PROVE  w[q][o] = IF q = p THEN f(o) ELSE ram[q][o]
      BY <1>4, Zenon
    <2>. QED BY <1>3, <2>1
  <1>. QED BY <1>7, <1>8 DEF w

\* A step puts the bytes in I where they belong, and nothing anywhere else.
Puts(I) ==
  /\ AllPages(ram')
  /\ \A i \in I : Stores(Target(i).phys) =>
                  ram'[Target(i).phys][Target(i).offset] = access.value[i]
  /\ \A p \in Physical, o \in 0 .. PageSize - 1 :
       ram'[p][o] # ram[p][o] => Stores(p) /\ \E i \in I : Target(i) = [phys |-> p, offset |-> o]

\* A step writes the n bytes v of a store from its k-th on, which lie in one page, p, at
\* the address a.
WritesPart(k, n, a, v, p) ==
  /\ k + n - 1 <= access.size
  /\ a = access.addr + k - 1 /\ (a % PageSize) + n - 1 < PageSize
  /\ DOMAIN v = 1 .. n /\ \A j \in 1 .. n : v[j] = access.value[k + j - 1]
  /\ p = table[Page(a)].phys
  /\ ram' = IF Stores(p) THEN Written(ram, p, a, v) ELSE ram

\* To write one part of a store puts the bytes of that part where they belong, or
\* nowhere when the page takes no bytes.
LEMMA PutsPart ==
  ASSUME MmuTypes, AccessTypes, NEW k \in 1 .. access.size, NEW n \in 1 .. access.size,
         NEW a, NEW v, NEW p, WritesPart(k, n, a, v, p)
  PROVE  Puts(k .. k + n - 1)
  <1>a. k + n - 1 <= access.size /\ a = access.addr + k - 1
    BY DEF WritesPart
  <1>s. access.size \in 1 .. 4 /\ access.addr \in Nat
    BY Accesses
  <1>0. access.size \in Nat /\ k \in Nat /\ a \in Nat /\ n \in Nat \ {0}
    BY <1>a, <1>s
  <1>b. (a % PageSize) + n - 1 < PageSize
    BY DEF WritesPart
  <1>i. \A j \in 1 .. n : /\ Page(a + j - 1) = Page(a)
                          /\ (a + j - 1) % PageSize = (a % PageSize) + j - 1
    BY <1>0, <1>b, InPage
  <1>. DEFINE r == a % PageSize
  <1>1. PageSize \in Nat \ {0} /\ r \in 0 .. PageSize - 1 /\ r + n - 1 < PageSize
    BY <1>0, <1>b, SizesDivide, Division
  <1>v. DOMAIN v = 1 .. n /\ \A j \in 1 .. n : v[j] = access.value[k + j - 1]
    BY DEF WritesPart
  <1>w. p = table[Page(a)].phys /\ ram' = IF Stores(p) THEN Written(ram, p, a, v) ELSE ram
    BY DEF WritesPart
  <1>k. /\ Target(k).phys = table[Page(access.addr + k - 1)].phys
        /\ Target(k).phys \in Physical
    BY Accesses
  <1>p. p \in Physical
    BY <1>a, <1>k, <1>w
  <1>. HIDE DEF r
  <1>2. ASSUME NEW j \in 1 .. n
        PROVE  /\ k + j - 1 \in 1 .. access.size
               /\ Target(k + j - 1) = [phys |-> p, offset |-> r + j - 1]
               /\ r + j - 1 \in 0 .. PageSize - 1
    <2>1. k + j - 1 \in 1 .. access.size /\ access.addr + (k + j - 1) - 1 = a + j - 1
      BY <1>0, <1>a, <1>s
    <2>2. Page(a + j - 1) = Page(a) /\ (a + j - 1) % PageSize = r + j - 1
      BY <1>i DEF r
    <2>3. Target(k + j - 1) = [phys |-> p, offset |-> r + j - 1]
      BY <1>w, <2>1, <2>2 DEF Target
    <2>4. r + j - 1 \in 0 .. PageSize - 1
      BY <1>1
    <2>. QED BY <2>1, <2>3, <2>4
  <1>3. ASSUME NEW i \in k .. k + n - 1
        PROVE  \E j \in 1 .. n : /\ k + j - 1 = i /\ r + j - 1 \in 0 .. PageSize - 1
                               /\ Target(i) = [phys |-> p, offset |-> r + j - 1]
    <2>1. i - k + 1 \in 1 .. n /\ k + (i - k + 1) - 1 = i
      BY <1>0
    <2>2. PICK j \in 1 .. n : k + j - 1 = i
      BY <2>1
    <2>. QED BY <1>2, <2>2, Zenon
  <1>4. CASE ~Stores(p)
    <2>1. ram' = ram
      BY <1>4, <1>w
    <2>2. \A i \in k .. k + n - 1 : Target(i).phys = p
      BY <1>3
    <2>3. AllPages(ram)
      BY DEF MmuTypes
    <2>. QED BY <1>4, <2>1, <2>2, <2>3 DEF Puts
  <1>5. CASE Stores(p)
    <2>0. ram' = Written(ram, p, a, v)
      BY <1>5, <1>w
    <2>. DEFINE w == Written(ram, p, a, v)
    <2>1. AllPages(w)
      BY <1>p, <1>v, WrittenBytes
    <2>2. \A q \in Physical, o \in 0 .. PageSize - 1 :
            w[q][o] = IF q = p /\ o - (a % PageSize) + 1 \in 1 .. n
                      THEN v[o - (a % PageSize) + 1] ELSE ram[q][o]
      BY <1>p, <1>v, WrittenBytes
    <2>. HIDE DEF w
    <2>3. \A q \in Physical, o \in 0 .. PageSize - 1 :
               ram'[q][o] = IF q = p /\ o - r + 1 \in 1 .. n THEN v[o - r + 1] ELSE ram[q][o]
      BY <2>0, <2>2 DEF r, w
    <2>4. ASSUME NEW i \in k .. k + n - 1
          PROVE  ram'[Target(i).phys][Target(i).offset] = access.value[i]
      <3>1. PICK j \in 1 .. n : /\ k + j - 1 = i /\ r + j - 1 \in 0 .. PageSize - 1
                               /\ Target(i) = [phys |-> p, offset |-> r + j - 1]
        BY <1>3
      <3>2. (r + j - 1) - r + 1 = j
        BY <1>1
      <3>3. ram'[p][r + j - 1] = v[j]
        BY <1>p, <2>3, <3>1, <3>2
      <3>4. v[j] = access.value[i]
        BY <1>v, <3>1
      <3>5. Target(i).phys = p /\ Target(i).offset = r + j - 1
        BY <3>1
      <3>. QED BY <3>3, <3>4, <3>5
    <2>5. ASSUME NEW q \in Physical, NEW o \in 0 .. PageSize - 1, ram'[q][o] # ram[q][o]
          PROVE  Stores(q) /\ \E i \in k .. k + n - 1 : Target(i) = [phys |-> q, offset |-> o]
      <3>1. q = p /\ o - r + 1 \in 1 .. n
        BY <2>3, <2>5
      <3>2. PICK j \in 1 .. n : j = o - r + 1
        BY <3>1
      <3>3. r + j - 1 = o
        BY <1>1, <3>2
      <3>4. Target(k + j - 1) = [phys |-> q, offset |-> o]
        BY <1>2, <3>1, <3>3
      <3>5. k + j - 1 \in k .. k + n - 1
        BY <1>0
      <3>. QED BY <1>5, <3>1, <3>4, <3>5
    <2>. QED BY <2>0, <2>1, <2>4, <2>5 DEF Puts, w
  <1>. QED BY <1>4, <1>5

\* So a store writes what it should, and keeps what it has written.
LEMMA PutsKeeps ==
  ASSUME MmuTypes, AccessTypes, OnlyTargets, NEW I \in SUBSET (1 .. access.size), Puts(I), Continues
  PROVE  /\ OnlyTargets'
         /\ \A k : Above(k) => \A i \in 1 .. access.size :
              (i > k \/ i \in I) /\ Stores(Target(i).phys) =>
                ram'[Target(i).phys][Target(i).offset] = access.value[i]
  <1>1. \A i \in 1 .. access.size : Target(i).phys \in Physical /\ Target(i).offset \in 0 .. PageSize - 1
    BY Accesses
  <1>2. ASSUME NEW p \in Physical, NEW o \in 0 .. PageSize - 1, ram'[p][o] # access.before[p][o]
        PROVE  /\ Stores(p)
               /\ \E i \in 1 .. access.size :
                    Target(i) = [phys |-> p, offset |-> o] /\ ram'[p][o] = access.value[i]
    <2>1. CASE ram'[p][o] = ram[p][o]
      BY <1>2, <2>1 DEF OnlyTargets
    <2>2. CASE ram'[p][o] # ram[p][o]
      <3>1. PICK i \in I : Stores(p) /\ Target(i) = [phys |-> p, offset |-> o]
        BY <2>2 DEF Puts
      <3>2. ram'[p][o] = access.value[i]
        BY <3>1 DEF Puts
      <3>. QED BY <3>1, <3>2
    <2>. QED BY <2>1, <2>2
  <1>3. OnlyTargets'
    BY <1>2, TargetsStay DEF OnlyTargets, Continues
  <1>4. ASSUME NEW k, Above(k), NEW i \in 1 .. access.size, i > k \/ i \in I, Stores(Target(i).phys)
        PROVE  ram'[Target(i).phys][Target(i).offset] = access.value[i]
    <2>1. CASE i \in I
      BY <1>4, <2>1 DEF Puts
    <2>2. CASE i \notin I
      <3>1. ram[Target(i).phys][Target(i).offset] = access.value[i]
        BY <1>4, <2>2 DEF Above
      <3>2. ~\E j \in I : Target(j) = [phys |-> Target(i).phys, offset |-> Target(i).offset]
        <4>1. \A j \in I : Target(j).offset = Target(i).offset => j = i
          BY Accesses
        <4>. QED BY <2>2, <4>1
      <3>3. ram'[Target(i).phys][Target(i).offset] = ram[Target(i).phys][Target(i).offset]
        BY <1>1, <3>2 DEF Puts
      <3>. QED BY <3>1, <3>3
    <2>. QED BY <2>1, <2>2
  <1>. QED BY <1>3, <1>4

\* Every byte of the store is where it belongs.
AllWritten ==
  \A i \in 1 .. access.size : Stores(Target(i).phys) =>
    ram[Target(i).phys][Target(i).offset] = access.value[i]

\* Once all its bytes are written, a store has done what it should.
LEMMA Completed == AllPages(ram) /\ OnlyTargets /\ AllWritten => ram = Expected
  <1>. SUFFICES ASSUME AllPages(ram), OnlyTargets, AllWritten PROVE ram = Expected
    OBVIOUS
  <1>. DEFINE Byte1(p, o) ==
         IF Stores(p) /\ [phys |-> p, offset |-> o] \in Touched
         THEN access.value[CHOOSE i \in 1 .. access.size :
                             Target(i) = [phys |-> p, offset |-> o]]
         ELSE access.before[p][o]
  <1>1. ASSUME NEW p \in Physical, NEW o \in 0 .. PageSize - 1 PROVE ram[p][o] = Byte1(p, o)
    <2>1. CASE Stores(p) /\ [phys |-> p, offset |-> o] \in Touched
      <3>1. PICK i \in 1 .. access.size : Target(i) = [phys |-> p, offset |-> o]
        BY <2>1 DEF Touched
      <3>. DEFINE c == CHOOSE j \in 1 .. access.size : Target(j) = [phys |-> p, offset |-> o]
      <3>2. c \in 1 .. access.size /\ Target(c) = [phys |-> p, offset |-> o]
        BY <3>1
      <3>3. Byte1(p, o) = access.value[c]
        BY <2>1
      <3>. HIDE DEF c
      <3>4. Target(c).phys = p /\ Target(c).offset = o
        BY <3>2
      <3>. QED BY <2>1, <3>2, <3>3, <3>4 DEF AllWritten
    <2>2. CASE ~(Stores(p) /\ [phys |-> p, offset |-> o] \in Touched)
      <3>1. Byte1(p, o) = access.before[p][o]
        BY <2>2
      <3>2. ram[p][o] = access.before[p][o]
        <4>1. SUFFICES ASSUME ram[p][o] # access.before[p][o] PROVE FALSE
          OBVIOUS
        <4>2. Stores(p) /\ \E i \in 1 .. access.size : Target(i) = [phys |-> p, offset |-> o]
          BY <4>1 DEF OnlyTargets
        <4>. QED BY <2>2, <4>2 DEF Touched
      <3>. QED BY <3>1, <3>2
    <2>. QED BY <2>1, <2>2, Zenon
  <1>2. Expected = [p \in Physical |-> [o \in 0 .. PageSize - 1 |-> Byte1(p, o)]]
    BY DEF Expected
  <1>. HIDE DEF Byte1
  <1>3. ram = [p \in Physical |-> [o \in 0 .. PageSize - 1 |-> ram[p][o]]]
    BY DEF AllPages
  <1>4. \A p \in Physical : [o \in 0 .. PageSize - 1 |-> ram[p][o]]
                          = [o \in 0 .. PageSize - 1 |-> Byte1(p, o)]
    BY <1>1
  <1>. QED BY <1>2, <1>3, <1>4

\* The same after the step that wrote the last of them.
LEMMA CompletedStep ==
  ASSUME Continues, AllPages(ram'), OnlyTargets',
         \A i \in 1 .. access.size : Stores(Target(i).phys) =>
           ram'[Target(i).phys][Target(i).offset] = access.value[i]
  PROVE  ram' = Expected'
  <1>1. AllWritten'
    BY TargetsStay DEF AllWritten, Continues
  <1>2. AllPages(ram)'
    BY DEF AllPages
  <1>3. (AllPages(ram) /\ OnlyTargets /\ AllWritten => ram = Expected)'
    BY Completed, PTL
  <1>. QED BY <1>1, <1>2, <1>3

\* A part that is done when others are left, and the last one.
LEMMA NextPart ==
  ASSUME AccessTypes, table' = table, NEW v, PartDone(v)
  PROVE  /\ Len(access.todo) > 1 =>
              Continues /\ access'.todo = Tail(access.todo) /\ access'.got = Append(access.got, v)
         /\ ~(Len(access.todo) > 1) =>
              /\ Continues /\ ~Busy'
              /\ access'.result = [kind |-> "done", value |->
                   IF access.op = "load" THEN Combined(Append(access.got, v)) ELSE <<>>]
  <1>1. CASE Len(access.todo) > 1
    <2>1. access' = [access EXCEPT !.todo = Tail(access.todo), !.got = Append(access.got, v)]
      BY <1>1 DEF PartDone
    <2>2. access' = [op |-> access.op, kernel |-> access.kernel, fast |-> access.fast,
               addr |-> access.addr, size |-> access.size, value |-> access.value,
               todo |-> Tail(access.todo), got |-> Append(access.got, v),
               result |-> access.result, before |-> access.before]
      BY <2>1, Zenon DEF AccessTypes
    <2>3. Continues /\ access'.todo = Tail(access.todo) /\ access'.got = Append(access.got, v)
      BY <2>2, Changes
    <2>. QED BY <1>1, <2>3
  <1>2. CASE ~(Len(access.todo) > 1)
    <2>1. Ends("done", IF access.op = "load" THEN Combined(Append(access.got, v)) ELSE <<>>)
      BY <1>2 DEF PartDone
    <2>. QED BY <1>2, <2>1, EndsAccess
  <1>. QED BY <1>1, <1>2

\* A part of a store is done: the bytes above it and its own are written.
StoreGoal ==
  /\ Continues /\ AllPages(ram') /\ OnlyTargets'
  /\ Busy' => StoreInv' /\ ~access.fast
  /\ ~Busy' => access'.result.kind = "done" /\ Allowed' /\ ram' = Expected'

\* Done as a whole, within a page.
LEMMA WholeStored ==
  ASSUME MmuTypes, AccessTypes, access.op = "store", OnlyTargets, Whole, table' = table,
         NEW op, op = IF access.fast THEN "load" ELSE "store", Translated(op, access.addr),
         (access.addr % PageSize) + access.size - 1 < PageSize,
         NEW p, p = table[Page(access.addr)].phys,
         ram' = IF Stores(p) THEN Written(ram, p, access.addr, access.value) ELSE ram,
         NEW v, PartDone(v)
  PROVE  StoreGoal
  <1>0. access.size \in 1 .. 4 /\ access.addr \in Nat
    BY Accesses
  <1>. DEFINE n == access.size
  <1>. DEFINE a == access.addr
  <1>1. /\ Continues /\ ~Busy'
        /\ access'.result = [kind |-> "done", value |-> <<>>]
    <2>1. ~(Len(access.todo) > 1)
      BY DEF Whole
    <2>. QED BY <2>1, NextPart
  <1>2. Puts(1 .. n)
    <2>1. /\ DOMAIN access.value = 1 .. n
      BY DEF AccessTypes
    <2>2. \A j \in 1 .. n : access.value[j] = access.value[1 + j - 1]
      BY <1>0
    <2>3. a = access.addr + 1 - 1 /\ 1 \in 1 .. n /\ n \in 1 .. n /\ 1 + n - 1 = n /\ n <= n
      BY <1>0
    <2>. HIDE DEF n
    <2>4. /\ 1 + n - 1 <= access.size /\ (a % PageSize) + n - 1 < PageSize
      BY <2>3 DEF n
    <2>. HIDE DEF a
    <2>5. Puts(1 .. 1 + n - 1)
      <3>1. p = table[Page(a)].phys /\ ram' = IF Stores(p) THEN Written(ram, p, a, access.value) ELSE ram
        BY DEF a
      <3>2. WritesPart(1, n, a, access.value, p)
        BY <2>1, <2>2, <2>3, <2>4, <3>1 DEF WritesPart
      <3>. QED BY <2>3, <3>2, PutsPart DEF n
    <2>. QED BY <2>3, <2>5
  <1>3. Allowed
    <2>1. n \in 1 .. n /\ n \in Nat \ {0}
      BY <1>0
    <2>2. Page(a + n - 1) = Page(a)
      BY <1>0, <2>1, InPage
    <2>3. Translated(op, a + n - 1)
      BY <2>2 DEF Translated
    <2>. QED BY <2>3, AllowedByPages
  <1>4. OnlyTargets' /\ \A i \in 1 .. n : Stores(Target(i).phys) =>
                          ram'[Target(i).phys][Target(i).offset] = access.value[i]
    <2>1. Above(n)
      BY <1>0 DEF Above
    <2>. QED BY <1>1, <1>2, <2>1, PutsKeeps, Zenon
  <1>5. AllPages(ram')
    BY <1>2 DEF Puts
  <1>6. ram' = Expected'
    BY <1>1, <1>4, <1>5, CompletedStep
  <1>7. Allowed'
    BY <1>1, <1>3, TargetsStay
  <1>. QED BY <1>1, <1>4, <1>5, <1>6, <1>7 DEF StoreGoal

\* Done a byte at a time, the highest first.
LEMMA ByteStored ==
  ASSUME MmuTypes, AccessTypes, access.op = "store", ~access.fast, OnlyTargets,
         Translated("store", access.addr), table' = table,
         NEW k \in 1 .. access.size, FromByte(k), Above(k), k < access.size => Allowed,
         Translated("store", access.addr + k - 1),
         NEW p, p = table[Page(access.addr + k - 1)].phys,
         ram' = IF Stores(p) THEN Written(ram, p, access.addr + k - 1, <<access.value[k]>>)
                             ELSE ram,
         NEW v, PartDone(v)
  PROVE  StoreGoal
  <1>0. access.size \in 1 .. 4 /\ access.addr \in Nat /\ k \in Nat \ {0} /\ k \in 1 .. 4
    <2>1. access.size \in 1 .. 4 /\ access.addr \in Nat
      BY Accesses
    <2>. QED BY <2>1
  <1>. DEFINE n == access.size
  <1>. DEFINE a == access.addr + k - 1
  <1>1. Allowed
    <2>1. CASE k < n
      BY <2>1
    <2>2. CASE k = n
      BY <2>2, AllowedByPages
    <2>. QED BY <1>0, <2>1, <2>2
  <1>2. Puts(k .. k)
    <2>1. a \in Nat /\ 1 \in 1 .. n /\ k + 1 - 1 = k /\ k <= n
      BY <1>0
    <2>2. (a % PageSize) + 1 - 1 < PageSize
      <3>. HIDE DEF a
      <3>1. a % PageSize \in 0 .. PageSize - 1
        BY <2>1, SizesDivide, Division
      <3>2. PageSize \in Nat
        BY SizesDivide
      <3>. QED BY <3>1, <3>2
    <2>3. p = table[Page(a)].phys /\ ram' = IF Stores(p) THEN Written(ram, p, a, <<access.value[k]>>) ELSE ram
      BY DEF a
    <2>4. DOMAIN <<access.value[k]>> = 1 .. 1 /\ \A j \in 1 .. 1 : <<access.value[k]>>[j] = access.value[k + j - 1]
      BY <1>0
    <2>5. a = access.addr + k - 1
      OBVIOUS
    <2>. HIDE DEF a, n
    <2>6. WritesPart(k, 1, a, <<access.value[k]>>, p)
      BY <2>1, <2>2, <2>3, <2>4, <2>5 DEF WritesPart, n
    <2>7. Puts(k .. k + 1 - 1)
      BY <2>1, <2>6, PutsPart DEF n
    <2>. QED BY <2>1, <2>7
  <1>3. Continues
    BY NextPart
  <1>4. AllPages(ram') /\ OnlyTargets'
    <2>1. k .. k \in SUBSET (1 .. n)
      BY <1>0
    <2>. QED BY <1>2, <1>3, <2>1, PutsKeeps, Zenon DEF Puts
  <1>5. \A i \in 1 .. n : i > k - 1 /\ Stores(Target(i).phys) =>
          ram'[Target(i).phys][Target(i).offset] = access.value[i]
    <2>1. k .. k \in SUBSET (1 .. n)
      BY <1>0
    <2>2. \A i \in 1 .. n :
            (i > k \/ i \in k .. k) /\ Stores(Target(i).phys) =>
              ram'[Target(i).phys][Target(i).offset] = access.value[i]
      BY <1>2, <1>3, <2>1, PutsKeeps
    <2>3. \A i \in 1 .. n : i > k - 1 => i > k \/ i \in k .. k
      BY <1>0
    <2>. QED BY <2>2, <2>3
  <1>6. Allowed' /\ ~access'.fast /\ Translated("store", access.addr)'
    BY <1>1, <1>3, TargetsStay DEF Continues, Translated
  <1>7. Len(access.todo) = k
    BY <1>0, ByteParts, Zenon
  <1>8. CASE k > 1
    <2>1. Len(access.todo) > 1
      BY <1>0, <1>8, <1>7
    <2>2. access'.todo = [j \in 1 .. k - 1 |->
                            Part(access.addr + (k - 1) - j, 1, <<access.value[(k - 1) - j + 1]>>)]
      BY <1>0, <1>8, <2>1, ByteParts, NextPart, Zenon
    <2>3. FromByte(k - 1)'
      BY <1>3, <2>2 DEF FromByte, Continues
    <2>4. Above(k - 1)'
      BY <1>3, <1>5, TargetsStay DEF Above, Continues
    <2>5. k - 1 \in 1 .. access'.size
      BY <1>0, <1>3, <1>8 DEF Continues
    <2>6. StoreInv'
      <3>1. (\E j \in 1 .. access.size : FromByte(j) /\ Above(j) /\ (j < access.size => Allowed))'
        BY <1>6, <2>3, <2>4, <2>5
      <3>. QED BY <1>4, <1>6, <3>1 DEF StoreInv
    <2>7. Busy'
      <3>1. 1 \in DOMAIN access'.todo
        BY <1>0, <1>8, <2>2
      <3>. QED BY <1>3, <3>1 DEF Busy, Continues
    <2>. QED BY <1>3, <1>4, <2>6, <2>7 DEF StoreGoal
  <1>9. CASE k = 1
    <2>1. ~(Len(access.todo) > 1)
      BY <1>0, <1>9, <1>7
    <2>2. ~Busy' /\ access'.result = [kind |-> "done", value |-> <<>>]
      BY <2>1, NextPart
    <2>3. \A i \in 1 .. n : i > k - 1
      BY <1>0, <1>9
    <2>4. ram' = Expected'
      BY <1>3, <1>4, <1>5, <2>3, CompletedStep
    <2>. QED BY <1>3, <1>4, <1>6, <2>2, <2>4 DEF StoreGoal
  <1>. QED BY <1>0, <1>8, <1>9

-----------------------------------------------------------------------------
(* Loads *)

\* A part of a load is done: the low word is read, or the load has what it asks for.
LoadGoal ==
  /\ Continues /\ ram' = ram
  /\ Busy' => LoadInv' /\ ~access.fast
  /\ ~Busy' => /\ access'.result.kind = "done" /\ Allowed'
               /\ \/ AnswerTouched
                  \/ access'.result.value = ZeroExtend(Read)
                  \/ UnalignedWord /\ SubSeq(access'.result.value, 1, 2) = Read

\* What a part of a load at address a reads: what it is told, or the bytes there.
ReadsPart(a, v) ==
  LET p == table[Page(a)].phys
  IN  /\ Numbered(v, access.size)
      /\ \/ Answers(p)
         \/ \A i \in 1 .. access.size : v[i] = ram[p][(a % PageSize) + i - 1]

\* The load is done as a whole, within a page.
LEMMA WholeLoaded ==
  ASSUME MmuTypes, AccessTypes, access.op = "load", ram = access.before, Whole,
         table' = table, ram' = ram, Translated("load", access.addr),
         (access.addr % PageSize) + access.size - 1 < PageSize,
         NEW v, ReadsPart(access.addr, v), PartDone(v)
  PROVE  LoadGoal
  <1>0. access.size \in 1 .. 4 /\ access.addr \in Nat
    BY Accesses
  <1>. DEFINE n == access.size
  <1>. DEFINE a == access.addr
  <1>1. /\ Continues /\ ~Busy'
        /\ access'.result = [kind |-> "done", value |-> ZeroExtend(v)]
    <2>1. ~(Len(access.todo) > 1) /\ Append(access.got, v) = <<v>>
      BY DEF Whole
    <2>2. Combined(<<v>>) = ZeroExtend(v)
      BY DEF Combined
    <2>. QED BY <2>1, <2>2, NextPart, Zenon
  <1>2. \A i \in 1 .. n : Page(a + i - 1) = Page(a) /\ (a + i - 1) % PageSize = (a % PageSize) + i - 1
    <2>1. n \in Nat \ {0}
      BY <1>0
    <2>. QED BY <1>0, <2>1, InPage, Zenon
  <1>3. Allowed
    <2>1. n \in 1 .. n
      BY <1>0
    <2>2. Page(a + n - 1) = Page(a)
      BY <1>2, <2>1
    <2>3. Translated("load", a + n - 1)
      BY <2>2 DEF Translated
    <2>4. "load" = IF access.fast THEN "load" ELSE access.op
      OBVIOUS
    <2>. QED BY <2>3, <2>4, AllowedByPages
  <1>4. \A i \in 1 .. n : /\ Target(i).phys = table[Page(a)].phys
                         /\ Target(i).offset = (a % PageSize) + i - 1
    BY <1>2, Accesses
  <1>5. AnswerTouched \/ v = Read
    <2>1. CASE Answers(table[Page(a)].phys)
      <3>1. 1 \in 1 .. n
        BY <1>0
      <3>2. Target(1) \in Touched /\ Target(1).phys = table[Page(a)].phys
        BY <1>4, <3>1 DEF Touched
      <3>. QED BY <2>1, <3>2 DEF AnswerTouched
    <2>2. CASE ~Answers(table[Page(a)].phys)
      <3>1. \A i \in 1 .. n : v[i] = ram[table[Page(a)].phys][(a % PageSize) + i - 1]
        BY <2>2 DEF ReadsPart
      <3>2. \A i \in 1 .. n : v[i] = ram[Target(i).phys][Target(i).offset]
        BY <1>4, <3>1
      <3>3. v = [i \in 1 .. n |-> v[i]]
        BY DEF ReadsPart, Numbered
      <3>. QED BY <3>2, <3>3, Zenon DEF Read
    <2>. QED BY <2>1, <2>2
  <1>6. Allowed'
    BY <1>1, <1>3, TargetsStay
  <1>. QED BY <1>1, <1>5, <1>6 DEF LoadGoal

\* The word at the low address is read.
LEMMA LowLoaded ==
  ASSUME MmuTypes, AccessTypes, access.op = "load", ram = access.before, ~access.fast,
         ~Aligned(access.addr, access.size), BothWords,
         table' = table, ram' = ram, Translated("load", Low),
         NEW v, ReadsPart(Low, v), PartDone(v)
  PROVE  LoadGoal
  <1>0. access.size \in 1 .. 4 /\ access.addr \in Nat /\ access.size \in Sizes
    BY Accesses DEF AccessTypes
  <1>. DEFINE n == access.size
  <1>. DEFINE a == access.addr
  <1>. DEFINE k == a % n
  <1>1. /\ Continues /\ access'.todo = <<Part(Low + n, n, <<>>)>> /\ access'.got = <<v>>
    <2>1. /\ Len(access.todo) > 1 /\ Append(access.got, v) = <<v>>
          /\ Tail(access.todo) = <<Part(Low + n, n, <<>>)>>
      BY DEF BothWords
    <2>. QED BY <2>1, NextPart, Zenon
  <1>2. /\ k \in 1 .. n - 1 /\ Low \in Nat
        /\ \A i \in 1 .. n : Page(Low + i - 1) = Page(a) /\ (Low + i - 1) % PageSize = (Low % PageSize) + i - 1
    BY <1>0, Words DEF Low
  <1>3. Low = a - k
    BY DEF Low
  <1>. HIDE DEF k
  <1>4. Page(Low) = Page(a)
    <2>1. 1 \in 1 .. n /\ Low + 1 - 1 = Low
      BY <1>0, <1>2
    <2>. QED BY <1>2, <2>1
  <1>5. \A i \in 1 .. n : i > k => /\ i - k \in 1 .. n
                                  /\ Target(i - k).phys = table[Page(a)].phys
                                  /\ Target(i - k).offset = (Low % PageSize) + i - 1
    <2>1. SUFFICES ASSUME NEW i \in 1 .. n, i > k
                   PROVE  /\ i - k \in 1 .. n
                          /\ Target(i - k).phys = table[Page(a)].phys
                          /\ Target(i - k).offset = (Low % PageSize) + i - 1
      OBVIOUS
    <2>2. i - k \in 1 .. n /\ a + (i - k) - 1 = Low + i - 1
      BY <1>0, <1>2, <1>3, <2>1
    <2>3. PICK j \in 1 .. n : j = i - k
      BY <2>2
    <2>4. a + j - 1 = Low + i - 1
      BY <2>2, <2>3
    <2>5. Target(j).phys = table[Page(a)].phys /\ Target(j).offset = (Low % PageSize) + i - 1
      BY <1>2, <2>4, Accesses
    <2>. QED BY <2>3, <2>5
  <1>6. LowRead(v)
    <2>1. CASE Answers(table[Page(Low)].phys)
      <3>1. n > k /\ n \in 1 .. n
        BY <1>0, <1>2
      <3>2. n - k \in 1 .. n /\ Target(n - k).phys = table[Page(a)].phys
        BY <1>5, <3>1
      <3>3. AnswerTouched
        BY <1>4, <2>1, <3>2 DEF AnswerTouched, Touched
      <3>. QED BY <3>3 DEF LowRead, ReadsPart
    <2>2. CASE ~Answers(table[Page(Low)].phys)
      <3>1. \A i \in 1 .. n : v[i] = ram[table[Page(a)].phys][(Low % PageSize) + i - 1]
        BY <1>4, <2>2 DEF ReadsPart
      <3>2. \A i \in 1 .. n : i > k => v[i] = Read[i - k]
        BY <1>5, <3>1 DEF Read
      <3>. QED BY <3>2 DEF LowRead, ReadsPart, k
    <2>. QED BY <2>1, <2>2
  <1>7. LowRead(v)'
    <2>1. Read' = Read
      BY <1>1, TargetsStay DEF Read, Continues
    <2>. QED BY <1>1, <1>6, <2>1, TargetsStay DEF LowRead, Continues
  <1>8. HighWord(v)' /\ access'.got[1] = v
    BY <1>1, TargetsStay DEF HighWord, Continues
  <1>9. Translated("load", access.addr)'
    BY <1>1, <1>4, TargetsStay DEF Translated, Continues
  <1>10. ~Aligned(access.addr, access.size)' /\ ~access'.fast /\ ram' = access'.before
    BY <1>1 DEF Continues, Aligned
  <1>11. LoadInv'
    BY <1>7, <1>8, <1>9, <1>10 DEF LoadInv
  <1>12. Busy'
    BY <1>1 DEF Busy, Continues
  <1>. QED BY <1>1, <1>11, <1>12 DEF LoadGoal

\* How the two words are combined: the bytes of the low one that the load asks
\* for, then those of the high one.
LEMMA CombinedWords ==
  ASSUME AccessTypes, access.op = "load", ~Aligned(access.addr, access.size), NEW w, NEW v,
         Numbered(w, access.size), Numbered(v, access.size),
         NEW r, r = Combined(<<w, v>>), NEW k, k = access.addr % access.size
  PROVE  /\ k \in 1 .. access.size - 1
         /\ \A i \in 1 .. access.size :
              r[i] = IF i + k \in 1 .. access.size THEN w[i + k] ELSE v[i - (access.size - k)]
         /\ Numbered(r, access.size) \/ (UnalignedWord /\ Numbered(r, 4))
         /\ UnalignedWord \/ \A x : ZeroExtend(x) = x
  <1>. DEFINE n == access.size
  <1>0. n \in 1 .. 4 /\ k \in 1 .. n - 1
    <2>1. access.addr \in Nat /\ access.size \in Sizes
      BY SoftMmuAssumption DEF AccessTypes
    <2>. QED BY <2>1, Words, SizesDivide
  <1>. DEFINE m == IF access.kernel /\ n = 2 THEN 4 ELSE n
  <1>1. m \in 1 .. 4 /\ n <= m /\ (m # n => n = 2 /\ m = 4 /\ UnalignedWord)
    BY <1>0 DEF UnalignedWord
  <1>. DEFINE x == ZeroExtend(w)
  <1>. DEFINE y == ZeroExtend(v)
  <1>2. /\ x = [i \in 1 .. m |-> IF i \in 1 .. n THEN w[i] ELSE {}]
        /\ y = [i \in 1 .. m |-> IF i \in 1 .. n THEN v[i] ELSE {}]
    <2>1. DOMAIN w = 1 .. n /\ DOMAIN v = 1 .. n
      BY DEF Numbered
    <2>2. CASE access.kernel /\ n = 2
      BY <2>1, <2>2 DEF ZeroExtend
    <2>3. CASE ~(access.kernel /\ n = 2)
      <3>1. x = w /\ y = v /\ m = n
        BY <2>3 DEF ZeroExtend
      <3>2. w = [i \in 1 .. n |-> IF i \in 1 .. n THEN w[i] ELSE {}]
        BY DEF Numbered
      <3>3. v = [i \in 1 .. n |-> IF i \in 1 .. n THEN v[i] ELSE {}]
        BY DEF Numbered
      <3>. QED BY <3>1, <3>2, <3>3
    <2>. QED BY <2>2, <2>3
  <1>. DEFINE low == ShiftRight(x, k)
  <1>. DEFINE high == ShiftLeft(y, n - k)
  <1>3. r = [i \in DOMAIN low |-> low[i] \cup high[i]]
    <2>1. Len(<<w, v>>) # 1 /\ <<w, v>>[1] = w /\ <<w, v>>[2] = v
      OBVIOUS
    <2>. HIDE DEF n
    <2>. QED BY <2>1 DEF Combined, n
  <1>. HIDE DEF x, y, m
  <1>4. DOMAIN x = 1 .. m /\ DOMAIN y = 1 .. m
    BY <1>2
  <1>5. /\ low = [i \in 1 .. m |-> IF i + k \in 1 .. m THEN x[i + k] ELSE {}]
        /\ high = [i \in 1 .. m |-> IF i - (n - k) \in 1 .. m THEN y[i - (n - k)] ELSE {}]
    BY <1>4 DEF ShiftRight, ShiftLeft
  <1>. HIDE DEF low, high, n
  <1>6. Numbered(r, m) /\ \A i \in 1 .. m : r[i] = low[i] \cup high[i]
    BY <1>3, <1>5, Zenon DEF Numbered
  <1>7. ASSUME NEW i \in 1 .. n
        PROVE  r[i] = IF i + k \in 1 .. n THEN w[i + k] ELSE v[i - (n - k)]
    <2>0. i \in 1 .. m
      BY <1>0, <1>1
    <2>1. CASE i + k \in 1 .. n
      <3>1. low[i] = w[i + k]
        <4>1. i + k \in 1 .. m
          BY <1>0, <1>1, <2>1
        <4>2. low[i] = x[i + k] /\ x[i + k] = w[i + k]
          BY <1>2, <1>5, <2>0, <2>1, <4>1
        <4>. QED BY <4>2
      <3>2. high[i] = {}
        <4>1. i - (n - k) \notin 1 .. m
          BY <1>0, <1>1, <2>1
        <4>. QED BY <1>5, <2>0, <4>1
      <3>. QED BY <1>6, <2>0, <2>1, <3>1, <3>2, Zenon
    <2>2. CASE i + k \notin 1 .. n
      <3>1. low[i] = {}
        <4>1. CASE i + k \in 1 .. m
          BY <1>2, <1>5, <2>0, <2>2, <4>1
        <4>2. CASE i + k \notin 1 .. m
          BY <1>5, <2>0, <4>2
        <4>. QED BY <4>1, <4>2
      <3>2. high[i] = v[i - (n - k)]
        <4>1. i - (n - k) \in 1 .. n /\ i - (n - k) \in 1 .. m
          BY <1>0, <1>1, <2>2
        <4>2. high[i] = y[i - (n - k)] /\ y[i - (n - k)] = v[i - (n - k)]
          BY <1>2, <1>5, <2>0, <4>1
        <4>. QED BY <4>2
      <3>. QED BY <1>6, <2>0, <2>2, <3>1, <3>2, Zenon
    <2>. QED BY <2>1, <2>2
  <1>8. UnalignedWord \/ \A z : ZeroExtend(z) = z
    BY DEF UnalignedWord, ZeroExtend
  <1>9. Numbered(r, n) \/ (UnalignedWord /\ Numbered(r, 4))
    <2>1. CASE m = n
      BY <1>6, <2>1
    <2>2. CASE m # n
      <3>1. m = 4 /\ UnalignedWord
        BY <1>1, <2>2
      <3>. QED BY <1>6, <3>1
    <2>. QED BY <2>1, <2>2
  <1>. QED BY <1>0, <1>7, <1>8, <1>9 DEF n

\* The second part of two.
LEMMA AppendSecond == ASSUME NEW w, NEW v PROVE Append(<<w>>, v) = <<w, v>>
  <1>. DEFINE S == {w, v}
  <1>. DEFINE s == Append(<<w>>, v)
  <1>. DEFINE t == <<w, v>>
  <1>1. <<w>> \in Seq(S) /\ v \in S /\ Len(<<w>>) = 1 /\ <<w>>[1] = w
    OBVIOUS
  <1>2. t \in Seq(S) /\ Len(t) = 2 /\ t[1] = w /\ t[2] = v
    OBVIOUS
  <1>3. s \in Seq(S) /\ Len(s) = 2 /\ s[1] = w /\ s[2] = v
    BY <1>1, AppendProperties
  <1>. HIDE DEF S, s, t
  <1>4. \A i \in 1 .. Len(s) : s[i] = t[i]
    BY <1>2, <1>3
  <1>5. s = t
    BY <1>2, <1>3, <1>4, SeqEqual
  <1>. QED BY <1>5 DEF s, t

\* The word at the high address is read, and the load ends.
LEMMA HighLoaded ==
  ASSUME MmuTypes, AccessTypes, access.op = "load", ram = access.before, ~access.fast,
         ~Aligned(access.addr, access.size), NEW w, HighWord(w), LowRead(w),
         Translated("load", access.addr),
         table' = table, ram' = ram, Translated("load", Low + access.size),
         NEW v, ReadsPart(Low + access.size, v), PartDone(v)
  PROVE  LoadGoal
  <1>0. access.size \in 1 .. 4 /\ access.addr \in Nat /\ access.size \in Sizes
    BY Accesses DEF AccessTypes
  <1>. DEFINE n == access.size
  <1>. DEFINE a == access.addr
  <1>. DEFINE k == a % n
  <1>. DEFINE r == Combined(<<w, v>>)
  <1>1. Continues /\ ~Busy' /\ access'.result = [kind |-> "done", value |-> r]
    <2>1. ~(Len(access.todo) > 1) /\ access.got = <<w>>
      BY DEF HighWord
    <2>2. Append(<<w>>, v) = <<w, v>>
      BY AppendSecond
    <2>. QED BY <2>1, <2>2, NextPart, Zenon
  <1>2. /\ k \in 1 .. n - 1 /\ Low \in Nat
        /\ \A i \in 1 .. n : /\ Page(Low + n + i - 1) = Page(a + n - 1)
                            /\ (Low + n + i - 1) % PageSize = ((Low + n) % PageSize) + i - 1
    BY <1>0, Words DEF Low
  <1>3. Low = a - k
    BY DEF Low
  <1>4. /\ \A i \in 1 .. n : r[i] = IF i + k \in 1 .. n THEN w[i + k] ELSE v[i - (n - k)]
        /\ Numbered(r, n) \/ (UnalignedWord /\ Numbered(r, 4))
        /\ UnalignedWord \/ \A x : ZeroExtend(x) = x
    <2>1. Numbered(w, n) /\ Numbered(v, n)
      BY DEF LowRead, ReadsPart
    <2>. QED BY <2>1, CombinedWords
  <1>. HIDE DEF k, r
  <1>5. Page(Low + n) = Page(a + n - 1)
    <2>1. 1 \in 1 .. n /\ Low + n + 1 - 1 = Low + n
      BY <1>0, <1>2
    <2>. QED BY <1>2, <2>1
  <1>6. Allowed
    <2>1. Translated("load", a + n - 1)
      BY <1>5 DEF Translated
    <2>. QED BY <2>1, AllowedByPages
  <1>7. ASSUME NEW i \in 1 .. n, i + k \notin 1 .. n
        PROVE  /\ i - (n - k) \in 1 .. n
               /\ Target(i).phys = table[Page(Low + n)].phys
               /\ Target(i).offset = ((Low + n) % PageSize) + (i - (n - k)) - 1
    <2>1. i - (n - k) \in 1 .. n /\ a + i - 1 = Low + n + (i - (n - k)) - 1
      BY <1>0, <1>2, <1>3, <1>7
    <2>2. PICK j \in 1 .. n : j = i - (n - k)
      BY <2>1
    <2>3. a + i - 1 = Low + n + j - 1
      BY <2>1, <2>2
    <2>4. Target(i).phys = table[Page(Low + n)].phys /\ Target(i).offset = ((Low + n) % PageSize) + j - 1
      BY <1>2, <1>5, <2>3, Accesses
    <2>. QED BY <2>2, <2>4
  <1>8. CASE Answers(table[Page(Low + n)].phys)
    <2>1. n \in 1 .. n /\ n + k \notin 1 .. n
      BY <1>0, <1>2
    <2>2. Target(n).phys = table[Page(Low + n)].phys
      BY <1>7, <2>1
    <2>3. AnswerTouched
      BY <1>8, <2>1, <2>2 DEF AnswerTouched, Touched
    <2>. QED BY <1>1, <1>6, <2>3, TargetsStay DEF LoadGoal
  <1>9. CASE ~Answers(table[Page(Low + n)].phys) /\ ~AnswerTouched
    <2>1. ASSUME NEW i \in 1 .. n PROVE r[i] = Read[i]
      <3>1. CASE i + k \in 1 .. n
        <4>1. i + k > k /\ (i + k) - k = i
          BY <1>0, <1>2
        <4>2. PICK j \in 1 .. n : j = i + k
          BY <3>1
        <4>3. w[j] = Read[j - k]
          BY <1>9, <4>1, <4>2 DEF LowRead, k
        <4>. QED BY <1>4, <3>1, <4>1, <4>2, <4>3
      <3>2. CASE i + k \notin 1 .. n
        <4>1. PICK j \in 1 .. n : j = i - (n - k)
          BY <1>7, <3>2
        <4>2. v[j] = ram[table[Page(Low + n)].phys][((Low + n) % PageSize) + j - 1]
          BY <1>9 DEF ReadsPart
        <4>3. v[j] = ram[Target(i).phys][Target(i).offset]
          BY <1>7, <3>2, <4>1, <4>2
        <4>. QED BY <1>4, <3>2, <4>1, <4>3 DEF Read
      <3>. QED BY <3>1, <3>2
    <2>2. Read = [i \in 1 .. n |-> Read[i]]
      BY DEF Read
    <2>3. CASE Numbered(r, n) /\ ~UnalignedWord
      <3>1. r = Read
        BY <2>1, <2>2, <2>3, Zenon DEF Numbered
      <3>2. ZeroExtend(Read) = Read
        BY <1>4, <2>3
      <3>. QED BY <1>1, <1>6, <3>1, <3>2, TargetsStay DEF LoadGoal
    <2>4. CASE UnalignedWord
      <3>1. n = 2
        BY <2>4 DEF UnalignedWord
      <3>2. SubSeq(r, 1, 2) = [i \in 1 .. 2 |-> r[i]]
        <4>1. \A i \in 1 .. 2 : 1 + i - 1 = i
          OBVIOUS
        <4>2. SubSeq(r, 1, 2) = [i \in 1 .. 2 |-> r[1 + i - 1]]
          OBVIOUS
        <4>. QED BY <4>1, <4>2
      <3>3. SubSeq(r, 1, 2) = Read
        BY <2>1, <2>2, <3>1, <3>2
      <3>. QED BY <1>1, <1>6, <2>4, <3>3, TargetsStay DEF LoadGoal
    <2>. QED BY <1>4, <2>3, <2>4
  <1>10. CASE AnswerTouched
    BY <1>1, <1>6, <1>10, TargetsStay DEF LoadGoal
  <1>. QED BY <1>8, <1>9, <1>10

-----------------------------------------------------------------------------
(* The steps *)

\* The part that comes next: where it is.
LEMMA HeadOfAccess ==
  ASSUME MmuTypes, AccessTypes, AccessInv, Busy
  PROVE  /\ Head1.addr \in Nat /\ Head1.size \in Sizes
         /\ \/ Whole /\ Head1 = Part(access.addr, access.size, access.value)
            \/ /\ ~Whole /\ access.op = "store" /\ Head1.size = 1
               /\ \E k \in 1 .. access.size :
                    Head1 = Part(access.addr + k - 1, 1, <<access.value[k]>>) /\ FromByte(k)
            \/ /\ ~Whole /\ access.op = "load" /\ Aligned(Head1.addr, Head1.size)
               /\ ~Aligned(access.addr, access.size) /\ Head1.size = access.size
               /\ \/ BothWords /\ Head1.addr = Low
                  \/ HighWord(access.got[1]) /\ Head1.addr = Low + access.size
  <1>0. access.size \in 1 .. 4 /\ access.addr \in Nat /\ access.size \in Sizes
    BY Accesses, Zenon DEF AccessTypes
  <1>1. CASE Whole
    <2>1. Head1 = Part(access.addr, access.size, access.value)
      BY <1>1 DEF Whole, Head1
    <2>. QED BY <1>0, <1>1, <2>1 DEF Part
  <1>2. CASE ~Whole /\ access.op = "store"
    <2>1. PICK k \in 1 .. access.size : FromByte(k)
      BY <1>2 DEF AccessInv, StoreInv
    <2>2. k \in Nat \ {0}
      BY <1>0
    <2>3. Head1 = Part(access.addr + k - 1, 1, <<access.value[k]>>)
      BY <2>1, <2>2, ByteParts, Zenon DEF Head1
    <2>4. Head1.addr = access.addr + k - 1 /\ Head1.size = 1
      BY <2>3 DEF Part
    <2>5. Head1.addr \in Nat /\ Head1.size \in Sizes
      BY <1>0, <2>2, <2>4 DEF Sizes
    <2>. QED BY <1>2, <2>1, <2>3, <2>4, <2>5
  <1>3. CASE ~Whole /\ access.op = "load"
    <2>1. /\ ~Aligned(access.addr, access.size)
          /\ BothWords \/ HighWord(access.got[1])
      BY <1>3 DEF AccessInv, LoadInv
    <2>2. Low \in Nat /\ Aligned(Low, access.size) /\ Aligned(Low + access.size, access.size)
      BY <1>0, <2>1, Words DEF Low
    <2>3. CASE BothWords
      <3>1. Head1 = Part(Low, access.size, <<>>)
        BY <2>3 DEF BothWords, Head1
      <3>2. Head1.addr = Low /\ Head1.size = access.size
        BY <3>1 DEF Part
      <3>. QED BY <1>0, <1>3, <2>1, <2>2, <2>3, <3>2
    <2>4. CASE HighWord(access.got[1])
      <3>1. Head1 = Part(Low + access.size, access.size, <<>>)
        BY <2>4 DEF HighWord, Head1
      <3>2. Head1.addr = Low + access.size /\ Head1.size = access.size
        BY <3>1 DEF Part
      <3>3. Head1.addr \in Nat
        BY <1>0, <2>2, <3>2
      <3>. QED BY <1>0, <1>3, <2>1, <2>2, <2>4, <3>2, <3>3
    <2>. QED BY <2>1, <2>3, <2>4
  <1>4. access.op \in {"load", "store"}
    BY DEF AccessTypes
  <1>. QED BY <1>1, <1>2, <1>3, <1>4

\* The page of the part that comes next is one that the access touches.
LEMMA PartTouches ==
  ASSUME MmuTypes, AccessTypes, AccessInv, Busy
  PROVE  \E i \in 1 .. access.size : Page(Head1.addr) = Page(access.addr + i - 1)
  <1>0. access.size \in 1 .. 4 /\ access.addr \in Nat /\ access.size \in Sizes
    BY Accesses, Zenon DEF AccessTypes
  <1>1. CASE Head1 = Part(access.addr, access.size, access.value)
    <2>1. Head1.addr = access.addr + 1 - 1 /\ 1 \in 1 .. access.size
      BY <1>0, <1>1 DEF Part
    <2>. QED BY <2>1
  <1>2. CASE \E k \in 1 .. access.size : Head1 = Part(access.addr + k - 1, 1, <<access.value[k]>>)
    BY <1>2 DEF Part
  <1>3. CASE ~Aligned(access.addr, access.size) /\ Head1.addr = Low
    <2>1. /\ \A i \in 1 .. access.size : Page(Low + i - 1) = Page(access.addr)
          /\ Low \in Nat
      BY <1>0, <1>3, Words DEF Low
    <2>2. 1 \in 1 .. access.size /\ Low + 1 - 1 = Low /\ access.addr + 1 - 1 = access.addr
      BY <1>0, <2>1
    <2>. QED BY <1>3, <2>1, <2>2
  <1>4. CASE ~Aligned(access.addr, access.size) /\ Head1.addr = Low + access.size
    <2>1. /\ \A i \in 1 .. access.size : Page(Low + access.size + i - 1) = Page(access.addr + access.size - 1)
          /\ Low \in Nat
      BY <1>0, <1>4, Words DEF Low
    <2>2. 1 \in 1 .. access.size /\ Low + access.size + 1 - 1 = Low + access.size
          /\ access.size \in 1 .. access.size
      BY <1>0, <2>1
    <2>. QED BY <1>4, <2>1, <2>2
  <1>. QED BY <1>1, <1>2, <1>3, <1>4, HeadOfAccess, Zenon

\* The page table forbids a part only if it forbids the access.
LEMMA PartForbidden ==
  ASSUME MmuTypes, AccessTypes, AccessInv, Busy, ~access.fast, ~Translated(access.op, Head1.addr)
  PROVE  ~Allowed
  <1>1. PICK i \in 1 .. access.size : Page(Head1.addr) = Page(access.addr + i - 1)
    BY PartTouches
  <1>. QED BY <1>1 DEF Allowed, Translated

\* A part that is in memory, in ROM or in a device is within a page.
LEMMA PartInPage ==
  ASSUME MmuTypes, AccessTypes, AccessInv, Busy, ~MustSplit(Head1) \/ access.fast
  PROVE  (Head1.addr % PageSize) + Head1.size - 1 < PageSize
  <1>1. Head1.addr \in Nat /\ Head1.size \in Sizes
    BY HeadOfAccess
  <1>2. ~SpansObjects(Head1.addr, Head1.size)
    <2>1. CASE ~MustSplit(Head1)
      BY <1>1, <2>1, Unsplit DEF MustSplit
    <2>2. CASE access.fast
      <3>1. Whole /\ Aligned(access.addr, access.size)
        BY <2>2 DEF AccessInv, Fast
      <3>2. Head1.addr = access.addr /\ Head1.size = access.size
        BY <3>1 DEF Whole, Head1, Part
      <3>. QED BY <1>1, <3>1, <3>2, Unsplit
    <2>. QED BY <2>1, <2>2
  <1>. QED BY <1>1, <1>2, Unsplit

\* The TLB says of the part that comes next what the page table says.
LEMMA PartTranslated ==
  ASSUME MmuTypes, TlbRight, AccessTypes, AccessInv, Busy, Hits \/ access.fast
  PROVE  /\ Phys = table[Page(Head1.addr)].phys /\ Phys \in Physical
         /\ Translated(IF access.fast THEN "load" ELSE access.op, Head1.addr)
         /\ access.fast => ~Flagged("load", Phys)
  <1>1. Head1.addr \in Nat
    BY HeadOfAccess
  <1>2. CASE access.fast
    <2>1. Whole /\ Fast(access.addr, access.size)
      BY <1>2 DEF AccessInv
    <2>2. Head1.addr = access.addr
      BY <2>1 DEF Whole, Head1, Part
    <2>3. HitOf("load", Head1.addr) /\ ~Flagged("load", Phys)
      BY <2>1, <2>2 DEF Fast, HitOf, Phys
    <2>4. Phys = table[Page(Head1.addr)].phys /\ Translated("load", Head1.addr)
      BY <1>1, <2>3, HitsRight DEF Phys
    <2>5. Phys \in Physical
      <3>1. PICK i \in 1 .. access.size : Page(Head1.addr) = Page(access.addr + i - 1)
        BY PartTouches
      <3>. QED BY <2>4, <3>1, Accesses
    <2>. QED BY <1>2, <2>3, <2>4, <2>5
  <1>3. CASE ~access.fast
    <2>1. HitOf(access.op, Head1.addr) /\ access.op \in {"load", "store"}
      BY <1>3 DEF Hits, Hit, AccessTypes
    <2>2. Phys = table[Page(Head1.addr)].phys /\ Translated(access.op, Head1.addr)
      BY <1>1, <2>1, HitsRight DEF Phys
    <2>3. Phys \in Physical
      <3>1. PICK i \in 1 .. access.size : Page(Head1.addr) = Page(access.addr + i - 1)
        BY PartTouches
      <3>. QED BY <2>2, <3>1, Accesses
    <2>. QED BY <1>3, <2>2, <2>3
  <1>. QED BY <1>2, <1>3

\* What the steps must keep of an access.
AccessGoal == AllPages(ram') /\ AccessTypes' /\ AccessInv' /\ AccessesAtomic'

\* A part of a store is done: in memory, or dropped.
LEMMA PartStored ==
  ASSUME MmuTypes, TlbRight, AccessTypes, AccessInv, Busy, access.op = "store", table' = table,
         Hits \/ access.fast, ~MustSplit(Head1) \/ access.fast,
         ram' = IF Stores(Phys) THEN Written(ram, Phys, Head1.addr, Head1.value) ELSE ram,
         NEW v, PartDone(v)
  PROVE  AccessGoal
  <1>0. StoreInv /\ OnlyTargets
    BY DEF AccessInv, StoreInv
  <1>1. /\ Phys = table[Page(Head1.addr)].phys
        /\ Translated(IF access.fast THEN "load" ELSE "store", Head1.addr)
    BY PartTranslated
  <1>2. (Head1.addr % PageSize) + Head1.size - 1 < PageSize
    BY PartInPage
  <1>3. StoreGoal
    <2>1. CASE Whole
      <3>1. Head1.addr = access.addr /\ Head1.size = access.size /\ Head1.value = access.value
        BY <2>1 DEF Whole, Head1, Part
      <3>2. ram' = IF Stores(Phys) THEN Written(ram, Phys, access.addr, access.value) ELSE ram
        BY <3>1
      <3>3. /\ Phys = table[Page(access.addr)].phys
            /\ Translated(IF access.fast THEN "load" ELSE "store", access.addr)
            /\ (access.addr % PageSize) + access.size - 1 < PageSize
        BY <1>1, <1>2, <3>1
      <3>. QED BY <1>0, <2>1, <3>2, <3>3, WholeStored
    <2>2. CASE ~Whole
      <3>0. ~access.fast /\ Translated("store", access.addr)
        BY <1>0, <2>2 DEF StoreInv
      <3>1. PICK k \in 1 .. access.size : FromByte(k) /\ Above(k) /\ (k < access.size => Allowed)
        BY <1>0, <2>2 DEF StoreInv
      <3>2. Head1 = Part(access.addr + k - 1, 1, <<access.value[k]>>)
        <4>1. k \in Nat \ {0}
          BY Accesses
        <4>. QED BY <3>1, <4>1, ByteParts, Zenon DEF Head1
      <3>3. Head1.addr = access.addr + k - 1 /\ Head1.value = <<access.value[k]>>
        BY <3>2 DEF Part
      <3>4. ram' = IF Stores(Phys) THEN Written(ram, Phys, access.addr + k - 1, <<access.value[k]>>) ELSE ram
        BY <3>3
      <3>5. Phys = table[Page(access.addr + k - 1)].phys /\ Translated("store", access.addr + k - 1)
        BY <1>1, <3>0, <3>3
      <3>. QED BY <1>0, <3>0, <3>1, <3>4, <3>5, ByteStored
    <2>. QED BY <2>1, <2>2
  <1>4. access'.op = "store" /\ AccessTypes' /\ access' # Idle /\ AllPages(ram')
    BY <1>3 DEF StoreGoal, Continues
  <1>5. AccessInv'
    BY <1>3, <1>4 DEF StoreGoal, AccessInv, Continues
  <1>6. AccessesAtomic'
    BY <1>3, <1>4 DEF StoreGoal, AccessesAtomic
  <1>. QED BY <1>4, <1>5, <1>6 DEF AccessGoal

\* What a load is told.
LEMMA FirstBytes ==
  ASSUME NEW n \in 1 .. 4
  PROVE  SubSeq(Answer, 1, n) = [i \in 1 .. n |-> Answer[1 + i - 1]]
  BY DEF Answer

\* A part of a load is done: it read memory, or what it was told.
LEMMA PartLoaded ==
  ASSUME MmuTypes, TlbRight, AccessTypes, AccessInv, Busy, access.op = "load", table' = table,
         Hits \/ access.fast, ~MustSplit(Head1) \/ access.fast, ram' = ram,
         NEW v, \/ v = Bytes(ram, Phys, Head1.addr, Head1.size)
                \/ Answers(Phys) /\ v = SubSeq(Answer, 1, Head1.size),
         PartDone(v)
  PROVE  AccessGoal
  <1>0. LoadInv /\ ram = access.before
    BY DEF AccessInv, LoadInv
  <1>1. Phys = table[Page(Head1.addr)].phys /\ Translated("load", Head1.addr)
    BY PartTranslated
  <1>2. (Head1.addr % PageSize) + Head1.size - 1 < PageSize
    BY PartInPage
  <1>3. Head1.size = access.size
    BY HeadOfAccess DEF Part
  <1>4. ReadsPart(Head1.addr, v)
    <2>1. CASE v = Bytes(ram, Phys, Head1.addr, Head1.size)
      <3>1. v = [i \in 1 .. access.size |-> ram[Phys][(Head1.addr % PageSize) + i - 1]]
        BY <1>3, <2>1 DEF Bytes
      <3>2. Numbered(v, access.size)
        BY <3>1 DEF Numbered
      <3>3. \A i \in 1 .. access.size : v[i] = ram[Phys][(Head1.addr % PageSize) + i - 1]
        BY <3>1
      <3>. QED BY <1>1, <3>2, <3>3 DEF ReadsPart
    <2>2. CASE Answers(Phys) /\ v = SubSeq(Answer, 1, Head1.size)
      <3>1. access.size \in 1 .. 4
        BY Accesses
      <3>2. v = [i \in 1 .. access.size |-> Answer[1 + i - 1]]
        <4>1. v = SubSeq(Answer, 1, access.size)
          BY <1>3, <2>2
        <4>. QED BY <3>1, <4>1, FirstBytes
      <3>3. Numbered(v, access.size)
        BY <3>2 DEF Numbered
      <3>. QED BY <1>1, <2>2, <3>3 DEF ReadsPart
    <2>. QED BY <2>1, <2>2
  <1>5. LoadGoal
    <2>1. CASE Whole
      <3>1. Head1.addr = access.addr
        BY <2>1 DEF Whole, Head1, Part
      <3>. QED BY <1>0, <1>1, <1>2, <1>3, <1>4, <2>1, <3>1, WholeLoaded
    <2>2. CASE ~Whole /\ BothWords
      <3>1. Head1.addr = Low
        BY <2>2 DEF BothWords, Head1, Part
      <3>2. ~access.fast /\ ~Aligned(access.addr, access.size)
        BY <1>0, <2>2 DEF LoadInv
      <3>. QED BY <1>0, <1>1, <1>4, <2>2, <3>1, <3>2, LowLoaded
    <2>3. CASE ~Whole /\ ~BothWords
      <3>1. /\ ~access.fast /\ ~Aligned(access.addr, access.size)
            /\ Translated("load", access.addr) /\ HighWord(access.got[1]) /\ LowRead(access.got[1])
        BY <1>0, <2>3 DEF LoadInv
      <3>2. Head1.addr = Low + access.size
        BY <3>1 DEF HighWord, Head1, Part
      <3>. QED BY <1>0, <1>1, <1>4, <3>1, <3>2, HighLoaded
    <2>. QED BY <2>1, <2>2, <2>3
  <1>6. access'.op = "load" /\ AccessTypes' /\ access' # Idle /\ AllPages(ram')
    BY <1>5 DEF LoadGoal, Continues, MmuTypes
  <1>7. AccessInv'
    BY <1>5, <1>6 DEF LoadGoal, AccessInv, Continues
  <1>8. AccessesAtomic'
    <2>1. Read' = Read /\ ram' = access'.before
      BY <1>0, <1>5, TargetsStay DEF LoadGoal, Read, Continues
    <2>2. ZeroExtend(Read)' = ZeroExtend(Read)
      BY <1>5, <2>1, TargetsStay DEF LoadGoal, ZeroExtend, Continues
    <2>3. (AnswerTouched' <=> AnswerTouched) /\ (UnalignedWord' <=> UnalignedWord)
      BY <1>5, TargetsStay DEF LoadGoal
    <2>. QED BY <1>5, <1>6, <2>1, <2>2, <2>3 DEF LoadGoal, AccessesAtomic, AnswerTouched
  <1>. QED BY <1>6, <1>7, <1>8 DEF AccessGoal

\* An access that is cut into parts.
LEMMA AccessCut ==
  ASSUME MmuTypes, TlbRight, access # Idle, AccessTypes, AccessInv, UnalignedAccess
  PROVE  AccessGoal
  <1>0. /\ Hits /\ Busy /\ ~access.fast /\ MustSplit(Head1) /\ ram' = ram /\ table' = table
        /\ access' = [access EXCEPT !.todo = Parts(Head1)]
    BY DEF UnalignedAccess, Hits
  <1>1. access.size \in 1 .. 4 /\ access.addr \in Nat /\ access.size \in Sizes
        /\ access.op \in {"load", "store"}
    BY Accesses, Zenon DEF AccessTypes
  <1>2. Whole /\ Head1 = Part(access.addr, access.size, access.value)
    <2>1. Head1.addr \in Nat /\ Head1.size \in Sizes
      BY <1>0, HeadOfAccess
    <2>2. ~Aligned(Head1.addr, Head1.size)
      BY <1>0, <2>1, Unsplit DEF MustSplit
    <2>3. Head1.size # 1
      <3>1. SUFFICES ASSUME Head1.size = 1 PROVE FALSE
        OBVIOUS
      <3>2. Head1.addr % 1 = 0
        BY <2>1
      <3>. QED BY <2>2, <3>1, <3>2 DEF Aligned
    <2>. QED BY <1>0, <2>2, <2>3, HeadOfAccess
  <1>3. Head1.addr = access.addr /\ Head1.size = access.size /\ Head1.value = access.value
    BY <1>2 DEF Part
  <1>4. ~Aligned(access.addr, access.size)
    BY <1>0, <1>1, <1>3, Unsplit DEF MustSplit
  <1>5. access' = [op |-> access.op, kernel |-> access.kernel, fast |-> access.fast,
               addr |-> access.addr, size |-> access.size, value |-> access.value,
               todo |-> Parts(Head1), got |-> access.got, result |-> access.result,
               before |-> access.before]
    BY <1>0, Zenon DEF AccessTypes
  <1>6. Continues /\ access'.todo = Parts(Head1) /\ access'.got = <<>>
    <2>1. access.got = <<>>
      BY <1>2 DEF Whole
    <2>. QED BY <1>0, <1>5, <2>1, Changes, Zenon
  <1>7. AllPages(ram') /\ AccessTypes' /\ ~access'.fast /\ access'.op = access.op
    BY <1>0, <1>6 DEF MmuTypes, Continues
  <1>8. CASE access.op = "store"
    <2>. DEFINE n == access.size
    <2>. DEFINE f(i) == Part(access.addr + i - 1, 1, <<access.value[i]>>)
    <2>1. Bytewise(Head1) = Reverse([i \in 1 .. n |-> f(i)])
      BY <1>3 DEF Bytewise
    <2>2. Reverse([i \in 1 .. n |-> f(i)]) = [j \in 1 .. n |-> f(n - j + 1)]
      <3>. HIDE DEF f
      <3>. DEFINE s == [i \in 1 .. n |-> f(i)]
      <3>1. s \in Seq({f(i) : i \in 1 .. n}) /\ Len(s) = n
        BY <1>1
      <3>2. \A j \in 1 .. n : s[n - j + 1] = f(n - j + 1)
        BY <1>1
      <3>. HIDE DEF s
      <3>3. Reverse(s) = [j \in 1 .. n |-> s[n - j + 1]]
        BY <3>1 DEF Reverse
      <3>. QED BY <3>2, <3>3, Zenon DEF s
    <2>3. \A j \in 1 .. n : f(n - j + 1) = Part(access.addr + n - j, 1, <<access.value[n - j + 1]>>)
      <3>1. \A j \in 1 .. n : access.addr + (n - j + 1) - 1 = access.addr + n - j
        BY <1>1
      <3>. QED BY <3>1
    <2>4. PICK k \in 1 .. 4 : k = n
      BY <1>1
    <2>5. access'.todo = [j \in 1 .. n |-> Part(access.addr + n - j, 1, <<access.value[n - j + 1]>>)]
      <3>. HIDE DEF f
      <3>1. access'.todo = [j \in 1 .. n |-> f(n - j + 1)]
        BY <1>6, <1>8, <2>1, <2>2 DEF Parts
      <3>. QED BY <2>3, <3>1
    <2>6. FromByte(k)'
      BY <1>6, <2>4, <2>5 DEF FromByte, Continues
    <2>7. Above(k)'
      BY <1>1, <1>6, <2>4 DEF Above, Continues
    <2>8. Translated("store", access.addr)'
      <3>1. Translated("store", access.addr)
        BY <1>0, <1>3, <1>8, PartTranslated
      <3>. QED BY <1>6, <3>1 DEF Translated, Continues
    <2>9. OnlyTargets' /\ (ram' # access'.before => Allowed')
      <3>1. OnlyTargets /\ (ram # access.before => Allowed)
        BY <1>0, <1>8 DEF AccessInv, StoreInv
      <3>. QED BY <1>0, <1>6, <3>1, TargetsStay DEF OnlyTargets, Continues
    <2>10. StoreInv'
      <3>1. (\E j \in 1 .. access.size : FromByte(j) /\ Above(j) /\ (j < access.size => Allowed))'
        <4>1. k \in 1 .. access'.size /\ ~(k < access'.size)
          BY <1>1, <1>6, <2>4 DEF Continues
        <4>. QED BY <2>6, <2>7, <4>1
      <3>. QED BY <1>7, <2>8, <2>9, <3>1 DEF StoreInv
    <2>11. Busy'
      <3>1. 1 \in DOMAIN access'.todo
        BY <1>1, <2>5
      <3>. QED BY <1>6, <3>1 DEF Busy, Continues
    <2>12. AccessInv'
      BY <1>7, <1>8, <2>10 DEF AccessInv
    <2>. QED BY <1>7, <2>11, <2>12 DEF AccessGoal, AccessesAtomic
  <1>9. CASE access.op = "load"
    <2>1. access'.todo = <<Part(Low, access.size, <<>>), Part(Low + access.size, access.size, <<>>)>>
      BY <1>3, <1>6, <1>9 DEF Parts, TwoWords, Low
    <2>2. BothWords'
      BY <1>6, <2>1, TargetsStay DEF BothWords, Continues
    <2>3. ~Aligned(access.addr, access.size)'
      BY <1>4, <1>6 DEF Aligned, Continues
    <2>4. ram' = access'.before
      BY <1>0, <1>6, <1>9 DEF AccessInv, LoadInv, Continues
    <2>5. LoadInv'
      BY <1>7, <2>2, <2>3, <2>4 DEF LoadInv
    <2>6. Busy'
      BY <1>6, <2>1 DEF Busy, Continues
    <2>7. AccessInv'
      BY <1>7, <1>9, <2>5 DEF AccessInv
    <2>. QED BY <1>7, <2>6, <2>7 DEF AccessGoal, AccessesAtomic
  <1>. QED BY <1>1, <1>8, <1>9

\* An access that starts again.
LEMMA AccessAgain ==
  ASSUME MmuTypes, access # Idle, AccessTypes, AccessInv, IoRecompile
  PROVE  AccessGoal
  <1>0. /\ Busy /\ ~access.fast /\ ram' = ram /\ table' = table
        /\ access' = [access EXCEPT !.got = <<>>,
                        !.todo = <<Part(access.addr, access.size, access.value)>>]
    BY DEF IoRecompile, Hits
  <1>1. access' = [op |-> access.op, kernel |-> access.kernel, fast |-> access.fast,
               addr |-> access.addr, size |-> access.size, value |-> access.value,
               todo |-> <<Part(access.addr, access.size, access.value)>>, got |-> <<>>,
               result |-> access.result, before |-> access.before]
    BY <1>0, Zenon DEF AccessTypes
  <1>2. /\ Continues /\ access'.todo = <<Part(access.addr, access.size, access.value)>>
        /\ access'.got = <<>>
    BY <1>0, <1>1, Changes, Zenon
  <1>3. Whole' /\ Busy'
    BY <1>2 DEF Whole, Busy, Continues
  <1>4. AllPages(ram') /\ AccessTypes' /\ ~access'.fast /\ access'.op = access.op
    BY <1>0, <1>2 DEF MmuTypes, Continues
  <1>5. access.op = "store" => StoreInv'
    <2>1. access.op = "store" => OnlyTargets /\ (ram # access.before => Allowed)
      BY <1>0 DEF AccessInv, StoreInv
    <2>2. access.op = "store" => OnlyTargets' /\ (ram' # access'.before => Allowed')
      BY <1>0, <1>2, <2>1, TargetsStay DEF OnlyTargets, Continues
    <2>. QED BY <1>3, <2>2 DEF StoreInv
  <1>6. access.op = "load" => LoadInv'
    <2>1. access.op = "load" => ram' = access'.before
      BY <1>0, <1>2 DEF AccessInv, LoadInv, Continues
    <2>. QED BY <1>3, <2>1 DEF LoadInv
  <1>7. AccessInv'
    BY <1>4, <1>5, <1>6 DEF AccessInv
  <1>. QED BY <1>3, <1>4, <1>7 DEF AccessGoal, AccessesAtomic

\* An access that faults.
LEMMA AccessFaults ==
  ASSUME MmuTypes, access # Idle, AccessTypes, AccessInv, PageFault
  PROVE  AccessGoal
  <1>0. /\ Busy /\ ~access.fast /\ ~Translated(access.op, Head1.addr) /\ Ends("fault", <<>>)
        /\ ram' = ram /\ table' = table
    BY DEF PageFault, Misses
  <1>1. Continues /\ ~Busy' /\ access'.result = [kind |-> "fault", value |-> <<>>]
    BY <1>0, EndsAccess
  <1>2. ~Allowed
    BY <1>0, PartForbidden
  <1>3. ram = access.before
    BY <1>0, <1>2 DEF AccessTypes, AccessInv, StoreInv, LoadInv
  <1>4. ~Allowed' /\ ram' = access'.before
    BY <1>0, <1>1, <1>2, <1>3, TargetsStay DEF Continues
  <1>5. AllPages(ram') /\ AccessTypes'
    BY <1>0, <1>1 DEF MmuTypes, Continues
  <1>. QED BY <1>1, <1>4, <1>5 DEF AccessGoal, AccessInv, AccessesAtomic

\* An access that begins.
LEMMA AccessStarts ==
  ASSUME MmuTypes, NEW op \in {"load", "store"}, NEW kernel \in BOOLEAN,
         NEW a \in Addresses, NEW n \in Sizes, Start(op, kernel, a, n)
  PROVE  AccessGoal
  <1>. DEFINE v == IF op = "store" THEN [i \in 1 .. n |-> Stored(stores + 1, i)] ELSE <<>>
  <1>1. /\ access' = [op |-> op, kernel |-> kernel, fast |-> kernel /\ Fast(a, n),
                    addr |-> a, size |-> n, value |-> v, todo |-> <<Part(a, n, v)>>,
                    got |-> <<>>, result |-> Nothing, before |-> ram]
        /\ ram' = ram /\ table' = table /\ tlb' = tlb /\ code' = code
    BY DEF Start
  <1>2. op = "store" => v = [i \in 1 .. n |-> v[i]]
    OBVIOUS
  <1>3. op # "store" => v = <<>>
    OBVIOUS
  <1>. HIDE DEF v
  <1>4. /\ access'.op = op /\ access'.kernel = kernel /\ access'.fast = (kernel /\ Fast(a, n))
        /\ access'.addr = a /\ access'.size = n /\ access'.value = v
        /\ access'.todo = <<Part(a, n, v)>> /\ access'.got = <<>> /\ access'.before = ram
        /\ access'.result = Nothing
    BY <1>1
  <1>5. access' # Idle
    <2>1. access'.op # "none"
      BY <1>4
    <2>. QED BY <2>1 DEF Idle
  <1>6. AccessTypes'
    <2>1. access' = [op |-> access'.op, kernel |-> access'.kernel, fast |-> access'.fast,
               addr |-> access'.addr, size |-> access'.size, value |-> access'.value,
               todo |-> access'.todo, got |-> access'.got, result |-> access'.result,
               before |-> access'.before]
      BY <1>1, <1>4
    <2>2. access'.fast \in BOOLEAN
      BY <1>4 DEF Fast, Aligned, Flagged
    <2>3. /\ access'.op \in {"load", "store"} /\ access'.kernel \in BOOLEAN
          /\ access'.addr \in Addresses /\ access'.size \in Sizes
      BY <1>4
    <2>4. access'.value = IF access'.op = "store" THEN [i \in 1 .. access'.size |-> access'.value[i]] ELSE <<>>
      BY <1>2, <1>3, <1>4
    <2>5. AllPages(access'.before)
      BY <1>4 DEF MmuTypes
    <2>. QED BY <2>1, <2>2, <2>3, <2>4, <2>5 DEF AccessTypes
  <1>7. Whole' /\ Busy'
    BY <1>4, <1>5 DEF Whole, Busy
  <1>8. ram' = access'.before
    BY <1>1, <1>4
  <1>9. StoreInv' /\ LoadInv'
    <2>1. OnlyTargets'
      BY <1>8 DEF OnlyTargets
    <2>. QED BY <1>7, <1>8, <2>1 DEF StoreInv, LoadInv
  <1>10. (access.fast => access.kernel /\ Fast(access.addr, access.size) /\ Whole)'
    BY <1>1, <1>4, <1>7, Zenon DEF Fast, EntryOf, Flagged, Aligned
  <1>11. AccessInv'
    BY <1>9, <1>10 DEF AccessInv
  <1>12. AllPages(ram')
    BY <1>1 DEF MmuTypes
  <1>. QED BY <1>6, <1>7, <1>11, <1>12 DEF AccessGoal, AccessesAtomic

\* Objects that are read or written, and I/O.
LEMMA AccessDone ==
  ASSUME MmuTypes, TlbRight, access # Idle, AccessTypes, AccessInv,
         MemoryAccess \/ KernelAccess \/ IoWriteChk \/ IoReadChk
  PROVE  AccessGoal /\ code' \in SUBSET code
  <1>1. CASE MemoryAccess
    <2>1. /\ Hits /\ Busy /\ ~GoesToIo /\ ~MustSplit(Head1) /\ table' = table /\ code' = code
          /\ ~access.fast
          /\ ram' = IF access.op = "store" THEN Written(ram, Phys, Head1.addr, Head1.value) ELSE ram
          /\ PartDone(Bytes(ram, Phys, Head1.addr, Head1.size))
      BY <1>1 DEF MemoryAccess, AccessObject, Hits
    <2>2. Phys \in Physical
      BY <2>1, PartTranslated
    <2>3. CASE access.op = "store"
      <3>1. Stores(Phys)
        BY <2>1, <2>2, <2>3, SoftMmuAssumption DEF Kinds, GoesToIo, Flagged, Stores
      <3>. QED BY <2>1, <2>3, <3>1, PartStored
    <2>4. CASE access.op = "load"
      BY <2>1, <2>4, PartLoaded
    <2>. QED BY <2>1, <2>3, <2>4 DEF AccessTypes
  <1>2. CASE KernelAccess
    <2>1. /\ Busy /\ access.fast /\ table' = table /\ code' = code
          /\ ram' = IF access.op = "store" THEN Written(ram, Phys, Head1.addr, Head1.value) ELSE ram
          /\ PartDone(Bytes(ram, Phys, Head1.addr, Head1.size))
      BY <1>2 DEF KernelAccess, AccessObject
    <2>2. Phys \in Physical /\ ~Flagged("load", Phys)
      BY <2>1, PartTranslated
    <2>3. CASE access.op = "store"
      <3>1. Stores(Phys)
        BY <2>1, <2>2, <2>3, SoftMmuAssumption DEF Kinds, Flagged, Stores
      <3>. QED BY <2>1, <2>3, <3>1, PartStored
    <2>4. CASE access.op = "load"
      BY <2>1, <2>4, PartLoaded
    <2>. QED BY <2>1, <2>3, <2>4 DEF AccessTypes
  <1>3. CASE IoWriteChk
    <2>1. /\ Hits /\ Busy /\ GoesToIo /\ ~MustSplit(Head1) /\ table' = table /\ ~access.fast
          /\ access.op = "store"
      BY <1>3 DEF IoWriteChk, Hits
    <2>2. CASE IsMemory("store", Phys)
      <3>1. /\ ram' = Written(ram, Phys, Head1.addr, Head1.value) /\ code' = code \ {Phys}
            /\ PartDone(Bytes(ram, Phys, Head1.addr, Head1.size))
        BY <1>3, <2>1, <2>2 DEF IoWriteChk, AccessObject, NotDirtyMemWrite
      <3>2. Stores(Phys)
        BY <2>2 DEF IsMemory, Stores
      <3>. QED BY <2>1, <3>1, <3>2, PartStored
    <2>3. CASE ~IsMemory("store", Phys)
      <3>1. ram' = ram /\ code' = code /\ PartDone(<<>>)
        BY <1>3, <2>3 DEF IoWriteChk
      <3>2. ~Stores(Phys)
        BY <2>1, <2>3 DEF IsMemory, Stores
      <3>. QED BY <2>1, <3>1, <3>2, PartStored
    <2>. QED BY <2>2, <2>3
  <1>4. CASE IoReadChk
    <2>1. /\ Hits /\ Busy /\ GoesToIo /\ ~MustSplit(Head1) /\ table' = table /\ ~access.fast
          /\ access.op = "load" /\ code' = code
      BY <1>4 DEF IoReadChk, Hits
    <2>2. CASE ~Answers(Phys)
      <3>1. ram' = ram /\ PartDone(Bytes(ram, Phys, Head1.addr, Head1.size))
        BY <1>4, <2>1, <2>2 DEF IoReadChk, AccessObject
      <3>. QED BY <2>1, <3>1, PartLoaded
    <2>3. CASE Answers(Phys)
      <3>1. ram' = ram /\ PartDone(SubSeq(Answer, 1, Head1.size))
        BY <1>4, <2>3 DEF IoReadChk
      <3>. QED BY <2>1, <2>3, <3>1, PartLoaded, Zenon
    <2>. QED BY <2>2, <2>3
  <1>. QED BY <1>1, <1>2, <1>3, <1>4

\* An access that stays what it is while the TLB is filled for it.
LEMMA AccessStays ==
  ASSUME access # Idle, AccessTypes, AccessInv, AccessesAtomic,
         ram' = ram, table' = table, access' = access, ~access.fast \/ tlb' = tlb
  PROVE  AccessTypes' /\ AccessInv' /\ AccessesAtomic'
  <1>1. AccessTypes' /\ access' # Idle /\ (Busy' <=> Busy)
    <2>1. Idle' = Idle
      BY DEF Idle
    <2>. QED BY <2>1 DEF AccessTypes, Busy
  <1>2. Continues
    BY <1>1 DEF Continues
  <1>3. StoreInv => StoreInv'
    <2>1. OnlyTargets => OnlyTargets'
      BY <1>2, TargetsStay DEF OnlyTargets, Continues
    <2>2. Whole => Whole'
      BY DEF Whole
    <2>3. \A k : (FromByte(k) => FromByte(k)') /\ (Above(k) => Above(k)')
      BY <1>2, TargetsStay DEF FromByte, Above
    <2>4. (Allowed' <=> Allowed)
          /\ (Translated("store", access.addr) => Translated("store", access.addr)')
      BY <1>2, TargetsStay DEF Translated
    <2>. QED BY <2>1, <2>2, <2>3, <2>4 DEF StoreInv
  <1>4. Read' = Read /\ (AnswerTouched' <=> AnswerTouched)
    BY <1>2, TargetsStay DEF Read
  <1>5. LoadInv => LoadInv'
    BY <1>4 DEF LoadInv, Whole, BothWords, HighWord, LowRead, Low, Translated, Aligned
  <1>6. AccessInv'
    BY <1>1, <1>3, <1>5 DEF AccessInv, Fast, EntryOf, Flagged, Aligned, Whole
  <1>7. AccessesAtomic'
    <2>1. ZeroExtend(Read)' = ZeroExtend(Read)
      BY <1>4 DEF ZeroExtend
    <2>2. Expected' = Expected
      BY DEF Expected, Touched, Target, Stores, Page
    <2>3. (Allowed' <=> Allowed) /\ (UnalignedWord' <=> UnalignedWord)
      BY <1>2, TargetsStay
    <2>. QED BY <1>1, <1>4, <2>1, <2>2, <2>3 DEF AccessesAtomic, AnswerTouched
  <1>. QED BY <1>1, <1>6, <1>7

\* The invariant holds initially.
LEMMA MmuStart == MmuInit => MmuInv
  <1>. SUFFICES ASSUME MmuInit PROVE MmuInv
    OBVIOUS
  <1>1. AllPages(ram)
    BY DEF MmuInit, AllPages
  <1>2. table \in PageTables /\ code \subseteq Physical /\ access = Idle
    BY DEF MmuInit
  <1>3. tlb = [i \in 0 .. TlbSize - 1 |-> Invalid]
    BY DEF MmuInit
  <1>4. tlb = [i \in 0 .. TlbSize - 1 |-> tlb[i]] /\ \A i \in 0 .. TlbSize - 1 : tlb[i] = Invalid
    BY <1>3
  <1>5. TlbRight
    BY <1>4, SoftMmuAssumption DEF TlbRight, Invalid
  <1>. QED BY <1>1, <1>2, <1>4, <1>5 DEF MmuInv, MmuTypes, AccessesAtomic

\* Every step of the handlers, of the TLB and of the guest keeps the invariant.
LEMMA MmuStep == MmuInv /\ [MmuNext]_mmuVars => MmuInv'
  <1>. SUFFICES ASSUME MmuInv, [MmuNext]_mmuVars PROVE MmuInv'
    OBVIOUS
  <1>0. MmuTypes /\ TlbRight /\ (access # Idle => AccessTypes /\ AccessInv) /\ AccessesAtomic
    BY DEF MmuInv
  <1>g. AccessGoal => AllPages(ram') /\ AccessTypes' /\ AccessInv' /\ AccessesAtomic'
    BY DEF AccessGoal
  <1>1. ASSUME AccessGoal, table' = table, tlb' = tlb, code' \in SUBSET code
        PROVE  MmuInv'
    <2>1. MmuTypes'
      BY <1>0, <1>g, <1>1 DEF MmuTypes
    <2>2. TlbRight'
      BY <1>0, <1>1 DEF TlbRight
    <2>. QED BY <1>g, <1>1, <2>1, <2>2 DEF MmuInv
  <1>2. CASE \E op \in {"load", "store"}, kernel \in BOOLEAN, a \in Addresses, n \in Sizes :
               Start(op, kernel, a, n)
    <2>1. AccessGoal
      BY <1>0, <1>2, AccessStarts
    <2>2. table' = table /\ tlb' = tlb /\ code' = code
      BY <1>2 DEF Start
    <2>. QED BY <1>1, <2>1, <2>2
  <1>3. CASE PageFault
    <2>1. access # Idle /\ table' = table /\ tlb' = tlb /\ code' = code
      BY <1>3 DEF PageFault, Misses, Busy
    <2>. QED BY <1>0, <1>1, <1>3, <2>1, AccessFaults
  <1>4. CASE UnalignedAccess
    <2>1. access # Idle /\ table' = table /\ tlb' = tlb /\ code' = code
      BY <1>4 DEF UnalignedAccess, Hits, Busy
    <2>. QED BY <1>0, <1>1, <1>4, <2>1, AccessCut
  <1>5. CASE IoRecompile
    <2>1. access # Idle /\ table' = table /\ tlb' = tlb /\ code' = code
      BY <1>5 DEF IoRecompile, Hits, Busy
    <2>. QED BY <1>0, <1>1, <1>5, <2>1, AccessAgain
  <1>6. CASE MemoryAccess \/ KernelAccess \/ IoWriteChk \/ IoReadChk
    <2>1. access # Idle /\ table' = table /\ tlb' = tlb
      BY <1>6 DEF MemoryAccess, KernelAccess, IoWriteChk, IoReadChk, Hits, Busy
    <2>. QED BY <1>0, <1>1, <1>6, <2>1, AccessDone
  <1>7. CASE TlbFill
    <2>1. /\ ram' = ram /\ table' = table /\ code' = code /\ access' = access
          /\ Busy /\ ~access.fast /\ Translated(access.op, Head1.addr)
      BY <1>7 DEF TlbFill, Misses
    <2>2. AccessTypes /\ AccessInv /\ access # Idle
      BY <1>0, <2>1 DEF Busy
    <2>. DEFINE p == Page(Head1.addr)
    <2>. DEFINE j == Index(Head1.addr)
    <2>. DEFINE e == [read |-> p, phys |-> table[p].phys,
                      write |-> IF table[p].writable THEN p ELSE Nothing]
    <2>3. tlb' = [tlb EXCEPT ![j] = e]
      BY <1>7 DEF TlbFill
    <2>4. /\ e.read = p /\ e.phys = table[p].phys
          /\ e.write = IF table[p].writable THEN p ELSE Nothing
      OBVIOUS
    <2>5. table[p].present
      BY <2>1 DEF Translated
    <2>. HIDE DEF p, j, e
    <2>6. tlb' = [i \in 0 .. TlbSize - 1 |-> tlb'[i]]
      BY <1>0, <2>3, Zenon DEF MmuTypes
    <2>7. \A i \in 0 .. TlbSize - 1 : tlb'[i] = IF i = j THEN e ELSE tlb[i]
      BY <1>0, <2>3 DEF MmuTypes
    <2>8. TlbRight'
      <3>1. SUFFICES ASSUME NEW i \in 0 .. TlbSize - 1, NEW q \in Nat
            PROVE  /\ tlb'[i].read = q => table[q].present /\ tlb'[i].phys = table[q].phys
                   /\ tlb'[i].write = q =>
                        table[q].present /\ table[q].writable /\ tlb'[i].phys = table[q].phys
        BY <2>1 DEF TlbRight
      <3>2. CASE i = j
        BY <2>4, <2>5, <2>7, <3>2, SoftMmuAssumption
      <3>3. CASE i # j
        BY <1>0, <2>7, <3>3 DEF TlbRight
      <3>. QED BY <3>2, <3>3
    <2>9. MmuTypes'
      BY <1>0, <2>1, <2>6 DEF MmuTypes
    <2>10. AccessTypes' /\ AccessInv' /\ AccessesAtomic'
      BY <1>0, <2>1, <2>2, AccessStays
    <2>. QED BY <2>8, <2>9, <2>10 DEF MmuInv
  <1>8. CASE NextInstruction
    <2>1. access' = Idle /\ ram' = ram /\ table' = table /\ tlb' = tlb /\ code' = code
      BY <1>8 DEF NextInstruction
    <2>. QED BY <1>0, <2>1 DEF MmuInv, MmuTypes, TlbRight, AccessesAtomic
  <1>9. CASE \E t \in PageTables : SwitchTable(t)
    <2>1. /\ access = Idle /\ access' = Idle /\ ram' = ram /\ code' = code /\ table' \in PageTables
          /\ tlb' = [i \in DOMAIN tlb |-> Invalid]
      BY <1>9 DEF SwitchTable
    <2>2. /\ tlb' = [i \in 0 .. TlbSize - 1 |-> tlb'[i]]
          /\ \A i \in 0 .. TlbSize - 1 : tlb'[i] = Invalid
      BY <1>0, <2>1 DEF MmuTypes
    <2>3. TlbRight'
      BY <2>2, SoftMmuAssumption DEF TlbRight, Invalid
    <2>. QED BY <1>0, <2>1, <2>2, <2>3 DEF MmuInv, MmuTypes, AccessesAtomic
  <1>10. CASE \E p \in Physical : Translate(p)
    <2>1. /\ access = Idle /\ access' = Idle /\ ram' = ram /\ table' = table /\ tlb' = tlb
          /\ code' \subseteq Physical
      BY <1>0, <1>10 DEF Translate, MmuTypes
    <2>. QED BY <1>0, <2>1 DEF MmuInv, MmuTypes, TlbRight, AccessesAtomic
  <1>11. CASE UNCHANGED mmuVars
    <2>1. ram' = ram /\ table' = table /\ tlb' = tlb /\ code' = code /\ access' = access
      BY <1>11 DEF mmuVars
    <2>2. MmuTypes' /\ TlbRight'
      BY <1>0, <2>1 DEF MmuTypes, TlbRight
    <2>3. (access # Idle => AccessTypes /\ AccessInv)' /\ AccessesAtomic'
      <3>1. CASE access = Idle
        BY <2>1, <3>1 DEF AccessesAtomic
      <3>2. CASE access # Idle
        <4>1. AccessTypes' /\ AccessInv' /\ AccessesAtomic'
          BY <1>0, <2>1, <3>2, AccessStays
        <4>. QED BY <4>1
      <3>. QED BY <3>1, <3>2
    <2>. QED BY <2>2, <2>3 DEF MmuInv
  <1>. QED BY <1>2, <1>3, <1>4, <1>5, <1>6, <1>7, <1>8, <1>9, <1>10, <1>11 DEF MmuNext

\* The invariant of the MMU handlers.
THEOREM MmuInvariant == MmuSpec => []MmuInv
  BY MmuStart, MmuStep, PTL DEF MmuSpec

\* Every access of the MMU handlers is all or nothing: it faults exactly if the page
\* table forbids it, a store writes the bytes at its addresses and nothing else, a load
\* returns them, however the access was cut into parts, over how many pages, with any
\* number of TLB entries, and however often it started again.
THEOREM AccessesCorrect == MmuSpec => []AccessesAtomic
  <1>1. MmuInv => AccessesAtomic
    BY DEF MmuInv
  <1>. QED BY <1>1, MmuInvariant, PTL

\* A step that changes a page which holds translated code throws that code away.
LEMMA CodeStep == MmuInv /\ [MmuNext]_mmuVars =>
                  [\A p \in code : ram'[p] # ram[p] => p \notin code' \/ access.fast]_mmuVars
  <1>. SUFFICES ASSUME MmuInv, MmuNext, NEW p \in code, ram'[p] # ram[p], ~access.fast
                PROVE  p \notin code'
    BY DEF mmuVars
  <1>1. MmuTypes
    BY DEF MmuInv
  <1>2. ASSUME AccessObject, access.op = "store" => p # Phys PROVE FALSE
    <2>1. DOMAIN ram = Physical /\ p \in Physical
      BY <1>1 DEF MmuTypes, AllPages
    <2>. QED BY <1>2, <2>1 DEF AccessObject, Written
  <1>3. CASE MemoryAccess
    BY <1>2, <1>3 DEF MemoryAccess, GoesToIo, Flagged
  <1>4. CASE IoWriteChk
    BY <1>2, <1>4 DEF IoWriteChk, NotDirtyMemWrite
  <1>5. CASE IoReadChk
    BY <1>2, <1>5 DEF IoReadChk
  <1>6. CASE KernelAccess
    BY <1>6 DEF KernelAccess
  <1>7. MemoryAccess \/ IoWriteChk \/ IoReadChk \/ KernelAccess
    BY Zenon DEF MmuNext, Start, TlbFill, PageFault, UnalignedAccess, IoRecompile, NextInstruction,
           SwitchTable, Translate
  <1>. QED BY <1>3, <1>4, <1>5, <1>6, <1>7

\* Code is thrown away when the page it was translated from is written: no handler
\* writes to a page of code without s2e_notdirty_mem_write(), the fast path excepted.
THEOREM CodeCorrect == MmuSpec => CodeFollowsMemory
  BY MmuInvariant, CodeStep, PTL DEF MmuSpec, CodeFollowsMemory

-----------------------------------------------------------------------------
(* SymbolicInputs: the inductive invariant *)

\* Types.  The state that runs is not speculative, nor is the first.
InputTypes ==
  /\ concolicMode \in BOOLEAN
  /\ live \subseteq State /\ speculative \subseteq live
  /\ current \in live /\ current \notin speculative
  /\ First \in live /\ First \notin speculative
  /\ concolicMode \/ speculative = {}
  /\ lastId \in 0 .. MaxVars
  /\ contents \in [State -> [Location -> [var : 0 .. lastId, plus : Values]]]
  /\ concolics \in [State -> [Var -> Values]]
  /\ allowed \in [State -> [Var -> SUBSET Values]]
  /\ native \in [Location -> Values]

\* Variable 0 is 0; a path says nothing of variables that do not exist yet.
VariablesInv ==
  /\ \A s \in State : allowed[s][0] = {0} /\ concolics[s][0] = 0
  /\ \A s \in live, v \in Var : v > lastId => allowed[s][v] = Values

\* What PathsHaveInputs says of one state.
HasInput(s) ==
  /\ Feasible(s)
  /\ concolicMode => \A v \in Var : v <= lastId => concolics[s][v] \in allowed[s][v]

\* So it is for every state that is not speculative, whose script asked for a range that
\* its value is in.
InputsInv == \A s \in live : s \notin speculative /\ s \notin misranged => HasInput(s)

\* Two states differ in the values of a variable that exists.
DisjointInv ==
  \A s, t \in live : s # t => \E v \in 1 .. lastId : allowed[s][v] \cap allowed[t][v] = {}

\* What FirstPathNative says, of every location.
NativeInv ==
  concolicMode /\ lost = {} =>
    \A l \in Location : Evaluate(First, contents[First][l]) = native[l]

SymbolicInv == InputTypes /\ VariablesInv /\ InputsInv /\ DisjointInv /\ NativeInv

-----------------------------------------------------------------------------
(* Values *)

\* Sums are modulo Size.
LEMMA Modulo ==
  ASSUME NEW x \in Values, NEW y \in Values
  PROVE  /\ (x + y) % Size \in Values /\ (0 + x) % Size = x /\ (x + 0) % Size = x
         /\ (x + ((y + 1) % Size)) % Size = (((x + y) % Size) + 1) % Size
  <1>. DEFINE n == Size
  <1>1. n \in Nat \ {0} /\ x \in 0 .. n - 1 /\ y \in 0 .. n - 1
    BY SymbolicInputsAssumption DEF Values
  <1>. HIDE DEF n
  <1>2. x % n = x
    BY <1>1
  <1>3. (x + y) % n = (IF x + y < n THEN x + y ELSE x + y - n)
    BY <1>1
  <1>4. (y + 1) % n = (IF y + 1 < n THEN y + 1 ELSE 0)
    BY <1>1
  <1>5. (x + y) % n \in 0 .. n - 1
    BY <1>1, <1>3
  <1>6. (x + ((y + 1) % n)) % n = (((x + y) % n) + 1) % n
    <2>1. CASE y + 1 < n
      <3>1. (x + (y + 1)) % n = (IF x + y + 1 < n THEN x + y + 1 ELSE x + y + 1 - n)
        BY <1>1, <2>1
      <3>2. ASSUME NEW z \in 0 .. n - 1 PROVE (z + 1) % n = (IF z + 1 < n THEN z + 1 ELSE 0)
        BY <1>1, <3>2
      <3>3. (y + 1) % n = y + 1
        BY <1>4, <2>1
      <3>4. CASE x + y < n
        BY <1>1, <1>3, <2>1, <3>1, <3>2, <3>3, <3>4
      <3>5. CASE x + y >= n
        <4>1. (x + y) % n = x + y - n /\ x + y - n \in 0 .. n - 1
          BY <1>1, <1>3, <3>5
        <4>2. (((x + y) % n) + 1) % n = (IF x + y - n + 1 < n THEN x + y - n + 1 ELSE 0)
          BY <1>1, <3>2, <4>1
        <4>. QED BY <1>1, <3>1, <3>3, <3>5, <4>2
      <3>. QED BY <1>1, <3>4, <3>5
    <2>2. CASE y + 1 >= n
      <3>1. y = n - 1 /\ (y + 1) % n = 0
        BY <1>1, <1>4, <2>2
      <3>2. (x + y) % n = (IF x = 0 THEN n - 1 ELSE x - 1)
        BY <1>1, <1>3, <3>1
      <3>3. ASSUME NEW z \in 0 .. n - 1 PROVE (z + 1) % n = (IF z + 1 < n THEN z + 1 ELSE 0)
        BY <1>1, <3>3
      <3>. QED BY <1>1, <1>2, <1>5, <3>1, <3>2, <3>3
    <2>. QED BY <1>1, <2>1, <2>2
  <1>. QED BY <1>1, <1>2, <1>5, <1>6 DEF n, Values

\* An expression of the model has values, and a constant has one.
LEMMA Expressions ==
  ASSUME InputTypes, VariablesInv, NEW s \in State
  PROVE  /\ \A l \in Location :
              LET e == contents[s][l]
              IN  /\ e.var \in Var /\ e.var \in 0 .. lastId /\ e.plus \in Values
                  /\ Evaluate(s, e) \in Values
                  /\ \A x \in Values : ValueOf(e, x) \in Values
         /\ \A n \in Values : /\ Constant(n) \in [var : 0 .. lastId, plus : Values]
                              /\ Evaluate(s, Constant(n)) = n
  <1>1. lastId \in 0 .. MaxVars /\ MaxVars \in Nat
    BY SymbolicInputsAssumption DEF InputTypes
  <1>2. ASSUME NEW l \in Location
        PROVE  LET e == contents[s][l]
               IN  /\ e.var \in Var /\ e.var \in 0 .. lastId /\ e.plus \in Values
                   /\ Evaluate(s, e) \in Values
                   /\ \A x \in Values : ValueOf(e, x) \in Values
    <2>1. contents[s][l] \in [var : 0 .. lastId, plus : Values]
      BY DEF InputTypes
    <2>2. contents[s][l].var \in Var /\ contents[s][l].plus \in Values
      BY <1>1, <2>1 DEF Var
    <2>3. concolics[s][contents[s][l].var] \in Values
      BY <2>2 DEF InputTypes
    <2>. QED BY <2>1, <2>2, <2>3, Modulo DEF Evaluate, ValueOf
  <1>3. ASSUME NEW n \in Values
        PROVE  /\ Constant(n) \in [var : 0 .. lastId, plus : Values]
               /\ Evaluate(s, Constant(n)) = n
    <2>1. concolics[s][0] = 0
      BY DEF VariablesInv
    <2>2. Constant(n).var = 0 /\ Constant(n).plus = n
      BY DEF Constant
    <2>3. Evaluate(s, Constant(n)) = (0 + n) % Size
      BY <2>1, <2>2 DEF Evaluate, ValueOf
    <2>4. Constant(n) \in [var : 0 .. lastId, plus : Values]
      BY <1>1 DEF Constant
    <2>5. 0 \in Values
      BY SymbolicInputsAssumption DEF Values
    <2>. QED BY <2>3, <2>4, <2>5, Modulo
  <1>. QED BY <1>2, <1>3

\* The variables of the model are named by naturals, 0 among them.
LEMMA Variables ==
  ASSUME InputTypes
  PROVE  /\ MaxVars \in Nat /\ lastId \in Nat /\ lastId <= MaxVars
         /\ 0 \in Var /\ 1 .. lastId \subseteq Var /\ Var \subseteq Nat
         /\ lastId < MaxVars => lastId + 1 \in Var /\ lastId + 1 # 0
         /\ current \in State /\ First \in State
  BY SymbolicInputsAssumption DEF InputTypes, Var

-----------------------------------------------------------------------------
(* The steps of a path *)

\* A value that becomes an input keeps the invariant: the new variable's
\* concolic value is n, and unless the path is set aside S allows it.
LEMMA Creates ==
  ASSUME SymbolicInv, NEW l \in Location, NEW n \in Values, NEW S \in SUBSET Values,
         S # {}, CreateConcolicValue(current, l, n),
         allowed' = [allowed EXCEPT ![current][lastId + 1] = S],
         n \in S \/ current \in misranged', misranged \subseteq misranged',
         concolicMode' = concolicMode, live' = live, current' = current,
         speculative' = speculative,
         lost \subseteq lost',
         native' \in [Location -> Values],
         concolicMode /\ lost' = {} =>
           native' = IF current = First THEN [native EXCEPT ![l] = n] ELSE native
  PROVE  SymbolicInv'
  <1>. DEFINE k == lastId + 1
  <1>1. /\ lastId < MaxVars /\ lastId' = k /\ k \in Var /\ k # 0 /\ lastId \in Nat /\ k \in Nat
        /\ k \in 0 .. MaxVars
    BY Variables DEF SymbolicInv, CreateConcolicValue, Var
  <1>2. current \in State /\ First \in State /\ live \subseteq State
    BY Variables DEF SymbolicInv, InputTypes
  <1>3. /\ contents' = [contents EXCEPT ![current][l] = [var |-> k, plus |-> 0]]
        /\ concolics' = IF concolicMode THEN [concolics EXCEPT ![current][k] = n] ELSE concolics
        /\ allowed' = [allowed EXCEPT ![current][k] = S]
    BY DEF CreateConcolicValue
  <1>4. /\ contents \in [State -> [Location -> [var : 0 .. lastId, plus : Values]]]
        /\ concolics \in [State -> [Var -> Values]]
        /\ allowed \in [State -> [Var -> SUBSET Values]]
    BY DEF SymbolicInv, InputTypes
  <1>. HIDE DEF k
  <1>5. \A s \in State, v \in Var :
          allowed'[s][v] = IF s = current /\ v = k THEN S ELSE allowed[s][v]
    BY <1>1, <1>2, <1>3, <1>4
  <1>6. \A s \in State, v \in Var :
          concolics'[s][v] = IF concolicMode /\ s = current /\ v = k THEN n ELSE concolics[s][v]
    BY <1>1, <1>2, <1>3, <1>4
  <1>7. InputTypes'
    <2>1. 0 \in Values
      BY SymbolicInputsAssumption DEF Values
    <2>2. contents \in [State -> [Location -> [var : 0 .. k, plus : Values]]]
      <3>1. [var : 0 .. lastId, plus : Values] \subseteq [var : 0 .. k, plus : Values]
        BY <1>1 DEF k
      <3>. QED BY <1>4, <3>1
    <2>3. contents' \in [State -> [Location -> [var : 0 .. k, plus : Values]]]
      <3>. DEFINE E == [var : 0 .. k, plus : Values]
      <3>1. [var |-> k, plus |-> 0] \in E
        BY <1>1, <2>1
      <3>2. contents \in [State -> [Location -> E]]
        BY <2>2
      <3>. HIDE DEF E
      <3>3. [contents[current] EXCEPT ![l] = [var |-> k, plus |-> 0]] \in [Location -> E]
        BY <1>2, <3>1, <3>2
      <3>4. contents' \in [State -> [Location -> E]]
        BY <1>3, <3>2, <3>3, Zenon
      <3>. QED BY <3>4 DEF E
    <2>4. concolics' \in [State -> [Var -> Values]]
      BY <1>3, <1>4, Zenon
    <2>5. allowed' \in [State -> [Var -> SUBSET Values]]
      <3>1. [allowed[current] EXCEPT ![k] = S] \in [Var -> SUBSET Values]
        BY <1>2, <1>4, Zenon
      <3>. QED BY <1>3, <1>4, <3>1, Zenon
    <2>. QED BY <1>1, <2>3, <2>4, <2>5 DEF SymbolicInv, InputTypes
  <1>8. VariablesInv'
    <2>1. ASSUME NEW s \in State PROVE allowed'[s][0] = {0} /\ concolics'[s][0] = 0
      BY <1>1, <1>5, <1>6, Variables DEF SymbolicInv, VariablesInv
    <2>2. ASSUME NEW s \in live, NEW v \in Var, v > k PROVE allowed'[s][v] = Values
      <3>1. v > lastId /\ v # k
        BY <1>1, <2>2, Variables DEF k, SymbolicInv
      <3>. QED BY <1>2, <1>5, <3>1 DEF SymbolicInv, VariablesInv
    <2>. QED BY <1>1, <2>1, <2>2 DEF VariablesInv
  <1>9. InputsInv'
    <2>1. SUFFICES ASSUME NEW s \in live, s \notin speculative, s \notin misranged'
                   PROVE  HasInput(s)'
      BY DEF InputsInv
    <2>2. HasInput(s) /\ s \in State
      BY <1>2, <2>1 DEF SymbolicInv, InputsInv
    <2>3. s = current => n \in S
      BY <2>1
    <2>4. Feasible(s)'
      <3>1. \A v \in Var : allowed'[s][v] # {}
        BY <1>5, <2>2 DEF HasInput, Feasible
      <3>. QED BY <3>1 DEF Feasible
    <2>5. ASSUME concolicMode, NEW v \in Var, v <= k PROVE concolics'[s][v] \in allowed'[s][v]
      <3>1. CASE v = k
        <4>1. allowed[s][v] = Values \/ s = current
          BY <1>1, <2>1, <3>1 DEF k, SymbolicInv, VariablesInv
        <4>2. concolics[s][v] \in Values
          BY <1>4, <2>2
        <4>. QED BY <1>5, <1>6, <2>2, <2>3, <2>5, <3>1, <4>1, <4>2
      <3>2. CASE v # k
        <4>1. v <= lastId
          BY <1>1, <2>5, <3>2, Variables DEF k, SymbolicInv
        <4>. QED BY <1>5, <1>6, <2>2, <2>5, <3>2, <4>1 DEF HasInput
      <3>. QED BY <3>1, <3>2
    <2>. QED BY <1>1, <2>4, <2>5 DEF HasInput
  <1>10. DisjointInv'
    <2>1. SUFFICES ASSUME NEW s \in live, NEW t \in live, s # t
                   PROVE  \E v \in 1 .. k : allowed'[s][v] \cap allowed'[t][v] = {}
      BY <1>1 DEF DisjointInv
    <2>2. PICK v \in 1 .. lastId : allowed[s][v] \cap allowed[t][v] = {}
      BY <2>1 DEF SymbolicInv, DisjointInv
    <2>3. v \in 1 .. k /\ v # k /\ v \in Var
      BY <1>1, Variables DEF k, SymbolicInv
    <2>. QED BY <1>2, <1>5, <2>2, <2>3
  <1>11. NativeInv'
    <2>1. SUFFICES ASSUME concolicMode, lost' = {}, NEW j \in Location
                   PROVE  ValueOf(contents'[First][j], concolics'[First][contents'[First][j].var])
                            = native'[j]
      BY DEF NativeInv, Evaluate, ValueOf
    <2>2. Evaluate(First, contents[First][j]) = native[j]
      BY <2>1 DEF SymbolicInv, NativeInv
    <2>3. native \in [Location -> Values]
      BY DEF SymbolicInv, InputTypes
    <2>4. CASE First = current /\ j = l
      <3>1. contents'[First][j] = [var |-> k, plus |-> 0]
        BY <1>2, <1>3, <1>4, <2>4
      <3>2. concolics'[First][k] = n
        BY <1>1, <1>2, <1>6, <2>1, <2>4
      <3>3. native'[j] = n
        BY <2>1, <2>3, <2>4
      <3>4. ValueOf(contents'[First][j], n) = n
        <4>1. contents'[First][j].plus = 0
          BY <3>1
        <4>2. (n + 0) % Size = n
          BY Modulo
        <4>. QED BY <4>1, <4>2, Zenon DEF ValueOf
      <3>5. contents'[First][j].var = k
        BY <3>1
      <3>. QED BY <3>2, <3>3, <3>4, <3>5, Zenon
    <2>5. CASE ~(First = current /\ j = l)
      <3>1. contents'[First][j] = contents[First][j]
        BY <1>2, <1>3, <1>4, <2>5
      <3>2. contents[First][j].var \in Var /\ contents[First][j].var # k
        <4>1. contents[First][j].var \in 0 .. lastId /\ contents[First][j].var \in Var
          BY <1>2, Expressions, Zenon DEF SymbolicInv
        <4>. QED BY <1>1, <4>1 DEF k
      <3>3. concolics'[First][contents[First][j].var] = concolics[First][contents[First][j].var]
        BY <1>2, <1>6, <3>2
      <3>4. native'[j] = native[j]
        BY <2>1, <2>3, <2>5
      <3>. QED BY <2>2, <3>1, <3>3, <3>4 DEF Evaluate
    <2>. QED BY <2>4, <2>5
  <1>. QED BY <1>7, <1>8, <1>9, <1>10, <1>11 DEF SymbolicInv

\* What is written into the running state keeps it native, when the first path
\* holds natively what is written.
LEMMA Writes ==
  ASSUME SymbolicInv, NEW l \in Location, NEW e \in [var : 0 .. lastId, plus : Values],
         contents' = [contents EXCEPT ![current][l] = e],
         concolics' = concolics, lastId' = lastId, concolicMode' = concolicMode,
         lost' = lost, native' \in [Location -> Values],
         concolicMode /\ lost = {} =>
           native' = IF current = First THEN [native EXCEPT ![l] = Evaluate(current, e)]
                                        ELSE native
  PROVE  /\ contents' \in [State -> [Location -> [var : 0 .. lastId, plus : Values]]]
         /\ NativeInv'
  <1>. DEFINE E == [var : 0 .. lastId, plus : Values]
  <1>1. contents \in [State -> [Location -> E]] /\ e \in E /\ native \in [Location -> Values]
    BY DEF SymbolicInv, InputTypes
  <1>2. current \in State /\ First \in State
    BY Variables DEF SymbolicInv
  <1>. HIDE DEF E
  <1>3. contents' \in [State -> [Location -> E]]
    <2>1. [contents[current] EXCEPT ![l] = e] \in [Location -> E]
      BY <1>1, <1>2
    <2>. QED BY <1>1, <2>1, Zenon
  <1>4. ASSUME concolicMode, lost = {}, NEW j \in Location
        PROVE  Evaluate(First, contents'[First][j]) = native'[j]
    <2>1. Evaluate(First, contents[First][j]) = native[j]
      BY <1>4 DEF SymbolicInv, NativeInv
    <2>2. CASE First = current /\ j = l
      BY <1>1, <1>2, <1>4, <2>2
    <2>3. CASE ~(First = current /\ j = l)
      BY <1>1, <1>2, <1>4, <2>1, <2>3
    <2>. QED BY <2>2, <2>3
  <1>5. NativeInv'
    BY <1>4 DEF NativeInv, Evaluate
  <1>. QED BY <1>3, <1>5 DEF E

-----------------------------------------------------------------------------
(* Constraints *)

\* A constraint that the path's inputs can meet, the concolic one among them.
Meets(s, e, S) ==
  /\ Possible(s, e) \cap S # {}
  /\ concolicMode => Evaluate(s, e) \in S

\* A constraint takes values of one variable away, and none of an input that
\* meets it.
LEMMA Restriction ==
  ASSUME InputTypes, NEW s \in State, NEW e \in [var : 1 .. lastId, plus : Values],
         NEW S \in SUBSET Values
  PROVE  LET R == Restricted(s, e, S)
         IN  /\ R \in [Var -> SUBSET Values] /\ e.var \in Var /\ e.var # 0
             /\ \A v \in Var : R[v] \subseteq allowed[s][v] /\ (v # e.var => R[v] = allowed[s][v])
             /\ \A x \in R[e.var] : ValueOf(e, x) \in S
             /\ Possible(s, e) \cap S # {} => R[e.var] # {}
             /\ Evaluate(s, e) \in S /\ concolics[s][e.var] \in allowed[s][e.var] =>
                  concolics[s][e.var] \in R[e.var]
  <1>1. e.var \in Var /\ e.var # 0 /\ e.var \in Nat
    BY Variables
  <1>2. allowed[s] \in [Var -> SUBSET Values]
    BY DEF InputTypes
  <1>. DEFINE R == Restricted(s, e, S)
  <1>3. /\ R \in [Var -> SUBSET Values]
        /\ R[e.var] = {x \in allowed[s][e.var] : ValueOf(e, x) \in S}
        /\ \A v \in Var : v # e.var => R[v] = allowed[s][v]
    <2>. DEFINE T == {x \in allowed[s][e.var] : ValueOf(e, x) \in S}
    <2>1. T \subseteq Values /\ R = [allowed[s] EXCEPT ![e.var] = T]
      BY <1>1, <1>2 DEF Restricted
    <2>. HIDE DEF T, R
    <2>2. R \in [Var -> SUBSET Values] /\ R[e.var] = T /\ \A v \in Var : v # e.var => R[v] = allowed[s][v]
      BY <1>1, <1>2, <2>1
    <2>. QED BY <2>2 DEF T
  <1>. HIDE DEF R
  <1>4. Possible(s, e) \cap S # {} => R[e.var] # {}
    BY <1>3 DEF Possible
  <1>5. Evaluate(s, e) \in S /\ concolics[s][e.var] \in allowed[s][e.var] =>
          concolics[s][e.var] \in R[e.var]
    BY <1>3 DEF Evaluate
  <1>6. \A v \in Var : R[v] \subseteq allowed[s][v]
    BY <1>3
  <1>7. \A x \in R[e.var] : ValueOf(e, x) \in S
    BY <1>3
  <1>. QED BY <1>1, <1>3, <1>4, <1>5, <1>6, <1>7 DEF R

\* So a constraint that the inputs of a path can meet leaves it an input.
LEMMA Restricts ==
  ASSUME SymbolicInv, NEW e \in [var : 1 .. lastId, plus : Values], NEW S \in SUBSET Values,
         AddConstraint(current, e, S),
         current \notin misranged => Meets(current, e, S),
         concolicMode' = concolicMode, live' = live, speculative' = speculative,
         misranged' = misranged, concolics' = concolics, lastId' = lastId
  PROVE  /\ allowed' \in [State -> [Var -> SUBSET Values]]
         /\ VariablesInv' /\ InputsInv' /\ DisjointInv'
  <1>. DEFINE R == Restricted(current, e, S)
  <1>1. current \in State /\ live \subseteq State /\ InputTypes
    BY Variables DEF SymbolicInv, InputTypes
  <1>2. allowed \in [State -> [Var -> SUBSET Values]]
    BY <1>1 DEF InputTypes
  <1>3. /\ R \in [Var -> SUBSET Values] /\ e.var \in Var /\ e.var # 0
        /\ \A v \in Var : R[v] \subseteq allowed[current][v] /\ (v # e.var => R[v] = allowed[current][v])
        /\ Possible(current, e) \cap S # {} => R[e.var] # {}
        /\ Evaluate(current, e) \in S /\ concolics[current][e.var] \in allowed[current][e.var] =>
             concolics[current][e.var] \in R[e.var]
    BY <1>1, Restriction
  <1>4. allowed' = [allowed EXCEPT ![current] = R]
    BY DEF AddConstraint
  <1>. HIDE DEF R
  <1>5. \A s \in State : allowed'[s] = IF s = current THEN R ELSE allowed[s]
    BY <1>1, <1>2, <1>4
  <1>6. allowed' \in [State -> [Var -> SUBSET Values]]
    BY <1>2, <1>3, <1>4, Zenon
  <1>7. 1 .. lastId \subseteq Var /\ 0 \in Var /\ lastId \in Nat /\ Var \subseteq Nat
    BY <1>1, Variables
  <1>8. VariablesInv'
    <2>1. \A s \in State : allowed'[s][0] = {0} /\ concolics[s][0] = 0
      BY <1>3, <1>5, <1>7 DEF SymbolicInv, VariablesInv
    <2>2. \A s \in live, v \in Var : v > lastId => allowed'[s][v] = Values
      <3>1. \A v \in Var : v > lastId => v # e.var
        BY <1>7
      <3>. QED BY <1>1, <1>3, <1>5, <3>1 DEF SymbolicInv, VariablesInv
    <2>. QED BY <2>1, <2>2 DEF VariablesInv
  <1>9. InputsInv'
    <2>1. SUFFICES ASSUME NEW s \in live, s \notin speculative, s \notin misranged
                   PROVE  HasInput(s)'
      BY DEF InputsInv
    <2>2. HasInput(s) /\ s \in State
      BY <1>1, <2>1 DEF SymbolicInv, InputsInv
    <2>3. CASE s # current
      BY <1>5, <2>2, <2>3 DEF HasInput, Feasible
    <2>4. CASE s = current
      <3>1. Meets(current, e, S)
        BY <2>1, <2>4
      <3>2. \A v \in Var : R[v] # {}
        BY <1>3, <2>2, <2>4, <3>1 DEF Meets, HasInput, Feasible
      <3>3. ASSUME concolicMode, NEW v \in Var, v <= lastId PROVE concolics[s][v] \in R[v]
        <4>1. concolics[s][v] \in allowed[s][v]
          BY <2>2, <3>3 DEF HasInput
        <4>. QED BY <1>3, <2>4, <3>1, <3>3, <4>1 DEF Meets
      <3>. QED BY <1>1, <1>5, <2>4, <3>2, <3>3 DEF HasInput, Feasible
    <2>. QED BY <2>3, <2>4
  <1>10. DisjointInv'
    <2>1. SUFFICES ASSUME NEW s \in live, NEW t \in live, s # t
                   PROVE  \E v \in 1 .. lastId : allowed'[s][v] \cap allowed'[t][v] = {}
      BY DEF DisjointInv
    <2>2. PICK v \in 1 .. lastId : allowed[s][v] \cap allowed[t][v] = {}
      BY <2>1 DEF SymbolicInv, DisjointInv
    <2>3. allowed'[s][v] \subseteq allowed[s][v] /\ allowed'[t][v] \subseteq allowed[t][v]
      BY <1>1, <1>3, <1>5, <1>7
    <2>. QED BY <2>2, <2>3
  <1>. QED BY <1>6, <1>8, <1>9, <1>10

\* The branch that a path takes is one its inputs take, and a path forks in
\* symbolic mode only when some of them take the other.
LEMMA Takes ==
  ASSUME SymbolicInv, current \notin misranged,
         NEW e \in [var : 1 .. lastId, plus : Values], NEW S \in SUBSET Values
  PROVE  LET taken == Taken(current, e, S)
         IN  /\ Meets(current, e, taken)
             /\ Forks(current, e, S) /\ ~concolicMode =>
                  Possible(current, e) \cap (Values \ taken) # {}
  <1>. DEFINE taken == Taken(current, e, S)
  <1>1. HasInput(current) /\ current \in State /\ InputTypes /\ VariablesInv
    BY Variables DEF SymbolicInv, InputsInv, InputTypes
  <1>2. e.var \in Var /\ e.var <= lastId /\ e.plus \in Values
    BY <1>1, Variables
  <1>3. allowed[current][e.var] \subseteq Values /\ allowed[current][e.var] # {}
    BY <1>1, <1>2 DEF InputTypes, HasInput, Feasible
  <1>4. \A x \in Values : ValueOf(e, x) \in Values
    BY <1>2, Modulo DEF ValueOf
  <1>5. Possible(current, e) \subseteq Values /\ Possible(current, e) # {}
    BY <1>3, <1>4 DEF Possible
  <1>6. CASE concolicMode
    <2>1. concolics[current][e.var] \in allowed[current][e.var]
      BY <1>1, <1>2, <1>6 DEF HasInput
    <2>2. Evaluate(current, e) \in Possible(current, e)
      BY <2>1 DEF Evaluate, Possible
    <2>3. Evaluate(current, e) \in taken
      BY <1>5, <1>6, <2>2 DEF Taken
    <2>. QED BY <1>6, <2>2, <2>3 DEF Meets
  <1>7. CASE ~concolicMode
    <2>1. Possible(current, e) \cap taken # {}
      BY <1>5, <1>7 DEF Taken
    <2>2. Values \ taken \in {S, Values \ S}
      <3>1. Values \ (Values \ S) = S
        OBVIOUS
      <3>. QED BY <3>1 DEF Taken
    <2>. QED BY <1>7, <2>1, <2>2 DEF Meets, Forks
  <1>. QED BY <1>6, <1>7

\* A fork: the state is held to the branch it takes, and what the other branch
\* allows is left to a new state; the two differ in the variable tested.
LEMMA ForkSplits ==
  ASSUME SymbolicInv, NEW e \in [var : 1 .. lastId, plus : Values], NEW S \in SUBSET Values,
         ForkOn(e, S)
  PROVE  SymbolicInv'
  <1>. DEFINE taken == Taken(current, e, S)
  <1>1. /\ current \in State /\ First \in State /\ live \subseteq State /\ current \in live
        /\ First \in live /\ InputTypes
    BY Variables DEF SymbolicInv, InputTypes
  <1>2. taken \in SUBSET Values /\ Values \ taken \in SUBSET Values
    BY DEF Taken
  <1>3. current \notin misranged => Meets(current, e, taken)
    BY Takes
  <1>4. CASE ~Forks(current, e, S)
    <2>1. /\ AddConstraint(current, e, taken)
          /\ UNCHANGED <<concolicMode, live, current, speculative, contents, concolics, lastId,
                         native, lost, misranged>>
      BY <1>4 DEF ForkOn, states
    <2>. HIDE DEF taken
    <2>2. /\ allowed' \in [State -> [Var -> SUBSET Values]]
          /\ VariablesInv' /\ InputsInv' /\ DisjointInv'
      BY <1>2, <1>3, <2>1, Restricts
    <2>3. InputTypes'
      BY <2>1, <2>2 DEF SymbolicInv, InputTypes
    <2>4. NativeInv'
      BY <2>1 DEF SymbolicInv, NativeInv, Evaluate
    <2>. QED BY <2>2, <2>3, <2>4 DEF SymbolicInv
  <1>5. CASE Forks(current, e, S)
    <2>. DEFINE R == Restricted(current, e, taken)
    <2>. DEFINE Q == Restricted(current, e, Values \ taken)
    <2>1. PICK t \in State \ live :
            /\ live' = live \cup {t}
            /\ speculative' = IF concolicMode THEN speculative \cup {t} ELSE speculative
            /\ misranged' = IF current \in misranged THEN misranged \cup {t} ELSE misranged
            /\ contents' = [contents EXCEPT ![t] = contents[current]]
            /\ concolics' = [concolics EXCEPT ![t] = concolics[current]]
            /\ allowed' = [allowed EXCEPT ![current] = R, ![t] = Q]
            /\ UNCHANGED <<concolicMode, current, lastId, native, lost>>
      BY <1>5, Zenon DEF ForkOn
    <2>2. current \notin misranged /\ ~concolicMode => Possible(current, e) \cap (Values \ taken) # {}
      BY <1>5, Takes
    <2>. HIDE DEF taken
    <2>3. /\ R \in [Var -> SUBSET Values] /\ e.var \in Var /\ e.var # 0
          /\ \A v \in Var : R[v] \subseteq allowed[current][v] /\ (v # e.var => R[v] = allowed[current][v])
          /\ \A x \in R[e.var] : ValueOf(e, x) \in taken
          /\ Possible(current, e) \cap taken # {} => R[e.var] # {}
          /\ Evaluate(current, e) \in taken /\ concolics[current][e.var] \in allowed[current][e.var] =>
               concolics[current][e.var] \in R[e.var]
      BY <1>1, <1>2, Restriction
    <2>4. /\ Q \in [Var -> SUBSET Values]
          /\ \A v \in Var : Q[v] \subseteq allowed[current][v] /\ (v # e.var => Q[v] = allowed[current][v])
          /\ \A x \in Q[e.var] : ValueOf(e, x) \in Values \ taken
          /\ Possible(current, e) \cap (Values \ taken) # {} => Q[e.var] # {}
      BY <1>1, <1>2, Restriction
    <2>. HIDE DEF R, Q
    <2>5. /\ allowed \in [State -> [Var -> SUBSET Values]]
          /\ concolics \in [State -> [Var -> Values]]
          /\ contents \in [State -> [Location -> [var : 0 .. lastId, plus : Values]]]
      BY <1>1 DEF InputTypes
    <2>6. t # current /\ t # First /\ t \in State /\ t \notin live
      BY <1>1, <2>1
    <2>7. \A s \in State : allowed'[s] = IF s = t THEN Q ELSE IF s = current THEN R ELSE allowed[s]
      BY <1>1, <2>1, <2>5, <2>6
    <2>8. \A s \in State : concolics'[s] = IF s = t THEN concolics[current] ELSE concolics[s]
      BY <1>1, <2>1, <2>5
    <2>9. 1 .. lastId \subseteq Var /\ 0 \in Var /\ lastId \in Nat /\ Var \subseteq Nat
      BY <1>1, Variables
    <2>10. InputTypes'
      <3>1. allowed' \in [State -> [Var -> SUBSET Values]]
        BY <1>1, <2>1, <2>3, <2>4, <2>5, Zenon
      <3>2. concolics' \in [State -> [Var -> Values]]
        BY <1>1, <2>1, <2>5
      <3>3. contents' \in [State -> [Location -> [var : 0 .. lastId, plus : Values]]]
        <4>. DEFINE E == [var : 0 .. lastId, plus : Values]
        <4>1. contents \in [State -> [Location -> E]]
          BY <2>5
        <4>. HIDE DEF E
        <4>2. contents' \in [State -> [Location -> E]]
          BY <1>1, <2>1, <4>1
        <4>. QED BY <4>2 DEF E
      <3>4. live' \subseteq State /\ speculative' \subseteq live' /\ current' \in live'
            /\ current' \notin speculative' /\ First \in live' /\ First \notin speculative'
            /\ (concolicMode' \/ speculative' = {})
        BY <2>1, <2>6 DEF SymbolicInv, InputTypes
      <3>. QED BY <2>1, <3>1, <3>2, <3>3, <3>4, Zenon DEF SymbolicInv, InputTypes
    <2>11. VariablesInv'
      <3>1. ASSUME NEW s \in State PROVE allowed'[s][0] = {0} /\ concolics'[s][0] = 0
        BY <1>1, <2>3, <2>4, <2>7, <2>8, <2>9 DEF SymbolicInv, VariablesInv
      <3>2. ASSUME NEW s \in live \cup {t}, NEW v \in Var, v > lastId PROVE allowed'[s][v] = Values
        <4>1. v # e.var
          BY <2>9, <3>2
        <4>2. \A r \in live : allowed[r][v] = Values
          BY <3>2 DEF SymbolicInv, VariablesInv
        <4>. QED BY <1>1, <2>3, <2>4, <2>6, <2>7, <4>1, <4>2
      <3>. QED BY <2>1, <3>1, <3>2, Zenon DEF VariablesInv
    <2>12. InputsInv'
      <3>1. SUFFICES ASSUME NEW s \in live', s \notin speculative', s \notin misranged'
                     PROVE  HasInput(s)'
        BY DEF InputsInv
      <3>2. CASE s # t /\ s # current
        <4>1. s \in live /\ s \notin speculative /\ s \notin misranged
          BY <2>1, <3>1, <3>2
        <4>2. HasInput(s) /\ s \in State
          BY <1>1, <4>1 DEF SymbolicInv, InputsInv
        <4>3. allowed'[s] = allowed[s] /\ concolics'[s] = concolics[s]
          BY <2>7, <2>8, <3>2, <4>2
        <4>. QED BY <2>1, <4>2, <4>3, Zenon DEF HasInput, Feasible
      <3>3. ASSUME s = t \/ s = current
            PROVE  HasInput(current) /\ current \notin misranged /\ Meets(current, e, taken)
        <4>1. current \notin misranged
          BY <2>1, <3>1, <3>3
        <4>2. HasInput(current)
          BY <4>1 DEF SymbolicInv, InputTypes, InputsInv
        <4>. QED BY <1>3, <4>1, <4>2
      <3>4. CASE s = current
        <4>1. \A v \in Var : R[v] # {}
          BY <2>3, <3>3, <3>4 DEF Meets, HasInput, Feasible
        <4>2. ASSUME concolicMode, NEW v \in Var, v <= lastId PROVE concolics[current][v] \in R[v]
          <5>1. concolics[current][v] \in allowed[current][v]
            BY <3>3, <3>4, <4>2 DEF HasInput
          <5>. QED BY <2>3, <3>3, <3>4, <4>2, <5>1 DEF Meets
        <4>3. allowed'[s] = R /\ concolics'[s] = concolics[current]
          BY <1>1, <2>6, <2>7, <2>8, <3>4
        <4>. QED BY <2>1, <4>1, <4>2, <4>3, Zenon DEF HasInput, Feasible
      <3>5. CASE s = t
        <4>1. ~concolicMode
          BY <2>1, <3>1, <3>5
        <4>2. \A v \in Var : Q[v] # {}
          BY <2>2, <2>4, <3>3, <3>5, <4>1 DEF HasInput, Feasible
        <4>3. allowed'[s] = Q
          BY <2>6, <2>7, <3>5
        <4>. QED BY <2>1, <4>1, <4>2, <4>3, Zenon DEF HasInput, Feasible
      <3>. QED BY <3>2, <3>4, <3>5
    <2>13. DisjointInv'
      <3>1. ASSUME NEW r \in live, NEW s \in live, r # s
            PROVE  \E v \in 1 .. lastId : allowed'[r][v] \cap allowed'[s][v] = {}
        <4>1. PICK v \in 1 .. lastId : allowed[r][v] \cap allowed[s][v] = {}
          BY <3>1 DEF SymbolicInv, DisjointInv
        <4>2. allowed'[r][v] \subseteq allowed[r][v] /\ allowed'[s][v] \subseteq allowed[s][v]
          BY <1>1, <2>3, <2>6, <2>7, <2>9
        <4>. QED BY <4>1, <4>2
      <3>2. ASSUME NEW r \in live
            PROVE  \E v \in 1 .. lastId : allowed'[r][v] \cap allowed'[t][v] = {}
        <4>1. CASE r = current
          <5>1. R[e.var] \cap Q[e.var] = {}
            BY <2>3, <2>4
          <5>. QED BY <1>1, <2>6, <2>7, <4>1, <5>1
        <4>2. CASE r # current
          <5>1. PICK v \in 1 .. lastId : allowed[r][v] \cap allowed[current][v] = {}
            BY <1>1, <4>2 DEF SymbolicInv, DisjointInv
          <5>2. allowed'[r][v] = allowed[r][v] /\ allowed'[t][v] \subseteq allowed[current][v]
            BY <1>1, <2>4, <2>6, <2>7, <2>9, <4>2
          <5>. QED BY <5>1, <5>2
        <4>. QED BY <4>1, <4>2
      <3>3. ASSUME NEW r \in live', NEW s \in live', r # s
            PROVE  \E v \in 1 .. lastId : allowed'[r][v] \cap allowed'[s][v] = {}
        <4>1. CASE r \in live /\ s \in live
          BY <3>1, <3>3, <4>1
        <4>2. CASE s = t /\ r \in live
          BY <3>2, <4>2
        <4>3. CASE r = t /\ s \in live
          <5>1. PICK v \in 1 .. lastId : allowed'[s][v] \cap allowed'[t][v] = {}
            BY <3>2, <4>3
          <5>2. allowed'[t][v] \cap allowed'[s][v] = {}
            BY <5>1
          <5>. QED BY <4>3, <5>2
        <4>4. r \in live \cup {t} /\ s \in live \cup {t}
          BY <2>1, <3>3
        <4>5. \/ r \in live /\ s \in live
              \/ s = t /\ r \in live
              \/ r = t /\ s \in live
          BY <3>3, <4>4
        <4>. QED BY <4>1, <4>2, <4>3, <4>5
      <3>4. lastId' = lastId
        BY <2>1
      <3>. QED BY <3>3, <3>4 DEF DisjointInv
    <2>14. NativeInv'
      <3>1. contents'[First] = contents[First] /\ concolics'[First] = concolics[First]
        BY <1>1, <2>1, <2>5, <2>6
      <3>. QED BY <2>1, <3>1 DEF SymbolicInv, NativeInv, Evaluate
    <2>. QED BY <2>10, <2>11, <2>12, <2>13, <2>14 DEF SymbolicInv
  <1>. QED BY <1>4, <1>5

-----------------------------------------------------------------------------
(* The actions *)

\* The buffer of a script holds a value, and the value itself if it is a byte.
LEMMA Buffers ==
  ASSUME NEW n \in Values
  PROVE  Buffer(n) \in Values /\ (n < ByteSize => Buffer(n) = n) /\ 0 \in Values /\ Values # {}
  <1>1. n \in Nat /\ Size \in Nat /\ ByteSize \in Nat \ {0} /\ ByteSize <= Size
    BY SymbolicInputsAssumption DEF Values
  <1>2. n % ByteSize \in 0 .. ByteSize - 1 /\ (n < ByteSize => n % ByteSize = n)
    <2>. DEFINE b == ByteSize
    <2>1. b \in Nat \ {0}
      BY <1>1
    <2>. HIDE DEF b
    <2>2. n % b \in 0 .. b - 1 /\ (n < b => n % b = n)
      BY <1>1, <2>1
    <2>. QED BY <2>2 DEF b
  <1>. QED BY <1>1, <1>2 DEF Buffer, Values

\* What a script finds concrete is what the running state holds natively.
LEMMA FoundNative ==
  ASSUME SymbolicInv, concolicMode, lost = {}, NEW l \in Location, NEW n \in Values,
         contents[current][l] = Constant(n), current = First
  PROVE  native[l] = n
  BY Expressions, Variables DEF SymbolicInv, NativeInv

\* Each way of making a value an input keeps the invariant.
LEMMA InputsCreated ==
  ASSUME SymbolicInv, NEW l \in Location, NEW range \in Ranges \cup {NoRange},
         WriteMemorySymb(l, range) \/ WriteRegisterSymb(l, range) \/ SetFlagSymb(l) \/ MakeSymbolic(l)
  PROVE  SymbolicInv'
  <1>1. /\ current \in State /\ native \in [Location -> Values]
        /\ current \in live /\ allowed \in [State -> [Var -> SUBSET Values]]
    BY DEF SymbolicInv, InputTypes
  <1>2. /\ UNCHANGED <<concolicMode, live, current, speculative>>
    BY DEF WriteMemorySymb, WriteRegisterSymb, SetFlagSymb, MakeSymbolic, states
  <1>3. CASE WriteMemorySymb(l, range) \/ WriteRegisterSymb(l, range) \/ SetFlagSymb(l)
    <2>1. PICK n \in Values :
            /\ contents[current][l] = Constant(n)
            /\ CreateConcolicValue(current, l, Buffer(n)) /\ Truncates(n)
            /\ InRange(range, n) \/ UNCHANGED <<allowed, misranged>>
            /\ native' = native
      BY <1>3 DEF WriteMemorySymb, WriteRegisterSymb, SetFlagSymb, ReadMemoryConcrete,
                  ReadCpuRegisterConcrete
    <2>2. Buffer(n) \in Values /\ Values # {}
      BY Buffers
    <2>3. \E S \in SUBSET Values :
            /\ S # {} /\ allowed' = [allowed EXCEPT ![current][lastId + 1] = S]
            /\ Buffer(n) \in S \/ current \in misranged'
            /\ misranged \subseteq misranged'
      <3>1. CASE InRange(range, n)
        <4>. DEFINE S == IF range = NoRange THEN Values ELSE range
        <4>1. S \subseteq Values /\ S # {}
          BY <2>2, SymbolicInputsAssumption DEF Values
        <4>2. /\ allowed' = [allowed EXCEPT ![current][lastId + 1] = S]
              /\ misranged' = IF Buffer(n) \in S THEN misranged ELSE misranged \cup {current}
          BY <3>1 DEF InRange
        <4>. HIDE DEF S
        <4>. QED BY <4>1, <4>2, Zenon
      <3>2. CASE UNCHANGED <<allowed, misranged>>
        <4>1. lastId + 1 \in Var /\ lastId + 1 > lastId
          BY <2>1, Variables DEF SymbolicInv, CreateConcolicValue
        <4>2. allowed[current][lastId + 1] = Values
          BY <1>1, <4>1 DEF SymbolicInv, VariablesInv
        <4>3. allowed = [allowed EXCEPT ![current][lastId + 1] = Values]
          BY <1>1, <4>1, <4>2
        <4>. QED BY <2>2, <3>2, <4>3
      <3>. QED BY <2>1, <3>1, <3>2
    <2>4. PICK S \in SUBSET Values :
            /\ S # {} /\ allowed' = [allowed EXCEPT ![current][lastId + 1] = S]
            /\ Buffer(n) \in S \/ current \in misranged'
            /\ misranged \subseteq misranged'
      BY <2>3, Zenon
    <2>5. lost \subseteq lost'
      BY <2>1 DEF Truncates
    <2>6. ASSUME concolicMode, lost' = {}, current = First
          PROVE  native' = [native EXCEPT ![l] = Buffer(n)]
      <3>1. lost = {} /\ n < ByteSize
        <4>1. ~(n >= ByteSize)
          BY <2>1, <2>6 DEF Truncates
        <4>3. lost = {}
          BY <2>5, <2>6
        <4>2. n \in Nat /\ ByteSize \in Nat
          BY SymbolicInputsAssumption DEF Values
        <4>. QED BY <4>1, <4>2, <4>3
      <3>2. native[l] = Buffer(n)
        BY <2>1, <2>6, <3>1, FoundNative, Buffers
      <3>. QED BY <1>1, <2>1, <3>2
    <2>. QED BY <1>1, <1>2, <2>1, <2>2, <2>4, <2>5, <2>6, Creates, Zenon
  <1>4. CASE MakeSymbolic(l)
    <2>. DEFINE m == ObjectStart[l]
    <2>1. /\ CreateConcolicValue(current, m, 0) /\ UNCHANGED <<allowed, misranged, native>>
          /\ Zeroes(m) /\ m \in Location
      BY <1>4, SymbolicInputsAssumption DEF MakeSymbolic, Location
    <2>. HIDE DEF m
    <2>2. 0 \in Values /\ Values # {}
      BY SymbolicInputsAssumption DEF Values
    <2>3. lastId + 1 \in Var /\ lastId + 1 > lastId
      BY <2>1, Variables DEF SymbolicInv, CreateConcolicValue
    <2>4. allowed[current][lastId + 1] = Values
      BY <1>1, <2>3 DEF SymbolicInv, VariablesInv
    <2>5. allowed' = [allowed EXCEPT ![current][lastId + 1] = Values]
      BY <1>1, <2>1, <2>3, <2>4
    <2>6. lost \subseteq lost'
      BY <2>1 DEF Zeroes
    <2>7. lost' = {} => native' = IF current = First THEN [native EXCEPT ![m] = 0] ELSE native
      <3>1. ASSUME lost' = {}, current = First PROVE native[m] = 0
        BY <2>1, <3>1 DEF Zeroes
      <3>. QED BY <1>1, <2>1, <3>1
    <2>8. native' \in [Location -> Values]
      BY <1>1, <2>1
    <2>. QED BY <1>1, <1>2, <2>1, <2>2, <2>5, <2>6, <2>7, <2>8, Creates, Zenon
  <1>. QED BY <1>3, <1>4

\* A step of the running state that only writes keeps the invariant.
LEMMA OnlyWrites ==
  ASSUME SymbolicInv, NEW l \in Location, NEW e \in [var : 0 .. lastId, plus : Values],
         NEW n \in Values,
         contents' = [contents EXCEPT ![current][l] = e], Natively(l, n),
         concolicMode /\ lost = {} /\ current = First => Evaluate(current, e) = n,
         UNCHANGED <<concolicMode, states, concolics, allowed, lastId, lost, misranged>>
  PROVE  SymbolicInv'
  <1>1. native \in [Location -> Values]
    BY DEF SymbolicInv, InputTypes
  <1>2. native' \in [Location -> Values]
    BY <1>1 DEF Natively
  <1>3. concolicMode /\ lost = {} =>
          native' = IF current = First THEN [native EXCEPT ![l] = Evaluate(current, e)] ELSE native
    BY Zenon DEF Natively
  <1>4. /\ contents' \in [State -> [Location -> [var : 0 .. lastId, plus : Values]]]
        /\ NativeInv'
    BY <1>2, <1>3, Writes, Zenon
  <1>5. InputTypes'
    BY <1>2, <1>4 DEF SymbolicInv, InputTypes, states
  <1>6. VariablesInv' /\ InputsInv' /\ DisjointInv'
    BY DEF SymbolicInv, VariablesInv, InputsInv, HasInput, Feasible, DisjointInv, states
  <1>. QED BY <1>4, <1>5, <1>6 DEF SymbolicInv

\* So the scripts' writes and the guest's keep it.
LEMMA LocationsWritten ==
  ASSUME SymbolicInv, NEW l \in Location,
         \/ \E bit \in {0, 1} : SetFlag(l, bit)
         \/ \E n \in Data : WriteMemory(l, n) \/ WriteRegister(l, n)
         \/ Increment(l)
  PROVE  SymbolicInv'
  <1>1. /\ current \in State /\ InputTypes /\ VariablesInv /\ native \in [Location -> Values]
        /\ contents \in [State -> [Location -> [var : 0 .. lastId, plus : Values]]]
    BY Variables DEF SymbolicInv, InputTypes
  <1>2. ASSUME NEW n \in Values, contents' = [contents EXCEPT ![current][l] = Constant(n)],
               Natively(l, n),
               UNCHANGED <<concolicMode, states, concolics, allowed, lastId, lost, misranged>>
        PROVE  SymbolicInv'
    <2>1. Constant(n) \in [var : 0 .. lastId, plus : Values] /\ Evaluate(current, Constant(n)) = n
      BY <1>1, Expressions
    <2>. QED BY <1>2, <2>1, OnlyWrites, Zenon
  <1>3. ASSUME NEW bit \in {0, 1}, SetFlag(l, bit) PROVE SymbolicInv'
    <2>1. bit * (Size \div 2) \in Values
      <3>1. Size \in Nat \ {0}
        BY SymbolicInputsAssumption
      <3>2. Size \div 2 \in 0 .. Size - 1
        BY <3>1
      <3>3. 0 * (Size \div 2) = 0 /\ 1 * (Size \div 2) = Size \div 2
        BY <3>2
      <3>. QED BY <3>1, <3>2, <3>3 DEF Values
    <2>. QED BY <1>2, <1>3, <2>1, Zenon DEF SetFlag, WriteCpuRegisterConcrete
  <1>4. ASSUME NEW n \in Data, WriteMemory(l, n) \/ WriteRegister(l, n) PROVE SymbolicInv'
    <2>1. n \in Values
      BY SymbolicInputsAssumption DEF Values
    <2>. QED BY <1>2, <1>4, <2>1 DEF WriteMemory, WriteRegister, WriteMemoryConcrete,
                                     WriteCpuRegisterConcrete
  <1>5. CASE Increment(l)
    <2>. DEFINE e == contents[current][l]
    <2>. DEFINE plus == (e.plus + 1) % Size
    <2>. DEFINE n == (native[l] + 1) % Size
    <2>1. Size \in Nat \ {0} /\ \A x \in Values : (x + 1) % Size \in Values
      BY SymbolicInputsAssumption DEF Values
    <2>2. e \in [var : 0 .. lastId, plus : Values] /\ e.var \in Var
      BY <1>1, Expressions
    <2>3. plus \in Values /\ n \in Values
      BY <1>1, <2>1, <2>2
    <2>4. contents' = [contents EXCEPT ![current][l] = [var |-> e.var, plus |-> plus]]
      <3>1. [e EXCEPT !.plus = plus] = [var |-> e.var, plus |-> plus]
        BY <2>2
      <3>2. contents' = [contents EXCEPT ![current][l] = [e EXCEPT !.plus = plus]]
        BY <1>1, <1>5, <2>2 DEF Increment
      <3>. QED BY <3>1, <3>2, Zenon
    <2>5. ASSUME concolicMode, lost = {}, current = First
          PROVE  Evaluate(current, [var |-> e.var, plus |-> plus]) = n
      <3>1. Evaluate(current, e) = native[l]
        BY <2>5 DEF SymbolicInv, NativeInv
      <3>2. concolics[current][e.var] \in Values
        BY <1>1, <2>2 DEF InputTypes
      <3>3. (concolics[current][e.var] + plus) % Size = (((concolics[current][e.var] + e.plus) % Size) + 1) % Size
        BY <2>2, <3>2, Modulo
      <3>. QED BY <3>1, <3>3 DEF Evaluate, ValueOf
    <2>6. /\ Natively(l, n)
          /\ UNCHANGED <<concolicMode, states, concolics, allowed, lastId, lost, misranged>>
      BY <1>5 DEF Increment
    <2>7. [var |-> e.var, plus |-> plus] \in [var : 0 .. lastId, plus : Values]
      BY <2>2, <2>3
    <2>. HIDE DEF e, plus, n
    <2>. QED BY <2>3, <2>4, <2>5, <2>6, <2>7, OnlyWrites, Zenon
  <1>. QED BY <1>3, <1>4, <1>5

\* What an expression is made concrete to meets the path.
LEMMA Concretes ==
  ASSUME SymbolicInv, NEW l \in Location, contents[current][l].var # 0,
         NEW n \in ToConstant(current, contents[current][l])
  PROVE  /\ contents[current][l] \in [var : 1 .. lastId, plus : Values]
         /\ n \in Values
         /\ current \notin misranged => Meets(current, contents[current][l], {n})
         /\ concolicMode => n = Evaluate(current, contents[current][l])
  <1>. DEFINE e == contents[current][l]
  <1>1. /\ current \in State /\ current \in live /\ current \notin speculative
        /\ InputTypes /\ VariablesInv /\ lastId \in Nat
    BY Variables DEF SymbolicInv, InputTypes
  <1>2. /\ e.var \in 0 .. lastId /\ e.var \in Var /\ e.plus \in Values
        /\ Evaluate(current, e) \in Values
        /\ \A x \in Values : ValueOf(e, x) \in Values
        /\ e \in [var : 0 .. lastId, plus : Values]
    <2>1. e \in [var : 0 .. lastId, plus : Values]
      BY <1>1 DEF InputTypes
    <2>. QED BY <1>1, <2>1, Expressions
  <1>3. e \in [var : 1 .. lastId, plus : Values]
    <2>1. e.var \in 1 .. lastId
      BY <1>1, <1>2
    <2>. QED BY <1>2, <2>1
  <1>4. allowed[current][e.var] \subseteq Values
    BY <1>1, <1>2 DEF InputTypes
  <1>5. n \in Values
    BY <1>2, <1>4 DEF ToConstant, Possible
  <1>6. ASSUME current \notin misranged PROVE Meets(current, e, {n})
    <2>1. HasInput(current)
      BY <1>1, <1>6 DEF SymbolicInv, InputsInv
    <2>2. CASE concolicMode
      <3>1. n = Evaluate(current, e) /\ concolics[current][e.var] \in allowed[current][e.var]
        BY <1>1, <1>2, <2>1, <2>2 DEF HasInput, ToConstant
      <3>. QED BY <3>1 DEF Meets, Possible, Evaluate
    <2>3. CASE ~concolicMode
      BY <2>3 DEF Meets, ToConstant
    <2>. QED BY <2>2, <2>3
  <1>. QED BY <1>3, <1>5, <1>6 DEF ToConstant

\* Holding the path to a value that a location may have keeps the invariant.
LEMMA ValueHeld ==
  ASSUME SymbolicInv, NEW l \in Location, contents[current][l].var # 0,
         NEW n \in ToConstant(current, contents[current][l]),
         AddConstraint(current, contents[current][l], {n}),
         UNCHANGED <<concolicMode, states, concolics, lastId, native, lost, misranged>>
  PROVE  /\ allowed' \in [State -> [Var -> SUBSET Values]]
         /\ VariablesInv' /\ InputsInv' /\ DisjointInv'
         /\ UNCHANGED contents => SymbolicInv'
  <1>. DEFINE e == contents[current][l]
  <1>1. /\ e \in [var : 1 .. lastId, plus : Values] /\ {n} \in SUBSET Values
        /\ current \notin misranged => Meets(current, e, {n})
    BY Concretes
  <1>2. UNCHANGED <<concolicMode, live, speculative, misranged, concolics, lastId>>
    BY DEF states
  <1>3. AddConstraint(current, e, {n})
    OBVIOUS
  <1>4. /\ allowed' \in [State -> [Var -> SUBSET Values]]
        /\ VariablesInv' /\ InputsInv' /\ DisjointInv'
    <2>. HIDE DEF e
    <2>. QED BY <1>1, <1>2, <1>3, Restricts
  <1>5. UNCHANGED contents => InputTypes' /\ NativeInv'
    BY <1>4 DEF SymbolicInv, InputTypes, NativeInv, Evaluate, states
  <1>. QED BY <1>4, <1>5 DEF SymbolicInv

\* So getting the value of what is at the start of an object keeps it.
LEMMA ValueGot ==
  ASSUME SymbolicInv, NEW l \in Location, HandleGetValue(l)
  PROVE  SymbolicInv'
  <1>. DEFINE m == ObjectStart[l]
  <1>1. /\ m \in Location /\ contents[current][m].var # 0
        /\ \E n \in ToConstant(current, contents[current][m]) :
             AddConstraint(current, contents[current][m], {n})
        /\ UNCHANGED <<concolicMode, states, contents, concolics, lastId, native, lost, misranged>>
    BY SymbolicInputsAssumption DEF HandleGetValue, Location
  <1>. HIDE DEF m
  <1>. QED BY <1>1, ValueHeld

\* Each other way of holding a path to a value or to a branch keeps the invariant.
LEMMA PathsConstrained ==
  ASSUME SymbolicInv, NEW l \in Location,
         \/ Concretize(l) \/ ForkAndConcretize(l)
         \/ \E S \in Conditions : BranchOn(l, S)
  PROVE  SymbolicInv'
  <1>. DEFINE e == contents[current][l]
  <1>1. e.var # 0
    BY DEF Concretize, ForkAndConcretize, BranchOn
  <1>2. \A n \in ToConstant(current, e) :
          /\ n \in Values
          /\ concolicMode => n = Evaluate(current, e)
    BY <1>1, Concretes, Zenon
  <1>3. e \in [var : 1 .. lastId, plus : Values]
    <2>1. e \in [var : 0 .. lastId, plus : Values] /\ lastId \in Nat
      BY Variables DEF SymbolicInv, InputTypes
    <2>2. e.var \in 1 .. lastId /\ e.plus \in Values
      BY <1>1, <2>1
    <2>. QED BY <2>1, <2>2
  <1>4. ASSUME NEW n \in ToConstant(current, e), AddConstraint(current, e, {n}),
               UNCHANGED <<concolicMode, states, concolics, lastId, native, lost, misranged>>
        PROVE  /\ allowed' \in [State -> [Var -> SUBSET Values]]
               /\ VariablesInv' /\ InputsInv' /\ DisjointInv'
               /\ UNCHANGED contents => SymbolicInv'
    BY <1>1, <1>4, ValueHeld
  <1>7. CASE Concretize(l)
    <2>1. PICK n \in ToConstant(current, e) :
            /\ AddConstraint(current, e, {n})
            /\ contents' = [contents EXCEPT ![current][l] = Constant(n)]
      BY <1>7, Zenon DEF Concretize
    <2>2. UNCHANGED <<concolicMode, states, concolics, lastId, native, lost, misranged>>
      BY <1>7 DEF Concretize
    <2>3. /\ allowed' \in [State -> [Var -> SUBSET Values]]
          /\ VariablesInv' /\ InputsInv' /\ DisjointInv'
      BY <1>4, <2>1, <2>2
    <2>4. InputTypes /\ VariablesInv /\ current \in State /\ native \in [Location -> Values]
      BY Variables DEF SymbolicInv, InputTypes
    <2>5. Constant(n) \in [var : 0 .. lastId, plus : Values] /\ Evaluate(current, Constant(n)) = n
      BY <1>2, <2>1, <2>4, Expressions, Zenon
    <2>6. ASSUME concolicMode, lost = {}, current = First
          PROVE  native' = [native EXCEPT ![l] = Evaluate(current, Constant(n))]
      <3>1. native[l] = n
        BY <1>2, <2>1, <2>6 DEF SymbolicInv, NativeInv
      <3>. QED BY <2>2, <2>4, <2>5, <3>1
    <2>7. /\ contents' \in [State -> [Location -> [var : 0 .. lastId, plus : Values]]]
          /\ NativeInv'
      BY <2>1, <2>2, <2>4, <2>5, <2>6, Writes, Zenon
    <2>8. InputTypes'
      BY <2>2, <2>3, <2>7 DEF SymbolicInv, InputTypes, states
    <2>. QED BY <2>3, <2>7, <2>8 DEF SymbolicInv
  <1>8. ASSUME NEW S \in SUBSET Values, ForkOn(e, S) PROVE SymbolicInv'
    <2>. HIDE DEF e
    <2>. QED BY <1>3, <1>8, ForkSplits
  <1>9. CASE ForkAndConcretize(l)
    <2>1. PICK n \in ToConstant(current, e) :
            \/ /\ AddConstraint(current, e, {n})
               /\ UNCHANGED <<concolicMode, states, contents, concolics, lastId, native, lost, misranged>>
            \/ ForkOn(e, {n})
      <3>1. \E n \in ToConstant(current, e) :
              IF current \in forkDisabled
              THEN /\ AddConstraint(current, e, {n})
                   /\ Bounded
                   /\ UNCHANGED <<concolicMode, states, contents, concolics, lastId, native, lost, misranged>>
              ELSE ForkOn(e, {n})
        BY <1>9, Zenon DEF ForkAndConcretize, ConcreteAddress
      <3>. QED BY <3>1, Zenon
    <2>2. {n} \in SUBSET Values
      BY <1>2, Zenon
    <2>. HIDE DEF e
    <2>. QED BY <1>4, <1>8, <2>1, <2>2
  <1>10. ASSUME NEW S \in Conditions, BranchOn(l, S) PROVE SymbolicInv'
    <2>1. S \in SUBSET Values
      BY SymbolicInputsAssumption DEF Values
    <2>. QED BY <1>8, <1>10, <2>1 DEF BranchOn
  <1>. QED BY <1>7, <1>9, <1>10

\* A state that is selected has an input, if it was speculative; and one that
\* has none is removed.
LEMMA StatesSelected ==
  ASSUME SymbolicInv, NEW t \in State, SelectNextState(t) \/ SelectInfeasible(t) \/ SetForking
  PROVE  SymbolicInv'
  <1>1. /\ InputTypes /\ lastId \in Nat /\ lastId <= MaxVars /\ 0 \in Var /\ Var \subseteq Nat
        /\ First \in State /\ live \subseteq State
    BY Variables DEF SymbolicInv, InputTypes
  <1>2. CASE SetForking
    <2>1. UNCHANGED <<concolicMode, live, current, speculative, contents, concolics, allowed, lastId,
                      native, lost, misranged>>
      BY <1>2 DEF SetForking, path
    <2>2. InputTypes'
      BY <1>1, <2>1 DEF InputTypes
    <2>3. VariablesInv' /\ InputsInv' /\ DisjointInv' /\ NativeInv'
      BY <2>1 DEF SymbolicInv, VariablesInv, InputsInv, HasInput, Feasible, DisjointInv, NativeInv,
                  Evaluate
    <2>. QED BY <2>2, <2>3 DEF SymbolicInv
  <1>3. CASE SelectNextState(t)
    <2>1. /\ t \in live \ {current} /\ ResolveSpeculativeState(t)
          /\ current' = t /\ speculative' = speculative \ {t}
          /\ UNCHANGED <<concolicMode, live, contents, allowed, lastId, native, lost>>
      BY <1>3 DEF SelectNextState
    <2>2. CASE t \notin speculative
      <3>1. UNCHANGED <<concolics, misranged, speculative>>
        BY <2>1, <2>2 DEF ResolveSpeculativeState
      <3>2. InputTypes'
        BY <1>1, <2>1, <2>2, <3>1 DEF InputTypes
      <3>3. VariablesInv' /\ DisjointInv'
        BY <2>1, <3>1 DEF SymbolicInv, VariablesInv, DisjointInv
      <3>4. InputsInv'
        BY <2>1, <3>1 DEF SymbolicInv, InputsInv, HasInput, Feasible
      <3>5. NativeInv'
        BY <2>1, <3>1 DEF SymbolicInv, NativeInv, Evaluate
      <3>. QED BY <3>2, <3>3, <3>4, <3>5 DEF SymbolicInv
    <2>3. CASE t \in speculative
      <3>1. PICK c \in [Var -> Values] :
              /\ \A v \in Var : c[v] \in allowed[t][v] /\ (v > lastId => c[v] = 0)
              /\ concolics' = [concolics EXCEPT ![t] = c]
              /\ misranged' = misranged \ {t}
        BY <2>1, <2>3 DEF ResolveSpeculativeState
      <3>2. t # First
        BY <1>1, <2>3 DEF InputTypes
      <3>3. \A s \in State : concolics'[s] = IF s = t THEN c ELSE concolics[s]
        BY <1>1, <3>1 DEF InputTypes
      <3>4. InputTypes'
        <4>1. concolics' \in [State -> [Var -> Values]]
          BY <1>1, <3>1 DEF InputTypes
        <4>. QED BY <1>1, <2>1, <4>1 DEF InputTypes
      <3>5. VariablesInv'
        <4>1. c[0] = 0
          BY <1>1, <2>1, <3>1 DEF SymbolicInv, VariablesInv
        <4>. QED BY <2>1, <3>3, <4>1 DEF SymbolicInv, VariablesInv
      <3>6. InputsInv'
        <4>1. SUFFICES ASSUME NEW s \in live, s \notin speculative', s \notin misranged'
                       PROVE  HasInput(s)'
          BY <2>1 DEF InputsInv
        <4>2. CASE s = t
          <5>1. \A v \in Var : c[v] \in allowed[t][v]
            BY <3>1
          <5>. QED BY <2>1, <3>3, <4>2, <5>1 DEF HasInput, Feasible
        <4>3. CASE s # t
          <5>1. HasInput(s)
            BY <2>1, <3>1, <4>1, <4>3 DEF SymbolicInv, InputsInv
          <5>2. concolics'[s] = concolics[s]
            BY <1>1, <3>3, <4>3
          <5>. QED BY <2>1, <5>1, <5>2 DEF HasInput, Feasible
        <4>. QED BY <4>2, <4>3
      <3>7. DisjointInv'
        BY <2>1 DEF SymbolicInv, DisjointInv
      <3>8. NativeInv'
        <4>1. concolics'[First] = concolics[First]
          BY <1>1, <3>2, <3>3
        <4>. QED BY <2>1, <4>1 DEF SymbolicInv, NativeInv, Evaluate
      <3>. QED BY <3>4, <3>5, <3>6, <3>7, <3>8 DEF SymbolicInv
    <2>. QED BY <2>2, <2>3
  <1>4. CASE SelectInfeasible(t)
    <2>1. /\ t \in speculative
          /\ live' = live \ {t} /\ speculative' = speculative \ {t}
          /\ misranged' = misranged \ {t}
          /\ contents' = [contents EXCEPT ![t] = [l \in Location |-> Constant(0)]]
          /\ concolics' = [concolics EXCEPT ![t] = [v \in Var |-> 0]]
          /\ allowed' = [allowed EXCEPT ![t] = Unconstrained]
          /\ UNCHANGED <<concolicMode, current, lastId, native, lost>>
      BY <1>4 DEF SelectInfeasible
    <2>2. t # First /\ t # current
      BY <1>1, <2>1 DEF InputTypes
    <2>3. \A s \in State : s # t => /\ contents'[s] = contents[s] /\ concolics'[s] = concolics[s]
                                    /\ allowed'[s] = allowed[s]
      BY <1>1, <2>1 DEF InputTypes
    <2>4. concolics'[t] = [v \in Var |-> 0] /\ allowed'[t] = Unconstrained
      BY <1>1, <2>1 DEF InputTypes
    <2>5. 0 \in Values /\ Unconstrained \in [Var -> SUBSET Values] /\ Unconstrained[0] = {0}
      <3>1. 0 \in Values
        BY SymbolicInputsAssumption DEF Values
      <3>. QED BY <1>1, <3>1 DEF Unconstrained
    <2>6. InputTypes'
      <3>1. concolics' \in [State -> [Var -> Values]]
        BY <1>1, <2>1, <2>5 DEF InputTypes
      <3>2. allowed' \in [State -> [Var -> SUBSET Values]]
        BY <1>1, <2>1, <2>5 DEF InputTypes
      <3>3. contents' \in [State -> [Location -> [var : 0 .. lastId, plus : Values]]]
        <4>. DEFINE E == [var : 0 .. lastId, plus : Values]
        <4>1. contents \in [State -> [Location -> E]] /\ Constant(0) \in E
          BY <1>1, <2>5 DEF InputTypes, Constant
        <4>. HIDE DEF E
        <4>2. [l \in Location |-> Constant(0)] \in [Location -> E]
          BY <4>1
        <4>3. contents' \in [State -> [Location -> E]]
          BY <2>1, <4>1, <4>2
        <4>. QED BY <4>3 DEF E
      <3>. QED BY <1>1, <2>1, <2>2, <3>1, <3>2, <3>3 DEF InputTypes
    <2>7. VariablesInv'
      <3>1. ASSUME NEW s \in State PROVE allowed'[s][0] = {0} /\ concolics'[s][0] = 0
        BY <1>1, <2>3, <2>4, <2>5 DEF SymbolicInv, VariablesInv
      <3>2. ASSUME NEW s \in live', NEW v \in Var, v > lastId PROVE allowed'[s][v] = Values
        BY <1>1, <2>1, <2>3, <3>2 DEF SymbolicInv, VariablesInv
      <3>. QED BY <2>1, <3>1, <3>2 DEF VariablesInv
    <2>8. InputsInv'
      <3>1. SUFFICES ASSUME NEW s \in live', s \notin speculative', s \notin misranged'
                     PROVE  HasInput(s)'
        BY DEF InputsInv
      <3>2. s # t /\ HasInput(s) /\ s \in State
        BY <1>1, <2>1, <3>1 DEF SymbolicInv, InputsInv
      <3>. QED BY <2>1, <2>3, <3>2 DEF HasInput, Feasible
    <2>9. DisjointInv'
      <3>1. ASSUME NEW r \in live', NEW s \in live', r # s
            PROVE  \E v \in 1 .. lastId : allowed'[r][v] \cap allowed'[s][v] = {}
        <4>1. r \in live /\ s \in live /\ r # t /\ s # t
          BY <2>1
        <4>. QED BY <1>1, <2>3, <3>1, <4>1 DEF SymbolicInv, DisjointInv
      <3>. QED BY <2>1, <3>1 DEF DisjointInv
    <2>10. NativeInv'
      <3>1. contents'[First] = contents[First] /\ concolics'[First] = concolics[First]
        BY <1>1, <2>2, <2>3
      <3>. QED BY <2>1, <3>1 DEF SymbolicInv, NativeInv, Evaluate
    <2>. QED BY <2>6, <2>7, <2>8, <2>9, <2>10 DEF SymbolicInv
  <1>. QED BY <1>2, <1>3, <1>4

-----------------------------------------------------------------------------
(* The theorems *)

\* The invariant holds initially.
LEMMA SymbolicInit ==
  ASSUME InputsInit
  PROVE  SymbolicInv
  <1>1. 0 \in Values /\ First \in State /\ MaxVars \in Nat /\ 0 \in Var /\ Data \subseteq Values
    BY SymbolicInputsAssumption DEF Values, Var
  <1>2. Unconstrained \in [Var -> SUBSET Values] /\ Unconstrained[0] = {0}
        /\ \A v \in Var : v # 0 => Unconstrained[v] = Values
    BY <1>1 DEF Unconstrained
  <1>3. /\ live = {First} /\ current = First /\ speculative = {} /\ lastId = 0
        /\ lost = {} /\ concolicMode \in BOOLEAN
        /\ native \in [Location -> Values]
        /\ contents = [s \in State |-> [l \in Location |-> Constant(IF s = First THEN native[l] ELSE 0)]]
        /\ concolics = [s \in State |-> [v \in Var |-> 0]]
        /\ allowed = [s \in State |-> Unconstrained]
    <2>1. native \in [Location -> Data \cup {0}]
      BY DEF InputsInit
    <2>2. native \in [Location -> Values]
      BY <1>1, <2>1
    <2>. QED BY <2>2 DEF InputsInit
  <1>4. contents \in [State -> [Location -> [var : 0 .. 0, plus : Values]]]
    <2>. DEFINE E == [var : 0 .. 0, plus : Values]
    <2>1. \A n \in Values : Constant(n) \in E
      BY DEF Constant
    <2>2. \A s \in State, l \in Location : (IF s = First THEN native[l] ELSE 0) \in Values
      BY <1>1, <1>3
    <2>. HIDE DEF E
    <2>3. contents \in [State -> [Location -> E]]
      BY <1>3, <2>1, <2>2
    <2>. QED BY <2>3 DEF E
  <1>5. InputTypes
    <2>1. concolics \in [State -> [Var -> Values]] /\ allowed \in [State -> [Var -> SUBSET Values]]
      BY <1>1, <1>2, <1>3
    <2>2. lastId \in 0 .. MaxVars
      BY <1>1, <1>3
    <2>3. contents \in [State -> [Location -> [var : 0 .. lastId, plus : Values]]]
      BY <1>3, <1>4
    <2>. QED BY <1>1, <1>3, <2>1, <2>2, <2>3, Zenon DEF InputTypes
  <1>6. VariablesInv
    <2>1. \A v \in Var : v > 0 => v # 0
      BY DEF Var
    <2>. QED BY <1>1, <1>2, <1>3, <2>1 DEF VariablesInv
  <1>7. InputsInv
    <2>1. Feasible(First)
      BY <1>1, <1>2, <1>3, Zenon DEF Feasible
    <2>2. \A v \in Var : concolics[First][v] \in allowed[First][v]
      BY <1>1, <1>2, <1>3
    <2>. QED BY <1>3, <2>1, <2>2 DEF InputsInv, HasInput
  <1>8. DisjointInv
    BY <1>3 DEF DisjointInv
  <1>9. NativeInv
    <2>1. ASSUME NEW l \in Location PROVE Evaluate(First, contents[First][l]) = native[l]
      <3>1. contents[First][l] = Constant(native[l]) /\ native[l] \in Values
        BY <1>1, <1>3
      <3>. QED BY <1>1, <1>5, <1>6, <3>1, Expressions
    <2>. QED BY <2>1 DEF NativeInv
  <1>. QED BY <1>5, <1>6, <1>7, <1>8, <1>9 DEF SymbolicInv

\* Every step of the executor keeps the invariant.
LEMMA SymbolicStep ==
  ASSUME SymbolicInv, [InputsNext]_inputVars
  PROVE  SymbolicInv'
  <1>1. ASSUME NEW l \in Location, NEW range \in Ranges \cup {NoRange},
               WriteMemorySymb(l, range) \/ WriteRegisterSymb(l, range)
        PROVE  SymbolicInv'
    BY <1>1, InputsCreated
  <1>2. ASSUME NEW l \in Location, SetFlagSymb(l) \/ MakeSymbolic(l) PROVE SymbolicInv'
    BY <1>2, InputsCreated
  <1>3. ASSUME NEW l \in Location,
               \/ \E bit \in {0, 1} : SetFlag(l, bit)
               \/ \E n \in Data : WriteMemory(l, n) \/ WriteRegister(l, n)
               \/ Increment(l)
        PROVE  SymbolicInv'
    BY <1>3, LocationsWritten
  <1>4. ASSUME NEW l \in Location,
               \/ HandleGetValue(l) \/ ReadRamConcrete(l) \/ ReadRegisterConcrete(l)
               \/ ForkAndConcretize(l) \/ \E S \in Conditions : BranchOn(l, S)
        PROVE  SymbolicInv'
    BY <1>4, ValueGot, PathsConstrained DEF ReadRamConcrete, ReadRegisterConcrete
  <1>5. ASSUME SetForking \/ \E t \in State : SelectNextState(t) \/ SelectInfeasible(t)
        PROVE  SymbolicInv'
    <2>1. First \in State
      BY SymbolicInputsAssumption
    <2>. QED BY <1>5, <2>1, StatesSelected
  <1>6. CASE UNCHANGED inputVars
    <2>1. UNCHANGED <<concolicMode, live, current, speculative, contents, concolics, allowed, lastId,
                      native, lost, misranged>>
      BY <1>6 DEF inputVars, states, path, ghost
    <2>2. InputTypes'
      BY <2>1 DEF SymbolicInv, InputTypes
    <2>3. VariablesInv' /\ InputsInv' /\ DisjointInv' /\ NativeInv'
      BY <2>1 DEF SymbolicInv, VariablesInv, InputsInv, HasInput, Feasible, DisjointInv, NativeInv,
                  Evaluate
    <2>. QED BY <2>2, <2>3 DEF SymbolicInv
  <1>. QED BY <1>1, <1>2, <1>3, <1>4, <1>5, <1>6 DEF InputsNext

\* The invariant of paths and their inputs.
THEOREM SymbolicInvariant == InputsSpec => []SymbolicInv
  BY SymbolicInit, SymbolicStep, PTL DEF InputsSpec

\* Every path has inputs that lead down it, its own concolic values among them, and no
\* two paths share one: whatever is made symbolic, forked, concretized or speculated.
THEOREM PathsCorrect == InputsSpec => []PathsHaveInputs
  <1>1. SymbolicInv => PathsHaveInputs
    <2>. SUFFICES ASSUME SymbolicInv PROVE PathsHaveInputs
      OBVIOUS
    <2>1. lastId \in Nat /\ lastId <= MaxVars /\ 1 .. lastId \subseteq Var
      BY Variables DEF SymbolicInv
    <2>2. 0 .. lastId \subseteq Var
      BY <2>1, SymbolicInputsAssumption DEF Var
    <2>3. ASSUME NEW s \in live \ (speculative \cup misranged)
          PROVE  /\ Feasible(s)
                 /\ concolicMode => \A v \in 0 .. lastId : concolics[s][v] \in allowed[s][v]
      <3>1. HasInput(s)
        BY DEF SymbolicInv, InputsInv
      <3>. QED BY <2>2, <3>1 DEF HasInput
    <2>4. ASSUME NEW s \in live, NEW t \in live, s # t
          PROVE  \E v \in Var : allowed[s][v] \cap allowed[t][v] = {}
      BY <2>1, <2>4 DEF SymbolicInv, DisjointInv
    <2>. QED BY <2>3, <2>4 DEF PathsHaveInputs
  <1>. QED BY <1>1, SymbolicInvariant, PTL

\* On the first path, what memory and registers hold is what the machine would hold
\* that runs natively, until a value gets lost as it is made symbolic.
THEOREM FirstPathCorrect == InputsSpec => []FirstPathNative
  <1>1. SymbolicInv => FirstPathNative
    BY DEF SymbolicInv, NativeInv, FirstPathNative, ReadMemoryConcretized, ReadRegister,
           ToConstant, Location
  <1>. QED BY <1>1, SymbolicInvariant, PTL

=============================================================================
