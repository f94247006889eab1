--------------------------- MODULE UserDataProofs ---------------------------
(***************************************************************************)
(* Proofs about UserData, for any heap, wherever objects are allocated and *)
(* for any number of LuaUserData.                                                  *)
(*                                                                         *)
(* The type of base needs the count to be exact, since Release subtracts:  *)
(* the two are inductive together (Counted).  Linked says which values and *)
(* references a live LuaUserData has in each phase of the Lua state, and   *)
(* implies NothingPersists.  Owned says whose memory a live LuaUserData    *)
(* of a buffer or a channel refers to, also at an address where others     *)
(* were before, and implies BufferOwned for each step.                     *)
(***************************************************************************)
EXTENDS UserData, FiniteSetTheorems, TLAPS

Counted == TypeOK /\ CountExact

\* Sets of LuaUserData are finite, and so are their cardinalities.
LEMMA Finite ==
    ASSUME NEW S \in SUBSET UD
    PROVE  IsFiniteSet(S) /\ Cardinality(S) \in Nat
BY UDAssumption, FS_Subset, FS_CardinalityType

\* BaseUserData::LuaAquire for a new LuaUserData.
LEMMA NewCounted ==
    ASSUME Counted, NEW u \in UD, NEW a \in Addr, NEW c \in Class, NewUserData(u, a, c)
    PROVE  /\ Referring(a)' = Referring(a) \cup {u}
           /\ \A b \in Addr \ {a} : Referring(b)' = Referring(b)
           /\ base' \in [Addr -> Nat]
           /\ CountExact'
<1>1. ud[u] = "new" /\ ud' = [ud EXCEPT ![u] = "live"] /\ data' = [data EXCEPT ![u] = a]
  BY DEF NewUserData
<1>2. Referring(a)' = Referring(a) \cup {u} /\ u \notin Referring(a)
  BY <1>1 DEF Counted, TypeOK, Referring
<1>3. \A b \in Addr \ {a} : Referring(b)' = Referring(b)
  BY <1>1 DEF Counted, TypeOK, Referring
<1>4. base' = [base EXCEPT ![a] = @ + 1]
  BY DEF NewUserData, LuaAquire
<1>5. base' \in [Addr -> Nat]
  BY <1>4 DEF Counted, TypeOK
<1>6. IsFiniteSet(Referring(a))
  BY Finite DEF Referring
<1>7. Cardinality(Referring(a)') = Cardinality(Referring(a)) + 1
  BY <1>2, <1>6, FS_AddElement
<1>8. ASSUME NEW b \in Addr PROVE base'[b] = Cardinality(Referring(b)')
  BY <1>3, <1>4, <1>7 DEF Counted, CountExact, TypeOK
<1>9. QED
  BY <1>2, <1>3, <1>5, <1>8 DEF CountExact

\* BaseUserData::Release for each LuaUserData of S.
LEMMA ReleaseCounted ==
    ASSUME Counted, NEW S \in SUBSET UD, Release(S)
    PROVE  /\ \A b \in Addr : Referring(b)' = Referring(b) \ S
           /\ ud' \in [UD -> {"new", "live", "freed"}]
           /\ self' \in [UD -> BOOLEAN]
           /\ base' \in [Addr -> Nat]
           /\ CountExact'
<1>1. /\ ud' = [u \in UD |-> IF u \in S THEN "freed" ELSE ud[u]]
      /\ self' = [u \in UD |-> self[u] /\ u \notin S]
      /\ base' = [a \in Addr |-> base[a] - Cardinality(S \cap Referring(a))]
      /\ data' = data
  BY DEF Release
<1>2. ASSUME NEW b \in Addr PROVE Referring(b)' = Referring(b) \ S
  BY <1>1 DEF Referring
<1>3. ASSUME NEW b \in Addr
      PROVE  /\ base'[b] = Cardinality(Referring(b)')
             /\ base'[b] \in Nat
  <2>1. Referring(b) \in SUBSET UD
    BY DEF Referring
  <2>2. Cardinality(Referring(b) \ S) = Cardinality(Referring(b)) - Cardinality(Referring(b) \cap S)
    BY <2>1, Finite, FS_Difference
  <2>3. Referring(b) \cap S = S \cap Referring(b)
    OBVIOUS
  <2>4. base'[b] = Cardinality(Referring(b) \ S)
    BY <1>1, <2>2, <2>3 DEF Counted, CountExact
  <2>5. Cardinality(Referring(b) \ S) \in Nat
    BY <2>1, Finite
  <2>6. QED
    BY <1>2, <2>4, <2>5
<1>4. QED
  BY <1>1, <1>2, <1>3 DEF Counted, TypeOK, CountExact

-----------------------------------------------------------------------------
\* The steps, one by one.
LEMMA NextCases ==
    ASSUME Next, NEW P,
           \A u \in UD, a \in Addr, c \in Class : Create(c, a, u) => P,
           \A u \in UD, a \in Addr : Push(a, u) => P,
           \A u \in UD : Collect(u) => P,
           \A u \in UD : DestroyChannel(u) => P,
           \A a \in Addr : Make(a) => P,
           \A a \in Addr : Delete(a) => P,
           Open => P, Close => P,
           \A S \in SUBSET {a \in Addr : heap[a] = "held"} : Shutdown(S) => P
    PROVE  P
BY DEF Next

\* The counts stay exact, and the variables keep their types.
LEMMA StepCounted ==
    ASSUME Counted, [Next]_vars
    PROVE  Counted'
<1>1. CASE UNCHANGED vars
  BY <1>1 DEF Counted, TypeOK, CountExact, Referring, vars
<1>2. CASE Next
  <2>1. ASSUME NEW u \in UD, NEW a \in Addr, NEW c \in Class, Create(c, a, u) PROVE Counted'
    <3>1. NewUserData(u, a, c) /\ heap' = [heap EXCEPT ![a] = c] /\ UNCHANGED <<state, fault>>
      BY <2>1 DEF Create
    <3>2. base' \in [Addr -> Nat] /\ CountExact'
      BY <3>1, NewCounted
    <3>3. QED
      BY <3>1, <3>2 DEF Counted, TypeOK, NewUserData, Class
  <2>2. ASSUME NEW u \in UD, NEW a \in Addr, Push(a, u) PROVE Counted'
    <3>1. NewUserData(u, a, "held") /\ UNCHANGED <<heap, state, fault>>
      BY <2>2 DEF Push
    <3>2. "held" \in Class
      BY DEF Class
    <3>3. base' \in [Addr -> Nat] /\ CountExact'
      BY <3>1, <3>2, NewCounted
    <3>4. QED
      BY <3>1, <3>2, <3>3 DEF Counted, TypeOK, NewUserData
  <2>3. ASSUME NEW u \in UD, Collect(u) PROVE Counted'
    <3>1. value' = [value EXCEPT ![u] = "none"] /\ state' = state
      BY <2>3 DEF Collect
    <3>2. CASE Finalize(u)
      <4>1. ud[u] = "live" /\ Release({u}) /\ {u} \in SUBSET UD
        BY <3>2 DEF Finalize
      <4>2. heap' \in [Addr -> Class \cup {"free"}] /\ fault' \in BOOLEAN
        BY <3>2 DEF Finalize, Counted, TypeOK
      <4>3. data' = data /\ class' = class
        BY <4>1 DEF Release
      <4>4. QED
        BY <3>1, <4>1, <4>2, <4>3, ReleaseCounted DEF Counted, TypeOK
    <3>3. CASE UNCHANGED <<heap, base, ud, data, class, self>> /\ (fault' = TRUE \/ fault' = fault)
      BY <3>1, <3>3 DEF Counted, TypeOK, CountExact, Referring
    <3>4. QED
      BY <2>3, <3>2, <3>3 DEF Collect
  <2>4. ASSUME NEW u \in UD, DestroyChannel(u) PROVE Counted'
    <3>1. CASE ud[u] = "live"
      <4>1. Release({u}) /\ {u} \in SUBSET UD
        BY <2>4, <3>1 DEF DestroyChannel
      <4>2. /\ heap' = [heap EXCEPT ![data[u]] = "free"]
            /\ value' = Cleared({u}) /\ UNCHANGED <<state, fault>>
        BY <2>4, <3>1 DEF DestroyChannel
      <4>3. data' = data /\ class' = class
        BY <4>1 DEF Release
      <4>4. QED
        BY <4>1, <4>2, <4>3, ReleaseCounted DEF Counted, TypeOK, Cleared
    <3>2. CASE ud[u] # "live"
      BY <2>4, <3>2 DEF DestroyChannel, Counted, TypeOK, CountExact, Referring
    <3>3. QED
      BY <3>1, <3>2
  <2>5. ASSUME NEW a \in Addr, Make(a) PROVE Counted'
    BY <2>5 DEF Make, Counted, TypeOK, CountExact, Referring, Class
  <2>6. ASSUME NEW a \in Addr, Delete(a) PROVE Counted'
    <3>1. PICK S \in SUBSET UD : Release(S) /\ value' = Cleared(S)
      BY <2>6 DEF Delete, Referring
    <3>2. heap' = [heap EXCEPT ![a] = "free"] /\ UNCHANGED <<state, fault>>
      BY <2>6 DEF Delete
    <3>3. data' = data /\ class' = class
      BY <3>1 DEF Release
    <3>4. QED
      BY <3>1, <3>2, <3>3, ReleaseCounted DEF Counted, TypeOK, Cleared
  <2>7. CASE Open
    BY <2>7 DEF Open, Counted, TypeOK, CountExact, Referring
  <2>8. CASE Close
    BY <2>8 DEF Close, Counted, TypeOK, CountExact, Referring
  <2>9. ASSUME NEW Servers \in SUBSET {a \in Addr : heap[a] = "held"}, Shutdown(Servers)
        PROVE Counted'
    <3>1. PICK S \in SUBSET UD : Release(S) /\ value' = Cleared(S)
      BY <2>9 DEF Shutdown, Discarded, PushedUserData
    <3>2. /\ heap' = [a \in Addr |-> IF a \in Servers THEN "free" ELSE heap[a]]
          /\ state' = "closing" /\ fault' = fault
      BY <2>9 DEF Shutdown
    <3>3. data' = data /\ class' = class
      BY <3>1 DEF Release
    <3>4. QED
      BY <3>1, <3>2, <3>3, ReleaseCounted DEF Counted, TypeOK, Cleared
  <2>10. QED
    BY ONLY <1>2, <2>1, <2>2, <2>3, <2>4, <2>5, <2>6, <2>7, <2>8, <2>9, NextCases
<1>3. QED
  BY <1>1, <1>2

LEMMA InitCounted == Init => Counted
<1> SUFFICES ASSUME Init PROVE Counted
  OBVIOUS
<1>2. TypeOK
  BY DEF Init, TypeOK, Class
<1>3. ASSUME NEW a \in Addr PROVE base[a] = Cardinality(Referring(a))
  <2>1. Referring(a) = {}
    BY DEF Init, Referring
  <2>2. QED
    BY <2>1, FS_EmptySet DEF Init
<1>4. QED
  BY <1>2, <1>3 DEF Counted, CountExact

LEMMA AlwaysCounted == Spec => []Counted
<1>1. QED
  BY InitCounted, StepCounted, PTL DEF Spec

\* Every variable of UserData keeps its type: no m_iReferenceCount wraps
\* around below zero.
THEOREM TypeCorrect == Spec => []TypeOK
<1>1. Counted => TypeOK
  BY DEF Counted
<1>2. QED
  BY <1>1, AlwaysCounted, PTL

\* Each m_iReferenceCount is the number of LuaUserData that refer to it,
\* wherever the allocator places objects.
THEOREM CountsAreExact == Spec => []CountExact
<1>1. Counted => CountExact
  BY DEF Counted
<1>2. QED
  BY <1>1, AlwaysCounted, PTL

-----------------------------------------------------------------------------
\* What the values, the references and the phases of the Lua state have to do
\* with each other.  A LuaUserData that is held keeps its value from being
\* collected until the state is closing.
Linked ==
    /\ TypeOK
    /\ ValuesPaired
    /\ \A u \in UD :
        /\ self[u] => ud[u] = "live"
        /\ ud[u] = "live" => value[u] = "pointer" /\ (self[u] <=> class[u] = "held")
        /\ ud[u] = "new" => value[u] = "none"
        /\ state # "open" => ~self[u]
        /\ state = "closed" => value[u] = "none"

LEMMA NewLinked ==
    ASSUME Linked, TypeOK', NEW u \in UD, NEW a \in Addr, NEW c \in Class,
           NewUserData(u, a, c), state = "open", state' = "open"
    PROVE  Linked'
<1>1. /\ ud' = [ud EXCEPT ![u] = "live"] /\ class' = [class EXCEPT ![u] = c]
      /\ value' = [value EXCEPT ![u] = "pointer"]
  BY DEF NewUserData
<1>2. self' = [self EXCEPT ![u] = (c = "held")]
  BY DEF NewUserData
<1>3. self'[u] <=> c = "held"
  BY <1>2 DEF Linked, TypeOK
<1>4. \A v \in UD \ {u} : self'[v] = self[v]
  BY <1>2 DEF Linked, TypeOK
<1>5. ASSUME NEW v \in UD
      PROVE  /\ (class[v] # "channel" => (ud[v] = "live" <=> value[v] = "pointer"))'
             /\ (self[v] => ud[v] = "live")'
             /\ (ud[v] = "live" => value[v] = "pointer" /\ (self[v] <=> class[v] = "held"))'
             /\ (ud[v] = "new" => value[v] = "none")'
  BY <1>1, <1>3, <1>4 DEF Linked, ValuesPaired, TypeOK
<1>6. QED
  BY <1>5 DEF Linked, ValuesPaired

LEMMA StepLinked ==
    ASSUME Linked, [Next]_vars, TypeOK'
    PROVE  Linked'
<1> USE DEF Linked, ValuesPaired
<1>1. CASE UNCHANGED vars
  BY <1>1 DEF vars
<1>2. CASE Next
  <2>1. ASSUME NEW u \in UD, NEW a \in Addr, NEW c \in Class, Create(c, a, u) PROVE Linked'
    BY <2>1, NewLinked DEF Create
  <2>2. ASSUME NEW u \in UD, NEW a \in Addr, Push(a, u) PROVE Linked'
    BY <2>2, NewLinked DEF Push, Class
  <2>3. ASSUME NEW u \in UD, Collect(u) PROVE Linked'
    <3>1. ~self[u] /\ value[u] # "none" /\ state' = state /\ value' = [value EXCEPT ![u] = "none"]
      BY <2>3 DEF Collect
    <3>2. CASE Finalize(u)
      BY <3>1, <3>2 DEF Finalize, Release, TypeOK
    <3>3. CASE UNCHANGED <<ud, class, self>> /\ (ud[u] = "freed" \/ value[u] = "null")
      BY <3>1, <3>3 DEF TypeOK
    <3>4. QED
      BY <2>3, <3>2, <3>3 DEF Collect
  <2>4. ASSUME NEW u \in UD, DestroyChannel(u) PROVE Linked'
    BY <2>4 DEF DestroyChannel, Release, Cleared, TypeOK
  <2>5. ASSUME NEW a \in Addr, Make(a) PROVE Linked'
    BY <2>5 DEF Make
  <2>6. ASSUME NEW a \in Addr, Delete(a) PROVE Linked'
    BY <2>6 DEF Delete, PushedUserData, Release, Cleared, TypeOK
  <2>7. CASE Open
    BY <2>7 DEF Open
  <2>8. CASE Close
    BY <2>8 DEF Close
  <2>9. ASSUME NEW Servers \in SUBSET {a \in Addr : heap[a] = "held"}, Shutdown(Servers)
        PROVE Linked'
    BY <2>9 DEF Shutdown, Discarded, PushedUserData, Release, Cleared, TypeOK
  <2>10. QED
    BY ONLY <1>2, <2>1, <2>2, <2>3, <2>4, <2>5, <2>6, <2>7, <2>8, <2>9, NextCases
<1>3. QED
  BY <1>1, <1>2

LEMMA AlwaysLinked == Spec => []Linked
<1>1. Init => Linked
  BY InitCounted DEF Init, Linked, Counted, ValuesPaired
<1>2. Linked /\ [Next]_vars /\ TypeOK' => Linked'
  BY StepLinked
<1>3. QED
  BY <1>1, <1>2, TypeCorrect, PTL DEF Spec

\* A value of a buffer or of a held object never points to a freed
\* LuaUserData, and no such LuaUserData is leaked.
THEOREM ValuesArePaired == Spec => []ValuesPaired
<1>1. Linked => ValuesPaired
  BY DEF Linked
<1>2. QED
  BY <1>1, AlwaysLinked, PTL

\* When a Lua state is closed, every LuaUserData made for it is gone, and
\* g_pGlobalLuaUserData is empty.
THEOREM NothingSurvives == Spec => []NothingPersists
<1>1. ASSUME Linked, CountExact PROVE NothingPersists
  <2>1. ASSUME state = "closed", NEW u \in UD PROVE ud[u] # "live"
    BY <1>1, <2>1 DEF Linked
  <2>2. ASSUME state = "closed", NEW a \in Addr PROVE base[a] = 0
    <3>1. Referring(a) = {}
      BY <2>1, <2>2 DEF Referring
    <3>2. QED
      BY <1>1, <3>1, FS_EmptySet DEF CountExact
  <2>3. QED
    BY <2>1, <2>2 DEF NothingPersists
<1>2. QED
  BY <1>1, AlwaysLinked, CountsAreExact, PTL

-----------------------------------------------------------------------------
Live(u) == ud[u] = "live"

\* The object of a buffer or a channel is there as long as its LuaUserData, and
\* no two of these share one.  The object of a held one may be gone, and another
\* be at its address.
Owned ==
    /\ Linked
    /\ \A u \in UD : Live(u) => /\ data[u] \in Addr
                                /\ class[u] # "held" => heap[data[u]] = class[u]
    /\ \A u, v \in UD :
          Live(u) /\ Live(v) /\ class[u] # "held" /\ class[v] # "held" /\ data[u] = data[v] => u = v

\* The steps that bring a LuaUserData for an address that is free or a held object's.
LEMMA NewOwned ==
    ASSUME Owned, Linked', NEW u \in UD, NEW a \in Addr, NEW c \in Class, NewUserData(u, a, c),
           c = "held" => heap' = heap,
           c # "held" => heap[a] = "free" /\ heap' = [heap EXCEPT ![a] = c]
    PROVE  Owned'
<1>t. TypeOK /\ TypeOK'
  BY DEF Owned, Linked
<1>1. /\ ~Live(u) /\ ud' = [ud EXCEPT ![u] = "live"]
      /\ data' = [data EXCEPT ![u] = a] /\ class' = [class EXCEPT ![u] = c]
  BY DEF NewUserData, Live
<1>2. /\ Live(u)' /\ data'[u] = a /\ class'[u] = c
      /\ \A v \in UD \ {u} : (Live(v)' <=> Live(v)) /\ data'[v] = data[v] /\ class'[v] = class[v]
  BY <1>1, <1>t DEF TypeOK, Live
<1>3. c # "held" => heap'[a] = c /\ \A v \in UD : Live(v) /\ class[v] # "held" => data[v] # a
  <2>1. \A v \in UD : class[v] # "free"
    BY <1>t DEF TypeOK, Class
  <2>2. QED
    BY <2>1, <1>t DEF Owned, TypeOK
<1>4. \A b \in Addr \ {a} : heap'[b] = heap[b]
  BY <1>t DEF TypeOK
<1>5. ASSUME NEW v \in UD, Live(v)'
      PROVE  data'[v] \in Addr /\ (class'[v] # "held" => heap'[data'[v]] = class'[v])
  <2>1. CASE v = u
    BY <1>2, <1>3, <2>1
  <2>2. CASE v # u
    <3>1. Live(v) /\ data'[v] = data[v] /\ class'[v] = class[v] /\ data[v] \in Addr
      BY <1>2, <1>5, <2>2 DEF Owned
    <3>2. class[v] # "held" => heap[data[v]] = class[v]
      BY <3>1 DEF Owned
    <3>3. CASE c = "held"
      BY <3>1, <3>2, <3>3
    <3>4. CASE c # "held"
      BY <1>3, <1>4, <3>1, <3>2, <3>4
    <3>5. QED
      BY <3>3, <3>4
  <2>3. QED
    BY <2>1, <2>2
<1>6. ASSUME NEW v \in UD, NEW w \in UD, Live(v)', Live(w)',
             class'[v] # "held", class'[w] # "held", data'[v] = data'[w]
      PROVE  v = w
  BY <1>2, <1>3, <1>6 DEF Owned
<1>7. QED
  BY <1>5, <1>6 DEF Owned

\* A value that can be collected or destroyed frees no object but its own.
LEMMA OthersKept ==
    ASSUME Owned, NEW u \in UD, Live(u), class[u] # "held",
           heap' = heap \/ heap' = [heap EXCEPT ![data[u]] = "free"],
           NEW v \in UD \ {u}, Live(v), class[v] # "held"
    PROVE  heap'[data[v]] = heap[data[v]]
BY DEF Owned, Linked, TypeOK

LEMMA StepOwned ==
    ASSUME Owned, [Next]_vars, Linked'
    PROVE  Owned'
<1>t. TypeOK /\ TypeOK'
  BY DEF Owned, Linked
<1>u. ASSUME UNCHANGED <<data, class>>, \A v \in UD : Live(v)' => Live(v),
             \A v \in UD : Live(v)' /\ class[v] # "held" => heap'[data[v]] = heap[data[v]]
      PROVE  Owned'
  BY <1>u DEF Owned
<1>1. CASE UNCHANGED vars
  BY <1>1, <1>u DEF vars, Live
<1>2. CASE Next
  <2>1. ASSUME NEW u \in UD, NEW a \in Addr, NEW c \in Class, Create(c, a, u) PROVE Owned'
    BY <2>1, NewOwned DEF Create
  <2>2. ASSUME NEW u \in UD, NEW a \in Addr, Push(a, u) PROVE Owned'
    <3>1. "held" \in Class
      BY DEF Class
    <3>2. QED
      BY <2>2, <3>1, NewOwned DEF Push
  <2>3. ASSUME NEW u \in UD, Collect(u) PROVE Owned'
    <3>1. CASE Finalize(u)
      <4>1. Live(u) /\ class[u] # "held" /\ Release({u})
        BY <2>3, <3>1 DEF Collect, Finalize, Owned, Linked, Live
      <4>2. heap' = heap \/ heap' = [heap EXCEPT ![data[u]] = "free"]
        BY <3>1 DEF Finalize
      <4>3. UNCHANGED <<data, class>> /\ \A v \in UD : Live(v)' => Live(v) /\ v # u
        BY <4>1, <1>t DEF Release, Live, TypeOK
      <4>4. QED
        BY <4>1, <4>2, <4>3, <1>u, OthersKept
    <3>2. CASE UNCHANGED <<heap, ud, data, class>>
      BY <3>2, <1>u DEF Live
    <3>3. QED
      BY <2>3, <3>1, <3>2 DEF Collect
  <2>4. ASSUME NEW u \in UD, DestroyChannel(u) PROVE Owned'
    <3>1. CASE ud[u] = "live"
      <4>1. Live(u) /\ class[u] # "held" /\ Release({u}) /\ heap' = [heap EXCEPT ![data[u]] = "free"]
        BY <2>4, <3>1 DEF DestroyChannel, Live
      <4>2. UNCHANGED <<data, class>> /\ \A v \in UD : Live(v)' => Live(v) /\ v # u
        BY <4>1, <1>t DEF Release, Live, TypeOK
      <4>3. QED
        BY <4>1, <4>2, <1>u, OthersKept
    <3>2. CASE ud[u] # "live"
      BY <2>4, <3>2, <1>u DEF DestroyChannel, Live
    <3>3. QED
      BY <3>1, <3>2
  <2>5. ASSUME NEW a \in Addr, Make(a) PROVE Owned'
    <3>1. heap[a] = "free" /\ heap' = [heap EXCEPT ![a] = "held"] /\ UNCHANGED <<ud, data, class>>
      BY <2>5 DEF Make
    <3>2. \A v \in UD : Live(v) /\ class[v] # "held" => data[v] # a
      BY <3>1, <1>t DEF Owned, TypeOK, Class
    <3>3. \A v \in UD : Live(v)' /\ class[v] # "held" => heap'[data[v]] = heap[data[v]]
      BY <3>1, <3>2, <1>t DEF Owned, TypeOK, Live
    <3>4. QED
      BY <3>1, <3>3, <1>u DEF Live
  <2>6. ASSUME NEW a \in Addr, Delete(a) PROVE Owned'
    <3>1. /\ heap[a] = "held" /\ heap' = [heap EXCEPT ![a] = "free"]
          /\ UNCHANGED <<ud, data, class>>
      BY <2>6, <1>t DEF Delete, PushedUserData, Release, TypeOK
    <3>2. \A v \in UD : Live(v)' /\ class[v] # "held" => heap'[data[v]] = heap[data[v]]
      BY <3>1, <1>t DEF Owned, TypeOK, Live
    <3>3. QED
      BY <3>1, <3>2, <1>u DEF Live
  <2>7. CASE Open \/ Close
    BY <2>7, <1>u DEF Open, Close, Live
  <2>8. ASSUME NEW Servers \in SUBSET {a \in Addr : heap[a] = "held"}, Shutdown(Servers)
        PROVE Owned'
    <3>1. /\ heap' = [a \in Addr |-> IF a \in Servers THEN "free" ELSE heap[a]]
          /\ UNCHANGED <<data, class>>
          /\ \A v \in UD : Live(v)' => Live(v)
      BY <2>8, <1>t DEF Shutdown, Release, Live, TypeOK
    <3>2. \A v \in UD : Live(v)' /\ class[v] # "held" => heap'[data[v]] = heap[data[v]]
      BY <3>1, <1>t DEF Owned, TypeOK
    <3>3. QED
      BY <3>1, <3>2, <1>u
  <2>9. QED
    BY ONLY <1>2, <2>1, <2>2, <2>3, <2>4, <2>5, <2>6, <2>7, <2>8, NextCases
<1>3. QED
  BY <1>1, <1>2

\* What one step does to the buffer of a live LuaUserData.
LEMMA StepBuffer ==
    ASSUME Owned, CountExact, Next, NEW u \in UD, Live(u), class[u] = "buffer"
    PROVE  heap'[data[u]] = IF ud'[u] = "freed" /\ Referring(data[u]) = {u} THEN "free" ELSE "buffer"
<1> DEFINE P == heap'[data[u]] = IF ud'[u] = "freed" /\ Referring(data[u]) = {u}
                                 THEN "free" ELSE "buffer"
<1>t. TypeOK
  BY DEF Owned, Linked
<1>b. data[u] \in Addr /\ heap[data[u]] = "buffer" /\ ud[u] = "live" /\ ~self[u]
  BY DEF Owned, Linked, Live
\* Most steps leave the buffer and its LuaUserData alone.
<1>k. ASSUME heap'[data[u]] = heap[data[u]], ud'[u] = ud[u] PROVE P
  BY <1>k, <1>b
<1>1. ASSUME NEW w \in UD, NEW a \in Addr, NEW c \in Class, Create(c, a, w) PROVE P
  <2>1. heap[a] = "free" /\ heap' = [heap EXCEPT ![a] = c] /\ ud[w] = "new" /\ ud' = [ud EXCEPT ![w] = "live"]
    BY <1>1 DEF Create, NewUserData
  <2>2. QED
    BY <2>1, <1>b, <1>k, <1>t DEF TypeOK
<1>2. ASSUME NEW w \in UD, NEW a \in Addr, Push(a, w) PROVE P
  <2>1. heap' = heap /\ ud[w] = "new" /\ ud' = [ud EXCEPT ![w] = "live"]
    BY <1>2 DEF Push, NewUserData
  <2>2. QED
    BY <2>1, <1>b, <1>k, <1>t DEF TypeOK
<1>3. ASSUME NEW w \in UD, Collect(w) PROVE P
  <2>1. CASE Finalize(w) /\ w = u
    <3>1. ud'[u] = "freed"
      BY <2>1 DEF Finalize, Release
    <3>2. heap' = IF LastReference(u) THEN [heap EXCEPT ![data[u]] = "free"] ELSE heap
      BY <2>1 DEF Finalize
    <3>3. LastReference(u) <=> Referring(data[u]) = {u}
      <4>1. u \in Referring(data[u]) /\ IsFiniteSet(Referring(data[u]))
        BY <1>b, Finite DEF Referring
      <4>2. Cardinality(Referring(data[u])) = 1 <=> \E x : Referring(data[u]) = {x}
        BY <4>1, FS_Singleton
      <4>3. QED
        BY <1>b, <4>1, <4>2 DEF LastReference, CountExact
    <3>4. QED
      BY <3>1, <3>2, <3>3, <1>b, <1>t DEF TypeOK
  <2>2. CASE Finalize(w) /\ w # u
    <3>1. Live(w) /\ class[w] # "held" /\ Release({w})
      BY <1>3, <2>2 DEF Collect, Finalize, Owned, Linked, Live
    <3>2. heap' = heap \/ heap' = [heap EXCEPT ![data[w]] = "free"]
      BY <2>2 DEF Finalize
    <3>3. ud'[u] = ud[u]
      BY <3>1, <2>2 DEF Release
    <3>4. QED
      BY <3>1, <3>2, <3>3, <2>2, <1>k, OthersKept
  <2>3. CASE UNCHANGED <<heap, ud>>
    BY <2>3, <1>k
  <2>4. QED
    BY <1>3, <2>1, <2>2, <2>3 DEF Collect
<1>4. ASSUME NEW w \in UD, DestroyChannel(w) PROVE P
  <2>1. CASE ud[w] = "live"
    <3>1. Live(w) /\ class[w] # "held" /\ w # u /\ Release({w})
      BY <1>4, <2>1 DEF DestroyChannel, Live
    <3>2. heap' = [heap EXCEPT ![data[w]] = "free"]
      BY <1>4, <2>1 DEF DestroyChannel
    <3>3. ud'[u] = ud[u]
      BY <3>1 DEF Release
    <3>4. QED
      BY <3>1, <3>2, <3>3, <1>k, OthersKept
  <2>2. CASE ud[w] # "live"
    BY <1>4, <2>2, <1>k DEF DestroyChannel
  <2>3. QED
    BY <2>1, <2>2
<1>5. ASSUME NEW a \in Addr, Make(a) PROVE P
  BY <1>5, <1>b, <1>k, <1>t DEF Make, TypeOK
<1>6. ASSUME NEW a \in Addr, Delete(a) PROVE P
  BY <1>6, <1>b, <1>k, <1>t DEF Delete, PushedUserData, Release, TypeOK
<1>7. CASE Open
  BY <1>7, <1>k DEF Open
<1>8. CASE Close
  BY <1>8, <1>k DEF Close
<1>9. ASSUME NEW Servers \in SUBSET {a \in Addr : heap[a] = "held"}, Shutdown(Servers) PROVE P
  BY <1>9, <1>b, <1>k, <1>t DEF Shutdown, Discarded, PushedUserData, Release, TypeOK
<1>10. P
  BY ONLY Next, <1>1, <1>2, <1>3, <1>4, <1>5, <1>6, <1>7, <1>8, <1>9, NextCases
<1>11. QED
  BY <1>10

\* Wherever the allocator places objects, a buffer lives as long as its value and
\* goes with it, or is leaked because a held object was at its address before.
THEOREM BuffersAreOwned == Spec => BufferOwned
<1>1. Init /\ Linked => Owned
  BY DEF Init, Owned, Live
<1>2. Owned /\ [Next]_vars /\ Linked' => Owned'
  BY StepOwned
<1>3. Spec => []Owned
  BY <1>1, <1>2, AlwaysLinked, PTL DEF Spec
<1>4. ASSUME Owned, CountExact, [Next]_vars
      PROVE  [\A u \in UD : ud[u] = "live" /\ class[u] = "buffer" =>
                 LET a == data[u] IN
                 /\ heap[a] = "buffer"
                 /\ \A v \in Referring(a) \ {u} : class[v] = "held"
                 /\ heap'[a] = IF ud'[u] = "freed" /\ Referring(a) = {u}
                               THEN "free" ELSE "buffer"]_vars
  <2>1. SUFFICES ASSUME Next, NEW u \in UD, Live(u), class[u] = "buffer"
                 PROVE  /\ heap[data[u]] = "buffer"
                        /\ \A v \in Referring(data[u]) \ {u} : class[v] = "held"
                        /\ heap'[data[u]] = IF ud'[u] = "freed" /\ Referring(data[u]) = {u}
                                            THEN "free" ELSE "buffer"
    BY <1>4 DEF Live
  <2>2. heap[data[u]] = "buffer"
    BY <1>4, <2>1 DEF Owned
  <2>3. \A v \in Referring(data[u]) \ {u} : class[v] = "held"
    BY <1>4, <2>1 DEF Owned, Referring, Live
  <2>4. QED
    BY <1>4, <2>1, <2>2, <2>3, StepBuffer
<1>5. QED
  BY <1>3, <1>4, CountsAreExact, PTL DEF Spec, BufferOwned
=============================================================================
