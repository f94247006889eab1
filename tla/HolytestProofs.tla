--------------------------- MODULE HolytestProofs ---------------------------
(***************************************************************************)
(* Proofs about Holytest, for any events, listeners and buffers and any    *)
(* sizes.                                                                  *)
(*                                                                         *)
(* Of the lists of listeners it takes that no listener is twice in one, so *)
(* that removing the first entry removes the listener.  Of the buffers it  *)
(* takes what a writer holds up to its place: nothing but what was written *)
(* (Holds).                                                                *)
(***************************************************************************)
EXTENDS Holytest, TLAPS

\* No listener is twice in a list.
Once(list) == \A i, j \in DOMAIN list : list[i] = list[j] => i = j

\* ListenersExact of one listener and one event.
Exact(l, e) ==
    /\ Hears(l, e) => e \in wanted[l]
    /\ e \in wanted[l] => Hears(l, e) \/ (e = VoteCast /\ (l = LuaListener \/ early))

ListsInv ==
    /\ \A e \in Event : Once(listeners[e])
    /\ enabled /\ open => recognised # NoListener
    /\ ~early => recognised \in {NoListener, LuaListener}
    /\ \A l \in Listener, e \in Event : ~early \/ l \in ClientSide => Exact(l, e)

\* What a reader and a writer hold.
Holds(b) ==
    /\ b.kind = "read" /\ ~b.moved =>
         /\ Len(b.text) <= Len(b.data)
         /\ \A i \in 1..Len(b.data) : b.data[i] = IF i <= Len(b.text) THEN b.text[i] ELSE Junk
    /\ b.kind = "write" /\ ~b.moved =>
         /\ b.cur = Len(b.text)
         /\ \A i \in 1..b.cur : b.data[i] = b.text[i]

BuffersInv == ~long => ~overrun /\ \A b \in Buf : Holds(bufs[b])

IInv == ListsInv /\ BuffersInv

-----------------------------------------------------------------------------
(* Operators on sequences. *)

\* RemoveAt closes the gap.
LEMMA RemoveAtIs ==
  ASSUME NEW S, NEW s \in Seq(S), NEW k \in 1..Len(s)
  PROVE  /\ RemoveAt(s, k) \in Seq(S)
         /\ Len(RemoveAt(s, k)) = Len(s) - 1
         /\ \A i \in 1..Len(s) - 1 : RemoveAt(s, k)[i] = IF i < k THEN s[i] ELSE s[i + 1]
<1>1. DEFINE a == SubSeq(s, 1, k - 1)
             b == SubSeq(s, k + 1, Len(s))
<1>2. RemoveAt(s, k) = a \o b
  BY DEF RemoveAt
<1>3. a \in Seq(S) /\ Len(a) = k - 1 /\ \A i \in 1..k - 1 : a[i] = s[i]
  OBVIOUS
<1>4. b \in Seq(S) /\ Len(b) = Len(s) - k /\ \A i \in 1..Len(s) - k : b[i] = s[i + k]
  OBVIOUS
<1> HIDE DEF a, b
<1>5. k \in Nat /\ Len(s) \in Nat /\ k >= 1 /\ k <= Len(s)
  OBVIOUS
<1>6. /\ a \o b \in Seq(S) /\ Len(a \o b) = Len(a) + Len(b)
      /\ \A i \in 1..Len(a) + Len(b) : (a \o b)[i] = IF i <= Len(a) THEN a[i] ELSE b[i - Len(a)]
  <2>1. a \in Seq(S) /\ b \in Seq(S)
    BY <1>3, <1>4
  <2>2. QED
    BY <2>1
<1>7. ASSUME NEW i \in 1..Len(s) - 1
      PROVE  (a \o b)[i] = IF i < k THEN s[i] ELSE s[i + 1]
  <2>1. (a \o b)[i] = IF i <= k - 1 THEN a[i] ELSE b[i - (k - 1)]
    BY <1>3, <1>4, <1>5, <1>6
  <2>2. CASE i < k
    BY <1>3, <1>5, <2>1, <2>2
  <2>3. CASE ~(i < k)
    <3>1. i - (k - 1) \in 1..Len(s) - k /\ (i - (k - 1)) + k = i + 1 /\ ~(i <= k - 1)
      BY <1>5, <2>3
    <3>2. b[i - (k - 1)] = s[i + 1]
      BY <1>4, <3>1
    <3>3. QED
      BY <2>1, <2>3, <3>1, <3>2
  <2>4. QED
    BY <2>2, <2>3
<1>8. Len(a \o b) = Len(s) - 1
  BY <1>3, <1>4, <1>5, <1>6
<1>9. QED
  BY <1>2, <1>6, <1>7, <1>8

LEMMA IsPrefixIs ==
  ASSUME NEW S, NEW s \in Seq(S), NEW t \in Seq(S), Len(s) <= Len(t),
         \A i \in 1..Len(s) : s[i] = t[i]
  PROVE  IsPrefix(s, t)
<1>1. SubSeq(s, 1, Len(s)) = SubSeq(t, 1, Len(s))
  OBVIOUS
<1>2. QED
  BY <1>1 DEF IsPrefix

LEMMA SeqOfIs ==
  ASSUME NEW S, NEW n \in Nat, NEW t \in SeqOf(S, n)
  PROVE  t \in Seq(S)
BY DEF SeqOf

\* Without takes one listener out of a list that has none twice.
LEMMA WithoutIs ==
  ASSUME NEW L, NEW list \in Seq(L), Once(list), NEW S, NEW y, S \subseteq {y}
  PROVE  /\ Without(list, S) \in Seq(L)
         /\ Once(Without(list, S))
         /\ \A x : Contains(Without(list, S), x) => Contains(list, x)
         /\ \A x : Contains(list, x) /\ x \notin S => Contains(Without(list, S), x)
         /\ \A x \in S : ~Contains(Without(list, S), x)
<1>1. DEFINE at == {i \in DOMAIN list : list[i] \in S}
             k == CHOOSE i \in at : \A j \in at : i <= j
<1>2. CASE at = {}
  <2>1. Without(list, S) = list
    BY <1>2 DEF Without
  <2>2. \A x : Contains(list, x) => x \notin S
    BY <1>2 DEF Contains
  <2>3. QED
    BY <2>1, <2>2
<1>3. CASE at # {}
  <2>1. at \subseteq Nat /\ DOMAIN list = 1..Len(list)
    OBVIOUS
  <2>2. \E i \in at : \A j \in at : i <= j
    <3>1. \A i, j \in at : i = j
      BY DEF Once
    <3>2. QED
      BY <1>3, <2>1, <3>1
  <2>3. k \in at
    BY <2>2
  <2>4. Without(list, S) = RemoveAt(list, k)
    BY <1>3 DEF Without
  <2>5. k \in 1..Len(list) /\ list[k] \in S
    BY <2>1, <2>3
  <2> HIDE DEF k
  <2> DEFINE r == RemoveAt(list, k)
  <2>6. /\ r \in Seq(L) /\ Len(r) = Len(list) - 1 /\ DOMAIN r = 1..Len(list) - 1
        /\ \A i \in 1..Len(list) - 1 : r[i] = IF i < k THEN list[i] ELSE list[i + 1]
    BY <2>5, RemoveAtIs
  <2> HIDE DEF r
  <2> DEFINE from(i) == IF i < k THEN i ELSE i + 1
  <2>a. ASSUME NEW i \in 1..Len(list) - 1
        PROVE  from(i) \in 1..Len(list) /\ from(i) # k /\ r[i] = list[from(i)]
    BY <2>5, <2>6
  <2>b. \A i, j \in 1..Len(list) - 1 : from(i) = from(j) => i = j
    BY <2>5
  <2> HIDE DEF from
  <2>7. Once(r)
    BY <2>1, <2>6, <2>a, <2>b DEF Once
  <2>8. \A x : Contains(r, x) => Contains(list, x) /\ x # list[k]
    BY <2>1, <2>5, <2>6, <2>a DEF Contains, Once
  <2>9. \A x : Contains(list, x) /\ x # list[k] => Contains(r, x)
    <3>1. SUFFICES ASSUME NEW i \in 1..Len(list), i # k
                   PROVE  \E j \in 1..Len(r) : r[j] = list[i]
      BY DEF Contains
    <3>2. CASE i < k
      BY <2>5, <2>6, <3>2
    <3>3. CASE i > k
      <4>1. i - 1 \in 1..Len(list) - 1 /\ ~(i - 1 < k) /\ (i - 1) + 1 = i
        BY <2>5, <3>3
      <4>2. QED
        BY <2>6, <4>1
    <3>4. QED
      BY <2>5, <3>1, <3>2, <3>3
  <2>10. QED
    BY <2>4, <2>5, <2>6, <2>7, <2>8, <2>9 DEF r
<1>4. QED
  BY <1>2, <1>3

\* AddListener.
LEMMA AddedIs ==
  ASSUME NEW L, NEW list \in Seq(L), Once(list), NEW l \in L
  PROVE  /\ Added(list, l) \in Seq(L) /\ Added(list, l) # <<>>
         /\ Once(Added(list, l))
         /\ \A x : Contains(Added(list, l), x) <=> Contains(list, x) \/ x = l
<1>1. CASE Contains(list, l)
  BY <1>1 DEF Added, Contains
<1>2. CASE ~Contains(list, l)
  <2>1. Added(list, l) = Append(list, l)
    BY <1>2 DEF Added
  <2>2. DEFINE a == Append(list, l)
  <2>3. a \in Seq(L) /\ Len(a) = Len(list) + 1 /\ a[Len(list) + 1] = l
        /\ \A i \in 1..Len(list) : a[i] = list[i]
    OBVIOUS
  <2> HIDE DEF a
  <2>4. \A x : Contains(a, x) <=> Contains(list, x) \/ x = l
    BY <2>3 DEF Contains
  <2>5. Once(a)
    BY <1>2, <2>3 DEF Once, Contains
  <2>6. QED
    BY <2>1, <2>3, <2>4, <2>5 DEF a
<1>3. QED
  BY <1>1, <1>2

\* The list without its head.
LEMMA TailIs ==
  ASSUME NEW L, NEW list \in Seq(L), list # <<>>, Once(list)
  PROVE  /\ Tail(list) \in Seq(L) /\ Head(list) \in L /\ Contains(list, Head(list))
         /\ Once(Tail(list))
         /\ \A x : Contains(Tail(list), x) <=> Contains(list, x) /\ x # Head(list)
<1>1. Len(list) \in Nat /\ Len(list) > 0 /\ Head(list) = list[1] /\ DOMAIN list = 1..Len(list)
  OBVIOUS
<1>2. DEFINE t == Tail(list)
<1>3. t \in Seq(L) /\ Len(t) = Len(list) - 1 /\ DOMAIN t = 1..Len(list) - 1
      /\ \A i \in 1..Len(list) - 1 : t[i] = list[i + 1]
  BY <1>1
<1> HIDE DEF t
<1>4. Once(t)
  BY <1>1, <1>3 DEF Once
<1>5. \A x : Contains(t, x) => Contains(list, x) /\ x # list[1]
  BY <1>1, <1>3 DEF Contains, Once
<1>6. \A x : Contains(list, x) /\ x # list[1] => Contains(t, x)
  <2>1. SUFFICES ASSUME NEW i \in 1..Len(list), i # 1
                 PROVE  \E j \in 1..Len(t) : t[j] = list[i]
    BY <1>1 DEF Contains
  <2>2. i - 1 \in 1..Len(list) - 1 /\ (i - 1) + 1 = i
    BY <1>1, <2>1
  <2>3. QED
    BY <1>3, <2>2
<1>7. QED
  BY <1>1, <1>3, <1>4, <1>5, <1>6, SMTT(30) DEF t, Contains

-----------------------------------------------------------------------------
(* The listeners. *)

\* Lua's listener is one, and those of the game are others.
LEMMA Sides ==
  /\ LuaListener \in Listener /\ LuaListener \notin ClientSide
  /\ ServerSide \subseteq Listener /\ ClientSide \subseteq Listener
  /\ NoListener \notin Listener
BY ListenerAssumption DEF Listener

\* The invariant of the lists is what ListenersExact says.
LEMMA ListsExact ==
  ASSUME ListenersTypeOK, ListsInv
  PROVE  ListenersExact
<1>1. ASSUME ~early, NEW l \in Listener
      PROVE  ExactBut(l, IF l = LuaListener THEN {VoteCast} ELSE {})
  <2>1. \A e \in Event : Exact(l, e)
    BY <1>1 DEF ListsInv
  <2>2. wanted[l] \subseteq Event
    BY DEF ListenersTypeOK
  <2>3. QED
    BY <1>1, <2>1, <2>2 DEF Exact, ExactBut
<1>2. ASSUME NEW l \in ClientSide
      PROVE  ExactBut(l, {VoteCast})
  <2>1. l \in Listener /\ \A e \in Event : Exact(l, e)
    BY Sides DEF ListsInv
  <2>2. wanted[l] \subseteq Event
    BY <2>1 DEF ListenersTypeOK
  <2>3. QED
    BY <2>1, <2>2 DEF Exact, ExactBut
<1>3. QED
  BY <1>1, <1>2 DEF ListenersExact

\* AddListener.
LEMMA AddsKeeps ==
  ASSUME ListenersTypeOK, ListsInv, NEW l \in Listener, NEW e \in Event, Adds(l, e),
         UNCHANGED <<enabled, open>>
  PROVE  ListenersTypeOK' /\ ListsInv'
<1>1. /\ listeners[e] \in Seq(Listener) /\ Once(listeners[e])
      /\ listeners \in [Event -> Seq(Listener)] /\ wanted \in [Listener -> SUBSET Event]
  BY DEF ListenersTypeOK, ListsInv
<1>2. /\ Added(listeners[e], l) \in Seq(Listener)
      /\ Once(Added(listeners[e], l))
      /\ \A x : Contains(Added(listeners[e], l), x) <=> Contains(listeners[e], x) \/ x = l
  BY <1>1, AddedIs
<1>3. /\ \A d \in Event : listeners'[d] = IF d = e THEN Added(listeners[e], l) ELSE listeners[d]
      /\ \A x \in Listener : wanted'[x] = IF x = l THEN wanted[l] \union {e} ELSE wanted[x]
      /\ listeners' \in [Event -> Seq(Listener)] /\ wanted' \in [Listener -> SUBSET Event]
  BY <1>1, <1>2 DEF Adds
<1>4. ListenersTypeOK'
  BY <1>3 DEF ListenersTypeOK, Adds
<1>5. \A d \in Event : Once(listeners'[d])
  BY <1>2, <1>3 DEF ListsInv
<1>6. ASSUME NEW x \in Listener, NEW d \in Event, ~early' \/ x \in ClientSide
      PROVE  Exact(x, d)'
  <2>1. Exact(x, d)
    BY <1>6 DEF ListsInv, Adds
  <2>2. Contains(listeners'[d], x) <=> Contains(listeners[d], x) \/ (d = e /\ x = l)
    BY <1>2, <1>3
  <2>3. d \in wanted'[x] <=> d \in wanted[x] \/ (d = e /\ x = l)
    BY <1>3
  <2>4. QED
    BY <2>1, <2>2, <2>3 DEF Exact, Hears, Adds
<1>7. QED
  BY <1>4, <1>5, <1>6 DEF ListsInv, Adds

\* RemoveListener.
LEMMA LeavesKeeps ==
  ASSUME ListenersTypeOK, ListsInv, NEW l \in Listener, Leaves(l),
         enabled' /\ open' => enabled /\ open
  PROVE  ListenersTypeOK' /\ ListsInv'
<1>1. /\ \A d \in Event : listeners[d] \in Seq(Listener) /\ Once(listeners[d])
      /\ wanted \in [Listener -> SUBSET Event]
  BY DEF ListenersTypeOK, ListsInv
<1>2. ASSUME NEW d \in Event
      PROVE  /\ Without(listeners[d], {l}) \in Seq(Listener)
             /\ Once(Without(listeners[d], {l}))
             /\ \A x : Contains(Without(listeners[d], {l}), x) <=> Contains(listeners[d], x) /\ x # l
  <2>1. {l} \subseteq {l} /\ \A x : x \in {l} <=> x = l
    OBVIOUS
  <2>2. QED
    BY <1>1, <2>1, WithoutIs
<1>3. /\ listeners' = [d \in Event |-> Without(listeners[d], {l})]
      /\ \A x \in Listener : wanted'[x] = IF x = l THEN {} ELSE wanted[x]
      /\ wanted' \in [Listener -> SUBSET Event]
  BY <1>1 DEF Leaves
<1>4. ListenersTypeOK'
  <2>1. listeners' \in [Event -> Seq(Listener)]
    BY <1>2, <1>3
  <2>2. QED
    BY <1>3, <2>1 DEF ListenersTypeOK, Leaves
<1>5. \A d \in Event : Once(listeners'[d])
  BY <1>2, <1>3
<1>6. ASSUME NEW x \in Listener, NEW d \in Event, ~early' \/ x \in ClientSide
      PROVE  Exact(x, d)'
  <2>1. Exact(x, d)
    BY <1>6 DEF ListsInv, Leaves
  <2>2. Contains(listeners'[d], x) <=> Contains(listeners[d], x) /\ x # l
    BY <1>2, <1>3
  <2>3. d \in wanted'[x] <=> d \in wanted[x] /\ x # l
    BY <1>3
  <2>4. QED
    BY <2>1, <2>2, <2>3 DEF Exact, Hears, Leaves
<1>7. QED
  BY <1>4, <1>5, <1>6 DEF ListsInv, Leaves

\* holytest.RemoveEventListener: what it removes is the listener taken for Lua's,
\* unless that one is not SERVERSIDE.
LEMMA RemoveKeeps ==
  ASSUME ListenersTypeOK, ListsInv, NEW e \in Event, RemoveEventListener(e), enabled, open,
         UNCHANGED <<enabled, open>>
  PROVE  ListenersTypeOK' /\ ListsInv'
<1> DEFINE S == {l \in Listener : Removable(l)}
           list == Without(listeners[e], S)
<1>1. /\ listeners[e] \in Seq(Listener) /\ Once(listeners[e])
      /\ listeners \in [Event -> Seq(Listener)] /\ wanted \in [Listener -> SUBSET Event]
  BY DEF ListenersTypeOK, ListsInv
<1>2. S \subseteq {recognised} /\ \A x \in S : x \notin ClientSide
  BY DEF Removable
<1>3. ~early => S = {LuaListener}
  BY Sides DEF Removable, ListsInv
<1> HIDE DEF S
<1>4. /\ list \in Seq(Listener)
      /\ Once(list)
      /\ \A x : Contains(list, x) => Contains(listeners[e], x)
      /\ \A x : Contains(listeners[e], x) /\ x \notin S => Contains(list, x)
      /\ \A x \in S : ~Contains(list, x)
  BY <1>1, <1>2, WithoutIs
<1> HIDE DEF list
<1>5. /\ \A d \in Event : listeners'[d] = IF d = e THEN list ELSE listeners[d]
      /\ \A x \in Listener : wanted'[x] = IF x = LuaListener THEN wanted[x] \ {e} ELSE wanted[x]
      /\ listeners' \in [Event -> Seq(Listener)] /\ wanted' \in [Listener -> SUBSET Event]
  BY <1>1, <1>4 DEF RemoveEventListener, list, S
<1>6. ListenersTypeOK'
  BY <1>5 DEF ListenersTypeOK, RemoveEventListener
<1>7. \A d \in Event : Once(listeners'[d])
  BY <1>4, <1>5 DEF ListsInv
<1>8. ASSUME NEW x \in Listener, NEW d \in Event, ~early' \/ x \in ClientSide
      PROVE  Exact(x, d)'
  <2>1. Exact(x, d)
    BY <1>8 DEF ListsInv, RemoveEventListener
  <2>2. x \in S => x = LuaListener
    BY <1>2, <1>3, <1>8 DEF RemoveEventListener
  <2>3. Contains(listeners'[d], x) => Contains(listeners[d], x) /\ ~(d = e /\ x \in S)
    BY <1>4, <1>5
  <2>4. Contains(listeners[d], x) /\ ~(d = e /\ x \in S) => Contains(listeners'[d], x)
    BY <1>4, <1>5
  <2>5. d \in wanted'[x] <=> d \in wanted[x] /\ ~(d = e /\ x = LuaListener)
    BY <1>5
  <2>6. x = LuaListener => S = {LuaListener}
    BY <1>3, <1>8, Sides DEF RemoveEventListener
  <2>7. QED
    BY <2>1, <2>2, <2>3, <2>4, <2>5, <2>6 DEF Exact, Hears, RemoveEventListener
<1>9. QED
  BY <1>6, <1>7, <1>8 DEF ListsInv, RemoveEventListener

\* LuaInit: only Lua's own listener loses vote_cast, unless another came first.
LEMMA RecogniseKeeps ==
  ASSUME ListenersTypeOK, ListsInv, RecogniseLua
  PROVE  ListenersTypeOK' /\ ListsInv'
<1> DEFINE list == Added(listeners[VoteCast], LuaListener)
<1>1. /\ VoteCast \in Event /\ listeners[VoteCast] \in Seq(Listener) /\ Once(listeners[VoteCast])
      /\ listeners \in [Event -> Seq(Listener)] /\ LuaListener \in Listener
  BY VoteCastAssumption, Sides DEF ListenersTypeOK, ListsInv
<1>2. /\ list \in Seq(Listener) /\ list # <<>>
      /\ Once(list)
      /\ \A x : Contains(list, x) <=> Contains(listeners[VoteCast], x) \/ x = LuaListener
  BY <1>1, AddedIs
<1> HIDE DEF list
<1>3. /\ Tail(list) \in Seq(Listener) /\ Head(list) \in Listener
      /\ Once(Tail(list))
      /\ \A x : Contains(Tail(list), x) <=> Contains(list, x) /\ x # Head(list)
  BY <1>2, TailIs
<1>4. /\ \A d \in Event : listeners'[d] = IF d = VoteCast THEN Tail(list) ELSE listeners[d]
      /\ listeners' \in [Event -> Seq(Listener)]
      /\ recognised' = Head(list) /\ wanted' = wanted
      /\ early' = (early \/ Head(list) # LuaListener)
  BY <1>1, <1>3 DEF RecogniseLua, list
<1>5. ListenersTypeOK'
  BY <1>3, <1>4 DEF ListenersTypeOK
<1>6. \A d \in Event : Once(listeners'[d])
  BY <1>3, <1>4 DEF ListsInv
<1>7. ASSUME NEW x \in Listener, NEW d \in Event, ~early' \/ x \in ClientSide
      PROVE  Exact(x, d)'
  <2>1. Exact(x, d)
    BY <1>4, <1>7 DEF ListsInv
  <2>2. d # VoteCast => (Contains(listeners'[d], x) <=> Contains(listeners[d], x))
    BY <1>4
  <2>3. Contains(listeners'[VoteCast], x) <=>
          (Contains(listeners[VoteCast], x) \/ x = LuaListener) /\ x # Head(list)
    BY <1>1, <1>2, <1>3, <1>4
  <2>4. CASE d # VoteCast
    BY <1>4, <2>1, <2>2, <2>4 DEF Exact, Hears
  <2>5. CASE d = VoteCast /\ ~early'
    <3>1. Head(list) = LuaListener /\ ~early
      BY <1>4, <2>5
    <3>2. QED
      BY <1>4, <2>1, <2>3, <2>5, <3>1 DEF Exact, Hears
  <2>6. CASE d = VoteCast /\ early'
    <3>1. x # LuaListener
      BY <1>7, <2>6, Sides
    <3>2. QED
      BY <1>4, <2>1, <2>3, <2>6, <3>1 DEF Exact, Hears
  <2>7. QED
    BY <2>4, <2>5, <2>6
<1>8. recognised' # NoListener /\ (~early' => recognised' \in {NoListener, LuaListener})
  BY <1>3, <1>4, Sides
<1>9. QED
  BY <1>5, <1>6, <1>7, <1>8 DEF ListsInv

-----------------------------------------------------------------------------
(* The buffers. *)

\* A buffer of the right type.
Fit(r) ==
    /\ r \in Buffer
    /\ r.cur <= Len(r.data)
    /\ r.kind # "none" => Len(r.data) \in MinSize..MaxSize

\* The sizes are within their bounds, and only a string longer than the largest
\* buffer is longer than what is allocated for it.
LEMMA ClampIs ==
  ASSUME NEW n \in Int
  PROVE  /\ ClampBF(n) \in MinSize..MaxSize /\ ClampBF(n) \in Nat /\ ClampBF(n) >= 1
         /\ n <= MaxSize => n <= ClampBF(n)
BY SizeAssumption DEF ClampBF, Largest, Least

LEMMA MemoryIs ==
  ASSUME NEW n \in Int, NEW bytes \in Seq(Cell)
  PROVE  /\ Memory(n, bytes) \in Seq(Cell)
         /\ Len(Memory(n, bytes)) = ClampBF(n)
         /\ \A i \in 1..ClampBF(n) : Memory(n, bytes)[i] = IF i <= Len(bytes) THEN bytes[i] ELSE Junk
<1>1. ClampBF(n) \in Nat
  BY ClampIs
<1>2. \A i \in 1..ClampBF(n) : (IF i <= Len(bytes) THEN bytes[i] ELSE Junk) \in Cell
  BY <1>1 DEF Cell
<1>3. QED
  BY <1>1, <1>2 DEF Memory

LEMMA NoBufferIs == Fit(NoBuffer) /\ Holds(NoBuffer)
BY DEF Fit, Holds, NoBuffer, Buffer

\* A writer without anything written.
LEMMA EmptyWriter ==
  ASSUME NEW r \in Buffer, r.kind = "write", Len(r.data) \in MinSize..MaxSize,
         r.cur <= Len(r.data), ~r.moved => r.cur = 0 /\ Len(r.text) = 0
  PROVE  Fit(r) /\ Holds(r)
BY DEF Fit, Holds, Buffer

\* The types, buffer by buffer.
LEMMA FitIs ==
  ASSUME BuffersTypeOK, NEW b \in Buf
  PROVE  Fit(bufs[b])
BY DEF BuffersTypeOK, Fit

\* A step that replaces one buffer has to show what is true of the new one.
LEMMA Replaced ==
  ASSUME BuffersTypeOK, BuffersInv, NEW b \in Buf, NEW r, Fit(r), ~long' => Holds(r),
         bufs' = [bufs EXCEPT ![b] = r],
         long' \in BOOLEAN, overrun' \in BOOLEAN, long => long', ~long' /\ ~overrun => ~overrun'
  PROVE  BuffersTypeOK' /\ BuffersInv'
<1>1. bufs \in [Buf -> Buffer] /\ r \in Buffer
  BY DEF BuffersTypeOK, Fit
<1>2. \A c \in Buf : bufs'[c] = IF c = b THEN r ELSE bufs[c]
  BY <1>1
<1>3. bufs' \in [Buf -> Buffer]
  BY <1>1
<1>4. BuffersTypeOK'
  BY <1>2, <1>3 DEF BuffersTypeOK, Fit
<1>5. BuffersInv'
  BY <1>2 DEF BuffersInv, Holds
<1>6. QED
  BY <1>4, <1>5

\* malloc and memcpy: a reader holds what its source holds, a writer begins anew.
LEMMA MakeKeeps ==
  ASSUME BuffersTypeOK, BuffersInv, NEW b \in Buf, NEW kind \in {"read", "write"},
         NEW bytes \in Seq(Cell), NEW text \in Seq(Byte), NEW moved \in BOOLEAN,
         Make(b, kind, bytes, text, moved),
         kind = "read" /\ ~moved /\ ~long =>
           /\ Len(text) <= Len(bytes)
           /\ \A i \in 1..Len(bytes) : bytes[i] = IF i <= Len(text) THEN text[i] ELSE Junk,
         kind = "write" => text = <<>>
  PROVE  BuffersTypeOK' /\ BuffersInv'
<1> DEFINE n == Len(bytes)
           memory == Memory(n, bytes)
           r == [kind |-> kind, data |-> memory, cur |-> 0, text |-> text, moved |-> moved]
<1>1. n \in Nat /\ Len(text) \in Nat
  OBVIOUS
<1>2. /\ memory \in Seq(Cell) /\ Len(memory) = ClampBF(n)
      /\ \A i \in 1..ClampBF(n) : memory[i] = IF i <= n THEN bytes[i] ELSE Junk
  BY <1>1, MemoryIs
<1>3. /\ ClampBF(n) \in MinSize..MaxSize /\ ClampBF(n) \in Nat
      /\ n <= MaxSize => n <= ClampBF(n)
  BY <1>1, ClampIs
<1>4. bufs' = [bufs EXCEPT ![b] = r]
  BY DEF Make
<1>5. /\ overrun' = (overrun \/ n > ClampBF(n))
      /\ long' = (long \/ n > MaxSize)
  BY DEF Make
<1> HIDE DEF memory
<1>6. Fit(r)
  BY <1>2, <1>3 DEF Fit, Buffer
<1>7. ASSUME ~long'
      PROVE  Holds(r)
  <2>1. ~long /\ n <= ClampBF(n)
    <3>1. ~long /\ ~(n > MaxSize)
      BY <1>5, <1>7
    <3>2. QED
      BY <1>1, <1>3, <3>1, SizeAssumption
  <2>2. CASE kind = "read" /\ ~moved
    <3>1. /\ Len(text) <= n
          /\ \A i \in 1..n : bytes[i] = IF i <= Len(text) THEN text[i] ELSE Junk
      BY <2>1, <2>2
    <3>2. \A i \in 1..ClampBF(n) : memory[i] = IF i <= Len(text) THEN text[i] ELSE Junk
      BY <1>1, <1>2, <1>3, <2>1, <3>1
    <3>3. QED
      BY <1>1, <1>2, <1>3, <2>1, <2>2, <3>1, <3>2 DEF Holds
  <2>3. CASE kind = "write"
    BY <2>3 DEF Holds
  <2>4. QED
    BY <2>2, <2>3 DEF Holds
<1>8. /\ long' \in BOOLEAN /\ overrun' \in BOOLEAN
      /\ long => long'
      /\ ~long' /\ ~overrun => ~overrun'
  BY <1>1, <1>3, <1>5, SizeAssumption DEF BuffersTypeOK
<1> HIDE DEF r
<1>9. QED
  BY <1>4, <1>6, <1>7, <1>8, Replaced

\* GetData of a buffer is what it should hold.
LEMMA GetDataIs ==
  ASSUME BuffersTypeOK, BuffersInv, NEW c \in Buf, bufs[c].kind # "none"
  PROVE  /\ GetData(c) \in Seq(Cell) /\ bufs[c].text \in Seq(Byte) /\ bufs[c].moved \in BOOLEAN
         /\ ~bufs[c].moved /\ ~long =>
              /\ Len(bufs[c].text) <= Len(GetData(c))
              /\ \A i \in 1..Len(GetData(c)) :
                   GetData(c)[i] = IF i <= Len(bufs[c].text) THEN bufs[c].text[i] ELSE Junk
<1>1. /\ bufs[c].data \in Seq(Cell) /\ bufs[c].text \in Seq(Byte) /\ bufs[c].moved \in BOOLEAN
      /\ bufs[c].cur \in Nat /\ bufs[c].cur <= Len(bufs[c].data)
      /\ bufs[c].kind \in {"read", "write"}
  BY FitIs DEF Fit, Buffer
<1>2. ~long => Holds(bufs[c])
  BY DEF BuffersInv
<1>3. CASE bufs[c].kind = "read"
  BY <1>1, <1>2, <1>3 DEF GetData, Holds
<1>4. CASE bufs[c].kind = "write"
  <2>1. GetData(c) = SubSeq(bufs[c].data, 1, bufs[c].cur)
    BY <1>4 DEF GetData
  <2>2. /\ GetData(c) \in Seq(Cell) /\ Len(GetData(c)) = bufs[c].cur
        /\ \A i \in 1..bufs[c].cur : GetData(c)[i] = bufs[c].data[i]
    BY <1>1, <2>1
  <2>3. QED
    BY <1>1, <1>2, <1>4, <2>2 DEF Holds
<1>5. QED
  BY <1>1, <1>3, <1>4

LEMMA CreateReadKeeps ==
  ASSUME BuffersTypeOK, BuffersInv, NEW b \in Buf, CreateReadBuffer(b)
  PROVE  BuffersTypeOK' /\ BuffersInv'
<1>1. CASE \E t \in SeqOf(Byte, MaxText) : Make(b, "read", t, t, FALSE)
  <2>1. PICK t \in SeqOf(Byte, MaxText) : Make(b, "read", t, t, FALSE)
    BY <1>1
  <2>2. t \in Seq(Byte) /\ t \in Seq(Cell)
    <3>1. t \in Seq(Byte)
      BY TextAssumption, SeqOfIs
    <3>2. QED
      BY <3>1 DEF Cell
  <2>3. Len(t) <= Len(t) /\ \A i \in 1..Len(t) : t[i] = IF i <= Len(t) THEN t[i] ELSE Junk
    BY <2>2
  <2>4. QED
    BY <2>1, <2>2, <2>3, MakeKeeps
<1>2. CASE \E c \in Buf : bufs[c].kind # "none" /\ Make(b, "read", GetData(c), bufs[c].text, bufs[c].moved)
  <2>1. PICK c \in Buf : bufs[c].kind # "none" /\ Make(b, "read", GetData(c), bufs[c].text, bufs[c].moved)
    BY <1>2
  <2>2. QED
    BY <2>1, GetDataIs, MakeKeeps
<1>3. QED
  BY <1>1, <1>2 DEF CreateReadBuffer

LEMMA CreateWriteKeeps ==
  ASSUME BuffersTypeOK, BuffersInv, NEW b \in Buf, CreateWriteBuffer(b)
  PROVE  BuffersTypeOK' /\ BuffersInv'
<1>1. CASE \E t \in SeqOf(Byte, MaxText) : Make(b, "write", t, <<>>, FALSE)
  <2>1. PICK t \in SeqOf(Byte, MaxText) : Make(b, "write", t, <<>>, FALSE)
    BY <1>1
  <2>2. t \in Seq(Cell) /\ <<>> \in Seq(Byte)
    <3>1. t \in Seq(Byte)
      BY TextAssumption, SeqOfIs
    <3>2. QED
      BY <3>1 DEF Cell
  <2>3. QED
    BY <2>1, <2>2, MakeKeeps
<1>2. ASSUME NEW n \in -1..MaxText,
             bufs' = [bufs EXCEPT ![b] = [NoBuffer EXCEPT !.kind = "write", !.data = Memory(n, <<>>)]],
             UNCHANGED <<long, overrun>>
      PROVE  BuffersTypeOK' /\ BuffersInv'
  <2> DEFINE memory == Memory(n, <<>>)
             r == [NoBuffer EXCEPT !.kind = "write", !.data = memory]
  <2>1. n \in Int /\ <<>> \in Seq(Cell)
    BY TextAssumption
  <2>2. memory \in Seq(Cell) /\ Len(memory) \in MinSize..MaxSize /\ Len(memory) \in Nat
    BY <2>1, MemoryIs, ClampIs
  <2> HIDE DEF memory
  <2>3. /\ NoBuffer \in Buffer
        /\ NoBuffer.cur = 0 /\ Len(NoBuffer.text) = 0
    BY NoBufferIs DEF Fit, NoBuffer
  <2>4. Fit(r) /\ Holds(r)
    <3>1. /\ r \in Buffer /\ r.kind = "write" /\ r.data = memory
          /\ r.cur = 0 /\ Len(r.text) = 0
      BY <2>2, <2>3 DEF Buffer
    <3> HIDE DEF r
    <3>2. QED
      BY <2>2, <3>1, EmptyWriter
  <2>5. bufs' = [bufs EXCEPT ![b] = r]
    BY <1>2 DEF memory
  <2> HIDE DEF r
  <2>6. QED
    BY <1>2, <2>4, <2>5, Replaced DEF BuffersTypeOK
<1>3. QED
  BY <1>1, <1>2 DEF CreateWriteBuffer

LEMMA CopyKeeps ==
  ASSUME BuffersTypeOK, BuffersInv, NEW b \in Buf, CopyReadBuffer(b)
  PROVE  BuffersTypeOK' /\ BuffersInv'
<1>1. PICK c \in Buf :
        /\ bufs[c].kind = "read"
        /\ Make(b, "read", SubSeq(bufs[c].data, 1, CopySize(c)), bufs[c].text, bufs[c].moved)
  BY DEF CopyReadBuffer
<1>2. bufs[c].data \in Seq(Cell) /\ bufs[c].cur \in Nat
  BY FitIs DEF Fit, Buffer
<1>3. CopySize(c) = Len(bufs[c].data)
  BY <1>2 DEF CopySize
<1>4. SubSeq(bufs[c].data, 1, CopySize(c)) = GetData(c)
  BY <1>1, <1>2, <1>3 DEF GetData
<1>5. QED
  BY <1>1, <1>4, GetDataIs, MakeKeeps

\* The operations of the engine's classes on one buffer.
LEMMA PutKeeps ==
  ASSUME BuffersTypeOK, BuffersInv, NEW b \in Buf, NEW x \in Byte, Put(b, x)
  PROVE  BuffersTypeOK' /\ BuffersInv'
<1> DEFINE old == bufs[b]
           n == old.cur + 1
           r == IF n <= Len(old.data)
                THEN [old EXCEPT !.data = ReplaceAt(old.data, n, x), !.cur = n,
                                 !.text = Append(old.text, x)]
                ELSE old
<1>1. /\ old \in Buffer /\ old.kind = "write" /\ Fit(old) /\ (~long => Holds(old))
      /\ bufs \in [Buf -> Buffer]
  BY FitIs DEF Put, Fit, BuffersInv, BuffersTypeOK
<1>2. bufs' = [bufs EXCEPT ![b] = r] /\ UNCHANGED <<long, overrun>>
  BY <1>1 DEF Put
<1>3. CASE ~(n <= Len(old.data))
  BY <1>1, <1>2, <1>3, Replaced DEF BuffersTypeOK
<1>4. CASE n <= Len(old.data)
  <2> DEFINE data == ReplaceAt(old.data, n, x)
             text == Append(old.text, x)
  <2>1. /\ old.data \in Seq(Cell) /\ old.text \in Seq(Byte) /\ old.cur \in Nat /\ n \in 1..Len(old.data)
        /\ x \in Cell /\ old.moved \in BOOLEAN
    BY <1>1, <1>4 DEF Fit, Buffer, Cell
  <2>2. /\ data \in Seq(Cell) /\ Len(data) = Len(old.data)
        /\ \A i \in 1..Len(old.data) : data[i] = IF i = n THEN x ELSE old.data[i]
    BY <2>1 DEF ReplaceAt
  <2>3. /\ text \in Seq(Byte) /\ Len(text) = Len(old.text) + 1 /\ text[Len(old.text) + 1] = x
        /\ \A i \in 1..Len(old.text) : text[i] = old.text[i]
    BY <2>1
  <2>4. r = [kind |-> "write", data |-> data, cur |-> n, text |-> text, moved |-> old.moved]
    BY <1>1, <1>4 DEF Buffer
  <2> HIDE DEF data, text, r
  <2>5. Fit(r)
    BY <1>1, <1>4, <2>1, <2>2, <2>3, <2>4 DEF Fit, Buffer
  <2>6. ASSUME ~long, ~old.moved
        PROVE  n = Len(text) /\ \A i \in 1..n : data[i] = text[i]
    <3>1. old.cur = Len(old.text) /\ \A i \in 1..old.cur : old.data[i] = old.text[i]
      BY <1>1, <2>6 DEF Holds
    <3>2. n = Len(text)
      BY <2>3, <3>1
    <3>3. ASSUME NEW i \in 1..n
          PROVE  data[i] = text[i]
      BY <1>4, <2>1, <2>2, <2>3, <3>1, SMTT(30)
    <3>4. QED
      BY <3>2, <3>3
  <2>7. ~long => Holds(r)
    BY <2>4, <2>6 DEF Holds
  <2>8. QED
    BY <1>2, <2>5, <2>7, Replaced DEF BuffersTypeOK
<1>5. QED
  BY <1>3, <1>4

LEMMA MovesKeep ==
  ASSUME BuffersTypeOK, BuffersInv, NEW b \in Buf,
         \/ ResetWriter(b) \/ SeekToBit(b) \/ Seek(b)
         \/ \E k \in Nat : Advance(b, k)
         \/ CollectBuffer(b)
  PROVE  BuffersTypeOK' /\ BuffersInv'
<1> DEFINE old == bufs[b]
<1>1. /\ old \in Buffer /\ Fit(old) /\ (~long => Holds(old))
      /\ bufs \in [Buf -> Buffer] /\ long \in BOOLEAN /\ overrun \in BOOLEAN
      /\ Len(old.data) \in Nat
  BY FitIs DEF Fit, BuffersInv, BuffersTypeOK, Buffer
<1>2. ASSUME NEW r, Fit(r), ~long => Holds(r), bufs' = [bufs EXCEPT ![b] = r],
             UNCHANGED <<long, overrun>>
      PROVE  BuffersTypeOK' /\ BuffersInv'
  BY <1>1, <1>2, Replaced
<1>3. ASSUME NEW k \in Nat, k <= Len(old.data), old.kind = "write", NEW moved \in BOOLEAN, moved \/ k = 0,
             bufs' = [bufs EXCEPT ![b] = [old EXCEPT !.cur = k, !.text = <<>>, !.moved = moved]],
             UNCHANGED <<long, overrun>>
      PROVE  BuffersTypeOK' /\ BuffersInv'
  <2> DEFINE none == <<>>
             r == [old EXCEPT !.cur = k, !.text = none, !.moved = moved]
  <2>1. none \in Seq(Byte) /\ Len(none) = 0
    OBVIOUS
  <2>2. bufs' = [bufs EXCEPT ![b] = r]
    BY <1>3
  <2> HIDE DEF none
  <2>3. /\ r \in Buffer /\ r.kind = "write" /\ r.data = old.data /\ r.cur = k
        /\ r.text = none /\ r.moved = moved
    BY <1>1, <1>3, <2>1 DEF Buffer
  <2>4. Len(old.data) \in MinSize..MaxSize
    BY <1>1, <1>3 DEF Fit
  <2> HIDE DEF r
  <2>5. Fit(r) /\ Holds(r)
    BY <1>3, <2>1, <2>3, <2>4, EmptyWriter
  <2>6. QED
    BY <1>2, <1>3, <2>2, <2>5
<1>4. CASE ResetWriter(b)
  <2>1. /\ 0 \in Nat /\ 0 <= Len(old.data) /\ FALSE \in BOOLEAN
        /\ old.kind = "write" /\ UNCHANGED <<long, overrun>>
        /\ bufs' = [bufs EXCEPT ![b] = [old EXCEPT !.cur = 0, !.text = <<>>, !.moved = FALSE]]
    BY <1>1, <1>4 DEF ResetWriter
  <2> HIDE DEF old
  <2>2. QED
    BY <1>3, <2>1
<1>5. CASE SeekToBit(b)
  <2>1. PICK k \in 0..Len(old.data) :
          bufs' = [bufs EXCEPT ![b] = [old EXCEPT !.cur = k, !.text = <<>>, !.moved = TRUE]]
    BY <1>1, <1>5 DEF SeekToBit
  <2>2. k \in Nat /\ k <= Len(old.data)
    BY <1>1, <2>1
  <2>3. QED
    BY <1>3, <1>5, <2>1, <2>2 DEF SeekToBit
<1>6. ASSUME NEW k \in Nat, k <= Len(old.data), old.kind = "read",
             bufs' = [bufs EXCEPT ![b] = [old EXCEPT !.cur = k]], UNCHANGED <<long, overrun>>
      PROVE  BuffersTypeOK' /\ BuffersInv'
  <2> DEFINE r == [old EXCEPT !.cur = k]
  <2>1. Fit(r) /\ (~long => Holds(r))
    BY <1>1, <1>6 DEF Fit, Holds, Buffer
  <2>2. QED
    BY <1>2, <1>6, <2>1
<1>7. CASE Seek(b)
  <2>1. PICK k \in 0..Len(old.data) : bufs' = [bufs EXCEPT ![b] = [old EXCEPT !.cur = k]]
    BY <1>1, <1>7 DEF Seek
  <2>2. k \in Nat /\ k <= Len(old.data)
    BY <1>1, <2>1
  <2>3. QED
    BY <1>6, <1>7, <2>1, <2>2 DEF Seek
<1>8. ASSUME NEW m \in Nat, Advance(b, m)
      PROVE  BuffersTypeOK' /\ BuffersInv'
  <2> DEFINE k == Least(old.cur + m, Len(old.data))
  <2>1. k \in Nat /\ k <= Len(old.data)
    BY <1>1 DEF Least, Fit, Buffer
  <2>2. bufs' = [bufs EXCEPT ![b] = [old EXCEPT !.cur = k]]
    BY <1>1, <1>8 DEF Advance
  <2> HIDE DEF k
  <2>3. QED
    BY <1>6, <1>8, <2>1, <2>2 DEF Advance
<1>9. CASE CollectBuffer(b)
  BY <1>2, <1>9, NoBufferIs DEF CollectBuffer
<1>10. QED
  BY <1>4, <1>5, <1>7, <1>8, <1>9

LEMMA BuffersKeep ==
  ASSUME BuffersTypeOK, BuffersInv, NEW b \in Buf, Buffers(b)
  PROVE  BuffersTypeOK' /\ BuffersInv'
<1>1. 1 \in Nat
  OBVIOUS
<1>2. QED
  BY <1>1, CreateReadKeeps, CreateWriteKeeps, CopyKeeps, PutKeeps, MovesKeep DEF Buffers

-----------------------------------------------------------------------------
(* The module. *)

LEMMA InitInv == Init => TypeOK /\ IInv
<1> SUFFICES ASSUME Init
             PROVE  TypeOK /\ IInv
  OBVIOUS
<1>1. ListenersTypeOK
  <2>1. <<>> \in Seq(Listener) /\ {} \in SUBSET Event
    OBVIOUS
  <2>2. listeners \in [Event -> Seq(Listener)] /\ wanted \in [Listener -> SUBSET Event]
    BY <2>1 DEF Init, ListenersInit
  <2>3. QED
    BY <2>2 DEF Init, ListenersInit, ListenersTypeOK
<1>2. ListsInv
  <2>1. \A e \in Event : listeners[e] = <<>>
    BY DEF Init, ListenersInit
  <2>2. \A l \in Listener, e \in Event : ~Hears(l, e) /\ e \notin wanted[l]
    BY <2>1 DEF Hears, Contains, Init, ListenersInit
  <2>3. QED
    BY <2>1, <2>2 DEF ListsInv, Once, Exact, Init, ListenersInit
<1>3. BuffersTypeOK /\ BuffersInv
  <2>1. bufs = [b \in Buf |-> NoBuffer]
    BY DEF Init, BuffersInit
  <2>2. QED
    BY <2>1, NoBufferIs DEF Fit, BuffersTypeOK, BuffersInv, Init, BuffersInit
<1>4. QED
  BY <1>1, <1>2, <1>3 DEF TypeOK, IInv, Init

LEMMA ListsUnchanged ==
  ASSUME ListenersTypeOK, ListsInv, UNCHANGED manager, enabled' /\ open' => enabled /\ open
  PROVE  ListenersTypeOK' /\ ListsInv'
BY DEF ListenersTypeOK, ListsInv, Exact, Hears, manager

LEMMA BuffersUnchanged ==
  ASSUME BuffersTypeOK, BuffersInv, UNCHANGED buffers
  PROVE  BuffersTypeOK' /\ BuffersInv'
BY DEF BuffersTypeOK, BuffersInv, Holds, buffers

LEMMA NextInv == TypeOK /\ IInv /\ [Next]_vars => TypeOK' /\ IInv'
<1> SUFFICES ASSUME TypeOK, IInv, [Next]_vars
             PROVE  TypeOK' /\ IInv'
  OBVIOUS
<1>1. /\ ListenersTypeOK /\ ListsInv /\ BuffersTypeOK /\ BuffersInv
      /\ enabled \in BOOLEAN /\ open \in BOOLEAN
  BY DEF TypeOK, IInv
<1> DEFINE Kept == /\ ListenersTypeOK' /\ ListsInv' /\ BuffersTypeOK' /\ BuffersInv'
                   /\ enabled' \in BOOLEAN /\ open' \in BOOLEAN
<1>2. SUFFICES Kept
  BY DEF TypeOK, IInv
<1>3. CASE OpenLua
  <2>1. ListenersTypeOK' /\ ListsInv'
    BY <1>1, <1>3, RecogniseKeeps, ListsUnchanged DEF OpenLua, LuaInit
  <2>2. QED
    BY <1>1, <1>3, <2>1, BuffersUnchanged DEF OpenLua
<1>4. CASE SwitchOn
  <2>1. ListenersTypeOK' /\ ListsInv'
    BY <1>1, <1>4, RecogniseKeeps, ListsUnchanged DEF SwitchOn, LuaInit
  <2>2. QED
    BY <1>1, <1>4, <2>1, BuffersUnchanged DEF SwitchOn
<1>5. CASE SwitchOff
  BY <1>1, <1>5, ListsUnchanged, BuffersUnchanged DEF SwitchOff
<1>6. CASE CloseLua
  <2>1. ListenersTypeOK' /\ ListsInv'
    BY <1>1, <1>6, LeavesKeeps, ListsUnchanged, Sides DEF CloseLua
  <2>2. BuffersTypeOK' /\ BuffersInv'
    <3>1. bufs' = [b \in Buf |-> NoBuffer] /\ UNCHANGED <<long, overrun>>
      BY <1>6 DEF CloseLua
    <3>2. QED
      BY <1>1, <3>1, NoBufferIs DEF Fit, BuffersTypeOK, BuffersInv
  <2>3. QED
    BY <1>1, <1>6, <2>1, <2>2 DEF CloseLua
<1>7. CASE Events
  <2>1. PICK e \in Event : Adds(LuaListener, e) \/ (enabled /\ RemoveEventListener(e))
    BY <1>7 DEF Events
  <2>2. UNCHANGED <<buffers, enabled, open>> /\ open
    BY <1>7 DEF Events
  <2>3. ListenersTypeOK' /\ ListsInv'
    BY <1>1, <2>1, <2>2, AddsKeeps, RemoveKeeps, Sides
  <2>4. QED
    BY <1>1, <2>2, <2>3, BuffersUnchanged
<1>8. CASE Others
  <2>1. PICK l \in ServerSide \union ClientSide : Leaves(l) \/ \E e \in Event : Adds(l, e)
    BY <1>8 DEF Others
  <2>2. l \in Listener
    BY <2>1, Sides
  <2>3. UNCHANGED <<buffers, enabled, open>>
    BY <1>8 DEF Others
  <2>4. ListenersTypeOK' /\ ListsInv'
    BY <1>1, <2>1, <2>2, <2>3, AddsKeeps, LeavesKeeps
  <2>5. QED
    BY <1>1, <2>3, <2>4, BuffersUnchanged
<1>9. ASSUME NEW b \in Buf, ReceiveClientMessage(b)
      PROVE  Kept
  <2>1. UNCHANGED <<manager, enabled, open>> /\ \E n \in Nat : Advance(b, n)
    BY <1>9, SizeAssumption DEF ReceiveClientMessage
  <2>2. ListenersTypeOK' /\ ListsInv'
    BY <1>1, <2>1, ListsUnchanged
  <2>3. BuffersTypeOK' /\ BuffersInv'
    BY <1>1, <2>1, MovesKeep
  <2>4. QED
    BY <1>1, <2>1, <2>2, <2>3
<1>10. ASSUME NEW b \in Buf, Buffers(b)
       PROVE  Kept
  <2>1. UNCHANGED <<manager, enabled, open>>
    BY <1>10 DEF Buffers
  <2>2. ListenersTypeOK' /\ ListsInv'
    BY <1>1, <2>1, ListsUnchanged
  <2>3. BuffersTypeOK' /\ BuffersInv'
    BY <1>1, <1>10, BuffersKeep
  <2>4. QED
    BY <1>1, <2>1, <2>2, <2>3
<1>11. CASE UNCHANGED vars
  BY <1>1, <1>11, ListsUnchanged, BuffersUnchanged DEF vars
<1>12. QED
  BY <1>3, <1>4, <1>5, <1>6, <1>7, <1>8, <1>9, <1>10, <1>11 DEF Next

\* The types and the inductive invariant hold of every behaviour.
THEOREM Inductive == Spec => [](TypeOK /\ IInv)
<1>1. QED
  BY InitInv, NextInv, PTL DEF Spec

\* Each listener hears what it asked for, but for vote_cast.
THEOREM ListenersCorrect == Spec => []ListenersExact
<1>1. TypeOK /\ IInv => ListenersExact
  BY ListsExact DEF TypeOK, IInv
<1>2. QED
  BY Inductive, <1>1, PTL

\* What was written is at the beginning of each reader, and no copy is longer
\* than its memory.
THEOREM TextCorrect == Spec => []TextKept
<1>1. ASSUME TypeOK, IInv, ~long
      PROVE  TextKept
  <2>1. BuffersTypeOK /\ BuffersInv /\ ~overrun
    BY <1>1 DEF TypeOK, IInv, BuffersInv
  <2>2. ASSUME NEW b \in Buf, bufs[b].kind # "none", ~bufs[b].moved
        PROVE  /\ IsPrefix(bufs[b].text, GetData(b))
               /\ \A i \in Len(bufs[b].text) + 1..Len(GetData(b)) : GetData(b)[i] = Junk
    <3>1. /\ GetData(b) \in Seq(Cell) /\ bufs[b].text \in Seq(Byte)
          /\ Len(bufs[b].text) <= Len(GetData(b))
          /\ \A i \in 1..Len(GetData(b)) :
               GetData(b)[i] = IF i <= Len(bufs[b].text) THEN bufs[b].text[i] ELSE Junk
      BY <1>1, <2>1, <2>2, GetDataIs
    <3>2. /\ bufs[b].text \in Seq(Cell)
          /\ \A i \in 1..Len(bufs[b].text) : bufs[b].text[i] = GetData(b)[i]
      BY <3>1 DEF Cell
    <3>3. IsPrefix(bufs[b].text, GetData(b))
      BY <3>1, <3>2, IsPrefixIs
    <3>4. QED
      BY <3>1, <3>3
  <2>3. QED
    BY <2>1, <2>2 DEF TextKept, BuffersTypeOK
<1>2. TypeOK /\ IInv => TextKept
  BY <1>1 DEF TextKept
<1>3. QED
  BY Inductive, <1>2, PTL
=============================================================================
