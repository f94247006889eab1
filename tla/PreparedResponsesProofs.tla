----------------------- MODULE PreparedResponsesProofs -----------------------
(***************************************************************************)
(* Proofs about PreparedResponses, for any clients, routes, exchanges and  *)
(* responses, any nesting of callbacks and any script.                     *)
(*                                                                         *)
(* PreparedExact is not inductive: Reply deletes the first response of a   *)
(* vector, and Erase removes the first one.  Guarded says who is in the    *)
(* critical section, Stacked what the main thread is building, and Held    *)
(* that the response an exchange has found stays the first one of its      *)
(* vector until the exchange has removed it; Safe is their conjunction     *)
(* with the two safety properties.                                         *)
(***************************************************************************)
EXTENDS PreparedResponses, SequenceTheorems, TLAPS

Critical == {"scan", "reply", "erase", "unlock", "miss"}

\* The mutex is held by those between its Lock and Unlock.
Guarded ==
    /\ \A e \in Exch : pc[e] \in Critical <=> e \in mutex
    /\ adding = "push" <=> "main" \in mutex

\* The responses being built are those on the Lua stack.
Stacked ==
    /\ \A p \in Resp : obj[p] = "building" <=> \E j \in 1 .. Len(stack) : stack[j] = p
    /\ \A i, j \in 1 .. Len(stack) : stack[i] = stack[j] => i = j
    /\ adding # "no" => stack # <<>>
    /\ \A p \in Resp : obj[p] # "none" => \E c \in Key, k \in Route : key[p] = {<<c, k>>}

\* Each exchange that has come has one client and one route, and was given a
\* response only at the end of the critical section.
Asked ==
    \A e \in Exch :
        /\ pc[e] # "none" => \E c \in Key, k \in Route : ask[e] = {<<c, k>>}
        /\ pc[e] = "none" => ask[e] = {}
        /\ gift[e] # {} => pc[e] \in {"unlock", "answered"}

\* The response under vecIT.
Held ==
    alive => \A e \in Exch, c \in Key : Found(e, c) /\ pc[e] \in {"reply", "erase"} =>
        /\ prepared[c] # <<>>
        /\ ShouldRespond(Head(prepared[c]), e)
        /\ obj[Head(prepared[c])] = IF pc[e] = "reply" THEN "queued" ELSE "freed"

Safe == TypeOK /\ Guarded /\ Stacked /\ Asked /\ Held /\ PreparedExact

-----------------------------------------------------------------------------
\* The steps, one by one.
Fails(who) == fault' = who /\ UNCHANGED <<alive, prepared, mutex, pc, ask, obj, key, main, gift>>

LEMMA NextCases ==
    ASSUME Next, NEW P,
           \A e \in Exch, c \in Key, k \in Route : Arrive(e, c, k) => P,
           \A e \in Exch : Deny(e) => P,
           \A e \in Exch : Lock(e) => P,
           \A e \in Exch : Unlock(e) => P,
           \A e \in Exch, c \in Key : alive /\ Hit(e, c) => P,
           \A e \in Exch, c \in Key : alive /\ Miss(e, c) => P,
           \A e \in Exch, c \in Key : alive /\ Reply(e, c) => P,
           \A e \in Exch, c \in Key : alive /\ Erase(e, c) => P,
           \A p \in Resp, c \in Key, k \in Route : Prepare(p, c, k) => P,
           \A keeps \in BOOLEAN : Return(keeps) => P,
           AddLock => P, \A c \in Key : AddPush(c) => P,
           Destroy => P,
           \A who \in {"worker", "main", "lua"} : Fails(who) => P
    PROVE  P
<1>1. CASE Main
  <2>1. CASE AddOrphan
    BY <2>1 DEF AddOrphan, Fails
  <2>2. ASSUME NEW p \in Resp, Rewrite(p) PROVE P
    BY <2>2 DEF Rewrite, Fails
  <2>3. QED
    BY <1>1, <2>1, <2>2 DEF Main
<1>2. ASSUME NEW e \in Exch, alive, Worker(e) PROVE P
  <2>1. ASSUME NEW c \in Key, WalkOff(e, c) PROVE P
    BY <2>1 DEF WalkOff, Fails
  <2>2. QED
    BY <1>2, <2>1 DEF Worker
<1>3. ASSUME NEW e \in Exch, Orphan(e) PROVE P
  BY <1>3 DEF Orphan, Fails
<1>4. QED
  BY <1>1, <1>2, <1>3 DEF Next

-----------------------------------------------------------------------------
(* The critical section.                                                   *)

\* At most one holder, and the main thread is not an exchange.
LEMMA Exclusive ==
    ASSUME TypeOK, Guarded
    PROVE  /\ \A e, f \in Exch : pc[e] \in Critical /\ pc[f] \in Critical => e = f
           /\ \A e \in Exch : pc[e] \in Critical => mutex = {e} /\ adding # "push"
           /\ adding = "push" => mutex = {"main"}
           /\ mutex = {} => \A e \in Exch : pc[e] \notin Critical
BY ExchAssumption DEF TypeOK, Holders, Guarded

\* The last element of a nonempty stack, and the rest.
Pop(s) == SubSeq(s, 1, Len(s) - 1)

LEMMA PopStack ==
    ASSUME NEW s \in Seq(Resp), s # <<>>
    PROVE  /\ Len(s) \in Nat \ {0} /\ s[Len(s)] \in Resp
           /\ Pop(s) \in Seq(Resp) /\ Len(Pop(s)) = Len(s) - 1
           /\ \A j \in 1 .. Len(s) - 1 : Pop(s)[j] = s[j]
<1>1. Len(s) \in Nat \ {0}
  BY EmptySeq
<1>2. Len(s) - 1 \in Nat /\ Len(s) \in 1 .. Len(s) /\ \A i \in 1 .. Len(s) - 1 : i \in 1 .. Len(s)
  BY <1>1
<1>3. \A i \in 1 .. Len(s) : s[i] \in Resp
  BY ElementOfSeq
<1>4. ASSUME NEW n \in Nat, n = Len(s) - 1
      PROVE  /\ SubSeq(s, 1, n) \in Seq(Resp) /\ Len(SubSeq(s, 1, n)) = n
             /\ \A j \in 1 .. n : SubSeq(s, 1, n)[j] = s[j]
  <2>1. \A i \in 1 .. n : s[i] \in Resp
    BY <1>2, <1>3, <1>4
  <2>2. QED
    BY <2>1
<1>5. QED
  BY <1>1, <1>2, <1>3, <1>4 DEF Pop

\* The head of a nonempty vector, and the rest.
LEMMA PopVector ==
    ASSUME NEW s \in Seq(Resp), s # <<>>
    PROVE  /\ Len(s) \in Nat \ {0} /\ Head(s) = s[1] /\ Head(s) \in Resp
           /\ Tail(s) \in Seq(Resp) /\ Len(Tail(s)) = Len(s) - 1
           /\ \A j \in 1 .. Len(s) - 1 : Tail(s)[j] = s[j + 1]
BY EmptySeq, HeadTailProperties

LEMMA InitSafe == Init => Safe
<1> SUFFICES ASSUME Init PROVE Safe
  OBVIOUS
<1>1. <<>> \in Seq(Resp) /\ Len(<<>>) = 0
  OBVIOUS
<1>2. TypeOK
  BY <1>1, NestAssumption DEF Init, TypeOK, PcSet, Holders, Asks
<1>3. Guarded /\ Stacked /\ Asked /\ Held
  BY <1>1 DEF Init, Guarded, Critical, Stacked, Asked, Held
<1>4. PreparedExact
  BY <1>1 DEF Init, PreparedExact, InMap, HalfErased
<1>5. QED
  BY <1>2, <1>3, <1>4 DEF Safe

-----------------------------------------------------------------------------
(* A step that fails changes nothing else.                                 *)

LEMMA FailSafe ==
    ASSUME Safe, NEW who \in {"none", "worker", "main", "lua"}, fault' = who,
           UNCHANGED <<alive, prepared, mutex, pc, ask, obj, key, main, gift>>
    PROVE  Safe'
<1>1. UNCHANGED <<alive, prepared, mutex, pc, ask, obj, key, stack, adding, kept, gift>>
  BY DEF main
<1>2. TypeOK'
  BY <1>1 DEF Safe, TypeOK
<1>3. Guarded' /\ Stacked' /\ Asked'
  BY <1>1 DEF Safe, Guarded, Stacked, Asked
<1>4. Held' /\ PreparedExact'
  BY <1>1 DEF Safe, Held, PreparedExact, InMap, HalfErased, Found, ShouldRespond
<1>5. QED
  BY <1>2, <1>3, <1>4 DEF Safe

-----------------------------------------------------------------------------
(* Steps of the pool threads.                                              *)

\* What an exchange asks for does not change once it has come.
SameMap == UNCHANGED <<alive, prepared, ask, obj, key, main, gift>>

\* A step of exchange e that leaves the map, the responses and the main
\* thread alone, and does not enter or leave Erase.
LEMMA WalkSafe ==
    ASSUME Safe, NEW e \in Exch, SameMap, fault' = fault,
           pc' = [pc EXCEPT ![e] = pc'[e]], pc'[e] \in PcSet \ {"none", "erase"},
           pc[e] \notin {"none", "erase"},
           mutex' \in Holders, mutex' \ {e} = mutex \ {e},
           pc'[e] \in Critical <=> e \in mutex',
           gift[e] # {} => pc'[e] \in {"unlock", "answered"},
           pc'[e] = "reply" /\ alive => \A c \in Key : Found(e, c) =>
               prepared[c] # <<>> /\ ShouldRespond(Head(prepared[c]), e)
               /\ obj[Head(prepared[c])] = "queued"
    PROVE  Safe'
<1> USE DEF SameMap, main
<1>1. TypeOK'
  BY DEF Safe, TypeOK
<1>2. Guarded'
  BY ExchAssumption DEF Safe, TypeOK, Guarded
<1> DEFINE Other == Exch \ {e}
<1>0. pc \in [Exch -> PcSet] /\ \A f \in Other : pc'[f] = pc[f]
  BY DEF Safe, TypeOK
<1>3. Stacked' /\ Asked'
  <2>1. Stacked'
    BY DEF Safe, Stacked
  <2>2. ASSUME NEW f \in Exch, pc'[f] # "none" PROVE pc[f] # "none"
    BY <1>0, <2>2
  <2>3. ASSUME NEW f \in Exch, pc'[f] = "none" PROVE pc[f] = "none"
    BY <1>0, <2>3
  <2>4. ASSUME NEW f \in Exch, gift[f] # {} PROVE pc'[f] \in {"unlock", "answered"}
    BY <1>0, <2>4 DEF Safe, Asked
  <2>5. QED
    BY <2>1, <2>2, <2>3, <2>4 DEF Safe, Asked
<1>4. Held'
  <2> SUFFICES ASSUME alive', NEW f \in Exch, NEW c \in Key, Found(f, c)', pc'[f] \in {"reply", "erase"}
               PROVE  /\ prepared[c] # <<>>
                      /\ ShouldRespond(Head(prepared[c]), f)
                      /\ obj[Head(prepared[c])] = IF pc'[f] = "reply" THEN "queued" ELSE "freed"
    BY DEF Held, ShouldRespond
  <2>1. Found(f, c)
    BY DEF Found
  <2>2. QED
    BY <1>0, <2>1 DEF Safe, Held
<1>5. PreparedExact'
  <2>1. \A p \in Resp : HalfErased(p)' <=> HalfErased(p)
    BY DEF Safe, TypeOK, HalfErased, Found
  <2>2. QED
    BY <2>1 DEF Safe, PreparedExact, InMap
<1>6. QED
  BY <1>1, <1>2, <1>3, <1>4, <1>5 DEF Safe

\* An exchange has one client.
LEMMA OneClient ==
    ASSUME NEW e \in Exch, NEW c \in Key, NEW d \in Key, Found(e, c), Found(e, d)
    PROVE  c = d
<1>1. PICK k \in Route : ask[e] = {<<c, k>>}
  BY DEF Found
<1>2. PICK l \in Route : ask[e] = {<<d, l>>}
  BY DEF Found
<1>3. <<c, k>> \in {<<d, l>>}
  BY <1>1, <1>2
<1>4. <<c, k>> = <<d, l>>
  BY <1>3
<1>5. QED
  BY <1>4

\* The first response of a vector, seen by the holder of the mutex.
LEMMA HeadQueued ==
    ASSUME Safe, alive, NEW e \in Exch, NEW c \in Key, Found(e, c), pc[e] = "scan",
           prepared[c] # <<>>
    PROVE  Head(prepared[c]) \in Resp /\ obj[Head(prepared[c])] = "queued"
<1>1. prepared[c] \in Seq(Resp)
  BY DEF Safe, TypeOK
<1>2. Head(prepared[c]) \in Resp /\ InMap(Head(prepared[c]))
  BY <1>1, PopVector DEF InMap
<1>3. ~HalfErased(Head(prepared[c]))
  BY Exclusive DEF HalfErased, Safe, Critical
<1>4. QED
  BY <1>2, <1>3 DEF Safe, PreparedExact

LEMMA WorkerWalks ==
    ASSUME Safe, NEW e \in Exch,
           \/ Deny(e) \/ Lock(e) \/ Unlock(e)
           \/ \E c \in Key : alive /\ (Hit(e, c) \/ Miss(e, c))
    PROVE  Safe'
<1> USE DEF SameMap, main, Goto, PcSet, Critical
<1>0. pc \in [Exch -> PcSet] /\ mutex \in Holders /\ {e} \in Holders /\ {} \in Holders
  BY DEF Safe, TypeOK, Holders
<1>1. CASE Deny(e)
  BY <1>0, <1>1, WalkSafe DEF Deny, Safe, Guarded, Asked
<1>2. CASE Lock(e)
  BY <1>0, <1>2, WalkSafe, ZenonT(40) DEF Lock, MutexFree, Safe, Guarded, Asked
<1>3. CASE Unlock(e)
  <2>1. mutex = {e}
    BY <1>3, Exclusive DEF Unlock, Safe
  <2>2. /\ pc[e] \in {"unlock", "miss"}
        /\ pc'[e] = IF pc[e] = "unlock" THEN "answered" ELSE "main"
        /\ pc' = [pc EXCEPT ![e] = pc'[e]]
        /\ mutex' = {} /\ fault' = fault /\ SameMap
    BY <1>0, <1>3, <2>1 DEF Unlock, Released
  <2>3. gift[e] # {} => pc'[e] = "answered"
    BY <2>2 DEF Safe, Asked
  <2>4. pc'[e] \in PcSet \ {"none", "erase"} /\ pc'[e] \notin Critical
    BY <2>2
  <2>5. QED
    BY <1>0, <2>1, <2>2, <2>3, <2>4, WalkSafe
<1>4. ASSUME NEW c \in Key, alive, Hit(e, c) PROVE Safe'
  <2>1. \A d \in Key : Found(e, d) => d = c
    BY <1>4, OneClient DEF Hit
  <2>2. obj[Head(prepared[c])] = "queued"
    BY <1>4, HeadQueued DEF Hit
  <2>3. QED
    BY <1>0, <1>4, <2>1, <2>2, WalkSafe DEF Hit, Safe, Guarded, Asked
<1>5. ASSUME NEW c \in Key, alive, Miss(e, c) PROVE Safe'
  BY <1>0, <1>5, WalkSafe DEF Miss, Safe, Guarded, Asked
<1>6. QED
  BY <1>1, <1>2, <1>3, <1>4, <1>5

\* pPrepared is sent and deleted.
LEMMA ReplySafe ==
    ASSUME Safe, NEW e \in Exch, NEW c \in Key, alive, Reply(e, c)
    PROVE  Safe'
<1> DEFINE h == Head(prepared[c])
<1>1. /\ pc[e] = "reply" /\ Found(e, c)
      /\ obj' = [obj EXCEPT ![h] = "freed"] /\ pc' = [pc EXCEPT ![e] = "erase"]
      /\ UNCHANGED <<alive, prepared, mutex, ask, key, stack, adding, kept, gift, fault>>
  BY DEF Reply, Goto, main
<1>2. /\ pc \in [Exch -> PcSet] /\ obj \in [Resp -> {"none", "building", "queued", "freed"}]
      /\ prepared[c] \in Seq(Resp) /\ prepared[c] # <<>> /\ h \in Resp
      /\ obj[h] = "queued" /\ ShouldRespond(h, e)
  <2>1. prepared[c] \in Seq(Resp) /\ prepared[c] # <<>> /\ obj[h] = "queued" /\ ShouldRespond(h, e)
    BY <1>1 DEF Safe, TypeOK, Held
  <2>2. h \in Resp
    BY <2>1, PopVector
  <2>3. QED
    BY <2>1, <2>2 DEF Safe, TypeOK
<1>3. \A f \in Exch : pc[f] \in Critical => f = e
  BY <1>1, Exclusive DEF Safe, Critical
<1>4. TypeOK'
  BY <1>1, <1>2 DEF Safe, TypeOK, PcSet
<1>5. Guarded'
  BY <1>1, <1>2 DEF Safe, Guarded, Critical
<1>6. Stacked' /\ Asked'
  <2>1. Stacked'
    BY <1>1, <1>2 DEF Safe, Stacked
  <2>2. Asked'
    BY <1>1, <1>2 DEF Safe, Asked
  <2>3. QED
    BY <2>1, <2>2
<1>7. Held'
  <2> SUFFICES ASSUME NEW f \in Exch, NEW d \in Key, Found(f, d)', pc'[f] \in {"reply", "erase"}
               PROVE  /\ prepared[d] # <<>>
                      /\ ShouldRespond(Head(prepared[d]), f)
                      /\ obj'[Head(prepared[d])] = IF pc'[f] = "reply" THEN "queued" ELSE "freed"
    BY <1>1 DEF Held, ShouldRespond
  <2>1. f = e
    BY <1>1, <1>2, <1>3 DEF Critical
  <2>2. d = c
    BY <1>1, <2>1, OneClient DEF Found
  <2>3. QED
    BY <1>1, <1>2, <2>1, <2>2
<1>8. PreparedExact'
  <2>1. \A p \in Resp : InMap(p)' <=> InMap(p)
    BY <1>1 DEF InMap
  <2>2. \A p \in Resp : ~HalfErased(p)
    BY <1>1, <1>3 DEF HalfErased, Critical
  <2>3. ASSUME NEW p \in Resp PROVE HalfErased(p)' <=> p = h
    <3>1. ASSUME p = h PROVE HalfErased(p)'
      BY <1>1, <1>2, <3>1 DEF HalfErased, Found
    <3>2. ASSUME HalfErased(p)' PROVE p = h
      <4>1. PICK f \in Exch, d \in Key : pc'[f] = "erase" /\ Found(f, d)' /\ p = Head(prepared'[d])
        BY <3>2 DEF HalfErased
      <4>2. f = e
        BY <1>1, <1>2, <1>3, <4>1 DEF Critical
      <4>3. Found(e, d)
        BY <1>1, <4>1, <4>2 DEF Found
      <4>4. d = c
        BY <1>1, <4>3, OneClient
      <4>5. p = Head(prepared[d])
        BY <1>1, <4>1
      <4>6. QED
        BY <4>4, <4>5
    <3>3. QED
      BY <3>1, <3>2
  <2>4. InMap(h)
    BY <1>2, PopVector DEF InMap
  <2>5. ASSUME NEW p \in Resp PROVE InMap(p)' <=> obj'[p] = "queued" \/ HalfErased(p)'
    BY <1>1, <1>2, <2>1, <2>2, <2>3, <2>4 DEF Safe, PreparedExact
  <2>6. QED
    BY <1>1, <2>5 DEF Safe, PreparedExact
<1>9. QED
  BY <1>4, <1>5, <1>6, <1>7, <1>8 DEF Safe

\* It is removed from its vector.
LEMMA EraseSafe ==
    ASSUME Safe, NEW e \in Exch, NEW c \in Key, alive, Erase(e, c)
    PROVE  Safe'
<1> DEFINE s == prepared[c]
           h == Head(prepared[c])
<1>1. /\ pc[e] = "erase" /\ Found(e, c)
      /\ gift' = [gift EXCEPT ![e] = {h}] /\ pc' = [pc EXCEPT ![e] = "unlock"]
      /\ prepared' = [prepared EXCEPT ![c] = Tail(s)]
      /\ UNCHANGED <<alive, mutex, ask, obj, key, stack, adding, kept, fault>>
  BY DEF Erase, Erased, Goto, main
<1>2. /\ pc \in [Exch -> PcSet] /\ gift \in [Exch -> SUBSET Resp]
      /\ prepared \in [Key -> Seq(Resp)]
      /\ s \in Seq(Resp) /\ s # <<>> /\ obj[h] = "freed"
  BY <1>1 DEF Safe, TypeOK, Held
<1>3. /\ Len(s) \in Nat \ {0} /\ h = s[1] /\ h \in Resp
      /\ Tail(s) \in Seq(Resp) /\ Len(Tail(s)) = Len(s) - 1
      /\ \A j \in 1 .. Len(s) - 1 : Tail(s)[j] = s[j + 1]
  BY <1>2, PopVector
<1>4. \A f \in Exch : pc[f] \in Critical => f = e
  BY <1>1, Exclusive DEF Safe, Critical
<1>5. prepared'[c] = Tail(s) /\ \A d \in Key \ {c} : prepared'[d] = prepared[d]
  BY <1>1, <1>2
<1>6. TypeOK'
  <2>1. prepared' \in [Key -> Seq(Resp)] /\ gift' \in [Exch -> SUBSET Resp] /\ pc' \in [Exch -> PcSet]
    BY <1>1, <1>2, <1>3 DEF PcSet
  <2>2. QED
    BY <1>1, <2>1 DEF Safe, TypeOK
<1>7. Guarded'
  BY <1>1, <1>2 DEF Safe, Guarded, Critical
<1>8. Stacked'
  BY <1>1 DEF Safe, Stacked
<1>9. Asked'
  BY <1>1, <1>2 DEF Safe, Asked
<1>10. Held'
  BY <1>1, <1>2, <1>4 DEF Held, Critical
<1>11. PreparedExact'
  <2>1. \A p \in Resp : ~HalfErased(p)'
    BY <1>1, <1>2, <1>4 DEF HalfErased, Critical
  <2>2. ASSUME NEW p \in Resp PROVE HalfErased(p) <=> p = h
    <3>1. HalfErased(h)
      BY <1>1 DEF HalfErased
    <3>2. ASSUME HalfErased(p) PROVE p = h
      <4>1. PICK f \in Exch, d \in Key : pc[f] = "erase" /\ Found(f, d) /\ p = Head(prepared[d])
        BY <3>2 DEF HalfErased
      <4>2. f = e
        BY <1>4, <4>1 DEF Critical
      <4>3. d = c
        BY <1>1, <4>1, <4>2, OneClient
      <4>4. QED
        BY <4>1, <4>3
    <3>3. QED
      BY <3>1, <3>2
  <2>3. /\ \A d \in Key : \A j \in 1 .. Len(prepared[d]) : \E k \in Route : key[prepared[d][j]] = {<<d, k>>}
        /\ \A d \in Key : \A i, j \in 1 .. Len(prepared[d]) : prepared[d][i] = prepared[d][j] => i = j
        /\ \A p \in Resp : InMap(p) <=> obj[p] = "queued" \/ HalfErased(p)
    BY <1>1 DEF Safe, PreparedExact
  <2>4. \A d \in Key \ {c} : \A j \in 1 .. Len(prepared[d]) : prepared[d][j] # h
    <3>1. PICK k \in Route : key[h] = {<<c, k>>}
      BY <1>3, <2>3
    <3>2. ASSUME NEW d \in Key, NEW l \in Route, key[h] = {<<d, l>>} PROVE d = c
      <4>1. <<d, l>> \in {<<c, k>>}
        BY <3>1, <3>2
      <4>2. <<d, l>> = <<c, k>>
        BY <4>1
      <4>3. QED
        BY <4>2
    <3>3. QED
      BY <2>3, <3>2
  <2>5. ASSUME NEW p \in Resp PROVE InMap(p)' <=> InMap(p) /\ p # h
    <3>1. ASSUME NEW d \in Key \ {c}
          PROVE  (\E j \in 1 .. Len(prepared'[d]) : prepared'[d][j] = p)
                 <=> (\E j \in 1 .. Len(prepared[d]) : prepared[d][j] = p) /\ p # h
      BY <1>5, <2>4
    <3>2. (\E j \in 1 .. Len(Tail(s)) : Tail(s)[j] = p) <=> (\E j \in 1 .. Len(s) : s[j] = p) /\ p # h
      <4>1. ASSUME NEW j \in 1 .. Len(Tail(s)), Tail(s)[j] = p
            PROVE  j + 1 \in 1 .. Len(s) /\ s[j + 1] = p /\ p # h
        <5>1. j + 1 \in 1 .. Len(s) /\ 1 \in 1 .. Len(s) /\ j + 1 # 1 /\ s[j + 1] = p
          BY <1>3, <4>1
        <5>2. s[j + 1] # s[1]
          BY <2>3, <5>1
        <5>3. QED
          BY <1>3, <5>1, <5>2
      <4>2. ASSUME NEW j \in 1 .. Len(s), s[j] = p, p # h
            PROVE  j - 1 \in 1 .. Len(Tail(s)) /\ Tail(s)[j - 1] = p
        <5>1. j # 1
          BY <1>3, <4>2
        <5>2. j - 1 \in 1 .. Len(s) - 1 /\ (j - 1) + 1 = j
          BY <1>3, <5>1
        <5>3. QED
          BY <1>3, <4>2, <5>2
      <4>3. QED
        BY <4>1, <4>2
    <3>3. QED
      BY <1>5, <3>1, <3>2, ZenonT(40) DEF InMap
  <2>6. ASSUME NEW d \in Key, NEW j \in 1 .. Len(prepared'[d])
        PROVE  \E k \in Route : key'[prepared'[d][j]] = {<<d, k>>}
    <3>1. CASE d = c
      <4>0. Len(prepared'[d]) = Len(s) - 1 /\ prepared'[d] = Tail(s)
        BY <1>3, <1>5, <3>1
      <4>1. j \in 1 .. Len(s) - 1 /\ j + 1 \in 1 .. Len(s) /\ prepared'[c][j] = s[j + 1]
        BY <1>3, <3>1, <4>0
      <4>2. QED
        BY <1>1, <2>3, <3>1, <4>1, SMTT(30)
    <3>2. CASE d # c
      BY <1>1, <1>5, <2>3, <3>2
    <3>3. QED
      BY <3>1, <3>2
  <2>7. ASSUME NEW d \in Key, NEW i \in 1 .. Len(prepared'[d]), NEW j \in 1 .. Len(prepared'[d]),
               prepared'[d][i] = prepared'[d][j]
        PROVE  i = j
    <3>1. CASE d = c
      <4>0. Len(prepared'[d]) = Len(s) - 1 /\ prepared'[d] = Tail(s)
        BY <1>3, <1>5, <3>1
      <4>1. /\ i + 1 \in 1 .. Len(s) /\ prepared'[c][i] = s[i + 1]
            /\ j + 1 \in 1 .. Len(s) /\ prepared'[c][j] = s[j + 1]
        BY <1>3, <3>1, <4>0
      <4>2. i + 1 = j + 1
        BY <2>3, <2>7, <3>1, <4>1
      <4>3. QED
        BY <1>3, <1>5, <2>7, <3>1, <4>2
    <3>2. CASE d # c
      BY <1>5, <2>3, <2>7, <3>2
    <3>3. QED
      BY <3>1, <3>2
  <2>8. ASSUME NEW p \in Resp PROVE InMap(p)' <=> obj'[p] = "queued" \/ HalfErased(p)'
    BY <1>1, <1>2, <2>1, <2>2, <2>3, <2>5
  <2>9. QED
    BY <2>6, <2>7, <2>8 DEF PreparedExact
<1>12. QED
  BY <1>6, <1>7, <1>8, <1>9, <1>10, <1>11 DEF Safe

\* A new exchange holds nothing.
LEMMA ArriveSafe ==
    ASSUME Safe, NEW e \in Exch, NEW c \in Key, NEW k \in Route, Arrive(e, c, k)
    PROVE  Safe'
<1>1. /\ pc[e] = "none" /\ ask' = [ask EXCEPT ![e] = {<<c, k>>}] /\ pc' = [pc EXCEPT ![e] = "lookup"]
      /\ UNCHANGED <<alive, prepared, mutex, obj, key, stack, adding, kept, gift, fault>>
  BY DEF Arrive, Goto, main
<1>2. pc \in [Exch -> PcSet] /\ ask \in [Exch -> Asks] /\ {<<c, k>>} \in Asks
  <2>1. {<<c, k>>} \in Asks
    BY DEF Asks
  <2>2. QED
    BY <2>1 DEF Safe, TypeOK
<1>3. \A f \in Exch \ {e} : pc'[f] = pc[f] /\ ask'[f] = ask[f]
  BY <1>1, <1>2
<1>4. TypeOK'
  BY <1>1, <1>2 DEF Safe, TypeOK, PcSet
<1>5. Guarded'
  BY <1>1, <1>2 DEF Safe, Guarded, Critical
<1>6. Stacked'
  BY <1>1 DEF Safe, Stacked
<1>7. Asked'
  BY <1>1, <1>2, <1>3 DEF Safe, Asked
<1>8. ASSUME NEW f \in Exch, NEW d \in Key, pc'[f] \in {"reply", "erase"}
      PROVE  f # e /\ (Found(f, d)' <=> Found(f, d)) /\ pc'[f] = pc[f]
  <2>1. f # e
    BY <1>1, <1>2, <1>8
  <2>2. QED
    BY <1>3, <2>1 DEF Found
<1>9. Held'
  <2>1. ASSUME NEW f \in Exch, NEW p PROVE f # e => (ShouldRespond(p, f) => ShouldRespond(p, f)')
    BY <1>1, <1>3 DEF ShouldRespond
  <2> SUFFICES ASSUME alive, NEW f \in Exch, NEW d \in Key, Found(f, d)', pc'[f] \in {"reply", "erase"}
               PROVE  /\ prepared[d] # <<>>
                      /\ ShouldRespond(Head(prepared[d]), f)'
                      /\ obj[Head(prepared[d])] = IF pc'[f] = "reply" THEN "queued" ELSE "freed"
    BY <1>1 DEF Held, ShouldRespond
  <2>2. QED
    BY <1>1, <1>3, <1>8 DEF Safe, Held, ShouldRespond
<1>10. PreparedExact'
  <2>1. ASSUME NEW p \in Resp PROVE HalfErased(p)' <=> HalfErased(p)
    <3>1. HalfErased(p)' => HalfErased(p)
      BY <1>1, <1>8 DEF HalfErased
    <3>2. HalfErased(p) => HalfErased(p)'
      BY <1>1, <1>3 DEF HalfErased, Found
    <3>3. QED
      BY <3>1, <3>2
  <2>2. QED
    BY <1>1, <2>1 DEF Safe, PreparedExact, InMap
<1>11. QED
  BY <1>4, <1>5, <1>6, <1>7, <1>9, <1>10 DEF Safe

-----------------------------------------------------------------------------
(* Steps of the main thread.                                               *)

\* A step that changes no exchange, no vector and no response that is queued
\* or freed keeps what the critical section relies on.
LEMMA MapKept ==
    ASSUME Safe, UNCHANGED <<alive, prepared, pc, ask>>,
           \A p \in Resp : obj[p] \in {"queued", "freed"} => key'[p] = key[p],
           \A p \in Resp : (obj'[p] = "queued" <=> obj[p] = "queued") /\ (obj'[p] = "freed" <=> obj[p] = "freed")
    PROVE  Held' /\ PreparedExact'
<1>1. \A p \in Resp : InMap(p)' <=> InMap(p)
  BY DEF InMap
<1>2. \A p \in Resp : HalfErased(p)' <=> HalfErased(p)
  BY DEF HalfErased, Found
<1>3. prepared \in [Key -> Seq(Resp)]
  BY DEF Safe, TypeOK
<1>4. Held'
  <2> SUFFICES ASSUME alive, NEW f \in Exch, NEW d \in Key, Found(f, d)', pc'[f] \in {"reply", "erase"}
               PROVE  /\ prepared[d] # <<>>
                      /\ ShouldRespond(Head(prepared[d]), f)'
                      /\ obj'[Head(prepared[d])] = IF pc'[f] = "reply" THEN "queued" ELSE "freed"
    BY DEF Held, ShouldRespond
  <2> DEFINE h == Head(prepared[d])
  <2>1. Found(f, d) /\ pc[f] \in {"reply", "erase"}
    BY DEF Found
  <2>2. /\ prepared[d] # <<>> /\ ShouldRespond(h, f)
        /\ obj[h] = IF pc[f] = "reply" THEN "queued" ELSE "freed"
    BY <2>1 DEF Safe, Held
  <2>3. h \in Resp
    BY <1>3, <2>2, PopVector
  <2>4. key'[h] = key[h] /\ obj'[h] = obj[h]
    BY <2>2, <2>3
  <2>5. QED
    BY <2>2, <2>4 DEF ShouldRespond
<1>5. PreparedExact'
  <2>1. ASSUME alive, NEW c \in Key, NEW j \in 1 .. Len(prepared[c])
        PROVE  \E k \in Route : key'[prepared[c][j]] = {<<c, k>>}
    <3>1. prepared[c][j] \in Resp /\ InMap(prepared[c][j])
      BY <1>3, ElementOfSeq DEF InMap
    <3>2. obj[prepared[c][j]] = "queued" \/ HalfErased(prepared[c][j])
      BY <2>1, <3>1 DEF Safe, PreparedExact
    <3>3. HalfErased(prepared[c][j]) => obj[prepared[c][j]] = "freed"
      BY <2>1 DEF Safe, Held, HalfErased
    <3>4. QED
      BY <2>1, <3>1, <3>2, <3>3 DEF Safe, PreparedExact
  <2>2. ASSUME alive, NEW p \in Resp PROVE InMap(p)' <=> obj'[p] = "queued" \/ HalfErased(p)'
    BY <1>1, <1>2, <2>2 DEF Safe, PreparedExact
  <2>3. QED
    BY <2>1, <2>2 DEF Safe, PreparedExact
<1>6. QED
  BY <1>4, <1>5

\* AddPreparedResponse starts.
LEMMA PrepareSafe ==
    ASSUME Safe, NEW p \in Resp, NEW c \in Key, NEW k \in Route, Prepare(p, c, k)
    PROVE  Safe'
<1>1. /\ obj[p] = "none" /\ obj' = [obj EXCEPT ![p] = "building"] /\ key' = [key EXCEPT ![p] = {<<c, k>>}]
      /\ stack' = Append(stack, p) /\ Len(stack) < MaxNest /\ adding = "no"
      /\ UNCHANGED <<alive, prepared, mutex, pc, ask, adding, kept, gift, fault>>
  BY DEF Prepare, LuaRuns
<1>2. /\ obj \in [Resp -> {"none", "building", "queued", "freed"}] /\ key \in [Resp -> Asks]
      /\ stack \in Seq(Resp) /\ {<<c, k>>} \in Asks
  <2>1. {<<c, k>>} \in Asks
    BY DEF Asks
  <2>2. QED
    BY <2>1 DEF Safe, TypeOK
<1>3. /\ Len(stack) \in Nat /\ stack' \in Seq(Resp) /\ Len(stack') = Len(stack) + 1
      /\ stack'[Len(stack) + 1] = p /\ \A j \in 1 .. Len(stack) : stack'[j] = stack[j]
  BY <1>1, <1>2, AppendProperties, LenProperties
<1>4. TypeOK'
  <2>1. Len(stack') <= MaxNest
    BY <1>1, <1>3, NestAssumption
  <2>2. obj' \in [Resp -> {"none", "building", "queued", "freed"}] /\ key' \in [Resp -> Asks]
    BY <1>1, <1>2
  <2>3. QED
    BY <1>1, <1>3, <2>1, <2>2 DEF Safe, TypeOK
<1>5. Guarded'
  BY <1>1 DEF Safe, Guarded
<1>6. Stacked'
  <2>1. \A j \in 1 .. Len(stack) : stack[j] # p
    BY <1>1 DEF Safe, Stacked
  <2>2. ASSUME NEW q \in Resp PROVE obj'[q] = "building" <=> \E j \in 1 .. Len(stack') : stack'[j] = q
    <3>1. CASE q = p
      <4>1. obj'[p] = "building" /\ Len(stack) + 1 \in 1 .. Len(stack')
        BY <1>1, <1>2, <1>3
      <4>2. QED
        BY <1>3, <3>1, <4>1
    <3>2. CASE q # p
      <4>1. (\E j \in 1 .. Len(stack') : stack'[j] = q) <=> \E j \in 1 .. Len(stack) : stack[j] = q
        BY <1>3, <3>2
      <4>2. QED
        BY <1>1, <1>2, <3>2, <4>1 DEF Safe, Stacked
    <3>3. QED
      BY <3>1, <3>2
  <2>3. ASSUME NEW i \in 1 .. Len(stack'), NEW j \in 1 .. Len(stack'), stack'[i] = stack'[j] PROVE i = j
    BY <1>3, <2>1, <2>3 DEF Safe, Stacked
  <2>4. \A q \in Resp : obj'[q] # "none" => \E d \in Key, l \in Route : key'[q] = {<<d, l>>}
    BY <1>1, <1>2 DEF Safe, Stacked
  <2>5. QED
    BY <1>1, <2>2, <2>3, <2>4 DEF Stacked
<1>7. Asked'
  BY <1>1 DEF Safe, Asked
<1>8. Held' /\ PreparedExact'
  BY <1>1, <1>2, MapKept
<1>9. QED
  BY <1>4, <1>5, <1>6, <1>7, <1>8 DEF Safe

\* Its callback returns, and it takes the mutex.
LEMMA WaitSafe ==
    ASSUME Safe, AddLock \/ \E keeps \in BOOLEAN : Return(keeps)
    PROVE  Safe'
<1>1. CASE AddLock
  <2>1. /\ mutex' = {"main"} /\ mutex = {} /\ adding = "lock" /\ adding' = "push"
        /\ UNCHANGED <<alive, prepared, pc, ask, obj, key, stack, kept, gift, fault>>
    BY <1>1 DEF AddLock, MutexFree
  <2>2. TypeOK'
    BY <2>1 DEF Safe, TypeOK, Holders
  <2>3. Guarded'
    BY <2>1, ExchAssumption DEF Safe, Guarded
  <2>4. Stacked' /\ Asked'
    BY <2>1 DEF Safe, Stacked, Asked
  <2>5. Held' /\ PreparedExact'
    BY <2>1, MapKept
  <2>6. QED
    BY <2>2, <2>3, <2>4, <2>5 DEF Safe
<1>2. ASSUME NEW keeps \in BOOLEAN, Return(keeps) PROVE Safe'
  <2>1. /\ adding = "no" /\ adding' = "lock" /\ stack # <<>> /\ kept' \in {kept, kept \cup {Building}}
        /\ UNCHANGED <<alive, prepared, mutex, pc, ask, obj, key, stack, gift, fault>>
    BY <1>2 DEF Return, LuaRuns
  <2>2. Building \in Resp
    BY <2>1, PopStack DEF Safe, TypeOK, Building
  <2>3. TypeOK'
    BY <2>1, <2>2 DEF Safe, TypeOK
  <2>4. Guarded' /\ Stacked' /\ Asked'
    BY <2>1 DEF Safe, Guarded, Stacked, Asked
  <2>5. Held' /\ PreparedExact'
    BY <2>1, MapKept
  <2>6. QED
    BY <2>3, <2>4, <2>5 DEF Safe
<1>3. QED
  BY <1>1, <1>2

\* The response that was built goes to the end of its vector.
LEMMA AddSafe ==
    ASSUME Safe, NEW c \in Key, AddPush(c)
    PROVE  Safe'
<1> DEFINE s == prepared[c]
           b == Building
<1>1. PICK k \in Route : key[b] = {<<c, k>>}
  BY DEF AddPush
<1>2. /\ adding = "push" /\ adding' = "no" /\ stack' = Pop(stack)
      /\ prepared' = [prepared EXCEPT ![c] = Append(s, b)] /\ obj' = [obj EXCEPT ![b] = "queued"]
      /\ mutex' = mutex \ {"main"}
      /\ UNCHANGED <<alive, pc, ask, key, kept, gift, fault>>
  BY DEF AddPush, Pop
<1>3. /\ obj \in [Resp -> {"none", "building", "queued", "freed"}]
      /\ prepared \in [Key -> Seq(Resp)] /\ stack \in Seq(Resp)
      /\ s \in Seq(Resp) /\ stack # <<>> /\ Len(stack) <= MaxNest
  BY <1>2 DEF Safe, TypeOK, Stacked
<1>4. /\ Len(stack) \in Nat \ {0} /\ b \in Resp /\ b = stack[Len(stack)]
      /\ stack' \in Seq(Resp) /\ Len(stack') = Len(stack) - 1
      /\ \A j \in 1 .. Len(stack) - 1 : stack'[j] = stack[j]
  BY <1>2, <1>3, PopStack DEF Building
<1>5. obj[b] = "building"
  <2>1. Len(stack) \in 1 .. Len(stack)
    BY <1>4
  <2>2. QED
    BY <1>4, <2>1 DEF Safe, Stacked
<1>6. /\ Len(s) \in Nat /\ Append(s, b) \in Seq(Resp) /\ Len(Append(s, b)) = Len(s) + 1
      /\ Append(s, b)[Len(s) + 1] = b /\ \A j \in 1 .. Len(s) : Append(s, b)[j] = s[j]
  BY <1>3, <1>4, AppendProperties, LenProperties
<1>7. prepared'[c] = Append(s, b) /\ \A d \in Key \ {c} : prepared'[d] = prepared[d]
  BY <1>2, <1>3
<1>8. mutex = {"main"} /\ mutex' = {} /\ \A e \in Exch : pc[e] \notin Critical
  BY <1>2, Exclusive DEF Safe
<1>9. TypeOK'
  <2>1. mutex' \in Holders /\ Len(stack') <= MaxNest
    BY <1>3, <1>4, <1>8, NestAssumption DEF Holders
  <2>2. prepared' \in [Key -> Seq(Resp)] /\ obj' \in [Resp -> {"none", "building", "queued", "freed"}]
    BY <1>2, <1>3, <1>4, <1>6
  <2>3. QED
    BY <1>2, <1>4, <2>1, <2>2 DEF Safe, TypeOK
<1>10. Guarded'
  BY <1>2, <1>8 DEF Safe, Guarded
<1>11. Stacked'
  <2>1. ASSUME NEW q \in Resp
        PROVE  (\E j \in 1 .. Len(stack') : stack'[j] = q) <=> (\E j \in 1 .. Len(stack) : stack[j] = q) /\ q # b
    <3>1. ASSUME NEW j \in 1 .. Len(stack'), stack'[j] = q
          PROVE  j \in 1 .. Len(stack) /\ stack[j] = q /\ q # b
      <4>1. j \in 1 .. Len(stack) /\ j # Len(stack) /\ stack[j] = q /\ Len(stack) \in 1 .. Len(stack)
        BY <1>4, <3>1
      <4>2. stack[j] # stack[Len(stack)]
        BY <4>1 DEF Safe, Stacked
      <4>3. QED
        BY <1>4, <4>1, <4>2
    <3>2. ASSUME NEW j \in 1 .. Len(stack), stack[j] = q, q # b
          PROVE  j \in 1 .. Len(stack') /\ stack'[j] = q
      BY <1>4, <3>2
    <3>3. QED
      BY <3>1, <3>2
  <2>2. \A q \in Resp : obj'[q] = "building" <=> \E j \in 1 .. Len(stack') : stack'[j] = q
    BY <1>2, <1>3, <2>1 DEF Safe, Stacked
  <2>3. ASSUME NEW i \in 1 .. Len(stack'), NEW j \in 1 .. Len(stack'), stack'[i] = stack'[j] PROVE i = j
    <3>1. i \in 1 .. Len(stack) /\ j \in 1 .. Len(stack) /\ stack[i] = stack[j]
      BY <1>4, <2>3
    <3>2. \A m, n \in 1 .. Len(stack) : stack[m] = stack[n] => m = n
      BY DEF Safe, Stacked
    <3>3. QED
      BY <3>1, <3>2
  <2>4. \A q \in Resp : obj'[q] # "none" => \E d \in Key, l \in Route : key'[q] = {<<d, l>>}
    <3>1. \A q \in Resp : obj[q] # "none" => \E d \in Key, l \in Route : key[q] = {<<d, l>>}
      BY DEF Safe, Stacked
    <3>2. \A q \in Resp : obj'[q] # "none" => obj[q] # "none"
      BY <1>2, <1>3, <1>5
    <3>3. QED
      BY <1>2, <3>1, <3>2
  <2>5. QED
    BY <1>2, <2>2, <2>3, <2>4 DEF Stacked
<1>12. Asked'
  BY <1>2 DEF Safe, Asked
<1>13. Held'
  BY <1>2, <1>8 DEF Held, Critical
<1>14. PreparedExact'
  <2> SUFFICES ASSUME alive PROVE PreparedExact'
    BY <1>2 DEF PreparedExact
  <2>1. (\A p \in Resp : ~HalfErased(p)) /\ (\A p \in Resp : ~HalfErased(p)')
    BY <1>2, <1>8 DEF HalfErased, Critical
  <2>2. /\ \A d \in Key : \A j \in 1 .. Len(prepared[d]) : \E l \in Route : key[prepared[d][j]] = {<<d, l>>}
        /\ \A d \in Key : \A i, j \in 1 .. Len(prepared[d]) : prepared[d][i] = prepared[d][j] => i = j
        /\ \A p \in Resp : InMap(p) <=> obj[p] = "queued" \/ HalfErased(p)
    BY DEF Safe, PreparedExact
  <2>3. ~InMap(b)
    BY <1>4, <1>5, <2>1, <2>2
  <2>4. ASSUME NEW p \in Resp PROVE InMap(p)' <=> InMap(p) \/ p = b
    <3>1. (\E j \in 1 .. Len(Append(s, b)) : Append(s, b)[j] = p) <=> (\E j \in 1 .. Len(s) : s[j] = p) \/ p = b
      <4>1. Len(s) + 1 \in 1 .. Len(Append(s, b))
        BY <1>6
      <4>2. QED
        BY <1>6, <4>1
    <3>2. QED
      BY <1>7, <3>1 DEF InMap
  <2>5. ASSUME NEW d \in Key, NEW j \in 1 .. Len(prepared'[d])
        PROVE  \E l \in Route : key'[prepared'[d][j]] = {<<d, l>>}
    <3>1. CASE d = c
      <4>1. prepared'[d] = Append(s, b) /\ Len(prepared'[d]) = Len(s) + 1
        BY <1>6, <1>7, <3>1
      <4>2. j = Len(s) + 1 \/ j \in 1 .. Len(s)
        BY <1>6, <4>1
      <4>3. prepared'[d][j] = b \/ (j \in 1 .. Len(s) /\ prepared'[d][j] = s[j])
        BY <1>6, <4>1, <4>2
      <4>4. QED
        BY <1>1, <1>2, <2>2, <3>1, <4>3
    <3>2. CASE d # c
      BY <1>2, <1>7, <2>2, <3>2
    <3>3. QED
      BY <3>1, <3>2
  <2>6. ASSUME NEW d \in Key, NEW i \in 1 .. Len(prepared'[d]), NEW j \in 1 .. Len(prepared'[d]),
               prepared'[d][i] = prepared'[d][j]
        PROVE  i = j
    <3>1. CASE d = c
      <4>1. prepared'[d] = Append(s, b) /\ Len(prepared'[d]) = Len(s) + 1
        BY <1>6, <1>7, <3>1
      <4>2. \A n \in 1 .. Len(s) : s[n] # b
        BY <2>3 DEF InMap
      <4>3. \A n \in 1 .. Len(s) + 1 :
              IF n = Len(s) + 1 THEN prepared'[d][n] = b ELSE n \in 1 .. Len(s) /\ prepared'[d][n] = s[n]
        BY <1>6, <4>1
      <4>4. i \in 1 .. Len(s) + 1 /\ j \in 1 .. Len(s) + 1
        BY <4>1
      <4>5. QED
        BY <2>2, <2>6, <3>1, <4>2, <4>3, <4>4
    <3>2. CASE d # c
      BY <1>7, <2>2, <2>6, <3>2
    <3>3. QED
      BY <3>1, <3>2
  <2>7. ASSUME NEW p \in Resp PROVE InMap(p)' <=> obj'[p] = "queued" \/ HalfErased(p)'
    BY <1>2, <1>3, <1>5, <2>1, <2>2, <2>3, <2>4
  <2>8. QED
    BY <2>5, <2>6, <2>7 DEF PreparedExact
<1>15. QED
  BY <1>9, <1>10, <1>11, <1>12, <1>13, <1>14 DEF Safe

\* The server and every response in the map are deleted.
LEMMA DestroySafe ==
    ASSUME Safe, Destroy
    PROVE  Safe'
<1>1. /\ alive' = FALSE /\ adding = "no" /\ prepared' = [c \in Key |-> <<>>]
      /\ obj' = [p \in Resp |-> IF InMap(p) THEN "freed" ELSE obj[p]]
      /\ fault' \in {fault, "main"}
      /\ UNCHANGED <<mutex, pc, ask, key, stack, adding, kept, gift>>
  BY DEF Destroy, LuaRuns, main
<1>2. \A p \in Resp : InMap(p) => obj[p] \in {"queued", "freed"}
  <2>1. \A p \in Resp : HalfErased(p) => obj[p] = "freed"
    BY DEF Destroy, Safe, Held, HalfErased
  <2>2. QED
    BY <2>1 DEF Destroy, Safe, PreparedExact
<1>3. TypeOK'
  <2>1. prepared' \in [Key -> Seq(Resp)] /\ obj' \in [Resp -> {"none", "building", "queued", "freed"}]
    BY <1>1 DEF Safe, TypeOK
  <2>2. QED
    BY <1>1, <2>1 DEF Safe, TypeOK
<1>4. Guarded' /\ Asked'
  BY <1>1 DEF Safe, Guarded, Asked
<1>5. Stacked'
  BY <1>1, <1>2 DEF Safe, Stacked
<1>6. Held' /\ PreparedExact'
  BY <1>1 DEF Held, PreparedExact
<1>7. QED
  BY <1>3, <1>4, <1>5, <1>6 DEF Safe

-----------------------------------------------------------------------------
(* Safe is an invariant.                                                   *)

LEMMA StepSafe == Safe /\ [Next]_vars => Safe'
<1> SUFFICES ASSUME Safe, [Next]_vars PROVE Safe'
  OBVIOUS
<1>1. CASE UNCHANGED vars
  <2>1. fault' = fault /\ fault \in {"none", "worker", "main", "lua"}
    BY <1>1 DEF vars, Safe, TypeOK
  <2>2. QED
    BY <1>1, <2>1, FailSafe DEF vars
<1>2. CASE Next
  <2>1. ASSUME NEW e \in Exch, NEW c \in Key, NEW k \in Route, Arrive(e, c, k) PROVE Safe'
    BY <2>1, ArriveSafe
  <2>2. ASSUME NEW e \in Exch, Deny(e) \/ Lock(e) \/ Unlock(e) PROVE Safe'
    BY <2>2, WorkerWalks
  <2>3. ASSUME NEW e \in Exch, NEW c \in Key, alive /\ (Hit(e, c) \/ Miss(e, c)) PROVE Safe'
    BY <2>3, WorkerWalks
  <2>4. ASSUME NEW e \in Exch, NEW c \in Key, alive /\ (Reply(e, c) \/ Erase(e, c)) PROVE Safe'
    BY <2>4, ReplySafe, EraseSafe
  <2>5. ASSUME NEW p \in Resp, NEW c \in Key, NEW k \in Route, Prepare(p, c, k) PROVE Safe'
    BY <2>5, PrepareSafe
  <2>6. ASSUME AddLock \/ \E keeps \in BOOLEAN : Return(keeps) PROVE Safe'
    BY <2>6, WaitSafe
  <2>7. ASSUME NEW c \in Key, AddPush(c) PROVE Safe'
    BY <2>7, AddSafe
  <2>8. ASSUME Destroy PROVE Safe'
    BY <2>8, DestroySafe
  <2>9. ASSUME NEW who \in {"worker", "main", "lua"}, Fails(who) PROVE Safe'
    BY <2>9, FailSafe DEF Fails
  <2>10. QED
    BY <1>2, <2>1, <2>2, <2>3, <2>4, <2>5, <2>6, <2>7, <2>8, <2>9, NextCases
<1>3. QED
  BY <1>1, <1>2

\* Safe holds in every state.
THEOREM SafeHolds == Spec => []Safe
BY InitSafe, StepSafe, PTL DEF Spec

\* Every variable of PreparedResponses keeps its type: in particular the mutex
\* never has two holders.
THEOREM TypeCorrect == Spec => []TypeOK
<1>1. Safe => TypeOK
  BY DEF Safe
<1>2. QED
  BY <1>1, SafeHolds, PTL

\* m_pPreparedResponses holds every response that was added and not used yet,
\* once, under its client, and nothing that is freed, whatever the script
\* does in its callbacks and however the pool threads are scheduled.
THEOREM PreparedIsExact == Spec => []PreparedExact
<1>1. Safe => PreparedExact
  BY DEF Safe
<1>2. QED
  BY <1>1, SafeHolds, PTL

-----------------------------------------------------------------------------
(* How pool threads go wrong.                                              *)

\* OnlyMismatchFails speaks of the state the behaviour ends in.
LEMMA StepMismatch == Safe /\ OnlyMismatchFails /\ [Next]_vars => OnlyMismatchFails'
<1> SUFFICES ASSUME Safe, OnlyMismatchFails, [Next]_vars, fault' = "worker", alive'
             PROVE  \E e \in Exch, c \in Key :
                      /\ pc'[e] = "scan" /\ Found(e, c)' /\ prepared'[c] # <<>>
                      /\ obj'[Head(prepared'[c])] = "queued"
                      /\ ~ShouldRespond(Head(prepared[c]), e)'
  BY DEF OnlyMismatchFails
<1>1. CASE UNCHANGED vars
  BY <1>1 DEF OnlyMismatchFails, vars, Found, ShouldRespond
<1>2. CASE Next
  <2>1. PICK e \in Exch : (alive /\ \E c \in Key : WalkOff(e, c)) \/ Orphan(e)
    <3>1. fault = "none"
      BY <1>2 DEF Next
    <3>2. ~Main
      BY <3>1 DEF Main, AddLock, AddOrphan, Destroy, AddPush, Rewrite, Prepare, Return
    <3>3. QED
      BY <1>2, <3>1, <3>2
         DEF Next, Arrive, Worker, Deny, Lock, Unlock, Hit, Miss, Reply, Erase
  <2>2. PICK c \in Key : alive /\ WalkOff(e, c)
    BY <2>1 DEF Orphan
  <2>3. obj[Head(prepared[c])] = "queued"
    BY <2>2, HeadQueued DEF WalkOff
  <2>4. QED
    BY <2>2, <2>3 DEF WalkOff, Found, ShouldRespond
<1>3. QED
  BY <1>1, <1>2

\* While the server lives, a pool thread goes wrong in no other way than by
\* finding a response for another route first in the vector of its client.
THEOREM OnlyMismatch == Spec => []OnlyMismatchFails
<1>1. Init => OnlyMismatchFails
  BY DEF Init, OnlyMismatchFails
<1>2. QED
  BY <1>1, StepMismatch, SafeHolds, PTL DEF Spec

\* m_pPreparedResponsesMutex is held only where its holder goes on by itself, by
\* the lookup of a pool thread or by an addition that has left its callback, for
\* any number of exchanges and nested callbacks.
THEOREM MutexIsPassedOn == Spec => []HeldToPassOn
<1>1. Safe => HeldToPassOn
  <2>1. SUFFICES ASSUME Safe, mutex # {} PROVE HeldToPassOn
    BY DEF HeldToPassOn
  <2>2. mutex = {"main"} \/ \E e \in Exch : mutex = {e}
    BY <2>1 DEF Safe, TypeOK, Holders
  <2>3. CASE mutex = {"main"}
    BY <2>1, <2>3 DEF Safe, Guarded, HeldToPassOn
  <2>4. ASSUME NEW e \in Exch, mutex = {e} PROVE HeldToPassOn
    BY <2>1, <2>4 DEF Safe, Guarded, Critical, HeldToPassOn
  <2>5. QED
    BY <2>2, <2>3, <2>4
<1>2. QED
  BY <1>1, SafeHolds, PTL

-----------------------------------------------------------------------------
(* PreparedResponses implements PreparedQueue.                             *)

QueueVars == <<prepared, About, ask, gift, Passed>>

LEMMA RouteOfKey ==
    ASSUME NEW p, NEW c \in Key, NEW k \in Route, key[p] = {<<c, k>>}
    PROVE  RouteOf(p) = {k}
<1>1. \A l \in Route, d \in Key : key[p] = {<<d, l>>} => l = k
  <2>1. ASSUME NEW l \in Route, NEW d \in Key, key[p] = {<<d, l>>} PROVE l = k
    <3>1. <<d, l>> \in {<<c, k>>}
      BY <2>1
    <3>2. <<d, l>> = <<c, k>>
      BY <3>1
    <3>3. QED
      BY <3>2
  <2>2. QED
    BY <2>1
<1>2. QED
  BY <1>1 DEF RouteOf

\* When About and Passed stay the same.
LEMMA AboutSame ==
    ASSUME \A p \in Resp : obj'[p] \in {"queued", "freed"} <=> obj[p] \in {"queued", "freed"},
           \A p \in Resp : obj[p] \in {"queued", "freed"} => key'[p] = key[p]
    PROVE  About' = About
BY DEF About, RouteOf

LEMMA PassedSame ==
    ASSUME \A e \in Exch : pc'[e] \in {"miss", "main"} <=> pc[e] \in {"miss", "main"}
    PROVE  Passed' = Passed
BY DEF Passed

\* An exchange in the critical section has no response yet, and has not passed.
LEMMA GivenOpen ==
    ASSUME Safe, NEW e \in Exch, pc[e] \in {"scan", "erase"}
    PROVE  Queue!Open(e)
BY DEF Safe, Asked, Passed, Queue!Open

LEMMA QueueInit == Init => Queue!Init
<1> SUFFICES ASSUME Init PROVE Queue!Init
  OBVIOUS
<1>1. About = [p \in Resp |-> {}]
  BY DEF Init, About
<1>2. Passed = {}
  BY DEF Init, Passed
<1>3. QED
  BY <1>1, <1>2 DEF Init, Queue!Init

LEMMA ArriveComes ==
    ASSUME Safe, NEW e \in Exch, NEW c \in Key, NEW k \in Route, Arrive(e, c, k)
    PROVE  Queue!Come(e, c, k)
<1>1. /\ pc[e] = "none" /\ pc' = [pc EXCEPT ![e] = "lookup"] /\ ask' = [ask EXCEPT ![e] = {<<c, k>>}]
      /\ UNCHANGED <<prepared, obj, key, gift>>
  BY DEF Arrive, Goto
<1>2. ask[e] = {} /\ pc \in [Exch -> PcSet]
  BY <1>1 DEF Safe, Asked, TypeOK
<1>3. About' = About /\ Passed' = Passed
  BY <1>1, <1>2, AboutSame, PassedSame
<1>4. QED
  BY <1>1, <1>2, <1>3 DEF Queue!Come

LEMMA MissPasses ==
    ASSUME Safe, NEW e \in Exch, NEW c \in Key, Miss(e, c)
    PROVE  \E k \in Route : Queue!Pass(e, c, k)
<1>1. /\ pc[e] = "scan" /\ pc' = [pc EXCEPT ![e] = "miss"] /\ prepared[c] = <<>>
      /\ UNCHANGED <<prepared, ask, obj, key, gift>>
  BY DEF Miss, Goto
<1>2. PICK k \in Route : ask[e] = {<<c, k>>}
  BY DEF Miss, Found
<1>3. About' = About
  BY <1>1, AboutSame
<1>4. Queue!Open(e) /\ pc \in [Exch -> PcSet]
  BY <1>1, GivenOpen DEF Safe, TypeOK
<1>5. Passed' = Passed \cup {e}
  BY <1>1, <1>4 DEF Passed
<1>6. \A j \in 1 .. Len(prepared[c]) : About[prepared[c][j]] # {k}
  BY <1>1
<1>7. QED
  BY <1>1, <1>2, <1>3, <1>4, <1>5, <1>6 DEF Queue!Pass

LEMMA EraseGives ==
    ASSUME Safe, NEW e \in Exch, NEW c \in Key, alive, Erase(e, c)
    PROVE  \E k \in Route : Queue!Give(e, c, k)
<1> DEFINE h == Head(prepared[c])
<1>1. /\ pc[e] = "erase" /\ pc' = [pc EXCEPT ![e] = "unlock"] /\ Found(e, c)
      /\ gift' = [gift EXCEPT ![e] = {h}] /\ prepared' = [prepared EXCEPT ![c] = Tail(@)]
      /\ UNCHANGED <<ask, obj, key>>
  BY DEF Erase, Erased, Goto
<1>2. /\ prepared[c] # <<>> /\ ShouldRespond(h, e) /\ obj[h] = "freed"
      /\ prepared[c] \in Seq(Resp) /\ pc \in [Exch -> PcSet] /\ gift \in [Exch -> SUBSET Resp]
  BY <1>1 DEF Safe, TypeOK, Held
<1>3. h \in Resp
  BY <1>2, PopVector
<1>4. PICK d \in Key, k \in Route : key[h] = {<<d, k>>} /\ ask[e] = {<<d, k>>}
  BY <1>2 DEF ShouldRespond
<1>5. d = c
  BY <1>1, <1>4, OneClient DEF Found
<1>6. About[h] = {k} /\ About' = About
  BY <1>1, <1>2, <1>3, <1>4, RouteOfKey, AboutSame DEF About
<1>7. Queue!Open(e)
  BY <1>1, GivenOpen
<1>8. Passed' = Passed
  <2>1. \A f \in Exch : pc'[f] \in {"miss", "main"} <=> pc[f] \in {"miss", "main"}
    BY <1>1, <1>2
  <2>2. QED
    BY <2>1, PassedSame
<1>9. QED
  BY <1>1, <1>2, <1>4, <1>5, <1>6, <1>7, <1>8 DEF Queue!Give

LEMMA AddPushAdds ==
    ASSUME Safe, NEW c \in Key, AddPush(c)
    PROVE  \E k \in Route, p \in Resp : Queue!Add(c, k, p)
<1> DEFINE b == Building
<1>1. PICK k \in Route : key[b] = {<<c, k>>}
  BY DEF AddPush
<1>2. /\ adding = "push" /\ prepared' = [prepared EXCEPT ![c] = Append(@, b)]
      /\ obj' = [obj EXCEPT ![b] = "queued"] /\ UNCHANGED <<pc, ask, key, gift>>
  BY DEF AddPush
<1>3. stack # <<>> /\ stack \in Seq(Resp) /\ obj \in [Resp -> {"none", "building", "queued", "freed"}]
  BY <1>2 DEF Safe, Stacked, TypeOK
<1>4. b \in Resp /\ Len(stack) \in 1 .. Len(stack)
  BY <1>3, PopStack DEF Building
<1>5. obj[b] = "building"
  BY <1>4 DEF Building, Safe, Stacked
<1>6. About[b] = {} /\ RouteOf(b) = {k}
  <2>1. RouteOf(b) = {k}
    BY <1>1, RouteOfKey
  <2>2. About[b] = {}
    BY <1>4, <1>5 DEF About
  <2>3. QED
    BY <2>1, <2>2
<1>7. \A p \in Resp : RouteOf(p)' = RouteOf(p)
  BY <1>2 DEF RouteOf
<1>8. About' = [About EXCEPT ![b] = {k}]
  BY <1>2, <1>3, <1>4, <1>6, <1>7 DEF About
<1>9. Passed' = Passed
  BY <1>2, PassedSame
<1>10. QED
  BY <1>2, <1>4, <1>6, <1>8, <1>9 DEF Queue!Add

LEMMA DestroyDrops ==
    ASSUME Safe, Destroy
    PROVE  Queue!Drop
<1>1. /\ prepared' = [c \in Key |-> <<>>] /\ obj' = [p \in Resp |-> IF InMap(p) THEN "freed" ELSE obj[p]]
      /\ UNCHANGED <<pc, ask, key, gift>>
  BY DEF Destroy
<1>2. \A p \in Resp : HalfErased(p) => obj[p] = "freed"
  BY DEF Destroy, Safe, Held, HalfErased
<1>3. \A p \in Resp : InMap(p) => obj[p] \in {"queued", "freed"}
  BY <1>2 DEF Destroy, Safe, PreparedExact
<1>4. About' = About /\ Passed' = Passed
  BY <1>1, <1>3, AboutSame, PassedSame
<1>5. QED
  BY <1>1, <1>4 DEF Queue!Drop

\* The steps that the queue does not see.
LEMMA Stutters ==
    ASSUME Safe,
           \/ \E e \in Exch :
                \/ Deny(e) \/ Lock(e) \/ Unlock(e)
                \/ \E c \in Key : Hit(e, c) \/ (alive /\ Reply(e, c))
           \/ \E p \in Resp, c \in Key, k \in Route : Prepare(p, c, k)
           \/ AddLock \/ \E keeps \in BOOLEAN : Return(keeps)
           \/ \E who \in {"worker", "main", "lua"} : Fails(who)
           \/ UNCHANGED vars
    PROVE  UNCHANGED QueueVars
<1>1. pc \in [Exch -> PcSet] /\ obj \in [Resp -> {"none", "building", "queued", "freed"}] /\ key \in [Resp -> Asks]
  BY DEF Safe, TypeOK
<1>2. ASSUME NEW e \in Exch, Deny(e) \/ Lock(e) \/ Unlock(e) \/ \E c \in Key : Hit(e, c)
      PROVE  UNCHANGED QueueVars
  <2>1. UNCHANGED <<prepared, ask, obj, key, gift>>
    BY <1>2 DEF Deny, Lock, Unlock, Hit
  <2>2. \A f \in Exch : pc'[f] \in {"miss", "main"} <=> pc[f] \in {"miss", "main"}
    BY <1>1, <1>2 DEF Deny, Lock, Unlock, Hit, Goto
  <2>3. QED
    BY <2>1, <2>2, AboutSame, PassedSame DEF QueueVars
<1>3. ASSUME NEW e \in Exch, NEW c \in Key, alive, Reply(e, c) PROVE UNCHANGED QueueVars
  <2>1. /\ pc[e] = "reply" /\ pc' = [pc EXCEPT ![e] = "erase"] /\ Found(e, c)
        /\ obj' = [obj EXCEPT ![Head(prepared[c])] = "freed"] /\ UNCHANGED <<prepared, ask, key, gift>>
    BY <1>3 DEF Reply, Goto
  <2>2. obj[Head(prepared[c])] = "queued"
    BY <1>3, <2>1 DEF Safe, Held
  <2>3. \A f \in Exch : pc'[f] \in {"miss", "main"} <=> pc[f] \in {"miss", "main"}
    BY <1>1, <2>1
  <2>4. \A p \in Resp : obj'[p] \in {"queued", "freed"} <=> obj[p] \in {"queued", "freed"}
    BY <1>1, <2>1, <2>2
  <2>5. QED
    BY <2>1, <2>3, <2>4, AboutSame, PassedSame DEF QueueVars
<1>4. ASSUME NEW p \in Resp, NEW c \in Key, NEW k \in Route, Prepare(p, c, k) PROVE UNCHANGED QueueVars
  <2>1. /\ obj[p] = "none" /\ obj' = [obj EXCEPT ![p] = "building"] /\ key' = [key EXCEPT ![p] = {<<c, k>>}]
        /\ UNCHANGED <<prepared, pc, ask, gift>>
    BY <1>4 DEF Prepare
  <2>2. QED
    BY <1>1, <2>1, AboutSame, PassedSame DEF QueueVars
<1>5. CASE AddLock \/ \E keeps \in BOOLEAN : Return(keeps)
  <2>1. UNCHANGED <<prepared, pc, ask, obj, key, gift>>
    BY <1>5 DEF AddLock, Return
  <2>2. QED
    BY <2>1, AboutSame, PassedSame DEF QueueVars
<1>6. CASE (\E who \in {"worker", "main", "lua"} : Fails(who)) \/ UNCHANGED vars
  <2>1. UNCHANGED <<prepared, pc, ask, obj, key, gift>>
    BY <1>6 DEF Fails, vars
  <2>2. QED
    BY <2>1, AboutSame, PassedSame DEF QueueVars
<1>7. QED
  BY <1>2, <1>3, <1>4, <1>5, <1>6

LEMMA QueueStep == Safe /\ [Next]_vars => [Queue!Next]_QueueVars
<1> SUFFICES ASSUME Safe, [Next]_vars PROVE [Queue!Next]_QueueVars
  OBVIOUS
<1>1. CASE UNCHANGED vars
  BY <1>1, Stutters
<1>2. CASE Next
  <2>1. ASSUME NEW e \in Exch, NEW c \in Key, NEW k \in Route, Arrive(e, c, k) PROVE Queue!Next
    BY <2>1, ArriveComes DEF Queue!Next
  <2>2. ASSUME NEW e \in Exch, NEW c \in Key, alive /\ Miss(e, c) PROVE Queue!Next
    BY <2>2, MissPasses DEF Queue!Next
  <2>3. ASSUME NEW e \in Exch, NEW c \in Key, alive /\ Erase(e, c) PROVE Queue!Next
    BY <2>3, EraseGives DEF Queue!Next
  <2>4. ASSUME NEW c \in Key, AddPush(c) PROVE Queue!Next
    BY <2>4, AddPushAdds DEF Queue!Next
  <2>5. ASSUME Destroy PROVE Queue!Next
    BY <2>5, DestroyDrops DEF Queue!Next
  <2>6. ASSUME NEW e \in Exch, Deny(e) \/ Lock(e) \/ Unlock(e) PROVE UNCHANGED QueueVars
    BY <2>6, Stutters
  <2>7. ASSUME NEW e \in Exch, NEW c \in Key, alive /\ (Hit(e, c) \/ Reply(e, c)) PROVE UNCHANGED QueueVars
    BY <2>7, Stutters
  <2>8. ASSUME NEW p \in Resp, NEW c \in Key, NEW k \in Route, Prepare(p, c, k) PROVE UNCHANGED QueueVars
    BY <2>8, Stutters
  <2>9. ASSUME AddLock \/ \E keeps \in BOOLEAN : Return(keeps) PROVE UNCHANGED QueueVars
    BY <2>9, Stutters
  <2>10. ASSUME NEW who \in {"worker", "main", "lua"}, Fails(who) PROVE UNCHANGED QueueVars
    BY <2>10, Stutters
  <2> DEFINE Seen == Queue!Next \/ UNCHANGED QueueVars
  <2>11. Seen
    <3> HIDE DEF Seen
    <3>1. /\ Queue!Next => Seen
          /\ UNCHANGED QueueVars => Seen
      BY DEF Seen
    <3>2. QED
      BY <1>2, <2>1, <2>2, <2>3, <2>4, <2>5, <2>6, <2>7, <2>8, <2>9, <2>10, <3>1, NextCases
  <2>12. QED
    BY <2>11
<1>3. QED
  BY <1>1, <1>2

\* Lookups and additions behave as if they were atomic: each response is given
\* to one exchange of its client and route, the oldest first, and an exchange
\* is passed on to the main thread only when nothing waits for it.
THEOREM ImplementsQueue == Spec => QueueSpec
<1>1. Spec => Queue!Init
  BY QueueInit DEF Spec
<1>2. Spec => [][Queue!Next]_QueueVars
  BY SafeHolds, QueueStep, PTL DEF Spec
<1>3. QED
  BY <1>1, <1>2, PTL DEF QueueSpec, Queue!Spec, Queue!vars, QueueVars
=============================================================================
