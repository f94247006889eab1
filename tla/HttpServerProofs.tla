-------------------------- MODULE HttpServerProofs --------------------------
(***************************************************************************)
(* Theorems about HttpServer, for every set of exchanges, every size of    *)
(* the thread pool and every depth of the stack.                           *)
(***************************************************************************)
EXTENDS HttpServer, TLAPS

-----------------------------------------------------------------------------
(* The storage of m_pRequests.                                             *)

\* Writing at most one past the storage keeps it a sequence and never
\* shortens it.
LEMMA WriteType ==
    ASSUME NEW s \in Seq(Req), NEW k \in 1 .. Len(s) + 1, NEW r \in Req
    PROVE  /\ Write(s, k, r) \in Seq(Req)
           /\ k <= Len(Write(s, k, r))
           /\ Len(s) <= Len(Write(s, k, r))
<1>1. CASE k <= Len(s)
    BY <1>1 DEF Write
<1>2. CASE k = Len(s) + 1
    BY <1>2 DEF Write
<1> QED
    BY <1>1, <1>2

\* Moving entries down keeps the storage a sequence of the same length.
LEMMA MoveDownType ==
    ASSUME NEW s \in Seq(Req), NEW i \in Nat \ {0}, NEW n \in 0 .. Len(s)
    PROVE  /\ MoveDown(s, i, n) \in Seq(Req)
           /\ Len(MoveDown(s, i, n)) = Len(s)
<1>1. \A j \in 1 .. Len(s) : (IF i <= j /\ j < n THEN s[j + 1] ELSE s[j]) \in Req
    OBVIOUS
<1> QED
    BY <1>1 DEF MoveDown

-----------------------------------------------------------------------------
(* Type correctness.  The pointers that a push_back or an erase in         *)
(* progress has loaded stay within the storage, because the storage never  *)
(* shrinks.                                                                *)

Bounds ==
    /\ \A r \in Req : fin[r] <= Len(slots)
    /\ \A d \in 1 .. depth : frame[d].at = "erase" => frame[d].n \in 1 .. Len(slots)

TypeInv == TypeOK /\ Bounds

LEMMA UnusedType == Unused \in Frames
    BY ReqAssumption DEF Unused, Frames

\* The frame of a loop at iterator k.
LEMMA LoopFrameType ==
    ASSUME NEW k \in Nat \ {0}, NEW b \in Nat
    PROVE  LET f == [Unused EXCEPT !.at = "test", !.i = k, !.a = b]
           IN  f \in Frames /\ f.at = "test" /\ f.i = k /\ f.a = b
    BY UnusedType DEF Frames

\* The updates of a frame inside the loop.
LEMMA FrameUpdates ==
    ASSUME NEW f \in Frames, NEW r \in Req, NEW n \in Nat
    PROVE  /\ [f EXCEPT !.at = "clear"] \in Frames
           /\ [f EXCEPT !.at = "call", !.e = r] \in Frames
           /\ [f EXCEPT !.at = "erase", !.e = r, !.n = n] \in Frames
           /\ [f EXCEPT !.i = f.i + 1] \in Frames
<1>1. f.i + 1 \in Nat \ {0}
    BY DEF Frames
<1>2. [f EXCEPT !.i = f.i + 1] \in Frames
    BY <1>1 DEF Frames
<1> QED
    BY <1>2 DEF Frames

\* Replacing the top frame by one that is not inside erase keeps the bounds.
LEMMA SetTopType ==
    ASSUME TypeInv, depth > 0, NEW f \in Frames, SetTop(f), f.at # "erase",
           UNCHANGED <<slots, fin, depth>>
    PROVE  frame' \in [1 .. MaxDepth -> Frames] /\ Bounds'
    BY DEF TypeInv, TypeOK, SetTop, Bounds

LEMMA InitType == Init => TypeInv
<1> SUFFICES ASSUME Init
             PROVE  TypeInv
    OBVIOUS
<1>1. slots \in Seq(Req) /\ Len(slots) = 0 /\ size \in 0 .. Len(slots)
    BY DEF Init
<1>2. frame \in [1 .. MaxDepth -> Frames]
    BY UnusedType DEF Init
<1>3. depth = 0 /\ depth \in 0 .. MaxDepth
    BY BoundAssumption DEF Init
<1>4. /\ pc \in [Req -> PcSet]
      /\ fin \in [Req -> Nat]
      /\ into \in [Req -> Nat]
      /\ array \in Nat /\ room \in Nat
      /\ overlap \in BOOLEAN
      /\ mem \in [Req -> {"none", "live", "freed"}]
      /\ handled \in [Req -> BOOLEAN]
      /\ del \in [Req -> BOOLEAN]
      /\ called \in [Req -> BOOLEAN]
    BY DEF Init, PcSet
<1>5. Bounds
    BY <1>1, <1>3 DEF Init, Bounds
<1> QED
    BY <1>1, <1>2, <1>3, <1>4, <1>5 DEF Init, TypeInv, TypeOK

\* Every step of the server keeps the types and the bounds.
LEMMA NextType == TypeInv /\ [Next]_vars => TypeInv'
<1> SUFFICES ASSUME TypeInv, [Next]_vars
             PROVE  TypeInv'
    OBVIOUS
<1> USE DEF TypeInv, TypeOK, server, queue, vector, request, main
<1>1. ASSUME NEW r \in Req, Arrive(r)
      PROVE  TypeInv'
    BY <1>1 DEF Arrive, Goto, PcSet, Bounds
<1>2. ASSUME NEW r \in Req, RouteLocally(r)
      PROVE  TypeInv'
    BY <1>2 DEF RouteLocally, Goto, TouchServer, PcSet, Bounds
<1>3. ASSUME NEW r \in Req, PushBegin(r)
      PROVE  TypeInv'
    BY <1>3 DEF PushBegin, OperationBegins, Goto, TouchServer, PcSet, Bounds
<1>4. ASSUME NEW r \in Req, PushEnd(r)
      PROVE  TypeInv'
    <2>1. fin[r] + 1 \in 1 .. Len(slots) + 1
        BY DEF Bounds
    <2>2. /\ slots' \in Seq(Req)
          /\ size' \in 0 .. Len(slots')
          /\ Len(slots) <= Len(slots')
        BY <1>4, <2>1, WriteType DEF PushEnd
    <2>3. Bounds'
        <3>1. \A q \in Req : fin'[q] = 0 \/ fin'[q] = fin[q]
            BY <1>4 DEF PushEnd
        <3>2. \A q \in Req : fin'[q] <= Len(slots')
            <4>1. Len(slots) \in Nat /\ Len(slots') \in Nat
                BY <2>2
            <4>2. \A q \in Req : fin[q] \in Nat /\ fin[q] <= Len(slots)
                BY DEF Bounds
            <4>3. Len(slots) <= Len(slots')
                BY <2>2
            <4> HIDE DEF TypeInv
            <4>4. ASSUME NEW q \in Req
                  PROVE  fin'[q] <= Len(slots')
                <5>1. CASE fin'[q] = 0
                    BY <4>1, <5>1
                <5>2. CASE fin'[q] = fin[q]
                    BY <4>1, <4>2, <4>3, <5>2
                <5> QED
                    BY <3>1, <5>1, <5>2
            <4> QED
                BY <4>4
        <3>3. \A d \in 1 .. depth : frame[d].at = "erase" => frame[d].n \in 1 .. Len(slots')
            BY <2>2 DEF Bounds
        <3>4. UNCHANGED <<depth, frame>>
            BY <1>4 DEF PushEnd
        <3> QED
            BY <3>2, <3>3, <3>4 DEF Bounds
    <2>4. array' \in Nat /\ room' \in Nat
        BY <1>4 DEF PushEnd, Growth
    <2> QED
        BY <1>4, <2>2, <2>3, <2>4 DEF PushEnd, Goto, TouchServer, PcSet
<1>18. ASSUME NEW r \in Req, PushFault(r)
       PROVE  TypeInv'
    BY <1>18 DEF PushFault, Bounds
<1>5. ASSUME NEW r \in Req, Wake(r)
      PROVE  TypeInv'
    BY <1>5 DEF Wake, Woken, Goto, TouchServer, PcSet, Bounds
<1>6. ASSUME NEW r \in Req, PollAgain(r) \/ PollHandled(r) \/ Respond(r) \/ Finish(r)
      PROVE  TypeInv'
    BY <1>6 DEF PollAgain, PollHandled, Respond, Finish, Goto, TouchServer, PcSet, Bounds
<1>7. CASE Start \/ Stop \/ Destroy
    BY <1>7 DEF Start, Stop, Destroy, Bounds
<1>8. ASSUME NEW r \in Req, LuaMarkHandled(r)
      PROVE  TypeInv'
    BY <1>8 DEF LuaMarkHandled, MarkHandled, Bounds
<1>9. CASE ThinkBegin
    <2>1. [Unused EXCEPT !.at = "test", !.a = array] \in Frames /\ [Unused EXCEPT !.at = "test", !.a = array].at = "test"
        BY UnusedType DEF Frames
    <2>2. depth + 1 \in 1 .. MaxDepth
        BY <1>9, BoundAssumption DEF ThinkBegin
    <2>3. Bounds'
        BY <1>9, <2>1, <2>2 DEF ThinkBegin, Bounds
    <2> QED
        BY <1>9, <2>1, <2>2, <2>3 DEF ThinkBegin
<1>10. CASE ThinkEnd
    <2>1. depth > 0 /\ Top \in Frames
        BY <1>10 DEF ThinkEnd, AtTest, Top
    <2>2. [Top EXCEPT !.at = "clear"] \in Frames /\ [Top EXCEPT !.at = "clear"].at = "clear"
        BY <2>1 DEF Frames
    <2>3. frame' \in [1 .. MaxDepth -> Frames] /\ Bounds'
        BY <1>10, <2>1, <2>2, SetTopType DEF ThinkEnd
    <2> QED
        BY <1>10, <2>3 DEF ThinkEnd
<1>11. CASE ThinkFault
    BY <1>11 DEF ThinkFault, Bounds
<1>12. ASSUME NEW r \in Req, EraseBegin(r)
       PROVE  TypeInv'
    <2>1. depth \in 1 .. MaxDepth /\ Top \in Frames /\ size \in 1 .. Len(slots)
        BY <1>12 DEF EraseBegin, Entry, AtTest, Top, Frames
    <2> DEFINE f == [Top EXCEPT !.at = "erase", !.e = r, !.n = size]
    <2>2. f \in Frames /\ f.n = size
        <3>1. f.n = size
            BY <2>1 DEF Frames
        <3>2. size \in Nat
            BY DEF TypeInv
        <3> QED
            BY <2>1, <3>1, <3>2, FrameUpdates
    <2>3. frame' = [frame EXCEPT ![depth] = f]
        BY <1>12 DEF EraseBegin, SetTop
    <2>4. frame' \in [1 .. MaxDepth -> Frames] /\ Bounds'
        BY <1>12, <2>1, <2>2, <2>3 DEF EraseBegin, Bounds
    <2> QED
        BY <1>12, <2>4 DEF EraseBegin, OperationBegins
<1>13. CASE EraseEnd
    <2>1. depth \in 1 .. MaxDepth /\ Top \in Frames /\ Top.n \in 1 .. Len(slots)
        BY <1>13 DEF EraseEnd, Top, Bounds
    <2>2. slots' \in Seq(Req) /\ Len(slots') = Len(slots) /\ size' \in 0 .. Len(slots')
        <3>1. Top.i \in Nat \ {0} /\ Top.n \in 0 .. Len(slots) /\ Top.n - 1 \in 0 .. Len(slots)
            BY <2>1 DEF Frames
        <3> QED
            BY <1>13, <3>1, MoveDownType DEF EraseEnd
    <2> DEFINE f == [Unused EXCEPT !.at = "test", !.i = Top.i, !.a = Top.a]
    <2>3. f \in Frames /\ f.at = "test"
        BY <2>1, LoopFrameType DEF Frames
    <2>4. frame' \in [1 .. MaxDepth -> Frames] /\ Bounds'
        <3>1. frame' = [frame EXCEPT ![depth] = f]
            BY <1>13 DEF EraseEnd, AfterErase, SetTop
        <3> QED
            <4>1. frame' \in [1 .. MaxDepth -> Frames]
                BY <2>1, <2>3, <3>1
            <4>2. \A d \in 1 .. depth : frame'[d].at = "erase" => frame'[d] = frame[d]
                BY <2>1, <2>3, <3>1
            <4>3. UNCHANGED <<fin, depth>>
                BY <1>13 DEF EraseEnd
            <4> HIDE DEF f
            <4> QED
                BY <2>2, <4>1, <4>2, <4>3 DEF Bounds
    <2> QED
        BY <1>13, <2>1, <2>2, <2>4 DEF EraseEnd
<1>14. ASSUME NEW r \in Req, Skip(r) \/ CallBegin(r)
       PROVE  TypeInv'
    <2>1. depth > 0 /\ Top \in Frames /\ Top.at = "test"
        BY <1>14 DEF Skip, CallBegin, Entry, AtTest, Top
    <2>2. /\ [Top EXCEPT !.i = Top.i + 1] \in Frames
          /\ [Top EXCEPT !.i = Top.i + 1].at = "test"
          /\ [Top EXCEPT !.at = "call", !.e = r] \in Frames
          /\ [Top EXCEPT !.at = "call", !.e = r].at = "call"
        <3>1. /\ [Top EXCEPT !.i = Top.i + 1].at = "test"
              /\ [Top EXCEPT !.at = "call", !.e = r].at = "call"
            BY <2>1 DEF Frames
        <3> QED
            BY <2>1, <3>1, FrameUpdates
    <2>3. frame' \in [1 .. MaxDepth -> Frames] /\ Bounds'
        BY <1>14, <2>1, <2>2, SetTopType DEF Skip, NextEntry, CallBegin
    <2> QED
        BY <1>14, <2>3 DEF Skip, CallBegin
<1>15. ASSUME NEW deferred \in BOOLEAN, CallEnd(deferred)
       PROVE  TypeInv'
    <2>1. depth \in 1 .. MaxDepth /\ Top \in Frames
        BY <1>15 DEF CallEnd, Top
    <2>2. LET f == [Unused EXCEPT !.at = "test", !.i = Top.i + 1, !.a = Top.a]
          IN  f \in Frames /\ f.at = "test"
        <3>1. Top.i + 1 \in Nat \ {0}
            BY <2>1 DEF Frames
        <3> QED
            BY <2>1, <3>1, LoopFrameType DEF Frames
    <2>3. frame' \in [1 .. MaxDepth -> Frames] /\ Bounds'
        BY <1>15, <2>1, <2>2, SetTopType DEF CallEnd, NextEntry
    <2> QED
        BY <1>15, <2>1, <2>3 DEF CallEnd, MarkHandled
<1>16. CASE ThinkClear
    <2>1. depth \in 1 .. MaxDepth
        BY <1>16 DEF ThinkClear
    <2>2. frame' \in [1 .. MaxDepth -> Frames] /\ Bounds'
        BY <1>16, <2>1, UnusedType DEF ThinkClear, SetTop, Bounds
    <2>3. depth' \in 0 .. MaxDepth
        <3>1. depth' = depth - 1
            BY <1>16 DEF ThinkClear
        <3> QED
            BY <2>1, <3>1, BoundAssumption
    <2> QED
        BY <1>16, <2>2, <2>3 DEF ThinkClear
<1>17. CASE UNCHANGED vars
    BY <1>17 DEF vars, Bounds
<1> QED
    BY <1>1, <1>2, <1>3, <1>4, <1>5, <1>6, <1>7, <1>8, <1>9, <1>10, <1>11, <1>12,
       <1>13, <1>14, <1>15, <1>16, <1>17, <1>18 DEF Next, Worker, Lua, Loop

\* Every variable keeps its type: in particular the finish pointer of
\* m_pRequests stays within the storage, even when push_back and erase race.
THEOREM TypeCorrect == Spec => []TypeOK
<1>1. Spec => []TypeInv
    BY InitType, NextType, PTL DEF Spec
<1>2. TypeInv => TypeOK
    BY DEF TypeInv
<1> QED
    BY <1>1, <1>2, PTL

-----------------------------------------------------------------------------
(* The m_bDelete handshake.  A worker sets m_bDelete as its last access to *)
(* its request, and Think frees a request only after it has read           *)
(* m_bDelete; the flag is never cleared.  This holds whatever happens to   *)
(* m_pRequests, however deep Think is nested and whatever the script does. *)

InLambda == {"push", "wake", "poll", "respond", "finish"}

Handshake ==
    /\ \A r \in Req :
          /\ pc[r] \in {"none", "route"} => mem[r] = "none"
          /\ pc[r] \in InLambda => mem[r] = "live"
          /\ pc[r] \in {"respond", "finish"} => handled[r]
          /\ del[r] => pc[r] = "done" /\ mem[r] # "none"
          /\ mem[r] = "freed" => del[r]
          /\ handled[r] => mem[r] # "none"
    /\ \A d \in 1 .. depth : frame[d].at = "erase" => del[frame[d].e]

LEMMA HandshakeInit == Init => Handshake
    BY DEF Init, Handshake, InLambda

LEMMA HandshakeStep == TypeInv /\ Handshake /\ [Next]_vars => Handshake'
<1> SUFFICES ASSUME TypeInv, Handshake, [Next]_vars
             PROVE  Handshake'
    OBVIOUS
<1>t. /\ pc \in [Req -> PcSet]
      /\ mem \in [Req -> {"none", "live", "freed"}]
      /\ handled \in [Req -> BOOLEAN]
      /\ del \in [Req -> BOOLEAN]
      /\ depth \in 0 .. MaxDepth
      /\ MaxDepth \in Nat
      /\ frame \in [1 .. MaxDepth -> Frames]
    BY BoundAssumption DEF TypeInv, TypeOK
<1> HIDE DEF TypeInv
<1>1. ASSUME NEW r \in Req, Arrive(r)
      PROVE  Handshake'
    BY <1>1, <1>t DEF Arrive, Goto, Handshake, InLambda, request, main
<1>2. ASSUME NEW r \in Req, RouteLocally(r)
      PROVE  Handshake'
    BY <1>2, <1>t DEF RouteLocally, Goto, Handshake, InLambda, request, main
<1>3. ASSUME NEW r \in Req, PushBegin(r)
      PROVE  Handshake'
    BY <1>3, <1>t DEF PushBegin, Goto, Handshake, InLambda, main
<1>4. ASSUME NEW r \in Req, PushEnd(r)
      PROVE  Handshake'
    BY <1>4, <1>t DEF PushEnd, Goto, Handshake, InLambda, request, main
<1>5. ASSUME NEW r \in Req, Wake(r)
      PROVE  Handshake'
    BY <1>5, <1>t DEF Wake, Goto, Handshake, InLambda, request, main
<1>6. ASSUME NEW r \in Req, PollAgain(r) \/ PollHandled(r) \/ Respond(r)
      PROVE  Handshake'
    BY <1>6, <1>t DEF PollAgain, PollHandled, SeesHandled, Respond, Goto, Handshake, InLambda, request, main
<1>7. ASSUME NEW r \in Req, Finish(r)
      PROVE  Handshake'
    BY <1>7, <1>t DEF Finish, Goto, Handshake, InLambda, main
<1>8. CASE Start \/ Stop \/ Destroy
    BY <1>8 DEF Start, Stop, Destroy, Handshake, request, main
<1>9. ASSUME NEW r \in Req, LuaMarkHandled(r)
      PROVE  Handshake'
    BY <1>9, <1>t DEF LuaMarkHandled, MarkHandled, Handshake, InLambda, main
<1>10. CASE ThinkBegin
    <2>1. [Unused EXCEPT !.at = "test", !.a = array].at = "test"
        BY UnusedType DEF Frames
    <2>2. \A d \in 1 .. depth' : frame'[d].at = "erase" => d \in 1 .. depth /\ frame'[d] = frame[d]
        BY <1>10, <2>1, <1>t DEF ThinkBegin
    <2> QED
        BY <1>10, <2>2, <1>t DEF ThinkBegin, Handshake, request
<1>11. CASE ThinkEnd \/ ThinkFault \/ \E r \in Req : Skip(r)
    <2>1. CASE ThinkFault
        BY <2>1 DEF ThinkFault, Handshake, request, main
    <2>2. CASE ThinkEnd
        <3>1. depth \in 1 .. depth /\ Top \in Frames
            BY <2>2, <1>t DEF ThinkEnd, AtTest, Top
        <3>2. [Top EXCEPT !.at = "clear"].at = "clear"
            BY <3>1 DEF Frames
        <3> QED
            BY <2>2, <3>1, <3>2, <1>t DEF ThinkEnd, SetTop, Handshake, request
    <2>3. ASSUME NEW r \in Req, Skip(r)
          PROVE  Handshake'
        <3>1. depth \in 1 .. depth /\ Top \in Frames /\ Top.at = "test"
            BY <2>3, <1>t DEF Skip, Entry, AtTest, Top
        <3>2. [Top EXCEPT !.i = Top.i + 1].at = "test"
            BY <3>1 DEF Frames
        <3> QED
            BY <2>3, <3>1, <3>2, <1>t DEF Skip, NextEntry, SetTop, Handshake, request
    <2> QED
        BY <1>11, <2>1, <2>2, <2>3
<1>12. ASSUME NEW r \in Req, EraseBegin(r)
       PROVE  Handshake'
    <2>1. depth \in 1 .. depth /\ Top \in Frames /\ del[r]
        BY <1>12, <1>t DEF EraseBegin, Removable, Entry, AtTest, Top
    <2>2. [Top EXCEPT !.at = "erase", !.e = r, !.n = size].e = r
        BY <2>1 DEF Frames
    <2> QED
        BY <1>12, <2>1, <2>2, <1>t DEF EraseBegin, SetTop, Handshake, request
<1>13. CASE EraseEnd
    <2>1. depth \in 1 .. depth /\ Top \in Frames /\ del[Top.e] /\ Top.e \in Req
        BY <1>13, <1>t DEF EraseEnd, Top, Handshake, Frames
    <2>2. [Unused EXCEPT !.at = "test", !.i = Top.i, !.a = Top.a].at = "test"
        BY UnusedType DEF Frames
    <2> QED
        BY <1>13, <2>1, <2>2, <1>t DEF EraseEnd, SetTop, Handshake, InLambda
<1>14. ASSUME NEW r \in Req, CallBegin(r)
       PROVE  Handshake'
    <2>1. depth \in 1 .. depth /\ Top \in Frames
        BY <1>14, <1>t DEF CallBegin, Entry, AtTest, Top
    <2>2. [Top EXCEPT !.at = "call", !.e = r].at = "call"
        BY <2>1 DEF Frames
    <2> QED
        BY <1>14, <2>1, <2>2, <1>t DEF CallBegin, SetTop, Handshake
<1>15. ASSUME NEW deferred \in BOOLEAN, CallEnd(deferred)
       PROVE  Handshake'
    <2>1. depth \in 1 .. depth /\ Top.e \in Req
        BY <1>15, <1>t DEF CallEnd, Top, Frames
    <2>2. [Unused EXCEPT !.at = "test", !.i = Top.i + 1, !.a = Top.a].at = "test"
        BY UnusedType DEF Frames
    <2> QED
        BY <1>15, <2>1, <2>2, <1>t DEF CallEnd, NextEntry, MarkHandled, SetTop, Handshake, InLambda
<1>16. CASE ThinkClear
    BY <1>16, <1>t DEF ThinkClear, SetTop, Handshake, request
<1>17. CASE UNCHANGED vars
    BY <1>17 DEF vars, Handshake, request, main
<1>18. ASSUME NEW r \in Req, PushFault(r)
       PROVE  Handshake'
    BY <1>18 DEF PushFault, Handshake, request, main
<1> QED
    BY <1>1, <1>2, <1>3, <1>4, <1>5, <1>6, <1>7, <1>8, <1>9, <1>10, <1>11, <1>12,
       <1>13, <1>14, <1>15, <1>16, <1>17, <1>18 DEF Next, Worker, Lua, Loop

\* A request is never freed under the pool thread that is answering it.
THEOREM RequestLifetime == Spec => []RequestOutlivesWorker
<1>1. Spec => [](TypeInv /\ Handshake)
    BY InitType, NextType, HandshakeInit, HandshakeStep, PTL DEF Spec
<1>2. Handshake => RequestOutlivesWorker
    BY DEF Handshake, InLambda, RequestOutlivesWorker
<1> QED
    BY <1>1, <1>2, PTL

-----------------------------------------------------------------------------
(* Refinement.  Each step of the server moves the stage of at most one     *)
(* exchange, along an arrow of HttpExchange.                               *)

Stages == [r \in Req |-> Stage(r)]

\* The arrows of HttpExchange.
Arrows == {<<"absent", "local">>, <<"absent", "waiting">>, <<"waiting", "settled">>,
           <<"settled", "answered">>, <<"answered", "freed">>}

\* An arrow for one exchange, and nothing for the others, is a step of HttpExchange.
LEMMA ArrowIsStep ==
    ASSUME NEW r \in Req,
           \A q \in Req \ {r} : Stage(q)' = Stage(q),
           Stage(r)' = Stage(r) \/ <<Stage(r), Stage(r)'>> \in Arrows
    PROVE  [Exchange!Next]_Stages
<1>1. CASE Stage(r)' = Stage(r)
    <2>1. \A q \in Req : Stage(q)' = Stage(q)
        BY <1>1
    <2> QED
        BY <2>1 DEF Stages
<1>2. ASSUME <<Stage(r), Stage(r)'>> \in Arrows
      PROVE  Exchange!Next
    <2>1. Stages' = [Stages EXCEPT ![r] = Stage(r)']
        BY DEF Stages
    <2>2. Stages[r] = Stage(r)
        BY DEF Stages
    <2> QED
        BY <1>2, <2>1, <2>2 DEF Arrows, Stages, Exchange!Next, Exchange!Move, Exchange!Local,
           Exchange!Submit, Exchange!Settle, Exchange!Answer, Exchange!Free
<1> QED
    BY <1>1, <1>2

\* What Stage is, case by case.
LEMMA StageCases ==
    ASSUME NEW r \in Req, mem[r] \in {"none", "live", "freed"}, handled[r] \in BOOLEAN
    PROVE  Stage(r) = IF mem[r] = "freed" THEN "freed"
                      ELSE IF mem[r] = "live"
                           THEN IF pc[r] = "done" THEN "answered"
                                ELSE IF handled[r] THEN "settled" ELSE "waiting"
                           ELSE IF pc[r] = "done" THEN "local" ELSE "absent"
    BY DEF Stage

LEMMA ExchangeInit == Init => Exchange!Init
    BY DEF Init, Exchange!Init, Stage

LEMMA ExchangeStep == TypeInv /\ Handshake /\ TypeInv' /\ [Next]_vars => [Exchange!Next]_Stages
<1> SUFFICES ASSUME TypeInv, Handshake, TypeInv', [Next]_vars
             PROVE  [Exchange!Next]_Stages
    OBVIOUS
<1>t. /\ pc \in [Req -> PcSet]
      /\ mem \in [Req -> {"none", "live", "freed"}]
      /\ handled \in [Req -> BOOLEAN]
      /\ del \in [Req -> BOOLEAN]
      /\ frame \in [1 .. MaxDepth -> Frames]
      /\ depth \in 0 .. MaxDepth /\ MaxDepth \in Nat
    BY BoundAssumption DEF TypeInv, TypeOK
<1>s. \A r \in Req :
          Stage(r) = IF mem[r] = "freed" THEN "freed"
                     ELSE IF mem[r] = "live"
                          THEN IF pc[r] = "done" THEN "answered"
                               ELSE IF handled[r] THEN "settled" ELSE "waiting"
                          ELSE IF pc[r] = "done" THEN "local" ELSE "absent"
    BY <1>t, StageCases
<1>p. \A r \in Req :
          Stage(r)' = IF mem'[r] = "freed" THEN "freed"
                      ELSE IF mem'[r] = "live"
                           THEN IF pc'[r] = "done" THEN "answered"
                                ELSE IF handled'[r] THEN "settled" ELSE "waiting"
                           ELSE IF pc'[r] = "done" THEN "local" ELSE "absent"
    <2>1. mem' \in [Req -> {"none", "live", "freed"}] /\ handled' \in [Req -> BOOLEAN]
        BY DEF TypeInv, TypeOK
    <2> QED
        BY <2>1 DEF Stage
<1>u. ASSUME UNCHANGED <<pc, mem, handled>>
      PROVE  [Exchange!Next]_Stages
    BY <1>u DEF Stages, Stage
<1>1. ASSUME NEW r \in Req, Arrive(r) \/ Worker(r)
      PROVE  [Exchange!Next]_Stages
    <2>1. \A q \in Req \ {r} : pc'[q] = pc[q] /\ mem'[q] = mem[q] /\ handled'[q] = handled[q]
        BY <1>1, <1>t DEF Arrive, Worker, RouteLocally, PushBegin, PushEnd, PushFault, Wake,
           PollAgain, PollHandled, Respond, Finish, Goto, request
    <2>2. Stage(r)' = Stage(r) \/ <<Stage(r), Stage(r)'>> \in Arrows
        BY <1>1, <1>t, <1>s, <1>p DEF Arrive, Worker, RouteLocally, PushBegin, PushEnd, PushFault,
           Wake, PollAgain, PollHandled, Respond, Finish, Goto, request, Handshake, InLambda, Arrows
    <2>3. \A q \in Req \ {r} : Stage(q)' = Stage(q)
        BY <2>1, <1>s, <1>p
    <2> QED
        BY <2>2, <2>3, ArrowIsStep
<1>2. ASSUME NEW r \in Req, NEW who, MarkHandled(r, who), UNCHANGED <<pc, mem>>
      PROVE  [Exchange!Next]_Stages
    <2>1. \A q \in Req \ {r} : pc'[q] = pc[q] /\ mem'[q] = mem[q] /\ handled'[q] = handled[q]
        BY <1>2, <1>t DEF MarkHandled
    <2>2. Stage(r)' = Stage(r) \/ <<Stage(r), Stage(r)'>> \in Arrows
        BY <1>2, <1>t, <1>s, <1>p DEF MarkHandled, Arrows
    <2>3. \A q \in Req \ {r} : Stage(q)' = Stage(q)
        BY <2>1, <1>s, <1>p
    <2> QED
        BY <2>2, <2>3, ArrowIsStep
<1>3. CASE EraseEnd
    <2>1. PICK r \in Req : r = Top.e /\ del[r] /\ pc[r] = "done" /\ mem[r] # "none"
        BY <1>3, <1>t DEF EraseEnd, Top, Handshake, Frames
    <2>2. \A q \in Req \ {r} : pc'[q] = pc[q] /\ mem'[q] = mem[q] /\ handled'[q] = handled[q]
        BY <1>3, <2>1, <1>t DEF EraseEnd
    <2>3. Stage(r)' = "freed" /\ Stage(r) \in {"freed", "answered"}
        BY <1>3, <2>1, <1>t, <1>s, <1>p DEF EraseEnd
    <2>4. \A q \in Req \ {r} : Stage(q)' = Stage(q)
        BY <2>2, <1>s, <1>p
    <2> QED
        BY <2>3, <2>4, ArrowIsStep DEF Arrows
<1>4. ASSUME NEW r \in Req, LuaMarkHandled(r)
      PROVE  [Exchange!Next]_Stages
    BY <1>4, <1>2 DEF LuaMarkHandled
<1>5. ASSUME NEW deferred \in BOOLEAN, CallEnd(deferred)
      PROVE  [Exchange!Next]_Stages
    <2>1. Top.e \in Req
        BY <1>5, <1>t DEF CallEnd, Top, Frames
    <2> QED
        BY <1>5, <2>1, <1>2, <1>u DEF CallEnd
<1>6. CASE Start \/ Stop \/ Destroy
    BY <1>6, <1>u DEF Start, Stop, Destroy, request
<1>7. CASE ThinkBegin \/ ThinkEnd \/ ThinkFault \/ ThinkClear
    BY <1>7, <1>u DEF ThinkBegin, ThinkEnd, ThinkFault, ThinkClear, request
<1>8. ASSUME NEW r \in Req, EraseBegin(r) \/ Skip(r) \/ CallBegin(r)
      PROVE  [Exchange!Next]_Stages
    BY <1>8, <1>u DEF EraseBegin, Skip, CallBegin, request
<1>9. CASE UNCHANGED vars
    BY <1>9, <1>u DEF vars, request
<1> QED
    BY <1>1, <1>3, <1>4, <1>5, <1>6, <1>7, <1>8, <1>9 DEF Next, Lua, Loop

\* HttpServer implements HttpExchange: whatever the threads and the script do,
\* an exchange passes through its stages in order and is freed at most once.
THEOREM ImplementsExchange == Spec => ExchangeSpec
<1>1. Spec => [](TypeInv /\ Handshake)
    BY InitType, NextType, HandshakeInit, HandshakeStep, PTL DEF Spec
<1>2. Spec => Exchange!Init
    BY ExchangeInit DEF Spec
<1>3. TypeInv /\ Handshake /\ TypeInv' /\ [Next]_vars => [Exchange!Next]_Stages
    BY ExchangeStep
<1>4. Spec => [][Exchange!Next]_Stages
    BY <1>1, <1>3, PTL DEF Spec
<1> QED
    BY <1>2, <1>4, PTL DEF ExchangeSpec, Exchange!Spec, Stages

-----------------------------------------------------------------------------
(* m_pRequests until two of its operations overlap.                        *)

\* An overlap is not forgotten.
LEMMA OverlapStays == [Next]_vars => (overlap => overlap')
<1> SUFFICES ASSUME [Next]_vars, overlap
             PROVE  overlap'
    OBVIOUS
<1>1. ASSUME NEW r \in Req, Arrive(r) \/ Worker(r)
      PROVE  overlap'
    BY <1>1 DEF Arrive, Worker, RouteLocally, PushBegin, OperationBegins, PushEnd, PushFault, Wake,
       PollAgain, PollHandled, Respond, Finish, queue, vector
<1>2. CASE Lua \/ ThinkBegin
    BY <1>2 DEF Lua, Start, Stop, Destroy, LuaMarkHandled, ThinkBegin, queue, vector
<1>3. CASE Loop
    BY <1>3 DEF Loop, ThinkEnd, ThinkFault, EraseBegin, OperationBegins, EraseEnd, Skip, CallBegin,
       CallEnd, ThinkClear, queue, vector
<1>4. CASE UNCHANGED vars
    BY <1>4 DEF vars, queue, vector
<1> QED
    BY <1>1, <1>2, <1>3, <1>4 DEF Next

\* Write changes one entry.
LEMMA WriteEntries ==
    ASSUME NEW s \in Seq(Req), NEW k \in 1 .. Len(s) + 1, NEW r \in Req
    PROVE  /\ Write(s, k, r)[k] = r
           /\ \A j \in 1 .. k - 1 : Write(s, k, r)[j] = s[j]
<1>1. CASE k <= Len(s)
    BY <1>1 DEF Write
<1>2. CASE k = Len(s) + 1
    BY <1>2 DEF Write
<1> QED
    BY <1>1, <1>2

\* The first n entries of s are distinct.
Distinct(s, n) == \A j, k \in 1 .. n : s[j] = s[k] => j = k

\* The first n - 1 entries of t are those of s without entry i, each once.
Without(t, s, i, n) ==
    /\ \A j \in 1 .. n - 1 : \E k \in 1 .. n : k # i /\ t[j] = s[k]
    /\ \A k \in 1 .. n : k # i => \E j \in 1 .. n - 1 : t[j] = s[k]
    /\ Distinct(t, n - 1)

\* Moving the entries behind an entry down removes exactly that one.
LEMMA MoveDownEntries ==
    ASSUME NEW s \in Seq(Req), NEW n \in 1 .. Len(s), NEW i \in 1 .. n, Distinct(s, n)
    PROVE  Without(MoveDown(s, i, n), s, i, n)
<1> DEFINE t == MoveDown(s, i, n)
<1>1. \A j \in 1 .. n - 1 : t[j] = IF i <= j THEN s[j + 1] ELSE s[j]
    BY DEF MoveDown
<1>2. ASSUME NEW j \in 1 .. n - 1
      PROVE  \E k \in 1 .. n : k # i /\ t[j] = s[k]
    <2>1. CASE i <= j
        BY <1>1, <2>1
    <2>2. CASE ~(i <= j)
        BY <1>1, <2>2
    <2> QED
        BY <2>1, <2>2
<1>3. ASSUME NEW k \in 1 .. n, k # i
      PROVE  \E j \in 1 .. n - 1 : t[j] = s[k]
    <2>1. CASE k < i
        <3>1. k \in 1 .. n - 1 /\ t[k] = s[k]
            BY <1>1, <2>1
        <3> QED
            BY <3>1
    <2>2. CASE k > i
        <3>1. k - 1 \in 1 .. n - 1 /\ t[k - 1] = s[k]
            BY <1>1, <2>2
        <3> QED
            BY <3>1
    <2> QED
        BY <1>3, <2>1, <2>2
<1>4. Distinct(t, n - 1)
    BY <1>1 DEF Distinct
<1> HIDE DEF t
<1> QED
    BY <1>2, <1>3, <1>4 DEF Without, t

InQueue == {"wake", "poll", "respond", "finish", "done"}

\* The entries are the live requests, each once; what an operation in
\* progress has loaded is still true; and at most one is in progress.
QueueInv ==
    /\ \A j \in 1 .. size : mem[slots[j]] = "live" /\ pc[slots[j]] \in InQueue
    /\ \A j, k \in 1 .. size : slots[j] = slots[k] => j = k
    /\ \A r \in Req : mem[r] = "live" /\ pc[r] # "push" => \E j \in 1 .. size : slots[j] = r
    /\ \A r \in Req : pc[r] = "push" => fin[r] = size
    /\ \A q, r \in Req : pc[q] = "push" /\ pc[r] = "push" => q = r
    /\ \A r \in Req, d \in 1 .. depth : ~(pc[r] = "push" /\ frame[d].at = "erase")
    /\ \A d \in 1 .. depth :
          frame[d].at = "erase" =>
              frame[d].n = size /\ frame[d].i <= size /\ slots[frame[d].i] = frame[d].e
    /\ \A d \in 1 .. depth : d < depth => frame[d].at = "call"

LEMMA QueueInit == Init => QueueInv
    BY DEF Init, QueueInv

LEMMA QueueStep == TypeInv /\ Handshake /\ QueueInv /\ [Next]_vars /\ ~overlap' => QueueInv'
<1> SUFFICES ASSUME TypeInv, Handshake, QueueInv, [Next]_vars, ~overlap'
             PROVE  QueueInv'
    OBVIOUS
<1>t. /\ slots \in Seq(Req)
      /\ size \in 0 .. Len(slots)
      /\ pc \in [Req -> PcSet]
      /\ fin \in [Req -> Nat]
      /\ mem \in [Req -> {"none", "live", "freed"}]
      /\ del \in [Req -> BOOLEAN]
      /\ depth \in 0 .. MaxDepth
      /\ MaxDepth \in Nat
      /\ frame \in [1 .. MaxDepth -> Frames]
    BY BoundAssumption DEF TypeInv, TypeOK
<1>e. \A j \in 1 .. size : slots[j] \in Req
    BY <1>t
<1>c. \A d \in 1 .. depth : d < depth => frame[d].at = "call"
    BY DEF QueueInv
<1>i. \A j, k \in 1 .. size : slots[j] = slots[k] => j = k
    BY DEF QueueInv
<1>l. \A j \in 1 .. size : mem[slots[j]] = "live" /\ pc[slots[j]] \in InQueue
    BY DEF QueueInv
\* Steps of a worker that touch neither the vector nor the set of live requests.
<1>w. ASSUME UNCHANGED <<slots, size, fin, mem, depth, frame>>,
             \A q \in Req : /\ pc[q] = "push" <=> pc'[q] = "push"
                            /\ pc[q] \in InQueue => pc'[q] \in InQueue
      PROVE  QueueInv'
    BY <1>w, <1>e DEF QueueInv
\* Steps of the main thread that move the top frame and leave the vector alone.
<1>f. ASSUME UNCHANGED <<slots, size, fin, mem, pc, depth>>, depth > 0, Top.at # "erase",
             NEW f \in Frames, SetTop(f), f.at # "erase"
      PROVE  QueueInv'
    <2>1. \A d \in 1 .. depth : d # depth => frame'[d] = frame[d]
        BY <1>f, <1>t DEF SetTop
    <2>2. frame'[depth] = f
        BY <1>f, <1>t DEF SetTop
    <2> QED
        BY <1>f, <1>t, <1>e, <2>1, <2>2, SMTT(30) DEF QueueInv
<1>1. ASSUME NEW r \in Req, Arrive(r) \/ RouteLocally(r)
      PROVE  QueueInv'
    <2>1. /\ UNCHANGED <<slots, size, fin, mem, depth, frame>>
          /\ pc[r] \in {"none", "route"}
          /\ pc'[r] \in {"route", "done"}
          /\ \A q \in Req \ {r} : pc'[q] = pc[q]
        BY <1>1, <1>t DEF Arrive, RouteLocally, Goto, queue, vector, request, main
    <2> QED
        BY <2>1, <1>w DEF InQueue
<1>2. ASSUME NEW r \in Req, PushBegin(r)
      PROVE  QueueInv'
    <2>1. /\ pc[r] = "route" /\ mem[r] = "none"
          /\ pc' = [pc EXCEPT ![r] = "push"]
          /\ mem' = [mem EXCEPT ![r] = "live"]
          /\ fin' = [fin EXCEPT ![r] = size]
          /\ UNCHANGED <<slots, size, depth, frame>>
        BY <1>2 DEF PushBegin, Goto, main, vector, Handshake
    <2>2. /\ \A q \in Req : pc[q] # "push"
          /\ \A d \in 1 .. depth : frame[d].at # "erase"
        BY <1>2 DEF PushBegin, OperationBegins, Pushing, Erasing
    <2>3. \A j \in 1 .. size : slots[j] # r
        BY <2>1, <1>e DEF QueueInv
    <2> QED
        BY <2>1, <2>2, <2>3, <1>t, <1>e DEF QueueInv, InQueue
<1>3. ASSUME NEW r \in Req, PushEnd(r)
      PROVE  QueueInv'
    <2>1. /\ pc[r] = "push" /\ mem[r] = "live" /\ fin[r] = size
          /\ pc' = [pc EXCEPT ![r] = "wake"]
          /\ fin' = [fin EXCEPT ![r] = 0]
          /\ slots' = Write(slots, size + 1, r)
          /\ size' = size + 1
          /\ UNCHANGED <<mem, depth, frame>>
        BY <1>3 DEF PushEnd, Goto, request, main, Handshake, InLambda, QueueInv
    <2>2. /\ slots'[size + 1] = r
          /\ \A j \in 1 .. size : slots'[j] = slots[j]
        <3>1. size + 1 \in 1 .. Len(slots) + 1 /\ (size + 1) - 1 = size
            BY <1>t
        <3>2. /\ Write(slots, size + 1, r)[size + 1] = r
              /\ \A j \in 1 .. (size + 1) - 1 : Write(slots, size + 1, r)[j] = slots[j]
            BY <3>1, <1>t, WriteEntries
        <3> QED
            BY <2>1, <3>1, <3>2
    <2>3. \A j \in 1 .. size : slots[j] # r
        BY <2>1, <1>e DEF QueueInv, InQueue
    <2>4. /\ \A q \in Req : pc'[q] # "push"
          /\ \A d \in 1 .. depth : frame[d].at # "erase"
        BY <2>1, <1>t DEF QueueInv
    <2>5. \A j \in 1 .. size' : mem'[slots'[j]] = "live" /\ pc'[slots'[j]] \in InQueue
        <3>1. \A j \in 1 .. size' : j = size + 1 \/ j \in 1 .. size
            BY <2>1, <1>t
        <3>2. \A j \in 1 .. size : mem'[slots[j]] = "live" /\ pc'[slots[j]] \in InQueue
            BY <2>1, <2>3, <1>l, <1>e, <1>t
        <3>3. mem'[r] = "live" /\ pc'[r] \in InQueue
            BY <2>1, <1>t DEF InQueue
        <3> QED
            BY <2>2, <3>1, <3>2, <3>3
    <2>6. \A j, k \in 1 .. size' : slots'[j] = slots'[k] => j = k
        BY <2>1, <2>2, <2>3, <1>t, SMTT(30) DEF QueueInv
    <2>7. ASSUME NEW q \in Req, mem'[q] = "live"
          PROVE  \E j \in 1 .. size' : slots'[j] = q
        <3>1. CASE q = r
            <4>1. size + 1 \in 1 .. size'
                BY <2>1, <1>t
            <4> QED
                BY <3>1, <4>1, <2>2
        <3>2. CASE q # r
            <4>1. PICK j \in 1 .. size : slots[j] = q
                BY <3>2, <2>1, <2>7 DEF QueueInv
            <4>2. j \in 1 .. size'
                BY <4>1, <2>1, <1>t
            <4>3. slots'[j] = q
                BY <4>1, <2>2
            <4> QED
                BY <4>2, <4>3
        <3> QED
            BY <3>1, <3>2
    <2> QED
        BY <2>1, <2>4, <2>5, <2>6, <2>7 DEF QueueInv
<1>4. ASSUME NEW r \in Req, Wake(r) \/ PollAgain(r) \/ PollHandled(r) \/ Respond(r) \/ Finish(r)
      PROVE  QueueInv'
    <2>1. /\ UNCHANGED <<slots, size, fin, mem, depth, frame>>
          /\ pc[r] \in InQueue /\ pc[r] # "push"
          /\ pc'[r] \in InQueue /\ pc'[r] # "push"
          /\ \A q \in Req \ {r} : pc'[q] = pc[q]
        BY <1>4, <1>t DEF Wake, PollAgain, PollHandled, Respond, Finish, Goto, queue, vector, request,
           main, InQueue
    <2> QED
        BY <2>1, <1>w
<1>5. ASSUME UNCHANGED <<slots, size, fin, mem, pc, depth, frame>>
      PROVE  QueueInv'
    BY <1>5, <1>w
<1>6. CASE ThinkBegin
    <2> DEFINE f == [Unused EXCEPT !.at = "test", !.a = array]
    <2>1. f.at = "test"
        BY UnusedType DEF Frames
    <2>2. /\ depth' = depth + 1 /\ depth + 1 \in 1 .. MaxDepth
          /\ frame' = [frame EXCEPT ![depth + 1] = f]
          /\ UNCHANGED <<slots, size, fin, mem, pc>>
          /\ depth > 0 => frame[depth].at = "call"
        BY <1>6, <1>t DEF ThinkBegin, LuaRuns, Top, queue, vector, request
    <2>3. /\ \A d \in 1 .. depth : frame'[d] = frame[d]
          /\ frame'[depth + 1] = f
        BY <2>2, <1>t
    <2>4. \A d \in 1 .. depth : frame[d].at = "call"
        BY <2>2, <1>t DEF QueueInv
    <2>5. \A d \in 1 .. depth' : frame'[d].at # "erase" /\ (d < depth' => frame'[d].at = "call")
        BY <2>1, <2>2, <2>3, <2>4, <1>t
    <2> QED
        BY <2>2, <2>5, <1>e DEF QueueInv
<1>7. CASE ThinkEnd
    <2>1. depth > 0 /\ Top \in Frames /\ Top.at = "test"
        BY <1>7, <1>t DEF ThinkEnd, AtTest, Top
    <2>2. [Top EXCEPT !.at = "clear"] \in Frames /\ [Top EXCEPT !.at = "clear"].at = "clear"
        BY <2>1 DEF Frames
    <2> QED
        BY <1>7, <2>1, <2>2, <1>f DEF ThinkEnd, queue, vector, request
<1>8. ASSUME NEW r \in Req, EraseBegin(r)
      PROVE  QueueInv'
    <2> DEFINE f == [Top EXCEPT !.at = "erase", !.e = r, !.n = size]
    <2>1. /\ depth \in 1 .. MaxDepth /\ Top \in Frames /\ Top.at = "test"
          /\ Top.i <= size /\ slots[Top.i] = r
          /\ frame' = [frame EXCEPT ![depth] = f]
          /\ UNCHANGED <<slots, size, fin, mem, pc, depth>>
        BY <1>8, <1>t DEF EraseBegin, Entry, AtTest, Top, SetTop, queue, vector, request
    <2>2. \A q \in Req : pc[q] # "push"
        BY <1>8 DEF EraseBegin, OperationBegins, Pushing
    <2>3. f.at = "erase" /\ f.i = Top.i /\ f.e = r /\ f.n = size
        BY <2>1 DEF Frames
    <2>4. /\ \A d \in 1 .. depth : d # depth => frame'[d] = frame[d]
          /\ frame'[depth] = f
        BY <2>1, <1>t
    <2>5. ASSUME NEW d \in 1 .. depth, d < depth
          PROVE  frame'[d].at = "call"
        <3>1. d # depth
            BY <2>5, <1>t
        <3> QED
            BY <2>5, <3>1, <2>4, <1>c
    <2>6. \A d \in 1 .. depth :
              frame'[d].at = "erase" =>
                  frame'[d].n = size /\ frame'[d].i <= size /\ slots[frame'[d].i] = frame'[d].e
        BY <2>1, <2>3, <2>4, <2>5, <1>t
    <2> QED
        BY <2>1, <2>2, <2>5, <2>6, <1>e DEF QueueInv
<1>9. CASE EraseEnd
    <2> DEFINE f == [Unused EXCEPT !.at = "test", !.i = Top.i, !.a = Top.a]
    <2> DEFINE t == MoveDown(slots, Top.i, size)
    <2>1. PICK r \in Req : r = Top.e
        BY <1>9, <1>t DEF EraseEnd, Top, Frames
    <2>2. /\ depth \in 1 .. MaxDepth /\ Top \in Frames
          /\ Top.n = size /\ Top.i \in 1 .. size /\ slots[Top.i] = r
          /\ \A q \in Req : pc[q] # "push"
        BY <1>9, <1>t, <2>1 DEF EraseEnd, Top, Frames, QueueInv
    <2>3. f \in Frames /\ f.at = "test"
        BY <2>2, LoopFrameType DEF Frames
    <2>4. /\ slots' = t /\ size' = size - 1
          /\ mem' = [mem EXCEPT ![r] = "freed"]
          /\ frame' = [frame EXCEPT ![depth] = f]
          /\ UNCHANGED <<pc, fin, depth>>
        BY <1>9, <2>1, <2>2 DEF EraseEnd, AfterErase, SetTop
    <2>5. size \in 1 .. Len(slots) /\ \A j, k \in 1 .. size : slots[j] = slots[k] => j = k
        BY <2>2, <1>t, <1>i
    <2>6. /\ \A j \in 1 .. size - 1 : \E k \in 1 .. size : k # Top.i /\ t[j] = slots[k]
          /\ \A k \in 1 .. size : k # Top.i => \E j \in 1 .. size - 1 : t[j] = slots[k]
          /\ \A j, k \in 1 .. size - 1 : t[j] = t[k] => j = k
        <3>1. slots \in Seq(Req) /\ size \in 1 .. Len(slots) /\ Top.i \in 1 .. size
            BY <2>2, <2>5, <1>t
        <3>2. Distinct(slots, size)
            BY <2>5 DEF Distinct
        <3>3. Without(t, slots, Top.i, size)
            BY <3>1, <3>2, MoveDownEntries
        <3> HIDE DEF f, t
        <3> QED
            BY <3>3 DEF Without, Distinct
    <2> HIDE DEF t
    <2>7. ASSUME NEW j \in 1 .. size - 1
          PROVE  mem'[t[j]] = "live" /\ pc'[t[j]] \in InQueue
        <3>1. PICK k \in 1 .. size : k # Top.i /\ t[j] = slots[k]
            BY <2>6
        <3>2. slots[k] # r /\ slots[k] \in Req
            BY <2>2, <2>5, <3>1, <1>e
        <3> QED
            BY <2>4, <3>1, <3>2, <1>t DEF QueueInv
    <2>8. ASSUME NEW q \in Req, mem'[q] = "live"
          PROVE  \E j \in 1 .. size - 1 : t[j] = q
        <3>1. q # r /\ mem[q] = "live"
            BY <2>4, <2>8, <1>t
        <3>2. PICK k \in 1 .. size : slots[k] = q
            BY <2>2, <3>1 DEF QueueInv
        <3> QED
            BY <2>2, <2>6, <3>1, <3>2
    <2>9. \A d \in 1 .. depth : frame'[d].at # "erase" /\ (d < depth => frame'[d].at = "call")
        <3>1. /\ \A d \in 1 .. depth : d # depth => frame'[d] = frame[d]
              /\ frame'[depth] = f
            BY <2>4, <2>2, <1>t
        <3>2. \A d \in 1 .. depth : d < depth \/ d = depth
            BY <1>t
        <3>3. frame'[depth].at = "test"
            BY <3>1, <2>3
        <3>4. ASSUME NEW d \in 1 .. depth, d < depth
              PROVE  frame'[d].at = "call"
            <4>1. d # depth
                BY <3>4, <1>t
            <4> QED
                BY <3>1, <3>4, <4>1, <1>c
        <3> QED
            BY <3>2, <3>3, <3>4, <1>t
    <2> QED
        BY <2>2, <2>4, <2>6, <2>7, <2>8, <2>9 DEF QueueInv
<1>10. ASSUME NEW r \in Req, Skip(r) \/ CallBegin(r)
       PROVE  QueueInv'
    <2>1. depth > 0 /\ Top \in Frames /\ Top.at = "test"
        BY <1>10, <1>t DEF Skip, CallBegin, Entry, AtTest, Top
    <2>2. /\ [Top EXCEPT !.i = Top.i + 1] \in Frames /\ [Top EXCEPT !.at = "call", !.e = r] \in Frames
          /\ [Top EXCEPT !.i = Top.i + 1].at = "test"
          /\ [Top EXCEPT !.at = "call", !.e = r].at = "call"
        <3>1. /\ [Top EXCEPT !.i = Top.i + 1].at = "test"
              /\ [Top EXCEPT !.at = "call", !.e = r].at = "call"
            BY <2>1 DEF Frames
        <3> QED
            BY <2>1, <3>1, FrameUpdates
    <2> QED
        BY <1>10, <2>1, <2>2, <1>f DEF Skip, NextEntry, CallBegin, queue, vector, request
<1>11. ASSUME NEW deferred \in BOOLEAN, CallEnd(deferred)
       PROVE  QueueInv'
    <2>1. depth > 0 /\ Top \in Frames /\ Top.at = "call"
        BY <1>11, <1>t DEF CallEnd, Top
    <2> DEFINE f == [Unused EXCEPT !.at = "test", !.i = Top.i + 1, !.a = Top.a]
    <2>2. f \in Frames /\ f.at = "test"
        <3>1. Top.i + 1 \in Nat \ {0}
            BY <2>1 DEF Frames
        <3> QED
            BY <2>1, <3>1, LoopFrameType DEF Frames
    <2> QED
        BY <1>11, <2>1, <2>2, <1>f DEF CallEnd, NextEntry, queue, vector
<1>12. CASE ThinkClear
    <2>1. /\ depth \in 1 .. MaxDepth
          /\ depth' = depth - 1 /\ depth' \in 0 .. MaxDepth
          /\ frame' = [frame EXCEPT ![depth] = Unused]
          /\ UNCHANGED <<slots, size, fin, mem, pc>>
        BY <1>12, <1>t DEF ThinkClear, SetTop, queue, vector, request
    <2>2. \A d \in 1 .. depth' : d \in 1 .. depth /\ d < depth /\ frame'[d] = frame[d]
        BY <2>1, <1>t
    <2>3. \A d \in 1 .. depth' : frame'[d].at = "call"
        BY <2>2 DEF QueueInv
    <2> QED
        BY <2>1, <2>3, <1>e DEF QueueInv
<1>13. ASSUME NEW r \in Req, LuaMarkHandled(r)
       PROVE  QueueInv'
    BY <1>13, <1>5 DEF LuaMarkHandled, queue, vector, main
<1>14. CASE Start \/ Stop \/ Destroy \/ ThinkFault \/ UNCHANGED vars \/ \E r \in Req : PushFault(r)
    BY <1>14, <1>5 DEF Start, Stop, Destroy, ThinkFault, PushFault, vars, queue, vector, request, main
<1> QED
    BY <1>1, <1>2, <1>3, <1>4, <1>6, <1>7, <1>8, <1>9, <1>10, <1>11, <1>12, <1>13, <1>14
    DEF Next, Worker, Lua, Loop

\* What a push_back or an erase does to m_pRequests while no other operation is
\* under way: as long as that was always so, QueueInv holds.
Orderly == ~overlap => QueueInv

LEMMA OrderlyInit == Init => Orderly
    BY QueueInit DEF Orderly

LEMMA OrderlyStep == TypeInv /\ Handshake /\ Orderly /\ [Next]_vars => Orderly'
    BY QueueStep, OverlapStays DEF Orderly

\* Until two operations overlap, no request is lost, none is listed twice and no
\* freed one is listed, whatever threads and script do and wherever push_back
\* moves the entries.
THEOREM QueueIsExact == Spec => []QueueExact
<1>1. Spec => [](TypeInv /\ Handshake /\ Orderly)
    BY InitType, NextType, HandshakeInit, HandshakeStep, OrderlyInit, OrderlyStep, PTL DEF Spec
<1>2. TypeInv /\ Orderly => QueueExact
    <2> SUFFICES ASSUME TypeInv, QueueInv
                 PROVE  QueueExact
        BY DEF Orderly, QueueExact
    <2>1. \A j \in 1 .. size : slots[j] \in Req
        BY DEF TypeInv, TypeOK
    <2> QED
        BY <2>1 DEF QueueInv, QueueExact, Queued, InQueue
<1> QED
    BY <1>1, <1>2, PTL

-----------------------------------------------------------------------------
(* The main thread when the script is orderly: no handler calls Think or   *)
(* Destroy, and no request is marked twice.                                *)

MainInv ==
    /\ \A r \in Req : called[r] => mem[r] # "none"
    /\ \A r \in Req : del[r] => handled[r]
    /\ depth <= 1
    /\ depth = 1 =>
          /\ alive
          /\ frame[1].i <= size + 1
          /\ frame[1].at \in {"call", "erase"} => frame[1].i <= size
          /\ frame[1].at = "call" => mem[frame[1].e] = "live"

LEMMA MainInit == Init => MainInv
    BY DEF Init, MainInv

LEMMA MainStep ==
    ASSUME Script = {}
    PROVE  TypeInv /\ Handshake /\ QueueInv /\ MainInv /\ [Next]_vars => MainInv'
<1> SUFFICES ASSUME TypeInv, Handshake, QueueInv, MainInv, [Next]_vars
             PROVE  MainInv'
    OBVIOUS
<1>t. /\ slots \in Seq(Req)
      /\ size \in 0 .. Len(slots)
      /\ size \in Nat
      /\ pc \in [Req -> PcSet]
      /\ fin \in [Req -> Nat]
      /\ mem \in [Req -> {"none", "live", "freed"}]
      /\ handled \in [Req -> BOOLEAN]
      /\ called \in [Req -> BOOLEAN]
      /\ del \in [Req -> BOOLEAN]
      /\ depth \in {0, 1}
      /\ MaxDepth \in Nat \ {0}
      /\ frame \in [1 .. MaxDepth -> Frames]
    BY BoundAssumption DEF TypeInv, TypeOK, MainInv
<1>e. \A j \in 1 .. size : slots[j] \in Req
    BY <1>t
<1>1. ASSUME NEW r \in Req, Arrive(r) \/ RouteLocally(r) \/ Wake(r) \/ PollAgain(r) \/ PollHandled(r) \/ Respond(r)
      PROVE  MainInv'
    BY <1>1 DEF Arrive, RouteLocally, Wake, PollAgain, PollHandled, Respond, TouchServer,
       server, queue, vector, request, main, MainInv
<1>2. ASSUME NEW r \in Req, PushBegin(r)
      PROVE  MainInv'
    BY <1>2, <1>t DEF PushBegin, TouchServer, server, vector, main, Frames, MainInv
<1>3. ASSUME NEW r \in Req, PushEnd(r)
      PROVE  MainInv'
    <2>1. size' = size + 1
        BY <1>3 DEF PushEnd, QueueInv
    <2>2. depth = 1 => frame[1].i \in Nat
        BY <1>t DEF Frames
    <2> QED
        BY <1>3, <2>1, <2>2, <1>t DEF PushEnd, TouchServer, server, request, main, MainInv
<1>4. ASSUME NEW r \in Req, Finish(r)
      PROVE  MainInv'
    BY <1>4, <1>t DEF Finish, TouchServer, server, queue, vector, main, Handshake, MainInv
<1>5. CASE Start \/ Stop \/ Destroy
    BY <1>5, <1>t DEF Start, Stop, Destroy, queue, vector, request, main, MainInv
<1>6. ASSUME NEW r \in Req, LuaMarkHandled(r)
      PROVE  MainInv'
    <2>1. mem[r] = "live"
        BY <1>6, <1>t DEF LuaMarkHandled, MainInv, Handshake
    <2> QED
        BY <1>6, <2>1, <1>t DEF LuaMarkHandled, MarkHandled, server, queue, vector, main, MainInv
<1>7. CASE ThinkBegin
    <2> DEFINE f == [Unused EXCEPT !.at = "test", !.a = array]
    <2>1. f.at = "test" /\ f.i = 1
        BY DEF Unused
    <2>2. depth = 0 /\ depth' = 1 /\ frame'[1] = f
        BY <1>7, <1>t DEF ThinkBegin
    <2>3. alive' /\ UNCHANGED <<size, mem, called, del, handled, fault>>
        BY <1>7 DEF ThinkBegin, server, queue, vector, request
    <2> HIDE DEF f
    <2> QED
        BY <2>1, <2>2, <2>3, <1>t DEF MainInv
<1>f. ASSUME AtTest
      PROVE  depth = 1 /\ Top = frame[1] /\ Top \in Frames /\ Top.at = "test" /\ Top.i \in Nat \ {0}
    BY <1>f, <1>t DEF AtTest, Top, Frames
<1>8. CASE ThinkEnd
    <2>1. [Top EXCEPT !.at = "clear"].at = "clear" /\ [Top EXCEPT !.at = "clear"].i = Top.i
        BY <1>8, <1>f DEF ThinkEnd, Frames
    <2>2. frame'[1] = [Top EXCEPT !.at = "clear"]
        BY <1>8, <1>f, <1>t DEF ThinkEnd, SetTop
    <2> QED
        BY <1>8, <1>f, <2>1, <2>2, <1>t DEF ThinkEnd, server, queue, vector, request, MainInv
<1>9. CASE ThinkFault
    BY <1>9 DEF ThinkFault, server, queue, vector, request, main, MainInv
<1>10. ASSUME NEW r \in Req, EraseBegin(r)
       PROVE  MainInv'
    <2> DEFINE f == [Top EXCEPT !.at = "erase", !.e = r, !.n = size]
    <2>1. depth = 1 /\ Top.i <= size /\ Top \in Frames /\ Top.i \in Nat
        BY <1>10, <1>f DEF EraseBegin, Entry
    <2>2. f.at = "erase" /\ f.i = Top.i
        BY <2>1 DEF Frames
    <2>3. frame'[1] = f
        BY <1>10, <2>1, <1>t DEF EraseBegin, SetTop
    <2> HIDE DEF f
    <2> QED
        BY <1>10, <2>1, <2>2, <2>3, <1>t DEF EraseBegin, server, queue, vector, request, MainInv
<1>11. CASE EraseEnd
    <2> DEFINE f == [Unused EXCEPT !.at = "test", !.i = Top.i, !.a = Top.a]
    <2>1. /\ depth = 1 /\ Top = frame[1] /\ Top.i <= size /\ Top.n = size /\ Top.i \in Nat \ {0}
          /\ Top.a \in Nat
        BY <1>11, <1>t DEF EraseEnd, Top, MainInv, QueueInv, Frames
    <2>2. f.at = "test" /\ f.i = Top.i
        <3>1. Top.i \in Nat \ {0} /\ Top.a \in Nat
            BY <2>1
        <3> QED
            BY <3>1, LoopFrameType
    <2>3. frame'[1] = f
        <3>1. frame' = [frame EXCEPT ![depth] = f]
            BY <1>11 DEF EraseEnd, AfterErase, SetTop
        <3> HIDE DEF f
        <3> QED
            BY <2>1, <3>1, <1>t
    <2>4. size' = size - 1 /\ UNCHANGED <<alive, handled, del, called, depth, fault>>
        BY <1>11, <2>1 DEF EraseEnd, server
    <2>5. \A r \in Req : mem'[r] # mem[r] => mem'[r] = "freed"
        BY <1>11, <1>t DEF EraseEnd
    <2> HIDE DEF f
    <2> QED
        BY <2>1, <2>2, <2>3, <2>4, <2>5, <1>t DEF MainInv
<1>12. ASSUME NEW r \in Req, Skip(r)
       PROVE  MainInv'
    <2> DEFINE f == [Top EXCEPT !.i = Top.i + 1]
    <2>1. depth = 1 /\ Top.i <= size /\ Top \in Frames /\ Top.i \in Nat /\ Top.at = "test"
        BY <1>12, <1>f DEF Skip, Entry
    <2>2. f.at = "test" /\ f.i = Top.i + 1
        BY <2>1 DEF Frames
    <2>3. frame'[1] = f
        BY <1>12, <2>1, <1>t DEF Skip, NextEntry, SetTop
    <2> HIDE DEF f
    <2> QED
        BY <1>12, <2>1, <2>2, <2>3, <1>t DEF Skip, server, queue, vector, request, MainInv
<1>13. ASSUME NEW r \in Req, CallBegin(r)
       PROVE  MainInv'
    <2> DEFINE f == [Top EXCEPT !.at = "call", !.e = r]
    <2>1. depth = 1 /\ Top.i <= size /\ Top \in Frames /\ Top.i \in Nat /\ mem[r] = "live"
        BY <1>13, <1>f DEF CallBegin, Entry
    <2>2. f.at = "call" /\ f.i = Top.i /\ f.e = r
        BY <2>1 DEF Frames
    <2>3. frame'[1] = f
        BY <1>13, <2>1, <1>t DEF CallBegin, SetTop
    <2>4. \A q \in Req : called'[q] => called[q] \/ q = r
        BY <1>13, <1>t DEF CallBegin
    <2> HIDE DEF f
    <2> QED
        BY <1>13, <2>1, <2>2, <2>3, <2>4, <1>t DEF CallBegin, server, queue, vector, MainInv
<1>14. ASSUME NEW deferred \in BOOLEAN, CallEnd(deferred)
       PROVE  MainInv'
    <2> DEFINE f == [Unused EXCEPT !.at = "test", !.i = Top.i + 1, !.a = Top.a]
    <2>1. /\ depth = 1 /\ Top = frame[1] /\ Top.i <= size /\ Top.i \in Nat \ {0}
          /\ Top.e \in Req /\ mem[Top.e] = "live" /\ Top.a \in Nat
        BY <1>14, <1>t DEF CallEnd, Top, MainInv, Frames
    <2>2. f.at = "test" /\ f.i = Top.i + 1
        <3>1. Top.i + 1 \in Nat \ {0}
            BY <2>1
        <3> QED
            BY <2>1, <3>1, LoopFrameType DEF Frames
    <2>3. frame'[1] = f
        <3>1. frame' = [frame EXCEPT ![depth] = f]
            BY <1>14 DEF CallEnd, NextEntry, SetTop
        <3> HIDE DEF f
        <3> QED
            BY <2>1, <3>1, <1>t
    <2>4. UNCHANGED <<alive, size, mem, del, called, depth, fault>> /\ \A r \in Req : handled[r] => handled'[r]
        BY <1>14, <2>1, <1>t DEF CallEnd, MarkHandled, server, queue, vector
    <2> HIDE DEF f
    <2> QED
        BY <2>1, <2>2, <2>3, <2>4, <1>t DEF MainInv
<1>15. CASE ThinkClear
    BY <1>15, <1>t DEF ThinkClear, server, queue, vector, request, MainInv
<1>16. CASE UNCHANGED vars
    BY <1>16 DEF vars, server, queue, vector, request, main, MainInv
<1>17. ASSUME NEW r \in Req, PushFault(r)
       PROVE  MainInv'
    BY <1>17 DEF PushFault, server, queue, vector, request, main, MainInv
<1> QED
    BY <1>1, <1>2, <1>3, <1>4, <1>5, <1>6, <1>7, <1>8, <1>9, <1>10, <1>11, <1>12, <1>13, <1>14,
       <1>15, <1>16, <1>17 DEF Next, Worker, Lua, Loop

\* What is left of the faults is an iterator into an array that is gone.
LEMMA FaultIsMoved ==
    ASSUME Script = {}, TypeInv, Handshake, QueueInv, MainInv, Next
    PROVE  fault' \in {"main", "lua"} => Moved'
<1>t. /\ size \in Nat /\ slots \in Seq(Req) /\ size \in 0 .. Len(slots)
      /\ depth \in {0, 1} /\ MaxDepth \in Nat \ {0}
      /\ frame \in [1 .. MaxDepth -> Frames]
      /\ mem \in [Req -> {"none", "live", "freed"}]
    BY BoundAssumption DEF TypeInv, TypeOK, MainInv
<1>n. fault = "none"
    BY DEF Next
<1>1. ASSUME NEW r \in Req, Arrive(r) \/ Worker(r)
      PROVE  fault' \notin {"main", "lua"}
    BY <1>1, <1>n DEF Arrive, Worker, RouteLocally, PushBegin, PushEnd, PushFault, Wake, PollAgain,
       PollHandled, Respond, Finish, TouchServer
<1>2. ASSUME NEW r \in Req, LuaMarkHandled(r)
      PROVE  fault' \notin {"main", "lua"}
    <2>1. mem[r] = "live"
        BY <1>2, <1>t DEF LuaMarkHandled, MainInv, Handshake
    <2> QED
        BY <1>2, <2>1, <1>n DEF LuaMarkHandled, MarkHandled
<1>3. ASSUME NEW deferred \in BOOLEAN, CallEnd(deferred)
      PROVE  fault' \notin {"main", "lua"}
    <2>1. mem[Top.e] = "live"
        BY <1>3, <1>t DEF CallEnd, Top, MainInv
    <2> QED
        BY <1>3, <2>1, <1>n DEF CallEnd, MarkHandled
<1>4. CASE ThinkFault
    <2>1. ASSUME AtTest
          PROVE  alive /\ ~(Top.i > size + 1) /\ ~(Top.i <= size /\ mem[slots[Top.i]] = "freed")
        <3>1. depth = 1 /\ Top = frame[1] /\ Top.i \in Nat \ {0}
            BY <2>1, <1>t DEF AtTest, Top, Frames
        <3>2. alive /\ Top.i <= size + 1
            BY <3>1 DEF MainInv
        <3>3. Top.i <= size => mem[slots[Top.i]] = "live"
            BY <3>1, <1>t DEF QueueInv
        <3> QED
            BY <3>1, <3>2, <3>3, <1>t
    <2>2. depth = 1 /\ Gone(Top.a)
        BY <1>4, <2>1, <1>t DEF ThinkFault, AtTest
    <2>3. Moved
        BY <2>2 DEF Moved, Top
    <2> QED
        BY <1>4, <2>3 DEF ThinkFault, Moved, Gone, queue, vector, main
<1>5. CASE Start \/ Stop \/ Destroy \/ ThinkBegin \/ ThinkEnd \/ EraseEnd \/ ThinkClear
    BY <1>5, <1>n DEF Start, Stop, Destroy, ThinkBegin, ThinkEnd, EraseEnd, ThinkClear
<1>6. ASSUME NEW r \in Req, EraseBegin(r) \/ Skip(r) \/ CallBegin(r)
      PROVE  fault' \notin {"main", "lua"}
    BY <1>6, <1>n DEF EraseBegin, Skip, CallBegin
<1> QED
    BY <1>1, <1>2, <1>3, <1>4, <1>5, <1>6, <1>n DEF Next, Lua, Loop

\* With such a script the main thread touches freed memory only once two
\* operations have overlapped, or with an iterator into an array that a push_back
\* has freed: never by the vector's past-the-end, a freed request or a deleted
\* server.
THEOREM MainIsSafe == Script = {} => (Spec => []OnlyRacesFault)
<1> SUFFICES ASSUME Script = {}
             PROVE  Spec => []OnlyRacesFault
    OBVIOUS
<1> DEFINE Safe == ~overlap => MainInv /\ OnlyRacesFault
<1>1. Init => Safe
    BY MainInit DEF Init, OnlyRacesFault
<1>2. TypeInv /\ Handshake /\ Orderly /\ Safe /\ [Next]_vars => Safe'
    <2> SUFFICES ASSUME TypeInv, Handshake, Orderly, Safe, [Next]_vars, ~overlap'
                 PROVE  MainInv' /\ OnlyRacesFault'
        OBVIOUS
    <2>1. QueueInv /\ MainInv /\ OnlyRacesFault
        BY OverlapStays DEF Orderly
    <2>2. MainInv'
        BY <2>1, MainStep
    <2>3. CASE Next
        BY <2>1, <2>2, <2>3, FaultIsMoved DEF OnlyRacesFault
    <2>4. CASE UNCHANGED vars
        BY <2>1, <2>2, <2>4 DEF vars, queue, vector, main, OnlyRacesFault, Moved, Gone
    <2> QED
        BY <2>2, <2>3, <2>4
<1>3. Safe => OnlyRacesFault
    BY DEF OnlyRacesFault
<1> HIDE DEF Safe
<1>4. Spec => [](TypeInv /\ Handshake /\ Orderly /\ Safe)
    BY <1>1, <1>2, InitType, NextType, HandshakeInit, HandshakeStep, OrderlyInit, OrderlyStep, PTL
    DEF Spec
<1> QED
    BY <1>3, <1>4, PTL

-----------------------------------------------------------------------------
(* The loop of Think as long as no handler calls Think again: it hands     *)
(* every entry to Lua, and it ends.                                        *)

\* NonePassedOver, while no operations have overlapped.
Passed == depth = 1 => \A j \in 1 .. size : j < Top.i => called[slots[j]]

LoopInv ==
    /\ \A r \in Req : handled[r] => called[r]
    /\ depth <= 1
    /\ depth = 1 =>
          /\ frame[1].i <= size + 1
          /\ frame[1].at \in {"call", "erase"} => frame[1].i <= size
          /\ frame[1].at = "call" => called[slots[frame[1].i]] /\ called[frame[1].e]
    /\ Passed

LEMMA LoopInit == Init => LoopInv
    BY DEF Init, LoopInv, Passed

LEMMA LoopStep ==
    ASSUME "think" \notin Script
    PROVE  TypeInv /\ QueueInv /\ LoopInv /\ [Next]_vars => LoopInv'
<1> SUFFICES ASSUME TypeInv, QueueInv, LoopInv, [Next]_vars
             PROVE  LoopInv'
    OBVIOUS
<1>t. /\ slots \in Seq(Req)
      /\ size \in 0 .. Len(slots)
      /\ size \in Nat
      /\ handled \in [Req -> BOOLEAN]
      /\ called \in [Req -> BOOLEAN]
      /\ depth \in {0, 1}
      /\ MaxDepth \in Nat \ {0}
      /\ frame \in [1 .. MaxDepth -> Frames]
    BY BoundAssumption DEF TypeInv, TypeOK, LoopInv
<1>e. \A j \in 1 .. size : slots[j] \in Req
    BY <1>t
<1>p. depth = 1 => frame[1].i \in Nat \ {0} /\ \A j \in 1 .. size : j < frame[1].i => called[slots[j]]
    BY <1>t DEF LoopInv, Passed, Top, Frames
\* Steps that leave the loop and the vector alone.
<1>u. ASSUME UNCHANGED <<slots, size, called, depth, frame>>,
             \A r \in Req : handled'[r] => handled[r] \/ called[r]
      PROVE  LoopInv'
    BY <1>u, <1>t DEF LoopInv, Passed, Top
<1>1. ASSUME NEW r \in Req,
             Arrive(r) \/ RouteLocally(r) \/ PushBegin(r) \/ Wake(r) \/ PollAgain(r)
             \/ PollHandled(r) \/ Respond(r) \/ Finish(r)
      PROVE  LoopInv'
    BY <1>1, <1>u DEF Arrive, RouteLocally, PushBegin, Wake, PollAgain, PollHandled, Respond,
       Finish, queue, vector, request, main
\* What is pushed lies ahead.
<1>2. ASSUME NEW r \in Req, PushEnd(r)
      PROVE  LoopInv'
    <2>1. /\ fin[r] = size /\ size + 1 \in 1 .. Len(slots) + 1
          /\ slots' = Write(slots, size + 1, r) /\ size' = size + 1
          /\ UNCHANGED <<handled, called, depth, frame>>
        BY <1>2, <1>t DEF PushEnd, QueueInv, request, main
    <2>2. \A j \in 1 .. size : slots'[j] = slots[j]
        <3>1. \A j \in 1 .. (size + 1) - 1 : Write(slots, size + 1, r)[j] = slots[j]
            BY <2>1, <1>t, WriteEntries
        <3> QED
            BY <2>1, <3>1, <1>t
    <2>3. ASSUME depth = 1
          PROVE  \A j \in 1 .. size' : j < frame[1].i => j \in 1 .. size
        BY <2>1, <2>3, <1>p, <1>t DEF LoopInv
    <2>4. Passed'
        <3>1. SUFFICES ASSUME depth = 1, NEW j \in 1 .. size', j < frame[1].i
                       PROVE  called[slots'[j]]
            BY <2>1 DEF Passed, Top
        <3>2. j \in 1 .. size /\ slots'[j] = slots[j]
            BY <3>1, <2>2, <2>3
        <3> QED
            BY <3>1, <3>2, <1>p
    <2>5. depth = 1 /\ frame[1].at = "call" => frame[1].i \in 1 .. size
        BY <1>p, <1>t DEF LoopInv
    <2> QED
        BY <2>1, <2>2, <2>4, <2>5, <1>p, <1>t DEF LoopInv
<1>3. CASE Start \/ Stop \/ Destroy \/ ThinkFault \/ UNCHANGED vars \/ \E r \in Req : PushFault(r)
    BY <1>3, <1>u DEF Start, Stop, Destroy, ThinkFault, PushFault, vars, queue, vector, request, main
<1>4. ASSUME NEW r \in Req, LuaMarkHandled(r)
      PROVE  LoopInv'
    BY <1>4, <1>u, <1>t DEF LuaMarkHandled, MarkHandled, queue, vector, main
<1>5. CASE ThinkBegin
    <2>1. depth = 0 /\ depth' = 1 /\ frame'[1] = [Unused EXCEPT !.at = "test", !.a = array]
        BY <1>5, <1>t DEF ThinkBegin
    <2>2. frame'[1].i = 1 /\ frame'[1].at = "test"
        BY <2>1 DEF Unused
    <2> QED
        BY <1>5, <2>1, <2>2, <1>t DEF ThinkBegin, queue, vector, request, LoopInv, Passed, Top
<1>f. ASSUME AtTest
      PROVE  /\ depth = 1 /\ Top = frame[1] /\ Top \in Frames /\ Top.at = "test"
             /\ Top.i \in Nat \ {0} /\ Top.i <= size + 1
    BY <1>f, <1>t DEF AtTest, Top, Frames, LoopInv
\* Steps of the loop that leave the vector alone: the entries the iterator has
\* passed were called.
<1>g. ASSUME depth = 1, depth' = 1, UNCHANGED <<slots, size>>,
             \A r \in Req : called[r] => called'[r],
             \A r \in Req : handled'[r] => called'[r],
             NEW i \in Nat, i <= size + 1, frame'[1].i = i,
             frame'[1].at \in {"call", "erase"} => i <= size,
             frame'[1].at = "call" => called'[slots[i]] /\ called'[frame'[1].e],
             \A j \in 1 .. size : j < i => called'[slots[j]]
      PROVE  LoopInv'
    BY <1>g, <1>t DEF LoopInv, Passed, Top
<1>6. CASE ThinkEnd
    <2>1. frame'[1] = [Top EXCEPT !.at = "clear"]
        BY <1>6, <1>f, <1>t DEF ThinkEnd, SetTop
    <2>2. frame'[1].at = "clear" /\ frame'[1].i = Top.i
        BY <1>6, <2>1, <1>f DEF ThinkEnd, Frames
    <2> QED
        BY <1>6, <2>2, <1>f, <1>g, <1>p, <1>t DEF ThinkEnd, queue, vector, request, LoopInv
<1>7. ASSUME NEW r \in Req, EraseBegin(r)
      PROVE  LoopInv'
    <2>1. frame'[1] = [Top EXCEPT !.at = "erase", !.e = r, !.n = size]
        BY <1>7, <1>f, <1>t DEF EraseBegin, Entry, SetTop
    <2>2. frame'[1].at = "erase" /\ frame'[1].i = Top.i /\ Top.i <= size
        BY <1>7, <2>1, <1>f DEF EraseBegin, Entry, Frames
    <2> QED
        BY <1>7, <2>2, <1>f, <1>g, <1>p, <1>t DEF EraseBegin, Entry, queue, vector, request, LoopInv
<1>8. ASSUME NEW r \in Req, Skip(r)
      PROVE  LoopInv'
    <2>1. frame'[1] = [Top EXCEPT !.i = Top.i + 1]
        BY <1>8, <1>f, <1>t DEF Skip, NextEntry, Entry, SetTop
    <2>2. frame'[1].at = "test" /\ frame'[1].i = Top.i + 1 /\ Top.i <= size
        BY <1>8, <2>1, <1>f DEF Skip, Entry, Frames
    <2>3. called[slots[Top.i]]
        BY <1>8, <1>f DEF Skip, Entry, LoopInv
    <2>4. \A j \in 1 .. size : j < Top.i + 1 => called[slots[j]]
        BY <1>8, <2>3, <1>f, <1>p, <1>t DEF Skip, Entry
    <2>5. Top.i + 1 \in Nat /\ Top.i + 1 <= size + 1 /\ depth = 1 /\ depth' = 1
        BY <1>8, <2>2, <1>f, <1>t DEF Skip, Entry
    <2> QED
        BY <1>8, <2>2, <2>4, <2>5, <1>g, <1>t DEF Skip, queue, vector, request, LoopInv
<1>9. ASSUME NEW r \in Req, CallBegin(r)
      PROVE  LoopInv'
    <2>1. frame'[1] = [Top EXCEPT !.at = "call", !.e = r]
        BY <1>9, <1>f, <1>t DEF CallBegin, Entry, SetTop
    <2>2. frame'[1].at = "call" /\ frame'[1].i = Top.i /\ frame'[1].e = r
        BY <1>9, <2>1, <1>f DEF CallBegin, Entry, Frames
    <2>3. Top.i <= size /\ slots[Top.i] = r
        BY <1>9, <1>f DEF CallBegin, Entry
    <2>4. called'[r] /\ \A q \in Req : called[q] => called'[q]
        BY <1>9, <1>t DEF CallBegin
    <2>5. \A j \in 1 .. size : j < Top.i => called'[slots[j]]
        BY <1>9, <2>4, <1>f, <1>p, <1>e DEF CallBegin, Entry
    <2> QED
        BY <1>9, <2>2, <2>3, <2>4, <2>5, <1>f, <1>g, <1>t DEF CallBegin, Entry, queue, vector, LoopInv
<1>10. ASSUME NEW deferred \in BOOLEAN, CallEnd(deferred)
       PROVE  LoopInv'
    <2>1. /\ depth = 1 /\ Top = frame[1] /\ Top \in Frames /\ Top.i \in Nat \ {0} /\ Top.i <= size
          /\ Top.e \in Req /\ called[Top.e] /\ called[slots[Top.i]]
        BY <1>10, <1>t DEF CallEnd, Top, LoopInv, Frames
    <2> DEFINE f == [Unused EXCEPT !.at = "test", !.i = Top.i + 1, !.a = Top.a]
    <2>2. f.at = "test" /\ f.i = Top.i + 1
        <3>1. Top.i + 1 \in Nat \ {0}
            BY <2>1
        <3> QED
            BY <2>1, <3>1, LoopFrameType DEF Frames
    <2>3. frame'[1].at = "test" /\ frame'[1].i = Top.i + 1
        <3>1. frame' = [frame EXCEPT ![depth] = f]
            BY <1>10 DEF CallEnd, NextEntry, SetTop
        <3> HIDE DEF f
        <3> QED
            BY <2>1, <2>2, <3>1, <1>t
    <2>4. \A r \in Req : handled'[r] => handled[r] \/ r = Top.e
        BY <1>10, <1>t DEF CallEnd, MarkHandled
    <2>5. \A j \in 1 .. size : j < Top.i + 1 => called[slots[j]]
        BY <2>1, <1>p, <1>t
    <2>6. UNCHANGED <<slots, size, called, depth>>
        BY <1>10 DEF CallEnd, queue, vector
    <2> QED
        BY <2>1, <2>3, <2>4, <2>5, <2>6, <1>g, <1>t DEF LoopInv
\* The entry that moves into the place is the next one.
<1>11. CASE EraseEnd
    <2>1. /\ depth = 1 /\ Top = frame[1] /\ Top.i \in 1 .. size /\ Top.n = size /\ Top.a \in Nat
        BY <1>11, <1>t DEF EraseEnd, Top, LoopInv, QueueInv, Frames
    <2> DEFINE f == [Unused EXCEPT !.at = "test", !.i = Top.i, !.a = Top.a]
    <2>2. f.at = "test" /\ f.i = Top.i
        <3>1. Top.i \in Nat \ {0}
            BY <2>1
        <3> QED
            BY <2>1, <3>1, LoopFrameType DEF Frames
    <2>3. frame'[1].at = "test" /\ frame'[1].i = Top.i
        <3>1. frame' = [frame EXCEPT ![depth] = f]
            BY <1>11 DEF EraseEnd, AfterErase, SetTop
        <3> HIDE DEF f
        <3> QED
            BY <2>1, <2>2, <3>1, <1>t
    <2>4. slots' = MoveDown(slots, Top.i, size) /\ size' = size - 1 /\ UNCHANGED <<handled, called, depth>>
        BY <1>11, <2>1 DEF EraseEnd
    <2>5. \A j \in 1 .. size - 1 : j < Top.i => slots'[j] = slots[j]
        BY <2>1, <2>4, <1>t DEF MoveDown
    <2>6. Passed'
        <3> SUFFICES ASSUME NEW j \in 1 .. size', j < Top.i
                     PROVE  called'[slots'[j]]
            BY <2>1, <2>3, <2>4 DEF Passed, Top
        <3>1. j \in 1 .. size - 1 /\ j \in 1 .. size
            BY <2>4, <1>t
        <3>2. slots'[j] = slots[j] /\ called[slots[j]]
            BY <3>1, <2>1, <2>5, <1>p
        <3> QED
            BY <3>2, <2>4
    <2> QED
        BY <2>1, <2>3, <2>4, <2>6, <1>t DEF LoopInv
<1>12. CASE ThinkClear
    BY <1>12, <1>t DEF ThinkClear, queue, vector, request, LoopInv, Passed
<1> QED
    BY <1>1, <1>2, <1>3, <1>4, <1>5, <1>6, <1>7, <1>8, <1>9, <1>10, <1>11, <1>12
    DEF Next, Worker, Lua, Loop

\* The loop as long as no operations have overlapped.
Undamaged == ~overlap => LoopInv

LEMMA UndamagedStep ==
    ASSUME "think" \notin Script
    PROVE  TypeInv /\ Orderly /\ Undamaged /\ [Next]_vars => Undamaged'
    BY LoopStep, OverlapStays DEF Orderly, Undamaged

\* Unless a handler calls Think: until two operations overlap, Think hands each
\* entry it passes to Lua, whatever it erases and whatever is pushed.
THEOREM NoEntryPassedOver == "think" \notin Script => (Spec => []NonePassedOver)
<1> SUFFICES ASSUME "think" \notin Script
             PROVE  Spec => []NonePassedOver
    OBVIOUS
<1>1. Init => Undamaged
    BY LoopInit DEF Undamaged
<1>2. TypeInv /\ Orderly /\ Undamaged /\ [Next]_vars => Undamaged'
    BY UndamagedStep
<1>3. Spec => [](TypeInv /\ Handshake /\ Orderly /\ Undamaged)
    BY <1>1, <1>2, InitType, NextType, HandshakeInit, HandshakeStep, OrderlyInit, OrderlyStep, PTL
    DEF Spec
<1>4. Undamaged => NonePassedOver
    BY DEF Undamaged, LoopInv, Passed, NonePassedOver
<1> QED
    BY <1>3, <1>4, PTL

\* StepsLeft of the one loop there is.
Measured ==
    /\ StepsLeft \in Nat
    /\ depth = 0 => StepsLeft = 0
    /\ depth = 1 =>
          /\ frame[1].at = "test" => StepsLeft = 2 * (size + 1 - frame[1].i) + 2
          /\ frame[1].at \in {"erase", "call"} => StepsLeft = 2 * (size + 1 - frame[1].i) + 1
          /\ frame[1].at \notin {"test", "erase", "call"} => StepsLeft = 1

LEMMA StepsLeftIs == TypeInv /\ LoopInv => Measured
<1> SUFFICES ASSUME TypeInv, LoopInv
             PROVE  Measured
    OBVIOUS
<1>1. depth \in {0, 1} /\ size \in Nat
    BY BoundAssumption DEF TypeInv, TypeOK, LoopInv
<1>2. CASE depth = 0
    BY <1>2 DEF StepsLeft, Measured
<1>3. CASE depth = 1
    <2>1. frame[1].i \in Nat \ {0} /\ frame[1].i <= size + 1
        BY <1>3, BoundAssumption DEF TypeInv, TypeOK, LoopInv, Frames
    <2>2. Top = frame[1]
        BY <1>3 DEF Top
    <2> QED
        BY <1>1, <1>3, <2>1, <2>2 DEF StepsLeft, Measured
<1> QED
    BY <1>1, <1>2, <1>3

LEMMA LoopComesCloser ==
    ASSUME TypeInv, QueueInv, LoopInv, Measured, Measured', Loop, fault' = "none", fault = "none"
    PROVE  StepsLeft' < StepsLeft
<1>t. /\ depth \in {0, 1} /\ size \in Nat
      /\ MaxDepth \in Nat \ {0}
      /\ frame \in [1 .. MaxDepth -> Frames]
    BY BoundAssumption DEF TypeInv, TypeOK, LoopInv
<1>i. depth = 1 => Top = frame[1] /\ Top \in Frames /\ Top.i \in Nat \ {0} /\ Top.i <= size + 1
    BY <1>t DEF Top, Frames, LoopInv
<1>1. CASE ThinkEnd
    <2>1. depth = 1 /\ depth' = 1 /\ Top.at = "test" /\ Top.i = size + 1
        BY <1>1, <1>t DEF ThinkEnd, AtTest
    <2>2. frame'[1] = [Top EXCEPT !.at = "clear"]
        BY <1>1, <2>1, <1>t DEF ThinkEnd, SetTop
    <2>3. frame'[1].at = "clear"
        BY <2>1, <2>2, <1>i DEF Frames
    <2> QED
        BY <2>1, <2>3, <1>i, <1>t DEF Measured
<1>2. CASE ThinkFault
    BY <1>2 DEF ThinkFault
<1>3. CASE EraseEnd
    <2> DEFINE f == [Unused EXCEPT !.at = "test", !.i = Top.i, !.a = Top.a]
    <2>1. depth = 1 /\ depth' = 1 /\ Top.at = "erase" /\ Top.i <= size /\ size' = size - 1
        BY <1>3, <1>t DEF EraseEnd, Top, QueueInv
    <2>2. f.at = "test" /\ f.i = Top.i
        BY <2>1, <1>i, LoopFrameType DEF Frames
    <2>3. frame'[1].at = "test" /\ frame'[1].i = Top.i
        <3>1. frame' = [frame EXCEPT ![depth] = f]
            BY <1>3 DEF EraseEnd, AfterErase, SetTop
        <3> HIDE DEF f
        <3> QED
            BY <2>1, <2>2, <3>1, <1>t
    <2>4. /\ StepsLeft = 2 * (size + 1 - Top.i) + 1
          /\ StepsLeft' = 2 * ((size - 1) + 1 - Top.i) + 2
        BY <2>1, <2>3, <1>i DEF Measured
    <2> QED
        BY <2>1, <2>4, <1>i, <1>t
<1>4. CASE ThinkClear
    <2>1. depth = 1 /\ depth' = 0 /\ Top.at = "clear"
        BY <1>4, <1>t DEF ThinkClear
    <2> QED
        BY <2>1, <1>i DEF Measured
<1>5. ASSUME NEW r \in Req, EraseBegin(r)
      PROVE  StepsLeft' < StepsLeft
    <2>1. depth = 1 /\ depth' = 1 /\ Top.at = "test" /\ size' = size
        BY <1>5, <1>t DEF EraseBegin, Entry, AtTest, queue, vector
    <2>2. frame'[1] = [Top EXCEPT !.at = "erase", !.e = r, !.n = size]
        BY <1>5, <2>1, <1>t DEF EraseBegin, SetTop
    <2>3. frame'[1].at = "erase" /\ frame'[1].i = Top.i
        BY <2>1, <2>2, <1>i DEF Frames
    <2>4. /\ StepsLeft = 2 * (size + 1 - Top.i) + 2
          /\ StepsLeft' = 2 * (size + 1 - Top.i) + 1
        BY <2>1, <2>3, <1>i DEF Measured
    <2> QED
        BY <2>4, <1>i, <2>1, <1>t
<1>6. ASSUME NEW r \in Req, Skip(r)
      PROVE  StepsLeft' < StepsLeft
    <2>1. depth = 1 /\ depth' = 1 /\ Top.at = "test" /\ size' = size
        BY <1>6, <1>t DEF Skip, Entry, AtTest, queue, vector
    <2>2. frame'[1] = [Top EXCEPT !.i = Top.i + 1]
        BY <1>6, <2>1, <1>t DEF Skip, NextEntry, SetTop
    <2>3. frame'[1].at = "test" /\ frame'[1].i = Top.i + 1
        BY <2>1, <2>2, <1>i DEF Frames
    <2>4. /\ StepsLeft = 2 * (size + 1 - Top.i) + 2
          /\ StepsLeft' = 2 * (size + 1 - (Top.i + 1)) + 2
        BY <2>1, <2>3, <1>i DEF Measured
    <2> QED
        BY <2>4, <1>i, <2>1, <1>t
<1>7. ASSUME NEW r \in Req, CallBegin(r)
      PROVE  StepsLeft' < StepsLeft
    <2>1. depth = 1 /\ depth' = 1 /\ Top.at = "test" /\ size' = size
        BY <1>7, <1>t DEF CallBegin, Entry, AtTest, queue, vector
    <2>2. frame'[1] = [Top EXCEPT !.at = "call", !.e = r]
        BY <1>7, <2>1, <1>t DEF CallBegin, SetTop
    <2>3. frame'[1].at = "call" /\ frame'[1].i = Top.i
        BY <2>1, <2>2, <1>i DEF Frames
    <2>4. /\ StepsLeft = 2 * (size + 1 - Top.i) + 2
          /\ StepsLeft' = 2 * (size + 1 - Top.i) + 1
        BY <2>1, <2>3, <1>i DEF Measured
    <2> QED
        BY <2>4, <1>i, <2>1, <1>t
<1>8. ASSUME NEW deferred \in BOOLEAN, CallEnd(deferred)
      PROVE  StepsLeft' < StepsLeft
    <2> DEFINE f == [Unused EXCEPT !.at = "test", !.i = Top.i + 1, !.a = Top.a]
    <2>1. depth = 1 /\ depth' = 1 /\ Top.at = "call" /\ size' = size
        BY <1>8, <1>t DEF CallEnd, queue, vector
    <2>2. f.at = "test" /\ f.i = Top.i + 1
        <3>1. Top.i + 1 \in Nat \ {0}
            BY <2>1, <1>i
        <3> QED
            BY <2>1, <3>1, <1>i, LoopFrameType DEF Frames
    <2>3. frame'[1].at = "test" /\ frame'[1].i = Top.i + 1
        <3>1. frame' = [frame EXCEPT ![depth] = f]
            BY <1>8 DEF CallEnd, NextEntry, SetTop
        <3> HIDE DEF f
        <3> QED
            BY <2>1, <2>2, <3>1, <1>t
    <2>4. /\ StepsLeft = 2 * (size + 1 - Top.i) + 1
          /\ StepsLeft' = 2 * (size + 1 - (Top.i + 1)) + 2
        BY <2>1, <2>3, <1>i DEF Measured
    <2> QED
        BY <2>4, <1>i, <2>1, <1>t
<1> QED
    BY <1>1, <1>2, <1>3, <1>4, <1>5, <1>6, <1>7, <1>8 DEF Loop

\* Whoever else takes a step leaves the loop where it is, and adds one entry
\* at most.
LEMMA OthersAdd ==
    ASSUME "think" \notin Script, TypeInv, QueueInv, LoopInv, Measured, Measured',
           [Next]_vars, ~Loop, depth > 0
    PROVE  StepsLeft' <= StepsLeft + 2 * (size' - size)
<1>t. depth = 1 /\ size \in Nat /\ frame[1].i \in Nat
    BY BoundAssumption DEF TypeInv, TypeOK, LoopInv, Frames
<1>1. UNCHANGED <<depth, frame>> /\ (size' = size \/ size' = size + 1)
    <2>1. ASSUME NEW r \in Req, PushEnd(r)
          PROVE  UNCHANGED <<depth, frame>> /\ size' = size + 1
        BY <2>1, <1>t DEF PushEnd, QueueInv, main
    <2>2. ASSUME NEW r \in Req,
                 Arrive(r) \/ RouteLocally(r) \/ PushBegin(r) \/ Wake(r) \/ PollAgain(r)
                 \/ PollHandled(r) \/ Respond(r) \/ Finish(r) \/ LuaMarkHandled(r)
          PROVE  UNCHANGED <<depth, frame, size>>
        BY <2>2 DEF Arrive, RouteLocally, PushBegin, Wake, PollAgain, PollHandled, Respond,
           Finish, LuaMarkHandled, queue, vector, main
    <2>3. CASE Start \/ Stop \/ Destroy \/ UNCHANGED vars
        BY <2>3, <1>t DEF Start, Stop, Destroy, vars, queue, vector, main
    <2>5. ASSUME NEW r \in Req, PushFault(r)
          PROVE  UNCHANGED <<depth, frame, size>>
        BY <2>5 DEF PushFault, queue, vector, main
    <2>4. CASE ThinkBegin
        BY <2>4, <1>t DEF ThinkBegin
    <2> QED
        BY <2>1, <2>2, <2>3, <2>4, <2>5, <1>t DEF Next, Worker, Lua
<1>2. CASE frame[1].at = "test"
    <2>1. /\ StepsLeft = 2 * (size + 1 - frame[1].i) + 2
          /\ StepsLeft' = 2 * (size' + 1 - frame[1].i) + 2
        BY <1>1, <1>2, <1>t DEF Measured
    <2> QED
        BY <2>1, <1>1, <1>t
<1>3. CASE frame[1].at \in {"erase", "call"}
    <2>1. /\ StepsLeft = 2 * (size + 1 - frame[1].i) + 1
          /\ StepsLeft' = 2 * (size' + 1 - frame[1].i) + 1
        BY <1>1, <1>3, <1>t DEF Measured
    <2> QED
        BY <2>1, <1>1, <1>t
<1>4. CASE frame[1].at \notin {"test", "erase", "call"}
    <2>1. StepsLeft = 1 /\ StepsLeft' = 1
        BY <1>1, <1>4, <1>t DEF Measured
    <2>2. size' - size = 0 \/ size' - size = 1
        BY <1>1, <1>t
    <2> QED
        BY <2>1, <2>2
<1> QED
    BY <1>2, <1>3, <1>4

\* Under the same conditions Think ends: it takes two statements for each entry
\* that was queued when it began or is pushed while it runs, and two more, or
\* fewer if a push_back takes the array from under its iterator.
THEOREM ThinkComesToAnEnd == "think" \notin Script => (Spec => ThinkEnds)
<1> SUFFICES ASSUME "think" \notin Script
             PROVE  Spec => ThinkEnds
    OBVIOUS
<1> DEFINE Inv == TypeInv /\ Orderly /\ Undamaged
           Closer == /\ StepsLeft' \in Nat
                     /\ Loop => StepsLeft' < StepsLeft
                     /\ ~Loop /\ depth > 0 => StepsLeft' <= StepsLeft + 2 * (size' - size)
<1>1. Init => Undamaged
    BY LoopInit DEF Undamaged
<1>2. TypeInv /\ Orderly /\ Undamaged /\ [Next]_vars => Undamaged'
    BY UndamagedStep
<1>3. Spec => []Inv
    BY <1>1, <1>2, InitType, NextType, HandshakeInit, HandshakeStep, OrderlyInit, OrderlyStep, PTL
    DEF Spec
<1>4. ASSUME Inv, Inv', [Next]_vars
      PROVE  [fault' = "none" /\ ~overlap' => Closer]_vars
    <2> SUFFICES ASSUME ~(UNCHANGED vars), fault' = "none", ~overlap'
                 PROVE  Closer
        OBVIOUS
    <2>1. fault = "none" /\ ~overlap
        BY <1>4, OverlapStays DEF Next
    <2>2. QueueInv /\ LoopInv
        BY <1>4, <2>1 DEF Orderly, Undamaged
    <2>3. Measured
        BY <1>4, <2>2, StepsLeftIs
    <2>4. (TypeInv /\ LoopInv => Measured)'
        BY StepsLeftIs, PTL
    <2>5. Measured'
        BY <1>4, <2>4 DEF Undamaged
    <2>6. StepsLeft' \in Nat
        BY <2>5 DEF Measured
    <2>7. Loop => StepsLeft' < StepsLeft
        BY <1>4, <2>1, <2>2, <2>3, <2>5, LoopComesCloser
    <2>8. ~Loop /\ depth > 0 => StepsLeft' <= StepsLeft + 2 * (size' - size)
        BY <1>4, <2>2, <2>3, <2>5, OthersAdd
    <2> QED
        BY <2>6, <2>7, <2>8
<1> QED
    BY <1>3, <1>4, PTL DEF Spec, ThinkEnds
=============================================================================
