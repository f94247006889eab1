-------------------------- MODULE PreparedResponses --------------------------
(***************************************************************************)
(* The prepared responses of one HttpServer                                *)
(* (src/source/modules/httpserver.cpp): the script adds them on the main   *)
(* thread, each for one client and one route, and a pool thread that comes *)
(* with a matching exchange sends the response and deletes it.             *)
(*                                                                         *)
(* m_pPreparedResponsesMutex guards the map against the pool threads; the  *)
(* destructor of the server does not take it.  "Route" stands for all that *)
(* ShouldRespond compares: path, method, body and required headers.        *)
(*                                                                         *)
(* An access to freed memory, or one past the end of the map, is undefined *)
(* behaviour: the step records it in "fault" and the behaviour ends.       *)
(***************************************************************************)
EXTENDS Naturals, Sequences, FiniteSets

CONSTANTS
    Client,   \* user ids of connected clients
    NoClient, \* the user id -1: no client has the address of the exchange
    Route,    \* kinds of request
    Exch,     \* HTTP exchanges, each a pool thread
    Resp,     \* the PreparedHttpResponse objects that can be allocated
    MaxNest,  \* bound on AddPreparedResponse calls within the callback of another
    Script    \* "destroy": a callback destroys the server; "keep": Lua keeps responses

ASSUME KeyAssumption    == NoClient \notin Client
ASSUME ExchAssumption   == "main" \notin Exch
ASSUME NestAssumption   == MaxNest \in Nat \ {0}
ASSUME ScriptAssumption == Script \subseteq {"destroy", "keep"}

VARIABLES
    alive,    \* the HttpServer object has not been deleted
    prepared, \* m_pPreparedResponses: the vector of each user id
    mutex,    \* who is between Lock and Unlock of m_pPreparedResponsesMutex
    pc,       \* where each pool thread is in the handler lambda
    ask,      \* user id and route of each exchange, once it has come
    obj,      \* each PreparedHttpResponse: not allocated, being built, queued or freed
    key,      \* the user id and route it is for
    stack,    \* the responses whose callbacks are on the Lua stack
    adding,   \* what the main thread does: runs Lua, waits for the mutex, or holds it
    kept,     \* responses whose HttpResponse a Lua variable still names
    gift,     \* history: the response each exchange was answered with
    fault     \* history: who did something undefined first

main == <<stack, adding, kept>>
vars == <<alive, prepared, mutex, pc, ask, obj, key, main, gift, fault>>

Key == Client \union {NoClient}

PcSet == {"none", "lookup", "scan", "reply", "erase", "unlock", "miss",
          "denied", "answered", "main"}

\* Who can hold the mutex, and what an exchange or a response can be for.
Holders == {{}, {"main"}} \union {{e} : e \in Exch}
Asks == {{}} \union {{<<c, k>>} : c \in Key, k \in Route}

TypeOK ==
    /\ alive \in BOOLEAN
    /\ prepared \in [Key -> Seq(Resp)]
    /\ mutex \in Holders
    /\ pc \in [Exch -> PcSet]
    /\ ask \in [Exch -> Asks]
    /\ obj \in [Resp -> {"none", "building", "queued", "freed"}]
    /\ key \in [Resp -> Asks]
    /\ stack \in Seq(Resp) /\ Len(stack) <= MaxNest
    /\ adding \in {"no", "lock", "push"}
    /\ kept \subseteq Resp
    /\ gift \in [Exch -> SUBSET Resp]
    /\ fault \in {"none", "worker", "main", "lua"}

Init ==
    /\ alive = TRUE
    /\ prepared = [c \in Key |-> <<>>]
    /\ mutex = {}
    /\ pc = [e \in Exch |-> "none"]
    /\ ask = [e \in Exch |-> {}]
    /\ obj = [p \in Resp |-> "none"]
    /\ key = [p \in Resp |-> {}]
    /\ stack = <<>>
    /\ adding = "no"
    /\ kept = {}
    /\ gift = [e \in Exch |-> {}]
    /\ fault = "none"

-----------------------------------------------------------------------------
(* The pool thread of exchange e: the lambda of CreateHandler as far as    *)
(* the queue of the main thread.                                           *)

Goto(e, l) == pc' = [pc EXCEPT ![e] = l]

\* Mutant: the mutex keeps nobody out.
MutexFree_Ignored == TRUE

MutexFree == mutex = {}

\* The exchange comes in, and the lambda looks for its client.
Arrive(e, c, k) ==
    /\ alive
    /\ pc[e] = "none"
    /\ ask' = [ask EXCEPT ![e] = {<<c, k>>}]
    /\ Goto(e, "lookup")
    /\ UNCHANGED <<alive, prepared, mutex, obj, key, main, gift, fault>>

\* The route has an ipWhitelist, and no client has the address.
Deny(e) ==
    /\ pc[e] = "lookup"
    /\ \E k \in Route : ask[e] = {<<NoClient, k>>}
    /\ Goto(e, "denied")
    /\ UNCHANGED <<alive, prepared, mutex, ask, obj, key, main, gift, fault>>

Lock(e) ==
    /\ pc[e] = "lookup"
    /\ MutexFree
    /\ mutex' = mutex \union {e}
    /\ Goto(e, "scan")
    /\ UNCHANGED <<alive, prepared, ask, obj, key, main, gift, fault>>

\* Mutant: whatever the client asks for is answered.
ShouldRespond_Client(p, e) ==
    \E c \in Key : \E k, l \in Route : key[p] = {<<c, k>>} /\ ask[e] = {<<c, l>>}

\* ShouldRespond.
ShouldRespond(p, e) == \E c \in Key, k \in Route : key[p] = {<<c, k>>} /\ ask[e] = {<<c, k>>}

\* The vector the lambda found for the user id of the exchange.
Found(e, c) == \E k \in Route : ask[e] = {<<c, k>>}

\* The first response of the client matches.
Hit(e, c) ==
    /\ pc[e] = "scan" /\ Found(e, c)
    /\ prepared[c] # <<>> /\ obj[Head(prepared[c])] # "freed"
    /\ ShouldRespond(Head(prepared[c]), e)
    /\ Goto(e, "reply")
    /\ UNCHANGED <<alive, prepared, mutex, ask, obj, key, main, gift, fault>>

\* The first response is freed memory; or it does not match, and the loop,
\* which increments the iterator of the map and not vecIT, tests it again
\* until the map ends, and goes on past its end.
WalkOff(e, c) ==
    /\ pc[e] = "scan" /\ Found(e, c)
    /\ prepared[c] # <<>>
    /\ obj[Head(prepared[c])] = "freed" \/ ~ShouldRespond(Head(prepared[c]), e)
    /\ fault' = "worker"
    /\ UNCHANGED <<alive, prepared, mutex, pc, ask, obj, key, main, gift>>

\* The client has no response left.
Miss(e, c) ==
    /\ pc[e] = "scan" /\ Found(e, c)
    /\ prepared[c] = <<>>
    /\ Goto(e, "miss")
    /\ UNCHANGED <<alive, prepared, mutex, ask, obj, key, main, gift, fault>>

\* pPrepared->DoResponse(res), and delete pPrepared.
Reply(e, c) ==
    /\ pc[e] = "reply" /\ Found(e, c)
    /\ obj' = [obj EXCEPT ![Head(prepared[c])] = "freed"]
    /\ Goto(e, "erase")
    /\ UNCHANGED <<alive, prepared, mutex, ask, key, main, gift, fault>>

\* Mutant: the last response of the vector is erased.
Erased_Last(s) == SubSeq(s, 1, Len(s) - 1)

\* vecIT is still begin().
Erased(s) == Tail(s)

Erase(e, c) ==
    /\ pc[e] = "erase" /\ Found(e, c)
    /\ gift' = [gift EXCEPT ![e] = {Head(prepared[c])}]
    /\ prepared' = [prepared EXCEPT ![c] = Erased(@)]
    /\ Goto(e, "unlock")
    /\ UNCHANGED <<alive, mutex, ask, obj, key, main, fault>>

\* Mutant: the early return forgets the mutex.
Released_NotOnHit(e) == IF pc[e] = "unlock" THEN mutex ELSE mutex \ {e}

Released(e) == mutex \ {e}

\* The lambda returns, or goes on to new HttpRequest.
Unlock(e) ==
    /\ pc[e] \in {"unlock", "miss"}
    /\ mutex' = Released(e)
    /\ Goto(e, IF pc[e] = "unlock" THEN "answered" ELSE "main")
    /\ UNCHANGED <<alive, prepared, ask, obj, key, main, gift, fault>>

Worker(e) ==
    \/ Deny(e) \/ Lock(e) \/ Unlock(e)
    \/ \E c \in Key : Hit(e, c) \/ WalkOff(e, c) \/ Miss(e, c) \/ Reply(e, c) \/ Erase(e, c)

\* The lambda goes on with a server that is deleted.
Orphan(e) ==
    /\ ~alive
    /\ pc[e] \in {"lookup", "scan", "reply", "erase", "unlock", "miss"}
    /\ fault' = "worker"
    /\ UNCHANGED <<alive, prepared, mutex, pc, ask, obj, key, main, gift>>

-----------------------------------------------------------------------------
(* The main thread.                                                        *)

LuaRuns == adding = "no"

\* HttpServer:AddPreparedResponse allocates the response and calls the
\* script's callback with its HttpResponse.
Prepare(p, c, k) ==
    /\ alive /\ LuaRuns
    /\ Len(stack) < MaxNest
    /\ obj[p] = "none"
    /\ obj' = [obj EXCEPT ![p] = "building"]
    /\ key' = [key EXCEPT ![p] = {<<c, k>>}]
    /\ stack' = Append(stack, p)
    /\ UNCHANGED <<alive, prepared, mutex, pc, ask, adding, kept, gift, fault>>

Building == stack[Len(stack)]

\* The callback returns.  Delete_HttpResponse finds no userdata to release
\* (UserData shows why), so what Lua has kept still names the response.
Return(keeps) ==
    /\ LuaRuns /\ stack # <<>>
    /\ keeps => "keep" \in Script
    /\ kept' = IF keeps THEN kept \union {Building} ELSE kept
    /\ adding' = "lock"
    /\ UNCHANGED <<alive, prepared, mutex, pc, ask, obj, key, stack, gift, fault>>

\* AddPreparedResponse of the HttpServer.
AddLock ==
    /\ adding = "lock" /\ alive
    /\ MutexFree
    /\ mutex' = mutex \union {"main"}
    /\ adding' = "push"
    /\ UNCHANGED <<alive, prepared, pc, ask, obj, key, stack, kept, gift, fault>>

AddPush(c) ==
    /\ adding = "push"
    /\ \E k \in Route : key[Building] = {<<c, k>>}
    /\ prepared' = [prepared EXCEPT ![c] = Append(@, Building)]
    /\ obj' = [obj EXCEPT ![Building] = "queued"]
    /\ mutex' = mutex \ {"main"}
    /\ stack' = SubSeq(stack, 1, Len(stack) - 1)
    /\ adding' = "no"
    /\ UNCHANGED <<alive, pc, ask, key, kept, gift, fault>>

\* The callback has destroyed the server it is called for.
AddOrphan ==
    /\ adding = "lock" /\ ~alive
    /\ fault' = "main"
    /\ UNCHANGED <<alive, prepared, mutex, pc, ask, obj, key, main, gift>>

\* The script fills in a response it has kept, while a pool thread sends it
\* or after it was deleted.
Rewrite(p) ==
    /\ LuaRuns
    /\ p \in kept
    /\ \/ obj[p] = "freed"
       \/ \E e \in Exch, c \in Key :
            pc[e] = "reply" /\ Found(e, c) /\ prepared[c] # <<>> /\ Head(prepared[c]) = p
    /\ fault' = "lua"
    /\ UNCHANGED <<alive, prepared, mutex, pc, ask, obj, key, main, gift>>

InMap(p) == \E c \in Key : \E j \in 1 .. Len(prepared[c]) : prepared[c][j] = p

\* ~HttpServer deletes every response in the map, without the mutex: one that
\* a pool thread has just deleted is deleted twice.
Destroy ==
    /\ alive /\ LuaRuns
    /\ stack # <<>> => "destroy" \in Script
    /\ alive' = FALSE
    /\ obj' = [p \in Resp |-> IF InMap(p) THEN "freed" ELSE obj[p]]
    /\ prepared' = [c \in Key |-> <<>>]
    /\ fault' = IF \E p \in Resp : InMap(p) /\ obj[p] = "freed" THEN "main" ELSE fault
    /\ UNCHANGED <<mutex, pc, ask, key, main, gift>>

Main ==
    \/ AddLock \/ AddOrphan \/ Destroy
    \/ \E c \in Key : AddPush(c)
    \/ \E p \in Resp : Rewrite(p) \/ \E c \in Key, k \in Route : Prepare(p, c, k)
    \/ \E keeps \in BOOLEAN : Return(keeps)

-----------------------------------------------------------------------------
Next ==
    /\ fault = "none"
    /\ \/ Main
       \/ \E e \in Exch :
            \/ \E c \in Key, k \in Route : Arrive(e, c, k)
            \/ alive /\ Worker(e)
            \/ Orphan(e)

\* Pool threads are scheduled, and the main thread takes the mutex when it is
\* free.  No callback has to return.
Fairness ==
    /\ \A e \in Exch : WF_vars(fault = "none" /\ alive /\ Worker(e))
    /\ WF_vars(fault = "none" /\ (AddLock \/ \E c \in Key : AddPush(c)))

Spec == Init /\ [][Next]_vars
FairSpec == Spec /\ Fairness

-----------------------------------------------------------------------------
(* Safety.                                                                 *)

\* The exchange inside the critical section has deleted p but not erased it.
HalfErased(p) ==
    \E e \in Exch, c \in Key : pc[e] = "erase" /\ Found(e, c) /\ p = Head(prepared[c])

\* The map holds every response that was added and not used yet, once and
\* under the client it was added for, and nothing that is freed: additions by
\* the script and removals by pool threads lose and double nothing.
PreparedExact ==
    alive =>
        /\ \A p \in Resp : InMap(p) <=> obj[p] = "queued" \/ HalfErased(p)
        /\ \A c \in Key : \A j \in 1 .. Len(prepared[c]) :
             \E k \in Route : key[prepared[c][j]] = {<<c, k>>}
        /\ \A c \in Key : \A i, j \in 1 .. Len(prepared[c]) :
             prepared[c][i] = prepared[c][j] => i = j

\* While its server lives, a pool thread goes wrong in one way only: the first
\* response of its client is for another route.  It never finds one that
\* another thread has used.
OnlyMismatchFails ==
    (fault = "worker" /\ alive) =>
        \E e \in Exch, c \in Key :
            /\ pc[e] = "scan" /\ Found(e, c) /\ prepared[c] # <<>>
            /\ obj[Head(prepared[c])] = "queued"
            /\ ~ShouldRespond(Head(prepared[c]), e)

\* The mutex is held by one thread at most, and only where its next steps wait
\* for nothing: a pool thread in its lookup, or the main thread about to add,
\* which never runs a callback that could lock it again.  So no early return
\* and no nested addition leaves the others waiting for ever.
HeldToPassOn ==
    mutex # {} =>
        \/ mutex = {"main"} /\ adding = "push"
        \/ \E e \in Exch : mutex = {e} /\ pc[e] \in {"scan", "reply", "erase", "unlock", "miss"}

-----------------------------------------------------------------------------
(* Liveness.                                                               *)

\* The mutex never blocks an exchange for good: additions nested in callbacks
\* and early returns all release it.
LookupEnds ==
    \A e \in Exch :
        (pc[e] = "lookup") ~> (pc[e] \in {"denied", "answered", "main"} \/ ~alive \/ fault # "none")

-----------------------------------------------------------------------------
(* The queue of responses that this implements.                            *)

RouteOf(p) == {k \in Route : \E c \in Key : key[p] = {<<c, k>>}}

About == [p \in Resp |-> IF obj[p] \in {"queued", "freed"} THEN RouteOf(p) ELSE {}]
Passed == {e \in Exch : pc[e] \in {"miss", "main"}}

Queue == INSTANCE PreparedQueue WITH
    waiting <- prepared, about <- About, given <- gift, passed <- Passed

\* Lookups and additions are atomic: each response goes to one exchange of its
\* client and route, the oldest first, and no exchange that one is waiting for
\* is passed on to the main thread.
QueueSpec == Queue!Spec
=============================================================================
