----------------------------- MODULE HttpServer -----------------------------
(***************************************************************************)
(* One HttpServer object of src/source/modules/httpserver.cpp and the      *)
(* threads that share it:                                                  *)
(*                                                                         *)
(*   - the main thread, which runs HttpServer::Think every game frame and  *)
(*     the Lua script (handlers called by Think, and code outside them);   *)
(*   - one httplib pool thread per HTTP exchange, which runs the lambda    *)
(*     that CreateHandler returns.  An exchange is named by the request it *)
(*     allocates, so the set Req stands for pool threads and for           *)
(*     HttpRequest objects alike.                                          *)
(*                                                                         *)
(* The two sides share m_pRequests, m_bUpdate and the flags of each        *)
(* HttpRequest, with no lock and no atomic.  m_pRequests is a std::vector: *)
(* push_back and erase are modelled as a load of its pointers followed by  *)
(* the stores that depend on them, and an iterator is a place in one of    *)
(* the arrays that the vector allocates, one after the other.              *)
(*                                                                         *)
(* An access to freed memory is undefined behaviour: the step records it   *)
(* in the history variable "fault" and the behaviour ends there.           *)
(***************************************************************************)
EXTENDS Naturals, Sequences, FiniteSets

CONSTANTS
    Req,        \* HTTP exchanges; each is one pool thread and at most one HttpRequest
    PoolSize,   \* threads of the httplib ThreadPool
    MaxDepth,   \* bound on nested HttpServer::Think frames
    Script      \* what the Lua script does besides answering its requests

(***************************************************************************)
(* Script lists the undisciplined habits of the Lua code:                  *)
(*   "think"    a handler calls server:Think()                             *)
(*   "destroy"  a handler calls holytest_httpserver.Destroy(server)        *)
(*   "remark"   MarkHandled is called on a request already handled         *)
(***************************************************************************)
ASSUME ReqAssumption    == Req # {}
ASSUME BoundAssumption  == PoolSize \in Nat \ {0} /\ MaxDepth \in Nat \ {0}
ASSUME ScriptAssumption == Script \subseteq {"think", "destroy", "remark"}

VARIABLES
    alive,     \* the HttpServer object has not been deleted
    started,   \* Start has created a listening thread at least once
    online,    \* m_iStatus = HTTPSERVER_ONLINE
    update,    \* m_bUpdate
    slots,     \* storage of m_pRequests, entries past the end included
    size,      \* its finish pointer, as the number of entries
    array,     \* which of the arrays allocated so far it uses
    room,      \* the capacity of that array
    pc,        \* where each pool thread is in the handler lambda
    fin,       \* the finish pointer a push_back in progress has loaded
    into,      \* and the array it points into
    mem,       \* the HttpRequest of an exchange: not allocated, live or freed
    handled,   \* HttpRequest::m_bHandled
    del,       \* HttpRequest::m_bDelete
    called,    \* the Lua handler has been called, so Lua holds the request
    depth,     \* number of Think frames on the main thread's stack
    frame,     \* those frames
    overlap,   \* history: two operations on m_pRequests have overlapped in time
    fault      \* history: who touched freed memory first

server  == <<alive, started, online>>
vector  == <<slots, size, array, room>>
queue   == <<vector, fin, into, overlap>>
request == <<mem, handled, del, called>>
main    == <<depth, frame>>
vars    == <<server, update, queue, pc, request, main, fault>>

-----------------------------------------------------------------------------
PcSet == {"none", "route", "push", "wake", "poll", "respond", "finish", "done"}

Frames == [at : {"unused", "test", "erase", "call", "clear"}, \* the statement it is at
           i  : Nat \ {0}, a : Nat,                          \* the iterator, and its array
           e  : Req,                                         \* pEntry
           n  : Nat]                                         \* finish as loaded by erase

\* The frame past the top of the stack: its fields are never read.
Unused == [at |-> "unused", i |-> 1, a |-> 0, e |-> CHOOSE q \in Req : TRUE, n |-> 0]

TypeOK ==
    /\ alive \in BOOLEAN /\ started \in BOOLEAN /\ online \in BOOLEAN
    /\ update \in BOOLEAN
    /\ slots \in Seq(Req)
    /\ size \in 0 .. Len(slots)
    /\ array \in Nat /\ room \in Nat
    /\ pc \in [Req -> PcSet]
    /\ fin \in [Req -> Nat]
    /\ into \in [Req -> Nat]
    /\ mem \in [Req -> {"none", "live", "freed"}]
    /\ handled \in [Req -> BOOLEAN]
    /\ del \in [Req -> BOOLEAN]
    /\ called \in [Req -> BOOLEAN]
    /\ depth \in 0 .. MaxDepth
    /\ frame \in [1 .. MaxDepth -> Frames]
    /\ overlap \in BOOLEAN
    /\ fault \in {"none", "worker", "main", "lua"}

Init ==
    /\ alive = TRUE /\ started = FALSE /\ online = FALSE
    /\ update = FALSE
    /\ slots = <<>> /\ size = 0 /\ array = 0 /\ room = 0
    /\ pc = [r \in Req |-> "none"]
    /\ fin = [r \in Req |-> 0]
    /\ into = [r \in Req |-> 0]
    /\ mem = [r \in Req |-> "none"]
    /\ handled = [r \in Req |-> FALSE]
    /\ del = [r \in Req |-> FALSE]
    /\ called = [r \in Req |-> FALSE]
    /\ depth = 0
    /\ frame = [d \in 1 .. MaxDepth |-> Unused]
    /\ overlap = FALSE
    /\ fault = "none"

-----------------------------------------------------------------------------
(* m_pRequests.  The vector keeps the entries past its end: what a         *)
(* push_back or an erase that lost a race leaves there can be read again.  *)

\* The entries between begin() and end().
Queued == {slots[j] : j \in 1 .. size}

\* Store r at position k, at most one past the storage used so far.
Write(s, k, r) == IF k <= Len(s) THEN [s EXCEPT ![k] = r] ELSE Append(s, r)

\* Mutant: the entries stay where they are.
MoveDown_Nothing(s, i, n) == s

\* Move the entries i+1 .. n one position down.
MoveDown(s, i, n) == [j \in 1 .. Len(s) |-> IF i <= j /\ j < n THEN s[j + 1] ELSE s[j]]

Pushing == {r \in Req : pc[r] = "push"}
Erasing == {d \in 1 .. depth : frame[d].at = "erase"}

\* An operation on the vector begins, while another is under way or not.
OperationBegins == overlap' = (overlap \/ Pushing # {} \/ Erasing # {})

\* The capacities push_back can choose when the array is full: the growth is
\* the library's, at least one and about twice the size at most.
Growth == room + 1 .. 2 * room + 1

\* The array an iterator or a loaded pointer points into has been freed.
Gone(a) == a # array

-----------------------------------------------------------------------------
(* The pool thread of exchange r: the lambda of CreateHandler.             *)

Goto(r, l) == pc' = [pc EXCEPT ![r] = l]

\* Touching "this" once the server is deleted is undefined.
TouchServer == fault' = IF alive THEN fault ELSE "worker"

\* httplib dispatches a request to a pool thread.  m_iStatus is not looked
\* at: a listening thread that Stop did not reach, or the job queue of a
\* pool that is shutting down, still brings requests.
Arrive(r) ==
    /\ alive /\ started
    /\ pc[r] = "none"
    /\ Cardinality({q \in Req : pc[q] \notin {"none", "done"}}) < PoolSize
    /\ Goto(r, "route")
    /\ UNCHANGED <<server, update, queue, request, main, fault>>

\* The exchange ends without the main thread: the route has an ipWhitelist and
\* no connected client has the request's address, or a prepared response of
\* its client matches.  Which of the two is not told apart here.
RouteLocally(r) ==
    /\ pc[r] = "route"
    /\ Goto(r, "done")
    /\ TouchServer
    /\ UNCHANGED <<server, update, queue, request, main>>

\* new HttpRequest, and push_back loads the pointers of the vector.
PushBegin(r) ==
    /\ pc[r] = "route"
    /\ OperationBegins
    /\ mem' = [mem EXCEPT ![r] = "live"]
    /\ fin' = [fin EXCEPT ![r] = size]
    /\ into' = [into EXCEPT ![r] = array]
    /\ Goto(r, "push")
    /\ TouchServer
    /\ UNCHANGED <<server, update, vector, handled, del, called, main>>

\* push_back stores the entry and the new finish pointer.  If the array is
\* full it moves the entries to a larger one and frees it.
PushEnd(r) ==
    /\ pc[r] = "push"
    /\ ~Gone(into[r])
    /\ slots' = Write(slots, fin[r] + 1, r)
    /\ size' = fin[r] + 1
    /\ IF fin[r] < room
       THEN UNCHANGED <<array, room>>
       ELSE array' = array + 1 /\ room' \in Growth
    /\ fin' = [fin EXCEPT ![r] = 0]
    /\ into' = [into EXCEPT ![r] = 0]
    /\ Goto(r, "wake")
    /\ TouchServer
    /\ UNCHANGED <<server, update, overlap, request, main>>

\* Another push_back has freed the array this one stores to, or frees.
PushFault(r) ==
    /\ pc[r] = "push"
    /\ Gone(into[r])
    /\ fault' = "worker"
    /\ UNCHANGED <<server, update, queue, pc, request, main>>

\* Mutant: only the first entry of the queue sets m_bUpdate.
Woken_First == update \/ size = 1

\* m_bUpdate after the store of a pool thread.
Woken == TRUE

\* m_bUpdate = true.
Wake(r) ==
    /\ pc[r] = "wake"
    /\ update' = Woken
    /\ Goto(r, "poll")
    /\ TouchServer
    /\ UNCHANGED <<server, queue, request, main>>

\* Mutants: the lambda does not wait, or waits for the other flag.
SeesHandled_Always(r) == TRUE
SeesHandled_Delete(r) == del[r]

\* The condition the lambda waits for.
SeesHandled(r) == handled[r]

\* while (!request->m_bHandled) ThreadSleep(m_iThreadSleep): one more turn
\* reads m_iThreadSleep, which only matters once the server is gone.
PollAgain(r) ==
    /\ pc[r] = "poll"
    /\ ~SeesHandled(r)
    /\ TouchServer
    /\ UNCHANGED <<server, update, queue, pc, request, main>>

\* The wait is over.
PollHandled(r) ==
    /\ pc[r] = "poll"
    /\ SeesHandled(r)
    /\ Goto(r, "respond")
    /\ UNCHANGED <<server, update, queue, request, main, fault>>

\* request->m_pResponseData.DoResponse(res).
Respond(r) ==
    /\ pc[r] = "respond"
    /\ Goto(r, "finish")
    /\ UNCHANGED <<server, update, queue, request, main, fault>>

\* request->m_bDelete = true, and the lambda returns into httplib::Server.
Finish(r) ==
    /\ pc[r] = "finish"
    /\ del' = [del EXCEPT ![r] = TRUE]
    /\ Goto(r, "done")
    /\ TouchServer
    /\ UNCHANGED <<server, update, queue, mem, handled, called, main>>

Worker(r) ==
    \/ RouteLocally(r) \/ PushBegin(r) \/ PushEnd(r) \/ PushFault(r) \/ Wake(r)
    \/ PollAgain(r) \/ PollHandled(r) \/ Respond(r) \/ Finish(r)

-----------------------------------------------------------------------------
(* The main thread.                                                        *)

Top == frame[depth]

\* Lua code runs: called by Think, or outside of it.
LuaRuns == depth > 0 => Top.at = "call"

\* HttpRequest::MarkHandled.
MarkHandled(r, who) ==
    /\ handled' = IF mem[r] = "live" THEN [handled EXCEPT ![r] = TRUE] ELSE handled
    /\ fault' = IF mem[r] = "live" THEN fault ELSE who

SetTop(f) == frame' = [frame EXCEPT ![depth] = f]

\* HttpServer::Start.  When the server is online it stops it first, which
\* changes nothing that the new thread does not set again.
Start ==
    /\ alive /\ LuaRuns
    /\ started' = TRUE
    /\ online' = TRUE
    /\ UNCHANGED <<alive, update, queue, pc, request, main, fault>>

\* HttpServer::Stop.  The join gives up after 100 ms, so pool threads may be
\* anywhere in the lambda when it returns.
Stop ==
    /\ alive /\ LuaRuns
    /\ online
    /\ online' = FALSE
    /\ UNCHANGED <<alive, started, update, queue, pc, request, main, fault>>

\* holytest_httpserver.Destroy, and LuaShutdown of the module: Stop, then the
\* destructor.  The HttpRequest objects are not freed.
Destroy ==
    /\ alive /\ LuaRuns
    /\ depth > 0 => "destroy" \in Script
    /\ alive' = FALSE
    /\ online' = FALSE
    /\ UNCHANGED <<started, update, queue, pc, request, main, fault>>

\* The script calls MarkHandled on a request one of its handlers was given.
LuaMarkHandled(r) ==
    /\ LuaRuns
    /\ called[r]
    /\ handled[r] => "remark" \in Script
    /\ MarkHandled(r, "lua")
    /\ UNCHANGED <<server, update, queue, pc, mem, del, called, main>>

\* HttpServer::Think, called by the module's Think or by a handler.
ThinkBegin ==
    /\ alive /\ LuaRuns
    /\ depth > 0 => "think" \in Script
    /\ depth < MaxDepth
    /\ online /\ update
    /\ depth' = depth + 1
    /\ frame' = [frame EXCEPT ![depth + 1] = [Unused EXCEPT !.at = "test", !.a = array]]
    /\ UNCHANGED <<server, update, queue, pc, request, fault>>

AtTest == depth > 0 /\ Top.at = "test"

\* it has reached end().
ThinkEnd ==
    /\ AtTest
    /\ alive /\ ~Gone(Top.a) /\ Top.i = size + 1
    /\ SetTop([Top EXCEPT !.at = "clear"])
    /\ UNCHANGED <<server, update, queue, pc, request, depth, fault>>

\* The vector or the array of the iterator is gone, and it never equals end();
\* it has gone past end(); or *it has been freed.
ThinkFault ==
    /\ \/ AtTest /\ \/ ~alive \/ Gone(Top.a)
                    \/ Top.i > size + 1
                    \/ Top.i <= size /\ mem[slots[Top.i]] = "freed"
       \/ depth > 0 /\ Top.at = "erase" /\ Gone(Top.a)
    /\ fault' = "main"
    /\ UNCHANGED <<server, update, queue, pc, request, main>>

\* The entry under the iterator, when the loop can read it.
Entry(r) ==
    /\ AtTest /\ alive /\ ~Gone(Top.a)
    /\ Top.i <= size /\ r = slots[Top.i] /\ mem[r] = "live"

\* Mutant: handled requests are removed, answered or not.
Removable_Handled(r) == handled[r]

\* The entries Think removes.
Removable(r) == del[r]

\* m_bDelete is set: erase loads the finish pointer.
EraseBegin(r) ==
    /\ Entry(r)
    /\ Removable(r)
    /\ OperationBegins
    /\ SetTop([Top EXCEPT !.at = "erase", !.e = r, !.n = size])
    /\ UNCHANGED <<server, update, vector, fin, into, pc, request, depth, fault>>

\* Mutant: the loop also increments the iterator, and passes over an entry.
AfterErase_Next == Top.i + 1

\* erase returns the iterator of the entry that moved into the place.
AfterErase == Top.i

\* erase stores the entries and the finish pointer; the request is deleted.
EraseEnd ==
    /\ depth > 0 /\ Top.at = "erase" /\ ~Gone(Top.a)
    /\ slots' = MoveDown(slots, Top.i, Top.n)
    /\ size' = Top.n - 1
    /\ mem' = [mem EXCEPT ![Top.e] = "freed"]
    /\ SetTop([Unused EXCEPT !.at = "test", !.i = AfterErase, !.a = Top.a])
    /\ UNCHANGED <<server, update, array, room, fin, into, overlap, pc, handled, del, called, depth, fault>>

\* Mutant: the loop tests the same entry again.
NextEntry_Same == Top.i

\* ++it
NextEntry == Top.i + 1

\* The entry waits for its worker: go on to the next one.
Skip(r) ==
    /\ Entry(r)
    /\ ~Removable(r) /\ handled[r]
    /\ SetTop([Top EXCEPT !.i = NextEntry])
    /\ UNCHANGED <<server, update, queue, pc, request, depth, fault>>

\* CallFunc pushes the request and its response and enters the Lua handler.
\* A request whose handler returned true earlier is handed out again.
CallBegin(r) ==
    /\ Entry(r)
    /\ ~Removable(r) /\ ~handled[r]
    /\ called' = [called EXCEPT ![r] = TRUE]
    /\ SetTop([Top EXCEPT !.at = "call", !.e = r])
    /\ UNCHANGED <<server, update, queue, pc, mem, handled, del, depth, fault>>

\* The handler returns true and the script answers later, or it returns
\* anything else or fails and CallFunc marks the request itself.
CallEnd(deferred) ==
    /\ depth > 0 /\ Top.at = "call"
    /\ IF deferred THEN UNCHANGED <<handled, fault>> ELSE MarkHandled(Top.e, "main")
    /\ SetTop([Unused EXCEPT !.at = "test", !.i = NextEntry, !.a = Top.a])
    /\ UNCHANGED <<server, update, queue, pc, mem, del, called, depth>>

\* m_bUpdate = false, whatever the workers set it to meanwhile.
ThinkClear ==
    /\ depth > 0 /\ Top.at = "clear"
    /\ update' = FALSE
    /\ SetTop(Unused)
    /\ depth' = depth - 1
    /\ UNCHANGED <<server, queue, pc, request, fault>>

Loop ==
    \/ ThinkEnd \/ ThinkFault \/ EraseEnd \/ ThinkClear
    \/ \E r \in Req : EraseBegin(r) \/ Skip(r) \/ CallBegin(r)
    \/ \E deferred \in BOOLEAN : CallEnd(deferred)

Lua == Start \/ Stop \/ Destroy \/ \E r \in Req : LuaMarkHandled(r)

-----------------------------------------------------------------------------
Next ==
    /\ fault = "none"
    /\ Lua \/ ThinkBegin \/ Loop \/ \E r \in Req : Arrive(r) \/ Worker(r)

\* Game frames keep calling Think, its loop and the handlers run to their end,
\* and every pool thread is scheduled.  Nothing obliges a client to send a
\* request or a script to answer one it deferred.
Fairness ==
    /\ WF_vars(fault = "none" /\ depth = 0 /\ ThinkBegin)
    /\ WF_vars(fault = "none" /\ Loop)
    /\ \A r \in Req : WF_vars(fault = "none" /\ Worker(r))

Spec == Init /\ [][Next]_vars
FairSpec == Spec /\ Fairness

-----------------------------------------------------------------------------
(* Safety.                                                                 *)

\* A request is freed only when its worker is through with it: the m_bDelete
\* handshake between the lambda and Think.
RequestOutlivesWorker ==
    \A r \in Req : pc[r] \in {"push", "wake", "poll", "respond", "finish"} => mem[r] = "live"

\* Nothing but an overlap of two operations damages m_pRequests: until there is
\* one, it holds every live request that was pushed, each once, and no freed
\* one, whatever Think erases and push_back moves to a larger array.
QueueExact ==
    alive /\ ~overlap =>
        /\ Queued = {r \in Req : mem[r] = "live" /\ pc[r] # "push"}
        /\ \A j, k \in 1 .. size : slots[j] = slots[k] => j = k

\* A push_back has freed the array under the iterator of a Think.
Moved == \E d \in 1 .. depth : Gone(frame[d].a)

\* With a script that sticks to the rules, two races of m_pRequests are all that
\* makes Think or MarkHandled touch freed memory: an overlap of operations, and
\* a push_back that moves the vector while Think is in its loop.
OnlyRacesFault == fault \in {"main", "lua"} => overlap \/ Moved

\* "the httpserver should NOT be running anymore" when ~HttpServer frees the
\* state that its handlers use.
DestroyedMeansStopped == ~alive => \A r \in Req : pc[r] \in {"none", "done"}

\* Until operations overlap, Think hands every entry it passes to Lua, also when
\* it removes others on its way and pool threads add some: what it has not seen
\* lies ahead of it.
NonePassedOver ==
    depth = 1 /\ ~overlap => \A j \in 1 .. size : j < Top.i => called[slots[j]]

\* The statements Think still has to run if nobody adds an entry: two for each
\* entry ahead of it.
StepsLeft ==
    IF depth = 0 THEN 0
    ELSE CASE Top.at = "test"            -> 2 * (size + 1 - Top.i) + 2
           [] Top.at \in {"erase", "call"} -> 2 * (size + 1 - Top.i) + 1
           [] OTHER                      -> 1

\* Until operations overlap, Think comes to an end: each statement brings it
\* closer, and an entry that a pool thread adds meanwhile costs it two more.  If
\* that moves the vector, the end is the next use of the iterator, a fault.
ThinkEnds ==
    [][fault' = "none" /\ ~overlap' =>
           /\ StepsLeft' \in Nat
           /\ Loop => StepsLeft' < StepsLeft
           /\ ~Loop /\ depth > 0 => StepsLeft' <= StepsLeft + 2 * (size' - size)]_vars

-----------------------------------------------------------------------------
(* Liveness.                                                               *)

Over == ~alive \/ fault # "none"

\* A request that has been marked as handled is answered.
HandledIsAnswered == \A r \in Req : handled[r] ~> (pc[r] = "done" \/ Over)

\* "they might end up stuck until a second one comes in" (the BUG comment of
\* Think): a request that waits for its handler, its update lost or not, gets to
\* it when another one is about to set m_bUpdate while no Think is under way.
\* The entry of one that was lost in an overlap is not found by that either.
SecondUnsticksFirst ==
    \A r \in Req :
        (pc[r] = "poll" /\ ~called[r] /\ depth = 0 /\ \E q \in Req : pc[q] = "wake")
            ~> (called[r] \/ ~online \/ overlap \/ Over)

-----------------------------------------------------------------------------
(* The exchange as its client sees it, and the specification it implements. *)

Stage(r) ==
    CASE mem[r] = "freed"                      -> "freed"
      [] mem[r] = "live" /\ pc[r] = "done"     -> "answered"
      [] mem[r] = "live" /\ pc[r] # "done"     -> IF handled[r] THEN "settled" ELSE "waiting"
      [] mem[r] = "none"                       -> IF pc[r] = "done" THEN "local" ELSE "absent"

Exchange == INSTANCE HttpExchange WITH stage <- [r \in Req |-> Stage(r)]

\* Every exchange goes through the stages of HttpExchange.
ExchangeSpec == Exchange!Spec
=============================================================================
