---------------------------- MODULE HttpServers -----------------------------
(***************************************************************************)
(* All servers of the process, and the way of a Lua function from          *)
(* HttpServer:Get to its call (src/source/modules/httpserver.cpp):         *)
(*                                                                         *)
(*   - g_pHttpServers, which httpserver.Create and Destroy change and      *)
(*     CHTTPServerModule::Think iterates over, calling handlers that may   *)
(*     create and destroy servers;                                         *)
(*   - m_pHandlerReferences, the references that keep the functions alive  *)
(*     in their Lua state, whose numbers Lua gives out again;              *)
(*   - the handlers httplib matches requests with, a vector to which the   *)
(*     main thread adds while pool threads may go through it;              *)
(*   - LuaShutdown, which deletes every server before its Lua state is     *)
(*     closed, if the module is on then;                                   *)
(*   - the listening threads, which Start creates and Stop may fail to     *)
(*     reach.                                                              *)
(*                                                                         *)
(* What becomes of one request, and of one that a handler gets nested with *)
(* HttpServer:Think, is the matter of HttpServer, and a thread that works  *)
(* for a deleted server is a matter of its run "destroyed": it is not      *)
(* followed here.  A use of an unusable pointer is recorded in "fault" and *)
(* ends the behaviour.                                                     *)
(***************************************************************************)
EXTENDS Naturals, Sequences, FiniteSets

CONSTANTS
    Srv,          \* HttpServer objects, each made once
    Ref,          \* numbers of references
    Thr,          \* pool threads
    None,         \* no server, no request
    MaxFunctions, \* bound on the functions the script registers
    MaxLuas       \* bound on the Lua states, one after the other

ASSUME NoneAssumption == None \notin Srv
ASSUME BoundAssumption == MaxFunctions \in Nat /\ MaxLuas \in Nat \ {0}

VARIABLES
    servers,   \* g_pHttpServers
    lua,       \* m_pLua of each server
    online,    \* m_iStatus = HTTPSERVER_ONLINE
    port,      \* the listening threads of each server: started, or taking connections
    routes,    \* get_handlers_ and m_pHandlerReferences: the function and its reference
    queue,     \* m_pRequests: the thread that waits, and its route
    worker,    \* each pool thread: its place, its server, its place in routes
    think,     \* CHTTPServerModule::Think: iterator, servers ahead, inside one, the call
    enabled,   \* the module is switched on
    state,     \* external: the Lua state and what the plugin knows of it, see Init
    registry,  \* external: the function behind each reference of it, 0 if it is free
    made,      \* how many functions were registered
    history,   \* what went before, see Init
    fault      \* history: what a step had to use and could not

objects == <<servers, lua, online, port, routes, queue>>
rest == <<objects, worker, think, enabled, state, registry, made, history>>
vars == <<rest, fault>>

Route   == [ref: Ref, fn: 1..MaxFunctions]
Waiting == [thr: Thr, route: Route]
NoCall  == [thr |-> None, route |-> None]

Places  == [pc: {"free"}, srv: {None}, at: {0}]
               \union [pc: {"match", "wait"}, srv: Srv, at: Nat \ {0}]
               \union [pc: {"kept"}, srv: Srv, at: {0}]

TypeOK ==
    /\ servers \subseteq Srv
    /\ lua \in [Srv -> 0..MaxLuas]
    /\ online \in [Srv -> BOOLEAN]
    /\ port \in [Srv -> SUBSET {"starting", "listening"}]
    /\ routes \in [Srv -> Seq(Route)]
    /\ queue \in [Srv -> SUBSET Waiting]
    /\ worker \in [Thr -> Places]
    /\ think \in [on: BOOLEAN, cur: Srv \union {None}, ahead: SUBSET Srv, inside: BOOLEAN,
                  call: Waiting \union {NoCall}]
    /\ enabled \in BOOLEAN
    /\ state \in [no: 1..MaxLuas, open: BOOLEAN, known: BOOLEAN, given: BOOLEAN, stale: BOOLEAN]
    /\ registry \in [Ref -> 0..MaxFunctions]
    /\ made \in 0..MaxFunctions
    /\ history \in [loose: SUBSET Srv, stray: SUBSET Srv, own: BOOLEAN]
    /\ fault \in {"none", "wild", "dangling"}

Free == [pc |-> "free", srv |-> None, at |-> 0]
Off  == [on |-> FALSE, cur |-> None, ahead |-> {}, inside |-> FALSE, call |-> NoCall]

Init ==
    /\ servers = {}
    /\ lua = [s \in Srv |-> 0]
    /\ online = [s \in Srv |-> FALSE]
    /\ port = [s \in Srv |-> {}]
    /\ routes = [s \in Srv |-> <<>>]
    /\ queue = [s \in Srv |-> {}]
    /\ worker = [t \in Thr |-> Free]
    /\ think = Off
    /\ enabled = TRUE
    /\ state = [no    |-> 1,
                open  |-> TRUE,
                known |-> TRUE,      \* it is g_Lua and has its StateData
                given |-> TRUE,      \* the script got the functions of the module
                stale |-> FALSE]     \* m_pLuaInterfaces names a closed one as well
    /\ registry = [r \in Ref |-> 0]
    /\ made = 0
    /\ history = [loose |-> {},     \* a Stop gave up on a thread of the server
                  stray |-> {},     \* servers that no LuaShutdown may come for
                  own   |-> FALSE]  \* a handler got its own server deleted
    /\ fault = "none"

-----------------------------------------------------------------------------
(* What the script does, in a hook of its own or in a handler. *)

InCall == think.call # NoCall
Idle   == think.on => InCall

\* NukeTable takes the global table away when the module is switched off.  A
\* script that has kept a function of it can call it on.
Script == state.open /\ state.known /\ state.given /\ Idle

Left(s) == {t \in Thr : worker[t].srv = s}

\* Inserting may rehash the set, after which the iterator meets any of the
\* other servers, met before or not.
Ahead(s) == IF think.on THEN SUBSET ((servers \union {s}) \ {think.cur}) ELSE {think.ahead}

\* The module may be on or off.
Create(s) ==
    /\ Script
    /\ s \notin servers /\ lua[s] = 0
    /\ servers' = servers \union {s}
    /\ lua' = [lua EXCEPT ![s] = state.no]
    /\ \E a \in Ahead(s) : think' = [think EXCEPT !.ahead = a]
    /\ history' = [history EXCEPT !.stray = IF enabled THEN @ ELSE @ \union {s}]
    /\ UNCHANGED <<online, port, routes, queue, worker, enabled, state, registry, made>>

\* CheckFunction takes any number that is free; the handler and the reference
\* are both entered.
Register(s) ==
    /\ Script /\ s \in servers /\ made < MaxFunctions
    /\ \E r \in {r \in Ref : registry[r] = 0} :
         /\ registry' = [registry EXCEPT ![r] = made + 1]
         /\ routes' = [routes EXCEPT ![s] = Append(@, [ref |-> r, fn |-> made + 1])]
    /\ made' = made + 1
    /\ UNCHANGED <<servers, lua, online, port, queue, worker, think, enabled, state, history>>

\* A thread is created.
Start(s) ==
    /\ Script /\ s \in servers /\ ~online[s]
    /\ online' = [online EXCEPT ![s] = TRUE]
    /\ port' = [port EXCEPT ![s] = @ \union {"starting"}]
    /\ UNCHANGED <<servers, lua, routes, queue, worker, think, enabled, state, registry, made, history>>

\* Mutant: the join is taken to have succeeded.
Gone_Assumed(s) == TRUE

\* No thread of the pool is left to wait for, and the listening thread is not one
\* that has yet to listen: it missed stop(), and goes on.
Gone(s) == Left(s) = {} /\ "starting" \notin port[s]

\* ThreadJoin comes back with the end of the thread, or gives up.
Stop(s) ==
    /\ Script /\ s \in servers /\ online[s]
    /\ online' = [online EXCEPT ![s] = FALSE]
    /\ \/ Gone(s) /\ port' = [port EXCEPT ![s] = {}] /\ UNCHANGED history
       \/ history' = [history EXCEPT !.loose = @ \union {s}] /\ UNCHANGED port
    /\ UNCHANGED <<servers, lua, routes, queue, worker, think, enabled, state, registry, made>>

RefsOf(gone) == UNION {{routes[s][i].ref : i \in DOMAIN routes[s]} : s \in gone}

\* Mutant: the iteration meets a deleted server.
AheadAfter_All(gone) == think.ahead

AheadAfter(gone) == think.ahead \ gone

\* Stop and ~HttpServer
Delete(gone) ==
    /\ servers' = servers \ gone
    /\ online' = [s \in Srv |-> online[s] /\ s \notin gone]
    /\ port' = [s \in Srv |-> IF s \in gone THEN {} ELSE port[s]]
    /\ routes' = [s \in Srv |-> IF s \in gone THEN <<>> ELSE routes[s]]
    /\ queue' = [s \in Srv |-> IF s \in gone THEN {} ELSE queue[s]]
    /\ worker' = [t \in Thr |-> IF worker[t].srv \in gone THEN Free ELSE worker[t]]
    /\ think' = [think EXCEPT !.ahead = AheadAfter(gone)]
    /\ history' = [history EXCEPT !.own = @ \/ (think.on /\ think.cur \in gone)]
    /\ UNCHANGED lua

\* Mutant: m_pHandlerReferences is one vector for all servers.
References_OfAll(gone) == registry' = [r \in Ref |-> 0]

References(gone) ==
    registry' = [r \in Ref |-> IF r \in RefsOf({s \in gone : lua[s] = state.no}) THEN 0 ELSE registry[r]]

\* m_pLua of the server can be called, and has its StateData.
Usable(s) == state.open /\ state.known /\ lua[s] = state.no

\* References are released through m_pLua.
Releasable(gone) == \A s \in gone : routes[s] # <<>> => Usable(s)

Destroy(s) ==
    /\ Script /\ s \in servers /\ Releasable({s})
    /\ Delete({s}) /\ References({s})
    /\ UNCHANGED <<enabled, state, made>>

-----------------------------------------------------------------------------
(* The module and its Lua state. *)

\* Mutant: only the servers that are offline are deleted.
Deleted_Offline == {s \in servers : ~online[s]}

\* CHTTPServerModule::LuaShutdown deletes the servers of all Lua states.
Deleted == servers

\* SetEnabled gives the module every interface in m_pLuaInterfaces, and one that
\* was forgotten is still there.
Stale == state.stale \/ (state.open /\ ~state.known)

\* The ConVar or holytest_nukemodules; a handler can run the command with
\* holytest.ServerExecute.
SwitchOff ==
    /\ enabled /\ Idle /\ ~Stale
    /\ enabled' = FALSE
    /\ IF state.open
       THEN Releasable(Deleted) /\ Delete(Deleted) /\ References(Deleted)
       ELSE UNCHANGED <<objects, worker, think, registry, history>>
    /\ UNCHANGED <<state, made>>

SwitchOn ==
    /\ ~enabled /\ Idle /\ ~Stale
    /\ enabled' = TRUE
    /\ state' = [state EXCEPT !.given = @ \/ state.open]
    /\ history' = [history EXCEPT !.stray = {s \in @ : ~Usable(s)}]
    /\ UNCHANGED <<objects, worker, think, registry, made>>

\* An interface the plugin has forgotten gets no LuaShutdown.
CloseLua ==
    /\ state.open /\ ~think.on
    /\ state' = [state EXCEPT !.open = FALSE, !.stale = @ \/ ~state.known]
    /\ IF enabled /\ state.known
       THEN Releasable(Deleted) /\ Delete(Deleted)
       ELSE /\ history' = [history EXCEPT !.stray = IF state.known THEN @ ELSE @ \union servers]
            /\ UNCHANGED <<objects, worker, think>>
    /\ registry' = [r \in Ref |-> 0]
    /\ UNCHANGED <<enabled, made>>

\* LuaInit, for a module that is on.
OpenLua ==
    /\ ~state.open /\ ~think.on /\ state.no < MaxLuas
    /\ state' = [state EXCEPT !.no = @ + 1, !.open = TRUE, !.known = TRUE, !.given = enabled]
    /\ UNCHANGED <<objects, worker, think, enabled, registry, made, history>>

\* Another Lua state is closed (Plugin!FinalShutdown).
Forget ==
    /\ state.open /\ state.known /\ ~think.on
    /\ state' = [state EXCEPT !.known = FALSE]
    /\ UNCHANGED <<objects, worker, think, enabled, registry, made, history>>

\* Plugin!ServerActivate, and LuaInit again.
Remember ==
    /\ state.open /\ ~state.known /\ ~think.on
    /\ state' = [state EXCEPT !.known = TRUE, !.given = @ \/ enabled]
    /\ UNCHANGED <<objects, worker, think, enabled, registry, made, history>>

-----------------------------------------------------------------------------
(* Listening threads; pool threads, of which dispatch_request goes through the
   handlers in order. *)

\* listen() binds and begins to take connections, or fails, or returns; of two
\* threads of a server, that is one.
Listen(s) ==
    /\ port[s] # {}
    /\ \E p \in SUBSET {"starting", "listening"} :
         /\ port' = [port EXCEPT ![s] = p]
         /\ "starting" \in p => "starting" \in port[s]
    /\ UNCHANGED <<servers, lua, online, routes, queue, worker, think, enabled, state, registry, made, history>>

Goto(t, pc, s, i) == worker' = [worker EXCEPT ![t] = [pc |-> pc, srv |-> s, at |-> i]]

Arrive(t) ==
    /\ worker[t].pc = "free"
    /\ \E s \in servers : "listening" \in port[s] /\ Goto(t, "match", s, 1)
    /\ UNCHANGED <<objects, think, enabled, state, registry, made, history>>

Handlers(t) == routes[worker[t].srv]

Hit(t) ==
    /\ worker[t].pc = "match" /\ worker[t].at <= Len(Handlers(t))
    /\ queue' = [queue EXCEPT ![worker[t].srv] =
                    @ \union {[thr |-> t, route |-> Handlers(t)[worker[t].at]]}]
    /\ Goto(t, "wait", worker[t].srv, worker[t].at)
    /\ UNCHANGED <<servers, lua, online, port, routes, think, enabled, state, registry, made, history>>

Miss(t) ==
    /\ worker[t].pc = "match"
    /\ IF worker[t].at < Len(Handlers(t))
       THEN Goto(t, "match", worker[t].srv, worker[t].at + 1)
       ELSE Goto(t, "kept", worker[t].srv, 0)
    /\ UNCHANGED <<objects, think, enabled, state, registry, made, history>>

\* The connection is kept alive, after Stop as well: the next request of it.
Again(t) ==
    /\ worker[t].pc = "kept"
    /\ Goto(t, "match", worker[t].srv, 1)
    /\ UNCHANGED <<objects, think, enabled, state, registry, made, history>>

Leave(t) ==
    /\ worker[t].pc = "kept"
    /\ worker' = [worker EXCEPT ![t] = Free]
    /\ UNCHANGED <<objects, think, enabled, state, registry, made, history>>

Worker(t) == Arrive(t) \/ Hit(t) \/ Miss(t) \/ Again(t) \/ Leave(t)

-----------------------------------------------------------------------------
(* CHTTPServerModule::Think, and HttpServer::Think for each server. *)

ThinkBegin ==
    /\ enabled /\ ~think.on
    /\ think' = [Off EXCEPT !.on = TRUE, !.ahead = servers]
    /\ UNCHANGED <<objects, worker, enabled, state, registry, made, history>>

InLoop == think.on /\ ~InCall
There  == think.cur \in servers \union {None}

\* HttpServer::Think looks at m_iStatus once, before its loop.
ThinkServer ==
    /\ InLoop /\ There
    /\ \E s \in think.ahead :
         think' = [think EXCEPT !.cur = s, !.ahead = @ \ {s}, !.inside = online[s]]
    /\ UNCHANGED <<objects, worker, enabled, state, registry, made, history>>

ThinkEnd ==
    /\ InLoop /\ There /\ think.ahead = {}
    /\ think' = Off
    /\ UNCHANGED <<objects, worker, enabled, state, registry, made, history>>

Called == IF think.inside /\ think.cur \in servers THEN queue[think.cur] ELSE {}

Call ==
    /\ InLoop /\ Called # {} /\ Usable(think.cur)
    /\ \E w \in Called : think' = [think EXCEPT !.call = w]
    /\ UNCHANGED <<objects, worker, enabled, state, registry, made, history>>

\* The handler returns, and the request is marked as handled.
Return ==
    /\ InCall
    /\ think' = [think EXCEPT !.call = NoCall]
    /\ IF think.call \in queue[think.cur]
       THEN /\ queue' = [queue EXCEPT ![think.cur] = @ \ {think.call}]
            /\ Goto(think.call.thr, "kept", think.cur, 0)
       ELSE UNCHANGED <<queue, worker>>
    /\ UNCHANGED <<servers, lua, online, port, routes, enabled, state, registry, made, history>>

Thinking == ThinkBegin \/ ThinkServer \/ ThinkEnd \/ Call \/ Return

-----------------------------------------------------------------------------
(* Steps that come to a pointer they cannot use. *)

\* The iterator, and the loop of HttpServer::Think, go on in freed memory.
Wild == InLoop /\ ~There

\* Any function of the module asks for the StateData of its interface, and so do
\* LuaInit and LuaShutdown; a call, and the release of references, need m_pLua.
Dangling ==
    \/ state.open /\ ~state.known /\ state.given /\ Idle
    \/ Idle /\ Stale
    \/ Script /\ \E s \in servers : ~Releasable({s})
    \/ enabled /\ state.open /\ state.known /\ Idle /\ ~Releasable(Deleted)
    \/ InLoop /\ Called # {} /\ ~Usable(think.cur)

Fault ==
    /\ fault' \in {f \in {"wild", "dangling"} : IF f = "wild" THEN Wild ELSE Dangling}
    /\ UNCHANGED rest

-----------------------------------------------------------------------------
Runs == \/ \E s \in Srv : Create(s) \/ Register(s) \/ Start(s) \/ Stop(s) \/ Destroy(s) \/ Listen(s)
        \/ SwitchOff \/ SwitchOn \/ CloseLua \/ OpenLua \/ Forget \/ Remember
        \/ \E t \in Thr : Worker(t)
        \/ Thinking

Next == fault = "none" /\ (Fault \/ (Runs /\ UNCHANGED fault))

Spec == Init /\ [][Next]_vars

-----------------------------------------------------------------------------
(* Properties. *)

\* A server outlives its Lua state only if it was made while the module was off,
\* and the module was not switched on before the state was closed, or if the plugin
\* had forgotten the state; and only then is m_pLua used where it dangles.
ServersDieWithLua ==
    /\ \A s \in servers : s \in history.stray \/ (state.open /\ lua[s] = state.no)
    /\ fault = "dangling" => Stale \/ \E s \in servers \cap history.stray : ~Usable(s)

\* Each reference of a server of the open state is still that of the function its
\* handler was registered with, and no reference is in use that no server has.
ReferencesOfServers ==
    /\ \A s \in servers : state.open /\ lua[s] = state.no =>
          \A i \in DOMAIN routes[s] : registry[routes[s][i].ref] = routes[s][i].fn
    /\ {r \in Ref : registry[r] # 0} \subseteq RefsOf(servers)

\* Across Lua states, switches of the module and servers that come and go, no
\* server, no handler and no reference is left of what is gone, and none is
\* released too early, but for the servers LuaShutdown does not come for.
ReferencesExact == ServersDieWithLua /\ ReferencesOfServers

\* Whatever happened since a thread queued the request, a call of Think that finds
\* its Lua state calls the function of the handler.
CallsRegistered ==
    [][~InCall /\ InCall' =>
          state.open /\ registry[think'.call.route.ref] = think'.call.route.fn]_vars

\* No pool thread goes through the handlers of a server to which one is added, if it
\* is stopped, and no Stop of it ever gave up on a thread: be it that a request was
\* being answered, or that the thread did not listen yet.
Undisturbed ==
    [][\A s \in Srv : routes'[s] # routes[s] /\ s \in servers' =>
          \/ \A t \in Left(s) : worker[t].pc # "match"
          \/ online[s] \/ s \in history.loose]_vars

\* Think meets a deleted server only if a handler got its own one deleted: any
\* other may be destroyed, and created, by a handler.
OnlyOwnIsWild == fault = "wild" => history.own
=============================================================================
