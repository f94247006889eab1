# HolyTest in TLA+

HolyTest is a binary module for Garry's Mod servers. It is loaded into the game
as a server plugin, hooks the creation and the end of Lua states, and gives Lua
an HTTP server, engine bit buffers, an audio library and a few test functions.
This directory holds TLA+ models of the parts of it that keep state, TLC
configurations that check them on small instances, and proofs, checked by TLAPS,
of the properties that matter most. `PROJECT.json` lists components, runs,
mutants, the source lines behind each definition, findings, hazards and theorems.

## 1. The system

Source paths are relative to `src/source/`.

| Component | State | Operations | Modelled by |
|---|---|---|---|
| HTTP server (`modules/httpserver.cpp`) | status, `m_bUpdate`, the vector `m_pRequests`, the flags of each `HttpRequest` | `Start`, `Stop`, `Think`, destruction, the handler lambda, `MarkHandled`, `CallFunc` | `HttpServer`, `HttpExchange` |
| Prepared responses (same file) | the map `m_pPreparedResponses` and its mutex | `AddPreparedResponse`, the lookup in the lambda, the destructor | `PreparedResponses`, `PreparedQueue` |
| Module manager (`module.cpp`, `module.h`) | enabled modules, ConVars, `m_pStatus`, `m_pLuaInterfaces` | registration, announcements, `SetEnabled`, `holytest_nukemodules` | `ModuleManager` |
| Plugin, Lua states, detours (`plugin.cpp`, `lua.cpp`, `detours.cpp`) | `g_Lua`, `g_pLuaStateLinks`, the two detours | `Load`, `Unload`, `ServerActivate`, `LevelShutdown`, the hooks of `InitLuaClasses` and `CLuaInterface::Shutdown` | `Plugin` |
| Lua userdata (`util.h`) | `BaseUserData`, `LuaUserData`, their counts, the value Lua holds | `Push_LuaClass`, `PushReferenced_LuaClass`, `Delete`, `DeleteAll`, `Default__gc`, the loop of `Lua::Shutdown` | `UserData` |
| Listening thread and pool (`httpserver.cpp`, `httplib.h`) | `svr_sock_`, `is_running_`, `is_decommisioned`, the jobs of the pool | `Start`, `Stop`, `listen`, `stop`, `bind_to_port`, the worker loop | `HttpListener`, `HttpPort` |
| One connection (`httplib.h`) | the read buffer of an exchange, `keep_alive_max_count_`, what the response says of the connection | `process_server_socket_core`, `keep_alive`, `process_request` and the reading of line, fields and content | `HttpConnection`, `HttpChannel` |
| All servers (`httpserver.cpp`, `httplib.h`) | `g_pHttpServers`, `m_pHandlerReferences`, the handlers of httplib, the registry of Lua | `Create`, `Destroy`, `Get` and its like, `dispatch_request`, `CHTTPServerModule::Think`, `LuaShutdown` | `HttpServers` |
| Bit buffers (`modules/bitbuf.cpp`) | the memory of each buffer and the place in it | clamped allocation, copies, `GetData`, reads and writes by the engine | `BitBuf` |
| Game event listeners (`modules/holytest.cpp`, `sourcesdk/gameeventmanager.cpp`) | the lists of listeners, `pLuaGameEventListener` | `AddListener`, `RemoveEventListener`, `LuaInit`, `ReceiveClientMessage` | `EventListeners`, `Holytest` |
| `bass.cpp`, `symbols.cpp`, `sourcesdk/`, `gluatests/`, CI | none of their own | bindings, declarations, byte patterns, in-game tests | no (`IGModAudioChannel:Destroy` is in `UserData`) |

### How the parts interact

The engine calls `CServerPlugin`, which calls the module manager, which calls
each enabled module. The two detours tell `lua.cpp` of Lua states, and `lua.cpp`
tells the manager. All of that runs on the main thread; what is hard is the
order of the calls, their repetition over map changes, a module that is switched
on in between, and a detour that could not be made.

The HTTP server is concurrent. httplib runs the handler lambda on a thread of its
pool for each exchange. The lambda first looks for a prepared response under
`m_pPreparedResponsesMutex`. If it finds none it allocates an `HttpRequest`,
pushes it into `m_pRequests`, sets `m_bUpdate` and sleeps until `m_bHandled`.
The main thread finds the request in `Think`, calls the Lua handler, and deletes
the request when the lambda has set `m_bDelete`. `m_pRequests`, `m_bUpdate` and
the flags are shared without a lock. `Start` creates the listening thread, which
owns that pool; `Stop` closes the socket, waits 100 ms for the thread and forgets it. A handler is called from inside the loop
over `m_pRequests` and may call `Think`, `Destroy` or `MarkHandled` itself.

The objects of all modules reach Lua through `util.h`: an object has at most one
`BaseUserData`, which counts the `LuaUserData` made for it, and each of these has
one Lua value. Who frees what depends on the macro the class uses.

A connection is served by one thread of the pool for as long as the client keeps it
alive; the thread finds the end of a request only by reading it. A handler is found
by going through a vector of httplib to which the main thread appends without a
lock. The Lua function of a handler is a reference in the registry of the Lua state,
whose numbers Lua gives out again once they are released.

The module "holytest" does not own the listener it removes from the game's lists: on
`LuaInit` it listens to `vote_cast` and takes the first listener of that event for
Lua's. It passes readers of "bitbuf" on to the game.

### What makes each part correct

- HTTP server: no request is answered twice or freed under its thread; what the script
  has handled is answered. `m_pRequests` has two races, and nothing else may harm it or
  the main thread: until two of its operations overlap no request is lost or passed
  over, and until a `push_back` moves it under the iterator of `Think` that loop comes to
  its end and uses no freed memory.
- Listener: once stopped, nothing listens; each socket is closed once; a server can be
  started again; a thread that `Stop` has given up on takes nothing more and ends.
- Connection: requests are answered in their order, each once; a client gets the
  answer to its own request; it is told whether the connection goes on, and that is
  what happens; each thread comes back to the pool after work the client has paid for.
- All servers: `Think` calls the function a handler was registered with; no server,
  handler or reference outlives its Lua state, except for servers made while the module
  is off; the iteration of `Think` survives what handlers do to other servers.
- Buffers: a reader holds what was written; no copy exceeds its memory.
- Listeners: each hears what it asked for, and no other listener is removed.
- Prepared responses: each is sent to one exchange of its client and route, in
  the order of addition; the mutex is always released, and held by no one who waits.
- Manager and plugin: it makes no difference when a module was switched on; each
  gets its callbacks in the order `imodule.h` promises, only with interfaces that
  are alive, and has left a Lua state before that is closed.
- Userdata: counts are exact, each object is freed once by whoever owns it, or leaked
  where the userdata of an earlier one is left at its address, and nothing outlives its
  Lua state.

## 2. Plan

Done, in this order: `HttpServer` with its abstraction `HttpExchange`;
`ModuleManager` composed into `Plugin`; `UserData`; `PreparedResponses` with its
abstraction `PreparedQueue`; `HttpListener`; `HttpConnection`; `HttpServers`;
`EventListeners` and `BitBuf` composed into `Holytest`; the proofs of each; and
`HttpPort` and `HttpChannel`, which `HttpListener` and `HttpConnection` implement.

Left, in this order:

1. `HttpConnection`: content in chunks and in parts, and ranges.
2. `BitBuf`: writing from a reader (`WriteBitsFromBuffer`), which moves two buffers.
3. `Plugin`: an abstract life of one module, which the manager and the detours
   implement.

## 3. The models

Undefined behaviour (an access to freed memory, a race that corrupts the vector) is
never given a meaning: the step that commits it records who did in a history
variable `fault`, and the behaviour ends.

### HttpServer, HttpExchange

One server and a set `Req` of exchanges; an exchange is its pool thread and the
request it allocates. `pc` follows the lambda (`route`, `push`, `wake`, `poll`,
`respond`, `finish`), and `frame[1 .. depth]` is the stack of `Think` loops of the
main thread, each at a statement (`test`, `erase`, `call`, `clear`).

- `m_pRequests` is its storage `slots`, finish pointer `size` and capacity `room`, in
  the array number `array` of those it has allocated. `push_back` and `erase` are two
  steps each: load the finish pointer, then store the entries and the new pointer.
  There is no lock, so others may come between them; `overlap` records that one did.
- A `push_back` into a full array moves the entries to a larger one (`Growth`) and frees
  the old one. Iterators and loaded pointers name their array: one that is `Gone` is
  freed memory, and using it is a fault (`PushFault`, `ThinkFault`), also when the
  `push_back` came while `Think` was in a handler and nothing overlapped.
- `RouteLocally` stands for the exchanges that end before the queue: denied, or
  answered with a prepared response (modelled in `PreparedResponses`).
- `PollAgain` reads `m_iThreadSleep` of a server that may be deleted.
- `CallEnd(deferred)`: the handler returns true and the script answers later, or
  `CallFunc` marks the request itself.
- `Stop` returns while pool threads are in the lambda, since its join gives up
  after 100 ms; `Destroy` is `Stop` and the destructor. An exchange can begin while
  the server is offline: the listening thread is only the flag `started`
  (`HttpListener` has the thread).
- `Script` lists what a script does beyond answering its requests: call `Think` or
  `Destroy` from a handler, or mark a request twice.
- Left out: the use of a destroyed server through a Lua value that still names it,
  a destructor called off the main thread. Several servers are in `HttpServers`.

`HttpExchange` is what a client sees: absent, waiting, settled, answered, freed,
or answered without Lua. `Stage` is the refinement mapping.

### PreparedResponses, PreparedQueue

`prepared` is the map: a sequence of responses for each user id, the id -1
included. `ask` is what an exchange is for, `key` what a response is for; "route"
stands for all that `ShouldRespond` compares. `Arrive` chooses the client, so proxies
and the engine's list of clients are left out.

- `Hit`, `Reply`, `Erase`, `Unlock` are the loop for a first response that matches;
  `Miss` and `Unlock` the loop for an empty vector.
- `WalkOff` is the loop for a first response that does not match: line 724
  increments the iterator of the map, not `vecIT`, so the same response is tested
  until the map ends, and the thread goes on past its end, with the mutex held.
- `Prepare` allocates a response and enters the callback, whose own calls nest
  (`stack`); `Return`, `AddLock`, `AddPush` are the end of it. A callback can
  destroy the server it is called for (`AddOrphan`) or keep its `HttpResponse`
  (`Rewrite`), which `Delete_HttpResponse` does not release.
- `Destroy` frees what the map holds without the mutex.
- `ClearDisconnectedClient` is left out: only `HttpServer_OnClientDisconnect` calls
  it, and nothing calls that.

`PreparedQueue` has atomic operations: add, come, give the oldest, pass on. `About`
and `Passed` complete the mapping.

### HttpListener, HttpPort

One server, one `httplib::Server`, and the listening threads its calls of `Start`
create, since `Stop` may forget one that still runs. `pc` follows `listen`: `bind` and
`create` (`bind_internal`), `fail` (`bind_to_port`), `loop`, `accept`, `failed`, `close`
(the loop of `listen_internal`), `drain` (the pool's `shutdown`), `exit`, `leave` (the end
of its scope). `main` follows `Stop`: `swap`, `close`, `clear` are `httplib::Server::stop`.

- `fd` is the socket that `accept` was called with. `shutdown_socket` wakes it.
- `Retry` stands for every error after which the loop goes on, and for a `select` that
  times out; `AcceptError` for all others.
- `jobs` counts the exchanges a thread's pool has to finish, waiting ones included.
- `StopJoin` returns whether or not the thread has ended. In the code it returns at
  once if it has, after 100 ms otherwise.
- `late` records that `Start` or `Stop` came too early: for a thread that does not
  accept yet, or while an earlier thread has not ended. `erred` records an error of
  `accept`, after which the thread closes `svr_sock_` and leaves its value.
- Sockets are not reused: a number closed twice is told by `twice`.

`HttpPort` is what script and clients see: a server that is off, whose thread is on its
way to the port (`starting`), whose port is open, or that is online without one
(`down`); and the connections of each thread, which begin only while the port is open
and may outlive it. `Phase` is the refinement mapping. An open socket of a server that
is offline would be the phase "left behind", which `HttpPort` does not have. Once a call
is late nothing is promised (`Misuse`).

### HttpConnection, HttpChannel

One connection, from its first request to its end: what a job of `HttpListener` does,
and what surrounds the handler with which `HttpServer` begins. The client asks for
requests of `Requests`, each a record of what `process_request` tells requests apart
by, and sends each in parts (line, fields, content) at any time, also before the
answer to the one before. `unread` is what the server has received and not read, of
which `buffered` is in the buffer of the exchange and gone with it (`ForgetBuffer`).

- `exchange.pc` follows the code: `idle` (`keep_alive`), `line`, `fields`, `again`,
  `content` (the ways through `process_request`), `handler`, `write`.
- A read that finds nothing ends after the timeout of `select` (`NothingComes`): it
  is enabled whenever nothing is there, so a timeout can race a late part.
- `Nibble` is a line read where fields were expected. A request refused with 414 has
  its fields read twice (`ReadAgain`, `httplib.h:7245`).
- 400, 414, 415 and 416 (`LosesStep`) are sent before the request was read to its end.
  What was left, and with it the place of the next request, is then lost or taken for
  a request; `InStep` speaks of the answers before that.
- A connection is served on after `Server::stop` as long as data is there
  (`Ready`): `keep_alive` looks for data before it looks at `svr_sock_`.
- `Work` is what the thread can still do if the client sends nothing more, counted in
  steps.
- Bound: `MaxAsked` requests. Left out: chunks, parts, ranges that are served, files,
  streamed responses, the client side, TLS.

`HttpChannel` knows how many requests were made, which of them were answered, in their
order, and whether the connection is open. A request can be left without an answer, as
when it is lost after a refused one.

### HttpServers

The servers of the process, their handlers, and Lua's registry. A server is made once;
`routes` is both the vector of httplib and `m_pHandlerReferences`, which `CreateHandler`
extends together. `worker` is where a pool thread is: at a place in the handlers
(`match`), in the queue (`wait`), or on a connection kept alive.

- `think` is the iteration over `g_pHttpServers`: the iterator, the servers ahead of
  it, the call it is in. `Ahead` says what an insertion does to the set: it may
  rehash, after which any other server can lie ahead. The standard leaves the iterator
  undefined then; the usual libraries go on along the new order.
- `port` is the listening threads of a server: `starting` until `listen` takes
  connections. `Stop` reaches a thread that listens and misses one that does not yet;
  it may also give up on threads that work (`history.loose`), and the script cannot tell.
  `Arrive` asks for a listening thread, not for `m_iStatus`. A thread that works for a
  deleted server is not followed here (run `destroyed`).
- `Create` asks for nothing but a Lua state: `NukeTable` only clears the global, and a
  script that has kept the function can call it while the module is off. Such servers
  are `history.stray`: if the state is closed before the module is switched on again,
  `LuaShutdown` does not come for them.
- `Register` picks any free number for the reference; `Delete` frees those of a
  server. `SwitchOff` and `CloseLua`, with the module on, delete all servers
  (`Deleted`), which the comment at `httpserver.cpp:1221` denies.
- `state` is the Lua state and what the plugin knows of it. `Forget` is the plugin
  losing sight of an open one (run `forgotten`), `Remember` finding it again, `Stale`
  that `m_pLuaInterfaces` still names one that cannot be used.
- `Fault` ends the behaviour in a pointer that cannot be used: "wild" is the iterator
  or the loop of a server that was deleted, "dangling" an `m_pLua` or an interface.

### EventListeners, BitBuf, Holytest

`EventListeners` has the lists of the engine and the operations on them, `BitBuf` the
buffers, `Holytest` composes them over one Lua state after the other and switches the
module on and off.

- `Added` is `AddListener`, which does not add a listener twice; `Without` is the loop
  of `RemoveEventListener`, which removes the first entry that fits and stops.
- `early` records that another listener came first in `vote_cast` when `LuaInit`
  looked: that one is then taken for Lua's. `wanted` is what each listener asked for.
- A buffer is counted in bytes. `Memory` is `malloc` of `CLAMP_BF` and `memcpy`: what
  was never written is `Junk`. `text` is what a reader or writer should hold,
  `moved` that a writer was moved, after which nothing is said of it.
- `long` records that a string was longer than the largest buffer; then `memcpy`
  copies more than was allocated (`overrun`), and the behaviour ends.

### ModuleManager, Plugin

`ModuleManager` has one operator for each call of the manager, `Plugin` says who makes
them. `got`, `built` and `served` record what a module has received and not given
back, `announced` for which interfaces the manager called `LuaInit(true)`. A callback
of the plugin that makes several calls goes through `step`. `life`, `realm` and `ready`
are the engine's: its Lua states and whether the level is up.

- `SetEnabled(true)` makes its calls one by one: `turn` is the next, `Order` what comes
  after it, and `EnableCall` makes it if the status bit is set. For `LuaInit` the call
  stands for one to each interface.
- `Load` calls `InitDetour(true)` again after `Init`, which has made up for it already
  (`LoadMakesUp`); a module that gets it twice has "again" in `got`.
- `hooks`: any of the two detours may be missing, as when a symbol is not found.
- Interfaces in `Foreign` are Lua states that are not the server's.
- Compatibility is left out, since every caller of `SetEnabled` forces it. All
  modules have `SupportsMultipleLuaStates`. Only detours of category 0 are made.
- `Unload` ends the behaviour. Refusing to load twice is left out.

### UserData

The heap (`heap`, one class per address or "free"), the counts (`base`), the
`LuaUserData` and their values. Addresses are reused, so that a `BaseUserData` which
outlives its object is found again, by an object of any class at any address.

- `Create`, `Collect`, `DestroyChannel` are the classes Lua owns; `Make`, `Push`,
  `Delete`, `Shutdown` those the library owns.
- `PushedUserData == {}`: `Push`, `Delete` and `DeleteAll` each take the map with
  `auto`, which copies it, and change the copy.
- One Lua state after the other, and with the detour of its shutdown in place.
  `HOLYLIB_BUILD_RELEASE` is undefined, as it is in this repository.
  `ForceGlobalRelease`, `SetLocked` and `DeleteGlobal` have no callers.
- `IGModAudioChannel::Destroy` is the engine's, and taken to free the channel.

## 4. The runs

| Run | Instance | Shows |
|---|---|---|
| `queue` | 3 exchanges, 2 threads, operations that overlap and a vector that moves at any time, orderly script, fair | `QueueExact`: until operations overlap the vector holds each live request once; `OnlyRacesFault`: only that, or an iterator whose array was freed, makes the main thread touch freed memory; `NonePassedOver`: until an overlap `Think` hands every entry to Lua, although it erases others on its way; `ThinkEnds`: each statement of `Think` brings it nearer to its end; `HandledIsAnswered`; `SecondUnsticksFirst`: the next request also wakes one whose `m_bUpdate` was overwritten |
| `handshake` | 3 exchanges, 2 threads, overlap, a vector that moves, nested `Think`, any script | `RequestOutlivesWorker`; `ExchangeSpec`, the refinement of `HttpExchange` |
| `listener` | 2 listening threads, 2 sockets, 1 job each, fair | `ClosedOnce`; `FreshStart`; `StopInTimeHasSocket`; `WindsDown`: a thread of a server that is offline only goes to its end; `PortSpec`, the refinement of `HttpPort`, which includes that nothing is open after `Stop`; `StoppedEnds`: a thread ends when its exchanges have |
| `prepared` | 2 exchanges, 2 responses, one client or none, 2 routes, nesting 2, any script, fair | `PreparedExact`; `OnlyMismatchFails`; `HeldToPassOn`: the mutex is held only where its holder waits for nothing; `QueueSpec`, the refinement of `PreparedQueue`; `LookupEnds` |
| `connection` | 10 kinds of request, 3 requests, 2 exchanges, fair | `InStep`; `CloseIsAnnounced`; `PromiseKept`; `WorkBounded`: each step of the thread uses up some of `Work`, and each part that arrives adds one; `ChannelSpec`, the refinement of `HttpChannel`; `Heard`: a request that finds the thread waiting is answered; `ThreadReturns` |
| `servers` | 2 servers, 1 pool thread, 2 functions, 2 references, 2 Lua states, module on or off | `ReferencesExact`: only servers `LuaShutdown` does not come for outlive their state, and references go with their servers; `CallsRegistered`; `Undisturbed`: no handler is added under a thread that matches, unless the server is online or was left by a `Stop` that missed or gave up on a thread; `OnlyOwnIsWild` |
| `bindings` | Lua's listener and a client's, 2 events, 2 buffers of 1 to 2 bytes, strings of up to 3 | `ListenersExact`; `TextKept` |
| `lifecycle` | 2 modules, 3 server states in a row, 1 foreign state, any detours | `LateIsEarly`: an enabled module has every phase, interface and `LuaInit(true)` that was announced; `CallOrder`: each single call comes after those `imodule.h` puts before it; `LuaCallsAreSafe`; `NothingInClosed` |
| `userdata` | 3 addresses, 4 `LuaUserData`, any class at any address | `CountExact`; `ValuesPaired`; `BufferOwned`: a buffer is freed with its value, or leaked where a held object's `LuaUserData` was left at its address; `NothingPersists` |

No run spends itself on types: each module has one `TypeOK`, it was checked with TLC on
these instances before it was proved, and the theorems `TypeCorrect` and `Inductive`
establish it for all values of the constants.

Why these bounds are enough to meet the cases: in `handshake` two threads are in the
vector operations at once while a third exchange waits for a place in the pool, and an entry is
erased with one before and one behind it. Two exchanges and two responses for one
client are a race for the first response, or a match behind a mismatch; nesting 2
is one callback inside another. Two listening
threads are one that `Stop` has forgotten beside its successor. The ten kinds of
request are one for each way through `process_request`, and three of them are one
before and one after a request that is refused. A server, function or reference that
is given up leaves another one, so that references are used again while a request for
the first is queued. A copy of a buffer has one byte more than its original, so sizes
of 1 and 2 reach the clamp at both ends, and a string of 3 exceeds it. `ServerSide` is
empty in `bindings`: a listener of the client's side tells whether `m_nListenerType` is
looked at, and what holds for others is proved. Two map changes show what is left of a level, two
modules that one is switched while another is not. Three addresses and four
`LuaUserData` let a buffer be placed where a held object was, beside one that was not,
while the `LuaUserData` of the held object lives on.
`CHECK_DEADLOCK FALSE` stands in every configuration, as each of these systems may
stop: clients and scripts need not do anything, and exchanges, Lua states and
allocations are finite in number.

Runs that show a disagreement between the code and what the repository says of it:

| Run | Refutes | Because |
|---|---|---|
| `destroyed` | "the httpserver should NOT be running anymore" (`httpserver.cpp:170`) | the join of `Stop` gives up while pool threads wait for the main thread |
| `forgotten` | "g_Lua is bad at this point" (`lua.cpp:99`) | `FinalShutdown` follows the end of any Lua state |
| `channel` | "DO NOT USE pData as it will be invalid because of the Release call!" (`util.h:769`) | `IGModAudioChannel_Destroy` leaves the pointer in the value |

Further disagreements that follow from the models and have no run of their own:

- `m_pStatus` keeps the ServerActivate bit over map changes, so a module switched on
  between two levels is told at once of a server that is "ready to accept players"
  (`imodule.h:63`).
- `DeleteAll` looks in a copy of the map of pushed userdata, so the loop of
  `Lua::Shutdown` finds what "should NEVER happen" (`lua.cpp:86`) each time.
- `assert(svr_sock_ != INVALID_SOCKET)` (`httplib.h:6504`) fails after a `Start` that
  came before an earlier thread had ended: `is_running_` is that thread's.
- Servers do not "persist" (`httpserver.cpp:1221`): `LuaShutdown` deletes them all. But
  one made while the module is off, with a kept `Create` (`httpserver.cpp:1064`), is
  left when its Lua state is closed, and `m_pLua` dangles once the module is on.
- `Load` calls `InitDetour(true)` once more after `Init` (`plugin.cpp:79`,
  `module.cpp:306`), which is to come before it (`imodule.h:43`).
- A module switched on between `LuaInit(false)` and the activation of a later level gets
  `LuaInit(true)` at once, by the bit of the level before (`module.cpp:169`).
- `push_back` on a pool thread may move `m_pRequests` while `Think` is in a handler;
  its iterator (`httpserver.cpp:658`) is then used in a freed array.

Each property of a passing run has a mutant in `PROJECT.json`: an operator
defined beside the one it replaces, with the bug that the property catches.

### Fairness

`HttpServer`: a frame calls `Think` again (`CHTTPServerModule::Think` runs each
frame), its loop and the handlers in it run to their end, and each pool thread
is scheduled by the system. Nothing obliges a client to send a request, or a
script to answer one it has deferred.

`HttpListener`: each listening thread is scheduled, and `Stop` runs to its end. A
connection need not come and an exchange need not finish (the script may hold it),
so `StoppedEnds` assumes that the pool is empty again and again.

`HttpConnection`: weak fairness of the thread (`Serve`). Each wait of it has a timeout,
and a handler returns once the script has answered (`HandledIsAnswered`). Nothing
obliges the client to send anything or to leave.

`HttpServers`, `Holytest`, `Plugin` and `UserData` are checked for safety only.

`PreparedResponses`: weak fairness of each thread, and of the main thread inside
`AddPreparedResponse`. This is enough for `LookupEnds` because the instance is finite:
each exchange takes the mutex once. Over an unbounded run `CThreadFastMutex`
promises no order, so a thread could be overtaken without end. Nothing obliges a
callback to return, and none has to: callbacks run without the mutex.

## 5. The proofs

Theorems hold for all values of the constants; the assumptions on constants are the
`ASSUME`s of the modules. A property may name conditions of its own,
as `QueueExact` and `NonePassedOver` speak of the time before an overlap, and
`LuaCallsAreSafe` and `NothingInClosed` of both detours in place and no foreign state
closed; these are in its definition, and the behaviours that break them are in the runs.

| Module | Theorem | Of | Provided that |
|---|---|---|---|
| `HttpServerProofs` | `TypeCorrect` | `TypeOK` | |
| | `RequestLifetime` | `RequestOutlivesWorker` | |
| | `ImplementsExchange` | `ExchangeSpec` | |
| | `QueueIsExact` | `QueueExact` | |
| | `MainIsSafe` | `OnlyRacesFault` | `Script = {}` |
| | `NoEntryPassedOver` | `NonePassedOver` | no handler calls `Think` |
| | `ThinkComesToAnEnd` | `ThinkEnds` | the same |
| `PluginProofs` | `TypeCorrect` | `TypeOK` | |
| | `LateModulesMatch` | `LateIsEarly` | |
| | `CallbacksInOrder` | `CallOrder` | |
| | `LuaCallsSafe` | `LuaCallsAreSafe` | |
| | `ClosedIsEmpty` | `NothingInClosed` | |
| `UserDataProofs` | `TypeCorrect` | `TypeOK` | |
| | `CountsAreExact` | `CountExact` | |
| | `ValuesArePaired` | `ValuesPaired` | |
| | `NothingSurvives` | `NothingPersists` | |
| | `BuffersAreOwned` | `BufferOwned` | |
| `PreparedResponsesProofs` | `TypeCorrect` | `TypeOK` | |
| | `PreparedIsExact` | `PreparedExact` | |
| | `OnlyMismatch` | `OnlyMismatchFails` | |
| | `MutexIsPassedOn` | `HeldToPassOn` | |
| | `ImplementsQueue` | `QueueSpec` | |
| `HttpListenerProofs` | `TypeCorrect` | `TypeOK` | |
| | `ClosedOnceCorrect` | `ClosedOnce` | |
| | `FreshStartCorrect` | `FreshStart` | |
| | `HasSocketCorrect` | `StopInTimeHasSocket` | |
| | `WindsDownCorrect` | `WindsDown` | |
| | `ImplementsPort` | `PortSpec` | |
| `HttpConnectionProofs` | `TypeCorrect` | `TypeOK` | |
| | `InStepCorrect` | `InStep` | |
| | `CloseIsAnnouncedCorrect` | `CloseIsAnnounced` | |
| | `PromiseCorrect` | `PromiseKept` | |
| | `WorkCorrect` | `WorkBounded` | |
| | `ImplementsChannel` | `ChannelSpec` | |
| `HttpServersProofs` | `ReferencesCorrect` | `ReferencesExact` | |
| | `CallsCorrect` | `CallsRegistered` | |
| | `UndisturbedCorrect` | `Undisturbed` | |
| | `OnlyOwnIsWildCorrect` | `OnlyOwnIsWild` | |
| `HolytestProofs` | `ListenersCorrect` | `ListenersExact` | |
| | `TextCorrect` | `TextKept` | |

The arguments:

- `HttpServer`. A request is freed only by `EraseEnd`, which follows `m_bDelete`, which
  the thread sets last; `Handshake` says so for every program counter, whatever the
  vector contains, and holds with overlapping operations as well. The refinement
  follows from it step by step. `QueueExact` is not inductive: between the load
  and the stores of an operation the loaded pointer has to be the current one, and
  between `EraseBegin` and `EraseEnd` the entry has to be where it was. `QueueInv` says
  so, and holds until operations overlap (`Orderly`); the lemmas `WriteEntries` and
  `MoveDownEntries` say what the two operations do to the entries, wherever the array
  is. On top of it, `LoopInv` follows one loop of `Think` through the vector: an entry
  under the iterator that is to be erased was called before, and `erase` moves only
  entries ahead of it, to where the iterator looks next. That also bounds the iterator
  by the size, which makes `StepsLeft` a natural number. When a `push_back` moves the
  array, the entries keep their places, so both stay true, and the next use of the
  iterator is the last step. A nested `Think` breaks both: the outer loop goes on with
  an iterator for a vector that has become shorter.
- `Plugin`. `LateIsEarly` needs to know how far loading is for each `step` (`Progress`),
  that `m_pLuaInterfaces` and the modules' tables agree at each call, and, between two
  calls of `SetEnabled`, what the module has so far (`Halfway`): nothing else runs, so
  it is what was announced up to its `turn`. `CallOrder` follows from the three step by
  step. The safety of Lua calls needs in addition that `g_Lua`, the known interfaces and
  the live ones coincide, which is true only while every end of a Lua state is seen.
- `UserData`. Counts are exact because `LuaAquire` and `Release` are the only ways to
  refer and each is paired with its `LuaUserData`; the proof is about finite
  cardinalities. Ownership (`Owned`) needs that an address has one owner at a time. The
  allocator sees to that for the objects themselves, so it is true of the `LuaUserData`
  of buffers and channels; one of a held object may be left at the address of another
  object, and then shares its `BaseUserData`.
- `PreparedResponses`. `PreparedExact` is not inductive, as a response is deleted first
  and erased later. `Guarded` says who is in the critical section, `Stacked` what is
  being built, `Held` that the response an exchange has found is still first in its
  vector until it has been erased. `OnlyMismatch` follows: a thread that looks at the
  first response finds it queued, so only its route can be wrong. In the
  refinement `AddPush`, `Erase` and `Miss` are the points where additions and lookups
  take effect; all other steps stutter. `HeldToPassOn` follows from `Guarded`.
- `HttpListener`. Any number of threads may be left of earlier calls, so that the
  properties, which speak of sockets, need to know who may touch one: as long as no
  call came too early there is one live thread (`Alone`), it is the one `Stop` joins
  (`Phases`), an open socket is the one in `svr_sock_` or the one `Stop` has taken
  (`Sockets`), and unless `accept` failed nobody but `Stop` closes (`Clean`). For
  `WindsDown` it has to be known in addition that `svr_sock_` stays empty from `StopSwap`
  until the next thread is made (`Unplugged`), which is why the loop goes to its end.
  In the refinement of `HttpPort`, `Create` opens, `Close` and `StopClose` shut, `Spawn`
  and `StopClear` take the server on and off; a thread that has not come to the port is
  the only one (`ComingAlone`), so its failure is the server's.
- `HttpConnection`. `InStep` speaks of answers only; what makes it inductive is
  `Turn`: when the client is not ahead, what lies between its last part sent and the
  thread's place is one run of the parts of its last request (`InPlace`). `Owed`
  keeps apart that the client has asked to close from what `connection_closed` says of
  it, which differ until the fields are understood. `WorkBounded` needs no more than
  that: each read takes something out of `unread`, and each exchange out of
  `exchange.count`. In the refinement of `HttpChannel`, `Fresh` says that the line of a
  request comes after all there was of earlier ones, among what is sent, read, worked on
  and answered, so that a thread that has taken the rest of one for the next still
  answers nothing twice.
- `HttpServers`. A queued request belongs to a waiting thread and to a handler of its
  server (`Routed`, `Waits`), so its reference is registered as long as those of the open
  Lua state are exact. That is kept because no reference is shared (`Distinct`) and
  because a server is of the open state or a stray (`Strays`), all of them strays while
  the module is off. A thread that matches or listens is one of a server that is online
  or was left (`Waits`), which is `Undisturbed`. `Explained` says which step can come to
  a pointer it cannot use.
- `Holytest`. That the first fitting entry is removed is enough because no listener
  is twice in a list (`Once`). Before another listener was taken for Lua's, the one
  recognised is Lua's. Of a writer the invariant says that it holds its text up to its
  place (`Holds`), so that `GetData` of it does, and a copy of that; `ClampIs` says that
  only a string longer than the largest buffer exceeds its memory.

Model-checked only: `StoppedEnds`, `HandledIsAnswered`, `SecondUnsticksFirst`,
`LookupEnds`, `Heard` and `ThreadReturns`, since liveness under fairness is out of the
prover's reach. What can be proved is what they rest on beside fairness:

- a measure that each step of the fair process lowers, in the natural numbers, and
  that its environment raises only by a known amount: `ThinkEnds` for
  `HandledIsAnswered` and `SecondUnsticksFirst`, `WorkBounded` for `Heard` and
  `ThreadReturns`;
- that the process only goes forward (`WindsDown` for `StoppedEnds`), passes nothing
  over (`NonePassedOver` for `SecondUnsticksFirst`), and waits for nobody who waits
  (`HeldToPassOn` for `LookupEnds`).

That the step which lowers the measure can be taken (`ENABLED`), and that it is then
taken, is left to TLC.

## 6. Not modelled

- Most of `httplib.h`: the client, TLS, compression, forms, files, ranges and chunks,
  and the parsing and formatting of what is sent. The library uses one server with
  handlers that set a whole body.
- The names of a server and its address, which `Start` assigns while an earlier thread
  may read it (`httpserver.cpp:626`), and the `path` of a handler, a pointer to a
  Lua string that the lambda keeps (`httpserver.cpp:684`).
- The race of the lambda with the engine's client list (`httpserver.cpp:688-710`):
  the engine's side of it is not in this repository.
- The response kept by a script after its callback has returned, beyond what
  `Rewrite` does to a prepared response.
- What the process does after `Unload`, and what setting a ConVar does that
  `holytest_nukemodules` left at 1 (`module.cpp:395`).
- The typed reads and writes of "bitbuf", each a call into the engine; the debug name,
  a kept pointer to a Lua string (`bitbuf.cpp:607`); `WriteVMatrix`, which writes the
  pointer's own bytes (`bitbuf.cpp:938`).
- The audio library, the byte patterns of `symbols.cpp` and the headers in
  `sourcesdk/`, which hold no state of this program; the in-game tests and the build.
