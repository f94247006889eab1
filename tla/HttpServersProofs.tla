------------------------- MODULE HttpServersProofs --------------------------
(***************************************************************************)
(* Proofs about HttpServers, for any servers, references, pool threads and *)
(* bounds.                                                                 *)
(*                                                                         *)
(* A request in a queue belongs to a thread that waits and to a handler of *)
(* its server (Routed, Waits), so that what Think calls is registered as   *)
(* long as the references are exact.  These are kept because no reference  *)
(* of the open Lua state is shared (Distinct), and because a module that   *)
(* is off has only servers that were made while it was (Strays).           *)
(***************************************************************************)
EXTENDS HttpServers, TLAPS

\* The servers that are gone have no handlers and no requests; a request is for
\* a handler of its server.
Routed ==
    /\ \A s \in Srv \ servers : routes[s] = <<>> /\ queue[s] = {}
    /\ \A s \in Srv : \A w \in queue[s] : \E i \in DOMAIN routes[s] : w.route = routes[s][i]

\* A request is that of one thread, which waits; a pool thread and a listening one
\* work for a server that is online or has been left by a Stop that gave up.
Waits ==
    /\ \A s \in Srv : \A w \in queue[s] : worker[w.thr].pc = "wait" /\ worker[w.thr].srv = s
    /\ \A s \in Srv : \A v, w \in queue[s] : v.thr = w.thr => v = w
    /\ \A t \in Thr : worker[t].pc # "free" =>
         worker[t].srv \in servers /\ (online[worker[t].srv] \/ worker[t].srv \in history.loose)
    /\ \A s \in Srv : port[s] # {} => online[s] \/ s \in history.loose

\* The iteration of Think.
Iterates ==
    /\ think.ahead \subseteq servers
    /\ think.cur \in servers \union {None} \/ history.own
    /\ think.cur # None => think.on
    /\ InCall => think.cur # None

\* The server is one of the open Lua state.
Current(s) == state.open /\ lua[s] = state.no

Strays ==
    /\ \A s \in servers : s \in history.stray \/ Current(s)
    /\ ~enabled => servers \subseteq history.stray
    /\ \A s \in Srv : lua[s] <= state.no

Distinct ==
    \A r, s \in servers : Current(r) /\ Current(s) =>
        \A i \in DOMAIN routes[r], j \in DOMAIN routes[s] :
            routes[r][i].ref = routes[s][j].ref => r = s

\* The two kinds of faults.
Explained ==
    /\ fault = "dangling" => Stale \/ \E s \in servers \cap history.stray : ~Usable(s)
    /\ OnlyOwnIsWild

IInv == Routed /\ Waits /\ Iterates /\ Strays /\ Distinct /\ ReferencesOfServers /\ Explained

-----------------------------------------------------------------------------
\* The types of think, of history and of the queues.
Thinks == [on: BOOLEAN, cur: Srv \union {None}, ahead: SUBSET Srv, inside: BOOLEAN,
           call: Waiting \union {NoCall}]
Pasts  == [loose: SUBSET Srv, stray: SUBSET Srv, own: BOOLEAN]
States == [no: 1..MaxLuas, open: BOOLEAN, known: BOOLEAN, given: BOOLEAN, stale: BOOLEAN]

LEMMA ThinksType == TypeOK => think \in Thinks /\ history \in Pasts /\ state \in States
BY DEF TypeOK, Thinks, Pasts, States

\* Deleting servers keeps the types of what it changes.
LEMMA DeleteType ==
  ASSUME TypeOK, NEW gone \in SUBSET Srv, Delete(gone)
  PROVE  /\ servers' \subseteq Srv
         /\ lua' \in [Srv -> 0..MaxLuas]
         /\ online' \in [Srv -> BOOLEAN]
         /\ port' \in [Srv -> SUBSET {"starting", "listening"}]
         /\ routes' \in [Srv -> Seq(Route)]
         /\ queue' \in [Srv -> SUBSET Waiting]
         /\ worker' \in [Thr -> Places]
         /\ think' \in Thinks
         /\ history' \in Pasts
<1> USE DEF Delete
<1>1. /\ servers' \subseteq Srv /\ lua' \in [Srv -> 0..MaxLuas] /\ online' \in [Srv -> BOOLEAN]
      /\ port' \in [Srv -> SUBSET {"starting", "listening"}]
  BY DEF TypeOK
<1>2. <<>> \in Seq(Route)
  OBVIOUS
<1>3. routes' \in [Srv -> Seq(Route)]
  BY <1>2 DEF TypeOK
<1>4. queue' \in [Srv -> SUBSET Waiting]
  BY DEF TypeOK
<1>5. Free \in Places
  BY DEF Free, Places
<1>6. worker' \in [Thr -> Places]
  BY <1>5 DEF TypeOK
<1>7. think.ahead \ gone \in SUBSET Srv
  BY ThinksType DEF Thinks
<1>8. think' \in Thinks
  BY <1>7, ThinksType DEF AheadAfter, Thinks
<1>9. history' \in Pasts
  BY ThinksType DEF Pasts
<1>10. QED
  BY <1>1, <1>3, <1>4, <1>6, <1>8, <1>9

\* Deleted servers leave no thread, no request and no place in the iteration.
LEMMA DeleteKeeps ==
  ASSUME TypeOK, IInv, NEW gone \in SUBSET Srv, Delete(gone)
  PROVE  Routed' /\ Waits' /\ Iterates'
<1> USE DEF Delete
<1>1. \A s \in Srv : \A w \in queue'[s] : s \notin gone /\ w \in queue[s] /\ w.thr \in Thr
  BY DEF TypeOK, Waiting
<1>2. \A s \in Srv \ gone : routes'[s] = routes[s] /\ queue'[s] = queue[s]
  BY DEF TypeOK
<1>3. \A s \in gone : routes'[s] = <<>> /\ queue'[s] = {}
  BY DEF TypeOK
<1>4. Routed'
  BY <1>1, <1>2, <1>3 DEF IInv, Routed
<1>5. history'.loose = history.loose /\ history'.own = (history.own \/ (think.on /\ think.cur \in gone))
  BY ThinksType DEF Pasts
<1>6. \A t \in Thr : worker[t].srv \notin gone => worker'[t] = worker[t]
  BY DEF TypeOK
<1>7. \A t \in Thr : worker'[t].pc # "free" => worker'[t] = worker[t] /\ worker[t].srv \notin gone
  BY DEF TypeOK, Free
<1>8. \A s \in Srv : \A w \in queue'[s] : worker'[w.thr].pc = "wait" /\ worker'[w.thr].srv = s
  BY <1>1, <1>6 DEF IInv, Waits
<1>9. \A s \in Srv : \A v, w \in queue'[s] : v.thr = w.thr => v = w
  BY <1>1 DEF IInv, Waits
<1>10. \A s \in Srv : s \notin gone => online'[s] = online[s]
  BY DEF TypeOK
<1>11. \A t \in Thr : worker'[t].pc # "free" =>
          worker'[t].srv \in servers' /\ (online'[worker'[t].srv] \/ worker'[t].srv \in history'.loose)
  BY <1>5, <1>7, <1>10 DEF IInv, Waits, TypeOK
<1>12. Waits'
  <2>1. \A s \in Srv : port'[s] # {} => port[s] # {} /\ s \notin gone
    BY DEF TypeOK
  <2>2. \A s \in Srv : port'[s] # {} => online'[s] \/ s \in history'.loose
    BY <1>5, <1>10, <2>1 DEF IInv, Waits
  <2>3. QED
    BY <1>8, <1>9, <1>11, <2>2 DEF Waits
<1>13. think'.ahead = think.ahead \ gone /\ think'.cur = think.cur /\ think'.call = think.call /\ think'.on = think.on
  BY ThinksType DEF AheadAfter, Thinks
<1>14. Iterates'
  <2>1. think.cur \in servers \union {None} => think'.cur \in servers' \union {None} \/ history'.own
    <3>1. CASE think.cur \in gone
      <4>1. think.on
        BY <3>1, NoneAssumption DEF IInv, Iterates
      <4>2. QED
        BY <1>5, <3>1, <4>1
    <3>2. CASE think.cur \notin gone
      <4>1. servers' = servers \ gone
        OBVIOUS
      <4>2. QED
        BY <1>13, <3>2, <4>1
    <3>3. QED
      BY <3>1, <3>2
  <2>2. history.own => history'.own
    BY <1>5
  <2>3. think'.cur \in servers' \union {None} \/ history'.own
    BY <2>1, <2>2 DEF IInv, Iterates
  <2>4. think'.ahead \subseteq servers'
    BY <1>13 DEF IInv, Iterates
  <2>5. QED
    BY <1>13, <2>3, <2>4 DEF IInv, Iterates, InCall
<1>15. QED
  BY <1>4, <1>12, <1>14

\* The handlers a server has.
LEMMA RoutesType ==
  ASSUME TypeOK, NEW s \in servers
  PROVE  \A i \in DOMAIN routes[s] : /\ routes[s][i] \in Route /\ routes[s][i].ref \in Ref
                                     /\ routes[s][i].fn \in 1..MaxFunctions
<1>1. routes[s] \in Seq(Route)
  BY DEF TypeOK
<1>2. \A i \in DOMAIN routes[s] : routes[s][i] \in Route
  BY <1>1
<1>3. QED
  BY <1>2 DEF Route

\* The references of deleted servers are released, and no others of the open Lua
\* state.
LEMMA ReferencesKept ==
  ASSUME TypeOK, IInv, NEW gone \in SUBSET servers, Releasable(gone),
         Delete(gone), References(gone), UNCHANGED state
  PROVE  Distinct' /\ ReferencesOfServers'
<1>1. \A s \in servers' : s \in servers \ gone /\ routes'[s] = routes[s] /\ (Current(s)' <=> Current(s))
  BY DEF Delete, TypeOK, Current
<1>2. Distinct'
  BY <1>1 DEF IInv, Distinct
<1>3. \A r \in Ref : registry'[r] = IF r \in RefsOf({s \in gone : lua[s] = state.no}) THEN 0 ELSE registry[r]
  BY DEF References
<1>4. ASSUME NEW s \in servers', Current(s)', NEW i \in DOMAIN routes'[s]
      PROVE  registry'[routes'[s][i].ref] = routes'[s][i].fn
  <2>1. s \in servers \ gone /\ routes'[s] = routes[s] /\ Current(s)
    BY <1>1, <1>4
  <2>2. routes[s][i].ref \in Ref /\ registry[routes[s][i].ref] = routes[s][i].fn
    BY <1>4, <2>1, RoutesType DEF IInv, ReferencesOfServers, Current
  <2>3. \A g \in gone : lua[g] = state.no => \A j \in DOMAIN routes[g] : routes[g][j].ref # routes[s][i].ref
    BY <1>4, <2>1 DEF IInv, Distinct, Current
  <2>4. routes[s][i].ref \notin RefsOf({g \in gone : lua[g] = state.no})
    BY <2>3 DEF RefsOf
  <2>5. QED
    BY <1>3, <2>1, <2>2, <2>4
<1>5. ASSUME NEW r \in Ref, registry'[r] # 0
      PROVE  r \in RefsOf(servers)'
  <2>1. registry[r] # 0 /\ r \notin RefsOf({g \in gone : lua[g] = state.no})
    BY <1>3, <1>5
  <2>2. r \in RefsOf(servers)
    BY <2>1 DEF IInv, ReferencesOfServers
  <2>3. PICK s \in servers : \E i \in DOMAIN routes[s] : r = routes[s][i].ref
    BY <2>2 DEF RefsOf
  <2>4. s \notin gone
    <3>1. ASSUME s \in gone PROVE FALSE
      <4>1. routes[s] \in Seq(Route)
        BY DEF TypeOK
      <4>2. routes[s] # <<>>
        BY <2>3, <4>1
      <4>3. lua[s] = state.no
        BY <3>1, <4>2 DEF Releasable, Usable
      <4>4. QED
        BY <2>1, <2>3, <3>1, <4>3 DEF RefsOf
    <3>2. QED
      BY <3>1
  <2>5. s \in servers' /\ routes'[s] = routes[s]
    BY <2>4 DEF Delete, TypeOK
  <2>6. QED
    BY <2>3, <2>5 DEF RefsOf
<1>6. QED
  BY <1>2, <1>4, <1>5 DEF ReferencesOfServers, Current

LEMMA GotoType ==
  ASSUME TypeOK, NEW t \in Thr, NEW s \in Srv, NEW pc, NEW i,
         (pc \in {"match", "wait"} /\ i \in Nat \ {0}) \/ (pc = "kept" /\ i = 0),
         Goto(t, pc, s, i)
  PROVE  worker' \in [Thr -> Places]
<1>1. [pc |-> pc, srv |-> s, at |-> i] \in Places
  BY DEF Places
<1>2. QED
  BY <1>1 DEF Goto, TypeOK

\* A thread that goes through the handlers, waits or is kept has a server.
LEMMA PlacesType ==
  ASSUME TypeOK, NEW t \in Thr
  PROVE  /\ worker[t].pc \in {"match", "wait"} => worker[t].srv \in Srv /\ worker[t].at \in Nat \ {0}
         /\ worker[t].pc = "kept" => worker[t].srv \in Srv
         /\ worker[t].pc = "free" => worker[t].srv = None
<1>1. worker[t] \in Places
  BY DEF TypeOK
<1>2. QED
  BY <1>1 DEF Places

\* The handler a thread has come to.
LEMMA HandlersType ==
  ASSUME TypeOK, NEW t \in Thr, worker[t].pc = "match", worker[t].at <= Len(Handlers(t))
  PROVE  Handlers(t) \in Seq(Route) /\ worker[t].at \in DOMAIN Handlers(t)
         /\ Handlers(t)[worker[t].at] \in Route
<1>1. Handlers(t) \in Seq(Route)
  BY PlacesType DEF Handlers, TypeOK
<1>2. worker[t].at \in DOMAIN Handlers(t)
  BY <1>1, PlacesType
<1>3. QED
  BY <1>1, <1>2

-----------------------------------------------------------------------------
\* Types are kept by every step.
LEMMA TypeStep ==
  ASSUME TypeOK, Iterates, Runs, UNCHANGED fault
  PROVE  TypeOK'
<1> USE NoneAssumption, BoundAssumption
<1> USE DEF TypeOK, objects
<1>1. ASSUME NEW s \in Srv, Create(s) PROVE TypeOK'
  <2>1. PICK a \in Ahead(s) : think' = [think EXCEPT !.ahead = a]
    BY <1>1 DEF Create
  <2>2. a \in SUBSET Srv
    BY <2>1, ThinksType DEF Ahead, Thinks
  <2>3. think' \in Thinks
    BY <2>1, <2>2, ThinksType DEF Thinks
  <2>4. servers' \subseteq Srv /\ lua' \in [Srv -> 0..MaxLuas]
    BY <1>1 DEF Create
  <2>5. history.stray \union {s} \in SUBSET Srv
    BY ThinksType DEF Pasts
  <2>6. history' \in Pasts
    BY <1>1, <2>5, ThinksType DEF Create, Pasts
  <2>7. QED
    BY <1>1, <2>3, <2>4, <2>6 DEF Create, Thinks, Pasts
<1>2. ASSUME NEW s \in Srv, Register(s) PROVE TypeOK'
  <2>1. PICK r \in Ref : /\ registry' = [registry EXCEPT ![r] = made + 1]
                        /\ routes' = [routes EXCEPT ![s] = Append(@, [ref |-> r, fn |-> made + 1])]
    BY <1>2 DEF Register
  <2>2. made + 1 \in 1..MaxFunctions
    BY <1>2 DEF Register
  <2>3. [ref |-> r, fn |-> made + 1] \in Route
    BY <2>2 DEF Route
  <2>4. routes' \in [Srv -> Seq(Route)]
    BY <2>1, <2>3
  <2>5. registry' \in [Ref -> 0..MaxFunctions] /\ made' \in 0..MaxFunctions
    BY <1>2, <2>1, <2>2 DEF Register
  <2>6. QED
    BY <1>2, <2>4, <2>5 DEF Register
<1>3. ASSUME NEW s \in Srv, Start(s) PROVE TypeOK'
  BY <1>3 DEF Start, Script, InCall
<1>4. ASSUME NEW s \in Srv, Stop(s) PROVE TypeOK'
  <2>1. history.loose \union {s} \in SUBSET Srv
    BY ThinksType DEF Pasts
  <2>2. history' \in Pasts
    BY <1>4, <2>1, ThinksType DEF Stop, Pasts
  <2>3. port' \in [Srv -> SUBSET {"starting", "listening"}]
    BY <1>4 DEF Stop
  <2>4. QED
    BY <1>4, <2>2, <2>3 DEF Stop, Pasts
<1>5. ASSUME NEW s \in Srv, Destroy(s) PROVE TypeOK'
  <2>1. registry' \in [Ref -> 0..MaxFunctions]
    BY <1>5 DEF Destroy, References
  <2>2. QED
    BY <1>5, <2>1, DeleteType DEF Destroy, Thinks, Pasts
<1>6. CASE SwitchOff
  <2>1. CASE state.open
    <3>1. Delete(servers) /\ References(servers)
      BY <1>6, <2>1 DEF SwitchOff, Deleted
    <3>2. registry' \in [Ref -> 0..MaxFunctions]
      BY <3>1 DEF References
    <3>3. QED
      BY <1>6, <3>1, <3>2, DeleteType DEF SwitchOff, Thinks, Pasts
  <2>2. CASE ~state.open
    BY <1>6, <2>2 DEF SwitchOff
  <2>3. QED
    BY <2>1, <2>2
<1>7. CASE SwitchOn
  <2>1. state' \in States
    BY <1>7, ThinksType DEF SwitchOn, States
  <2>2. {s \in history.stray : ~Usable(s)} \in SUBSET Srv
    BY ThinksType DEF Pasts
  <2>3. history' \in Pasts
    BY <1>7, <2>2, ThinksType DEF SwitchOn, Pasts
  <2>4. QED
    BY <1>7, <2>1, <2>3 DEF SwitchOn, States, Pasts
<1>8. CASE CloseLua
  <2>1. registry' \in [Ref -> 0..MaxFunctions]
    BY <1>8 DEF CloseLua
  <2>2. state' \in States
    BY <1>8, ThinksType DEF CloseLua, States
  <2>3. CASE enabled /\ state.known
    <3>1. Delete(servers)
      BY <1>8, <2>3 DEF CloseLua, Deleted
    <3>2. QED
      BY <1>8, <2>1, <2>2, <3>1, DeleteType DEF CloseLua, Thinks, Pasts, States
  <2>4. CASE ~(enabled /\ state.known)
    <3>1. history.stray \union servers \in SUBSET Srv
      BY ThinksType DEF Pasts
    <3>2. history' \in Pasts
      BY <1>8, <2>4, <3>1, ThinksType DEF CloseLua, Pasts
    <3>3. QED
      BY <1>8, <2>1, <2>2, <2>4, <3>2 DEF CloseLua, Pasts, States
  <2>5. QED
    BY <2>3, <2>4
<1>9. CASE OpenLua
  <2>1. state.no + 1 \in 1..MaxLuas
    BY <1>9 DEF OpenLua
  <2>2. state' \in States
    BY <1>9, <2>1, ThinksType DEF OpenLua, States
  <2>3. QED
    BY <1>9, <2>2 DEF OpenLua, States
<1>10. CASE Forget
  <2>1. state' \in States
    BY <1>10, ThinksType DEF Forget, States
  <2>2. QED
    BY <1>10, <2>1 DEF Forget, States
<1>11. ASSUME NEW t \in Thr, Arrive(t) PROVE TypeOK'
  <2>1. PICK s \in servers : Goto(t, "match", s, 1)
    BY <1>11 DEF Arrive
  <2>2. s \in Srv /\ 1 \in Nat \ {0}
    OBVIOUS
  <2>3. worker' \in [Thr -> Places]
    BY <2>1, <2>2, GotoType
  <2>4. QED
    BY <1>11, <2>3 DEF Arrive
<1>12. ASSUME NEW t \in Thr, Hit(t) PROVE TypeOK'
  <2>1. worker[t].srv \in Srv /\ worker[t].at \in Nat \ {0}
    BY <1>12, PlacesType DEF Hit
  <2>2. worker' \in [Thr -> Places]
    BY <1>12, <2>1, GotoType DEF Hit
  <2>3. [thr |-> t, route |-> Handlers(t)[worker[t].at]] \in Waiting
    BY <1>12, HandlersType DEF Hit, Waiting
  <2>4. queue' \in [Srv -> SUBSET Waiting]
    BY <1>12, <2>1, <2>3 DEF Hit
  <2>5. QED
    BY <1>12, <2>2, <2>4 DEF Hit
<1>13. ASSUME NEW t \in Thr, Miss(t) PROVE TypeOK'
  <2>1. worker[t].srv \in Srv /\ worker[t].at \in Nat \ {0}
    BY <1>13, PlacesType DEF Miss
  <2>2. worker[t].at + 1 \in Nat \ {0}
    BY <2>1
  <2>3. worker' \in [Thr -> Places]
    BY <1>13, <2>1, <2>2, GotoType DEF Miss
  <2>4. QED
    BY <1>13, <2>3 DEF Miss
<1>14. ASSUME NEW t \in Thr, Again(t) PROVE TypeOK'
  <2>1. worker[t].srv \in Srv /\ 1 \in Nat \ {0}
    BY <1>14, PlacesType DEF Again
  <2>2. worker' \in [Thr -> Places]
    BY <1>14, <2>1, GotoType DEF Again
  <2>3. QED
    BY <1>14, <2>2 DEF Again
<1>15. ASSUME NEW t \in Thr, Leave(t) PROVE TypeOK'
  <2>1. worker' \in [Thr -> Places]
    BY <1>15 DEF Leave, Free, Places
  <2>2. QED
    BY <1>15, <2>1 DEF Leave
<1>16. CASE ThinkBegin
  <2>1. think' \in Thinks
    BY <1>16 DEF ThinkBegin, Off, NoCall, Thinks
  <2>2. QED
    BY <1>16, <2>1 DEF ThinkBegin, Thinks
<1>17. CASE ThinkServer
  <2>1. PICK s \in think.ahead :
          think' = [think EXCEPT !.cur = s, !.ahead = @ \ {s}, !.inside = online[s]]
    BY <1>17 DEF ThinkServer
  <2>2. s \in Srv /\ think.ahead \ {s} \in SUBSET Srv
    BY <2>1, ThinksType DEF Thinks
  <2>3. think' \in Thinks
    BY <2>1, <2>2, ThinksType DEF Thinks
  <2>4. QED
    BY <1>17, <2>3 DEF ThinkServer, Thinks
<1>18. CASE ThinkEnd
  <2>1. think' \in Thinks
    BY <1>18 DEF ThinkEnd, Off, NoCall, Thinks
  <2>2. QED
    BY <1>18, <2>1 DEF ThinkEnd, Thinks
<1>19. CASE Remember
  <2>1. state' \in States
    BY <1>19, ThinksType DEF Remember, States
  <2>2. QED
    BY <1>19, <2>1 DEF Remember, States
<1>20. CASE Call
  <2>1. PICK w \in Called : think' = [think EXCEPT !.call = w]
    BY <1>20 DEF Call
  <2>2. w \in Waiting
    BY <1>20, <2>1 DEF Called
  <2>3. think' \in Thinks
    BY <2>1, <2>2, ThinksType DEF Thinks
  <2>4. QED
    BY <1>20, <2>3 DEF Call, Thinks
<1>21. CASE Return
  <2>1. think' \in Thinks
    BY <1>21, ThinksType DEF Return, Thinks
  <2>2. CASE think.call \in queue[think.cur]
    <3>1. think.cur \in Srv
      BY <1>21, ThinksType DEF Return, Iterates, Thinks
    <3>2. think.call.thr \in Thr
      BY <2>2, <3>1 DEF Waiting
    <3>3. worker' \in [Thr -> Places]
      BY <1>21, <2>2, <3>1, <3>2, GotoType DEF Return
    <3>4. queue' \in [Srv -> SUBSET Waiting]
      <4>1. queue' = [queue EXCEPT ![think.cur] = @ \ {think.call}]
        BY <1>21, <2>2 DEF Return
      <4>2. queue[think.cur] \ {think.call} \in SUBSET Waiting
        BY <3>1
      <4>3. QED
        BY <4>1, <4>2
    <3>5. QED
      BY <1>21, <2>1, <3>3, <3>4 DEF Return, Thinks
  <2>3. CASE think.call \notin queue[think.cur]
    BY <1>21, <2>1, <2>3 DEF Return, Thinks
  <2>4. QED
    BY <2>2, <2>3
<1>22. ASSUME NEW s \in Srv, Listen(s) PROVE TypeOK'
  BY <1>22 DEF Listen
<1> QED
  BY <1>1, <1>2, <1>3, <1>4, <1>5, <1>6, <1>7, <1>8, <1>9, <1>10, <1>11, <1>12, <1>13,
     <1>14, <1>15, <1>16, <1>17, <1>18, <1>19, <1>20, <1>21, <1>22
  DEF Runs, Worker, Thinking

\* What is deleted has neither handlers nor requests; handlers are added at the end.
LEMMA RoutedStep ==
  ASSUME TypeOK, IInv, Runs
  PROVE  Routed'
<1> USE NoneAssumption, BoundAssumption
<1> USE DEF Routed, objects
<1>1. ASSUME NEW s \in Srv, Create(s) PROVE Routed'
  BY <1>1 DEF Create, IInv, TypeOK
<1>2. ASSUME NEW s \in Srv, Register(s) PROVE Routed'
  <2>1. PICK r \in Ref : routes' = [routes EXCEPT ![s] = Append(@, [ref |-> r, fn |-> made + 1])]
    BY <1>2 DEF Register
  <2>2. \A q \in Srv : routes[q] \in Seq(Route)
    BY DEF TypeOK
  <2>3. \A q \in Srv : \A i \in DOMAIN routes[q] : i \in DOMAIN routes'[q] /\ routes'[q][i] = routes[q][i]
    BY <2>1, <2>2 DEF TypeOK
  <2>4. \A q \in Srv \ servers : routes'[q] = routes[q]
    BY <1>2, <2>1 DEF Register, TypeOK
  <2>5. servers' = servers /\ queue' = queue
    BY <1>2 DEF Register
  <2>6. QED
    BY <2>3, <2>4, <2>5 DEF IInv
<1>3. ASSUME NEW s \in Srv, Start(s) PROVE Routed'
  BY <1>3 DEF Start, IInv
<1>4. ASSUME NEW s \in Srv, Stop(s) PROVE Routed'
  BY <1>4 DEF Stop, IInv
<1>5. ASSUME NEW s \in Srv, Destroy(s) PROVE Routed'
  BY <1>5, DeleteKeeps DEF Destroy, TypeOK
<1>6. CASE SwitchOff
  <2>1. CASE state.open
    BY <1>6, <2>1, DeleteKeeps DEF SwitchOff, Deleted, TypeOK
  <2>2. CASE ~state.open
    BY <1>6, <2>2 DEF SwitchOff, IInv
  <2>3. QED
    BY <2>1, <2>2
<1>7. CASE SwitchOn
  BY <1>7 DEF SwitchOn, IInv
<1>8. CASE CloseLua
  <2>1. CASE enabled /\ state.known
    BY <1>8, <2>1, DeleteKeeps DEF CloseLua, Deleted, TypeOK
  <2>2. CASE ~(enabled /\ state.known)
    BY <1>8, <2>2 DEF CloseLua, IInv
  <2>3. QED
    BY <2>1, <2>2
<1>9. CASE OpenLua
  BY <1>9 DEF OpenLua, IInv
<1>10. CASE Forget
  BY <1>10 DEF Forget, IInv
<1>11. ASSUME NEW t \in Thr, Arrive(t) PROVE Routed'
  BY <1>11 DEF Arrive, IInv
<1>12. ASSUME NEW t \in Thr, Hit(t) PROVE Routed'
  <2>1. /\ worker[t].srv \in servers /\ worker[t].srv \in Srv
        /\ worker[t].at \in DOMAIN routes[worker[t].srv]
    BY <1>12, HandlersType, PlacesType DEF Hit, Handlers, IInv, Waits
  <2>2. queue' = [queue EXCEPT ![worker[t].srv] =
                    @ \union {[thr |-> t, route |-> routes[worker[t].srv][worker[t].at]]}]
    BY <1>12 DEF Hit, Handlers
  <2>3. \A s \in Srv \ servers : queue'[s] = queue[s]
    BY <2>1, <2>2 DEF TypeOK
  <2>4. \A s \in Srv : \A w \in queue'[s] : \E i \in DOMAIN routes[s] : w.route = routes[s][i]
    BY <2>1, <2>2 DEF IInv, TypeOK
  <2>5. QED
    BY <1>12, <2>3, <2>4 DEF Hit, IInv
<1>13. ASSUME NEW t \in Thr, Miss(t) PROVE Routed'
  BY <1>13 DEF Miss, IInv
<1>14. ASSUME NEW t \in Thr, Again(t) PROVE Routed'
  BY <1>14 DEF Again, IInv
<1>15. ASSUME NEW t \in Thr, Leave(t) PROVE Routed'
  BY <1>15 DEF Leave, IInv
<1>16. CASE ThinkBegin
  BY <1>16 DEF ThinkBegin, IInv
<1>17. CASE ThinkServer
  BY <1>17 DEF ThinkServer, IInv
<1>18. CASE ThinkEnd
  BY <1>18 DEF ThinkEnd, IInv
<1>19. CASE Remember
  BY <1>19 DEF Remember, IInv
<1>20. CASE Call
  BY <1>20 DEF Call, IInv
<1>21. CASE Return
  <2>1. queue' = [queue EXCEPT ![think.cur] = @ \ {think.call}] \/ queue' = queue
    BY <1>21 DEF Return
  <2>2. ASSUME NEW s \in Srv PROVE queue'[s] \subseteq queue[s]
    <3>1. queue \in [Srv -> SUBSET Waiting]
      BY DEF TypeOK
    <3>2. queue'[s] = queue[s] \/ queue'[s] = queue[s] \ {think.call}
      BY <2>1, <3>1
    <3>3. QED
      BY <3>2
  <2>3. QED
    BY <1>21, <2>2 DEF Return, IInv
<1>22. ASSUME NEW s \in Srv, Listen(s) PROVE Routed'
  BY <1>22 DEF Listen, IInv
<1> QED
  BY <1>1, <1>2, <1>3, <1>4, <1>5, <1>6, <1>7, <1>8, <1>9, <1>10, <1>11, <1>12, <1>13,
     <1>14, <1>15, <1>16, <1>17, <1>18, <1>19, <1>20, <1>21, <1>22
  DEF Runs, Worker, Thinking

\* A thread waits in one queue at most, and leaves it when its request is handled.
LEMMA WaitsStep ==
  ASSUME TypeOK, IInv, Runs
  PROVE  Waits'
<1> USE NoneAssumption, BoundAssumption
<1> USE DEF Waits, objects
<1>1. ASSUME NEW s \in Srv, Create(s) PROVE Waits'
  <2>1. history'.loose = history.loose
    BY <1>1, ThinksType DEF Create, Pasts
  <2>2. QED
    BY <1>1, <2>1 DEF Create, IInv
<1>2. ASSUME NEW s \in Srv, Register(s) PROVE Waits'
  BY <1>2 DEF Register, IInv
<1>3. ASSUME NEW s \in Srv, Start(s) PROVE Waits'
  <2>1. \A r \in Srv : online[r] => online'[r]
    BY <1>3 DEF Start, TypeOK
  <2>2. \A r \in Srv : port'[r] # {} => online'[r] \/ port[r] # {}
    BY <1>3 DEF Start, TypeOK
  <2>3. QED
    BY <1>3, <2>1, <2>2 DEF Start, IInv, TypeOK
<1>4. ASSUME NEW s \in Srv, Stop(s) PROVE Waits'
  <2>1. \A r \in Srv : r # s => online'[r] = online[r]
    BY <1>4 DEF Stop, TypeOK
  <2>2. CASE Gone(s) /\ port' = [port EXCEPT ![s] = {}] /\ UNCHANGED history
    <3>1. \A t \in Thr : worker[t].srv # s
      BY <2>2 DEF Gone, Left
    <3>2. \A r \in Srv : port'[r] # {} => port[r] # {} /\ r # s
      BY <2>2 DEF TypeOK
    <3>3. QED
      BY <1>4, <2>1, <2>2, <3>1, <3>2 DEF Stop, IInv, TypeOK
  <2>3. CASE history' = [history EXCEPT !.loose = @ \union {s}] /\ UNCHANGED port
    <3>1. history'.loose = history.loose \union {s}
      BY <2>3, ThinksType DEF Pasts
    <3>2. \A t \in Thr : worker[t].pc # "free" =>
            online'[worker[t].srv] \/ worker[t].srv \in history'.loose
      BY <2>1, <3>1 DEF IInv, TypeOK
    <3>3. \A r \in Srv : port[r] # {} => online'[r] \/ r \in history'.loose
      BY <2>1, <3>1 DEF IInv
    <3>4. QED
      BY <1>4, <2>3, <3>2, <3>3 DEF Stop, IInv
  <2>4. QED
    BY <1>4, <2>2, <2>3 DEF Stop
<1>5. ASSUME NEW s \in Srv, Destroy(s) PROVE Waits'
  BY <1>5, DeleteKeeps DEF Destroy, TypeOK
<1>6. CASE SwitchOff
  <2>1. CASE state.open
    BY <1>6, <2>1, DeleteKeeps DEF SwitchOff, Deleted, TypeOK
  <2>2. CASE ~state.open
    BY <1>6, <2>2 DEF SwitchOff, IInv
  <2>3. QED
    BY <2>1, <2>2
<1>7. CASE SwitchOn
  <2>1. history'.loose = history.loose
    BY <1>7, ThinksType DEF SwitchOn, Pasts
  <2>2. QED
    BY <1>7, <2>1 DEF SwitchOn, IInv
<1>8. CASE CloseLua
  <2>1. CASE enabled /\ state.known
    BY <1>8, <2>1, DeleteKeeps DEF CloseLua, Deleted, TypeOK
  <2>2. CASE ~(enabled /\ state.known)
    <3>1. history'.loose = history.loose
      BY <1>8, <2>2, ThinksType DEF CloseLua, Pasts
    <3>2. QED
      BY <1>8, <2>2, <3>1 DEF CloseLua, IInv
  <2>3. QED
    BY <2>1, <2>2
<1>9. CASE OpenLua
  BY <1>9 DEF OpenLua, IInv
<1>10. CASE Forget
  BY <1>10 DEF Forget, IInv
<1>11. ASSUME NEW t \in Thr, Arrive(t) PROVE Waits'
  <2>1. PICK s \in servers : "listening" \in port[s] /\ Goto(t, "match", s, 1)
    BY <1>11 DEF Arrive
  <2>2. s \in Srv /\ (online[s] \/ s \in history.loose)
    BY <2>1 DEF IInv, TypeOK
  <2>3. QED
    BY <1>11, <2>1, <2>2 DEF Arrive, Goto, IInv, TypeOK, Waiting
<1>12. ASSUME NEW t \in Thr, Hit(t) PROVE Waits'
  <2>1. worker[t].srv \in Srv /\ \A s \in Srv : \A w \in queue[s] : w.thr \in Thr /\ w.thr # t
    BY <1>12, PlacesType DEF Hit, IInv, TypeOK, Waiting
  <2>2. worker' = [worker EXCEPT ![t] = [pc |-> "wait", srv |-> worker[t].srv, at |-> worker[t].at]]
    BY <1>12 DEF Hit, Goto
  <2>3. queue' = [queue EXCEPT ![worker[t].srv] =
                    @ \union {[thr |-> t, route |-> Handlers(t)[worker[t].at]]}]
    BY <1>12 DEF Hit
  <2>4. QED
    BY <1>12, <2>1, <2>2, <2>3 DEF Hit, IInv, TypeOK
<1>13. ASSUME NEW t \in Thr, Miss(t) PROVE Waits'
  <2>1. \A s \in Srv : \A w \in queue[s] : w.thr \in Thr /\ w.thr # t
    BY <1>13 DEF Miss, IInv, TypeOK, Waiting
  <2>2. \A r \in Thr : r # t => worker'[r] = worker[r]
    BY <1>13 DEF Miss, Goto, TypeOK
  <2>3. worker'[t].srv = worker[t].srv
    BY <1>13 DEF Miss, Goto, TypeOK
  <2>4. QED
    BY <1>13, <2>1, <2>2, <2>3 DEF Miss, IInv
<1>14. ASSUME NEW t \in Thr, Again(t) PROVE Waits'
  BY <1>14 DEF Again, Goto, IInv, TypeOK, Waiting
<1>15. ASSUME NEW t \in Thr, Leave(t) PROVE Waits'
  BY <1>15 DEF Leave, Free, IInv, TypeOK, Waiting
<1>16. CASE ThinkBegin
  BY <1>16 DEF ThinkBegin, IInv
<1>17. CASE ThinkServer
  BY <1>17 DEF ThinkServer, IInv
<1>18. CASE ThinkEnd
  BY <1>18 DEF ThinkEnd, IInv
<1>19. CASE Remember
  BY <1>19 DEF Remember, IInv
<1>20. CASE Call
  BY <1>20 DEF Call, IInv
<1>21. CASE Return
  <2>1. CASE think.call \in queue[think.cur]
    <3>1. think.cur \in Srv
      BY <1>21, ThinksType DEF Return, IInv, Iterates, Thinks
    <3>2. DEFINE r == think.call.thr
    <3>3. r \in Thr /\ worker[r].pc = "wait" /\ worker[r].srv = think.cur
      BY <2>1, <3>1 DEF IInv, TypeOK, Waiting
    <3>4. worker' = [worker EXCEPT ![r] = [pc |-> "kept", srv |-> think.cur, at |-> 0]]
      BY <1>21, <2>1 DEF Return, Goto
    <3>5. queue' = [queue EXCEPT ![think.cur] = @ \ {think.call}]
      BY <1>21, <2>1 DEF Return
    <3>6. \A s \in Srv : \A w \in queue'[s] : w \in queue[s] /\ w.thr \in Thr /\ w.thr # r
      BY <2>1, <3>1, <3>3, <3>5 DEF IInv, TypeOK, Waiting
    <3>7. \A q \in Thr : worker'[q].srv = worker[q].srv /\ (q # r => worker'[q] = worker[q])
      BY <3>3, <3>4 DEF TypeOK
    <3>8. \A q \in Thr : worker'[q].pc # "free" => worker[q].pc # "free"
      BY <3>3, <3>7
    <3>9. servers' = servers /\ online' = online /\ port' = port /\ history' = history
      BY <1>21 DEF Return
    <3>10. QED
      BY <3>6, <3>7, <3>8, <3>9 DEF IInv
  <2>2. CASE think.call \notin queue[think.cur]
    BY <1>21, <2>2 DEF Return, IInv
  <2>3. QED
    BY <2>1, <2>2
<1>22. ASSUME NEW s \in Srv, Listen(s) PROVE Waits'
  BY <1>22 DEF Listen, IInv
<1> QED
  BY <1>1, <1>2, <1>3, <1>4, <1>5, <1>6, <1>7, <1>8, <1>9, <1>10, <1>11, <1>12, <1>13,
     <1>14, <1>15, <1>16, <1>17, <1>18, <1>19, <1>20, <1>21, <1>22
  DEF Runs, Worker, Thinking

\* The iteration does not meet a deleted server but the one whose handler runs.
LEMMA IteratesStep ==
  ASSUME TypeOK, IInv, Runs
  PROVE  Iterates'
<1> USE NoneAssumption, BoundAssumption
<1> USE DEF Iterates, InCall, objects
<1>1. ASSUME NEW s \in Srv, Create(s) PROVE Iterates'
  BY <1>1 DEF Create, Script, InCall, Ahead, IInv, TypeOK
<1>2. ASSUME NEW s \in Srv, Register(s) PROVE Iterates'
  BY <1>2 DEF Register, Script, InCall, IInv, TypeOK
<1>3. ASSUME NEW s \in Srv, Start(s) PROVE Iterates'
  BY <1>3 DEF Start, Script, InCall, IInv, TypeOK
<1>4. ASSUME NEW s \in Srv, Stop(s) PROVE Iterates'
  BY <1>4 DEF Stop, Script, InCall, Gone, Left, IInv, TypeOK
<1>5. ASSUME NEW s \in Srv, Destroy(s) PROVE Iterates'
  BY <1>5, DeleteKeeps DEF Destroy, TypeOK
<1>6. CASE SwitchOff
  <2>1. CASE state.open
    BY <1>6, <2>1, DeleteKeeps DEF SwitchOff, Deleted, TypeOK
  <2>2. CASE ~state.open
    BY <1>6, <2>2 DEF SwitchOff, IInv, Iterates
  <2>3. QED
    BY <2>1, <2>2
<1>7. CASE SwitchOn
  <2>1. history'.own = history.own
    BY <1>7, ThinksType DEF SwitchOn, Pasts
  <2>2. QED
    BY <1>7, <2>1 DEF SwitchOn, IInv
<1>8. CASE CloseLua
  <2>1. CASE enabled /\ state.known
    BY <1>8, <2>1, DeleteKeeps DEF CloseLua, Deleted, TypeOK
  <2>2. CASE ~(enabled /\ state.known)
    <3>1. history'.own = history.own
      BY <1>8, <2>2, ThinksType DEF CloseLua, Pasts
    <3>2. QED
      BY <1>8, <2>2, <3>1 DEF CloseLua, IInv
  <2>3. QED
    BY <2>1, <2>2
<1>9. CASE OpenLua
  BY <1>9 DEF OpenLua, IInv, TypeOK
<1>10. CASE Forget
  BY <1>10 DEF Forget, IInv, TypeOK
<1>11. ASSUME NEW t \in Thr, Arrive(t) PROVE Iterates'
  BY <1>11 DEF Arrive, Goto, IInv, TypeOK
<1>12. ASSUME NEW t \in Thr, Hit(t) PROVE Iterates'
  BY <1>12 DEF Hit, Goto, Handlers, IInv, TypeOK
<1>13. ASSUME NEW t \in Thr, Miss(t) PROVE Iterates'
  BY <1>13 DEF Miss, Goto, Handlers, IInv, TypeOK
<1>14. ASSUME NEW t \in Thr, Again(t) PROVE Iterates'
  BY <1>14 DEF Again, Goto, IInv, TypeOK
<1>15. ASSUME NEW t \in Thr, Leave(t) PROVE Iterates'
  BY <1>15 DEF Leave, Free, IInv, TypeOK
<1>16. CASE ThinkBegin
  BY <1>16 DEF ThinkBegin, Off, IInv, TypeOK
<1>17. CASE ThinkServer
  BY <1>17 DEF ThinkServer, InLoop, There, InCall, IInv, TypeOK
<1>18. CASE ThinkEnd
  BY <1>18 DEF ThinkEnd, InLoop, There, Off, IInv, TypeOK
<1>19. CASE Remember
  BY <1>19 DEF Remember, IInv, TypeOK
<1>20. CASE Call
  BY <1>20 DEF Call, Called, InLoop, InCall, NoCall, IInv, TypeOK
<1>21. CASE Return
  BY <1>21 DEF Return, InCall, NoCall, Goto, IInv, TypeOK
<1>22. ASSUME NEW s \in Srv, Listen(s) PROVE Iterates'
  BY <1>22 DEF Listen, IInv, TypeOK
<1> QED
  BY <1>1, <1>2, <1>3, <1>4, <1>5, <1>6, <1>7, <1>8, <1>9, <1>10, <1>11, <1>12, <1>13,
     <1>14, <1>15, <1>16, <1>17, <1>18, <1>19, <1>20, <1>21, <1>22
  DEF Runs, Worker, Thinking

-----------------------------------------------------------------------------
\* The steps that do not change servers, handlers or the Lua state.
Quiet ==
    \/ \E s \in Srv : Start(s) \/ Stop(s) \/ Listen(s)
    \/ Forget \/ Remember
    \/ \E t \in Thr : Worker(t)
    \/ Thinking

\* What they leave as it is.
Same == /\ UNCHANGED <<servers, lua, routes, registry, enabled>>
        /\ state'.no = state.no /\ state'.open = state.open
        /\ history'.stray = history.stray

LEMMA QuietKeeps ==
  ASSUME TypeOK, IInv, Quiet
  PROVE  Strays' /\ Distinct' /\ ReferencesOfServers'
<1>o. UNCHANGED objects => UNCHANGED <<servers, lua, routes>>
  BY DEF objects
<1>1. ASSUME NEW s \in Srv, Start(s) \/ Stop(s) \/ Listen(s) PROVE Same
  BY <1>1, ThinksType DEF Start, Stop, Listen, Pasts, Same
<1>2. ASSUME Forget PROVE Same
  BY <1>o, <1>2, ThinksType DEF Forget, States, Same
<1>3. ASSUME Remember PROVE Same
  BY <1>o, <1>3, ThinksType DEF Remember, States, Same
<1>4. ASSUME NEW t \in Thr, Worker(t) PROVE Same
  BY <1>o, <1>4 DEF Worker, Arrive, Hit, Miss, Again, Leave, Same
<1>5. ASSUME ThinkBegin PROVE Same
  BY <1>o, <1>5 DEF ThinkBegin, Same
<1>6. ASSUME ThinkServer \/ ThinkEnd PROVE Same
  BY <1>o, <1>6 DEF ThinkServer, ThinkEnd, Same
<1>7. ASSUME Call \/ Return PROVE Same
  BY <1>o, <1>7 DEF Call, Return, Same
<1>8. Same
  BY <1>1, <1>2, <1>3, <1>4, <1>5, <1>6, <1>7 DEF Quiet, Thinking
<1> USE <1>8 DEF Same
<1>9. Strays'
  BY DEF IInv, Strays, Current
<1>10. Distinct'
  BY DEF IInv, Distinct, Current
<1>11. ReferencesOfServers'
  BY DEF IInv, ReferencesOfServers, RefsOf
<1>12. QED
  BY <1>9, <1>10, <1>11

\* The servers of a module that is off are strays.
LEMMA StraysStep ==
  ASSUME TypeOK, IInv, Runs
  PROVE  Strays'
<1> USE ThinksType DEF Strays, Current, objects
<1>1. ASSUME NEW s \in Srv, Create(s) PROVE Strays'
  <2>1. history'.stray = IF enabled THEN history.stray ELSE history.stray \union {s}
    BY <1>1 DEF Create, Pasts
  <2>2. \A q \in Srv : q # s => lua'[q] = lua[q]
    BY <1>1 DEF Create, TypeOK
  <2>3. lua'[s] = state.no /\ state.open /\ servers' = servers \union {s} /\ UNCHANGED <<state, enabled>>
    BY <1>1 DEF Create, Script, TypeOK
  <2>4. ASSUME NEW q \in servers' PROVE q \in history'.stray \/ Current(q)'
    BY <2>1, <2>2, <2>3, <2>4 DEF IInv, TypeOK
  <2>5. ~enabled' => servers' \subseteq history'.stray
    BY <2>1, <2>3 DEF IInv
  <2>6. ASSUME NEW q \in Srv PROVE lua'[q] <= state'.no
    <3>1. state.no \in Nat /\ state' = state
      BY <2>3 DEF States
    <3>2. QED
      BY <2>2, <2>3, <3>1 DEF IInv
  <2>7. QED
    BY <2>4, <2>5, <2>6
<1>2. ASSUME NEW s \in Srv, Register(s) PROVE Strays'
  BY <1>2 DEF Register, IInv
<1>3. ASSUME NEW gone \in SUBSET servers, Delete(gone), UNCHANGED state,
             enabled' \/ ~enabled \/ gone = servers
      PROVE  Strays'
  <2>1. history'.stray = history.stray /\ servers' = servers \ gone /\ lua' = lua
    BY <1>3 DEF Delete, Pasts
  <2>2. QED
    BY <1>3, <2>1 DEF IInv
<1>4. ASSUME NEW s \in Srv, Destroy(s) PROVE Strays'
  BY <1>3, <1>4 DEF Destroy
<1>5. CASE SwitchOff
  BY <1>3, <1>5 DEF SwitchOff, Deleted, IInv
<1>6. CASE SwitchOn
  <2>1. history'.stray = {s \in history.stray : ~Usable(s)}
    BY <1>6 DEF SwitchOn, Pasts
  <2>2. state'.open = state.open /\ state'.no = state.no
    BY <1>6 DEF SwitchOn, States
  <2>3. QED
    BY <1>6, <2>1, <2>2 DEF SwitchOn, Usable, IInv
<1>7. CASE CloseLua
  <2>1. state'.no = state.no /\ UNCHANGED enabled /\ lua' = lua
    BY <1>7 DEF CloseLua, States, Delete
  <2>2. CASE enabled /\ state.known
    BY <1>7, <2>1, <2>2 DEF CloseLua, Deleted, Delete, IInv
  <2>3. CASE ~(enabled /\ state.known)
    <3>1. /\ servers' = servers
          /\ history'.stray = IF state.known THEN history.stray ELSE history.stray \union servers
      BY <1>7, <2>3 DEF CloseLua, Pasts
    <3>2. QED
      BY <2>1, <2>3, <3>1 DEF IInv
  <2>4. QED
    BY <2>2, <2>3
<1>8. CASE OpenLua
  <2>1. state'.no = state.no + 1 /\ ~state.open /\ state.no \in Nat
    BY <1>8 DEF OpenLua, States
  <2>2. UNCHANGED <<servers, lua, enabled, history>>
    BY <1>8 DEF OpenLua
  <2>3. QED
    BY <2>1, <2>2 DEF IInv, TypeOK
<1>9. CASE Quiet
  BY <1>9, QuietKeeps
<1>10. QED
  BY <1>1, <1>2, <1>4, <1>5, <1>6, <1>7, <1>8, <1>9 DEF Runs, Quiet

\* References are taken with the handler and released with the server.
LEMMA ReferencesStep ==
  ASSUME TypeOK, IInv, Runs
  PROVE  Distinct' /\ ReferencesOfServers'
<1> USE ThinksType DEF objects
<1>1. ASSUME NEW s \in Srv, Create(s) PROVE Distinct' /\ ReferencesOfServers'
  <2>1. /\ UNCHANGED <<routes, registry, state>> /\ servers' = servers \union {s} /\ s \notin servers
        /\ \A q \in servers : lua'[q] = lua[q]
    BY <1>1 DEF Create, TypeOK
  <2>2. routes[s] = <<>>
    BY <2>1 DEF IInv, Routed
  <2>3. \A q \in servers : Current(q)' <=> Current(q)
    BY <2>1 DEF Current
  <2>4. Distinct'
    BY <2>1, <2>2, <2>3 DEF IInv, Distinct
  <2>5. \A r \in Ref : r \in RefsOf(servers) => r \in RefsOf(servers)'
    BY <2>1 DEF RefsOf
  <2>6. ASSUME NEW q \in servers', Current(q)', NEW i \in DOMAIN routes'[q]
        PROVE  registry'[routes'[q][i].ref] = routes'[q][i].fn
    <3>1. q \in servers /\ Current(q)
      BY <2>1, <2>2, <2>3, <2>6
    <3>2. QED
      BY <2>1, <2>6, <3>1 DEF IInv, ReferencesOfServers, Current
  <2>7. {r \in Ref : registry'[r] # 0} \subseteq RefsOf(servers)'
    BY <2>1, <2>5 DEF IInv, ReferencesOfServers
  <2>8. QED
    BY <2>4, <2>6, <2>7 DEF ReferencesOfServers, Current
<1>2. ASSUME NEW s \in Srv, Register(s) PROVE Distinct' /\ ReferencesOfServers'
  <2>1. PICK r \in Ref : /\ registry[r] = 0
                        /\ registry' = [registry EXCEPT ![r] = made + 1]
                        /\ routes' = [routes EXCEPT ![s] = Append(@, [ref |-> r, fn |-> made + 1])]
    BY <1>2 DEF Register
  <2>2. UNCHANGED <<servers, lua, state>> /\ s \in servers
    BY <1>2 DEF Register
  <2>3. \A q \in servers : Current(q)' <=> Current(q)
    BY <2>2 DEF Current
  <2>4. ASSUME NEW q \in servers, Current(q), NEW i \in DOMAIN routes[q]
        PROVE  /\ routes[q][i].ref \in Ref /\ routes[q][i].ref # r
               /\ registry'[routes[q][i].ref] = routes[q][i].fn
    <3>1. /\ registry[routes[q][i].ref] = routes[q][i].fn /\ routes[q][i].ref \in Ref
          /\ routes[q][i].fn # 0
      BY <2>4, RoutesType DEF IInv, ReferencesOfServers, Current
    <3>2. QED
      BY <2>1, <3>1 DEF TypeOK
  <2>5. routes[s] \in Seq(Route)
    BY DEF TypeOK
  <2>6. /\ DOMAIN routes'[s] = DOMAIN routes[s] \union {Len(routes[s]) + 1}
        /\ routes'[s][Len(routes[s]) + 1] = [ref |-> r, fn |-> made + 1]
        /\ \A i \in DOMAIN routes[s] : routes'[s][i] = routes[s][i]
    BY <2>1, <2>5 DEF TypeOK
  <2>7. \A q \in servers : q # s => routes'[q] = routes[q]
    BY <2>1 DEF TypeOK
  <2>8. ASSUME NEW q \in servers, NEW i \in DOMAIN routes'[q]
        PROVE  \/ i \in DOMAIN routes[q] /\ routes'[q][i] = routes[q][i]
               \/ q = s /\ routes'[q][i] = [ref |-> r, fn |-> made + 1]
    BY <2>6, <2>7
  <2>9. registry'[r] = made + 1
    BY <2>1 DEF TypeOK
  <2>10. Distinct'
    <3>1. SUFFICES ASSUME NEW p \in servers, NEW q \in servers, Current(p), Current(q),
                          NEW i \in DOMAIN routes'[p], NEW j \in DOMAIN routes'[q],
                          routes'[p][i].ref = routes'[q][j].ref
                   PROVE  p = q
      BY <2>2, <2>3 DEF Distinct
    <3>2. CASE i \in DOMAIN routes[p] /\ routes'[p][i] = routes[p][i]
               /\ j \in DOMAIN routes[q] /\ routes'[q][j] = routes[q][j]
      BY <3>1, <3>2 DEF IInv, Distinct
    <3>3. QED
      BY <2>4, <2>8, <3>1, <3>2
  <2>11. \A q \in servers : Current(q) => \A i \in DOMAIN routes'[q] :
            registry'[routes'[q][i].ref] = routes'[q][i].fn
    BY <2>4, <2>8, <2>9
  <2>12. ASSUME NEW x \in Ref, registry'[x] # 0 PROVE x \in RefsOf(servers)'
    <3>1. CASE x = r
      <4>1. Len(routes[s]) + 1 \in DOMAIN routes'[s]
        BY <2>6
      <4>2. routes'[s][Len(routes[s]) + 1].ref = x
        BY <2>6, <3>1
      <4>3. QED
        BY <2>2, <4>1, <4>2 DEF RefsOf
    <3>2. CASE x # r
      <4>1. registry[x] # 0
        BY <2>1, <2>12, <3>2 DEF TypeOK
      <4>2. PICK q \in servers : \E i \in DOMAIN routes[q] : x = routes[q][i].ref
        BY <4>1 DEF IInv, ReferencesOfServers, RefsOf
      <4>3. \E i \in DOMAIN routes'[q] : x = routes'[q][i].ref
        BY <2>6, <2>7, <4>2
      <4>4. QED
        BY <2>2, <4>3 DEF RefsOf
    <3>3. QED
      BY <3>1, <3>2
  <2>13. QED
    BY <2>2, <2>3, <2>10, <2>11, <2>12 DEF ReferencesOfServers, Current
<1>3. ASSUME NEW s \in Srv, Destroy(s) PROVE Distinct' /\ ReferencesOfServers'
  BY <1>3, ReferencesKept DEF Destroy
<1>4. CASE SwitchOff
  <2>1. CASE state.open
    BY <1>4, <2>1, ReferencesKept DEF SwitchOff, Deleted
  <2>2. CASE ~state.open
    <3>1. UNCHANGED <<servers, lua, routes, registry, state>>
      BY <1>4, <2>2 DEF SwitchOff
    <3>2. QED
      BY <3>1 DEF IInv, Distinct, ReferencesOfServers, RefsOf, Current
  <2>3. QED
    BY <2>1, <2>2
<1>5. CASE SwitchOn
  <2>1. state'.open = state.open /\ state'.no = state.no /\ UNCHANGED <<servers, lua, routes, registry>>
    BY <1>5 DEF SwitchOn, States
  <2>2. QED
    BY <2>1 DEF IInv, Distinct, ReferencesOfServers, RefsOf, Current
<1>6. CASE CloseLua
  <2>1. ~state'.open /\ \A r \in Ref : registry'[r] = 0
    BY <1>6 DEF CloseLua, States
  <2>2. QED
    BY <2>1 DEF Distinct, ReferencesOfServers, Current
<1>7. CASE OpenLua
  <2>1. state'.no = state.no + 1 /\ UNCHANGED <<servers, lua, routes, registry>> /\ state.no \in Nat
    BY <1>7 DEF OpenLua, States
  <2>2. \A s \in servers : ~Current(s)'
    BY <2>1 DEF IInv, Strays, Current, TypeOK
  <2>3. QED
    BY <2>1, <2>2 DEF IInv, Distinct, ReferencesOfServers, RefsOf, Current
<1>8. CASE Quiet
  BY <1>8, QuietKeeps
<1>9. QED
  BY <1>1, <1>2, <1>3, <1>4, <1>5, <1>6, <1>7, <1>8 DEF Runs, Quiet

\* A server whose m_pLua dangles is a stray, unless the plugin has forgotten its
\* Lua state.
LEMMA FaultExplained ==
  ASSUME TypeOK, IInv, Fault
  PROVE  Explained'
<1> DEFINE Known == Stale \/ \E s \in servers \cap history.stray : ~Usable(s)
<1>1. ASSUME NEW s \in servers, ~Usable(s) PROVE Known
  BY <1>1 DEF Stale, Usable, IInv, Strays, Current
<1>2. Dangling => Known
  <2>1. (state.open /\ ~state.known /\ state.given /\ Idle) \/ (Idle /\ Stale) => Known
    BY DEF Stale
  <2>2. ASSUME NEW gone \in SUBSET servers, ~Releasable(gone) PROVE Known
    BY <1>1, <2>2 DEF Releasable
  <2>3. ASSUME InLoop, Called # {}, ~Usable(think.cur) PROVE Known
    BY <1>1, <2>3 DEF Called
  <2>4. QED
    BY <2>1, <2>2, <2>3 DEF Dangling, Deleted
<1>3. Wild => history.own
  BY DEF Wild, There, IInv, Iterates
<1>4. /\ UNCHANGED <<servers, history, state, lua>>
      /\ fault' = "dangling" => Dangling
      /\ fault' = "wild" => Wild
  BY DEF Fault, rest, objects
<1>5. Known' <=> Known
  BY <1>4 DEF Stale, Usable
<1>6. QED
  BY <1>2, <1>3, <1>4, <1>5 DEF Explained, OnlyOwnIsWild

\* A fault, or no step, leaves everything else as it is.
LEMMA RestKept ==
  ASSUME TypeOK, IInv, UNCHANGED rest, fault' \in {"none", "wild", "dangling"}, Explained'
  PROVE  TypeOK' /\ IInv'
<1>1. UNCHANGED <<servers, lua, online, port, routes, queue>>
  BY DEF rest, objects
<1>2. UNCHANGED <<worker, think, enabled, state, registry, made, history>>
  BY DEF rest
<1>3. TypeOK'
  BY <1>1, <1>2 DEF TypeOK
<1>4. Routed' /\ Waits'
  BY <1>1, <1>2 DEF IInv, Routed, Waits
<1>5. Iterates'
  BY <1>1, <1>2 DEF IInv, Iterates, InCall
<1>6. Strays' /\ Distinct'
  BY <1>1, <1>2 DEF IInv, Strays, Distinct, Current
<1>7. ReferencesOfServers'
  BY <1>1, <1>2 DEF IInv, ReferencesOfServers, RefsOf
<1>8. QED
  BY <1>3, <1>4, <1>5, <1>6, <1>7 DEF IInv

LEMMA StepKeeps ==
  ASSUME TypeOK, IInv, [Next]_vars
  PROVE  TypeOK' /\ IInv'
<1>1. CASE fault = "none" /\ Runs /\ UNCHANGED fault
  <2>1. Explained'
    BY <1>1 DEF Explained, OnlyOwnIsWild
  <2>2. TypeOK'
    BY <1>1, TypeStep DEF IInv
  <2>3. QED
    BY <1>1, <2>1, <2>2, RoutedStep, WaitsStep, IteratesStep, StraysStep, ReferencesStep DEF IInv
<1>2. CASE Fault
  BY <1>2, FaultExplained, RestKept DEF Fault
<1>3. CASE UNCHANGED vars
  <2>1. UNCHANGED rest /\ UNCHANGED fault
    BY <1>3 DEF vars
  <2>2. UNCHANGED <<servers, lua, state, history, fault>>
    BY <2>1 DEF rest, objects
  <2>3. Explained'
    BY <2>2 DEF IInv, Explained, OnlyOwnIsWild, Stale, Usable
  <2>4. QED
    BY <2>1, <2>3, RestKept DEF TypeOK
<1>4. QED
  BY <1>1, <1>2, <1>3 DEF Next

-----------------------------------------------------------------------------
\* Only Call begins a call.
LEMMA OnlyCallCalls ==
  ASSUME TypeOK, [Next]_vars, ~InCall, InCall'
  PROVE  Call
<1> USE ThinksType DEF InCall
<1>1. ASSUME NEW s \in Srv, Create(s) PROVE FALSE
  BY <1>1 DEF Create, Thinks
<1>2. ASSUME NEW s \in Srv, Register(s) \/ Start(s) \/ Stop(s) \/ Listen(s) PROVE FALSE
  BY <1>2 DEF Register, Start, Stop, Listen
<1>3. ASSUME NEW s \in Srv, Destroy(s) PROVE FALSE
  BY <1>3 DEF Destroy, Delete, Thinks
<1>4. CASE SwitchOff
  BY <1>4 DEF SwitchOff, Delete, Thinks, objects
<1>5. CASE CloseLua
  BY <1>5 DEF CloseLua, Delete, Thinks, objects
<1>6. CASE SwitchOn \/ OpenLua \/ Forget \/ Remember
  BY <1>6 DEF SwitchOn, OpenLua, Forget, Remember
<1>7. ASSUME NEW t \in Thr, Worker(t) PROVE FALSE
  BY <1>7 DEF Worker, Arrive, Hit, Miss, Again, Leave
<1>8. CASE ThinkBegin \/ ThinkEnd
  <2>1. think'.call = NoCall
    <3>1. CASE ThinkBegin
      BY <3>1 DEF ThinkBegin, Off
    <3>2. CASE ThinkEnd
      BY <3>2 DEF ThinkEnd, Off
    <3>3. QED
      BY <1>8, <3>1, <3>2
  <2>2. QED
    BY <2>1
<1>9. CASE ThinkServer
  BY <1>9 DEF ThinkServer, Thinks
<1>10. CASE Return
  BY <1>10 DEF Return, Thinks
<1>11. CASE UNCHANGED vars \/ Fault
  BY <1>11 DEF vars, Fault, rest
<1> QED
  BY <1>1, <1>2, <1>3, <1>4, <1>5, <1>6, <1>7, <1>8, <1>9, <1>10, <1>11 DEF Next, Runs, Thinking

-----------------------------------------------------------------------------
\* The servers, their threads, handlers and requests, Think and the registry keep
\* their types, and every reference of a server of the open Lua state its function.
THEOREM Inductive == Spec => [](TypeOK /\ IInv)
<1>1. ASSUME Init PROVE TypeOK
  <2>1. Free \in Places /\ Off \in Thinks
    BY DEF Free, Places, Off, NoCall, Thinks
  <2>2. <<>> \in Seq(Route) /\ {} \in SUBSET Waiting
    OBVIOUS
  <2>3. history \in Pasts /\ state \in States
    BY <1>1, BoundAssumption DEF Init, Pasts, States
  <2>4. /\ lua \in [Srv -> 0..MaxLuas] /\ online \in [Srv -> BOOLEAN]
        /\ port \in [Srv -> SUBSET {"starting", "listening"}]
        /\ registry \in [Ref -> 0..MaxFunctions] /\ made \in 0..MaxFunctions
    BY <1>1, BoundAssumption DEF Init
  <2>5. routes \in [Srv -> Seq(Route)] /\ queue \in [Srv -> SUBSET Waiting]
        /\ worker \in [Thr -> Places]
    BY <1>1, <2>1, <2>2 DEF Init
  <2>6. QED
    BY <1>1, <2>1, <2>3, <2>4, <2>5 DEF Init, TypeOK, Thinks, Pasts, States
<1>2. ASSUME Init PROVE IInv
  <2>1. Routed /\ Waits /\ Distinct
    BY <1>2 DEF Init, Routed, Waits, Free, Distinct
  <2>2. Strays
    BY <1>2, BoundAssumption DEF Init, Strays
  <2>3. Explained
    BY <1>2 DEF Init, Explained, OnlyOwnIsWild
  <2>4. Iterates
    BY <1>2 DEF Init, Off, Iterates, InCall
  <2>5. ReferencesOfServers
    BY <1>2 DEF Init, ReferencesOfServers, RefsOf
  <2>6. QED
    BY <2>1, <2>2, <2>3, <2>4, <2>5 DEF IInv
<1>3. TypeOK /\ IInv /\ [Next]_vars => TypeOK' /\ IInv'
  BY StepKeeps
<1>4. QED
  BY <1>1, <1>2, <1>3, PTL DEF Spec

\* A server outlives its Lua state only if it was made while the module was off, or
\* the plugin had forgotten the state; only such a server lets m_pLua dangle, no
\* reference is leaked, and none of the open Lua state is released too early.
THEOREM ReferencesCorrect == Spec => []ReferencesExact
<1>1. IInv => ReferencesExact
  BY DEF IInv, ReferencesExact, ServersDieWithLua, Strays, Current, Explained
<1>2. QED
  BY <1>1, Inductive, PTL

\* HttpServer::Think calls the function the handler was registered with.
THEOREM CallsCorrect == Spec => CallsRegistered
<1>1. ASSUME TypeOK, IInv, [Next]_vars, ~InCall, InCall'
      PROVE  state.open /\ registry[think'.call.route.ref] = think'.call.route.fn
  <2>1. Call
    BY <1>1, OnlyCallCalls
  <2>2. PICK w \in Called : think' = [think EXCEPT !.call = w]
    BY <2>1 DEF Call
  <2>3. think.cur \in servers /\ think.cur \in Srv /\ w \in queue[think.cur] /\ Current(think.cur)
    BY <1>1, <2>1, <2>2 DEF Call, Called, Usable, Current, TypeOK
  <2>4. PICK i \in DOMAIN routes[think.cur] : w.route = routes[think.cur][i]
    BY <1>1, <2>3 DEF IInv, Routed
  <2>5. think'.call = w
    BY <1>1, <2>2, ThinksType DEF Thinks
  <2>6. QED
    BY <1>1, <2>3, <2>4, <2>5 DEF IInv, ReferencesOfServers, Current
<1>2. QED
  BY <1>1, Inductive, PTL DEF Spec, CallsRegistered

\* A handler is added to a server that is stopped, and was never left by a Stop that
\* gave up, while no pool thread goes through its handlers.
THEOREM UndisturbedCorrect == Spec => Undisturbed
<1>1. ASSUME TypeOK, IInv, NEW s \in Srv
      PROVE  (\A t \in Left(s) : worker[t].pc # "match") \/ online[s] \/ s \in history.loose
  <2>1. \A t \in Left(s) : worker[t].pc = "match" => online[s] \/ s \in history.loose
    BY <1>1 DEF Left, IInv, Waits
  <2>2. QED
    BY <2>1
<1>2. TypeOK /\ IInv => [\A s \in Srv : routes'[s] # routes[s] /\ s \in servers' =>
                              \/ \A t \in Left(s) : worker[t].pc # "match"
                              \/ online[s] \/ s \in history.loose]_vars
  BY <1>1
<1>3. QED
  BY <1>2, Inductive, PTL DEF Undisturbed

\* CHTTPServerModule::Think meets a deleted server only after a handler got its
\* own server deleted.
THEOREM OnlyOwnIsWildCorrect == Spec => []OnlyOwnIsWild
<1>1. IInv => OnlyOwnIsWild
  BY DEF IInv, Explained
<1>2. QED
  BY <1>1, Inductive, PTL
=============================================================================
