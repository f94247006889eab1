---------------------------- MODULE PluginProofs ----------------------------
(***************************************************************************)
(* Proofs about Plugin, for any modules and any Lua interfaces.            *)
(*                                                                         *)
(* TypeCorrect comes first.  LateIsEarly, Halfway and Progress support one *)
(* another and are inductive together (Kept); the order of the callbacks   *)
(* follows from them, step by step.  Realm and Bound then confine what the *)
(* modules know to the one live interface of the server, from which        *)
(* LuaCallsAreSafe and NothingInClosed follow.                             *)
(***************************************************************************)
EXTENDS Plugin, TLAPS

\* The steps of the plugin.
Loads == Load \/ LoadMakesUp \/ LoadInit \/ LoadPreDetour \/ LoadDetour

Engine == \/ \E p \in Iface : CreateServerLua(p) \/ CreateForeignLua(p) \/ CloseLua(p)
          \/ ServerActivate \/ ServerInit \/ ActivateModules \/ LevelShutdown

Console == Nuke \/ \E m \in Module : SwitchOn(m) \/ SwitchCall(m) \/ SwitchOff(m)

\* Load, and ServerActivate at its end, announce a phase.
Announces == \E ph \in Phase : Announce(ph)

LEMMA NextSplit ==
    ASSUME Next
    PROVE  ~fault /\ (Loads \/ Unload \/ Engine \/ Console)
BY DEF Next, Loads, Engine, Console

-----------------------------------------------------------------------------
\* Types are kept by every step.
LEMMA BindLuaType ==
    ASSUME TypeOK, NEW p \in Iface, BindLua(p)
    PROVE  ManagerTypeOK' /\ gLua' \in Iface \cup {NoLua} /\ links' \subseteq Iface
<1>1. CASE gLua = NoLua
  <2>1. gLua' = p /\ links' = links \cup {p} /\ LuaInit(p)
    BY <1>1 DEF BindLua
  <2>2. built' \in [Module -> SUBSET Iface]
    BY <2>1 DEF LuaInit, Give, TypeOK, ManagerTypeOK
  <2>3. QED
    BY <2>1, <2>2 DEF LuaInit, TypeOK, ManagerTypeOK, switches, Status
<1>2. CASE gLua # NoLua
  BY <1>2 DEF BindLua, TypeOK, ManagerTypeOK, manager, switches, calls
<1>3. QED
  BY <1>1, <1>2

LEMMA AnnounceType ==
    ASSUME ManagerTypeOK, NEW ph \in Phase, Announce(ph)
    PROVE  ManagerTypeOK'
<1>1. \A m \in Module : {Heard(m, ph)} \in SUBSET Callback
  BY DEF Heard, Callback
<1>2. got' \in [Module -> SUBSET Callback]
  BY <1>1 DEF Announce, ManagerTypeOK
<1>3. ph \in Status
  BY DEF Status
<1>4. QED
  BY <1>2, <1>3 DEF Announce, ManagerTypeOK, switches

LEMMA EnableCallType ==
    ASSUME ManagerTypeOK, NEW m \in Module, turn[m] # "none", EnableCall(m)
    PROVE  ManagerTypeOK'
<1>1. Order[turn[m]] \in Status \cup {"none"}
  <2>1. turn[m] \in {"pre", "init", "detour", "activate", "lua", "luaserver"}
    BY DEF ManagerTypeOK, Status, Phase
  <2>2. QED
    BY <2>1 DEF Order, Status, Phase
<1>2. turn' \in [Module -> Status \cup {"none"}]
  BY <1>1 DEF EnableCall, ManagerTypeOK
<1>3. status \cap Phase \cap {turn[m]} \in SUBSET Callback
  BY DEF Callback
<1>4. got' \in [Module -> SUBSET Callback]
  BY <1>3 DEF EnableCall, ManagerTypeOK
<1>5. LuasFor(turn[m]) \in SUBSET Iface
  BY DEF LuasFor, ManagerTypeOK
<1>6. built' \in [Module -> SUBSET Iface] /\ served' \in [Module -> SUBSET Iface]
  BY <1>5 DEF EnableCall, ManagerTypeOK
<1>7. enabled' \in [Module -> BOOLEAN]
  BY DEF EnableCall, ManagerTypeOK
<1>8. QED
  BY <1>2, <1>4, <1>6, <1>7 DEF EnableCall, ManagerTypeOK

LEMMA DisableType ==
    ASSUME TypeOK, NEW S \in SUBSET Module, Disable(S)
    PROVE  /\ enabled' \in [Module -> BOOLEAN]
           /\ UNCHANGED <<status, luas, turn, announced>>
           /\ got' \in [Module -> SUBSET Callback]
           /\ built' \in [Module -> SUBSET Iface]
           /\ served' \in [Module -> SUBSET Iface]
BY DEF TypeOK, ManagerTypeOK, Disable, LuasFor

LEMMA LoadType ==
    ASSUME TypeOK, Loads \/ Unload
    PROVE  TypeOK'
<1>1. CASE Load
  BY <1>1 DEF TypeOK, ManagerTypeOK, Load, manager, switches, calls, engine, Steps
<1>2. ASSUME LoadMakesUp \/ LoadInit \/ LoadPreDetour \/ LoadDetour PROVE TypeOK'
  <2>1. PICK ph \in Phase : Announce(ph)
    BY <1>2 DEF LoadMakesUp, LoadInit, LoadPreDetour, LoadDetour, Phase
  <2>2. ManagerTypeOK'
    BY <2>1, AnnounceType DEF TypeOK
  <2>3. step' \in Steps /\ UNCHANGED <<lua, engine, fault>>
    BY <1>2 DEF TypeOK, LoadMakesUp, LoadInit, LoadPreDetour, LoadDetour, Steps
  <2>4. QED
    BY <2>2, <2>3 DEF TypeOK, lua, engine
<1>3. CASE Unload
  <2>1. got' \in [Module -> SUBSET Callback]
    BY <1>3 DEF Take, Unload, Shutdown, TypeOK, ManagerTypeOK
  <2>2. QED
    BY <1>3, <2>1 DEF TypeOK, ManagerTypeOK, Unload, Shutdown, switches, engine, Steps
<1>4. QED
  BY <1>1, <1>2, <1>3 DEF Loads

LEMMA EngineType ==
    ASSUME TypeOK, Engine
    PROVE  TypeOK'
<1>1. ASSUME NEW p \in Iface, CreateServerLua(p) PROVE TypeOK'
  <2>1. ManagerTypeOK' /\ gLua' \in Iface \cup {NoLua} /\ links' \subseteq Iface
    <3>1. CASE "InitLuaClasses" \in hooks
      BY <1>1, <3>1, BindLuaType DEF CreateServerLua
    <3>2. CASE "InitLuaClasses" \notin hooks
      BY <1>1, <3>2 DEF CreateServerLua, TypeOK, ManagerTypeOK, manager, switches, calls
    <3>3. QED
      BY <3>1, <3>2
  <2>2. QED
    BY <1>1, <2>1 DEF CreateServerLua, TypeOK
<1>2. ASSUME NEW p \in Iface, CreateForeignLua(p) PROVE TypeOK'
  BY <1>2 DEF CreateForeignLua, TypeOK, ManagerTypeOK, manager, switches, calls, lua
<1>3. ASSUME NEW p \in Iface, CloseLua(p) PROVE TypeOK'
  <2>1. gLua' \in Iface \cup {NoLua} /\ links' \subseteq Iface
    BY <1>3 DEF CloseLua, FinalShutdown, TypeOK
  <2>2. ManagerTypeOK' /\ fault' \in BOOLEAN
    <3>1. CASE LuaShutdown(p) /\ Hand(Active, {p})
      <4>1. built' \in [Module -> SUBSET Iface] /\ served' \in [Module -> SUBSET Iface]
        BY <3>1 DEF LuaShutdown, Take, TypeOK, ManagerTypeOK
      <4>2. QED
        BY <3>1, <4>1 DEF LuaShutdown, RemoveLuaInterface, Hand, TypeOK, ManagerTypeOK, switches
    <3>2. CASE UNCHANGED <<manager, fault>>
      BY <3>2 DEF TypeOK, ManagerTypeOK, manager, switches, calls
    <3>3. QED
      BY <1>3, <3>1, <3>2 DEF CloseLua
  <2>3. life' \in [Iface -> {"none", "live", "closed"}] /\ realm' \in Iface \cup {NoLua}
          /\ ready' \in BOOLEAN
    BY <1>3 DEF CloseLua, TypeOK
  <2>4. QED
    BY <1>3, <2>1, <2>2, <2>3 DEF CloseLua, TypeOK
<1>4. CASE ServerActivate
  <2>1. ManagerTypeOK' /\ gLua' \in Iface \cup {NoLua} /\ links' \subseteq Iface
    <3>1. CASE realm # NoLua
      <4>1. realm \in Iface
        BY <3>1 DEF TypeOK
      <4>2. QED
        BY <1>4, <3>1, <4>1, BindLuaType DEF ServerActivate
    <3>2. CASE realm = NoLua
      BY <1>4, <3>2 DEF ServerActivate, TypeOK, ManagerTypeOK, manager, switches, calls
    <3>3. QED
      BY <3>1, <3>2
  <2>2. QED
    BY <1>4, <2>1 DEF ServerActivate, TypeOK, Steps
<1>5. CASE ServerInit
  <2>1. ManagerTypeOK'
    <3>1. CASE gLua # NoLua
      <4>1. gLua \in Iface /\ LuaServerInit(gLua)
        BY <1>5, <3>1 DEF ServerInit, HasLua, TypeOK
      <4>2. served' \in [Module -> SUBSET Iface]
        BY <4>1 DEF LuaServerInit, Give, TypeOK, ManagerTypeOK
      <4>3. QED
        BY <4>1, <4>2 DEF LuaServerInit, TypeOK, ManagerTypeOK, switches, Status
    <3>2. CASE gLua = NoLua
      BY <1>5, <3>2 DEF ServerInit, HasLua, TypeOK, ManagerTypeOK, manager, switches, calls
    <3>3. QED
      BY <3>1, <3>2
  <2>2. QED
    BY <1>5, <2>1 DEF ServerInit, TypeOK, lua, engine, Steps
<1>6. CASE ActivateModules
  <2>1. "activate" \in Phase /\ Announce("activate")
    BY <1>6 DEF Phase, ActivateModules
  <2>2. ManagerTypeOK'
    BY <2>1, AnnounceType DEF TypeOK
  <2>3. QED
    BY <1>6, <2>2 DEF ActivateModules, TypeOK, lua, engine, Steps
<1>7. CASE LevelShutdown
  BY <1>7 DEF LevelShutdown, FinalShutdown, TypeOK, ManagerTypeOK, manager, switches, calls
<1>8. QED
  BY <1>1, <1>2, <1>3, <1>4, <1>5, <1>6, <1>7 DEF Engine

LEMMA ConsoleType ==
    ASSUME TypeOK, Console
    PROVE  TypeOK'
<1>1. ASSUME NEW m \in Module, SwitchOn(m) PROVE TypeOK'
  <2>1. turn' \in [Module -> Status \cup {"none"}]
    <3>1. (IF Changes(m, TRUE) THEN "pre" ELSE turn[m]) \in Status \cup {"none"}
      BY DEF Status, Phase, TypeOK, ManagerTypeOK
    <3>2. QED
      BY <1>1, <3>1 DEF SwitchOn, ConVarOn, Enable, TypeOK, ManagerTypeOK
  <2>2. step' \in Steps
    BY <1>1 DEF SwitchOn, TypeOK, Steps
  <2>3. QED
    BY <1>1, <2>1, <2>2 DEF SwitchOn, ConVarOn, TypeOK, ManagerTypeOK, calls, lua, engine
<1>5. ASSUME NEW m \in Module, SwitchCall(m) PROVE TypeOK'
  <2>1. ManagerTypeOK'
    BY <1>5, EnableCallType DEF SwitchCall, TypeOK
  <2>2. step' \in Steps /\ fault' \in BOOLEAN
    BY <1>5 DEF SwitchCall, Hand, TypeOK, Steps
  <2>3. QED
    BY <1>5, <2>1, <2>2 DEF SwitchCall, TypeOK, lua, engine
<1>2. ASSUME NEW m \in Module, SwitchOff(m) PROVE TypeOK'
  <2>1. Disable({m}) /\ {m} \in SUBSET Module
    BY <1>2 DEF SwitchOff, ConVarOff
  <2>2. QED
    BY <1>2, <2>1, DisableType DEF SwitchOff, ConVarOff, Hand, TypeOK, ManagerTypeOK, lua, engine
<1>3. CASE Nuke
  <2>1. Disable(Module) /\ Module \in SUBSET Module
    BY <1>3 DEF Nuke, NukeModules
  <2>2. QED
    BY <1>3, <2>1, DisableType DEF Nuke, NukeModules, Hand, TypeOK, ManagerTypeOK, lua, engine
<1>4. QED
  BY <1>1, <1>2, <1>3, <1>5 DEF Console

\* Every variable of the plugin keeps its type.
THEOREM TypeCorrect == Spec => []TypeOK
<1>1. Init => TypeOK
  BY DEF Init, ManagerInit, TypeOK, ManagerTypeOK, Steps
<1>2. TypeOK /\ [Next]_vars => TypeOK'
  <2>1. ASSUME TypeOK, Next PROVE TypeOK'
    BY <2>1, NextSplit, LoadType, EngineType, ConsoleType
  <2>2. ASSUME TypeOK, UNCHANGED vars PROVE TypeOK'
    BY <2>2 DEF TypeOK, ManagerTypeOK, vars, manager, switches, calls, lua, engine
  <2>3. QED
    BY <2>1, <2>2
<1>3. QED
  BY <1>1, <1>2, PTL DEF Spec

-----------------------------------------------------------------------------
\* The callbacks a module received match what the manager has announced.
Kept == LateIsEarly /\ Halfway /\ Progress

\* Only a module that is being switched on has a turn.
LEMMA NoTurns ==
    ASSUME Kept, step # "switch"
    PROVE  \A m \in Module : turn[m] = "none"
BY DEF Kept, Halfway

LEMMA NoTurnsLater ==
    ASSUME \A m \in Module : turn[m] = "none", turn' = turn
    PROVE  Halfway'
BY DEF Halfway

\* What the manager knows and the modules have stays as it is.
LEMMA ManagerUnchanged ==
    ASSUME Kept, step # "switch", UNCHANGED manager
    PROVE  LateIsEarly' /\ Halfway'
<1>1. LateIsEarly'
  BY DEF Kept, LateIsEarly, manager, switches, calls
<1>2. Halfway'
  BY NoTurns, NoTurnsLater DEF manager
<1>3. QED
  BY <1>1, <1>2

LEMMA AnnounceKept ==
    ASSUME TypeOK, Kept, step # "switch", NEW ph \in Phase, Announce(ph), ph = "pre" => luas = {}
    PROVE  LateIsEarly' /\ Halfway'
<1>1. \A m \in Module : turn[m] = "none" /\ turn'[m] = "none"
  BY NoTurns DEF Announce
<1>2. ASSUME NEW m \in Module, enabled[m] PROVE got'[m] \ {"again"} = status' \cap Phase
  <2>1. got'[m] = got[m] \cup {Heard(m, ph)} /\ status' = status \cup {ph}
    BY <1>2 DEF Announce
  <2>2. got[m] \ {"again"} = status \cap Phase
    BY <1>1, <1>2 DEF Kept, LateIsEarly
  <2>3. "again" \notin Phase /\ ph # "again"
    BY DEF Phase
  <2>4. QED
    BY <2>1, <2>2, <2>3 DEF Heard
<1>3. ASSUME NEW m \in Module, enabled[m], "again" \in got'[m] PROVE served[m] = announced
  <2>1. "again" \in got[m] \/ luas = {}
    BY <1>3 DEF Announce, Heard, Phase
  <2>2. QED
    BY <1>1, <1>3, <2>1 DEF Kept, LateIsEarly
<1>4. ASSUME NEW m \in Module, ~enabled[m] PROVE got'[m] = got[m]
  BY <1>4 DEF Announce
<1>5. LateIsEarly'
  BY <1>1, <1>2, <1>3, <1>4 DEF Announce, Kept, LateIsEarly, switches
<1>6. Halfway'
  BY <1>1, NoTurnsLater DEF Announce
<1>7. QED
  BY <1>5, <1>6

\* Lua::Init at a time when the plugin is loaded.
LEMMA BindLuaKept ==
    ASSUME TypeOK, Kept, Loaded, step # "switch", NEW p \in Iface, BindLua(p)
    PROVE  /\ LateIsEarly' /\ Halfway'
           /\ status \subseteq status' /\ status' \subseteq status \cup {"lua"}
           /\ luas' # {} => "lua" \in status'
           /\ gLua' # NoLua => gLua' \in luas'
           /\ luas \subseteq luas' /\ announced' = announced
<1>1. CASE gLua = NoLua
  <2>1. gLua' = p /\ LuaInit(p)
    BY <1>1 DEF BindLua
  <2>2. LateIsEarly'
    BY <2>1, NoTurns DEF Kept, LateIsEarly, LuaInit, Give, Phase, TypeOK, ManagerTypeOK, switches
  <2>3. Halfway'
    BY <2>1, NoTurns, NoTurnsLater DEF LuaInit
  <2>4. QED
    BY <2>1, <2>2, <2>3 DEF Kept, Progress, LuaInit
<1>2. CASE gLua # NoLua
  BY <1>2, ManagerUnchanged DEF BindLua, Kept, Progress, manager, switches, calls
<1>3. QED
  BY <1>1, <1>2

LEMMA LoadKept ==
    ASSUME TypeOK, Kept, Loads \/ Unload
    PROVE  Kept'
<1>0. step # "switch"
  BY DEF Loads, Load, LoadMakesUp, LoadInit, LoadPreDetour, LoadDetour, Unload
<1>1. CASE Load
  BY <1>0, <1>1, ManagerUnchanged DEF Load, Kept, Progress, Loading, Loaded, manager, switches, calls, engine
<1>2. ASSUME NEW ph \in Phase, Announce(ph), Loads PROVE LateIsEarly' /\ Halfway'
  <2>1. Loading
    BY <1>2 DEF Loads, Loading, Load, LoadMakesUp, LoadInit, LoadPreDetour, LoadDetour
  <2>2. luas = {}
    BY <2>1 DEF Kept, Progress
  <2>3. QED
    BY <1>0, <1>2, <2>2, AnnounceKept
<1>3. CASE LoadMakesUp
  <2>1. LateIsEarly' /\ Halfway'
    BY <1>2, <1>3 DEF Loads, LoadMakesUp, Phase
  <2>2. Progress'
    BY <1>3 DEF LoadMakesUp, Announce, Kept, Progress, Loading, Loaded, lua, engine
  <2>3. QED
    BY <2>1, <2>2 DEF Kept
<1>4. CASE LoadInit
  <2>1. LateIsEarly' /\ Halfway'
    BY <1>2, <1>4 DEF Loads, LoadInit, Phase
  <2>2. Progress'
    BY <1>4 DEF LoadInit, MakesUp, Announce, Kept, Progress, Loading, Loaded, lua, engine
  <2>3. QED
    BY <2>1, <2>2 DEF Kept
<1>5. CASE LoadPreDetour
  <2>1. LateIsEarly' /\ Halfway'
    BY <1>2, <1>5 DEF Loads, LoadPreDetour, Phase
  <2>2. Progress'
    BY <1>5 DEF LoadPreDetour, Announce, Kept, Progress, Loading, Loaded, lua, engine
  <2>3. QED
    BY <2>1, <2>2 DEF Kept
<1>6. CASE LoadDetour
  <2>1. LateIsEarly' /\ Halfway'
    BY <1>2, <1>6 DEF Loads, LoadDetour, Phase
  <2>2. Progress'
    BY <1>6 DEF LoadDetour, Announce, Kept, Progress, Loading, Loaded, lua, engine
  <2>3. QED
    BY <2>1, <2>2 DEF Kept
<1>7. CASE Unload
  <2>1. \A m \in Module : got[m] \subseteq Callback
    BY DEF TypeOK, ManagerTypeOK
  <2>2. \A m \in Module : got'[m] = {}
    BY <1>0, <1>7, <2>1, NoTurns DEF Unload, Shutdown, Take, Kept, LateIsEarly
  <2>3. LateIsEarly'
    BY <1>0, <1>7, <2>2, NoTurns DEF Unload, Shutdown, Kept, LateIsEarly, switches
  <2>4. Halfway'
    BY <1>0, <1>7, NoTurns, NoTurnsLater DEF Unload, Shutdown
  <2>5. Progress'
    BY <1>7 DEF Unload, Shutdown, Kept, Progress, Loading, Loaded
  <2>6. QED
    BY <2>3, <2>4, <2>5 DEF Kept
<1>8. QED
  BY <1>1, <1>3, <1>4, <1>5, <1>6, <1>7 DEF Loads

LEMMA EngineKept ==
    ASSUME TypeOK, Kept, Engine
    PROVE  Kept'
<1>0. step # "switch"
  BY DEF Engine, CreateServerLua, CreateForeignLua, CloseLua, ServerActivate, ServerInit, ActivateModules,
         LevelShutdown
<1>1. ASSUME NEW p \in Iface, CreateServerLua(p) PROVE Kept'
  <2>1. CASE "InitLuaClasses" \in hooks
    <3>1. Loaded /\ step = "idle" /\ BindLua(p) /\ UNCHANGED <<step, hooks>>
      BY <1>1, <2>1 DEF CreateServerLua, Loaded, Kept, Progress
    <3>2. LateIsEarly' /\ Halfway'
      BY <1>0, <3>1, BindLuaKept
    <3>3. Progress'
      BY <1>0, <3>1, BindLuaKept DEF Kept, Progress, Loaded, Loading
    <3>4. QED
      BY <3>2, <3>3 DEF Kept
  <2>2. CASE "InitLuaClasses" \notin hooks
    BY <1>0, <1>1, <2>2, ManagerUnchanged
    DEF CreateServerLua, Kept, Progress, Loading, Loaded, manager, switches, calls
  <2>3. QED
    BY <2>1, <2>2
<1>2. ASSUME NEW p \in Iface, CreateForeignLua(p) PROVE Kept'
  BY <1>0, <1>2, ManagerUnchanged
  DEF CreateForeignLua, Kept, Progress, Loading, Loaded, manager, switches, calls, lua
<1>3. ASSUME NEW p \in Iface, CloseLua(p) PROVE Kept'
  <2>0. step \in {"unloaded", "idle"}
    BY <1>3 DEF CloseLua
  <2>1. CASE "Shutdown" \in hooks /\ TellsModules(p)
    <3>1. LuaShutdown(p) /\ gLua' = NoLua /\ UNCHANGED <<step, hooks>>
      BY <1>3, <2>1 DEF CloseLua, FinalShutdown
    <3>2. LateIsEarly'
      BY <1>0, <3>1, NoTurns DEF LuaShutdown, RemoveLuaInterface, Kept, LateIsEarly, Take, Phase,
                  TypeOK, ManagerTypeOK, switches
    <3>3. Halfway'
      BY <1>0, <3>1, NoTurns, NoTurnsLater DEF LuaShutdown
    <3>4. Progress'
      BY <2>0, <3>1 DEF LuaShutdown, RemoveLuaInterface, Kept, Progress, Loading, Loaded
    <3>5. QED
      BY <3>2, <3>3, <3>4 DEF Kept
  <2>2. CASE ~("Shutdown" \in hooks /\ TellsModules(p))
    <3>1. UNCHANGED <<manager, step, hooks>> /\ (gLua' = NoLua \/ gLua' = gLua)
      BY <1>3, <2>2 DEF CloseLua, FinalShutdown
    <3>2. QED
      BY <1>0, <2>0, <3>1, ManagerUnchanged DEF Kept, Progress, Loading, Loaded, manager, switches, calls
  <2>3. QED
    BY <2>1, <2>2
<1>4. CASE ServerActivate
  <2>1. CASE realm # NoLua
    <3>1. realm \in Iface /\ Loaded /\ Loaded' /\ BindLua(realm) /\ hooks' = hooks /\ step' = "serverinit"
      BY <1>4, <2>1 DEF ServerActivate, TypeOK, Loaded
    <3>2. LateIsEarly' /\ Halfway'
      BY <1>0, <3>1, BindLuaKept
    <3>3. Progress'
      BY <1>0, <3>1, BindLuaKept DEF Kept, Progress, Loaded, Loading
    <3>4. QED
      BY <3>2, <3>3 DEF Kept
  <2>2. CASE realm = NoLua
    BY <1>0, <1>4, <2>2, ManagerUnchanged
    DEF ServerActivate, Kept, Progress, Loading, Loaded, manager, switches, calls
  <2>3. QED
    BY <2>1, <2>2
<1>5. CASE ServerInit
  <2>1. CASE HasLua
    <3>1. gLua \in luas /\ LuaServerInit(gLua) /\ UNCHANGED <<hooks, gLua>> /\ step = "serverinit"
            /\ step' = "activate"
      BY <1>5, <2>1 DEF ServerInit, HasLua, Kept, Progress, lua
    <3>2. LateIsEarly'
      BY <1>0, <3>1, NoTurns DEF LuaServerInit, Kept, LateIsEarly, Give, Phase, TypeOK, ManagerTypeOK, switches
    <3>3. Halfway'
      BY <1>0, <3>1, NoTurns, NoTurnsLater DEF LuaServerInit
    <3>4. Progress'
      BY <3>1 DEF LuaServerInit, Kept, Progress, Loading, Loaded
    <3>5. QED
      BY <3>2, <3>3, <3>4 DEF Kept
  <2>2. CASE ~HasLua
    <3>1. UNCHANGED <<manager, gLua, hooks>> /\ gLua = NoLua /\ step = "serverinit" /\ step' = "activate"
      BY <1>5, <2>2 DEF ServerInit, HasLua, lua
    <3>2. QED
      BY <1>0, <3>1, ManagerUnchanged DEF Kept, Progress, Loading, Loaded, manager, switches, calls
  <2>3. QED
    BY <2>1, <2>2
<1>6. CASE ActivateModules
  <2>1. LateIsEarly' /\ Halfway'
    BY <1>0, <1>6, AnnounceKept DEF ActivateModules, Phase
  <2>2. Progress'
    BY <1>6 DEF ActivateModules, Announce, Kept, Progress, Loading, Loaded, lua
  <2>3. QED
    BY <2>1, <2>2 DEF Kept
<1>7. CASE LevelShutdown
  <2>1. UNCHANGED <<manager, step, hooks>> /\ (gLua' = NoLua \/ gLua' = gLua) /\ step = "idle"
    BY <1>7 DEF LevelShutdown, FinalShutdown
  <2>2. QED
    BY <1>0, <2>1, ManagerUnchanged DEF Kept, Progress, Loading, Loaded, manager, switches, calls
<1>8. QED
  BY <1>1, <1>2, <1>3, <1>4, <1>5, <1>6, <1>7 DEF Engine

\* CModule::SetEnabled, on and off.
LEMMA DisableKept ==
    ASSUME TypeOK, Kept, step = "idle", NEW S \in SUBSET Module, Disable(S), UNCHANGED <<step, lua>>
    PROVE  Kept'
<1>1. LuasFor("lua") = luas /\ "init" \in status
  BY DEF LuasFor, Kept, Progress, Loaded
<1>2. LateIsEarly'
  BY <1>1, NoTurns DEF Disable, Changes, Kept, LateIsEarly, TypeOK, ManagerTypeOK
<1>3. Halfway'
  BY NoTurns, NoTurnsLater DEF Disable
<1>4. Progress'
  BY DEF Disable, Kept, Progress, Loading, Loaded, lua
<1>5. QED
  BY <1>2, <1>3, <1>4 DEF Kept

LEMMA SwitchOnKept ==
    ASSUME TypeOK, Kept, NEW m \in Module, SwitchOn(m)
    PROVE  Kept'
<1>1. /\ \A n \in Module : turn[n] = "none"
      /\ turn' = [turn EXCEPT ![m] = IF Changes(m, TRUE) THEN "pre" ELSE turn[m]]
      /\ step = "idle" /\ step' = (IF Changes(m, TRUE) THEN "switch" ELSE step)
      /\ UNCHANGED <<enabled, status, luas, calls, announced, lua>>
  BY NoTurns DEF SwitchOn, ConVarOn, Enable
<1>2. LateIsEarly'
  BY <1>1 DEF Kept, LateIsEarly, calls
<1>3. Halfway'
  <2>1. CASE Changes(m, TRUE)
    <3>1. ~enabled[m] /\ got[m] = {} /\ built[m] = {} /\ served[m] = {}
      BY <1>1, <2>1 DEF Changes, Kept, LateIsEarly, TypeOK, ManagerTypeOK
    <3>2. \A n \in Module : turn'[n] # "none" => n = m /\ turn'[n] = "pre"
      BY <1>1, <2>1 DEF TypeOK, ManagerTypeOK
    <3>3. QED
      BY <1>1, <2>1, <3>1, <3>2 DEF Halfway, calls
  <2>2. CASE ~Changes(m, TRUE)
    <3>1. turn' = turn
      BY <1>1, <2>2 DEF TypeOK, ManagerTypeOK
    <3>2. QED
      BY <1>1, <3>1, NoTurnsLater
  <2>3. QED
    BY <2>1, <2>2
<1>4. Progress'
  BY <1>1 DEF Kept, Progress, Loading, Loaded, lua
<1>5. QED
  BY <1>2, <1>3, <1>4 DEF Kept

\* What the call that is next leaves the module, and the others, with.
Gives(m) ==
    /\ {"pre", "init", "detour"} \subseteq status
    /\ turn[m] \in {"pre", "init", "detour", "lua", "luaserver", "activate"}
    /\ turn'[m] = Order[turn[m]]
    /\ got'[m] = got[m] \cup (status \cap Phase \cap {turn[m]})
    /\ built'[m] = IF turn[m] = "lua" THEN built[m] \cup luas ELSE built[m]
    /\ served'[m] = IF turn[m] = "luaserver" THEN served[m] \cup LuasFor("luaserver") ELSE served[m]
    /\ enabled'[m] = (turn'[m] = "none")
    /\ UNCHANGED <<status, luas, announced, lua>>

Others(m) ==
    \A n \in Module \ {m} : /\ turn'[n] = turn[n] /\ got'[n] = got[n] /\ built'[n] = built[n]
                             /\ served'[n] = served[n] /\ enabled'[n] = enabled[n]

LEMMA CallGives ==
    ASSUME TypeOK, Kept, NEW m \in Module, SwitchCall(m)
    PROVE  Gives(m) /\ Others(m)
<1>1. step = "switch" /\ Loaded
  BY DEF SwitchCall, Loaded
<1>2. LuasFor("lua") = luas /\ {"pre", "init", "detour"} \subseteq status
  BY <1>1 DEF LuasFor, Kept, Progress
<1>3. Gives(m)
  BY <1>2 DEF Gives, SwitchCall, EnableCall, TypeOK, ManagerTypeOK, Status, Phase
<1>4. Others(m)
  BY DEF Others, SwitchCall, EnableCall, TypeOK, ManagerTypeOK
<1>5. QED
  BY <1>3, <1>4

LEMMA SwitchCallKept ==
    ASSUME TypeOK, Kept, NEW m \in Module, SwitchCall(m)
    PROVE  Kept'
<1>0. \A n \in Module \ {m} : turn[n] = "none"
  BY DEF SwitchCall, Kept, Halfway
<1>1. step = "switch" /\ step' = (IF turn'[m] = "none" THEN "idle" ELSE "switch")
  BY DEF SwitchCall
<1>c. Gives(m) /\ Others(m)
  BY CallGives
<1>2. /\ announced \subseteq LuasFor("luaserver") /\ LuasFor("luaserver") \subseteq luas
  BY <1>1 DEF Kept, Progress, Loaded, LuasFor
<1>3. LuasFor("luaserver")' = LuasFor("luaserver")
  BY <1>c DEF LuasFor, Gives
<1>4. LateIsEarly'
  <2>1. ASSUME NEW n \in Module \ {m}
        PROVE  IF enabled'[n]
               THEN /\ got'[n] \ {"again"} = status' \cap Phase
                    /\ built'[n] = luas'
                    /\ announced' \subseteq served'[n] /\ served'[n] \subseteq luas'
                    /\ "again" \in got'[n] => served'[n] = announced'
               ELSE got'[n] = {} /\ built'[n] = {} /\ served'[n] = {}
    BY <1>0, <1>c, <2>1 DEF Kept, LateIsEarly, Gives, Others
  <2>2. ASSUME turn'[m] = "none"
        PROVE  /\ enabled'[m]
               /\ got'[m] \ {"again"} = status' \cap Phase /\ "again" \notin got'[m]
               /\ built'[m] = luas'
               /\ announced' \subseteq served'[m] /\ served'[m] \subseteq luas'
    <3>1. turn[m] = "activate"
      BY <1>c, <2>2 DEF Gives, Order
    <3>2. got[m] = {"pre", "init", "detour"} /\ built[m] = luas /\ served[m] = LuasFor("luaserver")
      BY <3>1 DEF Kept, Halfway
    <3>3. got'[m] = {"pre", "init", "detour"} \cup (status \cap {"activate"})
      BY <1>c, <3>1, <3>2 DEF Gives, Phase
    <3>4. status \cap Phase = {"pre", "init", "detour"} \cup (status \cap {"activate"})
      BY <1>c DEF Gives, Phase
    <3>5. got'[m] \ {"again"} = got'[m] /\ "again" \notin got'[m]
      BY <3>3
    <3>6. built'[m] = luas /\ served'[m] = LuasFor("luaserver") /\ UNCHANGED <<status, luas, announced>>
      BY <1>c, <3>1, <3>2 DEF Gives
    <3>7. enabled'[m]
      BY <1>c, <2>2 DEF Gives
    <3>8. got'[m] \ {"again"} = status' \cap Phase
      BY <3>3, <3>4, <3>5, <3>6
    <3>9. QED
      BY <1>2, <3>5, <3>6, <3>7, <3>8
  <2>3. QED
    BY <2>1, <2>2 DEF LateIsEarly
<1>5. Halfway'
  <2>1. ASSUME turn'[m] # "none"
        PROVE  /\ step' = "switch" /\ ~enabled'[m]
               /\ turn'[m] = "init" => got'[m] = {"pre"}
               /\ turn'[m] = "detour" => got'[m] = {"pre", "init"}
               /\ turn'[m] \in {"lua", "luaserver", "activate"} => got'[m] = {"pre", "init", "detour"}
               /\ turn'[m] \in {"init", "detour", "lua", "luaserver", "activate"}
               /\ built'[m] = IF turn'[m] \in {"luaserver", "activate"} THEN luas ELSE {}
               /\ served'[m] = IF turn'[m] = "activate" THEN LuasFor("luaserver") ELSE {}
    <3>0. step' = "switch" /\ ~enabled'[m] /\ turn'[m] = Order[turn[m]]
      BY <1>1, <1>c, <2>1 DEF Gives
    <3>1. CASE turn[m] = "pre"
      <4>1. got[m] = {} /\ built[m] = {} /\ served[m] = {}
        BY <3>1 DEF Kept, Halfway
      <4>2. turn'[m] = "init"
        BY <3>0, <3>1 DEF Order
      <4>3. got'[m] = {"pre"}
        BY <1>c, <3>1, <4>1 DEF Gives, Phase
      <4>4. built'[m] = {} /\ served'[m] = {}
        BY <1>c, <3>1, <4>1 DEF Gives
      <4>5. QED
        BY <3>0, <4>2, <4>3, <4>4
    <3>2. CASE turn[m] = "init"
      <4>1. got[m] = {"pre"} /\ built[m] = {} /\ served[m] = {}
        BY <3>2 DEF Kept, Halfway
      <4>2. turn'[m] = "detour"
        BY <3>0, <3>2 DEF Order
      <4>3. got'[m] = {"pre", "init"}
        BY <1>c, <3>2, <4>1 DEF Gives, Phase
      <4>4. built'[m] = {} /\ served'[m] = {}
        BY <1>c, <3>2, <4>1 DEF Gives
      <4>5. QED
        BY <3>0, <4>2, <4>3, <4>4
    <3>3. CASE turn[m] = "detour"
      <4>1. got[m] = {"pre", "init"} /\ built[m] = {} /\ served[m] = {}
        BY <3>3 DEF Kept, Halfway
      <4>2. turn'[m] = "lua"
        BY <3>0, <3>3 DEF Order
      <4>3. got'[m] = {"pre", "init", "detour"}
        BY <1>c, <3>3, <4>1 DEF Gives, Phase
      <4>4. built'[m] = {} /\ served'[m] = {}
        BY <1>c, <3>3, <4>1 DEF Gives
      <4>5. QED
        BY <3>0, <4>2, <4>3, <4>4
    <3>4. CASE turn[m] = "lua"
      <4>1. got[m] = {"pre", "init", "detour"} /\ built[m] = {} /\ served[m] = {}
        BY <3>4 DEF Kept, Halfway
      <4>2. turn'[m] = "luaserver"
        BY <3>0, <3>4 DEF Order
      <4>3. got'[m] = {"pre", "init", "detour"}
        BY <1>c, <3>4, <4>1 DEF Gives, Phase
      <4>4. built'[m] = luas /\ served'[m] = {}
        BY <1>c, <3>4, <4>1 DEF Gives
      <4>5. QED
        BY <3>0, <4>2, <4>3, <4>4
    <3>5. CASE turn[m] = "luaserver"
      <4>1. got[m] = {"pre", "init", "detour"} /\ built[m] = luas /\ served[m] = {}
        BY <3>5 DEF Kept, Halfway
      <4>2. turn'[m] = "activate"
        BY <3>0, <3>5 DEF Order
      <4>3. got'[m] = {"pre", "init", "detour"}
        BY <1>c, <3>5, <4>1 DEF Gives, Phase
      <4>4. built'[m] = luas /\ served'[m] = LuasFor("luaserver")
        BY <1>c, <3>5, <4>1 DEF Gives
      <4>5. QED
        BY <3>0, <4>2, <4>3, <4>4
    <3>6. CASE turn[m] = "activate"
      BY <1>c, <2>1, <3>6 DEF Gives, Order
    <3>7. QED
      BY <1>c, <3>1, <3>2, <3>3, <3>4, <3>5, <3>6 DEF Gives
  <2>2. \A n \in Module : turn'[n] # "none" => n = m
    BY <1>0, <1>c DEF Others
  <2>3. luas' = luas
    BY <1>c DEF Gives
  <2>4. QED
    BY <1>3, <2>1, <2>2, <2>3 DEF Halfway
<1>6. Progress'
  BY <1>1, <1>c DEF Gives, Kept, Progress, Loading, Loaded, lua
<1>7. QED
  BY <1>4, <1>5, <1>6 DEF Kept

LEMMA ConsoleKept ==
    ASSUME TypeOK, Kept, Console
    PROVE  Kept'
<1>1. ASSUME NEW m \in Module, SwitchOff(m) PROVE Kept'
  BY <1>1, DisableKept DEF SwitchOff, ConVarOff
<1>2. CASE Nuke
  BY <1>2, DisableKept DEF Nuke, NukeModules
<1>3. QED
  BY <1>1, <1>2, SwitchOnKept, SwitchCallKept DEF Console

LEMMA KeptAlways == Spec => []Kept
<1>1. Init => Kept
  BY DEF Init, ManagerInit, Kept, LateIsEarly, Halfway, Progress, Loading, Loaded, Phase
<1>2. TypeOK /\ Kept /\ [Next]_vars => Kept'
  <2>1. ASSUME TypeOK, Kept, Next PROVE Kept'
    BY <2>1, NextSplit, LoadKept, EngineKept, ConsoleKept
  <2>2. ASSUME Kept, UNCHANGED vars PROVE Kept'
    <3>1. LateIsEarly' /\ Progress'
      BY <2>2 DEF Kept, LateIsEarly, Progress, Loading, Loaded, vars, manager, switches, calls, lua
    <3>2. Halfway'
      BY <2>2 DEF Kept, Halfway, LuasFor, vars, manager, switches, calls
    <3>3. QED
      BY <3>1, <3>2 DEF Kept
  <2>3. QED
    BY <2>1, <2>2
<1>3. QED
  BY <1>1, <1>2, TypeCorrect, PTL DEF Spec

\* A module that is switched on late has every callback it would have had from
\* the start, and one that is switched off has nothing left.
THEOREM LateModulesMatch == Spec => []LateIsEarly
BY KeptAlways, PTL DEF Kept

-----------------------------------------------------------------------------
\* The order of the callbacks, step by step.

LEMMA NothingNew ==
    ASSUME step # "activate", UNCHANGED calls
    PROVE  \A m \in Module : InOrder(m)
BY DEF InOrder, New, calls

LEMMA AnnounceInOrder ==
    ASSUME TypeOK, Kept, step # "switch", NEW ph \in Phase, Announce(ph),
           ph = "pre" => step \in {"init", "pre"}, step = "init" => "pre" \notin status \/ ph = "init",
           ph = "init" => "pre" \in status,
           ph = "detour" => "init" \in status, ph = "activate" => "detour" \in status
    PROVE  \A m \in Module : InOrder(m)
<1>1. SUFFICES ASSUME NEW m \in Module PROVE InOrder(m)
  OBVIOUS
<1>2. UNCHANGED <<built, served>> /\ turn[m] = "none"
  BY NoTurns DEF Announce
<1>3. CASE enabled[m]
  <2>1. /\ got'[m] = got[m] \cup {Heard(m, ph)} /\ got[m] \ {"again"} = status \cap Phase
        /\ built[m] = luas /\ announced \subseteq served[m]
    BY <1>2, <1>3 DEF Announce, Kept, LateIsEarly
  <2>2. step = "activate" => gLua \in served[m] \cup {NoLua}
    BY <2>1 DEF Kept, Progress
  <2>3. ph \in {"pre", "init", "detour", "activate"} /\ New(m) \subseteq {Heard(m, ph)}
    BY <2>1 DEF New, Phase
  <2>4. CASE ph = "pre"
    BY <1>2, <2>1, <2>2, <2>3, <2>4 DEF InOrder, Heard, Phase
  <2>5. CASE ph # "pre"
    BY <1>2, <2>1, <2>2, <2>3, <2>5 DEF InOrder, Heard, Phase
  <2>6. QED
    BY <2>4, <2>5
<1>4. CASE ~enabled[m]
  BY <1>2, <1>4 DEF InOrder, New, Announce
<1>5. QED
  BY <1>3, <1>4

LEMMA BindLuaInOrder ==
    ASSUME TypeOK, Kept, Loaded, step \notin {"switch", "activate"}, NEW p \in Iface, BindLua(p)
    PROVE  \A m \in Module : InOrder(m)
<1>1. CASE LuaInit(p)
  <2>1. SUFFICES ASSUME NEW m \in Module PROVE InOrder(m)
    OBVIOUS
  <2>2. enabled[m] => "detour" \in got[m]
    BY NoTurns DEF Kept, LateIsEarly, Progress, Phase
  <2>3. QED
    BY <1>1, <2>2 DEF LuaInit, Give, InOrder, New, TypeOK, ManagerTypeOK
<1>2. CASE UNCHANGED manager
  BY <1>2, NothingNew DEF manager
<1>3. QED
  BY <1>1, <1>2 DEF BindLua

LEMMA StepInOrder ==
    ASSUME TypeOK, Kept, Next
    PROVE  \A m \in Module : InOrder(m)
<1>1. CASE Load
  BY <1>1, NothingNew DEF Load, manager
<1>2. CASE LoadMakesUp \/ LoadInit
  BY <1>2, AnnounceInOrder DEF LoadMakesUp, LoadInit, MakesUp, Phase
<1>3. CASE LoadPreDetour
  BY <1>3, AnnounceInOrder DEF LoadPreDetour, Phase
<1>4. CASE LoadDetour
  <2>1. "init" \in status
    BY <1>4 DEF LoadDetour, Kept, Progress
  <2>2. QED
    BY <1>4, <2>1, AnnounceInOrder DEF LoadDetour, Phase
<1>5. CASE ActivateModules
  <2>1. "detour" \in status
    BY <1>5 DEF ActivateModules, Kept, Progress, Loaded
  <2>2. QED
    BY <1>5, <2>1, AnnounceInOrder DEF ActivateModules, Phase
<1>6. CASE Unload
  BY <1>6 DEF Unload, Shutdown, Take, InOrder, New, TypeOK, ManagerTypeOK
<1>7. ASSUME NEW p \in Iface, CreateServerLua(p) PROVE \A m \in Module : InOrder(m)
  <2>1. CASE "InitLuaClasses" \in hooks
    <3>1. Loaded /\ step = "idle" /\ BindLua(p)
      BY <1>7, <2>1 DEF CreateServerLua, Loaded, Kept, Progress
    <3>2. QED
      BY <3>1, BindLuaInOrder
  <2>2. CASE "InitLuaClasses" \notin hooks
    BY <1>7, <2>2, NothingNew DEF CreateServerLua, manager
  <2>3. QED
    BY <2>1, <2>2
<1>8. ASSUME NEW p \in Iface, CreateForeignLua(p) PROVE \A m \in Module : InOrder(m)
  BY <1>8, NothingNew DEF CreateForeignLua, manager
<1>9. ASSUME NEW p \in Iface, CloseLua(p) PROVE \A m \in Module : InOrder(m)
  <2>1. CASE LuaShutdown(p)
    BY <1>9, <2>1 DEF CloseLua, LuaShutdown, Take, InOrder, New, TypeOK, ManagerTypeOK
  <2>2. CASE UNCHANGED manager
    BY <1>9, <2>2, NothingNew DEF CloseLua, manager
  <2>3. QED
    BY <1>9, <2>1, <2>2 DEF CloseLua
<1>10. CASE ServerActivate
  <2>1. CASE realm # NoLua
    BY <1>10, <2>1, BindLuaInOrder DEF ServerActivate, TypeOK, Loaded
  <2>2. CASE realm = NoLua
    BY <1>10, <2>2, NothingNew DEF ServerActivate, manager
  <2>3. QED
    BY <2>1, <2>2
<1>11. CASE ServerInit
  <2>1. CASE HasLua
    <3>1. SUFFICES ASSUME NEW m \in Module PROVE InOrder(m)
      OBVIOUS
    <3>2. LuaServerInit(gLua) /\ gLua \in luas /\ step = "serverinit"
      BY <1>11, <2>1 DEF ServerInit, HasLua, Kept, Progress
    <3>3. enabled[m] => built[m] = luas
      BY <3>2, NoTurns DEF Kept, LateIsEarly
    <3>4. QED
      BY <3>2, <3>3 DEF LuaServerInit, Give, InOrder, New, TypeOK, ManagerTypeOK
  <2>2. CASE ~HasLua
    BY <1>11, <2>2, NothingNew DEF ServerInit, manager
  <2>3. QED
    BY <2>1, <2>2
<1>12. CASE LevelShutdown
  BY <1>12, NothingNew DEF LevelShutdown, manager
<1>13. ASSUME NEW m \in Module, SwitchOn(m) PROVE \A n \in Module : InOrder(n)
  BY <1>13, NothingNew DEF SwitchOn, ConVarOn
<1>14. ASSUME NEW m \in Module, SwitchCall(m) PROVE \A n \in Module : InOrder(n)
  <2>0. step = "switch" /\ turn[m] # "none"
    BY <1>14 DEF SwitchCall
  <2>c. Gives(m) /\ Others(m)
    BY <1>14, CallGives
  <2>1. ASSUME NEW n \in Module \ {m} PROVE InOrder(n)
    <3>1. got'[n] = got[n] /\ built'[n] = built[n] /\ served'[n] = served[n]
      BY <2>c DEF Others
    <3>2. QED
      BY <2>0, <3>1 DEF InOrder, New
  <2>2. InOrder(m)
    <3>1. /\ turn[m] = "init" => got[m] = {"pre"}
          /\ turn[m] = "detour" => got[m] = {"pre", "init"}
          /\ turn[m] \in {"lua", "luaserver", "activate"} => got[m] = {"pre", "init", "detour"}
          /\ turn[m] \in {"luaserver", "activate"} => built[m] = luas
          /\ turn[m] = "activate" => served[m] = LuasFor("luaserver")
      BY <2>0 DEF Kept, Halfway
    <3>2. announced \subseteq LuasFor("luaserver") /\ LuasFor("luaserver") \subseteq luas
      BY <2>0 DEF LuasFor, Kept, Progress, Loaded
    <3>3. New(m) \subseteq {turn[m]} /\ "again" \notin New(m)
      BY <2>c DEF Gives, New, Phase
    <3>4. /\ built'[m] = IF turn[m] = "lua" THEN built[m] \cup luas ELSE built[m]
          /\ served'[m] = IF turn[m] = "luaserver" THEN served[m] \cup LuasFor("luaserver") ELSE served[m]
      BY <2>c DEF Gives
    <3>5. QED
      BY <2>0, <2>c, <3>1, <3>2, <3>3, <3>4 DEF InOrder, Gives
  <2>3. QED
    BY <2>1, <2>2
<1>15. ASSUME step = "idle", NEW S, Disable(S) PROVE \A n \in Module : InOrder(n)
  BY <1>15 DEF Disable, InOrder, New, TypeOK, ManagerTypeOK
<1>16. ASSUME NEW m \in Module, SwitchOff(m) PROVE \A n \in Module : InOrder(n)
  BY <1>15, <1>16 DEF SwitchOff, ConVarOff
<1>17. CASE Nuke
  BY <1>15, <1>17 DEF Nuke, NukeModules
<1>18. QED
  BY <1>1, <1>2, <1>3, <1>4, <1>5, <1>6, <1>7, <1>8, <1>9, <1>10, <1>11, <1>12, <1>13, <1>14, <1>16,
     <1>17 DEF Next

\* Each module gets its callbacks in the order imodule.h promises, call by call.
THEOREM CallbacksInOrder == Spec => CallOrder
<1>1. TypeOK /\ Kept /\ [Next]_vars => [\A m \in Module : InOrder(m)]_vars
  BY StepInOrder
<1>2. QED
  BY <1>1, TypeCorrect, KeptAlways, PTL DEF Spec, CallOrder

-----------------------------------------------------------------------------
\* The modules know the server's live interface, or none.
Confined == Realm /\ Bound /\ LuaCallsAreSafe

LEMMA BindLuaConfined ==
    ASSUME TypeOK, Bound, NEW p \in Iface, gLua # NoLua => gLua = p, BindLua(p),
           Disciplined, life'[p] = "live", gLua = p => life[p] = "live"
    PROVE  luas' \subseteq {gLua'} /\ gLua' = p /\ gLua' \in Usable'
<1>1. NoLua \notin Iface
  BY ForeignAssumption
<1>2. CASE gLua = NoLua
  BY <1>1, <1>2 DEF BindLua, LuaInit, Bound, Usable, TypeOK, ManagerTypeOK
<1>3. CASE gLua # NoLua
  BY <1>3 DEF BindLua, Bound, Usable, manager
<1>4. QED
  BY <1>2, <1>3

LEMMA LoadConfined ==
    ASSUME TypeOK, Kept, Confined, Loads \/ Unload, ~fault
    PROVE  Confined'
<1>1. UNCHANGED <<life, realm, gLua, links, luas, fault>>
  BY DEF Loads, Load, LoadMakesUp, LoadInit, LoadPreDetour, LoadDetour, Unload, Announce, Shutdown,
         manager, engine, lua
<1>2. Realm' /\ LuaCallsAreSafe'
  BY <1>1 DEF Confined, Realm, LuaCallsAreSafe
<1>3. Bound'
  <2>1. CASE Load
    BY <1>1, <2>1 DEF Load, Kept, Progress, Loading, Bound
  <2>2. CASE ~Load
    <3>1. hooks' = hooks \/ hooks' = {}
      BY <2>2 DEF Loads, LoadMakesUp, LoadInit, LoadPreDetour, LoadDetour, Unload, lua
    <3>2. Disciplined' => Disciplined
      BY <1>1, <3>1 DEF Disciplined, Detours
    <3>3. QED
      BY <1>1, <3>2 DEF Confined, Bound, Usable
  <2>3. QED
    BY <2>1, <2>2
<1>4. QED
  BY <1>2, <1>3 DEF Confined

LEMMA EngineConfined ==
    ASSUME TypeOK, Kept, Confined, Engine, ~fault
    PROVE  Confined'
<1>z. NoLua \notin Iface
  BY ForeignAssumption
<1>1. ASSUME NEW p \in Iface, CreateServerLua(p) PROVE Confined'
  <2>1. p \notin Foreign /\ life[p] = "none" /\ realm = NoLua /\ realm' = p
          /\ life' = [life EXCEPT ![p] = "live"] /\ UNCHANGED <<hooks, fault>>
    BY <1>1 DEF CreateServerLua
  <2>2. Realm' /\ LuaCallsAreSafe'
    BY <1>z, <2>1 DEF Confined, Realm, LuaCallsAreSafe, TypeOK
  <2>3. Disciplined' => Disciplined
    BY <2>1 DEF Disciplined, TypeOK
  <2>4. ASSUME Disciplined' PROVE luas' \subseteq {gLua'} /\ (gLua' # NoLua => gLua' = realm' /\ gLua' \in Usable')
    <3>1. gLua = NoLua /\ BindLua(p)
      BY <1>1, <1>z, <2>1, <2>3, <2>4 DEF CreateServerLua, Confined, Bound, Disciplined, Detours
    <3>2. life'[p] = "live"
      BY <2>1 DEF TypeOK
    <3>3. luas' \subseteq {gLua'} /\ gLua' = p /\ gLua' \in Usable'
      BY <1>z, <2>3, <2>4, <3>1, <3>2, BindLuaConfined DEF Confined
    <3>4. QED
      BY <2>1, <3>3
  <2>5. QED
    BY <2>2, <2>4 DEF Confined, Bound
<1>2. ASSUME NEW p \in Iface, CreateForeignLua(p) PROVE Confined'
  <2>1. p \in Foreign /\ life[p] = "none" /\ life' = [life EXCEPT ![p] = "live"]
          /\ UNCHANGED <<luas, hooks, gLua, links, realm, fault>>
    BY <1>2 DEF CreateForeignLua, manager, lua
  <2>2. Realm' /\ LuaCallsAreSafe'
    BY <2>1 DEF Confined, Realm, LuaCallsAreSafe, TypeOK, Disciplined
  <2>3. Bound'
    BY <2>1 DEF Confined, Bound, Disciplined, Usable, TypeOK
  <2>4. QED
    BY <2>2, <2>3 DEF Confined
<1>3. ASSUME NEW p \in Iface, CloseLua(p) PROVE Confined'
  <2>1. life[p] = "live" /\ life' = [life EXCEPT ![p] = "closed"] /\ hooks' = hooks
    BY <1>3 DEF CloseLua
  <2>2. Realm'
    BY <1>3, <1>z, <2>1 DEF CloseLua, Confined, Realm, TypeOK
  <2>3. ASSUME Disciplined' PROVE /\ luas' \subseteq {gLua'} /\ gLua' = NoLua /\ ~fault'
    <3>1. p \notin Foreign /\ Disciplined /\ "Shutdown" \in hooks
      BY <2>1, <2>3 DEF Disciplined, Detours, TypeOK
    <3>2. p = realm /\ gLua' = NoLua
      BY <1>3, <2>1, <3>1 DEF Confined, Realm, CloseLua, FinalShutdown
    <3>3. CASE p = gLua
      <4>1. LuaShutdown(p) /\ Hand(Active, {p})
        BY <1>3, <3>1, <3>3 DEF CloseLua, TellsModules
      <4>2. p \in Usable /\ luas \subseteq {p}
        BY <1>z, <3>1, <3>3 DEF Confined, Bound
      <4>3. QED
        BY <3>2, <4>1, <4>2 DEF LuaShutdown, RemoveLuaInterface, Hand
    <3>4. CASE p # gLua
      <4>1. luas' = luas /\ fault' = fault
        BY <1>3, <3>4 DEF CloseLua, TellsModules, manager
      <4>2. gLua = NoLua
        BY <3>1, <3>2, <3>4 DEF Confined, Bound
      <4>3. QED
        BY <3>1, <3>2, <4>1, <4>2 DEF Confined, Bound
    <3>5. QED
      BY <3>3, <3>4
  <2>4. QED
    BY <2>2, <2>3 DEF Confined, Bound, LuaCallsAreSafe
<1>4. CASE ServerActivate
  <2>1. UNCHANGED <<hooks, life, realm, fault>>
    BY <1>4 DEF ServerActivate
  <2>2. Realm' /\ LuaCallsAreSafe' /\ Disciplined' = Disciplined
    BY <2>1 DEF Confined, Realm, LuaCallsAreSafe, Disciplined
  <2>3. CASE realm = NoLua
    BY <1>4, <2>1, <2>2, <2>3 DEF ServerActivate, Confined, Bound, Usable, manager
  <2>4. CASE realm # NoLua
    <3>1. realm \in Iface /\ life'[realm] = "live" /\ life[realm] = "live" /\ BindLua(realm)
      BY <1>4, <2>1, <2>4 DEF ServerActivate, Confined, Realm
    <3>2. ASSUME Disciplined PROVE luas' \subseteq {gLua'} /\ gLua' = realm /\ gLua' \in Usable'
      <4>1. gLua # NoLua => gLua = realm
        BY <3>2 DEF Confined, Bound
      <4>2. QED
        BY <3>1, <3>2, <4>1, BindLuaConfined DEF Confined
    <3>3. QED
      BY <2>1, <2>2, <3>2 DEF Confined, Bound
  <2>5. QED
    BY <2>3, <2>4
<1>5. CASE ServerInit
  <2>1. UNCHANGED <<hooks, gLua, links, life, realm, fault>> /\ (luas' = luas \cup {gLua} \/ luas' = luas)
    BY <1>5 DEF ServerInit, LuaServerInit, manager, lua, engine
  <2>2. gLua # NoLua \/ luas' = luas
    BY <1>5 DEF ServerInit, HasLua, manager
  <2>3. QED
    BY <2>1, <2>2 DEF Confined, Realm, Bound, LuaCallsAreSafe, Disciplined, Usable
<1>6. CASE ActivateModules
  BY <1>6 DEF ActivateModules, Announce, Confined, Realm, Bound, LuaCallsAreSafe, Disciplined, Usable,
              lua, engine
<1>7. CASE LevelShutdown
  <2>1. UNCHANGED <<luas, hooks, life, realm, fault>>
    BY <1>7 DEF LevelShutdown, manager
  <2>2. ASSUME Disciplined PROVE UNCHANGED <<gLua, links>>
    BY <1>7, <2>2 DEF LevelShutdown, Confined, Bound
  <2>3. QED
    BY <2>1, <2>2 DEF Confined, Realm, Bound, LuaCallsAreSafe, Disciplined, Usable
<1>8. QED
  BY <1>1, <1>2, <1>3, <1>4, <1>5, <1>6, <1>7 DEF Engine

LEMMA ConsoleConfined ==
    ASSUME TypeOK, Kept, Confined, Console, ~fault
    PROVE  Confined'
<1>1. UNCHANGED <<luas, hooks, gLua, links, life, realm>>
  BY DEF Console, Nuke, SwitchOn, SwitchCall, SwitchOff, NukeModules, ConVarOn, ConVarOff, EnableCall, Disable,
         lua, engine
<1>2. PICK S \in SUBSET Module : Hand(S, LuasFor("lua"))
  <2>1. ASSUME NEW m \in Module, SwitchOn(m) PROVE Hand({}, LuasFor("lua"))
    BY <2>1 DEF SwitchOn, Hand, TypeOK
  <2>2. ASSUME NEW m \in Module, SwitchCall(m) \/ SwitchOff(m)
        PROVE  Hand({}, LuasFor("lua")) \/ Hand({m}, LuasFor("lua"))
    BY <2>2 DEF SwitchCall, SwitchOff
  <2>3. ASSUME Nuke PROVE Active \in SUBSET Module /\ Hand(Active, LuasFor("lua"))
    BY <2>3 DEF Active, Nuke
  <2>4. QED
    BY <2>1, <2>2, <2>3 DEF Console
<1>3. ASSUME Disciplined PROVE LuasFor("lua") \subseteq Usable
  BY <1>3, ForeignAssumption DEF LuasFor, Confined, Bound, TypeOK, ManagerTypeOK
<1>4. Disciplined' = Disciplined
  BY <1>1 DEF Disciplined
<1>5. LuaCallsAreSafe'
  BY <1>2, <1>3, <1>4 DEF Hand, LuaCallsAreSafe
<1>6. QED
  BY <1>1, <1>4, <1>5 DEF Confined, Realm, Bound, Usable

LEMMA ConfinedAlways == Spec => []Confined
<1>1. Init => Confined
  BY ForeignAssumption DEF Init, ManagerInit, Confined, Realm, Bound, LuaCallsAreSafe
<1>2. TypeOK /\ Kept /\ Confined /\ [Next]_vars => Confined'
  <2>1. ASSUME TypeOK, Kept, Confined, Next PROVE Confined'
    BY <2>1, NextSplit, LoadConfined, EngineConfined, ConsoleConfined
  <2>2. ASSUME Confined, UNCHANGED vars PROVE Confined'
    BY <2>2 DEF Confined, Realm, Bound, LuaCallsAreSafe, Disciplined, Usable, vars, manager, lua, engine
  <2>3. QED
    BY <2>1, <2>2
<1>3. QED
  BY <1>1, <1>2, TypeCorrect, KeptAlways, PTL DEF Spec

\* While both detours work and only the server's Lua states are closed, no
\* module is given a closed interface or one without its StateData.
THEOREM LuaCallsSafe == Spec => []LuaCallsAreSafe
BY ConfinedAlways, PTL DEF Confined

\* Under the same conditions every module has left a Lua state that closes.
THEOREM ClosedIsEmpty == Spec => []NothingInClosed
<1>1. Kept /\ Confined => NothingInClosed
  <2>1. SUFFICES ASSUME Kept, Confined, Disciplined, NEW p \in Iface, life[p] = "closed",
                        NEW m \in Module
                 PROVE  p \notin built[m]
    BY DEF NothingInClosed
  <2>2. built[m] \subseteq {gLua}
    <3>1. built[m] \subseteq luas
      BY <2>1 DEF Kept, LateIsEarly, Halfway
    <3>2. QED
      BY <2>1, <3>1 DEF Confined, Bound
  <2>3. gLua # p
    BY <2>1, ForeignAssumption DEF Confined, Bound, Usable
  <2>4. QED
    BY <2>2, <2>3
<1>2. QED
  BY <1>1, KeptAlways, ConfinedAlways, PTL
=============================================================================
