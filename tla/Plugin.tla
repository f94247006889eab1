------------------------------- MODULE Plugin -------------------------------
(***************************************************************************)
(* The life of the plugin: CServerPlugin of src/source/plugin.cpp and the  *)
(* Lua bookkeeping of src/source/lua.cpp on top of ModuleManager.          *)
(*                                                                         *)
(* The engine creates and closes Lua states, activates and shuts down      *)
(* levels; the plugin learns of it through its callbacks and through the   *)
(* two detours of Lua::AddDetour.  A symbol that is not found leaves its   *)
(* detour out.  Everything runs on the main thread, so a callback that     *)
(* makes several calls to the manager runs through "step" undisturbed.     *)
(*                                                                         *)
(* A module that is given an interface that is closed, or that has no      *)
(* StateData, uses a dangling or a NULL pointer: the step records it in    *)
(* the history variable "fault" and the behaviour ends there.              *)
(***************************************************************************)
EXTENDS ModuleManager

CONSTANTS
    Foreign,  \* the interfaces that are not the server's: client, menu
    NoLua     \* NULL

ASSUME ForeignAssumption == Foreign \subseteq Iface /\ NoLua \notin Iface

VARIABLES
    step,     \* where the running plugin callback is
    hooks,    \* the detours of Lua::AddDetour that are in place
    gLua,     \* g_Lua
    links,    \* keys of g_pLuaStateLinks: the interfaces with a StateData
    life,     \* external: what has become of each Lua interface
    realm,    \* external: ILuaShared::GetLuaInterface(SERVER)
    ready,    \* external: the current level has been activated
    fault     \* history: a module was given an unusable interface

lua    == <<hooks, gLua, links>>
engine == <<life, realm, ready>>
vars   == <<manager, step, lua, engine, fault>>

Detours == {"InitLuaClasses", "Shutdown"}
Steps   == {"unloaded", "init", "pre", "detour", "idle", "serverinit", "activate", "switch",
            "gone"}

TypeOK ==
    /\ ManagerTypeOK
    /\ step \in Steps
    /\ hooks \subseteq Detours
    /\ gLua \in Iface \cup {NoLua}
    /\ links \subseteq Iface
    /\ life \in [Iface -> {"none", "live", "closed"}]
    /\ realm \in Iface \cup {NoLua}
    /\ ready \in BOOLEAN
    /\ fault \in BOOLEAN

Init ==
    /\ ManagerInit
    /\ step = "unloaded"
    /\ hooks = {} /\ gLua = NoLua /\ links = {}
    /\ life = [p \in Iface |-> "none"] /\ realm = NoLua /\ ready = FALSE
    /\ fault = FALSE

Usable == {p \in Iface : life[p] = "live" /\ p \in links}

\* The interfaces of P are handed to the modules of S.
Hand(S, P) == fault' = (fault \/ (S # {} /\ ~(P \subseteq Usable)))

-----------------------------------------------------------------------------
(* CServerPlugin::Load: Lua::AddDetour, Init, which makes InitDetour(true) *)
(* by itself, and then InitDetour(true) and InitDetour(false).             *)

Load ==
    /\ step = "unloaded"
    /\ step' = "init"
    /\ hooks' \in SUBSET Detours
    /\ UNCHANGED <<manager, gLua, links, engine, fault>>

LoadMakesUp ==
    /\ step = "init" /\ MakesUp
    /\ Announce("pre")
    /\ UNCHANGED <<step, lua, engine, fault>>

LoadInit ==
    /\ step = "init" /\ ~MakesUp
    /\ step' = "pre"
    /\ Announce("init")
    /\ UNCHANGED <<lua, engine, fault>>

LoadPreDetour ==
    /\ step = "pre"
    /\ step' = "detour"
    /\ Announce("pre")
    /\ UNCHANGED <<lua, engine, fault>>

LoadDetour ==
    /\ step = "detour"
    /\ step' = "idle"
    /\ Announce("detour")
    /\ UNCHANGED <<lua, engine, fault>>

\* Unload.  The library goes away with its ConVars, whatever Lua still holds.
Unload ==
    /\ step = "idle"
    /\ step' = "gone"
    /\ Shutdown
    /\ hooks' = {}
    /\ UNCHANGED <<gLua, links, engine, fault>>

-----------------------------------------------------------------------------
(* Lua states come and go.  lua.cpp runs inside the two detours.           *)

\* Lua::Init: skipped while an interface is already known.
BindLua(p) ==
    IF gLua = NoLua
    THEN gLua' = p /\ links' = links \cup {p} /\ LuaInit(p)
    ELSE UNCHANGED <<manager, gLua, links>>

\* The game creates the server's Lua state and calls InitLuaClasses.
CreateServerLua(p) ==
    /\ step \in {"unloaded", "idle"}
    /\ p \notin Foreign /\ life[p] = "none" /\ realm = NoLua
    /\ life' = [life EXCEPT ![p] = "live"]
    /\ realm' = p
    /\ IF "InitLuaClasses" \in hooks THEN BindLua(p) ELSE UNCHANGED <<manager, gLua, links>>
    /\ UNCHANGED <<step, hooks, ready, fault>>

\* Another part of the game creates one.
CreateForeignLua(p) ==
    /\ step \in {"unloaded", "idle"}
    /\ p \in Foreign /\ life[p] = "none"
    /\ life' = [life EXCEPT ![p] = "live"]
    /\ UNCHANGED <<manager, step, lua, realm, ready, fault>>

\* Lua::FinalShutdown.
FinalShutdown == gLua' = NoLua /\ links' = links \ {gLua}

\* Mutant: the hook leaves the modules alone.
TellsModules_Never(p) == FALSE

\* hook_CLuaInterface_Shutdown runs Lua::Shutdown for this interface.
TellsModules(p) == p = gLua

\* CLuaInterface::Shutdown of any interface.  FinalShutdown follows for each.
CloseLua(p) ==
    /\ step \in {"unloaded", "idle"}
    /\ life[p] = "live"
    /\ life' = [life EXCEPT ![p] = "closed"]
    /\ IF p = realm THEN realm' = NoLua /\ ready' = FALSE ELSE UNCHANGED <<realm, ready>>
    /\ IF "Shutdown" \in hooks THEN FinalShutdown ELSE UNCHANGED <<gLua, links>>
    /\ IF "Shutdown" \in hooks /\ TellsModules(p)
       THEN LuaShutdown(p) /\ Hand(Active, {p})
       ELSE UNCHANGED <<manager, fault>>
    /\ UNCHANGED <<step, hooks>>

-----------------------------------------------------------------------------
(* Levels.  CServerPlugin::ServerActivate and LevelShutdown.               *)

\* ServerActivate binds the server's interface if the detour did not.
ServerActivate ==
    /\ step = "idle"
    /\ step' = "serverinit"
    /\ ready' = TRUE
    /\ IF realm # NoLua THEN BindLua(realm) ELSE UNCHANGED <<manager, gLua, links>>
    /\ UNCHANGED <<hooks, life, realm, fault>>

HasLua == gLua # NoLua

\* Lua::ServerInit.  On LuaInit(pLua, true) the modules return at once.
ServerInit ==
    /\ step = "serverinit"
    /\ step' = "activate"
    /\ IF HasLua THEN LuaServerInit(gLua) ELSE UNCHANGED manager
    /\ UNCHANGED <<lua, engine, fault>>

ActivateModules ==
    /\ step = "activate"
    /\ step' = "idle"
    /\ Announce("activate")
    /\ UNCHANGED <<lua, engine, fault>>

\* The engine calls it several times per map change, before and after the
\* Lua state is closed.  The fallback forgets g_Lua and nothing else.
LevelShutdown ==
    /\ step = "idle"
    /\ ready' = FALSE
    /\ IF realm = NoLua /\ gLua # NoLua THEN FinalShutdown ELSE UNCHANGED <<gLua, links>>
    /\ UNCHANGED <<manager, step, hooks, life, realm, fault>>

-----------------------------------------------------------------------------
(* The console.                                                            *)

\* SetEnabled(true) begins.  It makes its calls undisturbed.
SwitchOn(m) ==
    /\ step = "idle"
    /\ ConVarOn(m)
    /\ step' = IF Changes(m, TRUE) THEN "switch" ELSE step
    /\ UNCHANGED <<lua, engine, fault>>

\* On LuaInit(pLua, true) the module returns at once here, too.
SwitchCall(m) ==
    /\ step = "switch" /\ turn[m] # "none"
    /\ EnableCall(m)
    /\ step' = IF turn'[m] = "none" THEN "idle" ELSE step
    /\ Hand(IF turn[m] = "lua" THEN {m} ELSE {}, LuasFor("lua"))
    /\ UNCHANGED <<lua, engine>>

SwitchOff(m) ==
    /\ step = "idle"
    /\ ConVarOff(m)
    /\ Hand(IF enabled[m] THEN {m} ELSE {}, LuasFor("lua"))
    /\ UNCHANGED <<step, lua, engine>>

Nuke ==
    /\ step = "idle"
    /\ NukeModules
    /\ Hand(Active, LuasFor("lua"))
    /\ UNCHANGED <<step, lua, engine>>

-----------------------------------------------------------------------------
Next ==
    /\ ~fault
    /\ \/ Load \/ LoadMakesUp \/ LoadInit \/ LoadPreDetour \/ LoadDetour \/ Unload
       \/ \E p \in Iface : CreateServerLua(p) \/ CreateForeignLua(p) \/ CloseLua(p)
       \/ ServerActivate \/ ServerInit \/ ActivateModules \/ LevelShutdown
       \/ \E m \in Module : SwitchOn(m) \/ SwitchCall(m) \/ SwitchOff(m)
       \/ Nuke

Spec == Init /\ [][Next]_vars

-----------------------------------------------------------------------------
(* The invariant that PluginProofs shows to be inductive.                  *)

Loading == step \in {"unloaded", "init", "pre", "detour"}
Loaded  == step \in {"idle", "serverinit", "activate", "switch"}

\* How far the plugin is, what m_pStatus says of it, and g_Lua among the
\* interfaces the modules know.
Progress ==
    /\ step \in {"unloaded", "gone"} => hooks = {}
    /\ Loading => luas = {} /\ gLua = NoLua
    /\ step = "unloaded" => status = {}
    /\ step = "init" => status \subseteq {"pre"}
    /\ step \in {"pre", "detour"} => status = {"pre", "init"}
    /\ Loaded => /\ {"pre", "init", "detour"} \subseteq status
                 /\ "luaserver" \in status => "lua" \in status
                 /\ luas # {} => "lua" \in status
                 /\ announced # {} => "luaserver" \in status
    /\ step = "activate" => gLua \in announced \cup {NoLua}
    /\ gLua # NoLua => gLua \in luas
    /\ announced \subseteq luas

\* Where a module stands that is being switched on: one at a time.
Halfway ==
    \A m \in Module : turn[m] # "none" =>
        /\ step = "switch" /\ ~enabled[m]
        /\ \A n \in Module \ {m} : turn[n] = "none"
        /\ got[m] = CASE turn[m] = "pre"    -> {}
                     [] turn[m] = "init"   -> {"pre"}
                     [] turn[m] = "detour" -> {"pre", "init"}
                     [] OTHER              -> {"pre", "init", "detour"}
        /\ built[m] = IF turn[m] \in {"luaserver", "activate"} THEN luas ELSE {}
        /\ served[m] = IF turn[m] = "activate" THEN LuasFor("luaserver") ELSE {}

\* The engine has one Lua state for the server at a time.
Realm ==
    /\ realm # NoLua => realm \in Iface \ Foreign /\ life[realm] = "live"
    /\ \A p \in Iface \ Foreign : life[p] = "live" => p = realm

-----------------------------------------------------------------------------
(* Properties.                                                             *)

\* The Lua bookkeeping has what it needs: both detours are in place, and only
\* the server's interfaces have been closed so far.
Disciplined == hooks = Detours /\ \A p \in Foreign : life[p] # "closed"

\* While it has, the modules know one interface at most: the server's.
Bound ==
    Disciplined => /\ luas \subseteq {gLua}
                   /\ gLua # NoLua => gLua = realm /\ gLua \in Usable

\* Every interface SetEnabled and LuaShutdown give to a module is alive and
\* has its StateData, across map changes and switches at any time.
LuaCallsAreSafe == Disciplined => ~fault

\* No Lua state is closed while a module still has its table and userdata in
\* it: hook_CLuaInterface_Shutdown comes first, also for a module that was
\* switched on in the middle of a level.
NothingInClosed ==
    Disciplined => \A p \in Iface : life[p] = "closed" => \A m \in Module : p \notin built[m]

New(m) == got'[m] \ got[m]

\* What a step may newly call a module with, and after what.
InOrder(m) ==
    /\ "init" \in New(m) => "pre" \in got[m]
    /\ "detour" \in New(m) => "init" \in got[m]
    /\ built'[m] \subseteq built[m] \/ "detour" \in got[m]
    /\ served'[m] \subseteq served[m] \cup built[m]
    /\ "activate" \in New(m) => /\ "detour" \in got[m] /\ built[m] = luas
                                /\ announced \subseteq served[m]
    /\ step = "activate" /\ enabled[m] => gLua \in served[m] \cup {NoLua}
    /\ "again" \in New(m) => step = "pre"

\* The order of the callbacks that imodule.h promises: InitDetour(true), Init,
\* InitDetour(false), LuaInit(false), LuaInit(true), ServerActivate, by whatever
\* mix of Load, the calls of SetEnabled, map changes and detours they come, and
\* on every level.  InitDetour(true) comes after Init only where Load repeats it.
CallOrder == [][\A m \in Module : InOrder(m)]_vars

\* "g_Lua is bad at this point / the lua_State is already gone" (lua.cpp, when
\* FinalShutdown forgets g_Lua).
ForgetsDeadLua == [][gLua # NoLua /\ gLua' = NoLua => life'[gLua] = "closed"]_vars
=============================================================================
