--------------------------- MODULE ModuleManager ---------------------------
(***************************************************************************)
(* CModuleManager and CModule of src/source/module.cpp: the registered     *)
(* modules, how far loading has come (m_pStatus), the Lua interfaces that  *)
(* were announced, and the callbacks every module has received.            *)
(*                                                                         *)
(* Everything here runs on the main thread.  An operator with primes is    *)
(* one call of the manager; Plugin says who makes these calls, and when.   *)
(*                                                                         *)
(* Compatibility is left out: every caller of SetEnabled passes bForced,   *)
(* so an incompatible module only draws a warning.  All modules inherit    *)
(* SupportsMultipleLuaStates() == true.                                    *)
(***************************************************************************)
EXTENDS Naturals, FiniteSets

CONSTANTS
    Module,   \* the registered modules
    Iface     \* Lua interfaces, one per lua_State of the process

ASSUME ModuleAssumption == Module # {}

VARIABLES
    enabled,  \* CModule::m_bEnabled
    convar,   \* the value of holytest_enable_<module>
    status,   \* the LoadStatus bits of m_pStatus
    luas,     \* m_pLuaInterfaces
    turn,     \* SetEnabled(true) of a module: the call that is next
    got,      \* callbacks a module received since its last Shutdown
    built,    \* interfaces a module got LuaInit(false) for, and no LuaShutdown
    served,   \* the same for LuaInit(true)
    announced \* history: the interfaces LuaInit(true) was called for

switches == <<enabled, convar>>
calls    == <<got, built, served>>
manager  == <<switches, status, luas, turn, calls, announced>>

Phase    == {"pre", "init", "detour", "activate"}  \* InitDetour(true), Init, ...
Callback == Phase \cup {"again"}                   \* InitDetour(true) once more
Status   == Phase \cup {"lua", "luaserver"}

ManagerTypeOK ==
    /\ enabled \in [Module -> BOOLEAN]
    /\ convar \in [Module -> BOOLEAN]
    /\ status \subseteq Status
    /\ luas \subseteq Iface
    /\ turn \in [Module -> Status \cup {"none"}]
    /\ got \in [Module -> SUBSET Callback]
    /\ built \in [Module -> SUBSET Iface]
    /\ served \in [Module -> SUBSET Iface]
    /\ announced \subseteq Iface

\* RegisterModule for all modules: the command line, the default and the
\* platform can make any of them start enabled.
ManagerInit ==
    /\ enabled \in [Module -> BOOLEAN]
    /\ convar = enabled
    /\ status = {} /\ luas = {}
    /\ turn = [m \in Module |-> "none"]
    /\ got = [m \in Module |-> {}]
    /\ built = [m \in Module |-> {}]
    /\ served = [m \in Module |-> {}]
    /\ announced = {}

Active == {m \in Module : enabled[m]}

\* f with the members of S added, or removed, for each enabled module.
Give(f, S) == [m \in Module |-> IF enabled[m] THEN f[m] \cup S ELSE f[m]]
Take(f, S) == [m \in Module |-> IF enabled[m] THEN f[m] \ S ELSE f[m]]

-----------------------------------------------------------------------------
(* The calls that go to every enabled module.                              *)

\* The callback as the module gets it: Load makes InitDetour(true) twice.
Heard(m, phase) == IF phase = "pre" /\ "pre" \in got[m] THEN "again" ELSE phase

\* InitDetour, Init and ServerActivate: set the bit, call the modules.
Announce(phase) ==
    /\ status' = status \cup {phase}
    /\ got' = [m \in Module |-> IF enabled[m] THEN got[m] \cup {Heard(m, phase)} ELSE got[m]]
    /\ UNCHANGED <<switches, luas, turn, built, served, announced>>

\* Init makes up for an InitDetour(true) nobody called.
MakesUp == "pre" \notin status

\* LuaInit(pLua, false).
LuaInit(p) ==
    /\ status' = status \cup {"lua"}
    /\ luas' = luas \cup {p}
    /\ built' = Give(built, {p})
    /\ UNCHANGED <<switches, turn, got, served, announced>>

\* LuaInit(pLua, true).
LuaServerInit(p) ==
    /\ status' = status \cup {"luaserver"}
    /\ luas' = luas \cup {p}
    /\ served' = Give(served, {p})
    /\ announced' = announced \cup {p}
    /\ UNCHANGED <<switches, turn, got, built>>

\* Mutant: the interface stays in m_pLuaInterfaces.
RemoveLuaInterface_Not(p) == luas

RemoveLuaInterface(p) == luas \ {p}

\* LuaShutdown(pLua).  The LuaInit bits of m_pStatus stay set.
LuaShutdown(p) ==
    /\ luas' = RemoveLuaInterface(p)
    /\ built' = Take(built, {p})
    /\ served' = Take(served, {p})
    /\ announced' = announced \ {p}
    /\ UNCHANGED <<switches, status, turn, got>>

\* Shutdown.  The modules stay enabled, and get no LuaShutdown.
Shutdown ==
    /\ status' = {}
    /\ got' = Take(got, Callback)
    /\ UNCHANGED <<switches, luas, turn, built, served, announced>>

-----------------------------------------------------------------------------
(* CModule::SetEnabled.                                                    *)

\* The interfaces SetEnabled goes through when the bit is set.
LuasFor(bit) == IF bit \in status THEN luas ELSE {}

\* Does the change of module m from on to off, or back, make the calls?
Changes(m, on) == enabled[m] # on

\* Mutant: the module gets its tables before its detours.
Order_LuaFirst == [pre |-> "init", init |-> "lua", lua |-> "detour", detour |-> "luaserver",
                   luaserver |-> "activate", activate |-> "none"]

\* Mutant: LuaInit(true) is left out.
Order_NoServerInit == [pre |-> "init", init |-> "detour", detour |-> "lua", lua |-> "activate",
                       luaserver |-> "activate", activate |-> "none"]

\* The call that comes after each one.
Order == [pre |-> "init", init |-> "detour", detour |-> "lua", lua |-> "luaserver",
          luaserver |-> "activate", activate |-> "none"]

Enable(m) == turn' = [turn EXCEPT ![m] = IF Changes(m, TRUE) THEN "pre" ELSE @]

\* One call, if the manager has come to it.  m_bEnabled is set after the last.
EnableCall(m) ==
    LET call == turn[m] IN
    /\ turn' = [turn EXCEPT ![m] = Order[call]]
    /\ got' = [got EXCEPT ![m] = @ \cup (status \cap Phase \cap {call})]
    /\ built' = [built EXCEPT ![m] = IF call = "lua" THEN @ \cup LuasFor(call) ELSE @]
    /\ served' = [served EXCEPT ![m] = IF call = "luaserver" THEN @ \cup LuasFor(call) ELSE @]
    /\ enabled' = [enabled EXCEPT ![m] = Order[call] = "none"]
    /\ UNCHANGED <<convar, status, luas, announced>>

\* The enabled modules of S: LuaShutdown for each interface, then
\* CModule::Shutdown, which drops the module's detours as well.
Disable(S) ==
    LET off == {m \in S : Changes(m, FALSE)} IN
    /\ enabled' = [m \in Module |-> enabled[m] /\ m \notin S]
    /\ got' = [m \in Module |-> IF m \in off /\ "init" \in status THEN {} ELSE got[m]]
    /\ built' = [m \in Module |-> IF m \in off THEN built[m] \ LuasFor("lua") ELSE built[m]]
    /\ served' = [m \in Module |-> IF m \in off THEN served[m] \ LuasFor("lua") ELSE served[m]]
    /\ UNCHANGED <<status, luas, turn, announced>>

\* OnModuleConVarChange: the engine calls it when the value changes.
ConVarOn(m) ==
    /\ ~convar[m]
    /\ convar' = [convar EXCEPT ![m] = TRUE]
    /\ Enable(m)
    /\ UNCHANGED <<enabled, status, luas, calls, announced>>

ConVarOff(m) ==
    /\ convar[m]
    /\ convar' = [convar EXCEPT ![m] = FALSE]
    /\ Disable({m})

\* holytest_nukemodules.  The ConVars keep their values.
NukeModules ==
    /\ Disable(Module)
    /\ UNCHANGED convar

-----------------------------------------------------------------------------
\* "I want every module to be able to be disabled/enabled properly": whenever
\* a module was switched on, and however often, it has received every phase, Lua
\* interface and LuaInit(true) that was announced, ServerActivate among them; a
\* module that was on from the start has received no others, a later one may have
\* LuaInit(true) for an interface still to be announced so; a module that is off
\* has nothing left.
LateIsEarly ==
    \A m \in Module : turn[m] = "none" =>
        IF enabled[m]
        THEN /\ got[m] \ {"again"} = status \cap Phase
             /\ built[m] = luas
             /\ announced \subseteq served[m] /\ served[m] \subseteq luas
             /\ "again" \in got[m] => served[m] = announced
        ELSE got[m] = {} /\ built[m] = {} /\ served[m] = {}
=============================================================================
