------------------------------ MODULE UserData ------------------------------
(***************************************************************************)
(* Lua userdata of src/source/util.h: how a C++ object is given to Lua,    *)
(* and who frees what.  Four kinds of things refer to each other:          *)
(*                                                                         *)
(*   object        a C++ object on the heap, at an address                 *)
(*   BaseUserData  one per address that is known to Lua, kept by           *)
(*                 g_pGlobalLuaUserData and freed with its last reference  *)
(*   LuaUserData   made by Push, refers to a BaseUserData                  *)
(*   value         what the script holds: a pointer to a LuaUserData       *)
(*                                                                         *)
(* An object of class "buffer" (bf_read, bf_write) or "channel"            *)
(* (IGModAudioChannel) belongs to its value: the garbage collector frees   *)
(* both.  One of class "held" (HttpRequest, HttpResponse, HttpServer)      *)
(* belongs to the library, and its LuaUserData holds a reference to its    *)
(* own value.                                                              *)
(*                                                                         *)
(* One Lua state after the other, with the detour of CLuaInterface's       *)
(* Shutdown in place, and HOLYLIB_BUILD_RELEASE undefined, as nothing in   *)
(* the repository defines it.  A use of freed memory is recorded in        *)
(* "fault" and ends the behaviour.  ForceGlobalRelease has no caller.      *)
(***************************************************************************)
EXTENDS Naturals, FiniteSets

CONSTANTS
    Addr,   \* addresses of the heap
    UD,     \* LuaUserData structures; each is allocated once
    NoData  \* the BaseUserData of a LuaUserData that was never made

Class == {"buffer", "channel", "held"}

ASSUME UDAssumption     == IsFiniteSet(UD)
ASSUME NoDataAssumption == NoData \notin Addr

VARIABLES
    heap,   \* the class of the object at an address, or "free"
    base,   \* m_iReferenceCount of the BaseUserData for an address; 0: none
    ud,     \* each LuaUserData: not yet allocated, live or freed
    data,   \* the address its pBaseData stands for
    class,  \* its metatable
    self,   \* iReference # -1: it holds a reference to its value
    value,  \* its value: none (any more), the pointer to it, or set to NULL
    state,  \* the Lua state
    fault   \* history: freed memory was used

vars == <<heap, base, ud, data, class, self, value, state, fault>>

TypeOK ==
    /\ heap \in [Addr -> Class \cup {"free"}]
    /\ base \in [Addr -> Nat]
    /\ ud \in [UD -> {"new", "live", "freed"}]
    /\ data \in [UD -> Addr \cup {NoData}]
    /\ class \in [UD -> Class]
    /\ self \in [UD -> BOOLEAN]
    /\ value \in [UD -> {"none", "pointer", "null"}]
    /\ state \in {"closed", "open", "closing"}
    /\ fault \in BOOLEAN

Init ==
    /\ heap = [a \in Addr |-> "free"]
    /\ base = [a \in Addr |-> 0]
    /\ ud = [u \in UD |-> "new"]
    /\ data = [u \in UD |-> NoData]
    /\ class = [u \in UD |-> "held"]
    /\ self = [u \in UD |-> FALSE]
    /\ value = [u \in UD |-> "none"]
    /\ state = "closed"
    /\ fault = FALSE

-----------------------------------------------------------------------------
(* LuaUserData and BaseUserData.                                           *)

\* The LuaUserData that refer to the BaseUserData of an address.
Referring(a) == {u \in UD : ud[u] = "live" /\ data[u] = a}

\* Mutant: a BaseUserData that is found is not acquired.
LuaAquire_Found(a) == IF base[a] > 0 THEN base ELSE [base EXCEPT ![a] = 1]

\* BaseUserData::LuaAquire: whatever is known under that address is shared.
LuaAquire(a) == [base EXCEPT ![a] = @ + 1]

\* A new LuaUserData and its value.
NewUserData(u, a, c) ==
    /\ ud[u] = "new"
    /\ ud' = [ud EXCEPT ![u] = "live"]
    /\ data' = [data EXCEPT ![u] = a]
    /\ class' = [class EXCEPT ![u] = c]
    /\ self' = [self EXCEPT ![u] = (c = "held")]
    /\ value' = [value EXCEPT ![u] = "pointer"]
    /\ base' = LuaAquire(a)

\* Mutant: ~LuaUserData leaves its value alone.
Cleared_None(S) == value

\* The values that ~LuaUserData sets to NULL: it reaches its value through
\* its own reference only.
Cleared(S) == [u \in UD |-> IF u \in S /\ self[u] THEN "null" ELSE value[u]]

\* LuaUserData::Release, or delete, of those in S.
Release(S) ==
    /\ ud' = [u \in UD |-> IF u \in S THEN "freed" ELSE ud[u]]
    /\ self' = [u \in UD |-> self[u] /\ u \notin S]
    /\ base' = [a \in Addr |-> base[a] - Cardinality(S \cap Referring(a))]
    /\ UNCHANGED <<data, class>>

-----------------------------------------------------------------------------
(* Push_LuaClass: the value owns the object.                               *)

\* bitbuf.CreateReadBuffer, bass.PlayFile and the like: a new object, pushed at
\* once.  Its address is any free one, also that of an object which is gone and
\* to which LuaUserData still refer.
Create(c, a, u) ==
    /\ state = "open"
    /\ c # "held" /\ heap[a] = "free"
    /\ heap' = [heap EXCEPT ![a] = c]
    /\ NewUserData(u, a, c)
    /\ UNCHANGED <<state, fault>>

\* Mutant: Release looks at the count before it decrements it.
LastReference_Before(u) == base[data[u]] = 0

\* Release says that it was the last reference.
LastReference(u) == base[data[u]] = 1

\* The __gc function of a value whose pointer is valid: Release, and with
\* the last reference the object goes as well.
Finalize(u) ==
    /\ ud[u] = "live"
    /\ Release({u})
    /\ IF LastReference(u)
       THEN /\ heap' = [heap EXCEPT ![data[u]] = "free"]
            /\ fault' = (heap[data[u]] # class[u])
       ELSE UNCHANGED <<heap, fault>>

\* The garbage collector takes a value nobody refers to, at the latest when
\* the state is closed.
Collect(u) ==
    /\ state # "closed"
    /\ ~self[u] /\ value[u] # "none"
    /\ value' = [value EXCEPT ![u] = "none"]
    /\ UNCHANGED state
    /\ \/ value[u] = "pointer" /\ Finalize(u)
       \/ /\ value[u] = "pointer" /\ ud[u] = "freed"
          /\ fault' = TRUE
          /\ UNCHANGED <<heap, base, ud, data, class, self>>
       \/ /\ value[u] = "null"
          /\ UNCHANGED <<heap, base, ud, data, class, self, fault>>

\* IGModAudioChannel:Destroy lets the engine free the channel, releases the
\* LuaUserData and leaves the pointer in the value.
DestroyChannel(u) ==
    /\ state = "open"
    /\ value[u] = "pointer" /\ class[u] = "channel"
    /\ IF ud[u] = "live"
       THEN /\ heap' = [heap EXCEPT ![data[u]] = "free"]
            /\ Release({u})
            /\ value' = Cleared({u})
            /\ UNCHANGED fault
       ELSE /\ fault' = TRUE
            /\ UNCHANGED <<heap, base, ud, data, class, self, value>>
    /\ UNCHANGED state

-----------------------------------------------------------------------------
(* PushReferenced_LuaClass: the object is the library's.                   *)

\* The entries of pPushedUserData.  Push, Delete and DeleteAll each work on a
\* copy of it ("auto pushedUserData"), so that nothing ever enters the map.
PushedUserData == {}

\* new HttpRequest, HttpServer or PreparedHttpResponse.
Make(a) ==
    /\ state = "open"
    /\ heap[a] = "free"
    /\ heap' = [heap EXCEPT ![a] = "held"]
    /\ UNCHANGED <<base, ud, data, class, self, value, state, fault>>

\* Push: an object that is pushed again gets a second LuaUserData.
Push(a, u) ==
    /\ state = "open"
    /\ heap[a] = "held"
    /\ PushedUserData \cap Referring(a) = {}
    /\ NewUserData(u, a, "held")
    /\ UNCHANGED <<heap, state, fault>>

\* Delete, and the library frees the object.  MarkHandled only does the former.
Delete(a) ==
    /\ state = "open"
    /\ heap[a] = "held"
    /\ heap' = [heap EXCEPT ![a] = "free"]
    /\ Release(PushedUserData \cap Referring(a))
    /\ value' = Cleared(PushedUserData \cap Referring(a))
    /\ UNCHANGED <<state, fault>>

-----------------------------------------------------------------------------
(* The Lua state.                                                          *)

Open ==
    /\ state = "closed"
    /\ state' = "open"
    /\ UNCHANGED <<heap, base, ud, data, class, self, value, fault>>

\* Mutant: what the release build does, without the loop in Lua::Shutdown.
Discarded_None == {}

\* The LuaUserData that Lua::Shutdown deletes because DeleteAll did not.
Discarded == {u \in UD : ud[u] = "live" /\ self[u]} \ PushedUserData

\* LuaShutdown of the modules, where DeleteAll comes first and some of the
\* objects are freed, the HttpServers; then the loop of Lua::Shutdown.
Shutdown(Servers) ==
    /\ state = "open"
    /\ state' = "closing"
    /\ heap' = [a \in Addr |-> IF a \in Servers THEN "free" ELSE heap[a]]
    /\ Release(PushedUserData \cup Discarded)
    /\ value' = Cleared(PushedUserData \cup Discarded)
    /\ UNCHANGED fault

\* lua_close is through: every value has been collected.
Close ==
    /\ state = "closing"
    /\ \A u \in UD : self[u] \/ value[u] = "none"
    /\ state' = "closed"
    /\ UNCHANGED <<heap, base, ud, data, class, self, value, fault>>

-----------------------------------------------------------------------------
Next ==
    /\ ~fault
    /\ \/ \E u \in UD, a \in Addr : Push(a, u) \/ \E c \in Class : Create(c, a, u)
       \/ \E u \in UD : Collect(u) \/ DestroyChannel(u)
       \/ \E a \in Addr : Make(a) \/ Delete(a)
       \/ Open \/ Close
       \/ \E S \in SUBSET {a \in Addr : heap[a] = "held"} : Shutdown(S)

Spec == Init /\ [][Next]_vars

-----------------------------------------------------------------------------
(* Properties.                                                             *)

\* A BaseUserData lives exactly as long as LuaUserData refer to it, and its
\* count is their number: also when objects of different classes follow each
\* other at one address.
CountExact == \A a \in Addr : base[a] = Cardinality(Referring(a))

\* A value that points to a LuaUserData finds it alive, and every LuaUserData
\* has its value; channels excepted, which Destroy can leave without.
ValuesPaired ==
    \A u \in UD : class[u] # "channel" => (ud[u] = "live" <=> value[u] = "pointer")

\* No LuaUserData and no BaseUserData survives the Lua state it was made for.
NothingPersists ==
    state = "closed" => /\ \A u \in UD : ud[u] # "live"
                        /\ \A a \in Addr : base[a] = 0

\* "Use this macro if you want the Lua GC to free the userdata": while the value
\* of a buffer lives it has its buffer, and the step that takes the value frees
\* the buffer, with one exception.  If a held object was at the address before
\* and its LuaUserData still refers to it, the two share a BaseUserData, the
\* value is not the last reference, and the buffer is leaked.
BufferOwned ==
    [][\A u \in UD : ud[u] = "live" /\ class[u] = "buffer" =>
           LET a == data[u] IN
           /\ heap[a] = "buffer"
           /\ \A v \in Referring(a) \ {u} : class[v] = "held"
           /\ heap'[a] = IF ud'[u] = "freed" /\ Referring(a) = {u} THEN "free" ELSE "buffer"]_vars

\* "DO NOT USE pData as it will be invalid because of the Release call!"
\* (util.h, Default__gc): a LuaUserData is not used after Release.
NotUsedAfterRelease == ~fault
=============================================================================
