--------------------------- MODULE EventListeners ---------------------------
(***************************************************************************)
(* The listeners of game events: CGameEventManager, whose AddListener is   *)
(* given in src/source/sourcesdk/gameeventmanager.cpp, and what the module *)
(* "holytest" does with its lists (src/source/modules/holytest.cpp).       *)
(*                                                                         *)
(* gameevent.Listen adds one listener, always the same, for all functions  *)
(* of all Lua states.  The module does not know it: on LuaInit it listens  *)
(* to vote_cast and takes the first listener of that event for Lua's.      *)
(*                                                                         *)
(* A listener stands for its CGameEventCallback too: FindEventListener     *)
(* makes one of the other.  Events are known from the start.               *)
(***************************************************************************)
EXTENDS Naturals, Sequences, SequencesExt

CONSTANTS
    Event,       \* names of events
    VoteCast,    \* "vote_cast"
    LuaListener, \* the listener gameevent.Listen adds, SERVERSIDE
    ServerSide,  \* listeners of the game and the engine that are SERVERSIDE
    ClientSide,  \* those that are not
    NoListener   \* NULL

Listener == {LuaListener} \union ServerSide \union ClientSide

ASSUME VoteCastAssumption == VoteCast \in Event
ASSUME ListenerAssumption ==
    /\ LuaListener \notin ServerSide \union ClientSide
    /\ ServerSide \intersect ClientSide = {}
    /\ NoListener \notin Listener

VARIABLES
    listeners,  \* CGameEventDescriptor::listeners of each event
    recognised, \* pLuaGameEventListener
    wanted,     \* history: the events each listener asked for and did not give up
    early       \* history: LuaInit found a listener before Lua's

manager == <<listeners, recognised, wanted, early>>

ListenersTypeOK ==
    /\ listeners \in [Event -> Seq(Listener)]
    /\ recognised \in Listener \union {NoListener}
    /\ wanted \in [Listener -> SUBSET Event]
    /\ early \in BOOLEAN

ListenersInit ==
    /\ listeners = [e \in Event |-> <<>>]
    /\ recognised = NoListener
    /\ wanted = [l \in Listener |-> {}]
    /\ early = FALSE

-----------------------------------------------------------------------------
\* Mutant: a listener is added without a look whether it is there.
Added_Again(list, l) == Append(list, l)

\* CGameEventManager::AddListener
Added(list, l) == IF Contains(list, l) THEN list ELSE Append(list, l)

Adds(l, e) ==
    /\ listeners' = [listeners EXCEPT ![e] = Added(@, l)]
    /\ wanted' = [wanted EXCEPT ![l] = @ \union {e}]
    /\ UNCHANGED <<recognised, early>>

\* The list without its first entry that is one of S, if any.
Without(list, S) ==
    LET at == {i \in DOMAIN list : list[i] \in S}
    IN  IF at = {} THEN list ELSE RemoveAt(list, CHOOSE i \in at : \A j \in at : i <= j)

\* CGameEventManager::RemoveListener: out of each list, which has it once at most.
Leaves(l) ==
    /\ listeners' = [e \in Event |-> Without(listeners[e], {l})]
    /\ wanted' = [wanted EXCEPT ![l] = {}]
    /\ UNCHANGED <<recognised, early>>

\* Mutant: m_nListenerType is not looked at.
Removable_AnyType(l) == l = recognised

Removable(l) == l \notin ClientSide /\ l = recognised

\* holytest.RemoveEventListener: the first entry of the list that fits, if any.
RemoveEventListener(e) ==
    /\ listeners' = [listeners EXCEPT ![e] = Without(@, {l \in Listener : Removable(l)})]
    /\ wanted' = [wanted EXCEPT ![LuaListener] = @ \ {e}]
    /\ UNCHANGED <<recognised, early>>

\* CHolyTestModule::LuaInit: listens to vote_cast, and takes the first listener
\* out of its list.
RecogniseLua ==
    LET list == Added(listeners[VoteCast], LuaListener)
    IN  /\ recognised' = Head(list)
        /\ listeners' = [listeners EXCEPT ![VoteCast] = Tail(list)]
        /\ early' = (early \/ Head(list) # LuaListener)
        /\ UNCHANGED wanted

-----------------------------------------------------------------------------
(* Properties. *)

Hears(l, e) == Contains(listeners[e], l)

\* The listener hears what it asked for, but may have lost some events.
ExactBut(l, lost) ==
    LET heard == {e \in Event : Hears(l, e)}
    IN  heard \subseteq wanted[l] /\ wanted[l] \subseteq heard \union lost

\* Across Lua states and switches of the module, each listener hears exactly what
\* it asked for: no entry is left after RemoveEventListener, and none is removed
\* in place of Lua's, as long as Lua's was the first of vote_cast at each
\* LuaInit.  Only Lua's own can lose vote_cast, if the script listened to it
\* before.  A listener that is not SERVERSIDE can lose nothing but vote_cast,
\* whichever listener LuaInit took for Lua's.
ListenersExact ==
    /\ ~early => \A l \in Listener : ExactBut(l, IF l = LuaListener THEN {VoteCast} ELSE {})
    /\ \A l \in ClientSide : ExactBut(l, {VoteCast})
=============================================================================
