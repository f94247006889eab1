------------------------------ MODULE Holytest -------------------------------
(***************************************************************************)
(* The module "holytest" (src/source/modules/holytest.cpp) with the        *)
(* buffers of "bitbuf" it passes on to the game, over one Lua state of the *)
(* server after the other.  "bitbuf" stays enabled, "holytest" is switched *)
(* on and off.  GetEventListeners changes nothing; UnregisterConVar and    *)
(* ServerExecute are calls into the engine.                                *)
(***************************************************************************)
EXTENDS EventListeners, BitBuf

VARIABLES
    enabled, \* the module is switched on
    open     \* external: the server has a Lua state

vars == <<manager, buffers, enabled, open>>

TypeOK == ListenersTypeOK /\ BuffersTypeOK /\ enabled \in BOOLEAN /\ open \in BOOLEAN

Init == ListenersInit /\ BuffersInit /\ enabled = TRUE /\ open = FALSE

-----------------------------------------------------------------------------
\* CHolyTestModule::LuaInit
LuaInit == IF enabled' /\ open' THEN RecogniseLua ELSE UNCHANGED manager

OpenLua ==
    /\ ~open
    /\ open' = TRUE /\ UNCHANGED enabled
    /\ LuaInit
    /\ UNCHANGED buffers

\* Every userdata is collected.  The game removes its listener, or leaves it for
\* the next Lua state.
CloseLua ==
    /\ open
    /\ open' = FALSE
    /\ bufs' = [b \in Buf |-> NoBuffer]
    /\ Leaves(LuaListener) \/ UNCHANGED manager
    /\ UNCHANGED <<long, overrun, enabled>>

SwitchOn ==
    /\ ~enabled
    /\ enabled' = TRUE /\ UNCHANGED open
    /\ LuaInit
    /\ UNCHANGED buffers

SwitchOff ==
    /\ enabled
    /\ enabled' = FALSE
    /\ UNCHANGED <<manager, buffers, open>>

-----------------------------------------------------------------------------
(* What the script does. *)

\* holytest.ReceiveClientMessage: the game reads as much as it likes.
ReceiveClientMessage(b) ==
    /\ open /\ enabled
    /\ \E n \in 0..MaxSize + 1 : Advance(b, n)
    /\ UNCHANGED <<manager, enabled, open>>

Events ==
    /\ open
    /\ \E e \in Event : Adds(LuaListener, e) \/ (enabled /\ RemoveEventListener(e))
    /\ UNCHANGED <<buffers, enabled, open>>

Buffers(b) ==
    /\ open
    /\ \/ CreateReadBuffer(b) \/ CreateWriteBuffer(b) \/ CopyReadBuffer(b)
       \/ \E x \in Byte : Put(b, x)
       \/ ResetWriter(b) \/ SeekToBit(b) \/ Seek(b) \/ Advance(b, 1)
       \/ CollectBuffer(b)
    /\ UNCHANGED <<manager, enabled, open>>

\* The game and the engine.
Others ==
    /\ \E l \in ServerSide \union ClientSide : Leaves(l) \/ \E e \in Event : Adds(l, e)
    /\ UNCHANGED <<buffers, enabled, open>>

-----------------------------------------------------------------------------
\* Nothing is said of what follows an overrun.
Next ==
    /\ ~overrun
    /\ \/ OpenLua \/ CloseLua \/ SwitchOn \/ SwitchOff
       \/ Events \/ Others
       \/ \E b \in Buf : ReceiveClientMessage(b) \/ Buffers(b)

Spec == Init /\ [][Next]_vars
=============================================================================
