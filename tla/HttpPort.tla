------------------------------ MODULE HttpPort ------------------------------
(***************************************************************************)
(* What HttpServer:Start and Stop promise a script about the port of its   *)
(* server, whichever listening threads of earlier calls are still there:   *)
(*                                                                         *)
(*   off       the server is offline and its port is closed                *)
(*   starting  it is online, and its thread has not come to the port yet   *)
(*   open      clients can connect                                         *)
(*   down      it is online, but the port was not to be had, accepting     *)
(*             failed for good, or Stop has just closed it                 *)
(*                                                                         *)
(* A port opens once for each Start and closes before the server is        *)
(* offline, and connections are taken only while it is open.  All of that  *)
(* holds until a call comes before the thread of the last one is ready.    *)
(***************************************************************************)
EXTENDS Naturals

CONSTANT Thr    \* one pool for each Start

VARIABLES phase, connections, misused

Init ==
    /\ phase = "off"
    /\ connections = [t \in Thr |-> 0]
    /\ misused = FALSE

Turn(from, to) ==
    /\ phase = from
    /\ phase' = to
    /\ UNCHANGED <<connections, misused>>

Start  == Turn("off", "starting")
Open   == Turn("starting", "open")
Refuse == Turn("starting", "down")
Shut   == Turn("open", "down")
Stop   == Turn("down", "off")

Connect(t) ==
    /\ phase = "open"
    /\ connections' = [connections EXCEPT ![t] = @ + 1]
    /\ UNCHANGED <<phase, misused>>

\* A connection ends in its own time.
Finish(t) ==
    /\ connections[t] > 0
    /\ connections' = [connections EXCEPT ![t] = @ - 1]
    /\ UNCHANGED <<phase, misused>>

\* From here on nothing is promised.
Misuse == misused' = TRUE

Next ==
    \/ Start \/ Open \/ Refuse \/ Shut \/ Stop
    \/ \E t \in Thr : Connect(t) \/ Finish(t)
    \/ Misuse

Spec == Init /\ [][Next]_<<phase, connections, misused>>
=============================================================================
