---------------------------- MODULE PreparedQueue ----------------------------
(***************************************************************************)
(* What an HttpServer promises about the responses a script prepares for   *)
(* its clients: they wait in the order they were added; an exchange is     *)
(* given the one of its client that has waited longest, if it matches, and *)
(* nobody else is given it; an exchange goes on to the main thread only    *)
(* when no response that would match it waits.                             *)
(***************************************************************************)
EXTENDS Naturals, Sequences

CONSTANTS Key, Route, Exch, Resp

VARIABLES
    waiting,  \* the responses of each client, oldest first
    about,    \* the route a response was added for, once it was
    ask,      \* client and route of an exchange, once it has come
    given,    \* the response each exchange was given, if any
    passed    \* the exchanges passed on to the main thread

vars == <<waiting, about, ask, given, passed>>

Init ==
    /\ waiting = [c \in Key |-> <<>>]
    /\ about = [p \in Resp |-> {}]
    /\ ask = [e \in Exch |-> {}]
    /\ given = [e \in Exch |-> {}]
    /\ passed = {}

\* The script adds response p for client c.
Add(c, k, p) ==
    /\ about[p] = {}
    /\ about' = [about EXCEPT ![p] = {k}]
    /\ waiting' = [waiting EXCEPT ![c] = Append(@, p)]
    /\ UNCHANGED <<ask, given, passed>>

\* An exchange of client c comes in.
Come(e, c, k) ==
    /\ ask[e] = {}
    /\ ask' = [ask EXCEPT ![e] = {<<c, k>>}]
    /\ UNCHANGED <<waiting, about, given, passed>>

Open(e) == e \notin passed /\ given[e] = {}

Give(e, c, k) ==
    /\ Open(e) /\ ask[e] = {<<c, k>>}
    /\ waiting[c] # <<>> /\ about[Head(waiting[c])] = {k}
    /\ given' = [given EXCEPT ![e] = {Head(waiting[c])}]
    /\ waiting' = [waiting EXCEPT ![c] = Tail(@)]
    /\ UNCHANGED <<about, ask, passed>>

Pass(e, c, k) ==
    /\ Open(e) /\ ask[e] = {<<c, k>>}
    /\ \A j \in 1 .. Len(waiting[c]) : about[waiting[c][j]] # {k}
    /\ passed' = passed \union {e}
    /\ UNCHANGED <<waiting, about, ask, given>>

\* The server is deleted.
Drop ==
    /\ waiting' = [c \in Key |-> <<>>]
    /\ UNCHANGED <<about, ask, given, passed>>

Next ==
    \/ \E c \in Key, k \in Route, p \in Resp : Add(c, k, p)
    \/ \E c \in Key, k \in Route, e \in Exch : Come(e, c, k) \/ Give(e, c, k) \/ Pass(e, c, k)
    \/ Drop

Spec == Init /\ [][Next]_vars
=============================================================================
