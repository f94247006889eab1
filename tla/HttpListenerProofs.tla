------------------------- MODULE HttpListenerProofs -------------------------
(***************************************************************************)
(* Proofs about HttpListener, for any number of listening threads, sockets *)
(* and exchanges.                                                          *)
(*                                                                         *)
(* As long as no Start or Stop was late, one listening thread is alive at  *)
(* most (Alone).  How far Stop is then says how far that thread can be     *)
(* (Phases), which sockets are open (Sockets), and, unless accept has      *)
(* failed, what svr_sock_ and is_decommisioned hold (Clean).  The four     *)
(* support one another and are inductive together.                         *)
(***************************************************************************)
EXTENDS HttpListener, TLAPS

Live(t) == pc[t] \notin {"none", "done"}

Starting  == {"bind", "create", "fail", "listen"}
Listening == {"loop", "accept", "failed", "close", "drain", "exit", "leave"}
Holding   == {"listen", "loop", "accept", "failed", "close"}

\* The main thread is not in Stop or Start, and the server is online.
Serving == main = "lua" /\ online

Alone == ~late => \A r, t \in Thr : Live(r) /\ Live(t) => r = t

\* The server is online from Spawn to StopClear, with a thread.
Calls ==
    /\ main \in {"swap", "close", "clear"} => online
    /\ main \in {"join", "spawn"} => ~online
    /\ Serving => thread \in Thr /\ pc[thread] # "none"

Phases ==
    ~late =>
        /\ Serving => \A t \in Thr : Live(t) => t = thread
        /\ ~Serving => \A t \in Thr : pc[t] \notin Starting
        /\ running <=> \E t \in Thr : pc[t] \in Listening

Sockets ==
    ~late =>
        /\ \A s \in Sock : sock[s] = "open" =>
             \/ main \in {"lua", "swap"} /\ online /\ s = svr
             \/ main = "close" /\ s = own
        /\ Serving => \A s \in Sock : sock[s] = "open" => pc[thread] \in Holding
        /\ Serving => (pc[thread] \in Listening \union {"listen"} => svr # NoSock)
        /\ main = "swap" => svr # NoSock
        /\ main = "close" => svr = NoSock

Clean ==
    ~late =>
        /\ \A t \in Thr : pc[t] \in {"create", "listen"} => ~decom
        /\ ~erred =>
             /\ \A t \in Thr : pc[t] # "close" /\ ret[t]
             /\ decom => (Serving \/ main = "clear") /\ \A t \in Thr : ~Live(t)
             /\ svr # NoSock => sock[svr] = "open"
             /\ main = "close" => own # NoSock /\ sock[own] = "open"
             /\ \A t \in Thr : pc[t] = "accept" => svr \in {NoSock, fd[t]}
             /\ \A t \in Thr : pc[t] = "failed" => svr = NoSock
             /\ ~twice

IInv == Alone /\ Calls /\ Phases /\ Sockets /\ Clean

-----------------------------------------------------------------------------
\* Types are kept by every step.
LEMMA TypeStep ==
  ASSUME TypeOK, [Next]_vars
  PROVE  TypeOK'
<1> USE ThrAssumption, SockAssumption, JobsAssumption
<1> USE DEF TypeOK, PcSet, calls, server, threads, history
<1>1. ASSUME NEW t \in Thr, Bind(t) PROVE TypeOK'
  BY <1>1 DEF Bind, Goto
<1>2. ASSUME NEW t \in Thr, Create(t) PROVE TypeOK'
  BY <1>2 DEF Create, Goto
<1>3. ASSUME NEW t \in Thr, Fail(t) PROVE TypeOK'
  BY <1>3 DEF Fail, Goto
<1>4. ASSUME NEW t \in Thr, Listen(t) PROVE TypeOK'
  <2>1. running' \in BOOLEAN
    BY <1>4 DEF Listen
  <2>2. pc' \in [Thr -> PcSet]
    BY <1>4 DEF Listen, Goto
  <2>3. QED
    BY <1>4, <2>1, <2>2 DEF Listen
<1>5. ASSUME NEW t \in Thr, Loop(t) PROVE TypeOK'
  BY <1>5 DEF Loop, Goto
<1>6. ASSUME NEW t \in Thr, AcceptClosed(t) PROVE TypeOK'
  BY <1>6 DEF AcceptClosed, Goto, IsOpen
<1>7. ASSUME NEW t \in Thr, Failed(t) PROVE TypeOK'
  BY <1>7 DEF Failed, Goto
<1>8. ASSUME NEW t \in Thr, Close(t) PROVE TypeOK'
  BY <1>8 DEF Close, Goto, CloseSocket, Closed
<1>9. ASSUME NEW t \in Thr, Drain(t) PROVE TypeOK'
  BY <1>9 DEF Drain, Goto
<1>10. ASSUME NEW t \in Thr, Exit(t) PROVE TypeOK'
  BY <1>10 DEF Exit, Goto
<1>11. ASSUME NEW t \in Thr, Leave(t) PROVE TypeOK'
  BY <1>11, ZenonT(40) DEF Leave, Goto, AfterListen
<1>12. ASSUME NEW t \in Thr, Accept(t) PROVE TypeOK'
  BY <1>12 DEF Accept, Goto, IsOpen
<1>13. ASSUME NEW t \in Thr, Retry(t) PROVE TypeOK'
  BY <1>13 DEF Retry, Goto, IsOpen
<1>14. ASSUME NEW t \in Thr, AcceptError(t) PROVE TypeOK'
  BY <1>14 DEF AcceptError, Goto, IsOpen
<1>15. ASSUME NEW t \in Thr, FinishJob(t) PROVE TypeOK'
  BY <1>15 DEF FinishJob, HasJob
<1>16. CASE Start
  BY <1>16 DEF Start
<1>17. CASE StopSwap
  BY <1>17 DEF StopSwap, Exchanged
<1>18. CASE StopClose
  BY <1>18 DEF StopClose, CloseSocket, Closed
<1>19. CASE StopClear
  BY <1>19 DEF StopClear, Recommissioned
<1>20. CASE StopJoin
  BY <1>20 DEF StopJoin
<1>21. ASSUME NEW restart \in BOOLEAN, Stop(restart) PROVE TypeOK'
  BY <1>21 DEF Stop
<1>22. ASSUME NEW t \in Thr, Spawn(t) PROVE TypeOK'
  BY <1>22 DEF Spawn, Goto
<1>23. CASE UNCHANGED vars
  BY <1>23 DEF vars
<1> QED
  BY <1>1, <1>2, <1>3, <1>4, <1>5, <1>6, <1>7, <1>8, <1>9, <1>10, <1>11, <1>12,
     <1>13, <1>14, <1>15, <1>16, <1>17, <1>18, <1>19, <1>20, <1>21, <1>22, <1>23
  DEF Next, Main, Thread

\* Only Spawn brings a thread to life, and it is late if another one still is.
LEMMA AloneStep ==
  ASSUME TypeOK, IInv, [Next]_vars
  PROVE  Alone'
<1> USE ThrAssumption, SockAssumption, JobsAssumption
<1> USE DEF IInv, TypeOK, PcSet, Alone, Live, calls, server, threads, history
<1>1. ASSUME NEW t \in Thr, Bind(t) PROVE Alone'
  BY <1>1 DEF Bind, Goto
<1>2. ASSUME NEW t \in Thr, Create(t) PROVE Alone'
  BY <1>2 DEF Create, Goto
<1>3. ASSUME NEW t \in Thr, Fail(t) PROVE Alone'
  BY <1>3 DEF Fail, Goto
<1>4. ASSUME NEW t \in Thr, Listen(t) PROVE Alone'
  BY <1>4 DEF Listen, Goto
<1>5. ASSUME NEW t \in Thr, Loop(t) PROVE Alone'
  BY <1>5 DEF Loop, Goto
<1>6. ASSUME NEW t \in Thr, AcceptClosed(t) PROVE Alone'
  BY <1>6 DEF AcceptClosed, Goto, IsOpen
<1>7. ASSUME NEW t \in Thr, Failed(t) PROVE Alone'
  BY <1>7 DEF Failed, Goto
<1>8. ASSUME NEW t \in Thr, Close(t) PROVE Alone'
  BY <1>8 DEF Close, Goto, CloseSocket, Closed
<1>9. ASSUME NEW t \in Thr, Drain(t) PROVE Alone'
  BY <1>9 DEF Drain, Goto
<1>10. ASSUME NEW t \in Thr, Exit(t) PROVE Alone'
  BY <1>10 DEF Exit, Goto
<1>11. ASSUME NEW t \in Thr, Leave(t) PROVE Alone'
  BY <1>11 DEF Leave, Goto, AfterListen
<1>12. ASSUME NEW t \in Thr, Accept(t) PROVE Alone'
  BY <1>12 DEF Accept, Goto, IsOpen
<1>13. ASSUME NEW t \in Thr, Retry(t) PROVE Alone'
  BY <1>13 DEF Retry, Goto, IsOpen
<1>14. ASSUME NEW t \in Thr, AcceptError(t) PROVE Alone'
  BY <1>14 DEF AcceptError, Goto, IsOpen
<1>15. ASSUME NEW t \in Thr, FinishJob(t) PROVE Alone'
  BY <1>15 DEF FinishJob, HasJob
<1>16. CASE Start
  BY <1>16 DEF Start
<1>17. CASE StopSwap
  BY <1>17 DEF StopSwap, Exchanged
<1>18. CASE StopClose
  BY <1>18 DEF StopClose, CloseSocket, Closed
<1>19. CASE StopClear
  BY <1>19 DEF StopClear, Recommissioned
<1>20. CASE StopJoin
  BY <1>20 DEF StopJoin
<1>21. ASSUME NEW restart \in BOOLEAN, Stop(restart) PROVE Alone'
  BY <1>21 DEF Stop
<1>22. ASSUME NEW t \in Thr, Spawn(t) PROVE Alone'
  BY <1>22 DEF Spawn, Goto
<1>23. CASE UNCHANGED vars
  BY <1>23 DEF vars
<1> QED
  BY <1>1, <1>2, <1>3, <1>4, <1>5, <1>6, <1>7, <1>8, <1>9, <1>10, <1>11, <1>12,
     <1>13, <1>14, <1>15, <1>16, <1>17, <1>18, <1>19, <1>20, <1>21, <1>22, <1>23
  DEF Next, Main, Thread

\* Stop and Start are called by the main thread only, one after the other.
LEMMA CallsStep ==
  ASSUME TypeOK, IInv, [Next]_vars
  PROVE  Calls'
<1> USE ThrAssumption, SockAssumption, JobsAssumption
<1> USE DEF IInv, TypeOK, PcSet, Calls, Serving, calls, server, threads, history
<1>1. ASSUME NEW t \in Thr, Bind(t) PROVE Calls'
  BY <1>1 DEF Bind, Goto
<1>2. ASSUME NEW t \in Thr, Create(t) PROVE Calls'
  BY <1>2 DEF Create, Goto
<1>3. ASSUME NEW t \in Thr, Fail(t) PROVE Calls'
  BY <1>3 DEF Fail, Goto
<1>4. ASSUME NEW t \in Thr, Listen(t) PROVE Calls'
  BY <1>4 DEF Listen, Goto
<1>5. ASSUME NEW t \in Thr, Loop(t) PROVE Calls'
  BY <1>5 DEF Loop, Goto
<1>6. ASSUME NEW t \in Thr, AcceptClosed(t) PROVE Calls'
  BY <1>6 DEF AcceptClosed, Goto, IsOpen
<1>7. ASSUME NEW t \in Thr, Failed(t) PROVE Calls'
  BY <1>7 DEF Failed, Goto
<1>8. ASSUME NEW t \in Thr, Close(t) PROVE Calls'
  BY <1>8 DEF Close, Goto, CloseSocket, Closed
<1>9. ASSUME NEW t \in Thr, Drain(t) PROVE Calls'
  BY <1>9 DEF Drain, Goto
<1>10. ASSUME NEW t \in Thr, Exit(t) PROVE Calls'
  BY <1>10 DEF Exit, Goto
<1>11. ASSUME NEW t \in Thr, Leave(t) PROVE Calls'
  BY <1>11 DEF Leave, Goto, AfterListen
<1>12. ASSUME NEW t \in Thr, Accept(t) PROVE Calls'
  BY <1>12 DEF Accept, Goto, IsOpen
<1>13. ASSUME NEW t \in Thr, Retry(t) PROVE Calls'
  BY <1>13 DEF Retry, Goto, IsOpen
<1>14. ASSUME NEW t \in Thr, AcceptError(t) PROVE Calls'
  BY <1>14 DEF AcceptError, Goto, IsOpen
<1>15. ASSUME NEW t \in Thr, FinishJob(t) PROVE Calls'
  BY <1>15 DEF FinishJob, HasJob
<1>16. CASE Start
  BY <1>16 DEF Start
<1>17. CASE StopSwap
  BY <1>17 DEF StopSwap, Exchanged
<1>18. CASE StopClose
  BY <1>18 DEF StopClose, CloseSocket, Closed
<1>19. CASE StopClear
  BY <1>19 DEF StopClear, Recommissioned
<1>20. CASE StopJoin
  BY <1>20 DEF StopJoin
<1>21. ASSUME NEW restart \in BOOLEAN, Stop(restart) PROVE Calls'
  BY <1>21 DEF Stop
<1>22. ASSUME NEW t \in Thr, Spawn(t) PROVE Calls'
  BY <1>22 DEF Spawn, Goto
<1>23. CASE UNCHANGED vars
  BY <1>23 DEF vars
<1> QED
  BY <1>1, <1>2, <1>3, <1>4, <1>5, <1>6, <1>7, <1>8, <1>9, <1>10, <1>11, <1>12,
     <1>13, <1>14, <1>15, <1>16, <1>17, <1>18, <1>19, <1>20, <1>21, <1>22, <1>23
  DEF Next, Main, Thread

\* Stop is late unless its thread is in the loop or has ended, and is_running_
\* goes with the loop.
LEMMA PhasesStep ==
  ASSUME TypeOK, IInv, [Next]_vars
  PROVE  Phases'
<1> USE ThrAssumption, SockAssumption, JobsAssumption
<1> USE DEF IInv, TypeOK, PcSet, Alone, Calls, Phases, Serving, Live, Starting,
            Listening, calls, server, threads, history
<1>1. ASSUME NEW t \in Thr, Bind(t) PROVE Phases'
  BY <1>1 DEF Bind, Goto
<1>2. ASSUME NEW t \in Thr, Create(t) PROVE Phases'
  BY <1>2 DEF Create, Goto
<1>3. ASSUME NEW t \in Thr, Fail(t) PROVE Phases'
  BY <1>3 DEF Fail, Goto
<1>4. ASSUME NEW t \in Thr, Listen(t) PROVE Phases'
  BY <1>4 DEF Listen, Goto
<1>5. ASSUME NEW t \in Thr, Loop(t) PROVE Phases'
  BY <1>5 DEF Loop, Goto
<1>6. ASSUME NEW t \in Thr, AcceptClosed(t) PROVE Phases'
  BY <1>6 DEF AcceptClosed, Goto, IsOpen
<1>7. ASSUME NEW t \in Thr, Failed(t) PROVE Phases'
  BY <1>7 DEF Failed, Goto
<1>8. ASSUME NEW t \in Thr, Close(t) PROVE Phases'
  BY <1>8 DEF Close, Goto, CloseSocket, Closed
<1>9. ASSUME NEW t \in Thr, Drain(t) PROVE Phases'
  BY <1>9 DEF Drain, Goto
<1>10. ASSUME NEW t \in Thr, Exit(t) PROVE Phases'
  BY <1>10 DEF Exit, Goto
<1>11. ASSUME NEW t \in Thr, Leave(t) PROVE Phases'
  BY <1>11 DEF Leave, Goto, AfterListen
<1>12. ASSUME NEW t \in Thr, Accept(t) PROVE Phases'
  BY <1>12 DEF Accept, Goto, IsOpen
<1>13. ASSUME NEW t \in Thr, Retry(t) PROVE Phases'
  BY <1>13 DEF Retry, Goto, IsOpen
<1>14. ASSUME NEW t \in Thr, AcceptError(t) PROVE Phases'
  BY <1>14 DEF AcceptError, Goto, IsOpen
<1>15. ASSUME NEW t \in Thr, FinishJob(t) PROVE Phases'
  BY <1>15 DEF FinishJob, HasJob
<1>16. CASE Start
  BY <1>16 DEF Start
<1>17. CASE StopSwap
  BY <1>17 DEF StopSwap, Exchanged
<1>18. CASE StopClose
  BY <1>18 DEF StopClose, CloseSocket, Closed
<1>19. CASE StopClear
  BY <1>19 DEF StopClear, Recommissioned
<1>20. CASE StopJoin
  BY <1>20 DEF StopJoin
<1>21. ASSUME NEW restart \in BOOLEAN, Stop(restart) PROVE Phases'
  BY <1>21 DEF Stop
<1>22. ASSUME NEW t \in Thr, Spawn(t) PROVE Phases'
  BY <1>22 DEF Spawn, Goto
<1>23. CASE UNCHANGED vars
  BY <1>23 DEF vars
<1> QED
  BY <1>1, <1>2, <1>3, <1>4, <1>5, <1>6, <1>7, <1>8, <1>9, <1>10, <1>11, <1>12,
     <1>13, <1>14, <1>15, <1>16, <1>17, <1>18, <1>19, <1>20, <1>21, <1>22, <1>23
  DEF Next, Main, Thread

\* The socket is in svr_sock_ until Stop takes it, and in own until Stop closes it.
LEMMA SocketsStep ==
  ASSUME TypeOK, IInv, [Next]_vars
  PROVE  Sockets'
<1> USE ThrAssumption, SockAssumption, JobsAssumption
<1> USE DEF IInv, TypeOK, PcSet, Alone, Calls, Phases, Sockets, Serving, Live,
            Starting, Listening, Holding, calls, server, threads, history
<1>1. ASSUME NEW t \in Thr, Bind(t) PROVE Sockets'
  BY <1>1 DEF Bind, Goto
<1>2. ASSUME NEW t \in Thr, Create(t) PROVE Sockets'
  BY <1>2 DEF Create, Goto
<1>3. ASSUME NEW t \in Thr, Fail(t) PROVE Sockets'
  BY <1>3 DEF Fail, Goto
<1>4. ASSUME NEW t \in Thr, Listen(t) PROVE Sockets'
  <2>1. ~late => ~decom
    BY <1>4 DEF Listen, Clean
  <2>2. CASE decom
    BY <1>4, <2>1, <2>2 DEF Listen
  <2>3. CASE ~decom
    BY <1>4, <2>3 DEF Listen, Goto
  <2>4. QED
    BY <2>2, <2>3
<1>5. ASSUME NEW t \in Thr, Loop(t) PROVE Sockets'
  BY <1>5 DEF Loop, Goto
<1>6. ASSUME NEW t \in Thr, AcceptClosed(t) PROVE Sockets'
  BY <1>6 DEF AcceptClosed, Goto, IsOpen
<1>7. ASSUME NEW t \in Thr, Failed(t) PROVE Sockets'
  BY <1>7 DEF Failed, Goto
<1>8. ASSUME NEW t \in Thr, Close(t) PROVE Sockets'
  BY <1>8 DEF Close, Goto, CloseSocket, Closed
<1>9. ASSUME NEW t \in Thr, Drain(t) PROVE Sockets'
  BY <1>9 DEF Drain, Goto
<1>10. ASSUME NEW t \in Thr, Exit(t) PROVE Sockets'
  BY <1>10 DEF Exit, Goto
<1>11. ASSUME NEW t \in Thr, Leave(t) PROVE Sockets'
  BY <1>11 DEF Leave, Goto, AfterListen
<1>12. ASSUME NEW t \in Thr, Accept(t) PROVE Sockets'
  BY <1>12 DEF Accept, Goto, IsOpen
<1>13. ASSUME NEW t \in Thr, Retry(t) PROVE Sockets'
  BY <1>13 DEF Retry, Goto, IsOpen
<1>14. ASSUME NEW t \in Thr, AcceptError(t) PROVE Sockets'
  BY <1>14 DEF AcceptError, Goto, IsOpen
<1>15. ASSUME NEW t \in Thr, FinishJob(t) PROVE Sockets'
  BY <1>15 DEF FinishJob, HasJob
<1>16. CASE Start
  BY <1>16 DEF Start
<1>17. CASE StopSwap
  BY <1>17 DEF StopSwap, Exchanged
<1>18. CASE StopClose
  BY <1>18 DEF StopClose, CloseSocket, Closed
<1>19. CASE StopClear
  BY <1>19 DEF StopClear, Recommissioned
<1>20. CASE StopJoin
  BY <1>20 DEF StopJoin
<1>21. ASSUME NEW restart \in BOOLEAN, Stop(restart) PROVE Sockets'
  BY <1>21 DEF Stop
<1>22. ASSUME NEW t \in Thr, Spawn(t) PROVE Sockets'
  BY <1>22 DEF Spawn, Goto
<1>23. CASE UNCHANGED vars
  BY <1>23 DEF vars
<1> QED
  BY <1>1, <1>2, <1>3, <1>4, <1>5, <1>6, <1>7, <1>8, <1>9, <1>10, <1>11, <1>12,
     <1>13, <1>14, <1>15, <1>16, <1>17, <1>18, <1>19, <1>20, <1>21, <1>22, <1>23
  DEF Next, Main, Thread

\* An accept that fails finds svr_sock_ taken, so that the thread closes nothing
\* and ends well.
LEMMA CleanStep ==
  ASSUME TypeOK, IInv, [Next]_vars
  PROVE  Clean'
<1> USE ThrAssumption, SockAssumption, JobsAssumption
<1> USE DEF IInv, TypeOK, PcSet, Alone, Calls, Phases, Sockets, Clean, Serving,
            Live, Starting, Listening, Holding, calls, server, threads, history
<1>1. ASSUME NEW t \in Thr, Bind(t) PROVE Clean'
  BY <1>1 DEF Bind, Goto
<1>2. ASSUME NEW t \in Thr, Create(t) PROVE Clean'
  BY <1>2 DEF Create, Goto
<1>3. ASSUME NEW t \in Thr, Fail(t) PROVE Clean'
  BY <1>3 DEF Fail, Goto
<1>4. ASSUME NEW t \in Thr, Listen(t) PROVE Clean'
  BY <1>4 DEF Listen, Goto
<1>5. ASSUME NEW t \in Thr, Loop(t) PROVE Clean'
  BY <1>5 DEF Loop, Goto
<1>6. ASSUME NEW t \in Thr, AcceptClosed(t) PROVE Clean'
  BY <1>6 DEF AcceptClosed, Goto, IsOpen
<1>7. ASSUME NEW t \in Thr, Failed(t) PROVE Clean'
  BY <1>7 DEF Failed, Goto
<1>8. ASSUME NEW t \in Thr, Close(t) PROVE Clean'
  BY <1>8 DEF Close, Goto, CloseSocket, Closed
<1>9. ASSUME NEW t \in Thr, Drain(t) PROVE Clean'
  BY <1>9 DEF Drain, Goto
<1>10. ASSUME NEW t \in Thr, Exit(t) PROVE Clean'
  BY <1>10 DEF Exit, Goto
<1>11. ASSUME NEW t \in Thr, Leave(t) PROVE Clean'
  BY <1>11 DEF Leave, Goto, AfterListen
<1>12. ASSUME NEW t \in Thr, Accept(t) PROVE Clean'
  BY <1>12 DEF Accept, Goto, IsOpen
<1>13. ASSUME NEW t \in Thr, Retry(t) PROVE Clean'
  BY <1>13 DEF Retry, Goto, IsOpen
<1>14. ASSUME NEW t \in Thr, AcceptError(t) PROVE Clean'
  BY <1>14 DEF AcceptError, Goto, IsOpen
<1>15. ASSUME NEW t \in Thr, FinishJob(t) PROVE Clean'
  BY <1>15 DEF FinishJob, HasJob
<1>16. CASE Start
  BY <1>16 DEF Start
<1>17. CASE StopSwap
  BY <1>17 DEF StopSwap, Exchanged
<1>18. CASE StopClose
  BY <1>18 DEF StopClose, CloseSocket, Closed
<1>19. CASE StopClear
  BY <1>19 DEF StopClear, Recommissioned
<1>20. CASE StopJoin
  BY <1>20 DEF StopJoin
<1>21. ASSUME NEW restart \in BOOLEAN, Stop(restart) PROVE Clean'
  BY <1>21 DEF Stop
<1>22. ASSUME NEW t \in Thr, Spawn(t) PROVE Clean'
  BY <1>22 DEF Spawn, Goto
<1>23. CASE UNCHANGED vars
  BY <1>23 DEF vars
<1> QED
  BY <1>1, <1>2, <1>3, <1>4, <1>5, <1>6, <1>7, <1>8, <1>9, <1>10, <1>11, <1>12,
     <1>13, <1>14, <1>15, <1>16, <1>17, <1>18, <1>19, <1>20, <1>21, <1>22, <1>23
  DEF Next, Main, Thread

-----------------------------------------------------------------------------
\* The state of the server, its threads and its sockets keeps its type,
\* whatever Start, Stop and the listening threads do.
THEOREM TypeCorrect == Spec => []TypeOK
<1>1. ASSUME Init PROVE TypeOK
  <2>1. 0 \in 0 .. MaxJobs
    BY JobsAssumption
  <2>2. "none" \in PcSet
    BY DEF PcSet
  <2>3. pc \in [Thr -> PcSet] /\ jobs \in [Thr -> 0 .. MaxJobs]
    BY <1>1, <2>1, <2>2 DEF Init
  <2>4. fd \in [Thr -> Sock \union {NoSock}] /\ sock \in [Sock -> {"new", "open", "closed"}]
    BY <1>1 DEF Init
  <2>5. ret \in [Thr -> BOOLEAN]
    BY <1>1 DEF Init
  <2>6. QED
    BY <1>1, <2>3, <2>4, <2>5 DEF Init, TypeOK
<1>2. TypeOK /\ [Next]_vars => TypeOK'
  BY TypeStep
<1>3. QED
  BY <1>1, <1>2, PTL DEF Spec

\* The main thread, the one live listening thread, svr_sock_ and
\* is_decommisioned go together as IInv says, for any number of restarts.
THEOREM Inductive == Spec => []IInv
<1>1. Init => IInv
  BY DEF Init, IInv, Alone, Calls, Phases, Sockets, Clean, Live, Serving, Starting, Listening
<1>2. TypeOK /\ IInv /\ [Next]_vars => IInv'
  BY AloneStep, CallsStep, PhasesStep, SocketsStep, CleanStep DEF IInv
<1>3. QED
  BY <1>1, <1>2, TypeCorrect, PTL DEF Spec

\* The exchange of svr_sock_ keeps Stop and the listening thread from closing
\* one socket both, unless accept failed or a Start or Stop came too early.
THEOREM ClosedOnceCorrect == Spec => []ClosedOnce
<1>1. IInv => ClosedOnce
  BY DEF IInv, Clean, ClosedOnce
<1>2. QED
  BY <1>1, Inductive, PTL

\* bind_internal does not refuse the thread of a new Start because an earlier
\* one failed to bind.
THEOREM FreshStartCorrect == Spec => []FreshStart
<1>1. IInv => FreshStart
  BY DEF IInv, Clean, Live, FreshStart
<1>2. QED
  BY <1>1, Inductive, PTL

\* httplib::Server::stop finds the socket it asserts, unless a Start or Stop
\* came too early.
THEOREM HasSocketCorrect == Spec => []StopInTimeHasSocket
<1>1. IInv => StopInTimeHasSocket
  BY DEF IInv, Sockets, StopInTimeHasSocket
<1>2. QED
  BY <1>1, Inductive, PTL

-----------------------------------------------------------------------------
(* A thread that is left to itself.                                        *)

\* Once Stop has taken the socket, svr_sock_ stays empty until the next thread
\* has been made, or else there is no thread that could look at it.
Unplugged ==
    ~late => (main \in {"close", "clear"} \/ ~online =>
                 svr = NoSock \/ \A t \in Thr : ~Live(t))

\* Only Create fills svr_sock_, and a thread that creates is one of a server
\* that is online.
LEMMA UnpluggedStep ==
  ASSUME TypeOK, IInv, Unplugged, [Next]_vars
  PROVE  Unplugged'
<1> USE ThrAssumption, SockAssumption, JobsAssumption
<1> USE DEF IInv, TypeOK, PcSet, Alone, Calls, Phases, Serving, Live, Starting,
            Unplugged, calls, server, threads, history
<1>1. ASSUME NEW t \in Thr, Bind(t) PROVE Unplugged'
  BY <1>1 DEF Bind, Goto
<1>2. ASSUME NEW t \in Thr, Create(t) PROVE Unplugged'
  BY <1>2 DEF Create, Goto
<1>3. ASSUME NEW t \in Thr, Fail(t) PROVE Unplugged'
  BY <1>3 DEF Fail, Goto
<1>4. ASSUME NEW t \in Thr, Listen(t) PROVE Unplugged'
  BY <1>4 DEF Listen, Goto
<1>5. ASSUME NEW t \in Thr, Loop(t) PROVE Unplugged'
  BY <1>5 DEF Loop, Goto
<1>6. ASSUME NEW t \in Thr, AcceptClosed(t) PROVE Unplugged'
  BY <1>6 DEF AcceptClosed, Goto, IsOpen
<1>7. ASSUME NEW t \in Thr, Failed(t) PROVE Unplugged'
  BY <1>7 DEF Failed, Goto
<1>8. ASSUME NEW t \in Thr, Close(t) PROVE Unplugged'
  BY <1>8 DEF Close, Goto, CloseSocket, Closed
<1>9. ASSUME NEW t \in Thr, Drain(t) PROVE Unplugged'
  BY <1>9 DEF Drain, Goto
<1>10. ASSUME NEW t \in Thr, Exit(t) PROVE Unplugged'
  BY <1>10 DEF Exit, Goto
<1>11. ASSUME NEW t \in Thr, Leave(t) PROVE Unplugged'
  BY <1>11 DEF Leave, Goto, AfterListen
<1>12. ASSUME NEW t \in Thr, Accept(t) PROVE Unplugged'
  BY <1>12 DEF Accept, Goto, IsOpen
<1>13. ASSUME NEW t \in Thr, Retry(t) PROVE Unplugged'
  BY <1>13 DEF Retry, Goto, IsOpen
<1>14. ASSUME NEW t \in Thr, AcceptError(t) PROVE Unplugged'
  BY <1>14 DEF AcceptError, Goto, IsOpen
<1>15. ASSUME NEW t \in Thr, FinishJob(t) PROVE Unplugged'
  BY <1>15 DEF FinishJob, HasJob
<1>16. CASE Start
  BY <1>16 DEF Start
<1>17. CASE StopSwap
  BY <1>17 DEF StopSwap, Exchanged
<1>18. CASE StopClose
  BY <1>18 DEF StopClose, CloseSocket, Closed
<1>19. CASE StopClear
  BY <1>19 DEF StopClear, Recommissioned
<1>20. CASE StopJoin
  BY <1>20 DEF StopJoin
<1>21. ASSUME NEW restart \in BOOLEAN, Stop(restart) PROVE Unplugged'
  BY <1>21 DEF Stop
<1>22. ASSUME NEW t \in Thr, Spawn(t) PROVE Unplugged'
  BY <1>22 DEF Spawn, Goto
<1>23. CASE UNCHANGED vars
  BY <1>23 DEF vars
<1> QED
  BY <1>1, <1>2, <1>3, <1>4, <1>5, <1>6, <1>7, <1>8, <1>9, <1>10, <1>11, <1>12,
     <1>13, <1>14, <1>15, <1>16, <1>17, <1>18, <1>19, <1>20, <1>21, <1>22, <1>23
  DEF Next, Main, Thread

\* After Stop nobody finds a socket in svr_sock_.
THEOREM StaysUnplugged == Spec => []Unplugged
<1>1. Init => Unplugged
  BY DEF Init, Unplugged
<1>2. TypeOK /\ IInv /\ Unplugged /\ [Next]_vars => Unplugged'
  BY UnpluggedStep
<1>3. QED
  BY <1>1, <1>2, TypeCorrect, Inductive, PTL DEF Spec

\* What WindsDown says of one step.
LEMMA WindsDownStep ==
  ASSUME TypeOK, IInv, Unplugged, [Next]_vars, ~online, ~late', NEW r \in Thr
  PROVE  /\ jobs'[r] <= jobs[r]
         /\ pc[r] = "none" \/ pc'[r] = pc[r] \/ <<pc[r], pc'[r]>> \in WayOut
<1> DEFINE Goal ==
      /\ jobs'[r] <= jobs[r]
      /\ pc[r] = "none" \/ pc'[r] = pc[r] \/ <<pc[r], pc'[r]>> \in WayOut
<1> USE ThrAssumption, SockAssumption, JobsAssumption
<1>a. jobs \in [Thr -> Nat] /\ jobs[r] \in Nat
  BY DEF TypeOK
<1>b. ~late
  BY DEF Next, Main, Thread, vars, history, Bind, Create, Fail, Listen, Loop, AcceptClosed,
         Failed, Close, Drain, Exit, Leave, Accept, Retry, AcceptError, FinishJob, Start,
         Stop, StopSwap, StopClose, StopClear, StopJoin, Spawn
<1>c. \A t \in Thr : pc[t] \notin Starting
  BY <1>b DEF IInv, Phases, Serving
<1>d. \A s \in Sock : sock[s] # "open"
  BY <1>b DEF IInv, Sockets, Calls
<1>e. \A t \in Thr : Live(t) => svr = NoSock
  BY <1>b DEF Unplugged
<1>f. \A t \in Thr : ~IsOpen(fd[t])
  BY <1>d DEF IsOpen, TypeOK
<1> USE <1>a, <1>c, <1>d, <1>e, <1>f
<1> USE DEF TypeOK, PcSet, Live, Starting, WayOut, calls, server, threads, history
<1>1. ASSUME NEW t \in Thr, Bind(t) PROVE Goal
  BY <1>1 DEF Bind, Goto
<1>2. ASSUME NEW t \in Thr, Create(t) PROVE Goal
  BY <1>2 DEF Create, Goto
<1>3. ASSUME NEW t \in Thr, Fail(t) PROVE Goal
  BY <1>3 DEF Fail, Goto
<1>4. ASSUME NEW t \in Thr, Listen(t) PROVE Goal
  BY <1>4 DEF Listen, Goto
<1>5. ASSUME NEW t \in Thr, Loop(t) PROVE Goal
  BY <1>5 DEF Loop, Goto
<1>6. ASSUME NEW t \in Thr, AcceptClosed(t) PROVE Goal
  BY <1>6 DEF AcceptClosed, Goto
<1>7. ASSUME NEW t \in Thr, Failed(t) PROVE Goal
  BY <1>7 DEF Failed, Goto
<1>8. ASSUME NEW t \in Thr, Close(t) PROVE Goal
  BY <1>8 DEF Close, Goto, CloseSocket, Closed
<1>9. ASSUME NEW t \in Thr, Drain(t) PROVE Goal
  BY <1>9 DEF Drain, Goto
<1>10. ASSUME NEW t \in Thr, Exit(t) PROVE Goal
  BY <1>10 DEF Exit, Goto
<1>11. ASSUME NEW t \in Thr, Leave(t) PROVE Goal
  BY <1>11 DEF Leave, Goto, AfterListen
<1>12. ASSUME NEW t \in Thr, Accept(t) PROVE Goal
  BY <1>12 DEF Accept, Goto
<1>13. ASSUME NEW t \in Thr, Retry(t) PROVE Goal
  BY <1>13 DEF Retry, Goto
<1>14. ASSUME NEW t \in Thr, AcceptError(t) PROVE Goal
  BY <1>14 DEF AcceptError, Goto
<1>15. ASSUME NEW t \in Thr, FinishJob(t) PROVE Goal
  BY <1>15 DEF FinishJob, HasJob
<1>16. CASE Start
  BY <1>16 DEF Start
<1>17. CASE StopSwap
  BY <1>17 DEF StopSwap, Exchanged
<1>18. CASE StopClose
  BY <1>18 DEF StopClose, CloseSocket, Closed
<1>19. CASE StopClear
  BY <1>19 DEF StopClear, Recommissioned
<1>20. CASE StopJoin
  BY <1>20 DEF StopJoin
<1>21. ASSUME NEW restart \in BOOLEAN, Stop(restart) PROVE Goal
  BY <1>21 DEF Stop
<1>22. ASSUME NEW t \in Thr, Spawn(t) PROVE Goal
  BY <1>22 DEF Spawn, Goto
<1>23. CASE UNCHANGED vars
  BY <1>23 DEF vars
<1> QED
  BY <1>1, <1>2, <1>3, <1>4, <1>5, <1>6, <1>7, <1>8, <1>9, <1>10, <1>11, <1>12,
     <1>13, <1>14, <1>15, <1>16, <1>17, <1>18, <1>19, <1>20, <1>21, <1>22, <1>23
  DEF Next, Main, Thread

\* A listening thread that Stop has stopped waiting for only goes to its end,
\* and takes no connection, unless a Start or Stop came too early.
THEOREM WindsDownCorrect == Spec => WindsDown
<1>1. TypeOK /\ IInv /\ Unplugged /\ [Next]_vars =>
        [~online /\ ~late' =>
           \A t \in Thr :
               /\ jobs'[t] <= jobs[t]
               /\ pc[t] = "none" \/ pc'[t] = pc[t] \/ <<pc[t], pc'[t]>> \in WayOut]_vars
  BY WindsDownStep
<1>2. QED
  BY <1>1, TypeCorrect, Inductive, StaysUnplugged, PTL DEF Spec, WindsDown

-----------------------------------------------------------------------------
(* The server implements HttpPort.                                         *)

\* The phases, by their parts.
LEMMA PhaseParts ==
  /\ ~online /\ Opened => Phase = "left behind"
  /\ ~online /\ ~Opened => Phase = "off"
  /\ online /\ Opened => Phase = "open"
  /\ online /\ ~Opened /\ Coming => Phase = "starting"
  /\ online /\ ~Opened /\ ~Coming => Phase = "down"
BY DEF Phase

\* The same in the next state.
LEMMA NextPhaseParts ==
  /\ ~online' /\ Opened' => Phase' = "left behind"
  /\ ~online' /\ ~Opened' => Phase' = "off"
  /\ online' /\ Opened' => Phase' = "open"
  /\ online' /\ ~Opened' /\ Coming' => Phase' = "starting"
  /\ online' /\ ~Opened' /\ ~Coming' => Phase' = "down"
BY DEF Phase

\* A step that leaves the parts of the phase alone, and the jobs, is not seen.
LEMMA PhaseKept ==
  ASSUME UNCHANGED online, Opened' <=> Opened, Coming' <=> Coming
  PROVE  Phase' = Phase
<1>1. CASE online /\ Opened
  BY <1>1, PhaseParts, NextPhaseParts
<1>2. CASE ~online /\ Opened
  BY <1>2, PhaseParts, NextPhaseParts
<1>3. CASE ~online /\ ~Opened
  BY <1>3, PhaseParts, NextPhaseParts
<1>4. CASE online /\ ~Opened /\ Coming
  BY <1>4, PhaseParts, NextPhaseParts
<1>5. CASE online /\ ~Opened /\ ~Coming
  BY <1>5, PhaseParts, NextPhaseParts
<1>6. QED
  BY <1>1, <1>2, <1>3, <1>4, <1>5

\* What a thread that has not come to the port yet shows: it is the only one,
\* its server is online and has no open socket.
LEMMA ComingAlone ==
  ASSUME TypeOK, IInv, ~late, NEW t \in Thr, pc[t] \in {"bind", "create"}
  PROVE  /\ online /\ ~Opened /\ Coming
         /\ \A r \in Thr : r # t => pc[r] \in {"none", "done"}
<1>1. Serving /\ \A r \in Thr : Live(r) => r = t
  BY DEF IInv, Alone, Phases, Live, Starting
<1>2. t = thread
  BY <1>1 DEF IInv, Phases, Live
<1>3. ~Opened
  BY <1>1, <1>2 DEF IInv, Sockets, Holding, Opened
<1>4. QED
  BY <1>1, <1>3 DEF Coming, Live, Serving

\* The steps of a thread that has a socket are not seen at the port.
LEMMA QuietThread ==
  ASSUME TypeOK, NEW t \in Thr,
         \/ Fail(t) \/ Listen(t) \/ Loop(t) \/ AcceptClosed(t) \/ Failed(t)
         \/ Drain(t) \/ Exit(t) \/ Leave(t) \/ Retry(t) \/ AcceptError(t)
  PROVE  UNCHANGED <<Phase, jobs, late>>
<1> USE DEF TypeOK, PcSet, Goto, calls, server, threads, history
<1>1. UNCHANGED <<online, sock, jobs, late>>
  BY DEF Fail, Listen, Loop, AcceptClosed, Failed, Drain, Exit, Leave, Retry, AcceptError
<1>2. pc[t] \notin {"bind", "create"}
  BY DEF Fail, Listen, Loop, AcceptClosed, Failed, Drain, Exit, Leave, Retry, AcceptError
<1>3. pc'[t] \notin {"bind", "create"}
  BY DEF Fail, Listen, Loop, AcceptClosed, Failed, Drain, Exit, Leave, Retry, AcceptError
<1>4. \A r \in Thr : r # t => pc'[r] = pc[r]
  BY DEF Fail, Listen, Loop, AcceptClosed, Failed, Drain, Exit, Leave, Retry, AcceptError
<1>5. (Coming' <=> Coming) /\ (Opened' <=> Opened)
  BY <1>1, <1>2, <1>3, <1>4 DEF Coming, Opened
<1>6. QED
  BY <1>1, <1>5, PhaseKept

\* A socket is closed at the port only where it was open.
LEMMA ClosingShuts ==
  ASSUME TypeOK, IInv, ~late, UNCHANGED <<online, jobs, late>>, ~Coming, ~Coming',
         NEW r \in Sock \union {NoSock}, sock' = Closed(r),
         \A s \in Sock : sock[s] = "open" => s = r
  PROVE  Port!Next \/ UNCHANGED <<Phase, jobs, late>>
<1>1. ~Opened'
  BY DEF Closed, Opened, TypeOK
<1>2. CASE online /\ Opened
  <2>1. Port!Shut
    BY <1>1, <1>2, PhaseParts, NextPhaseParts DEF Port!Shut, Port!Turn
  <2>2. QED
    BY <2>1 DEF Port!Next
<1>3. CASE ~(online /\ Opened)
  <2>1. ~Opened
    BY <1>3 DEF IInv, Sockets, Calls, Opened
  <2>2. (Opened' <=> Opened) /\ (Coming' <=> Coming)
    BY <1>1, <2>1
  <2>3. QED
    BY <2>2, PhaseKept
<1>4. QED
  BY <1>2, <1>3

\* One step of the server is one of HttpPort, or not seen there.
LEMMA PortStep ==
  ASSUME TypeOK, IInv, [Next]_vars
  PROVE  [Port!Next]_<<Phase, jobs, late>>
<1> DEFINE Goal == Port!Next \/ UNCHANGED <<Phase, jobs, late>>
<1> USE ThrAssumption, SockAssumption, JobsAssumption
<1>0. CASE late'
  BY <1>0 DEF Port!Next, Port!Misuse
<1> SUFFICES ASSUME ~late' PROVE Goal
  BY <1>0
<1>a. ~late
  BY DEF Next, Main, Thread, vars, history, Bind, Create, Fail, Listen, Loop, AcceptClosed,
         Failed, Close, Drain, Exit, Leave, Accept, Retry, AcceptError, FinishJob, Start,
         Stop, StopSwap, StopClose, StopClear, StopJoin, Spawn
<1>b. \A s \in Sock : sock[s] = "open" => online
  BY <1>a DEF IInv, Sockets, Calls
<1> USE DEF calls, server, threads, history
<1>1. ASSUME NEW t \in Thr, Bind(t) PROVE Goal
  <2>1. UNCHANGED <<online, sock, jobs, late>> /\ pc[t] = "bind"
    BY <1>1 DEF Bind
  <2>2. /\ online /\ ~Opened /\ Coming
        /\ \A r \in Thr : r # t => pc[r] \in {"none", "done"}
    BY <1>a, <2>1, ComingAlone
  <2>3. Phase = "starting" /\ online' /\ ~Opened'
    BY <2>1, <2>2, PhaseParts DEF Opened
  <2>4. CASE decom
    <3>1. ~Coming'
      BY <1>1, <2>2, <2>4 DEF Bind, Goto, Coming, TypeOK
    <3>2. Port!Refuse
      BY <2>1, <2>3, <3>1, NextPhaseParts DEF Port!Refuse, Port!Turn
    <3>3. QED
      BY <3>2 DEF Port!Next
  <2>5. CASE ~decom
    <3>1. Coming'
      BY <1>1, <2>5 DEF Bind, Goto, Coming, TypeOK
    <3>2. QED
      BY <2>1, <2>3, <3>1, NextPhaseParts
  <2>6. QED
    BY <2>4, <2>5
<1>2. ASSUME NEW t \in Thr, Create(t) PROVE Goal
  <2>1. UNCHANGED <<online, jobs, late>> /\ pc[t] = "create"
    BY <1>2 DEF Create
  <2>2. /\ online /\ ~Opened /\ Coming
        /\ \A r \in Thr : r # t => pc[r] \in {"none", "done"}
    BY <1>a, <2>1, ComingAlone
  <2>3. Phase = "starting" /\ online'
    BY <2>1, <2>2, PhaseParts
  <2>4. ~Coming'
    BY <1>2, <2>2 DEF Create, Goto, Coming, TypeOK
  <2>5. CASE Opened'
    <3>1. Port!Open
      BY <2>1, <2>3, <2>5, NextPhaseParts DEF Port!Open, Port!Turn
    <3>2. QED
      BY <3>1 DEF Port!Next
  <2>6. CASE ~Opened'
    <3>1. Port!Refuse
      BY <2>1, <2>3, <2>4, <2>6, NextPhaseParts DEF Port!Refuse, Port!Turn
    <3>2. QED
      BY <3>1 DEF Port!Next
  <2>7. QED
    BY <2>5, <2>6
<1>3. ASSUME NEW t \in Thr, Close(t) PROVE Goal
  <2>1. UNCHANGED <<online, jobs, late>> /\ sock' = Closed(svr) /\ pc[t] = "close"
    BY <1>3 DEF Close, CloseSocket
  <2>2. ~Coming
    BY <1>a, <2>1, ComingAlone DEF Coming
  <2>3. ~Coming'
    BY <1>3, <2>2 DEF Close, Goto, Coming, TypeOK
  <2>4. CASE main # "close"
    <3>1. \A s \in Sock : sock[s] = "open" => s = svr
      BY <1>a, <2>4 DEF IInv, Sockets
    <3>2. QED
      BY <1>a, <2>1, <2>2, <2>3, <3>1, ClosingShuts DEF TypeOK
  <2>5. CASE main = "close"
    <3>1. sock' = sock
      BY <1>a, <2>1, <2>5 DEF IInv, Sockets, Closed, TypeOK
    <3>2. QED
      BY <2>1, <2>2, <2>3, <3>1, PhaseKept DEF Opened
  <2>6. QED
    BY <2>4, <2>5
<1>4. ASSUME NEW t \in Thr, Accept(t) PROVE Goal
  <2>1. UNCHANGED <<online, sock, late>> /\ pc[t] = "accept" /\ IsOpen(fd[t])
    BY <1>4 DEF Accept
  <2>2. online /\ Opened
    BY <1>b, <2>1 DEF IsOpen, Opened, TypeOK
  <2>3. Phase = "open" /\ Phase' = "open"
    BY <2>1, <2>2, PhaseParts, NextPhaseParts DEF Opened
  <2>4. Port!Connect(t)
    BY <1>4, <2>1, <2>3 DEF Accept, Port!Connect
  <2>5. QED
    BY <2>4 DEF Port!Next
<1>5. ASSUME NEW t \in Thr, FinishJob(t) PROVE Goal
  <2>1. UNCHANGED <<online, sock, pc, late>>
    BY <1>5 DEF FinishJob
  <2>2. Phase' = Phase
    BY <2>1, PhaseKept DEF Opened, Coming
  <2>3. Port!Finish(t)
    BY <1>5, <2>1, <2>2 DEF FinishJob, HasJob, Port!Finish
  <2>4. QED
    BY <2>3 DEF Port!Next
<1>6. CASE Start \/ StopSwap \/ StopJoin \/ (\E restart \in BOOLEAN : Stop(restart)) \/ UNCHANGED vars
  <2>1. UNCHANGED <<online, sock, pc, jobs>>
    BY <1>6 DEF Start, StopSwap, StopJoin, Stop, vars
  <2>2. Phase' = Phase
    BY <2>1, PhaseKept DEF Opened, Coming
  <2>3. late' \in BOOLEAN
    BY TypeStep DEF TypeOK
  <2>4. QED
    BY <1>a, <2>1, <2>2, <2>3 DEF TypeOK
<1>7. CASE StopClose
  <2>1. UNCHANGED <<online, jobs, late, pc>> /\ sock' = Closed(own) /\ main = "close"
    BY <1>7 DEF StopClose, CloseSocket
  <2>2. ~Coming /\ ~Coming'
    BY <1>a, <2>1 DEF IInv, Phases, Serving, Starting, Coming
  <2>3. \A s \in Sock : sock[s] = "open" => s = own
    BY <1>a, <2>1 DEF IInv, Sockets
  <2>4. QED
    BY <1>a, <2>1, <2>2, <2>3, ClosingShuts DEF TypeOK
<1>8. CASE StopClear
  <2>1. UNCHANGED <<jobs, late>> /\ online /\ ~online' /\ main = "clear"
    BY <1>8 DEF StopClear, IInv, Calls
  <2>2. ~Coming /\ ~Opened /\ ~Opened'
    BY <1>a, <1>8, <2>1 DEF IInv, Phases, Sockets, Serving, Starting, StopClear, Coming, Opened
  <2>3. Port!Stop
    BY <2>1, <2>2, PhaseParts, NextPhaseParts DEF Port!Stop, Port!Turn
  <2>4. QED
    BY <2>3 DEF Port!Next
<1>9. ASSUME NEW t \in Thr, Spawn(t) PROVE Goal
  <2>0. late \in BOOLEAN /\ late' \in BOOLEAN
    BY TypeStep DEF TypeOK
  <2>1. UNCHANGED <<sock, jobs, late>> /\ ~online /\ online'
    BY <1>9, <1>a, <2>0 DEF Spawn, IInv, Calls
  <2>2. ~Opened /\ ~Opened'
    BY <1>b, <2>1 DEF Opened
  <2>3. Coming'
    BY <1>9 DEF Spawn, Goto, Coming, TypeOK
  <2>4. Port!Start
    BY <2>1, <2>2, <2>3, PhaseParts, NextPhaseParts DEF Port!Start, Port!Turn
  <2>5. QED
    BY <2>4 DEF Port!Next
<1>10. QED
  BY <1>1, <1>2, <1>3, <1>4, <1>5, <1>6, <1>7, <1>8, <1>9, QuietThread DEF Next, Main, Thread

\* HttpServer::Start and Stop implement HttpPort: until one of them comes too
\* early, the port opens once for each Start, is closed before the server is
\* offline, and is the only way to a connection.
THEOREM ImplementsPort == Spec => PortSpec
<1>1. Init => Port!Init
  <2>1. ASSUME Init PROVE ~online /\ ~Opened
    BY <2>1 DEF Init, Opened
  <2>2. QED
    BY <2>1, PhaseParts DEF Init, Port!Init
<1>2. TypeOK /\ IInv /\ [Next]_vars => [Port!Next]_<<Phase, jobs, late>>
  BY PortStep
<1>3. QED
  BY <1>1, <1>2, TypeCorrect, Inductive, PTL DEF Spec, PortSpec, Port!Spec
=============================================================================
