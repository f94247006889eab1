---------------------------- MODULE HttpListener ----------------------------
(***************************************************************************)
(* HttpServer::Start and HttpServer::Stop                                  *)
(* (src/source/modules/httpserver.cpp) against the listening threads they  *)
(* create and do not always see the end of (src/source/httplib.h).         *)
(*                                                                         *)
(* All listening threads of a server share one httplib::Server: svr_sock_, *)
(* is_running_ and is_decommisioned.  Stop waits 100 ms for its thread,    *)
(* which first waits for the exchanges in its pool, and forgets it.        *)
(*                                                                         *)
(* A socket is never reused here, so that one that is closed twice can be  *)
(* told; in the process its number may belong to somebody else by then.    *)
(***************************************************************************)
EXTENDS Naturals, FiniteSets

CONSTANTS
    Thr,      \* listening threads, each of them made once
    Sock,     \* listening sockets that can be created
    NoSock,   \* INVALID_SOCKET
    NoThr,    \* nullptr
    MaxJobs   \* bound on the exchanges in the pool of one thread

ASSUME SockAssumption == NoSock \notin Sock
ASSUME ThrAssumption  == NoThr \notin Thr
ASSUME JobsAssumption == MaxJobs \in Nat \ {0}

VARIABLES
    online,   \* m_iStatus = HTTPSERVER_ONLINE
    thread,   \* m_pServerThread
    main,     \* where the main thread is in Stop
    again,    \* Stop was called by Start
    own,      \* the socket Stop has taken out of svr_sock_
    svr,      \* svr_sock_
    running,  \* is_running_
    decom,    \* is_decommisioned
    pc,       \* where each listening thread is in listen
    fd,       \* the socket its accept was called with
    ret,      \* ret of listen_internal
    jobs,     \* exchanges its pool has not finished
    sock,     \* external: the sockets of the system
    erred,    \* history: accept has failed on an open socket
    twice,    \* history: a socket was closed twice
    late      \* history: Start or Stop came while a thread was not ready for it

calls   == <<online, thread, main, again, own>>
server  == <<svr, running, decom>>
threads == <<pc, fd, ret, jobs>>
history == <<erred, twice, late>>
vars    == <<calls, server, threads, sock, history>>

PcSet == {"none", "bind", "create", "fail", "listen", "loop", "accept", "failed",
          "close", "drain", "exit", "leave", "done"}

TypeOK ==
    /\ online \in BOOLEAN /\ again \in BOOLEAN
    /\ thread \in Thr \union {NoThr}
    /\ main \in {"lua", "swap", "close", "clear", "join", "spawn"}
    /\ own \in Sock \union {NoSock}
    /\ svr \in Sock \union {NoSock}
    /\ running \in BOOLEAN /\ decom \in BOOLEAN
    /\ pc \in [Thr -> PcSet]
    /\ fd \in [Thr -> Sock \union {NoSock}]
    /\ ret \in [Thr -> BOOLEAN]
    /\ jobs \in [Thr -> 0 .. MaxJobs]
    /\ sock \in [Sock -> {"new", "open", "closed"}]
    /\ erred \in BOOLEAN /\ twice \in BOOLEAN /\ late \in BOOLEAN

Init ==
    /\ online = FALSE /\ thread = NoThr /\ main = "lua" /\ again = FALSE /\ own = NoSock
    /\ svr = NoSock /\ running = FALSE /\ decom = FALSE
    /\ pc = [t \in Thr |-> "none"]
    /\ fd = [t \in Thr |-> NoSock]
    /\ ret = [t \in Thr |-> TRUE]
    /\ jobs = [t \in Thr |-> 0]
    /\ sock = [s \in Sock |-> "new"]
    /\ erred = FALSE /\ twice = FALSE /\ late = FALSE

-----------------------------------------------------------------------------
\* Mutant: the sockets stay open.
Closed_Not(s) == sock

\* The sockets once s is closed; closing INVALID_SOCKET does nothing.
Closed(s) == [r \in Sock |-> IF r = s THEN "closed" ELSE sock[r]]

CloseSocket(s) ==
    /\ sock' = Closed(s)
    /\ twice' = (twice \/ (s # NoSock /\ sock[s] = "closed"))

Goto(t, l) == pc' = [pc EXCEPT ![t] = l]

-----------------------------------------------------------------------------
(* httplib::Server::listen in thread t.                                    *)

\* bind_internal looks at is_decommisioned.
Bind(t) ==
    /\ pc[t] = "bind"
    /\ Goto(t, IF decom THEN "fail" ELSE "create")
    /\ UNCHANGED <<calls, server, fd, ret, jobs, sock, history>>

\* create_server_socket.  The port can be in use, the address unknown.
Create(t) ==
    /\ pc[t] = "create"
    /\ \/ \E s \in Sock :
            /\ sock[s] = "new"
            /\ sock' = [sock EXCEPT ![s] = "open"]
            /\ svr' = s
            /\ Goto(t, "listen")
       \/ /\ svr' = NoSock
          /\ Goto(t, "fail")
          /\ UNCHANGED sock
    /\ UNCHANGED <<calls, running, decom, fd, ret, jobs, history>>

\* bind_to_port notes the failure, and the thread ends.
Fail(t) ==
    /\ pc[t] = "fail"
    /\ decom' = TRUE
    /\ Goto(t, "done")
    /\ UNCHANGED <<calls, svr, running, fd, ret, jobs, sock, history>>

\* listen_internal.
Listen(t) ==
    /\ pc[t] = "listen"
    /\ IF decom
       THEN Goto(t, "done") /\ UNCHANGED running
       ELSE Goto(t, "loop") /\ running' = TRUE
    /\ UNCHANGED <<calls, svr, decom, fd, ret, jobs, sock, history>>

\* The condition of the loop, and the argument of accept.
Loop(t) ==
    /\ pc[t] = "loop"
    /\ Goto(t, IF svr # NoSock THEN "accept" ELSE "drain")
    /\ fd' = [fd EXCEPT ![t] = svr]
    /\ UNCHANGED <<calls, server, ret, jobs, sock, history>>

IsOpen(s) == s # NoSock /\ sock[s] = "open"

\* A connection: enqueue takes it, the pool of this server has no limit.
Accept(t) ==
    /\ pc[t] = "accept" /\ IsOpen(fd[t])
    /\ jobs[t] < MaxJobs
    /\ jobs' = [jobs EXCEPT ![t] = @ + 1]
    /\ Goto(t, "loop")
    /\ UNCHANGED <<calls, server, fd, ret, sock, history>>

\* EMFILE, EINTR, EAGAIN, or a select that has timed out.
Retry(t) ==
    /\ pc[t] = "accept" /\ IsOpen(fd[t])
    /\ Goto(t, "loop")
    /\ UNCHANGED <<calls, server, fd, ret, jobs, sock, history>>

\* accept fails on an open socket for another reason.
AcceptError(t) ==
    /\ pc[t] = "accept" /\ IsOpen(fd[t])
    /\ Goto(t, "failed")
    /\ erred' = TRUE
    /\ UNCHANGED <<calls, server, fd, ret, jobs, sock, twice, late>>

\* accept fails because the socket is closed, if need be while it waits.
AcceptClosed(t) ==
    /\ pc[t] = "accept" /\ ~IsOpen(fd[t])
    /\ Goto(t, "failed")
    /\ UNCHANGED <<calls, server, fd, ret, jobs, sock, history>>

\* "The server socket was closed by user", or else the thread closes it.
Failed(t) ==
    /\ pc[t] = "failed"
    /\ Goto(t, IF svr # NoSock THEN "close" ELSE "drain")
    /\ UNCHANGED <<calls, server, fd, ret, jobs, sock, history>>

\* close_socket(svr_sock_), which keeps its value.
Close(t) ==
    /\ pc[t] = "close"
    /\ CloseSocket(svr)
    /\ ret' = [ret EXCEPT ![t] = FALSE]
    /\ Goto(t, "drain")
    /\ UNCHANGED <<calls, server, fd, jobs, erred, late>>

\* task_queue->shutdown(): the pool threads finish every job before they end.
Drain(t) ==
    /\ pc[t] = "drain"
    /\ jobs[t] = 0
    /\ Goto(t, "exit")
    /\ UNCHANGED <<calls, server, fd, ret, jobs, sock, history>>

Exit(t) ==
    /\ pc[t] = "exit"
    /\ decom' = ~ret[t]
    /\ Goto(t, "leave")
    /\ UNCHANGED <<calls, svr, running, fd, ret, jobs, sock, history>>

\* Mutant: is_running_ stays set.
AfterListen_Running == TRUE

\* What the scope_exit of listen_internal sets is_running_ to.
AfterListen == FALSE

Leave(t) ==
    /\ pc[t] = "leave"
    /\ running' = AfterListen
    /\ Goto(t, "done")
    /\ UNCHANGED <<calls, svr, decom, fd, ret, jobs, sock, history>>

HasJob(t) == jobs[t] > 0

\* The pool finishes an exchange.
FinishJob(t) ==
    /\ HasJob(t)
    /\ jobs' = [jobs EXCEPT ![t] = @ - 1]
    /\ UNCHANGED <<calls, server, pc, fd, ret, sock, history>>

Thread(t) ==
    \/ Bind(t) \/ Create(t) \/ Fail(t) \/ Listen(t) \/ Loop(t) \/ AcceptClosed(t)
    \/ Failed(t) \/ Close(t) \/ Drain(t) \/ Exit(t) \/ Leave(t)

-----------------------------------------------------------------------------
(* The main thread.                                                        *)

\* HttpServer::Start of a server that is offline.
Start ==
    /\ main = "lua" /\ ~online
    /\ main' = "spawn"
    /\ UNCHANGED <<online, thread, again, own, server, threads, sock, history>>

\* HttpServer::Stop, or Start of a server that is online: stop() looks at
\* is_running_.  It is late if the thread has not come that far, and goes on.
Stop(restart) ==
    /\ main = "lua" /\ online
    /\ again' = restart
    /\ main' = IF running THEN "swap" ELSE "clear"
    /\ late' = (late \/ (~running /\ pc[thread] # "done"))
    /\ UNCHANGED <<online, thread, own, server, threads, sock, erred, twice>>

\* Mutant: svr_sock_ is read but not exchanged.
Exchanged_Kept == svr

\* What stop() leaves in svr_sock_.
Exchanged == NoSock

StopSwap ==
    /\ main = "swap"
    /\ own' = svr
    /\ svr' = Exchanged
    /\ main' = "close"
    /\ UNCHANGED <<online, thread, again, running, decom, threads, sock, history>>

\* shutdown_socket and close_socket.
StopClose ==
    /\ main = "close"
    /\ CloseSocket(own)
    /\ own' = NoSock
    /\ main' = "clear"
    /\ UNCHANGED <<online, thread, again, server, threads, erred, late>>

\* Mutant: stop() does not reset it.
Recommissioned_Not == decom

\* What stop() sets is_decommisioned to.
Recommissioned == FALSE

StopClear ==
    /\ main = "clear"
    /\ decom' = Recommissioned
    /\ online' = FALSE
    /\ main' = "join"
    /\ UNCHANGED <<thread, again, own, svr, running, threads, sock, history>>

\* ThreadJoin returns after 100 ms, whatever the thread does.
StopJoin ==
    /\ main = "join"
    /\ thread' = NoThr
    /\ main' = IF again THEN "spawn" ELSE "lua"
    /\ again' = FALSE
    /\ UNCHANGED <<online, own, server, threads, sock, history>>

\* CreateSimpleThread.  It is late if an earlier thread has not ended.
Spawn(t) ==
    /\ main = "spawn"
    /\ pc[t] = "none"
    /\ thread' = t
    /\ Goto(t, "bind")
    /\ online' = TRUE
    /\ main' = "lua"
    /\ late' = (late \/ \E r \in Thr : pc[r] \notin {"none", "done"})
    /\ UNCHANGED <<again, own, server, fd, ret, jobs, sock, erred, twice>>

Main ==
    \/ Start \/ StopSwap \/ StopClose \/ StopClear \/ StopJoin
    \/ \E restart \in BOOLEAN : Stop(restart)
    \/ \E t \in Thr : Spawn(t)

-----------------------------------------------------------------------------
Next ==
    \/ Main
    \/ \E t \in Thr : Thread(t) \/ Accept(t) \/ Retry(t) \/ AcceptError(t) \/ FinishJob(t)

\* The threads are scheduled, and Stop runs to its end.  Connections need not
\* come, and nothing obliges a script to answer the exchanges in the pool.
Fairness ==
    /\ \A t \in Thr : WF_vars(Thread(t))
    /\ WF_vars(StopSwap \/ StopClose \/ StopClear \/ StopJoin)

Spec == Init /\ [][Next]_vars
FairSpec == Spec /\ Fairness

-----------------------------------------------------------------------------
(* Safety.                                                                 *)

\* Only an error of accept, or a Start or Stop that comes too early, lets a
\* socket be closed twice: the exchange of svr_sock_ tells Stop and the thread
\* apart.
ClosedOnce == twice => erred \/ late

\* A server that has failed to bind can be started again: the new thread is
\* not refused because of the old failure.
FreshStart == ~late /\ ~erred => \A t \in Thr : pc[t] = "bind" => ~decom

\* assert(svr_sock_ != INVALID_SOCKET) in httplib::Server::stop holds as long as
\* Start and Stop leave the threads the time they need.  If they do not,
\* is_running_ can be that of a thread whose successor has no socket yet.
StopInTimeHasSocket == ~late => (main = "swap" => svr # NoSock)

\* The statements of a thread whose server is offline.
WayOut == {<<"loop", "drain">>, <<"accept", "failed">>, <<"failed", "drain">>,
           <<"close", "drain">>, <<"drain", "exit">>, <<"exit", "leave">>, <<"leave", "done">>}

\* A thread that is left to itself when the join gives up only goes to its end:
\* it takes no connection, and does not try again.
WindsDown ==
    [][~online /\ ~late' =>
           \A t \in Thr :
               /\ jobs'[t] <= jobs[t]
               /\ pc[t] = "none" \/ pc'[t] = pc[t] \/ <<pc[t], pc'[t]>> \in WayOut]_vars

-----------------------------------------------------------------------------
(* The server as its script and its clients see it.                        *)

Opened == \E s \in Sock : sock[s] = "open"
Coming == \E t \in Thr : pc[t] \in {"bind", "create"}

\* HttpPort has no phase in which an open port is left behind.
Phase ==
    CASE Opened /\ online                -> "open"
      [] Opened /\ ~online               -> "left behind"
      [] ~Opened /\ ~online              -> "off"
      [] ~Opened /\ online /\ Coming     -> "starting"
      [] ~Opened /\ online /\ ~Coming    -> "down"

Port == INSTANCE HttpPort WITH phase <- Phase, connections <- jobs, misused <- late

\* As long as no call comes too early, the port opens once for each Start, is
\* closed before the server is offline and stays so, whether the thread was
\* waiting, accepting, failing or had failed to bind, and is the only way to a
\* connection.
PortSpec == Port!Spec

-----------------------------------------------------------------------------
(* Liveness.                                                               *)

\* A thread that Stop waits for ends once its exchanges have, whatever it is
\* doing when the socket is closed.
StoppedEnds ==
    \A t \in Thr :
        []<>(jobs[t] = 0) => ((main = "join" /\ thread = t) ~> (pc[t] = "done" \/ late))
=============================================================================
