--------------------------- MODULE HttpConnection ---------------------------
(***************************************************************************)
(* One connection of a client, as a thread of the pool serves it:          *)
(* process_server_socket_core, keep_alive, process_request and what they   *)
(* call (src/source/httplib.h).  HttpListener counts it as a job, and      *)
(* HttpServer starts where Handle does.                                    *)
(*                                                                         *)
(* A request is a line, its header fields and perhaps content.  Each of    *)
(* them arrives whole or not at all.  The thread knows where one request   *)
(* ends only by reading it, and each exchange has a read buffer of its     *)
(* own (SocketStream), which takes what the socket holds and is forgotten  *)
(* with the exchange.                                                      *)
(***************************************************************************)
EXTENDS Naturals, Sequences

CONSTANTS
    Requests,      \* the requests clients make, see Request
    KeepAliveMax,  \* keep_alive_max_count_
    MaxAsked       \* bound on the requests of the client

\* What the code tells requests apart by.
Request == [
    line    : BOOLEAN,                  \* parse_request_line takes the line
    fields  : BOOLEAN,                  \* read_headers takes the fields
    fits    : BOOLEAN,                  \* the target is not too long
    range   : BOOLEAN,                  \* parse_range_header takes the range, if there is one
    ends    : {"no", "said", "old"},    \* "Connection: close", or HTTP/1.0
    content : {"none",                  \* nothing says there is content
               "sized",                 \* Content-Length, within payload_max_length_
               "large",                 \* Content-Length beyond it
               "packed",                \* Content-Encoding: gzip
               "expect",                \* sent after "100 Continue" only
               "unsized"}]              \* POST without Content-Length

ASSUME RequestsAssumption == Requests \subseteq Request
ASSUME CountAssumption == KeepAliveMax \in Nat \ {0}
ASSUME AskedAssumption == MaxAsked \in Nat

VARIABLES
    asked,     \* the requests of the client, in order
    parts,     \* what it has not sent of the last one
    told,      \* it has read "100 Continue" for it
    away,      \* it has closed its end
    untimely,  \* history: it asked before the last answer, or sent a part too late
    unread,    \* what the server has received and not read
    buffered,  \* how much of that is in the buffer of this exchange
    exchange,  \* the thread: where it is, and the request it works on
    answers,   \* the responses it has sent
    stopped    \* svr_sock_ is INVALID_SOCKET

client == <<asked, parts, told, away, untimely>>
stream == <<unread, buffered>>
vars   == <<client, stream, exchange, answers, stopped>>

PcSet  == {"idle", "line", "fields", "again", "content", "handler", "write", "closed"}
Status == {0, 200, 400, 404, 413, 414, 415, 416}
Item   == [of: 1..MaxAsked, part: {"line", "fields", "content", "rest"}]

TypeOK ==
    /\ asked \in Seq(Requests) /\ Len(asked) <= MaxAsked
    /\ parts \in Seq({"line", "fields", "content"})
    /\ told \in BOOLEAN /\ away \in BOOLEAN /\ untimely \in BOOLEAN
    /\ unread \in Seq(Item)
    /\ buffered \in 0..Len(unread)
    /\ exchange \in [pc: PcSet, count: 0..KeepAliveMax, of: 0..MaxAsked,
                     status: Status, said: BOOLEAN, closed: BOOLEAN]
    /\ answers \in Seq([of: 0..MaxAsked, status: Status, closes: BOOLEAN])
    /\ stopped \in BOOLEAN

Idle(n) == [pc |-> "idle", count |-> n, of |-> 0, status |-> 0, said |-> FALSE, closed |-> FALSE]

Init ==
    /\ asked = <<>> /\ parts = <<>>
    /\ told = FALSE /\ away = FALSE /\ untimely = FALSE
    /\ unread = <<>> /\ buffered = 0
    /\ exchange = Idle(KeepAliveMax)
    /\ answers = <<>>
    /\ stopped = FALSE

-----------------------------------------------------------------------------
(* The client and Stop. *)

Parts(r) == IF r.content \in {"none", "unsized"}
            THEN <<"line", "fields">> ELSE <<"line", "fields", "content">>

\* An answer to the last request has come.
Answered == Len(answers) >= Len(asked)

Ask ==
    /\ ~away /\ exchange.pc # "closed"
    /\ parts = <<>> /\ Len(asked) < MaxAsked
    /\ \E r \in Requests :
         /\ asked' = Append(asked, r)
         /\ parts' = Parts(r)
    /\ told' = FALSE
    /\ untimely' = (untimely \/ ~Answered)
    /\ UNCHANGED <<away, stream, exchange, answers, stopped>>

Send ==
    /\ parts # <<>> /\ exchange.pc # "closed"
    /\ Head(parts) = "content" /\ asked[Len(asked)].content = "expect" => told
    /\ unread' = Append(unread, [of |-> Len(asked), part |-> Head(parts)])
    /\ parts' = Tail(parts)
    /\ untimely' = (untimely \/ Answered \/ (exchange.pc = "write" /\ exchange.of = Len(asked)))
    /\ UNCHANGED <<asked, told, away, buffered, exchange, answers, stopped>>

\* It was refused before it was told to go on.
Withhold ==
    /\ parts = <<"content">> /\ ~told /\ Answered
    /\ asked[Len(asked)].content = "expect"
    /\ parts' = <<>>
    /\ UNCHANGED <<asked, told, away, untimely, stream, exchange, answers, stopped>>

Leave ==
    /\ ~away
    /\ away' = TRUE
    /\ parts' = <<>>
    /\ UNCHANGED <<asked, told, untimely, stream, exchange, answers, stopped>>

\* Server::stop
Stop ==
    /\ ~stopped
    /\ stopped' = TRUE
    /\ UNCHANGED <<client, stream, exchange, answers>>

Environment == Ask \/ Send \/ Withhold \/ Leave \/ Stop

-----------------------------------------------------------------------------
(* Reading. *)

\* SocketStream::read: when the buffer is empty, it takes over any beginning
\* of what the socket holds.
BufferAfter(taken) ==
    IF buffered > 0 THEN buffered' = buffered - taken
                    ELSE buffered' \in 0..Len(unread) - taken

\* Mutant: what was looked at stays to be read.
Consume_Peek == unread' = unread /\ BufferAfter(0)

Consume == unread' = Tail(unread) /\ BufferAfter(1)

\* Of fields or content a line was wanted: more lines may be left of it.
Nibble ==
    /\ Head(unread).part \in {"fields", "content", "rest"}
    /\ unread' = <<[Head(unread) EXCEPT !.part = "rest"]>> \o Tail(unread)
    /\ BufferAfter(0)

\* Mutant: no timeout of select.
NothingComes_Gone == unread = <<>> /\ away /\ UNCHANGED stream

\* is_readable gave up, or the client has gone and everything is read.
NothingComes == unread = <<>> /\ UNCHANGED stream

Goto(l)    == exchange' = [exchange EXCEPT !.pc = l]
Respond(s) == exchange' = [exchange EXCEPT !.pc = "write", !.status = s]

Close ==
    /\ exchange' = [exchange EXCEPT !.pc = "closed"]
    /\ unread' = <<>> /\ buffered' = 0

-----------------------------------------------------------------------------
(* process_server_socket_core and keep_alive. *)

\* Mutant: the count is one too small.
Serves_Early == exchange.count > 1

Serves == exchange.count > 0

Ready ==
    /\ exchange.pc = "idle" /\ Serves
    /\ unread # <<>> \/ away
    /\ Goto("line")
    /\ UNCHANGED <<client, stream, answers, stopped>>

\* keep_alive_timeout_sec_ passes, the listening socket is closed, or the
\* count is used up.
GivesUp ==
    /\ exchange.pc = "idle"
    /\ \/ ~Serves
       \/ stopped
       \/ unread = <<>>
    /\ Close
    /\ UNCHANGED <<client, answers, stopped>>

-----------------------------------------------------------------------------
(* process_request *)

GoodLine(item) == item.part = "line" /\ asked[item.of].line

ReadLine ==
    /\ exchange.pc = "line" /\ unread # <<>>
    /\ GoodLine(Head(unread))
    /\ Consume
    /\ exchange' = [exchange EXCEPT !.pc = "fields", !.of = Head(unread).of]
    /\ UNCHANGED <<client, answers, stopped>>

\* The fields are not read.
ReadBadLine ==
    /\ exchange.pc = "line" /\ unread # <<>>
    /\ ~GoodLine(Head(unread))
    /\ Consume \/ Nibble
    /\ exchange' = [exchange EXCEPT !.pc = "write", !.status = 400,
                      !.of = IF Head(unread).part = "line" THEN Head(unread).of ELSE 0]
    /\ UNCHANGED <<client, answers, stopped>>

ReadNoLine ==
    /\ exchange.pc = "line" /\ unread = <<>>
    /\ Close
    /\ UNCHANGED <<client, answers, stopped>>

Current == asked[exchange.of]

\* Each refusal before routing, in the order of the code; 0 if there is none.
Refusal(r) ==
    IF ~r.range THEN 416
    ELSE IF r.content = "packed" THEN 415
    ELSE 0

\* Mutant: content that is too long is left where it is.
ReadsContent_NotLarge(r) == r.content \in {"sized", "expect", "unsized"}

ReadsContent(r) == r.content \in {"sized", "large", "expect", "unsized"}

NextStep(r) ==
    IF ~r.fits THEN "again"
    ELSE IF Refusal(r) # 0 THEN "write"
    ELSE IF ReadsContent(r) THEN "content"
    ELSE "handler"

\* Between the fields and the content come the checks and "100 Continue".
ReadFields ==
    /\ exchange.pc = "fields" /\ unread # <<>>
    /\ Current.fields
    /\ Consume
    /\ exchange' = [exchange EXCEPT !.pc = NextStep(Current), !.status = Refusal(Current),
                      !.said = Current.ends = "said",
                      !.closed = Current.fits /\ Current.ends # "no"]
    /\ told' = (told \/ (NextStep(Current) = "content" /\ Current.content = "expect"))
    /\ UNCHANGED <<asked, parts, away, untimely, answers, stopped>>

\* A field that is not one ends the reading; "Connection" may come before it.
ReadBadFields ==
    /\ exchange.pc = "fields" /\ unread # <<>>
    /\ ~Current.fields
    /\ Consume \/ Nibble
    /\ \E said \in {FALSE, Current.ends = "said"} :
         exchange' = [exchange EXCEPT !.pc = "write", !.status = 400, !.said = said]
    /\ UNCHANGED <<client, answers, stopped>>

ReadNoFields ==
    /\ exchange.pc = "fields" /\ NothingComes
    /\ Respond(400)
    /\ UNCHANGED <<client, answers, stopped>>

\* A target that is too long: the fields have been read, and read_headers is
\* called again.
ReadAgain ==
    /\ exchange.pc = "again"
    /\ \/ unread # <<>> /\ (Consume \/ Nibble)
       \/ NothingComes
    /\ Respond(414)
    /\ UNCHANGED <<client, answers, stopped>>

ReadContent ==
    /\ exchange.pc = "content" /\ unread # <<>>
    /\ Current.content \in {"sized", "expect"}
    /\ Consume
    /\ Goto("handler")
    /\ UNCHANGED <<client, answers, stopped>>

\* skip_content_with_length
SkipContent ==
    /\ exchange.pc = "content" /\ unread # <<>>
    /\ Current.content = "large"
    /\ Consume
    /\ Respond(413)
    /\ UNCHANGED <<client, answers, stopped>>

\* read_content_without_length takes all there is.
ReadOn ==
    /\ exchange.pc = "content" /\ unread # <<>>
    /\ Current.content = "unsized"
    /\ Consume
    /\ UNCHANGED <<client, exchange, answers, stopped>>

ReadNoContent ==
    /\ exchange.pc = "content" /\ NothingComes
    /\ Respond(IF Current.content = "large" THEN 413 ELSE 400)
    /\ UNCHANGED <<client, answers, stopped>>

\* Routing: a file or a handler, or none for the path.  An exception gives 500
\* in the way of 404.
Handle ==
    /\ exchange.pc = "handler"
    /\ \E s \in {200, 404} : Respond(s)
    /\ UNCHANGED <<client, stream, answers, stopped>>

-----------------------------------------------------------------------------
(* write_response and the end of the exchange. *)

\* Mutant: the last exchange is taken for the one after it.
LastOfAll_Late == exchange.count = 0

LastOfAll == exchange.count = 1

\* What the buffer holds is lost.
ForgetBuffer ==
    /\ unread' = SubSeq(unread, buffered + 1, Len(unread))
    /\ buffered' = 0

\* Mutant: an exchange does not count.
After_Uncounted == Idle(exchange.count)

After == Idle(exchange.count - 1)

Write ==
    /\ exchange.pc = "write"
    /\ answers' = Append(answers, [of |-> exchange.of, status |-> exchange.status,
                                   closes |-> LastOfAll \/ exchange.said])
    /\ IF exchange.closed THEN Close
                          ELSE ForgetBuffer /\ exchange' = After
    /\ UNCHANGED <<client, stopped>>

\* The client is not there any more.
WriteFails ==
    /\ exchange.pc = "write" /\ away
    /\ Close
    /\ UNCHANGED <<client, answers, stopped>>

-----------------------------------------------------------------------------
Read == \/ ReadLine \/ ReadBadLine \/ ReadNoLine
        \/ ReadFields \/ ReadBadFields \/ ReadNoFields \/ ReadAgain
        \/ ReadContent \/ SkipContent \/ ReadOn \/ ReadNoContent

Serve == Ready \/ GivesUp \/ Read \/ Handle \/ Write \/ WriteFails

Next == Environment \/ Serve

Spec == Init /\ [][Next]_vars

\* The thread goes on; every wait of it has a timeout, and Handle is as fair as
\* the script that answers (HttpServer!HandledIsAnswered).
FairSpec == Spec /\ WF_vars(Serve)
-----------------------------------------------------------------------------
(* Properties. *)

\* Answers after which the thread may not have read the whole request.
LosesStep == {400, 414, 415, 416}

\* A client that waits for each answer gets the answer to its own request, as
\* long as no request before was refused unread: a request that is refused
\* after its content (404, 413, 500) costs the connection nothing.  A client
\* whose content is late can be answered before it, and goes out of step.
InStep ==
    ~untimely =>
        \A i \in DOMAIN answers :
            (\A j \in 1..i - 1 : answers[j].status \notin LosesStep) => answers[i].of = i

\* What a client is told of the connection: after "Connection: close" nothing
\* follows, unless the request was refused before process_request had looked
\* at its "Connection" field; and the last answer it can get says so.
CloseIsAnnounced ==
    /\ Len(answers) <= KeepAliveMax
    /\ \A i \in DOMAIN answers :
         /\ answers[i].closes /\ i < Len(answers) => answers[i].status \in {400, 414}
         /\ i = KeepAliveMax => answers[i].closes

Ends == exchange.pc # "closed" /\ exchange'.pc = "closed"
Promised == answers' # <<>> /\ ~answers'[Len(answers')].closes
SaidOld == answers'[Len(answers')].of # 0 /\ asked[answers'[Len(answers')].of].ends = "old"

\* Having promised to keep the connection alive, the server ends it only while
\* nothing of the client waits to be read, unless it was stopped, the client
\* has gone or spoke HTTP/1.0.
PromiseKept == [][Ends /\ Promised => unread = <<>> \/ stopped \/ away \/ SaidOld]_vars

\* How much the thread can still do if the client sends no more: what there is
\* to read, the statements of this exchange, and six for each further one.
Work ==
    LET ahead == CASE exchange.pc = "idle"                  -> 6
                   [] exchange.pc = "line"                  -> 5
                   [] exchange.pc = "fields"                -> 4
                   [] exchange.pc \in {"again", "content"}  -> 3
                   [] exchange.pc = "handler"               -> 2
                   [] OTHER                                 -> 1
    IN  IF exchange.pc = "closed" THEN 0 ELSE 6 * exchange.count + ahead + Len(unread)

\* A client keeps the thread no longer than it pays for: each step of the thread
\* brings it nearer to the end of the connection, and each part that arrives
\* puts that off by one step.
WorkBounded ==
    [][/\ Work' \in Nat
       /\ Serve => Work' < Work
       /\ ~Serve => Work' <= Work + (Len(unread') - Len(unread))]_vars

Channel == INSTANCE HttpChannel WITH
    Most    <- KeepAliveMax,
    asked   <- Len(asked),
    answers <- [i \in DOMAIN answers |-> answers[i].of],
    open    <- exchange.pc # "closed"

\* Whatever the client sends and when, no request is answered twice, before it
\* was asked or after a later one.
ChannelSpec == Channel!Spec

\* A request that finds the thread waiting is answered, whatever is wrong with
\* it, unless the client leaves or the server is stopped.
Heard == (exchange.pc = "idle" /\ unread # <<>> /\ Serves) ~> (exchange.pc = "write" \/ away \/ stopped)

\* Every connection ends, and gives its thread back to the pool.
ThreadReturns == <>(exchange.pc = "closed")
=============================================================================
