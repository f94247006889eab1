------------------------ MODULE HttpConnectionProofs -------------------------
(***************************************************************************)
(* Proofs about HttpConnection, for any requests, any                      *)
(* keep_alive_max_count_ and any number of requests of the client.         *)
(*                                                                         *)
(* The count and the answers add up (Counted), which bounds what a client  *)
(* is told of the connection (Announced, Owed).  For InStep the thread     *)
(* must be known to be where the client takes it to be in the bytes of the *)
(* one request that is under way (Turn).                                   *)
(***************************************************************************)
EXTENDS HttpConnection, TLAPS

\* What is read of, or worked on, was asked.
Known ==
    /\ parts # <<>> => asked # <<>>
    /\ \A i \in DOMAIN unread : unread[i].of \in DOMAIN asked
    /\ exchange.of \in 0..Len(asked)
    /\ exchange.pc \in {"fields", "again", "content", "handler"} => exchange.of # 0

Counted ==
    /\ Len(answers) <= KeepAliveMax
    /\ exchange.pc # "closed" => Len(answers) + exchange.count = KeepAliveMax
    /\ exchange.pc \notin {"idle", "closed"} => exchange.count > 0

\* As long as the connection is open, each answer that closes is the last of all
\* or one given before the fields were understood.
Announced ==
    \A i \in DOMAIN answers :
        /\ i = KeepAliveMax => answers[i].closes
        /\ answers[i].closes /\ i < KeepAliveMax /\ (i < Len(answers) \/ exchange.pc # "closed") =>
             answers[i].status \in {400, 414}

\* What the thread has noted of the "Connection" field.
Owed ==
    /\ exchange.pc \in {"idle", "line", "fields"} => ~exchange.said /\ ~exchange.closed
    /\ exchange.pc = "again" => ~exchange.closed
    /\ exchange.pc \in {"content", "handler"} => (exchange.said => exchange.closed)
    /\ exchange.pc = "write" => (exchange.said => exchange.closed \/ exchange.status \in {400, 414})
    /\ exchange.pc # "closed" /\ exchange.closed =>
         /\ exchange.of # 0
         /\ exchange.said \/ asked[exchange.of].ends = "old"

\* Of the last request r parts are read, some wait to be read, and some are not
\* sent.
InPlace(r) ==
    LET P == Parts(asked[Len(asked)])
    IN  /\ \A i \in 1..Len(unread) : unread[i] = [of |-> Len(asked), part |-> P[r + i]]
        /\ \A i \in 1..Len(parts) : parts[i] = P[r + Len(unread) + i]
        /\ r + Len(unread) + Len(parts) <= Len(P)

Orderly == ~untimely /\ \A j \in DOMAIN answers : answers[j].status \notin LosesStep

Turn ==
    Orderly /\ exchange.pc # "closed" =>
        \/ /\ Len(asked) = Len(answers)
           /\ exchange.pc \in {"idle", "line"} /\ unread = <<>>
        \/ /\ Len(asked) = Len(answers) + 1
           /\ exchange.pc \in {"idle", "line"} => InPlace(0)
           /\ exchange.pc \notin {"idle", "line"} => exchange.of = Len(asked)
           /\ exchange.pc = "fields" => InPlace(1)
           /\ exchange.pc = "content" => InPlace(2)
           /\ exchange.pc = "handler" => unread = <<>> /\ parts = <<>>
           /\ exchange.pc = "write" /\ exchange.status \notin LosesStep => unread = <<>>

IInv == Known /\ Counted /\ Announced /\ Owed /\ Turn /\ InStep

-----------------------------------------------------------------------------
\* The type of what the thread works on.
Exchange == [pc: PcSet, count: 0..KeepAliveMax, of: 0..MaxAsked,
             status: Status, said: BOOLEAN, closed: BOOLEAN]

LEMMA ExchangeType == TypeOK => exchange \in Exchange
BY DEF TypeOK, Exchange

LEMMA Literals ==
  /\ {"idle", "line", "fields", "again", "content", "handler", "write", "closed"} \subseteq PcSet
  /\ {0, 200, 400, 404, 413, 414, 415, 416} \subseteq Status
BY DEF PcSet, Status

LEMMA GotoType ==
  ASSUME TypeOK, NEW l \in PcSet, Goto(l)
  PROVE  exchange' \in Exchange
BY ExchangeType DEF Goto, Exchange

LEMMA RespondType ==
  ASSUME TypeOK, NEW s \in Status, Respond(s)
  PROVE  exchange' \in Exchange
<1>1. "write" \in PcSet
  BY Literals
<1>2. QED
  BY <1>1, ExchangeType DEF Respond, Exchange

LEMMA AskedType ==
  ASSUME TypeOK, NEW k \in DOMAIN asked
  PROVE  asked[k] \in Request
<1>1. asked[k] \in Requests
  BY DEF TypeOK
<1>2. QED
  BY <1>1, RequestsAssumption

LEMMA PartsType ==
  ASSUME NEW r
  PROVE  /\ Parts(r) \in Seq({"line", "fields", "content"})
         /\ Parts(r)[1] = "line" /\ Parts(r)[2] = "fields"
         /\ r.content \in {"none", "unsized"} => Len(Parts(r)) = 2
         /\ r.content \notin {"none", "unsized"} => Len(Parts(r)) = 3 /\ Parts(r)[3] = "content"
<1>1. CASE r.content \in {"none", "unsized"}
  BY <1>1 DEF Parts
<1>2. CASE r.content \notin {"none", "unsized"}
  BY <1>2 DEF Parts
<1>3. QED
  BY <1>1, <1>2

\* What reading does to what waits to be read.
LEMMA ConsumeReads ==
  ASSUME TypeOK, unread # <<>>, Consume
  PROVE  /\ unread' \in Seq(Item) /\ buffered' \in 0..Len(unread')
         /\ Len(unread') = Len(unread) - 1
         /\ \A i \in 1..Len(unread') : unread'[i] = unread[i + 1]
         /\ unread' = <<>> <=> Len(unread) = 1
<1>1. unread \in Seq(Item) /\ Len(unread) \in Nat /\ Len(unread) > 0 /\ unread' = Tail(unread)
  BY DEF TypeOK, Consume
<1>2. /\ unread' \in Seq(Item) /\ Len(unread') = Len(unread) - 1
      /\ \A i \in 1..Len(unread') : unread'[i] = unread[i + 1]
  BY <1>1
<1>3. unread' = <<>> <=> Len(unread) = 1
  BY <1>1, <1>2
<1>4. buffered' \in 0..Len(unread')
  BY <1>1, <1>2 DEF TypeOK, Consume, BufferAfter
<1>5. QED
  BY <1>2, <1>3, <1>4

LEMMA NibbleReads ==
  ASSUME TypeOK, unread # <<>>, Nibble
  PROVE  /\ unread' \in Seq(Item) /\ buffered' \in 0..Len(unread')
         /\ Len(unread') = Len(unread)
         /\ \A i \in 1..Len(unread') : unread'[i].of = unread[i].of
         /\ \A i \in 1..Len(unread') : unread'[i].part = "line" => unread[i].part = "line"
<1>1. unread \in Seq(Item) /\ Len(unread) \in Nat /\ Len(unread) > 0
  BY DEF TypeOK
<1>2. DEFINE first == [Head(unread) EXCEPT !.part = "rest"]
<1>3. Head(unread) \in Item /\ Head(unread) = unread[1]
  BY <1>1
<1>4. first \in Item /\ first.of = unread[1].of /\ first.part = "rest"
  BY <1>3 DEF Item
<1>5. unread' = <<first>> \o Tail(unread)
  BY DEF Nibble
<1> HIDE DEF first
<1>6. Tail(unread) \in Seq(Item) /\ Len(Tail(unread)) = Len(unread) - 1
      /\ \A i \in 1..Len(unread) - 1 : Tail(unread)[i] = unread[i + 1]
  BY <1>1
<1>7. <<first>> \in Seq(Item) /\ Len(<<first>>) = 1 /\ <<first>>[1] = first
  BY <1>4
<1>8. /\ unread' \in Seq(Item)
      /\ Len(unread') = Len(unread)
  BY <1>1, <1>5, <1>6, <1>7
<1>9. \A i \in 1..Len(unread') : unread'[i] = IF i = 1 THEN first ELSE unread[i]
  BY <1>1, <1>5, <1>6, <1>7, <1>8
<1>10. buffered' \in 0..Len(unread')
  BY <1>1, <1>8 DEF TypeOK, Nibble, BufferAfter
<1>11. QED
  BY <1>4, <1>8, <1>9, <1>10

LEMMA ForgetReads ==
  ASSUME TypeOK, ForgetBuffer
  PROVE  /\ unread' \in Seq(Item) /\ buffered' = 0
         /\ Len(unread') = Len(unread) - buffered
         /\ \A i \in 1..Len(unread') : unread'[i] = unread[i + buffered]
         /\ unread = <<>> => unread' = <<>>
<1>1. unread \in Seq(Item) /\ Len(unread) \in Nat /\ buffered \in 0..Len(unread)
  BY DEF TypeOK
<1>2. unread' = SubSeq(unread, buffered + 1, Len(unread)) /\ buffered' = 0
  BY DEF ForgetBuffer
<1>3. /\ unread' \in Seq(Item)
      /\ Len(unread') = Len(unread) - buffered
      /\ \A i \in 1..Len(unread') : unread'[i] = unread[i + buffered]
  BY <1>1, <1>2
<1>4. unread = <<>> => unread' = <<>>
  BY <1>1, <1>3
<1>5. QED
  BY <1>2, <1>3, <1>4

\* What is left to be read after reading was there before.
LEMMA ReadsKnown ==
  ASSUME TypeOK, Known, unread # <<>>, Consume \/ Nibble
  PROVE  /\ \A i \in DOMAIN unread' : unread'[i].of \in DOMAIN asked
         /\ Head(unread).of \in DOMAIN asked
<1>1. unread \in Seq(Item) /\ Len(unread) \in Nat /\ Len(unread) > 0 /\ DOMAIN unread = 1..Len(unread)
      /\ Head(unread) = unread[1]
  BY DEF TypeOK
<1>2. CASE Consume
  <2>1. unread' \in Seq(Item) /\ Len(unread') = Len(unread) - 1
        /\ \A i \in 1..Len(unread') : unread'[i] = unread[i + 1]
    BY <1>2, ConsumeReads
  <2>2. DOMAIN unread' = 1..Len(unread')
    BY <2>1
  <2>3. \A i \in 1..Len(unread') : i + 1 \in 1..Len(unread)
    BY <1>1, <2>1
  <2>4. \A i \in 1..Len(unread) : unread[i].of \in DOMAIN asked
    BY <1>1 DEF Known
  <2>5. \A i \in 1..Len(unread') : unread'[i].of \in DOMAIN asked
    BY <2>1, <2>3, <2>4
  <2>6. unread[1].of \in DOMAIN asked
    BY <1>1, <2>4
  <2>7. QED
    BY <1>1, <2>2, <2>5, <2>6
<1>3. CASE Nibble
  <2>1. unread' \in Seq(Item) /\ Len(unread') = Len(unread)
        /\ \A i \in 1..Len(unread') : unread'[i].of = unread[i].of
    BY <1>3, NibbleReads
  <2>2. QED
    BY <1>1, <2>1 DEF Known
<1>4. QED
  BY <1>2, <1>3

\* The last request, and where the thread is in it.
LEMMA ConsumeAdvances ==
  ASSUME TypeOK, unread # <<>>, Consume, UNCHANGED <<asked, parts>>, NEW r \in 0..2, InPlace(r)
  PROVE  /\ InPlace(r + 1)'
         /\ Head(unread).of = Len(asked)
         /\ Head(unread).part = Parts(asked[Len(asked)])[r + 1]
<1>1. unread \in Seq(Item) /\ Len(unread) \in Nat /\ Len(unread) > 0 /\ Head(unread) = unread[1]
  BY DEF TypeOK
<1>2. Len(unread') = Len(unread) - 1 /\ \A i \in 1..Len(unread') : unread'[i] = unread[i + 1]
  BY ConsumeReads
<1>3. Head(unread) = [of |-> Len(asked), part |-> Parts(asked[Len(asked)])[r + 1]]
  <2>1. 1 \in 1..Len(unread)
    BY <1>1
  <2>2. QED
    BY <1>1, <2>1 DEF InPlace
<1>4. \A i \in 1..Len(unread') :
         unread'[i] = [of |-> Len(asked), part |-> Parts(asked[Len(asked)])[(r + 1) + i]]
  <2>1. ASSUME NEW i \in 1..Len(unread')
        PROVE  unread'[i] = [of |-> Len(asked), part |-> Parts(asked[Len(asked)])[(r + 1) + i]]
    <3>1. i + 1 \in 1..Len(unread) /\ r + (i + 1) = (r + 1) + i
      BY <1>1, <1>2
    <3>2. unread[i + 1] = [of |-> Len(asked), part |-> Parts(asked[Len(asked)])[r + (i + 1)]]
      BY <3>1 DEF InPlace
    <3>3. QED
      BY <1>2, <3>1, <3>2
  <2>2. QED
    BY <2>1
<1>5. (r + 1) + Len(unread') = r + Len(unread)
  BY <1>1, <1>2
<1>6. /\ \A i \in 1..Len(parts) : parts[i] = Parts(asked[Len(asked)])[(r + 1) + Len(unread') + i]
      /\ (r + 1) + Len(unread') + Len(parts) <= Len(Parts(asked[Len(asked)]))
  BY <1>5 DEF InPlace
<1>7. InPlace(r + 1)'
  <2> DEFINE P == Parts(asked[Len(asked)])
  <2>1. asked' = asked /\ parts' = parts /\ P' = P
    OBVIOUS
  <2>2. QED
    BY <1>4, <1>6, <2>1, Zenon DEF InPlace
<1>8. QED
  BY <1>3, <1>7

LEMMA SendStays ==
  ASSUME TypeOK, Send, NEW r \in 0..2, InPlace(r)
  PROVE  InPlace(r)'
<1>1. /\ parts # <<>> /\ asked' = asked /\ parts' = Tail(parts)
      /\ unread' = Append(unread, [of |-> Len(asked), part |-> Head(parts)])
  BY DEF Send
<1>2. /\ parts \in Seq({"line", "fields", "content"}) /\ Len(parts) \in Nat /\ Len(parts) > 0
      /\ unread \in Seq(Item) /\ Len(unread) \in Nat
  BY <1>1 DEF TypeOK
<1>3. /\ Len(parts') = Len(parts) - 1 /\ \A i \in 1..Len(parts') : parts'[i] = parts[i + 1]
      /\ Head(parts) = parts[1]
  BY <1>1, <1>2
<1>4. /\ Len(unread') = Len(unread) + 1
      /\ unread'[Len(unread) + 1] = [of |-> Len(asked), part |-> Head(parts)]
      /\ \A i \in 1..Len(unread) : unread'[i] = unread[i]
  BY <1>1, <1>2
<1>5. DEFINE P == Parts(asked[Len(asked)])
<1>6. parts[1] = P[r + Len(unread) + 1]
  BY <1>2 DEF InPlace
<1>7. \A i \in 1..Len(unread') : unread'[i] = [of |-> Len(asked), part |-> P[r + i]]
  <2>1. r + (Len(unread) + 1) = r + Len(unread) + 1
    BY <1>2
  <2>2. \A i \in 1..Len(unread') : i \in 1..Len(unread) \/ i = Len(unread) + 1
    BY <1>2, <1>4
  <2>3. QED
    BY <1>3, <1>4, <1>6, <2>1, <2>2 DEF InPlace
<1>8. \A i \in 1..Len(parts') : parts'[i] = P[r + Len(unread') + i]
  <2>1. ASSUME NEW i \in 1..Len(parts')
        PROVE  parts'[i] = P[r + Len(unread') + i]
    <3>1. i + 1 \in 1..Len(parts) /\ r + Len(unread) + (i + 1) = r + Len(unread') + i
      BY <1>2, <1>3, <1>4
    <3>2. parts[i + 1] = P[r + Len(unread) + (i + 1)]
      BY <3>1 DEF InPlace
    <3>3. QED
      BY <1>3, <3>1, <3>2
  <2>2. QED
    BY <2>1
<1>9. r + Len(unread') + Len(parts') <= Len(P)
  <2>1. r + Len(unread) + Len(parts) <= Len(P)
    BY DEF InPlace
  <2>2. r + Len(unread') + Len(parts') = r + Len(unread) + Len(parts)
    BY <1>2, <1>3, <1>4
  <2>3. QED
    BY <2>1, <2>2
<1>10. QED
  BY <1>1, <1>7, <1>8, <1>9 DEF InPlace

LEMMA OtherwiseStays ==
  ASSUME TypeOK, UNCHANGED <<asked, unread>>, parts' = parts \/ parts' = <<>>,
         NEW r \in 0..2, InPlace(r)
  PROVE  InPlace(r)'
<1>1. Len(unread) \in Nat /\ Len(parts) \in Nat /\ Len(parts') \in Nat /\ Len(parts') <= Len(parts)
  BY DEF TypeOK
<1>2. Len(Parts(asked[Len(asked)])) \in Nat
  BY PartsType
<1>3. \A i \in 1..Len(parts') : parts'[i] = parts[i]
  BY <1>1
<1>4. QED
  BY <1>1, <1>2, <1>3 DEF InPlace

LEMMA NothingLeft ==
  ASSUME TypeOK, NEW r \in 0..3, InPlace(r), Len(Parts(asked[Len(asked)])) = r
  PROVE  unread = <<>> /\ parts = <<>>
<1>1. Len(unread) \in Nat /\ Len(parts) \in Nat /\ Len(unread) = 0 /\ Len(parts) = 0
  BY DEF InPlace, TypeOK
<1>2. QED
  BY <1>1 DEF TypeOK

\* Only an answer or the client can disturb the order.
LEMMA OrderlyBefore ==
  ASSUME UNCHANGED answers, untimely => untimely', Orderly'
  PROVE  Orderly
BY DEF Orderly

-----------------------------------------------------------------------------
\* Types are kept by every step.
LEMMA TypeStep ==
  ASSUME TypeOK, IInv, [Next]_vars
  PROVE  TypeOK'
<1> USE RequestsAssumption, CountAssumption, AskedAssumption
<1> USE DEF TypeOK, client, stream
<1>1. CASE Ask
  <2>1. PICK r \in Requests : asked' = Append(asked, r) /\ parts' = Parts(r)
    BY <1>1 DEF Ask
  <2>2. asked' \in Seq(Requests) /\ Len(asked') = Len(asked) + 1
    BY <2>1
  <2>3. parts' \in Seq({"line", "fields", "content"})
    BY <2>1, PartsType
  <2>4. untimely' \in BOOLEAN /\ told' \in BOOLEAN
    BY <1>1 DEF Ask
  <2>5. QED
    BY <1>1, <2>2, <2>3, <2>4 DEF Ask
<1>2. CASE Send
  <2>1. [of |-> Len(asked), part |-> Head(parts)] \in Item
    <3>1. Len(asked) # 0
      BY <1>2 DEF Send, IInv, Known
    <3>2. QED
      BY <1>2, <3>1 DEF Send, Item
  <2>2. unread' \in Seq(Item) /\ buffered' \in 0..Len(unread')
    BY <1>2, <2>1 DEF Send
  <2>3. parts' \in Seq({"line", "fields", "content"})
    BY <1>2 DEF Send
  <2>4. untimely' \in BOOLEAN
    BY <1>2 DEF Send
  <2>5. QED
    BY <1>2, <2>2, <2>3, <2>4 DEF Send
<1>3. CASE Withhold
  BY <1>3 DEF Withhold, Answered
<1>4. CASE Leave
  BY <1>4 DEF Leave
<1>5. CASE Stop
  BY <1>5 DEF Stop
<1>6. CASE Ready
  <2>1. exchange' \in Exchange
    BY <1>6, Literals, GotoType DEF Ready
  <2>2. QED
    BY <1>6, <2>1 DEF Ready, Exchange
<1>7. CASE GivesUp
  <2>1. exchange' \in Exchange
    BY <1>7, ExchangeType DEF GivesUp, Close, Exchange, PcSet
  <2>2. unread' \in Seq(Item) /\ buffered' \in 0..Len(unread')
    BY <1>7 DEF GivesUp, Close
  <2>3. QED
    BY <1>7, <2>1, <2>2 DEF GivesUp, Exchange
<1>8. CASE ReadLine
  <2>1. Head(unread).of \in 0..MaxAsked
    <3>1. Head(unread) \in Item
      BY <1>8 DEF ReadLine
    <3>2. QED
      BY <3>1 DEF Item
  <2>2. PICK k \in 0..MaxAsked : exchange' = [exchange EXCEPT !.pc = "fields", !.of = k]
    BY <1>8, <2>1 DEF ReadLine
  <2>3. exchange' \in Exchange
    <3>1. "fields" \in PcSet /\ "write" \in PcSet /\ 400 \in Status
      BY Literals
    <3>2. QED
      BY <2>2, <3>1, ExchangeType DEF Exchange
  <2>4. unread' \in Seq(Item) /\ buffered' \in 0..Len(unread')
    BY <1>8, ConsumeReads DEF ReadLine
  <2>5. QED
    BY <1>8, <2>3, <2>4 DEF ReadLine, Exchange
<1>9. CASE ReadBadLine
  <2>1. Head(unread).of \in 0..MaxAsked
    <3>1. Head(unread) \in Item
      BY <1>9 DEF ReadBadLine
    <3>2. QED
      BY <3>1 DEF Item
  <2>2. PICK k \in 0..MaxAsked : exchange' = [exchange EXCEPT !.pc = "write", !.status = 400, !.of = k]
    <3>1. CASE Head(unread).part = "line"
      <4>1. exchange' = [exchange EXCEPT !.pc = "write", !.status = 400, !.of = Head(unread).of]
        BY <1>9, <3>1 DEF ReadBadLine
      <4>2. QED
        BY <2>1, <4>1, ZenonT(40)
    <3>2. CASE Head(unread).part # "line"
      <4>1. 0 \in 0..MaxAsked
        OBVIOUS
      <4>2. QED
        BY <1>9, <3>2, <4>1 DEF ReadBadLine
    <3>3. QED
      BY <3>1, <3>2
  <2>3. exchange' \in Exchange
    <3>1. "fields" \in PcSet /\ "write" \in PcSet /\ 400 \in Status
      BY Literals
    <3>2. QED
      BY <2>2, <3>1, ExchangeType, ZenonT(40) DEF Exchange
  <2>4. unread' \in Seq(Item) /\ buffered' \in 0..Len(unread')
    BY <1>9, ConsumeReads, NibbleReads DEF ReadBadLine
  <2>5. QED
    BY <1>9, <2>3, <2>4 DEF ReadBadLine, Exchange
<1>10. CASE ReadNoLine
  <2>1. exchange' \in Exchange
    BY <1>10, ExchangeType DEF ReadNoLine, Close, Exchange, PcSet
  <2>2. unread' \in Seq(Item) /\ buffered' \in 0..Len(unread')
    BY <1>10 DEF ReadNoLine, Close
  <2>3. QED
    BY <1>10, <2>1, <2>2 DEF ReadNoLine, Exchange
<1>11. CASE ReadFields
  <2>1. NextStep(Current) \in PcSet /\ Refusal(Current) \in Status
    BY DEF NextStep, Refusal, PcSet, Status
  <2>2. (Current.ends = "said") \in BOOLEAN /\ (Current.fits /\ Current.ends # "no") \in BOOLEAN
    OBVIOUS
  <2>3. exchange' \in Exchange
    BY <1>11, <2>1, <2>2, ExchangeType DEF ReadFields, Exchange
  <2>4. unread' \in Seq(Item) /\ buffered' \in 0..Len(unread')
    BY <1>11, ConsumeReads DEF ReadFields
  <2>5. told' \in BOOLEAN
    BY <1>11 DEF ReadFields
  <2>6. QED
    BY <1>11, <2>3, <2>4, <2>5 DEF ReadFields, Exchange
<1>12. CASE ReadBadFields
  <2>1. PICK said \in {FALSE, Current.ends = "said"} :
          exchange' = [exchange EXCEPT !.pc = "write", !.status = 400, !.said = said]
    BY <1>12 DEF ReadBadFields
  <2>2. said \in BOOLEAN
    BY <2>1
  <2>3. exchange' \in Exchange
    <3>1. "write" \in PcSet /\ 400 \in Status
      BY Literals
    <3>2. QED
      BY <2>1, <2>2, <3>1, ExchangeType, ZenonT(40) DEF Exchange
  <2>4. unread' \in Seq(Item) /\ buffered' \in 0..Len(unread')
    BY <1>12, ConsumeReads, NibbleReads DEF ReadBadFields
  <2>5. QED
    BY <1>12, <2>3, <2>4 DEF ReadBadFields, Exchange
<1>13. CASE ReadNoFields
  <2>1. exchange' \in Exchange
    BY <1>13, RespondType, Literals DEF ReadNoFields
  <2>2. unread' = unread /\ buffered' = buffered
    BY <1>13 DEF ReadNoFields, NothingComes
  <2>3. QED
    BY <1>13, <2>1, <2>2 DEF ReadNoFields, Exchange
<1>14. CASE ReadAgain
  <2>1. exchange' \in Exchange
    BY <1>14, RespondType, Literals DEF ReadAgain
  <2>2. unread' \in Seq(Item) /\ buffered' \in 0..Len(unread')
    BY <1>14, ConsumeReads, NibbleReads DEF ReadAgain, NothingComes
  <2>3. QED
    BY <1>14, <2>1, <2>2 DEF ReadAgain, Exchange
<1>15. CASE ReadContent
  <2>1. exchange' \in Exchange
    BY <1>15, Literals, GotoType DEF ReadContent
  <2>2. unread' \in Seq(Item) /\ buffered' \in 0..Len(unread')
    BY <1>15, ConsumeReads DEF ReadContent
  <2>3. QED
    BY <1>15, <2>1, <2>2 DEF ReadContent, Exchange
<1>16. CASE SkipContent
  <2>1. exchange' \in Exchange
    BY <1>16, Literals, RespondType DEF SkipContent
  <2>2. unread' \in Seq(Item) /\ buffered' \in 0..Len(unread')
    BY <1>16, ConsumeReads DEF SkipContent
  <2>3. QED
    BY <1>16, <2>1, <2>2 DEF SkipContent, Exchange
<1>17. CASE ReadOn
  <2>1. exchange' \in Exchange
    BY <1>17, Literals, ExchangeType DEF ReadOn, Exchange
  <2>2. unread' \in Seq(Item) /\ buffered' \in 0..Len(unread')
    BY <1>17, ConsumeReads DEF ReadOn
  <2>3. QED
    BY <1>17, <2>1, <2>2 DEF ReadOn, Exchange
<1>18. CASE ReadNoContent
  <2>1. exchange' \in Exchange
    BY <1>18, RespondType, Literals DEF ReadNoContent
  <2>2. unread' = unread /\ buffered' = buffered
    BY <1>18 DEF ReadNoContent, NothingComes
  <2>3. QED
    BY <1>18, <2>1, <2>2 DEF ReadNoContent, Exchange
<1>19. CASE Handle
  <2>1. exchange' \in Exchange
    BY <1>19, Literals, RespondType DEF Handle
  <2>2. QED
    BY <1>19, <2>1 DEF Handle, Exchange
<1>20. CASE Write
  <2>1. [of |-> exchange.of, status |-> exchange.status, closes |-> LastOfAll \/ exchange.said]
          \in [of: 0..MaxAsked, status: Status, closes: BOOLEAN]
    BY ExchangeType DEF Exchange, LastOfAll
  <2>2. answers' \in Seq([of: 0..MaxAsked, status: Status, closes: BOOLEAN])
    BY <1>20, <2>1 DEF Write
  <2>3. CASE exchange.closed
    <3>1. exchange' \in Exchange
      BY <1>20, <2>3, ExchangeType DEF Write, Close, Exchange, PcSet
    <3>2. unread' \in Seq(Item) /\ buffered' \in 0..Len(unread')
      BY <1>20, <2>3 DEF Write, Close
    <3>3. QED
      BY <1>20, <2>2, <3>1, <3>2 DEF Write, Exchange
  <2>4. CASE ~exchange.closed
    <3>1. ForgetBuffer /\ exchange' = Idle(exchange.count - 1)
      BY <1>20, <2>4 DEF Write, After
    <3>2. exchange.count - 1 \in 0..KeepAliveMax
      BY <1>20, ExchangeType DEF Write, IInv, Counted, Exchange
    <3>3. exchange' \in Exchange
      BY <3>1, <3>2 DEF Idle, Exchange, PcSet, Status
    <3>4. unread' \in Seq(Item) /\ buffered' \in 0..Len(unread')
      BY <3>1, ForgetReads
    <3>5. QED
      BY <1>20, <2>2, <3>3, <3>4 DEF Write, Exchange
  <2>5. QED
    BY <2>3, <2>4
<1>21. CASE WriteFails
  <2>1. exchange' \in Exchange
    BY <1>21, ExchangeType DEF WriteFails, Close, Exchange, PcSet
  <2>2. unread' \in Seq(Item) /\ buffered' \in 0..Len(unread')
    BY <1>21 DEF WriteFails, Close
  <2>3. QED
    BY <1>21, <2>1, <2>2 DEF WriteFails, Exchange
<1>22. CASE UNCHANGED vars
  BY <1>22 DEF vars
<1> QED
  BY <1>1, <1>2, <1>3, <1>4, <1>5, <1>6, <1>7, <1>8, <1>9, <1>10, <1>11, <1>12, <1>13,
     <1>14, <1>15, <1>16, <1>17, <1>18, <1>19, <1>20, <1>21, <1>22
  DEF Next, Environment, Serve, Read

\* The client asks before it sends; the thread works on what it has read.
LEMMA KnownStep ==
  ASSUME TypeOK, IInv, [Next]_vars
  PROVE  Known'
<1> USE RequestsAssumption, CountAssumption, AskedAssumption
<1> USE DEF Known, client, stream
<1>1. CASE Ask
  BY <1>1, ExchangeType DEF Ask, Answered, IInv, TypeOK, Exchange
<1>2. CASE Send
  BY <1>2, ExchangeType, SMTT(30) DEF Send, Answered, IInv, TypeOK, Exchange
<1>3. CASE Withhold
  BY <1>3, ExchangeType DEF Withhold, Answered, IInv, TypeOK, Exchange
<1>4. CASE Leave
  BY <1>4, ExchangeType DEF Leave, IInv, TypeOK, Exchange
<1>5. CASE Stop
  BY <1>5, ExchangeType DEF Stop, IInv, TypeOK, Exchange
<1>6. CASE Ready
  BY <1>6, ExchangeType DEF Ready, Serves, Goto, IInv, TypeOK, Exchange
<1>7. CASE GivesUp
  <2>1. exchange' = [exchange EXCEPT !.pc = "closed"] /\ unread' = <<>>
    BY <1>7 DEF GivesUp, Close
  <2>2. QED
    BY <1>7, <2>1, ExchangeType DEF GivesUp, IInv, Exchange
<1>8. CASE ReadLine
  <2>1. \A i \in DOMAIN unread' : unread'[i].of \in DOMAIN asked
    BY <1>8, ReadsKnown DEF ReadLine, IInv
  <2>2. asked \in Seq(Requests) /\ Len(asked) \in Nat
    BY DEF TypeOK
  <2>3. exchange'.of \in 0..Len(asked) /\ exchange'.of # 0
    BY <1>8, <2>2, ReadsKnown, ExchangeType DEF ReadLine, IInv, Exchange
  <2>4. QED
    BY <1>8, <2>1, <2>3 DEF ReadLine, IInv
<1>9. CASE ReadBadLine
  <2>1. \A i \in DOMAIN unread' : unread'[i].of \in DOMAIN asked
    BY <1>9, ReadsKnown DEF ReadBadLine, IInv
  <2>2. asked \in Seq(Requests) /\ Len(asked) \in Nat
    BY DEF TypeOK
  <2>3. exchange'.of \in 0..Len(asked) /\ exchange'.pc = "write"
    BY <1>9, <2>2, ReadsKnown, ExchangeType DEF ReadBadLine, IInv, Exchange
  <2>4. QED
    BY <1>9, <2>1, <2>3 DEF ReadBadLine, IInv
<1>10. CASE ReadNoLine
  BY <1>10, ExchangeType DEF ReadNoLine, Close, IInv, TypeOK, Exchange
<1>11. CASE ReadFields
  <2>1. \A i \in DOMAIN unread' : unread'[i].of \in DOMAIN asked
    BY <1>11, ReadsKnown DEF ReadFields, IInv
  <2>2. exchange'.of = exchange.of /\ exchange'.pc # "fields"
        /\ (exchange'.pc \in {"again", "content", "handler"} => exchange.of # 0)
    BY <1>11, ExchangeType DEF ReadFields, NextStep, Known, IInv, Exchange
  <2>3. QED
    BY <1>11, <2>1, <2>2 DEF ReadFields, IInv
<1>12. CASE ReadBadFields
  <2>1. \A i \in DOMAIN unread' : unread'[i].of \in DOMAIN asked
    BY <1>12, ReadsKnown DEF ReadBadFields, IInv
  <2>2. exchange'.of = exchange.of /\ exchange'.pc # "fields"
        /\ (exchange'.pc \in {"again", "content", "handler"} => exchange.of # 0)
    BY <1>12, ExchangeType DEF ReadBadFields, IInv, Exchange
  <2>3. QED
    BY <1>12, <2>1, <2>2 DEF ReadBadFields, IInv
<1>13. CASE ReadNoFields
  BY <1>13, ExchangeType DEF ReadNoFields, NothingComes, Respond, IInv, TypeOK, Exchange
<1>14. CASE ReadAgain
  <2>1. CASE unread # <<>> /\ (Consume \/ Nibble)
    <3>1. \A i \in DOMAIN unread' : unread'[i].of \in DOMAIN asked
      BY <2>1, ReadsKnown DEF IInv
    <3>2. QED
      BY <1>14, <3>1, ExchangeType DEF ReadAgain, Respond, IInv, Exchange
  <2>2. CASE NothingComes
    BY <1>14, <2>2, ExchangeType DEF ReadAgain, NothingComes, Respond, IInv, Exchange
  <2>3. QED
    BY <1>14, <2>1, <2>2 DEF ReadAgain
<1>15. CASE ReadContent
  <2>1. \A i \in DOMAIN unread' : unread'[i].of \in DOMAIN asked
    BY <1>15, ReadsKnown DEF ReadContent, IInv
  <2>2. exchange'.of = exchange.of /\ exchange'.pc # "fields"
        /\ (exchange'.pc \in {"again", "content", "handler"} => exchange.of # 0)
    BY <1>15, ExchangeType DEF ReadContent, Goto, IInv, Exchange
  <2>3. QED
    BY <1>15, <2>1, <2>2 DEF ReadContent, IInv
<1>16. CASE SkipContent
  <2>1. \A i \in DOMAIN unread' : unread'[i].of \in DOMAIN asked
    BY <1>16, ReadsKnown DEF SkipContent, IInv
  <2>2. exchange'.of = exchange.of /\ exchange'.pc # "fields"
        /\ (exchange'.pc \in {"again", "content", "handler"} => exchange.of # 0)
    BY <1>16, ExchangeType DEF SkipContent, Respond, IInv, Exchange
  <2>3. QED
    BY <1>16, <2>1, <2>2 DEF SkipContent, IInv
<1>17. CASE ReadOn
  <2>1. \A i \in DOMAIN unread' : unread'[i].of \in DOMAIN asked
    BY <1>17, ReadsKnown DEF ReadOn, IInv
  <2>2. exchange'.of = exchange.of /\ exchange'.pc # "fields"
        /\ (exchange'.pc \in {"again", "content", "handler"} => exchange.of # 0)
    BY <1>17, ExchangeType DEF ReadOn, IInv, Exchange
  <2>3. QED
    BY <1>17, <2>1, <2>2 DEF ReadOn, IInv
<1>18. CASE ReadNoContent
  BY <1>18, ExchangeType DEF ReadNoContent, NothingComes, Respond, Current, IInv, TypeOK, Exchange
<1>19. CASE Handle
  BY <1>19, ExchangeType DEF Handle, Respond, IInv, TypeOK, Exchange
<1>20. CASE Write
  <2>1. CASE exchange.closed
    BY <1>20, <2>1, ExchangeType DEF Write, Close, IInv, Exchange
  <2>2. CASE ~exchange.closed
    <3>1. ForgetBuffer /\ exchange' = Idle(exchange.count - 1)
      BY <1>20, <2>2 DEF Write, After
    <3>2. exchange'.of = 0 /\ exchange'.pc = "idle"
      BY <3>1 DEF Idle
    <3>3. unread' \in Seq(Item) /\ Len(unread') = Len(unread) - buffered
          /\ \A i \in 1..Len(unread') : unread'[i] = unread[i + buffered]
      BY <3>1, ForgetReads
    <3>4. \A i \in DOMAIN unread' : unread'[i].of \in DOMAIN asked
      <4>1. DOMAIN unread' = 1..Len(unread') /\ unread \in Seq(Item) /\ DOMAIN unread = 1..Len(unread)
        BY <3>3 DEF TypeOK
      <4>2. \A i \in 1..Len(unread') : i + buffered \in 1..Len(unread)
        BY <3>3, <4>1 DEF TypeOK
      <4>3. QED
        BY <3>3, <4>1, <4>2 DEF IInv
    <3>5. asked' = asked /\ parts' = parts /\ Len(asked) \in Nat
      BY <1>20 DEF Write, TypeOK
    <3>6. QED
      BY <3>2, <3>4, <3>5 DEF IInv
  <2>3. QED
    BY <2>1, <2>2
<1>21. CASE WriteFails
  BY <1>21, ExchangeType DEF WriteFails, Close, IInv, TypeOK, Exchange
<1>22. CASE UNCHANGED vars
  BY <1>22 DEF vars, IInv
<1> QED
  BY <1>1, <1>2, <1>3, <1>4, <1>5, <1>6, <1>7, <1>8, <1>9, <1>10, <1>11, <1>12, <1>13,
     <1>14, <1>15, <1>16, <1>17, <1>18, <1>19, <1>20, <1>21, <1>22
  DEF Next, Environment, Serve, Read

\* Each answer takes one off the count.
LEMMA CountedStep ==
  ASSUME TypeOK, IInv, [Next]_vars
  PROVE  Counted'
<1> USE RequestsAssumption, CountAssumption, AskedAssumption
<1> USE DEF Counted, client, stream
<1>1. CASE Ask
  BY <1>1, ExchangeType DEF Ask, Answered, IInv, TypeOK, Exchange
<1>2. CASE Send
  BY <1>2, ExchangeType DEF Send, Answered, IInv, TypeOK, Exchange
<1>3. CASE Withhold
  BY <1>3, ExchangeType DEF Withhold, Answered, IInv, TypeOK, Exchange
<1>4. CASE Leave
  BY <1>4, ExchangeType DEF Leave, IInv, TypeOK, Exchange
<1>5. CASE Stop
  BY <1>5, ExchangeType DEF Stop, IInv, TypeOK, Exchange
<1>6. CASE Ready
  BY <1>6, ExchangeType DEF Ready, Serves, Goto, IInv, TypeOK, Exchange
<1>7. CASE GivesUp
  BY <1>7, ExchangeType DEF GivesUp, Serves, Close, IInv, TypeOK, Exchange
<1>8. CASE ReadLine
  BY <1>8, ExchangeType DEF ReadLine, GoodLine, IInv, TypeOK, Exchange
<1>9. CASE ReadBadLine
  BY <1>9, ExchangeType DEF ReadBadLine, GoodLine, IInv, TypeOK, Exchange
<1>10. CASE ReadNoLine
  BY <1>10, ExchangeType DEF ReadNoLine, Close, IInv, TypeOK, Exchange
<1>11. CASE ReadFields
  BY <1>11, ExchangeType DEF ReadFields, Current, NextStep, Refusal, ReadsContent, IInv, TypeOK, Exchange
<1>12. CASE ReadBadFields
  BY <1>12, ExchangeType DEF ReadBadFields, Current, IInv, TypeOK, Exchange
<1>13. CASE ReadNoFields
  BY <1>13, ExchangeType DEF ReadNoFields, NothingComes, Respond, IInv, TypeOK, Exchange
<1>14. CASE ReadAgain
  BY <1>14, ExchangeType DEF ReadAgain, NothingComes, Respond, IInv, TypeOK, Exchange
<1>15. CASE ReadContent
  BY <1>15, ExchangeType DEF ReadContent, Current, Goto, IInv, TypeOK, Exchange
<1>16. CASE SkipContent
  BY <1>16, ExchangeType DEF SkipContent, Current, Respond, IInv, TypeOK, Exchange
<1>17. CASE ReadOn
  BY <1>17, ExchangeType DEF ReadOn, Current, IInv, TypeOK, Exchange
<1>18. CASE ReadNoContent
  BY <1>18, ExchangeType DEF ReadNoContent, NothingComes, Respond, Current, IInv, TypeOK, Exchange
<1>19. CASE Handle
  BY <1>19, ExchangeType DEF Handle, Respond, IInv, TypeOK, Exchange
<1>20. CASE Write
  <2>1. DEFINE n == Len(answers)
              a == [of |-> exchange.of, status |-> exchange.status,
                    closes |-> LastOfAll \/ exchange.said]
  <2>2. n \in Nat /\ n + exchange.count = KeepAliveMax /\ exchange.count \in Nat /\ exchange.count > 0
    BY <1>20, ExchangeType DEF Write, IInv, Counted, TypeOK, Exchange
  <2>3. answers' = Append(answers, a)
    BY <1>20 DEF Write
  <2>4. Len(answers') = n + 1 /\ answers'[n + 1] = a /\ DOMAIN answers' = 1..n + 1
        /\ \A i \in 1..n : answers'[i] = answers[i]
    BY <2>3 DEF TypeOK
  <2>5. \/ exchange.closed /\ exchange' = [exchange EXCEPT !.pc = "closed"]
        \/ ~exchange.closed /\ exchange' = Idle(exchange.count - 1)
    BY <1>20 DEF Write, Close, After
  <2>6. exchange'.pc = "closed" \/ (exchange'.pc = "idle" /\ exchange'.count = exchange.count - 1)
    BY <2>5, ExchangeType DEF Idle, Exchange
  <2>7. QED
    BY <2>2, <2>4, <2>6, CountAssumption
<1>21. CASE WriteFails
  BY <1>21, ExchangeType DEF WriteFails, Close, IInv, TypeOK, Exchange
<1>22. CASE UNCHANGED vars
  BY <1>22 DEF vars, IInv
<1> QED
  BY <1>1, <1>2, <1>3, <1>4, <1>5, <1>6, <1>7, <1>8, <1>9, <1>10, <1>11, <1>12, <1>13,
     <1>14, <1>15, <1>16, <1>17, <1>18, <1>19, <1>20, <1>21, <1>22
  DEF Next, Environment, Serve, Read

\* An exchange that says it closes does, unless it was refused early.
LEMMA AnnouncedStep ==
  ASSUME TypeOK, IInv, [Next]_vars
  PROVE  Announced'
<1> USE RequestsAssumption, CountAssumption, AskedAssumption
<1> USE DEF Announced, client, stream
<1>1. CASE Ask
  BY <1>1, ExchangeType DEF Ask, Answered, IInv, TypeOK, Exchange, Counted, Owed
<1>2. CASE Send
  BY <1>2, ExchangeType, SMTT(30) DEF Send, Answered, IInv, TypeOK, Exchange, Counted, Owed
<1>3. CASE Withhold
  BY <1>3, ExchangeType DEF Withhold, Answered, IInv, TypeOK, Exchange, Counted, Owed
<1>4. CASE Leave
  BY <1>4, ExchangeType DEF Leave, IInv, TypeOK, Exchange, Counted, Owed
<1>5. CASE Stop
  BY <1>5, ExchangeType DEF Stop, IInv, TypeOK, Exchange, Counted, Owed
<1>6. CASE Ready
  BY <1>6, ExchangeType DEF Ready, Serves, Goto, IInv, TypeOK, Exchange, Counted, Owed
<1>7. CASE GivesUp
  BY <1>7, ExchangeType DEF GivesUp, Serves, Close, IInv, TypeOK, Exchange, Counted, Owed
<1>8. CASE ReadLine
  BY <1>8, ExchangeType, SMTT(30) DEF ReadLine, GoodLine, IInv, TypeOK, Exchange, Counted, Owed
<1>9. CASE ReadBadLine
  BY <1>9, ExchangeType DEF ReadBadLine, GoodLine, IInv, TypeOK, Exchange, Counted, Owed
<1>10. CASE ReadNoLine
  BY <1>10, ExchangeType DEF ReadNoLine, Close, IInv, TypeOK, Exchange, Counted, Owed
<1>11. CASE ReadFields
  BY <1>11, ExchangeType DEF ReadFields, Current, NextStep, Refusal, ReadsContent, IInv, TypeOK, Exchange, Counted, Owed
<1>12. CASE ReadBadFields
  BY <1>12, ExchangeType, SMTT(30) DEF ReadBadFields, Current, IInv, TypeOK, Exchange, Counted, Owed
<1>13. CASE ReadNoFields
  BY <1>13, ExchangeType DEF ReadNoFields, NothingComes, Respond, IInv, TypeOK, Exchange, Counted, Owed
<1>14. CASE ReadAgain
  BY <1>14, ExchangeType DEF ReadAgain, NothingComes, Respond, IInv, TypeOK, Exchange, Counted, Owed
<1>15. CASE ReadContent
  BY <1>15, ExchangeType DEF ReadContent, Current, Goto, IInv, TypeOK, Exchange, Counted, Owed
<1>16. CASE SkipContent
  BY <1>16, ExchangeType, SMTT(30) DEF SkipContent, Current, Respond, IInv, TypeOK, Exchange, Counted, Owed
<1>17. CASE ReadOn
  BY <1>17, ExchangeType DEF ReadOn, Current, IInv, TypeOK, Exchange, Counted, Owed
<1>18. CASE ReadNoContent
  BY <1>18, ExchangeType DEF ReadNoContent, NothingComes, Respond, Current, IInv, TypeOK, Exchange, Counted, Owed
<1>19. CASE Handle
  BY <1>19, ExchangeType, SMTT(30) DEF Handle, Respond, IInv, TypeOK, Exchange, Counted, Owed
<1>20. CASE Write
  <2>1. DEFINE n == Len(answers)
              a == [of |-> exchange.of, status |-> exchange.status,
                    closes |-> LastOfAll \/ exchange.said]
  <2>2. n \in Nat /\ n + exchange.count = KeepAliveMax /\ exchange.count \in Nat /\ exchange.count > 0
    BY <1>20, ExchangeType DEF Write, IInv, Counted, TypeOK, Exchange
  <2>3. answers' = Append(answers, a)
    BY <1>20 DEF Write
  <2>4. Len(answers') = n + 1 /\ answers'[n + 1] = a /\ DOMAIN answers' = 1..n + 1
        /\ \A i \in 1..n : answers'[i] = answers[i]
    BY <2>3 DEF TypeOK
  <2>5. \/ exchange.closed /\ exchange' = [exchange EXCEPT !.pc = "closed"]
        \/ ~exchange.closed /\ exchange' = Idle(exchange.count - 1)
    BY <1>20 DEF Write, Close, After
  <2>6. exchange.said => exchange.closed \/ exchange.status \in {400, 414}
    BY <1>20 DEF Write, IInv, Owed
  <2>7. exchange'.pc # "closed" => ~exchange.closed
    BY <2>5, ExchangeType DEF Exchange
  <2>8. exchange.closed => exchange'.pc = "closed"
    BY <2>5, ExchangeType DEF Exchange
  <2>9. exchange.pc # "closed"
    BY <1>20 DEF Write
  <2>10. a.closes <=> exchange.count = 1 \/ exchange.said
    BY DEF LastOfAll
  <2>11. a.status = exchange.status
    OBVIOUS
  <2>12. DOMAIN answers = 1..n
    BY DEF TypeOK
  <2>13. ASSUME NEW i \in 1..n + 1
         PROVE  /\ i = KeepAliveMax => answers'[i].closes
                /\ answers'[i].closes /\ i < KeepAliveMax /\ (i < n + 1 \/ exchange'.pc # "closed") =>
                     answers'[i].status \in {400, 414}
    <3>1. CASE i = n + 1
      BY <2>2, <2>4, <2>6, <2>7, <2>10, <2>11, <3>1, CountAssumption
    <3>2. CASE i # n + 1
      <4>1. i \in DOMAIN answers /\ answers'[i] = answers[i]
        BY <2>2, <2>4, <2>12, <3>2
      <4>2. QED
        BY <2>9, <4>1 DEF IInv
    <3>3. QED
      BY <3>1, <3>2
  <2>14. QED
    BY <2>4, <2>13
<1>21. CASE WriteFails
  BY <1>21, ExchangeType DEF WriteFails, Close, IInv, TypeOK, Exchange, Counted, Owed
<1>22. CASE UNCHANGED vars
  BY <1>22 DEF vars, IInv
<1> QED
  BY <1>1, <1>2, <1>3, <1>4, <1>5, <1>6, <1>7, <1>8, <1>9, <1>10, <1>11, <1>12, <1>13,
     <1>14, <1>15, <1>16, <1>17, <1>18, <1>19, <1>20, <1>21, <1>22
  DEF Next, Environment, Serve, Read

\* What is noted of the connection is what the request says.
LEMMA OwedStep ==
  ASSUME TypeOK, IInv, [Next]_vars
  PROVE  Owed'
<1> USE RequestsAssumption, CountAssumption, AskedAssumption
<1> USE DEF Owed, client, stream
<1>1. CASE Ask
  BY <1>1, ExchangeType DEF Ask, Answered, IInv, TypeOK, Exchange, Known
<1>2. CASE Send
  BY <1>2, ExchangeType DEF Send, Answered, IInv, TypeOK, Exchange, Known
<1>3. CASE Withhold
  BY <1>3, ExchangeType DEF Withhold, Answered, IInv, TypeOK, Exchange, Known
<1>4. CASE Leave
  BY <1>4, ExchangeType DEF Leave, IInv, TypeOK, Exchange, Known
<1>5. CASE Stop
  BY <1>5, ExchangeType DEF Stop, IInv, TypeOK, Exchange, Known
<1>6. CASE Ready
  BY <1>6, ExchangeType DEF Ready, Serves, Goto, IInv, TypeOK, Exchange, Known
<1>7. CASE GivesUp
  BY <1>7, ExchangeType DEF GivesUp, Serves, Close, IInv, TypeOK, Exchange, Known
<1>8. CASE ReadLine
  BY <1>8, ExchangeType DEF ReadLine, GoodLine, IInv, TypeOK, Exchange, Known
<1>9. CASE ReadBadLine
  BY <1>9, ExchangeType DEF ReadBadLine, GoodLine, IInv, TypeOK, Exchange, Known
<1>10. CASE ReadNoLine
  BY <1>10, ExchangeType DEF ReadNoLine, Close, IInv, TypeOK, Exchange, Known
<1>11. CASE ReadFields
  <2>1. exchange.of \in DOMAIN asked /\ asked' = asked
    BY <1>11 DEF ReadFields, IInv, Known, TypeOK
  <2>2. Current.fits \in BOOLEAN /\ Current.ends \in {"no", "said", "old"}
    BY <2>1, AskedType DEF Current, Request
  <2>3. NextStep(Current) \in {"again", "write", "content", "handler"} /\ (NextStep(Current) = "again" <=> ~Current.fits)
    BY <2>2 DEF NextStep
  <2>4. /\ exchange'.pc = NextStep(Current) /\ exchange'.of = exchange.of
        /\ exchange'.said = (Current.ends = "said")
        /\ exchange'.closed = (Current.fits /\ Current.ends # "no")
    BY <1>11, ExchangeType DEF ReadFields, Exchange
  <2>5. exchange.of # 0
    BY <1>11 DEF ReadFields, IInv, Known
  <2>6. QED
    BY <2>1, <2>2, <2>3, <2>4, <2>5 DEF Current
<1>12. CASE ReadBadFields
  BY <1>12, ExchangeType DEF ReadBadFields, Current, IInv, TypeOK, Exchange, Known
<1>13. CASE ReadNoFields
  BY <1>13, ExchangeType DEF ReadNoFields, NothingComes, Respond, IInv, TypeOK, Exchange, Known
<1>14. CASE ReadAgain
  BY <1>14, ExchangeType DEF ReadAgain, NothingComes, Respond, IInv, TypeOK, Exchange, Known
<1>15. CASE ReadContent
  BY <1>15, ExchangeType DEF ReadContent, Current, Goto, IInv, TypeOK, Exchange, Known
<1>16. CASE SkipContent
  BY <1>16, ExchangeType DEF SkipContent, Current, Respond, IInv, TypeOK, Exchange, Known
<1>17. CASE ReadOn
  BY <1>17, ExchangeType DEF ReadOn, Current, IInv, TypeOK, Exchange, Known
<1>18. CASE ReadNoContent
  BY <1>18, ExchangeType DEF ReadNoContent, NothingComes, Respond, Current, IInv, TypeOK, Exchange, Known
<1>19. CASE Handle
  BY <1>19, ExchangeType DEF Handle, Respond, IInv, TypeOK, Exchange, Known
<1>20. CASE Write
  BY <1>20, ExchangeType DEF Write, LastOfAll, Close, ForgetBuffer, After, Idle, IInv, TypeOK, Exchange, Known
<1>21. CASE WriteFails
  BY <1>21, ExchangeType DEF WriteFails, Close, IInv, TypeOK, Exchange, Known
<1>22. CASE UNCHANGED vars
  BY <1>22 DEF vars, IInv
<1> QED
  BY <1>1, <1>2, <1>3, <1>4, <1>5, <1>6, <1>7, <1>8, <1>9, <1>10, <1>11, <1>12, <1>13,
     <1>14, <1>15, <1>16, <1>17, <1>18, <1>19, <1>20, <1>21, <1>22
  DEF Next, Environment, Serve, Read

\* The thread follows the request through its parts.
LEMMA TurnStep ==
  ASSUME TypeOK, IInv, [Next]_vars
  PROVE  Turn'
<1> USE RequestsAssumption, CountAssumption, AskedAssumption
<1> USE DEF Turn, client, stream
<1>1. CASE Ask
  <2>1. PICK r \in Requests : asked' = Append(asked, r) /\ parts' = Parts(r)
    BY <1>1 DEF Ask
  <2>2. SUFFICES ASSUME Orderly'
                 PROVE  Turn'
    OBVIOUS
  <2>3. Orderly /\ Len(answers) >= Len(asked)
    BY <1>1, <2>2 DEF Ask, Answered, Orderly
  <2>4. exchange.pc # "closed" /\ exchange' = exchange /\ answers' = answers /\ unread' = unread
    BY <1>1 DEF Ask, stream
  <2>5. Len(asked) \in Nat /\ Len(answers) \in Nat
    BY DEF TypeOK
  <2>6. Len(asked) = Len(answers) /\ exchange.pc \in {"idle", "line"} /\ unread = <<>>
    BY <2>3, <2>4, <2>5 DEF IInv
  <2>7. Len(asked') = Len(asked) + 1 /\ asked'[Len(asked) + 1] = r
    BY <2>1 DEF TypeOK
  <2>8. InPlace(0)'
    <3>1. Len(unread') = 0 /\ Len(parts') \in Nat /\ Len(Parts(r)) \in Nat
      BY <2>1, <2>4, <2>6, PartsType
    <3>2. QED
      BY <2>1, <2>7, <3>1 DEF InPlace
  <2>9. QED
    BY <2>4, <2>5, <2>6, <2>7, <2>8
<1>2. CASE Send
  <2>1. SUFFICES ASSUME Orderly'
                 PROVE  Turn'
    OBVIOUS
  <2>2. /\ exchange' = exchange /\ answers' = answers /\ asked' = asked /\ exchange.pc # "closed"
        /\ parts # <<>> /\ Orderly /\ ~(Len(answers) >= Len(asked))
        /\ ~(exchange.pc = "write" /\ exchange.of = Len(asked))
    BY <1>2, <2>1 DEF Send, Answered, Orderly
  <2>3. Len(asked) \in Nat /\ Len(answers) \in Nat
    BY DEF TypeOK
  <2>4. exchange.pc # "write" /\ exchange.pc # "handler"
    BY <2>2, <2>3 DEF IInv
  <2>5. \A r \in 0..2 : InPlace(r) => InPlace(r)'
    BY <1>2, SendStays
  <2>6. QED
    BY <2>2, <2>3, <2>4, <2>5 DEF IInv
<1>3. CASE Withhold
  <2>1. SUFFICES ASSUME Orderly
                 PROVE  Turn'
    BY <1>3, OrderlyBefore DEF Withhold
  <2>2. \A r \in 0..2 : InPlace(r) => InPlace(r)'
    BY <1>3, OtherwiseStays DEF Withhold, stream
  <2>3. QED
    BY <1>3, <2>1, <2>2 DEF Withhold, stream, IInv
<1>4. CASE Leave
  <2>1. SUFFICES ASSUME Orderly
                 PROVE  Turn'
    BY <1>4, OrderlyBefore DEF Leave
  <2>2. \A r \in 0..2 : InPlace(r) => InPlace(r)'
    BY <1>4, OtherwiseStays DEF Leave, stream
  <2>3. QED
    BY <1>4, <2>1, <2>2 DEF Leave, stream, IInv
<1>5. CASE Stop
  <2>1. SUFFICES ASSUME Orderly
                 PROVE  Turn'
    BY <1>5, OrderlyBefore DEF Stop, client
  <2>2. \A r \in 0..2 : InPlace(r) => InPlace(r)'
    BY <1>5, OtherwiseStays DEF Stop, client, stream
  <2>3. QED
    BY <1>5, <2>1, <2>2 DEF Stop, client, stream, IInv
<1>6. CASE Ready
  <2>1. SUFFICES ASSUME Orderly
                 PROVE  Turn'
    BY <1>6, OrderlyBefore DEF Ready, client
  <2>2. /\ asked' = asked /\ parts' = parts /\ answers' = answers /\ exchange.pc # "closed"
        /\ Len(asked) \in Nat /\ Len(answers) \in Nat
    BY <1>6 DEF Ready, client, TypeOK
  <2>3. InPlace(0) => InPlace(0)'
    BY <1>6, <2>2, OtherwiseStays DEF Ready, stream
  <2>4. exchange.pc = "idle" /\ exchange'.pc = "line" /\ unread' = unread
    BY <1>6, ExchangeType DEF Ready, Goto, stream, Exchange
  <2>5. QED
    BY <2>1, <2>2, <2>3, <2>4 DEF IInv
<1>7. CASE GivesUp
  <2>1. exchange'.pc = "closed"
    BY <1>7, ExchangeType DEF GivesUp, Close, Exchange
  <2>2. QED
    BY <2>1
<1>8. CASE ReadLine
  <2>1. SUFFICES ASSUME Orderly
                 PROVE  Turn'
    BY <1>8, OrderlyBefore DEF ReadLine, client
  <2>2. /\ asked' = asked /\ parts' = parts /\ answers' = answers /\ exchange.pc # "closed"
        /\ Len(asked) \in Nat /\ Len(answers) \in Nat
    BY <1>8 DEF ReadLine, client, TypeOK
  <2>3. Len(asked) = Len(answers) + 1 /\ InPlace(0)
    BY <1>8, <2>1, <2>2 DEF ReadLine, IInv
  <2>4. Head(unread).of = Len(asked) /\ InPlace(0 + 1)'
    BY <1>8, <2>2, <2>3, ConsumeAdvances DEF ReadLine
  <2>5. exchange'.pc = "fields" /\ exchange'.of = Len(asked)
    BY <1>8, <2>4, ExchangeType DEF ReadLine, Exchange
  <2>6. QED
    BY <2>2, <2>3, <2>4, <2>5
<1>9. CASE ReadBadLine
  <2>1. SUFFICES ASSUME Orderly
                 PROVE  Turn'
    BY <1>9, OrderlyBefore DEF ReadBadLine, client
  <2>2. /\ asked' = asked /\ parts' = parts /\ answers' = answers /\ exchange.pc # "closed"
        /\ Len(asked) \in Nat /\ Len(answers) \in Nat
    BY <1>9 DEF ReadBadLine, client, TypeOK
  <2>3. Len(asked) = Len(answers) + 1 /\ InPlace(0)
    BY <1>9, <2>1, <2>2 DEF ReadBadLine, IInv
  <2>4. Head(unread).of = Len(asked) /\ Head(unread).part = "line"
    <3>1. 1 \in 1..Len(unread) /\ Head(unread) = unread[1]
      BY <1>9 DEF ReadBadLine, TypeOK
    <3>2. unread[1] = [of |-> Len(asked), part |-> Parts(asked[Len(asked)])[0 + 1]]
      BY <2>3, <3>1 DEF InPlace
    <3>3. Parts(asked[Len(asked)])[0 + 1] = "line"
      <4>1. Parts(asked[Len(asked)])[1] = "line"
        BY PartsType
      <4>2. QED
        BY <4>1
    <3>4. QED
      BY <3>1, <3>2, <3>3
  <2>5. exchange'.pc = "write" /\ exchange'.of = Len(asked) /\ exchange'.status \in LosesStep
    BY <1>9, <2>4, ExchangeType DEF ReadBadLine, Exchange, LosesStep
  <2>6. QED
    BY <2>2, <2>3, <2>5
<1>10. CASE ReadNoLine
  <2>1. exchange'.pc = "closed"
    BY <1>10, ExchangeType DEF ReadNoLine, Close, Exchange
  <2>2. QED
    BY <2>1
<1>11. CASE ReadFields
  <2>1. SUFFICES ASSUME Orderly
                 PROVE  Turn'
    BY <1>11, OrderlyBefore DEF ReadFields, client
  <2>2. /\ asked' = asked /\ parts' = parts /\ answers' = answers /\ exchange.pc # "closed"
        /\ Len(asked) \in Nat /\ Len(answers) \in Nat
    BY <1>11 DEF ReadFields, client, TypeOK
  <2>3. /\ Len(asked) = Len(answers) + 1 /\ exchange.of = Len(asked) /\ InPlace(1)
    BY <1>11, <2>1, <2>2 DEF ReadFields, IInv
  <2>4. InPlace(1 + 1)'
    BY <1>11, <2>2, <2>3, ConsumeAdvances DEF ReadFields
  <2>5. /\ exchange'.pc = NextStep(Current) /\ exchange'.of = exchange.of
        /\ exchange'.status = Refusal(Current)
    BY <1>11, ExchangeType DEF ReadFields, Exchange
  <2>6. Current = asked'[Len(asked')] /\ Current.content \in {"none", "sized", "large", "packed", "expect", "unsized"}
    <3>1. Len(asked) \in DOMAIN asked
      BY <2>2, <2>3 DEF TypeOK
    <3>2. QED
      BY <2>2, <2>3, <3>1, AskedType DEF Current, Request
  <2>7. NextStep(Current) \in {"again", "write", "content", "handler"}
    BY DEF NextStep
  <2>8. NextStep(Current) = "write" => Refusal(Current) \in LosesStep
    BY DEF NextStep, Refusal, LosesStep
  <2>9. NextStep(Current) = "handler" => unread' = <<>> /\ parts' = <<>>
    <3>1. SUFFICES ASSUME NextStep(Current) = "handler"
                   PROVE  unread' = <<>> /\ parts' = <<>>
      OBVIOUS
    <3>2. Current.content = "none"
      BY <2>6, <3>1 DEF NextStep, Refusal, ReadsContent
    <3>3. Len(Parts(Current)) = 2
      BY <3>2, PartsType
    <3>4. Len(unread') \in Nat /\ Len(parts') \in Nat
      BY <1>11, ConsumeReads, <2>2 DEF ReadFields, TypeOK
    <3>5. Len(unread') = 0 /\ Len(parts') = 0
      BY <2>4, <2>6, <3>3, <3>4 DEF InPlace
    <3>6. QED
      BY <1>11, <2>2, <3>5, ConsumeReads DEF ReadFields, TypeOK
  <2>10. QED
    BY <2>2, <2>3, <2>4, <2>5, <2>7, <2>8, <2>9
<1>12. CASE ReadBadFields
  <2>1. SUFFICES ASSUME Orderly
                 PROVE  Turn'
    BY <1>12, OrderlyBefore DEF ReadBadFields, client
  <2>2. /\ asked' = asked /\ parts' = parts /\ answers' = answers /\ exchange.pc # "closed"
        /\ Len(asked) \in Nat /\ Len(answers) \in Nat
    BY <1>12 DEF ReadBadFields, client, TypeOK
  <2>3. /\ Len(asked) = Len(answers) + 1 /\ exchange.of = Len(asked)
    BY <1>12, <2>1, <2>2 DEF ReadBadFields, IInv
  <2>4. exchange'.pc = "write" /\ exchange'.status \in LosesStep /\ exchange'.of = exchange.of
    BY <1>12, ExchangeType DEF ReadBadFields, Exchange, LosesStep
  <2>5. QED
    BY <2>2, <2>3, <2>4
<1>13. CASE ReadNoFields
  <2>1. SUFFICES ASSUME Orderly
                 PROVE  Turn'
    BY <1>13, OrderlyBefore DEF ReadNoFields, client
  <2>2. /\ asked' = asked /\ parts' = parts /\ answers' = answers /\ exchange.pc # "closed"
        /\ Len(asked) \in Nat /\ Len(answers) \in Nat
    BY <1>13 DEF ReadNoFields, client, TypeOK
  <2>3. /\ Len(asked) = Len(answers) + 1 /\ exchange.of = Len(asked)
    BY <1>13, <2>1, <2>2 DEF ReadNoFields, IInv
  <2>4. exchange'.pc = "write" /\ exchange'.status \in LosesStep /\ exchange'.of = exchange.of
    BY <1>13, ExchangeType DEF ReadNoFields, Respond, Exchange, LosesStep
  <2>5. QED
    BY <2>2, <2>3, <2>4
<1>14. CASE ReadAgain
  <2>1. SUFFICES ASSUME Orderly
                 PROVE  Turn'
    BY <1>14, OrderlyBefore DEF ReadAgain, client
  <2>2. /\ asked' = asked /\ parts' = parts /\ answers' = answers /\ exchange.pc # "closed"
        /\ Len(asked) \in Nat /\ Len(answers) \in Nat
    BY <1>14 DEF ReadAgain, client, TypeOK
  <2>3. /\ Len(asked) = Len(answers) + 1 /\ exchange.of = Len(asked)
    BY <1>14, <2>1, <2>2 DEF ReadAgain, IInv
  <2>4. exchange'.pc = "write" /\ exchange'.status \in LosesStep /\ exchange'.of = exchange.of
    BY <1>14, ExchangeType DEF ReadAgain, Respond, Exchange, LosesStep
  <2>5. QED
    BY <2>2, <2>3, <2>4
<1>15. CASE ReadContent
  <2>1. SUFFICES ASSUME Orderly
                 PROVE  Turn'
    BY <1>15, OrderlyBefore DEF ReadContent, client
  <2>2. /\ asked' = asked /\ parts' = parts /\ answers' = answers /\ exchange.pc # "closed"
        /\ Len(asked) \in Nat /\ Len(answers) \in Nat
    BY <1>15 DEF ReadContent, client, TypeOK
  <2>3. /\ Len(asked) = Len(answers) + 1 /\ exchange.of = Len(asked) /\ InPlace(2)
    BY <1>15, <2>1, <2>2 DEF ReadContent, IInv
  <2>4. InPlace(2 + 1)'
    BY <1>15, <2>2, <2>3, ConsumeAdvances DEF ReadContent
  <2>5. Len(Parts(asked'[Len(asked')])) = 3
    <3>1. Current.content \notin {"none", "unsized"}
      BY <1>15 DEF ReadContent
    <3>2. Current = asked'[Len(asked')]
      BY <2>2, <2>3 DEF Current
    <3>3. QED
      BY <3>1, <3>2, PartsType
  <2>6. Len(unread') \in Nat /\ Len(parts') \in Nat
    BY <1>15, ConsumeReads, <2>2 DEF ReadContent, TypeOK
  <2>7. Len(unread') = 0 /\ Len(parts') = 0
    BY <2>4, <2>5, <2>6 DEF InPlace
  <2>8. unread' = <<>> /\ parts' = <<>>
    BY <1>15, <2>2, <2>7, ConsumeReads DEF ReadContent, TypeOK
  <2>9. exchange'.pc = "handler" /\ exchange'.of = exchange.of
    BY <1>15, ExchangeType DEF ReadContent, Goto, Exchange
  <2>10. QED
    BY <2>2, <2>3, <2>8, <2>9
<1>16. CASE SkipContent
  <2>1. SUFFICES ASSUME Orderly
                 PROVE  Turn'
    BY <1>16, OrderlyBefore DEF SkipContent, client
  <2>2. /\ asked' = asked /\ parts' = parts /\ answers' = answers /\ exchange.pc # "closed"
        /\ Len(asked) \in Nat /\ Len(answers) \in Nat
    BY <1>16 DEF SkipContent, client, TypeOK
  <2>3. /\ Len(asked) = Len(answers) + 1 /\ exchange.of = Len(asked) /\ InPlace(2)
    BY <1>16, <2>1, <2>2 DEF SkipContent, IInv
  <2>4. InPlace(2 + 1)'
    BY <1>16, <2>2, <2>3, ConsumeAdvances DEF SkipContent
  <2>5. Len(Parts(asked'[Len(asked')])) = 3
    <3>1. Current.content \notin {"none", "unsized"}
      BY <1>16 DEF SkipContent
    <3>2. Current = asked'[Len(asked')]
      BY <2>2, <2>3 DEF Current
    <3>3. QED
      BY <3>1, <3>2, PartsType
  <2>6. Len(unread') \in Nat /\ Len(parts') \in Nat
    BY <1>16, ConsumeReads, <2>2 DEF SkipContent, TypeOK
  <2>7. Len(unread') = 0
    BY <2>4, <2>5, <2>6 DEF InPlace
  <2>8. unread' = <<>>
    BY <1>16, <2>7, ConsumeReads DEF SkipContent
  <2>9. exchange'.pc = "write" /\ exchange'.of = exchange.of
    BY <1>16, ExchangeType DEF SkipContent, Respond, Exchange
  <2>10. QED
    BY <2>2, <2>3, <2>8, <2>9
<1>17. CASE ReadOn
  <2>1. SUFFICES ASSUME Orderly
                 PROVE  Turn'
    BY <1>17, OrderlyBefore DEF ReadOn, client
  <2>2. /\ asked' = asked /\ parts' = parts /\ answers' = answers /\ exchange.pc # "closed"
        /\ Len(asked) \in Nat /\ Len(answers) \in Nat
    BY <1>17 DEF ReadOn, client, TypeOK
  <2>3. /\ Len(asked) = Len(answers) + 1 /\ exchange.of = Len(asked) /\ InPlace(2)
    BY <1>17, <2>1, <2>2 DEF ReadOn, IInv
  <2>4. Len(Parts(asked[Len(asked)])) = 2
    BY <1>17, <2>3, PartsType DEF ReadOn, Current
  <2>5. unread = <<>>
    BY <2>3, <2>4, NothingLeft
  <2>6. QED
    BY <1>17, <2>5 DEF ReadOn
<1>18. CASE ReadNoContent
  <2>1. SUFFICES ASSUME Orderly
                 PROVE  Turn'
    BY <1>18, OrderlyBefore DEF ReadNoContent, client
  <2>2. /\ asked' = asked /\ parts' = parts /\ answers' = answers /\ exchange.pc # "closed"
        /\ Len(asked) \in Nat /\ Len(answers) \in Nat
    BY <1>18 DEF ReadNoContent, client, TypeOK
  <2>3. /\ Len(asked) = Len(answers) + 1 /\ exchange.of = Len(asked)
    BY <1>18, <2>1, <2>2 DEF ReadNoContent, IInv
  <2>4. exchange'.pc = "write" /\ exchange'.of = exchange.of /\ unread' = <<>>
    BY <1>18, ExchangeType DEF ReadNoContent, NothingComes, Respond, stream, Exchange
  <2>5. QED
    BY <2>2, <2>3, <2>4
<1>19. CASE Handle
  <2>1. SUFFICES ASSUME Orderly
                 PROVE  Turn'
    BY <1>19, OrderlyBefore DEF Handle, client
  <2>2. /\ asked' = asked /\ parts' = parts /\ answers' = answers /\ exchange.pc # "closed"
        /\ Len(asked) \in Nat /\ Len(answers) \in Nat
    BY <1>19 DEF Handle, client, TypeOK
  <2>3. /\ Len(asked) = Len(answers) + 1 /\ exchange.of = Len(asked) /\ unread = <<>>
    BY <1>19, <2>1, <2>2 DEF Handle, IInv
  <2>4. exchange'.pc = "write" /\ exchange'.of = exchange.of /\ unread' = unread
    BY <1>19, ExchangeType DEF Handle, Respond, stream, Exchange
  <2>5. QED
    BY <2>2, <2>3, <2>4
<1>20. CASE Write
  <2>1. DEFINE n == Len(answers)
              a == [of |-> exchange.of, status |-> exchange.status,
                    closes |-> LastOfAll \/ exchange.said]
  <2>2. n \in Nat /\ n + exchange.count = KeepAliveMax /\ exchange.count \in Nat /\ exchange.count > 0
    BY <1>20, ExchangeType DEF Write, IInv, Counted, TypeOK, Exchange
  <2>3. answers' = Append(answers, a)
    BY <1>20 DEF Write
  <2>4. Len(answers') = n + 1 /\ answers'[n + 1] = a /\ DOMAIN answers' = 1..n + 1
        /\ \A i \in 1..n : answers'[i] = answers[i]
    BY <2>3 DEF TypeOK
  <2>5. \/ exchange.closed /\ exchange' = [exchange EXCEPT !.pc = "closed"]
        \/ ~exchange.closed /\ exchange' = Idle(exchange.count - 1)
    BY <1>20 DEF Write, Close, After
  <2>6. CASE exchange.closed
    <3>1. exchange'.pc = "closed"
      BY <2>5, <2>6, ExchangeType DEF Exchange
    <3>2. QED
      BY <3>1
  <2>7. CASE ~exchange.closed
    <3>1. SUFFICES ASSUME Orderly'
                   PROVE  Turn'
      OBVIOUS
    <3>2. ForgetBuffer /\ exchange'.pc = "idle" /\ asked' = asked /\ untimely' = untimely
      BY <1>20, <2>7 DEF Write, After, Idle, client
    <3>3. Orderly /\ exchange.status \notin LosesStep
      <4>1. DOMAIN answers = 1..n
        BY DEF TypeOK
      <4>2. \A i \in 1..n : answers[i].status \notin LosesStep
        BY <2>2, <2>4, <3>1 DEF Orderly
      <4>3. a.status \notin LosesStep
        BY <2>2, <2>4, <3>1 DEF Orderly
      <4>4. QED
        BY <3>1, <3>2, <4>1, <4>2, <4>3 DEF Orderly
    <3>4. Len(asked) = n + 1 /\ unread = <<>>
      BY <1>20, <3>3 DEF Write, IInv
    <3>5. unread' = <<>>
      BY <3>2, <3>4, ForgetReads
    <3>6. QED
      BY <2>4, <3>2, <3>4, <3>5
  <2>8. QED
    BY <2>6, <2>7
<1>21. CASE WriteFails
  <2>1. exchange'.pc = "closed"
    BY <1>21, ExchangeType DEF WriteFails, Close, Exchange
  <2>2. QED
    BY <2>1
<1>22. CASE UNCHANGED vars
  BY <1>22 DEF vars, IInv, Orderly, InPlace
<1> QED
  BY <1>1, <1>2, <1>3, <1>4, <1>5, <1>6, <1>7, <1>8, <1>9, <1>10, <1>11, <1>12, <1>13,
     <1>14, <1>15, <1>16, <1>17, <1>18, <1>19, <1>20, <1>21, <1>22
  DEF Next, Environment, Serve, Read

\* An answer is given to the request whose turn it is.
LEMMA InStepStep ==
  ASSUME TypeOK, IInv, [Next]_vars
  PROVE  InStep'
<1> USE RequestsAssumption, CountAssumption, AskedAssumption
<1> USE DEF InStep, client, stream
<1>1. CASE Ask
  <2>1. answers' = answers /\ (untimely => untimely')
    BY <1>1 DEF Ask
  <2>2. QED
    BY <2>1 DEF IInv
<1>2. CASE Send
  <2>1. answers' = answers /\ (untimely => untimely')
    BY <1>2 DEF Send
  <2>2. QED
    BY <2>1 DEF IInv
<1>3. CASE Withhold
  <2>1. answers' = answers /\ (untimely => untimely')
    BY <1>3 DEF Withhold
  <2>2. QED
    BY <2>1 DEF IInv
<1>4. CASE Leave
  <2>1. answers' = answers /\ (untimely => untimely')
    BY <1>4 DEF Leave
  <2>2. QED
    BY <2>1 DEF IInv
<1>5. CASE Stop
  <2>1. answers' = answers /\ (untimely => untimely')
    BY <1>5 DEF Stop, client
  <2>2. QED
    BY <2>1 DEF IInv
<1>6. CASE Ready
  <2>1. answers' = answers /\ (untimely => untimely')
    BY <1>6 DEF Ready, client
  <2>2. QED
    BY <2>1 DEF IInv
<1>7. CASE GivesUp
  <2>1. answers' = answers /\ (untimely => untimely')
    BY <1>7 DEF GivesUp, client
  <2>2. QED
    BY <2>1 DEF IInv
<1>8. CASE ReadLine
  <2>1. answers' = answers /\ (untimely => untimely')
    BY <1>8 DEF ReadLine, client
  <2>2. QED
    BY <2>1 DEF IInv
<1>9. CASE ReadBadLine
  <2>1. answers' = answers /\ (untimely => untimely')
    BY <1>9 DEF ReadBadLine, client
  <2>2. QED
    BY <2>1 DEF IInv
<1>10. CASE ReadNoLine
  <2>1. answers' = answers /\ (untimely => untimely')
    BY <1>10 DEF ReadNoLine, client
  <2>2. QED
    BY <2>1 DEF IInv
<1>11. CASE ReadFields
  <2>1. answers' = answers /\ (untimely => untimely')
    BY <1>11 DEF ReadFields
  <2>2. QED
    BY <2>1 DEF IInv
<1>12. CASE ReadBadFields
  <2>1. answers' = answers /\ (untimely => untimely')
    BY <1>12 DEF ReadBadFields, client
  <2>2. QED
    BY <2>1 DEF IInv
<1>13. CASE ReadNoFields
  <2>1. answers' = answers /\ (untimely => untimely')
    BY <1>13 DEF ReadNoFields, client
  <2>2. QED
    BY <2>1 DEF IInv
<1>14. CASE ReadAgain
  <2>1. answers' = answers /\ (untimely => untimely')
    BY <1>14 DEF ReadAgain, client
  <2>2. QED
    BY <2>1 DEF IInv
<1>15. CASE ReadContent
  <2>1. answers' = answers /\ (untimely => untimely')
    BY <1>15 DEF ReadContent, client
  <2>2. QED
    BY <2>1 DEF IInv
<1>16. CASE SkipContent
  <2>1. answers' = answers /\ (untimely => untimely')
    BY <1>16 DEF SkipContent, client
  <2>2. QED
    BY <2>1 DEF IInv
<1>17. CASE ReadOn
  <2>1. answers' = answers /\ (untimely => untimely')
    BY <1>17 DEF ReadOn, client
  <2>2. QED
    BY <2>1 DEF IInv
<1>18. CASE ReadNoContent
  <2>1. answers' = answers /\ (untimely => untimely')
    BY <1>18 DEF ReadNoContent, client
  <2>2. QED
    BY <2>1 DEF IInv
<1>19. CASE Handle
  <2>1. answers' = answers /\ (untimely => untimely')
    BY <1>19 DEF Handle, client
  <2>2. QED
    BY <2>1 DEF IInv
<1>20. CASE Write
  <2>1. DEFINE n == Len(answers)
              a == [of |-> exchange.of, status |-> exchange.status,
                    closes |-> LastOfAll \/ exchange.said]
  <2>2. n \in Nat /\ n + exchange.count = KeepAliveMax /\ exchange.count \in Nat /\ exchange.count > 0
    BY <1>20, ExchangeType DEF Write, IInv, Counted, TypeOK, Exchange
  <2>3. answers' = Append(answers, a)
    BY <1>20 DEF Write
  <2>4. Len(answers') = n + 1 /\ answers'[n + 1] = a /\ DOMAIN answers' = 1..n + 1
        /\ \A i \in 1..n : answers'[i] = answers[i]
    BY <2>3 DEF TypeOK
  <2>5. \/ exchange.closed /\ exchange' = [exchange EXCEPT !.pc = "closed"]
        \/ ~exchange.closed /\ exchange' = Idle(exchange.count - 1)
    BY <1>20 DEF Write, Close, After
  <2>6. untimely' = untimely
    BY <1>20 DEF Write, client
  <2>7. SUFFICES ASSUME ~untimely, NEW i \in 1..n + 1,
                        \A j \in 1..i - 1 : answers'[j].status \notin LosesStep
                 PROVE  answers'[i].of = i
    BY <2>4, <2>6
  <2>8. CASE i = n + 1
    <3>1. \A j \in 1..n : answers[j].status \notin LosesStep
      BY <2>2, <2>4, <2>7, <2>8
    <3>2. Orderly
      BY <2>7, <3>1 DEF Orderly, TypeOK
    <3>3. exchange.of = Len(asked) /\ Len(asked) = n + 1
      BY <1>20, <3>2 DEF Write, IInv, Turn
    <3>4. QED
      BY <2>4, <2>8, <3>3
  <2>9. CASE i # n + 1
    <3>1. i \in 1..n /\ i \in DOMAIN answers
      BY <2>2, <2>9 DEF TypeOK
    <3>2. \A j \in 1..i - 1 : answers[j].status \notin LosesStep
      BY <2>2, <2>4, <2>7, <3>1
    <3>3. answers[i].of = i
      BY <2>7, <3>1, <3>2 DEF IInv
    <3>4. QED
      BY <2>4, <3>1, <3>3
  <2>10. QED
    BY <2>8, <2>9
<1>21. CASE WriteFails
  <2>1. answers' = answers /\ (untimely => untimely')
    BY <1>21 DEF WriteFails, client
  <2>2. QED
    BY <2>1 DEF IInv
<1>22. CASE UNCHANGED vars
  BY <1>22 DEF vars, IInv
<1> QED
  BY <1>1, <1>2, <1>3, <1>4, <1>5, <1>6, <1>7, <1>8, <1>9, <1>10, <1>11, <1>12, <1>13,
     <1>14, <1>15, <1>16, <1>17, <1>18, <1>19, <1>20, <1>21, <1>22
  DEF Next, Environment, Serve, Read
-----------------------------------------------------------------------------
\* The connection, its client and the thread keep their types, and the thread
\* its place in the requests of a client that waits for each answer.
THEOREM Inductive == Spec => [](TypeOK /\ IInv)
<1>1. ASSUME Init PROVE TypeOK
  <2>1. KeepAliveMax \in 0..KeepAliveMax /\ 0 \in 0..MaxAsked
    BY CountAssumption, AskedAssumption
  <2>2. exchange \in Exchange
    BY <1>1, <2>1, Literals DEF Init, Idle, Exchange
  <2>3. <<>> \in Seq(Requests) /\ <<>> \in Seq({"line", "fields", "content"}) /\ <<>> \in Seq(Item)
        /\ <<>> \in Seq([of: 0..MaxAsked, status: Status, closes: BOOLEAN])
        /\ Len(<<>>) = 0
    OBVIOUS
  <2>4. Len(asked) <= MaxAsked /\ buffered \in 0..Len(unread)
    BY <1>1, <2>3, AskedAssumption DEF Init
  <2>5. QED
    BY <1>1, <2>2, <2>3, <2>4 DEF Init, TypeOK, Exchange
<1>2. ASSUME Init PROVE IInv
  <2>1. Len(asked) = 0 /\ Len(answers) = 0 /\ DOMAIN answers = {} /\ DOMAIN unread = {}
    BY <1>2 DEF Init
  <2>2. exchange.pc = "idle" /\ exchange.of = 0 /\ exchange.count = KeepAliveMax
        /\ ~exchange.said /\ ~exchange.closed
    BY <1>2 DEF Init, Idle
  <2>3. Known /\ Counted /\ Announced /\ Owed
    BY <1>2, <2>1, <2>2, CountAssumption DEF Init, Known, Counted, Announced, Owed
  <2>4. Turn /\ InStep
    BY <1>2, <2>1, <2>2 DEF Init, Turn, InStep
  <2>5. QED
    BY <2>3, <2>4 DEF IInv
<1>3. TypeOK /\ IInv /\ [Next]_vars => TypeOK'
  BY TypeStep
<1>4. TypeOK /\ IInv /\ [Next]_vars => IInv'
  BY KnownStep, CountedStep, AnnouncedStep, OwedStep, TurnStep, InStepStep DEF IInv
<1>5. QED
  BY <1>1, <1>2, <1>3, <1>4, PTL DEF Spec

\* The bytes the client sends and the thread reads, and what the thread makes of
\* them, keep their types.
THEOREM TypeCorrect == Spec => []TypeOK
<1>1. QED
  BY Inductive, PTL

\* A client that waits for each answer gets the answer to its own request, as long
\* as no request before was refused unread, whatever it asks and however the
\* connection is buffered.
THEOREM InStepCorrect == Spec => []InStep
<1>1. IInv => InStep
  BY DEF IInv
<1>2. QED
  BY <1>1, Inductive, PTL

\* "Connection: close" is followed by no answer, unless the request was refused
\* before its fields were understood, and it comes with the last answer of all.
THEOREM CloseIsAnnouncedCorrect == Spec => []CloseIsAnnounced
<1>1. TypeOK /\ IInv => CloseIsAnnounced
  <2>1. SUFFICES ASSUME TypeOK, IInv
                 PROVE  CloseIsAnnounced
    OBVIOUS
  <2>2. Len(answers) \in Nat /\ DOMAIN answers = 1..Len(answers) /\ Len(answers) <= KeepAliveMax
    BY <2>1 DEF TypeOK, IInv, Counted
  <2>3. \A i \in DOMAIN answers : i < Len(answers) => i < KeepAliveMax
    BY <2>2, CountAssumption
  <2>4. QED
    BY <2>1, <2>2, <2>3 DEF IInv, Announced, CloseIsAnnounced
<1>2. QED
  BY <1>1, Inductive, PTL

\* Only these steps close the connection.
LEMMA OnlyThese ==
  ASSUME TypeOK, IInv, [Next]_vars, Ends
  PROVE  GivesUp \/ ReadNoLine \/ Write \/ WriteFails
<1> USE ExchangeType DEF Ends, Exchange
<1>1. CASE Environment
  BY <1>1 DEF Environment, Ask, Send, Withhold, Leave, Stop
<1>2. CASE Ready \/ ReadContent
  BY <1>2 DEF Ready, ReadContent, Goto
<1>3. CASE Handle \/ ReadNoFields \/ ReadAgain \/ SkipContent \/ ReadNoContent
  BY <1>3, ZenonT(40) DEF Handle, ReadNoFields, ReadAgain, SkipContent, ReadNoContent, Respond
<1>4. CASE ReadLine \/ ReadBadLine \/ ReadBadFields
  BY <1>4, ZenonT(40) DEF ReadLine, ReadBadLine, ReadBadFields
<1>5. CASE ReadFields
  BY <1>5 DEF ReadFields, NextStep
<1>6. CASE ReadOn
  BY <1>6 DEF ReadOn
<1>7. CASE UNCHANGED vars
  BY <1>7 DEF vars
<1> QED
  BY <1>1, <1>2, <1>3, <1>4, <1>5, <1>6, <1>7 DEF Next, Serve, Read

\* After an answer without "Connection: close" the server ends the connection only
\* when nothing of the client waits to be read, or it was stopped, or the client
\* has gone or spoke HTTP/1.0.
THEOREM PromiseCorrect == Spec => PromiseKept
<1>1. ASSUME TypeOK, IInv, [Next]_vars, Ends, Promised
      PROVE  unread = <<>> \/ stopped \/ away \/ SaidOld
  <2>1. CASE GivesUp
    <3>1. CASE exchange.count > 0
      BY <2>1, <3>1 DEF GivesUp, Serves
    <3>2. CASE ~(exchange.count > 0)
      <4>1. exchange.pc = "idle" /\ answers' = answers /\ exchange.count \in Nat /\ exchange.count = 0
        BY <1>1, <2>1, <3>2, ExchangeType DEF GivesUp, Exchange
      <4>2. Len(answers) = KeepAliveMax /\ KeepAliveMax \in DOMAIN answers
        BY <1>1, <4>1, CountAssumption DEF IInv, Counted, TypeOK
      <4>3. answers[KeepAliveMax].closes
        BY <1>1, <4>2 DEF IInv, Announced
      <4>4. QED
        BY <1>1, <4>1, <4>2, <4>3 DEF Promised
    <3>3. QED
      BY <3>1, <3>2
  <2>2. CASE ReadNoLine
    BY <2>2 DEF ReadNoLine
  <2>3. CASE WriteFails
    BY <2>3 DEF WriteFails
  <2>4. CASE Write
    <3>1. DEFINE a == [of |-> exchange.of, status |-> exchange.status,
                       closes |-> LastOfAll \/ exchange.said]
    <3>2. answers' = Append(answers, a)
      BY <2>4 DEF Write
    <3>3. answers'[Len(answers')] = a
      BY <1>1, <3>2 DEF TypeOK
    <3>4. ~exchange.said
      <4>1. a.closes <=> LastOfAll \/ exchange.said
        BY ExchangeType, <1>1 DEF LastOfAll, Exchange
      <4>2. ~a.closes
        BY <1>1, <3>3 DEF Promised
      <4>3. QED
        BY <4>1, <4>2
    <3>5. exchange.closed
      BY <1>1, <2>4 DEF Write, Ends, After, Idle
    <3>6. exchange.of # 0 /\ asked[exchange.of].ends = "old"
      BY <1>1, <2>4, <3>4, <3>5 DEF Write, IInv, Owed
    <3>7. QED
      BY <3>3, <3>6 DEF SaidOld
  <2>5. QED
    BY <1>1, <2>1, <2>2, <2>3, <2>4, OnlyThese
<1>2. QED
  BY <1>1, Inductive, PTL DEF Spec, PromiseKept
-----------------------------------------------------------------------------
(* How long a thread can be kept. *)

\* Work, for each place of the thread.
WorkIs ==
    /\ Work \in Nat
    /\ exchange.pc = "closed" => Work = 0
    /\ exchange.pc = "idle" => Work = 6 * exchange.count + 6 + Len(unread)
    /\ exchange.pc = "line" => Work = 6 * exchange.count + 5 + Len(unread)
    /\ exchange.pc = "fields" => Work = 6 * exchange.count + 4 + Len(unread)
    /\ exchange.pc \in {"again", "content"} => Work = 6 * exchange.count + 3 + Len(unread)
    /\ exchange.pc = "handler" => Work = 6 * exchange.count + 2 + Len(unread)
    /\ exchange.pc = "write" => Work = 6 * exchange.count + 1 + Len(unread)

LEMMA WorkCases == TypeOK => WorkIs
<1> SUFFICES ASSUME TypeOK
             PROVE  WorkIs
  OBVIOUS
<1>1. exchange.pc \in PcSet /\ exchange.count \in Nat /\ Len(unread) \in Nat
  BY ExchangeType, CountAssumption DEF Exchange, TypeOK
<1>2. QED
  BY <1>1 DEF WorkIs, Work, PcSet

\* Reading makes what waits to be read no longer.
LEMMA ReadsShorten ==
  ASSUME TypeOK, (unread # <<>> /\ (Consume \/ Nibble)) \/ NothingComes
  PROVE  Len(unread') <= Len(unread)
<1>1. Len(unread) \in Nat
  BY DEF TypeOK
<1>2. CASE unread # <<>> /\ Consume
  BY <1>1, <1>2, ConsumeReads
<1>3. CASE unread # <<>> /\ Nibble
  BY <1>1, <1>3, NibbleReads
<1>4. CASE NothingComes
  BY <1>1, <1>4 DEF NothingComes, stream
<1>5. QED
  BY <1>2, <1>3, <1>4

LEMMA RespondGoes ==
  ASSUME TypeOK, NEW s, Respond(s)
  PROVE  exchange'.pc = "write" /\ exchange'.count = exchange.count
BY ExchangeType DEF Respond, Exchange

\* Where each step of the thread takes it: to the end, one statement on with no
\* more to be read, round the loop for unsized content, or to the next exchange.
LEMMA ServeGoesOn ==
  ASSUME TypeOK, Counted, Serve
  PROVE  \/ exchange.pc # "closed" /\ exchange'.pc = "closed"
         \/ /\ exchange'.count = exchange.count
            /\ Len(unread') <= Len(unread)
            /\ \/ exchange.pc = "idle" /\ exchange'.pc = "line"
               \/ exchange.pc = "line" /\ exchange'.pc \in {"fields", "write"}
               \/ exchange.pc = "fields" /\ exchange'.pc \in {"again", "content", "handler", "write"}
               \/ exchange.pc \in {"again", "content"} /\ exchange'.pc \in {"handler", "write"}
               \/ exchange.pc = "handler" /\ exchange'.pc = "write"
         \/ /\ exchange'.count = exchange.count
            /\ exchange.pc = "content" /\ exchange'.pc = "content"
            /\ Len(unread') = Len(unread) - 1
         \/ /\ exchange.pc = "write" /\ exchange'.pc = "idle"
            /\ exchange.count > 0 /\ exchange'.count = exchange.count - 1
            /\ Len(unread') <= Len(unread)
<1>t. exchange \in Exchange /\ Len(unread) \in Nat
  BY ExchangeType DEF TypeOK
<1>1. CASE Ready
  BY <1>1, <1>t DEF Ready, Goto, stream, Exchange
<1>2. CASE GivesUp \/ ReadNoLine \/ WriteFails
  BY <1>2, <1>t DEF GivesUp, ReadNoLine, WriteFails, Close, Exchange
<1>3. CASE ReadLine
  BY <1>3, <1>t, ReadsShorten DEF ReadLine, Exchange
<1>4. CASE ReadBadLine
  BY <1>4, <1>t, ReadsShorten DEF ReadBadLine, Exchange
<1>5. CASE ReadFields
  BY <1>5, <1>t, ReadsShorten DEF ReadFields, NextStep, Exchange
<1>6. CASE ReadBadFields
  BY <1>6, <1>t, ReadsShorten DEF ReadBadFields, Exchange
<1>7. CASE ReadNoFields \/ ReadAgain \/ ReadNoContent
  <2>1. exchange'.pc = "write" /\ exchange'.count = exchange.count
    BY <1>7, RespondGoes DEF ReadNoFields, ReadAgain, ReadNoContent
  <2>2. QED
    BY <1>7, <2>1, ReadsShorten DEF ReadNoFields, ReadAgain, ReadNoContent
<1>8. CASE ReadContent
  BY <1>8, <1>t, ReadsShorten DEF ReadContent, Goto, Exchange
<1>9. CASE SkipContent
  BY <1>9, <1>t, ReadsShorten DEF SkipContent, Respond, Exchange
<1>10. CASE ReadOn
  BY <1>10, <1>t, ConsumeReads DEF ReadOn, Exchange
<1>11. CASE Handle
  BY <1>11, <1>t DEF Handle, Respond, stream, Exchange
<1>12. CASE Write
  <2>1. exchange.pc = "write" /\ exchange.count > 0
    BY <1>12 DEF Write, Counted
  <2>2. CASE exchange.closed
    BY <1>12, <2>1, <2>2, <1>t DEF Write, Close, Exchange
  <2>3. CASE ~exchange.closed
    <3>1. exchange' = Idle(exchange.count - 1) /\ ForgetBuffer
      BY <1>12, <2>3 DEF Write, After
    <3>2. exchange'.pc = "idle" /\ exchange'.count = exchange.count - 1
      BY <3>1 DEF Idle
    <3>3. Len(unread') <= Len(unread)
      BY <3>1, <1>t, ForgetReads DEF TypeOK
    <3>4. QED
      BY <2>1, <3>2, <3>3
  <2>4. QED
    BY <2>2, <2>3
<1>13. QED
  BY <1>1, <1>2, <1>3, <1>4, <1>5, <1>6, <1>7, <1>8, <1>9, <1>10, <1>11, <1>12 DEF Serve, Read

\* The client adds to what is to be read, and does nothing else to the thread.
LEMMA ClientOnlySends ==
  ASSUME TypeOK, Environment \/ UNCHANGED vars
  PROVE  exchange' = exchange /\ (exchange.pc = "closed" => unread' = unread)
<1>1. CASE Environment
  BY <1>1 DEF Environment, Ask, Send, Withhold, Leave, Stop, stream
<1>2. CASE UNCHANGED vars
  BY <1>2 DEF vars, stream
<1>3. QED
  BY <1>1, <1>2

\* Each step of the thread brings it nearer to the end of the connection, and each
\* part that a client sends puts that off by one step: a thread makes no more than
\* 6 * KeepAliveMax + 6 steps and one for each part, whatever the parts are.
THEOREM WorkCorrect == Spec => WorkBounded
<1>1. Spec => [](TypeOK /\ IInv /\ WorkIs)
  BY Inductive, WorkCases, PTL
<1>2. ASSUME TypeOK, IInv, WorkIs, TypeOK', WorkIs', [Next]_vars
      PROVE  [/\ Work' \in Nat
              /\ Serve => Work' < Work
              /\ ~Serve => Work' <= Work + (Len(unread') - Len(unread))]_vars
  <2>t. /\ Len(unread) \in Nat /\ Len(unread') \in Nat
        /\ exchange.count \in Nat /\ exchange'.count \in Nat
        /\ exchange.pc \in PcSet
    <3>1. exchange \in Exchange /\ (exchange \in Exchange)'
      BY <1>2 DEF TypeOK, Exchange
    <3>2. QED
      BY <1>2, <3>1, CountAssumption DEF TypeOK, Exchange
  <2>1. Work' \in Nat /\ Work \in Nat
    BY <1>2 DEF WorkIs
  <2>2. ASSUME Serve
        PROVE  Work' < Work
    <3>1. CASE exchange.pc # "closed" /\ exchange'.pc = "closed"
      <4>1. Work > 0
        <5>1. \E n \in 1..6 : Work = 6 * exchange.count + n + Len(unread)
          BY <1>2, <3>1, <2>t DEF WorkIs, PcSet
        <5>2. QED
          BY <5>1, <2>t
      <4>2. Work' = 0
        BY <1>2, <3>1 DEF WorkIs
      <4>3. QED
        BY <4>1, <4>2
    <3>2. CASE /\ exchange'.count = exchange.count
               /\ Len(unread') <= Len(unread)
               /\ \/ exchange.pc = "idle" /\ exchange'.pc = "line"
                  \/ exchange.pc = "line" /\ exchange'.pc \in {"fields", "write"}
                  \/ exchange.pc = "fields" /\ exchange'.pc \in {"again", "content", "handler", "write"}
                  \/ exchange.pc \in {"again", "content"} /\ exchange'.pc \in {"handler", "write"}
                  \/ exchange.pc = "handler" /\ exchange'.pc = "write"
      <4>1. CASE exchange.pc = "idle" /\ exchange'.pc = "line"
        <5>1. Work = 6 * exchange.count + 6 + Len(unread) /\ Work' = 6 * exchange'.count + 5 + Len(unread')
          BY <1>2, <3>2, <4>1 DEF WorkIs
        <5>2. QED
          BY <3>2, <5>1, <2>t
      <4>2. CASE exchange.pc = "line" /\ exchange'.pc \in {"fields", "write"}
        <5>1. /\ Work = 6 * exchange.count + 5 + Len(unread)
              /\ \E n \in 1..4 : Work' = 6 * exchange'.count + n + Len(unread')
          BY <1>2, <3>2, <4>2 DEF WorkIs
        <5>2. QED
          BY <3>2, <5>1, <2>t
      <4>3. CASE exchange.pc = "fields" /\ exchange'.pc \in {"again", "content", "handler", "write"}
        <5>1. /\ Work = 6 * exchange.count + 4 + Len(unread)
              /\ \E n \in 1..3 : Work' = 6 * exchange'.count + n + Len(unread')
          BY <1>2, <3>2, <4>3 DEF WorkIs
        <5>2. QED
          BY <3>2, <5>1, <2>t
      <4>4. CASE exchange.pc \in {"again", "content"} /\ exchange'.pc \in {"handler", "write"}
        <5>1. /\ Work = 6 * exchange.count + 3 + Len(unread)
              /\ \E n \in 1..2 : Work' = 6 * exchange'.count + n + Len(unread')
          BY <1>2, <3>2, <4>4 DEF WorkIs
        <5>2. QED
          BY <3>2, <5>1, <2>t
      <4>5. CASE exchange.pc = "handler" /\ exchange'.pc = "write"
        <5>1. Work = 6 * exchange.count + 2 + Len(unread) /\ Work' = 6 * exchange'.count + 1 + Len(unread')
          BY <1>2, <3>2, <4>5 DEF WorkIs
        <5>2. QED
          BY <3>2, <5>1, <2>t
      <4>6. QED
        BY <3>2, <4>1, <4>2, <4>3, <4>4, <4>5
    <3>3. CASE /\ exchange'.count = exchange.count
               /\ exchange.pc = "content" /\ exchange'.pc = "content"
               /\ Len(unread') = Len(unread) - 1
      <4>1. Work = 6 * exchange.count + 3 + Len(unread) /\ Work' = 6 * exchange'.count + 3 + Len(unread')
        BY <1>2, <3>3 DEF WorkIs
      <4>2. QED
        BY <3>3, <4>1, <2>t
    <3>4. CASE /\ exchange.pc = "write" /\ exchange'.pc = "idle"
               /\ exchange.count > 0 /\ exchange'.count = exchange.count - 1
               /\ Len(unread') <= Len(unread)
      <4>1. Work = 6 * exchange.count + 1 + Len(unread) /\ Work' = 6 * exchange'.count + 6 + Len(unread')
        BY <1>2, <3>4 DEF WorkIs
      <4>2. 6 * exchange.count = 6 * exchange'.count + 6
        BY <3>4, <2>t
      <4>3. QED
        BY <3>4, <4>1, <4>2, <2>t
    <3>5. QED
      BY <1>2, <2>2, <3>1, <3>2, <3>3, <3>4, ServeGoesOn DEF IInv
  <2>3. ASSUME ~Serve
        PROVE  Work' <= Work + (Len(unread') - Len(unread))
    <3>1. exchange' = exchange /\ (exchange.pc = "closed" => unread' = unread)
      BY <1>2, <2>3, ClientOnlySends DEF Next
    <3>2. CASE exchange.pc = "closed"
      <4>1. Work = 0 /\ Work' = 0 /\ Len(unread') - Len(unread) = 0
        BY <1>2, <3>1, <3>2, <2>t DEF WorkIs
      <4>2. QED
        BY <4>1
    <3>3. CASE exchange.pc # "closed"
      <4>1. PICK n \in 1..6 : Work = 6 * exchange.count + n + Len(unread)
                              /\ Work' = 6 * exchange'.count + n + Len(unread')
        <5>1. CASE exchange.pc = "idle"
          BY <1>2, <3>1, <5>1 DEF WorkIs
        <5>2. CASE exchange.pc = "line"
          BY <1>2, <3>1, <5>2 DEF WorkIs
        <5>3. CASE exchange.pc = "fields"
          BY <1>2, <3>1, <5>3 DEF WorkIs
        <5>4. CASE exchange.pc \in {"again", "content"}
          BY <1>2, <3>1, <5>4 DEF WorkIs
        <5>5. CASE exchange.pc = "handler"
          BY <1>2, <3>1, <5>5 DEF WorkIs
        <5>6. CASE exchange.pc = "write"
          BY <1>2, <3>1, <5>6 DEF WorkIs
        <5>7. QED
          BY <3>3, <2>t, <5>1, <5>2, <5>3, <5>4, <5>5, <5>6 DEF PcSet
      <4>2. exchange'.count = exchange.count
        BY <3>1
      <4>3. QED
        BY <4>1, <4>2, <2>t
    <3>4. QED
      BY <3>2, <3>3
  <2>4. QED
    BY <2>1, <2>2, <2>3
<1>3. QED
  BY <1>1, <1>2, PTL DEF Spec, WorkBounded
-----------------------------------------------------------------------------
(* The connection implements HttpChannel. *)

\* The rest of a sequence.
LEMMA RestOf ==
  ASSUME NEW S, NEW q \in Seq(S), q # <<>>
  PROVE  /\ Len(q) > 0 /\ Len(Tail(q)) = Len(q) - 1
         /\ \A i \in 1..Len(Tail(q)) : Tail(q)[i] = q[i + 1]
         /\ Tail(q) # <<>> => Head(Tail(q)) = Tail(q)[1] /\ Len(Tail(q)) > 0
OBVIOUS

\* A sequence with one more element.
LEMMA OneMore ==
  ASSUME NEW S, NEW q \in Seq(S), NEW x
  PROVE  \A k \in DOMAIN Append(q, x) :
           \/ Append(q, x)[k] = x
           \/ k \in DOMAIN q /\ Append(q, x)[k] = q[k]
OBVIOUS

Working == {"fields", "again", "content", "handler", "write"}

\* The line of a request comes after all there was of earlier requests, among what
\* is sent, read, worked on and answered; and no request is worked on again.
Fresh ==
    /\ \A k \in DOMAIN answers : answers[k].of <= Len(asked)
    /\ exchange.pc \in Working /\ exchange.of # 0 => \A k \in DOMAIN answers : answers[k].of < exchange.of
    /\ \A i \in DOMAIN unread : unread[i].part = "line" =>
         /\ exchange.of < unread[i].of
         /\ \A j \in 1..i - 1 : unread[j].of < unread[i].of
         /\ \A k \in DOMAIN answers : answers[k].of < unread[i].of
    /\ parts # <<>> /\ Head(parts) = "line" =>
         /\ exchange.of < Len(asked)
         /\ \A j \in DOMAIN unread : unread[j].of < Len(asked)
         /\ \A k \in DOMAIN answers : answers[k].of < Len(asked)
    /\ \A i \in 2..Len(parts) : parts[i] # "line"

LEMMA FreshInit == Init => Fresh
<1> SUFFICES ASSUME Init
             PROVE  Fresh
  OBVIOUS
<1>1. DOMAIN answers = {} /\ DOMAIN unread = {} /\ parts = <<>> /\ exchange.pc = "idle" /\ Len(parts) = 0
  BY DEF Init, Idle
<1>2. QED
  BY <1>1 DEF Fresh, Working

\* Requests are numbered.
LEMMA NumberTypes ==
  ASSUME TypeOK
  PROVE  /\ \A i \in 1..Len(unread) : unread[i].of \in Nat /\ unread[i].of > 0
         /\ \A k \in DOMAIN answers : answers[k].of \in Nat
<1> USE AskedAssumption
<1>1. \A i \in 1..Len(unread) : unread[i] \in Item
  BY DEF TypeOK
<1>2. \A i \in 1..Len(unread) : unread[i].of \in 1..MaxAsked
  BY <1>1 DEF Item
<1> DEFINE A == [of: 0..MaxAsked, status: Status, closes: BOOLEAN]
<1>3. \A k \in DOMAIN answers : answers[k] \in A
  <2>1. answers \in Seq(A)
    BY DEF TypeOK
  <2> HIDE DEF A
  <2>2. QED
    BY <2>1
<1>4. \A k \in DOMAIN answers : answers[k].of \in 0..MaxAsked
  BY <1>3
<1>5. QED
  BY <1>2, <1>4

\* What is left to be read is the end of what there was, but for a line of content
\* that is missing.
Shortened(d) ==
    /\ Len(unread') = Len(unread) - d
    /\ \A i \in 1..Len(unread') :
         /\ unread'[i].of = unread[i + d].of
         /\ unread'[i].part = "line" => unread[i + d].part = "line"

LEMMA ReadsShortened ==
  ASSUME TypeOK, (unread # <<>> /\ (Consume \/ Nibble)) \/ NothingComes \/ unread' = unread
  PROVE  \E d \in 0..Len(unread) : Shortened(d)
<1>1. Len(unread) \in Nat
  BY DEF TypeOK
<1>2. CASE unread # <<>> /\ Consume
  <2>1. Len(unread) # 0 /\ 1 \in 0..Len(unread)
    BY <1>1, <1>2 DEF TypeOK
  <2>2. QED
    BY <1>2, <2>1, ConsumeReads DEF Shortened
<1>3. CASE unread # <<>> /\ Nibble
  <2>1. 0 \in 0..Len(unread) /\ Len(unread) - 0 = Len(unread) /\ \A i \in 1..Len(unread) : i + 0 = i
    BY <1>1
  <2>2. Shortened(0)
    BY <1>3, <2>1, NibbleReads DEF Shortened
  <2>3. QED
    BY <2>1, <2>2
<1>4. CASE NothingComes \/ unread' = unread
  <2>1. unread' = unread
    BY <1>4 DEF NothingComes, stream
  <2>2. 0 \in 0..Len(unread) /\ Len(unread) - 0 = Len(unread) /\ \A i \in 1..Len(unread) : i + 0 = i
    BY <1>1
  <2>3. Shortened(0)
    BY <2>1, <2>2 DEF Shortened
  <2>4. QED
    BY <2>2, <2>3
<1>5. QED
  BY <1>2, <1>3, <1>4

\* Steps that begin with no request leave it at that.
LEMMA StillFresh ==
  ASSUME TypeOK, TypeOK', Fresh, UNCHANGED <<asked, parts, answers>>,
         NEW d \in 0..Len(unread), Shortened(d),
         exchange'.of = exchange.of \/ exchange'.of = 0,
         exchange'.pc \in Working /\ exchange'.of # 0 => exchange.pc \in Working
  PROVE  Fresh'
<1>t. /\ Len(unread) \in Nat /\ Len(unread') \in Nat
      /\ DOMAIN unread = 1..Len(unread) /\ DOMAIN unread' = 1..Len(unread')
      /\ exchange.of \in Nat
  BY ExchangeType, AskedAssumption DEF TypeOK, Exchange
<1>s. \A i \in 1..Len(unread') : i + d \in 1..Len(unread) /\ (\A j \in 1..i - 1 : j + d \in 1..(i + d) - 1)
  BY <1>t DEF Shortened
<1>n. \A i \in 1..Len(unread') : unread'[i].of \in Nat /\ unread'[i].of > 0
  BY <1>s, NumberTypes DEF Shortened
<1>1. \A i \in DOMAIN unread' : unread'[i].part = "line" =>
         /\ exchange'.of < unread'[i].of
         /\ \A j \in 1..i - 1 : unread'[j].of < unread'[i].of
         /\ \A k \in DOMAIN answers : answers[k].of < unread'[i].of
  <2> SUFFICES ASSUME NEW i \in 1..Len(unread'), unread'[i].part = "line"
               PROVE  /\ exchange'.of < unread'[i].of
                      /\ \A j \in 1..i - 1 : unread'[j].of < unread'[i].of
                      /\ \A k \in DOMAIN answers : answers[k].of < unread'[i].of
    BY <1>t
  <2>1. i + d \in DOMAIN unread /\ unread[i + d].part = "line" /\ unread'[i].of = unread[i + d].of
    BY <1>t, <1>s DEF Shortened
  <2>2. /\ exchange.of < unread'[i].of
        /\ \A j \in 1..(i + d) - 1 : unread[j].of < unread'[i].of
        /\ \A k \in DOMAIN answers : answers[k].of < unread'[i].of
    BY <2>1 DEF Fresh
  <2>3. ASSUME NEW j \in 1..i - 1
        PROVE  unread'[j].of < unread'[i].of
    <3>1. j \in 1..Len(unread') /\ j + d \in 1..(i + d) - 1
      BY <1>t, <1>s
    <3>2. unread'[j].of = unread[j + d].of
      BY <3>1 DEF Shortened
    <3>3. QED
      BY <2>2, <3>1, <3>2
  <2>4. QED
    BY <2>2, <2>3, <1>t, <1>n
<1>2. \A j \in DOMAIN unread' : \E k \in DOMAIN unread : unread'[j].of = unread[k].of
  BY <1>t, <1>s DEF Shortened
<1>3. parts # <<>> /\ Head(parts) = "line" =>
         /\ exchange'.of < Len(asked)
         /\ \A j \in DOMAIN unread' : unread'[j].of < Len(asked)
  <2>1. Len(asked) \in Nat
    BY DEF TypeOK
  <2>2. parts # <<>> /\ Head(parts) = "line" => 0 < Len(asked)
    BY <2>1, <1>t DEF Fresh
  <2>3. QED
    BY <1>2, <2>2 DEF Fresh
<1>4. exchange'.pc \in Working /\ exchange'.of # 0 => \A k \in DOMAIN answers : answers[k].of < exchange'.of
  BY DEF Fresh
<1>5. QED
  BY <1>1, <1>3, <1>4 DEF Fresh

\* The line of a request is read.
LEMMA LineFresh ==
  ASSUME TypeOK, TypeOK', Known, Fresh, UNCHANGED <<asked, parts, answers>>,
         unread # <<>>, Head(unread).part = "line", Consume, exchange'.of = Head(unread).of
  PROVE  Fresh'
<1>t. /\ Len(unread) \in Nat /\ Len(unread) > 0 /\ Head(unread) = unread[1]
      /\ DOMAIN unread = 1..Len(unread)
  BY DEF TypeOK
<1>1. /\ Len(unread') = Len(unread) - 1 /\ DOMAIN unread' = 1..Len(unread')
      /\ \A i \in 1..Len(unread') : unread'[i] = unread[i + 1]
  BY ConsumeReads DEF TypeOK
<1>2. \A k \in DOMAIN answers : answers[k].of < exchange'.of
  BY <1>t DEF Fresh
<1>3. ASSUME NEW i \in 1..Len(unread'), unread'[i].part = "line"
      PROVE  /\ exchange'.of < unread'[i].of
             /\ \A j \in 1..i - 1 : unread'[j].of < unread'[i].of
             /\ \A k \in DOMAIN answers : answers[k].of < unread'[i].of
  <2>1. i + 1 \in DOMAIN unread /\ unread[i + 1].part = "line" /\ unread'[i] = unread[i + 1]
    BY <1>t, <1>1, <1>3
  <2>2. /\ \A j \in 1..(i + 1) - 1 : unread[j].of < unread'[i].of
        /\ \A k \in DOMAIN answers : answers[k].of < unread'[i].of
    BY <2>1 DEF Fresh
  <2>3. 1 \in 1..(i + 1) - 1
    BY <1>t, <1>1
  <2>4. ASSUME NEW j \in 1..i - 1
        PROVE  unread'[j].of < unread'[i].of
    <3>1. j \in 1..Len(unread') /\ j + 1 \in 1..(i + 1) - 1
      BY <1>t, <1>1
    <3>2. QED
      BY <1>1, <2>2, <3>1
  <2>5. QED
    BY <1>t, <2>2, <2>3, <2>4
<1>4. parts # <<>> /\ Head(parts) = "line" =>
         /\ exchange'.of < Len(asked)
         /\ \A j \in DOMAIN unread' : unread'[j].of < Len(asked)
  <2>1. \A j \in DOMAIN unread' : j + 1 \in DOMAIN unread
    BY <1>t, <1>1
  <2>2. 1 \in DOMAIN unread
    BY <1>t
  <2>3. QED
    BY <1>t, <1>1, <2>1, <2>2 DEF Fresh
<1>5. QED
  BY <1>1, <1>2, <1>3, <1>4 DEF Fresh

\* The client asks for what is new, and sends its parts in order.
LEMMA ClientFresh ==
  ASSUME TypeOK, TypeOK', Known, Fresh, Environment
  PROVE  Fresh'
<1>t. /\ Len(unread) \in Nat /\ DOMAIN unread = 1..Len(unread)
      /\ Len(asked) \in Nat /\ DOMAIN asked = 1..Len(asked)
      /\ Len(parts) \in Nat /\ exchange.of \in 0..Len(asked)
  BY DEF TypeOK, Known
<1>1. CASE Ask
  <2>1. PICK r \in Requests : asked' = Append(asked, r) /\ parts' = Parts(r)
    BY <1>1 DEF Ask
  <2>2. Len(asked') = Len(asked) + 1
    BY <2>1 DEF TypeOK
  <2>3. UNCHANGED <<unread, exchange, answers>>
    BY <1>1 DEF Ask, stream
  <2>4. \A i \in 2..Len(parts') : parts'[i] # "line"
    <3>1. CASE r.content \in {"none", "unsized"}
      <4>1. Len(Parts(r)) = 2 /\ Parts(r)[2] = "fields"
        BY <3>1, PartsType
      <4>2. \A i \in 2..2 : i = 2
        OBVIOUS
      <4>3. QED
        BY <2>1, <4>1, <4>2
    <3>2. CASE r.content \notin {"none", "unsized"}
      <4>1. Len(Parts(r)) = 3 /\ Parts(r)[2] = "fields" /\ Parts(r)[3] = "content"
        BY <3>2, PartsType
      <4>2. \A i \in 2..3 : i = 2 \/ i = 3
        OBVIOUS
      <4>3. QED
        BY <2>1, <4>1, <4>2
    <3>3. QED
      BY <3>1, <3>2
  <2>5. /\ \A k \in DOMAIN answers : answers[k].of < Len(asked')
        /\ \A j \in DOMAIN unread : unread[j].of < Len(asked')
        /\ exchange.of < Len(asked')
    <3>1. \A k \in DOMAIN answers : answers[k].of <= Len(asked) /\ answers[k].of \in Nat
      BY NumberTypes DEF Fresh
    <3>2. \A j \in DOMAIN unread : unread[j].of \in 1..Len(asked)
      BY <1>t DEF Known
    <3>3. QED
      BY <1>t, <2>2, <3>1, <3>2
  <2>6. \A k \in DOMAIN answers : answers[k].of <= Len(asked')
    <3>1. \A k \in DOMAIN answers : answers[k].of \in Nat
      BY NumberTypes
    <3>2. QED
      BY <1>t, <2>2, <2>5, <3>1
  <2>7. QED
    BY <2>3, <2>4, <2>5, <2>6 DEF Fresh
<1>2. CASE Send
  <2> DEFINE item == [of |-> Len(asked), part |-> Head(parts)]
  <2>1. /\ parts # <<>> /\ parts' = Tail(parts) /\ unread' = Append(unread, item)
        /\ UNCHANGED <<asked, exchange, answers>>
    BY <1>2 DEF Send
  <2>2. /\ Len(parts) > 0 /\ Len(parts') = Len(parts) - 1
        /\ \A i \in 1..Len(parts') : parts'[i] = parts[i + 1]
        /\ parts' # <<>> => Head(parts') = parts'[1] /\ Len(parts') > 0
    <3>1. parts \in Seq({"line", "fields", "content"})
      BY DEF TypeOK
    <3>2. QED
      BY <2>1, <3>1, RestOf
  <2>3. \A i \in 1..Len(parts') : parts'[i] # "line"
    <3>1. \A i \in 1..Len(parts') : i + 1 \in 2..Len(parts)
      BY <1>t, <2>2
    <3>2. QED
      BY <2>2, <3>1 DEF Fresh
  <2>4. ~(parts' # <<>> /\ Head(parts') = "line") /\ \A i \in 2..Len(parts') : parts'[i] # "line"
    BY <1>t, <2>2, <2>3
  <2>5. item.of = Len(asked) /\ item.part = Head(parts)
    OBVIOUS
  <2> HIDE DEF item
  <2>6. /\ Len(unread') = Len(unread) + 1 /\ DOMAIN unread' = 1..Len(unread')
        /\ unread'[Len(unread) + 1] = item
        /\ \A i \in 1..Len(unread) : unread'[i] = unread[i]
    BY <1>2, <2>1 DEF TypeOK
  <2>7. ASSUME NEW i \in 1..Len(unread'), unread'[i].part = "line"
        PROVE  /\ exchange.of < unread'[i].of
               /\ \A j \in 1..i - 1 : unread'[j].of < unread'[i].of
               /\ \A k \in DOMAIN answers : answers[k].of < unread'[i].of
    <3>1. CASE i \in 1..Len(unread)
      <4>1. \A j \in 1..i - 1 : j \in 1..Len(unread)
        BY <1>t, <3>1
      <4>2. QED
        BY <1>t, <2>6, <2>7, <3>1, <4>1 DEF Fresh
    <3>2. CASE i = Len(unread) + 1
      <4>1. unread'[i] = item /\ Head(parts) = "line" /\ unread'[i].of = Len(asked)
        BY <2>5, <2>6, <2>7, <3>2
      <4>2. \A j \in 1..i - 1 : j \in DOMAIN unread /\ unread'[j] = unread[j]
        BY <1>t, <2>6, <3>2
      <4>3. QED
        BY <2>1, <4>1, <4>2 DEF Fresh
    <3>3. QED
      BY <1>t, <2>6, <3>1, <3>2
  <2>8. QED
    BY <2>1, <2>4, <2>6, <2>7 DEF Fresh
<1>3. CASE Withhold \/ Leave \/ Stop
  <2>1. UNCHANGED <<asked, unread, exchange, answers>> /\ (parts' = parts \/ parts' = <<>>)
    BY <1>3 DEF Withhold, Leave, Stop, client, stream
  <2>2. QED
    BY <2>1 DEF Fresh
<1>4. QED
  BY <1>1, <1>2, <1>3 DEF Environment

\* The answer to the request that was worked on is the last one there is.
LEMMA AnswerFresh ==
  ASSUME TypeOK, TypeOK', Known, Fresh, Write
  PROVE  Fresh'
<1>t. /\ Len(unread) \in Nat /\ DOMAIN unread = 1..Len(unread)
      /\ Len(asked) \in Nat /\ exchange.of \in 0..Len(asked)
      /\ \A i \in 1..Len(unread) : unread[i].of \in Nat /\ unread[i].of > 0
  <2>1. Len(unread) \in Nat /\ DOMAIN unread = 1..Len(unread) /\ Len(asked) \in Nat
    BY DEF TypeOK
  <2>2. exchange.of \in 0..Len(asked)
    BY DEF Known
  <2>3. QED
    BY <2>1, <2>2, NumberTypes
<1> DEFINE a == [of |-> exchange.of, status |-> exchange.status, closes |-> LastOfAll \/ exchange.said]
<1>1. answers' = Append(answers, a) /\ UNCHANGED <<asked, parts>>
  BY DEF Write, client
<1>2. a.of = exchange.of
  OBVIOUS
<1> HIDE DEF a
<1>3. \A k \in DOMAIN answers' : answers'[k].of = exchange.of \/ (k \in DOMAIN answers /\ answers'[k] = answers[k])
  <2>1. answers \in Seq([of: 0..MaxAsked, status: Status, closes: BOOLEAN])
    BY DEF TypeOK
  <2>2. QED
    BY <1>1, <1>2, <2>1, OneMore
<1>4. \E d \in 0..Len(unread) : Shortened(d)
  <2>1. CASE exchange.closed
    <3>1. unread' = <<>>
      BY <2>1 DEF Write, Close
    <3>2. Shortened(Len(unread))
      BY <1>t, <3>1 DEF Shortened
    <3>3. QED
      BY <1>t, <3>2
  <2>2. CASE ~exchange.closed
    <3>1. ForgetBuffer
      BY <2>2 DEF Write
    <3>2. Shortened(buffered) /\ buffered \in 0..Len(unread)
      BY <3>1, ForgetReads DEF Shortened, TypeOK
    <3>3. QED
      BY <3>2
  <2>3. QED
    BY <2>1, <2>2
<1>5. exchange'.pc \notin Working /\ exchange'.of \in {exchange.of, 0}
  <2>1. CASE exchange.closed
    BY <2>1, ExchangeType DEF Write, Close, Exchange, Working
  <2>2. CASE ~exchange.closed
    BY <2>2 DEF Write, After, Idle, Working
  <2>3. QED
    BY <2>1, <2>2
<1>6. PICK d \in 0..Len(unread) : Shortened(d)
  BY <1>4
<1>s. /\ Len(unread') \in Nat /\ DOMAIN unread' = 1..Len(unread')
      /\ \A i \in 1..Len(unread') : i + d \in 1..Len(unread) /\ (\A j \in 1..i - 1 : j + d \in 1..(i + d) - 1)
  <2>1. Len(unread') \in Nat /\ DOMAIN unread' = 1..Len(unread') /\ Len(unread') = Len(unread) - d
    BY <1>6 DEF Shortened, TypeOK
  <2>2. QED
    BY <1>t, <2>1
<1>7. ASSUME NEW i \in 1..Len(unread'), unread'[i].part = "line"
      PROVE  /\ exchange'.of < unread'[i].of
             /\ \A j \in 1..i - 1 : unread'[j].of < unread'[i].of
             /\ \A k \in DOMAIN answers' : answers'[k].of < unread'[i].of
  <2>1. i + d \in DOMAIN unread /\ unread[i + d].part = "line" /\ unread'[i].of = unread[i + d].of
    BY <1>t, <1>s, <1>6, <1>7 DEF Shortened
  <2>2. /\ exchange.of < unread'[i].of
        /\ \A j \in 1..(i + d) - 1 : unread[j].of < unread'[i].of
        /\ \A k \in DOMAIN answers : answers[k].of < unread'[i].of
    BY <2>1 DEF Fresh
  <2>3. ASSUME NEW j \in 1..i - 1
        PROVE  unread'[j].of < unread'[i].of
    <3>1. j \in 1..Len(unread') /\ j + d \in 1..(i + d) - 1
      BY <1>s
    <3>2. unread'[j].of = unread[j + d].of
      BY <1>6, <3>1 DEF Shortened
    <3>3. QED
      BY <2>2, <3>1, <3>2
  <2>4. unread'[i].of > 0
    BY <1>t, <2>1
  <2>5. QED
    BY <1>3, <1>5, <2>2, <2>3, <2>4
<1>8. parts # <<>> /\ Head(parts) = "line" =>
        /\ exchange'.of < Len(asked)
        /\ \A j \in DOMAIN unread' : unread'[j].of < Len(asked)
        /\ \A k \in DOMAIN answers' : answers'[k].of < Len(asked)
  <2> SUFFICES ASSUME parts # <<>>, Head(parts) = "line"
               PROVE  /\ exchange'.of < Len(asked)
                      /\ \A j \in DOMAIN unread' : unread'[j].of < Len(asked)
                      /\ \A k \in DOMAIN answers' : answers'[k].of < Len(asked)
    OBVIOUS
  <2>1. /\ exchange.of < Len(asked)
        /\ \A j \in DOMAIN unread : unread[j].of < Len(asked)
        /\ \A k \in DOMAIN answers : answers[k].of < Len(asked)
    BY DEF Fresh
  <2>2. \A j \in DOMAIN unread' : unread'[j].of < Len(asked)
    BY <1>t, <1>s, <1>6, <2>1 DEF Shortened
  <2>3. QED
    BY <1>t, <1>3, <1>5, <2>1, <2>2
<1>9. \A k \in DOMAIN answers' : answers'[k].of <= Len(asked)
  BY <1>t, <1>3 DEF Fresh
<1>10. QED
  BY <1>1, <1>5, <1>7, <1>8, <1>9, <1>s DEF Fresh

LEMMA FreshStep ==
  TypeOK /\ IInv /\ TypeOK' /\ Fresh /\ [Next]_vars => Fresh'
<1> SUFFICES ASSUME TypeOK, IInv, TypeOK', Fresh, [Next]_vars
             PROVE  Fresh'
  OBVIOUS
<1>k. Known
  BY DEF IInv
<1>1. CASE Environment
  BY <1>1, <1>k, ClientFresh
<1>2. CASE Write
  BY <1>2, <1>k, AnswerFresh
<1>3. CASE ReadLine \/ (ReadBadLine /\ Head(unread).part = "line")
  <2>1. /\ UNCHANGED <<asked, parts, answers>>
        /\ unread # <<>> /\ Head(unread).part = "line" /\ exchange'.of = Head(unread).of
    BY <1>3, ExchangeType DEF ReadLine, ReadBadLine, GoodLine, client, Exchange
  <2>2. Consume
    BY <1>3 DEF ReadLine, ReadBadLine, Nibble
  <2>3. QED
    BY <2>1, <2>2, <1>k, LineFresh
<1>4. ASSUME Serve, ~Write, ~(ReadLine \/ (ReadBadLine /\ Head(unread).part = "line"))
      PROVE  Fresh'
  <2>1. UNCHANGED <<asked, parts, answers>>
    BY <1>4 DEF Serve, Read, Ready, GivesUp, ReadBadLine, ReadNoLine, ReadFields, ReadBadFields,
      ReadNoFields, ReadAgain, ReadContent, SkipContent, ReadOn, ReadNoContent, Handle, WriteFails, client
  <2>2. \E d \in 0..Len(unread) : Shortened(d)
    <3>1. CASE GivesUp \/ ReadNoLine \/ WriteFails
      <4>1. unread' = <<>> /\ Len(unread) \in Nat
        BY <3>1 DEF GivesUp, ReadNoLine, WriteFails, Close, TypeOK
      <4>2. Shortened(Len(unread))
        BY <4>1 DEF Shortened
      <4>3. QED
        BY <4>1, <4>2
    <3>2. CASE Ready \/ Handle
      BY <3>2, ReadsShortened DEF Ready, Handle, stream
    <3>3. CASE Read /\ ~ReadNoLine
      BY <3>3, ReadsShortened DEF Read, ReadLine, ReadBadLine, ReadFields, ReadBadFields,
        ReadNoFields, ReadAgain, ReadContent, SkipContent, ReadOn, ReadNoContent
    <3>4. QED
      BY <1>4, <3>1, <3>2, <3>3 DEF Serve
  <2>3. /\ exchange'.of = exchange.of \/ exchange'.of = 0
        /\ exchange'.pc \in Working /\ exchange'.of # 0 => exchange.pc \in Working
    <3>1. CASE Ready \/ GivesUp \/ ReadNoLine \/ WriteFails \/ ReadContent
      BY <3>1, ExchangeType DEF Ready, GivesUp, ReadNoLine, WriteFails, ReadContent, Close, Goto,
        Exchange, Working
    <3>2. CASE ReadBadLine
      BY <1>4, <3>2, ExchangeType DEF ReadBadLine, Exchange, Working
    <3>3. CASE ReadFields \/ ReadBadFields \/ ReadOn
      BY <3>3, ExchangeType DEF ReadFields, ReadBadFields, ReadOn, Exchange, Working
    <3>4. CASE ReadNoFields \/ ReadAgain \/ SkipContent \/ ReadNoContent \/ Handle
      <4>1. PICK s : Respond(s)
        BY <3>4 DEF ReadNoFields, ReadAgain, SkipContent, ReadNoContent, Handle
      <4>2. exchange'.of = exchange.of
        BY <4>1, ExchangeType DEF Respond, Exchange
      <4>3. exchange.pc \in Working
        BY <3>4 DEF ReadNoFields, ReadAgain, SkipContent, ReadNoContent, Handle, Working
      <4>4. QED
        BY <4>2, <4>3
    <3>5. QED
      BY <1>4, <3>1, <3>2, <3>3, <3>4 DEF Serve, Read
  <2>4. QED
    BY <2>1, <2>2, <2>3, StillFresh
<1>5. CASE UNCHANGED vars
  BY <1>5 DEF vars, client, stream, Fresh
<1>6. QED
  BY <1>1, <1>2, <1>3, <1>4, <1>5 DEF Next

-----------------------------------------------------------------------------
\* The answers as HttpChannel sees them.
Numbers == [i \in DOMAIN answers |-> answers[i].of]

LEMMA NumbersType == TypeOK => /\ Numbers \in Seq(Nat) /\ Len(Numbers) = Len(answers)
                               /\ DOMAIN Numbers = DOMAIN answers
<1> SUFFICES ASSUME TypeOK
             PROVE  /\ Numbers \in Seq(Nat) /\ Len(Numbers) = Len(answers)
                    /\ DOMAIN Numbers = DOMAIN answers
  OBVIOUS
<1>1. Len(answers) \in Nat /\ DOMAIN answers = 1..Len(answers)
      /\ \A i \in DOMAIN answers : answers[i].of \in Nat
  BY NumberTypes DEF TypeOK
<1>2. Numbers \in [1..Len(answers) -> Nat]
  BY <1>1 DEF Numbers
<1>3. QED
  BY <1>1, <1>2

LEMMA ChannelInit == Init => Channel!Init
<1> SUFFICES ASSUME Init
             PROVE  Channel!Init
  OBVIOUS
<1>1. Len(asked) = 0 /\ exchange.pc # "closed"
  BY DEF Init, Idle
<1>2. answers = <<>> /\ DOMAIN answers = {}
  BY DEF Init
<1>3. [i \in DOMAIN answers |-> answers[i].of] = <<>>
  BY <1>2
<1>4. QED
  BY <1>1, <1>3 DEF Channel!Init

LEMMA ChannelStep ==
  TypeOK /\ IInv /\ Fresh /\ TypeOK' /\ [Next]_vars
    => [Channel!Next]_<<Len(asked), Numbers, exchange.pc # "closed">>
<1> SUFFICES ASSUME TypeOK, IInv, Fresh, TypeOK', [Next]_vars
             PROVE  [Channel!Next]_<<Len(asked), Numbers, exchange.pc # "closed">>
  OBVIOUS
<1>t. Len(asked) \in Nat /\ Len(answers) \in Nat
  BY DEF TypeOK
<1>1. CASE Ask
  <2>1. Len(asked') = Len(asked) + 1
    BY <1>1, <1>t DEF Ask, TypeOK
  <2>2. exchange.pc # "closed" /\ UNCHANGED <<answers, exchange>> /\ Numbers' = Numbers
    BY <1>1 DEF Ask, Numbers
  <2>3. Channel!Ask
    BY <2>1, <2>2 DEF Channel!Ask, Numbers
  <2>4. QED
    BY <2>3 DEF Channel!Next
<1>2. CASE Send \/ Withhold \/ Leave \/ Stop \/ UNCHANGED vars
  <2>1. UNCHANGED <<asked, answers, exchange>>
    BY <1>2 DEF Send, Withhold, Leave, Stop, vars, client
  <2>2. QED
    BY <2>1 DEF Numbers
<1>3. CASE Write
  <2> DEFINE a == [of |-> exchange.of, status |-> exchange.status,
                   closes |-> LastOfAll \/ exchange.said]
             n == exchange.of
  <2>1. /\ exchange.pc = "write" /\ answers' = Append(answers, a) /\ asked' = asked
    BY <1>3 DEF Write, client
  <2>2. a.of = n
    OBVIOUS
  <2>3. Len(answers) < KeepAliveMax
    <3>1. Len(answers) + exchange.count = KeepAliveMax /\ exchange.count > 0 /\ exchange.count \in Nat
      BY <2>1, ExchangeType DEF IInv, Counted, Exchange
    <3>2. QED
      BY <3>1, <1>t, CountAssumption
  <2>4. n \in 0..Len(asked) /\ (n # 0 => n \in 1..Len(asked))
    BY <1>t DEF IInv, Known
  <2>5. n # 0 => \A i \in DOMAIN Numbers : Numbers[i] < n
    BY <2>1 DEF Fresh, Working, Numbers
  <2> HIDE DEF a, n
  <2>6. /\ DOMAIN answers = 1..Len(answers) /\ DOMAIN answers' = 1..Len(answers) + 1
        /\ answers'[Len(answers) + 1] = a
        /\ \A i \in 1..Len(answers) : answers'[i] = answers[i]
    BY <2>1 DEF TypeOK
  <2>7. Numbers' = Append(Numbers, n)
    <3>1. Numbers \in Seq(Nat) /\ Len(Numbers) = Len(answers) /\ n \in Nat
      BY <2>4, <1>t, NumbersType
    <3>4. \A i \in 1..Len(answers) + 1 : answers'[i].of \in Nat
      <4>1. \A i \in 1..Len(answers) : answers'[i].of \in Nat
        BY <2>6, NumberTypes
      <4>2. answers'[Len(answers) + 1].of \in Nat
        BY <2>2, <2>6, <3>1
      <4>3. \A i \in 1..Len(answers) + 1 : i \in 1..Len(answers) \/ i = Len(answers) + 1
        BY <1>t
      <4>4. QED
        BY <4>1, <4>2, <4>3
    <3>5. Numbers' \in [1..Len(answers) + 1 -> Nat]
      BY <2>6, <3>4 DEF Numbers
    <3>6. Numbers' \in Seq(Nat) /\ Len(Numbers') = Len(answers) + 1
      BY <1>t, <3>5
    <3>2. \A i \in 1..Len(answers) + 1 : Numbers'[i] = Append(Numbers, n)[i]
      BY <1>t, <2>2, <2>6, <3>1 DEF Numbers
    <3>3. QED
      BY <3>1, <3>2, <3>6
  <2>8. Channel!Answerable(n)
    BY <2>4, <2>5 DEF Channel!Answerable, Numbers
  <2>9. Channel!Answer
    <3>1. Len(Numbers) < KeepAliveMax
      BY <2>3, NumbersType
    <3>2. QED
      BY <2>1, <2>4, <2>7, <2>8, <3>1 DEF Channel!Answer, Numbers
  <2>10. QED
    BY <2>9 DEF Channel!Next
<1>4. ASSUME Serve, ~Write
      PROVE  [Channel!Next]_<<Len(asked), Numbers, exchange.pc # "closed">>
  <2>1. UNCHANGED <<asked, answers>> /\ Numbers' = Numbers
    BY <1>4 DEF Serve, Read, Ready, GivesUp, ReadLine, ReadBadLine, ReadNoLine, ReadFields, ReadBadFields,
      ReadNoFields, ReadAgain, ReadContent, SkipContent, ReadOn, ReadNoContent, Handle, WriteFails,
      client, Numbers
  <2>2. exchange.pc # "closed"
    BY <1>4 DEF Serve, Read, Ready, GivesUp, ReadLine, ReadBadLine, ReadNoLine, ReadFields, ReadBadFields,
      ReadNoFields, ReadAgain, ReadContent, SkipContent, ReadOn, ReadNoContent, Handle, WriteFails
  <2>3. CASE exchange'.pc = "closed"
    <3>1. Channel!Close
      BY <2>1, <2>2, <2>3 DEF Channel!Close, Numbers
    <3>2. QED
      BY <3>1 DEF Channel!Next
  <2>4. CASE exchange'.pc # "closed"
    BY <2>1, <2>2, <2>4
  <2>5. QED
    BY <2>3, <2>4
<1>5. QED
  BY <1>1, <1>2, <1>3, <1>4 DEF Next, Environment

\* A connection implements HttpChannel: whatever a client sends, pipelines, withholds
\* or leaves out, no request is answered twice, before it was asked or after a later
\* one, no connection carries more than KeepAliveMax answers, and none when closed.
THEOREM ImplementsChannel == Spec => ChannelSpec
<1>1. TypeOK /\ IInv /\ Fresh /\ TypeOK' /\ [Next]_vars => Fresh'
  BY FreshStep
<1>2. Spec => [](TypeOK /\ IInv /\ Fresh)
  BY <1>1, Inductive, FreshInit, PTL DEF Spec
<1>3. QED
  BY <1>2, ChannelInit, ChannelStep, PTL DEF Spec, ChannelSpec, Channel!Spec, Numbers
=============================================================================
