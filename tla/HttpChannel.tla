---------------------------- MODULE HttpChannel ----------------------------
(***************************************************************************)
(* What a connection promises, whatever its client sends, however that is  *)
(* cut and buffered, and wherever reading a request breaks off: each       *)
(* request is answered once at most, after it was asked and after those    *)
(* before it; there are no more than Most answers; and none comes after    *)
(* the connection was closed.                                              *)
(***************************************************************************)
EXTENDS Naturals, Sequences

CONSTANT Most    \* answers a connection can carry

VARIABLES
    asked,       \* how many requests the client has made: they are 1..asked
    answers,     \* the request each answer belongs to
    open

Init ==
    /\ asked = 0
    /\ answers = <<>>
    /\ open = TRUE

Ask ==
    /\ open
    /\ asked' = asked + 1
    /\ UNCHANGED <<answers, open>>

\* Bytes that are no request are answered, too: to request 0.
Answerable(n) ==
    \/ n = 0
    \/ n \in 1..asked /\ \A i \in DOMAIN answers : answers[i] < n

\* The connection may be closed with the answer.
Answer ==
    /\ open /\ Len(answers) < Most
    /\ \E n \in 0..asked :
         /\ Answerable(n)
         /\ answers' = Append(answers, n)
    /\ open' \in BOOLEAN
    /\ UNCHANGED asked

Close ==
    /\ open
    /\ open' = FALSE
    /\ UNCHANGED <<asked, answers>>

Next == Ask \/ Answer \/ Close

Spec == Init /\ [][Next]_<<asked, answers, open>>
=============================================================================
