---------------------------- MODULE HttpExchange ----------------------------
(***************************************************************************)
(* What an HttpServer promises about one HTTP exchange, whatever the       *)
(* script does and however its threads interleave.  Either the exchange    *)
(* never involves the main thread, or its HttpRequest goes through these   *)
(* stages, each entered once and none skipped:                             *)
(*                                                                         *)
(*   waiting    the request is allocated and waits for the script          *)
(*   settled    somebody has called MarkHandled; the response is decided   *)
(*   answered   the pool thread has copied the response and let go of it   *)
(*   freed      the main thread has deleted the request                    *)
(***************************************************************************)
CONSTANT Req

VARIABLE stage

Init == stage = [r \in Req |-> "absent"]

Move(r, from, to) ==
    /\ stage[r] = from
    /\ stage' = [stage EXCEPT ![r] = to]

Local(r)  == Move(r, "absent", "local")
Submit(r) == Move(r, "absent", "waiting")
Settle(r) == Move(r, "waiting", "settled")
Answer(r) == Move(r, "settled", "answered")
Free(r)   == Move(r, "answered", "freed")

Next == \E r \in Req : Local(r) \/ Submit(r) \/ Settle(r) \/ Answer(r) \/ Free(r)

Spec == Init /\ [][Next]_stage
=============================================================================
