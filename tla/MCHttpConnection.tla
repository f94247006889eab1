-------------------------- MODULE MCHttpConnection --------------------------
(* Instances of HttpConnection for TLC. *)
EXTENDS HttpConnection, TLC

Plain == [line |-> TRUE, fields |-> TRUE, fits |-> TRUE, range |-> TRUE,
          ends |-> "no", content |-> "none"]

\* One request for each way through process_request.
EachKind == {
    Plain,
    [Plain EXCEPT !.ends = "said", !.content = "sized"],
    [Plain EXCEPT !.content = "large"],
    [Plain EXCEPT !.line = FALSE],
    [Plain EXCEPT !.fields = FALSE, !.ends = "said", !.content = "sized"],
    [Plain EXCEPT !.fits = FALSE, !.ends = "said"],
    [Plain EXCEPT !.range = FALSE, !.content = "sized"],
    [Plain EXCEPT !.ends = "old", !.content = "packed"],
    [Plain EXCEPT !.content = "expect"],
    [Plain EXCEPT !.content = "unsized"]}
=============================================================================
