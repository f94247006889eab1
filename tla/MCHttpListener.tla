--------------------------- MODULE MCHttpListener ---------------------------
(* Instances of HttpListener for TLC: two calls of Start. *)
EXTENDS HttpListener, TLC
=============================================================================
