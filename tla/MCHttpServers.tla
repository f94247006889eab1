--------------------------- MODULE MCHttpServers ----------------------------
(* Instances of HttpServers for TLC. *)
EXTENDS HttpServers, TLC

Alike == Permutations(Thr) \union Permutations(Ref) \union Permutations(Srv)
=============================================================================
