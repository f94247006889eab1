------------------------- MODULE MCPreparedResponses -------------------------
(* Instances of PreparedResponses for TLC. *)
EXTENDS PreparedResponses, TLC
=============================================================================
