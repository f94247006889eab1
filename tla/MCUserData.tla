----------------------------- MODULE MCUserData -----------------------------
(* Instances of UserData for TLC. *)
EXTENDS UserData, TLC

\* No action and no property tells addresses, or LuaUserData, apart.
Symmetry == Permutations(Addr) \cup Permutations(UD)
=============================================================================
