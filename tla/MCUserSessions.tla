--------------------------- MODULE MCUserSessions ---------------------------
(* Instance of UserSessions for TLC. *)
EXTENDS UserSessions, TLC

Symmetry == Permutations(Request)
=============================================================================
