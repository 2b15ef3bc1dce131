--------------------------- MODULE MCLoginLimiter ---------------------------
(* Instance of LoginLimiter for TLC.  Liveness is checked, so there is no  *)
(* symmetry set.                                                           *)
EXTENDS LoginLimiter
=============================================================================
