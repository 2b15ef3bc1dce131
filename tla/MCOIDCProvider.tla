--------------------------- MODULE MCOIDCProvider ---------------------------
(* Instance of OIDCProvider for TLC: request slots, and clients, are       *)
(* interchangeable.                                                        *)
EXTENDS OIDCProvider, TLC

Symmetry == Permutations(Request) \cup Permutations(Client)
=============================================================================
