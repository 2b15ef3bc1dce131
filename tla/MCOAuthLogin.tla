----------------------------- MODULE MCOAuthLogin -----------------------------
(* Instance of OAuthLogin for TLC: all accounts but one are whitelisted.     *)
EXTENDS OAuthLogin, TLC

CONSTANTS p1, p2, a1, a2

MCProvider == {p1, p2}
MCAccount == {a1, a2}
MCWhitelisted == {<<p1, a1>>, <<p1, a2>>, <<p2, a1>>}
Symmetry == Permutations(Request)
===============================================================================
