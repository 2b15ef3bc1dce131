---------------------------- MODULE MCCacheStore ----------------------------
(* Instance of CacheStore for TLC. *)
EXTENDS CacheStore
=============================================================================
