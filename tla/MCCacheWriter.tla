--------------------------- MODULE MCCacheWriter ---------------------------
(* CacheWriter with constants for TLC: they are all in the .cfg files.      *)
EXTENDS CacheWriter

=============================================================================
