--------------------------- MODULE MCEgressLocks ---------------------------
(* EgressLocks with constants for TLC: they are all in the .cfg files.      *)
EXTENDS EgressLocks

=============================================================================
