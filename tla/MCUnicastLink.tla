--------------------------- MODULE MCUnicastLink ---------------------------
(* UnicastLink with constants for TLC: they are all in the .cfg files.      *)
EXTENDS UnicastLink

=============================================================================
