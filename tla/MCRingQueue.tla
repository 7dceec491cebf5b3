---------------------------- MODULE MCRingQueue ----------------------------
(* RingQueue with constants for TLC.                                        *)
EXTENDS RingQueue

CONSTANTS a1, a2, a3, n1, n2, n3

MCAlarms == {a1, a2, a3}
MCFrames == MCAlarms \cup {n1, n2, n3}

=============================================================================
