---------------------------- MODULE MCTcpPoller ----------------------------
(* TcpPoller with constants for TLC.                                        *)
EXTENDS TcpPoller

CONSTANTS a, x, b

\* Two frames of two bytes, between them the first byte of a third.
MCBytes == <<<<a, 1>>, <<a, 2>>, <<x, 1>>, <<b, 1>>, <<b, 2>>>>
MCStarts == {0, 3, 5}

=============================================================================
