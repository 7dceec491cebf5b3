---------------------------- MODULE MCCollector ----------------------------
(* Collector with constants for TLC.                                        *)
EXTENDS Collector

CONSTANTS w1, w2

TwoWorkers == {w1, w2}
OneWorker == {w1}

=============================================================================
