---------------------------- MODULE MCThreadPool ----------------------------
(* ThreadPool with constants for TLC.                                       *)
EXTENDS ThreadPool

CONSTANTS up1, down1, down2, t1, t2, t3

Ups == {up1}
Downs == {down1, down2}
Commands == Ups \cup Downs
MCFrames == Commands \cup {t1, t2, t3}
Threads == Submitters \cup Poppers

=============================================================================
