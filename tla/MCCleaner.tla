----------------------------- MODULE MCCleaner -----------------------------
(* Cleaner with frames for TLC.                                             *)
EXTENDS Cleaner

Data(s, sec, ms, value, copy) ==
  [type |-> "data", station |-> s, sec |-> sec, ms |-> ms, value |-> value,
   copy |-> copy]

Control(type, s) ==
  [type |-> type, station |-> s, sec |-> 1, ms |-> 0, value |-> 0, copy |-> 1]

CONSTANTS s1, s2

\* Neighbours in time (0.0, 0.1, 1.0), a copy, two jumps (4 and 5), a value
\* that narrowing makes negative, one out of range, the last second before the
\* wrap-around, and a second station.
MCFrames ==
  {Data(s1, 0, 0, 10, 1), Data(s1, 0, 1, 11, 1), Data(s1, 1, 0, 10, 1),
   Data(s1, 0, 1, 11, 2), Data(s1, 4, 0, 12, 1), Data(s1, 5, 0, 11, 1),
   Data(s1, 2, 0, 40, 1), Data(s1, 6, 0, 60, 1), Data(s1, 15, 0, 10, 1),
   Data(s1, 15, 1, 10, 1), Data(s2, 4, 0, 10, 1),
   Control("alarm", s1), Control("heart", s2)}

=============================================================================
