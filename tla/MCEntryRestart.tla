--------------------------- MODULE MCEntryRestart ---------------------------
(* Instances of EntryRestart for TLC. *)
EXTENDS EntryRestart

CONSTANTS s1, s2

OneSwitch == {s1}
TwoSwitches == {s1, s2}
=============================================================================
