-------------------------- MODULE MCEntryLifecycle --------------------------
(* Small instances of EntryLifecycle for TLC. *)
EXTENDS EntryLifecycle, TLC

CONSTANTS s1, s2

OneSwitch == {s1}
TwoSwitches == {s1, s2}
SwitchSymmetry == Permutations(TwoSwitches)
=============================================================================
