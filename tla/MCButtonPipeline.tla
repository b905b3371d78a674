-------------------------- MODULE MCButtonPipeline --------------------------
(* Small instances of ButtonPipeline for TLC. *)
EXTENDS ButtonPipeline, TLC

CONSTANTS s1, s2

TwoSwitches == {s1, s2}
SwitchSymmetry == Permutations({s1, s2})

\* A press of A0 (0b00011), and a byte with no button bit.
PressOrInvalid == {3, 0}
=============================================================================
