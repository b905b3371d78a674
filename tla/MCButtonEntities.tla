-------------------------- MODULE MCButtonEntities --------------------------
(* Small instances of ButtonEntities for TLC. *)
EXTENDS ButtonEntities, TLC

CONSTANTS s1, s2

TwoSwitches == {s1, s2}
SwitchSymmetry == Permutations({s1, s2})

\* Every byte without a reserved bit, and bytes with each of them and with all.
EachBit == 0..31 \cup {35, 67, 131, 255}
=============================================================================
