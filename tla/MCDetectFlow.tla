---------------------------- MODULE MCDetectFlow ----------------------------
(* A small instance of DetectFlow for TLC. *)
EXTENDS DetectFlow

CONSTANTS d1, d2, w1

TwoDevices == {d1, d2}
OneWizard == {w1}
=============================================================================
