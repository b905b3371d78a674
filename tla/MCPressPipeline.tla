-------------------------- MODULE MCPressPipeline --------------------------
(* Small instances of PressPipeline for TLC. *)
EXTENDS PressPipeline

CONSTANT s1

OneSwitch == {s1}

\* The release and the press of A0 (0b00010, 0b00011).
ReleaseAndPress == {2, 3}

\* And the byte with no button bit.
WithInvalid == ReleaseAndPress \cup {0}
=============================================================================
