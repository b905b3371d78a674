--------------------------- MODULE MCPressTiming ---------------------------
(* Small instances of PressTiming for TLC. *)
EXTENDS PressTiming

\* One button, and a combination of which it is one half: distinct keys for a
\* two-rocker switch, one and the same key for a one-rocker switch.
ButtonAndCombo == {"A0", "A0+B0"}
=============================================================================
