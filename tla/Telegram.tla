------------------------------ MODULE Telegram ------------------------------
(***************************************************************************)
(* The pure decoding functions of telegram.py: which switch-status bytes   *)
(* decode to a button pattern, and how a one-rocker switch folds six       *)
(* patterns into two.                                                      *)
(* Bits are written with \div and % so that the module can be used from    *)
(* modules with proofs.                                                    *)
(***************************************************************************)
EXTENDS Integers

Byte == 0..255

\* class ButtonPattern
ButtonPattern == {"A0", "A1", "B0", "B1", "A0+B0", "A1+B1"}

\* status_byte & _BUTTON_BIT_MASK  (bits 1 to 4)
button_bits(status) == 2 * ((status \div 2) % 16)

\* BUTTON_BIT_PATTERNS: the accepted button bits, as a function.
BUTTON_BIT_PATTERNS ==
  [bits \in {2, 4, 8, 16, 10, 20} |->
     CASE bits = 2  -> "A0"
       [] bits = 4  -> "A1"
       [] bits = 8  -> "B0"
       [] bits = 16 -> "B1"
       [] bits = 10 -> "A0+B0"
       [] bits = 20 -> "A1+B1"]

\* Mutant: one reserved bit is not checked.
DecodesReserved(status) ==
  /\ status \in 0..63
  /\ button_bits(status) \in DOMAIN BUTTON_BIT_PATTERNS

(***************************************************************************)
(* interpret_switch_status: its success, the reason it raises, and the     *)
(* state it returns.                                                       *)
(***************************************************************************)
Decodes(status) ==
  /\ status \in 0..31
  /\ button_bits(status) \in DOMAIN BUTTON_BIT_PATTERNS

RejectionReason(status) ==
  IF status >= 32 \/ status < 0 THEN "reserved_bits"
  ELSE IF button_bits(status) = 0 THEN "no_button_bit"
  ELSE "unsupported_button_combination"

interpret_switch_status(status) ==
  [pattern  |-> BUTTON_BIT_PATTERNS[button_bits(status)],
   is_press |-> status % 2 = 1]

\* Mutant: the combinations are not aliased.
NormalizeSingles(pattern, rockers) ==
  IF rockers = 1 /\ pattern \in {"A0", "B0"} THEN "A0"
  ELSE IF rockers = 1 /\ pattern \in {"A1", "B1"} THEN "A1"
  ELSE pattern

\* normalize_button_pattern: only exactly one rocker aliases anything.
normalize_button_pattern(pattern, rockers) ==
  IF rockers = 1 /\ pattern \in {"A0", "B0", "A0+B0"} THEN "A0"
  ELSE IF rockers = 1 /\ pattern \in {"A1", "B1", "A1+B1"} THEN "A1"
  ELSE pattern
=============================================================================
