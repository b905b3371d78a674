---------------------------- MODULE MCRadioCensus ----------------------------
(* A small instance of RadioCensus for TLC: three keys for two places, two    *)
(* short UUIDs for one, and one entry displayed.                              *)
EXTENDS RadioCensus, TLC

CONSTANTS none, enocean, casambi, i1, i2, u1, u2, vendor

ThreeKeys == {none, enocean, casambi}
OwnFields == {enocean, casambi}
TwoIdentifiers == {i1, i2}
ThreeUuids == {u1, u2, vendor}
TwoShort == {u1, u2}

\* The code treats identifiers, and short UUIDs, alike; and the two IDs.
Symmetry == Permutations(TwoIdentifiers) \cup Permutations(TwoShort)
              \cup Permutations(OwnFields)
=============================================================================
