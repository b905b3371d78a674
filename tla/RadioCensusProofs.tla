------------------------- MODULE RadioCensusProofs -------------------------
(***************************************************************************)
(* Proofs about RadioCensus, for any keys, identifiers, UUIDs and caps.    *)
(***************************************************************************)
EXTENDS RadioCensus, FiniteSetTheorems, TLAPS

\* A bucket that counts one more advertisement is still one.
LEMMA CountedType ==
  ASSUME NEW b \in Bucket, NEW i \in Identifier, NEW u \in SUBSET ShortUuid,
         state \in Phase
  PROVE  /\ Counted(b, i, u) \in Bucket
         /\ Counted(b, i, u).changes = [b.changes EXCEPT ![state] = @ + 1]
         /\ Counted(b, i, u).seen_identifiers = b.seen_identifiers \cup {i}
         /\ Counted(b, i, u).service_uuids = b.service_uuids \cup u
<1>1. [b.changes EXCEPT ![state] = @ + 1] \in [Phase -> Nat]
  BY DEF Bucket
<1>2. QED
  BY <1>1 DEF Counted, Bucket

\* A key that is not tracked has the bucket it would start with.
LEMMA TrackedType ==
  ASSUME TypeOK, NEW k
  PROVE  Tracked(buckets, k) \in Bucket
BY DEF TypeOK, Tracked, NewBucket, NoChanges, Bucket

\* The identifiers of a bucket are counted and discarded.
LEMMA MaterializedType ==
  ASSUME NEW b \in Bucket
  PROVE  /\ Materialized(b) \in Bucket
         /\ Materialized(b).changes = b.changes
         /\ Materialized(b).service_uuids = b.service_uuids
         /\ Materialized(b).seen_identifiers = {}
         /\ Materialized(b).distinct_devices = Cardinality(b.seen_identifiers)
<1>1. b.seen_identifiers \subseteq Identifier
  BY DEF Bucket
<1>2. Cardinality(b.seen_identifiers) \in Nat
  BY <1>1, IdentifierAssumption, FS_Subset, FS_CardinalityType
<1>3. QED
  BY <1>2 DEF Materialized, Bucket

\* What is written is a view of the census.
LEMMA WriteStateShows == WriteState => SensorShowsCensus'
BY DEF WriteState, SensorShowsCensus

\* A census that was just started or cancelled is empty.
LEMMA EmptyCensus ==
  ASSUME state' \in State, buckets' = Empty, truncated' = FALSE, heard' = NothingHeard,
         WriteState
  PROVE  IInv'
<1>1. NothingHeard \in Heard
  BY DEF NothingHeard, NoChanges, Heard
<1>2. TypeOK'
  BY <1>1 DEF TypeOK, Empty
<1>3. CountsAreComplete'
  BY DEF CountsAreComplete, Empty, NothingHeard
<1>4. KeptUuids' = {} /\ DOMAIN buckets' = {}
  BY DEF KeptUuids, Tracked, Empty, NewBucket
<1>5. TruncationIsReported'
  BY <1>4 DEF TruncationIsReported, NothingHeard
<1>6. DevicesCountedNotKept'
  BY DEF DevicesCountedNotKept, Empty
<1>7. WithinCaps'
  BY <1>4, FS_EmptySet, LimitAssumption DEF WithinCaps
<1>8. LostAtCap'
  BY <1>4 DEF LostAtCap, NothingHeard
<1>9. QED
  BY <1>2, <1>3, <1>5, <1>6, <1>7, <1>8, WriteStateShows DEF IInv

\* Nothing is kept when a cap is reached, and no more than there is room for.
LEMMA KeptFacts ==
  ASSUME NEW have, NEW new, NEW kept, NEW max \in Nat,
         IsFiniteSet(have), IsFiniteSet(new), new \cap have = {},
         Kept(have, new, kept, max)
  PROVE  /\ Cardinality(have) = max => kept = {}
         /\ Cardinality(have \cup kept) <= max
         /\ kept # new => Cardinality(have \cup kept) = max
<1>1. IsFiniteSet(kept) /\ IsFiniteSet(have \cup kept)
  BY FS_Subset, FS_Union DEF Kept
<1>2. ASSUME Cardinality(have) = max PROVE kept = {}
  <2>1. Cardinality(have) = Cardinality(have \cup kept)
    BY <1>1, <1>2, FS_Subset, FS_CardinalityType DEF Kept
  <2>2. have = have \cup kept
    BY <1>1, <2>1, FS_Subset
  <2>3. QED
    BY <2>2 DEF Kept
<1>3. QED
  BY <1>2 DEF Kept

\* What _record_bucket and _add_service_uuids have in common: as many of the new
\* keys as there is room for get a bucket, those that have one count the
\* advertisement, and the bucket of what has no manufacturer data adds UUIDs.
Recorded(identifier, keys, short, kept, added) ==
  LET none == NO_MANUFACTURER_DATA_KEY
  IN /\ Kept(DOMAIN buckets, keys \ DOMAIN buckets, kept, MAX_TRACKED_MANUFACTURER_IDS)
     /\ IF none \in keys /\ none \in DOMAIN buckets \cup kept
        THEN Kept(KeptUuids, short \ KeptUuids, added, MAX_TRACKED_SERVICE_UUIDS)
        ELSE added = {} /\ (none \notin keys => short = {})
     /\ truncated' = (truncated \/ kept # keys \ DOMAIN buckets
                                \/ added # short \ KeptUuids)
     /\ buckets' = [k \in DOMAIN buckets \cup kept |->
                      IF k \in keys
                      THEN Counted(Tracked(buckets, k), identifier,
                                   IF k = none THEN added ELSE {})
                      ELSE buckets[k]]

\* An advertisement is recorded in that way.
LEMMA RecordedByBoth ==
  ASSUME IInv,
         NEW i \in Identifier, NEW data \in SUBSET (Key \ {NO_MANUFACTURER_DATA_KEY}),
         NEW uuids \in SUBSET Uuid, record_advertisement(i, data, uuids)
  PROVE  \E keys \in SUBSET Key, short \in SUBSET ShortUuid : \E kept, added :
           /\ Recorded(i, keys, short, kept, added)
           /\ heard' = HeardAlso(i, keys, short)
           /\ state \in Phase /\ UNCHANGED state /\ WriteState
<1> DEFINE none == NO_MANUFACTURER_DATA_KEY
           keys == IF data = {} THEN {none} ELSE data
           short == IF data = {} THEN _short_service_uuid(uuids) ELSE {}
<1>1. keys \in SUBSET Key /\ short \in SUBSET ShortUuid
  BY KeyAssumption DEF _short_service_uuid
<1>2. /\ heard' = HeardAlso(i, keys, short)
      /\ state \in Phase /\ UNCHANGED state /\ WriteState
  BY DEF record_advertisement
<1>3. CASE data = {} /\ HasRoom(none)
  <2>1. PICK added \in SUBSET (short \ KeptUuids) :
          /\ Kept(KeptUuids, short \ KeptUuids, added, MAX_TRACKED_SERVICE_UUIDS)
          /\ truncated' = (truncated \/ added # short \ KeptUuids)
          /\ buckets' = [j \in DOMAIN buckets \cup {none} |->
                           IF j = none THEN Counted(Tracked(buckets, none), i, added)
                           ELSE buckets[j]]
    BY <1>3 DEF record_advertisement, _add_service_uuids
  <2>2. keys = {none} /\ DOMAIN buckets \cup ({none} \ DOMAIN buckets)
                           = DOMAIN buckets \cup {none}
    BY <1>3
  <2>3. Cardinality(DOMAIN buckets \cup {none}) <= MAX_TRACKED_MANUFACTURER_IDS
    <3>1. IsFiniteSet(DOMAIN buckets)
      BY KeyAssumption, FS_Subset DEF IInv, TypeOK
    <3>2. CASE none \in DOMAIN buckets
      <4>1. DOMAIN buckets \cup {none} = DOMAIN buckets
        BY <3>2
      <4>2. QED
        BY <4>1 DEF IInv, WithinCaps
    <3>3. CASE none \notin DOMAIN buckets
      <4>1. Cardinality(DOMAIN buckets \cup {none}) = Cardinality(DOMAIN buckets) + 1
        BY <3>1, <3>3, FS_AddElement
      <4>2. QED
        BY <1>3, <3>1, <3>3, <4>1, FS_CardinalityType, LimitAssumption DEF HasRoom
    <3>4. QED
      BY <3>2, <3>3
  <2>4. Kept(DOMAIN buckets, keys \ DOMAIN buckets, {none} \ DOMAIN buckets,
             MAX_TRACKED_MANUFACTURER_IDS)
    BY <2>2, <2>3 DEF Kept
  <2>5. buckets' = [k \in DOMAIN buckets \cup ({none} \ DOMAIN buckets) |->
                      IF k \in keys
                      THEN Counted(Tracked(buckets, k), i, IF k = none THEN added ELSE {})
                      ELSE buckets[k]]
    BY <2>1, <2>2
  <2>6. Recorded(i, keys, short, {none} \ DOMAIN buckets, added)
    BY <2>1, <2>2, <2>4, <2>5 DEF Recorded
  <2>7. QED
    BY <1>1, <1>2, <2>6
<1>4. CASE ~(data = {} /\ HasRoom(none))
  <2>1. _record_bucket(i, keys)
    BY <1>4 DEF record_advertisement
  <2>2. PICK kept \in SUBSET (keys \ DOMAIN buckets) :
          /\ Kept(DOMAIN buckets, keys \ DOMAIN buckets, kept, MAX_TRACKED_MANUFACTURER_IDS)
          /\ truncated' = (truncated \/ kept # keys \ DOMAIN buckets)
          /\ buckets' = [k \in DOMAIN buckets \cup kept |->
                           IF k \in keys THEN Counted(Tracked(buckets, k), i, {})
                           ELSE buckets[k]]
    BY <2>1 DEF _record_bucket
  <2>3. ASSUME data = {} PROVE kept = {} /\ none \notin DOMAIN buckets
    <3>1. none \notin DOMAIN buckets /\ keys = {none}
      BY <1>4, <2>3 DEF HasRoom
    <3>2. IsFiniteSet(DOMAIN buckets)
      BY KeyAssumption, FS_Subset DEF IInv, TypeOK
    <3>3. Cardinality(DOMAIN buckets) = MAX_TRACKED_MANUFACTURER_IDS
      BY <1>4, <2>3, <3>2, FS_CardinalityType, LimitAssumption DEF HasRoom, IInv, WithinCaps
    <3>4. kept = {}
      <4>1. PICK new : new = keys \ DOMAIN buckets
        OBVIOUS
      <4>2. IsFiniteSet(new) /\ new \cap DOMAIN buckets = {}
        BY KeyAssumption, <1>1, <4>1, FS_Subset
      <4>3. Kept(DOMAIN buckets, new, kept, MAX_TRACKED_MANUFACTURER_IDS)
        BY <2>2, <4>1
      <4>4. /\ Cardinality(DOMAIN buckets) = MAX_TRACKED_MANUFACTURER_IDS => kept = {}
            /\ Cardinality(DOMAIN buckets \cup kept) <= MAX_TRACKED_MANUFACTURER_IDS
            /\ kept # new => Cardinality(DOMAIN buckets \cup kept)
                               = MAX_TRACKED_MANUFACTURER_IDS
        BY <3>2, <4>2, <4>3, KeptFacts, LimitAssumption
      <4>5. QED
        BY <3>3, <4>4
    <3>5. QED
      BY <3>1, <3>4
  <2>4. truncated' = (truncated \/ kept # keys \ DOMAIN buckets \/ {} # short \ KeptUuids)
    BY <2>2, <2>3
  <2>5. none \in keys => none \notin DOMAIN buckets \cup kept
    BY <2>3
  <2>6. none \notin keys => short = {}
    OBVIOUS
  <2>7. buckets' = [k \in DOMAIN buckets \cup kept |->
                      IF k \in keys
                      THEN Counted(Tracked(buckets, k), i, IF k = none THEN {} ELSE {})
                      ELSE buckets[k]]
    BY <2>2
  <2>8. Recorded(i, keys, short, kept, {})
    BY <2>2, <2>4, <2>5, <2>6, <2>7 DEF Recorded
  <2>9. QED
    BY <1>1, <1>2, <2>8
<1>5. QED
  BY <1>3, <1>4

\* No UUID is added to a full bucket, and none left out of one that is not.
LEMMA UuidRoom ==
  ASSUME IInv, NEW i, NEW keys, NEW short \in SUBSET ShortUuid, NEW kept, NEW added,
         Recorded(i, keys, short, kept, added)
  PROVE  /\ Cardinality(KeptUuids) = MAX_TRACKED_SERVICE_UUIDS => added = {}
         /\ NO_MANUFACTURER_DATA_KEY \in keys
              /\ NO_MANUFACTURER_DATA_KEY \in DOMAIN buckets \cup kept
              /\ added # short \ KeptUuids =>
              Cardinality(KeptUuids \cup added) = MAX_TRACKED_SERVICE_UUIDS
<1>1. CASE /\ NO_MANUFACTURER_DATA_KEY \in keys
           /\ NO_MANUFACTURER_DATA_KEY \in DOMAIN buckets \cup kept
  <2>1. PICK have : have = KeptUuids
    OBVIOUS
  <2>2. PICK new : new = short \ KeptUuids
    OBVIOUS
  <2>3. Kept(have, new, added, MAX_TRACKED_SERVICE_UUIDS)
    BY <1>1, <2>1, <2>2 DEF Recorded
  <2>4. have \in SUBSET ShortUuid
    BY <2>1, TrackedType DEF KeptUuids, Bucket, IInv
  <2>5. IsFiniteSet(have) /\ IsFiniteSet(new) /\ new \cap have = {}
    BY <2>1, <2>2, <2>4, UuidAssumption, FS_Subset
  <2>6. /\ Cardinality(have) = MAX_TRACKED_SERVICE_UUIDS => added = {}
        /\ Cardinality(have \cup added) <= MAX_TRACKED_SERVICE_UUIDS
        /\ added # new => Cardinality(have \cup added) = MAX_TRACKED_SERVICE_UUIDS
    BY <2>3, <2>5, KeptFacts, LimitAssumption
  <2>7. QED
    BY <2>1, <2>2, <2>6
<1>2. QED
  BY <1>1 DEF Recorded

\* An advertisement keeps the invariant.
LEMMA RecordIInv ==
  ASSUME IInv, NEW i \in Identifier,
         NEW keys \in SUBSET Key, NEW short \in SUBSET ShortUuid, NEW kept, NEW added,
         Recorded(i, keys, short, kept, added),
         heard' = HeardAlso(i, keys, short),
         state \in Phase, UNCHANGED state, WriteState
  PROVE  IInv'
<1> DEFINE none == NO_MANUFACTURER_DATA_KEY
           new == keys \ DOMAIN buckets
           Added(k) == IF k = none THEN added ELSE {}
<1>1. /\ DOMAIN buckets' = DOMAIN buckets \cup kept
      /\ kept \subseteq new
      /\ added \subseteq short \ KeptUuids
      /\ none \notin keys => short = {} /\ added = {}
      /\ none \notin DOMAIN buckets' => added = {}
      /\ truncated' = (truncated \/ kept # new \/ added # short \ KeptUuids)
  BY DEF Recorded, Kept
<1>2. /\ IsFiniteSet(DOMAIN buckets) /\ IsFiniteSet(new)
      /\ IsFiniteSet(KeptUuids) /\ IsFiniteSet(short)
  <2>1. KeptUuids \in SUBSET ShortUuid
    BY TrackedType DEF KeptUuids, Bucket, IInv
  <2>2. QED
    BY <2>1, KeyAssumption, UuidAssumption, FS_Subset DEF IInv, TypeOK
<1>3. /\ Cardinality(DOMAIN buckets) = MAX_TRACKED_MANUFACTURER_IDS => kept = {}
      /\ Cardinality(DOMAIN buckets') <= MAX_TRACKED_MANUFACTURER_IDS
      /\ kept # new => Cardinality(DOMAIN buckets') = MAX_TRACKED_MANUFACTURER_IDS
  BY <1>1, <1>2, KeptFacts, LimitAssumption DEF Recorded
<1>4. \A k \in DOMAIN buckets' :
        buckets'[k] = IF k \in keys THEN Counted(Tracked(buckets, k), i, Added(k))
                                    ELSE buckets[k]
  BY DEF Recorded
<1>5. \A k \in DOMAIN buckets' \cap keys :
        /\ buckets'[k] \in Bucket
        /\ buckets'[k].changes = [Tracked(buckets, k).changes EXCEPT ![state] = @ + 1]
        /\ buckets'[k].seen_identifiers = Tracked(buckets, k).seen_identifiers \cup {i}
        /\ buckets'[k].service_uuids = Tracked(buckets, k).service_uuids \cup Added(k)
  <2>1. \A k : Added(k) \in SUBSET ShortUuid
    BY <1>1
  <2>2. QED
    BY <1>4, <2>1, TrackedType, CountedType DEF IInv
<1>6. \A k \in DOMAIN buckets' \ keys : k \in DOMAIN buckets /\ buckets'[k] = buckets[k]
  BY <1>1, <1>4
<1>7. /\ heard' \in Heard
      /\ \A k \in Key : heard'.changes[k] = IF k \in keys
                            THEN [heard.changes[k] EXCEPT ![state] = @ + 1]
                            ELSE heard.changes[k]
      /\ \A k \in Key : heard'.devices[k] = IF k \in keys THEN heard.devices[k] \cup {i}
                                             ELSE heard.devices[k]
      /\ heard'.uuids = heard.uuids \cup short
  BY DEF IInv, TypeOK, Heard, HeardAlso
<1>8. \A k \in keys : heard'.changes[k] # NoChanges
  <2> SUFFICES ASSUME NEW k \in keys PROVE heard'.changes[k] # NoChanges
    OBVIOUS
  <2>1. heard.changes[k] \in [Phase -> Nat]
    BY DEF IInv, TypeOK, Heard
  <2>2. heard'.changes[k] = [heard.changes[k] EXCEPT ![state] = @ + 1]
    BY <1>7
  <2>3. heard'.changes[k][state] = heard.changes[k][state] + 1
    BY <2>1, <2>2
  <2>4. heard'.changes[k][state] # 0 /\ NoChanges[state] = 0
    BY <2>1, <2>3 DEF NoChanges
  <2>5. QED
    BY <2>4
<1>9. \A k \in kept : heard.changes[k] = NoChanges /\ heard.devices[k] = {}
  BY <1>1, <1>3 DEF IInv, LostAtCap
<1>10. KeptUuids' = KeptUuids \cup added
  <2>1. CASE none \in keys /\ none \in DOMAIN buckets'
    BY <1>5, <2>1 DEF KeptUuids, Tracked
  <2>2. CASE none \notin DOMAIN buckets'
    BY <1>1, <2>2 DEF KeptUuids, Tracked, NewBucket
  <2>3. CASE none \notin keys /\ none \in DOMAIN buckets'
    BY <1>1, <1>6, <2>3 DEF KeptUuids, Tracked
  <2>4. QED
    BY <2>1, <2>2, <2>3
<1>11. \A k \in Key \cap DOMAIN buckets' :
         /\ Tracked(buckets, k).changes = heard.changes[k]
         /\ Tracked(buckets, k).seen_identifiers = heard.devices[k]
  <2> SUFFICES ASSUME NEW k \in Key \cap DOMAIN buckets'
               PROVE  /\ Tracked(buckets, k).changes = heard.changes[k]
                      /\ Tracked(buckets, k).seen_identifiers = heard.devices[k]
    OBVIOUS
  <2>1. CASE k \in kept
    <3>1. k \notin DOMAIN buckets
      BY <1>1, <2>1
    <3>2. QED
      BY <1>9, <2>1, <3>1 DEF Tracked, NewBucket
  <2>2. CASE k \in DOMAIN buckets
    BY <2>2 DEF Tracked, IInv, CountsAreComplete, DevicesCountedNotKept
  <2>3. QED
    BY <1>1, <2>1, <2>2
<1>12. TypeOK'
  <2>1. \A k \in DOMAIN buckets' : k \in Key /\ buckets'[k] \in Bucket
    BY <1>1, <1>5, <1>6 DEF IInv, TypeOK
  <2>2. QED
    BY <1>1, <1>7, <2>1 DEF IInv, TypeOK
<1>13. CountsAreComplete'
  <2>1. ASSUME NEW k \in DOMAIN buckets' PROVE buckets'[k].changes = heard'.changes[k]
    <3>1. k \in Key
      BY <1>1, <2>1 DEF IInv, TypeOK
    <3>2. Tracked(buckets, k).changes = heard.changes[k]
      BY <1>11, <3>1
    <3>3. CASE k \in keys
      <4>1. buckets'[k].changes = [Tracked(buckets, k).changes EXCEPT ![state] = @ + 1]
        BY <1>5, <3>3
      <4>2. heard'.changes[k] = [heard.changes[k] EXCEPT ![state] = @ + 1]
        BY <1>7, <3>1, <3>3
      <4>3. QED
        BY <3>2, <4>1, <4>2
    <3>4. CASE k \notin keys
      BY <1>6, <1>7, <3>1, <3>2, <3>4 DEF Tracked
    <3>5. QED
      BY <3>3, <3>4
  <2>2. ASSUME NEW k \in Key \ DOMAIN buckets', heard'.changes[k] # NoChanges
        PROVE  truncated'
    BY <1>1, <1>7, <2>2 DEF Recorded, IInv, CountsAreComplete
  <2>3. QED
    BY <2>1, <2>2 DEF CountsAreComplete
<1>14. WithinCaps'
  <2>1. Cardinality(KeptUuids') <= MAX_TRACKED_SERVICE_UUIDS
    BY <1>10 DEF Recorded, Kept, IInv, WithinCaps
  <2>2. QED
    BY <1>1, <1>3, <1>7, <1>10, <2>1 DEF IInv, WithinCaps
<1>15. LostAtCap'
  <2>1. ASSUME NEW k \in Key \ DOMAIN buckets'
        PROVE  \/ heard'.changes[k] = NoChanges /\ heard'.devices[k] = {}
               \/ Cardinality(DOMAIN buckets') = MAX_TRACKED_MANUFACTURER_IDS
    <3>1. CASE k \in keys
      BY <1>1, <1>3, <2>1, <3>1
    <3>2. CASE k \notin keys
      <4>1. CASE Cardinality(DOMAIN buckets) = MAX_TRACKED_MANUFACTURER_IDS
        <5>1. DOMAIN buckets' = DOMAIN buckets
          BY <1>1, <1>3, <4>1
        <5>2. QED
          BY <4>1, <5>1
      <4>2. CASE Cardinality(DOMAIN buckets) # MAX_TRACKED_MANUFACTURER_IDS
        BY <1>1, <1>7, <2>1, <3>2, <4>2 DEF IInv, LostAtCap
      <4>3. QED
        BY <4>1, <4>2
    <3>3. QED
      BY <3>1, <3>2
  <2>2. \/ KeptUuids' = heard'.uuids
        \/ Cardinality(KeptUuids') = MAX_TRACKED_SERVICE_UUIDS
        \/ none \notin DOMAIN buckets'
           /\ Cardinality(DOMAIN buckets') = MAX_TRACKED_MANUFACTURER_IDS
    <3>1. CASE none \in keys /\ none \in DOMAIN buckets'
      <4>1. CASE Cardinality(KeptUuids) = MAX_TRACKED_SERVICE_UUIDS
        BY <1>10, <4>1, UuidRoom
      <4>2. CASE KeptUuids = heard.uuids
        BY <1>1, <1>7, <1>10, <3>1, <4>2, UuidRoom
      <4>3. CASE none \notin DOMAIN buckets
                 /\ Cardinality(DOMAIN buckets) = MAX_TRACKED_MANUFACTURER_IDS
        BY <1>1, <1>3, <3>1, <4>3
      <4>4. QED
        BY <4>1, <4>2, <4>3 DEF IInv, LostAtCap
    <3>2. CASE none \in keys /\ none \notin DOMAIN buckets'
      BY <1>1, <1>3, <3>2
    <3>3. CASE none \notin keys
      <4>1. KeptUuids' = KeptUuids /\ heard'.uuids = heard.uuids
        BY <1>1, <1>7, <1>10, <3>3
      <4>2. Cardinality(DOMAIN buckets) = MAX_TRACKED_MANUFACTURER_IDS
              => DOMAIN buckets' = DOMAIN buckets
        BY <1>1, <1>3
      <4>3. QED
        BY <4>1, <4>2 DEF IInv, LostAtCap
    <3>4. QED
      BY <3>1, <3>2, <3>3
  <2>3. QED
    BY <2>1, <2>2 DEF LostAtCap
<1>16. TruncationIsReported'
  <2>1. ASSUME truncated'
        PROVE  \/ \E k \in Key \ DOMAIN buckets' : heard'.changes[k] # NoChanges
               \/ heard'.uuids # KeptUuids'
    <3>1. CASE kept # new
      <4>1. PICK k \in new : k \notin kept
        BY <1>1, <3>1
      <4>2. k \in Key \ DOMAIN buckets' /\ k \in keys
        BY <1>1, <4>1
      <4>3. QED
        BY <1>8, <4>2
    <3>2. CASE added # short \ KeptUuids
      BY <1>1, <1>7, <1>10, <3>2
    <3>3. CASE truncated
      <4>1. CASE \E k \in Key \ DOMAIN buckets : heard.changes[k] # NoChanges
        <5>1. PICK k \in Key \ DOMAIN buckets : heard.changes[k] # NoChanges
          BY <4>1
        <5>2. k \notin kept
          BY <1>9, <5>1
        <5>3. k \in Key \ DOMAIN buckets'
          BY <1>1, <5>1, <5>2
        <5>4. heard'.changes[k] # NoChanges
          BY <1>7, <1>8, <5>1
        <5>5. QED
          BY <5>3, <5>4
      <4>2. CASE heard.uuids # KeptUuids
        <5>1. added = {}
          BY <1>1, <1>3, <4>2, UuidRoom DEF IInv, LostAtCap
        <5>2. QED
          BY <1>7, <1>10, <4>2, <5>1 DEF IInv, WithinCaps
      <4>3. QED
        BY <3>3, <4>1, <4>2 DEF IInv, TruncationIsReported
    <3>4. QED
      BY <1>1, <2>1, <3>1, <3>2, <3>3
  <2>2. ASSUME NEW k \in Key \ DOMAIN buckets', heard'.changes[k] # NoChanges
        PROVE  truncated'
    BY <1>13, <2>2 DEF CountsAreComplete
  <2>3. ASSUME heard'.uuids # KeptUuids'
        PROVE  truncated'
    <3>1. CASE heard.uuids # KeptUuids
      BY <1>1, <3>1 DEF IInv, TruncationIsReported
    <3>2. CASE heard.uuids = KeptUuids
      BY <1>1, <1>7, <1>10, <2>3, <3>2
    <3>3. QED
      BY <3>1, <3>2
  <2>4. QED
    BY <2>1, <2>2, <2>3 DEF TruncationIsReported
<1>17. DevicesCountedNotKept'
  <2> SUFFICES ASSUME NEW k \in DOMAIN buckets'
               PROVE  buckets'[k].seen_identifiers = heard'.devices[k]
    BY DEF DevicesCountedNotKept, Phase
  <2>1. k \in Key
    BY <1>1 DEF IInv, TypeOK
  <2>2. CASE k \in keys
    <3>1. buckets'[k].seen_identifiers = Tracked(buckets, k).seen_identifiers \cup {i}
      BY <1>5, <2>2
    <3>2. heard'.devices[k] = heard.devices[k] \cup {i}
      BY <1>7, <2>1, <2>2
    <3>3. QED
      BY <1>11, <2>1, <3>1, <3>2
  <2>3. CASE k \notin keys
    BY <1>6, <1>7, <1>11, <2>1, <2>3 DEF Tracked
  <2>4. QED
    BY <2>2, <2>3
<1>18. QED
  BY <1>12, <1>13, <1>14, <1>15, <1>16, <1>17, WriteStateShows DEF IInv

\* The invariant holds before the first census.
LEMMA InitIInv == Init => IInv
<1> SUFFICES ASSUME Init PROVE IInv
  OBVIOUS
<1>1. TypeOK
  BY DEF Init, TypeOK, State, Empty, NothingHeard, NoChanges, Heard
<1>2. KeptUuids = {} /\ DOMAIN buckets = {}
  BY DEF Init, KeptUuids, Tracked, Empty, NewBucket
<1>3. CountsAreComplete /\ TruncationIsReported /\ DevicesCountedNotKept
  BY <1>2 DEF Init, CountsAreComplete, TruncationIsReported, DevicesCountedNotKept,
              NothingHeard, Empty
<1>4. WithinCaps
  BY <1>2, FS_EmptySet, LimitAssumption DEF WithinCaps
<1>5. LostAtCap
  BY <1>2 DEF LostAtCap, Init, NothingHeard
<1>6. SensorShowsCensus
  <2>1. Ranked(buckets, {})
    BY <1>2, FS_EmptySet, LimitAssumption DEF Ranked
  <2>2. buckets = Empty /\ state = "inert" /\ truncated = FALSE
        /\ sensor = Attributes("inert", Empty, FALSE, {})
    BY DEF Init
  <2>3. QED
    BY <2>1, <2>2 DEF SensorShowsCensus
<1>7. QED
  BY <1>1, <1>3, <1>4, <1>5, <1>6 DEF IInv

\* Every step keeps it.
LEMMA StepIInv == IInv /\ [Next]_vars => IInv'
<1> SUFFICES ASSUME IInv, [Next]_vars PROVE IInv'
  OBVIOUS
<1>1. CASE start \/ cancel
  BY <1>1, EmptyCensus DEF start, cancel, State, Phase
<1>2. ASSUME NEW i \in Identifier, NEW uuids \in SUBSET Uuid,
             NEW data \in SUBSET (Key \ {NO_MANUFACTURER_DATA_KEY}),
             record_advertisement(i, data, uuids)
      PROVE  IInv'
  <2>1. PICK keys \in SUBSET Key, short \in SUBSET ShortUuid : \E kept, added :
           /\ Recorded(i, keys, short, kept, added)
           /\ heard' = HeardAlso(i, keys, short)
           /\ state \in Phase /\ UNCHANGED state /\ WriteState
    BY <1>2, RecordedByBoth
  <2>2. QED
    BY <2>1, RecordIInv
<1>3. CASE _finish_baseline
  <2>1. UNCHANGED <<buckets, truncated, heard>> /\ state \in Phase /\ state' \in Phase
    BY <1>3 DEF _finish_baseline, Phase
  <2>2. KeptUuids' = KeptUuids
    BY <2>1 DEF KeptUuids
  <2>3. TypeOK' /\ CountsAreComplete' /\ TruncationIsReported'
    BY <2>1, <2>2 DEF IInv, TypeOK, State, CountsAreComplete, TruncationIsReported
  <2>4. DevicesCountedNotKept'
    BY <2>1 DEF IInv, DevicesCountedNotKept, Phase
  <2>5. WithinCaps' /\ LostAtCap'
    BY <2>1, <2>2 DEF IInv, WithinCaps, LostAtCap
  <2>6. SensorShowsCensus'
    BY <1>3, WriteStateShows DEF _finish_baseline
  <2>7. QED
    BY <2>3, <2>4, <2>5, <2>6 DEF IInv
<1>4. CASE _complete
  <2>1. /\ UNCHANGED <<truncated, heard>>
        /\ state = "press" /\ state' = "complete"
        /\ buckets' = [k \in DOMAIN buckets |-> Materialized(buckets[k])]
    BY <1>4 DEF _complete
  <2>2. \A k \in DOMAIN buckets : buckets[k] \in Bucket
    BY DEF IInv, TypeOK
  <2>3. /\ DOMAIN buckets' = DOMAIN buckets
        /\ \A k \in DOMAIN buckets :
             /\ buckets'[k] \in Bucket
             /\ buckets'[k].changes = buckets[k].changes
             /\ buckets'[k].service_uuids = buckets[k].service_uuids
             /\ buckets'[k].seen_identifiers = {}
             /\ buckets'[k].distinct_devices = Cardinality(buckets[k].seen_identifiers)
    BY <2>1, <2>2, MaterializedType
  <2>4. KeptUuids' = KeptUuids
    BY <2>3 DEF KeptUuids, Tracked
  <2>5. TypeOK'
    BY <2>1, <2>3 DEF IInv, TypeOK, State
  <2>6. CountsAreComplete' /\ TruncationIsReported'
    BY <2>1, <2>3, <2>4 DEF IInv, CountsAreComplete, TruncationIsReported
  <2>7. DevicesCountedNotKept'
    BY <2>1, <2>3 DEF IInv, DevicesCountedNotKept, Phase
  <2>8. WithinCaps' /\ LostAtCap'
    BY <2>1, <2>3, <2>4 DEF IInv, WithinCaps, LostAtCap
  <2>9. SensorShowsCensus'
    BY <1>4, WriteStateShows DEF _complete
  <2>10. QED
    BY <2>5, <2>6, <2>7, <2>8, <2>9 DEF IInv
<1>5. CASE UNCHANGED vars
  BY <1>5 DEF vars, IInv, TypeOK, CountsAreComplete, TruncationIsReported,
              DevicesCountedNotKept, WithinCaps, LostAtCap, SensorShowsCensus, KeptUuids
<1>6. QED
  BY <1>1, <1>2, <1>3, <1>4, <1>5 DEF Next

\* What a census has counted and left out satisfies the invariant, for any caps.
THEOREM Inductive == Spec => []IInv
BY InitIInv, StepIInv, PTL DEF Spec

\* A bucket has every advertisement of its key; a key without one was cut off.
THEOREM CompleteCounts == Spec => []CountsAreComplete
<1>1. IInv => CountsAreComplete
  BY DEF IInv
<1>2. QED
  BY <1>1, Inductive, PTL

\* The flag is set exactly when something that was heard is missing.
THEOREM CapsAreReported == Spec => []TruncationIsReported
<1>1. IInv => TruncationIsReported
  BY DEF IInv
<1>2. QED
  BY <1>1, Inductive, PTL

\* Identifiers outlive no window, and their number is the true one.
THEOREM IdentifiersAreDiscarded == Spec => []DevicesCountedNotKept
<1>1. IInv => DevicesCountedNotKept
  BY DEF IInv
<1>2. QED
  BY <1>1, Inductive, PTL

\* The sensor of a complete, untruncated census tells what was heard.
THEOREM Truthful == Spec => []SensorTellsTruth
<1>1. IInv => SensorTellsTruth
  <2> SUFFICES ASSUME IInv, sensor.native_value = "complete", ~sensor.truncated
               PROVE  /\ \A k \in Shown :
                           sensor.press_payload_changes[k] = heard.changes[k]["press"]
                      /\ \A k \in DOMAIN sensor.entries, other \in Key \ DOMAIN sensor.entries :
                           heard.changes[other] # NoChanges =>
                             /\ sensor.displayed_entries_truncated
                             /\ heard.changes[other]["press"] <= heard.changes[k]["press"]
    BY DEF SensorTellsTruth
  <2>1. PICK displayed \in SUBSET DOMAIN buckets :
          Ranked(buckets, displayed) /\ sensor = Attributes(state, buckets, truncated, displayed)
    BY DEF IInv, SensorShowsCensus
  <2>2. state = "complete" /\ ~truncated
    BY <2>1 DEF Attributes
  <2>3. /\ DOMAIN sensor.entries = displayed
        /\ sensor.displayed_entries_truncated <=> displayed # DOMAIN buckets
        /\ sensor.press_payload_changes = [k \in Shown |-> IF k \in DOMAIN buckets
                                             THEN buckets[k].changes["press"] ELSE 0]
    BY <2>1, <2>2 DEF Attributes
  <2>4. \A k \in Key : heard.changes[k] # NoChanges => k \in DOMAIN buckets
    BY <2>2 DEF IInv, CountsAreComplete
  <2>5. \A k \in DOMAIN buckets : buckets[k].changes = heard.changes[k]
    BY DEF IInv, CountsAreComplete
  <2>6. ASSUME NEW k \in Shown
        PROVE  sensor.press_payload_changes[k] = heard.changes[k]["press"]
    <3>1. CASE k \in DOMAIN buckets
      BY <2>3, <2>5, <3>1
    <3>2. CASE k \notin DOMAIN buckets
      <4>1. heard.changes[k] = NoChanges
        BY <2>4, <3>2, KeyAssumption
      <4>2. NoChanges["press"] = 0
        BY DEF NoChanges, Phase
      <4>3. QED
        BY <2>3, <3>2, <4>1, <4>2
    <3>3. QED
      BY <3>1, <3>2
  <2>7. ASSUME NEW k \in displayed, NEW other \in Key \ displayed,
               heard.changes[other] # NoChanges
        PROVE  /\ sensor.displayed_entries_truncated
               /\ heard.changes[other]["press"] <= heard.changes[k]["press"]
    <3>1. other \in DOMAIN buckets \ displayed
      BY <2>4, <2>7
    <3>2. buckets[k].changes["press"] >= buckets[other].changes["press"]
      BY <2>1, <3>1 DEF Ranked
    <3>3. /\ buckets[k].changes["press"] = heard.changes[k]["press"]
          /\ buckets[other].changes["press"] = heard.changes[other]["press"]
      BY <2>5, <3>1
    <3>4. buckets[k].changes["press"] \in Nat /\ buckets[other].changes["press"] \in Nat
      BY <3>1 DEF IInv, TypeOK, Bucket, Phase
    <3>5. QED
      BY <2>3, <3>1, <3>2, <3>3, <3>4
  <2>8. QED
    BY <2>3, <2>6, <2>7
<1>2. QED
  BY <1>1, Inductive, PTL

\* What the sensor shows is the census as it is, also when a timer ended a window.
THEOREM SensorCurrent == Spec => []SensorIsCurrent
<1>1. IInv => SensorIsCurrent
  <2> SUFFICES ASSUME IInv PROVE SensorIsCurrent
    OBVIOUS
  <2>1. PICK displayed \in SUBSET DOMAIN buckets :
          sensor = Attributes(state, buckets, truncated, displayed)
    BY DEF IInv, SensorShowsCensus
  <2>2. /\ sensor.native_value = state
        /\ state = "complete" => sensor.truncated = truncated
        /\ sensor.phase_advertisement_count = current_phase_count(state, buckets)
    BY <2>1 DEF Attributes, IInv, TypeOK
  <2>3. ASSUME state \in Phase
        PROVE  sensor.phase_advertisement_count =
                 SumFunction([k \in DOMAIN buckets |-> heard.changes[k][state]])
    <3>1. \A k \in DOMAIN buckets : buckets[k].changes[state] = heard.changes[k][state]
      BY DEF IInv, CountsAreComplete
    <3>2. [k \in DOMAIN buckets |-> buckets[k].changes[state]]
            = [k \in DOMAIN buckets |-> heard.changes[k][state]]
      BY <3>1
    <3>3. QED
      BY <2>2, <2>3, <3>2 DEF current_phase_count
  <2>4. QED
    BY <2>2, <2>3 DEF SensorIsCurrent
<1>2. QED
  BY <1>1, Inductive, PTL
=============================================================================
