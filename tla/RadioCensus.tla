----------------------------- MODULE RadioCensus -----------------------------
(***************************************************************************)
(* radio_census.py and the sensor that shows it: what a census counts per  *)
(* manufacturer while it listens, which keys and UUIDs its caps leave out, *)
(* what it keeps when a window ends, and what the sensor last wrote. When  *)
(* a census runs, and its timers, are CaptureSessions'. Value lengths and  *)
(* the connectable flag of a bucket are left out.                          *)
(***************************************************************************)
EXTENDS Integers, FiniteSets, FiniteSetsExt

CONSTANTS Key,                           \* manufacturer IDs, and
          NO_MANUFACTURER_DATA_KEY,      \* the key of what carries none
          Shown,                         \* the IDs with a field of their own
          Identifier,                    \* pseudonymous identifiers heard
          Uuid,                          \* service UUIDs, of which
          ShortUuid,                     \* these have a short form
          MAX_TRACKED_MANUFACTURER_IDS,
          MAX_TRACKED_SERVICE_UUIDS,
          _RADIO_CENSUS_DISPLAY_LIMIT,
          MaxHeard                       \* bound: advertisements with one key

ASSUME KeyAssumption ==
  /\ IsFiniteSet(Key)
  /\ NO_MANUFACTURER_DATA_KEY \in Key
  /\ Shown \subseteq Key \ {NO_MANUFACTURER_DATA_KEY}
ASSUME IdentifierAssumption == IsFiniteSet(Identifier)
ASSUME UuidAssumption == IsFiniteSet(ShortUuid) /\ ShortUuid \subseteq Uuid
ASSUME LimitAssumption ==
  /\ MAX_TRACKED_MANUFACTURER_IDS \in Nat
  /\ MAX_TRACKED_SERVICE_UUIDS \in Nat
  /\ _RADIO_CENSUS_DISPLAY_LIMIT \in Nat
  /\ MaxHeard \in Nat

VARIABLES
  state,      \* RadioCensus.state
  buckets,    \* _buckets: a partial function of the keys
  truncated,  \* _truncated
  sensor,     \* what Ptm216bRadioCensusSensor wrote last
  heard       \* history: what this census was given since it was started

vars == <<state, buckets, truncated, sensor, heard>>

Phase == {"baseline", "press"}
State == Phase \cup {"inert", "complete"}

Bucket == [changes : [Phase -> Nat],
           distinct_devices : Nat,
           service_uuids : SUBSET ShortUuid,
           seen_identifiers : SUBSET Identifier]

Heard == [changes : [Key -> [Phase -> Nat]],
          devices : [Key -> SUBSET Identifier],
          uuids : SUBSET ShortUuid]

Empty == [k \in {} |-> 0]
NoChanges == [p \in Phase |-> 0]
NewBucket == [changes |-> NoChanges, distinct_devices |-> 0,
              service_uuids |-> {}, seen_identifiers |-> {}]
NothingHeard == [changes |-> [k \in Key |-> NoChanges],
                 devices |-> [k \in Key |-> {}],
                 uuids |-> {}]

-----------------------------------------------------------------------------
(* The sensor. Every transition and every advertisement notifies it.        *)

Summary(bucket) == [changes |-> bucket.changes,
                    distinct_devices |-> bucket.distinct_devices,
                    service_uuids |-> bucket.service_uuids]

\* The keys displayed, ranked by their changes in the press phase. Which of two
\* equal ones comes first is the order of the dict, left open.
Ranked(bs, displayed) ==
  /\ displayed \subseteq DOMAIN bs
  /\ \/ displayed = DOMAIN bs
     \/ Cardinality(displayed) = _RADIO_CENSUS_DISPLAY_LIMIT
  /\ Cardinality(displayed) <= _RADIO_CENSUS_DISPLAY_LIMIT
  /\ \A k \in displayed, other \in DOMAIN bs \ displayed :
       bs[k].changes["press"] >= bs[other].changes["press"]

current_phase_count(st, bs) ==
  IF st \in Phase THEN SumFunction([k \in DOMAIN bs |-> bs[k].changes[st]]) ELSE 0

\* Mutant: a field of its own is read from the entries displayed.
AttributesDisplayed(st, bs, tr, displayed) ==
  LET complete == st = "complete" IN
  [native_value |-> st,
   phase_advertisement_count |-> current_phase_count(st, bs),
   entries |-> IF complete THEN [k \in displayed |-> Summary(bs[k])] ELSE Empty,
   truncated |-> complete /\ tr,
   displayed_entries_truncated |-> complete /\ displayed # DOMAIN bs,
   press_payload_changes |->
     [k \in Shown |-> IF complete /\ k \in displayed THEN bs[k].changes["press"] ELSE 0]]

\* native_value and extra_state_attributes. What is not there in a state counts
\* as zero, empty and false.
Attributes(st, bs, tr, displayed) ==
  LET complete == st = "complete" IN
  [native_value |-> st,
   phase_advertisement_count |-> current_phase_count(st, bs),
   entries |-> IF complete THEN [k \in displayed |-> Summary(bs[k])] ELSE Empty,
   truncated |-> complete /\ tr,
   displayed_entries_truncated |-> complete /\ displayed # DOMAIN bs,
   press_payload_changes |->
     [k \in Shown |-> IF complete /\ k \in DOMAIN bs THEN bs[k].changes["press"] ELSE 0]]

WriteState ==
  \E displayed \in SUBSET DOMAIN buckets' :
    /\ Ranked(buckets', displayed)
    /\ sensor' = Attributes(state', buckets', truncated', displayed)

Init ==
  /\ state = "inert"
  /\ buckets = Empty
  /\ truncated = FALSE
  /\ sensor = Attributes("inert", Empty, FALSE, {})
  /\ heard = NothingHeard

-----------------------------------------------------------------------------
(* The census. *)

\* start_radio_census puts a new RadioCensus in the place of any other.
start ==
  /\ state' = "baseline"
  /\ buckets' = Empty
  /\ truncated' = FALSE
  /\ heard' = NothingHeard
  /\ WriteState

cancel ==
  /\ state' = "inert"
  /\ buckets' = Empty
  /\ truncated' = FALSE
  /\ heard' = NothingHeard
  /\ WriteState

\* Of what is new as much is kept as there is room for. Which, is the order of a
\* dict or of a set.
Kept(have, new, kept, max) ==
  /\ kept \subseteq new
  /\ Cardinality(have \cup kept) <= max
  /\ kept = new \/ Cardinality(have \cup kept) = max

Tracked(bs, k) == IF k \in DOMAIN bs THEN bs[k] ELSE NewBucket

\* The UUIDs of the bucket of what has no manufacturer data.
KeptUuids == Tracked(buckets, NO_MANUFACTURER_DATA_KEY).service_uuids

Counted(bucket, identifier, uuids) ==
  [bucket EXCEPT !.changes[state] = @ + 1,
                 !.seen_identifiers = @ \cup {identifier},
                 !.service_uuids = @ \cup uuids]

HeardAlso(identifier, keys, uuids) ==
  [changes |-> [k \in Key |-> IF k \in keys
                              THEN [heard.changes[k] EXCEPT ![state] = @ + 1]
                              ELSE heard.changes[k]],
   devices |-> [k \in Key |-> IF k \in keys THEN heard.devices[k] \cup {identifier}
                              ELSE heard.devices[k]],
   uuids |-> heard.uuids \cup uuids]

\* Mutant: the first key there is no room for ends the loop over the keys.
RecordUntilFull(identifier, keys) ==
  \E kept \in SUBSET (keys \ DOMAIN buckets) :
    /\ Kept(DOMAIN buckets, keys \ DOMAIN buckets, kept, MAX_TRACKED_MANUFACTURER_IDS)
    /\ truncated' = (truncated \/ kept # keys \ DOMAIN buckets)
    /\ buckets' = [k \in DOMAIN buckets \cup kept |->
                     IF k \in kept \/ (k \in keys /\ kept = keys \ DOMAIN buckets)
                     THEN Counted(Tracked(buckets, k), identifier, {})
                     ELSE buckets[k]]

\* _record_bucket for each manufacturer ID. One that finds no room does not keep
\* those after it from being counted.
_record_bucket(identifier, keys) ==
  \E kept \in SUBSET (keys \ DOMAIN buckets) :
    /\ Kept(DOMAIN buckets, keys \ DOMAIN buckets, kept, MAX_TRACKED_MANUFACTURER_IDS)
    /\ truncated' = (truncated \/ kept # keys \ DOMAIN buckets)
    /\ buckets' = [k \in DOMAIN buckets \cup kept |->
                     IF k \in keys THEN Counted(Tracked(buckets, k), identifier, {})
                     ELSE buckets[k]]

\* Mutant: service UUIDs that are left out do not count as truncation.
AddUuidsSilently(identifier, short) ==
  LET k == NO_MANUFACTURER_DATA_KEY
      new == short \ KeptUuids
  IN \E kept \in SUBSET new :
       /\ Kept(KeptUuids, new, kept, MAX_TRACKED_SERVICE_UUIDS)
       /\ truncated' = truncated
       /\ buckets' = [j \in DOMAIN buckets \cup {k} |->
                        IF j = k THEN Counted(Tracked(buckets, k), identifier, kept)
                        ELSE buckets[j]]

\* The bucket of what has no manufacturer data, when it has room, also collects
\* the service UUIDs.
_add_service_uuids(identifier, short) ==
  LET k == NO_MANUFACTURER_DATA_KEY
      new == short \ KeptUuids
  IN \E kept \in SUBSET new :
       /\ Kept(KeptUuids, new, kept, MAX_TRACKED_SERVICE_UUIDS)
       /\ truncated' = (truncated \/ kept # new)
       /\ buckets' = [j \in DOMAIN buckets \cup {k} |->
                        IF j = k THEN Counted(Tracked(buckets, k), identifier, kept)
                        ELSE buckets[j]]

HasRoom(k) ==
  k \in DOMAIN buckets \/ Cardinality(DOMAIN buckets) < MAX_TRACKED_MANUFACTURER_IDS

\* A vendor's 128-bit UUID, which has no short form, is skipped.
_short_service_uuid(service_uuids) == service_uuids \cap ShortUuid

\* One advertisement, of any device and with any manufacturer IDs. Only of one
\* without manufacturer data are the service UUIDs looked at.
record_advertisement(identifier, manufacturer_data, service_uuids) ==
  LET k == NO_MANUFACTURER_DATA_KEY
      keys == IF manufacturer_data = {} THEN {k} ELSE manufacturer_data
      short == IF manufacturer_data = {} THEN _short_service_uuid(service_uuids) ELSE {}
  IN /\ state \in Phase
     /\ \A j \in keys : heard.changes[j]["baseline"] + heard.changes[j]["press"] < MaxHeard
     /\ IF manufacturer_data = {} /\ HasRoom(k) THEN _add_service_uuids(identifier, short)
                                                ELSE _record_bucket(identifier, keys)
     /\ heard' = HeardAlso(identifier, keys, short)
     /\ UNCHANGED state
     /\ WriteState

_finish_baseline ==
  /\ state = "baseline"
  /\ state' = "press"
  /\ UNCHANGED <<buckets, truncated, heard>>
  /\ WriteState

\* Mutant: the identifiers are discarded before they are counted.
DiscardFirst(bucket) ==
  [bucket EXCEPT !.distinct_devices = 0, !.seen_identifiers = {}]

Materialized(bucket) ==
  [bucket EXCEPT !.distinct_devices = Cardinality(bucket.seen_identifiers),
                 !.seen_identifiers = {}]

\* Mutant: the listener is not told of a state that a timer ended.
CompleteSilently ==
  /\ state = "press"
  /\ state' = "complete"
  /\ buckets' = [k \in DOMAIN buckets |-> Materialized(buckets[k])]
  /\ UNCHANGED <<truncated, sensor, heard>>

\* _finish_press and _complete.
_complete ==
  /\ state = "press"
  /\ state' = "complete"
  /\ buckets' = [k \in DOMAIN buckets |-> Materialized(buckets[k])]
  /\ UNCHANGED <<truncated, heard>>
  /\ WriteState

Next ==
  \/ start
  \/ cancel
  \/ \E identifier \in Identifier, service_uuids \in SUBSET Uuid,
        manufacturer_data \in SUBSET (Key \ {NO_MANUFACTURER_DATA_KEY}) :
       record_advertisement(identifier, manufacturer_data, service_uuids)
  \/ _finish_baseline
  \/ _complete

Spec == Init /\ [][Next]_vars

-----------------------------------------------------------------------------

\* Among the rest: no UUID but a short one is retained.
TypeOK ==
  /\ state \in State
  /\ DOMAIN buckets \subseteq Key
  /\ \A k \in DOMAIN buckets : buckets[k] \in Bucket
  /\ truncated \in BOOLEAN
  /\ heard \in Heard

\* "existing tracked keys keep counting": a bucket holds every advertisement its
\* key was heard in, from the first one of the census to the last, each in its
\* own phase, however many other keys there was no room for; and of a key
\* without a bucket something was left out at the cap.
CountsAreComplete ==
  /\ \A k \in DOMAIN buckets : buckets[k].changes = heard.changes[k]
  /\ \A k \in Key \ DOMAIN buckets : heard.changes[k] # NoChanges => truncated

\* "a capped result must never be silently misread as a complete picture":
\* truncated is set when a manufacturer ID or a short service UUID that was heard
\* is missing from the buckets, at whichever cap it was lost, and only then.
TruncationIsReported ==
  truncated <=>
    \/ \E k \in Key \ DOMAIN buckets : heard.changes[k] # NoChanges
    \/ heard.uuids # KeptUuids

\* The working set of identifiers is kept for the windows only, and the number
\* of devices that a complete census leaves in its place is the true one.
DevicesCountedNotKept ==
  \A k \in DOMAIN buckets :
    /\ buckets[k].seen_identifiers = IF state \in Phase THEN heard.devices[k] ELSE {}
    /\ state = "complete" => buckets[k].distinct_devices = Cardinality(heard.devices[k])

\* What the user reads is the census as it is now, also when a timer ended it:
\* the state, the total of the running phase and the flag.
SensorIsCurrent ==
  /\ sensor.native_value = state
  /\ state \in Phase =>
       sensor.phase_advertisement_count =
         SumFunction([k \in DOMAIN buckets |-> heard.changes[k][state]])
  /\ state = "complete" => sensor.truncated = truncated

\* A complete census that is not truncated answers the question it was made for:
\* the fields of EnOcean and Casambi are the changes heard in the press phase,
\* zero only if there were none, whether or not the ID is among the entries
\* displayed; and no entry left out was louder than one displayed.
SensorTellsTruth ==
  sensor.native_value = "complete" /\ ~sensor.truncated =>
    /\ \A k \in Shown : sensor.press_payload_changes[k] = heard.changes[k]["press"]
    /\ \A k \in DOMAIN sensor.entries, other \in Key \ DOMAIN sensor.entries :
         heard.changes[other] # NoChanges =>
           /\ sensor.displayed_entries_truncated
           /\ heard.changes[other]["press"] <= heard.changes[k]["press"]

\* The inductive invariant: the sensor shows the census for some ranking of equals.
SensorShowsCensus ==
  \E displayed \in SUBSET DOMAIN buckets :
    Ranked(buckets, displayed) /\ sensor = Attributes(state, buckets, truncated, displayed)

\* Memory is bounded: the caps hold.
WithinCaps ==
  /\ Cardinality(DOMAIN buckets) <= MAX_TRACKED_MANUFACTURER_IDS
  /\ KeptUuids \subseteq heard.uuids
  /\ Cardinality(KeptUuids) <= MAX_TRACKED_SERVICE_UUIDS

\* A cap that something was lost at stays reached, so that what was left out
\* once is never counted from the middle.
LostAtCap ==
  /\ \A k \in Key \ DOMAIN buckets :
       \/ heard.changes[k] = NoChanges /\ heard.devices[k] = {}
       \/ Cardinality(DOMAIN buckets) = MAX_TRACKED_MANUFACTURER_IDS
  /\ \/ KeptUuids = heard.uuids
     \/ Cardinality(KeptUuids) = MAX_TRACKED_SERVICE_UUIDS
     \/ /\ NO_MANUFACTURER_DATA_KEY \notin DOMAIN buckets
        /\ Cardinality(DOMAIN buckets) = MAX_TRACKED_MANUFACTURER_IDS

IInv ==
  /\ TypeOK
  /\ CountsAreComplete
  /\ TruncationIsReported
  /\ DevicesCountedNotKept
  /\ WithinCaps
  /\ LostAtCap
  /\ SensorShowsCensus
=============================================================================
