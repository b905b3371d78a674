------------------------- MODULE ButtonEntitiesProofs -------------------------
(***************************************************************************)
(* Theorems about ButtonEntities, for any switches and any status bytes.   *)
(* First the decoder against Figure 16, over all bytes; then the inductive *)
(* invariant of the entities, one action at a time; last what a telegram   *)
(* comes to, for which the two meet.                                       *)
(***************************************************************************)
EXTENDS ButtonEntities, TLAPS

(***************************************************************************)
(* The decoder.                                                            *)
(***************************************************************************)

\* The bytes that the code accepts.
LEMMA Decoded ==
  ASSUME NEW status \in Byte
  PROVE  Decodes(status) <=> status \in {2, 3, 4, 5, 8, 9, 10, 11, 16, 17, 20, 21}
BY DEF Decodes, BUTTON_BIT_PATTERNS, button_bits, Byte

\* Which contacts a byte closes, one bit each.
LEMMA ClosedBits ==
  ASSUME NEW status \in Byte
  PROVE  /\ Closed(status) \subseteq Contact
         /\ "A0" \in Closed(status) <=> (status \div 2) % 2 = 1
         /\ "A1" \in Closed(status) <=> (status \div 4) % 2 = 1
         /\ "B0" \in Closed(status) <=> (status \div 8) % 2 = 1
         /\ "B1" \in Closed(status) <=> (status \div 16) % 2 = 1
<1>1. BitValue("A0") = 2 /\ BitValue("A1") = 4 /\ BitValue("B0") = 8 /\ BitValue("B1") = 16
  BY DEF BitValue
<1>2. QED
  BY <1>1 DEF Closed, Contact

\* A byte without reserved bits is its five bits.
LEMMA BitsOf ==
  ASSUME NEW status \in 0..31
  PROVE  status = 16 * ((status \div 16) % 2) + 8 * ((status \div 8) % 2)
                    + 4 * ((status \div 4) % 2) + 2 * ((status \div 2) % 2) + (status % 2)
OBVIOUS

\* The code accepts exactly what the manual allows.
LEMMA DecodesPhysical ==
  ASSUME NEW status \in Byte
  PROVE  Decodes(status) <=> Physical(status)
<1>1. CASE status >= 32
  BY <1>1, Decoded DEF Physical, Byte
<1>2. CASE status \in 0..31
  <2> DEFINE b0 == status % 2
             b1 == (status \div 2) % 2
             b2 == (status \div 4) % 2
             b3 == (status \div 8) % 2
             b4 == (status \div 16) % 2
  <2>1. status = 16 * b4 + 8 * b3 + 4 * b2 + 2 * b1 + b0
    BY <1>2, BitsOf
  <2>2. b0 \in 0..1 /\ b1 \in 0..1 /\ b2 \in 0..1 /\ b3 \in 0..1 /\ b4 \in 0..1
    BY <1>2
  <2>3. Physical(status) <=> /\ b1 = 1 \/ b2 = 1 \/ b3 = 1 \/ b4 = 1
                             /\ (b2 # 1 /\ b4 # 1) \/ (b1 # 1 /\ b3 # 1)
    <3>1. Closed(status) # {} <=> b1 = 1 \/ b2 = 1 \/ b3 = 1 \/ b4 = 1
      BY ClosedBits DEF Contact
    <3>2. Closed(status) \subseteq Upper <=> b2 # 1 /\ b4 # 1
      BY ClosedBits DEF Contact, Upper
    <3>3. Closed(status) \subseteq Lower <=> b1 # 1 /\ b3 # 1
      BY ClosedBits DEF Contact, Lower
    <3>4. QED
      BY <1>2, <3>1, <3>2, <3>3 DEF Physical
  <2> HIDE DEF b0, b1, b2, b3, b4
  <2>4. QED
    BY <2>1, <2>2, <2>3, Decoded
<1>3. QED
  BY <1>1, <1>2 DEF Byte

\* The reason given for a byte that is not accepted.
LEMMA ReasonFits ==
  ASSUME NEW status \in Byte, ~Physical(status)
  PROVE  RejectionReason(status) =
           IF status >= 32 THEN "reserved_bits"
           ELSE IF Closed(status) = {} THEN "no_button_bit"
           ELSE "unsupported_button_combination"
<1>1. CASE status >= 32
  BY <1>1 DEF RejectionReason
<1>2. CASE status \in 0..31
  <2>1. button_bits(status) = 0 <=> status \in {0, 1}
    BY <1>2 DEF button_bits
  <2>2. status \in {0, 1} => Closed(status) = {}
    BY ClosedBits DEF Contact
  <2>3. Closed(status) = {} => status \in {0, 1}
    <3>1. SUFFICES ASSUME Closed(status) = {} PROVE status \in {0, 1}
      OBVIOUS
    <3>2. /\ (status \div 2) % 2 = 0 /\ (status \div 4) % 2 = 0
          /\ (status \div 8) % 2 = 0 /\ (status \div 16) % 2 = 0
      BY <1>2, <3>1, ClosedBits
    <3>3. QED
      BY <1>2, <3>2, BitsOf
  <2>4. QED
    BY <1>2, <2>1, <2>2, <2>3 DEF RejectionReason
<1>3. QED
  BY <1>1, <1>2 DEF Byte

\* The button of each accepted byte.
LEMMA ButtonBits ==
  ASSUME NEW status \in Byte, Decodes(status)
  PROVE  \/ /\ interpret_switch_status(status).pattern = "A0" /\ Closed(status) = {"A0"}
         \/ /\ interpret_switch_status(status).pattern = "A1" /\ Closed(status) = {"A1"}
         \/ /\ interpret_switch_status(status).pattern = "B0" /\ Closed(status) = {"B0"}
         \/ /\ interpret_switch_status(status).pattern = "B1" /\ Closed(status) = {"B1"}
         \/ /\ interpret_switch_status(status).pattern = "A0+B0" /\ Closed(status) = Upper
         \/ /\ interpret_switch_status(status).pattern = "A1+B1" /\ Closed(status) = Lower
<1>1. /\ BUTTON_BIT_PATTERNS[2] = "A0" /\ BUTTON_BIT_PATTERNS[4] = "A1"
      /\ BUTTON_BIT_PATTERNS[8] = "B0" /\ BUTTON_BIT_PATTERNS[16] = "B1"
      /\ BUTTON_BIT_PATTERNS[10] = "A0+B0" /\ BUTTON_BIT_PATTERNS[20] = "A1+B1"
  BY DEF BUTTON_BIT_PATTERNS
<1>2. interpret_switch_status(status).pattern = BUTTON_BIT_PATTERNS[button_bits(status)]
  BY DEF interpret_switch_status
<1>3. CASE status \in {2, 3}
  BY <1>1, <1>2, <1>3, ClosedBits DEF button_bits, Contact
<1>4. CASE status \in {4, 5}
  BY <1>1, <1>2, <1>4, ClosedBits DEF button_bits, Contact
<1>5. CASE status \in {8, 9}
  BY <1>1, <1>2, <1>5, ClosedBits DEF button_bits, Contact
<1>6. CASE status \in {16, 17}
  BY <1>1, <1>2, <1>6, ClosedBits DEF button_bits, Contact
<1>7. CASE status \in {10, 11}
  BY <1>1, <1>2, <1>7, ClosedBits DEF button_bits, Contact, Upper
<1>8. CASE status \in {20, 21}
  BY <1>1, <1>2, <1>8, ClosedBits DEF button_bits, Contact, Lower
<1>9. QED
  BY <1>3, <1>4, <1>5, <1>6, <1>7, <1>8, Decoded

\* And under the name that the rocker count gives it, one of the switch's.
LEMMA Named ==
  ASSUME NEW status \in Byte, Decodes(status), NEW field
  PROVE  LET p == normalize_button_pattern(interpret_switch_status(status).pattern,
                                           RockerCount(field))
         IN  p = ButtonOf(status, RockerCount(field)) /\ p \in Patterns(field)
<1> DEFINE pattern == interpret_switch_status(status).pattern
           closed == Closed(status)
<1>1. \A c \in Contact : closed = {c} => (CHOOSE x \in Contact : closed = {x}) = c
  OBVIOUS
<1>2. /\ {"A0"} # Upper /\ {"B0"} # Upper /\ {"A1"} # Upper /\ {"B1"} # Upper
      /\ {"A0"} # Lower /\ {"B0"} # Lower /\ {"A1"} # Lower /\ {"B1"} # Lower
      /\ Lower # Upper
  BY DEF Upper, Lower
<1>3. ButtonOf(status, RockerCount(field)) =
        IF RockerCount(field) = 1
        THEN IF closed \subseteq Upper THEN "A0" ELSE "A1"
        ELSE IF closed = Upper THEN "A0+B0"
        ELSE IF closed = Lower THEN "A1+B1"
        ELSE CHOOSE c \in Contact : closed = {c}
  BY DEF ButtonOf
<1>4. PICK button : button = CHOOSE c \in Contact : closed = {c}
  OBVIOUS
<1>5. \A c \in Contact : closed = {c} => button = c
  BY <1>1, <1>4
<1>6. CASE RockerCount(field) = 1
  <2>1. closed \subseteq Upper <=> pattern \in {"A0", "B0", "A0+B0"}
    BY ButtonBits DEF Upper, Lower
  <2>2. pattern \in ButtonPattern
    BY ButtonBits DEF ButtonPattern
  <2>3. QED
    BY <1>3, <1>6, <2>1, <2>2
    DEF normalize_button_pattern, Patterns, _SINGLE_ROCKER_PATTERNS, ButtonPattern
<1>7. CASE RockerCount(field) = 2
  <2>1. normalize_button_pattern(pattern, RockerCount(field)) = pattern
    BY <1>7 DEF normalize_button_pattern
  <2>2. pattern \in ButtonPattern
    BY ButtonBits DEF ButtonPattern
  <2>3. ButtonOf(status, RockerCount(field)) =
          IF closed = Upper THEN "A0+B0" ELSE IF closed = Lower THEN "A1+B1" ELSE button
    BY <1>3, <1>4, <1>7
  <2>4. pattern = ButtonOf(status, RockerCount(field))
    BY <1>2, <1>5, <2>3, ButtonBits DEF Contact
  <2>5. QED
    BY <1>7, <2>1, <2>2, <2>4 DEF Patterns
<1>8. QED
  BY <1>6, <1>7 DEF RockerCount

(***************************************************************************)
(* Types.                                                                  *)
(***************************************************************************)

\* The subentries are a function of some of the switches.
LEMMA RockersType ==
  rockers \in UNION {[S -> 0..2] : S \in SUBSET Switch} <=>
    DOMAIN rockers \subseteq Switch /\ rockers \in [DOMAIN rockers -> 0..2]
OBVIOUS

\* The same of the state after a step.
LEMMA RockersNext ==
  rockers' \in UNION {[S -> 0..2] : S \in SUBSET Switch} <=>
    DOMAIN rockers' \subseteq Switch /\ rockers' \in [DOMAIN rockers' -> 0..2]
OBVIOUS

\* The entities of a call.
LEMMA OfType ==
  ASSUME NEW s \in Switch, NEW ids \in SUBSET (ButtonPattern \cup Diagnostic)
  PROVE  /\ Of(s, ids) \subseteq Entity
         /\ \A e \in Entity : e \in Of(s, ids) <=> e.switch = s /\ e.id \in ids
BY DEF Of, Entity

\* A rocker field names patterns of buttons, and one or two rockers.
LEMMA PatternsType ==
  ASSUME NEW field
  PROVE  Patterns(field) \subseteq ButtonPattern /\ RockerCount(field) \in 1..2
BY DEF Patterns, RockerCount, _SINGLE_ROCKER_PATTERNS, ButtonPattern

\* The entities that each platform's setup hands over.
LEMMA HandedOver ==
  ASSUME TypeOK
  PROVE  /\ UNION {Of(s, Patterns(rockers[s])) : s \in Known} \subseteq Entity
         /\ UNION {Of(s, Diagnostic) : s \in Known} \subseteq Entity
         /\ \A e \in Entity :
              /\ e \in UNION {Of(s, Patterns(rockers[s])) : s \in Known} <=>
                   e.switch \in Known /\ e.id \in Patterns(rockers[e.switch])
              /\ e \in UNION {Of(s, Diagnostic) : s \in Known} <=>
                   e.switch \in Known /\ e.id \in Diagnostic
<1>1. Known \subseteq Switch
  BY DEF TypeOK, Known
<1>2. \A s \in Known : Patterns(rockers[s]) \subseteq ButtonPattern \cup Diagnostic
  BY PatternsType
<1>3. \A s \in Known :
        /\ Of(s, Patterns(rockers[s])) \subseteq Entity
        /\ Of(s, Diagnostic) \subseteq Entity
        /\ \A e \in Entity :
             /\ e \in Of(s, Patterns(rockers[s])) <=>
                  e.switch = s /\ e.id \in Patterns(rockers[s])
             /\ e \in Of(s, Diagnostic) <=> e.switch = s /\ e.id \in Diagnostic
  BY <1>1, <1>2, OfType
<1>4. QED
  BY <1>3

\* The entry starts unloaded, with well-formed variables.
LEMMA TypeInit == Init => TypeOK
<1> SUFFICES ASSUME Init PROVE TypeOK
  OBVIOUS
<1>1. rockers \in UNION {[S -> 0..2] : S \in SUBSET Switch}
  BY Zenon DEF Init
<1>2. /\ records \subseteq Switch
      /\ phase \in {"unloaded", "platforms", "loaded", "unloading"} /\ reload \in BOOLEAN
      /\ waiting \subseteq Platform /\ runtime \in [Switch -> 1..2]
      /\ adding \subseteq Entity /\ registry \subseteq Entity /\ listening \subseteq Entity
  <2>1. /\ records \in SUBSET Switch /\ phase = "unloaded" /\ reload = FALSE
        /\ waiting = {} /\ runtime = [s \in Switch |-> 2]
        /\ adding = {} /\ registry = {} /\ listening = {}
    BY Zenon DEF Init
  <2>2. runtime \in [Switch -> 1..2]
    BY <2>1
  <2>3. waiting \subseteq Platform /\ adding \subseteq Entity /\ registry \subseteq Entity
        /\ listening \subseteq Entity /\ reload \in BOOLEAN
    BY <2>1
  <2>4. QED
    BY <2>1, <2>2, <2>3
<1>3. QED
  BY <1>1, <1>2, Zenon DEF TypeOK

\* Every step keeps the types.
LEMMA TypeStep == TypeOK /\ [Next]_vars => TypeOK'
<1> SUFFICES ASSUME TypeOK, [Next]_vars PROVE TypeOK'
  OBVIOUS
<1>1. CASE ForwardSetups
  BY <1>1 DEF ForwardSetups, TypeOK, Known
<1>2. CASE SetupEvents
  <2>1. \A s \in Known : RockerCount(rockers[s]) \in 1..2
    BY PatternsType
  <2>2. runtime' \in [Switch -> 1..2]
    BY <1>2, <2>1 DEF SetupEvents, TypeOK
  <2>3. adding' \subseteq Entity
    BY <1>2, HandedOver DEF SetupEvents, TypeOK
  <2>4. QED
    BY <1>2, <2>2, <2>3 DEF SetupEvents, entry, TypeOK
<1>3. CASE SetupSensors
  <2>1. adding' \subseteq Entity
    BY <1>3, HandedOver DEF SetupSensors, TypeOK
  <2>2. QED
    BY <1>3, <2>1 DEF SetupSensors, entry, TypeOK
<1>4. ASSUME NEW s \in Switch, NEW platform \in Platform, AddEntities(s, platform)
      PROVE  TypeOK'
  BY <1>4 DEF AddEntities, Its, entry, TypeOK
<1>5. CASE FinishSetup \/ StartUnload \/ FinishUnload
  BY <1>5 DEF FinishSetup, StartUnload, FinishUnload, entities, TypeOK
<1>6. ASSUME NEW platform \in Platform, UnloadPlatform(platform) PROVE TypeOK'
  BY <1>6 DEF UnloadPlatform, OnPlatform, entry, TypeOK
<1>7. ASSUME NEW s \in Switch, NEW field \in 1..2, Commission(s, field) PROVE TypeOK'
  <2>1. rockers' \in UNION {[S -> 0..2] : S \in SUBSET Switch}
    BY <1>7, RockersType, RockersNext DEF Commission, TypeOK
  <2>2. QED
    BY <1>7, <2>1 DEF Commission, entities, TypeOK
<1>8. ASSUME NEW s \in Switch, NEW field \in 1..2, async_step_reconfigure(s, field)
      PROVE  TypeOK'
  <2>1. rockers' \in UNION {[S -> 0..2] : S \in SUBSET Switch}
    BY <1>8, RockersType, RockersNext DEF async_step_reconfigure, TypeOK
  <2>2. QED
    BY <1>8, <2>1 DEF async_step_reconfigure, entities, HasListener, TypeOK
<1>9. ASSUME NEW s \in Switch, RemoveSubentry(s) PROVE TypeOK'
  <2>1. rockers' \in UNION {[S -> 0..2] : S \in SUBSET Switch}
    BY <1>9, RockersType, RockersNext DEF RemoveSubentry, TypeOK
  <2>2. QED
    BY <1>9, <2>1 DEF RemoveSubentry, HasListener, TypeOK
<1>10. CASE DropUnregistered
  BY <1>10 DEF DropUnregistered, entry, TypeOK
<1>11. ASSUME NEW s \in Switch, NEW status \in Status, record_verified_and_fire(s, status)
       PROVE  TypeOK'
  BY <1>11 DEF record_verified_and_fire, entry, entities, TypeOK
<1>12. CASE Restart
  BY <1>12 DEF Restart, TypeOK
<1>13. CASE UNCHANGED vars
  BY <1>13 DEF vars, entry, entities, TypeOK
<1>14. QED
  BY <1>1, <1>2, <1>3, <1>4, <1>5, <1>6, <1>7, <1>8, <1>9, <1>10, <1>11, <1>12, <1>13
  DEF Next

\* Every variable keeps its type.
THEOREM TypeCorrect == Spec => []TypeOK
BY TypeInit, TypeStep, PTL DEF Spec

(***************************************************************************)
(* The inductive invariant.                                                *)
(***************************************************************************)

\* An entity is either a button's or a sensor.
LEMMA Kinds ==
  /\ IdsOf("event") = ButtonPattern /\ IdsOf("sensor") = Diagnostic
  /\ ButtonPattern \cap Diagnostic = {}
  /\ \A e \in Entity : e.id \in ButtonPattern \cup Diagnostic
BY DEF IdsOf, ButtonPattern, Diagnostic, Entity

\* Its platform has been set up, in terms of the two.
LEMMA SetUpKinds ==
  ASSUME waiting \subseteq Platform, NEW e \in Entity
  PROVE  SetUp(e) <=> /\ e.id \in ButtonPattern => "event" \notin waiting
                      /\ e.id \in Diagnostic => "sensor" \notin waiting
BY Kinds DEF SetUp, Platform

\* The same of the state after a step.
LEMMA SetUpKindsNext ==
  ASSUME waiting' \subseteq Platform, NEW e \in Entity
  PROVE  SetUp(e)' <=> /\ e.id \in ButtonPattern => "event" \notin waiting'
                       /\ e.id \in Diagnostic => "sensor" \notin waiting'
BY Kinds DEF SetUp, Platform

\* Where a reload is due, or the entry is neither set up nor being set up, there
\* is nothing to show.
LEMMA NotCurrent == ~Current' => EntitiesFit'
BY DEF EntitiesFit

\* Where nothing of it changes neither does this part.
LEMMA EntitiesUntouched ==
  EntitiesFit /\ UNCHANGED <<rockers, records, entities>> /\ (Current' => Current)
    => EntitiesFit'
BY DEF EntitiesFit, entities, Offered, SetUp, Known

\* Before the platforms run, no entity is expected and none is there.
LEMMA ForwardFits ==
  ASSUME TypeOK, PhasesFit, ForwardSetups
  PROVE  EntitiesFit'
<1>1. /\ listening' = {} /\ adding' = {} /\ waiting' = Platform
  BY DEF ForwardSetups, PhasesFit
<1>2. \A e \in Entity : ~SetUp(e)'
  BY <1>1, Kinds, SetUpKindsNext DEF Platform
<1>3. QED
  BY <1>1, <1>2 DEF EntitiesFit, Platform

\* The event platform hands over its switches' buttons and keeps only these.
LEMMA EventsFit ==
  ASSUME TypeOK, PhasesFit, EntitiesFit, SetupEvents
  PROVE  EntitiesFit'
<1>1. CASE ~Current
  BY <1>1, NotCurrent DEF Current, SetupEvents, entry
<1>2. CASE Current
  <2> DEFINE handed == UNION {Of(s, Patterns(rockers[s])) : s \in Known}
  <2>1. /\ waiting' = waiting \ {"event"} /\ "event" \in waiting
        /\ waiting \subseteq Platform
        /\ UNCHANGED <<rockers, records, listening>>
        /\ adding' = adding \cup handed
        /\ runtime' = [s \in Switch |->
                          IF s \in Known THEN RockerCount(rockers[s]) ELSE runtime[s]]
        /\ registry' = {e \in registry :
             \A s \in Known :
               e \in _prune_stale_event_entities(registry, s, Patterns(rockers[s]))}
    BY DEF SetupEvents, entry, TypeOK
  <2>2. Known' = Known /\ Known \subseteq Switch
    BY <2>1 DEF Known, TypeOK
  <2>3. \A e \in Entity :
          e \in handed <=> e.switch \in Known /\ e.id \in Patterns(rockers[e.switch])
    BY HandedOver
  <2>4. \A e \in Entity : e \in registry' <=>
          /\ e \in registry
          /\ e.switch \in Known /\ e.id \in ButtonPattern =>
               e.id \in Patterns(rockers[e.switch])
    <3>1. ASSUME NEW e \in Entity, NEW s \in Known, e \in registry
          PROVE  e \in _prune_stale_event_entities(registry, s, Patterns(rockers[s])) <=>
                   e.switch # s \/ e.id \notin ButtonPattern \/ e.id \in Patterns(rockers[s])
      BY <3>1, Kinds DEF _prune_stale_event_entities
    <3>2. QED
      BY <2>1, <3>1
  <2>5. ASSUME NEW e \in Entity
        PROVE  /\ e \in (listening \cup adding)' <=> (Offered(e) /\ SetUp(e))'
               /\ e \in listening' => e \in registry'
               /\ (e \in registry /\ e.switch \in Known /\ SetUp(e) => Offered(e))'
    <3>1. /\ e \in listening \cup adding <=> Offered(e) /\ SetUp(e)
          /\ e \in listening => e \in registry
          /\ e \in registry /\ e.switch \in Known /\ SetUp(e) => Offered(e)
      BY <1>2 DEF EntitiesFit
    <3>2. Offered(e)' <=> Offered(e)
      BY <2>1, <2>2 DEF Offered
    <3>3. Offered(e) <=> /\ e.switch \in Known
                         /\ e.id \in ButtonPattern => e.id \in Patterns(rockers[e.switch])
      BY Kinds DEF Offered
    <3>4. CASE e.id \in ButtonPattern
      <4>1. ~SetUp(e) /\ SetUp(e)'
        BY <2>1, <3>4, Kinds, SetUpKinds, SetUpKindsNext
      <4>2. e \notin listening \cup adding
        BY <3>1, <4>1
      <4>3. QED
        BY <2>1, <2>2, <2>3, <2>4, <3>2, <3>3, <3>4, <4>1, <4>2
    <3>5. CASE e.id \in Diagnostic
      <4>1. SetUp(e)' <=> SetUp(e)
        BY <2>1, <3>5, Kinds, SetUpKinds, SetUpKindsNext
      <4>2. e \notin handed /\ (e \in registry' <=> e \in registry)
        BY <2>3, <2>4, <3>5, Kinds, PatternsType
      <4>3. QED
        BY <2>1, <2>2, <3>1, <3>2, <4>1, <4>2
    <3>6. QED
      BY <3>4, <3>5, Kinds
  <2>6. \A s \in Known' : runtime'[s] = RockerCount(rockers'[s])
    BY <2>1, <2>2
  <2>7. QED
    BY <2>5, <2>6 DEF EntitiesFit
<1>3. QED
  BY <1>1, <1>2

\* The sensor platform hands over the diagnostics of its switches.
LEMMA SensorsFit ==
  ASSUME TypeOK, EntitiesFit, SetupSensors
  PROVE  EntitiesFit'
<1>1. CASE ~Current
  BY <1>1, NotCurrent DEF Current, SetupSensors, entry
<1>2. CASE Current
  <2> DEFINE handed == UNION {Of(s, Diagnostic) : s \in Known}
  <2>1. /\ waiting' = waiting \ {"sensor"} /\ "sensor" \in waiting
        /\ waiting \subseteq Platform
        /\ UNCHANGED <<rockers, records, runtime, registry, listening>>
        /\ adding' = adding \cup handed
    BY DEF SetupSensors, entry, TypeOK
  <2>2. Known' = Known
    BY <2>1 DEF Known
  <2>3. \A e \in Entity : e \in handed <=> e.switch \in Known /\ e.id \in Diagnostic
    BY HandedOver
  <2>4. ASSUME NEW e \in Entity
        PROVE  /\ e \in (listening \cup adding)' <=> (Offered(e) /\ SetUp(e))'
               /\ e \in listening' => e \in registry'
               /\ (e \in registry /\ e.switch \in Known /\ SetUp(e) => Offered(e))'
    <3>1. /\ e \in listening \cup adding <=> Offered(e) /\ SetUp(e)
          /\ e \in listening => e \in registry
          /\ e \in registry /\ e.switch \in Known /\ SetUp(e) => Offered(e)
      BY <1>2 DEF EntitiesFit
    <3>2. Offered(e)' <=> Offered(e)
      BY <2>1, <2>2 DEF Offered
    <3>3. CASE e.id \in Diagnostic
      <4>1. ~SetUp(e) /\ SetUp(e)'
        BY <2>1, <3>3, Kinds, SetUpKinds, SetUpKindsNext
      <4>2. Offered(e) <=> e.switch \in Known
        BY <3>3, Kinds DEF Offered
      <4>3. QED
        BY <2>1, <2>2, <2>3, <3>1, <3>2, <3>3, <4>1, <4>2
    <3>4. CASE e.id \in ButtonPattern
      <4>1. SetUp(e)' <=> SetUp(e)
        BY <2>1, <3>4, Kinds, SetUpKinds, SetUpKindsNext
      <4>2. e \notin handed
        BY <2>3, <3>4, Kinds
      <4>3. QED
        BY <2>1, <2>2, <3>1, <3>2, <4>1, <4>2
    <3>5. QED
      BY <3>3, <3>4, Kinds
  <2>5. "event" \notin waiting' => \A s \in Known' : runtime'[s] = RockerCount(rockers'[s])
    BY <1>2, <2>1, <2>2 DEF EntitiesFit
  <2>6. QED
    BY <2>4, <2>5 DEF EntitiesFit
<1>3. QED
  BY <1>1, <1>2

\* What was handed over and is added now listens from here on.
LEMMA AddedFit ==
  ASSUME TypeOK, EntitiesFit, NEW s \in Switch, NEW platform \in Platform,
         AddEntities(s, platform)
  PROVE  EntitiesFit'
<1>1. CASE ~Current
  BY <1>1, NotCurrent DEF Current, AddEntities, entry
<1>2. CASE Current
  <2> DEFINE new == Its(adding, s, platform)
  <2>1. /\ new # {} /\ adding' = adding \ new
        /\ UNCHANGED <<rockers, records, waiting, runtime>>
        /\ IF s \in DOMAIN rockers
           THEN registry' = registry \cup new /\ listening' = listening \cup new
           ELSE UNCHANGED <<registry, listening>>
    BY DEF AddEntities, entry
  <2>2. new \subseteq adding /\ adding \subseteq Entity /\ \A e \in new : e.switch = s
    BY DEF Its, TypeOK
  <2>3. \A e \in Entity :
          /\ e \in listening \cup adding <=> Offered(e) /\ SetUp(e)
          /\ e \in listening => e \in registry
          /\ e \in registry /\ e.switch \in Known /\ SetUp(e) => Offered(e)
    BY <1>2 DEF EntitiesFit
  <2>4. s \in DOMAIN rockers
    BY <2>1, <2>2, <2>3 DEF Offered, Known
  <2>5. Known' = Known /\ \A e \in Entity : (Offered(e)' <=> Offered(e)) /\ (SetUp(e)' <=> SetUp(e))
    BY <2>1 DEF Known, Offered, SetUp
  <2>6. \A e \in Entity :
          /\ (e \in listening \cup adding)' <=> e \in listening \cup adding
          /\ e \in listening' => e \in registry'
          /\ e \in registry' => e \in registry \/ e \in adding
    BY <2>1, <2>2, <2>3, <2>4
  <2>7. "event" \notin waiting' => \A x \in Known' : runtime'[x] = RockerCount(rockers'[x])
    BY <1>2, <2>1, <2>5 DEF EntitiesFit
  <2>8. QED
    BY <2>3, <2>5, <2>6, <2>7 DEF EntitiesFit
<1>3. QED
  BY <1>1, <1>2

\* In a current state no entity is left to be dropped.
LEMMA DroppedFit ==
  ASSUME TypeOK, EntitiesFit, DropUnregistered
  PROVE  EntitiesFit'
<1>1. CASE ~Current
  BY <1>1, NotCurrent DEF Current, DropUnregistered, entry
<1>2. CASE Current
  BY <1>2 DEF EntitiesFit, DropUnregistered, TypeOK
<1>3. QED
  BY <1>1, <1>2

\* Every step keeps the phases' part.
LEMMA PhasesStep ==
  ASSUME TypeOK, PhasesFit, [Next]_vars
  PROVE  PhasesFit'
<1>1. CASE ForwardSetups
  BY <1>1 DEF ForwardSetups, PhasesFit
<1>2. CASE SetupEvents \/ SetupSensors
  BY <1>2 DEF SetupEvents, SetupSensors, entry, PhasesFit
<1>3. ASSUME NEW s \in Switch, NEW platform \in Platform, AddEntities(s, platform)
      PROVE  PhasesFit'
  <2>1. adding # {}
    BY <1>3 DEF AddEntities, Its
  <2>2. QED
    BY <1>3, <2>1 DEF AddEntities, entry, PhasesFit
<1>4. CASE FinishSetup \/ StartUnload \/ FinishUnload
  BY <1>4 DEF FinishSetup, StartUnload, FinishUnload, entities, PhasesFit
<1>5. ASSUME NEW platform \in Platform, UnloadPlatform(platform) PROVE PhasesFit'
  BY <1>5 DEF UnloadPlatform, entry, PhasesFit
<1>6. ASSUME NEW s \in Switch, NEW field \in 1..2,
             Commission(s, field) \/ async_step_reconfigure(s, field)
      PROVE  PhasesFit'
  BY <1>6 DEF Commission, async_step_reconfigure, entities, PhasesFit
<1>7. ASSUME NEW s \in Switch, RemoveSubentry(s) PROVE PhasesFit'
  BY <1>7 DEF RemoveSubentry, PhasesFit
<1>8. CASE DropUnregistered
  BY <1>8 DEF DropUnregistered, entry, PhasesFit
<1>9. ASSUME NEW s \in Switch, NEW status \in Status, record_verified_and_fire(s, status)
      PROVE  PhasesFit'
  BY <1>9 DEF record_verified_and_fire, entry, entities, PhasesFit
<1>10. CASE Restart
  BY <1>10 DEF Restart, PhasesFit
<1>11. CASE UNCHANGED vars
  BY <1>11 DEF vars, entry, entities, PhasesFit
<1>12. QED
  BY <1>1, <1>2, <1>3, <1>4, <1>5, <1>6, <1>7, <1>8, <1>9, <1>10, <1>11 DEF Next

\* Every step keeps the entities' part.
LEMMA EntitiesStep ==
  ASSUME TypeOK, PhasesFit, EntitiesFit, [Next]_vars
  PROVE  EntitiesFit'
<1>1. CASE ForwardSetups
  BY <1>1, ForwardFits
<1>2. CASE SetupEvents
  BY <1>2, EventsFit
<1>3. CASE SetupSensors
  BY <1>3, SensorsFit
<1>4. ASSUME NEW s \in Switch, NEW platform \in Platform, AddEntities(s, platform)
      PROVE  EntitiesFit'
  BY <1>4, AddedFit
<1>5. CASE FinishSetup
  BY <1>5, EntitiesUntouched DEF FinishSetup, Current
<1>6. CASE StartUnload \/ FinishUnload \/ Restart
  BY <1>6, NotCurrent DEF StartUnload, FinishUnload, Restart, Current
<1>7. ASSUME NEW platform \in Platform, UnloadPlatform(platform) PROVE EntitiesFit'
  BY <1>7, NotCurrent DEF UnloadPlatform, entry, Current
<1>8. ASSUME NEW s \in Switch, NEW field \in 1..2,
             Commission(s, field) \/ async_step_reconfigure(s, field)
      PROVE  EntitiesFit'
  BY <1>8, NotCurrent DEF Commission, async_step_reconfigure, HasListener, Current
<1>9. ASSUME NEW s \in Switch, RemoveSubentry(s) PROVE EntitiesFit'
  BY <1>9, NotCurrent DEF RemoveSubentry, HasListener, Current
<1>10. CASE DropUnregistered
  BY <1>10, DroppedFit
<1>11. ASSUME NEW s \in Switch, NEW status \in Status, record_verified_and_fire(s, status)
       PROVE  EntitiesFit'
  BY <1>11, EntitiesUntouched DEF record_verified_and_fire, entry, Current
<1>12. CASE UNCHANGED vars
  BY <1>12, EntitiesUntouched DEF vars, entry, Current
<1>13. QED
  BY <1>1, <1>2, <1>3, <1>4, <1>5, <1>6, <1>7, <1>8, <1>9, <1>10, <1>11, <1>12 DEF Next

\* No step leaves an entity without its subentry in the registry.
LEMMA RegistryStep ==
  ASSUME TypeOK, RegistryFits, [Next]_vars
  PROVE  RegistryFits'
<1>1. CASE SetupEvents
  BY <1>1 DEF SetupEvents, entry, RegistryFits
<1>2. ASSUME NEW s \in Switch, NEW platform \in Platform, AddEntities(s, platform)
      PROVE  RegistryFits'
  BY <1>2 DEF AddEntities, Its, entry, RegistryFits
<1>3. ASSUME NEW s \in Switch, NEW field \in 1..2,
             Commission(s, field) \/ async_step_reconfigure(s, field)
      PROVE  RegistryFits'
  BY <1>3 DEF Commission, async_step_reconfigure, entities, RegistryFits
<1>4. ASSUME NEW s \in Switch, RemoveSubentry(s) PROVE RegistryFits'
  BY <1>4 DEF RemoveSubentry, RegistryFits
<1>5. CASE ForwardSetups \/ SetupSensors \/ FinishSetup \/ StartUnload \/ FinishUnload
             \/ DropUnregistered \/ Restart \/ UNCHANGED vars
  BY <1>5 DEF ForwardSetups, SetupSensors, FinishSetup, StartUnload, FinishUnload,
              DropUnregistered, Restart, vars, entry, entities, RegistryFits
<1>6. ASSUME NEW platform \in Platform, UnloadPlatform(platform) PROVE RegistryFits'
  BY <1>6 DEF UnloadPlatform, entry, RegistryFits
<1>7. ASSUME NEW s \in Switch, NEW status \in Status, record_verified_and_fire(s, status)
      PROVE  RegistryFits'
  BY <1>7 DEF record_verified_and_fire, entry, entities, RegistryFits
<1>8. QED
  BY <1>1, <1>2, <1>3, <1>4, <1>5, <1>6, <1>7 DEF Next

\* Nothing is set up at first.
LEMMA InvInit == Init => IInv
<1> SUFFICES ASSUME Init PROVE IInv
  OBVIOUS
<1>1. TypeOK
  BY TypeInit
<1>2. phase = "unloaded" /\ waiting = {} /\ adding = {} /\ registry = {} /\ listening = {}
  BY Zenon DEF Init
<1>3. PhasesFit /\ EntitiesFit /\ RegistryFits
  BY <1>2 DEF PhasesFit, EntitiesFit, RegistryFits, Current
<1>4. QED
  BY <1>1, <1>3 DEF IInv

\* Every step keeps the types, the phases, the entities and the registry.
LEMMA InvStep == IInv /\ [Next]_vars => IInv'
BY TypeStep, PhasesStep, EntitiesStep, RegistryStep DEF IInv

\* The inductive invariant holds of every instance.
THEOREM Inductive == Spec => []IInv
BY InvInit, InvStep, PTL DEF Spec

(***************************************************************************)
(* What follows from it.                                                   *)
(***************************************************************************)

\* The trigger side's table names the buttons that event.py's does.
LEMMA OfferedButtons ==
  ASSUME NEW s \in Known
  PROVE  _rocker_patterns_for_device(s) = Patterns(rockers[s])
BY DEF Known, _rocker_patterns_for_device, Patterns, RockerCount

\* Settled, a switch's entities are its buttons and its two sensors.
LEMMA SettledEntities ==
  ASSUME IInv, Settled, NEW s \in Known
  PROVE  /\ \A i \in ButtonPattern \cup Diagnostic :
              [switch |-> s, id |-> i] \in listening <=>
                i \in _rocker_patterns_for_device(s) \cup Diagnostic
         /\ \A i \in ButtonPattern :
              [switch |-> s, id |-> i] \in registry <=>
                i \in _rocker_patterns_for_device(s)
         /\ runtime[s] = RockerCount(rockers[s])
<1>1. Current /\ waiting = {} /\ adding = {}
  BY DEF Settled, Current, IInv, PhasesFit
<1>2. \A e \in Entity :
        /\ e \in listening <=> Offered(e)
        /\ e \in listening => e \in registry
        /\ e \in registry /\ e.switch \in Known => Offered(e)
  BY <1>1 DEF IInv, EntitiesFit, SetUp
<1>3. \A i \in ButtonPattern \cup Diagnostic :
        /\ [switch |-> s, id |-> i] \in Entity
        /\ Offered([switch |-> s, id |-> i]) <=>
             (i \in ButtonPattern => i \in _rocker_patterns_for_device(s))
  BY Kinds, OfferedButtons DEF Entity, Offered, IInv, TypeOK, Known
<1>4. _rocker_patterns_for_device(s) \subseteq ButtonPattern
  BY OfferedButtons, PatternsType
<1>5. runtime[s] = RockerCount(rockers[s])
  BY <1>1 DEF IInv, EntitiesFit
<1>6. QED
  BY <1>2, <1>3, <1>4, <1>5, Kinds

\* Once no reload is due, the triggers offered for a switch are those of the
\* entities that are there to fire them.
THEOREM TriggersAgree == Spec => []TriggersHaveEntities
<1>1. ASSUME IInv PROVE TriggersHaveEntities
  <2>1. SUFFICES ASSUME Settled
        PROVE  /\ \A s \in Known :
                    /\ Ids(s, registry) \cap ButtonPattern = _rocker_patterns_for_device(s)
                    /\ Ids(s, listening) = _rocker_patterns_for_device(s) \cup Diagnostic
               /\ \A e \in registry : e.switch \in DOMAIN rockers
               /\ \A e \in listening : e \in registry
    BY DEF TriggersHaveEntities
  <2>2. listening \subseteq Entity /\ registry \subseteq Entity
    BY <1>1 DEF IInv, TypeOK
  <2>3. ASSUME NEW s \in Known
        PROVE  /\ Ids(s, registry) \cap ButtonPattern = _rocker_patterns_for_device(s)
               /\ Ids(s, listening) = _rocker_patterns_for_device(s) \cup Diagnostic
    <3>1. ASSUME NEW es \in SUBSET Entity, NEW i \in ButtonPattern \cup Diagnostic
          PROVE  i \in Ids(s, es) <=> [switch |-> s, id |-> i] \in es
      BY DEF Ids, Entity
    <3>2. \A es \in SUBSET Entity : Ids(s, es) \subseteq ButtonPattern \cup Diagnostic
      BY DEF Ids, Entity
    <3>3. _rocker_patterns_for_device(s) \subseteq ButtonPattern
      BY OfferedButtons, PatternsType
    <3>4. QED
      BY <1>1, <2>1, <2>2, <3>1, <3>2, <3>3, SettledEntities
  <2>4. \A e \in listening : e \in registry
    BY <1>1, <2>1, <2>2 DEF IInv, EntitiesFit, Settled, Current
  <2>5. \A e \in registry : e.switch \in DOMAIN rockers
    BY <1>1 DEF IInv, RegistryFits
  <2>6. QED
    BY <2>3, <2>4, <2>5
<1>2. QED
  BY <1>1, Inductive, PTL

\* No step takes an entity out of the registry but those of a removed subentry
\* and the buttons a switch no longer has.
THEOREM PrunesOnlyStale == Spec => OnlyStaleArePruned
<1> DEFINE Stale(e) == e.switch \in DOMAIN rockers' =>
                         e.id \in ButtonPattern \ _rocker_patterns_for_device(e.switch)
<1>1. ASSUME IInv, Next, NEW e \in registry, e \notin registry'
      PROVE  Stale(e)
  <2>1. CASE SetupEvents
    <3>1. PICK s \in Known :
            e \notin _prune_stale_event_entities(registry, s, Patterns(rockers[s]))
      BY <1>1, <2>1 DEF SetupEvents
    <3>2. e.switch = s /\ e.id \in ButtonPattern /\ e.id \notin Patterns(rockers[s])
      BY <3>1, <1>1, Kinds DEF _prune_stale_event_entities
    <3>3. QED
      BY <3>2, OfferedButtons
  <2>2. ASSUME NEW s \in Switch, RemoveSubentry(s) PROVE Stale(e)
    BY <1>1, <2>2 DEF RemoveSubentry
  <2>3. CASE \/ ForwardSetups \/ SetupSensors \/ FinishSetup \/ StartUnload
             \/ FinishUnload \/ DropUnregistered \/ Restart
    BY <1>1, <2>3 DEF ForwardSetups, SetupSensors, FinishSetup, StartUnload, FinishUnload,
                      DropUnregistered, Restart, entities
  <2>4. ASSUME NEW s \in Switch, NEW platform \in Platform, AddEntities(s, platform)
        PROVE  Stale(e)
    BY <1>1, <2>4 DEF AddEntities
  <2>5. ASSUME NEW platform \in Platform, UnloadPlatform(platform) PROVE Stale(e)
    BY <1>1, <2>5 DEF UnloadPlatform
  <2>6. ASSUME NEW s \in Switch, NEW field \in 1..2,
               Commission(s, field) \/ async_step_reconfigure(s, field)
        PROVE  Stale(e)
    BY <1>1, <2>6 DEF Commission, async_step_reconfigure, entities
  <2>7. ASSUME NEW s \in Switch, NEW status \in Status, record_verified_and_fire(s, status)
        PROVE  Stale(e)
    BY <1>1, <2>7 DEF record_verified_and_fire, entities
  <2>8. QED
    BY <1>1, <2>1, <2>2, <2>3, <2>4, <2>5, <2>6, <2>7 DEF Next
<1>2. IInv /\ [Next]_vars =>
        [\A e \in registry \ registry' :
           e.switch \in DOMAIN rockers' =>
             e.id \in ButtonPattern \ _rocker_patterns_for_device(e.switch)]_vars
  BY <1>1
<1>3. QED
  BY <1>2, Inductive, PTL DEF Spec, OnlyStaleArePruned

\* After a step either no telegram was handled last, or the step handled one.
LEMMA LastStep ==
  ASSUME Next
  PROVE  \/ last' = Nothing
         \/ \E s \in Switch, status \in Status : record_verified_and_fire(s, status)
BY DEF Next, ForwardSetups, SetupEvents, SetupSensors, AddEntities, FinishSetup, StartUnload,
       UnloadPlatform, FinishUnload, Commission, async_step_reconfigure, RemoveSubentry,
       DropUnregistered, Restart

\* Whatever bytes are received, those and only those that the manual knows are
\* accepted, and each other one for its own reason.
THEOREM Accepts == Spec => []AcceptsExactlyPhysical
<1>1. Init => AcceptsExactlyPhysical
  BY Zenon DEF Init, AcceptsExactlyPhysical
<1>2. AcceptsExactlyPhysical /\ [Next]_vars => AcceptsExactlyPhysical'
  <2>1. ASSUME NEW s \in Switch, NEW status \in Status, record_verified_and_fire(s, status)
        PROVE  AcceptsExactlyPhysical'
    <3>1. status \in Byte
      BY StatusAssumption
    <3>2. /\ last'.status = status
          /\ last'.reason = IF Decodes(status) THEN Nothing ELSE RejectionReason(status)
      BY <2>1 DEF record_verified_and_fire
    <3>3. QED
      BY <3>1, <3>2, DecodesPhysical, ReasonFits DEF AcceptsExactlyPhysical
  <2>2. QED
    BY <2>1, LastStep DEF AcceptsExactlyPhysical, vars
<1>3. QED
  BY <1>1, <1>2, PTL DEF Spec

\* And what they fire is the button that the manual and the rocker count name.
THEOREM Reaches == Spec => []TelegramReachesItsButton
<1>1. Init => TelegramReachesItsButton
  BY Zenon DEF Init, TelegramReachesItsButton
<1>2. IInv /\ TelegramReachesItsButton /\ [Next]_vars => TelegramReachesItsButton'
  <2>1. ASSUME IInv, NEW s \in Switch, NEW status \in Status,
               record_verified_and_fire(s, status)
        PROVE  TelegramReachesItsButton'
    <3> DEFINE p == normalize_button_pattern(interpret_switch_status(status).pattern,
                                             RockerCount(rockers[s]))
    <3>1. status \in Byte /\ UNCHANGED <<rockers, records, phase, reload, runtime, listening>>
      BY <2>1, StatusAssumption DEF record_verified_and_fire, entry, entities
    <3>2. SUFFICES ASSUME last'.switch \in Known, Settled, Physical(last'.status)
          PROVE  /\ last'.button = ButtonOf(last'.status, RockerCount(rockers[last'.switch]))
                 /\ last'.button \in _rocker_patterns_for_device(last'.switch)
      BY <3>1 DEF TelegramReachesItsButton, Known, Settled, _rocker_patterns_for_device
    <3>3. last'.switch = s /\ last'.status = status
      BY <2>1 DEF record_verified_and_fire
    <3>4. s \in Known /\ Decodes(status)
      BY <3>1, <3>2, <3>3, DecodesPhysical
    <3>5. runtime[s] = RockerCount(rockers[s])
      BY <2>1, <3>2, <3>4, SettledEntities
    <3>6. p = ButtonOf(status, RockerCount(rockers[s])) /\ p \in _rocker_patterns_for_device(s)
      BY <3>1, <3>4, Named, OfferedButtons
    <3>7. p \in ButtonPattern
      BY <3>4, <3>6, OfferedButtons, PatternsType
    <3>8. [switch |-> s, id |-> p] \in listening
      BY <2>1, <3>2, <3>4, <3>6, <3>7, SettledEntities
    <3>9. last'.button = p
      BY <2>1, <3>4, <3>5, <3>8 DEF record_verified_and_fire
    <3>10. QED
      BY <3>3, <3>6, <3>9
  <2>2. CASE UNCHANGED vars
    BY <2>2 DEF vars, entry, entities, TelegramReachesItsButton, Known, Settled,
                _rocker_patterns_for_device
  <2>3. CASE last' = Nothing
    BY <2>3 DEF TelegramReachesItsButton
  <2>4. QED
    BY <2>1, <2>2, <2>3, LastStep
<1>3. QED
  BY <1>1, <1>2, Inductive, PTL DEF Spec
=============================================================================
