---------------------------- MODULE ButtonEntities ----------------------------
(***************************************************************************)
(* event.py, sensor.py and device_trigger.py over Home Assistant's entity  *)
(* registry: which entities of a switch each setup adds and which it       *)
(* prunes, when they hear the switch, which device triggers are offered    *)
(* for it, and which button a verified telegram ends up at. The rocker     *)
(* count of a switch can be reconfigured and its subentry removed at any   *)
(* moment of a setup or an unload. What a setup does before its platforms  *)
(* is that of EntryRestart; what comes between a telegram and its status   *)
(* byte that of ButtonPipeline.                                            *)
(***************************************************************************)
EXTENDS Telegram

CONSTANTS Switch,  \* switches that may be commissioned
          Status,  \* switch-status bytes of verified telegrams
          Nothing  \* no telegram, no button

ASSUME StatusAssumption == Status \subseteq Byte
ASSUME NothingAssumption == Nothing \notin ButtonPattern

VARIABLES
  rockers,    \* the subentries: the "rockers" field of each, 0 if it is missing
  records,    \* the switches of the commissioning store
  phase,      \* of the entry
  reload,     \* whether the update listener has asked for a reload
  waiting,    \* platforms that are still to be set up
  runtime,    \* CommissionedSwitchRuntime.rockers of each switch
  adding,     \* entities given to async_add_entities and not yet added
  registry,   \* the entity registry
  listening,  \* entities that are added, and hear their switch
  last        \* what became of the telegram handled by the last step

entry == <<rockers, records, phase, reload>>
entities == <<waiting, runtime, adding, registry, listening>>
vars == <<entry, entities, last>>

Diagnostic == {"verified", "rejected"}
Entity == [switch : Switch, id : ButtonPattern \cup Diagnostic]
Of(s, ids) == {[switch |-> s, id |-> i] : i \in ids}
Ids(s, es) == {e.id : e \in {x \in es : x.switch = s}}

Platform == {"event", "sensor"}
IdsOf(platform) == IF platform = "event" THEN ButtonPattern ELSE Diagnostic

\* The entities of a switch on a platform, and all of a platform.
Its(es, s, platform) == {e \in es : e.switch = s /\ e.id \in IdsOf(platform)}
OnPlatform(es, platform) == {e \in es : e.id \in IdsOf(platform)}

\* "only exactly 1 means single-rocker": anything else is two rockers.
RockerCount(field) == IF field = 1 THEN 1 ELSE 2
_SINGLE_ROCKER_PATTERNS == {"A0", "A1"}
Patterns(field) == IF RockerCount(field) = 1 THEN _SINGLE_ROCKER_PATTERNS ELSE ButtonPattern

\* The switches a platform's setup does not skip.
Known == DOMAIN rockers \cap records

\* The update listener is there from before the platforms until after them.
HasListener == phase # "unloaded"

\* Anything a crash may have left; no entity without its subentry.
Init ==
  /\ rockers \in UNION {[S -> 0..2] : S \in SUBSET Switch}
  /\ records \in SUBSET Switch
  /\ phase = "unloaded"
  /\ reload = FALSE
  /\ waiting = {}
  /\ runtime = [s \in Switch |-> 2]
  /\ adding = {}
  /\ registry = {}
  /\ listening = {}
  /\ last = Nothing

-----------------------------------------------------------------------------
(* Setup and unload. *)

\* async_setup_entry of __init__.py up to async_forward_entry_setups: a new
\* runtime, and the reconciliation done.
ForwardSetups ==
  /\ phase = "unloaded"
  /\ phase' = "platforms"
  /\ records' = Known
  /\ waiting' = Platform
  /\ runtime' = [s \in Switch |-> 2]
  /\ last' = Nothing
  /\ UNCHANGED <<rockers, reload, adding, registry, listening>>

\* Mutant: the entities of other switches are not left alone.
PruneAnySwitch(es, s, expected) ==
  {e \in es : e.id \notin IdsOf("event") \/ e.id \in expected}

\* Mutant: nor are the sensors.
PruneAnyDomain(es, s, expected) == {e \in es : e.switch # s \/ e.id \in expected}

\* Mutant: async_add_entities is left to see to it.
PruneNothing(es, s, expected) == es

\* What is left of a registry: without the event entities of this switch that are
\* not expected.
_prune_stale_event_entities(es, s, expected) ==
  {e \in es : e.switch # s \/ e.id \notin IdsOf("event") \/ e.id \in expected}

\* Mutant: the runtime keeps the default of two rockers.
SetupDefaultRockers ==
  /\ "event" \in waiting
  /\ waiting' = waiting \ {"event"}
  /\ runtime' = runtime
  /\ adding' = adding \cup UNION {Of(s, Patterns(rockers[s])) : s \in Known}
  /\ registry' = {e \in registry :
       \A s \in Known : e \in _prune_stale_event_entities(registry, s, Patterns(rockers[s]))}
  /\ last' = Nothing
  /\ UNCHANGED <<entry, listening>>

\* async_setup_entry of event.py, for each switch that has subentry and record.
\* There is no await between the entities handed over and those pruned.
SetupEvents ==
  /\ "event" \in waiting
  /\ waiting' = waiting \ {"event"}
  /\ runtime' = [s \in Switch |-> IF s \in Known THEN RockerCount(rockers[s]) ELSE runtime[s]]
  /\ adding' = adding \cup UNION {Of(s, Patterns(rockers[s])) : s \in Known}
  /\ registry' = {e \in registry :
       \A s \in Known : e \in _prune_stale_event_entities(registry, s, Patterns(rockers[s]))}
  /\ last' = Nothing
  /\ UNCHANGED <<entry, listening>>

\* async_setup_entry of sensor.py.
SetupSensors ==
  /\ "sensor" \in waiting
  /\ waiting' = waiting \ {"sensor"}
  /\ adding' = adding \cup UNION {Of(s, Diagnostic) : s \in Known}
  /\ last' = Nothing
  /\ UNCHANGED <<entry, runtime, registry, listening>>

\* Home Assistant adds the entities of a call, which awaits nothing in between.
\* Those of a subentry that is gone meanwhile are refused.
AddEntities(s, platform) ==
  LET new == Its(adding, s, platform)
  IN  /\ new # {}
      /\ adding' = adding \ new
      /\ IF s \in DOMAIN rockers
         THEN registry' = registry \cup new /\ listening' = listening \cup new
         ELSE UNCHANGED <<registry, listening>>
      /\ last' = Nothing
      /\ UNCHANGED <<entry, waiting, runtime>>

\* async_forward_entry_setups has returned, and the Bluetooth callback is
\* registered.
FinishSetup ==
  /\ phase = "platforms"
  /\ waiting = {}
  /\ adding = {}
  /\ phase' = "loaded"
  /\ last' = Nothing
  /\ UNCHANGED <<rockers, records, reload, entities>>

\* _async_subentries_changed reloads: async_unload_entry begins.
StartUnload ==
  /\ phase = "loaded"
  /\ reload
  /\ phase' = "unloading"
  /\ reload' = FALSE
  /\ last' = Nothing
  /\ UNCHANGED <<rockers, records, entities>>

\* One platform is unloaded: async_will_remove_from_hass of its entities.
UnloadPlatform(platform) ==
  /\ phase = "unloading"
  /\ OnPlatform(listening, platform) # {}
  /\ listening' = listening \ OnPlatform(listening, platform)
  /\ last' = Nothing
  /\ UNCHANGED <<entry, waiting, runtime, adding, registry>>

\* With the platforms unloaded the Bluetooth callback and the update listener go.
FinishUnload ==
  /\ phase = "unloading"
  /\ listening = {}
  /\ phase' = "unloaded"
  /\ last' = Nothing
  /\ UNCHANGED <<rockers, records, reload, entities>>

-----------------------------------------------------------------------------
(* The user, the radio, and a restart of Home Assistant. *)

\* The wizard has saved its record and returns its subentry.
Commission(s, field) ==
  /\ HasListener
  /\ s \notin records \cup DOMAIN rockers
  /\ records' = records \cup {s}
  /\ rockers' = [x \in DOMAIN rockers \cup {s} |-> IF x = s THEN field ELSE rockers[x]]
  /\ reload' = TRUE
  /\ last' = Nothing
  /\ UNCHANGED <<phase, entities>>

\* Mutant: the change waits for the next reload.
ReconfigureQuietly(s, field) ==
  /\ s \in DOMAIN rockers
  /\ rockers' = [rockers EXCEPT ![s] = field]
  /\ last' = Nothing
  /\ UNCHANGED <<records, phase, reload, entities>>

\* A new rocker count, or name or threshold, takes effect by a reload.
async_step_reconfigure(s, field) ==
  /\ s \in DOMAIN rockers
  /\ rockers' = [rockers EXCEPT ![s] = field]
  /\ reload' = (reload \/ HasListener)
  /\ last' = Nothing
  /\ UNCHANGED <<records, phase, entities>>

\* Home Assistant takes the entities of a removed subentry out of its registry.
RemoveSubentry(s) ==
  /\ s \in DOMAIN rockers
  /\ rockers' = [x \in DOMAIN rockers \ {s} |-> rockers[x]]
  /\ registry' = {e \in registry : e.switch # s}
  /\ reload' = (reload \/ HasListener)
  /\ last' = Nothing
  /\ UNCHANGED <<records, phase, waiting, runtime, adding, listening>>

\* An entity out of the registry is removed some time later.
DropUnregistered ==
  /\ ~ (listening \subseteq registry)
  /\ listening' = listening \cap registry
  /\ last' = Nothing
  /\ UNCHANGED <<entry, waiting, runtime, adding, registry>>

\* The end of _process_verified_telegram: record_verified_and_fire, and
\* _handle_button_event of the entity that listens for the button; it fires the
\* bus event that device triggers are filtered from.
record_verified_and_fire(s, status) ==
  /\ phase \in {"loaded", "unloading"}
  /\ s \in records
  /\ last' =
       IF Decodes(status)
       THEN LET p == normalize_button_pattern(interpret_switch_status(status).pattern,
                                              runtime[s])
            IN  [switch |-> s, status |-> status, reason |-> Nothing,
                 button |-> IF [switch |-> s, id |-> p] \in listening THEN p ELSE Nothing]
       ELSE [switch |-> s, status |-> status, reason |-> RejectionReason(status),
             button |-> Nothing]
  /\ UNCHANGED <<entry, entities>>

Restart ==
  /\ phase' = "unloaded"
  /\ reload' = FALSE
  /\ waiting' = {}
  /\ adding' = {}
  /\ listening' = {}
  /\ last' = Nothing
  /\ UNCHANGED <<rockers, records, runtime, registry>>

Next ==
  \/ ForwardSetups
  \/ SetupEvents
  \/ SetupSensors
  \/ \E s \in Switch, platform \in Platform : AddEntities(s, platform)
  \/ FinishSetup
  \/ StartUnload
  \/ \E platform \in Platform : UnloadPlatform(platform)
  \/ FinishUnload
  \/ \E s \in Switch, field \in 1..2 : Commission(s, field) \/ async_step_reconfigure(s, field)
  \/ \E s \in Switch : RemoveSubentry(s)
  \/ DropUnregistered
  \/ \E s \in Switch, status \in Status : record_verified_and_fire(s, status)
  \/ Restart

Spec == Init /\ [][Next]_vars

-----------------------------------------------------------------------------

TypeOK ==
  /\ rockers \in UNION {[S -> 0..2] : S \in SUBSET Switch}
  /\ records \subseteq Switch
  /\ phase \in {"unloaded", "platforms", "loaded", "unloading"}
  /\ reload \in BOOLEAN
  /\ waiting \subseteq Platform
  /\ runtime \in [Switch -> 1..2]
  /\ adding \subseteq Entity
  /\ registry \subseteq Entity
  /\ listening \subseteq Entity

\* _rocker_patterns_for_device of device_trigger.py: the buttons for which
\* triggers are offered and accepted. It looks at the subentries only.
_rocker_patterns_for_device(s) ==
  IF s \in DOMAIN rockers
  THEN IF rockers[s] = 1 THEN _SINGLE_ROCKER_PATTERNS ELSE ButtonPattern
  ELSE {}

Settled == phase = "loaded" /\ ~reload

\* A device trigger is offered for a button exactly if the button's entity, the
\* only one that fires what the trigger waits for, is registered and hears the
\* switch: whatever was reconfigured, added or removed while platforms were set
\* up or unloaded, once no reload is due the two agree. An entity of a removed
\* subentry is neither registered nor, in the end, left listening.
TriggersHaveEntities ==
  Settled =>
    /\ \A s \in Known :
         /\ Ids(s, registry) \cap ButtonPattern = _rocker_patterns_for_device(s)
         /\ Ids(s, listening) = _rocker_patterns_for_device(s) \cup Diagnostic
    /\ \A e \in registry : e.switch \in DOMAIN rockers
    /\ \A e \in listening : e \in registry

\* What the user sees of an entity in the registry -- its name, its area, the
\* automations that refer to it -- is never lost while it stays an entity: what
\* leaves the registry is of a removed subentry, or the button of a second
\* rocker that the switch no longer has.
OnlyStaleArePruned ==
  [][\A e \in registry \ registry' :
       e.switch \in DOMAIN rockers' =>
         e.id \in ButtonPattern \ _rocker_patterns_for_device(e.switch)]_vars

\* An independent reading of Figure 16 of the manual: the contacts that a status
\* byte reports closed, one per button bit.
Contact == {"A0", "A1", "B0", "B1"}
BitValue(c) == CASE c = "A0" -> 2 [] c = "A1" -> 4 [] c = "B0" -> 8 [] c = "B1" -> 16
Closed(status) == {c \in Contact : (status \div BitValue(c)) % 2 = 1}

Upper == {"A0", "B0"}
Lower == {"A1", "B1"}

\* What one energy bow can do: some contact, and all of them on one side.
Physical(status) ==
  /\ status < 32
  /\ Closed(status) # {}
  /\ Closed(status) \subseteq Upper \/ Closed(status) \subseteq Lower

\* The button of a closed contact or of two, and of one wide plate: on that, where
\* it is seated and pressed decides which contacts close, its half decides which
\* button is meant.
ButtonOf(status, count) ==
  IF count = 1
  THEN IF Closed(status) \subseteq Upper THEN "A0" ELSE "A1"
  ELSE IF Closed(status) = Upper THEN "A0+B0"
  ELSE IF Closed(status) = Lower THEN "A1+B1"
  ELSE CHOOSE c \in Contact : Closed(status) = {c}

\* interpret_switch_status accepts exactly the bytes a rocker can produce, and
\* gives each other byte the reason that fits it.
AcceptsExactlyPhysical ==
  last # Nothing =>
    last.reason =
      IF Physical(last.status) THEN Nothing
      ELSE IF last.status >= 32 THEN "reserved_bits"
      ELSE IF Closed(last.status) = {} THEN "no_button_bit"
      ELSE "unsupported_button_combination"

\* What a telegram fires is the button the manual says was moved, as the switch's
\* rocker count names it, a button a trigger can wait for: so press and release
\* of one half of a wide plate meet under one button, and the halves never do.
\* Once no reload is due, every telegram of a switch with a subentry arrives.
TelegramReachesItsButton ==
  last # Nothing /\ last.switch \in Known /\ Settled /\ Physical(last.status) =>
    /\ last.button = ButtonOf(last.status, RockerCount(rockers[last.switch]))
    /\ last.button \in _rocker_patterns_for_device(last.switch)

\* The inductive invariant. Unless a reload is due, what is listening or will be
\* is what the platforms set up so far have to offer, and nothing else is in the
\* registry; and no entity outlives its subentry there.
Current == phase \in {"platforms", "loaded"} /\ ~reload

Offered(e) ==
  /\ e.switch \in Known
  /\ e.id \in IdsOf("event") => e.id \in Patterns(rockers[e.switch])

SetUp(e) == \A platform \in waiting : e.id \notin IdsOf(platform)

PhasesFit ==
  /\ phase # "platforms" => waiting = {} /\ adding = {}
  /\ phase = "unloaded" => listening = {}

EntitiesFit ==
  Current =>
    /\ \A e \in Entity :
         /\ e \in listening \cup adding <=> Offered(e) /\ SetUp(e)
         /\ e \in listening => e \in registry
         /\ e \in registry /\ e.switch \in Known /\ SetUp(e) => Offered(e)
    /\ "event" \notin waiting =>
         \A s \in Known : runtime[s] = RockerCount(rockers[s])

RegistryFits == \A e \in registry : e.switch \in DOMAIN rockers

IInv ==
  /\ TypeOK
  /\ PhasesFit
  /\ EntitiesFit
  /\ RegistryFits
=============================================================================
