# enocean_ptm216b: a TLA+ development

`enocean_ptm216b` is a Home Assistant integration for the EnOcean PTM 216B, a
battery-less Bluetooth rocker switch. It listens passively, authenticates each
telegram, checks its replay counter against a counter kept on disk, and turns it
into button events and short and long presses. The modules here model that path,
the entities and device triggers at its end, the captures and the wizard by which
a user identifies and commissions a switch, the radio census, and the life of the
config entry that owns them all, with its migration, its reloads and crashes.
TLC checks the models on small instances; TLAPS proves the results of section 5
for every value of the constants.

All paths below are relative to `src/custom_components/enocean_ptm216b/` unless
they start with a directory of the repository.

## 1. The system

| Component | State it keeps | Operations | Modelled in |
|---|---|---|---|
| Button pipeline (`button_pipeline.py`, `replay_guard.py`) | per switch a lock and two counts (`runtime_data.py`) | advertisement callback, one task per verified telegram | `ButtonPipeline` |
| Commissioning store (`commissioning_store.py`) | cache of key, name and counter per address; one file | load, add, remove, set counter, save of the whole cache | `ButtonPipeline`, `EntryLifecycle`, `EntryRestart` |
| Decoder (`telegram.py`) | none | status check, one-rocker normalisation | `Telegram`, checked in `ButtonEntities` |
| Press tracker (`press_timing.py`) | open presses, hold timers, listeners | press, release, hold timer, clear | `PressTiming`, `PressPipeline` |
| Event entities (`event.py`) and device triggers (`device_trigger.py`) | entity registry (Home Assistant's), listeners, the runtime's rocker count | setup, pruning, adding, removing; list and validate triggers | `ButtonEntities`; scheduler and listeners also in `PressTiming` |
| Capture sessions (`runtime_data.py`, `evidence_capture.py`, `radio_census.py`) | three sessions, their timers, one Bluetooth callback | start, cancel, observe, timers | `CaptureSessions` |
| Radio census (`radio_census.py`) and its sensor (`sensor.py`) | buckets per manufacturer ID, caps, truncation, what the sensor wrote | start, cancel, record, end of a window | `RadioCensus` |
| Flows (`config_flow.py`) | a wizard's step, progress task and form | detect, fail, enter a key, commit, close; start captures; reconfigure | `DetectFlow`; its effects also in `EntryLifecycle`, `EntryRestart`, `ButtonEntities` |
| Entry lifecycle (`__init__.py`) | runtime object, version, subentries | migrate, set up, reconcile, reload, unload | `EntryLifecycle`, `EntryRestart` |
| Input and QR parsing, cryptography, secret store, designated sessions | none of their own, or written once | parsing, hashing | not modelled (section 8) |

How they interact. The entry's Bluetooth callback runs on the event loop for each
advertisement. It feeds the capture sessions and, for a commissioned address, the
pipeline's synchronous gates (length, MIC). A verified telegram becomes a task.
The task takes the switch's lock, reads the counter from the store's cache,
advances it, awaits a save, decodes the status byte, and calls the tracker in
`record_verified_and_fire`. The tracker starts or cancels a hold timer with
`async_call_later` and tells the listener of the button's event entity, which fires
the bus event that device triggers filter. The wizard detects a switch through the
designation of the capture sessions, adds a record to the store, saves, and
returns; Home Assistant then adds a subentry, whose update listener reloads the
entry. A reload discards the runtime object, builds a new store over the same file,
purges records without subentry, and sets up the entities anew.

What is hard in it: concurrent copies of one telegram (each is sent on three
channels) around an await; a shared payload written by several tasks; a crash
between cache, file and event, or between the private file and Home Assistant's
file of entries; lost presses and releases; timers that run late; captures and
wizards that replace and cancel one another; reloads that overtake tasks and saves;
a switch reconfigured while its platforms are being set up; caps that leave things
out. The `hazards` of `PROJECT.json` list each at its line.

## 2. Modules

| Module | Models | Extends / instantiates |
|---|---|---|
| `Telegram` | pure functions of `telegram.py` | |
| `ReplayGate` | abstract: a durable counter that only rises, events newer than all before | `Telegram` |
| `ButtonPipeline` | gates, tasks, lock, store, file, failed saves, restarts | `Telegram`; implements `ReplayGate` |
| `Gestures` | abstract: what a button's listener is promised | |
| `PressTiming` | the press tracker and its timers | `Telegram`; implements `Gestures` |
| `PressPipeline` | one switch's pipeline feeding its tracker | `ButtonPipeline`; instantiates `PressTiming` |
| `ButtonEntities` | entities, registry, triggers, and the decoder they hang on | `Telegram` |
| `CaptureSessions` | designation, evidence, census, and their exclusion | |
| `DetectFlow` | any number of wizards over those captures | `CaptureSessions` |
| `RadioCensus` | what a census counts, keeps, drops and shows | |
| `EntryLifecycle` | setup, reconciliation, reload and unload over one file, reloads overtaking saves | |
| `EntryRestart` | migration, setup and removal over two files, with crashes and failures | |
| `CaptureProofs` | theorems about `CaptureSessions` and `DetectFlow` | `DetectFlow`, `TLAPS` |
| `PressPipelineProofs` | theorems about the composition | `PressPipeline`, `ButtonPipelineProofs`; instantiates `PressTimingProofs` |
| other `*Proofs` | theorems about the module of that name, six of them | that module, `TLAPS` |
| `MC*` | small instances | the module of that name |

Definitions keep the names of the code where they stand for one of its functions.
A definition commented *Mutant* is not part of a model: it is a faulty variant of
the definition after it, kept to show which property would notice the fault. Each
property of a passing run has at least one, listed in `PROJECT.json`.

### ButtonPipeline

`cache` and `disk` are the store's dictionary and its file; a switch's value is its
counter, `NoCounter` (commissioned, counter `None`) or `NoRecord`. `queue[s]` holds
the telegrams whose task has not ended. `asyncio.Lock` is fair, so the head's task
is the lock's holder or next holder, and `stage[s]` says which await it is in.
`writes` holds the saves asked for, each with the payload taken at the call.

`RejectAdvertisement` and `CreateTask` are `handle_advertisement`. `FirstTrust`,
`Accept` and `RejectReplay` run from the lock to the first await or the end.
`WriteDone` and `WriteFails` end a save; `FinishFirstTrust`, `Fire`, `RejectStatus`
and `SaveRaised` are what the task does when it is resumed. `Restart` is a stop or
crash of Home Assistant at any point.

### PressTiming and PressPipeline

`open` is `PressTimingTracker._open`; an `_OpenPress` object's identity is the number of
the button state that made it. With `ReliableCancel` FALSE a cancelled timer may
still run, which is what the identity test of `_fire_long_press` is for; with TRUE,
as `async_call_later` behaves, it does not. `scheduler` FALSE is the tracker of a
switch added by a wizard before the reload. `PressPipeline` replaces the abstract
feeding of button states by `Fire` of `ButtonPipeline`.

In `PressPipeline` the tracker starts as `runtime_data.py` makes it, without scheduler
and listeners: `async_add` puts a record in the cache before anything is set up for the
switch, and its telegrams fire from then on. `SaveDone` gives the switch its
subentry when the wizard's save has returned; after one that raised there is none,
and so no setup for it. `SetUpAll` is `async_setup_entry` of `event.py` (with what the
reconciliation lets through): it starts a session with a new tracker, configured if
the file has the record. It stands for a restart and for a reload that finds no task
and no save under way; a reload that overtakes some is `EntryLifecycle`'s, and a
record without subentry, which it would purge, is `EntryRestart`'s. `RemoveEntity` is
an entity going away in the unload before it. `fresh` is a history of where the
session's events begin.

`RawHeardIsWhatFired` says that the raw actions a listener has heard and the events its
button fired in the session, from the first one on, are the same sequence, and
that none is missing while the button has its listener. It says so by a
matching of the places of the one with the places of the other that keeps their
order and leaves no gap, which can be reasoned about one step at a time.

### ButtonEntities

`rockers` is the subentries' field of that name, a partial function of the switches (0
if the field is missing, as in an old entry), `records` the store's switches,
`runtime` the rocker count that `event.py` hands to the runtime. `registry` is Home
Assistant's entity registry, `adding` the entities handed to `async_add_entities` and
not added yet, `listening` those that have run `async_added_to_hass`.

`ForwardSetups` is `async_setup_entry` up to `async_forward_entry_setups`; the two
platforms then run in any order. `SetupEvents` is all of `event.py`'s
`async_setup_entry`, the pruning included: there is no await in it. `AddEntities` and
`UnloadPlatform` are what Home Assistant does with the entities, `RemoveSubentry`
what it does with the registry; `DropUnregistered` removes an entity whose registry
entry is gone. `async_step_reconfigure`, `Commission` and `RemoveSubentry` may come
at any of these moments. `record_verified_and_fire` takes any status byte and
records in `last` which button's entity heard of it.
`_rocker_patterns_for_device` is the trigger side, a second table in a second file.

### CaptureSessions

`designation`, `evidence` and `census` are records of the fields of the three sessions.
`pending` counts how often each timer callback is still due, independently of the
handles the sessions hold, so that a timer that was lost without being cancelled
shows. `registered` counts unfiltered Bluetooth callbacks. `heard` is a history of
what each window of the running designation heard. An observation count matters
only up to `MINIMUM_DESIGNATION_OBSERVATIONS`.

`start_evidence_capture` would also cancel a running designation
(`runtime_data.py:399-400`), but it is refused while none is designated, and nobody
is designated while a designation runs (`NothingKept`): that branch cannot be reached.
The action keeps it as the code has it.

### DetectFlow

`wizard` is the step each flow shows, with its progress task and the device of the
submitted form. `async_step_detect` is called when a task is done (`Progress`) or
whenever the frontend asks; it reads the designation as it is by then, whoever
started it. Home Assistant deletes the runtime of an entry it unloads, so that a call
before the next one is made raises on the step's second line; the flow manager
calls once for a task that is done, and if that is the call, the task is "spent"
(`DetectRaises`) and the wizard goes on when the frontend asks again. A submitted
form waits for the decoding of its photo, and everything may happen meanwhile: a
new designation, another wizard, a reload. `RemoveFlow` is
`async_remove`, which the flow manager runs for every flow that ends, and which
cancels whatever designation is running: also that of the user or of another
wizard. `owner` is a history of who started the last one.

### RadioCensus

`buckets` is `RadioCensus._buckets`; `heard` is a history of all that this census was
given, from which the properties say what the buckets should be. A step of
`record_advertisement` stands for one call with any set of manufacturer IDs; which keys get
a bucket when not all fit is the order of a dict, left open, and so is the order
of equals in the sensor's ranking. `sensor` is what the sensor wrote last, by the
notification each step makes or fails to make. When windows begin and end is
`CaptureSessions`' matter.

### EntryLifecycle and EntryRestart

Two questions about the entry, and two models. `EntryLifecycle` asks what goes wrong
when a reload overtakes something. A generation is one run of `async_setup_entry`, with
a store, tasks and trackers of its own over the one file; the unload cancels neither
tasks nor saves of its generation. The setups in `Overtaking` may be unloaded
while some are under way; `overlap` is the history of that having happened.
What a telegram does to the counter is abridged from `ButtonPipeline`. `removed` and
`events` are histories; a switch that is commissioned again starts its events anew,
since its counter is trusted afresh.

`EntryRestart` asks what crashes and failures do to the agreement of the private file
(`file`) and Home Assistant's file of entries (`stored`), which is written some time
after the entry changed. It starts from any entry of version 1, with or without
subentries, and from a new one; it has the migration, every await of setup and
reconciliation, loads and saves that raise, and a crash anywhere. Here a reload
waits for saves. Three histories say which removals bind: `removed`, less the
`waived` ones (a wizard has put the switch into the cache again, or the entry was still
to be migrated, so that its record makes a subentry again), and `missed`, those that
came during the reconciliation, when no listener is registered yet.

## 3. Runs

| Run | Shows | Bounds |
|---|---|---|
| `PipelineTwoSwitches` | whole-cache saves of two switches never take a counter back; `ReplayGate` is implemented; the inductive invariant | 2 switches, 2 counters, one valid and one invalid status byte, 2 telegrams each per restart |
| `PressPipeline` | durable before the event, at most once and in order, every telegram counted once; a listener, while it is there, hears what was fired, and nobody hears of a switch that no setup has seen; no short press without its press and release; every task ends | 1 switch, 3 counters, a press, a release and an invalid byte, 3 telegrams per restart |
| `PressTiming` | `Gestures` is implemented even if cancelled timers run, timers match open presses, and a held press is resolved | 2 patterns (a button and a combination), 3 button states |
| `ButtonEntities` | triggers, entities and telegrams agree once no reload is due; only stale entities are pruned; the decoder reads a byte as Figure 16 of the manual does | 2 switches; all 32 bytes without reserved bits, one with each reserved bit, and 255 |
| `Captures` | exclusion, exact timers and callbacks, designation by a sole voice, no result taken away; no detection goes on for nobody, a wizard commits what was heard, captures end, and detections too unless their call came while the entry was unloaded | 2 devices, 1 wizard, the real minimum of 3 observations, 2 evidence records (code: 64) |
| `RadioCensus` | counts complete, truncation reported, identifiers counted and dropped, the sensor current and true | 3 keys for 2 buckets, 2 short UUIDs for 1 place, 1 entry displayed, 2 devices, 3 advertisements per key |
| `Reload` | reloads between tasks keep file, subentries, timers and events consistent; what still holds when the first reload overtakes tasks and saves | 2 switches, 2 counters, 3 setups of which the first may be overtaken |
| `EntryRestart` | no switch lost, no removed one back, setup succeeds after faults, reloads end with the changes that asked for them; the inductive invariant | 2 switches, 3 saves under way at a time |
| `LongPressHeld`, `OverlapRemoved`, `OverlapAdded`, `PurgedUnasked` | findings, section 6 | 1 switch; 3 counters and telegrams; 2 setups; 1 save |

Why the bounds are enough for what the properties tell apart. Counters are only
compared: three values give a baseline, an accepted counter and a later one, with
each as a replay of another. Three telegrams give a copy on top of two accepted
ones. Restarts are not bounded: `MaxReceived` starts again with each. Two switches are
the least that share a payload, or a registry. Three button states give a press, a
press that orphans it or its release, and another state while the stale timer of the
first waits (the identity test never looks at more than one open press and one
timer). Two devices are a sole candidate and a second voice. Only the last evidence
record and the ones before it differ, so two stand for any limit. One wizard: a
second one acts on the first only by starting and cancelling the designation, and
`StartByHand` and `ReconfigureRemoved` do the same at any moment; a run with two
wizards is too large, and the theorems of `CaptureProofs` cover the safety
properties for any number. A census cap is reached by one key more than it has
places. Three setups let a save outlive one reload and meet the next; the findings
need only two. In `ButtonEntities` the bytes left out differ from one of those taken by
their reserved bits alone; its theorems cover all 256.

`CHECK_DEADLOCK FALSE` stands where a bound stops the system (all telegrams received,
all button states fed, all setups made) or where nothing need happen; the model
of the captures never stops and is checked for deadlock.

## 4. Fairness

- `ButtonPipeline!Fairness`, in `PressPipeline`'s run: weak fairness of each switch's task
  and of the end of a save. The event loop runs every ready task, a fair lock is
  handed on, and a save returns or raises. Nothing is assumed of radio, user, hold
  timers or restarts.
- `PressTiming!FairSpec`: weak fairness of the hold timers of each pattern: the event
  loop runs what is due.
- `DetectFlow!DetectFairSpec`: weak fairness of the capture timers together (at most one
  capture runs, so this is no more than that its one timer runs) and of each wizard's
  `Progress`: its task ends, and the flow manager calls the step once for each task
  that is done, which need not be after the timer has run. `EveryCaptureEnds` and
  `DetectionEnds` are conditional on no further captures being started. The one call for
  a task may come while there is no runtime, and raise; nothing obliges the frontend
  to ask again, so `DetectionEnds` excepts the wizards this has happened to.
- `EntryRestart!FairSpec`: weak fairness of the setup's own steps, of the reload that the
  update listener was asked for, and of the end of a save: they are tasks of the
  event loop. Trying again what failed is the user's: `SetupSucceeds` asks that
  faults end and that what failed is tried again, `ReloadsEnd` that user, radio and
  faults are quiet, and excepts a setup that failed.

## 5. Proofs

| Module | Theorems (property) | For any |
|---|---|---|
| `ButtonPipelineProofs` | `TypeCorrect`, `NeverFallsBack` (`DiskNeverFallsBack`), `DurableFirst` (`DurableBeforeEvent`), `AtMostOnce` (`EventsStrictlyRise`), `FirstTrustIsSilent` (`EventsHaveBaseline`), `CountedOnce` (`EachTelegramCountedOnce`), `Inductive` (`IInv`), `ImplementsGate` (`GateSpec`) | switches, natural counters, telegrams, restarts, failed saves |
| `PressTimingProofs` | `TypeCorrect`, `TimersCorrect` (`TimersMatchOpenPresses`), `KeepsPromise` (`GesturesSpec`) | patterns, rockers, reliable cancel or not |
| `ButtonEntitiesProofs` | `TypeCorrect`, `Inductive`, `TriggersAgree` (`TriggersHaveEntities`), `PrunesOnlyStale` (`OnlyStaleArePruned`), `Accepts` (`AcceptsExactlyPhysical`), `Reaches` (`TelegramReachesItsButton`) | switches, status bytes |
| `PressPipelineProofs` | `ImplementsPipeline`, `DurableBeforeHeard` (`DurableBeforeEvent`), `HeardAtMostOnce` (`EventsStrictlyRise`), `StillCountedOnce` (`EachTelegramCountedOnce`), `TimersStayWithPresses` (`Tracker!TimersMatchOpenPresses`), `ShortPressBetweenItsTelegrams` (`ShortPressIsBacked`), `HeardIsWhatFired` (`RawHeardIsWhatFired`) | counters, status bytes, rockers, telegrams, restarts |
| `CaptureProofs` | of the captures `Inductive`, `TypeCorrect`, `MutualExclusion` (`OneCaptureAtATime`), `NoStrayTimer` (`TimersMatchPhases`), `PassiveOutsideCensus` (`HearsAllOnlyForCensus`), `DesignationIsUnambiguous` (`DesignatedIsSole`), `NothingIsKept` (`NothingKept`), `EvidenceIsOfDesignated` (`EvidenceOfDesignated`), `ResultsAreSafe` (`ResultsSurvive`); of the wizards `FlowsImplementCaptures`, `DetectTypes`, `NoneGoesOnForNobody` (`DetectionHasWizard`), `DetectedIsWhatWasHeard` (`CommitsWhatWasHeard`) | devices, minimum, record limit, wizards |
| `EntryLifecycleProofs` | `Inductive`, `TypeCorrect`, `RisesWithinGeneration` (`EventsRiseWithinGeneration`), `OnlyRemovedIsStale` (`StaleMeansRemoved`), `ReloadsInOrder` (`OrderlyReload`), `CountersNeverFallBack` (`ReplayStateNeverFallsBack`) | switches, counters, number of setups, choice of those that may be overtaken |
| `EntryRestartProofs` | `Inductive` (`IInv`), `SwitchesSurvive` (`NothingLost`), `RemovalIsFinal` (`RemovedStaysGone`) | switches, saves under way |
| `RadioCensusProofs` | `Inductive`, `CompleteCounts` (`CountsAreComplete`), `CapsAreReported` (`TruncationIsReported`), `IdentifiersAreDiscarded` (`DevicesCountedNotKept`), `Truthful` (`SensorTellsTruth`), `SensorCurrent` (`SensorIsCurrent`) | finite sets of keys, devices and short UUIDs, any caps |

Assumptions are only those named in the modules: counters and limits are natural
numbers, what stands for "nothing" is not a switch, device or button,
`EntryLifecycle` makes at least one setup, `PressPipeline` has the one switch it is the
composition of, and `RadioCensus` counts finite sets.

The arguments.

- *Pipeline.* That an event is durable needs that the resumed task's counter is in the
  file, which needs that the save that ended was this task's, that it carried this
  task's counter, and that no later save had taken it back. Hence the chain: a held
  lock has a holder and a save in flight has exactly one task waiting for it
  (`LockHasHolder`, `SaveHasTask`); the holder's counter is the cache's (`HeadInCache`);
  file, snapshots in order, and cache rise (`RisingChain`); a save carries its task's
  counter (`OwnSave`); so a returned save is in the file (`SavedIsDurable`). With it,
  events lie below the counter being accepted (`EventsBelowHead`), and every counter
  comes from a first trust (`CountersHaveBaseline`).
- *Tracker.* Numbers of presses and timers have been given out, zero stands for
  neither, and the timer of the open press runs once: only then does a stale timer
  fail the identity test.
- *Composition.* Each of its steps is a step of the pipeline or leaves it alone, so the
  pipeline's theorems hold of it. The tracker's invariant is taken over by instantiating
  `PressTimingProofs` (that the decoder reports button patterns discharges its
  assumption) and holds of each new tracker a setup makes (`NewTracker`), which is
  not a step of the tracker. With it, while a button has its listener, a press that is
  open and unreported is the last thing heard (`PendingHeard`), so that a short
  press follows its press at once; a new tracker has told nothing (`NothingTold`). And
  each event fired adds exactly one place to the raw actions of its own button, the
  last one (`AddsRaw`), by which the matching of `RawHeardIsWhatFired` grows
  (`MatchesExtended`) as long as a listener is there (`FollowsHeard`), and stays the
  beginning it is when there is none (`FollowsUnheard`); no other step adds a place
  (`RawLongPress`, `PipelineStepFiresNothing`), and a setup starts with nothing fired and
  nothing heard (`RawSetUp`).
- *Entities.* While no reload is due, what listens or is about to be added is exactly
  what the platforms set up so far have to offer, and the registry holds nothing
  else of their switches (`EntitiesFit`); no entity in the registry outlives its subentry
  (`RegistryFits`). Whatever disturbs this sets `reload`, and a setup restores it. The
  decoder is proved by splitting a byte into its bits.
- *Captures and wizards.* The control part of `IInv` (exclusion, handles, timers,
  callback) is proved without the data; a due callback then determines the phase
  (`DuePhase`), from which the data part follows. Every step of a wizard is a step of
  the captures or a stutter, so all of it holds under the wizards; what is added is
  that the owner of a running designation shows its progress.
- *Entry.* What must be kept is in the file, in every save and in the cache
  (`KeptEverywhere`), so that no crash can lose it whichever save was last; the two copies
  of the entry differ only by additions and removals (`EntriesAgree`); only what is being
  removed is in the file and not in the cache, until a removal raises (`FileFollowsCache`); and a removal is seen
  by the setup, by a reload, or was missed (`RemovalsBind`).
- *Overlapping reloads.* The invariant of `EntryLifecycle` is in `EntryLifecycleProofs`, in
  two parts. Some of it holds whatever is overtaken: a generation that cannot hear yet
  has done nothing (`NothingTooEarly`), a task's counter is in its own cache and its save
  is the one it awaits (`TasksAwaitSaves`), the generation in charge is not behind what
  it has heard (`EventsBehindRecord`), and a record without subentry or removal is a
  wizard's whose save is under way (`RecordsAreKnown`); from this
  `EventsRiseWithinGeneration` and `StaleMeansRemoved` follow. The rest, `Orderly`, holds
  while no reload has overtaken anything: only the generation in charge has tasks and
  saves (`OthersIdle`), its last save makes the file what its cache is (`LastSaved`), so
  that the next setup reads what the one before it knew; no save takes a counter back
  (`SavesRise`), records and subentries differ only by what is being removed or added
  (`RecordsFollowSubentries`), and no event is ahead of its record
  (`AllEventsBehindRecord`). The four conjuncts of `OrderlyReload` need all of it, and each
  fails alone with an overlap (section 6).
- *Census.* A cap at which something was lost stays reached (`LostAtCap`), so that nothing is
  ever counted from the middle, and the sensor shows the census for some ranking
  of equals (`SensorShowsCensus`). `SensorIsCurrent` follows, since the sum it shows is over
  buckets that miss nothing (`CountsAreComplete`).

Only model-checked: liveness (`QueueDrains`, `HeldPressResolves`, `EveryCaptureEnds`,
`DetectionEnds`, `SetupSucceeds`, `ReloadsEnd`), since fairness and `ENABLED` are out of the
prover's reach. Every invariant and action property of a passing run is also stated by
a theorem. `TimersMatchOpenPresses` is checked where a cancelled timer may still run; its
second half, that there is no other timer, is about a reliable cancel, and is what
`TimersCorrect` and `TimersStayWithPresses` prove.
The invariant of `EntryLifecycle` held on the constants of `Reload` and on those
with no setup, the second, or both in `Overtaking` before it was proved. The proof
changed the model once: `WizardHas` had let a wizard work in a generation still to come.

## 6. Where code and documents disagree

Four runs are expected to find a violation. Each checks a sentence of the
repository's own.

1. `LongPressHeld`. `README.md:388` of the repository: a long press means the button is
   *still held down*. The release reaches the tracker only after its save; a hold
   timer that runs meanwhile reports a long press of a button whose release has been
   received and verified.
2. `OverlapRemoved`. `README.md:219` of the repository: removing a switch deletes both
   permanently. A late save of the old store writes the record back.
3. `OverlapAdded`. `config_flow.py:470-474`: the new subentry leads to a reload. If it is
   added while the entry is being reloaded, nobody listens, and the new store does not
   know the switch.
4. `PurgedUnasked`. `__init__.py:150-154`: a record without subentry can only mean that
   the user removed the switch. Home Assistant may stop after the wizard's save and
   before the subentry is stored: the next setup purges a switch just commissioned.

Points 2 and 3 need a save that is still under way while the entry is reloaded:
a matter of milliseconds, but a reload is what each commissioning ends with. With such
an overlap two more promises fail, which `OrderlyReload` and `ReplayStateNeverFallsBack`
therefore state without it: a task resumed after the unload starts a hold timer,
although `runtime_data.py:570-572` says that no timer outlives the entry, and the late
save can take the counter of a switch in the file back. What is not lost even then
is that no event of an unloaded setup is heard, and that the reconciliation purges
nothing but what the user removed (`EventsRiseWithinGeneration`, `StaleMeansRemoved`).

Smaller points without a run. `device_trigger.py:73-74` says that it mirrors `event.py`'s
filtering exactly, but `event.py` also asks for a store record: a subentry without one
(point 3) is offered triggers that nothing fires. `TriggersHaveEntities` speaks of
switches that have both. And a new name given by reconfigure does not reach the
device, since entities take the store's name (`event.py:138`). A removal during the
reconciliation is missed, as no update listener is registered yet (`__init__.py:89-92`):
the record stays until the next setup. The events of a switch just added fire with no
one to hear them until the reload, and without end if the wizard's save raised, since its
record is then in the cache and no subentry follows (`RawHeardIsWhatFired` speaks of
buttons with a listener). The docstring of `async_step_detect` (`config_flow.py:285-290`)
says that each call either shows the next phase or moves on; one that comes while the
entry is unloaded raises at line 298, and the wizard keeps showing its progress until
the frontend asks again (`DetectRaises`).

## 7. Assumptions

- Everything between two awaits is one step: Home Assistant's callbacks and this
  integration's code run on one event loop.
- Home Assistant's storage helper is external. Its contract here: `async_save` writes
  the payload by an atomic replacement of the file and then returns, or raises and
  leaves the file alone; saves of one `Store` object are written in order; saves of
  different objects in any order. The helper may merge a save with a later one of the
  same object, and logs some errors where the model raises: what `DurableBeforeEvent`
  says rests on the contract.
- `async_call_later` runs what is due once, at any later moment; after a cancel it does
  not (assumed in `PressPipeline` and `CaptureSessions`, not in `PressTiming`).
- The radio delivers any verified telegram, in any order and number. Authentication
  is an outcome: what verifies was sent by the switch. Counters do not wrap.
- `Restart` of `ButtonPipeline` leaves out the reconciliation; `EntryLifecycle` has it.
- `EntryRestart`'s `Retry` is a reload by hand of a setup that failed; if it was the
  migration that raised, only a restart of Home Assistant tries it again. A setup whose
  reconciliation raised leaves its runtime, and a wizard may go on with it.
- `EntryLifecycle` leaves out failed saves and crashes, `EntryRestart` overlapping reloads.
  A wizard commissions one switch only once at a time. What the user asks of a runtime
  object after its entry was unloaded is modelled for the wizard's save only.
- Home Assistant's entity registry survives a restart and drops the entities of a
  removed subentry with it. The user disables no entity: a disabled one has no listener
  although its trigger is offered. The entities of one call are added in one step, those of
  a platform unloaded in one step, and entities of a subentry that is gone are refused.

## 8. Not modelled

- Forms, texts, translations, icons and logging; of the sensors, those that show one
  counter or state as it is.
- `commissioning_input.py` and `qr_decode.py`: parsing of text and images, pure.
- `crypto.py`, `identity.py`, `secret_store.py`: an outcome, an identity, and one secret that
  is read or made once.
- `designated_sessions.py` is not wired to anything.
- Of an evidence record only that it was taken: its deltas, XOR and duplicate flag are
  differences of two successive values, forgotten at every end of a window. Of a census
  bucket the value lengths and the connectable flag.

## 9. Status

Done, in this order: the pipeline and its abstract gate, the decoder, the tracker
and its promise, their composition, the capture sessions, overlapping reloads; then
crashes, failures and migration, the wizards, the census, and the entities with
their triggers; then theorems about each of them, the composition and the
overlapping reloads last.

What would come next: a repair of the findings in the model (a store that waits for the
saves before it, a subentry stored before its record), to show that the four promises
then hold and `OrderlyReload` needs no condition; the composition of the pipeline with
more than one switch and tracker; the fields of an evidence record.
