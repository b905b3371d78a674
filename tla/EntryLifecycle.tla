--------------------------- MODULE EntryLifecycle ---------------------------
(***************************************************************************)
(* __init__.py: setup, unload and reload of the config entry, with the     *)
(* wizard of config_flow.py that adds switches to it. Every setup builds a *)
(* new generation of store and runtime over the same file; nothing waits   *)
(* for the tasks and saves of the generation before it. What one telegram  *)
(* does to the replay counter is abridged from ButtonPipeline, its failed  *)
(* saves and its rejections left out.                                      *)
(***************************************************************************)
EXTENDS Integers, Sequences

CONSTANTS Switch,         \* switches the user may commission
          Counter,        \* values of a telegram's sequence counter
          MaxGeneration,  \* bound: setups of the entry
          Overtaking      \* bound: setups whose unload may come while a task, a
                          \* save or a wizard of theirs is still under way

ASSUME CounterAssumption == Counter \subseteq Nat
ASSUME GenerationAssumption == MaxGeneration \in Nat \ {0}
ASSUME OvertakingAssumption == Overtaking \subseteq 1..MaxGeneration

VARIABLES
  generation,  \* the setup whose runtime the entry holds
  phase,       \* how far that setup is, or whether it has been unloaded
  reload,      \* whether the update listener has asked for a reload
  subentries,  \* the switches that have a subentry
  removed,     \* history: switches the user removed and has not added again
  cache,       \* per generation: CommissioningStore._cache
  disk,        \* the private store's file
  saves,       \* per generation: saves not yet in the file, oldest first
  stale,       \* addresses the reconciliation has still to remove
  task,        \* per generation and switch: the task of a verified telegram
  timers,      \* hold timers that may still run, by generation
  events,      \* history: button events observed since the switch was last
               \* commissioned, with their generation
  overlap      \* history: whether a task, a save or a wizard has met a reload

vars == <<generation, phase, reload, subentries, removed, cache, disk, saves,
          stale, task, timers, events, overlap>>

NoRecord == -2
NoCounter == -1
Value == {NoRecord, NoCounter} \cup Counter
Empty == [s \in Switch |-> NoRecord]
Generation == 1..MaxGeneration

\* Who awaits a save: the task of a switch, its wizard or its removal.
Waiter == {"task", "wizard", "removal"}
Save == [by : Waiter, switch : Switch, data : [Switch -> Value]]

\* A task waits for the lock, awaits its save, or has been resumed.
Stage == {"none", "waiting", "trusting", "advancing", "advanced"}
NoTask == [stage |-> "none", counter |-> 0]

Phase == {"unloaded", "read", "reconciling", "loaded"}

\* The first setup found no file and no subentry.
Init ==
  /\ generation = 1
  /\ phase = "loaded"
  /\ reload = FALSE
  /\ subentries = {}
  /\ removed = {}
  /\ cache = [g \in Generation |-> Empty]
  /\ disk = Empty
  /\ saves = [g \in Generation |-> <<>>]
  /\ stale = {}
  /\ task = [g \in Generation |-> [s \in Switch |-> NoTask]]
  /\ timers = {}
  /\ events = [s \in Switch |-> <<>>]
  /\ overlap = FALSE

-----------------------------------------------------------------------------

\* Change one record of a generation's cache and ask for a save of all of it.
StoreAndSave(g, s, value, waiter) ==
  /\ cache' = [cache EXCEPT ![g][s] = value]
  /\ saves' = [saves EXCEPT ![g] =
                 Append(@, [by |-> waiter, switch |-> s, data |-> cache'[g]])]

\* The running Bluetooth callback creates a task for a verified telegram.
_handle_advertisement(s, c) ==
  /\ phase = "loaded"
  /\ cache[generation][s] # NoRecord
  /\ task[generation][s].stage = "none"
  /\ task' = [task EXCEPT ![generation][s] = [stage |-> "waiting", counter |-> c]]
  /\ UNCHANGED <<generation, phase, reload, subentries, removed, cache, disk, saves,
                 stale, timers, events, overlap>>

\* Mutant: a counter equal to the last one is taken again.
TakeDuplicate(g, s) ==
  /\ task[g][s].stage = "waiting"
  /\ IF task[g][s].counter >= cache[g][s]
     THEN /\ StoreAndSave(g, s, task[g][s].counter, "task")
          /\ task' = [task EXCEPT ![g][s].stage =
                        IF cache[g][s] = NoCounter THEN "trusting" ELSE "advancing"]
     ELSE /\ task' = [task EXCEPT ![g][s] = NoTask]
          /\ UNCHANGED <<cache, saves>>
  /\ UNCHANGED <<generation, phase, reload, subentries, removed, disk, stale, timers,
                 events, overlap>>

\* _process_verified_telegram, up to its save or its rejection. Nobody cancels
\* the tasks of a generation that has been unloaded.
TakeCounter(g, s) ==
  /\ task[g][s].stage = "waiting"
  /\ IF task[g][s].counter > cache[g][s]
     THEN /\ StoreAndSave(g, s, task[g][s].counter, "task")
          /\ task' = [task EXCEPT ![g][s].stage =
                        IF cache[g][s] = NoCounter THEN "trusting" ELSE "advancing"]
     ELSE /\ task' = [task EXCEPT ![g][s] = NoTask]
          /\ UNCHANGED <<cache, saves>>
  /\ UNCHANGED <<generation, phase, reload, subentries, removed, disk, stale, timers,
                 events, overlap>>

\* Mutant: entities that have been removed are still listening.
FireUnloaded(g, s) ==
  /\ task[g][s].stage = "advanced"
  /\ task' = [task EXCEPT ![g][s] = NoTask]
  /\ timers' = timers \cup {[generation |-> g, switch |-> s]}
  /\ events' = [events EXCEPT ![s] =
                  Append(@, [generation |-> g, counter |-> task[g][s].counter])]
  /\ UNCHANGED <<generation, phase, reload, subentries, removed, cache, disk, saves,
                 stale, overlap>>

\* record_verified_and_fire. The tracker of any generation still has its
\* scheduler; a listener only while its entities exist.
Fire(g, s) ==
  /\ task[g][s].stage = "advanced"
  /\ task' = [task EXCEPT ![g][s] = NoTask]
  /\ timers' = timers \cup {[generation |-> g, switch |-> s]}
  /\ events' = IF g = generation /\ phase = "loaded"
               THEN [events EXCEPT ![s] =
                       Append(@, [generation |-> g, counter |-> task[g][s].counter])]
               ELSE events
  /\ UNCHANGED <<generation, phase, reload, subentries, removed, cache, disk, saves,
                 stale, overlap>>

FireTimer(t) ==
  /\ t \in timers
  /\ timers' = timers \ {t}
  /\ UNCHANGED <<generation, phase, reload, subentries, removed, cache, disk, saves,
                 stale, task, events, overlap>>

\* The oldest save of a generation reaches the file. The stores of different
\* generations do not know of one another: their saves have no common order.
\* The task that awaits it is resumed. A wizard goes on, without another await,
\* to add its subentry, which the update listener notices if there is one.
SaveDone(g) ==
  /\ saves[g] # <<>>
  /\ LET save == Head(saves[g])
         s == save.switch
     IN  /\ disk' = save.data
         /\ saves' = [saves EXCEPT ![g] = Tail(@)]
         /\ task' = IF save.by = "task"
                    THEN [task EXCEPT ![g][s] =
                            IF @.stage = "trusting" THEN NoTask
                            ELSE [@ EXCEPT !.stage = "advanced"]]
                    ELSE task
         /\ IF save.by = "wizard"
            THEN /\ subentries' = subentries \cup {s}
                 /\ removed' = removed \ {s}
                 /\ reload' = (reload \/ phase = "loaded")
            ELSE UNCHANGED <<subentries, removed, reload>>
  /\ UNCHANGED <<generation, phase, cache, stale, timers, events, overlap>>

-----------------------------------------------------------------------------
(* The user: the wizard, the removal of a switch, any other update.         *)

\* The runtime a wizard works with is the one it found before it waited for its
\* input to be decoded; the entry may have been reloaded since.
WizardHas(g) ==
  \/ g = generation /\ phase = "loaded"
  \/ g = generation /\ phase = "reconciling" /\ Overtaking # {}
  \/ g \in Overtaking /\ (g < generation \/ (g = generation /\ phase = "unloaded"))

\* The user never commissions one switch in two wizards at a time.
InWizard(s) ==
  \E g \in Generation : \E i \in DOMAIN saves[g] :
    saves[g][i].by = "wizard" /\ saves[g][i].switch = s

\* Mutant: the wizard saves before it adds the record.
SaveThenAdd(g, s) ==
  /\ WizardHas(g)
  /\ cache[g][s] = NoRecord
  /\ s \notin subentries
  /\ ~InWizard(s)
  /\ cache' = [cache EXCEPT ![g][s] = NoCounter]
  /\ saves' = [saves EXCEPT ![g] =
                 Append(@, [by |-> "wizard", switch |-> s, data |-> cache[g]])]
  /\ events' = [events EXCEPT ![s] = <<>>]
  /\ overlap' = (overlap \/ g # generation \/ phase # "loaded")
  /\ UNCHANGED <<generation, phase, reload, subentries, removed, disk, stale, task,
                 timers>>

\* _async_step_key_entry, from the check for a record to the save's await.
_async_step_key_entry(g, s) ==
  /\ WizardHas(g)
  /\ cache[g][s] = NoRecord
  /\ s \notin subentries
  /\ ~InWizard(s)
  /\ StoreAndSave(g, s, NoCounter, "wizard")
  /\ events' = [events EXCEPT ![s] = <<>>]
  /\ overlap' = (overlap \/ g # generation \/ phase # "loaded")
  /\ UNCHANGED <<generation, phase, reload, subentries, removed, disk, stale, task,
                 timers>>

RemoveSubentry(s) ==
  /\ phase = "loaded"
  /\ s \in subentries
  /\ subentries' = subentries \ {s}
  /\ removed' = removed \cup {s}
  /\ reload' = TRUE
  /\ UNCHANGED <<generation, phase, cache, disk, saves, stale, task, timers, events,
                 overlap>>

\* A changed name, rocker count or threshold, or a reload by hand.
UpdateEntry ==
  /\ phase = "loaded"
  /\ ~reload
  /\ reload' = TRUE
  /\ UNCHANGED <<generation, phase, subentries, removed, cache, disk, saves, stale,
                 task,
                 timers, events, overlap>>

-----------------------------------------------------------------------------
(* The reload.                                                              *)

Idle == \A g \in Generation :
  /\ saves[g] = <<>>
  /\ \A s \in Switch : task[g][s].stage = "none"

\* Mutant: the timers are not cleared.
UnloadKeepsTimers ==
  /\ phase = "loaded"
  /\ reload
  /\ generation < MaxGeneration
  /\ Idle \/ generation \in Overtaking
  /\ phase' = "unloaded"
  /\ reload' = FALSE
  /\ overlap' = (overlap \/ ~Idle)
  /\ UNCHANGED <<generation, subentries, removed, cache, disk, saves, stale, task,
                 timers, events>>

\* async_unload_entry: entities and their listeners first, then the timers.
async_unload_entry ==
  /\ phase = "loaded"
  /\ reload
  /\ generation < MaxGeneration
  /\ Idle \/ generation \in Overtaking
  /\ phase' = "unloaded"
  /\ reload' = FALSE
  /\ timers' = {t \in timers : t.generation # generation}
  /\ overlap' = (overlap \/ ~Idle)
  /\ UNCHANGED <<generation, subentries, removed, cache, disk, saves, stale, task,
                 events>>

\* Mutant: the counters in the file are not read.
LoadWithoutCounters ==
  /\ phase = "unloaded"
  /\ phase' = "read"
  /\ generation' = generation + 1
  /\ cache' = [cache EXCEPT ![generation'] =
                 [s \in Switch |-> IF disk[s] = NoRecord THEN NoRecord ELSE NoCounter]]
  /\ UNCHANGED <<reload, subentries, removed, disk, saves, stale, task, timers,
                 events, overlap>>

\* async_setup_entry: a new store reads the file. What is written from now on
\* it does not see, though it becomes the entry's only when it is resumed.
async_load ==
  /\ phase = "unloaded"
  /\ phase' = "read"
  /\ generation' = generation + 1
  /\ cache' = [cache EXCEPT ![generation'] = disk]
  /\ UNCHANGED <<reload, subentries, removed, disk, saves, stale, task, timers,
                 events, overlap>>

\* Mutant: every record is taken for stale.
FindEverything ==
  /\ phase = "read"
  /\ phase' = "reconciling"
  /\ stale' = {s \in Switch : cache[generation][s] # NoRecord}
  /\ UNCHANGED <<generation, reload, subentries, removed, cache, disk, saves, task,
                 timers, events, overlap>>

\* The setup is resumed: a new runtime, and _async_reconcile_commissioning_store
\* decides once what is stale.
FindStale ==
  /\ phase = "read"
  /\ phase' = "reconciling"
  /\ stale' = {s \in Switch : cache[generation][s] # NoRecord /\ s \notin subentries}
  /\ UNCHANGED <<generation, reload, subentries, removed, cache, disk, saves, task,
                 timers, events, overlap>>

\* The setup awaits the save of a removal.
Removing ==
  \E i \in DOMAIN saves[generation] : saves[generation][i].by = "removal"

\* Mutant: the record is removed from the cache alone.
RemoveUnsaved(s) ==
  /\ phase = "reconciling"
  /\ s \in stale
  /\ ~Removing
  /\ stale' = stale \ {s}
  /\ cache' = [cache EXCEPT ![generation][s] = NoRecord]
  /\ UNCHANGED <<generation, phase, reload, subentries, removed, disk, saves, task,
                 timers, events, overlap>>

\* Its loop: remove one, and await the save.
RemoveStale(s) ==
  /\ phase = "reconciling"
  /\ s \in stale
  /\ ~Removing
  /\ stale' = stale \ {s}
  /\ StoreAndSave(generation, s, NoRecord, "removal")
  /\ UNCHANGED <<generation, phase, reload, subentries, removed, disk, task, timers,
                 events, overlap>>

\* The rest of async_setup_entry: update listener, entities, Bluetooth callback.
FinishSetup ==
  /\ phase = "reconciling"
  /\ stale = {}
  /\ ~Removing
  /\ phase' = "loaded"
  /\ UNCHANGED <<generation, reload, subentries, removed, cache, disk, saves, stale,
                 task, timers, events, overlap>>

Next ==
  \/ \E s \in Switch, c \in Counter : _handle_advertisement(s, c)
  \/ \E g \in Generation, s \in Switch : TakeCounter(g, s) \/ Fire(g, s)
  \/ \E t \in timers : FireTimer(t)
  \/ \E g \in Generation : SaveDone(g)
  \/ \E g \in Generation, s \in Switch : _async_step_key_entry(g, s)
  \/ \E s \in Switch : RemoveSubentry(s) \/ RemoveStale(s)
  \/ UpdateEntry
  \/ async_unload_entry
  \/ async_load
  \/ FindStale
  \/ FinishSetup

Spec == Init /\ [][Next]_vars

-----------------------------------------------------------------------------

TypeOK ==
  /\ generation \in Generation
  /\ phase \in Phase
  /\ reload \in BOOLEAN
  /\ subentries \subseteq Switch
  /\ removed \subseteq Switch
  /\ cache \in [Generation -> [Switch -> Value]]
  /\ disk \in [Switch -> Value]
  /\ saves \in [Generation -> Seq(Save)]
  /\ stale \subseteq Switch
  /\ task \in [Generation -> [Switch -> [stage : Stage, counter : Counter \cup {0}]]]
  /\ timers \subseteq [generation : Generation, switch : Switch]
  /\ events \in [Switch -> Seq([generation : Generation, counter : Counter])]
  /\ overlap \in BOOLEAN

\* The docstring of the reconciliation: a record without a subentry "can only
\* mean 'the user removed it'". When the reconciliation decides what is stale,
\* it picks only switches the user removed, none that a wizard has just added.
StaleMeansRemoved ==
  [][phase # "reconciling" /\ phase' = "reconciling" => stale' \subseteq removed]_vars

\* While one generation is in charge, a button's events are strictly newer each
\* time, and a generation that has been unloaded is never heard again.
EventsRiseWithinGeneration ==
  \A s \in Switch : \A i, j \in DOMAIN events[s] : i < j =>
    \/ events[s][i].generation < events[s][j].generation
    \/ /\ events[s][i].generation = events[s][j].generation
       /\ events[s][i].counter < events[s][j].counter

Settled == phase = "loaded" /\ ~reload

\* No telegram fires twice, whatever reloads come between its copies.
EventsRise ==
  \A s \in Switch : \A i, j \in DOMAIN events[s] :
    i < j => events[s][i].counter < events[s][j].counter

\* "Removing a switch deletes both permanently": once the reload that follows a
\* removal is through, its key and counter are not in the file.
RemovedIsGone == Settled => \A s \in removed : disk[s] = NoRecord

\* "no press_timing.PressTimingTracker timer ever outlives this entry".
NoTimerOutlivesEntry ==
  \A t \in timers : phase = "loaded" /\ t.generation = generation

\* A switch that has been added works: its record is in the store in charge.
SubentryHasRecord ==
  Settled => \A s \in subentries : cache[generation][s] # NoRecord

\* As long as every reload found the integration idle, all four hold, whatever
\* switches were added, removed and heard between and during the reloads. With
\* an overlap each of the four fails by itself.
OrderlyReload ==
  ~overlap => EventsRise /\ RemovedIsGone /\ NoTimerOutlivesEntry /\ SubentryHasRecord

\* "Never auto-reset replay state": as long as every reload found the integration
\* idle, the counter of a switch that is not removed never falls back in the file.
ReplayStateNeverFallsBack ==
  [][~overlap' => \A s \in subentries \cap subentries' : disk[s] <= disk'[s]]_vars
=============================================================================
