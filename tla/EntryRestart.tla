---------------------------- MODULE EntryRestart ----------------------------
(***************************************************************************)
(* __init__.py: migration and setup of the config entry across crashes and *)
(* failed saves. Two stores must agree: the private file of                *)
(* commissioning_store.py, and Home Assistant's file of config entries,    *)
(* which it writes some time after the entry changed. Here a reload waits  *)
(* for what is under way; EntryLifecycle has reloads that do not. Of a     *)
(* record only its presence is kept.                                       *)
(***************************************************************************)
EXTENDS Naturals, Sequences

CONSTANTS Switch,   \* switches that may be commissioned
          MaxSaves  \* bound: saves under way at a time

ASSUME MaxSavesAssumption == MaxSaves \in Nat

VARIABLES
  version,     \* entry.version
  subentries,  \* the switches that have a subentry
  stored,      \* version and subentries in the file of config entries
  records,     \* CommissioningStore._cache of the store in charge
  file,        \* the private store's file
  phase,       \* how far the setup is
  stale,       \* addresses the reconciliation has still to remove
  saves,       \* saves of the private file under way, oldest first
  reload,      \* whether the update listener has asked for a reload
  removed,     \* history: switches the user removed, not added again since
  waived,      \* history: of those, the ones that may come back: a wizard has
               \* put them in the cache, or the entry is still to be migrated
  missed,      \* history: removed while no update listener was registered
  legacy       \* history: switches of an old entry the user never removed

entry == <<version, subentries>>
store == <<records, file, saves>>
setup == <<phase, stale, reload>>
history == <<removed, waived, missed, legacy>>
vars == <<entry, stored, store, setup, history>>

\* Who awaits a save: the reconciliation, a wizard or the task of a telegram.
Waiter == {"removal", "wizard", "task"}
Save == [by : Waiter, switch : Switch, data : SUBSET Switch]

\* In "migrating" and "read" the private file has been read, in "reconciling" the
\* setup awaits a removal, in "listening" its platforms. The setup has "failed", or
\* was "stopped" by a removal that raised, after it had made its runtime.
Phase == {"unloaded", "migrating", "read", "reconciling", "listening", "loaded",
          "failed", "stopped"}

\* The update listener is registered after the reconciliation.
HasListener == phase \in {"listening", "loaded"}

\* A new entry, or one of an old version: 0.4 knew no subentries, and 0.5 to
\* 0.6.1 left the version at 1 after they had made some.
Init ==
  /\ \/ version = 2 /\ file = {} /\ subentries = {}
     \/ version = 1 /\ file \in SUBSET Switch /\ subentries \in SUBSET file
  /\ stored = [version |-> version, subentries |-> subentries]
  /\ records = {}
  /\ phase = "unloaded"
  /\ stale = {}
  /\ saves = <<>>
  /\ reload = FALSE
  /\ removed = {}
  /\ waived = {}
  /\ missed = {}
  /\ legacy = file

-----------------------------------------------------------------------------

\* Change the cache and ask for a save of all of it.
AskSave(cache, waiter, s) ==
  /\ Len(saves) < MaxSaves
  /\ records' = cache
  /\ saves' = Append(saves, [by |-> waiter, switch |-> s, data |-> cache])
  /\ UNCHANGED file

\* The secret and the private file are awaited first, by the migration of an old
\* entry and by each setup, each with a new store.
async_load ==
  /\ phase = "unloaded"
  /\ saves = <<>>
  /\ phase' = IF version = 1 THEN "migrating" ELSE "read"
  /\ records' = file
  /\ UNCHANGED <<entry, stored, file, saves, stale, reload, history>>

\* Mutant: subentries that exist already are not skipped, so that adding them
\* once more raises.
MigrateAll ==
  /\ phase = "migrating"
  /\ \/ /\ records \cap subentries # {}
        /\ phase' = "failed"
        /\ UNCHANGED <<entry, removed, waived>>
     \/ /\ records \cap subentries = {}
        /\ phase' = "unloaded"
        /\ subentries' = subentries \cup records
        /\ version' = 2
        /\ removed' = removed \ (records \cap waived)
        /\ waived' = waived \ records
  /\ UNCHANGED <<stored, store, stale, reload, missed, legacy>>

\* Mutant: the version is not changed, as in 0.5 to 0.6.1.
MigrateUnversioned ==
  /\ phase = "migrating"
  /\ phase' = "read"
  /\ subentries' = subentries \cup records
  /\ removed' = removed \ (records \cap waived)
  /\ waived' = waived \ records
  /\ UNCHANGED <<version, stored, store, stale, reload, missed, legacy>>

\* Mutant: an entry that has subentries is taken to be migrated.
MigrateEmptyOnly ==
  /\ phase = "migrating"
  /\ phase' = "unloaded"
  /\ subentries' = IF subentries = {} THEN records ELSE subentries
  /\ version' = 2
  /\ removed' = removed \ (records \cap waived)
  /\ waived' = waived \ records
  /\ UNCHANGED <<stored, store, stale, reload, missed, legacy>>

\* One subentry for each record that has none. There is no await from the first
\* one to the new version.
async_migrate_entry ==
  /\ phase = "migrating"
  /\ phase' = "unloaded"
  /\ subentries' = subentries \cup records
  /\ version' = 2
  /\ removed' = removed \ (records \cap waived)
  /\ waived' = waived \ records
  /\ UNCHANGED <<stored, store, stale, reload, missed, legacy>>

LoadFails ==
  /\ phase = "unloaded"
  /\ phase' = "failed"
  /\ UNCHANGED <<entry, stored, store, stale, reload, history>>

\* _async_reconcile_commissioning_store decides once what is stale. With nothing
\* to remove the setup goes on at once to register its listener.
FindStale ==
  /\ phase = "read"
  /\ stale' = records \ subentries
  /\ phase' = IF stale' = {} THEN "listening" ELSE "reconciling"
  /\ missed' = {}
  /\ UNCHANGED <<entry, stored, store, reload, removed, waived, legacy>>

\* Its loop: remove one, and await the save.
RemoveStale(s) ==
  /\ phase = "reconciling"
  /\ s \in stale
  /\ \A i \in DOMAIN saves : saves[i].by # "removal"
  /\ stale' = stale \ {s}
  /\ AskSave(records \ {s}, "removal", s)
  /\ UNCHANGED <<entry, stored, phase, reload, history>>

\* Mutant: the setup changes its own entry, which its listener hears of.
FinishSetupUpdates ==
  /\ phase = "listening"
  /\ phase' = "loaded"
  /\ reload' = TRUE
  /\ UNCHANGED <<entry, stored, store, stale, history>>

\* async_forward_entry_setups has returned.
FinishSetup ==
  /\ phase = "listening"
  /\ phase' = "loaded"
  /\ UNCHANGED <<entry, stored, store, stale, reload, history>>

-----------------------------------------------------------------------------
(* What runs beside the setup.                                              *)

\* A setup that its reconciliation has stopped leaves its runtime behind.
HasRuntime == phase \in {"reconciling", "listening", "loaded", "stopped"}

\* _async_step_key_entry, from the check for a record to the save's await. A
\* subentry may be there without its record: one that a crash brought back.
_async_step_key_entry(s) ==
  /\ HasRuntime
  /\ s \notin records
  /\ AskSave(records \cup {s}, "wizard", s)
  /\ waived' = waived \cup ({s} \cap removed)
  /\ UNCHANGED <<entry, stored, setup, removed, missed, legacy>>

\* The task of a verified telegram has taken its counter.
SaveCounter(s) ==
  /\ phase = "loaded"
  /\ s \in records
  /\ AskSave(records, "task", s)
  /\ UNCHANGED <<entry, stored, setup, history>>

\* The wizard returns its subentry, which Home Assistant adds unless there is
\* one already: then the wizard is aborted.
AddSubentry(s) ==
  /\ subentries' = subentries \cup {s}
  /\ IF s \in subentries
     THEN UNCHANGED <<reload, removed, waived>>
     ELSE /\ reload' = (reload \/ HasListener)
          /\ removed' = removed \ {s}
          /\ waived' = waived \ {s}
  /\ UNCHANGED <<phase, version, missed, legacy>>

\* The oldest save is in the file, and who awaits it goes on.
SaveDone ==
  /\ saves # <<>>
  /\ LET save == Head(saves)
     IN  /\ file' = save.data
         /\ saves' = Tail(saves)
         /\ \/ /\ save.by = "wizard"
               /\ AddSubentry(save.switch)
            \/ /\ save.by = "removal"
               /\ phase' = IF stale = {} THEN "listening" ELSE phase
               /\ UNCHANGED <<entry, reload, history>>
            \/ /\ save.by = "task"
               /\ UNCHANGED <<entry, phase, reload, history>>
  /\ UNCHANGED <<stored, records, stale>>

\* It raises instead. The cache keeps what was not saved. The wizard or the task
\* ends there, and so does the setup.
SaveFails ==
  /\ saves # <<>>
  /\ saves' = Tail(saves)
  /\ phase' = IF Head(saves).by = "removal" THEN "stopped" ELSE phase
  /\ UNCHANGED <<entry, stored, records, file, stale, reload, history>>

RemoveSubentry(s) ==
  /\ s \in subentries
  /\ subentries' = subentries \ {s}
  /\ reload' = (reload \/ HasListener)
  /\ removed' = removed \cup {s}
  /\ waived' = IF version = 1 /\ phase \in {"unloaded", "migrating", "failed"}
               THEN waived \cup {s} ELSE waived \ {s}
  /\ missed' = IF phase = "reconciling" THEN missed \cup {s} ELSE missed
  /\ legacy' = legacy \ {s}
  /\ UNCHANGED <<version, stored, store, phase, stale>>

\* A changed name, rocker count or threshold, or a reload by hand.
UpdateEntry ==
  /\ phase = "loaded"
  /\ reload' = TRUE
  /\ UNCHANGED <<entry, stored, store, phase, stale, history>>

async_unload_entry ==
  /\ phase = "loaded"
  /\ reload
  /\ saves = <<>>
  /\ phase' = "unloaded"
  /\ reload' = FALSE
  /\ UNCHANGED <<entry, stored, store, stale, history>>

Failed == phase \in {"failed", "stopped"}

\* A setup that failed is tried again, by hand, or if it was the migration that
\* raised, by a restart of Home Assistant.
Retry ==
  /\ Failed
  /\ saves = <<>>
  /\ phase' = "unloaded"
  /\ reload' = FALSE
  /\ UNCHANGED <<entry, stored, store, stale, history>>

\* Home Assistant writes its file of config entries.
StoreEntries ==
  /\ stored' = [version |-> version, subentries |-> subentries]
  /\ UNCHANGED <<entry, store, setup, history>>

\* Home Assistant stops or crashes, and starts from the two files.
Crash ==
  /\ version' = stored.version
  /\ subentries' = stored.subentries
  /\ records' = {}
  /\ saves' = <<>>
  /\ phase' = "unloaded"
  /\ stale' = {}
  /\ reload' = FALSE
  /\ waived' = IF stored.version = 1 THEN removed ELSE waived
  /\ UNCHANGED <<stored, file, removed, missed, legacy>>

Setup ==
  \/ async_load
  \/ async_migrate_entry
  \/ FindStale
  \/ \E s \in Switch : RemoveStale(s)
  \/ FinishSetup
  \/ async_unload_entry

User ==
  \/ \E s \in Switch : _async_step_key_entry(s) \/ SaveCounter(s) \/ RemoveSubentry(s)
  \/ UpdateEntry
  \/ Retry

Fault == LoadFails \/ SaveFails \/ Crash

Next == Setup \/ SaveDone \/ StoreEntries \/ User \/ Fault

Spec == Init /\ [][Next]_vars

\* The event loop goes on with a setup and with the listener's reload, and a save
\* returns or raises.
FairSpec ==
  /\ Spec
  /\ WF_vars(Setup)
  /\ WF_vars(async_unload_entry)
  /\ WF_vars(SaveDone \/ SaveFails)

-----------------------------------------------------------------------------

TypeOK ==
  /\ version \in 1..2
  /\ subentries \subseteq Switch
  /\ stored \in [version : 1..2, subentries : SUBSET Switch]
  /\ records \subseteq Switch
  /\ file \subseteq Switch
  /\ phase \in Phase
  /\ stale \subseteq Switch
  /\ saves \in Seq(Save)
  /\ reload \in BOOLEAN
  /\ removed \subseteq Switch
  /\ waived \subseteq Switch
  /\ missed \subseteq Switch
  /\ legacy \subseteq Switch

\* Whatever stops, fails or is tried again, and at whatever point: a switch that
\* has a subentry in one of the two copies of the entry, and a switch of an old
\* entry, keeps its key and counter in the file until the user removes it, and
\* a running entry has read them.
NothingLost ==
  /\ (subentries \cup stored.subentries) \ removed \subseteq file
  /\ legacy \subseteq file
  /\ phase = "loaded" => subentries \ removed \subseteq records

\* Removals that Home Assistant has stored and nobody has taken back.
Gone == (removed \ waived) \ stored.subentries

Settled == phase = "loaded" /\ ~reload /\ saves = <<>>

\* No migration, crash or failed removal brings a switch back that the user
\* removed, and once the entry runs its key is in neither cache nor file. A
\* removal during the reconciliation is not heard of before the next setup.
RemovedStaysGone ==
  \A s \in Gone :
    /\ s \notin subentries
    /\ Settled /\ s \notin missed => s \notin records \cup file

\* The docstring of the reconciliation: a record without a subentry "can only
\* mean 'the user removed it'". The reconciliation finds no other.
PurgedMeansRemoved ==
  [][phase = "read" /\ phase' = "reconciling" => stale' \subseteq removed]_vars

\* Once nothing fails any more and what failed has been tried again, the setup
\* comes to its end, whatever the entry and the file were left like.
SetupSucceeds ==
  <>[][~Fault]_vars /\ []<>~Failed => []<>(phase = "loaded")

\* "no reload loop": every change that the listener hears of, at whatever point of
\* a setup it comes, is followed by a reload, and when nothing changes any more
\* and nothing fails, no reload is due and none begins. A setup that failed
\* waits for the user.
ReloadsEnd ==
  <>[][~(User \/ Fault)]_vars => <>[](Settled \/ Failed)

-----------------------------------------------------------------------------
(* The invariant behind NothingLost and RemovedStaysGone.                   *)

Kept == subentries \ removed
Removals == {i \in DOMAIN saves : saves[i].by = "removal"}
Wizards == {i \in DOMAIN saves : saves[i].by = "wizard"}

\* No setup reads the file while a save is under way, and an entry that is not
\* migrated never runs.
QuietBeforeSetup ==
  /\ phase \in {"unloaded", "migrating", "read"} => saves = <<>>
  /\ phase \in {"migrating", "read"} => records = file
  /\ phase = "migrating" => version = 1
  /\ version = 1 => phase \in {"unloaded", "migrating", "failed"} /\ saves = <<>>

\* The two copies of the entry differ by what was added and what was removed,
\* and an old record has its subentry as soon as the version says so.
EntriesAgree ==
  /\ stored.subentries \ subentries \subseteq removed
  /\ legacy \cap removed = {}
  /\ version = 2 => legacy \subseteq subentries
  /\ stored.version = 2 => version = 2 /\ legacy \subseteq stored.subentries

\* What must not be lost is in the file, in every save and in the cache.
KeptEverywhere ==
  /\ Kept \subseteq file
  /\ legacy \subseteq file
  /\ \A i \in DOMAIN saves : Kept \subseteq saves[i].data
  /\ HasRuntime => Kept \subseteq records

\* One removal at a time. What a wizard adds is no longer taken for stale, and is
\* in every save from its own on.
SavesInOrder ==
  /\ \A i, j \in Removals : i = j
  /\ Removals # {} => phase = "reconciling"
  /\ phase = "reconciling" => stale \subseteq records \ Kept
  /\ \A i \in Wizards :
       /\ \A j \in DOMAIN saves : i <= j => saves[i].switch \in saves[j].data
       /\ HasRuntime => saves[i].switch \in records
       /\ phase = "reconciling" => saves[i].switch \notin stale

\* Only what is being removed is in the file or in a save and not in the cache,
\* unless a removal has raised.
FileFollowsCache ==
  HasRuntime /\ ~Failed =>
    /\ \A s \in file \ records : \E i \in Removals : saves[i].switch = s
    /\ \A i \in DOMAIN saves : \A s \in saves[i].data \ records :
         \E j \in Removals : i < j /\ saves[j].switch = s

\* Switches the user removed and nothing will bring back.
Away == (removed \ waived) \ subentries

\* A removal is undone by nothing but the older copy of the entry, and either the
\* setup has seen it, or a reload will, or it was missed.
RemovalsBind ==
  /\ version = 1 => removed \subseteq waived
  /\ (removed \ waived) \cap subentries \subseteq stored.subentries
  /\ phase = "reconciling" => Away \cap records \subseteq missed \cup stale
  /\ HasListener /\ ~reload => Away \cap records \subseteq missed

IInv ==
  /\ TypeOK
  /\ QuietBeforeSetup
  /\ EntriesAgree
  /\ KeptEverywhere
  /\ SavesInOrder
  /\ FileFollowsCache
  /\ RemovalsBind
=============================================================================
