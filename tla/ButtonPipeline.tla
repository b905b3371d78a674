--------------------------- MODULE ButtonPipeline ---------------------------
(***************************************************************************)
(* button_pipeline.py, replay_guard.py and commissioning_store.py: from a  *)
(* Bluetooth advertisement of a commissioned switch to a fired button      *)
(* event, with the durable replay counter in between.                      *)
(*                                                                         *)
(* Advertisements arrive on the event loop and pass the shape and MIC      *)
(* gates at once; a verified telegram becomes a task. The tasks of one     *)
(* switch serialise on its asyncio.Lock, which is fair, so they form a     *)
(* FIFO whose head holds the lock. Tasks of different switches interleave  *)
(* at every await, and all of them save through one store whose payload is *)
(* the WHOLE cache, snapshotted when the save is asked for. A restart may  *)
(* come between any two steps and keeps only the file.                     *)
(***************************************************************************)
EXTENDS Integers, Sequences, Telegram

CONSTANTS Switch,       \* switches the user may commission
          Counter,      \* values of a telegram's sequence counter
          Status,       \* values of a telegram's switch-status byte
          Wizard,       \* the commissioning wizard, as the owner of a save
          MaxReceived   \* bound: telegrams per switch between two restarts

ASSUME CounterAssumption == Counter \subseteq Nat
ASSUME WizardAssumption == Wizard \notin Switch

VARIABLES
  cache,           \* CommissioningStore._cache: the counter of each record
  disk,            \* the same, in the private store's file
  writes,          \* saves asked for and not yet finished, oldest first
  queue,           \* verified telegrams whose task has not ended; the head's
                   \* task holds CommissionedSwitchRuntime.lock once it started
  stage,           \* where the head's task is
  verified_count,  \* CommissionedSwitchRuntime.verified_count
  rejected_count,  \* CommissionedSwitchRuntime.rejected_count
  events,          \* history: the button events fired, across restarts
  trusted,         \* history: counters taken as a first-trust baseline
  received,        \* history: telegrams received since the restart
  silent           \* history: tasks that ended with neither count raised

vars == <<cache, disk, writes, queue, stage, verified_count, rejected_count,
          events, trusted, received, silent>>

\* No record; a record whose counter is None. Both lie below every counter.
NoRecord == -2
NoCounter == -1

Value == {NoRecord, NoCounter} \cup Counter
Ptm216bTelegram == [counter : Counter, status : Status]
Snapshot == [Switch -> Value]
Write == [by : Switch \cup {Wizard}, data : Snapshot]

\* "trusting" and "advancing" await async_save; "trusted" and "advanced" have
\* been resumed by it; "raised" has been thrown out of it.
Stage == {"idle", "trusting", "trusted", "advancing", "advanced", "raised"}

Init ==
  /\ cache = [s \in Switch |-> NoRecord]
  /\ disk = [s \in Switch |-> NoRecord]
  /\ writes = <<>>
  /\ queue = [s \in Switch |-> <<>>]
  /\ stage = [s \in Switch |-> "idle"]
  /\ verified_count = [s \in Switch |-> 0]
  /\ rejected_count = [s \in Switch |-> 0]
  /\ events = [s \in Switch |-> <<>>]
  /\ trusted = [s \in Switch |-> {}]
  /\ received = [s \in Switch |-> 0]
  /\ silent = [s \in Switch |-> 0]

-----------------------------------------------------------------------------
(* The store. *)

\* set_counter / the first half of async_add: the cache alone changes.
set_counter(s, value) == cache' = [cache EXCEPT ![s] = value]

\* async_save: the payload is the whole cache at the moment of the call. One
\* Store instance writes its payloads in the order they were asked for.
async_save(owner) == writes' = Append(writes, [by |-> owner, data |-> cache'])

\* async_add, called by the wizard for an address with no record.
async_add(s) ==
  /\ cache[s] = NoRecord
  /\ set_counter(s, NoCounter)
  /\ async_save(Wizard)
  /\ UNCHANGED <<disk, queue, stage, verified_count, rejected_count, events,
                 trusted, received, silent>>

\* What the end of a save does to the task that awaits it, if one does.
Resumed(owner, ok) ==
  [s \in Switch |->
     IF s # owner THEN stage[s]
     ELSE IF ~ok THEN "raised"
     ELSE IF stage[s] = "trusting" THEN "trusted" ELSE "advanced"]

\* The oldest save reaches the file, in one atomic replacement of it.
WriteDone ==
  /\ writes # <<>>
  /\ disk' = Head(writes).data
  /\ writes' = Tail(writes)
  /\ stage' = Resumed(Head(writes).by, TRUE)
  /\ UNCHANGED <<cache, queue, verified_count, rejected_count, events,
                 trusted, received, silent>>

\* The oldest save raises and leaves the file alone.
WriteFails ==
  /\ writes # <<>>
  /\ writes' = Tail(writes)
  /\ stage' = Resumed(Head(writes).by, FALSE)
  /\ UNCHANGED <<cache, disk, queue, verified_count, rejected_count, events,
                 trusted, received, silent>>

-----------------------------------------------------------------------------
(* handle_advertisement: the gates that run without an await. *)

CanReceive(s) ==
  /\ cache[s] # NoRecord
  /\ received[s] < MaxReceived

\* No manufacturer value, a value of another length, or a MIC that does not
\* verify: record_rejected, and no task.
RejectAdvertisement(s) ==
  /\ CanReceive(s)
  /\ received' = [received EXCEPT ![s] = @ + 1]
  /\ rejected_count' = [rejected_count EXCEPT ![s] = @ + 1]
  /\ UNCHANGED <<cache, disk, writes, queue, stage, verified_count, events,
                 trusted, silent>>

\* A MIC-verified telegram: create_task. The radio may deliver any telegram,
\* in any order, any number of times (three advertising channels, replays).
CreateTask(s, telegram) ==
  /\ CanReceive(s)
  /\ received' = [received EXCEPT ![s] = @ + 1]
  /\ queue' = [queue EXCEPT ![s] = Append(@, telegram)]
  /\ UNCHANGED <<cache, disk, writes, stage, verified_count, rejected_count,
                 events, trusted, silent>>

-----------------------------------------------------------------------------
(* _process_verified_telegram: from the lock to the first await. *)

Telegram(s) == Head(queue[s])

\* The head's task gets the lock and runs up to its save or to its end. It
\* reads the counter from the cache here, never earlier.
HasLock(s) ==
  /\ stage[s] = "idle"
  /\ queue[s] # <<>>

\* Mutant: the telegram that sets the baseline goes on to fire.
FirstTrustFires(s) ==
  /\ HasLock(s)
  /\ cache[s] = NoCounter
  /\ set_counter(s, Telegram(s).counter)
  /\ async_save(s)
  /\ stage' = [stage EXCEPT ![s] = "advancing"]
  /\ trusted' = [trusted EXCEPT ![s] = @ \cup {Telegram(s).counter}]
  /\ UNCHANGED <<disk, queue, verified_count, rejected_count, events,
                 received, silent>>

FirstTrust(s) ==
  /\ HasLock(s)
  /\ cache[s] = NoCounter
  /\ set_counter(s, Telegram(s).counter)
  /\ async_save(s)
  /\ stage' = [stage EXCEPT ![s] = "trusting"]
  /\ trusted' = [trusted EXCEPT ![s] = @ \cup {Telegram(s).counter}]
  /\ UNCHANGED <<disk, queue, verified_count, rejected_count, events,
                 received, silent>>

\* Mutant: a counter equal to the last one is accepted again.
AcceptDuplicate(s) ==
  /\ HasLock(s)
  /\ cache[s] # NoCounter
  /\ Telegram(s).counter >= cache[s]
  /\ set_counter(s, Telegram(s).counter)
  /\ async_save(s)
  /\ stage' = [stage EXCEPT ![s] = "advancing"]
  /\ UNCHANGED <<disk, queue, verified_count, rejected_count, events, trusted,
                 received, silent>>

\* Mutant: the save is asked for but not awaited.
AcceptUnawaited(s) ==
  /\ HasLock(s)
  /\ cache[s] # NoCounter
  /\ Telegram(s).counter > cache[s]
  /\ set_counter(s, Telegram(s).counter)
  /\ async_save(s)
  /\ stage' = [stage EXCEPT ![s] = "advanced"]
  /\ UNCHANGED <<disk, queue, verified_count, rejected_count, events, trusted,
                 received, silent>>

\* evaluate_sequence_counter returns ACCEPTED, having advanced the cache.
Accept(s) ==
  /\ HasLock(s)
  /\ cache[s] # NoCounter
  /\ Telegram(s).counter > cache[s]
  /\ set_counter(s, Telegram(s).counter)
  /\ async_save(s)
  /\ stage' = [stage EXCEPT ![s] = "advancing"]
  /\ UNCHANGED <<disk, queue, verified_count, rejected_count, events, trusted,
                 received, silent>>

\* The end of the task: the lock goes to the next one in the queue.
ReleaseLock(s) ==
  /\ queue' = [queue EXCEPT ![s] = Tail(@)]
  /\ stage' = [stage EXCEPT ![s] = "idle"]

\* evaluate_sequence_counter returns DUPLICATE or REPLAY_REJECTED.
RejectReplay(s) ==
  /\ HasLock(s)
  /\ cache[s] # NoCounter
  /\ Telegram(s).counter <= cache[s]
  /\ rejected_count' = [rejected_count EXCEPT ![s] = @ + 1]
  /\ ReleaseLock(s)
  /\ UNCHANGED <<cache, disk, writes, verified_count, events, trusted,
                 received, silent>>

-----------------------------------------------------------------------------
(* _process_verified_telegram: after the await of async_save. *)

\* First trust is neither an accepted nor a rejected button action.
FinishFirstTrust(s) ==
  /\ stage[s] = "trusted"
  /\ silent' = [silent EXCEPT ![s] = @ + 1]
  /\ ReleaseLock(s)
  /\ UNCHANGED <<cache, disk, writes, verified_count, rejected_count, events,
                 trusted, received>>

\* record_verified_and_fire.
Fire(s) ==
  /\ stage[s] = "advanced"
  /\ Decodes(Telegram(s).status)
  /\ verified_count' = [verified_count EXCEPT ![s] = @ + 1]
  /\ events' = [events EXCEPT ![s] = Append(@, Telegram(s))]
  /\ ReleaseLock(s)
  /\ UNCHANGED <<cache, disk, writes, rejected_count, trusted, received,
                 silent>>

\* Mutant: the telegram is counted as verified before its status is decoded.
RejectStatusTwice(s) ==
  /\ stage[s] = "advanced"
  /\ ~Decodes(Telegram(s).status)
  /\ verified_count' = [verified_count EXCEPT ![s] = @ + 1]
  /\ rejected_count' = [rejected_count EXCEPT ![s] = @ + 1]
  /\ ReleaseLock(s)
  /\ UNCHANGED <<cache, disk, writes, events, trusted, received, silent>>

\* StatusParseError: the counter has advanced durably, no event is fired.
RejectStatus(s) ==
  /\ stage[s] = "advanced"
  /\ ~Decodes(Telegram(s).status)
  /\ rejected_count' = [rejected_count EXCEPT ![s] = @ + 1]
  /\ ReleaseLock(s)
  /\ UNCHANGED <<cache, disk, writes, verified_count, events, trusted,
                 received, silent>>

\* Mutant: a failed save takes the counter back in the cache.
SaveRaisedRollsBack(s) ==
  /\ stage[s] = "raised"
  /\ cache' = [cache EXCEPT ![s] = disk[s]]
  /\ silent' = [silent EXCEPT ![s] = @ + 1]
  /\ ReleaseLock(s)
  /\ UNCHANGED <<disk, writes, verified_count, rejected_count, events,
                 trusted, received>>

\* Mutant: the exception ends the task without a release of its lock.
SaveRaisedKeepsLock(s) ==
  /\ stage[s] = "raised"
  /\ silent' = [silent EXCEPT ![s] = @ + 1]
  /\ stage' = [stage EXCEPT ![s] = "advancing"]
  /\ UNCHANGED <<cache, disk, writes, queue, verified_count, rejected_count,
                 events, trusted, received>>

\* The exception of a failed save leaves the task, and with it the lock; the
\* cache keeps the counter it was given.
SaveRaised(s) ==
  /\ stage[s] = "raised"
  /\ silent' = [silent EXCEPT ![s] = @ + 1]
  /\ ReleaseLock(s)
  /\ UNCHANGED <<cache, disk, writes, verified_count, rejected_count, events,
                 trusted, received>>

-----------------------------------------------------------------------------
(* Home Assistant stops or crashes and starts again: async_setup_entry and  *)
(* async_load rebuild everything from the file.                             *)
Restart ==
  /\ cache' = disk
  /\ writes' = <<>>
  /\ queue' = [s \in Switch |-> <<>>]
  /\ stage' = [s \in Switch |-> "idle"]
  /\ verified_count' = [s \in Switch |-> 0]
  /\ rejected_count' = [s \in Switch |-> 0]
  /\ received' = [s \in Switch |-> 0]
  /\ silent' = [s \in Switch |-> 0]
  /\ UNCHANGED <<disk, events, trusted>>

Task(s) ==
  \/ FirstTrust(s)
  \/ Accept(s)
  \/ RejectReplay(s)
  \/ FinishFirstTrust(s)
  \/ Fire(s)
  \/ RejectStatus(s)
  \/ SaveRaised(s)

Radio(s) ==
  \/ RejectAdvertisement(s)
  \/ \E telegram \in Ptm216bTelegram : CreateTask(s, telegram)

Next ==
  \/ \E s \in Switch : async_add(s)
  \/ \E s \in Switch : Radio(s)
  \/ \E s \in Switch : Task(s)
  \/ WriteDone
  \/ WriteFails
  \/ Restart

Spec == Init /\ [][Next]_vars

\* The event loop runs every ready task, and a save ends one way or the other.
\* Nothing is assumed of the radio, the user or restarts.
Fairness ==
  /\ \A s \in Switch : WF_vars(Task(s))
  /\ WF_vars(WriteDone \/ WriteFails)

FairSpec == Spec /\ Fairness

-----------------------------------------------------------------------------
(* Types. *)

TypeOK ==
  /\ cache \in Snapshot
  /\ disk \in Snapshot
  /\ writes \in Seq(Write)
  /\ queue \in [Switch -> Seq(Ptm216bTelegram)]
  /\ stage \in [Switch -> Stage]
  /\ verified_count \in [Switch -> Nat]
  /\ rejected_count \in [Switch -> Nat]
  /\ events \in [Switch -> Seq(Ptm216bTelegram)]
  /\ trusted \in [Switch -> SUBSET Counter]
  /\ received \in [Switch -> Nat]
  /\ silent \in [Switch -> Nat]

-----------------------------------------------------------------------------
(* Safety. *)

\* No fired event is newer than the counter in the file, whatever crashes:
\* the accepted counter is durable before the event can be observed.
DurableBeforeEvent ==
  \A s \in Switch : \A i \in DOMAIN events[s] :
    events[s][i].counter <= disk[s]

\* Over the whole life of the installation, restarts, failed saves and
\* concurrent copies included, a switch's events carry strictly rising
\* counters: no telegram fires twice and none fires late.
EventsStrictlyRise ==
  \A s \in Switch : \A i, j \in DOMAIN events[s] :
    i < j => events[s][i].counter < events[s][j].counter

\* No event is fired by the telegram that established the baseline, nor by
\* anything older: every event has a strictly older first-trust counter.
EventsHaveBaseline ==
  \A s \in Switch : \A i \in DOMAIN events[s] :
    \E b \in trusted[s] : b < events[s][i].counter

\* The diagnostics add up: a received telegram is counted as verified or as
\* rejected or ends silently exactly once, or its task is still there.
EachTelegramCountedOnce ==
  \A s \in Switch :
    received[s] = verified_count[s] + rejected_count[s] + silent[s]
                    + Len(queue[s])

\* The file never forgets: no step, of this switch or of another one whose
\* snapshot of the whole cache reaches the file later, moves a switch's
\* durable counter back or drops its record.
DiskNeverFallsBack ==
  [][\A s \in Switch : disk[s] <= disk'[s]]_vars

\* No lock is held forever and no telegram waits forever: a switch's queue
\* of tasks always empties, whether its saves succeed or raise.
QueueDrains ==
  \A s \in Switch : queue[s] # <<>> ~> queue[s] = <<>>

\* The pipeline implements the promise of ReplayGate.
Gate == INSTANCE ReplayGate WITH durable <- disk
GateSpec == Gate!Spec

-----------------------------------------------------------------------------
(* The inductive invariant behind the safety properties. *)

Saving(s) == stage[s] \in {"trusting", "advancing"}

\* A held lock is held by the head of the queue.
LockHasHolder == \A s \in Switch : stage[s] # "idle" => queue[s] # <<>>

\* A task's save has its task waiting for it, and no task waits for two.
SaveHasTask ==
  /\ \A i \in DOMAIN writes : writes[i].by \in Switch => Saving(writes[i].by)
  /\ \A i, j \in DOMAIN writes :
       (writes[i].by \in Switch /\ writes[i].by = writes[j].by) => i = j

\* No task finds its switch decommissioned: the pipeline never meets the
\* "switch is None" return of _process_verified_telegram.
TasksHaveRecord == \A s \in Switch : queue[s] # <<>> => cache[s] # NoRecord

\* A task that has taken its counter still has it in the cache: nobody else
\* moves the counter while the lock is held.
HeadInCache ==
  \A s \in Switch : stage[s] # "idle" => cache[s] = Telegram(s).counter

\* The file, the snapshots on their way to it, oldest first, and the cache
\* form a rising chain for every switch.
RisingChain ==
  \A s \in Switch :
    /\ disk[s] <= cache[s]
    /\ \A i \in DOMAIN writes :
         /\ disk[s] <= writes[i].data[s]
         /\ writes[i].data[s] <= cache[s]
    /\ \A i, j \in DOMAIN writes : i < j => writes[i].data[s] <= writes[j].data[s]

\* A save carries the counter of the task that waits for it.
OwnSave ==
  \A i \in DOMAIN writes : writes[i].by \in Switch =>
    writes[i].data[writes[i].by] = cache[writes[i].by]

\* Once its save returned, a task's counter is in the file.
SavedIsDurable ==
  \A s \in Switch : stage[s] \in {"trusted", "advanced"} => disk[s] = cache[s]

\* While a task is on its way to an event, every earlier event is older.
EventsBelowHead ==
  \A s \in Switch : stage[s] \in {"advancing", "advanced"} =>
    \A i \in DOMAIN events[s] : events[s][i].counter < cache[s]

\* Every counter in the cache, in a snapshot or in the file has a baseline at
\* or below it; the one a task is accepting has one strictly below it.
HasBaseline(base, value) == value \in Counter => \E b \in base : b <= value

CountersHaveBaseline ==
  \A s \in Switch :
    /\ HasBaseline(trusted[s], cache[s])
    /\ HasBaseline(trusted[s], disk[s])
    /\ \A i \in DOMAIN writes : HasBaseline(trusted[s], writes[i].data[s])
    /\ stage[s] \in {"advancing", "advanced"} =>
         \E b \in trusted[s] : b < cache[s]

IInv ==
  /\ TypeOK
  /\ LockHasHolder
  /\ SaveHasTask
  /\ TasksHaveRecord
  /\ HeadInCache
  /\ RisingChain
  /\ OwnSave
  /\ SavedIsDurable
  /\ EventsBelowHead
  /\ CountersHaveBaseline
  /\ DurableBeforeEvent
  /\ EventsStrictlyRise
  /\ EventsHaveBaseline
=============================================================================
