------------------------ MODULE EntryLifecycleProofs ------------------------
(***************************************************************************)
(* Proofs about EntryLifecycle, for any switches, counters, number of      *)
(* reloads and choice of the reloads that may overtake the work under way. *)
(***************************************************************************)
EXTENDS EntryLifecycle, TLAPS

-----------------------------------------------------------------------------
(* The inductive invariant: first what holds with any overlap.               *)

\* A generation hears telegrams once its setup is through, and until it has
\* been resumed it saves nothing.
Hears(g) == g < generation \/ (g = generation /\ phase \in {"loaded", "unloaded"})

NothingTooEarly ==
  /\ phase = "unloaded" => generation < MaxGeneration
  /\ \A g \in Generation : ~Hears(g) =>
       /\ \A s \in Switch : /\ task[g][s].stage = "none"
                            /\ \A i \in DOMAIN events[s] : events[s][i].generation # g
       /\ g # generation \/ phase = "read" => saves[g] = <<>>

\* A task has a record to work with, which holds its counter once it is taken;
\* a save that a task awaits is the only one that it does.
Taken == {"advancing", "advanced"}

TasksAwaitSaves == \A g \in Generation :
  /\ \A s \in Switch : task[g][s].stage # "none" =>
       /\ cache[g][s] # NoRecord
       /\ task[g][s].counter \in Counter
       /\ task[g][s].stage \in Taken => task[g][s].counter = cache[g][s]
  /\ \A i \in DOMAIN saves[g] : saves[g][i].by = "task" =>
       /\ task[g][saves[g][i].switch].stage \in {"trusting", "advancing"}
       /\ \A j \in DOMAIN saves[g] :
            saves[g][j].by = "task" /\ saves[g][j].switch = saves[g][i].switch => i = j

\* What was heard of s is not ahead of the record, and behind a counter taken.
HeardUpTo(s, i) ==
  /\ events[s][i].counter <= cache[generation][s]
  /\ task[generation][s].stage \in Taken => events[s][i].counter < cache[generation][s]

EventsBehindRecord ==
  \A s \in Switch : \A i \in DOMAIN events[s] :
    events[s][i].generation = generation => HeardUpTo(s, i)

\* A switch without a record before has one, of a generation, by its wizard.
ByWizard(queue, i, s) == queue[i].by = "wizard" /\ queue[i].switch = s

OnlyByWizard(records, queue, known) == \A s \in Switch \ known :
  /\ records[s] # NoRecord => \E i \in DOMAIN queue : ByWizard(queue, i, s)
  /\ \A j \in DOMAIN queue : queue[j].data[s] # NoRecord =>
       \E i \in DOMAIN queue : i <= j /\ ByWizard(queue, i, s)

RecordsAreKnown ==
  /\ subentries \cap removed = {}
  /\ \A s \in Switch : disk[s] # NoRecord => s \in subentries \cup removed
  /\ \A g \in 1..generation : OnlyByWizard(cache[g], saves[g], subentries \cup removed)

(* Then what holds as long as every reload found the integration idle.       *)

OthersIdle ==
  /\ \A g \in Generation : g # generation \/ phase # "loaded" =>
       \A s \in Switch : task[g][s].stage = "none"
  /\ \A g \in Generation : g # generation \/ phase \in {"unloaded", "read"} => saves[g] = <<>>
  /\ phase = "reconciling" =>
       \A i \in DOMAIN saves[generation] : saves[generation][i].by = "removal"

\* The last save makes the file what the cache is.
LastSaved ==
  cache[generation] = IF saves[generation] = <<>> THEN disk
                      ELSE saves[generation][Len(saves[generation])].data

\* No save still to come takes a record back, but for those of the removal.
SavesRise ==
  \A s \in Switch : phase = "loaded" \/ s \in subentries =>
    \A i \in DOMAIN saves[generation] :
      /\ disk[s] <= saves[generation][i].data[s]
      /\ \A j \in DOMAIN saves[generation] :
           i < j => saves[generation][i].data[s] <= saves[generation][j].data[s]

\* Subentries and those being added have records; others lose theirs.
RecordsFollowSubentries ==
  /\ \A s \in subentries : cache[generation][s] # NoRecord
  /\ \A s \in Switch, i \in DOMAIN saves[generation] :
       ByWizard(saves[generation], i, s) => cache[generation][s] # NoRecord
  /\ phase = "reconciling" =>
       /\ stale \cap subentries = {}
       /\ \A s \in Switch \ subentries : cache[generation][s] # NoRecord => s \in stale
  /\ Settled =>
       /\ \A s \in Switch \ subentries : disk[s] = NoRecord
       /\ OnlyByWizard(cache[generation], saves[generation], subentries)

AllEventsBehindRecord ==
  \A s \in Switch : \A i \in DOMAIN events[s] :
    cache[generation][s] # NoRecord => HeardUpTo(s, i)

Orderly ==
  /\ OthersIdle
  /\ LastSaved
  /\ SavesRise
  /\ RecordsFollowSubentries
  /\ AllEventsBehindRecord
  /\ NoTimerOutlivesEntry
  /\ EventsRise

IInv ==
  /\ TypeOK
  /\ NothingTooEarly
  /\ TasksAwaitSaves
  /\ EventsBehindRecord
  /\ EventsRiseWithinGeneration
  /\ RecordsAreKnown
  /\ ~overlap => Orderly

-----------------------------------------------------------------------------
(* What the actions do, place by place.                                      *)

Task == [stage : Stage, counter : Counter \cup {0}]

TaskIs(g, s, stage, counter) ==
  /\ task' \in [Generation -> [Switch -> Task]]
  /\ task'[g][s].stage = stage
  /\ task'[g][s].counter = counter
  /\ \A h \in Generation, r \in Switch : h # g \/ r # s => task'[h][r] = task[h][r]

\* A task that changes changes alone.
LEMMA TaskChanges ==
  ASSUME TypeOK, NEW g \in Generation, NEW s \in Switch, NEW t \in Task,
         task' = [task EXCEPT ![g][s] = t]
  PROVE  TaskIs(g, s, t.stage, t.counter)
BY DEF TypeOK, TaskIs, Task

\* So does one that only goes on to its next stage.
LEMMA StageChanges ==
  ASSUME TypeOK, NEW g \in Generation, NEW s \in Switch, NEW stage \in Stage,
         task' = [task EXCEPT ![g][s].stage = stage]
  PROVE  TaskIs(g, s, stage, task[g][s].counter)
<1>1. task \in [Generation -> [Switch -> Task]]
  BY DEF TypeOK, Task
<1>2. task' = [task EXCEPT ![g] = [task[g] EXCEPT ![s] = [task[g][s] EXCEPT !.stage = stage]]]
  BY <1>1
<1>3. [task[g][s] EXCEPT !.stage = stage] \in Task
  BY <1>1 DEF Task
<1>4. QED
  BY <1>1, <1>2, <1>3 DEF TaskIs, Task

\* A record that changes is saved with all others, behind the saves before it.
Stored(g, s, value, waiter) ==
  /\ cache' \in [Generation -> [Switch -> Value]]
  /\ saves' \in [Generation -> Seq(Save)]
  /\ \A h \in Generation \ {g} : cache'[h] = cache[h] /\ saves'[h] = saves[h]
  /\ cache'[g][s] = value
  /\ \A r \in Switch \ {s} : cache'[g][r] = cache[g][r]
  /\ saves'[g] # <<>>
  /\ DOMAIN saves[g] \subseteq Nat
  /\ \E n \in Nat :
       /\ n = Len(saves'[g])
       /\ DOMAIN saves'[g] = DOMAIN saves[g] \cup {n}
       /\ \A i \in DOMAIN saves[g] : i < n /\ saves'[g][i] = saves[g][i]
       /\ saves'[g][n].by = waiter
       /\ saves'[g][n].switch = s
       /\ saves'[g][n].data = cache'[g]
       /\ saves[g] # <<>> => n - 1 \in DOMAIN saves[g] /\ n - 1 = Len(saves[g])

\* So does every request for a save.
LEMMA StoreAppends ==
  ASSUME TypeOK, NEW g \in Generation, NEW s \in Switch, NEW value \in Value,
         NEW waiter \in Waiter, StoreAndSave(g, s, value, waiter)
  PROVE  Stored(g, s, value, waiter)
<1> DEFINE save == [by |-> waiter, switch |-> s, data |-> cache'[g]]
<1>1. /\ cache' \in [Generation -> [Switch -> Value]]
      /\ \A h \in Generation \ {g} : cache'[h] = cache[h]
      /\ cache'[g][s] = value
      /\ \A r \in Switch \ {s} : cache'[g][r] = cache[g][r]
  BY DEF TypeOK, StoreAndSave
<1>2. save \in Save
  BY <1>1 DEF Save
<1>3. saves[g] \in Seq(Save) /\ saves \in [Generation -> Seq(Save)]
  BY DEF TypeOK
<1>4. Append(saves[g], save) \in Seq(Save)
  BY <1>2, <1>3
<1>5. /\ saves' \in [Generation -> Seq(Save)]
      /\ saves'[g] = Append(saves[g], save)
      /\ \A h \in Generation \ {g} : saves'[h] = saves[h]
  BY <1>3, <1>4 DEF StoreAndSave
<1> HIDE DEF save
<1>6. /\ Len(saves[g]) \in Nat
      /\ DOMAIN saves[g] = 1 .. Len(saves[g])
      /\ Len(saves'[g]) = Len(saves[g]) + 1
      /\ DOMAIN saves'[g] = 1 .. Len(saves[g]) + 1
      /\ \A i \in DOMAIN saves[g] : saves'[g][i] = saves[g][i]
      /\ saves'[g][Len(saves[g]) + 1] = save
      /\ saves'[g] # <<>>
      /\ saves[g] # <<>> => Len(saves[g]) > 0
  BY <1>2, <1>3, <1>5
<1>7. save.by = waiter /\ save.switch = s /\ save.data = cache'[g]
  BY DEF save
<1> DEFINE n == Len(saves[g]) + 1
<1>8. /\ n \in Nat /\ n = Len(saves'[g])
      /\ DOMAIN saves'[g] = DOMAIN saves[g] \cup {n}
      /\ \A i \in DOMAIN saves[g] : i < n /\ saves'[g][i] = saves[g][i]
      /\ saves[g] # <<>> => n - 1 \in DOMAIN saves[g] /\ n - 1 = Len(saves[g])
  BY <1>6
<1>9. saves'[g][n].by = waiter /\ saves'[g][n].switch = s /\ saves'[g][n].data = cache'[g]
  BY <1>6, <1>7
<1> HIDE DEF n
<1>10. QED
  BY <1>1, <1>5, <1>6, <1>8, <1>9 DEF Stored

\* A save that ends is in the file, and the others move up.
Ended(g) ==
  /\ saves' \in [Generation -> Seq(Save)]
  /\ \A h \in Generation \ {g} : saves'[h] = saves[h]
  /\ DOMAIN saves[g] \subseteq Nat \ {0}
  /\ DOMAIN saves'[g] \subseteq Nat \ {0}
  /\ 1 \in DOMAIN saves[g]
  /\ saves[g][1].by \in Waiter
  /\ saves[g][1].switch \in Switch
  /\ saves[g][1].data \in [Switch -> Value]
  /\ disk' = saves[g][1].data
  /\ \A i \in DOMAIN saves'[g] : i + 1 \in DOMAIN saves[g] /\ saves'[g][i] = saves[g][i + 1]
  /\ \A i \in DOMAIN saves[g] \ {1} : \E j \in DOMAIN saves'[g] : i = j + 1
  /\ saves[g] # <<>>
  /\ saves[g][Len(saves[g])] = IF saves'[g] = <<>> THEN saves[g][1]
                               ELSE saves'[g][Len(saves'[g])]

\* So does the end of the oldest save.
LEMMA SaveEnds ==
  ASSUME TypeOK, NEW g \in Generation, SaveDone(g)
  PROVE  Ended(g) /\ Head(saves[g]) = saves[g][1]
<1>1. saves[g] \in Seq(Save) /\ saves[g] # <<>> /\ saves \in [Generation -> Seq(Save)]
  BY DEF TypeOK, SaveDone
<1>2. /\ Len(saves[g]) \in Nat /\ Len(saves[g]) > 0
      /\ DOMAIN saves[g] = 1 .. Len(saves[g])
      /\ saves[g][1] \in Save /\ Head(saves[g]) = saves[g][1]
  BY <1>1
<1>3. /\ saves' = [saves EXCEPT ![g] = Tail(@)]
      /\ disk' = saves[g][1].data
  BY <1>2 DEF SaveDone
<1>4. /\ saves' \in [Generation -> Seq(Save)]
      /\ saves'[g] = Tail(saves[g])
      /\ \A h \in Generation \ {g} : saves'[h] = saves[h]
  BY <1>1, <1>3
<1>5. /\ Len(saves'[g]) = Len(saves[g]) - 1
      /\ DOMAIN saves'[g] = 1 .. Len(saves[g]) - 1
      /\ \A i \in DOMAIN saves'[g] : saves'[g][i] = saves[g][i + 1]
      /\ saves'[g] = <<>> <=> Len(saves[g]) = 1
  <2>1. /\ Len(saves'[g]) = Len(saves[g]) - 1
        /\ DOMAIN saves'[g] = 1 .. Len(saves[g]) - 1
        /\ \A i \in DOMAIN saves'[g] : saves'[g][i] = saves[g][i + 1]
    BY <1>1, <1>2, <1>4
  <2>2. saves'[g] \in Seq(Save)
    BY <1>4
  <2>3. saves'[g] = <<>> <=> Len(saves'[g]) = 0
    BY <2>2
  <2>4. QED
    BY <1>2, <2>1, <2>3
<1>6. ASSUME NEW i \in DOMAIN saves[g] \ {1}
      PROVE  \E j \in DOMAIN saves'[g] : i = j + 1
  <2>1. i - 1 \in DOMAIN saves'[g]
    BY <1>2, <1>5
  <2>2. QED
    BY <1>2, <2>1
<1>7. saves[g][Len(saves[g])] = IF saves'[g] = <<>> THEN saves[g][1]
                               ELSE saves'[g][Len(saves'[g])]
  <2>1. CASE saves'[g] = <<>>
    BY <1>5, <2>1
  <2>2. CASE saves'[g] # <<>>
    <3>1. Len(saves'[g]) \in DOMAIN saves'[g]
      BY <1>2, <1>5, <2>2
    <3>2. QED
      BY <1>2, <1>5, <2>2, <3>1
  <2>3. QED
    BY <2>1, <2>2
<1>8. saves[g][1].by \in Waiter /\ saves[g][1].switch \in Switch
      /\ saves[g][1].data \in [Switch -> Value]
  BY <1>2 DEF Save
<1>9. QED
  BY <1>1, <1>2, <1>3, <1>4, <1>5, <1>6, <1>7, <1>8 DEF Ended

\* A telegram is taken, and its counter saved, or it is rejected.
LEMMA TakeEffect ==
  ASSUME TypeOK, TasksAwaitSaves, NEW g \in Generation, NEW s \in Switch,
         TakeCounter(g, s)
  PROVE  \/ /\ Stored(g, s, task[g][s].counter, "task")
            /\ task[g][s].counter > cache[g][s]
            /\ \E stage \in {"trusting", "advancing"} :
                 TaskIs(g, s, stage, task[g][s].counter)
         \/ TaskIs(g, s, "none", 0) /\ UNCHANGED <<cache, saves>>
<1>1. task[g][s].stage = "waiting" /\ task[g][s].counter \in Counter
  BY DEF TakeCounter, TasksAwaitSaves
<1>2. CASE task[g][s].counter > cache[g][s]
  <2>1. Stored(g, s, task[g][s].counter, "task")
    BY <1>1, <1>2, StoreAppends DEF TakeCounter, Value, Waiter
  <2>2. PICK stage \in {"trusting", "advancing"} :
          task' = [task EXCEPT ![g][s].stage = stage]
    BY <1>2 DEF TakeCounter
  <2>3. TaskIs(g, s, stage, task[g][s].counter)
    BY <2>2, StageChanges DEF Stage
  <2>4. QED
    BY <1>2, <2>1, <2>3
<1>3. CASE ~(task[g][s].counter > cache[g][s])
  <2>1. NoTask \in Task /\ NoTask.stage = "none" /\ NoTask.counter = 0
    BY DEF NoTask, Task, Stage
  <2>2. task' = [task EXCEPT ![g][s] = NoTask] /\ UNCHANGED <<cache, saves>>
    BY <1>3 DEF TakeCounter
  <2>3. QED
    BY <2>1, <2>2, TaskChanges
<1>4. QED
  BY <1>2, <1>3

\* A save that ends resumes its task or its wizard.
LEMMA DoneEffect ==
  ASSUME TypeOK, TasksAwaitSaves, NEW g \in Generation, SaveDone(g)
  PROVE  LET s == saves[g][1].switch IN
         \/ /\ saves[g][1].by = "task"
            /\ UNCHANGED <<subentries, removed, reload>>
            /\ \/ TaskIs(g, s, "none", 0)
               \/ /\ task[g][s].stage = "advancing"
                  /\ TaskIs(g, s, "advanced", task[g][s].counter)
         \/ /\ saves[g][1].by = "wizard"
            /\ UNCHANGED task
            /\ subentries' = subentries \cup {s}
            /\ removed' = removed \ {s}
            /\ reload' = (reload \/ phase = "loaded")
         \/ saves[g][1].by = "removal" /\ UNCHANGED <<task, subentries, removed, reload>>
<1> DEFINE s == saves[g][1].switch
<1>1. Ended(g) /\ Head(saves[g]) = saves[g][1]
  BY SaveEnds
<1>2. s \in Switch
  BY <1>1 DEF Ended
<1>3. CASE saves[g][1].by = "task"
  <2>1. task[g][s].stage \in {"trusting", "advancing"}
    BY <1>1, <1>3 DEF TasksAwaitSaves, Ended
  <2>2. UNCHANGED <<subentries, removed, reload>>
    BY <1>1, <1>3 DEF SaveDone
  <2>3. task' = [task EXCEPT ![g][s] = IF @.stage = "trusting" THEN NoTask
                                       ELSE [@ EXCEPT !.stage = "advanced"]]
    BY <1>1, <1>3 DEF SaveDone
  <2> HIDE DEF s
  <2>4. CASE task[g][s].stage = "trusting"
    <3>1. NoTask \in Task /\ NoTask.stage = "none" /\ NoTask.counter = 0
      BY DEF NoTask, Task, Stage
    <3>2. task' = [task EXCEPT ![g][s] = NoTask]
      BY <1>2, <2>3, <2>4 DEF TypeOK
    <3>3. TaskIs(g, s, "none", 0)
      BY <1>2, <3>1, <3>2, TaskChanges
    <3>4. QED
      BY <1>3, <2>2, <3>3 DEF s
  <2>5. CASE task[g][s].stage = "advancing"
    <3>1. task' = [task EXCEPT ![g][s].stage = "advanced"]
      BY <1>2, <2>3, <2>5 DEF TypeOK
    <3>2. TaskIs(g, s, "advanced", task[g][s].counter)
      BY <1>2, <3>1, StageChanges DEF Stage
    <3>3. QED
      BY <1>3, <2>2, <2>5, <3>2 DEF s
  <2>6. QED
    BY <2>1, <2>4, <2>5
<1>4. CASE saves[g][1].by = "wizard"
  BY <1>1, <1>4 DEF SaveDone
<1>5. CASE saves[g][1].by = "removal"
  BY <1>1, <1>5 DEF SaveDone
<1>6. QED
  BY <1>1, <1>3, <1>4, <1>5 DEF Ended, Waiter

\* An event is heard of the generation in charge, behind the events before it.
Heard(s, counter) ==
  /\ events' \in [Switch -> Seq([generation : Generation, counter : Counter])]
  /\ \A r \in Switch \ {s} : events'[r] = events[r]
  /\ DOMAIN events[s] \subseteq Nat
  /\ \E n \in Nat :
       /\ DOMAIN events'[s] = DOMAIN events[s] \cup {n}
       /\ \A i \in DOMAIN events[s] : i < n /\ events'[s][i] = events[s][i]
       /\ events'[s][n].generation = generation
       /\ events'[s][n].counter = counter

\* An advanced task is gone, and heard if its setup is in charge.
LEMMA FireEffect ==
  ASSUME TypeOK, TasksAwaitSaves, NEW g \in Generation, NEW s \in Switch, Fire(g, s)
  PROVE  /\ task[g][s].counter \in Counter
         /\ TaskIs(g, s, "none", 0)
         /\ IF g = generation /\ phase = "loaded" THEN Heard(s, task[g][s].counter)
                                                  ELSE UNCHANGED events
<1>1. task[g][s].stage = "advanced" /\ task[g][s].counter \in Counter
  BY DEF Fire, TasksAwaitSaves
<1>2. TaskIs(g, s, "none", 0)
  <2>1. NoTask \in Task /\ NoTask.stage = "none" /\ NoTask.counter = 0
    BY DEF NoTask, Task, Stage
  <2>2. QED
    BY <2>1, TaskChanges DEF Fire
<1>3. ASSUME g = generation, phase = "loaded" PROVE Heard(s, task[g][s].counter)
  <2> DEFINE Event == [generation : Generation, counter : Counter]
             e == [generation |-> g, counter |-> task[g][s].counter]
  <2>1. e \in Event
    BY <1>1
  <2>2. events \in [Switch -> Seq(Event)]
    BY DEF TypeOK
  <2>3. events' = [events EXCEPT ![s] = Append(@, e)]
    BY <1>3 DEF Fire
  <2>4. e.generation = generation /\ e.counter = task[g][s].counter
    BY <1>3
  <2> HIDE DEF e, Event
  <2>5. Append(events[s], e) \in Seq(Event)
    BY <2>1, <2>2
  <2>6. /\ events' \in [Switch -> Seq(Event)]
        /\ \A r \in Switch \ {s} : events'[r] = events[r]
        /\ events'[s] = Append(events[s], e)
    BY <2>2, <2>3, <2>5
  <2>7. /\ Len(events[s]) \in Nat
        /\ DOMAIN events[s] = 1 .. Len(events[s])
        /\ DOMAIN events'[s] = 1 .. Len(events[s]) + 1
        /\ \A i \in DOMAIN events[s] : events'[s][i] = events[s][i]
        /\ events'[s][Len(events[s]) + 1] = e
    BY <2>1, <2>2, <2>6
  <2> DEFINE n == Len(events[s]) + 1
  <2>8. /\ n \in Nat /\ DOMAIN events'[s] = DOMAIN events[s] \cup {n}
        /\ \A i \in DOMAIN events[s] : i < n /\ events'[s][i] = events[s][i]
        /\ events'[s][n] = e /\ DOMAIN events[s] \subseteq Nat
    BY <2>7
  <2> HIDE DEF n
  <2>9. QED
    BY <2>4, <2>6, <2>8 DEF Heard, Event
<1>4. ASSUME ~(g = generation /\ phase = "loaded") PROVE UNCHANGED events
  BY <1>4 DEF Fire
<1>5. QED
  BY <1>1, <1>2, <1>3, <1>4

\* The wizard adds a record and the reconciliation removes one.
LEMMA AddEffect ==
  ASSUME TypeOK, NEW g \in Generation, NEW s \in Switch, _async_step_key_entry(g, s)
  PROVE  /\ Stored(g, s, NoCounter, "wizard")
         /\ events' \in [Switch -> Seq([generation : Generation, counter : Counter])]
         /\ \A r \in Switch : events'[r] = IF r = s THEN <<>> ELSE events[r]
<1>1. Stored(g, s, NoCounter, "wizard")
  BY StoreAppends DEF _async_step_key_entry, Value, Waiter
<1>2. events' = [events EXCEPT ![s] = <<>>]
  BY DEF _async_step_key_entry
<1>3. events \in [Switch -> Seq([generation : Generation, counter : Counter])]
  BY DEF TypeOK
<1>4. <<>> \in Seq([generation : Generation, counter : Counter])
  OBVIOUS
<1>5. QED
  BY <1>1, <1>2, <1>3, <1>4

\* The reconciliation removes a record and saves.
LEMMA RemoveEffect ==
  ASSUME TypeOK, NEW s \in Switch, RemoveStale(s)
  PROVE  Stored(generation, s, NoRecord, "removal")
BY StoreAppends DEF RemoveStale, Value, Waiter, TypeOK

\* A new store holds what is in the file.
LEMMA LoadEffect ==
  ASSUME TypeOK, NothingTooEarly, async_load
  PROVE  /\ generation' = generation + 1 /\ generation' \in Generation
         /\ generation' > generation /\ generation \in Int
         /\ cache' \in [Generation -> [Switch -> Value]]
         /\ cache'[generation'] = disk
         /\ \A h \in Generation \ {generation'} : cache'[h] = cache[h]
<1>1. generation' \in Generation
  BY GenerationAssumption DEF async_load, NothingTooEarly, TypeOK, Generation
<1>2. generation \in Int /\ generation' = generation + 1
  BY DEF async_load, TypeOK, Generation
<1>3. cache' \in [Generation -> [Switch -> Value]] /\ cache'[generation'] = disk
      /\ \A h \in Generation \ {generation'} : cache'[h] = cache[h]
  BY <1>1 DEF async_load, TypeOK
<1>4. QED
  BY <1>1, <1>2, <1>3

-----------------------------------------------------------------------------
(* What holds with any overlap.                                              *)

\* The first setup, with no file and no subentry, satisfies the invariant.
LEMMA InitIInv == Init => IInv
<1> SUFFICES ASSUME Init PROVE IInv
  OBVIOUS
<1>1. 1 \in Generation
  BY GenerationAssumption DEF Generation
<1>2. Empty \in [Switch -> Value] /\ NoTask \in Task
  BY DEF Empty, Value, NoTask, Task, Stage
<1>3. TypeOK
  <2>1. saves \in [Generation -> Seq(Save)] /\ cache \in [Generation -> [Switch -> Value]]
    BY <1>2 DEF Init
  <2>2. task \in [Generation -> [Switch -> Task]]
    BY <1>2 DEF Init
  <2>3. events \in [Switch -> Seq([generation : Generation, counter : Counter])]
    BY DEF Init
  <2>4. QED
    BY <1>1, <1>2, <2>1, <2>2, <2>3 DEF Init, TypeOK, Phase, Task
<1>4. /\ \A g \in Generation, s \in Switch : /\ cache[g][s] = NoRecord
                                             /\ task[g][s].stage = "none"
      /\ \A g \in Generation : saves[g] = <<>>
      /\ \A s \in Switch : disk[s] = NoRecord /\ events[s] = <<>>
  BY DEF Init, Empty, NoTask
<1>5. NothingTooEarly /\ TasksAwaitSaves /\ EventsBehindRecord /\ EventsRiseWithinGeneration
  BY <1>4 DEF Init, NothingTooEarly, TasksAwaitSaves, EventsBehindRecord,
              EventsRiseWithinGeneration
<1>6. RecordsAreKnown
  <2>1. \A g \in 1..generation : g \in Generation
    BY <1>1 DEF Init, Generation
  <2>2. QED
    BY <1>4, <2>1 DEF Init, RecordsAreKnown, OnlyByWizard
<1>7. OthersIdle /\ NoTimerOutlivesEntry /\ EventsRise /\ AllEventsBehindRecord
  BY <1>4 DEF Init, OthersIdle, NoTimerOutlivesEntry, EventsRise, AllEventsBehindRecord
<1>8. LastSaved /\ SavesRise
  BY <1>1, <1>4 DEF Init, LastSaved, SavesRise
<1>9. RecordsFollowSubentries
  BY <1>1, <1>4 DEF Init, RecordsFollowSubentries, OnlyByWizard, ByWizard
<1>10. QED
  BY <1>3, <1>5, <1>6, <1>7, <1>8, <1>9 DEF IInv, Orderly

\* Every step keeps the types, and an event has a counter of a telegram.
LEMMA TypeStep == IInv /\ Next => TypeOK'
<1> SUFFICES ASSUME IInv, Next PROVE TypeOK'
  OBVIOUS
<1> USE DEF IInv
<1>1. ASSUME NEW s \in Switch, NEW c \in Counter, _handle_advertisement(s, c)
      PROVE  TypeOK'
  <2>1. [stage |-> "waiting", counter |-> c] \in Task
    BY DEF Task, Stage
  <2>2. task' \in [Generation -> [Switch -> Task]]
    BY <1>1, <2>1, TaskChanges DEF _handle_advertisement, TypeOK, TaskIs
  <2>3. QED
    BY <1>1, <2>2 DEF _handle_advertisement, TypeOK, Task
<1>2. ASSUME NEW g \in Generation, NEW s \in Switch, TakeCounter(g, s)
      PROVE  TypeOK'
  <2>1. task' \in [Generation -> [Switch -> Task]]
    BY <1>2, TakeEffect DEF TaskIs
  <2>2. /\ cache' \in [Generation -> [Switch -> Value]]
        /\ saves' \in [Generation -> Seq(Save)]
    BY <1>2, TakeEffect DEF Stored, TypeOK
  <2>3. QED
    BY <1>2, <2>1, <2>2 DEF TakeCounter, TypeOK, Task
<1>3. ASSUME NEW g \in Generation, NEW s \in Switch, Fire(g, s)
      PROVE  TypeOK'
  <2>1. task' \in [Generation -> [Switch -> Task]]
    BY <1>3, FireEffect DEF TaskIs
  <2>2. events' \in [Switch -> Seq([generation : Generation, counter : Counter])]
    BY <1>3, FireEffect DEF Heard, TypeOK
  <2>3. timers' \subseteq [generation : Generation, switch : Switch]
    BY <1>3 DEF Fire, TypeOK
  <2>4. QED
    BY <1>3, <2>1, <2>2, <2>3 DEF Fire, TypeOK, Task
<1>4. ASSUME NEW g \in Generation, SaveDone(g)
      PROVE  TypeOK'
  <2>1. Ended(g)
    BY <1>4, SaveEnds
  <2>2. task' \in [Generation -> [Switch -> Task]]
    BY <1>4, DoneEffect DEF TaskIs, TypeOK, Task
  <2>3. subentries' \subseteq Switch /\ removed' \subseteq Switch /\ reload' \in BOOLEAN
    BY <1>4, <2>1, DoneEffect DEF TypeOK, Ended
  <2>4. QED
    BY <1>4, <2>1, <2>2, <2>3 DEF SaveDone, Ended, TypeOK, Task
<1>5. ASSUME NEW g \in Generation, NEW s \in Switch, _async_step_key_entry(g, s)
      PROVE  TypeOK'
  BY <1>5, AddEffect DEF Stored, _async_step_key_entry, TypeOK
<1>6. ASSUME NEW s \in Switch, RemoveStale(s)
      PROVE  TypeOK'
  BY <1>6, RemoveEffect DEF Stored, RemoveStale, TypeOK
<1>7. CASE async_load
  BY <1>7, LoadEffect DEF async_load, TypeOK, Phase
<1>8. CASE \/ \E t \in timers : FireTimer(t)
           \/ \E s \in Switch : RemoveSubentry(s)
           \/ UpdateEntry \/ async_unload_entry \/ FindStale \/ FinishSetup
  BY <1>8 DEF FireTimer, RemoveSubentry, UpdateEntry, async_unload_entry, FindStale,
              FinishSetup, TypeOK, Phase
<1>9. QED
  BY <1>1, <1>2, <1>3, <1>4, <1>5, <1>6, <1>7, <1>8 DEF Next

\* No generation hears or saves anything before its time.
LEMMA TooEarlyStep == IInv /\ Next => NothingTooEarly'
<1> SUFFICES ASSUME IInv, Next PROVE NothingTooEarly'
  OBVIOUS
<1> USE DEF IInv
<1>1. ASSUME NEW s \in Switch, NEW c \in Counter, _handle_advertisement(s, c)
      PROVE  NothingTooEarly'
  <2>1. [stage |-> "waiting", counter |-> c] \in Task
    BY DEF Task, Stage
  <2>2. generation \in Generation
    BY DEF TypeOK
  <2>3. TaskIs(generation, s, "waiting", c)
    BY <1>1, <2>1, <2>2, TaskChanges DEF _handle_advertisement
  <2>4. Hears(generation)
    BY <1>1 DEF _handle_advertisement, Hears
  <2>5. QED
    BY <1>1, <2>3, <2>4 DEF _handle_advertisement, NothingTooEarly, TaskIs, Hears
<1>2. ASSUME NEW g \in Generation, NEW s \in Switch, TakeCounter(g, s)
      PROVE  NothingTooEarly'
  <2>1. Hears(g)
    BY <1>2 DEF TakeCounter, NothingTooEarly
  <2>2. /\ \A h \in Generation \ {g} : saves'[h] = saves[h]
        /\ \A h \in Generation \ {g}, r \in Switch : task'[h][r] = task[h][r]
    BY <1>2, TakeEffect DEF Stored, TaskIs
  <2>3. UNCHANGED <<phase, generation, events>>
    BY <1>2 DEF TakeCounter
  <2>4. g = generation => phase # "read"
    BY <2>1, GenerationAssumption DEF Hears, TypeOK, Generation
  <2>5. ASSUME NEW h \in Generation, ~Hears(h)
        PROVE  h # g
    BY <2>1, <2>5
  <2>6. Hears(g)' <=> Hears(g)
    BY <2>3 DEF Hears
  <2>7. QED
    BY <2>1, <2>2, <2>3, <2>5 DEF NothingTooEarly, Hears
<1>3. ASSUME NEW g \in Generation, NEW s \in Switch, Fire(g, s)
      PROVE  NothingTooEarly'
  <2>1. TaskIs(g, s, "none", 0) /\ UNCHANGED <<phase, generation, saves>>
    BY <1>3, FireEffect DEF Fire
  <2>2. \A h \in Generation, r \in Switch :
          task[h][r].stage = "none" => task'[h][r].stage = "none"
    BY <2>1 DEF TaskIs
  <2>3. ASSUME NEW h \in Generation, ~Hears(h), NEW r \in Switch,
               NEW i \in DOMAIN events'[r]
        PROVE  events'[r][i].generation # h
    <3>1. g = generation /\ phase = "loaded" => generation # h
      BY <2>3 DEF Hears
    <3>2. QED
      BY <1>3, <2>3, <3>1, FireEffect DEF NothingTooEarly, Heard
  <2>4. \A h : Hears(h)' <=> Hears(h)
    BY <2>1 DEF Hears
  <2>5. QED
    BY <2>1, <2>2, <2>3, <2>4 DEF NothingTooEarly
<1>4. ASSUME NEW g \in Generation, SaveDone(g)
      PROVE  NothingTooEarly'
  <2>1. Ended(g) /\ UNCHANGED <<phase, generation, events>>
    BY <1>4, SaveEnds DEF SaveDone
  <2>2. \A h \in Generation : saves[h] = <<>> => saves'[h] = <<>>
    BY <2>1 DEF Ended
  <2>3. \A h \in Generation, r \in Switch :
          task[h][r].stage = "none" => task'[h][r].stage = "none"
    <3>1. saves[g][1].by = "task" => task[g][saves[g][1].switch].stage # "none"
      BY <2>1 DEF TasksAwaitSaves, Ended
    <3>2. QED
      BY <1>4, <3>1, DoneEffect DEF TaskIs
  <2>4. QED
    BY <2>1, <2>2, <2>3 DEF NothingTooEarly, Hears
<1>5. ASSUME NEW g \in Generation, NEW s \in Switch, _async_step_key_entry(g, s)
      PROVE  NothingTooEarly'
  <2>1. Stored(g, s, NoCounter, "wizard") /\ UNCHANGED <<phase, generation, task>>
    BY <1>5, AddEffect DEF _async_step_key_entry
  <2>2. \A r \in Switch : events'[r] = IF r = s THEN <<>> ELSE events[r]
    BY <1>5, AddEffect
  <2>3. (g = generation /\ phase # "read") \/ g < generation
    BY <1>5 DEF _async_step_key_entry, WizardHas
  <2>4. ASSUME NEW h \in Generation, ~Hears(h)
        PROVE  /\ \A r \in Switch : \A i \in DOMAIN events'[r] : events'[r][i].generation # h
               /\ h # generation \/ phase = "read" => saves'[h] = <<>>
    <3>1. h # generation \/ phase = "read" => h # g
      BY <2>3, <2>4 DEF Hears
    <3>2. h # generation \/ phase = "read" => saves'[h] = <<>>
      BY <2>1, <2>4, <3>1 DEF NothingTooEarly, Stored
    <3>3. \A r \in Switch : \A i \in DOMAIN events[r] : events[r][i].generation # h
      BY <2>4 DEF NothingTooEarly
    <3>4. \A r \in Switch : \A i \in DOMAIN events'[r] : events'[r][i].generation # h
      BY <2>2, <3>3
    <3>5. QED
      BY <3>2, <3>4
  <2>5. QED
    BY <2>1, <2>4 DEF NothingTooEarly, Hears
<1>6. ASSUME NEW s \in Switch, RemoveStale(s)
      PROVE  NothingTooEarly'
  <2>1. Stored(generation, s, NoRecord, "removal")
    BY <1>6, RemoveEffect
  <2>2. phase = "reconciling" /\ UNCHANGED <<phase, generation, task, events>>
    BY <1>6 DEF RemoveStale
  <2>3. QED
    BY <2>1, <2>2 DEF NothingTooEarly, Hears, Stored
<1>7. CASE async_load
  <2>1. generation' = generation + 1 /\ phase = "unloaded" /\ phase' = "read"
    BY <1>7 DEF async_load
  <2>2. UNCHANGED <<task, events, saves>>
    BY <1>7 DEF async_load
  <2>3. \A h \in Generation : ~Hears(h)' => h > generation
    BY <2>1 DEF TypeOK, Generation, Hears
  <2>4. \A h \in Generation : h > generation => ~Hears(h) /\ h # generation
    BY DEF TypeOK, Generation, Hears
  <2>5. QED
    BY <2>1, <2>2, <2>3, <2>4 DEF NothingTooEarly
<1>8. CASE \/ \E t \in timers : FireTimer(t)
           \/ \E s \in Switch : RemoveSubentry(s)
           \/ UpdateEntry \/ async_unload_entry \/ FindStale \/ FinishSetup
  <2>1. UNCHANGED <<generation, task, events, saves>>
    BY <1>8 DEF FireTimer, RemoveSubentry, UpdateEntry, async_unload_entry, FindStale,
                FinishSetup
  <2>2. \A h \in Generation : ~Hears(h)' => ~Hears(h)
    BY <1>8 DEF FireTimer, RemoveSubentry, UpdateEntry, async_unload_entry, FindStale,
                FinishSetup, Hears
  <2>3. phase' = "read" => phase = "read"
    BY <1>8 DEF FireTimer, RemoveSubentry, UpdateEntry, async_unload_entry, FindStale,
                FinishSetup
  <2>4. phase' = "unloaded" => generation' < MaxGeneration
    BY <1>8 DEF FireTimer, RemoveSubentry, UpdateEntry, async_unload_entry, FindStale,
                FinishSetup, NothingTooEarly
  <2>5. QED
    BY <2>1, <2>2, <2>3, <2>4 DEF NothingTooEarly
<1>9. QED
  BY <1>1, <1>2, <1>3, <1>4, <1>5, <1>6, <1>7, <1>8 DEF Next

\* What is in a queue is a save.
LEMMA SaveTypes ==
  ASSUME TypeOK, NEW g \in Generation
  PROVE  /\ DOMAIN saves[g] \subseteq Nat \ {0}
         /\ \A i \in DOMAIN saves[g] : /\ saves[g][i].by \in Waiter
                                       /\ saves[g][i].switch \in Switch
                                       /\ saves[g][i].data \in [Switch -> Value]
<1>1. saves[g] \in Seq(Save)
  BY DEF TypeOK
<1>2. DOMAIN saves[g] = 1 .. Len(saves[g]) /\ Len(saves[g]) \in Nat
  BY <1>1
<1>3. \A i \in DOMAIN saves[g] : saves[g][i] \in Save
  BY <1>1, <1>2
<1>4. QED
  BY <1>2, <1>3 DEF Save

\* The generation being set up hears nothing yet, nor does the next one.
LEMMA NotYetHearing ==
  ASSUME TypeOK
  PROVE  /\ phase \in {"read", "reconciling"} => ~Hears(generation)
         /\ \A g \in Generation : g > generation => ~Hears(g) /\ g # generation
<1>1. generation \in Int /\ \A g \in Generation : g \in Int
  BY DEF TypeOK, Generation
<1>2. QED
  BY <1>1 DEF Hears

\* A task that awaits a save awaits one, and its record is its counter.
LEMMA TasksStep == IInv /\ Next => TasksAwaitSaves'
<1> SUFFICES ASSUME IInv, Next PROVE TasksAwaitSaves'
  OBVIOUS
<1> USE DEF IInv
<1>1. ASSUME NEW s \in Switch, NEW c \in Counter, _handle_advertisement(s, c)
      PROVE  TasksAwaitSaves'
  <2>1. generation \in Generation /\ [stage |-> "waiting", counter |-> c] \in Task
    BY DEF Task, Stage, TypeOK
  <2>2. TaskIs(generation, s, "waiting", c)
    BY <1>1, <2>1, TaskChanges DEF _handle_advertisement
  <2>3. /\ UNCHANGED <<cache, saves>>
        /\ cache[generation][s] # NoRecord
        /\ task[generation][s].stage = "none"
    BY <1>1 DEF _handle_advertisement
  <2>4. \A g \in Generation, r \in Switch : task'[g][r].stage # "none" =>
          /\ cache'[g][r] # NoRecord
          /\ task'[g][r].counter \in Counter
          /\ task'[g][r].stage \in Taken => task'[g][r].counter = cache'[g][r]
    BY <2>2, <2>3 DEF TaskIs, TasksAwaitSaves, Taken
  <2>5. ASSUME NEW g \in Generation, NEW i \in DOMAIN saves[g], saves[g][i].by = "task"
        PROVE  task'[g][saves[g][i].switch].stage \in {"trusting", "advancing"}
    <3>1. saves[g][i].switch \in Switch
      BY SaveTypes
    <3>2. QED
      BY <2>2, <2>3, <2>5, <3>1 DEF TaskIs, TasksAwaitSaves
  <2>6. QED
    BY <2>3, <2>4, <2>5 DEF TasksAwaitSaves
<1>2. ASSUME NEW g \in Generation, NEW s \in Switch, TakeCounter(g, s)
      PROVE  TasksAwaitSaves'
  <2>1. task[g][s].stage = "waiting"
    BY <1>2 DEF TakeCounter
  <2>2. \A i \in DOMAIN saves[g] : saves[g][i].by = "task" => saves[g][i].switch # s
    BY <2>1 DEF TasksAwaitSaves
  <2>3. \A h \in Generation : \A i \in DOMAIN saves[h] : saves[h][i].switch \in Switch
    BY SaveTypes
  <2>4. CASE TaskIs(g, s, "none", 0) /\ UNCHANGED <<cache, saves>>
    BY <2>2, <2>3, <2>4 DEF TasksAwaitSaves, TaskIs
  <2>5. CASE /\ Stored(g, s, task[g][s].counter, "task")
             /\ \E stage \in {"trusting", "advancing"} :
                  TaskIs(g, s, stage, task[g][s].counter)
    <3>1. PICK stage \in {"trusting", "advancing"} : TaskIs(g, s, stage, task[g][s].counter)
      BY <2>5
    <3>2. \A h \in Generation, r \in Switch : task'[h][r].stage # "none" =>
            /\ cache'[h][r] # NoRecord
            /\ task'[h][r].counter \in Counter
            /\ task'[h][r].stage \in Taken => task'[h][r].counter = cache'[h][r]
      <4>1. task[g][s].counter \in Counter /\ task[g][s].counter # NoRecord
        BY <2>1, CounterAssumption DEF TasksAwaitSaves, NoRecord
      <4>2. ASSUME NEW h \in Generation, NEW r \in Switch, h # g \/ r # s
            PROVE  task'[h][r] = task[h][r] /\ cache'[h][r] = cache[h][r]
        BY <2>5, <3>1, <4>2 DEF Stored, TaskIs
      <4>3. /\ cache'[g][s] = task[g][s].counter
            /\ task'[g][s].counter = task[g][s].counter
        BY <2>5, <3>1 DEF Stored, TaskIs
      <4>4. SUFFICES ASSUME NEW h \in Generation, NEW r \in Switch,
                            task'[h][r].stage # "none"
                     PROVE  /\ cache'[h][r] # NoRecord
                            /\ task'[h][r].counter \in Counter
                            /\ task'[h][r].stage \in Taken
                                 => task'[h][r].counter = cache'[h][r]
        OBVIOUS
      <4>5. CASE h # g \/ r # s
        BY <4>2, <4>4, <4>5 DEF TasksAwaitSaves
      <4>6. CASE h = g /\ r = s
        BY <4>1, <4>3, <4>6
      <4>7. QED
        BY <4>5, <4>6
    <3>3. ASSUME NEW h \in Generation, NEW i \in DOMAIN saves'[h], saves'[h][i].by = "task"
          PROVE  /\ task'[h][saves'[h][i].switch].stage \in {"trusting", "advancing"}
                 /\ \A j \in DOMAIN saves'[h] :
                      saves'[h][j].by = "task" /\ saves'[h][j].switch = saves'[h][i].switch
                        => i = j
      <4>1. CASE h # g
        <5>1. saves'[h] = saves[h]
          BY <2>5, <4>1 DEF Stored
        <5>2. \A r \in Switch : task'[h][r] = task[h][r]
          BY <3>1, <4>1 DEF TaskIs
        <5>3. QED
          BY <2>3, <3>3, <5>1, <5>2 DEF TasksAwaitSaves
      <4>2. CASE h = g
        <5>1. PICK n \in Nat :
                /\ DOMAIN saves'[g] = DOMAIN saves[g] \cup {n}
                /\ \A k \in DOMAIN saves[g] : k < n /\ saves'[g][k] = saves[g][k]
                /\ saves'[g][n].switch = s
          BY <2>5 DEF Stored
        <5>2. CASE i \in DOMAIN saves[g]
          <6>1. saves'[g][i] = saves[g][i] /\ saves[g][i].switch # s
                /\ saves[g][i].switch \in Switch
            BY <2>2, <2>3, <3>3, <4>2, <5>1, <5>2
          <6>2. QED
            BY <3>1, <3>3, <4>2, <5>1, <5>2, <6>1 DEF TaskIs, TasksAwaitSaves
        <5>3. CASE i = n
          BY <2>2, <3>1, <4>2, <5>1, <5>3 DEF TaskIs
        <5>4. QED
          BY <3>3, <4>2, <5>1, <5>2, <5>3
      <4>3. QED
        BY <4>1, <4>2
    <3>4. QED
      BY <3>2, <3>3 DEF TasksAwaitSaves
  <2>6. QED
    BY <1>2, <2>4, <2>5, TakeEffect
<1>3. ASSUME NEW g \in Generation, NEW s \in Switch, Fire(g, s)
      PROVE  TasksAwaitSaves'
  <2>1. TaskIs(g, s, "none", 0) /\ UNCHANGED <<cache, saves>>
        /\ task[g][s].stage = "advanced"
    BY <1>3, FireEffect DEF Fire
  <2>2. \A i \in DOMAIN saves[g] : saves[g][i].by = "task" => saves[g][i].switch # s
    BY <2>1 DEF TasksAwaitSaves
  <2>3. \A h \in Generation : \A i \in DOMAIN saves[h] : saves[h][i].switch \in Switch
    BY SaveTypes
  <2>4. QED
    BY <2>1, <2>2, <2>3 DEF TasksAwaitSaves, TaskIs
<1>4. ASSUME NEW g \in Generation, SaveDone(g)
      PROVE  TasksAwaitSaves'
  <2> DEFINE s == saves[g][1].switch
  <2>1. Ended(g) /\ UNCHANGED cache
    BY <1>4, SaveEnds DEF SaveDone
  <2>2. s \in Switch /\ 1 \in DOMAIN saves[g]
    BY <2>1 DEF Ended
  <2>3. \/ saves[g][1].by = "task" /\ TaskIs(g, s, "none", 0)
        \/ /\ saves[g][1].by = "task" /\ task[g][s].stage = "advancing"
           /\ TaskIs(g, s, "advanced", task[g][s].counter)
        \/ saves[g][1].by # "task" /\ UNCHANGED task
    BY <1>4, DoneEffect
  <2>4. \A h \in Generation : \A i \in DOMAIN saves[h] : saves[h][i].switch \in Switch
    BY SaveTypes
  <2> HIDE DEF s
  <2>5. \A h \in Generation, r \in Switch : task'[h][r].stage # "none" =>
          /\ cache'[h][r] # NoRecord
          /\ task'[h][r].counter \in Counter
          /\ task'[h][r].stage \in Taken => task'[h][r].counter = cache'[h][r]
    BY <2>1, <2>2, <2>3 DEF TaskIs, TasksAwaitSaves, Taken
  <2>6. ASSUME NEW h \in Generation, NEW i \in DOMAIN saves'[h], saves'[h][i].by = "task"
        PROVE  /\ task'[h][saves'[h][i].switch].stage \in {"trusting", "advancing"}
               /\ \A j \in DOMAIN saves'[h] :
                    saves'[h][j].by = "task" /\ saves'[h][j].switch = saves'[h][i].switch
                      => i = j
    <3>1. CASE h # g
      <4>1. saves'[h] = saves[h]
        BY <2>1, <3>1 DEF Ended
      <4>2. \A r \in Switch : task'[h][r] = task[h][r]
        BY <2>3, <3>1 DEF TaskIs
      <4>3. QED
        BY <2>4, <2>6, <4>1, <4>2 DEF TasksAwaitSaves
    <3>2. CASE h = g
      <4>1. \A j \in DOMAIN saves'[g] :
              /\ j \in Nat \ {0} /\ j + 1 \in DOMAIN saves[g] /\ j + 1 # 1
              /\ saves'[g][j] = saves[g][j + 1]
        BY <2>1 DEF Ended
      <4>2. saves[g][i + 1].by = "task" /\ saves[g][i + 1].switch \in Switch
        BY <2>4, <2>6, <3>2, <4>1
      <4>3. saves[g][1].by = "task" => saves[g][i + 1].switch # s
        BY <2>2, <3>2, <4>1, <4>2 DEF TasksAwaitSaves, s
      <4>4. task[g][saves[g][i + 1].switch].stage \in {"trusting", "advancing"}
        BY <3>2, <4>1, <4>2 DEF TasksAwaitSaves
      <4>5. task'[g][saves[g][i + 1].switch] = task[g][saves[g][i + 1].switch]
        BY <2>3, <4>2, <4>3 DEF TaskIs
      <4>6. \A j \in DOMAIN saves'[g] :
              saves'[g][j].by = "task" /\ saves'[g][j].switch = saves'[g][i].switch
                => i + 1 = j + 1
        BY <3>2, <4>1, <4>2 DEF TasksAwaitSaves
      <4>7. QED
        BY <3>2, <4>1, <4>4, <4>5, <4>6
    <3>3. QED
      BY <3>1, <3>2
  <2>7. QED
    BY <2>5, <2>6 DEF TasksAwaitSaves
<1>5. ASSUME NEW g \in Generation, NEW s \in Switch, NEW value \in Value,
             NEW waiter \in {"wizard", "removal"},
             Stored(g, s, value, waiter), UNCHANGED task, task[g][s].stage = "none"
      PROVE  TasksAwaitSaves'
  <2>1. \A h \in Generation, r \in Switch : task'[h][r].stage # "none" =>
          /\ cache'[h][r] # NoRecord
          /\ task'[h][r].counter \in Counter
          /\ task'[h][r].stage \in Taken => task'[h][r].counter = cache'[h][r]
    <3>1. ASSUME NEW h \in Generation, NEW r \in Switch, h # g \/ r # s
          PROVE  cache'[h][r] = cache[h][r]
      BY <1>5, <3>1 DEF Stored
    <3>2. QED
      BY <1>5, <3>1 DEF TasksAwaitSaves
  <2>2. \A h \in Generation : \A i \in DOMAIN saves'[h] : saves'[h][i].by = "task" =>
          i \in DOMAIN saves[h] /\ saves'[h][i] = saves[h][i]
    BY <1>5 DEF Stored
  <2>3. QED
    BY <1>5, <2>1, <2>2 DEF TasksAwaitSaves
<1>6. ASSUME NEW g \in Generation, NEW s \in Switch, _async_step_key_entry(g, s)
      PROVE  TasksAwaitSaves'
  <2>1. Stored(g, s, NoCounter, "wizard") /\ UNCHANGED task /\ cache[g][s] = NoRecord
    BY <1>6, AddEffect DEF _async_step_key_entry
  <2>2. task[g][s].stage = "none"
    BY <2>1 DEF TasksAwaitSaves
  <2>3. QED
    BY <1>5, <2>1, <2>2 DEF Value
<1>7. ASSUME NEW s \in Switch, RemoveStale(s)
      PROVE  TasksAwaitSaves'
  <2>1. Stored(generation, s, NoRecord, "removal") /\ UNCHANGED task
        /\ phase = "reconciling" /\ generation \in Generation
    BY <1>7, RemoveEffect DEF RemoveStale, TypeOK
  <2>2. task[generation][s].stage = "none"
    BY <2>1, NotYetHearing DEF NothingTooEarly
  <2>3. QED
    BY <1>5, <2>1, <2>2 DEF Value
<1>8. CASE async_load
  <2>1. UNCHANGED <<task, saves>> /\ generation' \in Generation
        /\ \A h \in Generation \ {generation'} : cache'[h] = cache[h]
    BY <1>8, LoadEffect DEF async_load
  <2>2. \A s \in Switch : task[generation'][s].stage = "none"
    <3>1. generation' > generation /\ generation' \in Generation
      BY <1>8, LoadEffect
    <3>2. QED
      BY <3>1, NotYetHearing DEF NothingTooEarly
  <2>3. QED
    BY <2>1, <2>2 DEF TasksAwaitSaves
<1>9. CASE \/ \E t \in timers : FireTimer(t)
           \/ \E s \in Switch : RemoveSubentry(s)
           \/ UpdateEntry \/ async_unload_entry \/ FindStale \/ FinishSetup
  <2>1. UNCHANGED <<task, saves, cache>>
    BY <1>9 DEF FireTimer, RemoveSubentry, UpdateEntry, async_unload_entry, FindStale,
                FinishSetup
  <2>2. QED
    BY <2>1 DEF TasksAwaitSaves
<1>10. QED
  BY <1>1, <1>2, <1>3, <1>4, <1>6, <1>7, <1>8, <1>9 DEF Next

\* What a record holds is a number, and the numbers of events are counters.
LEMMA Numbers ==
  ASSUME TypeOK
  PROVE  /\ generation \in Generation /\ generation \in Int
         /\ Value \subseteq Int
         /\ \A g \in Generation, s \in Switch : cache[g][s] \in Int
         /\ \A s \in Switch : disk[s] \in Int
         /\ \A s \in Switch : \A i \in DOMAIN events[s] :
              /\ events[s][i].counter \in Counter /\ events[s][i].counter \in Nat
              /\ events[s][i].generation \in Generation
              /\ events[s][i].generation \in Int
         /\ \A s \in Switch : DOMAIN events[s] \subseteq Nat
<1>1. Value \subseteq Int /\ NoRecord \in Int
  BY CounterAssumption DEF Value, NoRecord, NoCounter
<1>2. /\ \A g \in Generation, s \in Switch : cache[g][s] \in Value
      /\ \A s \in Switch : disk[s] \in Value
      /\ generation \in Generation
  BY DEF TypeOK
<1>3. \A g \in Generation : g \in Int
  BY DEF Generation
<1>4. ASSUME NEW s \in Switch, NEW i \in DOMAIN events[s]
      PROVE  events[s][i] \in [generation : Generation, counter : Counter] /\ i \in Nat
  <2> DEFINE Event == [generation : Generation, counter : Counter]
  <2>1. events[s] \in Seq(Event)
    BY DEF TypeOK
  <2> HIDE DEF Event
  <2>2. events[s][i] \in Event /\ i \in Nat
    BY <2>1
  <2>3. QED
    BY <2>2 DEF Event
<1>5. QED
  BY <1>1, <1>2, <1>3, <1>4, CounterAssumption

\* No step but a wizard's and an event's touches what was heard, and no step but
\* those of a task and of a wizard touches a record of what has been heard.
LEMMA EventsStep ==
  IInv /\ Next => EventsBehindRecord' /\ EventsRiseWithinGeneration'
<1> SUFFICES ASSUME IInv, Next PROVE EventsBehindRecord' /\ EventsRiseWithinGeneration'
  OBVIOUS
<1> USE DEF IInv
<1>1. ASSUME NEW s \in Switch, NEW c \in Counter, _handle_advertisement(s, c)
      PROVE  EventsBehindRecord' /\ EventsRiseWithinGeneration'
  <2>1. generation \in Generation /\ [stage |-> "waiting", counter |-> c] \in Task
    BY DEF Task, Stage, TypeOK
  <2>2. TaskIs(generation, s, "waiting", c) /\ UNCHANGED <<generation, cache, events>>
    BY <1>1, <2>1, TaskChanges DEF _handle_advertisement
  <2>3. \A r \in Switch : task'[generation][r].stage \in Taken =>
                            task[generation][r].stage \in Taken
    BY <2>1, <2>2 DEF TaskIs, Taken
  <2>4. EventsBehindRecord'
    BY <2>2, <2>3 DEF EventsBehindRecord, HeardUpTo
  <2>5. QED
    BY <2>2, <2>4 DEF EventsRiseWithinGeneration
<1>2. ASSUME NEW g \in Generation, NEW s \in Switch, TakeCounter(g, s)
      PROVE  EventsBehindRecord' /\ EventsRiseWithinGeneration'
  <2>1. UNCHANGED <<generation, events>> /\ generation \in Generation
    BY <1>2 DEF TakeCounter, TypeOK
  <2>2. CASE TaskIs(g, s, "none", 0) /\ UNCHANGED <<cache, saves>>
    BY <2>1, <2>2 DEF EventsBehindRecord, HeardUpTo, TaskIs, Taken, EventsRiseWithinGeneration
  <2>3. CASE /\ Stored(g, s, task[g][s].counter, "task")
             /\ task[g][s].counter > cache[g][s]
             /\ \E stage \in {"trusting", "advancing"} :
                  TaskIs(g, s, stage, task[g][s].counter)
    <3>1. ASSUME NEW r \in Switch, g # generation \/ r # s
          PROVE  cache'[generation][r] = cache[generation][r]
                 /\ task'[generation][r] = task[generation][r]
      BY <2>1, <2>3, <3>1 DEF Stored, TaskIs
    <3>2. cache'[g][s] = task[g][s].counter /\ task[g][s].counter \in Int
          /\ task[g][s].counter > cache[g][s]
      <4>1. task[g][s].counter \in Counter
        BY <1>2 DEF TakeCounter, TasksAwaitSaves
      <4>2. task[g][s].counter \in Nat
        BY <4>1, CounterAssumption
      <4>3. QED
        BY <2>3, <4>2 DEF Stored
    <3>3. ASSUME NEW r \in Switch, NEW i \in DOMAIN events[r],
                 events[r][i].generation = generation
          PROVE  /\ events[r][i].counter <= cache'[generation][r]
                 /\ task'[generation][r].stage \in Taken =>
                      events[r][i].counter < cache'[generation][r]
      <4>1. /\ events[r][i].counter <= cache[generation][r]
            /\ task[generation][r].stage \in Taken =>
                 events[r][i].counter < cache[generation][r]
        BY <3>3 DEF EventsBehindRecord, HeardUpTo
      <4>2. events[r][i].counter \in Int /\ cache[generation][r] \in Int
        BY <2>1, Numbers
      <4>3. CASE g = generation /\ r = s
        BY <3>2, <4>1, <4>2, <4>3
      <4>4. CASE g # generation \/ r # s
        BY <3>1, <4>1, <4>4
      <4>5. QED
        BY <4>3, <4>4
    <3>4. QED
      BY <2>1, <3>3 DEF EventsBehindRecord, HeardUpTo, EventsRiseWithinGeneration
  <2>4. QED
    BY <1>2, <2>2, <2>3, TakeEffect
<1>3. ASSUME NEW g \in Generation, NEW s \in Switch, Fire(g, s)
      PROVE  EventsBehindRecord' /\ EventsRiseWithinGeneration'
  <2>1. TaskIs(g, s, "none", 0) /\ UNCHANGED <<generation, cache>>
        /\ task[g][s].stage = "advanced" /\ generation \in Generation
    BY <1>3, FireEffect DEF Fire, TypeOK
  <2>2. \A r \in Switch : task'[generation][r].stage \in Taken =>
                            task[generation][r].stage \in Taken
    BY <2>1 DEF TaskIs, Taken
  <2>3. CASE ~(g = generation /\ phase = "loaded")
    <3>1. UNCHANGED events
      BY <1>3, <2>3, FireEffect
    <3>2. QED
      BY <2>1, <2>2, <3>1 DEF EventsBehindRecord, HeardUpTo, EventsRiseWithinGeneration
  <2>4. CASE g = generation /\ phase = "loaded"
    <3>1. Heard(s, task[g][s].counter)
      BY <1>3, <2>4, FireEffect
    <3>2. task[g][s].counter = cache[generation][s] /\ cache[generation][s] \in Int
      BY <2>1, <2>4, Numbers DEF TasksAwaitSaves, Taken
    <3>3. \A i \in DOMAIN events[s] :
            /\ events[s][i].generation <= generation
            /\ events[s][i].generation = generation =>
                 events[s][i].counter < task[g][s].counter
      <4>1. ASSUME NEW i \in DOMAIN events[s]
            PROVE  events[s][i].generation <= generation
        <5>1. events[s][i].generation \in Generation
          BY Numbers
        <5>2. ~(events[s][i].generation > generation)
          BY <5>1, NotYetHearing DEF NothingTooEarly
        <5>3. QED
          BY <5>1, <5>2, Numbers
      <4>2. QED
        BY <2>1, <2>4, <3>2, <4>1 DEF EventsBehindRecord, HeardUpTo, Taken
    <3>4. PICK n \in Nat :
            /\ DOMAIN events'[s] = DOMAIN events[s] \cup {n}
            /\ \A i \in DOMAIN events[s] : i < n /\ events'[s][i] = events[s][i]
            /\ events'[s][n].generation = generation
            /\ events'[s][n].counter = task[g][s].counter
      BY <3>1 DEF Heard
    <3>5. \A r \in Switch \ {s} : events'[r] = events[r]
      BY <3>1 DEF Heard
    <3>6. EventsBehindRecord'
      <4>1. task'[generation][s].stage = "none"
        BY <2>1, <2>4 DEF TaskIs
      <4>2. ASSUME NEW r \in Switch, NEW i \in DOMAIN events'[r],
                   events'[r][i].generation = generation
            PROVE  /\ events'[r][i].counter <= cache[generation][r]
                   /\ task'[generation][r].stage \in Taken =>
                        events'[r][i].counter < cache[generation][r]
        <5>1. CASE r # s
          BY <2>2, <3>5, <4>2, <5>1 DEF EventsBehindRecord, HeardUpTo
        <5>2. CASE r = s /\ i \in DOMAIN events[s]
          BY <3>4, <4>1, <4>2, <5>2 DEF EventsBehindRecord, HeardUpTo, Taken
        <5>3. CASE r = s /\ i = n
          BY <3>2, <3>4, <4>1, <5>3 DEF Taken
        <5>4. QED
          BY <3>4, <4>2, <5>1, <5>2, <5>3
      <4>3. QED
        BY <2>1, <4>2 DEF EventsBehindRecord, HeardUpTo
    <3>7. EventsRiseWithinGeneration'
      <4>1. ASSUME NEW r \in Switch, NEW i \in DOMAIN events'[r], NEW j \in DOMAIN events'[r],
                   i < j
            PROVE  \/ events'[r][i].generation < events'[r][j].generation
                   \/ /\ events'[r][i].generation = events'[r][j].generation
                      /\ events'[r][i].counter < events'[r][j].counter
        <5>1. CASE r # s
          BY <3>5, <4>1, <5>1 DEF EventsRiseWithinGeneration
        <5>2. CASE r = s /\ i \in DOMAIN events[s] /\ j \in DOMAIN events[s]
          BY <3>4, <4>1, <5>2 DEF EventsRiseWithinGeneration
        <5>3. CASE r = s /\ i \in DOMAIN events[s] /\ j = n
          BY <3>3, <3>4, <5>3, Numbers
        <5>4. CASE r = s /\ i = n
          <6>1. j \in DOMAIN events[s] => j < n
            BY <3>4
          <6>2. j \in DOMAIN events[s] => j \in Nat
            BY Numbers
          <6>3. QED
            BY <3>4, <4>1, <5>4, <6>1, <6>2
        <5>5. QED
          BY <3>4, <4>1, <5>1, <5>2, <5>3, <5>4
      <4>2. QED
        BY <4>1 DEF EventsRiseWithinGeneration
    <3>8. QED
      BY <3>6, <3>7
  <2>5. QED
    BY <2>3, <2>4
<1>4. ASSUME NEW g \in Generation, SaveDone(g)
      PROVE  EventsBehindRecord' /\ EventsRiseWithinGeneration'
  <2>1. UNCHANGED <<generation, cache, events>> /\ generation \in Generation
    BY <1>4 DEF SaveDone, TypeOK
  <2>2. \A r \in Switch : task'[generation][r].stage \in Taken =>
                            task[generation][r].stage \in Taken
    BY <1>4, <2>1, DoneEffect DEF TaskIs, Taken
  <2>3. QED
    BY <2>1, <2>2 DEF EventsBehindRecord, HeardUpTo, EventsRiseWithinGeneration
<1>5. ASSUME NEW g \in Generation, NEW s \in Switch, _async_step_key_entry(g, s)
      PROVE  EventsBehindRecord' /\ EventsRiseWithinGeneration'
  <2>1. /\ \A r \in Switch : events'[r] = IF r = s THEN <<>> ELSE events[r]
        /\ \A r \in Switch \ {s} : cache'[generation][r] = cache[generation][r]
        /\ UNCHANGED <<generation, task>> /\ generation \in Generation
    <3>1. Stored(g, s, NoCounter, "wizard")
      BY <1>5, AddEffect
    <3>2. generation \in Generation /\ UNCHANGED <<generation, task>>
      BY <1>5 DEF _async_step_key_entry, TypeOK
    <3>3. \A r \in Switch : events'[r] = IF r = s THEN <<>> ELSE events[r]
      BY <1>5, AddEffect
    <3>4. QED
      BY <3>1, <3>2, <3>3 DEF Stored
  <2>2. EventsBehindRecord'
    BY <2>1 DEF EventsBehindRecord, HeardUpTo
  <2>3. EventsRiseWithinGeneration'
    BY <2>1 DEF EventsRiseWithinGeneration
  <2>4. QED
    BY <2>2, <2>3
<1>6. ASSUME NEW s \in Switch, RemoveStale(s)
      PROVE  EventsBehindRecord' /\ EventsRiseWithinGeneration'
  <2>1. phase = "reconciling" /\ UNCHANGED <<generation, events>>
        /\ generation \in Generation
    BY <1>6 DEF RemoveStale, TypeOK
  <2>2. \A r \in Switch : \A i \in DOMAIN events[r] : events[r][i].generation # generation
    BY <2>1, NotYetHearing DEF NothingTooEarly
  <2>3. QED
    BY <2>1, <2>2 DEF EventsBehindRecord, EventsRiseWithinGeneration
<1>7. CASE async_load
  <2>1. UNCHANGED events /\ generation' > generation /\ generation' \in Generation
    BY <1>7, LoadEffect DEF async_load
  <2>2. \A r \in Switch : \A i \in DOMAIN events[r] : events[r][i].generation # generation'
    BY <2>1, NotYetHearing DEF NothingTooEarly
  <2>3. QED
    BY <2>1, <2>2 DEF EventsBehindRecord, EventsRiseWithinGeneration
<1>8. CASE \/ \E t \in timers : FireTimer(t)
           \/ \E s \in Switch : RemoveSubentry(s)
           \/ UpdateEntry \/ async_unload_entry \/ FindStale \/ FinishSetup
  <2>1. UNCHANGED <<generation, task, events, cache>>
    BY <1>8 DEF FireTimer, RemoveSubentry, UpdateEntry, async_unload_entry, FindStale,
                FinishSetup
  <2>2. QED
    BY <2>1 DEF EventsBehindRecord, HeardUpTo, EventsRiseWithinGeneration
<1>9. QED
  BY <1>1, <1>2, <1>3, <1>4, <1>5, <1>6, <1>7, <1>8 DEF Next

\* A save asked for keeps it so, if it adds no record but a wizard's.
LEMMA StoredByWizard ==
  ASSUME TypeOK, NEW g \in Generation, NEW s \in Switch, NEW value, NEW waiter, NEW known,
         OnlyByWizard(cache[g], saves[g], known), Stored(g, s, value, waiter),
         \/ cache[g][s] # NoRecord \/ value = NoRecord \/ waiter = "wizard"
  PROVE  OnlyByWizard(cache'[g], saves'[g], known)
<1>1. PICK n \in Nat :
        /\ DOMAIN saves'[g] = DOMAIN saves[g] \cup {n}
        /\ \A i \in DOMAIN saves[g] : i < n /\ saves'[g][i] = saves[g][i]
        /\ saves'[g][n].by = waiter
        /\ saves'[g][n].switch = s
        /\ saves'[g][n].data = cache'[g]
  BY DEF Stored
<1>2. \A i \in DOMAIN saves[g] : i \in Nat
  BY DEF Stored
<1>3. ASSUME NEW r \in Switch \ known, cache'[g][r] # NoRecord
      PROVE  \E i \in DOMAIN saves'[g] : i <= n /\ ByWizard(saves'[g], i, r)
  <2>1. CASE cache[g][r] # NoRecord
    <3>1. PICK i \in DOMAIN saves[g] : ByWizard(saves[g], i, r)
      BY <2>1 DEF OnlyByWizard
    <3>2. i \in DOMAIN saves'[g] /\ i <= n /\ ByWizard(saves'[g], i, r)
      BY <1>1, <1>2, <3>1 DEF ByWizard
    <3>3. QED
      BY <3>2
  <2>2. CASE cache[g][r] = NoRecord
    <3>1. r = s /\ waiter = "wizard"
      BY <1>3, <2>2 DEF Stored
    <3>2. n \in DOMAIN saves'[g] /\ n <= n /\ ByWizard(saves'[g], n, r)
      BY <1>1, <3>1 DEF ByWizard
    <3>3. QED
      BY <3>2
  <2>3. QED
    BY <2>1, <2>2
<1>4. ASSUME NEW r \in Switch \ known, NEW j \in DOMAIN saves'[g],
             saves'[g][j].data[r] # NoRecord
      PROVE  \E i \in DOMAIN saves'[g] : i <= j /\ ByWizard(saves'[g], i, r)
  <2>1. CASE j \in DOMAIN saves[g]
    <3>1. PICK i \in DOMAIN saves[g] : i <= j /\ ByWizard(saves[g], i, r)
      BY <1>1, <1>4, <2>1 DEF OnlyByWizard
    <3>2. i \in DOMAIN saves'[g] /\ ByWizard(saves'[g], i, r)
      BY <1>1, <3>1 DEF ByWizard
    <3>3. QED
      BY <3>1, <3>2
  <2>2. CASE j = n
    BY <1>1, <1>3, <1>4, <2>2
  <2>3. QED
    BY <1>1, <2>1, <2>2
<1>5. QED
  BY <1>3, <1>4 DEF OnlyByWizard

\* A save that ends keeps it so, if its wizard's switch is known from then on.
LEMMA EndedByWizard ==
  ASSUME TypeOK, NEW g \in Generation, NEW known, NEW knownNow,
         OnlyByWizard(cache[g], saves[g], known), Ended(g), UNCHANGED cache,
         known \subseteq knownNow,
         saves[g][1].by = "wizard" => saves[g][1].switch \in knownNow
  PROVE  /\ OnlyByWizard(cache'[g], saves'[g], knownNow)
         /\ \A s \in Switch \ knownNow : disk'[s] = NoRecord
<1>1. /\ \A i \in DOMAIN saves'[g] :
           i \in Nat /\ i + 1 \in DOMAIN saves[g] /\ saves'[g][i] = saves[g][i + 1]
      /\ \A i \in DOMAIN saves[g] \ {1} : \E j \in DOMAIN saves'[g] : i = j + 1
      /\ \A i \in DOMAIN saves[g] : i \in Nat \ {0}
      /\ 1 \in DOMAIN saves[g] /\ disk' = saves[g][1].data
  BY DEF Ended
<1>2. ASSUME NEW s \in Switch \ knownNow, NEW i \in DOMAIN saves[g], ByWizard(saves[g], i, s)
      PROVE  \E j \in DOMAIN saves'[g] : i = j + 1 /\ ByWizard(saves'[g], j, s)
  <2>1. i # 1
    BY <1>2 DEF ByWizard
  <2>2. PICK j \in DOMAIN saves'[g] : i = j + 1
    BY <1>1, <2>1
  <2>3. QED
    BY <1>1, <1>2, <2>2 DEF ByWizard
<1>3. ASSUME NEW s \in Switch \ knownNow, cache[g][s] # NoRecord
      PROVE  \E j \in DOMAIN saves'[g] : ByWizard(saves'[g], j, s)
  BY <1>2, <1>3 DEF OnlyByWizard
<1>4. ASSUME NEW s \in Switch \ knownNow, NEW k \in DOMAIN saves'[g],
             saves'[g][k].data[s] # NoRecord
      PROVE  \E j \in DOMAIN saves'[g] : j <= k /\ ByWizard(saves'[g], j, s)
  <2>1. PICK i \in DOMAIN saves[g] : i <= k + 1 /\ ByWizard(saves[g], i, s)
    BY <1>1, <1>4 DEF OnlyByWizard
  <2>2. PICK j \in DOMAIN saves'[g] : i = j + 1 /\ ByWizard(saves'[g], j, s)
    BY <1>2, <2>1
  <2>3. j <= k
    BY <1>1, <2>1, <2>2
  <2>4. QED
    BY <2>2, <2>3
<1>5. ASSUME NEW s \in Switch \ knownNow, saves[g][1].data[s] # NoRecord
      PROVE  FALSE
  <2>1. PICK i \in DOMAIN saves[g] : i <= 1 /\ ByWizard(saves[g], i, s)
    BY <1>1, <1>5 DEF OnlyByWizard
  <2>2. i = 1
    BY <1>1, <2>1
  <2>3. QED
    BY <2>1, <2>2 DEF ByWizard
<1>6. QED
  BY <1>1, <1>3, <1>4, <1>5 DEF OnlyByWizard

\* Every record, in the file or in a store, is one of a switch that has or had a
\* subentry, or that a wizard is still adding.
LEMMA KnownStep == IInv /\ Next => RecordsAreKnown'
<1> SUFFICES ASSUME IInv, Next PROVE RecordsAreKnown'
  OBVIOUS
<1> USE DEF IInv
<1> DEFINE known == subentries \cup removed
<1>0. \A g \in 1..generation : g \in Generation
  BY GenerationAssumption DEF TypeOK, Generation
<1>1. ASSUME NEW g \in Generation, NEW s \in Switch, NEW value, NEW waiter,
             Stored(g, s, value, waiter),
             UNCHANGED <<generation, subentries, removed, disk>>,
             \/ cache[g][s] # NoRecord \/ value = NoRecord \/ waiter = "wizard"
      PROVE  RecordsAreKnown'
  <2>1. ASSUME NEW h \in 1..generation
        PROVE  OnlyByWizard(cache'[h], saves'[h], known)
    <3>1. OnlyByWizard(cache[h], saves[h], known)
      BY DEF RecordsAreKnown
    <3>2. CASE h # g
      <4>1. cache'[h] = cache[h] /\ saves'[h] = saves[h]
        BY <1>0, <1>1, <3>2 DEF Stored
      <4>2. QED
        BY <3>1, <4>1
    <3>3. CASE h = g
      BY <1>1, <3>1, <3>3, StoredByWizard
    <3>4. QED
      BY <3>2, <3>3
  <2>2. QED
    BY <1>1, <2>1 DEF RecordsAreKnown
<1>2. ASSUME NEW g \in Generation, NEW s \in Switch, TakeCounter(g, s)
      PROVE  RecordsAreKnown'
  <2>1. UNCHANGED <<generation, subentries, removed, disk>> /\ cache[g][s] # NoRecord
    BY <1>2 DEF TakeCounter, TasksAwaitSaves
  <2>2. CASE UNCHANGED <<cache, saves>>
    BY <2>1, <2>2 DEF RecordsAreKnown
  <2>3. QED
    BY <1>1, <1>2, <2>1, <2>2, TakeEffect
<1>3. ASSUME NEW g \in Generation, NEW s \in Switch, _async_step_key_entry(g, s)
      PROVE  RecordsAreKnown'
  BY <1>1, <1>3, AddEffect DEF _async_step_key_entry
<1>4. ASSUME NEW s \in Switch, RemoveStale(s)
      PROVE  RecordsAreKnown'
  <2>1. Stored(generation, s, NoRecord, "removal") /\ generation \in Generation
    BY <1>4, RemoveEffect DEF TypeOK
  <2>2. UNCHANGED <<generation, subentries, removed, disk>>
    BY <1>4 DEF RemoveStale
  <2>3. QED
    BY <1>1, <2>1, <2>2
<1>5. ASSUME NEW g \in Generation, SaveDone(g)
      PROVE  RecordsAreKnown'
  <2>1. Ended(g) /\ UNCHANGED <<generation, cache>>
    BY <1>5, SaveEnds DEF SaveDone
  <2>2. /\ known \subseteq known'
        /\ saves[g][1].by = "wizard" => saves[g][1].switch \in known'
        /\ subentries' \cap removed' = {}
    BY <1>5, DoneEffect DEF RecordsAreKnown
  <2>3. g \in 1..generation
    <3>1. saves[g] # <<>>
      BY <1>5 DEF SaveDone
    <3>2. ~(g > generation)
      BY <3>1, NotYetHearing DEF NothingTooEarly
    <3>3. QED
      BY <3>2, Numbers, GenerationAssumption DEF Generation
  <2>4. OnlyByWizard(cache[g], saves[g], known)
    BY <2>3 DEF RecordsAreKnown
  <2> HIDE DEF known
  <2>5. /\ OnlyByWizard(cache'[g], saves'[g], known')
        /\ \A s \in Switch \ known' : disk'[s] = NoRecord
    BY <2>1, <2>2, <2>4, EndedByWizard
  <2> USE DEF known
  <2>6. ASSUME NEW h \in 1..generation, h # g
        PROVE  OnlyByWizard(cache'[h], saves'[h], known')
    <3>1. OnlyByWizard(cache[h], saves[h], known)
      BY DEF RecordsAreKnown
    <3>2. cache'[h] = cache[h] /\ saves'[h] = saves[h]
      BY <1>0, <2>1, <2>6 DEF Ended
    <3>3. QED
      BY <2>2, <3>1, <3>2 DEF OnlyByWizard
  <2>7. QED
    BY <2>1, <2>2, <2>5, <2>6 DEF RecordsAreKnown
<1>6. CASE async_load
  <2>1. /\ UNCHANGED <<subentries, removed, disk, saves>>
        /\ \A h \in Generation \ {generation'} : cache'[h] = cache[h]
        /\ cache'[generation'] = disk
        /\ generation' > generation /\ generation' \in Generation
        /\ generation' = generation + 1
    BY <1>6, LoadEffect DEF async_load
  <2>2. \A h \in Generation : h > generation => saves[h] = <<>>
    BY NotYetHearing DEF NothingTooEarly
  <2>3. OnlyByWizard(cache'[generation'], saves'[generation'], known)
    <3>1. cache'[generation'] = disk /\ saves'[generation'] = <<>>
      <4>1. saves[generation'] = <<>>
        BY <2>1, <2>2
      <4>2. QED
        BY <2>1, <4>1
    <3>2. \A s \in Switch \ known : disk[s] = NoRecord
      BY DEF RecordsAreKnown
    <3>3. QED
      BY <3>1, <3>2 DEF OnlyByWizard
  <2>4. ASSUME NEW h \in 1..generation', h # generation'
        PROVE  OnlyByWizard(cache'[h], saves'[h], known)
    <3>1. h \in 1..generation /\ h \in Generation
      BY <1>0, <2>1, <2>4, Numbers
    <3>2. QED
      BY <2>1, <2>4, <3>1 DEF RecordsAreKnown
  <2>5. QED
    BY <2>1, <2>3, <2>4 DEF RecordsAreKnown
<1>7. CASE \/ \E s \in Switch, c \in Counter : _handle_advertisement(s, c)
           \/ \E g \in Generation, s \in Switch : Fire(g, s)
           \/ \E t \in timers : FireTimer(t)
           \/ UpdateEntry \/ async_unload_entry \/ FindStale \/ FinishSetup
  <2>1. UNCHANGED <<generation, subentries, removed, disk, cache, saves>>
    BY <1>7 DEF _handle_advertisement, Fire, FireTimer, UpdateEntry, async_unload_entry,
                FindStale, FinishSetup
  <2>2. QED
    BY <2>1 DEF RecordsAreKnown
<1>8. ASSUME NEW s \in Switch, RemoveSubentry(s)
      PROVE  RecordsAreKnown'
  <2>1. /\ UNCHANGED <<generation, disk, cache, saves>>
        /\ known' = known /\ subentries' \cap removed' = {}
    BY <1>8 DEF RemoveSubentry, RecordsAreKnown
  <2>2. QED
    BY <2>1 DEF RecordsAreKnown
<1>9. QED
  BY <1>2, <1>3, <1>4, <1>5, <1>6, <1>7, <1>8 DEF Next

-----------------------------------------------------------------------------
(* What holds as long as every reload found the integration idle: then no    *)
(* generation but the one in charge does anything.                           *)

\* Only its tasks, its saves and its wizards do anything.
LEMMA InCharge ==
  ASSUME IInv, Next, ~overlap'
  PROVE  /\ ~overlap /\ Orderly
         /\ \A g \in Generation, s \in Switch : task[g][s].stage # "none" =>
              g = generation /\ phase = "loaded"
         /\ \A g \in Generation : saves[g] # <<>> =>
              g = generation /\ phase \in {"loaded", "reconciling"}
         /\ \A g \in Generation, s \in Switch : _async_step_key_entry(g, s) =>
              g = generation /\ phase = "loaded"
         /\ async_unload_entry => Idle
<1>1. ~overlap
  BY DEF Next, _handle_advertisement, TakeCounter, Fire, FireTimer, SaveDone,
         _async_step_key_entry, RemoveSubentry, RemoveStale, UpdateEntry,
         async_unload_entry, async_load, FindStale, FinishSetup, IInv, TypeOK
<1>2. Orderly
  BY <1>1 DEF IInv
<1>3. \A g \in Generation, s \in Switch : _async_step_key_entry(g, s) =>
        g = generation /\ phase = "loaded"
  BY DEF _async_step_key_entry
<1>4. async_unload_entry => Idle
  BY DEF async_unload_entry
<1>5. phase \in Phase
  BY DEF IInv, TypeOK
<1>6. QED
  BY <1>1, <1>2, <1>3, <1>4, <1>5 DEF Orderly, OthersIdle, Phase

\* Generations that are not in charge stay idle.
LEMMA OthersIdleStep == IInv /\ Next /\ ~overlap' => OthersIdle'
<1> SUFFICES ASSUME IInv, Next, ~overlap' PROVE OthersIdle'
  OBVIOUS
<1>0. OthersIdle /\ TypeOK /\ TasksAwaitSaves /\ NothingTooEarly
  BY InCharge DEF Orderly, IInv
<1>1. ASSUME NEW s \in Switch, NEW c \in Counter, _handle_advertisement(s, c)
      PROVE  OthersIdle'
  <2>1. [stage |-> "waiting", counter |-> c] \in Task /\ generation \in Generation
    BY <1>0 DEF Task, Stage, TypeOK
  <2>2. TaskIs(generation, s, "waiting", c)
    BY <1>0, <1>1, <2>1, TaskChanges DEF _handle_advertisement
  <2>3. phase = "loaded" /\ UNCHANGED <<generation, phase, saves>>
    BY <1>1 DEF _handle_advertisement
  <2>4. QED
    BY <1>0, <2>2, <2>3 DEF OthersIdle, TaskIs
<1>2. ASSUME NEW g \in Generation, NEW s \in Switch, TakeCounter(g, s)
      PROVE  OthersIdle'
  <2>1. g = generation /\ phase = "loaded" /\ UNCHANGED <<generation, phase>>
    BY <1>2, InCharge DEF TakeCounter
  <2>2. /\ \A h \in Generation \ {g} : saves'[h] = saves[h]
        /\ \A h \in Generation \ {g}, r \in Switch : task'[h][r] = task[h][r]
    BY <1>0, <1>2, TakeEffect DEF Stored, TaskIs
  <2>3. QED
    BY <1>0, <2>1, <2>2 DEF OthersIdle
<1>3. ASSUME NEW g \in Generation, NEW s \in Switch, Fire(g, s)
      PROVE  OthersIdle'
  <2>1. TaskIs(g, s, "none", 0) /\ UNCHANGED <<generation, phase, saves>>
    BY <1>0, <1>3, FireEffect DEF Fire
  <2>2. \A h \in Generation, r \in Switch :
          task[h][r].stage = "none" => task'[h][r].stage = "none"
    BY <2>1 DEF TaskIs
  <2>3. QED
    BY <1>0, <2>1, <2>2 DEF OthersIdle
<1>4. ASSUME NEW g \in Generation, SaveDone(g)
      PROVE  OthersIdle'
  <2>1. g = generation /\ UNCHANGED <<generation, phase>>
        /\ phase \in {"loaded", "reconciling"} /\ Ended(g)
    BY <1>0, <1>4, SaveEnds, InCharge DEF SaveDone
  <2>2. ASSUME phase = "reconciling"
        PROVE  UNCHANGED task /\ \A i \in DOMAIN saves'[g] : saves'[g][i].by = "removal"
    <3>1. \A i \in DOMAIN saves[g] : saves[g][i].by = "removal"
      BY <1>0, <2>1, <2>2 DEF OthersIdle
    <3>2. UNCHANGED task
      BY <1>0, <1>4, <2>1, <3>1, DoneEffect DEF Ended
    <3>3. QED
      BY <2>1, <3>1, <3>2 DEF Ended
  <2>3. \A h \in Generation \ {g} : saves'[h] = saves[h]
    BY <2>1 DEF Ended
  <2>4. \A h \in Generation \ {g}, r \in Switch : task'[h][r] = task[h][r]
    <3>1. saves[g][1].switch \in Switch
      BY <2>1 DEF Ended
    <3>2. QED
      BY <1>0, <1>4, <3>1, DoneEffect DEF TaskIs
  <2>5. QED
    BY <1>0, <2>1, <2>2, <2>3, <2>4 DEF OthersIdle
<1>5. ASSUME NEW g \in Generation, NEW s \in Switch, _async_step_key_entry(g, s)
      PROVE  OthersIdle'
  <2>1. g = generation /\ phase = "loaded" /\ UNCHANGED <<generation, phase, task>>
        /\ Stored(g, s, NoCounter, "wizard")
    BY <1>0, <1>5, InCharge, AddEffect DEF _async_step_key_entry
  <2>2. QED
    BY <1>0, <2>1 DEF OthersIdle, Stored
<1>6. ASSUME NEW s \in Switch, RemoveStale(s)
      PROVE  OthersIdle'
  <2>1. Stored(generation, s, NoRecord, "removal") /\ UNCHANGED <<generation, phase, task>>
        /\ phase = "reconciling"
    BY <1>0, <1>6, RemoveEffect DEF RemoveStale
  <2>2. \A i \in DOMAIN saves'[generation] : saves'[generation][i].by = "removal"
    BY <1>0, <2>1 DEF OthersIdle, Stored
  <2>3. QED
    BY <1>0, <2>1, <2>2 DEF OthersIdle, Stored
<1>7. CASE async_load
  <2>1. phase = "unloaded" /\ phase' = "read" /\ UNCHANGED <<task, saves>>
    BY <1>7 DEF async_load
  <2>2. \A h \in Generation : saves[h] = <<>> /\ \A s \in Switch : task[h][s].stage = "none"
    BY <1>0, <2>1 DEF OthersIdle
  <2>3. QED
    BY <2>1, <2>2 DEF OthersIdle
<1>8. CASE async_unload_entry
  <2>1. Idle /\ UNCHANGED <<generation, task, saves>> /\ phase' = "unloaded"
    BY <1>8, InCharge DEF async_unload_entry
  <2>2. QED
    BY <2>1 DEF OthersIdle, Idle
<1>9. CASE FindStale
  <2>1. UNCHANGED <<generation, task, saves>> /\ phase = "read" /\ phase' = "reconciling"
        /\ generation \in Generation
    BY <1>0, <1>9 DEF FindStale, TypeOK
  <2>2. saves[generation] = <<>>
    BY <1>0, <2>1 DEF OthersIdle
  <2>3. QED
    BY <1>0, <2>1, <2>2 DEF OthersIdle
<1>10. CASE \/ \E t \in timers : FireTimer(t)
            \/ \E s \in Switch : RemoveSubentry(s)
            \/ UpdateEntry
  <2>1. UNCHANGED <<generation, phase, task, saves>>
    BY <1>10 DEF FireTimer, RemoveSubentry, UpdateEntry
  <2>2. QED
    BY <1>0, <2>1 DEF OthersIdle
<1>11. CASE FinishSetup
  <2>1. UNCHANGED <<generation, task, saves>> /\ phase = "reconciling" /\ phase' = "loaded"
    BY <1>11 DEF FinishSetup
  <2>2. QED
    BY <1>0, <2>1 DEF OthersIdle
<1>12. QED
  BY <1>1, <1>2, <1>3, <1>4, <1>5, <1>6, <1>7, <1>8, <1>9, <1>10, <1>11 DEF Next

\* The steps that store a record, as long as the integration reloads idle.
LEMMA StoresInOrder ==
  ASSUME IInv, Next, ~overlap', NEW s \in Switch,
         \/ \E g \in Generation : TakeCounter(g, s) \/ _async_step_key_entry(g, s)
         \/ RemoveStale(s)
  PROVE  \/ UNCHANGED <<generation, phase, reload, subentries, removed, cache, disk,
                        saves, stale, events>>
         \/ \E value \in Value, waiter \in Waiter :
              /\ UNCHANGED <<generation, phase, reload, subentries, removed, disk>>
              /\ Stored(generation, s, value, waiter)
              /\ \/ /\ phase = "loaded" /\ waiter \in {"task", "wizard"}
                    /\ cache[generation][s] # NoRecord \/ waiter = "wizard"
                    /\ value > cache[generation][s] /\ value # NoRecord
                    /\ stale' = stale
                 \/ /\ phase = "reconciling" /\ waiter = "removal" /\ value = NoRecord
                    /\ s \in stale /\ stale' = stale \ {s}
<1>0. TypeOK /\ TasksAwaitSaves /\ generation \in Generation
  BY DEF IInv, TypeOK
<1>1. ASSUME NEW g \in Generation, TakeCounter(g, s)
      PROVE  \/ UNCHANGED <<cache, saves>>
             \/ /\ Stored(generation, s, task[g][s].counter, "task")
                /\ task[g][s].counter \in Counter
                /\ phase = "loaded" /\ cache[generation][s] # NoRecord
                /\ task[g][s].counter > cache[generation][s]
  <2>1. g = generation /\ phase = "loaded"
    BY <1>1, InCharge DEF TakeCounter
  <2>2. cache[g][s] # NoRecord /\ task[g][s].counter \in Counter
    BY <1>0, <1>1 DEF TakeCounter, TasksAwaitSaves
  <2>3. QED
    BY <1>0, <1>1, <2>1, <2>2, TakeEffect
<1>2. ASSUME NEW g \in Generation, TakeCounter(g, s)
      PROVE  UNCHANGED <<generation, phase, reload, subentries, removed, disk, stale, events>>
  BY <1>2 DEF TakeCounter
<1>3. ASSUME NEW g \in Generation, _async_step_key_entry(g, s)
      PROVE  /\ UNCHANGED <<generation, phase, reload, subentries, removed, disk, stale>>
             /\ Stored(generation, s, NoCounter, "wizard")
             /\ phase = "loaded" /\ cache[generation][s] = NoRecord
  BY <1>0, <1>3, InCharge, AddEffect DEF _async_step_key_entry
<1>4. ASSUME RemoveStale(s)
      PROVE  /\ UNCHANGED <<generation, phase, reload, subentries, removed, disk>>
             /\ Stored(generation, s, NoRecord, "removal")
             /\ phase = "reconciling" /\ s \in stale /\ stale' = stale \ {s}
  BY <1>0, <1>4, RemoveEffect DEF RemoveStale
<1>5. /\ "task" \in Waiter /\ "wizard" \in Waiter /\ "removal" \in Waiter
      /\ NoCounter \in Value /\ NoRecord \in Value /\ NoCounter > NoRecord
      /\ NoCounter # NoRecord
      /\ \A c \in Counter : c \in Value /\ c # NoRecord
  BY CounterAssumption DEF Waiter, Value, NoCounter, NoRecord
<1>6. QED
  BY <1>1, <1>2, <1>3, <1>4, <1>5

\* All other steps but the end of a save and the load leave them alone.
LEMMA LeavesRecords ==
  ASSUME \/ \E s \in Switch, c \in Counter : _handle_advertisement(s, c)
         \/ \E g \in Generation, s \in Switch : Fire(g, s)
         \/ \E t \in timers : FireTimer(t)
         \/ \E s \in Switch : RemoveSubentry(s)
         \/ UpdateEntry \/ async_unload_entry \/ FindStale \/ FinishSetup
  PROVE  UNCHANGED <<generation, cache, disk, saves>>
BY DEF _handle_advertisement, Fire, FireTimer, RemoveSubentry, UpdateEntry,
       async_unload_entry, FindStale, FinishSetup

\* The last save asked for is the cache, or the file is.
LEMMA LastSavedStep == IInv /\ Next /\ ~overlap' => LastSaved'
<1> SUFFICES ASSUME IInv, Next, ~overlap' PROVE LastSaved'
  OBVIOUS
<1>0. LastSaved /\ OthersIdle /\ TypeOK /\ NothingTooEarly
  BY InCharge DEF Orderly, IInv
<1>1. ASSUME NEW s \in Switch,
             \/ \E g \in Generation : TakeCounter(g, s) \/ _async_step_key_entry(g, s)
             \/ RemoveStale(s)
      PROVE  LastSaved'
  <2>1. CASE UNCHANGED <<generation, cache, disk, saves>>
    BY <1>0, <2>1 DEF LastSaved
  <2>2. ASSUME NEW value, NEW waiter, Stored(generation, s, value, waiter),
               UNCHANGED generation
        PROVE  LastSaved'
    BY <2>2 DEF LastSaved, Stored
  <2>3. QED
    BY <1>1, <2>1, <2>2, StoresInOrder
<1>2. ASSUME NEW g \in Generation, SaveDone(g)
      PROVE  LastSaved'
  <2>1. g = generation /\ UNCHANGED <<generation, cache>> /\ Ended(g)
    BY <1>0, <1>2, SaveEnds, InCharge DEF SaveDone
  <2>2. QED
    BY <1>0, <2>1 DEF LastSaved, Ended
<1>3. CASE async_load
  <2>1. /\ phase = "unloaded" /\ UNCHANGED <<disk, saves>>
        /\ cache'[generation'] = disk /\ generation' \in Generation
    BY <1>0, <1>3, LoadEffect DEF async_load
  <2>2. saves[generation'] = <<>>
    BY <1>0, <2>1, InCharge
  <2>3. QED
    BY <2>1, <2>2 DEF LastSaved
<1>4. CASE UNCHANGED <<generation, cache, disk, saves>>
  BY <1>0, <1>4 DEF LastSaved
<1>5. QED
  BY <1>1, <1>2, <1>3, <1>4, LeavesRecords DEF Next

\* What the file and the saves hold of a switch is no more than its record.
LEMMA RiseToCache ==
  ASSUME TypeOK, LastSaved, SavesRise, NEW s \in Switch,
         phase = "loaded" \/ s \in subentries
  PROVE  /\ disk[s] <= cache[generation][s]
         /\ \A i \in DOMAIN saves[generation] : saves[generation][i].data[s] <= cache[generation][s]
<1> DEFINE queue == saves[generation]
<1>1. generation \in Generation /\ disk[s] \in Int /\ cache[generation][s] \in Int
  BY Numbers
<1>2. queue \in Seq(Save)
  BY <1>1 DEF TypeOK
<1>3. \A i \in DOMAIN queue : /\ disk[s] <= queue[i].data[s]
                              /\ \A j \in DOMAIN queue :
                                   i < j => queue[i].data[s] <= queue[j].data[s]
  BY DEF SavesRise
<1>4. CASE queue = <<>>
  BY <1>1, <1>4 DEF LastSaved
<1>5. CASE queue # <<>>
  <2> DEFINE last == Len(queue)
  <2>1. cache[generation] = queue[last].data
    BY <1>5 DEF LastSaved
  <2>2. last \in DOMAIN queue /\ DOMAIN queue = 1 .. last /\ last \in Nat
    BY <1>2, <1>5
  <2> HIDE DEF last, queue
  <2>3. disk[s] <= cache[generation][s]
    BY <1>3, <2>1, <2>2
  <2>4. ASSUME NEW i \in DOMAIN queue PROVE queue[i].data[s] <= cache[generation][s]
    <3>1. i < last \/ i = last
      BY <2>2
    <3>2. QED
      BY <1>1, <1>3, <2>1, <2>2, <3>1
  <2>5. QED
    BY <2>3, <2>4 DEF queue
<1>6. QED
  BY <1>4, <1>5

\* When the reconciliation ends, its removals have been saved.
LEMMA NothingToSave ==
  ASSUME TypeOK, OthersIdle, FinishSetup
  PROVE  saves[generation] = <<>>
<1>1. \A i \in DOMAIN saves[generation] : FALSE
  BY DEF FinishSetup, Removing, OthersIdle
<1>2. saves[generation] \in Seq(Save)
  BY DEF TypeOK
<1>3. saves[generation] # <<>> => 1 \in DOMAIN saves[generation]
  BY <1>2
<1>4. QED
  BY <1>1, <1>3

\* No save takes back what a save before it made of a record, but a removal's.
LEMMA SavesRiseStep == IInv /\ Next /\ ~overlap' => SavesRise'
<1> SUFFICES ASSUME IInv, Next, ~overlap' PROVE SavesRise'
  OBVIOUS
<1>0. /\ LastSaved /\ SavesRise /\ OthersIdle /\ RecordsFollowSubentries
      /\ TypeOK /\ TasksAwaitSaves /\ NothingTooEarly
      /\ generation \in Generation
  BY InCharge DEF Orderly, IInv, TypeOK
<1>1. ASSUME NEW s \in Switch,
             \/ \E g \in Generation : TakeCounter(g, s) \/ _async_step_key_entry(g, s)
             \/ RemoveStale(s)
      PROVE  SavesRise'
  <2>1. CASE UNCHANGED <<generation, phase, subentries, disk, saves>>
    BY <1>0, <2>1 DEF SavesRise
  <2>2. ASSUME NEW value \in Value, NEW waiter,
               UNCHANGED <<generation, phase, subentries, disk>>,
               Stored(generation, s, value, waiter),
               \/ phase = "loaded" /\ value > cache[generation][s]
               \/ phase = "reconciling" /\ s \in stale
        PROVE  SavesRise'
    <3> SUFFICES ASSUME NEW r \in Switch, phase = "loaded" \/ r \in subentries,
                        NEW i \in DOMAIN saves'[generation]
                 PROVE  /\ disk[r] <= saves'[generation][i].data[r]
                        /\ \A j \in DOMAIN saves'[generation] : i < j =>
                             saves'[generation][i].data[r] <= saves'[generation][j].data[r]
      BY <2>2 DEF SavesRise
    <3>1. PICK n \in Nat :
            /\ DOMAIN saves'[generation] = DOMAIN saves[generation] \cup {n}
            /\ \A k \in DOMAIN saves[generation] :
                 k < n /\ saves'[generation][k] = saves[generation][k]
            /\ saves'[generation][n].data = cache'[generation]
      BY <2>2 DEF Stored
    <3>2. \A k \in DOMAIN saves[generation] : k \in Nat
      BY <2>2 DEF Stored
    <3>3. cache[generation][r] <= cache'[generation][r]
          /\ cache[generation][r] \in Int /\ cache'[generation][r] \in Int
      <4>1. r # s => cache'[generation][r] = cache[generation][r]
        BY <2>2 DEF Stored
      <4>2. cache'[generation][s] = value /\ value \in Int
        BY <1>0, <2>2, Numbers DEF Stored
      <4>3. phase = "reconciling" => r # s
        BY <1>0, <2>2 DEF RecordsFollowSubentries
      <4>4. cache[generation][r] \in Int
        BY <1>0, Numbers
      <4>5. CASE r = s
        BY <2>2, <4>2, <4>3, <4>4, <4>5
      <4>6. QED
        BY <4>1, <4>4, <4>5
    <3>4. /\ disk[r] <= cache[generation][r] /\ disk[r] \in Int
          /\ \A k \in DOMAIN saves[generation] :
               /\ saves[generation][k].data[r] <= cache[generation][r]
               /\ saves[generation][k].data[r] \in Int
      <4>1. \A k \in DOMAIN saves[generation] : saves[generation][k].data[r] \in Int
        BY <1>0, SaveTypes, Numbers
      <4>2. QED
        BY <1>0, <4>1, RiseToCache, Numbers
    <3>5. CASE i \in DOMAIN saves[generation]
      <4>1. disk[r] <= saves[generation][i].data[r]
        BY <1>0, <3>5 DEF SavesRise
      <4>2. ASSUME NEW j \in DOMAIN saves'[generation], i < j
            PROVE  saves'[generation][i].data[r] <= saves'[generation][j].data[r]
        <5>1. CASE j \in DOMAIN saves[generation]
          BY <1>0, <3>1, <3>5, <4>2, <5>1 DEF SavesRise
        <5>2. CASE j = n
          BY <3>1, <3>3, <3>4, <3>5, <5>2
        <5>3. QED
          BY <3>1, <5>1, <5>2
      <4>3. QED
        BY <3>1, <3>5, <4>1, <4>2
    <3>6. CASE i = n
      <4>1. disk[r] <= saves'[generation][n].data[r]
        BY <3>1, <3>3, <3>4
      <4>2. \A j \in DOMAIN saves'[generation] : ~(n < j)
        BY <3>1, <3>2
      <4>3. QED
        BY <3>6, <4>1, <4>2
    <3>7. QED
      BY <3>1, <3>5, <3>6
  <2>3. QED
    BY <1>1, <2>1, <2>2, StoresInOrder
<1>2. ASSUME NEW g \in Generation, SaveDone(g)
      PROVE  SavesRise'
  <2>1. g = generation /\ UNCHANGED <<generation, phase>> /\ Ended(g)
        /\ phase \in {"loaded", "reconciling"}
    BY <1>0, <1>2, SaveEnds, InCharge DEF SaveDone
  <2>2. phase = "reconciling" => UNCHANGED subentries
    <3>1. phase = "reconciling" => saves[g][1].by = "removal"
      BY <1>0, <2>1 DEF OthersIdle, Ended
    <3>2. QED
      BY <1>0, <1>2, <3>1, DoneEffect
  <2> SUFFICES ASSUME NEW r \in Switch, phase = "loaded" \/ r \in subentries,
                      NEW i \in DOMAIN saves'[generation]
               PROVE  /\ disk'[r] <= saves'[generation][i].data[r]
                      /\ \A j \in DOMAIN saves'[generation] : i < j =>
                           saves'[generation][i].data[r] <= saves'[generation][j].data[r]
    BY <2>1, <2>2 DEF SavesRise
  <2>3. /\ \A j \in DOMAIN saves'[generation] :
             /\ j \in Nat \ {0} /\ j + 1 \in DOMAIN saves[generation] /\ 1 < j + 1
             /\ saves'[generation][j] = saves[generation][j + 1]
        /\ 1 \in DOMAIN saves[generation] /\ disk' = saves[generation][1].data
    BY <2>1 DEF Ended
  <2>4. \A k, j \in DOMAIN saves[generation] :
          k < j => saves[generation][k].data[r] <= saves[generation][j].data[r]
    BY <1>0 DEF SavesRise
  <2>5. \A j \in DOMAIN saves'[generation] : i < j => i + 1 < j + 1
    BY <2>3
  <2>6. QED
    BY <2>3, <2>4, <2>5
<1>3. CASE async_load
  <2>1. phase = "unloaded" /\ UNCHANGED saves /\ generation' \in Generation
    BY <1>0, <1>3, LoadEffect DEF async_load
  <2>2. saves'[generation'] = <<>>
    BY <1>0, <2>1 DEF OthersIdle
  <2>3. QED
    BY <2>2 DEF SavesRise
<1>4. CASE FinishSetup \/ FindStale \/ async_unload_entry
  <2>1. saves[generation] = <<>> /\ UNCHANGED <<generation, saves>>
    <3>1. CASE FinishSetup
      BY <1>0, <3>1, NothingToSave DEF FinishSetup
    <3>2. CASE FindStale
      BY <1>0, <3>2 DEF FindStale, OthersIdle
    <3>3. CASE async_unload_entry
      BY <1>0, <3>3, InCharge DEF async_unload_entry, Idle
    <3>4. QED
      BY <1>4, <3>1, <3>2, <3>3
  <2>2. QED
    BY <2>1 DEF SavesRise
<1>5. CASE \/ \E s \in Switch, c \in Counter : _handle_advertisement(s, c)
           \/ \E g \in Generation, s \in Switch : Fire(g, s)
           \/ \E t \in timers : FireTimer(t)
           \/ \E s \in Switch : RemoveSubentry(s)
           \/ UpdateEntry
  <2>1. UNCHANGED <<generation, phase, disk, saves>> /\ subentries' \subseteq subentries
    BY <1>5 DEF _handle_advertisement, Fire, FireTimer, RemoveSubentry, UpdateEntry
  <2>2. QED
    BY <1>0, <2>1 DEF SavesRise
<1>6. QED
  BY <1>1, <1>2, <1>3, <1>4, <1>5 DEF Next

\* The records in charge are those of the subentries, or of wizards still adding.
LEMMA FollowStep == IInv /\ Next /\ ~overlap' => RecordsFollowSubentries'
<1> SUFFICES ASSUME IInv, Next, ~overlap' PROVE RecordsFollowSubentries'
  OBVIOUS
<1>0. /\ LastSaved /\ OthersIdle /\ RecordsFollowSubentries /\ RecordsAreKnown
      /\ TypeOK /\ TasksAwaitSaves /\ NothingTooEarly
      /\ generation \in Generation
  BY InCharge DEF Orderly, IInv, TypeOK
<1>1. ASSUME NEW s \in Switch,
             \/ \E g \in Generation : TakeCounter(g, s) \/ _async_step_key_entry(g, s)
             \/ RemoveStale(s)
      PROVE  RecordsFollowSubentries'
  <2>1. CASE UNCHANGED <<generation, phase, reload, subentries, cache, disk, saves, stale>>
    BY <1>0, <2>1 DEF RecordsFollowSubentries, Settled
  <2>2. ASSUME NEW value \in Value, NEW waiter,
               UNCHANGED <<generation, phase, reload, subentries, disk>>,
               Stored(generation, s, value, waiter),
               \/ /\ phase = "loaded"
                  /\ cache[generation][s] # NoRecord \/ waiter = "wizard"
                  /\ value # NoRecord
                  /\ stale' = stale
               \/ /\ phase = "reconciling" /\ waiter = "removal" /\ value = NoRecord
                  /\ s \in stale /\ stale' = stale \ {s}
        PROVE  RecordsFollowSubentries'
    <3>1. /\ cache'[generation][s] = value
          /\ \A r \in Switch \ {s} : cache'[generation][r] = cache[generation][r]
      BY <2>2 DEF Stored
    <3>2. \A r \in subentries : cache'[generation][r] # NoRecord
      BY <1>0, <2>2, <3>1 DEF RecordsFollowSubentries, TypeOK
    <3>3. ASSUME NEW r \in Switch, NEW i \in DOMAIN saves'[generation],
                 ByWizard(saves'[generation], i, r)
          PROVE  cache'[generation][r] # NoRecord
      <4>1. PICK n \in Nat :
              /\ DOMAIN saves'[generation] = DOMAIN saves[generation] \cup {n}
              /\ \A k \in DOMAIN saves[generation] :
                   saves'[generation][k] = saves[generation][k]
              /\ saves'[generation][n].by = waiter
              /\ saves'[generation][n].switch = s
        BY <2>2 DEF Stored
      <4>2. CASE phase = "loaded"
        <5>1. CASE i = n
          BY <2>2, <3>1, <3>3, <4>1, <4>2, <5>1 DEF ByWizard
        <5>2. CASE i \in DOMAIN saves[generation]
          <6>1. cache[generation][r] # NoRecord
            BY <1>0, <3>3, <4>1, <5>2 DEF RecordsFollowSubentries, ByWizard
          <6>2. QED
            BY <2>2, <3>1, <4>2, <6>1
        <5>3. QED
          BY <4>1, <5>1, <5>2
      <4>3. CASE phase = "reconciling"
        <5>1. \A k \in DOMAIN saves[generation] : saves[generation][k].by = "removal"
          BY <1>0, <4>3 DEF OthersIdle
        <5>2. QED
          BY <2>2, <3>3, <4>1, <4>3, <5>1 DEF ByWizard
      <4>4. QED
        BY <2>2, <4>2, <4>3
    <3>4. phase = "reconciling" =>
            /\ stale' \cap subentries = {}
            /\ \A r \in Switch \ subentries : cache'[generation][r] # NoRecord => r \in stale'
      BY <1>0, <2>2, <3>1 DEF RecordsFollowSubentries
    <3>5. Settled => OnlyByWizard(cache'[generation], saves'[generation], subentries)
      <4>1. Settled => OnlyByWizard(cache[generation], saves[generation], subentries)
        BY <1>0 DEF RecordsFollowSubentries
      <4>2. cache[generation][s] # NoRecord \/ value = NoRecord \/ waiter = "wizard"
        BY <2>2
      <4>3. QED
        BY <1>0, <2>2, <4>1, <4>2, StoredByWizard
    <3>6. Settled => \A r \in Switch \ subentries : disk[r] = NoRecord
      BY <1>0 DEF RecordsFollowSubentries
    <3>7. QED
      BY <2>2, <3>2, <3>3, <3>4, <3>5, <3>6 DEF RecordsFollowSubentries, Settled
  <2>3. QED
    BY <1>1, <2>1, <2>2, StoresInOrder
<1>2. ASSUME NEW g \in Generation, SaveDone(g)
      PROVE  RecordsFollowSubentries'
  <2>1. g = generation /\ UNCHANGED <<generation, phase, cache, stale>> /\ Ended(g)
        /\ phase \in {"loaded", "reconciling"}
    BY <1>0, <1>2, SaveEnds, InCharge DEF SaveDone
  <2>2. \/ saves[g][1].by # "wizard" /\ UNCHANGED <<subentries, reload>>
        \/ /\ saves[g][1].by = "wizard"
           /\ subentries' = subentries \cup {saves[g][1].switch}
           /\ reload' = (reload \/ phase = "loaded")
    BY <1>0, <1>2, DoneEffect
  <2>3. phase = "reconciling" => saves[g][1].by = "removal"
    BY <1>0, <2>1 DEF OthersIdle, Ended
  <2>4. \A r \in subentries' : cache[generation][r] # NoRecord
    <3>1. saves[g][1].by = "wizard" => cache[generation][saves[g][1].switch] # NoRecord
      BY <1>0, <2>1 DEF RecordsFollowSubentries, ByWizard, Ended
    <3>2. QED
      BY <1>0, <2>2, <3>1 DEF RecordsFollowSubentries
  <2>5. \A r \in Switch, i \in DOMAIN saves'[generation] :
          ByWizard(saves'[generation], i, r) => cache[generation][r] # NoRecord
    BY <1>0, <2>1 DEF RecordsFollowSubentries, ByWizard, Ended
  <2>6. phase = "reconciling" =>
          /\ stale \cap subentries' = {}
          /\ \A r \in Switch \ subentries' : cache[generation][r] # NoRecord => r \in stale
    BY <1>0, <2>2, <2>3 DEF RecordsFollowSubentries
  <2>7. ASSUME phase = "loaded" /\ ~reload'
        PROVE  /\ \A r \in Switch \ subentries' : disk'[r] = NoRecord
               /\ OnlyByWizard(cache[generation], saves'[generation], subentries')
    <3>1. saves[g][1].by # "wizard" /\ UNCHANGED <<subentries, reload>>
      BY <2>2, <2>7, Zenon
    <3>2. Settled
      BY <2>7, <3>1 DEF Settled
    <3>3. OnlyByWizard(cache[generation], saves[generation], subentries)
      BY <1>0, <3>2 DEF RecordsFollowSubentries
    <3>4. /\ OnlyByWizard(cache'[g], saves'[g], subentries)
          /\ \A r \in Switch \ subentries : disk'[r] = NoRecord
      BY <1>0, <2>1, <3>1, <3>3, EndedByWizard
    <3>5. QED
      BY <2>1, <3>1, <3>4
  <2>8. QED
    BY <2>1, <2>4, <2>5, <2>6, <2>7 DEF RecordsFollowSubentries, Settled
<1>3. CASE async_load
  <2>1. /\ phase = "unloaded" /\ phase' = "read" /\ generation' \in Generation
        /\ UNCHANGED <<subentries, saves>> /\ cache'[generation'] = disk
    BY <1>0, <1>3, LoadEffect DEF async_load
  <2>2. saves[generation'] = <<>> /\ saves[generation] = <<>>
    BY <1>0, <2>1 DEF OthersIdle
  <2>3. disk = cache[generation]
    BY <1>0, <2>2 DEF LastSaved
  <2>4. \A r \in subentries : cache'[generation'][r] # NoRecord
    BY <1>0, <2>1, <2>3 DEF RecordsFollowSubentries
  <2>5. QED
    BY <2>1, <2>2, <2>4 DEF RecordsFollowSubentries, Settled
<1>4. CASE FindStale
  <2>1. /\ UNCHANGED <<generation, subentries, cache, disk, saves>>
        /\ phase' = "reconciling"
        /\ stale' = {s \in Switch : cache[generation][s] # NoRecord /\ s \notin subentries}
    BY <1>4 DEF FindStale
  <2>2. QED
    BY <1>0, <2>1 DEF RecordsFollowSubentries, Settled
<1>5. CASE FinishSetup
  <2>1. /\ UNCHANGED <<generation, subentries, cache, disk, saves, reload>>
        /\ phase = "reconciling" /\ phase' = "loaded" /\ stale = {}
    BY <1>5 DEF FinishSetup
  <2>2. saves[generation] = <<>>
    BY <1>0, <1>5, NothingToSave
  <2>3. \A r \in Switch \ subentries : cache[generation][r] = NoRecord
    BY <1>0, <2>1 DEF RecordsFollowSubentries
  <2>4. disk = cache[generation]
    BY <1>0, <2>2 DEF LastSaved
  <2>5. OnlyByWizard(cache[generation], saves[generation], subentries)
    BY <2>2, <2>3 DEF OnlyByWizard
  <2>6. QED
    BY <1>0, <2>1, <2>3, <2>4, <2>5 DEF RecordsFollowSubentries, Settled
<1>6. CASE async_unload_entry
  <2>1. /\ UNCHANGED <<generation, subentries, cache, saves>> /\ phase' = "unloaded"
    BY <1>6 DEF async_unload_entry
  <2>2. QED
    BY <1>0, <2>1 DEF RecordsFollowSubentries, Settled
<1>7. CASE UpdateEntry \/ \E s \in Switch : RemoveSubentry(s)
  <2>1. /\ UNCHANGED <<generation, phase, cache, saves>> /\ reload' = TRUE
        /\ phase = "loaded" /\ subentries' \subseteq subentries
    BY <1>7 DEF UpdateEntry, RemoveSubentry
  <2>2. QED
    BY <1>0, <2>1 DEF RecordsFollowSubentries, Settled
<1>8. CASE \/ \E s \in Switch, c \in Counter : _handle_advertisement(s, c)
           \/ \E g \in Generation, s \in Switch : Fire(g, s)
           \/ \E t \in timers : FireTimer(t)
  <2>1. UNCHANGED <<generation, phase, reload, subentries, cache, disk, saves, stale>>
    BY <1>8 DEF _handle_advertisement, Fire, FireTimer
  <2>2. QED
    BY <1>0, <2>1 DEF RecordsFollowSubentries, Settled
<1>9. QED
  BY <1>1, <1>2, <1>3, <1>4, <1>5, <1>6, <1>7, <1>8 DEF Next

\* Nothing that was heard is ahead of its switch's record, whatever was reloaded.
LEMMA BehindStep == IInv /\ Next /\ ~overlap' => AllEventsBehindRecord'
<1> SUFFICES ASSUME IInv, Next, ~overlap' PROVE AllEventsBehindRecord'
  OBVIOUS
<1>0. /\ AllEventsBehindRecord /\ LastSaved /\ OthersIdle
      /\ TypeOK /\ TasksAwaitSaves /\ NothingTooEarly
      /\ generation \in Generation
  BY InCharge DEF Orderly, IInv, TypeOK
<1>1. ASSUME NEW s \in Switch, NEW c \in Counter, _handle_advertisement(s, c)
      PROVE  AllEventsBehindRecord'
  <2>1. [stage |-> "waiting", counter |-> c] \in Task
    BY DEF Task, Stage
  <2>2. TaskIs(generation, s, "waiting", c) /\ UNCHANGED <<generation, cache, events>>
    BY <1>0, <1>1, <2>1, TaskChanges DEF _handle_advertisement
  <2>3. \A r \in Switch : task'[generation][r].stage \in Taken =>
                            task[generation][r].stage \in Taken
    BY <1>0, <2>2 DEF TaskIs, Taken
  <2>4. QED
    BY <1>0, <2>2, <2>3 DEF AllEventsBehindRecord, HeardUpTo
<1>2. ASSUME NEW g \in Generation, NEW s \in Switch, TakeCounter(g, s)
      PROVE  AllEventsBehindRecord'
  <2>1. UNCHANGED <<generation, events>> /\ g = generation /\ cache[generation][s] # NoRecord
    BY <1>0, <1>2, InCharge DEF TakeCounter, TasksAwaitSaves
  <2>2. CASE TaskIs(g, s, "none", 0) /\ UNCHANGED <<cache, saves>>
    BY <1>0, <2>1, <2>2 DEF AllEventsBehindRecord, HeardUpTo, TaskIs, Taken
  <2>3. CASE /\ Stored(g, s, task[g][s].counter, "task")
             /\ task[g][s].counter > cache[g][s]
             /\ \E stage \in {"trusting", "advancing"} :
                  TaskIs(g, s, stage, task[g][s].counter)
    <3>1. ASSUME NEW r \in Switch, r # s
          PROVE  cache'[generation][r] = cache[generation][r]
                 /\ task'[generation][r] = task[generation][r]
      BY <1>0, <2>1, <2>3, <3>1 DEF Stored, TaskIs
    <3>2. cache'[generation][s] = task[g][s].counter /\ task[g][s].counter \in Nat
          /\ task[g][s].counter > cache[generation][s]
      <4>1. task[g][s].counter \in Counter
        BY <1>0, <1>2 DEF TakeCounter, TasksAwaitSaves
      <4>2. task[g][s].counter \in Nat
        BY <4>1, CounterAssumption
      <4>3. QED
        BY <2>1, <2>3, <4>2 DEF Stored
    <3>3. ASSUME NEW r \in Switch, NEW i \in DOMAIN events[r],
                 cache'[generation][r] # NoRecord
          PROVE  /\ events[r][i].counter <= cache'[generation][r]
                 /\ task'[generation][r].stage \in Taken =>
                      events[r][i].counter < cache'[generation][r]
      <4>1. events[r][i].counter \in Int /\ cache[generation][r] \in Int
        BY <1>0, Numbers
      <4>2. CASE r = s
        <5>1. events[r][i].counter <= cache[generation][s]
          BY <1>0, <2>1, <4>2 DEF AllEventsBehindRecord, HeardUpTo
        <5>2. QED
          BY <3>2, <4>1, <4>2, <5>1
      <4>3. CASE r # s
        BY <1>0, <3>1, <3>3, <4>3 DEF AllEventsBehindRecord, HeardUpTo
      <4>4. QED
        BY <4>2, <4>3
    <3>4. QED
      BY <2>1, <3>3 DEF AllEventsBehindRecord, HeardUpTo
  <2>4. QED
    BY <1>0, <1>2, <2>2, <2>3, TakeEffect
<1>3. ASSUME NEW g \in Generation, NEW s \in Switch, Fire(g, s)
      PROVE  AllEventsBehindRecord'
  <2>1. /\ TaskIs(g, s, "none", 0) /\ UNCHANGED <<generation, cache>>
        /\ g = generation /\ phase = "loaded" /\ task[g][s].stage = "advanced"
    BY <1>0, <1>3, FireEffect, InCharge DEF Fire
  <2>2. Heard(s, task[g][s].counter)
    BY <1>0, <1>3, <2>1, FireEffect
  <2>3. task[g][s].counter = cache[generation][s] /\ cache[generation][s] \in Int
    BY <1>0, <2>1, Numbers DEF TasksAwaitSaves, Taken
  <2>4. PICK n \in Nat :
          /\ DOMAIN events'[s] = DOMAIN events[s] \cup {n}
          /\ \A i \in DOMAIN events[s] : events'[s][i] = events[s][i]
          /\ events'[s][n].counter = task[g][s].counter
    BY <2>2 DEF Heard
  <2>5. task'[generation][s].stage = "none"
        /\ \A r \in Switch \ {s} : task'[generation][r] = task[generation][r]
                                   /\ events'[r] = events[r]
    BY <1>0, <2>1, <2>2 DEF TaskIs, Heard
  <2>6. ASSUME NEW r \in Switch, NEW i \in DOMAIN events'[r], cache[generation][r] # NoRecord
        PROVE  /\ events'[r][i].counter <= cache[generation][r]
               /\ task'[generation][r].stage \in Taken =>
                    events'[r][i].counter < cache[generation][r]
    <3>1. CASE r # s
      BY <1>0, <2>5, <2>6, <3>1 DEF AllEventsBehindRecord, HeardUpTo
    <3>2. CASE r = s /\ i \in DOMAIN events[s]
      BY <1>0, <2>4, <2>5, <2>6, <3>2 DEF AllEventsBehindRecord, HeardUpTo, Taken
    <3>3. CASE r = s /\ i = n
      BY <2>3, <2>4, <2>5, <3>3 DEF Taken
    <3>4. QED
      BY <2>4, <2>6, <3>1, <3>2, <3>3
  <2>7. QED
    BY <2>1, <2>6 DEF AllEventsBehindRecord, HeardUpTo
<1>4. ASSUME NEW g \in Generation, SaveDone(g)
      PROVE  AllEventsBehindRecord'
  <2>1. UNCHANGED <<generation, cache, events>>
    BY <1>4 DEF SaveDone
  <2>2. \A r \in Switch : task'[generation][r].stage \in Taken =>
                            task[generation][r].stage \in Taken
    BY <1>0, <1>4, DoneEffect DEF TaskIs, Taken
  <2>3. QED
    BY <1>0, <2>1, <2>2 DEF AllEventsBehindRecord, HeardUpTo
<1>5. ASSUME NEW g \in Generation, NEW s \in Switch, _async_step_key_entry(g, s)
      PROVE  AllEventsBehindRecord'
  <2>1. \A r \in Switch : events'[r] = IF r = s THEN <<>> ELSE events[r]
    BY <1>0, <1>5, AddEffect
  <2>2. \A r \in Switch \ {s} : cache'[generation][r] = cache[generation][r]
    <3>1. Stored(g, s, NoCounter, "wizard")
      BY <1>0, <1>5, AddEffect
    <3>2. QED
      BY <1>0, <3>1 DEF Stored
  <2>3. UNCHANGED <<generation, task>>
    BY <1>5 DEF _async_step_key_entry
  <2>4. QED
    BY <1>0, <2>1, <2>2, <2>3 DEF AllEventsBehindRecord, HeardUpTo
<1>6. ASSUME NEW s \in Switch, RemoveStale(s)
      PROVE  AllEventsBehindRecord'
  <2>1. Stored(generation, s, NoRecord, "removal") /\ UNCHANGED <<generation, events, task>>
    BY <1>0, <1>6, RemoveEffect DEF RemoveStale
  <2>2. \A r \in Switch : cache'[generation][r] # NoRecord =>
                            r # s /\ cache'[generation][r] = cache[generation][r]
    BY <2>1 DEF Stored
  <2>3. QED
    BY <1>0, <2>1, <2>2 DEF AllEventsBehindRecord, HeardUpTo
<1>7. CASE async_load
  <2>1. /\ phase = "unloaded" /\ generation' \in Generation
        /\ UNCHANGED <<events, saves, task>> /\ cache'[generation'] = disk
        /\ generation' > generation /\ generation \in Int
    BY <1>0, <1>7, LoadEffect DEF async_load
  <2>2. saves[generation] = <<>> /\ \A r \in Switch : task[generation'][r].stage = "none"
    BY <1>0, <2>1 DEF OthersIdle
  <2>3. disk = cache[generation]
    BY <1>0, <2>2 DEF LastSaved
  <2>4. QED
    BY <1>0, <2>1, <2>2, <2>3 DEF AllEventsBehindRecord, HeardUpTo, Taken
<1>8. CASE \/ \E t \in timers : FireTimer(t)
           \/ \E s \in Switch : RemoveSubentry(s)
           \/ UpdateEntry \/ async_unload_entry \/ FindStale \/ FinishSetup
  <2>1. UNCHANGED <<generation, task, events, cache>>
    BY <1>8 DEF FireTimer, RemoveSubentry, UpdateEntry, async_unload_entry, FindStale,
                FinishSetup
  <2>2. QED
    BY <1>0, <2>1 DEF AllEventsBehindRecord, HeardUpTo
<1>9. QED
  BY <1>1, <1>2, <1>3, <1>4, <1>5, <1>6, <1>7, <1>8 DEF Next

\* What is heard is newer than all that was heard before.
LEMMA RiseStep == IInv /\ Next /\ ~overlap' => EventsRise'
<1> SUFFICES ASSUME IInv, Next, ~overlap' PROVE EventsRise'
  OBVIOUS
<1>0. EventsRise /\ AllEventsBehindRecord /\ TypeOK /\ TasksAwaitSaves
  BY InCharge DEF Orderly, IInv
<1>1. ASSUME NEW g \in Generation, NEW s \in Switch, Fire(g, s)
      PROVE  EventsRise'
  <2>1. g = generation /\ phase = "loaded" /\ task[g][s].stage = "advanced"
    BY <1>0, <1>1, InCharge DEF Fire
  <2>2. Heard(s, task[g][s].counter)
    BY <1>0, <1>1, <2>1, FireEffect
  <2>3. task[g][s].counter = cache[generation][s] /\ cache[generation][s] # NoRecord
    BY <1>0, <2>1 DEF TasksAwaitSaves, Taken
  <2>4. \A i \in DOMAIN events[s] : events[s][i].counter < task[g][s].counter
    BY <1>0, <2>1, <2>3 DEF AllEventsBehindRecord, HeardUpTo, Taken
  <2>5. PICK n \in Nat :
          /\ DOMAIN events'[s] = DOMAIN events[s] \cup {n}
          /\ \A i \in DOMAIN events[s] : i < n /\ events'[s][i] = events[s][i]
          /\ events'[s][n].counter = task[g][s].counter
    BY <2>2 DEF Heard
  <2>6. ASSUME NEW r \in Switch, NEW i \in DOMAIN events'[r], NEW j \in DOMAIN events'[r], i < j
        PROVE  events'[r][i].counter < events'[r][j].counter
    <3>1. CASE r # s
      BY <1>0, <2>2, <2>6, <3>1 DEF EventsRise, Heard
    <3>2. CASE r = s /\ i \in DOMAIN events[s] /\ j \in DOMAIN events[s]
      BY <1>0, <2>5, <2>6, <3>2 DEF EventsRise
    <3>3. CASE r = s /\ i \in DOMAIN events[s] /\ j = n
      BY <2>4, <2>5, <3>3
    <3>4. CASE r = s /\ i = n
      <4>1. j \in DOMAIN events[s] => j < n /\ j \in Nat
        BY <1>0, <2>5, Numbers
      <4>2. QED
        BY <2>5, <2>6, <3>4, <4>1
    <3>5. QED
      BY <2>5, <2>6, <3>1, <3>2, <3>3, <3>4
  <2>7. QED
    BY <2>6 DEF EventsRise
<1>2. ASSUME NEW g \in Generation, NEW s \in Switch, _async_step_key_entry(g, s)
      PROVE  EventsRise'
  <2>1. \A r \in Switch : events'[r] = IF r = s THEN <<>> ELSE events[r]
    BY <1>0, <1>2, AddEffect
  <2>2. QED
    BY <1>0, <2>1 DEF EventsRise
<1>3. CASE UNCHANGED events
  BY <1>0, <1>3 DEF EventsRise
<1>4. QED
  BY <1>1, <1>2, <1>3 DEF Next, _handle_advertisement, TakeCounter, FireTimer, SaveDone,
     RemoveSubentry, RemoveStale, UpdateEntry, async_unload_entry, async_load, FindStale,
     FinishSetup

\* The timers that run are those of the setup in charge.
LEMMA TimersStep == IInv /\ Next /\ ~overlap' => NoTimerOutlivesEntry'
<1> SUFFICES ASSUME IInv, Next, ~overlap' PROVE NoTimerOutlivesEntry'
  OBVIOUS
<1>0. NoTimerOutlivesEntry
  BY InCharge DEF Orderly
<1>1. ASSUME NEW g \in Generation, NEW s \in Switch, Fire(g, s)
      PROVE  NoTimerOutlivesEntry'
  <2>1. g = generation /\ phase = "loaded"
    BY <1>1, InCharge DEF Fire
  <2>2. QED
    BY <1>0, <1>1, <2>1 DEF Fire, NoTimerOutlivesEntry
<1>2. CASE async_unload_entry
  <2>1. \A t \in timers : t.generation = generation
    BY <1>0 DEF NoTimerOutlivesEntry
  <2>2. timers' = {}
    BY <1>2, <2>1 DEF async_unload_entry
  <2>3. QED
    BY <2>2 DEF NoTimerOutlivesEntry
<1>3. CASE async_load \/ FindStale \/ FinishSetup
  <2>1. timers = {} /\ UNCHANGED timers
    BY <1>0, <1>3 DEF async_load, FindStale, FinishSetup, NoTimerOutlivesEntry
  <2>2. QED
    BY <2>1 DEF NoTimerOutlivesEntry
<1>4. CASE timers' \subseteq timers /\ UNCHANGED <<generation, phase>>
  BY <1>0, <1>4 DEF NoTimerOutlivesEntry
<1>5. QED
  BY <1>1, <1>2, <1>3, <1>4 DEF Next, _handle_advertisement, TakeCounter, FireTimer,
     SaveDone, _async_step_key_entry, RemoveSubentry, RemoveStale, UpdateEntry

-----------------------------------------------------------------------------
(* The theorems.                                                             *)

\* Every step keeps the invariant.
LEMMA StepIInv == IInv /\ [Next]_vars => IInv'
<1> SUFFICES ASSUME IInv, [Next]_vars PROVE IInv'
  OBVIOUS
<1>1. CASE Next
  <2>1. ~overlap' => Orderly'
    BY <1>1, OthersIdleStep, LastSavedStep, SavesRiseStep, FollowStep, BehindStep,
       TimersStep, RiseStep DEF Orderly
  <2>2. QED
    BY <1>1, <2>1, TypeStep, TooEarlyStep, TasksStep, EventsStep, KnownStep DEF IInv
<1>2. CASE UNCHANGED vars
  <2>1. TypeOK'
    BY <1>2 DEF vars, IInv, TypeOK
  <2>2. NothingTooEarly' /\ TasksAwaitSaves'
    BY <1>2 DEF vars, IInv, NothingTooEarly, Hears, TasksAwaitSaves
  <2>3. EventsBehindRecord' /\ EventsRiseWithinGeneration' /\ RecordsAreKnown'
    BY <1>2 DEF vars, IInv, EventsBehindRecord, HeardUpTo, EventsRiseWithinGeneration,
                RecordsAreKnown
  <2>4. ~overlap' => Orderly
    BY <1>2 DEF vars, IInv
  <2>5. Orderly => OthersIdle' /\ LastSaved' /\ SavesRise'
    BY <1>2 DEF vars, Orderly, OthersIdle, LastSaved, SavesRise
  <2>6. Orderly => RecordsFollowSubentries'
    BY <1>2 DEF vars, Orderly, RecordsFollowSubentries, Settled
  <2>7. Orderly => AllEventsBehindRecord' /\ NoTimerOutlivesEntry' /\ EventsRise'
    BY <1>2 DEF vars, Orderly, AllEventsBehindRecord, HeardUpTo, NoTimerOutlivesEntry,
                EventsRise
  <2>8. QED
    BY <2>1, <2>2, <2>3, <2>4, <2>5, <2>6, <2>7 DEF IInv, Orderly
<1>3. QED
  BY <1>1, <1>2

\* Through any sequence of reloads, removals, additions and telegrams the
\* invariant holds, and its second half until a reload meets work under way.
THEOREM Inductive == Spec => []IInv
BY InitIInv, StepIInv, PTL DEF Spec

\* Every variable has its type.
THEOREM TypeCorrect == Spec => []TypeOK
<1>1. IInv => TypeOK
  BY DEF IInv
<1>2. QED
  BY <1>1, Inductive, PTL

\* A generation's events are strictly newer each time, and none is heard again
\* once another is in charge, whatever a reload overtakes.
THEOREM RisesWithinGeneration == Spec => []EventsRiseWithinGeneration
<1>1. IInv => EventsRiseWithinGeneration
  BY DEF IInv
<1>2. QED
  BY <1>1, Inductive, PTL

\* What the reconciliation takes for stale the user has removed, whatever wizard
\* and whatever save the reload has overtaken.
THEOREM OnlyRemovedIsStale == Spec => StaleMeansRemoved
<1>1. IInv /\ [Next]_vars =>
        [phase # "reconciling" /\ phase' = "reconciling" => stale' \subseteq removed]_vars
  <2> SUFFICES ASSUME IInv, Next, phase # "reconciling", phase' = "reconciling"
               PROVE  stale' \subseteq removed
    OBVIOUS
  <2>1. FindStale
    BY DEF Next, _handle_advertisement, TakeCounter, Fire, FireTimer, SaveDone,
       _async_step_key_entry, RemoveSubentry, RemoveStale, UpdateEntry,
       async_unload_entry, async_load, FinishSetup
  <2>2. phase = "read" /\ stale' = {s \in Switch : cache[generation][s] # NoRecord
                                                     /\ s \notin subentries}
    BY <2>1 DEF FindStale
  <2>3. TypeOK /\ NothingTooEarly /\ generation \in Generation
    BY DEF IInv, TypeOK
  <2>4. saves[generation] = <<>>
    BY <2>2, <2>3, NotYetHearing DEF NothingTooEarly
  <2>5. generation \in 1..generation
    BY <2>3, GenerationAssumption DEF Generation
  <2>6. OnlyByWizard(cache[generation], <<>>, subentries \cup removed)
    BY <2>4, <2>5 DEF IInv, RecordsAreKnown
  <2>7. QED
    BY <2>2, <2>6 DEF OnlyByWizard
<1>2. QED
  BY <1>1, Inductive, PTL DEF Spec, StaleMeansRemoved

\* As long as every reload found the integration idle, no telegram fires twice,
\* what was removed is gone, no timer is left over and every switch works.
THEOREM ReloadsInOrder == Spec => []OrderlyReload
<1>1. IInv => OrderlyReload
  <2> SUFFICES ASSUME IInv, ~overlap
               PROVE  EventsRise /\ RemovedIsGone /\ NoTimerOutlivesEntry /\ SubentryHasRecord
    BY DEF OrderlyReload
  <2>1. Orderly /\ RecordsAreKnown /\ TypeOK
    BY DEF IInv
  <2>2. RemovedIsGone
    BY <2>1 DEF Orderly, RecordsFollowSubentries, RecordsAreKnown, RemovedIsGone, TypeOK
  <2>3. SubentryHasRecord
    BY <2>1 DEF Orderly, RecordsFollowSubentries, SubentryHasRecord
  <2>4. QED
    BY <2>1, <2>2, <2>3 DEF Orderly
<1>2. QED
  BY <1>1, Inductive, PTL

\* ... and no counter falls back in the file while its switch is not removed.
THEOREM CountersNeverFallBack == Spec => ReplayStateNeverFallsBack
<1>1. IInv /\ [Next]_vars =>
        [~overlap' => \A s \in subentries \cap subentries' : disk[s] <= disk'[s]]_vars
  <2> SUFFICES ASSUME IInv, Next, ~overlap', NEW s \in subentries
               PROVE  disk[s] <= disk'[s]
    OBVIOUS
  <2>1. Orderly /\ TypeOK /\ s \in Switch
    BY InCharge DEF IInv, TypeOK
  <2>2. CASE UNCHANGED disk
    BY <2>1, <2>2, Numbers
  <2>3. ASSUME NEW g \in Generation, SaveDone(g)
        PROVE  disk[s] <= disk'[s]
    <3>1. g = generation
      BY <2>3, InCharge DEF SaveDone
    <3>2. 1 \in DOMAIN saves[g] /\ disk' = saves[g][1].data
      BY <2>1, <2>3, SaveEnds DEF Ended
    <3>3. QED
      BY <2>1, <3>1, <3>2 DEF Orderly, SavesRise
  <2>4. QED
    BY <2>2, <2>3 DEF Next, _handle_advertisement, TakeCounter, Fire, FireTimer,
       _async_step_key_entry, RemoveSubentry, RemoveStale, UpdateEntry,
       async_unload_entry, async_load, FindStale, FinishSetup
<1>2. QED
  BY <1>1, Inductive, PTL DEF Spec, ReplayStateNeverFallsBack
=============================================================================
