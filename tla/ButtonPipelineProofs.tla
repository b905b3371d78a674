------------------------ MODULE ButtonPipelineProofs ------------------------
(***************************************************************************)
(* Proofs about ButtonPipeline, for every set of switches, every set of    *)
(* counters and any number of telegrams, failed saves and restarts.        *)
(***************************************************************************)
EXTENDS ButtonPipeline, TLAPS

-----------------------------------------------------------------------------
(* Types. *)

\* The record a save appends is a Write, whoever asks for it.
LEMMA AsyncSaveType ==
  ASSUME TypeOK, NEW s \in Switch, NEW owner \in Switch \cup {Wizard},
         NEW value \in Value, set_counter(s, value), async_save(owner)
  PROVE  cache' \in Snapshot /\ writes' \in Seq(Write)
<1>1. cache' \in Snapshot
  BY DEF TypeOK, set_counter, Snapshot
<1>2. [by |-> owner, data |-> cache'] \in Write
  BY <1>1 DEF Write
<1>3. QED
  BY <1>1, <1>2 DEF TypeOK, async_save

TypeInv == TypeOK /\ LockHasHolder /\ SaveHasTask

\* A save asked for joins at the end of the queue of saves.
LEMMA AsyncSaveAppends ==
  ASSUME TypeOK, NEW owner \in Switch \cup {Wizard}, async_save(owner),
         cache' \in Snapshot
  PROVE  \E n \in Nat :
           /\ \A i \in DOMAIN writes : i \in Nat /\ i < n
           /\ \A i \in DOMAIN writes' :
                \/ i \in DOMAIN writes /\ writes'[i] = writes[i]
                \/ i = n /\ writes'[i].by = owner /\ writes'[i].data = cache'
<1>1. [by |-> owner, data |-> cache'] \in Write
  BY DEF Write
<1>2. writes \in Seq(Write) /\ Len(writes) + 1 \in Nat
  BY DEF TypeOK
<1>3. \A i \in DOMAIN writes : i \in Nat /\ i < Len(writes) + 1
  BY <1>2
<1>4. ASSUME NEW i \in DOMAIN writes'
      PROVE  \/ i \in DOMAIN writes /\ writes'[i] = writes[i]
             \/ /\ i = Len(writes) + 1
                /\ writes'[i] = [by |-> owner, data |-> cache']
  BY <1>1, <1>2, <1>4 DEF async_save
<1>5. QED
  BY <1>2, <1>3, <1>4

\* The end of the oldest save: the others move up by one place.
LEMMA SaveEnds ==
  ASSUME TypeOK, writes # <<>>, writes' = Tail(writes)
  PROVE  /\ Head(writes) = writes[1] /\ 1 \in DOMAIN writes
         /\ writes[1] \in Write
         /\ writes[1].data \in Snapshot /\ writes[1].by \in Switch \cup {Wizard}
         /\ writes' \in Seq(Write)
         /\ DOMAIN writes \subseteq Nat
         /\ \A i \in DOMAIN writes' : /\ i + 1 \in DOMAIN writes
                                     /\ i \in Nat /\ i + 1 # 1
                                     /\ writes'[i] = writes[i + 1]
<1>1. writes \in Seq(Write) /\ Len(writes) \in Nat /\ Len(writes) > 0
  BY DEF TypeOK
<1>2. writes[1] \in Write /\ Head(writes) = writes[1]
  BY <1>1
<1>3. QED
  BY <1>1, <1>2 DEF Write

\* The telegram at the head of a queue is a telegram.
LEMMA HeadType ==
  ASSUME TypeOK, NEW s \in Switch, queue[s] # <<>>
  PROVE  /\ Telegram(s) \in Ptm216bTelegram
         /\ Telegram(s).counter \in Counter
         /\ Telegram(s).counter \in Nat
<1>1. queue[s] \in Seq(Ptm216bTelegram)
  BY DEF TypeOK
<1>2. Telegram(s) \in Ptm216bTelegram
  BY <1>1 DEF Telegram
<1>3. QED
  BY <1>2, CounterAssumption DEF Ptm216bTelegram

\* Releasing the lock leaves the types alone.
LEMMA ReleaseLockType ==
  ASSUME TypeInv, NEW s \in Switch, queue[s] # <<>>, ReleaseLock(s)
  PROVE  /\ queue' \in [Switch -> Seq(Ptm216bTelegram)]
         /\ stage' \in [Switch -> Stage]
         /\ LockHasHolder'
<1>1. queue[s] \in Seq(Ptm216bTelegram) /\ Tail(queue[s]) \in Seq(Ptm216bTelegram)
  BY DEF TypeInv, TypeOK
<1>2. queue' \in [Switch -> Seq(Ptm216bTelegram)] /\ stage' \in [Switch -> Stage]
  BY <1>1 DEF TypeInv, TypeOK, ReleaseLock, Stage
<1>3. LockHasHolder'
  BY DEF TypeInv, TypeOK, LockHasHolder, ReleaseLock
<1>4. QED
  BY <1>2, <1>3

\* A task that ends is not waiting for a save, so it leaves no save behind.
LEMMA ReleaseLockSaves ==
  ASSUME TypeInv, NEW s \in Switch, ReleaseLock(s), UNCHANGED writes,
         ~Saving(s)
  PROVE  SaveHasTask'
<1>1. \A r \in Switch : Saving(r) => stage'[r] = stage[r]
  BY DEF TypeInv, TypeOK, ReleaseLock
<1>2. QED
  BY <1>1 DEF TypeInv, SaveHasTask, Saving

\* Every step keeps the types, and every held lock in the hands of a task.
LEMMA TypeStep == TypeInv /\ [Next]_vars => TypeInv'
<1> SUFFICES ASSUME TypeInv, [Next]_vars PROVE TypeInv'
  OBVIOUS
<1>1. ASSUME NEW s \in Switch, async_add(s) PROVE TypeInv'
  <2>1. cache' \in Snapshot /\ writes' \in Seq(Write)
    BY <1>1, AsyncSaveType DEF async_add, Value, TypeInv
  <2>2. SaveHasTask'
    <3>1. PICK n \in Nat :
            /\ \A i \in DOMAIN writes : i \in Nat /\ i < n
            /\ \A i \in DOMAIN writes' :
                 \/ i \in DOMAIN writes /\ writes'[i] = writes[i]
                 \/ /\ i = n /\ writes'[i].by = Wizard
                    /\ writes'[i].data = cache'
      BY <1>1, <2>1, AsyncSaveAppends DEF TypeInv, async_add
    <3>2. QED
      BY <1>1, <3>1, WizardAssumption DEF TypeInv, SaveHasTask, Saving, async_add
  <2>3. QED
    BY <1>1, <2>1, <2>2 DEF TypeInv, TypeOK, LockHasHolder, async_add
<1>2. ASSUME NEW s \in Switch, RejectAdvertisement(s) PROVE TypeInv'
  BY <1>2 DEF TypeInv, TypeOK, LockHasHolder, SaveHasTask, Saving,
              RejectAdvertisement
<1>3. ASSUME NEW s \in Switch, NEW t \in Ptm216bTelegram, CreateTask(s, t)
      PROVE  TypeInv'
  <2>1. queue' \in [Switch -> Seq(Ptm216bTelegram)]
    BY <1>3 DEF TypeInv, TypeOK, CreateTask
  <2>2. \A r \in Switch : queue[r] # <<>> => queue'[r] # <<>>
    BY <1>3 DEF TypeInv, TypeOK, CreateTask
  <2>3. TypeOK'
    BY <1>3, <2>1 DEF TypeInv, TypeOK, CreateTask
  <2>4. LockHasHolder' /\ SaveHasTask'
    BY <1>3, <2>2 DEF TypeInv, LockHasHolder, SaveHasTask, Saving, CreateTask
  <2>5. QED
    BY <2>3, <2>4 DEF TypeInv
<1>4. ASSUME NEW s \in Switch, FirstTrust(s) PROVE TypeInv'
  <2>1. Telegram(s).counter \in Counter
    BY <1>4, HeadType DEF FirstTrust, HasLock, TypeInv
  <2>2. cache' \in Snapshot /\ writes' \in Seq(Write)
    BY <1>4, <2>1, AsyncSaveType DEF FirstTrust, Value, TypeInv
  <2>3. TypeOK'
    BY <1>4, <2>1, <2>2 DEF TypeInv, TypeOK, FirstTrust, Stage
  <2>4. LockHasHolder'
    BY <1>4 DEF TypeInv, TypeOK, LockHasHolder, FirstTrust, HasLock
  <2>5. \A i \in DOMAIN writes : writes[i].by # s
    BY <1>4 DEF TypeInv, SaveHasTask, Saving, FirstTrust, HasLock
  <2>6. SaveHasTask'
    <3>1. PICK n \in Nat :
            /\ \A i \in DOMAIN writes : i \in Nat /\ i < n
            /\ \A i \in DOMAIN writes' :
                 \/ i \in DOMAIN writes /\ writes'[i] = writes[i]
                 \/ i = n /\ writes'[i].by = s /\ writes'[i].data = cache'
      BY <1>4, <2>2, AsyncSaveAppends DEF TypeInv, FirstTrust
    <3>2. \A r \in Switch : Saving(r) => Saving(r)'
      BY <1>4 DEF TypeInv, TypeOK, Saving, FirstTrust
    <3>3. Saving(s)'
      BY <1>4 DEF TypeInv, TypeOK, Saving, FirstTrust
    <3>4. QED
      BY <2>5, <3>1, <3>2, <3>3 DEF TypeInv, SaveHasTask
  <2>7. QED
    BY <2>3, <2>4, <2>6 DEF TypeInv
<1>5. ASSUME NEW s \in Switch, Accept(s) PROVE TypeInv'
  <2>1. Telegram(s).counter \in Counter
    BY <1>5, HeadType DEF Accept, HasLock, TypeInv
  <2>2. cache' \in Snapshot /\ writes' \in Seq(Write)
    BY <1>5, <2>1, AsyncSaveType DEF Accept, Value, TypeInv
  <2>3. TypeOK'
    BY <1>5, <2>1, <2>2 DEF TypeInv, TypeOK, Accept, Stage
  <2>4. LockHasHolder'
    BY <1>5 DEF TypeInv, TypeOK, LockHasHolder, Accept, HasLock
  <2>5. \A i \in DOMAIN writes : writes[i].by # s
    BY <1>5 DEF TypeInv, SaveHasTask, Saving, Accept, HasLock
  <2>6. SaveHasTask'
    <3>1. PICK n \in Nat :
            /\ \A i \in DOMAIN writes : i \in Nat /\ i < n
            /\ \A i \in DOMAIN writes' :
                 \/ i \in DOMAIN writes /\ writes'[i] = writes[i]
                 \/ i = n /\ writes'[i].by = s /\ writes'[i].data = cache'
      BY <1>5, <2>2, AsyncSaveAppends DEF TypeInv, Accept
    <3>2. \A r \in Switch : Saving(r) => Saving(r)'
      BY <1>5 DEF TypeInv, TypeOK, Saving, Accept
    <3>3. Saving(s)'
      BY <1>5 DEF TypeInv, TypeOK, Saving, Accept
    <3>4. QED
      BY <2>5, <3>1, <3>2, <3>3 DEF TypeInv, SaveHasTask
  <2>7. QED
    BY <2>3, <2>4, <2>6 DEF TypeInv
<1>6. ASSUME NEW s \in Switch, RejectReplay(s) PROVE TypeInv'
  <2>1. queue[s] # <<>> /\ ~Saving(s)
    BY <1>6 DEF RejectReplay, HasLock, Saving
  <2>2. SaveHasTask'
    BY <1>6, <2>1, ReleaseLockSaves DEF RejectReplay
  <2>3. QED
    BY <1>6, <2>1, <2>2, ReleaseLockType DEF TypeInv, TypeOK, RejectReplay
<1>7. ASSUME NEW s \in Switch, FinishFirstTrust(s) PROVE TypeInv'
  <2>1. queue[s] # <<>> /\ ~Saving(s)
    BY <1>7 DEF TypeInv, LockHasHolder, FinishFirstTrust, Saving
  <2>2. SaveHasTask'
    BY <1>7, <2>1, ReleaseLockSaves DEF FinishFirstTrust
  <2>3. QED
    BY <1>7, <2>1, <2>2, ReleaseLockType DEF TypeInv, TypeOK, FinishFirstTrust
<1>8. ASSUME NEW s \in Switch, Fire(s) PROVE TypeInv'
  <2>1. queue[s] # <<>> /\ Telegram(s) \in Ptm216bTelegram
    BY <1>8, HeadType DEF TypeInv, LockHasHolder, Fire
  <2>2. events' \in [Switch -> Seq(Ptm216bTelegram)]
    BY <1>8, <2>1 DEF TypeInv, TypeOK, Fire
  <2>3. SaveHasTask'
    BY <1>8, ReleaseLockSaves DEF Fire, Saving
  <2>4. QED
    BY <1>8, <2>1, <2>2, <2>3, ReleaseLockType DEF TypeInv, TypeOK, Fire
<1>9. ASSUME NEW s \in Switch, RejectStatus(s) PROVE TypeInv'
  <2>1. queue[s] # <<>> /\ ~Saving(s)
    BY <1>9 DEF TypeInv, LockHasHolder, RejectStatus, Saving
  <2>2. SaveHasTask'
    BY <1>9, <2>1, ReleaseLockSaves DEF RejectStatus
  <2>3. QED
    BY <1>9, <2>1, <2>2, ReleaseLockType DEF TypeInv, TypeOK, RejectStatus
<1>10. ASSUME NEW s \in Switch, SaveRaised(s) PROVE TypeInv'
  <2>1. queue[s] # <<>> /\ ~Saving(s)
    BY <1>10 DEF TypeInv, LockHasHolder, SaveRaised, Saving
  <2>2. SaveHasTask'
    BY <1>10, <2>1, ReleaseLockSaves DEF SaveRaised
  <2>3. QED
    BY <1>10, <2>1, <2>2, ReleaseLockType DEF TypeInv, TypeOK, SaveRaised
<1>11. ASSUME WriteDone \/ WriteFails PROVE TypeInv'
  <2>1. writes # <<>> /\ writes' = Tail(writes) /\ TypeOK
    BY <1>11 DEF TypeInv, WriteDone, WriteFails
  <2>2. stage' \in [Switch -> Stage] /\ disk' \in Snapshot
    BY <1>11, <2>1, SaveEnds
    DEF TypeInv, TypeOK, WriteDone, WriteFails, Resumed, Stage
  <2>3. TypeOK'
    BY <1>11, <2>1, <2>2, SaveEnds DEF TypeOK, WriteDone, WriteFails
  <2>4. \A s \in Switch : s # writes[1].by => stage'[s] = stage[s]
    BY <1>11, <2>1, SaveEnds DEF WriteDone, WriteFails, Resumed
  <2>5. LockHasHolder'
    BY <1>11, <2>1, <2>4, SaveEnds
    DEF TypeInv, LockHasHolder, SaveHasTask, Saving, WriteDone, WriteFails
  <2>6. SaveHasTask'
    <3>1. \A i \in DOMAIN writes' : /\ i + 1 \in DOMAIN writes
                                   /\ writes'[i] = writes[i + 1]
                                   /\ i \in Nat
      BY <2>1, SaveEnds
    <3>2. \A i \in DOMAIN writes' :
            writes'[i].by \in Switch => writes'[i].by # writes[1].by
      BY <2>1, SaveEnds DEF TypeInv, SaveHasTask
    <3>3. \A i \in DOMAIN writes' :
            writes'[i].by \in Switch =>
              stage'[writes'[i].by] \in {"trusting", "advancing"}
      BY <2>4, <3>1, <3>2 DEF TypeInv, SaveHasTask, Saving
    <3>4. \A i, j \in DOMAIN writes' :
            (writes'[i].by \in Switch /\ writes'[i].by = writes'[j].by) => i = j
      BY <3>1 DEF TypeInv, SaveHasTask
    <3>5. QED
      BY <3>3, <3>4 DEF SaveHasTask, Saving
  <2>7. QED
    BY <2>3, <2>5, <2>6 DEF TypeInv
<1>12. CASE Restart
  BY <1>12 DEF TypeInv, TypeOK, LockHasHolder, SaveHasTask, Restart, Stage
<1>13. CASE UNCHANGED vars
  BY <1>13 DEF TypeInv, TypeOK, LockHasHolder, SaveHasTask, Saving, vars
<1>14. QED
  BY <1>1, <1>2, <1>3, <1>4, <1>5, <1>6, <1>7, <1>8, <1>9, <1>10, <1>11, <1>12,
     <1>13 DEF Next, Radio, Task

\* Nothing is queued or saved at first.
LEMMA TypeInit == Init => TypeInv
BY DEF Init, TypeInv, TypeOK, LockHasHolder, SaveHasTask, Snapshot, Value, Stage

\* Every variable keeps its type, for any sets of switches and counters.
THEOREM TypeCorrect == Spec => []TypeOK
<1>1. Spec => []TypeInv
  BY TypeInit, TypeStep, PTL DEF Spec
<1>2. QED
  BY <1>1, PTL DEF TypeInv

-----------------------------------------------------------------------------
(* The store: file, saves under way and cache. *)

StoreInv ==
  TasksHaveRecord /\ HeadInCache /\ RisingChain /\ OwnSave /\ SavedIsDurable

\* Counters and the two marks below them are integers.
LEMMA ValueIsInt == Value \subseteq Int
BY CounterAssumption DEF Value, NoRecord, NoCounter

\* Raising one switch's counter and saving keeps the chain: the new snapshot
\* is at the top of it.
LEMMA AdvanceKeepsChain ==
  ASSUME TypeInv, TypeInv', RisingChain, NEW s \in Switch, NEW value \in Value,
         NEW owner \in Switch \cup {Wizard}, cache[s] <= value,
         set_counter(s, value), async_save(owner), UNCHANGED disk
  PROVE  RisingChain'
<1>1. \A r \in Switch : cache[r] \in Int /\ cache'[r] \in Int /\ disk[r] \in Int
  BY ValueIsInt DEF TypeInv, TypeOK, Snapshot
<1>2. \A r \in Switch : cache[r] <= cache'[r]
  <2>1. \A r \in Switch : cache'[r] = cache[r] \/ (r = s /\ cache'[r] = value)
    BY DEF TypeInv, TypeOK, Snapshot, set_counter
  <2>2. QED
    BY <1>1, <2>1
<1>3. PICK n \in Nat :
        /\ \A i \in DOMAIN writes : i \in Nat /\ i < n
        /\ \A i \in DOMAIN writes' :
             \/ i \in DOMAIN writes /\ writes'[i] = writes[i]
             \/ i = n /\ writes'[i].by = owner /\ writes'[i].data = cache'
  BY AsyncSaveAppends DEF TypeInv, TypeOK
<1>4. \A i \in DOMAIN writes, r \in Switch : writes[i].data[r] \in Int
  <2>1. \A i \in DOMAIN writes : writes[i] \in Write
    BY DEF TypeInv, TypeOK
  <2>2. QED
    BY <2>1, ValueIsInt DEF Write, Snapshot
<1>5. SUFFICES ASSUME NEW r \in Switch
      PROVE  /\ disk'[r] <= cache'[r]
             /\ \A i \in DOMAIN writes' : /\ disk'[r] <= writes'[i].data[r]
                                          /\ writes'[i].data[r] <= cache'[r]
             /\ \A i, j \in DOMAIN writes' :
                  i < j => writes'[i].data[r] <= writes'[j].data[r]
  BY DEF RisingChain
<1>6. disk'[r] <= cache'[r]
  BY <1>1, <1>2 DEF RisingChain
<1>7. ASSUME NEW i \in DOMAIN writes'
      PROVE  disk'[r] <= writes'[i].data[r] /\ writes'[i].data[r] <= cache'[r]
  BY <1>1, <1>2, <1>3, <1>4, <1>6 DEF RisingChain
<1>8. ASSUME NEW i \in DOMAIN writes', NEW j \in DOMAIN writes', i < j
      PROVE  writes'[i].data[r] <= writes'[j].data[r]
  <2>1. CASE j \in DOMAIN writes /\ writes'[j] = writes[j]
    BY <2>1, <1>3, <1>8 DEF RisingChain
  <2>2. CASE writes'[j].data = cache'
    BY <2>2, <1>7
  <2>3. QED
    BY <2>1, <2>2, <1>3
<1>9. QED
  BY <1>6, <1>7, <1>8

\* Taking a counter under the lock, whether on first trust or on acceptance,
\* keeps the whole of StoreInv.
LEMMA TakeCounter ==
  ASSUME TypeInv, TypeInv', StoreInv, NEW s \in Switch, HasLock(s),
         cache[s] <= Telegram(s).counter,
         set_counter(s, Telegram(s).counter), async_save(s),
         NEW saving \in {"trusting", "advancing"},
         stage' = [stage EXCEPT ![s] = saving], UNCHANGED <<disk, queue>>
  PROVE  StoreInv'
<1>1. Telegram(s).counter \in Value /\ Telegram(s).counter \in Nat
  BY HeadType DEF HasLock, Value, TypeInv
<1>2. RisingChain'
  BY <1>1, AdvanceKeepsChain DEF StoreInv
<1>3. cache'[s] = Telegram(s).counter /\ \A r \in Switch : r # s => cache'[r] = cache[r]
  BY DEF TypeInv, TypeOK, Snapshot, set_counter
<1>4. stage'[s] = saving /\ \A r \in Switch : r # s => stage'[r] = stage[r]
  BY DEF TypeInv, TypeOK
<1>5. TasksHaveRecord'
  BY <1>1, <1>3 DEF StoreInv, TasksHaveRecord, NoRecord
<1>6. HeadInCache'
  BY <1>3, <1>4 DEF StoreInv, HeadInCache, Telegram
<1>7. SavedIsDurable'
  BY <1>3, <1>4 DEF StoreInv, SavedIsDurable
<1>8. OwnSave'
  <2>1. PICK n \in Nat :
          /\ \A i \in DOMAIN writes : i \in Nat /\ i < n
          /\ \A i \in DOMAIN writes' :
               \/ i \in DOMAIN writes /\ writes'[i] = writes[i]
               \/ i = n /\ writes'[i].by = s /\ writes'[i].data = cache'
    BY AsyncSaveAppends DEF TypeInv, TypeOK
  <2>2. \A i \in DOMAIN writes : writes[i].by # s
    BY DEF TypeInv, SaveHasTask, Saving, HasLock
  <2>3. QED
    BY <1>3, <2>1, <2>2 DEF StoreInv, OwnSave
<1>9. QED
  BY <1>2, <1>5, <1>6, <1>7, <1>8 DEF StoreInv

\* The end of a task touches neither the store nor another switch.
LEMMA ReleaseLockStore ==
  ASSUME TypeInv, StoreInv, NEW s \in Switch, ReleaseLock(s), queue[s] # <<>>,
         UNCHANGED <<cache, disk, writes>>
  PROVE  StoreInv'
<1>1. stage'[s] = "idle" /\ \A r \in Switch : r # s =>
        stage'[r] = stage[r] /\ queue'[r] = queue[r]
  BY DEF TypeInv, TypeOK, ReleaseLock
<1>2. TasksHaveRecord' /\ HeadInCache' /\ SavedIsDurable'
  BY <1>1 DEF StoreInv, TasksHaveRecord, HeadInCache, SavedIsDurable, Telegram
<1>3. RisingChain' /\ OwnSave'
  BY DEF StoreInv, RisingChain, OwnSave
<1>4. QED
  BY <1>2, <1>3 DEF StoreInv

\* Every step keeps file, snapshots, cache and held lock in order.
LEMMA StoreStep == TypeInv /\ TypeInv' /\ StoreInv /\ [Next]_vars => StoreInv'
<1> SUFFICES ASSUME TypeInv, TypeInv', StoreInv, [Next]_vars PROVE StoreInv'
  OBVIOUS
<1>1. ASSUME NEW s \in Switch, async_add(s) PROVE StoreInv'
  <2>1. stage[s] = "idle" /\ queue[s] = <<>>
    BY <1>1 DEF TypeInv, LockHasHolder, StoreInv, TasksHaveRecord, async_add
  <2>2. RisingChain'
    BY <1>1, AdvanceKeepsChain
    DEF StoreInv, async_add, Value, NoRecord, NoCounter
  <2>3. \A r \in Switch : r # s => cache'[r] = cache[r]
    BY <1>1 DEF TypeInv, TypeOK, Snapshot, async_add, set_counter
  <2>4. TasksHaveRecord' /\ HeadInCache' /\ SavedIsDurable'
    BY <1>1, <2>1, <2>3
    DEF StoreInv, TasksHaveRecord, HeadInCache, SavedIsDurable, async_add, Telegram
  <2>5. OwnSave'
    <3>1. PICK n \in Nat :
            /\ \A i \in DOMAIN writes : i \in Nat /\ i < n
            /\ \A i \in DOMAIN writes' :
                 \/ i \in DOMAIN writes /\ writes'[i] = writes[i]
                 \/ /\ i = n /\ writes'[i].by = Wizard
                    /\ writes'[i].data = cache'
      BY <1>1, AsyncSaveAppends DEF TypeInv, TypeOK, async_add
    <3>2. \A i \in DOMAIN writes : writes[i].by # s
      BY <2>1 DEF TypeInv, SaveHasTask, Saving
    <3>3. QED
      BY <2>3, <3>1, <3>2, WizardAssumption DEF StoreInv, OwnSave
  <2>6. QED
    BY <2>2, <2>4, <2>5 DEF StoreInv
<1>2. ASSUME NEW s \in Switch, RejectAdvertisement(s) PROVE StoreInv'
  BY <1>2 DEF StoreInv, TasksHaveRecord, HeadInCache, RisingChain, OwnSave,
              SavedIsDurable, Telegram, RejectAdvertisement
<1>3. ASSUME NEW s \in Switch, NEW t \in Ptm216bTelegram, CreateTask(s, t)
      PROVE  StoreInv'
  <2>1. \A r \in Switch : queue[r] # <<>> => Head(queue'[r]) = Head(queue[r])
    BY <1>3 DEF TypeInv, TypeOK, CreateTask
  <2>2. \A r \in Switch : queue'[r] # <<>> => queue[r] # <<>> \/ r = s
    BY <1>3 DEF TypeInv, TypeOK, CreateTask
  <2>3. TasksHaveRecord'
    BY <1>3, <2>2 DEF StoreInv, TasksHaveRecord, CreateTask, CanReceive
  <2>4. HeadInCache'
    BY <1>3, <2>1
    DEF TypeInv, LockHasHolder, StoreInv, HeadInCache, Telegram, CreateTask
  <2>5. RisingChain' /\ OwnSave' /\ SavedIsDurable'
    BY <1>3 DEF StoreInv, RisingChain, OwnSave, SavedIsDurable, CreateTask
  <2>6. QED
    BY <2>3, <2>4, <2>5 DEF StoreInv
<1>4. ASSUME NEW s \in Switch, FirstTrust(s) PROVE StoreInv'
  <2>1. cache[s] <= Telegram(s).counter
    BY <1>4, HeadType DEF FirstTrust, HasLock, NoCounter, TypeInv
  <2>2. QED
    BY <1>4, <2>1, TakeCounter DEF FirstTrust
<1>5. ASSUME NEW s \in Switch, Accept(s) PROVE StoreInv'
  <2>1. cache[s] <= Telegram(s).counter
    <3>1. cache[s] \in Int
      BY ValueIsInt DEF TypeInv, TypeOK, Snapshot
    <3>2. Telegram(s).counter \in Int /\ Telegram(s).counter > cache[s]
      BY <1>5, HeadType DEF Accept, HasLock, TypeInv
    <3>3. QED
      BY <3>1, <3>2
  <2>2. QED
    BY <1>5, <2>1, TakeCounter DEF Accept
<1>6. ASSUME NEW s \in Switch, RejectReplay(s) PROVE StoreInv'
  BY <1>6, ReleaseLockStore DEF RejectReplay, HasLock
<1>7. ASSUME NEW s \in Switch, FinishFirstTrust(s) PROVE StoreInv'
  BY <1>7, ReleaseLockStore DEF FinishFirstTrust, TypeInv, LockHasHolder
<1>8. ASSUME NEW s \in Switch, Fire(s) PROVE StoreInv'
  BY <1>8, ReleaseLockStore DEF Fire, TypeInv, LockHasHolder
<1>9. ASSUME NEW s \in Switch, RejectStatus(s) PROVE StoreInv'
  BY <1>9, ReleaseLockStore DEF RejectStatus, TypeInv, LockHasHolder
<1>10. ASSUME NEW s \in Switch, SaveRaised(s) PROVE StoreInv'
  BY <1>10, ReleaseLockStore DEF SaveRaised, TypeInv, LockHasHolder
<1>11. ASSUME WriteDone \/ WriteFails PROVE StoreInv'
  <2>1. writes # <<>> /\ writes' = Tail(writes) /\ TypeOK
    BY <1>11 DEF TypeInv, WriteDone, WriteFails
  <2>2. \A s \in Switch : s # writes[1].by => stage'[s] = stage[s]
    BY <1>11, <2>1, SaveEnds DEF WriteDone, WriteFails, Resumed
  <2>3. writes[1].by \in Switch => stage[writes[1].by] # "idle"
    BY <2>1, SaveEnds DEF TypeInv, SaveHasTask, Saving
  <2>4. HeadInCache' /\ TasksHaveRecord'
    BY <1>11, <2>2, <2>3
    DEF StoreInv, HeadInCache, TasksHaveRecord, Telegram, WriteDone, WriteFails
  <2>5. OwnSave'
    BY <1>11, <2>1, SaveEnds DEF StoreInv, OwnSave, WriteDone, WriteFails
  <2>6. \A s \in Switch :
          /\ disk'[s] = disk[s] \/ disk'[s] = writes[1].data[s]
          /\ disk[s] <= writes[1].data[s] /\ writes[1].data[s] <= cache[s]
          /\ cache'[s] = cache[s]
    BY <1>11, <2>1, SaveEnds DEF StoreInv, RisingChain, WriteDone, WriteFails
  <2>7. \A s \in Switch :
          disk[s] \in Int /\ cache[s] \in Int /\ writes[1].data[s] \in Int
    BY <2>1, SaveEnds, ValueIsInt DEF TypeOK, Snapshot
  <2>8. \A i \in DOMAIN writes' :
          /\ i + 1 \in DOMAIN writes /\ writes'[i] = writes[i + 1]
          /\ i \in Nat /\ 1 \in DOMAIN writes /\ 1 < i + 1
    BY <2>1, SaveEnds
  <2>9. RisingChain'
    <3>1. SUFFICES ASSUME NEW s \in Switch
          PROVE  /\ disk'[s] <= cache'[s]
                 /\ \A i \in DOMAIN writes' : /\ disk'[s] <= writes'[i].data[s]
                                              /\ writes'[i].data[s] <= cache'[s]
                 /\ \A i, j \in DOMAIN writes' :
                      i < j => writes'[i].data[s] <= writes'[j].data[s]
      BY DEF RisingChain
    <3>2. disk'[s] <= cache'[s]
      BY <2>6, <2>7
    <3>3. ASSUME NEW i \in DOMAIN writes'
          PROVE  disk'[s] <= writes'[i].data[s] /\ writes'[i].data[s] <= cache'[s]
      <4>1. disk[s] <= writes'[i].data[s] /\ writes'[i].data[s] <= cache[s]
        BY <3>3, <2>8 DEF StoreInv, RisingChain
      <4>2. writes[1].data[s] <= writes'[i].data[s]
        BY <3>3, <2>8 DEF StoreInv, RisingChain
      <4>3. QED
        BY <4>1, <4>2, <2>6
    <3>4. ASSUME NEW i \in DOMAIN writes', NEW j \in DOMAIN writes', i < j
          PROVE  writes'[i].data[s] <= writes'[j].data[s]
      BY <3>4, <2>8 DEF StoreInv, RisingChain
    <3>5. QED
      BY <3>2, <3>3, <3>4
  <2>10. SavedIsDurable'
    <3>1. \A s \in Switch : disk[s] = cache[s] => disk'[s] = cache'[s]
      BY <2>6, <2>7
    <3>2. CASE WriteFails
      <4>1. writes[1].by \in Switch => stage'[writes[1].by] = "raised"
        BY <3>2, <2>1, SaveEnds DEF WriteFails, Resumed
      <4>2. QED
        BY <2>2, <3>1, <4>1 DEF StoreInv, SavedIsDurable
    <3>3. CASE WriteDone
      <4>1. writes[1].by \in Switch => disk'[writes[1].by] = cache'[writes[1].by]
        BY <3>3, <2>1, SaveEnds DEF StoreInv, OwnSave, WriteDone
      <4>2. QED
        BY <2>2, <3>1, <4>1 DEF StoreInv, SavedIsDurable
    <3>4. QED
      BY <1>11, <3>2, <3>3
  <2>11. QED
    BY <2>4, <2>5, <2>9, <2>10 DEF StoreInv
<1>12. CASE Restart
  <2>1. \A s \in Switch : disk[s] \in Int
    BY ValueIsInt DEF TypeInv, TypeOK, Snapshot
  <2>2. QED
    BY <1>12, <2>1 DEF StoreInv, TasksHaveRecord, HeadInCache, RisingChain,
                       OwnSave, SavedIsDurable, Restart
<1>13. CASE UNCHANGED vars
  BY <1>13 DEF StoreInv, TasksHaveRecord, HeadInCache, RisingChain, OwnSave,
               SavedIsDurable, Telegram, vars
<1>14. QED
  BY <1>1, <1>2, <1>3, <1>4, <1>5, <1>6, <1>7, <1>8, <1>9, <1>10, <1>11, <1>12,
     <1>13 DEF Next, Radio, Task

\* Every store is empty at first.
LEMMA StoreInit == Init => StoreInv
BY DEF Init, StoreInv, TasksHaveRecord, HeadInCache, RisingChain, OwnSave,
       SavedIsDurable, NoRecord

\* File, snapshots, cache and held lock are in order in every reachable state.
LEMMA StoreCorrect == Spec => [](TypeInv /\ StoreInv)
<1>1. Spec => []TypeInv
  BY TypeInit, TypeStep, PTL DEF Spec
<1>2. Spec => []StoreInv
  BY <1>1, StoreInit, StoreStep, PTL DEF Spec
<1>3. QED
  BY <1>1, <1>2, PTL

\* No step moves a switch's durable counter back, and none drops its record.
THEOREM NeverFallsBack == Spec => DiskNeverFallsBack
<1>1. TypeInv /\ StoreInv /\ [Next]_vars =>
        [\A s \in Switch : disk[s] <= disk'[s]]_vars
  <2> SUFFICES ASSUME TypeInv, StoreInv, Next, NEW s \in Switch
      PROVE  disk[s] <= disk'[s]
    OBVIOUS
  <2>1. disk[s] \in Int
    BY ValueIsInt DEF TypeInv, TypeOK, Snapshot
  <2>2. CASE WriteDone
    BY <2>2, SaveEnds DEF TypeInv, StoreInv, RisingChain, WriteDone
  <2>3. CASE UNCHANGED disk
    BY <2>1, <2>3
  <2>4. QED
    BY <2>2, <2>3
    DEF Next, Radio, Task, async_add, RejectAdvertisement, CreateTask,
        FirstTrust, Accept, RejectReplay, FinishFirstTrust, Fire, RejectStatus,
        SaveRaised, WriteFails, Restart
<1>2. QED
  BY <1>1, StoreCorrect, PTL DEF Spec, DiskNeverFallsBack

-----------------------------------------------------------------------------
(* Events. *)

EventInv == EventsBelowHead /\ DurableBeforeEvent /\ EventsStrictlyRise

\* The counters of fired events, of the file and of the cache are integers.
LEMMA CounterTypes ==
  ASSUME TypeInv, NEW s \in Switch
  PROVE  /\ cache[s] \in Int
         /\ disk[s] \in Int
         /\ \A i \in DOMAIN events[s] : /\ i \in Nat
                                       /\ events[s][i].counter \in Int
<1>1. cache[s] \in Int /\ disk[s] \in Int
  BY ValueIsInt DEF TypeInv, TypeOK, Snapshot
<1>2. events[s] \in Seq(Ptm216bTelegram)
  BY DEF TypeInv, TypeOK
<1>3. \A i \in DOMAIN events[s] : i \in Nat /\ events[s][i] \in Ptm216bTelegram
  BY <1>2
<1>4. ASSUME NEW t \in Ptm216bTelegram PROVE t.counter \in Int
  <2>1. t.counter \in Counter
    BY DEF Ptm216bTelegram
  <2>2. t.counter \in Nat
    BY <2>1, CounterAssumption
  <2>3. QED
    BY <2>2
<1>5. QED
  BY <1>1, <1>3, <1>4

\* Firing puts the head's telegram at the end of the switch's events.
LEMMA FireAppends ==
  ASSUME TypeInv, NEW s \in Switch, Fire(s)
  PROVE  /\ \A r \in Switch : r # s => events'[r] = events[r]
         /\ \E n \in Nat :
              /\ \A i \in DOMAIN events[s] : i \in Nat /\ i < n
              /\ \A i \in DOMAIN events'[s] :
                   \/ i \in DOMAIN events[s] /\ events'[s][i] = events[s][i]
                   \/ i = n /\ events'[s][i] = Telegram(s)
<1>1. Telegram(s) \in Ptm216bTelegram
  BY HeadType DEF Fire, TypeInv, LockHasHolder
<1>2. events[s] \in Seq(Ptm216bTelegram) /\ events'[s] = Append(events[s], Telegram(s))
  BY DEF TypeInv, TypeOK, Fire
<1>3. \A i \in DOMAIN events[s] : i \in Nat /\ i < Len(events[s]) + 1
  BY <1>2
<1>4. \A i \in DOMAIN events'[s] :
        \/ i \in DOMAIN events[s] /\ events'[s][i] = events[s][i]
        \/ i = Len(events[s]) + 1 /\ events'[s][i] = Telegram(s)
  BY <1>1, <1>2
<1>5. Len(events[s]) + 1 \in Nat
  BY <1>2
<1>6. \A r \in Switch : r # s => events'[r] = events[r]
  BY DEF TypeInv, TypeOK, Fire
<1>7. QED
  BY <1>3, <1>4, <1>5, <1>6

\* At the moment of firing, the telegram's counter is in the file and above
\* the counter of every event before it.
LEMMA FiredCounter ==
  ASSUME TypeInv, StoreInv, EventInv, NEW s \in Switch, Fire(s)
  PROVE  /\ Telegram(s).counter = cache[s]
         /\ Telegram(s).counter = disk[s]
         /\ \A i \in DOMAIN events[s] : events[s][i].counter < Telegram(s).counter
BY DEF StoreInv, HeadInCache, SavedIsDurable, EventInv, EventsBelowHead, Fire

\* Only Fire adds an event, and the one it adds is durable and the newest.
LEMMA EventStep ==
  TypeInv /\ TypeInv' /\ StoreInv /\ StoreInv' /\ EventInv /\ [Next]_vars
    => EventInv'
<1> SUFFICES ASSUME TypeInv, TypeInv', StoreInv, StoreInv', EventInv, [Next]_vars
    PROVE  EventInv'
  OBVIOUS
<1>1. ASSUME NEW s \in Switch, Fire(s) PROVE EventInv'
  <2>1. PICK n \in Nat :
          /\ \A i \in DOMAIN events[s] : i \in Nat /\ i < n
          /\ \A i \in DOMAIN events'[s] :
               \/ i \in DOMAIN events[s] /\ events'[s][i] = events[s][i]
               \/ i = n /\ events'[s][i] = Telegram(s)
    BY <1>1, FireAppends
  <2>2. \A r \in Switch : r # s => events'[r] = events[r]
    BY <1>1, FireAppends
  <2>3. stage'[s] = "idle" /\ \A r \in Switch : r # s => stage'[r] = stage[r]
    BY <1>1 DEF Fire, ReleaseLock, TypeInv, TypeOK
  <2>4. UNCHANGED <<cache, disk>>
    BY <1>1 DEF Fire
  <2>5. EventsBelowHead'
    BY <2>2, <2>3, <2>4 DEF EventInv, EventsBelowHead
  <2>6. disk[s] <= disk[s]
    BY CounterTypes
  <2>7. DurableBeforeEvent'
    BY <1>1, <2>1, <2>2, <2>4, <2>6, FiredCounter DEF EventInv, DurableBeforeEvent
  <2>8. ASSUME NEW i \in DOMAIN events'[s], NEW j \in DOMAIN events'[s], i < j
        PROVE  events'[s][i].counter < events'[s][j].counter
    <3>1. i \in DOMAIN events[s] /\ events'[s][i] = events[s][i]
      BY <2>1, <2>8
    <3>2. QED
      BY <1>1, <2>1, <3>1, <2>8, FiredCounter DEF EventInv, EventsStrictlyRise
  <2>9. EventsStrictlyRise'
    BY <2>2, <2>8 DEF EventInv, EventsStrictlyRise
  <2>10. QED
    BY <2>5, <2>7, <2>9 DEF EventInv
<1>2. ASSUME UNCHANGED events, \A s \in Switch : disk[s] <= disk'[s]
      PROVE  DurableBeforeEvent' /\ EventsStrictlyRise'
  <2>1. \A s \in Switch : disk[s] \in Int /\ disk'[s] \in Int
    BY ValueIsInt DEF TypeInv, TypeOK, Snapshot
  <2>2. \A s \in Switch : \A i \in DOMAIN events[s] : events[s][i].counter \in Int
    BY CounterTypes
  <2>3. QED
    BY <1>2, <2>1, <2>2 DEF EventInv, DurableBeforeEvent, EventsStrictlyRise
<1>3. \A s \in Switch : disk[s] <= disk[s]
  BY CounterTypes
<1>4. ASSUME UNCHANGED <<events, disk>>, EventsBelowHead' PROVE EventInv'
  BY <1>2, <1>3, <1>4 DEF EventInv
<1>5. ASSUME UNCHANGED <<events, disk>>,
             \A s \in Switch : stage'[s] \in {"advancing", "advanced"} =>
               stage[s] \in {"advancing", "advanced"} /\ cache'[s] = cache[s]
      PROVE  EventInv'
  BY <1>4, <1>5 DEF EventInv, EventsBelowHead
<1>6. ASSUME NEW s \in Switch, async_add(s) PROVE EventInv'
  <2>1. stage[s] = "idle"
    BY <1>6 DEF TypeInv, LockHasHolder, StoreInv, TasksHaveRecord, async_add
  <2>2. \A r \in Switch : r # s => cache'[r] = cache[r]
    BY <1>6 DEF TypeInv, TypeOK, Snapshot, async_add, set_counter
  <2>3. QED
    BY <1>5, <1>6, <2>1, <2>2 DEF async_add
<1>7. ASSUME NEW s \in Switch, Radio(s) PROVE EventInv'
  BY <1>5, <1>7 DEF Radio, RejectAdvertisement, CreateTask
<1>8. ASSUME NEW s \in Switch, FirstTrust(s) PROVE EventInv'
  <2>1. \A r \in Switch : r # s => cache'[r] = cache[r] /\ stage'[r] = stage[r]
    BY <1>8 DEF TypeInv, TypeOK, Snapshot, FirstTrust, set_counter
  <2>2. stage'[s] = "trusting"
    BY <1>8 DEF TypeInv, TypeOK, FirstTrust
  <2>3. QED
    BY <1>5, <1>8, <2>1, <2>2 DEF FirstTrust
<1>9. ASSUME NEW s \in Switch, Accept(s) PROVE EventInv'
  <2>1. \A r \in Switch : r # s => cache'[r] = cache[r] /\ stage'[r] = stage[r]
    BY <1>9 DEF TypeInv, TypeOK, Snapshot, Accept, set_counter
  <2>2. cache'[s] = Telegram(s).counter
    BY <1>9 DEF TypeInv, TypeOK, Snapshot, Accept, set_counter
  <2>3. /\ cache[s] \in Int /\ disk[s] \in Int /\ cache'[s] \in Int
        /\ \A i \in DOMAIN events[s] : events[s][i].counter \in Int
    BY CounterTypes, ValueIsInt DEF TypeInv, TypeOK, Snapshot
  <2>4. disk[s] <= cache[s] /\ cache[s] < cache'[s]
    BY <1>9, <2>2, <2>3 DEF Accept, StoreInv, RisingChain
  <2>5. \A i \in DOMAIN events[s] : events[s][i].counter <= disk[s]
    BY DEF EventInv, DurableBeforeEvent
  <2>6. \A i \in DOMAIN events[s] : events[s][i].counter < cache'[s]
    BY <2>3, <2>4, <2>5
  <2>7. EventsBelowHead'
    BY <1>9, <2>1, <2>6 DEF EventInv, EventsBelowHead, Accept
  <2>8. QED
    BY <1>4, <1>9, <2>7 DEF Accept
<1>10. ASSUME NEW s \in Switch, ReleaseLock(s), UNCHANGED <<events, disk, cache>>
       PROVE  EventInv'
  BY <1>5, <1>10 DEF ReleaseLock, TypeInv, TypeOK
<1>11. ASSUME NEW s \in Switch,
              RejectReplay(s) \/ FinishFirstTrust(s) \/ RejectStatus(s) \/ SaveRaised(s)
       PROVE  EventInv'
  BY <1>10, <1>11 DEF RejectReplay, FinishFirstTrust, RejectStatus, SaveRaised
<1>12. ASSUME WriteDone \/ WriteFails PROVE EventInv'
  <2>1. writes # <<>> /\ writes' = Tail(writes) /\ TypeOK
    BY <1>12 DEF TypeInv, WriteDone, WriteFails
  <2>2. \A s \in Switch : disk[s] <= disk'[s]
    BY <1>12, <1>3, <2>1, SaveEnds DEF StoreInv, RisingChain, WriteDone, WriteFails
  <2>3. \A s \in Switch : stage'[s] \in {"advancing", "advanced"} =>
          stage[s] \in {"advancing", "advanced"}
    BY <1>12, <2>1, SaveEnds
    DEF TypeInv, SaveHasTask, Saving, WriteDone, WriteFails, Resumed
  <2>4. UNCHANGED <<cache, events>>
    BY <1>12 DEF WriteDone, WriteFails
  <2>5. EventsBelowHead'
    BY <2>3, <2>4 DEF EventInv, EventsBelowHead
  <2>6. QED
    BY <1>2, <2>2, <2>4, <2>5 DEF EventInv
<1>13. CASE Restart
  BY <1>5, <1>13 DEF Restart
<1>14. CASE UNCHANGED vars
  BY <1>5, <1>14 DEF vars
<1>15. QED
  BY <1>1, <1>6, <1>7, <1>8, <1>9, <1>11, <1>12, <1>13, <1>14 DEF Next, Task

\* There is no event at first.
LEMMA EventInit == Init => EventInv
BY DEF Init, EventInv, EventsBelowHead, DurableBeforeEvent, EventsStrictlyRise

\* Events are durable and rise in every reachable state.
LEMMA EventCorrect == Spec => [](TypeInv /\ StoreInv /\ EventInv)
<1>1. Spec => []EventInv
  BY StoreCorrect, EventInit, EventStep, PTL DEF Spec
<1>2. QED
  BY <1>1, StoreCorrect, PTL

\* The accepted counter is in the file before the event can be observed, in
\* every reachable state of every installation.
THEOREM DurableFirst == Spec => []DurableBeforeEvent
BY EventCorrect, PTL DEF EventInv

\* No counter fires twice, in one run or across restarts, and events of one
\* switch never come out of order.
THEOREM AtMostOnce == Spec => []EventsStrictlyRise
BY EventCorrect, PTL DEF EventInv

-----------------------------------------------------------------------------
(* First trust. *)

BaselineInv == CountersHaveBaseline /\ EventsHaveBaseline

\* No counter is known at first.
LEMMA BaselineInit == Init => BaselineInv
BY CounterAssumption
DEF Init, BaselineInv, CountersHaveBaseline, EventsHaveBaseline, HasBaseline,
    NoRecord

\* A counter comes from a first trust or from one above what was there before.
LEMMA BaselineStep ==
  TypeInv /\ TypeInv' /\ StoreInv /\ EventInv /\ BaselineInv /\ [Next]_vars
    => BaselineInv'
<1> SUFFICES ASSUME TypeInv, TypeInv', StoreInv, EventInv, BaselineInv, [Next]_vars
    PROVE  BaselineInv'
  OBVIOUS
<1>1. ASSUME UNCHANGED <<trusted, events>>, CountersHaveBaseline' PROVE BaselineInv'
  BY <1>1 DEF BaselineInv, EventsHaveBaseline
<1>2. ASSUME UNCHANGED <<trusted, cache, disk, writes>>,
             \A s \in Switch : stage'[s] \in {"advancing", "advanced"} =>
               stage[s] \in {"advancing", "advanced"}
      PROVE  CountersHaveBaseline'
  BY <1>2 DEF BaselineInv, CountersHaveBaseline, HasBaseline
<1>3. ASSUME NEW s \in Switch, Radio(s) PROVE BaselineInv'
  BY <1>1, <1>2, <1>3 DEF Radio, RejectAdvertisement, CreateTask
<1>4. ASSUME NEW s \in Switch, ReleaseLock(s) PROVE
        \A r \in Switch : stage'[r] \in {"advancing", "advanced"} =>
               stage[r] \in {"advancing", "advanced"}
  BY <1>4 DEF ReleaseLock, TypeInv, TypeOK
<1>5. ASSUME NEW s \in Switch,
             RejectReplay(s) \/ FinishFirstTrust(s) \/ RejectStatus(s) \/ SaveRaised(s)
      PROVE  BaselineInv'
  BY <1>1, <1>2, <1>4, <1>5
  DEF RejectReplay, FinishFirstTrust, RejectStatus, SaveRaised
<1>6. ASSUME NEW s \in Switch, Fire(s) PROVE BaselineInv'
  <2>1. CountersHaveBaseline'
    BY <1>2, <1>4, <1>6 DEF Fire
  <2>2. \E b \in trusted[s] : b < Telegram(s).counter
    BY <1>6, FiredCounter DEF BaselineInv, CountersHaveBaseline, Fire
  <2>3. EventsHaveBaseline'
    BY <1>6, <2>2, FireAppends DEF BaselineInv, EventsHaveBaseline, Fire
  <2>4. QED
    BY <2>1, <2>3 DEF BaselineInv
<1>7. ASSUME WriteDone \/ WriteFails PROVE BaselineInv'
  <2>1. writes # <<>> /\ writes' = Tail(writes) /\ TypeOK
    BY <1>7 DEF TypeInv, WriteDone, WriteFails
  <2>2. \A s \in Switch : stage'[s] \in {"advancing", "advanced"} =>
          stage[s] \in {"advancing", "advanced"}
    BY <1>7, <2>1, SaveEnds
    DEF TypeInv, SaveHasTask, Saving, WriteDone, WriteFails, Resumed
  <2>3. UNCHANGED <<trusted, events, cache>> /\ disk' \in {disk, writes[1].data}
    BY <1>7, <2>1, SaveEnds DEF WriteDone, WriteFails
  <2>4. \A s \in Switch : HasBaseline(trusted'[s], disk'[s])
    BY <2>1, <2>3, SaveEnds DEF BaselineInv, CountersHaveBaseline
  <2>5. \A s \in Switch : \A i \in DOMAIN writes' : HasBaseline(trusted'[s], writes'[i].data[s])
    BY <2>1, <2>3, SaveEnds DEF BaselineInv, CountersHaveBaseline
  <2>6. CountersHaveBaseline'
    BY <2>2, <2>3, <2>4, <2>5 DEF BaselineInv, CountersHaveBaseline
  <2>7. QED
    BY <1>1, <2>3, <2>6
<1>8. ASSUME NEW s \in Switch, NEW value \in Value, NEW owner \in Switch \cup {Wizard},
             set_counter(s, value), async_save(owner), UNCHANGED <<disk, events>>,
             \A r \in Switch : trusted[r] \subseteq trusted'[r],
             HasBaseline(trusted'[s], value),
             \A r \in Switch : stage'[r] \in {"advancing", "advanced"} =>
               \/ r # s /\ stage[r] \in {"advancing", "advanced"}
               \/ r = s /\ \E b \in trusted'[s] : b < value
      PROVE  BaselineInv'
  <2>1. PICK n \in Nat :
          /\ \A i \in DOMAIN writes : i \in Nat /\ i < n
          /\ \A i \in DOMAIN writes' :
               \/ i \in DOMAIN writes /\ writes'[i] = writes[i]
               \/ i = n /\ writes'[i].by = owner /\ writes'[i].data = cache'
    BY <1>8, AsyncSaveAppends DEF TypeInv, TypeOK
  <2>2. cache'[s] = value /\ \A r \in Switch : r # s => cache'[r] = cache[r]
    BY <1>8 DEF TypeInv, TypeOK, Snapshot, set_counter
  <2>3. \A r \in Switch : HasBaseline(trusted'[r], cache'[r])
    BY <1>8, <2>2 DEF BaselineInv, CountersHaveBaseline, HasBaseline
  <2>4. \A r \in Switch : HasBaseline(trusted'[r], disk'[r])
    BY <1>8 DEF BaselineInv, CountersHaveBaseline, HasBaseline
  <2>5. \A r \in Switch : \A i \in DOMAIN writes' : HasBaseline(trusted'[r], writes'[i].data[r])
    BY <1>8, <2>1, <2>3 DEF BaselineInv, CountersHaveBaseline, HasBaseline
  <2>6. \A r \in Switch : stage'[r] \in {"advancing", "advanced"} =>
          \E b \in trusted'[r] : b < cache'[r]
    BY <1>8, <2>2 DEF BaselineInv, CountersHaveBaseline
  <2>7. CountersHaveBaseline'
    BY <2>3, <2>4, <2>5, <2>6 DEF CountersHaveBaseline
  <2>8. EventsHaveBaseline'
    BY <1>8 DEF BaselineInv, EventsHaveBaseline
  <2>9. QED
    BY <2>7, <2>8 DEF BaselineInv
<1>9. ASSUME NEW s \in Switch, async_add(s) PROVE BaselineInv'
  <2>1. stage[s] = "idle" /\ NoCounter \in Value
    BY <1>9 DEF TypeInv, LockHasHolder, StoreInv, TasksHaveRecord, async_add, Value
  <2>2. HasBaseline(trusted'[s], NoCounter)
    BY CounterAssumption DEF HasBaseline, NoCounter
  <2>3. QED
    BY <1>8, <1>9, <2>1, <2>2 DEF async_add
<1>10. ASSUME NEW s \in Switch, FirstTrust(s) PROVE BaselineInv'
  <2>1. Telegram(s).counter \in Counter /\ Telegram(s).counter \in Value
        /\ Telegram(s).counter \in Nat
    BY <1>10, HeadType DEF FirstTrust, HasLock, TypeInv, Value
  <2>2. /\ Telegram(s).counter \in trusted'[s]
        /\ \A r \in Switch : trusted[r] \subseteq trusted'[r]
    BY <1>10 DEF FirstTrust, TypeInv, TypeOK
  <2>3. HasBaseline(trusted'[s], Telegram(s).counter)
    BY <2>1, <2>2 DEF HasBaseline
  <2>4. \A r \in Switch : stage'[r] \in {"advancing", "advanced"} =>
               r # s /\ stage[r] \in {"advancing", "advanced"}
    BY <1>10 DEF FirstTrust, TypeInv, TypeOK
  <2>5. QED
    BY <1>8, <1>10, <2>1, <2>2, <2>3, <2>4 DEF FirstTrust
<1>11. ASSUME NEW s \in Switch, Accept(s) PROVE BaselineInv'
  <2>1. Telegram(s).counter \in Counter /\ Telegram(s).counter \in Value
        /\ Telegram(s).counter \in Int
    BY <1>11, HeadType DEF Accept, HasLock, TypeInv, Value
  <2>2. cache[s] \in Counter
    BY <1>11 DEF Accept, HasLock, StoreInv, TasksHaveRecord, TypeInv, TypeOK,
                 Snapshot, Value
  <2>3. PICK b \in trusted[s] : b <= cache[s]
    BY <2>2 DEF BaselineInv, CountersHaveBaseline, HasBaseline
  <2>4. b \in Nat /\ cache[s] \in Nat /\ cache[s] < Telegram(s).counter
    <3>1. b \in Counter
      BY <2>3 DEF TypeInv, TypeOK
    <3>2. b \in Nat /\ cache[s] \in Nat
      BY <2>2, <3>1, CounterAssumption
    <3>3. QED
      BY <1>11, <2>1, <3>2 DEF Accept
  <2>5. b < Telegram(s).counter /\ b <= Telegram(s).counter
    BY <2>1, <2>3, <2>4
  <2>6. trusted' = trusted
    BY <1>11 DEF Accept
  <2>7. HasBaseline(trusted'[s], Telegram(s).counter)
    BY <2>5, <2>6 DEF HasBaseline
  <2>8. \A r \in Switch : r # s => stage'[r] = stage[r]
    BY <1>11 DEF Accept, TypeInv, TypeOK
  <2>9. \A r \in Switch : stage'[r] \in {"advancing", "advanced"} =>
               \/ r # s /\ stage[r] \in {"advancing", "advanced"}
               \/ r = s /\ \E c \in trusted'[s] : c < Telegram(s).counter
    BY <2>5, <2>6, <2>8
  <2>10. QED
    BY <1>8, <1>11, <2>1, <2>6, <2>7, <2>9 DEF Accept
<1>12. CASE Restart
  BY <1>1, <1>12 DEF Restart, BaselineInv, CountersHaveBaseline, HasBaseline
<1>13. CASE UNCHANGED vars
  BY <1>13 DEF vars, BaselineInv, CountersHaveBaseline, EventsHaveBaseline, HasBaseline
<1>14. QED
  BY <1>3, <1>5, <1>6, <1>7, <1>9, <1>10, <1>11, <1>12, <1>13 DEF Next, Task

\* No event is fired by the telegram that set a switch's baseline nor by an
\* older one, whatever saves fail and whenever the system restarts.
THEOREM FirstTrustIsSilent == Spec => []EventsHaveBaseline
<1>1. Spec => []BaselineInv
  BY EventCorrect, BaselineInit, BaselineStep, PTL DEF Spec
<1>2. QED
  BY <1>1, PTL DEF BaselineInv

\* The conjunction the runs check is an invariant for every instance.
THEOREM Inductive == Spec => []IInv
<1>1. Spec => []BaselineInv
  BY EventCorrect, BaselineInit, BaselineStep, PTL DEF Spec
<1>2. TypeInv /\ StoreInv /\ EventInv /\ BaselineInv => IInv
  BY DEF TypeInv, StoreInv, EventInv, BaselineInv, IInv
<1>3. QED
  BY <1>1, <1>2, EventCorrect, PTL

-----------------------------------------------------------------------------
(* Diagnostics. *)

\* The end of a task takes one telegram off the switch's queue.
LEMMA ReleaseLockShortens ==
  ASSUME TypeInv, NEW s \in Switch, ReleaseLock(s), queue[s] # <<>>
  PROVE  /\ Len(queue'[s]) = Len(queue[s]) - 1
         /\ \A r \in Switch : r # s => queue'[r] = queue[r]
<1>1. queue[s] \in Seq(Ptm216bTelegram) /\ queue'[s] = Tail(queue[s])
  BY DEF TypeInv, TypeOK, ReleaseLock
<1>2. Len(queue'[s]) = Len(queue[s]) - 1
  BY <1>1
<1>3. QED
  BY <1>2 DEF TypeInv, TypeOK, ReleaseLock

\* Every step moves one telegram between the counts, or lets one in.
LEMMA CountStep ==
  TypeInv /\ TypeInv' /\ EachTelegramCountedOnce /\ [Next]_vars
    => EachTelegramCountedOnce'
<1> SUFFICES ASSUME TypeInv, TypeInv', EachTelegramCountedOnce, [Next]_vars,
                    NEW r \in Switch
    PROVE  received'[r] = verified_count'[r] + rejected_count'[r] + silent'[r]
                            + Len(queue'[r])
  BY DEF EachTelegramCountedOnce
<1>n1. received[r] \in Nat
  BY DEF TypeInv, TypeOK
<1>n2. verified_count[r] \in Nat
  BY DEF TypeInv, TypeOK
<1>n3. rejected_count[r] \in Nat
  BY DEF TypeInv, TypeOK
<1>n4. silent[r] \in Nat
  BY DEF TypeInv, TypeOK
<1>n5. Len(queue[r]) \in Nat
  BY DEF TypeInv, TypeOK
<1>1. received[r] = verified_count[r] + rejected_count[r] + silent[r]
                      + Len(queue[r])
  BY DEF EachTelegramCountedOnce
<1>2. CASE UNCHANGED <<received, verified_count, rejected_count, silent, queue>>
  BY <1>1, <1>2
<1>3. ASSUME NEW s \in Switch, RejectAdvertisement(s)
      PROVE  received'[r] = verified_count'[r] + rejected_count'[r] + silent'[r]
                              + Len(queue'[r])
  <2>1. \/ s # r /\ received'[r] = received[r] /\ rejected_count'[r] = rejected_count[r]
        \/ received'[r] = received[r] + 1 /\ rejected_count'[r] = rejected_count[r] + 1
    BY <1>3 DEF TypeInv, TypeOK, RejectAdvertisement
  <2>2. /\ verified_count'[r] = verified_count[r]
        /\ silent'[r] = silent[r]
        /\ Len(queue'[r]) = Len(queue[r])
    BY <1>3 DEF RejectAdvertisement
  <2>3. QED
    <3>1. CASE s # r /\ received'[r] = received[r] /\ rejected_count'[r] = rejected_count[r]
      BY <1>1, <2>2, <3>1
    <3>2. CASE received'[r] = received[r] + 1 /\ rejected_count'[r] = rejected_count[r] + 1
      <4>1. received[r] + 1 = verified_count[r] + (rejected_count[r] + 1) + silent[r]
                                + Len(queue[r])
        BY <1>n1, <1>n2, <1>n3, <1>n4, <1>n5, <1>1, SMTT(60)
      <4>2. QED
        BY <2>2, <3>2, <4>1
    <3>3. QED
      BY <2>1, <3>1, <3>2
<1>4. ASSUME NEW s \in Switch, NEW t \in Ptm216bTelegram, CreateTask(s, t)
      PROVE  received'[r] = verified_count'[r] + rejected_count'[r] + silent'[r]
                              + Len(queue'[r])
  <2>1. CASE s # r
    <3>1. received'[r] = received[r] /\ queue'[r] = queue[r]
      BY <1>4, <2>1 DEF TypeInv, TypeOK, CreateTask
    <3>2. QED
      BY <1>1, <1>4, <3>1 DEF CreateTask
  <2>2. CASE s = r
    <3>1. received'[r] = received[r] + 1 /\ queue'[r] = Append(queue[r], t)
      BY <1>4, <2>2 DEF TypeInv, TypeOK, CreateTask
    <3>2. queue[r] \in Seq(Ptm216bTelegram)
      BY DEF TypeInv, TypeOK
    <3>3. Len(queue'[r]) = Len(queue[r]) + 1
      BY <3>1, <3>2
    <3>4. /\ verified_count'[r] = verified_count[r]
          /\ rejected_count'[r] = rejected_count[r]
          /\ silent'[r] = silent[r]
      BY <1>4 DEF CreateTask
    <3>5. QED
      <4>1. received[r] + 1 = verified_count[r] + rejected_count[r] + silent[r]
                                + (Len(queue[r]) + 1)
        BY <1>n1, <1>n2, <1>n3, <1>n4, <1>n5, <1>1, SMTT(60)
      <4>2. QED
        BY <3>1, <3>3, <3>4, <4>1
  <2>3. QED
    BY <2>1, <2>2
<1>5. ASSUME NEW s \in Switch, RejectReplay(s) \/ RejectStatus(s)
      PROVE  received'[r] = verified_count'[r] + rejected_count'[r] + silent'[r]
                              + Len(queue'[r])
  <2>1. ReleaseLock(s) /\ queue[s] # <<>>
    BY <1>5 DEF TypeInv, LockHasHolder, RejectReplay, RejectStatus, HasLock
  <2>2. /\ received'[r] = received[r]
        /\ verified_count'[r] = verified_count[r]
        /\ silent'[r] = silent[r]
    BY <1>5 DEF RejectReplay, RejectStatus
  <2>3. \/ s # r /\ rejected_count'[r] = rejected_count[r]
        \/ s = r /\ rejected_count'[r] = rejected_count[r] + 1
    BY <1>5 DEF TypeInv, TypeOK, RejectReplay, RejectStatus
  <2>4. \/ s # r /\ Len(queue'[r]) = Len(queue[r])
        \/ s = r /\ Len(queue'[r]) = Len(queue[r]) - 1
    BY <2>1, ReleaseLockShortens
  <2>5. CASE s # r
    BY <1>1, <2>2, <2>3, <2>4, <2>5
  <2>6. CASE s = r
    <3>1. received[r] = verified_count[r] + (rejected_count[r] + 1) + silent[r]
                          + (Len(queue[r]) - 1)
      BY <1>n1, <1>n2, <1>n3, <1>n4, <1>n5, <1>1, SMTT(60)
    <3>2. QED
      BY <2>2, <2>3, <2>4, <2>6, <3>1
  <2>7. QED
    BY <2>5, <2>6
<1>6. ASSUME NEW s \in Switch, FinishFirstTrust(s) \/ SaveRaised(s)
      PROVE  received'[r] = verified_count'[r] + rejected_count'[r] + silent'[r]
                              + Len(queue'[r])
  <2>1. ReleaseLock(s) /\ queue[s] # <<>>
    BY <1>6 DEF TypeInv, LockHasHolder, FinishFirstTrust, SaveRaised
  <2>2. /\ received'[r] = received[r]
        /\ verified_count'[r] = verified_count[r]
        /\ rejected_count'[r] = rejected_count[r]
    BY <1>6 DEF FinishFirstTrust, SaveRaised
  <2>3. \/ s # r /\ silent'[r] = silent[r]
        \/ s = r /\ silent'[r] = silent[r] + 1
    BY <1>6 DEF TypeInv, TypeOK, FinishFirstTrust, SaveRaised
  <2>4. \/ s # r /\ Len(queue'[r]) = Len(queue[r])
        \/ s = r /\ Len(queue'[r]) = Len(queue[r]) - 1
    BY <2>1, ReleaseLockShortens
  <2>5. CASE s # r
    BY <1>1, <2>2, <2>3, <2>4, <2>5
  <2>6. CASE s = r
    <3>1. received[r] = verified_count[r] + rejected_count[r] + (silent[r] + 1)
                          + (Len(queue[r]) - 1)
      BY <1>n1, <1>n2, <1>n3, <1>n4, <1>n5, <1>1, SMTT(60)
    <3>2. QED
      BY <2>2, <2>3, <2>4, <2>6, <3>1
  <2>7. QED
    BY <2>5, <2>6
<1>7. ASSUME NEW s \in Switch, Fire(s)
      PROVE  received'[r] = verified_count'[r] + rejected_count'[r] + silent'[r]
                              + Len(queue'[r])
  <2>1. ReleaseLock(s) /\ queue[s] # <<>>
    BY <1>7 DEF TypeInv, LockHasHolder, Fire
  <2>2. /\ received'[r] = received[r]
        /\ rejected_count'[r] = rejected_count[r]
        /\ silent'[r] = silent[r]
    BY <1>7 DEF Fire
  <2>3. \/ s # r /\ verified_count'[r] = verified_count[r]
        \/ s = r /\ verified_count'[r] = verified_count[r] + 1
    BY <1>7 DEF TypeInv, TypeOK, Fire
  <2>4. \/ s # r /\ Len(queue'[r]) = Len(queue[r])
        \/ s = r /\ Len(queue'[r]) = Len(queue[r]) - 1
    BY <2>1, ReleaseLockShortens
  <2>5. CASE s # r
    BY <1>1, <2>2, <2>3, <2>4, <2>5
  <2>6. CASE s = r
    <3>1. received[r] = (verified_count[r] + 1) + rejected_count[r] + silent[r]
                          + (Len(queue[r]) - 1)
      BY <1>n1, <1>n2, <1>n3, <1>n4, <1>n5, <1>1, SMTT(60)
    <3>2. QED
      BY <2>2, <2>3, <2>4, <2>6, <3>1
  <2>7. QED
    BY <2>5, <2>6
<1>8. CASE Restart
  BY <1>8 DEF Restart
<1>9. QED
  BY <1>2, <1>3, <1>4, <1>5, <1>6, <1>7, <1>8
  DEF Next, Radio, Task, async_add, FirstTrust, Accept, WriteDone, WriteFails, vars

\* Every telegram received since the restart raises exactly one diagnostic
\* count, or ends silently, or still has its task.
THEOREM CountedOnce == Spec => []EachTelegramCountedOnce
<1>1. Init => EachTelegramCountedOnce
  BY DEF Init, EachTelegramCountedOnce
<1>2. QED
  BY <1>1, TypeInit, TypeStep, CountStep, PTL DEF Spec

-----------------------------------------------------------------------------
(* Refinement. *)

\* The pipeline, with its tasks, locks, cache and saves hidden, implements
\* ReplayGate: every step is a write of the file that lowers nothing, the
\* firing of an event the file already covers, or a stutter.
THEOREM ImplementsGate == Spec => GateSpec
<1>1. Init => Gate!Init
  BY DEF Init, Gate!Init, NoRecord, Gate!NoRecord
<1>2. TypeInv /\ TypeInv' /\ StoreInv /\ EventInv /\ [Next]_vars
        => [Gate!Next]_(Gate!vars)
  <2> SUFFICES ASSUME TypeInv, TypeInv', StoreInv, EventInv, [Next]_vars
      PROVE  Gate!Next \/ UNCHANGED <<disk, events>>
    BY DEF Gate!vars
  <2>1. CASE WriteDone
    <3>1. disk' \in [Switch -> Gate!Value]
      BY DEF TypeInv, TypeOK, Snapshot, Value, Gate!Value, NoRecord, NoCounter,
             Gate!NoRecord, Gate!NoCounter
    <3>2. \A s \in Switch : disk[s] <= disk'[s]
      BY <2>1, SaveEnds DEF TypeInv, StoreInv, RisingChain, WriteDone
    <3>3. QED
      BY <2>1, <3>1, <3>2 DEF Gate!Next, Gate!Persist, WriteDone
  <2>2. ASSUME NEW s \in Switch, Fire(s)
        PROVE  Gate!Fire(s, Telegram(s)) /\ Telegram(s) \in Gate!Event
    <3>1. Telegram(s) \in Gate!Event
      BY <2>2, HeadType DEF TypeInv, LockHasHolder, Fire, Ptm216bTelegram, Gate!Event
    <3>2. Telegram(s).counter <= disk[s]
      BY <2>2, FiredCounter, CounterTypes
    <3>3. Gate!Decodes(Telegram(s).status)
      BY <2>2
      DEF Fire, Decodes, button_bits, BUTTON_BIT_PATTERNS, Gate!Decodes,
          Gate!button_bits, Gate!BUTTON_BIT_PATTERNS
    <3>4. Gate!Fire(s, Telegram(s))
      BY <2>2, <3>2, <3>3, FiredCounter DEF Gate!Fire, Fire
    <3>5. QED
      BY <3>1, <3>4
  <2>3. CASE UNCHANGED <<disk, events>>
    BY <2>3
  <2>4. QED
    BY <2>1, <2>2, <2>3
    DEF Next, Radio, Task, async_add, RejectAdvertisement, CreateTask,
        FirstTrust, Accept, RejectReplay, FinishFirstTrust, RejectStatus,
        SaveRaised, WriteFails, Restart, vars, Gate!Next
<1>3. QED
  BY <1>1, <1>2, EventCorrect, PTL DEF Spec, GateSpec, Gate!Spec
=============================================================================
